------------------------------ MODULE HookSession ------------------------------
(***************************************************************************)
(* winvibe-hookcli end to end: the PreToolUse command submits over HTTP,   *)
(* polls until it has a decision or its time is up, and prints a verdict   *)
(* for the agent (crates/winvibe-hookcli/src/commands/pre_tool_use.rs,     *)
(* http_client.rs), against the handlers of the hook server, the HUD and   *)
(* the exit sequence of the application.                                   *)
(*                                                                         *)
(* Each process draws a fresh approval id, so an id names its process.  A  *)
(* call connects, its request is under way, is served, perhaps held, and   *)
(* the answer is under way; the interleavings inside the server are        *)
(* ApprovalRuntime.  A message arrives whole, within Delay or never; who   *)
(* waits for one that is lost has only the read timeout.                   *)
(*                                                                         *)
(* Time is a counter.  It does not pass while a timer is due: a deadline   *)
(* is met at its tick, and what the program does without waiting takes no  *)
(* time.  The user is free.                                                *)
(***************************************************************************)
EXTENDS ApprovalStore

CONSTANTS
  TTL,              \* approval_ttl_ms: 300 s
  MaxTotal,         \* --max-time: 310 s
  MaxWait,          \* how long the server holds a call: 25 s
  ConnectTimeout,   \* 5 s
  ReadTimeout,      \* 30 s, from the end of the request to the answer
  Delay,            \* a bound on the way of a message that arrives
  Pause,            \* between two polls: 0.5 s
  ApproveOnTimeout, \* the processes that read timeout_action = "approve"
  Horizon           \* bound on the clock

(* The client reads for longer than the server holds a call.  The history of
   resolutions is kept from what the store remembers, so it must remember the last
   one. *)
ASSUME HookAssumption ==
  /\ {TTL, MaxTotal, MaxWait, ConnectTimeout, ReadTimeout, Delay, Pause, Horizon}
       \subseteq Nat
  /\ MaxWait < ReadTimeout
  /\ Pause > 0
  /\ MaxCached > 0
  /\ ApproveOnTimeout \subseteq Ids

VARIABLES
  store,      \* the approval store of the server
  now,        \* the clock
  server,     \* "up", "closing" after begin_shutdown, "stopped"
  hint,       \* an event has been emitted and the HUD has not fetched since
  hook,       \* id -> where its process and its call are
  resolved    \* id -> the decision its approval took, however long ago

vars == <<store, now, server, hint, hook, resolved>>

(* since: when the client began to wait for what it waits for; held: when the server
   began to hold the call, or answered it; answer: what it answered. *)
Fresh == [pc |-> "new", began |-> 0, since |-> 0, held |-> 0, answer |-> "none",
          exit |-> "none", printed |-> "none", why |-> "none"]

Init ==
  /\ store = NewStore
  /\ now = 0
  /\ server = "up"
  /\ hint = FALSE
  /\ hook = [h \in Ids |-> Fresh]
  /\ resolved = [h \in Ids |-> "none"]

At(h, pc) == hook[h].pc = pc
Goto(h, pc) ==
  hook' = [hook EXCEPT ![h].pc = pc, ![h].since = now, ![h].held = now, ![h].answer = "none"]
End(h, exit, printed, why) ==
  hook' = [hook EXCEPT ![h] = [Fresh EXCEPT !.pc = "done", !.exit = exit,
                                            !.printed = printed, !.why = why]]
FailClosed(h, why) == End(h, "FailClosed", "none", why)

(* Every action that changes the store keeps the history of resolutions. *)
Update(s) ==
  /\ store' = s
  /\ resolved' = [h \in Ids |->
       IF resolved[h] = "none" /\ Knows(s, h) /\ IsDecided(s.by_id[h])
         THEN s.by_id[h].state ELSE resolved[h]]

--------------------------------------------------------------------------------
(* map_decision_to_hook_json *)

\* mutant of HookDecision: a cancelled approval is let through
HookDecisionCancelApproves(h, decision) ==
  CASE decision \in {"Approved", "Cancelled"} -> "approve"
    [] decision = "Denied"   -> "block"
    [] decision = "TimedOut" -> IF h \in ApproveOnTimeout THEN "approve" ELSE "block"

HookDecision(h, decision) ==
  CASE decision = "Approved" -> "approve"
    [] decision = "Denied"   -> "block"
    [] decision \in {"TimedOut", "Cancelled"} ->
         IF h \in ApproveOnTimeout THEN "approve" ELSE "block"

(* A decided reply is printed and the process succeeds. *)
Emit(h, decision) == End(h, "ProtocolSuccess", HookDecision(h, decision), "decided")

--------------------------------------------------------------------------------
(* main and run_pre_tool_use *)

(* The configuration cannot be loaded (ConfigFile says when). *)
ConfigFails(h) ==
  /\ At(h, "new")
  /\ End(h, "ConfigError", "none", "start")
  /\ UNCHANGED <<store, now, server, hint, resolved>>

(* The standard input cannot be read, is too long, or is not a payload. *)
InputFails(h) ==
  /\ At(h, "new")
  /\ FailClosed(h, "start")
  /\ UNCHANGED <<store, now, server, hint, resolved>>

SendSubmit(h) ==
  /\ At(h, "new")
  /\ hook' = [hook EXCEPT ![h].pc = "submitting", ![h].began = now, ![h].since = now,
                          ![h].held = now]
  /\ UNCHANGED <<store, now, server, hint, resolved>>

\* mutant of CheckDeadline: the loop does not end
CheckDeadlineNever(h) ==
  /\ At(h, "check")
  /\ Goto(h, "pausing")
  /\ UNCHANGED <<store, now, server, hint, resolved>>

(* The head of the loop: out of time, or one more pause and poll. *)
CheckDeadline(h) ==
  /\ At(h, "check")
  /\ IF now >= hook[h].began + MaxTotal THEN FailClosed(h, "deadline")
                                        ELSE Goto(h, "pausing")
  /\ UNCHANGED <<store, now, server, hint, resolved>>

\* mutant of SendPoll: the deadline is looked at after the pause
SendPollChecksDeadline(h) ==
  /\ At(h, "pausing")
  /\ now >= hook[h].since + Pause
  /\ IF now >= hook[h].began + MaxTotal THEN FailClosed(h, "deadline")
                                        ELSE Goto(h, "polling")
  /\ UNCHANGED <<store, now, server, hint, resolved>>

SendPoll(h) ==
  /\ At(h, "pausing")
  /\ now >= hook[h].since + Pause
  /\ Goto(h, "polling")
  /\ UNCHANGED <<store, now, server, hint, resolved>>

(* The connection stands, and the request is sent. *)
Connect(h) ==
  /\ hook[h].pc \in {"submitting", "polling"}
  /\ server # "stopped"
  /\ Goto(h, IF At(h, "submitting") THEN "submitted" ELSE "polled")
  /\ UNCHANGED <<store, now, server, hint, resolved>>

(* The client waits for an answer, or for its end. *)
Reading(h) ==
  hook[h].pc \in {"submitted", "arrived", "submit_held", "polled", "poll_held", "answered"}

(* Connection refused or reset, no connection or no answer in time, an unreadable
   answer: no retry. *)
WireFails(h) ==
  /\ hook[h].pc \in {"submitting", "polling"} \/ Reading(h)
  /\ FailClosed(h, "wire")
  /\ UNCHANGED <<store, now, server, hint, resolved>>

(* What is answered in time is read: pending, a decision, or an error. *)
Receive(h) ==
  /\ At(h, "answered")
  /\ now <= hook[h].held + Delay
  /\ \/ /\ hook[h].answer = "pending"
        /\ Goto(h, "check")
     \/ /\ hook[h].answer \in Decisions
        /\ Emit(h, hook[h].answer)
     \/ /\ hook[h].answer \in {"busy", "shutdown", "gone"}
        /\ FailClosed(h, hook[h].answer)
  /\ UNCHANGED <<store, now, server, hint, resolved>>

(* The agent gives up on its hook.  The server is not told. *)
Killed(h) ==
  /\ hook[h].pc \notin {"new", "done"}
  /\ End(h, "killed", "none", "killed")
  /\ UNCHANGED <<store, now, server, hint, resolved>>

--------------------------------------------------------------------------------
(* handle_submit and handle_poll *)

Answer(h, answer) ==
  hook' = [hook EXCEPT ![h].pc = "answered", ![h].held = now, ![h].answer = answer]

(* The server holds the call from now on. *)
Hold(h, pc) == hook' = [hook EXCEPT ![h].pc = pc, ![h].held = now]

(* The request is there, and the flag is looked at before the store. *)
SubmitArrives(h) ==
  /\ At(h, "submitted")
  /\ now <= hook[h].since + Delay
  /\ \/ server = "up" /\ Hold(h, "arrived")
     \/ server = "closing" /\ Answer(h, "shutdown")
  /\ UNCHANGED <<store, now, server, hint, resolved>>

\* mutant of ServeSubmit: what is due is not expired first
ServeSubmitUnexpired(h) ==
  /\ At(h, "arrived")
  /\ \E fp \in Fingerprints :
       /\ Update(Enqueue(store, h, fp, now, TTL))
       /\ IF EnqueueOutcome(store, h, fp) = "Created"
            THEN Hold(h, "submit_held") /\ hint' = TRUE
            ELSE Answer(h, "busy") /\ UNCHANGED hint
  /\ UNCHANGED <<now, server>>

(* A new approval is held for a decision; a second one is refused as busy. *)
ServeSubmit(h) ==
  LET expired == ExpireDuePending(store, now)
  IN /\ At(h, "arrived")
     /\ \E fp \in Fingerprints :
          /\ Update(Enqueue(expired, h, fp, now, TTL))
          /\ IF EnqueueOutcome(expired, h, fp) = "Created"
               THEN Hold(h, "submit_held") /\ hint' = TRUE
               ELSE Answer(h, "busy") /\ UNCHANGED hint
     /\ UNCHANGED <<now, server>>

(* poll_decision reads the store as it is: unknown, decided, or to be held. *)
ServePoll(h) ==
  /\ At(h, "polled")
  /\ now <= hook[h].since + Delay
  /\ server # "stopped"
  /\ \/ /\ ~ Knows(store, h)
        /\ Answer(h, "gone")
     \/ /\ Knows(store, h) /\ IsDecided(store.by_id[h])
        /\ Answer(h, store.by_id[h].state)
     \/ /\ Knows(store, h) /\ IsPending(store.by_id[h])
        /\ Hold(h, "poll_held")
  /\ UNCHANGED <<store, now, server, hint, resolved>>

Held(h) == hook[h].pc \in {"submit_held", "poll_held"}
WaitIsOver(h) == now >= hook[h].held + MaxWait

(* Deciding and cancelling send a tick, expiry does not. *)
Woken(h) == resolved[h] \in UserDecisions \cup {"Cancelled"}

(* Woken, or at the end of the wait, the store is read again. *)
AnswerDecided(h) ==
  /\ Held(h) /\ (Woken(h) \/ WaitIsOver(h))
  /\ Knows(store, h) /\ IsDecided(store.by_id[h])
  /\ Answer(h, store.by_id[h].state)
  /\ UNCHANGED <<store, now, server, hint, resolved>>

(* A poll that lost the race for its channel is answered pending at once. *)
AnswerPending(h) ==
  /\ Held(h)
  /\ \/ (Woken(h) \/ WaitIsOver(h))
        /\ ~ (Knows(store, h) /\ IsDecided(store.by_id[h]))
     \/ At(h, "poll_held") /\ Woken(h) /\ hook[h].held = now
  /\ Answer(h, "pending")
  /\ UNCHANGED <<store, now, server, hint, resolved>>

--------------------------------------------------------------------------------
(* The application: HUD commands and the exit sequence. *)

HudDecide(h, decision) ==
  LET expired == ExpireDuePending(store, now)
  IN /\ Update(Decide(expired, h, decision))
     /\ hint' = (hint \/ DecideOutcome(expired, h) = "Ok")
     /\ UNCHANGED <<now, server, hook>>

(* The HUD fetches when it is told that something happened, and only then. *)
HudSnapshot ==
  /\ hint
  /\ hint' = FALSE
  /\ Update(ExpireDuePending(store, now))
  /\ UNCHANGED <<now, server, hook>>

BeginClose ==
  /\ server = "up"
  /\ server' = "closing"
  /\ Update(Cancel(store, store.active))
  /\ hint' = (hint \/ store.active # NoId)
  /\ UNCHANGED <<now, hook>>

(* The graceful shutdown waits for the calls it has. *)
StopServer ==
  /\ server = "closing"
  /\ \A h \in Ids : ~ At(h, "arrived") /\ ~ Held(h)
  /\ server' = "stopped"
  /\ UNCHANGED <<store, now, hint, hook, resolved>>

(* Time does not run past a timer or a poll that was woken, nor while the client or
   the server has something to do.  A submission may have lost its wake-up
   (ApprovalRuntime) and sleep to the end of its wait. *)
Tick ==
  /\ now < Horizon
  /\ \A h \in Ids :
       /\ hook[h].pc \in {"submitting", "polling"} => now < hook[h].since + ConnectTimeout
       /\ Reading(h) => now < hook[h].since + ReadTimeout
       /\ At(h, "pausing") => now < hook[h].since + Pause
       /\ hook[h].pc \notin {"arrived", "check"}
       /\ At(h, "poll_held") => ~ Woken(h)
       /\ Held(h) => ~ WaitIsOver(h)
  /\ now' = now + 1
  /\ UNCHANGED <<store, server, hint, hook, resolved>>

HookStep(h) ==
  \/ ConfigFails(h) \/ InputFails(h) \/ SendSubmit(h)
  \/ CheckDeadline(h) \/ SendPoll(h) \/ Connect(h) \/ Receive(h)
  \/ WireFails(h) \/ Killed(h)

ServerStep(h) ==
  \/ SubmitArrives(h) \/ ServeSubmit(h) \/ ServePoll(h)
  \/ AnswerDecided(h) \/ AnswerPending(h)

Next ==
  \/ \E h \in Ids : HookStep(h) \/ ServerStep(h)
  \/ \E h \in Ids, d \in UserDecisions : HudDecide(h, d)
  \/ HudSnapshot
  \/ BeginClose
  \/ StopServer
  \/ Tick

Spec == Init /\ [][Next]_vars

--------------------------------------------------------------------------------
(* The type invariant. *)
TypeOK ==
  /\ StoreType(store)
  /\ now \in 0..Horizon
  /\ server \in {"up", "closing", "stopped"}
  /\ hint \in BOOLEAN
  /\ hook \in [Ids ->
       [pc : {"new", "submitting", "submitted", "arrived", "submit_held", "check",
              "pausing", "polling", "polled", "poll_held", "answered", "done"},
        began : 0..Horizon, since : 0..Horizon, held : 0..Horizon,
        answer : Decisions \cup {"none", "pending", "busy", "shutdown", "gone"},
        exit : {"none", "ProtocolSuccess", "FailClosed", "ConfigError", "killed"},
        printed : {"none", "approve", "block"},
        why : {"none", "decided", "start", "deadline", "wire", "killed", "busy",
               "shutdown", "gone"}]]
  /\ resolved \in [Ids -> Decisions \cup {"none"}]

(* A hook never outlives --max-time by more than one pause and one call, which ends
   with the timeouts of the client whatever becomes of the answer. *)
EndsInTime ==
  \A h \in Ids :
    hook[h].pc \notin {"new", "done"} =>
      now < hook[h].began + MaxTotal + Pause + ConnectTimeout + ReadTimeout

(* A submission is refused as busy only while the approval in its way can still
   be decided: one that was abandoned by its hook blocks others no longer than
   its ttl. *)
BusyOnlyWhileLive ==
  [][\A h \in Ids : hook'[h].answer = "busy" /\ hook[h].answer # "busy" =>
       store'.active # NoId /\ now < store'.by_id[store'.active].expires_at]_vars

(* A hook that gives up at its deadline has not missed a user decision.  It needs
   ConnectTimeout + 2 * Delay + TTL <= MaxTotal: with 5, 300 and 310 seconds, messages
   that take no longer than two and a half. *)
NoDecisionMissedAtDeadline ==
  [][\A h \in Ids : hook'[h].why = "deadline" /\ hook[h].why # "deadline" =>
       resolved[h] \notin UserDecisions]_vars

(* What the agent has of a process. *)
Said ==
  [h \in Ids |-> IF ~ At(h, "done") THEN "running"
                 ELSE IF hook[h].printed = "none" THEN "nothing" ELSE hook[h].printed]

Calls == INSTANCE AgentCalls WITH verdict <- resolved, said <- Said

(* Hooks, server, HUD and exit sequence together give each call of the agent one
   verdict and one answer: no step decides a call that was decided, two at once, or
   one while it answers it, and no process speaks twice or ahead of the decision. *)
ImplementsCalls == Calls!Spec

--------------------------------------------------------------------------------
(***************************************************************************)
(* What the documents say and the program does not do.                     *)
(***************************************************************************)

(* Design document, section 4.2: TimedOut is a final state that the server itself
   decides and returns, and timeout_action says what is printed.  So no hook that
   reaches its own deadline has an approval that is overdue. *)
OverdueIsAnsweredTimedOut ==
  \A h \in Ids :
    hook[h].why = "deadline" => ~ (store.active = h /\ IsDue(store, now))
================================================================================
