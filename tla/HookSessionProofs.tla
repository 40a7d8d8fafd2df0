--------------------------- MODULE HookSessionProofs ---------------------------
(***************************************************************************)
(* What a hook prints and when it ends, proved for any number of           *)
(* processes, any payloads, cache size, ttl, time limits, delay of the     *)
(* messages and any split of the processes by timeout_action.              *)
(***************************************************************************)
EXTENDS HookSession, ApprovalStoreLemmas

Pcs     == {"new", "submitting", "submitted", "arrived", "submit_held", "check",
            "pausing", "polling", "polled", "poll_held", "answered", "done"}
Answers == Decisions \cup {"none", "pending", "busy", "shutdown", "gone"}
Exits   == {"none", "ProtocolSuccess", "FailClosed", "ConfigError", "killed"}
Printed == {"none", "approve", "block"}
Reasons == {"none", "decided", "start", "deadline", "wire", "killed", "busy",
            "shutdown", "gone"}

Process ==
  [pc : Pcs, began : 0..Horizon, since : 0..Horizon, held : 0..Horizon,
   answer : Answers, exit : Exits, printed : Printed, why : Reasons]

(* Where a process is whose submission the store has not seen. *)
Unserved == {"new", "submitting", "submitted", "arrived"}

(* The history agrees with what the store remembers; a process that has not been
   served yet has no approval, and each draws an id of its own. *)
HistoryAgrees ==
  \A h \in Ids :
    /\ Knows(store, h) /\ IsDecided(store.by_id[h]) => resolved[h] = store.by_id[h].state
    /\ Knows(store, h) /\ IsPending(store.by_id[h]) => resolved[h] = "none"
    /\ hook[h].pc \in Unserved => resolved[h] = "none" /\ ~ Knows(store, h)

(* So does an answer on its way, whatever the store has forgotten since. *)
AnswersAgree ==
  \A h \in Ids :
    hook[h].pc = "answered" /\ hook[h].answer \in Decisions => resolved[h] = hook[h].answer

(* How far the clock can be, by where a process is. *)
InTime(h) ==
  LET began == hook[h].began
      since == hook[h].since
      held  == hook[h].held
  IN /\ hook[h].pc = "submitting" => since = began /\ now <= since + ConnectTimeout
     /\ hook[h].pc = "submitted" => since <= began + ConnectTimeout
     /\ hook[h].pc = "arrived" => now <= began + ConnectTimeout + Delay
     /\ hook[h].pc = "submit_held" =>
          held <= began + ConnectTimeout + Delay /\ now <= held + MaxWait
     /\ hook[h].pc = "answered" => held <= now
     /\ Reading(h) => /\ since < began + MaxTotal + Pause + ConnectTimeout
                      /\ now <= since + ReadTimeout
     /\ hook[h].pc = "check" =>
          now < began + MaxTotal + Pause + ConnectTimeout + ReadTimeout
     /\ hook[h].pc = "pausing" => since < began + MaxTotal /\ now <= since + Pause
     /\ hook[h].pc = "polling" =>
          since < began + MaxTotal + Pause /\ now <= since + ConnectTimeout

(* The agent is told "approve" only if the user approved this very call, or if it
   ran out or was cancelled under timeout_action = "approve"; it is told "block"
   only if the user did not approve.  Evictions, other calls, expiry and shutdown
   in between change nothing about it. *)
PrintsTheVerdict ==
  \A h \in Ids :
    /\ hook[h].printed = "approve" =>
         \/ resolved[h] = "Approved"
         \/ resolved[h] \in {"TimedOut", "Cancelled"} /\ h \in ApproveOnTimeout
    /\ hook[h].printed = "block" =>
         \/ resolved[h] = "Denied"
         \/ resolved[h] \in {"TimedOut", "Cancelled"} /\ h \notin ApproveOnTimeout

Inv ==
  /\ TypeOK
  /\ WellFormed(store)
  /\ HistoryAgrees
  /\ AnswersAgree
  /\ PrintsTheVerdict
  /\ \A h \in Ids : hook[h].pc # "done" => hook[h].printed = "none"
  /\ \A h \in Ids : InTime(h)

(* The types, in the form the proofs use. *)
LEMMA Types ==
  ASSUME Inv
  PROVE  /\ hook \in [Ids -> Process]
         /\ Sound(store) /\ now \in 0..Horizon
         /\ resolved \in [Ids -> Decisions \cup {"none"}]
         /\ server \in {"up", "closing", "stopped"} /\ hint \in BOOLEAN
BY DEF Inv, TypeOK, Sound, Process, Pcs, Answers, Exits, Printed, Reasons

(* The time limits are natural numbers. *)
LEMMA Limits ==
  /\ TTL \in Nat /\ MaxTotal \in Nat /\ MaxWait \in Nat /\ ReadTimeout \in Nat
  /\ ConnectTimeout \in Nat /\ Pause \in Nat /\ Delay \in Nat /\ Horizon \in Nat
  /\ Pause > 0
BY HookAssumption

--------------------------------------------------------------------------------
(* The steps of one process: it ends, or it goes on to its next place. *)
Ending(h) ==
  /\ hook[h].pc # "done"
  /\ now' = now
  /\ \E exit \in Exits, printed \in Printed, why \in Reasons :
       /\ End(h, exit, printed, why)
       /\ \/ /\ printed = "none"
             /\ why = "deadline" =>
                  hook[h].pc = "check" /\ now >= hook[h].began + MaxTotal
          \/ /\ why = "decided"
             /\ hook[h].pc = "answered" /\ hook[h].answer \in Decisions
             /\ printed = HookDecision(h, hook[h].answer)

(* Only the process h moves. *)
Moved(h) ==
  /\ hook' = [hook EXCEPT ![h] = hook'[h]]
  /\ hook'[h] \in Process
  /\ hook'[h].printed = hook[h].printed /\ hook'[h].why = hook[h].why

Waypoint(h) ==
  LET p == hook[h]
      q == hook'[h]
  IN /\ Moved(h)
     /\ now' = now
     /\ \/ /\ p.pc = "new" /\ q.pc = "submitting"
           /\ q.began = now /\ q.since = now /\ q.answer = p.answer
        \/ /\ q.began = p.began /\ q.since = now /\ q.held = now /\ q.answer = "none"
           /\ \/ p.pc = "submitting" /\ q.pc = "submitted"
              \/ p.pc = "check" /\ q.pc = "pausing" /\ now < p.began + MaxTotal
              \/ p.pc = "pausing" /\ q.pc = "polling"
              \/ p.pc = "polling" /\ q.pc = "polled"
              \/ /\ p.pc = "answered" /\ p.answer = "pending" /\ now <= p.held + Delay
                 /\ q.pc = "check"
        \/ /\ q.began = p.began /\ q.since = p.since /\ q.held = now
           /\ \/ /\ q.answer = p.answer
                 /\ \/ p.pc = "submitted" /\ q.pc = "arrived" /\ now <= p.since + Delay
                    \/ p.pc = "arrived" /\ q.pc = "submit_held"
                    \/ /\ p.pc = "polled" /\ q.pc = "poll_held"
                       /\ Knows(store, h) /\ IsPending(store.by_id[h])
              \/ /\ q.pc = "answered"
                 /\ \/ p.pc = "submitted" /\ q.answer = "shutdown"
                    \/ p.pc = "arrived" /\ q.answer = "busy"
                    \/ p.pc = "polled" /\ q.answer = "gone"
                    \/ p.pc \in {"submit_held", "poll_held"} /\ q.answer = "pending"
                    \/ /\ p.pc \in {"polled", "submit_held", "poll_held"}
                       /\ Knows(store, h) /\ IsDecided(store.by_id[h])
                       /\ q.answer = store.by_id[h].state

(* What the three ways to go on do to the process. *)
LEMMA Shapes ==
  ASSUME Inv, NEW h \in Ids, NEW pc \in Pcs, NEW answer \in Answers
  PROVE  /\ Goto(h, pc) =>
              /\ Moved(h) /\ hook'[h].pc = pc /\ hook'[h].began = hook[h].began
              /\ hook'[h].since = now /\ hook'[h].held = now /\ hook'[h].answer = "none"
         /\ Hold(h, pc) =>
              /\ Moved(h) /\ hook'[h].pc = pc /\ hook'[h].began = hook[h].began
              /\ hook'[h].since = hook[h].since /\ hook'[h].held = now
              /\ hook'[h].answer = hook[h].answer
         /\ Answer(h, answer) =>
              /\ Moved(h) /\ hook'[h].pc = "answered" /\ hook'[h].began = hook[h].began
              /\ hook'[h].since = hook[h].since /\ hook'[h].held = now
              /\ hook'[h].answer = answer
<1>1. hook \in [Ids -> Process] /\ hook[h] \in Process /\ now \in 0..Horizon
  BY Types
<1>2. "none" \in Answers /\ "answered" \in Pcs
  BY DEF Answers, Pcs
<1>3. ASSUME NEW k \in Process, hook' = [hook EXCEPT ![h] = k],
             k.printed = hook[h].printed, k.why = hook[h].why
      PROVE  Moved(h) /\ hook'[h] = k
  BY <1>1, <1>3 DEF Moved
<1>4. ASSUME Goto(h, pc)
      PROVE  /\ Moved(h) /\ hook'[h].pc = pc /\ hook'[h].began = hook[h].began
             /\ hook'[h].since = now /\ hook'[h].held = now /\ hook'[h].answer = "none"
  <2> DEFINE k == [hook[h] EXCEPT !.pc = pc, !.since = now, !.held = now, !.answer = "none"]
  <2>1. hook' = [hook EXCEPT ![h] = k]
    BY <1>1, <1>4 DEF Goto
  <2>2. /\ k \in Process /\ k.pc = pc /\ k.began = hook[h].began /\ k.since = now
        /\ k.held = now /\ k.answer = "none"
        /\ k.printed = hook[h].printed /\ k.why = hook[h].why
    BY <1>1, <1>2 DEF Process
  <2> HIDE DEF k
  <2> QED BY <1>3, <2>1, <2>2
<1>5. ASSUME Hold(h, pc)
      PROVE  /\ Moved(h) /\ hook'[h].pc = pc /\ hook'[h].began = hook[h].began
             /\ hook'[h].since = hook[h].since /\ hook'[h].held = now
             /\ hook'[h].answer = hook[h].answer
  <2> DEFINE k == [hook[h] EXCEPT !.pc = pc, !.held = now]
  <2>1. hook' = [hook EXCEPT ![h] = k]
    BY <1>1, <1>5 DEF Hold
  <2>2. /\ k \in Process /\ k.pc = pc /\ k.began = hook[h].began
        /\ k.since = hook[h].since /\ k.held = now /\ k.answer = hook[h].answer
        /\ k.printed = hook[h].printed /\ k.why = hook[h].why
    BY <1>1 DEF Process
  <2> HIDE DEF k
  <2> QED BY <1>3, <2>1, <2>2
<1>6. ASSUME Answer(h, answer)
      PROVE  /\ Moved(h) /\ hook'[h].pc = "answered" /\ hook'[h].began = hook[h].began
             /\ hook'[h].since = hook[h].since /\ hook'[h].held = now
             /\ hook'[h].answer = answer
  <2> DEFINE k == [hook[h] EXCEPT !.pc = "answered", !.held = now, !.answer = answer]
  <2>1. hook' = [hook EXCEPT ![h] = k]
    BY <1>1, <1>6 DEF Answer
  <2>2. /\ k \in Process /\ k.pc = "answered" /\ k.began = hook[h].began
        /\ k.since = hook[h].since /\ k.held = now /\ k.answer = answer
        /\ k.printed = hook[h].printed /\ k.why = hook[h].why
    BY <1>1, <1>2 DEF Process
  <2> HIDE DEF k
  <2> QED BY <1>3, <2>1, <2>2
<1> QED BY <1>4, <1>5, <1>6

(* A process that has ended. *)
Ended(exit, printed, why) ==
  [Fresh EXCEPT !.pc = "done", !.exit = exit, !.printed = printed, !.why = why]

(* What its end does to a process. *)
LEMMA EndShape ==
  ASSUME Inv, NEW h \in Ids, NEW exit \in Exits, NEW printed \in Printed,
         NEW why \in Reasons, End(h, exit, printed, why)
  PROVE  /\ hook' = [hook EXCEPT ![h] = hook'[h]] /\ hook'[h] \in Process
         /\ hook'[h].pc = "done" /\ hook'[h].printed = printed /\ hook'[h].why = why
         /\ hook'[h].answer = "none"
<1>1. hook \in [Ids -> Process] /\ 0 \in 0..Horizon
  BY Types, Limits
<1> DEFINE k == Ended(exit, printed, why)
<1>2. hook' = [hook EXCEPT ![h] = k]
  BY DEF End, Ended
<1>3. Fresh \in Process
  BY <1>1 DEF Process, Fresh, Pcs, Answers, Exits, Printed, Reasons
<1>4. k \in Process
  BY <1>3 DEF Process, Ended, Pcs
<1>5. k.pc = "done" /\ k.printed = printed /\ k.why = why /\ k.answer = "none"
  BY <1>3 DEF Process, Ended, Fresh
<1> HIDE DEF k
<1> QED BY <1>1, <1>2, <1>4, <1>5

(* Each step of a process, and of the server for it, is of one of the two kinds. *)
LEMMA ProcessMoves ==
  ASSUME Inv, NEW h \in Ids, HookStep(h) \/ ServerStep(h)
  PROVE  Ending(h) \/ Waypoint(h)
<1>1. /\ hook \in [Ids -> Process] /\ hook[h] \in Process /\ now \in 0..Horizon
      /\ Sound(store)
  BY Types
<1>2. /\ "none" \in Exits /\ "FailClosed" \in Exits /\ "ConfigError" \in Exits
      /\ "killed" \in Exits /\ "ProtocolSuccess" \in Exits /\ "none" \in Printed
      /\ {"start", "deadline", "wire", "killed", "busy", "shutdown", "gone", "decided"}
           \subseteq Reasons
  BY DEF Exits, Printed, Reasons
<1>3. /\ \A pc \in Pcs : \A answer \in Answers :
           /\ Goto(h, pc) =>
                /\ Moved(h) /\ hook'[h].pc = pc /\ hook'[h].began = hook[h].began
                /\ hook'[h].since = now /\ hook'[h].held = now /\ hook'[h].answer = "none"
           /\ Hold(h, pc) =>
                /\ Moved(h) /\ hook'[h].pc = pc /\ hook'[h].began = hook[h].began
                /\ hook'[h].since = hook[h].since /\ hook'[h].held = now
                /\ hook'[h].answer = hook[h].answer
           /\ Answer(h, answer) =>
                /\ Moved(h) /\ hook'[h].pc = "answered" /\ hook'[h].began = hook[h].began
                /\ hook'[h].since = hook[h].since /\ hook'[h].held = now
                /\ hook'[h].answer = answer
  BY Shapes
<1>4. /\ {"submitting", "submitted", "arrived", "submit_held", "check", "pausing",
          "polling", "polled", "poll_held", "answered"} \subseteq Pcs
      /\ {"pending", "busy", "shutdown", "gone"} \subseteq Answers
      /\ Decisions \subseteq Answers
  BY DEF Pcs, Answers
<1>5. CASE ConfigFails(h) \/ InputFails(h)
  BY <1>2, <1>5 DEF ConfigFails, InputFails, FailClosed, Ending, At
<1>6. CASE SendSubmit(h)
  <2> DEFINE k == [hook[h] EXCEPT !.pc = "submitting", !.began = now, !.since = now,
                                  !.held = now]
  <2>1. hook' = [hook EXCEPT ![h] = k] /\ hook[h].pc = "new" /\ now' = now
    BY <1>1, <1>6 DEF SendSubmit, At
  <2>2. /\ k \in Process /\ k.pc = "submitting" /\ k.began = now /\ k.since = now
        /\ k.answer = hook[h].answer /\ k.printed = hook[h].printed /\ k.why = hook[h].why
    BY <1>1, <1>4 DEF Process
  <2> HIDE DEF k
  <2>3. hook'[h] = k
    BY <1>1, <2>1
  <2> QED BY <2>1, <2>2, <2>3 DEF Waypoint, Moved
<1>7. CASE CheckDeadline(h)
  <2>1. hook[h].pc = "check" /\ now' = now
    BY <1>7 DEF CheckDeadline, At
  <2>2. CASE now >= hook[h].began + MaxTotal
    <3>1. End(h, "FailClosed", "none", "deadline")
      BY <1>7, <2>2 DEF CheckDeadline, FailClosed
    <3> QED BY <1>2, <2>1, <2>2, <3>1 DEF Ending
  <2>3. CASE ~ (now >= hook[h].began + MaxTotal)
    <3>1. Goto(h, "pausing") /\ now < hook[h].began + MaxTotal
      BY <1>1, <1>7, <2>3, Limits DEF CheckDeadline, Process
    <3> QED BY <1>3, <1>4, <2>1, <3>1 DEF Waypoint
  <2> QED BY <2>2, <2>3
<1>8. CASE SendPoll(h)
  BY <1>3, <1>4, <1>8 DEF SendPoll, At, Waypoint
<1>9. CASE Connect(h)
  BY <1>3, <1>4, <1>9 DEF Connect, At, Waypoint
<1>10. CASE WireFails(h)
  <2>1. hook[h].pc # "done" /\ now' = now /\ End(h, "FailClosed", "none", "wire")
    BY <1>10 DEF WireFails, Reading, FailClosed
  <2> QED BY <1>2, <2>1 DEF Ending
<1>11. CASE Killed(h)
  BY <1>2, <1>11 DEF Killed, Ending
<1>12. CASE Receive(h)
  <2>1. hook[h].pc = "answered" /\ now' = now /\ now <= hook[h].held + Delay
    BY <1>12 DEF Receive, At
  <2>2. CASE hook[h].answer = "pending" /\ Goto(h, "check")
    BY <1>3, <1>4, <2>1, <2>2 DEF Waypoint
  <2>3. CASE hook[h].answer \in Decisions /\ Emit(h, hook[h].answer)
    <3>1. HookDecision(h, hook[h].answer) \in Printed
      BY <2>3 DEF HookDecision, Printed, Decisions, UserDecisions
    <3>2. End(h, "ProtocolSuccess", HookDecision(h, hook[h].answer), "decided")
      BY <2>3 DEF Emit
    <3> QED BY <1>2, <2>1, <2>3, <3>1, <3>2 DEF Ending
  <2>4. CASE /\ hook[h].answer \in {"busy", "shutdown", "gone"}
             /\ FailClosed(h, hook[h].answer)
    <3>1. PICK why \in {"busy", "shutdown", "gone"} : End(h, "FailClosed", "none", why)
      BY <2>4 DEF FailClosed
    <3> QED BY <1>2, <2>1, <3>1 DEF Ending
  <2> QED BY <1>12, <2>2, <2>3, <2>4 DEF Receive
<1>13. CASE SubmitArrives(h)
  <2>1. /\ hook[h].pc = "submitted" /\ now' = now /\ now <= hook[h].since + Delay
        /\ Hold(h, "arrived") \/ Answer(h, "shutdown")
    BY <1>13 DEF SubmitArrives, At
  <2> QED BY <1>3, <1>4, <2>1 DEF Waypoint
<1>14. CASE ServeSubmit(h)
  <2>1. /\ hook[h].pc = "arrived" /\ now' = now
        /\ Hold(h, "submit_held") \/ Answer(h, "busy")
    BY <1>14 DEF ServeSubmit, At
  <2> QED BY <1>3, <1>4, <2>1 DEF Waypoint
<1>15. CASE ServePoll(h)
  <2>1. hook[h].pc = "polled" /\ now' = now
    BY <1>15 DEF ServePoll, At
  <2>2. CASE Answer(h, "gone")
    BY <1>3, <1>4, <2>1, <2>2 DEF Waypoint
  <2>3. CASE Knows(store, h) /\ IsDecided(store.by_id[h]) /\ Answer(h, store.by_id[h].state)
    <3>1. store.by_id[h].state \in Answers
      BY <1>4, <2>3 DEF IsDecided
    <3> QED BY <1>3, <1>4, <2>1, <2>3, <3>1 DEF Waypoint
  <2>4. CASE Knows(store, h) /\ IsPending(store.by_id[h]) /\ Hold(h, "poll_held")
    BY <1>3, <1>4, <2>1, <2>4 DEF Waypoint
  <2> QED BY <1>15, <2>2, <2>3, <2>4 DEF ServePoll
<1>16. CASE AnswerDecided(h)
  <2>1. /\ hook[h].pc \in {"submit_held", "poll_held"} /\ now' = now
        /\ Knows(store, h) /\ IsDecided(store.by_id[h]) /\ Answer(h, store.by_id[h].state)
    BY <1>16 DEF AnswerDecided, Held
  <2>2. store.by_id[h].state \in Answers
    BY <1>4, <2>1 DEF IsDecided
  <2> QED BY <1>3, <1>4, <2>1, <2>2 DEF Waypoint
<1>17. CASE AnswerPending(h)
  <2>1. /\ hook[h].pc \in {"submit_held", "poll_held"} /\ now' = now
        /\ Answer(h, "pending")
    BY <1>17 DEF AnswerPending, Held
  <2> QED BY <1>3, <1>4, <2>1 DEF Waypoint
<1> QED
  BY <1>5, <1>6, <1>7, <1>8, <1>9, <1>10, <1>11, <1>12, <1>13, <1>14, <1>15, <1>16, <1>17
     DEF HookStep, ServerStep

(* The others stay where they are, and nobody gets back to before the store. *)
LEMMA OnlyOneMoves ==
  ASSUME Inv, NEW h \in Ids, Ending(h) \/ Waypoint(h)
  PROVE  /\ hook' = [hook EXCEPT ![h] = hook'[h]] /\ hook'[h] \in Process
         /\ \A i \in Ids \ {h} : hook'[i] = hook[i]
         /\ hook'[h].pc \in Unserved => hook[h].pc \in Unserved \ {"arrived"}
<1>1. hook \in [Ids -> Process]
  BY Types
<1>2. CASE Ending(h)
  <2>1. /\ hook' = [hook EXCEPT ![h] = hook'[h]] /\ hook'[h] \in Process
        /\ hook'[h].pc = "done"
    BY <1>2, EndShape DEF Ending
  <2> QED BY <1>1, <2>1 DEF Unserved
<1>3. CASE Waypoint(h)
  <2>1. Moved(h)
    BY <1>3 DEF Waypoint
  <2>2. hook'[h].pc \in Unserved => hook[h].pc \in Unserved \ {"arrived"}
    BY <1>3 DEF Waypoint, Unserved
  <2> QED BY <1>1, <2>1, <2>2 DEF Moved
<1> QED BY <1>2, <1>3

(* Whatever it does, a process stays in time. *)
LEMMA StaysInTime ==
  ASSUME Inv, NEW h \in Ids, Ending(h) \/ Waypoint(h)
  PROVE  InTime(h)'
<1> USE Limits
<1>1. /\ InTime(h) /\ now \in 0..Horizon /\ hook[h] \in Process /\ hook'[h] \in Process
      /\ hook[h].began \in 0..Horizon /\ hook[h].since \in 0..Horizon
      /\ hook[h].held \in 0..Horizon
  BY Types, OnlyOneMoves DEF Inv, Process
<1>2. CASE Ending(h)
  <2>1. hook'[h].pc = "done"
    BY <1>2, EndShape DEF Ending
  <2> QED BY <2>1 DEF InTime, Reading
<1>3. CASE Waypoint(h)
  <2> DEFINE p == hook[h]
             q == hook'[h]
  <2>1. now' = now
    BY <1>3 DEF Waypoint
  <2>2. CASE /\ p.pc = "new" /\ q.pc = "submitting" /\ q.began = now /\ q.since = now
    BY <1>1, <2>1, <2>2 DEF InTime, Reading
  <2>3. CASE /\ q.began = p.began /\ q.since = now /\ q.held = now
             /\ \/ p.pc = "submitting" /\ q.pc = "submitted"
                \/ p.pc = "check" /\ q.pc = "pausing" /\ now < p.began + MaxTotal
                \/ p.pc = "pausing" /\ q.pc = "polling"
                \/ p.pc = "polling" /\ q.pc = "polled"
    BY <1>1, <2>1, <2>3 DEF InTime, Reading
  <2>4. CASE q.began = p.began /\ p.pc = "answered" /\ q.pc = "check"
    BY <1>1, <2>1, <2>4 DEF InTime, Reading
  <2>5. CASE /\ q.began = p.began /\ q.since = p.since /\ q.held = now
             /\ \/ p.pc = "submitted" /\ q.pc = "arrived" /\ now <= p.since + Delay
                \/ p.pc = "arrived" /\ q.pc = "submit_held"
                \/ p.pc = "polled" /\ q.pc = "poll_held"
    BY <1>1, <2>1, <2>5 DEF InTime, Reading
  <2>6. CASE /\ q.began = p.began /\ q.since = p.since /\ q.held = now
             /\ q.pc = "answered"
             /\ p.pc \in {"submitted", "arrived", "polled", "submit_held", "poll_held"}
    BY <1>1, <2>1, <2>6 DEF InTime, Reading
  <2> QED BY <1>3, <2>2, <2>3, <2>4, <2>5, <2>6 DEF Waypoint
<1> QED BY <1>2, <1>3

(* The history follows the store: a decision that was recorded stays, and agrees with
   the store.  Only a process that has just been served may have become known. *)
LEMMA HistoryStep ==
  ASSUME Inv, Sound(store'), Update(store'), NEW X, KeepsDecisions(X, store, store'),
         \A i \in X : i \in Ids => resolved[i] = "none",
         \A i \in X : i \in DOMAIN store'.by_id => IsPending(store'.by_id[i]),
         \A i \in Ids : hook'[i].pc \in Unserved => hook[i].pc \in Unserved /\ i \notin X
  PROVE  /\ HistoryAgrees'
         /\ resolved' \in [Ids -> Decisions \cup {"none"}]
         /\ \A i \in Ids : resolved[i] # "none" => resolved'[i] = resolved[i]
<1>1. /\ resolved \in [Ids -> Decisions \cup {"none"}]
      /\ Sound(store) /\ HistoryAgrees
  BY DEF Inv, TypeOK, Sound
<1>2. \A i \in Ids :
        resolved'[i] = IF resolved[i] = "none" /\ Knows(store', i) /\ IsDecided(store'.by_id[i])
                       THEN store'.by_id[i].state ELSE resolved[i]
  BY DEF Update
<1>3. resolved' \in [Ids -> Decisions \cup {"none"}]
  <2>1. \A i \in Ids : resolved'[i] \in Decisions \cup {"none"}
    BY <1>1, <1>2 DEF IsDecided
  <2>2. resolved' = [i \in Ids |-> resolved'[i]]
    BY DEF Update
  <2> QED BY <2>1, <2>2
<1>4. \A i \in DOMAIN store'.by_id : i \in Ids
  BY DEF Sound, StoreType
<1>5. "none" \notin Decisions /\ "Pending" \notin Decisions
  BY DEF Decisions, UserDecisions
<1>6. ASSUME NEW i \in Ids, Knows(store', i), IsDecided(store'.by_id[i])
      PROVE  resolved'[i] = store'.by_id[i].state
  <2>1. CASE resolved[i] = "none"
    BY <1>2, <1>6, <2>1
  <2>2. CASE resolved[i] # "none"
    <3>1. i \notin X
      BY <2>2
    <3>2. i \in DOMAIN store.by_id /\ (IsDecided(store.by_id[i]) =>
            store'.by_id[i].state = store.by_id[i].state)
      BY <1>6, <3>1 DEF KeepsDecisions, Knows
    <3>3. store.by_id[i] \in Approval
      BY <1>1, <3>2 DEF Sound, StoreType
    <3>4. IsDecided(store.by_id[i])
      BY <1>1, <2>2, <3>2, <3>3 DEF HistoryAgrees, Knows, IsPending, IsDecided, Approval
    <3> QED BY <1>1, <1>2, <2>2, <3>2, <3>4 DEF HistoryAgrees, Knows
  <2> QED BY <2>1, <2>2
<1>7. ASSUME NEW i \in Ids, Knows(store', i), IsPending(store'.by_id[i])
      PROVE  resolved'[i] = "none"
  <2>1. ~ IsDecided(store'.by_id[i])
    BY <1>5, <1>7 DEF IsPending, IsDecided
  <2>2. resolved'[i] = resolved[i]
    BY <1>2, <2>1
  <2>3. CASE i \in X
    BY <2>2, <2>3
  <2>4. CASE i \notin X
    <3>1. i \in DOMAIN store.by_id /\ (IsDecided(store.by_id[i]) =>
            store'.by_id[i].state = store.by_id[i].state)
      BY <1>7, <2>4 DEF KeepsDecisions, Knows
    <3>2. store.by_id[i] \in Approval
      BY <1>1, <3>1 DEF Sound, StoreType
    <3>3. IsPending(store.by_id[i])
      BY <2>1, <3>1, <3>2 DEF IsPending, IsDecided, Approval
    <3> QED BY <1>1, <2>2, <3>1, <3>3 DEF HistoryAgrees, Knows
  <2> QED BY <2>3, <2>4
<1>8. ASSUME NEW i \in Ids, hook'[i].pc \in Unserved
      PROVE  resolved'[i] = "none" /\ ~ Knows(store', i)
  <2>1. resolved[i] = "none" /\ ~ Knows(store, i) /\ i \notin X
    BY <1>1, <1>8 DEF HistoryAgrees
  <2>2. ~ Knows(store', i)
    BY <2>1 DEF KeepsDecisions, Knows
  <2> QED BY <1>2, <2>1, <2>2
<1>9. \A i \in Ids : resolved[i] # "none" => resolved'[i] = resolved[i]
  BY <1>2
<1> QED BY <1>3, <1>6, <1>7, <1>8, <1>9 DEF HistoryAgrees

(* Where the store is left, so is the history. *)
LEMMA HistoryStays ==
  ASSUME Inv, store' = store, resolved' = resolved,
         \A i \in Ids : hook'[i].pc \in Unserved => hook[i].pc \in Unserved
  PROVE  /\ HistoryAgrees'
         /\ resolved' \in [Ids -> Decisions \cup {"none"}]
         /\ \A i \in Ids : resolved[i] # "none" => resolved'[i] = resolved[i]
BY DEF Inv, TypeOK, HistoryAgrees, Knows

(* What one process may have printed. *)
PrintsWell(printed, h, r) ==
  /\ printed = "approve" => \/ r = "Approved"
                            \/ r \in {"TimedOut", "Cancelled"} /\ h \in ApproveOnTimeout
  /\ printed = "block" => \/ r = "Denied"
                          \/ r \in {"TimedOut", "Cancelled"} /\ h \notin ApproveOnTimeout

(* What a decision makes the hook print. *)
LEMMA EmitsWell ==
  ASSUME NEW h, NEW d \in Decisions
  PROVE  PrintsWell(HookDecision(h, d), h, d)
<1>1. d \in {"Approved", "Denied", "TimedOut", "Cancelled"}
  BY DEF Decisions, UserDecisions
<1>2. /\ d = "Approved" => HookDecision(h, d) = "approve"
      /\ d = "Denied" => HookDecision(h, d) = "block"
      /\ d \in {"TimedOut", "Cancelled"} =>
           HookDecision(h, d) = IF h \in ApproveOnTimeout THEN "approve" ELSE "block"
  BY DEF HookDecision
<1> QED BY <1>1, <1>2 DEF PrintsWell

(* A process moves, while the store and the history evolve together. *)
LEMMA MoveKeepsInv ==
  ASSUME Inv, Sound(store'), HistoryAgrees',
         resolved' \in [Ids -> Decisions \cup {"none"}],
         \A i \in Ids : resolved[i] # "none" => resolved'[i] = resolved[i],
         server' \in {"up", "closing", "stopped"}, hint' \in BOOLEAN,
         NEW h \in Ids, Ending(h) \/ Waypoint(h)
  PROVE  Inv'
<1>1. /\ hook \in [Ids -> Process] /\ now \in 0..Horizon /\ now' = now
      /\ hook' = [hook EXCEPT ![h] = hook'[h]] /\ hook'[h] \in Process
      /\ \A i \in Ids \ {h} : hook'[i] = hook[i]
  BY Types, OnlyOneMoves DEF Ending, Waypoint
<1>2. /\ HistoryAgrees /\ AnswersAgree /\ PrintsTheVerdict
      /\ \A i \in Ids : hook[i].pc # "done" => hook[i].printed = "none"
      /\ \A i \in Ids : InTime(i)
  BY DEF Inv
<1>3. TypeOK'
  <2>1. hook' \in [Ids -> Process]
    BY <1>1
  <2> QED BY <1>1, <2>1
          DEF TypeOK, Process, Pcs, Answers, Exits, Printed, Reasons, Sound
<1>4. ASSUME NEW i \in Ids PROVE InTime(i)'
  <2>1. CASE i = h
    BY <2>1, StaysInTime
  <2>2. CASE i # h
    BY <1>1, <1>2, <2>2 DEF InTime, Reading
  <2> QED BY <2>1, <2>2
<1>5. ASSUME NEW exit \in Exits, NEW printed \in Printed, NEW why \in Reasons,
             End(h, exit, printed, why),
             \/ printed = "none"
             \/ /\ hook[h].pc = "answered" /\ hook[h].answer \in Decisions
                /\ printed = HookDecision(h, hook[h].answer)
      PROVE  /\ hook'[h].pc = "done" /\ PrintsWell(hook'[h].printed, h, resolved'[h])
  <2>1. hook'[h].pc = "done" /\ hook'[h].printed = printed
    BY <1>5, EndShape
  <2>2. CASE printed = "none"
    BY <2>1, <2>2 DEF PrintsWell
  <2>3. CASE /\ hook[h].pc = "answered" /\ hook[h].answer \in Decisions
             /\ printed = HookDecision(h, hook[h].answer)
    <3>1. resolved[h] = hook[h].answer
      BY <1>2, <2>3 DEF AnswersAgree
    <3>2. resolved[h] # "none"
      BY <2>3, <3>1 DEF Decisions, UserDecisions
    <3>3. resolved'[h] = hook[h].answer
      BY <3>1, <3>2
    <3>4. PrintsWell(HookDecision(h, hook[h].answer), h, hook[h].answer)
      BY <2>3, EmitsWell
    <3> QED BY <2>1, <2>3, <3>3, <3>4
  <2> QED BY <1>5, <2>1, <2>2, <2>3
<1>6. /\ PrintsWell(hook'[h].printed, h, resolved'[h])
      /\ hook'[h].pc # "done" => hook'[h].printed = "none"
  <2>1. CASE Ending(h)
    BY <1>5, <2>1 DEF Ending
  <2>2. CASE Waypoint(h)
    <3>1. hook[h].pc # "done" /\ hook'[h].printed = hook[h].printed
      BY <2>2 DEF Waypoint, Moved
    <3> QED BY <1>2, <3>1 DEF PrintsWell
  <2> QED BY <2>1, <2>2
<1>7. ASSUME NEW i \in Ids
      PROVE  /\ PrintsWell(hook'[i].printed, i, resolved'[i])
             /\ hook'[i].pc # "done" => hook'[i].printed = "none"
  <2>1. CASE i = h
    BY <1>6, <2>1
  <2>2. CASE i # h
    <3>1. hook'[i] = hook[i]
      BY <1>1, <2>2
    <3>2. PrintsWell(hook[i].printed, i, resolved[i])
      BY <1>2 DEF PrintsTheVerdict, PrintsWell
    <3>3. resolved[i] = "none" => hook[i].printed \notin {"approve", "block"}
      BY <3>2 DEF PrintsWell
    <3> QED BY <1>2, <3>1, <3>2, <3>3 DEF PrintsWell
  <2> QED BY <2>1, <2>2
<1>8. PrintsTheVerdict'
  BY <1>7 DEF PrintsTheVerdict, PrintsWell
<1>9. AnswersAgree'
  <2> SUFFICES ASSUME NEW i \in Ids, hook'[i].pc = "answered", hook'[i].answer \in Decisions
               PROVE  resolved'[i] = hook'[i].answer
    BY DEF AnswersAgree
  <2>1. "none" \notin Decisions
    BY DEF Decisions, UserDecisions
  <2>2. CASE i # h
    <3>1. resolved[i] = hook[i].answer /\ hook'[i] = hook[i]
      BY <1>1, <1>2, <2>2 DEF AnswersAgree
    <3> QED BY <2>1, <3>1
  <2>3. CASE i = h
    <3>1. ~ Ending(h)
      <4>1. ASSUME Ending(h) PROVE hook'[h].pc = "done"
        BY <4>1, EndShape DEF Ending
      <4> QED BY <2>3, <4>1
    <3>2. Waypoint(h)
      BY <3>1
    <3>3. {"shutdown", "busy", "gone", "pending"} \cap Decisions = {}
      BY DEF Decisions, UserDecisions
    <3>4. /\ Knows(store, h) /\ IsDecided(store.by_id[h])
          /\ hook'[h].answer = store.by_id[h].state
      BY <2>3, <3>2, <3>3 DEF Waypoint
    <3>5. resolved[h] = hook'[h].answer
      BY <1>2, <3>4 DEF HistoryAgrees
    <3> QED BY <2>1, <2>3, <3>5
  <2> QED BY <2>2, <2>3
<1> QED BY <1>3, <1>4, <1>7, <1>8, <1>9 DEF Inv, Sound

(* The actions that read the store and do not change it. *)
LEMMA QuietSteps ==
  ASSUME Inv, NEW h \in Ids,
         HookStep(h) \/ SubmitArrives(h) \/ ServePoll(h) \/ AnswerDecided(h) \/ AnswerPending(h)
  PROVE  Inv' /\ UNCHANGED <<store, now, resolved>>
<1>1. UNCHANGED <<store, now, server, hint, resolved>>
  BY DEF HookStep, ConfigFails, InputFails, SendSubmit, CheckDeadline, SendPoll, Connect,
         Receive, WireFails, Killed, SubmitArrives, ServePoll, AnswerDecided, AnswerPending
<1>2. Ending(h) \/ Waypoint(h)
  BY ProcessMoves DEF ServerStep
<1>3. \A i \in Ids : hook'[i].pc \in Unserved => hook[i].pc \in Unserved
  <2>1. /\ \A i \in Ids \ {h} : hook'[i] = hook[i]
        /\ hook'[h].pc \in Unserved => hook[h].pc \in Unserved \ {"arrived"}
    BY <1>2, OnlyOneMoves
  <2> QED BY <2>1
<1>4. /\ HistoryAgrees'
      /\ resolved' \in [Ids -> Decisions \cup {"none"}]
      /\ \A i \in Ids : resolved[i] # "none" => resolved'[i] = resolved[i]
  BY <1>1, <1>3, HistoryStays
<1>5. /\ Sound(store') /\ server' \in {"up", "closing", "stopped"} /\ hint' \in BOOLEAN
  BY <1>1, Types
<1> QED BY <1>1, <1>2, <1>4, <1>5, MoveKeepsInv

(* What a submission finds and leaves: it is the first of its process, it is refused
   only because of another approval that is live, and it adds its own or none. *)
LEMMA SubmissionCases ==
  ASSUME Inv, NEW h \in Ids, hook[h].pc = "arrived", NEW fp \in Fingerprints
  PROVE  LET expired == ExpireDuePending(store, now)
             after   == Enqueue(expired, h, fp, now, TTL)
         IN /\ Sound(after)
            /\ KeepsDecisions({h}, store, after)
            /\ h \in DOMAIN after.by_id => IsPending(after.by_id[h])
            /\ EnqueueOutcome(expired, h, fp) # "Created" =>
                 /\ after.active # NoId
                 /\ now < after.by_id[after.active].expires_at
<1> DEFINE expired == ExpireDuePending(store, now)
           after   == Enqueue(expired, h, fp, now, TTL)
<1>1. /\ Sound(store) /\ Sound(expired) /\ KeepsDecisions({}, store, expired)
      /\ now \in Nat
  BY DecisionsAreKept, Limits DEF Inv, TypeOK, Sound
<1>2. ~ Knows(store, h) /\ ~ Knows(expired, h)
  BY <1>1 DEF Inv, HistoryAgrees, KeepsDecisions, Knows, Unserved
<1>3. Sound(after)
  BY <1>1, EnqueueSound, Limits
<1>4. CASE EnqueueOutcome(expired, h, fp) = "Created"
  <2> HIDE DEF expired
  <2>1. /\ KeepsDecisions({h}, expired, after)
        /\ h \in DOMAIN after.by_id /\ IsPending(after.by_id[h])
    BY <1>1, <1>4, EnqueueKeeps, Limits
  <2> HIDE DEF after
  <2>2. KeepsDecisions({h}, store, after)
    <3> SUFFICES ASSUME NEW j \in DOMAIN after.by_id \ {h}
                 PROVE  /\ j \in DOMAIN store.by_id
                        /\ IsDecided(store.by_id[j]) =>
                             after.by_id[j].state = store.by_id[j].state
      BY DEF KeepsDecisions
    <3> QED BY <1>1, <2>1 DEF KeepsDecisions, IsDecided
  <2> QED BY <1>3, <1>4, <2>1, <2>2 DEF after, expired
<1>5. CASE EnqueueOutcome(expired, h, fp) # "Created"
  <2>1. after = expired
    BY <1>5 DEF Enqueue
  <2>2. expired.active # NoId
    BY <1>2, <1>5 DEF EnqueueOutcome
  <2>3. expired = store /\ ~ IsDue(store, now)
    <3>1. CASE IsDue(store, now)
      <4>1. store.active # NoId /\ expired = Resolve(store, store.active, "TimedOut")
        BY <3>1 DEF IsDue, ExpireDuePending
      <4>2. "TimedOut" \in Decisions
        BY DEF Decisions
      <4>3. Resolve(store, store.active, "TimedOut").active = NoId
        BY <1>1, <4>1, <4>2, ResolveShape
      <4>4. expired.active = NoId
        BY <4>1, <4>3
      <4> QED BY <2>2, <4>4
    <3>2. CASE ~ IsDue(store, now)
      BY <3>2 DEF ExpireDuePending
    <3> QED BY <3>1, <3>2
  <2>4. store.active \in DOMAIN store.by_id
    BY <1>1, <2>2, <2>3 DEF Sound, WellFormed, KnownIds
  <2>5. IsPending(store.by_id[store.active]) /\ store.by_id[store.active].expires_at \in Nat
    BY <1>1, <2>4 DEF Sound, StoreType, WellFormed, ActiveIsThePending, Approval
  <2>6. now < store.by_id[store.active].expires_at
    BY <1>1, <2>2, <2>3, <2>4, <2>5 DEF IsDue, Knows
  <2>7. KeepsDecisions({h}, store, after) /\ h \notin DOMAIN after.by_id
    BY <1>1, <1>2, <2>1 DEF KeepsDecisions, Knows
  <2> QED BY <1>3, <2>1, <2>2, <2>3, <2>6, <2>7
<1> QED BY <1>4, <1>5

(* What a submission does, in the terms of its cases. *)
LEMMA SubmissionShape ==
  ASSUME Inv, NEW h \in Ids, ServeSubmit(h)
  PROVE  LET expired == ExpireDuePending(store, now)
         IN /\ hook[h].pc = "arrived" /\ UNCHANGED <<now, server>> /\ hint' \in BOOLEAN
            /\ Update(store')
            /\ \E fp \in Fingerprints :
                 /\ store' = Enqueue(expired, h, fp, now, TTL)
                 /\ EnqueueOutcome(expired, h, fp) = "Created" => hook'[h].pc = "submit_held"
                 /\ EnqueueOutcome(expired, h, fp) # "Created" =>
                      hook'[h].pc = "answered" /\ hook'[h].answer = "busy"
<1>1. /\ hook[h].pc = "arrived" /\ UNCHANGED <<now, server>>
      /\ hint \in BOOLEAN /\ hook \in [Ids -> Process]
  BY Types DEF ServeSubmit, At
<1>2. "submit_held" \in Pcs /\ "busy" \in Answers
  BY DEF Pcs, Answers
<1>3. /\ Hold(h, "submit_held") => hook'[h].pc = "submit_held"
      /\ Answer(h, "busy") => hook'[h].pc = "answered" /\ hook'[h].answer = "busy"
  BY <1>2, Shapes
<1>4. PICK fp \in Fingerprints :
        /\ Update(Enqueue(ExpireDuePending(store, now), h, fp, now, TTL))
        /\ IF EnqueueOutcome(ExpireDuePending(store, now), h, fp) = "Created"
             THEN Hold(h, "submit_held") /\ hint' = TRUE
             ELSE Answer(h, "busy") /\ UNCHANGED hint
  BY DEF ServeSubmit
<1>5. store' = Enqueue(ExpireDuePending(store, now), h, fp, now, TTL)
  BY <1>4 DEF Update
<1>6. Update(store')
  BY <1>4, <1>5
<1>7. hint' \in BOOLEAN
  BY <1>1, <1>4
<1> QED BY <1>1, <1>3, <1>4, <1>5, <1>6, <1>7

(* A submission is served. *)
LEMMA ServeSubmitStep ==
  ASSUME Inv, NEW h \in Ids, ServeSubmit(h)
  PROVE  Inv'
<1>1. PICK fp \in Fingerprints :
        store' = Enqueue(ExpireDuePending(store, now), h, fp, now, TTL)
  BY SubmissionShape
<1>2. /\ hook[h].pc = "arrived" /\ server' = server /\ hint' \in BOOLEAN /\ Update(store')
  BY SubmissionShape
<1>3. /\ Sound(store') /\ KeepsDecisions({h}, store, store')
      /\ h \in DOMAIN store'.by_id => IsPending(store'.by_id[h])
  BY <1>1, <1>2, SubmissionCases
<1>4. Ending(h) \/ Waypoint(h)
  BY ProcessMoves DEF ServerStep
<1>5. \A i \in Ids : hook'[i].pc \in Unserved => hook[i].pc \in Unserved /\ i \notin {h}
  <2>1. /\ \A i \in Ids \ {h} : hook'[i] = hook[i]
        /\ hook'[h].pc \in Unserved => hook[h].pc \in Unserved \ {"arrived"}
    BY <1>4, OnlyOneMoves
  <2> QED BY <1>2, <2>1
<1>6. resolved[h] = "none"
  BY <1>2 DEF Inv, HistoryAgrees, Unserved
<1>7. /\ HistoryAgrees'
      /\ resolved' \in [Ids -> Decisions \cup {"none"}]
      /\ \A i \in Ids : resolved[i] # "none" => resolved'[i] = resolved[i]
  BY <1>2, <1>3, <1>5, <1>6, HistoryStep
<1>8. server' \in {"up", "closing", "stopped"}
  BY <1>2, Types
<1> QED BY <1>2, <1>3, <1>4, <1>7, <1>8, MoveKeepsInv

(* The HUD and the exit sequence change the store and leave the processes. *)
LEMMA ApplicationStep ==
  ASSUME Inv, \/ \E i \in Ids, d \in UserDecisions : HudDecide(i, d)
              \/ HudSnapshot \/ BeginClose
  PROVE  Inv'
<1>1. Sound(store) /\ hook \in [Ids -> Process] /\ now \in 0..Horizon
  BY Types
<1>2. PICK s : Update(s) /\ Sound(s) /\ KeepsDecisions({}, store, s)
  <2>1. ASSUME NEW i \in Ids, NEW d \in UserDecisions, HudDecide(i, d)
        PROVE  \E s : Update(s) /\ Sound(s) /\ KeepsDecisions({}, store, s)
    <3> DEFINE expired == ExpireDuePending(store, now)
               after == Decide(expired, i, d)
    <3>1. Sound(expired) /\ KeepsDecisions({}, store, expired)
      BY <1>1, DecisionsAreKept
    <3> HIDE DEF expired
    <3>2. Sound(after) /\ KeepsDecisions({}, expired, after)
      <4>1. d \in Decisions
        BY DEF Decisions
      <4>2. \A id : \A e \in Decisions :
              Sound(Decide(expired, id, e)) /\ KeepsDecisions({}, expired, Decide(expired, id, e))
        BY <3>1, DecisionsAreKept
      <4> QED BY <4>1, <4>2
    <3>3. Update(after)
      BY <2>1 DEF HudDecide, expired
    <3> HIDE DEF expired, after
    <3>4. KeepsDecisions({}, store, after)
      <4> SUFFICES ASSUME NEW j \in DOMAIN after.by_id
                   PROVE  /\ j \in DOMAIN store.by_id
                          /\ IsDecided(store.by_id[j]) =>
                               after.by_id[j].state = store.by_id[j].state
        BY DEF KeepsDecisions
      <4> QED BY <3>1, <3>2 DEF KeepsDecisions, IsDecided
    <3> QED BY <3>2, <3>3, <3>4
  <2>2. CASE HudSnapshot
    BY <1>1, <2>2, DecisionsAreKept DEF HudSnapshot
  <2>3. CASE BeginClose
    BY <1>1, <2>3, DecisionsAreKept DEF BeginClose
  <2> QED BY <2>1, <2>2, <2>3
<1>3. store' = s /\ Update(store')
  BY <1>2 DEF Update
<1>4. /\ hook' = hook /\ now' = now
      /\ server' \in {"up", "closing", "stopped"} /\ hint' \in BOOLEAN
  BY DEF HudDecide, HudSnapshot, BeginClose, Inv, TypeOK
<1>5. /\ HistoryAgrees'
      /\ resolved' \in [Ids -> Decisions \cup {"none"}]
      /\ \A i \in Ids : resolved[i] # "none" => resolved'[i] = resolved[i]
  <2>1. Sound(store') /\ KeepsDecisions({}, store, store')
    BY <1>2, <1>3
  <2> QED BY <1>3, <1>4, <2>1, HistoryStep
<1>6. Sound(store')
  BY <1>2, <1>3
<1>7. AnswersAgree' /\ PrintsTheVerdict'
  <2>1. AnswersAgree /\ PrintsTheVerdict /\ "none" \notin Decisions
    BY DEF Inv, Decisions, UserDecisions
  <2>2. \A i \in Ids : resolved[i] # "none" => resolved'[i] = resolved[i]
    BY <1>5
  <2>3. AnswersAgree'
    BY <1>4, <2>1, <2>2 DEF AnswersAgree
  <2>4. PrintsTheVerdict'
    BY <1>4, <2>1, <2>2 DEF PrintsTheVerdict
  <2> QED BY <2>3, <2>4
<1>8. \A i \in Ids : InTime(i)'
  BY <1>4 DEF Inv, InTime, Reading
<1>9. TypeOK'
  BY <1>4, <1>5, <1>6 DEF Inv, TypeOK, Sound
<1> QED BY <1>4, <1>5, <1>6, <1>7, <1>8, <1>9 DEF Inv, Sound

(* Time passes: no timer is due, so each process is still in time afterwards. *)
LEMMA TickStep ==
  ASSUME Inv, Tick
  PROVE  Inv'
<1>1. /\ now \in Nat /\ now < Horizon /\ now' = now + 1
      /\ UNCHANGED <<store, server, hint, hook, resolved>>
      /\ hook \in [Ids -> Process]
  BY Limits, Types DEF Tick
<1>2. ASSUME NEW h \in Ids PROVE InTime(h)'
  <2>1. /\ InTime(h)
        /\ hook[h].began \in 0..Horizon /\ hook[h].since \in 0..Horizon
        /\ hook[h].held \in 0..Horizon
    BY <1>1 DEF Inv, Process
  <2>2. /\ hook[h].pc \in {"submitting", "polling"} => now < hook[h].since + ConnectTimeout
        /\ Reading(h) => now < hook[h].since + ReadTimeout
        /\ hook[h].pc = "pausing" => now < hook[h].since + Pause
        /\ hook[h].pc \notin {"arrived", "check"}
        /\ hook[h].pc = "submit_held" => ~ (now >= hook[h].held + MaxWait)
    BY DEF Tick, At, Held, WaitIsOver
  <2> QED BY <1>1, <2>1, <2>2, Limits DEF InTime, Reading
<1>3. now' \in 0..Horizon
  BY <1>1, Limits
<1> QED BY <1>1, <1>2, <1>3 DEF Inv, TypeOK, PrintsTheVerdict, HistoryAgrees, AnswersAgree

(* The invariant holds at the start. *)
LEMMA InitInv == Init => Inv
<1> SUFFICES ASSUME Init PROVE Inv
  OBVIOUS
<1>1. Sound(store) /\ store = NewStore
  BY NewStoreSound DEF Init
<1>2. DOMAIN store.by_id = {}
  BY <1>1 DEF NewStore
<1>3. 0 \in 0..Horizon
  BY Limits
<1>4. TypeOK
  BY <1>1, <1>3 DEF Init, TypeOK, Sound, Fresh
<1>5. HistoryAgrees /\ AnswersAgree
  BY <1>2 DEF Init, HistoryAgrees, AnswersAgree, Knows, Fresh
<1> QED
  BY <1>1, <1>4, <1>5 DEF Inv, Sound, Init, PrintsTheVerdict, InTime, Reading, Fresh

(* Every step keeps it. *)
LEMMA StepInv == Inv /\ [Next]_vars => Inv'
<1> SUFFICES ASSUME Inv, [Next]_vars PROVE Inv'
  OBVIOUS
<1>1. CASE \E h \in Ids : HookStep(h) \/ ServerStep(h)
  BY <1>1, QuietSteps, ServeSubmitStep DEF ServerStep
<1>2. CASE \/ \E i \in Ids, d \in UserDecisions : HudDecide(i, d)
           \/ HudSnapshot \/ BeginClose
  BY <1>2, ApplicationStep
<1>3. CASE StopServer
  BY <1>3 DEF StopServer, Inv, TypeOK, PrintsTheVerdict, HistoryAgrees, AnswersAgree, InTime,
              Reading
<1>4. CASE Tick
  BY <1>4, TickStep
<1>5. CASE UNCHANGED vars
  BY <1>5 DEF vars, Inv, TypeOK, PrintsTheVerdict, HistoryAgrees, AnswersAgree, InTime,
              Reading
<1> QED BY <1>1, <1>2, <1>3, <1>4, <1>5 DEF Next

--------------------------------------------------------------------------------
(* The variables always have their types. *)
THEOREM TypeCorrect == Spec => []TypeOK
<1>1. Inv => TypeOK
  BY DEF Inv
<1> QED BY InitInv, StepInv, <1>1, PTL DEF Spec

(* The agent is told what the approval of this very call came to, read under this
   process's timeout_action, or nothing: pre_tool_use.rs's map_decision_to_hook_json
   at the end of any interleaving of hooks, users, expiries, evictions and shutdown. *)
THEOREM AgentsHearTheVerdict == Spec => []PrintsTheVerdict
<1>1. Inv => PrintsTheVerdict
  BY DEF Inv
<1> QED BY InitInv, StepInv, <1>1, PTL DEF Spec

(* No hook outlives --max-time by more than one pause, one connection and one read:
   the deadline of pre_tool_use.rs's loop, wherever it strikes, and the timeouts of
   http_client.rs, whether its answer comes, is delayed or is lost. *)
THEOREM HooksEnd == Spec => []EndsInTime
<1>1. Inv => EndsInTime
  <2> SUFFICES ASSUME Inv, NEW h \in Ids, hook[h].pc \notin {"new", "done"}
               PROVE  now < hook[h].began + MaxTotal + Pause + ConnectTimeout + ReadTimeout
    BY DEF EndsInTime
  <2>1. /\ InTime(h) /\ now \in 0..Horizon /\ hook[h] \in Process
        /\ hook[h].began \in 0..Horizon /\ hook[h].since \in 0..Horizon
        /\ hook[h].held \in 0..Horizon
    BY Types DEF Inv, Process
  <2>2. hook[h].pc \in {"submitting", "check", "pausing", "polling"} \/ Reading(h)
    BY <2>1 DEF Process, Pcs, Reading
  <2> QED BY <2>1, <2>2, Limits DEF InTime
<1> QED BY InitInv, StepInv, <1>1, PTL DEF Spec

(* A step that changes a process is a step of that process, or of the server for it. *)
LEMMA OwnStep ==
  ASSUME Inv, [Next]_vars, NEW h \in Ids, hook'[h] # hook[h]
  PROVE  /\ HookStep(h) \/ ServerStep(h)
         /\ Ending(h) \/ Waypoint(h)
<1>1. PICK g \in Ids : HookStep(g) \/ ServerStep(g)
  BY DEF Next, vars, HudDecide, HudSnapshot, BeginClose, StopServer, Tick
<1>2. \A i \in Ids \ {g} : hook'[i] = hook[i]
  BY <1>1, ProcessMoves, OnlyOneMoves
<1>3. g = h
  BY <1>2
<1> QED BY <1>1, <1>3, ProcessMoves

(* A submission is refused as busy only because of another approval whose ttl has not
   run out: handle_submit expires what is due before it enqueues. *)
THEOREM AbandonedApprovalsBlockNobody == Spec => BusyOnlyWhileLive
<1>1. Inv /\ [Next]_vars =>
        [\A h \in Ids : hook'[h].answer = "busy" /\ hook[h].answer # "busy" =>
           store'.active # NoId /\ now < store'.by_id[store'.active].expires_at]_vars
  <2> SUFFICES ASSUME Inv, [Next]_vars, NEW h \in Ids,
                      hook'[h].answer = "busy", hook[h].answer # "busy"
               PROVE  store'.active # NoId /\ now < store'.by_id[store'.active].expires_at
    OBVIOUS
  <2>1. Ending(h) \/ Waypoint(h)
    BY OwnStep
  <2>2. ~ Ending(h)
    <3>1. ASSUME Ending(h) PROVE hook'[h].answer = "none"
      BY <3>1, EndShape DEF Ending
    <3> QED BY <3>1
  <2>3. hook[h].pc = "arrived" /\ hook'[h].pc = "answered"
    <3>1. "busy" \notin Decisions
      BY DEF Decisions, UserDecisions
    <3> QED BY <2>1, <2>2, <3>1 DEF Waypoint, IsDecided
  <2>4. ServeSubmit(h)
    <3>1. HookStep(h) \/ ServerStep(h)
      BY OwnStep
    <3>2. ~ HookStep(h)
      <4>1. ~ WireFails(h) /\ ~ Killed(h)
        <5>1. ASSUME WireFails(h) \/ Killed(h) PROVE \E e, p, w : End(h, e, p, w)
          BY <5>1 DEF WireFails, Killed, FailClosed
        <5>2. ASSUME NEW e, NEW p, NEW w, End(h, e, p, w) PROVE hook'[h].pc = "done"
          BY <5>2, Types DEF End, Fresh
        <5> QED BY <2>3, <5>1, <5>2
      <4> QED BY <2>3, <4>1
              DEF HookStep, ConfigFails, InputFails, SendSubmit, CheckDeadline, SendPoll,
                  Connect, Receive, At
    <3> QED BY <2>3, <3>1, <3>2
            DEF ServerStep, SubmitArrives, ServePoll, AnswerDecided, AnswerPending, At, Held
  <2> DEFINE expired == ExpireDuePending(store, now)
  <2>5. PICK fp \in Fingerprints :
          /\ store' = Enqueue(expired, h, fp, now, TTL)
          /\ EnqueueOutcome(expired, h, fp) = "Created" => hook'[h].pc = "submit_held"
    BY <2>4, SubmissionShape
  <2>6. EnqueueOutcome(expired, h, fp) # "Created"
    BY <2>3, <2>5
  <2> QED BY <2>3, <2>5, <2>6, SubmissionCases
<1> QED BY InitInv, StepInv, <1>1, PTL DEF Spec, BusyOnlyWhileLive

--------------------------------------------------------------------------------
(* What an approval is worth to its hook: it ends before the hook does, and a
   decision that a user gave reaches a hook that has time left, even if it is
   forgotten before the answer is made. *)
Live(h) ==
  LET end == hook[h].began + MaxTotal
  IN /\ hook[h].pc \notin {"new", "done"} /\ Knows(store, h) =>
          store.by_id[h].expires_at <= hook[h].began + ConnectTimeout + Delay + TTL
     /\ resolved[h] \in UserDecisions =>
          /\ hook[h].pc = "poll_held" => now + Delay < end
          /\ hook[h].pc = "answered" /\ hook[h].answer = "pending" =>
               hook[h].held + Delay < end
          /\ hook[h].pc = "check" => now < end

(* No approval gets a new term. *)
KeepsTerms(X, s, r) ==
  \A i \in DOMAIN r.by_id \ X :
    i \in DOMAIN s.by_id /\ r.by_id[i].expires_at = s.by_id[i].expires_at

(* No decision of a user is new, except on these. *)
DecidedByUser(X, s, r) ==
  \A i \in DOMAIN r.by_id \ X :
    r.by_id[i].state \in UserDecisions =>
      i \in DOMAIN s.by_id /\ s.by_id[i].state = r.by_id[i].state

(* To resolve the active approval does neither to any other. *)
LEMMA ResolveKeepsTerms ==
  ASSUME NEW s, Sound(s), s.active # NoId, NEW d \in Decisions
  PROVE  /\ KeepsTerms({}, s, Resolve(s, s.active, d))
         /\ DecidedByUser({s.active}, s, Resolve(s, s.active, d))
         /\ d \notin UserDecisions => DecidedByUser({}, s, Resolve(s, s.active, d))
<1> DEFINE r == Resolve(s, s.active, d)
<1>1. /\ s.active \in DOMAIN s.by_id
      /\ DOMAIN r.by_id = DOMAIN s.by_id \ Evicted(Append(s.cached_order, s.active))
      /\ \A x \in DOMAIN r.by_id :
           r.by_id[x] = IF x = s.active THEN Settled(s.by_id[x], d) ELSE s.by_id[x]
  BY ResolveShape
<1>2. \A x \in DOMAIN s.by_id : /\ Settled(s.by_id[x], d).expires_at = s.by_id[x].expires_at
                                /\ Settled(s.by_id[x], d).state = d
  BY DEF Settled, Sound, StoreType, Approval
<1> HIDE DEF r
<1>3. KeepsTerms({}, s, r)
  BY <1>1, <1>2 DEF KeepsTerms
<1>4. DecidedByUser({s.active}, s, r)
  BY <1>1 DEF DecidedByUser
<1>5. d \notin UserDecisions => DecidedByUser({}, s, r)
  BY <1>1, <1>2 DEF DecidedByUser
<1> QED BY <1>3, <1>4, <1>5 DEF r

(* Expiry and cancellation, whatever they find. *)
LEMMA OthersKeepTerms ==
  ASSUME NEW s, Sound(s)
  PROVE  /\ \A t : /\ KeepsTerms({}, s, ExpireDuePending(s, t))
                   /\ DecidedByUser({}, s, ExpireDuePending(s, t))
         /\ \A id : KeepsTerms({}, s, Cancel(s, id)) /\ DecidedByUser({}, s, Cancel(s, id))
<1>1. KeepsTerms({}, s, s) /\ DecidedByUser({}, s, s)
  BY DEF KeepsTerms, DecidedByUser
<1>2. /\ "TimedOut" \in Decisions \ UserDecisions
      /\ "Cancelled" \in Decisions \ UserDecisions
  BY DEF Decisions, UserDecisions
<1>3. ASSUME NEW t
      PROVE  /\ KeepsTerms({}, s, ExpireDuePending(s, t))
             /\ DecidedByUser({}, s, ExpireDuePending(s, t))
  <2>1. CASE IsDue(s, t)
    <3>1. ExpireDuePending(s, t) = Resolve(s, s.active, "TimedOut") /\ s.active # NoId
      BY <2>1 DEF ExpireDuePending, IsDue
    <3> QED BY <1>2, <3>1, ResolveKeepsTerms
  <2>2. CASE ~ IsDue(s, t)
    BY <1>1, <2>2 DEF ExpireDuePending
  <2> QED BY <2>1, <2>2
<1>4. ASSUME NEW id PROVE KeepsTerms({}, s, Cancel(s, id)) /\ DecidedByUser({}, s, Cancel(s, id))
  <2>1. CASE DecideOutcome(s, id) = "Ok"
    <3>1. Cancel(s, id) = Resolve(s, s.active, "Cancelled") /\ s.active # NoId
      BY <2>1, DecidableIsActive DEF Cancel
    <3> QED BY <1>2, <3>1, ResolveKeepsTerms
  <2>2. CASE DecideOutcome(s, id) # "Ok"
    BY <1>1, <2>2 DEF Cancel
  <2> QED BY <2>1, <2>2
<1> QED BY <1>3, <1>4

(* A user decides before the approval is due: decide_authoritative expires first. *)
LEMMA UsersDecideInTime ==
  ASSUME NEW s, Sound(s), NEW t \in Nat, NEW id \in Ids, NEW d \in UserDecisions
  PROVE  LET r == Decide(ExpireDuePending(s, t), id, d)
         IN /\ KeepsTerms({}, s, r)
            /\ \/ DecidedByUser({}, s, r)
               \/ /\ DecidedByUser({id}, s, r)
                  /\ id \in DOMAIN s.by_id /\ t < s.by_id[id].expires_at
<1> DEFINE expired == ExpireDuePending(s, t)
           r == Decide(expired, id, d)
<1>1. d \in Decisions
  BY DEF Decisions
<1>2. CASE DecideOutcome(expired, id) # "Ok"
  <2>1. r = expired
    BY <1>2 DEF Decide
  <2> QED BY <2>1, OthersKeepTerms
<1>3. CASE DecideOutcome(expired, id) = "Ok"
  <2>1. Sound(expired)
    BY DecisionsAreKept
  <2> HIDE DEF expired
  <2>2. expired.active = id /\ expired.active # NoId
    BY <1>3, <2>1, DecidableIsActive
  <2>3. expired = s /\ ~ IsDue(s, t)
    <3>1. CASE IsDue(s, t)
      <4>1. expired = Resolve(s, s.active, "TimedOut")
        BY <3>1 DEF ExpireDuePending, expired
      <4>2. s.active # NoId /\ "TimedOut" \in Decisions
        BY <3>1 DEF IsDue, Decisions
      <4>3. Resolve(s, s.active, "TimedOut").active = NoId
        BY <4>2, ResolveFrees
      <4> QED BY <2>2, <4>1, <4>3
    <3>2. CASE ~ IsDue(s, t)
      BY <3>2 DEF ExpireDuePending, expired
    <3> QED BY <3>1, <3>2
  <2>4. id \in DOMAIN s.by_id
    BY <2>2, <2>3 DEF Sound, WellFormed, KnownIds
  <2>5. IsPending(s.by_id[id]) /\ s.by_id[id].expires_at \in Nat
    BY <2>2, <2>3, <2>4 DEF Sound, StoreType, WellFormed, ActiveIsThePending, Approval
  <2>6. t < s.by_id[id].expires_at
    BY <2>2, <2>3, <2>4, <2>5 DEF IsDue, Knows
  <2>7. r = Resolve(s, s.active, d) /\ s.active = id /\ s.active # NoId
    BY <1>3, <2>2, <2>3 DEF Decide
  <2>8. KeepsTerms({}, s, r) /\ DecidedByUser({id}, s, r)
    BY <1>1, <2>7, ResolveKeepsTerms
  <2> QED BY <2>4, <2>6, <2>8 DEF expired
<1> QED BY <1>2, <1>3

(* A submission starts a term, and decides for no user. *)
LEMMA SubmissionStartsTerm ==
  ASSUME NEW s, Sound(s), NEW t \in Nat, NEW id \in Ids, NEW fp \in Fingerprints
  PROVE  LET r == Enqueue(ExpireDuePending(s, t), id, fp, t, TTL)
         IN /\ KeepsTerms({id}, s, r)
            /\ DecidedByUser({}, s, r)
            /\ EnqueueOutcome(ExpireDuePending(s, t), id, fp) = "Created" =>
                 r.by_id[id].expires_at = t + TTL
<1> DEFINE expired == ExpireDuePending(s, t)
           r == Enqueue(expired, id, fp, t, TTL)
<1>1. Sound(expired) /\ KeepsTerms({}, s, expired) /\ DecidedByUser({}, s, expired)
  BY OthersKeepTerms, DecisionsAreKept
<1> HIDE DEF expired
<1>2. CASE EnqueueOutcome(expired, id, fp) # "Created"
  <2>1. r = expired
    BY <1>2 DEF Enqueue
  <2>2. KeepsTerms({id}, s, expired)
    BY <1>1 DEF KeepsTerms
  <2> QED BY <1>1, <1>2, <2>1, <2>2 DEF expired
<1>3. CASE EnqueueOutcome(expired, id, fp) = "Created"
  <2>1. r.by_id = Insert(expired.by_id, id, Created(expired, fp, t + TTL))
    BY <1>1, <1>3, EnqueueShape, Limits
  <2>2. /\ Created(expired, fp, t + TTL).expires_at = t + TTL
        /\ Created(expired, fp, t + TTL).state \notin UserDecisions
    BY DEF Created, UserDecisions
  <2> HIDE DEF r
  <2>3. KeepsTerms({id}, expired, r) /\ DecidedByUser({}, expired, r)
        /\ r.by_id[id].expires_at = t + TTL
    BY <2>1, <2>2 DEF KeepsTerms, DecidedByUser, Insert
  <2>4. KeepsTerms({id}, s, r) /\ DecidedByUser({}, s, r)
    BY <1>1, <2>3 DEF KeepsTerms, DecidedByUser
  <2> QED BY <2>3, <2>4 DEF r, expired
<1> QED BY <1>2, <1>3

(* How the terms and the users' decisions evolve in a step of the whole system. *)
LEMMA TermsEvolve ==
  ASSUME Inv, [Next]_vars
  PROVE  /\ \A h \in Ids : Knows(store', h) =>
              \/ /\ Knows(store, h)
                 /\ store'.by_id[h].expires_at = store.by_id[h].expires_at
              \/ ServeSubmit(h)
         /\ \A h \in Ids : resolved'[h] \in UserDecisions =>
              \/ resolved[h] \in UserDecisions
              \/ /\ \E i \in Ids, d \in UserDecisions : HudDecide(i, d)
                 /\ Knows(store, h) /\ now < store.by_id[h].expires_at
<1> DEFINE Terms == \A h \in Ids : Knows(store', h) =>
                      \/ /\ Knows(store, h)
                         /\ store'.by_id[h].expires_at = store.by_id[h].expires_at
                      \/ ServeSubmit(h)
           Verdicts(X) == \A h \in Ids \ X : resolved'[h] \in UserDecisions =>
                            resolved[h] \in UserDecisions
<1>1. Sound(store) /\ now \in Nat /\ HistoryAgrees
  BY Limits DEF Inv, TypeOK, Sound
<1>2. ASSUME KeepsTerms({}, store, store') PROVE Terms
  BY <1>2 DEF KeepsTerms, Knows
<1>3. ASSUME NEW X, DecidedByUser(X, store, store'), Update(store') PROVE Verdicts(X)
  <2> SUFFICES ASSUME NEW h \in Ids \ X, resolved'[h] \in UserDecisions,
                      resolved[h] \notin UserDecisions
               PROVE  FALSE
    OBVIOUS
  <2>1. /\ resolved[h] = "none" /\ Knows(store', h)
        /\ resolved'[h] = store'.by_id[h].state
    BY <1>3 DEF Update
  <2>2. Knows(store, h) /\ store.by_id[h].state \in UserDecisions
    BY <1>3, <2>1 DEF DecidedByUser, Knows
  <2>3. resolved[h] = store.by_id[h].state
    BY <1>1, <2>2 DEF HistoryAgrees, IsDecided, Decisions
  <2> QED BY <2>2, <2>3
<1>4. CASE UNCHANGED <<store, resolved>>
  <2>1. KeepsTerms({}, store, store')
    BY <1>4 DEF KeepsTerms
  <2> QED BY <1>2, <1>4, <2>1
<1>5. CASE HudSnapshot \/ BeginClose
  <2>1. /\ KeepsTerms({}, store, store') /\ DecidedByUser({}, store, store')
        /\ Update(store')
    <3>1. PICK s : Update(s) /\ KeepsTerms({}, store, s) /\ DecidedByUser({}, store, s)
      BY <1>1, <1>5, OthersKeepTerms DEF HudSnapshot, BeginClose
    <3>2. s = store'
      BY <3>1 DEF Update
    <3> QED BY <3>1, <3>2
  <2> QED BY <1>2, <1>3, <2>1
<1>6. ASSUME NEW i \in Ids, NEW d \in UserDecisions, HudDecide(i, d)
      PROVE  /\ Terms
             /\ \/ Verdicts({})
                \/ Verdicts({i}) /\ Knows(store, i) /\ now < store.by_id[i].expires_at
  <2>1. PICK s : /\ s = Decide(ExpireDuePending(store, now), i, d)
                 /\ Update(s)
    BY <1>6 DEF HudDecide
  <2>2. s = store'
    BY <2>1 DEF Update
  <2>3. /\ KeepsTerms({}, store, s)
        /\ \/ DecidedByUser({}, store, s)
           \/ /\ DecidedByUser({i}, store, s)
              /\ i \in DOMAIN store.by_id /\ now < store.by_id[i].expires_at
    BY <1>1, <2>1, UsersDecideInTime
  <2> QED BY <1>2, <1>3, <2>1, <2>2, <2>3 DEF Knows
<1>7. ASSUME NEW h \in Ids, ServeSubmit(h) PROVE Terms /\ Verdicts({})
  <2>1. PICK fp, s :
          /\ fp \in Fingerprints /\ s = Enqueue(ExpireDuePending(store, now), h, fp, now, TTL)
          /\ Update(s)
    BY <1>7 DEF ServeSubmit
  <2>2. s = store'
    BY <2>1 DEF Update
  <2>3. KeepsTerms({h}, store, s) /\ DecidedByUser({}, store, s)
    BY <1>1, <2>1, SubmissionStartsTerm
  <2>4. Terms
    BY <1>7, <2>2, <2>3 DEF KeepsTerms, Knows
  <2> QED BY <1>3, <2>1, <2>2, <2>3, <2>4
<1>8. ASSUME NEW h \in Ids,
             HookStep(h) \/ SubmitArrives(h) \/ ServePoll(h)
               \/ AnswerDecided(h) \/ AnswerPending(h)
      PROVE  UNCHANGED <<store, resolved>>
  BY <1>8, QuietSteps
<1>9. CASE StopServer \/ Tick \/ UNCHANGED vars
  BY <1>4, <1>9 DEF StopServer, Tick, vars
<1> QED BY <1>4, <1>5, <1>6, <1>7, <1>8, <1>9 DEF Next, ServerStep

(* A hook outlives the term of its approval, and hears of a user's decision in time,
   when it may run for as long as it takes to connect, to be heard, to be held once
   and to be answered. *)
LEMMA StepLive ==
  ASSUME ConnectTimeout + 2 * Delay + TTL <= MaxTotal,
         ConnectTimeout + 2 * Delay + MaxWait < MaxTotal,
         Inv, \A h \in Ids : Live(h), [Next]_vars, NEW h \in Ids
  PROVE  Live(h)'
<1> DEFINE p == hook[h]
           q == hook'[h]
<1>1. /\ hook \in [Ids -> Process] /\ now \in 0..Horizon /\ InTime(h) /\ Live(h)
      /\ HistoryAgrees /\ HistoryAgrees' /\ Sound(store) /\ Sound(store')
  BY StepInv, Types DEF Inv, TypeOK, Sound
<1>2. hook[h].began \in Nat /\ hook[h].held \in Nat /\ hook[h].since \in Nat /\ now \in Nat
  BY <1>1, Limits DEF Process
<1>3. /\ Knows(store', h) =>
           \/ Knows(store, h) /\ store'.by_id[h].expires_at = store.by_id[h].expires_at
           \/ ServeSubmit(h)
      /\ resolved'[h] \in UserDecisions =>
           \/ resolved[h] \in UserDecisions
           \/ /\ \E i \in Ids, d \in UserDecisions : HudDecide(i, d)
              /\ Knows(store, h) /\ now < store.by_id[h].expires_at
  BY TermsEvolve
<1>4. Knows(store, h) => store.by_id[h].expires_at \in Nat
  BY <1>1 DEF Sound, StoreType, Approval, Knows
<1>5. CASE Tick
  <2>1. /\ UNCHANGED <<store, hook, resolved>> /\ now' = now + 1
        /\ hook[h].pc # "check" /\ (hook[h].pc = "poll_held" => ~ Woken(h))
    BY <1>5 DEF Tick, At
  <2>2. hook[h].pc = "poll_held" => resolved[h] \notin UserDecisions
    BY <2>1 DEF Woken
  <2> QED BY <1>1, <2>1, <2>2 DEF Live, Knows
<1>6. CASE ~ Tick /\ hook'[h] = hook[h]
  <2>1. now' = now
    <3>1. ASSUME NEW g \in Ids, HookStep(g) \/ ServerStep(g) PROVE now' = now
      BY <3>1, ProcessMoves DEF Ending, Waypoint
    <3> QED BY <1>6, <3>1 DEF Next, HudDecide, HudSnapshot, BeginClose, StopServer, vars
  <2>2. ~ ServeSubmit(h)
    <3> SUFFICES ASSUME ServeSubmit(h) PROVE FALSE
      OBVIOUS
    <3>1. hook[h].pc = "arrived" /\ hook'[h].pc \in {"submit_held", "answered"}
      BY SubmissionShape
    <3> QED BY <1>6, <3>1
  <2>3. hook[h].pc \notin {"new", "done"} /\ Knows(store', h) =>
          store'.by_id[h].expires_at <= hook[h].began + ConnectTimeout + Delay + TTL
    BY <1>1, <1>3, <2>2 DEF Live
  <2>4. ASSUME resolved'[h] \in UserDecisions, resolved[h] \notin UserDecisions,
               hook[h].pc \notin {"new", "done"}
        PROVE  now + Delay < hook[h].began + MaxTotal
    <3>1. Knows(store, h) /\ now < store.by_id[h].expires_at
      BY <1>3, <2>4
    <3>2. store.by_id[h].expires_at <= hook[h].began + ConnectTimeout + Delay + TTL
      BY <1>1, <2>4, <3>1 DEF Live
    <3> QED BY <1>2, <1>4, <3>1, <3>2, Limits
  <2>5. hook[h].pc = "answered" => hook[h].held <= now
    BY <1>1 DEF InTime
  <2> QED BY <1>1, <1>2, <1>6, <2>1, <2>3, <2>4, <2>5, Limits DEF Live, Knows
<1>7. CASE ~ Tick /\ hook'[h] # hook[h]
  <2>1. (HookStep(h) \/ ServerStep(h)) /\ (Ending(h) \/ Waypoint(h))
    BY <1>7, OwnStep
  <2>2. now' = now
    BY <2>1 DEF Ending, Waypoint
  <2>3. CASE Ending(h)
    <3>1. hook'[h].pc = "done"
      BY <2>3, EndShape DEF Ending
    <3> QED BY <3>1 DEF Live
  <2>4. CASE Waypoint(h) /\ q.pc \in Unserved
    <3>1. resolved'[h] = "none" /\ ~ Knows(store', h)
      BY <1>1, <2>4 DEF HistoryAgrees
    <3> QED BY <3>1 DEF Live, UserDecisions
  <2>5. CASE Waypoint(h) /\ ServeSubmit(h)
    <3>1. /\ hook[h].pc = "arrived" /\ q.began = p.began
          /\ q.pc = "submit_held" \/ (q.pc = "answered" /\ q.answer = "busy")
      <4>1. /\ hook[h].pc = "arrived"
            /\ q.pc = "submit_held" \/ (q.pc = "answered" /\ q.answer = "busy")
        BY SubmissionShape, <2>5
      <4> QED BY <2>5, <4>1 DEF Waypoint
    <3>2. Knows(store', h) => store'.by_id[h].expires_at <= now + TTL
      <4>1. PICK fp \in Fingerprints :
              store' = Enqueue(ExpireDuePending(store, now), h, fp, now, TTL)
        BY <2>5, SubmissionShape
      <4>2. CASE EnqueueOutcome(ExpireDuePending(store, now), h, fp) = "Created"
        <5>1. Enqueue(ExpireDuePending(store, now), h, fp, now, TTL).by_id[h].expires_at
                = now + TTL
          BY <1>1, <1>2, <4>2, SubmissionStartsTerm
        <5> QED BY <1>2, <4>1, <5>1, Limits
      <4>3. CASE EnqueueOutcome(ExpireDuePending(store, now), h, fp) # "Created"
        <5>1. store' = ExpireDuePending(store, now)
          BY <4>1, <4>3 DEF Enqueue
        <5>2. ~ Knows(store, h)
          BY <1>1, <3>1 DEF HistoryAgrees, Unserved
        <5>3. ~ Knows(store', h)
          BY <1>1, <5>1, <5>2, OthersKeepTerms DEF KeepsTerms, Knows
        <5> QED BY <5>3
      <4> QED BY <4>2, <4>3
    <3>3. now <= hook[h].began + ConnectTimeout + Delay
      BY <1>1, <3>1 DEF InTime
    <3>4. Knows(store', h) => store'.by_id[h].expires_at \in Nat
      BY <1>1 DEF Sound, StoreType, Approval, Knows
    <3> QED BY <1>2, <3>1, <3>2, <3>3, <3>4, Limits DEF Live, Knows
  <2>6. CASE Waypoint(h) /\ q.pc \notin Unserved /\ ~ ServeSubmit(h)
    <3>1. UNCHANGED <<store, resolved>>
      BY <2>1, <2>6, QuietSteps DEF ServerStep
    <3>2. /\ q.began = p.began /\ q.pc # "done"
          /\ p.pc \notin {"new", "done"}
      BY <2>6 DEF Waypoint, Unserved
    <3>3. Knows(store', h) =>
            store'.by_id[h].expires_at <= q.began + ConnectTimeout + Delay + TTL
      BY <1>1, <3>1, <3>2 DEF Live, Knows
    <3>4. ASSUME resolved'[h] \in UserDecisions, q.pc = "poll_held"
          PROVE  FALSE
      <4>1. Knows(store, h) /\ IsPending(store.by_id[h])
        BY <2>6, <3>4 DEF Waypoint
      <4>2. resolved[h] = "none"
        BY <1>1, <4>1 DEF HistoryAgrees
      <4> QED BY <3>1, <3>4, <4>2 DEF UserDecisions
    <3>5. ASSUME resolved'[h] \in UserDecisions, q.pc = "answered", q.answer = "pending"
          PROVE  q.held + Delay < q.began + MaxTotal
      <4>1. p.pc \in {"submit_held", "poll_held"} /\ q.held = now
        <5>1. "pending" \notin Decisions
          BY DEF Decisions, UserDecisions
        <5> QED BY <2>6, <3>5, <5>1 DEF Waypoint, IsDecided
      <4>2. CASE p.pc = "poll_held"
        BY <1>1, <3>1, <3>2, <3>5, <4>1, <4>2 DEF Live
      <4>3. CASE p.pc = "submit_held"
        BY <1>1, <1>2, <3>2, <4>1, <4>3, Limits DEF InTime
      <4> QED BY <4>1, <4>2, <4>3
    <3>6. ASSUME resolved'[h] \in UserDecisions, q.pc = "check"
          PROVE  now < q.began + MaxTotal
      <4>1. p.pc = "answered" /\ p.answer = "pending" /\ now <= p.held + Delay
        BY <2>6, <3>6 DEF Waypoint
      <4>2. p.held + Delay < p.began + MaxTotal
        BY <1>1, <3>1, <3>6, <4>1 DEF Live
      <4> QED BY <1>2, <3>2, <4>1, <4>2, Limits
    <3> QED BY <2>2, <3>3, <3>4, <3>5, <3>6 DEF Live, Knows
  <2> QED BY <2>1, <2>3, <2>4, <2>5, <2>6
<1> QED BY <1>5, <1>6, <1>7

(* A hook that gives up at its deadline has not missed a decision of the user, under
   what the defaults satisfy while no message takes longer than 2.5 seconds: 5 + 300
   and 5 + 25 seconds, and twice that delay, against 310. *)
THEOREM NoDecisionIsMissed ==
  ASSUME ConnectTimeout + 2 * Delay + TTL <= MaxTotal,
         ConnectTimeout + 2 * Delay + MaxWait < MaxTotal
  PROVE  Spec => NoDecisionMissedAtDeadline
<1> DEFINE Lives == \A h \in Ids : Live(h)
<1>1. Init => Inv /\ Lives
  BY InitInv DEF Init, Fresh, Live, UserDecisions
<1>2. Inv /\ Lives /\ [Next]_vars => Inv' /\ Lives'
  BY StepInv, StepLive
<1>3. Inv /\ Lives /\ [Next]_vars =>
        [\A h \in Ids : hook'[h].why = "deadline" /\ hook[h].why # "deadline" =>
           resolved[h] \notin UserDecisions]_vars
  <2> SUFFICES ASSUME Inv, Lives, [Next]_vars, NEW h \in Ids,
                      hook'[h].why = "deadline", hook[h].why # "deadline"
               PROVE  resolved[h] \notin UserDecisions
    OBVIOUS
  <2>1. Ending(h) \/ Waypoint(h)
    BY OwnStep
  <2>2. Ending(h)
    BY <2>1 DEF Waypoint, Moved
  <2>3. hook[h].pc = "check" /\ now >= hook[h].began + MaxTotal
    BY <2>2, EndShape DEF Ending
  <2>4. hook[h].began \in Nat /\ now \in Nat
    BY Types, Limits DEF Process
  <2>5. resolved[h] \in UserDecisions => now < hook[h].began + MaxTotal
    BY <2>3 DEF Live
  <2> QED BY <2>3, <2>4, <2>5, Limits
<1> QED BY <1>1, <1>2, <1>3, PTL DEF Spec, NoDecisionMissedAtDeadline

--------------------------------------------------------------------------------
(* The steps of the system are steps of AgentCalls.  First, of the store: one call
   of it decides one approval at most. *)
DecidesOnly(x, s, r) ==
  \A i \in DOMAIN r.by_id \ {x} :
    IsDecided(r.by_id[i]) => i \in DOMAIN s.by_id /\ s.by_id[i].state = r.by_id[i].state

DecidesOne(s, r) == \E x : DecidesOnly(x, s, r)

LEMMA ResolveDecidesOne ==
  ASSUME NEW s, Sound(s), s.active # NoId, NEW d \in Decisions
  PROVE  DecidesOnly(s.active, s, Resolve(s, s.active, d))
<1> DEFINE r == Resolve(s, s.active, d)
<1>1. /\ DOMAIN r.by_id = DOMAIN s.by_id \ Evicted(Append(s.cached_order, s.active))
      /\ \A x \in DOMAIN r.by_id :
           r.by_id[x] = IF x = s.active THEN Settled(s.by_id[x], d) ELSE s.by_id[x]
  BY ResolveShape
<1> HIDE DEF r
<1>2. DecidesOnly(s.active, s, r)
  BY <1>1 DEF DecidesOnly
<1> QED BY <1>2 DEF r

LEMMA CallsDecideOne ==
  ASSUME NEW s, Sound(s)
  PROVE  /\ \A t : DecidesOne(s, ExpireDuePending(s, t))
         /\ \A id : \A d \in Decisions : DecidesOne(s, Decide(s, id, d))
         /\ \A id : DecidesOne(s, Cancel(s, id))
<1>1. DecidesOne(s, s)
  BY DEF DecidesOne, DecidesOnly
<1>2. "TimedOut" \in Decisions /\ "Cancelled" \in Decisions
  BY DEF Decisions
<1>3. \A d \in Decisions : s.active # NoId => DecidesOne(s, Resolve(s, s.active, d))
  BY ResolveDecidesOne DEF DecidesOne
<1>4. ASSUME NEW t PROVE DecidesOne(s, ExpireDuePending(s, t))
  BY <1>1, <1>2, <1>3 DEF ExpireDuePending, IsDue
<1>5. ASSUME NEW id, NEW d \in Decisions PROVE DecidesOne(s, Decide(s, id, d))
  BY <1>1, <1>3, DecidableIsActive DEF Decide
<1>6. ASSUME NEW id PROVE DecidesOne(s, Cancel(s, id))
  BY <1>1, <1>2, <1>3, DecidableIsActive DEF Cancel
<1> QED BY <1>4, <1>5, <1>6

(* After what was due has expired, nothing is left for a user to decide. *)
LEMMA ExpiryExcludesDecision ==
  ASSUME NEW s, Sound(s), NEW t, ExpireDuePending(s, t) # s
  PROVE  ExpireDuePending(s, t).active = NoId
<1>1. IsDue(s, t)
  BY DEF ExpireDuePending
<1>2. s.active # NoId /\ "TimedOut" \in Decisions
  BY <1>1 DEF IsDue, Decisions
<1>3. Resolve(s, s.active, "TimedOut").active = NoId
  BY <1>2, ResolveFrees
<1> QED BY <1>1, <1>3 DEF ExpireDuePending

(* So a decision, like a submission, decides one approval together with the expiry
   that goes before it. *)
LEMMA CompoundCallsDecideOne ==
  ASSUME NEW s, Sound(s), NEW t \in Nat, NEW id \in Ids
  PROVE  /\ \A d \in Decisions : DecidesOne(s, Decide(ExpireDuePending(s, t), id, d))
         /\ \A fp \in Fingerprints :
              DecidesOne(s, Enqueue(ExpireDuePending(s, t), id, fp, t, TTL))
<1> DEFINE expired == ExpireDuePending(s, t)
<1>1. Sound(expired) /\ DecidesOne(s, expired)
  BY DecisionsAreKept, CallsDecideOne
<1>2. expired # s => expired.active = NoId
  BY ExpiryExcludesDecision
<1> HIDE DEF expired
<1>3. ASSUME NEW d \in Decisions PROVE DecidesOne(s, Decide(expired, id, d))
  <2>1. CASE expired = s
    BY <2>1, CallsDecideOne
  <2>2. CASE expired # s
    BY <1>1, <1>2, <2>2, DecidableIsActive DEF Decide
  <2> QED BY <2>1, <2>2
<1>4. ASSUME NEW fp \in Fingerprints PROVE DecidesOne(s, Enqueue(expired, id, fp, t, TTL))
  <2> DEFINE r == Enqueue(expired, id, fp, t, TTL)
  <2>1. PICK x : DecidesOnly(x, s, expired)
    BY <1>1 DEF DecidesOne
  <2>2. CASE EnqueueOutcome(expired, id, fp) # "Created"
    BY <1>1, <2>2 DEF Enqueue
  <2>3. CASE EnqueueOutcome(expired, id, fp) = "Created"
    <3>1. r.by_id = Insert(expired.by_id, id, Created(expired, fp, t + TTL))
      BY <1>1, <2>3, EnqueueShape, Limits
    <3>2. Created(expired, fp, t + TTL).state \notin Decisions
      BY DEF Created, Decisions, UserDecisions
    <3> HIDE DEF r
    <3>3. DecidesOnly(x, s, r)
      BY <2>1, <3>1, <3>2 DEF DecidesOnly, Insert, IsDecided
    <3> QED BY <3>3 DEF DecidesOne, r
  <2> QED BY <2>2, <2>3
<1> QED BY <1>3, <1>4 DEF expired

(* What the history makes of it: one call gets its verdict, or none does. *)
LEMMA OneVerdictAtATime ==
  ASSUME Inv, Update(store'), DecidesOne(store, store')
  PROVE  \/ resolved' = resolved
         \/ \E h \in Ids, d \in Decisions :
              resolved[h] = "none" /\ resolved' = [resolved EXCEPT ![h] = d]
<1>1. resolved \in [Ids -> Decisions \cup {"none"}] /\ HistoryAgrees
  BY DEF Inv, TypeOK
<1>2. /\ resolved' = [i \in Ids |-> resolved'[i]]
      /\ \A i \in Ids :
           resolved'[i] = IF resolved[i] = "none" /\ Knows(store', i) /\ IsDecided(store'.by_id[i])
                            THEN store'.by_id[i].state ELSE resolved[i]
  BY DEF Update
<1>3. PICK x : DecidesOnly(x, store, store')
  BY DEF DecidesOne
<1>4. "none" \notin Decisions
  BY DEF Decisions, UserDecisions
<1>5. ASSUME NEW i \in Ids, i # x PROVE resolved'[i] = resolved[i]
  <2> SUFFICES ASSUME resolved[i] = "none", Knows(store', i), IsDecided(store'.by_id[i])
               PROVE  FALSE
    BY <1>2
  <2>1. Knows(store, i) /\ store.by_id[i].state = store'.by_id[i].state
    BY <1>3, <1>5 DEF DecidesOnly, Knows
  <2>2. resolved[i] = store.by_id[i].state
    BY <1>1, <2>1 DEF HistoryAgrees, IsDecided
  <2> QED BY <1>4, <2>1, <2>2 DEF IsDecided
<1>6. CASE x \notin Ids
  BY <1>1, <1>2, <1>5, <1>6
<1>7. CASE x \in Ids /\ resolved'[x] = resolved[x]
  BY <1>1, <1>2, <1>5, <1>7
<1>8. CASE x \in Ids /\ resolved'[x] # resolved[x]
  <2>1. resolved[x] = "none" /\ resolved'[x] \in Decisions
    BY <1>2, <1>8 DEF IsDecided
  <2>2. resolved' = [resolved EXCEPT ![x] = resolved'[x]]
    BY <1>1, <1>2, <1>5
  <2> QED BY <1>8, <2>1, <2>2
<1> QED BY <1>6, <1>7, <1>8

(* What the agent has of a process changes when it ends. *)
LEMMA WhoSpeaks ==
  ASSUME Inv, NEW h \in Ids, hook[h].pc # "done",
         NEW exit \in Exits, NEW printed \in Printed, NEW why \in Reasons,
         End(h, exit, printed, why)
  PROVE  /\ Said[h] = "running"
         /\ Said' = [Said EXCEPT ![h] = IF printed = "none" THEN "nothing" ELSE printed]
<1>1. hook \in [Ids -> Process]
  BY Types
<1>2. /\ hook'[h].pc = "done" /\ hook'[h].printed = printed
      /\ hook' = [hook EXCEPT ![h] = hook'[h]]
  BY EndShape
<1>3. \A i \in Ids \ {h} : hook'[i] = hook[i]
  BY <1>1, <1>2
<1> QED BY <1>2, <1>3 DEF Said, At

LEMMA WhoIsSilent ==
  ASSUME \A i \in Ids : hook'[i] = hook[i] \/ (hook[i].pc # "done" /\ hook'[i].pc # "done")
  PROVE  Said' = Said
BY DEF Said, At

(* A process goes on in silence, or says what its call came to, or gives up. *)
LEMMA MovesAreCalls ==
  ASSUME Inv, NEW h \in Ids, Ending(h) \/ Waypoint(h)
  PROVE  \/ Said' = Said
         \/ resolved' = resolved => Calls!GiveUp(h)
         \/ resolved' = resolved => Calls!Say(h)
<1>1. hook \in [Ids -> Process]
  BY Types
<1>2. CASE Waypoint(h)
  <2>1. hook[h].pc # "done" /\ hook'[h].pc # "done"
    BY <1>2 DEF Waypoint
  <2>2. \A i \in Ids \ {h} : hook'[i] = hook[i]
    BY <1>2, OnlyOneMoves
  <2> QED BY <2>1, <2>2, WhoIsSilent
<1>3. CASE Ending(h)
  <2>1. hook[h].pc # "done"
    BY <1>3 DEF Ending
  <2>2. PICK exit \in Exits, printed \in Printed, why \in Reasons :
          /\ End(h, exit, printed, why)
          /\ \/ printed = "none"
             \/ /\ hook[h].pc = "answered" /\ hook[h].answer \in Decisions
                /\ printed = HookDecision(h, hook[h].answer)
    BY <1>3 DEF Ending
  <2>3. /\ Said[h] = "running"
        /\ Said' = [Said EXCEPT ![h] = IF printed = "none" THEN "nothing" ELSE printed]
    BY <2>1, <2>2, WhoSpeaks
  <2>4. CASE printed = "none"
    BY <2>3, <2>4 DEF Calls!GiveUp
  <2>5. CASE /\ hook[h].pc = "answered" /\ hook[h].answer \in Decisions
             /\ printed = HookDecision(h, hook[h].answer)
    <3> DEFINE d == hook[h].answer
    <3>1. resolved[h] = d /\ d \in {"Approved", "Denied", "TimedOut", "Cancelled"}
      BY <2>5 DEF Inv, AnswersAgree, Decisions, UserDecisions
    <3>2. HookDecision(h, d) = Calls!Answers(h, d) /\ HookDecision(h, d) # "none"
      BY <3>1 DEF HookDecision, Calls!Answers
    <3>3. resolved[h] # "none"
      BY <3>1
    <3> QED BY <2>3, <2>5, <3>1, <3>2, <3>3 DEF Calls!Say
  <2> QED BY <2>2, <2>4, <2>5
<1> QED BY <1>2, <1>3

(* Hooks, server, HUD and exit sequence implement what the agent is promised. *)
LEMMA StepCalls ==
  ASSUME Inv, [Next]_vars
  PROVE  [Calls!Next]_(Calls!callVars)
<1>1. /\ hook \in [Ids -> Process] /\ Sound(store) /\ now \in Nat
      /\ Calls!Verdicts = Decisions
  BY Limits, Types DEF Calls!Verdicts, Decisions, UserDecisions
<1>2. ASSUME Said' = Said, Update(store'), DecidesOne(store, store')
      PROVE  [Calls!Next]_(Calls!callVars)
  BY <1>1, <1>2, OneVerdictAtATime DEF Calls!Next, Calls!Decide, Calls!callVars
<1>3. ASSUME UNCHANGED <<store, resolved>>, Said' = Said PROVE UNCHANGED Calls!callVars
  BY <1>3 DEF Calls!callVars
<1>4. ASSUME NEW h \in Ids,
             HookStep(h) \/ SubmitArrives(h) \/ ServePoll(h) \/ AnswerDecided(h)
               \/ AnswerPending(h)
      PROVE  [Calls!Next]_(Calls!callVars)
  <2>1. UNCHANGED <<store, resolved>>
    BY <1>4, QuietSteps
  <2>2. Ending(h) \/ Waypoint(h)
    BY <1>4, ProcessMoves DEF ServerStep
  <2> QED BY <1>3, <2>1, <2>2, MovesAreCalls DEF Calls!Next
<1>5. ASSUME NEW h \in Ids, ServeSubmit(h) PROVE [Calls!Next]_(Calls!callVars)
  <2>1. PICK fp \in Fingerprints :
          store' = Enqueue(ExpireDuePending(store, now), h, fp, now, TTL)
    BY <1>5, SubmissionShape
  <2>2. /\ Update(store') /\ hook[h].pc = "arrived"
        /\ hook'[h].pc \in {"submit_held", "answered"}
    BY <1>5, SubmissionShape
  <2>3. DecidesOne(store, store')
    BY <1>1, <2>1, CompoundCallsDecideOne
  <2>4. \A i \in Ids \ {h} : hook'[i] = hook[i]
    BY <1>5, ProcessMoves, OnlyOneMoves DEF ServerStep
  <2>5. Said' = Said
    BY <2>2, <2>4, WhoIsSilent
  <2> QED BY <1>2, <2>2, <2>3, <2>5
<1>6. ASSUME \/ \E i \in Ids, d \in UserDecisions : HudDecide(i, d)
             \/ HudSnapshot \/ BeginClose
      PROVE  [Calls!Next]_(Calls!callVars)
  <2>1. PICK s : Update(s) /\ DecidesOne(store, s)
    <3>1. ASSUME NEW i \in Ids, NEW d \in UserDecisions, HudDecide(i, d)
          PROVE  \E s : Update(s) /\ DecidesOne(store, s)
      <4>1. d \in Decisions
        BY DEF Decisions
      <4> QED BY <1>1, <3>1, <4>1, CompoundCallsDecideOne DEF HudDecide
    <3> QED BY <1>1, <1>6, <3>1, CallsDecideOne DEF HudSnapshot, BeginClose
  <2>2. s = store'
    BY <2>1 DEF Update
  <2>3. hook' = hook
    BY <1>6 DEF HudDecide, HudSnapshot, BeginClose
  <2> QED BY <1>2, <2>1, <2>2, <2>3, WhoIsSilent
<1>7. ASSUME StopServer \/ Tick \/ UNCHANGED vars PROVE UNCHANGED Calls!callVars
  <2>1. UNCHANGED <<store, resolved, hook>>
    BY <1>7 DEF StopServer, Tick, vars
  <2> QED BY <1>3, <2>1, WhoIsSilent
<1> QED
  BY <1>4, <1>5, <1>6, <1>7 DEF Next, ServerStep

(* The whole of hooks, server, HUD and exit sequence is one of the behaviours that
   AgentCalls allows, call by call. *)
THEOREM SessionsImplementCalls == Spec => ImplementsCalls
<1>1. Init => Calls!Init
  BY DEF Init, Calls!Init, Said, At, Fresh
<1> QED BY <1>1, InitInv, StepInv, StepCalls, PTL DEF Spec, ImplementsCalls, Calls!Spec
================================================================================
