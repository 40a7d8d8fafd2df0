--------------------------------- MODULE Hud -----------------------------------
(***************************************************************************)
(* The HUD page (web/src: App.tsx, useIpc.ts, ApprovalContext.tsx) and the *)
(* two commands behind it (winvibe-app/commands.rs), against the approval  *)
(* store of the application.                                               *)
(*                                                                         *)
(* The page keeps a copy of the last snapshot that was answered.  An event *)
(* tells it to fetch another, a click changes the copy at once and takes   *)
(* it back when the command fails.  Commands run concurrently, and their   *)
(* answers come back in any order.                                         *)
(*                                                                         *)
(* Of a snapshot the copy keeps the active card and the revision: the      *)
(* cards of the history have no buttons.                                   *)
(***************************************************************************)
EXTENDS ApprovalStore, FiniteSets

CONSTANTS
  Slots,     \* bound: the commands under way at a time
  TTL,       \* approval_ttl_ms
  Horizon    \* bound on the clock

(* max_cached = 0 is the subject of ApprovalRuntime. *)
ASSUME HudAssumption ==
  MaxCached > 0 /\ TTL \in Nat \ {0} /\ Horizon \in Nat

VARIABLES
  store,       \* the approval store
  now,         \* its clock
  fresh,       \* the ids that no hook has drawn yet
  accepting,   \* the flag that begin_shutdown clears
  announcing,  \* changes of the store whose sink call is still to come
  events,      \* events emitted to the page and not handled yet
  mounted,     \* the page has run its effect
  listening,   \* the events the page has a registered listener for
  calls,       \* slot -> the command in it
  loading,     \* of useIpc, shared by all commands
  view,        \* the state of the reducer
  newest,      \* history: the newest revision an answer has brought
  missed       \* history: an event was emitted before its listener was there

vars == <<store, now, fresh, accepting, announcing, events, mounted, listening, calls,
          loading, view, newest, missed>>
server == <<store, now, fresh, accepting, announcing>>
wiring == <<events, mounted, listening, missed>>
page   == <<calls, loading, view, newest>>

Kinds == {"approval_pushed", "approval_resolved"}
Event(kind, id) == [kind |-> kind, id |-> id]

Idle == [cmd |-> "none", stage |-> "none", id |-> NoId, arg |-> "none", revision |-> 0]
Fetch == [Idle EXCEPT !.cmd = "snapshot", !.stage = "sent"]
DecideCommand(id, decision) ==
  [Idle EXCEPT !.cmd = "decide", !.stage = "sent", !.id = id, !.arg = decision]

Empty == [active |-> NoId, state |-> "none", revision |-> 0]

Init ==
  /\ store = NewStore
  /\ now = 0
  /\ fresh = Ids
  /\ accepting = TRUE
  /\ announcing = {}
  /\ events = {}
  /\ mounted = FALSE
  /\ listening = {}
  /\ calls = [s \in Slots |-> Idle]
  /\ loading = FALSE
  /\ view = Empty
  /\ newest = 0
  /\ missed = FALSE

At(s, cmd, stage) == calls[s].cmd = cmd /\ calls[s].stage = stage

--------------------------------------------------------------------------------
(* What changes the store besides the HUD, and what the HUD is told of it. *)

(* A hook submits once, under an id it has drawn. *)
Submit(id) ==
  LET expired == ExpireDuePending(store, now)
  IN /\ accepting
     /\ id \in fresh /\ fresh' = fresh \ {id}
     /\ \E fp \in Fingerprints :
          /\ store' = Enqueue(expired, id, fp, now, TTL)
          /\ announcing' = announcing \cup
               {Event("approval_pushed", i) :
                  i \in {j \in {id} : EnqueueOutcome(expired, id, fp) = "Created"}}
     /\ UNCHANGED <<now, accepting, wiring, page>>

\* mutant of Exit: the sink is not told
ExitSilently ==
  /\ accepting' = FALSE
  /\ store' = Cancel(store, store.active)
  /\ UNCHANGED <<now, fresh, announcing, wiring, page>>

(* The exit sequence, which leaves the window open: begin_shutdown, then
   cancel_all_pending. *)
Exit ==
  /\ accepting' = FALSE
  /\ store' = Cancel(store, store.active)
  /\ announcing' = announcing \cup
       {Event("approval_resolved", i) :
          i \in {j \in {store.active} : DecideOutcome(store, j) = "Ok"}}
  /\ UNCHANGED <<now, fresh, wiring, page>>

(* The sink runs after the lock was released and emits to the listeners there are. *)
Announce ==
  \E e \in announcing :
    /\ announcing' = announcing \ {e}
    /\ IF e.kind \in listening
         THEN events' = events \cup {e} /\ UNCHANGED missed
         ELSE missed' = TRUE /\ UNCHANGED events
    /\ UNCHANGED <<store, now, fresh, accepting, mounted, listening, page>>

Tick ==
  /\ now < Horizon
  /\ now' = now + 1
  /\ UNCHANGED <<store, fresh, accepting, announcing, wiring, page>>

--------------------------------------------------------------------------------
(* The effect of AppContent: fetch, and register two listeners. *)

Start(s, call) ==
  /\ calls[s] = Idle
  /\ calls' = [calls EXCEPT ![s] = call]
  /\ loading' = TRUE

Mount(s) ==
  /\ ~ mounted
  /\ mounted' = TRUE
  /\ Start(s, Fetch)
  /\ UNCHANGED <<server, events, listening, missed, view, newest>>

Registered(kind) ==
  /\ mounted
  /\ kind \notin listening
  /\ listening' = listening \cup {kind}
  /\ UNCHANGED <<server, events, mounted, missed, page>>

\* mutant of EventArrives: no second fetch while a command is under way
EventArrivesUnlessLoading(s) ==
  \E e \in events :
    /\ events' = events \ {e}
    /\ IF loading THEN UNCHANGED <<calls, loading>> ELSE Start(s, Fetch)
    /\ UNCHANGED <<server, mounted, listening, missed, view, newest>>

(* Whatever the event says, the page fetches. *)
EventArrives(s) ==
  \E e \in events :
    /\ events' = events \ {e}
    /\ Start(s, Fetch)
    /\ UNCHANGED <<server, mounted, listening, missed, view, newest>>

--------------------------------------------------------------------------------
(* handleApprove and handleDeny *)

(* OPTIMISTIC_DECIDE *)
Optimistic(decision) == [view EXCEPT !.state = decision]

(* A pending card has buttons, and they are enabled while nothing loads. *)
Click(s, decision) ==
  /\ view.active # NoId /\ view.state = "Pending"
  /\ ~ loading
  /\ view' = Optimistic(decision)
  /\ Start(s, DecideCommand(view.active, decision))
  /\ UNCHANGED <<server, wiring, newest>>

(* The end of a command: any of them switches loading off. *)
Finish(s) ==
  /\ calls' = [calls EXCEPT ![s] = Idle]
  /\ loading' = FALSE

\* mutant of DecideAnswered: a failure is not rolled back
DecideAnsweredWithoutRollback(s) ==
  /\ At(s, "decide", "answered")
  /\ Finish(s)
  /\ UNCHANGED <<server, wiring, view, newest>>

(* A decision that failed, for whatever reason, makes the card pending again. *)
DecideAnswered(s) ==
  /\ At(s, "decide", "answered")
  /\ view' = IF calls[s].arg # "Ok" /\ view.active = calls[s].id
               THEN [view EXCEPT !.state = "Pending"] ELSE view
  /\ Finish(s)
  /\ UNCHANGED <<server, wiring, newest>>

(* SNAPSHOT_UPDATED replaces the state, whatever its revision. *)
SnapshotAnswered(s) ==
  /\ At(s, "snapshot", "answered")
  /\ view' = [active |-> calls[s].id, state |-> calls[s].arg, revision |-> calls[s].revision]
  /\ newest' = IF calls[s].revision > newest THEN calls[s].revision ELSE newest
  /\ Finish(s)
  /\ UNCHANGED <<server, wiring>>

--------------------------------------------------------------------------------
(* The commands in the application. *)

(* redact_approval_for_ipc: of the state the page gets the kind of the decision,
   if there is one. *)
Redacted(s) ==
  [Idle EXCEPT !.id  = s.active,
               !.arg = IF s.active = NoId THEN "none" ELSE s.by_id[s.active].state]

SnapshotServed(s) ==
  LET expired == ExpireDuePending(store, now)
  IN /\ At(s, "snapshot", "sent")
     /\ store' = expired
     /\ calls' = [calls EXCEPT ![s] =
          [Redacted(expired) EXCEPT !.cmd = "snapshot", !.stage = "answered",
                                    !.revision = expired.revision]]
     /\ UNCHANGED <<now, fresh, accepting, announcing, wiring, loading, view, newest>>

DecideServed(s) ==
  LET expired == ExpireDuePending(store, now)
      outcome == DecideOutcome(expired, calls[s].id)
  IN /\ At(s, "decide", "sent")
     /\ store' = Decide(expired, calls[s].id, calls[s].arg)
     /\ announcing' = announcing \cup
          {Event("approval_resolved", i) : i \in {j \in {calls[s].id} : outcome = "Ok"}}
     /\ calls' = [calls EXCEPT ![s].stage = "answered", ![s].arg = outcome]
     /\ UNCHANGED <<now, fresh, accepting, wiring, loading, view, newest>>

Next ==
  \/ \E id \in Ids : Submit(id)
  \/ Exit
  \/ Announce
  \/ Tick
  \/ \E kind \in Kinds : Registered(kind)
  \/ \E s \in Slots :
       \/ Mount(s) \/ EventArrives(s)
       \/ SnapshotServed(s) \/ SnapshotAnswered(s)
       \/ DecideServed(s) \/ DecideAnswered(s)
  \/ \E s \in Slots, decision \in UserDecisions : Click(s, decision)

Spec == Init /\ [][Next]_vars

--------------------------------------------------------------------------------
(* The type invariant. *)
TypeOK ==
  /\ StoreType(store)
  /\ now \in 0..Horizon
  /\ fresh \subseteq Ids
  /\ accepting \in BOOLEAN
  /\ announcing \subseteq [kind : Kinds, id : Ids]
  /\ events \subseteq [kind : Kinds, id : Ids]
  /\ mounted \in BOOLEAN
  /\ listening \subseteq Kinds
  /\ calls \in [Slots ->
       [cmd : {"none", "snapshot", "decide"}, stage : {"none", "sent", "answered"},
        id : Ids \cup {NoId},
        arg : {"none", "Pending", "Ok", "AlreadyDecided", "NotFound"} \cup UserDecisions,
        revision : Nat]]
  /\ loading \in BOOLEAN
  /\ view \in [active : Ids \cup {NoId}, state : {"none", "Pending"} \cup UserDecisions,
               revision : Nat]
  /\ newest \in Nat
  /\ missed \in BOOLEAN

(* Nothing is under way any more: no announcement, no event, no command. *)
Quiet ==
  /\ listening = Kinds
  /\ announcing = {} /\ events = {}
  /\ \A s \in Slots : calls[s] = Idle

Shown == store.active # NoId => view.active = store.active /\ view.state = "Pending"

(* Unless an older answer overtook a newer one, or an event came before its
   listener. *)
Undisturbed == view.revision = newest /\ ~ missed

(* When everything has settled, the approval that waits for the user is on the
   screen with its buttons, whatever clicks, failures and rollbacks came before. *)
PendingIsShown == (Quiet /\ Undisturbed) => Shown

(* When everything has settled, a card that still offers its buttons is of an
   approval that is pending or ran out, which no event tells: every other
   resolution has taken it off the screen. *)
DeadCardOnlyAfterExpiry ==
  (Quiet /\ Undisturbed /\ view.active # NoId) =>
    /\ Knows(store, view.active)
    /\ store.by_id[view.active].state \in {"Pending", "TimedOut"}

(* An optimistic card is right in the end, even where answers overtake each
   other: when no command is under way, a card that reads as decided carries the
   decision that was taken. *)
OptimismIsSettled ==
  (/\ \A s \in Slots : calls[s] = Idle
   /\ view.state \in UserDecisions
   /\ Knows(store, view.active)) => store.by_id[view.active].state = view.state
================================================================================
