---------------------------- MODULE ApprovalRuntime ----------------------------
(***************************************************************************)
(* The ApprovalRuntime of winvibe-hook-server                              *)
(* (crates/winvibe-hook-server/src/runtime.rs): concurrent async calls on  *)
(* one store behind a lock, a second lock around the map of watch          *)
(* channels, and a lifecycle sink.  The two locks are never held together, *)
(* so each critical section is one action and calls interleave between     *)
(* them.                                                                   *)
(*                                                                         *)
(* A call is a program counter and its locals.  Submitters and Pollers are *)
(* HTTP handlers: the server drops the future of a handler whose client    *)
(* hangs up, at any await.  Deciders are HUD commands and Closer is the    *)
(* exit sequence; nothing drops those.                                     *)
(*                                                                         *)
(* A watch channel is named by the revision of its first tick, which is    *)
(* also the trace_id of the approval it was made for.  Its sender sends at *)
(* most once and is gone afterwards, so a receiver has something to read   *)
(* exactly when its channel is no longer in the map.                       *)
(***************************************************************************)
EXTENDS ApprovalStore, FiniteSets

CONSTANTS
  Submitters, Pollers, Deciders, Closer,
  TTL,           \* ttl_ms
  MaxTime,       \* bound on the clock
  MaxRevision    \* bound on the revision: no submission arrives at or beyond it

Handlers  == Submitters \cup Pollers
Resolvers == Deciders \cup {Closer}
Callers   == Handlers \cup Resolvers

ASSUME RuntimeAssumption ==
  /\ TTL \in Nat /\ MaxTime \in Nat /\ MaxRevision \in Nat
  /\ Closer \notin Submitters \cup Pollers \cup Deciders
  /\ Deciders \cap (Submitters \cup Pollers) = {}

VARIABLES
  store,       \* the approval store
  now,         \* the monotonic clock
  accepting,   \* FALSE after begin_shutdown
  watchers,    \* id -> the channel whose sender the map holds
  call,        \* caller -> where it is and what it holds
  events,      \* the notifications the sink received, in order
  told,        \* the decisions any client was told, with their approval
  late         \* channels installed after their approval was resolved

vars == <<store, now, accepting, watchers, call, events, told, late>>

Idle == [pc |-> "idle", id |-> NoId, arg |-> NoId, trace |-> 0]

Init ==
  /\ store = NewStore
  /\ now = 0
  /\ accepting = TRUE
  /\ watchers = [i \in {} |-> 0]
  /\ call = [c \in Callers |-> Idle]
  /\ events = <<>>
  /\ told = {}
  /\ late = {}

At(c, pc) == call[c].pc = pc
Goto(c, pc) == call' = [call EXCEPT ![c].pc = pc]
Return(c) == call' = [call EXCEPT ![c] = Idle]
Begin(c, pc, id, arg) ==
  /\ At(c, "idle")
  /\ call' = [call EXCEPT ![c] = [pc |-> pc, id |-> id, arg |-> arg, trace |-> 0]]

Verdict(a) == [trace |-> a.trace_id, decision |-> a.state]

(* A resolver has resolved this approval and has yet to signal its channel. *)
NotifierAhead(trace) ==
  \E c \in Resolvers : At(c, "notify") /\ call[c].trace = trace

IsPendingInstance(id, trace) ==
  /\ Knows(store, id)
  /\ IsPending(store.by_id[id])
  /\ store.by_id[id].trace_id = trace

--------------------------------------------------------------------------------
(* submit_pre_tool_use *)

(* The shutdown flag is read before, and outside of, the store lock; when it is
   down the call is refused and nothing changes. *)
SubmitArrives(c, id, fp) ==
  /\ accepting
  /\ store.revision < MaxRevision
  /\ Begin(c, "enqueue", id, fp)
  /\ UNCHANGED <<store, now, accepting, watchers, events, told, late>>

(* First lock: expire what is due (nobody is told), then enqueue. *)
SubmitEnqueue(c) ==
  LET id == call[c].id
      fp == call[c].arg
      expired == ExpireDuePending(store, now)
      outcome == EnqueueOutcome(expired, id, fp)
  IN /\ At(c, "enqueue")
     /\ store' = Enqueue(expired, id, fp, now, TTL)
     /\ \/ /\ outcome = "Created"
           /\ call' = [call EXCEPT ![c].pc = "watch", ![c].trace = store'.revision]
        \/ /\ outcome = "Existing"
           /\ Goto(c, "existing")
        \/ /\ outcome \in {"BusyAnotherActive", "DuplicateIdConflict"}
           /\ Return(c)
     /\ UNCHANGED <<now, accepting, watchers, events, told, late>>

(* Second lock: install the channel, whatever has happened meanwhile. *)
SubmitWatch(c) ==
  LET id == call[c].id
      trace == call[c].trace
  IN /\ At(c, "watch")
     /\ watchers' = Insert(watchers, id, trace)
     /\ late' = IF IsPendingInstance(id, trace) \/ NotifierAhead(trace)
                  THEN late ELSE late \cup {trace}
     /\ Goto(c, "push")
     /\ UNCHANGED <<store, now, accepting, events, told>>

SubmitPush(c) ==
  /\ At(c, "push")
  /\ events' = Append(events, [kind |-> "pushed", trace |-> call[c].trace,
                               decision |-> "Pending"])
  /\ Goto(c, "wait")
  /\ UNCHANGED <<store, now, accepting, watchers, told, late>>

(* An idempotent repeat locks the store a second time to fetch the approval,
   which may have been evicted since: then the answer is NotFound. *)
SubmitExisting(c) ==
  LET id == call[c].id
  IN /\ At(c, "existing")
     /\ told' = IF Knows(store, id) /\ IsDecided(store.by_id[id])
                  THEN told \cup {Verdict(store.by_id[id])} ELSE told
     /\ Return(c)
     /\ UNCHANGED <<store, now, accepting, watchers, events, late>>

--------------------------------------------------------------------------------
(* wait_for_decision *)

HasTick(c) ==
  ~ \E id \in DOMAIN watchers : id = call[c].id /\ watchers[id] = call[c].trace

(* Woken or not, the store is asked again; an unknown id counts as pending.  The
   wake-up and the lock are one action: nothing is read in between. *)
Recheck(c) ==
  LET id == call[c].id
  IN /\ At(c, "wait")
     /\ told' = IF Knows(store, id) /\ IsDecided(store.by_id[id])
                  THEN told \cup {Verdict(store.by_id[id])} ELSE told
     /\ Return(c)
     /\ UNCHANGED <<store, now, accepting, watchers, events, late>>

WaitWakes(c) == HasTick(c) /\ Recheck(c)

(* The wait is bounded by 25 seconds, on a clock of its own. *)
WaitTimesOut(c) == Recheck(c)

--------------------------------------------------------------------------------
(* poll_decision *)

(* First lock: read, without expiring anything. *)
PollCheck(c, id) ==
  /\ At(c, "idle")
  /\ IF Knows(store, id) /\ IsPending(store.by_id[id])
       THEN Begin(c, "subscribe", id, NoId) /\ UNCHANGED told
       ELSE /\ told' = IF Knows(store, id)
                         THEN told \cup {Verdict(store.by_id[id])} ELSE told
            /\ UNCHANGED call
  /\ UNCHANGED <<store, now, accepting, watchers, events, late>>

(* Second lock: subscribe if there is a channel, else answer Pending. *)
PollSubscribe(c) ==
  LET id == call[c].id
  IN /\ At(c, "subscribe")
     /\ IF id \in DOMAIN watchers
          THEN call' = [call EXCEPT ![c].pc = "wait", ![c].trace = watchers[id]]
          ELSE Return(c)
     /\ UNCHANGED <<store, now, accepting, watchers, events, told, late>>

(* The client of a handler hangs up: the future is dropped where it awaits.
   Between the channel and the push there is no await. *)
Disconnect(c) ==
  /\ ~ At(c, "idle") /\ ~ At(c, "push")
  /\ Return(c)
  /\ UNCHANGED <<store, now, accepting, watchers, events, told, late>>

--------------------------------------------------------------------------------
(* decide, cancel_all_pending, snapshot, begin_shutdown *)

\* mutant of DecideLocked: nothing is expired first
DecideLockedUnexpired(c, id, decision) ==
  /\ At(c, "idle")
  /\ store' = Decide(store, id, decision)
  /\ IF DecideOutcome(store, id) = "Ok" /\ Knows(store', id)
       THEN call' = [call EXCEPT ![c] =
                       [pc |-> "notify", id |-> id, arg |-> decision,
                        trace |-> store'.by_id[id].trace_id]]
       ELSE UNCHANGED call
  /\ UNCHANGED <<now, accepting, watchers, events, told, late>>

\* mutant of DecideLocked: a refused decision is announced like an accepted one
DecideLockedAnyOutcome(c, id, decision) ==
  /\ At(c, "idle")
  /\ store' = Decide(ExpireDuePending(store, now), id, decision)
  /\ IF Knows(store', id)
       THEN call' = [call EXCEPT ![c] =
                       [pc |-> "notify", id |-> id, arg |-> decision,
                        trace |-> store'.by_id[id].trace_id]]
       ELSE UNCHANGED call
  /\ UNCHANGED <<now, accepting, watchers, events, told, late>>

\* mutant of DecideLocked: the id is taken from the slot that was just cleared
DecideLockedReadsSlotLate(c, id, decision) ==
  /\ At(c, "idle")
  /\ store' = Decide(ExpireDuePending(store, now), id, decision)
  /\ IF DecideOutcome(ExpireDuePending(store, now), id) = "Ok"
       THEN call' = [call EXCEPT ![c] =
                       [pc |-> "notify", id |-> store'.active, arg |-> decision,
                        trace |-> store'.revision]]
       ELSE UNCHANGED call
  /\ UNCHANGED <<now, accepting, watchers, events, told, late>>

(* First lock: expire, decide, fetch.  When the decided approval was evicted at
   once the fetch fails and the call ends with NotFound, as it does for an
   unknown or a decided approval. *)
DecideLocked(c, id, decision) ==
  LET expired == ExpireDuePending(store, now)
  IN /\ At(c, "idle")
     /\ store' = Decide(expired, id, decision)
     /\ IF DecideOutcome(expired, id) = "Ok" /\ Knows(store', id)
          THEN call' = [call EXCEPT ![c] =
                          [pc |-> "notify", id |-> id, arg |-> decision,
                           trace |-> store'.by_id[id].trace_id]]
          ELSE UNCHANGED call
     /\ UNCHANGED <<now, accepting, watchers, events, told, late>>

\* mutant of Notify: the channel stays in the map, unsignalled
NotifyKeepsSender(c) ==
  /\ At(c, "notify")
  /\ Goto(c, "announce")
  /\ UNCHANGED <<store, now, accepting, watchers, events, told, late>>

(* Second lock: take the channel out of the map and signal it. *)
Notify(c) ==
  /\ At(c, "notify")
  /\ watchers' = Restrict(watchers, DOMAIN watchers \ {call[c].id})
  /\ Goto(c, "announce")
  /\ UNCHANGED <<store, now, accepting, events, told, late>>

(* The sink learns of the resolution, then the caller of its success. *)
Announce(c) ==
  LET verdict == [trace |-> call[c].trace, decision |-> call[c].arg]
  IN /\ At(c, "announce")
     /\ events' = Append(events, [kind     |-> "resolved",
                                  trace    |-> verdict.trace,
                                  decision |-> verdict.decision])
     /\ told' = told \cup {verdict}
     /\ IF c = Closer THEN call' = [call EXCEPT ![c] = [Idle EXCEPT !.pc = "done"]]
                      ELSE Return(c)
     /\ UNCHANGED <<store, now, accepting, watchers, late>>

BeginShutdown ==
  /\ At(Closer, "idle")
  /\ accepting' = FALSE
  /\ Goto(Closer, "cancel")
  /\ UNCHANGED <<store, now, watchers, events, told, late>>

(* cancel_all_pending: cancels the active approval without expiring it first. *)
CancelAll ==
  LET id == store.active
  IN /\ At(Closer, "cancel")
     /\ store' = Cancel(store, id)
     /\ IF store' # store /\ Knows(store', id)
          THEN call' = [call EXCEPT ![Closer] =
                          [pc |-> "notify", id |-> id, arg |-> "Cancelled",
                           trace |-> store'.by_id[id].trace_id]]
          ELSE Goto(Closer, "done")
     /\ UNCHANGED <<now, accepting, watchers, events, told, late>>

TakeSnapshot ==
  /\ store' = ExpireDuePending(store, now)
  /\ UNCHANGED <<now, accepting, watchers, call, events, told, late>>

Tick ==
  /\ now < MaxTime
  /\ now' = now + 1
  /\ UNCHANGED <<store, accepting, watchers, call, events, told, late>>

--------------------------------------------------------------------------------
(* What the scheduler must do for a call that has started. *)
HandlerStep(c) ==
  \/ SubmitEnqueue(c) \/ SubmitWatch(c) \/ SubmitPush(c) \/ SubmitExisting(c)
  \/ PollSubscribe(c) \/ WaitWakes(c)

ResolverStep(c) == Notify(c) \/ Announce(c)

Next ==
  \/ \E c \in Submitters, id \in Ids, fp \in Fingerprints : SubmitArrives(c, id, fp)
  \/ \E c \in Pollers, id \in Ids : PollCheck(c, id)
  \/ \E c \in Deciders, id \in Ids, d \in UserDecisions : DecideLocked(c, id, d)
  \/ \E c \in Handlers : HandlerStep(c) \/ WaitTimesOut(c) \/ Disconnect(c)
  \/ \E c \in Resolvers : ResolverStep(c)
  \/ BeginShutdown
  \/ CancelAll
  \/ TakeSnapshot
  \/ Tick

(* tokio runs every task that is ready; clients, the HUD, the clock and the
   timers of the waits owe nothing. *)
Fairness ==
  /\ \A c \in Handlers : WF_vars(HandlerStep(c))
  /\ \A c \in Resolvers : WF_vars(ResolverStep(c))
  /\ WF_vars(CancelAll)

Spec == Init /\ [][Next]_vars
FairSpec == Spec /\ Fairness

--------------------------------------------------------------------------------
PCs == {"idle", "enqueue", "watch", "push", "wait", "existing", "subscribe",
        "notify", "announce", "cancel", "done"}

(* The type invariant, and that every call in progress is about some id. *)
TypeOK ==
  /\ StoreType(store)
  /\ now \in Nat
  /\ accepting \in BOOLEAN
  /\ DOMAIN watchers \subseteq Ids
  /\ watchers \in [DOMAIN watchers -> Nat]
  /\ call \in [Callers -> [pc : PCs, id : Ids \cup {NoId},
                           arg : Fingerprints \cup Decisions \cup {NoId},
                           trace : Nat]]
  /\ \A c \in Callers : call[c].id = NoId => call[c].pc \in {"idle", "cancel", "done"}
  /\ events \in Seq([kind : {"pushed", "resolved"}, trace : Nat,
                     decision : {"Pending"} \cup Decisions])
  /\ told \subseteq [trace : Nat, decision : Decisions]
  /\ late \subseteq Nat

(* The store stays consistent although two of its methods are composed in one
   critical section and the sections of different calls interleave. *)
StoreWellFormed == WellFormed(store)

(* Whoever is told a decision about an approval is told the same one: the hook
   that submitted it, a client that polls it or repeats the submission, and the
   HUD whose decide call succeeded, however decide, expiry, shutdown and the
   waits interleave. *)
ToldConsistently ==
  \A v, w \in told : v.trace = w.trace => v.decision = w.decision

(* Resolvers never lose a wake-up of their own: once an approval is decided or
   cancelled its channel is signalled, or the resolver is about to do it.  What
   is left in the map was installed too late by the submission itself (late), or
   its approval expired. *)
WakeupDelivered ==
  \A id \in DOMAIN watchers :
    LET trace == watchers[id] IN
      (/\ Knows(store, id)
       /\ store.by_id[id].trace_id = trace
       /\ store.by_id[id].state \in {"Approved", "Denied", "Cancelled"})
      => trace \in late \/ NotifierAhead(trace)

Resolutions(trace) ==
  {k \in 1..Len(events) : events[k].kind = "resolved" /\ events[k].trace = trace}

(* The sink, and so the audit log, hears of a resolution at most once and hears
   the decision that clients are told; a decision that some client was told was
   announced, is about to be, or is an expiry. *)
AnnouncedOnce ==
  /\ \A k \in 1..Len(events) : events[k].kind = "resolved" =>
       Cardinality(Resolutions(events[k].trace)) = 1
  /\ \A v \in told :
       \/ v.decision = "TimedOut"
       \/ \E c \in Resolvers : /\ call[c].pc \in {"notify", "announce"}
                              /\ call[c].trace = v.trace
       \/ \E k \in Resolutions(v.trace) : events[k].decision = v.decision

(* A user decision counts only while the approval is not overdue: decide expires
   in the same critical section. *)
NoLateUserDecision ==
  [][\A id \in DOMAIN store.by_id :
       /\ IsPending(store.by_id[id])
       /\ id \in DOMAIN store'.by_id
       /\ store'.by_id[id].state \in UserDecisions
       => now < store.by_id[id].expires_at]_vars

(* A decide call that answers with an error has decided nothing, beyond the expiry it
   performs first.  It needs max_cached > 0: with 0, which the configuration accepts,
   the decided approval is evicted at once and the call ends with NotFound. *)
FailedDecideDecidesNothing ==
  [][MaxCached > 0 /\ call' = call =>
       store' \in {store, ExpireDuePending(store, now)}]_vars

Ledger == INSTANCE ApprovalLedger WITH
            pending <- PendingRequests(store), window <- LedgerWindow(store),
            Capacity <- MaxCached

(* Seen from outside, concurrent calls act on the ledger one at a time; an
   expiry and the submission that triggers it are one step. *)
ImplementsLedger == Ledger!Spec

(* A waiting request does not need its timer: when a resolver decides the approval
   it waits for, the channel brings it back, unless the channel was installed
   too late. *)
WaitersAreWoken ==
  \A c \in Handlers :
    (/\ At(c, "wait")
     /\ Knows(store, call[c].id)
     /\ store.by_id[call[c].id].trace_id = call[c].trace
     /\ store.by_id[call[c].id].state \in {"Approved", "Denied", "Cancelled"})
    ~> (~ At(c, "wait") \/ call[c].trace \in late)

--------------------------------------------------------------------------------
(***************************************************************************)
(* What the design document says and the code does not do.                 *)
(***************************************************************************)

(* Section 3.5, steps 1 and 2: begin_shutdown bars new approvals and
   cancel_all_pending takes every pending one to its final state, so none is
   pending afterwards. *)
NothingPendingAfterCancelAll ==
  At(Closer, "done") => store.active = NoId
================================================================================
