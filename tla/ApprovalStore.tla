----------------------------- MODULE ApprovalStore -----------------------------
(***************************************************************************)
(* The data component ApprovalStore of winvibe-core                        *)
(* (crates/winvibe-core/src/approval/store.rs): a synchronous structure    *)
(* that holds at most one active approval and a FIFO cache of the decided  *)
(* ones.  The store is a record and each method is an operator from a      *)
(* store to a store, so that a client can compose the calls that the code  *)
(* makes inside one critical section (expire, then enqueue; expire, then   *)
(* decide).  ApprovalStoreSpec runs the component by itself,               *)
(* ApprovalRuntime runs it behind its lock.                                *)
(*                                                                         *)
(* A payload is represented by its fingerprint, the only part of it that   *)
(* steers the store; hashes, wall-clock times, tool names and spans are    *)
(* left out.                                                               *)
(***************************************************************************)
EXTENDS Integers, Sequences, Functions

CONSTANTS
  Ids,            \* the approval ids clients choose
  Fingerprints,   \* the payloads, up to their fingerprint
  MaxCached,      \* ApprovalStoreLimits.max_cached
  NoId            \* Option::None, where an id may be missing

(* The configuration accepts every usize for max_cached, 0 included.       *)
ASSUME StoreAssumption == MaxCached \in Nat /\ NoId \notin Ids

UserDecisions == {"Approved", "Denied"}
Decisions == UserDecisions \cup {"TimedOut", "Cancelled"}

(* trace_id is the unique token drawn when an approval is created.         *)
Approval ==
  [fingerprint : Fingerprints,
   expires_at  : Nat,
   state       : {"Pending"} \cup Decisions,
   trace_id    : Nat]

IsPending(a) == a.state = "Pending"
IsDecided(a) == a.state \in Decisions

Insert(map, key, value) ==
  [k \in DOMAIN map \cup {key} |-> IF k = key THEN value ELSE map[k]]

NewStore ==
  [active            |-> NoId,
   by_id             |-> [i \in {} |-> i],
   fingerprint_index |-> [f \in {} |-> f],
   cached_order      |-> <<>>,
   revision          |-> 0]

Knows(s, id) == id \in DOMAIN s.by_id

(***************************************************************************)
(* move_to_cached: the id joins the back of the FIFO, then the front       *)
(* entries beyond the limit leave every map.  Removing an entry of         *)
(* fingerprint_index by the fingerprint of the evicted approval removes it *)
(* even when it names a younger approval.                                  *)
(***************************************************************************)
\* mutant of Excess: the limit itself counts as too much
ExcessOffByOne(order) ==
  IF Len(order) >= MaxCached THEN Len(order) - MaxCached + 1 ELSE 0

Excess(order)    == IF Len(order) > MaxCached THEN Len(order) - MaxCached ELSE 0
Evicted(order)   == {order[k] : k \in 1..Excess(order)}
Survivors(order) == SubSeq(order, Excess(order) + 1, Len(order))

\* mutant of MoveToCached: eviction forgets the map
MoveToCachedLeaks(s, id) ==
  [s EXCEPT !.cached_order = Survivors(Append(s.cached_order, id))]

MoveToCached(s, id) ==
  LET order == Append(s.cached_order, id)
      gone  == Evicted(order)
      stale == {s.by_id[e].fingerprint : e \in gone \cap DOMAIN s.by_id}
  IN [s EXCEPT
        !.cached_order      = Survivors(order),
        !.by_id             = Restrict(@, DOMAIN @ \ gone),
        !.fingerprint_index = Restrict(@, DOMAIN @ \ stale)]

\* mutant of Resolve: the slot is read after it was cleared
ResolveReadsSlotLate(s, id, decision) ==
  LET freed == [s EXCEPT !.by_id[id].state = decision, !.active = NoId]
  IN [MoveToCached(freed, freed.active) EXCEPT !.revision = @ + 1]

\* mutant of Resolve: the revision is not moved
ResolveSilently(s, id, decision) ==
  MoveToCached([s EXCEPT !.by_id[id].state = decision, !.active = NoId], id)

(* The tail shared by decide, cancel and expire_due_pending: the approval  *)
(* takes its final state, leaves the active slot and the revision moves.   *)
Resolve(s, id, decision) ==
  LET decided == [s EXCEPT !.by_id[id].state = decision]
      settled == IF s.active = id
                   THEN MoveToCached([decided EXCEPT !.active = NoId], id)
                   ELSE decided
  IN [settled EXCEPT !.revision = @ + 1]

EnqueueOutcome(s, id, fp) ==
  IF Knows(s, id)
    THEN IF s.by_id[id].fingerprint = fp THEN "Existing" ELSE "DuplicateIdConflict"
    ELSE IF s.active # NoId THEN "BusyAnotherActive" ELSE "Created"

(* Only a Created enqueue changes the store. *)
Enqueue(s, id, fp, now, ttl) ==
  LET approval == [fingerprint |-> fp,
                   expires_at  |-> now + ttl,
                   state       |-> "Pending",
                   trace_id    |-> s.revision + 1]
  IN IF EnqueueOutcome(s, id, fp) # "Created" THEN s
     ELSE [s EXCEPT
             !.fingerprint_index = Insert(@, fp, id),
             !.by_id             = Insert(@, id, approval),
             !.active            = id,
             !.revision          = @ + 1]

DecideOutcome(s, id) ==
  CASE ~ Knows(s, id)                            -> "NotFound"
    [] Knows(s, id) /\ IsDecided(s.by_id[id])    -> "AlreadyDecided"
    [] Knows(s, id) /\ ~ IsDecided(s.by_id[id])  -> "Ok"

\* mutant of Decide: a decided approval can be decided again
DecideAgain(s, id, decision) ==
  IF Knows(s, id) THEN Resolve(s, id, decision) ELSE s

Decide(s, id, decision) ==
  IF DecideOutcome(s, id) = "Ok" THEN Resolve(s, id, decision) ELSE s

Cancel(s, id) ==
  IF DecideOutcome(s, id) = "Ok" THEN Resolve(s, id, "Cancelled") ELSE s

IsDue(s, now) ==
  /\ s.active # NoId
  /\ Knows(s, s.active)
  /\ IsPending(s.by_id[s.active])
  /\ now >= s.by_id[s.active].expires_at

\* mutant of ExpireDuePending: the expired approval is dropped, not cached
ExpireForgets(s, now) ==
  IF IsDue(s, now)
    THEN [s EXCEPT !.active = NoId, !.by_id = Restrict(@, DOMAIN @ \ {s.active}),
                   !.fingerprint_index =
                     Restrict(@, DOMAIN @ \ {s.by_id[s.active].fingerprint}),
                   !.revision = @ + 1]
    ELSE s

ExpireDuePending(s, now) ==
  IF IsDue(s, now) THEN Resolve(s, s.active, "TimedOut") ELSE s

(* snapshot: what a reader is shown, and under which revision. *)
SnapshotContent(s) ==
  [active |-> IF s.active = NoId THEN {} ELSE {<<s.active, s.by_id[s.active]>>},
   cached |-> [k \in 1..Len(s.cached_order) |->
                 <<s.cached_order[k], s.by_id[s.cached_order[k]]>>]]

Snapshot(s) == [content |-> SnapshotContent(s), revision |-> s.revision]

(***************************************************************************)
(* The store seen as a ledger (ApprovalLedger): the pending request is     *)
(* what the active slot and the map say together, the window is the FIFO   *)
(* seen through the map.                                                   *)
(***************************************************************************)
PendingRequests(s) ==
  IF s.active = NoId THEN {}
  ELSE {[id |-> s.active, fingerprint |-> s.by_id[s.active].fingerprint]}

LedgerEntry(s, id) ==
  [id          |-> id,
   fingerprint |-> s.by_id[id].fingerprint,
   decision    |-> s.by_id[id].state]

LedgerWindow(s) ==
  [k \in 1..Len(s.cached_order) |-> LedgerEntry(s, s.cached_order[k])]

(***************************************************************************)
(* What a well-formed store looks like.                                    *)
(***************************************************************************)
StoreType(s) ==
  /\ DOMAIN s =
       {"active", "by_id", "fingerprint_index", "cached_order", "revision"}
  /\ s.active \in Ids \cup {NoId}
  /\ DOMAIN s.by_id \subseteq Ids
  /\ s.by_id \in [DOMAIN s.by_id -> Approval]
  /\ DOMAIN s.fingerprint_index \subseteq Fingerprints
  /\ s.fingerprint_index \in [DOMAIN s.fingerprint_index -> Ids]
  /\ s.cached_order \in Seq(Ids)
  /\ s.revision \in Nat

(* The active slot names exactly the pending approvals: there is at most one. *)
ActiveIsThePending(s) ==
  \A id \in DOMAIN s.by_id : IsPending(s.by_id[id]) <=> id = s.active

(* The slot and the FIFO partition the known ids: nothing is unreachable
   (a leak that no eviction would ever free) and nothing dangles. *)
KnownIds(s) ==
  DOMAIN s.by_id =
    Range(s.cached_order) \cup (IF s.active = NoId THEN {} ELSE {s.active})

ActiveNotCached(s) == s.active \notin Range(s.cached_order)

CacheIsDuplicateFree(s) == IsInjective(s.cached_order)

CacheIsBounded(s) == Len(s.cached_order) <= MaxCached

(* Every entry of the index names a known approval with that fingerprint. *)
IndexIsSound(s) ==
  \A f \in DOMAIN s.fingerprint_index :
    /\ s.fingerprint_index[f] \in DOMAIN s.by_id
    /\ s.by_id[s.fingerprint_index[f]].fingerprint = f

(* Instance tokens are unique and were drawn at or before this revision. *)
TracesAreUnique(s) ==
  /\ \A i \in DOMAIN s.by_id : s.by_id[i].trace_id \in 1..s.revision
  /\ \A i, j \in DOMAIN s.by_id :
       s.by_id[i].trace_id = s.by_id[j].trace_id => i = j

WellFormed(s) ==
  /\ ActiveIsThePending(s)
  /\ KnownIds(s)
  /\ ActiveNotCached(s)
  /\ CacheIsDuplicateFree(s)
  /\ CacheIsBounded(s)
  /\ IndexIsSound(s)
  /\ TracesAreUnique(s)
================================================================================
