--------------------------- MODULE ApprovalStoreSpec ---------------------------
(***************************************************************************)
(* The ApprovalStore as a state machine: one action per public method of   *)
(* crates/winvibe-core/src/approval/store.rs that changes the store, in    *)
(* any order, and a monotonic clock that advances between calls.           *)
(***************************************************************************)
EXTENDS ApprovalStore

CONSTANTS
  TTL,           \* the ttl_ms argument of enqueue
  MaxTime,       \* bound on the clock
  MaxRevision    \* bound on the revision: no new approval at or beyond it

ASSUME SpecAssumption == TTL \in Nat /\ MaxTime \in Nat /\ MaxRevision \in Nat

VARIABLES store, now

vars == <<store, now>>

Init == store = NewStore /\ now = 0

EnqueueCall(id, fp) ==
  /\ store.revision < MaxRevision
  /\ store' = Enqueue(store, id, fp, now, TTL)
  /\ UNCHANGED now

DecideCall(id, decision) ==
  /\ store' = Decide(store, id, decision)
  /\ UNCHANGED now

CancelCall(id) ==
  /\ store' = Cancel(store, id)
  /\ UNCHANGED now

ExpireCall ==
  /\ store' = ExpireDuePending(store, now)
  /\ UNCHANGED now

Tick ==
  /\ now < MaxTime
  /\ now' = now + 1
  /\ UNCHANGED store

Next ==
  \/ \E id \in Ids, fp \in Fingerprints : EnqueueCall(id, fp)
  \/ \E id \in Ids, d \in UserDecisions : DecideCall(id, d)
  \/ \E id \in Ids : CancelCall(id)
  \/ ExpireCall
  \/ Tick

Spec == Init /\ [][Next]_vars

--------------------------------------------------------------------------------
(* The type invariant: what the fields of the Rust structs can hold. *)
TypeOK == StoreType(store) /\ now \in Nat

(* Whatever the order of the calls, the slot, the map, the FIFO and the index
   agree with each other (store.rs keeps the four by hand in five methods):
   one pending approval at most and it is the active one; every known id is
   active or cached, once; the cache respects max_cached; the index never
   names an approval that was evicted. *)
StoreWellFormed == WellFormed(store)

(* The revision is a faithful change detector for readers of the snapshot: it
   never moves back, and two snapshots show the same approvals exactly when they
   carry the same revision. *)
RevisionDetectsChange ==
  [][ /\ store'.revision >= store.revision
      /\ SnapshotContent(store)' = SnapshotContent(store)
           <=> store'.revision = store.revision ]_vars

Ledger == INSTANCE ApprovalLedger WITH
            pending <- PendingRequests(store), window <- LedgerWindow(store),
            Capacity <- MaxCached

(* Every call of the store is a step of the ledger or leaves it alone: a
   decision recorded for a request is never altered while it is remembered,
   carries the payload that was submitted, and is forgotten oldest first and
   only to make room. *)
ImplementsLedger == Ledger!Spec
================================================================================
