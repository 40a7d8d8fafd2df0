----------------------------- MODULE ApprovalLedger -----------------------------
(***************************************************************************)
(* What the approval store promises its clients, without maps or indexes:  *)
(* at most one request is pending, every decision is entered once in a     *)
(* ledger, and clients can look up the last Capacity entries of it.  An    *)
(* entry is never altered, entries leave in the order in which they came,  *)
(* and only to make room.                                                  *)
(***************************************************************************)
EXTENDS Integers, Sequences

CONSTANTS Ids, Fingerprints, Capacity

VARIABLES
  pending,   \* the set of requests that wait for a decision: none or one
  window     \* the remembered part of the ledger, oldest entry first

ledgerVars == <<pending, window>>

Request(id, fp) == [id |-> id, fingerprint |-> fp]
Entry(req, decision) ==
  [id |-> req.id, fingerprint |-> req.fingerprint, decision |-> decision]

Recent(log) ==
  LET excess == IF Len(log) > Capacity THEN Len(log) - Capacity ELSE 0
  IN SubSeq(log, excess + 1, Len(log))

Remembered(log) == {log[k].id : k \in 1..Len(log)}

Init == pending = {} /\ window = <<>>

Submit(id, fp) ==
  /\ pending = {}
  /\ id \notin Remembered(window)
  /\ pending' = {Request(id, fp)}
  /\ UNCHANGED window

Settle(decision) ==
  \E req \in pending :
    /\ window' = Recent(Append(window, Entry(req, decision)))
    /\ pending' = {}

(* One client call may lapse a request that is overdue and take its place. *)
Overtake(id, fp) ==
  \E req \in pending :
    /\ window' = Recent(Append(window, Entry(req, "TimedOut")))
    /\ id \notin Remembered(window')
    /\ pending' = {Request(id, fp)}

Next ==
  \/ \E id \in Ids, fp \in Fingerprints : Submit(id, fp) \/ Overtake(id, fp)
  \/ \E d \in {"Approved", "Denied", "TimedOut", "Cancelled"} : Settle(d)

Spec == Init /\ [][Next]_ledgerVars
================================================================================
