----------------------------- MODULE MCAuditTrail ------------------------------
(* Small instances of AuditTrail for TLC.  Approvals are interchangeable, and so
   are close requests. *)
EXTENDS AuditTrail, TLC

Symmetry == Permutations(Records) \cup Permutations(Closers)
================================================================================
