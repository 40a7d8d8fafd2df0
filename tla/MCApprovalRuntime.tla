--------------------------- MODULE MCApprovalRuntime ---------------------------
(* Small instances of ApprovalRuntime for TLC.  Handlers of one kind, ids and
   payloads are only ever compared, so the safety runs are symmetric in them. *)
EXTENDS ApprovalRuntime, TLC

Symmetry == Permutations(Submitters) \cup Permutations(Ids)
              \cup Permutations(Fingerprints) \cup Permutations(Deciders)
================================================================================
