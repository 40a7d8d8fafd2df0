----------------------------- MODULE MCPaperTrail ------------------------------
(* Small instances of PaperTrail for TLC.  Ids and the traces of hooks are only
   compared. *)
EXTENDS PaperTrail, TLC

Symmetry == Permutations(Ids) \cup Permutations(Traces) \cup Permutations(Fingerprints)
================================================================================
