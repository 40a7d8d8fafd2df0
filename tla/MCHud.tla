--------------------------------- MODULE MCHud ---------------------------------
(* Small instances of Hud for TLC.  Approvals are interchangeable, and so are
   commands. *)
EXTENDS Hud, TLC

Symmetry == Permutations(Ids) \cup Permutations(Slots)
================================================================================
