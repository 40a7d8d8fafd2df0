---------------------------- MODULE MCServerAccess -----------------------------
(* A small instance of ServerAccess and ConfigFile for TLC.  The processes, the file
   objects and the tokens are interchangeable. *)
EXTENDS ServerAccess, TLC

Symmetry ==
  Permutations(Apps) \cup Permutations(Hooks) \cup Permutations(Objects)
    \cup Permutations(Tokens)

(* Nothing is claimed of the tokens after two writers at once, and what follows is
   left out. *)
Uncontended == ~ contended
================================================================================
