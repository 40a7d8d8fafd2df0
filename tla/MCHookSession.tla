----------------------------- MODULE MCHookSession -----------------------------
(* Small instances of HookSession for TLC.  Two processes whose configurations
   differ in timeout_action are not interchangeable, so no symmetry is used. *)
EXTENDS HookSession, TLC

CONSTANT LastBegin  \* a bound on when the processes begin

BegunInTime == now > LastBegin => \A h \in Ids : ~ At(h, "new")
================================================================================
