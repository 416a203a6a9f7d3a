---------------------------- MODULE MCLifecycle ----------------------------
(***************************************************************************)
(* Instances of Lifecycle for TLC.  Commands are interchangeable.          *)
(***************************************************************************)
EXTENDS Lifecycle, TLC

CmdSymmetry == Permutations(Cmds)
=============================================================================
