----------------------------- MODULE MCCoreGroup -----------------------------
(***************************************************************************)
(* CoreGroup for TLC: the core of nk, and that of nks with and without     *)
(* the HTTP proxy.                                                         *)
(***************************************************************************)
EXTENDS CoreGroup

AllGroups ==
    {{"forward", "client"}, {"sshd", "server"}, {"sshd", "server", "proxy"}}
=============================================================================
