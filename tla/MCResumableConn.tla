--------------------------- MODULE MCResumableConn ---------------------------
(***************************************************************************)
(* Instances of ResumableConn for TLC: who writes how much.                *)
(***************************************************************************)
EXTENDS ResumableConnInv

NobodyWrites == [s \in Side |-> 0]
ServerWritesOne == [client |-> 0, server |-> 1]
ClientWritesTwo == [client |-> 2, server |-> 0]
EachWritesOne == [client |-> 1, server |-> 1]
=============================================================================
