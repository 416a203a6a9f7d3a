---------------------------- MODULE MCForwarding ----------------------------
(***************************************************************************)
(* Forwarding for TLC.  The hosts: one on the default allow list, one of   *)
(* 255 bytes on it and one of 256, one a user put on both lists, and one   *)
(* on no list.                                                             *)
(***************************************************************************)
EXTENDS Forwarding

Names ==
    [plain |-> <<112>>, edge |-> [i \in 1 .. 255 |-> 101], long |-> [i \in 1 .. 256 |-> 108],
     both |-> <<98>>, other |-> <<111>>]

AllHosts == DOMAIN Names
Allowed == {"plain", "edge", "long"}
Nobody == {}

Asked == {[host |-> "edge", port |-> 65535], [host |-> "long", port |-> 0],
          [host |-> "plain", port |-> 65536], [host |-> "both", port |-> 80]}
Unlisted == {[host |-> "other", port |-> 443]}

Written(conf) == [shape |-> "flat", says |-> conf]
Missing(zero) == [shape |-> "missing", says |-> zero]
BothLists == [default |-> "deny", allow |-> Allowed \cup {"both"}, deny |-> {"both"}]

NoServerFile == {Missing(zeroServerRules)}
SomeServerFile == {Written(BothLists), [shape |-> "unreadable", says |-> BothLists]}
NoClientFile == {Missing(zeroClientProxy)}
SomeClientFile == NoClientFile \cup {Saved(defaultClientProxy)}
Only == {TRUE}
=============================================================================
