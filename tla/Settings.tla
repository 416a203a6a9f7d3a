------------------------------ MODULE Settings ------------------------------
(***************************************************************************)
(* The two settings files (internal/storage).  A file is missing, cannot   *)
(* be read, is malformed (no JSON, or cut off in the middle of a write),   *)
(* or holds one JSON object: "flat" with the settings themselves, or       *)
(* "nested", with the settings in a field of it beside version and         *)
(* description, as SaveServerConf and SaveClientConf write it.             *)
(*                                                                         *)
(* A missing file whose default cannot be saved counts as one that cannot  *)
(* be read.                                                                *)
(*                                                                         *)
(* A list of host patterns stands for the set of hosts it matches.         *)
(***************************************************************************)
EXTENDS Naturals

CONSTANTS
    Hosts,           \* the hosts there are
    DefaultAllow,    \* those on the lists of defaultServerConf ...
    DefaultDeny,
    DefaultProxied   \* ... and of defaultClientConf

ASSUME SettingsAssumption ==
    /\ DefaultAllow \subseteq Hosts /\ DefaultDeny \subseteq Hosts
    /\ DefaultProxied \subseteq Hosts

ServerRules == [default : {"", "allow", "deny"}, allow : SUBSET Hosts, deny : SUBSET Hosts]
ClientProxy == [type : {"", "socks5"}, allow : SUBSET Hosts]

defaultServerRules == [default |-> "deny", allow |-> DefaultAllow, deny |-> DefaultDeny]
defaultClientProxy == [type |-> "socks5", allow |-> DefaultProxied]

(* What Unmarshal leaves of a struct when none of its fields is in the file. *)
zeroServerRules == [default |-> "", allow |-> {}, deny |-> {}]
zeroClientProxy == [type |-> "", allow |-> {}]

Shape == {"missing", "unreadable", "malformed", "flat", "nested"}

(* A settings file and what it says. *)
File(says) == [shape : Shape, says : says]

(* SaveServerConf, SaveClientConf. *)
Saved(conf) == [shape |-> "nested", says |-> conf]

Replaced(file) == file.shape \in {"missing", "malformed"}

(* LoadServerConf and LoadClientConf: the file afterwards, and the settings *)
(* they return; an unreadable file is an error.                             *)
Loadable(file) == file.shape # "unreadable"

FileAfterLoad(file, default) == IF Replaced(file) THEN Saved(default) ELSE file

Loaded(file, default, zero) ==
    IF Replaced(file) THEN default
    ELSE IF file.shape = "flat" THEN file.says
    ELSE zero

=============================================================================
