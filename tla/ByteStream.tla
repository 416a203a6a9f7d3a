----------------------------- MODULE ByteStream -----------------------------
(***************************************************************************)
(* What a pair of ResumableConns promises to the two yamux sessions above  *)
(* it, whatever happens to the WebSockets below: a reliable byte stream in *)
(* each direction.  A byte is identified by its position in the stream of  *)
(* its writer, so rcvd[s] = <<1, 2, 3>> says that side s has been given    *)
(* the first three bytes its peer wrote, in order and once each.           *)
(***************************************************************************)
EXTENDS Naturals, Sequences

CONSTANT Chunk         \* the numbers of bytes one Write may carry

Side == {"client", "server"}
Peer(s) == IF s = "client" THEN "server" ELSE "client"

VARIABLES
    sent,    \* sent[s]: number of bytes Write has accepted at side s
    rcvd,    \* rcvd[s]: the bytes side s has been given, in order
    over     \* the sides whose stream has ended

vars == <<sent, rcvd, over>>

Init ==
    /\ sent = [s \in Side |-> 0]
    /\ rcvd = [s \in Side |-> <<>>]
    /\ over = {}

(* Side s writes n more bytes. *)
Put(s, n) ==
    /\ s \notin over
    /\ sent' = [sent EXCEPT ![s] = @ + n]
    /\ UNCHANGED <<rcvd, over>>

(* Side s is given the next n bytes its peer wrote. *)
Get(s, n) ==
    /\ s \notin over
    /\ Len(rcvd[s]) + n <= sent[Peer(s)]
    /\ rcvd' = [rcvd EXCEPT ![s] = @ \o [i \in 1..n |-> Len(rcvd[s]) + i]]
    /\ UNCHANGED <<sent, over>>

(* The stream ends at side s, for good. *)
End(s) ==
    /\ s \notin over
    /\ over' = over \cup {s}
    /\ UNCHANGED <<sent, rcvd>>

Next == \E s \in Side : End(s) \/ \E n \in Chunk : Put(s, n) \/ Get(s, n)

Spec == Init /\ [][Next]_vars
=============================================================================
