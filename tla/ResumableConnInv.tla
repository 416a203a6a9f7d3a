-------------------------- MODULE ResumableConnInv --------------------------
(***************************************************************************)
(* The inductive invariant of ResumableConn: why the properties hold.      *)
(*                                                                         *)
(* At each side a WebSocket goes through the stages not dialled yet,       *)
(* attaching, waiting for the peer's hello, live, closed; it never goes    *)
(* back (Stages).  Whoever still uses a WebSocket that is no longer live   *)
(* uses a closed one (Users).  The replay buffer and the frames to send    *)
(* lie end to end up to sendSeq (Jobs, Buffers).  Hence what is on a wire  *)
(* that the receiver may still read is, after the hello, the continuation  *)
(* of what the receiver has, up to what the sender sends next (Channels).  *)
(***************************************************************************)
EXTENDS ResumableConn

(* Side s has said hello on c and waits for the peer's. *)
Waits(s, c) == writeMu[s].phase = "await" /\ writeMu[s].conn = c

(* Where a WebSocket stands at side s. *)
StageOf(s, c) ==
    /\ c > dialed => /\ attaching[s][c] = "none"
                     /\ ~Waits(s, c)
                     /\ ws[s] # c
                     /\ dead[c] = {}
                     /\ wire[c][s] = <<>>
    /\ attaching[s][c] # "none" => /\ ~Waits(s, c)
                                   /\ ws[s] # c
                                   /\ s \notin dead[c]
                                   /\ wire[c][s] = <<>>
    /\ Waits(s, c) => s \notin dead[c]
    /\ ws[s] = c => s \notin dead[c]
    /\ c <= dialed => \/ attaching[s][c] # "none"
                      \/ Waits(s, c)
                      \/ ws[s] = c
                      \/ s \in dead[c]

Stages == \A s \in Side : \A c \in Conn : StageOf(s, c)

(* c was live at side s: it is still, or s closed it. *)
WasLive(s, c) == ws[s] = c \/ s \in dead[c]

Users ==
    \A s \in Side :
        /\ reading[s] # NoConn => WasLive(s, reading[s])
        /\ \A c \in beat[s] : WasLive(s, c)
        /\ writeMu[s].who # "free" /\ writeMu[s].phase # "await"
               => WasLive(s, writeMu[s].conn)
        /\ writeMu[s].phase = "await" => /\ writeMu[s].who = "attach"
                                         /\ ws[s] = NoConn
                                         /\ writeMu[s].ack = recvSeq[s]

(* The frames that the holder of writeMu has to send end at sendSeq. *)
Jobs ==
    \A s \in Side : LET job == writeMu[s] IN
        job.who # "free" /\ job.phase # "await" =>
            /\ job.from <= sendSeq[s]
            /\ job.todo = {} => job.from = sendSeq[s]
            /\ job.todo # {} => sendSeq[s] \in job.todo
            /\ \A h \in job.todo : h <= sendSeq[s]

(* The replay buffer of an open conn ends at sendSeq ... *)
Buffers ==
    \A s \in Side : life[s] # "closed" =>
        /\ unackedAt[s] <= sendSeq[s]
        /\ \A h \in unacked[s] : unackedAt[s] < h /\ h <= sendSeq[s]
        /\ sendSeq[s] \in {unackedAt[s]} \cup unacked[s]

(* ... and its payloads have the boundaries of the frames ever sent. *)
Boundary(s, x) == x <= unackedAt[s] \/ x \in unacked[s]

Boundaries ==
    \A s \in Side : life[s] # "closed" =>
        /\ unackedAt[s] <= recvSeq[Peer(s)]
        /\ Boundary(s, recvSeq[Peer(s)])
        /\ \A h \in writeMu[s].todo : Boundary(s, h)
        /\ \A c \in Conn : \A f \in InFlight(c, s) : Boundary(s, f.hi)

(* A frame carries bytes that its sender has written. *)
Payloads ==
    \A s \in Side : \A c \in Conn : \A f \in InFlight(c, s) : f.hi <= sendSeq[s]

(* The frames q lie end to end, from position x on; they end at End(q, x). *)
Chain(q, x) ==
    /\ q # <<>> => q[1].lo = x
    /\ \A i \in 1 .. Len(q) - 1 : q[i].hi = q[i + 1].lo

End(q, x) == IF q = <<>> THEN x ELSE q[Len(q)].hi

(* The position at which the next frame that s sends on c starts. *)
NextByte(s, c) ==
    IF writeMu[s].who # "free" /\ writeMu[s].conn = c THEN writeMu[s].from
    ELSE sendSeq[s]

(* The frames from s to its peer r, where c is live: data only. *)
ToLive(s, r, c) ==
    /\ Chain(wire[c][s], recvSeq[r])
    /\ Waits(s, c) => wire[c][s] = <<>>
    /\ ws[s] = c => End(wire[c][s], recvSeq[r]) = NextByte(s, c)
    /\ attaching[s][c] = "none"

(* The frames from s to its peer r, where c is not live yet: hello first. *)
ToWaiting(s, r, c) ==
    LET q == wire[c][s]
    IN  /\ q # <<>> => Chain(Tail(q), recvSeq[r])
        /\ q # <<>> /\ attaching[r][c] # "none" => Tail(q) = <<>>
        /\ Waits(s, c) => q # <<>> /\ Tail(q) = <<>>
        /\ ws[s] = c => /\ q # <<>>
                        /\ End(Tail(q), recvSeq[r]) = NextByte(s, c)
                        /\ Waits(r, c)

(* The hello that r waits for, or will wait for, tells where s stands. *)
HelloTrue(s, r, c) ==
    (Waits(r, c) \/ attaching[r][c] # "none") /\ wire[c][s] # <<>> /\ s \notin dead[c]
        => wire[c][s][1].ack = recvSeq[s]

Channel(s, r, c) ==
    r \notin dead[c] =>
        /\ ws[r] = c => ToLive(s, r, c)
        /\ ws[r] # c => ToWaiting(s, r, c)
        /\ HelloTrue(s, r, c)

Channels == \A s \in Side : \A c \in Conn : Channel(s, Peer(s), c)

(* The inductive invariant. *)
IInv ==
    /\ TypeOK
    /\ StreamIntact
    /\ AcksBehind
    /\ Stages
    /\ Users
    /\ Jobs
    /\ Buffers
    /\ Boundaries
    /\ Payloads
    /\ Channels

-----------------------------------------------------------------------------
(***************************************************************************)
(* What the promises to those above need beside IInv: that what passes is  *)
(* made of the payloads of Write calls, that a closed conn has no live     *)
(* WebSocket, and that nothing moves the client's replay buffer between    *)
(* the server's hello and the client's answer to it.                       *)
(***************************************************************************)

(* Neighbours in a set of boundaries are one payload apart. *)
Adjacent(bounds, g, h) == g < h /\ \A k \in bounds : k <= g \/ h <= k
Pieces(bounds) == \A g, h \in bounds : Adjacent(bounds, g, h) => h - g \in Chunk

Payloadwise ==
    \A s \in Side :
        /\ Pieces({unackedAt[s]} \cup unacked[s])
        /\ Pieces({writeMu[s].from} \cup writeMu[s].todo)
        /\ \A c \in Conn : \A f \in InFlight(c, s) : f.lo = f.hi \/ f.hi - f.lo \in Chunk

ClosedIdle == \A s \in Side : life[s] = "closed" => ws[s] = NoConn

(* Only the client's supervisor attaches, one WebSocket at a time. *)
ClientAttaches ==
    /\ sup["client"] # "idle" => ws["client"] = NoConn
    /\ \A c \in Conn : Attaching("client", c) =>
           /\ sup["client"] = "attach"
           /\ \A d \in Conn : Attaching("client", d) => d = c

(* The client's replay can start where the server's hello says. *)
HelloFits ==
    \A c \in Conn :
        Attaching("client", c) /\ wire[c]["server"] # <<>> /\ life["client"] # "closed" =>
            LET peer == wire[c]["server"][1].ack
            IN  unackedAt["client"] <= peer /\ Boundary("client", peer)

PromiseInv == Payloadwise /\ ClosedIdle /\ ClientAttaches /\ HelloFits /\ ClientSatisfied
=============================================================================
