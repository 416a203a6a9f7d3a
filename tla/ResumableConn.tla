---------------------------- MODULE ResumableConn ----------------------------
(***************************************************************************)
(* Two ResumableConns (internal/transport/resume_conn.go), one on each     *)
(* side, over a succession of WebSockets: the reader, the writer, the      *)
(* heartbeat and the supervisor goroutines of each side, the client's      *)
(* redialling, the server's resume handlers and the network between them.  *)
(*                                                                         *)
(* One action is one critical section of c.mu, one step under c.writeMu,   *)
(* or one network operation; everything that can run between two of them   *)
(* in the program can run between them here.                               *)
(*                                                                         *)
(* A payload is the interval of stream positions it covers.  A frame       *)
(* carries an acknowledgement and a payload; the positions lo and hi of    *)
(* its payload stand for the bytes themselves (the code sends no           *)
(* positions), and only hi - lo, the number of bytes, is used by the       *)
(* receiver.  A frame with lo = hi has no payload.                         *)
(*                                                                         *)
(* An operator whose comment starts with "Slip:" is not part of the model. *)
(* It is the next operator with a plausible mistake in it, which one of    *)
(* the properties must notice.                                             *)
(***************************************************************************)
EXTENDS Naturals, Sequences, FiniteSets

CONSTANTS
    MaxConn,       \* bound: WebSockets dialled during a behaviour
    MaxBytes,      \* bound: bytes each side writes, MaxBytes[s]
    Chunk,         \* the payload lengths one Write may have
    AckEvery,      \* received bytes that call for a standalone ack
    MaxAttempts,   \* dials that fit in the reconnect budget
    Closers        \* bound: the sides that may be closed from above

ASSUME ConstantsAssumption ==
    /\ MaxConn \in Nat \ {0}
    /\ MaxBytes \in [{"client", "server"} -> Nat]
    /\ Chunk \subseteq Nat \ {0}
    /\ AckEvery \in Nat \ {0}
    /\ MaxAttempts \in Nat \ {0}
    /\ Closers \subseteq {"client", "server"}

Side == {"client", "server"}
Peer(s) == IF s = "client" THEN "server" ELSE "client"

Conn == 1 .. MaxConn
NoConn == 0

VARIABLES
    (* The fields of ResumableConn, per side. *)
    ws,          \* the live WebSocket, NoConn while reconnecting or closed
    recvSeq,     \* bytes received in order
    ackSent,     \* highest ack sent to the peer
    sendSeq,     \* bytes written
    unackedAt,   \* stream offset at which the first kept payload starts
    unacked,     \* the end offsets of the payloads sent but not acked yet
    life,        \* "open", "canceled" (ctx is done) or "closed" (Close ran)
    cause,       \* why the conn closed, "nil" for a plain Close
    lost,        \* the sides whose channel lost holds a token
    writeMu,     \* the holder of writeMu and the frames it still has to send
    (* The goroutines, per side. *)
    reading,     \* the WebSocket the reader got from current()
    waiting,     \* the sides whose writer waits in current()
    beat,        \* the WebSockets whose heartbeat waits for writeMu
    attaching,   \* attaching[s][c]: where attach(c) stands before writeMu
    sup,         \* the supervisor: "idle", "recover", client also "attach"
    attempt,     \* failed dials of the redial in progress (client)
    (* The network. *)
    dialed,      \* number of WebSockets dialled so far
    wire,        \* wire[c][s]: frames side s sent on c, not read yet
    dead,        \* dead[c]: who ended c: a side that closed it, "net"
    (* History. *)
    rcvd         \* rcvd[s]: the bytes handed to Read's callers at side s

connVars == <<recvSeq, ackSent, sendSeq, unackedAt, unacked, rcvd>>
goVars == <<reading, waiting, beat>>
supVars == <<attaching, sup, attempt, dialed>>
endVars == <<life, cause>>
vars == <<ws, lost, writeMu, wire, dead, connVars, goVars, supVars, endVars>>

-----------------------------------------------------------------------------
(***************************************************************************)
(* writeMu: whoever holds it sends frames on the WebSocket conn.  phase    *)
(* is where the holder stands: an attach first "await"s the peer's hello;  *)
(* every frame then "snap"shots the ack and "send"s.  from is the stream   *)
(* position of the next payload, todo the end offsets of the payloads      *)
(* still to send.                                                          *)
(***************************************************************************)
Holder == {"free", "write", "ack", "beat", "attach"}
Phase == {"await", "snap", "send"}

Job(who, c, phase, ack, from, todo) ==
    [who |-> who, conn |-> c, phase |-> phase, ack |-> ack, from |-> from,
     todo |-> todo]

Free == Job("free", NoConn, "snap", 0, 0, {})

Frame == {f \in [ack : Nat, lo : Nat, hi : Nat] : f.lo <= f.hi}
Frames == Seq(Frame)
Taken == Seq(Nat)
Bytes(lo, hi) == [i \in 1 .. (hi - lo) |-> lo + i]

Init ==
    /\ ws = [s \in Side |-> 1]
    /\ recvSeq = [s \in Side |-> 0]
    /\ ackSent = [s \in Side |-> 0]
    /\ sendSeq = [s \in Side |-> 0]
    /\ unackedAt = [s \in Side |-> 0]
    /\ unacked = [s \in Side |-> {}]
    /\ life = [s \in Side |-> "open"]
    /\ cause = [s \in Side |-> "nil"]
    /\ lost = {}
    /\ writeMu = [s \in Side |-> Free]
    /\ reading = [s \in Side |-> 1]
    /\ waiting = {}
    /\ beat = [s \in Side |-> {}]
    /\ attaching = [s \in Side |-> [c \in Conn |-> "none"]]
    /\ sup = [s \in Side |-> "idle"]
    /\ attempt = 0
    /\ dialed = 1
    /\ wire = [c \in Conn |-> [s \in Side |-> <<>>]]
    /\ dead = [c \in Conn |-> {}]
    /\ rcvd = [s \in Side |-> <<>>]

-----------------------------------------------------------------------------
(* The network.                                                            *)

(* A frame written after the peer closed its end goes nowhere. *)
Put(s, c, f) ==
    wire' = IF Peer(s) \in dead[c] THEN wire
            ELSE [wire EXCEPT ![c][s] = Append(@, f)]

(* The network drops c: what is in flight may or may not arrive. *)
Cut(c) ==
    /\ c <= dialed
    /\ dead[c] = {}
    /\ dead' = [dead EXCEPT ![c] = {"net"}]
    /\ UNCHANGED <<ws, lost, writeMu, wire, connVars, goVars, supVars, endVars>>

(***************************************************************************)
(* Giving up the WebSocket c at side s, as broken and detach do: it is no  *)
(* longer the live one, it is closed and the supervisor is woken.  A c     *)
(* that is not the live one is left alone.                                 *)
(***************************************************************************)
DropNoToken(s, c) ==      \* Slip: the supervisor is not woken
    IF c # NoConn /\ ws[s] = c
    THEN /\ ws' = [ws EXCEPT ![s] = NoConn]
         /\ dead' = [dead EXCEPT ![c] = @ \cup {s}]
         /\ UNCHANGED lost
    ELSE UNCHANGED <<ws, dead, lost>>

Drop(s, c) ==
    IF c # NoConn /\ ws[s] = c
    THEN /\ ws' = [ws EXCEPT ![s] = NoConn]
         /\ dead' = [dead EXCEPT ![c] = @ \cup {s}]
         /\ lost' = lost \cup {s}
    ELSE UNCHANGED <<ws, dead, lost>>

(***************************************************************************)
(* ackLocked: the payloads that end at or before ack are dropped, and the  *)
(* replay buffer starts where the last of them ended (KeptFrom has that    *)
(* one element).                                                           *)
(***************************************************************************)
KeptTooFew(s, ack) == {h \in unacked[s] : h > ack + 1}    \* Slip: off by one
Kept(s, ack) == {h \in unacked[s] : h > ack}
Confirmed(s, ack) == {unackedAt[s]} \cup (unacked[s] \ Kept(s, ack))
KeptFrom(s, ack) == {x \in Confirmed(s, ack) : \A y \in Confirmed(s, ack) : y <= x}

(* An ack of bytes that were never sent changes nothing; it is an error. *)
AckLocked(s, ack) ==
    IF ack <= sendSeq[s]
    THEN /\ unackedAt' \in {[unackedAt EXCEPT ![s] = x] : x \in KeptFrom(s, ack)}
         /\ unacked' = [unacked EXCEPT ![s] = Kept(s, ack)]
    ELSE UNCHANGED <<unackedAt, unacked>>

-----------------------------------------------------------------------------
(* Closing.                                                                *)

(* The first half of closeWith and Close: the cause and the cancelled ctx. *)
CloseWith(s, why) ==
    /\ life' = [life EXCEPT ![s] = IF @ = "open" THEN "canceled" ELSE @]
    /\ cause' = [cause EXCEPT ![s] = IF @ = "nil" THEN why ELSE @]

(* The session above, or the end of the program, closes the conn. *)
Cancel(s) ==
    /\ s \in Closers
    /\ life[s] = "open"
    /\ life' = [life EXCEPT ![s] = "canceled"]
    /\ UNCHANGED <<ws, lost, writeMu, wire, dead, connVars, goVars, supVars,
                   cause>>

LeaveLive(s) == UNCHANGED dead            \* Slip: Close forgets ws.Close
CloseLive(s) ==
    dead' = [c \in Conn |-> IF c = ws[s] THEN dead[c] \cup {s} ELSE dead[c]]

(* The rest of Close: the live WebSocket and the replay buffer are dropped. *)
CloseFinish(s) ==
    /\ life[s] = "canceled"
    /\ life' = [life EXCEPT ![s] = "closed"]
    /\ ws' = [ws EXCEPT ![s] = NoConn]
    /\ unacked' = [unacked EXCEPT ![s] = {}]
    /\ CloseLive(s)
    /\ UNCHANGED <<lost, writeMu, wire, recvSeq, ackSent, sendSeq, unackedAt,
                   rcvd, goVars, supVars, cause>>

-----------------------------------------------------------------------------
(* The writer.                                                             *)

(***************************************************************************)
(* Write: under writeMu and mu the payload is kept and counted; with a     *)
(* live WebSocket its frame follows, without one the writer waits (the     *)
(* payload will be replayed).                                              *)
(***************************************************************************)
Write(s, n) ==
    /\ writeMu[s].who = "free"
    /\ s \notin waiting
    /\ life[s] = "open"
    /\ sendSeq[s] + n <= MaxBytes[s]
    /\ sendSeq' = [sendSeq EXCEPT ![s] = @ + n]
    /\ unacked' = [unacked EXCEPT ![s] = @ \cup {sendSeq[s] + n}]
    /\ IF ws[s] # NoConn
       THEN /\ writeMu' = [writeMu EXCEPT ![s] =
                  Job("write", ws[s], "snap", 0, sendSeq[s], {sendSeq[s] + n})]
            /\ UNCHANGED waiting
       ELSE /\ waiting' = waiting \cup {s}
            /\ UNCHANGED writeMu
    /\ UNCHANGED <<ws, lost, wire, dead, recvSeq, ackSent, unackedAt, rcvd,
                   reading, beat, supVars, endVars>>

(* Write returns: a WebSocket was attached, or the conn is closed. *)
WriteReturn(s) ==
    /\ s \in waiting
    /\ ws[s] # NoConn \/ life[s] # "open"
    /\ waiting' = waiting \ {s}
    /\ UNCHANGED <<ws, lost, writeMu, wire, dead, connVars, reading, beat,
                   supVars, endVars>>

-----------------------------------------------------------------------------
(* writeFrame, by whoever holds writeMu.                                   *)

(* The ack of the next frame is read under mu ... *)
SnapSent(s) ==      \* Slip: the bytes sent are acknowledged, not those received
    /\ writeMu[s].who # "free"
    /\ writeMu[s].phase = "snap"
    /\ writeMu' = [writeMu EXCEPT ![s] = [@ EXCEPT !.phase = "send", !.ack = sendSeq[s]]]
    /\ UNCHANGED <<ws, lost, wire, dead, connVars, goVars, supVars, endVars>>

SnapAck(s) ==
    /\ writeMu[s].who # "free"
    /\ writeMu[s].phase = "snap"
    /\ writeMu' = [writeMu EXCEPT ![s] = [@ EXCEPT !.phase = "send", !.ack = recvSeq[s]]]
    /\ UNCHANGED <<ws, lost, wire, dead, connVars, goVars, supVars, endVars>>

(* The end of the next payload to send; a frame without payload ends at from. *)
NextEnd(job) ==
    IF job.todo = {} THEN {job.from}
    ELSE {h \in job.todo : \A g \in job.todo : h <= g}

(***************************************************************************)
(* ... and the frame is sent, without mu.  A replay goes on to the next    *)
(* payload of its copy of unacked, anybody else releases writeMu.          *)
(***************************************************************************)
SendFrame(s) ==
    LET job == writeMu[s]
    IN  \E hi \in NextEnd(job) :
        /\ job.phase = "send"
        /\ s \notin dead[job.conn]
        /\ Put(s, job.conn, [ack |-> job.ack, lo |-> job.from, hi |-> hi])
        /\ ackSent' = [ackSent EXCEPT ![s] = IF job.ack > @ THEN job.ack ELSE @]
        /\ writeMu' = [writeMu EXCEPT ![s] =
               IF job.todo \subseteq {hi} THEN Free
               ELSE Job(job.who, job.conn, "snap", 0, hi, job.todo \ {hi})]
        /\ UNCHANGED <<ws, lost, dead, recvSeq, sendSeq, unackedAt, unacked,
                       rcvd, goVars, supVars, endVars>>

(***************************************************************************)
(* The frame cannot be written: the holder gives up the WebSocket and      *)
(* writeMu, and a Write waits for the next one.                            *)
(***************************************************************************)
SendFails(s) ==
    LET job == writeMu[s]
    IN  /\ job.phase = "send"
        /\ dead[job.conn] # {}
        /\ Drop(s, job.conn)
        /\ writeMu' = [writeMu EXCEPT ![s] = Free]
        /\ waiting' = IF job.who = "write" THEN waiting \cup {s} ELSE waiting
        /\ UNCHANGED <<wire, connVars, reading, beat, supVars, endVars>>

-----------------------------------------------------------------------------
(***************************************************************************)
(* The reader.  reading is the WebSocket that current() gave it; as long   *)
(* as that is the live one, current() gives it again.                      *)
(***************************************************************************)

(* The reader is not inside the writeFrame of a standalone ack. *)
ReaderRuns(s) == writeMu[s].who # "ack"

(* current() finds a new WebSocket. *)
ReadCurrent(s) ==
    /\ reading[s] = NoConn
    /\ ws[s] # NoConn
    /\ life[s] = "open"
    /\ reading' = [reading EXCEPT ![s] = ws[s]]
    /\ UNCHANGED <<ws, lost, writeMu, wire, dead, connVars, waiting, beat,
                   supVars, endVars>>

NeverReplaced(s, c) == FALSE              \* Slip: Read does not look
Replaced(s, c) == ws[s] # c

(* TryLock for a standalone ack; the reader never blocks on writeMu. *)
TryAck(s, c, got) ==
    writeMu' = IF got - ackSent[s] >= AckEvery /\ writeMu[s].who = "free"
               THEN [writeMu EXCEPT ![s] = Job("ack", c, "snap", 0, sendSeq[s], {})]
               ELSE writeMu

(* The frame f on the live WebSocket: its ack, its payload, an ack in return. *)
Accept(s, c, f) ==
    LET got == recvSeq[s] + (f.hi - f.lo)
    IN  /\ f.ack <= sendSeq[s]
        /\ AckLocked(s, f.ack)
        /\ recvSeq' = [recvSeq EXCEPT ![s] = got]
        /\ rcvd' = [rcvd EXCEPT ![s] = @ \o Bytes(f.lo, f.hi)]
        /\ TryAck(s, c, got)
        /\ UNCHANGED <<reading, endVars>>

(***************************************************************************)
(* ReadMessage returned a frame.  If its WebSocket was replaced meanwhile  *)
(* the frame is thrown away; an ack of bytes never sent ends the conn.     *)
(***************************************************************************)
ReadFrame(s) ==
    LET c == reading[s]
        f == Head(wire[c][Peer(s)])
    IN  /\ ReaderRuns(s)
        /\ c # NoConn
        /\ wire[c][Peer(s)] # <<>>
        /\ wire' = [wire EXCEPT ![c][Peer(s)] = Tail(@)]
        /\ \/ /\ Replaced(s, c)
              /\ reading' = [reading EXCEPT ![s] = NoConn]
              /\ UNCHANGED <<recvSeq, unackedAt, unacked, rcvd, writeMu, endVars>>
           \/ /\ ~Replaced(s, c)
              /\ f.ack > sendSeq[s]
              /\ CloseWith(s, "protocol")
              /\ reading' = [reading EXCEPT ![s] = NoConn]
              /\ UNCHANGED <<recvSeq, unackedAt, unacked, rcvd, writeMu>>
           \/ /\ ~Replaced(s, c)
              /\ Accept(s, c, f)
        /\ UNCHANGED <<ws, lost, dead, ackSent, sendSeq, waiting, beat, supVars>>

(* ReadMessage failed: the WebSocket is broken, unless it was replaced. *)
ReadFails(s) ==
    LET c == reading[s]
    IN  /\ ReaderRuns(s)
        /\ c # NoConn
        /\ dead[c] # {}
        /\ Drop(s, c)
        /\ reading' = [reading EXCEPT ![s] = NoConn]
        /\ wire' = [wire EXCEPT ![c][Peer(s)] = <<>>]
        /\ UNCHANGED <<writeMu, connVars, waiting, beat, supVars, endVars>>

-----------------------------------------------------------------------------
(* The heartbeats, one per attached WebSocket.                             *)

(* The ping of the live WebSocket fails. *)
PingFails(s) ==
    /\ ws[s] # NoConn
    /\ life[s] = "open"
    /\ dead[ws[s]] # {}
    /\ Drop(s, ws[s])
    /\ UNCHANGED <<writeMu, wire, connVars, goVars, supVars, endVars>>

BehindByTwo(s) == recvSeq[s] > ackSent[s] + 1    \* Slip: off by one
Behind(s) == recvSeq[s] > ackSent[s]

(* A tick finds the live WebSocket with acks to flush ... *)
BeatBehind(s) ==
    /\ ws[s] # NoConn
    /\ life[s] = "open"
    /\ ws[s] \notin beat[s]
    /\ ~(writeMu[s].who = "beat" /\ writeMu[s].conn = ws[s])
    /\ Behind(s)
    /\ beat' = [beat EXCEPT ![s] = @ \cup {ws[s]}]
    /\ UNCHANGED <<ws, lost, writeMu, wire, dead, connVars, reading, waiting,
                   supVars, endVars>>

(* ... and gets writeMu to send them, perhaps when c has been replaced. *)
BeatFlush(s, c) ==
    /\ c \in beat[s]
    /\ writeMu[s].who = "free"
    /\ beat' = [beat EXCEPT ![s] = @ \ {c}]
    /\ writeMu' = [writeMu EXCEPT ![s] = Job("beat", c, "snap", 0, sendSeq[s], {})]
    /\ UNCHANGED <<ws, lost, wire, dead, connVars, reading, waiting, supVars,
                   endVars>>

-----------------------------------------------------------------------------
(* attach: by the supervisor on the client, by a resume handler per        *)
(* WebSocket on the server.                                                *)

(* A dial of the redial loop failed, and the next one may be out of time. *)
DialFailedForEver ==      \* Slip: no budget
    /\ attempt' = attempt + 1
    /\ sup' = [sup EXCEPT !["client"] = "recover"]
    /\ UNCHANGED endVars

DialFailed ==
    \/ /\ attempt + 1 < MaxAttempts
       /\ attempt' = attempt + 1
       /\ sup' = [sup EXCEPT !["client"] = "recover"]
       /\ UNCHANGED endVars
    \/ /\ attempt + 1 >= MaxAttempts
       /\ attempt' = 0
       /\ sup' = [sup EXCEPT !["client"] = "idle"]
       /\ IF life["client"] = "open" THEN CloseWith("client", "budget")
          ELSE UNCHANGED endVars

(* The first detach, before writeMu: a write stuck on the old WebSocket ends. *)
AttachDetach(s, c) ==
    /\ attaching[s][c] = "detach"
    /\ attaching' = [attaching EXCEPT ![s][c] = "lock"]
    /\ Drop(s, ws[s])
    /\ UNCHANGED <<writeMu, wire, connVars, goVars, sup, attempt, dialed, endVars>>

(* writeMu, and the second detach, which reads the ack to say hello with. *)
AttachLock(s, c) ==
    /\ attaching[s][c] = "lock"
    /\ writeMu[s].who = "free"
    /\ attaching' = [attaching EXCEPT ![s][c] = "none"]
    /\ writeMu' = [writeMu EXCEPT ![s] = Job("attach", c, "await", recvSeq[s], 0, {})]
    /\ Put(s, c, [ack |-> recvSeq[s], lo |-> 0, hi |-> 0])
    /\ Drop(s, ws[s])
    /\ UNCHANGED <<connVars, goVars, sup, attempt, dialed, endVars>>

(***************************************************************************)
(* The handshake fails: the WebSocket is broken, its deadline passes, or   *)
(* the reply is not an ack alone.                                          *)
(***************************************************************************)
AttachFails(s) ==
    LET job == writeMu[s]
    IN  /\ job.phase = "await"
        /\ writeMu' = [writeMu EXCEPT ![s] = Free]
        /\ dead' = [dead EXCEPT ![job.conn] = @ \cup {s}]
        /\ wire' = [wire EXCEPT ![job.conn][Peer(s)] = <<>>]
        /\ IF s = "client" THEN DialFailed ELSE UNCHANGED <<sup, attempt, endVars>>
        /\ UNCHANGED <<ws, lost, connVars, goVars, attaching, dialed>>

(* attach makes c the live WebSocket and replays what the peer is missing. *)
GoLive(s, c, peer) ==
    /\ ws' = [ws EXCEPT ![s] = c]
    /\ ackSent' = [ackSent EXCEPT ![s] = writeMu[s].ack]
    /\ writeMu' = [writeMu EXCEPT ![s] =
           IF Kept(s, peer) = {} THEN Free
           ELSE Job("attach", c, "snap", 0, peer, Kept(s, peer))]
    /\ sup' = [sup EXCEPT ![s] = IF s = "client" THEN "idle" ELSE @]
    /\ UNCHANGED <<dead, endVars>>

(* attach gives c up for good, after the conn was closed or to close it. *)
GiveUpOpen(s, c) ==      \* Slip: the new WebSocket is not closed
    /\ writeMu' = [writeMu EXCEPT ![s] = Free]
    /\ UNCHANGED <<ws, dead, ackSent, sup>>

GiveUp(s, c) ==
    /\ dead' = [dead EXCEPT ![c] = @ \cup {s}]
    /\ writeMu' = [writeMu EXCEPT ![s] = Free]
    /\ UNCHANGED <<ws, ackSent, sup>>

(***************************************************************************)
(* The peer's hello arrived.  attach gives up if the conn was closed, and  *)
(* ends the conn if the peer's position is not one at which the replay     *)
(* can start; else the WebSocket goes live.                                *)
(***************************************************************************)
AttachReply(s) ==
    LET job   == writeMu[s]
        c     == job.conn
        hello == Head(wire[c][Peer(s)])
        peer  == hello.ack
        fits  == peer <= sendSeq[s] /\ peer \in KeptFrom(s, peer)
    IN  /\ job.phase = "await"
        /\ wire[c][Peer(s)] # <<>>
        /\ hello.lo = hello.hi
        /\ wire' = [wire EXCEPT ![c][Peer(s)] = Tail(@)]
        /\ \/ /\ life[s] = "open" /\ fits
              /\ AckLocked(s, peer) /\ GoLive(s, c, peer)
           \/ /\ life[s] = "open" /\ ~fits
              /\ AckLocked(s, peer) /\ GiveUp(s, c) /\ CloseWith(s, "protocol")
           \/ /\ life[s] # "open"
              /\ GiveUp(s, c) /\ UNCHANGED <<unackedAt, unacked, endVars>>
        /\ UNCHANGED <<lost, recvSeq, sendSeq, rcvd, goVars, attaching, attempt,
                       dialed>>

-----------------------------------------------------------------------------
(* supervise.                                                              *)

(***************************************************************************)
(* The supervisor takes the token, and recovers if there is no WebSocket.  *)
(* The client's replays from its supervisor, which must finish first.      *)
(***************************************************************************)
TakeLost(s) ==
    /\ sup[s] = "idle"
    /\ s = "client" => writeMu[s].who # "attach"
    /\ s \in lost
    /\ life[s] = "open"
    /\ lost' = lost \ {s}
    /\ sup' = [sup EXCEPT ![s] = IF ws[s] = NoConn THEN "recover" ELSE "idle"]
    /\ attempt' = IF s = "client" THEN 0 ELSE attempt
    /\ UNCHANGED <<ws, writeMu, wire, dead, connVars, goVars, attaching, dialed,
                   endVars>>

Redialing == sup["client"] = "recover" /\ life["client"] = "open"

(***************************************************************************)
(* The dial succeeds: the client attaches the new WebSocket, and so does a *)
(* resume handler of the server, which found the session in the manager    *)
(* (it may have been closed since).                                        *)
(***************************************************************************)
DialOk ==
    LET c == dialed + 1
    IN  /\ Redialing
        /\ c <= MaxConn
        /\ dialed' = c
        /\ attaching' = [s \in Side |-> [attaching[s] EXCEPT ![c] = "detach"]]
        /\ sup' = [sup EXCEPT !["client"] = "attach"]
        /\ UNCHANGED <<ws, lost, writeMu, wire, dead, connVars, goVars, attempt,
                       endVars>>

(* The dial fails: no route, a timeout, a proxy in between. *)
DialFails ==
    /\ Redialing
    /\ DialFailed
    /\ UNCHANGED <<ws, lost, writeMu, wire, dead, connVars, goVars, attaching,
                   dialed>>

(* The server answers 410: it has closed the session and forgotten it. *)
DialGone ==
    /\ Redialing
    /\ life["server"] = "closed"
    /\ sup' = [sup EXCEPT !["client"] = "idle"]
    /\ CloseWith("client", "gone")
    /\ UNCHANGED <<ws, lost, writeMu, wire, dead, connVars, goVars, attaching,
                   attempt, dialed>>

(* awaitResume, woken by a new WebSocket, finds one. *)
ResumeSeen ==
    /\ sup["server"] = "recover"
    /\ life["server"] = "open"
    /\ ws["server"] # NoConn
    /\ sup' = [sup EXCEPT !["server"] = "idle"]
    /\ UNCHANGED <<ws, lost, writeMu, wire, dead, connVars, goVars, attaching,
                   attempt, dialed, endVars>>

(***************************************************************************)
(* The grace period of awaitResume ends.  When a WebSocket is attached in  *)
(* the same instant, the select may still choose the timer.                *)
(***************************************************************************)
GraceExpires ==
    /\ sup["server"] = "recover"
    /\ life["server"] = "open"
    /\ sup' = [sup EXCEPT !["server"] = "idle"]
    /\ CloseWith("server", "grace")
    /\ UNCHANGED <<ws, lost, writeMu, wire, dead, connVars, goVars, attaching,
                   attempt, dialed>>

-----------------------------------------------------------------------------
(* Everything a side does by itself but starting an attach. *)
SideStep(s) ==
    \/ CloseFinish(s) \/ WriteReturn(s)
    \/ SnapAck(s) \/ SendFrame(s) \/ SendFails(s)
    \/ ReadCurrent(s) \/ ReadFrame(s) \/ ReadFails(s)
    \/ PingFails(s) \/ BeatBehind(s)
    \/ AttachFails(s) \/ AttachReply(s)
    \/ TakeLost(s)

ConnStep(s, c) == BeatFlush(s, c) \/ AttachDetach(s, c) \/ AttachLock(s, c)

Supervision == DialOk \/ DialFails \/ DialGone \/ ResumeSeen \/ GraceExpires

Environment ==
    \/ \E s \in Side : Cancel(s) \/ \E n \in Chunk : Write(s, n)
    \/ \E c \in Conn : Cut(c)

Next ==
    \/ \E s \in Side : SideStep(s) \/ \E c \in Conn : ConnStep(s, c)
    \/ Supervision
    \/ Environment

Spec == Init /\ [][Next]_vars

(***************************************************************************)
(* A side that can do something does something, and the dial, the resume   *)
(* and the grace timer have their outcomes: writes, reads and handshakes   *)
(* end or fail within their deadlines, the heartbeat ticks, writeMu is     *)
(* granted.  Nobody has to write, to close or to cut a WebSocket.  This    *)
(* is weaker than what the program has, a fair scheduler for each          *)
(* goroutine; it suffices because no goroutine can go on for ever without  *)
(* the others' steps.                                                      *)
(***************************************************************************)
Fairness ==
    /\ \A s \in Side : WF_vars(SideStep(s) \/ \E c \in Conn : ConnStep(s, c))
    /\ WF_vars(DialOk \/ DialFails \/ DialGone)
    /\ WF_vars(ResumeSeen \/ GraceExpires)

FairSpec == Spec /\ Fairness

-----------------------------------------------------------------------------
(* Safety.                                                                 *)

(* What writeMu[s] may be: nobody holds it, or a job on some WebSocket. *)
JobType ==
    {Free} \cup
    {job \in [who : Holder \ {"free"}, conn : Conn, phase : Phase, ack : Nat,
              from : Nat, todo : SUBSET Nat] : \A h \in job.todo : job.from < h}

(* Every variable has its type. *)
TypeOK ==
    /\ ws \in [Side -> Conn \cup {NoConn}]
    /\ recvSeq \in [Side -> Nat]
    /\ ackSent \in [Side -> Nat]
    /\ sendSeq \in [Side -> Nat]
    /\ unackedAt \in [Side -> Nat]
    /\ unacked \in [Side -> SUBSET Nat]
    /\ life \in [Side -> {"open", "canceled", "closed"}]
    /\ cause \in [Side -> {"nil", "protocol", "gone", "budget", "grace"}]
    /\ lost \subseteq Side
    /\ writeMu \in [Side -> JobType]
    /\ reading \in [Side -> Conn \cup {NoConn}]
    /\ waiting \subseteq Side
    /\ beat \in [Side -> SUBSET Conn]
    /\ attaching \in [Side -> [Conn -> {"none", "detach", "lock"}]]
    /\ sup \in [Side -> {"idle", "recover", "attach"}]
    /\ attempt \in 0 .. MaxAttempts
    /\ dialed \in Conn
    /\ wire \in [Conn -> [Side -> Frames]]
    /\ dead \in [Conn -> SUBSET (Side \cup {"net"})]
    /\ rcvd \in [Side -> Taken]

(***************************************************************************)
(* Whatever WebSockets were lost, replaced or half attached, a side has    *)
(* been given exactly the bytes its peer wrote, in order: nothing lost in  *)
(* a drop, nothing replayed twice (Read, Write, attach).                   *)
(***************************************************************************)
StreamIntact ==
    \A s \in Side :
        /\ rcvd[s] = [i \in 1 .. recvSeq[s] |-> i]
        /\ recvSeq[s] <= sendSeq[Peer(s)]

(***************************************************************************)
(* Until the conn is closed the replay buffer holds everything the peer    *)
(* has not received, and the peer's position is the start of a payload in  *)
(* it or its end, so that a replay can start there (ackLocked, Write).     *)
(***************************************************************************)
ReplayCovers ==
    \A s \in Side : life[s] # "closed" =>
        /\ unackedAt[s] <= recvSeq[Peer(s)]
        /\ {recvSeq[Peer(s)], sendSeq[s]} \subseteq {unackedAt[s]} \cup unacked[s]

(***************************************************************************)
(* An open conn without WebSocket is being recovered, or a token that will *)
(* wake the supervisor is in the channel: no drop is overlooked, whichever *)
(* of reader, writer, heartbeat and attach saw it (broken, detach,         *)
(* supervise).                                                             *)
(***************************************************************************)
NoLostWakeup ==
    \A s \in Side :
        ws[s] = NoConn /\ life[s] = "open" => s \in lost \/ sup[s] # "idle"

(***************************************************************************)
(* The receive position told in a handshake stays right until the          *)
(* handshake ends, although the reader may still be at work on a frame of  *)
(* the old WebSocket (detach: "While ws is nil the reader discards         *)
(* everything, so recvSeq cannot move").                                   *)
(***************************************************************************)
HelloCurrent ==
    \A s \in Side :
        writeMu[s].phase = "await" => writeMu[s].ack = recvSeq[s]

(***************************************************************************)
(* recvSeq - ackSent, computed on unsigned integers, never wraps around:   *)
(* no ack is ahead of the bytes received, in ackSent, in the hand of a     *)
(* writer or on the wire.                                                  *)
(***************************************************************************)
InFlight(c, s) == {wire[c][s][i] : i \in 1 .. Len(wire[c][s])}

AcksBehind ==
    \A s \in Side :
        /\ ackSent[s] <= recvSeq[s]
        /\ writeMu[s].ack <= recvSeq[s]
        /\ \A c \in Conn : \A f \in InFlight(c, s) : f.ack <= recvSeq[s]

(***************************************************************************)
(* The client, whose supervisor is the only one to attach, never finds the *)
(* server to violate the protocol.                                         *)
(***************************************************************************)
ClientSatisfied == cause["client"] # "protocol"

(***************************************************************************)
(* No WebSocket leaks: one that is neither live nor in the hands of an     *)
(* attach has been closed, and a live one has not (broken, detach, attach, *)
(* Close).                                                                 *)
(***************************************************************************)
Attaching(s, c) ==
    attaching[s][c] # "none" \/ (writeMu[s].phase = "await" /\ writeMu[s].conn = c)

NoLeak ==
    \A s \in Side : \A c \in 1 .. dialed :
        (s \in dead[c]) <=> (ws[s] # c /\ ~Attaching(s, c))

(***************************************************************************)
(* Neither side ever finds its peer to violate the protocol: after a       *)
(* (re)connect "both sides first exchange their ack, so the sender replays *)
(* exactly what the peer is missing" (the comment of ResumableConn).       *)
(***************************************************************************)
NoProtocolViolation == \A s \in Side : cause[s] # "protocol"

-----------------------------------------------------------------------------
(* Liveness.                                                               *)

Open == \A s \in Side : life[s] = "open"

(***************************************************************************)
(* Every byte written is received in the end, through any number of drops, *)
(* unless one of the two conns is given up.                                *)
(***************************************************************************)
DeliveredOrClosed ==
    \A s \in Side : \A n \in 1 .. MaxBytes[s] :
        sendSeq[s] >= n ~> recvSeq[Peer(s)] >= n \/ ~Open

(***************************************************************************)
(* The acks drain the replay buffers, also when the reader skipped one or  *)
(* a drop lost one (resume_conn_test.go: "acks should have drained the     *)
(* replay buffers").                                                       *)
(***************************************************************************)
ReplayDrains == \A s \in Side : unacked[s] # {} ~> unacked[s] = {} \/ ~Open

(***************************************************************************)
(* When one side is closed the other closes too: its redialling or its     *)
(* waiting for a resume ends.                                              *)
(***************************************************************************)
PeerCloses == \A s \in Side : life[s] = "closed" ~> life[Peer(s)] = "closed"

-----------------------------------------------------------------------------
(***************************************************************************)
(* The two conns implement a reliable byte stream in each direction.       *)
(***************************************************************************)
Stream == INSTANCE ByteStream
    WITH sent <- sendSeq, over <- {s \in Side : life[s] = "closed"}

StreamSpec == Stream!Spec

=============================================================================
