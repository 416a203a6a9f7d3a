--------------------- MODULE ResumableConnStream_proofs ---------------------
(***************************************************************************)
(* Theorems about ResumableConn, for every number of WebSockets, bytes and *)
(* redials: IInv is an inductive invariant, and so the stream is intact.   *)
(***************************************************************************)
EXTENDS ResumableConn_proofs

-----------------------------------------------------------------------------
(* Sequences of frames.                                                    *)

LEMMA ChainTail ==
    ASSUME NEW q \in Frames, q # <<>>, NEW x \in Nat, Chain(q, x)
    PROVE  /\ Head(q).lo = x
           /\ Chain(Tail(q), Head(q).hi)
           /\ End(Tail(q), Head(q).hi) = End(q, x)
<1> DEFINE r == Tail(q)
<1>1. /\ q \in Seq(Frame) /\ Head(q) = q[1] /\ Len(q) \in Nat /\ Len(q) > 0
      /\ Len(r) = Len(q) - 1
      /\ \A i \in 1 .. Len(r) : r[i] = q[i + 1]
  BY DEF Frames
<1>2. /\ q[1].lo = x
      /\ \A i \in 1 .. Len(q) - 1 : q[i].hi = q[i + 1].lo
  BY DEF Chain
<1>3. r # <<>> => 1 \in 1 .. Len(r) /\ Len(q) > 1 /\ Len(r) \in 1 .. Len(r)
  BY <1>1 DEF Frames
<1>4. r # <<>> => r[1].lo = q[1].hi
  <2>1. r # <<>> => 1 \in 1 .. Len(q) - 1 /\ r[1] = q[1 + 1]
    BY <1>1, <1>3
  <2> QED
    BY <1>2, <2>1
<1>5. ASSUME NEW i \in 1 .. Len(r) - 1 PROVE r[i].hi = r[i + 1].lo
  <2>1. i \in 1 .. Len(r) /\ i + 1 \in 1 .. Len(r) /\ i + 1 \in 1 .. Len(q) - 1
    BY <1>1
  <2>2. r[i] = q[i + 1] /\ r[i + 1] = q[(i + 1) + 1]
    BY <1>1, <2>1
  <2> QED
    BY <1>2, <2>1, <2>2
<1>6. r # <<>> => r[Len(r)] = q[Len(q)]
  BY <1>1, <1>3
<1>7. r = <<>> => Len(q) = 1
  BY <1>1 DEF Frames
<1> QED
  BY <1>1, <1>2, <1>4, <1>5, <1>6, <1>7 DEF Chain, End

LEMMA ChainAppend ==
    ASSUME NEW q \in Frames, NEW x \in Nat, Chain(q, x),
           NEW f \in Frame, f.lo = End(q, x)
    PROVE  /\ Chain(Append(q, f), x)
           /\ End(Append(q, f), x) = f.hi
<1> DEFINE r == Append(q, f)
<1>1. /\ Len(q) \in Nat /\ Len(r) = Len(q) + 1 /\ r # <<>>
      /\ \A i \in 1 .. Len(q) : r[i] = q[i]
      /\ r[Len(q) + 1] = f
  BY DEF Frames
<1>2. q # <<>> => Len(q) >= 1 /\ q[1].lo = x /\ f.lo = q[Len(q)].hi
  BY <1>1 DEF Chain, End, Frames
<1>3. q = <<>> => Len(q) = 0 /\ f.lo = x
  BY DEF End
<1>4. r[1].lo = x
  BY <1>1, <1>2, <1>3
<1>5. ASSUME NEW i \in 1 .. Len(r) - 1 PROVE r[i].hi = r[i + 1].lo
  <2>1. i \in 1 .. Len(q) /\ r[i] = q[i] /\ q # <<>>
    BY <1>1, <1>3, <1>5
  <2>2. CASE i = Len(q)
    BY <1>1, <1>2, <2>1, <2>2
  <2>3. CASE i # Len(q)
    <3>1. i \in 1 .. Len(q) - 1 /\ r[i + 1] = q[i + 1]
      BY <1>1, <2>1, <2>3
    <3> QED
      BY <2>1, <3>1 DEF Chain
  <2> QED
    BY <2>2, <2>3
<1> QED
  BY <1>1, <1>4, <1>5 DEF Chain, End

LEMMA ChainEmpty == \A x : Chain(<<>>, x) /\ End(<<>>, x) = x
BY DEF Chain, End

LEMMA AppendTail ==
    ASSUME NEW q \in Frames, NEW f \in Frame
    PROVE  /\ Append(q, f) # <<>>
           /\ q # <<>> => Tail(Append(q, f)) = Append(Tail(q), f)
           /\ q # <<>> => Append(q, f)[1] = q[1]
           /\ q = <<>> => Tail(Append(q, f)) = <<>> /\ Append(q, f)[1] = f
BY DEF Frames

LEMMA HeadIsFirst ==
    \A q \in Frames : q # <<>> => Head(q) = q[1] /\ q[1] \in Frame /\ Tail(q) \in Frames
BY DEF Frames

(* The frames of a sequence, as InFlight has them. *)
Members(q) == {q[i] : i \in 1 .. Len(q)}

LEMMA MembersOf ==
    ASSUME NEW q \in Frames
    PROVE  /\ Members(q) \subseteq Frame
           /\ q # <<>> => Head(q) \in Members(q) /\ Members(Tail(q)) \subseteq Members(q)
           /\ \A f \in Frame : Members(Append(q, f)) \subseteq Members(q) \cup {f}
<1>1. Members(q) \subseteq Frame
  BY DEF Frames, Members
<1>2. q # <<>> => Head(q) \in Members(q)
  BY DEF Frames, Members
<1>3. q # <<>> => Members(Tail(q)) \subseteq Members(q)
  BY DEF Frames, Members
<1>4. \A f \in Frame : Members(Append(q, f)) \subseteq Members(q) \cup {f}
  BY DEF Frames, Members
<1> QED
  BY <1>1, <1>2, <1>3, <1>4

LEMMA MembersEmpty == Members(<<>>) = {}
BY DEF Members

LEMMA BytesJoin ==
    ASSUME NEW lo \in Nat, NEW hi \in Nat, lo <= hi
    PROVE  [i \in 1 .. lo |-> i] \o Bytes(lo, hi) = [i \in 1 .. hi |-> i]
<1> DEFINE a == [i \in 1 .. lo |-> i]
           b == [i \in 1 .. (hi - lo) |-> lo + i]
<1>1. a \in Seq(Nat) /\ Len(a) = lo
  OBVIOUS
<1>2. b \in Seq(Nat) /\ Len(b) = hi - lo
  OBVIOUS
<1>3. Len(a \o b) = hi /\ a \o b \in Seq(Nat)
  BY <1>1, <1>2
<1>4. \A i \in 1 .. hi : (a \o b)[i] = i
  BY <1>1, <1>2
<1> QED
  BY <1>3, <1>4 DEF Bytes

-----------------------------------------------------------------------------
(* Acknowledgements.                                                       *)

(***************************************************************************)
(* An ack that is not ahead of what was sent moves the start of the replay *)
(* buffer to the last boundary it covers, and drops nothing beyond it.     *)
(***************************************************************************)
LEMMA AckEffect ==
    ASSUME unackedAt \in [Side -> Nat], unacked \in [Side -> SUBSET Nat],
           sendSeq \in [Side -> Nat],
           NEW s \in Side, NEW ack \in Nat, ack <= sendSeq[s], AckLocked(s, ack)
    PROVE  /\ \A t \in Side : t # s =>
                  unackedAt'[t] = unackedAt[t] /\ unacked'[t] = unacked[t]
           /\ unacked'[s] = {h \in unacked[s] : h > ack}
           /\ unackedAt'[s] \in Confirmed(s, ack)
           /\ \A y \in Confirmed(s, ack) : y <= unackedAt'[s]
<1>1. PICK x \in KeptFrom(s, ack) : unackedAt' = [unackedAt EXCEPT ![s] = x]
  BY DEF AckLocked
<1>2. unacked' = [unacked EXCEPT ![s] = Kept(s, ack)]
  BY DEF AckLocked
<1> QED
  BY <1>1, <1>2 DEF KeptFrom, Kept

LEMMA AckKeepsBoundary ==
    ASSUME unackedAt \in [Side -> Nat], unacked \in [Side -> SUBSET Nat],
           sendSeq \in [Side -> Nat],
           NEW s \in Side, NEW ack \in Nat, ack <= sendSeq[s], AckLocked(s, ack),
           NEW x \in Nat, Boundary(s, x)
    PROVE  Boundary(s, x)'
<1>1. x <= unackedAt[s] \/ x \in unacked[s]
  BY DEF Boundary
<1>2. unackedAt[s] <= unackedAt'[s] /\ unackedAt'[s] \in Nat
  BY AckEffect, AckLockedType DEF Confirmed
<1>3. CASE x <= unackedAt[s]
  BY <1>2, <1>3 DEF Boundary
<1>4. CASE x \in unacked[s] /\ x > ack
  BY <1>4, AckEffect DEF Boundary
<1>5. CASE x \in unacked[s] /\ ~(x > ack)
  <2>1. x \in Confirmed(s, ack)
    BY <1>5 DEF Confirmed, Kept
  <2> QED
    BY <2>1, AckEffect DEF Boundary
<1> QED
  BY <1>1, <1>3, <1>4, <1>5

LEMMA AckKeepsBuffer ==
    ASSUME unackedAt \in [Side -> Nat], unacked \in [Side -> SUBSET Nat],
           sendSeq \in [Side -> Nat],
           NEW s \in Side, NEW ack \in Nat, ack <= sendSeq[s], AckLocked(s, ack),
           unackedAt[s] <= sendSeq[s],
           \A h \in unacked[s] : unackedAt[s] < h /\ h <= sendSeq[s],
           sendSeq[s] \in {unackedAt[s]} \cup unacked[s]
    PROVE  /\ unackedAt'[s] <= sendSeq[s]
           /\ \A h \in unacked'[s] : unackedAt'[s] < h /\ h <= sendSeq[s]
           /\ sendSeq[s] \in {unackedAt'[s]} \cup unacked'[s]
           /\ unackedAt'[s] = unackedAt[s] \/ unackedAt'[s] <= ack
<1>1. unackedAt'[s] = unackedAt[s] \/ (unackedAt'[s] \in unacked[s] /\ unackedAt'[s] <= ack)
  BY AckEffect DEF Confirmed, Kept
<1>2. \A h \in unacked'[s] : unackedAt'[s] < h /\ h <= sendSeq[s]
  BY <1>1, AckEffect
<1>3. sendSeq[s] \in {unackedAt'[s]} \cup unacked'[s]
  <2>1. CASE sendSeq[s] = unackedAt[s]
    <3>1. unacked[s] = {}
      BY <2>1
    <3> QED
      BY <1>1, <2>1, <3>1
  <2>2. CASE sendSeq[s] \in unacked[s] /\ sendSeq[s] > ack
    BY <2>2, AckEffect
  <2>3. CASE sendSeq[s] \in unacked[s] /\ ~(sendSeq[s] > ack)
    <3>1. sendSeq[s] \in Confirmed(s, ack)
      BY <2>3 DEF Confirmed, Kept
    <3>2. sendSeq[s] <= unackedAt'[s]
      BY <3>1, AckEffect
    <3>3. unackedAt'[s] <= sendSeq[s]
      BY <1>1
    <3> QED
      BY <1>1, <3>2, <3>3
  <2> QED
    BY <2>1, <2>2, <2>3
<1> QED
  BY <1>1, <1>2, <1>3

-----------------------------------------------------------------------------
(* The parts of IInv beside the types. *)
Rest ==
    /\ StreamIntact /\ AcksBehind /\ Stages /\ Users /\ Jobs
    /\ Buffers /\ Boundaries /\ Payloads /\ Channels

LEMMA IInvParts == IInv <=> TypeOK /\ Rest
BY DEF IInv, Rest

(* The types, one variable at a time. *)
LEMMA Types ==
    ASSUME TypeOK
    PROVE  /\ ws \in [Side -> Conn \cup {NoConn}]
           /\ recvSeq \in [Side -> Nat] /\ ackSent \in [Side -> Nat]
           /\ sendSeq \in [Side -> Nat]
           /\ unackedAt \in [Side -> Nat] /\ unacked \in [Side -> SUBSET Nat]
           /\ reading \in [Side -> Conn \cup {NoConn}] /\ beat \in [Side -> SUBSET Conn]
           /\ attaching \in [Side -> [Conn -> {"none", "detach", "lock"}]]
           /\ dialed \in Conn
           /\ dead \in [Conn -> SUBSET (Side \cup {"net"})]
           /\ rcvd \in [Side -> Taken]
BY DEF TypeOK

LEMMA WireTypes ==
    ASSUME TypeOK
    PROVE  /\ wire \in [Conn -> [Side -> Frames]]
           /\ \A c \in Conn, s \in Side :
                  wire[c][s] \in Frames /\ InFlight(c, s) = Members(wire[c][s])
BY DEF TypeOK, InFlight, Members

LEMMA HolderTypes ==
    ASSUME TypeOK
    PROVE  /\ writeMu \in [Side -> JobType]
           /\ \A s \in Side : writeMu[s] \in JobType
BY DEF TypeOK

LEMMA FreeFields ==
    /\ Free.who = "free" /\ Free.phase = "snap" /\ Free.ack = 0 /\ Free.todo = {}
    /\ Free.conn = NoConn
BY DEF Free, Job

(* What Users says of one side, a WebSocket at a time. *)
UsersOf(s) ==
    /\ \A c \in Conn : reading[s] = c => WasLive(s, c)
    /\ \A c \in Conn : c \in beat[s] => WasLive(s, c)
    /\ \A c \in Conn : writeMu[s].who # "free" /\ writeMu[s].phase # "await"
                        /\ writeMu[s].conn = c => WasLive(s, c)
    /\ writeMu[s].phase = "await" => /\ writeMu[s].who = "attach"
                                     /\ ws[s] = NoConn
                                     /\ writeMu[s].ack = recvSeq[s]

LEMMA UsersEach == TypeOK => (Users <=> \A s \in Side : UsersOf(s))
<1> SUFFICES ASSUME TypeOK PROVE Users <=> \A s \in Side : UsersOf(s)
  OBVIOUS
<1>1. \A s \in Side : /\ reading[s] \in Conn \cup {NoConn} /\ beat[s] \in SUBSET Conn
                      /\ writeMu[s].who # "free" => writeMu[s].conn \in Conn
  BY Types, HolderTypes, JobFields
<1>2. NoConn \notin Conn
  BY Conns
<1> QED
  BY <1>1, <1>2 DEF Users, UsersOf

LEMMA UsersEachNext == TypeOK' => (Users' <=> \A s \in Side : UsersOf(s)')
<1>1. (TypeOK => (Users <=> \A s \in Side : UsersOf(s)))'
  BY UsersEach, PTL
<1> QED
  BY <1>1

(* The live WebSocket is in no stage of an attach. *)
LEMMA LiveAlone ==
    ASSUME IInv, NEW s \in Side, NEW c \in Conn, ws[s] = c
    PROVE  ~Waits(s, c) /\ attaching[s][c] = "none" /\ s \notin dead[c]
BY Conns DEF IInv, Users, Stages, StageOf, Waits

(* Nothing that an invariant speaks of has changed. *)
LEMMA UntouchedKeeps ==
    ASSUME IInv,
           UNCHANGED <<ws, writeMu, wire, dead, connVars, reading, beat, attaching, dialed>>,
           \A s \in Side : life'[s] # "closed" => life[s] # "closed"
    PROVE  Rest'
<1>1. StreamIntact' /\ AcksBehind' /\ Payloads'
  BY DEF IInv, StreamIntact, AcksBehind, Payloads, InFlight, connVars
<1>2. Stages' /\ Users' /\ Jobs'
  BY DEF IInv, Stages, StageOf, Waits, Users, WasLive, Jobs, connVars
<1>3. Buffers' /\ Boundaries'
  BY DEF IInv, Buffers, Boundaries, Boundary, InFlight, connVars
<1>4. Channels'
  BY DEF IInv, Channels, Channel, ToLive, ToWaiting, HelloTrue, Waits, NextByte, connVars
<1> QED
  BY <1>1, <1>2, <1>3, <1>4 DEF Rest

(***************************************************************************)
(* What a channel depends on: its frames, the receive positions, and where *)
(* both ends stand.                                                        *)
(***************************************************************************)
LEMMA ChannelKept ==
    ASSUME NEW s \in Side, NEW r \in Side, NEW c \in Conn, Channel(s, r, c),
           wire'[c][s] = wire[c][s],
           recvSeq'[r] = recvSeq[r],
           \/ recvSeq'[s] = recvSeq[s]
           \/ wire[c][s] = <<>> \/ s \in dead[c]
           \/ ~Waits(r, c) /\ attaching[r][c] = "none",
           r \notin dead'[c] => r \notin dead[c],
           s \notin dead'[c] => s \notin dead[c],
           r \notin dead'[c] => (ws'[r] = c <=> ws[r] = c),
           ws'[s] = c => ws[s] = c /\ NextByte(s, c)' = NextByte(s, c),
           Waits(s, c)' => Waits(s, c),
           r \notin dead'[c] => (Waits(r, c)' <=> Waits(r, c)),
           attaching'[s][c] = "none" <=> attaching[s][c] = "none",
           attaching'[r][c] = "none" <=> attaching[r][c] = "none"
    PROVE  Channel(s, r, c)'
<1> SUFFICES ASSUME r \notin dead'[c]
             PROVE  /\ ws'[r] = c => ToLive(s, r, c)'
                    /\ ws'[r] # c => ToWaiting(s, r, c)'
                    /\ HelloTrue(s, r, c)'
  BY DEF Channel
<1>1. ASSUME ws'[r] = c PROVE ToLive(s, r, c)'
  <2>1. ToLive(s, r, c)
    BY <1>1 DEF Channel
  <2> QED
    BY <2>1 DEF ToLive
<1>2. ASSUME ws'[r] # c PROVE ToWaiting(s, r, c)'
  <2>1. ToWaiting(s, r, c)
    BY <1>2 DEF Channel
  <2> QED
    BY <2>1 DEF ToWaiting
<1>3. HelloTrue(s, r, c)'
  BY DEF Channel, HelloTrue
<1> QED
  BY <1>1, <1>2, <1>3

(* Side s may have given up its live WebSocket. *)
Dropped(s) ==
    /\ \A t \in Side : t # s => ws'[t] = ws[t]
    /\ ws'[s] \in {ws[s], NoConn}
    /\ \A c \in Conn :
           \/ dead'[c] = dead[c]
           \/ dead'[c] = dead[c] \cup {s} /\ ws[s] = c /\ ws'[s] = NoConn
    /\ \A c \in Conn : ws[s] = c /\ ws'[s] # c => s \in dead'[c]

LEMMA DropIsDropped ==
    ASSUME TypeOK, NEW s \in Side, NEW c, Drop(s, c)
    PROVE  /\ Dropped(s)
           /\ c \in Conn => ws'[s] # c
           /\ c = ws[s] => ws'[s] = NoConn
<1>1. /\ ws \in [Side -> Conn \cup {NoConn}]
      /\ dead \in [Conn -> SUBSET (Side \cup {"net"})]
  BY Types
<1>2. CASE c # NoConn /\ ws[s] = c
  <2>1. ws' = [ws EXCEPT ![s] = NoConn] /\ dead' = [dead EXCEPT ![c] = @ \cup {s}]
    BY <1>2 DEF Drop
  <2> QED
    BY <1>1, <1>2, <2>1, Conns DEF Dropped
<1>3. CASE ~(c # NoConn /\ ws[s] = c)
  <2>1. ws' = ws /\ dead' = dead
    BY <1>3 DEF Drop
  <2> QED
    BY <1>1, <1>3, <2>1, Conns DEF Dropped
<1> QED
  BY <1>2, <1>3

(***************************************************************************)
(* Giving up a WebSocket: whoever used it uses a closed one from now on,   *)
(* and what is on its way to the side that closed it does not matter.      *)
(***************************************************************************)
LEMMA DroppedKeeps ==
    ASSUME IInv, TypeOK', NEW s \in Side, Dropped(s),
           \A c \in Conn, t \in Side :
               \/ wire'[c][t] = wire[c][t]
               \/ /\ t = Peer(s) /\ s \in dead'[c] /\ wire[c][t] # <<>>
                  /\ wire'[c][t] \in {<<>>, Tail(wire[c][t])},
           \/ writeMu' = writeMu
           \/ /\ writeMu' = [writeMu EXCEPT ![s] = Free]
              /\ writeMu[s].phase = "send" /\ ws'[s] # writeMu[s].conn,
           \A t \in Side : reading'[t] \in {reading[t], NoConn},
           \A t \in Side, c \in Conn : attaching'[t][c] = "none" <=> attaching[t][c] = "none",
           \A t \in Side : life'[t] # "closed" => life[t] # "closed" /\ unacked'[t] = unacked[t],
           UNCHANGED <<beat, dialed, recvSeq, ackSent, sendSeq, unackedAt, rcvd>>
    PROVE  Rest'
<1>a. /\ writeMu \in [Side -> JobType] /\ \A t \in Side : writeMu[t] \in JobType
      /\ \A c \in Conn, t \in Side : Members(wire'[c][t]) \subseteq Members(wire[c][t])
  <2>1. TypeOK /\ writeMu \in [Side -> JobType]
    BY HolderTypes DEF IInv
  <2>2. ASSUME NEW c \in Conn, NEW t \in Side
        PROVE  Members(wire'[c][t]) \subseteq Members(wire[c][t])
    <3>1. wire[c][t] \in Frames
      BY <2>1, WireTypes
    <3>2. wire[c][t] # <<>> => Members(Tail(wire[c][t])) \subseteq Members(wire[c][t])
      BY <3>1, MembersOf
    <3> QED
      BY <3>2, MembersEmpty
  <2> QED
    BY <2>1, <2>2
<1>b. /\ \A c \in Conn, t \in Side : InFlight(c, t) = Members(wire[c][t])
      /\ \A c \in Conn, t \in Side : InFlight(c, t)' = Members(wire'[c][t])
  BY DEF InFlight, Members
<1>c. \A t \in Side : writeMu'[t] = writeMu[t] \/ (t = s /\ writeMu'[t] = Free)
  BY <1>a
<1>d. \A t \in Side, c \in Conn : Waits(t, c)' <=> Waits(t, c)
  <2> SUFFICES ASSUME NEW t \in Side, NEW c \in Conn PROVE Waits(t, c)' <=> Waits(t, c)
    OBVIOUS
  <2>1. CASE writeMu'[t] = writeMu[t]
    BY <2>1 DEF Waits
  <2>2. CASE writeMu'[t] # writeMu[t]
    <3>1. writeMu'[t] = Free /\ writeMu[t].phase = "send"
      BY <1>c, <2>2
    <3> QED
      BY <3>1, FreeFields DEF Waits
  <2> QED
    BY <2>1, <2>2
<1>e. \A t \in Side, c \in Conn :
          /\ t \in dead[c] => t \in dead'[c]
          /\ WasLive(t, c) => WasLive(t, c)'
          /\ ws'[t] = c => ws[t] = c
          /\ t \notin dead'[c] => t \notin dead[c] /\ (ws'[t] = c <=> ws[t] = c)
  BY Conns DEF Dropped, WasLive
<1>1. StreamIntact'
  BY DEF IInv, StreamIntact
<1>2. AcksBehind'
  <2> SUFFICES ASSUME NEW t \in Side
               PROVE  /\ ackSent[t] <= recvSeq[t]
                      /\ writeMu'[t].ack <= recvSeq[t]
                      /\ \A c \in Conn : \A f \in InFlight(c, t)' : f.ack <= recvSeq[t]
    BY DEF AcksBehind
  <2>1. /\ ackSent[t] <= recvSeq[t] /\ writeMu[t].ack <= recvSeq[t]
        /\ \A c \in Conn : \A f \in Members(wire[c][t]) : f.ack <= recvSeq[t]
    BY <1>b DEF IInv, AcksBehind
  <2>2. 0 <= recvSeq[t]
    BY Types DEF IInv
  <2>3. writeMu'[t].ack <= recvSeq[t]
    BY <1>c, <2>1, <2>2, FreeFields
  <2> QED
    BY <1>a, <1>b, <2>1, <2>3
<1>3. Payloads'
  <2> SUFFICES ASSUME NEW t \in Side, NEW c \in Conn, NEW f \in Members(wire'[c][t])
               PROVE  f.hi <= sendSeq[t]
    BY <1>b DEF Payloads
  <2>1. f \in InFlight(c, t)
    BY <1>a, <1>b
  <2> QED
    BY <2>1 DEF IInv, Payloads
<1>4. Stages'
  <2> SUFFICES ASSUME NEW t \in Side, NEW c \in Conn PROVE StageOf(t, c)'
    BY DEF Stages
  <2>1. StageOf(t, c)
    BY DEF IInv, Stages
  <2>2. wire[c][t] = <<>> => wire'[c][t] = <<>>
    OBVIOUS
  <2>3. Waits(t, c) => ws[t] = NoConn
    BY DEF IInv, Users, Waits
  <2>4. t \in dead'[c] => t \in dead[c] \/ (ws[t] = c /\ ws'[t] # c)
    BY Conns DEF Dropped
  <2>5. dead[c] = {} /\ ws[s] # c => dead'[c] = {}
    BY DEF Dropped
  <2>6. c > dialed => ws[s] # c
    BY DEF IInv, Stages, StageOf
  <2>7. c # NoConn
    BY Conns
  <2> QED
    BY <1>d, <1>e, <2>1, <2>2, <2>3, <2>4, <2>5, <2>6, <2>7 DEF StageOf
<1>5. Users'
  <2> SUFFICES ASSUME NEW t \in Side PROVE UsersOf(t)'
    BY UsersEachNext
  <2>1. UsersOf(t)
    BY UsersEach DEF IInv
  <2>2. ws[t] = NoConn => ws'[t] = NoConn
    BY DEF Dropped
  <2>3. /\ reading'[t] # NoConn => reading'[t] = reading[t]
        /\ writeMu'[t].who # "free" \/ writeMu'[t].phase = "await" => writeMu'[t] = writeMu[t]
    BY <1>c, FreeFields
  <2> QED
    BY <1>e, <2>1, <2>2, <2>3, Conns DEF UsersOf
<1>6. Jobs'
  BY <1>c, FreeFields DEF IInv, Jobs
<1>7. Buffers'
  BY DEF IInv, Buffers
<1>8. Boundaries'
  <2> SUFFICES ASSUME NEW t \in Side, life'[t] # "closed"
               PROVE  /\ unackedAt[t] <= recvSeq[Peer(t)]
                      /\ Boundary(t, recvSeq[Peer(t)])'
                      /\ \A h \in writeMu'[t].todo : Boundary(t, h)'
                      /\ \A c \in Conn : \A f \in InFlight(c, t)' : Boundary(t, f.hi)'
    BY DEF Boundaries
  <2>1. \A x : Boundary(t, x) => Boundary(t, x)'
    BY DEF Boundary
  <2>2. writeMu'[t].todo \subseteq writeMu[t].todo
    BY <1>c, FreeFields
  <2>3. /\ unackedAt[t] <= recvSeq[Peer(t)]
        /\ Boundary(t, recvSeq[Peer(t)])
        /\ \A h \in writeMu[t].todo : Boundary(t, h)
        /\ \A c \in Conn : \A f \in Members(wire[c][t]) : Boundary(t, f.hi)
    BY <1>b DEF IInv, Boundaries
  <2>4. \A c \in Conn : \A f \in InFlight(c, t)' : Boundary(t, f.hi)'
    BY <1>a, <1>b, <2>1, <2>3
  <2>5. Boundary(t, recvSeq[Peer(t)])'
    BY <2>3 DEF Boundary
  <2> QED
    BY <2>1, <2>2, <2>3, <2>4, <2>5
<1>9. Channels'
  <2> SUFFICES ASSUME NEW t \in Side, NEW c \in Conn PROVE Channel(t, Peer(t), c)'
    BY DEF Channels
  <2>1. Channel(t, Peer(t), c) /\ Peer(t) \in Side
    BY Sides DEF IInv, Channels
  <2>2. CASE wire'[c][t] # wire[c][t]
    <3>1. Peer(t) \in dead'[c]
      BY <2>2, Sides
    <3> QED
      BY <3>1 DEF Channel
  <2>3. CASE wire'[c][t] = wire[c][t]
    <3>1. ws'[t] = c => NextByte(t, c)' = NextByte(t, c)
      <4>1. CASE writeMu'[t] = writeMu[t]
        BY <4>1 DEF NextByte
      <4>2. CASE writeMu'[t] # writeMu[t]
        <5>1. writeMu'[t] = Free /\ ws'[t] # writeMu[t].conn
          BY <1>c, <4>2
        <5> QED
          BY <5>1, FreeFields DEF NextByte
      <4> QED
        BY <4>1, <4>2
    <3> QED
      BY <1>d, <1>e, <2>1, <2>3, <3>1, ChannelKept
  <2> QED
    BY <2>2, <2>3
<1> QED
  BY <1>1, <1>2, <1>3, <1>4, <1>5, <1>6, <1>7, <1>8, <1>9 DEF Rest

-----------------------------------------------------------------------------
(* The network and the closing of a side.                                  *)

LEMMA CutKeeps ==
    ASSUME IInv, TypeOK', NEW c \in Conn, Cut(c)
    PROVE  Rest'
<1>a. /\ UNCHANGED <<ws, writeMu, wire, connVars, reading, beat, attaching, dialed, life>>
      /\ \A t \in Side, d \in Conn : t \in dead'[d] <=> t \in dead[d]
      /\ \A d \in Conn : d > dialed => dead'[d] = dead[d]
  <2>1. /\ dead \in [Conn -> SUBSET (Side \cup {"net"})] /\ dead[c] = {} /\ c <= dialed
        /\ dead' = [dead EXCEPT ![c] = {"net"}] /\ c \in Nat /\ dialed \in Nat
    BY Types, Conns DEF Cut, IInv
  <2>2. UNCHANGED <<ws, writeMu, wire, connVars, reading, beat, attaching, dialed, life>>
    BY DEF Cut, goVars, supVars, endVars
  <2>3. \A d \in Conn : dead'[d] = IF d = c THEN {"net"} ELSE dead[d]
    BY <2>1
  <2> QED
    BY <2>1, <2>2, <2>3, Sides
<1>1. StreamIntact' /\ AcksBehind' /\ Payloads'
  BY <1>a DEF IInv, StreamIntact, AcksBehind, Payloads, InFlight, connVars
<1>2. Stages' /\ Jobs'
  BY <1>a DEF IInv, Stages, StageOf, Waits, Jobs, connVars
<1>3. Users'
  <2>1. \A s \in Side : UsersOf(s)
    BY UsersEach DEF IInv
  <2>2. \A s \in Side : UsersOf(s)'
    BY <1>a, <2>1 DEF UsersOf, WasLive, connVars
  <2> QED
    BY <2>2, UsersEachNext
<1>4. Buffers' /\ Boundaries'
  BY <1>a DEF IInv, Buffers, Boundaries, Boundary, InFlight, connVars
<1>5. Channels'
  <2> SUFFICES ASSUME NEW s \in Side, NEW d \in Conn PROVE Channel(s, Peer(s), d)'
    BY DEF Channels
  <2>1. Channel(s, Peer(s), d) /\ Peer(s) \in Side
    BY Sides DEF IInv, Channels
  <2>2. NextByte(s, d)' = NextByte(s, d) /\ (\A t \in Side : Waits(t, d)' <=> Waits(t, d))
    BY <1>a DEF NextByte, Waits, connVars
  <2> QED
    BY <1>a, <2>1, <2>2, ChannelKept DEF connVars
<1> QED
  BY <1>1, <1>2, <1>3, <1>4, <1>5 DEF Rest

LEMMA CloseFinishKeeps ==
    ASSUME IInv, TypeOK', NEW s \in Side, CloseFinish(s)
    PROVE  Rest'
<1>1. /\ ws \in [Side -> Conn \cup {NoConn}]
      /\ dead \in [Conn -> SUBSET (Side \cup {"net"})]
      /\ life \in [Side -> {"open", "canceled", "closed"}]
      /\ unacked \in [Side -> SUBSET Nat]
  BY DEF IInv, TypeOK
<1>2. Dropped(s)
  <2>1. ws' = [ws EXCEPT ![s] = NoConn]
    BY DEF CloseFinish
  <2>2. \A c \in Conn : dead'[c] = IF c = ws[s] THEN dead[c] \cup {s} ELSE dead[c]
    BY DEF CloseFinish, CloseLive
  <2> QED
    BY <1>1, <2>1, <2>2 DEF Dropped
<1>3. \A t \in Side : life'[t] # "closed" => life[t] # "closed" /\ unacked'[t] = unacked[t]
  BY <1>1 DEF CloseFinish
<1> QED
  BY <1>2, <1>3, DroppedKeeps DEF CloseFinish, goVars, supVars

-----------------------------------------------------------------------------
(* The WebSocket is found broken, or taken away by an attach.              *)

LEMMA SendFailsKeeps ==
    ASSUME IInv, TypeOK', NEW s \in Side, SendFails(s)
    PROVE  Rest'
<1>1. writeMu[s] \in JobType /\ writeMu[s].conn \in Conn
  BY HolderTypes, JobFields DEF IInv, SendFails
<1>2. Dropped(s) /\ ws'[s] # writeMu[s].conn
  BY <1>1, DropIsDropped DEF IInv, SendFails
<1> QED
  BY <1>2, DroppedKeeps DEF SendFails, connVars, supVars, endVars

LEMMA ReadFailsKeeps ==
    ASSUME IInv, TypeOK', NEW s \in Side, ReadFails(s)
    PROVE  Rest'
<1> DEFINE c == reading[s]
<1>1. c \in Conn /\ WasLive(s, c)
  BY Types DEF IInv, ReadFails, Users
<1>2. Dropped(s) /\ ws'[s] # c
  BY <1>1, DropIsDropped DEF IInv, ReadFails
<1>3. s \in dead'[c]
  BY <1>1, <1>2 DEF Dropped, WasLive
<1>4. \A d \in Conn, t \in Side : wire'[d][t] = IF d = c /\ t = Peer(s) THEN <<>>
                                                ELSE wire[d][t]
  BY <1>1, WireTypes, Sides DEF IInv, ReadFails
<1>5. \A t \in Side : reading'[t] \in {reading[t], NoConn}
  BY Types DEF IInv, ReadFails
<1> QED
  BY <1>2, <1>3, <1>4, <1>5, DroppedKeeps DEF ReadFails, connVars, supVars, endVars

LEMMA PingFailsKeeps ==
    ASSUME IInv, TypeOK', NEW s \in Side, PingFails(s)
    PROVE  Rest'
<1>1. Dropped(s)
  BY DropIsDropped DEF IInv, PingFails
<1> QED
  BY <1>1, DroppedKeeps DEF PingFails, connVars, goVars, supVars, endVars

LEMMA AttachDetachKeeps ==
    ASSUME IInv, TypeOK', NEW s \in Side, NEW c \in Conn, AttachDetach(s, c)
    PROVE  Rest'
<1>1. Dropped(s)
  BY DropIsDropped DEF IInv, AttachDetach
<1>2. \A t \in Side, d \in Conn : attaching'[t][d] = "none" <=> attaching[t][d] = "none"
  BY Types DEF IInv, AttachDetach
<1> QED
  BY <1>1, <1>2, DroppedKeeps DEF AttachDetach, connVars, goVars, endVars

-----------------------------------------------------------------------------
(* Those who get hold of the live WebSocket or of writeMu.                 *)

(* The reader or the heartbeat begins to use the live WebSocket. *)
LEMMA LookKeeps ==
    ASSUME IInv, TypeOK', NEW s \in Side, ws[s] # NoConn,
           \A t \in Side : reading'[t] \in {reading[t], ws[t]},
           \A t \in Side : beat'[t] \subseteq beat[t] \cup {ws[t]},
           UNCHANGED <<ws, writeMu, wire, dead, connVars, attaching, dialed, life>>
    PROVE  Rest'
<1>1. StreamIntact' /\ AcksBehind' /\ Payloads'
  BY DEF IInv, StreamIntact, AcksBehind, Payloads, InFlight, connVars
<1>2. Stages' /\ Jobs'
  BY DEF IInv, Stages, StageOf, Waits, Jobs, connVars
<1>3. Users'
  <2>1. \A t \in Side : UsersOf(t)
    BY UsersEach DEF IInv
  <2>2. ASSUME NEW t \in Side PROVE UsersOf(t)'
    <3>1. UsersOf(t) /\ ws'[t] = ws[t] /\ writeMu'[t] = writeMu[t] /\ recvSeq'[t] = recvSeq[t]
      BY <2>1 DEF connVars
    <3>2. \A c \in Conn : WasLive(t, c)' <=> WasLive(t, c)
      BY DEF WasLive
    <3>3. \A c \in Conn : ws[t] = c => WasLive(t, c)
      BY DEF WasLive
    <3> QED
      BY <3>1, <3>2, <3>3 DEF UsersOf
  <2> QED
    BY <2>2, UsersEachNext
<1>4. Buffers' /\ Boundaries'
  BY DEF IInv, Buffers, Boundaries, Boundary, InFlight, connVars
<1>5. Channels'
  BY DEF IInv, Channels, Channel, ToLive, ToWaiting, HelloTrue, Waits, NextByte, connVars
<1> QED
  BY <1>1, <1>2, <1>3, <1>4, <1>5 DEF Rest

LEMMA ReadCurrentKeeps ==
    ASSUME IInv, TypeOK', NEW s \in Side, ReadCurrent(s) PROVE Rest'
<1>1. \A t \in Side : reading'[t] \in {reading[t], ws[t]}
  BY Types DEF IInv, ReadCurrent
<1> QED
  BY <1>1, LookKeeps DEF ReadCurrent, supVars, endVars

LEMMA BeatBehindKeeps ==
    ASSUME IInv, TypeOK', NEW s \in Side, BeatBehind(s) PROVE Rest'
<1>1. \A t \in Side : beat'[t] \subseteq beat[t] \cup {ws[t]}
  BY Types DEF IInv, BeatBehind
<1> QED
  BY <1>1, LookKeeps DEF BeatBehind, supVars, endVars

(* writeMu passes to a job, or its job goes on, with the same next byte. *)
LEMMA HolderKeeps ==
    ASSUME IInv, TypeOK', NEW s \in Side, NEW job \in JobType,
           writeMu' = [writeMu EXCEPT ![s] = job],
           writeMu[s].phase # "await", job.phase # "await",
           job.ack <= recvSeq[s], WasLive(s, job.conn),
           job.from <= sendSeq[s],
           job.todo = {} => job.from = sendSeq[s],
           job.todo # {} => sendSeq[s] \in job.todo,
           \A h \in job.todo : h <= sendSeq[s],
           life[s] # "closed" => \A h \in job.todo : Boundary(s, h),
           \A c \in Conn : NextByte(s, c)' = NextByte(s, c),
           \A t \in Side : beat'[t] \subseteq beat[t],
           UNCHANGED <<ws, wire, dead, connVars, reading, attaching, dialed, life>>
    PROVE  Rest'
<1>a. /\ \A t \in Side : writeMu'[t] = IF t = s THEN job ELSE writeMu[t]
      /\ \A t \in Side, c \in Conn : Waits(t, c)' <=> Waits(t, c)
  BY HolderTypes DEF IInv, Waits
<1>1. StreamIntact' /\ Payloads'
  BY DEF IInv, StreamIntact, Payloads, InFlight, connVars
<1>2. AcksBehind'
  BY <1>a DEF IInv, AcksBehind, InFlight, connVars
<1>3. Stages'
  BY <1>a DEF IInv, Stages, StageOf
<1>4. Users'
  <2>1. \A t \in Side : UsersOf(t)
    BY UsersEach DEF IInv
  <2>2. ASSUME NEW t \in Side PROVE UsersOf(t)'
    <3>1. UsersOf(t) /\ ws'[t] = ws[t] /\ recvSeq'[t] = recvSeq[t]
      BY <2>1 DEF connVars
    <3>2. \A c : WasLive(t, c)' <=> WasLive(t, c)
      BY DEF WasLive
    <3> QED
      BY <1>a, <3>1, <3>2 DEF UsersOf
  <2> QED
    BY <2>2, UsersEachNext
<1>5. Jobs'
  BY <1>a DEF IInv, Jobs, connVars
<1>6. Buffers'
  BY DEF IInv, Buffers, connVars
<1>7. Boundaries'
  <2> SUFFICES ASSUME NEW t \in Side, life[t] # "closed"
               PROVE  /\ unackedAt[t] <= recvSeq[Peer(t)]
                      /\ Boundary(t, recvSeq[Peer(t)])
                      /\ \A h \in writeMu'[t].todo : Boundary(t, h)
                      /\ \A c \in Conn : \A f \in InFlight(c, t) : Boundary(t, f.hi)
    BY DEF Boundaries, Boundary, InFlight, connVars
  <2>1. /\ unackedAt[t] <= recvSeq[Peer(t)]
        /\ Boundary(t, recvSeq[Peer(t)])
        /\ \A h \in writeMu[t].todo : Boundary(t, h)
        /\ \A c \in Conn : \A f \in InFlight(c, t) : Boundary(t, f.hi)
    BY DEF IInv, Boundaries
  <2> QED
    BY <1>a, <2>1
<1>8. Channels'
  <2> SUFFICES ASSUME NEW t \in Side, NEW c \in Conn PROVE Channel(t, Peer(t), c)'
    BY DEF Channels
  <2>1. Channel(t, Peer(t), c) /\ Peer(t) \in Side
    BY Sides DEF IInv, Channels
  <2>2. NextByte(t, c)' = NextByte(t, c)
    BY <1>a DEF NextByte, connVars
  <2> QED
    BY <1>a, <2>1, <2>2, ChannelKept DEF connVars
<1> QED
  BY <1>1, <1>2, <1>3, <1>4, <1>5, <1>6, <1>7, <1>8 DEF Rest

LEMMA SnapAckKeeps ==
    ASSUME IInv, TypeOK', NEW s \in Side, SnapAck(s) PROVE Rest'
<1> DEFINE old == writeMu[s]
           job == [old EXCEPT !.phase = "send", !.ack = recvSeq[s]]
<1>1. /\ old \in JobType /\ old.who # "free" /\ old.phase = "snap"
      /\ recvSeq[s] \in Nat /\ writeMu' = [writeMu EXCEPT ![s] = job]
      /\ writeMu \in [Side -> JobType]
  BY HolderTypes, Types DEF IInv, SnapAck
<1>2. /\ job \in JobType /\ job.who = old.who /\ job.conn = old.conn /\ job.from = old.from
      /\ job.todo = old.todo /\ job.phase = "send" /\ job.ack = recvSeq[s]
  BY <1>1, JobFields DEF JobType, Phase, Free, Job
<1>3. WasLive(s, old.conn)
  BY <1>1 DEF IInv, Users
<1>4. /\ old.from <= sendSeq[s]
      /\ old.todo = {} => old.from = sendSeq[s]
      /\ old.todo # {} => sendSeq[s] \in old.todo
      /\ \A h \in old.todo : h <= sendSeq[s]
  BY <1>1 DEF IInv, Jobs
<1>5. life[s] # "closed" => \A h \in old.todo : Boundary(s, h)
  BY DEF IInv, Boundaries
<1>6. \A c \in Conn : NextByte(s, c)' = NextByte(s, c)
  <2>1. writeMu'[s] = job /\ sendSeq'[s] = sendSeq[s]
    BY <1>1 DEF SnapAck, connVars
  <2> HIDE DEF job
  <2> QED
    BY <1>2, <2>1 DEF NextByte
<1>7. job.ack <= recvSeq[s]
  BY <1>1, <1>2
<1>8. UNCHANGED <<ws, wire, dead, connVars, reading, beat, attaching, dialed, life>>
  BY DEF SnapAck, goVars, supVars, endVars
<1> HIDE DEF job
<1>9. /\ WasLive(s, job.conn) /\ job.from <= sendSeq[s]
      /\ job.todo = {} => job.from = sendSeq[s]
      /\ job.todo # {} => sendSeq[s] \in job.todo
      /\ \A h \in job.todo : h <= sendSeq[s]
      /\ life[s] # "closed" => \A h \in job.todo : Boundary(s, h)
  BY <1>2, <1>3, <1>4, <1>5
<1> QED
  BY <1>1, <1>2, <1>6, <1>7, <1>8, <1>9, HolderKeeps

LEMMA BeatFlushKeeps ==
    ASSUME IInv, TypeOK', NEW s \in Side, NEW c \in Conn, BeatFlush(s, c) PROVE Rest'
<1> DEFINE job == Job("beat", c, "snap", 0, sendSeq[s], {})
<1>1. /\ writeMu[s].who = "free" /\ writeMu[s].phase # "await" /\ recvSeq[s] \in Nat
      /\ sendSeq[s] \in Nat /\ writeMu \in [Side -> JobType]
      /\ writeMu' = [writeMu EXCEPT ![s] = job]
  BY HolderTypes, Types, JobFields DEF IInv, BeatFlush
<1>2. job \in JobType
  BY <1>1, JobTypes DEF Holder, Phase
<1>3. /\ job.who = "beat" /\ job.conn = c /\ job.phase = "snap" /\ job.ack = 0
      /\ job.from = sendSeq[s] /\ job.todo = {}
  BY DEF Job
<1>4. WasLive(s, c)
  BY DEF IInv, Users, BeatFlush
<1>5. \A d \in Conn : NextByte(s, d)' = NextByte(s, d)
  <2>1. writeMu'[s] = job /\ sendSeq'[s] = sendSeq[s]
    BY <1>1 DEF BeatFlush, connVars
  <2> HIDE DEF job
  <2> QED
    BY <1>1, <1>3, <2>1 DEF NextByte
<1>6. \A t \in Side : beat'[t] \subseteq beat[t]
  BY Types DEF IInv, BeatFlush
<1>7. UNCHANGED <<ws, wire, dead, connVars, reading, attaching, dialed, life>>
  BY DEF BeatFlush, supVars, endVars
<1> HIDE DEF job
<1>8. /\ job.ack <= recvSeq[s] /\ job.from <= sendSeq[s] /\ WasLive(s, job.conn)
      /\ \A h \in job.todo : h <= sendSeq[s] /\ Boundary(s, h)
  BY <1>1, <1>3, <1>4
<1> QED
  BY <1>1, <1>2, <1>3, <1>5, <1>6, <1>7, <1>8, HolderKeeps

-----------------------------------------------------------------------------
(* The writer.                                                             *)

LEMMA WriteKeeps ==
    ASSUME IInv, TypeOK', NEW s \in Side, NEW n \in Nat, n > 0, Write(s, n)
    PROVE  Rest'
<1> DEFINE new == sendSeq[s] + n
           job == Job("write", ws[s], "snap", 0, sendSeq[s], {new})
<1>1. /\ sendSeq[s] \in Nat /\ new \in Nat /\ sendSeq[s] < new
      /\ \A t \in Side : sendSeq'[t] = IF t = s THEN new ELSE sendSeq[t]
      /\ \A t \in Side : unacked'[t] = IF t = s THEN unacked[s] \cup {new} ELSE unacked[t]
      /\ \A t \in Side : sendSeq[t] \in Nat /\ sendSeq'[t] \in Nat /\ sendSeq[t] <= sendSeq'[t]
  BY Types DEF IInv, Write
<1>2. /\ UNCHANGED <<ws, wire, dead, recvSeq, ackSent, unackedAt, rcvd, reading, beat>>
      /\ UNCHANGED <<attaching, dialed, life>>
      /\ writeMu[s] = Free /\ life[s] = "open"
  BY HolderTypes, JobFields DEF IInv, Write, supVars, endVars
<1>3. /\ job.who = "write" /\ job.conn = ws[s] /\ job.phase = "snap" /\ job.ack = 0
      /\ job.from = sendSeq[s] /\ job.todo = {new}
  BY DEF Job
<1>4. /\ \A t \in Side : t # s => writeMu'[t] = writeMu[t]
      /\ \/ ws[s] # NoConn /\ writeMu'[s] = job
         \/ ws[s] = NoConn /\ writeMu'[s] = Free
  BY <1>2, HolderTypes DEF IInv, Write
<1> HIDE DEF job, new
<1>5. \A t \in Side, c \in Conn : Waits(t, c)' <=> Waits(t, c)
  BY <1>2, <1>3, <1>4, FreeFields DEF Waits
<1>6. \A t \in Side, x \in Nat : Boundary(t, x) => Boundary(t, x)'
  BY <1>1, <1>2 DEF Boundary
<1>7. \A c \in Conn, t \in Side : /\ InFlight(c, t)' = InFlight(c, t)
                                /\ \A f \in InFlight(c, t) : f \in Frame
  <2>1. \A c \in Conn, t \in Side : InFlight(c, t)' = InFlight(c, t)
    BY <1>2 DEF InFlight
  <2>2. \A c \in Conn, t \in Side : InFlight(c, t) \subseteq Frame
    BY WireTypes, MembersOf DEF IInv
  <2> QED
    BY <2>1, <2>2
<1>11. StreamIntact'
  <2>1. \A t \in Side : recvSeq[t] \in Nat /\ recvSeq[t] <= sendSeq'[Peer(t)]
    <3>1. \A t \in Side : Peer(t) \in Side /\ recvSeq[t] \in Nat
      BY Types, Sides DEF IInv
    <3>2. \A t \in Side : recvSeq[t] <= sendSeq[Peer(t)]
      BY DEF IInv, StreamIntact
    <3> QED
      BY <1>1, <3>1, <3>2
  <2> QED
    BY <1>2, <2>1 DEF IInv, StreamIntact
<1>12. AcksBehind'
  <2>1. \A t \in Side : writeMu'[t].ack <= recvSeq[t]
    <3>1. \A t \in Side : 0 <= recvSeq[t] /\ writeMu[t].ack <= recvSeq[t]
      BY Types DEF IInv, AcksBehind
    <3>2. \A t \in Side : writeMu'[t].ack = 0 \/ writeMu'[t] = writeMu[t]
      BY <1>3, <1>4, FreeFields
    <3> QED
      BY <3>1, <3>2
  <2> QED
    BY <1>2, <1>7, <2>1 DEF IInv, AcksBehind
<1>13. Stages'
  BY <1>2, <1>5 DEF IInv, Stages, StageOf
<1>14. Users'
  <2>1. \A t \in Side : UsersOf(t)
    BY UsersEach DEF IInv
  <2>2. ASSUME NEW t \in Side PROVE UsersOf(t)'
    <3>1. UsersOf(t) /\ \A c : WasLive(t, c)' <=> WasLive(t, c)
      BY <1>2, <2>1 DEF WasLive
    <3>2. \A c : ws[t] = c => WasLive(t, c)
      BY DEF WasLive
    <3> QED
      BY <1>2, <1>3, <1>4, <3>1, <3>2, FreeFields DEF UsersOf
  <2> QED
    BY <2>2, UsersEachNext
<1>15. Jobs'
  BY <1>1, <1>3, <1>4, FreeFields DEF IInv, Jobs
<1>16. Buffers'
  BY <1>1, <1>2, Types DEF IInv, Buffers
<1>17. Boundaries'
  <2> SUFFICES ASSUME NEW t \in Side, life[t] # "closed"
               PROVE  /\ unackedAt[t] <= recvSeq[Peer(t)]
                      /\ Boundary(t, recvSeq[Peer(t)])'
                      /\ \A h \in writeMu'[t].todo : Boundary(t, h)'
                      /\ \A c \in Conn : \A f \in InFlight(c, t) : Boundary(t, f.hi)'
    BY <1>2, <1>7 DEF Boundaries
  <2>1. /\ unackedAt[t] <= recvSeq[Peer(t)]
        /\ Boundary(t, recvSeq[Peer(t)])
        /\ \A h \in writeMu[t].todo : Boundary(t, h)
        /\ \A c \in Conn : \A f \in InFlight(c, t) : Boundary(t, f.hi)
    BY DEF IInv, Boundaries
  <2>2. recvSeq[Peer(t)] \in Nat /\ recvSeq'[Peer(t)] = recvSeq[Peer(t)]
    BY <1>2, Types, Sides DEF IInv
  <2>3. Boundary(t, recvSeq[Peer(t)])'
    BY <1>1, <1>2, <2>1, <2>2 DEF Boundary
  <2>4. \A h \in writeMu'[t].todo : Boundary(t, h)'
    <3>1. \A h : h = new => Boundary(s, h)'
      BY <1>1 DEF Boundary
    <3>2. \A h \in writeMu[t].todo : h \in Nat
      BY HolderTypes, JobFields DEF IInv
    <3> QED
      BY <1>3, <1>4, <1>6, <2>1, <3>1, <3>2, FreeFields
  <2>5. \A c \in Conn : \A f \in InFlight(c, t) : f.hi \in Nat
    BY <1>7 DEF Frame
  <2> QED
    BY <1>6, <2>1, <2>3, <2>4, <2>5
<1>18. Payloads'
  <2>1. \A c \in Conn, t \in Side : \A f \in InFlight(c, t) : f.hi \in Nat
    BY <1>7 DEF Frame
  <2> QED
    BY <1>1, <1>7, <2>1 DEF IInv, Payloads
<1>19. Channels'
  <2> SUFFICES ASSUME NEW t \in Side, NEW c \in Conn PROVE Channel(t, Peer(t), c)'
    BY DEF Channels
  <2>1. Channel(t, Peer(t), c) /\ Peer(t) \in Side
    BY Sides DEF IInv, Channels
  <2>2. ws[t] = c => NextByte(t, c)' = NextByte(t, c)
    BY <1>1, <1>2, <1>3, <1>4, Conns, FreeFields DEF NextByte
  <2> QED
    BY <1>2, <1>5, <2>1, <2>2, ChannelKept
<1> QED
  BY <1>11, <1>12, <1>13, <1>14, <1>15, <1>16, <1>17, <1>18, <1>19 DEF Rest

(* What sending a frame amounts to: f continues what s has sent on c. *)
Sends(s, c, f, job) ==
    /\ ws[s] = c
    /\ writeMu[s].who # "free" /\ writeMu[s].phase = "send"
    /\ f.ack = writeMu[s].ack /\ f.lo = NextByte(s, c)
    /\ f.hi <= sendSeq[s]
    /\ f.hi = sendSeq[s] \/ f.hi \in writeMu[s].todo
    /\ job.phase = "snap" /\ job.ack = 0 /\ job.todo \subseteq writeMu[s].todo
    /\ job.who # "free" => /\ job.conn = c /\ job.from = f.hi
                           /\ sendSeq[s] \in job.todo
    /\ job.who = "free" => f.hi = sendSeq[s]
    /\ Put(s, c, f)
    /\ writeMu' = [writeMu EXCEPT ![s] = job]

LEMMA SendFrameSends ==
    ASSUME IInv, NEW s \in Side, SendFrame(s)
    PROVE  \E c \in Conn, f \in Frame, job \in JobType : Sends(s, c, f, job)
<1> DEFINE old == writeMu[s]
           c == old.conn
<1>1. /\ old \in JobType /\ old.phase = "send" /\ old.who # "free" /\ c \in Conn
      /\ old.ack \in Nat /\ old.from \in Nat /\ old.todo \in SUBSET Nat
      /\ \A h \in old.todo : old.from < h
      /\ old.who \in Holder
  BY HolderTypes, JobFields DEF IInv, SendFrame
<1>2. ws[s] = c /\ s \notin dead[c]
  BY <1>1 DEF IInv, Users, WasLive, SendFrame
<1>3. /\ old.from <= sendSeq[s]
      /\ old.todo = {} => old.from = sendSeq[s]
      /\ old.todo # {} => sendSeq[s] \in old.todo
      /\ \A h \in old.todo : h <= sendSeq[s]
  BY <1>1 DEF IInv, Jobs
<1>4. NextByte(s, c) = old.from
  BY <1>1 DEF NextByte
<1>5. PICK hi \in NextEnd(old) :
          /\ Put(s, c, [ack |-> old.ack, lo |-> old.from, hi |-> hi])
          /\ writeMu' = [writeMu EXCEPT ![s] =
                 IF old.todo \subseteq {hi} THEN Free
                 ELSE Job(old.who, c, "snap", 0, hi, old.todo \ {hi})]
  BY DEF SendFrame
<1>6. /\ hi \in Nat /\ old.from <= hi /\ hi <= sendSeq[s]
      /\ hi = sendSeq[s] \/ hi \in old.todo
      /\ \A g \in old.todo : hi <= g
  BY <1>1, <1>3 DEF NextEnd
<1> DEFINE f == [ack |-> old.ack, lo |-> old.from, hi |-> hi]
           job == IF old.todo \subseteq {hi} THEN Free
                  ELSE Job(old.who, c, "snap", 0, hi, old.todo \ {hi})
<1>7. f \in Frame /\ f.ack = old.ack /\ f.lo = old.from /\ f.hi = hi
  BY <1>1, <1>6 DEF Frame
<1>8. CASE old.todo \subseteq {hi}
  <2>1. hi = sendSeq[s]
    BY <1>3, <1>6, <1>8
  <2>2. job = Free
    BY <1>8
  <2>3. Sends(s, c, f, Free)
    <3> HIDE DEF old, f
    <3> QED
      BY <1>1, <1>2, <1>4, <1>5, <1>6, <1>7, <2>1, <2>2, FreeFields DEF Sends, f, old
  <2> QED
    BY <1>1, <1>7, <2>3, JobTypes
<1>9. CASE ~(old.todo \subseteq {hi})
  <2>1. job = Job(old.who, c, "snap", 0, hi, old.todo \ {hi})
    BY <1>9
  <2>2. /\ \A h \in old.todo \ {hi} : hi < h
        /\ sendSeq[s] \in old.todo \ {hi}
    <3>1. PICK g \in old.todo : g # hi
      BY <1>9
    <3>2. hi < g /\ g <= sendSeq[s] /\ g \in Nat
      BY <1>1, <1>3, <1>6, <3>1
    <3>3. sendSeq[s] # hi /\ sendSeq[s] \in old.todo
      BY <1>1, <1>3, <1>6, <3>1, <3>2
    <3> QED
      BY <1>1, <1>6, <3>3
  <2>3. job \in JobType
    BY <1>1, <1>6, <2>1, <2>2, JobTypes DEF Phase
  <2>4. /\ job.who = old.who /\ job.conn = c /\ job.phase = "snap" /\ job.ack = 0
        /\ job.from = hi /\ job.todo = old.todo \ {hi}
    BY <2>1 DEF Job
  <2>5. Sends(s, c, f, job)
    <3>1. Put(s, c, f) /\ writeMu' = [writeMu EXCEPT ![s] = job]
      BY <1>5
    <3> HIDE DEF f, job
    <3> QED
      BY <1>1, <1>2, <1>4, <1>6, <1>7, <2>2, <2>4, <3>1 DEF Sends
  <2> QED
    BY <1>1, <1>7, <2>3, <2>5
<1> QED
  BY <1>8, <1>9

LEMMA SendFrameKeeps ==
    ASSUME IInv, TypeOK', NEW s \in Side, SendFrame(s) PROVE Rest'
<1>1. PICK c \in Conn, f \in Frame, job \in JobType : Sends(s, c, f, job)
  BY SendFrameSends
<1>2. /\ UNCHANGED <<ws, dead, recvSeq, sendSeq, unackedAt, unacked, rcvd, reading, beat>>
      /\ UNCHANGED <<attaching, dialed, life>>
      /\ \A t \in Side : ackSent'[t] = ackSent[t] \/ (t = s /\ ackSent'[t] = writeMu[s].ack)
  BY Types DEF IInv, SendFrame, goVars, supVars, endVars
<1>3. /\ \A t \in Side : writeMu'[t] = IF t = s THEN job ELSE writeMu[t]
      /\ writeMu[s].conn = c
  <2>1. s \notin dead[writeMu[s].conn] /\ WasLive(s, writeMu[s].conn)
    BY <1>1 DEF IInv, Users, Sends, SendFrame
  <2> QED
    BY <1>1, <2>1, HolderTypes DEF IInv, Sends, WasLive
<1>4. /\ f.ack \in Nat /\ f.lo \in Nat /\ f.hi \in Nat
      /\ \A t \in Side : recvSeq[t] \in Nat /\ sendSeq[t] \in Nat
  BY Types DEF IInv, Frame
<1>5. \A t \in Side, d \in Conn :
          /\ wire[d][t] \in Frames
          /\ InFlight(d, t) = Members(wire[d][t]) /\ InFlight(d, t)' = Members(wire'[d][t])
  BY WireTypes DEF IInv, InFlight, Members
<1>6. \A t \in Side, d \in Conn :
          \/ wire'[d][t] = wire[d][t] /\ ((t = s /\ d = c) => Peer(s) \in dead[c])
          \/ t = s /\ d = c /\ wire'[d][t] = Append(wire[d][t], f)
  <2>1. Put(s, c, f) /\ wire \in [Conn -> [Side -> Frames]]
    BY <1>1, WireTypes DEF Sends, IInv
  <2>2. CASE Peer(s) \in dead[c]
    BY <2>1, <2>2 DEF Put
  <2>3. CASE Peer(s) \notin dead[c]
    BY <2>1, <2>3 DEF Put
  <2> QED
    BY <2>2, <2>3
<1>7. \A t \in Side, d \in Conn : \A g \in InFlight(d, t)' :
          g \in InFlight(d, t) \/ (t = s /\ g = f)
  <2> SUFFICES ASSUME NEW t \in Side, NEW d \in Conn, NEW g \in Members(wire'[d][t])
               PROVE  g \in Members(wire[d][t]) \/ (t = s /\ g = f)
    BY <1>5
  <2>1. CASE wire'[d][t] = wire[d][t]
    BY <2>1
  <2>2. CASE t = s /\ wire'[d][t] = Append(wire[d][t], f)
    <3>1. g \in Members(Append(wire[d][t], f)) /\ wire[d][t] \in Frames
      BY <1>5, <2>2
    <3>2. g \in Members(wire[d][t]) \cup {f}
      BY <3>1, MembersOf
    <3> QED
      BY <2>2, <3>2
  <2> QED
    BY <1>6, <2>1, <2>2
<1>8. \A t \in Side, d \in Conn : Waits(t, d)' <=> Waits(t, d)
  BY <1>1, <1>3 DEF Waits, Sends
<1>11. StreamIntact'
  BY <1>2 DEF IInv, StreamIntact
<1>12. AcksBehind'
  <2> SUFFICES ASSUME NEW t \in Side
               PROVE  /\ ackSent'[t] <= recvSeq[t]
                      /\ writeMu'[t].ack <= recvSeq[t]
                      /\ \A d \in Conn : \A g \in InFlight(d, t)' : g.ack <= recvSeq[t]
    BY <1>2 DEF AcksBehind
  <2>1. /\ ackSent[t] <= recvSeq[t] /\ writeMu[t].ack <= recvSeq[t]
        /\ \A d \in Conn : \A g \in InFlight(d, t) : g.ack <= recvSeq[t]
    BY DEF IInv, AcksBehind
  <2>2. f.ack = writeMu[s].ack /\ job.ack = 0
    BY <1>1 DEF Sends
  <2>3. ackSent'[t] <= recvSeq[t] /\ writeMu'[t].ack <= recvSeq[t]
    BY <1>2, <1>3, <1>4, <2>1, <2>2
  <2> QED
    BY <1>7, <2>1, <2>2, <2>3
<1>13. Stages'
  <2> SUFFICES ASSUME NEW t \in Side, NEW d \in Conn PROVE StageOf(t, d)'
    BY DEF Stages
  <2>1. StageOf(t, d)
    BY DEF IInv, Stages
  <2>2. wire'[d][t] = wire[d][t] \/ ws[t] = d
    BY <1>1, <1>6 DEF Sends
  <2> QED
    BY <1>2, <1>8, <2>1, <2>2 DEF StageOf
<1>14. Users'
  <2>1. \A t \in Side : UsersOf(t)
    BY UsersEach DEF IInv
  <2>2. ASSUME NEW t \in Side PROVE UsersOf(t)'
    <3>1. UsersOf(t) /\ \A d : WasLive(t, d)' <=> WasLive(t, d)
      BY <1>2, <2>1 DEF WasLive
    <3>2. WasLive(s, c)
      BY <1>1 DEF WasLive, Sends
    <3>3. CASE t = s
      BY <1>1, <1>2, <1>3, <3>1, <3>2, <3>3 DEF UsersOf, Sends
    <3>4. CASE t # s
      BY <1>2, <1>3, <3>1, <3>4 DEF UsersOf
    <3> QED
      BY <3>3, <3>4
  <2> QED
    BY <2>2, UsersEachNext
<1>15. Jobs'
  <2> SUFFICES ASSUME NEW t \in Side, writeMu'[t].who # "free", writeMu'[t].phase # "await"
               PROVE  /\ writeMu'[t].from <= sendSeq[t]
                      /\ writeMu'[t].todo = {} => writeMu'[t].from = sendSeq[t]
                      /\ writeMu'[t].todo # {} => sendSeq[t] \in writeMu'[t].todo
                      /\ \A h \in writeMu'[t].todo : h <= sendSeq[t]
    BY <1>2 DEF Jobs
  <2>1. CASE t = s
    <3>1. \A h \in writeMu[s].todo : h <= sendSeq[s]
      BY <1>1 DEF IInv, Jobs, Sends
    <3> QED
      BY <1>1, <1>3, <2>1, <3>1 DEF Sends
  <2>2. CASE t # s
    BY <1>3, <2>2 DEF IInv, Jobs
  <2> QED
    BY <2>1, <2>2
<1>16. Buffers'
  BY <1>2 DEF IInv, Buffers
<1>17. Boundaries'
  <2> SUFFICES ASSUME NEW t \in Side, life[t] # "closed"
               PROVE  /\ unackedAt[t] <= recvSeq[Peer(t)]
                      /\ Boundary(t, recvSeq[Peer(t)])
                      /\ \A h \in writeMu'[t].todo : Boundary(t, h)
                      /\ \A d \in Conn : \A g \in InFlight(d, t)' : Boundary(t, g.hi)
    BY <1>2 DEF Boundaries, Boundary
  <2>1. /\ unackedAt[t] <= recvSeq[Peer(t)]
        /\ Boundary(t, recvSeq[Peer(t)])
        /\ \A h \in writeMu[t].todo : Boundary(t, h)
        /\ \A d \in Conn : \A g \in InFlight(d, t) : Boundary(t, g.hi)
    BY DEF IInv, Boundaries
  <2>2. Boundary(t, sendSeq[t])
    BY Types DEF IInv, Buffers, Boundary
  <2>3. t = s => Boundary(t, f.hi)
    BY <1>1, <2>1, <2>2 DEF Sends
  <2>4. \A h \in writeMu'[t].todo : Boundary(t, h)
    BY <1>1, <1>3, <2>1 DEF Sends
  <2> QED
    BY <1>7, <2>1, <2>3, <2>4
<1>18. Payloads'
  BY <1>1, <1>2, <1>7 DEF IInv, Payloads, Sends
<1>19. Channels'
  <2> SUFFICES ASSUME NEW t \in Side, NEW d \in Conn PROVE Channel(t, Peer(t), d)'
    BY DEF Channels
  <2> DEFINE r == Peer(t)
  <2>1. Channel(t, r, d) /\ r \in Side /\ r # t
    BY Sides DEF IInv, Channels
  <2>2. CASE t = s /\ d = c /\ r \in dead[d]
    BY <1>2, <2>2 DEF Channel
  <2>3. CASE t = s /\ d = c /\ r \notin dead[d]
    <3> DEFINE q == wire[c][s]
    <3>1. q \in Frames /\ wire'[c][s] = Append(q, f)
      BY <1>5, <1>6, <2>3
    <3>2. NextByte(s, c)' = f.hi /\ f.lo = NextByte(s, c) /\ ws[s] = c
      BY <1>1, <1>2, <1>3 DEF NextByte, Sends
    <3>3. StageOf(s, c) /\ StageOf(r, c)
      BY <2>1 DEF IInv, Stages
    <3>4. ~Waits(s, c) /\ attaching[s][c] = "none"
      BY <1>1, <3>2, <3>3 DEF StageOf, Waits, Sends
    <3>5. ASSUME ws[r] = c PROVE ToLive(s, r, c)' /\ ~Waits(r, c) /\ attaching[r][c] = "none"
      <4>1. Chain(q, recvSeq[r]) /\ End(q, recvSeq[r]) = f.lo
        BY <2>1, <2>3, <3>2, <3>5 DEF Channel, ToLive
      <4>2. /\ Chain(Append(q, f), recvSeq[r])
            /\ End(Append(q, f), recvSeq[r]) = f.hi
        BY <1>4, <2>1, <3>1, <4>1, ChainAppend
      <4>3. ToLive(s, r, c)'
        BY <1>2, <1>8, <3>1, <3>2, <3>4, <4>2 DEF ToLive
      <4> QED
        BY <2>1, <3>5, <4>3, LiveAlone
    <3>6. ASSUME ws[r] # c PROVE ToWaiting(s, r, c)' /\ q # <<>>
      <4>1. /\ q # <<>> /\ Chain(Tail(q), recvSeq[r])
            /\ End(Tail(q), recvSeq[r]) = f.lo /\ Waits(r, c)
        BY <2>1, <2>3, <3>2, <3>6 DEF Channel, ToWaiting
      <4>2. Tail(q) \in Frames /\ Tail(Append(q, f)) = Append(Tail(q), f)
        BY <3>1, <4>1, AppendTail, FrameLists
      <4>3. /\ Chain(Append(Tail(q), f), recvSeq[r])
            /\ End(Append(Tail(q), f), recvSeq[r]) = f.hi
        BY <1>4, <2>1, <4>1, <4>2, ChainAppend
      <4>4. attaching[r][c] = "none"
        BY <3>3, <4>1 DEF StageOf
      <4>5. Append(q, f) # <<>>
        BY <3>1, AppendTail
      <4>6. ToWaiting(s, r, c)'
        BY <1>2, <1>8, <2>1, <3>1, <3>2, <3>4, <4>1, <4>2, <4>3, <4>4, <4>5 DEF ToWaiting
      <4> QED
        BY <4>1, <4>6
    <3>7. HelloTrue(s, r, c)'
      <4>1. CASE ws[r] = c
        BY <1>2, <1>8, <2>1, <3>5, <4>1 DEF HelloTrue
      <4>2. CASE ws[r] # c
        <5>1. Append(q, f)[1] = q[1] /\ q # <<>>
          BY <3>1, <3>6, <4>2, AppendTail
        <5>2. HelloTrue(s, r, c)
          BY <2>1, <2>3 DEF Channel
        <5> QED
          BY <1>2, <1>8, <2>1, <3>1, <5>1, <5>2 DEF HelloTrue
      <4> QED
        BY <4>1, <4>2
    <3> QED
      BY <1>2, <2>3, <3>5, <3>6, <3>7 DEF Channel
  <2>4. CASE ~(t = s /\ d = c)
    <3>1. wire'[d][t] = wire[d][t]
      BY <1>6, <2>4
    <3>2. ws[t] = d => t # s
      BY <1>1, <2>4 DEF Sends
    <3>3. ws[t] = d => NextByte(t, d)' = NextByte(t, d)
      BY <1>2, <1>3, <3>2 DEF NextByte
    <3> QED
      BY <1>2, <1>8, <2>1, <3>1, <3>3, ChannelKept
  <2> QED
    BY <2>2, <2>3, <2>4
<1> QED
  BY <1>11, <1>12, <1>13, <1>14, <1>15, <1>16, <1>17, <1>18, <1>19 DEF Rest

-----------------------------------------------------------------------------
(* The handshake.                                                          *)

LEMMA AttachLockKeeps ==
    ASSUME IInv, TypeOK', NEW s \in Side, NEW c \in Conn, AttachLock(s, c) PROVE Rest'
<1>1. PICK f \in Frame : /\ f.ack = recvSeq[s] /\ f.lo = 0 /\ f.hi = 0
                         /\ Put(s, c, f)
  <2> DEFINE f == [ack |-> recvSeq[s], lo |-> 0, hi |-> 0]
  <2>1. f \in Frame /\ Put(s, c, f)
    BY Types DEF IInv, Frame, AttachLock
  <2> QED
    BY <2>1
<1>2. PICK job \in JobType :
          /\ job.who = "attach" /\ job.conn = c /\ job.phase = "await"
          /\ job.ack = recvSeq[s] /\ job.todo = {}
          /\ \A t \in Side : writeMu'[t] = IF t = s THEN job ELSE writeMu[t]
  <2> DEFINE job == Job("attach", c, "await", recvSeq[s], 0, {})
  <2>1. recvSeq[s] \in Nat /\ writeMu \in [Side -> JobType]
    BY Types, HolderTypes DEF IInv
  <2>2. job \in JobType
    BY <2>1, JobTypes DEF Holder, Phase
  <2>3. /\ job.who = "attach" /\ job.conn = c /\ job.phase = "await"
        /\ job.ack = recvSeq[s] /\ job.todo = {}
    BY DEF Job
  <2>4. writeMu' = [writeMu EXCEPT ![s] = job]
    BY DEF AttachLock
  <2> HIDE DEF job
  <2> QED
    BY <2>1, <2>2, <2>3, <2>4
<1>3. /\ UNCHANGED <<recvSeq, ackSent, sendSeq, unackedAt, unacked, rcvd, reading, beat>>
      /\ UNCHANGED <<dialed, life>>
      /\ writeMu[s].who = "free"
      /\ \A t \in Side, d \in Conn : attaching'[t][d] =
             IF t = s /\ d = c THEN "none" ELSE attaching[t][d]
      /\ attaching[s][c] # "none"
  BY Types DEF IInv, AttachLock, connVars, goVars, endVars
<1>4. Dropped(s) /\ ws'[s] = NoConn
  BY DropIsDropped DEF IInv, AttachLock
<1>5. /\ \A d \in Conn : ~Waits(s, d)
      /\ ws[s] # c /\ s \notin dead[c] /\ wire[c][s] = <<>> /\ ~(c > dialed)
  <2>1. StageOf(s, c) /\ writeMu[s].phase = "snap"
    BY <1>3, HolderTypes, JobFields, FreeFields DEF IInv, Stages
  <2> QED
    BY <1>3, <2>1 DEF StageOf, Waits
<1>6. dead'[c] = dead[c] /\ NoConn \notin Conn
  BY <1>4, <1>5, Conns DEF Dropped
<1>7. \A t \in Side, d \in Conn : Waits(t, d)' <=> (IF t = s THEN d = c ELSE Waits(t, d))
  BY <1>2 DEF Waits
<1>8. /\ f.ack \in Nat /\ f.lo \in Nat /\ f.hi \in Nat
      /\ \A t \in Side : recvSeq[t] \in Nat /\ sendSeq[t] \in Nat /\ unackedAt[t] \in Nat
  BY Types DEF IInv, Frame
<1>9. \A t \in Side, d \in Conn :
          /\ wire[d][t] \in Frames
          /\ InFlight(d, t) = Members(wire[d][t]) /\ InFlight(d, t)' = Members(wire'[d][t])
  BY WireTypes DEF IInv, InFlight, Members
<1>10. \A t \in Side, d \in Conn :
          \/ wire'[d][t] = wire[d][t] /\ ((t = s /\ d = c) => Peer(s) \in dead[c])
          \/ t = s /\ d = c /\ wire'[d][t] = Append(wire[d][t], f)
  <2>1. Put(s, c, f) /\ wire \in [Conn -> [Side -> Frames]]
    BY <1>1, WireTypes DEF IInv
  <2>2. CASE Peer(s) \in dead[c]
    BY <2>1, <2>2 DEF Put
  <2>3. CASE Peer(s) \notin dead[c]
    BY <2>1, <2>3 DEF Put
  <2> QED
    BY <2>2, <2>3
<1>11. \A t \in Side, d \in Conn : \A g \in InFlight(d, t)' :
          g \in InFlight(d, t) \/ (t = s /\ g = f)
  <2> SUFFICES ASSUME NEW t \in Side, NEW d \in Conn, NEW g \in Members(wire'[d][t])
               PROVE  g \in Members(wire[d][t]) \/ (t = s /\ g = f)
    BY <1>9
  <2>1. CASE wire'[d][t] = wire[d][t]
    BY <2>1
  <2>2. CASE t = s /\ wire'[d][t] = Append(wire[d][t], f)
    <3>1. g \in Members(Append(wire[d][t], f)) /\ wire[d][t] \in Frames
      BY <1>9, <2>2
    <3>2. g \in Members(wire[d][t]) \cup {f}
      BY <3>1, MembersOf
    <3> QED
      BY <2>2, <3>2
  <2> QED
    BY <1>10, <2>1, <2>2
<1>12. \A t \in Side, d \in Conn :
           /\ t \in dead[d] => t \in dead'[d]
           /\ WasLive(t, d) => WasLive(t, d)'
           /\ ws'[t] = d => ws[t] = d
           /\ t \notin dead'[d] => t \notin dead[d] /\ (ws'[t] = d <=> ws[t] = d)
  BY <1>4, Conns DEF Dropped, WasLive
<1>21. StreamIntact'
  BY <1>3 DEF IInv, StreamIntact
<1>22. AcksBehind'
  <2> SUFFICES ASSUME NEW t \in Side
               PROVE  /\ ackSent[t] <= recvSeq[t]
                      /\ writeMu'[t].ack <= recvSeq[t]
                      /\ \A d \in Conn : \A g \in InFlight(d, t)' : g.ack <= recvSeq[t]
    BY <1>3 DEF AcksBehind
  <2>1. /\ ackSent[t] <= recvSeq[t] /\ writeMu[t].ack <= recvSeq[t]
        /\ \A d \in Conn : \A g \in InFlight(d, t) : g.ack <= recvSeq[t]
    BY DEF IInv, AcksBehind
  <2>2. writeMu'[t].ack <= recvSeq[t]
    BY <1>2, <1>8, <2>1
  <2> QED
    BY <1>1, <1>8, <1>11, <2>1, <2>2
<1>23. Stages'
  <2> SUFFICES ASSUME NEW t \in Side, NEW d \in Conn PROVE StageOf(t, d)'
    BY DEF Stages
  <2>1. StageOf(t, d) /\ StageOf(s, d)
    BY DEF IInv, Stages
  <2>2. wire'[d][t] = wire[d][t] \/ (t = s /\ d = c)
    BY <1>10
  <2>3. t \in dead'[d] => t \in dead[d] \/ (ws[t] = d /\ ws'[t] # d)
    BY <1>4, Conns DEF Dropped
  <2>4. d > dialed => dead'[d] = {}
    BY <1>4, <2>1 DEF Dropped, StageOf
  <2>5. CASE t = s /\ d = c
    BY <1>3, <1>4, <1>5, <1>6, <1>7, <2>5 DEF StageOf
  <2>6. CASE t = s /\ d # c
    BY <1>3, <1>4, <1>5, <1>6, <1>7, <1>12, <2>1, <2>2, <2>3, <2>4, <2>6 DEF StageOf
  <2>7. CASE t # s
    <3>1. /\ attaching'[t][d] = attaching[t][d] /\ ws'[t] = ws[t] /\ dialed' = dialed
          /\ wire'[d][t] = wire[d][t] /\ (Waits(t, d)' <=> Waits(t, d))
      BY <1>3, <1>4, <1>7, <2>2, <2>7 DEF Dropped
    <3>2. t \in dead'[d] <=> t \in dead[d]
      BY <1>12, <2>3, <3>1
    <3> QED
      BY <2>1, <2>4, <3>1, <3>2 DEF StageOf
  <2> QED
    BY <2>5, <2>6, <2>7
<1>24. Users'
  <2>1. \A t \in Side : UsersOf(t)
    BY UsersEach DEF IInv
  <2>2. ASSUME NEW t \in Side PROVE UsersOf(t)'
    <3>1. UsersOf(t) /\ \A d \in Conn : WasLive(t, d) => WasLive(t, d)'
      BY <1>12, <2>1
    <3>2. CASE t = s
      BY <1>2, <1>3, <1>4, <3>1, <3>2 DEF UsersOf
    <3>3. CASE t # s
      BY <1>2, <1>3, <1>4, <3>1, <3>3 DEF UsersOf, Dropped
    <3> QED
      BY <3>2, <3>3
  <2> QED
    BY <2>2, UsersEachNext
<1>25. Jobs'
  BY <1>2, <1>3 DEF IInv, Jobs
<1>26. Buffers'
  BY <1>3 DEF IInv, Buffers
<1>27. Boundaries'
  <2> SUFFICES ASSUME NEW t \in Side, life[t] # "closed"
               PROVE  /\ unackedAt[t] <= recvSeq[Peer(t)]
                      /\ Boundary(t, recvSeq[Peer(t)])
                      /\ \A h \in writeMu'[t].todo : Boundary(t, h)
                      /\ \A d \in Conn : \A g \in InFlight(d, t)' : Boundary(t, g.hi)
    BY <1>3 DEF Boundaries, Boundary
  <2>1. /\ unackedAt[t] <= recvSeq[Peer(t)]
        /\ Boundary(t, recvSeq[Peer(t)])
        /\ \A h \in writeMu[t].todo : Boundary(t, h)
        /\ \A d \in Conn : \A g \in InFlight(d, t) : Boundary(t, g.hi)
    BY DEF IInv, Boundaries
  <2>2. t = s => Boundary(t, f.hi)
    BY <1>1, <1>8 DEF Boundary
  <2> QED
    BY <1>2, <1>11, <2>1, <2>2
<1>28. Payloads'
  <2>1. f.hi <= sendSeq[s]
    BY <1>1, <1>8
  <2> QED
    BY <1>3, <1>11, <2>1 DEF IInv, Payloads
<1>29. Channels'
  <2> SUFFICES ASSUME NEW t \in Side, NEW d \in Conn PROVE Channel(t, Peer(t), d)'
    BY DEF Channels
  <2> DEFINE r == Peer(t)
  <2>1. Channel(t, r, d) /\ r \in Side /\ r # t
    BY Sides DEF IInv, Channels
  <2>2. CASE t = s /\ d = c /\ r \in dead[d]
    BY <1>6, <2>2 DEF Channel
  <2>3. CASE t = s /\ d = c /\ r \notin dead[d]
    <3>1. wire'[c][s] = Append(<<>>, f) /\ <<>> \in Frames
      BY <1>5, <1>10, <2>3, FrameLists
    <3>2. wire'[c][s] # <<>> /\ Tail(wire'[c][s]) = <<>> /\ wire'[c][s][1] = f
      BY <3>1, AppendTail
    <3>3. ws[r] # c
      BY <1>3, <2>1, <2>3 DEF Channel, ToLive
    <3>4. ws'[r] # c /\ ws'[s] # c
      BY <1>4, <1>5, <1>6, <2>1, <2>3, <3>3 DEF Dropped
    <3>5. ToWaiting(s, r, c)'
      BY <3>2, <3>4, ChainEmpty DEF ToWaiting
    <3>6. HelloTrue(s, r, c)'
      BY <1>1, <1>3, <3>2 DEF HelloTrue
    <3> QED
      BY <2>3, <3>4, <3>5, <3>6 DEF Channel
  <2>4. CASE r = s /\ d = c
    <3>1. /\ wire'[c][t] = wire[c][t] /\ ws[s] # c /\ ws'[s] # c /\ ws'[t] = ws[t]
          /\ s \notin dead[c] /\ ~Waits(s, c) /\ attaching[s][c] # "none"
          /\ attaching'[t][c] = attaching[t][c] /\ attaching'[s][c] = "none"
          /\ (Waits(t, c)' <=> Waits(t, c)) /\ recvSeq' = recvSeq /\ dead'[c] = dead[c]
      BY <1>3, <1>4, <1>5, <1>6, <1>7, <1>10, <2>1, <2>4 DEF Dropped
    <3>2. ToWaiting(t, s, c) /\ HelloTrue(t, s, c)
      BY <2>1, <2>4, <3>1 DEF Channel
    <3>3. ToWaiting(t, s, c)'
      BY <3>1, <3>2 DEF ToWaiting
    <3>4. HelloTrue(t, s, c)'
      BY <3>1, <3>2 DEF HelloTrue
    <3> QED
      BY <2>4, <3>1, <3>3, <3>4 DEF Channel
  <2>5. CASE d # c
    <3>1. wire'[d][t] = wire[d][t] /\ \A u \in Side : attaching'[u][d] = attaching[u][d]
      BY <1>3, <1>10, <2>5
    <3>2. \A u \in Side : Waits(u, d)' <=> Waits(u, d)
      BY <1>5, <1>7, <2>5
    <3>3. ws'[t] = d => t # s /\ ws[t] = d
      BY <1>4, <1>6, <1>12
    <3>4. ws'[t] = d => NextByte(t, d)' = NextByte(t, d)
      BY <1>2, <1>3, <3>3 DEF NextByte
    <3> QED
      BY <1>3, <1>12, <2>1, <3>1, <3>2, <3>3, <3>4, ChannelKept
  <2>6. t = s \/ r = s
    BY <2>1 DEF Side, Peer
  <2> QED
    BY <2>2, <2>3, <2>4, <2>5, <2>6
<1> QED
  BY <1>21, <1>22, <1>23, <1>24, <1>25, <1>26, <1>27, <1>28, <1>29 DEF Rest

-----------------------------------------------------------------------------
(* The reader.                                                             *)

(* What reading a frame of the live WebSocket amounts to. *)
Reads(s, c, f) ==
    /\ ws[s] = c /\ wire[c][Peer(s)] # <<>> /\ f = Head(wire[c][Peer(s)])
    /\ f.lo = recvSeq[s]
    /\ \A t \in Side : recvSeq'[t] = IF t = s THEN f.hi ELSE recvSeq[t]
    /\ \A t \in Side : rcvd'[t] = IF t = s THEN rcvd[s] \o Bytes(f.lo, f.hi) ELSE rcvd[t]
    /\ \A d \in Conn, t \in Side : wire'[d][t] =
           IF d = c /\ t = Peer(s) THEN Tail(wire[c][Peer(s)]) ELSE wire[d][t]
    /\ f.ack <= sendSeq[s] /\ AckLocked(s, f.ack)
    /\ \A t \in Side : t # s => writeMu'[t] = writeMu[t]
    /\ \/ writeMu'[s] = writeMu[s]
       \/ /\ writeMu[s].who = "free"
          /\ writeMu'[s] = Job("ack", c, "snap", 0, sendSeq[s], {})

(* An ack on the wire is not ahead of the bytes sent: nobody lies. *)
LEMMA FrameReadFits ==
    ASSUME IInv, NEW s \in Side, NEW c \in Conn, wire[c][Peer(s)] # <<>>
    PROVE  /\ Head(wire[c][Peer(s)]) \in Frame
           /\ Head(wire[c][Peer(s)]) \in InFlight(c, Peer(s))
           /\ Head(wire[c][Peer(s)]).ack <= sendSeq[s]
<1> DEFINE p == Peer(s)
           f == Head(wire[c][p])
<1>1. p \in Side /\ Peer(p) = s
  BY Sides
<1>2. wire[c][p] \in Frames /\ InFlight(c, p) = Members(wire[c][p])
  BY <1>1, WireTypes DEF IInv
<1>3. f \in InFlight(c, p) /\ f \in Frame
  BY <1>2, MembersOf, FrameLists
<1>4. f.ack <= recvSeq[p]
  BY <1>1, <1>3 DEF IInv, AcksBehind
<1>5. recvSeq[p] <= sendSeq[s]
  BY <1>1 DEF IInv, StreamIntact
<1>6. f.ack \in Nat /\ recvSeq[p] \in Nat /\ sendSeq[s] \in Nat
  BY <1>1, <1>3, Types DEF IInv, Frame
<1> HIDE DEF f
<1>7. f.ack <= sendSeq[s]
  BY <1>4, <1>5, <1>6
<1> QED
  BY <1>3, <1>7 DEF f

LEMMA ReadFrameReads ==
    ASSUME IInv, NEW s \in Side, ReadFrame(s), ws[s] = reading[s]
    PROVE  \E c \in Conn, f \in Frame : Reads(s, c, f)
<1>1. PICK c \in Conn : c = reading[s]
  BY Types DEF IInv, ReadFrame
<1> DEFINE p == Peer(s)
<1>2. wire[c][p] # <<>> /\ p \in Side /\ p # s
  BY <1>1, Sides DEF ReadFrame
<1>3. PICK f \in Frame : f = Head(wire[c][p])
  BY <1>2, FrameReadFits
<1>4. f.ack <= sendSeq[s] /\ f.ack \in Nat /\ f.lo \in Nat /\ f.hi \in Nat
      /\ recvSeq[s] \in Nat /\ sendSeq[s] \in Nat
  BY <1>2, <1>3, FrameReadFits, Types DEF IInv, Frame
<1>5. ~(f.ack > sendSeq[s])
  BY <1>4
<1>6. Accept(s, c, f) /\ wire' = [wire EXCEPT ![c][p] = Tail(@)]
  BY <1>1, <1>3, <1>5 DEF ReadFrame, Replaced
<1>7. f.lo = recvSeq[s]
  <2>1. Channel(p, s, c) /\ s \notin dead[c]
    BY <1>1, <1>2, LiveAlone, Sides DEF IInv, Channels
  <2>2. Chain(wire[c][p], recvSeq[s])
    BY <1>1, <2>1 DEF Channel, ToLive
  <2> QED
    BY <1>2, <1>3, <1>4, <2>2, WireTypes, ChainTail DEF IInv
<1>8. recvSeq[s] + (f.hi - f.lo) = f.hi
  BY <1>4, <1>7
<1>9. \A t \in Side : recvSeq'[t] = IF t = s THEN f.hi ELSE recvSeq[t]
  BY <1>6, <1>8, Types DEF IInv, Accept
<1>10. \A t \in Side : rcvd'[t] = IF t = s THEN rcvd[s] \o Bytes(f.lo, f.hi) ELSE rcvd[t]
  BY <1>6, Types DEF IInv, Accept
<1>11. \A d \in Conn, t \in Side : wire'[d][t] =
           IF d = c /\ t = p THEN Tail(wire[c][p]) ELSE wire[d][t]
  BY <1>2, <1>6, WireTypes DEF IInv
<1>12. /\ \A t \in Side : t # s => writeMu'[t] = writeMu[t]
       /\ \/ writeMu'[s] = writeMu[s]
          \/ /\ writeMu[s].who = "free"
             /\ writeMu'[s] = Job("ack", c, "snap", 0, sendSeq[s], {})
  BY <1>6, HolderTypes DEF IInv, Accept, TryAck
<1>13. AckLocked(s, f.ack)
  BY <1>6 DEF Accept
<1> QED
  BY <1>1, <1>2, <1>3, <1>4, <1>7, <1>9, <1>10, <1>11, <1>12, <1>13 DEF Reads

LEMMA AcceptKeeps ==
    ASSUME IInv, TypeOK', NEW s \in Side, NEW c \in Conn, NEW f \in Frame, Reads(s, c, f),
           UNCHANGED <<ws, dead, ackSent, sendSeq, attaching, dialed, reading, beat, life>>
    PROVE  Rest'
<1> DEFINE p == Peer(s)
           q == wire[c][p]
<1>1. /\ p \in Side /\ p # s /\ Peer(p) = s
      /\ \A t \in Side : t = s \/ t = p
      /\ \A t \in Side : Peer(t) = IF t = s THEN p ELSE s
  BY Sides DEF Side, Peer
<1>2. /\ f.ack \in Nat /\ f.lo \in Nat /\ f.hi \in Nat /\ f.lo <= f.hi
      /\ \A t \in Side : recvSeq[t] \in Nat /\ sendSeq[t] \in Nat /\ unackedAt[t] \in Nat
                         /\ ackSent[t] \in Nat
      /\ unackedAt \in [Side -> Nat] /\ unacked \in [Side -> SUBSET Nat]
      /\ sendSeq \in [Side -> Nat]
      /\ \A t \in Side : recvSeq'[t] \in Nat /\ unackedAt'[t] \in Nat
  <2>1. \A t \in Side : recvSeq'[t] \in Nat /\ unackedAt'[t] \in Nat
    BY DEF TypeOK
  <2> QED
    BY <2>1, Types DEF IInv, Frame
<1>3. /\ ws[s] = c /\ q # <<>> /\ q \in Frames /\ f = Head(q) /\ f \in InFlight(c, p)
      /\ f.lo = recvSeq[s]
      /\ \A t \in Side : recvSeq'[t] = IF t = s THEN f.hi ELSE recvSeq[t]
      /\ \A t \in Side : rcvd'[t] = IF t = s THEN rcvd[s] \o Bytes(f.lo, f.hi) ELSE rcvd[t]
      /\ \A d \in Conn, t \in Side :
             wire'[d][t] = IF d = c /\ t = p THEN Tail(q) ELSE wire[d][t]
      /\ f.ack <= sendSeq[s] /\ AckLocked(s, f.ack)
  BY <1>1, FrameReadFits, WireTypes DEF IInv, Reads
<1>4. /\ \A t \in Side : t # s => writeMu'[t] = writeMu[t]
      /\ \/ writeMu'[s] = writeMu[s]
         \/ /\ writeMu[s] = Free /\ writeMu'[s].who = "ack" /\ writeMu'[s].conn = c
            /\ writeMu'[s].phase = "snap" /\ writeMu'[s].ack = 0
            /\ writeMu'[s].from = sendSeq[s] /\ writeMu'[s].todo = {}
  <2>1. writeMu[s].who = "free" => writeMu[s] = Free
    BY HolderTypes, JobFields DEF IInv
  <2> QED
    BY <2>1 DEF Reads, Job
<1>5. \A t \in Side, d \in Conn : Waits(t, d)' <=> Waits(t, d)
  BY <1>4, FreeFields DEF Waits
<1>6. \A t \in Side, d \in Conn : \A g \in InFlight(d, t)' : g \in InFlight(d, t) /\ g \in Frame
  <2> SUFFICES ASSUME NEW t \in Side, NEW d \in Conn, NEW g \in Members(wire'[d][t])
               PROVE  g \in Members(wire[d][t]) /\ g \in Frame
    BY WireTypes DEF IInv, InFlight, Members
  <2>1. wire[d][t] \in Frames
    BY WireTypes DEF IInv
  <2>2. wire[d][t] # <<>> => Members(Tail(wire[d][t])) \subseteq Members(wire[d][t])
    BY <2>1, MembersOf
  <2>3. wire'[d][t] = wire[d][t] \/ (wire[d][t] # <<>> /\ wire'[d][t] = Tail(wire[d][t]))
    BY <1>3
  <2>4. g \in Members(wire[d][t])
    BY <2>2, <2>3
  <2> QED
    BY <2>1, <2>4, MembersOf
<1>7. ~Waits(s, c) /\ attaching[s][c] = "none" /\ s \notin dead[c] /\ NoConn \notin Conn
  BY <1>3, LiveAlone, Conns
<1>8. ToLive(p, s, c)
  BY <1>1, <1>3, <1>7 DEF IInv, Channels, Channel
<1>9. /\ Chain(Tail(q), f.hi) /\ End(Tail(q), f.hi) = End(q, recvSeq[s])
      /\ ~Waits(p, c) /\ attaching[p][c] = "none"
  BY <1>2, <1>3, <1>8, ChainTail DEF ToLive
<1>10. \A d \in Conn : d # c /\ s \notin dead[d] =>
           d > dialed \/ attaching[s][d] # "none"
  <2> SUFFICES ASSUME NEW d \in Conn, d # c, s \notin dead[d]
               PROVE  d > dialed \/ attaching[s][d] # "none"
    OBVIOUS
  <2>1. StageOf(s, d) /\ ~Waits(s, d)
    BY <1>3, <1>7 DEF IInv, Stages, Users, Waits
  <2>2. d \in Nat /\ dialed \in Nat
    BY Types, Conns DEF IInv
  <2> QED
    BY <1>3, <2>1, <2>2 DEF StageOf
<1>11. \A t \in Side : /\ t # s => unackedAt'[t] = unackedAt[t] /\ unacked'[t] = unacked[t]
                      /\ \A x \in Nat : Boundary(t, x) => Boundary(t, x)'
  <2>1. \A t \in Side : t # s => unackedAt'[t] = unackedAt[t] /\ unacked'[t] = unacked[t]
    BY <1>2, <1>3, AckEffect
  <2>2. \A x \in Nat : Boundary(s, x) => Boundary(s, x)'
    BY <1>2, <1>3, AckKeepsBoundary
  <2> QED
    BY <2>1, <2>2 DEF Boundary
<1>21. StreamIntact'
  <2>1. \A t \in Side : /\ rcvd[t] = [i \in 1 .. recvSeq[t] |-> i]
                        /\ recvSeq[t] <= sendSeq[Peer(t)]
    BY DEF IInv, StreamIntact
  <2>2. rcvd'[s] = [i \in 1 .. f.hi |-> i]
    <3>1. rcvd'[s] = rcvd[s] \o Bytes(f.lo, f.hi)
      BY <1>3
    <3>2. rcvd[s] = [i \in 1 .. f.lo |-> i]
      BY <1>3, <2>1
    <3>3. [i \in 1 .. f.lo |-> i] \o Bytes(f.lo, f.hi) = [i \in 1 .. f.hi |-> i]
      BY <1>2, BytesJoin
    <3> QED
      BY <3>1, <3>2, <3>3
  <2>3. f.hi <= sendSeq[p]
    BY <1>1, <1>3 DEF IInv, Payloads
  <2>4. \A t \in Side : rcvd'[t] = [i \in 1 .. recvSeq'[t] |-> i]
    BY <1>3, <2>1, <2>2
  <2>5. \A t \in Side : recvSeq'[t] <= sendSeq[Peer(t)]
    <3>1. recvSeq'[s] = f.hi /\ recvSeq'[p] = recvSeq[p]
      BY <1>1, <1>3
    <3>2. recvSeq'[s] <= sendSeq[Peer(s)] /\ recvSeq'[p] <= sendSeq[Peer(p)]
      BY <1>1, <2>1, <2>3, <3>1
    <3> QED
      BY <1>1, <3>2
  <2> QED
    BY <2>4, <2>5 DEF StreamIntact
<1>22. AcksBehind'
  <2> SUFFICES ASSUME NEW t \in Side
               PROVE  /\ ackSent[t] <= recvSeq'[t]
                      /\ writeMu'[t].ack <= recvSeq'[t]
                      /\ \A d \in Conn : \A g \in InFlight(d, t)' : g.ack <= recvSeq'[t]
    BY DEF AcksBehind
  <2>1. /\ ackSent[t] <= recvSeq[t] /\ writeMu[t].ack <= recvSeq[t]
        /\ \A d \in Conn : \A g \in InFlight(d, t) : g.ack <= recvSeq[t]
    BY DEF IInv, AcksBehind
  <2>2. recvSeq[t] <= recvSeq'[t]
    <3>1. recvSeq'[t] = recvSeq[t] \/ (recvSeq[t] = f.lo /\ recvSeq'[t] = f.hi)
      BY <1>3
    <3> QED
      BY <1>2, <3>1
  <2>3. writeMu[t].ack \in Nat
    BY HolderTypes, JobFields DEF IInv
  <2>4. writeMu'[t].ack <= recvSeq'[t]
    <3>1. writeMu'[t] = writeMu[t] \/ writeMu'[t].ack = 0
      BY <1>4
    <3> QED
      BY <1>2, <2>1, <2>2, <2>3, <3>1
  <2>5. \A d \in Conn : \A g \in InFlight(d, t)' : g.ack <= recvSeq'[t]
    <3> SUFFICES ASSUME NEW d \in Conn, NEW g \in InFlight(d, t)' PROVE g.ack <= recvSeq'[t]
      OBVIOUS
    <3>1. g.ack <= recvSeq[t] /\ g.ack \in Nat
      BY <1>6, <2>1 DEF Frame
    <3> QED
      BY <1>2, <2>2, <3>1
  <2>6. ackSent[t] <= recvSeq'[t]
    BY <1>2, <2>1, <2>2
  <2> QED
    BY <2>4, <2>5, <2>6
<1>23. Stages'
  <2> SUFFICES ASSUME NEW t \in Side, NEW d \in Conn PROVE StageOf(t, d)'
    BY DEF Stages
  <2>1. StageOf(t, d)
    BY DEF IInv, Stages
  <2>2. wire[d][t] = <<>> => wire'[d][t] = wire[d][t]
    BY <1>3
  <2> QED
    BY <1>5, <2>1, <2>2 DEF StageOf
<1>24. Users'
  <2>1. \A t \in Side : UsersOf(t)
    BY UsersEach DEF IInv
  <2>2. ASSUME NEW t \in Side PROVE UsersOf(t)'
    <3>1. UsersOf(t) /\ \A d \in Conn : WasLive(t, d)' <=> WasLive(t, d)
      BY <2>1 DEF WasLive
    <3>2. WasLive(s, c)
      BY <1>3 DEF WasLive
    <3>3. CASE t = s
      BY <1>3, <1>4, <1>7, <3>1, <3>2, <3>3, FreeFields DEF UsersOf
    <3>4. CASE t # s
      BY <1>3, <1>4, <3>1, <3>4 DEF UsersOf
    <3> QED
      BY <3>3, <3>4
  <2> QED
    BY <2>2, UsersEachNext
<1>25. Jobs'
  BY <1>2, <1>4 DEF IInv, Jobs
<1>26. Buffers'
  <2> SUFFICES ASSUME NEW t \in Side, life[t] # "closed"
               PROVE  /\ unackedAt'[t] <= sendSeq[t]
                      /\ \A h \in unacked'[t] : unackedAt'[t] < h /\ h <= sendSeq[t]
                      /\ sendSeq[t] \in {unackedAt'[t]} \cup unacked'[t]
    BY DEF Buffers
  <2>1. /\ unackedAt[t] <= sendSeq[t]
        /\ \A h \in unacked[t] : unackedAt[t] < h /\ h <= sendSeq[t]
        /\ sendSeq[t] \in {unackedAt[t]} \cup unacked[t]
    BY DEF IInv, Buffers
  <2>2. CASE t = s
    BY <1>2, <1>3, <2>1, <2>2, AckKeepsBuffer
  <2>3. CASE t # s
    BY <1>11, <2>1, <2>3
  <2> QED
    BY <2>2, <2>3
<1>27. Boundaries'
  <2> SUFFICES ASSUME NEW t \in Side, life[t] # "closed"
               PROVE  /\ unackedAt'[t] <= recvSeq'[Peer(t)]
                      /\ Boundary(t, recvSeq[Peer(t)])'
                      /\ \A h \in writeMu'[t].todo : Boundary(t, h)'
                      /\ \A d \in Conn : \A g \in InFlight(d, t)' : Boundary(t, g.hi)'
    BY DEF Boundaries
  <2>1. /\ unackedAt[t] <= recvSeq[Peer(t)]
        /\ Boundary(t, recvSeq[Peer(t)])
        /\ \A h \in writeMu[t].todo : Boundary(t, h)
        /\ \A d \in Conn : \A g \in InFlight(d, t) : Boundary(t, g.hi)
    BY DEF IInv, Boundaries
  <2>2. \A h \in writeMu'[t].todo : Boundary(t, h)'
    <3>1. \A h \in writeMu[t].todo : h \in Nat
      BY HolderTypes, JobFields DEF IInv
    <3>2. \A h \in writeMu'[t].todo : h \in writeMu[t].todo
      BY <1>4
    <3> QED
      BY <1>11, <2>1, <3>1, <3>2
  <2>3. \A d \in Conn : \A g \in InFlight(d, t)' : Boundary(t, g.hi)'
    <3>1. \A d \in Conn : \A g \in InFlight(d, t)' : g.hi \in Nat /\ Boundary(t, g.hi)
      BY <1>6, <2>1 DEF Frame
    <3> QED
      BY <1>11, <3>1
  <2>4. CASE t = s
    <3>1. recvSeq'[p] = recvSeq[p] /\ Peer(t) = p /\ recvSeq[p] \in Nat
      BY <1>1, <1>2, <1>3, <2>4
    <3>2. f.ack <= recvSeq[p]
      BY <1>1, <1>3 DEF IInv, AcksBehind
    <3>3. unackedAt'[s] = unackedAt[s] \/ unackedAt'[s] <= f.ack
      BY <1>2, <1>3, <2>4, AckKeepsBuffer DEF IInv, Buffers
    <3>4. unackedAt'[s] <= recvSeq[p]
      BY <1>2, <2>1, <2>4, <3>1, <3>2, <3>3
    <3>5. Boundary(t, recvSeq[p])'
      <4>1. \A x : x = recvSeq[p] => Boundary(t, x)'
        BY <1>11, <2>1, <3>1
      <4> QED
        BY <3>1, <4>1 DEF Boundary
    <3> QED
      BY <2>2, <2>3, <2>4, <3>1, <3>4, <3>5
  <2>5. CASE t = p
    <3>1. Peer(t) = s /\ recvSeq'[s] = f.hi
      BY <1>1, <1>3, <2>5
    <3>2. unackedAt'[t] <= f.hi
      BY <1>1, <1>2, <1>3, <1>11, <2>1, <2>5
    <3>3. Boundary(t, f.hi) /\ f.hi \in Nat
      BY <1>2, <1>3, <2>1, <2>5
    <3>4. Boundary(t, f.hi)'
      BY <1>11, <3>3
    <3>5. Boundary(t, recvSeq[s])'
      BY <3>1, <3>4 DEF Boundary
    <3> QED
      BY <2>2, <2>3, <3>1, <3>2, <3>5
  <2> QED
    BY <1>1, <2>4, <2>5
<1>28. Payloads'
  BY <1>6 DEF IInv, Payloads
<1>29. Channels'
  <2> SUFFICES ASSUME NEW t \in Side, NEW d \in Conn PROVE Channel(t, Peer(t), d)'
    BY DEF Channels
  <2>1. Channel(t, Peer(t), d) /\ StageOf(t, d)
    BY DEF IInv, Channels, Stages
  <2>2. ws[t] = d => NextByte(t, d)' = NextByte(t, d)
    BY <1>4, FreeFields DEF NextByte
  <2>3. CASE t = p /\ d = c
    <3>1. recvSeq'[s] = f.hi /\ recvSeq'[p] = recvSeq[p] /\ wire'[c][p] = Tail(q)
      BY <1>1, <1>3
    <3>2. ws[p] = c => End(Tail(q), f.hi) = NextByte(p, c)'
      BY <1>8, <1>9, <2>2, <2>3 DEF ToLive
    <3>3. ToLive(p, s, c)'
      BY <1>5, <1>9, <2>3, <3>1, <3>2 DEF ToLive
    <3>4. HelloTrue(p, s, c)'
      BY <1>5, <1>7 DEF HelloTrue
    <3> QED
      BY <1>1, <1>3, <2>3, <3>3, <3>4 DEF Channel
  <2>4. CASE t = p /\ d # c
    <3>1. recvSeq'[p] = recvSeq[p] /\ wire'[d][p] = wire[d][p] /\ ws'[s] # d
      BY <1>1, <1>3, <2>4
    <3>2. ASSUME s \notin dead[d] PROVE ToWaiting(p, s, d)' /\ HelloTrue(p, s, d)'
      <4>1. ToWaiting(p, s, d) /\ HelloTrue(p, s, d)
        BY <1>1, <1>3, <2>1, <2>4, <3>1, <3>2 DEF Channel
      <4>2. CASE d > dialed
        <5>1. wire[d][p] = <<>> /\ ws[p] # d /\ ~Waits(p, d)
          BY <2>1, <2>4, <4>2 DEF StageOf
        <5> QED
          BY <1>5, <2>4, <3>1, <5>1 DEF ToWaiting, HelloTrue
      <4>3. CASE attaching[s][d] # "none"
        <5>1. StageOf(s, d)
          BY DEF IInv, Stages
        <5>2. wire[d][p] # <<>> => Tail(wire[d][p]) = <<>>
          BY <4>1, <4>3 DEF ToWaiting
        <5>3. ws[p] # d /\ (Waits(p, d) => wire[d][p] # <<>>)
          BY <4>1, <4>3, <5>1 DEF ToWaiting, StageOf
        <5>4. ToWaiting(p, s, d)'
          BY <1>5, <2>4, <3>1, <5>2, <5>3, ChainEmpty DEF ToWaiting
        <5>5. HelloTrue(p, s, d)'
          BY <1>1, <1>5, <2>4, <3>1, <4>1 DEF HelloTrue
        <5> QED
          BY <5>4, <5>5
      <4> QED
        BY <1>10, <2>4, <3>2, <4>2, <4>3
    <3> QED
      BY <1>1, <2>4, <3>1, <3>2 DEF Channel
  <2>5. CASE t = s
    <3>1. recvSeq'[p] = recvSeq[p] /\ wire'[d][s] = wire[d][s] /\ Peer(t) = p
      BY <1>1, <1>3, <2>5
    <3>2. \/ wire[d][s] = <<>> \/ s \in dead[d]
          \/ ~Waits(p, d) /\ attaching[p][d] = "none"
      <4>1. CASE d = c
        BY <1>9, <4>1
      <4>2. CASE d # c
        BY <1>10, <2>1, <2>5, <4>2 DEF StageOf
      <4> QED
        BY <4>1, <4>2
    <3> QED
      BY <1>1, <1>5, <2>1, <2>2, <2>5, <3>1, <3>2, ChannelKept
  <2> QED
    BY <1>1, <2>3, <2>4, <2>5
<1> QED
  BY <1>21, <1>22, <1>23, <1>24, <1>25, <1>26, <1>27, <1>28, <1>29 DEF Rest

LEMMA ReadFrameKeeps ==
    ASSUME IInv, TypeOK', NEW s \in Side, ReadFrame(s) PROVE Rest'
<1> DEFINE p == Peer(s)
<1>1. CASE ws[s] # reading[s]
  <2>1. reading[s] \in Conn /\ s \in dead[reading[s]]
    BY <1>1, Types DEF IInv, ReadFrame, Users, WasLive
  <2>2. /\ wire' = [wire EXCEPT ![reading[s]][p] = Tail(@)]
        /\ wire[reading[s]][p] # <<>>
        /\ reading' = [reading EXCEPT ![s] = NoConn]
        /\ UNCHANGED <<ws, dead, writeMu, attaching, life, unacked, beat, dialed,
                       recvSeq, ackSent, sendSeq, unackedAt, rcvd>>
    BY <1>1 DEF ReadFrame, Replaced, Accept, supVars, endVars
  <2>3. Dropped(s)
    BY <2>2 DEF Dropped
  <2>4. \A d \in Conn, t \in Side :
            wire'[d][t] = IF d = reading[s] /\ t = p THEN Tail(wire[d][t]) ELSE wire[d][t]
    BY <2>1, <2>2, Sides, WireTypes DEF IInv
  <2>5. \A t \in Side : reading'[t] \in {reading[t], NoConn}
    BY <2>2, Types DEF IInv
  <2> QED
    BY <2>1, <2>2, <2>3, <2>4, <2>5, DroppedKeeps
<1>2. CASE ws[s] = reading[s]
  <2>1. PICK c \in Conn, f \in Frame : Reads(s, c, f)
    BY <1>2, ReadFrameReads
  <2>2. /\ UNCHANGED <<ws, dead, ackSent, sendSeq, attaching, dialed, reading, beat, life>>
    <3>1. ~(Head(wire[reading[s]][p]).ack > sendSeq[s]) /\ ~Replaced(s, reading[s])
      <4>1. reading[s] = c /\ wire[c][p] # <<>> /\ f = Head(wire[c][p]) /\ f.ack <= sendSeq[s]
        BY <1>2, <2>1 DEF Reads
      <4>2. f.ack \in Nat /\ sendSeq[s] \in Nat
        BY Types DEF IInv, Frame
      <4> QED
        BY <1>2, <4>1, <4>2 DEF Replaced
    <3> QED
      BY <3>1 DEF ReadFrame, Accept, supVars, endVars
  <2> QED
    BY <2>1, <2>2, AcceptKeeps
<1> QED
  BY <1>1, <1>2

-----------------------------------------------------------------------------
(* The end of the handshake.                                               *)

(* The replay buffers have at most lost what the peers have received. *)
BuffersKept ==
    /\ Buffers'
    /\ \A t \in Side, x \in Nat : Boundary(t, x) => Boundary(t, x)'
    /\ \A t \in Side : life'[t] # "closed" => unackedAt'[t] <= recvSeq[Peer(t)]

LEMMA AckLockedBuffers ==
    ASSUME IInv, TypeOK', NEW s \in Side, NEW ack \in Nat,
           ack <= sendSeq[s], ack <= recvSeq[Peer(s)], AckLocked(s, ack),
           sendSeq' = sendSeq,
           \A t \in Side : life'[t] # "closed" => life[t] # "closed"
    PROVE  BuffersKept
<1>1. /\ unackedAt \in [Side -> Nat] /\ unacked \in [Side -> SUBSET Nat]
      /\ sendSeq \in [Side -> Nat]
      /\ \A t \in Side : recvSeq[t] \in Nat /\ unackedAt[t] \in Nat /\ unackedAt'[t] \in Nat
  <2>1. \A t \in Side : unackedAt'[t] \in Nat
    BY DEF TypeOK
  <2> QED
    BY <2>1, Types DEF IInv
<1>2. \A t \in Side : t # s => unackedAt'[t] = unackedAt[t] /\ unacked'[t] = unacked[t]
  BY <1>1, AckEffect
<1>3. Buffers'
  <2> SUFFICES ASSUME NEW t \in Side, life[t] # "closed"
               PROVE  /\ unackedAt'[t] <= sendSeq[t]
                      /\ \A h \in unacked'[t] : unackedAt'[t] < h /\ h <= sendSeq[t]
                      /\ sendSeq[t] \in {unackedAt'[t]} \cup unacked'[t]
    BY DEF Buffers
  <2>1. /\ unackedAt[t] <= sendSeq[t]
        /\ \A h \in unacked[t] : unackedAt[t] < h /\ h <= sendSeq[t]
        /\ sendSeq[t] \in {unackedAt[t]} \cup unacked[t]
    BY DEF IInv, Buffers
  <2>2. CASE t = s
    BY <1>1, <2>1, <2>2, AckKeepsBuffer
  <2>3. CASE t # s
    BY <1>2, <2>1, <2>3
  <2> QED
    BY <2>2, <2>3
<1>4. \A t \in Side, x \in Nat : Boundary(t, x) => Boundary(t, x)'
  <2>1. \A x \in Nat : Boundary(s, x) => Boundary(s, x)'
    BY <1>1, AckKeepsBoundary
  <2> QED
    BY <1>2, <2>1 DEF Boundary
<1>5. \A t \in Side : life'[t] # "closed" => unackedAt'[t] <= recvSeq[Peer(t)]
  <2> SUFFICES ASSUME NEW t \in Side, life[t] # "closed"
               PROVE  unackedAt'[t] <= recvSeq[Peer(t)]
    OBVIOUS
  <2>1. unackedAt[t] <= recvSeq[Peer(t)]
    BY DEF IInv, Boundaries
  <2>2. CASE t = s
    <3>1. unackedAt'[s] = unackedAt[s] \/ unackedAt'[s] <= ack
      BY <1>1, <2>2, AckKeepsBuffer DEF IInv, Buffers
    <3> QED
      BY <1>1, <2>1, <2>2, <3>1, Sides
  <2>3. CASE t # s
    BY <1>2, <2>1, <2>3
  <2> QED
    BY <2>2, <2>3
<1> QED
  BY <1>3, <1>4, <1>5 DEF BuffersKept

LEMMA SameBuffers ==
    ASSUME IInv, UNCHANGED <<sendSeq, unackedAt, unacked>>,
           \A t \in Side : life'[t] # "closed" => life[t] # "closed"
    PROVE  BuffersKept
BY DEF IInv, Buffers, Boundaries, BuffersKept, Boundary

(* Side s gives up the WebSocket c on which it waits for the peer's hello. *)
LEMMA GivingUpKeeps ==
    ASSUME IInv, TypeOK', NEW s \in Side, NEW c \in Conn, Waits(s, c),
           \A d \in Conn : dead'[d] = IF d = c THEN dead[d] \cup {s} ELSE dead[d],
           \A t \in Side : writeMu'[t] = IF t = s THEN Free ELSE writeMu[t],
           \A d \in Conn, t \in Side :
               \/ wire'[d][t] = wire[d][t]
               \/ /\ d = c /\ t = Peer(s) /\ wire[d][t] # <<>>
                  /\ wire'[d][t] \in {<<>>, Tail(wire[d][t])},
           BuffersKept,
           UNCHANGED <<ws, recvSeq, ackSent, sendSeq, rcvd, reading, beat,
                       attaching, dialed>>,
           \A t \in Side : life'[t] # "closed" => life[t] # "closed"
    PROVE  Rest'
<1>1. \A t \in Side, d \in Conn : \A g \in InFlight(d, t)' : g \in InFlight(d, t) /\ g \in Frame
  <2> SUFFICES ASSUME NEW t \in Side, NEW d \in Conn, NEW g \in Members(wire'[d][t])
               PROVE  g \in Members(wire[d][t]) /\ g \in Frame
    BY WireTypes DEF IInv, InFlight, Members
  <2>1. wire[d][t] \in Frames
    BY WireTypes DEF IInv
  <2>2. wire[d][t] # <<>> => Members(Tail(wire[d][t])) \subseteq Members(wire[d][t])
    BY <2>1, MembersOf
  <2>3. g \in Members(wire[d][t])
    BY <2>2, MembersEmpty
  <2> QED
    BY <2>1, <2>3, MembersOf
<1>2. \A t \in Side, d \in Conn : Waits(t, d)' <=> (t # s /\ Waits(t, d))
  BY FreeFields DEF Waits
<1>3. /\ ws[s] = NoConn /\ NoConn \notin Conn
      /\ \A d \in Conn : Waits(s, d) => d = c
      /\ writeMu[s].conn = c
  BY Conns DEF IInv, Users, Waits
<1>4. \A t \in Side, d \in Conn : t \in dead'[d] <=> t \in dead[d] \/ (t = s /\ d = c)
  <2> SUFFICES ASSUME NEW t \in Side, NEW d \in Conn
               PROVE  t \in dead'[d] <=> t \in dead[d] \/ (t = s /\ d = c)
    OBVIOUS
  <2>1. dead'[d] = IF d = c THEN dead[d] \cup {s} ELSE dead[d]
    OBVIOUS
  <2> QED
    BY <2>1
<1>11. StreamIntact'
  BY DEF IInv, StreamIntact
<1>12. AcksBehind'
  <2> SUFFICES ASSUME NEW t \in Side
               PROVE  /\ ackSent[t] <= recvSeq[t]
                      /\ writeMu'[t].ack <= recvSeq[t]
                      /\ \A d \in Conn : \A g \in InFlight(d, t)' : g.ack <= recvSeq[t]
    BY DEF AcksBehind
  <2>1. /\ ackSent[t] <= recvSeq[t] /\ writeMu[t].ack <= recvSeq[t]
        /\ \A d \in Conn : \A g \in InFlight(d, t) : g.ack <= recvSeq[t]
    BY DEF IInv, AcksBehind
  <2>2. 0 <= recvSeq[t]
    BY Types DEF IInv
  <2> QED
    BY <1>1, <2>1, <2>2, FreeFields
<1>13. Stages'
  <2> SUFFICES ASSUME NEW t \in Side, NEW d \in Conn PROVE StageOf(t, d)'
    BY DEF Stages
  <2>1. StageOf(t, d) /\ StageOf(s, c)
    BY DEF IInv, Stages
  <2>2. wire[d][t] = <<>> => wire'[d][t] = <<>>
    OBVIOUS
  <2>3. attaching[s][c] = "none" /\ ~(c > dialed)
    BY <2>1 DEF StageOf
  <2>4. d > dialed => dead'[d] = dead[d]
    BY <2>3
  <2>5. CASE t = s
    BY <1>2, <1>3, <1>4, <2>1, <2>2, <2>3, <2>4, <2>5 DEF StageOf
  <2>6. CASE t # s
    <3>1. (Waits(t, d)' <=> Waits(t, d)) /\ (t \in dead'[d] <=> t \in dead[d])
      BY <1>2, <1>4, <2>6
    <3> QED
      BY <2>1, <2>2, <2>4, <3>1 DEF StageOf
  <2> QED
    BY <2>5, <2>6
<1>14. Users'
  <2>1. \A t \in Side : UsersOf(t)
    BY UsersEach DEF IInv
  <2>2. ASSUME NEW t \in Side PROVE UsersOf(t)'
    <3>1. UsersOf(t) /\ \A d \in Conn : WasLive(t, d) => WasLive(t, d)'
      BY <1>4, <2>1 DEF WasLive
    <3> QED
      BY <3>1, FreeFields DEF UsersOf
  <2> QED
    BY <2>2, UsersEachNext
<1>15. Jobs'
  BY FreeFields DEF IInv, Jobs
<1>16. Buffers'
  BY DEF BuffersKept
<1>17. Boundaries'
  <2> SUFFICES ASSUME NEW t \in Side, life'[t] # "closed"
               PROVE  /\ unackedAt'[t] <= recvSeq[Peer(t)]
                      /\ Boundary(t, recvSeq[Peer(t)])'
                      /\ \A h \in writeMu'[t].todo : Boundary(t, h)'
                      /\ \A d \in Conn : \A g \in InFlight(d, t)' : Boundary(t, g.hi)'
    BY DEF Boundaries
  <2>1. /\ Boundary(t, recvSeq[Peer(t)])
        /\ \A h \in writeMu[t].todo : Boundary(t, h)
        /\ \A d \in Conn : \A g \in InFlight(d, t) : Boundary(t, g.hi)
    BY DEF IInv, Boundaries
  <2>2. \A x \in Nat : Boundary(t, x) => Boundary(t, x)'
    BY DEF BuffersKept
  <2>3. Boundary(t, recvSeq[Peer(t)])'
    <3>1. recvSeq[Peer(t)] \in Nat
      BY Types, Sides DEF IInv
    <3>2. \A x : x = recvSeq[Peer(t)] => Boundary(t, x)'
      BY <2>1, <2>2, <3>1
    <3> QED
      BY <3>2 DEF Boundary
  <2>4. \A h \in writeMu'[t].todo : Boundary(t, h)'
    <3>1. \A h \in writeMu[t].todo : h \in Nat
      BY HolderTypes, JobFields DEF IInv
    <3>2. writeMu'[t].todo \subseteq writeMu[t].todo
      BY FreeFields
    <3> QED
      BY <2>1, <2>2, <3>1, <3>2
  <2>5. \A d \in Conn : \A g \in InFlight(d, t)' : Boundary(t, g.hi)'
    <3>1. \A d \in Conn : \A g \in InFlight(d, t)' : g.hi \in Nat /\ Boundary(t, g.hi)
      BY <1>1, <2>1 DEF Frame
    <3> QED
      BY <2>2, <3>1
  <2> QED
    BY <2>3, <2>4, <2>5 DEF BuffersKept
<1>18. Payloads'
  BY <1>1 DEF IInv, Payloads
<1>19. Channels'
  <2> SUFFICES ASSUME NEW t \in Side, NEW d \in Conn PROVE Channel(t, Peer(t), d)'
    BY DEF Channels
  <2> DEFINE r == Peer(t)
  <2>1. Channel(t, r, d) /\ r \in Side /\ r # t /\ Peer(s) # s
    BY Sides DEF IInv, Channels
  <2>2. CASE r = s /\ d = c
    BY <1>4, <2>2 DEF Channel
  <2>3. CASE ~(r = s /\ d = c)
    <3>1. wire'[d][t] = wire[d][t]
      BY <2>1, <2>3, Sides
    <3>2. ws[t] = d => NextByte(t, d)' = NextByte(t, d)
      <4>1. t # s => writeMu'[t] = writeMu[t]
        OBVIOUS
      <4>2. ws[t] = d /\ t = s => FALSE
        BY <1>3
      <4> QED
        BY <4>1, <4>2 DEF NextByte
    <3>3. Waits(t, d)' => Waits(t, d)
      BY <1>2
    <3>4. r \notin dead'[d] => (Waits(r, d)' <=> Waits(r, d))
      BY <1>2, <1>3, <2>1, <2>3
    <3> QED
      BY <1>4, <2>1, <3>1, <3>2, <3>3, <3>4, ChannelKept
  <2> QED
    BY <2>2, <2>3
<1> QED
  BY <1>11, <1>12, <1>13, <1>14, <1>15, <1>16, <1>17, <1>18, <1>19 DEF Rest

LEMMA AttachFailsKeeps ==
    ASSUME IInv, TypeOK', NEW s \in Side, AttachFails(s) PROVE Rest'
<1>1. writeMu[s] \in JobType /\ writeMu[s].phase = "await" /\ writeMu[s].conn \in Conn
  BY HolderTypes, JobFields DEF IInv, AttachFails
<1>2. PICK c \in Conn : c = writeMu[s].conn
  BY <1>1
<1>3. Waits(s, c)
  BY <1>1, <1>2 DEF Waits
<1>4. \A t \in Side : writeMu'[t] = IF t = s THEN Free ELSE writeMu[t]
  BY HolderTypes DEF IInv, AttachFails
<1>5. \A d \in Conn : dead'[d] = IF d = c THEN dead[d] \cup {s} ELSE dead[d]
  BY <1>2, Types DEF IInv, AttachFails
<1>6. \A d \in Conn, t \in Side : wire'[d][t] = IF d = c /\ t = Peer(s) THEN <<>> ELSE wire[d][t]
  BY <1>2, WireTypes, Sides DEF IInv, AttachFails
<1>7. \A t \in Side : life'[t] # "closed" => life[t] # "closed"
  <2>1. life \in [Side -> {"open", "canceled", "closed"}]
    BY DEF IInv, TypeOK
  <2> QED
    BY <2>1 DEF AttachFails, DialFailed, CloseWith, endVars
<1>8. UNCHANGED <<ws, recvSeq, ackSent, sendSeq, unackedAt, unacked, rcvd, reading, beat,
                  attaching, dialed>>
  BY DEF AttachFails, connVars, goVars
<1>9. BuffersKept
  BY <1>7, <1>8, SameBuffers
<1>10. \A d \in Conn, t \in Side :
           \/ wire'[d][t] = wire[d][t]
           \/ /\ d = c /\ t = Peer(s) /\ wire[d][t] # <<>>
              /\ wire'[d][t] \in {<<>>, Tail(wire[d][t])}
  BY <1>6
<1> QED
  BY <1>3, <1>4, <1>5, <1>7, <1>8, <1>9, <1>10, GivingUpKeeps

(* The position told in the hello is where a replay can start. *)
Replays(s, peer) ==
    /\ writeMu'[s].phase # "await"
    /\ writeMu'[s].ack = 0
    /\ peer <= sendSeq[s]
    /\ \/ writeMu'[s].who = "free" /\ writeMu'[s].todo = {} /\ sendSeq[s] = peer
       \/ /\ writeMu'[s].who # "free"
          /\ writeMu'[s].from = peer /\ writeMu'[s].todo = unacked'[s]
          /\ sendSeq[s] \in unacked'[s]

LEMMA ReplayStarts ==
    ASSUME IInv, TypeOK', NEW s \in Side, NEW c \in Conn, NEW peer \in Nat,
           life[s] = "open", peer <= sendSeq[s], peer \in KeptFrom(s, peer),
           AckLocked(s, peer),
           writeMu' = [writeMu EXCEPT ![s] =
               IF Kept(s, peer) = {} THEN Free
               ELSE Job("attach", c, "snap", 0, peer, Kept(s, peer))]
    PROVE  /\ Replays(s, peer)
           /\ writeMu'[s].who # "free" => writeMu'[s].conn = c
           /\ \A t \in Side : t # s => writeMu'[t] = writeMu[t]
<1>1. /\ unackedAt \in [Side -> Nat] /\ unacked \in [Side -> SUBSET Nat]
      /\ sendSeq \in [Side -> Nat] /\ unackedAt[s] \in Nat /\ sendSeq[s] \in Nat
      /\ writeMu \in [Side -> JobType]
  BY Types, HolderTypes DEF IInv
<1>2. /\ unackedAt[s] <= sendSeq[s]
      /\ \A h \in unacked[s] : unackedAt[s] < h /\ h <= sendSeq[s]
      /\ sendSeq[s] \in {unackedAt[s]} \cup unacked[s]
  BY DEF IInv, Buffers
<1>3. unackedAt[s] <= peer
  BY DEF KeptFrom, Confirmed
<1>4. unacked'[s] = Kept(s, peer)
  BY <1>1, AckEffect DEF Kept
<1>5. Kept(s, peer) = {} => sendSeq[s] = peer
  BY <1>1, <1>2, <1>3 DEF Kept
<1>6. Kept(s, peer) # {} => sendSeq[s] \in Kept(s, peer)
  BY <1>1, <1>2, <1>3 DEF Kept
<1>7. CASE Kept(s, peer) = {}
  <2>1. writeMu'[s] = Free /\ \A t \in Side : t # s => writeMu'[t] = writeMu[t]
    BY <1>1, <1>7
  <2> QED
    BY <1>5, <1>7, <2>1, FreeFields DEF Replays
<1>8. CASE Kept(s, peer) # {}
  <2> DEFINE job == Job("attach", c, "snap", 0, peer, Kept(s, peer))
  <2>1. /\ job.who = "attach" /\ job.conn = c /\ job.phase = "snap" /\ job.ack = 0
        /\ job.from = peer /\ job.todo = Kept(s, peer)
    BY DEF Job
  <2>2. writeMu'[s] = job /\ \A t \in Side : t # s => writeMu'[t] = writeMu[t]
    BY <1>1, <1>8
  <2> HIDE DEF job
  <2> QED
    BY <1>4, <1>6, <1>8, <2>1, <2>2 DEF Replays
<1> QED
  BY <1>7, <1>8

(* The peer's hello arrived: c is live at s, and the replay starts. *)
LEMMA GoingLiveKeeps ==
    ASSUME IInv, TypeOK', NEW s \in Side, NEW c \in Conn, Waits(s, c),
           wire[c][Peer(s)] # <<>>, life[s] = "open",
           NEW peer \in Nat, peer = Head(wire[c][Peer(s)]).ack,
           Replays(s, peer), writeMu'[s].who # "free" => writeMu'[s].conn = c,
           \A t \in Side : t # s => writeMu'[t] = writeMu[t],
           \A t \in Side : ws'[t] = IF t = s THEN c ELSE ws[t],
           \A t \in Side : ackSent'[t] = IF t = s THEN writeMu[s].ack ELSE ackSent[t],
           \A d \in Conn, t \in Side :
               wire'[d][t] = IF d = c /\ t = Peer(s) THEN Tail(wire[d][t]) ELSE wire[d][t],
           BuffersKept,
           UNCHANGED <<dead, recvSeq, sendSeq, rcvd, reading, beat, attaching,
                       dialed, life>>
    PROVE  Rest'
<1> DEFINE p == Peer(s)
           q == wire[c][p]
<1>1. /\ p \in Side /\ p # s /\ Peer(p) = s
      /\ \A t \in Side : t = s \/ t = p
      /\ \A t \in Side : Peer(t) = IF t = s THEN p ELSE s
  BY Sides DEF Side, Peer
<1>2. /\ ws[s] = NoConn /\ NoConn \notin Conn
      /\ \A d \in Conn : Waits(s, d) => d = c
      /\ s \notin dead[c] /\ attaching[s][c] = "none" /\ ~(c > dialed)
      /\ writeMu[s].ack = recvSeq[s]
  <2>1. StageOf(s, c)
    BY DEF IInv, Stages
  <2> QED
    BY <2>1, Conns DEF IInv, Users, Waits, StageOf
<1>3. \A t \in Side, d \in Conn : Waits(t, d)' <=> (t # s /\ Waits(t, d))
  BY DEF Waits, Replays
<1>4. q \in Frames /\ q # <<>> /\ Head(q) = q[1] /\ peer = q[1].ack
  BY <1>1, WireTypes, HeadIsFirst DEF IInv
<1>5. \A t \in Side, d \in Conn : \A g \in InFlight(d, t)' : g \in InFlight(d, t) /\ g \in Frame
  <2> SUFFICES ASSUME NEW t \in Side, NEW d \in Conn, NEW g \in Members(wire'[d][t])
               PROVE  g \in Members(wire[d][t]) /\ g \in Frame
    BY WireTypes DEF IInv, InFlight, Members
  <2>1. wire[d][t] \in Frames
    BY WireTypes DEF IInv
  <2>2. wire[d][t] # <<>> => Members(Tail(wire[d][t])) \subseteq Members(wire[d][t])
    BY <2>1, MembersOf
  <2>3. g \in Members(wire[d][t])
    BY <1>4, <2>2
  <2> QED
    BY <2>1, <2>3, MembersOf
<1>6. attaching[p][c] = "none" /\ (p \notin dead[c] => ws[p] = c \/ Waits(p, c))
  <2>1. StageOf(p, c) /\ c \in Nat /\ dialed \in Nat
    BY <1>1, Types, Conns DEF IInv, Stages
  <2> QED
    BY <1>2, <1>4, <2>1 DEF StageOf
<1>7. p \notin dead[c] => peer = recvSeq[p]
  <2>1. HelloTrue(p, s, c)
    BY <1>1, <1>2 DEF IInv, Channels, Channel
  <2> QED
    BY <1>4, <2>1 DEF HelloTrue
<1>8. NextByte(s, c)' = peer
  BY <1>2 DEF NextByte, Replays
<1>11. StreamIntact'
  BY DEF IInv, StreamIntact
<1>12. AcksBehind'
  <2> SUFFICES ASSUME NEW t \in Side
               PROVE  /\ ackSent'[t] <= recvSeq[t]
                      /\ writeMu'[t].ack <= recvSeq[t]
                      /\ \A d \in Conn : \A g \in InFlight(d, t)' : g.ack <= recvSeq[t]
    BY DEF AcksBehind
  <2>1. /\ ackSent[t] <= recvSeq[t] /\ writeMu[t].ack <= recvSeq[t]
        /\ \A d \in Conn : \A g \in InFlight(d, t) : g.ack <= recvSeq[t]
    BY DEF IInv, AcksBehind
  <2>2. recvSeq[t] \in Nat
    BY Types DEF IInv
  <2>3. writeMu'[t].ack <= recvSeq[t]
    BY <2>1, <2>2 DEF Replays
  <2> QED
    BY <1>5, <2>1, <2>3
<1>13. Stages'
  <2> SUFFICES ASSUME NEW t \in Side, NEW d \in Conn PROVE StageOf(t, d)'
    BY DEF Stages
  <2>1. StageOf(t, d)
    BY DEF IInv, Stages
  <2>2. wire[d][t] = <<>> => wire'[d][t] = <<>>
    BY <1>4
  <2>3. CASE t = s /\ d = c
    BY <1>2, <1>3, <2>3 DEF StageOf
  <2>4. CASE t = s /\ d # c
    <3>1. ~Waits(s, d) /\ ~Waits(s, d)' /\ ws[s] # d /\ ws'[s] # d
      BY <1>2, <1>3, <2>4
    <3> QED
      BY <2>1, <2>2, <2>4, <3>1 DEF StageOf
  <2>5. CASE t # s
    <3>1. (Waits(t, d)' <=> Waits(t, d)) /\ ws'[t] = ws[t]
      BY <1>3, <2>5
    <3> QED
      BY <2>1, <2>2, <3>1 DEF StageOf
  <2> QED
    BY <2>3, <2>4, <2>5
<1>14. Users'
  <2>1. \A t \in Side : UsersOf(t)
    BY UsersEach DEF IInv
  <2>2. ASSUME NEW t \in Side PROVE UsersOf(t)'
    <3>1. UsersOf(t) /\ \A d \in Conn : WasLive(t, d) => WasLive(t, d)'
      BY <1>2, <2>1 DEF WasLive
    <3>2. CASE t = s
      <4>1. WasLive(s, c)'
        BY DEF WasLive
      <4> QED
        BY <3>1, <3>2, <4>1 DEF UsersOf, Replays
    <3>3. CASE t # s
      BY <3>1, <3>3 DEF UsersOf
    <3> QED
      BY <3>2, <3>3
  <2> QED
    BY <2>2, UsersEachNext
<1>15. Jobs'
  <2> SUFFICES ASSUME NEW t \in Side, writeMu'[t].who # "free", writeMu'[t].phase # "await"
               PROVE  /\ writeMu'[t].from <= sendSeq[t]
                      /\ writeMu'[t].todo = {} => writeMu'[t].from = sendSeq[t]
                      /\ writeMu'[t].todo # {} => sendSeq[t] \in writeMu'[t].todo
                      /\ \A h \in writeMu'[t].todo : h <= sendSeq[t]
    BY DEF Jobs
  <2>1. CASE t = s
    <3>1. \A h \in unacked'[s] : h <= sendSeq[s]
      BY DEF BuffersKept, Buffers
    <3> QED
      BY <2>1, <3>1 DEF Replays
  <2>2. CASE t # s
    BY <2>2 DEF IInv, Jobs
  <2> QED
    BY <2>1, <2>2
<1>16. Buffers'
  BY DEF BuffersKept
<1>17. Boundaries'
  <2> SUFFICES ASSUME NEW t \in Side, life'[t] # "closed"
               PROVE  /\ unackedAt'[t] <= recvSeq[Peer(t)]
                      /\ Boundary(t, recvSeq[Peer(t)])'
                      /\ \A h \in writeMu'[t].todo : Boundary(t, h)'
                      /\ \A d \in Conn : \A g \in InFlight(d, t)' : Boundary(t, g.hi)'
    BY DEF Boundaries
  <2>1. /\ Boundary(t, recvSeq[Peer(t)])
        /\ \A h \in writeMu[t].todo : Boundary(t, h)
        /\ \A d \in Conn : \A g \in InFlight(d, t) : Boundary(t, g.hi)
    BY DEF IInv, Boundaries
  <2>2. \A x \in Nat : Boundary(t, x) => Boundary(t, x)'
    BY DEF BuffersKept
  <2>3. Boundary(t, recvSeq[Peer(t)])'
    <3>1. recvSeq[Peer(t)] \in Nat
      BY Types, Sides DEF IInv
    <3>2. \A x : x = recvSeq[Peer(t)] => Boundary(t, x)'
      BY <2>1, <2>2, <3>1
    <3> QED
      BY <3>2 DEF Boundary
  <2>4. \A h \in writeMu'[t].todo : Boundary(t, h)'
    <3>1. \A h \in writeMu[t].todo : h \in Nat
      BY HolderTypes, JobFields DEF IInv
    <3>2. CASE t = s
      BY <3>2 DEF Replays, Boundary
    <3>3. CASE t # s
      BY <2>1, <2>2, <3>1, <3>3
    <3> QED
      BY <3>2, <3>3
  <2>5. \A d \in Conn : \A g \in InFlight(d, t)' : Boundary(t, g.hi)'
    <3>1. \A d \in Conn : \A g \in InFlight(d, t)' : g.hi \in Nat /\ Boundary(t, g.hi)
      BY <1>5, <2>1 DEF Frame
    <3> QED
      BY <2>2, <3>1
  <2> QED
    BY <2>3, <2>4, <2>5 DEF BuffersKept
<1>18. Payloads'
  BY <1>5 DEF IInv, Payloads
<1>19. Channels'
  <2> SUFFICES ASSUME NEW t \in Side, NEW d \in Conn PROVE Channel(t, Peer(t), d)'
    BY DEF Channels
  <2>1. Channel(t, Peer(t), d)
    BY DEF IInv, Channels
  <2>2. CASE t = p /\ d = c
    <3>1. /\ Peer(t) = s /\ wire'[c][p] = Tail(q) /\ ws'[s] = c /\ ws'[p] = ws[p]
      BY <1>1, <2>2
    <3>2. ToWaiting(p, s, c)
      BY <1>1, <1>2, <2>1, <2>2 DEF Channel
    <3>3. NextByte(p, c)' = NextByte(p, c)
      BY <1>1 DEF NextByte
    <3>4. ToLive(p, s, c)'
      BY <1>1, <1>3, <1>4, <1>6, <3>1, <3>2, <3>3 DEF ToLive, ToWaiting
    <3>5. HelloTrue(p, s, c)'
      BY <1>2, <1>3 DEF HelloTrue
    <3> QED
      BY <2>2, <3>1, <3>4, <3>5 DEF Channel
  <2>3. CASE t = s /\ d = c /\ p \notin dead[c]
    <3> DEFINE w == wire[c][s]
    <3>1. wire'[c][s] = w /\ ws'[p] = ws[p] /\ ~Waits(s, c)' /\ peer = recvSeq[p]
          /\ (Waits(p, c)' <=> Waits(p, c)) /\ attaching[p][c] = "none"
      BY <1>1, <1>3, <1>6, <1>7, <2>3
    <3>2. ASSUME ws[p] = c PROVE ToLive(s, p, c)'
      <4>1. ToLive(s, p, c)
        BY <1>1, <2>1, <2>3, <3>2 DEF Channel
      <4>2. w = <<>> /\ Chain(w, recvSeq[p]) /\ End(w, recvSeq[p]) = peer
        BY <3>1, <4>1, ChainEmpty DEF ToLive
      <4> QED
        BY <1>2, <1>8, <3>1, <4>2 DEF ToLive
    <3>3. ASSUME ws[p] # c PROVE ToWaiting(s, p, c)'
      <4>1. ToWaiting(s, p, c)
        BY <1>1, <2>1, <2>3, <3>3 DEF Channel
      <4>2. w # <<>> /\ Tail(w) = <<>> /\ Chain(Tail(w), recvSeq[p])
            /\ End(Tail(w), recvSeq[p]) = peer
        BY <3>1, <4>1, ChainEmpty DEF ToWaiting
      <4>3. Waits(p, c)
        BY <1>6, <2>3, <3>3
      <4> QED
        BY <1>8, <3>1, <4>2, <4>3 DEF ToWaiting
    <3>4. HelloTrue(s, p, c)'
      BY <1>1, <2>1, <2>3, <3>1 DEF HelloTrue, Channel
    <3> QED
      BY <1>1, <2>3, <3>1, <3>2, <3>3, <3>4 DEF Channel
  <2>4. CASE t = s /\ d = c /\ p \in dead[c]
    BY <1>1, <2>4 DEF Channel
  <2>5. CASE d # c
    <3>1. wire'[d][t] = wire[d][t] /\ \A u \in Side : ws'[u] = d <=> ws[u] = d
      BY <1>2, <2>5
    <3>2. \A u \in Side : Waits(u, d)' <=> Waits(u, d)
      BY <1>2, <1>3, <2>5
    <3>3. ws'[t] = d => NextByte(t, d)' = NextByte(t, d)
      <4>1. ws'[t] = d => t # s
        BY <2>5
      <4> QED
        BY <4>1 DEF NextByte
    <3> QED
      BY <1>1, <2>1, <3>1, <3>2, <3>3, ChannelKept
  <2> QED
    BY <1>1, <2>2, <2>3, <2>4, <2>5
<1> QED
  BY <1>11, <1>12, <1>13, <1>14, <1>15, <1>16, <1>17, <1>18, <1>19 DEF Rest

LEMMA AttachReplyKeeps ==
    ASSUME IInv, TypeOK', NEW s \in Side, AttachReply(s) PROVE Rest'
<1>1. writeMu[s] \in JobType /\ writeMu[s].phase = "await" /\ writeMu[s].conn \in Conn
  BY HolderTypes, JobFields DEF IInv, AttachReply
<1>2. PICK c \in Conn : c = writeMu[s].conn
  BY <1>1
<1> DEFINE p == Peer(s)
<1>3. Waits(s, c) /\ wire[c][p] # <<>> /\ p \in Side
  BY <1>1, <1>2, Sides DEF Waits, AttachReply
<1>4. PICK peer \in Nat : peer = Head(wire[c][p]).ack
  BY <1>3, FrameReadFits DEF Frame
<1>5. peer <= sendSeq[s] /\ peer <= recvSeq[p]
  BY <1>3, <1>4, FrameReadFits DEF IInv, AcksBehind
<1>6. \A d \in Conn, t \in Side :
          wire'[d][t] = IF d = c /\ t = p THEN Tail(wire[d][t]) ELSE wire[d][t]
  <2>1. wire' = [wire EXCEPT ![c][p] = Tail(@)]
    BY <1>2 DEF AttachReply
  <2> QED
    BY <1>3, <2>1, WireTypes DEF IInv
<1>7. UNCHANGED <<recvSeq, sendSeq, rcvd, reading, beat, attaching, dialed>>
  BY DEF AttachReply, goVars
<1>8. life \in [Side -> {"open", "canceled", "closed"}]
  BY DEF IInv, TypeOK
<1>9. CASE /\ GiveUp(s, c)
           /\ \/ AckLocked(s, peer) /\ CloseWith(s, "protocol")
              \/ UNCHANGED <<unackedAt, unacked, endVars>>
  <2>1. /\ \A d \in Conn : dead'[d] = IF d = c THEN dead[d] \cup {s} ELSE dead[d]
        /\ \A t \in Side : writeMu'[t] = IF t = s THEN Free ELSE writeMu[t]
        /\ UNCHANGED <<ws, ackSent>>
    BY <1>9, Types, HolderTypes DEF IInv, GiveUp
  <2>2. \A t \in Side : life'[t] # "closed" => life[t] # "closed"
    BY <1>8, <1>9 DEF CloseWith, endVars
  <2>3. BuffersKept
    BY <1>5, <1>7, <1>9, <2>2, AckLockedBuffers, SameBuffers
  <2>4. \A d \in Conn, t \in Side :
            \/ wire'[d][t] = wire[d][t]
            \/ /\ d = c /\ t = p /\ wire[d][t] # <<>>
               /\ wire'[d][t] \in {<<>>, Tail(wire[d][t])}
    BY <1>3, <1>6
  <2> QED
    BY <1>3, <1>7, <2>1, <2>2, <2>3, <2>4, GivingUpKeeps
<1>10. CASE /\ life[s] = "open" /\ peer \in KeptFrom(s, peer)
            /\ AckLocked(s, peer) /\ GoLive(s, c, peer)
  <2>1. UNCHANGED <<dead, life>>
    BY <1>10 DEF GoLive, endVars
  <2>2. BuffersKept
    BY <1>5, <1>7, <1>10, <2>1, AckLockedBuffers
  <2>3. /\ Replays(s, peer) /\ (writeMu'[s].who # "free" => writeMu'[s].conn = c)
        /\ \A t \in Side : t # s => writeMu'[t] = writeMu[t]
    BY <1>5, <1>10, ReplayStarts DEF GoLive
  <2>4. /\ \A t \in Side : ws'[t] = IF t = s THEN c ELSE ws[t]
        /\ \A t \in Side : ackSent'[t] = IF t = s THEN writeMu[s].ack ELSE ackSent[t]
    BY <1>10, Types DEF IInv, GoLive
  <2> QED
    BY <1>3, <1>4, <1>6, <1>7, <1>10, <2>1, <2>2, <2>3, <2>4, GoingLiveKeeps
<1> QED
  <2>1. \/ /\ life[s] = "open" /\ peer \in KeptFrom(s, peer)
           /\ AckLocked(s, peer) /\ GoLive(s, c, peer)
        \/ AckLocked(s, peer) /\ GiveUp(s, c) /\ CloseWith(s, "protocol")
        \/ GiveUp(s, c) /\ UNCHANGED <<unackedAt, unacked, endVars>>
    BY <1>2, <1>4 DEF AttachReply
  <2> QED
    BY <1>9, <1>10, <2>1

-----------------------------------------------------------------------------
(* The redial.                                                             *)

LEMMA DialOkKeeps ==
    ASSUME IInv, TypeOK', DialOk PROVE Rest'
<1>1. PICK c \in Conn : c = dialed + 1
  BY Types DEF IInv, DialOk, Conn
<1>2. /\ UNCHANGED <<ws, writeMu, wire, dead, connVars, reading, beat, life>>
      /\ dialed' = c /\ c \in Nat /\ dialed \in Nat /\ c > dialed
      /\ \A s \in Side, d \in Conn : attaching'[s][d] = IF d = c THEN "detach" ELSE attaching[s][d]
      /\ \A d \in Conn : d \in Nat /\ (d > c => d > dialed) /\ (d <= c => d <= dialed \/ d = c)
  <2>1. UNCHANGED <<ws, writeMu, wire, dead, connVars, reading, beat, life>>
    BY DEF DialOk, goVars, endVars
  <2>2. /\ dialed' = c /\ c \in Nat /\ dialed \in Nat /\ c > dialed
        /\ \A d \in Conn : d \in Nat
    <3>1. dialed \in Nat /\ \A d \in Conn : d \in Nat
      BY Types, Conns DEF IInv
    <3>2. dialed' = dialed + 1
      BY DEF DialOk
    <3> QED
      BY <1>1, <3>1, <3>2
  <2>3. \A s \in Side, d \in Conn : attaching'[s][d] = IF d = c THEN "detach" ELSE attaching[s][d]
    BY <1>1, Types DEF IInv, DialOk
  <2>4. \A d \in Conn : d \in Nat /\ (d > c => d > dialed) /\ (d <= c => d <= dialed \/ d = c)
    BY <1>1, <2>2
  <2> QED
    BY <2>1, <2>2, <2>3, <2>4
<1>3. \A s \in Side : /\ attaching[s][c] = "none" /\ ~Waits(s, c) /\ ws[s] # c
                      /\ dead[c] = {} /\ wire[c][s] = <<>>
  BY <1>2 DEF IInv, Stages, StageOf
<1>4. \A s \in Side, d \in Conn : Waits(s, d)' <=> Waits(s, d)
  BY <1>2 DEF Waits
<1>11. StreamIntact' /\ AcksBehind' /\ Payloads'
  BY <1>2 DEF IInv, StreamIntact, AcksBehind, Payloads, InFlight, connVars
<1>12. Stages'
  <2> SUFFICES ASSUME NEW s \in Side, NEW d \in Conn PROVE StageOf(s, d)'
    BY DEF Stages
  <2>1. StageOf(s, d)
    BY DEF IInv, Stages
  <2>2. CASE d = c
    BY <1>2, <1>3, <1>4, <2>2 DEF StageOf
  <2>3. CASE d # c
    BY <1>2, <1>4, <2>1, <2>3 DEF StageOf
  <2> QED
    BY <2>2, <2>3
<1>13. Users' /\ Jobs'
  BY <1>2 DEF IInv, Users, WasLive, Jobs, connVars
<1>14. Buffers' /\ Boundaries'
  BY <1>2 DEF IInv, Buffers, Boundaries, Boundary, InFlight, connVars
<1>15. Channels'
  <2> SUFFICES ASSUME NEW s \in Side, NEW d \in Conn PROVE Channel(s, Peer(s), d)'
    BY DEF Channels
  <2>1. Channel(s, Peer(s), d) /\ Peer(s) \in Side
    BY Sides DEF IInv, Channels
  <2>2. CASE d = c
    <3>1. ToWaiting(s, Peer(s), c)' /\ HelloTrue(s, Peer(s), c)'
      BY <1>2, <1>3, <1>4, <2>1 DEF ToWaiting, HelloTrue
    <3> QED
      BY <1>2, <1>3, <2>1, <2>2, <3>1 DEF Channel
  <2>3. CASE d # c
    <3>1. NextByte(s, d)' = NextByte(s, d)
      BY <1>2 DEF NextByte, connVars
    <3> QED
      BY <1>2, <1>4, <2>1, <2>3, <3>1, ChannelKept DEF connVars
  <2> QED
    BY <2>2, <2>3
<1> QED
  BY <1>11, <1>12, <1>13, <1>14, <1>15 DEF Rest

-----------------------------------------------------------------------------
(* The invariant.                                                          *)

LEMMA IInvInit == Init => IInv
<1> SUFFICES ASSUME Init PROVE IInv
  OBVIOUS
<1>1. TypeOK
  BY TypeInit
<1>2. /\ \A s \in Side : /\ ws[s] = 1 /\ recvSeq[s] = 0 /\ ackSent[s] = 0 /\ sendSeq[s] = 0
                         /\ unackedAt[s] = 0 /\ unacked[s] = {} /\ writeMu[s] = Free
                         /\ reading[s] = 1 /\ beat[s] = {} /\ rcvd[s] = <<>>
      /\ \A s \in Side, c \in Conn : attaching[s][c] = "none" /\ wire[c][s] = <<>>
      /\ dialed = 1
      /\ \A c \in Conn : dead[c] = {} /\ c \in Nat /\ (c <= 1 => c = 1)
      /\ 1 \in Conn /\ NoConn \notin Conn
  BY Conns DEF Init, Conn
<1>3. \A s \in Side, c \in Conn : ~Waits(s, c)
  BY <1>2, FreeFields DEF Waits
<1>4. StreamIntact /\ AcksBehind /\ Payloads
  <2>1. \A s \in Side, c \in Conn : InFlight(c, s) = {}
    BY <1>2 DEF InFlight
  <2>2. [i \in 1 .. 0 |-> i] = <<>>
    OBVIOUS
  <2> QED
    BY <1>2, <2>1, <2>2, Sides, FreeFields DEF StreamIntact, AcksBehind, Payloads
<1>5. Stages
  BY <1>2, <1>3 DEF Stages, StageOf
<1>6. Users /\ Jobs /\ Buffers
  BY <1>2, FreeFields DEF Users, WasLive, Jobs, Buffers
<1>7. Boundaries
  <2>1. \A s \in Side, c \in Conn : InFlight(c, s) = {}
    BY <1>2 DEF InFlight
  <2> QED
    BY <1>2, <2>1, Sides, FreeFields DEF Boundaries, Boundary
<1>8. Channels
  <2> SUFFICES ASSUME NEW s \in Side, NEW c \in Conn PROVE Channel(s, Peer(s), c)
    BY DEF Channels
  <2>1. Peer(s) \in Side
    BY Sides
  <2>2. NextByte(s, c) = 0
    BY <1>2, FreeFields DEF NextByte
  <2>3. ws[Peer(s)] = c => ToLive(s, Peer(s), c)
    BY <1>2, <2>1, <2>2, ChainEmpty DEF ToLive
  <2>4. ws[Peer(s)] # c => ToWaiting(s, Peer(s), c)
    BY <1>2, <1>3, <2>1 DEF ToWaiting
  <2>5. HelloTrue(s, Peer(s), c)
    BY <1>2 DEF HelloTrue
  <2> QED
    BY <2>3, <2>4, <2>5 DEF Channel
<1> QED
  BY <1>1, <1>4, <1>5, <1>6, <1>7, <1>8 DEF IInv

LEMMA IInvNext == IInv /\ [Next]_vars => IInv'
<1> SUFFICES ASSUME IInv, [Next]_vars PROVE IInv'
  OBVIOUS
<1>a. TypeOK'
  BY TypeNext DEF IInv
<1>b. life \in [Side -> {"open", "canceled", "closed"}]
  BY DEF IInv, TypeOK
<1>1. ASSUME NEW s \in Side, SideStep(s) PROVE Rest'
  <2>1. CASE CloseFinish(s)
    BY <1>a, <2>1, CloseFinishKeeps
  <2>2. CASE WriteReturn(s)
    BY <2>2, UntouchedKeeps DEF WriteReturn, supVars, endVars
  <2>3. CASE SnapAck(s)
    BY <1>a, <2>3, SnapAckKeeps
  <2>4. CASE SendFrame(s)
    BY <1>a, <2>4, SendFrameKeeps
  <2>5. CASE SendFails(s)
    BY <1>a, <2>5, SendFailsKeeps
  <2>6. CASE ReadCurrent(s)
    BY <1>a, <2>6, ReadCurrentKeeps
  <2>7. CASE ReadFrame(s)
    BY <1>a, <2>7, ReadFrameKeeps
  <2>8. CASE ReadFails(s)
    BY <1>a, <2>8, ReadFailsKeeps
  <2>9. CASE PingFails(s)
    BY <1>a, <2>9, PingFailsKeeps
  <2>10. CASE BeatBehind(s)
    BY <1>a, <2>10, BeatBehindKeeps
  <2>11. CASE AttachFails(s)
    BY <1>a, <2>11, AttachFailsKeeps
  <2>12. CASE AttachReply(s)
    BY <1>a, <2>12, AttachReplyKeeps
  <2>13. CASE TakeLost(s)
    BY <2>13, UntouchedKeeps DEF TakeLost, goVars, endVars
  <2> QED
    BY <1>1, <2>1, <2>2, <2>3, <2>4, <2>5, <2>6, <2>7, <2>8, <2>9, <2>10, <2>11,
       <2>12, <2>13 DEF SideStep
<1>2. ASSUME NEW s \in Side, NEW c \in Conn, ConnStep(s, c) PROVE Rest'
  BY <1>a, <1>2, BeatFlushKeeps, AttachDetachKeeps, AttachLockKeeps DEF ConnStep
<1>3. ASSUME Supervision PROVE Rest'
  <2>1. CASE DialOk
    BY <1>a, <2>1, DialOkKeeps
  <2>2. CASE DialFails
    <3>1. \A t \in Side : life'[t] # "closed" => life[t] # "closed"
      BY <1>b, <2>2 DEF DialFails, DialFailed, CloseWith, endVars
    <3> QED
      BY <2>2, <3>1, UntouchedKeeps DEF DialFails, goVars
  <2>3. CASE DialGone
    <3>1. \A t \in Side : life'[t] # "closed" => life[t] # "closed"
      BY <1>b, <2>3 DEF DialGone, CloseWith
    <3> QED
      BY <2>3, <3>1, UntouchedKeeps DEF DialGone, goVars
  <2>4. CASE ResumeSeen
    BY <2>4, UntouchedKeeps DEF ResumeSeen, goVars, endVars
  <2>5. CASE GraceExpires
    <3>1. \A t \in Side : life'[t] # "closed" => life[t] # "closed"
      BY <1>b, <2>5 DEF GraceExpires, CloseWith
    <3> QED
      BY <2>5, <3>1, UntouchedKeeps DEF GraceExpires, goVars
  <2> QED
    BY <1>3, <2>1, <2>2, <2>3, <2>4, <2>5 DEF Supervision
<1>4. ASSUME Environment PROVE Rest'
  <2>1. ASSUME NEW s \in Side, Cancel(s) PROVE Rest'
    <3>1. \A t \in Side : life'[t] # "closed" => life[t] # "closed"
      BY <1>b, <2>1 DEF Cancel
    <3> QED
      BY <2>1, <3>1, UntouchedKeeps DEF Cancel, goVars, supVars
  <2>2. ASSUME NEW s \in Side, NEW n \in Chunk, Write(s, n) PROVE Rest'
    <3>1. n \in Nat /\ n > 0
      BY ConstantsAssumption
    <3> QED
      BY <1>a, <2>2, <3>1, WriteKeeps
  <2>3. ASSUME NEW c \in Conn, Cut(c) PROVE Rest'
    BY <1>a, <2>3, CutKeeps
  <2> QED
    BY <1>4, <2>1, <2>2, <2>3 DEF Environment
<1>5. ASSUME UNCHANGED vars PROVE Rest'
  BY <1>5, UntouchedKeeps DEF vars, goVars, supVars, endVars
<1>6. Rest'
  BY <1>1, <1>2, <1>3, <1>4, <1>5 DEF Next
<1>7. (IInv <=> TypeOK /\ Rest)'
  BY IInvParts, PTL
<1> QED
  BY <1>a, <1>6, <1>7

(***************************************************************************)
(* The inductive invariant holds in every state: how the WebSockets, the   *)
(* holders of writeMu, the replay buffers and the frames in flight fit     *)
(* together, whatever drops, redials and late goroutines there are.        *)
(***************************************************************************)
THEOREM InvariantHolds == Spec => []IInv
<1>1. Init => IInv
  BY IInvInit
<1>2. IInv /\ [Next]_vars => IInv'
  BY IInvNext
<1> QED
  BY <1>1, <1>2, PTL DEF Spec

(***************************************************************************)
(* Each side is given exactly the bytes its peer wrote, in order (Read,    *)
(* Write, attach).                                                         *)
(***************************************************************************)
THEOREM StreamIsIntact == Spec => []StreamIntact
<1>1. IInv => StreamIntact
  BY DEF IInv
<1> QED
  BY <1>1, InvariantHolds, PTL

(***************************************************************************)
(* The replay buffer of an open conn holds everything the peer has not     *)
(* received, and a replay can start at the peer's position (ackLocked).    *)
(***************************************************************************)
THEOREM ReplayAlwaysCovers == Spec => []ReplayCovers
<1>1. IInv => ReplayCovers
  <2> SUFFICES ASSUME IInv, NEW s \in Side, life[s] # "closed"
               PROVE  /\ unackedAt[s] <= recvSeq[Peer(s)]
                      /\ {recvSeq[Peer(s)], sendSeq[s]} \subseteq {unackedAt[s]} \cup unacked[s]
    BY DEF ReplayCovers
  <2>1. recvSeq[Peer(s)] \in Nat /\ unackedAt[s] \in Nat
    BY Types, Sides DEF IInv
  <2>2. unackedAt[s] <= recvSeq[Peer(s)] /\ Boundary(s, recvSeq[Peer(s)])
    BY DEF IInv, Boundaries
  <2>3. recvSeq[Peer(s)] \in {unackedAt[s]} \cup unacked[s]
    BY <2>1, <2>2 DEF Boundary
  <2> QED
    BY <2>2, <2>3 DEF IInv, Buffers
<1> QED
  BY <1>1, InvariantHolds, PTL

(***************************************************************************)
(* No acknowledgement is ahead of the bytes received: recvSeq - ackSent    *)
(* never wraps around (Read, writeFrame).                                  *)
(***************************************************************************)
THEOREM AcksStayBehind == Spec => []AcksBehind
<1>1. IInv => AcksBehind
  BY DEF IInv
<1> QED
  BY <1>1, InvariantHolds, PTL

(***************************************************************************)
(* The receive position told in a hello stays right until the handshake    *)
(* ends (detach, attach).                                                  *)
(***************************************************************************)
THEOREM HelloStaysCurrent == Spec => []HelloCurrent
<1>1. IInv => HelloCurrent
  BY DEF IInv, Users, HelloCurrent
<1> QED
  BY <1>1, InvariantHolds, PTL

(***************************************************************************)
(* A WebSocket is closed exactly when it is neither live nor in the hands  *)
(* of an attach (broken, detach, attach, Close).                           *)
(***************************************************************************)
THEOREM NothingLeaks == Spec => []NoLeak
<1>1. IInv => NoLeak
  <2> SUFFICES ASSUME IInv, NEW s \in Side, NEW c \in 1 .. dialed
               PROVE  (s \in dead[c]) <=> (ws[s] # c /\ ~Attaching(s, c))
    BY DEF NoLeak
  <2>1. c \in Conn /\ c <= dialed
    BY Types, ConstantsAssumption DEF IInv, Conn
  <2>2. StageOf(s, c)
    BY <2>1 DEF IInv, Stages
  <2> QED
    BY <2>1, <2>2 DEF StageOf, Attaching, Waits
<1> QED
  BY <1>1, InvariantHolds, PTL

=============================================================================
