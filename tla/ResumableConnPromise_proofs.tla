--------------------- MODULE ResumableConnPromise_proofs ---------------------
(***************************************************************************)
(* Theorems about what a pair of ResumableConns promises: it implements    *)
(* ByteStream, and the client never finds the server to break the rules.   *)
(***************************************************************************)
EXTENDS ResumableConnStream_proofs

-----------------------------------------------------------------------------
(* Sets of boundaries.                                                     *)

LEMMA PiecesOne == \A x \in Nat : Pieces({x})
BY DEF Pieces, Adjacent

(* A payload of n bytes is put behind the last one. *)
LEMMA PiecesAdd ==
    ASSUME NEW bounds \in SUBSET Nat, NEW top \in bounds, \A k \in bounds : k <= top,
           Pieces(bounds), NEW n \in Chunk
    PROVE  Pieces(bounds \cup {top + n}) /\ Pieces({top, top + n})
<1>1. n \in Nat /\ n > 0 /\ top \in Nat
  BY ConstantsAssumption
<1>2. ASSUME NEW g \in bounds \cup {top + n}, NEW h \in bounds \cup {top + n},
             Adjacent(bounds \cup {top + n}, g, h)
      PROVE  h - g \in Chunk
  <2>1. g < h /\ \A k \in bounds \cup {top + n} : k <= g \/ h <= k
    BY <1>2 DEF Adjacent
  <2>2. g \in bounds /\ g \in Nat /\ h \in Nat
    BY <1>1, <2>1
  <2>3. CASE h = top + n
    <3>1. g = top
      BY <1>1, <2>1, <2>2, <2>3
    <3> QED
      BY <1>1, <2>3, <3>1
  <2>4. CASE h # top + n
    BY <2>1, <2>2, <2>4 DEF Pieces, Adjacent
  <2> QED
    BY <2>3, <2>4
<1>3. ASSUME NEW g \in {top, top + n}, NEW h \in {top, top + n},
             Adjacent({top, top + n}, g, h)
      PROVE  h - g \in Chunk
  <2>1. g = top /\ h = top + n
    BY <1>1, <1>3 DEF Adjacent
  <2> QED
    BY <1>1, <2>1
<1> QED
  BY <1>2, <1>3 DEF Pieces

(* Boundaries below one of them are dropped. *)
LEMMA PiecesUpper ==
    ASSUME NEW bounds \in SUBSET Nat, Pieces(bounds), NEW m \in Nat
    PROVE  Pieces({k \in bounds : m <= k})
BY DEF Pieces, Adjacent

(* The first payload is sent. *)
LEMMA PiecesFirst ==
    ASSUME NEW from \in Nat, NEW todo \in SUBSET Nat, \A h \in todo : from < h,
           Pieces({from} \cup todo), NEW hi \in todo, \A h \in todo : hi <= h
    PROVE  hi - from \in Chunk /\ Pieces({hi} \cup (todo \ {hi}))
<1>1. Adjacent({from} \cup todo, from, hi)
  BY DEF Adjacent
<1>2. hi - from \in Chunk
  BY <1>1 DEF Pieces
<1>3. {hi} \cup (todo \ {hi}) = {k \in {from} \cup todo : hi <= k}
  <2>1. hi \in Nat /\ from < hi /\ from \notin {k \in {from} \cup todo : hi <= k}
    OBVIOUS
  <2>2. \A k : k \in {hi} \cup (todo \ {hi}) <=> k \in {j \in {from} \cup todo : hi <= j}
    BY <2>1
  <2> QED
    BY <2>2
<1> QED
  BY <1>2, <1>3, PiecesUpper

(* An acknowledgement takes the lower boundaries out of the replay buffer. *)
LEMMA PiecesAcked ==
    ASSUME IInv, NEW s \in Side, life[s] # "closed",
           NEW ack \in Nat, ack <= sendSeq[s], AckLocked(s, ack),
           Pieces({unackedAt[s]} \cup unacked[s])
    PROVE  Pieces({unackedAt'[s]} \cup unacked'[s])
<1> DEFINE bounds == {unackedAt[s]} \cup unacked[s]
<1>1. /\ unackedAt \in [Side -> Nat] /\ unacked \in [Side -> SUBSET Nat]
      /\ sendSeq \in [Side -> Nat] /\ unackedAt[s] \in Nat /\ unacked[s] \in SUBSET Nat
  BY Types DEF IInv
<1>2. \A h \in unacked[s] : unackedAt[s] < h
  BY DEF IInv, Buffers
<1>3. /\ unacked'[s] = {h \in unacked[s] : h > ack}
      /\ unackedAt'[s] \in Confirmed(s, ack)
      /\ \A y \in Confirmed(s, ack) : y <= unackedAt'[s]
  BY <1>1, AckEffect
<1>4. PICK m \in Nat : m = unackedAt'[s]
  BY <1>1, <1>3 DEF Confirmed
<1>5. m \in bounds /\ (m = unackedAt[s] \/ m <= ack)
  BY <1>1, <1>3, <1>4 DEF Confirmed, Kept
<1>6. {m} \cup {h \in unacked[s] : h > ack} = {k \in bounds : m <= k}
  <2>1. \A h \in unacked[s] : h > ack => m <= h
    BY <1>1, <1>2, <1>5
  <2>2. \A k \in bounds : m <= k /\ k # m => k \in unacked[s] /\ k > ack
    <3> SUFFICES ASSUME NEW k \in bounds, m <= k, k # m, ~(k \in unacked[s] /\ k > ack)
                 PROVE  FALSE
      OBVIOUS
    <3>1. k \in Confirmed(s, ack) /\ k \in Nat
      BY <1>1 DEF Confirmed, Kept
    <3> QED
      BY <1>3, <1>4, <3>1
  <2> QED
    BY <1>1, <1>5, <2>1, <2>2
<1> QED
  BY <1>1, <1>3, <1>4, <1>6, PiecesUpper

-----------------------------------------------------------------------------
(* What is in flight after a step.                                         *)

LEMMA TailShrinks ==
    ASSUME TypeOK, NEW s \in Side, NEW c \in Conn, wire[c][s] # <<>>,
           wire' = [wire EXCEPT ![c][s] = Tail(@)]
    PROVE  \A t \in Side, d \in Conn : InFlight(d, t)' \subseteq InFlight(d, t)
<1> SUFFICES ASSUME NEW t \in Side, NEW d \in Conn
             PROVE  Members(wire'[d][t]) \subseteq Members(wire[d][t])
  BY WireTypes DEF InFlight, Members
<1>1. wire[d][t] \in Frames /\ wire \in [Conn -> [Side -> Frames]]
  BY WireTypes
<1>2. wire'[d][t] = IF d = c /\ t = s THEN Tail(wire[d][t]) ELSE wire[d][t]
  BY <1>1
<1> QED
  BY <1>1, <1>2, MembersOf

LEMMA ClearShrinks ==
    ASSUME TypeOK, NEW s \in Side, NEW c \in Conn, wire' = [wire EXCEPT ![c][s] = <<>>]
    PROVE  \A t \in Side, d \in Conn : InFlight(d, t)' \subseteq InFlight(d, t)
<1> SUFFICES ASSUME NEW t \in Side, NEW d \in Conn
             PROVE  Members(wire'[d][t]) \subseteq Members(wire[d][t])
  BY WireTypes DEF InFlight, Members
<1>1. wire \in [Conn -> [Side -> Frames]]
  BY WireTypes
<1>2. wire'[d][t] = IF d = c /\ t = s THEN <<>> ELSE wire[d][t]
  BY <1>1
<1> QED
  BY <1>2, MembersEmpty

LEMMA PutGrows ==
    ASSUME TypeOK, NEW s \in Side, NEW c \in Conn, NEW f \in Frame, Put(s, c, f)
    PROVE  \A t \in Side, d \in Conn : \A g \in InFlight(d, t)' :
               g \in InFlight(d, t) \/ (t = s /\ g = f)
<1> SUFFICES ASSUME NEW t \in Side, NEW d \in Conn, NEW g \in Members(wire'[d][t])
             PROVE  g \in Members(wire[d][t]) \/ (t = s /\ g = f)
  BY WireTypes DEF InFlight, Members
<1>1. wire[d][t] \in Frames /\ wire \in [Conn -> [Side -> Frames]]
  BY WireTypes
<1>2. wire'[d][t] = wire[d][t] \/ (t = s /\ wire'[d][t] = Append(wire[d][t], f))
  <2>1. CASE Peer(s) \in dead[c]
    BY <2>1 DEF Put
  <2>2. CASE Peer(s) \notin dead[c]
    BY <1>1, <2>2 DEF Put
  <2> QED
    BY <2>1, <2>2
<1>3. CASE wire'[d][t] = wire[d][t]
  BY <1>3
<1>4. CASE t = s /\ wire'[d][t] = Append(wire[d][t], f)
  <2>1. g \in Members(wire[d][t]) \cup {f}
    BY <1>1, <1>4, MembersOf
  <2> QED
    BY <1>4, <2>1
<1> QED
  BY <1>2, <1>3, <1>4

-----------------------------------------------------------------------------
(* Everything that passes is made of the payloads of Write calls.          *)

PayloadwiseOf(s) ==
    /\ Pieces({unackedAt[s]} \cup unacked[s])
    /\ Pieces({writeMu[s].from} \cup writeMu[s].todo)
    /\ \A c \in Conn : \A f \in InFlight(c, s) : f.lo = f.hi \/ f.hi - f.lo \in Chunk

LEMMA PayloadwiseInit == Init => Payloadwise
<1> SUFFICES ASSUME Init, NEW s \in Side PROVE PayloadwiseOf(s)
  BY DEF Payloadwise, PayloadwiseOf
<1>1. /\ unackedAt[s] = 0 /\ unacked[s] = {} /\ writeMu[s] = Free
      /\ Free.from = 0 /\ Free.todo = {}
      /\ \A c \in Conn : wire[c][s] = <<>>
  BY DEF Init, Free, Job
<1>2. \A c \in Conn : InFlight(c, s) = {}
  BY <1>1 DEF InFlight
<1>3. {0} \cup {} = {0}
  OBVIOUS
<1> QED
  BY <1>1, <1>2, <1>3, PiecesOne DEF PayloadwiseOf

(* writeMu is free, or its holder has only a bare acknowledgement to send. *)
Bare(s) == writeMu'[s].todo = {} /\ writeMu'[s].from \in Nat

(* A step that leaves the buffers alone and sends no payload. *)
BufferKept(s) ==
    \/ unackedAt'[s] = unackedAt[s] /\ unacked'[s] = unacked[s]
    \/ unackedAt'[s] \in Nat /\ unacked'[s] = {}

JobKept(s) ==
    \/ writeMu'[s].from = writeMu[s].from /\ writeMu'[s].todo = writeMu[s].todo
    \/ Bare(s)

NoPayloadSent ==
    \A s \in Side, c \in Conn : \A f \in InFlight(c, s)' :
        f \in InFlight(c, s) \/ f.lo = f.hi

LEMMA PayloadwiseKept ==
    ASSUME Payloadwise, \A s \in Side : BufferKept(s), \A s \in Side : JobKept(s),
           NoPayloadSent
    PROVE  Payloadwise'
<1> SUFFICES ASSUME NEW s \in Side PROVE PayloadwiseOf(s)'
  BY DEF Payloadwise, PayloadwiseOf
<1>1. PayloadwiseOf(s)
  BY DEF Payloadwise, PayloadwiseOf
<1>2. \A x \in Nat : Pieces({x} \cup {})
  <2>1. \A x : {x} \cup {} = {x}
    OBVIOUS
  <2> QED
    BY <2>1, PiecesOne
<1>3. Pieces({unackedAt'[s]} \cup unacked'[s])
  BY <1>1, <1>2 DEF PayloadwiseOf, BufferKept
<1>4. Pieces({writeMu'[s].from} \cup writeMu'[s].todo)
  BY <1>1, <1>2 DEF PayloadwiseOf, JobKept, Bare
<1>5. \A c \in Conn : \A f \in InFlight(c, s)' : f.lo = f.hi \/ f.hi - f.lo \in Chunk
  BY <1>1 DEF PayloadwiseOf, NoPayloadSent
<1> QED
  BY <1>3, <1>4, <1>5 DEF PayloadwiseOf, Pieces, Adjacent

LEMMA WriteIsAPayload ==
    ASSUME IInv, Payloadwise, NEW s \in Side, NEW n \in Chunk, Write(s, n)
    PROVE  Payloadwise'
<1>1. PICK top \in Nat : top = sendSeq[s]
  BY Types DEF IInv
<1>2. /\ \A t \in Side : unackedAt'[t] = unackedAt[t]
      /\ \A t \in Side : unacked'[t] = IF t = s THEN unacked[s] \cup {top + n} ELSE unacked[t]
      /\ wire' = wire /\ life[s] = "open"
      /\ unackedAt[s] \in Nat /\ unacked[s] \in SUBSET Nat
  BY <1>1, Types DEF IInv, Write
<1>3. \A t \in Side : \/ writeMu'[t] = writeMu[t]
                      \/ /\ t = s /\ writeMu'[t].from = top
                         /\ writeMu'[t].todo = {top + n}
  <2>1. /\ Job("write", ws[s], "snap", 0, top, {top + n}).from = top
        /\ Job("write", ws[s], "snap", 0, top, {top + n}).todo = {top + n}
    BY DEF Job
  <2>2. \/ writeMu' = writeMu
        \/ writeMu' = [writeMu EXCEPT ![s] = Job("write", ws[s], "snap", 0, top, {top + n})]
    BY <1>1 DEF Write
  <2> QED
    BY <2>1, <2>2, HolderTypes DEF IInv
<1> DEFINE bounds == {unackedAt[s]} \cup unacked[s]
<1>4. bounds \in SUBSET Nat /\ top \in bounds /\ \A k \in bounds : k <= top
  BY <1>1, <1>2 DEF IInv, Buffers
<1>5. Pieces(bounds \cup {top + n}) /\ Pieces({top, top + n})
  BY <1>4, PiecesAdd DEF Payloadwise
<1> SUFFICES ASSUME NEW t \in Side PROVE PayloadwiseOf(t)'
  BY DEF Payloadwise, PayloadwiseOf
<1>6. PayloadwiseOf(t)
  BY DEF Payloadwise, PayloadwiseOf
<1>7. Pieces({unackedAt'[t]} \cup unacked'[t])
  <2>1. CASE t = s
    <3>1. {unackedAt'[s]} \cup unacked'[s] = bounds \cup {top + n}
      BY <1>2
    <3> QED
      BY <1>5, <2>1, <3>1
  <2>2. CASE t # s
    BY <1>2, <1>6, <2>2 DEF PayloadwiseOf
  <2> QED
    BY <2>1, <2>2
<1>8. Pieces({writeMu'[t].from} \cup writeMu'[t].todo)
  <2>1. {top} \cup {top + n} = {top, top + n}
    OBVIOUS
  <2> QED
    BY <1>3, <1>5, <1>6, <2>1 DEF PayloadwiseOf
<1>9. \A c \in Conn : InFlight(c, t)' = InFlight(c, t)
  BY <1>2 DEF InFlight
<1> QED
  BY <1>6, <1>7, <1>8, <1>9 DEF PayloadwiseOf, Pieces, Adjacent

LEMMA FramesCarryPayloads ==
    ASSUME IInv, Payloadwise, NEW s \in Side, SendFrame(s)
    PROVE  Payloadwise'
<1> DEFINE old == writeMu[s]
           c == old.conn
<1>1. /\ old \in JobType /\ c \in Conn /\ old.ack \in Nat
      /\ old.from \in Nat /\ old.todo \in SUBSET Nat
      /\ \A h \in old.todo : old.from < h
  BY HolderTypes, JobFields DEF IInv, SendFrame
<1>2. PICK hi \in NextEnd(old) :
          /\ Put(s, c, [ack |-> old.ack, lo |-> old.from, hi |-> hi])
          /\ writeMu' = [writeMu EXCEPT ![s] =
                 IF old.todo \subseteq {hi} THEN Free
                 ELSE Job(old.who, c, "snap", 0, hi, old.todo \ {hi})]
  BY DEF SendFrame
<1>3. /\ hi \in Nat /\ old.from <= hi /\ \A g \in old.todo : hi <= g
      /\ hi = old.from \/ hi \in old.todo
  BY <1>1 DEF NextEnd
<1>4. PICK f \in Frame : f.lo = old.from /\ f.hi = hi /\ Put(s, c, f)
  <2>1. [ack |-> old.ack, lo |-> old.from, hi |-> hi] \in Frame
    BY <1>1, <1>3 DEF Frame
  <2> QED
    BY <1>2, <2>1
<1>5. Pieces({old.from} \cup old.todo)
  BY DEF Payloadwise
<1>6. hi \in old.todo => hi - old.from \in Chunk /\ Pieces({hi} \cup (old.todo \ {hi}))
  BY <1>1, <1>3, <1>5, PiecesFirst
<1>7. \/ writeMu'[s].from \in Nat /\ writeMu'[s].todo = {}
      \/ hi \in old.todo /\ writeMu'[s].from = hi /\ writeMu'[s].todo = old.todo \ {hi}
  <2>1. CASE old.todo \subseteq {hi}
    <3>1. writeMu'[s] = Free /\ Free.from = 0 /\ Free.todo = {}
      BY <1>2, <2>1, HolderTypes DEF IInv, Free, Job
    <3> QED
      BY <3>1
  <2>2. CASE ~(old.todo \subseteq {hi})
    <3>1. hi \in old.todo
      BY <2>2 DEF NextEnd
    <3>2. writeMu'[s] = Job(old.who, c, "snap", 0, hi, old.todo \ {hi})
      BY <1>2, <2>2, HolderTypes DEF IInv
    <3> QED
      BY <3>1, <3>2 DEF Job
  <2> QED
    BY <2>1, <2>2
<1>8. \A t \in Side : t # s => writeMu'[t] = writeMu[t]
  BY <1>2, HolderTypes DEF IInv
<1>9. \A t \in Side, d \in Conn : \A g \in InFlight(d, t)' :
          g \in InFlight(d, t) \/ (t = s /\ g = f)
  BY <1>1, <1>4, PutGrows DEF IInv
<1> SUFFICES ASSUME NEW t \in Side PROVE PayloadwiseOf(t)'
  BY DEF Payloadwise, PayloadwiseOf
<1>10. PayloadwiseOf(t)
  BY DEF Payloadwise, PayloadwiseOf
<1>11. Pieces({unackedAt'[t]} \cup unacked'[t])
  BY <1>10 DEF PayloadwiseOf, SendFrame
<1>12. Pieces({writeMu'[t].from} \cup writeMu'[t].todo)
  <2>1. CASE t = s /\ writeMu'[s].from \in Nat /\ writeMu'[s].todo = {}
    <3>1. {writeMu'[s].from} \cup {} = {writeMu'[s].from}
      OBVIOUS
    <3> QED
      BY <2>1, <3>1, PiecesOne
  <2>2. CASE t = s /\ ~(writeMu'[s].from \in Nat /\ writeMu'[s].todo = {})
    BY <1>6, <1>7, <2>2
  <2>3. CASE t # s
    BY <1>8, <1>10, <2>3 DEF PayloadwiseOf
  <2> QED
    BY <2>1, <2>2, <2>3
<1>13. \A d \in Conn : \A g \in InFlight(d, t)' : g.lo = g.hi \/ g.hi - g.lo \in Chunk
  <2>1. f.lo = f.hi \/ f.hi - f.lo \in Chunk
    BY <1>3, <1>4, <1>6
  <2> QED
    BY <1>9, <1>10, <2>1 DEF PayloadwiseOf
<1> QED
  BY <1>11, <1>12, <1>13 DEF PayloadwiseOf, Pieces, Adjacent

(* A closed conn has no live WebSocket, so only an open one reads. *)
LEMMA AckedPayloads ==
    ASSUME IInv, Payloadwise, NEW s \in Side, life[s] # "closed",
           NEW ack \in Nat, ack <= sendSeq[s], AckLocked(s, ack),
           \A t \in Side : \/ /\ writeMu'[t].from = writeMu[t].from
                              /\ writeMu'[t].todo = writeMu[t].todo
                           \/ Bare(t)
                           \/ /\ writeMu'[t].from = unackedAt'[t]
                              /\ writeMu'[t].todo = unacked'[t],
           \A t \in Side, c \in Conn : InFlight(c, t)' \subseteq InFlight(c, t)
    PROVE  Payloadwise'
<1> SUFFICES ASSUME NEW t \in Side PROVE PayloadwiseOf(t)'
  BY DEF Payloadwise, PayloadwiseOf
<1>1. PayloadwiseOf(t)
  BY DEF Payloadwise, PayloadwiseOf
<1>2. Pieces({unackedAt'[t]} \cup unacked'[t])
  <2>1. CASE t = s
    BY <1>1, <2>1, PiecesAcked DEF PayloadwiseOf
  <2>2. CASE t # s
    <3>1. unackedAt'[t] = unackedAt[t] /\ unacked'[t] = unacked[t]
      BY <2>2, Types, AckEffect DEF IInv
    <3> QED
      BY <1>1, <3>1 DEF PayloadwiseOf
  <2> QED
    BY <2>1, <2>2
<1>3. Pieces({writeMu'[t].from} \cup writeMu'[t].todo)
  <2>1. \A x : {x} \cup {} = {x}
    OBVIOUS
  <2>2. CASE writeMu'[t].from = writeMu[t].from /\ writeMu'[t].todo = writeMu[t].todo
    BY <1>1, <2>2 DEF PayloadwiseOf
  <2>3. CASE Bare(t)
    BY <2>1, <2>3, PiecesOne DEF Bare
  <2>4. CASE writeMu'[t].from = unackedAt'[t] /\ writeMu'[t].todo = unacked'[t]
    BY <1>2, <2>4
  <2> QED
    BY <2>2, <2>3, <2>4
<1> QED
  BY <1>1, <1>2, <1>3 DEF PayloadwiseOf, Pieces, Adjacent

(* What a step that neither sends nor reads does to writeMu at most. *)
LEMMA PayloadwiseTaken ==
    ASSUME TypeOK, Payloadwise, UNCHANGED <<unackedAt, unacked, wire>>,
           NEW s \in Side, NEW job, job.todo = {}, job.from \in Nat,
           writeMu' = [writeMu EXCEPT ![s] = job]
    PROVE  Payloadwise'
<1>1. \A t \in Side : JobKept(t)
  BY HolderTypes DEF JobKept, Bare
<1>2. NoPayloadSent /\ \A t \in Side : BufferKept(t)
  BY DEF InFlight, NoPayloadSent, BufferKept
<1> QED
  BY <1>1, <1>2, PayloadwiseKept

LEMMA PayloadwiseSame ==
    ASSUME Payloadwise, UNCHANGED <<unackedAt, unacked, wire, writeMu>>
    PROVE  Payloadwise'
<1>1. \A s \in Side : BufferKept(s) /\ JobKept(s)
  BY DEF BufferKept, JobKept
<1>2. NoPayloadSent
  BY DEF InFlight, NoPayloadSent
<1> QED
  BY <1>1, <1>2, PayloadwiseKept

LEMMA ReadIsPayloadwise ==
    ASSUME IInv, ClosedIdle, Payloadwise, NEW s \in Side, ReadFrame(s)
    PROVE  Payloadwise'
<1>1. PICK c \in Conn : c = reading[s]
  BY Types DEF IInv, ReadFrame
<1> DEFINE p == Peer(s)
<1>2. wire[c][p] # <<>> /\ p \in Side /\ wire' = [wire EXCEPT ![c][p] = Tail(@)]
  BY <1>1, Sides DEF ReadFrame
<1>3. \A t \in Side, d \in Conn : InFlight(d, t)' \subseteq InFlight(d, t)
  BY <1>2, TailShrinks DEF IInv
<1>4. CASE UNCHANGED <<unackedAt, unacked, writeMu>>
  <2>1. NoPayloadSent /\ \A t \in Side : BufferKept(t) /\ JobKept(t)
    BY <1>3, <1>4 DEF NoPayloadSent, BufferKept, JobKept
  <2> QED
    BY <2>1, PayloadwiseKept
<1>5. CASE ~Replaced(s, c) /\ Accept(s, c, Head(wire[c][p]))
  <2>1. PICK ack \in Nat : ack = Head(wire[c][p]).ack
    BY <1>2, FrameReadFits DEF Frame
  <2>2. ack <= sendSeq[s] /\ AckLocked(s, ack)
    BY <1>5, <2>1 DEF Accept
  <2>3. life[s] # "closed"
    BY <1>1, <1>5, Conns DEF Replaced, ClosedIdle
  <2>4. \A t \in Side : writeMu'[t] = writeMu[t] \/ Bare(t)
    <3>1. \/ writeMu' = writeMu
          \/ writeMu' = [writeMu EXCEPT ![s] = Job("ack", c, "snap", 0, sendSeq[s], {})]
      BY <1>5 DEF Accept, TryAck
    <3>2. /\ Job("ack", c, "snap", 0, sendSeq[s], {}).todo = {}
          /\ Job("ack", c, "snap", 0, sendSeq[s], {}).from = sendSeq[s]
          /\ sendSeq[s] \in Nat
      BY Types DEF IInv, Job
    <3> QED
      BY <3>1, <3>2, HolderTypes DEF IInv, Bare
  <2> QED
    BY <1>3, <2>2, <2>3, <2>4, AckedPayloads
<1> QED
  BY <1>1, <1>4, <1>5 DEF ReadFrame

LEMMA ReplyIsPayloadwise ==
    ASSUME IInv, Payloadwise, NEW s \in Side, AttachReply(s)
    PROVE  Payloadwise'
<1>1. writeMu[s] \in JobType /\ writeMu[s].phase = "await" /\ writeMu[s].conn \in Conn
  BY HolderTypes, JobFields DEF IInv, AttachReply
<1>2. PICK c \in Conn : c = writeMu[s].conn
  BY <1>1
<1> DEFINE p == Peer(s)
<1>3. wire[c][p] # <<>> /\ p \in Side /\ wire' = [wire EXCEPT ![c][p] = Tail(@)]
  BY <1>2, Sides DEF AttachReply
<1>4. PICK peer \in Nat : peer = Head(wire[c][p]).ack
  BY <1>3, FrameReadFits DEF Frame
<1>5. peer <= sendSeq[s]
  BY <1>3, <1>4, FrameReadFits
<1>6. \A t \in Side, d \in Conn : InFlight(d, t)' \subseteq InFlight(d, t)
  BY <1>3, TailShrinks DEF IInv
<1>7. Free.todo = {} /\ Free.from = 0
  BY DEF Free, Job
<1>8. CASE GiveUp(s, c)
  <2>1. \A t \in Side : writeMu'[t] = writeMu[t] \/ Bare(t)
    BY <1>7, <1>8, HolderTypes DEF IInv, GiveUp, Bare
  <2>2. CASE UNCHANGED <<unackedAt, unacked>>
    <3>1. NoPayloadSent /\ \A t \in Side : BufferKept(t) /\ JobKept(t)
      BY <1>6, <2>1, <2>2 DEF NoPayloadSent, BufferKept, JobKept
    <3> QED
      BY <3>1, PayloadwiseKept
  <2>3. CASE life[s] = "open" /\ AckLocked(s, peer)
    BY <1>5, <1>6, <2>1, <2>3, AckedPayloads
  <2> QED
    BY <1>2, <1>4, <1>8, <2>2, <2>3 DEF AttachReply
<1>9. CASE /\ life[s] = "open" /\ peer \in KeptFrom(s, peer)
           /\ AckLocked(s, peer) /\ GoLive(s, c, peer)
  <2>1. /\ unackedAt \in [Side -> Nat] /\ unacked \in [Side -> SUBSET Nat]
        /\ sendSeq \in [Side -> Nat]
    BY Types DEF IInv
  <2>2. unacked'[s] = Kept(s, peer)
    BY <1>5, <1>9, <2>1, AckEffect DEF Kept
  <2>3. unackedAt'[s] = peer
    <3>1. /\ unackedAt'[s] \in Confirmed(s, peer)
          /\ \A y \in Confirmed(s, peer) : y <= unackedAt'[s]
      BY <1>5, <1>9, <2>1, AckEffect
    <3>2. peer \in Confirmed(s, peer) /\ \A y \in Confirmed(s, peer) : y <= peer
      BY <1>9 DEF KeptFrom
    <3>3. unackedAt'[s] <= peer /\ peer <= unackedAt'[s] /\ unackedAt'[s] \in Nat
      BY <2>1, <3>1, <3>2 DEF Confirmed
    <3> QED
      BY <3>3
  <2>4. \A t \in Side : \/ writeMu'[t] = writeMu[t]
                        \/ Bare(t)
                        \/ /\ writeMu'[t].from = unackedAt'[t]
                           /\ writeMu'[t].todo = unacked'[t]
    <3>1. /\ Job("attach", c, "snap", 0, peer, Kept(s, peer)).from = peer
          /\ Job("attach", c, "snap", 0, peer, Kept(s, peer)).todo = Kept(s, peer)
      BY DEF Job
    <3>2. writeMu' = [writeMu EXCEPT ![s] = IF Kept(s, peer) = {} THEN Free
                          ELSE Job("attach", c, "snap", 0, peer, Kept(s, peer))]
      BY <1>9 DEF GoLive
    <3> QED
      BY <1>7, <2>2, <2>3, <3>1, <3>2, HolderTypes DEF IInv, Bare
  <2> QED
    BY <1>5, <1>6, <1>9, <2>4, AckedPayloads
<1> QED
  BY <1>2, <1>4, <1>8, <1>9 DEF AttachReply

LEMMA CloseIsPayloadwise ==
    ASSUME IInv, Payloadwise, NEW s \in Side, CloseFinish(s)
    PROVE  Payloadwise'
<1>1. unackedAt' = unackedAt /\ unacked' = [unacked EXCEPT ![s] = {}]
  BY DEF CloseFinish
<1>2. \A t \in Side : BufferKept(t)
  BY <1>1, Types DEF IInv, BufferKept
<1>3. \A t \in Side : JobKept(t)
  BY DEF CloseFinish, JobKept
<1>4. NoPayloadSent
  BY DEF CloseFinish, NoPayloadSent, InFlight
<1> QED
  BY <1>2, <1>3, <1>4, PayloadwiseKept

LEMMA SnapIsPayloadwise ==
    ASSUME IInv, Payloadwise, NEW s \in Side, SnapAck(s)
    PROVE  Payloadwise'
<1>1. writeMu' = [writeMu EXCEPT ![s] = [@ EXCEPT !.phase = "send", !.ack = recvSeq[s]]]
  BY DEF SnapAck
<1>2. writeMu[s].who # "free" /\ writeMu[s] \in JobType
  BY HolderTypes DEF IInv, SnapAck
<1>3. \A t \in Side : JobKept(t)
  BY <1>1, <1>2, HolderTypes DEF IInv, JobKept, JobType, Free, Job
<1>4. NoPayloadSent /\ \A t \in Side : BufferKept(t)
  BY DEF SnapAck, connVars, NoPayloadSent, BufferKept, InFlight
<1> QED
  BY <1>3, <1>4, PayloadwiseKept

LEMMA ReadFailsIsPayloadwise ==
    ASSUME IInv, Payloadwise, NEW s \in Side, ReadFails(s)
    PROVE  Payloadwise'
<1>1. PICK c \in Conn : c = reading[s]
  BY Types DEF IInv, ReadFails
<1>2. wire' = [wire EXCEPT ![c][Peer(s)] = <<>>] /\ Peer(s) \in Side
  BY <1>1, Sides DEF ReadFails
<1>3. \A t \in Side, d \in Conn : InFlight(d, t)' \subseteq InFlight(d, t)
  BY <1>2, ClearShrinks DEF IInv
<1>4. NoPayloadSent
  BY <1>3 DEF NoPayloadSent
<1>5. \A t \in Side : BufferKept(t) /\ JobKept(t)
  BY DEF ReadFails, connVars, BufferKept, JobKept
<1> QED
  BY <1>4, <1>5, PayloadwiseKept

LEMMA AttachFailsIsPayloadwise ==
    ASSUME IInv, Payloadwise, NEW s \in Side, AttachFails(s)
    PROVE  Payloadwise'
<1>1. writeMu[s] \in JobType /\ writeMu[s].phase = "await" /\ writeMu[s].conn \in Conn
  BY HolderTypes, JobFields DEF IInv, AttachFails
<1>2. PICK c \in Conn : c = writeMu[s].conn
  BY <1>1
<1>3. wire' = [wire EXCEPT ![c][Peer(s)] = <<>>] /\ Peer(s) \in Side
  BY <1>2, Sides DEF AttachFails
<1>4. \A t \in Side, d \in Conn : InFlight(d, t)' \subseteq InFlight(d, t)
  BY <1>3, ClearShrinks DEF IInv
<1>5. NoPayloadSent
  BY <1>4 DEF NoPayloadSent
<1>6. Free.todo = {} /\ Free.from = 0
  BY DEF Free, Job
<1>7. writeMu' = [writeMu EXCEPT ![s] = Free]
  BY DEF AttachFails
<1>8. \A t \in Side : JobKept(t)
  BY <1>6, <1>7, HolderTypes DEF IInv, JobKept, Bare
<1>9. \A t \in Side : BufferKept(t)
  BY DEF AttachFails, connVars, BufferKept
<1> QED
  BY <1>5, <1>8, <1>9, PayloadwiseKept

LEMMA LockIsPayloadwise ==
    ASSUME IInv, Payloadwise, NEW s \in Side, NEW c \in Conn, AttachLock(s, c)
    PROVE  Payloadwise'
<1>1. PICK f \in Frame : f.lo = f.hi /\ Put(s, c, f)
  <2>1. [ack |-> recvSeq[s], lo |-> 0, hi |-> 0] \in Frame
    BY Types DEF IInv, Frame
  <2> QED
    BY <2>1 DEF AttachLock
<1>2. NoPayloadSent
  BY <1>1, PutGrows DEF IInv, NoPayloadSent
<1>3. writeMu' = [writeMu EXCEPT ![s] = Job("attach", c, "await", recvSeq[s], 0, {})]
  BY DEF AttachLock
<1>4. /\ Job("attach", c, "await", recvSeq[s], 0, {}).from = 0
      /\ Job("attach", c, "await", recvSeq[s], 0, {}).todo = {}
  BY DEF Job
<1>5. \A t \in Side : JobKept(t)
  BY <1>3, <1>4, HolderTypes DEF IInv, JobKept, Bare
<1>6. \A t \in Side : BufferKept(t)
  BY DEF AttachLock, connVars, BufferKept
<1> QED
  BY <1>2, <1>5, <1>6, PayloadwiseKept

LEMMA PayloadwiseNext ==
    ASSUME IInv, ClosedIdle, Payloadwise, [Next]_vars PROVE Payloadwise'
<1>1. ASSUME NEW s \in Side, SideStep(s) PROVE Payloadwise'
  <2>1. CASE WriteReturn(s) \/ ReadCurrent(s) \/ PingFails(s) \/ BeatBehind(s) \/ TakeLost(s)
    <3>1. UNCHANGED <<unackedAt, unacked, wire, writeMu>>
      BY <2>1 DEF WriteReturn, ReadCurrent, PingFails, BeatBehind, TakeLost, connVars
    <3> QED
      BY <3>1, PayloadwiseSame
  <2>2. CASE SendFails(s)
    <3>1. UNCHANGED <<unackedAt, unacked, wire>> /\ writeMu' = [writeMu EXCEPT ![s] = Free]
      BY <2>2 DEF SendFails, connVars
    <3>2. Free.todo = {} /\ Free.from \in Nat
      BY DEF Free, Job
    <3> QED
      BY <3>1, <3>2, PayloadwiseTaken DEF IInv
  <2> QED
    BY <1>1, <2>1, <2>2, CloseIsPayloadwise, SnapIsPayloadwise, FramesCarryPayloads,
       ReadIsPayloadwise, ReadFailsIsPayloadwise, AttachFailsIsPayloadwise,
       ReplyIsPayloadwise DEF SideStep
<1>2. ASSUME NEW s \in Side, NEW c \in Conn, ConnStep(s, c) PROVE Payloadwise'
  <2>1. CASE BeatFlush(s, c)
    <3>1. PICK job : job = Job("beat", c, "snap", 0, sendSeq[s], {})
      OBVIOUS
    <3>2. job.todo = {} /\ job.from \in Nat
      BY <3>1, Types DEF IInv, Job
    <3>3. /\ UNCHANGED <<unackedAt, unacked, wire>>
          /\ writeMu' = [writeMu EXCEPT ![s] = job]
      BY <2>1, <3>1 DEF BeatFlush, connVars
    <3> QED
      BY <3>2, <3>3, PayloadwiseTaken DEF IInv
  <2>2. CASE AttachDetach(s, c)
    <3>1. UNCHANGED <<unackedAt, unacked, wire, writeMu>>
      BY <2>2 DEF AttachDetach, connVars
    <3> QED
      BY <3>1, PayloadwiseSame
  <2> QED
    BY <1>2, <2>1, <2>2, LockIsPayloadwise DEF ConnStep
<1>3. ASSUME Supervision PROVE Payloadwise'
  <2>1. UNCHANGED <<unackedAt, unacked, wire, writeMu>>
    BY <1>3 DEF Supervision, DialOk, DialFails, DialGone, ResumeSeen, GraceExpires, connVars
  <2> QED
    BY <2>1, PayloadwiseSame
<1>4. ASSUME NEW s \in Side, Cancel(s) \/ \E c \in Conn : Cut(c) PROVE Payloadwise'
  <2>1. UNCHANGED <<unackedAt, unacked, wire, writeMu>>
    BY <1>4 DEF Cancel, Cut, connVars
  <2> QED
    BY <2>1, PayloadwiseSame
<1>5. ASSUME UNCHANGED vars PROVE Payloadwise'
  BY <1>5, PayloadwiseSame DEF vars, connVars
<1>6. "client" \in Side
  BY DEF Side
<1> QED
  BY <1>1, <1>2, <1>3, <1>4, <1>5, <1>6, WriteIsAPayload DEF Next, Environment

-----------------------------------------------------------------------------
(* Who makes a WebSocket live, and who closes a conn.                      *)

(* Side s goes live in a step of its attach; nothing changes at its peer. *)
GoesLive(s) ==
    /\ AttachReply(s) /\ life[s] = "open" /\ life' = life
    /\ sup' = [sup EXCEPT ![s] = IF s = "client" THEN "idle" ELSE @]
    /\ \A t \in Side : t # s => ws'[t] = ws[t]

NoneGoesLive == \A s \in Side : ws'[s] \in {ws[s], NoConn}

LEMMA ReplyGoesLive ==
    ASSUME TypeOK, NEW s \in Side, AttachReply(s), ws' # ws
    PROVE  GoesLive(s)
<1>1. PICK peer : GoLive(s, writeMu[s].conn, peer) /\ life[s] = "open"
  BY DEF AttachReply, GiveUp
<1>2. \A t \in Side : t # s => ws'[t] = ws[t]
  BY <1>1, Types DEF GoLive
<1> QED
  BY <1>1, <1>2 DEF GoesLive, GoLive, endVars

LEMMA WhoGoesLive ==
    ASSUME TypeOK, [Next]_vars
    PROVE  NoneGoesLive \/ \E s \in Side : GoesLive(s)
<1>1. ws' = ws => NoneGoesLive
  BY DEF NoneGoesLive
<1>2. ASSUME NEW s \in Side, NEW c, Drop(s, c) PROVE NoneGoesLive
  BY <1>2, DropIsDropped DEF Dropped, NoneGoesLive
<1>3. ASSUME NEW s \in Side, SideStep(s) PROVE NoneGoesLive \/ GoesLive(s)
  <2>1. CASE SendFails(s) \/ ReadFails(s) \/ PingFails(s)
    BY <1>2, <2>1 DEF SendFails, ReadFails, PingFails
  <2>2. CASE CloseFinish(s)
    BY <2>2, Types DEF CloseFinish, NoneGoesLive
  <2>3. CASE AttachReply(s)
    BY <1>1, <2>3, ReplyGoesLive
  <2>4. CASE WriteReturn(s) \/ SnapAck(s) \/ SendFrame(s) \/ ReadCurrent(s)
             \/ ReadFrame(s) \/ BeatBehind(s) \/ AttachFails(s) \/ TakeLost(s)
    BY <1>1, <2>4 DEF WriteReturn, SnapAck, SendFrame, ReadCurrent, ReadFrame,
       BeatBehind, AttachFails, TakeLost
  <2> QED
    BY <1>3, <2>1, <2>2, <2>3, <2>4 DEF SideStep
<1>4. ASSUME NEW s \in Side, NEW c \in Conn, ConnStep(s, c) PROVE NoneGoesLive
  BY <1>1, <1>2, <1>4 DEF ConnStep, BeatFlush, AttachDetach, AttachLock
<1>5. ASSUME Supervision PROVE NoneGoesLive
  BY <1>1, <1>5 DEF Supervision, DialOk, DialFails, DialGone, ResumeSeen, GraceExpires
<1>6. ASSUME Environment PROVE NoneGoesLive
  BY <1>1, <1>6 DEF Environment, Cancel, Write, Cut
<1> QED
  BY <1>1, <1>3, <1>4, <1>5, <1>6 DEF Next, vars

LEMMA WhoCloses ==
    ASSUME TypeOK, [Next]_vars
    PROVE  \A s \in Side : life'[s] = "closed" => life[s] = "closed" \/ CloseFinish(s)
<1> DEFINE NoneCloses == \A s \in Side : life'[s] = "closed" => life[s] = "closed"
<1>a. life \in [Side -> {"open", "canceled", "closed"}]
  BY DEF TypeOK
<1>1. life' = life => NoneCloses
  OBVIOUS
<1>2. ASSUME NEW s, NEW why, CloseWith(s, why) PROVE NoneCloses
  BY <1>2, <1>a DEF CloseWith
<1>3. DialFailed => NoneCloses
  BY <1>1, <1>2 DEF DialFailed, endVars
<1> HIDE DEF NoneCloses
<1>4. ASSUME NEW s \in Side, SideStep(s) PROVE NoneCloses \/ CloseFinish(s)
  <2>1. CASE ReadFrame(s)
    BY <1>1, <1>2, <2>1 DEF ReadFrame, Accept, endVars
  <2>2. CASE AttachFails(s)
    BY <1>1, <1>3, <2>2 DEF AttachFails, endVars
  <2>3. CASE AttachReply(s)
    BY <1>1, <1>2, <2>3 DEF AttachReply, GoLive, endVars
  <2>4. CASE WriteReturn(s) \/ SnapAck(s) \/ SendFrame(s) \/ ReadCurrent(s)
             \/ SendFails(s) \/ ReadFails(s) \/ PingFails(s) \/ BeatBehind(s) \/ TakeLost(s)
    BY <1>1, <2>4 DEF WriteReturn, SnapAck, SendFrame, ReadCurrent, SendFails, ReadFails,
       PingFails, BeatBehind, TakeLost, endVars
  <2> QED
    BY <1>4, <2>1, <2>2, <2>3, <2>4 DEF SideStep
<1>5. ASSUME NEW s \in Side, NEW c \in Conn, ConnStep(s, c) PROVE NoneCloses
  BY <1>1, <1>5 DEF ConnStep, BeatFlush, AttachDetach, AttachLock, endVars
<1>6. ASSUME Supervision PROVE NoneCloses
  BY <1>1, <1>2, <1>3, <1>6 DEF Supervision, DialOk, DialFails, DialGone, ResumeSeen,
     GraceExpires, endVars
<1>7. ASSUME NEW s \in Side, Cancel(s) PROVE NoneCloses
  BY <1>a, <1>7 DEF Cancel, NoneCloses
<1>8. ASSUME NEW s \in Side, (\E n \in Chunk : Write(s, n)) \/ \E c \in Conn : Cut(c)
      PROVE  NoneCloses
  BY <1>1, <1>8 DEF Write, Cut, endVars
<1>9. "client" \in Side
  BY DEF Side
<1>10. CASE NoneCloses
  BY <1>10 DEF NoneCloses
<1>11. ASSUME NEW s \in Side, CloseFinish(s)
       PROVE  \A t \in Side : life'[t] = "closed" => life[t] = "closed" \/ CloseFinish(t)
  BY <1>a, <1>11 DEF CloseFinish
<1> QED
  BY <1>1, <1>4, <1>5, <1>6, <1>7, <1>8, <1>9, <1>10, <1>11
  DEF Next, Environment, vars, endVars

LEMMA ClosedIdleNext ==
    ASSUME TypeOK, ClosedIdle, [Next]_vars PROVE ClosedIdle'
<1> SUFFICES ASSUME NEW s \in Side, life'[s] = "closed" PROVE ws'[s] = NoConn
  BY DEF ClosedIdle
<1>1. CASE CloseFinish(s)
  BY <1>1, Types DEF CloseFinish
<1>2. CASE life[s] = "closed"
  BY <1>2, WhoGoesLive DEF ClosedIdle, NoneGoesLive, GoesLive
<1> QED
  BY <1>1, <1>2, WhoCloses

-----------------------------------------------------------------------------
(* Who attaches.                                                           *)

NoneAttaches == \A s \in Side, c \in Conn : Attaching(s, c)' => Attaching(s, c)

LEMMA SameAttach ==
    ASSUME UNCHANGED <<attaching, writeMu>> PROVE NoneAttaches
BY DEF NoneAttaches, Attaching

(* writeMu is given to nobody, or to somebody who does not attach. *)
LEMMA TakenNotToAttach ==
    ASSUME TypeOK, attaching' = attaching, NEW s \in Side, NEW job,
           job.phase # "await", writeMu' = [writeMu EXCEPT ![s] = job]
    PROVE  NoneAttaches
<1>1. \A t \in Side : writeMu'[t] = IF t = s THEN job ELSE writeMu[t]
  BY HolderTypes
<1> QED
  BY <1>1 DEF NoneAttaches, Attaching

LEMMA NotAwaiting ==
    /\ Free.phase # "await"
    /\ \A who, c, ack, from, todo : Job(who, c, "snap", ack, from, todo).phase # "await"
BY DEF Free, Job

LEMMA LockAttaches ==
    ASSUME TypeOK, NEW s \in Side, NEW c \in Conn, AttachLock(s, c)
    PROVE  NoneAttaches
<1>1. /\ attaching \in [Side -> [Conn -> {"none", "detach", "lock"}]]
      /\ attaching[s][c] = "lock" /\ attaching' = [attaching EXCEPT ![s][c] = "none"]
  BY Types DEF AttachLock
<1>2. \A t \in Side, d \in Conn : attaching'[t][d] # "none" => attaching[t][d] # "none"
  BY <1>1
<1>3. writeMu' = [writeMu EXCEPT ![s] = Job("attach", c, "await", recvSeq[s], 0, {})]
  BY DEF AttachLock
<1>4. Job("attach", c, "await", recvSeq[s], 0, {}).conn = c
  BY DEF Job
<1>5. \A t \in Side : writeMu'[t] = writeMu[t] \/ (t = s /\ writeMu'[t].conn = c)
  BY <1>3, <1>4, HolderTypes
<1> QED
  BY <1>1, <1>2, <1>5 DEF NoneAttaches, Attaching

LEMMA WhoAttaches == ASSUME TypeOK, [Next]_vars PROVE NoneAttaches \/ DialOk
<1>1. ASSUME NEW s \in Side, SideStep(s) PROVE NoneAttaches
  <2>1. CASE CloseFinish(s) \/ WriteReturn(s) \/ ReadCurrent(s) \/ ReadFails(s)
             \/ PingFails(s) \/ BeatBehind(s) \/ TakeLost(s)
    BY <2>1, SameAttach DEF CloseFinish, WriteReturn, ReadCurrent, ReadFails, PingFails,
       BeatBehind, TakeLost, supVars
  <2>2. CASE SnapAck(s)
    <3>1. PICK job : job = [writeMu[s] EXCEPT !.phase = "send", !.ack = recvSeq[s]]
      OBVIOUS
    <3>2. job.phase # "await"
      <4>1. writeMu[s].who # "free" /\ writeMu[s] \in JobType
        BY <2>2, HolderTypes DEF SnapAck
      <4> QED
        BY <3>1, <4>1 DEF JobType, Free, Job
    <3>3. attaching' = attaching /\ writeMu' = [writeMu EXCEPT ![s] = job]
      BY <2>2, <3>1 DEF SnapAck, supVars
    <3> QED
      BY <3>2, <3>3, TakenNotToAttach
  <2>3. CASE SendFrame(s)
    <3>1. attaching' = attaching
      BY <2>3 DEF SendFrame, supVars
    <3>2. PICK job : job.phase # "await" /\ writeMu' = [writeMu EXCEPT ![s] = job]
      <4>1. PICK hi : writeMu' = [writeMu EXCEPT ![s] =
                IF writeMu[s].todo \subseteq {hi} THEN Free
                ELSE Job(writeMu[s].who, writeMu[s].conn, "snap", 0, hi,
                         writeMu[s].todo \ {hi})]
        BY <2>3 DEF SendFrame
      <4> QED
        BY <4>1, NotAwaiting
    <3> QED
      BY <3>1, <3>2, TakenNotToAttach
  <2>4. CASE SendFails(s)
    <3>1. attaching' = attaching /\ writeMu' = [writeMu EXCEPT ![s] = Free]
      BY <2>4 DEF SendFails, supVars
    <3> QED
      BY <3>1, NotAwaiting, TakenNotToAttach
  <2>5. CASE ReadFrame(s)
    <3>1. attaching' = attaching
      BY <2>5 DEF ReadFrame, supVars
    <3>2. PICK job : job = Job("ack", reading[s], "snap", 0, sendSeq[s], {})
      OBVIOUS
    <3>3. writeMu' = writeMu \/ writeMu' = [writeMu EXCEPT ![s] = job]
      BY <2>5, <3>2 DEF ReadFrame, Accept, TryAck
    <3>4. job.phase # "await"
      BY <3>2, NotAwaiting
    <3> QED
      BY <3>1, <3>3, <3>4, SameAttach, TakenNotToAttach
  <2>6. CASE AttachFails(s)
    <3>1. attaching' = attaching /\ writeMu' = [writeMu EXCEPT ![s] = Free]
      BY <2>6 DEF AttachFails
    <3> QED
      BY <3>1, NotAwaiting, TakenNotToAttach
  <2>7. CASE AttachReply(s)
    <3>1. attaching' = attaching
      BY <2>7 DEF AttachReply
    <3>2. PICK job : job.phase # "await" /\ writeMu' = [writeMu EXCEPT ![s] = job]
      <4>1. CASE GiveUp(s, writeMu[s].conn)
        BY <4>1, NotAwaiting DEF GiveUp
      <4>2. ASSUME NEW peer, GoLive(s, writeMu[s].conn, peer)
            PROVE  \E job : job.phase # "await" /\ writeMu' = [writeMu EXCEPT ![s] = job]
        <5>1. CASE writeMu' = [writeMu EXCEPT ![s] = Free]
          BY <5>1, NotAwaiting
        <5>2. CASE writeMu' = [writeMu EXCEPT ![s] =
                      Job("attach", writeMu[s].conn, "snap", 0, peer, Kept(s, peer))]
          BY <5>2, NotAwaiting
        <5> QED
          BY <4>2, <5>1, <5>2 DEF GoLive
      <4> QED
        BY <2>7, <4>1, <4>2 DEF AttachReply
    <3> QED
      BY <3>1, <3>2, TakenNotToAttach
  <2> QED
    BY <1>1, <2>1, <2>2, <2>3, <2>4, <2>5, <2>6, <2>7 DEF SideStep
<1>2. ASSUME NEW s \in Side, NEW c \in Conn, ConnStep(s, c) PROVE NoneAttaches
  <2>1. CASE BeatFlush(s, c)
    <3>1. PICK job : job = Job("beat", c, "snap", 0, sendSeq[s], {})
      OBVIOUS
    <3>2. job.phase # "await"
      BY <3>1, NotAwaiting
    <3>3. attaching' = attaching /\ writeMu' = [writeMu EXCEPT ![s] = job]
      BY <2>1, <3>1 DEF BeatFlush, supVars
    <3> QED
      BY <3>2, <3>3, TakenNotToAttach
  <2>2. CASE AttachDetach(s, c)
    <3>1. \A t \in Side, d \in Conn : attaching'[t][d] # "none" => attaching[t][d] # "none"
      BY <2>2, Types DEF AttachDetach
    <3>2. writeMu' = writeMu
      BY <2>2 DEF AttachDetach
    <3> QED
      BY <3>1, <3>2 DEF NoneAttaches, Attaching
  <2> QED
    BY <1>2, <2>1, <2>2, LockAttaches DEF ConnStep
<1>3. ASSUME Supervision PROVE NoneAttaches \/ DialOk
  BY <1>3, SameAttach DEF Supervision, DialFails, DialGone, ResumeSeen, GraceExpires
<1>4. ASSUME NEW s \in Side, NEW n \in Chunk, Write(s, n) PROVE NoneAttaches
  <2>1. attaching' = attaching
    BY <1>4 DEF Write, supVars
  <2>2. PICK job : job = Job("write", ws[s], "snap", 0, sendSeq[s], {sendSeq[s] + n})
    OBVIOUS
  <2>3. writeMu' = writeMu \/ writeMu' = [writeMu EXCEPT ![s] = job]
    BY <1>4, <2>2 DEF Write
  <2>4. job.phase # "await"
    BY <2>2, NotAwaiting
  <2> QED
    BY <2>1, <2>3, <2>4, SameAttach, TakenNotToAttach
<1>5. ASSUME NEW s \in Side, Cancel(s) \/ \E c \in Conn : Cut(c) PROVE NoneAttaches
  BY <1>5, SameAttach DEF Cancel, Cut, supVars
<1>6. UNCHANGED vars => NoneAttaches
  BY SameAttach DEF vars, supVars
<1>7. "client" \in Side
  BY DEF Side
<1> QED
  BY <1>1, <1>2, <1>3, <1>4, <1>5, <1>6, <1>7 DEF Next, Environment

(* What the client's supervisor may have done in a step. *)
LEMMA WhoSupervises ==
    ASSUME TypeOK, [Next]_vars
    PROVE  \/ sup'["client"] = sup["client"]
           \/ TakeLost("client") \/ AttachFails("client") \/ AttachReply("client")
           \/ Redialing /\ (DialOk \/ DialFails \/ DialGone)
<1> DEFINE Same == sup'["client"] = sup["client"]
<1>a. sup \in [Side -> {"idle", "recover", "attach"}]
  BY DEF TypeOK
<1>1. sup' = sup => Same
  OBVIOUS
<1>2. \A x : sup' = [sup EXCEPT !["server"] = x] => Same
  BY <1>a
<1> HIDE DEF Same
<1>3. ASSUME NEW s \in Side, SideStep(s)
      PROVE  Same \/ (s = "client" /\ (TakeLost(s) \/ AttachFails(s) \/ AttachReply(s)))
  <2>1. CASE CloseFinish(s) \/ WriteReturn(s) \/ SnapAck(s) \/ SendFrame(s)
             \/ SendFails(s) \/ ReadCurrent(s) \/ ReadFrame(s) \/ ReadFails(s)
             \/ PingFails(s) \/ BeatBehind(s)
    BY <1>1, <2>1 DEF CloseFinish, WriteReturn, SnapAck, SendFrame, SendFails, ReadCurrent,
       ReadFrame, ReadFails, PingFails, BeatBehind, supVars
  <2>2. CASE s = "server" /\ TakeLost(s)
    BY <1>2, <2>2 DEF TakeLost
  <2>3. CASE s = "server" /\ AttachFails(s)
    BY <1>1, <2>3 DEF AttachFails
  <2>4. CASE s = "server" /\ AttachReply(s)
    BY <1>1, <1>2, <2>4 DEF AttachReply, GoLive, GiveUp
  <2> QED
    BY <1>3, <2>1, <2>2, <2>3, <2>4 DEF SideStep, Side
<1>4. ASSUME NEW s \in Side, NEW c \in Conn, ConnStep(s, c) PROVE Same
  BY <1>1, <1>4 DEF ConnStep, BeatFlush, AttachDetach, AttachLock, supVars
<1>5. ResumeSeen \/ GraceExpires => Same
  BY <1>2 DEF ResumeSeen, GraceExpires
<1>6. ASSUME Environment PROVE Same
  BY <1>1, <1>6 DEF Environment, Cancel, Write, Cut, supVars
<1>7. UNCHANGED vars => Same
  BY <1>1 DEF vars, supVars
<1>8. DialOk \/ DialFails \/ DialGone => Redialing
  BY DEF DialOk, DialFails, DialGone
<1> QED
  BY <1>3, <1>4, <1>5, <1>6, <1>7, <1>8 DEF Next, Supervision, Same

(* The end of its handshake leaves the client without an attach. *)
LEMMA HandshakeEnds ==
    ASSUME IInv, ClientAttaches, AttachFails("client") \/ AttachReply("client")
    PROVE  \A c \in Conn : ~Attaching("client", c)'
<1> DEFINE s == "client"
<1>1. s \in Side
  BY DEF Side
<1>2. writeMu[s] \in JobType /\ writeMu[s].phase = "await" /\ writeMu[s].conn \in Conn
  BY <1>1, HolderTypes, JobFields DEF IInv, AttachFails, AttachReply
<1>3. PICK c \in Conn : c = writeMu[s].conn
  BY <1>2
<1>4. Attaching(s, c) /\ attaching[s][c] = "none"
  BY <1>1, <1>2, <1>3 DEF Attaching, IInv, Stages, StageOf, Waits
<1>5. \A d \in Conn : attaching[s][d] = "none"
  BY <1>4 DEF ClientAttaches, Attaching
<1>6. attaching' = attaching
  BY DEF AttachFails, AttachReply
<1>7. writeMu'[s].phase # "await"
  <2>1. CASE writeMu' = [writeMu EXCEPT ![s] = Free]
    BY <1>1, <2>1, NotAwaiting, HolderTypes DEF IInv
  <2>2. ASSUME NEW peer, GoLive(s, c, peer) PROVE writeMu'[s].phase # "await"
    <3>1. CASE writeMu' = [writeMu EXCEPT ![s] =
                   Job("attach", c, "snap", 0, peer, Kept(s, peer))]
      BY <1>1, <3>1, NotAwaiting, HolderTypes DEF IInv
    <3> QED
      BY <2>1, <2>2, <3>1 DEF GoLive
  <2> QED
    BY <1>3, <2>1, <2>2 DEF AttachFails, AttachReply, GiveUp
<1> QED
  BY <1>5, <1>6, <1>7 DEF Attaching

LEMMA DialAttaches ==
    ASSUME TypeOK, ClientAttaches, DialOk PROVE ClientAttaches'
<1> DEFINE new == dialed + 1
<1>1. /\ sup["client"] = "recover" /\ writeMu' = writeMu /\ ws' = ws
      /\ attaching' = [s \in Side |-> [attaching[s] EXCEPT ![new] = "detach"]]
      /\ sup' = [sup EXCEPT !["client"] = "attach"]
  BY DEF DialOk, Redialing
<1>2. \A c \in Conn : ~Attaching("client", c)
  BY <1>1 DEF ClientAttaches
<1>3. \A c \in Conn : c # new => attaching'["client"][c] = attaching["client"][c]
  BY <1>1, Types DEF Side
<1>4. \A c \in Conn : Attaching("client", c)' => c = new
  BY <1>1, <1>2, <1>3 DEF Attaching
<1>5. sup'["client"] = "attach" /\ ws'["client"] = NoConn
  BY <1>1 DEF ClientAttaches, TypeOK, Side
<1> QED
  BY <1>4, <1>5 DEF ClientAttaches

LEMMA ClientAttachesNext ==
    ASSUME IInv, ClientAttaches, [Next]_vars PROVE ClientAttaches'
<1>a. TypeOK /\ "client" \in Side /\ sup \in [Side -> {"idle", "recover", "attach"}]
  BY DEF IInv, TypeOK, Side
<1>1. sup'["client"] # "idle" => ws'["client"] = NoConn
  <2>1. CASE NoneGoesLive
    <3>1. AttachFails("client") \/ AttachReply("client") => sup["client"] = "attach"
      <4>1. ASSUME writeMu["client"].phase = "await" PROVE sup["client"] = "attach"
        <5>1. writeMu["client"].conn \in Conn
          BY <1>a, <4>1, HolderTypes, JobFields
        <5> QED
          BY <4>1, <5>1 DEF ClientAttaches, Attaching
      <4> QED
        BY <4>1 DEF AttachFails, AttachReply
    <3>2. TakeLost("client") /\ sup'["client"] # "idle" => ws["client"] = NoConn
      BY <1>a DEF TakeLost
    <3> QED
      BY <1>a, <2>1, <3>1, <3>2, WhoSupervises DEF NoneGoesLive, ClientAttaches, Redialing
  <2>2. CASE GoesLive("client")
    BY <1>a, <2>2 DEF GoesLive
  <2>3. CASE GoesLive("server")
    BY <1>a, <2>3 DEF GoesLive, ClientAttaches
  <2> QED
    BY <1>a, <2>1, <2>2, <2>3, WhoGoesLive DEF Side
<1>2. ASSUME NEW c \in Conn, Attaching("client", c)', ~DialOk
      PROVE  /\ sup'["client"] = "attach"
             /\ \A d \in Conn : Attaching("client", d)' => d = c
  <2>1. NoneAttaches
    BY <1>a, <1>2, WhoAttaches
  <2>2. Attaching("client", c)
    BY <1>a, <1>2, <2>1 DEF NoneAttaches
  <2>3. \A d \in Conn : Attaching("client", d)' => d = c
    BY <1>a, <2>1, <2>2 DEF NoneAttaches, ClientAttaches
  <2>4. sup["client"] = "attach"
    BY <2>2 DEF ClientAttaches
  <2>5. ~AttachFails("client") /\ ~AttachReply("client")
    BY <1>2, HandshakeEnds
  <2>6. ~TakeLost("client") /\ ~Redialing
    BY <2>4 DEF TakeLost, Redialing
  <2> QED
    BY <1>a, <2>3, <2>4, <2>5, <2>6, WhoSupervises
<1>3. CASE DialOk
  BY <1>a, <1>3, DialAttaches
<1> QED
  BY <1>1, <1>2, <1>3 DEF ClientAttaches

-----------------------------------------------------------------------------
(* The server's hello.                                                     *)

(* Who takes anything out of a replay buffer. *)
BufferGrows(s) == unackedAt'[s] = unackedAt[s] /\ unacked[s] \subseteq unacked'[s]

LEMMA AckOfOne ==
    ASSUME TypeOK, NEW s \in Side, NEW ack, AckLocked(s, ack)
    PROVE  \A t \in Side : t # s => BufferGrows(t)
<1>1. unackedAt \in [Side -> Nat] /\ unacked \in [Side -> SUBSET Nat]
  BY Types
<1>2. /\ unackedAt' = unackedAt \/ \E x : unackedAt' = [unackedAt EXCEPT ![s] = x]
      /\ unacked' = unacked \/ unacked' = [unacked EXCEPT ![s] = Kept(s, ack)]
  BY DEF AckLocked
<1> QED
  BY <1>1, <1>2 DEF BufferGrows

LEMMA WhoTakes ==
    ASSUME TypeOK, [Next]_vars
    PROVE  \A s \in Side :
               \/ BufferGrows(s)
               \/ CloseFinish(s)
               \/ AttachReply(s)
               \/ ReadFrame(s) /\ ws[s] = reading[s]
<1> DEFINE Grow == \A s \in Side : BufferGrows(s)
           Takes(s) == CloseFinish(s) \/ AttachReply(s) \/ (ReadFrame(s) /\ ws[s] = reading[s])
<1>a. unackedAt \in [Side -> Nat] /\ unacked \in [Side -> SUBSET Nat]
  BY Types
<1>1. UNCHANGED <<unackedAt, unacked>> => Grow
  BY DEF BufferGrows
<1>2. ASSUME NEW s \in Side, SideStep(s)
      PROVE  Grow \/ (Takes(s) /\ \A t \in Side : t # s => BufferGrows(t))
  <2>1. CASE WriteReturn(s) \/ SnapAck(s) \/ SendFrame(s) \/ SendFails(s)
             \/ ReadCurrent(s) \/ ReadFails(s) \/ PingFails(s) \/ BeatBehind(s)
             \/ AttachFails(s) \/ TakeLost(s)
    <3>1. UNCHANGED <<unackedAt, unacked>>
      BY <2>1 DEF WriteReturn, SnapAck, SendFrame, SendFails, ReadCurrent, ReadFails,
         PingFails, BeatBehind, AttachFails, TakeLost, connVars
    <3> QED
      BY <1>1, <3>1
  <2>2. CASE CloseFinish(s)
    BY <1>a, <2>2 DEF CloseFinish, BufferGrows
  <2>3. CASE ReadFrame(s)
    <3>1. CASE Replaced(s, reading[s])
      BY <1>1, <2>3, <3>1 DEF ReadFrame
    <3>2. CASE ~Replaced(s, reading[s])
      <4>1. \A t \in Side : t # s => BufferGrows(t)
        BY <1>1, <2>3, AckOfOne DEF ReadFrame, Accept
      <4> QED
        BY <2>3, <3>2, <4>1 DEF Replaced
    <3> QED
      BY <3>1, <3>2
  <2>4. CASE AttachReply(s)
    <3>1. \A t \in Side : t # s => BufferGrows(t)
      BY <1>1, <2>4, AckOfOne DEF AttachReply
    <3> QED
      BY <2>4, <3>1
  <2> QED
    BY <1>2, <2>1, <2>2, <2>3, <2>4 DEF SideStep
<1>3. ASSUME NEW s \in Side, NEW c \in Conn, ConnStep(s, c) PROVE Grow
  <2>1. UNCHANGED <<unackedAt, unacked>>
    BY <1>3 DEF ConnStep, BeatFlush, AttachDetach, AttachLock, connVars
  <2> QED
    BY <1>1, <2>1
<1>4. ASSUME Supervision PROVE Grow
  <2>1. UNCHANGED <<unackedAt, unacked>>
    BY <1>4 DEF Supervision, DialOk, DialFails, DialGone, ResumeSeen, GraceExpires, connVars
  <2> QED
    BY <1>1, <2>1
<1>5. ASSUME NEW s \in Side, NEW n \in Chunk, Write(s, n) PROVE Grow
  <2>1. unackedAt' = unackedAt /\ unacked' = [unacked EXCEPT ![s] = @ \cup {sendSeq[s] + n}]
    BY <1>5 DEF Write
  <2> QED
    BY <1>a, <2>1 DEF BufferGrows
<1>6. ASSUME NEW s \in Side, Cancel(s) \/ \E c \in Conn : Cut(c) PROVE Grow
  BY <1>1, <1>6 DEF Cancel, Cut, connVars
<1>7. UNCHANGED vars => Grow
  BY <1>1 DEF vars, connVars
<1>8. "client" \in Side
  BY DEF Side
<1> HIDE DEF Takes, Grow
<1>9. Grow \/ \E s \in Side : Takes(s) /\ \A t \in Side : t # s => BufferGrows(t)
  BY <1>2, <1>3, <1>4, <1>5, <1>6, <1>7, <1>8 DEF Next, Environment
<1>10. CASE Grow
  BY <1>10 DEF Grow
<1>11. CASE \E s \in Side : Takes(s) /\ \A t \in Side : t # s => BufferGrows(t)
  <2>1. PICK s \in Side : Takes(s) /\ \A t \in Side : t # s => BufferGrows(t)
    BY <1>11
  <2> SUFFICES ASSUME NEW t \in Side PROVE BufferGrows(t) \/ Takes(t)
    BY DEF Takes
  <2> QED
    BY <2>1
<1> QED
  BY <1>9, <1>10, <1>11

(* Who changes the first frame of wire[c]["server"]. *)
FirstKept(c) ==
    wire'[c]["server"] # <<>> =>
        wire[c]["server"] # <<>> /\ wire'[c]["server"][1] = wire[c]["server"][1]

LEMMA PutKeepsFirst ==
    ASSUME TypeOK, NEW s \in Side, NEW c \in Conn, NEW f \in Frame, Put(s, c, f)
    PROVE  \A d \in Conn : FirstKept(d) \/ (s = "server" /\ d = c /\ wire[d]["server"] = <<>>
                                            /\ wire'[d]["server"][1] = f)
<1> SUFFICES ASSUME NEW d \in Conn
             PROVE  FirstKept(d) \/ (s = "server" /\ d = c /\ wire[d]["server"] = <<>>
                                     /\ wire'[d]["server"][1] = f)
  OBVIOUS
<1>1. wire \in [Conn -> [Side -> Frames]] /\ wire[d]["server"] \in Frames
  BY WireTypes DEF Side
<1>2. \/ wire'[d]["server"] = wire[d]["server"]
      \/ /\ s = "server" /\ d = c
         /\ wire'[d]["server"] = Append(wire[d]["server"], f)
  <2>1. CASE Peer(s) \in dead[c]
    BY <2>1 DEF Put
  <2>2. CASE Peer(s) \notin dead[c]
    <3>1. wire' = [wire EXCEPT ![c][s] = Append(@, f)]
      BY <2>2 DEF Put
    <3> QED
      BY <1>1, <3>1 DEF Side
  <2> QED
    BY <2>1, <2>2
<1>3. ASSUME wire'[d]["server"] = Append(wire[d]["server"], f)
      PROVE  \/ wire[d]["server"] = <<>> /\ wire'[d]["server"][1] = f
             \/ wire[d]["server"] # <<>> /\ wire'[d]["server"][1] = wire[d]["server"][1]
  BY <1>1, <1>3 DEF Frames
<1> QED
  BY <1>2, <1>3 DEF FirstKept

(* A step that takes a frame that the client sent, or drops frames. *)
LEMMA OtherWireKeepsFirst ==
    ASSUME TypeOK, NEW c \in Conn, NEW s \in Side, NEW q,
           q = <<>> \/ s = "client", wire' = [wire EXCEPT ![c][s] = q]
    PROVE  \A d \in Conn : FirstKept(d)
<1>1. \A d \in Conn : wire'[d]["server"] = wire[d]["server"] \/ wire'[d]["server"] = <<>>
  BY WireTypes DEF Side
<1> QED
  BY <1>1 DEF FirstKept

(* The server's new hello on c tells where it stands. *)
SaysHello(c) == AttachLock("server", c) /\ wire'[c]["server"][1].ack = recvSeq["server"]

LEMMA WhoSays ==
    ASSUME TypeOK, [Next]_vars
    PROVE  \A c \in Conn :
               \/ FirstKept(c)
               \/ SaysHello(c)
               \/ /\ SendFrame("server") /\ c = writeMu["server"].conn
                  /\ wire[c]["server"] = <<>>
               \/ ReadFrame("client") /\ c = reading["client"]
               \/ AttachReply("client")
<1> DEFINE AllKept == \A c \in Conn : FirstKept(c)
           Sent(c) == /\ SendFrame("server") /\ c = writeMu["server"].conn
                      /\ wire[c]["server"] = <<>>
           Reads1(c) == ReadFrame("client") /\ c = reading["client"]
           Cases(c) == FirstKept(c) \/ SaysHello(c) \/ Sent(c) \/ Reads1(c)
                           \/ AttachReply("client")
<1>a. wire \in [Conn -> [Side -> Frames]] /\ \A s \in Side : Peer(s) \in Side
  BY WireTypes, Sides
<1>b. Peer("client") = "server" /\ Peer("server") = "client"
  BY DEF Peer
<1>1. wire' = wire => AllKept
  BY DEF FirstKept
<1>2. ASSUME NEW s \in Side, SideStep(s) PROVE \A c \in Conn : Cases(c)
  <2>1. CASE CloseFinish(s) \/ WriteReturn(s) \/ SnapAck(s) \/ SendFails(s)
             \/ ReadCurrent(s) \/ PingFails(s) \/ BeatBehind(s) \/ TakeLost(s)
    BY <1>1, <2>1 DEF CloseFinish, WriteReturn, SnapAck, SendFails, ReadCurrent, PingFails,
       BeatBehind, TakeLost
  <2>2. CASE SendFrame(s)
    <3>1. writeMu[s] \in JobType /\ writeMu[s].phase = "send"
      BY <2>2, HolderTypes DEF SendFrame
    <3>2. writeMu[s].conn \in Conn /\ writeMu[s].ack \in Nat /\ writeMu[s].from \in Nat
          /\ writeMu[s].todo \in SUBSET Nat /\ \A h \in writeMu[s].todo : writeMu[s].from < h
      BY <3>1, JobFields
    <3>3. PICK hi \in NextEnd(writeMu[s]) :
              Put(s, writeMu[s].conn, [ack |-> writeMu[s].ack, lo |-> writeMu[s].from, hi |-> hi])
      BY <2>2 DEF SendFrame
    <3>4. [ack |-> writeMu[s].ack, lo |-> writeMu[s].from, hi |-> hi] \in Frame
      <4>1. hi \in Nat /\ writeMu[s].from <= hi
        BY <3>2 DEF NextEnd
      <4> QED
        BY <3>2, <4>1 DEF Frame
    <3> QED
      BY <2>2, <3>2, <3>3, <3>4, PutKeepsFirst
  <2>3. CASE ReadFrame(s)
    <3>1. PICK c \in Conn : c = reading[s]
      BY <2>3, Types DEF ReadFrame
    <3>2. wire' = [wire EXCEPT ![c][Peer(s)] = Tail(@)]
      BY <2>3, <3>1 DEF ReadFrame
    <3>3. CASE s = "client"
      <4>1. \A d \in Conn : d # c => wire'[d]["server"] = wire[d]["server"]
        BY <1>a, <3>2
      <4> QED
        BY <2>3, <3>1, <3>3, <4>1 DEF FirstKept
    <3>4. CASE s = "server"
      <4>1. \A d \in Conn : wire'[d]["server"] = wire[d]["server"]
        BY <1>a, <1>b, <3>2, <3>4 DEF Side
      <4> QED
        BY <4>1 DEF FirstKept
    <3> QED
      BY <3>3, <3>4 DEF Side
  <2>4. CASE ReadFails(s) \/ AttachFails(s)
    <3>1. PICK c \in Conn : wire' = [wire EXCEPT ![c][Peer(s)] = <<>>]
      <4>1. writeMu[s] \in JobType
        BY HolderTypes
      <4>2. AttachFails(s) => writeMu[s].conn \in Conn
        BY <4>1, JobFields DEF AttachFails
      <4>3. ReadFails(s) => reading[s] \in Conn
        BY Types DEF ReadFails
      <4> QED
        BY <2>4, <4>2, <4>3 DEF ReadFails, AttachFails
    <3>2. AllKept
      BY <1>a, <3>1, OtherWireKeepsFirst
    <3> QED
      BY <3>2
  <2>5. CASE AttachReply(s)
    <3>1. CASE s = "server"
      <4>1. wire' = [wire EXCEPT ![writeMu[s].conn]["client"] = Tail(@)]
        BY <1>b, <2>5, <3>1 DEF AttachReply
      <4>2. \A d \in Conn : wire'[d]["server"] = wire[d]["server"]
        BY <1>a, <4>1 DEF Side
      <4> QED
        BY <4>2 DEF FirstKept
    <3> QED
      BY <2>5, <3>1 DEF Side
  <2> QED
    BY <1>2, <2>1, <2>2, <2>3, <2>4, <2>5 DEF SideStep
<1>3. ASSUME NEW s \in Side, NEW c \in Conn, ConnStep(s, c) PROVE \A d \in Conn : Cases(d)
  <2>1. CASE AttachLock(s, c)
    <3>1. PICK f \in Frame : f.ack = recvSeq[s] /\ Put(s, c, f)
      <4>1. [ack |-> recvSeq[s], lo |-> 0, hi |-> 0] \in Frame
        BY Types DEF Frame
      <4> QED
        BY <2>1, <4>1 DEF AttachLock
    <3> QED
      BY <2>1, <3>1, PutKeepsFirst DEF SaysHello
  <2>2. CASE BeatFlush(s, c) \/ AttachDetach(s, c)
    BY <1>1, <2>2 DEF BeatFlush, AttachDetach
  <2> QED
    BY <1>3, <2>1, <2>2 DEF ConnStep
<1>4. Supervision => AllKept
  BY <1>1 DEF Supervision, DialOk, DialFails, DialGone, ResumeSeen, GraceExpires
<1>5. Environment => AllKept
  BY <1>1 DEF Environment, Cancel, Write, Cut
<1>6. UNCHANGED vars => AllKept
  BY <1>1 DEF vars
<1>7. AllKept => \A c \in Conn : Cases(c)
  OBVIOUS
<1> HIDE DEF AllKept, Cases
<1>8. \A c \in Conn : Cases(c)
  BY <1>2, <1>3, <1>4, <1>5, <1>6, <1>7 DEF Next
<1> QED
  BY <1>8 DEF Cases

(* A closed conn stays closed. *)
LEMMA ClosedForGood ==
    ASSUME TypeOK, [Next]_vars
    PROVE  \A s \in Side : life[s] = "closed" => life'[s] = "closed"
<1> DEFINE Goal == \A s \in Side : life[s] = "closed" => life'[s] = "closed"
<1>a. life \in [Side -> {"open", "canceled", "closed"}]
  BY DEF TypeOK
<1>1. life' = life => Goal
  OBVIOUS
<1>2. ASSUME NEW s, NEW why, CloseWith(s, why) PROVE Goal
  BY <1>2, <1>a DEF CloseWith
<1>3. DialFailed => Goal
  BY <1>1, <1>2 DEF DialFailed, endVars
<1>4. ASSUME NEW s \in Side, Cancel(s) \/ CloseFinish(s) PROVE Goal
  BY <1>4, <1>a DEF Cancel, CloseFinish
<1> HIDE DEF Goal
<1>5. ASSUME NEW s \in Side, SideStep(s) PROVE Goal
  <2>1. CASE ReadFrame(s)
    BY <1>1, <1>2, <2>1 DEF ReadFrame, Accept, endVars
  <2>2. CASE AttachFails(s)
    BY <1>1, <1>3, <2>2 DEF AttachFails, endVars
  <2>3. CASE AttachReply(s)
    BY <1>1, <1>2, <2>3 DEF AttachReply, GoLive, endVars
  <2>4. CASE WriteReturn(s) \/ SnapAck(s) \/ SendFrame(s) \/ ReadCurrent(s)
             \/ SendFails(s) \/ ReadFails(s) \/ PingFails(s) \/ BeatBehind(s) \/ TakeLost(s)
    BY <1>1, <2>4 DEF WriteReturn, SnapAck, SendFrame, ReadCurrent, SendFails, ReadFails,
       PingFails, BeatBehind, TakeLost, endVars
  <2> QED
    BY <1>4, <1>5, <2>1, <2>2, <2>3, <2>4 DEF SideStep
<1>6. ASSUME NEW s \in Side, NEW c \in Conn, ConnStep(s, c) PROVE Goal
  BY <1>1, <1>6 DEF ConnStep, BeatFlush, AttachDetach, AttachLock, endVars
<1>7. Supervision => Goal
  BY <1>1, <1>2, <1>3 DEF Supervision, DialOk, DialFails, DialGone, ResumeSeen,
     GraceExpires, endVars
<1>8. ASSUME NEW s \in Side, (\E n \in Chunk : Write(s, n)) \/ \E c \in Conn : Cut(c)
      PROVE  Goal
  BY <1>1, <1>8 DEF Write, Cut, endVars
<1>9. "client" \in Side
  BY DEF Side
<1>10. Goal
  BY <1>1, <1>4, <1>5, <1>6, <1>7, <1>8, <1>9 DEF Next, Environment, vars, endVars
<1> QED
  BY <1>10 DEF Goal

(***************************************************************************)
(* Between the hellos nothing moves the client's replay buffer but Write,  *)
(* and nobody takes the server's hello but the attach it is for.           *)
(***************************************************************************)
LEMMA HelloFitsNext ==
    ASSUME IInv, ClientAttaches, HelloFits, [Next]_vars PROVE HelloFits'
<1> SUFFICES ASSUME NEW c \in Conn, Attaching("client", c)', wire'[c]["server"] # <<>>,
                    life'["client"] # "closed"
             PROVE  /\ unackedAt'["client"] <= wire'[c]["server"][1].ack
                    /\ \/ wire'[c]["server"][1].ack <= unackedAt'["client"]
                       \/ wire'[c]["server"][1].ack \in unacked'["client"]
  BY DEF HelloFits, Boundary
<1>a. TypeOK /\ Side = {"client", "server"} /\ "client" \in Side /\ "server" \in Side
  BY DEF IInv, Side
<1>b. Peer("client") = "server" /\ Peer("server") = "client"
  BY DEF Peer
<1>1. Attaching("client", c) \/ DialOk
  BY <1>a, WhoAttaches DEF NoneAttaches
<1>2. life["client"] # "closed"
  BY <1>a, ClosedForGood
<1>3. CASE DialOk
  <2>1. /\ Redialing /\ wire' = wire /\ writeMu' = writeMu
        /\ attaching' = [s \in Side |-> [attaching[s] EXCEPT ![dialed + 1] = "detach"]]
    BY <1>3 DEF DialOk
  <2>2. ~Attaching("client", c)
    BY <2>1 DEF ClientAttaches, Redialing
  <2>3. c = dialed + 1
    BY <1>a, <2>1, <2>2, Types DEF Attaching
  <2>4. c > dialed
    <3>1. dialed \in Nat
      BY <1>a, Types, Conns
    <3> QED
      BY <2>3, <3>1
  <2>5. wire[c]["server"] = <<>>
    BY <1>a, <2>4 DEF IInv, Stages, StageOf
  <2> QED
    BY <2>1, <2>5
<1>4. CASE Attaching("client", c) /\ ~DialOk
  <2>1. /\ "client" \notin dead[c] /\ ws["client"] # c /\ ws["client"] = NoConn
    <3>1. ws["client"] = NoConn
      BY <1>4 DEF ClientAttaches
    <3>2. ws["client"] # c
      BY <3>1, Conns
    <3>3. StageOf("client", c)
      BY <1>a DEF IInv, Stages
    <3>4. "client" \notin dead[c]
      BY <1>4, <3>3 DEF Attaching, StageOf, Waits
    <3> QED
      BY <3>1, <3>2, <3>4
  <2>2. ~AttachReply("client")
    BY HandshakeEnds
  <2>3. ~CloseFinish("client")
    BY <1>a DEF CloseFinish, TypeOK
  <2>4. ~(ReadFrame("client") /\ ws["client"] = reading["client"])
    BY <2>1 DEF ReadFrame
  <2>5. BufferGrows("client")
    BY <1>a, <2>2, <2>3, <2>4, WhoTakes
  <2>6. ~(ReadFrame("client") /\ c = reading["client"])
    BY <1>a, <2>1, Conns DEF IInv, Users, WasLive
  <2>7. \/ /\ wire[c]["server"] # <<>>
           /\ wire'[c]["server"][1] = wire[c]["server"][1]
        \/ wire'[c]["server"][1].ack = recvSeq["server"]
    <3>1. CASE FirstKept(c)
      BY <3>1 DEF FirstKept
    <3>2. CASE SaysHello(c)
      BY <3>2 DEF SaysHello
    <3>3. ASSUME SendFrame("server"), c = writeMu["server"].conn, wire[c]["server"] = <<>>
          PROVE  FALSE
      <4>1. "server" \notin dead[c] /\ writeMu["server"].phase = "send"
        BY <3>3 DEF SendFrame
      <4>2. writeMu["server"].who # "free"
        BY <1>a, <4>1, HolderTypes, JobFields
      <4>3. ws["server"] = c
        BY <1>a, <3>3, <4>1, <4>2 DEF IInv, Users, WasLive
      <4>4. Channel("server", "client", c)
        BY <1>a, <1>b DEF IInv, Channels
      <4>5. ToWaiting("server", "client", c)
        BY <2>1, <4>4 DEF Channel
      <4> QED
        BY <3>3, <4>3, <4>5 DEF ToWaiting
    <3> QED
      BY <1>a, <2>2, <2>6, <3>1, <3>2, <3>3, WhoSays
  <2>8. CASE wire'[c]["server"][1].ack = recvSeq["server"]
    <3>1. unackedAt["client"] <= recvSeq["server"] /\ Boundary("client", recvSeq["server"])
      BY <1>2, <1>a, <1>b DEF IInv, Boundaries
    <3> QED
      BY <2>5, <2>8, <3>1 DEF BufferGrows, Boundary
  <2>9. CASE /\ wire[c]["server"] # <<>>
             /\ wire'[c]["server"][1] = wire[c]["server"][1]
    <3>1. PICK peer : peer = wire[c]["server"][1].ack
      OBVIOUS
    <3>2. unackedAt["client"] <= peer /\ Boundary("client", peer)
      BY <1>2, <1>4, <2>9, <3>1 DEF HelloFits
    <3> QED
      BY <2>5, <2>9, <3>1, <3>2 DEF BufferGrows, Boundary
  <2> QED
    BY <2>7, <2>8, <2>9
<1> QED
  BY <1>1, <1>3, <1>4

-----------------------------------------------------------------------------
(* The client's view of the server.                                        *)

(* The position in the server's hello is one at which the replay can start. *)
LEMMA HelloIsAccepted ==
    ASSUME IInv, HelloFits, life["client"] # "closed", NEW c \in Conn,
           Waits("client", c), wire[c]["server"] # <<>>,
           NEW peer \in Nat, peer = Head(wire[c]["server"]).ack
    PROVE  peer <= sendSeq["client"] /\ peer \in KeptFrom("client", peer)
<1>a. "client" \in Side /\ "server" \in Side /\ Peer("client") = "server"
  BY DEF Side, Peer
<1>1. peer <= sendSeq["client"]
  BY <1>a, FrameReadFits
<1>2. peer = wire[c]["server"][1].ack
  BY <1>a, WireTypes, HeadIsFirst DEF IInv
<1>3. unackedAt["client"] <= peer /\ Boundary("client", peer)
  BY <1>2 DEF HelloFits, Attaching, Waits
<1>4. unackedAt["client"] \in Nat /\ unacked["client"] \in SUBSET Nat
  BY <1>a, Types DEF IInv
<1>5. \A y \in Confirmed("client", peer) : y <= peer
  BY <1>3, <1>4 DEF Confirmed, Kept
<1>6. peer \in Confirmed("client", peer)
  BY <1>3, <1>4 DEF Confirmed, Kept, Boundary
<1> QED
  BY <1>1, <1>5, <1>6 DEF KeptFrom

LEMMA ClientSatisfiedNext ==
    ASSUME IInv, HelloFits, ClientSatisfied, [Next]_vars PROVE ClientSatisfied'
<1>a. /\ "client" \in Side /\ "server" \in Side /\ Side = {"client", "server"}
      /\ Peer("client") = "server"
      /\ cause \in [Side -> {"nil", "protocol", "gone", "budget", "grace"}]
  BY DEF Side, Peer, IInv, TypeOK
<1>1. cause' = cause => ClientSatisfied'
  BY DEF ClientSatisfied
<1>2. ASSUME NEW s, NEW why, CloseWith(s, why), s = "server" \/ why # "protocol"
      PROVE  ClientSatisfied'
  BY <1>2, <1>a DEF CloseWith, ClientSatisfied
<1>3. DialFailed => ClientSatisfied'
  BY <1>1, <1>2 DEF DialFailed, endVars
<1>4. ASSUME ReadFrame("client") PROVE ClientSatisfied'
  <2>1. PICK c \in Conn : c = reading["client"]
    BY <1>a, <1>4, Types DEF IInv, ReadFrame
  <2>2. wire[c]["server"] # <<>>
    BY <1>a, <1>4, <2>1 DEF ReadFrame
  <2>3. PICK ack \in Nat : ack = Head(wire[c]["server"]).ack /\ ack <= sendSeq["client"]
    BY <1>a, <2>2, FrameReadFits DEF Frame
  <2>4. ~(ack > sendSeq["client"])
    BY <1>a, <2>3, Types DEF IInv
  <2> QED
    BY <1>1, <1>4, <1>a, <2>1, <2>3, <2>4 DEF ReadFrame, Accept, endVars
<1>5. ASSUME AttachReply("client") PROVE ClientSatisfied'
  <2>1. writeMu["client"].phase = "await" /\ writeMu["client"].conn \in Conn
    BY <1>a, <1>5, HolderTypes, JobFields DEF IInv, AttachReply
  <2>2. PICK c \in Conn : c = writeMu["client"].conn
    BY <2>1
  <2>3. wire[c]["server"] # <<>>
    BY <1>a, <1>5, <2>2 DEF AttachReply
  <2>4. PICK peer \in Nat : peer = Head(wire[c]["server"]).ack
    BY <1>a, <2>3, FrameReadFits DEF Frame
  <2>5. Waits("client", c)
    BY <2>1, <2>2 DEF Waits
  <2>6. life["client"] = "open" =>
            peer <= sendSeq["client"] /\ peer \in KeptFrom("client", peer)
    BY <2>3, <2>4, <2>5, HelloIsAccepted
  <2>7. UNCHANGED endVars
    BY <1>5, <1>a, <2>2, <2>4, <2>6 DEF AttachReply, GoLive
  <2> QED
    BY <1>1, <2>7 DEF endVars
<1>6. ASSUME NEW s \in Side, SideStep(s) PROVE ClientSatisfied'
  <2>1. CASE ReadFrame(s)
    BY <1>1, <1>2, <1>4, <1>a, <2>1 DEF ReadFrame, Accept, endVars
  <2>2. CASE AttachFails(s)
    BY <1>1, <1>3, <2>2 DEF AttachFails, endVars
  <2>3. CASE AttachReply(s)
    BY <1>1, <1>2, <1>5, <1>a, <2>3 DEF AttachReply, GoLive, endVars
  <2>4. CASE CloseFinish(s) \/ WriteReturn(s) \/ SnapAck(s) \/ SendFrame(s)
             \/ ReadCurrent(s) \/ SendFails(s) \/ ReadFails(s) \/ PingFails(s)
             \/ BeatBehind(s) \/ TakeLost(s)
    BY <1>1, <2>4 DEF CloseFinish, WriteReturn, SnapAck, SendFrame, ReadCurrent, SendFails,
       ReadFails, PingFails, BeatBehind, TakeLost, endVars
  <2> QED
    BY <1>6, <2>1, <2>2, <2>3, <2>4 DEF SideStep
<1>7. ASSUME NEW s \in Side, NEW c \in Conn, ConnStep(s, c) PROVE ClientSatisfied'
  BY <1>1, <1>7 DEF ConnStep, BeatFlush, AttachDetach, AttachLock, endVars
<1>8. Supervision => ClientSatisfied'
  BY <1>1, <1>2, <1>3 DEF Supervision, DialOk, DialFails, DialGone, ResumeSeen,
     GraceExpires, endVars
<1>9. Environment => ClientSatisfied'
  BY <1>1 DEF Environment, Cancel, Write, Cut, endVars
<1>10. UNCHANGED vars => ClientSatisfied'
  BY <1>1 DEF vars, endVars
<1> QED
  BY <1>6, <1>7, <1>8, <1>9, <1>10 DEF Next

LEMMA PromiseInit == Init => PromiseInv
<1> SUFFICES ASSUME Init PROVE PromiseInv
  OBVIOUS
<1>a. "client" \in Side /\ "server" \in Side
  BY DEF Side
<1>1. /\ \A s \in Side : life[s] = "open" /\ cause[s] = "nil" /\ sup[s] = "idle"
      /\ \A c \in Conn : wire[c]["server"] = <<>> /\ attaching["client"][c] = "none"
      /\ writeMu["client"] = Free /\ Free.phase # "await"
  BY <1>a, NotAwaiting DEF Init
<1>2. \A c \in Conn : ~Attaching("client", c)
  BY <1>1 DEF Attaching
<1>3. ClosedIdle
  BY <1>1 DEF ClosedIdle
<1>4. ClientAttaches
  BY <1>a, <1>1, <1>2 DEF ClientAttaches
<1>5. HelloFits
  BY <1>1 DEF HelloFits
<1>6. ClientSatisfied
  BY <1>a, <1>1 DEF ClientSatisfied
<1> QED
  BY <1>3, <1>4, <1>5, <1>6, PayloadwiseInit DEF PromiseInv

(***************************************************************************)
(* Everything that is kept, sent and replayed are payloads of Write calls, *)
(* a closed conn has no live WebSocket, only the client's supervisor       *)
(* attaches there, and the client's replay buffer still fits the server's  *)
(* hello when the client gets to it (Write, writeFrame, attach, Close).    *)
(***************************************************************************)
THEOREM PromisesHold == Spec => []PromiseInv
<1>1. Init => IInv /\ PromiseInv
  BY IInvInit, PromiseInit
<1>2. (IInv /\ PromiseInv) /\ [Next]_vars => (IInv /\ PromiseInv)'
  <2> SUFFICES ASSUME IInv, PromiseInv, [Next]_vars PROVE IInv' /\ PromiseInv'
    OBVIOUS
  <2>1. TypeOK /\ Payloadwise /\ ClosedIdle /\ ClientAttaches /\ HelloFits /\ ClientSatisfied
    BY DEF IInv, PromiseInv
  <2>2. Payloadwise'
    BY <2>1, PayloadwiseNext
  <2>3. ClosedIdle'
    BY <2>1, ClosedIdleNext
  <2>4. ClientAttaches'
    BY <2>1, ClientAttachesNext
  <2>5. HelloFits'
    BY <2>1, HelloFitsNext
  <2>6. ClientSatisfied'
    BY <2>1, ClientSatisfiedNext
  <2> QED
    BY <2>2, <2>3, <2>4, <2>5, <2>6, IInvNext DEF PromiseInv
<1> QED
  BY <1>1, <1>2, PTL DEF Spec

(***************************************************************************)
(* The client never ends its conn because of what the server sent: no ack  *)
(* is ahead of its writes, and its replay can start where the server says  *)
(* (Read, attach).                                                         *)
(***************************************************************************)
THEOREM ClientIsSatisfied == Spec => []ClientSatisfied
<1>1. PromiseInv => ClientSatisfied
  BY DEF PromiseInv
<1> QED
  BY <1>1, PromisesHold, PTL

-----------------------------------------------------------------------------
(* The refinement of ByteStream.                                           *)

Over == {s \in Side : life[s] = "closed"}

LEMMA OverKept ==
    ASSUME TypeOK, [Next]_vars, ~ \E s \in Side : CloseFinish(s) PROVE Over' = Over
BY WhoCloses, ClosedForGood DEF Over

LEMMA WhoWrites ==
    ASSUME [Next]_vars
    PROVE  \/ UNCHANGED <<sendSeq, rcvd>>
           \/ \E s \in Side : ReadFrame(s) \/ \E n \in Chunk : Write(s, n)
<1> DEFINE Same == UNCHANGED <<sendSeq, rcvd>>
<1>1. ASSUME NEW s \in Side, SideStep(s) PROVE ReadFrame(s) \/ Same
  <2>1. CASE CloseFinish(s) \/ WriteReturn(s) \/ SnapAck(s) \/ SendFrame(s)
             \/ SendFails(s) \/ ReadCurrent(s) \/ ReadFails(s) \/ PingFails(s)
             \/ BeatBehind(s) \/ TakeLost(s)
    BY <2>1 DEF CloseFinish, WriteReturn, SnapAck, SendFrame, SendFails, ReadCurrent,
       ReadFails, PingFails, BeatBehind, TakeLost, connVars
  <2>2. CASE AttachFails(s) \/ AttachReply(s)
    BY <2>2 DEF AttachFails, AttachReply, connVars
  <2> QED
    BY <1>1, <2>1, <2>2 DEF SideStep
<1>2. ASSUME NEW s \in Side, NEW c \in Conn, ConnStep(s, c) PROVE Same
  BY <1>2 DEF ConnStep, BeatFlush, AttachDetach, AttachLock, connVars
<1>3. Supervision => Same
  BY DEF Supervision, DialOk, DialFails, DialGone, ResumeSeen, GraceExpires, connVars
<1>4. ASSUME NEW s \in Side, Cancel(s) \/ \E c \in Conn : Cut(c) PROVE Same
  BY <1>4 DEF Cancel, Cut, connVars
<1>5. UNCHANGED vars => Same
  BY DEF vars, connVars
<1>6. "client" \in Side
  BY DEF Side
<1> HIDE DEF Same
<1>7. \/ Same
      \/ \E s \in Side : ReadFrame(s) \/ \E n \in Chunk : Write(s, n)
  BY <1>1, <1>2, <1>3, <1>4, <1>5, <1>6 DEF Next, Environment
<1> QED
  BY <1>7 DEF Same

(* Reading a frame of the live WebSocket hands out the payload it carries. *)
LEMMA ReadGets ==
    ASSUME IInv, IInv', PromiseInv, NEW s \in Side, ReadFrame(s), Over' = Over
    PROVE  rcvd' = rcvd \/ \E n \in Chunk : Stream!Get(s, n)
<1>1. CASE ws[s] # reading[s]
  BY <1>1 DEF ReadFrame, Accept, Replaced
<1>2. CASE ws[s] = reading[s]
  <2>1. PICK c \in Conn, f \in Frame : Reads(s, c, f)
    BY <1>2, ReadFrameReads
  <2>2. f.lo \in Nat /\ f.hi \in Nat /\ f.lo <= f.hi
    BY DEF Frame
  <2>3. Peer(s) \in Side /\ Peer(Peer(s)) = s
    BY Sides
  <2>4. f.lo = recvSeq[s] /\ recvSeq'[s] = f.hi
    BY <2>1 DEF Reads
  <2>5. f.lo = f.hi \/ f.hi - f.lo \in Chunk
    <3>1. f \in InFlight(c, Peer(s))
      BY <2>1, FrameReadFits DEF Reads
    <3> QED
      BY <2>3, <3>1 DEF PromiseInv, Payloadwise
  <2>6. rcvd \in [Side -> Taken] /\ rcvd' \in [Side -> Taken]
    BY DEF IInv, TypeOK
  <2>7. rcvd' = [rcvd EXCEPT ![s] = @ \o Bytes(f.lo, f.hi)]
    BY <2>1, <2>6 DEF Reads
  <2>8. CASE f.lo = f.hi
    <3>1. Bytes(f.lo, f.hi) = <<>>
      BY <2>2, <2>8 DEF Bytes
    <3>2. rcvd[s] \o <<>> = rcvd[s]
      BY <2>6 DEF Taken
    <3> QED
      BY <2>6, <2>7, <3>1, <3>2
  <2>9. CASE f.hi - f.lo \in Chunk
    <3>1. PICK n \in Chunk : n = f.hi - f.lo
      BY <2>9
    <3>2. Len(rcvd[s]) = f.lo
      <4>1. rcvd[s] = [i \in 1 .. f.lo |-> i]
        BY <2>4 DEF IInv, StreamIntact
      <4> QED
        BY <2>2, <4>1
    <3>3. Len(rcvd[s]) + n <= sendSeq[Peer(s)]
      <4>1. recvSeq'[s] <= sendSeq'[Peer(s)] /\ sendSeq' = sendSeq
        BY DEF IInv, StreamIntact, ReadFrame
      <4> QED
        BY <2>2, <2>4, <3>1, <3>2, <4>1
    <3>4. rcvd' = [rcvd EXCEPT ![s] = @ \o [i \in 1 .. n |-> Len(rcvd[s]) + i]]
      BY <2>7, <3>1, <3>2 DEF Bytes
    <3>5. s \notin Over
      <4>1. ws[s] # NoConn
        BY <2>1, Conns DEF Reads
      <4> QED
        BY <4>1 DEF Over, PromiseInv, ClosedIdle
    <3>6. sendSeq' = sendSeq
      BY DEF ReadFrame
    <3> QED
      BY <3>3, <3>4, <3>5, <3>6 DEF Stream!Get, Stream!Peer, Peer, Over
  <2> QED
    BY <2>5, <2>8, <2>9
<1> QED
  BY <1>1, <1>2

(***************************************************************************)
(* Whatever happens to the WebSockets, a pair of ResumableConns implements *)
(* a reliable byte stream in each direction: Write puts a payload, Read    *)
(* gets whole payloads in order, Close ends the stream, and nothing else   *)
(* shows above.                                                            *)
(***************************************************************************)
THEOREM StreamRefined == Spec => StreamSpec
<1>1. Init => Stream!Init
  BY DEF Init, Stream!Init, Stream!Side, Side
<1>2. IInv /\ IInv' /\ PromiseInv /\ [Next]_vars => [Stream!Next]_(Stream!vars)
  <2> SUFFICES ASSUME IInv, IInv', PromiseInv, [Next]_vars, ~ UNCHANGED Stream!vars
               PROVE  Stream!Next
    OBVIOUS
  <2>a. TypeOK /\ Side = Stream!Side
    BY DEF IInv, Side, Stream!Side
  <2>b. ~ (UNCHANGED <<sendSeq, rcvd>> /\ Over' = Over)
    BY DEF Stream!vars, Over
  <2>1. ASSUME NEW s \in Side, CloseFinish(s) PROVE Stream!End(s)
    <3>1. s \notin Over /\ UNCHANGED <<sendSeq, rcvd>>
      BY <2>1 DEF CloseFinish, Over
    <3>2. Over' = Over \cup {s}
      <4>1. life' = [life EXCEPT ![s] = "closed"]
        BY <2>1 DEF CloseFinish
      <4>2. life \in [Side -> {"open", "canceled", "closed"}]
        BY <2>a DEF TypeOK
      <4> QED
        BY <4>1, <4>2 DEF Over
    <3> QED
      BY <3>1, <3>2 DEF Stream!End, Over
  <2>2. ASSUME NEW s \in Side, NEW n \in Chunk, Write(s, n), Over' = Over
        PROVE  Stream!Put(s, n)
    <3>1. s \notin Over /\ rcvd' = rcvd /\ sendSeq' = [sendSeq EXCEPT ![s] = @ + n]
      BY <2>2 DEF Write, Over
    <3> QED
      BY <2>2, <3>1 DEF Stream!Put, Over
  <2>3. ASSUME NEW s \in Side, ReadFrame(s), Over' = Over
        PROVE  \E n \in Chunk : Stream!Get(s, n)
    <3>1. sendSeq' = sendSeq
      BY <2>3 DEF ReadFrame
    <3> QED
      BY <2>3, <2>b, <3>1, ReadGets
  <2>4. CASE \E s \in Side : CloseFinish(s)
    BY <2>1, <2>4, <2>a DEF Stream!Next
  <2>5. CASE ~ \E s \in Side : CloseFinish(s)
    <3>1. Over' = Over
      BY <2>5, <2>a, OverKept
    <3> QED
      BY <2>2, <2>3, <2>a, <2>b, <3>1, WhoWrites DEF Stream!Next
  <2> QED
    BY <2>4, <2>5
<1>3. Spec => []IInv /\ []PromiseInv
  BY InvariantHolds, PromisesHold
<1> QED
  BY <1>1, <1>2, <1>3, PTL DEF Spec, StreamSpec, Stream!Spec

=============================================================================
