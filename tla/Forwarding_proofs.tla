-------------------------- MODULE Forwarding_proofs --------------------------
(***************************************************************************)
(* Theorems about Forwarding: where a connection gets to, and that its     *)
(* relay is not ended by the program itself.                               *)
(***************************************************************************)
EXTENDS Forwarding, SequenceTheorems, TLAPS

-----------------------------------------------------------------------------
(* The header.                                                             *)

LEMMA PortRange ==
    ASSUME NEW x \in Port
    PROVE  x \in Nat /\ x <= 65535
<1>1. MaxPort \in Int
  BY DEF MaxPort
<1>2. x \in Int /\ 0 <= x /\ x <= MaxPort
  BY <1>1 DEF Port
<1> QED
  BY <1>2 DEF MaxPort

LEMMA PortBytes ==
    ASSUME NEW x \in Port
    PROVE  /\ x \div 256 \in Byte /\ x % 256 \in Byte
           /\ 256 * (x \div 256) + (x % 256) = x
<1>1. x \in Nat /\ x <= 65535
  BY PortRange
<1>2. x % 256 \in Byte
  BY <1>1 DEF Byte
<1>3. 256 * (x \div 256) + (x % 256) = x
  BY <1>1
<1>4. x \div 256 \in Nat
  BY <1>1
<1>5. x \div 256 \in Byte
  BY <1>1, <1>2, <1>3, <1>4 DEF Byte
<1> QED
  BY <1>2, <1>3, <1>5

LEMMA LengthByte ==
    ASSUME NEW x \in Nat, x <= 255
    PROVE  x % 256 = x /\ x \in Byte
  BY DEF Byte

LEMMA HeaderBytes ==
    ASSUME NEW p \in ConnProperty, Encodable(p)
    PROVE  /\ EncodeConnProperty(p) \in Seq(Byte)
           /\ Len(EncodeConnProperty(p)) = 4 + Len(p.host)
           /\ EncodeConnProperty(p)[1] = p.pattern
           /\ 256 * EncodeConnProperty(p)[2] + EncodeConnProperty(p)[3] = p.port
           /\ EncodeConnProperty(p)[4] = Len(p.host)
           /\ \A i \in 1 .. Len(p.host) : EncodeConnProperty(p)[4 + i] = p.host[i]
<1>1. p.pattern \in Byte /\ p.port \in Port /\ p.host \in Seq(Byte)
  BY DEF ConnProperty
<1>2. PICK hi \in Byte, lo \in Byte :
          hi = p.port \div 256 /\ lo = p.port % 256 /\ 256 * hi + lo = p.port
  <2>1. p.port \div 256 \in Byte /\ p.port % 256 \in Byte
    BY <1>1, PortBytes
  <2>2. 256 * (p.port \div 256) + (p.port % 256) = p.port
    BY <1>1, PortBytes
  <2> QED
    BY <2>1, <2>2
<1>3. PICK n \in Byte : n = Len(p.host) % 256 /\ n = Len(p.host)
  <2>1. Len(p.host) \in Nat /\ Len(p.host) <= 255
    BY <1>1 DEF Encodable
  <2> QED
    BY <2>1, LengthByte
<1> DEFINE head == <<p.pattern, hi, lo, n>>
<1>4. head \in Seq(Byte) /\ Len(head) = 4
  BY <1>1
<1>5. /\ head \o p.host \in Seq(Byte)
      /\ Len(head \o p.host) = 4 + Len(p.host)
      /\ \A i \in 1 .. 4 : (head \o p.host)[i] = head[i]
      /\ \A i \in 1 .. Len(p.host) : (head \o p.host)[4 + i] = p.host[i]
  <2> HIDE DEF head
  <2>1. /\ head \o p.host \in Seq(Byte)
        /\ Len(head \o p.host) = Len(head) + Len(p.host)
        /\ \A i \in 1 .. Len(head) + Len(p.host) : (head \o p.host)[i] =
               IF i <= Len(head) THEN head[i] ELSE p.host[i - Len(head)]
    BY <1>1, <1>4, ConcatProperties
  <2>2. Len(p.host) \in Nat
    BY <1>1
  <2>3. \A i \in 1 .. 4 : (head \o p.host)[i] = head[i]
    BY <1>4, <2>1, <2>2
  <2>4. \A i \in 1 .. Len(p.host) : (head \o p.host)[4 + i] = p.host[i]
    <3> TAKE i \in 1 .. Len(p.host)
    <3>1. 4 + i \in 1 .. Len(head) + Len(p.host) /\ ~(4 + i <= Len(head)) /\ 4 + i - Len(head) = i
      BY <1>4, <2>2
    <3> QED
      BY <2>1, <3>1
  <2> QED
    BY <1>4, <2>1, <2>3, <2>4
<1>6. EncodeConnProperty(p) = head \o p.host
  BY <1>2, <1>3 DEF EncodeConnProperty
<1>7. head[1] = p.pattern /\ head[2] = hi /\ head[3] = lo /\ head[4] = n
  OBVIOUS
<1> HIDE DEF head
<1>8. \A i \in 1 .. 4 : EncodeConnProperty(p)[i] = head[i]
  BY <1>5, <1>6
<1>9. /\ EncodeConnProperty(p)[1] = head[1] /\ EncodeConnProperty(p)[2] = head[2]
      /\ EncodeConnProperty(p)[3] = head[3] /\ EncodeConnProperty(p)[4] = head[4]
  BY <1>8
<1>10. /\ EncodeConnProperty(p) \in Seq(Byte)
       /\ Len(EncodeConnProperty(p)) = 4 + Len(p.host)
       /\ \A i \in 1 .. Len(p.host) : EncodeConnProperty(p)[4 + i] = p.host[i]
  BY <1>5, <1>6
<1>11. /\ EncodeConnProperty(p)[1] = p.pattern /\ EncodeConnProperty(p)[2] = hi
       /\ EncodeConnProperty(p)[3] = lo /\ EncodeConnProperty(p)[4] = n
  BY <1>7, <1>9
<1> QED
  BY <1>2, <1>3, <1>10, <1>11

(***************************************************************************)
(* What the far process reads is what the near one wrote, to the last byte *)
(* of the header and no further (EncodeConnProperty, ResolveConnProperty). *)
(***************************************************************************)
THEOREM HeaderRoundTrip ==
    ASSUME NEW p \in ConnProperty, Encodable(p)
    PROVE  /\ EncodeConnProperty(p) \in Seq(Byte)
           /\ HeaderComplete(EncodeConnProperty(p))
           /\ ResolveConnProperty(EncodeConnProperty(p)) = p
           /\ AfterHeader(EncodeConnProperty(p)) = <<>>
<1> DEFINE w == EncodeConnProperty(p)
           n == Len(p.host)
<1>1. /\ w \in Seq(Byte) /\ Len(w) = 4 + n
      /\ w[1] = p.pattern /\ 256 * w[2] + w[3] = p.port /\ w[4] = n
      /\ \A i \in 1 .. n : w[4 + i] = p.host[i]
  BY HeaderBytes
<1>2. p \in [pattern : Byte, host : Seq(Byte), port : Port] /\ n \in Nat
  BY DEF ConnProperty
<1> HIDE DEF w
<1>3. HeaderComplete(w)
  BY <1>1, <1>2 DEF HeaderComplete
<1>4. SubSeq(w, 5, 4 + n) = p.host
  <2>1. Len(SubSeq(w, 5, 4 + n)) = n /\ SubSeq(w, 5, 4 + n) \in Seq(Byte)
    BY <1>1, <1>2
  <2>2. \A i \in 1 .. n : SubSeq(w, 5, 4 + n)[i] = w[4 + i]
    BY <1>1, <1>2
  <2> QED
    BY <1>1, <1>2, <2>1, <2>2
<1>5. ResolveConnProperty(w) = p
  BY <1>1, <1>2, <1>4 DEF ResolveConnProperty
<1>6. AfterHeader(w) = <<>>
  BY <1>1, <1>2 DEF AfterHeader
<1> QED
  BY <1>1, <1>3, <1>5, <1>6 DEF w

-----------------------------------------------------------------------------
(* Connections.                                                            *)

Nets ==
    {n \in [Link -> [Dir -> Pipe]] : \A l \in Link, d \in Dir : Len(n[l][d].q) <= Window}

(* Only direction d of connection l differs, and it is x in m. *)
Changed(n, m, l, d, x) ==
    /\ m[l][d] = x
    /\ \A k \in Link, e \in Dir : k # l \/ e # d => m[k][e] = n[k][e]

WithPipe(n, l, d, x) == [n EXCEPT ![l][d] = x]

LEMMA PipeParts ==
    /\ \A x \in Pipe : /\ x.q \in Seq(Nat) /\ x.fin \in BOOLEAN /\ x.shut \in BOOLEAN
                       /\ x = [q |-> x.q, fin |-> x.fin, shut |-> x.shut]
    /\ \A q \in Seq(Nat), f, s \in BOOLEAN : [q |-> q, fin |-> f, shut |-> s] \in Pipe
  BY DEF Pipe

LEMMA NetParts ==
    ASSUME NEW n \in Nets, NEW l \in Link, NEW d \in Dir
    PROVE  /\ n[l][d] \in Pipe /\ n[l][d].q \in Seq(Nat) /\ Len(n[l][d].q) \in Nat
           /\ Len(n[l][d].q) <= Window
           /\ n[l][d].fin \in BOOLEAN /\ n[l][d].shut \in BOOLEAN
<1>1. n \in [Link -> [Dir -> Pipe]] /\ Len(n[l][d].q) <= Window
  BY DEF Nets
<1>2. n[l][d] \in Pipe
  BY <1>1
<1> QED
  BY <1>1, <1>2 DEF Pipe

LEMMA WithPipeNet ==
    ASSUME NEW n \in Nets, NEW l \in Link, NEW d \in Dir,
           NEW x \in Pipe, Len(x.q) <= Window
    PROVE  WithPipe(n, l, d, x) \in Nets /\ Changed(n, WithPipe(n, l, d, x), l, d, x)
<1> DEFINE m == WithPipe(n, l, d, x)
<1>1. n \in [Link -> [Dir -> Pipe]] /\ \A k \in Link, e \in Dir : Len(n[k][e].q) <= Window
  BY DEF Nets
<1>2. m \in [Link -> [Dir -> Pipe]] /\ Changed(n, m, l, d, x)
  BY <1>1 DEF WithPipe, Changed
<1>3. ASSUME NEW k \in Link, NEW e \in Dir PROVE Len(m[k][e].q) <= Window
  <2>1. CASE k = l /\ e = d
    BY <1>2, <2>1 DEF Changed
  <2>2. CASE k # l \/ e # d
    BY <1>1, <1>2, <2>2 DEF Changed
  <2> QED
    BY <2>1, <2>2
<1> QED
  BY <1>2, <1>3 DEF Nets

(* Setting one field of a direction. *)
LEMMA SetQueue ==
    ASSUME NEW n \in Nets, NEW l \in Link, NEW d \in Dir, NEW s \in Seq(Nat), Len(s) <= Window
    PROVE  /\ [n EXCEPT ![l][d].q = s] \in Nets
           /\ Changed(n, [n EXCEPT ![l][d].q = s], l, d,
                      [q |-> s, fin |-> n[l][d].fin, shut |-> n[l][d].shut])
<1> DEFINE x == [q |-> s, fin |-> n[l][d].fin, shut |-> n[l][d].shut]
<1>1. n[l][d] \in Pipe /\ x \in Pipe /\ x.q = s
  BY NetParts, PipeParts
<1>2. [n[l][d] EXCEPT !.q = s] = x
  BY <1>1, PipeParts
<1>3. n \in [Link -> [Dir -> Pipe]]
  BY DEF Nets
<1>4. [n EXCEPT ![l][d].q = s] = WithPipe(n, l, d, x)
  BY <1>2, <1>3 DEF WithPipe
<1> QED
  BY <1>1, <1>4, WithPipeNet

LEMMA SetFin ==
    ASSUME NEW n \in Nets, NEW l \in Link, NEW d \in Dir
    PROVE  /\ HalfClosed(n, l, d) \in Nets
           /\ Changed(n, HalfClosed(n, l, d), l, d,
                      [q |-> n[l][d].q, fin |-> TRUE, shut |-> n[l][d].shut])
<1> DEFINE x == [q |-> n[l][d].q, fin |-> TRUE, shut |-> n[l][d].shut]
<1>1. n[l][d] \in Pipe /\ x \in Pipe /\ x.q = n[l][d].q /\ Len(x.q) <= Window
  BY NetParts, PipeParts
<1>2. [n[l][d] EXCEPT !.fin = TRUE] = x
  BY <1>1, PipeParts
<1>3. n \in [Link -> [Dir -> Pipe]]
  BY DEF Nets
<1>4. HalfClosed(n, l, d) = WithPipe(n, l, d, x)
  BY <1>2, <1>3 DEF WithPipe, HalfClosed
<1> QED
  BY <1>1, <1>4, WithPipeNet

Ended(x) == [q |-> x.q, fin |-> TRUE, shut |-> x.shut]
Reset(x) == [q |-> <<>>, fin |-> TRUE, shut |-> x.shut]
Shut(x) == [q |-> <<>>, fin |-> x.fin, shut |-> TRUE]

(* m is n after the side that writes direction d of connection l closed it. *)
ClosedTo(n, m, l, d) ==
    /\ m \in Nets
    /\ m[l][d] = Ended(n[l][d]) \/ (l # "tunnel" /\ m[l][d] = Reset(n[l][d]))
    /\ m[l][Opposite(d)] = IF l = "tunnel" THEN n[l][Opposite(d)] ELSE Shut(n[l][Opposite(d)])
    /\ \A k \in Link, e \in Dir : k # l => m[k][e] = n[k][e]

LEMMA SetParts ==
    ASSUME NEW x \in Pipe
    PROVE  /\ \A q \in Seq(Nat) : [x EXCEPT !.q = q] = [q |-> q, fin |-> x.fin, shut |-> x.shut]
           /\ [x EXCEPT !.fin = TRUE] = [q |-> x.q, fin |-> TRUE, shut |-> x.shut]
           /\ [x EXCEPT !.shut = TRUE] = [q |-> x.q, fin |-> x.fin, shut |-> TRUE]
<1>1. \A q \in Seq(Nat) : [x EXCEPT !.q = q] = [q |-> q, fin |-> x.fin, shut |-> x.shut]
  BY PipeParts
<1>2. [x EXCEPT !.fin = TRUE] = [q |-> x.q, fin |-> TRUE, shut |-> x.shut]
  BY PipeParts
<1>3. [x EXCEPT !.shut = TRUE] = [q |-> x.q, fin |-> x.fin, shut |-> TRUE]
  BY PipeParts
<1> QED
  BY <1>1, <1>2, <1>3

LEMMA ClosingPipes ==
    ASSUME NEW x \in Pipe
    PROVE  /\ Ended(x) \in Pipe /\ Reset(x) \in Pipe /\ Shut(x) \in Pipe
           /\ Ended(x).q = x.q /\ Reset(x).q = <<>> /\ Shut(x).q = <<>>
           /\ [x EXCEPT !.fin = TRUE] = Ended(x)
           /\ [[x EXCEPT !.fin = TRUE] EXCEPT !.q = <<>>] = Reset(x)
           /\ [[x EXCEPT !.shut = TRUE] EXCEPT !.q = <<>>] = Shut(x)
<1>1. <<>> \in Seq(Nat)
  OBVIOUS
<1>2. x.q \in Seq(Nat) /\ x.fin \in BOOLEAN /\ x.shut \in BOOLEAN
  BY PipeParts
<1>3. Ended(x) \in Pipe /\ Reset(x) \in Pipe /\ Shut(x) \in Pipe
  BY <1>1, <1>2 DEF Pipe, Ended, Reset, Shut
<1>4. Ended(x).q = x.q /\ Reset(x).q = <<>> /\ Shut(x).q = <<>>
  BY DEF Ended, Reset, Shut
<1>5. [x EXCEPT !.fin = TRUE] = Ended(x)
  BY SetParts DEF Ended
<1>6. [[x EXCEPT !.fin = TRUE] EXCEPT !.q = <<>>] = Reset(x)
  <2>1. Ended(x).fin = TRUE /\ Ended(x).shut = x.shut
    BY DEF Ended
  <2>2. [Ended(x) EXCEPT !.q = <<>>]
           = [q |-> <<>>, fin |-> Ended(x).fin, shut |-> Ended(x).shut]
    BY <1>1, <1>3, SetParts
  <2> QED
    BY <1>5, <2>1, <2>2 DEF Reset
<1>7. [[x EXCEPT !.shut = TRUE] EXCEPT !.q = <<>>] = Shut(x)
  <2> DEFINE y == [q |-> x.q, fin |-> x.fin, shut |-> TRUE]
  <2>1. [x EXCEPT !.shut = TRUE] = y
    BY SetParts
  <2>2. y \in Pipe /\ y.fin = x.fin /\ y.shut = TRUE
    BY <1>2, PipeParts
  <2> HIDE DEF y
  <2>3. [y EXCEPT !.q = <<>>] = [q |-> <<>>, fin |-> y.fin, shut |-> y.shut]
    BY <1>1, <2>2, SetParts
  <2> QED
    BY <2>1, <2>2, <2>3 DEF Shut
<1> QED
  BY <1>3, <1>4, <1>5, <1>6, <1>7

LEMMA OppositeDir ==
    \A d \in Dir : /\ Opposite(d) \in Dir /\ Opposite(d) # d /\ Opposite(Opposite(d)) = d
                   /\ \A e \in Dir : e = d \/ e = Opposite(d)
  BY DEF Dir, Opposite

LEMMA HalfClosedTo ==
    ASSUME NEW n \in Nets, NEW d \in Dir
    PROVE  ClosedTo(n, HalfClosed(n, "tunnel", d), "tunnel", d)
<1> DEFINE m == HalfClosed(n, "tunnel", d)
<1>1. "tunnel" \in Link
  BY DEF Link
<1>2. m \in Nets /\ Changed(n, m, "tunnel", d, Ended(n["tunnel"][d]))
  BY <1>1, SetFin DEF Ended
<1> HIDE DEF m
<1>3. m["tunnel"][Opposite(d)] = n["tunnel"][Opposite(d)]
  BY <1>1, <1>2, OppositeDir DEF Changed
<1>4. /\ m["tunnel"][d] = Ended(n["tunnel"][d])
      /\ \A k \in Link, e \in Dir : k # "tunnel" => m[k][e] = n[k][e]
  BY <1>2 DEF Changed
<1>5. ClosedTo(n, m, "tunnel", d)
  BY <1>2, <1>3, <1>4 DEF ClosedTo
<1> QED
  BY <1>5 DEF m

LEMMA ClosedIsClosed ==
    ASSUME NEW n \in Nets, NEW l \in Link, NEW d \in Dir
    PROVE  ClosedTo(n, Closed(n, l, d), l, d) /\ Closed(n, l, d)[l][d] = Ended(n[l][d])
<1>1. CASE l = "tunnel"
  <2>1. Closed(n, l, d) = HalfClosed(n, "tunnel", d)
    BY <1>1 DEF Closed
  <2>2. ClosedTo(n, Closed(n, l, d), "tunnel", d)
    BY <2>1, HalfClosedTo
  <2> QED
    BY <1>1, <2>2 DEF ClosedTo
<1>2. CASE l # "tunnel"
  <2> DEFINE o == Opposite(d)
             m == WithPipe(n, l, d, Ended(n[l][d]))
             c == WithPipe(m, l, o, Shut(n[l][o]))
  <2>1. o \in Dir /\ o # d /\ \A e \in Dir : e = d \/ e = o
    BY OppositeDir
  <2>2. n[l][d] \in Pipe /\ n[l][o] \in Pipe /\ Len(n[l][d].q) <= Window
    BY <2>1, NetParts
  <2>3. Len(<<>>) <= Window
    BY ForwardingAssumption
  <2>4. m \in Nets /\ Changed(n, m, l, d, Ended(n[l][d]))
    BY <2>2, ClosingPipes, WithPipeNet
  <2>5. c \in Nets /\ Changed(m, c, l, o, Shut(n[l][o]))
    <3> HIDE DEF m
    <3> QED
      BY <2>1, <2>2, <2>3, <2>4, ClosingPipes, WithPipeNet
  <2>6. Closed(n, l, d) = c
    <3>1. n \in [Link -> [Dir -> Pipe]]
      BY DEF Nets
    <3>2. Closed(n, l, d) =
            [[[n EXCEPT ![l][d].fin = TRUE] EXCEPT ![l][o].shut = TRUE] EXCEPT ![l][o].q = <<>>]
      BY <1>2 DEF Closed
    <3>3. [n[l][d] EXCEPT !.fin = TRUE] = Ended(n[l][d])
      BY <2>2, ClosingPipes
    <3>4. [n EXCEPT ![l][d].fin = TRUE] = m
      BY <3>1, <3>3 DEF WithPipe
    <3>5. m \in [Link -> [Dir -> Pipe]] /\ m[l][o] = n[l][o]
      BY <2>1, <2>4 DEF Nets, Changed
    <3>6. [[m[l][o] EXCEPT !.shut = TRUE] EXCEPT !.q = <<>>] = Shut(n[l][o])
      BY <2>2, <3>5, ClosingPipes
    <3>7. [[m EXCEPT ![l][o].shut = TRUE] EXCEPT ![l][o].q = <<>>] = c
      <4> HIDE DEF m
      <4> QED
        BY <2>1, <3>5, <3>6 DEF WithPipe
    <3> QED
      BY <3>2, <3>4, <3>7
  <2> HIDE DEF m, c
  <2>7. /\ c[l][o] = Shut(n[l][o]) /\ c[l][d] = Ended(n[l][d])
        /\ \A k \in Link, e \in Dir : k # l => c[k][e] = n[k][e]
    BY <2>1, <2>4, <2>5 DEF Changed
  <2> QED
    BY <1>2, <2>1, <2>5, <2>6, <2>7 DEF ClosedTo
<1> QED
  BY <1>1, <1>2

LEMMA CloseInTo ==
    ASSUME NEW n \in Nets, NEW l \in Link, NEW d \in Dir, CloseIn(n, l, d), lost \in BOOLEAN
    PROVE  ClosedTo(n, net', l, d) /\ lost' \in BOOLEAN
<1>1. CASE net' = Closed(n, l, d) /\ UNCHANGED lost
  BY <1>1, ClosedIsClosed
<1>2. CASE /\ l # "tunnel" /\ net' = [Closed(n, l, d) EXCEPT ![l][d].q = <<>>]
           /\ lost' = TRUE
  <2> DEFINE c == Closed(n, l, d)
             m == [c EXCEPT ![l][d].q = <<>>]
  <2>1. ClosedTo(n, c, l, d) /\ c \in Nets /\ c[l][d] = Ended(n[l][d])
    BY ClosedIsClosed DEF ClosedTo
  <2>2. <<>> \in Seq(Nat) /\ Len(<<>>) <= Window
    BY ForwardingAssumption
  <2> HIDE DEF c
  <2>3. /\ m \in Nets
        /\ Changed(c, m, l, d, [q |-> <<>>, fin |-> c[l][d].fin, shut |-> c[l][d].shut])
    BY <2>1, <2>2, SetQueue
  <2>4. net' = m
    BY <1>2 DEF c
  <2>5. [q |-> <<>>, fin |-> c[l][d].fin, shut |-> c[l][d].shut] = Reset(n[l][d])
    BY <2>1 DEF Ended, Reset
  <2> HIDE DEF m
  <2>6. Opposite(d) \in Dir /\ Opposite(d) # d
    BY OppositeDir
  <2>7. m[l][d] = Reset(n[l][d]) /\ m[l][Opposite(d)] = c[l][Opposite(d)]
        /\ \A k \in Link, e \in Dir : k # l => m[k][e] = c[k][e]
    BY <2>3, <2>5, <2>6 DEF Changed
  <2>8. lost' \in BOOLEAN
    BY <1>2
  <2> QED
    BY <1>2, <2>1, <2>3, <2>4, <2>7, <2>8 DEF ClosedTo
<1> QED
  BY <1>1, <1>2 DEF CloseIn

(* m is n after the stream was cut. *)
Cut(x, y) ==
    \E k \in 0 .. Len(x.q) : y = [q |-> SubSeq(x.q, 1, k), fin |-> TRUE, shut |-> TRUE]

CutTo(n, m) ==
    /\ m \in Nets
    /\ \A d \in Dir : Cut(n["tunnel"][d], m["tunnel"][d])
    /\ \A l \in Link, d \in Dir : l # "tunnel" => m[l][d] = n[l][d]

LEMMA PrefixOf ==
    ASSUME NEW s \in Seq(Nat), NEW k \in 0 .. Len(s)
    PROVE  /\ SubSeq(s, 1, k) \in Seq(Nat) /\ Len(SubSeq(s, 1, k)) = k
           /\ \A i \in 1 .. k : SubSeq(s, 1, k)[i] = s[i]
<1>1. Len(s) \in Nat /\ k \in Int /\ \A i \in 1 .. k : s[i] \in Nat
  OBVIOUS
<1>2. /\ SubSeq(s, 1, k) \in Seq(Nat)
      /\ Len(SubSeq(s, 1, k)) = IF 1 <= k THEN k - 1 + 1 ELSE 0
      /\ \A i \in 1 .. k - 1 + 1 : SubSeq(s, 1, k)[i] = s[1 + i - 1]
  BY <1>1, SubSeqProperties
<1> QED
  BY <1>1, <1>2

LEMMA StreamCutTo ==
    ASSUME net \in Nets, StreamCut
    PROVE  CutTo(net, net')
<1>1. PICK k \in [Dir -> 0 .. Window] :
        /\ \A d \in Dir : k[d] <= Len(net["tunnel"][d].q)
        /\ net' = [net EXCEPT !["tunnel"] =
               [d \in Dir |-> [q |-> SubSeq(net["tunnel"][d].q, 1, k[d]),
                               fin |-> TRUE, shut |-> TRUE]]]
  BY DEF StreamCut
<1> DEFINE y(d) == [q |-> SubSeq(net["tunnel"][d].q, 1, k[d]), fin |-> TRUE, shut |-> TRUE]
<1>2. "tunnel" \in Link /\ Window \in Nat
  BY ForwardingAssumption DEF Link
<1>3. ASSUME NEW d \in Dir
      PROVE  k[d] \in 0 .. Len(net["tunnel"][d].q) /\ y(d) \in Pipe /\ Len(y(d).q) <= Window
  <2>1. net["tunnel"][d].q \in Seq(Nat) /\ Len(net["tunnel"][d].q) \in Nat
        /\ Len(net["tunnel"][d].q) <= Window
    BY <1>2, NetParts
  <2>2. k[d] \in 0 .. Len(net["tunnel"][d].q)
    BY <1>1, <1>2, <2>1
  <2>3. /\ SubSeq(net["tunnel"][d].q, 1, k[d]) \in Seq(Nat)
        /\ Len(SubSeq(net["tunnel"][d].q, 1, k[d])) = k[d]
    BY <2>1, <2>2, PrefixOf
  <2>4. y(d) \in Pipe
    BY <2>3 DEF Pipe
  <2>5. Len(y(d).q) <= Window
    BY <1>2, <2>1, <2>2, <2>3
  <2> QED
    BY <2>2, <2>4, <2>5
<1>4. net \in [Link -> [Dir -> Pipe]]
  BY DEF Nets
<1>5. net' = [net EXCEPT !["tunnel"] = [d \in Dir |-> y(d)]]
  BY <1>1
<1> HIDE DEF y
<1>6. [d \in Dir |-> y(d)] \in [Dir -> Pipe]
  BY <1>3
<1>7. /\ net' \in [Link -> [Dir -> Pipe]]
      /\ \A d \in Dir : net'["tunnel"][d] = y(d)
      /\ \A l \in Link, d \in Dir : l # "tunnel" => net'[l][d] = net[l][d]
  BY <1>2, <1>4, <1>5, <1>6
<1>8. ASSUME NEW l \in Link, NEW d \in Dir PROVE Len(net'[l][d].q) <= Window
  <2>1. CASE l = "tunnel"
    BY <1>3, <1>7, <2>1
  <2>2. CASE l # "tunnel"
    BY <1>7, <2>2, NetParts
  <2> QED
    BY <2>1, <2>2
<1>9. \A d \in Dir : Cut(net["tunnel"][d], net'["tunnel"][d])
  BY <1>3, <1>7 DEF Cut, y
<1> QED
  BY <1>7, <1>8, <1>9 DEF CutTo, Nets

-----------------------------------------------------------------------------
(***************************************************************************)
(* The inductive invariant.                                                *)
(***************************************************************************)

(* What leads to the target: once there is a stream, the address in its    *)
(* header is the one that was asked for, one the rules let pass, and the   *)
(* settings it was chosen by are there to stay.                            *)
Targeted ==
    /\ mode = "connect" => asked \in Targets
    /\ mode = "none" => near = "idle"
    /\ session # "none" => nk = "on"
    /\ nk = "on" => nks = "on"
    /\ far # "none" =>
           /\ session # "none" /\ near \notin {"idle", "dial", "refused"}
           /\ Property.port \in Port /\ Encodable(Property) /\ ~Denied
    /\ far = "header" => header = EncodeConnProperty(Property)
    /\ far = "dial" => property = Property
    /\ far \in {"none", "header", "dial"} => reached = Nowhere
    /\ RightTarget

(* Why a connection may end. *)
Cause ==
    \/ \E e \in Endpoint : ended[e] # "open"
    \/ session = "closed" \/ cancelled
    \/ far = "over" /\ reached = Nowhere

(* Without a cause no connection has ended in either direction, and no     *)
(* deadline outlives the header.                                           *)
Undisturbed ==
    /\ near # "refused" /\ ~Cause => \A l \in Link, d \in Dir : ~net[l][d].fin /\ ~net[l][d].shut
    /\ deadline => far = "header"
    /\ \A d \in Dir : /\ copy["near"][d] # "idle" => near \in {"relay", "over"}
                      /\ copy["far"][d] # "idle" => far \in {"relay", "over"}
    /\ RelayLasts

ForwardingInv == TypeOK /\ Targeted /\ Undisturbed

-----------------------------------------------------------------------------
(* Bytes written to a direction, read from it, or lost.                    *)

WithQueue(x, s) == [q |-> s, fin |-> x.fin, shut |-> x.shut]
Added(x, v) == WithQueue(x, Append(x.q, v))
Taken(x) == WithQueue(x, Tail(x.q))
Emptied(x) == WithQueue(x, <<>>)

LEMMA PutTo ==
    ASSUME NEW n \in Nets, NEW l \in Link, NEW d \in Dir, NEW v \in Nat,
           Len(n[l][d].q) < Window
    PROVE  Put(n, l, d, v) \in Nets /\ Changed(n, Put(n, l, d, v), l, d, Added(n[l][d], v))
<1>1. n[l][d].q \in Seq(Nat) /\ Len(n[l][d].q) \in Nat /\ Window \in Nat
  BY NetParts, ForwardingAssumption
<1>2. Append(n[l][d].q, v) \in Seq(Nat) /\ Len(Append(n[l][d].q, v)) <= Window
  BY <1>1
<1> DEFINE s == Append(n[l][d].q, v)
<1>3. Put(n, l, d, v) = [n EXCEPT ![l][d].q = s] /\ Added(n[l][d], v) = WithQueue(n[l][d], s)
  BY DEF Put, Added
<1>4. s \in Seq(Nat) /\ Len(s) <= Window
  BY <1>2
<1> HIDE DEF s
<1>5. /\ [n EXCEPT ![l][d].q = s] \in Nets
      /\ Changed(n, [n EXCEPT ![l][d].q = s], l, d,
                 [q |-> s, fin |-> n[l][d].fin, shut |-> n[l][d].shut])
  BY <1>4, SetQueue
<1> QED
  BY <1>3, <1>5 DEF WithQueue

LEMMA TakeTo ==
    ASSUME NEW n \in Nets, NEW l \in Link, NEW d \in Dir, n[l][d].q # <<>>
    PROVE  /\ Head(n[l][d].q) \in Nat
           /\ [n EXCEPT ![l][d].q = Tail(@)] \in Nets
           /\ Changed(n, [n EXCEPT ![l][d].q = Tail(@)], l, d, Taken(n[l][d]))
<1>1. n[l][d].q \in Seq(Nat) /\ Len(n[l][d].q) \in Nat /\ Len(n[l][d].q) <= Window
      /\ Window \in Nat
  BY NetParts, ForwardingAssumption
<1>2. Head(n[l][d].q) \in Nat /\ Tail(n[l][d].q) \in Seq(Nat) /\ Len(Tail(n[l][d].q)) <= Window
  BY <1>1
<1> QED
  BY <1>2, SetQueue DEF Taken, WithQueue

LEMMA EmptyTo ==
    ASSUME NEW n \in Nets, NEW l \in Link, NEW d \in Dir
    PROVE  /\ [n EXCEPT ![l][d].q = <<>>] \in Nets
           /\ Changed(n, [n EXCEPT ![l][d].q = <<>>], l, d, Emptied(n[l][d]))
<1>1. <<>> \in Seq(Nat) /\ Len(<<>>) <= Window
  BY ForwardingAssumption
<1> QED
  BY <1>1, SetQueue DEF Emptied, WithQueue

LEMMA PipeFields ==
    ASSUME NEW x
    PROVE  /\ \A s : /\ WithQueue(x, s).q = s
                     /\ WithQueue(x, s).fin = x.fin /\ WithQueue(x, s).shut = x.shut
           /\ Ended(x).q = x.q /\ Ended(x).fin /\ Ended(x).shut = x.shut
           /\ Reset(x).q = <<>> /\ Reset(x).fin /\ Reset(x).shut = x.shut
           /\ Shut(x).q = <<>> /\ Shut(x).fin = x.fin /\ Shut(x).shut
           /\ \A y : Cut(x, y) => y.fin /\ y.shut
  BY DEF WithQueue, Ended, Reset, Shut, Cut

LEMMA LinksAndDirs ==
    /\ "user" \in Link /\ "tunnel" \in Link /\ "target" \in Link
    /\ "out" \in Dir /\ "back" \in Dir /\ Opposite("out") = "back" /\ Opposite("back") = "out"
    /\ "near" \in Process /\ "far" \in Process /\ Process = {"near", "far"}
    /\ "user" \in Endpoint /\ "target" \in Endpoint /\ Endpoint = {"user", "target"}
    /\ Endpoint \subseteq Link /\ Dir = {"out", "back"} /\ Link = {"user", "tunnel", "target"}
  BY DEF Link, Dir, Opposite, Process, Endpoint

LEMMA SourcesAndSinks ==
    /\ Source("near", "out") = "user" /\ Source("far", "out") = "tunnel"
    /\ Source("far", "back") = "target" /\ Source("near", "back") = "tunnel"
    /\ Sink("near", "out") = "tunnel" /\ Sink("far", "out") = "target"
    /\ Sink("far", "back") = "tunnel" /\ Sink("near", "back") = "user"
    /\ \A p \in Process, d \in Dir : Source(p, d) \in Link /\ Sink(p, d) \in Link
  BY LinksAndDirs DEF Source, Sink, Own

LEMMA EndpointDirs ==
    ASSUME NEW e \in Endpoint
    PROVE  e \in Link /\ Outward(e) \in Dir /\ Opposite(Outward(e)) \in Dir /\ e # "tunnel"
           /\ Base(e) \in Nat /\ Limit(e) \in Nat
  BY ForwardingAssumption DEF Outward, Endpoint, Link, Dir, Opposite, Base, Limit

-----------------------------------------------------------------------------
(* What the steps do to the connections.                                   *)

Typed == net \in Nets /\ held \in [Process -> [Dir -> Seq(Nat)]] /\ lost \in BOOLEAN

LEMMA TypedNow == TypeOK => Typed
  BY DEF TypeOK, Typed, Nets

LEMMA SessionEndsNet ==
    ASSUME Typed, SessionEnds
    PROVE  (net' = net \/ CutTo(net, net')) /\ net' \in Nets
<1>1. CASE StreamOpen
  BY <1>1, StreamCutTo DEF SessionEnds, Typed, CutTo
<1>2. CASE ~StreamOpen
  BY <1>2 DEF SessionEnds, Typed
<1> QED
  BY <1>1, <1>2

LEMMA CloseTimeoutNet ==
    ASSUME Typed, CloseTimeout
    PROVE  CutTo(net, net') /\ net' \in Nets /\ lost' \in BOOLEAN
  BY StreamCutTo DEF CloseTimeout, Typed, CutTo

LEMMA DialFailsNet ==
    ASSUME Typed, DialFails
    PROVE  /\ \/ mode = "ssh" /\ ClosedTo(net, net', "user", "back")
              \/ mode # "ssh" /\ net' = net
              \/ mode # "ssh" /\ \E code \in {403, 502} :
                     Changed(net, net', "user", "back", Added(net["user"]["back"], code))
           /\ net' \in Nets /\ lost' \in BOOLEAN
<1>1. CASE mode = "ssh"
  <2>1. CloseIn(net, "user", "back")
    BY <1>1 DEF DialFails
  <2>2. ClosedTo(net, net', "user", "back") /\ lost' \in BOOLEAN
    BY <2>1, CloseInTo, LinksAndDirs DEF Typed
  <2> QED
    BY <1>1, <2>2 DEF ClosedTo
<1>2. CASE mode # "ssh" /\ CanWrite("user", "back")
  <2>1. PICK code \in Refusals : net' = Put(net, "user", "back", code)
    BY <1>2 DEF DialFails
  <2>2. code \in {403, 502} /\ code \in Nat /\ UNCHANGED lost
    BY <1>2 DEF Refusals, DialFails
  <2>3. Len(net["user"]["back"].q) < Window
    BY <1>2 DEF CanWrite
  <2>4. /\ net' \in Nets
        /\ Changed(net, net', "user", "back", Added(net["user"]["back"], code))
    BY <2>1, <2>2, <2>3, PutTo, LinksAndDirs DEF Typed
  <2> QED
    BY <1>2, <2>2, <2>4 DEF Typed
<1>3. CASE mode # "ssh" /\ ~CanWrite("user", "back")
  BY <1>3 DEF DialFails, Typed
<1> QED
  BY <1>1, <1>2, <1>3

LEMMA HijackNet ==
    ASSUME Typed, Hijack
    PROVE  LET q == net["user"]["out"].q
           IN  \E n \in 0 .. Len(q) :
                 /\ Changed(net, net', "user", "out",
                            WithQueue(net["user"]["out"], SubSeq(q, n + 1, Len(q))))
                 /\ held' = [held EXCEPT !["near"]["out"] = SubSeq(q, 1, n)]
                 /\ SubSeq(q, 1, n) \in Seq(Nat) /\ SubSeq(q, n + 1, Len(q)) \in Seq(Nat)
                 /\ Len(SubSeq(q, n + 1, Len(q))) = Len(q) - n
                 /\ \A i \in 1 .. Len(q) - n : SubSeq(q, n + 1, Len(q))[i] = q[n + i]
                 /\ net' \in Nets
<1> DEFINE q == net["user"]["out"].q
<1>1. PICK n \in 0 .. Len(q) :
          /\ held' = [held EXCEPT !["near"]["out"] = SubSeq(q, 1, n)]
          /\ net' = [net EXCEPT !["user"]["out"].q = SubSeq(@, n + 1, Len(@))]
  BY DEF Hijack
<1> DEFINE s == SubSeq(q, n + 1, Len(q))
<1>2. q \in Seq(Nat) /\ Len(q) \in Nat /\ Len(q) <= Window /\ Window \in Nat
  BY NetParts, LinksAndDirs, ForwardingAssumption DEF Typed
<1>3. SubSeq(q, 1, n) \in Seq(Nat)
  BY <1>2, PrefixOf
<1>4. /\ s \in Seq(Nat) /\ Len(s) = Len(q) - n
      /\ \A i \in 1 .. Len(q) - n : s[i] = q[n + i]
  <2> HIDE DEF q
  <2>1. n + 1 \in Int /\ Len(q) \in Int /\ \A i \in n + 1 .. Len(q) : q[i] \in Nat
    BY <1>2
  <2>2. /\ s \in Seq(Nat)
        /\ Len(s) = IF n + 1 <= Len(q) THEN Len(q) - (n + 1) + 1 ELSE 0
        /\ \A i \in 1 .. Len(q) - (n + 1) + 1 : s[i] = q[n + 1 + i - 1]
    BY <2>1, SubSeqProperties
  <2>3. n \in Nat /\ n <= Len(q)
    BY <1>2
  <2>4. Len(s) = Len(q) - n
    BY <1>2, <2>2, <2>3
  <2>5. \A i \in 1 .. Len(q) - n : i \in 1 .. Len(q) - (n + 1) + 1 /\ n + 1 + i - 1 = n + i
    BY <1>2, <2>3
  <2>6. \A i \in 1 .. Len(q) - n : s[i] = q[n + i]
    BY <2>2, <2>5
  <2> QED
    BY <2>2, <2>4, <2>6
<1>5. net' = [net EXCEPT !["user"]["out"].q = s]
  BY <1>1
<1> HIDE DEF s
<1>6. Len(s) <= Window
  BY <1>2, <1>4
<1>7. net' \in Nets /\ Changed(net, net', "user", "out", WithQueue(net["user"]["out"], s))
  BY <1>4, <1>5, <1>6, SetQueue, LinksAndDirs DEF Typed, WithQueue
<1> QED
  BY <1>1, <1>3, <1>4, <1>7 DEF s

LEMMA CancelledNet ==
    ASSUME Typed, Cancelled
    PROVE  ClosedTo(net, net', "user", "back") /\ net' \in Nets /\ lost' \in BOOLEAN
  BY CloseInTo, LinksAndDirs DEF Cancelled, Typed, ClosedTo

LEMMA GreetNet ==
    ASSUME Typed, Greet
    PROVE  /\ Changed(net, net', "user", "back", Added(net["user"]["back"], 200))
           /\ net' \in Nets
<1>1. Len(net["user"]["back"].q) < Window /\ net' = Put(net, "user", "back", 200)
  BY DEF Greet, CanWrite
<1> QED
  BY <1>1, PutTo, LinksAndDirs DEF Typed

LEMMA SendEarlyNet ==
    ASSUME Typed, SendEarly
    PROVE  /\ Changed(net, net', "tunnel", "out",
                      Added(net["tunnel"]["out"], Head(held["near"]["out"])))
           /\ net' \in Nets
<1>1. /\ Len(net["tunnel"]["out"].q) < Window
      /\ net' = Put(net, "tunnel", "out", Head(held["near"]["out"]))
  BY DEF SendEarly, CanWrite
<1>2. held["near"]["out"] \in Seq(Nat) /\ held["near"]["out"] # <<>>
  BY LinksAndDirs DEF SendEarly, Typed
<1>3. Head(held["near"]["out"]) \in Nat
  BY <1>2
<1> QED
  BY <1>1, <1>3, PutTo, LinksAndDirs DEF Typed

LEMMA NearFailsNet ==
    ASSUME Typed, NearFails
    PROVE  /\ net'["tunnel"]["out"] = Ended(net["tunnel"]["out"])
           /\ net'["tunnel"]["back"] = net["tunnel"]["back"]
           /\ net'["user"]["back"] \in {Ended(net["user"]["back"]), Reset(net["user"]["back"])}
           /\ net'["user"]["out"] = Shut(net["user"]["out"])
           /\ \A d \in Dir : net'["target"][d] = net["target"][d]
           /\ net' \in Nets /\ lost' \in BOOLEAN
<1> DEFINE m == HalfClosed(net, "tunnel", "out")
<1>1. m \in Nets /\ ClosedTo(net, m, "tunnel", "out")
  BY HalfClosedTo, LinksAndDirs DEF ClosedTo, Typed
<1>2. CloseIn(m, "user", "back")
  BY DEF NearFails
<1> HIDE DEF m
<1>3. ClosedTo(m, net', "user", "back") /\ lost' \in BOOLEAN
  BY <1>1, <1>2, CloseInTo, LinksAndDirs DEF Typed
<1>4. /\ m["tunnel"]["out"] = Ended(net["tunnel"]["out"])
      /\ m["tunnel"]["back"] = net["tunnel"]["back"]
      /\ \A l \in Link, d \in Dir : l # "tunnel" => m[l][d] = net[l][d]
  BY <1>1, LinksAndDirs DEF ClosedTo
<1>5. /\ net'["user"]["back"] \in {Ended(m["user"]["back"]), Reset(m["user"]["back"])}
      /\ net'["user"]["out"] = Shut(m["user"]["out"])
      /\ \A l \in Link, d \in Dir : l # "user" => net'[l][d] = m[l][d]
      /\ net' \in Nets
  BY <1>3, LinksAndDirs DEF ClosedTo
<1> QED
  BY <1>3, <1>4, <1>5, LinksAndDirs

LEMMA ByteNumbers == 0 \in Byte /\ 1 \in Byte /\ 2 \in Byte /\ 0 \in Port /\ <<>> \in Seq(Byte)
<1>1. 0 \in Port
  <2>1. MaxPort \in Int /\ 0 <= MaxPort
    BY DEF MaxPort
  <2> QED
    BY <2>1 DEF Port
<1>2. 0 \in Byte /\ 1 \in Byte /\ 2 \in Byte
  BY DEF Byte
<1> QED
  BY <1>1, <1>2, EmptySeq

LEMMA PropertyTyped ==
    ASSUME mode \in {"connect", "ssh"}, mode = "connect" => asked \in Targets,
           Property.port \in Port
    PROVE  Property \in ConnProperty
<1>1. CASE mode = "ssh"
  <2>1. Property = [pattern |-> 2, host |-> <<>>, port |-> 0]
    BY <1>1 DEF Property, SSHPattern
  <2>2. 2 \in Byte /\ 0 \in Port
    BY ByteNumbers
  <2>3. PICK s \in Seq(Byte) : s = <<>>
    BY ByteNumbers
  <2>4. Property = [pattern |-> 2, host |-> s, port |-> 0]
    BY <2>1, <2>3
  <2> QED
    BY <2>2, <2>4 DEF ConnProperty
<1>2. CASE mode = "connect"
  <2>1. Property = [pattern |-> 1, host |-> HostName[asked.host], port |-> asked.port]
    BY <1>2 DEF Property, ProxyPattern
  <2>2. asked.host \in Hosts
    BY <1>2, ForwardingAssumption
  <2>3. HostName[asked.host] \in Seq(Byte) /\ 1 \in Byte
    BY <2>2, ForwardingAssumption, ByteNumbers
  <2>4. asked.port \in Port
    BY <2>1
  <2> QED
    BY <2>1, <2>3, <2>4 DEF ConnProperty
<1> QED
  BY <1>1, <1>2

LEMMA FarReadsNet ==
    ASSUME TypeOK, Targeted, FarReads
    PROVE  net' = net /\ property' = Property /\ Property \in ConnProperty
<1>0. mode \in {"connect", "ssh"}
  BY DEF TypeOK, Targeted, FarReads
<1>1. Property \in ConnProperty /\ Encodable(Property) /\ header = EncodeConnProperty(Property)
  BY <1>0, PropertyTyped DEF Targeted, FarReads
<1>2. ResolveConnProperty(header) = Property /\ AfterHeader(header) = <<>>
  BY <1>1, HeaderRoundTrip
<1>3. net' = [net EXCEPT !["tunnel"]["out"].q = <<>> \o net["tunnel"]["out"].q]
  BY <1>2 DEF FarReads
<1>4. net \in Nets /\ net["tunnel"]["out"] \in Pipe
  BY TypedNow, NetParts, LinksAndDirs DEF Typed
<1>5. net["tunnel"]["out"].q \in Seq(Nat)
  BY <1>4, PipeParts
<1>6. <<>> \o net["tunnel"]["out"].q = net["tunnel"]["out"].q
  BY <1>5, ConcatEmptySeq
<1>7. [net["tunnel"]["out"] EXCEPT !.q = net["tunnel"]["out"].q] = net["tunnel"]["out"]
  BY <1>4, <1>5, PipeParts, SetParts
<1>8. net' = [net EXCEPT !["tunnel"]["out"].q = net["tunnel"]["out"].q]
  BY <1>3, <1>6
<1>9. net' = net
  BY <1>4, <1>7, <1>8 DEF Nets
<1> QED
  BY <1>1, <1>2, <1>9 DEF FarReads

LEMMA FarFailsNet ==
    ASSUME Typed, FarFails
    PROVE  ClosedTo(net, net', "tunnel", "back") /\ net' \in Nets
  BY HalfClosedTo, LinksAndDirs DEF FarFails, Typed, ClosedTo

LEMMA CopyReadsNet ==
    ASSUME Typed, NEW p \in Process, NEW d \in Dir, CopyReads(p, d)
    PROVE  LET l == Source(p, d)
           IN  /\ Changed(net, net', l, d, Taken(net[l][d]))
               /\ held' = [held EXCEPT ![p][d] = <<Head(net[l][d].q)>>]
               /\ net[l][d].q # <<>> /\ Head(net[l][d].q) \in Nat
               /\ net' \in Nets
<1> DEFINE l == Source(p, d)
<1>1. l \in Link
  BY SourcesAndSinks
<1>2. /\ net[l][d].q # <<>> /\ net' = [net EXCEPT ![l][d].q = Tail(@)]
      /\ held' = [held EXCEPT ![p][d] = <<Head(net[l][d].q)>>]
  BY DEF CopyReads
<1> HIDE DEF l
<1>3. /\ Head(net[l][d].q) \in Nat /\ net' \in Nets
      /\ Changed(net, net', l, d, Taken(net[l][d]))
  BY <1>1, <1>2, TakeTo DEF Typed
<1> QED
  BY <1>2, <1>3 DEF l

LEMMA CopyWritesNet ==
    ASSUME Typed, NEW p \in Process, NEW d \in Dir, CopyWrites(p, d)
    PROVE  LET l == Sink(p, d)
           IN  /\ Changed(net, net', l, d, Added(net[l][d], Head(held[p][d])))
               /\ net' \in Nets
<1> DEFINE l == Sink(p, d)
<1>1. l \in Link
  BY SourcesAndSinks
<1>2. /\ held[p][d] # <<>> /\ Len(net[l][d].q) < Window
      /\ net' = Put(net, l, d, Head(held[p][d]))
  BY DEF CopyWrites, CanWrite
<1> HIDE DEF l
<1>3. held[p][d] \in Seq(Nat)
  BY DEF Typed
<1>4. Head(held[p][d]) \in Nat
  BY <1>2, <1>3
<1>5. /\ net' \in Nets
      /\ Changed(net, net', l, d, Added(net[l][d], Head(held[p][d])))
  BY <1>1, <1>2, <1>4, PutTo DEF Typed
<1> QED
  BY <1>5 DEF l

LEMMA CopyEndsNet ==
    ASSUME Typed, NEW p \in Process, NEW d \in Dir, CopyEnds(p, d)
    PROVE  ClosedTo(net, net', Sink(p, d), d) /\ net' \in Nets /\ lost' \in BOOLEAN
<1>1. Sink(p, d) \in Link /\ CloseIn(net, Sink(p, d), d)
  BY SourcesAndSinks DEF CopyEnds
<1>2. ClosedTo(net, net', Sink(p, d), d) /\ lost' \in BOOLEAN
  BY <1>1, CloseInTo DEF Typed
<1> QED
  BY <1>2 DEF ClosedTo

LEMMA SendsNet ==
    ASSUME Typed, NEW e \in Endpoint, Sends(e), sent[e] \in Nat
    PROVE  LET d == Outward(e)
           IN  /\ \/ /\ net[e][d].shut
                     /\ Changed(net, net', e, Opposite(d), Emptied(net[e][Opposite(d)]))
                  \/ /\ CanWrite(e, d)
                     /\ Changed(net, net', e, d, Added(net[e][d], Base(e) + sent[e] + 1))
               /\ net' \in Nets /\ lost' \in BOOLEAN
<1> DEFINE d == Outward(e)
<1>1. e \in Link /\ d \in Dir /\ Opposite(d) \in Dir /\ Base(e) \in Nat
  BY EndpointDirs
<1>2. CASE net[e][d].shut
  <2>1. net' = [net EXCEPT ![e][Opposite(d)].q = <<>>] /\ lost' = TRUE
    BY <1>2 DEF Sends
  <2> HIDE DEF d
  <2>2. net' \in Nets /\ Changed(net, net', e, Opposite(d), Emptied(net[e][Opposite(d)]))
    BY <1>1, <2>1, EmptyTo DEF Typed
  <2> QED
    BY <1>2, <2>1, <2>2 DEF d
<1>3. CASE ~net[e][d].shut
  <2>1. /\ CanWrite(e, d) /\ net' = Put(net, e, d, Base(e) + sent[e] + 1)
        /\ UNCHANGED lost
    BY <1>3 DEF Sends
  <2>2. Len(net[e][d].q) < Window
    BY <2>1 DEF CanWrite
  <2> HIDE DEF d
  <2>3. Base(e) + sent[e] + 1 \in Nat
    BY <1>1
  <2>4. net' \in Nets /\ Changed(net, net', e, d, Added(net[e][d], Base(e) + sent[e] + 1))
    BY <1>1, <2>1, <2>2, <2>3, PutTo DEF Typed
  <2> QED
    BY <2>1, <2>4 DEF d, Typed
<1> QED
  BY <1>2, <1>3

LEMMA GetsNet ==
    ASSUME Typed, NEW e \in Endpoint, Gets(e)
    PROVE  LET d == Opposite(Outward(e))
           IN  /\ Changed(net, net', e, d, Taken(net[e][d]))
               /\ net[e][d].q # <<>> /\ Head(net[e][d].q) \in Nat
               /\ got' = [got EXCEPT ![e] = Append(@, Head(net[e][d].q))]
               /\ net' \in Nets
<1> DEFINE d == Opposite(Outward(e))
<1>1. e \in Link /\ d \in Dir
  BY EndpointDirs
<1>2. /\ net[e][d].q # <<>> /\ net' = [net EXCEPT ![e][d].q = Tail(@)]
      /\ got' = [got EXCEPT ![e] = Append(@, Head(net[e][d].q))]
  BY DEF Gets
<1> HIDE DEF d
<1>3. /\ Head(net[e][d].q) \in Nat /\ net' \in Nets
      /\ Changed(net, net', e, d, Taken(net[e][d]))
  BY <1>1, <1>2, TakeTo DEF Typed
<1> QED
  BY <1>2, <1>3 DEF d

LEMMA HalfClosesNet ==
    ASSUME Typed, NEW e \in Endpoint, HalfCloses(e)
    PROVE  Changed(net, net', e, Outward(e), Ended(net[e][Outward(e)])) /\ net' \in Nets
<1> DEFINE d == Outward(e)
<1>1. e \in Link /\ d \in Dir /\ net' = HalfClosed(net, e, d)
  BY EndpointDirs DEF HalfCloses
<1> HIDE DEF d
<1>2. net' \in Nets /\ Changed(net, net', e, d, Ended(net[e][d]))
  BY <1>1, SetFin DEF Typed, Ended
<1> QED
  BY <1>2 DEF d

LEMMA ClosesNet ==
    ASSUME Typed, NEW e \in Endpoint, Closes(e)
    PROVE  ClosedTo(net, net', e, Outward(e)) /\ net' \in Nets /\ lost' \in BOOLEAN
<1>1. e \in Link /\ Outward(e) \in Dir /\ CloseIn(net, e, Outward(e))
  BY EndpointDirs DEF Closes
<1>2. ClosedTo(net, net', e, Outward(e)) /\ lost' \in BOOLEAN
  BY <1>1, CloseInTo DEF Typed
<1> QED
  BY <1>2 DEF ClosedTo

-----------------------------------------------------------------------------
(* Every step keeps the types.                                             *)

ConfTyped ==
    /\ serverFile \in File(ServerRules) /\ rules \in ServerRules
    /\ clientFile \in File(ClientProxy) /\ via \in [Hosts -> {"direct", "proxy"}]
    /\ nks \in {"off", "on", "failed"} /\ nk \in {"off", "on", "failed"}
    /\ forward \in BOOLEAN
    /\ session \in {"none", "up", "closed"}
    /\ mode \in {"none", "connect", "ssh"}
    /\ asked \in Targets \cup {NoTarget}

PlaceTyped ==
    /\ near \in {"idle", "dial", "refused", "hijack", "greet", "early", "relay", "over"}
    /\ far \in {"none", "header", "dial", "relay", "over"}
    /\ header \in Seq(Byte) /\ property \in ConnProperty
    /\ deadline \in BOOLEAN /\ cancelled \in BOOLEAN
    /\ reached \in [host : Seq(Byte), port : Port, route : {"none", "direct", "proxy", "sshd"}]

CopyTyped ==
    /\ held \in [Process -> [Dir -> Seq(Nat)]]
    /\ copy \in [Process -> [Dir -> {"idle", "on", "done"}]]

EndsTyped ==
    /\ sent \in [Endpoint -> Nat] /\ got \in [Endpoint -> Seq(Nat)]
    /\ ended \in [Endpoint -> {"open", "early", "half", "closed"}]

NetTyped == net \in Nets /\ lost \in BOOLEAN

LEMMA TypeSplit ==
    TypeOK <=> ConfTyped /\ PlaceTyped /\ CopyTyped /\ EndsTyped /\ NetTyped
  BY DEF TypeOK, ConfTyped, PlaceTyped, CopyTyped, EndsTyped, NetTyped, Nets

LEMMA ConfLemmas ==
    /\ zeroServerRules \in ServerRules /\ defaultServerRules \in ServerRules
    /\ zeroClientProxy \in ClientProxy /\ defaultClientProxy \in ClientProxy
    /\ \A f \in File(ServerRules) :
           /\ Loaded(f, defaultServerRules, zeroServerRules) \in ServerRules
           /\ FileAfterLoad(f, defaultServerRules) \in File(ServerRules)
    /\ \A f \in File(ClientProxy) :
           /\ Loaded(f, defaultClientProxy, zeroClientProxy) \in ClientProxy
           /\ FileAfterLoad(f, defaultClientProxy) \in File(ClientProxy)
    /\ \A u \in BOOLEAN, conf \in ClientProxy :
           RouteDialer(u, conf) \in [Hosts -> {"direct", "proxy"}]
    /\ Always("direct") \in [Hosts -> {"direct", "proxy"}]
<1>1. zeroServerRules \in ServerRules /\ zeroClientProxy \in ClientProxy
  BY DEF zeroServerRules, zeroClientProxy, ServerRules, ClientProxy
<1>2. defaultServerRules \in ServerRules /\ defaultClientProxy \in ClientProxy
  BY SettingsAssumption
     DEF defaultServerRules, defaultClientProxy, ServerRules, ClientProxy
<1>3. ASSUME NEW f \in File(ServerRules)
      PROVE  /\ Loaded(f, defaultServerRules, zeroServerRules) \in ServerRules
             /\ FileAfterLoad(f, defaultServerRules) \in File(ServerRules)
  BY <1>1, <1>2 DEF Loaded, FileAfterLoad, Saved, File, Shape
<1>4. ASSUME NEW f \in File(ClientProxy)
      PROVE  /\ Loaded(f, defaultClientProxy, zeroClientProxy) \in ClientProxy
             /\ FileAfterLoad(f, defaultClientProxy) \in File(ClientProxy)
  BY <1>1, <1>2 DEF Loaded, FileAfterLoad, Saved, File, Shape
<1>5. Always("direct") \in [Hosts -> {"direct", "proxy"}]
      /\ Always("proxy") \in [Hosts -> {"direct", "proxy"}]
  BY DEF Always
<1>6. ASSUME NEW u \in BOOLEAN, NEW conf \in ClientProxy
      PROVE  RouteDialer(u, conf) \in [Hosts -> {"direct", "proxy"}]
  BY <1>5 DEF RouteDialer, PerHost
<1> QED
  BY <1>1, <1>2, <1>3, <1>4, <1>5, <1>6

LEMMA InitTyped == Init => TypeOK
<1> SUFFICES ASSUME Init PROVE TypeOK
  OBVIOUS
<1>1. ConfTyped
  BY ConfLemmas, ForwardingAssumption DEF Init, ConfTyped
<1>2. PlaceTyped
  <2>1. PICK s \in Seq(Byte) : s = <<>>
    BY ByteNumbers
  <2>2. [pattern |-> 0, host |-> s, port |-> 0] \in ConnProperty
    BY ByteNumbers DEF ConnProperty
  <2>3. [host |-> s, port |-> 0, route |-> "none"]
            \in [host : Seq(Byte), port : Port, route : {"none", "direct", "proxy", "sshd"}]
    BY ByteNumbers
  <2> QED
    BY <2>1, <2>2, <2>3 DEF Init, PlaceTyped, NoProperty, Nowhere
<1>3. CopyTyped
  BY DEF Init, CopyTyped
<1>4. EndsTyped
  BY DEF Init, EndsTyped
<1>5. NetTyped
  <2> DEFINE x == [q |-> <<>>, fin |-> FALSE, shut |-> FALSE]
  <2>1. x \in Pipe /\ Len(x.q) <= Window
    <3>1. <<>> \in Seq(Nat) /\ Len(<<>>) <= Window
      BY ForwardingAssumption
    <3> QED
      BY <3>1, PipeParts
  <2>2. net = [l \in Link |-> [d \in Dir |-> x]] /\ lost \in BOOLEAN
    BY DEF Init
  <2> HIDE DEF x
  <2>3. net \in [Link -> [Dir -> Pipe]] /\ \A l \in Link, d \in Dir : net[l][d] = x
    BY <2>1, <2>2
  <2> QED
    BY <2>1, <2>2, <2>3 DEF NetTyped, Nets
<1> QED
  BY <1>1, <1>2, <1>3, <1>4, <1>5, TypeSplit

LEMMA ConfStep ==
    ASSUME TypeOK, [Next]_vars
    PROVE  ConfTyped'
<1>1. CASE DialOpens
  BY <1>1 DEF DialOpens, TypeOK, ConfTyped, confVars, vars
<1>2. CASE DialFails
  BY <1>2 DEF DialFails, TypeOK, ConfTyped, confVars, vars
<1>3. CASE Hijack
  BY <1>3 DEF Hijack, TypeOK, ConfTyped, confVars, vars
<1>4. CASE Greet
  BY <1>4 DEF Greet, TypeOK, ConfTyped, confVars, vars
<1>5. CASE SendEarly
  BY <1>5 DEF SendEarly, TypeOK, ConfTyped, confVars, vars
<1>6. CASE EarlySent
  BY <1>6 DEF EarlySent, TypeOK, ConfTyped, confVars, vars
<1>7. CASE NearFails
  BY <1>7 DEF NearFails, TypeOK, ConfTyped, confVars, vars
<1>8. CASE FarReads
  BY <1>8 DEF FarReads, TypeOK, ConfTyped, confVars, vars
<1>9. CASE FarFails
  BY <1>9 DEF FarFails, TypeOK, ConfTyped, confVars, vars
<1>10. CASE CloseTimeout
  BY <1>10 DEF CloseTimeout, TypeOK, ConfTyped, confVars, vars
<1>11. ASSUME NEW p \in Process, RelayReturns(p)
      PROVE  ConfTyped'
  BY <1>11 DEF RelayReturns, TypeOK, ConfTyped, confVars, vars
<1>12. ASSUME NEW p \in Process, NEW d \in Dir, CopyReads(p, d)
      PROVE  ConfTyped'
  BY <1>12 DEF CopyReads, TypeOK, ConfTyped, confVars, vars
<1>13. ASSUME NEW p \in Process, NEW d \in Dir, CopyWrites(p, d)
      PROVE  ConfTyped'
  BY <1>13 DEF CopyWrites, TypeOK, ConfTyped, confVars, vars
<1>14. ASSUME NEW p \in Process, NEW d \in Dir, CopyEnds(p, d)
      PROVE  ConfTyped'
  BY <1>14 DEF CopyEnds, TypeOK, ConfTyped, confVars, vars
<1>15. ASSUME NEW e \in Endpoint, Gets(e)
      PROVE  ConfTyped'
  BY <1>15 DEF Gets, TypeOK, ConfTyped, confVars, vars
<1>16. CASE NksStarts
  BY <1>16, ConfLemmas DEF NksStarts, TypeOK, ConfTyped
<1>17. CASE NksRestarts
  BY <1>17, ConfLemmas DEF NksRestarts, TypeOK, ConfTyped
<1>18. CASE SessionEnds
  BY <1>18 DEF SessionEnds, TypeOK, ConfTyped, confVars, vars
<1>19. CASE AskSSH
  BY <1>19 DEF AskSSH, TypeOK, ConfTyped, confVars, vars
<1>20. CASE Cancelled
  BY <1>20 DEF Cancelled, TypeOK, ConfTyped, confVars, vars
<1>21. CASE FarDials
  BY <1>21 DEF FarDials, TypeOK, ConfTyped, confVars, vars
<1>22. ASSUME NEW useProxy \in UsesProxy, NkStarts(useProxy)
      PROVE  ConfTyped'
  <2> DEFINE conf == Loaded(clientFile, defaultClientProxy, zeroClientProxy)
  <2>1. useProxy \in BOOLEAN /\ conf \in ClientProxy
    BY ConfLemmas, ForwardingAssumption DEF TypeOK
  <2>2. RouteDialer(useProxy, conf) \in [Hosts -> {"direct", "proxy"}]
    BY <2>1, ConfLemmas
  <2>3. FileAfterLoad(clientFile, defaultClientProxy) \in File(ClientProxy)
    BY ConfLemmas DEF TypeOK
  <2>4. via' \in [Hosts -> {"direct", "proxy"}] /\ clientFile' \in File(ClientProxy)
    BY <1>22, <2>2, <2>3 DEF NkStarts, TypeOK
  <2>5. nk' \in {"off", "on", "failed"} /\ session' \in {"none", "up", "closed"}
    BY <1>22 DEF NkStarts
  <2>6. UNCHANGED <<serverFile, rules, nks, forward, mode, asked>>
    BY <1>22 DEF NkStarts
  <2> QED
    BY <2>4, <2>5, <2>6 DEF ConfTyped, TypeOK
<1>23. ASSUME NEW t \in Targets, Ask(t)
      PROVE  ConfTyped'
  BY <1>23 DEF Ask, TypeOK, ConfTyped, confVars, vars
<1>24. ASSUME NEW e \in Endpoint, Sends(e)
      PROVE  ConfTyped'
  BY <1>24 DEF Sends, TypeOK, ConfTyped, confVars, vars
<1>25. ASSUME NEW e \in Endpoint, HalfCloses(e)
      PROVE  ConfTyped'
  BY <1>25 DEF HalfCloses, TypeOK, ConfTyped, confVars, vars
<1>26. ASSUME NEW e \in Endpoint, Closes(e)
      PROVE  ConfTyped'
  BY <1>26 DEF Closes, TypeOK, ConfTyped, confVars, vars
<1>27. CASE UNCHANGED vars
  BY <1>27 DEF vars, TypeOK, ConfTyped, confVars
<1> QED
  BY <1>1, <1>2, <1>3, <1>4, <1>5, <1>6, <1>7, <1>8, <1>9, <1>10, <1>11, <1>12, <1>13, <1>14, <1>15, <1>16, <1>17, <1>18, <1>19, <1>20, <1>21, <1>22, <1>23, <1>24, <1>25, <1>26, <1>27 DEF Next, Program, Environment

LEMMA EndsStep ==
    ASSUME TypeOK, [Next]_vars
    PROVE  EndsTyped'
<1>1. CASE DialOpens
  BY <1>1 DEF DialOpens, TypeOK, EndsTyped, endVars, vars
<1>2. CASE DialFails
  BY <1>2 DEF DialFails, TypeOK, EndsTyped, endVars, vars
<1>3. CASE Hijack
  BY <1>3 DEF Hijack, TypeOK, EndsTyped, endVars, vars
<1>4. CASE Greet
  BY <1>4 DEF Greet, TypeOK, EndsTyped, endVars, vars
<1>5. CASE SendEarly
  BY <1>5 DEF SendEarly, TypeOK, EndsTyped, endVars, vars
<1>6. CASE EarlySent
  BY <1>6 DEF EarlySent, TypeOK, EndsTyped, endVars, vars
<1>7. CASE NearFails
  BY <1>7 DEF NearFails, TypeOK, EndsTyped, endVars, vars
<1>8. CASE FarReads
  BY <1>8 DEF FarReads, TypeOK, EndsTyped, endVars, vars
<1>9. CASE FarFails
  BY <1>9 DEF FarFails, TypeOK, EndsTyped, endVars, vars
<1>10. CASE CloseTimeout
  BY <1>10 DEF CloseTimeout, TypeOK, EndsTyped, endVars, vars
<1>11. ASSUME NEW p \in Process, RelayReturns(p)
      PROVE  EndsTyped'
  BY <1>11 DEF RelayReturns, TypeOK, EndsTyped, endVars, vars
<1>12. ASSUME NEW p \in Process, NEW d \in Dir, CopyReads(p, d)
      PROVE  EndsTyped'
  BY <1>12 DEF CopyReads, TypeOK, EndsTyped, endVars, vars
<1>13. ASSUME NEW p \in Process, NEW d \in Dir, CopyWrites(p, d)
      PROVE  EndsTyped'
  BY <1>13 DEF CopyWrites, TypeOK, EndsTyped, endVars, vars
<1>14. ASSUME NEW p \in Process, NEW d \in Dir, CopyEnds(p, d)
      PROVE  EndsTyped'
  BY <1>14 DEF CopyEnds, TypeOK, EndsTyped, endVars, vars
<1>15. ASSUME NEW e \in Endpoint, Gets(e)
      PROVE  EndsTyped'
  <2>1. /\ Head(net[e][Opposite(Outward(e))].q) \in Nat
        /\ got' = [got EXCEPT ![e] = Append(got[e], Head(net[e][Opposite(Outward(e))].q))]
    BY <1>15, GetsNet, TypedNow
  <2>2. got' \in [Endpoint -> Seq(Nat)]
    BY <2>1 DEF TypeOK
  <2> QED
    BY <1>15, <2>2 DEF Gets, TypeOK, EndsTyped
<1>16. CASE NksStarts
  BY <1>16 DEF NksStarts, TypeOK, EndsTyped, endVars, vars
<1>17. CASE NksRestarts
  BY <1>17 DEF NksRestarts, TypeOK, EndsTyped, endVars, vars
<1>18. CASE SessionEnds
  BY <1>18 DEF SessionEnds, TypeOK, EndsTyped, endVars, vars
<1>19. CASE AskSSH
  BY <1>19 DEF AskSSH, TypeOK, EndsTyped, endVars, vars
<1>20. CASE Cancelled
  BY <1>20 DEF Cancelled, TypeOK, EndsTyped, endVars, vars
<1>21. CASE FarDials
  BY <1>21 DEF FarDials, TypeOK, EndsTyped, endVars, vars
<1>22. ASSUME NEW useProxy \in UsesProxy, NkStarts(useProxy)
      PROVE  EndsTyped'
  BY <1>22 DEF NkStarts, TypeOK, EndsTyped, endVars, vars
<1>23. ASSUME NEW t \in Targets, Ask(t)
      PROVE  EndsTyped'
  BY <1>23 DEF Ask, TypeOK, EndsTyped, endVars, vars
<1>24. ASSUME NEW e \in Endpoint, Sends(e)
      PROVE  EndsTyped'
  BY <1>24 DEF Sends, TypeOK, EndsTyped, endVars, vars
<1>25. ASSUME NEW e \in Endpoint, HalfCloses(e)
      PROVE  EndsTyped'
  BY <1>25 DEF HalfCloses, TypeOK, EndsTyped, endVars, vars
<1>26. ASSUME NEW e \in Endpoint, Closes(e)
      PROVE  EndsTyped'
  BY <1>26 DEF Closes, TypeOK, EndsTyped, endVars, vars
<1>27. CASE UNCHANGED vars
  BY <1>27 DEF vars, endVars, TypeOK, EndsTyped
<1> QED
  BY <1>1, <1>2, <1>3, <1>4, <1>5, <1>6, <1>7, <1>8, <1>9, <1>10, <1>11, <1>12, <1>13, <1>14, <1>15, <1>16, <1>17, <1>18, <1>19, <1>20, <1>21, <1>22, <1>23, <1>24, <1>25, <1>26, <1>27 DEF Next, Program, Environment

LEMMA CopySets ==
    ASSUME CopyTyped, NEW p \in Process
    PROVE  /\ \A d \in Dir, s \in Seq(Nat) :
                  [held EXCEPT ![p][d] = s] \in [Process -> [Dir -> Seq(Nat)]]
           /\ \A d \in Dir : [held EXCEPT ![p][d] = <<>>] \in [Process -> [Dir -> Seq(Nat)]]
           /\ [copy EXCEPT ![p] = [d \in Dir |-> "on"]]
                  \in [Process -> [Dir -> {"idle", "on", "done"}]]
           /\ \A d \in Dir :
                  [copy EXCEPT ![p][d] = "done"] \in [Process -> [Dir -> {"idle", "on", "done"}]]
<1>1. ASSUME NEW d \in Dir, NEW s \in Seq(Nat)
      PROVE  [held EXCEPT ![p][d] = s] \in [Process -> [Dir -> Seq(Nat)]]
  BY DEF CopyTyped
<1>2. PICK z \in Seq(Nat) : z = <<>>
  BY EmptySeq
<1>3. [copy EXCEPT ![p] = [d \in Dir |-> "on"]] \in [Process -> [Dir -> {"idle", "on", "done"}]]
  BY DEF CopyTyped
<1>4. \A d \in Dir :
        [copy EXCEPT ![p][d] = "done"] \in [Process -> [Dir -> {"idle", "on", "done"}]]
  BY DEF CopyTyped
<1> QED
  BY <1>1, <1>2, <1>3, <1>4

LEMMA CopyStep ==
    ASSUME TypeOK, CopyTyped, [Next]_vars
    PROVE  CopyTyped'
<1>1. CASE DialOpens
  BY <1>1, CopySets, LinksAndDirs DEF DialOpens, CopyTyped
<1>2. CASE DialFails
  BY <1>2 DEF DialFails, CopyTyped, copyVars, vars
<1>3. CASE Hijack
  <2>1. \E s \in Seq(Nat) : held' = [held EXCEPT !["near"]["out"] = s]
    BY <1>3, HijackNet, TypedNow
  <2>2. held' \in [Process -> [Dir -> Seq(Nat)]]
    BY <2>1, CopySets, LinksAndDirs
  <2>3. UNCHANGED copy
    BY <1>3 DEF Hijack
  <2> QED
    BY <2>2, <2>3 DEF CopyTyped
<1>4. CASE Greet
  BY <1>4 DEF Greet, CopyTyped, copyVars, vars
<1>5. CASE SendEarly
  <2>1. held["near"]["out"] \in Seq(Nat) /\ held["near"]["out"] # <<>>
    BY <1>5, LinksAndDirs DEF SendEarly, CopyTyped
  <2>2. Tail(held["near"]["out"]) \in Seq(Nat)
    BY <2>1
  <2>3. held' = [held EXCEPT !["near"]["out"] = Tail(held["near"]["out"])] /\ UNCHANGED copy
    BY <1>5 DEF SendEarly
  <2> QED
    BY <2>2, <2>3, CopySets, LinksAndDirs DEF CopyTyped
<1>6. CASE EarlySent
  BY <1>6, CopySets, LinksAndDirs DEF EarlySent, CopyTyped
<1>7. CASE NearFails
  BY <1>7, CopySets, LinksAndDirs DEF NearFails, CopyTyped
<1>8. CASE FarReads
  BY <1>8 DEF FarReads, CopyTyped, copyVars, vars
<1>9. CASE FarFails
  BY <1>9 DEF FarFails, CopyTyped, copyVars, vars
<1>10. CASE CloseTimeout
  BY <1>10 DEF CloseTimeout, CopyTyped, copyVars, vars
<1>11. ASSUME NEW p \in Process, RelayReturns(p)
      PROVE  CopyTyped'
  BY <1>11 DEF RelayReturns, CopyTyped, copyVars, vars
<1>12. ASSUME NEW p \in Process, NEW d \in Dir, CopyReads(p, d)
      PROVE  CopyTyped'
  <2>1. \E v \in Nat : held' = [held EXCEPT ![p][d] = <<v>>]
    BY <1>12, CopyReadsNet, TypedNow
  <2>2. held' \in [Process -> [Dir -> Seq(Nat)]]
    BY <1>12, <2>1, CopySets
  <2>3. UNCHANGED copy
    BY <1>12 DEF CopyReads
  <2> QED
    BY <2>2, <2>3 DEF CopyTyped
<1>13. ASSUME NEW p \in Process, NEW d \in Dir, CopyWrites(p, d)
      PROVE  CopyTyped'
  <2>1. held[p][d] \in Seq(Nat) /\ held[p][d] # <<>>
    BY <1>13 DEF CopyWrites, CopyTyped
  <2>2. Tail(held[p][d]) \in Seq(Nat)
    BY <2>1
  <2>3. held' = [held EXCEPT ![p][d] = Tail(held[p][d])] /\ UNCHANGED copy
    BY <1>13 DEF CopyWrites
  <2> QED
    BY <1>13, <2>2, <2>3, CopySets DEF CopyTyped
<1>14. ASSUME NEW p \in Process, NEW d \in Dir, CopyEnds(p, d)
      PROVE  CopyTyped'
  BY <1>14, CopySets, LinksAndDirs DEF CopyEnds, CopyTyped
<1>15. ASSUME NEW e \in Endpoint, Gets(e)
      PROVE  CopyTyped'
  BY <1>15 DEF Gets, CopyTyped, copyVars, vars
<1>16. CASE NksStarts
  BY <1>16 DEF NksStarts, CopyTyped, copyVars, vars
<1>17. CASE NksRestarts
  BY <1>17 DEF NksRestarts, CopyTyped, copyVars, vars
<1>18. CASE SessionEnds
  BY <1>18 DEF SessionEnds, CopyTyped, copyVars, vars
<1>19. CASE AskSSH
  BY <1>19 DEF AskSSH, CopyTyped, copyVars, vars
<1>20. CASE Cancelled
  BY <1>20 DEF Cancelled, CopyTyped, copyVars, vars
<1>21. CASE FarDials
  BY <1>21, CopySets, LinksAndDirs DEF FarDials, CopyTyped
<1>22. ASSUME NEW useProxy \in UsesProxy, NkStarts(useProxy)
      PROVE  CopyTyped'
  BY <1>22 DEF NkStarts, CopyTyped, copyVars, vars
<1>23. ASSUME NEW t \in Targets, Ask(t)
      PROVE  CopyTyped'
  BY <1>23 DEF Ask, CopyTyped, copyVars, vars
<1>24. ASSUME NEW e \in Endpoint, Sends(e)
      PROVE  CopyTyped'
  BY <1>24 DEF Sends, CopyTyped, copyVars, vars
<1>25. ASSUME NEW e \in Endpoint, HalfCloses(e)
      PROVE  CopyTyped'
  BY <1>25 DEF HalfCloses, CopyTyped, copyVars, vars
<1>26. ASSUME NEW e \in Endpoint, Closes(e)
      PROVE  CopyTyped'
  BY <1>26 DEF Closes, CopyTyped, copyVars, vars
<1>27. CASE UNCHANGED vars
  BY <1>27 DEF vars, copyVars, CopyTyped
<1> QED
  BY <1>1, <1>2, <1>3, <1>4, <1>5, <1>6, <1>7, <1>8, <1>9, <1>10, <1>11, <1>12, <1>13, <1>14, <1>15, <1>16, <1>17, <1>18, <1>19, <1>20, <1>21, <1>22, <1>23, <1>24, <1>25, <1>26, <1>27 DEF Next, Program, Environment

LEMMA NetStep ==
    ASSUME TypeOK, Targeted, [Next]_vars
    PROVE  NetTyped'
<1>1. CASE DialOpens
  BY <1>1, TypedNow DEF DialOpens, TypeOK, Typed, NetTyped, vars
<1>2. CASE DialFails
  BY <1>2, TypedNow, DialFailsNet DEF DialFails, Typed, NetTyped
<1>3. CASE Hijack
  <2>1. net' \in Nets
    BY <1>3, TypedNow, HijackNet
  <2> QED
    BY <1>3, <2>1, TypedNow DEF Hijack, Typed, NetTyped
<1>4. CASE Greet
  BY <1>4, TypedNow, GreetNet DEF Greet, Typed, NetTyped
<1>5. CASE SendEarly
  BY <1>5, TypedNow, SendEarlyNet DEF SendEarly, Typed, NetTyped
<1>6. CASE EarlySent
  BY <1>6, TypedNow DEF EarlySent, TypeOK, Typed, NetTyped, vars
<1>7. CASE NearFails
  BY <1>7, TypedNow, NearFailsNet DEF NearFails, Typed, NetTyped
<1>8. CASE FarReads
  BY <1>8, TypedNow, FarReadsNet DEF FarReads, Typed, NetTyped
<1>9. CASE FarFails
  BY <1>9, TypedNow, FarFailsNet DEF FarFails, Typed, NetTyped
<1>10. CASE CloseTimeout
  BY <1>10, TypedNow, CloseTimeoutNet DEF CloseTimeout, Typed, NetTyped
<1>11. ASSUME NEW p \in Process, RelayReturns(p)
      PROVE  NetTyped'
  BY <1>11, TypedNow DEF RelayReturns, TypeOK, Typed, NetTyped, vars
<1>12. ASSUME NEW p \in Process, NEW d \in Dir, CopyReads(p, d)
      PROVE  NetTyped'
  BY <1>12, TypedNow, CopyReadsNet DEF CopyReads, Typed, NetTyped
<1>13. ASSUME NEW p \in Process, NEW d \in Dir, CopyWrites(p, d)
      PROVE  NetTyped'
  BY <1>13, TypedNow, CopyWritesNet DEF CopyWrites, Typed, NetTyped
<1>14. ASSUME NEW p \in Process, NEW d \in Dir, CopyEnds(p, d)
      PROVE  NetTyped'
  BY <1>14, TypedNow, CopyEndsNet DEF CopyEnds, Typed, NetTyped
<1>15. ASSUME NEW e \in Endpoint, Gets(e)
      PROVE  NetTyped'
  BY <1>15, TypedNow, GetsNet DEF Gets, Typed, NetTyped
<1>16. CASE NksStarts
  BY <1>16, TypedNow DEF NksStarts, TypeOK, Typed, NetTyped, vars
<1>17. CASE NksRestarts
  BY <1>17, TypedNow DEF NksRestarts, TypeOK, Typed, NetTyped, vars
<1>18. CASE SessionEnds
  BY <1>18, TypedNow, SessionEndsNet DEF SessionEnds, Typed, NetTyped
<1>19. CASE AskSSH
  BY <1>19, TypedNow DEF AskSSH, TypeOK, Typed, NetTyped, vars
<1>20. CASE Cancelled
  BY <1>20, TypedNow, CancelledNet DEF Cancelled, Typed, NetTyped
<1>21. CASE FarDials
  BY <1>21, TypedNow DEF FarDials, TypeOK, Typed, NetTyped, vars
<1>22. ASSUME NEW useProxy \in UsesProxy, NkStarts(useProxy)
      PROVE  NetTyped'
  BY <1>22, TypedNow DEF NkStarts, TypeOK, Typed, NetTyped, vars
<1>23. ASSUME NEW t \in Targets, Ask(t)
      PROVE  NetTyped'
  BY <1>23, TypedNow DEF Ask, TypeOK, Typed, NetTyped, vars
<1>24. ASSUME NEW e \in Endpoint, Sends(e)
      PROVE  NetTyped'
  <2>1. sent[e] \in Nat
    BY DEF TypeOK
  <2> QED
    BY <1>24, <2>1, TypedNow, SendsNet DEF NetTyped
<1>25. ASSUME NEW e \in Endpoint, HalfCloses(e)
      PROVE  NetTyped'
  BY <1>25, TypedNow, HalfClosesNet DEF HalfCloses, Typed, NetTyped
<1>26. ASSUME NEW e \in Endpoint, Closes(e)
      PROVE  NetTyped'
  BY <1>26, TypedNow, ClosesNet DEF Closes, Typed, NetTyped
<1>27. CASE UNCHANGED vars
  BY <1>27, TypedNow DEF vars, Typed, NetTyped
<1> QED
  BY <1>1, <1>2, <1>3, <1>4, <1>5, <1>6, <1>7, <1>8, <1>9, <1>10, <1>11, <1>12, <1>13, <1>14, <1>15, <1>16, <1>17, <1>18, <1>19, <1>20, <1>21, <1>22, <1>23, <1>24, <1>25, <1>26, <1>27 DEF Next, Program, Environment

LEMMA RouteTyped ==
    ASSUME ConfTyped, NEW host
    PROVE  RouteOf(host) \in {"direct", "proxy"}
<1>1. CASE \E h \in Hosts : HostName[h] = host
  <2>1. (CHOOSE h \in Hosts : HostName[h] = host) \in Hosts
    BY <1>1
  <2> QED
    BY <1>1, <2>1 DEF RouteOf, ConfTyped
<1>2. CASE ~\E h \in Hosts : HostName[h] = host
  BY <1>2 DEF RouteOf
<1> QED
  BY <1>1, <1>2

LEMMA FarDialsReached ==
    ASSUME ConfTyped, PlaceTyped, FarDials
    PROVE  reached' \in [host : Seq(Byte), port : Port, route : {"none", "direct", "proxy", "sshd"}]
<1>1. CASE mode = "ssh"
  <2>1. PICK s \in Seq(Byte) : s = <<>>
    BY ByteNumbers
  <2>2. reached' = [host |-> s, port |-> 0, route |-> "sshd"]
    BY <1>1, <2>1 DEF FarDials, Sshd
  <2> QED
    BY <2>2, ByteNumbers
<1>2. CASE mode # "ssh"
  <2>1. reached' = [host |-> property.host, port |-> property.port,
                    route |-> RouteOf(property.host)]
    BY <1>2 DEF FarDials
  <2>2. property.host \in Seq(Byte) /\ property.port \in Port
    BY DEF PlaceTyped, ConnProperty
  <2>3. RouteOf(property.host) \in {"direct", "proxy"}
    BY RouteTyped
  <2> QED
    BY <2>1, <2>2, <2>3
<1> QED
  BY <1>1, <1>2

LEMMA DialOpensHeader ==
    ASSUME ConfTyped, Targeted, DialOpens
    PROVE  /\ header' = EncodeConnProperty(Property) /\ header' \in Seq(Byte)
           /\ Property \in ConnProperty
<1>1. mode \in {"connect", "ssh"}
  BY DEF ConfTyped, Targeted, DialOpens
<1>2. Property.port \in Port /\ Encodable(Property)
  BY DEF DialOpens, Dialable
<1>3. Property \in ConnProperty
  BY <1>1, <1>2, PropertyTyped DEF Targeted
<1> QED
  BY <1>2, <1>3, HeaderRoundTrip DEF DialOpens

LEMMA PlaceStep ==
    ASSUME TypeOK, Targeted, ConfTyped, PlaceTyped, [Next]_vars
    PROVE  PlaceTyped'
<1>1. CASE DialOpens
  <2>1. header' \in Seq(Byte)
    BY <1>1, DialOpensHeader
  <2>2. /\ near' \in {"relay", "hijack"} /\ far' = "header" /\ deadline' \in BOOLEAN
        /\ UNCHANGED <<property, reached, cancelled>>
    BY <1>1 DEF DialOpens
  <2> QED
    BY <2>1, <2>2 DEF PlaceTyped
<1>2. CASE DialFails
  BY <1>2 DEF DialFails, PlaceTyped, headVars, vars
<1>3. CASE Hijack
  BY <1>3 DEF Hijack, PlaceTyped, headVars, vars
<1>4. CASE Greet
  BY <1>4 DEF Greet, PlaceTyped, headVars, vars
<1>5. CASE SendEarly
  BY <1>5 DEF SendEarly, PlaceTyped, headVars, vars
<1>6. CASE EarlySent
  BY <1>6 DEF EarlySent, PlaceTyped, headVars, vars
<1>7. CASE NearFails
  BY <1>7 DEF NearFails, PlaceTyped, headVars, vars
<1>8. CASE FarReads
  <2>1. property' \in ConnProperty
    BY <1>8, FarReadsNet
  <2>2. header' \in Seq(Byte)
    BY <1>8, ByteNumbers DEF FarReads
  <2>3. /\ far' = "dial" /\ deadline' = FALSE /\ UNCHANGED <<near, reached, cancelled>>
    BY <1>8 DEF FarReads
  <2> QED
    BY <2>1, <2>2, <2>3 DEF PlaceTyped
<1>9. CASE FarFails
  BY <1>9 DEF FarFails, PlaceTyped, headVars, vars
<1>10. CASE CloseTimeout
  BY <1>10 DEF CloseTimeout, PlaceTyped, headVars, vars
<1>11. ASSUME NEW p \in Process, RelayReturns(p)
      PROVE  PlaceTyped'
  BY <1>11 DEF RelayReturns, PlaceTyped, headVars, vars
<1>12. ASSUME NEW p \in Process, NEW d \in Dir, CopyReads(p, d)
      PROVE  PlaceTyped'
  BY <1>12 DEF CopyReads, PlaceTyped, headVars, vars
<1>13. ASSUME NEW p \in Process, NEW d \in Dir, CopyWrites(p, d)
      PROVE  PlaceTyped'
  BY <1>13 DEF CopyWrites, PlaceTyped, headVars, vars
<1>14. ASSUME NEW p \in Process, NEW d \in Dir, CopyEnds(p, d)
      PROVE  PlaceTyped'
  BY <1>14 DEF CopyEnds, PlaceTyped, headVars, vars
<1>15. ASSUME NEW e \in Endpoint, Gets(e)
      PROVE  PlaceTyped'
  BY <1>15 DEF Gets, PlaceTyped, headVars, vars
<1>16. CASE NksStarts
  BY <1>16 DEF NksStarts, PlaceTyped, headVars, vars
<1>17. CASE NksRestarts
  BY <1>17 DEF NksRestarts, PlaceTyped, headVars, vars
<1>18. CASE SessionEnds
  BY <1>18 DEF SessionEnds, PlaceTyped, headVars, vars
<1>19. CASE AskSSH
  BY <1>19 DEF AskSSH, PlaceTyped, headVars, vars
<1>20. CASE Cancelled
  BY <1>20 DEF Cancelled, PlaceTyped, headVars, vars
<1>21. CASE FarDials
  <2>1. reached' \in [host : Seq(Byte), port : Port, route : {"none", "direct", "proxy", "sshd"}]
    BY <1>21, FarDialsReached
  <2>2. far' = "relay" /\ UNCHANGED <<near, header, property, deadline, cancelled>>
    BY <1>21 DEF FarDials
  <2> QED
    BY <2>1, <2>2 DEF PlaceTyped
<1>22. ASSUME NEW useProxy \in UsesProxy, NkStarts(useProxy)
      PROVE  PlaceTyped'
  BY <1>22 DEF NkStarts, PlaceTyped, headVars, vars
<1>23. ASSUME NEW t \in Targets, Ask(t)
      PROVE  PlaceTyped'
  BY <1>23 DEF Ask, PlaceTyped, headVars, vars
<1>24. ASSUME NEW e \in Endpoint, Sends(e)
      PROVE  PlaceTyped'
  BY <1>24 DEF Sends, PlaceTyped, headVars, vars
<1>25. ASSUME NEW e \in Endpoint, HalfCloses(e)
      PROVE  PlaceTyped'
  BY <1>25 DEF HalfCloses, PlaceTyped, headVars, vars
<1>26. ASSUME NEW e \in Endpoint, Closes(e)
      PROVE  PlaceTyped'
  BY <1>26 DEF Closes, PlaceTyped, headVars, vars
<1>27. CASE UNCHANGED vars
  BY <1>27 DEF vars, headVars, PlaceTyped
<1> QED
  BY <1>1, <1>2, <1>3, <1>4, <1>5, <1>6, <1>7, <1>8, <1>9, <1>10, <1>11, <1>12, <1>13, <1>14, <1>15, <1>16, <1>17, <1>18, <1>19, <1>20, <1>21, <1>22, <1>23, <1>24, <1>25, <1>26, <1>27 DEF Next, Program, Environment

LEMMA OneHost ==
    ASSUME NEW g \in Hosts
    PROVE  /\ \E h \in Hosts : HostName[h] = HostName[g]
           /\ (CHOOSE h \in Hosts : HostName[h] = HostName[g]) = g
<1>1. \E h \in Hosts : HostName[h] = HostName[g]
  OBVIOUS
<1>2. /\ (CHOOSE h \in Hosts : HostName[h] = HostName[g]) \in Hosts
      /\ HostName[CHOOSE h \in Hosts : HostName[h] = HostName[g]] = HostName[g]
  BY <1>1
<1> QED
  BY <1>1, <1>2, ForwardingAssumption

(* A host of the deny list is rejected, whatever the other list says. *)
LEMMA DeniedHosts ==
    ASSUME NEW h \in Hosts, rules \in ServerRules, h \in rules.deny
    PROVE  RuleDialer(rules)[h] = "reject"
  BY DEF RuleDialer, PerHost, Always

LEMMA TargetedStep ==
    ASSUME TypeOK, Targeted, ConfTyped, PlaceTyped, [Next]_vars
    PROVE  Targeted'
<1>1. CASE DialOpens
  <2>1. UNCHANGED <<rules, via, nks, nk, session, mode, asked, reached>>
    BY <1>1 DEF DialOpens, confVars
  <2>2. Property' = Property /\ (Denied' <=> Denied)
    BY <2>1 DEF Property, Denied
  <2>3. near' \in {"relay", "hijack"} /\ far' = "header" /\ near = "dial" /\ ~Denied
        /\ header' = EncodeConnProperty(Property)
    BY <1>1 DEF DialOpens
  <2>4. Property.port \in Port /\ Encodable(Property) /\ session = "up"
    BY <1>1 DEF DialOpens, Dialable
  <2>5. far = "none" /\ reached = Nowhere
    BY <2>3 DEF Targeted
  <2>6. mode # "none"
    BY <2>3 DEF Targeted
  <2> QED
    BY <2>1, <2>2, <2>3, <2>4, <2>5, <2>6 DEF Targeted, RightTarget
<1>2. CASE DialFails
  <2>1. UNCHANGED <<rules, via, nks, nk, session, mode, asked, header, property, reached>>
    BY <1>2 DEF DialFails, confVars, headVars
  <2>2. Property' = Property /\ (Denied' <=> Denied)
    BY <2>1 DEF Property, Denied
  <2>3. near = "dial" /\ near' = "refused" /\ UNCHANGED far
    BY <1>2 DEF DialFails
  <2> QED
    BY <2>1, <2>2, <2>3 DEF Targeted, RightTarget
<1>3. CASE Hijack
  <2>1. UNCHANGED <<rules, via, nks, nk, session, mode, asked, header, property, reached>>
    BY <1>3 DEF Hijack, confVars, headVars
  <2>2. Property' = Property /\ (Denied' <=> Denied)
    BY <2>1 DEF Property, Denied
  <2>3. near = "hijack" /\ near' = "greet" /\ UNCHANGED far
    BY <1>3 DEF Hijack
  <2> QED
    BY <2>1, <2>2, <2>3 DEF Targeted, RightTarget
<1>4. CASE Greet
  <2>1. UNCHANGED <<rules, via, nks, nk, session, mode, asked, header, property, reached>>
    BY <1>4 DEF Greet, confVars, headVars
  <2>2. Property' = Property /\ (Denied' <=> Denied)
    BY <2>1 DEF Property, Denied
  <2>3. near = "greet" /\ near' = "early" /\ UNCHANGED far
    BY <1>4 DEF Greet
  <2> QED
    BY <2>1, <2>2, <2>3 DEF Targeted, RightTarget
<1>5. CASE SendEarly
  <2>1. UNCHANGED <<rules, via, nks, nk, session, mode, asked, header, property, reached>>
    BY <1>5 DEF SendEarly, confVars, headVars
  <2>2. Property' = Property /\ (Denied' <=> Denied)
    BY <2>1 DEF Property, Denied
  <2>3. UNCHANGED <<near, far>>
    BY <1>5 DEF SendEarly
  <2> QED
    BY <2>1, <2>2, <2>3 DEF Targeted, RightTarget
<1>6. CASE EarlySent
  <2>1. UNCHANGED <<rules, via, nks, nk, session, mode, asked, header, property, reached>>
    BY <1>6 DEF EarlySent, confVars, headVars
  <2>2. Property' = Property /\ (Denied' <=> Denied)
    BY <2>1 DEF Property, Denied
  <2>3. near = "early" /\ near' = "relay" /\ UNCHANGED far
    BY <1>6 DEF EarlySent
  <2> QED
    BY <2>1, <2>2, <2>3 DEF Targeted, RightTarget
<1>7. CASE NearFails
  <2>1. UNCHANGED <<rules, via, nks, nk, session, mode, asked, header, property, reached>>
    BY <1>7 DEF NearFails, confVars, headVars
  <2>2. Property' = Property /\ (Denied' <=> Denied)
    BY <2>1 DEF Property, Denied
  <2>3. near \in {"greet", "early"} /\ near' = "over" /\ UNCHANGED far
    BY <1>7 DEF NearFails
  <2> QED
    BY <2>1, <2>2, <2>3 DEF Targeted, RightTarget
<1>8. CASE FarReads
  <2>1. UNCHANGED <<rules, via, nks, nk, session, mode, asked, near, reached>>
    BY <1>8 DEF FarReads, confVars
  <2>2. Property' = Property /\ (Denied' <=> Denied)
    BY <2>1 DEF Property, Denied
  <2>3. far = "header" /\ far' = "dial" /\ property' = Property
    BY <1>8, FarReadsNet DEF FarReads
  <2> QED
    BY <2>1, <2>2, <2>3 DEF Targeted, RightTarget
<1>9. CASE FarFails
  <2>1. UNCHANGED <<rules, via, nks, nk, session, mode, asked, near, reached>>
    BY <1>9 DEF FarFails, confVars
  <2>2. Property' = Property /\ (Denied' <=> Denied)
    BY <2>1 DEF Property, Denied
  <2>3. far \in {"header", "dial"} /\ far' = "over"
    BY <1>9 DEF FarFails
  <2> QED
    BY <2>1, <2>2, <2>3 DEF Targeted, RightTarget
<1>10. CASE CloseTimeout
  <2>1. UNCHANGED <<rules, via, nks, nk, session, mode, asked, header, property, reached>>
    BY <1>10 DEF CloseTimeout, confVars, headVars
  <2>2. Property' = Property /\ (Denied' <=> Denied)
    BY <2>1 DEF Property, Denied
  <2>3. UNCHANGED <<near, far>>
    BY <1>10 DEF CloseTimeout
  <2> QED
    BY <2>1, <2>2, <2>3 DEF Targeted, RightTarget
<1>11. ASSUME NEW p \in Process, RelayReturns(p)
      PROVE  Targeted'
  <2>1. UNCHANGED <<rules, via, nks, nk, session, mode, asked, header, property, reached>>
    BY <1>11 DEF RelayReturns, confVars, headVars
  <2>2. Property' = Property /\ (Denied' <=> Denied)
    BY <2>1 DEF Property, Denied
  <2>3. \/ near = "relay" /\ near' = "over" /\ UNCHANGED far
        \/ far = "relay" /\ far' = "over" /\ UNCHANGED near
    BY <1>11 DEF RelayReturns
  <2> QED
    BY <2>1, <2>2, <2>3 DEF Targeted, RightTarget
<1>12. ASSUME NEW p \in Process, NEW d \in Dir, CopyReads(p, d)
      PROVE  Targeted'
  <2>1. UNCHANGED <<rules, via, nks, nk, session, mode, asked, header, property, reached>>
    BY <1>12 DEF CopyReads, confVars, headVars
  <2>2. Property' = Property /\ (Denied' <=> Denied)
    BY <2>1 DEF Property, Denied
  <2>3. UNCHANGED <<near, far>>
    BY <1>12 DEF CopyReads
  <2> QED
    BY <2>1, <2>2, <2>3 DEF Targeted, RightTarget
<1>13. ASSUME NEW p \in Process, NEW d \in Dir, CopyWrites(p, d)
      PROVE  Targeted'
  <2>1. UNCHANGED <<rules, via, nks, nk, session, mode, asked, header, property, reached>>
    BY <1>13 DEF CopyWrites, confVars, headVars
  <2>2. Property' = Property /\ (Denied' <=> Denied)
    BY <2>1 DEF Property, Denied
  <2>3. UNCHANGED <<near, far>>
    BY <1>13 DEF CopyWrites
  <2> QED
    BY <2>1, <2>2, <2>3 DEF Targeted, RightTarget
<1>14. ASSUME NEW p \in Process, NEW d \in Dir, CopyEnds(p, d)
      PROVE  Targeted'
  <2>1. UNCHANGED <<rules, via, nks, nk, session, mode, asked, header, property, reached>>
    BY <1>14 DEF CopyEnds, confVars, headVars
  <2>2. Property' = Property /\ (Denied' <=> Denied)
    BY <2>1 DEF Property, Denied
  <2>3. UNCHANGED <<near, far>>
    BY <1>14 DEF CopyEnds
  <2> QED
    BY <2>1, <2>2, <2>3 DEF Targeted, RightTarget
<1>15. ASSUME NEW e \in Endpoint, Gets(e)
      PROVE  Targeted'
  <2>1. UNCHANGED <<rules, via, nks, nk, session, mode, asked, header, property, reached>>
    BY <1>15 DEF Gets, confVars, headVars
  <2>2. Property' = Property /\ (Denied' <=> Denied)
    BY <2>1 DEF Property, Denied
  <2>3. UNCHANGED <<near, far>>
    BY <1>15 DEF Gets
  <2> QED
    BY <2>1, <2>2, <2>3 DEF Targeted, RightTarget
<1>16. CASE NksStarts
  <2>1. near' = near /\ UNCHANGED <<far, mode, asked, header, property, reached>>
    BY <1>16 DEF NksStarts, headVars
  <2>2. session = "none" /\ far = "none"
    BY <1>16 DEF NksStarts, Targeted, ConfTyped
  <2>3. (session' # "none" => nk' = "on") /\ (nk' = "on" => nks' = "on")
    BY <1>16, <2>2 DEF NksStarts, Targeted
  <2> QED
    BY <2>1, <2>2, <2>3 DEF Targeted, RightTarget
<1>17. CASE NksRestarts
  <2>1. near' = near /\ UNCHANGED <<far, mode, asked, header, property, reached>>
    BY <1>17 DEF NksRestarts, headVars
  <2>2. session = "none" /\ far = "none"
    BY <1>17 DEF NksRestarts, Targeted, ConfTyped
  <2>3. (session' # "none" => nk' = "on") /\ (nk' = "on" => nks' = "on")
    BY <1>17, <2>2 DEF NksRestarts, Targeted
  <2> QED
    BY <2>1, <2>2, <2>3 DEF Targeted, RightTarget
<1>18. CASE SessionEnds
  <2>1. UNCHANGED <<rules, via, nks, nk, mode, asked, header, property, reached, near, far>>
    BY <1>18 DEF SessionEnds, confVars, headVars
  <2>2. Property' = Property /\ (Denied' <=> Denied)
    BY <2>1 DEF Property, Denied
  <2>3. session = "up" /\ session' = "closed"
    BY <1>18 DEF SessionEnds
  <2> QED
    BY <2>1, <2>2, <2>3 DEF Targeted, RightTarget
<1>19. CASE AskSSH
  <2>1. /\ near = "idle" /\ near' = "dial" /\ mode' = "ssh"
        /\ UNCHANGED <<rules, via, nks, nk, session, far, reached>>
    BY <1>19 DEF AskSSH, confVars, headVars
  <2>2. far = "none" /\ reached = Nowhere
    BY <2>1 DEF Targeted
  <2> QED
    BY <1>19, <2>1, <2>2 DEF Targeted, RightTarget
<1>20. CASE Cancelled
  <2>1. UNCHANGED <<rules, via, nks, nk, session, mode, asked, header, property, reached>>
    BY <1>20 DEF Cancelled, confVars, headVars
  <2>2. Property' = Property /\ (Denied' <=> Denied)
    BY <2>1 DEF Property, Denied
  <2>3. UNCHANGED <<near, far>>
    BY <1>20 DEF Cancelled
  <2> QED
    BY <2>1, <2>2, <2>3 DEF Targeted, RightTarget
<1>21. CASE FarDials
  <2>1. UNCHANGED <<rules, via, nks, nk, session, mode, asked, near, header, property>>
    BY <1>21 DEF FarDials, confVars
  <2>2. Property' = Property /\ (Denied' <=> Denied)
    BY <2>1 DEF Property, Denied
  <2>3. far = "dial" /\ far' = "relay" /\ property = Property
    BY <1>21 DEF FarDials, Targeted
  <2>4. RightTarget'
    <3> SUFFICES ASSUME mode = "connect"
                 PROVE  /\ reached'.host = HostName[asked.host] /\ reached'.port = asked.port
                        /\ reached'.route = via[asked.host]
                        /\ asked.host \notin rules.deny
      BY <2>1 DEF RightTarget
    <3>1. asked \in Targets /\ asked.host \in Hosts
      BY ForwardingAssumption DEF Targeted
    <3>2. property = [pattern |-> ProxyPattern, host |-> HostName[asked.host], port |-> asked.port]
      BY <2>3 DEF Property
    <3>3. reached' = [host |-> HostName[asked.host], port |-> asked.port,
                      route |-> RouteOf(HostName[asked.host])]
      BY <1>21, <3>2 DEF FarDials
    <3>4. RouteOf(HostName[asked.host]) = via[asked.host]
      BY <3>1, OneHost DEF RouteOf
    <3>5. asked.host \notin rules.deny
      <4>1. RuleDialer(rules)[asked.host] # "reject"
        BY <2>3 DEF Targeted, Denied
      <4> QED
        BY <3>1, <4>1, DeniedHosts DEF ConfTyped
    <3> QED
      BY <3>3, <3>4, <3>5
  <2> QED
    BY <2>1, <2>2, <2>3, <2>4 DEF Targeted
<1>22. ASSUME NEW useProxy \in UsesProxy, NkStarts(useProxy)
      PROVE  Targeted'
  <2>1. near' = near /\ UNCHANGED <<far, mode, asked, header, property, reached>>
    BY <1>22 DEF NkStarts, headVars
  <2>2. session = "none" /\ far = "none"
    BY <1>22 DEF NkStarts, Targeted, ConfTyped
  <2>3. (session' # "none" => nk' = "on") /\ (nk' = "on" => nks' = "on")
    BY <1>22, <2>2 DEF NkStarts, Targeted
  <2> QED
    BY <2>1, <2>2, <2>3 DEF Targeted, RightTarget
<1>23. ASSUME NEW t \in Targets, Ask(t)
      PROVE  Targeted'
  <2>1. /\ near = "idle" /\ near' = "dial" /\ mode' = "connect" /\ asked' = t
        /\ UNCHANGED <<rules, via, nks, nk, session, far, reached>>
    BY <1>23 DEF Ask, confVars, headVars
  <2>2. far = "none" /\ reached = Nowhere
    BY <2>1 DEF Targeted
  <2> QED
    BY <1>23, <2>1, <2>2 DEF Targeted, RightTarget
<1>24. ASSUME NEW e \in Endpoint, Sends(e)
      PROVE  Targeted'
  <2>1. UNCHANGED <<rules, via, nks, nk, session, mode, asked, header, property, reached>>
    BY <1>24 DEF Sends, confVars, headVars
  <2>2. Property' = Property /\ (Denied' <=> Denied)
    BY <2>1 DEF Property, Denied
  <2>3. UNCHANGED <<near, far>>
    BY <1>24 DEF Sends
  <2> QED
    BY <2>1, <2>2, <2>3 DEF Targeted, RightTarget
<1>25. ASSUME NEW e \in Endpoint, HalfCloses(e)
      PROVE  Targeted'
  <2>1. UNCHANGED <<rules, via, nks, nk, session, mode, asked, header, property, reached>>
    BY <1>25 DEF HalfCloses, confVars, headVars
  <2>2. Property' = Property /\ (Denied' <=> Denied)
    BY <2>1 DEF Property, Denied
  <2>3. UNCHANGED <<near, far>>
    BY <1>25 DEF HalfCloses
  <2> QED
    BY <2>1, <2>2, <2>3 DEF Targeted, RightTarget
<1>26. ASSUME NEW e \in Endpoint, Closes(e)
      PROVE  Targeted'
  <2>1. UNCHANGED <<rules, via, nks, nk, session, mode, asked, header, property, reached>>
    BY <1>26 DEF Closes, confVars, headVars
  <2>2. Property' = Property /\ (Denied' <=> Denied)
    BY <2>1 DEF Property, Denied
  <2>3. UNCHANGED <<near, far>>
    BY <1>26 DEF Closes
  <2> QED
    BY <2>1, <2>2, <2>3 DEF Targeted, RightTarget
<1>27. CASE UNCHANGED vars
  <2>1. UNCHANGED <<rules, via, nks, nk, session, mode, asked, header, property, reached>>
    BY <1>27 DEF vars, confVars, headVars
  <2>2. Property' = Property /\ (Denied' <=> Denied)
    BY <2>1 DEF Property, Denied
  <2>3. UNCHANGED <<near, far>>
    BY <1>27 DEF vars
  <2> QED
    BY <2>1, <2>2, <2>3 DEF Targeted, RightTarget
<1> QED
  BY <1>1, <1>2, <1>3, <1>4, <1>5, <1>6, <1>7, <1>8, <1>9, <1>10, <1>11, <1>12, <1>13, <1>14, <1>15, <1>16, <1>17, <1>18, <1>19, <1>20, <1>21, <1>22, <1>23, <1>24, <1>25, <1>26, <1>27 DEF Next, Program, Environment

-----------------------------------------------------------------------------
(* Nothing ends without a cause.                                           *)

(* A cause stays one. *)
LEMMA CauseStays ==
    ASSUME TypeOK, Targeted, Cause, [Next]_vars
    PROVE  Cause'
<1>1. CASE DialOpens
  <2>1. UNCHANGED <<ended, session, cancelled, reached>> /\ far = "none"
    BY <1>1 DEF DialOpens, endVars, Targeted
  <2> QED
    BY <2>1 DEF Cause
<1>2. CASE DialFails
  <2>1. UNCHANGED <<ended, session, cancelled, far, reached>>
    BY <1>2 DEF DialFails, endVars, headVars
  <2> QED
    BY <2>1 DEF Cause
<1>3. CASE Hijack
  <2>1. UNCHANGED <<ended, session, cancelled, far, reached>>
    BY <1>3 DEF Hijack, endVars, headVars
  <2> QED
    BY <2>1 DEF Cause
<1>4. CASE Greet
  <2>1. UNCHANGED <<ended, session, cancelled, far, reached>>
    BY <1>4 DEF Greet, endVars, headVars
  <2> QED
    BY <2>1 DEF Cause
<1>5. CASE SendEarly
  <2>1. UNCHANGED <<ended, session, cancelled, far, reached>>
    BY <1>5 DEF SendEarly, endVars, headVars
  <2> QED
    BY <2>1 DEF Cause
<1>6. CASE EarlySent
  <2>1. UNCHANGED <<ended, session, cancelled, far, reached>>
    BY <1>6 DEF EarlySent, endVars, headVars
  <2> QED
    BY <2>1 DEF Cause
<1>7. CASE NearFails
  <2>1. UNCHANGED <<ended, session, cancelled, far, reached>>
    BY <1>7 DEF NearFails, endVars, headVars
  <2> QED
    BY <2>1 DEF Cause
<1>8. CASE FarReads
  <2>1. UNCHANGED <<ended, session, cancelled, reached>> /\ far = "header"
    BY <1>8 DEF FarReads, endVars
  <2> QED
    BY <2>1 DEF Cause
<1>9. CASE FarFails
  <2>1. UNCHANGED <<ended, session, cancelled, reached>> /\ far' = "over"
    BY <1>9 DEF FarFails, endVars
  <2> QED
    BY <2>1 DEF Cause
<1>10. CASE CloseTimeout
  <2>1. UNCHANGED <<ended, session, cancelled, far, reached>>
    BY <1>10 DEF CloseTimeout, endVars, headVars
  <2> QED
    BY <2>1 DEF Cause
<1>11. ASSUME NEW p \in Process, RelayReturns(p)
      PROVE  Cause'
  <2>1. UNCHANGED <<ended, session, cancelled, reached>> /\ (far' = far \/ far' = "over")
    BY <1>11 DEF RelayReturns, endVars, headVars
  <2> QED
    BY <2>1 DEF Cause
<1>12. ASSUME NEW p \in Process, NEW d \in Dir, CopyReads(p, d)
      PROVE  Cause'
  <2>1. UNCHANGED <<ended, session, cancelled, far, reached>>
    BY <1>12 DEF CopyReads, endVars, headVars
  <2> QED
    BY <2>1 DEF Cause
<1>13. ASSUME NEW p \in Process, NEW d \in Dir, CopyWrites(p, d)
      PROVE  Cause'
  <2>1. UNCHANGED <<ended, session, cancelled, far, reached>>
    BY <1>13 DEF CopyWrites, endVars, headVars
  <2> QED
    BY <2>1 DEF Cause
<1>14. ASSUME NEW p \in Process, NEW d \in Dir, CopyEnds(p, d)
      PROVE  Cause'
  <2>1. UNCHANGED <<ended, session, cancelled, far, reached>>
    BY <1>14 DEF CopyEnds, endVars, headVars
  <2> QED
    BY <2>1 DEF Cause
<1>15. ASSUME NEW e \in Endpoint, Gets(e)
      PROVE  Cause'
  <2>1. UNCHANGED <<ended, session, cancelled, far, reached>>
    BY <1>15 DEF Gets, endVars, headVars
  <2> QED
    BY <2>1 DEF Cause
<1>16. CASE NksStarts
  <2>1. UNCHANGED <<ended, session, cancelled, far, reached>>
    BY <1>16 DEF NksStarts, endVars, headVars
  <2> QED
    BY <2>1 DEF Cause
<1>17. CASE NksRestarts
  <2>1. UNCHANGED <<ended, session, cancelled, far, reached>>
    BY <1>17 DEF NksRestarts, endVars, headVars
  <2> QED
    BY <2>1 DEF Cause
<1>18. CASE SessionEnds
  <2>1. session' = "closed"
    BY <1>18 DEF SessionEnds
  <2> QED
    BY <2>1 DEF Cause
<1>19. CASE AskSSH
  <2>1. UNCHANGED <<ended, session, cancelled, far, reached>>
    BY <1>19 DEF AskSSH, endVars, headVars
  <2> QED
    BY <2>1 DEF Cause
<1>20. CASE Cancelled
  <2>1. cancelled'
    BY <1>20 DEF Cancelled
  <2> QED
    BY <2>1 DEF Cause
<1>21. CASE FarDials
  <2>1. UNCHANGED <<ended, session, cancelled>> /\ far = "dial"
    BY <1>21 DEF FarDials, endVars
  <2> QED
    BY <2>1 DEF Cause
<1>22. ASSUME NEW useProxy \in UsesProxy, NkStarts(useProxy)
      PROVE  Cause'
  <2>1. UNCHANGED <<ended, cancelled, far, reached>> /\ session = "none"
    BY <1>22 DEF NkStarts, endVars, headVars, Targeted, TypeOK
  <2> QED
    BY <2>1 DEF Cause
<1>23. ASSUME NEW t \in Targets, Ask(t)
      PROVE  Cause'
  <2>1. UNCHANGED <<ended, session, cancelled, far, reached>>
    BY <1>23 DEF Ask, endVars, headVars
  <2> QED
    BY <2>1 DEF Cause
<1>24. ASSUME NEW e \in Endpoint, Sends(e)
      PROVE  Cause'
  <2>1. UNCHANGED <<ended, session, cancelled, far, reached>>
    BY <1>24 DEF Sends, endVars, headVars
  <2> QED
    BY <2>1 DEF Cause
<1>25. ASSUME NEW e \in Endpoint, HalfCloses(e)
      PROVE  Cause'
  <2>1. ended'[e] # "open"
    BY <1>25 DEF HalfCloses, TypeOK
  <2> QED
    BY <1>25, <2>1 DEF Cause
<1>26. ASSUME NEW e \in Endpoint, Closes(e)
      PROVE  Cause'
  <2>1. ended'[e] # "open"
    BY <1>26 DEF Closes, TypeOK
  <2> QED
    BY <1>26, <2>1 DEF Cause
<1>27. CASE UNCHANGED vars
  <2>1. UNCHANGED <<ended, session, cancelled, far, reached>>
    BY <1>27 DEF vars, endVars, headVars
  <2> QED
    BY <2>1 DEF Cause
<1> QED
  BY <1>1, <1>2, <1>3, <1>4, <1>5, <1>6, <1>7, <1>8, <1>9, <1>10, <1>11, <1>12, <1>13, <1>14, <1>15, <1>16, <1>17, <1>18, <1>19, <1>20, <1>21, <1>22, <1>23, <1>24, <1>25, <1>26, <1>27 DEF Next, Program, Environment

QuietNet(n) == \A l \in Link, d \in Dir : ~n[l][d].fin /\ ~n[l][d].shut

LEMMA QueueKeepsQuiet ==
    ASSUME NEW n, NEW m, NEW l \in Link, NEW d \in Dir, NEW s,
           Changed(n, m, l, d, WithQueue(n[l][d], s)), QuietNet(n)
    PROVE  QuietNet(m)
<1> SUFFICES ASSUME NEW k \in Link, NEW e \in Dir PROVE ~m[k][e].fin /\ ~m[k][e].shut
  BY DEF QuietNet
<1>1. CASE k = l /\ e = d
  <2>1. m[k][e] = WithQueue(n[l][d], s) /\ ~n[l][d].fin /\ ~n[l][d].shut
    BY <1>1 DEF QuietNet, Changed
  <2> QED
    BY <2>1 DEF WithQueue
<1>2. CASE k # l \/ e # d
  BY <1>2 DEF QuietNet, Changed
<1> QED
  BY <1>1, <1>2

(* A copy returns, or a handler gives up, for a cause only. *)
LEMMA CopyOverCause ==
    ASSUME TypeOK, Targeted, Undisturbed, NEW p \in Process, NEW d \in Dir, CopyOver(p, d)
    PROVE  Cause
<1>1. copy[p][d] = "on"
  BY DEF CopyOver
<1>2. near # "refused" /\ (p = "far" => far \in {"relay", "over"})
  <2>1. CASE p = "near"
    BY <1>1, <2>1 DEF Undisturbed
  <2>2. CASE p = "far"
    <3>1. far \in {"relay", "over"}
      BY <1>1, <2>2 DEF Undisturbed
    <3> QED
      BY <2>2, <3>1 DEF Targeted
  <2> QED
    BY <2>1, <2>2 DEF Process
<1>3. ~(p = "far" /\ deadline)
  BY <1>2 DEF Undisturbed
<1>4. EOF(Source(p, d), d) \/ WriteFails(Sink(p, d), d)
  BY <1>3 DEF CopyOver
<1>5. ~QuietNet(net)
  BY <1>4, SourcesAndSinks DEF EOF, WriteFails, QuietNet
<1> QED
  BY <1>2, <1>5 DEF Undisturbed, QuietNet

LEMMA NearFailsCause ==
    ASSUME Undisturbed, NearFails
    PROVE  Cause
<1>1. near # "refused" /\ (WriteFails("user", "back") \/ WriteFails("tunnel", "out"))
  BY DEF NearFails
<1>2. ~QuietNet(net)
  BY <1>1, LinksAndDirs DEF WriteFails, QuietNet
<1> QED
  BY <1>1, <1>2 DEF Undisturbed, QuietNet

LEMMA CloseTimeoutCause ==
    ASSUME TypeOK, Undisturbed, CloseTimeout
    PROVE  Cause
<1>1. near # "refused" /\ net["tunnel"]["out"].fin # net["tunnel"]["back"].fin
  BY DEF CloseTimeout, StreamOpen
<1>2. net["tunnel"]["out"].fin \in BOOLEAN /\ net["tunnel"]["back"].fin \in BOOLEAN
  BY TypedNow, NetParts, LinksAndDirs DEF Typed
<1>3. ~QuietNet(net)
  BY <1>1, <1>2, LinksAndDirs DEF QuietNet
<1> QED
  BY <1>1, <1>3 DEF Undisturbed, QuietNet

LEMMA QuietStays ==
    ASSUME Undisturbed, near # "refused", ~Cause, NEW l \in Link, NEW d \in Dir,
           \E s : Changed(net, net', l, d, WithQueue(net[l][d], s))
    PROVE  QuietNet(net')
<1>1. QuietNet(net)
  BY DEF Undisturbed, QuietNet
<1> QED
  BY <1>1, QueueKeepsQuiet

Quiet == near # "refused" /\ ~Cause => QuietNet(net)

LEMMA QuietStep ==
    ASSUME TypeOK, Targeted, Undisturbed, Quiet, [Next]_vars
    PROVE  Quiet'
<1>1. CASE DialOpens
  <2>1. net' = net /\ (near' # "refused" => near # "refused")
    BY <1>1 DEF DialOpens
  <2> QED
    BY <2>1, CauseStays DEF Quiet
<1>2. CASE DialFails
  <2>1. near' = "refused"
    BY <1>2 DEF DialFails
  <2> QED
    BY <2>1 DEF Quiet
<1>3. CASE Hijack
  <2>1. near' # "refused" => near # "refused"
    BY <1>3 DEF Hijack
  <2>2. \E s : Changed(net, net', "user", "out", WithQueue(net["user"]["out"], s))
    BY <1>3, TypedNow, HijackNet DEF Added, Taken, Emptied
  <2>3. "user" \in Link /\ "out" \in Dir
    BY LinksAndDirs, SourcesAndSinks, EndpointDirs
  <2>4. near # "refused" /\ ~Cause => QuietNet(net')
    BY <2>2, <2>3, QuietStays
  <2> QED
    BY <2>1, <2>4, CauseStays DEF Quiet
<1>4. CASE Greet
  <2>1. near' # "refused" => near # "refused"
    BY <1>4 DEF Greet
  <2>2. \E s : Changed(net, net', "user", "back", WithQueue(net["user"]["back"], s))
    BY <1>4, TypedNow, GreetNet DEF Added, Taken, Emptied
  <2>3. "user" \in Link /\ "back" \in Dir
    BY LinksAndDirs, SourcesAndSinks, EndpointDirs
  <2>4. near # "refused" /\ ~Cause => QuietNet(net')
    BY <2>2, <2>3, QuietStays
  <2> QED
    BY <2>1, <2>4, CauseStays DEF Quiet
<1>5. CASE SendEarly
  <2>1. near' # "refused" => near # "refused"
    BY <1>5 DEF SendEarly
  <2>2. \E s : Changed(net, net', "tunnel", "out", WithQueue(net["tunnel"]["out"], s))
    BY <1>5, TypedNow, SendEarlyNet DEF Added, Taken, Emptied
  <2>3. "tunnel" \in Link /\ "out" \in Dir
    BY LinksAndDirs, SourcesAndSinks, EndpointDirs
  <2>4. near # "refused" /\ ~Cause => QuietNet(net')
    BY <2>2, <2>3, QuietStays
  <2> QED
    BY <2>1, <2>4, CauseStays DEF Quiet
<1>6. CASE EarlySent
  <2>1. net' = net /\ (near' # "refused" => near # "refused")
    BY <1>6 DEF EarlySent
  <2> QED
    BY <2>1, CauseStays DEF Quiet
<1>7. CASE NearFails
  <2>1. Cause'
    BY <1>7, NearFailsCause, CauseStays
  <2> QED
    BY <2>1 DEF Quiet
<1>8. CASE FarReads
  <2>1. net' = net /\ near' = near
    BY <1>8, FarReadsNet DEF FarReads
  <2> QED
    BY <2>1, CauseStays DEF Quiet
<1>9. CASE FarFails
  <2>1. Cause'
    BY <1>9 DEF FarFails, Cause, Targeted
  <2> QED
    BY <2>1 DEF Quiet
<1>10. CASE CloseTimeout
  <2>1. Cause'
    BY <1>10, CloseTimeoutCause, CauseStays
  <2> QED
    BY <2>1 DEF Quiet
<1>11. ASSUME NEW p \in Process, RelayReturns(p)
      PROVE  Quiet'
  <2>1. net' = net /\ (near' # "refused" => near # "refused")
    BY <1>11 DEF RelayReturns
  <2> QED
    BY <2>1, CauseStays DEF Quiet
<1>12. ASSUME NEW p \in Process, NEW d \in Dir, CopyReads(p, d)
      PROVE  Quiet'
  <2>1. near' # "refused" => near # "refused"
    BY <1>12 DEF CopyReads
  <2>2. \E s : Changed(net, net', Source(p, d), d, WithQueue(net[Source(p, d)][d], s))
    BY <1>12, TypedNow, CopyReadsNet DEF Added, Taken, Emptied
  <2>3. Source(p, d) \in Link /\ d \in Dir
    BY LinksAndDirs, SourcesAndSinks, EndpointDirs
  <2>4. near # "refused" /\ ~Cause => QuietNet(net')
    BY <2>2, <2>3, QuietStays
  <2> QED
    BY <2>1, <2>4, CauseStays DEF Quiet
<1>13. ASSUME NEW p \in Process, NEW d \in Dir, CopyWrites(p, d)
      PROVE  Quiet'
  <2>1. near' # "refused" => near # "refused"
    BY <1>13 DEF CopyWrites
  <2>2. \E s : Changed(net, net', Sink(p, d), d, WithQueue(net[Sink(p, d)][d], s))
    BY <1>13, TypedNow, CopyWritesNet DEF Added, Taken, Emptied
  <2>3. Sink(p, d) \in Link /\ d \in Dir
    BY LinksAndDirs, SourcesAndSinks, EndpointDirs
  <2>4. near # "refused" /\ ~Cause => QuietNet(net')
    BY <2>2, <2>3, QuietStays
  <2> QED
    BY <2>1, <2>4, CauseStays DEF Quiet
<1>14. ASSUME NEW p \in Process, NEW d \in Dir, CopyEnds(p, d)
      PROVE  Quiet'
  <2>1. Cause'
    BY <1>14, CopyOverCause, CauseStays DEF CopyEnds
  <2> QED
    BY <2>1 DEF Quiet
<1>15. ASSUME NEW e \in Endpoint, Gets(e)
      PROVE  Quiet'
  <2>1. near' # "refused" => near # "refused"
    BY <1>15 DEF Gets
  <2>2. \E s : Changed(net, net', e, Opposite(Outward(e)), WithQueue(net[e][Opposite(Outward(e))], s))
    BY <1>15, TypedNow, GetsNet DEF Added, Taken, Emptied
  <2>3. e \in Link /\ Opposite(Outward(e)) \in Dir
    BY LinksAndDirs, SourcesAndSinks, EndpointDirs
  <2>4. near # "refused" /\ ~Cause => QuietNet(net')
    BY <2>2, <2>3, QuietStays
  <2> QED
    BY <2>1, <2>4, CauseStays DEF Quiet
<1>16. CASE NksStarts
  <2>1. net' = net /\ (near' # "refused" => near # "refused")
    BY <1>16 DEF NksStarts
  <2> QED
    BY <2>1, CauseStays DEF Quiet
<1>17. CASE NksRestarts
  <2>1. net' = net /\ (near' # "refused" => near # "refused")
    BY <1>17 DEF NksRestarts
  <2> QED
    BY <2>1, CauseStays DEF Quiet
<1>18. CASE SessionEnds
  <2>1. Cause'
    BY <1>18 DEF SessionEnds, Cause
  <2> QED
    BY <2>1 DEF Quiet
<1>19. CASE AskSSH
  <2>1. net' = net /\ (near' # "refused" => near # "refused")
    BY <1>19 DEF AskSSH
  <2> QED
    BY <2>1, CauseStays DEF Quiet
<1>20. CASE Cancelled
  <2>1. Cause'
    BY <1>20 DEF Cancelled, Cause
  <2> QED
    BY <2>1 DEF Quiet
<1>21. CASE FarDials
  <2>1. net' = net /\ (near' # "refused" => near # "refused")
    BY <1>21 DEF FarDials
  <2> QED
    BY <2>1, CauseStays DEF Quiet
<1>22. ASSUME NEW useProxy \in UsesProxy, NkStarts(useProxy)
      PROVE  Quiet'
  <2>1. net' = net /\ (near' # "refused" => near # "refused")
    BY <1>22 DEF NkStarts
  <2> QED
    BY <2>1, CauseStays DEF Quiet
<1>23. ASSUME NEW t \in Targets, Ask(t)
      PROVE  Quiet'
  <2>1. net' = net /\ (near' # "refused" => near # "refused")
    BY <1>23 DEF Ask
  <2> QED
    BY <2>1, CauseStays DEF Quiet
<1>24. ASSUME NEW e \in Endpoint, Sends(e)
      PROVE  Quiet'
  <2>1. near' # "refused" => near # "refused"
    BY <1>24 DEF Sends
  <2>2. sent[e] \in Nat
    BY DEF TypeOK
  <2>3. \E d \in Dir : \E s : Changed(net, net', e, d, WithQueue(net[e][d], s))
    BY <1>24, <2>2, TypedNow, SendsNet, EndpointDirs DEF Added, Emptied
  <2>4. near # "refused" /\ ~Cause => QuietNet(net')
    BY <2>3, EndpointDirs, QuietStays
  <2> QED
    BY <2>1, <2>4, CauseStays DEF Quiet
<1>25. ASSUME NEW e \in Endpoint, HalfCloses(e)
      PROVE  Quiet'
  <2>0. ended'[e] # "open"
    BY <1>25 DEF HalfCloses, TypeOK
  <2>1. Cause'
    BY <2>0 DEF Cause
  <2> QED
    BY <2>1 DEF Quiet
<1>26. ASSUME NEW e \in Endpoint, Closes(e)
      PROVE  Quiet'
  <2>0. ended'[e] # "open"
    BY <1>26 DEF Closes, TypeOK
  <2>1. Cause'
    BY <2>0 DEF Cause
  <2> QED
    BY <2>1 DEF Quiet
<1>27. CASE UNCHANGED vars
  <2>1. net' = net /\ (near' # "refused" => near # "refused")
    BY <1>27 DEF vars
  <2> QED
    BY <2>1, CauseStays DEF Quiet
<1> QED
  BY <1>1, <1>2, <1>3, <1>4, <1>5, <1>6, <1>7, <1>8, <1>9, <1>10, <1>11, <1>12, <1>13, <1>14, <1>15, <1>16, <1>17, <1>18, <1>19, <1>20, <1>21, <1>22, <1>23, <1>24, <1>25, <1>26, <1>27 DEF Next, Program, Environment

Placed ==
    /\ deadline => far = "header"
    /\ \A d \in Dir : /\ copy["near"][d] # "idle" => near \in {"relay", "over"}
                      /\ copy["far"][d] # "idle" => far \in {"relay", "over"}

LEMMA UndisturbedSplit == Undisturbed <=> Quiet /\ Placed /\ RelayLasts
  BY DEF Undisturbed, Quiet, QuietNet, Placed

LEMMA PlacedStep ==
    ASSUME TypeOK, CopyTyped, Targeted, Placed, [Next]_vars
    PROVE  Placed'
<1>1. CASE DialOpens
  <2>1. near = "dial" /\ near' \in {"relay", "hijack"} /\ far' = "header" /\ far = "none"
    BY <1>1 DEF DialOpens, Targeted
  <2>2. \A d \in Dir : copy'["far"][d] = copy["far"][d]
    BY <1>1, LinksAndDirs DEF DialOpens, CopyTyped
  <2>3. \A d \in Dir : copy'["near"][d] # "idle" => near' = "relay"
    BY <1>1, <2>1, LinksAndDirs DEF DialOpens, CopyTyped, Placed
  <2> QED
    BY <2>1, <2>2, <2>3 DEF Placed
<1>2. CASE DialFails
  <2>1. near = "dial" /\ UNCHANGED <<deadline, far, copy>>
    BY <1>2 DEF DialFails, headVars, copyVars
  <2> QED
    BY <2>1 DEF Placed
<1>3. CASE Hijack
  <2>1. near = "hijack" /\ UNCHANGED <<deadline, far, copy>>
    BY <1>3 DEF Hijack, headVars, copyVars
  <2> QED
    BY <2>1 DEF Placed
<1>4. CASE Greet
  <2>1. near = "greet" /\ UNCHANGED <<deadline, far, copy>>
    BY <1>4 DEF Greet, headVars, copyVars
  <2> QED
    BY <2>1 DEF Placed
<1>5. CASE SendEarly
  <2>1. UNCHANGED <<deadline, near, far, copy>>
    BY <1>5 DEF SendEarly, headVars, copyVars
  <2> QED
    BY <2>1 DEF Placed
<1>6. CASE EarlySent
  <2>1. near = "early" /\ near' = "relay" /\ UNCHANGED <<far, deadline>>
    BY <1>6 DEF EarlySent, headVars
  <2>2. \A d \in Dir : copy'["far"][d] = copy["far"][d]
    BY <1>6, LinksAndDirs DEF EarlySent, CopyTyped
  <2> QED
    BY <2>1, <2>2 DEF Placed
<1>7. CASE NearFails
  <2>1. near \in {"greet", "early"} /\ UNCHANGED <<deadline, far, copy>>
    BY <1>7 DEF NearFails, headVars, copyVars
  <2> QED
    BY <2>1 DEF Placed
<1>8. CASE FarReads
  <2>1. far = "header" /\ deadline' = FALSE /\ UNCHANGED <<near, copy>>
    BY <1>8 DEF FarReads, headVars, copyVars
  <2> QED
    BY <2>1 DEF Placed
<1>9. CASE FarFails
  <2>1. far \in {"header", "dial"} /\ deadline' = FALSE /\ UNCHANGED <<near, copy>>
    BY <1>9 DEF FarFails, headVars, copyVars
  <2> QED
    BY <2>1 DEF Placed
<1>10. CASE CloseTimeout
  <2>1. UNCHANGED <<deadline, near, far, copy>>
    BY <1>10 DEF CloseTimeout, headVars, copyVars
  <2> QED
    BY <2>1 DEF Placed
<1>11. ASSUME NEW p \in Process, RelayReturns(p)
      PROVE  Placed'
  <2>1. /\ UNCHANGED <<deadline, copy>>
        /\ \/ near = "relay" /\ near' = "over" /\ UNCHANGED far
           \/ far = "relay" /\ far' = "over" /\ UNCHANGED near
    BY <1>11 DEF RelayReturns, headVars, copyVars
  <2> QED
    BY <2>1 DEF Placed
<1>12. ASSUME NEW p \in Process, NEW d \in Dir, CopyReads(p, d)
      PROVE  Placed'
  <2>1. UNCHANGED <<deadline, near, far, copy>>
    BY <1>12 DEF CopyReads, headVars, copyVars
  <2> QED
    BY <2>1 DEF Placed
<1>13. ASSUME NEW p \in Process, NEW d \in Dir, CopyWrites(p, d)
      PROVE  Placed'
  <2>1. UNCHANGED <<deadline, near, far, copy>>
    BY <1>13 DEF CopyWrites, headVars, copyVars
  <2> QED
    BY <2>1 DEF Placed
<1>14. ASSUME NEW p \in Process, NEW d \in Dir, CopyEnds(p, d)
      PROVE  Placed'
  <2>1. UNCHANGED <<deadline, near, far>> /\ copy[p][d] = "on"
    BY <1>14 DEF CopyEnds, CopyOver, headVars
  <2>2. \A q \in Process, e \in Dir : copy'[q][e] # "idle" => copy[q][e] # "idle"
    BY <1>14, <2>1 DEF CopyEnds, CopyTyped
  <2> QED
    BY <2>1, <2>2, LinksAndDirs DEF Placed
<1>15. ASSUME NEW e \in Endpoint, Gets(e)
      PROVE  Placed'
  <2>1. UNCHANGED <<deadline, near, far, copy>>
    BY <1>15 DEF Gets, headVars, copyVars
  <2> QED
    BY <2>1 DEF Placed
<1>16. CASE NksStarts
  <2>1. UNCHANGED <<deadline, near, far, copy>>
    BY <1>16 DEF NksStarts, headVars, copyVars
  <2> QED
    BY <2>1 DEF Placed
<1>17. CASE NksRestarts
  <2>1. UNCHANGED <<deadline, near, far, copy>>
    BY <1>17 DEF NksRestarts, headVars, copyVars
  <2> QED
    BY <2>1 DEF Placed
<1>18. CASE SessionEnds
  <2>1. UNCHANGED <<deadline, near, far, copy>>
    BY <1>18 DEF SessionEnds, headVars, copyVars
  <2> QED
    BY <2>1 DEF Placed
<1>19. CASE AskSSH
  <2>1. near = "idle" /\ UNCHANGED <<deadline, far, copy>>
    BY <1>19 DEF AskSSH, headVars, copyVars
  <2> QED
    BY <2>1 DEF Placed
<1>20. CASE Cancelled
  <2>1. UNCHANGED <<deadline, near, far, copy>>
    BY <1>20 DEF Cancelled, headVars, copyVars
  <2> QED
    BY <2>1 DEF Placed
<1>21. CASE FarDials
  <2>1. far = "dial" /\ far' = "relay" /\ UNCHANGED <<near, deadline>>
    BY <1>21 DEF FarDials
  <2>2. \A d \in Dir : copy'["near"][d] = copy["near"][d]
    BY <1>21, LinksAndDirs DEF FarDials, CopyTyped
  <2> QED
    BY <2>1, <2>2 DEF Placed
<1>22. ASSUME NEW useProxy \in UsesProxy, NkStarts(useProxy)
      PROVE  Placed'
  <2>1. UNCHANGED <<deadline, near, far, copy>>
    BY <1>22 DEF NkStarts, headVars, copyVars
  <2> QED
    BY <2>1 DEF Placed
<1>23. ASSUME NEW t \in Targets, Ask(t)
      PROVE  Placed'
  <2>1. near = "idle" /\ UNCHANGED <<deadline, far, copy>>
    BY <1>23 DEF Ask, headVars, copyVars
  <2> QED
    BY <2>1 DEF Placed
<1>24. ASSUME NEW e \in Endpoint, Sends(e)
      PROVE  Placed'
  <2>1. UNCHANGED <<deadline, near, far, copy>>
    BY <1>24 DEF Sends, headVars, copyVars
  <2> QED
    BY <2>1 DEF Placed
<1>25. ASSUME NEW e \in Endpoint, HalfCloses(e)
      PROVE  Placed'
  <2>1. UNCHANGED <<deadline, near, far, copy>>
    BY <1>25 DEF HalfCloses, headVars, copyVars
  <2> QED
    BY <2>1 DEF Placed
<1>26. ASSUME NEW e \in Endpoint, Closes(e)
      PROVE  Placed'
  <2>1. UNCHANGED <<deadline, near, far, copy>>
    BY <1>26 DEF Closes, headVars, copyVars
  <2> QED
    BY <2>1 DEF Placed
<1>27. CASE UNCHANGED vars
  <2>1. UNCHANGED <<deadline, near, far, copy>>
    BY <1>27 DEF vars, headVars, copyVars
  <2> QED
    BY <2>1 DEF Placed
<1> QED
  BY <1>1, <1>2, <1>3, <1>4, <1>5, <1>6, <1>7, <1>8, <1>9, <1>10, <1>11, <1>12, <1>13, <1>14, <1>15, <1>16, <1>17, <1>18, <1>19, <1>20, <1>21, <1>22, <1>23, <1>24, <1>25, <1>26, <1>27 DEF Next, Program, Environment

Done == \E p \in Process, d \in Dir : copy[p][d] = "done"

LEMMA LastsIsCause == (RelayLasts <=> (Done => Cause)) /\ (RelayLasts' <=> (Done' => Cause'))
  BY DEF RelayLasts, Done, Cause

LEMMA LastsStep ==
    ASSUME TypeOK, CopyTyped, Targeted, Undisturbed, RelayLasts, [Next]_vars
    PROVE  RelayLasts'
<1>1. CASE DialOpens
  <2>1. Done' => Done
    BY <1>1, LinksAndDirs DEF DialOpens, CopyTyped, Done
  <2> QED
    BY <2>1, CauseStays, LastsIsCause
<1>2. CASE DialFails
  <2>1. UNCHANGED copy
    BY <1>2 DEF DialFails, copyVars
  <2> QED
    BY <2>1, CauseStays, LastsIsCause DEF Done
<1>3. CASE Hijack
  <2>1. UNCHANGED copy
    BY <1>3 DEF Hijack, copyVars
  <2> QED
    BY <2>1, CauseStays, LastsIsCause DEF Done
<1>4. CASE Greet
  <2>1. UNCHANGED copy
    BY <1>4 DEF Greet, copyVars
  <2> QED
    BY <2>1, CauseStays, LastsIsCause DEF Done
<1>5. CASE SendEarly
  <2>1. UNCHANGED copy
    BY <1>5 DEF SendEarly, copyVars
  <2> QED
    BY <2>1, CauseStays, LastsIsCause DEF Done
<1>6. CASE EarlySent
  <2>1. Done' => Done
    BY <1>6, LinksAndDirs DEF EarlySent, CopyTyped, Done
  <2> QED
    BY <2>1, CauseStays, LastsIsCause
<1>7. CASE NearFails
  <2>1. UNCHANGED copy
    BY <1>7 DEF NearFails, copyVars
  <2> QED
    BY <2>1, CauseStays, LastsIsCause DEF Done
<1>8. CASE FarReads
  <2>1. UNCHANGED copy
    BY <1>8 DEF FarReads, copyVars
  <2> QED
    BY <2>1, CauseStays, LastsIsCause DEF Done
<1>9. CASE FarFails
  <2>1. UNCHANGED copy
    BY <1>9 DEF FarFails, copyVars
  <2> QED
    BY <2>1, CauseStays, LastsIsCause DEF Done
<1>10. CASE CloseTimeout
  <2>1. UNCHANGED copy
    BY <1>10 DEF CloseTimeout, copyVars
  <2> QED
    BY <2>1, CauseStays, LastsIsCause DEF Done
<1>11. ASSUME NEW p \in Process, RelayReturns(p)
      PROVE  RelayLasts'
  <2>1. UNCHANGED copy
    BY <1>11 DEF RelayReturns, copyVars
  <2> QED
    BY <2>1, CauseStays, LastsIsCause DEF Done
<1>12. ASSUME NEW p \in Process, NEW d \in Dir, CopyReads(p, d)
      PROVE  RelayLasts'
  <2>1. UNCHANGED copy
    BY <1>12 DEF CopyReads, copyVars
  <2> QED
    BY <2>1, CauseStays, LastsIsCause DEF Done
<1>13. ASSUME NEW p \in Process, NEW d \in Dir, CopyWrites(p, d)
      PROVE  RelayLasts'
  <2>1. UNCHANGED copy
    BY <1>13 DEF CopyWrites, copyVars
  <2> QED
    BY <2>1, CauseStays, LastsIsCause DEF Done
<1>14. ASSUME NEW p \in Process, NEW d \in Dir, CopyEnds(p, d)
      PROVE  RelayLasts'
  <2>1. Cause'
    BY <1>14, CopyOverCause, CauseStays DEF CopyEnds
  <2> QED
    BY <2>1, LastsIsCause
<1>15. ASSUME NEW e \in Endpoint, Gets(e)
      PROVE  RelayLasts'
  <2>1. UNCHANGED copy
    BY <1>15 DEF Gets, copyVars
  <2> QED
    BY <2>1, CauseStays, LastsIsCause DEF Done
<1>16. CASE NksStarts
  <2>1. UNCHANGED copy
    BY <1>16 DEF NksStarts, copyVars
  <2> QED
    BY <2>1, CauseStays, LastsIsCause DEF Done
<1>17. CASE NksRestarts
  <2>1. UNCHANGED copy
    BY <1>17 DEF NksRestarts, copyVars
  <2> QED
    BY <2>1, CauseStays, LastsIsCause DEF Done
<1>18. CASE SessionEnds
  <2>1. UNCHANGED copy
    BY <1>18 DEF SessionEnds, copyVars
  <2> QED
    BY <2>1, CauseStays, LastsIsCause DEF Done
<1>19. CASE AskSSH
  <2>1. UNCHANGED copy
    BY <1>19 DEF AskSSH, copyVars
  <2> QED
    BY <2>1, CauseStays, LastsIsCause DEF Done
<1>20. CASE Cancelled
  <2>1. UNCHANGED copy
    BY <1>20 DEF Cancelled, copyVars
  <2> QED
    BY <2>1, CauseStays, LastsIsCause DEF Done
<1>21. CASE FarDials
  <2>1. Done' => Done
    BY <1>21, LinksAndDirs DEF FarDials, CopyTyped, Done
  <2> QED
    BY <2>1, CauseStays, LastsIsCause
<1>22. ASSUME NEW useProxy \in UsesProxy, NkStarts(useProxy)
      PROVE  RelayLasts'
  <2>1. UNCHANGED copy
    BY <1>22 DEF NkStarts, copyVars
  <2> QED
    BY <2>1, CauseStays, LastsIsCause DEF Done
<1>23. ASSUME NEW t \in Targets, Ask(t)
      PROVE  RelayLasts'
  <2>1. UNCHANGED copy
    BY <1>23 DEF Ask, copyVars
  <2> QED
    BY <2>1, CauseStays, LastsIsCause DEF Done
<1>24. ASSUME NEW e \in Endpoint, Sends(e)
      PROVE  RelayLasts'
  <2>1. UNCHANGED copy
    BY <1>24 DEF Sends, copyVars
  <2> QED
    BY <2>1, CauseStays, LastsIsCause DEF Done
<1>25. ASSUME NEW e \in Endpoint, HalfCloses(e)
      PROVE  RelayLasts'
  <2>1. UNCHANGED copy
    BY <1>25 DEF HalfCloses, copyVars
  <2> QED
    BY <2>1, CauseStays, LastsIsCause DEF Done
<1>26. ASSUME NEW e \in Endpoint, Closes(e)
      PROVE  RelayLasts'
  <2>1. UNCHANGED copy
    BY <1>26 DEF Closes, copyVars
  <2> QED
    BY <2>1, CauseStays, LastsIsCause DEF Done
<1>27. CASE UNCHANGED vars
  <2>1. UNCHANGED copy
    BY <1>27 DEF vars, copyVars
  <2> QED
    BY <2>1, CauseStays, LastsIsCause DEF Done
<1> QED
  BY <1>1, <1>2, <1>3, <1>4, <1>5, <1>6, <1>7, <1>8, <1>9, <1>10, <1>11, <1>12, <1>13, <1>14, <1>15, <1>16, <1>17, <1>18, <1>19, <1>20, <1>21, <1>22, <1>23, <1>24, <1>25, <1>26, <1>27 DEF Next, Program, Environment

-----------------------------------------------------------------------------
(* The theorems.                                                           *)

LEMMA InitForwards == Init => ForwardingInv
<1> SUFFICES ASSUME Init PROVE ForwardingInv
  OBVIOUS
<1>1. TypeOK
  BY InitTyped
<1>2. Targeted
  BY DEF Init, Targeted, RightTarget
<1>3. \A p \in Process, d \in Dir : copy[p][d] = "idle"
  BY DEF Init
<1>4. Placed /\ RelayLasts
  BY <1>3, LinksAndDirs DEF Init, Placed, RelayLasts
<1>5. Quiet
  BY DEF Init, Quiet, QuietNet
<1> QED
  BY <1>1, <1>2, <1>4, <1>5, UndisturbedSplit DEF ForwardingInv

LEMMA NextForwards == ForwardingInv /\ [Next]_vars => ForwardingInv'
<1> SUFFICES ASSUME ForwardingInv, [Next]_vars PROVE ForwardingInv'
  OBVIOUS
<1>1. /\ TypeOK /\ Targeted /\ Undisturbed /\ Quiet /\ Placed /\ RelayLasts
      /\ ConfTyped /\ PlaceTyped /\ CopyTyped
  BY TypeSplit, UndisturbedSplit DEF ForwardingInv
<1>2. ConfTyped' /\ EndsTyped' /\ CopyTyped'
  BY <1>1, ConfStep, EndsStep, CopyStep
<1>3. NetTyped' /\ PlaceTyped'
  BY <1>1, NetStep, PlaceStep
<1>4. TypeOK'
  BY <1>2, <1>3 DEF TypeOK, ConfTyped, PlaceTyped, CopyTyped, EndsTyped, NetTyped, Nets
<1>5. Targeted'
  BY <1>1, TargetedStep
<1>6. Quiet'
  BY <1>1, QuietStep
<1>7. Placed' /\ RelayLasts'
  BY <1>1, PlacedStep, LastsStep
<1>8. Undisturbed'
  BY <1>6, <1>7 DEF Undisturbed, Quiet, QuietNet, Placed
<1> QED
  BY <1>4, <1>5, <1>8 DEF ForwardingInv

(***************************************************************************)
(* The inductive invariant holds for all settings, hosts, bounds and       *)
(* window sizes.                                                           *)
(***************************************************************************)
THEOREM InvariantHolds == Spec => []ForwardingInv
<1>1. Init => ForwardingInv
  BY InitForwards
<1>2. ForwardingInv /\ [Next]_vars => ForwardingInv'
  BY NextForwards
<1> QED
  BY <1>1, <1>2, PTL DEF Spec

(* Every variable keeps its type (TypeOK). *)
THEOREM TypeCorrect == Spec => []TypeOK
<1>1. ForwardingInv => TypeOK
  BY DEF ForwardingInv
<1> QED
  BY <1>1, InvariantHolds, PTL

(***************************************************************************)
(* A connection reaches the host and port it was asked for, by the route   *)
(* of the client's settings, and none that the server's rules deny         *)
(* (proxy_listener.go, protocol, traffic_client.go).                       *)
(***************************************************************************)
THEOREM TargetIsRight == Spec => []RightTarget
<1>1. ForwardingInv => RightTarget
  BY DEF ForwardingInv, Targeted
<1> QED
  BY <1>1, InvariantHolds, PTL

(***************************************************************************)
(* No relay ends by itself: no deadline, timer or close of the program's   *)
(* own ends one before an endpoint, the session or nks did, or the target  *)
(* turned out to be out of reach (relay_conn.go, traffic_server.go).       *)
(***************************************************************************)
THEOREM RelayIsKept == Spec => []RelayLasts
<1>1. ForwardingInv => RelayLasts
  BY DEF ForwardingInv, Undisturbed
<1> QED
  BY <1>1, InvariantHolds, PTL

=============================================================================
