----------------------- MODULE ForwardingOrder_proofs -----------------------
(***************************************************************************)
(* Theorems about Forwarding: either end gets what the other has sent, in  *)
(* order and from the start, and to the last byte if nothing but the end   *)
(* of the sender's direction ends the connection.                          *)
(*                                                                         *)
(* A byte passes six stations: the connection it is sent to, the copy of   *)
(* the first process, the stream, the copy of the second process, the      *)
(* other connection, and the endpoint that gets it.  The invariant gives   *)
(* each station its place in the text, as far as the stations between it   *)
(* and the getter still take bytes: what lies behind a connection that has *)
(* ended will never be got.                                                *)
(* A second invariant counts the bytes on the way, and says in which order *)
(* the closes pass down it behind them.                                    *)
(***************************************************************************)
EXTENDS Forwarding_proofs

-----------------------------------------------------------------------------
(* Places in a text.                                                       *)

(* s is the part of t that starts behind its first k entries. *)
At(s, k, t) == k + Len(s) <= Len(t) /\ \A i \in 1 .. Len(s) : s[i] = t[k + i]

Stopped(x) == x.fin \/ x.shut

(* The place behind two stations, the first of which is at place k. *)
Behind(k, x, y) == k + Len(x) + Len(y)

(* Two stations at place k: nothing in them lies behind place n. *)
Block(t, n, k, x, y) ==
    At(x, k, t) /\ At(y, k + Len(x), t) /\ Behind(k, x, y) <= n

(* The stations of one direction, from the getter back to the sender, who  *)
(* has sent the first n entries of t: the first copy and its source ...    *)
Third(t, n, k, s, c) ==
    Block(t, n, k, s, c.q) /\ (~Stopped(c) => Behind(k, s, c.q) = n)

(* ... the second copy and the stream before them ... *)
Second(t, n, k, h, b, s, c) ==
    Block(t, n, k, h, b.q) /\ (~Stopped(b) => Third(t, n, Behind(k, h, b.q), s, c))

(* ... and the getter with its connection. *)
Chain(t, n, g, a, h, b, s, c) ==
    Block(t, n, 0, g, a.q) /\ (~Stopped(a) => Second(t, n, Behind(0, g, a.q), h, b, s, c))

-----------------------------------------------------------------------------
(***************************************************************************)
(* The inductive invariant.                                                *)
(***************************************************************************)
OutText == Text("user", UserBytes)

OutChain ==
    Chain(OutText, sent["user"], got["target"], net["target"]["out"], held["far"]["out"],
          net["tunnel"]["out"], held["near"]["out"], net["user"]["out"])

(* The near process has yet to answer the request. *)
Answering == mode = "connect" /\ near \in {"dial", "hijack", "greet"}

Greeting == IF mode = "connect" THEN <<200>> ELSE <<>>
BackText == Greeting \o Text("target", TargetBytes)
Reply == IF Answering THEN <<200>> ELSE held["near"]["back"]

BackChain ==
    Chain(BackText, Len(Greeting) + sent["target"], got["user"], net["user"]["back"], Reply,
          net["tunnel"]["back"], held["far"]["back"], net["target"]["back"])

Refusal == {<<403>>, <<502>>}

(* A refused user gets the refusal and nothing else. *)
Answered ==
    \/ got["user"] = <<>> /\ net["user"]["back"].q \in Refusal \cup {<<>>}
    \/ got["user"] \in Refusal /\ net["user"]["back"].q = <<>>

(* Who holds bytes, and where there are none yet. *)
HoldsForSomeone ==
    /\ near \in {"hijack", "greet", "early"} => mode = "connect"
    /\ \A p \in Process, d \in Dir :
           held[p][d] # <<>> =>
               \/ copy[p][d] = "on"
               \/ p = "near" /\ d = "out" /\ near \in {"greet", "early"}
    /\ near \in {"idle", "dial", "hijack", "greet"} =>
           got["user"] = <<>> /\ net["user"]["back"].q = <<>>
    /\ far = "none" =>
           sent["target"] = 0 /\ net["tunnel"]["back"].q = <<>> /\ net["target"]["back"].q = <<>>

(* Who closed a TCP connection writes nothing to it any more. *)
ClosedBothWays ==
    \A e \in Endpoint, d \in Dir : net[e][d].shut => net[e][Opposite(d)].fin

WithinLimits == \A e \in Endpoint : sent[e] <= Limit(e)

Ordered ==
    /\ OutChain
    /\ near # "refused" => BackChain
    /\ near = "refused" => Answered
    /\ HoldsForSomeone
    /\ ClosedBothWays
    /\ WithinLimits

OrderInv == ForwardingInv /\ Ordered

-----------------------------------------------------------------------------
(* Bytes that go on to the next station.                                   *)

(* y and x became y2 and x2: the first bytes of x went to the end of y. *)
Moved(y, x, y2, x2) ==
    /\ Len(y) <= Len(y2) /\ Len(y2) + Len(x2) = Len(y) + Len(x)
    /\ \A i \in 1 .. Len(y) : y2[i] = y[i]
    /\ \A i \in 1 .. Len(y2) - Len(y) : y2[Len(y) + i] = x[i]
    /\ \A i \in 1 .. Len(x2) : x2[i] = x[Len(y2) - Len(y) + i]

LEMMA MovedHead ==
    ASSUME NEW y \in Seq(Nat), NEW x \in Seq(Nat), x # <<>>
    PROVE  Moved(y, x, Append(y, Head(x)), Tail(x))
<1> DEFINE y2 == Append(y, Head(x))
           x2 == Tail(x)
<1>1. Len(y) \in Nat /\ Len(x) \in Nat /\ Len(x) > 0 /\ Head(x) = x[1] /\ Head(x) \in Nat
  BY EmptySeq
<1>2. /\ Len(y2) = Len(y) + 1 /\ y2[Len(y) + 1] = x[1]
      /\ \A i \in 1 .. Len(y) : y2[i] = y[i]
  BY <1>1, AppendProperties
<1>3. Len(x2) = Len(x) - 1 /\ \A i \in 1 .. Len(x2) : x2[i] = x[i + 1]
  BY <1>1, HeadTailProperties
<1> HIDE DEF y2, x2
<1>4. \A i \in 1 .. Len(y2) - Len(y) : i = 1
  BY <1>1, <1>2
<1>5. \A i \in 1 .. Len(x2) : x2[i] = x[Len(y2) - Len(y) + i]
  <2> TAKE i \in 1 .. Len(x2)
  <2>1. Len(y2) - Len(y) + i = i + 1
    BY <1>1, <1>2, <1>3
  <2> QED
    BY <1>3, <2>1
<1>6. Moved(y, x, y2, x2)
  BY <1>1, <1>2, <1>3, <1>4, <1>5 DEF Moved
<1> QED
  BY <1>6 DEF y2, x2

LEMMA MovedFirst ==
    ASSUME NEW x \in Seq(Nat), x # <<>>
    PROVE  Moved(<<>>, x, <<Head(x)>>, Tail(x))
<1>1. Moved(<<>>, x, Append(<<>>, Head(x)), Tail(x))
  BY MovedHead, EmptySeq
<1>2. Append(<<>>, Head(x)) = <<Head(x)>>
  OBVIOUS
<1> QED
  BY <1>1, <1>2

LEMMA MovedSome ==
    ASSUME NEW x \in Seq(Nat), NEW n \in 0 .. Len(x), NEW y2 \in Seq(Nat), NEW x2 \in Seq(Nat),
           y2 = SubSeq(x, 1, n), Len(x2) = Len(x) - n,
           \A i \in 1 .. Len(x) - n : x2[i] = x[n + i],
           NEW y \in Seq(Nat), y = <<>>
    PROVE  Moved(y, x, y2, x2)
<1>1. Len(x) \in Nat /\ Len(y) = 0
  BY EmptySeq
<1>2. Len(y2) = n /\ \A i \in 1 .. n : y2[i] = x[i]
  BY PrefixOf
<1>3. n \in Nat /\ n <= Len(x)
  BY <1>1
<1>4. Len(y) <= Len(y2) /\ Len(y2) + Len(x2) = Len(y) + Len(x) /\ Len(y2) - Len(y) = n
  BY <1>1, <1>2, <1>3
<1>5. \A i \in 1 .. Len(y) : y2[i] = y[i]
  BY <1>1
<1>6. \A i \in 1 .. Len(y2) - Len(y) : y2[Len(y) + i] = x[i]
  <2> TAKE i \in 1 .. Len(y2) - Len(y)
  <2>1. i \in 1 .. n /\ Len(y) + i = i
    BY <1>1, <1>3, <1>4
  <2> QED
    BY <1>2, <2>1
<1>7. \A i \in 1 .. Len(x2) : x2[i] = x[Len(y2) - Len(y) + i]
  BY <1>4
<1> QED
  BY <1>4, <1>5, <1>6, <1>7 DEF Moved

LEMMA AtMoved ==
    ASSUME NEW y \in Seq(Nat), NEW x \in Seq(Nat), NEW y2 \in Seq(Nat), NEW x2 \in Seq(Nat),
           NEW t \in Seq(Nat), NEW k \in Nat,
           Moved(y, x, y2, x2), At(y, k, t), At(x, k + Len(y), t)
    PROVE  At(y2, k, t) /\ At(x2, k + Len(y2), t) /\ Len(y2) + Len(x2) = Len(y) + Len(x)
<1>1. /\ Len(y) \in Nat /\ Len(x) \in Nat /\ Len(y2) \in Nat /\ Len(x2) \in Nat /\ Len(t) \in Nat
      /\ Len(y) <= Len(y2) /\ Len(y2) + Len(x2) = Len(y) + Len(x)
      /\ k + Len(y) + Len(x) <= Len(t)
  BY DEF Moved, At
<1>2. ASSUME NEW i \in 1 .. Len(y2)
      PROVE  y2[i] = t[k + i]
  <2>1. CASE i <= Len(y)
    <3>1. i \in 1 .. Len(y)
      BY <1>1, <2>1
    <3> QED
      BY <3>1 DEF Moved, At
  <2>2. CASE ~(i <= Len(y))
    <3>1. /\ i - Len(y) \in 1 .. Len(y2) - Len(y) /\ i - Len(y) \in 1 .. Len(x)
          /\ Len(y) + (i - Len(y)) = i /\ k + Len(y) + (i - Len(y)) = k + i
      <4>1. PICK a \in Nat, b \in Nat, c \in Nat, d \in Nat :
                a = Len(y) /\ b = Len(x) /\ c = Len(y2) /\ d = Len(x2)
        BY <1>1
      <4>2. a <= c /\ c + d = a + b /\ i \in 1 .. c /\ ~(i <= a)
        BY <1>1, <2>2, <4>1
      <4>3. i - a \in 1 .. c - a /\ i - a \in 1 .. b
        BY <4>2
      <4>4. a + (i - a) = i /\ k + a + (i - a) = k + i
        BY <4>2
      <4> QED
        BY <4>1, <4>3, <4>4
    <3>2. y2[Len(y) + (i - Len(y))] = x[i - Len(y)]
      BY <3>1 DEF Moved
    <3>3. x[i - Len(y)] = t[k + Len(y) + (i - Len(y))]
      BY <3>1 DEF At
    <3> QED
      BY <3>1, <3>2, <3>3
  <2> QED
    BY <2>1, <2>2
<1>3. ASSUME NEW i \in 1 .. Len(x2)
      PROVE  x2[i] = t[k + Len(y2) + i]
  <2>0. i \in Nat /\ 1 <= i /\ i <= Len(x2)
    BY <1>1
  <2>1. /\ Len(y2) - Len(y) + i \in 1 .. Len(x)
        /\ k + Len(y) + (Len(y2) - Len(y) + i) = k + Len(y2) + i
    <3>1. PICK a \in Nat, b \in Nat, c \in Nat, d \in Nat :
              a = Len(y) /\ b = Len(y2) /\ c = Len(x) /\ d = Len(x2)
      BY <1>1
    <3>2. a <= b /\ b + d = a + c /\ i <= d
      BY <1>1, <2>0, <3>1
    <3>3. b - a + i \in 1 .. c /\ k + a + (b - a + i) = k + b + i
      BY <2>0, <3>2
    <3> QED
      BY <3>1, <3>3
  <2>2. x2[i] = x[Len(y2) - Len(y) + i]
    BY DEF Moved
  <2>3. x[Len(y2) - Len(y) + i] = t[k + Len(y) + (Len(y2) - Len(y) + i)]
    BY <2>1 DEF At
  <2> QED
    BY <2>1, <2>2, <2>3
<1>4. k + Len(y2) <= Len(t) /\ k + Len(y2) + Len(x2) <= Len(t)
  BY <1>1
<1> QED
  BY <1>1, <1>2, <1>3, <1>4 DEF At

LEMMA BehindNat ==
    \A k \in Nat, x, y \in Seq(Nat) :
        Behind(k, x, y) \in Nat /\ Len(x) \in Nat /\ Len(y) \in Nat /\ k + Len(x) \in Nat
  BY DEF Behind

LEMMA BehindMoved ==
    ASSUME NEW x \in Seq(Nat), NEW y \in Seq(Nat), NEW x2 \in Seq(Nat), NEW y2 \in Seq(Nat),
           NEW k \in Nat, Moved(x, y, x2, y2)
    PROVE  Behind(k, x2, y2) = Behind(k, x, y)
<1>1. PICK a \in Nat, b \in Nat, c \in Nat, d \in Nat :
          a = Len(x) /\ b = Len(y) /\ c = Len(x2) /\ d = Len(y2)
  BY BehindNat
<1>2. c + d = a + b
  BY <1>1 DEF Moved
<1>3. k + c + d = k + a + b
  BY <1>2
<1> QED
  BY <1>1, <1>3 DEF Behind

(* The place behind four stations. *)
Beyond(k, x, y, h, z) == Behind(Behind(k, x, y), h, z)

LEMMA BehindGrows ==
    ASSUME NEW y \in Seq(Nat), NEW h \in Seq(Nat), NEW y2 \in Seq(Nat), NEW h2 \in Seq(Nat),
           Moved(y, h, y2, h2)
    PROVE  \A k \in Nat, x, z \in Seq(Nat) : Beyond(k, x, y2, h2, z) = Beyond(k, x, y, h, z)
<1> TAKE k \in Nat, x, z \in Seq(Nat)
<1>1. PICK l \in Nat : l = k + Len(x)
  BY BehindNat
<1>2. PICK a \in Nat, b \in Nat, c \in Nat, d \in Nat, e \in Nat :
          a = Len(y) /\ b = Len(h) /\ c = Len(y2) /\ d = Len(h2) /\ e = Len(z)
  BY BehindNat
<1>3. c + d = a + b
  BY <1>2 DEF Moved
<1>4. l + c + d + e = l + a + b + e
  BY <1>3
<1> QED
  BY <1>1, <1>2, <1>4 DEF Behind, Beyond

LEMMA BlockMoved ==
    ASSUME NEW x \in Seq(Nat), NEW y \in Seq(Nat), NEW x2 \in Seq(Nat), NEW y2 \in Seq(Nat),
           NEW t \in Seq(Nat), NEW n \in Nat, NEW k \in Nat,
           Moved(x, y, x2, y2), Block(t, n, k, x, y)
    PROVE  Block(t, n, k, x2, y2)
<1>1. At(x2, k, t) /\ At(y2, k + Len(x2), t)
  BY AtMoved DEF Block
<1>2. Behind(k, x2, y2) = Behind(k, x, y)
  BY BehindMoved
<1> QED
  BY <1>1, <1>2 DEF Block

(* Bytes go from the next two stations to the last one before them. *)
LEMMA BlockGrows ==
    ASSUME NEW x \in Seq(Nat), NEW y \in Seq(Nat), NEW h \in Seq(Nat), NEW z \in Seq(Nat),
           NEW y2 \in Seq(Nat), NEW h2 \in Seq(Nat),
           NEW t \in Seq(Nat), NEW n \in Nat, NEW k \in Nat,
           Moved(y, h, y2, h2),
           Block(t, n, k, x, y), Block(t, n, Behind(k, x, y), h, z)
    PROVE  Block(t, n, k, x, y2) /\ Block(t, n, Behind(k, x, y2), h2, z)
<1>1. PICK l \in Nat : l = k + Len(x)
  BY BehindNat
<1>2. Behind(k, x, y) = l + Len(y) /\ Behind(k, x, y2) = l + Len(y2)
  BY <1>1 DEF Behind
<1>3. At(y, l, t) /\ At(h, l + Len(y), t) /\ At(x, k, t)
  BY <1>1, <1>2 DEF Block
<1>4. /\ At(y2, l, t) /\ At(h2, l + Len(y2), t)
      /\ Len(y2) + Len(h2) = Len(y) + Len(h)
  <2>1. l \in Nat /\ Moved(y, h, y2, h2) /\ At(y, l, t) /\ At(h, l + Len(y), t)
    BY <1>3
  <2>2. At(y2, l, t)
    BY <2>1, AtMoved
  <2>3. At(h2, l + Len(y2), t)
    BY <2>1, AtMoved
  <2>4. Len(y2) + Len(h2) = Len(y) + Len(h)
    BY <2>1 DEF Moved
  <2> QED
    BY <2>2, <2>3, <2>4
<1>5. PICK a \in Nat, b \in Nat, c \in Nat, d \in Nat, e \in Nat :
          a = Len(y) /\ b = Len(h) /\ c = Len(y2) /\ d = Len(h2) /\ e = Len(z)
  BY BehindNat
<1>6. c + d = a + b
  BY <1>4, <1>5
<1>7. l + c + d = l + a + b /\ l + c + d + e = l + a + b + e
  BY <1>6
<1>8. At(z, l + c + d, t) /\ l + c + d + e <= n
  BY <1>2, <1>5, <1>7 DEF Block, Behind
<1>9. l + c <= n
  BY <1>8
<1>10. Block(t, n, k, x, y2)
  BY <1>1, <1>2, <1>3, <1>4, <1>5, <1>9 DEF Block
<1>11. Block(t, n, l + Len(y2), h2, z)
  BY <1>4, <1>5, <1>8 DEF Block, Behind
<1> QED
  BY <1>2, <1>10, <1>11

(* s2 is the beginning of s. *)
Start(s2, s) == Len(s2) <= Len(s) /\ \A i \in 1 .. Len(s2) : s2[i] = s[i]

LEMMA BlockLess ==
    ASSUME NEW x \in Seq(Nat), NEW y \in Seq(Nat), NEW y2 \in Seq(Nat),
           NEW t \in Seq(Nat), NEW n \in Nat, NEW k \in Nat,
           Start(y2, y), Block(t, n, k, x, y)
    PROVE  Block(t, n, k, x, y2)
<1>1. PICK l \in Nat, b \in Nat, c \in Nat, u \in Nat :
          l = k + Len(x) /\ b = Len(y) /\ c = Len(y2) /\ u = Len(t)
  BY BehindNat
<1>2. c <= b /\ l + b <= u /\ l + b <= n
  BY <1>1 DEF Block, At, Start, Behind
<1>3. l + c <= n /\ l + c <= u
  BY <1>2
<1>4. \A i \in 1 .. c : i \in 1 .. b
  BY <1>2
<1>5. \A i \in 1 .. Len(y2) : y2[i] = t[l + i]
  BY <1>1, <1>4 DEF Block, At, Start
<1>6. At(y2, l, t) /\ At(x, k, t)
  BY <1>1, <1>3, <1>5 DEF At, Block
<1> QED
  BY <1>1, <1>3, <1>6 DEF Block, Behind

LEMMA BlockMore ==
    ASSUME NEW x \in Seq(Nat), NEW y \in Seq(Nat), NEW t \in Seq(Nat), NEW n \in Nat, NEW k \in Nat,
           Block(t, n, k, x, y)
    PROVE  Block(t, n + 1, k, x, y)
<1>1. PICK e \in Nat : e = Behind(k, x, y)
  BY BehindNat
<1>2. e <= n
  BY <1>1 DEF Block
<1>3. e <= n + 1
  BY <1>2
<1> QED
  BY <1>1, <1>3 DEF Block

-----------------------------------------------------------------------------
(* What the steps do to a chain.                                           *)

LEMMA GetsChain ==
    ASSUME NEW t \in Seq(Nat), NEW n \in Nat, NEW g \in Seq(Nat), NEW h, NEW s,
           NEW a \in Pipe, NEW b, NEW c, NEW g2 \in Seq(Nat), NEW a2 \in Pipe,
           Chain(t, n, g, a, h, b, s, c),
           Moved(g, a.q, g2, a2.q), Stopped(a2) <=> Stopped(a)
    PROVE  Chain(t, n, g2, a2, h, b, s, c)
<1>1. PICK A \in Seq(Nat), A2 \in Seq(Nat), k \in Nat : A = a.q /\ A2 = a2.q /\ k = 0
  BY PipeParts
<1>2. Block(t, n, k, g, A)
  BY <1>1 DEF Chain
<1>3. Moved(g, A, g2, A2)
  BY <1>1
<1>4. Block(t, n, k, g2, A2)
  BY <1>2, <1>3, BlockMoved
<1>5. Behind(k, g2, A2) = Behind(k, g, A)
  BY <1>3, BehindMoved
<1> QED
  BY <1>1, <1>4, <1>5 DEF Chain

LEMMA WritesFirstChain ==
    ASSUME NEW t \in Seq(Nat), NEW n \in Nat, NEW g \in Seq(Nat), NEW h \in Seq(Nat), NEW s,
           NEW a \in Pipe, NEW b \in Pipe, NEW c, NEW a2 \in Pipe, NEW h2 \in Seq(Nat),
           Chain(t, n, g, a, h, b, s, c), ~Stopped(a),
           Moved(a.q, h, a2.q, h2)
    PROVE  Chain(t, n, g, a2, h2, b, s, c)
<1>1. PICK A \in Seq(Nat), A2 \in Seq(Nat), B \in Seq(Nat), k \in Nat :
          A = a.q /\ A2 = a2.q /\ B = b.q /\ k = 0
  BY PipeParts
<1>2. Block(t, n, k, g, A) /\ Second(t, n, Behind(k, g, A), h, b, s, c)
  BY <1>1 DEF Chain
<1>3. Block(t, n, Behind(k, g, A), h, B)
  BY <1>1, <1>2 DEF Second
<1>4. Moved(A, h, A2, h2)
  BY <1>1
<1>5. Block(t, n, k, g, A2)
  BY <1>2, <1>3, <1>4, BlockGrows
<1>6. Block(t, n, Behind(k, g, A2), h2, B)
  BY <1>2, <1>3, <1>4, BlockGrows
<1>7. Beyond(k, g, A2, h2, B) = Beyond(k, g, A, h, B)
  <2>1. \A l \in Nat, x, z \in Seq(Nat) : Beyond(l, x, A2, h2, z) = Beyond(l, x, A, h, z)
    BY <1>4, BehindGrows
  <2> QED
    BY <2>1
<1>8. Second(t, n, Behind(k, g, A2), h2, b, s, c)
  BY <1>1, <1>2, <1>6, <1>7 DEF Second, Beyond
<1> QED
  BY <1>1, <1>5, <1>8 DEF Chain

LEMMA ReadsFirstChain ==
    ASSUME NEW t \in Seq(Nat), NEW n \in Nat, NEW g \in Seq(Nat), NEW h \in Seq(Nat), NEW s,
           NEW a \in Pipe, NEW b \in Pipe, NEW c, NEW b2 \in Pipe, NEW h2 \in Seq(Nat),
           Chain(t, n, g, a, h, b, s, c),
           Moved(h, b.q, h2, b2.q), Stopped(b2) <=> Stopped(b)
    PROVE  Chain(t, n, g, a, h2, b2, s, c)
<1>1. CASE Stopped(a)
  BY <1>1 DEF Chain
<1>2. CASE ~Stopped(a)
  <2>1. PICK A \in Seq(Nat), B \in Seq(Nat), B2 \in Seq(Nat) : A = a.q /\ B = b.q /\ B2 = b2.q
    BY PipeParts
  <2>2. PICK k \in Nat : k = Behind(0, g, a.q)
    BY <2>1, BehindNat
  <2>3. Second(t, n, k, h, b, s, c)
    BY <1>2, <2>2 DEF Chain
  <2>4. Block(t, n, k, h, B)
    BY <2>1, <2>3 DEF Second
  <2>5. Moved(h, B, h2, B2)
    BY <2>1
  <2>6. Block(t, n, k, h2, B2)
    BY <2>4, <2>5, BlockMoved
  <2>7. Behind(k, h2, B2) = Behind(k, h, B)
    BY <2>5, BehindMoved
  <2>8. Second(t, n, k, h2, b2, s, c)
    BY <2>1, <2>3, <2>6, <2>7 DEF Second
  <2> QED
    BY <2>2, <2>8 DEF Chain
<1> QED
  BY <1>1, <1>2

LEMMA WritesSecondChain ==
    ASSUME NEW t \in Seq(Nat), NEW n \in Nat, NEW g \in Seq(Nat), NEW h \in Seq(Nat),
           NEW s \in Seq(Nat), NEW a \in Pipe, NEW b \in Pipe, NEW c \in Pipe,
           NEW b2 \in Pipe, NEW s2 \in Seq(Nat),
           Chain(t, n, g, a, h, b, s, c), ~Stopped(b),
           Moved(b.q, s, b2.q, s2)
    PROVE  Chain(t, n, g, a, h, b2, s2, c)
<1>1. CASE Stopped(a)
  BY <1>1 DEF Chain
<1>2. CASE ~Stopped(a)
  <2>1. PICK A \in Seq(Nat), B \in Seq(Nat), B2 \in Seq(Nat), C \in Seq(Nat) :
            A = a.q /\ B = b.q /\ B2 = b2.q /\ C = c.q
    BY PipeParts
  <2>2. PICK k \in Nat : k = Behind(0, g, a.q)
    BY <2>1, BehindNat
  <2>3. Block(t, n, k, h, B) /\ Third(t, n, Behind(k, h, B), s, c)
    BY <1>2, <2>1, <2>2 DEF Chain, Second
  <2>4. Block(t, n, Behind(k, h, B), s, C)
    BY <2>1, <2>3 DEF Third
  <2>5. Moved(B, s, B2, s2)
    BY <2>1
  <2>6. Block(t, n, k, h, B2)
    BY <2>3, <2>4, <2>5, BlockGrows
  <2>7. Block(t, n, Behind(k, h, B2), s2, C)
    BY <2>3, <2>4, <2>5, BlockGrows
  <2>8. Beyond(k, h, B2, s2, C) = Beyond(k, h, B, s, C)
    <3>1. \A l \in Nat, x, z \in Seq(Nat) : Beyond(l, x, B2, s2, z) = Beyond(l, x, B, s, z)
      BY <2>5, BehindGrows
    <3> QED
      BY <3>1
  <2>9. Third(t, n, Behind(k, h, B2), s2, c)
    BY <2>1, <2>3, <2>7, <2>8 DEF Third, Beyond
  <2>10. Second(t, n, k, h, b2, s2, c)
    BY <2>1, <2>6, <2>9 DEF Second
  <2> QED
    BY <2>2, <2>10 DEF Chain
<1> QED
  BY <1>1, <1>2

LEMMA ReadsSecondChain ==
    ASSUME NEW t \in Seq(Nat), NEW n \in Nat, NEW g \in Seq(Nat), NEW h \in Seq(Nat),
           NEW s \in Seq(Nat), NEW a \in Pipe, NEW b \in Pipe, NEW c \in Pipe,
           NEW c2 \in Pipe, NEW s2 \in Seq(Nat),
           Chain(t, n, g, a, h, b, s, c),
           Moved(s, c.q, s2, c2.q), Stopped(c2) <=> Stopped(c)
    PROVE  Chain(t, n, g, a, h, b, s2, c2)
<1>1. CASE Stopped(a) \/ Stopped(b)
  BY <1>1 DEF Chain, Second
<1>2. CASE ~Stopped(a) /\ ~Stopped(b)
  <2>1. PICK C \in Seq(Nat), C2 \in Seq(Nat) : C = c.q /\ C2 = c2.q
    BY PipeParts
  <2>2. PICK k \in Nat : k = Behind(Behind(0, g, a.q), h, b.q)
    BY PipeParts, BehindNat
  <2>3. Third(t, n, k, s, c)
    BY <1>2, <2>2 DEF Chain, Second
  <2>4. Block(t, n, k, s, C)
    BY <2>1, <2>3 DEF Third
  <2>5. Moved(s, C, s2, C2)
    BY <2>1
  <2>6. Block(t, n, k, s2, C2)
    BY <2>4, <2>5, BlockMoved
  <2>7. Behind(k, s2, C2) = Behind(k, s, C)
    BY <2>5, BehindMoved
  <2>8. Third(t, n, k, s2, c2)
    BY <2>1, <2>3, <2>6, <2>7 DEF Third
  <2> QED
    BY <2>2, <2>8 DEF Chain, Second
<1> QED
  BY <1>1, <1>2

LEMMA SendsChain ==
    ASSUME NEW t \in Seq(Nat), NEW n \in Nat, NEW g \in Seq(Nat), NEW h \in Seq(Nat),
           NEW s \in Seq(Nat), NEW a \in Pipe, NEW b \in Pipe, NEW c \in Pipe, NEW c2 \in Pipe,
           Chain(t, n, g, a, h, b, s, c), ~Stopped(c), n + 1 <= Len(t),
           c2.q = Append(c.q, t[n + 1])
    PROVE  Chain(t, n + 1, g, a, h, b, s, c2)
<1>1. PICK A \in Seq(Nat), B \in Seq(Nat), C \in Seq(Nat), C2 \in Seq(Nat) :
          A = a.q /\ B = b.q /\ C = c.q /\ C2 = c2.q
  BY PipeParts
<1>2. PICK k \in Nat : k = Behind(0, g, A)
  BY BehindNat
<1>3. 0 \in Nat /\ Block(t, n, 0, g, A)
  BY <1>1 DEF Chain
<1>4. Block(t, n + 1, 0, g, A)
  BY <1>3, BlockMore
<1>5. CASE Stopped(a)
  BY <1>1, <1>4, <1>5 DEF Chain
<1>6. CASE ~Stopped(a)
  <2>1. Second(t, n, k, h, b, s, c)
    BY <1>1, <1>2, <1>6 DEF Chain
  <2>2. Block(t, n, k, h, B)
    BY <1>1, <2>1 DEF Second
  <2>3. Block(t, n + 1, k, h, B)
    BY <2>2, BlockMore
  <2>4. ASSUME ~Stopped(b) PROVE Third(t, n + 1, Behind(k, h, B), s, c2)
    <3>1. PICK l \in Nat : l = Behind(k, h, B)
      BY BehindNat
    <3>2. Block(t, n, l, s, C) /\ Behind(l, s, C) = n
      BY <1>1, <2>1, <2>4, <3>1 DEF Second, Third
    <3>3. PICK i \in Nat, j \in Nat, u \in Nat : i = l + Len(s) /\ j = Len(C) /\ u = Len(t)
      BY BehindNat
    <3>4. i + j = n
      BY <3>2, <3>3 DEF Behind
    <3>5. C2 = Append(C, t[n + 1]) /\ t[n + 1] \in Nat
      BY <1>1
    <3>6. Len(C2) = j + 1 /\ C2[j + 1] = t[n + 1] /\ \A m \in 1 .. j : C2[m] = C[m]
      BY <3>3, <3>5, AppendProperties
    <3>7. \A m \in 1 .. j : C[m] = t[i + m]
      BY <3>2, <3>3 DEF Block, At
    <3>8. i + (j + 1) = n + 1 /\ n + 1 <= u
      <4>1. n + 1 <= u
        BY <3>3
      <4>2. i + (j + 1) = n + 1
        BY <3>4
      <4> QED
        BY <4>1, <4>2
    <3>9. \A m \in 1 .. j + 1 : C2[m] = t[i + m]
      <4> TAKE m \in 1 .. j + 1
      <4>1. CASE m = j + 1
        BY <3>6, <3>8, <4>1
      <4>2. CASE m # j + 1
        <5>1. m \in 1 .. j
          BY <4>2
        <5> QED
          BY <3>6, <3>7, <5>1
      <4> QED
        BY <4>1, <4>2
    <3>10. At(C2, i, t)
      BY <3>3, <3>6, <3>8, <3>9 DEF At
    <3>11. Behind(l, s, C2) = n + 1
      BY <3>3, <3>6, <3>8 DEF Behind
    <3>12. Block(t, n + 1, l, s, C2)
      BY <3>2, <3>3, <3>10, <3>11 DEF Block
    <3> QED
      BY <1>1, <3>1, <3>11, <3>12 DEF Third
  <2>5. Second(t, n + 1, k, h, b, s, c2)
    BY <1>1, <2>3, <2>4 DEF Second
  <2> QED
    BY <1>1, <1>2, <1>4, <2>5 DEF Chain
<1> QED
  BY <1>5, <1>6

(* What is sent to a connection that has ended is lost. *)
LEMMA CountsChain ==
    ASSUME NEW t \in Seq(Nat), NEW n \in Nat, NEW g \in Seq(Nat), NEW h \in Seq(Nat),
           NEW s \in Seq(Nat), NEW a \in Pipe, NEW b \in Pipe, NEW c \in Pipe,
           Chain(t, n, g, a, h, b, s, c), Stopped(c)
    PROVE  Chain(t, n + 1, g, a, h, b, s, c)
<1>1. PICK A \in Seq(Nat), B \in Seq(Nat), C \in Seq(Nat) : A = a.q /\ B = b.q /\ C = c.q
  BY PipeParts
<1>2. PICK k \in Nat, l \in Nat : k = Behind(0, g, A) /\ l = Behind(k, h, B)
  BY BehindNat
<1>3. 0 \in Nat /\ Block(t, n, 0, g, A)
  BY <1>1 DEF Chain
<1>4. Block(t, n + 1, 0, g, A)
  BY <1>3, BlockMore
<1>5. ASSUME ~Stopped(a) PROVE Second(t, n + 1, k, h, b, s, c)
  <2>1. Block(t, n, k, h, B) /\ (~Stopped(b) => Third(t, n, l, s, c))
    BY <1>1, <1>2, <1>5 DEF Chain, Second
  <2>2. Block(t, n + 1, k, h, B)
    BY <2>1, BlockMore
  <2>3. ASSUME ~Stopped(b) PROVE Third(t, n + 1, l, s, c)
    <3>1. Block(t, n, l, s, C)
      BY <1>1, <2>1, <2>3 DEF Third
    <3>2. Block(t, n + 1, l, s, C)
      BY <3>1, BlockMore
    <3> QED
      BY <1>1, <3>2 DEF Third
  <2> QED
    BY <1>1, <1>2, <2>2, <2>3 DEF Second
<1> QED
  BY <1>1, <1>2, <1>4, <1>5 DEF Chain

(* y is x, or has ended and lost some of its last bytes. *)
Less(x, y) == y = x \/ (Stopped(y) /\ Start(y.q, x.q))

LEMMA LossChain ==
    ASSUME NEW t \in Seq(Nat), NEW n \in Nat, NEW g \in Seq(Nat), NEW h \in Seq(Nat),
           NEW s \in Seq(Nat), NEW a \in Pipe, NEW b \in Pipe, NEW c \in Pipe,
           NEW a2 \in Pipe, NEW b2 \in Pipe, NEW c2 \in Pipe,
           NEW h2 \in Seq(Nat), NEW s2 \in Seq(Nat),
           Chain(t, n, g, a, h, b, s, c),
           Less(a, a2), Less(b, b2), Less(c, c2),
           h2 = h \/ Stopped(a2), s2 = s \/ Stopped(b2)
    PROVE  Chain(t, n, g, a2, h2, b2, s2, c2)
<1>1. PICK A \in Seq(Nat), B \in Seq(Nat), C \in Seq(Nat) : A = a.q /\ B = b.q /\ C = c.q
  BY PipeParts
<1>2. PICK k \in Nat, l \in Nat : k = Behind(0, g, A) /\ l = Behind(k, h, B)
  BY BehindNat
<1>3. PICK A2 \in Seq(Nat), B2 \in Seq(Nat), C2 \in Seq(Nat) : A2 = a2.q /\ B2 = b2.q /\ C2 = c2.q
  BY PipeParts
<1>4. /\ A2 = A \/ Start(A2, A)
      /\ B2 = B \/ Start(B2, B)
      /\ C2 = C \/ Start(C2, C)
  BY <1>1, <1>3 DEF Less
<1>5. 0 \in Nat /\ Block(t, n, 0, g, A)
  BY <1>1 DEF Chain
<1>6. Block(t, n, 0, g, A2)
  BY <1>4, <1>5, BlockLess
<1>7. ASSUME ~Stopped(a2) PROVE Second(t, n, Behind(0, g, A2), h2, b2, s2, c2)
  <2>1. a2 = a /\ ~Stopped(a) /\ h2 = h /\ A2 = A
    BY <1>1, <1>3, <1>7 DEF Less
  <2>2. Block(t, n, k, h, B) /\ (~Stopped(b) => Third(t, n, l, s, c))
    BY <1>1, <1>2, <2>1 DEF Chain, Second
  <2>3. Block(t, n, k, h, B2)
    BY <1>4, <2>2, BlockLess
  <2>4. ASSUME ~Stopped(b2) PROVE Third(t, n, Behind(k, h, B2), s2, c2)
    <3>1. b2 = b /\ ~Stopped(b) /\ s2 = s /\ B2 = B
      BY <1>1, <1>3, <2>4 DEF Less
    <3>2. Block(t, n, l, s, C) /\ (~Stopped(c) => Behind(l, s, C) = n)
      BY <1>1, <2>2, <3>1 DEF Third
    <3>3. Block(t, n, l, s, C2)
      BY <1>4, <3>2, BlockLess
    <3>4. ~Stopped(c2) => c2 = c /\ C2 = C
      BY <1>1, <1>3 DEF Less
    <3> QED
      BY <1>2, <1>3, <3>1, <3>2, <3>3, <3>4 DEF Third
  <2>5. Second(t, n, k, h, b2, s2, c2)
    BY <1>3, <2>3, <2>4 DEF Second
  <2> QED
    BY <1>2, <2>1, <2>5
<1> QED
  BY <1>3, <1>6, <1>7 DEF Chain

(* A chain before anything is sent, but for an answer. *)
LEMMA FreshChain ==
    ASSUME NEW t \in Seq(Nat), NEW h \in Seq(Nat), NEW e \in Seq(Nat),
           NEW a \in Pipe, NEW b \in Pipe, NEW c \in Pipe,
           e = <<>>, a.q = e, b.q = e, c.q = e, At(h, 0, t)
    PROVE  Chain(t, Len(h), e, a, h, b, e, c)
<1>1. PICK n \in Nat, u \in Nat : n = Len(h) /\ u = Len(t)
  OBVIOUS
<1>2. Len(e) = 0 /\ n <= u
  BY <1>1, EmptySeq DEF At
<1>3. \A k \in Nat : k + Len(e) = k
  BY <1>2
<1>4. \A k \in Nat : k <= u => At(e, k, t)
  BY <1>1, <1>2, <1>3 DEF At
<1>5. Behind(0, e, e) = 0 /\ Behind(0, h, e) = n /\ Behind(n, e, e) = n
  BY <1>1, <1>2, <1>3 DEF Behind
<1>6. At(e, 0, t) /\ At(e, n, t) /\ At(e, 0 + Len(h), t) /\ At(e, n + Len(e), t) /\ At(e, 0 + Len(e), t)
  BY <1>1, <1>2, <1>3, <1>4
<1>7. Block(t, n, 0, e, e) /\ Block(t, n, 0, h, e) /\ Block(t, n, n, e, e)
  BY <1>1, <1>2, <1>5, <1>6 DEF Block
<1>8. Third(t, n, n, e, c)
  BY <1>5, <1>7 DEF Third
<1>9. Second(t, n, 0, h, b, e, c)
  BY <1>5, <1>7, <1>8 DEF Second
<1> QED
  BY <1>1, <1>5, <1>7, <1>9 DEF Chain

-----------------------------------------------------------------------------
(* The texts.                                                              *)

LEMMA TextIs ==
    ASSUME NEW e \in Endpoint, NEW n \in Nat
    PROVE  /\ Text(e, n) \in Seq(Nat) /\ Len(Text(e, n)) = n
           /\ \A i \in 1 .. n : Text(e, n)[i] = Base(e) + i
<1>1. Base(e) \in Nat
  BY EndpointDirs
<1>2. \A i \in 1 .. n : Base(e) + i \in Nat
  BY <1>1
<1> QED
  BY <1>2 DEF Text

LEMMA OutTextIs ==
    /\ OutText \in Seq(Nat) /\ Len(OutText) = UserBytes /\ UserBytes \in Nat
    /\ \A i \in 1 .. UserBytes : OutText[i] = Base("user") + i
<1>1. UserBytes \in Nat
  BY ForwardingAssumption
<1> QED
  BY <1>1, TextIs, LinksAndDirs DEF OutText

(* An answer in front of a text. *)
LEMMA BackTextIs ==
    /\ TargetBytes \in Nat
    /\ Greeting \in Seq(Nat) /\ Len(Greeting) \in Nat
    /\ BackText \in Seq(Nat) /\ Len(BackText) = Len(Greeting) + TargetBytes
    /\ \A i \in 1 .. Len(Greeting) : BackText[i] = Greeting[i]
    /\ \A i \in 1 .. TargetBytes : BackText[Len(Greeting) + i] = Base("target") + i
    /\ At(Greeting, 0, BackText)
<1>1. TargetBytes \in Nat
  BY ForwardingAssumption
<1> DEFINE w == Text("target", TargetBytes)
<1>2. w \in Seq(Nat) /\ Len(w) = TargetBytes /\ \A i \in 1 .. TargetBytes : w[i] = Base("target") + i
  BY <1>1, TextIs, LinksAndDirs
<1>3. Greeting \in Seq(Nat) /\ Len(Greeting) \in Nat
  <2>1. <<200>> \in Seq(Nat) /\ <<>> \in Seq(Nat)
    OBVIOUS
  <2> QED
    BY <2>1 DEF Greeting
<1>4. BackText = Greeting \o w
  BY DEF BackText
<1> HIDE DEF w
<1>5. /\ BackText \in Seq(Nat) /\ Len(BackText) = Len(Greeting) + TargetBytes
      /\ \A i \in 1 .. Len(Greeting) + TargetBytes :
             BackText[i] = IF i <= Len(Greeting) THEN Greeting[i] ELSE w[i - Len(Greeting)]
  BY <1>2, <1>3, <1>4, ConcatProperties
<1>6. PICK m \in Nat : m = Len(Greeting)
  BY <1>3
<1>7. \A i \in 1 .. m : i \in 1 .. m + TargetBytes /\ i <= m /\ 0 + i = i
  BY <1>1
<1>8. \A i \in 1 .. m : BackText[i] = Greeting[i]
  BY <1>5, <1>6, <1>7
<1>9. \A i \in 1 .. TargetBytes : m + i \in 1 .. m + TargetBytes /\ ~(m + i <= m) /\ m + i - m = i
  BY <1>1
<1>10. \A i \in 1 .. TargetBytes : BackText[m + i] = Base("target") + i
  BY <1>2, <1>5, <1>6, <1>9
<1>11. 0 + m <= m + TargetBytes
  BY <1>1
<1>12. At(Greeting, 0, BackText)
  BY <1>5, <1>6, <1>7, <1>8, <1>11 DEF At
<1> QED
  BY <1>1, <1>3, <1>5, <1>6, <1>8, <1>10, <1>12

-----------------------------------------------------------------------------
(* The stations have their types.                                          *)

Stations ==
    /\ \A l \in Link, d \in Dir : net[l][d] \in Pipe /\ net[l][d].q \in Seq(Nat)
    /\ \A p \in Process, d \in Dir : held[p][d] \in Seq(Nat)
    /\ \A e \in Endpoint : got[e] \in Seq(Nat) /\ sent[e] \in Nat
    /\ Reply \in Seq(Nat)

LEMMA StationsTyped == TypeOK => Stations
<1> SUFFICES ASSUME TypeOK PROVE Stations
  OBVIOUS
<1>1. \A l \in Link, d \in Dir : net[l][d] \in Pipe /\ net[l][d].q \in Seq(Nat)
  BY TypedNow, NetParts DEF Typed
<1>2. \A p \in Process, d \in Dir : held[p][d] \in Seq(Nat)
  BY DEF TypeOK
<1>3. \A e \in Endpoint : got[e] \in Seq(Nat) /\ sent[e] \in Nat
  BY DEF TypeOK
<1>4. Reply \in Seq(Nat)
  <2>1. <<200>> \in Seq(Nat)
    OBVIOUS
  <2> QED
    BY <1>2, <2>1, LinksAndDirs DEF Reply
<1> QED
  BY <1>1, <1>2, <1>3, <1>4 DEF Stations

LEMMA StationsTypedNext == TypeOK' => Stations'
  BY StationsTyped, PTL

(* The constants behind the chains, for the lemmas about them. *)
LEMMA OutStations ==
    ASSUME Stations
    PROVE  /\ OutText \in Seq(Nat) /\ sent["user"] \in Nat /\ got["target"] \in Seq(Nat)
           /\ held["far"]["out"] \in Seq(Nat) /\ held["near"]["out"] \in Seq(Nat)
           /\ net["target"]["out"] \in Pipe /\ net["tunnel"]["out"] \in Pipe
           /\ net["user"]["out"] \in Pipe
  BY OutTextIs, LinksAndDirs DEF Stations

LEMMA BackStations ==
    ASSUME Stations
    PROVE  /\ BackText \in Seq(Nat) /\ Len(Greeting) + sent["target"] \in Nat
           /\ got["user"] \in Seq(Nat) /\ Reply \in Seq(Nat) /\ held["far"]["back"] \in Seq(Nat)
           /\ net["user"]["back"] \in Pipe /\ net["tunnel"]["back"] \in Pipe
           /\ net["target"]["back"] \in Pipe
<1>1. Len(Greeting) \in Nat /\ BackText \in Seq(Nat)
  BY BackTextIs
<1>2. sent["target"] \in Nat
  BY LinksAndDirs DEF Stations
<1>3. Len(Greeting) + sent["target"] \in Nat
  BY <1>1, <1>2
<1> QED
  BY <1>1, <1>3, LinksAndDirs DEF Stations

-----------------------------------------------------------------------------
(* Losses.                                                                 *)

(* What is left of direction d of connection l. *)
Lessened(l, d) == Less(net[l][d], net'[l][d])

LEMMA OutLoss ==
    ASSUME Stations, Stations', OutChain,
           sent'["user"] = sent["user"], got'["target"] = got["target"],
           Lessened("target", "out"), Lessened("tunnel", "out"), Lessened("user", "out"),
           held'["far"]["out"] = held["far"]["out"] \/ Stopped(net'["target"]["out"]),
           held'["near"]["out"] = held["near"]["out"] \/ Stopped(net'["tunnel"]["out"])
    PROVE  OutChain'
<1>1. PICK t \in Seq(Nat), n \in Nat, g \in Seq(Nat), h \in Seq(Nat), s \in Seq(Nat),
           a \in Pipe, b \in Pipe, c \in Pipe :
          /\ t = OutText /\ n = sent["user"] /\ g = got["target"]
          /\ h = held["far"]["out"] /\ s = held["near"]["out"]
          /\ a = net["target"]["out"] /\ b = net["tunnel"]["out"] /\ c = net["user"]["out"]
  BY OutStations
<1>2. PICK h2 \in Seq(Nat), s2 \in Seq(Nat), a2 \in Pipe, b2 \in Pipe, c2 \in Pipe :
          /\ h2 = held'["far"]["out"] /\ s2 = held'["near"]["out"]
          /\ a2 = net'["target"]["out"] /\ b2 = net'["tunnel"]["out"] /\ c2 = net'["user"]["out"]
  BY LinksAndDirs DEF Stations
<1>3. Chain(t, n, g, a, h, b, s, c)
  BY <1>1 DEF OutChain
<1>4. Less(a, a2) /\ Less(b, b2) /\ Less(c, c2)
  BY <1>1, <1>2 DEF Lessened
<1>5. (h2 = h \/ Stopped(a2)) /\ (s2 = s \/ Stopped(b2))
  BY <1>1, <1>2
<1>6. Chain(t, n, g, a2, h2, b2, s2, c2)
  BY <1>3, <1>4, <1>5, LossChain
<1>7. n = sent'["user"] /\ g = got'["target"]
  BY <1>1
<1> QED
  BY <1>1, <1>2, <1>6, <1>7 DEF OutChain, OutText

LEMMA BackLoss ==
    ASSUME Stations, Stations', BackChain, mode' = mode,
           sent'["target"] = sent["target"], got'["user"] = got["user"],
           Lessened("user", "back"), Lessened("tunnel", "back"), Lessened("target", "back"),
           Reply' = Reply \/ Stopped(net'["user"]["back"]),
           held'["far"]["back"] = held["far"]["back"] \/ Stopped(net'["tunnel"]["back"])
    PROVE  BackChain'
<1>1. PICK t \in Seq(Nat), n \in Nat, g \in Seq(Nat), h \in Seq(Nat), s \in Seq(Nat),
           a \in Pipe, b \in Pipe, c \in Pipe :
          /\ t = BackText /\ n = Len(Greeting) + sent["target"] /\ g = got["user"]
          /\ h = Reply /\ s = held["far"]["back"]
          /\ a = net["user"]["back"] /\ b = net["tunnel"]["back"] /\ c = net["target"]["back"]
  BY BackStations
<1>2. PICK h2 \in Seq(Nat), s2 \in Seq(Nat), a2 \in Pipe, b2 \in Pipe, c2 \in Pipe :
          /\ h2 = Reply' /\ s2 = held'["far"]["back"]
          /\ a2 = net'["user"]["back"] /\ b2 = net'["tunnel"]["back"]
          /\ c2 = net'["target"]["back"]
  BY LinksAndDirs DEF Stations
<1>3. Chain(t, n, g, a, h, b, s, c)
  BY <1>1 DEF BackChain
<1>4. Less(a, a2) /\ Less(b, b2) /\ Less(c, c2)
  BY <1>1, <1>2 DEF Lessened
<1>5. (h2 = h \/ Stopped(a2)) /\ (s2 = s \/ Stopped(b2))
  BY <1>1, <1>2
<1>6. Chain(t, n, g, a2, h2, b2, s2, c2)
  BY <1>3, <1>4, <1>5, LossChain
<1>7. Greeting' = Greeting /\ BackText' = BackText
  BY DEF Greeting, BackText
<1>8. t = BackText' /\ n = Len(Greeting') + sent'["target"] /\ g = got'["user"]
  BY <1>1, <1>7
<1> QED
  BY <1>2, <1>6, <1>8 DEF BackChain

Chains == OutChain /\ (near # "refused" => BackChain)

Losing == \A l \in Link, d \in Dir : Lessened(l, d)

LEMMA LosingChains ==
    ASSUME Stations, Stations', Chains, Losing,
           mode' = mode, sent' = sent, got' = got,
           \A p \in Process, d \in Dir :
               held'[p][d] = held[p][d] \/ Stopped(net'[Sink(p, d)][d]),
           near' # "refused" =>
               near # "refused" /\ (Reply' = Reply \/ Stopped(net'["user"]["back"]))
    PROVE  Chains'
<1>1. OutChain /\ (near # "refused" => BackChain)
  BY DEF Chains
<1>2. /\ sent'["user"] = sent["user"] /\ got'["target"] = got["target"]
      /\ sent'["target"] = sent["target"] /\ got'["user"] = got["user"]
  OBVIOUS
<1>3. /\ Lessened("target", "out") /\ Lessened("tunnel", "out") /\ Lessened("user", "out")
      /\ Lessened("user", "back") /\ Lessened("tunnel", "back") /\ Lessened("target", "back")
  BY LinksAndDirs DEF Losing
<1>4. /\ held'["far"]["out"] = held["far"]["out"] \/ Stopped(net'["target"]["out"])
      /\ held'["near"]["out"] = held["near"]["out"] \/ Stopped(net'["tunnel"]["out"])
      /\ held'["far"]["back"] = held["far"]["back"] \/ Stopped(net'["tunnel"]["back"])
  BY LinksAndDirs, SourcesAndSinks
<1>5. OutChain'
  BY <1>1, <1>2, <1>3, <1>4, OutLoss
<1>6. ASSUME near' # "refused" PROVE BackChain'
  BY <1>1, <1>2, <1>3, <1>4, <1>6, BackLoss
<1> QED
  BY <1>5, <1>6 DEF Chains

LEMMA LessOf ==
    ASSUME NEW x \in Pipe
    PROVE  /\ Less(x, x) /\ Less(x, Ended(x)) /\ Less(x, Reset(x)) /\ Less(x, Shut(x))
           /\ Stopped(x) => Less(x, Emptied(x))
           /\ \A y : Cut(x, y) => Less(x, y)
<1>1. x.q \in Seq(Nat)
  BY PipeParts
<1>2. Start(x.q, x.q) /\ Start(<<>>, x.q)
  <2>1. PICK e \in Seq(Nat) : e = <<>>
    BY EmptySeq
  <2>2. Len(e) = 0 /\ Len(x.q) \in Nat
    BY <1>1, <2>1, EmptySeq
  <2> QED
    BY <2>1, <2>2 DEF Start
<1>3. Less(x, x)
  BY DEF Less
<1>4. Less(x, Ended(x))
  BY <1>2 DEF Less, Ended, Stopped
<1>5. Less(x, Reset(x)) /\ Less(x, Shut(x))
  <2>1. Reset(x).fin /\ Shut(x).shut /\ Reset(x).q = <<>> /\ Shut(x).q = <<>>
    BY PipeFields
  <2> QED
    BY <1>2, <2>1 DEF Less, Stopped
<1>6. ASSUME Stopped(x) PROVE Less(x, Emptied(x))
  <2>1. Emptied(x).q = <<>> /\ Emptied(x).fin = x.fin /\ Emptied(x).shut = x.shut
    <3>1. PICK e : e = <<>>
      OBVIOUS
    <3>2. Emptied(x) = WithQueue(x, e)
      BY <3>1 DEF Emptied
    <3> QED
      BY <3>1, <3>2, PipeFields
  <2> QED
    BY <1>2, <1>6, <2>1 DEF Less, Stopped
<1>7. ASSUME NEW y, Cut(x, y) PROVE Less(x, y)
  <2>1. PICK k \in 0 .. Len(x.q) : y = [q |-> SubSeq(x.q, 1, k), fin |-> TRUE, shut |-> TRUE]
    BY <1>7 DEF Cut
  <2>2. PICK z : z = SubSeq(x.q, 1, k)
    OBVIOUS
  <2>3. Len(z) = k /\ \A i \in 1 .. k : z[i] = x.q[i]
    BY <1>1, <2>2, PrefixOf
  <2>4. k <= Len(x.q)
    BY <1>1
  <2>5. Start(z, x.q)
    BY <2>3, <2>4 DEF Start
  <2>6. y.q = z /\ y.fin
    BY <2>1, <2>2
  <2> QED
    BY <2>5, <2>6 DEF Less, Stopped
<1> QED
  BY <1>3, <1>4, <1>5, <1>6, <1>7

LEMMA LosingNet ==
    ASSUME net \in Nets
    PROVE  /\ net' = net => Losing
           /\ CutTo(net, net') => Losing
           /\ \A l \in Link, d \in Dir : ClosedTo(net, net', l, d) => Losing
           /\ \A l \in Link, d \in Dir : Changed(net, net', l, d, Ended(net[l][d])) => Losing
           /\ \A l \in Link, d \in Dir :
                  Stopped(net[l][d]) /\ Changed(net, net', l, d, Emptied(net[l][d])) => Losing
<1>1. \A l \in Link, d \in Dir : net[l][d] \in Pipe
  BY NetParts
<1>2. \A l \in Link, d \in Dir : Less(net[l][d], net[l][d])
  BY <1>1, LessOf
<1>3. ASSUME net' = net PROVE Losing
  BY <1>2, <1>3 DEF Losing, Lessened
<1>4. ASSUME CutTo(net, net') PROVE Losing
  <2>1. \A d \in Dir : Less(net["tunnel"][d], net'["tunnel"][d])
    BY <1>1, <1>4, LessOf, LinksAndDirs DEF CutTo
  <2> QED
    BY <1>2, <1>4, <2>1 DEF CutTo, Losing, Lessened
<1>5. ASSUME NEW l \in Link, NEW d \in Dir, ClosedTo(net, net', l, d) PROVE Losing
  <2>1. Less(net[l][d], net'[l][d])
    BY <1>1, <1>5, LessOf DEF ClosedTo
  <2>2. Less(net[l][Opposite(d)], net'[l][Opposite(d)])
    BY <1>1, <1>5, LessOf, OppositeDir DEF ClosedTo
  <2>3. \A k \in Link, e \in Dir : k # l => Less(net[k][e], net'[k][e])
    BY <1>2, <1>5 DEF ClosedTo
  <2> QED
    BY <2>1, <2>2, <2>3, OppositeDir DEF Losing, Lessened
<1>6. ASSUME NEW l \in Link, NEW d \in Dir, NEW x, Less(net[l][d], x), Changed(net, net', l, d, x)
      PROVE  Losing
  BY <1>2, <1>6 DEF Changed, Losing, Lessened
<1>7. \A l \in Link, d \in Dir : Changed(net, net', l, d, Ended(net[l][d])) => Losing
  BY <1>1, <1>6, LessOf
<1>8. \A l \in Link, d \in Dir :
          Stopped(net[l][d]) /\ Changed(net, net', l, d, Emptied(net[l][d])) => Losing
  BY <1>1, <1>6, LessOf
<1> QED
  BY <1>3, <1>4, <1>5, <1>7, <1>8

-----------------------------------------------------------------------------
(* Bytes that go on, in either direction.                                  *)

LEMMA OutGets ==
    ASSUME Stations, Stations', OutChain, sent'["user"] = sent["user"],
           held'["far"]["out"] = held["far"]["out"],
           net'["tunnel"]["out"] = net["tunnel"]["out"],
           held'["near"]["out"] = held["near"]["out"],
           net'["user"]["out"] = net["user"]["out"],
           Stopped(net'["target"]["out"]) <=> Stopped(net["target"]["out"]),
           Moved(got["target"], net["target"]["out"].q, got'["target"], net'["target"]["out"].q)
    PROVE  OutChain'
<1>1. PICK t \in Seq(Nat), n \in Nat, g \in Seq(Nat), h \in Seq(Nat), s \in Seq(Nat),
           a \in Pipe, b \in Pipe, c \in Pipe :
          /\ t = OutText /\ n = sent["user"] /\ g = got["target"]
          /\ h = held["far"]["out"] /\ s = held["near"]["out"]
          /\ a = net["target"]["out"] /\ b = net["tunnel"]["out"] /\ c = net["user"]["out"]
  BY OutStations
<1>2. Chain(t, n, g, a, h, b, s, c)
  BY <1>1 DEF OutChain
<1>3. PICK g2 \in Seq(Nat), a2 \in Pipe : g2 = got'["target"] /\ a2 = net'["target"]["out"]
  BY LinksAndDirs DEF Stations
<1>4. Moved(g, a.q, g2, a2.q)
  BY <1>1, <1>3
<1>5. Stopped(a2) <=> Stopped(a)
  BY <1>1, <1>3
<1>6. Chain(t, n, g2, a2, h, b, s, c)
  BY <1>2, <1>4, <1>5, GetsChain
<1>7. t = OutText' /\ n = sent'["user"]
  BY <1>1 DEF OutText
<1>8. /\ h = held'["far"]["out"] /\ b = net'["tunnel"]["out"]
      /\ s = held'["near"]["out"] /\ c = net'["user"]["out"]
  BY <1>1
<1> QED
  BY <1>3, <1>6, <1>7, <1>8 DEF OutChain

LEMMA OutWritesFirst ==
    ASSUME Stations, Stations', OutChain, sent'["user"] = sent["user"],
           got'["target"] = got["target"], net'["tunnel"]["out"] = net["tunnel"]["out"],
           held'["near"]["out"] = held["near"]["out"],
           net'["user"]["out"] = net["user"]["out"], ~Stopped(net["target"]["out"]),
           Moved(net["target"]["out"].q, held["far"]["out"], net'["target"]["out"].q, held'["far"]["out"])
    PROVE  OutChain'
<1>1. PICK t \in Seq(Nat), n \in Nat, g \in Seq(Nat), h \in Seq(Nat), s \in Seq(Nat),
           a \in Pipe, b \in Pipe, c \in Pipe :
          /\ t = OutText /\ n = sent["user"] /\ g = got["target"]
          /\ h = held["far"]["out"] /\ s = held["near"]["out"]
          /\ a = net["target"]["out"] /\ b = net["tunnel"]["out"] /\ c = net["user"]["out"]
  BY OutStations
<1>2. Chain(t, n, g, a, h, b, s, c)
  BY <1>1 DEF OutChain
<1>3. PICK a2 \in Pipe, h2 \in Seq(Nat) : a2 = net'["target"]["out"] /\ h2 = held'["far"]["out"]
  BY LinksAndDirs DEF Stations
<1>4. Moved(a.q, h, a2.q, h2)
  BY <1>1, <1>3
<1>5. ~Stopped(a)
  BY <1>1
<1>6. Chain(t, n, g, a2, h2, b, s, c)
  BY <1>2, <1>4, <1>5, WritesFirstChain
<1>7. t = OutText' /\ n = sent'["user"]
  BY <1>1 DEF OutText
<1>8. /\ g = got'["target"] /\ b = net'["tunnel"]["out"]
      /\ s = held'["near"]["out"] /\ c = net'["user"]["out"]
  BY <1>1
<1> QED
  BY <1>3, <1>6, <1>7, <1>8 DEF OutChain

LEMMA OutReadsFirst ==
    ASSUME Stations, Stations', OutChain, sent'["user"] = sent["user"],
           got'["target"] = got["target"], net'["target"]["out"] = net["target"]["out"],
           held'["near"]["out"] = held["near"]["out"],
           net'["user"]["out"] = net["user"]["out"],
           Stopped(net'["tunnel"]["out"]) <=> Stopped(net["tunnel"]["out"]),
           Moved(held["far"]["out"], net["tunnel"]["out"].q, held'["far"]["out"], net'["tunnel"]["out"].q)
    PROVE  OutChain'
<1>1. PICK t \in Seq(Nat), n \in Nat, g \in Seq(Nat), h \in Seq(Nat), s \in Seq(Nat),
           a \in Pipe, b \in Pipe, c \in Pipe :
          /\ t = OutText /\ n = sent["user"] /\ g = got["target"]
          /\ h = held["far"]["out"] /\ s = held["near"]["out"]
          /\ a = net["target"]["out"] /\ b = net["tunnel"]["out"] /\ c = net["user"]["out"]
  BY OutStations
<1>2. Chain(t, n, g, a, h, b, s, c)
  BY <1>1 DEF OutChain
<1>3. PICK h2 \in Seq(Nat), b2 \in Pipe : h2 = held'["far"]["out"] /\ b2 = net'["tunnel"]["out"]
  BY LinksAndDirs DEF Stations
<1>4. Moved(h, b.q, h2, b2.q)
  BY <1>1, <1>3
<1>5. Stopped(b2) <=> Stopped(b)
  BY <1>1, <1>3
<1>6. Chain(t, n, g, a, h2, b2, s, c)
  BY <1>2, <1>4, <1>5, ReadsFirstChain
<1>7. t = OutText' /\ n = sent'["user"]
  BY <1>1 DEF OutText
<1>8. /\ g = got'["target"] /\ a = net'["target"]["out"]
      /\ s = held'["near"]["out"] /\ c = net'["user"]["out"]
  BY <1>1
<1> QED
  BY <1>3, <1>6, <1>7, <1>8 DEF OutChain

LEMMA OutWritesSecond ==
    ASSUME Stations, Stations', OutChain, sent'["user"] = sent["user"],
           got'["target"] = got["target"], net'["target"]["out"] = net["target"]["out"],
           held'["far"]["out"] = held["far"]["out"],
           net'["user"]["out"] = net["user"]["out"], ~Stopped(net["tunnel"]["out"]),
           Moved(net["tunnel"]["out"].q, held["near"]["out"], net'["tunnel"]["out"].q, held'["near"]["out"])
    PROVE  OutChain'
<1>1. PICK t \in Seq(Nat), n \in Nat, g \in Seq(Nat), h \in Seq(Nat), s \in Seq(Nat),
           a \in Pipe, b \in Pipe, c \in Pipe :
          /\ t = OutText /\ n = sent["user"] /\ g = got["target"]
          /\ h = held["far"]["out"] /\ s = held["near"]["out"]
          /\ a = net["target"]["out"] /\ b = net["tunnel"]["out"] /\ c = net["user"]["out"]
  BY OutStations
<1>2. Chain(t, n, g, a, h, b, s, c)
  BY <1>1 DEF OutChain
<1>3. PICK b2 \in Pipe, s2 \in Seq(Nat) : b2 = net'["tunnel"]["out"] /\ s2 = held'["near"]["out"]
  BY LinksAndDirs DEF Stations
<1>4. Moved(b.q, s, b2.q, s2)
  BY <1>1, <1>3
<1>5. ~Stopped(b)
  BY <1>1
<1>6. Chain(t, n, g, a, h, b2, s2, c)
  BY <1>2, <1>4, <1>5, WritesSecondChain
<1>7. t = OutText' /\ n = sent'["user"]
  BY <1>1 DEF OutText
<1>8. /\ g = got'["target"] /\ a = net'["target"]["out"]
      /\ h = held'["far"]["out"] /\ c = net'["user"]["out"]
  BY <1>1
<1> QED
  BY <1>3, <1>6, <1>7, <1>8 DEF OutChain

LEMMA OutReadsSecond ==
    ASSUME Stations, Stations', OutChain, sent'["user"] = sent["user"],
           got'["target"] = got["target"], net'["target"]["out"] = net["target"]["out"],
           held'["far"]["out"] = held["far"]["out"],
           net'["tunnel"]["out"] = net["tunnel"]["out"],
           Stopped(net'["user"]["out"]) <=> Stopped(net["user"]["out"]),
           Moved(held["near"]["out"], net["user"]["out"].q, held'["near"]["out"], net'["user"]["out"].q)
    PROVE  OutChain'
<1>1. PICK t \in Seq(Nat), n \in Nat, g \in Seq(Nat), h \in Seq(Nat), s \in Seq(Nat),
           a \in Pipe, b \in Pipe, c \in Pipe :
          /\ t = OutText /\ n = sent["user"] /\ g = got["target"]
          /\ h = held["far"]["out"] /\ s = held["near"]["out"]
          /\ a = net["target"]["out"] /\ b = net["tunnel"]["out"] /\ c = net["user"]["out"]
  BY OutStations
<1>2. Chain(t, n, g, a, h, b, s, c)
  BY <1>1 DEF OutChain
<1>3. PICK s2 \in Seq(Nat), c2 \in Pipe : s2 = held'["near"]["out"] /\ c2 = net'["user"]["out"]
  BY LinksAndDirs DEF Stations
<1>4. Moved(s, c.q, s2, c2.q)
  BY <1>1, <1>3
<1>5. Stopped(c2) <=> Stopped(c)
  BY <1>1, <1>3
<1>6. Chain(t, n, g, a, h, b, s2, c2)
  BY <1>2, <1>4, <1>5, ReadsSecondChain
<1>7. t = OutText' /\ n = sent'["user"]
  BY <1>1 DEF OutText
<1>8. /\ g = got'["target"] /\ a = net'["target"]["out"]
      /\ h = held'["far"]["out"] /\ b = net'["tunnel"]["out"]
  BY <1>1
<1> QED
  BY <1>3, <1>6, <1>7, <1>8 DEF OutChain

LEMMA OutSends ==
    ASSUME Stations, Stations', OutChain, sent'["user"] = sent["user"] + 1,
           got'["target"] = got["target"], net'["target"]["out"] = net["target"]["out"],
           held'["far"]["out"] = held["far"]["out"],
           net'["tunnel"]["out"] = net["tunnel"]["out"],
           held'["near"]["out"] = held["near"]["out"], ~Stopped(net["user"]["out"]),
           sent["user"] < UserBytes,
           net'["user"]["out"].q = Append(net["user"]["out"].q, Base("user") + sent["user"] + 1)
    PROVE  OutChain'
<1>1. PICK t \in Seq(Nat), n \in Nat, g \in Seq(Nat), h \in Seq(Nat), s \in Seq(Nat),
           a \in Pipe, b \in Pipe, c \in Pipe :
          /\ t = OutText /\ n = sent["user"] /\ g = got["target"]
          /\ h = held["far"]["out"] /\ s = held["near"]["out"]
          /\ a = net["target"]["out"] /\ b = net["tunnel"]["out"] /\ c = net["user"]["out"]
  BY OutStations
<1>2. Chain(t, n, g, a, h, b, s, c)
  BY <1>1 DEF OutChain
<1>3. PICK c2 \in Pipe : c2 = net'["user"]["out"]
  BY LinksAndDirs DEF Stations
<1>4. n + 1 <= Len(t) /\ t[n + 1] = Base("user") + (n + 1)
  <2>1. n + 1 \in 1 .. UserBytes /\ UserBytes \in Nat
    BY <1>1, OutTextIs
  <2> QED
    BY <1>1, <2>1, OutTextIs
<1>5. c2.q = Append(c.q, t[n + 1]) /\ ~Stopped(c)
  <2>1. Base("user") + n + 1 = Base("user") + (n + 1)
    BY EndpointDirs, LinksAndDirs
  <2> QED
    BY <1>1, <1>3, <1>4, <2>1
<1>6. Chain(t, n + 1, g, a, h, b, s, c2)
  BY <1>2, <1>4, <1>5, SendsChain
<1>7. t = OutText' /\ n + 1 = sent'["user"]
  BY <1>1 DEF OutText
<1>8. /\ g = got'["target"] /\ a = net'["target"]["out"]
      /\ h = held'["far"]["out"] /\ b = net'["tunnel"]["out"]
      /\ s = held'["near"]["out"]
  BY <1>1
<1> QED
  BY <1>3, <1>6, <1>7, <1>8 DEF OutChain

LEMMA OutCounts ==
    ASSUME Stations, Stations', OutChain, sent'["user"] = sent["user"] + 1,
           got'["target"] = got["target"], net'["target"]["out"] = net["target"]["out"],
           held'["far"]["out"] = held["far"]["out"],
           net'["tunnel"]["out"] = net["tunnel"]["out"],
           held'["near"]["out"] = held["near"]["out"],
           net'["user"]["out"] = net["user"]["out"], Stopped(net["user"]["out"])
    PROVE  OutChain'
<1>1. PICK t \in Seq(Nat), n \in Nat, g \in Seq(Nat), h \in Seq(Nat), s \in Seq(Nat),
           a \in Pipe, b \in Pipe, c \in Pipe :
          /\ t = OutText /\ n = sent["user"] /\ g = got["target"]
          /\ h = held["far"]["out"] /\ s = held["near"]["out"]
          /\ a = net["target"]["out"] /\ b = net["tunnel"]["out"] /\ c = net["user"]["out"]
  BY OutStations
<1>2. Chain(t, n, g, a, h, b, s, c)
  BY <1>1 DEF OutChain
<1>3. Stopped(c)
  BY <1>1
<1>4. Chain(t, n + 1, g, a, h, b, s, c)
  BY <1>2, <1>3, CountsChain
<1>5. t = OutText' /\ n + 1 = sent'["user"]
  BY <1>1 DEF OutText
<1>6. /\ g = got'["target"] /\ a = net'["target"]["out"]
      /\ h = held'["far"]["out"] /\ b = net'["tunnel"]["out"]
      /\ s = held'["near"]["out"] /\ c = net'["user"]["out"]
  BY <1>1
<1> QED
  BY <1>4, <1>5, <1>6 DEF OutChain

LEMMA BackGets ==
    ASSUME Stations, Stations', BackChain, mode' = mode, sent'["target"] = sent["target"],
           Reply' = Reply, net'["tunnel"]["back"] = net["tunnel"]["back"],
           held'["far"]["back"] = held["far"]["back"],
           net'["target"]["back"] = net["target"]["back"],
           Stopped(net'["user"]["back"]) <=> Stopped(net["user"]["back"]),
           Moved(got["user"], net["user"]["back"].q, got'["user"], net'["user"]["back"].q)
    PROVE  BackChain'
<1>1. PICK t \in Seq(Nat), n \in Nat, g \in Seq(Nat), h \in Seq(Nat), s \in Seq(Nat),
           a \in Pipe, b \in Pipe, c \in Pipe :
          /\ t = BackText /\ n = Len(Greeting) + sent["target"] /\ g = got["user"]
          /\ h = Reply /\ s = held["far"]["back"]
          /\ a = net["user"]["back"] /\ b = net["tunnel"]["back"] /\ c = net["target"]["back"]
  BY BackStations
<1>2. Chain(t, n, g, a, h, b, s, c)
  BY <1>1 DEF BackChain
<1>3. PICK g2 \in Seq(Nat), a2 \in Pipe : g2 = got'["user"] /\ a2 = net'["user"]["back"]
  BY LinksAndDirs DEF Stations
<1>4. Moved(g, a.q, g2, a2.q)
  BY <1>1, <1>3
<1>5. Stopped(a2) <=> Stopped(a)
  BY <1>1, <1>3
<1>6. Chain(t, n, g2, a2, h, b, s, c)
  BY <1>2, <1>4, <1>5, GetsChain
<1>7. t = BackText' /\ n = Len(Greeting') + sent'["target"]
  <2>1. Greeting' = Greeting /\ BackText' = BackText
    BY DEF Greeting, BackText
  <2> QED
    BY <1>1, <2>1
<1>8. /\ h = Reply' /\ b = net'["tunnel"]["back"]
      /\ s = held'["far"]["back"] /\ c = net'["target"]["back"]
  BY <1>1
<1> QED
  BY <1>3, <1>6, <1>7, <1>8 DEF BackChain

LEMMA BackWritesFirst ==
    ASSUME Stations, Stations', BackChain, mode' = mode, sent'["target"] = sent["target"],
           got'["user"] = got["user"], net'["tunnel"]["back"] = net["tunnel"]["back"],
           held'["far"]["back"] = held["far"]["back"],
           net'["target"]["back"] = net["target"]["back"], ~Stopped(net["user"]["back"]),
           Moved(net["user"]["back"].q, Reply, net'["user"]["back"].q, Reply')
    PROVE  BackChain'
<1>1. PICK t \in Seq(Nat), n \in Nat, g \in Seq(Nat), h \in Seq(Nat), s \in Seq(Nat),
           a \in Pipe, b \in Pipe, c \in Pipe :
          /\ t = BackText /\ n = Len(Greeting) + sent["target"] /\ g = got["user"]
          /\ h = Reply /\ s = held["far"]["back"]
          /\ a = net["user"]["back"] /\ b = net["tunnel"]["back"] /\ c = net["target"]["back"]
  BY BackStations
<1>2. Chain(t, n, g, a, h, b, s, c)
  BY <1>1 DEF BackChain
<1>3. PICK a2 \in Pipe, h2 \in Seq(Nat) : a2 = net'["user"]["back"] /\ h2 = Reply'
  BY LinksAndDirs DEF Stations
<1>4. Moved(a.q, h, a2.q, h2)
  BY <1>1, <1>3
<1>5. ~Stopped(a)
  BY <1>1
<1>6. Chain(t, n, g, a2, h2, b, s, c)
  BY <1>2, <1>4, <1>5, WritesFirstChain
<1>7. t = BackText' /\ n = Len(Greeting') + sent'["target"]
  <2>1. Greeting' = Greeting /\ BackText' = BackText
    BY DEF Greeting, BackText
  <2> QED
    BY <1>1, <2>1
<1>8. /\ g = got'["user"] /\ b = net'["tunnel"]["back"]
      /\ s = held'["far"]["back"] /\ c = net'["target"]["back"]
  BY <1>1
<1> QED
  BY <1>3, <1>6, <1>7, <1>8 DEF BackChain

LEMMA BackReadsFirst ==
    ASSUME Stations, Stations', BackChain, mode' = mode, sent'["target"] = sent["target"],
           got'["user"] = got["user"], net'["user"]["back"] = net["user"]["back"],
           held'["far"]["back"] = held["far"]["back"],
           net'["target"]["back"] = net["target"]["back"],
           Stopped(net'["tunnel"]["back"]) <=> Stopped(net["tunnel"]["back"]),
           Moved(Reply, net["tunnel"]["back"].q, Reply', net'["tunnel"]["back"].q)
    PROVE  BackChain'
<1>1. PICK t \in Seq(Nat), n \in Nat, g \in Seq(Nat), h \in Seq(Nat), s \in Seq(Nat),
           a \in Pipe, b \in Pipe, c \in Pipe :
          /\ t = BackText /\ n = Len(Greeting) + sent["target"] /\ g = got["user"]
          /\ h = Reply /\ s = held["far"]["back"]
          /\ a = net["user"]["back"] /\ b = net["tunnel"]["back"] /\ c = net["target"]["back"]
  BY BackStations
<1>2. Chain(t, n, g, a, h, b, s, c)
  BY <1>1 DEF BackChain
<1>3. PICK h2 \in Seq(Nat), b2 \in Pipe : h2 = Reply' /\ b2 = net'["tunnel"]["back"]
  BY LinksAndDirs DEF Stations
<1>4. Moved(h, b.q, h2, b2.q)
  BY <1>1, <1>3
<1>5. Stopped(b2) <=> Stopped(b)
  BY <1>1, <1>3
<1>6. Chain(t, n, g, a, h2, b2, s, c)
  BY <1>2, <1>4, <1>5, ReadsFirstChain
<1>7. t = BackText' /\ n = Len(Greeting') + sent'["target"]
  <2>1. Greeting' = Greeting /\ BackText' = BackText
    BY DEF Greeting, BackText
  <2> QED
    BY <1>1, <2>1
<1>8. /\ g = got'["user"] /\ a = net'["user"]["back"]
      /\ s = held'["far"]["back"] /\ c = net'["target"]["back"]
  BY <1>1
<1> QED
  BY <1>3, <1>6, <1>7, <1>8 DEF BackChain

LEMMA BackWritesSecond ==
    ASSUME Stations, Stations', BackChain, mode' = mode, sent'["target"] = sent["target"],
           got'["user"] = got["user"], net'["user"]["back"] = net["user"]["back"],
           Reply' = Reply, net'["target"]["back"] = net["target"]["back"],
           ~Stopped(net["tunnel"]["back"]),
           Moved(net["tunnel"]["back"].q, held["far"]["back"], net'["tunnel"]["back"].q, held'["far"]["back"])
    PROVE  BackChain'
<1>1. PICK t \in Seq(Nat), n \in Nat, g \in Seq(Nat), h \in Seq(Nat), s \in Seq(Nat),
           a \in Pipe, b \in Pipe, c \in Pipe :
          /\ t = BackText /\ n = Len(Greeting) + sent["target"] /\ g = got["user"]
          /\ h = Reply /\ s = held["far"]["back"]
          /\ a = net["user"]["back"] /\ b = net["tunnel"]["back"] /\ c = net["target"]["back"]
  BY BackStations
<1>2. Chain(t, n, g, a, h, b, s, c)
  BY <1>1 DEF BackChain
<1>3. PICK b2 \in Pipe, s2 \in Seq(Nat) : b2 = net'["tunnel"]["back"] /\ s2 = held'["far"]["back"]
  BY LinksAndDirs DEF Stations
<1>4. Moved(b.q, s, b2.q, s2)
  BY <1>1, <1>3
<1>5. ~Stopped(b)
  BY <1>1
<1>6. Chain(t, n, g, a, h, b2, s2, c)
  BY <1>2, <1>4, <1>5, WritesSecondChain
<1>7. t = BackText' /\ n = Len(Greeting') + sent'["target"]
  <2>1. Greeting' = Greeting /\ BackText' = BackText
    BY DEF Greeting, BackText
  <2> QED
    BY <1>1, <2>1
<1>8. /\ g = got'["user"] /\ a = net'["user"]["back"]
      /\ h = Reply' /\ c = net'["target"]["back"]
  BY <1>1
<1> QED
  BY <1>3, <1>6, <1>7, <1>8 DEF BackChain

LEMMA BackReadsSecond ==
    ASSUME Stations, Stations', BackChain, mode' = mode, sent'["target"] = sent["target"],
           got'["user"] = got["user"], net'["user"]["back"] = net["user"]["back"],
           Reply' = Reply, net'["tunnel"]["back"] = net["tunnel"]["back"],
           Stopped(net'["target"]["back"]) <=> Stopped(net["target"]["back"]),
           Moved(held["far"]["back"], net["target"]["back"].q, held'["far"]["back"], net'["target"]["back"].q)
    PROVE  BackChain'
<1>1. PICK t \in Seq(Nat), n \in Nat, g \in Seq(Nat), h \in Seq(Nat), s \in Seq(Nat),
           a \in Pipe, b \in Pipe, c \in Pipe :
          /\ t = BackText /\ n = Len(Greeting) + sent["target"] /\ g = got["user"]
          /\ h = Reply /\ s = held["far"]["back"]
          /\ a = net["user"]["back"] /\ b = net["tunnel"]["back"] /\ c = net["target"]["back"]
  BY BackStations
<1>2. Chain(t, n, g, a, h, b, s, c)
  BY <1>1 DEF BackChain
<1>3. PICK s2 \in Seq(Nat), c2 \in Pipe : s2 = held'["far"]["back"] /\ c2 = net'["target"]["back"]
  BY LinksAndDirs DEF Stations
<1>4. Moved(s, c.q, s2, c2.q)
  BY <1>1, <1>3
<1>5. Stopped(c2) <=> Stopped(c)
  BY <1>1, <1>3
<1>6. Chain(t, n, g, a, h, b, s2, c2)
  BY <1>2, <1>4, <1>5, ReadsSecondChain
<1>7. t = BackText' /\ n = Len(Greeting') + sent'["target"]
  <2>1. Greeting' = Greeting /\ BackText' = BackText
    BY DEF Greeting, BackText
  <2> QED
    BY <1>1, <2>1
<1>8. /\ g = got'["user"] /\ a = net'["user"]["back"]
      /\ h = Reply' /\ b = net'["tunnel"]["back"]
  BY <1>1
<1> QED
  BY <1>3, <1>6, <1>7, <1>8 DEF BackChain

LEMMA BackSends ==
    ASSUME Stations, Stations', BackChain, mode' = mode,
           sent'["target"] = sent["target"] + 1, got'["user"] = got["user"],
           net'["user"]["back"] = net["user"]["back"], Reply' = Reply,
           net'["tunnel"]["back"] = net["tunnel"]["back"],
           held'["far"]["back"] = held["far"]["back"], ~Stopped(net["target"]["back"]),
           sent["target"] < TargetBytes,
           net'["target"]["back"].q = Append(net["target"]["back"].q, Base("target") + sent["target"] + 1)
    PROVE  BackChain'
<1>1. PICK t \in Seq(Nat), n \in Nat, g \in Seq(Nat), h \in Seq(Nat), s \in Seq(Nat),
           a \in Pipe, b \in Pipe, c \in Pipe :
          /\ t = BackText /\ n = Len(Greeting) + sent["target"] /\ g = got["user"]
          /\ h = Reply /\ s = held["far"]["back"]
          /\ a = net["user"]["back"] /\ b = net["tunnel"]["back"] /\ c = net["target"]["back"]
  BY BackStations
<1>2. Chain(t, n, g, a, h, b, s, c)
  BY <1>1 DEF BackChain
<1>3. PICK c2 \in Pipe : c2 = net'["target"]["back"]
  BY LinksAndDirs DEF Stations
<1>4. n + 1 <= Len(t) /\ t[n + 1] = Base("target") + (sent["target"] + 1)
  <2>1. PICK m \in Nat, i \in Nat : m = Len(Greeting) /\ i = sent["target"]
    BY BackTextIs, LinksAndDirs DEF Stations
  <2>2. i + 1 \in 1 .. TargetBytes /\ TargetBytes \in Nat
    <3>1. TargetBytes \in Nat
      BY BackTextIs
    <3>2. i < TargetBytes
      BY <2>1
    <3> QED
      BY <3>1, <3>2
  <2>3. n + 1 = m + (i + 1) /\ m + (i + 1) <= m + TargetBytes
    <3>1. n = m + i
      BY <1>1, <2>1
    <3>2. n + 1 = m + (i + 1)
      BY <3>1
    <3>3. m + (i + 1) <= m + TargetBytes
      BY <2>2
    <3> QED
      BY <3>2, <3>3
  <2>4. t[m + (i + 1)] = Base("target") + (i + 1)
    BY <1>1, <2>1, <2>2, BackTextIs
  <2>5. Len(t) = m + TargetBytes
    BY <1>1, <2>1, BackTextIs
  <2> QED
    BY <2>1, <2>3, <2>4, <2>5
<1>5. c2.q = Append(c.q, t[n + 1]) /\ ~Stopped(c)
  <2>1. Base("target") + sent["target"] + 1 = Base("target") + (sent["target"] + 1)
    BY EndpointDirs, LinksAndDirs DEF Stations
  <2> QED
    BY <1>1, <1>3, <1>4, <2>1
<1>6. Chain(t, n + 1, g, a, h, b, s, c2)
  BY <1>2, <1>4, <1>5, SendsChain
<1>7. t = BackText' /\ n + 1 = Len(Greeting') + sent'["target"]
  <2>1. Greeting' = Greeting /\ BackText' = BackText
    BY DEF Greeting, BackText
  <2>2. Len(Greeting) \in Nat /\ sent["target"] \in Nat
    BY BackTextIs, LinksAndDirs DEF Stations
  <2>3. Len(Greeting) + sent["target"] + 1 = Len(Greeting) + (sent["target"] + 1)
    BY <2>2
  <2> QED
    BY <1>1, <2>1, <2>3
<1>8. /\ g = got'["user"] /\ a = net'["user"]["back"]
      /\ h = Reply' /\ b = net'["tunnel"]["back"]
      /\ s = held'["far"]["back"]
  BY <1>1
<1> QED
  BY <1>3, <1>6, <1>7, <1>8 DEF BackChain

LEMMA BackCounts ==
    ASSUME Stations, Stations', BackChain, mode' = mode,
           sent'["target"] = sent["target"] + 1, got'["user"] = got["user"],
           net'["user"]["back"] = net["user"]["back"], Reply' = Reply,
           net'["tunnel"]["back"] = net["tunnel"]["back"],
           held'["far"]["back"] = held["far"]["back"],
           net'["target"]["back"] = net["target"]["back"], Stopped(net["target"]["back"])
    PROVE  BackChain'
<1>1. PICK t \in Seq(Nat), n \in Nat, g \in Seq(Nat), h \in Seq(Nat), s \in Seq(Nat),
           a \in Pipe, b \in Pipe, c \in Pipe :
          /\ t = BackText /\ n = Len(Greeting) + sent["target"] /\ g = got["user"]
          /\ h = Reply /\ s = held["far"]["back"]
          /\ a = net["user"]["back"] /\ b = net["tunnel"]["back"] /\ c = net["target"]["back"]
  BY BackStations
<1>2. Chain(t, n, g, a, h, b, s, c)
  BY <1>1 DEF BackChain
<1>3. Stopped(c)
  BY <1>1
<1>4. Chain(t, n + 1, g, a, h, b, s, c)
  BY <1>2, <1>3, CountsChain
<1>5. t = BackText' /\ n + 1 = Len(Greeting') + sent'["target"]
  <2>1. Greeting' = Greeting /\ BackText' = BackText
    BY DEF Greeting, BackText
  <2>2. Len(Greeting) \in Nat /\ sent["target"] \in Nat
    BY BackTextIs, LinksAndDirs DEF Stations
  <2>3. Len(Greeting) + sent["target"] + 1 = Len(Greeting) + (sent["target"] + 1)
    BY <2>2
  <2> QED
    BY <1>1, <2>1, <2>3
<1>6. /\ g = got'["user"] /\ a = net'["user"]["back"]
      /\ h = Reply' /\ b = net'["tunnel"]["back"]
      /\ s = held'["far"]["back"] /\ c = net'["target"]["back"]
  BY <1>1
<1> QED
  BY <1>4, <1>5, <1>6 DEF BackChain

-----------------------------------------------------------------------------
(* What the copies and the endpoints move.                                 *)

NetSame(d) == \A l \in Link : net'[l][d] = net[l][d]
HeldSame(d) == \A p \in Process : held'[p][d] = held[p][d]

(* Nothing else changes but direction d of connection l, what copy <<p, d>> holds. *)
NetOnly(l, d) == \A k \in Link, e \in Dir : k # l \/ e # d => net'[k][e] = net[k][e]
HeldOnly(p, d) == \A q \in Process, e \in Dir : q # p \/ e # d => held'[q][e] = held[q][e]

LEMMA OutSame ==
    ASSUME OutChain, sent'["user"] = sent["user"], got'["target"] = got["target"],
           NetSame("out"), HeldSame("out")
    PROVE  OutChain'
<1>1. /\ net'["target"]["out"] = net["target"]["out"]
      /\ net'["tunnel"]["out"] = net["tunnel"]["out"]
      /\ net'["user"]["out"] = net["user"]["out"]
      /\ held'["far"]["out"] = held["far"]["out"] /\ held'["near"]["out"] = held["near"]["out"]
  BY LinksAndDirs DEF NetSame, HeldSame
<1> QED
  BY <1>1 DEF OutChain, OutText

LEMMA BackSame ==
    ASSUME BackChain, Greeting' = Greeting, Reply' = Reply,
           sent'["target"] = sent["target"], got'["user"] = got["user"],
           NetSame("back"), held'["far"]["back"] = held["far"]["back"]
    PROVE  BackChain'
<1>1. /\ net'["target"]["back"] = net["target"]["back"]
      /\ net'["tunnel"]["back"] = net["tunnel"]["back"]
      /\ net'["user"]["back"] = net["user"]["back"]
  BY LinksAndDirs DEF NetSame
<1> QED
  BY <1>1 DEF BackChain, BackText

LEMMA HeldSet ==
    ASSUME CopyTyped, NEW p \in Process, NEW d \in Dir, NEW x,
           held' = [held EXCEPT ![p][d] = x]
    PROVE  held'[p][d] = x /\ HeldOnly(p, d)
<1>1. held \in [Process -> [Dir -> Seq(Nat)]]
  BY DEF CopyTyped
<1> QED
  BY <1>1 DEF HeldOnly

LEMMA OnlySame ==
    /\ \A l \in Link : NetOnly(l, "out") => NetSame("back")
    /\ \A l \in Link : NetOnly(l, "back") => NetSame("out")
    /\ \A p \in Process : HeldOnly(p, "out") => HeldSame("back")
    /\ \A p \in Process : HeldOnly(p, "back") => HeldSame("out")
    /\ net' = net => \A d \in Dir : NetSame(d)
    /\ held' = held => \A d \in Dir : HeldSame(d)
  BY LinksAndDirs DEF NetOnly, NetSame, HeldOnly, HeldSame

(* A queue gave its first byte away, or got one. *)
LEMMA TakenIs ==
    ASSUME NEW x
    PROVE  /\ Taken(x).q = Tail(x.q) /\ (Stopped(Taken(x)) <=> Stopped(x))
           /\ \A v : Added(x, v).q = Append(x.q, v) /\ (Stopped(Added(x, v)) <=> Stopped(x))
<1>1. ASSUME NEW s
      PROVE  WithQueue(x, s).q = s /\ (Stopped(WithQueue(x, s)) <=> Stopped(x))
  <2>1. WithQueue(x, s).q = s
    BY DEF WithQueue
  <2>2. WithQueue(x, s).fin = x.fin /\ WithQueue(x, s).shut = x.shut
    BY DEF WithQueue
  <2>3. Stopped(WithQueue(x, s)) <=> Stopped(x)
    BY <2>2 DEF Stopped
  <2> QED
    BY <2>1, <2>3
<1> QED
  BY <1>1 DEF Taken, Added

LEMMA CopyReadsMoves ==
    ASSUME TypeOK, CopyTyped, NEW p \in Process, NEW d \in Dir, NEW l \in Link,
           CopyReads(p, d), l = Source(p, d)
    PROVE  /\ Moved(held[p][d], net[l][d].q, held'[p][d], net'[l][d].q)
           /\ Stopped(net'[l][d]) <=> Stopped(net[l][d])
           /\ NetOnly(l, d) /\ HeldOnly(p, d)
           /\ sent' = sent /\ got' = got /\ mode' = mode /\ near' = near
<1>1. /\ Changed(net, net', l, d, Taken(net[l][d]))
      /\ held' = [held EXCEPT ![p][d] = <<Head(net[l][d].q)>>]
      /\ net[l][d].q # <<>>
  BY TypedNow, CopyReadsNet
<1>2. held[p][d] = <<>> /\ sent' = sent /\ got' = got /\ mode' = mode /\ near' = near
  BY DEF CopyReads, endVars
<1>3. held'[p][d] = <<Head(net[l][d].q)>> /\ HeldOnly(p, d)
  BY <1>1, HeldSet
<1>4. net'[l][d] = Taken(net[l][d]) /\ NetOnly(l, d)
  BY <1>1 DEF Changed, NetOnly
<1>5. net'[l][d].q = Tail(net[l][d].q) /\ (Stopped(net'[l][d]) <=> Stopped(net[l][d]))
  BY <1>4, TakenIs
<1>6. net[l][d].q \in Seq(Nat)
  BY StationsTyped DEF Stations
<1>7. Moved(<<>>, net[l][d].q, <<Head(net[l][d].q)>>, Tail(net[l][d].q))
  BY <1>1, <1>6, MovedFirst
<1>8. Moved(held[p][d], net[l][d].q, held'[p][d], net'[l][d].q)
  BY <1>2, <1>3, <1>5, <1>7
<1> QED
  BY <1>2, <1>3, <1>4, <1>5, <1>8

LEMMA CopyWritesMoves ==
    ASSUME TypeOK, CopyTyped, NEW p \in Process, NEW d \in Dir, NEW l \in Link,
           CopyWrites(p, d), l = Sink(p, d)
    PROVE  /\ Moved(net[l][d].q, held[p][d], net'[l][d].q, held'[p][d])
           /\ ~Stopped(net[l][d])
           /\ NetOnly(l, d) /\ HeldOnly(p, d)
           /\ sent' = sent /\ got' = got /\ mode' = mode /\ near' = near
<1>1. Changed(net, net', l, d, Added(net[l][d], Head(held[p][d])))
  BY TypedNow, CopyWritesNet
<1>2. /\ held[p][d] # <<>> /\ held' = [held EXCEPT ![p][d] = Tail(@)] /\ ~Stopped(net[l][d])
      /\ sent' = sent /\ got' = got /\ mode' = mode /\ near' = near
  BY DEF CopyWrites, endVars, CanWrite, Stopped
<1>3. held'[p][d] = Tail(held[p][d]) /\ HeldOnly(p, d)
  BY <1>2, HeldSet
<1>4. net'[l][d] = Added(net[l][d], Head(held[p][d])) /\ NetOnly(l, d)
  BY <1>1 DEF Changed, NetOnly
<1>5. net'[l][d].q = Append(net[l][d].q, Head(held[p][d]))
  BY <1>4, TakenIs
<1>6. net[l][d].q \in Seq(Nat) /\ held[p][d] \in Seq(Nat)
  BY StationsTyped DEF Stations
<1>7. Moved(net[l][d].q, held[p][d], Append(net[l][d].q, Head(held[p][d])), Tail(held[p][d]))
  BY <1>2, <1>6, MovedHead
<1>8. Moved(net[l][d].q, held[p][d], net'[l][d].q, held'[p][d])
  BY <1>3, <1>5, <1>7
<1> QED
  BY <1>2, <1>3, <1>4, <1>8

(* While a copy of the near process runs, the answer has been sent. *)
LEMMA ReplyIsHeld ==
    ASSUME Placed, near' = near, mode' = mode
    PROVE  /\ Answering' <=> Answering
           /\ (\E d \in Dir : copy["near"][d] = "on") =>
                  /\ near # "refused" /\ Reply = held["near"]["back"]
                  /\ Reply' = held'["near"]["back"]
           /\ HeldSame("back") => Reply' = Reply
<1>1. Answering' <=> Answering
  BY DEF Answering
<1>2. (\E d \in Dir : copy["near"][d] = "on") => near \in {"relay", "over"}
  BY DEF Placed
<1>3. near \in {"relay", "over"} => ~Answering /\ ~Answering'
  BY <1>1 DEF Answering
<1>4. HeldSame("back") => held'["near"]["back"] = held["near"]["back"]
  BY LinksAndDirs DEF HeldSame
<1> QED
  BY <1>1, <1>2, <1>3, <1>4 DEF Reply

-----------------------------------------------------------------------------
(* Every step keeps the chains.                                            *)

LEMMA CopyReadsChains ==
    ASSUME TypeOK, CopyTyped, Placed, Stations, Stations', Chains,
           NEW p \in Process, NEW d \in Dir, CopyReads(p, d)
    PROVE  Chains'
<1> DEFINE l == Source(p, d)
<1>1. l \in Link /\ copy[p][d] = "on"
  BY SourcesAndSinks DEF CopyReads
<1>2. /\ sent' = sent /\ got' = got /\ mode' = mode /\ near' = near
      /\ NetOnly(l, d) /\ HeldOnly(p, d)
  BY <1>1, CopyReadsMoves
<1>3. /\ Moved(held[p][d], net[l][d].q, held'[p][d], net'[l][d].q)
      /\ Stopped(net'[l][d]) <=> Stopped(net[l][d])
  BY <1>1, CopyReadsMoves
<1> HIDE DEF l
<1>4. /\ sent'["user"] = sent["user"] /\ got'["target"] = got["target"]
      /\ sent'["target"] = sent["target"] /\ got'["user"] = got["user"]
      /\ Greeting' = Greeting /\ (near' # "refused" => near # "refused")
  BY <1>2 DEF Greeting
<1>5. OutChain /\ (near # "refused" => BackChain)
  BY DEF Chains
<1>6. CASE d = "out"
  <2>1. NetSame("back") /\ HeldSame("back")
    BY <1>1, <1>2, <1>6, OnlySame
  <2>2. Reply' = Reply /\ held'["far"]["back"] = held["far"]["back"]
    BY <1>2, <2>1, ReplyIsHeld, LinksAndDirs DEF HeldSame
  <2>3. near' # "refused" => BackChain'
    BY <1>4, <1>5, <2>1, <2>2, BackSame
  <2>4. CASE p = "near"
    <3>1. l = "user"
      BY <1>6, <2>4, SourcesAndSinks DEF l
    <3>2. /\ net'["target"]["out"] = net["target"]["out"]
          /\ net'["tunnel"]["out"] = net["tunnel"]["out"]
          /\ held'["far"]["out"] = held["far"]["out"]
      BY <1>2, <1>6, <2>4, <3>1, LinksAndDirs DEF NetOnly, HeldOnly
    <3>3. OutChain'
      BY <1>3, <1>4, <1>5, <1>6, <2>4, <3>1, <3>2, OutReadsSecond
    <3> QED
      BY <2>3, <3>3 DEF Chains
  <2>5. CASE p = "far"
    <3>1. l = "tunnel"
      BY <1>6, <2>5, SourcesAndSinks DEF l
    <3>2. /\ net'["target"]["out"] = net["target"]["out"]
          /\ net'["user"]["out"] = net["user"]["out"]
          /\ held'["near"]["out"] = held["near"]["out"]
      BY <1>2, <1>6, <2>5, <3>1, LinksAndDirs DEF NetOnly, HeldOnly
    <3>3. OutChain'
      BY <1>3, <1>4, <1>5, <1>6, <2>5, <3>1, <3>2, OutReadsFirst
    <3> QED
      BY <2>3, <3>3 DEF Chains
  <2> QED
    BY <2>4, <2>5, LinksAndDirs
<1>7. CASE d = "back"
  <2>1. NetSame("out") /\ HeldSame("out")
    BY <1>1, <1>2, <1>7, OnlySame
  <2>2. OutChain'
    BY <1>4, <1>5, <2>1, OutSame
  <2>3. CASE p = "near"
    <3>1. l = "tunnel" /\ near # "refused" /\ Reply = held["near"]["back"] /\ Reply' = held'["near"]["back"]
      BY <1>1, <1>2, <1>7, <2>3, SourcesAndSinks, ReplyIsHeld DEF l
    <3>2. /\ net'["user"]["back"] = net["user"]["back"]
          /\ net'["target"]["back"] = net["target"]["back"]
          /\ held'["far"]["back"] = held["far"]["back"]
      BY <1>2, <1>7, <2>3, <3>1, LinksAndDirs DEF NetOnly, HeldOnly
    <3>3. BackChain /\ mode' = mode
      BY <1>2, <1>5, <3>1
    <3>4. BackChain'
      BY <1>3, <1>4, <1>7, <2>3, <3>1, <3>2, <3>3, BackReadsFirst
    <3> QED
      BY <2>2, <3>4 DEF Chains
  <2>4. CASE p = "far"
    <3>1. l = "target"
      BY <1>7, <2>4, SourcesAndSinks DEF l
    <3>2. /\ net'["user"]["back"] = net["user"]["back"]
          /\ net'["tunnel"]["back"] = net["tunnel"]["back"]
      BY <1>2, <1>7, <2>4, <3>1, LinksAndDirs DEF NetOnly, HeldOnly
    <3>3. Reply' = Reply
      <4>1. held'["near"]["back"] = held["near"]["back"]
        BY <1>2, <1>7, <2>4, LinksAndDirs DEF HeldOnly
      <4> QED
        BY <1>2, <4>1, ReplyIsHeld DEF Reply
    <3>4. ASSUME near' # "refused" PROVE BackChain'
      <4>1. BackChain /\ mode' = mode
        BY <1>2, <1>4, <1>5, <3>4
      <4> QED
        BY <1>3, <1>4, <1>7, <2>4, <3>1, <3>2, <3>3, <4>1, BackReadsSecond
    <3> QED
      BY <2>2, <3>4 DEF Chains
  <2> QED
    BY <2>3, <2>4, LinksAndDirs
<1> QED
  BY <1>6, <1>7, LinksAndDirs

LEMMA CopyWritesChains ==
    ASSUME TypeOK, CopyTyped, Placed, Stations, Stations', Chains,
           NEW p \in Process, NEW d \in Dir, CopyWrites(p, d)
    PROVE  Chains'
<1> DEFINE l == Sink(p, d)
<1>1. l \in Link /\ copy[p][d] = "on"
  BY SourcesAndSinks DEF CopyWrites
<1>2. /\ sent' = sent /\ got' = got /\ mode' = mode /\ near' = near
      /\ NetOnly(l, d) /\ HeldOnly(p, d)
  BY <1>1, CopyWritesMoves
<1>3. /\ Moved(net[l][d].q, held[p][d], net'[l][d].q, held'[p][d])
      /\ ~Stopped(net[l][d])
  BY <1>1, CopyWritesMoves
<1> HIDE DEF l
<1>4. /\ sent'["user"] = sent["user"] /\ got'["target"] = got["target"]
      /\ sent'["target"] = sent["target"] /\ got'["user"] = got["user"]
      /\ Greeting' = Greeting /\ (near' # "refused" => near # "refused")
  BY <1>2 DEF Greeting
<1>5. OutChain /\ (near # "refused" => BackChain)
  BY DEF Chains
<1>6. CASE d = "out"
  <2>1. NetSame("back") /\ HeldSame("back")
    BY <1>1, <1>2, <1>6, OnlySame
  <2>2. Reply' = Reply /\ held'["far"]["back"] = held["far"]["back"]
    BY <1>2, <2>1, ReplyIsHeld, LinksAndDirs DEF HeldSame
  <2>3. near' # "refused" => BackChain'
    BY <1>4, <1>5, <2>1, <2>2, BackSame
  <2>4. CASE p = "near"
    <3>1. l = "tunnel"
      BY <1>6, <2>4, SourcesAndSinks DEF l
    <3>2. /\ net'["target"]["out"] = net["target"]["out"]
          /\ net'["user"]["out"] = net["user"]["out"]
          /\ held'["far"]["out"] = held["far"]["out"]
      BY <1>2, <1>6, <2>4, <3>1, LinksAndDirs DEF NetOnly, HeldOnly
    <3>3. OutChain'
      BY <1>3, <1>4, <1>5, <1>6, <2>4, <3>1, <3>2, OutWritesSecond
    <3> QED
      BY <2>3, <3>3 DEF Chains
  <2>5. CASE p = "far"
    <3>1. l = "target"
      BY <1>6, <2>5, SourcesAndSinks DEF l
    <3>2. /\ net'["tunnel"]["out"] = net["tunnel"]["out"]
          /\ net'["user"]["out"] = net["user"]["out"]
          /\ held'["near"]["out"] = held["near"]["out"]
      BY <1>2, <1>6, <2>5, <3>1, LinksAndDirs DEF NetOnly, HeldOnly
    <3>3. OutChain'
      BY <1>3, <1>4, <1>5, <1>6, <2>5, <3>1, <3>2, OutWritesFirst
    <3> QED
      BY <2>3, <3>3 DEF Chains
  <2> QED
    BY <2>4, <2>5, LinksAndDirs
<1>7. CASE d = "back"
  <2>1. NetSame("out") /\ HeldSame("out")
    BY <1>1, <1>2, <1>7, OnlySame
  <2>2. OutChain'
    BY <1>4, <1>5, <2>1, OutSame
  <2>3. CASE p = "near"
    <3>1. l = "user" /\ near # "refused" /\ Reply = held["near"]["back"] /\ Reply' = held'["near"]["back"]
      BY <1>1, <1>2, <1>7, <2>3, SourcesAndSinks, ReplyIsHeld DEF l
    <3>2. /\ net'["tunnel"]["back"] = net["tunnel"]["back"]
          /\ net'["target"]["back"] = net["target"]["back"]
          /\ held'["far"]["back"] = held["far"]["back"]
      BY <1>2, <1>7, <2>3, <3>1, LinksAndDirs DEF NetOnly, HeldOnly
    <3>3. BackChain /\ mode' = mode
      BY <1>2, <1>5, <3>1
    <3>4. BackChain'
      BY <1>3, <1>4, <1>7, <2>3, <3>1, <3>2, <3>3, BackWritesFirst
    <3> QED
      BY <2>2, <3>4 DEF Chains
  <2>4. CASE p = "far"
    <3>1. l = "tunnel"
      BY <1>7, <2>4, SourcesAndSinks DEF l
    <3>2. /\ net'["user"]["back"] = net["user"]["back"]
          /\ net'["target"]["back"] = net["target"]["back"]
      BY <1>2, <1>7, <2>4, <3>1, LinksAndDirs DEF NetOnly, HeldOnly
    <3>3. Reply' = Reply
      <4>1. held'["near"]["back"] = held["near"]["back"]
        BY <1>2, <1>7, <2>4, LinksAndDirs DEF HeldOnly
      <4> QED
        BY <1>2, <4>1, ReplyIsHeld DEF Reply
    <3>4. ASSUME near' # "refused" PROVE BackChain'
      <4>1. BackChain /\ mode' = mode
        BY <1>2, <1>4, <1>5, <3>4
      <4> QED
        BY <1>3, <1>4, <1>7, <2>4, <3>1, <3>2, <3>3, <4>1, BackWritesSecond
    <3> QED
      BY <2>2, <3>4 DEF Chains
  <2> QED
    BY <2>3, <2>4, LinksAndDirs
<1> QED
  BY <1>6, <1>7, LinksAndDirs

LEMMA GetsChains ==
    ASSUME TypeOK, Placed, Stations, Stations', Chains, NEW e \in Endpoint, Gets(e)
    PROVE  Chains'
<1> DEFINE d == Opposite(Outward(e))
<1>1. /\ Changed(net, net', e, d, Taken(net[e][d])) /\ net[e][d].q # <<>>
      /\ got' = [got EXCEPT ![e] = Append(@, Head(net[e][d].q))]
  BY TypedNow, GetsNet
<1>2. sent' = sent /\ held' = held /\ mode' = mode /\ near' = near
  BY DEF Gets, copyVars
<1>3. e \in Link /\ d \in Dir
  BY EndpointDirs
<1> HIDE DEF d
<1>4. net'[e][d] = Taken(net[e][d]) /\ NetOnly(e, d)
  BY <1>1, <1>3 DEF Changed, NetOnly
<1>5. net'[e][d].q = Tail(net[e][d].q) /\ (Stopped(net'[e][d]) <=> Stopped(net[e][d]))
  BY <1>4, TakenIs
<1>6. /\ got'[e] = Append(got[e], Head(net[e][d].q))
      /\ \A f \in Endpoint : f # e => got'[f] = got[f]
  <2>1. got \in [Endpoint -> Seq(Nat)]
    BY DEF TypeOK
  <2> QED
    BY <1>1, <2>1
<1>7. net[e][d].q \in Seq(Nat) /\ got[e] \in Seq(Nat)
  BY <1>3 DEF Stations
<1>8. Moved(got[e], net[e][d].q, Append(got[e], Head(net[e][d].q)), Tail(net[e][d].q))
  BY <1>1, <1>7, MovedHead
<1>9. Moved(got[e], net[e][d].q, got'[e], net'[e][d].q)
  BY <1>5, <1>6, <1>8
<1>10. /\ HeldSame("out") /\ HeldSame("back") /\ Reply' = Reply /\ Greeting' = Greeting
       /\ sent'["user"] = sent["user"] /\ sent'["target"] = sent["target"]
       /\ held'["far"]["out"] = held["far"]["out"] /\ held'["near"]["out"] = held["near"]["out"]
       /\ held'["far"]["back"] = held["far"]["back"]
  <2>1. HeldSame("out") /\ HeldSame("back") /\ Greeting' = Greeting
    BY <1>2, OnlySame, LinksAndDirs DEF Greeting
  <2>2. Reply' = Reply
    BY <1>2, <2>1, ReplyIsHeld
  <2> QED
    BY <1>2, <2>1, <2>2
<1>11. OutChain /\ (near # "refused" => BackChain)
  BY DEF Chains
<1>12. CASE e = "user"
  <2>1. d = "back" /\ got'["target"] = got["target"] /\ NetSame("out")
    BY <1>3, <1>4, <1>6, <1>12, OnlySame, LinksAndDirs DEF d, Outward
  <2>2. OutChain'
    BY <1>10, <1>11, <2>1, OutSame
  <2>3. /\ net'["tunnel"]["back"] = net["tunnel"]["back"]
        /\ net'["target"]["back"] = net["target"]["back"]
    BY <1>4, <1>12, <2>1, LinksAndDirs DEF NetOnly
  <2>4. ASSUME near' # "refused" PROVE BackChain'
    <3>1. BackChain /\ mode' = mode
      BY <1>2, <1>11, <2>4
    <3> QED
      BY <1>5, <1>9, <1>10, <1>12, <2>1, <2>3, <3>1, BackGets
  <2> QED
    BY <2>2, <2>4 DEF Chains
<1>13. CASE e = "target"
  <2>1. d = "out" /\ got'["user"] = got["user"] /\ NetSame("back")
    BY <1>3, <1>4, <1>6, <1>13, OnlySame, LinksAndDirs DEF d, Outward
  <2>2. near' # "refused" => BackChain'
    BY <1>2, <1>10, <1>11, <2>1, BackSame
  <2>3. /\ net'["tunnel"]["out"] = net["tunnel"]["out"]
        /\ net'["user"]["out"] = net["user"]["out"]
    BY <1>4, <1>13, <2>1, LinksAndDirs DEF NetOnly
  <2>4. OutChain'
    BY <1>5, <1>9, <1>10, <1>11, <1>13, <2>1, <2>3, OutGets
  <2> QED
    BY <2>2, <2>4 DEF Chains
<1> QED
  BY <1>12, <1>13, LinksAndDirs

LEMMA HijackChains ==
    ASSUME TypeOK, CopyTyped, Placed, HoldsForSomeone, Stations, Stations', Chains, Hijack
    PROVE  Chains'
<1> DEFINE q == net["user"]["out"].q
<1>1. PICK n \in 0 .. Len(q) :
        /\ Changed(net, net', "user", "out",
                   WithQueue(net["user"]["out"], SubSeq(q, n + 1, Len(q))))
        /\ held' = [held EXCEPT !["near"]["out"] = SubSeq(q, 1, n)]
        /\ SubSeq(q, 1, n) \in Seq(Nat) /\ SubSeq(q, n + 1, Len(q)) \in Seq(Nat)
        /\ Len(SubSeq(q, n + 1, Len(q))) = Len(q) - n
        /\ \A i \in 1 .. Len(q) - n : SubSeq(q, n + 1, Len(q))[i] = q[n + i]
  BY TypedNow, HijackNet
<1>2. near = "hijack" /\ near' = "greet" /\ mode' = mode /\ sent' = sent /\ got' = got
  BY DEF Hijack, endVars
<1>3. held["near"]["out"] = <<>>
  BY <1>2, LinksAndDirs DEF HoldsForSomeone, Placed
<1>4. held'["near"]["out"] = SubSeq(q, 1, n) /\ HeldOnly("near", "out")
  BY <1>1, HeldSet, LinksAndDirs
<1>5. PICK r \in Seq(Nat) : r = SubSeq(q, n + 1, Len(q))
  BY <1>1
<1>6. net'["user"]["out"] = WithQueue(net["user"]["out"], r) /\ NetOnly("user", "out")
  BY <1>1, <1>5, LinksAndDirs DEF Changed, NetOnly
<1>7. net'["user"]["out"].q = r /\ (Stopped(net'["user"]["out"]) <=> Stopped(net["user"]["out"]))
  <2>1. net'["user"]["out"].q = r
    BY <1>6 DEF WithQueue
  <2>2. /\ net'["user"]["out"].fin = net["user"]["out"].fin
        /\ net'["user"]["out"].shut = net["user"]["out"].shut
    BY <1>6 DEF WithQueue
  <2> QED
    BY <2>1, <2>2 DEF Stopped
<1>8. q \in Seq(Nat) /\ held["near"]["out"] \in Seq(Nat) /\ held'["near"]["out"] \in Seq(Nat)
  BY LinksAndDirs DEF Stations
<1> HIDE DEF q
<1>9. PICK z \in Seq(Nat), y \in Seq(Nat) : z = held["near"]["out"] /\ y = held'["near"]["out"]
  BY <1>8
<1>10. Len(r) = Len(q) - n /\ \A i \in 1 .. Len(q) - n : r[i] = q[n + i]
  BY <1>1, <1>5
<1>11. Moved(z, q, y, r)
  BY <1>3, <1>4, <1>8, <1>9, <1>10, MovedSome
<1>12. Moved(held["near"]["out"], net["user"]["out"].q, held'["near"]["out"], net'["user"]["out"].q)
  BY <1>7, <1>9, <1>11 DEF q
<1>13. /\ NetSame("back") /\ HeldSame("back")
       /\ net'["target"]["out"] = net["target"]["out"]
       /\ net'["tunnel"]["out"] = net["tunnel"]["out"]
       /\ held'["far"]["out"] = held["far"]["out"] /\ held'["far"]["back"] = held["far"]["back"]
       /\ held'["near"]["back"] = held["near"]["back"]
  <2>1. NetSame("back") /\ HeldSame("back")
    BY <1>4, <1>6, OnlySame, LinksAndDirs
  <2> QED
    BY <1>4, <1>6, <2>1, LinksAndDirs DEF NetOnly, HeldOnly
<1>14. /\ Greeting' = Greeting /\ Reply' = Reply
       /\ sent'["user"] = sent["user"] /\ got'["target"] = got["target"]
       /\ sent'["target"] = sent["target"] /\ got'["user"] = got["user"]
  <2>1. Greeting' = Greeting /\ (Answering' <=> Answering)
    BY <1>2 DEF Greeting, Answering
  <2>2. Reply' = Reply
    BY <1>13, <2>1 DEF Reply
  <2> QED
    BY <1>2, <2>1, <2>2
<1>15. OutChain /\ BackChain
  BY <1>2 DEF Chains
<1>16. BackChain'
  BY <1>13, <1>14, <1>15, BackSame
<1>17. OutChain'
  BY <1>7, <1>12, <1>13, <1>14, <1>15, OutReadsSecond
<1> QED
  BY <1>16, <1>17 DEF Chains

LEMMA GreetChains ==
    ASSUME TypeOK, Placed, HoldsForSomeone, Stations, Stations', Chains, Greet
    PROVE  Chains'
<1>1. Changed(net, net', "user", "back", Added(net["user"]["back"], 200))
  BY TypedNow, GreetNet
<1>2. /\ near = "greet" /\ near' = "early" /\ mode' = mode /\ sent' = sent /\ got' = got
      /\ held' = held /\ ~Stopped(net["user"]["back"])
  BY DEF Greet, endVars, copyVars, CanWrite, Stopped
<1>3. net'["user"]["back"] = Added(net["user"]["back"], 200) /\ NetOnly("user", "back")
  BY <1>1, LinksAndDirs DEF Changed, NetOnly
<1>4. net'["user"]["back"].q = Append(net["user"]["back"].q, 200)
  <2>1. PICK v : v = 200
    OBVIOUS
  <2>2. Added(net["user"]["back"], v).q = Append(net["user"]["back"].q, v)
    BY TakenIs
  <2> QED
    BY <1>3, <2>1, <2>2
<1>5. mode = "connect" /\ held["near"]["back"] = <<>>
  BY <1>2, LinksAndDirs DEF HoldsForSomeone, Placed
<1>6. Reply = <<200>> /\ Reply' = <<>>
  BY <1>2, <1>5 DEF Reply, Answering
<1>7. PICK x \in Seq(Nat) : x = <<200>>
  <2>1. Append(<<>>, 200) \in Seq(Nat) /\ Append(<<>>, 200) = <<200>>
    OBVIOUS
  <2> QED
    BY <2>1
<1>8. x # <<>> /\ Head(x) = 200 /\ Tail(x) = <<>>
  BY <1>7
<1>9. net["user"]["back"].q \in Seq(Nat)
  BY LinksAndDirs DEF Stations
<1>10. Moved(net["user"]["back"].q, x, Append(net["user"]["back"].q, Head(x)), Tail(x))
  BY <1>8, <1>9, MovedHead
<1>11. Moved(net["user"]["back"].q, Reply, net'["user"]["back"].q, Reply')
  BY <1>4, <1>6, <1>7, <1>8, <1>10
<1>12. /\ NetSame("out") /\ HeldSame("out")
       /\ net'["tunnel"]["back"] = net["tunnel"]["back"]
       /\ net'["target"]["back"] = net["target"]["back"]
       /\ held'["far"]["back"] = held["far"]["back"]
       /\ sent'["user"] = sent["user"] /\ got'["target"] = got["target"]
       /\ sent'["target"] = sent["target"] /\ got'["user"] = got["user"]
  <2>1. NetSame("out") /\ HeldSame("out")
    BY <1>2, <1>3, OnlySame, LinksAndDirs
  <2> QED
    BY <1>2, <1>3, <2>1, LinksAndDirs DEF NetOnly
<1>13. OutChain /\ BackChain /\ mode' = mode
  BY <1>2 DEF Chains
<1>14. OutChain'
  BY <1>12, <1>13, OutSame
<1>15. BackChain'
  BY <1>2, <1>11, <1>12, <1>13, BackWritesFirst
<1> QED
  BY <1>14, <1>15 DEF Chains

LEMMA SendEarlyChains ==
    ASSUME TypeOK, CopyTyped, Placed, Stations, Stations', Chains, SendEarly
    PROVE  Chains'
<1>1. Changed(net, net', "tunnel", "out", Added(net["tunnel"]["out"], Head(held["near"]["out"])))
  BY TypedNow, SendEarlyNet
<1>2. /\ held["near"]["out"] # <<>> /\ held' = [held EXCEPT !["near"]["out"] = Tail(@)]
      /\ ~Stopped(net["tunnel"]["out"])
      /\ sent' = sent /\ got' = got /\ mode' = mode /\ near' = near
  BY DEF SendEarly, endVars, CanWrite, Stopped
<1>3. held'["near"]["out"] = Tail(held["near"]["out"]) /\ HeldOnly("near", "out")
  BY <1>2, HeldSet, LinksAndDirs
<1>4. /\ net'["tunnel"]["out"] = Added(net["tunnel"]["out"], Head(held["near"]["out"]))
      /\ NetOnly("tunnel", "out")
  BY <1>1, LinksAndDirs DEF Changed, NetOnly
<1>5. net'["tunnel"]["out"].q = Append(net["tunnel"]["out"].q, Head(held["near"]["out"]))
  BY <1>4, TakenIs
<1>6. net["tunnel"]["out"].q \in Seq(Nat) /\ held["near"]["out"] \in Seq(Nat)
  BY LinksAndDirs DEF Stations
<1>7. Moved(net["tunnel"]["out"].q, held["near"]["out"],
            Append(net["tunnel"]["out"].q, Head(held["near"]["out"])), Tail(held["near"]["out"]))
  BY <1>2, <1>6, MovedHead
<1>8. Moved(net["tunnel"]["out"].q, held["near"]["out"],
            net'["tunnel"]["out"].q, held'["near"]["out"])
  BY <1>3, <1>5, <1>7
<1>9. /\ NetSame("back") /\ HeldSame("back")
      /\ net'["target"]["out"] = net["target"]["out"]
      /\ net'["user"]["out"] = net["user"]["out"]
      /\ held'["far"]["out"] = held["far"]["out"] /\ held'["far"]["back"] = held["far"]["back"]
  <2>1. NetSame("back") /\ HeldSame("back")
    BY <1>3, <1>4, OnlySame, LinksAndDirs
  <2> QED
    BY <1>3, <1>4, <2>1, LinksAndDirs DEF NetOnly, HeldOnly
<1>10. /\ Greeting' = Greeting /\ Reply' = Reply
       /\ sent'["user"] = sent["user"] /\ got'["target"] = got["target"]
       /\ sent'["target"] = sent["target"] /\ got'["user"] = got["user"]
  <2>1. Reply' = Reply
    BY <1>2, <1>9, ReplyIsHeld
  <2> QED
    BY <1>2, <2>1 DEF Greeting
<1>11. OutChain /\ (near # "refused" => BackChain)
  BY DEF Chains
<1>12. near' # "refused" => BackChain'
  BY <1>2, <1>9, <1>10, <1>11, BackSame
<1>13. OutChain'
  BY <1>2, <1>8, <1>9, <1>10, <1>11, OutWritesSecond
<1> QED
  BY <1>12, <1>13 DEF Chains

LEMMA SendsChains ==
    ASSUME TypeOK, EndsTyped, Placed, ClosedBothWays, Stations, Stations', Chains,
           NEW e \in Endpoint, Sends(e)
    PROVE  Chains'
<1>1. /\ sent' = [sent EXCEPT ![e] = @ + 1] /\ sent[e] < Limit(e)
      /\ got' = got /\ mode' = mode /\ near' = near /\ held' = held
  BY DEF Sends, copyVars
<1>2. /\ sent'[e] = sent[e] + 1 /\ \A f \in Endpoint : f # e => sent'[f] = sent[f]
      /\ sent[e] \in Nat
  BY <1>1 DEF EndsTyped
<1>3. HeldSame("back") /\ HeldSame("out") /\ Reply' = Reply /\ Greeting' = Greeting
  <2>1. HeldSame("back") /\ HeldSame("out")
    BY <1>1, OnlySame, LinksAndDirs
  <2>2. Reply' = Reply
    BY <1>1, <2>1, ReplyIsHeld
  <2> QED
    BY <1>1, <2>1, <2>2 DEF Greeting
<1>4. /\ got'["user"] = got["user"] /\ got'["target"] = got["target"]
      /\ \A p \in Process, d \in Dir : held'[p][d] = held[p][d]
      /\ OutChain /\ (near' # "refused" => BackChain)
  BY <1>1 DEF Chains
<1>5. \/ /\ net[e][Outward(e)].shut
         /\ Changed(net, net', e, Opposite(Outward(e)), Emptied(net[e][Opposite(Outward(e))]))
      \/ /\ CanWrite(e, Outward(e))
         /\ Changed(net, net', e, Outward(e),
                    Added(net[e][Outward(e)], Base(e) + sent[e] + 1))
  BY <1>2, TypedNow, SendsNet
<1>6. \A l \in Link, d \in Dir : net[l][d] \in Pipe
  BY DEF Stations
<1>7. CASE e = "user"
  <2>1. Outward(e) = "out" /\ Opposite(Outward(e)) = "back" /\ Base(e) = Base("user")
    BY <1>7, LinksAndDirs DEF Outward
  <2>2. sent'["user"] = sent["user"] + 1 /\ sent["user"] < UserBytes /\ sent'["target"] = sent["target"]
    BY <1>1, <1>2, <1>7, LinksAndDirs DEF Limit
  <2>3. CASE /\ net["user"]["out"].shut
             /\ Changed(net, net', "user", "back", Emptied(net["user"]["back"]))
    <3>1. Stopped(net["user"]["out"]) /\ Stopped(net["user"]["back"])
      BY <2>3, LinksAndDirs DEF ClosedBothWays, Stopped
    <3>2. NetOnly("user", "back") /\ net'["user"]["back"] = Emptied(net["user"]["back"])
      BY <2>3, LinksAndDirs DEF Changed, NetOnly
    <3>3. Lessened("user", "back")
      BY <1>6, <3>1, <3>2, LessOf, LinksAndDirs DEF Lessened
    <3>4. Lessened("tunnel", "back") /\ Lessened("target", "back")
      BY <3>2, LinksAndDirs DEF Lessened, Less, NetOnly
    <3>5. near' # "refused" => BackChain'
      BY <1>1, <1>3, <1>4, <2>2, <3>3, <3>4, BackLoss, LinksAndDirs
    <3>6. /\ net'["target"]["out"] = net["target"]["out"]
          /\ net'["tunnel"]["out"] = net["tunnel"]["out"]
          /\ net'["user"]["out"] = net["user"]["out"]
      BY <3>2, LinksAndDirs DEF NetOnly
    <3>7. OutChain'
      BY <1>4, <2>2, <3>1, <3>6, OutCounts, LinksAndDirs
    <3> QED
      BY <3>5, <3>7 DEF Chains
  <2>4. CASE /\ CanWrite("user", "out")
             /\ Changed(net, net', "user", "out",
                        Added(net["user"]["out"], Base("user") + sent["user"] + 1))
    <3>1. ~Stopped(net["user"]["out"])
      BY <2>4 DEF CanWrite, Stopped
    <3>2. /\ NetOnly("user", "out")
          /\ net'["user"]["out"] = Added(net["user"]["out"], Base("user") + sent["user"] + 1)
      BY <2>4, LinksAndDirs DEF Changed, NetOnly
    <3>3. net'["user"]["out"].q = Append(net["user"]["out"].q, Base("user") + sent["user"] + 1)
      <4>1. PICK v : v = Base("user") + sent["user"] + 1
        OBVIOUS
      <4>2. Added(net["user"]["out"], v).q = Append(net["user"]["out"].q, v)
        BY TakenIs
      <4> QED
        BY <3>2, <4>1, <4>2
    <3>4. /\ net'["target"]["out"] = net["target"]["out"]
          /\ net'["tunnel"]["out"] = net["tunnel"]["out"] /\ NetSame("back")
      BY <3>2, OnlySame, LinksAndDirs DEF NetOnly
    <3>5. OutChain'
      BY <1>4, <2>2, <3>1, <3>3, <3>4, OutSends, LinksAndDirs
    <3>6. near' # "refused" => BackChain'
      BY <1>3, <1>4, <2>2, <3>4, BackSame, LinksAndDirs
    <3> QED
      BY <3>5, <3>6 DEF Chains
  <2> QED
    BY <1>5, <1>7, <2>1, <2>3, <2>4
<1>8. CASE e = "target"
  <2>1. Outward(e) = "back" /\ Opposite(Outward(e)) = "out" /\ Base(e) = Base("target")
    BY <1>8, LinksAndDirs DEF Outward
  <2>2. sent'["target"] = sent["target"] + 1 /\ sent["target"] < TargetBytes /\ sent'["user"] = sent["user"]
    BY <1>1, <1>2, <1>8, LinksAndDirs DEF Limit
  <2>3. CASE /\ net["target"]["back"].shut
             /\ Changed(net, net', "target", "out", Emptied(net["target"]["out"]))
    <3>1. Stopped(net["target"]["back"]) /\ Stopped(net["target"]["out"])
      BY <2>3, LinksAndDirs DEF ClosedBothWays, Stopped
    <3>2. NetOnly("target", "out") /\ net'["target"]["out"] = Emptied(net["target"]["out"])
      BY <2>3, LinksAndDirs DEF Changed, NetOnly
    <3>3. Lessened("target", "out")
      BY <1>6, <3>1, <3>2, LessOf, LinksAndDirs DEF Lessened
    <3>4. Lessened("tunnel", "out") /\ Lessened("user", "out")
      BY <3>2, LinksAndDirs DEF Lessened, Less, NetOnly
    <3>5. OutChain'
      BY <1>4, <2>2, <3>3, <3>4, OutLoss, LinksAndDirs
    <3>6. /\ net'["target"]["back"] = net["target"]["back"]
          /\ net'["tunnel"]["back"] = net["tunnel"]["back"]
          /\ net'["user"]["back"] = net["user"]["back"]
      BY <3>2, LinksAndDirs DEF NetOnly
    <3>7. near' # "refused" => BackChain'
      BY <1>1, <1>3, <1>4, <2>2, <3>1, <3>6, BackCounts, LinksAndDirs
    <3> QED
      BY <3>5, <3>7 DEF Chains
  <2>4. CASE /\ CanWrite("target", "back")
             /\ Changed(net, net', "target", "back",
                        Added(net["target"]["back"], Base("target") + sent["target"] + 1))
    <3>1. ~Stopped(net["target"]["back"])
      BY <2>4 DEF CanWrite, Stopped
    <3>2. /\ NetOnly("target", "back")
          /\ net'["target"]["back"] = Added(net["target"]["back"], Base("target") + sent["target"] + 1)
      BY <2>4, LinksAndDirs DEF Changed, NetOnly
    <3>3. net'["target"]["back"].q = Append(net["target"]["back"].q, Base("target") + sent["target"] + 1)
      <4>1. PICK v : v = Base("target") + sent["target"] + 1
        OBVIOUS
      <4>2. Added(net["target"]["back"], v).q = Append(net["target"]["back"].q, v)
        BY TakenIs
      <4> QED
        BY <3>2, <4>1, <4>2
    <3>4. /\ net'["user"]["back"] = net["user"]["back"]
          /\ net'["tunnel"]["back"] = net["tunnel"]["back"] /\ NetSame("out")
      BY <3>2, OnlySame, LinksAndDirs DEF NetOnly
    <3>5. near' # "refused" => BackChain'
      BY <1>1, <1>3, <1>4, <2>2, <3>1, <3>3, <3>4, BackSends, LinksAndDirs
    <3>6. OutChain'
      BY <1>3, <1>4, <2>2, <3>4, OutSame, LinksAndDirs
    <3> QED
      BY <3>5, <3>6 DEF Chains
  <2> QED
    BY <1>5, <1>8, <2>1, <2>3, <2>4
<1> QED
  BY <1>7, <1>8, LinksAndDirs

BackStarts ==
    /\ Greeting \in Seq(Nat) /\ Len(Greeting) \in Nat
    /\ BackText \in Seq(Nat) /\ At(Greeting, 0, BackText)

LEMMA BackTextStarts == BackStarts
  BY BackTextIs DEF BackStarts

LEMMA BackTextStartsNext == BackStarts'
  BY BackTextStarts, PTL

(* Before a connection is asked for there is nothing on its way back. *)
LEMMA AskBack ==
    ASSUME TypeOK, Placed, Targeted, HoldsForSomeone, Stations, Stations', near = "idle",
           Reply' = Greeting', sent' = sent, got' = got, net' = net, held' = held
    PROVE  BackChain'
<1>1. far = "none"
  BY DEF Targeted
<1>2. /\ got["user"] = <<>> /\ net["user"]["back"].q = <<>> /\ sent["target"] = 0
      /\ net["tunnel"]["back"].q = <<>> /\ net["target"]["back"].q = <<>>
  BY <1>1 DEF HoldsForSomeone
<1>3. held["far"]["back"] = <<>>
  BY <1>1, LinksAndDirs DEF HoldsForSomeone, Placed
<1>4. /\ BackText' \in Seq(Nat) /\ At(Greeting', 0, BackText') /\ Greeting' \in Seq(Nat)
      /\ Len(Greeting') \in Nat
  BY BackTextStartsNext DEF BackStarts
<1>5. /\ net["user"]["back"] \in Pipe /\ net["tunnel"]["back"] \in Pipe /\ net["target"]["back"] \in Pipe
      /\ got["user"] \in Seq(Nat)
  BY LinksAndDirs DEF Stations
<1>6. Chain(BackText', Len(Greeting'), got["user"], net["user"]["back"], Greeting',
            net["tunnel"]["back"], got["user"], net["target"]["back"])
  BY <1>2, <1>4, <1>5, FreshChain
<1>7. Len(Greeting') + sent'["target"] = Len(Greeting')
  BY <1>2, <1>4
<1>8. held'["far"]["back"] = got["user"]
  BY <1>2, <1>3
<1> QED
  BY <1>6, <1>7, <1>8 DEF BackChain

LEMMA AskChains ==
    ASSUME TypeOK, Placed, Targeted, HoldsForSomeone, Stations, Stations', Chains,
           NEW t \in Targets, Ask(t)
    PROVE  Chains'
<1>1. /\ near = "idle" /\ mode' = "connect" /\ near' = "dial"
      /\ sent' = sent /\ got' = got /\ net' = net /\ held' = held
  BY DEF Ask, endVars, copyVars
<1>2. Reply' = Greeting'
  BY <1>1 DEF Reply, Greeting, Answering
<1>3. BackChain'
  BY <1>1, <1>2, AskBack
<1>4. OutChain'
  <2>1. OutChain /\ NetSame("out") /\ HeldSame("out")
    BY <1>1, OnlySame, LinksAndDirs DEF Chains
  <2> QED
    BY <1>1, <2>1, OutSame
<1> QED
  BY <1>3, <1>4 DEF Chains

LEMMA AskSSHChains ==
    ASSUME TypeOK, Placed, Targeted, HoldsForSomeone, Stations, Stations', Chains, AskSSH
    PROVE  Chains'
<1>1. /\ near = "idle" /\ mode' = "ssh" /\ near' = "dial"
      /\ sent' = sent /\ got' = got /\ net' = net /\ held' = held
  BY DEF AskSSH, endVars, copyVars
<1>2. held["near"]["back"] = <<>>
  BY <1>1, LinksAndDirs DEF HoldsForSomeone, Placed
<1>3. Reply' = Greeting'
  BY <1>1, <1>2 DEF Reply, Greeting, Answering
<1>4. BackChain'
  BY <1>1, <1>3, AskBack
<1>5. OutChain'
  <2>1. OutChain /\ NetSame("out") /\ HeldSame("out")
    BY <1>1, OnlySame, LinksAndDirs DEF Chains
  <2> QED
    BY <1>1, <2>1, OutSame
<1> QED
  BY <1>4, <1>5 DEF Chains

(* A step that only ends connections, or none, loses bytes at most ... *)
LEMMA KeepsChains ==
    ASSUME Stations, Stations', Chains, Losing,
           mode' = mode, sent' = sent, got' = got, held' = held,
           near' # "refused" => near # "refused" /\ (Answering' <=> Answering)
    PROVE  Chains'
<1>1. \A p \in Process, d \in Dir : held'[p][d] = held[p][d] \/ Stopped(net'[Sink(p, d)][d])
  OBVIOUS
<1>2. near' # "refused" =>
          near # "refused" /\ (Reply' = Reply \/ Stopped(net'["user"]["back"]))
  BY DEF Reply
<1> QED
  BY <1>1, <1>2, LosingChains

(* ... such as one that leaves the connections and the endpoints alone ... *)
LEMMA QuietChains ==
    ASSUME TypeOK, Targeted, Stations, Stations', Chains,
           \/ NksStarts \/ NksRestarts \/ FarReads \/ FarDials \/ DialOpens \/ EarlySent
           \/ \E p \in Process : RelayReturns(p)
           \/ \E useProxy \in UsesProxy : NkStarts(useProxy)
           \/ UNCHANGED vars
    PROVE  Chains' /\ Losing
<1>1. net' = net
  <2>1. CASE FarReads
    BY <2>1, FarReadsNet
  <2>2. CASE ~FarReads
    BY <2>2 DEF NksStarts, NksRestarts, FarDials, DialOpens, EarlySent, RelayReturns, NkStarts, vars
  <2> QED
    BY <2>1, <2>2
<1>2. mode' = mode
  BY DEF NksStarts, NksRestarts, FarReads, FarDials, DialOpens, EarlySent, RelayReturns, NkStarts, vars
<1>3. sent' = sent /\ got' = got
  BY DEF NksStarts, NksRestarts, FarReads, FarDials, DialOpens, EarlySent, RelayReturns, NkStarts,
         endVars, vars
<1>4. held' = held
  BY DEF NksStarts, NksRestarts, FarReads, FarDials, DialOpens, EarlySent, RelayReturns, NkStarts,
         copyVars, vars
<1>5. near' # "refused" => near # "refused" /\ (Answering' <=> Answering)
  <2>1. CASE DialOpens
    <3>1. near = "dial" /\ near' = IF mode = "ssh" THEN "relay" ELSE "hijack"
      BY <2>1 DEF DialOpens
    <3>2. mode \in {"connect", "ssh"}
      BY <3>1 DEF TypeOK, Targeted
    <3> QED
      BY <1>2, <3>1, <3>2 DEF Answering
  <2>2. CASE EarlySent
    BY <1>2, <2>2 DEF EarlySent, Answering
  <2>3. ASSUME NEW p \in Process, RelayReturns(p)
        PROVE  near' # "refused" => near # "refused" /\ (Answering' <=> Answering)
    BY <1>2, <2>3 DEF RelayReturns, Answering
  <2>4. CASE near' = near
    BY <1>2, <2>4 DEF Answering
  <2>5. CASE \/ NksStarts \/ NksRestarts \/ FarReads \/ FarDials
             \/ \E useProxy \in UsesProxy : NkStarts(useProxy)
             \/ UNCHANGED vars
    <3>1. near' = near
      BY <2>5 DEF NksStarts, NksRestarts, FarReads, FarDials, NkStarts, vars
    <3> QED
      BY <2>4, <3>1
  <2> QED
    BY <2>1, <2>2, <2>3, <2>5
<1>6. Losing
  BY <1>1, TypedNow, LosingNet DEF Typed
<1>7. Chains'
  BY <1>2, <1>3, <1>4, <1>5, <1>6, KeepsChains
<1> QED
  BY <1>6, <1>7

(* ... or closes one of them. *)
LEMMA ClosingChains ==
    ASSUME TypeOK, Stations, Stations', Chains,
           \/ SessionEnds \/ CloseTimeout \/ Cancelled \/ FarFails
           \/ \E e \in Endpoint : HalfCloses(e) \/ Closes(e)
    PROVE  Chains' /\ Losing
<1>1. mode' = mode /\ near' = near
  BY DEF SessionEnds, CloseTimeout, Cancelled, FarFails, HalfCloses, Closes
<1>2. sent' = sent /\ got' = got
  BY DEF SessionEnds, CloseTimeout, Cancelled, FarFails, HalfCloses, Closes, endVars
<1>3. held' = held
  BY DEF SessionEnds, CloseTimeout, Cancelled, FarFails, HalfCloses, Closes, copyVars
<1>4. Typed /\ net \in Nets
  BY TypedNow DEF Typed
<1>5. Losing
  <2>1. CASE SessionEnds
    BY <1>4, <2>1, SessionEndsNet, LosingNet
  <2>2. CASE CloseTimeout
    BY <1>4, <2>2, CloseTimeoutNet, LosingNet
  <2>3. CASE Cancelled
    BY <1>4, <2>3, CancelledNet, LosingNet, LinksAndDirs
  <2>4. CASE FarFails
    BY <1>4, <2>4, FarFailsNet, LosingNet, LinksAndDirs
  <2>5. ASSUME NEW e \in Endpoint, HalfCloses(e)
        PROVE  Losing
    BY <1>4, <2>5, HalfClosesNet, LosingNet, EndpointDirs
  <2>6. ASSUME NEW e \in Endpoint, Closes(e)
        PROVE  Losing
    BY <1>4, <2>6, ClosesNet, LosingNet, EndpointDirs
  <2> QED
    BY <2>1, <2>2, <2>3, <2>4, <2>5, <2>6
<1>6. near' # "refused" => near # "refused" /\ (Answering' <=> Answering)
  BY <1>1 DEF Answering
<1>7. Chains'
  BY <1>1, <1>2, <1>3, <1>5, <1>6, KeepsChains
<1> QED
  BY <1>5, <1>7

LEMMA DialFailsChains ==
    ASSUME TypeOK, Stations, Stations', Chains, DialFails
    PROVE  Chains' /\ (mode = "ssh" => Losing)
<1>1. /\ near' = "refused" /\ mode' = mode /\ sent' = sent /\ got' = got /\ held' = held
  BY DEF DialFails, endVars, copyVars
<1>2. Typed /\ net \in Nets
  BY TypedNow DEF Typed
<1>3. CASE mode = "ssh"
  <2>1. Losing
    BY <1>2, <1>3, DialFailsNet, LosingNet, LinksAndDirs
  <2>2. Chains'
    BY <1>1, <2>1, KeepsChains
  <2> QED
    BY <2>1, <2>2
<1>4. CASE mode # "ssh"
  <2>1. NetSame("out")
    BY <1>2, <1>4, DialFailsNet, LinksAndDirs DEF Changed, NetSame
  <2>2. HeldSame("out")
    BY <1>1, OnlySame, LinksAndDirs
  <2>3. OutChain'
    BY <1>1, <2>1, <2>2, OutSame DEF Chains
  <2>4. Chains'
    BY <1>1, <2>3 DEF Chains
  <2> QED
    BY <1>4, <2>4
<1> QED
  BY <1>3, <1>4

LEMMA NearFailsChains ==
    ASSUME TypeOK, CopyTyped, Stations, Stations', Chains, NearFails
    PROVE  Chains' /\ Losing
<1>1. /\ near' = "over" /\ near # "refused" /\ mode' = mode /\ sent' = sent /\ got' = got
      /\ held' = [held EXCEPT !["near"]["out"] = <<>>]
  BY DEF NearFails, endVars
<1>2. /\ net'["tunnel"]["out"] = Ended(net["tunnel"]["out"])
      /\ net'["tunnel"]["back"] = net["tunnel"]["back"]
      /\ net'["user"]["back"] \in {Ended(net["user"]["back"]), Reset(net["user"]["back"])}
      /\ net'["user"]["out"] = Shut(net["user"]["out"])
      /\ \A d \in Dir : net'["target"][d] = net["target"][d]
  BY TypedNow, NearFailsNet
<1>3. \A l \in Link, d \in Dir : net[l][d] \in Pipe
  BY DEF Stations
<1>4. Losing
  <2>1. \A d \in Dir : Lessened("target", d)
    BY <1>2 DEF Lessened, Less
  <2>2. Lessened("tunnel", "back")
    BY <1>2 DEF Lessened, Less
  <2>3. Lessened("tunnel", "out")
    BY <1>2, <1>3, LessOf, LinksAndDirs DEF Lessened
  <2>4. Lessened("user", "back")
    BY <1>2, <1>3, LessOf, LinksAndDirs DEF Lessened
  <2>5. Lessened("user", "out")
    BY <1>2, <1>3, LessOf, LinksAndDirs DEF Lessened
  <2> QED
    BY <2>1, <2>2, <2>3, <2>4, <2>5, LinksAndDirs DEF Losing
<1>5. Stopped(net'["tunnel"]["out"]) /\ Stopped(net'["user"]["back"])
  <2>1. net'["tunnel"]["out"].fin /\ net'["user"]["back"].fin
    BY <1>2, PipeFields
  <2> QED
    BY <2>1 DEF Stopped
<1>6. \A p \in Process, d \in Dir : held'[p][d] = held[p][d] \/ Stopped(net'[Sink(p, d)][d])
  <2>1. HeldOnly("near", "out")
    BY <1>1, HeldSet, LinksAndDirs
  <2> QED
    BY <1>5, <2>1, SourcesAndSinks DEF HeldOnly
<1>7. near' # "refused" =>
          near # "refused" /\ (Reply' = Reply \/ Stopped(net'["user"]["back"]))
  BY <1>1, <1>5
<1>8. Chains'
  BY <1>1, <1>4, <1>6, <1>7, LosingChains
<1> QED
  BY <1>4, <1>8

LEMMA CopyEndsChains ==
    ASSUME TypeOK, CopyTyped, Stations, Stations', Chains,
           NEW p \in Process, NEW d \in Dir, CopyEnds(p, d)
    PROVE  Chains' /\ Losing
<1>1. /\ near' = near /\ mode' = mode /\ sent' = sent /\ got' = got
      /\ held' = [held EXCEPT ![p][d] = <<>>]
  BY DEF CopyEnds, endVars
<1>2. ClosedTo(net, net', Sink(p, d), d) /\ Sink(p, d) \in Link /\ net \in Nets
  BY TypedNow, CopyEndsNet, SourcesAndSinks DEF Typed
<1>3. Losing
  BY <1>2, LosingNet
<1>4. Stopped(net'[Sink(p, d)][d])
  <2>1. net'[Sink(p, d)][d].fin
    BY <1>2, PipeFields DEF ClosedTo
  <2> QED
    BY <2>1 DEF Stopped
<1>5. HeldOnly(p, d)
  BY <1>1, HeldSet
<1>6. \A q \in Process, e \in Dir : held'[q][e] = held[q][e] \/ Stopped(net'[Sink(q, e)][e])
  BY <1>4, <1>5 DEF HeldOnly
<1>7. near' # "refused" =>
          near # "refused" /\ (Reply' = Reply \/ Stopped(net'["user"]["back"]))
  <2>1. held'["near"]["back"] = held["near"]["back"] \/ Stopped(net'["user"]["back"])
    BY <1>6, SourcesAndSinks, LinksAndDirs
  <2>2. Answering' <=> Answering
    BY <1>1 DEF Answering
  <2> QED
    BY <1>1, <2>1, <2>2 DEF Reply
<1>8. Chains'
  BY <1>1, <1>3, <1>6, <1>7, LosingChains
<1> QED
  BY <1>3, <1>8

-----------------------------------------------------------------------------
(* What a step does to the connections, and that it keeps the chains.      *)
Moving ==
    \/ DialFails /\ mode # "ssh"
    \/ Hijack \/ Greet \/ SendEarly
    \/ \E p \in Process, d \in Dir : CopyReads(p, d) \/ CopyWrites(p, d)
    \/ \E e \in Endpoint : Sends(e) \/ Gets(e)

LEMMA ChainsStep ==
    ASSUME TypeOK, CopyTyped, EndsTyped, Targeted, Placed, HoldsForSomeone, ClosedBothWays,
           Stations, Stations', Chains, [Next]_vars
    PROVE  Chains' /\ (Losing \/ Moving)
<1>1. CASE DialOpens
  BY <1>1, QuietChains
<1>2. CASE DialFails
  BY <1>2, DialFailsChains DEF Moving
<1>3. CASE Hijack
  BY <1>3, HijackChains DEF Moving
<1>4. CASE Greet
  BY <1>4, GreetChains DEF Moving
<1>5. CASE SendEarly
  BY <1>5, SendEarlyChains DEF Moving
<1>6. CASE EarlySent
  BY <1>6, QuietChains
<1>7. CASE NearFails
  BY <1>7, NearFailsChains
<1>8. CASE FarReads
  BY <1>8, QuietChains
<1>9. CASE FarFails
  BY <1>9, ClosingChains
<1>10. CASE CloseTimeout
  BY <1>10, ClosingChains
<1>11. ASSUME NEW p \in Process, RelayReturns(p)
      PROVE  Chains' /\ (Losing \/ Moving)
  BY <1>11, QuietChains
<1>12. ASSUME NEW p \in Process, NEW d \in Dir, CopyReads(p, d)
      PROVE  Chains' /\ (Losing \/ Moving)
  BY <1>12, CopyReadsChains DEF Moving
<1>13. ASSUME NEW p \in Process, NEW d \in Dir, CopyWrites(p, d)
      PROVE  Chains' /\ (Losing \/ Moving)
  BY <1>13, CopyWritesChains DEF Moving
<1>14. ASSUME NEW p \in Process, NEW d \in Dir, CopyEnds(p, d)
      PROVE  Chains' /\ (Losing \/ Moving)
  BY <1>14, CopyEndsChains
<1>15. ASSUME NEW e \in Endpoint, Gets(e)
      PROVE  Chains' /\ (Losing \/ Moving)
  BY <1>15, GetsChains DEF Moving
<1>16. CASE NksStarts
  BY <1>16, QuietChains
<1>17. CASE NksRestarts
  BY <1>17, QuietChains
<1>18. CASE SessionEnds
  BY <1>18, ClosingChains
<1>19. CASE AskSSH
  <2>1. net' = net
    BY <1>19 DEF AskSSH
  <2> QED
    BY <1>19, <2>1, AskSSHChains, TypedNow, LosingNet DEF Typed
<1>20. CASE Cancelled
  BY <1>20, ClosingChains
<1>21. CASE FarDials
  BY <1>21, QuietChains
<1>22. ASSUME NEW useProxy \in UsesProxy, NkStarts(useProxy)
      PROVE  Chains' /\ (Losing \/ Moving)
  BY <1>22, QuietChains
<1>23. ASSUME NEW t \in Targets, Ask(t)
      PROVE  Chains' /\ (Losing \/ Moving)
  <2>1. net' = net
    BY <1>23 DEF Ask
  <2> QED
    BY <1>23, <2>1, AskChains, TypedNow, LosingNet DEF Typed
<1>24. ASSUME NEW e \in Endpoint, Sends(e)
      PROVE  Chains' /\ (Losing \/ Moving)
  BY <1>24, SendsChains DEF Moving
<1>25. ASSUME NEW e \in Endpoint, HalfCloses(e)
      PROVE  Chains' /\ (Losing \/ Moving)
  BY <1>25, ClosingChains
<1>26. ASSUME NEW e \in Endpoint, Closes(e)
      PROVE  Chains' /\ (Losing \/ Moving)
  BY <1>26, ClosingChains
<1>27. CASE UNCHANGED vars
  BY <1>27, QuietChains
<1> QED
  BY <1>1, <1>2, <1>3, <1>4, <1>5, <1>6, <1>7, <1>8, <1>9, <1>10, <1>11, <1>12, <1>13, <1>14, <1>15, <1>16, <1>17, <1>18, <1>19, <1>20, <1>21, <1>22, <1>23, <1>24, <1>25, <1>26, <1>27 DEF Next, Program, Environment

LEMMA GotStep ==
    ASSUME TRUE, [Next]_vars
    PROVE  got' = got \/ \E f \in Endpoint : Gets(f)
<1>1. CASE DialOpens
  BY <1>1 DEF DialOpens, endVars
<1>2. CASE DialFails
  BY <1>2 DEF DialFails, endVars
<1>3. CASE Hijack
  BY <1>3 DEF Hijack, endVars
<1>4. CASE Greet
  BY <1>4 DEF Greet, endVars
<1>5. CASE SendEarly
  BY <1>5 DEF SendEarly, endVars
<1>6. CASE EarlySent
  BY <1>6 DEF EarlySent, endVars
<1>7. CASE NearFails
  BY <1>7 DEF NearFails, endVars
<1>8. CASE FarReads
  BY <1>8 DEF FarReads, endVars
<1>9. CASE FarFails
  BY <1>9 DEF FarFails, endVars
<1>10. CASE CloseTimeout
  BY <1>10 DEF CloseTimeout, endVars
<1>11. ASSUME NEW p \in Process, RelayReturns(p)
      PROVE  got' = got \/ \E f \in Endpoint : Gets(f)
  BY <1>11 DEF RelayReturns, endVars
<1>12. ASSUME NEW p \in Process, NEW d \in Dir, CopyReads(p, d)
      PROVE  got' = got \/ \E f \in Endpoint : Gets(f)
  BY <1>12 DEF CopyReads, endVars
<1>13. ASSUME NEW p \in Process, NEW d \in Dir, CopyWrites(p, d)
      PROVE  got' = got \/ \E f \in Endpoint : Gets(f)
  BY <1>13 DEF CopyWrites, endVars
<1>14. ASSUME NEW p \in Process, NEW d \in Dir, CopyEnds(p, d)
      PROVE  got' = got \/ \E f \in Endpoint : Gets(f)
  BY <1>14 DEF CopyEnds, endVars
<1>15. ASSUME NEW e \in Endpoint, Gets(e)
      PROVE  got' = got \/ \E f \in Endpoint : Gets(f)
  BY <1>15
<1>16. CASE NksStarts
  BY <1>16 DEF NksStarts, endVars
<1>17. CASE NksRestarts
  BY <1>17 DEF NksRestarts, endVars
<1>18. CASE SessionEnds
  BY <1>18 DEF SessionEnds, endVars
<1>19. CASE AskSSH
  BY <1>19 DEF AskSSH, endVars
<1>20. CASE Cancelled
  BY <1>20 DEF Cancelled, endVars
<1>21. CASE FarDials
  BY <1>21 DEF FarDials, endVars
<1>22. ASSUME NEW useProxy \in UsesProxy, NkStarts(useProxy)
      PROVE  got' = got \/ \E f \in Endpoint : Gets(f)
  BY <1>22 DEF NkStarts, endVars
<1>23. ASSUME NEW t \in Targets, Ask(t)
      PROVE  got' = got \/ \E f \in Endpoint : Gets(f)
  BY <1>23 DEF Ask, endVars
<1>24. ASSUME NEW e \in Endpoint, Sends(e)
      PROVE  got' = got \/ \E f \in Endpoint : Gets(f)
  BY <1>24 DEF Sends, endVars
<1>25. ASSUME NEW e \in Endpoint, HalfCloses(e)
      PROVE  got' = got \/ \E f \in Endpoint : Gets(f)
  BY <1>25 DEF HalfCloses, endVars
<1>26. ASSUME NEW e \in Endpoint, Closes(e)
      PROVE  got' = got \/ \E f \in Endpoint : Gets(f)
  BY <1>26 DEF Closes, endVars
<1>27. CASE UNCHANGED vars
  BY <1>27 DEF vars, endVars
<1> QED
  BY <1>1, <1>2, <1>3, <1>4, <1>5, <1>6, <1>7, <1>8, <1>9, <1>10, <1>11, <1>12, <1>13, <1>14, <1>15, <1>16, <1>17, <1>18, <1>19, <1>20, <1>21, <1>22, <1>23, <1>24, <1>25, <1>26, <1>27 DEF Next, Program, Environment

LEMMA WithinLimitsStep ==
    ASSUME EndsTyped, WithinLimits, [Next]_vars
    PROVE  WithinLimits'
<1>1. CASE DialOpens
  BY <1>1 DEF DialOpens, endVars, WithinLimits
<1>2. CASE DialFails
  BY <1>2 DEF DialFails, endVars, WithinLimits
<1>3. CASE Hijack
  BY <1>3 DEF Hijack, endVars, WithinLimits
<1>4. CASE Greet
  BY <1>4 DEF Greet, endVars, WithinLimits
<1>5. CASE SendEarly
  BY <1>5 DEF SendEarly, endVars, WithinLimits
<1>6. CASE EarlySent
  BY <1>6 DEF EarlySent, endVars, WithinLimits
<1>7. CASE NearFails
  BY <1>7 DEF NearFails, endVars, WithinLimits
<1>8. CASE FarReads
  BY <1>8 DEF FarReads, endVars, WithinLimits
<1>9. CASE FarFails
  BY <1>9 DEF FarFails, endVars, WithinLimits
<1>10. CASE CloseTimeout
  BY <1>10 DEF CloseTimeout, endVars, WithinLimits
<1>11. ASSUME NEW p \in Process, RelayReturns(p)
      PROVE  WithinLimits'
  BY <1>11 DEF RelayReturns, endVars, WithinLimits
<1>12. ASSUME NEW p \in Process, NEW d \in Dir, CopyReads(p, d)
      PROVE  WithinLimits'
  BY <1>12 DEF CopyReads, endVars, WithinLimits
<1>13. ASSUME NEW p \in Process, NEW d \in Dir, CopyWrites(p, d)
      PROVE  WithinLimits'
  BY <1>13 DEF CopyWrites, endVars, WithinLimits
<1>14. ASSUME NEW p \in Process, NEW d \in Dir, CopyEnds(p, d)
      PROVE  WithinLimits'
  BY <1>14 DEF CopyEnds, endVars, WithinLimits
<1>15. ASSUME NEW e \in Endpoint, Gets(e)
      PROVE  WithinLimits'
  BY <1>15 DEF Gets, endVars, WithinLimits
<1>16. CASE NksStarts
  BY <1>16 DEF NksStarts, endVars, WithinLimits
<1>17. CASE NksRestarts
  BY <1>17 DEF NksRestarts, endVars, WithinLimits
<1>18. CASE SessionEnds
  BY <1>18 DEF SessionEnds, endVars, WithinLimits
<1>19. CASE AskSSH
  BY <1>19 DEF AskSSH, endVars, WithinLimits
<1>20. CASE Cancelled
  BY <1>20 DEF Cancelled, endVars, WithinLimits
<1>21. CASE FarDials
  BY <1>21 DEF FarDials, endVars, WithinLimits
<1>22. ASSUME NEW useProxy \in UsesProxy, NkStarts(useProxy)
      PROVE  WithinLimits'
  BY <1>22 DEF NkStarts, endVars, WithinLimits
<1>23. ASSUME NEW t \in Targets, Ask(t)
      PROVE  WithinLimits'
  BY <1>23 DEF Ask, endVars, WithinLimits
<1>24. ASSUME NEW e \in Endpoint, Sends(e)
      PROVE  WithinLimits'
  <2>1. sent' = [sent EXCEPT ![e] = sent[e] + 1] /\ sent[e] < Limit(e)
    BY <1>24 DEF Sends
  <2>2. sent'[e] = sent[e] + 1 /\ \A f \in Endpoint : f # e => sent'[f] = sent[f]
    BY <2>1 DEF EndsTyped
  <2>3. sent[e] \in Nat /\ Limit(e) \in Nat
    BY EndpointDirs DEF EndsTyped
  <2>4. sent[e] + 1 <= Limit(e)
    BY <2>1, <2>3
  <2> QED
    BY <2>2, <2>4 DEF WithinLimits, Limit
<1>25. ASSUME NEW e \in Endpoint, HalfCloses(e)
      PROVE  WithinLimits'
  BY <1>25 DEF HalfCloses, endVars, WithinLimits
<1>26. ASSUME NEW e \in Endpoint, Closes(e)
      PROVE  WithinLimits'
  BY <1>26 DEF Closes, endVars, WithinLimits
<1>27. CASE UNCHANGED vars
  BY <1>27 DEF vars, endVars, WithinLimits
<1> QED
  BY <1>1, <1>2, <1>3, <1>4, <1>5, <1>6, <1>7, <1>8, <1>9, <1>10, <1>11, <1>12, <1>13, <1>14, <1>15, <1>16, <1>17, <1>18, <1>19, <1>20, <1>21, <1>22, <1>23, <1>24, <1>25, <1>26, <1>27 DEF Next, Program, Environment

-----------------------------------------------------------------------------
(* The rest of the invariant.                                              *)
ClosedNet(n) == \A e \in Endpoint, d \in Dir : n[e][d].shut => n[e][Opposite(d)].fin

LEMMA ClosedNetSteps ==
    ASSUME NEW n, NEW m, ClosedNet(n)
    PROVE  /\ m = n => ClosedNet(m)
           /\ CutTo(n, m) => ClosedNet(m)
           /\ \A l \in Link, d \in Dir :
                  /\ ClosedTo(n, m, l, d) => ClosedNet(m)
                  /\ Changed(n, m, l, d, Ended(n[l][d])) => ClosedNet(m)
                  /\ \A s : Changed(n, m, l, d, WithQueue(n[l][d], s)) => ClosedNet(m)
<1>1. "tunnel" \notin Endpoint /\ Endpoint \subseteq Link
  BY DEF Endpoint, Link
<1>2. m = n => ClosedNet(m)
  OBVIOUS
<1>3. ASSUME CutTo(n, m)
      PROVE  ClosedNet(m)
  BY <1>1, <1>3, OppositeDir DEF CutTo, ClosedNet
<1>4. ASSUME NEW l \in Link, NEW d \in Dir, ClosedTo(n, m, l, d)
      PROVE  ClosedNet(m)
  <2> SUFFICES ASSUME NEW e \in Endpoint, NEW c \in Dir, m[e][c].shut
               PROVE  m[e][Opposite(c)].fin
    BY DEF ClosedNet
  <2>1. CASE e # l
    BY <1>1, <1>4, <2>1, OppositeDir DEF ClosedTo, ClosedNet
  <2>2. CASE e = l
    <3>1. /\ m[e][d] = Ended(n[e][d]) \/ m[e][d] = Reset(n[e][d])
          /\ m[e][Opposite(d)] = Shut(n[e][Opposite(d)])
      BY <1>1, <1>4, <2>2 DEF ClosedTo
    <3>2. /\ m[e][d].fin /\ m[e][d].shut = n[e][d].shut
          /\ m[e][Opposite(d)].fin = n[e][Opposite(d)].fin
      BY <3>1, PipeFields
    <3>3. CASE c = d
      BY <3>2, <3>3 DEF ClosedNet
    <3>4. CASE c = Opposite(d)
      BY <3>2, <3>4, OppositeDir
    <3> QED
      BY <3>3, <3>4, OppositeDir
  <2> QED
    BY <2>1, <2>2
<1>5. ASSUME NEW l \in Link, NEW d \in Dir, NEW x,
             x.shut = n[l][d].shut, n[l][d].fin => x.fin, Changed(n, m, l, d, x)
      PROVE  ClosedNet(m)
  <2>1. \A e \in Endpoint, c \in Dir :
            /\ m[e][c].shut = n[e][c].shut
            /\ n[e][c].fin => m[e][c].fin
    BY <1>1, <1>5 DEF Changed
  <2> QED
    BY <2>1, OppositeDir DEF ClosedNet
<1>6. ASSUME NEW l \in Link, NEW d \in Dir, Changed(n, m, l, d, Ended(n[l][d]))
      PROVE  ClosedNet(m)
  <2>1. Ended(n[l][d]).shut = n[l][d].shut /\ Ended(n[l][d]).fin
    BY PipeFields
  <2> QED
    BY <1>5, <1>6, <2>1
<1>7. ASSUME NEW l \in Link, NEW d \in Dir, NEW s, Changed(n, m, l, d, WithQueue(n[l][d], s))
      PROVE  ClosedNet(m)
  <2>1. /\ WithQueue(n[l][d], s).shut = n[l][d].shut
        /\ WithQueue(n[l][d], s).fin = n[l][d].fin
    BY PipeFields
  <2> QED
    BY <1>5, <1>7, <2>1
<1> QED
  BY <1>2, <1>3, <1>4, <1>6, <1>7

LEMMA ClosedNetStep ==
    ASSUME TypeOK, EndsTyped, Targeted, ClosedNet(net), [Next]_vars
    PROVE  ClosedNet(net')
<1>1. CASE DialOpens
  <2>1. net' = net
    BY <1>1 DEF DialOpens
  <2> QED
    BY <2>1, ClosedNetSteps
<1>2. CASE DialFails
  <2>1. \/ net' = net \/ ClosedTo(net, net', "user", "back")
        \/ \E s : Changed(net, net', "user", "back", WithQueue(net["user"]["back"], s))
    BY <1>2, TypedNow, DialFailsNet DEF Added
  <2> QED
    BY <2>1, ClosedNetSteps, LinksAndDirs
<1>3. CASE Hijack
  BY <1>3, TypedNow, HijackNet, ClosedNetSteps, LinksAndDirs
<1>4. CASE Greet
  BY <1>4, TypedNow, GreetNet, ClosedNetSteps, LinksAndDirs DEF Added
<1>5. CASE SendEarly
  BY <1>5, TypedNow, SendEarlyNet, ClosedNetSteps, LinksAndDirs DEF Added
<1>6. CASE EarlySent
  <2>1. net' = net
    BY <1>6 DEF EarlySent
  <2> QED
    BY <2>1, ClosedNetSteps
<1>7. CASE NearFails
  <2>1. /\ net'["user"]["back"] \in {Ended(net["user"]["back"]), Reset(net["user"]["back"])}
        /\ net'["user"]["out"] = Shut(net["user"]["out"])
        /\ \A d \in Dir : net'["target"][d] = net["target"][d]
    BY <1>7, TypedNow, NearFailsNet
  <2>2. /\ net'["user"]["back"].fin /\ net'["user"]["back"].shut = net["user"]["back"].shut
        /\ net'["user"]["out"].fin = net["user"]["out"].fin
    BY <2>1, PipeFields
  <2>3. \A d \in Dir : net'["user"][d].shut => net'["user"][Opposite(d)].fin
    BY <2>2, LinksAndDirs DEF ClosedNet
  <2>4. \A d \in Dir : net'["target"][d].shut => net'["target"][Opposite(d)].fin
    BY <2>1, LinksAndDirs, OppositeDir DEF ClosedNet
  <2> QED
    BY <2>3, <2>4, LinksAndDirs DEF ClosedNet
<1>8. CASE FarReads
  BY <1>8, FarReadsNet, ClosedNetSteps
<1>9. CASE FarFails
  BY <1>9, TypedNow, FarFailsNet, ClosedNetSteps, LinksAndDirs
<1>10. CASE CloseTimeout
  BY <1>10, TypedNow, CloseTimeoutNet, ClosedNetSteps
<1>11. ASSUME NEW p \in Process, RelayReturns(p)
      PROVE  ClosedNet(net')
  <2>1. net' = net
    BY <1>11 DEF RelayReturns
  <2> QED
    BY <2>1, ClosedNetSteps
<1>12. ASSUME NEW p \in Process, NEW d \in Dir, CopyReads(p, d)
      PROVE  ClosedNet(net')
  BY <1>12, TypedNow, CopyReadsNet, ClosedNetSteps, SourcesAndSinks DEF Taken
<1>13. ASSUME NEW p \in Process, NEW d \in Dir, CopyWrites(p, d)
      PROVE  ClosedNet(net')
  BY <1>13, TypedNow, CopyWritesNet, ClosedNetSteps, SourcesAndSinks DEF Added
<1>14. ASSUME NEW p \in Process, NEW d \in Dir, CopyEnds(p, d)
      PROVE  ClosedNet(net')
  BY <1>14, TypedNow, CopyEndsNet, ClosedNetSteps, SourcesAndSinks
<1>15. ASSUME NEW e \in Endpoint, Gets(e)
      PROVE  ClosedNet(net')
  BY <1>15, TypedNow, GetsNet, ClosedNetSteps, EndpointDirs DEF Taken
<1>16. CASE NksStarts
  <2>1. net' = net
    BY <1>16 DEF NksStarts
  <2> QED
    BY <2>1, ClosedNetSteps
<1>17. CASE NksRestarts
  <2>1. net' = net
    BY <1>17 DEF NksRestarts
  <2> QED
    BY <2>1, ClosedNetSteps
<1>18. CASE SessionEnds
  BY <1>18, TypedNow, SessionEndsNet, ClosedNetSteps
<1>19. CASE AskSSH
  <2>1. net' = net
    BY <1>19 DEF AskSSH
  <2> QED
    BY <2>1, ClosedNetSteps
<1>20. CASE Cancelled
  BY <1>20, TypedNow, CancelledNet, ClosedNetSteps, LinksAndDirs
<1>21. CASE FarDials
  <2>1. net' = net
    BY <1>21 DEF FarDials
  <2> QED
    BY <2>1, ClosedNetSteps
<1>22. ASSUME NEW useProxy \in UsesProxy, NkStarts(useProxy)
      PROVE  ClosedNet(net')
  <2>1. net' = net
    BY <1>22 DEF NkStarts
  <2> QED
    BY <2>1, ClosedNetSteps
<1>23. ASSUME NEW t \in Targets, Ask(t)
      PROVE  ClosedNet(net')
  <2>1. net' = net
    BY <1>23 DEF Ask
  <2> QED
    BY <2>1, ClosedNetSteps
<1>24. ASSUME NEW e \in Endpoint, Sends(e)
      PROVE  ClosedNet(net')
  <2>1. sent[e] \in Nat
    BY DEF EndsTyped
  <2> QED
    BY <1>24, <2>1, TypedNow, SendsNet, ClosedNetSteps, EndpointDirs DEF Added, Emptied
<1>25. ASSUME NEW e \in Endpoint, HalfCloses(e)
      PROVE  ClosedNet(net')
  BY <1>25, TypedNow, HalfClosesNet, ClosedNetSteps, EndpointDirs
<1>26. ASSUME NEW e \in Endpoint, Closes(e)
      PROVE  ClosedNet(net')
  BY <1>26, TypedNow, ClosesNet, ClosedNetSteps, EndpointDirs
<1>27. CASE UNCHANGED vars
  <2>1. net' = net
    BY <1>27 DEF vars
  <2> QED
    BY <2>1, ClosedNetSteps
<1> QED
  BY <1>1, <1>2, <1>3, <1>4, <1>5, <1>6, <1>7, <1>8, <1>9, <1>10, <1>11, <1>12, <1>13, <1>14, <1>15, <1>16, <1>17, <1>18, <1>19, <1>20, <1>21, <1>22, <1>23, <1>24, <1>25, <1>26, <1>27 DEF Next, Program, Environment

-----------------------------------------------------------------------------
(* Who holds bytes, and where there are none yet.                          *)
Early == {"idle", "dial", "hijack", "greet"}

(* Neither process returns to a state it has left. *)
NoneReturns ==
    /\ near' \in Early => near \in Early
    /\ far' = "none" => far = "none"
    /\ near' \in {"hijack", "greet", "early"} => mode' = "connect"

LEMMA EmptiedIs ==
    ASSUME NEW x
    PROVE  Emptied(x).q = <<>>
<1>1. PICK s : s = <<>>
  OBVIOUS
<1>2. Emptied(x) = WithQueue(x, s)
  BY <1>1 DEF Emptied
<1>3. WithQueue(x, s).q = s
  BY DEF WithQueue
<1> QED
  BY <1>1, <1>2, <1>3

LEMMA LosingStaysEmpty ==
    ASSUME Stations, Stations', Losing, NEW l \in Link, NEW d \in Dir, net[l][d].q = <<>>
    PROVE  net'[l][d].q = <<>>
<1>1. net'[l][d] = net[l][d] \/ Start(net'[l][d].q, net[l][d].q)
  BY DEF Losing, Lessened, Less
<1>2. net[l][d].q \in Seq(Nat) /\ net'[l][d].q \in Seq(Nat)
  BY DEF Stations
<1>3. ASSUME Start(net'[l][d].q, net[l][d].q)
      PROVE  net'[l][d].q = <<>>
  <2>1. Len(net[l][d].q) = 0 /\ Len(net'[l][d].q) \in Nat
    BY <1>2, EmptySeq
  <2>2. Len(net'[l][d].q) = 0
    BY <1>3, <2>1 DEF Start
  <2> QED
    BY <1>2, <2>2, EmptySeq
<1> QED
  BY <1>1, <1>3

LEMMA NearAndFar ==
    ASSUME TypeOK, Targeted, near \in {"hijack", "greet", "early"} => mode = "connect", [Next]_vars
    PROVE  NoneReturns
<1>1. CASE DialOpens
  <2>1. near = "dial" /\ far' = "header" /\ mode' = mode /\ mode \in {"none", "connect", "ssh"}
    BY <1>1 DEF DialOpens, TypeOK
  <2>2. mode # "none"
    BY <2>1 DEF Targeted
  <2> QED
    BY <1>1, <2>1, <2>2 DEF DialOpens, Early, NoneReturns
<1>2. CASE DialFails
  BY <1>2 DEF DialFails, Early, NoneReturns
<1>3. CASE Hijack
  BY <1>3 DEF Hijack, Early, NoneReturns
<1>4. CASE Greet
  BY <1>4 DEF Greet, Early, NoneReturns
<1>5. CASE SendEarly
  BY <1>5 DEF SendEarly, Early, NoneReturns
<1>6. CASE EarlySent
  BY <1>6 DEF EarlySent, Early, NoneReturns
<1>7. CASE NearFails
  BY <1>7 DEF NearFails, Early, NoneReturns
<1>8. CASE FarReads
  BY <1>8 DEF FarReads, Early, NoneReturns
<1>9. CASE FarFails
  BY <1>9 DEF FarFails, Early, NoneReturns
<1>10. CASE CloseTimeout
  BY <1>10 DEF CloseTimeout, Early, NoneReturns
<1>11. ASSUME NEW p \in Process, RelayReturns(p)
      PROVE  NoneReturns
  BY <1>11 DEF RelayReturns, Early, NoneReturns
<1>12. ASSUME NEW p \in Process, NEW d \in Dir, CopyReads(p, d)
      PROVE  NoneReturns
  BY <1>12 DEF CopyReads, Early, NoneReturns
<1>13. ASSUME NEW p \in Process, NEW d \in Dir, CopyWrites(p, d)
      PROVE  NoneReturns
  BY <1>13 DEF CopyWrites, Early, NoneReturns
<1>14. ASSUME NEW p \in Process, NEW d \in Dir, CopyEnds(p, d)
      PROVE  NoneReturns
  BY <1>14 DEF CopyEnds, Early, NoneReturns
<1>15. ASSUME NEW e \in Endpoint, Gets(e)
      PROVE  NoneReturns
  BY <1>15 DEF Gets, Early, NoneReturns
<1>16. CASE NksStarts
  BY <1>16 DEF NksStarts, Early, NoneReturns
<1>17. CASE NksRestarts
  BY <1>17 DEF NksRestarts, Early, NoneReturns
<1>18. CASE SessionEnds
  BY <1>18 DEF SessionEnds, Early, NoneReturns
<1>19. CASE AskSSH
  BY <1>19 DEF AskSSH, Early, NoneReturns
<1>20. CASE Cancelled
  BY <1>20 DEF Cancelled, Early, NoneReturns
<1>21. CASE FarDials
  BY <1>21 DEF FarDials, Early, NoneReturns
<1>22. ASSUME NEW useProxy \in UsesProxy, NkStarts(useProxy)
      PROVE  NoneReturns
  BY <1>22 DEF NkStarts, Early, NoneReturns
<1>23. ASSUME NEW t \in Targets, Ask(t)
      PROVE  NoneReturns
  BY <1>23 DEF Ask, Early, NoneReturns
<1>24. ASSUME NEW e \in Endpoint, Sends(e)
      PROVE  NoneReturns
  BY <1>24 DEF Sends, Early, NoneReturns
<1>25. ASSUME NEW e \in Endpoint, HalfCloses(e)
      PROVE  NoneReturns
  BY <1>25 DEF HalfCloses, Early, NoneReturns
<1>26. ASSUME NEW e \in Endpoint, Closes(e)
      PROVE  NoneReturns
  BY <1>26 DEF Closes, Early, NoneReturns
<1>27. CASE UNCHANGED vars
  BY <1>27 DEF vars, Early, NoneReturns
<1> QED
  BY <1>1, <1>2, <1>3, <1>4, <1>5, <1>6, <1>7, <1>8, <1>9, <1>10, <1>11, <1>12, <1>13, <1>14, <1>15, <1>16, <1>17, <1>18, <1>19, <1>20, <1>21, <1>22, <1>23, <1>24, <1>25, <1>26, <1>27 DEF Next, Program, Environment

HeldByCopies ==
    \A p \in Process, d \in Dir :
        held[p][d] # <<>> =>
            \/ copy[p][d] = "on"
            \/ p = "near" /\ d = "out" /\ near \in {"greet", "early"}

LEMMA CopiesOn ==
    ASSUME CopyTyped, NEW q \in Process,
           copy' = copy \/ copy' = [copy EXCEPT ![q] = [d \in Dir |-> "on"]]
    PROVE  \A p \in Process, d \in Dir : copy[p][d] = "on" => copy'[p][d] = "on"
<1>1. CASE copy' = copy
  BY <1>1
<1>2. CASE copy' = [copy EXCEPT ![q] = [d \in Dir |-> "on"]]
  <2>1. \A d \in Dir : copy'[q][d] = "on"
    BY <1>2 DEF CopyTyped
  <2>2. \A p \in Process : p # q => copy'[p] = copy[p]
    BY <1>2 DEF CopyTyped
  <2> QED
    BY <2>1, <2>2
<1> QED
  BY <1>1, <1>2

LEMMA HeldByCopiesStep ==
    ASSUME CopyTyped, HeldByCopies, [Next]_vars
    PROVE  HeldByCopies'
<1>1. CASE DialOpens
  <2>1. near = "dial" /\ held' = held
    BY <1>1 DEF DialOpens
  <2>2. copy' = copy \/ copy' = [copy EXCEPT !["near"] = [d \in Dir |-> "on"]]
    BY <1>1 DEF DialOpens
  <2>3. \A p \in Process, d \in Dir : copy[p][d] = "on" => copy'[p][d] = "on"
    BY <2>2, CopiesOn, LinksAndDirs
  <2> QED
    BY <2>1, <2>3 DEF HeldByCopies
<1>2. CASE DialFails
  BY <1>2 DEF DialFails, copyVars, HeldByCopies
<1>3. CASE Hijack
  <2>1. near = "hijack" /\ near' = "greet" /\ copy' = copy
        /\ \E s : held' = [held EXCEPT !["near"]["out"] = s]
    BY <1>3 DEF Hijack
  <2>2. HeldOnly("near", "out")
    BY <2>1, HeldSet, LinksAndDirs
  <2> QED
    BY <2>1, <2>2 DEF HeldByCopies, HeldOnly
<1>4. CASE Greet
  BY <1>4 DEF Greet, copyVars, HeldByCopies
<1>5. CASE SendEarly
  <2>1. near = "early" /\ near' = near /\ copy' = copy
        /\ held' = [held EXCEPT !["near"]["out"] = Tail(held["near"]["out"])]
    BY <1>5 DEF SendEarly
  <2>2. HeldOnly("near", "out")
    BY <2>1, HeldSet, LinksAndDirs
  <2> QED
    BY <2>1, <2>2 DEF HeldByCopies, HeldOnly
<1>6. CASE EarlySent
  <2>1. held["near"]["out"] = <<>> /\ held' = held
    BY <1>6 DEF EarlySent
  <2>2. copy' = copy \/ copy' = [copy EXCEPT !["near"] = [d \in Dir |-> "on"]]
    BY <1>6 DEF EarlySent
  <2>3. \A p \in Process, d \in Dir : copy[p][d] = "on" => copy'[p][d] = "on"
    BY <2>2, CopiesOn, LinksAndDirs
  <2> QED
    BY <2>1, <2>3 DEF HeldByCopies
<1>7. CASE NearFails
  <2>1. /\ held' = [held EXCEPT !["near"]["out"] = <<>>] /\ copy' = copy
    BY <1>7 DEF NearFails
  <2>2. held'["near"]["out"] = <<>> /\ HeldOnly("near", "out")
    BY <2>1, HeldSet, LinksAndDirs
  <2> QED
    BY <2>1, <2>2 DEF HeldByCopies, HeldOnly
<1>8. CASE FarReads
  BY <1>8 DEF FarReads, copyVars, HeldByCopies
<1>9. CASE FarFails
  BY <1>9 DEF FarFails, copyVars, HeldByCopies
<1>10. CASE CloseTimeout
  BY <1>10 DEF CloseTimeout, copyVars, HeldByCopies
<1>11. ASSUME NEW p \in Process, RelayReturns(p)
      PROVE  HeldByCopies'
  BY <1>11 DEF RelayReturns, copyVars, HeldByCopies
<1>12. ASSUME NEW p \in Process, NEW d \in Dir, CopyReads(p, d)
      PROVE  HeldByCopies'
  <2>1. near' = near /\ copy' = copy /\ copy[p][d] = "on"
        /\ held' = [held EXCEPT ![p][d] = <<Head(net[Source(p, d)][d].q)>>]
    BY <1>12 DEF CopyReads
  <2>2. HeldOnly(p, d)
    BY <2>1, HeldSet
  <2> QED
    BY <2>1, <2>2 DEF HeldByCopies, HeldOnly
<1>13. ASSUME NEW p \in Process, NEW d \in Dir, CopyWrites(p, d)
      PROVE  HeldByCopies'
  <2>1. near' = near /\ copy' = copy /\ copy[p][d] = "on"
        /\ held' = [held EXCEPT ![p][d] = Tail(held[p][d])]
    BY <1>13 DEF CopyWrites
  <2>2. HeldOnly(p, d)
    BY <2>1, HeldSet
  <2> QED
    BY <2>1, <2>2 DEF HeldByCopies, HeldOnly
<1>14. ASSUME NEW p \in Process, NEW d \in Dir, CopyEnds(p, d)
      PROVE  HeldByCopies'
  <2>1. near' = near /\ copy' = [copy EXCEPT ![p][d] = "done"]
        /\ held' = [held EXCEPT ![p][d] = <<>>]
    BY <1>14 DEF CopyEnds
  <2>2. held'[p][d] = <<>> /\ HeldOnly(p, d)
    BY <2>1, HeldSet
  <2>3. \A q \in Process, c \in Dir : q # p \/ c # d => copy'[q][c] = copy[q][c]
    BY <2>1 DEF CopyTyped
  <2> QED
    BY <2>1, <2>2, <2>3 DEF HeldByCopies, HeldOnly
<1>15. ASSUME NEW e \in Endpoint, Gets(e)
      PROVE  HeldByCopies'
  BY <1>15 DEF Gets, copyVars, HeldByCopies
<1>16. CASE NksStarts
  BY <1>16 DEF NksStarts, copyVars, HeldByCopies
<1>17. CASE NksRestarts
  BY <1>17 DEF NksRestarts, copyVars, HeldByCopies
<1>18. CASE SessionEnds
  BY <1>18 DEF SessionEnds, copyVars, HeldByCopies
<1>19. CASE AskSSH
  BY <1>19 DEF AskSSH, copyVars, HeldByCopies
<1>20. CASE Cancelled
  BY <1>20 DEF Cancelled, copyVars, HeldByCopies
<1>21. CASE FarDials
  <2>1. near' = near /\ held' = held
    BY <1>21 DEF FarDials
  <2>2. copy' = [copy EXCEPT !["far"] = [d \in Dir |-> "on"]]
    BY <1>21 DEF FarDials
  <2>3. \A p \in Process, d \in Dir : copy[p][d] = "on" => copy'[p][d] = "on"
    BY <2>2, CopiesOn, LinksAndDirs
  <2> QED
    BY <2>1, <2>2 DEF HeldByCopies
<1>22. ASSUME NEW useProxy \in UsesProxy, NkStarts(useProxy)
      PROVE  HeldByCopies'
  BY <1>22 DEF NkStarts, copyVars, HeldByCopies
<1>23. ASSUME NEW t \in Targets, Ask(t)
      PROVE  HeldByCopies'
  BY <1>23 DEF Ask, copyVars, HeldByCopies
<1>24. ASSUME NEW e \in Endpoint, Sends(e)
      PROVE  HeldByCopies'
  BY <1>24 DEF Sends, copyVars, HeldByCopies
<1>25. ASSUME NEW e \in Endpoint, HalfCloses(e)
      PROVE  HeldByCopies'
  BY <1>25 DEF HalfCloses, copyVars, HeldByCopies
<1>26. ASSUME NEW e \in Endpoint, Closes(e)
      PROVE  HeldByCopies'
  BY <1>26 DEF Closes, copyVars, HeldByCopies
<1>27. CASE UNCHANGED vars
  BY <1>27 DEF vars, copyVars, HeldByCopies
<1> QED
  BY <1>1, <1>2, <1>3, <1>4, <1>5, <1>6, <1>7, <1>8, <1>9, <1>10, <1>11, <1>12, <1>13, <1>14, <1>15, <1>16, <1>17, <1>18, <1>19, <1>20, <1>21, <1>22, <1>23, <1>24, <1>25, <1>26, <1>27 DEF Next, Program, Environment

(* Before the relay, what is on its way to the user only becomes less, unless it is answered. *)
LEMMA UserBackShrinks ==
    ASSUME TypeOK, EndsTyped, Placed, Stations, Stations', Losing \/ Moving,
           near \notin {"relay", "over"}, ~DialFails, ~Greet, ~Gets("user")
    PROVE  Start(net'["user"]["back"].q, net["user"]["back"].q)
<1> DEFINE Still == net'["user"]["back"] = net["user"]["back"]
<1>1. net["user"]["back"].q \in Seq(Nat) /\ Len(net["user"]["back"].q) \in Nat
  <2>1. net["user"]["back"].q \in Seq(Nat)
    BY LinksAndDirs DEF Stations
  <2> QED
    BY <2>1, LenProperties
<1>2. ASSUME Still
      PROVE  Start(net'["user"]["back"].q, net["user"]["back"].q)
  BY <1>1, <1>2 DEF Start
<1>3. CASE Losing
  <2>1. Lessened("user", "back")
    BY <1>3, LinksAndDirs DEF Losing
  <2> QED
    BY <1>2, <2>1 DEF Lessened, Less
<1>4. CASE Moving
  <2>1. ASSUME Hijack
        PROVE  Still
    BY <2>1, TypedNow, HijackNet, LinksAndDirs DEF Changed
  <2>2. ASSUME SendEarly
        PROVE  Still
    BY <2>2, TypedNow, SendEarlyNet, LinksAndDirs DEF Changed
  <2>3. ASSUME NEW p \in Process, NEW d \in Dir, CopyReads(p, d)
        PROVE  Still
    <3>1. p = "far"
      <4>1. copy[p][d] # "idle"
        BY <2>3 DEF CopyReads
      <4> QED
        BY <4>1, LinksAndDirs DEF Placed
    <3>2. Source(p, d) # "user" /\ Source(p, d) \in Link
      BY <3>1, LinksAndDirs, SourcesAndSinks
    <3> QED
      BY <2>3, <3>2, TypedNow, CopyReadsNet, LinksAndDirs DEF Changed
  <2>4. ASSUME NEW p \in Process, NEW d \in Dir, CopyWrites(p, d)
        PROVE  Still
    <3>1. p = "far"
      <4>1. copy[p][d] # "idle"
        BY <2>4 DEF CopyWrites
      <4> QED
        BY <4>1, LinksAndDirs DEF Placed
    <3>2. Sink(p, d) # "user" /\ Sink(p, d) \in Link
      BY <3>1, LinksAndDirs, SourcesAndSinks
    <3> QED
      BY <2>4, <3>2, TypedNow, CopyWritesNet, LinksAndDirs DEF Changed
  <2>5. ASSUME NEW e \in Endpoint, Sends(e)
        PROVE  Start(net'["user"]["back"].q, net["user"]["back"].q)
    <3>1. \/ Changed(net, net', e, Opposite(Outward(e)), Emptied(net[e][Opposite(Outward(e))]))
          \/ \E x : Changed(net, net', e, Outward(e), x)
      <4>1. sent[e] \in Nat
        BY DEF EndsTyped
      <4> QED
        BY <2>5, <4>1, TypedNow, SendsNet
    <3>2. CASE e = "user"
      <4>1. Outward(e) = "out" /\ Opposite(Outward(e)) = "back"
        BY <3>2 DEF Outward, Opposite
      <4>2. Still \/ net'["user"]["back"] = Emptied(net["user"]["back"])
        BY <3>1, <3>2, <4>1, LinksAndDirs DEF Changed
      <4>3. ASSUME net'["user"]["back"] = Emptied(net["user"]["back"])
            PROVE  Start(net'["user"]["back"].q, net["user"]["back"].q)
        <5>1. net'["user"]["back"].q = <<>>
          BY <4>3, EmptiedIs
        <5>2. Len(net'["user"]["back"].q) = 0
          BY <5>1
        <5> QED
          BY <1>1, <5>2 DEF Start
      <4> QED
        BY <1>2, <4>2, <4>3
    <3>3. CASE e # "user"
      <4>1. Still
        BY <3>1, <3>3, LinksAndDirs DEF Changed
      <4> QED
        BY <1>2, <4>1
    <3> QED
      BY <3>2, <3>3
  <2>6. ASSUME NEW e \in Endpoint, Gets(e)
        PROVE  Still
    <3>1. e # "user"
      BY <2>6
    <3> QED
      BY <2>6, <3>1, TypedNow, GetsNet, LinksAndDirs DEF Changed
  <2> QED
    BY <1>2, <1>4, <2>1, <2>2, <2>3, <2>4, <2>5, <2>6 DEF Moving
<1> QED
  BY <1>3, <1>4

LEMMA UserGetsNothing ==
    ASSUME EndsTyped, ~Gets("user"), got' = got \/ \E e \in Endpoint : Gets(e)
    PROVE  got'["user"] = got["user"]
<1>1. ASSUME NEW e \in Endpoint, Gets(e)
      PROVE  got'["user"] = got["user"]
  <2>1. e # "user" /\ got' = [got EXCEPT ![e] = Append(got[e], Head(net[e][Opposite(Outward(e))].q))]
    BY <1>1 DEF Gets
  <2> QED
    BY <2>1, LinksAndDirs DEF EndsTyped
<1> QED
  BY <1>1

LEMMA EarlyStaysEmpty ==
    ASSUME TypeOK, EndsTyped, Placed, Stations, Stations', Losing \/ Moving, near \in Early,
           near' \in Early, got["user"] = <<>>, net["user"]["back"].q = <<>>,
           got' = got \/ \E e \in Endpoint : Gets(e)
    PROVE  got'["user"] = <<>> /\ net'["user"]["back"].q = <<>>
<1>1. ~Gets("user")
  BY DEF Gets, Outward, Opposite
<1>2. got'["user"] = <<>>
  BY <1>1, UserGetsNothing
<1>3. ~DialFails /\ ~Greet /\ near \notin {"relay", "over"}
  BY DEF DialFails, Greet, Early
<1>4. Start(net'["user"]["back"].q, net["user"]["back"].q)
  BY <1>1, <1>3, UserBackShrinks
<1>5. Len(net["user"]["back"].q) = 0
  BY EmptySeq
<1>6. net'["user"]["back"].q \in Seq(Nat) /\ Len(net'["user"]["back"].q) \in Nat
  <2>1. net'["user"]["back"].q \in Seq(Nat)
    BY LinksAndDirs DEF Stations
  <2> QED
    BY <2>1, LenProperties
<1>7. Len(net'["user"]["back"].q) = 0
  BY <1>4, <1>5, <1>6 DEF Start
<1> QED
  BY <1>2, <1>6, <1>7, EmptySeq

LEMMA NoneComesBack ==
    ASSUME TypeOK, EndsTyped, Targeted, Placed, Stations, Stations', Losing \/ Moving, far = "none",
           sent["target"] = 0, net["tunnel"]["back"].q = <<>>, net["target"]["back"].q = <<>>,
           sent' = sent \/ \E e \in Endpoint : Sends(e)
    PROVE  sent'["target"] = 0 /\ net'["tunnel"]["back"].q = <<>> /\ net'["target"]["back"].q = <<>>
<1>1. ASSUME Present("target")
      PROVE  FALSE
  BY <1>1 DEF Present, Targeted
<1>2. sent'["target"] = 0
  <2>1. ASSUME NEW e \in Endpoint, Sends(e)
        PROVE  sent'["target"] = 0
    <3>1. e # "target" /\ sent' = [sent EXCEPT ![e] = sent[e] + 1]
      BY <1>1, <2>1 DEF Sends
    <3> QED
      BY <3>1, LinksAndDirs DEF EndsTyped
  <2> QED
    BY <2>1
<1>3. CASE Losing
  BY <1>2, <1>3, LosingStaysEmpty, LinksAndDirs
<1>4. CASE Moving
  <2> DEFINE Still == /\ net'["tunnel"]["back"] = net["tunnel"]["back"]
                      /\ net'["target"]["back"] = net["target"]["back"]
  <2>1. ASSUME DialFails, mode # "ssh"
        PROVE  Still
    BY <2>1, TypedNow, DialFailsNet, LinksAndDirs DEF Changed
  <2>2. ASSUME Hijack
        PROVE  Still
    BY <2>2, TypedNow, HijackNet, LinksAndDirs DEF Changed
  <2>3. ASSUME Greet
        PROVE  Still
    BY <2>3, TypedNow, GreetNet, LinksAndDirs DEF Changed
  <2>4. ASSUME SendEarly
        PROVE  Still
    BY <2>4, TypedNow, SendEarlyNet, LinksAndDirs DEF Changed
  <2>5. ASSUME NEW p \in Process, NEW d \in Dir, CopyReads(p, d)
        PROVE  Still
    <3>1. p = "near" /\ net[Source(p, d)][d].q # <<>>
      <4>1. copy[p][d] # "idle" /\ net[Source(p, d)][d].q # <<>>
        BY <2>5 DEF CopyReads
      <4> QED
        BY <4>1, LinksAndDirs DEF Placed
    <3>2. d = "out" /\ Source(p, d) = "user"
      BY <3>1, LinksAndDirs, SourcesAndSinks
    <3> QED
      BY <2>5, <3>2, TypedNow, CopyReadsNet, LinksAndDirs DEF Changed
  <2>6. ASSUME NEW p \in Process, NEW d \in Dir, CopyWrites(p, d)
        PROVE  Still
    <3>1. p = "near"
      <4>1. copy[p][d] # "idle"
        BY <2>6 DEF CopyWrites
      <4> QED
        BY <4>1, LinksAndDirs DEF Placed
    <3>2. (d = "out" /\ Sink(p, d) = "tunnel") \/ (d = "back" /\ Sink(p, d) = "user")
      BY <3>1, LinksAndDirs, SourcesAndSinks
    <3> QED
      BY <2>6, <3>2, TypedNow, CopyWritesNet, LinksAndDirs DEF Changed
  <2>7. ASSUME NEW e \in Endpoint, Sends(e)
        PROVE  Still
    <3>1. e # "target"
      BY <1>1, <2>7 DEF Sends
    <3>2. \E d \in Dir : \E x : Changed(net, net', e, d, x)
      <4>1. sent[e] \in Nat
        BY DEF EndsTyped
      <4> QED
        BY <2>7, <4>1, TypedNow, SendsNet, EndpointDirs
    <3> QED
      BY <3>1, <3>2, LinksAndDirs DEF Changed
  <2>8. ASSUME NEW e \in Endpoint, Gets(e)
        PROVE  Still
    <3>1. e # "target"
      BY <1>1, <2>8 DEF Gets
    <3> QED
      BY <2>8, <3>1, TypedNow, GetsNet, LinksAndDirs DEF Changed
  <2>9. Still
    BY <1>4, <2>1, <2>2, <2>3, <2>4, <2>5, <2>6, <2>7, <2>8 DEF Moving
  <2> QED
    BY <1>2, <2>9
<1> QED
  BY <1>3, <1>4

LEMMA SentStep ==
    ASSUME TRUE, [Next]_vars
    PROVE  sent' = sent \/ \E f \in Endpoint : Sends(f)
<1>1. CASE DialOpens
  BY <1>1 DEF DialOpens, endVars
<1>2. CASE DialFails
  BY <1>2 DEF DialFails, endVars
<1>3. CASE Hijack
  BY <1>3 DEF Hijack, endVars
<1>4. CASE Greet
  BY <1>4 DEF Greet, endVars
<1>5. CASE SendEarly
  BY <1>5 DEF SendEarly, endVars
<1>6. CASE EarlySent
  BY <1>6 DEF EarlySent, endVars
<1>7. CASE NearFails
  BY <1>7 DEF NearFails, endVars
<1>8. CASE FarReads
  BY <1>8 DEF FarReads, endVars
<1>9. CASE FarFails
  BY <1>9 DEF FarFails, endVars
<1>10. CASE CloseTimeout
  BY <1>10 DEF CloseTimeout, endVars
<1>11. ASSUME NEW p \in Process, RelayReturns(p)
      PROVE  sent' = sent \/ \E f \in Endpoint : Sends(f)
  BY <1>11 DEF RelayReturns, endVars
<1>12. ASSUME NEW p \in Process, NEW d \in Dir, CopyReads(p, d)
      PROVE  sent' = sent \/ \E f \in Endpoint : Sends(f)
  BY <1>12 DEF CopyReads, endVars
<1>13. ASSUME NEW p \in Process, NEW d \in Dir, CopyWrites(p, d)
      PROVE  sent' = sent \/ \E f \in Endpoint : Sends(f)
  BY <1>13 DEF CopyWrites, endVars
<1>14. ASSUME NEW p \in Process, NEW d \in Dir, CopyEnds(p, d)
      PROVE  sent' = sent \/ \E f \in Endpoint : Sends(f)
  BY <1>14 DEF CopyEnds, endVars
<1>15. ASSUME NEW e \in Endpoint, Gets(e)
      PROVE  sent' = sent \/ \E f \in Endpoint : Sends(f)
  BY <1>15 DEF Gets, endVars
<1>16. CASE NksStarts
  BY <1>16 DEF NksStarts, endVars
<1>17. CASE NksRestarts
  BY <1>17 DEF NksRestarts, endVars
<1>18. CASE SessionEnds
  BY <1>18 DEF SessionEnds, endVars
<1>19. CASE AskSSH
  BY <1>19 DEF AskSSH, endVars
<1>20. CASE Cancelled
  BY <1>20 DEF Cancelled, endVars
<1>21. CASE FarDials
  BY <1>21 DEF FarDials, endVars
<1>22. ASSUME NEW useProxy \in UsesProxy, NkStarts(useProxy)
      PROVE  sent' = sent \/ \E f \in Endpoint : Sends(f)
  BY <1>22 DEF NkStarts, endVars
<1>23. ASSUME NEW t \in Targets, Ask(t)
      PROVE  sent' = sent \/ \E f \in Endpoint : Sends(f)
  BY <1>23 DEF Ask, endVars
<1>24. ASSUME NEW e \in Endpoint, Sends(e)
      PROVE  sent' = sent \/ \E f \in Endpoint : Sends(f)
  BY <1>24
<1>25. ASSUME NEW e \in Endpoint, HalfCloses(e)
      PROVE  sent' = sent \/ \E f \in Endpoint : Sends(f)
  BY <1>25 DEF HalfCloses, endVars
<1>26. ASSUME NEW e \in Endpoint, Closes(e)
      PROVE  sent' = sent \/ \E f \in Endpoint : Sends(f)
  BY <1>26 DEF Closes, endVars
<1>27. CASE UNCHANGED vars
  BY <1>27 DEF vars, endVars
<1> QED
  BY <1>1, <1>2, <1>3, <1>4, <1>5, <1>6, <1>7, <1>8, <1>9, <1>10, <1>11, <1>12, <1>13, <1>14, <1>15, <1>16, <1>17, <1>18, <1>19, <1>20, <1>21, <1>22, <1>23, <1>24, <1>25, <1>26, <1>27 DEF Next, Program, Environment

LEMMA HoldsStep ==
    ASSUME TypeOK, CopyTyped, EndsTyped, Targeted, Placed, Stations, Stations', HoldsForSomeone,
           Losing \/ Moving, [Next]_vars
    PROVE  HoldsForSomeone'
<1>1. /\ near' \in Early => near \in Early
      /\ far' = "none" => far = "none"
      /\ near' \in {"hijack", "greet", "early"} => mode' = "connect"
  BY NearAndFar DEF HoldsForSomeone, NoneReturns
<1>2. HeldByCopies'
  BY HeldByCopiesStep DEF HoldsForSomeone, HeldByCopies
<1>3. near' \in Early => got'["user"] = <<>> /\ net'["user"]["back"].q = <<>>
  BY <1>1, EarlyStaysEmpty, GotStep DEF HoldsForSomeone, Early
<1>4. far' = "none" =>
          sent'["target"] = 0 /\ net'["tunnel"]["back"].q = <<>> /\ net'["target"]["back"].q = <<>>
  BY <1>1, NoneComesBack, SentStep DEF HoldsForSomeone
<1> QED
  BY <1>1, <1>2, <1>3, <1>4 DEF HoldsForSomeone, HeldByCopies, Early

-----------------------------------------------------------------------------
(* A refused user.                                                         *)

OnlyRefused == near' = "refused" => near = "refused" \/ DialFails

LEMMA RefusedStep ==
    ASSUME TRUE, [Next]_vars
    PROVE  OnlyRefused
<1>1. CASE DialOpens
  BY <1>1 DEF DialOpens, OnlyRefused
<1>2. CASE DialFails
  BY <1>2 DEF OnlyRefused
<1>3. CASE Hijack
  BY <1>3 DEF Hijack, OnlyRefused
<1>4. CASE Greet
  BY <1>4 DEF Greet, OnlyRefused
<1>5. CASE SendEarly
  BY <1>5 DEF SendEarly, OnlyRefused
<1>6. CASE EarlySent
  BY <1>6 DEF EarlySent, OnlyRefused
<1>7. CASE NearFails
  BY <1>7 DEF NearFails, OnlyRefused
<1>8. CASE FarReads
  BY <1>8 DEF FarReads, OnlyRefused
<1>9. CASE FarFails
  BY <1>9 DEF FarFails, OnlyRefused
<1>10. CASE CloseTimeout
  BY <1>10 DEF CloseTimeout, OnlyRefused
<1>11. ASSUME NEW p \in Process, RelayReturns(p)
      PROVE  OnlyRefused
  BY <1>11 DEF RelayReturns, OnlyRefused
<1>12. ASSUME NEW p \in Process, NEW d \in Dir, CopyReads(p, d)
      PROVE  OnlyRefused
  BY <1>12 DEF CopyReads, OnlyRefused
<1>13. ASSUME NEW p \in Process, NEW d \in Dir, CopyWrites(p, d)
      PROVE  OnlyRefused
  BY <1>13 DEF CopyWrites, OnlyRefused
<1>14. ASSUME NEW p \in Process, NEW d \in Dir, CopyEnds(p, d)
      PROVE  OnlyRefused
  BY <1>14 DEF CopyEnds, OnlyRefused
<1>15. ASSUME NEW e \in Endpoint, Gets(e)
      PROVE  OnlyRefused
  BY <1>15 DEF Gets, OnlyRefused
<1>16. CASE NksStarts
  BY <1>16 DEF NksStarts, OnlyRefused
<1>17. CASE NksRestarts
  BY <1>17 DEF NksRestarts, OnlyRefused
<1>18. CASE SessionEnds
  BY <1>18 DEF SessionEnds, OnlyRefused
<1>19. CASE AskSSH
  BY <1>19 DEF AskSSH, OnlyRefused
<1>20. CASE Cancelled
  BY <1>20 DEF Cancelled, OnlyRefused
<1>21. CASE FarDials
  BY <1>21 DEF FarDials, OnlyRefused
<1>22. ASSUME NEW useProxy \in UsesProxy, NkStarts(useProxy)
      PROVE  OnlyRefused
  BY <1>22 DEF NkStarts, OnlyRefused
<1>23. ASSUME NEW t \in Targets, Ask(t)
      PROVE  OnlyRefused
  BY <1>23 DEF Ask, OnlyRefused
<1>24. ASSUME NEW e \in Endpoint, Sends(e)
      PROVE  OnlyRefused
  BY <1>24 DEF Sends, OnlyRefused
<1>25. ASSUME NEW e \in Endpoint, HalfCloses(e)
      PROVE  OnlyRefused
  BY <1>25 DEF HalfCloses, OnlyRefused
<1>26. ASSUME NEW e \in Endpoint, Closes(e)
      PROVE  OnlyRefused
  BY <1>26 DEF Closes, OnlyRefused
<1>27. CASE UNCHANGED vars
  BY <1>27 DEF vars, OnlyRefused
<1> QED
  BY <1>1, <1>2, <1>3, <1>4, <1>5, <1>6, <1>7, <1>8, <1>9, <1>10, <1>11, <1>12, <1>13, <1>14, <1>15, <1>16, <1>17, <1>18, <1>19, <1>20, <1>21, <1>22, <1>23, <1>24, <1>25, <1>26, <1>27 DEF Next, Program, Environment

LEMMA StartOfRefusal ==
    ASSUME NEW x \in Refusal \cup {<<>>}, NEW y \in Seq(Nat), Start(y, x)
    PROVE  y \in Refusal \cup {<<>>}
<1>1. x \in {<<403>>, <<502>>, <<>>}
  BY DEF Refusal
<1>2. Len(y) \in Nat
  OBVIOUS
<1>3. CASE x = <<>>
  <2>1. Len(y) = 0
    BY <1>2, <1>3 DEF Start
  <2> QED
    BY <2>1, EmptySeq
<1>4. CASE x # <<>>
  <2>1. Len(x) = 1 /\ x[1] \in {403, 502}
    BY <1>1, <1>4
  <2>2. CASE Len(y) = 0
    BY <2>2, EmptySeq
  <2>3. CASE Len(y) # 0
    <3>1. Len(y) = 1
      BY <1>2, <2>1, <2>3 DEF Start
    <3>2. y[1] = x[1]
      BY <3>1 DEF Start
    <3>3. y = <<y[1]>>
      BY <3>1
    <3> QED
      BY <2>1, <3>2, <3>3 DEF Refusal
  <2> QED
    BY <2>2, <2>3
<1> QED
  BY <1>3, <1>4

LEMMA TakesRefusal ==
    ASSUME NEW x \in Refusal, NEW e, e = <<>>
    PROVE  Append(e, Head(x)) = x /\ Tail(x) = <<>> /\ x # <<>>
<1>1. PICK v \in {403, 502} : x = <<v>>
  BY DEF Refusal
<1> QED
  BY <1>1

LEMMA AnsweredStep ==
    ASSUME TypeOK, EndsTyped, Placed, Stations, Stations', HoldsForSomeone,
           near = "refused" => Answered, Losing \/ Moving, near' = "refused", [Next]_vars
    PROVE  Answered'
<1>1. got' = got \/ \E e \in Endpoint : Gets(e)
  BY GotStep
<1>2. CASE DialFails
  <2>1. near = "dial" /\ got' = got
    BY <1>2 DEF DialFails, endVars
  <2>2. got["user"] = <<>> /\ net["user"]["back"].q = <<>>
    BY <2>1 DEF HoldsForSomeone
  <2>3. CASE net' = net \/ ClosedTo(net, net', "user", "back")
    <3>1. net'["user"]["back"].q = <<>>
      BY <2>2, <2>3, PipeFields DEF ClosedTo
    <3> QED
      BY <2>1, <2>2, <3>1 DEF Answered
  <2>4. ASSUME NEW code \in {403, 502}, net'["user"]["back"] = Added(net["user"]["back"], code)
        PROVE  Answered'
    <3>1. net'["user"]["back"].q = Append(net["user"]["back"].q, code)
      <4>1. \A v : Added(net["user"]["back"], v).q = Append(net["user"]["back"].q, v)
        BY DEF Added, WithQueue
      <4> QED
        BY <2>4, <4>1
    <3>2. Append(net["user"]["back"].q, code) = <<code>>
      BY <2>2
    <3>3. net'["user"]["back"].q \in Refusal
      BY <3>1, <3>2 DEF Refusal
    <3> QED
      BY <2>1, <2>2, <3>3 DEF Answered
  <2> QED
    BY <1>2, <2>3, <2>4, TypedNow, DialFailsNet DEF Changed
<1>3. CASE ~DialFails
  <2>1. near = "refused" /\ Answered
    BY <1>3, RefusedStep DEF OnlyRefused
  <2>2. CASE Gets("user")
    <3>1. /\ Changed(net, net', "user", "back", Taken(net["user"]["back"]))
          /\ net["user"]["back"].q # <<>>
          /\ got' = [got EXCEPT !["user"] = Append(got["user"], Head(net["user"]["back"].q))]
      <4>1. Opposite(Outward("user")) = "back"
        BY DEF Opposite, Outward
      <4> QED
        BY <2>2, <4>1, TypedNow, GetsNet, LinksAndDirs
    <3>2. got["user"] = <<>> /\ net["user"]["back"].q \in Refusal
      BY <2>1, <3>1 DEF Answered
    <3>3. got'["user"] = Append(got["user"], Head(net["user"]["back"].q))
      BY <3>1, LinksAndDirs DEF EndsTyped
    <3>4. net'["user"]["back"].q = Tail(net["user"]["back"].q)
      BY <3>1, TakenIs DEF Changed
    <3>5. got'["user"] = net["user"]["back"].q /\ net'["user"]["back"].q = <<>>
      BY <3>2, <3>3, <3>4, TakesRefusal
    <3> QED
      BY <3>2, <3>5 DEF Answered
  <2>3. CASE ~Gets("user")
    <3>1. got'["user"] = got["user"]
      BY <1>1, <2>3, UserGetsNothing
    <3>2. ~Greet /\ near \notin {"relay", "over"}
      BY <2>1 DEF Greet
    <3>3. Start(net'["user"]["back"].q, net["user"]["back"].q)
      BY <1>3, <2>3, <3>2, UserBackShrinks
    <3>4. net'["user"]["back"].q \in Seq(Nat)
      BY LinksAndDirs DEF Stations
    <3>5. CASE got["user"] = <<>> /\ net["user"]["back"].q \in Refusal \cup {<<>>}
      BY <3>1, <3>3, <3>4, <3>5, StartOfRefusal DEF Answered
    <3>6. CASE got["user"] \in Refusal /\ net["user"]["back"].q = <<>>
      <4>1. Len(net["user"]["back"].q) = 0
        BY <3>6, EmptySeq
      <4>2. Len(net'["user"]["back"].q) = 0
        BY <3>3, <3>4, <4>1 DEF Start
      <4>3. net'["user"]["back"].q = <<>>
        BY <3>4, <4>2, EmptySeq
      <4> QED
        BY <3>1, <3>6, <4>3 DEF Answered
    <3> QED
      BY <2>1, <3>5, <3>6 DEF Answered
  <2> QED
    BY <2>2, <2>3
<1> QED
  BY <1>2, <1>3

-----------------------------------------------------------------------------
(***************************************************************************)
(* The invariant holds: it does at first ...                               *)
(***************************************************************************)

LEMMA InitOrdered ==
    ASSUME Init
    PROVE  Ordered
<1>1. Stations
  BY InitTyped, StationsTyped
<1>2. PICK e \in Seq(Nat) : e = <<>>
  BY EmptySeq
<1>3. /\ \A l \in Link, d \in Dir :
             net[l][d].q = e /\ ~net[l][d].fin /\ ~net[l][d].shut
      /\ \A p \in Process, d \in Dir : held[p][d] = e
      /\ \A f \in Endpoint : got[f] = e /\ sent[f] = 0
      /\ near = "idle" /\ far = "none" /\ mode = "none"
  BY <1>2 DEF Init
<1>4. Len(e) = 0 /\ At(e, 0, OutText) /\ At(e, 0, BackText)
  <2>1. Len(e) = 0
    BY <1>2
  <2>2. Len(OutText) \in Nat /\ Len(BackText) \in Nat
    BY OutTextIs, BackTextIs, LenProperties
  <2> QED
    BY <2>1, <2>2 DEF At
<1>5. OutChain
  <2>1. Chain(OutText, Len(e), e, net["target"]["out"], e,
              net["tunnel"]["out"], e, net["user"]["out"])
    BY <1>1, <1>2, <1>3, <1>4, OutStations, FreshChain, LinksAndDirs
  <2> QED
    BY <1>3, <1>4, <2>1, LinksAndDirs DEF OutChain
<1>6. Greeting = e /\ Reply = e /\ Len(Greeting) + sent["target"] = Len(e)
  <2>1. Greeting = e /\ Reply = e
    BY <1>2, <1>3, LinksAndDirs DEF Greeting, Reply, Answering
  <2> QED
    BY <1>3, <1>4, <2>1, LinksAndDirs
<1>7. BackChain
  <2>1. Chain(BackText, Len(e), e, net["user"]["back"], e,
              net["tunnel"]["back"], e, net["target"]["back"])
    BY <1>1, <1>2, <1>3, <1>4, BackStations, FreshChain, LinksAndDirs
  <2> QED
    BY <1>3, <1>6, <2>1, LinksAndDirs DEF BackChain
<1>8. HoldsForSomeone
  BY <1>2, <1>3, LinksAndDirs DEF HoldsForSomeone
<1>9. ClosedBothWays /\ WithinLimits
  BY <1>3, EndpointDirs DEF ClosedBothWays, WithinLimits
<1> QED
  BY <1>3, <1>5, <1>7, <1>8, <1>9 DEF Ordered

(* ... and every step keeps it. *)
LEMMA OrderStep ==
    ASSUME ForwardingInv, ForwardingInv', Ordered, [Next]_vars
    PROVE  Ordered'
<1>1. /\ TypeOK /\ CopyTyped /\ EndsTyped /\ Targeted /\ Placed
  BY TypeSplit DEF ForwardingInv, Undisturbed, Placed
<1>2. Stations /\ Stations'
  BY <1>1, StationsTyped, StationsTypedNext DEF ForwardingInv
<1>3. Chains /\ HoldsForSomeone /\ ClosedBothWays /\ WithinLimits
  BY DEF Ordered, Chains
<1>4. Chains' /\ (Losing \/ Moving)
  BY <1>1, <1>2, <1>3, ChainsStep
<1>5. HoldsForSomeone'
  BY <1>1, <1>2, <1>3, <1>4, HoldsStep
<1>6. ClosedBothWays'
  <2>1. ClosedNet(net)
    BY <1>3 DEF ClosedBothWays, ClosedNet
  <2>2. ClosedNet(net')
    BY <1>1, <2>1, ClosedNetStep
  <2> QED
    BY <2>2 DEF ClosedBothWays, ClosedNet
<1>7. WithinLimits'
  BY <1>1, <1>3, WithinLimitsStep
<1>8. near' = "refused" => Answered'
  <2>1. near = "refused" => Answered
    BY DEF Ordered
  <2> QED
    BY <1>1, <1>2, <1>3, <1>4, <2>1, AnsweredStep
<1> QED
  BY <1>4, <1>5, <1>6, <1>7, <1>8 DEF Ordered, Chains

(* Who was not refused has the answer and the text of the target. *)
LEMMA AnswerInOrder ==
    ASSUME TypeOK, Ordered, near # "refused"
    PROVE  StartOf(got["user"], Greeting \o Text("target", sent["target"]))
<1>1. /\ TargetBytes \in Nat /\ Greeting \in Seq(Nat) /\ BackText \in Seq(Nat)
      /\ Len(BackText) = Len(Greeting) + TargetBytes
      /\ \A i \in 1 .. Len(Greeting) : BackText[i] = Greeting[i]
      /\ \A i \in 1 .. TargetBytes : BackText[Len(Greeting) + i] = Base("target") + i
  BY BackTextIs
<1>2. /\ got["user"] \in Seq(Nat) /\ net["user"]["back"].q \in Seq(Nat) /\ sent["target"] \in Nat
  BY StationsTyped, LinksAndDirs DEF Stations
<1>3. PICK a \in Nat, b \in Nat, n \in Nat, g \in Nat :
          /\ a = Len(got["user"]) /\ b = Len(net["user"]["back"].q) /\ n = sent["target"]
          /\ g = Len(Greeting)
  BY <1>1, <1>2, LenProperties
<1>4. Block(BackText, g + n, 0, got["user"], net["user"]["back"].q)
  BY <1>3 DEF Ordered, BackChain, Chain
<1>5. 0 + a <= g + TargetBytes /\ 0 + a + b <= g + n
  BY <1>1, <1>3, <1>4 DEF Block, At, Behind
<1>6. a <= g + n /\ a <= g + TargetBytes
  BY <1>1, <1>5
<1>7. \A i \in 1 .. a : got["user"][i] = BackText[0 + i]
  BY <1>3, <1>4 DEF Block, At
<1>8. PICK x \in Seq(Nat) : x = Text("target", n)
  BY TextIs, LinksAndDirs
<1>9. Len(x) = n /\ \A i \in 1 .. n : x[i] = Base("target") + i
  BY <1>8, TextIs, LinksAndDirs
<1>10. /\ Len(Greeting \o x) = g + n
       /\ \A i \in 1 .. g + n : (Greeting \o x)[i] = IF i <= g THEN Greeting[i] ELSE x[i - g]
  <2>1. PICK y \in Seq(Nat) : y = Greeting
    BY <1>1
  <2>2. Len(y) = g /\ Len(x) = n
    BY <1>3, <1>9, <2>1
  <2>3. Len(y \o x) = Len(y) + Len(x)
    BY ConcatProperties
  <2>4. \A i \in 1 .. Len(y) + Len(x) : (y \o x)[i] = IF i <= Len(y) THEN y[i] ELSE x[i - Len(y)]
    BY ConcatProperties
  <2> QED
    BY <2>1, <2>2, <2>3, <2>4
<1>11. ASSUME NEW i \in 1 .. a
       PROVE  got["user"][i] = (Greeting \o x)[i]
  <2>1. i \in 1 .. g + n /\ 0 + i = i
    BY <1>6
  <2>2. CASE i <= g
    <3>1. i \in 1 .. g
      BY <2>2
    <3> QED
      BY <1>1, <1>3, <1>7, <1>10, <2>1, <2>2, <3>1
  <2>3. CASE ~(i <= g)
    <3>1. i - g \in 1 .. n /\ i - g \in 1 .. TargetBytes /\ g + (i - g) = i
      BY <1>1, <1>6, <2>3
    <3>2. (Greeting \o x)[i] = Base("target") + (i - g)
      BY <1>9, <1>10, <2>1, <2>3, <3>1
    <3>3. BackText[g + (i - g)] = Base("target") + (i - g)
      BY <1>1, <1>3, <3>1
    <3> QED
      BY <1>7, <2>1, <3>1, <3>2, <3>3
  <2> QED
    BY <2>2, <2>3
<1>12. StartOf(got["user"], Greeting \o x)
  BY <1>3, <1>6, <1>10, <1>11 DEF StartOf
<1> QED
  BY <1>3, <1>8, <1>12

LEMMA OrderedInOrder ==
    ASSUME TypeOK, Ordered
    PROVE  InOrder
<1>1. Stations
  BY StationsTyped
<1>2. StartOf(got["target"], Text("user", sent["user"]))
  <2>1. /\ OutText \in Seq(Nat) /\ \A i \in 1 .. UserBytes : OutText[i] = Base("user") + i
        /\ Len(OutText) = UserBytes /\ UserBytes \in Nat
    BY OutTextIs
  <2>2. /\ got["target"] \in Seq(Nat) /\ net["target"]["out"].q \in Seq(Nat) /\ sent["user"] \in Nat
    BY <1>1, LinksAndDirs DEF Stations
  <2>3. PICK a \in Nat, b \in Nat, n \in Nat :
            a = Len(got["target"]) /\ b = Len(net["target"]["out"].q) /\ n = sent["user"]
    BY <2>2, LenProperties
  <2>4. Block(OutText, n, 0, got["target"], net["target"]["out"].q)
    BY <2>3 DEF Ordered, OutChain, Chain
  <2>5. 0 + a <= UserBytes /\ 0 + a + b <= n
    BY <2>1, <2>3, <2>4 DEF Block, At, Behind
  <2>6. a <= n /\ a <= UserBytes
    BY <2>1, <2>5
  <2>7. \A i \in 1 .. a : got["target"][i] = OutText[0 + i]
    BY <2>3, <2>4 DEF Block, At
  <2>8. Len(Text("user", n)) = n /\ \A i \in 1 .. n : Text("user", n)[i] = Base("user") + i
    BY TextIs, LinksAndDirs
  <2>9. \A i \in 1 .. a : got["target"][i] = Text("user", n)[i]
    <3> TAKE i \in 1 .. a
    <3>1. i \in 1 .. n /\ i \in 1 .. UserBytes /\ 0 + i = i
      BY <2>1, <2>6
    <3> QED
      BY <2>1, <2>7, <2>8, <3>1
  <2> QED
    BY <2>3, <2>6, <2>8, <2>9 DEF StartOf
<1>3. near # "refused" => StartOf(got["user"], Greeting \o Text("target", sent["target"]))
  BY AnswerInOrder
<1>4. ASSUME near = "refused"
      PROVE  \/ StartOf(got["user"], Greeting \o Text("target", sent["target"]))
             \/ got["user"] \in {<<403>>, <<502>>}
  <2>1. Answered
    BY <1>4 DEF Ordered
  <2>2. CASE got["user"] = <<>>
    <3>1. Greeting \o Text("target", sent["target"]) \in Seq(Nat)
      <4>1. Greeting \in Seq(Nat) /\ Text("target", sent["target"]) \in Seq(Nat)
        BY <1>1, BackTextIs, TextIs, LinksAndDirs DEF Stations
      <4> QED
        BY <4>1, ConcatProperties
    <3>2. PICK z \in Seq(Nat) : z = Greeting \o Text("target", sent["target"])
      BY <3>1
    <3>3. StartOf(got["user"], z)
      BY <2>2, LenProperties DEF StartOf
    <3> QED
      BY <3>2, <3>3
  <2>3. CASE got["user"] \in Refusal
    BY <2>3 DEF Refusal
  <2> QED
    BY <2>1, <2>2, <2>3 DEF Answered
<1> QED
  BY <1>2, <1>3, <1>4 DEF InOrder, Greeting

(* The text, the places of its bytes in it and who may still add to it: an *)
(* invariant of every step, on top of ForwardingInv.                       *)
THEOREM OrderHolds == Spec => []Ordered
<1>1. Init => Ordered
  BY InitOrdered
<1>2. ForwardingInv /\ ForwardingInv' /\ Ordered /\ [Next]_vars => Ordered'
  BY OrderStep
<1>3. Spec => []ForwardingInv
  BY InvariantHolds
<1> QED
  BY <1>1, <1>2, <1>3, PTL DEF Spec

(* Either end gets what the other has sent, in order and from the start.   *)
THEOREM OrderIsKept == Spec => []InOrder
<1>1. TypeOK /\ Ordered => InOrder
  BY OrderedInOrder
<1> QED
  BY <1>1, OrderHolds, TypeCorrect, PTL

-----------------------------------------------------------------------------
(***************************************************************************)
(* Nothing is lost on a way that its sender alone ends.                    *)
(*                                                                         *)
(* The way of the bytes of e: its connection, the copy of its own process, *)
(* the stream, the copy of the other process, and the connection of the    *)
(* other endpoint.  While nothing else happens to the connection, these    *)
(* end in turn, each one empty; the opposite direction ends later.         *)
(***************************************************************************)

(* The process an endpoint is connected to. *)
Host(e) == IF e = "user" THEN "near" ELSE "far"

(* Nothing has happened that may cost bytes on the way from e. *)
Calm(e) ==
    /\ ended[e] # "closed" /\ ended[Other(e)] = "open"
    /\ session # "closed" /\ ~cancelled /\ ~lost
    /\ near # "refused" /\ (far = "over" => reached # Nowhere)

(* The way from e to f is direction d, o the opposite one, p and r are     *)
(* their processes.                                                        *)
InTurn(e, f, d, o, p, r) ==
    /\ net[f][d].fin => copy[r][d] = "done"
    /\ copy[r][d] = "done" => net["tunnel"][d].fin /\ net["tunnel"][d].q = <<>>
    /\ net["tunnel"][d].fin => copy[p][d] = "done"
    /\ copy[p][d] = "done" => net[e][d].fin /\ net[e][d].q = <<>>
    /\ net[e][d].shut \/ net[e][o].fin \/ net["tunnel"][o].fin => copy[p][d] = "done"
    /\ net["tunnel"][o].fin => copy[r][o] = "done"
    /\ ~net[f][o].fin /\ ~net[e][o].shut /\ ~net[f][d].shut
    /\ ~net["tunnel"][d].shut /\ ~net["tunnel"][o].shut

EndInTurn(e) == InTurn(e, Other(e), Outward(e), Opposite(Outward(e)), Host(e), Host(Other(e)))

(* A handler is over when its copies are done. *)
OverAtLast ==
    /\ near = "over" => \A d \in Dir : copy["near"][d] = "done"
    /\ far = "over" => \A d \in Dir : copy["far"][d] = "done"

(* The bytes between the endpoints. *)
Inside(d) ==
    Len(net["user"][d].q) + Len(held["near"][d]) + Len(net["tunnel"][d].q)
        + Len(held["far"][d]) + Len(net["target"][d].q)

(* The answer of nks goes to the user before the bytes of the target. *)
Replies(e) == IF e = "target" /\ mode = "connect" /\ near \notin Early THEN 1 ELSE 0

NothingLost(e) == Inside(Outward(e)) + Len(got[Other(e)]) = sent[e] + Replies(e)

KeptWhole == \A e \in Endpoint : Calm(e) => EndInTurn(e) /\ OverAtLast /\ NothingLost(e)

LEMMA Ways ==
    ASSUME NEW e \in Endpoint
    PROVE  /\ Other(e) \in Endpoint /\ Other(e) # e /\ e # "tunnel" /\ Other(e) # "tunnel"
           /\ Other(Other(e)) = e /\ \A f \in Endpoint : f = e \/ f = Other(e)
           /\ e \in Link /\ Other(e) \in Link /\ "tunnel" \in Link
           /\ Outward(e) \in Dir /\ Opposite(Outward(e)) \in Dir
           /\ Opposite(Outward(e)) # Outward(e) /\ Outward(Other(e)) = Opposite(Outward(e))
           /\ Host(e) \in Process /\ Host(Other(e)) \in Process /\ Host(e) # Host(Other(e))
           /\ \A p \in Process : p = Host(e) \/ p = Host(Other(e))
           /\ \A c \in Dir : c = Outward(e) \/ c = Opposite(Outward(e))
           /\ Source(Host(e), Outward(e)) = e /\ Sink(Host(e), Outward(e)) = "tunnel"
           /\ Source(Host(Other(e)), Outward(e)) = "tunnel"
           /\ Sink(Host(Other(e)), Outward(e)) = Other(e)
           /\ Source(Host(e), Opposite(Outward(e))) = "tunnel"
           /\ Sink(Host(e), Opposite(Outward(e))) = e
           /\ Source(Host(Other(e)), Opposite(Outward(e))) = Other(e)
           /\ Sink(Host(Other(e)), Opposite(Outward(e))) = "tunnel"
<1>1. CASE e = "user"
  BY <1>1, SourcesAndSinks DEF Other, Endpoint, Link, Dir, Outward, Opposite, Host, Process
<1>2. CASE e = "target"
  BY <1>2, SourcesAndSinks DEF Other, Endpoint, Link, Dir, Outward, Opposite, Host, Process
<1> QED
  BY <1>1, <1>2 DEF Endpoint

(* What has happened once has happened for good. *)
LEMMA CalmBefore ==
    ASSUME TypeOK, EndsTyped, Targeted, NEW e \in Endpoint, Calm(e)', [Next]_vars
    PROVE  Calm(e)
<1>1. Other(e) \in Endpoint
  BY Ways
<1>2. ASSUME UNCHANGED ended, lost => lost', session = "closed" => session' = "closed",
             cancelled => cancelled', near = "refused" => near' = "refused",
             far = "over" /\ reached = Nowhere => far' = "over" /\ reached' = Nowhere
      PROVE  Calm(e)
  BY <1>2 DEF Calm
<1>3. CASE Program
  <2>1. UNCHANGED <<ended, session>>
    BY <1>3 DEF Program, DialOpens, DialFails, Hijack, Greet, SendEarly, EarlySent, NearFails,
                FarReads, FarFails, CloseTimeout, RelayReturns, CopyReads, CopyWrites, CopyEnds,
                Gets, endVars
  <2>2. lost => lost'
    BY <1>3 DEF Program, DialOpens, DialFails, Hijack, Greet, SendEarly, EarlySent, NearFails,
                FarReads, FarFails, CloseTimeout, RelayReturns, CopyReads, CopyWrites, CopyEnds,
                Gets, CloseIn
  <2>3. cancelled' = cancelled /\ reached' = reached
    BY <1>3 DEF Program, DialOpens, DialFails, Hijack, Greet, SendEarly, EarlySent, NearFails,
                FarReads, FarFails, CloseTimeout, RelayReturns, CopyReads, CopyWrites, CopyEnds,
                Gets, headVars
  <2>4. near = "refused" => near' = "refused"
    BY <1>3 DEF Program, DialOpens, DialFails, Hijack, Greet, SendEarly, EarlySent, NearFails,
                FarReads, FarFails, CloseTimeout, RelayReturns, CopyReads, CopyWrites, CopyEnds,
                Gets
  <2>5. far = "over" => far' = "over"
    BY <1>3 DEF Program, DialOpens, DialFails, Hijack, Greet, SendEarly, EarlySent, NearFails,
                FarReads, FarFails, CloseTimeout, RelayReturns, CopyReads, CopyWrites, CopyEnds,
                Gets, Targeted
  <2> QED
    BY <1>2, <2>1, <2>2, <2>3, <2>4, <2>5
<1>4. CASE NksStarts
  BY <1>2, <1>4 DEF NksStarts, headVars, endVars
<1>5. CASE NksRestarts
  BY <1>2, <1>5 DEF NksRestarts, headVars, endVars
<1>6. CASE SessionEnds
  BY <1>2, <1>6 DEF SessionEnds, headVars, endVars
<1>7. CASE AskSSH
  BY <1>2, <1>7 DEF AskSSH, headVars, endVars
<1>8. CASE Cancelled
  BY <1>8 DEF Cancelled, Calm
<1>9. CASE FarDials
  BY <1>2, <1>9 DEF FarDials, endVars
<1>10. ASSUME NEW useProxy \in UsesProxy, NkStarts(useProxy)
       PROVE  Calm(e)
  <2>1. session = "none"
    BY <1>10 DEF NkStarts, Targeted, TypeOK
  <2> QED
    BY <1>2, <1>10, <2>1 DEF NkStarts, headVars, endVars
<1>11. ASSUME NEW t \in Targets, Ask(t)
       PROVE  Calm(e)
  BY <1>2, <1>11 DEF Ask, headVars, endVars
<1>12. ASSUME NEW f \in Endpoint, Sends(f)
       PROVE  Calm(e)
  <2>1. lost => lost'
    BY <1>12 DEF Sends
  <2> QED
    BY <1>2, <1>12, <2>1 DEF Sends, headVars
<1>13. ASSUME NEW f \in Endpoint, HalfCloses(f)
       PROVE  Calm(e)
  <2>1. ended[f] = "open" /\ \A g \in Endpoint : g # f => ended'[g] = ended[g]
    BY <1>13 DEF HalfCloses, EndsTyped
  <2>2. ended'[f] # "open"
    BY <1>13 DEF HalfCloses, EndsTyped
  <2>3. f = e
    BY <1>1, <2>1, <2>2, Ways DEF Calm
  <2> QED
    BY <1>1, <1>13, <2>1, <2>3, Ways DEF HalfCloses, headVars, Calm
<1>14. ASSUME NEW f \in Endpoint, Closes(f)
       PROVE  Calm(e)
  <2>1. ended'[f] = "closed"
    BY <1>14 DEF Closes, EndsTyped
  <2> QED
    BY <1>1, <2>1, Ways DEF Calm
<1>15. CASE UNCHANGED vars
  BY <1>2, <1>15 DEF vars, headVars, endVars
<1> QED
  BY <1>3, <1>4, <1>5, <1>6, <1>7, <1>8, <1>9, <1>10, <1>11, <1>12, <1>13, <1>14, <1>15
     DEF Next, Environment

-----------------------------------------------------------------------------
(* The turns.                                                              *)

LEMMA SameTurn ==
    ASSUME NEW e \in Endpoint, EndInTurn(e), net' = net, copy' = copy
    PROVE  EndInTurn(e)'
  BY DEF EndInTurn, InTurn

LEMMA StartTurn ==
    ASSUME CopyTyped, NEW e \in Endpoint, EndInTurn(e), NEW q \in Process, net' = net,
           copy' = [copy EXCEPT ![q] = [d \in Dir |-> "on"]],
           \A d \in Dir : copy[q][d] = "idle"
    PROVE  EndInTurn(e)'
<1>1. \A p \in Process, d \in Dir : copy'[p][d] = "done" <=> copy[p][d] = "done"
  <2> TAKE p \in Process, d \in Dir
  <2>1. CASE p = q
    BY <2>1 DEF CopyTyped
  <2>2. CASE p # q
    BY <2>2 DEF CopyTyped
  <2> QED
    BY <2>1, <2>2
<1>2. PICK f \in Endpoint, d \in Dir, o \in Dir, p \in Process, r \in Process :
          /\ f = Other(e) /\ d = Outward(e) /\ o = Opposite(Outward(e))
          /\ p = Host(e) /\ r = Host(Other(e))
  BY Ways
<1>3. InTurn(e, f, d, o, p, r)
  BY <1>2 DEF EndInTurn
<1>4. InTurn(e, f, d, o, p, r)'
  BY <1>1, <1>3 DEF InTurn
<1> QED
  BY <1>2, <1>4 DEF EndInTurn

(* Bytes come and go, and none into a direction that has ended. *)
LEMMA QueueTurn ==
    ASSUME NEW e \in Endpoint, EndInTurn(e), copy' = copy, NEW l \in Link, NEW c \in Dir, NEW s,
           Changed(net, net', l, c, WithQueue(net[l][c], s)),
           net[l][c].fin => s = <<>> \/ net[l][c].q # <<>>
    PROVE  EndInTurn(e)'
<1>1. PICK f \in Endpoint, d \in Dir, o \in Dir, p \in Process, r \in Process :
          /\ f = Other(e) /\ d = Outward(e) /\ o = Opposite(Outward(e))
          /\ p = Host(e) /\ r = Host(Other(e))
  BY Ways
<1>2. InTurn(e, f, d, o, p, r)
  BY <1>1 DEF EndInTurn
<1>3. \A k \in Link, b \in Dir :
          /\ net'[k][b].fin = net[k][b].fin /\ net'[k][b].shut = net[k][b].shut
          /\ net[k][b].fin /\ net[k][b].q = <<>> => net'[k][b].q = <<>>
  <2> TAKE k \in Link, b \in Dir
  <2>1. CASE k = l /\ b = c
    <3>1. net'[k][b] = WithQueue(net[l][c], s)
      BY <2>1 DEF Changed
    <3>2. net'[k][b].q = s /\ net'[k][b].fin = net[l][c].fin /\ net'[k][b].shut = net[l][c].shut
      BY <3>1 DEF WithQueue
    <3> QED
      BY <2>1, <3>2
  <2>2. CASE ~(k = l /\ b = c)
    BY <2>2 DEF Changed
  <2> QED
    BY <2>1, <2>2
<1>4. e \in Link /\ f \in Link /\ "tunnel" \in Link
  BY Ways
<1>5. InTurn(e, f, d, o, p, r)'
  BY <1>2, <1>3, <1>4 DEF InTurn
<1> QED
  BY <1>1, <1>5 DEF EndInTurn

(* An endpoint that sends no more ends its own direction only. *)
LEMMA HalfTurn ==
    ASSUME NEW e \in Endpoint, EndInTurn(e), copy' = copy,
           Changed(net, net', e, Outward(e), Ended(net[e][Outward(e)]))
    PROVE  EndInTurn(e)'
<1>1. PICK f \in Endpoint, d \in Dir, o \in Dir, p \in Process, r \in Process :
          /\ f = Other(e) /\ d = Outward(e) /\ o = Opposite(Outward(e))
          /\ p = Host(e) /\ r = Host(Other(e))
          /\ e # f /\ e # "tunnel" /\ d # o
          /\ e \in Link /\ f \in Link /\ "tunnel" \in Link
  BY Ways
<1>2. InTurn(e, f, d, o, p, r)
  BY <1>1 DEF EndInTurn
<1>3. /\ net'[e][d].fin /\ net'[e][d].q = net[e][d].q /\ net'[e][d].shut = net[e][d].shut
      /\ \A k \in Link, b \in Dir : k # e \/ b # d => net'[k][b] = net[k][b]
  BY <1>1, PipeFields DEF Changed
<1>4. InTurn(e, f, d, o, p, r)'
  BY <1>1, <1>2, <1>3 DEF InTurn
<1> QED
  BY <1>1, <1>4 DEF EndInTurn

(* A connection closed without a reset. *)
LEMMA CloseInKeeps ==
    ASSUME NEW n \in Nets, NEW l \in Link, NEW d \in Dir, CloseIn(n, l, d), ~lost', lost \in BOOLEAN
    PROVE  ClosedTo(n, net', l, d) /\ net'[l][d] = Ended(n[l][d])
<1>1. net' = Closed(n, l, d)
  BY DEF CloseIn
<1> QED
  BY <1>1, ClosedIsClosed

(* Why a copy returns while nothing else has happened. *)
LEMMA CopyEndsWhy ==
    ASSUME TypeOK, CopyTyped, Placed, NEW p \in Process, NEW d \in Dir, CopyEnds(p, d), ~lost'
    PROVE  /\ copy[p][d] = "on" /\ copy'[p][d] = "done" /\ held'[p][d] = <<>> /\ HeldOnly(p, d)
           /\ \A q \in Process, c \in Dir : q # p \/ c # d => copy'[q][c] = copy[q][c]
           /\ \/ /\ held[p][d] = <<>> /\ net[Source(p, d)][d].q = <<>>
                 /\ net[Source(p, d)][d].fin \/ net[Source(p, d)][d].shut
              \/ net[Sink(p, d)][d].fin \/ net[Sink(p, d)][d].shut
           /\ ClosedTo(net, net', Sink(p, d), d)
           /\ net'[Sink(p, d)][d] = Ended(net[Sink(p, d)][d])
           /\ UNCHANGED <<mode, near, far, sent, got, ended>>
<1>1. copy[p][d] = "on"
  BY DEF CopyEnds, CopyOver
<1>2. /\ copy'[p][d] = "done"
      /\ \A q \in Process, c \in Dir : q # p \/ c # d => copy'[q][c] = copy[q][c]
  BY DEF CopyEnds, CopyTyped
<1>3. held'[p][d] = <<>> /\ HeldOnly(p, d)
  BY HeldSet DEF CopyEnds
<1>4. ~(p = "far" /\ deadline)
  BY <1>1 DEF Placed
<1>5. \/ /\ held[p][d] = <<>> /\ net[Source(p, d)][d].q = <<>>
         /\ net[Source(p, d)][d].fin \/ net[Source(p, d)][d].shut
      \/ net[Sink(p, d)][d].fin \/ net[Sink(p, d)][d].shut
  BY <1>4 DEF CopyEnds, CopyOver, EOF, WriteFails
<1>6. ClosedTo(net, net', Sink(p, d), d) /\ net'[Sink(p, d)][d] = Ended(net[Sink(p, d)][d])
  <2>1. CloseIn(net, Sink(p, d), d) /\ net \in Nets /\ lost \in BOOLEAN
    BY TypedNow DEF CopyEnds, Typed
  <2> QED
    BY <2>1, CloseInKeeps, SourcesAndSinks
<1>7. UNCHANGED <<mode, near, far, sent, got, ended>>
  BY DEF CopyEnds, endVars
<1> QED
  BY <1>1, <1>2, <1>3, <1>5, <1>6, <1>7

(* The copies on the way of e, and on the way back, each in its turn. *)
LEMMA CopyEndsTurn ==
    ASSUME TypeOK, CopyTyped, Placed, ClosedBothWays, NEW e \in Endpoint, EndInTurn(e),
           NEW q \in Process, NEW c \in Dir, CopyEnds(q, c), ~lost'
    PROVE  /\ EndInTurn(e)'
           /\ net'["user"][Outward(e)].q = net["user"][Outward(e)].q
           /\ net'["tunnel"][Outward(e)].q = net["tunnel"][Outward(e)].q
           /\ net'["target"][Outward(e)].q = net["target"][Outward(e)].q
           /\ c = Outward(e) => held[q][c] = <<>>
<1>1. PICK f \in Endpoint, d \in Dir, o \in Dir, p \in Process, r \in Process :
          /\ f = Other(e) /\ d = Outward(e) /\ o = Opposite(Outward(e))
          /\ p = Host(e) /\ r = Host(Other(e))
  BY Ways
<1>2. /\ e # f /\ e # "tunnel" /\ f # "tunnel" /\ d # o /\ p # r /\ Opposite(d) = o /\ Opposite(o) = d
      /\ e \in Link /\ f \in Link /\ "tunnel" \in Link
      /\ q \in {p, r} /\ c \in {d, o}
      /\ Source(p, d) = e /\ Sink(p, d) = "tunnel" /\ Source(r, d) = "tunnel" /\ Sink(r, d) = f
      /\ Source(p, o) = "tunnel" /\ Sink(p, o) = e /\ Source(r, o) = f /\ Sink(r, o) = "tunnel"
  BY <1>1, Ways, OppositeDir
<1>3. InTurn(e, f, d, o, p, r)
  BY <1>1 DEF EndInTurn
<1>4. /\ copy[q][c] = "on" /\ copy'[q][c] = "done"
      /\ \A g \in Process, b \in Dir : g # q \/ b # c => copy'[g][b] = copy[g][b]
      /\ \/ /\ held[q][c] = <<>> /\ net[Source(q, c)][c].q = <<>>
            /\ net[Source(q, c)][c].fin \/ net[Source(q, c)][c].shut
         \/ net[Sink(q, c)][c].fin \/ net[Sink(q, c)][c].shut
      /\ ClosedTo(net, net', Sink(q, c), c)
      /\ net'[Sink(q, c)][c] = Ended(net[Sink(q, c)][c])
  BY CopyEndsWhy
<1>5. net[f][o].shut => net[f][d].fin
  BY <1>2 DEF ClosedBothWays
<1>6. CASE q = p /\ c = d
  <2>1. held[q][c] = <<>> /\ net[e][d].q = <<>> /\ net[e][d].fin
    BY <1>2, <1>3, <1>4, <1>6 DEF InTurn
  <2>2. /\ net'["tunnel"][d].fin /\ net'["tunnel"][d].q = net["tunnel"][d].q
        /\ net'["tunnel"][d].shut = net["tunnel"][d].shut
    BY <1>2, <1>4, <1>6, PipeFields
  <2>3. \A k \in Link, b \in Dir : k # "tunnel" \/ b # d => net'[k][b] = net[k][b]
    BY <1>2, <1>4, <1>6, OppositeDir DEF ClosedTo
  <2>4. InTurn(e, f, d, o, p, r)'
    BY <1>2, <1>3, <1>4, <1>6, <2>1, <2>2, <2>3 DEF InTurn
  <2> QED
    BY <1>1, <2>1, <2>2, <2>3, <2>4, LinksAndDirs DEF EndInTurn
<1>7. CASE q = r /\ c = d
  <2>1. held[q][c] = <<>> /\ net["tunnel"][d].q = <<>> /\ net["tunnel"][d].fin
    BY <1>2, <1>3, <1>4, <1>7 DEF InTurn
  <2>2. net'[f][d].q = net[f][d].q /\ net'[f][d].shut = net[f][d].shut
    BY <1>2, <1>4, <1>7, PipeFields
  <2>3. net'[f][o].fin = net[f][o].fin
    BY <1>2, <1>4, <1>7, PipeFields DEF ClosedTo
  <2>4. \A k \in Link, b \in Dir : k # f => net'[k][b] = net[k][b]
    BY <1>2, <1>4, <1>7 DEF ClosedTo
  <2>5. InTurn(e, f, d, o, p, r)'
    BY <1>2, <1>3, <1>4, <1>7, <2>1, <2>2, <2>3, <2>4 DEF InTurn
  <2>6. \A k \in Link : net'[k][d].q = net[k][d].q
    BY <2>2, <2>4
  <2> QED
    BY <1>1, <2>1, <2>5, <2>6, LinksAndDirs DEF EndInTurn
<1>8. CASE q = p /\ c = o
  <2>1. copy[p][d] = "done" /\ net[e][d].q = <<>>
    BY <1>2, <1>3, <1>4, <1>8 DEF InTurn
  <2>2. net'[e][o].fin /\ net'[e][o].shut = net[e][o].shut
    BY <1>2, <1>4, <1>8, PipeFields
  <2>3. net'[e][d].fin = net[e][d].fin /\ net'[e][d].q = <<>>
    BY <1>2, <1>4, <1>8, PipeFields DEF ClosedTo
  <2>4. \A k \in Link, b \in Dir : k # e => net'[k][b] = net[k][b]
    BY <1>2, <1>4, <1>8 DEF ClosedTo
  <2>5. InTurn(e, f, d, o, p, r)'
    BY <1>2, <1>3, <1>4, <1>8, <2>1, <2>2, <2>3, <2>4 DEF InTurn
  <2>6. \A k \in Link : net'[k][d].q = net[k][d].q
    BY <2>1, <2>3, <2>4
  <2> QED
    BY <1>1, <1>2, <1>8, <2>5, <2>6, LinksAndDirs DEF EndInTurn
<1>9. CASE q = r /\ c = o
  <2>1. copy[p][d] = "done"
    BY <1>2, <1>3, <1>4, <1>5, <1>9 DEF InTurn
  <2>2. net'["tunnel"][o].shut = net["tunnel"][o].shut
    BY <1>2, <1>4, <1>9, PipeFields
  <2>3. \A k \in Link, b \in Dir : k # "tunnel" \/ b # o => net'[k][b] = net[k][b]
    BY <1>2, <1>4, <1>9, OppositeDir DEF ClosedTo
  <2>4. InTurn(e, f, d, o, p, r)'
    BY <1>2, <1>3, <1>4, <1>9, <2>1, <2>2, <2>3 DEF InTurn
  <2> QED
    BY <1>1, <1>2, <1>9, <2>3, <2>4, LinksAndDirs DEF EndInTurn
<1> QED
  BY <1>2, <1>6, <1>7, <1>8, <1>9

-----------------------------------------------------------------------------
(* The bytes under way.                                                    *)

InsideSum(d, a, b, x, y, z) ==
    /\ a = Len(net["user"][d].q) /\ b = Len(held["near"][d]) /\ x = Len(net["tunnel"][d].q)
    /\ y = Len(held["far"][d]) /\ z = Len(net["target"][d].q)
    /\ Inside(d) = a + b + x + y + z

InsideSums == \A d \in Dir : \E a, b, x, y, z \in Nat : InsideSum(d, a, b, x, y, z)

LEMMA InsideCounts == Stations => InsideSums
<1> SUFFICES ASSUME Stations, NEW d \in Dir
             PROVE  \E a, b, x, y, z \in Nat : InsideSum(d, a, b, x, y, z)
  BY DEF InsideSums
<1>1. /\ net["user"][d].q \in Seq(Nat) /\ net["tunnel"][d].q \in Seq(Nat)
      /\ net["target"][d].q \in Seq(Nat)
      /\ held["near"][d] \in Seq(Nat) /\ held["far"][d] \in Seq(Nat)
  BY LinksAndDirs DEF Stations
<1>2. PICK a \in Nat, b \in Nat, x \in Nat, y \in Nat, z \in Nat :
          /\ a = Len(net["user"][d].q) /\ b = Len(held["near"][d]) /\ x = Len(net["tunnel"][d].q)
          /\ y = Len(held["far"][d]) /\ z = Len(net["target"][d].q)
  BY <1>1, LenProperties
<1>3. Inside(d) = a + b + x + y + z
  BY <1>2 DEF Inside
<1>4. InsideSum(d, a, b, x, y, z)
  BY <1>2, <1>3 DEF InsideSum
<1> QED
  BY <1>4

LEMMA InsideCountsNext == Stations' => InsideSums'
  BY InsideCounts, PTL

LEMMA InsideChange ==
    ASSUME Stations, Stations', NEW l \in Link, NEW c \in Dir, NEW p \in Process,
           NetOnly(l, c), HeldOnly(p, c)
    PROVE  /\ Inside(c)' + Len(net[l][c].q) + Len(held[p][c])
                  = Inside(c) + Len(net'[l][c].q) + Len(held'[p][c])
           /\ \A d \in Dir : d # c => Inside(d)' = Inside(d)
<1>1. ASSUME NEW d \in Dir, d # c
      PROVE  Inside(d)' = Inside(d)
  <2>1. \A k \in Link, q \in Process : net'[k][d] = net[k][d] /\ held'[q][d] = held[q][d]
    BY <1>1 DEF NetOnly, HeldOnly
  <2> QED
    BY <2>1, LinksAndDirs DEF Inside
<1>2. PICK a \in Nat, b \in Nat, x \in Nat, y \in Nat, z \in Nat : InsideSum(c, a, b, x, y, z)
  BY InsideCounts DEF InsideSums
<1>3. PICK a2 \in Nat, b2 \in Nat, x2 \in Nat, y2 \in Nat, z2 \in Nat :
          InsideSum(c, a2, b2, x2, y2, z2)'
  BY InsideCountsNext DEF InsideSums
<1>4. /\ l # "user" => a2 = a
      /\ l # "tunnel" => x2 = x
      /\ l # "target" => z2 = z
  BY <1>2, <1>3, LinksAndDirs DEF InsideSum, NetOnly
<1>5. /\ p # "near" => b2 = b
      /\ p # "far" => y2 = y
  BY <1>2, <1>3, LinksAndDirs DEF InsideSum, HeldOnly
<1>6. PICK m \in Nat, m2 \in Nat, n \in Nat, n2 \in Nat :
          /\ m = Len(net[l][c].q) /\ m2 = Len(net'[l][c].q)
          /\ n = Len(held[p][c]) /\ n2 = Len(held'[p][c])
  BY LenProperties DEF Stations
<1>7. a2 + x2 + z2 + m = a + x + z + m2
  <2>1. CASE l = "user"
    <3>1. m = a /\ m2 = a2 /\ x2 = x /\ z2 = z
      BY <1>2, <1>3, <1>4, <1>6, <2>1 DEF InsideSum
    <3> QED
      BY <3>1
  <2>2. CASE l = "tunnel"
    <3>1. m = x /\ m2 = x2 /\ a2 = a /\ z2 = z
      BY <1>2, <1>3, <1>4, <1>6, <2>2 DEF InsideSum
    <3> QED
      BY <3>1
  <2>3. CASE l = "target"
    <3>1. m = z /\ m2 = z2 /\ a2 = a /\ x2 = x
      BY <1>2, <1>3, <1>4, <1>6, <2>3 DEF InsideSum
    <3> QED
      BY <3>1
  <2> QED
    BY <2>1, <2>2, <2>3 DEF Link
<1>8. b2 + y2 + n = b + y + n2
  <2>1. CASE p = "near"
    <3>1. n = b /\ n2 = b2 /\ y2 = y
      BY <1>2, <1>3, <1>5, <1>6, <2>1 DEF InsideSum
    <3> QED
      BY <3>1
  <2>2. CASE p = "far"
    <3>1. n = y /\ n2 = y2 /\ b2 = b
      BY <1>2, <1>3, <1>5, <1>6, <2>2 DEF InsideSum
    <3> QED
      BY <3>1
  <2> QED
    BY <2>1, <2>2 DEF Process
<1>9. Inside(c)' + m + n = Inside(c) + m2 + n2
  <2>1. Inside(c) = a + b + x + y + z /\ Inside(c)' = a2 + b2 + x2 + y2 + z2
    BY <1>2, <1>3 DEF InsideSum
  <2>2. (a2 + b2 + x2 + y2 + z2) + m + n = (a + b + x + y + z) + m2 + n2
    BY <1>7, <1>8
  <2> QED
    BY <2>1, <2>2
<1> QED
  BY <1>1, <1>6, <1>9

LEMMA InsideNat ==
    ASSUME Stations, Stations', NEW d \in Dir
    PROVE  Inside(d) \in Nat /\ Inside(d)' \in Nat
<1>1. PICK a \in Nat, b \in Nat, x \in Nat, y \in Nat, z \in Nat : InsideSum(d, a, b, x, y, z)
  BY InsideCounts DEF InsideSums
<1>2. PICK a2 \in Nat, b2 \in Nat, x2 \in Nat, y2 \in Nat, z2 \in Nat :
          InsideSum(d, a2, b2, x2, y2, z2)'
  BY InsideCountsNext DEF InsideSums
<1>3. Inside(d) = a + b + x + y + z /\ Inside(d)' = a2 + b2 + x2 + y2 + z2
  BY <1>1, <1>2 DEF InsideSum
<1>4. a + b + x + y + z \in Nat /\ a2 + b2 + x2 + y2 + z2 \in Nat
  OBVIOUS
<1> QED
  BY <1>3, <1>4

LEMMA RepliesSame ==
    ASSUME NEW e \in Endpoint, mode' = mode, near' \in Early <=> near \in Early
    PROVE  Replies(e)' = Replies(e)
  BY DEF Replies

LEMMA LostSame ==
    ASSUME NEW e \in Endpoint, NothingLost(e), net' = net, held' = held, sent' = sent, got' = got,
           Replies(e)' = Replies(e)
    PROVE  NothingLost(e)'
<1>1. Inside(Outward(e))' = Inside(Outward(e))
  BY DEF Inside
<1> QED
  BY <1>1 DEF NothingLost

(* A byte that goes on stays on the way. *)
LEMMA LostMoves ==
    ASSUME Stations, Stations', NEW e \in Endpoint, NothingLost(e),
           NEW l \in Link, NEW c \in Dir, NEW p \in Process, NetOnly(l, c), HeldOnly(p, c),
           Len(held'[p][c]) + Len(net'[l][c].q) = Len(held[p][c]) + Len(net[l][c].q),
           sent' = sent, got' = got, Replies(e)' = Replies(e)
    PROVE  NothingLost(e)'
<1>1. Outward(e) \in Dir
  BY Ways
<1>2. PICK m \in Nat, m2 \in Nat, n \in Nat, n2 \in Nat :
          /\ m = Len(net[l][c].q) /\ m2 = Len(net'[l][c].q)
          /\ n = Len(held[p][c]) /\ n2 = Len(held'[p][c])
  BY LenProperties DEF Stations
<1>3. Inside(c) \in Nat /\ Inside(c)' \in Nat
  BY InsideNat
<1>4. Inside(c)' = Inside(c)
  <2>1. Inside(c)' + m + n = Inside(c) + m2 + n2
    BY <1>2, InsideChange
  <2>2. n2 + m2 = n + m
    BY <1>2
  <2> QED
    BY <1>3, <2>1, <2>2
<1>5. Inside(Outward(e))' = Inside(Outward(e))
  BY <1>1, <1>4, InsideChange
<1> QED
  BY <1>5 DEF NothingLost

(* No byte of this direction moves. *)
LEMMA LostStays ==
    ASSUME NEW e \in Endpoint, NothingLost(e), NEW d \in Dir, d = Outward(e),
           net'["user"][d].q = net["user"][d].q, net'["tunnel"][d].q = net["tunnel"][d].q,
           net'["target"][d].q = net["target"][d].q,
           held'["near"][d] = held["near"][d], held'["far"][d] = held["far"][d],
           sent'[e] = sent[e], got'[Other(e)] = got[Other(e)], Replies(e)' = Replies(e)
    PROVE  NothingLost(e)'
<1>1. Inside(d)' = Inside(d)
  BY DEF Inside
<1> QED
  BY <1>1 DEF NothingLost

-----------------------------------------------------------------------------
(* Every step keeps the bytes of a calm way.                               *)

OnTheWay(e) == EndInTurn(e) /\ NothingLost(e)

LEMMA MovedLength ==
    ASSUME NEW x \in Seq(Nat), NEW y \in Seq(Nat), NEW x2 \in Seq(Nat), NEW y2 \in Seq(Nat),
           Moved(x, y, x2, y2)
    PROVE  /\ Len(x2) + Len(y2) = Len(x) + Len(y)
           /\ Len(y2) + Len(x2) = Len(y) + Len(x)
<1>1. PICK a \in Nat, b \in Nat, a2 \in Nat, b2 \in Nat :
          a = Len(x) /\ b = Len(y) /\ a2 = Len(x2) /\ b2 = Len(y2)
  BY LenProperties
<1>2. a2 + b2 = a + b
  BY <1>1 DEF Moved
<1>3. b2 + a2 = b + a
  BY <1>2
<1> QED
  BY <1>1, <1>2, <1>3

LEMMA CopyReadsKeeps ==
    ASSUME TypeOK, CopyTyped, Stations, Stations', NEW e \in Endpoint, OnTheWay(e),
           NEW p \in Process, NEW c \in Dir, CopyReads(p, c)
    PROVE  OnTheWay(e)'
<1>1. PICK l \in Link : l = Source(p, c)
  BY SourcesAndSinks
<1>2. /\ Changed(net, net', l, c, WithQueue(net[l][c], Tail(net[l][c].q)))
      /\ net[l][c].q # <<>>
  BY <1>1, TypedNow, CopyReadsNet DEF Taken
<1>3. copy' = copy /\ near' = near /\ mode' = mode /\ sent' = sent /\ got' = got
  BY DEF CopyReads, endVars
<1>4. EndInTurn(e)'
  BY <1>2, <1>3, QueueTurn DEF OnTheWay
<1>5. /\ Moved(held[p][c], net[l][c].q, held'[p][c], net'[l][c].q)
      /\ NetOnly(l, c) /\ HeldOnly(p, c)
  BY <1>1, CopyReadsMoves
<1>6. Len(held'[p][c]) + Len(net'[l][c].q) = Len(held[p][c]) + Len(net[l][c].q)
  <2>1. PICK x \in Seq(Nat), y \in Seq(Nat), x2 \in Seq(Nat), y2 \in Seq(Nat) :
            x = held[p][c] /\ y = net[l][c].q /\ x2 = held'[p][c] /\ y2 = net'[l][c].q
    BY DEF Stations
  <2>2. Moved(x, y, x2, y2)
    BY <1>5, <2>1
  <2>3. Len(x2) + Len(y2) = Len(x) + Len(y)
    BY <2>2, MovedLength
  <2> QED
    BY <2>1, <2>3
<1>7. NothingLost(e)'
  BY <1>3, <1>5, <1>6, RepliesSame, LostMoves DEF OnTheWay
<1> QED
  BY <1>4, <1>7 DEF OnTheWay

LEMMA CopyWritesKeeps ==
    ASSUME TypeOK, CopyTyped, Stations, Stations', NEW e \in Endpoint, OnTheWay(e),
           NEW p \in Process, NEW c \in Dir, CopyWrites(p, c)
    PROVE  OnTheWay(e)'
<1>1. PICK l \in Link : l = Sink(p, c)
  BY SourcesAndSinks
<1>2. PICK s : /\ Changed(net, net', l, c, WithQueue(net[l][c], s))
               /\ ~net[l][c].fin
  BY <1>1, TypedNow, CopyWritesNet DEF Added, CopyWrites, CanWrite
<1>3. copy' = copy /\ near' = near /\ mode' = mode /\ sent' = sent /\ got' = got
  BY DEF CopyWrites, endVars
<1>4. EndInTurn(e)'
  BY <1>2, <1>3, QueueTurn DEF OnTheWay
<1>5. /\ Moved(net[l][c].q, held[p][c], net'[l][c].q, held'[p][c])
      /\ NetOnly(l, c) /\ HeldOnly(p, c)
  BY <1>1, CopyWritesMoves
<1>6. Len(held'[p][c]) + Len(net'[l][c].q) = Len(held[p][c]) + Len(net[l][c].q)
  <2>1. /\ net[l][c].q \in Seq(Nat) /\ held[p][c] \in Seq(Nat)
        /\ net'[l][c].q \in Seq(Nat) /\ held'[p][c] \in Seq(Nat)
    BY DEF Stations
  <2> QED
    BY <1>5, <2>1, MovedLength
<1>7. NothingLost(e)'
  BY <1>3, <1>5, <1>6, RepliesSame, LostMoves DEF OnTheWay
<1> QED
  BY <1>4, <1>7 DEF OnTheWay

LEMMA SendEarlyKeeps ==
    ASSUME TypeOK, CopyTyped, Stations, Stations', NEW e \in Endpoint, OnTheWay(e), SendEarly
    PROVE  OnTheWay(e)'
<1>1. Changed(net, net', "tunnel", "out", Added(net["tunnel"]["out"], Head(held["near"]["out"])))
  BY TypedNow, SendEarlyNet
<1>2. /\ held["near"]["out"] # <<>> /\ held' = [held EXCEPT !["near"]["out"] = Tail(@)]
      /\ ~net["tunnel"]["out"].fin
      /\ copy' = copy /\ near' = near /\ mode' = mode /\ sent' = sent /\ got' = got
  BY DEF SendEarly, endVars, CanWrite
<1>3. EndInTurn(e)'
  BY <1>1, <1>2, QueueTurn, LinksAndDirs DEF OnTheWay, Added
<1>4. /\ NetOnly("tunnel", "out")
      /\ net'["tunnel"]["out"].q = Append(net["tunnel"]["out"].q, Head(held["near"]["out"]))
  BY <1>1, LinksAndDirs, TakenIs DEF Changed, NetOnly
<1>5. held'["near"]["out"] = Tail(held["near"]["out"]) /\ HeldOnly("near", "out")
  BY <1>2, HeldSet, LinksAndDirs
<1>6. /\ net["tunnel"]["out"].q \in Seq(Nat) /\ held["near"]["out"] \in Seq(Nat)
      /\ net'["tunnel"]["out"].q \in Seq(Nat) /\ held'["near"]["out"] \in Seq(Nat)
  BY LinksAndDirs DEF Stations
<1>7. Moved(net["tunnel"]["out"].q, held["near"]["out"],
            net'["tunnel"]["out"].q, held'["near"]["out"])
  BY <1>2, <1>4, <1>5, <1>6, MovedHead
<1>8. Len(held'["near"]["out"]) + Len(net'["tunnel"]["out"].q)
          = Len(held["near"]["out"]) + Len(net["tunnel"]["out"].q)
  BY <1>6, <1>7, MovedLength
<1>9. NothingLost(e)'
  BY <1>2, <1>4, <1>5, <1>8, RepliesSame, LostMoves, LinksAndDirs DEF OnTheWay
<1> QED
  BY <1>3, <1>9 DEF OnTheWay

LEMMA NoneLeft ==
    ASSUME NEW k \in Nat, NEW n \in 0 .. k, k = 0
    PROVE  k - n = 0
<1>1. n = 0
  OBVIOUS
<1> QED
  BY <1>1

LEMMA HijackKeeps ==
    ASSUME TypeOK, CopyTyped, Placed, HoldsForSomeone, Stations, Stations',
           NEW e \in Endpoint, OnTheWay(e), Hijack
    PROVE  OnTheWay(e)'
<1> DEFINE q == net["user"]["out"].q
<1>1. PICK n \in 0 .. Len(q) :
        /\ Changed(net, net', "user", "out",
                   WithQueue(net["user"]["out"], SubSeq(q, n + 1, Len(q))))
        /\ held' = [held EXCEPT !["near"]["out"] = SubSeq(q, 1, n)]
        /\ SubSeq(q, n + 1, Len(q)) \in Seq(Nat)
        /\ Len(SubSeq(q, n + 1, Len(q))) = Len(q) - n
  BY TypedNow, HijackNet
<1>2. /\ near = "hijack" /\ near' = "greet" /\ copy' = copy
      /\ mode' = mode /\ sent' = sent /\ got' = got
  BY DEF Hijack, endVars
<1>3. q \in Seq(Nat) /\ held["near"]["out"] = <<>>
  BY <1>2, LinksAndDirs DEF Stations, HoldsForSomeone, Placed
<1> HIDE DEF q
<1>4. PICK r \in Seq(Nat) : r = SubSeq(q, n + 1, Len(q))
  BY <1>1
<1>5. PICK k \in Nat : k = Len(q)
  BY <1>3, LenProperties
<1>6. Len(r) = k - n /\ n \in 0 .. k
  BY <1>1, <1>4, <1>5
<1>7. q = <<>> => r = <<>>
  <2>1. q = <<>> => k = 0
    BY <1>5
  <2>2. k = 0 => k - n = 0
    BY <1>6, NoneLeft
  <2> QED
    BY <1>6, <2>1, <2>2, EmptySeq
<1>8. Changed(net, net', "user", "out", WithQueue(net["user"]["out"], r))
  BY <1>1, <1>4
<1>9. NetOnly("user", "out") /\ net'["user"]["out"].q = r
  <2>1. net'["user"]["out"] = WithQueue(net["user"]["out"], r) /\ NetOnly("user", "out")
    BY <1>8, LinksAndDirs DEF Changed, NetOnly
  <2> QED
    BY <2>1 DEF WithQueue
<1>10. /\ held'["near"]["out"] = SubSeq(q, 1, n) /\ HeldOnly("near", "out")
       /\ Len(held'["near"]["out"]) = n
  <2>1. held'["near"]["out"] = SubSeq(q, 1, n) /\ HeldOnly("near", "out")
    BY <1>1, HeldSet, LinksAndDirs
  <2>2. Len(SubSeq(q, 1, n)) = n
    BY <1>3, PrefixOf
  <2> QED
    BY <2>1, <2>2
<1>11. EndInTurn(e)'
  BY <1>2, <1>7, <1>8, QueueTurn, LinksAndDirs DEF OnTheWay, q
<1>12. Len(held'["near"]["out"]) + Len(net'["user"]["out"].q) = Len(held["near"]["out"]) + Len(q)
  <2>1. n + (k - n) = 0 + k
    BY <1>6
  <2>2. Len(held["near"]["out"]) = 0
    BY <1>3
  <2> QED
    BY <1>5, <1>6, <1>9, <1>10, <2>1, <2>2
<1>13. Replies(e)' = Replies(e)
  BY <1>2, RepliesSame DEF Early
<1>14. NothingLost(e)'
  BY <1>2, <1>9, <1>10, <1>12, <1>13, LostMoves, LinksAndDirs DEF OnTheWay, q
<1> QED
  BY <1>11, <1>14 DEF OnTheWay

(* A byte more, or a byte less, in one queue. *)
LEMMA InsideOne ==
    ASSUME Stations, Stations', NEW l \in Link, NEW c \in Dir, NetOnly(l, c), held' = held
    PROVE  /\ Len(net'[l][c].q) = Len(net[l][c].q) + 1 => Inside(c)' = Inside(c) + 1
           /\ Len(net[l][c].q) = Len(net'[l][c].q) + 1 => Inside(c) = Inside(c)' + 1
           /\ \A d \in Dir : d # c => Inside(d)' = Inside(d)
<1>1. PICK i \in Nat, i2 \in Nat : i = Inside(c) /\ i2 = Inside(c)'
  BY InsideNat
<1>2. PICK p \in Process : HeldOnly(p, c)
  BY LinksAndDirs DEF HeldOnly
<1>3. PICK m \in Nat, m2 \in Nat, n \in Nat :
          /\ m = Len(net[l][c].q) /\ m2 = Len(net'[l][c].q)
          /\ n = Len(held[p][c]) /\ n = Len(held'[p][c])
  BY LenProperties DEF Stations
<1>4. /\ Inside(c)' + Len(net[l][c].q) + Len(held[p][c])
             = Inside(c) + Len(net'[l][c].q) + Len(held'[p][c])
      /\ \A d \in Dir : d # c => Inside(d)' = Inside(d)
  BY <1>2, InsideChange
<1>5. i2 + m + n = i + m2 + n
  BY <1>1, <1>3, <1>4
<1>6. (m2 = m + 1 => i2 = i + 1) /\ (m = m2 + 1 => i = i2 + 1)
  BY <1>5
<1> QED
  BY <1>1, <1>3, <1>4, <1>6

LEMMA AppendLength ==
    ASSUME NEW s \in Seq(Nat), NEW v \in Nat
    PROVE  Len(Append(s, v)) = Len(s) + 1
  BY AppendProperties

LEMMA TailLength ==
    ASSUME NEW s \in Seq(Nat), s # <<>>
    PROVE  Len(s) = Len(Tail(s)) + 1
<1>1. PICK n \in Nat : n = Len(s) /\ n # 0
  BY EmptySeq, LenProperties
<1>2. Len(Tail(s)) = n - 1
  BY <1>1, HeadTailProperties
<1>3. n = (n - 1) + 1
  OBVIOUS
<1> QED
  BY <1>1, <1>2, <1>3

LEMMA GreetKeeps ==
    ASSUME TypeOK, Stations, Stations', HoldsForSomeone, NEW e \in Endpoint, OnTheWay(e), Greet
    PROVE  OnTheWay(e)'
<1>1. Changed(net, net', "user", "back", Added(net["user"]["back"], 200))
  BY TypedNow, GreetNet
<1>2. /\ near = "greet" /\ near' = "early" /\ copy' = copy /\ held' = held
      /\ mode' = mode /\ sent' = sent /\ got' = got /\ ~net["user"]["back"].fin
  BY DEF Greet, endVars, copyVars, CanWrite
<1>3. EndInTurn(e)'
  BY <1>1, <1>2, QueueTurn, LinksAndDirs DEF OnTheWay, Added
<1>4. mode = "connect"
  BY <1>2 DEF HoldsForSomeone
<1>5. /\ NetOnly("user", "back")
      /\ net'["user"]["back"].q = Append(net["user"]["back"].q, 200)
  <2>1. PICK v : v = 200
    OBVIOUS
  <2>2. Added(net["user"]["back"], v).q = Append(net["user"]["back"].q, v)
    BY TakenIs
  <2> QED
    BY <1>1, <2>1, <2>2, LinksAndDirs DEF Changed, NetOnly
<1>6. Len(net'["user"]["back"].q) = Len(net["user"]["back"].q) + 1
  <2>1. net["user"]["back"].q \in Seq(Nat) /\ 200 \in Nat
    BY LinksAndDirs DEF Stations
  <2> QED
    BY <1>5, <2>1, AppendLength
<1>7. Inside("back")' = Inside("back") + 1 /\ Inside("out")' = Inside("out")
  BY <1>2, <1>5, <1>6, InsideOne, LinksAndDirs
<1>8. NothingLost(e)'
  <2>1. CASE e = "user"
    <3>1. Replies(e)' = 0 /\ Replies(e) = 0 /\ Outward(e) = "out"
      BY <2>1 DEF Replies, Outward
    <3> QED
      BY <1>2, <1>7, <3>1 DEF NothingLost, OnTheWay
  <2>2. CASE e = "target"
    <3>1. Replies(e)' = 1 /\ Replies(e) = 0 /\ Outward(e) = "back" /\ Other(e) = "user"
      BY <1>2, <1>4, <2>2 DEF Replies, Outward, Early, Other
    <3>2. Inside("back") + Len(got["user"]) = sent[e] + 0
      BY <3>1 DEF NothingLost, OnTheWay
    <3>3. PICK i \in Nat, g \in Nat, s \in Nat :
              i = Inside("back") /\ g = Len(got["user"]) /\ s = sent[e]
      BY InsideNat, LenProperties, LinksAndDirs DEF Stations
    <3>4. i + 1 + g = s + 1
      BY <3>2, <3>3
    <3> QED
      BY <1>2, <1>7, <3>1, <3>3, <3>4 DEF NothingLost
  <2> QED
    BY <2>1, <2>2 DEF Endpoint
<1> QED
  BY <1>3, <1>8 DEF OnTheWay

LEMMA GetsKeeps ==
    ASSUME TypeOK, EndsTyped, Stations, Stations', NEW e \in Endpoint, OnTheWay(e),
           NEW f \in Endpoint, Gets(f)
    PROVE  OnTheWay(e)'
<1>1. PICK c \in Dir : c = Opposite(Outward(f))
  BY Ways
<1>2. /\ Changed(net, net', f, c, WithQueue(net[f][c], Tail(net[f][c].q))) /\ net[f][c].q # <<>>
      /\ Head(net[f][c].q) \in Nat /\ got' = [got EXCEPT ![f] = Append(@, Head(net[f][c].q))]
  BY <1>1, TypedNow, GetsNet DEF Taken
<1>3. copy' = copy /\ held' = held /\ near' = near /\ mode' = mode /\ sent' = sent
  BY DEF Gets, copyVars
<1>4. EndInTurn(e)'
  BY <1>2, <1>3, QueueTurn, Ways DEF OnTheWay
<1>5. NetOnly(f, c) /\ net'[f][c].q = Tail(net[f][c].q)
  <2>1. net'[f][c] = WithQueue(net[f][c], Tail(net[f][c].q)) /\ NetOnly(f, c)
    BY <1>2, Ways DEF Changed, NetOnly
  <2> QED
    BY <2>1 DEF WithQueue
<1>6. Len(net[f][c].q) = Len(net'[f][c].q) + 1
  <2>1. net[f][c].q \in Seq(Nat)
    BY Ways DEF Stations
  <2> QED
    BY <1>2, <1>5, <2>1, TailLength
<1>7. Inside(c) = Inside(c)' + 1 /\ \A d \in Dir : d # c => Inside(d)' = Inside(d)
  <2>1. f \in Link /\ held' = held
    BY <1>3, EndpointDirs
  <2>2. /\ Len(net[f][c].q) = Len(net'[f][c].q) + 1 => Inside(c) = Inside(c)' + 1
        /\ \A d \in Dir : d # c => Inside(d)' = Inside(d)
    BY <1>5, <2>1, InsideOne
  <2> QED
    BY <1>6, <2>2
<1>8. Replies(e)' = Replies(e)
  BY <1>3, RepliesSame
<1>9. CASE f = e
  <2>1. Outward(e) \in Dir /\ Outward(e) # c /\ got'[Other(e)] = got[Other(e)]
    BY <1>1, <1>2, <1>9, Ways DEF EndsTyped
  <2> QED
    BY <1>3, <1>4, <1>7, <1>8, <2>1 DEF NothingLost, OnTheWay
<1>10. CASE f = Other(e)
  <2>1. Outward(e) = c
    BY <1>1, <1>10, Ways, OppositeDir
  <2>2. got'[f] = Append(got[f], Head(net[f][c].q)) /\ got[f] \in Seq(Nat)
    BY <1>2 DEF EndsTyped
  <2>3. Len(got'[f]) = Len(got[f]) + 1
    BY <1>2, <2>2, AppendLength
  <2>4. PICK i \in Nat, i2 \in Nat, g \in Nat, g2 \in Nat :
            i = Inside(c) /\ i2 = Inside(c)' /\ g = Len(got[f]) /\ g2 = Len(got'[f])
    BY InsideNat, LenProperties DEF Stations
  <2>5. i = i2 + 1 /\ g2 = g + 1
    BY <1>7, <2>3, <2>4
  <2>6. i2 + g2 = i + g
    BY <2>5
  <2>7. Inside(Outward(e))' + Len(got'[Other(e)]) = Inside(Outward(e)) + Len(got[Other(e)])
    BY <1>10, <2>1, <2>4, <2>6
  <2> QED
    BY <1>3, <1>4, <1>8, <2>7 DEF NothingLost, OnTheWay
<1> QED
  BY <1>9, <1>10, Ways

LEMMA SendsKeeps ==
    ASSUME TypeOK, EndsTyped, Stations, Stations', NEW e \in Endpoint, OnTheWay(e),
           NEW f \in Endpoint, Sends(f), ~lost'
    PROVE  OnTheWay(e)'
<1>1. PICK c \in Dir : c = Outward(f)
  BY Ways
<1>2. /\ net' = Put(net, f, c, Base(f) + sent[f] + 1) /\ CanWrite(f, c)
      /\ copy' = copy /\ held' = held /\ near' = near /\ mode' = mode /\ got' = got
      /\ sent' = [sent EXCEPT ![f] = @ + 1]
  BY <1>1 DEF Sends, copyVars
<1>3. PICK v \in Nat : v = Base(f) + sent[f] + 1
  <2>1. Base(f) \in Nat /\ sent[f] \in Nat
    BY EndpointDirs DEF EndsTyped
  <2>2. Base(f) + sent[f] + 1 \in Nat
    BY <2>1
  <2> QED
    BY <2>2
<1>4. Changed(net, net', f, c, WithQueue(net[f][c], Append(net[f][c].q, v))) /\ ~net[f][c].fin
  <2>1. net \in Nets /\ Len(net[f][c].q) < Window /\ f \in Link /\ ~net[f][c].fin
    BY <1>2, TypedNow, Ways DEF Typed, CanWrite
  <2> QED
    BY <1>2, <1>3, <2>1, PutTo DEF Added
<1>5. EndInTurn(e)'
  BY <1>2, <1>4, QueueTurn, Ways DEF OnTheWay
<1>6. NetOnly(f, c) /\ net'[f][c].q = Append(net[f][c].q, v)
  <2>1. net'[f][c] = WithQueue(net[f][c], Append(net[f][c].q, v)) /\ NetOnly(f, c)
    BY <1>4, Ways DEF Changed, NetOnly
  <2> QED
    BY <2>1 DEF WithQueue
<1>7. Len(net'[f][c].q) = Len(net[f][c].q) + 1
  <2>1. net[f][c].q \in Seq(Nat)
    BY Ways DEF Stations
  <2> QED
    BY <1>6, <2>1, AppendLength
<1>8. Inside(c)' = Inside(c) + 1 /\ \A d \in Dir : d # c => Inside(d)' = Inside(d)
  <2>1. f \in Link /\ held' = held
    BY <1>2, EndpointDirs
  <2>2. /\ Len(net'[f][c].q) = Len(net[f][c].q) + 1 => Inside(c)' = Inside(c) + 1
        /\ \A d \in Dir : d # c => Inside(d)' = Inside(d)
    BY <1>6, <2>1, InsideOne
  <2> QED
    BY <1>7, <2>2
<1>9. Replies(e)' = Replies(e)
  BY <1>2, RepliesSame
<1>10. CASE f = Other(e)
  <2>1. Outward(e) \in Dir /\ Outward(e) # c /\ sent'[e] = sent[e]
    BY <1>1, <1>2, <1>10, Ways, OppositeDir DEF EndsTyped
  <2> QED
    BY <1>2, <1>5, <1>8, <1>9, <2>1 DEF NothingLost, OnTheWay
<1>11. CASE f = e
  <2>1. sent'[e] = sent[e] + 1 /\ Outward(e) = c
    BY <1>1, <1>2, <1>11 DEF EndsTyped
  <2>2. PICK i \in Nat, g \in Nat, s \in Nat, r \in Nat :
            i = Inside(c) /\ g = Len(got[Other(e)]) /\ s = sent[e] /\ r = Replies(e)
    <3>1. Replies(e) \in Nat
      BY DEF Replies
    <3> QED
      BY <3>1, InsideNat, LenProperties, Ways DEF Stations
  <2>3. i + g = s + r
    BY <2>1, <2>2 DEF NothingLost, OnTheWay
  <2>4. (i + 1) + g = (s + 1) + r
    BY <2>3
  <2>5. Inside(Outward(e))' = i + 1 /\ sent'[e] = s + 1 /\ Len(got'[Other(e)]) = g /\ Replies(e)' = r
    BY <1>2, <1>8, <1>9, <2>1, <2>2
  <2> QED
    BY <1>5, <2>4, <2>5 DEF NothingLost, OnTheWay
<1> QED
  BY <1>10, <1>11, Ways

LEMMA CopyEndsKeeps ==
    ASSUME TypeOK, CopyTyped, Placed, ClosedBothWays, NEW e \in Endpoint, OnTheWay(e),
           NEW p \in Process, NEW c \in Dir, CopyEnds(p, c), ~lost'
    PROVE  OnTheWay(e)'
<1>1. PICK d \in Dir : d = Outward(e)
  BY Ways
<1>2. /\ EndInTurn(e)'
      /\ net'["user"][d].q = net["user"][d].q /\ net'["tunnel"][d].q = net["tunnel"][d].q
      /\ net'["target"][d].q = net["target"][d].q
      /\ c = d => held[p][c] = <<>>
  BY <1>1, CopyEndsTurn DEF OnTheWay
<1>3. /\ held'[p][c] = <<>> /\ HeldOnly(p, c)
      /\ mode' = mode /\ near' = near /\ sent' = sent /\ got' = got
  BY CopyEndsWhy
<1>4. \A q \in Process : held'[q][d] = held[q][d]
  BY <1>2, <1>3 DEF HeldOnly
<1>5. Replies(e)' = Replies(e)
  BY <1>3, RepliesSame
<1>6. NothingLost(e)'
  BY <1>1, <1>2, <1>3, <1>4, <1>5, LostStays, LinksAndDirs DEF OnTheWay
<1> QED
  BY <1>2, <1>6 DEF OnTheWay

LEMMA HalfClosesKeeps ==
    ASSUME TypeOK, NEW e \in Endpoint, OnTheWay(e), HalfCloses(e)
    PROVE  OnTheWay(e)'
<1>1. PICK d \in Dir : d = Outward(e)
  BY Ways
<1>2. Changed(net, net', e, d, Ended(net[e][d]))
  BY <1>1, TypedNow, HalfClosesNet
<1>3. /\ copy' = copy /\ held' = held /\ near' = near /\ mode' = mode
      /\ sent' = sent /\ got' = got
  BY DEF HalfCloses, copyVars
<1>4. EndInTurn(e)'
  BY <1>1, <1>2, <1>3, HalfTurn DEF OnTheWay
<1>5. \A l \in Link : net'[l][d].q = net[l][d].q
  <2> TAKE l \in Link
  <2>1. CASE l = e
    BY <1>2, <2>1, PipeFields DEF Changed
  <2>2. CASE l # e
    BY <1>2, <2>2 DEF Changed
  <2> QED
    BY <2>1, <2>2
<1>6. Replies(e)' = Replies(e)
  BY <1>3, RepliesSame
<1>7. NothingLost(e)'
  BY <1>1, <1>3, <1>5, <1>6, LostStays, LinksAndDirs DEF OnTheWay
<1> QED
  BY <1>4, <1>7 DEF OnTheWay

(* The handler of the near process writes to what is open. *)
LEMMA NearGoesOn ==
    ASSUME Placed, NEW e \in Endpoint, EndInTurn(e)
    PROVE  ~NearFails
<1> SUFFICES ASSUME NearFails
             PROVE  FALSE
  OBVIOUS
<1>1. \A d \in Dir : copy["near"][d] # "done"
  BY DEF NearFails, Placed
<1>2. \/ net["user"]["back"].fin \/ net["user"]["back"].shut
      \/ net["tunnel"]["out"].fin \/ net["tunnel"]["out"].shut
  BY DEF NearFails, WriteFails
<1>3. CASE e = "user"
  <2>1. InTurn("user", "target", "out", "back", "near", "far")
    BY <1>3 DEF EndInTurn, Other, Outward, Opposite, Host
  <2> QED
    BY <1>1, <1>2, <2>1, LinksAndDirs DEF InTurn
<1>4. CASE e = "target"
  <2>1. InTurn("target", "user", "back", "out", "far", "near")
    BY <1>4 DEF EndInTurn, Other, Outward, Opposite, Host
  <2> QED
    BY <1>1, <1>2, <2>1, LinksAndDirs DEF InTurn
<1> QED
  BY <1>3, <1>4 DEF Endpoint

(* A step that moves nothing, but may start copies. *)
LEMMA StartKeeps ==
    ASSUME CopyTyped, NEW e \in Endpoint, OnTheWay(e), net' = net, held' = held, sent' = sent,
           got' = got, Replies(e)' = Replies(e), NEW q \in Process,
           \/ copy' = copy
           \/ /\ copy' = [copy EXCEPT ![q] = [d \in Dir |-> "on"]]
              /\ \A d \in Dir : copy[q][d] = "idle"
    PROVE  OnTheWay(e)'
<1>1. EndInTurn(e)'
  BY SameTurn, StartTurn DEF OnTheWay
<1>2. NothingLost(e)'
  BY LostSame DEF OnTheWay
<1> QED
  BY <1>1, <1>2 DEF OnTheWay

LEMMA StillKeeps ==
    ASSUME NEW e \in Endpoint, OnTheWay(e), net' = net, held' = held, sent' = sent,
           got' = got, copy' = copy, Replies(e)' = Replies(e)
    PROVE  OnTheWay(e)'
  BY SameTurn, LostSame DEF OnTheWay

(* The copies of a handler that is about to start them are idle. *)
LEMMA IdleBefore ==
    ASSUME CopyTyped, Placed
    PROVE  /\ near \notin {"relay", "over"} => \A d \in Dir : copy["near"][d] = "idle"
           /\ far \notin {"relay", "over"} => \A d \in Dir : copy["far"][d] = "idle"
  BY DEF Placed

(* Handlers that are over stay so, and so do copies that are done. *)
OverStays ==
    /\ near' = "over" => near = "over"
    /\ far' = "over" => far = "over"
    /\ \A p \in Process, d \in Dir : copy[p][d] = "done" => copy'[p][d] = "done"

LEMMA OverKept ==
    ASSUME OverAtLast, OverStays
    PROVE  OverAtLast'
  BY LinksAndDirs DEF OverAtLast, OverStays

(* What every step does to a way that is and stays calm. *)
KeepsWay(e) == OnTheWay(e)' /\ OverAtLast'

LEMMA KeptStep ==
    ASSUME ForwardingInv, ForwardingInv', Ordered, NEW e \in Endpoint, Calm(e), Calm(e)',
           OnTheWay(e), OverAtLast, [Next]_vars
    PROVE  KeepsWay(e)
<1>1. TypeOK /\ CopyTyped /\ EndsTyped /\ Targeted /\ Placed
  BY TypeSplit DEF ForwardingInv, Undisturbed, Placed
<1>2. Stations /\ Stations'
  BY <1>1, StationsTyped, StationsTypedNext DEF ForwardingInv
<1>3. HoldsForSomeone /\ ClosedBothWays
  BY DEF Ordered
<1>4. /\ near' # "refused" /\ session' # "closed" /\ ~cancelled' /\ ~lost'
      /\ (far' = "over" => reached' # Nowhere)
      /\ ended'[e] # "closed" /\ ended'[Other(e)] = "open"
  BY DEF Calm
<1>5. Other(e) \in Endpoint /\ \A f \in Endpoint : f = e \/ f = Other(e)
  BY Ways
<1>6. ASSUME net' = net, held' = held, sent' = sent, got' = got, copy' = copy,
             Replies(e)' = Replies(e), OverStays
      PROVE  KeepsWay(e)
  BY <1>6, StillKeeps, OverKept DEF KeepsWay
<1>7. ASSUME OnTheWay(e)', OverStays
      PROVE  KeepsWay(e)
  BY <1>7, OverKept DEF KeepsWay
<1>10. CASE DialOpens
  <2>1. /\ near = "dial" /\ near' \in {"relay", "hijack"} /\ far' = "header"
        /\ near' # "hijack" => mode = "ssh"
        /\ net' = net /\ held' = held /\ sent' = sent /\ got' = got /\ mode' = mode
        /\ \/ copy' = copy
           \/ copy' = [copy EXCEPT !["near"] = [d \in Dir |-> "on"]]
    BY <1>10 DEF DialOpens, endVars
  <2>2. Replies(e)' = Replies(e)
    BY <2>1 DEF Replies, Early
  <2>3. \A d \in Dir : copy["near"][d] = "idle"
    BY <1>1, <2>1, IdleBefore
  <2>4. OnTheWay(e)'
    BY <1>1, <2>1, <2>2, <2>3, StartKeeps, LinksAndDirs
  <2>5. OverStays
    BY <1>1, <2>1, <2>3, LinksAndDirs DEF OverStays, CopyTyped
  <2> QED
    BY <1>7, <2>4, <2>5
<1>11. CASE DialFails
  BY <1>4, <1>11 DEF DialFails
<1>12. CASE Hijack
  <2>1. OnTheWay(e)'
    BY <1>1, <1>2, <1>3, <1>12, HijackKeeps
  <2> QED
    BY <1>7, <1>12, <2>1 DEF Hijack, OverStays
<1>13. CASE Greet
  <2>1. OnTheWay(e)'
    BY <1>1, <1>2, <1>3, <1>13, GreetKeeps
  <2> QED
    BY <1>7, <1>13, <2>1 DEF Greet, copyVars, OverStays
<1>14. CASE SendEarly
  <2>1. OnTheWay(e)'
    BY <1>1, <1>2, <1>14, SendEarlyKeeps
  <2> QED
    BY <1>7, <1>14, <2>1 DEF SendEarly, OverStays
<1>15. CASE EarlySent
  <2>1. /\ near = "early" /\ near' = "relay" /\ far' = far
        /\ net' = net /\ held' = held /\ sent' = sent /\ got' = got /\ mode' = mode
        /\ copy' = [copy EXCEPT !["near"] = [d \in Dir |-> "on"]]
    BY <1>15 DEF EarlySent, endVars
  <2>2. Replies(e)' = Replies(e)
    BY <2>1 DEF Replies, Early
  <2>3. \A d \in Dir : copy["near"][d] = "idle"
    BY <1>1, <2>1, IdleBefore
  <2>4. OnTheWay(e)'
    BY <1>1, <2>1, <2>2, <2>3, StartKeeps, LinksAndDirs
  <2>5. OverStays
    BY <1>1, <2>1, <2>3, LinksAndDirs DEF OverStays, CopyTyped
  <2> QED
    BY <1>7, <2>4, <2>5
<1>16. CASE NearFails
  BY <1>1, <1>16, NearGoesOn DEF OnTheWay
<1>17. CASE FarReads
  <2>1. net' = net
    BY <1>1, <1>17, FarReadsNet
  <2>2. /\ held' = held /\ sent' = sent /\ got' = got /\ copy' = copy
        /\ near' = near /\ mode' = mode /\ far' = "dial"
    BY <1>17 DEF FarReads, endVars, copyVars
  <2> QED
    BY <1>6, <2>1, <2>2, RepliesSame DEF OverStays
<1>18. CASE FarFails
  BY <1>1, <1>4, <1>18 DEF FarFails, Targeted
<1>19. CASE CloseTimeout
  BY <1>4, <1>19 DEF CloseTimeout
<1>20. ASSUME NEW p \in Process, RelayReturns(p)
       PROVE  KeepsWay(e)
  <2>1. /\ net' = net /\ held' = held /\ copy' = copy /\ sent' = sent /\ got' = got /\ mode' = mode
        /\ \A d \in Dir : copy[p][d] = "done"
        /\ \/ p = "near" /\ near = "relay" /\ near' = "over" /\ far' = far
           \/ p # "near" /\ far' = "over" /\ near' = near
    BY <1>20 DEF RelayReturns, endVars, copyVars
  <2>2. Replies(e)' = Replies(e)
    BY <2>1 DEF Replies, Early
  <2>3. OnTheWay(e)'
    BY <2>1, <2>2, StillKeeps
  <2>4. OverAtLast'
    BY <2>1, LinksAndDirs DEF OverAtLast
  <2> QED
    BY <2>3, <2>4 DEF KeepsWay
<1>21. ASSUME NEW p \in Process, NEW d \in Dir, CopyReads(p, d)
       PROVE  KeepsWay(e)
  <2>1. OnTheWay(e)'
    BY <1>1, <1>2, <1>21, CopyReadsKeeps
  <2> QED
    BY <1>7, <1>21, <2>1 DEF CopyReads, OverStays
<1>22. ASSUME NEW p \in Process, NEW d \in Dir, CopyWrites(p, d)
       PROVE  KeepsWay(e)
  <2>1. OnTheWay(e)'
    BY <1>1, <1>2, <1>22, CopyWritesKeeps
  <2> QED
    BY <1>7, <1>22, <2>1 DEF CopyWrites, OverStays
<1>23. ASSUME NEW p \in Process, NEW d \in Dir, CopyEnds(p, d)
       PROVE  KeepsWay(e)
  <2>1. OnTheWay(e)'
    BY <1>1, <1>3, <1>4, <1>23, CopyEndsKeeps
  <2>2. /\ copy'[p][d] = "done" /\ near' = near /\ far' = far
        /\ \A q \in Process, c \in Dir : q # p \/ c # d => copy'[q][c] = copy[q][c]
    BY <1>1, <1>4, <1>23, CopyEndsWhy
  <2> QED
    BY <1>7, <2>1, <2>2 DEF OverStays
<1>24. ASSUME NEW f \in Endpoint, Gets(f)
       PROVE  KeepsWay(e)
  <2>1. OnTheWay(e)'
    BY <1>1, <1>2, <1>24, GetsKeeps
  <2> QED
    BY <1>7, <1>24, <2>1 DEF Gets, copyVars, OverStays
<1>25. CASE NksStarts
  BY <1>6, <1>25, RepliesSame DEF NksStarts, copyVars, endVars, OverStays
<1>26. CASE NksRestarts
  BY <1>6, <1>26, RepliesSame DEF NksRestarts, copyVars, endVars, OverStays
<1>27. CASE SessionEnds
  BY <1>4, <1>27 DEF SessionEnds
<1>28. CASE AskSSH
  <2>1. /\ near = "idle" /\ near' = "dial" /\ far' = far /\ net' = net
        /\ held' = held /\ copy' = copy /\ sent' = sent /\ got' = got
    BY <1>28 DEF AskSSH, copyVars, endVars
  <2>2. Replies(e)' = Replies(e)
    BY <2>1 DEF Replies, Early
  <2> QED
    BY <1>6, <2>1, <2>2 DEF OverStays
<1>29. CASE Cancelled
  BY <1>4, <1>29 DEF Cancelled
<1>30. CASE FarDials
  <2>1. /\ far = "dial" /\ far' = "relay" /\ near' = near
        /\ net' = net /\ held' = held /\ sent' = sent /\ got' = got /\ mode' = mode
        /\ copy' = [copy EXCEPT !["far"] = [d \in Dir |-> "on"]]
    BY <1>30 DEF FarDials, endVars
  <2>2. Replies(e)' = Replies(e)
    BY <2>1, RepliesSame
  <2>3. \A d \in Dir : copy["far"][d] = "idle"
    BY <1>1, <2>1, IdleBefore
  <2>4. OnTheWay(e)'
    BY <1>1, <2>1, <2>2, <2>3, StartKeeps, LinksAndDirs
  <2>5. OverStays
    BY <1>1, <2>1, <2>3, LinksAndDirs DEF OverStays, CopyTyped
  <2> QED
    BY <1>7, <2>4, <2>5
<1>31. ASSUME NEW useProxy \in UsesProxy, NkStarts(useProxy)
       PROVE  KeepsWay(e)
  <2>1. /\ net' = net /\ held' = held /\ copy' = copy /\ sent' = sent /\ got' = got
        /\ near' = near /\ far' = far /\ mode' = mode
    BY <1>31 DEF NkStarts, copyVars, endVars
  <2> QED
    BY <1>6, <2>1, RepliesSame DEF OverStays
<1>32. ASSUME NEW t \in Targets, Ask(t)
       PROVE  KeepsWay(e)
  <2>1. /\ near = "idle" /\ near' = "dial" /\ far' = far /\ net' = net
        /\ held' = held /\ copy' = copy /\ sent' = sent /\ got' = got
    BY <1>32 DEF Ask, copyVars, endVars
  <2>2. Replies(e)' = Replies(e)
    BY <2>1 DEF Replies, Early
  <2> QED
    BY <1>6, <2>1, <2>2 DEF OverStays
<1>33. ASSUME NEW f \in Endpoint, Sends(f)
       PROVE  KeepsWay(e)
  <2>1. OnTheWay(e)'
    BY <1>1, <1>2, <1>4, <1>33, SendsKeeps
  <2> QED
    BY <1>7, <1>33, <2>1 DEF Sends, copyVars, OverStays
<1>34. ASSUME NEW f \in Endpoint, HalfCloses(f)
       PROVE  KeepsWay(e)
  <2>1. ended'[f] # "open"
    BY <1>1, <1>34 DEF HalfCloses, EndsTyped
  <2>2. f = e
    BY <1>4, <1>5, <2>1
  <2>3. OnTheWay(e)'
    BY <1>1, <1>34, <2>2, HalfClosesKeeps
  <2> QED
    BY <1>7, <1>34, <2>3 DEF HalfCloses, copyVars, OverStays
<1>35. ASSUME NEW f \in Endpoint, Closes(f)
       PROVE  KeepsWay(e)
  <2>1. ended'[f] = "closed"
    BY <1>1, <1>35 DEF Closes, EndsTyped
  <2> QED
    BY <1>4, <1>5, <2>1
<1>36. CASE UNCHANGED vars
  BY <1>6, <1>36, RepliesSame DEF vars, copyVars, endVars, OverStays
<1> QED
  BY <1>10, <1>11, <1>12, <1>13, <1>14, <1>15, <1>16, <1>17, <1>18, <1>19, <1>20, <1>21, <1>22,
     <1>23, <1>24, <1>25, <1>26, <1>27, <1>28, <1>29, <1>30, <1>31, <1>32, <1>33, <1>34, <1>35,
     <1>36 DEF Next, Program, Environment

-----------------------------------------------------------------------------
(* The last byte.                                                          *)

LEMMA InitKept ==
    ASSUME Init
    PROVE  KeptWhole
<1> SUFFICES ASSUME NEW e \in Endpoint
             PROVE  EndInTurn(e) /\ OverAtLast /\ NothingLost(e)
  BY DEF KeptWhole
<1>1. /\ \A l \in Link, d \in Dir :
             net[l][d].q = <<>> /\ ~net[l][d].fin /\ ~net[l][d].shut
      /\ \A p \in Process, d \in Dir : held[p][d] = <<>> /\ copy[p][d] = "idle"
      /\ \A f \in Endpoint : got[f] = <<>> /\ sent[f] = 0
      /\ near = "idle" /\ far = "none" /\ mode = "none"
  BY DEF Init
<1>2. EndInTurn(e)
  <2>1. PICK f \in Endpoint, d \in Dir, o \in Dir, p \in Process, r \in Process :
            /\ f = Other(e) /\ d = Outward(e) /\ o = Opposite(Outward(e))
            /\ p = Host(e) /\ r = Host(Other(e))
    BY Ways
  <2>2. e \in Link /\ f \in Link /\ "tunnel" \in Link
    BY Ways
  <2>3. InTurn(e, f, d, o, p, r)
    BY <1>1, <2>2 DEF InTurn
  <2> QED
    BY <2>1, <2>3 DEF EndInTurn
<1>3. OverAtLast
  BY <1>1 DEF OverAtLast
<1>4. NothingLost(e)
  <2>1. \A d \in Dir :
            /\ Len(net["user"][d].q) = 0 /\ Len(held["near"][d]) = 0
            /\ Len(net["tunnel"][d].q) = 0 /\ Len(held["far"][d]) = 0
            /\ Len(net["target"][d].q) = 0
    BY <1>1, LinksAndDirs
  <2>2. Inside(Outward(e)) = 0
    <3>1. PICK d \in Dir : d = Outward(e)
      BY Ways
    <3>2. Inside(d) = 0 + 0 + 0 + 0 + 0
      BY <2>1 DEF Inside
    <3> QED
      BY <3>1, <3>2
  <2>3. Len(got[Other(e)]) = 0 /\ sent[e] = 0 /\ Replies(e) = 0
    BY <1>1, Ways DEF Replies
  <2> QED
    BY <2>2, <2>3 DEF NothingLost
<1> QED
  BY <1>2, <1>3, <1>4

LEMMA WayStep ==
    ASSUME ForwardingInv, ForwardingInv', Ordered, KeptWhole, [Next]_vars
    PROVE  KeptWhole'
<1> SUFFICES ASSUME NEW e \in Endpoint, Calm(e)'
             PROVE  EndInTurn(e)' /\ OverAtLast' /\ NothingLost(e)'
  BY DEF KeptWhole
<1>1. Calm(e)
  <2>1. TypeOK /\ EndsTyped /\ Targeted
    BY TypeSplit DEF ForwardingInv
  <2> QED
    BY <2>1, CalmBefore
<1>2. OnTheWay(e) /\ OverAtLast
  BY <1>1 DEF KeptWhole, OnTheWay
<1>3. KeepsWay(e)
  BY <1>1, <1>2, KeptStep
<1> QED
  BY <1>3 DEF KeepsWay, OnTheWay

(* As long as nothing else happens to a connection, no byte of a direction *)
(* is lost: each is in one of the queues and buffers of its way or was got *)
(* by the other endpoint.  The closes pass down the way behind the bytes,  *)
(* and what goes the opposite way ends after them.                         *)
THEOREM WayKept == Spec => []KeptWhole
<1>1. Init => KeptWhole
  BY InitKept
<1>2. ForwardingInv /\ ForwardingInv' /\ Ordered /\ KeptWhole /\ [Next]_vars => KeptWhole'
  BY WayStep
<1> QED
  BY <1>1, <1>2, InvariantHolds, OrderHolds, PTL DEF Spec

LEMMA SameByStart ==
    ASSUME NEW s \in Seq(Nat), NEW t \in Seq(Nat), StartOf(s, t), Len(s) = Len(t)
    PROVE  s = t
  BY SeqEqual DEF StartOf

LEMMA HeardFromKept ==
    ASSUME TypeOK, Ordered, KeptWhole
    PROVE  HeardInFull
<1> SUFFICES ASSUME NEW e \in Endpoint,
                    ended[e] = "half", ended[Other(e)] = "open",
                    near = "over", far = "over", reached # Nowhere,
                    net[Other(e)][Outward(e)].q = <<>>,
                    session = "up", ~cancelled, ~lost
             PROVE  got[Other(e)] = (IF e = "target" /\ mode = "connect" THEN <<200>> ELSE <<>>)
                                        \o Text(e, sent[e])
  BY DEF HeardInFull
<1>1. Stations
  BY StationsTyped
<1>2. EndInTurn(e) /\ OverAtLast /\ NothingLost(e)
  BY DEF KeptWhole, Calm
<1>3. PICK f \in Endpoint, d \in Dir, o \in Dir, p \in Process, r \in Process :
          /\ f = Other(e) /\ d = Outward(e) /\ o = Opposite(Outward(e))
          /\ p = Host(e) /\ r = Host(Other(e))
          /\ f # e
  BY Ways
<1>4. \A q \in Process : copy[q][d] = "done"
  BY <1>2, LinksAndDirs DEF OverAtLast
<1>5. net[e][d].q = <<>> /\ net["tunnel"][d].q = <<>> /\ net[f][d].q = <<>>
  BY <1>2, <1>3, <1>4 DEF EndInTurn, InTurn
<1>6. \A q \in Process : held[q][d] = <<>>
  BY <1>4 DEF Ordered, HoldsForSomeone
<1>7. Inside(d) = 0
  <2>1. net["user"][d].q = <<>> /\ net["target"][d].q = <<>>
    BY <1>3, <1>5 DEF Endpoint
  <2>2. /\ Len(net["user"][d].q) = 0 /\ Len(held["near"][d]) = 0
        /\ Len(net["tunnel"][d].q) = 0 /\ Len(held["far"][d]) = 0
        /\ Len(net["target"][d].q) = 0
    BY <1>5, <1>6, <2>1, LinksAndDirs
  <2> QED
    BY <2>2 DEF Inside
<1>8. PICK g \in Nat, n \in Nat, a \in Nat :
          g = Len(got[f]) /\ n = sent[e] /\ a = Replies(e)
  <2>1. Replies(e) \in Nat
    BY DEF Replies
  <2> QED
    BY <1>1, <2>1, LenProperties DEF Stations
<1>9. g = a + n
  <2>1. 0 + g = n + a
    BY <1>2, <1>3, <1>7, <1>8 DEF NothingLost
  <2> QED
    BY <2>1
<1>10. PICK x \in Seq(Nat) : x = Text(e, n) /\ Len(x) = n
  BY TextIs
<1>11. CASE e = "user"
  <2>1. a = 0 /\ f = "target"
    BY <1>3, <1>8, <1>11 DEF Replies, Other
  <2>2. StartOf(got[f], x)
    BY <1>8, <1>10, <1>11, <2>1, OrderedInOrder DEF InOrder
  <2>3. PICK s \in Seq(Nat) : s = got[f]
    BY <1>1 DEF Stations
  <2>4. Len(s) = n
    <3>1. g = n
      BY <1>9, <2>1
    <3> QED
      BY <1>8, <2>3, <3>1
  <2>5. s = x
    BY <1>10, <2>2, <2>3, <2>4, SameByStart
  <2>6. <<>> \o x = x
    BY ConcatEmptySeq
  <2> QED
    BY <1>3, <1>8, <1>10, <1>11, <2>3, <2>5, <2>6
<1>12. CASE e = "target"
  <2>1. f = "user" /\ Greeting = IF e = "target" /\ mode = "connect" THEN <<200>> ELSE <<>>
    BY <1>3, <1>12 DEF Other, Greeting
  <2>2. PICK h \in Seq(Nat) : h = Greeting
    BY BackTextIs
  <2>3. Len(h) = a
    <3>1. Len(<<200>>) = 1 /\ Len(<<>>) = 0
      OBVIOUS
    <3> QED
      BY <1>8, <1>12, <2>2, <3>1 DEF Greeting, Replies, Early
  <2>4. h \o x \in Seq(Nat) /\ Len(h \o x) = a + n
    <3>1. Len(h \o x) = Len(h) + Len(x) /\ h \o x \in Seq(Nat)
      BY ConcatProperties
    <3> QED
      BY <1>10, <2>3, <3>1
  <2>5. PICK y \in Seq(Nat), s \in Seq(Nat) : y = h \o x /\ s = got[f]
    BY <1>1, <2>4 DEF Stations
  <2>6. StartOf(s, y)
    BY <1>8, <1>10, <1>12, <2>1, <2>2, <2>5, AnswerInOrder
  <2>7. Len(s) = Len(y)
    BY <1>8, <1>9, <2>4, <2>5
  <2>8. s = y
    BY <2>6, <2>7, SameByStart
  <2> QED
    BY <1>3, <1>8, <1>10, <2>1, <2>2, <2>5, <2>8
<1> QED
  BY <1>11, <1>12 DEF Endpoint

(* An endpoint that ended its direction and was read to the end has been   *)
(* heard to its last byte, unless something else ended the connection.     *)
THEOREM LastByteHeard == Spec => []HeardInFull
<1>1. TypeOK /\ Ordered /\ KeptWhole => HeardInFull
  BY HeardFromKept
<1> QED
  BY <1>1, TypeCorrect, OrderHolds, WayKept, PTL

=============================================================================
