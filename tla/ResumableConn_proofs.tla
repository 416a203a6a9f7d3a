------------------------ MODULE ResumableConn_proofs ------------------------
(***************************************************************************)
(* Theorems about ResumableConn, for every number of WebSockets, bytes and *)
(* redials: the stream is intact.                                          *)
(***************************************************************************)
EXTENDS ResumableConnInv, SequenceTheorems, TLAPS

LEMMA Sides ==
    /\ "client" \in Side /\ "server" \in Side
    /\ \A s \in Side : Peer(s) \in Side /\ Peer(s) # s /\ Peer(Peer(s)) = s
    /\ \A s \in Side : s \in Side \cup {"net"} /\ s # "net"
BY DEF Peer, Side

LEMMA Conns == Conn \subseteq Nat /\ NoConn \in Nat /\ NoConn \notin Conn /\ 1 \in Conn
BY ConstantsAssumption DEF Conn, NoConn

LEMMA FrameLists ==
    /\ <<>> \in Frames
    /\ \A q \in Frames : q # <<>> => Head(q) \in Frame /\ Tail(q) \in Frames
    /\ \A q \in Frames, f \in Frame : Append(q, f) \in Frames
BY DEF Frames

LEMMA TakenLists ==
    /\ <<>> \in Taken
    /\ \A r \in Taken, lo, hi \in Nat : lo <= hi => r \o Bytes(lo, hi) \in Taken
BY DEF Taken, Bytes

-----------------------------------------------------------------------------
(* Types.                                                                  *)

LEMMA JobTypes ==
    /\ Free \in JobType
    /\ \A who \in Holder \ {"free"}, c \in Conn, phase \in Phase,
          ack, from \in Nat, todo \in SUBSET Nat :
              (\A h \in todo : from < h) =>
              Job(who, c, phase, ack, from, todo) \in JobType
BY DEF JobType, Job

LEMMA JobFields ==
    ASSUME NEW job \in JobType
    PROVE  /\ job.who \in Holder /\ job.phase \in Phase
           /\ job.ack \in Nat /\ job.from \in Nat /\ job.todo \in SUBSET Nat
           /\ \A h \in job.todo : job.from < h
           /\ job.who = "free" <=> job = Free
           /\ job.who # "free" => job.conn \in Conn
           /\ job.phase # "snap" => job.who # "free"
           /\ job.who = "free" => job.conn = NoConn
BY DEF JobType, Free, Job, Holder, Phase

LEMMA TypeInit == Init => TypeOK
BY Sides, Conns, FrameLists, TakenLists, JobTypes, ConstantsAssumption DEF Init, TypeOK

LEMMA DropType ==
    ASSUME ws \in [Side -> Conn \cup {NoConn}],
           dead \in [Conn -> SUBSET (Side \cup {"net"})],
           lost \subseteq Side,
           NEW s \in Side, NEW c, Drop(s, c)
    PROVE  /\ ws' \in [Side -> Conn \cup {NoConn}]
           /\ dead' \in [Conn -> SUBSET (Side \cup {"net"})]
           /\ lost' \subseteq Side
BY DEF Drop

LEMMA PutType ==
    ASSUME wire \in [Conn -> [Side -> Frames]],
           NEW s \in Side, NEW c \in Conn, NEW f \in Frame, Put(s, c, f)
    PROVE  wire' \in [Conn -> [Side -> Frames]]
BY FrameLists DEF Put

LEMMA CloseWithType ==
    ASSUME life \in [Side -> {"open", "canceled", "closed"}],
           cause \in [Side -> {"nil", "protocol", "gone", "budget", "grace"}],
           NEW s \in Side, NEW why \in {"protocol", "gone", "budget", "grace"},
           CloseWith(s, why)
    PROVE  /\ life' \in [Side -> {"open", "canceled", "closed"}]
           /\ cause' \in [Side -> {"nil", "protocol", "gone", "budget", "grace"}]
BY DEF CloseWith

LEMMA SetJobType ==
    ASSUME writeMu \in [Side -> JobType], NEW s \in Side, NEW job \in JobType,
           writeMu' = [writeMu EXCEPT ![s] = job]
    PROVE  writeMu' \in [Side -> JobType]
OBVIOUS

LEMMA AckLockedType ==
    ASSUME unackedAt \in [Side -> Nat], unacked \in [Side -> SUBSET Nat],
           NEW s \in Side, NEW ack \in Nat, AckLocked(s, ack)
    PROVE  /\ unackedAt' \in [Side -> Nat]
           /\ unacked' \in [Side -> SUBSET Nat]
<1>1. Kept(s, ack) \in SUBSET Nat
  BY DEF Kept
<1>2. KeptFrom(s, ack) \subseteq Nat
  BY DEF KeptFrom, Confirmed
<1> QED
  BY <1>1, <1>2 DEF AckLocked

LEMMA DialFailedType ==
    ASSUME sup \in [Side -> {"idle", "recover", "attach"}],
           attempt \in 0 .. MaxAttempts,
           life \in [Side -> {"open", "canceled", "closed"}],
           cause \in [Side -> {"nil", "protocol", "gone", "budget", "grace"}],
           DialFailed
    PROVE  /\ sup' \in [Side -> {"idle", "recover", "attach"}]
           /\ attempt' \in 0 .. MaxAttempts
           /\ life' \in [Side -> {"open", "canceled", "closed"}]
           /\ cause' \in [Side -> {"nil", "protocol", "gone", "budget", "grace"}]
<1>1. sup' \in [Side -> {"idle", "recover", "attach"}]
  BY Sides DEF DialFailed
<1>2. attempt' \in 0 .. MaxAttempts
  BY ConstantsAssumption DEF DialFailed
<1>3. UNCHANGED endVars \/ CloseWith("client", "budget")
  BY DEF DialFailed
<1> QED
  BY <1>1, <1>2, <1>3, Sides, CloseWithType DEF endVars

LEMMA TypeNext == TypeOK /\ [Next]_vars => TypeOK'
<1> SUFFICES ASSUME TypeOK, [Next]_vars PROVE TypeOK'
  OBVIOUS
<1>a. /\ ws \in [Side -> Conn \cup {NoConn}]
      /\ dead \in [Conn -> SUBSET (Side \cup {"net"})]
      /\ lost \subseteq Side
  BY DEF TypeOK
<1>b. /\ life \in [Side -> {"open", "canceled", "closed"}]
      /\ cause \in [Side -> {"nil", "protocol", "gone", "budget", "grace"}]
  BY DEF TypeOK
<1>c. /\ writeMu \in [Side -> JobType]
      /\ \A s \in Side : writeMu[s] \in JobType
  BY DEF TypeOK
<1>d. /\ wire \in [Conn -> [Side -> Frames]]
      /\ \A c \in Conn, s \in Side : wire[c][s] \in Frames
  BY DEF TypeOK
<1>e. /\ recvSeq \in [Side -> Nat]
      /\ ackSent \in [Side -> Nat]
      /\ sendSeq \in [Side -> Nat]
      /\ unackedAt \in [Side -> Nat]
  BY DEF TypeOK
<1>f. unacked \in [Side -> SUBSET Nat]
  BY DEF TypeOK
<1>g. /\ sup \in [Side -> {"idle", "recover", "attach"}]
      /\ attempt \in 0 .. MaxAttempts
  BY DEF TypeOK
<1>h. /\ reading \in [Side -> Conn \cup {NoConn}]
      /\ waiting \subseteq Side
      /\ beat \in [Side -> SUBSET Conn]
  BY DEF TypeOK
<1>i. attaching \in [Side -> [Conn -> {"none", "detach", "lock"}]]
  BY DEF TypeOK
<1>j. rcvd \in [Side -> Taken]
  BY DEF TypeOK
<1>1. ASSUME NEW s \in Side, CloseFinish(s) PROVE TypeOK'
  <2>1. life' \in [Side -> {"open", "canceled", "closed"}]
    BY <1>1, <1>b DEF CloseFinish
  <2>2. ws' \in [Side -> Conn \cup {NoConn}]
    BY <1>1, <1>a DEF CloseFinish
  <2>3. unacked' \in [Side -> SUBSET Nat]
    BY <1>1, <1>f DEF CloseFinish
  <2>4. dead' \in [Conn -> SUBSET (Side \cup {"net"})]
    BY <1>1, <1>a DEF CloseFinish, CloseLive
  <2> QED
    BY <1>1, <2>1, <2>2, <2>3, <2>4 DEF TypeOK, CloseFinish, goVars, supVars
<1>2. ASSUME NEW s \in Side, WriteReturn(s) PROVE TypeOK'
  BY <1>2 DEF TypeOK, WriteReturn, connVars, supVars, endVars
<1>3. ASSUME NEW s \in Side, SnapAck(s) PROVE TypeOK'
  <2>1. [writeMu[s] EXCEPT !.phase = "send", !.ack = recvSeq[s]] \in JobType
    BY <1>3, <1>c, <1>e, JobFields DEF SnapAck, JobType, Phase, Free, Job
  <2>2. writeMu' \in [Side -> JobType]
    BY <1>3, <1>c, <2>1, SetJobType DEF SnapAck
  <2> QED
    BY <1>3, <2>2 DEF TypeOK, SnapAck, connVars, goVars, supVars, endVars
<1>4. ASSUME NEW s \in Side, SendFrame(s) PROVE TypeOK'
  <2> DEFINE job == writeMu[s]
  <2>1. job.who \in Holder \ {"free"} /\ job.conn \in Conn
    BY <1>4, <1>c, JobFields DEF SendFrame
  <2>2. PICK hi \in NextEnd(job) :
          /\ Put(s, job.conn, [ack |-> job.ack, lo |-> job.from, hi |-> hi])
          /\ writeMu' = [writeMu EXCEPT ![s] =
                 IF job.todo \subseteq {hi} THEN Free
                 ELSE Job(job.who, job.conn, "snap", 0, hi, job.todo \ {hi})]
    BY <1>4 DEF SendFrame
  <2>3. /\ hi \in Nat /\ job.from <= hi
        /\ \A h \in job.todo \ {hi} : h \in Nat /\ hi < h
    BY <1>c, JobFields DEF NextEnd
  <2>4. [ack |-> job.ack, lo |-> job.from, hi |-> hi] \in Frame
    BY <1>c, <2>3, JobFields DEF Frame
  <2>5. wire' \in [Conn -> [Side -> Frames]]
    BY <1>d, <2>1, <2>2, <2>4, PutType
  <2>6. Job(job.who, job.conn, "snap", 0, hi, job.todo \ {hi}) \in JobType
    BY <1>c, <2>1, <2>3, JobFields, JobTypes DEF Phase
  <2>7. writeMu' \in [Side -> JobType]
    BY <1>c, <2>2, <2>6, JobTypes, SetJobType
  <2>8. ackSent' \in [Side -> Nat]
    BY <1>4, <1>c, <1>e, JobFields DEF SendFrame
  <2> QED
    BY <1>4, <2>5, <2>7, <2>8 DEF TypeOK, SendFrame, goVars, supVars, endVars
<1>5. ASSUME NEW s \in Side, SendFails(s) PROVE TypeOK'
  <2>1. Drop(s, writeMu[s].conn)
    BY <1>5 DEF SendFails
  <2>2. /\ ws' \in [Side -> Conn \cup {NoConn}]
        /\ dead' \in [Conn -> SUBSET (Side \cup {"net"})]
        /\ lost' \subseteq Side
    BY <1>a, <2>1, DropType
  <2>3. writeMu' \in [Side -> JobType]
    BY <1>5, <1>c, JobTypes, SetJobType DEF SendFails
  <2>4. waiting' \subseteq Side
    BY <1>5, <1>h DEF SendFails
  <2> QED
    BY <1>5, <2>2, <2>3, <2>4 DEF TypeOK, SendFails, connVars, supVars, endVars
<1>6. ASSUME NEW s \in Side, ReadCurrent(s) PROVE TypeOK'
  BY <1>6 DEF TypeOK, ReadCurrent, connVars, supVars, endVars

<1>7. ASSUME NEW s \in Side, ReadFrame(s) PROVE TypeOK'
  <2> DEFINE c == reading[s]
             q == wire[c][Peer(s)]
             f == Head(q)
  <2>1. /\ c \in Conn /\ Peer(s) \in Side /\ q \in Frames /\ q # <<>>
        /\ wire' = [wire EXCEPT ![c][Peer(s)] = Tail(q)]
    BY <1>7, <1>d, <1>h, Sides, Conns DEF ReadFrame
  <2>2. f \in Frame /\ Tail(q) \in Frames
    BY <2>1, FrameLists
  <2>3. wire' \in [Conn -> [Side -> Frames]]
    BY <1>d, <2>1, <2>2
  <2>4. CASE /\ reading' = [reading EXCEPT ![s] = NoConn]
             /\ UNCHANGED <<recvSeq, unackedAt, unacked, rcvd, writeMu>>
             /\ CloseWith(s, "protocol") \/ UNCHANGED endVars
    <3>1. reading' \in [Side -> Conn \cup {NoConn}]
      BY <1>h, <2>4
    <3>2. /\ life' \in [Side -> {"open", "canceled", "closed"}]
          /\ cause' \in [Side -> {"nil", "protocol", "gone", "budget", "grace"}]
      BY <1>b, <2>4, CloseWithType DEF endVars
    <3> QED
      BY <1>7, <2>3, <2>4, <3>1, <3>2 DEF TypeOK, ReadFrame, supVars
  <2>5. CASE Accept(s, c, f)
    <3> DEFINE got == recvSeq[s] + (f.hi - f.lo)
    <3>1. f.ack \in Nat /\ f.lo \in Nat /\ f.hi \in Nat /\ f.lo <= f.hi
      BY <2>2 DEF Frame
    <3>2. got \in Nat
      BY <1>e, <3>1
    <3>3. recvSeq' \in [Side -> Nat]
      BY <1>e, <2>5, <3>2 DEF Accept
    <3>4. unackedAt' \in [Side -> Nat] /\ unacked' \in [Side -> SUBSET Nat]
      BY <1>e, <1>f, <2>5, <3>1, AckLockedType DEF Accept
    <3>7. rcvd' \in [Side -> Taken]
      BY <1>j, <2>5, <3>1, TakenLists DEF Accept
    <3>8. Job("ack", c, "snap", 0, sendSeq[s], {}) \in JobType
      BY <1>e, <2>1, JobTypes DEF Holder, Phase
    <3>9. writeMu' \in [Side -> JobType]
      BY <1>c, <2>5, <3>8, SetJobType DEF Accept, TryAck
    <3> QED
      BY <1>7, <2>3, <2>5, <3>3, <3>4, <3>7, <3>9
         DEF TypeOK, ReadFrame, Accept, endVars, supVars
  <2> QED
    BY <1>7, <2>4, <2>5 DEF ReadFrame
<1>8. ASSUME NEW s \in Side, ReadFails(s) PROVE TypeOK'
  <2>1. reading[s] \in Conn /\ Peer(s) \in Side /\ Drop(s, reading[s])
    BY <1>8, <1>h, Sides, Conns DEF ReadFails
  <2>2. /\ ws' \in [Side -> Conn \cup {NoConn}]
        /\ dead' \in [Conn -> SUBSET (Side \cup {"net"})]
        /\ lost' \subseteq Side
    BY <1>a, <2>1, DropType
  <2>3. wire' \in [Conn -> [Side -> Frames]]
    BY <1>8, <1>d, <2>1, FrameLists DEF ReadFails
  <2>4. reading' \in [Side -> Conn \cup {NoConn}]
    BY <1>8, <1>h DEF ReadFails
  <2> QED
    BY <1>8, <2>2, <2>3, <2>4 DEF TypeOK, ReadFails, connVars, supVars, endVars
<1>9. ASSUME NEW s \in Side, PingFails(s) PROVE TypeOK'
  <2>1. Drop(s, ws[s])
    BY <1>9 DEF PingFails
  <2>2. /\ ws' \in [Side -> Conn \cup {NoConn}]
        /\ dead' \in [Conn -> SUBSET (Side \cup {"net"})]
        /\ lost' \subseteq Side
    BY <1>a, <2>1, DropType
  <2> QED
    BY <1>9, <2>2 DEF TypeOK, PingFails, connVars, goVars, supVars, endVars
<1>10. ASSUME NEW s \in Side, BeatBehind(s) PROVE TypeOK'
  <2>1. beat' \in [Side -> SUBSET Conn]
    BY <1>10, <1>a, <1>h DEF BeatBehind
  <2> QED
    BY <1>10, <2>1 DEF TypeOK, BeatBehind, connVars, supVars, endVars
<1>11. ASSUME NEW s \in Side, AttachFails(s) PROVE TypeOK'
  <2>1. writeMu[s].conn \in Conn /\ Peer(s) \in Side
    BY <1>11, <1>c, JobFields, Sides DEF AttachFails
  <2>2. writeMu' \in [Side -> JobType]
    BY <1>11, <1>c, JobTypes, SetJobType DEF AttachFails
  <2>3. dead' \in [Conn -> SUBSET (Side \cup {"net"})]
    BY <1>11, <1>a, <2>1 DEF AttachFails
  <2>4. wire' \in [Conn -> [Side -> Frames]]
    BY <1>11, <1>d, <2>1, FrameLists DEF AttachFails
  <2>5. DialFailed \/ UNCHANGED <<sup, attempt, life, cause>>
    BY <1>11 DEF AttachFails, endVars
  <2>6. /\ sup' \in [Side -> {"idle", "recover", "attach"}]
        /\ attempt' \in 0 .. MaxAttempts
        /\ life' \in [Side -> {"open", "canceled", "closed"}]
        /\ cause' \in [Side -> {"nil", "protocol", "gone", "budget", "grace"}]
    BY <1>b, <1>g, <2>5, DialFailedType
  <2> QED
    BY <1>11, <2>2, <2>3, <2>4, <2>6 DEF TypeOK, AttachFails, connVars, goVars
<1>12. ASSUME NEW s \in Side, AttachReply(s) PROVE TypeOK'
  <2> DEFINE job == writeMu[s]
             c == job.conn
             q == wire[c][Peer(s)]
             peer == Head(q).ack
  <2>1. /\ c \in Conn /\ Peer(s) \in Side /\ q \in Frames /\ q # <<>>
        /\ job.ack \in Nat
        /\ wire' = [wire EXCEPT ![c][Peer(s)] = Tail(q)]
    BY <1>12, <1>c, <1>d, JobFields, Sides DEF AttachReply
  <2>2. peer \in Nat /\ Tail(q) \in Frames
    BY <2>1, FrameLists DEF Frame
  <2>3. wire' \in [Conn -> [Side -> Frames]]
    BY <1>d, <2>1, <2>2
  <2>4. /\ unackedAt' \in [Side -> Nat]
        /\ unacked' \in [Side -> SUBSET Nat]
    BY <1>12, <1>e, <1>f, <2>2, AckLockedType DEF AttachReply
  <2>5. CASE GoLive(s, c, peer)
    <3>1. ws' \in [Side -> Conn \cup {NoConn}]
      BY <1>a, <2>1, <2>5 DEF GoLive
    <3>2. ackSent' \in [Side -> Nat]
      BY <1>e, <2>1, <2>5 DEF GoLive
    <3>4. Kept(s, peer) \in SUBSET Nat /\ \A h \in Kept(s, peer) : peer < h
      BY <1>f DEF Kept
    <3>5. Job("attach", c, "snap", 0, peer, Kept(s, peer)) \in JobType
      BY <2>1, <2>2, <3>4, JobTypes DEF Holder, Phase
    <3>6. writeMu' \in [Side -> JobType]
      BY <1>c, <2>5, <3>5, JobTypes, SetJobType DEF GoLive
    <3>7. sup' \in [Side -> {"idle", "recover", "attach"}]
      BY <1>g, <2>5 DEF GoLive
    <3> QED
      BY <1>12, <2>3, <2>5, <2>4, <3>1, <3>2, <3>6, <3>7
         DEF TypeOK, AttachReply, GoLive, goVars, endVars
  <2>6. CASE GiveUp(s, c) /\ (CloseWith(s, "protocol") \/ UNCHANGED endVars)
    <3>1. dead' \in [Conn -> SUBSET (Side \cup {"net"})]
      BY <1>a, <2>1, <2>6 DEF GiveUp
    <3>2. writeMu' \in [Side -> JobType]
      BY <1>c, <2>6, JobTypes, SetJobType DEF GiveUp
    <3>3. /\ life' \in [Side -> {"open", "canceled", "closed"}]
          /\ cause' \in [Side -> {"nil", "protocol", "gone", "budget", "grace"}]
      BY <1>b, <2>6, CloseWithType DEF endVars
    <3> QED
      BY <1>12, <2>3, <2>6, <2>4, <3>1, <3>2, <3>3
         DEF TypeOK, AttachReply, GiveUp, goVars
  <2> QED
    BY <1>12, <2>5, <2>6 DEF AttachReply
<1>13. ASSUME NEW s \in Side, TakeLost(s) PROVE TypeOK'
  <2>1. sup' \in [Side -> {"idle", "recover", "attach"}] /\ lost' \subseteq Side
    BY <1>13, <1>a, <1>g DEF TakeLost
  <2>2. attempt' \in 0 .. MaxAttempts
    BY <1>13, <1>g, ConstantsAssumption DEF TakeLost
  <2> QED
    BY <1>13, <2>1, <2>2 DEF TypeOK, TakeLost, connVars, goVars, endVars
<1>14. ASSUME NEW s \in Side, NEW c \in Conn, BeatFlush(s, c) PROVE TypeOK'
  <2>1. Job("beat", c, "snap", 0, sendSeq[s], {}) \in JobType
    BY <1>e, JobTypes DEF Holder, Phase
  <2>2. writeMu' \in [Side -> JobType]
    BY <1>14, <1>c, <2>1, SetJobType DEF BeatFlush
  <2>3. beat' \in [Side -> SUBSET Conn]
    BY <1>14, <1>h DEF BeatFlush
  <2> QED
    BY <1>14, <2>2, <2>3 DEF TypeOK, BeatFlush, connVars, supVars, endVars
<1>15. ASSUME NEW s \in Side, NEW c \in Conn, AttachDetach(s, c) PROVE TypeOK'
  <2>1. Drop(s, ws[s])
    BY <1>15 DEF AttachDetach
  <2>2. /\ ws' \in [Side -> Conn \cup {NoConn}]
        /\ dead' \in [Conn -> SUBSET (Side \cup {"net"})]
        /\ lost' \subseteq Side
    BY <1>a, <2>1, DropType
  <2>3. attaching' \in [Side -> [Conn -> {"none", "detach", "lock"}]]
    BY <1>15, <1>i DEF AttachDetach
  <2> QED
    BY <1>15, <2>2, <2>3 DEF TypeOK, AttachDetach, connVars, goVars, endVars
<1>16. ASSUME NEW s \in Side, NEW c \in Conn, AttachLock(s, c) PROVE TypeOK'
  <2>1. Drop(s, ws[s]) /\ Put(s, c, [ack |-> recvSeq[s], lo |-> 0, hi |-> 0])
    BY <1>16 DEF AttachLock
  <2>2. /\ ws' \in [Side -> Conn \cup {NoConn}]
        /\ dead' \in [Conn -> SUBSET (Side \cup {"net"})]
        /\ lost' \subseteq Side
    BY <1>a, <2>1, DropType
  <2>3. [ack |-> recvSeq[s], lo |-> 0, hi |-> 0] \in Frame
    BY <1>e DEF Frame
  <2>4. wire' \in [Conn -> [Side -> Frames]]
    BY <1>d, <2>1, <2>3, PutType
  <2>5. attaching' \in [Side -> [Conn -> {"none", "detach", "lock"}]]
    BY <1>16, <1>i DEF AttachLock
  <2>6. Job("attach", c, "await", recvSeq[s], 0, {}) \in JobType
    BY <1>e, JobTypes DEF Holder, Phase
  <2>7. writeMu' \in [Side -> JobType]
    BY <1>16, <1>c, <2>6, SetJobType DEF AttachLock
  <2> QED
    BY <1>16, <2>2, <2>4, <2>5, <2>7 DEF TypeOK, AttachLock, connVars, goVars, endVars
<1>17. CASE DialOk
  <2>1. dialed' \in Conn
    BY <1>17, Conns, ConstantsAssumption DEF TypeOK, DialOk, Conn
  <2>2. attaching' \in [Side -> [Conn -> {"none", "detach", "lock"}]]
    BY <1>17, <1>i DEF DialOk
  <2>3. sup' \in [Side -> {"idle", "recover", "attach"}]
    BY <1>17, <1>g DEF DialOk
  <2> QED
    BY <1>17, <2>1, <2>2, <2>3 DEF TypeOK, DialOk, connVars, goVars, endVars
<1>18. CASE DialFails
  <2>1. /\ sup' \in [Side -> {"idle", "recover", "attach"}]
        /\ attempt' \in 0 .. MaxAttempts
        /\ life' \in [Side -> {"open", "canceled", "closed"}]
        /\ cause' \in [Side -> {"nil", "protocol", "gone", "budget", "grace"}]
    BY <1>18, <1>b, <1>g, DialFailedType DEF DialFails
  <2> QED
    BY <1>18, <2>1 DEF TypeOK, DialFails, connVars, goVars
<1>19. CASE DialGone \/ GraceExpires
  <2>1. sup' \in [Side -> {"idle", "recover", "attach"}]
    BY <1>19, <1>g DEF DialGone, GraceExpires
  <2>2. CloseWith("client", "gone") \/ CloseWith("server", "grace")
    BY <1>19 DEF DialGone, GraceExpires
  <2>3. /\ life' \in [Side -> {"open", "canceled", "closed"}]
        /\ cause' \in [Side -> {"nil", "protocol", "gone", "budget", "grace"}]
    BY <1>b, <2>2, CloseWithType, Sides
  <2> QED
    BY <1>19, <2>1, <2>3 DEF TypeOK, DialGone, GraceExpires, connVars, goVars
<1>20. CASE ResumeSeen
  BY <1>20, <1>g DEF TypeOK, ResumeSeen, connVars, goVars, endVars
<1>21. ASSUME NEW s \in Side, Cancel(s) PROVE TypeOK'
  <2>1. life' \in [Side -> {"open", "canceled", "closed"}]
    BY <1>21, <1>b DEF Cancel
  <2> QED
    BY <1>21, <2>1 DEF TypeOK, Cancel, connVars, goVars, supVars
<1>22. ASSUME NEW s \in Side, NEW n \in Chunk, Write(s, n) PROVE TypeOK'
  <2>1. sendSeq[s] \in Nat /\ sendSeq[s] + n \in Nat /\ sendSeq[s] < sendSeq[s] + n
    BY <1>e, ConstantsAssumption
  <2>2. sendSeq' \in [Side -> Nat]
    BY <1>22, <1>e, <2>1 DEF Write
  <2>3. unacked' \in [Side -> SUBSET Nat]
    BY <1>22, <1>f, <2>1 DEF Write
  <2>4. CASE ws[s] # NoConn
    <3>1. Job("write", ws[s], "snap", 0, sendSeq[s], {sendSeq[s] + n}) \in JobType
      BY <1>a, <2>1, <2>4, JobTypes DEF Holder, Phase
    <3>2. writeMu' \in [Side -> JobType] /\ waiting' = waiting
      BY <1>22, <1>c, <2>4, <3>1, SetJobType DEF Write
    <3> QED
      BY <1>22, <2>2, <2>3, <3>2 DEF TypeOK, Write, supVars, endVars
  <2>5. CASE ws[s] = NoConn
    <3>1. writeMu' = writeMu /\ waiting' \subseteq Side
      BY <1>22, <1>h, <2>5 DEF Write
    <3> QED
      BY <1>22, <2>2, <2>3, <3>1 DEF TypeOK, Write, supVars, endVars
  <2> QED
    BY <2>4, <2>5
<1>23. ASSUME NEW c \in Conn, Cut(c) PROVE TypeOK'
  <2>1. dead' \in [Conn -> SUBSET (Side \cup {"net"})]
    BY <1>23, <1>a DEF Cut
  <2> QED
    BY <1>23, <2>1 DEF TypeOK, Cut, connVars, goVars, supVars, endVars
<1>24. CASE UNCHANGED vars
  BY <1>24 DEF TypeOK, vars, connVars, goVars, supVars, endVars
<1> QED
  BY <1>1, <1>2, <1>3, <1>4, <1>5, <1>6, <1>7, <1>8, <1>9, <1>10, <1>11, <1>12,
     <1>13, <1>14, <1>15, <1>16, <1>17, <1>18, <1>19, <1>20, <1>21, <1>22, <1>23,
     <1>24
  DEF Next, SideStep, ConnStep, Supervision, Environment

(* Every reachable state is well typed. *)
THEOREM TypeCorrect == Spec => []TypeOK
BY TypeInit, TypeNext, PTL DEF Spec

-----------------------------------------------------------------------------
(* No drop is overlooked.                                                  *)

LEMMA WakeupInit == Init => NoLostWakeup
BY Conns DEF Init, NoLostWakeup

(* Giving up a WebSocket leaves a token behind. *)
LEMMA DropWakes ==
    ASSUME TypeOK, NoLostWakeup, NEW s \in Side, NEW c,
           Drop(s, c), UNCHANGED <<life, sup>>
    PROVE  NoLostWakeup'
<1>1. ws \in [Side -> Conn \cup {NoConn}]
  BY DEF TypeOK
<1> QED
  BY <1>1 DEF Drop, NoLostWakeup

(* Closing the conn of side s ends the duty to recover it. *)
LEMMA CloseEndsRecovery ==
    ASSUME TypeOK, NoLostWakeup, NEW s \in Side, NEW why,
           CloseWith(s, why), UNCHANGED <<ws, lost>>,
           \A t \in Side : t # s => sup'[t] = sup[t]
    PROVE  NoLostWakeup'
<1>1. life \in [Side -> {"open", "canceled", "closed"}]
  BY DEF TypeOK
<1> QED
  BY <1>1 DEF CloseWith, NoLostWakeup

(* A failed dial leaves the supervisor redialling or closes the conn. *)
LEMMA DialFailedRecovers ==
    ASSUME TypeOK, NoLostWakeup, DialFailed, UNCHANGED <<ws, lost>>
    PROVE  NoLostWakeup'
<1>1. sup \in [Side -> {"idle", "recover", "attach"}]
  BY DEF TypeOK
<1>2. \A t \in Side : t # "client" => sup'[t] = sup[t]
  BY <1>1, Sides DEF DialFailed
<1>3. CASE CloseWith("client", "budget")
  BY <1>2, <1>3, CloseEndsRecovery, Sides
<1>4. CASE /\ UNCHANGED endVars
           /\ sup'["client"] = "recover" \/ life["client"] # "open"
  BY <1>2, <1>4 DEF NoLostWakeup, endVars
<1> QED
  BY <1>1, <1>3, <1>4, Sides DEF DialFailed

LEMMA WakeupNext == TypeOK /\ NoLostWakeup /\ [Next]_vars => NoLostWakeup'
<1> SUFFICES ASSUME TypeOK, NoLostWakeup, [Next]_vars PROVE NoLostWakeup'
  OBVIOUS
<1>a. /\ ws \in [Side -> Conn \cup {NoConn}]
      /\ life \in [Side -> {"open", "canceled", "closed"}]
      /\ sup \in [Side -> {"idle", "recover", "attach"}]
      /\ \A s \in Side : writeMu[s] \in JobType
  BY DEF TypeOK
<1>1. ASSUME NEW s \in Side, CloseFinish(s) PROVE NoLostWakeup'
  BY <1>1, <1>a DEF NoLostWakeup, CloseFinish, supVars
<1>2. ASSUME NEW s \in Side, NEW c, Drop(s, c), UNCHANGED <<life, sup>>
      PROVE  NoLostWakeup'
  BY <1>2, DropWakes
<1>3. CASE UNCHANGED <<ws, life, lost, sup>>
  BY <1>3 DEF NoLostWakeup
<1>4. ASSUME NEW s \in Side, ReadFrame(s) PROVE NoLostWakeup'
  <2>1. CASE CloseWith(s, "protocol")
    BY <1>4, <2>1, CloseEndsRecovery DEF ReadFrame, supVars
  <2>2. CASE UNCHANGED endVars
    BY <1>3, <1>4, <2>2 DEF ReadFrame, supVars, endVars
  <2> QED
    BY <1>4, <2>1, <2>2 DEF ReadFrame, Accept
<1>5. ASSUME NEW s \in Side, AttachFails(s) PROVE NoLostWakeup'
  <2>1. CASE DialFailed
    BY <1>5, <2>1, DialFailedRecovers DEF AttachFails
  <2>2. CASE UNCHANGED <<sup, attempt, endVars>>
    BY <1>3, <1>5, <2>2 DEF AttachFails, endVars
  <2> QED
    BY <1>5, <2>1, <2>2 DEF AttachFails
<1>6. ASSUME NEW s \in Side, AttachReply(s) PROVE NoLostWakeup'
  <2>1. writeMu[s].conn \in Conn
    BY <1>6, <1>a, JobFields DEF AttachReply
  <2>2. ASSUME NEW peer, GoLive(s, writeMu[s].conn, peer) PROVE NoLostWakeup'
    <3>1. ws'[s] # NoConn /\ \A t \in Side : t # s => ws'[t] = ws[t] /\ sup'[t] = sup[t]
      BY <1>a, <2>1, <2>2, Conns DEF GoLive
    <3> QED
      BY <1>6, <2>2, <3>1 DEF NoLostWakeup, AttachReply, GoLive, endVars
  <2>3. CASE GiveUp(s, writeMu[s].conn) /\ CloseWith(s, "protocol")
    BY <1>6, <2>3, CloseEndsRecovery DEF GiveUp, AttachReply
  <2>4. CASE GiveUp(s, writeMu[s].conn) /\ UNCHANGED endVars
    BY <1>3, <1>6, <2>4 DEF GiveUp, AttachReply, endVars
  <2> QED
    BY <1>6, <2>2, <2>3, <2>4 DEF AttachReply
<1>7. ASSUME NEW s \in Side, TakeLost(s) PROVE NoLostWakeup'
  <2>1. CASE ws[s] = NoConn
    BY <1>7, <1>a, <2>1 DEF NoLostWakeup, TakeLost, endVars
  <2>2. CASE ws[s] # NoConn
    BY <1>7, <1>a, <2>2 DEF NoLostWakeup, TakeLost, endVars
  <2> QED
    BY <2>1, <2>2
<1>8. CASE DialOk
  BY <1>8, <1>a DEF NoLostWakeup, DialOk, endVars
<1>9. CASE DialFails
  BY <1>9, DialFailedRecovers DEF DialFails
<1>10. CASE DialGone
  BY <1>10, <1>a, CloseEndsRecovery, Sides DEF DialGone
<1>11. CASE GraceExpires
  BY <1>11, <1>a, CloseEndsRecovery, Sides DEF GraceExpires
<1>12. CASE ResumeSeen
  BY <1>12, <1>a DEF NoLostWakeup, ResumeSeen, endVars
<1>13. ASSUME NEW s \in Side, Cancel(s) PROVE NoLostWakeup'
  BY <1>13, <1>a DEF NoLostWakeup, Cancel, supVars
<1>14. ASSUME NEW s \in Side,
              SendFails(s) \/ ReadFails(s) \/ PingFails(s)
                 \/ \E c \in Conn : AttachDetach(s, c) \/ AttachLock(s, c)
       PROVE  NoLostWakeup'
  <2>1. \E c : Drop(s, c)
    BY <1>14 DEF SendFails, ReadFails, PingFails, AttachDetach, AttachLock
  <2>2. UNCHANGED <<life, sup>>
    BY <1>14 DEF SendFails, ReadFails, PingFails, AttachDetach, AttachLock,
                 endVars, supVars
  <2> QED
    BY <1>2, <2>1, <2>2
<1>15. ASSUME NEW s \in Side,
              \/ WriteReturn(s) \/ SnapAck(s) \/ SendFrame(s)
              \/ ReadCurrent(s) \/ BeatBehind(s)
              \/ \E c \in Conn : BeatFlush(s, c)
              \/ \E n \in Chunk : Write(s, n)
       PROVE  NoLostWakeup'
  BY <1>3, <1>15 DEF WriteReturn, SnapAck, SendFrame, ReadCurrent, BeatBehind,
                     BeatFlush, Write, endVars, supVars
<1>16. ASSUME NEW c \in Conn, Cut(c) PROVE NoLostWakeup'
  BY <1>3, <1>16 DEF Cut, endVars, supVars
<1>17. CASE UNCHANGED vars
  BY <1>3, <1>17 DEF vars, endVars, supVars
<1> QED
  BY <1>1, <1>4, <1>5, <1>6, <1>7, <1>8, <1>9, <1>10, <1>11, <1>12, <1>13, <1>14,
     <1>15, <1>16, <1>17
  DEF Next, SideStep, ConnStep, Supervision, Environment

(***************************************************************************)
(* An open conn without WebSocket is being recovered or will be: for every *)
(* number of WebSockets, whoever noticed the drop first.                   *)
(***************************************************************************)
THEOREM DropsAreNoticed == Spec => []NoLostWakeup
<1>1. Init => TypeOK /\ NoLostWakeup
  BY TypeInit, WakeupInit
<1>2. (TypeOK /\ NoLostWakeup) /\ [Next]_vars => (TypeOK /\ NoLostWakeup)'
  BY TypeNext, WakeupNext
<1> QED
  BY <1>1, <1>2, PTL DEF Spec
=============================================================================
