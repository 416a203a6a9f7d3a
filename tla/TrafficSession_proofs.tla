------------------------ MODULE TrafficSession_proofs ------------------------
(***************************************************************************)
(* Theorems about TrafficSession, for every number of sessions, streams,   *)
(* drops, server starts and retries: no handler outlives its session, the  *)
(* client has one transport, and it counts its retries right.              *)
(***************************************************************************)
EXTENDS TrafficSession, FiniteSetTheorems, TLAPS

(***************************************************************************)
(* The inductive invariant.  A ResumableConn of the client that is not     *)
(* closed belongs to the session being served; only such a session has a   *)
(* WebSocket.                                                              *)
(***************************************************************************)
Transports ==
    /\ OneTransport
    /\ \A i \in Session :
           conn["client"][i] \in {"up", "down"} => client = "serve" /\ current = i

(* HandlersCovered for each stream, and what keeps a session registered. *)
Covered ==
    /\ \A k \in Stream : stream[k].at \in Handled =>
           /\ stream[k].from = "server" =>
                  client \in {"serve", "drain"} /\ current = stream[k].session
           /\ stream[k].from = "client" => stream[k].session \in registry["server"]
    /\ \A i \in Session : serving[i] \in {"serve", "drain"} => i \in registry["server"]

(***************************************************************************)
(* attempt is ahead of the dials that failed by one while a retry runs,    *)
(* and a wait is only begun when a retry is left.                          *)
(***************************************************************************)
Retries ==
    /\ client = "wait" => establishable /\ attempt < maxRetries
    /\ client = "dial" /\ establishable => attempt = tries + 1
    /\ client \in {"serve", "drain", "wait"} => tries = attempt

(* A stream that was opened has a side and a session. *)
Opened ==
    \A k \in Stream : stream[k].at # "none" =>
        stream[k].from \in Side /\ stream[k].session \in Session

SessionInv == TypeOK /\ Transports /\ Covered /\ Retries /\ Opened

At == {"none", "sent", "queued", "over"} \cup Handled
StreamType == [from : Side \cup {"none"}, session : Session \cup {NoSession}, at : At]
ConnType == {"none", "up", "down", "closed"}

-----------------------------------------------------------------------------
LEMMA Sides ==
    /\ "client" \in Side /\ "server" \in Side
    /\ \A s \in Side : s = "client" \/ s = "server"
    /\ \A s \in Side : Peer(s) \in Side
    /\ Peer("client") = "server" /\ Peer("server") = "client"
BY DEF Peer, Side

LEMMA Numbers ==
    /\ MaxMade \in Nat \ {0} /\ maxRetries \in Nat
    /\ Session \subseteq Nat /\ NoSession \in Nat /\ NoSession \notin Session
    /\ \A i \in Nat : i < MaxMade => i + 1 \in Session
BY SessionAssumption DEF Session, NoSession

(* There is room for a session only when its number is one of Session. *)
LEMMA RoomForSession ==
    ASSUME current \in Session \cup {NoSession}, Room
    PROVE  current + 1 \in Session
<1> DEFINE opened == {k \in Stream : stream[k].at # "none"}
<1>1. IsFiniteSet(Stream)
  BY FS_Interval, SessionAssumption DEF Stream
<1>2. IsFiniteSet(opened)
  BY <1>1, FS_Subset
<1>3. Cardinality(opened) \in Nat
  BY <1>2, FS_CardinalityType
<1>4. current + Cardinality(opened) < MaxMade
  BY DEF Room
<1> HIDE DEF opened
<1>5. current \in Nat
  BY Numbers
<1>6. current < MaxMade
  BY <1>3, <1>4, <1>5, Numbers
<1> QED
  BY <1>5, <1>6, Numbers

LEMMA StreamFields ==
    ASSUME NEW r \in StreamType
    PROVE  /\ r.from \in Side \cup {"none"} /\ r.session \in Session \cup {NoSession}
           /\ r.at \in At
           /\ \A at \in At :
                  /\ [r EXCEPT !.at = at] \in StreamType
                  /\ [r EXCEPT !.at = at].from = r.from
                  /\ [r EXCEPT !.at = at].session = r.session
                  /\ [r EXCEPT !.at = at].at = at
BY DEF StreamType

(* What HandlersCovered says of sets of handlers, Covered says of streams. *)
LEMMA CoveredHandlers == TypeOK /\ Covered => HandlersCovered
<1> SUFFICES ASSUME TypeOK, Covered, NEW i \in Session
             PROVE  /\ Handlers("client", i) # {} =>
                           client \in {"serve", "drain"} /\ current = i
                    /\ Handlers("server", i) # {} => i \in registry["server"]
  BY DEF HandlersCovered
<1> QED
  BY Sides DEF Covered, Handlers

LEMMA SessionInit == Init => SessionInv
<1> SUFFICES ASSUME Init PROVE SessionInv
  OBVIOUS
<1>1. NoStream \in StreamType /\ NoStream.at = "none"
  BY DEF NoStream, StreamType, At, Handled
<1>2. TypeOK
  <2>1. conn \in [Side -> [Session -> ConnType]] /\ registry \in [Side -> SUBSET Session]
    BY DEF Init, ConnType
  <2>2. stream \in [Stream -> StreamType]
    BY <1>1 DEF Init
  <2>3. attempt \in 0 .. maxRetries /\ drops \in 0 .. MaxDrops /\ starts \in 0 .. MaxStarts
    BY SessionAssumption DEF Init
  <2> QED
    BY <2>1, <2>2, <2>3 DEF Init, TypeOK, StreamType, At, Handled, ConnType
<1>3. Transports /\ Retries
  BY Sides DEF Init, Transports, OneTransport, Retries
<1>4. Covered /\ Opened
  BY <1>1 DEF Init, Covered, Opened, Handled
<1> QED
  BY <1>2, <1>3, <1>4 DEF SessionInv

-----------------------------------------------------------------------------
(* The steps that several actions share.                                   *)

LEMMA SetConn ==
    ASSUME conn \in [Side -> [Session -> ConnType]],
           NEW s \in Side, NEW i \in Session, NEW v \in ConnType,
           conn' = [conn EXCEPT ![s][i] = v]
    PROVE  /\ conn' \in [Side -> [Session -> ConnType]]
           /\ \A t \in Side, j \in Session :
                  conn'[t][j] = IF t = s /\ j = i THEN v ELSE conn[t][j]
OBVIOUS

(* A stream moves on; it may get a handler only where one is covered. *)
LEMMA MoveKeeps ==
    ASSUME SessionInv, NEW k \in Stream, NEW at \in At, Move(k, at), stream[k].at # "none",
           at \in Handled =>
               /\ stream[k].from = "server" =>
                      client \in {"serve", "drain"} /\ current = stream[k].session
               /\ stream[k].from = "client" => stream[k].session \in registry["server"],
           UNCHANGED <<connVars, clientVars, serverVars, stopped, registry>>
    PROVE  SessionInv'
<1>1. stream \in [Stream -> StreamType]
  BY DEF SessionInv, TypeOK, StreamType, At, Handled
<1>2. /\ stream' = [stream EXCEPT ![k] = [stream[k] EXCEPT !.at = at]]
      /\ stream[k] \in StreamType
  BY <1>1 DEF Move
<1>3. stream' \in [Stream -> StreamType]
  BY <1>1, <1>2, StreamFields
<1>4. \A j \in Stream : /\ stream'[j].from = stream[j].from
                        /\ stream'[j].session = stream[j].session
                        /\ stream'[j].at = IF j = k THEN at ELSE stream[j].at
  BY <1>1, <1>2, StreamFields
<1>5. TypeOK'
  BY <1>3 DEF SessionInv, TypeOK, StreamType, At, Handled, connVars, clientVars, serverVars
<1>6. Covered' /\ Opened'
  BY <1>4 DEF SessionInv, Covered, Opened, connVars, clientVars, serverVars
<1> QED
  BY <1>5, <1>6 DEF SessionInv, Transports, OneTransport, Retries, connVars, clientVars,
                    serverVars

(* A side closes the conn of a session, and nothing else happens. *)
LEMMA CloseKeeps ==
    ASSUME SessionInv, NEW s \in Side, NEW i \in Session, Close(s, i),
           UNCHANGED <<drops, clientVars, serverVars, stopped, registry, stream>>
    PROVE  SessionInv'
<1>1. /\ conn' \in [Side -> [Session -> ConnType]]
      /\ \A t \in Side, j \in Session :
             conn'[t][j] = IF t = s /\ j = i THEN "closed" ELSE conn[t][j]
  BY SetConn DEF SessionInv, TypeOK, Close, ConnType
<1>2. link' \subseteq link
  BY DEF Close
<1>3. TypeOK'
  BY <1>1, <1>2 DEF SessionInv, TypeOK, ConnType, clientVars, serverVars
<1>4. Transports'
  BY <1>1, <1>2, Sides DEF SessionInv, Transports, OneTransport, clientVars
<1>5. Covered' /\ Retries' /\ Opened'
  BY DEF SessionInv, Covered, Retries, Opened, clientVars, serverVars
<1> QED
  BY <1>3, <1>4, <1>5 DEF SessionInv

(* Only the transports change: a session gets or keeps its WebSocket. *)
LEMMA LinkKeeps ==
    ASSUME SessionInv, NEW drops0 \in 0 .. MaxDrops, drops' = drops0,
           conn' \in [Side -> [Session -> ConnType]], link' \subseteq Session,
           \A j \in link' : j \in link \/ conn["client"][j] \in {"up", "down"},
           \A j \in Session : conn'["client"][j] \in {"up", "down"} =>
               conn["client"][j] \in {"up", "down"},
           UNCHANGED <<clientVars, serverVars, stopped, registry, stream>>
    PROVE  SessionInv'
<1>1. TypeOK'
  BY DEF SessionInv, TypeOK, ConnType, clientVars, serverVars
<1>2. Transports'
  BY DEF SessionInv, Transports, OneTransport, clientVars
<1>3. Covered' /\ Retries' /\ Opened'
  BY DEF SessionInv, Covered, Retries, Opened, clientVars, serverVars
<1> QED
  BY <1>1, <1>2, <1>3 DEF SessionInv

LEMMA TransportKeeps ==
    ASSUME SessionInv, NEW i \in Session,
           \/ Drop(i) \/ Resume(i) \/ ResumeGone(i) \/ Transport(i)
    PROVE  SessionInv'
<1>1. CASE Drop(i)
  BY <1>1, LinkKeeps, SessionAssumption DEF Drop, SessionInv, TypeOK, ConnType
<1>2. CASE Resume(i)
  <2>1. conn' \in [Side -> [Session -> ConnType]]
    BY <1>2 DEF Resume, SessionInv, TypeOK, ConnType
  <2>2. \A j \in Session : conn'["client"][j] \in {"up", "down"} =>
            conn["client"][j] \in {"up", "down"}
    BY <1>2, Sides DEF Resume, SessionInv, TypeOK
  <2> QED
    BY <1>2, <2>1, <2>2, LinkKeeps DEF Resume, SessionInv, TypeOK
<1>3. CASE ResumeGone(i)
  BY <1>3, CloseKeeps, Sides DEF ResumeGone
<1>4. ASSUME NEW s \in Side, Notice(s, i) PROVE SessionInv'
  <2>1. /\ conn' \in [Side -> [Session -> ConnType]]
        /\ \A t \in Side, j \in Session :
               conn'[t][j] = IF t = s /\ j = i THEN "down" ELSE conn[t][j]
    BY <1>4, SetConn DEF Notice, SessionInv, TypeOK, ConnType
  <2> QED
    BY <1>4, <2>1, LinkKeeps, Sides DEF Notice, SessionInv, TypeOK
<1>5. ASSUME NEW s \in Side, GiveUp(s, i) \/ CtxCloses(s, i) PROVE SessionInv'
  BY <1>5, CloseKeeps DEF GiveUp, CtxCloses
<1> QED
  BY <1>1, <1>2, <1>3, <1>4, <1>5 DEF Transport

-----------------------------------------------------------------------------
(* Every step keeps the invariant.                                         *)

(* Only the loop of the client moves, to a place that is not "serve". *)
LEMMA LoopKeeps ==
    ASSUME SessionInv, Returned, tries' \in Nat,
           \/ client = "dial" /\ tries' = tries + 1
           \/ /\ client = "drain" /\ tries' = tries
              /\ \A k \in Stream : stream[k].at \in Handled
                     => stream[k].from # "server" \/ stream[k].session # current,
           current' \in Session \cup {NoSession},
           serving' \in [Session -> {"none", "upgraded", "starting", "serve", "drain", "over"}],
           \A i \in Session : serving'[i] \in {"serve", "drain"} => serving'[i] = serving[i],
           UNCHANGED <<connVars, attempt, establishable, server, starts, stopped,
                       registry, stream>>
    PROVE  SessionInv'
<1>1. client' \in {"ended", "failed", "wait"}
      /\ (client' = "wait" => establishable /\ attempt < maxRetries)
  <2>1. attempt \in Nat /\ maxRetries \in Nat
    BY SessionAssumption DEF SessionInv, TypeOK
  <2> QED
    BY <2>1 DEF Returned
<1>2. TypeOK'
  BY <1>1 DEF SessionInv, TypeOK, connVars
<1>3. Transports'
  BY <1>1 DEF SessionInv, Transports, OneTransport, connVars
<1>4. Covered' /\ Opened'
  BY <1>1 DEF SessionInv, Covered, Opened
<1>5. Retries'
  BY <1>1 DEF SessionInv, TypeOK, Retries
<1> QED
  BY <1>2, <1>3, <1>4, <1>5 DEF SessionInv

LEMMA ClientKeeps == SessionInv /\ ClientStep => SessionInv'
<1> SUFFICES ASSUME SessionInv, ClientStep PROVE SessionInv'
  OBVIOUS
<1>1. CASE DialNew
  <2>1. current + 1 \in Session
    BY <1>1, RoomForSession DEF DialNew, SessionInv, TypeOK
  <2>2. /\ conn' \in [Side -> [Session -> ConnType]]
        /\ \A t \in Side, j \in Session :
               conn'[t][j] = IF t = "client" /\ j = current + 1 THEN "up" ELSE conn[t][j]
    BY <1>1, <2>1, SetConn, Sides DEF DialNew, SessionInv, TypeOK, ConnType
  <2>3. serving' = [serving EXCEPT ![current + 1] = "upgraded"]
    BY <1>1 DEF DialNew
  <2>4. /\ registry' \in [Side -> SUBSET Session]
        /\ registry'["server"] = registry["server"]
    BY <1>1, <2>1, Sides DEF DialNew, Register, SessionInv, TypeOK
  <2>5. TypeOK'
    <3>1. serving' \in [Session -> {"none", "upgraded", "starting", "serve", "drain", "over"}]
      BY <2>3 DEF SessionInv, TypeOK
    <3>2. link' \subseteq Session /\ attempt' \in 0 .. maxRetries
      BY <1>1, <2>1, SessionAssumption DEF DialNew, SessionInv, TypeOK
    <3> QED
      BY <1>1, <2>1, <2>2, <2>4, <3>1, <3>2 DEF DialNew, SessionInv, TypeOK, ConnType
  <2>6. Transports'
    <3>1. link = {} /\ link' = {current + 1} /\ client' = "serve" /\ current' = current + 1
      BY <1>1 DEF DialNew, SessionInv, TypeOK, Transports, OneTransport
    <3>2. \A j \in Session : conn["client"][j] \notin {"up", "down"}
      BY <1>1 DEF DialNew, SessionInv, Transports
    <3> QED
      BY <2>2, <3>1, <3>2, Sides DEF Transports, OneTransport
  <2>7. Covered' /\ Opened'
    BY <1>1, <2>1, <2>3, <2>4 DEF DialNew, SessionInv, TypeOK, Covered, Opened
  <2>8. Retries'
    BY <1>1 DEF DialNew, Retries
  <2> QED
    BY <2>5, <2>6, <2>7, <2>8 DEF SessionInv
<1>2. CASE DialFails
  BY <1>2, LoopKeeps DEF DialFails, SessionInv, TypeOK, serverVars
<1>3. CASE DialLost
  <2>1. current + 1 \in Session
    BY <1>3, RoomForSession DEF DialLost, SessionInv, TypeOK
  <2>2. /\ serving' \in [Session -> {"none", "upgraded", "starting", "serve", "drain", "over"}]
        /\ \A i \in Session : serving'[i] \in {"serve", "drain"} => serving'[i] = serving[i]
    BY <1>3, <2>1 DEF DialLost, SessionInv, TypeOK
  <2> QED
    BY <1>3, <2>1, <2>2, LoopKeeps DEF DialLost, SessionInv, TypeOK
<1>4. CASE ClientLoopEnds
  <2>1. conn' = [conn EXCEPT !["client"][current] = "closed"] /\ link' = link \ {current}
    BY <1>4 DEF ClientLoopEnds, Close
  <2>2. link' = {}
    BY <2>1 DEF SessionInv, Transports, OneTransport
  <2>3. /\ conn' \in [Side -> [Session -> ConnType]]
        /\ \A j \in Session : conn'["client"][j] =
               IF j = current THEN "closed" ELSE conn["client"][j]
    BY <2>1, Sides DEF SessionInv, TypeOK, ConnType
  <2>4. /\ registry' \in [Side -> SUBSET Session]
        /\ registry'["server"] = registry["server"]
    BY <1>4, Sides DEF ClientLoopEnds, RemoveSession, SessionInv, TypeOK
  <2>5. TypeOK'
    BY <1>4, <2>2, <2>3, <2>4 DEF ClientLoopEnds, SessionInv, TypeOK, ConnType, serverVars
  <2>6. Transports'
    BY <1>4, <2>2, <2>3 DEF ClientLoopEnds, SessionInv, Transports, OneTransport
  <2>7. Covered' /\ Retries' /\ Opened'
    BY <1>4, <2>4 DEF ClientLoopEnds, SessionInv, Covered, Retries, Opened, serverVars
  <2> QED
    BY <2>5, <2>6, <2>7 DEF SessionInv
<1>5. CASE ClientDrainEnds
  <2>1. \A k \in Stream : stream[k].at \in Handled
            => stream[k].from # "server" \/ stream[k].session # current
    BY <1>5, Sides DEF ClientDrainEnds, Handlers
  <2> QED
    BY <1>5, <2>1, LoopKeeps DEF ClientDrainEnds, SessionInv, TypeOK, serverVars
<1>6. CASE WaitEnds
  <2>1. attempt' \in 0 .. maxRetries
    BY <1>6, SessionAssumption DEF WaitEnds, SessionInv, TypeOK, Retries
  <2>2. TypeOK'
    BY <1>6, <2>1 DEF WaitEnds, SessionInv, TypeOK, connVars, serverVars
  <2>3. Transports' /\ Covered' /\ Opened'
    BY <1>6 DEF WaitEnds, SessionInv, Transports, OneTransport, Covered, Opened, connVars,
                serverVars
  <2>4. Retries'
    BY <1>6 DEF WaitEnds, SessionInv, TypeOK, Retries
  <2> QED
    BY <2>2, <2>3, <2>4 DEF SessionInv
<1> QED
  BY <1>1, <1>2, <1>3, <1>4, <1>5, <1>6 DEF ClientStep

LEMMA ServerKeeps ==
    ASSUME SessionInv, NEW i \in Session, ServerStep(i)
    PROVE  SessionInv'
<1> DEFINE Places == {"none", "upgraded", "starting", "serve", "drain", "over"}
<1>1. /\ serving \in [Session -> Places] /\ registry \in [Side -> SUBSET Session]
      /\ conn \in [Side -> [Session -> ConnType]]
  BY DEF SessionInv, TypeOK, ConnType
<1>2. CASE ServeSession(i)
  <2>1. /\ conn' \in [Side -> [Session -> ConnType]]
        /\ \A j \in Session : conn'["client"][j] = conn["client"][j]
    BY <1>1, <1>2, SetConn, Sides DEF ServeSession, ConnType
  <2>2. /\ serving' \in [Session -> Places]
        /\ \A j \in Session : serving'[j] = IF j = i THEN "starting" ELSE serving[j]
    BY <1>1, <1>2 DEF ServeSession
  <2>3. TypeOK'
    BY <1>2, <2>1, <2>2 DEF ServeSession, SessionInv, TypeOK, ConnType, clientVars
  <2>4. Transports' /\ Covered' /\ Retries' /\ Opened'
    BY <1>2, <2>1, <2>2 DEF ServeSession, SessionInv, Transports, OneTransport, Covered,
                            Retries, Opened, clientVars
  <2> QED
    BY <2>3, <2>4 DEF SessionInv
<1>3. CASE ServerRegisters(i)
  <2>1. /\ registry' \in [Side -> SUBSET Session]
        /\ registry'["server"] = registry["server"] \cup {i}
    BY <1>1, <1>3, Sides DEF ServerRegisters, Register
  <2>2. /\ serving' \in [Session -> Places]
        /\ \A j \in Session : serving'[j] = IF j = i THEN "serve" ELSE serving[j]
    BY <1>1, <1>3 DEF ServerRegisters
  <2>3. TypeOK'
    BY <1>3, <2>1, <2>2 DEF ServerRegisters, SessionInv, TypeOK, connVars, clientVars
  <2>4. Transports' /\ Covered' /\ Retries' /\ Opened'
    BY <1>3, <2>1, <2>2 DEF ServerRegisters, SessionInv, Transports, OneTransport, Covered,
                            Retries, Opened, connVars, clientVars
  <2> QED
    BY <2>3, <2>4 DEF SessionInv
<1>4. CASE ServerLoopEnds(i)
  <2>1. /\ serving' \in [Session -> Places] /\ serving[i] = "serve"
        /\ \A j \in Session : serving'[j] = IF j = i THEN "drain" ELSE serving[j]
    BY <1>1, <1>4 DEF ServerLoopEnds
  <2>2. TypeOK'
    BY <1>4, <2>1 DEF ServerLoopEnds, SessionInv, TypeOK, connVars, clientVars
  <2>3. Transports' /\ Covered' /\ Retries' /\ Opened'
    BY <1>4, <2>1 DEF ServerLoopEnds, SessionInv, Transports, OneTransport, Covered,
                      Retries, Opened, connVars, clientVars
  <2> QED
    BY <2>2, <2>3 DEF SessionInv
<1>5. CASE ServerDrainEnds(i)
  <2>1. /\ registry' \in [Side -> SUBSET Session]
        /\ registry'["server"] = registry["server"] \ {i}
    BY <1>1, <1>5, Sides DEF ServerDrainEnds, RemoveSession
  <2>2. /\ serving' \in [Session -> Places]
        /\ \A j \in Session : serving'[j] = IF j = i THEN "over" ELSE serving[j]
    BY <1>1, <1>5 DEF ServerDrainEnds
  <2>3. /\ conn' \in [Side -> [Session -> ConnType]] /\ link' \subseteq link
        /\ \A j \in Session : conn'["client"][j] = conn["client"][j]
    BY <1>1, <1>5, SetConn, Sides DEF ServerDrainEnds, Close, ConnType
  <2>4. \A k \in Stream : stream[k].at \in Handled /\ stream[k].from = "client"
            => stream[k].session # i
    BY <1>5, Sides DEF ServerDrainEnds, Handlers
  <2>5. TypeOK'
    BY <1>5, <2>1, <2>2, <2>3 DEF ServerDrainEnds, SessionInv, TypeOK, ConnType, clientVars
  <2>6. Transports' /\ Retries'
    BY <1>5, <2>3 DEF ServerDrainEnds, SessionInv, Transports, OneTransport, Retries,
                      clientVars
  <2>7. Covered' /\ Opened'
    BY <1>5, <2>1, <2>2, <2>4 DEF ServerDrainEnds, SessionInv, Covered, Opened, clientVars
  <2> QED
    BY <2>5, <2>6, <2>7 DEF SessionInv
<1> QED
  BY <1>2, <1>3, <1>4, <1>5 DEF ServerStep

(* The server process ends, and with it what it had. *)
LEMMA ServerEndKeeps == SessionInv /\ ServerEnds => SessionInv'
<1> SUFFICES ASSUME SessionInv, ServerEnds PROVE SessionInv'
  OBVIOUS
<1>1. /\ conn' \in [Side -> [Session -> ConnType]]
      /\ \A j \in Session : conn'["client"][j] = conn["client"][j]
  BY Sides DEF ServerEnds, SessionInv, TypeOK, ConnType
<1>2. \A i \in Session : serving'[i] \in {"none", "over"}
  BY DEF ServerEnds
<1>3. /\ registry' \in [Side -> SUBSET Session]
      /\ registry'["server"] = {}
  BY Sides DEF ServerEnds, SessionInv, TypeOK
<1>4. stream \in [Stream -> StreamType]
  BY DEF SessionInv, TypeOK, StreamType, At, Handled
<1>5. stream' = [k \in Stream |->
          IF stream[k].from = "client" /\ stream[k].at \in {"queued"} \cup Handled
          THEN [stream[k] EXCEPT !.at = "over"] ELSE stream[k]]
  BY DEF ServerEnds
<1>6. /\ stream' \in [Stream -> StreamType]
      /\ \A k \in Stream :
             /\ stream'[k].at \in Handled =>
                    stream'[k] = stream[k] /\ stream[k].from # "client"
             /\ stream'[k].at # "none" => stream[k].at # "none"
             /\ stream'[k].from = stream[k].from
             /\ stream'[k].session = stream[k].session
  <2>1. \A r \in StreamType :
            /\ [r EXCEPT !.at = "over"] \in StreamType
            /\ [r EXCEPT !.at = "over"].from = r.from
            /\ [r EXCEPT !.at = "over"].session = r.session
            /\ [r EXCEPT !.at = "over"].at = "over"
    BY StreamFields DEF At, Handled
  <2>2. \A k \in Stream : stream[k] \in StreamType
    BY <1>4
  <2>3. stream' \in [Stream -> StreamType]
    BY <1>5, <2>1, <2>2
  <2>4. ASSUME NEW k \in Stream
        PROVE  /\ stream'[k].at \in Handled =>
                      stream'[k] = stream[k] /\ stream[k].from # "client"
               /\ stream'[k].at # "none" => stream[k].at # "none"
               /\ stream'[k].from = stream[k].from
               /\ stream'[k].session = stream[k].session
    <3>1. CASE stream[k].from = "client" /\ stream[k].at \in {"queued"} \cup Handled
      <4>1. stream'[k] = [stream[k] EXCEPT !.at = "over"]
        BY <1>5, <3>1
      <4> QED
        BY <2>1, <2>2, <3>1, <4>1 DEF Handled
    <3>2. CASE ~(stream[k].from = "client" /\ stream[k].at \in {"queued"} \cup Handled)
      <4>1. stream'[k] = stream[k]
        BY <1>5, <3>2
      <4> QED
        BY <3>2, <4>1
    <3> QED
      BY <3>1, <3>2
  <2> QED
    BY <2>3, <2>4
<1>7. TypeOK'
  <2>1. serving' \in [Session -> {"none", "upgraded", "starting", "serve", "drain", "over"}]
    BY DEF ServerEnds
  <2> QED
    BY <1>1, <1>3, <1>6, <2>1
       DEF ServerEnds, SessionInv, TypeOK, ConnType, StreamType, At, Handled, clientVars
<1>8. Transports' /\ Retries'
  BY <1>1 DEF ServerEnds, SessionInv, Transports, OneTransport, Retries, clientVars
<1>9. Covered' /\ Opened'
  BY <1>2, <1>6 DEF ServerEnds, SessionInv, Covered, Opened, clientVars
<1> QED
  BY <1>7, <1>8, <1>9 DEF SessionInv

LEMMA StreamKeeps ==
    ASSUME SessionInv, NEW k \in Stream,
           \/ StreamStep(k) \/ HeaderRead(k) \/ HandlerEnds(k)
           \/ TargetAnswers(k) \/ TargetStalls(k) \/ TargetGoesOn(k)
           \/ \E s \in Side : OpenStream(s, k)
    PROVE  SessionInv'
<1>1. stream[k] \in StreamType
  BY DEF SessionInv, TypeOK, StreamType, At, Handled
<1>2. CASE Arrive(k)
  BY <1>2, MoveKeeps DEF Arrive, At, Handled
<1>3. CASE Accept(k)
  <2>1. /\ stream[k].at = "queued"
        /\ Accepting(Peer(stream[k].from), stream[k].session)
        /\ conn[Peer(stream[k].from)][stream[k].session] = "up"
        /\ Move(k, "header")
        /\ UNCHANGED <<connVars, clientVars, serverVars, stopped, registry>>
    BY <1>3 DEF Accept
  <2>2. ASSUME stream[k].from = "server"
        PROVE  client = "serve" /\ current = stream[k].session
    BY <2>1, <2>2, Sides DEF Accepting
  <2>3. ASSUME stream[k].from = "client"
        PROVE  stream[k].session \in registry["server"]
    <3>1. Peer(stream[k].from) = "server" /\ "server" # "client"
      BY <2>3, Sides
    <3>2. serving[stream[k].session] = "serve"
      BY <2>1, <3>1 DEF Accepting
    <3>3. stream[k].session \in Session
      BY <2>1 DEF SessionInv, Opened
    <3> QED
      BY <3>2, <3>3 DEF SessionInv, Covered
  <2> QED
    BY <2>1, <2>2, <2>3, MoveKeeps DEF At, Handled
<1>4. CASE HandlerMustEnd(k)
  BY <1>4, MoveKeeps DEF HandlerMustEnd, At, Handled
<1>5. CASE StreamDies(k)
  BY <1>5, MoveKeeps DEF StreamDies, At, Handled
<1>6. CASE OpenTimeout(k)
  <2> DEFINE s == stream[k].from
             i == stream[k].session
  <2>1. /\ stream[k].at \in {"sent", "queued"}
        /\ conn[s][i] \in {"up", "down"} /\ Close(s, i)
        /\ UNCHANGED <<drops, clientVars, serverVars, stopped, registry, stream>>
    BY <1>6 DEF OpenTimeout
  <2>2. s \in Side /\ i \in Session
    BY <2>1 DEF SessionInv, Opened
  <2> HIDE DEF s, i
  <2> QED
    BY <2>1, <2>2, CloseKeeps
<1>7. CASE HeaderRead(k) \/ TargetAnswers(k) \/ TargetStalls(k) \/ TargetGoesOn(k)
  <2>1. PICK at \in Handled : Move(k, at)
    BY <1>7 DEF HeaderRead, TargetAnswers, TargetStalls, TargetGoesOn, Handled
  <2>2. /\ stream[k].at \in Handled
        /\ UNCHANGED <<connVars, clientVars, serverVars, stopped, registry>>
    BY <1>7 DEF HeaderRead, TargetAnswers, TargetStalls, TargetGoesOn, Handled
  <2>3. stream[k].at # "none" /\ at \in At
    BY <2>2 DEF At, Handled
  <2> QED
    BY <2>1, <2>2, <2>3, MoveKeeps DEF SessionInv, Covered
<1>8. CASE HandlerEnds(k)
  BY <1>8, MoveKeeps DEF HandlerEnds, At, Handled
<1>9. ASSUME NEW s \in Side, OpenStream(s, k) PROVE SessionInv'
  <2>1. PICK i \in registry[s] :
            stream' = [stream EXCEPT ![k] = [from |-> s, session |-> i, at |-> "sent"]]
    BY <1>9 DEF OpenStream
  <2>2. [from |-> s, session |-> i, at |-> "sent"] \in StreamType
    BY <2>1 DEF SessionInv, TypeOK, StreamType, At, Handled
  <2>3. stream' \in [Stream -> StreamType]
    BY <2>1, <2>2 DEF SessionInv, TypeOK, StreamType, At, Handled
  <2>4. /\ i \in Session
        /\ \A j \in Stream :
               \/ stream'[j] = stream[j]
               \/ stream'[j] = [from |-> s, session |-> i, at |-> "sent"]
    BY <2>1 DEF SessionInv, TypeOK
  <2>5. TypeOK'
    BY <1>9, <2>3 DEF OpenStream, SessionInv, TypeOK, StreamType, At, Handled, connVars,
                      clientVars, serverVars
  <2>6. Transports' /\ Retries'
    BY <1>9 DEF OpenStream, SessionInv, Transports, OneTransport, Retries, connVars,
                clientVars
  <2>7. Covered' /\ Opened'
    BY <1>9, <2>4 DEF OpenStream, SessionInv, Covered, Opened, Handled, clientVars, serverVars
  <2> QED
    BY <2>5, <2>6, <2>7 DEF SessionInv
<1> QED
  BY <1>2, <1>3, <1>4, <1>5, <1>6, <1>7, <1>8, <1>9 DEF StreamStep

LEMMA SessionNext == SessionInv /\ [Next]_vars => SessionInv'
<1> SUFFICES ASSUME SessionInv, [Next]_vars PROVE SessionInv'
  OBVIOUS
<1>1. ASSUME ServerReturns \/ ServerCrashes PROVE SessionInv'
  BY <1>1, ServerEndKeeps DEF ServerReturns, ServerCrashes
<1>2. ASSUME ServerStarts PROVE SessionInv'
  <2>1. TypeOK'
    BY <1>2, SessionAssumption DEF ServerStarts, SessionInv, TypeOK, connVars, clientVars
  <2> QED
    BY <1>2, <2>1 DEF ServerStarts, SessionInv, Transports, OneTransport, Covered, Retries, Opened,
                      connVars, clientVars
<1>3. ASSUME NEW s \in Side, Stop(s) PROVE SessionInv'
  <2>1. TypeOK'
    BY <1>3 DEF Stop, SessionInv, TypeOK, connVars, clientVars, serverVars
  <2> QED
    BY <1>3, <2>1 DEF Stop, SessionInv, Transports, OneTransport, Covered, Retries, Opened,
                      connVars, clientVars, serverVars
<1>4. CASE UNCHANGED vars
  BY <1>4 DEF SessionInv, TypeOK, Transports, OneTransport, Covered, Retries, Opened, vars,
              connVars, clientVars, serverVars
<1> QED
  BY <1>1, <1>2, <1>3, <1>4, TransportKeeps, ClientKeeps, ServerKeeps, StreamKeeps
     DEF Next, Program, Environment

LEMMA SessionCorrect == Spec => []SessionInv
BY SessionInit, SessionNext, PTL DEF Spec

-----------------------------------------------------------------------------
(* The type invariant: in particular attempt stays within maxRetries, and  *)
(* the sessions made within their bound.                                   *)
THEOREM TypeCorrect == Spec => []TypeOK
<1>1. SessionInv => TypeOK
  BY DEF SessionInv
<1> QED
  BY <1>1, SessionCorrect, PTL

(***************************************************************************)
(* No handler of a stream outlives the run of its session, at either side. *)
(***************************************************************************)
THEOREM NoHandlerLeft == Spec => []HandlersCovered
<1>1. SessionInv => HandlersCovered
  BY CoveredHandlers DEF SessionInv
<1> QED
  BY <1>1, SessionCorrect, PTL

(***************************************************************************)
(* A WebSocket works only for the session the client is serving.           *)
(***************************************************************************)
THEOREM TransportIsServed == Spec => []OneTransport
<1>1. SessionInv => OneTransport
  BY DEF SessionInv, Transports
<1> QED
  BY <1>1, SessionCorrect, PTL

(***************************************************************************)
(* A client that gives up has failed to dial maxRetries times in a row     *)
(* since its last session.                                                 *)
(***************************************************************************)
THEOREM GiveUpIsEarned == Spec => GivesUpAfterRetries
<1> DEFINE Earned == client' = "failed" /\ client # "failed" /\ establishable
                         => tries' = maxRetries
<1>1. SessionInv /\ [Next]_vars => [Earned]_vars
  <2> SUFFICES ASSUME SessionInv, Next, client' = "failed", client # "failed", establishable
               PROVE  tries' = maxRetries
    BY DEF Earned
  <2>1. /\ attempt \in Nat /\ maxRetries \in Nat /\ attempt <= maxRetries
        /\ tries \in Nat
    BY SessionAssumption DEF SessionInv, TypeOK
  <2>2. CASE DialFails \/ DialLost
    <3>1. client = "dial" /\ tries' = tries + 1 /\ Returned
      BY <2>2 DEF DialFails, DialLost
    <3>2. attempt >= maxRetries
      BY <3>1 DEF Returned
    <3>3. attempt = tries + 1
      BY <3>1 DEF SessionInv, Retries
    <3> QED
      BY <2>1, <3>1, <3>2, <3>3
  <2>3. CASE ClientDrainEnds
    BY <2>1, <2>3 DEF ClientDrainEnds, Returned, SessionInv, Retries
  <2>4. ASSUME DialNew \/ ClientLoopEnds \/ WaitEnds PROVE FALSE
    BY <2>4 DEF DialNew, ClientLoopEnds, WaitEnds
  <2>5. ASSUME NEW i \in Session,
               Transport(i) \/ ServerStep(i) \/ Drop(i) \/ Resume(i) \/ ResumeGone(i)
        PROVE  FALSE
    BY <2>5 DEF Transport, ServerStep, Drop, Resume, ResumeGone, Notice, GiveUp, CtxCloses,
                ServeSession, ServerRegisters, ServerLoopEnds, ServerDrainEnds, clientVars
  <2>6. ASSUME NEW k \in Stream,
               \/ StreamStep(k) \/ HeaderRead(k) \/ HandlerEnds(k)
               \/ TargetAnswers(k) \/ TargetStalls(k) \/ TargetGoesOn(k)
               \/ \E s \in Side : OpenStream(s, k)
        PROVE  FALSE
    BY <2>6 DEF StreamStep, Arrive, Accept, HandlerMustEnd, StreamDies, OpenTimeout,
                HeaderRead, HandlerEnds, TargetAnswers, TargetStalls, TargetGoesOn,
                OpenStream, clientVars
  <2>7. ASSUME \/ ServerReturns \/ ServerCrashes \/ ServerStarts
               \/ \E s \in Side : Stop(s)
        PROVE  FALSE
    BY <2>7 DEF ServerReturns, ServerCrashes, ServerEnds, ServerStarts, Stop, clientVars
  <2> QED
    BY <2>2, <2>3, <2>4, <2>5, <2>6, <2>7 DEF Next, Program, Environment, ClientStep
<1>2. Spec => [][Earned]_vars
  BY <1>1, SessionCorrect, PTL DEF Spec
<1> QED
  BY <1>2 DEF GivesUpAfterRetries, Earned

=============================================================================
