--------------------------- MODULE TrafficSession ---------------------------
(***************************************************************************)
(* The sessions between one client and the server: the client's retry loop *)
(* (services/traffic_client.go), the server's HTTP handler and             *)
(* serveSession (services/traffic_server.go), the registries of both       *)
(* (sessions/index.go) and the streams opened in a session by either side. *)
(*                                                                         *)
(* The ResumableConn of a session is abstract here: it is up, it is down   *)
(* until a resume or the end of its budget or grace period, and it may be  *)
(* closed, which also ends the yamux session on it.  What it does to get   *)
(* from one to the other is the subject of module ResumableConn.           *)
(*                                                                         *)
(* A session id is the number of the run that made it.  The answers 400    *)
(* and 409 of the handler need requests this client never sends: no id, an *)
(* id used before, an option that changed.                                 *)
(*                                                                         *)
(* An operator whose comment starts with "Slip:" is not part of the model. *)
(* It is the next operator with a plausible mistake in it, which one of    *)
(* the properties must notice.                                             *)
(***************************************************************************)
EXTENDS Naturals, FiniteSets

CONSTANTS
    MaxMade,       \* bound: the sessions the client makes and the streams
                   \* opened, taken together
    MaxDrops,      \* bound: how often the network drops a WebSocket
    MaxStarts,     \* bound: how often the server is started again
    maxRetries     \* retries before the client gives up

ASSUME SessionAssumption ==
    /\ MaxMade \in Nat \ {0} /\ MaxDrops \in Nat
    /\ MaxStarts \in Nat /\ maxRetries \in Nat

Side == {"client", "server"}
Peer(s) == IF s = "client" THEN "server" ELSE "client"
Session == 1 .. MaxMade
NoSession == 0
Stream == 1 .. (MaxMade - 1)

VARIABLES
    (* The transports. *)
    link,       \* the sessions that have a working WebSocket
    conn,       \* conn[s][i]: the ResumableConn of side s in session i
    drops,      \* how often the network dropped a WebSocket
    (* StartTrafficClient. *)
    client,     \* where the retry loop stands
    current,    \* the id of the last session made
    attempt,    \* the retry counter
    establishable,
    tries,      \* history: dials since the last session ended
    (* StartTrafficServer. *)
    server,     \* "up" or "down"
    starts,     \* how often the server was started again
    serving,    \* serving[i]: where serveSession stands for session i
    (* Both. *)
    stopped,    \* the sides whose ctx is done
    registry,   \* registry[s]: the sessions in the SessionManager of s
    stream      \* stream[k]: the stream k, by whom and in which session

connVars == <<link, conn, drops>>
clientVars == <<client, current, attempt, establishable, tries>>
serverVars == <<server, starts, serving>>
vars == <<connVars, clientVars, serverVars, stopped, registry, stream>>

NoStream == [from |-> "none", session |-> NoSession, at |-> "none"]

Init ==
    /\ link = {}
    /\ conn = [s \in Side |-> [i \in Session |-> "none"]]
    /\ drops = 0
    /\ client = "dial"
    /\ current = NoSession
    /\ attempt = 0
    /\ establishable = FALSE
    /\ tries = 0
    /\ server = "up"
    /\ starts = 0
    /\ serving = [i \in Session |-> "none"]
    /\ stopped = {}
    /\ registry = [s \in Side |-> {}]
    /\ stream = [k \in Stream |-> NoStream]

(* A side closes its ResumableConn, and with it the WebSocket. *)
Close(s, i) ==
    /\ conn' = [conn EXCEPT ![s][i] = "closed"]
    /\ link' = link \ {i}

Register(s, i) == registry' = [registry EXCEPT ![s] = @ \cup {i}]
RemoveSession(s, i) == registry' = [registry EXCEPT ![s] = @ \ {i}]

(* Data crosses session i. *)
Connected(i) == i \in link /\ \A s \in Side : conn[s][i] = "up"

(* Where the stream of a running handler is. *)
Handled == {"header", "dial", "relay", "stuck"}

(* The streams whose handler runs at side s in session i. *)
Handlers(s, i) ==
    {k \in Stream : /\ stream[k].from = Peer(s) /\ stream[k].session = i
                    /\ stream[k].at \in Handled}

(* A stream waits in the accept queue of side s. *)
Queued(s, i) ==
    \E k \in Stream : /\ stream[k].from = Peer(s) /\ stream[k].session = i
                      /\ stream[k].at = "queued"

Room == current + Cardinality({k \in Stream : stream[k].at # "none"}) < MaxMade

-----------------------------------------------------------------------------
(* The transport of a session.                                             *)

(* The network drops the WebSocket of i. *)
Drop(i) ==
    /\ i \in link /\ drops < MaxDrops
    /\ link' = link \ {i}
    /\ drops' = drops + 1
    /\ UNCHANGED <<conn, clientVars, serverVars, stopped, registry, stream>>

(* A side notices, at the latest after idleTimeout. *)
Notice(s, i) ==
    /\ conn[s][i] = "up" /\ i \notin link
    /\ conn' = [conn EXCEPT ![s][i] = "down"]
    /\ UNCHANGED <<link, drops, clientVars, serverVars, stopped, registry, stream>>

(***************************************************************************)
(* The client redials and the handler finds the session: UpdateWsConn      *)
(* attaches the WebSocket, unless the session is registered but its conn   *)
(* closed, when the client is left as it was.                              *)
(***************************************************************************)
Resume(i) ==
    /\ conn["client"][i] = "down" /\ server = "up"
    /\ i \in registry["server"] /\ conn["server"][i] \in {"up", "down"}
    /\ conn' = [s \in Side |-> [conn[s] EXCEPT ![i] = "up"]]
    /\ link' = link \cup {i}
    /\ UNCHANGED <<drops, clientVars, serverVars, stopped, registry, stream>>

(* The handler does not find it: 410, and the client's conn is closed. *)
ResumeGone(i) ==
    /\ conn["client"][i] = "down" /\ server = "up"
    /\ i \notin registry["server"]
    /\ Close("client", i)
    /\ UNCHANGED <<drops, clientVars, serverVars, stopped, registry, stream>>

(* The budget of the client or the grace period of the server runs out. *)
GiveUp(s, i) ==
    /\ conn[s][i] = "down"
    /\ Close(s, i)
    /\ UNCHANGED <<drops, clientVars, serverVars, stopped, registry, stream>>

ClientCtxCloses(s, i) ==     \* Slip: only the client's sessions end with ctx
    /\ s \in stopped /\ s = "client" /\ conn[s][i] \in {"up", "down"}
    /\ Close(s, i)
    /\ UNCHANGED <<drops, clientVars, serverVars, stopped, registry, stream>>

(* The AfterFuncs of ctx close the conn and the yamux session. *)
CtxCloses(s, i) ==
    /\ s \in stopped /\ conn[s][i] \in {"up", "down"}
    /\ Close(s, i)
    /\ UNCHANGED <<drops, clientVars, serverVars, stopped, registry, stream>>

-----------------------------------------------------------------------------
(***************************************************************************)
(* The client: "dial" a new session, "serve" it, "drain" the handlers of   *)
(* its streams, "wait" before the next attempt, "ended" or "failed".       *)
(***************************************************************************)

(* What the loop does after runSession, with attempt and establishable as they are. *)
ReturnedLate ==      \* Slip: one retry too many
    client' = IF "client" \in stopped THEN "ended"
              ELSE IF ~establishable \/ attempt > maxRetries THEN "failed"
              ELSE "wait"

Returned ==
    client' = IF "client" \in stopped THEN "ended"
              ELSE IF ~establishable \/ attempt >= maxRetries THEN "failed"
              ELSE "wait"

DialNewKeepsCount ==      \* Slip: attempt is not reset
    LET i == current + 1
    IN  /\ client = "dial" /\ server = "up" /\ Room
        /\ "client" \notin stopped
        /\ client' = "serve"
        /\ current' = i
        /\ establishable' = TRUE /\ tries' = 0
        /\ conn' = [conn EXCEPT !["client"][i] = "up"]
        /\ link' = link \cup {i}
        /\ serving' = [serving EXCEPT ![i] = "upgraded"]
        /\ Register("client", i)
        /\ UNCHANGED <<drops, attempt, server, starts, stopped, stream>>

(* The dial succeeds: the session is registered and successHandler runs. *)
DialNew ==
    LET i == current + 1
    IN  /\ client = "dial" /\ server = "up" /\ Room
        /\ "client" \notin stopped
        /\ client' = "serve"
        /\ current' = i
        /\ attempt' = 0 /\ establishable' = TRUE /\ tries' = 0
        /\ conn' = [conn EXCEPT !["client"][i] = "up"]
        /\ link' = link \cup {i}
        /\ serving' = [serving EXCEPT ![i] = "upgraded"]
        /\ Register("client", i)
        /\ UNCHANGED <<drops, server, starts, stopped, stream>>

(* The dial fails: no route, no server, a timeout, ctx done ... *)
DialFails ==
    /\ client = "dial"
    /\ Returned
    /\ tries' = tries + 1
    /\ UNCHANGED <<connVars, current, attempt, establishable, serverVars,
                   stopped, registry, stream>>

(* ... or the answer is lost, and the server has a session nobody uses. *)
DialLost ==
    LET i == current + 1
    IN  /\ client = "dial" /\ server = "up" /\ Room
        /\ current' = i
        /\ serving' = [serving EXCEPT ![i] = "upgraded"]
        /\ Returned
        /\ tries' = tries + 1
        /\ UNCHANGED <<connVars, attempt, establishable, server, starts, stopped,
                       registry, stream>>

(***************************************************************************)
(* Accept returns an error: the session is closed, or it is not but the    *)
(* transport was down too long for a stream to be acknowledged (yamux's    *)
(* ConnectionWriteTimeout).  The deferred calls remove the session, close  *)
(* it and wait for the handlers, in this order.                            *)
(***************************************************************************)
AcceptEnds(s, i) ==
    \/ conn[s][i] = "closed"
    \/ conn[s][i] = "down" /\ Queued(s, i)

ClientLoopEndsOpen ==      \* Slip: the session is closed only after the wait
    /\ client = "serve" /\ AcceptEnds("client", current)
    /\ client' = "drain"
    /\ RemoveSession("client", current)
    /\ UNCHANGED <<connVars, current, attempt, establishable, tries, serverVars,
                   stopped, stream>>

ClientLoopEnds ==
    /\ client = "serve" /\ AcceptEnds("client", current)
    /\ client' = "drain"
    /\ RemoveSession("client", current)
    /\ Close("client", current)
    /\ UNCHANGED <<drops, current, attempt, establishable, tries, serverVars,
                   stopped, stream>>

ClientDrainNoWait ==      \* Slip: runSession does not wait for its handlers
    /\ client = "drain"
    /\ Returned
    /\ UNCHANGED <<connVars, current, attempt, establishable, tries, serverVars,
                   stopped, registry, stream>>

ClientDrainEnds ==
    /\ client = "drain" /\ Handlers("client", current) = {}
    /\ Returned
    /\ UNCHANGED <<connVars, current, attempt, establishable, tries, serverVars,
                   stopped, registry, stream>>

(* The wait before the next attempt ends, or ctx is done. *)
WaitEnds ==
    /\ client = "wait"
    /\ IF "client" \in stopped
       THEN client' = "ended" /\ UNCHANGED attempt
       ELSE client' = "dial" /\ attempt' = attempt + 1
    /\ UNCHANGED <<connVars, current, establishable, tries, serverVars, stopped,
                   registry, stream>>

-----------------------------------------------------------------------------
(***************************************************************************)
(* serveSession: the handler has "upgraded" the request, the conn is there *)
(* but not registered ("starting"), the accept loop runs ("serve"), the    *)
(* loop is over but its streams are not ("drain"), "over".                 *)
(***************************************************************************)
ServeSession(i) ==
    /\ serving[i] = "upgraded"
    /\ serving' = [serving EXCEPT ![i] = "starting"]
    /\ conn' = [conn EXCEPT !["server"][i] = "up"]
    /\ UNCHANGED <<link, drops, clientVars, server, starts, stopped, registry, stream>>

ServerRegisters(i) ==
    /\ serving[i] = "starting"
    /\ serving' = [serving EXCEPT ![i] = "serve"]
    /\ Register("server", i)
    /\ UNCHANGED <<connVars, clientVars, server, starts, stopped, stream>>

ServerLoopEnds(i) ==
    /\ serving[i] = "serve" /\ AcceptEnds("server", i)
    /\ serving' = [serving EXCEPT ![i] = "drain"]
    /\ UNCHANGED <<connVars, clientVars, server, starts, stopped, registry, stream>>

ServerDrainForgets(i) ==      \* Slip: the session stays registered
    /\ serving[i] = "drain" /\ Handlers("server", i) = {}
    /\ serving' = [serving EXCEPT ![i] = "over"]
    /\ Close("server", i)
    /\ UNCHANGED <<drops, clientVars, server, starts, stopped, registry, stream>>

(* The deferred calls wait for the streams, remove the session and close it. *)
ServerDrainEnds(i) ==
    /\ serving[i] = "drain" /\ Handlers("server", i) = {}
    /\ serving' = [serving EXCEPT ![i] = "over"]
    /\ RemoveSession("server", i)
    /\ Close("server", i)
    /\ UNCHANGED <<drops, clientVars, server, starts, stopped, stream>>

(***************************************************************************)
(* The server process ends: after wg.Wait when ctx is done (a handler that *)
(* has upgraded but not begun serveSession is not waited for), or by a     *)
(* crash.  Whatever it had is gone with it.                                *)
(***************************************************************************)
ServerEnds ==
    /\ server' = "down"
    /\ serving' = [i \in Session |-> IF serving[i] = "none" THEN "none" ELSE "over"]
    /\ conn' = [conn EXCEPT !["server"] =
           [i \in Session |-> IF @[i] = "none" THEN "none" ELSE "closed"]]
    /\ link' = {}
    /\ registry' = [registry EXCEPT !["server"] = {}]
    /\ stream' = [k \in Stream |->
           IF stream[k].from = "client" /\ stream[k].at \in {"queued"} \cup Handled
           THEN [stream[k] EXCEPT !.at = "over"] ELSE stream[k]]
    /\ UNCHANGED <<drops, clientVars, starts, stopped>>

ServerReturns ==
    /\ server = "up" /\ "server" \in stopped
    /\ \A i \in Session : serving[i] \in {"none", "upgraded", "over"}
    /\ ServerEnds

ServerCrashes ==
    /\ server = "up" /\ starts < MaxStarts
    /\ ServerEnds

ServerStarts ==
    /\ server = "down" /\ starts < MaxStarts
    /\ server' = "up"
    /\ starts' = starts + 1
    /\ stopped' = stopped \ {"server"}
    /\ UNCHANGED <<connVars, clientVars, serving, registry, stream>>

(* ctx is done: Ctrl+C, a stop command or another service that failed. *)
Stop(s) ==
    /\ s \notin stopped
    /\ s = "server" => server = "up"
    /\ stopped' = stopped \cup {s}
    /\ UNCHANGED <<connVars, clientVars, serverVars, registry, stream>>

-----------------------------------------------------------------------------
(***************************************************************************)
(* A stream: "sent" by OpenStream, "queued" at the other side, in the      *)
(* hands of a handler that reads the "header", in a "relay", "over".  A    *)
(* handler of the client may also wait for its target where it does not    *)
(* look at the stream: in a "dial", or "stuck" in a relay whose target     *)
(* neither reads nor writes.  The target of the server is the sshd it has  *)
(* started, which reads, and is dialled for 3 seconds at most.             *)
(***************************************************************************)
Move(k, at) == stream' = [stream EXCEPT ![k].at = at]

(* pick takes any registered session that is not closed, up or down. *)
OpenStream(s, k) ==
    /\ stream[k].at = "none" /\ Room
    /\ s = "server" => server = "up"
    /\ \A j \in 1 .. (k - 1) : stream[j].at # "none"
    /\ \E i \in registry[s] :
           /\ conn[s][i] # "closed"
           /\ stream' = [stream EXCEPT ![k] =
                  [from |-> s, session |-> i, at |-> "sent"]]
    /\ UNCHANGED <<connVars, clientVars, serverVars, stopped, registry>>

Arrive(k) ==
    /\ stream[k].at = "sent" /\ Connected(stream[k].session)
    /\ Move(k, "queued")
    /\ UNCHANGED <<connVars, clientVars, serverVars, stopped, registry>>

(* The accept loop of side s runs for session i. *)
Accepting(s, i) ==
    IF s = "client" THEN client = "serve" /\ current = i ELSE serving[i] = "serve"

(* The accept loop takes it and starts its handler. *)
Accept(k) ==
    LET s == Peer(stream[k].from)  i == stream[k].session
    IN  /\ stream[k].at = "queued"
        /\ Accepting(s, i) /\ conn[s][i] = "up"
        /\ Move(k, "header")
        /\ UNCHANGED <<connVars, clientVars, serverVars, stopped, registry>>

(* The header is there, and the target of the server answers. *)
HeaderRead(k) ==
    /\ stream[k].at = "header"
    /\ Move(k, IF stream[k].from = "server" THEN "dial" ELSE "relay")
    /\ UNCHANGED <<connVars, clientVars, serverVars, stopped, registry>>

(* The target of the client answers, or its proxy does. *)
TargetAnswers(k) ==
    /\ stream[k].at = "dial"
    /\ Move(k, "relay")
    /\ UNCHANGED <<connVars, clientVars, serverVars, stopped, registry>>

(***************************************************************************)
(* One copy waits in Write for a target that does not read, the other in   *)
(* Read for the same target: neither notices that the stream ends.         *)
(***************************************************************************)
TargetStalls(k) ==
    /\ stream[k].at = "relay" /\ stream[k].from = "server"
    /\ Move(k, "stuck")
    /\ UNCHANGED <<connVars, clientVars, serverVars, stopped, registry>>

(* The target reads or writes again. *)
TargetGoesOn(k) ==
    /\ stream[k].at = "stuck"
    /\ Move(k, "relay")
    /\ UNCHANGED <<connVars, clientVars, serverVars, stopped, registry>>

HandlerIgnoresSession(k) ==      \* Slip: a relay does not see its session end
    /\ \/ stream[k].from = "client" /\ stream[k].at = "header"
       \/ stream[k].at = "dial" /\ "client" \in stopped
    /\ Move(k, "over")
    /\ UNCHANGED <<connVars, clientVars, serverVars, stopped, registry>>

(***************************************************************************)
(* The handler must end: its session is closed and it looks at the stream, *)
(* the server's deadline for the header is over, or the client dials with  *)
(* a ctx that is done.  The client has no deadline for the header, and     *)
(* nothing but the target ends a relay that is stuck.                      *)
(***************************************************************************)
HandlerMustEnd(k) ==
    /\ \/ /\ stream[k].at \in {"header", "relay"}
          /\ conn[Peer(stream[k].from)][stream[k].session] = "closed"
       \/ stream[k].from = "client" /\ stream[k].at = "header"
       \/ stream[k].at = "dial" /\ "client" \in stopped
    /\ Move(k, "over")
    /\ UNCHANGED <<connVars, clientVars, serverVars, stopped, registry>>

(* It may end: the header is wrong, the target or the user is gone. *)
HandlerEnds(k) ==
    /\ stream[k].at \in Handled
    /\ Move(k, "over")
    /\ UNCHANGED <<connVars, clientVars, serverVars, stopped, registry>>

(* A stream without handler ends with its session, at either side. *)
StreamDies(k) ==
    /\ stream[k].at \in {"sent", "queued"}
    /\ \E s \in Side : conn[s][stream[k].session] = "closed"
    /\ Move(k, "over")
    /\ UNCHANGED <<connVars, clientVars, serverVars, stopped, registry>>

OpenNeverTimesOut(k) == FALSE /\ UNCHANGED vars      \* Slip: StreamOpenTimeout = 0

(* Nobody accepts the stream: yamux's StreamOpenTimeout closes the session. *)
OpenTimeout(k) ==
    LET s == stream[k].from  i == stream[k].session
    IN  /\ stream[k].at \in {"sent", "queued"}
        /\ ~Accepting(Peer(s), i) /\ conn[s][i] \in {"up", "down"}
        /\ Close(s, i)
        /\ UNCHANGED <<drops, clientVars, serverVars, stopped, registry, stream>>

-----------------------------------------------------------------------------
Transport(i) ==
    \E s \in Side : Notice(s, i) \/ GiveUp(s, i) \/ CtxCloses(s, i)

ClientStep ==
    DialNew \/ DialFails \/ DialLost \/ ClientLoopEnds \/ ClientDrainEnds \/ WaitEnds
ServerStep(i) ==
    ServeSession(i) \/ ServerRegisters(i) \/ ServerLoopEnds(i) \/ ServerDrainEnds(i)
StreamStep(k) ==
    Arrive(k) \/ Accept(k) \/ HandlerMustEnd(k) \/ StreamDies(k) \/ OpenTimeout(k)

(* What goes on by itself: a timer or a goroutine of the program stands behind it. *)
Program ==
    \/ \E i \in Session : Transport(i) \/ ServerStep(i)
    \/ ClientStep \/ ServerReturns
    \/ \E k \in Stream : StreamStep(k)

(* What users, targets, the network and a reachable server may do. *)
Environment ==
    \/ \E i \in Session : Drop(i) \/ Resume(i) \/ ResumeGone(i)
    \/ \E s \in Side : Stop(s)
    \/ ServerCrashes \/ ServerStarts
    \/ \E k \in Stream :
           \/ HeaderRead(k) \/ TargetAnswers(k) \/ HandlerEnds(k)
           \/ TargetStalls(k) \/ TargetGoesOn(k)
           \/ \E s \in Side : OpenStream(s, k)

Next == Program \/ Environment

Spec == Init /\ [][Next]_vars

(***************************************************************************)
(* The program does not stand still: a dead WebSocket is noticed, budgets, *)
(* grace periods, dials and waits end, loops and handlers that can end do. *)
(* This is less than what its timers and goroutines have, each by itself;  *)
(* it is enough, because within the bounds no step can be taken for ever.  *)
(* Targets of the client owe it nothing: no dial has to be answered and no *)
(* stuck relay to go on.                                                   *)
(***************************************************************************)
FairSpec == Spec /\ WF_vars(Program)

-----------------------------------------------------------------------------
(* Every variable has its type. *)
TypeOK ==
    /\ link \subseteq Session
    /\ conn \in [Side -> [Session -> {"none", "up", "down", "closed"}]]
    /\ drops \in 0 .. MaxDrops
    /\ client \in {"dial", "serve", "drain", "wait", "ended", "failed"}
    /\ current \in Session \cup {NoSession}
    /\ attempt \in 0 .. maxRetries
    /\ establishable \in BOOLEAN
    /\ tries \in Nat
    /\ server \in {"up", "down"}
    /\ starts \in 0 .. MaxStarts
    /\ serving \in [Session -> {"none", "upgraded", "starting", "serve", "drain", "over"}]
    /\ stopped \subseteq Side
    /\ registry \in [Side -> SUBSET Session]
    /\ stream \in [Stream -> [from : Side \cup {"none"}, session : Session \cup {NoSession},
                              at : {"none", "sent", "queued", "over"} \cup Handled]]

(***************************************************************************)
(* No handler outlives the run of its session: when runSession goes on to  *)
(* the next attempt, or a session leaves the server's registry, no         *)
(* goroutine of it still relays (the WaitGroups of both).                  *)
(***************************************************************************)
HandlersCovered ==
    \A i \in Session :
        /\ Handlers("client", i) # {} => client \in {"serve", "drain"} /\ current = i
        /\ Handlers("server", i) # {} => i \in registry["server"]

(***************************************************************************)
(* The client has one transport at a time: a WebSocket works only for the  *)
(* session it is serving, never for one it has left (session.Close before  *)
(* the next attempt).                                                      *)
(***************************************************************************)
OneTransport == \A i \in link : client = "serve" /\ current = i

(***************************************************************************)
(* The client gives up a server it once reached only after maxRetries      *)
(* dials in a row, whatever the sessions before did to attempt.            *)
(***************************************************************************)
GivesUpAfterRetries ==
    [][client' = "failed" /\ client # "failed" /\ establishable
           => tries' = maxRetries]_vars

(* A handler of the client's session is at one of these places. *)
HeldAt(places) ==
    \E k \in Handlers("client", current) : stream[k].at \in places

(***************************************************************************)
(* A client that lost its session has another one in the end, or has given *)
(* up or been stopped: no stream of the old one holds it back, unless its  *)
(* target does.  A target that goes on ends the excuse, so it is one only  *)
(* for as long as a dial is not answered or a relay is stuck.              *)
(***************************************************************************)
StillTrying ==
    client = "drain" ~>
        client \in {"serve", "ended", "failed"} \/ HeldAt({"dial", "stuck"})

(***************************************************************************)
(* A session the client does not serve (it left it, or never knew it)      *)
(* leaves the server's registry, so that pick cannot choose it for ever.   *)
(***************************************************************************)
OrphansLeave ==
    \A i \in Session :
        serving[i] # "none" /\ ~Accepting("client", i) ~> i \notin registry["server"]

(***************************************************************************)
(* Every stream is accepted or ends, also one that was put into a session  *)
(* whose transport is being given up or whose accept loop is over.         *)
(***************************************************************************)
StreamsSettle ==
    \A k \in Stream :
        stream[k].at \in {"sent", "queued"} ~> stream[k].at \in {"over"} \cup Handled

(***************************************************************************)
(* A side that is told to stop comes to an end: no session, stream or      *)
(* retry keeps it (the AfterFuncs of ctx, wg.Wait), and at the client no   *)
(* dial either, only a relay that is stuck, and only while it is.          *)
(***************************************************************************)
StopFinishes ==
    /\ "client" \in stopped ~> client \in {"ended", "failed"} \/ HeldAt({"stuck"})
    /\ "server" \in stopped ~> server = "down"

=============================================================================
