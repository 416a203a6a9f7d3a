----------------------------- MODULE Forwarding -----------------------------
(***************************************************************************)
(* One connection carried through NetoKeep, from the user's to the target. *)
(*                                                                         *)
(*    user ------- near process ------- far process ------- target         *)
(*     "user" (TCP)       "tunnel" (stream)     "target" (TCP)             *)
(*                                                                         *)
(* With "connect" the near process is nks: its HTTP proxy takes a CONNECT  *)
(* request (services/proxy_listener.go), and the far one is nk, which      *)
(* connects to the target (traffic_client.go).  With "ssh" the near        *)
(* process is nk (ssh_forward.go) and the far one nks, whose target is its *)
(* sshd (traffic_server.go).  Either opens a stream with a header          *)
(* (sessions/index.go, module StreamHeader) and both relay                 *)
(* (utils/relay_conn.go).  The settings are loaded when nks and nk start   *)
(* (modules Settings and ProxyRules).                                      *)
(*                                                                         *)
(* TCP, net/http and yamux are external.  A TCP connection closed while it *)
(* has unread bytes, or written to after the close, is reset, which may    *)
(* destroy what the closing side has sent.  Closing a stream ends one      *)
(* direction only; the other one ends with the peer, or by a timer.  The   *)
(* HTTP server reads on behind a request until the connection is hijacked, *)
(* and cancels the request when the user ends the connection before.       *)
(*                                                                         *)
(* An operator whose comment starts with "Slip:" is not part of the model. *)
(* It is the next operator with a plausible mistake in it, which one of    *)
(* the properties must notice.                                             *)
(***************************************************************************)
EXTENDS Naturals, Sequences, StreamHeader, ProxyRules

CONSTANTS
    HostName,      \* HostName[h]: the bytes of host h
    Targets,       \* the addresses users ask for
    ServerFiles,   \* the settings files nks finds ...
    ClientFiles,   \* ... and nk
    UsesProxy,     \* whether nk is started with use-proxy
    UserBytes,     \* bound: the bytes the user sends
    TargetBytes,   \* bound: the bytes the target sends
    Window         \* how many bytes a connection holds in one direction

ASSUME ForwardingAssumption ==
    /\ HostName \in [Hosts -> Seq(Byte)]
    /\ \A g, h \in Hosts : HostName[g] = HostName[h] => g = h
    /\ Targets \subseteq [host : Hosts, port : Nat]
    /\ ServerFiles \subseteq File(ServerRules) /\ ClientFiles \subseteq File(ClientProxy)
    /\ UsesProxy \subseteq BOOLEAN
    /\ UserBytes \in Nat /\ TargetBytes \in Nat
    /\ Window \in Nat \ {0}

Link == {"user", "tunnel", "target"}
Dir == {"out", "back"}
Opposite(d) == IF d = "out" THEN "back" ELSE "out"
Process == {"near", "far"}
Endpoint == {"user", "target"}
Other(e) == IF e = "user" THEN "target" ELSE "user"

VARIABLES
    serverFile, rules,      \* nks: its settings file, the rules it loaded
    clientFile, via,        \* nk: its settings file, the dialer it made of it
    nks, nk,                \* "off", "on" or "failed"
    forward,                \* the session was opened with forward-traffic
    session,                \* "none", "up" or "closed"
    mode,                   \* "none", "connect" or "ssh"
    asked,                  \* the address of the CONNECT request
    near, far,              \* where the handlers at both ends stand
    header,                 \* the header on its way through the tunnel
    property,               \* what the far process resolved it to
    deadline,               \* the far process has a read deadline on the stream
    reached,                \* what it connected to
    cancelled,              \* the CONNECT request was cancelled after it was hijacked
    net,                    \* net[l][d]: direction d of connection l
    held,                   \* held[p][d]: what a copy has read and not written
    copy,                   \* copy[p][d]: "idle", "on" or "done"
    sent, got,              \* what the endpoints sent and got
    ended,                  \* how an endpoint ended its connection
    lost                    \* history: a reset or a timer destroyed bytes

confVars == <<serverFile, rules, clientFile, via, nks, nk, forward>>
headVars == <<header, property, deadline, reached>>
copyVars == <<held, copy>>
endVars == <<sent, got, ended>>
vars == <<confVars, session, mode, asked, near, far, headVars, cancelled, net,
          copyVars, endVars, lost>>

NoTarget == [host |-> "none", port |-> 0]
NoProperty == [pattern |-> 0, host |-> <<>>, port |-> 0]
Nowhere == [host |-> <<>>, port |-> 0, route |-> "none"]
Sshd == [host |-> <<>>, port |-> 0, route |-> "sshd"]

Init ==
    /\ serverFile \in ServerFiles /\ clientFile \in ClientFiles
    /\ rules = zeroServerRules /\ via = Always("direct")
    /\ nks = "off" /\ nk = "off"
    /\ forward \in BOOLEAN
    /\ session = "none" /\ mode = "none" /\ asked = NoTarget
    /\ near = "idle" /\ far = "none"
    /\ header = <<>> /\ property = NoProperty /\ deadline = FALSE /\ reached = Nowhere
    /\ cancelled = FALSE
    /\ net = [l \in Link |-> [d \in Dir |-> [q |-> <<>>, fin |-> FALSE, shut |-> FALSE]]]
    /\ held = [p \in Process |-> [d \in Dir |-> <<>>]]
    /\ copy = [p \in Process |-> [d \in Dir |-> "idle"]]
    /\ sent = [e \in Endpoint |-> 0] /\ got = [e \in Endpoint |-> <<>>]
    /\ ended = [e \in Endpoint |-> "open"]
    /\ lost = FALSE

-----------------------------------------------------------------------------
(***************************************************************************)
(* Connections.  In net[l][d], q are the bytes on their way, fin says that *)
(* none will follow, shut that nobody will read any more.  The side that   *)
(* writes direction d closes:                                              *)
(***************************************************************************)
HalfClosed(n, l, d) == [n EXCEPT ![l][d].fin = TRUE]

Closed(n, l, d) ==
    IF l = "tunnel" THEN HalfClosed(n, l, d)
    ELSE [n EXCEPT ![l][d].fin = TRUE,
                   ![l][Opposite(d)].shut = TRUE, ![l][Opposite(d)].q = <<>>]

(* Close it, and perhaps reset it for the bytes that were not read. *)
CloseIn(n, l, d) ==
    \/ net' = Closed(n, l, d) /\ UNCHANGED lost
    \/ /\ l # "tunnel" /\ n[l][Opposite(d)].q # <<>> /\ ~n[l][d].fin
       /\ net' = [Closed(n, l, d) EXCEPT ![l][d].q = <<>>]
       /\ lost' = TRUE

CanWrite(l, d) == ~net[l][d].fin /\ ~net[l][d].shut /\ Len(net[l][d].q) < Window
WriteFails(l, d) == net[l][d].fin \/ net[l][d].shut
Put(n, l, d, x) == [n EXCEPT ![l][d].q = Append(@, x)]
EOF(l, d) == net[l][d].q = <<>> /\ (net[l][d].fin \/ net[l][d].shut)

(* The stream ends at both sides; either keeps some of what has arrived. *)
StreamCut ==
    \E k \in [Dir -> 0 .. Window] :
        /\ \A d \in Dir : k[d] <= Len(net["tunnel"][d].q)
        /\ net' = [net EXCEPT !["tunnel"] =
               [d \in Dir |-> [q |-> SubSeq(@[d].q, 1, k[d]), fin |-> TRUE, shut |-> TRUE]]]

(* Once both handlers are over, nothing that happens concerns the program. *)
Busy == near \notin {"refused", "over"} \/ far \notin {"none", "over"}

StreamOpen == mode # "none" /\ near \notin {"dial", "refused"}

-----------------------------------------------------------------------------
(* nks and nk start, with the settings they find.                          *)

NksStarts ==
    /\ nks = "off"
    /\ IF Loadable(serverFile)
       THEN nks' = "on" /\ rules' = Loaded(serverFile, defaultServerRules, zeroServerRules)
       ELSE nks' = "failed" /\ UNCHANGED rules
    /\ serverFile' = FileAfterLoad(serverFile, defaultServerRules)
    /\ UNCHANGED <<clientFile, via, nk, forward, session, mode, asked, near, far,
                   headVars, cancelled, net, copyVars, endVars, lost>>

NksRestarts ==
    /\ nks # "off" /\ nk = "off"
    /\ nks' = "off" /\ rules' = zeroServerRules
    /\ UNCHANGED <<serverFile, clientFile, via, nk, forward, session, mode, asked,
                   near, far, headVars, cancelled, net, copyVars, endVars, lost>>

(* With a session, unless the proxy it is to use makes no URL. *)
NkStarts(useProxy) ==
    LET conf == Loaded(clientFile, defaultClientProxy, zeroClientProxy)
        works == useProxy => Loadable(clientFile) /\ ProxyUsable(conf)
    IN  /\ nk = "off" /\ nks = "on" /\ Busy
        /\ nk' = IF works THEN "on" ELSE "failed"
        /\ session' = IF works THEN "up" ELSE "none"
        /\ via' = IF works THEN RouteDialer(useProxy, conf) ELSE via
        /\ clientFile' = IF useProxy THEN FileAfterLoad(clientFile, defaultClientProxy)
                         ELSE clientFile
        /\ UNCHANGED <<serverFile, rules, nks, forward, mode, asked, near, far,
                       headVars, cancelled, net, copyVars, endVars, lost>>

(* The session ends: a stop, a lost transport, an expired grace period. *)
SessionEnds ==
    /\ session = "up" /\ Busy
    /\ session' = "closed"
    /\ IF StreamOpen THEN StreamCut ELSE UNCHANGED net
    /\ UNCHANGED <<confVars, mode, asked, near, far, headVars, cancelled, copyVars,
                   endVars, lost>>

-----------------------------------------------------------------------------
(***************************************************************************)
(* The near process: "dial" until the stream is open, "hijack", "greet"    *)
(* and "early" for CONNECT, "relay", "over"; "refused" when there will be  *)
(* no stream.                                                              *)
(***************************************************************************)

Ask(t) ==
    /\ near = "idle" /\ nks = "on"
    /\ mode' = "connect" /\ asked' = t /\ near' = "dial"
    /\ UNCHANGED <<confVars, session, far, headVars, cancelled, net, copyVars,
                   endVars, lost>>

AskSSH ==
    /\ near = "idle" /\ nk = "on"
    /\ mode' = "ssh" /\ near' = "dial"
    /\ UNCHANGED <<confVars, session, asked, far, headVars, cancelled, net, copyVars,
                   endVars, lost>>

Property ==
    IF mode = "ssh" THEN [pattern |-> SSHPattern, host |-> <<>>, port |-> 0]
    ELSE [pattern |-> ProxyPattern, host |-> HostName[asked.host], port |-> asked.port]

Denied == mode = "connect" /\ RuleDialer(rules)[asked.host] = "reject"

(* The port is a number of 16 bits, the header can be encoded, and pick finds *)
(* a session; for the HTTP proxy one that forwards.                           *)
Dialable ==
    /\ Property.port \in Port /\ Encodable(Property)
    /\ session = "up"
    /\ mode = "connect" => forward

(* OpenStream: a stream that begins with the header. *)
DialOpens ==
    /\ near = "dial" /\ ~Denied /\ Dialable
    /\ header' = EncodeConnProperty(Property)
    /\ far' = "header" /\ deadline' = (mode = "ssh")
    /\ IF mode = "ssh"
       THEN near' = "relay" /\ copy' = [copy EXCEPT !["near"] = [d \in Dir |-> "on"]]
       ELSE near' = "hijack" /\ UNCHANGED copy
    /\ UNCHANGED <<confVars, session, mode, asked, property, reached, cancelled, net,
                   held, endVars, lost>>

(***************************************************************************)
(* It is not: the rules deny the host (403); a bad address, no session or  *)
(* one that ends meanwhile, or a request that is cancelled, which may      *)
(* happen at any time (502).  An SSH connection is closed.                 *)
(***************************************************************************)
Refusals ==
    {code \in {403, 502} :
        IF code = 403 THEN Denied ELSE mode = "connect" \/ ~Dialable}

DialFails ==
    /\ near = "dial" /\ Refusals # {}
    /\ near' = "refused"
    /\ IF mode = "ssh" THEN CloseIn(net, "user", "back")
       ELSE /\ IF CanWrite("user", "back")
               THEN \E code \in Refusals : net' = Put(net, "user", "back", code)
               ELSE UNCHANGED net
            /\ UNCHANGED lost
    /\ UNCHANGED <<confVars, session, mode, asked, far, headVars, cancelled, copyVars,
                   endVars>>

(* The first bytes may be in the buffer of the HTTP server already. *)
Hijack ==
    /\ near = "hijack"
    /\ near' = "greet"
    /\ \E n \in 0 .. Len(net["user"]["out"].q) :
           /\ held' = [held EXCEPT !["near"]["out"] = SubSeq(net["user"]["out"].q, 1, n)]
           /\ net' = [net EXCEPT !["user"]["out"].q = SubSeq(@, n + 1, Len(@))]
    /\ UNCHANGED <<confVars, session, mode, asked, far, headVars, cancelled, copy,
                   endVars, lost>>

(***************************************************************************)
(* AfterFunc closes the hijacked connection: the user ended it before it   *)
(* was hijacked, or nks is stopped.                                        *)
(***************************************************************************)
Cancelled ==
    /\ mode = "connect" /\ near \in {"greet", "early", "relay"}
    /\ ~net["user"]["back"].fin
    /\ cancelled' = TRUE
    /\ CloseIn(net, "user", "back")
    /\ UNCHANGED <<confVars, session, mode, asked, near, far, headVars, copyVars, endVars>>

Greet ==
    /\ near = "greet" /\ CanWrite("user", "back")
    /\ near' = "early"
    /\ net' = Put(net, "user", "back", 200)
    /\ UNCHANGED <<confVars, session, mode, asked, far, headVars, cancelled, copyVars,
                   endVars, lost>>

(* The bytes of the buffer go first. *)
SendEarly ==
    /\ near = "early" /\ held["near"]["out"] # <<>> /\ CanWrite("tunnel", "out")
    /\ net' = Put(net, "tunnel", "out", Head(held["near"]["out"]))
    /\ held' = [held EXCEPT !["near"]["out"] = Tail(@)]
    /\ UNCHANGED <<confVars, session, mode, asked, near, far, headVars, cancelled,
                   copy, endVars, lost>>

EarlyDropped ==      \* Slip: the buffer is not looked at
    /\ near = "early"
    /\ near' = "relay"
    /\ held' = [held EXCEPT !["near"]["out"] = <<>>]
    /\ copy' = [copy EXCEPT !["near"] = [d \in Dir |-> "on"]]
    /\ UNCHANGED <<confVars, session, mode, asked, far, headVars, cancelled, net,
                   endVars, lost>>

EarlySent ==
    /\ near = "early" /\ held["near"]["out"] = <<>>
    /\ near' = "relay"
    /\ copy' = [copy EXCEPT !["near"] = [d \in Dir |-> "on"]]
    /\ UNCHANGED <<confVars, session, mode, asked, far, headVars, cancelled, net, held,
                   endVars, lost>>

(* A write before the relay fails, and the handler closes both. *)
NearFails ==
    /\ \/ near = "greet" /\ WriteFails("user", "back")
       \/ near = "early" /\ held["near"]["out"] # <<>> /\ WriteFails("tunnel", "out")
    /\ near' = "over"
    /\ held' = [held EXCEPT !["near"]["out"] = <<>>]
    /\ CloseIn(HalfClosed(net, "tunnel", "out"), "user", "back")
    /\ UNCHANGED <<confVars, session, mode, asked, far, headVars, cancelled, copy,
                   endVars>>

-----------------------------------------------------------------------------
(***************************************************************************)
(* The far process: "header" until it has read one, "dial" until the       *)
(* target is connected, "relay", "over".                                   *)
(***************************************************************************)

FarReadsOn ==      \* Slip: the deadline is not taken back
    /\ far = "header" /\ HeaderComplete(header)
    /\ property' = ResolveConnProperty(header)
    /\ far' = "dial" /\ UNCHANGED deadline
    /\ header' = <<>>
    /\ net' = [net EXCEPT !["tunnel"]["out"].q = AfterHeader(header) \o @]
    /\ UNCHANGED <<confVars, session, mode, asked, near, reached, cancelled, copyVars,
                   endVars, lost>>

FarReads ==
    /\ far = "header" /\ HeaderComplete(header)
    /\ property' = ResolveConnProperty(header)
    /\ far' = "dial" /\ deadline' = FALSE
    /\ header' = <<>>
    /\ net' = [net EXCEPT !["tunnel"]["out"].q = AfterHeader(header) \o @]
    /\ UNCHANGED <<confVars, session, mode, asked, near, reached, cancelled, copyVars,
                   endVars, lost>>

FarPattern == IF mode = "ssh" THEN SSHPattern ELSE ProxyPattern

(* The dialer goes by the host, which may be none it knows. *)
RouteOf(host) ==
    IF \E h \in Hosts : HostName[h] = host
    THEN via[CHOOSE h \in Hosts : HostName[h] = host] ELSE "direct"

FarDials ==
    /\ far = "dial" /\ property.pattern = FarPattern
    /\ far' = "relay"
    /\ reached' = IF mode = "ssh" THEN Sshd
                  ELSE [host |-> property.host, port |-> property.port,
                        route |-> RouteOf(property.host)]
    /\ copy' = [copy EXCEPT !["far"] = [d \in Dir |-> "on"]]
    /\ UNCHANGED <<confVars, session, mode, asked, near, header, property, deadline,
                   cancelled, net, held, endVars, lost>>

(* No header, in time or at all; another pattern; nobody at the target. *)
FarFails ==
    /\ \/ far = "header" /\ (session # "up" \/ deadline \/ net["tunnel"]["out"].fin)
       \/ far = "dial"
    /\ far' = "over" /\ deadline' = FALSE
    /\ net' = HalfClosed(net, "tunnel", "back")
    /\ UNCHANGED <<confVars, session, mode, asked, near, header, property, reached,
                   cancelled, copyVars, endVars, lost>>

-----------------------------------------------------------------------------
(***************************************************************************)
(* Relay: two copies in each process, one for each direction.  Copy <<p,   *)
(* d>> reads direction d of connection Source(p, d), writes direction d of *)
(* connection Sink(p, d), and closes its side of the latter in the end.    *)
(***************************************************************************)
Own(p) == IF p = "near" THEN "user" ELSE "target"
Source(p, d) == IF (p = "near") = (d = "out") THEN Own(p) ELSE "tunnel"
Sink(p, d) == IF (p = "near") = (d = "out") THEN "tunnel" ELSE Own(p)

CopyReads(p, d) ==
    LET l == Source(p, d)
    IN  /\ copy[p][d] = "on" /\ held[p][d] = <<>> /\ net[l][d].q # <<>>
        /\ held' = [held EXCEPT ![p][d] = <<Head(net[l][d].q)>>]
        /\ net' = [net EXCEPT ![l][d].q = Tail(@)]
        /\ UNCHANGED <<confVars, session, mode, asked, near, far, headVars, cancelled,
                       copy, endVars, lost>>

CopyWrites(p, d) ==
    LET l == Sink(p, d)
    IN  /\ copy[p][d] = "on" /\ held[p][d] # <<>> /\ CanWrite(l, d)
        /\ net' = Put(net, l, d, Head(held[p][d]))
        /\ held' = [held EXCEPT ![p][d] = Tail(@)]
        /\ UNCHANGED <<confVars, session, mode, asked, near, far, headVars, cancelled,
                       copy, endVars, lost>>

(* io.Copy returns: the source has ended, its deadline is over, or a write fails. *)
CopyOver(p, d) ==
    /\ copy[p][d] = "on"
    /\ \/ held[p][d] = <<>> /\ EOF(Source(p, d), d)
       \/ held[p][d] = <<>> /\ Source(p, d) = "tunnel" /\ p = "far" /\ deadline
       \/ held[p][d] # <<>> /\ WriteFails(Sink(p, d), d)


CopyEnds(p, d) ==
    /\ CopyOver(p, d)
    /\ copy' = [copy EXCEPT ![p][d] = "done"]
    /\ held' = [held EXCEPT ![p][d] = <<>>]
    /\ CloseIn(net, Sink(p, d), d)
    /\ UNCHANGED <<confVars, session, mode, asked, near, far, headVars, cancelled, endVars>>

(* Both copies are done, and so is the handler. *)
RelayReturns(p) ==
    /\ \A d \in Dir : copy[p][d] = "done"
    /\ IF p = "near" THEN near = "relay" /\ near' = "over" /\ UNCHANGED far
       ELSE far = "relay" /\ far' = "over" /\ UNCHANGED near
    /\ UNCHANGED <<confVars, session, mode, asked, headVars, cancelled, net, copyVars,
                   endVars, lost>>

(* yamux ends a stream that only one side has closed after StreamCloseTimeout. *)
CloseTimeout ==
    /\ StreamOpen
    /\ net["tunnel"]["out"].fin # net["tunnel"]["back"].fin
    /\ StreamCut
    /\ lost' = TRUE
    /\ UNCHANGED <<confVars, session, mode, asked, near, far, headVars, cancelled,
                   copyVars, endVars>>

-----------------------------------------------------------------------------
(* The endpoints.                                                          *)

Outward(e) == IF e = "user" THEN "out" ELSE "back"
Limit(e) == IF e = "user" THEN UserBytes ELSE TargetBytes
Base(e) == IF e = "user" THEN 0 ELSE 100

(* The bytes an endpoint sends are numbered, from 1 or from 101. *)
Text(e, n) == [i \in 1 .. n |-> Base(e) + i]

Present(e) == IF e = "user" THEN mode # "none" ELSE reached # Nowhere

(* It sends a byte; the other side may have closed already. *)
Sends(e) ==
    LET d == Outward(e)
    IN  /\ Present(e) /\ Busy /\ ended[e] = "open" /\ sent[e] < Limit(e)
        /\ sent' = [sent EXCEPT ![e] = @ + 1]
        /\ IF net[e][d].shut
           THEN /\ net' = [net EXCEPT ![e][Opposite(d)].q = <<>>]
                /\ lost' = TRUE
           ELSE /\ CanWrite(e, d)
                /\ net' = Put(net, e, d, Base(e) + sent[e] + 1)
                /\ UNCHANGED lost
        /\ UNCHANGED <<confVars, session, mode, asked, near, far, headVars, cancelled,
                       copyVars, got, ended>>

Gets(e) ==
    LET d == Opposite(Outward(e))
    IN  /\ Present(e) /\ ended[e] # "closed" /\ net[e][d].q # <<>>
        /\ got' = [got EXCEPT ![e] = Append(@, Head(net[e][d].q))]
        /\ net' = [net EXCEPT ![e][d].q = Tail(@)]
        /\ UNCHANGED <<confVars, session, mode, asked, near, far, headVars, cancelled,
                       copyVars, sent, ended, lost>>

(* It has sent everything and reads on; "early" when it has no answer yet. *)
HalfCloses(e) ==
    /\ Present(e) /\ Busy /\ ended[e] = "open"
    /\ ended' = [ended EXCEPT ![e] =
           IF e = "user" /\ mode = "connect" /\ got[e] = <<>> THEN "early" ELSE "half"]
    /\ net' = HalfClosed(net, e, Outward(e))
    /\ UNCHANGED <<confVars, session, mode, asked, near, far, headVars, cancelled,
                   copyVars, sent, got, lost>>

Closes(e) ==
    /\ Present(e) /\ Busy /\ ended[e] # "closed"
    /\ ended' = [ended EXCEPT ![e] = "closed"]
    /\ CloseIn(net, e, Outward(e))
    /\ UNCHANGED <<confVars, session, mode, asked, near, far, headVars, cancelled,
                   copyVars, sent, got>>

-----------------------------------------------------------------------------
(* What goes on by itself: goroutines, timers, and endpoints that read. *)
Program ==
    \/ DialOpens \/ DialFails \/ Hijack \/ Greet \/ SendEarly
    \/ EarlySent \/ NearFails
    \/ FarReads \/ FarFails \/ CloseTimeout
    \/ \E p \in Process :
           \/ RelayReturns(p)
           \/ \E d \in Dir : CopyReads(p, d) \/ CopyWrites(p, d) \/ CopyEnds(p, d)
    \/ \E e \in Endpoint : Gets(e)

Environment ==
    \/ NksStarts \/ NksRestarts \/ SessionEnds \/ AskSSH \/ Cancelled \/ FarDials
    \/ \E useProxy \in UsesProxy : NkStarts(useProxy)
    \/ \E t \in Targets : Ask(t)
    \/ \E e \in Endpoint : Sends(e) \/ HalfCloses(e) \/ Closes(e)

Next == Program \/ Environment

Spec == Init /\ [][Next]_vars

(***************************************************************************)
(* What can go on does: no step of Program can be taken for ever, so one   *)
(* condition for all of them is enough.  Endpoints read what reaches them. *)
(***************************************************************************)
FairSpec == Spec /\ WF_vars(Program)

-----------------------------------------------------------------------------
Pipe == [q : Seq(Nat), fin : BOOLEAN, shut : BOOLEAN]

(* Every variable has its type. *)
TypeOK ==
    /\ serverFile \in File(ServerRules) /\ rules \in ServerRules
    /\ clientFile \in File(ClientProxy) /\ via \in [Hosts -> {"direct", "proxy"}]
    /\ nks \in {"off", "on", "failed"} /\ nk \in {"off", "on", "failed"}
    /\ forward \in BOOLEAN
    /\ session \in {"none", "up", "closed"}
    /\ mode \in {"none", "connect", "ssh"}
    /\ asked \in Targets \cup {NoTarget}
    /\ near \in {"idle", "dial", "refused", "hijack", "greet", "early", "relay", "over"}
    /\ far \in {"none", "header", "dial", "relay", "over"}
    /\ header \in Seq(Byte) /\ property \in ConnProperty
    /\ deadline \in BOOLEAN /\ cancelled \in BOOLEAN /\ lost \in BOOLEAN
    /\ reached \in [host : Seq(Byte), port : Port, route : {"none", "direct", "proxy", "sshd"}]
    /\ net \in [Link -> [Dir -> Pipe]]
    /\ \A l \in Link, d \in Dir : Len(net[l][d].q) <= Window
    /\ held \in [Process -> [Dir -> Seq(Nat)]]
    /\ copy \in [Process -> [Dir -> {"idle", "on", "done"}]]
    /\ sent \in [Endpoint -> Nat] /\ got \in [Endpoint -> Seq(Nat)]
    /\ ended \in [Endpoint -> {"open", "early", "half", "closed"}]

(***************************************************************************)
(* A connection reaches the host and port it was asked for, past the rules *)
(* of nks, the bytes of the header and the proxy of nk, and none that the  *)
(* rules deny, even if they allow it too.                                  *)
(***************************************************************************)
RightTarget ==
    reached # Nowhere /\ mode = "connect" =>
        /\ reached.host = HostName[asked.host] /\ reached.port = asked.port
        /\ reached.route = via[asked.host]
        /\ asked.host \notin rules.deny

(***************************************************************************)
(* Either end gets what the other has sent, in order and from the start:   *)
(* the user after the answer to its request, the target with the bytes     *)
(* that came before that answer first.                                     *)
(***************************************************************************)
StartOf(s, t) == Len(s) <= Len(t) /\ \A i \in 1 .. Len(s) : s[i] = t[i]

InOrder ==
    /\ StartOf(got["target"], Text("user", sent["user"]))
    /\ \/ StartOf(got["user"], (IF mode = "connect" THEN <<200>> ELSE <<>>)
                                   \o Text("target", sent["target"]))
       \/ got["user"] \in {<<403>>, <<502>>}

(***************************************************************************)
(* A relay lasts: it begins to end only when an endpoint or the session    *)
(* ended, nks is being stopped or the target was never reached, and no     *)
(* deadline or timer from before is left to end it.                        *)
(***************************************************************************)
RelayLasts ==
    (\E p \in Process, d \in Dir : copy[p][d] = "done") =>
        \/ \E e \in Endpoint : ended[e] # "open"
        \/ session = "closed" \/ cancelled
        \/ far = "over" /\ reached = Nowhere

(***************************************************************************)
(* An endpoint that ends its direction and goes on reading, after it had   *)
(* its answer, was heard to the last byte when both handlers are over,     *)
(* unless nobody was reached, the other endpoint ended too, the session or *)
(* nks did, or TCP or the stream was reset.                                *)
(***************************************************************************)
HeardInFull ==
    \A e \in Endpoint :
        /\ ended[e] = "half" /\ ended[Other(e)] = "open"
        /\ near = "over" /\ far = "over" /\ reached # Nowhere
        /\ net[Other(e)][Outward(e)].q = <<>>
        /\ session = "up" /\ ~cancelled /\ ~lost
        => got[Other(e)] = (IF e = "target" /\ mode = "connect" THEN <<200>> ELSE <<>>)
                               \o Text(e, sent[e])


(***************************************************************************)
(* "Hosts matching no list fall back to the default policy" (the comment   *)
(* in buildRuleDialer), the policy being that of the settings file.        *)
(***************************************************************************)
DefaultPolicyHolds ==
    mode = "connect" /\ StreamOpen /\ serverFile.says.default = "deny"
        => asked.host \in serverFile.says.allow

=============================================================================
