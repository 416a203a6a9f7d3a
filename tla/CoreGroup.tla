------------------------------ MODULE CoreGroup ------------------------------
(***************************************************************************)
(* One core process from the inside: the services it runs in an errgroup   *)
(* (internal/services), the context that ends them all, and the loop that  *)
(* records how it goes (cmd/nk/core.go, cmd/nks/core.go).                  *)
(*                                                                         *)
(* A service is "starting", "serving", "closing" when it is on its way     *)
(* out, or "ended"; sshd has the stage "probing" in between.  Sessions are *)
(* reduced to what the services see of them: module TrafficSession has     *)
(* the rest.                                                               *)
(*                                                                         *)
(* An operator whose comment starts with "Slip:" is not part of the model. *)
(* It is the next operator with a plausible mistake in it, which one of    *)
(* the properties must notice.                                             *)
(***************************************************************************)
EXTENDS Naturals, FiniteSets

CONSTANT
    Groups     \* the groups of services to look at

(* nk runs "forward" and "client", nks "sshd", "server" and perhaps "proxy". *)
ASSUME GroupAssumption ==
    Groups \subseteq {{"forward", "client"}, {"sshd", "server"},
                      {"sshd", "server", "proxy"}}

Service == {"forward", "client", "sshd", "server", "proxy"}
Listeners == {"forward", "server", "proxy"}

VARIABLES
    group,      \* the services of this core
    main,       \* where the core's loop stands
    record,     \* the state it recorded last
    await,      \* the ready channels it has not set to nil
    remaining,  \* how many services are not ready yet
    ctx,        \* the context of signal.NotifyContext
    caught,     \* SIGTERM is caught: stop was not called yet
    failed,     \* the errgroup has an error
    svc,        \* svc[s]: the stage of the service s
    result,     \* result[s]: what it will return when it is closing
    ready,      \* the services whose ready channel is closed
    child,      \* the sshd process: "none", "up" or "gone"
    taken,      \* another process took the port that was free for sshd
    session,    \* the traffic client has a session
    relay,      \* an SSH connection relayed by forward: "none", "open", "cut"
    broken,     \* history: the services that failed by themselves
    first       \* history: what ended the core, and whether it was running

svcVars == <<svc, result, ready>>
mainVars == <<main, record, await, remaining>>
worldVars == <<child, taken, session, relay>>
vars == <<group, mainVars, ctx, caught, failed, svcVars, worldVars, broken, first>>

Nobody == [who |-> "none", up |-> FALSE]

(* A server without proxy closes proxyReady itself. *)
Awaited == IF "sshd" \in group THEN {"sshd", "server", "proxy"} ELSE group

Init ==
    /\ group \in Groups
    /\ main = "begin" /\ record = "none"
    /\ await = Awaited /\ remaining = Cardinality(Awaited)
    /\ ctx = "live" /\ caught = TRUE /\ failed = FALSE
    /\ svc = [s \in group |-> "starting"]
    /\ result = [s \in group |-> "nil"]
    /\ ready = Awaited \ group
    /\ child = "none" /\ taken \in BOOLEAN
    /\ session = FALSE /\ relay = "none"
    /\ broken = {} /\ first = Nobody

(* The context the services get: it ends with ctx and with the first error. *)
Done == ctx = "done" \/ failed

Blame(who) == first' = IF Done THEN first ELSE [who |-> who, up |-> record = "running"]

(***************************************************************************)
(* The service s returns.  All but the traffic server have deferred stop,  *)
(* which also gives SIGTERM its default effect back.                       *)
(***************************************************************************)
Return(s, err) ==
    /\ svc' = [svc EXCEPT ![s] = "ended"]
    /\ failed' = (failed \/ err = "error")
    /\ IF s # "server" THEN ctx' = "done" /\ caught' = FALSE ELSE UNCHANGED <<ctx, caught>>
    /\ Blame("service")
    /\ UNCHANGED <<group, mainVars, result, ready, taken, broken>>

(* It closes ready and serves. *)
BecomesReady(s) ==
    /\ svc' = [svc EXCEPT ![s] = "serving"]
    /\ ready' = ready \cup {s}
    /\ UNCHANGED <<group, mainVars, ctx, caught, failed, result, taken, relay, broken, first>>

(* It leaves its accept or serve loop with err. *)
Leave(s, err) ==
    /\ svc' = [svc EXCEPT ![s] = "closing"]
    /\ result' = [result EXCEPT ![s] = err]
    /\ UNCHANGED <<group, mainVars, ctx, caught, failed, ready, worldVars, first>>

-----------------------------------------------------------------------------
(* The listeners: SSH forwarder, traffic server, HTTP proxy.               *)

Listen(s) ==
    /\ s \in group \cap Listeners /\ svc[s] = "starting" /\ main # "begin"
    /\ BecomesReady(s)
    /\ UNCHANGED <<child, session>>

(* The port is in use, the settings cannot be read. *)
ListenFails(s) ==
    /\ s \in group \cap Listeners /\ svc[s] = "starting" /\ main # "begin"
    /\ Return(s, "error")
    /\ UNCHANGED <<child, session, relay>>

(* Accept or Serve fails; the forwarder then looks at ctx. *)
Breaks(s) ==
    /\ s \in group \cap Listeners /\ svc[s] = "serving"
    /\ Leave(s, IF s = "forward" /\ Done THEN "nil" ELSE "error")
    /\ broken' = broken \cup {s}

(* ctx is done: the listener is closed, the HTTP servers shut down. *)
Closes(s) ==
    /\ s \in group \cap Listeners /\ svc[s] = "serving" /\ Done
    /\ Leave(s, "nil")
    /\ UNCHANGED broken

ClosedForwardForgets(s) ==      \* Slip: the forwarder does not wait for its relays
    /\ s \in group \cap Listeners /\ svc[s] = "closing"
    /\ Return(s, result[s])
    /\ UNCHANGED <<child, session, relay>>

(* The forwarder waits for its relays before it returns. *)
Closed(s) ==
    /\ s \in group \cap Listeners /\ svc[s] = "closing"
    /\ s = "forward" => relay = "none"
    /\ Return(s, result[s])
    /\ UNCHANGED <<child, session, relay>>

-----------------------------------------------------------------------------
(* The traffic client.                                                     *)

Cut == relay' = IF relay = "open" THEN "cut" ELSE relay

Connects ==
    /\ "client" \in group /\ svc["client"] = "starting" /\ main # "begin"
    /\ BecomesReady("client")
    /\ session' = TRUE
    /\ UNCHANGED child

(* The session is lost; another one may follow. *)
Disconnects ==
    /\ session
    /\ session' = FALSE /\ Cut
    /\ UNCHANGED <<group, mainVars, ctx, caught, failed, svcVars, child, taken,
                   broken, first>>

Reconnects ==
    /\ "client" \in group /\ svc["client"] = "serving" /\ ~session /\ ~Done
    /\ session' = TRUE
    /\ UNCHANGED <<group, mainVars, ctx, caught, failed, svcVars, child, taken,
                   relay, broken, first>>

(***************************************************************************)
(* The address or the settings are wrong, the first session fails, or the  *)
(* retries are used up; the last two look at ctx first.                    *)
(***************************************************************************)
GivesUp ==
    /\ "client" \in group /\ svc["client"] \in {"starting", "serving"} /\ ~session
    /\ main # "begin"
    /\ \/ Return("client", IF Done THEN "nil" ELSE "error")
       \/ svc["client"] = "starting" /\ Return("client", "error")
    /\ UNCHANGED <<child, session, relay>>

ClientKeepsSession ==      \* Slip: ctx does not close the session
    /\ "client" \in group /\ svc["client"] = "serving" /\ Done
    /\ Return("client", "nil")
    /\ UNCHANGED <<child, session, relay>>

(***************************************************************************)
(* ctx is done: the session is closed, the relays in it are cut, and       *)
(* runSession has waited for the handlers of its streams, whose targets    *)
(* are taken to read (see Fairness; module TrafficSession does not).       *)
(***************************************************************************)
ClientCloses ==
    /\ "client" \in group /\ svc["client"] = "serving" /\ Done
    /\ session' = FALSE /\ Cut
    /\ Return("client", "nil")
    /\ UNCHANGED child

(* A user's SSH connection is relayed; it ends by itself or is cut. *)
RelayBegins ==
    /\ "forward" \in group /\ svc["forward"] = "serving" /\ session /\ relay = "none"
    /\ relay' = "open"
    /\ UNCHANGED <<group, mainVars, ctx, caught, failed, svcVars, child, taken,
                   session, broken, first>>

RelayQuits ==
    /\ relay = "open"
    /\ relay' = "none"
    /\ UNCHANGED <<group, mainVars, ctx, caught, failed, svcVars, child, taken,
                   session, broken, first>>

RelayEnds ==
    /\ relay = "cut"
    /\ relay' = "none"
    /\ UNCHANGED <<group, mainVars, ctx, caught, failed, svcVars, child, taken,
                   session, broken, first>>

-----------------------------------------------------------------------------
(* sshd.                                                                   *)

SshdStarts ==
    /\ "sshd" \in group /\ svc["sshd"] = "starting" /\ main # "begin" /\ ~Done
    /\ svc' = [svc EXCEPT !["sshd"] = "probing"]
    /\ child' = "up"
    /\ UNCHANGED <<group, mainVars, ctx, caught, failed, result, ready, taken,
                   session, relay, broken, first>>

(* No directory, no sshd, or ctx is done already, which is an error here too. *)
SshdStartFails ==
    /\ "sshd" \in group /\ svc["sshd"] = "starting" /\ main # "begin"
    /\ Return("sshd", "error")
    /\ UNCHANGED <<child, session, relay>>

(* The process ends by itself, as it does when its port is taken, ... *)
SshdDies ==
    /\ child = "up"
    /\ child' = "gone"
    /\ broken' = broken \cup {"sshd"}
    /\ UNCHANGED <<group, mainVars, ctx, caught, failed, svcVars, taken, session,
                   relay, first>>

(* ... or by the SIGTERM, or after WaitDelay the SIGKILL, of CommandContext. *)
SshdKilled ==
    /\ child = "up" /\ Done
    /\ child' = "gone"
    /\ UNCHANGED <<group, mainVars, ctx, caught, failed, svcVars, taken, session,
                   relay, broken, first>>

(* Something listens on the port: sshd, or the process that took it. *)
PortAnswers ==
    /\ "sshd" \in group /\ svc["sshd"] = "probing" /\ (child = "up" \/ taken)
    /\ BecomesReady("sshd")
    /\ UNCHANGED <<child, session>>

ProbeFailsKeepsChild ==      \* Slip: sshd is left behind
    /\ "sshd" \in group /\ svc["sshd"] = "probing"
    /\ Return("sshd", IF Done THEN "nil" ELSE "error")
    /\ UNCHANGED <<child, session, relay>>

(* Nothing does for three seconds, or ctx is done: sshd is stopped. *)
ProbeFails ==
    /\ "sshd" \in group /\ svc["sshd"] = "probing"
    /\ child' = "gone"
    /\ Return("sshd", IF Done THEN "nil" ELSE "error")
    /\ UNCHANGED <<session, relay>>

SshdWaitBlames ==      \* Slip: Wait's error is returned also after a stop
    /\ "sshd" \in group /\ svc["sshd"] = "serving" /\ child = "gone"
    /\ Return("sshd", "error")
    /\ UNCHANGED <<child, session, relay>>

(* cmd.Wait returns. *)
SshdWait ==
    /\ "sshd" \in group /\ svc["sshd"] = "serving" /\ child = "gone"
    /\ Return("sshd", IF Done THEN "nil" ELSE "error")
    /\ UNCHANGED <<child, session, relay>>

-----------------------------------------------------------------------------
(* The core's loop.                                                        *)

(* The services are started; nks needs a free port for sshd first. *)
Begin ==
    /\ main = "begin"
    /\ main' = "select"
    /\ UNCHANGED <<group, record, await, remaining, ctx, caught, failed, svcVars,
                   worldVars, broken, first>>

NoFreePort ==
    /\ main = "begin" /\ "sshd" \in group
    /\ main' = "exited"
    /\ UNCHANGED <<group, record, await, remaining, ctx, caught, failed, svcVars,
                   worldVars, broken, first>>

TakeReadyAgain(s) ==      \* Slip: the channel is not set to nil
    /\ main = "select" /\ s \in await \cap ready
    /\ UNCHANGED await
    /\ remaining' = remaining - 1
    /\ record' = IF remaining = 1 THEN "running" ELSE record
    /\ UNCHANGED <<group, main, ctx, caught, failed, svcVars, worldVars, broken, first>>

(* A ready channel is received from, and with the last one "running" recorded. *)
TakeReady(s) ==
    /\ main = "select" /\ s \in await \cap ready
    /\ await' = await \ {s}
    /\ remaining' = remaining - 1
    /\ record' = IF remaining = 1 THEN "running" ELSE record
    /\ UNCHANGED <<group, main, ctx, caught, failed, svcVars, worldVars, broken, first>>

TakeDone ==
    /\ main = "select" /\ Done
    /\ main' = "waiting"
    /\ UNCHANGED <<group, record, await, remaining, ctx, caught, failed, svcVars,
                   worldVars, broken, first>>

FinishNoWait ==      \* Slip: the final state is recorded before eg.Wait
    /\ main = "waiting"
    /\ main' = "exited"
    /\ record' = IF failed THEN "failed" ELSE "stopped"
    /\ UNCHANGED <<group, await, remaining, ctx, caught, failed, svcVars,
                   worldVars, broken, first>>

FinishGoesOn ==      \* Slip: the loop is not left after the final state
    /\ main = "waiting"
    /\ \A s \in group : svc[s] = "ended"
    /\ main' = "select"
    /\ record' = IF failed THEN "failed" ELSE "stopped"
    /\ UNCHANGED <<group, await, remaining, ctx, caught, failed, svcVars,
                   worldVars, broken, first>>

(* eg.Wait returns, and the final state is recorded. *)
Finish ==
    /\ main = "waiting"
    /\ \A s \in group : svc[s] = "ended"
    /\ main' = "exited"
    /\ record' = IF failed THEN "failed" ELSE "stopped"
    /\ UNCHANGED <<group, await, remaining, ctx, caught, failed, svcVars,
                   worldVars, broken, first>>

(* SIGTERM or Ctrl-C; once stop was called it kills. *)
Signal ==
    /\ main \in {"begin", "select", "waiting"}
    /\ IF caught
       THEN ctx' = "done" /\ Blame("signal") /\ UNCHANGED main
       ELSE main' = "killed" /\ UNCHANGED <<ctx, first>>
    /\ UNCHANGED <<group, record, await, remaining, caught, failed, svcVars,
                   worldVars, broken>>

-----------------------------------------------------------------------------
Live == main \notin {"exited", "killed"}

(* What the process does by itself in bounded time. *)
Progress ==
    /\ Live
    /\ \/ \E s \in Service : Listen(s) \/ Closes(s) \/ Closed(s) \/ TakeReady(s)
       \/ ClientCloses \/ RelayEnds
       \/ SshdStarts \/ SshdKilled \/ ProbeFails \/ SshdWait
       \/ Begin \/ TakeDone \/ Finish

(* What may happen to it. *)
Environment ==
    /\ Live
    /\ \/ \E s \in Service : ListenFails(s) \/ Breaks(s)
       \/ Connects \/ Disconnects \/ Reconnects \/ GivesUp
       \/ RelayBegins \/ RelayQuits
       \/ SshdStartFails \/ SshdDies \/ PortAnswers
       \/ NoFreePort \/ Signal

Next == Progress \/ Environment

Spec == Init /\ [][Next]_vars

(***************************************************************************)
(* Every goroutine that can go on does: listeners are opened and closed,   *)
(* Shutdown has its 5 seconds, sshd is killed after WaitDelay, a client    *)
(* that has no session gives up or ends when ctx is done.  This assumes    *)
(* two things of the world.  Users keep their SSH connections as long as   *)
(* they like, but take what a relay that is cut still has for them: a      *)
(* relay that waits for its user to read keeps the forwarder, and with it  *)
(* the core.  The targets of proxied streams take what is sent to them,    *)
(* too: one that does not read keeps runSession in wg.Wait, and the core   *)
(* with it ("stuck" in TrafficSession).                                    *)
(***************************************************************************)
Fairness ==
    /\ \A s \in Service : WF_vars(Live /\ (Listen(s) \/ ListenFails(s)))
    /\ \A s \in Service : WF_vars(Live /\ (Closes(s) \/ Closed(s)))
    /\ WF_vars(Live /\ Done /\ (ClientCloses \/ GivesUp))
    /\ WF_vars(Live /\ RelayEnds)
    /\ WF_vars(Live /\ (SshdStarts \/ SshdStartFails \/ ProbeFails \/ SshdWait))
    /\ WF_vars(Live /\ SshdKilled)
    /\ WF_vars(Live /\ (Begin \/ TakeDone))
    /\ WF_vars(Live /\ Finish)

FairSpec == Spec /\ Fairness

-----------------------------------------------------------------------------
(* Every variable has its type. *)
TypeOK ==
    /\ group \in Groups
    /\ main \in {"begin", "select", "waiting", "exited", "killed"}
    /\ record \in {"none", "running", "stopped", "failed"}
    /\ await \subseteq Service
    /\ remaining = Cardinality(await)
    /\ ctx \in {"live", "done"} /\ caught \in BOOLEAN /\ failed \in BOOLEAN
    /\ svc \in [group -> {"starting", "probing", "serving", "closing", "ended"}]
    /\ result \in [group -> {"nil", "error"}]
    /\ ready \subseteq Service
    /\ child \in {"none", "up", "gone"} /\ taken \in BOOLEAN
    /\ session \in BOOLEAN /\ relay \in {"none", "open", "cut"}
    /\ broken \subseteq Service
    /\ first \in [who : {"none", "signal", "service"}, up : BOOLEAN]

(***************************************************************************)
(* "running" is recorded only when every service of the core is ready, in  *)
(* whatever order the channels were closed (the loop sets a channel to nil *)
(* so that it is counted once).                                            *)
(***************************************************************************)
RunningMeansAll == record = "running" => group \subseteq ready

(***************************************************************************)
(* When the final state is in the file nothing of the core is left: every  *)
(* service has returned, nk relays no SSH connection and has no session,   *)
(* and nks has left no sshd behind (eg.Wait and what the services wait     *)
(* for).  Hijacked CONNECT requests of nks, which nobody waits for, are    *)
(* not in this module.                                                     *)
(***************************************************************************)
NothingLeft ==
    record \in {"stopped", "failed"} =>
        /\ \A s \in group : svc[s] = "ended"
        /\ relay = "none" /\ ~session
        /\ child # "up"

(***************************************************************************)
(* The final state tells how the core ended, although every service is     *)
(* ended by the first one that fails and may fail itself meanwhile: it is  *)
(* "failed" when a service was first, and "stopped" when a signal reached  *)
(* a running core and nothing broke.                                       *)
(***************************************************************************)
OutcomeTells ==
    record \in {"stopped", "failed"} =>
        /\ first.who = "service" => record = "failed"
        /\ first.who = "signal" /\ first.up /\ broken = {} => record = "stopped"

(***************************************************************************)
(* Once a signal or the end of a service has ended the context, the core   *)
(* ends: no service waits for another that waits for it, although the      *)
(* forwarder waits for relays that only the client's session can end.      *)
(***************************************************************************)
CoreEnds == Done ~> ~Live

(***************************************************************************)
(* The core implements what the commands rely on.                          *)
(***************************************************************************)
Outcome == INSTANCE CoreOutcome WITH alive <- Live

OutcomeSpec == Outcome!Spec

=============================================================================
