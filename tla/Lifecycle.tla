----------------------------- MODULE Lifecycle -----------------------------
(***************************************************************************)
(* The commands of nk and nks (cmd/nk, cmd/nks), the core processes they   *)
(* start and stop, and the state file that is all they know of each other  *)
(* (internal/states).                                                      *)
(*                                                                         *)
(* A command and a core are processes of the operating system; one action  *)
(* is what a process does to a file or to another process.  LoadState and  *)
(* the look at the process table that follows it are one action: nothing   *)
(* they read can change between them in a way the second does not notice.  *)
(* A state file that cannot be read, and one that is half written, are not *)
(* modelled; the temporary file that all writers of a name share is.       *)
(*                                                                         *)
(* An operator whose comment starts with "Slip:" is not part of the model. *)
(* It is the next operator with a plausible mistake in it, which one of    *)
(* the properties must notice.                                             *)
(***************************************************************************)
EXTENDS Naturals, FiniteSets

CONSTANTS
    Clients,       \* the names given to nk
    Cmds,          \* bound: the commands run during a behaviour
    Parallel,      \* bound: the commands that run at the same time
    MaxPid,        \* bound: the process ids cores can have
    Port,          \* the settings a core may be started with, not 0
    Reuse          \* whether the process id of a dead core is used again

ASSUME LifecycleAssumption ==
    /\ Parallel \in Nat /\ MaxPid \in Nat
    /\ Reuse \in BOOLEAN
    /\ 0 \notin Port
    /\ "nks" \notin Clients

ServerName == "nks"
Name == Clients \cup {ServerName}
Pid == 1 .. MaxPid
None == [state |-> "none"]
Record == [state : {"running", "failed", "stopped"}, pid : Pid, port : Port]

VARIABLES
    file,      \* file[n]: the state file of n, None when there is none
    temp,      \* temp[n]: the file WriteState writes before it renames it
    core,      \* core[p]: the core process with process id p
    cmd,       \* cmd[k]: the command k
    started,   \* history: started[n], the last core launched for n
    calm       \* history: no command ran beside another or gave up, no crash

vars == <<file, temp, core, cmd, started, calm>>

Init ==
    /\ file = [n \in Name |-> None]
    /\ temp = [n \in Name |-> None]
    /\ core = [p \in Pid |-> [at |-> "unborn"]]
    /\ cmd = [k \in Cmds |-> [at |-> "new"]]
    /\ started = [n \in Name |-> 0]
    /\ calm = TRUE

Alive(p) == core[p].at \notin {"unborn", "gone", "crashed"}

CheckRunning(n) == file[n].state = "running" /\ Alive(file[n].pid)

(* os.Rename installs whatever the temporary file holds, if it is there. *)
Rename(n) ==
    IF temp[n] # None
    THEN file' = [file EXCEPT ![n] = temp[n]] /\ temp' = [temp EXCEPT ![n] = None]
    ELSE UNCHANGED <<file, temp>>

-----------------------------------------------------------------------------
(***************************************************************************)
(* A core.  It is "starting" until its listeners and its session are up,   *)
(* "ready" until it wrote the temporary file, "naming" until it renamed    *)
(* it, then "running"; after its services ended it is "ending", has        *)
(* written its "final" state to the temporary file, is "leaving" when it   *)
(* renamed that, and then "gone".                                          *)
(***************************************************************************)
Holds(p) == core[p].at \in {"ready", "naming", "running"}

(* Its services are up: it got the port, which no other core holds. *)
CoreReady(p) ==
    /\ core[p].at = "starting"
    /\ \A q \in Pid : Holds(q) => core[q].port # core[p].port
    /\ core' = [core EXCEPT ![p].at = "ready"]
    /\ UNCHANGED <<file, temp, cmd, started, calm>>

(* A service failed, or the signal ended them all. *)
CoreEnds(p) ==
    /\ core[p].at \in {"starting", "running"}
    /\ core' = [core EXCEPT ![p].at = "ending",
                    ![p].final = IF core[p].signalled THEN "stopped" ELSE "failed"]
    /\ UNCHANGED <<file, temp, cmd, started, calm>>

(* The core of nks found no port for sshd, and leaves without a state. *)
CoreQuits(p) ==
    /\ core[p].at = "starting"
    /\ core[p].name = ServerName
    /\ core' = [core EXCEPT ![p].at = "gone"]
    /\ UNCHANGED <<file, temp, cmd, started, calm>>

State(p) == IF core[p].at = "ready" THEN "running" ELSE core[p].final

CoreForgets(p) ==      \* Slip: the final state lacks the settings
    /\ core[p].at \in {"ready", "ending"}
    /\ temp' = [temp EXCEPT ![core[p].name] =
                    [state |-> State(p), pid |-> p,
                     port |-> IF core[p].at = "ready" THEN core[p].port ELSE 0]]
    /\ core' = [core EXCEPT ![p].at = IF @ = "ready" THEN "naming" ELSE "final"]
    /\ UNCHANGED <<file, cmd, started, calm>>

(* WriteState, first half: the state and the settings it was started with. *)
CoreWrites(p) ==
    /\ core[p].at \in {"ready", "ending"}
    /\ temp' = [temp EXCEPT ![core[p].name] =
                    [state |-> State(p), pid |-> p, port |-> core[p].port]]
    /\ core' = [core EXCEPT ![p].at = IF @ = "ready" THEN "naming" ELSE "final"]
    /\ UNCHANGED <<file, cmd, started, calm>>

LeavesFile(p) ==      \* Slip: the final state never reaches the state file
    /\ core[p].at \in {"naming", "final"}
    /\ core' = [core EXCEPT ![p].at = IF @ = "naming" THEN "running" ELSE "leaving"]
    /\ IF core[p].at = "naming" THEN Rename(core[p].name) ELSE UNCHANGED <<file, temp>>
    /\ UNCHANGED <<cmd, started, calm>>

(* WriteState, second half. *)
CoreRenames(p) ==
    /\ core[p].at \in {"naming", "final"}
    /\ core' = [core EXCEPT ![p].at = IF @ = "naming" THEN "running" ELSE "leaving"]
    /\ Rename(core[p].name)
    /\ UNCHANGED <<cmd, started, calm>>

CoreExits(p) ==
    /\ core[p].at = "leaving"
    /\ core' = [core EXCEPT ![p].at = "gone"]
    /\ UNCHANGED <<file, temp, cmd, started, calm>>

(* A core is killed or crashes. *)
Crash(p) ==
    /\ Alive(p)
    /\ core' = [core EXCEPT ![p].at = "crashed"]
    /\ calm' = FALSE
    /\ UNCHANGED <<file, temp, cmd, started>>

CoreStep(p) ==
    \/ CoreReady(p) \/ CoreEnds(p) \/ CoreQuits(p)
    \/ CoreWrites(p) \/ CoreRenames(p) \/ CoreExits(p)
    \/ Crash(p)

-----------------------------------------------------------------------------
(* Commands.                                                               *)

UnderWay == {k \in Cmds : cmd[k].at \notin {"new", "done"}}

(* Command k begins on the name n and goes on at next, or it is done. *)
Begin(k, op, n, port, next) ==
    /\ cmd[k].at = "new"
    /\ Cardinality(UnderWay) < Parallel
    /\ cmd' = [cmd EXCEPT ![k] =
                   [at |-> next, op |-> op, name |-> n, pid |-> 0, port |-> port]]
    /\ calm' = (calm /\ UnderWay = {})
    /\ UNCHANGED <<file, temp, core, started>>

(* start launches no core beside one that is running. *)
StartUnseen(k, n, port) ==      \* Slip: start does not look
    Begin(k, "start", n, port, "launch")

Start(k, n, port) ==
    Begin(k, "start", n, port, IF CheckRunning(n) THEN "done" ELSE "launch")

StartClient(k, n, port) == n # ServerName /\ Start(k, n, port)
StartServer(k, port) == Start(k, ServerName, port)

StopCmd(k, n) == Begin(k, "stop", n, 0, "load")

(* restart reads the settings of the last start, then calls Stop. *)
Restart(k, n) ==
    /\ file[n] # None
    /\ Begin(k, "restart", n, file[n].port, "load")

(* clear refuses a running client. *)
Clear(k, n) ==
    /\ file[n] # None
    /\ Begin(k, "clear", n, 0, IF CheckRunning(n) THEN "done" ELSE "clear")

(* A command goes on at next. *)
GoOn(k, next) == cmd' = [cmd EXCEPT ![k].at = next]

(* Stop returns without an error, or with ErrNotRunning: restart goes on. *)
StopReturns(k) == GoOn(k, IF cmd[k].op = "restart" THEN "launch" ELSE "done")

StopLoad(k) ==
    LET n == cmd[k].name
    IN  /\ cmd[k].at = "load"
        /\ IF CheckRunning(n)
           THEN cmd' = [cmd EXCEPT ![k].at = "signal", ![k].pid = file[n].pid]
           ELSE IF file[n] = None THEN GoOn(k, "done") ELSE StopReturns(k)
        /\ UNCHANGED <<file, temp, core, started, calm>>

(* TerminateProcess, an error if the process is gone by now. *)
Signal(k) ==
    LET p == cmd[k].pid
    IN  /\ cmd[k].at = "signal"
        /\ IF Alive(p)
           THEN core' = [core EXCEPT ![p].signalled = TRUE] /\ GoOn(k, "wait")
           ELSE GoOn(k, "done") /\ UNCHANGED core
        /\ UNCHANGED <<file, temp, started, calm>>

WaitNot(k) ==      \* Slip: the signal is taken for the end
    /\ cmd[k].at = "wait"
    /\ GoOn(k, "mark")
    /\ UNCHANGED <<file, temp, core, started, calm>>

(* The process ended in time, ... *)
Wait(k) ==
    /\ cmd[k].at = "wait"
    /\ ~Alive(cmd[k].pid)
    /\ GoOn(k, "mark")
    /\ UNCHANGED <<file, temp, core, started, calm>>

(* ... or it did not. *)
WaitTooLong(k) ==
    /\ cmd[k].at = "wait"
    /\ Alive(cmd[k].pid)
    /\ GoOn(k, "done")
    /\ UNCHANGED <<file, temp, core, started, calm>>

(* A core that could not write its final state left a running one behind. *)
Mark(k) ==
    LET n == cmd[k].name
    IN  /\ cmd[k].at = "mark"
        /\ IF file[n].state = "running" /\ file[n].pid = cmd[k].pid
           THEN /\ temp' = [temp EXCEPT ![n] = [file[n] EXCEPT !.state = "stopped"]]
                /\ GoOn(k, "rename")
           ELSE StopReturns(k) /\ UNCHANGED temp
        /\ UNCHANGED <<file, core, started, calm>>

MarkRename(k) ==
    /\ cmd[k].at = "rename"
    /\ Rename(cmd[k].name)
    /\ IF temp[cmd[k].name] # None THEN StopReturns(k) ELSE GoOn(k, "done")
    /\ UNCHANGED <<core, started, calm>>

(* A process id for a new core. *)
Unused(p) ==
    \/ core[p].at = "unborn" /\ \A q \in 1 .. (p - 1) : core[q].at # "unborn"
    \/ Reuse /\ core[p].at \in {"gone", "crashed"}

(* launchClient starts the core in the background ... *)
Launch(k, p) ==
    LET n == cmd[k].name
    IN  /\ cmd[k].at = "launch"
        /\ Unused(p)
        /\ core' = [core EXCEPT ![p] = [at |-> "starting", name |-> n,
                        port |-> cmd[k].port, signalled |-> FALSE, final |-> "failed"]]
        /\ cmd' = [cmd EXCEPT ![k].at = "poll", ![k].pid = p]
        /\ started' = [started EXCEPT ![n] = cmd[k].port]
        /\ UNCHANGED <<file, temp, calm>>

(* ... until the state file tells how that went, ... *)
Poll(k) ==
    LET n == cmd[k].name
    IN  /\ cmd[k].at = "poll"
        /\ file[n] # None
        /\ file[n].pid = cmd[k].pid
        /\ file[n].state \in {"running", "failed"}
        /\ GoOn(k, "done")
        /\ UNCHANGED <<file, temp, core, started, calm>>

(* ... the timer expires, or the user presses Ctrl-C. *)
PollEnds(k) ==
    /\ cmd[k].at = "poll"
    /\ GoOn(k, "done")
    /\ calm' = (calm /\ ~Alive(cmd[k].pid))
    /\ UNCHANGED <<file, temp, core, started>>

(* ClearState, and the logs. *)
ClearFiles(k) ==
    /\ cmd[k].at = "clear"
    /\ file' = [file EXCEPT ![cmd[k].name] = None]
    /\ GoOn(k, "done")
    /\ UNCHANGED <<temp, core, started, calm>>

CmdStep(k) ==
    \/ \E n \in Clients : Restart(k, n) \/ Clear(k, n)
                            \/ \E port \in Port : StartClient(k, n, port)
    \/ \E port \in Port : StartServer(k, port)
    \/ \E n \in Name : StopCmd(k, n)
    \/ StopLoad(k) \/ Signal(k) \/ Wait(k) \/ WaitTooLong(k)
    \/ Mark(k) \/ MarkRename(k)
    \/ \E p \in Pid : Launch(k, p)
    \/ Poll(k) \/ PollEnds(k)
    \/ ClearFiles(k)

Next == (\E k \in Cmds : CmdStep(k)) \/ (\E p \in Pid : CoreStep(p))

Spec == Init /\ [][Next]_vars

-----------------------------------------------------------------------------
(* Properties.                                                             *)

CoreType ==
    [at : {"starting", "ready", "naming", "running", "ending", "final",
           "leaving", "gone", "crashed"},
     name : Name, port : Port, signalled : BOOLEAN, final : {"failed", "stopped"}]

CmdType ==
    [at : {"done", "load", "signal", "wait", "mark", "rename", "launch", "poll",
           "clear"},
     op : {"start", "stop", "restart", "clear"}, name : Name,
     pid : Pid \cup {0}, port : Port \cup {0}]

(* Every variable has its type. *)
TypeOK ==
    /\ file \in [Name -> Record \cup {None}]
    /\ temp \in [Name -> Record \cup {None}]
    /\ core \in [Pid -> CoreType \cup {[at |-> "unborn"]}]
    /\ cmd \in [Cmds -> CmdType \cup {[at |-> "new"]}]
    /\ started \in [Name -> Port \cup {0}]
    /\ calm \in BOOLEAN

(***************************************************************************)
(* As long as commands are run one after the other, none of them is given  *)
(* up and no core crashes, the state file of a name tells of its running   *)
(* core, so that stop, status and clear find it (core, launchClient).      *)
(***************************************************************************)
Recorded ==
    calm => \A p \in Pid : core[p].at = "running" =>
        file[core[p].name] = [state |-> "running", pid |-> p, port |-> core[p].port]

(* In such a run a name never has two cores at work (start, restart). *)
AtWork(n) == {p \in Pid : Alive(p) /\ core[p].at # "leaving" /\ core[p].name = n}

OneCore == calm => \A n \in Name : Cardinality(AtWork(n)) <= 1

(***************************************************************************)
(* Whatever commands overlap, a state file says "running" of a core that   *)
(* is gone only if that core crashed: its final state is never the one     *)
(* that gets lost when two writers share the temporary file (WriteState).  *)
(***************************************************************************)
GoneNotRunning ==
    \A n \in Name : file[n].state = "running" =>
        Alive(file[n].pid) \/ core[file[n].pid].at = "crashed"

(***************************************************************************)
(* restart uses "the settings saved from its last start" (its help): the   *)
(* core it is about to launch gets what the last one was launched with.    *)
(***************************************************************************)
RestartsAlike ==
    calm => \A k \in Cmds :
        cmd[k].at = "launch" /\ cmd[k].op = "restart"
            => cmd[k].port = started[cmd[k].name]

(***************************************************************************)
(* When Stop returns without an error, the process it signalled has ended  *)
(* and the state file does not say that it runs.                           *)
(***************************************************************************)
StopStops ==
    [][\A k \in Cmds :
           cmd[k].at \in {"mark", "rename"} /\ cmd'[k].at \in {"done", "launch"} =>
               /\ ~Alive(cmd[k].pid)
               /\ file'[cmd[k].name].state = "running"
                      => file'[cmd[k].name].pid # cmd[k].pid]_vars

(***************************************************************************)
(* "A running client is refused" (the help of clear): the state that clear *)
(* removes is not that of a running client.                                *)
(***************************************************************************)
ClearRefusesRunning ==
    [][\A n \in Name : file[n] # None /\ file'[n] = None => ~CheckRunning(n)]_vars

(***************************************************************************)
(* Stop "asks the core process recorded under name to shut down" (its      *)
(* comment): no core is signalled but those of the name.                   *)
(***************************************************************************)
StopsItsOwn ==
    [][\A k \in Cmds : cmd[k].at = "signal" /\ cmd'[k].at = "wait" =>
           core[cmd[k].pid].name = cmd[k].name]_vars

=============================================================================
