-------------------------- MODULE Lifecycle_proofs --------------------------
(***************************************************************************)
(* Theorems about Lifecycle: what a state file tells of a core, and what a *)
(* user may rely on who runs one command after the other.                  *)
(***************************************************************************)
EXTENDS Lifecycle, FiniteSetTheorems, TLAPS

-----------------------------------------------------------------------------
(***************************************************************************)
(* The inductive invariant, in three layers.  The first needs nothing: the *)
(* types, the process ids and the settings a command has when it needs     *)
(* them, and that records are about cores that were launched.              *)
(***************************************************************************)
Born(p) == core[p].at # "unborn"

Equipped ==
    \A k \in Cmds :
        /\ cmd[k].at \in {"signal", "wait", "mark", "rename", "poll"} =>
               cmd[k].pid \in Pid /\ Born(cmd[k].pid)
        /\ cmd[k].at = "launch" => cmd[k].op \in {"start", "restart"}
        /\ cmd[k].at # "new" /\ cmd[k].op \in {"start", "restart"} => cmd[k].port \in Port

AboutBorn ==
    \A n \in Name :
        /\ file[n] # None => Born(file[n].pid)
        /\ temp[n] # None => Born(temp[n].pid)

TypeInv == TypeOK /\ Equipped /\ AboutBorn

(***************************************************************************)
(* The second is for cores whose process ids are not used again.  A core   *)
(* that is being recorded as running is in the temporary file until it has *)
(* renamed that; a recorded one leaves the state file before it is gone,   *)
(* because its final state is in the temporary file, or was and has been   *)
(* renamed by another writer.  Nobody who has ended comes back behind the  *)
(* command that stopped it.                                                *)
(***************************************************************************)
RunningOf(r, p) == r.state = "running" /\ r.pid = p

Temps ==
    \A n \in Name, p \in Pid :
        RunningOf(temp[n], p) => core[p].name = n /\ core[p].at \in {"naming", "crashed"}

Files ==
    \A n \in Name, p \in Pid :
        RunningOf(file[n], p) =>
            /\ core[p].name = n
            /\ \/ core[p].at \in {"naming", "running", "ending", "crashed"}
               \/ core[p].at = "final" /\ temp[n] # None

Stopping ==
    \A k \in Cmds :
        LET n == cmd[k].name
            p == cmd[k].pid
        IN  /\ cmd[k].at \in {"mark", "rename"} => ~Alive(p)
            /\ cmd[k].at = "rename" =>
                   ~RunningOf(temp[n], p) /\ (temp[n] = None => ~RunningOf(file[n], p))

FileInv == TypeInv /\ Temps /\ Files /\ Stopping

(***************************************************************************)
(* The third is for a user who runs one command after the other: a core at *)
(* work is recorded, or the command that launched it waits for that.       *)
(***************************************************************************)
Working(p) == Alive(p) /\ core[p].at # "leaving"

Known(p) ==
    \/ RunningOf(file[core[p].name], p)
    \/ \E k \in Cmds : cmd[k].at = "poll" /\ cmd[k].pid = p

OneAtATime == \A k, l \in UnderWay : k = l

(* What a core has written is where it wrote it. *)
Written ==
    \A p \in Pid :
        LET n == core[p].name
            c == core[p]
        IN  /\ c.at # "crashed"
            /\ c.at = "naming" => temp[n] = [state |-> "running", pid |-> p, port |-> c.port]
            /\ c.at = "final" => temp[n] = [state |-> c.final, pid |-> p, port |-> c.port]
            /\ c.at = "running" => file[n] = [state |-> "running", pid |-> p, port |-> c.port]

Alone ==
    \A p \in Pid : Working(p) =>
        /\ Known(p)
        /\ core[p].port = started[core[p].name]
        /\ \A q \in Pid : Working(q) /\ core[q].name = core[p].name => q = p

(* A final state in the state file is that of a core which is not at work. *)
Over ==
    \A n \in Name :
        file[n] # None /\ file[n].state # "running" => ~Working(file[n].pid)

(* What restart will read. *)
Saved(n) == file[n] # None => file[n].port = started[n]

Restartable ==
    \A n \in Clients :
        Saved(n) \/ \E p \in Pid : Working(p) /\ core[p].name = n /\ ~RunningOf(file[n], p)

(* What a command that is under way may count on. *)
InCharge ==
    \A k \in Cmds :
        LET n == cmd[k].name
        IN  /\ cmd[k].at # "rename"
            /\ cmd[k].at \in {"launch", "clear", "mark"} => AtWork(n) = {}
            /\ cmd[k].at \in {"signal", "wait"} => AtWork(n) \subseteq {cmd[k].pid}
            /\ cmd[k].at \in {"load", "signal", "wait", "mark", "launch"} /\ cmd[k].op = "restart" =>
                   n \in Clients /\ cmd[k].port = started[n]

Orderly ==
    OneAtATime /\ Written /\ Alone /\ Over /\ Restartable /\ InCharge

LifeInv == FileInv /\ (calm => Orderly)

-----------------------------------------------------------------------------
(* What the commands have in common when they begin.                       *)
Begun(k) ==
    \E op \in {"start", "stop", "restart", "clear"}, n \in Name,
       port \in Port \cup {0}, next \in {"done", "launch", "load", "clear"} :
        /\ Begin(k, op, n, port, next)
        /\ next = "launch" => op = "start" /\ ~CheckRunning(n)
        /\ next = "load" => op \in {"stop", "restart"}
        /\ next = "clear" => op = "clear" /\ ~CheckRunning(n)
        /\ op \in {"start", "restart"} => port \in Port
        /\ op = "restart" => n \in Clients /\ file[n] # None /\ port = file[n].port

LEMMA NoneIs == None.state = "none" /\ None \notin Record
BY DEF None, Record

(* A state file is None, or a record of a core that was launched. *)
LEMMA RecordOf ==
    ASSUME TypeInv, NEW n \in Name
    PROVE  /\ file[n] # None => file[n] \in Record /\ file[n].pid \in Pid /\ Born(file[n].pid)
           /\ temp[n] # None => temp[n] \in Record /\ temp[n].pid \in Pid /\ Born(temp[n].pid)
           /\ file[n] = None => file[n].state = "none"
           /\ temp[n] = None => temp[n].state = "none"
BY NoneIs DEF TypeInv, TypeOK, AboutBorn, Record

LEMMA BornType ==
    ASSUME TypeOK, NEW p \in Pid, Born(p)
    PROVE  core[p] \in CoreType
BY DEF TypeOK, Born

LEMMA AskedType ==
    ASSUME TypeOK, NEW k \in Cmds, cmd[k].at # "new"
    PROVE  cmd[k] \in CmdType
BY DEF TypeOK

LEMMA WhoBegins ==
    ASSUME TypeInv, NEW k \in Cmds,
           \/ \E n \in Clients : Restart(k, n) \/ Clear(k, n)
                                   \/ \E port \in Port : StartClient(k, n, port)
           \/ \E port \in Port : StartServer(k, port)
           \/ \E n \in Name : StopCmd(k, n)
    PROVE  Begun(k)
<1>1. ASSUME NEW n \in Clients, Restart(k, n)
      PROVE  Begun(k)
  <2>1. n \in Name /\ file[n].port \in Port
    BY <1>1, RecordOf DEF Restart, Name, Record
  <2>2. Begin(k, "restart", n, file[n].port, "load") /\ file[n] # None
    BY <1>1 DEF Restart
  <2> QED
    BY <1>1, <2>1, <2>2 DEF Begun
<1>2. ASSUME NEW n \in Clients, Clear(k, n)
      PROVE  Begun(k)
  <2>1. n \in Name
    BY DEF Name
  <2>2. Begin(k, "clear", n, 0, IF CheckRunning(n) THEN "done" ELSE "clear")
    BY <1>2 DEF Clear
  <2>3. CASE CheckRunning(n)
    BY <2>1, <2>2, <2>3 DEF Begun
  <2>4. CASE ~CheckRunning(n)
    BY <2>1, <2>2, <2>4 DEF Begun
  <2> QED
    BY <2>3, <2>4
<1>3. ASSUME NEW n \in Name, NEW port \in Port, Start(k, n, port)
      PROVE  Begun(k)
  <2>1. Begin(k, "start", n, port, IF CheckRunning(n) THEN "done" ELSE "launch")
    BY <1>3 DEF Start
  <2>2. CASE CheckRunning(n)
    BY <2>1, <2>2 DEF Begun
  <2>3. CASE ~CheckRunning(n)
    BY <2>1, <2>3 DEF Begun
  <2> QED
    BY <2>2, <2>3
<1>4. ASSUME NEW n \in Name, StopCmd(k, n)
      PROVE  Begun(k)
  <2>1. Begin(k, "stop", n, 0, "load")
    BY <1>4 DEF StopCmd
  <2> QED
    BY <2>1 DEF Begun
<1> QED
  BY <1>1, <1>2, <1>3, <1>4 DEF StartClient, StartServer, Name

-----------------------------------------------------------------------------
(* What a step changes of a core and of a command, field by field.         *)
Moves(p, a) ==
    /\ core'[p].at = a
    /\ core'[p].name = core[p].name
    /\ core'[p].port = core[p].port
    /\ core'[p].signalled = core[p].signalled
    /\ core'[p].final = core[p].final
    /\ \A q \in Pid : q # p => core'[q] = core[q]

Goes(k, next) ==
    /\ cmd'[k].at = next
    /\ cmd'[k].op = cmd[k].op
    /\ cmd'[k].name = cmd[k].name
    /\ cmd'[k].pid = cmd[k].pid
    /\ cmd'[k].port = cmd[k].port
    /\ \A l \in Cmds : l # k => cmd'[l] = cmd[l]

LEMMA Moved ==
    ASSUME TypeOK, NEW p \in Pid, Born(p), NEW a, core' = [core EXCEPT ![p].at = a]
    PROVE  Moves(p, a)
<1>1. core[p] \in CoreType
  BY BornType
<1> QED
  BY <1>1 DEF Moves, TypeOK, CoreType

LEMMA WentOn ==
    ASSUME TypeOK, NEW k \in Cmds, cmd[k].at # "new", NEW next, GoOn(k, next)
    PROVE  Goes(k, next)
<1>1. cmd[k] \in CmdType
  BY AskedType
<1> QED
  BY <1>1 DEF Goes, GoOn, TypeOK, CmdType

LEMMA BegunDoes ==
    ASSUME TypeOK, NEW k \in Cmds, Begun(k)
    PROVE  /\ cmd[k].at = "new"
           /\ cmd'[k].op \in {"start", "stop", "restart", "clear"}
           /\ cmd'[k].name \in Name
           /\ cmd'[k].at \in {"done", "launch", "load", "clear"}
           /\ cmd'[k].at = "launch" => cmd'[k].op = "start" /\ ~CheckRunning(cmd'[k].name)
           /\ cmd'[k].at = "load" => cmd'[k].op \in {"stop", "restart"}
           /\ cmd'[k].at = "clear" => ~CheckRunning(cmd'[k].name)
           /\ cmd'[k].op \in {"start", "restart"} => cmd'[k].port \in Port
           /\ cmd'[k].op = "restart" =>
                 /\ cmd'[k].name \in Clients
                 /\ file[cmd'[k].name] # None
                 /\ cmd'[k].port = file[cmd'[k].name].port
           /\ \A l \in Cmds : l # k => cmd'[l] = cmd[l]
           /\ calm' = (calm /\ UnderWay = {})
           /\ UNCHANGED <<file, temp, core, started>>
<1>1. PICK op \in {"start", "stop", "restart", "clear"}, n \in Name,
           port \in Port \cup {0}, next \in {"done", "launch", "load", "clear"} :
        /\ Begin(k, op, n, port, next)
        /\ next = "launch" => op = "start" /\ ~CheckRunning(n)
        /\ next = "load" => op \in {"stop", "restart"}
        /\ next = "clear" => op = "clear" /\ ~CheckRunning(n)
        /\ op \in {"start", "restart"} => port \in Port
        /\ op = "restart" => n \in Clients /\ file[n] # None /\ port = file[n].port
  BY DEF Begun
<1>2. cmd'[k] = [at |-> next, op |-> op, name |-> n, pid |-> 0, port |-> port]
  BY <1>1 DEF Begin, TypeOK
<1>3. cmd'[k].at = next /\ cmd'[k].op = op /\ cmd'[k].name = n /\ cmd'[k].port = port
  BY <1>2
<1>4. /\ cmd[k].at = "new"
      /\ \A l \in Cmds : l # k => cmd'[l] = cmd[l]
      /\ calm' = (calm /\ UnderWay = {})
      /\ UNCHANGED <<file, temp, core, started>>
  BY <1>1 DEF Begin, TypeOK
<1> QED
  BY <1>1, <1>3, <1>4

LEMMA StopLoadDoes ==
    ASSUME TypeInv, NEW k \in Cmds, StopLoad(k)
    PROVE  /\ cmd[k].at = "load"
           /\ cmd[k].name \in Name
           /\ CheckRunning(cmd[k].name) =>
                 /\ file[cmd[k].name] # None
                 /\ file[cmd[k].name].pid \in Pid
                 /\ cmd'[k].at = "signal"
                 /\ cmd'[k].pid = file[cmd[k].name].pid
           /\ ~CheckRunning(cmd[k].name) =>
                 /\ cmd'[k].pid = cmd[k].pid
                 /\ cmd'[k].at = IF file[cmd[k].name] # None /\ cmd[k].op = "restart"
                                 THEN "launch" ELSE "done"
           /\ cmd'[k].op = cmd[k].op
           /\ cmd'[k].name = cmd[k].name
           /\ cmd'[k].port = cmd[k].port
           /\ \A l \in Cmds : l # k => cmd'[l] = cmd[l]
           /\ UNCHANGED <<file, temp, core, started, calm>>
<1>1. cmd[k].at = "load" /\ UNCHANGED <<file, temp, core, started, calm>>
  BY DEF StopLoad
<1>2. cmd[k] \in CmdType
  BY <1>1, AskedType DEF TypeInv
<1>3. cmd[k].name \in Name
  BY <1>2 DEF CmdType
<1>4. CASE CheckRunning(cmd[k].name)
  <2>1. file[cmd[k].name] # None /\ file[cmd[k].name].pid \in Pid
    BY <1>3, <1>4, RecordOf DEF CheckRunning
  <2>2. cmd' = [cmd EXCEPT ![k].at = "signal", ![k].pid = file[cmd[k].name].pid]
    BY <1>4 DEF StopLoad
  <2> QED
    BY <1>1, <1>2, <1>3, <1>4, <2>1, <2>2 DEF TypeInv, TypeOK, CmdType
<1>5. CASE ~CheckRunning(cmd[k].name)
  <2>1. GoOn(k, IF file[cmd[k].name] # None /\ cmd[k].op = "restart" THEN "launch" ELSE "done")
    BY <1>5 DEF StopLoad, StopReturns, GoOn
  <2>2. Goes(k, IF file[cmd[k].name] # None /\ cmd[k].op = "restart" THEN "launch" ELSE "done")
    BY <1>1, <2>1, WentOn DEF TypeInv
  <2> QED
    BY <1>1, <1>3, <1>5, <2>2 DEF Goes
<1> QED
  BY <1>4, <1>5

LEMMA SignalDoes ==
    ASSUME TypeInv, NEW k \in Cmds, Signal(k)
    PROVE  /\ cmd[k].at = "signal"
           /\ cmd[k].pid \in Pid
           /\ Goes(k, IF Alive(cmd[k].pid) THEN "wait" ELSE "done")
           /\ \A q \in Pid : /\ core'[q].at = core[q].at
                             /\ core'[q].name = core[q].name
                             /\ core'[q].port = core[q].port
                             /\ core'[q].final = core[q].final
           /\ UNCHANGED <<file, temp, started, calm>>
<1>1. cmd[k].at = "signal" /\ UNCHANGED <<file, temp, started, calm>>
  BY DEF Signal
<1>2. cmd[k].pid \in Pid /\ core[cmd[k].pid] \in CoreType
  BY <1>1, BornType DEF TypeInv, Equipped
<1>3. GoOn(k, IF Alive(cmd[k].pid) THEN "wait" ELSE "done")
  BY DEF Signal, GoOn
<1>4. Goes(k, IF Alive(cmd[k].pid) THEN "wait" ELSE "done")
  BY <1>1, <1>3, WentOn DEF TypeInv
<1>5. core' = [core EXCEPT ![cmd[k].pid].signalled = TRUE] \/ core' = core
  BY DEF Signal
<1>6. \A q \in Pid : /\ core'[q].at = core[q].at
                     /\ core'[q].name = core[q].name
                     /\ core'[q].port = core[q].port
                     /\ core'[q].final = core[q].final
  BY <1>2, <1>5 DEF TypeInv, TypeOK, CoreType
<1> QED
  BY <1>1, <1>2, <1>4, <1>6

(* What StopReturns makes of it. *)
LEMMA Returned ==
    ASSUME TypeOK, NEW k \in Cmds, cmd[k].at # "new", StopReturns(k)
    PROVE  Goes(k, IF cmd[k].op = "restart" THEN "launch" ELSE "done")
BY WentOn DEF StopReturns

LEMMA MarkDoes ==
    ASSUME TypeInv, NEW k \in Cmds, Mark(k)
    PROVE  /\ cmd[k].at = "mark"
           /\ cmd[k].name \in Name
           /\ UNCHANGED <<file, core, started, calm>>
           /\ \/ /\ RunningOf(file[cmd[k].name], cmd[k].pid)
                 /\ \A n \in Name : n # cmd[k].name => temp'[n] = temp[n]
                 /\ temp'[cmd[k].name] # None
                 /\ temp'[cmd[k].name].state = "stopped"
                 /\ temp'[cmd[k].name].pid = cmd[k].pid
                 /\ Goes(k, "rename")
              \/ /\ ~RunningOf(file[cmd[k].name], cmd[k].pid)
                 /\ temp' = temp
                 /\ Goes(k, IF cmd[k].op = "restart" THEN "launch" ELSE "done")
<1>1. cmd[k].at = "mark" /\ UNCHANGED <<file, core, started, calm>>
  BY DEF Mark
<1>2. cmd[k].name \in Name
  BY <1>1, AskedType DEF TypeInv, CmdType
<1>3. CASE RunningOf(file[cmd[k].name], cmd[k].pid)
  <2>1. temp' = [temp EXCEPT ![cmd[k].name] = [file[cmd[k].name] EXCEPT !.state = "stopped"]]
    BY <1>3 DEF Mark, RunningOf
  <2>2. Goes(k, "rename")
    BY <1>1, <1>3, WentOn DEF TypeInv, Mark, RunningOf
  <2>3. file[cmd[k].name] \in Record
    BY <1>2, <1>3, RecordOf DEF RunningOf
  <2>4. temp'[cmd[k].name] \in Record
    BY <1>2, <2>1, <2>3 DEF TypeInv, TypeOK, Record
  <2>5. temp'[cmd[k].name].state = "stopped" /\ temp'[cmd[k].name].pid = cmd[k].pid
    BY <1>2, <1>3, <2>1, <2>3 DEF TypeInv, TypeOK, Record, RunningOf
  <2>6. \A n \in Name : n # cmd[k].name => temp'[n] = temp[n]
    BY <2>1 DEF TypeInv, TypeOK
  <2> QED
    BY <1>1, <1>2, <1>3, <2>2, <2>4, <2>5, <2>6, NoneIs
<1>4. CASE ~RunningOf(file[cmd[k].name], cmd[k].pid)
  BY <1>1, <1>2, <1>4, Returned DEF TypeInv, Mark, RunningOf
<1> QED
  BY <1>3, <1>4

(* What os.Rename does to the files of a name. *)
LEMMA Renamed ==
    ASSUME TypeInv, NEW n \in Name, Rename(n)
    PROVE  /\ \A m \in Name : m # n => file'[m] = file[m] /\ temp'[m] = temp[m]
           /\ temp'[n] = None
           /\ file'[n] = IF temp[n] # None THEN temp[n] ELSE file[n]
BY DEF TypeInv, TypeOK, Rename

LEMMA MarkRenameDoes ==
    ASSUME TypeInv, NEW k \in Cmds, MarkRename(k)
    PROVE  /\ cmd[k].at = "rename"
           /\ cmd[k].name \in Name
           /\ Rename(cmd[k].name)
           /\ Goes(k, IF temp[cmd[k].name] # None /\ cmd[k].op = "restart" THEN "launch" ELSE "done")
           /\ UNCHANGED <<core, started, calm>>
<1>1. cmd[k].at = "rename" /\ Rename(cmd[k].name) /\ UNCHANGED <<core, started, calm>>
  BY DEF MarkRename
<1>2. cmd[k].name \in Name
  BY <1>1, AskedType DEF TypeInv, CmdType
<1>3. GoOn(k, IF temp[cmd[k].name] # None /\ cmd[k].op = "restart" THEN "launch" ELSE "done")
  BY DEF MarkRename, StopReturns, GoOn
<1> QED
  BY <1>1, <1>2, <1>3, WentOn DEF TypeInv

LEMMA LaunchDoes ==
    ASSUME TypeInv, NEW k \in Cmds, NEW p \in Pid, Launch(k, p)
    PROVE  /\ cmd[k].at = "launch"
           /\ cmd[k].name \in Name
           /\ Unused(p)
           /\ core'[p].at = "starting"
           /\ core'[p].name = cmd[k].name
           /\ core'[p].port = cmd[k].port
           /\ \A q \in Pid : q # p => core'[q] = core[q]
           /\ cmd'[k].at = "poll"
           /\ cmd'[k].pid = p
           /\ cmd'[k].op = cmd[k].op
           /\ cmd'[k].name = cmd[k].name
           /\ cmd'[k].port = cmd[k].port
           /\ \A l \in Cmds : l # k => cmd'[l] = cmd[l]
           /\ started'[cmd[k].name] = cmd[k].port
           /\ \A n \in Name : n # cmd[k].name => started'[n] = started[n]
           /\ UNCHANGED <<file, temp, calm>>
<1>1. cmd[k].at = "launch" /\ Unused(p) /\ UNCHANGED <<file, temp, calm>>
  BY DEF Launch
<1>2. cmd[k] \in CmdType
  BY <1>1, AskedType DEF TypeInv
<1>3. cmd[k].name \in Name
  BY <1>2 DEF CmdType
<1>4. core' = [core EXCEPT ![p] = [at |-> "starting", name |-> cmd[k].name,
                 port |-> cmd[k].port, signalled |-> FALSE, final |-> "failed"]]
  BY DEF Launch
<1>5. /\ core'[p].at = "starting"
      /\ core'[p].name = cmd[k].name
      /\ core'[p].port = cmd[k].port
      /\ \A q \in Pid : q # p => core'[q] = core[q]
  BY <1>4 DEF TypeInv, TypeOK
<1>6. cmd' = [cmd EXCEPT ![k].at = "poll", ![k].pid = p]
  BY DEF Launch
<1>7. /\ cmd'[k].at = "poll"
      /\ cmd'[k].pid = p
      /\ cmd'[k].op = cmd[k].op
      /\ cmd'[k].name = cmd[k].name
      /\ cmd'[k].port = cmd[k].port
      /\ \A l \in Cmds : l # k => cmd'[l] = cmd[l]
  BY <1>2, <1>6 DEF TypeInv, TypeOK, CmdType
<1>8. /\ started'[cmd[k].name] = cmd[k].port
      /\ \A n \in Name : n # cmd[k].name => started'[n] = started[n]
  BY <1>3 DEF TypeInv, TypeOK, Launch
<1> QED
  BY <1>1, <1>3, <1>5, <1>7, <1>8

LEMMA ClearDoes ==
    ASSUME TypeInv, NEW k \in Cmds, ClearFiles(k)
    PROVE  /\ cmd[k].at = "clear"
           /\ cmd[k].name \in Name
           /\ file'[cmd[k].name] = None
           /\ \A n \in Name : n # cmd[k].name => file'[n] = file[n]
           /\ Goes(k, "done")
           /\ UNCHANGED <<temp, core, started, calm>>
<1>1. cmd[k].at = "clear" /\ UNCHANGED <<temp, core, started, calm>>
  BY DEF ClearFiles
<1>2. cmd[k].name \in Name
  BY <1>1, AskedType DEF TypeInv, CmdType
<1>3. Goes(k, "done")
  BY <1>1, WentOn DEF TypeInv, ClearFiles
<1> QED
  BY <1>1, <1>2, <1>3 DEF TypeInv, TypeOK, ClearFiles

LEMMA EndsDoes ==
    ASSUME TypeInv, NEW p \in Pid, CoreEnds(p)
    PROVE  /\ core[p].at \in {"starting", "running"}
           /\ core'[p].at = "ending"
           /\ core'[p].name = core[p].name
           /\ core'[p].port = core[p].port
           /\ \A q \in Pid : q # p => core'[q] = core[q]
           /\ UNCHANGED <<file, temp, cmd, started, calm>>
<1>1. core[p].at \in {"starting", "running"} /\ UNCHANGED <<file, temp, cmd, started, calm>>
  BY DEF CoreEnds
<1>2. core[p] \in CoreType
  BY <1>1, BornType DEF TypeInv, Born
<1>3. PICK r : core' = [core EXCEPT ![p].at = "ending", ![p].final = r]
  BY DEF CoreEnds
<1> QED
  BY <1>1, <1>2, <1>3 DEF TypeInv, TypeOK, CoreType

LEMMA WritesDoes ==
    ASSUME TypeInv, NEW p \in Pid, CoreWrites(p)
    PROVE  /\ core[p].at \in {"ready", "ending"}
           /\ core[p].name \in Name
           /\ Moves(p, IF core[p].at = "ready" THEN "naming" ELSE "final")
           /\ temp'[core[p].name].state = IF core[p].at = "ready" THEN "running" ELSE core[p].final
           /\ temp'[core[p].name].pid = p
           /\ temp'[core[p].name] # None
           /\ core[p].final \in {"failed", "stopped"}
           /\ \A n \in Name : n # core[p].name => temp'[n] = temp[n]
           /\ UNCHANGED <<file, cmd, started, calm>>
<1>1. core[p].at \in {"ready", "ending"} /\ UNCHANGED <<file, cmd, started, calm>>
  BY DEF CoreWrites
<1>2. core[p] \in CoreType
  BY <1>1, BornType DEF TypeInv, Born
<1>3. core[p].name \in Name /\ core[p].final \in {"failed", "stopped"} /\ core[p].port \in Port
  BY <1>2 DEF CoreType
<1>4. core' = [core EXCEPT ![p].at = IF core[p].at = "ready" THEN "naming" ELSE "final"]
  BY DEF CoreWrites
<1>5. Moves(p, IF core[p].at = "ready" THEN "naming" ELSE "final")
  BY <1>1, <1>4, Moved DEF TypeInv, Born
<1>6. temp' = [temp EXCEPT ![core[p].name] =
                [state |-> IF core[p].at = "ready" THEN "running" ELSE core[p].final,
                 pid |-> p, port |-> core[p].port]]
  BY DEF CoreWrites, State
<1>7. [state |-> IF core[p].at = "ready" THEN "running" ELSE core[p].final,
       pid |-> p, port |-> core[p].port] \in Record
  BY <1>3 DEF Record
<1>8. PICK s : s = IF core[p].at = "ready" THEN "running" ELSE core[p].final
  OBVIOUS
<1>9. temp'[core[p].name] = [state |-> s, pid |-> p, port |-> core[p].port]
  BY <1>3, <1>6, <1>8 DEF TypeInv, TypeOK
<1>10. temp'[core[p].name].state = s /\ temp'[core[p].name].pid = p
  BY <1>9
<1>11. temp'[core[p].name] # None
  BY <1>7, <1>8, <1>9, NoneIs
<1>12. \A n \in Name : n # core[p].name => temp'[n] = temp[n]
  BY <1>6 DEF TypeInv, TypeOK
<1> QED
  BY <1>1, <1>3, <1>5, <1>8, <1>9, <1>10, <1>11, <1>12

(* The whole record, for who wants to know. *)
LEMMA WritesWhat ==
    ASSUME TypeInv, NEW p \in Pid, CoreWrites(p)
    PROVE  /\ core[p].at = "ready" => temp'[core[p].name] =
                 [state |-> "running", pid |-> p, port |-> core[p].port]
           /\ core[p].at = "ending" => temp'[core[p].name] =
                 [state |-> core[p].final, pid |-> p, port |-> core[p].port]
<1>1. core[p].name \in Name
  BY WritesDoes
<1>2. CASE core[p].at = "ready"
  BY <1>1, <1>2 DEF CoreWrites, State, TypeInv, TypeOK
<1>3. CASE core[p].at = "ending"
  BY <1>1, <1>3 DEF CoreWrites, State, TypeInv, TypeOK
<1> QED
  BY <1>2, <1>3, WritesDoes

LEMMA RenamesDoes ==
    ASSUME TypeInv, NEW p \in Pid, CoreRenames(p)
    PROVE  /\ core[p].at \in {"naming", "final"}
           /\ core[p].name \in Name
           /\ Moves(p, IF core[p].at = "naming" THEN "running" ELSE "leaving")
           /\ Rename(core[p].name)
           /\ UNCHANGED <<cmd, started, calm>>
<1>1. core[p].at \in {"naming", "final"} /\ Rename(core[p].name) /\ UNCHANGED <<cmd, started, calm>>
  BY DEF CoreRenames
<1>2. core[p].name \in Name
  BY <1>1, BornType DEF TypeInv, Born, CoreType
<1>3. core' = [core EXCEPT ![p].at = IF core[p].at = "naming" THEN "running" ELSE "leaving"]
  BY DEF CoreRenames
<1> QED
  BY <1>1, <1>2, <1>3, Moved DEF TypeInv, Born

-----------------------------------------------------------------------------
(* The first layer.                                                        *)

LEMMA TypeStep ==
    ASSUME TypeInv, [Next]_vars
    PROVE  TypeOK'
<1>1. ASSUME NEW k \in Cmds, Begun(k)
      PROVE  TypeOK'
  <2>1. PICK op \in {"start", "stop", "restart", "clear"}, n \in Name,
             port \in Port \cup {0}, next \in {"done", "launch", "load", "clear"} :
             Begin(k, op, n, port, next)
    BY <1>1 DEF Begun
  <2>2. [at |-> next, op |-> op, name |-> n, pid |-> 0, port |-> port] \in CmdType
    BY DEF CmdType
  <2> QED
    BY <2>1, <2>2 DEF TypeInv, TypeOK, Begin
<1>2. ASSUME NEW k \in Cmds, StopLoad(k)
      PROVE  TypeOK'
  <2> cmd[k] \in CmdType
    BY <1>2, AskedType DEF TypeInv, StopLoad
  <2>1. CASE CheckRunning(cmd[k].name)
    <3>1. cmd' = [cmd EXCEPT ![k] = [cmd[k] EXCEPT !.at = "signal", !.pid = file[cmd[k].name].pid]]
      BY <1>2, <2>1 DEF StopLoad
    <3>2. file[cmd[k].name] # None /\ file[cmd[k].name].pid \in Pid
      BY <2>1, NoneIs, RecordOf DEF CheckRunning, CmdType
    <3>3. [cmd[k] EXCEPT !.at = "signal", !.pid = file[cmd[k].name].pid] \in CmdType
      BY <3>2 DEF CmdType
    <3> QED
      BY <1>2, <3>1, <3>3 DEF TypeInv, TypeOK, StopLoad
  <2>2. CASE ~CheckRunning(cmd[k].name)
    BY <1>2, <2>2 DEF TypeInv, TypeOK, StopLoad, GoOn, StopReturns, CmdType
  <2> QED
    BY <2>1, <2>2
<1>3. ASSUME NEW k \in Cmds, Signal(k)
      PROVE  TypeOK'
  <2> cmd[k] \in CmdType
    BY <1>3, AskedType DEF TypeInv, Signal
  <2>1. cmd' \in [Cmds -> CmdType \cup {[at |-> "new"]}]
    BY <1>3 DEF TypeInv, TypeOK, Signal, GoOn, CmdType
  <2>2. cmd[k].pid \in Pid /\ core[cmd[k].pid] \in CoreType
    BY <1>3, BornType DEF TypeInv, Equipped, Signal
  <2>3. [core[cmd[k].pid] EXCEPT !.signalled = TRUE] \in CoreType
    BY <2>2 DEF CoreType
  <2>4. core' \in [Pid -> CoreType \cup {[at |-> "unborn"]}]
    BY <1>3, <2>2, <2>3 DEF TypeInv, TypeOK, Signal
  <2> QED
    BY <1>3, <2>1, <2>4 DEF TypeInv, TypeOK, Signal
<1>4. ASSUME NEW k \in Cmds, Wait(k)
      PROVE  TypeOK'
  <2> cmd[k] \in CmdType
    BY <1>4, AskedType DEF TypeInv, Wait
  <2> QED
    BY <1>4 DEF TypeInv, TypeOK, CmdType, GoOn, Wait
<1>5. ASSUME NEW k \in Cmds, WaitTooLong(k)
      PROVE  TypeOK'
  <2> cmd[k] \in CmdType
    BY <1>5, AskedType DEF TypeInv, WaitTooLong
  <2> QED
    BY <1>5 DEF TypeInv, TypeOK, CmdType, GoOn, WaitTooLong
<1>6. ASSUME NEW k \in Cmds, Mark(k)
      PROVE  TypeOK'
  <2> cmd[k] \in CmdType
    BY <1>6, AskedType DEF TypeInv, Mark
  <2>1. cmd' \in [Cmds -> CmdType \cup {[at |-> "new"]}]
    BY <1>6 DEF TypeInv, TypeOK, Mark, GoOn, StopReturns, CmdType
  <2>2. cmd[k].name \in Name
    BY DEF CmdType
  <2>3. temp' \in [Name -> Record \cup {None}]
    BY <1>6, <2>2, NoneIs DEF TypeInv, TypeOK, Mark, Record
  <2> QED
    BY <1>6, <2>1, <2>3 DEF TypeInv, TypeOK, Mark
<1>7. ASSUME NEW k \in Cmds, MarkRename(k)
      PROVE  TypeOK'
  <2> cmd[k] \in CmdType
    BY <1>7, AskedType DEF TypeInv, MarkRename
  <2>1. cmd' \in [Cmds -> CmdType \cup {[at |-> "new"]}]
    BY <1>7 DEF TypeInv, TypeOK, MarkRename, GoOn, StopReturns, CmdType
  <2>2. cmd[k].name \in Name
    BY DEF CmdType
  <2> QED
    BY <1>7, <2>1, <2>2 DEF TypeInv, TypeOK, MarkRename, Rename
<1>8. ASSUME NEW k \in Cmds, Poll(k)
      PROVE  TypeOK'
  <2> cmd[k] \in CmdType
    BY <1>8, AskedType DEF TypeInv, Poll
  <2> QED
    BY <1>8 DEF TypeInv, TypeOK, CmdType, GoOn, Poll
<1>9. ASSUME NEW k \in Cmds, PollEnds(k)
      PROVE  TypeOK'
  <2> cmd[k] \in CmdType
    BY <1>9, AskedType DEF TypeInv, PollEnds
  <2> QED
    BY <1>9 DEF TypeInv, TypeOK, CmdType, GoOn, PollEnds
<1>10. ASSUME NEW k \in Cmds, ClearFiles(k)
      PROVE  TypeOK'
  <2> cmd[k] \in CmdType
    BY <1>10, AskedType DEF TypeInv, ClearFiles
  <2>1. cmd' \in [Cmds -> CmdType \cup {[at |-> "new"]}]
    BY <1>10 DEF TypeInv, TypeOK, ClearFiles, GoOn, CmdType
  <2>2. cmd[k].name \in Name
    BY DEF CmdType
  <2> QED
    BY <1>10, <2>1, <2>2 DEF TypeInv, TypeOK, ClearFiles
<1>11. ASSUME NEW k \in Cmds, NEW p \in Pid, Launch(k, p)
      PROVE  TypeOK'
  <2> cmd[k] \in CmdType
    BY <1>11, AskedType DEF TypeInv, Launch
  <2>1. cmd[k].name \in Name /\ cmd[k].port \in Port
    BY <1>11 DEF TypeInv, Equipped, Launch, CmdType
  <2>2. [at |-> "starting", name |-> cmd[k].name, port |-> cmd[k].port,
         signalled |-> FALSE, final |-> "failed"] \in CoreType
    BY <2>1 DEF CoreType
  <2>3. [cmd[k] EXCEPT !.at = "poll", !.pid = p] \in CmdType
    BY DEF CmdType
  <2>4. cmd' = [cmd EXCEPT ![k] = [cmd[k] EXCEPT !.at = "poll", !.pid = p]]
    BY <1>11 DEF Launch
  <2>5. started' \in [Name -> Port \cup {0}]
    BY <1>11, <2>1 DEF TypeInv, TypeOK, Launch
  <2> QED
    BY <1>11, <2>2, <2>3, <2>4, <2>5 DEF TypeInv, TypeOK, Launch
<1>12. ASSUME NEW p \in Pid, CoreReady(p)
      PROVE  TypeOK'
  <2> core[p] \in CoreType
    BY <1>12, BornType DEF TypeInv, Born, Alive, CoreReady
  <2> QED
    BY <1>12 DEF TypeInv, TypeOK, CoreType, CoreReady
<1>13. ASSUME NEW p \in Pid, CoreEnds(p)
      PROVE  TypeOK'
  <2> core[p] \in CoreType
    BY <1>13, BornType DEF TypeInv, Born, CoreEnds
  <2>1. PICK r \in {"stopped", "failed"} : core' = [core EXCEPT ![p] = [core[p] EXCEPT !.at = "ending", !.final = r]]
    BY <1>13 DEF CoreEnds
  <2>2. [core[p] EXCEPT !.at = "ending", !.final = r] \in CoreType
    BY DEF CoreType
  <2> QED
    BY <1>13, <2>1, <2>2 DEF TypeInv, TypeOK, CoreEnds
<1>14. ASSUME NEW p \in Pid, CoreQuits(p)
      PROVE  TypeOK'
  <2> core[p] \in CoreType
    BY <1>14, BornType DEF TypeInv, Born, Alive, CoreQuits
  <2> QED
    BY <1>14 DEF TypeInv, TypeOK, CoreType, CoreQuits
<1>15. ASSUME NEW p \in Pid, CoreWrites(p)
      PROVE  TypeOK'
  <2> core[p] \in CoreType
    BY <1>15, BornType DEF TypeInv, Born, CoreWrites
  <2>1. core' \in [Pid -> CoreType \cup {[at |-> "unborn"]}]
    BY <1>15 DEF TypeInv, TypeOK, CoreType, CoreWrites
  <2>2. core[p].name \in Name /\ [state |-> State(p), pid |-> p, port |-> core[p].port] \in Record
    BY DEF CoreType, Record, State
  <2>3. temp' \in [Name -> Record \cup {None}]
    BY <1>15, <2>2 DEF TypeInv, TypeOK, CoreWrites
  <2> QED
    BY <1>15, <2>1, <2>3 DEF TypeInv, TypeOK, CoreWrites
<1>16. ASSUME NEW p \in Pid, CoreRenames(p)
      PROVE  TypeOK'
  <2> core[p] \in CoreType
    BY <1>16, BornType DEF TypeInv, Born, CoreRenames
  <2>1. core' \in [Pid -> CoreType \cup {[at |-> "unborn"]}]
    BY <1>16 DEF TypeInv, TypeOK, CoreType, CoreRenames
  <2>2. core[p].name \in Name
    BY DEF CoreType
  <2> QED
    BY <1>16, <2>1, <2>2 DEF TypeInv, TypeOK, CoreRenames, Rename
<1>17. ASSUME NEW p \in Pid, CoreExits(p)
      PROVE  TypeOK'
  <2> core[p] \in CoreType
    BY <1>17, BornType DEF TypeInv, Born, Alive, CoreExits
  <2> QED
    BY <1>17 DEF TypeInv, TypeOK, CoreType, CoreExits
<1>18. ASSUME NEW p \in Pid, Crash(p)
      PROVE  TypeOK'
  <2> core[p] \in CoreType
    BY <1>18, BornType DEF TypeInv, Born, Alive, Crash
  <2> QED
    BY <1>18 DEF TypeInv, TypeOK, CoreType, Crash
<1>19. CASE UNCHANGED vars
  BY <1>19 DEF TypeInv, TypeOK, vars
<1> QED
  BY <1>1, <1>2, <1>3, <1>4, <1>5, <1>6, <1>7, <1>8, <1>9, <1>10, <1>11, <1>12, <1>13,
     <1>14, <1>15, <1>16, <1>17, <1>18, <1>19, WhoBegins DEF Next, CmdStep, CoreStep

-----------------------------------------------------------------------------
(* The rest of the first layer.                                            *)

(* No core is unborn again. *)
LEMMA BornForGood ==
    ASSUME TypeInv, [Next]_vars
    PROVE  \A q \in Pid : Born(q) => Born(q)'
<1>1. ASSUME NEW k \in Cmds, Begun(k)
      PROVE  \A q \in Pid : Born(q) => Born(q)'
  BY <1>1, BegunDoes DEF TypeInv, Goes, Moves, Born
<1>2. ASSUME NEW k \in Cmds, StopLoad(k)
      PROVE  \A q \in Pid : Born(q) => Born(q)'
  BY <1>2, StopLoadDoes DEF TypeInv, Goes, Moves, Born
<1>3. ASSUME NEW k \in Cmds, Signal(k)
      PROVE  \A q \in Pid : Born(q) => Born(q)'
  BY <1>3, SignalDoes DEF TypeInv, Goes, Moves, Born
<1>4. ASSUME NEW k \in Cmds, Wait(k)
      PROVE  \A q \in Pid : Born(q) => Born(q)'
  <2>1. Goes(k, "mark")
    BY <1>4, WentOn DEF TypeInv, Wait
  <2> QED
    BY <1>4, <2>1 DEF Goes, Wait, Born
<1>5. ASSUME NEW k \in Cmds, WaitTooLong(k)
      PROVE  \A q \in Pid : Born(q) => Born(q)'
  <2>1. Goes(k, "done")
    BY <1>5, WentOn DEF TypeInv, WaitTooLong
  <2> QED
    BY <1>5, <2>1 DEF Goes, WaitTooLong, Born
<1>6. ASSUME NEW k \in Cmds, Mark(k)
      PROVE  \A q \in Pid : Born(q) => Born(q)'
  BY <1>6, MarkDoes DEF TypeInv, Goes, Moves, Born
<1>7. ASSUME NEW k \in Cmds, MarkRename(k)
      PROVE  \A q \in Pid : Born(q) => Born(q)'
  BY <1>7, MarkRenameDoes DEF TypeInv, Goes, Moves, Born
<1>8. ASSUME NEW k \in Cmds, Poll(k)
      PROVE  \A q \in Pid : Born(q) => Born(q)'
  <2>1. Goes(k, "done")
    BY <1>8, WentOn DEF TypeInv, Poll
  <2> QED
    BY <1>8, <2>1 DEF Goes, Poll, Born
<1>9. ASSUME NEW k \in Cmds, PollEnds(k)
      PROVE  \A q \in Pid : Born(q) => Born(q)'
  <2>1. Goes(k, "done")
    BY <1>9, WentOn DEF TypeInv, PollEnds
  <2> QED
    BY <1>9, <2>1 DEF Goes, PollEnds, Born
<1>10. ASSUME NEW k \in Cmds, ClearFiles(k)
      PROVE  \A q \in Pid : Born(q) => Born(q)'
  BY <1>10, ClearDoes DEF TypeInv, Goes, Moves, Born
<1>11. ASSUME NEW k \in Cmds, NEW p \in Pid, Launch(k, p)
      PROVE  \A q \in Pid : Born(q) => Born(q)'
  BY <1>11, LaunchDoes DEF Born
<1>12. ASSUME NEW p \in Pid, CoreReady(p)
      PROVE  \A q \in Pid : Born(q) => Born(q)'
  <2>1. Moves(p, "ready")
    BY <1>12, Moved DEF TypeInv, Born, Alive, CoreReady
  <2> QED
    BY <1>12, <2>1 DEF Moves, CoreReady, Born
<1>13. ASSUME NEW p \in Pid, CoreEnds(p)
      PROVE  \A q \in Pid : Born(q) => Born(q)'
  BY <1>13, EndsDoes DEF TypeInv, Goes, Moves, Born
<1>14. ASSUME NEW p \in Pid, CoreQuits(p)
      PROVE  \A q \in Pid : Born(q) => Born(q)'
  <2>1. Moves(p, "gone")
    BY <1>14, Moved DEF TypeInv, Born, Alive, CoreQuits
  <2> QED
    BY <1>14, <2>1 DEF Moves, CoreQuits, Born
<1>15. ASSUME NEW p \in Pid, CoreWrites(p)
      PROVE  \A q \in Pid : Born(q) => Born(q)'
  BY <1>15, WritesDoes DEF TypeInv, Goes, Moves, Born
<1>16. ASSUME NEW p \in Pid, CoreRenames(p)
      PROVE  \A q \in Pid : Born(q) => Born(q)'
  BY <1>16, RenamesDoes DEF TypeInv, Goes, Moves, Born
<1>17. ASSUME NEW p \in Pid, CoreExits(p)
      PROVE  \A q \in Pid : Born(q) => Born(q)'
  <2>1. Moves(p, "gone")
    BY <1>17, Moved DEF TypeInv, Born, Alive, CoreExits
  <2> QED
    BY <1>17, <2>1 DEF Moves, CoreExits, Born
<1>18. ASSUME NEW p \in Pid, Crash(p)
      PROVE  \A q \in Pid : Born(q) => Born(q)'
  <2>1. Moves(p, "crashed")
    BY <1>18, Moved DEF TypeInv, Born, Alive, Crash
  <2> QED
    BY <1>18, <2>1 DEF Moves, Crash, Born
<1>19. CASE UNCHANGED vars
  BY <1>19 DEF vars, Born
<1> QED
  BY <1>1, <1>2, <1>3, <1>4, <1>5, <1>6, <1>7, <1>8, <1>9, <1>10, <1>11, <1>12, <1>13,
     <1>14, <1>15, <1>16, <1>17, <1>18, <1>19, WhoBegins DEF Next, CmdStep, CoreStep

(* A command that has a process id, or may launch a core, still has it. *)
EquippedOf(k) ==
    /\ cmd[k].at \in {"signal", "wait", "mark", "rename", "poll"} =>
           cmd[k].pid \in Pid /\ Born(cmd[k].pid)
    /\ cmd[k].at = "launch" => cmd[k].op \in {"start", "restart"}
    /\ cmd[k].at # "new" /\ cmd[k].op \in {"start", "restart"} => cmd[k].port \in Port

LEMMA EquippedStep ==
    ASSUME TypeInv, [Next]_vars
    PROVE  Equipped'
<1>1. ASSUME NEW k \in Cmds, Begun(k)
      PROVE  Equipped'
  <2>1. EquippedOf(k)'
    BY <1>1, BegunDoes, BornForGood DEF TypeInv, Equipped, EquippedOf, Goes
  <2>2. \A l \in Cmds : l # k => cmd'[l] = cmd[l]
    BY <1>1, BegunDoes DEF TypeInv, Goes
  <2>3. \A l \in Cmds : l # k => EquippedOf(l)'
    BY <2>2, BornForGood DEF TypeInv, Equipped, EquippedOf
  <2> QED
    BY <2>1, <2>3 DEF Equipped, EquippedOf
<1>2. ASSUME NEW k \in Cmds, StopLoad(k)
      PROVE  Equipped'
  <2>1. EquippedOf(k)'
    BY <1>2, StopLoadDoes, RecordOf, BornForGood DEF TypeInv, Equipped, EquippedOf,
       Goes, CheckRunning
  <2>2. \A l \in Cmds : l # k => cmd'[l] = cmd[l]
    BY <1>2, StopLoadDoes, RecordOf DEF TypeInv, Goes
  <2>3. \A l \in Cmds : l # k => EquippedOf(l)'
    BY <2>2, BornForGood DEF TypeInv, Equipped, EquippedOf
  <2> QED
    BY <2>1, <2>3 DEF Equipped, EquippedOf
<1>3. ASSUME NEW k \in Cmds, Signal(k)
      PROVE  Equipped'
  <2>1. EquippedOf(k)'
    BY <1>3, SignalDoes, BornForGood DEF TypeInv, Equipped, EquippedOf, Goes
  <2>2. \A l \in Cmds : l # k => cmd'[l] = cmd[l]
    BY <1>3, SignalDoes DEF TypeInv, Goes
  <2>3. \A l \in Cmds : l # k => EquippedOf(l)'
    BY <2>2, BornForGood DEF TypeInv, Equipped, EquippedOf
  <2> QED
    BY <2>1, <2>3 DEF Equipped, EquippedOf
<1>4. ASSUME NEW k \in Cmds, Wait(k)
      PROVE  Equipped'
  <2>1. Goes(k, "mark")
    BY <1>4, WentOn DEF TypeInv, Wait
  <2>2. EquippedOf(k)'
    BY <1>4, <2>1, BornForGood DEF TypeInv, Equipped, EquippedOf, Goes, Wait
  <2>3. \A l \in Cmds : l # k => cmd'[l] = cmd[l]
    BY <2>1 DEF Goes
  <2>4. \A l \in Cmds : l # k => EquippedOf(l)'
    BY <2>3, BornForGood DEF TypeInv, Equipped, EquippedOf
  <2> QED
    BY <2>2, <2>4 DEF Equipped, EquippedOf
<1>5. ASSUME NEW k \in Cmds, WaitTooLong(k)
      PROVE  Equipped'
  <2>1. Goes(k, "done")
    BY <1>5, WentOn DEF TypeInv, WaitTooLong
  <2>2. EquippedOf(k)'
    BY <1>5, <2>1, BornForGood DEF TypeInv, Equipped, EquippedOf, Goes, WaitTooLong
  <2>3. \A l \in Cmds : l # k => cmd'[l] = cmd[l]
    BY <2>1 DEF Goes
  <2>4. \A l \in Cmds : l # k => EquippedOf(l)'
    BY <2>3, BornForGood DEF TypeInv, Equipped, EquippedOf
  <2> QED
    BY <2>2, <2>4 DEF Equipped, EquippedOf
<1>6. ASSUME NEW k \in Cmds, Mark(k)
      PROVE  Equipped'
  <2>1. EquippedOf(k)'
    BY <1>6, MarkDoes, BornForGood DEF TypeInv, Equipped, EquippedOf, Goes
  <2>2. \A l \in Cmds : l # k => cmd'[l] = cmd[l]
    BY <1>6, MarkDoes DEF TypeInv, Goes
  <2>3. \A l \in Cmds : l # k => EquippedOf(l)'
    BY <2>2, BornForGood DEF TypeInv, Equipped, EquippedOf
  <2> QED
    BY <2>1, <2>3 DEF Equipped, EquippedOf
<1>7. ASSUME NEW k \in Cmds, MarkRename(k)
      PROVE  Equipped'
  <2>1. EquippedOf(k)'
    BY <1>7, MarkRenameDoes, BornForGood DEF TypeInv, Equipped, EquippedOf, Goes
  <2>2. \A l \in Cmds : l # k => cmd'[l] = cmd[l]
    BY <1>7, MarkRenameDoes DEF TypeInv, Goes
  <2>3. \A l \in Cmds : l # k => EquippedOf(l)'
    BY <2>2, BornForGood DEF TypeInv, Equipped, EquippedOf
  <2> QED
    BY <2>1, <2>3 DEF Equipped, EquippedOf
<1>8. ASSUME NEW k \in Cmds, Poll(k)
      PROVE  Equipped'
  <2>1. Goes(k, "done")
    BY <1>8, WentOn DEF TypeInv, Poll
  <2>2. EquippedOf(k)'
    BY <1>8, <2>1, BornForGood DEF TypeInv, Equipped, EquippedOf, Goes, Poll
  <2>3. \A l \in Cmds : l # k => cmd'[l] = cmd[l]
    BY <2>1 DEF Goes
  <2>4. \A l \in Cmds : l # k => EquippedOf(l)'
    BY <2>3, BornForGood DEF TypeInv, Equipped, EquippedOf
  <2> QED
    BY <2>2, <2>4 DEF Equipped, EquippedOf
<1>9. ASSUME NEW k \in Cmds, PollEnds(k)
      PROVE  Equipped'
  <2>1. Goes(k, "done")
    BY <1>9, WentOn DEF TypeInv, PollEnds
  <2>2. EquippedOf(k)'
    BY <1>9, <2>1, BornForGood DEF TypeInv, Equipped, EquippedOf, Goes, PollEnds
  <2>3. \A l \in Cmds : l # k => cmd'[l] = cmd[l]
    BY <2>1 DEF Goes
  <2>4. \A l \in Cmds : l # k => EquippedOf(l)'
    BY <2>3, BornForGood DEF TypeInv, Equipped, EquippedOf
  <2> QED
    BY <2>2, <2>4 DEF Equipped, EquippedOf
<1>10. ASSUME NEW k \in Cmds, ClearFiles(k)
      PROVE  Equipped'
  <2>1. EquippedOf(k)'
    BY <1>10, ClearDoes, BornForGood DEF TypeInv, Equipped, EquippedOf, Goes
  <2>2. \A l \in Cmds : l # k => cmd'[l] = cmd[l]
    BY <1>10, ClearDoes DEF TypeInv, Goes
  <2>3. \A l \in Cmds : l # k => EquippedOf(l)'
    BY <2>2, BornForGood DEF TypeInv, Equipped, EquippedOf
  <2> QED
    BY <2>1, <2>3 DEF Equipped, EquippedOf
<1>11. ASSUME NEW k \in Cmds, NEW p \in Pid, Launch(k, p)
      PROVE  Equipped'
  <2>1. Born(p)'
    BY <1>11, LaunchDoes DEF Born
  <2>2. EquippedOf(k)'
    BY <1>11, LaunchDoes, <2>1 DEF TypeInv, Equipped, EquippedOf
  <2>3. \A l \in Cmds : l # k => cmd'[l] = cmd[l]
    BY <1>11, LaunchDoes DEF TypeInv, Goes
  <2>4. \A l \in Cmds : l # k => EquippedOf(l)'
    BY <2>3, BornForGood DEF TypeInv, Equipped, EquippedOf
  <2> QED
    BY <2>2, <2>4 DEF Equipped, EquippedOf
<1>12. ASSUME NEW p \in Pid, CoreReady(p)
      PROVE  Equipped'
  <2>1. cmd' = cmd
    BY <1>12 DEF CoreReady
  <2> QED
    BY <2>1, BornForGood DEF TypeInv, Equipped
<1>13. ASSUME NEW p \in Pid, CoreEnds(p)
      PROVE  Equipped'
  <2>1. cmd' = cmd
    BY <1>13 DEF CoreEnds
  <2> QED
    BY <2>1, BornForGood DEF TypeInv, Equipped
<1>14. ASSUME NEW p \in Pid, CoreQuits(p)
      PROVE  Equipped'
  <2>1. cmd' = cmd
    BY <1>14 DEF CoreQuits
  <2> QED
    BY <2>1, BornForGood DEF TypeInv, Equipped
<1>15. ASSUME NEW p \in Pid, CoreWrites(p)
      PROVE  Equipped'
  <2>1. cmd' = cmd
    BY <1>15 DEF CoreWrites
  <2> QED
    BY <2>1, BornForGood DEF TypeInv, Equipped
<1>16. ASSUME NEW p \in Pid, CoreRenames(p)
      PROVE  Equipped'
  <2>1. cmd' = cmd
    BY <1>16 DEF CoreRenames
  <2> QED
    BY <2>1, BornForGood DEF TypeInv, Equipped
<1>17. ASSUME NEW p \in Pid, CoreExits(p)
      PROVE  Equipped'
  <2>1. cmd' = cmd
    BY <1>17 DEF CoreExits
  <2> QED
    BY <2>1, BornForGood DEF TypeInv, Equipped
<1>18. ASSUME NEW p \in Pid, Crash(p)
      PROVE  Equipped'
  <2>1. cmd' = cmd
    BY <1>18 DEF Crash
  <2> QED
    BY <2>1, BornForGood DEF TypeInv, Equipped
<1>19. CASE UNCHANGED vars
  BY <1>19, BornForGood DEF TypeInv, Equipped, vars
<1> QED
  BY <1>1, <1>2, <1>3, <1>4, <1>5, <1>6, <1>7, <1>8, <1>9, <1>10, <1>11, <1>12, <1>13,
     <1>14, <1>15, <1>16, <1>17, <1>18, <1>19, WhoBegins DEF Next, CmdStep, CoreStep

LEMMA AboutBornStep ==
    ASSUME TypeInv, [Next]_vars
    PROVE  AboutBorn'
<1>1. ASSUME NEW k \in Cmds, Begun(k)
      PROVE  AboutBorn'
  BY <1>1, BornForGood, RecordOf DEF TypeInv, AboutBorn, Begun, Begin
<1>2. ASSUME NEW k \in Cmds, StopLoad(k)
      PROVE  AboutBorn'
  BY <1>2, BornForGood, RecordOf DEF TypeInv, AboutBorn, StopLoad
<1>3. ASSUME NEW k \in Cmds, Signal(k)
      PROVE  AboutBorn'
  BY <1>3, SignalDoes, BornForGood, RecordOf DEF TypeInv, AboutBorn
<1>4. ASSUME NEW k \in Cmds, Wait(k)
      PROVE  AboutBorn'
  BY <1>4, BornForGood, RecordOf DEF TypeInv, AboutBorn, Wait
<1>5. ASSUME NEW k \in Cmds, WaitTooLong(k)
      PROVE  AboutBorn'
  BY <1>5, BornForGood, RecordOf DEF TypeInv, AboutBorn, WaitTooLong
<1>6. ASSUME NEW k \in Cmds, Mark(k)
      PROVE  AboutBorn'
  BY <1>6, MarkDoes, RecordOf, BornForGood DEF TypeInv, AboutBorn, Equipped, RunningOf
<1>7. ASSUME NEW k \in Cmds, MarkRename(k)
      PROVE  AboutBorn'
  BY <1>7, MarkRenameDoes, Renamed, BornForGood, RecordOf DEF TypeInv, AboutBorn
<1>8. ASSUME NEW k \in Cmds, Poll(k)
      PROVE  AboutBorn'
  BY <1>8, BornForGood, RecordOf DEF TypeInv, AboutBorn, Poll
<1>9. ASSUME NEW k \in Cmds, PollEnds(k)
      PROVE  AboutBorn'
  BY <1>9, BornForGood, RecordOf DEF TypeInv, AboutBorn, PollEnds
<1>10. ASSUME NEW k \in Cmds, ClearFiles(k)
      PROVE  AboutBorn'
  BY <1>10, ClearDoes, BornForGood, RecordOf DEF TypeInv, AboutBorn
<1>11. ASSUME NEW k \in Cmds, NEW p \in Pid, Launch(k, p)
      PROVE  AboutBorn'
  BY <1>11, LaunchDoes, BornForGood, RecordOf DEF TypeInv, AboutBorn
<1>12. ASSUME NEW p \in Pid, CoreReady(p)
      PROVE  AboutBorn'
  BY <1>12, BornForGood, RecordOf DEF TypeInv, AboutBorn, CoreReady
<1>13. ASSUME NEW p \in Pid, CoreEnds(p)
      PROVE  AboutBorn'
  BY <1>13, BornForGood, RecordOf DEF TypeInv, AboutBorn, CoreEnds
<1>14. ASSUME NEW p \in Pid, CoreQuits(p)
      PROVE  AboutBorn'
  BY <1>14, BornForGood, RecordOf DEF TypeInv, AboutBorn, CoreQuits
<1>15. ASSUME NEW p \in Pid, CoreWrites(p)
      PROVE  AboutBorn'
  <2>1. temp'[core[p].name].pid = p
    BY <1>15, WritesDoes
  <2>2. Born(p)
    BY <1>15 DEF Born, CoreWrites
  <2>3. Born(p)'
    BY <2>2, BornForGood
  <2>4. (\A n \in Name : n # core[p].name => temp'[n] = temp[n]) /\ file' = file
    BY <1>15, WritesDoes
  <2> QED
    BY <2>1, <2>4, <2>3, BornForGood, RecordOf DEF TypeInv, AboutBorn
<1>16. ASSUME NEW p \in Pid, CoreRenames(p)
      PROVE  AboutBorn'
  BY <1>16, RenamesDoes, Renamed, BornForGood, RecordOf DEF TypeInv, AboutBorn
<1>17. ASSUME NEW p \in Pid, CoreExits(p)
      PROVE  AboutBorn'
  BY <1>17, BornForGood, RecordOf DEF TypeInv, AboutBorn, CoreExits
<1>18. ASSUME NEW p \in Pid, Crash(p)
      PROVE  AboutBorn'
  BY <1>18, BornForGood, RecordOf DEF TypeInv, AboutBorn, Crash
<1>19. CASE UNCHANGED vars
  BY <1>19, BornForGood, RecordOf DEF TypeInv, AboutBorn, vars
<1> QED
  BY <1>1, <1>2, <1>3, <1>4, <1>5, <1>6, <1>7, <1>8, <1>9, <1>10, <1>11, <1>12, <1>13,
     <1>14, <1>15, <1>16, <1>17, <1>18, <1>19, WhoBegins DEF Next, CmdStep, CoreStep

LEMMA TypeInvInit == Init => TypeInv
<1> SUFFICES ASSUME Init
             PROVE  TypeInv
  OBVIOUS
<1>1. TypeOK
  BY LifecycleAssumption DEF Init, TypeOK
<1>2. Equipped /\ AboutBorn
  BY DEF Init, Equipped, AboutBorn
<1> QED
  BY <1>1, <1>2 DEF TypeInv

(***************************************************************************)
(* Every variable has its type, whatever commands overlap and even if the  *)
(* process ids of dead cores are used again.                               *)
(***************************************************************************)
LEMMA TypeInvHolds == Spec => []TypeInv
<1>1. TypeInv /\ [Next]_vars => TypeInv'
  BY TypeStep, EquippedStep, AboutBornStep DEF TypeInv
<1> QED
  BY TypeInvInit, <1>1, PTL DEF Spec

THEOREM TypeCorrect == Spec => []TypeOK
<1>1. TypeInv => TypeOK
  BY DEF TypeInv
<1> QED
  BY <1>1, TypeInvHolds, PTL

-----------------------------------------------------------------------------
(* The second layer: process ids are not used again.                       *)

LEMMA LaunchFresh ==
    ASSUME ~Reuse, NEW k \in Cmds, NEW p \in Pid, Launch(k, p)
    PROVE  ~Born(p)
BY DEF Launch, Unused, Born

(* Who is dead stays dead. *)
LEMMA DeadForGood ==
    ASSUME ~Reuse, TypeInv, [Next]_vars
    PROVE  \A q \in Pid : Born(q) /\ ~Alive(q) => ~Alive(q)'
<1>1. ASSUME NEW k \in Cmds, Begun(k)
      PROVE  \A q \in Pid : Born(q) /\ ~Alive(q) => ~Alive(q)'
  BY <1>1, BegunDoes DEF TypeInv, Goes, Moves, Born, Alive
<1>2. ASSUME NEW k \in Cmds, StopLoad(k)
      PROVE  \A q \in Pid : Born(q) /\ ~Alive(q) => ~Alive(q)'
  BY <1>2, StopLoadDoes DEF TypeInv, Goes, Moves, Born, Alive
<1>3. ASSUME NEW k \in Cmds, Signal(k)
      PROVE  \A q \in Pid : Born(q) /\ ~Alive(q) => ~Alive(q)'
  BY <1>3, SignalDoes DEF TypeInv, Goes, Moves, Born, Alive
<1>4. ASSUME NEW k \in Cmds, Wait(k)
      PROVE  \A q \in Pid : Born(q) /\ ~Alive(q) => ~Alive(q)'
  <2>1. Goes(k, "mark")
    BY <1>4, WentOn DEF TypeInv, Wait
  <2> QED
    BY <1>4, <2>1 DEF Goes, Wait, Born, Alive
<1>5. ASSUME NEW k \in Cmds, WaitTooLong(k)
      PROVE  \A q \in Pid : Born(q) /\ ~Alive(q) => ~Alive(q)'
  <2>1. Goes(k, "done")
    BY <1>5, WentOn DEF TypeInv, WaitTooLong
  <2> QED
    BY <1>5, <2>1 DEF Goes, WaitTooLong, Born, Alive
<1>6. ASSUME NEW k \in Cmds, Mark(k)
      PROVE  \A q \in Pid : Born(q) /\ ~Alive(q) => ~Alive(q)'
  BY <1>6, MarkDoes DEF TypeInv, Goes, Moves, Born, Alive
<1>7. ASSUME NEW k \in Cmds, MarkRename(k)
      PROVE  \A q \in Pid : Born(q) /\ ~Alive(q) => ~Alive(q)'
  BY <1>7, MarkRenameDoes DEF TypeInv, Goes, Moves, Born, Alive
<1>8. ASSUME NEW k \in Cmds, Poll(k)
      PROVE  \A q \in Pid : Born(q) /\ ~Alive(q) => ~Alive(q)'
  <2>1. Goes(k, "done")
    BY <1>8, WentOn DEF TypeInv, Poll
  <2> QED
    BY <1>8, <2>1 DEF Goes, Poll, Born, Alive
<1>9. ASSUME NEW k \in Cmds, PollEnds(k)
      PROVE  \A q \in Pid : Born(q) /\ ~Alive(q) => ~Alive(q)'
  <2>1. Goes(k, "done")
    BY <1>9, WentOn DEF TypeInv, PollEnds
  <2> QED
    BY <1>9, <2>1 DEF Goes, PollEnds, Born, Alive
<1>10. ASSUME NEW k \in Cmds, ClearFiles(k)
      PROVE  \A q \in Pid : Born(q) /\ ~Alive(q) => ~Alive(q)'
  BY <1>10, ClearDoes DEF TypeInv, Goes, Moves, Born, Alive
<1>11. ASSUME NEW k \in Cmds, NEW p \in Pid, Launch(k, p)
      PROVE  \A q \in Pid : Born(q) /\ ~Alive(q) => ~Alive(q)'
  BY <1>11, LaunchDoes, LaunchFresh DEF Born, Alive
<1>12. ASSUME NEW p \in Pid, CoreReady(p)
      PROVE  \A q \in Pid : Born(q) /\ ~Alive(q) => ~Alive(q)'
  <2>1. Moves(p, "ready")
    BY <1>12, Moved DEF TypeInv, Born, Alive, CoreReady
  <2> QED
    BY <1>12, <2>1 DEF Moves, CoreReady, Born, Alive
<1>13. ASSUME NEW p \in Pid, CoreEnds(p)
      PROVE  \A q \in Pid : Born(q) /\ ~Alive(q) => ~Alive(q)'
  BY <1>13, EndsDoes DEF TypeInv, Goes, Moves, Born, Alive
<1>14. ASSUME NEW p \in Pid, CoreQuits(p)
      PROVE  \A q \in Pid : Born(q) /\ ~Alive(q) => ~Alive(q)'
  <2>1. Moves(p, "gone")
    BY <1>14, Moved DEF TypeInv, Born, Alive, CoreQuits
  <2> QED
    BY <1>14, <2>1 DEF Moves, CoreQuits, Born, Alive
<1>15. ASSUME NEW p \in Pid, CoreWrites(p)
      PROVE  \A q \in Pid : Born(q) /\ ~Alive(q) => ~Alive(q)'
  BY <1>15, WritesDoes DEF TypeInv, Goes, Moves, Born, Alive
<1>16. ASSUME NEW p \in Pid, CoreRenames(p)
      PROVE  \A q \in Pid : Born(q) /\ ~Alive(q) => ~Alive(q)'
  BY <1>16, RenamesDoes DEF TypeInv, Goes, Moves, Born, Alive
<1>17. ASSUME NEW p \in Pid, CoreExits(p)
      PROVE  \A q \in Pid : Born(q) /\ ~Alive(q) => ~Alive(q)'
  <2>1. Moves(p, "gone")
    BY <1>17, Moved DEF TypeInv, Born, Alive, CoreExits
  <2> QED
    BY <1>17, <2>1 DEF Moves, CoreExits, Born, Alive
<1>18. ASSUME NEW p \in Pid, Crash(p)
      PROVE  \A q \in Pid : Born(q) /\ ~Alive(q) => ~Alive(q)'
  <2>1. Moves(p, "crashed")
    BY <1>18, Moved DEF TypeInv, Born, Alive, Crash
  <2> QED
    BY <1>18, <2>1 DEF Moves, Crash, Born, Alive
<1>19. CASE UNCHANGED vars
  BY <1>19 DEF vars, Born, Alive
<1> QED
  BY <1>1, <1>2, <1>3, <1>4, <1>5, <1>6, <1>7, <1>8, <1>9, <1>10, <1>11, <1>12, <1>13,
     <1>14, <1>15, <1>16, <1>17, <1>18, <1>19, WhoBegins DEF Next, CmdStep, CoreStep

LEMMA TempsStep ==
    ASSUME ~Reuse, FileInv, [Next]_vars
    PROVE  Temps'
<1>1. ASSUME NEW k \in Cmds, Begun(k)
      PROVE  Temps'
  <2>1. UNCHANGED <<temp, core>>
    BY <1>1, BegunDoes DEF FileInv, TypeInv
  <2> QED
    BY <2>1 DEF FileInv, Temps, RunningOf
<1>2. ASSUME NEW k \in Cmds, StopLoad(k)
      PROVE  Temps'
  <2>1. UNCHANGED <<temp, core>>
    BY <1>2, StopLoadDoes DEF FileInv, TypeInv, StopLoad
  <2> QED
    BY <2>1 DEF FileInv, Temps, RunningOf
<1>3. ASSUME NEW k \in Cmds, Signal(k)
      PROVE  Temps'
  BY <1>3, SignalDoes DEF FileInv, Temps, RunningOf
<1>4. ASSUME NEW k \in Cmds, Wait(k)
      PROVE  Temps'
  <2>1. UNCHANGED <<temp, core>>
    BY <1>4 DEF FileInv, TypeInv, Wait
  <2> QED
    BY <2>1 DEF FileInv, Temps, RunningOf
<1>5. ASSUME NEW k \in Cmds, WaitTooLong(k)
      PROVE  Temps'
  <2>1. UNCHANGED <<temp, core>>
    BY <1>5 DEF FileInv, TypeInv, WaitTooLong
  <2> QED
    BY <2>1 DEF FileInv, Temps, RunningOf
<1>6. ASSUME NEW k \in Cmds, Mark(k)
      PROVE  Temps'
  BY <1>6, MarkDoes DEF FileInv, Temps, RunningOf
<1>7. ASSUME NEW k \in Cmds, MarkRename(k)
      PROVE  Temps'
  BY <1>7, MarkRenameDoes, Renamed, NoneIs DEF FileInv, Temps, RunningOf
<1>8. ASSUME NEW k \in Cmds, Poll(k)
      PROVE  Temps'
  <2>1. UNCHANGED <<temp, core>>
    BY <1>8 DEF FileInv, TypeInv, Poll
  <2> QED
    BY <2>1 DEF FileInv, Temps, RunningOf
<1>9. ASSUME NEW k \in Cmds, PollEnds(k)
      PROVE  Temps'
  <2>1. UNCHANGED <<temp, core>>
    BY <1>9 DEF FileInv, TypeInv, PollEnds
  <2> QED
    BY <2>1 DEF FileInv, Temps, RunningOf
<1>10. ASSUME NEW k \in Cmds, ClearFiles(k)
      PROVE  Temps'
  <2>1. UNCHANGED <<temp, core>>
    BY <1>10, ClearDoes DEF FileInv, TypeInv, ClearFiles
  <2> QED
    BY <2>1 DEF FileInv, Temps, RunningOf
<1>11. ASSUME NEW k \in Cmds, NEW p \in Pid, Launch(k, p)
      PROVE  Temps'
  BY <1>11, LaunchDoes, LaunchFresh, RecordOf, NoneIs DEF FileInv, Temps, RunningOf, Born
<1>12. ASSUME NEW p \in Pid, CoreReady(p)
      PROVE  Temps'
  <2>1. Moves(p, "ready")
    BY <1>12, Moved DEF FileInv, TypeInv, Born, Alive, CoreReady
  <2> QED
    BY <1>12, <2>1 DEF Moves, CoreReady, FileInv, Temps, RunningOf
<1>13. ASSUME NEW p \in Pid, CoreEnds(p)
      PROVE  Temps'
  BY <1>13, EndsDoes DEF FileInv, Temps, RunningOf
<1>14. ASSUME NEW p \in Pid, CoreQuits(p)
      PROVE  Temps'
  <2>1. Moves(p, "gone")
    BY <1>14, Moved DEF FileInv, TypeInv, Born, Alive, CoreQuits
  <2> QED
    BY <1>14, <2>1 DEF Moves, CoreQuits, FileInv, Temps, RunningOf
<1>15. ASSUME NEW p \in Pid, CoreWrites(p)
      PROVE  Temps'
  BY <1>15, WritesDoes DEF FileInv, Temps, RunningOf, Moves
<1>16. ASSUME NEW p \in Pid, CoreRenames(p)
      PROVE  Temps'
  BY <1>16, RenamesDoes, Renamed, NoneIs DEF FileInv, Temps, RunningOf, Moves
<1>17. ASSUME NEW p \in Pid, CoreExits(p)
      PROVE  Temps'
  <2>1. Moves(p, "gone")
    BY <1>17, Moved DEF FileInv, TypeInv, Born, Alive, CoreExits
  <2> QED
    BY <1>17, <2>1 DEF Moves, CoreExits, FileInv, Temps, RunningOf
<1>18. ASSUME NEW p \in Pid, Crash(p)
      PROVE  Temps'
  <2>1. Moves(p, "crashed")
    BY <1>18, Moved DEF FileInv, TypeInv, Born, Alive, Crash
  <2> QED
    BY <1>18, <2>1 DEF Moves, Crash, FileInv, Temps, RunningOf
<1>19. CASE UNCHANGED vars
  <2>1. UNCHANGED <<temp, core>>
    BY <1>19 DEF vars
  <2> QED
    BY <2>1 DEF FileInv, Temps, RunningOf
<1> QED
  BY <1>1, <1>2, <1>3, <1>4, <1>5, <1>6, <1>7, <1>8, <1>9, <1>10, <1>11, <1>12, <1>13,
     <1>14, <1>15, <1>16, <1>17, <1>18, <1>19, WhoBegins DEF Next, CmdStep, CoreStep,
     FileInv

LEMMA FilesStep ==
    ASSUME ~Reuse, FileInv, [Next]_vars
    PROVE  Files'
<1>1. ASSUME NEW k \in Cmds, Begun(k)
      PROVE  Files'
  <2>1. UNCHANGED <<file, temp, core>>
    BY <1>1, BegunDoes DEF FileInv, TypeInv
  <2> QED
    BY <2>1 DEF FileInv, Files, RunningOf
<1>2. ASSUME NEW k \in Cmds, StopLoad(k)
      PROVE  Files'
  <2>1. UNCHANGED <<file, temp, core>>
    BY <1>2, StopLoadDoes DEF FileInv, TypeInv, StopLoad
  <2> QED
    BY <2>1 DEF FileInv, Files, RunningOf
<1>3. ASSUME NEW k \in Cmds, Signal(k)
      PROVE  Files'
  BY <1>3, SignalDoes DEF FileInv, Files, RunningOf
<1>4. ASSUME NEW k \in Cmds, Wait(k)
      PROVE  Files'
  <2>1. UNCHANGED <<file, temp, core>>
    BY <1>4 DEF FileInv, TypeInv, Wait
  <2> QED
    BY <2>1 DEF FileInv, Files, RunningOf
<1>5. ASSUME NEW k \in Cmds, WaitTooLong(k)
      PROVE  Files'
  <2>1. UNCHANGED <<file, temp, core>>
    BY <1>5 DEF FileInv, TypeInv, WaitTooLong
  <2> QED
    BY <2>1 DEF FileInv, Files, RunningOf
<1>6. ASSUME NEW k \in Cmds, Mark(k)
      PROVE  Files'
  BY <1>6, MarkDoes DEF FileInv, Files, RunningOf
<1>7. ASSUME NEW k \in Cmds, MarkRename(k)
      PROVE  Files'
  BY <1>7, MarkRenameDoes, Renamed, NoneIs DEF FileInv, Temps, Files, RunningOf
<1>8. ASSUME NEW k \in Cmds, Poll(k)
      PROVE  Files'
  <2>1. UNCHANGED <<file, temp, core>>
    BY <1>8 DEF FileInv, TypeInv, Poll
  <2> QED
    BY <2>1 DEF FileInv, Files, RunningOf
<1>9. ASSUME NEW k \in Cmds, PollEnds(k)
      PROVE  Files'
  <2>1. UNCHANGED <<file, temp, core>>
    BY <1>9 DEF FileInv, TypeInv, PollEnds
  <2> QED
    BY <2>1 DEF FileInv, Files, RunningOf
<1>10. ASSUME NEW k \in Cmds, ClearFiles(k)
      PROVE  Files'
  BY <1>10, ClearDoes, NoneIs DEF FileInv, Files, RunningOf
<1>11. ASSUME NEW k \in Cmds, NEW p \in Pid, Launch(k, p)
      PROVE  Files'
  BY <1>11, LaunchDoes, LaunchFresh, RecordOf, NoneIs DEF FileInv, Files, RunningOf, Born
<1>12. ASSUME NEW p \in Pid, CoreReady(p)
      PROVE  Files'
  <2>1. Moves(p, "ready")
    BY <1>12, Moved DEF FileInv, TypeInv, Born, Alive, CoreReady
  <2> QED
    BY <1>12, <2>1 DEF Moves, CoreReady, FileInv, Files, RunningOf
<1>13. ASSUME NEW p \in Pid, CoreEnds(p)
      PROVE  Files'
  BY <1>13, EndsDoes DEF FileInv, Files, RunningOf
<1>14. ASSUME NEW p \in Pid, CoreQuits(p)
      PROVE  Files'
  <2>1. Moves(p, "gone")
    BY <1>14, Moved DEF FileInv, TypeInv, Born, Alive, CoreQuits
  <2> QED
    BY <1>14, <2>1 DEF Moves, CoreQuits, FileInv, Files, RunningOf
<1>15. ASSUME NEW p \in Pid, CoreWrites(p)
      PROVE  Files'
  BY <1>15, WritesDoes DEF FileInv, Files, RunningOf, Moves
<1>16. ASSUME NEW p \in Pid, CoreRenames(p)
      PROVE  Files'
  BY <1>16, RenamesDoes, Renamed, NoneIs DEF FileInv, Temps, Files, RunningOf, Moves
<1>17. ASSUME NEW p \in Pid, CoreExits(p)
      PROVE  Files'
  <2>1. Moves(p, "gone")
    BY <1>17, Moved DEF FileInv, TypeInv, Born, Alive, CoreExits
  <2> QED
    BY <1>17, <2>1 DEF Moves, CoreExits, FileInv, Files, RunningOf
<1>18. ASSUME NEW p \in Pid, Crash(p)
      PROVE  Files'
  <2>1. Moves(p, "crashed")
    BY <1>18, Moved DEF FileInv, TypeInv, Born, Alive, Crash
  <2> QED
    BY <1>18, <2>1 DEF Moves, Crash, FileInv, Files, RunningOf
<1>19. CASE UNCHANGED vars
  <2>1. UNCHANGED <<file, temp, core>>
    BY <1>19 DEF vars
  <2> QED
    BY <2>1 DEF FileInv, Files, RunningOf
<1> QED
  BY <1>1, <1>2, <1>3, <1>4, <1>5, <1>6, <1>7, <1>8, <1>9, <1>10, <1>11, <1>12, <1>13,
     <1>14, <1>15, <1>16, <1>17, <1>18, <1>19, WhoBegins DEF Next, CmdStep, CoreStep,
     FileInv

(* What Stopping says of one command. *)
StoppingOf(k) ==
    LET n == cmd[k].name
        p == cmd[k].pid
    IN  /\ cmd[k].at \in {"mark", "rename"} => ~Alive(p)
        /\ cmd[k].at = "rename" =>
               ~RunningOf(temp[n], p) /\ (temp[n] = None => ~RunningOf(file[n], p))

(* A command that does not act stays as it is while others do. *)
LEMMA StillStopping ==
    ASSUME ~Reuse, FileInv, [Next]_vars, NEW l \in Cmds, cmd'[l] = cmd[l],
           \A n \in Name : temp[n] # None => temp'[n] # None \/ file'[n] = temp[n] \/ file'[n] = None,
           \A n \in Name : temp[n] = None => temp'[n] # None \/ file'[n] = file[n] \/ file'[n] = None,
           \A n \in Name : \/ temp'[n] \in {temp[n], None}
                           \/ temp'[n].state # "running"
                           \/ Alive(temp'[n].pid)
    PROVE  StoppingOf(l)'
<1>1. CASE cmd[l].at \in {"mark", "rename"}
  <2>1. cmd[l].pid \in Pid /\ Born(cmd[l].pid) /\ ~Alive(cmd[l].pid)
    BY <1>1 DEF FileInv, TypeInv, Equipped, Stopping
  <2>2. ~Alive(cmd[l].pid)'
    BY <2>1, DeadForGood DEF FileInv, Alive
  <2>3. cmd[l].name \in Name
    BY <1>1, AskedType DEF FileInv, TypeInv, CmdType
  <2>4. cmd[l].at = "rename" => ~RunningOf(temp'[cmd[l].name], cmd[l].pid)
    BY <2>1, <2>3, NoneIs DEF FileInv, Stopping, RunningOf
  <2>5. cmd[l].at = "rename" /\ temp'[cmd[l].name] = None => ~RunningOf(file'[cmd[l].name], cmd[l].pid)
    BY <2>3, NoneIs DEF FileInv, Stopping, RunningOf
  <2> QED
    BY <2>2, <2>4, <2>5 DEF StoppingOf, RunningOf, Alive
<1>2. CASE cmd[l].at \notin {"mark", "rename"}
  BY <1>2 DEF StoppingOf
<1> QED
  BY <1>1, <1>2

LEMMA StoppingStep ==
    ASSUME ~Reuse, FileInv, [Next]_vars
    PROVE  Stopping'
<1>1. ASSUME NEW k \in Cmds, Begun(k)
      PROVE  Stopping'
  <2>1. StoppingOf(k)'
    BY <1>1, BegunDoes DEF FileInv, TypeInv, StoppingOf
  <2>2. \A l \in Cmds : l # k => cmd'[l] = cmd[l]
    BY <1>1, BegunDoes DEF FileInv, TypeInv, Goes
  <2>3. \A n \in Name : temp[n] # None => temp'[n] # None \/ file'[n] = temp[n] \/ file'[n] = None
    BY <1>1, BegunDoes DEF FileInv, TypeInv
  <2>4. \A n \in Name : temp[n] = None => temp'[n] # None \/ file'[n] = file[n] \/ file'[n] = None
    BY <1>1, BegunDoes DEF FileInv, TypeInv
  <2>5. \A n \in Name : \/ temp'[n] \in {temp[n], None}
                          \/ temp'[n].state # "running"
                          \/ Alive(temp'[n].pid)
    BY <1>1, BegunDoes DEF FileInv, TypeInv
  <2>6. \A l \in Cmds : l # k => StoppingOf(l)'
    BY <2>2, <2>3, <2>4, <2>5, StillStopping
  <2> QED
    BY <2>1, <2>6 DEF Stopping, StoppingOf
<1>2. ASSUME NEW k \in Cmds, StopLoad(k)
      PROVE  Stopping'
  <2>1. StoppingOf(k)'
    BY <1>2, StopLoadDoes DEF FileInv, StoppingOf
  <2>2. \A l \in Cmds : l # k => cmd'[l] = cmd[l]
    BY <1>2, StopLoadDoes DEF FileInv, TypeInv, Goes
  <2>3. \A n \in Name : temp[n] # None => temp'[n] # None \/ file'[n] = temp[n] \/ file'[n] = None
    BY <1>2, StopLoadDoes DEF FileInv, TypeInv
  <2>4. \A n \in Name : temp[n] = None => temp'[n] # None \/ file'[n] = file[n] \/ file'[n] = None
    BY <1>2, StopLoadDoes DEF FileInv, TypeInv
  <2>5. \A n \in Name : \/ temp'[n] \in {temp[n], None}
                          \/ temp'[n].state # "running"
                          \/ Alive(temp'[n].pid)
    BY <1>2, StopLoadDoes DEF FileInv, TypeInv
  <2>6. \A l \in Cmds : l # k => StoppingOf(l)'
    BY <2>2, <2>3, <2>4, <2>5, StillStopping
  <2> QED
    BY <2>1, <2>6 DEF Stopping, StoppingOf
<1>3. ASSUME NEW k \in Cmds, Signal(k)
      PROVE  Stopping'
  <2>1. StoppingOf(k)'
    BY <1>3, SignalDoes DEF FileInv, StoppingOf, Goes
  <2>2. \A l \in Cmds : l # k => cmd'[l] = cmd[l]
    BY <1>3, SignalDoes DEF FileInv, TypeInv, Goes
  <2>3. \A n \in Name : temp[n] # None => temp'[n] # None \/ file'[n] = temp[n] \/ file'[n] = None
    BY <1>3, SignalDoes DEF FileInv, TypeInv
  <2>4. \A n \in Name : temp[n] = None => temp'[n] # None \/ file'[n] = file[n] \/ file'[n] = None
    BY <1>3, SignalDoes DEF FileInv, TypeInv
  <2>5. \A n \in Name : \/ temp'[n] \in {temp[n], None}
                          \/ temp'[n].state # "running"
                          \/ Alive(temp'[n].pid)
    BY <1>3, SignalDoes DEF FileInv, TypeInv
  <2>6. \A l \in Cmds : l # k => StoppingOf(l)'
    BY <2>2, <2>3, <2>4, <2>5, StillStopping
  <2> QED
    BY <2>1, <2>6 DEF Stopping, StoppingOf
<1>4. ASSUME NEW k \in Cmds, Wait(k)
      PROVE  Stopping'
  <2>1. Goes(k, "mark")
    BY <1>4, WentOn DEF FileInv, TypeInv, Wait
  <2>2. StoppingOf(k)'
    BY <1>4, <2>1 DEF StoppingOf, Goes, Wait, Alive
  <2>3. \A l \in Cmds : l # k => cmd'[l] = cmd[l]
    BY <2>1 DEF Goes
  <2>4. \A n \in Name : temp[n] # None => temp'[n] # None \/ file'[n] = temp[n] \/ file'[n] = None
    BY <1>4 DEF Wait
  <2>5. \A n \in Name : temp[n] = None => temp'[n] # None \/ file'[n] = file[n] \/ file'[n] = None
    BY <1>4 DEF Wait
  <2>6. \A n \in Name : \/ temp'[n] \in {temp[n], None}
                          \/ temp'[n].state # "running"
                          \/ Alive(temp'[n].pid)
    BY <1>4 DEF Wait
  <2>7. \A l \in Cmds : l # k => StoppingOf(l)'
    BY <2>3, <2>4, <2>5, <2>6, StillStopping
  <2> QED
    BY <2>2, <2>7 DEF Stopping, StoppingOf
<1>5. ASSUME NEW k \in Cmds, WaitTooLong(k)
      PROVE  Stopping'
  <2>1. Goes(k, "done")
    BY <1>5, WentOn DEF FileInv, TypeInv, WaitTooLong
  <2>2. StoppingOf(k)'
    BY <1>5, <2>1 DEF StoppingOf, Goes
  <2>3. \A l \in Cmds : l # k => cmd'[l] = cmd[l]
    BY <2>1 DEF Goes
  <2>4. \A n \in Name : temp[n] # None => temp'[n] # None \/ file'[n] = temp[n] \/ file'[n] = None
    BY <1>5 DEF WaitTooLong
  <2>5. \A n \in Name : temp[n] = None => temp'[n] # None \/ file'[n] = file[n] \/ file'[n] = None
    BY <1>5 DEF WaitTooLong
  <2>6. \A n \in Name : \/ temp'[n] \in {temp[n], None}
                          \/ temp'[n].state # "running"
                          \/ Alive(temp'[n].pid)
    BY <1>5 DEF WaitTooLong
  <2>7. \A l \in Cmds : l # k => StoppingOf(l)'
    BY <2>3, <2>4, <2>5, <2>6, StillStopping
  <2> QED
    BY <2>2, <2>7 DEF Stopping, StoppingOf
<1>6. ASSUME NEW k \in Cmds, Mark(k)
      PROVE  Stopping'
  <2>1. StoppingOf(k)'
    BY <1>6, MarkDoes DEF FileInv, Stopping, StoppingOf, Goes, RunningOf, Alive
  <2>2. \A l \in Cmds : l # k => cmd'[l] = cmd[l]
    BY <1>6, MarkDoes DEF FileInv, TypeInv, Goes
  <2>3. \A n \in Name : temp[n] # None => temp'[n] # None \/ file'[n] = temp[n] \/ file'[n] = None
    BY <1>6, MarkDoes DEF FileInv, TypeInv
  <2>4. \A n \in Name : temp[n] = None => temp'[n] # None \/ file'[n] = file[n] \/ file'[n] = None
    BY <1>6, MarkDoes DEF FileInv, TypeInv
  <2>5. \A n \in Name : \/ temp'[n] \in {temp[n], None}
                          \/ temp'[n].state # "running"
                          \/ Alive(temp'[n].pid)
    BY <1>6, MarkDoes DEF FileInv, TypeInv
  <2>6. \A l \in Cmds : l # k => StoppingOf(l)'
    BY <2>2, <2>3, <2>4, <2>5, StillStopping
  <2> QED
    BY <2>1, <2>6 DEF Stopping, StoppingOf
<1>7. ASSUME NEW k \in Cmds, MarkRename(k)
      PROVE  Stopping'
  <2>1. StoppingOf(k)'
    BY <1>7, MarkRenameDoes DEF FileInv, StoppingOf, Goes
  <2>2. \A l \in Cmds : l # k => cmd'[l] = cmd[l]
    BY <1>7, MarkRenameDoes DEF FileInv, TypeInv, Goes
  <2>3. \A n \in Name : temp[n] # None => temp'[n] # None \/ file'[n] = temp[n] \/ file'[n] = None
    BY <1>7, MarkRenameDoes, Renamed DEF FileInv, TypeInv
  <2>4. \A n \in Name : temp[n] = None => temp'[n] # None \/ file'[n] = file[n] \/ file'[n] = None
    BY <1>7, MarkRenameDoes, Renamed DEF FileInv, TypeInv
  <2>5. \A n \in Name : \/ temp'[n] \in {temp[n], None}
                          \/ temp'[n].state # "running"
                          \/ Alive(temp'[n].pid)
    BY <1>7, MarkRenameDoes, Renamed DEF FileInv, TypeInv
  <2>6. \A l \in Cmds : l # k => StoppingOf(l)'
    BY <2>2, <2>3, <2>4, <2>5, StillStopping
  <2> QED
    BY <2>1, <2>6 DEF Stopping, StoppingOf
<1>8. ASSUME NEW k \in Cmds, Poll(k)
      PROVE  Stopping'
  <2>1. Goes(k, "done")
    BY <1>8, WentOn DEF FileInv, TypeInv, Poll
  <2>2. StoppingOf(k)'
    BY <1>8, <2>1 DEF StoppingOf, Goes
  <2>3. \A l \in Cmds : l # k => cmd'[l] = cmd[l]
    BY <2>1 DEF Goes
  <2>4. \A n \in Name : temp[n] # None => temp'[n] # None \/ file'[n] = temp[n] \/ file'[n] = None
    BY <1>8 DEF Poll
  <2>5. \A n \in Name : temp[n] = None => temp'[n] # None \/ file'[n] = file[n] \/ file'[n] = None
    BY <1>8 DEF Poll
  <2>6. \A n \in Name : \/ temp'[n] \in {temp[n], None}
                          \/ temp'[n].state # "running"
                          \/ Alive(temp'[n].pid)
    BY <1>8 DEF Poll
  <2>7. \A l \in Cmds : l # k => StoppingOf(l)'
    BY <2>3, <2>4, <2>5, <2>6, StillStopping
  <2> QED
    BY <2>2, <2>7 DEF Stopping, StoppingOf
<1>9. ASSUME NEW k \in Cmds, PollEnds(k)
      PROVE  Stopping'
  <2>1. Goes(k, "done")
    BY <1>9, WentOn DEF FileInv, TypeInv, PollEnds
  <2>2. StoppingOf(k)'
    BY <1>9, <2>1 DEF StoppingOf, Goes
  <2>3. \A l \in Cmds : l # k => cmd'[l] = cmd[l]
    BY <2>1 DEF Goes
  <2>4. \A n \in Name : temp[n] # None => temp'[n] # None \/ file'[n] = temp[n] \/ file'[n] = None
    BY <1>9 DEF PollEnds
  <2>5. \A n \in Name : temp[n] = None => temp'[n] # None \/ file'[n] = file[n] \/ file'[n] = None
    BY <1>9 DEF PollEnds
  <2>6. \A n \in Name : \/ temp'[n] \in {temp[n], None}
                          \/ temp'[n].state # "running"
                          \/ Alive(temp'[n].pid)
    BY <1>9 DEF PollEnds
  <2>7. \A l \in Cmds : l # k => StoppingOf(l)'
    BY <2>3, <2>4, <2>5, <2>6, StillStopping
  <2> QED
    BY <2>2, <2>7 DEF Stopping, StoppingOf
<1>10. ASSUME NEW k \in Cmds, ClearFiles(k)
      PROVE  Stopping'
  <2>1. StoppingOf(k)'
    BY <1>10, ClearDoes DEF FileInv, StoppingOf, Goes
  <2>2. \A l \in Cmds : l # k => cmd'[l] = cmd[l]
    BY <1>10, ClearDoes DEF FileInv, TypeInv, Goes
  <2>3. \A n \in Name : temp[n] # None => temp'[n] # None \/ file'[n] = temp[n] \/ file'[n] = None
    BY <1>10, ClearDoes DEF FileInv, TypeInv
  <2>4. \A n \in Name : temp[n] = None => temp'[n] # None \/ file'[n] = file[n] \/ file'[n] = None
    BY <1>10, ClearDoes DEF FileInv, TypeInv
  <2>5. \A n \in Name : \/ temp'[n] \in {temp[n], None}
                          \/ temp'[n].state # "running"
                          \/ Alive(temp'[n].pid)
    BY <1>10, ClearDoes DEF FileInv, TypeInv
  <2>6. \A l \in Cmds : l # k => StoppingOf(l)'
    BY <2>2, <2>3, <2>4, <2>5, StillStopping
  <2> QED
    BY <2>1, <2>6 DEF Stopping, StoppingOf
<1>11. ASSUME NEW k \in Cmds, NEW p \in Pid, Launch(k, p)
      PROVE  Stopping'
  <2>1. StoppingOf(k)'
    BY <1>11, LaunchDoes DEF FileInv, StoppingOf
  <2>2. \A l \in Cmds : l # k => cmd'[l] = cmd[l]
    BY <1>11, LaunchDoes DEF FileInv, TypeInv, Goes
  <2>3. \A n \in Name : temp[n] # None => temp'[n] # None \/ file'[n] = temp[n] \/ file'[n] = None
    BY <1>11, LaunchDoes DEF FileInv, TypeInv
  <2>4. \A n \in Name : temp[n] = None => temp'[n] # None \/ file'[n] = file[n] \/ file'[n] = None
    BY <1>11, LaunchDoes DEF FileInv, TypeInv
  <2>5. \A n \in Name : \/ temp'[n] \in {temp[n], None}
                          \/ temp'[n].state # "running"
                          \/ Alive(temp'[n].pid)
    BY <1>11, LaunchDoes DEF FileInv, TypeInv
  <2>6. \A l \in Cmds : l # k => StoppingOf(l)'
    BY <2>2, <2>3, <2>4, <2>5, StillStopping
  <2> QED
    BY <2>1, <2>6 DEF Stopping, StoppingOf
<1>12. ASSUME NEW p \in Pid, CoreReady(p)
      PROVE  Stopping'
  <2>1. \A l \in Cmds : cmd'[l] = cmd[l]
    BY <1>12 DEF CoreReady
  <2>2. \A n \in Name : temp[n] # None => temp'[n] # None \/ file'[n] = temp[n] \/ file'[n] = None
    BY <1>12 DEF CoreReady
  <2>3. \A n \in Name : temp[n] = None => temp'[n] # None \/ file'[n] = file[n] \/ file'[n] = None
    BY <1>12 DEF CoreReady
  <2>4. \A n \in Name : \/ temp'[n] \in {temp[n], None}
                          \/ temp'[n].state # "running"
                          \/ Alive(temp'[n].pid)
    BY <1>12 DEF CoreReady
  <2>5. \A l \in Cmds : StoppingOf(l)'
    BY <2>1, <2>2, <2>3, <2>4, StillStopping
  <2> QED
    BY <2>5 DEF Stopping, StoppingOf
<1>13. ASSUME NEW p \in Pid, CoreEnds(p)
      PROVE  Stopping'
  <2>1. \A l \in Cmds : cmd'[l] = cmd[l]
    BY <1>13, EndsDoes DEF FileInv, TypeInv, Goes
  <2>2. \A n \in Name : temp[n] # None => temp'[n] # None \/ file'[n] = temp[n] \/ file'[n] = None
    BY <1>13, EndsDoes DEF FileInv, TypeInv
  <2>3. \A n \in Name : temp[n] = None => temp'[n] # None \/ file'[n] = file[n] \/ file'[n] = None
    BY <1>13, EndsDoes DEF FileInv, TypeInv
  <2>4. \A n \in Name : \/ temp'[n] \in {temp[n], None}
                          \/ temp'[n].state # "running"
                          \/ Alive(temp'[n].pid)
    BY <1>13, EndsDoes DEF FileInv, TypeInv
  <2>5. \A l \in Cmds : StoppingOf(l)'
    BY <2>1, <2>2, <2>3, <2>4, StillStopping
  <2> QED
    BY <2>5 DEF Stopping, StoppingOf
<1>14. ASSUME NEW p \in Pid, CoreQuits(p)
      PROVE  Stopping'
  <2>1. \A l \in Cmds : cmd'[l] = cmd[l]
    BY <1>14 DEF CoreQuits
  <2>2. \A n \in Name : temp[n] # None => temp'[n] # None \/ file'[n] = temp[n] \/ file'[n] = None
    BY <1>14 DEF CoreQuits
  <2>3. \A n \in Name : temp[n] = None => temp'[n] # None \/ file'[n] = file[n] \/ file'[n] = None
    BY <1>14 DEF CoreQuits
  <2>4. \A n \in Name : \/ temp'[n] \in {temp[n], None}
                          \/ temp'[n].state # "running"
                          \/ Alive(temp'[n].pid)
    BY <1>14 DEF CoreQuits
  <2>5. \A l \in Cmds : StoppingOf(l)'
    BY <2>1, <2>2, <2>3, <2>4, StillStopping
  <2> QED
    BY <2>5 DEF Stopping, StoppingOf
<1>15. ASSUME NEW p \in Pid, CoreWrites(p)
      PROVE  Stopping'
  <2>1. \A l \in Cmds : cmd'[l] = cmd[l]
    BY <1>15, WritesDoes DEF FileInv, TypeInv, Goes
  <2>2. \A n \in Name : temp[n] # None => temp'[n] # None \/ file'[n] = temp[n] \/ file'[n] = None
    BY <1>15, WritesDoes DEF FileInv, TypeInv
  <2>3. \A n \in Name : temp[n] = None => temp'[n] # None \/ file'[n] = file[n] \/ file'[n] = None
    BY <1>15, WritesDoes DEF FileInv, TypeInv
  <2>4. \A n \in Name : \/ temp'[n] \in {temp[n], None}
                          \/ temp'[n].state # "running"
                          \/ Alive(temp'[n].pid)
    BY <1>15, WritesDoes DEF Alive, FileInv, TypeInv
  <2>5. \A l \in Cmds : StoppingOf(l)'
    BY <2>1, <2>2, <2>3, <2>4, StillStopping
  <2> QED
    BY <2>5 DEF Stopping, StoppingOf
<1>16. ASSUME NEW p \in Pid, CoreRenames(p)
      PROVE  Stopping'
  <2>1. \A l \in Cmds : cmd'[l] = cmd[l]
    BY <1>16, RenamesDoes DEF FileInv, TypeInv, Goes
  <2>2. \A n \in Name : temp[n] # None => temp'[n] # None \/ file'[n] = temp[n] \/ file'[n] = None
    BY <1>16, RenamesDoes, Renamed DEF FileInv, TypeInv
  <2>3. \A n \in Name : temp[n] = None => temp'[n] # None \/ file'[n] = file[n] \/ file'[n] = None
    BY <1>16, RenamesDoes, Renamed DEF FileInv, TypeInv
  <2>4. \A n \in Name : \/ temp'[n] \in {temp[n], None}
                          \/ temp'[n].state # "running"
                          \/ Alive(temp'[n].pid)
    BY <1>16, RenamesDoes, Renamed DEF FileInv, TypeInv
  <2>5. \A l \in Cmds : StoppingOf(l)'
    BY <2>1, <2>2, <2>3, <2>4, StillStopping
  <2> QED
    BY <2>5 DEF Stopping, StoppingOf
<1>17. ASSUME NEW p \in Pid, CoreExits(p)
      PROVE  Stopping'
  <2>1. \A l \in Cmds : cmd'[l] = cmd[l]
    BY <1>17 DEF CoreExits
  <2>2. \A n \in Name : temp[n] # None => temp'[n] # None \/ file'[n] = temp[n] \/ file'[n] = None
    BY <1>17 DEF CoreExits
  <2>3. \A n \in Name : temp[n] = None => temp'[n] # None \/ file'[n] = file[n] \/ file'[n] = None
    BY <1>17 DEF CoreExits
  <2>4. \A n \in Name : \/ temp'[n] \in {temp[n], None}
                          \/ temp'[n].state # "running"
                          \/ Alive(temp'[n].pid)
    BY <1>17 DEF CoreExits
  <2>5. \A l \in Cmds : StoppingOf(l)'
    BY <2>1, <2>2, <2>3, <2>4, StillStopping
  <2> QED
    BY <2>5 DEF Stopping, StoppingOf
<1>18. ASSUME NEW p \in Pid, Crash(p)
      PROVE  Stopping'
  <2>1. \A l \in Cmds : cmd'[l] = cmd[l]
    BY <1>18 DEF Crash
  <2>2. \A n \in Name : temp[n] # None => temp'[n] # None \/ file'[n] = temp[n] \/ file'[n] = None
    BY <1>18 DEF Crash
  <2>3. \A n \in Name : temp[n] = None => temp'[n] # None \/ file'[n] = file[n] \/ file'[n] = None
    BY <1>18 DEF Crash
  <2>4. \A n \in Name : \/ temp'[n] \in {temp[n], None}
                          \/ temp'[n].state # "running"
                          \/ Alive(temp'[n].pid)
    BY <1>18 DEF Crash
  <2>5. \A l \in Cmds : StoppingOf(l)'
    BY <2>1, <2>2, <2>3, <2>4, StillStopping
  <2> QED
    BY <2>5 DEF Stopping, StoppingOf
<1>19. CASE UNCHANGED vars
  <2>1. \A l \in Cmds : cmd'[l] = cmd[l]
    BY <1>19 DEF vars
  <2>2. \A n \in Name : temp[n] # None => temp'[n] # None \/ file'[n] = temp[n] \/ file'[n] = None
    BY <1>19 DEF vars
  <2>3. \A n \in Name : temp[n] = None => temp'[n] # None \/ file'[n] = file[n] \/ file'[n] = None
    BY <1>19 DEF vars
  <2>4. \A n \in Name : \/ temp'[n] \in {temp[n], None}
                          \/ temp'[n].state # "running"
                          \/ Alive(temp'[n].pid)
    BY <1>19 DEF vars
  <2>5. \A l \in Cmds : StoppingOf(l)'
    BY <2>1, <2>2, <2>3, <2>4, StillStopping
  <2> QED
    BY <2>5 DEF Stopping, StoppingOf
<1> QED
  BY <1>1, <1>2, <1>3, <1>4, <1>5, <1>6, <1>7, <1>8, <1>9, <1>10, <1>11, <1>12, <1>13,
     <1>14, <1>15, <1>16, <1>17, <1>18, <1>19, WhoBegins DEF Next, CmdStep, CoreStep,
     FileInv

LEMMA FileInvInit == Init => FileInv
<1>1. Init => TypeInv
  BY TypeInvInit
<1>2. Init => Temps /\ Files /\ Stopping
  BY NoneIs DEF Init, Temps, Files, Stopping, RunningOf
<1> QED
  BY <1>1, <1>2 DEF FileInv

LEMMA FileInvStep ==
    ASSUME ~Reuse, FileInv, [Next]_vars
    PROVE  FileInv'
<1>1. TypeInv
  BY DEF FileInv
<1>2. TypeOK' /\ Equipped' /\ AboutBorn'
  BY <1>1, TypeStep, EquippedStep, AboutBornStep
<1>3. Temps' /\ Files' /\ Stopping'
  BY TempsStep, FilesStep, StoppingStep
<1> QED
  BY <1>2, <1>3 DEF FileInv, TypeInv

LEMMA FileInvHolds ==
    ASSUME ~Reuse
    PROVE  Spec => []FileInv
<1>1. FileInv /\ [Next]_vars => FileInv'
  BY FileInvStep
<1> QED
  BY FileInvInit, <1>1, PTL DEF Spec

(***************************************************************************)
(* Whatever commands overlap, a state file says "running" of a core that   *)
(* is gone only if that core crashed (WriteState).                         *)
(***************************************************************************)
THEOREM FinalStateSurvives ==
    ASSUME ~Reuse
    PROVE  Spec => []GoneNotRunning
<1>1. FileInv => GoneNotRunning
  <2> SUFFICES ASSUME FileInv, NEW n \in Name, file[n].state = "running"
               PROVE  Alive(file[n].pid) \/ core[file[n].pid].at = "crashed"
    BY DEF GoneNotRunning
  <2>1. file[n].pid \in Pid
    BY RecordOf DEF FileInv
  <2>2. core[file[n].pid].at \in {"naming", "running", "ending", "crashed", "final"}
    BY <2>1 DEF FileInv, Files, RunningOf
  <2> QED
    BY <2>2 DEF Alive
<1> QED
  BY <1>1, FileInvHolds, PTL

(* The state file when a command leaves the end of Stop. *)
LEMMA EndOfStop ==
    ASSUME FileInv, [Next]_vars
    PROVE  \A l \in Cmds :
               cmd[l].at \in {"mark", "rename"} /\ cmd'[l].at \in {"done", "launch"} =>
                   ~RunningOf(file'[cmd[l].name], cmd[l].pid)
<1>1. ASSUME NEW k \in Cmds, Begun(k)
      PROVE  \A l \in Cmds :
               cmd[l].at \in {"mark", "rename"} /\ cmd'[l].at \in {"done", "launch"} =>
                   ~RunningOf(file'[cmd[l].name], cmd[l].pid)
  BY <1>1, BegunDoes DEF FileInv, TypeInv, Goes
<1>2. ASSUME NEW k \in Cmds, StopLoad(k)
      PROVE  \A l \in Cmds :
               cmd[l].at \in {"mark", "rename"} /\ cmd'[l].at \in {"done", "launch"} =>
                   ~RunningOf(file'[cmd[l].name], cmd[l].pid)
  BY <1>2, StopLoadDoes DEF FileInv, TypeInv, Goes
<1>3. ASSUME NEW k \in Cmds, Signal(k)
      PROVE  \A l \in Cmds :
               cmd[l].at \in {"mark", "rename"} /\ cmd'[l].at \in {"done", "launch"} =>
                   ~RunningOf(file'[cmd[l].name], cmd[l].pid)
  BY <1>3, SignalDoes DEF FileInv, TypeInv, Goes
<1>4. ASSUME NEW k \in Cmds, Wait(k)
      PROVE  \A l \in Cmds :
               cmd[l].at \in {"mark", "rename"} /\ cmd'[l].at \in {"done", "launch"} =>
                   ~RunningOf(file'[cmd[l].name], cmd[l].pid)
  <2>1. Goes(k, "mark")
    BY <1>4, WentOn DEF FileInv, TypeInv, Wait
  <2> QED
    BY <1>4, <2>1 DEF Goes, Wait
<1>5. ASSUME NEW k \in Cmds, WaitTooLong(k)
      PROVE  \A l \in Cmds :
               cmd[l].at \in {"mark", "rename"} /\ cmd'[l].at \in {"done", "launch"} =>
                   ~RunningOf(file'[cmd[l].name], cmd[l].pid)
  <2>1. Goes(k, "done")
    BY <1>5, WentOn DEF FileInv, TypeInv, WaitTooLong
  <2> QED
    BY <1>5, <2>1 DEF Goes, WaitTooLong
<1>6. ASSUME NEW k \in Cmds, Mark(k)
      PROVE  \A l \in Cmds :
               cmd[l].at \in {"mark", "rename"} /\ cmd'[l].at \in {"done", "launch"} =>
                   ~RunningOf(file'[cmd[l].name], cmd[l].pid)
  BY <1>6, MarkDoes DEF FileInv, TypeInv, Goes
<1>7. ASSUME NEW k \in Cmds, MarkRename(k)
      PROVE  \A l \in Cmds :
               cmd[l].at \in {"mark", "rename"} /\ cmd'[l].at \in {"done", "launch"} =>
                   ~RunningOf(file'[cmd[l].name], cmd[l].pid)
  BY <1>7, MarkRenameDoes, Renamed DEF FileInv, TypeInv, Goes, Stopping, RunningOf
<1>8. ASSUME NEW k \in Cmds, Poll(k)
      PROVE  \A l \in Cmds :
               cmd[l].at \in {"mark", "rename"} /\ cmd'[l].at \in {"done", "launch"} =>
                   ~RunningOf(file'[cmd[l].name], cmd[l].pid)
  <2>1. Goes(k, "done")
    BY <1>8, WentOn DEF FileInv, TypeInv, Poll
  <2> QED
    BY <1>8, <2>1 DEF Goes, Poll
<1>9. ASSUME NEW k \in Cmds, PollEnds(k)
      PROVE  \A l \in Cmds :
               cmd[l].at \in {"mark", "rename"} /\ cmd'[l].at \in {"done", "launch"} =>
                   ~RunningOf(file'[cmd[l].name], cmd[l].pid)
  <2>1. Goes(k, "done")
    BY <1>9, WentOn DEF FileInv, TypeInv, PollEnds
  <2> QED
    BY <1>9, <2>1 DEF Goes, PollEnds
<1>10. ASSUME NEW k \in Cmds, ClearFiles(k)
      PROVE  \A l \in Cmds :
               cmd[l].at \in {"mark", "rename"} /\ cmd'[l].at \in {"done", "launch"} =>
                   ~RunningOf(file'[cmd[l].name], cmd[l].pid)
  BY <1>10, ClearDoes DEF FileInv, TypeInv, Goes
<1>11. ASSUME NEW k \in Cmds, NEW p \in Pid, Launch(k, p)
      PROVE  \A l \in Cmds :
               cmd[l].at \in {"mark", "rename"} /\ cmd'[l].at \in {"done", "launch"} =>
                   ~RunningOf(file'[cmd[l].name], cmd[l].pid)
  BY <1>11, LaunchDoes DEF FileInv, TypeInv, Goes
<1>12. ASSUME NEW p \in Pid, CoreReady(p)
      PROVE  \A l \in Cmds :
               cmd[l].at \in {"mark", "rename"} /\ cmd'[l].at \in {"done", "launch"} =>
                   ~RunningOf(file'[cmd[l].name], cmd[l].pid)
  BY <1>12 DEF CoreReady
<1>13. ASSUME NEW p \in Pid, CoreEnds(p)
      PROVE  \A l \in Cmds :
               cmd[l].at \in {"mark", "rename"} /\ cmd'[l].at \in {"done", "launch"} =>
                   ~RunningOf(file'[cmd[l].name], cmd[l].pid)
  BY <1>13 DEF CoreEnds
<1>14. ASSUME NEW p \in Pid, CoreQuits(p)
      PROVE  \A l \in Cmds :
               cmd[l].at \in {"mark", "rename"} /\ cmd'[l].at \in {"done", "launch"} =>
                   ~RunningOf(file'[cmd[l].name], cmd[l].pid)
  BY <1>14 DEF CoreQuits
<1>15. ASSUME NEW p \in Pid, CoreWrites(p)
      PROVE  \A l \in Cmds :
               cmd[l].at \in {"mark", "rename"} /\ cmd'[l].at \in {"done", "launch"} =>
                   ~RunningOf(file'[cmd[l].name], cmd[l].pid)
  BY <1>15 DEF CoreWrites
<1>16. ASSUME NEW p \in Pid, CoreRenames(p)
      PROVE  \A l \in Cmds :
               cmd[l].at \in {"mark", "rename"} /\ cmd'[l].at \in {"done", "launch"} =>
                   ~RunningOf(file'[cmd[l].name], cmd[l].pid)
  BY <1>16 DEF CoreRenames
<1>17. ASSUME NEW p \in Pid, CoreExits(p)
      PROVE  \A l \in Cmds :
               cmd[l].at \in {"mark", "rename"} /\ cmd'[l].at \in {"done", "launch"} =>
                   ~RunningOf(file'[cmd[l].name], cmd[l].pid)
  BY <1>17 DEF CoreExits
<1>18. ASSUME NEW p \in Pid, Crash(p)
      PROVE  \A l \in Cmds :
               cmd[l].at \in {"mark", "rename"} /\ cmd'[l].at \in {"done", "launch"} =>
                   ~RunningOf(file'[cmd[l].name], cmd[l].pid)
  BY <1>18 DEF Crash
<1>19. CASE UNCHANGED vars
  BY <1>19 DEF vars
<1> QED
  BY <1>1, <1>2, <1>3, <1>4, <1>5, <1>6, <1>7, <1>8, <1>9, <1>10, <1>11, <1>12, <1>13,
     <1>14, <1>15, <1>16, <1>17, <1>18, <1>19, WhoBegins DEF Next, CmdStep, CoreStep,
     FileInv

(***************************************************************************)
(* When Stop returns without an error, the process it signalled has ended  *)
(* and the state file does not say that it runs.                           *)
(***************************************************************************)
THEOREM StoppedIsStopped ==
    ASSUME ~Reuse
    PROVE  Spec => StopStops
<1> DEFINE Act == \A k \in Cmds :
               cmd[k].at \in {"mark", "rename"} /\ cmd'[k].at \in {"done", "launch"} =>
                   /\ ~Alive(cmd[k].pid)
                   /\ file'[cmd[k].name].state = "running"
                          => file'[cmd[k].name].pid # cmd[k].pid
<1>1. FileInv /\ [Next]_vars => [Act]_vars
  <2> SUFFICES ASSUME FileInv, [Next]_vars
               PROVE  Act
    OBVIOUS
  <2>1. \A k \in Cmds : cmd[k].at \in {"mark", "rename"} => ~Alive(cmd[k].pid)
    BY DEF FileInv, Stopping
  <2> QED
    BY <2>1, EndOfStop DEF RunningOf
<1> QED
  BY <1>1, FileInvHolds, PTL DEF Spec, StopStops

-----------------------------------------------------------------------------
(* The third layer: one command after the other, and no crash.             *)

(* A core that was launched keeps its name and its settings, and is at     *)
(* work only if it was.                                                    *)
KeepsWorking ==
    \A q \in Pid : Born(q) => /\ core'[q].name = core[q].name
                              /\ core'[q].port = core[q].port
                              /\ Working(q)' => Working(q)

LEMMA WorkBefore ==
    ASSUME ~Reuse, TypeInv, [Next]_vars
    PROVE  KeepsWorking
<1>1. ASSUME NEW k \in Cmds, Begun(k)
      PROVE  KeepsWorking
  BY <1>1, BegunDoes DEF TypeInv, Moves, KeepsWorking, Born, Working, Alive
<1>2. ASSUME NEW k \in Cmds, StopLoad(k)
      PROVE  KeepsWorking
  BY <1>2, StopLoadDoes DEF TypeInv, Moves, KeepsWorking, Born, Working, Alive
<1>3. ASSUME NEW k \in Cmds, Signal(k)
      PROVE  KeepsWorking
  BY <1>3, SignalDoes DEF TypeInv, Moves, KeepsWorking, Born, Working, Alive
<1>4. ASSUME NEW k \in Cmds, Wait(k)
      PROVE  KeepsWorking
  <2>1. Goes(k, "mark")
    BY <1>4, WentOn DEF TypeInv, Wait
  <2> QED
    BY <1>4, <2>1 DEF Goes, Wait, KeepsWorking, Born, Working, Alive
<1>5. ASSUME NEW k \in Cmds, WaitTooLong(k)
      PROVE  KeepsWorking
  <2>1. Goes(k, "done")
    BY <1>5, WentOn DEF TypeInv, WaitTooLong
  <2> QED
    BY <1>5, <2>1 DEF Goes, WaitTooLong, KeepsWorking, Born, Working, Alive
<1>6. ASSUME NEW k \in Cmds, Mark(k)
      PROVE  KeepsWorking
  BY <1>6, MarkDoes DEF TypeInv, Moves, KeepsWorking, Born, Working, Alive
<1>7. ASSUME NEW k \in Cmds, MarkRename(k)
      PROVE  KeepsWorking
  BY <1>7, MarkRenameDoes DEF TypeInv, Moves, KeepsWorking, Born, Working, Alive
<1>8. ASSUME NEW k \in Cmds, Poll(k)
      PROVE  KeepsWorking
  <2>1. Goes(k, "done")
    BY <1>8, WentOn DEF TypeInv, Poll
  <2> QED
    BY <1>8, <2>1 DEF Goes, Poll, KeepsWorking, Born, Working, Alive
<1>9. ASSUME NEW k \in Cmds, PollEnds(k)
      PROVE  KeepsWorking
  <2>1. Goes(k, "done")
    BY <1>9, WentOn DEF TypeInv, PollEnds
  <2> QED
    BY <1>9, <2>1 DEF Goes, PollEnds, KeepsWorking, Born, Working, Alive
<1>10. ASSUME NEW k \in Cmds, ClearFiles(k)
      PROVE  KeepsWorking
  BY <1>10, ClearDoes DEF TypeInv, Moves, KeepsWorking, Born, Working, Alive
<1>11. ASSUME NEW k \in Cmds, NEW p \in Pid, Launch(k, p)
      PROVE  KeepsWorking
  BY <1>11, LaunchDoes, LaunchFresh DEF KeepsWorking, Born, Working, Alive
<1>12. ASSUME NEW p \in Pid, CoreReady(p)
      PROVE  KeepsWorking
  <2>1. Moves(p, "ready")
    BY <1>12, Moved DEF TypeInv, Born, Alive, CoreReady
  <2> QED
    BY <1>12, <2>1 DEF Moves, CoreReady, KeepsWorking, Born, Working, Alive
<1>13. ASSUME NEW p \in Pid, CoreEnds(p)
      PROVE  KeepsWorking
  BY <1>13, EndsDoes DEF TypeInv, Moves, KeepsWorking, Born, Working, Alive
<1>14. ASSUME NEW p \in Pid, CoreQuits(p)
      PROVE  KeepsWorking
  <2>1. Moves(p, "gone")
    BY <1>14, Moved DEF TypeInv, Born, Alive, CoreQuits
  <2> QED
    BY <1>14, <2>1 DEF Moves, CoreQuits, KeepsWorking, Born, Working, Alive
<1>15. ASSUME NEW p \in Pid, CoreWrites(p)
      PROVE  KeepsWorking
  BY <1>15, WritesDoes DEF TypeInv, Moves, KeepsWorking, Born, Working, Alive
<1>16. ASSUME NEW p \in Pid, CoreRenames(p)
      PROVE  KeepsWorking
  BY <1>16, RenamesDoes DEF TypeInv, Moves, KeepsWorking, Born, Working, Alive
<1>17. ASSUME NEW p \in Pid, CoreExits(p)
      PROVE  KeepsWorking
  <2>1. Moves(p, "gone")
    BY <1>17, Moved DEF TypeInv, Born, Alive, CoreExits
  <2> QED
    BY <1>17, <2>1 DEF Moves, CoreExits, KeepsWorking, Born, Working, Alive
<1>18. ASSUME NEW p \in Pid, Crash(p)
      PROVE  KeepsWorking
  <2>1. Moves(p, "crashed")
    BY <1>18, Moved DEF TypeInv, Born, Alive, Crash
  <2> QED
    BY <1>18, <2>1 DEF Moves, Crash, KeepsWorking, Born, Working, Alive
<1>19. CASE UNCHANGED vars
  BY <1>19 DEF vars, KeepsWorking, Born, Working, Alive
<1> QED
  BY <1>1, <1>2, <1>3, <1>4, <1>5, <1>6, <1>7, <1>8, <1>9, <1>10, <1>11, <1>12, <1>13,
     <1>14, <1>15, <1>16, <1>17, <1>18, <1>19, WhoBegins DEF Next, CmdStep, CoreStep

LEMMA WorkingType ==
    ASSUME TypeInv, NEW p \in Pid, Working(p)
    PROVE  Born(p) /\ core[p].name \in Name
BY BornType DEF TypeInv, Working, Alive, Born, CoreType

(* A core at work is recorded, unless a command waits for it. *)
LEMMA WorkIsRecorded ==
    ASSUME TypeInv, Orderly, NEW n \in Name, \A k \in Cmds : cmd[k].at # "poll"
    PROVE  /\ \A q \in AtWork(n) : RunningOf(file[n], q)
           /\ ~CheckRunning(n) => AtWork(n) = {}
<1>1. \A q \in AtWork(n) : q \in Pid /\ Working(q) /\ core[q].name = n /\ Alive(q)
  BY DEF AtWork, Working
<1>2. \A q \in AtWork(n) : RunningOf(file[n], q)
  BY <1>1 DEF Orderly, Alone, Known
<1> QED
  BY <1>1, <1>2 DEF CheckRunning, RunningOf

(* Stop never has to mark a core, and never gets to the rename. *)
LEMMA NothingToMark ==
    ASSUME FileInv, Orderly, NEW k \in Cmds, Mark(k)
    PROVE  /\ cmd[k].at = "mark"
           /\ cmd[k].name \in Name
           /\ Goes(k, IF cmd[k].op = "restart" THEN "launch" ELSE "done")
           /\ UNCHANGED <<file, temp, core, started, calm>>
<1>1. TypeInv
  BY DEF FileInv
<1>2. cmd[k].at = "mark" /\ cmd[k].name \in Name
  BY <1>1, MarkDoes
<1>3. cmd[k].pid \in Pid /\ ~Alive(cmd[k].pid)
  BY <1>2 DEF FileInv, TypeInv, Equipped, Stopping
<1>4. ~RunningOf(file[cmd[k].name], cmd[k].pid)
  BY <1>2, <1>3 DEF FileInv, Files, Orderly, Written, Alive
<1> QED
  BY <1>1, <1>4, MarkDoes

(* Only one command is under way. *)
LEMMA OthersIdle ==
    ASSUME Orderly, NEW k \in Cmds, NEW l \in Cmds, l # k,
           cmd[k].at \notin {"new", "done"}
    PROVE  cmd[l].at \in {"new", "done"}
BY DEF Orderly, OneAtATime, UnderWay

LEMMA OneStep ==
    ASSUME ~Reuse, FileInv, Orderly, calm', [Next]_vars
    PROVE  OneAtATime'
<1>1. ASSUME NEW k \in Cmds, Begun(k)
      PROVE  OneAtATime'
  <2>1. UnderWay = {}
    BY <1>1, BegunDoes DEF FileInv, TypeInv
  <2>2. UnderWay' \subseteq {k}
    BY <1>1, <2>1, BegunDoes DEF FileInv, TypeInv, UnderWay
  <2> QED
    BY <2>2 DEF OneAtATime
<1>2. ASSUME NEW k \in Cmds, StopLoad(k)
      PROVE  OneAtATime'
  <2>1. UnderWay' \subseteq UnderWay
    BY <1>2, StopLoadDoes DEF UnderWay, FileInv, TypeInv, Goes
  <2> QED
    BY <2>1 DEF Orderly, OneAtATime
<1>3. ASSUME NEW k \in Cmds, Signal(k)
      PROVE  OneAtATime'
  <2>1. UnderWay' \subseteq UnderWay
    BY <1>3, SignalDoes DEF UnderWay, FileInv, TypeInv, Goes
  <2> QED
    BY <2>1 DEF Orderly, OneAtATime
<1>4. ASSUME NEW k \in Cmds, Wait(k)
      PROVE  OneAtATime'
  <2>1. Goes(k, "mark")
    BY <1>4, WentOn DEF FileInv, TypeInv, Wait
  <2>2. UnderWay' \subseteq UnderWay
    BY <1>4, <2>1 DEF UnderWay, Goes, Wait
  <2> QED
    BY <2>2 DEF Orderly, OneAtATime
<1>5. ASSUME NEW k \in Cmds, WaitTooLong(k)
      PROVE  OneAtATime'
  <2>1. Goes(k, "done")
    BY <1>5, WentOn DEF FileInv, TypeInv, WaitTooLong
  <2>2. UnderWay' \subseteq UnderWay
    BY <1>5, <2>1 DEF UnderWay, Goes, WaitTooLong
  <2> QED
    BY <2>2 DEF Orderly, OneAtATime
<1>6. ASSUME NEW k \in Cmds, Mark(k)
      PROVE  OneAtATime'
  <2>1. UnderWay' \subseteq UnderWay
    BY <1>6, NothingToMark DEF UnderWay, FileInv, TypeInv, Goes
  <2> QED
    BY <2>1 DEF Orderly, OneAtATime
<1>7. ASSUME NEW k \in Cmds, MarkRename(k)
      PROVE  OneAtATime'
  <2>1. UnderWay' \subseteq UnderWay
    BY <1>7, MarkRenameDoes DEF UnderWay, FileInv, TypeInv, Goes
  <2> QED
    BY <2>1 DEF Orderly, OneAtATime
<1>8. ASSUME NEW k \in Cmds, Poll(k)
      PROVE  OneAtATime'
  <2>1. Goes(k, "done")
    BY <1>8, WentOn DEF FileInv, TypeInv, Poll
  <2>2. UnderWay' \subseteq UnderWay
    BY <1>8, <2>1 DEF UnderWay, Goes, Poll
  <2> QED
    BY <2>2 DEF Orderly, OneAtATime
<1>9. ASSUME NEW k \in Cmds, PollEnds(k)
      PROVE  OneAtATime'
  <2>1. Goes(k, "done")
    BY <1>9, WentOn DEF FileInv, TypeInv, PollEnds
  <2>2. UnderWay' \subseteq UnderWay
    BY <1>9, <2>1 DEF UnderWay, Goes, PollEnds
  <2> QED
    BY <2>2 DEF Orderly, OneAtATime
<1>10. ASSUME NEW k \in Cmds, ClearFiles(k)
      PROVE  OneAtATime'
  <2>1. UnderWay' \subseteq UnderWay
    BY <1>10, ClearDoes DEF UnderWay, FileInv, TypeInv, Goes
  <2> QED
    BY <2>1 DEF Orderly, OneAtATime
<1>11. ASSUME NEW k \in Cmds, NEW p \in Pid, Launch(k, p)
      PROVE  OneAtATime'
  <2>1. UnderWay' \subseteq UnderWay
    BY <1>11, LaunchDoes DEF UnderWay, FileInv, TypeInv, Goes
  <2> QED
    BY <2>1 DEF Orderly, OneAtATime
<1>12. ASSUME NEW p \in Pid, CoreReady(p)
      PROVE  OneAtATime'
  <2>1. cmd' = cmd
    BY <1>12 DEF CoreReady
  <2> QED
    BY <2>1 DEF Orderly, OneAtATime, UnderWay
<1>13. ASSUME NEW p \in Pid, CoreEnds(p)
      PROVE  OneAtATime'
  <2>1. cmd' = cmd
    BY <1>13 DEF CoreEnds
  <2> QED
    BY <2>1 DEF Orderly, OneAtATime, UnderWay
<1>14. ASSUME NEW p \in Pid, CoreQuits(p)
      PROVE  OneAtATime'
  <2>1. cmd' = cmd
    BY <1>14 DEF CoreQuits
  <2> QED
    BY <2>1 DEF Orderly, OneAtATime, UnderWay
<1>15. ASSUME NEW p \in Pid, CoreWrites(p)
      PROVE  OneAtATime'
  <2>1. cmd' = cmd
    BY <1>15 DEF CoreWrites
  <2> QED
    BY <2>1 DEF Orderly, OneAtATime, UnderWay
<1>16. ASSUME NEW p \in Pid, CoreRenames(p)
      PROVE  OneAtATime'
  <2>1. cmd' = cmd
    BY <1>16 DEF CoreRenames
  <2> QED
    BY <2>1 DEF Orderly, OneAtATime, UnderWay
<1>17. ASSUME NEW p \in Pid, CoreExits(p)
      PROVE  OneAtATime'
  <2>1. cmd' = cmd
    BY <1>17 DEF CoreExits
  <2> QED
    BY <2>1 DEF Orderly, OneAtATime, UnderWay
<1>18. ASSUME NEW p \in Pid, Crash(p)
      PROVE  OneAtATime'
  <2>1. cmd' = cmd
    BY <1>18 DEF Crash
  <2> QED
    BY <2>1 DEF Orderly, OneAtATime, UnderWay
<1>19. CASE UNCHANGED vars
  BY <1>19 DEF vars, Orderly, OneAtATime, UnderWay
<1> QED
  BY <1>1, <1>2, <1>3, <1>4, <1>5, <1>6, <1>7, <1>8, <1>9, <1>10, <1>11, <1>12, <1>13,
     <1>14, <1>15, <1>16, <1>17, <1>18, <1>19, WhoBegins DEF Next, CmdStep, CoreStep,
     FileInv

(* What Written says of one core. *)
WrittenBy(p) ==
    LET n == core[p].name
        c == core[p]
    IN  /\ c.at # "crashed"
        /\ c.at = "naming" => temp[n] = [state |-> "running", pid |-> p, port |-> c.port]
        /\ c.at = "final" => temp[n] = [state |-> c.final, pid |-> p, port |-> c.port]
        /\ c.at = "running" => file[n] = [state |-> "running", pid |-> p, port |-> c.port]

LEMMA StillWritten ==
    ASSUME Orderly, NEW q \in Pid, core'[q] = core[q],
           Working(q) => /\ temp'[core[q].name] = temp[core[q].name]
                         /\ file'[core[q].name] = file[core[q].name]
    PROVE  WrittenBy(q)'
BY DEF Orderly, Written, WrittenBy, Working, Alive

LEMMA WrittenStep ==
    ASSUME ~Reuse, FileInv, Orderly, calm', [Next]_vars
    PROVE  Written'
<1>1. ASSUME NEW k \in Cmds, Begun(k)
      PROVE  Written'
  <2>1. UNCHANGED <<file, temp, core>>
    BY <1>1, BegunDoes DEF FileInv, TypeInv
  <2> QED
    BY <2>1 DEF Orderly, Written
<1>2. ASSUME NEW k \in Cmds, StopLoad(k)
      PROVE  Written'
  <2>1. UNCHANGED <<file, temp, core>>
    BY <1>2 DEF StopLoad
  <2> QED
    BY <2>1 DEF Orderly, Written
<1>3. ASSUME NEW k \in Cmds, Signal(k)
      PROVE  Written'
  <2>1. file' = file /\ temp' = temp
    BY <1>3, SignalDoes DEF FileInv
  <2>2. \A q \in Pid : /\ core'[q].at = core[q].at
                       /\ core'[q].name = core[q].name
                       /\ core'[q].port = core[q].port
                       /\ core'[q].final = core[q].final
    BY <1>3, SignalDoes DEF FileInv
  <2> QED
    BY <2>1, <2>2 DEF Orderly, Written
<1>4. ASSUME NEW k \in Cmds, Wait(k)
      PROVE  Written'
  <2>1. UNCHANGED <<file, temp, core>>
    BY <1>4 DEF Wait
  <2> QED
    BY <2>1 DEF Orderly, Written
<1>5. ASSUME NEW k \in Cmds, WaitTooLong(k)
      PROVE  Written'
  <2>1. UNCHANGED <<file, temp, core>>
    BY <1>5 DEF WaitTooLong
  <2> QED
    BY <2>1 DEF Orderly, Written
<1>6. ASSUME NEW k \in Cmds, Mark(k)
      PROVE  Written'
  <2>1. UNCHANGED <<file, temp, core>>
    BY <1>6, NothingToMark DEF FileInv
  <2> QED
    BY <2>1 DEF Orderly, Written
<1>7. ASSUME NEW k \in Cmds, MarkRename(k)
      PROVE  Written'
  BY <1>7, MarkRenameDoes DEF FileInv, Orderly, InCharge
<1>8. ASSUME NEW k \in Cmds, Poll(k)
      PROVE  Written'
  <2>1. UNCHANGED <<file, temp, core>>
    BY <1>8 DEF Poll
  <2> QED
    BY <2>1 DEF Orderly, Written
<1>9. ASSUME NEW k \in Cmds, PollEnds(k)
      PROVE  Written'
  <2>1. UNCHANGED <<file, temp, core>>
    BY <1>9 DEF PollEnds
  <2> QED
    BY <2>1 DEF Orderly, Written
<1>10. ASSUME NEW k \in Cmds, ClearFiles(k)
      PROVE  Written'
  <2>1. \A q \in Pid : core[q].at = "running" => core[q].name # cmd[k].name
    BY <1>10, ClearDoes DEF FileInv, Orderly, InCharge, AtWork, Alive
  <2>2. \A q \in Pid : core[q].at = "running" => core[q].name \in Name
    BY WorkingType DEF FileInv, Working, Alive
  <2>3. /\ temp' = temp /\ core' = core
        /\ \A n \in Name : n # cmd[k].name => file'[n] = file[n]
    BY <1>10, ClearDoes DEF FileInv
  <2> QED
    BY <2>1, <2>2, <2>3 DEF Orderly, Written
<1>11. ASSUME NEW k \in Cmds, NEW p \in Pid, Launch(k, p)
      PROVE  Written'
  <2>1. file' = file /\ temp' = temp /\ core'[p].at = "starting" /\ \A q \in Pid : q # p => core'[q] = core[q]
    BY <1>11, LaunchDoes DEF FileInv
  <2>2. \A q \in Pid : q # p => WrittenBy(q)'
    BY <2>1, StillWritten
  <2>3. WrittenBy(p)'
    BY <2>1 DEF WrittenBy
  <2> QED
    BY <2>2, <2>3 DEF Written, WrittenBy
<1>12. ASSUME NEW p \in Pid, CoreReady(p)
      PROVE  Written'
  <2>1. Moves(p, "ready")
    BY <1>12, Moved DEF FileInv, TypeInv, Born, Alive, CoreReady
  <2> QED
    BY <1>12, <2>1 DEF Moves, CoreReady, Orderly, Written
<1>13. ASSUME NEW p \in Pid, CoreEnds(p)
      PROVE  Written'
  <2>1. file' = file /\ temp' = temp /\ core'[p].at = "ending" /\ \A q \in Pid : q # p => core'[q] = core[q]
    BY <1>13, EndsDoes DEF FileInv
  <2>2. \A q \in Pid : q # p => WrittenBy(q)'
    BY <2>1, StillWritten
  <2>3. WrittenBy(p)'
    BY <2>1 DEF WrittenBy
  <2> QED
    BY <2>2, <2>3 DEF Written, WrittenBy
<1>14. ASSUME NEW p \in Pid, CoreQuits(p)
      PROVE  Written'
  <2>1. Moves(p, "gone")
    BY <1>14, Moved DEF FileInv, TypeInv, Born, Alive, CoreQuits
  <2> QED
    BY <1>14, <2>1 DEF Moves, CoreQuits, Orderly, Written
<1>15. ASSUME NEW p \in Pid, CoreWrites(p)
      PROVE  Written'
  <2>1. Working(p)
    BY <1>15 DEF Working, Alive, CoreWrites
  <2>2. \A q \in Pid : Working(q) /\ q # p => core[q].name \in Name /\ core[q].name # core[p].name
    BY <2>1, WorkingType DEF FileInv, Orderly, Alone
  <2>3. \A n \in Name : n # core[p].name => temp'[n] = temp[n]
    BY <1>15, WritesDoes DEF FileInv
  <2>4. file' = file /\ core[p].name \in Name /\ Moves(p, IF core[p].at = "ready" THEN "naming" ELSE "final")
    BY <1>15, WritesDoes DEF FileInv
  <2>5. core'[p].at = "naming" => temp'[core[p].name] = [state |-> "running", pid |-> p, port |-> core[p].port]
    BY <1>15, <2>4, WritesDoes, WritesWhat DEF FileInv, Moves
  <2>6. core'[p].at = "final" => temp'[core[p].name] = [state |-> core[p].final, pid |-> p, port |-> core[p].port]
    BY <1>15, <2>4, WritesDoes, WritesWhat DEF FileInv, Moves
  <2>7. WrittenBy(p)'
    BY <2>4, <2>5, <2>6 DEF WrittenBy, Moves
  <2>8. \A q \in Pid : q # p => core'[q] = core[q]
    BY <2>4 DEF Moves
  <2>9. \A q \in Pid : q # p => WrittenBy(q)'
    BY <2>2, <2>4, <2>3, <2>8, StillWritten
  <2> QED
    BY <2>7, <2>9 DEF Written, WrittenBy
<1>16. ASSUME NEW p \in Pid, CoreRenames(p)
      PROVE  Written'
  <2>1. Working(p)
    BY <1>16 DEF Working, Alive, CoreRenames
  <2>2. \A q \in Pid : Working(q) /\ q # p => core[q].name \in Name /\ core[q].name # core[p].name
    BY <2>1, WorkingType DEF FileInv, Orderly, Alone
  <2>3. Rename(core[p].name) /\ core[p].name \in Name
    BY <1>16, RenamesDoes DEF FileInv
  <2>4. \A n \in Name : n # core[p].name => file'[n] = file[n] /\ temp'[n] = temp[n]
    BY <2>3, Renamed DEF FileInv
  <2>5. core[p].at \in {"naming", "final"} /\ Moves(p, IF core[p].at = "naming" THEN "running" ELSE "leaving")
    BY <1>16, RenamesDoes DEF FileInv
  <2>6. file'[core[p].name] = IF temp[core[p].name] # None THEN temp[core[p].name] ELSE file[core[p].name]
    BY <2>3, Renamed DEF FileInv
  <2>7. core[p].at = "naming" => temp[core[p].name] = [state |-> "running", pid |-> p, port |-> core[p].port]
    BY DEF Orderly, Written
  <2>8. core[p].at = "naming" => temp[core[p].name] # None
    BY <2>7, NoneIs
  <2>9. core[p].at = "naming" => file'[core[p].name] = [state |-> "running", pid |-> p, port |-> core[p].port]
    BY <2>6, <2>7, <2>8
  <2>10. WrittenBy(p)'
    BY <2>5, <2>9 DEF WrittenBy, Moves
  <2>11. \A q \in Pid : q # p => core'[q] = core[q]
    BY <2>5 DEF Moves
  <2>12. \A q \in Pid : q # p => WrittenBy(q)'
    BY <2>2, <2>4, <2>11, StillWritten
  <2> QED
    BY <2>10, <2>12 DEF Written, WrittenBy
<1>17. ASSUME NEW p \in Pid, CoreExits(p)
      PROVE  Written'
  <2>1. Moves(p, "gone")
    BY <1>17, Moved DEF FileInv, TypeInv, Born, Alive, CoreExits
  <2> QED
    BY <1>17, <2>1 DEF Moves, CoreExits, Orderly, Written
<1>18. ASSUME NEW p \in Pid, Crash(p)
      PROVE  Written'
  BY <1>18 DEF Crash
<1>19. CASE UNCHANGED vars
  <2>1. UNCHANGED <<file, temp, core>>
    BY <1>19 DEF vars
  <2> QED
    BY <2>1 DEF Orderly, Written
<1> QED
  BY <1>1, <1>2, <1>3, <1>4, <1>5, <1>6, <1>7, <1>8, <1>9, <1>10, <1>11, <1>12, <1>13,
     <1>14, <1>15, <1>16, <1>17, <1>18, <1>19, WhoBegins DEF Next, CmdStep, CoreStep,
     FileInv

(* Only Launch brings work. *)
OldWork ==
    \A q \in Pid : Working(q)' => /\ Working(q)
                                  /\ core'[q].name = core[q].name
                                  /\ core'[q].port = core[q].port

LEMMA WorkIsOld ==
    ASSUME TypeInv, \A k \in Cmds, p \in Pid : ~Launch(k, p), [Next]_vars
    PROVE  OldWork
<1>1. ASSUME NEW k \in Cmds, Begun(k)
      PROVE  OldWork
  BY <1>1, BegunDoes DEF TypeInv, Moves, OldWork, Working, Alive
<1>2. ASSUME NEW k \in Cmds, StopLoad(k)
      PROVE  OldWork
  BY <1>2, StopLoadDoes DEF TypeInv, Moves, OldWork, Working, Alive
<1>3. ASSUME NEW k \in Cmds, Signal(k)
      PROVE  OldWork
  BY <1>3, SignalDoes DEF TypeInv, Moves, OldWork, Working, Alive
<1>4. ASSUME NEW k \in Cmds, Wait(k)
      PROVE  OldWork
  <2>1. Goes(k, "mark")
    BY <1>4, WentOn DEF TypeInv, Wait
  <2> QED
    BY <1>4, <2>1 DEF Goes, Wait, OldWork, Working, Alive
<1>5. ASSUME NEW k \in Cmds, WaitTooLong(k)
      PROVE  OldWork
  <2>1. Goes(k, "done")
    BY <1>5, WentOn DEF TypeInv, WaitTooLong
  <2> QED
    BY <1>5, <2>1 DEF Goes, WaitTooLong, OldWork, Working, Alive
<1>6. ASSUME NEW k \in Cmds, Mark(k)
      PROVE  OldWork
  BY <1>6, MarkDoes DEF TypeInv, Moves, OldWork, Working, Alive
<1>7. ASSUME NEW k \in Cmds, MarkRename(k)
      PROVE  OldWork
  BY <1>7, MarkRenameDoes DEF TypeInv, Moves, OldWork, Working, Alive
<1>8. ASSUME NEW k \in Cmds, Poll(k)
      PROVE  OldWork
  <2>1. Goes(k, "done")
    BY <1>8, WentOn DEF TypeInv, Poll
  <2> QED
    BY <1>8, <2>1 DEF Goes, Poll, OldWork, Working, Alive
<1>9. ASSUME NEW k \in Cmds, PollEnds(k)
      PROVE  OldWork
  <2>1. Goes(k, "done")
    BY <1>9, WentOn DEF TypeInv, PollEnds
  <2> QED
    BY <1>9, <2>1 DEF Goes, PollEnds, OldWork, Working, Alive
<1>10. ASSUME NEW k \in Cmds, ClearFiles(k)
      PROVE  OldWork
  BY <1>10, ClearDoes DEF TypeInv, Moves, OldWork, Working, Alive
<1>11. ASSUME NEW k \in Cmds, NEW p \in Pid, Launch(k, p)
      PROVE  OldWork
  BY <1>11
<1>12. ASSUME NEW p \in Pid, CoreReady(p)
      PROVE  OldWork
  <2>1. Moves(p, "ready")
    BY <1>12, Moved DEF TypeInv, Born, Alive, CoreReady
  <2> QED
    BY <1>12, <2>1 DEF Moves, CoreReady, OldWork, Working, Alive
<1>13. ASSUME NEW p \in Pid, CoreEnds(p)
      PROVE  OldWork
  BY <1>13, EndsDoes DEF TypeInv, Moves, OldWork, Working, Alive
<1>14. ASSUME NEW p \in Pid, CoreQuits(p)
      PROVE  OldWork
  <2>1. Moves(p, "gone")
    BY <1>14, Moved DEF TypeInv, Born, Alive, CoreQuits
  <2> QED
    BY <1>14, <2>1 DEF Moves, CoreQuits, OldWork, Working, Alive
<1>15. ASSUME NEW p \in Pid, CoreWrites(p)
      PROVE  OldWork
  BY <1>15, WritesDoes DEF TypeInv, Moves, OldWork, Working, Alive
<1>16. ASSUME NEW p \in Pid, CoreRenames(p)
      PROVE  OldWork
  BY <1>16, RenamesDoes DEF TypeInv, Moves, OldWork, Working, Alive
<1>17. ASSUME NEW p \in Pid, CoreExits(p)
      PROVE  OldWork
  <2>1. Moves(p, "gone")
    BY <1>17, Moved DEF TypeInv, Born, Alive, CoreExits
  <2> QED
    BY <1>17, <2>1 DEF Moves, CoreExits, OldWork, Working, Alive
<1>18. ASSUME NEW p \in Pid, Crash(p)
      PROVE  OldWork
  <2>1. Moves(p, "crashed")
    BY <1>18, Moved DEF TypeInv, Born, Alive, Crash
  <2> QED
    BY <1>18, <2>1 DEF Moves, Crash, OldWork, Working, Alive
<1>19. CASE UNCHANGED vars
  BY <1>19 DEF vars, OldWork, Working, Alive
<1> QED
  BY <1>1, <1>2, <1>3, <1>4, <1>5, <1>6, <1>7, <1>8, <1>9, <1>10, <1>11, <1>12, <1>13,
     <1>14, <1>15, <1>16, <1>17, <1>18, <1>19, WhoBegins DEF Next, CmdStep, CoreStep

(* What Alone says, part by part. *)
AllKnown == \A p \in Pid : Working(p) => Known(p)

Fitted == \A p \in Pid : Working(p) => core[p].port = started[core[p].name]

Single ==
    \A p, q \in Pid : Working(p) /\ Working(q) /\ core[q].name = core[p].name => q = p

LEMMA AloneIs == Alone <=> AllKnown /\ Fitted /\ Single
BY DEF Alone, AllKnown, Fitted, Single

LEMMA StillKnown ==
    ASSUME NEW q \in Pid, Known(q), core'[q].name = core[q].name,
           RunningOf(file[core[q].name], q) => RunningOf(file'[core[q].name], q),
           \A l \in Cmds : cmd[l].at = "poll" /\ cmd[l].pid = q =>
                               \/ cmd'[l].at = "poll" /\ cmd'[l].pid = q
                               \/ RunningOf(file'[core[q].name], q)
    PROVE  Known(q)'
BY DEF Known, RunningOf

LEMMA LaunchAlone ==
    ASSUME ~Reuse, FileInv, Orderly, NEW k \in Cmds, NEW p \in Pid, Launch(k, p)
    PROVE  Alone'
<1>1. TypeInv
  BY DEF FileInv
<1>2. /\ cmd[k].at = "launch"
      /\ core'[p].name = cmd[k].name
      /\ core'[p].port = cmd[k].port
      /\ core'[p].at = "starting"
      /\ \A q \in Pid : q # p => core'[q] = core[q]
      /\ cmd'[k].at = "poll" /\ cmd'[k].pid = p
      /\ \A l \in Cmds : l # k => cmd'[l] = cmd[l]
      /\ started'[cmd[k].name] = cmd[k].port
      /\ \A n \in Name : n # cmd[k].name => started'[n] = started[n]
      /\ file' = file
  BY <1>1, LaunchDoes
<1>3. AtWork(cmd[k].name) = {}
  BY <1>2 DEF Orderly, InCharge
<1>4. \A q \in Pid : Working(q) => core[q].name \in Name /\ core[q].name # cmd[k].name
  BY <1>1, <1>3, WorkingType DEF AtWork, Working
<1>5. \A q \in Pid : q # p => (Working(q)' <=> Working(q)) /\ core'[q] = core[q]
  BY <1>2 DEF Working, Alive
<1>6. Known(p)'
  BY <1>2 DEF Known
<1>7. \A q \in Pid : q # p /\ Working(q) => Known(q)'
  <2> SUFFICES ASSUME NEW q \in Pid, q # p, Working(q)
               PROVE  Known(q)'
    OBVIOUS
  <2>1. Known(q) /\ core'[q].name = core[q].name
    BY <1>2 DEF Orderly, Alone
  <2>2. \A l \in Cmds : cmd[l].at = "poll" => cmd'[l] = cmd[l]
    BY <1>2
  <2> QED
    BY <1>2, <2>1, <2>2, StillKnown
<1>8. AllKnown'
  BY <1>5, <1>6, <1>7 DEF AllKnown
<1>9. Fitted'
  BY <1>2, <1>4, <1>5 DEF Fitted, Orderly, Alone
<1>10. Single'
  BY <1>2, <1>4, <1>5 DEF Single, Orderly, Alone
<1> QED
  BY <1>8, <1>9, <1>10, AloneIs, PTL

LEMMA KnownStep ==
    ASSUME ~Reuse, FileInv, Orderly, calm', \A k \in Cmds, p \in Pid : ~Launch(k, p), [Next]_vars
    PROVE  AllKnown'
<1>1. ASSUME NEW k \in Cmds, Begun(k)
      PROVE  AllKnown'
  <2> SUFFICES ASSUME NEW q \in Pid, Working(q)'
               PROVE  Known(q)'
    BY DEF AllKnown
  <2>1. Working(q) /\ core'[q].name = core[q].name
    BY WorkIsOld DEF FileInv, OldWork
  <2>2. Known(q) /\ core[q].name \in Name
    BY <2>1, WorkingType DEF FileInv, Orderly, Alone
  <2>3. \A l \in Cmds : cmd[l].at = "poll" => cmd'[l] = cmd[l]
    BY <1>1, BegunDoes DEF FileInv, TypeInv, Goes
  <2>4. file' = file
    BY <1>1, BegunDoes DEF FileInv, TypeInv
  <2> QED
    BY <2>1, <2>2, <2>3, <2>4, StillKnown
<1>2. ASSUME NEW k \in Cmds, StopLoad(k)
      PROVE  AllKnown'
  <2> SUFFICES ASSUME NEW q \in Pid, Working(q)'
               PROVE  Known(q)'
    BY DEF AllKnown
  <2>1. Working(q) /\ core'[q].name = core[q].name
    BY WorkIsOld DEF FileInv, OldWork
  <2>2. Known(q) /\ core[q].name \in Name
    BY <2>1, WorkingType DEF FileInv, Orderly, Alone
  <2>3. \A l \in Cmds : cmd[l].at = "poll" => cmd'[l] = cmd[l]
    BY <1>2, StopLoadDoes DEF FileInv, TypeInv, Goes
  <2>4. file' = file
    BY <1>2, StopLoadDoes DEF FileInv, TypeInv
  <2> QED
    BY <2>1, <2>2, <2>3, <2>4, StillKnown
<1>3. ASSUME NEW k \in Cmds, Signal(k)
      PROVE  AllKnown'
  <2> SUFFICES ASSUME NEW q \in Pid, Working(q)'
               PROVE  Known(q)'
    BY DEF AllKnown
  <2>1. Working(q) /\ core'[q].name = core[q].name
    BY WorkIsOld DEF FileInv, OldWork
  <2>2. Known(q) /\ core[q].name \in Name
    BY <2>1, WorkingType DEF FileInv, Orderly, Alone
  <2>3. \A l \in Cmds : cmd[l].at = "poll" => cmd'[l] = cmd[l]
    BY <1>3, SignalDoes DEF FileInv, TypeInv, Goes
  <2>4. file' = file
    BY <1>3, SignalDoes DEF FileInv, TypeInv
  <2> QED
    BY <2>1, <2>2, <2>3, <2>4, StillKnown
<1>4. ASSUME NEW k \in Cmds, Wait(k)
      PROVE  AllKnown'
  <2> SUFFICES ASSUME NEW q \in Pid, Working(q)'
               PROVE  Known(q)'
    BY DEF AllKnown
  <2>1. Working(q) /\ core'[q].name = core[q].name
    BY WorkIsOld DEF FileInv, OldWork
  <2>2. Known(q) /\ core[q].name \in Name
    BY <2>1, WorkingType DEF FileInv, Orderly, Alone
  <2>3. Goes(k, "mark")
    BY <1>4, WentOn DEF FileInv, TypeInv, Wait
  <2>4. \A l \in Cmds : cmd[l].at = "poll" => cmd'[l] = cmd[l]
    BY <1>4, <2>3 DEF Goes, Wait
  <2>5. file' = file
    BY <1>4 DEF Wait
  <2> QED
    BY <2>1, <2>2, <2>4, <2>5, StillKnown
<1>5. ASSUME NEW k \in Cmds, WaitTooLong(k)
      PROVE  AllKnown'
  <2> SUFFICES ASSUME NEW q \in Pid, Working(q)'
               PROVE  Known(q)'
    BY DEF AllKnown
  <2>1. Working(q) /\ core'[q].name = core[q].name
    BY WorkIsOld DEF FileInv, OldWork
  <2>2. Known(q) /\ core[q].name \in Name
    BY <2>1, WorkingType DEF FileInv, Orderly, Alone
  <2>3. Goes(k, "done")
    BY <1>5, WentOn DEF FileInv, TypeInv, WaitTooLong
  <2>4. \A l \in Cmds : cmd[l].at = "poll" => cmd'[l] = cmd[l]
    BY <1>5, <2>3 DEF Goes, WaitTooLong
  <2>5. file' = file
    BY <1>5 DEF WaitTooLong
  <2> QED
    BY <2>1, <2>2, <2>4, <2>5, StillKnown
<1>6. ASSUME NEW k \in Cmds, Mark(k)
      PROVE  AllKnown'
  <2> SUFFICES ASSUME NEW q \in Pid, Working(q)'
               PROVE  Known(q)'
    BY DEF AllKnown
  <2>1. Working(q) /\ core'[q].name = core[q].name
    BY WorkIsOld DEF FileInv, OldWork
  <2>2. Known(q) /\ core[q].name \in Name
    BY <2>1, WorkingType DEF FileInv, Orderly, Alone
  <2>3. \A l \in Cmds : cmd[l].at = "poll" => cmd'[l] = cmd[l]
    BY <1>6, NothingToMark DEF FileInv, TypeInv, Goes
  <2>4. file' = file
    BY <1>6, NothingToMark DEF FileInv
  <2> QED
    BY <2>1, <2>2, <2>3, <2>4, StillKnown
<1>7. ASSUME NEW k \in Cmds, MarkRename(k)
      PROVE  AllKnown'
  BY <1>7, MarkRenameDoes DEF FileInv, Orderly, InCharge
<1>8. ASSUME NEW k \in Cmds, Poll(k)
      PROVE  AllKnown'
  <2> SUFFICES ASSUME NEW q \in Pid, Working(q)'
               PROVE  Known(q)'
    BY DEF AllKnown
  <2>1. Working(q) /\ core'[q].name = core[q].name
    BY WorkIsOld DEF FileInv, OldWork
  <2>2. Known(q) /\ core[q].name \in Name
    BY <2>1, WorkingType DEF FileInv, Orderly, Alone
  <2>3. Goes(k, "done")
    BY <1>8, WentOn DEF FileInv, TypeInv, Poll
  <2>4. \A l \in Cmds : cmd[l].at = "poll" /\ l # k => cmd'[l] = cmd[l]
    BY <2>3 DEF Goes
  <2>5. file' = file
    BY <1>8 DEF Poll
  <2>6. cmd[k].name \in Name
    BY <1>8, AskedType DEF FileInv, TypeInv, Poll, CmdType
  <2>7. CASE cmd[k].pid = q
    <3>1. file[cmd[k].name] # None /\ file[cmd[k].name].pid = q /\ file[cmd[k].name].state \in {"running", "failed"}
      BY <1>8, <2>7 DEF Poll
    <3>2. file[cmd[k].name].state = "running"
      BY <2>6, <2>1, <3>1 DEF Orderly, Over
    <3>3. RunningOf(file[cmd[k].name], q) /\ core[q].name = cmd[k].name
      BY <2>6, <3>1, <3>2 DEF FileInv, Files, RunningOf
    <3> QED
      BY <2>5, <2>1, <3>3 DEF Known, RunningOf
  <2>8. CASE cmd[k].pid # q
    BY <2>4, <2>5, <2>8, <2>1, <2>2, StillKnown
  <2> QED
    BY <2>7, <2>8
<1>9. ASSUME NEW k \in Cmds, PollEnds(k)
      PROVE  AllKnown'
  <2> SUFFICES ASSUME NEW q \in Pid, Working(q)'
               PROVE  Known(q)'
    BY DEF AllKnown
  <2>1. Working(q) /\ core'[q].name = core[q].name
    BY WorkIsOld DEF FileInv, OldWork
  <2>2. Known(q) /\ core[q].name \in Name
    BY <2>1, WorkingType DEF FileInv, Orderly, Alone
  <2>3. Goes(k, "done")
    BY <1>9, WentOn DEF FileInv, TypeInv, PollEnds
  <2>4. \A l \in Cmds : cmd[l].at = "poll" /\ l # k => cmd'[l] = cmd[l]
    BY <2>3 DEF Goes
  <2>5. file' = file
    BY <1>9 DEF PollEnds
  <2>6. cmd[k].pid # q
    BY <1>9, <2>1 DEF PollEnds, Working
  <2> QED
    BY <2>4, <2>5, <2>6, <2>1, <2>2, StillKnown
<1>10. ASSUME NEW k \in Cmds, ClearFiles(k)
      PROVE  AllKnown'
  <2> SUFFICES ASSUME NEW q \in Pid, Working(q)'
               PROVE  Known(q)'
    BY DEF AllKnown
  <2>1. Working(q) /\ core'[q].name = core[q].name
    BY WorkIsOld DEF FileInv, OldWork
  <2>2. Known(q) /\ core[q].name \in Name
    BY <2>1, WorkingType DEF FileInv, Orderly, Alone
  <2>3. \A l \in Cmds : cmd[l].at = "poll" => cmd'[l] = cmd[l]
    BY <1>10, ClearDoes DEF FileInv, TypeInv, Goes
  <2>4. core[q].name # cmd[k].name
    BY <1>10, <2>1, ClearDoes DEF FileInv, Orderly, InCharge, AtWork, Working
  <2>5. file'[core[q].name] = file[core[q].name]
    BY <1>10, <2>4, <2>2, ClearDoes DEF FileInv
  <2> QED
    BY <2>1, <2>2, <2>3, <2>5, StillKnown
<1>11. ASSUME NEW k \in Cmds, NEW p \in Pid, Launch(k, p)
      PROVE  AllKnown'
  BY <1>11
<1>12. ASSUME NEW p \in Pid, CoreReady(p)
      PROVE  AllKnown'
  <2> SUFFICES ASSUME NEW q \in Pid, Working(q)'
               PROVE  Known(q)'
    BY DEF AllKnown
  <2>1. Working(q) /\ core'[q].name = core[q].name
    BY WorkIsOld DEF FileInv, OldWork
  <2>2. Known(q) /\ core[q].name \in Name
    BY <2>1, WorkingType DEF FileInv, Orderly, Alone
  <2>3. \A l \in Cmds : cmd[l].at = "poll" => cmd'[l] = cmd[l]
    BY <1>12 DEF CoreReady
  <2>4. file' = file
    BY <1>12 DEF CoreReady
  <2> QED
    BY <2>1, <2>2, <2>3, <2>4, StillKnown
<1>13. ASSUME NEW p \in Pid, CoreEnds(p)
      PROVE  AllKnown'
  <2> SUFFICES ASSUME NEW q \in Pid, Working(q)'
               PROVE  Known(q)'
    BY DEF AllKnown
  <2>1. Working(q) /\ core'[q].name = core[q].name
    BY WorkIsOld DEF FileInv, OldWork
  <2>2. Known(q) /\ core[q].name \in Name
    BY <2>1, WorkingType DEF FileInv, Orderly, Alone
  <2>3. \A l \in Cmds : cmd[l].at = "poll" => cmd'[l] = cmd[l]
    BY <1>13 DEF CoreEnds
  <2>4. file' = file
    BY <1>13 DEF CoreEnds
  <2> QED
    BY <2>1, <2>2, <2>3, <2>4, StillKnown
<1>14. ASSUME NEW p \in Pid, CoreQuits(p)
      PROVE  AllKnown'
  <2> SUFFICES ASSUME NEW q \in Pid, Working(q)'
               PROVE  Known(q)'
    BY DEF AllKnown
  <2>1. Working(q) /\ core'[q].name = core[q].name
    BY WorkIsOld DEF FileInv, OldWork
  <2>2. Known(q) /\ core[q].name \in Name
    BY <2>1, WorkingType DEF FileInv, Orderly, Alone
  <2>3. \A l \in Cmds : cmd[l].at = "poll" => cmd'[l] = cmd[l]
    BY <1>14 DEF CoreQuits
  <2>4. file' = file
    BY <1>14 DEF CoreQuits
  <2> QED
    BY <2>1, <2>2, <2>3, <2>4, StillKnown
<1>15. ASSUME NEW p \in Pid, CoreWrites(p)
      PROVE  AllKnown'
  <2> SUFFICES ASSUME NEW q \in Pid, Working(q)'
               PROVE  Known(q)'
    BY DEF AllKnown
  <2>1. Working(q) /\ core'[q].name = core[q].name
    BY WorkIsOld DEF FileInv, OldWork
  <2>2. Known(q) /\ core[q].name \in Name
    BY <2>1, WorkingType DEF FileInv, Orderly, Alone
  <2>3. \A l \in Cmds : cmd[l].at = "poll" => cmd'[l] = cmd[l]
    BY <1>15 DEF CoreWrites
  <2>4. file' = file
    BY <1>15 DEF CoreWrites
  <2> QED
    BY <2>1, <2>2, <2>3, <2>4, StillKnown
<1>16. ASSUME NEW p \in Pid, CoreRenames(p)
      PROVE  AllKnown'
  <2> SUFFICES ASSUME NEW q \in Pid, Working(q)'
               PROVE  Known(q)'
    BY DEF AllKnown
  <2>1. Working(q) /\ core'[q].name = core[q].name
    BY WorkIsOld DEF FileInv, OldWork
  <2>2. Known(q) /\ core[q].name \in Name
    BY <2>1, WorkingType DEF FileInv, Orderly, Alone
  <2>3. \A l \in Cmds : cmd[l].at = "poll" => cmd'[l] = cmd[l]
    BY <1>16 DEF CoreRenames
  <2>4. Working(p)
    BY <1>16 DEF CoreRenames, Working, Alive
  <2>5. core[q].name = core[p].name => q = p
    BY <2>4, <2>1 DEF Orderly, Alone
  <2>6. core[q].name # core[p].name => file'[core[q].name] = file[core[q].name]
    BY <1>16, <2>2, RenamesDoes, Renamed DEF FileInv
  <2>7. CASE q = p
    <3>1. core'[p].at = "running"
      BY <1>16, <2>7, RenamesDoes DEF FileInv, Moves, Working
    <3>2. file'[core'[p].name] = [state |-> "running", pid |-> p, port |-> core'[p].port]
      BY <3>1, WrittenStep DEF Written
    <3> QED
      BY <2>7, <3>2 DEF Known, RunningOf
  <2>8. CASE q # p
    <3>1. file'[core[q].name] = file[core[q].name]
      BY <2>5, <2>6, <2>8
    <3> QED
      BY <2>3, <2>1, <2>2, <3>1, StillKnown
  <2> QED
    BY <2>7, <2>8
<1>17. ASSUME NEW p \in Pid, CoreExits(p)
      PROVE  AllKnown'
  <2> SUFFICES ASSUME NEW q \in Pid, Working(q)'
               PROVE  Known(q)'
    BY DEF AllKnown
  <2>1. Working(q) /\ core'[q].name = core[q].name
    BY WorkIsOld DEF FileInv, OldWork
  <2>2. Known(q) /\ core[q].name \in Name
    BY <2>1, WorkingType DEF FileInv, Orderly, Alone
  <2>3. \A l \in Cmds : cmd[l].at = "poll" => cmd'[l] = cmd[l]
    BY <1>17 DEF CoreExits
  <2>4. file' = file
    BY <1>17 DEF CoreExits
  <2> QED
    BY <2>1, <2>2, <2>3, <2>4, StillKnown
<1>18. ASSUME NEW p \in Pid, Crash(p)
      PROVE  AllKnown'
  BY <1>18 DEF Crash
<1>19. CASE UNCHANGED vars
  <2> SUFFICES ASSUME NEW q \in Pid, Working(q)'
               PROVE  Known(q)'
    BY DEF AllKnown
  <2>1. Working(q) /\ core'[q].name = core[q].name
    BY WorkIsOld DEF FileInv, OldWork
  <2>2. Known(q) /\ core[q].name \in Name
    BY <2>1, WorkingType DEF FileInv, Orderly, Alone
  <2>3. \A l \in Cmds : cmd[l].at = "poll" => cmd'[l] = cmd[l]
    BY <1>19 DEF vars
  <2>4. file' = file
    BY <1>19 DEF vars
  <2> QED
    BY <2>1, <2>2, <2>3, <2>4, StillKnown
<1> QED
  BY <1>1, <1>2, <1>3, <1>4, <1>5, <1>6, <1>7, <1>8, <1>9, <1>10, <1>11, <1>12, <1>13,
     <1>14, <1>15, <1>16, <1>17, <1>18, <1>19, WhoBegins DEF Next, CmdStep, CoreStep,
     FileInv

LEMMA StartedStays ==
    ASSUME TypeInv, \A k \in Cmds, p \in Pid : ~Launch(k, p), [Next]_vars
    PROVE  started' = started
<1>1. ASSUME NEW k \in Cmds, Begun(k)
      PROVE  started' = started
  BY <1>1 DEF Begun, Begin
<1>2. ASSUME NEW k \in Cmds, StopLoad(k)
      PROVE  started' = started
  BY <1>2 DEF StopLoad
<1>3. ASSUME NEW k \in Cmds, Signal(k)
      PROVE  started' = started
  BY <1>3 DEF Signal
<1>4. ASSUME NEW k \in Cmds, Wait(k)
      PROVE  started' = started
  BY <1>4 DEF Wait
<1>5. ASSUME NEW k \in Cmds, WaitTooLong(k)
      PROVE  started' = started
  BY <1>5 DEF WaitTooLong
<1>6. ASSUME NEW k \in Cmds, Mark(k)
      PROVE  started' = started
  BY <1>6 DEF Mark
<1>7. ASSUME NEW k \in Cmds, MarkRename(k)
      PROVE  started' = started
  BY <1>7 DEF MarkRename
<1>8. ASSUME NEW k \in Cmds, Poll(k)
      PROVE  started' = started
  BY <1>8 DEF Poll
<1>9. ASSUME NEW k \in Cmds, PollEnds(k)
      PROVE  started' = started
  BY <1>9 DEF PollEnds
<1>10. ASSUME NEW k \in Cmds, ClearFiles(k)
      PROVE  started' = started
  BY <1>10 DEF ClearFiles
<1>11. ASSUME NEW k \in Cmds, NEW p \in Pid, Launch(k, p)
      PROVE  started' = started
  BY <1>11
<1>12. ASSUME NEW p \in Pid, CoreReady(p)
      PROVE  started' = started
  BY <1>12 DEF CoreReady
<1>13. ASSUME NEW p \in Pid, CoreEnds(p)
      PROVE  started' = started
  BY <1>13 DEF CoreEnds
<1>14. ASSUME NEW p \in Pid, CoreQuits(p)
      PROVE  started' = started
  BY <1>14 DEF CoreQuits
<1>15. ASSUME NEW p \in Pid, CoreWrites(p)
      PROVE  started' = started
  BY <1>15 DEF CoreWrites
<1>16. ASSUME NEW p \in Pid, CoreRenames(p)
      PROVE  started' = started
  BY <1>16 DEF CoreRenames
<1>17. ASSUME NEW p \in Pid, CoreExits(p)
      PROVE  started' = started
  BY <1>17 DEF CoreExits
<1>18. ASSUME NEW p \in Pid, Crash(p)
      PROVE  started' = started
  BY <1>18 DEF Crash
<1>19. CASE UNCHANGED vars
  BY <1>19 DEF vars
<1> QED
  BY <1>1, <1>2, <1>3, <1>4, <1>5, <1>6, <1>7, <1>8, <1>9, <1>10, <1>11, <1>12, <1>13,
     <1>14, <1>15, <1>16, <1>17, <1>18, <1>19, WhoBegins DEF Next, CmdStep, CoreStep

LEMMA AloneStep ==
    ASSUME ~Reuse, FileInv, Orderly, calm', [Next]_vars
    PROVE  Alone'
<1>1. CASE \E k \in Cmds, p \in Pid : Launch(k, p)
  BY <1>1, LaunchAlone
<1>2. CASE \A k \in Cmds, p \in Pid : ~Launch(k, p)
  <2>1. OldWork
    BY <1>2, WorkIsOld DEF FileInv
  <2>2. AllKnown'
    BY <1>2, KnownStep
  <2>3. started' = started
    BY <1>2, StartedStays DEF FileInv
  <2>4. Fitted'
    BY <2>1, <2>3 DEF Fitted, OldWork, Orderly, Alone
  <2>5. Single'
    BY <2>1 DEF Single, OldWork, Orderly, Alone
  <2> QED
    BY <2>2, <2>4, <2>5, AloneIs, PTL
<1> QED
  BY <1>1, <1>2

(* What Over says of one name. *)
OverOf(n) == file[n] # None /\ file[n].state # "running" => ~Working(file[n].pid)

(* A state file that stays tells of the same cores. *)
LEMMA StillOver ==
    ASSUME ~Reuse, FileInv, Orderly, [Next]_vars, NEW n \in Name, file'[n] = file[n]
    PROVE  OverOf(n)'
<1>1. CASE file[n] # None /\ file[n].state # "running"
  <2>1. file[n].pid \in Pid /\ Born(file[n].pid)
    BY <1>1, RecordOf DEF FileInv
  <2>2. ~Working(file[n].pid)
    BY <1>1 DEF Orderly, Over
  <2> QED
    BY <2>1, <2>2, WorkBefore DEF FileInv, KeepsWorking, OverOf, Working, Alive
<1>2. CASE ~(file[n] # None /\ file[n].state # "running")
  BY <1>2 DEF OverOf
<1> QED
  BY <1>1, <1>2

LEMMA OverStep ==
    ASSUME ~Reuse, FileInv, Orderly, calm', [Next]_vars
    PROVE  Over'
<1>1. ASSUME NEW k \in Cmds, Begun(k)
      PROVE  Over'
  <2>1. file' = file
    BY <1>1, BegunDoes DEF FileInv, TypeInv, Moves
  <2> QED
    BY <2>1, StillOver DEF Over, OverOf
<1>2. ASSUME NEW k \in Cmds, StopLoad(k)
      PROVE  Over'
  <2>1. file' = file
    BY <1>2, StopLoadDoes DEF FileInv, TypeInv, Moves
  <2> QED
    BY <2>1, StillOver DEF Over, OverOf
<1>3. ASSUME NEW k \in Cmds, Signal(k)
      PROVE  Over'
  <2>1. file' = file
    BY <1>3, SignalDoes DEF FileInv, TypeInv, Moves
  <2> QED
    BY <2>1, StillOver DEF Over, OverOf
<1>4. ASSUME NEW k \in Cmds, Wait(k)
      PROVE  Over'
  <2>1. file' = file
    BY <1>4 DEF Wait
  <2> QED
    BY <2>1, StillOver DEF Over, OverOf
<1>5. ASSUME NEW k \in Cmds, WaitTooLong(k)
      PROVE  Over'
  <2>1. file' = file
    BY <1>5 DEF WaitTooLong
  <2> QED
    BY <2>1, StillOver DEF Over, OverOf
<1>6. ASSUME NEW k \in Cmds, Mark(k)
      PROVE  Over'
  <2>1. file' = file
    BY <1>6, NothingToMark DEF FileInv
  <2> QED
    BY <2>1, StillOver DEF Over, OverOf
<1>7. ASSUME NEW k \in Cmds, MarkRename(k)
      PROVE  Over'
  BY <1>7, MarkRenameDoes DEF FileInv, Orderly, InCharge
<1>8. ASSUME NEW k \in Cmds, Poll(k)
      PROVE  Over'
  <2>1. file' = file
    BY <1>8 DEF Poll
  <2> QED
    BY <2>1, StillOver DEF Over, OverOf
<1>9. ASSUME NEW k \in Cmds, PollEnds(k)
      PROVE  Over'
  <2>1. file' = file
    BY <1>9 DEF PollEnds
  <2> QED
    BY <2>1, StillOver DEF Over, OverOf
<1>10. ASSUME NEW k \in Cmds, ClearFiles(k)
      PROVE  Over'
  <2>1. file'[cmd[k].name] = None /\ \A n \in Name : n # cmd[k].name => file'[n] = file[n]
    BY <1>10, ClearDoes DEF FileInv
  <2>2. \A n \in Name : n # cmd[k].name => OverOf(n)'
    BY <2>1, StillOver
  <2> QED
    BY <2>1, <2>2 DEF Over, OverOf
<1>11. ASSUME NEW k \in Cmds, NEW p \in Pid, Launch(k, p)
      PROVE  Over'
  <2>1. file' = file
    BY <1>11, LaunchDoes DEF FileInv, TypeInv, Moves
  <2> QED
    BY <2>1, StillOver DEF Over, OverOf
<1>12. ASSUME NEW p \in Pid, CoreReady(p)
      PROVE  Over'
  <2>1. file' = file
    BY <1>12 DEF CoreReady
  <2> QED
    BY <2>1, StillOver DEF Over, OverOf
<1>13. ASSUME NEW p \in Pid, CoreEnds(p)
      PROVE  Over'
  <2>1. file' = file
    BY <1>13, EndsDoes DEF FileInv, TypeInv, Moves
  <2> QED
    BY <2>1, StillOver DEF Over, OverOf
<1>14. ASSUME NEW p \in Pid, CoreQuits(p)
      PROVE  Over'
  <2>1. file' = file
    BY <1>14 DEF CoreQuits
  <2> QED
    BY <2>1, StillOver DEF Over, OverOf
<1>15. ASSUME NEW p \in Pid, CoreWrites(p)
      PROVE  Over'
  <2>1. file' = file
    BY <1>15, WritesDoes DEF FileInv, TypeInv, Moves
  <2> QED
    BY <2>1, StillOver DEF Over, OverOf
<1>16. ASSUME NEW p \in Pid, CoreRenames(p)
      PROVE  Over'
  <2>1. /\ core[p].at \in {"naming", "final"}
        /\ core[p].name \in Name
        /\ Moves(p, IF core[p].at = "naming" THEN "running" ELSE "leaving")
        /\ Rename(core[p].name)
    BY <1>16, RenamesDoes DEF FileInv
  <2>2. /\ \A n \in Name : n # core[p].name => file'[n] = file[n]
        /\ file'[core[p].name] = IF temp[core[p].name] # None THEN temp[core[p].name] ELSE file[core[p].name]
    BY <2>1, Renamed DEF FileInv
  <2>3. \A n \in Name : n # core[p].name => OverOf(n)'
    BY <2>2, StillOver
  <2>4. \A n \in Name : n = core[p].name /\ temp[n] = None => OverOf(n)'
    BY <2>2, StillOver
  <2>5. core'[p].name = core[p].name
    BY <2>1 DEF Moves
  <2>6. CASE core[p].at = "naming"
    <3>1. temp[core[p].name] = [state |-> "running", pid |-> p, port |-> core[p].port]
      BY <2>6 DEF Orderly, Written
    <3>2. temp[core[p].name] # None => file'[core[p].name].state = "running"
      BY <2>2, <3>1
    <3>3. \A n \in Name : n = core[p].name => OverOf(n)'
      BY <2>4, <3>2 DEF OverOf
    <3> QED
      BY <2>3, <3>3 DEF Over, OverOf
  <2>7. CASE core[p].at = "final"
    <3>1. temp[core[p].name] = [state |-> core[p].final, pid |-> p, port |-> core[p].port]
      BY <2>7 DEF Orderly, Written
    <3>2. temp[core[p].name] # None => file'[core[p].name].pid = p
      BY <2>2, <3>1
    <3>3. core'[p].at = "leaving"
      BY <2>1, <2>7 DEF Moves
    <3>4. \A n \in Name : n = core[p].name => OverOf(n)'
      BY <2>4, <3>2, <3>3 DEF OverOf, Working
    <3> QED
      BY <2>3, <3>4 DEF Over, OverOf
  <2> QED
    BY <2>1, <2>6, <2>7
<1>17. ASSUME NEW p \in Pid, CoreExits(p)
      PROVE  Over'
  <2>1. file' = file
    BY <1>17 DEF CoreExits
  <2> QED
    BY <2>1, StillOver DEF Over, OverOf
<1>18. ASSUME NEW p \in Pid, Crash(p)
      PROVE  Over'
  BY <1>18 DEF Crash
<1>19. CASE UNCHANGED vars
  <2>1. file' = file
    BY <1>19 DEF vars
  <2> QED
    BY <2>1, StillOver DEF Over, OverOf
<1> QED
  BY <1>1, <1>2, <1>3, <1>4, <1>5, <1>6, <1>7, <1>8, <1>9, <1>10, <1>11, <1>12, <1>13,
     <1>14, <1>15, <1>16, <1>17, <1>18, <1>19, WhoBegins DEF Next, CmdStep, CoreStep,
     FileInv

(* What Restartable says of one name. *)
RestartableOf(n) ==
    Saved(n) \/ \E p \in Pid : Working(p) /\ core[p].name = n /\ ~RunningOf(file[n], p)

LEMMA StillRestartable ==
    ASSUME Orderly, NEW n \in Clients, file'[n] = file[n], started'[n] = started[n],
           \A q \in Pid : Working(q) /\ core[q].name = n => Working(q)' /\ core'[q].name = n
    PROVE  RestartableOf(n)'
<1>1. CASE Saved(n)
  BY <1>1 DEF RestartableOf, Saved
<1>2. CASE ~Saved(n)
  <2>1. PICK q \in Pid : Working(q) /\ core[q].name = n /\ ~RunningOf(file[n], q)
    BY <1>2 DEF Orderly, Restartable
  <2>2. Working(q)' /\ core'[q].name = n /\ ~RunningOf(file'[n], q)
    BY <2>1
  <2> QED
    BY <2>2 DEF RestartableOf, RunningOf, Working, Alive
<1> QED
  BY <1>1, <1>2

LEMMA WrittenSome ==
    ASSUME TypeInv, NEW p \in Pid, core[p].at \in {"naming", "final"},
           temp[core[p].name] = [state |-> IF core[p].at = "naming" THEN "running" ELSE core[p].final,
                                 pid |-> p, port |-> core[p].port]
    PROVE  temp[core[p].name] # None
<1>1. core[p].final \in {"failed", "stopped"}
  BY BornType DEF TypeInv, Born, CoreType
<1>2. PICK s : s = IF core[p].at = "naming" THEN "running" ELSE core[p].final
  OBVIOUS
<1>3. temp[core[p].name].state = s
  BY <1>2
<1> QED
  BY <1>1, <1>2, <1>3, NoneIs

LEMMA RestartableStep ==
    ASSUME ~Reuse, FileInv, Orderly, calm', [Next]_vars
    PROVE  Restartable'
<1>1. ASSUME NEW k \in Cmds, Begun(k)
      PROVE  Restartable'
  <2>1. file' = file /\ started' = started
    BY <1>1, BegunDoes DEF FileInv, TypeInv, Moves
  <2>2. \A q \in Pid : Working(q) => Working(q)' /\ core'[q].name = core[q].name
    BY <1>1, BegunDoes DEF Working, Alive, FileInv, TypeInv, Moves
  <2> QED
    BY <2>1, <2>2, StillRestartable DEF Restartable, RestartableOf
<1>2. ASSUME NEW k \in Cmds, StopLoad(k)
      PROVE  Restartable'
  <2>1. file' = file /\ started' = started
    BY <1>2, StopLoadDoes DEF FileInv, TypeInv, Moves
  <2>2. \A q \in Pid : Working(q) => Working(q)' /\ core'[q].name = core[q].name
    BY <1>2, StopLoadDoes DEF Working, Alive, FileInv, TypeInv, Moves
  <2> QED
    BY <2>1, <2>2, StillRestartable DEF Restartable, RestartableOf
<1>3. ASSUME NEW k \in Cmds, Signal(k)
      PROVE  Restartable'
  <2>1. file' = file /\ started' = started
    BY <1>3, SignalDoes DEF FileInv, TypeInv, Moves
  <2>2. \A q \in Pid : Working(q) => Working(q)' /\ core'[q].name = core[q].name
    BY <1>3, SignalDoes DEF FileInv, Working, Alive
  <2> QED
    BY <2>1, <2>2, StillRestartable DEF Restartable, RestartableOf
<1>4. ASSUME NEW k \in Cmds, Wait(k)
      PROVE  Restartable'
  <2>1. file' = file /\ started' = started
    BY <1>4 DEF Wait
  <2>2. \A q \in Pid : Working(q) => Working(q)' /\ core'[q].name = core[q].name
    BY <1>4 DEF Working, Alive, Wait
  <2> QED
    BY <2>1, <2>2, StillRestartable DEF Restartable, RestartableOf
<1>5. ASSUME NEW k \in Cmds, WaitTooLong(k)
      PROVE  Restartable'
  <2>1. file' = file /\ started' = started
    BY <1>5 DEF WaitTooLong
  <2>2. \A q \in Pid : Working(q) => Working(q)' /\ core'[q].name = core[q].name
    BY <1>5 DEF Working, Alive, WaitTooLong
  <2> QED
    BY <2>1, <2>2, StillRestartable DEF Restartable, RestartableOf
<1>6. ASSUME NEW k \in Cmds, Mark(k)
      PROVE  Restartable'
  <2>1. file' = file /\ started' = started
    BY <1>6, NothingToMark DEF FileInv
  <2>2. \A q \in Pid : Working(q) => Working(q)' /\ core'[q].name = core[q].name
    BY <1>6, NothingToMark DEF Working, Alive, FileInv
  <2> QED
    BY <2>1, <2>2, StillRestartable DEF Restartable, RestartableOf
<1>7. ASSUME NEW k \in Cmds, MarkRename(k)
      PROVE  Restartable'
  BY <1>7, MarkRenameDoes DEF FileInv, Orderly, InCharge
<1>8. ASSUME NEW k \in Cmds, Poll(k)
      PROVE  Restartable'
  <2>1. file' = file /\ started' = started
    BY <1>8 DEF Poll
  <2>2. \A q \in Pid : Working(q) => Working(q)' /\ core'[q].name = core[q].name
    BY <1>8 DEF Working, Alive, Poll
  <2> QED
    BY <2>1, <2>2, StillRestartable DEF Restartable, RestartableOf
<1>9. ASSUME NEW k \in Cmds, PollEnds(k)
      PROVE  Restartable'
  <2>1. file' = file /\ started' = started
    BY <1>9 DEF PollEnds
  <2>2. \A q \in Pid : Working(q) => Working(q)' /\ core'[q].name = core[q].name
    BY <1>9 DEF Working, Alive, PollEnds
  <2> QED
    BY <2>1, <2>2, StillRestartable DEF Restartable, RestartableOf
<1>10. ASSUME NEW k \in Cmds, ClearFiles(k)
      PROVE  Restartable'
  <2>1. /\ file'[cmd[k].name] = None
        /\ \A n \in Name : n # cmd[k].name => file'[n] = file[n]
        /\ started' = started /\ core' = core
    BY <1>10, ClearDoes DEF FileInv
  <2>2. \A n \in Clients : n = cmd[k].name => RestartableOf(n)'
    BY <2>1 DEF RestartableOf, Saved
  <2>3. \A q \in Pid : Working(q) => Working(q)' /\ core'[q].name = core[q].name
    BY <2>1 DEF Working, Alive
  <2>4. \A n \in Clients : n # cmd[k].name => RestartableOf(n)'
    BY <2>1, <2>3, StillRestartable DEF Name
  <2> QED
    BY <2>2, <2>4 DEF Restartable, RestartableOf
<1>11. ASSUME NEW k \in Cmds, NEW p \in Pid, Launch(k, p)
      PROVE  Restartable'
  <2>1. /\ cmd[k].name \in Name
        /\ core'[p].at = "starting"
        /\ core'[p].name = cmd[k].name
        /\ \A q \in Pid : q # p => core'[q] = core[q]
        /\ \A n \in Name : n # cmd[k].name => started'[n] = started[n]
        /\ file' = file
    BY <1>11, LaunchDoes DEF FileInv
  <2>2. ~Born(p)
    BY <1>11, LaunchFresh
  <2>3. Working(p)' /\ ~Working(p)
    BY <2>1, <2>2 DEF Working, Alive, Born
  <2>4. ~RunningOf(file'[cmd[k].name], p)
    BY <2>1, <2>2, RecordOf, NoneIs DEF FileInv, RunningOf
  <2>5. \A n \in Clients : n = cmd[k].name => RestartableOf(n)'
    BY <2>1, <2>3, <2>4 DEF RestartableOf, RunningOf
  <2>6. \A q \in Pid : Working(q) => Working(q)' /\ core'[q].name = core[q].name
    BY <2>1, <2>3 DEF Working, Alive
  <2>7. \A n \in Clients : n # cmd[k].name => RestartableOf(n)'
    BY <2>1, <2>6, StillRestartable DEF Name
  <2> QED
    BY <2>5, <2>7 DEF Restartable, RestartableOf
<1>12. ASSUME NEW p \in Pid, CoreReady(p)
      PROVE  Restartable'
  <2>1. file' = file /\ started' = started
    BY <1>12 DEF CoreReady
  <2>2. Moves(p, "ready")
    BY <1>12, Moved DEF FileInv, TypeInv, Born, CoreReady
  <2>3. \A q \in Pid : Working(q) => Working(q)' /\ core'[q].name = core[q].name
    BY <1>12, <2>2 DEF Moves, Working, Alive
  <2> QED
    BY <2>1, <2>3, StillRestartable DEF Restartable, RestartableOf
<1>13. ASSUME NEW p \in Pid, CoreEnds(p)
      PROVE  Restartable'
  <2>1. file' = file /\ started' = started
    BY <1>13 DEF CoreEnds
  <2>2. \A q \in Pid : Working(q) => Working(q)' /\ core'[q].name = core[q].name
    BY <1>13, EndsDoes DEF FileInv, Moves, Working, Alive
  <2> QED
    BY <2>1, <2>2, StillRestartable DEF Restartable, RestartableOf
<1>14. ASSUME NEW p \in Pid, CoreQuits(p)
      PROVE  Restartable'
  <2>1. file' = file /\ started' = started
    BY <1>14 DEF CoreQuits
  <2>2. Moves(p, "gone")
    BY <1>14, Moved DEF FileInv, TypeInv, Born, CoreQuits
  <2>3. core[p].name \notin Clients
    BY <1>14, LifecycleAssumption DEF CoreQuits, ServerName
  <2>4. \A q \in Pid : Working(q) /\ core[q].name \in Clients => Working(q)' /\ core'[q].name = core[q].name
    BY <1>14, <2>2, <2>3 DEF Moves, Working, Alive
  <2> QED
    BY <2>1, <2>4, StillRestartable DEF Restartable, RestartableOf
<1>15. ASSUME NEW p \in Pid, CoreWrites(p)
      PROVE  Restartable'
  <2>1. file' = file /\ started' = started
    BY <1>15 DEF CoreWrites
  <2>2. Moves(p, IF core[p].at = "ready" THEN "naming" ELSE "final")
    BY <1>15, WritesDoes DEF FileInv
  <2>3. core'[p].at \in {"naming", "final"} /\ core'[p].name = core[p].name
    BY <2>2 DEF Moves
  <2>4. \A q \in Pid : q # p => core'[q] = core[q]
    BY <2>2 DEF Moves
  <2>5. \A q \in Pid : Working(q) => Working(q)' /\ core'[q].name = core[q].name
    BY <2>3, <2>4 DEF Working, Alive
  <2> QED
    BY <2>1, <2>5, StillRestartable DEF Restartable, RestartableOf
<1>16. ASSUME NEW p \in Pid, CoreRenames(p)
      PROVE  Restartable'
  <2>1. /\ core[p].at \in {"naming", "final"}
        /\ core[p].name \in Name
        /\ Moves(p, IF core[p].at = "naming" THEN "running" ELSE "leaving")
        /\ Rename(core[p].name)
        /\ started' = started
    BY <1>16, RenamesDoes DEF FileInv
  <2>2. /\ \A n \in Name : n # core[p].name => file'[n] = file[n]
        /\ file'[core[p].name] = IF temp[core[p].name] # None THEN temp[core[p].name] ELSE file[core[p].name]
    BY <2>1, Renamed DEF FileInv
  <2>3. temp[core[p].name] = [state |-> IF core[p].at = "naming" THEN "running" ELSE core[p].final,
                              pid |-> p, port |-> core[p].port]
    BY <2>1 DEF Orderly, Written
  <2>4. temp[core[p].name].port = core[p].port /\ temp[core[p].name].pid = p
    BY <2>3
  <2>5. temp[core[p].name] # None
    BY <2>1, <2>3, WrittenSome DEF FileInv
  <2>6. Working(p)
    BY <2>1 DEF Working, Alive
  <2>7. core[p].port = started[core[p].name]
    BY <2>6 DEF Orderly, Alone
  <2>8. \A n \in Clients : n = core[p].name => RestartableOf(n)'
    BY <2>1, <2>2, <2>4, <2>5, <2>7 DEF RestartableOf, Saved
  <2>9. \A q \in Pid : core[q].name # core[p].name /\ Working(q) => Working(q)' /\ core'[q].name = core[q].name
    BY <2>1 DEF Moves, Working, Alive
  <2>10. \A n \in Clients : n # core[p].name => RestartableOf(n)'
    BY <2>1, <2>2, <2>9, StillRestartable DEF Name
  <2> QED
    BY <2>8, <2>10 DEF Restartable, RestartableOf
<1>17. ASSUME NEW p \in Pid, CoreExits(p)
      PROVE  Restartable'
  <2>1. file' = file /\ started' = started
    BY <1>17 DEF CoreExits
  <2>2. Moves(p, "gone")
    BY <1>17, Moved DEF FileInv, TypeInv, Born, CoreExits
  <2>3. \A q \in Pid : Working(q) => Working(q)' /\ core'[q].name = core[q].name
    BY <1>17, <2>2 DEF Moves, Working, Alive, CoreExits
  <2> QED
    BY <2>1, <2>3, StillRestartable DEF Restartable, RestartableOf
<1>18. ASSUME NEW p \in Pid, Crash(p)
      PROVE  Restartable'
  BY <1>18 DEF Crash
<1>19. CASE UNCHANGED vars
  <2>1. file' = file /\ started' = started
    BY <1>19 DEF vars
  <2>2. \A q \in Pid : Working(q) => Working(q)' /\ core'[q].name = core[q].name
    BY <1>19 DEF vars, Working, Alive
  <2> QED
    BY <2>1, <2>2, StillRestartable DEF Restartable, RestartableOf
<1> QED
  BY <1>1, <1>2, <1>3, <1>4, <1>5, <1>6, <1>7, <1>8, <1>9, <1>10, <1>11, <1>12, <1>13,
     <1>14, <1>15, <1>16, <1>17, <1>18, <1>19, WhoBegins DEF Next, CmdStep, CoreStep,
     FileInv

(* What InCharge says of one command. *)
InChargeOf(k) ==
    /\ cmd[k].at # "rename"
    /\ cmd[k].at \in {"launch", "clear", "mark"} =>
           \A q \in Pid : Working(q) => core[q].name # cmd[k].name
    /\ cmd[k].at \in {"signal", "wait"} =>
           \A q \in Pid : Working(q) /\ core[q].name = cmd[k].name => q = cmd[k].pid
    /\ cmd[k].at \in {"load", "signal", "wait", "mark", "launch"} /\ cmd[k].op = "restart" =>
           cmd[k].name \in Clients /\ cmd[k].port = started[cmd[k].name]

AllInCharge == \A k \in Cmds : InChargeOf(k)

LEMMA InChargeIs == InCharge <=> AllInCharge
BY DEF InCharge, AllInCharge, InChargeOf, AtWork, Working

LEMMA InChargeNext ==
    ASSUME \A k \in Cmds : InChargeOf(k)'
    PROVE  InCharge'
<1>1. AllInCharge'
  BY DEF AllInCharge
<1> QED
  BY <1>1, InChargeIs, PTL

LEMMA OthersInCharge ==
    ASSUME Orderly, NEW k \in Cmds, cmd[k].at \notin {"new", "done"}, NEW l \in Cmds, l # k,
           cmd'[l] = cmd[l]
    PROVE  InChargeOf(l)'
BY OthersIdle DEF InChargeOf

LEMMA StillInCharge ==
    ASSUME Orderly, NEW l \in Cmds, cmd'[l] = cmd[l], started' = started, OldWork
    PROVE  InChargeOf(l)'
<1>1. InChargeOf(l)
  BY InChargeIs DEF AllInCharge, Orderly
<1> QED
  BY <1>1 DEF InChargeOf, OldWork

(* Who finds no core recorded as running finds none at work, when no       *)
(* command waits for one; and what is saved is what was started last.      *)
LEMMA NoneSeen ==
    ASSUME TypeInv, Orderly, NEW n \in Name, \A k \in Cmds : cmd[k].at # "poll"
    PROVE  /\ ~CheckRunning(n) => \A q \in Pid : Working(q) => core[q].name # n
           /\ \A q \in Pid : Working(q) /\ core[q].name = n => q = file[n].pid
           /\ n \in Clients /\ file[n] # None => file[n].port = started[n]
<1>1. \A q \in Pid : Working(q) /\ core[q].name = n => RunningOf(file[n], q) /\ Alive(q)
  BY WorkIsRecorded DEF AtWork, Working
<1>2. n \in Clients => Saved(n)
  BY <1>1 DEF Orderly, Restartable
<1> QED
  BY <1>1, <1>2 DEF RunningOf, CheckRunning, Saved

LEMMA InChargeStep ==
    ASSUME ~Reuse, FileInv, Orderly, calm', [Next]_vars
    PROVE  InCharge'
<1>1. ASSUME NEW k \in Cmds, Begun(k)
      PROVE  InCharge'
  <2>1. UnderWay = {} /\ core' = core /\ started' = started /\ cmd'[k].name \in Name
    BY <1>1, BegunDoes DEF FileInv, TypeInv
  <2>2. \A l \in Cmds : cmd[l].at \in {"new", "done"}
    BY <2>1 DEF UnderWay
  <2>3. \A l \in Cmds : l # k => cmd'[l] = cmd[l]
    BY <1>1, BegunDoes DEF FileInv, TypeInv
  <2>4. \A l \in Cmds : l # k => InChargeOf(l)'
    BY <2>2, <2>3 DEF InChargeOf
  <2>5. cmd'[k].at \in {"launch", "clear"} => \A q \in Pid : Working(q) => core[q].name # cmd'[k].name
    <3>1. cmd'[k].at \in {"launch", "clear"} => ~CheckRunning(cmd'[k].name)
      BY <1>1, BegunDoes DEF FileInv, TypeInv
    <3> QED
      BY <2>1, <2>2, <3>1, NoneSeen DEF FileInv
  <2>6. cmd'[k].op = "restart" => cmd'[k].name \in Clients /\ cmd'[k].port = started[cmd'[k].name]
    <3>1. cmd'[k].op = "restart" => /\ cmd'[k].name \in Clients
                                    /\ file[cmd'[k].name] # None
                                    /\ cmd'[k].port = file[cmd'[k].name].port
      BY <1>1, BegunDoes DEF FileInv, TypeInv
    <3> QED
      BY <2>1, <2>2, <3>1, NoneSeen DEF FileInv
  <2>7. cmd'[k].at \in {"done", "launch", "load", "clear"}
    BY <1>1, BegunDoes DEF FileInv, TypeInv
  <2>8. InChargeOf(k)'
    BY <2>1, <2>5, <2>6, <2>7 DEF InChargeOf, Working, Alive
  <2>9. \A l \in Cmds : InChargeOf(l)'
    BY <2>4, <2>8
  <2> QED
    BY <2>9, InChargeNext
<1>2. ASSUME NEW k \in Cmds, StopLoad(k)
      PROVE  InCharge'
  <2>1. cmd[k].at \notin {"new", "done"}
    BY <1>2, StopLoadDoes DEF FileInv
  <2>2. \A l \in Cmds : l # k => cmd'[l] = cmd[l]
    BY <1>2, StopLoadDoes DEF FileInv, TypeInv, Goes
  <2>3. \A l \in Cmds : l # k => InChargeOf(l)'
    BY <2>1, <2>2, OthersInCharge
  <2>4. cmd[k].at = "load" /\ cmd[k].name \in Name /\ core' = core /\ started' = started
    BY <1>2, StopLoadDoes DEF FileInv
  <2>5. \A l \in Cmds : cmd[l].at # "poll"
    BY <2>1, <2>4, OthersIdle
  <2>6. InChargeOf(k)
    BY InChargeIs DEF AllInCharge, Orderly
  <2>7. InChargeOf(k)'
    <3>1. CASE CheckRunning(cmd[k].name)
      <4>1. /\ cmd'[k].at = "signal" /\ cmd'[k].pid = file[cmd[k].name].pid
            /\ cmd'[k].op = cmd[k].op /\ cmd'[k].name = cmd[k].name /\ cmd'[k].port = cmd[k].port
        BY <1>2, <3>1, StopLoadDoes DEF FileInv
      <4>2. \A q \in Pid : Working(q) /\ core[q].name = cmd[k].name => q = file[cmd[k].name].pid
        BY <2>4, <2>5, NoneSeen DEF FileInv
      <4> QED
        BY <2>4, <2>6, <4>1, <4>2 DEF InChargeOf, Working, Alive
    <3>2. CASE ~CheckRunning(cmd[k].name)
      <4>1. /\ cmd'[k].at \in {"launch", "done"}
            /\ cmd'[k].op = cmd[k].op /\ cmd'[k].name = cmd[k].name /\ cmd'[k].port = cmd[k].port
        BY <1>2, <3>2, StopLoadDoes DEF FileInv
      <4>2. \A q \in Pid : Working(q) => core[q].name # cmd[k].name
        BY <2>4, <2>5, <3>2, NoneSeen DEF FileInv
      <4> QED
        BY <2>4, <2>6, <4>1, <4>2 DEF InChargeOf, Working, Alive
    <3> QED
      BY <3>1, <3>2
  <2>8. \A l \in Cmds : InChargeOf(l)'
    BY <2>3, <2>7
  <2> QED
    BY <2>8, InChargeNext
<1>3. ASSUME NEW k \in Cmds, Signal(k)
      PROVE  InCharge'
  <2>1. cmd[k].at \notin {"new", "done"}
    BY <1>3, SignalDoes DEF FileInv
  <2>2. \A l \in Cmds : l # k => cmd'[l] = cmd[l]
    BY <1>3, SignalDoes DEF FileInv, TypeInv, Goes
  <2>3. \A l \in Cmds : l # k => InChargeOf(l)'
    BY <2>1, <2>2, OthersInCharge
  <2>4. InChargeOf(k) /\ cmd[k].at = "signal" /\ started' = started
    BY <1>3, SignalDoes, InChargeIs DEF AllInCharge, FileInv, Orderly
  <2>5. \A q \in Pid : core'[q].at = core[q].at /\ core'[q].name = core[q].name
    BY <1>3, SignalDoes DEF FileInv
  <2>6. cmd'[k].at \in {"wait", "done"} /\ cmd'[k].op = cmd[k].op /\ cmd'[k].name = cmd[k].name
        /\ cmd'[k].pid = cmd[k].pid /\ cmd'[k].port = cmd[k].port
    BY <1>3, SignalDoes DEF FileInv, Goes
  <2>7. InChargeOf(k)'
    BY <2>4, <2>5, <2>6 DEF InChargeOf, Working, Alive
  <2>8. \A l \in Cmds : InChargeOf(l)'
    BY <2>3, <2>7
  <2> QED
    BY <2>8, InChargeNext
<1>4. ASSUME NEW k \in Cmds, Wait(k)
      PROVE  InCharge'
  <2>1. Goes(k, "mark")
    BY <1>4, WentOn DEF FileInv, TypeInv, Wait
  <2>2. cmd[k].at \notin {"new", "done"}
    BY <1>4 DEF Wait
  <2>3. \A l \in Cmds : l # k => cmd'[l] = cmd[l]
    BY <1>4, <2>1 DEF Goes, Wait
  <2>4. \A l \in Cmds : l # k => InChargeOf(l)'
    BY <2>2, <2>3, OthersInCharge
  <2>5. InChargeOf(k) /\ cmd[k].at = "wait" /\ ~Alive(cmd[k].pid) /\ core' = core /\ started' = started
    BY <1>4, InChargeIs DEF AllInCharge, Orderly, Wait
  <2>6. InChargeOf(k)'
    BY <2>1, <2>5 DEF InChargeOf, Goes, Working, Alive
  <2>7. \A l \in Cmds : InChargeOf(l)'
    BY <2>4, <2>6
  <2> QED
    BY <2>7, InChargeNext
<1>5. ASSUME NEW k \in Cmds, WaitTooLong(k)
      PROVE  InCharge'
  <2>1. Goes(k, "done")
    BY <1>5, WentOn DEF FileInv, TypeInv, WaitTooLong
  <2>2. cmd[k].at \notin {"new", "done"}
    BY <1>5 DEF WaitTooLong
  <2>3. \A l \in Cmds : l # k => cmd'[l] = cmd[l]
    BY <1>5, <2>1 DEF Goes, WaitTooLong
  <2>4. \A l \in Cmds : l # k => InChargeOf(l)'
    BY <2>2, <2>3, OthersInCharge
  <2>5. InChargeOf(k)'
    BY <1>5, <2>1 DEF Goes, InChargeOf
  <2>6. \A l \in Cmds : InChargeOf(l)'
    BY <2>4, <2>5
  <2> QED
    BY <2>6, InChargeNext
<1>6. ASSUME NEW k \in Cmds, Mark(k)
      PROVE  InCharge'
  <2>1. cmd[k].at \notin {"new", "done"}
    BY <1>6, NothingToMark DEF FileInv
  <2>2. \A l \in Cmds : l # k => cmd'[l] = cmd[l]
    BY <1>6, NothingToMark DEF FileInv, TypeInv, Goes
  <2>3. \A l \in Cmds : l # k => InChargeOf(l)'
    BY <2>1, <2>2, OthersInCharge
  <2>4. InChargeOf(k) /\ cmd[k].at = "mark" /\ core' = core /\ started' = started
    BY <1>6, NothingToMark, InChargeIs DEF AllInCharge, FileInv, Orderly
  <2>5. Goes(k, IF cmd[k].op = "restart" THEN "launch" ELSE "done")
    BY <1>6, NothingToMark
  <2>6. InChargeOf(k)'
    BY <2>4, <2>5 DEF InChargeOf, Goes, Working, Alive
  <2>7. \A l \in Cmds : InChargeOf(l)'
    BY <2>3, <2>6
  <2> QED
    BY <2>7, InChargeNext
<1>7. ASSUME NEW k \in Cmds, MarkRename(k)
      PROVE  InCharge'
  BY <1>7, MarkRenameDoes DEF FileInv, Orderly, InCharge
<1>8. ASSUME NEW k \in Cmds, Poll(k)
      PROVE  InCharge'
  <2>1. Goes(k, "done")
    BY <1>8, WentOn DEF FileInv, TypeInv, Poll
  <2>2. cmd[k].at \notin {"new", "done"}
    BY <1>8 DEF Poll
  <2>3. \A l \in Cmds : l # k => cmd'[l] = cmd[l]
    BY <1>8, <2>1 DEF Goes, Poll
  <2>4. \A l \in Cmds : l # k => InChargeOf(l)'
    BY <2>2, <2>3, OthersInCharge
  <2>5. InChargeOf(k)'
    BY <1>8, <2>1 DEF Goes, InChargeOf
  <2>6. \A l \in Cmds : InChargeOf(l)'
    BY <2>4, <2>5
  <2> QED
    BY <2>6, InChargeNext
<1>9. ASSUME NEW k \in Cmds, PollEnds(k)
      PROVE  InCharge'
  <2>1. Goes(k, "done")
    BY <1>9, WentOn DEF FileInv, TypeInv, PollEnds
  <2>2. cmd[k].at \notin {"new", "done"}
    BY <1>9 DEF PollEnds
  <2>3. \A l \in Cmds : l # k => cmd'[l] = cmd[l]
    BY <1>9, <2>1 DEF Goes, PollEnds
  <2>4. \A l \in Cmds : l # k => InChargeOf(l)'
    BY <2>2, <2>3, OthersInCharge
  <2>5. InChargeOf(k)'
    BY <1>9, <2>1 DEF Goes, InChargeOf
  <2>6. \A l \in Cmds : InChargeOf(l)'
    BY <2>4, <2>5
  <2> QED
    BY <2>6, InChargeNext
<1>10. ASSUME NEW k \in Cmds, ClearFiles(k)
      PROVE  InCharge'
  <2>1. cmd[k].at \notin {"new", "done"}
    BY <1>10, ClearDoes DEF FileInv
  <2>2. \A l \in Cmds : l # k => cmd'[l] = cmd[l]
    BY <1>10, ClearDoes DEF FileInv, TypeInv, Goes
  <2>3. \A l \in Cmds : l # k => InChargeOf(l)'
    BY <2>1, <2>2, OthersInCharge
  <2>4. InChargeOf(k)'
    BY <1>10, ClearDoes DEF FileInv, Goes, InChargeOf
  <2>5. \A l \in Cmds : InChargeOf(l)'
    BY <2>3, <2>4
  <2> QED
    BY <2>5, InChargeNext
<1>11. ASSUME NEW k \in Cmds, NEW p \in Pid, Launch(k, p)
      PROVE  InCharge'
  <2>1. cmd[k].at \notin {"new", "done"}
    BY <1>11, LaunchDoes DEF FileInv
  <2>2. \A l \in Cmds : l # k => cmd'[l] = cmd[l]
    BY <1>11, LaunchDoes DEF FileInv, TypeInv, Goes
  <2>3. \A l \in Cmds : l # k => InChargeOf(l)'
    BY <2>1, <2>2, OthersInCharge
  <2>4. InChargeOf(k)'
    BY <1>11, LaunchDoes DEF FileInv, InChargeOf
  <2>5. \A l \in Cmds : InChargeOf(l)'
    BY <2>3, <2>4
  <2> QED
    BY <2>5, InChargeNext
<1>12. ASSUME NEW p \in Pid, CoreReady(p)
      PROVE  InCharge'
  <2>1. Moves(p, "ready")
    BY <1>12, Moved DEF FileInv, TypeInv, Born, Alive, CoreReady
  <2>2. OldWork
    BY <1>12, <2>1 DEF Moves, CoreReady, OldWork, Working, Alive
  <2>3. cmd' = cmd /\ started' = started
    BY <1>12 DEF CoreReady
  <2>4. \A l \in Cmds : InChargeOf(l)'
    BY <2>2, <2>3, StillInCharge
  <2> QED
    BY <2>4, InChargeNext
<1>13. ASSUME NEW p \in Pid, CoreEnds(p)
      PROVE  InCharge'
  <2>1. TypeInv
    BY DEF FileInv
  <2>2. OldWork
    BY <1>13, <2>1, EndsDoes DEF Moves, OldWork, Working, Alive
  <2>3. cmd' = cmd /\ started' = started
    BY <1>13 DEF CoreEnds
  <2>4. \A l \in Cmds : InChargeOf(l)'
    BY <2>2, <2>3, StillInCharge
  <2> QED
    BY <2>4, InChargeNext
<1>14. ASSUME NEW p \in Pid, CoreQuits(p)
      PROVE  InCharge'
  <2>1. Moves(p, "gone")
    BY <1>14, Moved DEF FileInv, TypeInv, Born, Alive, CoreQuits
  <2>2. OldWork
    BY <1>14, <2>1 DEF Moves, CoreQuits, OldWork, Working, Alive
  <2>3. cmd' = cmd /\ started' = started
    BY <1>14 DEF CoreQuits
  <2>4. \A l \in Cmds : InChargeOf(l)'
    BY <2>2, <2>3, StillInCharge
  <2> QED
    BY <2>4, InChargeNext
<1>15. ASSUME NEW p \in Pid, CoreWrites(p)
      PROVE  InCharge'
  <2>1. /\ core[p].at \in {"ready", "ending"}
        /\ core'[p].name = core[p].name
        /\ core'[p].port = core[p].port
        /\ \A q \in Pid : q # p => core'[q] = core[q]
    BY <1>15, WritesDoes DEF FileInv, Moves
  <2>2. OldWork
    BY <2>1 DEF OldWork, Working, Alive
  <2>3. cmd' = cmd /\ started' = started
    BY <1>15 DEF CoreWrites
  <2>4. \A l \in Cmds : InChargeOf(l)'
    BY <2>2, <2>3, StillInCharge
  <2> QED
    BY <2>4, InChargeNext
<1>16. ASSUME NEW p \in Pid, CoreRenames(p)
      PROVE  InCharge'
  <2>1. TypeInv
    BY DEF FileInv
  <2>2. OldWork
    BY <1>16, <2>1, RenamesDoes DEF Moves, OldWork, Working, Alive
  <2>3. cmd' = cmd /\ started' = started
    BY <1>16 DEF CoreRenames
  <2>4. \A l \in Cmds : InChargeOf(l)'
    BY <2>2, <2>3, StillInCharge
  <2> QED
    BY <2>4, InChargeNext
<1>17. ASSUME NEW p \in Pid, CoreExits(p)
      PROVE  InCharge'
  <2>1. Moves(p, "gone")
    BY <1>17, Moved DEF FileInv, TypeInv, Born, Alive, CoreExits
  <2>2. OldWork
    BY <1>17, <2>1 DEF Moves, CoreExits, OldWork, Working, Alive
  <2>3. cmd' = cmd /\ started' = started
    BY <1>17 DEF CoreExits
  <2>4. \A l \in Cmds : InChargeOf(l)'
    BY <2>2, <2>3, StillInCharge
  <2> QED
    BY <2>4, InChargeNext
<1>18. ASSUME NEW p \in Pid, Crash(p)
      PROVE  InCharge'
  BY <1>18 DEF Crash
<1>19. CASE UNCHANGED vars
  <2>1. OldWork
    BY <1>19 DEF vars, OldWork, Working, Alive
  <2>2. cmd' = cmd /\ started' = started
    BY <1>19 DEF vars
  <2>3. \A l \in Cmds : InChargeOf(l)'
    BY <2>1, <2>2, StillInCharge
  <2> QED
    BY <2>3, InChargeNext
<1> QED
  BY <1>1, <1>2, <1>3, <1>4, <1>5, <1>6, <1>7, <1>8, <1>9, <1>10, <1>11, <1>12, <1>13,
     <1>14, <1>15, <1>16, <1>17, <1>18, <1>19, WhoBegins DEF Next, CmdStep, CoreStep,
     FileInv

(* Calm does not come back. *)
LEMMA CalmBefore ==
    ASSUME TypeInv, [Next]_vars
    PROVE  calm' => calm
<1>1. ASSUME NEW k \in Cmds, Begun(k)
      PROVE  calm' => calm
  BY <1>1 DEF Begun, Begin
<1>2. ASSUME NEW k \in Cmds, StopLoad(k)
      PROVE  calm' => calm
  BY <1>2 DEF StopLoad
<1>3. ASSUME NEW k \in Cmds, Signal(k)
      PROVE  calm' => calm
  BY <1>3 DEF Signal
<1>4. ASSUME NEW k \in Cmds, Wait(k)
      PROVE  calm' => calm
  BY <1>4 DEF Wait
<1>5. ASSUME NEW k \in Cmds, WaitTooLong(k)
      PROVE  calm' => calm
  BY <1>5 DEF WaitTooLong
<1>6. ASSUME NEW k \in Cmds, Mark(k)
      PROVE  calm' => calm
  BY <1>6 DEF Mark
<1>7. ASSUME NEW k \in Cmds, MarkRename(k)
      PROVE  calm' => calm
  BY <1>7 DEF MarkRename
<1>8. ASSUME NEW k \in Cmds, Poll(k)
      PROVE  calm' => calm
  BY <1>8 DEF Poll
<1>9. ASSUME NEW k \in Cmds, PollEnds(k)
      PROVE  calm' => calm
  BY <1>9 DEF PollEnds
<1>10. ASSUME NEW k \in Cmds, ClearFiles(k)
      PROVE  calm' => calm
  BY <1>10 DEF ClearFiles
<1>11. ASSUME NEW k \in Cmds, NEW p \in Pid, Launch(k, p)
      PROVE  calm' => calm
  BY <1>11 DEF Launch
<1>12. ASSUME NEW p \in Pid, CoreReady(p)
      PROVE  calm' => calm
  BY <1>12 DEF CoreReady
<1>13. ASSUME NEW p \in Pid, CoreEnds(p)
      PROVE  calm' => calm
  BY <1>13 DEF CoreEnds
<1>14. ASSUME NEW p \in Pid, CoreQuits(p)
      PROVE  calm' => calm
  BY <1>14 DEF CoreQuits
<1>15. ASSUME NEW p \in Pid, CoreWrites(p)
      PROVE  calm' => calm
  BY <1>15 DEF CoreWrites
<1>16. ASSUME NEW p \in Pid, CoreRenames(p)
      PROVE  calm' => calm
  BY <1>16 DEF CoreRenames
<1>17. ASSUME NEW p \in Pid, CoreExits(p)
      PROVE  calm' => calm
  BY <1>17 DEF CoreExits
<1>18. ASSUME NEW p \in Pid, Crash(p)
      PROVE  calm' => calm
  BY <1>18 DEF Crash
<1>19. CASE UNCHANGED vars
  BY <1>19 DEF vars
<1> QED
  BY <1>1, <1>2, <1>3, <1>4, <1>5, <1>6, <1>7, <1>8, <1>9, <1>10, <1>11, <1>12, <1>13,
     <1>14, <1>15, <1>16, <1>17, <1>18, <1>19, WhoBegins DEF Next, CmdStep, CoreStep

LEMMA LifeInvHolds ==
    ASSUME ~Reuse
    PROVE  Spec => []LifeInv
<1>1. Init => LifeInv
  <2> SUFFICES ASSUME Init
               PROVE  Orderly
    BY FileInvInit DEF LifeInv
  <2>1. UnderWay = {} /\ \A p \in Pid : core[p].at = "unborn"
    BY DEF Init, UnderWay
  <2>2. OneAtATime /\ Written /\ Alone
    BY <2>1 DEF OneAtATime, Written, Alone, Working, Alive
  <2>3. Over /\ Restartable
    BY DEF Init, Over, Restartable, Saved, Name
  <2>4. InCharge
    BY DEF Init, InCharge
  <2> QED
    BY <2>2, <2>3, <2>4 DEF Orderly
<1>2. LifeInv /\ [Next]_vars => LifeInv'
  <2> SUFFICES ASSUME LifeInv, [Next]_vars
               PROVE  LifeInv'
    OBVIOUS
  <2>1. FileInv /\ FileInv'
    BY FileInvStep DEF LifeInv
  <2>2. ASSUME calm'
        PROVE  Orderly'
    <3>1. Orderly
      BY <2>1, <2>2, CalmBefore DEF LifeInv, FileInv
    <3> QED
      BY <2>1, <2>2, <3>1, OneStep, WrittenStep, AloneStep, OverStep,
         RestartableStep, InChargeStep
        DEF Orderly
  <2> QED
    BY <2>1, <2>2 DEF LifeInv
<1> QED
  BY <1>1, <1>2, PTL DEF Spec

(***************************************************************************)
(* For who runs one command after the other, the state file of a name      *)
(* tells of its running core, so that stop, status and clear find it       *)
(* (core, launchClient).                                                   *)
(***************************************************************************)
THEOREM RunningIsRecorded ==
    ASSUME ~Reuse
    PROVE  Spec => []Recorded
<1>1. LifeInv => Recorded
  BY DEF LifeInv, Orderly, Written, Recorded
<1> QED
  BY <1>1, LifeInvHolds, PTL

(***************************************************************************)
(* ... no name has two cores at work (start, restart), ...                 *)
(***************************************************************************)
THEOREM NeverTwoCores ==
    ASSUME ~Reuse
    PROVE  Spec => []OneCore
<1>1. LifeInv => OneCore
  <2> SUFFICES ASSUME LifeInv, calm, NEW n \in Name
               PROVE  Cardinality(AtWork(n)) <= 1
    BY DEF OneCore
  <2>1. \A p, q \in AtWork(n) : p = q
    BY DEF LifeInv, Orderly, Alone, AtWork, Working
  <2>2. CASE AtWork(n) = {}
    BY <2>2, FS_EmptySet
  <2>3. CASE AtWork(n) # {}
    <3>1. PICK p : p \in AtWork(n)
      BY <2>3
    <3>2. AtWork(n) = {p}
      BY <2>1, <3>1
    <3>3. Cardinality({p}) = 1
      BY FS_Singleton
    <3> QED
      BY <3>2, <3>3
  <2> QED
    BY <2>2, <2>3
<1> QED
  BY <1>1, LifeInvHolds, PTL

(***************************************************************************)
(* ... and restart launches with the settings of the last start.           *)
(***************************************************************************)
THEOREM RestartsWithTheSame ==
    ASSUME ~Reuse
    PROVE  Spec => []RestartsAlike
<1>1. LifeInv => RestartsAlike
  BY DEF LifeInv, Orderly, InCharge, RestartsAlike
<1> QED
  BY <1>1, LifeInvHolds, PTL

=============================================================================
