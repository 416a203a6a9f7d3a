-------------------------- MODULE CoreGroup_proofs --------------------------
(***************************************************************************)
(* Theorems about CoreGroup: what a core records is true of its services,  *)
(* for every choice of the groups and in every order of their ends.        *)
(***************************************************************************)
EXTENDS CoreGroup, FiniteSetTheorems, TLAPS

(***************************************************************************)
(* The inductive invariant.  A channel that is no longer awaited was       *)
(* closed, and "running" is recorded exactly when none is awaited.         *)
(***************************************************************************)
Counted ==
    /\ group \subseteq await \cup ready
    /\ main # "exited" => record \in {"none", "running"}
    /\ record \in {"none", "running"} => (record = "running" <=> await = {})

(* A ready service has left its start behind it. *)
Opened ==
    \A s \in group \cap ready : svc[s] \notin {"starting", "probing"}

(* Whoever uses something of another service is there to give it back. *)
Owned ==
    /\ relay # "none" =>
           "forward" \in group /\ svc["forward"] \in {"serving", "closing"}
    /\ session => "client" \in group /\ svc["client"] = "serving"
    /\ child = "up" => "sshd" \in group /\ svc["sshd"] \in {"probing", "serving"}
    /\ record \in {"stopped", "failed"} => \A s \in group : svc[s] = "ended"

(* A service that leaves without an error was told to, one with an error broke. *)
Leaving ==
    \A s \in group : svc[s] = "closing" =>
        IF result[s] = "nil" THEN Done ELSE s \in broken

(* Who was first decides whether there is an error. *)
Decided ==
    /\ first.who # "none" => Done
    /\ first.who = "service" => failed
    /\ first.up => group \subseteq ready
    /\ first.who = "signal" /\ first.up /\ broken = {} => ~failed
    /\ record = "stopped" => ~failed
    /\ record = "failed" => failed

CoreInv == TypeOK /\ Counted /\ Opened /\ Owned /\ Leaving /\ Decided

Stage == {"starting", "probing", "serving", "closing", "ended"}

-----------------------------------------------------------------------------
(* Awaited sets are finite, so that remaining counts.                      *)

LEMMA AwaitFinite ==
    ASSUME NEW S \in SUBSET Service
    PROVE  /\ IsFiniteSet(S) /\ Cardinality(S) \in Nat
           /\ Cardinality(S) = 0 <=> S = {}
           /\ \A s \in S : Cardinality(S \ {s}) = Cardinality(S) - 1
<1>1. IsFiniteSet({"forward", "client", "sshd", "server", "proxy"})
  <2>1. IsFiniteSet({})
    BY FS_EmptySet
  <2>2. IsFiniteSet({} \cup {"forward"})
    BY <2>1, FS_AddElement
  <2>3. IsFiniteSet(({} \cup {"forward"}) \cup {"client"})
    BY <2>2, FS_AddElement
  <2>4. IsFiniteSet((({} \cup {"forward"}) \cup {"client"}) \cup {"sshd"})
    BY <2>3, FS_AddElement
  <2>5. IsFiniteSet(((({} \cup {"forward"}) \cup {"client"}) \cup {"sshd"}) \cup {"server"})
    BY <2>4, FS_AddElement
  <2>6. IsFiniteSet((((({} \cup {"forward"}) \cup {"client"}) \cup {"sshd"}) \cup {"server"})
                    \cup {"proxy"})
    BY <2>5, FS_AddElement
  <2>7. {"forward", "client", "sshd", "server", "proxy"} =
        (((({} \cup {"forward"}) \cup {"client"}) \cup {"sshd"}) \cup {"server"}) \cup {"proxy"}
    OBVIOUS
  <2> QED
    BY <2>6, <2>7
<1>2. IsFiniteSet(S)
  BY <1>1, FS_Subset DEF Service
<1> QED
  BY <1>2, FS_CardinalityType, FS_EmptySet, FS_RemoveElement

LEMMA GroupType ==
    ASSUME group \in Groups
    PROVE  group \subseteq Service /\ group # {} /\ Awaited \subseteq Service
           /\ Awaited # {} /\ group \subseteq Awaited
BY GroupAssumption DEF Service, Awaited

LEMMA CoreInit == Init => CoreInv
<1> SUFFICES ASSUME Init PROVE CoreInv
  OBVIOUS
<1>1. group \subseteq Service /\ Awaited \subseteq Service /\ Awaited # {}
      /\ group \subseteq Awaited
  BY GroupType DEF Init
<1>2. TypeOK
  BY <1>1 DEF Init, TypeOK, Nobody
<1>3. Counted /\ Opened
  BY <1>1 DEF Init, Counted, Opened
<1>4. Owned /\ Leaving /\ Decided
  BY DEF Init, Owned, Leaving, Decided, Nobody
<1> QED
  BY <1>2, <1>3, <1>4 DEF CoreInv

-----------------------------------------------------------------------------
(* The steps the services share.                                           *)

LEMMA BlameType ==
    ASSUME first \in [who : {"none", "signal", "service"}, up : BOOLEAN],
           NEW who \in {"signal", "service"}, Blame(who)
    PROVE  first' \in [who : {"none", "signal", "service"}, up : BOOLEAN]
BY DEF Blame

(***************************************************************************)
(* A service may return when it gives back what it owns, without an error  *)
(* when the context is done, and with one that nobody has to answer for    *)
(* otherwise.                                                              *)
(***************************************************************************)
LEMMA ReturnKeeps ==
    ASSUME CoreInv, Live,
           NEW s \in group, NEW err \in {"nil", "error"}, Return(s, err),
           relay' \in {"none", "open", "cut"}, session' \in BOOLEAN,
           child' \in {"none", "up", "gone"},
           relay' # "none" => relay # "none" /\ s # "forward",
           session' => session /\ s # "client",
           child' = "up" => child = "up" /\ s # "sshd",
           err = "nil" => Done,
           err = "error" => s \in broken \/ ~Done \/ svc[s] \in {"starting", "probing"}
    PROVE  CoreInv'
<1>1. TypeOK'
  <2>1. svc' \in [group -> Stage]
    BY DEF CoreInv, TypeOK, Return, Stage
  <2>2. first' \in [who : {"none", "signal", "service"}, up : BOOLEAN]
    BY BlameType DEF CoreInv, TypeOK, Return
  <2>3. ctx' \in {"live", "done"} /\ caught' \in BOOLEAN /\ failed' \in BOOLEAN
    BY DEF CoreInv, TypeOK, Return
  <2>4. UNCHANGED <<group, main, record, await, remaining, result, ready, taken, broken>>
    BY DEF Return, mainVars
  <2> QED
    BY <2>1, <2>2, <2>3, <2>4 DEF CoreInv, TypeOK, Stage
<1>2. Counted'
  BY DEF CoreInv, Counted, Return, mainVars
<1>3. Opened'
  BY DEF CoreInv, TypeOK, Opened, Return
<1>4. Owned'
  BY DEF CoreInv, TypeOK, Counted, Owned, Return, mainVars, Live
<1>5. Leaving'
  BY DEF CoreInv, TypeOK, Leaving, Return, Done
<1>6. Decided'
  <2>1. record \in {"none", "running"}
    BY DEF CoreInv, Counted, Live
  <2>2. first' = first \/ (~Done /\ first'.who = "service" /\ first'.up = (record = "running"))
    BY DEF Return, Blame
  <2>3. (first'.who # "none" => Done') /\ (first'.who = "service" => failed')
    BY <2>2 DEF CoreInv, Decided, Return, Done
  <2>4. first'.up => group \subseteq ready
    BY <2>1, <2>2 DEF CoreInv, Counted, Decided
  <2>5. ASSUME first'.who = "signal", first'.up, broken = {} PROVE ~failed'
    <3>1. first.who = "signal" /\ first.up
      BY <2>2, <2>5
    <3>2. Done /\ group \subseteq ready /\ ~failed
      BY <2>5, <3>1 DEF CoreInv, Decided
    <3>3. svc[s] \notin {"starting", "probing"}
      BY <3>2 DEF CoreInv, Opened
    <3> QED
      BY <2>5, <3>2, <3>3 DEF Return
  <2> QED
    BY <2>1, <2>3, <2>4, <2>5 DEF Decided, Return, mainVars
<1> QED
  BY <1>1, <1>2, <1>3, <1>4, <1>5, <1>6 DEF CoreInv

(* A service closes its ready channel when it begins to serve. *)
LEMMA ReadyKeeps ==
    ASSUME CoreInv, Live, NEW s \in group, BecomesReady(s),
           session' \in BOOLEAN, UNCHANGED child,
           session' => session \/ s = "client",
           svc[s] \in {"starting", "probing"}
    PROVE  CoreInv'
<1>1. TypeOK'
  <2>1. svc' \in [group -> Stage]
    BY DEF CoreInv, TypeOK, BecomesReady, Stage
  <2>2. ready' \subseteq Service
    BY GroupType DEF CoreInv, TypeOK, BecomesReady
  <2> QED
    BY <2>1, <2>2 DEF CoreInv, TypeOK, BecomesReady, mainVars, Stage
<1>2. Counted'
  BY DEF CoreInv, Counted, BecomesReady, mainVars
<1>3. Opened'
  BY DEF CoreInv, TypeOK, Opened, BecomesReady
<1>4. Owned'
  BY DEF CoreInv, TypeOK, Counted, Owned, BecomesReady, mainVars, Live
<1>5. Leaving'
  BY DEF CoreInv, TypeOK, Leaving, BecomesReady, Done
<1>6. Decided'
  BY DEF CoreInv, TypeOK, Decided, BecomesReady, Done, mainVars
<1> QED
  BY <1>1, <1>2, <1>3, <1>4, <1>5, <1>6 DEF CoreInv

(* A listener leaves its loop because it was told to or because it broke. *)
LEMMA LeaveKeeps ==
    ASSUME CoreInv, Live, NEW s \in group \cap Listeners, NEW err \in {"nil", "error"},
           Leave(s, err), broken' \in {broken, broken \cup {s}},
           svc[s] = "serving",
           IF err = "nil" THEN Done ELSE s \in broken'
    PROVE  CoreInv'
<1>1. TypeOK'
  <2>1. svc' \in [group -> Stage]
    BY DEF CoreInv, TypeOK, Leave, Stage
  <2>2. result' \in [group -> {"nil", "error"}]
    BY DEF CoreInv, TypeOK, Leave
  <2>3. broken' \subseteq Service
    BY DEF CoreInv, TypeOK, Listeners, Service
  <2> QED
    BY <2>1, <2>2, <2>3 DEF CoreInv, TypeOK, Leave, mainVars, worldVars, Stage
<1>2. Counted'
  BY DEF CoreInv, Counted, Leave, mainVars
<1>3. Opened'
  BY DEF CoreInv, TypeOK, Opened, Leave
<1>4. Owned'
  BY DEF CoreInv, TypeOK, Counted, Owned, Leave, mainVars, worldVars, Live, Listeners
<1>5. Leaving'
  BY DEF CoreInv, TypeOK, Leaving, Leave, Done
<1>6. Decided'
  BY DEF CoreInv, TypeOK, Decided, Leave, Done, mainVars
<1> QED
  BY <1>1, <1>2, <1>3, <1>4, <1>5, <1>6 DEF CoreInv

-----------------------------------------------------------------------------
(* Every step keeps the invariant.                                         *)

LEMMA ProgressKeeps == CoreInv /\ Progress => CoreInv'
<1> SUFFICES ASSUME CoreInv, Live, Progress PROVE CoreInv'
  BY DEF Progress
<1> USE DEF CoreInv
<1>1. ASSUME NEW s \in Service, Listen(s) PROVE CoreInv'
  BY <1>1, ReadyKeeps DEF TypeOK, Listen
<1>2. ASSUME NEW s \in Service, Closes(s) PROVE CoreInv'
  BY <1>2, LeaveKeeps DEF Closes
<1>3. ASSUME NEW s \in Service, Closed(s) PROVE CoreInv'
  <2>1. /\ s \in group /\ s \in Listeners /\ svc[s] = "closing"
        /\ s = "forward" => relay = "none"
        /\ Return(s, result[s])
        /\ UNCHANGED <<child, session, relay>>
    BY <1>3 DEF Closed
  <2>2. result[s] \in {"nil", "error"}
    BY <2>1 DEF TypeOK
  <2>3. (result[s] = "nil" => Done) /\ (result[s] = "error" => s \in broken)
    BY <2>1 DEF Leaving
  <2> QED
    BY <2>1, <2>2, <2>3, ReturnKeeps DEF TypeOK, Listeners
<1>4. ASSUME NEW s \in Service, TakeReady(s) PROVE CoreInv'
  <2>1. /\ main = "select" /\ s \in await /\ s \in ready
        /\ await' = await \ {s} /\ remaining' = remaining - 1
        /\ record' = IF remaining = 1 THEN "running" ELSE record
        /\ UNCHANGED <<group, main, ctx, caught, failed, svcVars, worldVars, broken, first>>
    BY <1>4 DEF TakeReady
  <2>2. remaining = Cardinality(await) /\ await \in SUBSET Service
    BY DEF TypeOK
  <2>3. remaining' = Cardinality(await') /\ await' \subseteq Service
    BY <2>1, <2>2, AwaitFinite
  <2>4. remaining = 1 <=> await' = {}
    BY <2>1, <2>2, <2>3, AwaitFinite
  <2>5. record = "none"
    BY <2>1 DEF Counted
  <2>6. TypeOK'
    BY <2>1, <2>3, <2>5 DEF TypeOK, svcVars, worldVars
  <2>7. Counted' /\ Opened' /\ Leaving'
    BY <2>1, <2>4, <2>5 DEF Counted, Opened, Leaving, Done, svcVars, worldVars
  <2>8. Owned' /\ Decided'
    BY <2>1, <2>5 DEF Owned, Decided, Done, svcVars, worldVars
  <2> QED
    BY <2>6, <2>7, <2>8
<1>5. ASSUME ClientCloses PROVE CoreInv'
  <2>1. relay' = IF relay = "open" THEN "cut" ELSE relay
    BY <1>5 DEF ClientCloses, Cut
  <2> QED
    BY <1>5, <2>1, ReturnKeeps DEF TypeOK, ClientCloses
<1>6. ASSUME RelayEnds PROVE CoreInv'
  BY <1>6 DEF TypeOK, Counted, Opened, Owned, Leaving, Decided, Done, RelayEnds,
              mainVars, svcVars
<1>7. ASSUME SshdStarts PROVE CoreInv'
  <2>1. svc' \in [group -> Stage]
    BY <1>7 DEF TypeOK, SshdStarts, Stage
  <2>2. TypeOK'
    BY <1>7, <2>1 DEF TypeOK, SshdStarts, mainVars, Stage
  <2>3. Counted' /\ Opened' /\ Leaving' /\ Decided'
    BY <1>7 DEF TypeOK, Counted, Opened, Leaving, Decided, Done, SshdStarts, mainVars
  <2>4. Owned'
    BY <1>7 DEF TypeOK, Counted, Owned, SshdStarts, mainVars, Live
  <2> QED
    BY <2>2, <2>3, <2>4
<1>8. ASSUME SshdKilled PROVE CoreInv'
  BY <1>8 DEF TypeOK, Counted, Opened, Owned, Leaving, Decided, Done, SshdKilled,
              mainVars, svcVars
<1>9. ASSUME ProbeFails PROVE CoreInv'
  BY <1>9, ReturnKeeps DEF TypeOK, ProbeFails
<1>10. ASSUME SshdWait PROVE CoreInv'
  BY <1>10, ReturnKeeps DEF TypeOK, SshdWait
<1>11. ASSUME Begin PROVE CoreInv'
  BY <1>11 DEF TypeOK, Counted, Opened, Owned, Leaving, Decided, Done, Begin,
               svcVars, worldVars
<1>12. ASSUME TakeDone PROVE CoreInv'
  BY <1>12 DEF TypeOK, Counted, Opened, Owned, Leaving, Decided, Done, TakeDone,
               svcVars, worldVars
<1>13. ASSUME Finish PROVE CoreInv'
  BY <1>13 DEF TypeOK, Counted, Opened, Owned, Leaving, Decided, Done, Finish,
               svcVars, worldVars
<1> QED
  BY <1>1, <1>2, <1>3, <1>4, <1>5, <1>6, <1>7, <1>8, <1>9, <1>10, <1>11, <1>12, <1>13
     DEF Progress

LEMMA EnvironmentKeeps == CoreInv /\ Environment => CoreInv'
<1> SUFFICES ASSUME CoreInv, Live, Environment PROVE CoreInv'
  BY DEF Environment
<1> USE DEF CoreInv
<1>1. ASSUME NEW s \in Service, ListenFails(s) PROVE CoreInv'
  BY <1>1, ReturnKeeps DEF TypeOK, Owned, ListenFails
<1>2. ASSUME NEW s \in Service, Breaks(s) PROVE CoreInv'
  BY <1>2, LeaveKeeps DEF Breaks
<1>3. ASSUME Connects PROVE CoreInv'
  BY <1>3, ReadyKeeps DEF Connects
<1>4. ASSUME Disconnects PROVE CoreInv'
  <2>1. /\ relay' = (IF relay = "open" THEN "cut" ELSE relay) /\ session' = FALSE
        /\ UNCHANGED <<group, mainVars, ctx, caught, failed, svcVars, child, taken,
                       broken, first>>
    BY <1>4 DEF Disconnects, Cut
  <2>2. relay' \in {"none", "open", "cut"} /\ (relay' # "none" => relay # "none")
    BY <2>1 DEF TypeOK
  <2>3. TypeOK'
    <3>1. session' \in BOOLEAN
      BY <2>1
    <3>2. UNCHANGED <<group, main, record, await, remaining, ctx, caught, failed, svc,
                      result, ready, child, taken, broken, first>>
      BY <2>1 DEF mainVars, svcVars
    <3> QED
      BY <2>2, <3>1, <3>2 DEF TypeOK
  <2>4. Owned'
    BY <2>1, <2>2 DEF Owned, mainVars, svcVars
  <2> QED
    BY <2>1, <2>3, <2>4 DEF Counted, Opened, Leaving, Decided, Done, mainVars, svcVars
<1>5. ASSUME Reconnects PROVE CoreInv'
  BY <1>5 DEF TypeOK, Counted, Opened, Owned, Leaving, Decided, Done, Reconnects,
              mainVars, svcVars, Live
<1>6. ASSUME GivesUp PROVE CoreInv'
  BY <1>6, ReturnKeeps DEF TypeOK, GivesUp
<1>7. ASSUME RelayBegins PROVE CoreInv'
  BY <1>7 DEF TypeOK, Counted, Opened, Owned, Leaving, Decided, Done, RelayBegins,
              mainVars, svcVars, Live
<1>8. ASSUME RelayQuits PROVE CoreInv'
  BY <1>8 DEF TypeOK, Counted, Opened, Owned, Leaving, Decided, Done, RelayQuits,
              mainVars, svcVars
<1>9. ASSUME SshdStartFails PROVE CoreInv'
  BY <1>9, ReturnKeeps DEF TypeOK, Owned, SshdStartFails
<1>10. ASSUME SshdDies PROVE CoreInv'
  BY <1>10 DEF TypeOK, Counted, Opened, Owned, Leaving, Decided, Done, SshdDies,
               mainVars, svcVars, Service
<1>11. ASSUME PortAnswers PROVE CoreInv'
  BY <1>11, ReadyKeeps DEF TypeOK, PortAnswers
<1>12. ASSUME NoFreePort PROVE CoreInv'
  BY <1>12 DEF TypeOK, Counted, Opened, Owned, Leaving, Decided, Done, NoFreePort,
               svcVars, worldVars
<1>13. ASSUME Signal PROVE CoreInv'
  <2>1. first' \in [who : {"none", "signal", "service"}, up : BOOLEAN]
    BY <1>13, BlameType DEF TypeOK, Signal
  <2>2. TypeOK'
    BY <1>13, <2>1 DEF TypeOK, Signal, svcVars, worldVars
  <2>3. Counted' /\ Opened' /\ Leaving' /\ Owned'
    BY <1>13 DEF Counted, Opened, Leaving, Owned, Done, Signal, svcVars, worldVars
  <2>4. Decided'
    BY <1>13 DEF TypeOK, Counted, Decided, Done, Blame, Signal, svcVars, worldVars, Live
  <2> QED
    BY <2>2, <2>3, <2>4
<1> QED
  BY <1>1, <1>2, <1>3, <1>4, <1>5, <1>6, <1>7, <1>8, <1>9, <1>10, <1>11, <1>12, <1>13
     DEF Environment

LEMMA CoreNext == CoreInv /\ [Next]_vars => CoreInv'
<1>1. CoreInv /\ UNCHANGED vars => CoreInv'
  BY DEF CoreInv, TypeOK, Counted, Opened, Owned, Leaving, Decided, Done, vars,
         mainVars, svcVars, worldVars
<1> QED
  BY <1>1, ProgressKeeps, EnvironmentKeeps DEF Next

LEMMA CoreCorrect == Spec => []CoreInv
BY CoreInit, CoreNext, PTL DEF Spec

-----------------------------------------------------------------------------
(* The type invariant: in particular the counter is the number of channels *)
(* the loop still waits for.                                               *)
THEOREM TypeCorrect == Spec => []TypeOK
<1>1. CoreInv => TypeOK
  BY DEF CoreInv
<1> QED
  BY <1>1, CoreCorrect, PTL

(***************************************************************************)
(* A core that is recorded "running" has every service of its group ready. *)
(***************************************************************************)
THEOREM RunningIsTrue == Spec => []RunningMeansAll
<1>1. CoreInv => RunningMeansAll
  BY DEF CoreInv, Counted, RunningMeansAll
<1> QED
  BY <1>1, CoreCorrect, PTL

(***************************************************************************)
(* Once "stopped" or "failed" is in the file, nothing of the core is left. *)
(***************************************************************************)
THEOREM FinalMeansGone == Spec => []NothingLeft
<1>1. CoreInv => NothingLeft
  BY DEF CoreInv, TypeOK, Owned, NothingLeft
<1> QED
  BY <1>1, CoreCorrect, PTL

(***************************************************************************)
(* The final state tells whether a service or a signal ended the core.     *)
(***************************************************************************)
THEOREM OutcomeIsTrue == Spec => []OutcomeTells
<1>1. CoreInv => OutcomeTells
  BY DEF CoreInv, Decided, OutcomeTells
<1> QED
  BY <1>1, CoreCorrect, PTL

(***************************************************************************)
(* The core implements CoreOutcome: "running" comes first, and once; a     *)
(* final state comes with the end of the process.                          *)
(***************************************************************************)
THEOREM OutcomeRefined == Spec => OutcomeSpec
<1>1. Init => Outcome!Init
  BY DEF Init, Outcome!Init, Live
<1>2. CoreInv /\ [Next]_vars => [Outcome!Next]_(Outcome!outcomeVars)
  <2> SUFFICES ASSUME CoreInv, [Next]_vars, ~ UNCHANGED Outcome!outcomeVars
               PROVE  Outcome!Next
    OBVIOUS
  <2>1. Live /\ (Progress \/ Environment)
    BY DEF Next, Progress, Environment, vars, mainVars, Outcome!outcomeVars, Live
  <2>2. ASSUME NEW s \in Service, TakeReady(s) PROVE Outcome!Up
    <3>1. record = "none" /\ record' \in {record, "running"} /\ main' = main
      BY <2>1, <2>2 DEF CoreInv, TypeOK, Counted, TakeReady, Live
    <3> QED
      BY <2>1, <3>1 DEF Outcome!Up, Outcome!outcomeVars, Live
  <2>3. ASSUME Finish PROVE Outcome!End
    BY <2>1, <2>3 DEF CoreInv, Counted, Finish, Outcome!End, Live
  <2>4. ASSUME NoFreePort \/ Signal PROVE Outcome!Vanish
    BY <2>1, <2>4 DEF CoreInv, Counted, NoFreePort, Signal, Outcome!Vanish,
                      Outcome!outcomeVars, Live
  <2>5. ASSUME NEW s \in Service,
               Listen(s) \/ Closes(s) \/ Closed(s) \/ ListenFails(s) \/ Breaks(s)
        PROVE  UNCHANGED <<main, record>>
    BY <2>5 DEF Listen, Closes, Closed, ListenFails, Breaks, BecomesReady, Leave, Return,
                mainVars
  <2>6. ASSUME \/ ClientCloses \/ RelayEnds \/ Connects \/ Disconnects \/ Reconnects
               \/ GivesUp \/ RelayBegins \/ RelayQuits
        PROVE  UNCHANGED <<main, record>>
    BY <2>6 DEF ClientCloses, RelayEnds, Connects, Disconnects, Reconnects, GivesUp,
                RelayBegins, RelayQuits, BecomesReady, Return, mainVars
  <2>7. ASSUME \/ SshdStarts \/ SshdKilled \/ ProbeFails \/ SshdWait \/ SshdStartFails
               \/ SshdDies \/ PortAnswers
        PROVE  UNCHANGED <<main, record>>
    BY <2>7 DEF SshdStarts, SshdKilled, ProbeFails, SshdWait, SshdStartFails, SshdDies,
                PortAnswers, BecomesReady, Return, mainVars
  <2>8. ASSUME Begin \/ TakeDone PROVE record' = record /\ Live'
    BY <2>8 DEF Begin, TakeDone, Live
  <2> QED
    BY <2>1, <2>2, <2>3, <2>4, <2>5, <2>6, <2>7, <2>8
       DEF Progress, Environment, Outcome!Next, Outcome!outcomeVars, Live
<1> QED
  BY <1>1, <1>2, CoreCorrect, PTL DEF Spec, OutcomeSpec, Outcome!Spec

=============================================================================
