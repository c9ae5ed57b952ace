--------------------------- MODULE ProcessProofs ---------------------------
(***************************************************************************)
(* Proofs about the process (module Process), for every set of possible    *)
(* configurations: the type invariant, that main leaves nothing behind     *)
(* when it returns, that no plane stops unless it was told to, and that no *)
(* SIGTERM is lost.                                                        *)
(***************************************************************************)
EXTENDS Process, TLAPS

\* The orders in which main starts and joins its threads, written out.
LEMMA Orders ==
  /\ Started = 7 /\ Len(JoinOrder) = 7
  /\ \A k \in 1..7 : StartOrder[k] \in Threads /\ JoinOrder[k] \in Threads
  /\ StartOrder[6] = "http" /\ \A k \in 1..5 : StartOrder[k] # "http"
  /\ \A j, k \in 1..7 : StartOrder[j] = StartOrder[k] => j = k
  /\ JoinOrder[1] = "http"
  /\ \A t \in Threads : \E k \in 1..7 : JoinOrder[k] = t
<1>1. Started = 7 /\ Len(JoinOrder) = 7
  BY DEF Started, StartOrder, JoinOrder
<1>2. \A k \in 1..7 : StartOrder[k] \in Threads /\ JoinOrder[k] \in Threads
  BY DEF StartOrder, JoinOrder, Threads, Planes, Listeners
<1>3. StartOrder[6] = "http" /\ \A k \in 1..5 : StartOrder[k] # "http"
  BY DEF StartOrder
<1>4. \A t \in Threads : \E k \in 1..7 : JoinOrder[k] = t
  <2>1. /\ JoinOrder[1] = "http" /\ JoinOrder[2] = "reload" /\ JoinOrder[3] = "health"
        /\ JoinOrder[4] = "admin" /\ JoinOrder[5] = "https" /\ JoinOrder[6] = "h3"
        /\ JoinOrder[7] = "signal"
    BY DEF JoinOrder
  <2> QED
    BY <2>1 DEF Threads, Planes, Listeners
<1>5. JoinOrder[1] = "http"
  BY DEF JoinOrder
<1>6. \A j, k \in 1..7 : StartOrder[j] = StartOrder[k] => j = k
  BY DEF StartOrder
<1> QED
  BY <1>1, <1>2, <1>3, <1>4, <1>5, <1>6

\* What a thread may be doing.
States == {"none", "new", "run", "raise", "read", "over"}

\* While the signal thread raises flags it has one left to raise.
RaisingInv == thread["signal"] = "raise" => raising # <<>>

\* A connection is served only by a plane that is up.
ServingInv == \A p \in inflight : thread[p] = "run"

\* The threads main has passed are over, or were never started.
PassedInv == \A k \in 1..7 : k + 7 < main => thread[JoinOrder[k]] \in {"none", "over"}

\* The threads main has yet to start are not there.
FutureInv == \A k \in 1..7 : main <= k => thread[StartOrder[k]] = "none"

ProcessInv == TypeOK /\ RaisingInv /\ ServingInv /\ PassedInv /\ FutureInv

\* What the steps of a plane's own thread may do.
LEMMA PlaneEffect ==
  ASSUME RunWorkers \/ RunHttps \/ RunH3 \/ ServeAdmin
  PROVE  \E p \in Planes : PlaneSteps(p)
BY DEF RunWorkers, RunHttps, RunH3, ServeAdmin, Planes, Listeners

\* A thread that main has passed has no step left, so what moves another thread
\* keeps the order of the joins.
LEMMA ThreadMoves ==
  ASSUME ProcessInv, NEW t \in Threads, NEW s \in States, Becomes(t, s),
         \/ main' = main /\ thread[t] \notin {"none", "over"}
         \/ main' = main + 1 /\ main \in 1..7 /\ t = StartOrder[main]
  PROVE  thread' \in [Threads -> States] /\ PassedInv' /\ FutureInv'
<1> USE DEF ProcessInv, TypeOK, Becomes, PassedInv, FutureInv, States
<1>1. thread' \in [Threads -> States]
  OBVIOUS
<1>2. PassedInv'
  BY Orders, SMTT(30)
<1>3. FutureInv'
  BY Orders, SMTT(30)
<1> QED
  BY <1>1, <1>2, <1>3

\* ProcessInv is inductive.
LEMMA ProcessStep ==
  ProcessInv /\ [Next]_vars => ProcessInv'
<1> SUFFICES ASSUME ProcessInv, [Next]_vars PROVE ProcessInv'
  OBVIOUS
<1> USE Orders
<1>t. TypeOK /\ RaisingInv /\ ServingInv /\ PassedInv /\ FutureInv
  BY DEF ProcessInv
<1>1. CASE UNCHANGED vars \/ Exited
  <2>1. UNCHANGED vars
    BY <1>1 DEF Exited
  <2>2. TypeOK'
    BY <2>1, <1>t DEF vars, TypeOK
  <2>3. RaisingInv' /\ ServingInv'
    BY <2>1, <1>t DEF vars, RaisingInv, ServingInv
  <2>4. PassedInv' /\ FutureInv'
    BY <2>1, <1>t DEF vars, PassedInv, FutureInv
  <2> QED
    BY <2>2, <2>3, <2>4 DEF ProcessInv
<1>2. CASE EndsEarly \/ HttpBindFails \/ Return \/ \E s \in Signals : Kill(s)
  <2>1. /\ UNCHANGED <<listening, thread, cancel, main, handled, pending, raising, failed>>
        /\ inflight' = {} /\ cut' = cut \cup inflight
        /\ exit' \in {"early", "bind", "killed", "ok", "unserved"}
    BY <1>2 DEF EndsEarly, HttpBindFails, Return, Kill, Ends, ExitCode, signalVars
  <2>2. told' \in BOOLEAN
    <3>1. told' = told \/ \E s \in Signals : told' = (told \/ s = "TERM")
      BY <1>2 DEF EndsEarly, HttpBindFails, Return, Kill, signalVars
    <3> QED
      BY <3>1, <1>t, Zenon DEF TypeOK
  <2> QED
    BY <2>1, <2>2, <1>t DEF ProcessInv, TypeOK, RaisingInv, ServingInv, PassedInv, FutureInv
<1>3. CASE Loaded \/ \E t \in Threads : NotStarted(t)
  <2>1. /\ UNCHANGED <<listening, thread, cancel, exit, signalVars, planeVars>>
        /\ main \in 0..7 /\ main' = main + 1
    BY <1>3 DEF Loaded, NotStarted, Starts
  <2> QED
    BY <2>1, <1>t DEF signalVars, planeVars, ProcessInv, TypeOK, RaisingInv, ServingInv, PassedInv, FutureInv
<1>4. CASE Join
  <2>1. /\ UNCHANGED <<listening, thread, exit, signalVars, planeVars>>
        /\ main \in 8..14 /\ main' = main + 1 /\ thread[JoinOrder[main - 7]] \in {"none", "over"}
    BY <1>4, <1>t DEF Join, CanPass, Joining, TypeOK
  <2>2. cancel' \subseteq Threads
    BY <1>4, <2>1, <1>t DEF Join, FlagsRaised, Joining, TypeOK
  <2>3. PassedInv' /\ FutureInv'
    BY <2>1, <1>t DEF PassedInv, FutureInv
  <2> QED
    BY <2>1, <2>2, <2>3, <1>t DEF signalVars, planeVars, ProcessInv, TypeOK, RaisingInv, ServingInv
<1>5. ASSUME NEW t \in Threads, Start(t)
      PROVE  ProcessInv'
  <2>1. /\ Becomes(t, "new") /\ main \in 1..7 /\ main' = main + 1 /\ t = StartOrder[main]
        /\ UNCHANGED <<listening, cancel, exit, signalVars, planeVars>>
    BY <1>5 DEF Start, Starts
  <2>2. thread' \in [Threads -> States] /\ PassedInv' /\ FutureInv'
    BY <2>1, ThreadMoves DEF States
  <2>3. t \notin inflight
    BY <2>1, <1>t DEF FutureInv, ServingInv
  <2> QED
    BY <2>1, <2>2, <2>3, <1>t DEF signalVars, planeVars, Becomes, States, ProcessInv, TypeOK, RaisingInv, ServingInv
<1>6. ASSUME NEW t \in {"signal", "reload"}, Install(t) \/ InstallFails(t)
      PROVE  ProcessInv'
  <2>1. /\ t \in Threads /\ thread[t] = "new" /\ \E s \in {"run", "over"} : Becomes(t, s)
        /\ handled' \subseteq Signals /\ pending' \subseteq handled' /\ failed' \subseteq Threads
        /\ UNCHANGED <<listening, cancel, main, exit, raising, told, inflight, cut>>
    BY Zenon, <1>6, <1>t DEF Install, InstallFails, HandlerOf, Signals, signalVars, planeVars, Threads, TypeOK
  <2>2. thread' \in [Threads -> States] /\ PassedInv' /\ FutureInv'
    BY <2>1, ThreadMoves DEF States
  <2> QED
    BY <2>1, <2>2, <1>t DEF Becomes, States, ProcessInv, TypeOK, RaisingInv, ServingInv
<1>7. ASSUME NEW s \in Signals, Deliver(s)
      PROVE  ProcessInv'
  <2>1. told' \in BOOLEAN
    BY <1>7, Zenon DEF Deliver
  <2>2. /\ UNCHANGED <<listening, thread, cancel, main, exit, handled, raising, planeVars>>
        /\ pending' \subseteq handled'
    BY <1>7, <1>t DEF Deliver, TypeOK
  <2> QED
    BY <2>1, <2>2, <1>t DEF planeVars, ProcessInv, TypeOK, RaisingInv, ServingInv, PassedInv, FutureInv
<1>8. CASE TakeTerm
  <2>1. /\ thread["signal"] = "run" /\ pending' \subseteq handled'
        /\ UNCHANGED <<listening, cancel, main, exit, handled, told, planeVars>>
    BY <1>8, <1>t DEF TakeTerm, Takes, TypeOK
  <2>2. CancelOrder \in Seq(Planes) /\ CancelOrder # <<>>
    BY DEF CancelOrder, Planes, Listeners
  <2>3. PICK s \in {"over", "raise"} :
          Becomes("signal", s) /\ raising' \in {raising, CancelOrder} /\ (s = "raise" => raising' = CancelOrder)
    BY <1>8 DEF TakeTerm
  <2>4. thread' \in [Threads -> States] /\ PassedInv' /\ FutureInv'
    BY <2>1, <2>3, ThreadMoves DEF States, Threads
  <2>5. thread'["signal"] = s
    BY <2>3, <1>t DEF Becomes, TypeOK, Threads
  <2>6. raising' \in Seq(Planes) /\ RaisingInv'
    BY <2>2, <2>3, <2>5, <1>t DEF RaisingInv, TypeOK
  <2>7. ServingInv'
    BY <2>1, <2>3, <1>t DEF ServingInv, planeVars, Becomes, TypeOK, Planes, Listeners
  <2> QED
    BY <2>1, <2>4, <2>6, <2>7, <1>t DEF planeVars, States, ProcessInv, TypeOK
<1>9. CASE RaiseFlag
  <2>1. /\ thread["signal"] = "raise" /\ raising # <<>> /\ raising \in Seq(Planes)
        /\ UNCHANGED <<listening, main, exit, handled, pending, told, planeVars>>
    BY <1>9, <1>t DEF RaiseFlag, RaisingInv, TypeOK
  <2>2. Head(raising) \in Threads /\ Tail(raising) \in Seq(Planes)
    BY <2>1 DEF Threads
  <2>3. raising' = Tail(raising) /\ cancel' \subseteq Threads
    BY <1>9, <2>2, <1>t DEF RaiseFlag, TypeOK
  <2>4. CASE Tail(raising) = <<>>
    <3>1. Becomes("signal", "over")
      BY <1>9, <2>4 DEF RaiseFlag
    <3>2. thread' \in [Threads -> States] /\ PassedInv' /\ FutureInv'
      BY Zenon, <2>1, <3>1, ThreadMoves DEF States, Threads
    <3> QED
      BY <2>1, <2>2, <2>3, <3>1, <3>2, <1>t
      DEF planeVars, Becomes, States, Planes, Listeners, ProcessInv, TypeOK, RaisingInv, ServingInv
  <2>5. CASE Tail(raising) # <<>>
    <3>1. thread' = thread
      BY <1>9, <2>5 DEF RaiseFlag
    <3> QED
      BY <2>1, <2>2, <2>3, <2>5, <3>1, <1>t
      DEF planeVars, ProcessInv, TypeOK, RaisingInv, ServingInv, PassedInv, FutureInv
  <2> QED
    BY <2>4, <2>5
<1>10. CASE TakeHup
  <2>1. /\ thread["reload"] = "run" /\ pending' \subseteq handled'
        /\ UNCHANGED <<listening, cancel, main, exit, handled, raising, told, planeVars>>
        /\ Becomes("reload", "over") \/ thread' = thread
    BY <1>10, <1>t DEF TakeHup, Takes, TypeOK
  <2>2. thread' \in [Threads -> States] /\ PassedInv' /\ FutureInv'
    BY <2>1, <1>t, ThreadMoves DEF States, Threads, TypeOK, PassedInv, FutureInv
  <2> QED
    BY <2>1, <2>2, <1>t
    DEF planeVars, Becomes, States, Planes, Listeners, Threads, ProcessInv, TypeOK, RaisingInv, ServingInv
<1>11. ASSUME NEW p \in Planes, Bound(p) \/ PlaneFails(p) \/ PlaneStops(p)
       PROVE  ProcessInv'
  <2>1. /\ thread[p] \in {"new", "run"} /\ \E s \in {"run", "over"} : Becomes(p, s)
        /\ UNCHANGED <<listening, cancel, main, exit, signalVars>>
        /\ failed' \subseteq failed \cup {p} /\ cut' \subseteq cut \cup {p}
        /\ inflight' \subseteq inflight /\ (Becomes(p, "run") \/ p \notin inflight')
    BY <1>11, <1>t DEF Bound, PlaneFails, PlaneStops, planeVars, ServingInv
  <2>2. p \in Threads /\ p # "signal"
    BY DEF Threads, Planes, Listeners
  <2>3. thread' \in [Threads -> States] /\ PassedInv' /\ FutureInv'
    BY <2>1, <2>2, ThreadMoves DEF States
  <2> QED
    BY <2>1, <2>2, <2>3, <1>t DEF signalVars, Becomes, States, ProcessInv, TypeOK, RaisingInv, ServingInv
<1>12. ASSUME NEW p \in Planes, ConnOpens(p) \/ ConnEnds(p)
       PROVE  ProcessInv'
  <2>1. /\ inflight' \subseteq Planes /\ ServingInv'
        /\ UNCHANGED <<listening, thread, cancel, main, exit, signalVars, failed, cut>>
    BY <1>12, <1>t DEF ConnOpens, ConnEnds, ServingInv, TypeOK
  <2> QED
    BY <2>1, <1>t DEF signalVars, ProcessInv, TypeOK, RaisingInv, PassedInv, FutureInv
<1>13. CASE ProbeReads \/ ProbeReadEnds \/ HealthStarts \/ HealthStops
  <2>1. /\ thread["health"] \in {"new", "run", "read"}
        /\ \E s \in {"run", "read", "over"} : Becomes("health", s)
        /\ UNCHANGED <<listening, cancel, main, exit, signalVars, planeVars>>
    BY <1>13 DEF ProbeReads, ProbeReadEnds, HealthStarts, HealthStops, HealthMoves
  <2>2. thread' \in [Threads -> States] /\ PassedInv' /\ FutureInv'
    BY <2>1, ThreadMoves DEF States, Threads
  <2> QED
    BY <2>1, <2>2, <1>t
    DEF signalVars, planeVars, Becomes, States, Planes, Listeners, ProcessInv, TypeOK, RaisingInv, ServingInv
<1>14. \A t \in Threads : Install(t) \/ InstallFails(t) => t \in {"signal", "reload"}
  BY DEF Install, InstallFails
<1>15. CASE RunWorkers \/ RunHttps \/ RunH3 \/ ServeAdmin
  BY <1>11, <1>12, <1>15, PlaneEffect DEF PlaneSteps
<1> QED
  BY <1>1, <1>2, <1>3, <1>4, <1>5, <1>6, <1>7, <1>8, <1>9, <1>10, <1>13, <1>14, <1>15 DEF Next

\* ProcessInv holds in every state.
LEMMA ProcessCorrect == Spec => []ProcessInv
<1>1. Init => ProcessInv
  <2> SUFFICES ASSUME Init PROVE ProcessInv
    OBVIOUS
  <2> USE Orders DEF Init
  <2>1. told \in BOOLEAN
    BY Zenon
  <2>2. TypeOK
    BY <2>1 DEF TypeOK
  <2>3. RaisingInv /\ ServingInv /\ PassedInv /\ FutureInv
    BY DEF RaisingInv, ServingInv, PassedInv, FutureInv, Threads
  <2> QED
    BY <2>2, <2>3 DEF ProcessInv
<1> QED
  BY <1>1, ProcessStep, PTL DEF Spec

\* Every variable of the process keeps its type: the flags belong to threads,
\* a signal is pending only if it has a handler, and main stays within its
\* steps, for every set of configurations.
THEOREM ProcessTypeCorrect == Spec => []TypeOK
BY ProcessCorrect, PTL DEF ProcessInv

-----------------------------------------------------------------------------
(* The end of main *)

\* Once main has passed its last join there is no thread left, and no connection.
LEMMA NothingLeft ==
  ASSUME ProcessInv, main > 14
  PROVE  inflight = {} /\ \A t \in Threads : thread[t] \in {"none", "over"}
<1>1. \A t \in Threads : thread[t] \in {"none", "over"}
  BY Orders DEF ProcessInv, PassedInv, TypeOK
<1>2. inflight = {}
  BY <1>1 DEF ProcessInv, ServingInv, TypeOK, Threads
<1> QED
  BY <1>1, <1>2

\* A process that has ended takes no step.
LEMMA EndedStays ==
  ASSUME [Next]_vars, ~Running
  PROVE  UNCHANGED vars
<1>1. CASE Exited
  BY <1>1 DEF Exited
<1>2. ASSUME NEW t \in Threads, Start(t) \/ NotStarted(t) \/ Install(t) \/ InstallFails(t)
      PROVE  FALSE
  BY <1>2 DEF Start, NotStarted, Install, InstallFails, Starts
<1>3. ASSUME NEW s \in Signals, Deliver(s) \/ Kill(s)
      PROVE  FALSE
  BY <1>3 DEF Deliver, Kill
<1>4. ASSUME NEW p \in Planes, PlaneSteps(p)
      PROVE  FALSE
  BY <1>4 DEF PlaneSteps, Bound, PlaneFails, ConnOpens, ConnEnds, PlaneStops
<1>5. ~(EndsEarly \/ Loaded \/ HttpBindFails \/ Join \/ Return)
  BY DEF EndsEarly, Loaded, HttpBindFails, Join, Return, Starts
<1>6. ~(TakeTerm \/ RaiseFlag \/ TakeHup)
  BY DEF TakeTerm, RaiseFlag, TakeHup, Takes
<1>7. ~(ProbeReads \/ ProbeReadEnds \/ HealthStarts \/ HealthStops)
  BY DEF ProbeReads, ProbeReadEnds, HealthStarts, HealthStops, HealthMoves
<1> QED
  BY <1>1, <1>2, <1>3, <1>4, <1>5, <1>6, <1>7, PlaneEffect DEF Next

\* What ends the process, and how.
LEMMA EndingSteps ==
  ASSUME [Next]_vars, Running
  PROVE  \/ exit' = exit
         \/ exit' \in {"early", "bind", "killed"}
         \/ Return
<1>1. ASSUME NEW t \in Threads, Start(t) \/ NotStarted(t) \/ Install(t) \/ InstallFails(t)
      PROVE  exit' = exit
  BY <1>1 DEF Start, NotStarted, Install, InstallFails
<1>2. ASSUME NEW s \in Signals, Deliver(s) \/ Kill(s)
      PROVE  exit' = exit \/ exit' = "killed"
  BY <1>2 DEF Deliver, Kill, Ends
<1>3. ASSUME NEW p \in Planes, PlaneSteps(p)
      PROVE  exit' = exit
  BY <1>3 DEF PlaneSteps, Bound, PlaneFails, ConnOpens, ConnEnds, PlaneStops
<1>4. EndsEarly \/ Loaded \/ HttpBindFails \/ Join => exit' \in {exit, "early", "bind"}
  BY DEF EndsEarly, Loaded, HttpBindFails, Join, Ends
<1>5. TakeTerm \/ RaiseFlag \/ TakeHup => exit' = exit
  BY DEF TakeTerm, RaiseFlag, TakeHup
<1>6. ProbeReads \/ ProbeReadEnds \/ HealthStarts \/ HealthStops => exit' = exit
  BY DEF ProbeReads, ProbeReadEnds, HealthStarts, HealthStops, HealthMoves
<1> QED
  BY <1>1, <1>2, <1>3, <1>4, <1>5, <1>6, PlaneEffect DEF Next, Exited, vars

\* Exit code 0 is returned only when the workers have cut no connection.
CleanInv == exit = "ok" => "http" \notin cut

\* main leaves nothing behind: when it has passed its last join every thread
\* is over and nothing is being served, and exit code 0 means that the workers
\* cut no connection.
THEOREM ExitCorrect == Spec => []ExitIsLast
<1>1. Init => CleanInv
  BY DEF Init, CleanInv
<1>2. ASSUME ProcessInv, CleanInv, [Next]_vars
      PROVE  CleanInv'
  <2>1. CASE ~Running
    BY <1>2, <2>1, EndedStays DEF vars, CleanInv
  <2>2. CASE Running /\ ~Return
    BY <1>2, <2>2, EndingSteps DEF Running, CleanInv
  <2>3. CASE Return
    <3>1. main > 14
      BY <1>2, <2>3, Orders DEF Return, Joining, ProcessInv, TypeOK
    <3>2. inflight = {}
      BY <1>2, <3>1, NothingLeft
    <3> QED
      BY <2>3, <3>2 DEF Return, Ends, ExitCode, CleanInv
  <2> QED
    BY <2>1, <2>2, <2>3
<1>3. ProcessInv /\ CleanInv => ExitIsLast
  <2> SUFFICES ASSUME ProcessInv, CleanInv, Joining > Len(JoinOrder) PROVE ExitIsLast
    BY DEF ExitIsLast
  <2>1. main > 14
    BY Orders DEF Joining, ProcessInv, TypeOK
  <2> QED
    BY <2>1, NothingLeft DEF CleanInv, ExitIsLast
<1> QED
  BY <1>1, <1>2, <1>3, ProcessCorrect, PTL DEF Spec

-----------------------------------------------------------------------------
(* Nothing stops by itself *)

\* start_http_server has started the workers, or ended the process.
HttpInv == main > 6 /\ "http" \in listening => thread["http"] # "none"

\* Nobody has asked the process to stop, and nothing has failed.
Calm == Running /\ ~told /\ failed = {} /\ (main > Started => "http" \in listening)

\* main is then no further than waiting for the workers, so no flag is raised
\* by it, and none by the signal thread, which has had no signal.
CalmInv ==
  Calm =>
    /\ main <= 8 /\ cancel = {}
    /\ "TERM" \notin pending /\ thread["signal"] \notin {"raise", "over"}
    /\ cut = {} /\ \A p \in Planes : thread[p] # "over"

\* HttpInv is inductive relative to ProcessInv.
LEMMA HttpStep ==
  ASSUME ProcessInv, HttpInv, [Next]_vars
  PROVE  HttpInv'
<1> USE Orders DEF HttpInv
<1>t. thread \in [Threads -> States] /\ main \in 0..15 /\ "http" \in Threads
  BY DEF ProcessInv, TypeOK, States, Threads, Planes, Listeners
<1>1. ASSUME NEW t \in Threads, Start(t) \/ NotStarted(t)
      PROVE  HttpInv'
  <2>1. main \in 1..7 /\ main' = main + 1 /\ StartOrder[main] = t /\ listening' = listening
    BY <1>1 DEF Start, NotStarted, Starts
  <2>2. CASE t = "http"
    BY <1>1, <1>t, <2>2 DEF Start, NotStarted, Becomes
  <2>3. CASE t # "http"
    <3>1. thread'["http"] = thread["http"]
      BY <1>1, <1>t, <2>3 DEF Start, NotStarted, Becomes
    <3> QED
      BY <2>1, <2>3, <3>1
  <2> QED
    BY <2>2, <2>3
<1>2. ASSUME NEW t \in Threads, Install(t) \/ InstallFails(t)
      PROVE  HttpInv'
  BY <1>2, <1>t DEF Install, InstallFails, Becomes
<1>3. ASSUME NEW s \in Signals, Deliver(s) \/ Kill(s)
      PROVE  HttpInv'
  BY <1>3 DEF Deliver, Kill
<1>4. ASSUME NEW p \in Planes, PlaneSteps(p)
      PROVE  HttpInv'
  BY <1>4, <1>t DEF PlaneSteps, Bound, PlaneFails, ConnOpens, ConnEnds, PlaneStops, Becomes
<1>5. EndsEarly \/ Loaded \/ HttpBindFails \/ Join \/ Return => HttpInv'
  BY <1>t DEF EndsEarly, Loaded, HttpBindFails, Join, Return, Joining
<1>6. TakeTerm \/ RaiseFlag \/ TakeHup => HttpInv'
  BY <1>t DEF TakeTerm, RaiseFlag, TakeHup, Becomes
<1>7. ProbeReads \/ ProbeReadEnds \/ HealthStarts \/ HealthStops => HttpInv'
  BY <1>t DEF ProbeReads, ProbeReadEnds, HealthStarts, HealthStops, HealthMoves, Becomes
<1>8. Exited \/ UNCHANGED vars => HttpInv'
  BY DEF Exited, vars
<1> QED
  BY <1>1, <1>2, <1>3, <1>4, <1>5, <1>6, <1>7, <1>8, PlaneEffect DEF Next

\* The configuration stays, main goes on and the history only grows.
Onward ==
  /\ listening' = listening
  /\ main > 7 => main' > 7
  /\ failed \subseteq failed'
  /\ told => told'

\* A step that leaves the process calm found it calm: the history only grows
\* and a process that has ended stays so.
LEMMA CalmBefore ==
  ASSUME ProcessInv, [Next]_vars, Calm'
  PROVE  Calm
<1> USE Orders
<1>1. Running
  BY EndedStays DEF Calm, Running, vars
<1>2. Onward
  <2> USE DEF Onward
  <2>t. main \in 0..15
    BY DEF ProcessInv, TypeOK
  <2>1. ASSUME NEW t \in Threads, Start(t) \/ NotStarted(t) \/ Install(t) \/ InstallFails(t)
        PROVE  Onward
    BY <2>t, <2>1 DEF Start, NotStarted, Starts, Install, InstallFails, planeVars, signalVars
  <2>2. ASSUME NEW s \in Signals, Deliver(s) \/ Kill(s)
        PROVE  Onward
    BY Zenon, <2>2 DEF Deliver, Kill, planeVars, signalVars
  <2>3. ASSUME NEW p \in Planes, PlaneSteps(p)
        PROVE  Onward
    BY <2>3 DEF PlaneSteps, Bound, PlaneFails, ConnOpens, ConnEnds, PlaneStops, planeVars, signalVars
  <2>4. EndsEarly \/ Loaded \/ HttpBindFails \/ Join \/ Return => Onward
    BY <2>t DEF EndsEarly, Loaded, HttpBindFails, Join, Return, planeVars, signalVars
  <2>5. TakeTerm \/ RaiseFlag \/ TakeHup => Onward
    BY DEF TakeTerm, RaiseFlag, TakeHup, planeVars, signalVars
  <2>6. ProbeReads \/ ProbeReadEnds \/ HealthStarts \/ HealthStops => Onward
    BY DEF ProbeReads, ProbeReadEnds, HealthStarts, HealthStops, HealthMoves, planeVars, signalVars
  <2>7. Exited \/ UNCHANGED vars => Onward
    BY DEF Exited, vars
  <2> QED
    BY <2>1, <2>2, <2>3, <2>4, <2>5, <2>6, <2>7, PlaneEffect DEF Next
<1> QED
  BY <1>1, <1>2 DEF Calm, Onward

\* The part of CalmInv that is not about the thread main waits for.
Undisturbed ==
  /\ cancel = {} /\ "TERM" \notin pending /\ thread["signal"] \notin {"raise", "over"}
  /\ cut = {} /\ \A p \in Planes : thread[p] # "over"

\* A step that leaves the process calm disturbs nothing: CalmInv is inductive
\* relative to ProcessInv and HttpInv.
LEMMA CalmStep ==
  ASSUME ProcessInv, HttpInv, CalmInv, [Next]_vars, Calm'
  PROVE  main' <= 8 /\ Undisturbed'
<1> USE Orders
<1>1. Calm /\ Running /\ main <= 8 /\ Undisturbed
  BY CalmBefore DEF CalmInv, Calm, Undisturbed
<1>2. Running' /\ ~told' /\ failed' = {}
  BY DEF Calm
<1>t. /\ thread \in [Threads -> States] /\ main \in 0..15
      /\ Planes \subseteq Threads /\ "signal" \in Threads /\ "signal" \notin Planes
      /\ "reload" \notin Planes /\ "health" \notin Planes
  BY DEF ProcessInv, TypeOK, States, Threads, Planes, Listeners
<1>3. ASSUME NEW t \in Threads, Start(t) \/ NotStarted(t)
      PROVE  main' <= 8 /\ Undisturbed'
  <2>1. main \in 1..7 /\ main' = main + 1 /\ UNCHANGED <<cancel, pending, cut>>
    BY <1>3 DEF Start, NotStarted, Starts, planeVars, signalVars
  <2>2. Becomes(t, "new") \/ thread' = thread
    BY <1>3 DEF Start, NotStarted
  <2> QED
    BY <1>1, <1>t, <2>1, <2>2 DEF Becomes, Undisturbed
<1>4. ASSUME NEW t \in Threads, Install(t) \/ InstallFails(t)
      PROVE  main' <= 8 /\ Undisturbed'
  <2>1. ~InstallFails(t)
    BY <1>2 DEF InstallFails
  <2> QED
    BY <1>1, <1>t, <1>4, <2>1 DEF Install, Becomes, Undisturbed, planeVars
<1>5. ASSUME NEW s \in Signals, Deliver(s) \/ Kill(s)
      PROVE  main' <= 8 /\ Undisturbed'
  <2>1. ~Kill(s)
    BY <1>2 DEF Kill, Ends, Running
  <2>2. s # "TERM"
    BY Zenon, <1>2, <1>5, <2>1 DEF Deliver
  <2> QED
    BY <1>1, <1>5, <2>1, <2>2 DEF Deliver, Undisturbed, planeVars
<1>6. ASSUME NEW p \in Planes, PlaneSteps(p)
      PROVE  main' <= 8 /\ Undisturbed'
  <2>1. ~PlaneFails(p)
    BY <1>2 DEF PlaneFails
  <2>2. ~PlaneStops(p)
    BY <1>1 DEF PlaneStops, Undisturbed
  <2> QED
    BY <1>1, <1>t, <1>6, <2>1, <2>2
    DEF PlaneSteps, Bound, ConnOpens, ConnEnds, Becomes, Undisturbed, planeVars, signalVars
<1>7. ~Join
  <2> SUFFICES ASSUME Join PROVE FALSE
    OBVIOUS
  <2>1. main = 8
    BY <1>1, <1>t DEF Join, Joining
  <2>2. thread["http"] \in {"none", "over"}
    BY <2>1 DEF Join, CanPass, Joining
  <2>3. thread["http"] # "over"
    BY <1>1 DEF Undisturbed, Planes, Listeners
  <2>4. thread["http"] # "none"
    BY <1>1, <2>1 DEF Calm, HttpInv
  <2> QED
    BY <2>2, <2>3, <2>4
<1>8. Loaded => main' <= 8 /\ Undisturbed'
  BY <1>1 DEF Loaded, Undisturbed, planeVars, signalVars
<1>9. ~(EndsEarly \/ HttpBindFails \/ Return)
  BY <1>2 DEF EndsEarly, HttpBindFails, Return, Ends, ExitCode, Running
<1>10. ~(TakeTerm \/ RaiseFlag)
  BY <1>1 DEF TakeTerm, Takes, HandlerOf, RaiseFlag, Undisturbed
<1>11. TakeHup => main' <= 8 /\ Undisturbed'
  BY <1>1, <1>t DEF TakeHup, Takes, Becomes, Undisturbed, planeVars
<1>12. ProbeReads \/ ProbeReadEnds \/ HealthStarts \/ HealthStops => main' <= 8 /\ Undisturbed'
  <2> SUFFICES ASSUME NEW from, NEW to, HealthMoves(from, to)
               PROVE  main' <= 8 /\ Undisturbed'
    BY DEF ProbeReads, ProbeReadEnds, HealthStarts, HealthStops
  <2> QED
    BY <1>1, <1>t DEF HealthMoves, Becomes, Undisturbed, planeVars, signalVars
<1>13. Exited \/ UNCHANGED vars => main' <= 8 /\ Undisturbed'
  BY <1>1 DEF Exited, vars, Undisturbed
<1> QED
  BY <1>3, <1>4, <1>5, <1>6, <1>7, <1>8, <1>9, <1>10, <1>11, <1>12, <1>13, PlaneEffect DEF Next

\* With the plain-HTTP workers up, no SIGTERM and no thread that failed, no
\* plane stops and no connection is dropped, in whatever order main starts its
\* threads, SIGHUPs arrive and connections come and go.
THEOREM StopsCorrect == Spec => []StopsOnlyWhenTold
<1>1. Init => HttpInv /\ CalmInv
  BY DEF Init, HttpInv, CalmInv, Threads, Planes, Listeners
<1>2. ProcessInv /\ HttpInv /\ CalmInv /\ [Next]_vars => HttpInv' /\ CalmInv'
  BY HttpStep, CalmStep DEF CalmInv, Undisturbed
<1>3. CalmInv => StopsOnlyWhenTold
  BY DEF CalmInv, Calm, StopsOnlyWhenTold
<1> QED
  BY <1>1, <1>2, <1>3, ProcessCorrect, PTL DEF Spec

-----------------------------------------------------------------------------
(* No SIGTERM is lost *)

\* Every plane has been told to stop, has stopped, or was never there.
Stopping == \A p \in Planes : p \in cancel \/ thread[p] \in {"none", "over"}

\* The flags of the planes are raised, or the signal thread is about to raise them.
ToBeRaised == \A p \in Planes : p \in cancel \/ \E i \in 1..Len(raising) : raising[i] = p

\* A SIGTERM that was delivered waits for a thread that will take it, is being
\* passed on, or has reached every plane: whenever it arrives, also while main is
\* already joining its threads and after the signal thread has returned.
TermNotLost ==
  Running /\ told =>
    \/ thread["signal"] = "run" /\ "TERM" \in pending
    \/ thread["signal"] = "raise" /\ ToBeRaised
    \/ thread["signal"] = "over" /\ Stopping

\* main has raised the flags of the threads it joins, and the one of the signal
\* thread (`parent_done`) last.
FlagInv ==
  /\ \A k \in 2..7 : k + 7 <= main => JoinOrder[k] \in cancel
  /\ "signal" \in cancel => main >= 14

\* The signal thread registers its handler before it waits, and returns only with
\* every plane stopping.
SignalInv ==
  /\ "TERM" \in handled => thread["signal"] \in {"run", "raise", "over"}
  /\ thread["signal"] = "raise" => ToBeRaised
  /\ "TERM" \in handled /\ thread["signal"] = "over" => Stopping
  /\ Running /\ told => "TERM" \in handled /\ (thread["signal"] = "run" => "TERM" \in pending)

\* How main and the flags move.
LEMMA MainMoves ==
  ASSUME ProcessInv, [Next]_vars
  PROVE  \/ main' = main /\ cancel' = cancel
         \/ main' = main /\ RaiseFlag
         \/ main' = main + 1 /\ main \in 0..7 /\ cancel' = cancel
         \/ Join
<1> DEFINE Moved == \/ main' = main /\ cancel' = cancel
                    \/ main' = main /\ RaiseFlag
                    \/ main' = main + 1 /\ main \in 0..7 /\ cancel' = cancel
                    \/ Join
<1>1. ASSUME NEW t \in Threads, Start(t) \/ NotStarted(t) \/ Install(t) \/ InstallFails(t)
      PROVE  Moved
  BY <1>1, Orders DEF Start, NotStarted, Starts, Install, InstallFails
<1>2. ASSUME NEW s \in Signals, Deliver(s) \/ Kill(s)
      PROVE  Moved
  BY <1>2 DEF Deliver, Kill
<1>3. ASSUME NEW p \in Planes, PlaneSteps(p)
      PROVE  Moved
  BY <1>3 DEF PlaneSteps, Bound, PlaneFails, ConnOpens, ConnEnds, PlaneStops
<1>4. EndsEarly \/ Loaded \/ HttpBindFails \/ Return => Moved
  BY DEF EndsEarly, Loaded, HttpBindFails, Return
<1>5. TakeTerm \/ RaiseFlag \/ TakeHup => Moved
  BY DEF TakeTerm, RaiseFlag, TakeHup
<1>6. ProbeReads \/ ProbeReadEnds \/ HealthStarts \/ HealthStops => Moved
  BY DEF ProbeReads, ProbeReadEnds, HealthStarts, HealthStops, HealthMoves
<1>7. Exited \/ UNCHANGED vars => Moved
  BY DEF Exited, vars
<1> QED
  BY <1>1, <1>2, <1>3, <1>4, <1>5, <1>6, <1>7, PlaneEffect DEF Next

\* FlagInv is inductive relative to ProcessInv.
LEMMA FlagStep ==
  ASSUME ProcessInv, FlagInv, [Next]_vars
  PROVE  FlagInv'
<1>t. /\ main \in 0..15 /\ raising \in Seq(Planes) /\ "signal" \notin Planes
      /\ JoinOrder[7] = "signal" /\ \A k \in 1..6 : JoinOrder[k] # "signal"
  BY Orders DEF ProcessInv, TypeOK, Planes, Listeners, JoinOrder
<1>1. CASE main' = main /\ cancel' = cancel
  BY <1>1 DEF FlagInv
<1>2. CASE main' = main /\ RaiseFlag
  <2>1. raising # <<>> /\ cancel' = cancel \cup {Head(raising)}
    BY <1>2 DEF RaiseFlag, ProcessInv, RaisingInv
  <2>2. Head(raising) \in Planes
    BY <1>t, <2>1
  <2>3. Head(raising) # "signal"
    BY <1>t, <2>2
  <2> QED
    BY <1>2, <2>1, <2>3 DEF FlagInv
<1>3. CASE main' = main + 1 /\ main \in 0..7 /\ cancel' = cancel
  BY <1>3, <1>t DEF FlagInv
<1>4. CASE Join
  <2>1. /\ main \in 8..14 /\ main' = main + 1
        /\ cancel' = cancel \cup (IF main < 14 THEN {JoinOrder[main - 6]} ELSE {})
    BY <1>4, <1>t, Orders DEF Join, Joining, FlagsRaised
  <2>2. \A k \in 2..7 : k + 7 <= main' => JoinOrder[k] \in cancel'
    BY <2>1 DEF FlagInv
  <2>3. "signal" \in cancel' => main' >= 14
    <3>1. CASE main < 13
      <4>1. JoinOrder[main - 6] # "signal"
        BY <1>t, <2>1, <3>1
      <4> QED
        BY <2>1, <3>1, <4>1 DEF FlagInv
    <3>2. CASE main >= 13
      BY <2>1, <3>2
    <3> QED
      BY <2>1, <3>1, <3>2
  <2> QED
    BY <2>2, <2>3 DEF FlagInv
<1> QED
  BY <1>1, <1>2, <1>3, <1>4, MainMoves

\* Flags stay raised, and once main has started its threads what is over, or was
\* not started, stays so.
LEMMA OverStays ==
  ASSUME ProcessInv, [Next]_vars
  PROVE  /\ cancel \subseteq cancel'
         /\ main > 7 => \A t \in Threads : thread[t] \in {"none", "over"} => thread'[t] = thread[t]
<1> DEFINE Kept == \A t \in Threads : thread[t] \in {"none", "over"} => thread'[t] = thread[t]
<1>t. thread \in [Threads -> States] /\ main \in 0..15 /\ "signal" \in Threads /\ "reload" \in Threads
      /\ "health" \in Threads /\ Planes \subseteq Threads
  BY Orders DEF ProcessInv, TypeOK, States, Threads
<1>m. ASSUME NEW t \in Threads, NEW s, thread[t] \notin {"none", "over"}, Becomes(t, s)
      PROVE  Kept
  BY <1>t, <1>m DEF Becomes
<1>u. thread' = thread => Kept
  OBVIOUS
<1> HIDE DEF Kept
<1>0. cancel \subseteq cancel'
  BY MainMoves DEF RaiseFlag, Join
<1>1. ASSUME NEW t \in Threads, Start(t) \/ NotStarted(t)
      PROVE  main <= 7
  BY <1>1, Orders DEF Start, NotStarted, Starts
<1>2. ASSUME NEW t \in Threads, Install(t) \/ InstallFails(t)
      PROVE  Kept
  <2>1. thread[t] = "new" /\ \E s \in {"run", "over"} : Becomes(t, s)
    BY <1>2 DEF Install, InstallFails
  <2> QED
    BY <1>m, <2>1
<1>3. ASSUME NEW s \in Signals, Deliver(s) \/ Kill(s)
      PROVE  Kept
  BY <1>3, <1>u DEF Deliver, Kill
<1>4. ASSUME NEW p \in Planes, PlaneSteps(p)
      PROVE  Kept
  <2>1. \/ thread' = thread
        \/ thread[p] \in {"new", "run"} /\ \E s \in {"run", "over"} : Becomes(p, s)
    BY <1>4 DEF PlaneSteps, Bound, PlaneFails, ConnOpens, ConnEnds, PlaneStops
  <2> QED
    BY <1>t, <1>m, <1>u, <2>1
<1>5. EndsEarly \/ Loaded \/ HttpBindFails \/ Join \/ Return => Kept
  BY <1>u DEF EndsEarly, Loaded, HttpBindFails, Join, Return
<1>6. TakeTerm \/ RaiseFlag => Kept
  <2> SUFFICES ASSUME TakeTerm \/ RaiseFlag PROVE Kept
    OBVIOUS
  <2>1. /\ thread["signal"] \in {"run", "raise"}
        /\ thread' = thread \/ \E s \in {"over", "raise"} : Becomes("signal", s)
    BY DEF TakeTerm, Takes, RaiseFlag
  <2> QED
    BY <1>t, <1>m, <1>u, <2>1
<1>7. TakeHup => Kept
  <2> SUFFICES ASSUME TakeHup PROVE Kept
    OBVIOUS
  <2>1. thread["reload"] = "run" /\ (thread' = thread \/ Becomes("reload", "over"))
    BY DEF TakeHup, Takes
  <2> QED
    BY <1>t, <1>m, <1>u, <2>1
<1>8. ProbeReads \/ ProbeReadEnds \/ HealthStarts \/ HealthStops => Kept
  <2> SUFFICES ASSUME NEW from \in {"new", "run", "read"}, NEW to, HealthMoves(from, to) PROVE Kept
    BY DEF ProbeReads, ProbeReadEnds, HealthStarts, HealthStops
  <2> QED
    BY <1>t, <1>m DEF HealthMoves
<1>9. Exited \/ UNCHANGED vars => Kept
  BY <1>u DEF Exited, vars
<1>10. main > 7 => Kept
  BY <1>t, <1>1, <1>2, <1>3, <1>4, <1>5, <1>6, <1>7, <1>8, <1>9, PlaneEffect DEF Next
<1> QED
  BY <1>0, <1>10 DEF Kept

\* The steps that are about the signal thread or a SIGTERM; the others leave both
\* alone, or end the process.
LEMMA SignalMoves ==
  ASSUME ProcessInv, [Next]_vars
  PROVE  \/ /\ thread'["signal"] = thread["signal"] /\ raising' = raising
            /\ "TERM" \in handled' <=> "TERM" \in handled
            /\ "TERM" \in pending' <=> "TERM" \in pending
            /\ Running' => Running /\ told' = told
         \/ Start("signal") \/ Install("signal") \/ InstallFails("signal")
         \/ Deliver("TERM") \/ TakeTerm \/ RaiseFlag
<1> DEFINE Quiet == /\ thread'["signal"] = thread["signal"] /\ raising' = raising
                    /\ "TERM" \in handled' <=> "TERM" \in handled
                    /\ "TERM" \in pending' <=> "TERM" \in pending
                    /\ Running' => Running /\ told' = told
<1>t. thread \in [Threads -> States] /\ "signal" \in Threads /\ "signal" \notin Planes
      /\ Planes \subseteq Threads /\ "reload" \in Threads /\ "health" \in Threads
  BY DEF ProcessInv, TypeOK, States, Threads, Planes, Listeners
<1>m. ASSUME NEW t \in Threads, NEW s, t # "signal", Becomes(t, s)
      PROVE  thread'["signal"] = thread["signal"]
  BY <1>t, <1>m DEF Becomes
<1>1. ASSUME NEW t \in Threads, Start(t) \/ NotStarted(t)
      PROVE  Quiet \/ Start("signal")
  <2>1. UNCHANGED <<handled, pending, raising, told, exit>>
    BY <1>1 DEF Start, NotStarted, signalVars
  <2>2. t # "signal" \/ NotStarted(t) => thread'["signal"] = thread["signal"]
    BY <1>1, <1>m DEF Start, NotStarted
  <2> QED
    BY Zenon, <1>1, <2>1, <2>2 DEF Running
<1>2. ASSUME NEW t \in Threads, Install(t) \/ InstallFails(t)
      PROVE  Quiet \/ Install("signal") \/ InstallFails("signal")
  <2>1. CASE t = "reload"
    <3>1. UNCHANGED <<pending, raising, told, exit>> /\ handled' \in {handled, handled \cup {"HUP"}}
      BY <1>2, <2>1 DEF Install, InstallFails, signalVars, HandlerOf
    <3>2. \E s : Becomes("reload", s)
      BY <1>2, <2>1 DEF Install, InstallFails
    <3>3. thread'["signal"] = thread["signal"]
      BY <1>t, <1>m, <3>2
    <3>4. "TERM" \in handled' <=> "TERM" \in handled
      BY <3>1
    <3> QED
      BY Zenon, <3>1, <3>3, <3>4 DEF Running
  <2>2. CASE t # "reload"
    BY <1>2, <2>2 DEF Install, InstallFails
  <2> QED
    BY <2>1, <2>2
<1>3. ASSUME NEW s \in Signals, Deliver(s) \/ Kill(s)
      PROVE  Quiet \/ Deliver("TERM")
  <2>1. CASE Kill(s)
    <3>1. UNCHANGED <<thread, handled, pending, raising>> /\ ~Running'
      BY <2>1 DEF Kill, Ends, Running
    <3> QED
      BY Zenon, <3>1
  <2>2. CASE Deliver(s) /\ s # "TERM"
    <3>1. UNCHANGED <<thread, handled, raising, exit>> /\ Running
      BY <2>2 DEF Deliver
    <3>2. "TERM" \in pending' <=> "TERM" \in pending
      BY <2>2 DEF Deliver
    <3>3. told' = told
      BY Zenon, <2>2 DEF Deliver, ProcessInv, TypeOK
    <3> QED
      BY Zenon, <3>1, <3>2, <3>3
  <2> QED
    BY <1>3, <2>1, <2>2
<1>4. ASSUME NEW p \in Planes, PlaneSteps(p)
      PROVE  Quiet
  <2>1. /\ UNCHANGED <<handled, pending, raising, told, exit>>
        /\ thread' = thread \/ \E s : Becomes(p, s)
    BY <1>4 DEF PlaneSteps, Bound, PlaneFails, ConnOpens, ConnEnds, PlaneStops, signalVars
  <2>2. thread'["signal"] = thread["signal"]
    BY <1>t, <1>m, <2>1
  <2> QED
    BY Zenon, <2>1, <2>2 DEF Running
<1>5. EndsEarly \/ Loaded \/ HttpBindFails \/ Join \/ Return => Quiet
  <2> SUFFICES ASSUME EndsEarly \/ Loaded \/ HttpBindFails \/ Join \/ Return PROVE Quiet
    OBVIOUS
  <2>1. UNCHANGED <<thread, handled, pending, raising, told>> /\ Running
    BY DEF EndsEarly, Loaded, HttpBindFails, Join, Return, Starts, signalVars
  <2> QED
    BY Zenon, <2>1
<1>6. TakeHup => Quiet
  <2> SUFFICES ASSUME TakeHup PROVE Quiet
    OBVIOUS
  <2>1. /\ UNCHANGED <<handled, raising, told, exit>> /\ pending' = pending \ {"HUP"}
        /\ thread' = thread \/ Becomes("reload", "over")
    BY DEF TakeHup, Takes, HandlerOf
  <2>2. thread'["signal"] = thread["signal"]
    BY <1>t, <1>m, <2>1
  <2>3. "TERM" \in pending' <=> "TERM" \in pending
    BY <2>1
  <2> QED
    BY Zenon, <2>1, <2>2, <2>3 DEF Running
<1>7. ProbeReads \/ ProbeReadEnds \/ HealthStarts \/ HealthStops => Quiet
  <2> SUFFICES ASSUME NEW from, NEW to, HealthMoves(from, to) PROVE Quiet
    BY DEF ProbeReads, ProbeReadEnds, HealthStarts, HealthStops
  <2>1. UNCHANGED <<handled, pending, raising, told, exit>> /\ Becomes("health", to)
    BY DEF HealthMoves, signalVars
  <2>2. thread'["signal"] = thread["signal"]
    BY <1>t, <1>m, <2>1
  <2> QED
    BY Zenon, <2>1, <2>2 DEF Running
<1>8. Exited \/ UNCHANGED vars => Quiet
  <2> SUFFICES ASSUME Exited \/ UNCHANGED vars PROVE Quiet
    OBVIOUS
  <2>1. UNCHANGED <<thread, handled, pending, raising, told, exit>>
    BY DEF Exited, vars
  <2> QED
    BY Zenon, <2>1 DEF Running
<1> HIDE DEF Quiet
<1>9. \/ Quiet \/ Start("signal") \/ Install("signal") \/ InstallFails("signal")
      \/ Deliver("TERM") \/ TakeTerm \/ RaiseFlag
  BY <1>1, <1>2, <1>3, <1>4, <1>5, <1>6, <1>7, <1>8, PlaneEffect DEF Next
<1> QED
  BY Zenon, <1>9 DEF Quiet

\* SignalInv is inductive relative to ProcessInv and FlagInv.
LEMMA SignalStep ==
  ASSUME ProcessInv, FlagInv, SignalInv, [Next]_vars
  PROVE  SignalInv'
<1>t. /\ thread \in [Threads -> States] /\ main \in 0..15 /\ raising \in Seq(Planes)
      /\ "signal" \in Threads /\ "signal" \notin Planes /\ Planes \subseteq Threads
  BY Orders DEF ProcessInv, TypeOK, States, Threads, Planes, Listeners
<1>l. thread["signal"] # "none" => main > 7
  BY <1>t DEF ProcessInv, FutureInv, StartOrder
<1>c. cancel \subseteq cancel'
  BY OverStays
<1>s. ASSUME thread["signal"] # "none", Stopping
      PROVE  Stopping'
  <2>1. \A p \in Planes : thread[p] \in {"none", "over"} => thread'[p] = thread[p]
    BY <1>s, <1>l, <1>t, OverStays
  <2> QED
    BY <1>s, <1>c, <2>1 DEF Stopping
<1>1. ASSUME thread'["signal"] = thread["signal"], raising' = raising,
             "TERM" \in handled' <=> "TERM" \in handled,
             "TERM" \in pending' <=> "TERM" \in pending,
             Running' => Running /\ told' = told
      PROVE  SignalInv'
  <2>1. ToBeRaised => ToBeRaised'
    BY <1>1, <1>c DEF ToBeRaised
  <2>2. "TERM" \in handled' /\ thread'["signal"] = "over" => Stopping'
    BY <1>1, <1>s DEF SignalInv
  <2>3. "TERM" \in handled' => thread'["signal"] \in {"run", "raise", "over"}
    BY <1>1 DEF SignalInv
  <2>4. thread'["signal"] = "raise" => ToBeRaised'
    BY <1>1, <2>1 DEF SignalInv
  <2>5. (Running /\ told)' => Running /\ told
    BY Zenon, <1>1
  <2>6. (Running /\ told)' =>
          "TERM" \in handled' /\ (thread'["signal"] = "run" => "TERM" \in pending')
    BY Zenon, <1>1, <2>5 DEF SignalInv
  <2> QED
    BY Zenon, <2>2, <2>3, <2>4, <2>6 DEF SignalInv
<1>2. CASE Start("signal") \/ Install("signal") \/ InstallFails("signal")
  <2>1. /\ Running /\ thread["signal"] \in {"none", "new"} /\ told' = told
        /\ \E s \in {"new", "run", "over"} : Becomes("signal", s) /\ (s # "run" => handled' = handled)
    <3>1. CASE Start("signal")
      <4>1. Running /\ Becomes("signal", "new") /\ handled' = handled /\ told' = told /\ StartOrder[main] = "signal"
            /\ main \in 1..7
        BY <3>1, Orders DEF Start, Starts, signalVars
      <4>2. thread["signal"] = "none"
        BY <4>1, <1>t DEF ProcessInv, FutureInv
      <4> QED
        BY Zenon, <4>1, <4>2
    <3>2. CASE Install("signal")
      BY <3>2 DEF Install
    <3>3. CASE InstallFails("signal")
      BY <3>3 DEF InstallFails, signalVars
    <3> QED
      BY <1>2, <3>1, <3>2, <3>3
  <2>2. "TERM" \notin handled /\ ~told
    BY Zenon, <2>1 DEF SignalInv
  <2>3. PICK s \in {"new", "run", "over"} : Becomes("signal", s) /\ (s # "run" => handled' = handled)
    BY <2>1
  <2>4. thread'["signal"] = s
    BY <2>3, <1>t DEF Becomes
  <2>5. ~told'
    BY Zenon, <2>1, <2>2
  <2>6. "TERM" \in handled' => s = "run"
    BY <2>2, <2>3
  <2>7. s # "raise" /\ (s = "run" => s # "over")
    OBVIOUS
  <2> QED
    BY Zenon, <2>4, <2>5, <2>6, <2>7 DEF SignalInv
<1>3. CASE Deliver("TERM")
  <2>1. /\ "TERM" \in handled /\ "TERM" \in pending'
        /\ UNCHANGED <<thread, cancel, handled, raising>>
    BY <1>3 DEF Deliver
  <2>2. (ToBeRaised => ToBeRaised') /\ (Stopping => Stopping')
    BY <2>1 DEF ToBeRaised, Stopping
  <2> QED
    BY Zenon, <2>1, <2>2 DEF SignalInv
<1>4. CASE TakeTerm
  <2>1. /\ thread["signal"] = "run" /\ "TERM" \in handled
        /\ UNCHANGED <<cancel, main, exit, handled, told>>
    BY <1>4 DEF TakeTerm, Takes, HandlerOf, ProcessInv, TypeOK
  <2>2. CASE "signal" \in cancel
    <3>1. Becomes("signal", "over")
      BY <1>4, <2>2 DEF TakeTerm
    <3>2. thread'["signal"] = "over"
      BY <3>1, <1>t DEF Becomes
    <3>3. Stopping
      <4>1. main >= 14 /\ \A k \in 2..6 : JoinOrder[k] \in cancel
        BY <2>2, <1>t DEF FlagInv
      <4>2. thread["http"] \in {"none", "over"}
        BY <4>1, <1>t DEF ProcessInv, PassedInv, JoinOrder
      <4>3. "admin" \in cancel /\ "https" \in cancel /\ "h3" \in cancel
        BY <4>1 DEF JoinOrder
      <4> QED
        BY <4>2, <4>3 DEF Stopping, Planes, Listeners
    <3>4. Stopping'
      BY <2>1, <3>3, <1>s
    <3> QED
      BY Zenon, <2>1, <3>2, <3>4 DEF SignalInv, Running
  <2>3. CASE "signal" \notin cancel
    <3>1. Becomes("signal", "raise") /\ raising' = CancelOrder
      BY <1>4, <2>3 DEF TakeTerm
    <3>2. thread'["signal"] = "raise"
      BY <3>1, <1>t DEF Becomes
    <3>3. \A p \in Planes : \E i \in 1..Len(CancelOrder) : CancelOrder[i] = p
      <4>1. /\ Len(CancelOrder) = 4 /\ CancelOrder[1] = "http" /\ CancelOrder[2] = "https"
            /\ CancelOrder[3] = "h3" /\ CancelOrder[4] = "admin"
        BY DEF CancelOrder
      <4> QED
        BY <4>1 DEF Planes, Listeners
    <3>4. ToBeRaised'
      BY <3>1, <3>3 DEF ToBeRaised
    <3>5. (Running /\ told)' => "TERM" \in handled'
      BY <2>1
    <3> QED
      BY Zenon, <3>2, <3>4, <3>5 DEF SignalInv
  <2> QED
    BY <2>2, <2>3
<1>5. CASE RaiseFlag
  <2>1. /\ Running /\ thread["signal"] = "raise" /\ raising # <<>> /\ raising' = Tail(raising)
        /\ cancel' = cancel \cup {Head(raising)}
        /\ UNCHANGED <<exit, handled, told>>
    BY <1>5 DEF RaiseFlag, ProcessInv, RaisingInv
  <2>2. Len(raising) \in Nat \ {0} /\ Head(raising) = raising[1]
    BY <2>1, <1>t
  <2>3. Len(Tail(raising)) = Len(raising) - 1 /\ \A i \in 1..(Len(raising) - 1) : Tail(raising)[i] = raising[i + 1]
    BY <2>1, <1>t
  <2>4. ToBeRaised
    BY <2>1 DEF SignalInv
  <2>5. ToBeRaised'
    <3> SUFFICES ASSUME NEW p \in Planes, p \notin cancel'
                 PROVE  \E i \in 1..Len(raising') : raising'[i] = p
      BY DEF ToBeRaised
    <3>1. PICK i \in 1..Len(raising) : raising[i] = p
      BY <2>1, <2>4 DEF ToBeRaised
    <3>2. i # 1
      BY <2>1, <2>2, <3>1
    <3>3. i - 1 \in 1..(Len(raising) - 1)
      BY <2>2, <3>1, <3>2
    <3>4. Tail(raising)[i - 1] = p
      BY <2>3, <3>1, <3>3
    <3> QED
      BY <2>1, <2>3, <3>3, <3>4
  <2>6. CASE Tail(raising) = <<>>
    <3>1. Becomes("signal", "over")
      BY <1>5, <2>6 DEF RaiseFlag
    <3>2. thread'["signal"] = "over"
      BY <3>1, <1>t DEF Becomes
    <3>3. Stopping'
      <4>1. raising' = <<>> /\ Len(raising') = 0
        BY <2>1, <2>6
      <4>2. Planes \subseteq cancel'
        BY <2>5, <4>1 DEF ToBeRaised
      <4> QED
        BY Zenon, <4>2 DEF Stopping
    <3>4. (Running /\ told)' => "TERM" \in handled'
      BY Zenon, <2>1 DEF SignalInv, Running
    <3> QED
      BY Zenon, <3>2, <3>3, <3>4 DEF SignalInv
  <2>7. CASE Tail(raising) # <<>>
    <3>1. thread' = thread
      BY <1>5, <2>7 DEF RaiseFlag
    <3>2. (Running /\ told)' => "TERM" \in handled'
      BY Zenon, <2>1 DEF SignalInv, Running
    <3> QED
      BY Zenon, <2>1, <2>5, <3>1, <3>2 DEF SignalInv
  <2> QED
    BY <2>6, <2>7
<1> QED
  BY <1>1, <1>2, <1>3, <1>4, <1>5, SignalMoves

\* A delivered SIGTERM is never lost, for every set of configurations and every
\* order of signals, failures and joins.  This is the part of PlanesEnd that does
\* not depend on fairness.
THEOREM TermCorrect == Spec => []TermNotLost
<1>1. Init => FlagInv /\ SignalInv
  <2> SUFFICES ASSUME Init PROVE FlagInv /\ SignalInv
    OBVIOUS
  <2>1. FlagInv
    BY DEF Init, FlagInv
  <2>2. thread["signal"] = "none" /\ handled = {} /\ ~told
    BY Zenon DEF Init, Threads
  <2> QED
    BY Zenon, <2>1, <2>2 DEF SignalInv
<1>2. ProcessInv /\ FlagInv /\ SignalInv /\ [Next]_vars => FlagInv' /\ SignalInv'
  BY FlagStep, SignalStep
<1>3. SignalInv => TermNotLost
  BY Zenon DEF SignalInv, TermNotLost
<1> QED
  BY <1>1, <1>2, <1>3, ProcessCorrect, PTL DEF Spec
=============================================================================
