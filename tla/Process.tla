------------------------------ MODULE Process ------------------------------
(***************************************************************************)
(* The conduit process (crates/conduit/src/main.rs) from start to exit:    *)
(* main starts its threads one by one, waits for the plain-HTTP workers,   *)
(* joins the rest in order and turns the report into an exit code.  The    *)
(* planes serve connections on runtimes of their own and have a cancel     *)
(* flag each; the reload and signal threads wait for a signal and nothing  *)
(* else.  A signal whose handler is not installed yet ends the process.    *)
(***************************************************************************)
EXTENDS Naturals, Sequences

CONSTANT Configs  \* what may be configured to listen: sets of planes

Listeners == {"http", "https", "h3"}
Planes == Listeners \cup {"admin"}
Threads == Planes \cup {"reload", "health", "signal"}
Signals == {"TERM", "HUP"}

ASSUME ProcessAssumption == Configs \subseteq SUBSET Listeners

\* The order in which main starts its threads.
StartOrder == <<"https", "reload", "h3", "admin", "health", "http", "signal">>

\* The order in which it waits for them: Server::wait, join_background,
\* join_aux_threads.
JoinOrder == <<"http", "reload", "health", "admin", "https", "h3", "signal">>

\* Mutant: the closure forgets the HTTPS plane.
CancelOrderMut == <<"http", "h3", "admin">>

\* Mutant: the closure also raises the flag of the probes, which main owns.
CancelOrderWide == <<"http", "https", "h3", "admin", "health">>

\* The order in which the closure of spawn_signal_thread raises the flags.
CancelOrder == <<"http", "https", "h3", "admin">>

VARIABLES
  listening, \* the planes with a listener in the config
  thread,    \* what each thread is doing; "none" if it was not started
  cancel,    \* the flags that are raised, named by the thread that reads them
  main,      \* how far main is: 0, then its step in StartOrder \o JoinOrder
  exit,      \* how the process ended; "no" while it runs
  handled,   \* signals that have a handler
  pending,   \* signals delivered and not yet taken by their iterator
  raising,   \* flags the signal thread has yet to raise
  inflight,  \* planes with a connection being served
  told,      \* history: a SIGTERM or SIGINT has been delivered
  failed,    \* history: threads that ended by themselves
  cut        \* history: planes that dropped a connection they were serving

vars == <<listening, thread, cancel, main, exit, handled, pending, raising, inflight, told, failed, cut>>

Running == exit = "no"
Started == Len(StartOrder)
Becomes(t, s) == thread' = [thread EXCEPT ![t] = s]

Init ==
  /\ listening \in Configs
  /\ thread = [t \in Threads |-> "none"]
  /\ cancel = {} /\ handled = {} /\ pending = {} /\ inflight = {} /\ failed = {} /\ cut = {}
  /\ main = 0
  /\ exit = "no"
  /\ raising = <<>>
  /\ told = FALSE

signalVars == <<handled, pending, raising, told>>
planeVars == <<inflight, failed, cut>>

-----------------------------------------------------------------------------
(* main *)

\* The process ends, and every connection with it.
Ends(how) ==
  /\ exit' = how
  /\ cut' = cut \cup inflight
  /\ inflight' = {}

\* The config is invalid (exit code 2), --check was given (0), or nothing listens (78).
EndsEarly ==
  /\ Running /\ main = 0
  /\ Ends("early")
  /\ UNCHANGED <<listening, thread, cancel, main, signalVars, failed>>

Loaded ==
  /\ Running /\ main = 0 /\ listening # {}
  /\ main' = 1
  /\ UNCHANGED <<listening, thread, cancel, exit, signalVars, planeVars>>

Starts(t) == Running /\ main \in 1..Started /\ StartOrder[main] = t

Start(t) ==
  /\ Starts(t) /\ (t \in Listeners => t \in listening)
  /\ Becomes(t, "new")
  /\ main' = main + 1
  /\ UNCHANGED <<listening, cancel, exit, signalVars, planeVars>>

\* No listener, or a TLS configuration that does not load (https, h3); no probe
\* (health); no thread to be had (admin).
NotStarted(t) ==
  /\ Starts(t)
  /\ t \in {"https", "h3", "admin", "health"} \/ t \in Listeners \ listening
  /\ main' = main + 1
  /\ UNCHANGED <<listening, thread, cancel, exit, signalVars, planeVars>>

\* start_http_server cannot bind: main returns 1 and joins nothing.
HttpBindFails ==
  /\ Starts("http") /\ "http" \in listening
  /\ Ends("bind")
  /\ UNCHANGED <<listening, thread, cancel, main, signalVars, failed>>

Joining == main - Started

\* Before it joins a thread main raises its flag.
FlagsRaised(k) == IF k < Len(JoinOrder) THEN {JoinOrder[k + 1]} ELSE {}

\* Mutant: main does not wait for the auxiliary planes.
CanPassMut(k) ==
  JoinOrder[k] \notin {"admin", "https", "h3"} => thread[JoinOrder[k]] \in {"none", "over"}

\* A thread that was not started is not joined.
CanPass(k) == thread[JoinOrder[k]] \in {"none", "over"}

Join ==
  /\ Running /\ Joining \in 1..Len(JoinOrder)
  /\ CanPass(Joining)
  /\ main' = main + 1
  /\ cancel' = cancel \cup FlagsRaised(Joining)
  /\ UNCHANGED <<listening, thread, exit, signalVars, planeVars>>

\* `report.accepted == report.completed`
ExitCode == IF "http" \in cut THEN "unserved" ELSE "ok"

Return ==
  /\ Running /\ Joining > Len(JoinOrder)
  /\ Ends(ExitCode)
  /\ UNCHANGED <<listening, thread, cancel, main, signalVars, failed>>

-----------------------------------------------------------------------------
(* Signals, and the threads that wait for them *)

HandlerOf(t) == IF t = "signal" THEN "TERM" ELSE "HUP"

Install(t) ==
  /\ Running /\ t \in {"signal", "reload"} /\ thread[t] = "new"
  /\ Becomes(t, "run")
  /\ handled' = handled \cup {HandlerOf(t)}
  /\ UNCHANGED <<listening, cancel, main, exit, pending, raising, told, planeVars>>

\* Signals::new fails: the thread returns.
InstallFails(t) ==
  /\ Running /\ t \in {"signal", "reload"} /\ thread[t] = "new"
  /\ Becomes(t, "over")
  /\ failed' = failed \cup {t}
  /\ UNCHANGED <<listening, cancel, main, exit, signalVars, inflight, cut>>

Deliver(s) ==
  /\ Running /\ s \in handled /\ s \notin pending
  /\ pending' = pending \cup {s}
  /\ told' = (told \/ s = "TERM")
  /\ UNCHANGED <<listening, thread, cancel, main, exit, handled, raising, planeVars>>

\* The default action of both signals.
Kill(s) ==
  /\ Running /\ s \notin handled
  /\ told' = (told \/ s = "TERM")
  /\ Ends("killed")
  /\ UNCHANGED <<listening, thread, cancel, main, handled, pending, raising, failed>>

Takes(t) ==
  /\ Running /\ thread[t] = "run" /\ HandlerOf(t) \in pending
  /\ pending' = pending \ {HandlerOf(t)}

\* install_signal_handler takes one signal; `parent_done` makes it return.
TakeTerm ==
  /\ Takes("signal")
  /\ IF "signal" \in cancel THEN Becomes("signal", "over") /\ UNCHANGED raising
     ELSE Becomes("signal", "raise") /\ raising' = CancelOrder
  /\ UNCHANGED <<listening, cancel, main, exit, handled, told, planeVars>>

RaiseFlag ==
  /\ Running /\ thread["signal"] = "raise"
  /\ cancel' = cancel \cup {Head(raising)}
  /\ raising' = Tail(raising)
  /\ IF Tail(raising) = <<>> THEN Becomes("signal", "over") ELSE UNCHANGED thread
  /\ UNCHANGED <<listening, main, exit, handled, pending, told, planeVars>>

\* Mutant: the handler raises the HTTP plane's flag before it reloads.
TakeHupMut ==
  /\ Takes("reload")
  /\ cancel' = cancel \cup {"http"}
  /\ IF "reload" \in cancel THEN Becomes("reload", "over") ELSE UNCHANGED thread
  /\ UNCHANGED <<listening, main, exit, handled, raising, told, planeVars>>

\* Mutant: `done` is looked at only after the reload, by a loop that goes on.
TakeHupDeaf ==
  /\ Takes("reload")
  /\ UNCHANGED <<listening, thread, cancel, main, exit, handled, raising, told, planeVars>>

\* install_reload_handler looks at `done` only when a SIGHUP has arrived.
TakeHup ==
  /\ Takes("reload")
  /\ IF "reload" \in cancel THEN Becomes("reload", "over") ELSE UNCHANGED thread
  /\ UNCHANGED <<listening, cancel, main, exit, handled, raising, told, planeVars>>

-----------------------------------------------------------------------------
(* The planes *)

\* The runtime is built and every address bound.
Bound(p) ==
  /\ Running /\ thread[p] = "new"
  /\ Becomes(p, "run")
  /\ UNCHANGED <<listening, cancel, main, exit, signalVars, planeVars>>

\* The runtime or one address fails: the whole plane returns.
PlaneFails(p) ==
  /\ Running /\ thread[p] = "new"
  /\ Becomes(p, "over")
  /\ failed' = failed \cup {p}
  /\ UNCHANGED <<listening, cancel, main, exit, signalVars, inflight, cut>>

ConnOpens(p) ==
  /\ Running /\ thread[p] = "run" /\ p \notin inflight
  /\ inflight' = inflight \cup {p}
  /\ UNCHANGED <<listening, thread, cancel, main, exit, signalVars, failed, cut>>

ConnEnds(p) ==
  /\ Running /\ p \in inflight
  /\ inflight' = inflight \ {p}
  /\ UNCHANGED <<listening, thread, cancel, main, exit, signalVars, failed, cut>>

\* The accept loops see the flag and the thread returns: the workers after a
\* drain that has a deadline (module Worker), the others at once.  What is
\* still being served goes with the runtime.
PlaneStops(p) ==
  /\ Running /\ thread[p] = "run" /\ p \in cancel
  /\ Becomes(p, "over")
  /\ cut' = cut \cup (inflight \cap {p})
  /\ inflight' = inflight \ {p}
  /\ UNCHANGED <<listening, cancel, main, exit, signalVars, failed>>

PlaneSteps(p) == Bound(p) \/ PlaneFails(p) \/ ConnOpens(p) \/ ConnEnds(p) \/ PlaneStops(p)

RunWorkers == PlaneSteps("http")
RunHttps == PlaneSteps("https")
RunH3 == PlaneSteps("h3")
ServeAdmin == PlaneSteps("admin")

-----------------------------------------------------------------------------
(* The health thread; a probe reads the body of its response without a deadline. *)

HealthMoves(from, to) ==
  /\ Running /\ thread["health"] = from
  /\ Becomes("health", to)
  /\ UNCHANGED <<listening, cancel, main, exit, signalVars, planeVars>>

ProbeReads == "health" \notin cancel /\ HealthMoves("run", "read")
ProbeReadEnds == HealthMoves("read", "run")
HealthStarts == \E s \in {"run", "over"} : HealthMoves("new", s)
HealthStops == "health" \in cancel /\ HealthMoves("run", "over")

Exited == ~Running /\ UNCHANGED vars

Next ==
  \/ EndsEarly \/ Loaded \/ HttpBindFails \/ Join \/ Return \/ Exited
  \/ \E t \in Threads : Start(t) \/ NotStarted(t) \/ Install(t) \/ InstallFails(t)
  \/ \E s \in Signals : Deliver(s) \/ Kill(s)
  \/ TakeTerm \/ RaiseFlag \/ TakeHup
  \/ RunWorkers \/ RunHttps \/ RunH3 \/ ServeAdmin
  \/ ProbeReads \/ ProbeReadEnds \/ HealthStarts \/ HealthStops

Spec == Init /\ [][Next]_vars

\* Threads are scheduled and timers fire.  Nothing is assumed of who sends
\* signals, of clients or of backends.
FairSpec ==
  /\ Spec
  /\ WF_vars(Join) /\ WF_vars(Return) /\ WF_vars(TakeTerm) /\ WF_vars(RaiseFlag) /\ WF_vars(TakeHup)
  /\ WF_vars(HealthStarts) /\ WF_vars(HealthStops)
  /\ \A p \in Planes : WF_vars(Bound(p) \/ PlaneFails(p)) /\ WF_vars(PlaneStops(p))

-----------------------------------------------------------------------------
TypeOK ==
  /\ listening \in Configs
  /\ thread \in [Threads -> {"none", "new", "run", "raise", "read", "over"}]
  /\ cancel \subseteq Threads /\ failed \subseteq Threads
  /\ main \in 0..(Started + Len(JoinOrder) + 1)
  /\ exit \in {"no", "early", "bind", "killed", "ok", "unserved"}
  /\ handled \subseteq Signals /\ pending \subseteq handled
  /\ raising \in Seq(Planes)
  /\ inflight \subseteq Planes /\ cut \subseteq Planes
  /\ told \in BOOLEAN

\* A process that comes to the end of main leaves nothing behind: every thread
\* it started is over and no connection is open, in whatever order flags,
\* signals and failures arrived; and its exit code is 0 only if the workers
\* served every connection they took (it says nothing of the other planes,
\* which drop theirs).  A connection task that panics is the subject of module
\* Worker: on monoio it takes its worker's counts with it.
ExitIsLast ==
  Joining > Len(JoinOrder) =>
    /\ inflight = {} /\ \A t \in Threads : thread[t] \in {"none", "over"}
    /\ exit = "ok" => "http" \notin cut

\* With plain-HTTP workers up, nobody having asked the process to stop and no
\* thread having failed, no plane stops and no connection is dropped, whatever
\* SIGHUPs arrive.
StopsOnlyWhenTold ==
  Running /\ ~told /\ failed = {} /\ (main > Started => "http" \in listening) =>
    /\ cut = {}
    /\ \A p \in Planes : thread[p] # "over"

\* After SIGTERM every plane that was started ends, whatever clients do and
\* whenever in the life of the process the signal arrives.
PlanesEnd == told ~> (~Running \/ \A p \in Planes : thread[p] \in {"none", "over"})

\* SIGTERM, followed by a SIGHUP once main has reached join_background, ends
\* the process, unless a probe is reading a body that never ends.
TermThenHupExits ==
  (told /\ Joining = 2 /\ "HUP" \in pending) ~> (~Running \/ thread["health"] = "read")

\* README.md: SIGTERM and SIGINT trigger a graceful shutdown, so the process
\* ends once one was delivered (no thread having failed).
TermExits == told ~> (~Running \/ failed # {})
=============================================================================
