------------------------------- MODULE Worker -------------------------------
(***************************************************************************)
(* The plain-HTTP data plane of crates/conduit-io, with its two backends   *)
(* (tokio_worker.rs and monoio_worker.rs): worker threads, one accept loop *)
(* per listener on each, connection tasks, the shutdown flag, the drain    *)
(* with its deadline, and Server::wait.  A worker runs all its tasks on    *)
(* one thread, so a step runs from one await to the next.  The backends    *)
(* differ in when they call the handler factory, which hands out Dispatch  *)
(* slots (start_http_server in the binary), and in what a panicking task   *)
(* takes with it.                                                          *)
(***************************************************************************)
EXTENDS Naturals, FiniteSets

CONSTANTS
  NWorkers,   \* number of worker threads
  NListeners, \* number of listening addresses, each bound once per worker
  Conns,      \* the connections clients open
  Backends    \* the backends that are considered

ASSUME WorkerAssumption ==
  /\ NWorkers \in Nat \ {0}
  /\ NListeners \in Nat \ {0}
  /\ IsFiniteSet(Conns)
  /\ Backends \subseteq {"tokio", "monoio"} /\ Backends # {}

VARIABLES
  backend,   \* chosen when the program is built
  flag,      \* the shutdown AtomicBool
  loop,      \* where each accept loop is
  slot,      \* the Dispatch slot its handler uses; 0 until set up
  setups,    \* the factory's counter
  worker,    \* what each worker thread is doing
  accepted, completed,  \* each worker's counters
  conn,      \* what became of each connection
  home,      \* the worker whose socket the kernel gives it to (SO_REUSEPORT)
  joined,    \* the threads wait has joined, in order
  totals,    \* what they have added up to: <<accepted, completed>>
  report,    \* ShutdownReport: <<>> until wait returns
  late       \* history: connections a loop accepted after the flag was set

vars == <<backend, flag, loop, slot, setups, worker, accepted, completed, conn, home, joined,
          totals, report, late>>

Workers == 1..NWorkers
Listeners == 1..NListeners
Loops == Workers \X Listeners

\* serve() has bound every socket and spawned the workers.
Init ==
  /\ backend \in Backends
  /\ flag = FALSE
  /\ loop = [k \in Loops |-> "setup"]
  /\ slot = [k \in Loops |-> 0]
  /\ setups = 0
  /\ worker = [w \in Workers |-> "accepting"]
  /\ accepted = [w \in Workers |-> 0]
  /\ completed = [w \in Workers |-> 0]
  /\ conn = [c \in Conns |-> "waiting"]
  /\ home \in [Conns -> Workers]
  /\ joined = 0
  /\ totals = <<0, 0>>
  /\ report = <<>>
  /\ late = [k \in Loops |-> 0]

counters == <<accepted, completed>>
slots == <<slot, setups>>
waiting == <<joined, totals, report>>

-----------------------------------------------------------------------------
(* run_worker, and monoio's run, register each listener in turn. *)

\* The listener the worker has come to.
UpNext(w, l) ==
  /\ worker[w] = "accepting"
  /\ loop[<<w, l>>] = "setup"
  /\ \A m \in 1..(l - 1) : loop[<<w, m>>] # "setup"

\* Mutant: the index is not reduced modulo the number of workers.
NextSlotWide == setups + 1

\* `setup()`: fetch_add on a counter shared by all workers, modulo their number.
NextSlot == (setups % NWorkers) + 1

\* tokio: each listener of each worker has a handler of its own.
Setup(w, l) ==
  /\ backend = "tokio"
  /\ UpNext(w, l)
  /\ loop' = [loop EXCEPT ![<<w, l>>] = "check"]
  /\ slot' = [slot EXCEPT ![<<w, l>>] = NextSlot]
  /\ setups' = setups + 1
  /\ UNCHANGED <<backend, flag, worker, counters, conn, home, waiting, late>>

\* monoio: one handler for all listeners of a worker, before the runtime is built.
SetupWorker(w) ==
  /\ backend = "monoio"
  /\ \A l \in Listeners : slot[<<w, l>>] = 0
  /\ slot' = [k \in Loops |-> IF k[1] = w THEN NextSlot ELSE slot[k]]
  /\ setups' = setups + 1
  /\ UNCHANGED <<backend, flag, loop, worker, counters, conn, home, waiting, late>>

Register(w, l) ==
  /\ backend = "monoio"
  /\ UpNext(w, l) /\ slot[<<w, l>>] # 0
  /\ loop' = [loop EXCEPT ![<<w, l>>] = "check"]
  /\ UNCHANGED <<backend, flag, slots, worker, counters, conn, home, waiting, late>>

\* The listener cannot be registered with the runtime; it is skipped.
SkipListener(w, l) ==
  /\ UpNext(w, l) /\ (backend = "monoio" => slot[<<w, l>>] # 0)
  /\ loop' = [loop EXCEPT ![<<w, l>>] = "exit"]
  /\ UNCHANGED <<backend, flag, slots, worker, counters, conn, home, waiting, late>>

\* The runtime cannot be built: the thread returns with no counts.
RuntimeFails(w) ==
  /\ UpNext(w, 1) /\ (backend = "monoio" => slot[<<w, 1>>] # 0)
  /\ loop' = [k \in Loops |-> IF k[1] = w THEN "exit" ELSE loop[k]]
  /\ worker' = [worker EXCEPT ![w] = "joined"]
  /\ UNCHANGED <<backend, flag, slots, counters, conn, home, waiting, late>>

\* The loops of a worker first run when run_worker awaits, all set up.
CheckFlag(w, l) ==
  /\ worker[w] = "accepting" /\ loop[<<w, l>>] = "check"
  /\ \A m \in Listeners : loop[<<w, m>>] # "setup"
  /\ loop' = [loop EXCEPT ![<<w, l>>] = IF flag THEN "exit" ELSE "accept"]
  /\ UNCHANGED <<backend, flag, slots, worker, counters, conn, home, waiting, late>>

\* Mutant: the flag is looked at only when an accept times out.
AfterAcceptMut == "accept"

\* Every iteration starts with the flag.
AfterAccept == "check"

\* accept() yields a connection: count it and spawn its task.
Accept(w, l, c) ==
  /\ loop[<<w, l>>] = "accept"
  /\ conn[c] = "waiting" /\ home[c] = w
  /\ accepted' = [accepted EXCEPT ![w] = @ + 1]
  /\ conn' = [conn EXCEPT ![c] = "serving"]
  /\ loop' = [loop EXCEPT ![<<w, l>>] = AfterAccept]
  /\ late' = [late EXCEPT ![<<w, l>>] = IF flag THEN @ + 1 ELSE @]
  /\ UNCHANGED <<backend, flag, slots, worker, completed, home, waiting>>

\* The poll interval elapses, or accept() fails.
AcceptNothing(w, l) ==
  /\ loop[<<w, l>>] = "accept"
  /\ loop' = [loop EXCEPT ![<<w, l>>] = "check"]
  /\ UNCHANGED <<backend, flag, slots, worker, counters, conn, home, waiting, late>>

-----------------------------------------------------------------------------
(* Connection tasks live until the worker's runtime is dropped. *)

HandlerReturns(c) ==
  /\ conn[c] = "serving"
  /\ conn' = [conn EXCEPT ![c] = "served"]
  /\ completed' = [completed EXCEPT ![home[c]] = @ + 1]
  /\ UNCHANGED <<backend, flag, loop, slots, worker, accepted, home, waiting, late>>

\* Mutant: a task that panics is counted as completed.
HandlerPanicsMut(c) ==
  /\ backend = "tokio"
  /\ conn[c] = "serving"
  /\ conn' = [conn EXCEPT ![c] = "failed"]
  /\ completed' = [completed EXCEPT ![home[c]] = @ + 1]
  /\ UNCHANGED <<backend, flag, loop, slots, worker, accepted, home, waiting, late>>

\* tokio catches the panic of a task; `completed` is not reached.
HandlerPanics(c) ==
  /\ backend = "tokio"
  /\ conn[c] = "serving"
  /\ conn' = [conn EXCEPT ![c] = "failed"]
  /\ UNCHANGED <<backend, flag, loop, slots, worker, counters, home, waiting, late>>

\* monoio runs tasks on the thread itself: a panic ends the worker, its accept
\* loops and every connection it serves.
WorkerPanics(c) ==
  /\ backend = "monoio"
  /\ conn[c] = "serving"
  /\ worker' = [worker EXCEPT ![home[c]] = "panicked"]
  /\ loop' = [k \in Loops |-> IF k[1] = home[c] THEN "exit" ELSE loop[k]]
  /\ conn' = [d \in Conns |-> IF home[d] = home[c] /\ conn[d] = "serving" THEN "cut" ELSE conn[d]]
  /\ UNCHANGED <<backend, flag, slots, counters, home, waiting, late>>

-----------------------------------------------------------------------------
(* Shutdown *)

\* ShutdownTrigger::cancel
Cancel ==
  /\ ~flag
  /\ flag' = TRUE
  /\ UNCHANGED <<backend, loop, slots, worker, counters, conn, home, waiting, late>>

\* Mutant: the drain starts as soon as one accept loop is over.
LoopsOverMut(w) == \E l \in Listeners : loop[<<w, l>>] = "exit"

\* `while tasks.join_next().await.is_some() {}`
LoopsOver(w) == \A l \in Listeners : loop[<<w, l>>] = "exit"

StartDrain(w) ==
  /\ worker[w] = "accepting"
  /\ LoopsOver(w)
  /\ worker' = [worker EXCEPT ![w] = "draining"]
  /\ UNCHANGED <<backend, flag, loop, slots, counters, conn, home, waiting, late>>

\* Returning from run_worker drops the runtime and every task left on it.
DropRuntime(w) ==
  /\ worker' = [worker EXCEPT ![w] = "joined"]
  /\ conn' = [c \in Conns |-> IF home[c] = w /\ conn[c] = "serving" THEN "cut" ELSE conn[c]]
  /\ UNCHANGED <<backend, flag, loop, slots, counters, home, waiting, late>>

Drained(w) == accepted[w] = completed[w]

FinishDrain(w) == worker[w] = "draining" /\ Drained(w) /\ DropRuntime(w)

\* Mutant: the deadline is looked at only when nothing is being served.
DeadlineElapsesMut(w) ==
  /\ worker[w] = "draining"
  /\ ~Drained(w)
  /\ \A c \in Conns : home[c] = w => conn[c] # "serving"
  /\ DropRuntime(w)

\* shutdown_deadline elapses before the counts meet.
DeadlineElapses(w) == worker[w] = "draining" /\ ~Drained(w) /\ DropRuntime(w)

\* Mutant: a worker that panicked has its counts added all the same.
HandedBackMut(w) == <<totals[1] + accepted[w], totals[2] + completed[w]>>

\* A worker that panicked hands nothing back.
HandedBack(w) ==
  IF worker[w] = "panicked" THEN totals
  ELSE <<totals[1] + accepted[w], totals[2] + completed[w]>>

\* Server::wait joins the threads in order and adds up what they hand back.
Join ==
  /\ joined < NWorkers
  /\ worker[joined + 1] \in {"joined", "panicked"}
  /\ joined' = joined + 1
  /\ totals' = HandedBack(joined + 1)
  /\ UNCHANGED <<backend, flag, loop, slots, worker, counters, conn, home, report, late>>

Wait ==
  /\ report = <<>> /\ joined = NWorkers
  /\ report' = totals
  /\ UNCHANGED <<backend, flag, loop, slots, worker, counters, conn, home, joined, totals, late>>

Returned == report # <<>> /\ UNCHANGED vars

Next ==
  \/ Cancel \/ Join \/ Wait \/ Returned
  \/ \E c \in Conns : HandlerReturns(c) \/ HandlerPanics(c) \/ WorkerPanics(c)
  \/ \E w \in Workers :
       \/ SetupWorker(w) \/ RuntimeFails(w)
       \/ StartDrain(w) \/ FinishDrain(w) \/ DeadlineElapses(w)
       \/ \E l \in Listeners :
            \/ Setup(w, l) \/ Register(w, l) \/ SkipListener(w, l)
            \/ CheckFlag(w, l) \/ AcceptNothing(w, l)
            \/ \E c \in Conns : Accept(w, l, c)

Spec == Init /\ [][Next]_vars

\* Threads run and timers fire: an accept loop always gets past its await and
\* the drain past its deadline.  Nothing is assumed of the connections.
FairSpec ==
  /\ Spec
  /\ WF_vars(Join) /\ WF_vars(Wait)
  /\ \A w \in Workers :
       /\ WF_vars(SetupWorker(w)) /\ WF_vars(StartDrain(w))
       /\ WF_vars(FinishDrain(w)) /\ WF_vars(DeadlineElapses(w))
       /\ \A l \in Listeners :
            /\ WF_vars(Setup(w, l) \/ Register(w, l))
            /\ WF_vars(CheckFlag(w, l)) /\ WF_vars(AcceptNothing(w, l))

-----------------------------------------------------------------------------
TypeOK ==
  /\ backend \in Backends
  /\ flag \in BOOLEAN
  /\ loop \in [Loops -> {"setup", "check", "accept", "exit"}]
  /\ slot \in [Loops -> 0..NWorkers]
  /\ setups \in Nat
  /\ worker \in [Workers -> {"accepting", "draining", "joined", "panicked"}]
  /\ accepted \in [Workers -> Nat] /\ completed \in [Workers -> Nat]
  /\ conn \in [Conns -> {"waiting", "serving", "served", "failed", "cut"}]
  /\ home \in [Conns -> Workers]
  /\ joined \in 0..NWorkers
  /\ totals \in Nat \X Nat
  /\ report \in {<<>>} \cup (Nat \X Nat)
  /\ late \in [Loops -> Nat]

\* The comment in run_worker: the drain relies on `accepted == completed` once
\* everything has drained.  The two counters of a worker always differ by the
\* connections it took that are not served.
CountsMatchConnections ==
  \A w \in Workers :
    accepted[w] = completed[w]
      + Cardinality({c \in Conns : home[c] = w /\ conn[c] \in {"serving", "failed", "cut"}})

\* Once the flag is set an accept loop takes at most the one connection that
\* was racing with it.
OneLateAccept == \A k \in Loops : late[k] <= 1

\* Nothing keeps running on a worker that has been joined, and no loop of it
\* accepts any more: the totals of wait are final.
JoinedIsFinal ==
  \A w \in Workers : worker[w] # "accepting" =>
    /\ \A l \in Listeners : loop[<<w, l>>] = "exit"
    /\ worker[w] # "draining" => \A c \in Conns : home[c] = w => conn[c] # "serving"

\* The plane implements its abstract promise.
D == INSTANCE Drain WITH
       state <- conn, stopping <- flag, summary <- report, fragile <- backend = "monoio",
       lost <- {c \in Conns : worker[home[c]] = "panicked"}
ImplementsDrain == D!DrainSpec

\* After the shutdown trigger wait returns, whatever the connections do.
ShutdownEnds == flag ~> report # <<>>
=============================================================================
