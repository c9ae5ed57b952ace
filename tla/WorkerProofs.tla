---------------------------- MODULE WorkerProofs ----------------------------
(***************************************************************************)
(* Proofs about Worker for any number of workers, listeners and            *)
(* connections and both backends, up to the refinement of Drain, and about *)
(* the way down once the shutdown flag is set.                             *)
(***************************************************************************)
EXTENDS Worker, FiniteSetTheorems, TLAPS

-----------------------------------------------------------------------------
(* Type correctness *)

\* An accept loop is a pair of a worker and a listener.
LEMMA LoopsPairs ==
  /\ \A w \in Workers, l \in Listeners : <<w, l>> \in Loops
  /\ \A k \in Loops : k[1] \in Workers /\ k[2] \in Listeners /\ k = <<k[1], k[2]>>
BY DEF Loops

\* The factory hands out slots of the Dispatch array only.
LEMMA NextSlotType == ASSUME setups \in Nat PROVE NextSlot \in 1..NWorkers
BY WorkerAssumption DEF NextSlot

\* TypeOK is inductive.
LEMMA WorkerTypeStep == TypeOK /\ [Next]_vars => TypeOK'
<1> SUFFICES ASSUME TypeOK, [Next]_vars PROVE TypeOK'
  OBVIOUS
<1> USE WorkerAssumption, LoopsPairs DEF TypeOK, counters, slots, waiting
<1>1. CASE Cancel
  BY <1>1 DEF Cancel
<1>2. CASE Join
  <2>1. joined + 1 \in Workers /\ totals[1] \in Nat /\ totals[2] \in Nat
    BY <1>2 DEF Join, Workers
  <2>2. HandedBack(joined + 1) \in Nat \X Nat
    BY <2>1 DEF HandedBack
  <2> QED
    BY <1>2, <2>2, SMTT(30) DEF Join
<1>3. CASE Wait
  BY <1>3 DEF Wait
<1>4. CASE Returned \/ UNCHANGED vars
  BY <1>4 DEF Returned, vars
<1>5. ASSUME NEW c \in Conns, HandlerReturns(c) PROVE TypeOK'
  BY <1>5, SMTT(30) DEF HandlerReturns
<1>6. ASSUME NEW c \in Conns, HandlerPanics(c) PROVE TypeOK'
  BY <1>6 DEF HandlerPanics
<1>7. ASSUME NEW c \in Conns, WorkerPanics(c) PROVE TypeOK'
  BY <1>7 DEF WorkerPanics
<1>8. ASSUME NEW w \in Workers, SetupWorker(w) PROVE TypeOK'
  <2>1. slot' \in [Loops -> 0..NWorkers]
    BY <1>8, NextSlotType DEF SetupWorker
  <2> QED
    BY <1>8, <2>1, SMTT(30) DEF SetupWorker
<1>9. ASSUME NEW w \in Workers, RuntimeFails(w) PROVE TypeOK'
  BY <1>9 DEF RuntimeFails
<1>10. ASSUME NEW w \in Workers, StartDrain(w) PROVE TypeOK'
  BY <1>10 DEF StartDrain
<1>11. ASSUME NEW w \in Workers, FinishDrain(w) \/ DeadlineElapses(w) PROVE TypeOK'
  <2>1. DropRuntime(w)
    BY <1>11 DEF FinishDrain, DeadlineElapses
  <2> QED
    BY <2>1 DEF DropRuntime
<1>12. ASSUME NEW w \in Workers, NEW l \in Listeners, Setup(w, l) PROVE TypeOK'
  <2>1. slot' \in [Loops -> 0..NWorkers]
    BY <1>12, NextSlotType DEF Setup
  <2>2. loop' \in [Loops -> {"setup", "check", "accept", "exit"}] /\ setups' \in Nat
    BY <1>12 DEF Setup
  <2> QED
    BY Zenon, <1>12, <2>1, <2>2 DEF Setup
<1>13. ASSUME NEW w \in Workers, NEW l \in Listeners, Register(w, l) \/ SkipListener(w, l)
       PROVE  TypeOK'
  <2>1. PICK s \in {"check", "exit"} : loop' = [loop EXCEPT ![<<w, l>>] = s]
    BY <1>13 DEF Register, SkipListener
  <2>2. UNCHANGED <<backend, flag, slots, worker, counters, conn, home, waiting, late>>
    BY <1>13 DEF Register, SkipListener
  <2>3. loop' \in [Loops -> {"setup", "check", "accept", "exit"}]
    BY <2>1
  <2> QED
    BY <2>2, <2>3
<1>14. ASSUME NEW w \in Workers, NEW l \in Listeners, CheckFlag(w, l) PROVE TypeOK'
  BY <1>14 DEF CheckFlag
<1>15. ASSUME NEW w \in Workers, NEW l \in Listeners, AcceptNothing(w, l) PROVE TypeOK'
  BY <1>15 DEF AcceptNothing
<1>16. ASSUME NEW w \in Workers, NEW l \in Listeners, NEW c \in Conns, Accept(w, l, c)
       PROVE  TypeOK'
  <2>1. loop' \in [Loops -> {"setup", "check", "accept", "exit"}]
    BY <1>16 DEF Accept, AfterAccept
  <2>2. late' \in [Loops -> Nat]
    BY <1>16 DEF Accept
  <2>3. /\ accepted' \in [Workers -> Nat]
        /\ conn' \in [Conns -> {"waiting", "serving", "served", "failed", "cut"}]
    BY <1>16, SMTT(30) DEF Accept
  <2> QED
    BY Zenon, <1>16, <2>1, <2>2, <2>3 DEF Accept
<1> QED
  BY Zenon, <1>1, <1>2, <1>3, <1>4, <1>5, <1>6, <1>7, <1>8, <1>9, <1>10, <1>11, <1>12, <1>13,
     <1>14, <1>15, <1>16 DEF Next

\* The state of the plane keeps its type; in particular every handler gets a
\* Dispatch slot that exists, however many times the factory is called.
THEOREM WorkerTypeCorrect == Spec => []TypeOK
<1>1. Init => TypeOK
  <2> SUFFICES ASSUME Init PROVE TypeOK
    OBVIOUS
  <2>1. flag \in BOOLEAN
    BY Zenon DEF Init
  <2> QED
    BY <2>1, WorkerAssumption DEF Init, TypeOK
<1> QED
  BY <1>1, WorkerTypeStep, PTL DEF Spec

-----------------------------------------------------------------------------
(* Accept loops *)

\* A worker none of whose listeners is waiting to be registered may accept; as
\* long as one is, it has taken no connection.
SetupInv ==
  \A w \in Workers, l \in Listeners : loop[<<w, l>>] = "setup" =>
    /\ \A m \in Listeners : loop[<<w, m>>] # "accept"
    /\ \A c \in Conns : home[c] = w => conn[c] = "waiting"

\* Until the flag is set, a worker that has taken a connection and did not panic
\* still has a loop that runs.
OpenInv ==
  \A c \in Conns : conn[c] # "waiting" /\ worker[home[c]] # "panicked" =>
    flag \/ \E l \in Listeners : loop[<<home[c], l>>] \in {"check", "accept"}

\* A loop that accepted after the flag was set looks at the flag next.
LateInv ==
  \A k \in Loops : /\ late[k] <= 1
                   /\ late[k] = 1 => flag /\ loop[k] \in {"check", "exit"}

LoopInv == SetupInv /\ OpenInv /\ JoinedIsFinal /\ LateInv

\* The steps of a loop that register or skip its listener.
Registers(w, l) ==
  /\ worker[w] = "accepting" /\ loop[<<w, l>>] = "setup"
  /\ \E s \in {"check", "exit"} : loop' = [loop EXCEPT ![<<w, l>>] = s]
  /\ UNCHANGED <<flag, worker, accepted, completed, conn, home, joined, totals, report, late>>

\* The steps that leave the loops, the workers and the connections alone.
Idle ==
  /\ UNCHANGED <<loop, worker, accepted, completed, conn, home, late>>
  /\ flag => flag'

\* Every step of the plane is one of these.
LEMMA Steps ==
  ASSUME TypeOK, [Next]_vars
  PROVE  \/ Idle
         \/ \E c \in Conns : HandlerReturns(c) \/ HandlerPanics(c) \/ WorkerPanics(c)
         \/ \E w \in Workers :
              \/ RuntimeFails(w) \/ StartDrain(w)
              \/ worker[w] = "draining" /\ DropRuntime(w)
              \/ \E l \in Listeners :
                   \/ Registers(w, l) \/ CheckFlag(w, l) \/ AcceptNothing(w, l)
                   \/ \E c \in Conns : Accept(w, l, c)
<1>1. Cancel \/ Join \/ Wait \/ Returned \/ UNCHANGED vars => Idle
  BY DEF Cancel, Join, Wait, Returned, vars, Idle, counters
<1>2. \A w \in Workers : SetupWorker(w) => Idle
  BY DEF SetupWorker, Idle, counters
<1>3. \A w \in Workers, l \in Listeners :
        Setup(w, l) \/ Register(w, l) \/ SkipListener(w, l) => Registers(w, l)
  BY DEF Setup, Register, SkipListener, UpNext, Registers, counters, waiting
<1>4. \A w \in Workers : FinishDrain(w) \/ DeadlineElapses(w) => worker[w] = "draining" /\ DropRuntime(w)
  BY DEF FinishDrain, DeadlineElapses
<1> QED
  BY <1>1, <1>2, <1>3, <1>4 DEF Next

\* What registering does to the loops.
LEMMA RegistersEffect ==
  ASSUME TypeOK, NEW w \in Workers, NEW l \in Listeners, Registers(w, l)
  PROVE  /\ loop[<<w, l>>] = "setup"
         /\ loop'[<<w, l>>] \in {"check", "exit"}
         /\ \A v \in Workers, m \in Listeners :
              v # w \/ m # l => loop'[<<v, m>>] = loop[<<v, m>>]
BY LoopsPairs DEF TypeOK, Registers

\* SetupInv is inductive relative to TypeOK.
LEMMA SetupStep == TypeOK /\ SetupInv /\ [Next]_vars => SetupInv'
<1> SUFFICES ASSUME TypeOK, SetupInv, [Next]_vars PROVE SetupInv'
  OBVIOUS
<1>0. ASSUME NEW w \in Workers, NEW l \in Listeners, Registers(w, l) PROVE SetupInv'
  <2>1. \A v \in Workers, m \in Listeners :
          /\ loop'[<<v, m>>] = "setup" => loop[<<v, m>>] = "setup"
          /\ loop[<<v, m>>] # "accept" => loop'[<<v, m>>] # "accept"
    BY Zenon, <1>0, RegistersEffect
  <2>2. UNCHANGED <<conn, home>>
    BY <1>0 DEF Registers
  <2> QED
    BY <2>1, <2>2, LoopsPairs DEF SetupInv, TypeOK
<1> USE LoopsPairs DEF TypeOK, SetupInv
<1>1. CASE Idle
  BY <1>1 DEF Idle
<1>2. ASSUME NEW c \in Conns, HandlerReturns(c) \/ HandlerPanics(c) PROVE SetupInv'
  BY <1>2 DEF HandlerReturns, HandlerPanics
<1>3. ASSUME NEW c \in Conns, WorkerPanics(c) PROVE SetupInv'
  BY <1>3 DEF WorkerPanics
<1>4. ASSUME NEW w \in Workers, RuntimeFails(w) PROVE SetupInv'
  BY <1>4 DEF RuntimeFails
<1>5. ASSUME NEW w \in Workers, StartDrain(w) PROVE SetupInv'
  BY <1>5 DEF StartDrain
<1>6. ASSUME NEW w \in Workers, DropRuntime(w) PROVE SetupInv'
  BY <1>6 DEF DropRuntime
<1>7. ASSUME NEW w \in Workers, NEW l \in Listeners, CheckFlag(w, l) PROVE SetupInv'
  BY <1>7 DEF CheckFlag
<1>8. ASSUME NEW w \in Workers, NEW l \in Listeners, AcceptNothing(w, l) PROVE SetupInv'
  BY <1>8 DEF AcceptNothing
<1>9. ASSUME NEW w \in Workers, NEW l \in Listeners, NEW c \in Conns, Accept(w, l, c)
       PROVE  SetupInv'
  BY <1>9, SMTT(30) DEF Accept, AfterAccept
<1> QED
  BY Zenon, <1>0, <1>1, <1>2, <1>3, <1>4, <1>5, <1>6, <1>7, <1>8, <1>9, Steps

\* OpenInv is inductive relative to TypeOK and SetupInv.
LEMMA OpenStep == TypeOK /\ SetupInv /\ OpenInv /\ [Next]_vars => OpenInv'
<1> SUFFICES ASSUME TypeOK, SetupInv, OpenInv, [Next]_vars PROVE OpenInv'
  OBVIOUS
<1>0. ASSUME NEW w \in Workers, NEW l \in Listeners, Registers(w, l) PROVE OpenInv'
  <2>1. \A v \in Workers, m \in Listeners :
          loop[<<v, m>>] \in {"check", "accept"} => loop'[<<v, m>>] \in {"check", "accept"}
    BY Zenon, <1>0, RegistersEffect
  <2>2. UNCHANGED <<flag, worker, conn, home>>
    BY <1>0 DEF Registers
  <2> QED
    BY Zenon, <2>1, <2>2, LoopsPairs DEF OpenInv, TypeOK
<1> USE LoopsPairs DEF TypeOK, OpenInv
<1>1. CASE Idle
  BY Zenon, <1>1 DEF Idle
<1>2. ASSUME NEW c \in Conns, HandlerReturns(c) \/ HandlerPanics(c) PROVE OpenInv'
  BY Zenon, <1>2 DEF HandlerReturns, HandlerPanics
<1>3. ASSUME NEW c \in Conns, WorkerPanics(c) PROVE OpenInv'
  BY Zenon, <1>3 DEF WorkerPanics
<1>4. ASSUME NEW w \in Workers, RuntimeFails(w) PROVE OpenInv'
  <2>1. 1 \in Listeners /\ loop[<<w, 1>>] = "setup"
    BY <1>4, WorkerAssumption DEF RuntimeFails, UpNext, Listeners
  <2>2. \A c \in Conns : home[c] = w => conn[c] = "waiting"
    BY <2>1 DEF SetupInv
  <2> QED
    BY Zenon, <1>4, <2>2 DEF RuntimeFails
<1>5. ASSUME NEW w \in Workers, StartDrain(w) PROVE OpenInv'
  BY Zenon, <1>5 DEF StartDrain
<1>6. ASSUME NEW w \in Workers, worker[w] = "draining", DropRuntime(w) PROVE OpenInv'
  BY Zenon, <1>6 DEF DropRuntime
<1>7. ASSUME NEW w \in Workers, NEW l \in Listeners, CheckFlag(w, l) PROVE OpenInv'
  BY Zenon, <1>7 DEF CheckFlag
<1>8. ASSUME NEW w \in Workers, NEW l \in Listeners, AcceptNothing(w, l) PROVE OpenInv'
  BY <1>8 DEF AcceptNothing
<1>9. ASSUME NEW w \in Workers, NEW l \in Listeners, NEW c \in Conns, Accept(w, l, c)
       PROVE  OpenInv'
  BY Zenon, <1>9 DEF Accept, AfterAccept
<1> QED
  BY Zenon, <1>0, <1>1, <1>2, <1>3, <1>4, <1>5, <1>6, <1>7, <1>8, <1>9, Steps

\* JoinedIsFinal is inductive relative to TypeOK and SetupInv.
LEMMA FinalStep == TypeOK /\ SetupInv /\ JoinedIsFinal /\ [Next]_vars => JoinedIsFinal'
<1> SUFFICES ASSUME TypeOK, SetupInv, JoinedIsFinal, [Next]_vars PROVE JoinedIsFinal'
  OBVIOUS
<1>0. ASSUME NEW w \in Workers, NEW l \in Listeners, Registers(w, l) PROVE JoinedIsFinal'
  <2>1. worker[w] = "accepting" /\ UNCHANGED <<worker, conn, home>>
    BY <1>0 DEF Registers
  <2>2. \A v \in Workers, m \in Listeners : v # w => loop'[<<v, m>>] = loop[<<v, m>>]
    BY <1>0, RegistersEffect
  <2>3. ASSUME NEW v \in Workers, worker'[v] # "accepting"
        PROVE  /\ \A m \in Listeners : loop'[<<v, m>>] = "exit"
               /\ worker'[v] # "draining" => \A c \in Conns : home'[c] = v => conn'[c] # "serving"
    <3>1. v # w /\ worker[v] # "accepting"
      BY <2>1, <2>3
    <3> QED
      BY <2>1, <2>2, <3>1 DEF JoinedIsFinal
  <2> QED
    BY <2>3 DEF JoinedIsFinal
<1> USE LoopsPairs DEF TypeOK, JoinedIsFinal
<1>1. CASE Idle
  BY <1>1 DEF Idle
<1>2. ASSUME NEW c \in Conns, HandlerReturns(c) \/ HandlerPanics(c) PROVE JoinedIsFinal'
  BY <1>2 DEF HandlerReturns, HandlerPanics
<1>3. ASSUME NEW c \in Conns, WorkerPanics(c) PROVE JoinedIsFinal'
  BY <1>3 DEF WorkerPanics
<1>4. ASSUME NEW w \in Workers, RuntimeFails(w) PROVE JoinedIsFinal'
  <2>1. 1 \in Listeners /\ loop[<<w, 1>>] = "setup"
    BY <1>4, WorkerAssumption DEF RuntimeFails, UpNext, Listeners
  <2>2. \A c \in Conns : home[c] = w => conn[c] = "waiting"
    BY <2>1 DEF SetupInv
  <2> QED
    BY <1>4, <2>2 DEF RuntimeFails
<1>5. ASSUME NEW w \in Workers, StartDrain(w) PROVE JoinedIsFinal'
  BY <1>5 DEF StartDrain, LoopsOver
<1>6. ASSUME NEW w \in Workers, worker[w] = "draining", DropRuntime(w) PROVE JoinedIsFinal'
  BY <1>6 DEF DropRuntime
<1>7. ASSUME NEW w \in Workers, NEW l \in Listeners, CheckFlag(w, l) PROVE JoinedIsFinal'
  BY <1>7 DEF CheckFlag
<1>8. ASSUME NEW w \in Workers, NEW l \in Listeners, AcceptNothing(w, l) PROVE JoinedIsFinal'
  BY <1>8 DEF AcceptNothing
<1>9. ASSUME NEW w \in Workers, NEW l \in Listeners, NEW c \in Conns, Accept(w, l, c)
       PROVE  JoinedIsFinal'
  BY <1>9, SMTT(30) DEF Accept, AfterAccept
<1> QED
  BY Zenon, <1>0, <1>1, <1>2, <1>3, <1>4, <1>5, <1>6, <1>7, <1>8, <1>9, Steps

\* LateInv is inductive relative to TypeOK.
LEMMA LateStep == TypeOK /\ LateInv /\ [Next]_vars => LateInv'
<1> SUFFICES ASSUME TypeOK, LateInv, [Next]_vars PROVE LateInv'
  OBVIOUS
<1>0. ASSUME NEW w \in Workers, NEW l \in Listeners, Registers(w, l) PROVE LateInv'
  <2>1. UNCHANGED <<flag, late>>
    BY <1>0 DEF Registers
  <2>2. \A v \in Workers, m \in Listeners :
          loop[<<v, m>>] \in {"check", "exit"} => loop'[<<v, m>>] \in {"check", "exit"}
    BY Zenon, <1>0, RegistersEffect
  <2> QED
    BY <2>1, <2>2, LoopsPairs DEF LateInv, TypeOK
<1> USE LoopsPairs DEF TypeOK, LateInv
<1>1. CASE Idle
  BY <1>1 DEF Idle
<1>2. ASSUME NEW c \in Conns, HandlerReturns(c) \/ HandlerPanics(c) PROVE LateInv'
  BY <1>2 DEF HandlerReturns, HandlerPanics
<1>3. ASSUME NEW c \in Conns, WorkerPanics(c) PROVE LateInv'
  BY <1>3 DEF WorkerPanics
<1>4. ASSUME NEW w \in Workers, RuntimeFails(w) PROVE LateInv'
  BY <1>4 DEF RuntimeFails
<1>5. ASSUME NEW w \in Workers, StartDrain(w) PROVE LateInv'
  BY <1>5 DEF StartDrain
<1>6. ASSUME NEW w \in Workers, DropRuntime(w) PROVE LateInv'
  BY <1>6 DEF DropRuntime
<1>7. ASSUME NEW w \in Workers, NEW l \in Listeners, CheckFlag(w, l) PROVE LateInv'
  BY <1>7 DEF CheckFlag
<1>8. ASSUME NEW w \in Workers, NEW l \in Listeners, AcceptNothing(w, l) PROVE LateInv'
  BY <1>8 DEF AcceptNothing
<1>9. ASSUME NEW w \in Workers, NEW l \in Listeners, NEW c \in Conns, Accept(w, l, c)
       PROVE  LateInv'
  <2>1. late[<<w, l>>] = 0
    <3>1. <<w, l>> \in Loops /\ loop[<<w, l>>] = "accept"
      BY <1>9 DEF Accept
    <3>2. late[<<w, l>>] \in Nat /\ late[<<w, l>>] <= 1
      BY <3>1
    <3>3. late[<<w, l>>] # 1
      BY Zenon, <3>1
    <3> QED
      BY <3>2, <3>3
  <2>2. /\ late'[<<w, l>>] = IF flag THEN 1 ELSE 0
        /\ loop'[<<w, l>>] = "check"
        /\ UNCHANGED flag
    BY <1>9, <2>1 DEF Accept, AfterAccept
  <2>3. \A k \in Loops : k # <<w, l>> => late'[k] = late[k] /\ loop'[k] = loop[k]
    BY <1>9 DEF Accept
  <2>4. ASSUME NEW k \in Loops
        PROVE  late'[k] <= 1 /\ (late'[k] = 1 => flag' /\ loop'[k] \in {"check", "exit"})
    <3>1. CASE k = <<w, l>>
      BY <2>2, <3>1
    <3>2. CASE k # <<w, l>>
      BY <2>2, <2>3, <3>2
    <3> QED
      BY <3>1, <3>2
  <2> QED
    BY <2>4
<1> QED
  BY <1>0, <1>1, <1>2, <1>3, <1>4, <1>5, <1>6, <1>7, <1>8, <1>9, Steps

\* LoopInv holds in every state.
LEMMA LoopCorrect == Spec => []LoopInv
<1>1. Init => LoopInv
  BY LoopsPairs, WorkerAssumption
  DEF Init, LoopInv, SetupInv, OpenInv, JoinedIsFinal, LateInv
<1>2. TypeOK /\ LoopInv /\ [Next]_vars => LoopInv'
  BY SetupStep, OpenStep, FinalStep, LateStep DEF LoopInv
<1> QED
  BY <1>1, <1>2, WorkerTypeCorrect, PTL DEF Spec

\* Once the flag is set an accept loop takes at most the one connection that was
\* racing with it.
THEOREM LateAcceptCorrect == Spec => []OneLateAccept
<1>1. LoopInv => OneLateAccept
  BY DEF LoopInv, LateInv, OneLateAccept
<1> QED
  BY <1>1, LoopCorrect, PTL

\* Nothing runs on a worker that has been joined.
THEOREM JoinedCorrect == Spec => []JoinedIsFinal
<1>1. LoopInv => JoinedIsFinal
  BY DEF LoopInv
<1> QED
  BY <1>1, LoopCorrect, PTL

-----------------------------------------------------------------------------
(* The counters *)

\* The connections of the workers in W that are in one of the states of S.
In(W, S) == {c \in Conns : home[c] \in W /\ conn[c] \in S}

\* The states of a connection that a worker has taken.
Taken == {"serving", "served", "failed", "cut"}

\* A worker's counters count its connections.  CountsMatchConnections alone does
\* not say what either of them is, which the totals of wait need.
CountInv ==
  \A w \in Workers : /\ accepted[w] = Cardinality(In({w}, Taken))
                     /\ completed[w] = Cardinality(In({w}, {"served"}))

\* There are finitely many connections of any kind.
LEMMA InFinite ==
  ASSUME NEW W, NEW S
  PROVE  IsFiniteSet(In(W, S)) /\ Cardinality(In(W, S)) \in Nat
BY WorkerAssumption, FS_Subset, FS_CardinalityType DEF In

\* What is cut stays taken and was not served.
LEMMA CountCut ==
  ASSUME TypeOK, NEW C, NEW W, NEW S, "serving" \in S <=> "cut" \in S, UNCHANGED home,
         conn' = [c \in Conns |-> IF c \in C /\ conn[c] = "serving" THEN "cut" ELSE conn[c]]
  PROVE  In(W, S)' = In(W, S)
BY DEF In, TypeOK

\* CountInv is inductive relative to TypeOK.
LEMMA CountStep == TypeOK /\ CountInv /\ [Next]_vars => CountInv'
<1> SUFFICES ASSUME TypeOK, CountInv, [Next]_vars, NEW w \in Workers
             PROVE  /\ accepted'[w] = Cardinality(In({w}, Taken)')
                    /\ completed'[w] = Cardinality(In({w}, {"served"})')
  BY DEF CountInv, In, Taken
<1> DEFINE P == /\ accepted'[w] = Cardinality(In({w}, Taken)')
                /\ completed'[w] = Cardinality(In({w}, {"served"})')
<1>a. /\ accepted[w] = Cardinality(In({w}, Taken))
      /\ completed[w] = Cardinality(In({w}, {"served"}))
  BY DEF CountInv
<1>b. ASSUME UNCHANGED <<accepted, completed>>,
             In({w}, Taken)' = In({w}, Taken), In({w}, {"served"})' = In({w}, {"served"})
      PROVE  P
  BY <1>a, <1>b
<1>c. ASSUME UNCHANGED <<accepted, completed, conn, home>> PROVE P
  <2>1. In({w}, Taken)' = In({w}, Taken) /\ In({w}, {"served"})' = In({w}, {"served"})
    BY <1>c DEF In
  <2> QED
    BY <1>b, <1>c, <2>1
<1>1. CASE Idle
  BY <1>1, <1>c DEF Idle
<1>2. ASSUME NEW c \in Conns, HandlerReturns(c) PROVE P
  <2>1. In({w}, Taken)' = In({w}, Taken)
    BY <1>2 DEF HandlerReturns, In, Taken, TypeOK
  <2>2. /\ conn' = [conn EXCEPT ![c] = "served"] /\ UNCHANGED home /\ UNCHANGED accepted
        /\ conn[c] \notin {"served"}
        /\ completed'[w] = completed[w] + (IF home[c] = w THEN 1 ELSE 0)
    BY <1>2 DEF HandlerReturns, TypeOK
  <2>3. /\ c \notin In({w}, {"served"})
        /\ In({w}, {"served"})' = IF home[c] = w THEN In({w}, {"served"}) \cup {c}
                                  ELSE In({w}, {"served"})
    BY <2>2 DEF In, TypeOK
  <2>4. Cardinality(In({w}, {"served"})') =
          Cardinality(In({w}, {"served"})) + (IF home[c] = w THEN 1 ELSE 0)
    <3>1. IsFiniteSet(In({w}, {"served"})) /\ Cardinality(In({w}, {"served"})) \in Nat
      BY InFinite
    <3>2. CASE home[c] = w
      BY Zenon, <2>3, <3>1, <3>2, FS_AddElement
    <3>3. CASE home[c] # w
      BY <2>3, <3>1, <3>3
    <3> QED
      BY <3>2, <3>3
  <2> QED
    BY <1>a, <2>1, <2>2, <2>4
<1>3. ASSUME NEW c \in Conns, HandlerPanics(c) PROVE P
  <2>1. In({w}, Taken)' = In({w}, Taken) /\ In({w}, {"served"})' = In({w}, {"served"})
    BY <1>3 DEF HandlerPanics, In, Taken, TypeOK
  <2> QED
    BY <1>3, <1>b, <2>1 DEF HandlerPanics, counters
<1>4. ASSUME NEW c \in Conns, WorkerPanics(c) PROVE P
  <2> DEFINE D1 == {d \in Conns : home[d] = home[c]}
  <2>1. conn' = [d \in Conns |-> IF d \in D1 /\ conn[d] = "serving" THEN "cut" ELSE conn[d]]
        /\ UNCHANGED <<home, accepted, completed>>
    BY <1>4 DEF WorkerPanics, counters
  <2> HIDE DEF D1
  <2>2. In({w}, Taken)' = In({w}, Taken) /\ In({w}, {"served"})' = In({w}, {"served"})
    BY <2>1, CountCut DEF Taken
  <2> QED
    BY <1>b, <2>1, <2>2
<1>5. ASSUME NEW v \in Workers, RuntimeFails(v) \/ StartDrain(v) PROVE P
  BY <1>5, <1>c DEF RuntimeFails, StartDrain, counters
<1>6. ASSUME NEW v \in Workers, DropRuntime(v) PROVE P
  <2> DEFINE D1 == {d \in Conns : home[d] = v}
  <2>1. conn' = [d \in Conns |-> IF d \in D1 /\ conn[d] = "serving" THEN "cut" ELSE conn[d]]
        /\ UNCHANGED <<home, accepted, completed>>
    BY <1>6 DEF DropRuntime, counters
  <2> HIDE DEF D1
  <2>2. In({w}, Taken)' = In({w}, Taken) /\ In({w}, {"served"})' = In({w}, {"served"})
    BY <2>1, CountCut DEF Taken
  <2> QED
    BY <1>b, <2>1, <2>2
<1>7. ASSUME NEW v \in Workers, NEW l \in Listeners,
             Registers(v, l) \/ CheckFlag(v, l) \/ AcceptNothing(v, l)
      PROVE  P
  BY <1>7, <1>c DEF Registers, CheckFlag, AcceptNothing, counters
<1>8. ASSUME NEW v \in Workers, NEW l \in Listeners, NEW c \in Conns, Accept(v, l, c) PROVE P
  <2>1. In({w}, {"served"})' = In({w}, {"served"})
    BY <1>8 DEF Accept, In, TypeOK
  <2>2. /\ conn' = [conn EXCEPT ![c] = "serving"] /\ UNCHANGED home /\ UNCHANGED completed
        /\ conn[c] \notin Taken /\ "serving" \in Taken
        /\ accepted'[w] = accepted[w] + (IF home[c] = w THEN 1 ELSE 0)
    BY <1>8 DEF Accept, TypeOK, Taken
  <2>3. /\ c \notin In({w}, Taken)
        /\ In({w}, Taken)' = IF home[c] = w THEN In({w}, Taken) \cup {c} ELSE In({w}, Taken)
    BY <2>2 DEF In, TypeOK
  <2>4. Cardinality(In({w}, Taken)') =
          Cardinality(In({w}, Taken)) + (IF home[c] = w THEN 1 ELSE 0)
    <3>1. IsFiniteSet(In({w}, Taken)) /\ Cardinality(In({w}, Taken)) \in Nat
      BY InFinite
    <3>2. CASE home[c] = w
      BY Zenon, <2>3, <3>1, <3>2, FS_AddElement
    <3>3. CASE home[c] # w
      BY <2>3, <3>1, <3>3
    <3> QED
      BY <3>2, <3>3
  <2> QED
    BY <1>a, <2>1, <2>2, <2>4
<1> QED
  BY <1>1, <1>2, <1>3, <1>4, <1>5, <1>6, <1>7, <1>8, Steps

\* CountInv holds in every state.
LEMMA CountCorrect == Spec => []CountInv
<1>1. Init => CountInv
  <2> SUFFICES ASSUME Init, NEW w \in Workers
               PROVE  /\ accepted[w] = Cardinality(In({w}, Taken))
                      /\ completed[w] = Cardinality(In({w}, {"served"}))
    BY DEF CountInv
  <2>1. In({w}, Taken) = {} /\ In({w}, {"served"}) = {}
    BY DEF Init, In, Taken
  <2> QED
    BY Zenon, <2>1, FS_EmptySet DEF Init
<1> QED
  BY <1>1, CountStep, WorkerTypeCorrect, PTL DEF Spec

\* The two counters of a worker always differ by the connections it took and has
\* not served, so `accepted == completed` means that everything has drained.
THEOREM CountsCorrect == Spec => []CountsMatchConnections
<1>1. TypeOK /\ CountInv => CountsMatchConnections
  <2> SUFFICES ASSUME TypeOK, CountInv, NEW w \in Workers
               PROVE  accepted[w] = completed[w]
                        + Cardinality({c \in Conns : home[c] = w /\ conn[c] \in {"serving", "failed", "cut"}})
    BY DEF CountsMatchConnections
  <2> DEFINE A == In({w}, {"served"})
             B == In({w}, {"serving", "failed", "cut"})
  <2>1. /\ IsFiniteSet(A) /\ Cardinality(A) \in Nat
        /\ IsFiniteSet(B) /\ Cardinality(B) \in Nat
    BY InFinite
  <2>2. A \cap B = {} /\ In({w}, Taken) = A \cup B
    BY DEF In, Taken
  <2>3. B = {c \in Conns : home[c] = w /\ conn[c] \in {"serving", "failed", "cut"}}
    BY DEF In
  <2> HIDE DEF A, B
  <2>4. Cardinality(A \cup B) = Cardinality(A) + Cardinality(B) - Cardinality(A \cap B)
    BY <2>1, FS_Union
  <2>5. Cardinality(A \cap B) = 0
    BY <2>2, FS_EmptySet
  <2>6. Cardinality(A \cup B) = Cardinality(A) + Cardinality(B)
    BY <2>1, <2>4, <2>5
  <2>7. accepted[w] = Cardinality(A \cup B) /\ completed[w] = Cardinality(A)
    BY <2>2 DEF CountInv, A
  <2> QED
    BY <2>3, <2>6, <2>7
<1> QED
  BY <1>1, CountCorrect, WorkerTypeCorrect, PTL

-----------------------------------------------------------------------------
(* The totals of Server::wait *)

\* The workers that wait has joined and that handed their counts back.
HandedIn == {w \in 1..joined : worker[w] # "panicked"}

\* wait has joined threads that are over, and adds up exactly the connections
\* of those that handed their counts back.
TotalsInv ==
  /\ \A w \in 1..joined : worker[w] \in {"joined", "panicked"}
  /\ totals = <<Cardinality(In(HandedIn, Taken)), Cardinality(In(HandedIn, {"served"}))>>
  /\ report # <<>> => joined = NWorkers

\* Nothing happens any more to a joined worker or to its connections, which is
\* why a total that was added up early stays right.
LEMMA JoinedKept ==
  ASSUME TypeOK, JoinedIsFinal, [Next]_vars,
         \A w \in 1..joined : worker[w] \in {"joined", "panicked"}
  PROVE  /\ \A w \in 1..joined : worker'[w] = worker[w]
         /\ \A c \in Conns : home[c] \in 1..joined => conn'[c] = conn[c]
         /\ UNCHANGED home
<1> DEFINE P == /\ \A w \in 1..joined : worker'[w] = worker[w]
                /\ \A c \in Conns : home[c] \in 1..joined => conn'[c] = conn[c]
                /\ UNCHANGED home
<1>a. \A w \in 1..joined : w \in Workers
  BY WorkerAssumption DEF TypeOK, Workers
<1>b. \A c \in Conns : conn[c] = "serving" => home[c] \notin 1..joined
  BY <1>a DEF JoinedIsFinal
<1>1. CASE Idle
  BY <1>1 DEF Idle
<1>2. ASSUME NEW c \in Conns, HandlerReturns(c) \/ HandlerPanics(c) PROVE P
  BY <1>2, <1>b DEF HandlerReturns, HandlerPanics, TypeOK
<1>3. ASSUME NEW c \in Conns, WorkerPanics(c) PROVE P
  BY <1>3, <1>a, <1>b DEF WorkerPanics, TypeOK
<1>4. ASSUME NEW w \in Workers, RuntimeFails(w) \/ StartDrain(w) PROVE P
  <2>1. worker[w] = "accepting"
    BY <1>4 DEF RuntimeFails, StartDrain, UpNext
  <2>2. w \notin 1..joined
    BY <2>1
  <2>3. /\ UNCHANGED <<conn, home>>
        /\ \E s \in {"joined", "draining"} : worker' = [worker EXCEPT ![w] = s]
    BY <1>4 DEF RuntimeFails, StartDrain
  <2> QED
    BY <1>a, <2>2, <2>3 DEF TypeOK
<1>5. ASSUME NEW w \in Workers, worker[w] = "draining", DropRuntime(w) PROVE P
  BY <1>5, <1>b DEF DropRuntime, TypeOK
<1>6. ASSUME NEW w \in Workers, NEW l \in Listeners,
             Registers(w, l) \/ CheckFlag(w, l) \/ AcceptNothing(w, l)
      PROVE  P
  BY <1>6 DEF Registers, CheckFlag, AcceptNothing
<1>7. ASSUME NEW w \in Workers, NEW l \in Listeners, NEW c \in Conns, Accept(w, l, c) PROVE P
  <2>1. loop[<<w, l>>] = "accept" /\ home[c] = w
    BY <1>7 DEF Accept
  <2>2. w \notin 1..joined
    BY <1>a, <2>1 DEF JoinedIsFinal
  <2> QED
    BY <1>7, <2>1, <2>2 DEF Accept, TypeOK
<1> QED
  BY <1>1, <1>2, <1>3, <1>4, <1>5, <1>6, <1>7, Steps

\* Counting over one more worker.
LEMMA CountWorker ==
  ASSUME NEW W, NEW w, w \notin W, NEW S
  PROVE  Cardinality(In(W \cup {w}, S)) = Cardinality(In(W, S)) + Cardinality(In({w}, S))
<1> DEFINE A == In(W, S)
           B == In({w}, S)
<1>1. /\ IsFiniteSet(A) /\ Cardinality(A) \in Nat
      /\ IsFiniteSet(B) /\ Cardinality(B) \in Nat
  BY InFinite
<1>2. A \cap B = {} /\ In(W \cup {w}, S) = A \cup B
  BY DEF In
<1> HIDE DEF A, B
<1>3. Cardinality(A \cup B) = Cardinality(A) + Cardinality(B) - Cardinality(A \cap B)
  BY <1>1, FS_Union
<1>4. Cardinality(A \cap B) = 0
  BY <1>2, FS_EmptySet
<1>5. Cardinality(A \cup B) = Cardinality(A) + Cardinality(B)
  BY <1>1, <1>3, <1>4
<1> QED
  BY <1>2, <1>5 DEF A, B

\* TotalsInv is inductive relative to TypeOK, JoinedIsFinal and CountInv.
LEMMA TotalsStep ==
  TypeOK /\ JoinedIsFinal /\ CountInv /\ TotalsInv /\ [Next]_vars => TotalsInv'
<1> SUFFICES ASSUME TypeOK, JoinedIsFinal, CountInv, TotalsInv, [Next]_vars PROVE TotalsInv'
  OBVIOUS
<1>1. CASE Join
  <2> DEFINE w == joined + 1
  <2>1. /\ joined \in Nat /\ joined' = w /\ w \in Workers
        /\ worker[w] \in {"joined", "panicked"}
        /\ totals' = HandedBack(w) /\ UNCHANGED <<worker, conn, home, report>>
        /\ joined # NWorkers
    BY <1>1, WorkerAssumption DEF Join, TypeOK, Workers
  <2>2. \A v \in 1..joined' : worker'[v] \in {"joined", "panicked"}
    BY <2>1 DEF TotalsInv
  <2>3. report' = <<>>
    BY <2>1 DEF TotalsInv
  <2>4. \A W, S : In(W, S)' = In(W, S)
    BY <2>1 DEF In
  <2>5. totals' = <<Cardinality(In(HandedIn', Taken)), Cardinality(In(HandedIn', {"served"}))>>
    <3>1. CASE worker[w] = "panicked"
      <4>1. HandedIn' = HandedIn
        BY <2>1, <3>1 DEF HandedIn
      <4>2. totals' = totals
        BY <2>1, <3>1 DEF HandedBack
      <4> QED
        BY <4>1, <4>2 DEF TotalsInv
    <3>2. CASE worker[w] # "panicked"
      <4>1. HandedIn' = HandedIn \cup {w} /\ w \notin HandedIn
        BY <2>1, <3>2 DEF HandedIn
      <4>2. totals' = <<totals[1] + accepted[w], totals[2] + completed[w]>>
        BY <2>1, <3>2 DEF HandedBack
      <4>3. /\ totals[1] = Cardinality(In(HandedIn, Taken))
            /\ totals[2] = Cardinality(In(HandedIn, {"served"}))
        BY DEF TotalsInv
      <4>4. /\ accepted[w] = Cardinality(In({w}, Taken))
            /\ completed[w] = Cardinality(In({w}, {"served"}))
        BY <2>1 DEF CountInv
      <4>5. /\ Cardinality(In(HandedIn \cup {w}, Taken)) =
                 Cardinality(In(HandedIn, Taken)) + Cardinality(In({w}, Taken))
            /\ Cardinality(In(HandedIn \cup {w}, {"served"})) =
                 Cardinality(In(HandedIn, {"served"})) + Cardinality(In({w}, {"served"}))
        BY <4>1, CountWorker
      <4> QED
        BY <4>1, <4>2, <4>3, <4>4, <4>5
    <3> QED
      BY <3>1, <3>2
  <2>6. /\ In(HandedIn, Taken)' = In(HandedIn', Taken)
        /\ In(HandedIn, {"served"})' = In(HandedIn', {"served"})
    BY <2>1 DEF In, Taken
  <2> QED
    BY <2>2, <2>3, <2>5, <2>6 DEF TotalsInv
<1>2. CASE UNCHANGED <<joined, totals>> /\ (report' # <<>> => joined = NWorkers)
  <2>1. /\ \A w \in 1..joined : worker'[w] = worker[w]
        /\ \A c \in Conns : home[c] \in 1..joined => conn'[c] = conn[c]
        /\ UNCHANGED home
    BY JoinedKept DEF TotalsInv
  <2>2. HandedIn' = HandedIn
    BY <1>2, <2>1 DEF HandedIn
  <2>3. /\ In(HandedIn, Taken)' = In(HandedIn, Taken)
        /\ In(HandedIn, {"served"})' = In(HandedIn, {"served"})
    BY <2>1, <2>2 DEF In, HandedIn, Taken
  <2> QED
    BY <1>2, <2>1, <2>3 DEF TotalsInv
<1>3. Join \/ (UNCHANGED <<joined, totals>> /\ (report' # <<>> => joined = NWorkers))
  <2>1. UNCHANGED waiting => UNCHANGED <<joined, totals>> /\ (report' # <<>> => joined = NWorkers)
    BY DEF waiting, TotalsInv
  <2>2. Wait => UNCHANGED <<joined, totals>> /\ (report' # <<>> => joined = NWorkers)
    BY DEF Wait
  <2>3. Join \/ Wait \/ UNCHANGED waiting
    <3>1. Cancel \/ Returned \/ UNCHANGED vars => UNCHANGED waiting
      BY DEF Cancel, Returned, vars, waiting
    <3>2. ASSUME NEW c \in Conns, HandlerReturns(c) \/ HandlerPanics(c) \/ WorkerPanics(c)
          PROVE  UNCHANGED waiting
      BY <3>2 DEF HandlerReturns, HandlerPanics, WorkerPanics
    <3>3. ASSUME NEW w \in Workers,
                 \/ SetupWorker(w) \/ RuntimeFails(w)
                 \/ StartDrain(w) \/ FinishDrain(w) \/ DeadlineElapses(w)
          PROVE  UNCHANGED waiting
      BY <3>3 DEF SetupWorker, RuntimeFails, StartDrain, FinishDrain, DeadlineElapses, DropRuntime
    <3>4. ASSUME NEW w \in Workers, NEW l \in Listeners,
                 \/ Setup(w, l) \/ Register(w, l) \/ SkipListener(w, l)
                 \/ CheckFlag(w, l) \/ AcceptNothing(w, l)
                 \/ \E c \in Conns : Accept(w, l, c)
          PROVE  UNCHANGED waiting
      BY <3>4 DEF Setup, Register, SkipListener, CheckFlag, AcceptNothing, Accept
    <3> QED
      BY <3>1, <3>2, <3>3, <3>4 DEF Next
  <2> QED
    BY <2>1, <2>2, <2>3
<1> QED
  BY <1>1, <1>2, <1>3

\* TotalsInv holds in every state.
LEMMA TotalsCorrect == Spec => []TotalsInv
<1>1. Init => TotalsInv
  <2> SUFFICES ASSUME Init PROVE TotalsInv
    OBVIOUS
  <2>1. joined = 0 /\ 1..0 = {} /\ HandedIn = {}
    BY DEF Init, HandedIn
  <2>2. In(HandedIn, Taken) = {} /\ In(HandedIn, {"served"}) = {}
    BY <2>1 DEF In
  <2> QED
    BY Zenon, <2>1, <2>2, FS_EmptySet DEF Init, TotalsInv
<1> QED
  BY <1>1, TotalsStep, CountCorrect, JoinedCorrect, WorkerTypeCorrect, PTL DEF Spec

-----------------------------------------------------------------------------
(* Worker implements Drain *)

\* The connections a panic has lost, as the refinement mapping defines them.
Lost == {c \in Conns : worker[home[c]] = "panicked"}

\* A step that leaves the abstract state alone.
LEMMA DrainStutter ==
  ASSUME UNCHANGED <<backend, flag, conn, report>>, Lost' = Lost
  PROVE  UNCHANGED D!drainVars
BY DEF D!drainVars, Lost

\* A set of connections is lost only with its worker.
LEMMA LostKept ==
  ASSUME TypeOK, UNCHANGED home, NEW w \in Workers, NEW s, s # "panicked",
         worker[w] # "panicked", worker' = [worker EXCEPT ![w] = s]
  PROVE  Lost' = Lost
BY DEF Lost, TypeOK

\* Every step of the plane is a step of Drain or leaves its view unchanged.
LEMMA DrainSteps ==
  TypeOK /\ LoopInv /\ TotalsInv /\ [Next]_vars => [D!DrainNext]_D!drainVars
<1> SUFFICES ASSUME TypeOK, LoopInv, TotalsInv, [Next]_vars
             PROVE  D!DrainNext \/ UNCHANGED D!drainVars
  OBVIOUS
<1>a. SetupInv /\ OpenInv /\ JoinedIsFinal
  BY DEF LoopInv
<1>1. CASE UNCHANGED vars \/ Returned \/ Join
  <2>1. UNCHANGED <<backend, flag, conn, report, worker, home>>
    BY <1>1 DEF vars, Returned, Join
  <2> QED
    BY <2>1, DrainStutter DEF Lost
<1>2. CASE Cancel
  <2>1. D!Stop
    BY <1>2 DEF Cancel, D!Stop, waiting
  <2> QED
    BY <2>1 DEF D!DrainNext
<1>3. CASE Wait
  <2>1. /\ report = <<>> /\ joined = NWorkers /\ report' = totals
        /\ UNCHANGED <<backend, flag, conn, worker, home>>
    BY <1>3 DEF Wait
  <2>2. \A w \in Workers : worker[w] \in {"joined", "panicked"}
    BY <2>1 DEF TotalsInv, Workers
  <2>3. \A c \in Conns : conn[c] # "serving"
    BY Zenon, <1>a, <2>2 DEF JoinedIsFinal, TypeOK
  <2>4. HandedIn = {w \in Workers : worker[w] # "panicked"}
    BY <2>1 DEF HandedIn, Workers
  <2>5. /\ {c \in Conns \ Lost : conn[c] \in {"serving"}} = {}
        /\ {c \in Conns \ Lost : conn[c] \in {"served", "failed", "cut"}} = In(HandedIn, Taken)
        /\ {c \in Conns \ Lost : conn[c] \in {"served"}} = In(HandedIn, {"served"})
    BY <2>3, <2>4 DEF Lost, In, Taken, TypeOK
  <2>6. /\ D!Count({"serving"}) = 0
        /\ totals = <<D!Count({"served", "failed", "cut"}), D!Count({"served"})>>
    <3>1. D!Count({"serving"}) = Cardinality({c \in Conns \ Lost : conn[c] \in {"serving"}})
      BY DEF D!Count, D!Cardinality, Cardinality, Lost
    <3>2. D!Count({"served", "failed", "cut"})
            = Cardinality({c \in Conns \ Lost : conn[c] \in {"served", "failed", "cut"}})
      BY DEF D!Count, D!Cardinality, Cardinality, Lost
    <3>3. D!Count({"served"}) = Cardinality({c \in Conns \ Lost : conn[c] \in {"served"}})
      BY DEF D!Count, D!Cardinality, Cardinality, Lost
    <3> QED
      BY Zenon, <2>5, <3>1, <3>2, <3>3, FS_EmptySet DEF TotalsInv
  <2>7. D!Report
    BY <2>1, <2>6 DEF D!Report
  <2> QED
    BY <2>7 DEF D!DrainNext
<1>4. ASSUME NEW c \in Conns, HandlerReturns(c) \/ HandlerPanics(c)
      PROVE  D!DrainNext \/ UNCHANGED D!drainVars
  <2>1. D!End(c)
    BY <1>4 DEF HandlerReturns, HandlerPanics, D!End, waiting
  <2> QED
    BY <2>1 DEF D!DrainNext
<1>5. ASSUME NEW c \in Conns, WorkerPanics(c)
      PROVE  D!DrainNext \/ UNCHANGED D!drainVars
  <2> DEFINE S == {d \in Conns : home[d] = home[c]}
  <2>1. /\ backend = "monoio" /\ S \in SUBSET Conns /\ c \in S /\ conn[c] = "serving"
        /\ conn' = [d \in Conns |-> IF d \in S /\ conn[d] = "serving" THEN "cut" ELSE conn[d]]
        /\ UNCHANGED <<backend, flag, report, home>>
    BY <1>5 DEF WorkerPanics, waiting
  <2>2. Lost' = Lost \cup S
    BY <1>5 DEF WorkerPanics, Lost, TypeOK
  <2> HIDE DEF S
  <2>3. D!Crash
    BY <2>1, <2>2 DEF D!Crash, Lost
  <2> QED
    BY <2>3 DEF D!DrainNext
<1>6. ASSUME NEW w \in Workers, SetupWorker(w)
      PROVE  D!DrainNext \/ UNCHANGED D!drainVars
  <2>1. UNCHANGED <<backend, flag, conn, report, worker, home>>
    BY <1>6 DEF SetupWorker, waiting
  <2> QED
    BY <2>1, DrainStutter DEF Lost
<1>7. ASSUME NEW w \in Workers, RuntimeFails(w) \/ StartDrain(w)
      PROVE  D!DrainNext \/ UNCHANGED D!drainVars
  <2>1. /\ UNCHANGED <<backend, flag, conn, report>> /\ UNCHANGED home
        /\ worker[w] # "panicked"
        /\ \E s \in {"joined", "draining"} : worker' = [worker EXCEPT ![w] = s]
    BY <1>7 DEF RuntimeFails, StartDrain, UpNext, waiting
  <2>2. Lost' = Lost
    BY Zenon, <2>1, LostKept
  <2> QED
    BY <2>1, <2>2, DrainStutter
<1>8. ASSUME NEW w \in Workers, worker[w] = "draining", DropRuntime(w)
      PROVE  D!DrainNext \/ UNCHANGED D!drainVars
  <2> DEFINE S == {c \in Conns : home[c] = w /\ conn[c] = "serving"}
  <2>1. /\ conn' = [c \in Conns |-> IF c \in S THEN "cut" ELSE conn[c]]
        /\ S \in SUBSET {c \in Conns : conn[c] = "serving"}
        /\ UNCHANGED <<backend, flag, report>> /\ UNCHANGED home
        /\ worker' = [worker EXCEPT ![w] = "joined"]
    BY <1>8 DEF DropRuntime, waiting
  <2>2. Lost' = Lost
    BY Zenon, <1>8, <2>1, LostKept
  <2>3. CASE flag
    <3> HIDE DEF S
    <3>1. D!Cut
      BY <2>1, <2>2, <2>3 DEF D!Cut, Lost
    <3> QED
      BY <3>1 DEF D!DrainNext
  <2>4. CASE ~flag
    <3>1. \A l \in Listeners : loop[<<w, l>>] = "exit"
      BY <1>8, <1>a DEF JoinedIsFinal
    <3>2. \A c \in Conns : home[c] = w => conn[c] = "waiting"
      BY Zenon, <1>8, <1>a, <2>4, <3>1 DEF OpenInv
    <3>3. S = {}
      BY <3>2
    <3>4. conn' = conn
      BY <2>1, <3>3 DEF TypeOK
    <3> QED
      BY <2>1, <2>2, <3>4, DrainStutter
  <2> QED
    BY <2>3, <2>4
<1>9. ASSUME NEW w \in Workers, NEW l \in Listeners,
             \/ Setup(w, l) \/ Register(w, l) \/ SkipListener(w, l)
             \/ CheckFlag(w, l) \/ AcceptNothing(w, l)
      PROVE  D!DrainNext \/ UNCHANGED D!drainVars
  <2>1. UNCHANGED <<backend, flag, conn, report, worker, home>>
    BY <1>9 DEF Setup, Register, SkipListener, CheckFlag, AcceptNothing, waiting
  <2> QED
    BY <2>1, DrainStutter DEF Lost
<1>10. ASSUME NEW w \in Workers, NEW l \in Listeners, NEW c \in Conns, Accept(w, l, c)
       PROVE  D!DrainNext \/ UNCHANGED D!drainVars
  <2>1. /\ loop[<<w, l>>] = "accept" /\ home[c] = w /\ conn[c] = "waiting"
        /\ conn' = [conn EXCEPT ![c] = "serving"]
        /\ UNCHANGED <<backend, flag, report, worker, home>>
    BY <1>10 DEF Accept, waiting
  <2>2. worker[w] = "accepting"
    BY <1>a, <2>1 DEF JoinedIsFinal
  <2>3. report = <<>>
    <3>1. w \notin 1..joined
      BY <2>2 DEF TotalsInv
    <3> QED
      BY <3>1 DEF TotalsInv, Workers
  <2>4. c \notin Lost /\ Lost' = Lost
    BY <2>1, <2>2 DEF Lost
  <2>5. D!Take(c)
    BY <2>1, <2>3, <2>4 DEF D!Take, Lost
  <2> QED
    BY <2>5 DEF D!DrainNext
<1>11. \A w \in Workers : FinishDrain(w) \/ DeadlineElapses(w) => worker[w] = "draining" /\ DropRuntime(w)
  BY DEF FinishDrain, DeadlineElapses
<1> QED
  BY <1>1, <1>2, <1>3, <1>4, <1>5, <1>6, <1>7, <1>8, <1>9, <1>10, <1>11 DEF Next

\* The plain-HTTP plane, on either backend and at any size, implements its
\* abstract promise: no connection is cut unless the server stops or the worker
\* crashes, and the report of Server::wait counts exactly what was taken and
\* what was served.
THEOREM DrainRefinement == Spec => ImplementsDrain
<1>1. Init => D!DrainInit
  <2> SUFFICES ASSUME Init PROVE D!DrainInit
    OBVIOUS
  <2>1. (backend = "monoio") \in BOOLEAN
    OBVIOUS
  <2>2. {c \in Conns : worker[home[c]] = "panicked"} = {}
    BY DEF Init
  <2> QED
    BY <2>1, <2>2 DEF Init, D!DrainInit
<1> QED
  BY <1>1, DrainSteps, TotalsCorrect, LoopCorrect, WorkerTypeCorrect, PTL
  DEF Spec, ImplementsDrain, D!DrainSpec

-----------------------------------------------------------------------------
(* The way down *)

\* What an accept loop has before it once the flag is set, and what a thread has.
LoopLeft(s) == IF s = "setup" THEN 3 ELSE IF s = "accept" THEN 2 ELSE IF s = "check" THEN 1 ELSE 0
ThreadLeft(s) == IF s = "accepting" THEN 2 ELSE IF s = "draining" THEN 1 ELSE 0

\* Once the shutdown flag is set it stays so and every step of an accept loop brings
\* it nearer to its end, whatever arrives and whatever the others do; and no worker
\* goes back from the drain, or is lost to a panic, after it has handed in its counts.
WindsDown ==
  [][/\ flag => /\ flag'
                /\ \A k \in Loops : loop'[k] # loop[k] => LoopLeft(loop'[k]) < LoopLeft(loop[k])
     /\ \A w \in Workers : worker'[w] # worker[w] => ThreadLeft(worker'[w]) < ThreadLeft(worker[w])]_vars

\* The plane winds down, however many workers, listeners and connections there are.
\* This is the part of ShutdownEnds that does not depend on fairness.
THEOREM WindingCorrect == Spec => WindsDown
<1>1. ASSUME TypeOK, JoinedIsFinal, [Next]_vars
      PROVE  /\ flag => /\ flag'
                        /\ \A k \in Loops : loop'[k] # loop[k] => LoopLeft(loop'[k]) < LoopLeft(loop[k])
             /\ \A w \in Workers : worker'[w] # worker[w] => ThreadLeft(worker'[w]) < ThreadLeft(worker[w])
  <2> DEFINE Lower == flag => \A k \in Loops : loop'[k] # loop[k] => LoopLeft(loop'[k]) < LoopLeft(loop[k])
             Ahead == \A w \in Workers : worker'[w] # worker[w] => ThreadLeft(worker'[w]) < ThreadLeft(worker[w])
  <2>t. /\ loop \in [Loops -> {"setup", "check", "accept", "exit"}]
        /\ worker \in [Workers -> {"accepting", "draining", "joined", "panicked"}]
        /\ home \in [Conns -> Workers]
    BY <1>1 DEF TypeOK
  <2>a. ASSUME NEW k \in Loops, NEW s, loop' = [loop EXCEPT ![k] = s], flag => LoopLeft(s) < LoopLeft(loop[k])
        PROVE  Lower
    BY <2>t, <2>a
  <2>b. ASSUME NEW w \in Workers, loop' = [k \in Loops |-> IF k[1] = w THEN "exit" ELSE loop[k]]
        PROVE  Lower
    <3>1. \A k \in Loops : loop'[k] = "exit" \/ loop'[k] = loop[k]
      BY <2>b
    <3> QED
      BY <2>t, <3>1 DEF LoopLeft
  <2>c. ASSUME NEW w \in Workers, NEW s, worker' = [worker EXCEPT ![w] = s],
               ThreadLeft(s) < ThreadLeft(worker[w])
        PROVE  Ahead
    BY <2>t, <2>c
  <2>d. (loop' = loop => Lower) /\ (worker' = worker => Ahead)
    OBVIOUS
  <2> HIDE DEF Lower, Ahead
  <2>1. Idle => Lower /\ Ahead
    BY <2>d DEF Idle
  <2>2. ASSUME NEW c \in Conns, HandlerReturns(c) \/ HandlerPanics(c) PROVE Lower /\ Ahead
    BY <2>2, <2>d DEF HandlerReturns, HandlerPanics
  <2>3. ASSUME NEW c \in Conns, WorkerPanics(c) PROVE Lower /\ Ahead
    <3>1. worker[home[c]] \in {"accepting", "draining"} /\ home[c] \in Workers
      BY <1>1, <2>t, <2>3 DEF WorkerPanics, JoinedIsFinal
    <3>2. ThreadLeft("panicked") < ThreadLeft(worker[home[c]])
      BY <3>1 DEF ThreadLeft
    <3> QED
      BY <2>3, <2>b, <2>c, <3>1, <3>2 DEF WorkerPanics
  <2>4. ASSUME NEW w \in Workers, RuntimeFails(w) PROVE Lower /\ Ahead
    <3>1. ThreadLeft("joined") < ThreadLeft(worker[w])
      BY <2>4 DEF RuntimeFails, UpNext, ThreadLeft
    <3> QED
      BY <2>4, <2>b, <2>c, <3>1 DEF RuntimeFails
  <2>5. ASSUME NEW w \in Workers, StartDrain(w) PROVE Lower /\ Ahead
    <3>1. ThreadLeft("draining") < ThreadLeft(worker[w])
      BY <2>5 DEF StartDrain, ThreadLeft
    <3> QED
      BY <2>5, <2>c, <2>d, <3>1 DEF StartDrain
  <2>6. ASSUME NEW w \in Workers, worker[w] = "draining", DropRuntime(w) PROVE Lower /\ Ahead
    <3>1. ThreadLeft("joined") < ThreadLeft(worker[w])
      BY <2>6 DEF ThreadLeft
    <3> QED
      BY <2>6, <2>c, <2>d, <3>1 DEF DropRuntime
  <2>7. ASSUME NEW w \in Workers, NEW l \in Listeners,
               \/ Registers(w, l) \/ CheckFlag(w, l) \/ AcceptNothing(w, l)
               \/ \E c \in Conns : Accept(w, l, c)
        PROVE  Lower /\ Ahead
    <3>1. <<w, l>> \in Loops /\ worker' = worker
      BY <2>7, LoopsPairs DEF Registers, CheckFlag, AcceptNothing, Accept
    <3>2. CASE Registers(w, l)
      <4>1. PICK s \in {"check", "exit"} : loop' = [loop EXCEPT ![<<w, l>>] = s]
        BY <3>2 DEF Registers
      <4>2. LoopLeft(s) < LoopLeft(loop[<<w, l>>])
        BY <3>2 DEF Registers, LoopLeft
      <4> QED
        BY Zenon, <2>a, <2>d, <3>1, <4>1, <4>2
    <3>3. CASE CheckFlag(w, l)
      <4> DEFINE s == IF flag THEN "exit" ELSE "accept"
      <4>1. loop' = [loop EXCEPT ![<<w, l>>] = s] /\ loop[<<w, l>>] = "check"
        BY Zenon, <3>3 DEF CheckFlag
      <4>2. LoopLeft("exit") < LoopLeft("check")
        BY DEF LoopLeft
      <4>3. flag => LoopLeft(s) < LoopLeft(loop[<<w, l>>])
        BY Zenon, <4>1, <4>2
      <4> HIDE DEF s
      <4> QED
        BY Zenon, <2>a, <2>d, <3>1, <4>1, <4>3
    <3>4. CASE AcceptNothing(w, l) \/ \E c \in Conns : Accept(w, l, c)
      <4>1. loop' = [loop EXCEPT ![<<w, l>>] = "check"] /\ loop[<<w, l>>] = "accept"
        BY <3>4 DEF AcceptNothing, Accept, AfterAccept
      <4>2. LoopLeft("check") < LoopLeft(loop[<<w, l>>])
        BY <4>1 DEF LoopLeft
      <4> QED
        BY Zenon, <2>a, <2>d, <3>1, <4>1, <4>2
    <3> QED
      BY <2>7, <3>2, <3>3, <3>4
  <2>8. Lower /\ Ahead
    BY <1>1, <2>1, <2>2, <2>3, <2>4, <2>5, <2>6, <2>7, Steps
  <2>9. flag => flag'
    <3>1. Idle => (flag => flag')
      BY Zenon DEF Idle
    <3>2. ASSUME NEW c \in Conns, HandlerReturns(c) \/ HandlerPanics(c) \/ WorkerPanics(c) PROVE flag' = flag
      BY <3>2 DEF HandlerReturns, HandlerPanics, WorkerPanics
    <3>3. ASSUME NEW w \in Workers, RuntimeFails(w) \/ StartDrain(w) \/ DropRuntime(w) PROVE flag' = flag
      BY <3>3 DEF RuntimeFails, StartDrain, DropRuntime
    <3>4. ASSUME NEW w \in Workers, NEW l \in Listeners,
                 \/ Registers(w, l) \/ CheckFlag(w, l) \/ AcceptNothing(w, l)
                 \/ \E c \in Conns : Accept(w, l, c)
          PROVE  flag' = flag
      BY <3>4 DEF Registers, CheckFlag, AcceptNothing, Accept
    <3> QED
      BY Zenon, <1>1, <3>1, <3>2, <3>3, <3>4, Steps
  <2> QED
    BY Zenon, <2>8, <2>9 DEF Lower, Ahead
<1>2. TypeOK /\ LoopInv /\ [Next]_vars =>
        [/\ flag => /\ flag'
                    /\ \A k \in Loops : loop'[k] # loop[k] => LoopLeft(loop'[k]) < LoopLeft(loop[k])
         /\ \A w \in Workers : worker'[w] # worker[w] => ThreadLeft(worker'[w]) < ThreadLeft(worker[w])]_vars
  BY Zenon, <1>1 DEF LoopInv
<1> QED
  BY <1>2, WorkerTypeCorrect, LoopCorrect, PTL DEF Spec, WindsDown
=============================================================================
