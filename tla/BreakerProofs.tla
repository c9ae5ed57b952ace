---------------------------- MODULE BreakerProofs ----------------------------
(***************************************************************************)
(* Proofs about Breaker for any set of threads and any value of the        *)
(* constants that satisfies BreakerAssumption.                             *)
(***************************************************************************)
EXTENDS Breaker, TLAPS

-----------------------------------------------------------------------------
(* Type correctness *)

\* The breaker's cells and the callers' local state keep their types; in
\* particular the counter never leaves the range of its u32.
THEOREM TypeCorrect == Spec => []TypeOK
<1>1. Init => TypeOK
  BY BreakerAssumption DEF Init, TypeOK, Locations
<1>2. TypeOK /\ [Next]_vars => TypeOK'
  <2> SUFFICES ASSUME TypeOK, [Next]_vars PROVE TypeOK'
    OBVIOUS
  <2> USE BreakerAssumption DEF TypeOK, Locations, Goto, CheckReturn
  <2>1. CASE Tick
    BY <2>1 DEF Tick
  <2>2. ASSUME NEW t \in Threads, CheckFailures(t) PROVE TypeOK'
    BY <2>2 DEF CheckFailures
  <2>3. ASSUME NEW t \in Threads, CheckDeadline(t) PROVE TypeOK'
    BY <2>3 DEF CheckDeadline
  <2>4. ASSUME NEW t \in Threads, CheckClock(t) PROVE TypeOK'
    BY <2>4 DEF CheckClock
  <2>5. ASSUME NEW t \in Threads, SuccessFirstStore(t) PROVE TypeOK'
    BY <2>5 DEF SuccessFirstStore
  <2>6. ASSUME NEW t \in Threads, SuccessSecondStore(t) PROVE TypeOK'
    BY <2>6 DEF SuccessSecondStore
  <2>7. ASSUME NEW t \in Threads, FailureFetchAdd(t) PROVE TypeOK'
    BY <2>7 DEF FailureFetchAdd, FetchAdd
  <2>8. ASSUME NEW t \in Threads, FailureClock(t) PROVE TypeOK'
    BY <2>8 DEF FailureClock, Deadline
  <2>9. ASSUME NEW t \in Threads, FailureStore(t) PROVE TypeOK'
    BY <2>9 DEF FailureStore
  <2>10. CASE UNCHANGED vars
    BY <2>10 DEF vars
  <2> QED
    BY <2>1, <2>2, <2>3, <2>4, <2>5, <2>6, <2>7, <2>8, <2>9, <2>10 DEF Next
<1> QED
  BY <1>1, <1>2, PTL DEF Spec

-----------------------------------------------------------------------------
(* Deadlines and rejections *)

\* Every deadline in the system, stored or held by a thread, lies at most one
\* cooldown after the latest failure; one that is about to be stored is not 0.
DeadlineInv ==
  /\ open_until <= lastFailure + Cooldown
  /\ lastFailure <= now
  /\ \A t \in Threads :
       /\ pc[t] \in {"check_clock", "failure_store"} => local[t] <= lastFailure + Cooldown
       /\ pc[t] = "failure_store" => local[t] # 0

\* DeadlineInv is inductive relative to TypeOK.
LEMMA DeadlineStep == TypeOK /\ DeadlineInv /\ [Next]_vars => DeadlineInv'
<1> SUFFICES ASSUME TypeOK, DeadlineInv, [Next]_vars PROVE DeadlineInv'
  OBVIOUS
<1> USE BreakerAssumption DEF TypeOK, Locations, DeadlineInv, Goto, CheckReturn
<1>1. CASE Tick
  BY <1>1 DEF Tick
<1>2. ASSUME NEW t \in Threads, CheckFailures(t) PROVE DeadlineInv'
  BY <1>2 DEF CheckFailures
<1>3. ASSUME NEW t \in Threads, CheckDeadline(t) PROVE DeadlineInv'
  BY <1>3 DEF CheckDeadline
<1>4. ASSUME NEW t \in Threads, CheckClock(t) PROVE DeadlineInv'
  BY <1>4 DEF CheckClock
<1>5. ASSUME NEW t \in Threads, SuccessFirstStore(t) PROVE DeadlineInv'
  BY <1>5 DEF SuccessFirstStore
<1>6. ASSUME NEW t \in Threads, SuccessSecondStore(t) PROVE DeadlineInv'
  BY <1>6 DEF SuccessSecondStore
<1>7. ASSUME NEW t \in Threads, FailureFetchAdd(t) PROVE DeadlineInv'
  BY <1>7 DEF FailureFetchAdd
<1>8. ASSUME NEW t \in Threads, FailureClock(t) PROVE DeadlineInv'
  BY <1>8 DEF FailureClock, Deadline
<1>9. ASSUME NEW t \in Threads, FailureStore(t) PROVE DeadlineInv'
  BY <1>9 DEF FailureStore
<1>10. CASE UNCHANGED vars
  BY <1>10 DEF vars
<1> QED
  BY <1>1, <1>2, <1>3, <1>4, <1>5, <1>6, <1>7, <1>8, <1>9, <1>10 DEF Next

\* No deadline, stored or about to be, ever lies beyond a cooldown after the
\* latest failure.
LEMMA DeadlineCorrect == Spec => []DeadlineInv
<1>1. Init => DeadlineInv
  BY BreakerAssumption DEF Init, DeadlineInv
<1> QED
  BY <1>1, DeadlineStep, TypeCorrect, PTL DEF Spec

\* No check rejects once a cooldown has passed since the latest failure,
\* whatever the number of racing callers and the order of on_success's stores.
THEOREM RejectsWithinCooldown == Spec => RejectsOnlyWithinCooldown
<1> DEFINE Rejects ==
      \A t \in Threads :
        decision'[t] = "Reject" /\ decision[t] # "Reject" => now < lastFailure + Cooldown
<1>1. TypeOK /\ DeadlineInv /\ [Next]_vars => [Rejects]_vars
  <2> SUFFICES ASSUME TypeOK, DeadlineInv, Next PROVE Rejects
    OBVIOUS
  <2> USE BreakerAssumption DEF TypeOK, Locations, DeadlineInv, Goto, CheckReturn
  <2>1. CASE Tick
    BY <2>1 DEF Tick
  <2>2. ASSUME NEW t \in Threads, CheckFailures(t) PROVE Rejects
    BY <2>2 DEF CheckFailures
  <2>3. ASSUME NEW t \in Threads, CheckDeadline(t) PROVE Rejects
    BY <2>3 DEF CheckDeadline
  <2>4. ASSUME NEW t \in Threads, CheckClock(t) PROVE Rejects
    BY <2>4 DEF CheckClock
  <2>5. ASSUME NEW t \in Threads, SuccessFirstStore(t) PROVE Rejects
    BY <2>5 DEF SuccessFirstStore
  <2>6. ASSUME NEW t \in Threads, SuccessSecondStore(t) PROVE Rejects
    BY <2>6 DEF SuccessSecondStore
  <2>7. ASSUME NEW t \in Threads, FailureFetchAdd(t) PROVE Rejects
    BY <2>7 DEF FailureFetchAdd
  <2>8. ASSUME NEW t \in Threads, FailureClock(t) PROVE Rejects
    BY <2>8 DEF FailureClock
  <2>9. ASSUME NEW t \in Threads, FailureStore(t) PROVE Rejects
    BY <2>9 DEF FailureStore
  <2> QED
    BY <2>1, <2>2, <2>3, <2>4, <2>5, <2>6, <2>7, <2>8, <2>9 DEF Next
<1> QED
  BY <1>1, TypeCorrect, DeadlineCorrect, PTL DEF Spec, RejectsOnlyWithinCooldown

-----------------------------------------------------------------------------
(* Counting *)

\* While an on_success is running nothing is counted; otherwise the counter
\* agrees with the history.  CountExact alone is not inductive: the second
\* store of on_success preserves it only because `since` is then 0.
CountInv ==
  /\ SuccessRunning => since = 0
  /\ CountExact

\* While no stores were reordered no thread is between a reordered pair.
OrderedInv == stores = "in_order" => \A t \in Threads : pc[t] # "success_deadline"

\* With the stores in program order no on_success has reset the counter and not
\* yet the deadline.
LEMMA OrderedStep == TypeOK /\ OrderedInv /\ [Next]_vars => OrderedInv'
<1> SUFFICES ASSUME TypeOK, OrderedInv, [Next]_vars PROVE OrderedInv'
  OBVIOUS
<1> USE DEF TypeOK, OrderedInv, Goto, CheckReturn
<1>1. CASE Tick
  BY <1>1 DEF Tick
<1>2. ASSUME NEW t \in Threads,
             CheckFailures(t) \/ CheckDeadline(t) \/ CheckClock(t)
      PROVE  OrderedInv'
  BY <1>2 DEF CheckFailures, CheckDeadline, CheckClock
<1>3. ASSUME NEW t \in Threads, SuccessFirstStore(t) PROVE OrderedInv'
  BY <1>3 DEF SuccessFirstStore, FirstStore
<1>4. ASSUME NEW t \in Threads, SuccessSecondStore(t) PROVE OrderedInv'
  BY <1>4 DEF SuccessSecondStore
<1>5. ASSUME NEW t \in Threads,
             FailureFetchAdd(t) \/ FailureClock(t) \/ FailureStore(t)
      PROVE  OrderedInv'
  BY <1>5 DEF FailureFetchAdd, FailureClock, FailureStore
<1>6. CASE UNCHANGED vars
  BY <1>6 DEF vars
<1> QED
  BY <1>1, <1>2, <1>3, <1>4, <1>5, <1>6 DEF Next

\* Every step of check, on_success and on_failure keeps the counter equal to the
\* failures since the last success.
LEMMA CountStep == TypeOK /\ OrderedInv /\ CountInv /\ [Next]_vars => CountInv'
<1> SUFFICES ASSUME TypeOK, OrderedInv, CountInv, [Next]_vars PROVE CountInv'
  OBVIOUS
<1> USE BreakerAssumption DEF TypeOK, Locations, OrderedInv, CountInv, CountExact,
        SuccessRunning, InSuccess, Goto, CheckReturn
<1>1. CASE Tick
  BY <1>1 DEF Tick
<1>2. ASSUME NEW t \in Threads, CheckFailures(t) PROVE CountInv'
  BY <1>2 DEF CheckFailures
<1>3. ASSUME NEW t \in Threads, CheckDeadline(t) PROVE CountInv'
  BY <1>3 DEF CheckDeadline
<1>4. ASSUME NEW t \in Threads, CheckClock(t) PROVE CountInv'
  BY <1>4 DEF CheckClock
<1>5. ASSUME NEW t \in Threads, SuccessFirstStore(t) PROVE CountInv'
  BY <1>5 DEF SuccessFirstStore, FirstStore
<1>6. ASSUME NEW t \in Threads, SuccessSecondStore(t) PROVE CountInv'
  BY <1>6 DEF SuccessSecondStore
<1>7. ASSUME NEW t \in Threads, FailureFetchAdd(t) PROVE CountInv'
  BY <1>7 DEF FailureFetchAdd, FetchAdd
<1>8. ASSUME NEW t \in Threads, FailureClock(t) PROVE CountInv'
  BY <1>8 DEF FailureClock
<1>9. ASSUME NEW t \in Threads, FailureStore(t) PROVE CountInv'
  BY <1>9 DEF FailureStore
<1>10. CASE UNCHANGED vars
  BY <1>10 DEF vars
<1> QED
  BY <1>1, <1>2, <1>3, <1>4, <1>5, <1>6, <1>7, <1>8, <1>9, <1>10 DEF Next

\* With the stores of on_success in program order and fewer than 2^32 failures
\* between two successes, no racing caller makes the counter lose a failure or
\* keep one that a success should have cleared.
THEOREM CountCorrect == Spec => []CountExact
<1>1. Init => OrderedInv /\ CountInv
  BY DEF Init, OrderedInv, CountInv, CountExact, SuccessRunning, InSuccess
<1>2. CountInv => CountExact
  BY DEF CountInv
<1> QED
  BY <1>1, <1>2, OrderedStep, CountStep, TypeCorrect, PTL DEF Spec

-----------------------------------------------------------------------------
(* Arming *)

\* A tripped breaker without a deadline has a caller that is about to store
\* one, or an on_success that is about to reset the counter.
LEMMA ArmedStep ==
  TypeOK /\ OrderedInv /\ DeadlineInv /\ ArmedWhenTripped /\ [Next]_vars
    => ArmedWhenTripped'
<1> SUFFICES ASSUME TypeOK, OrderedInv, DeadlineInv, ArmedWhenTripped, [Next]_vars
             PROVE  ArmedWhenTripped'
  OBVIOUS
<1> USE BreakerAssumption DEF TypeOK, Locations, OrderedInv, DeadlineInv,
        ArmedWhenTripped, Tripped, SuccessRunning, InSuccess,
        ArmingRunning, Arming, Goto, CheckReturn
<1>1. CASE Tick
  BY <1>1 DEF Tick
<1>2. ASSUME NEW t \in Threads, CheckFailures(t) PROVE ArmedWhenTripped'
  BY <1>2 DEF CheckFailures
<1>3. ASSUME NEW t \in Threads, CheckDeadline(t) PROVE ArmedWhenTripped'
  BY <1>3 DEF CheckDeadline
<1>4. ASSUME NEW t \in Threads, CheckClock(t) PROVE ArmedWhenTripped'
  BY <1>4 DEF CheckClock
<1>5. ASSUME NEW t \in Threads, SuccessFirstStore(t) PROVE ArmedWhenTripped'
  BY <1>5 DEF SuccessFirstStore, FirstStore
<1>6. ASSUME NEW t \in Threads, SuccessSecondStore(t) PROVE ArmedWhenTripped'
  BY <1>6 DEF SuccessSecondStore
<1>7. ASSUME NEW t \in Threads, FailureFetchAdd(t) PROVE ArmedWhenTripped'
  BY <1>7 DEF FailureFetchAdd, FetchAdd, SaturatingAdd, Arms
<1>8. ASSUME NEW t \in Threads, FailureClock(t) PROVE ArmedWhenTripped'
  BY <1>8 DEF FailureClock
<1>9. ASSUME NEW t \in Threads, FailureStore(t) PROVE ArmedWhenTripped'
  BY <1>9 DEF FailureStore
<1>10. CASE UNCHANGED vars
  BY <1>10 DEF vars
<1> QED
  BY <1>1, <1>2, <1>3, <1>4, <1>5, <1>6, <1>7, <1>8, <1>9, <1>10 DEF Next

\* With the stores of on_success in program order, no interleaving of any
\* number of callers leaves a breaker tripped without a deadline.
THEOREM ArmedCorrect == Spec => []ArmedWhenTripped
<1>1. Init => OrderedInv /\ ArmedWhenTripped
  BY BreakerAssumption DEF Init, OrderedInv, ArmedWhenTripped, Tripped
<1> QED
  BY <1>1, OrderedStep, ArmedStep, DeadlineCorrect, TypeCorrect, PTL DEF Spec

-----------------------------------------------------------------------------
(* Reconvergence under any visibility order *)

\* While an on_success is running nothing is counted, so a counted failure of
\* a tripped breaker is being armed or has been armed and not cleared since.
RearmInv ==
  /\ SuccessRunning => since = 0
  /\ RearmedByNextFailure

\* RearmInv is inductive: on_failure arms what it trips, and only an on_success,
\* which restarts the count, can take the deadline away.
LEMMA RearmStep == TypeOK /\ DeadlineInv /\ RearmInv /\ [Next]_vars => RearmInv'
<1> SUFFICES ASSUME TypeOK, DeadlineInv, RearmInv, [Next]_vars PROVE RearmInv'
  OBVIOUS
<1> USE BreakerAssumption DEF TypeOK, Locations, DeadlineInv, RearmInv,
        RearmedByNextFailure, Tripped, SuccessRunning, InSuccess,
        ArmingRunning, Arming, Goto, CheckReturn
<1>1. CASE Tick
  BY <1>1 DEF Tick
<1>2. ASSUME NEW t \in Threads, CheckFailures(t) PROVE RearmInv'
  BY <1>2 DEF CheckFailures
<1>3. ASSUME NEW t \in Threads, CheckDeadline(t) PROVE RearmInv'
  BY <1>3 DEF CheckDeadline
<1>4. ASSUME NEW t \in Threads, CheckClock(t) PROVE RearmInv'
  BY <1>4 DEF CheckClock
<1>5. ASSUME NEW t \in Threads, SuccessFirstStore(t) PROVE RearmInv'
  BY <1>5 DEF SuccessFirstStore
<1>6. ASSUME NEW t \in Threads, SuccessSecondStore(t) PROVE RearmInv'
  BY <1>6 DEF SuccessSecondStore
<1>7. ASSUME NEW t \in Threads, FailureFetchAdd(t) PROVE RearmInv'
  BY <1>7 DEF FailureFetchAdd, FetchAdd, SaturatingAdd, Arms
<1>8. ASSUME NEW t \in Threads, FailureClock(t) PROVE RearmInv'
  BY <1>8 DEF FailureClock
<1>9. ASSUME NEW t \in Threads, FailureStore(t) PROVE RearmInv'
  BY <1>9 DEF FailureStore
<1>10. CASE UNCHANGED vars
  BY <1>10 DEF vars
<1> QED
  BY <1>1, <1>2, <1>3, <1>4, <1>5, <1>6, <1>7, <1>8, <1>9, <1>10 DEF Next

\* Whatever order the stores of on_success become visible in, the first failure
\* recorded after it leaves a tripped breaker armed.
THEOREM RearmCorrect == Spec => []RearmedByNextFailure
<1>1. Init => RearmInv
  BY BreakerAssumption
     DEF Init, RearmInv, RearmedByNextFailure, Tripped, SuccessRunning, InSuccess
<1>2. RearmInv => RearmedByNextFailure
  BY DEF RearmInv
<1> QED
  BY <1>1, <1>2, RearmStep, DeadlineCorrect, TypeCorrect, PTL DEF Spec
=============================================================================
