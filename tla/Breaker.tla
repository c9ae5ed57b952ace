------------------------------- MODULE Breaker -------------------------------
(***************************************************************************)
(* The lock-free circuit breaker of crates/conduit-upstream/src/breaker.rs *)
(* at the granularity of its atomic accesses.  Any number of threads       *)
(* (request tasks on every worker, health probes) call check, on_success   *)
(* and on_failure; one action is one atomic load, store or fetch_add, or   *)
(* one reading of the clock, so every interleaving of the calls is a       *)
(* behaviour.  A method's first access and its call are the same step.     *)
(***************************************************************************)
EXTENDS Naturals

CONSTANTS
  Threads,       \* callers
  Threshold,     \* BreakerConfig::threshold; 0 disables the breaker
  Cooldown,      \* BreakerConfig::cooldown, in clock ticks
  CounterMax,    \* u32::MAX, the largest value `failures` holds
  MaxTime,       \* bound on the clock
  MaxFailures    \* bound on the failures between two successes

ASSUME BreakerAssumption ==
  /\ Threshold \in Nat
  /\ CounterMax \in Nat \ {0}
  /\ Threshold <= CounterMax
  /\ Cooldown \in Nat \ {0}
  /\ MaxTime \in Nat
  /\ MaxFailures \in Nat

VARIABLES
  failures,    \* AtomicU32: consecutive failures
  open_until,  \* AtomicU64: deadline, 0 when never tripped
  now,         \* now_ms(): time since the breaker's anchor
  pc,          \* where each thread is inside a call
  local,       \* the deadline a thread has loaded or computed
  decision,    \* what the thread's last check returned
  since,       \* history: fetch_adds made while no on_success was running,
               \*          counted from the start of the last on_success
  lastFailure, \* history: latest clock reading made by an on_failure
  stores       \* history: "reordered" once the stores of an on_success became
               \*          visible in the other order than the code's

vars == <<failures, open_until, now, pc, local, decision,
          since, lastFailure, stores>>

Locations == {"idle", "check_deadline", "check_clock",
              "success_failures", "success_deadline",
              "failure_clock", "failure_store"}

\* A thread inside on_success has made one of its two stores.
InSuccess(t) == pc[t] \in {"success_failures", "success_deadline"}
SuccessRunning == \E t \in Threads : InSuccess(t)

\* A thread that counted a failure at or past the threshold and has yet to
\* store the deadline.
Arming(t) == pc[t] \in {"failure_clock", "failure_store"}
ArmingRunning == \E t \in Threads : Arming(t)

Tripped == Threshold > 0 /\ failures >= Threshold

Init ==
  /\ failures = 0
  /\ open_until = 0
  /\ now = 0
  /\ pc = [t \in Threads |-> "idle"]
  /\ local = [t \in Threads |-> 0]
  /\ decision = [t \in Threads |-> "none"]
  /\ since = 0
  /\ lastFailure = 0
  /\ stores = "in_order"

Goto(t, l) == pc' = [pc EXCEPT ![t] = l]

-----------------------------------------------------------------------------
(* check *)

CheckReturn(t, d) == Goto(t, "idle") /\ decision' = [decision EXCEPT ![t] = d]

\* `failures.load() < threshold` returns Allow without reading the deadline.
CheckFailures(t) ==
  /\ pc[t] = "idle"
  /\ IF Tripped
     THEN /\ Goto(t, "check_deadline")
          /\ decision' = [decision EXCEPT ![t] = "none"]
     ELSE CheckReturn(t, "Allow")
  /\ UNCHANGED <<failures, open_until, now, local, since, lastFailure, stores>>

CheckDeadline(t) ==
  /\ pc[t] = "check_deadline"
  /\ IF open_until = 0
     THEN /\ CheckReturn(t, "Allow")
          /\ UNCHANGED local
     ELSE /\ local' = [local EXCEPT ![t] = open_until]
          /\ Goto(t, "check_clock")
          /\ UNCHANGED decision
  /\ UNCHANGED <<failures, open_until, now, since, lastFailure, stores>>

CheckClock(t) ==
  /\ pc[t] = "check_clock"
  /\ CheckReturn(t, IF now >= local[t] THEN "Allow" ELSE "Reject")
  /\ UNCHANGED <<failures, open_until, now, local, since, lastFailure, stores>>

-----------------------------------------------------------------------------
(* on_success: clear the deadline, then the counter. *)

\* Mutant: the two stores swapped in the code.
FirstStoreMut == "failures"

\* The store that comes first in the code.  Both are Relaxed, so the other one
\* may become visible before it.
FirstStore == "open_until"

SuccessFirstStore(t) ==
  /\ pc[t] = "idle"
  /\ Threshold > 0
  /\ \/ /\ open_until' = 0
        /\ Goto(t, "success_failures")
        /\ stores' = IF FirstStore = "open_until" THEN stores ELSE "reordered"
        /\ UNCHANGED failures
     \/ /\ failures' = 0
        /\ Goto(t, "success_deadline")
        /\ stores' = IF FirstStore = "failures" THEN stores ELSE "reordered"
        /\ UNCHANGED open_until
  /\ decision' = [decision EXCEPT ![t] = "none"]
  /\ since' = 0
  /\ UNCHANGED <<now, local, lastFailure>>

SuccessSecondStore(t) ==
  /\ \/ /\ pc[t] = "success_failures"
        /\ failures' = 0
        /\ UNCHANGED open_until
     \/ /\ pc[t] = "success_deadline"
        /\ open_until' = 0
        /\ UNCHANGED failures
  /\ Goto(t, "idle")
  /\ UNCHANGED <<now, local, decision, since, lastFailure, stores>>

-----------------------------------------------------------------------------
(* on_failure: count, then arm the deadline when at or past the threshold. *)

\* Mutant: a counter wider than the one the code declares.
FetchAddMut(n) == n + 1

\* AtomicU32::fetch_add wraps; the method's own `new` saturates.
FetchAdd(n) == IF n = CounterMax THEN 0 ELSE n + 1
SaturatingAdd(n) == IF n = CounterMax THEN CounterMax ELSE n + 1

\* Mutant: only the failure that crosses the threshold arms the deadline.
ArmsMut(n) == n = Threshold

\* Both branches, `new == threshold` and `new > threshold`, arm it.
Arms(n) == n >= Threshold

FailureFetchAdd(t) ==
  /\ pc[t] = "idle"
  /\ Threshold > 0
  /\ since < MaxFailures
  /\ failures' = FetchAdd(failures)
  /\ Goto(t, IF Arms(SaturatingAdd(failures)) THEN "failure_clock" ELSE "idle")
  /\ decision' = [decision EXCEPT ![t] = "none"]
  /\ since' = IF SuccessRunning THEN since ELSE since + 1
  /\ UNCHANGED <<open_until, now, local, lastFailure, stores>>

\* Mutant: a refresh extends the current deadline instead of replacing it.
DeadlineMut == open_until + now + Cooldown

\* `until` is computed from a clock reading that may be old when it is stored.
Deadline == now + Cooldown

FailureClock(t) ==
  /\ pc[t] = "failure_clock"
  /\ local' = [local EXCEPT ![t] = Deadline]
  /\ lastFailure' = now
  /\ Goto(t, "failure_store")
  /\ UNCHANGED <<failures, open_until, now, decision, since, stores>>

FailureStore(t) ==
  /\ pc[t] = "failure_store"
  /\ open_until' = local[t]
  /\ Goto(t, "idle")
  /\ UNCHANGED <<failures, now, local, decision, since, lastFailure, stores>>

-----------------------------------------------------------------------------
Tick ==
  /\ now < MaxTime
  /\ now' = now + 1
  /\ UNCHANGED <<failures, open_until, pc, local, decision, since, lastFailure, stores>>

Next ==
  \/ Tick
  \/ \E t \in Threads :
       \/ CheckFailures(t) \/ CheckDeadline(t) \/ CheckClock(t)
       \/ SuccessFirstStore(t) \/ SuccessSecondStore(t)
       \/ FailureFetchAdd(t) \/ FailureClock(t) \/ FailureStore(t)

Spec == Init /\ [][Next]_vars

-----------------------------------------------------------------------------
TypeOK ==
  /\ failures \in 0..CounterMax
  /\ open_until \in Nat
  /\ now \in Nat
  /\ pc \in [Threads -> Locations]
  /\ local \in [Threads -> Nat]
  /\ decision \in [Threads -> {"none", "Allow", "Reject"}]
  /\ since \in 0..MaxFailures
  /\ lastFailure \in Nat
  /\ stores \in {"in_order", "reordered"}

\* As long as the stores of on_success are seen in program order, and while none
\* is between them, `failures` is exactly the number of failures recorded since
\* the last success: no concurrent on_failure is lost, and none from before the
\* success survives it.  Past u32::MAX failures the counter wraps.
CountExact ==
  stores = "in_order" /\ ~SuccessRunning /\ since <= CounterMax => failures = since

\* A tripped breaker has a deadline as soon as every call in flight is over: in
\* program order no interleaving of on_success and on_failure leaves it tripped
\* and unarmed, the state in which check allows every request for ever.
ArmedWhenTripped ==
  stores = "in_order" /\ Tripped /\ ~SuccessRunning /\ ~ArmingRunning => open_until # 0

\* Whatever order the two stores of on_success become visible in, the first
\* failure recorded after it re-arms a tripped breaker: the reconvergence that
\* the comment in on_success promises.
RearmedByNextFailure ==
  Tripped /\ since > 0 /\ ~SuccessRunning /\ ~ArmingRunning => open_until # 0

\* check rejects only within one cooldown of the latest failure, however stale
\* the deadline is that it loaded or that a slow on_failure stored.
RejectsOnlyWithinCooldown ==
  [][\A t \in Threads :
       decision'[t] = "Reject" /\ decision[t] # "Reject" => now < lastFailure + Cooldown]_vars
=============================================================================
