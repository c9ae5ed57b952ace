----------------------------- MODULE BreakerOps -----------------------------
(***************************************************************************)
(* The methods of crates/conduit-upstream/src/breaker.rs as functions of a *)
(* breaker's value, each taken as one step.  Module Breaker has the same   *)
(* methods one atomic access at a time, and the states that two of them    *)
(* can leave behind when they overlap; the modules about the code that     *)
(* calls them use these.                                                   *)
(***************************************************************************)
EXTENDS Naturals

CONSTANTS
  Threshold,  \* BreakerConfig::threshold; 0 disables the breaker
  Cooldown,   \* BreakerConfig::cooldown, in clock ticks
  CounterMax  \* u32::MAX

ASSUME BreakerOpsAssumption ==
  /\ CounterMax \in Nat \ {0}
  /\ Threshold \in 0..CounterMax
  /\ Cooldown \in Nat \ {0}

BreakerType == [failures : 0..CounterMax, open_until : Nat]

NewBreaker == [failures |-> 0, open_until |-> 0]

Tripped(b) == Threshold > 0 /\ b.failures >= Threshold

\* check() returns Decision::Reject.
Rejects(b, now) == Tripped(b) /\ b.open_until # 0 /\ now < b.open_until

OnSuccess(b) == IF Threshold = 0 THEN b ELSE NewBreaker

\* fetch_add wraps at u32::MAX; the copy that is compared to the threshold
\* saturates.
FetchAdd(n) == IF n = CounterMax THEN 0 ELSE n + 1
SaturatingAdd(n) == IF n = CounterMax THEN n ELSE n + 1

OnFailure(b, now) ==
  IF Threshold = 0 THEN b
  ELSE [failures |-> FetchAdd(b.failures),
        open_until |-> IF SaturatingAdd(b.failures) >= Threshold THEN now + Cooldown
                       ELSE b.open_until]
=============================================================================
