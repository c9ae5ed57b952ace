------------------------------- MODULE Health -------------------------------
(***************************************************************************)
(* Active health checks (crates/conduit-upstream/src/health.rs) composed   *)
(* with the requests of module Upstream: one probe loop per address feeds  *)
(* the same breakers as the requests.  A probe awaits the response under   *)
(* the probe timeout, then drains the body without one, then counts.       *)
(***************************************************************************)
EXTENDS Upstream

CONSTANTS
  UnhealthyThreshold,  \* ProbeConfig::unhealthy_threshold
  HealthyThreshold     \* ProbeConfig::healthy_threshold

ASSUME HealthAssumption == UnhealthyThreshold \in Nat /\ HealthyThreshold \in Nat

VARIABLES
  probe,   \* per address: where run_one is, and its two counters
  cancel,  \* the AtomicBool that ends every loop
  run,     \* history: failed probes in a row, none of whose effect on the
           \*          breaker a success, or the wrap of its count, has cleared
  well,    \* history: good probes in a row
  since    \* history: failures that requests returned since the last good probe

healthVars == <<vars, probe, cancel, run, well, since>>
tallies == <<run, well, since>>

NewProbe == [pc |-> "request", healthy |-> FALSE, fails |-> 0, oks |-> 0]

InitHealth ==
  /\ Init
  /\ probe = [i \in Addrs |-> NewProbe]
  /\ cancel = FALSE
  /\ run = [i \in Addrs |-> 0]
  /\ well = [i \in Addrs |-> 0]
  /\ since = [i \in Addrs |-> 0]

\* The counters after a probe.
CountProbe(p, healthy) ==
  IF healthy THEN [p EXCEPT !.pc = "sleep", !.fails = 0, !.oks = SaturatingAdd(@)]
             ELSE [p EXCEPT !.pc = "sleep", !.oks = 0, !.fails = SaturatingAdd(@)]

\* Mutant: the threshold itself does not count yet.
TellsFailureMut(p) == p.fails > UnhealthyThreshold

TellsFailure(p) == p.fails >= UnhealthyThreshold

\* Mutant: so many good probes are not yet enough.
TellsSuccessMut(p) == p.oks > HealthyThreshold

TellsSuccess(p) == p.oks >= HealthyThreshold

\* The step clears the failures the breaker had counted.
Cleared(i) == breakers'[i].failures < breakers[i].failures

\* probe_once has returned: count, and tell the breaker past the threshold.
Record(i, healthy) ==
  LET p == CountProbe(probe[i], healthy)
  IN  /\ probe' = [probe EXCEPT ![i] = p]
      /\ breakers' = [breakers EXCEPT ![i] =
            IF healthy THEN IF TellsSuccess(p) THEN OnSuccess(@) ELSE @
            ELSE IF TellsFailure(p) THEN OnFailure(@, now) ELSE @]
      /\ run' = [run EXCEPT ![i] = IF healthy \/ Cleared(i) THEN 0 ELSE SaturatingAdd(@)]
      /\ well' = [well EXCEPT ![i] = IF healthy THEN SaturatingAdd(@) ELSE 0]
      /\ since' = [since EXCEPT ![i] = IF healthy THEN 0 ELSE @]
      /\ UNCHANGED <<next, now, req, history, cancel>>

\* The response arrives within the timeout; its body is drained next.
ProbeResponse(i, healthy) ==
  /\ probe[i].pc = "request"
  /\ probe' = [probe EXCEPT ![i].pc = "drain", ![i].healthy = healthy]
  /\ UNCHANGED <<vars, cancel, tallies>>

\* The request fails, or the timeout fires.
ProbeFailed(i) == probe[i].pc = "request" /\ Record(i, FALSE)

\* The body ends, in an error or not.
ProbeDrained(i) == probe[i].pc = "drain" /\ Record(i, probe[i].healthy)

\* The interval has passed, or the 250 ms slice in which cancel is seen.
ProbeWake(i) ==
  /\ probe[i].pc = "sleep"
  /\ probe' = [probe EXCEPT ![i].pc = IF cancel THEN "exit" ELSE "request"]
  /\ UNCHANGED <<vars, cancel, tallies>>

Cancel == ~cancel /\ cancel' = TRUE /\ UNCHANGED <<vars, probe, tallies>>

\* A step of a request or of the clock.
Traffic ==
  /\ Next
  /\ run' = [i \in Addrs |-> IF Cleared(i) THEN 0 ELSE run[i]]
  /\ since' = [i \in Addrs |-> IF streak'[i] > streak[i] THEN since[i] + 1 ELSE since[i]]
  /\ UNCHANGED <<probe, cancel, well>>

NextHealth ==
  \/ Traffic
  \/ Cancel
  \/ \E i \in Addrs :
       \/ ProbeFailed(i) \/ ProbeDrained(i) \/ ProbeWake(i)
       \/ \E healthy \in BOOLEAN : ProbeResponse(i, healthy)

SpecHealth == InitHealth /\ [][NextHealth]_healthVars

-----------------------------------------------------------------------------
\* What the code does about a backend that fails its probes: the first
\* unhealthy_threshold - 1 are not reported, and the breaker counts the others
\* against its own threshold, so unhealthy_threshold + threshold - 1 in a row
\* trip it whatever requests do in between, as long as none succeeds.
FailedProbesTrip ==
  \A i \in Addrs :
    Threshold > 0 /\ UnhealthyThreshold > 0 /\ run[i] >= UnhealthyThreshold + Threshold - 1
      => Tripped(breakers[i])

\* healthy_threshold good probes in a row make up for every failure before the
\* last of them, of requests and of probes, inside the cooldown too: a breaker
\* that is tripped after them owes it to requests alone, of which at least
\* threshold have failed since that probe.
GoodProbesRecover ==
  \A i \in Addrs :
    well[i] > 0 /\ well[i] >= HealthyThreshold /\ Tripped(breakers[i]) => since[i] >= Threshold
=============================================================================
