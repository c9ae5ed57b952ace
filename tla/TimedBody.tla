----------------------------- MODULE TimedBody -----------------------------
(***************************************************************************)
(* The read timeout on response bodies (crates/conduit-upstream/src/       *)
(* timed.rs): poll_frame of TimedBody against a backend that sends frames  *)
(* when it likes and a connection task that polls only when it is woken.   *)
(* Time is relative: what is left of the armed Sleep, and how long the     *)
(* backend has been silent, counted up to the timeout.                     *)
(***************************************************************************)
EXTENDS Naturals

CONSTANTS
  Timeout,  \* read_timeout, in clock ticks
  Queue     \* bound on the frames received and not yet polled

ASSUME TimedBodyAssumption == Timeout \in Nat \ {0} /\ Queue \in Nat \ {0}

VARIABLES
  ready,    \* frames the inner body has received
  inner,    \* whether more can come
  sleep,    \* what is left of the Sleep; Unarmed is None
  waits,    \* the Sleep has been polled, so it wakes the task when it ends
  woken,    \* the task is going to poll
  state,    \* what poll_frame has returned for good
  silent    \* history: ticks since the last frame came, up to Timeout

vars == <<ready, inner, sleep, waits, woken, state, silent>>

Unarmed == Timeout + 1

Init ==
  /\ ready = 0
  /\ inner = "open"
  /\ sleep = Unarmed
  /\ waits = FALSE
  /\ woken = TRUE
  /\ state = "open"
  /\ silent = 0

-----------------------------------------------------------------------------
(* The backend and the clock; the inner body wakes the task. *)

Frame ==
  /\ inner = "open" /\ ready < Queue
  /\ ready' = ready + 1
  /\ silent' = 0
  /\ woken' = TRUE
  /\ UNCHANGED <<inner, sleep, waits, state>>

InnerEnds(how) ==
  /\ inner = "open"
  /\ inner' = how
  /\ woken' = TRUE
  /\ UNCHANGED <<ready, sleep, waits, state, silent>>

\* The task is woken for another reason (its client, its connection).
Wake ==
  /\ ~woken
  /\ woken' = TRUE
  /\ UNCHANGED <<ready, inner, sleep, waits, state, silent>>

Tick ==
  /\ sleep' = IF sleep \in 1..Timeout THEN sleep - 1 ELSE sleep
  /\ silent' = IF silent < Timeout THEN silent + 1 ELSE silent
  /\ woken' = (woken \/ (waits /\ sleep = 1))
  /\ UNCHANGED <<ready, inner, waits, state>>

-----------------------------------------------------------------------------
(* poll_frame *)

Polled == state = "open" /\ woken

\* Mutant: a frame leaves the timer running.
ClearMut == UNCHANGED <<sleep, waits>>

\* `me.sleep.set(None)`
Clear == sleep' = Unarmed /\ waits' = FALSE

\* The inner body is ready; a frame makes the task poll again.
PollFrame ==
  /\ Polled /\ ready > 0
  /\ ready' = ready - 1
  /\ Clear
  /\ UNCHANGED <<inner, woken, state, silent>>

PollEnd ==
  /\ Polled /\ ready = 0 /\ inner # "open"
  /\ state' = inner
  /\ Clear
  /\ UNCHANGED <<ready, inner, woken, silent>>

\* The inner body is pending and the timer has fired.
PollTimeout ==
  /\ Polled /\ ready = 0 /\ inner = "open" /\ sleep = 0
  /\ state' = "timeout"
  /\ Clear
  /\ UNCHANGED <<ready, inner, woken, silent>>

\* Mutant: the timer is armed but not polled.
PollPendingMut ==
  /\ Polled /\ ready = 0 /\ inner = "open" /\ sleep # 0
  /\ sleep' = IF sleep = Unarmed THEN Timeout ELSE sleep
  /\ woken' = FALSE
  /\ UNCHANGED <<ready, inner, waits, state, silent>>

\* Neither is ready: both now hold the task's waker.
PollPending ==
  /\ Polled /\ ready = 0 /\ inner = "open" /\ sleep # 0
  /\ sleep' = IF sleep = Unarmed THEN Timeout ELSE sleep
  /\ waits' = TRUE
  /\ woken' = FALSE
  /\ UNCHANGED <<ready, inner, state, silent>>

-----------------------------------------------------------------------------
TypeOK ==
  /\ ready \in 0..Queue
  /\ inner \in {"open", "end", "error"}
  /\ sleep \in 0..Unarmed
  /\ waits \in BOOLEAN /\ woken \in BOOLEAN
  /\ state \in {"open", "end", "error", "timeout"}
  /\ silent \in 0..Timeout
=============================================================================
