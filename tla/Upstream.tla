------------------------------ MODULE Upstream ------------------------------
(***************************************************************************)
(* Forwarding a request to one upstream: Upstream::forward with pick_addr  *)
(* and RetryPolicy (crates/conduit-upstream), inside the route's total     *)
(* timeout set by Dispatch::handle (crates/conduit-lifecycle/table.rs).    *)
(* Requests are concurrent tasks over one round-robin counter and one      *)
(* breaker per backend address.  A step runs from one await or shared      *)
(* atomic to the next; a breaker method is one step (see module Breaker    *)
(* for the interleavings inside it).                                       *)
(***************************************************************************)
EXTENDS BreakerOps, Sequences, FiniteSets

CONSTANTS
  Requests,        \* requests, each forwarded once
  N,               \* number of backend addresses
  Attempts,        \* retry.attempts
  OnStatus,        \* classes of status that retry.on_status lists
  OnConnectError,  \* retry.on_connect_error
  MaxTime          \* bound on the clock

ASSUME UpstreamAssumption ==
  /\ N \in Nat \ {0}
  /\ Attempts \in Nat
  /\ OnStatus \subseteq {"ok", "server_error"}
  /\ OnConnectError \in BOOLEAN
  /\ MaxTime \in Nat

Addrs == 0..(N - 1)

\* A response is told apart by is_server_error only, an error of the client by
\* is_connect.
Statuses == {"ok", "server_error"}
Errors == {"connect", "io"}

Outcomes == Statuses \cup
  {"none", "client_error", "body_error", "breaker_open", "exhausted", "timeout"}

VARIABLES
  next,      \* AtomicUsize: the round-robin counter
  breakers,  \* one breaker per address
  now,       \* the clock the breakers read
  req,       \* the local state of each forward
  streak,    \* history: failures each backend returned since its last success
  lastFail,  \* history: when each backend last returned a failure
  exposed    \* history: the requests that were with it, or looking at its breaker, then

vars == <<next, breakers, now, req, streak, lastFail, exposed>>

\* pc "scan" is pick_addr's loop; "body" and "send" are the two awaits.  The
\* fields `tried` (what each attempt came to), `rejected` (breakers that turned
\* the request away) and `observed` (outcomes recorded) are history.
NewRequest == [pc |-> "new", start |-> 0, offset |-> 0, attempt |-> 0,
               outcome |-> "none", tried |-> <<>>, rejected |-> {}, observed |-> 0]

Init ==
  /\ next = 0
  /\ breakers = [i \in Addrs |-> NewBreaker]
  /\ now = 0
  /\ req = [r \in Requests |-> NewRequest]
  /\ streak = [i \in Addrs |-> 0]
  /\ lastFail = [i \in Addrs |-> 0]
  /\ exposed = [i \in Addrs |-> {}]

history == <<streak, lastFail, exposed>>

Index(q) == (q.start + q.offset) % N

\* The requests pick_addr has given to a backend and that are still with it.
UnderWay(i) == {r \in Requests : req[r].pc \in {"body", "send"} /\ Index(req[r]) = i}

\* The requests that are looking at its breaker.
LookingAt(i) == {r \in Requests : req[r].pc = "scan" /\ Index(req[r]) = i}

\* The request leaves forward (and Dispatch::handle) with an outcome.
Finish(r, q, o) == req' = [req EXCEPT ![r] = [q EXCEPT !.pc = "done", !.outcome = o]]

-----------------------------------------------------------------------------
(* pick_addr *)

\* Mutant: a clone of the upstream counts by itself.
BeginMut(r) ==
  /\ req[r].pc = "new"
  /\ req' = [req EXCEPT ![r].pc = "scan", ![r].start = next]
  /\ UNCHANGED <<next, breakers, now, history>>

Begin(r) ==
  /\ req[r].pc = "new"
  /\ req' = [req EXCEPT ![r].pc = "scan", ![r].start = next]
  /\ next' = next + 1
  /\ UNCHANGED <<breakers, now, history>>

\* Mutant: the scan stops one address short.
LastOffsetMut == IF N = 1 THEN 0 ELSE N - 2

\* Mutant: the scan runs one address past the end.
LastOffsetPast == N

\* The scan `0..len` visits every address once.
LastOffset == N - 1

\* Mutant: the address the counter points at is taken as it is.
ScanMut(r) ==
  LET q == req[r]
      i == Index(q)
      seen == [q EXCEPT !.rejected = @ \cup {i}]
  IN  /\ q.pc = "scan"
      /\ \/ /\ q.offset = 0 \/ ~Rejects(breakers[i], now)
            /\ req' = [req EXCEPT ![r].pc = "body"]
         \/ /\ Rejects(breakers[i], now)
            /\ q.offset < LastOffset
            /\ req' = [req EXCEPT ![r] = [seen EXCEPT !.offset = @ + 1]]
         \/ /\ Rejects(breakers[i], now)
            /\ q.offset = LastOffset
            /\ Finish(r, seen, "breaker_open")
      /\ UNCHANGED <<next, breakers, now, history>>

Scan(r) ==
  LET q == req[r]
      i == Index(q)
      seen == [q EXCEPT !.rejected = @ \cup {i}]
  IN  /\ q.pc = "scan"
      /\ \/ /\ ~Rejects(breakers[i], now)
            /\ req' = [req EXCEPT ![r].pc = "body"]
         \/ /\ Rejects(breakers[i], now)
            /\ q.offset < LastOffset
            /\ req' = [req EXCEPT ![r] = [seen EXCEPT !.offset = @ + 1]]
         \/ /\ Rejects(breakers[i], now)
            /\ q.offset = LastOffset
            /\ Finish(r, seen, "breaker_open")
      /\ UNCHANGED <<next, breakers, now, history>>

-----------------------------------------------------------------------------
(* The request body is collected before the first attempt. *)

CollectBody(r) ==
  /\ req[r].pc = "body"
  /\ req' = [req EXCEPT ![r].pc = "send"]
  /\ UNCHANGED <<next, breakers, now, history>>

BodyError(r) ==
  /\ req[r].pc = "body"
  /\ Finish(r, req[r], "body_error")
  /\ UNCHANGED <<next, breakers, now, history>>

-----------------------------------------------------------------------------
(* The attempt loop *)

\* observe_breaker_outcome for the address that was picked.
Observe(i, success) ==
  breakers' = [breakers EXCEPT ![i] = IF success THEN OnSuccess(@)
                                       ELSE OnFailure(@, now)]

\* What the backend really came to, whatever its breaker was told.
Remember(i, good) ==
  /\ streak' = [streak EXCEPT ![i] = IF good THEN 0 ELSE @ + 1]
  /\ lastFail' = [lastFail EXCEPT ![i] = IF good THEN @ ELSE now]
  /\ exposed' = [exposed EXCEPT ![i] = IF good THEN @
                                            ELSE UnderWay(i) \cup LookingAt(i)]

\* Mutant: a 5xx response counts as a success for the breaker.
IsSuccessMut(status) == TRUE

IsSuccess(status) == status # "server_error"

RoomToRetry(k) == k + 1 < Attempts

\* RetryPolicy::decide_status returns Retry.
DecideRetry(status, k) == status \in OnStatus /\ RoomToRetry(k)

\* Mutant: any error of the client is retried.
RetryErrorMut(e, k) == OnConnectError /\ RoomToRetry(k)

\* `connect_error && on_connect_error && attempt + 1 < attempts`
RetryError(e, k) == e = "connect" /\ OnConnectError /\ RoomToRetry(k)

MaxAttempts == IF Attempts = 0 THEN 1 ELSE Attempts

\* Mutant: an attempt that will be repeated is recorded as a failure too.
AgainMut(r, q) ==
  /\ req' = [req EXCEPT ![r] = [q EXCEPT !.attempt = @ + 1, !.observed = @ + 1]]
  /\ Observe(Index(q), FALSE) /\ Remember(Index(q), FALSE)

\* The end of an iteration that did not return: the next one, or past the loop.
Again(r, q) ==
  IF q.attempt + 1 < MaxAttempts
  THEN /\ req' = [req EXCEPT ![r] = [q EXCEPT !.attempt = @ + 1]]
       /\ UNCHANGED <<breakers, history>>
  ELSE /\ Finish(r, [q EXCEPT !.observed = @ + 1], "exhausted")
       /\ Observe(Index(q), FALSE) /\ Remember(Index(q), FALSE)

\* client.request resolves to a response.
Response(r, status) ==
  LET q == [req[r] EXCEPT !.tried = Append(@, status)]
  IN  /\ req[r].pc = "send"
      /\ \/ /\ DecideRetry(status, q.attempt)
            /\ Again(r, q)
         \/ /\ ~DecideRetry(status, q.attempt)
            /\ Observe(Index(q), IsSuccess(status)) /\ Remember(Index(q), status = "ok")
            /\ Finish(r, [q EXCEPT !.observed = @ + 1], status)
      /\ UNCHANGED <<next, now>>

\* client.request resolves to an error.
ClientError(r, e) ==
  LET q == [req[r] EXCEPT !.tried = Append(@, e)]
  IN  /\ req[r].pc = "send"
      /\ \/ /\ RetryError(e, q.attempt)
            /\ Again(r, q)
         \/ /\ ~RetryError(e, q.attempt)
            /\ Observe(Index(q), FALSE) /\ Remember(Index(q), FALSE)
            /\ Finish(r, [q EXCEPT !.observed = @ + 1], "client_error")
      /\ UNCHANGED <<next, now>>

-----------------------------------------------------------------------------
(* Dispatch::handle: the total timeout drops forward at one of its awaits.   *)

\* Mutant: the timeout covers the exchange with the backend only.
AwaitsMut == {"send"}

Awaits == {"body", "send"}

TotalTimeout(r) ==
  LET q == req[r]
  IN  /\ q.pc \in Awaits
      /\ Finish(r, q, "timeout")
      /\ UNCHANGED <<next, breakers, now, history>>

-----------------------------------------------------------------------------
Tick ==
  /\ now < MaxTime
  /\ now' = now + 1
  /\ UNCHANGED <<next, breakers, req, history>>

\* The workload is over.
Quiescent == (\A r \in Requests : req[r].pc = "done") /\ UNCHANGED vars

RequestStep(r) ==
  \/ Begin(r) \/ Scan(r) \/ CollectBody(r) \/ BodyError(r) \/ TotalTimeout(r)
  \/ \E status \in Statuses : Response(r, status)
  \/ \E e \in Errors : ClientError(r, e)

Next == Tick \/ Quiescent \/ \E r \in Requests : RequestStep(r)

Spec == Init /\ [][Next]_vars

\* A task that can run is polled, and its timer fires; nothing is assumed of
\* the backend or of the client that sends the body.
FairSpec == Spec /\ \A r \in Requests :
  WF_vars(Begin(r)) /\ WF_vars(Scan(r)) /\ WF_vars(TotalTimeout(r))

-----------------------------------------------------------------------------
RequestType ==
  [pc : {"new", "scan", "body", "send", "done"}, start : Nat, offset : Addrs,
   attempt : Nat, outcome : Outcomes, tried : Seq(Statuses \cup Errors),
   rejected : SUBSET Addrs, observed : Nat]

TypeOK ==
  /\ next \in Nat
  /\ breakers \in [Addrs -> BreakerType]
  /\ now \in Nat
  /\ req \in [Requests -> RequestType]
  /\ streak \in [Addrs -> Nat]
  /\ lastFail \in [Addrs -> Nat]
  /\ exposed \in [Addrs -> SUBSET Requests]

\* What the retry policy may repeat: a listed status or, when enabled, an
\* attempt that never reached the backend.
Repeatable(a) == a \in OnStatus \/ (a = "connect" /\ OnConnectError)

\* forward sends a request again only after an attempt the policy allows it to
\* repeat (never after an error that may have reached the backend), and never
\* more than max(attempts, 1) times in all.
RetriesWithinPolicy ==
  \A r \in Requests :
    LET q == req[r]
        sent == Len(q.tried) + (IF q.pc = "send" THEN 1 ELSE 0)
    IN  /\ sent <= MaxAttempts
        /\ \A k \in 1..(sent - 1) : Repeatable(q.tried[k])

\* A forward that got an answer or an error from its last attempt records
\* exactly one outcome with the breaker, however many attempts it made; one
\* that was rejected, failed on its own body or was dropped records none.
OneOutcomePerForward ==
  \A r \in Requests :
    req[r].observed = IF req[r].outcome \in Statuses \cup {"client_error", "exhausted"}
                       THEN 1 ELSE 0

\* BreakerOpen is returned only when every backend's breaker turned the request
\* away during its scan, and then nothing was sent.
RejectedByEveryBackend ==
  \A r \in Requests :
    req[r].outcome = "breaker_open" => req[r].rejected = Addrs /\ req[r].tried = <<>>

\* A backend whose last Threshold or more outcomes were all failures (5xx and
\* client errors alike) is skipped by pick_addr until one cooldown after the
\* last of them, up to the u32::MAX failures after which the count wraps.
FailuresRotateOut ==
  \A i \in Addrs :
    Threshold > 0 /\ streak[i] \in Threshold..CounterMax /\ now < lastFail[i] + Cooldown
      => Rejects(breakers[i], now)

\* As long as no breaker has turned a request away the round robin is even at
\* every moment: concurrent requests spread over the backends so that no two of
\* them have been given numbers of requests that differ by more than one.
GivenTo(i) == Cardinality({r \in Requests : req[r].pc # "new" /\ Index(req[r]) = i})
RoundRobinEven ==
  (\A r \in Requests : req[r].rejected = {}) => \A i, j \in Addrs : GivenTo(i) <= GivenTo(j) + 1

\* While a breaker is open its backend is given nothing: whoever is still with it
\* was picked before the failure that opened the breaker, or last put off its
\* deadline, or was in check() at that moment, which may be answered from what it
\* loaded before.  So only those can end the cooldown early, by a success that
\* comes late.
OpenBackendLeftAlone ==
  \A i \in Addrs : Rejects(breakers[i], now) => UnderWay(i) \subseteq exposed[i]

\* Every request ends, whatever its backend and its client do: the total
\* timeout covers every await of forward.
EveryRequestEnds == \A r \in Requests : <>(req[r].pc = "done")
=============================================================================
