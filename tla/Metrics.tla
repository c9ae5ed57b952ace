------------------------------ MODULE Metrics ------------------------------
(***************************************************************************)
(* The counters of crates/conduit-control/src/metrics.rs: requests bump    *)
(* them one fetch_add at a time on their way through proxy_one             *)
(* (crates/conduit/src/main.rs), while the admin plane renders a scrape    *)
(* one load at a time.  Atomics are sequentially consistent here, as on    *)
(* x86.  A duration is the bucket it falls in, a status its class, and a   *)
(* sum of microseconds the number of durations added to it.                *)
(***************************************************************************)
EXTENDS Naturals, Sequences, FiniteSets

CONSTANTS
  Requests,  \* requests, each one call of proxy_one
  Buckets,   \* LATENCY_BUCKETS_S.len()
  Statuses   \* classes of status the backends answer with

\* CLASS_LABELS; a status outside them ("1xx") has no class_index.
Class == {"2xx", "3xx", "4xx", "5xx"}

ASSUME MetricsAssumption ==
  /\ IsFiniteSet(Requests)
  /\ Buckets \in Nat \ {0}
  /\ Statuses \subseteq Class \cup {"1xx"}

\* The fields of MetricsHandle; the last three families are
\* request_duration_buckets and the buckets and sum_us of each class.
Cells ==
  {<<"total">>, <<"no_route">>, <<"unknown">>, <<"failed">>, <<"sum">>}
    \cup {<<"responses", c>> : c \in Class}
    \cup {<<"bucket", b>> : b \in 1..Buckets}
    \cup {<<"class_bucket", c, b>> : c \in Class, b \in 1..Buckets}
    \cup {<<"class_sum", c>> : c \in Class}

VARIABLES
  count,  \* the counters
  pc,     \* where each request is in proxy_one
  todo,   \* the counters it has yet to bump, in order
  seen    \* what the scrape has loaded so far

vars == <<count, pc, todo, seen>>

Init ==
  /\ count = [x \in Cells |-> 0]
  /\ pc = [r \in Requests |-> "new"]
  /\ todo = [r \in Requests |-> <<>>]
  /\ seen = <<>>

-----------------------------------------------------------------------------
(* proxy_one *)

\* What Dispatch::handle comes to: a response of some status, or one of the
\* errors, told apart by the counter they bump (a timeout counts as failed).
Results == Statuses \cup {"no_route", "unknown", "failed"}

\* Mutant: a request without a route is filed under the errors of the server.
StatusForMetricsMut(x) == IF x \in Statuses THEN x ELSE "5xx"

\* status_for_metrics: 404 without a route; 500, 502, 503 or 504 otherwise.
StatusForMetrics(x) ==
  IF x \in Statuses THEN x ELSE IF x = "no_route" THEN "4xx" ELSE "5xx"

When(c, s) == IF c THEN s ELSE <<>>

\* observe_request_duration; past the last bucket no bucket is bumped.
ObserveDuration(s, b) ==
  When(b <= Buckets, << <<"bucket", b>> >>) \o << <<"sum">> >>
    \o When(s \in Class /\ b <= Buckets, << <<"class_bucket", s, b>> >>)
    \o When(s \in Class, << <<"class_sum", s>> >>)

\* The match on the result: the counter of an error, then observe_status.
ObserveResult(x) ==
  LET s == IF x \in Statuses THEN x ELSE IF x = "no_route" THEN "4xx" ELSE "5xx"
  IN  When(x \notin Statuses, << <<x>> >>) \o When(s \in Class, << <<"responses", s>> >>)

\* observe_request_start, and the await of handle.
Start(r) ==
  /\ pc[r] = "new"
  /\ count' = [count EXCEPT ![<<"total">>] = @ + 1]
  /\ pc' = [pc EXCEPT ![r] = "handle"]
  /\ UNCHANGED <<todo, seen>>

\* handle returns; what is left to bump is decided, and nothing awaits any more.
Handled(r, x, b) ==
  /\ pc[r] = "handle"
  /\ pc' = [pc EXCEPT ![r] = "observe"]
  /\ todo' = [todo EXCEPT ![r] = ObserveDuration(StatusForMetrics(x), b) \o ObserveResult(x)]
  /\ UNCHANGED <<count, seen>>

\* The client goes away: the connection drops the future at its await.
Dropped(r) ==
  /\ pc[r] = "handle"
  /\ pc' = [pc EXCEPT ![r] = "dropped"]
  /\ UNCHANGED <<count, todo, seen>>

Bump(r) ==
  /\ pc[r] = "observe"
  /\ count' = [count EXCEPT ![Head(todo[r])] = @ + 1]
  /\ todo' = [todo EXCEPT ![r] = Tail(@)]
  /\ pc' = IF Tail(todo[r]) = <<>> THEN [pc EXCEPT ![r] = "done"] ELSE pc
  /\ UNCHANGED seen

-----------------------------------------------------------------------------
(* render *)

BucketOrder == [b \in 1..Buckets |-> <<"bucket", b>>]

ClassOrder(c) ==
  [b \in 1..Buckets |-> <<"class_bucket", c, b>>] \o << <<"responses", c>>, <<"class_sum", c>> >>

HeaderLoads == << <<"total">>, <<"no_route">>, <<"unknown">>, <<"failed">>,
            <<"responses", "2xx">>, <<"responses", "3xx">>,
            <<"responses", "4xx">>, <<"responses", "5xx">> >>

ClassLoads == ClassOrder("2xx") \o ClassOrder("3xx") \o ClassOrder("4xx") \o ClassOrder("5xx")

\* Mutant: +Inf is loaded before the buckets.
RenderOrderMut == HeaderLoads \o << <<"total">> >> \o BucketOrder \o << <<"sum">> >> \o ClassLoads

\* The loads in the order render makes them; requests_total is loaded twice.
RenderOrder == HeaderLoads \o BucketOrder \o << <<"total">>, <<"sum">> >> \o ClassLoads

Load ==
  /\ Len(seen) < Len(RenderOrder)
  /\ seen' = Append(seen, count[RenderOrder[Len(seen) + 1]])
  /\ UNCHANGED <<count, pc, todo>>

Over == (\A r \in Requests : pc[r] \in {"done", "dropped"}) /\ Len(seen) = Len(RenderOrder)
Idle == Over /\ UNCHANGED vars

Next ==
  \/ Load \/ Idle
  \/ \E r \in Requests :
       \/ Start(r) \/ Dropped(r) \/ Bump(r)
       \/ \E x \in Results, b \in 1..(Buckets + 1) : Handled(r, x, b)

Spec == Init /\ [][Next]_vars

-----------------------------------------------------------------------------
\* The value the scrape shows for the last load of a counter.
Shown(x) == seen[CHOOSE k \in 1..Len(RenderOrder) :
                   RenderOrder[k] = x /\ \A j \in (k + 1)..Len(RenderOrder) : RenderOrder[j] # x]

Scraped == Len(seen) = Len(RenderOrder)

\* The sum of f over the cells in X: the number of units they hold.
Units(f, X) == UNION {{x} \X (1..f[x]) : x \in X}
Sum(f, X) == Cardinality(Units(f, X))

BucketCells == {<<"bucket", b>> : b \in 1..Buckets}
ClassBucketCells(c) == {<<"class_bucket", c, b>> : b \in 1..Buckets}

\* A scrape taken while requests are counted shows a global histogram whose
\* largest finite bucket never exceeds +Inf: a request is counted at its start,
\* and requests_total is loaded after the buckets.
HistogramMonotone ==
  Scraped => Sum([x \in BucketCells |-> Shown(x)], BucketCells) <= Shown(<<"total">>)

\* With no request half way through its bookkeeping the counters agree: each
\* class has as many durations as responses, its buckets hold no more than
\* that, and every error shows among the responses of its class.
CountersReconcile ==
  (\A r \in Requests : pc[r] # "observe") =>
    /\ \A c \in Class :
         /\ count[<<"class_sum", c>>] = count[<<"responses", c>>]
         /\ Sum(count, ClassBucketCells(c)) <= count[<<"responses", c>>]
    /\ count[<<"no_route">>] <= count[<<"responses", "4xx">>]
    /\ count[<<"unknown">>] + count[<<"failed">>] <= count[<<"responses", "5xx">>]
=============================================================================
