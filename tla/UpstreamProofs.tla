--------------------------- MODULE UpstreamProofs ---------------------------
(***************************************************************************)
(* Proofs about Upstream for any number of concurrent requests and of      *)
(* backends, any retry policy and any breaker configuration, and about     *)
(* Health: the same breakers under requests and probe loops together, for  *)
(* any thresholds.                                                         *)
(***************************************************************************)
EXTENDS Health, FiniteSetTheorems, TLAPS

-----------------------------------------------------------------------------
(* The round robin's arithmetic *)

\* `% len` in pick_addr yields the index of a backend.
LEMMA ModInAddrs == ASSUME NEW a \in Nat PROVE a % N \in Addrs
BY UpstreamAssumption DEF Addrs

\* The index a value of the counter stands for, from its quotient.
LEMMA ModOf ==
  ASSUME NEW q \in Nat, NEW i \in Addrs
  PROVE  (N * q + i) % N = i /\ (N * q + i) \div N = q
BY UpstreamAssumption DEF Addrs

\* A value of the counter is its round and the index in that round.
LEMMA DivMod ==
  ASSUME NEW a \in Nat
  PROVE  a % N \in Addrs /\ a \div N \in Nat /\ a = N * (a \div N) + (a % N)
BY UpstreamAssumption DEF Addrs

\* N consecutive values of the counter reach every backend.
LEMMA ModReaches ==
  ASSUME NEW a \in Nat, NEW i \in Addrs
  PROVE  \E k \in Addrs : (a + k) % N = i
<1> USE UpstreamAssumption DEF Addrs
<1> DEFINE b == a % N
           q == a \div N
<1>1. b \in Addrs /\ q \in Nat /\ a = N * q + b
  BY DivMod
<1> HIDE DEF b, q
<1>2. CASE i >= b
  <2>1. i - b \in Addrs /\ a + (i - b) = N * q + i
    BY <1>1, <1>2
  <2> QED
    BY Zenon, <1>1, <2>1, ModOf
<1>3. CASE i < b
  <2>1. i + N - b \in Addrs /\ a + (i + N - b) = N * (q + 1) + i /\ q + 1 \in Nat
    BY <1>1, <1>3
  <2> QED
    BY Zenon, <2>1, ModOf
<1> QED
  BY <1>1, <1>2, <1>3

\* The counter moves to the next backend of the round, or to the first of the
\* next round.
LEMMA ModNext ==
  ASSUME NEW a \in Nat
  PROVE  IF a % N = N - 1 THEN (a + 1) % N = 0 /\ (a + 1) \div N = (a \div N) + 1
         ELSE (a + 1) % N = (a % N) + 1 /\ (a + 1) \div N = a \div N
<1> USE UpstreamAssumption DEF Addrs
<1> DEFINE b == a % N
           q == a \div N
<1>1. b \in Addrs /\ q \in Nat /\ a = N * q + b
  BY DivMod
<1> HIDE DEF b, q
<1>2. CASE b = N - 1
  <2>1. a + 1 = N * (q + 1) + 0 /\ q + 1 \in Nat /\ 0 \in Addrs
    BY <1>1, <1>2
  <2>2. (N * (q + 1) + 0) % N = 0 /\ (N * (q + 1) + 0) \div N = q + 1
    BY Zenon, <2>1, ModOf
  <2> QED
    BY <1>2, <2>1, <2>2 DEF b, q
<1>3. CASE b # N - 1
  <2>1. a + 1 = N * q + (b + 1) /\ b + 1 \in Addrs
    BY <1>1, <1>3
  <2>2. (N * q + (b + 1)) % N = b + 1 /\ (N * q + (b + 1)) \div N = q
    BY <1>1, <2>1, ModOf
  <2> QED
    BY <1>3, <2>1, <2>2 DEF b, q
<1> QED
  BY <1>2, <1>3

-----------------------------------------------------------------------------
(* Type correctness *)

\* The address a request is at is one of the upstream's.
LEMMA IndexInAddrs ==
  ASSUME TypeOK, NEW r \in Requests
  PROVE  Index(req[r]) \in Addrs
<1>1. req[r].start \in Nat /\ req[r].offset \in Nat
  BY UpstreamAssumption DEF TypeOK, RequestType, Addrs
<1> QED
  BY <1>1, ModInAddrs DEF Index

\* What a breaker is told keeps it a breaker.
LEMMA BreakerOpsType ==
  ASSUME NEW b \in BreakerType, NEW t \in Nat
  PROVE  OnSuccess(b) \in BreakerType /\ OnFailure(b, t) \in BreakerType
BY BreakerOpsAssumption
DEF BreakerType, OnSuccess, OnFailure, NewBreaker, FetchAdd, SaturatingAdd

-----------------------------------------------------------------------------
(* What each step does to the fields of a request *)

\* Appending to a sequence over a set.
LEMMA AppendType ==
  ASSUME NEW S, NEW s \in Seq(S), NEW e \in S
  PROVE  Append(s, e) \in Seq(S)
OBVIOUS

\* The updates of the code keep a request's local state well typed.
LEMMA FieldUpdates ==
  ASSUME NEW q \in RequestType
  PROVE  /\ \A n \in Nat : [q EXCEPT !.pc = "scan", !.start = n] \in RequestType
         /\ [q EXCEPT !.pc = "body"] \in RequestType
         /\ [q EXCEPT !.pc = "send"] \in RequestType
         /\ \A o \in Outcomes : [q EXCEPT !.pc = "done", !.outcome = o] \in RequestType
         /\ [q EXCEPT !.observed = @ + 1] \in RequestType
         /\ [q EXCEPT !.attempt = @ + 1] \in RequestType
         /\ \A i \in Addrs : [q EXCEPT !.rejected = @ \cup {i}] \in RequestType
         /\ q.offset < LastOffset => [q EXCEPT !.offset = @ + 1] \in RequestType
         /\ \A a \in Statuses \cup Errors : [q EXCEPT !.tried = Append(@, a)] \in RequestType
<1>1. \A n \in Nat : [q EXCEPT !.pc = "scan", !.start = n] \in RequestType
  BY Zenon DEF RequestType
<1>2. [q EXCEPT !.pc = "body"] \in RequestType /\ [q EXCEPT !.pc = "send"] \in RequestType
  BY DEF RequestType
<1>3. \A o \in Outcomes : [q EXCEPT !.pc = "done", !.outcome = o] \in RequestType
  BY Zenon DEF RequestType
<1>4. [q EXCEPT !.observed = @ + 1] \in RequestType
  BY DEF RequestType
<1>8. [q EXCEPT !.attempt = @ + 1] \in RequestType
  BY DEF RequestType
<1>5. \A i \in Addrs : [q EXCEPT !.rejected = @ \cup {i}] \in RequestType
  BY DEF RequestType
<1>6. ASSUME q.offset < LastOffset PROVE [q EXCEPT !.offset = @ + 1] \in RequestType
  <2>1. q.offset \in Addrs
    BY DEF RequestType
  <2>2. q.offset + 1 \in Addrs
    BY <1>6, <2>1, UpstreamAssumption DEF Addrs, LastOffset
  <2> QED
    BY <2>2 DEF RequestType
<1>7. ASSUME NEW a \in Statuses \cup Errors
      PROVE  [q EXCEPT !.tried = Append(@, a)] \in RequestType
  <2> DEFINE t == Append(q.tried, a)
  <2>1. t \in Seq(Statuses \cup Errors)
    BY AppendType DEF RequestType
  <2> HIDE DEF t
  <2>2. [q EXCEPT !.tried = t] \in RequestType
    BY <2>1 DEF RequestType
  <2> QED
    BY <2>2 DEF t
<1> QED
  BY Zenon, <1>1, <1>2, <1>3, <1>4, <1>5, <1>6, <1>7, <1>8

\* A step of r leaves the other requests alone.
OthersKept(r) == \A s \in Requests \ {r} : req'[s] = req[s]

\* The fields pick_addr sets, and those the attempt loop sets.
PickKept(r) == /\ req'[r].start = req[r].start
               /\ req'[r].offset = req[r].offset
               /\ req'[r].rejected = req[r].rejected
LoopKept(r) == /\ req'[r].attempt = req[r].attempt
               /\ req'[r].tried = req[r].tried
               /\ req'[r].observed = req[r].observed

\* Begin takes a value of the counter.
LEMMA BeginEffect ==
  ASSUME TypeOK, NEW r \in Requests, Begin(r)
  PROVE  /\ OthersKept(r) /\ LoopKept(r) /\ req' \in [Requests -> RequestType]
         /\ req[r].pc = "new" /\ req'[r].pc = "scan"
         /\ req'[r].start = next
         /\ req'[r].offset = req[r].offset
         /\ req'[r].rejected = req[r].rejected
         /\ req'[r].outcome = req[r].outcome
<1> DEFINE p == [req[r] EXCEPT !.pc = "scan", !.start = next]
<1>1. req[r] \in RequestType /\ p \in RequestType
  BY Zenon, FieldUpdates DEF TypeOK
<1>2. req' = [req EXCEPT ![r] = p]
  BY Zenon DEF Begin, TypeOK
<1>3. req' \in [Requests -> RequestType] /\ req'[r] = p /\ OthersKept(r)
  BY <1>1, <1>2 DEF TypeOK, OthersKept
<1>4. /\ p.pc = "scan" /\ p.start = next
      /\ p.offset = req[r].offset /\ p.rejected = req[r].rejected
      /\ p.outcome = req[r].outcome /\ p.attempt = req[r].attempt
      /\ p.tried = req[r].tried /\ p.observed = req[r].observed
  BY <1>1 DEF RequestType
<1> QED
  BY <1>3, <1>4 DEF Begin, LoopKept

\* An iteration of the scan picks the address, skips it or gives up on it.
LEMMA ScanEffect ==
  ASSUME TypeOK, NEW r \in Requests, Scan(r)
  PROVE  /\ OthersKept(r) /\ LoopKept(r) /\ req' \in [Requests -> RequestType]
         /\ req[r].pc = "scan" /\ req'[r].start = req[r].start
         /\ \/ /\ req'[r].pc = "body" /\ PickKept(r)
               /\ req'[r].outcome = req[r].outcome
               /\ ~Rejects(breakers[Index(req[r])], now)
            \/ /\ req'[r].pc = "scan"
               /\ req[r].offset < LastOffset
               /\ req'[r].offset = req[r].offset + 1
               /\ req'[r].rejected = req[r].rejected \cup {Index(req[r])}
               /\ req'[r].outcome = req[r].outcome
            \/ /\ req'[r].pc = "done"
               /\ req[r].offset = LastOffset
               /\ req'[r].offset = req[r].offset
               /\ req'[r].rejected = req[r].rejected \cup {Index(req[r])}
               /\ req'[r].outcome = "breaker_open"
<1> DEFINE q == req[r]
           seen == [q EXCEPT !.rejected = @ \cup {Index(q)}]
<1>1. q \in RequestType /\ Index(q) \in Addrs /\ q.pc = "scan"
  BY IndexInAddrs DEF TypeOK, Scan
<1>2. seen \in RequestType
  BY Zenon, <1>1, FieldUpdates
<1>3. /\ seen.rejected = q.rejected \cup {Index(q)}
      /\ seen.start = q.start /\ seen.offset = q.offset
      /\ seen.outcome = q.outcome /\ seen.attempt = q.attempt
      /\ seen.tried = q.tried /\ seen.observed = q.observed /\ seen.pc = q.pc
  BY <1>1 DEF RequestType
<1>4. CASE ~Rejects(breakers[Index(q)], now) /\ req' = [req EXCEPT ![r].pc = "body"]
  <2> DEFINE p == [q EXCEPT !.pc = "body"]
  <2>1. p \in RequestType
    BY Zenon, <1>1, FieldUpdates
  <2>2. req' = [req EXCEPT ![r] = p]
    BY <1>4 DEF TypeOK
  <2>3. req' \in [Requests -> RequestType] /\ req'[r] = p /\ OthersKept(r)
    BY <2>1, <2>2 DEF TypeOK, OthersKept
  <2>4. /\ p.pc = "body" /\ p.start = q.start
        /\ p.offset = q.offset /\ p.rejected = q.rejected
        /\ p.outcome = q.outcome /\ p.attempt = q.attempt
        /\ p.tried = q.tried /\ p.observed = q.observed
    BY <1>1 DEF RequestType
  <2> QED
    BY <1>1, <1>4, <2>3, <2>4 DEF LoopKept, PickKept
<1>5. CASE q.offset < LastOffset /\ req' = [req EXCEPT ![r] = [seen EXCEPT !.offset = @ + 1]]
  <2> DEFINE p == [seen EXCEPT !.offset = @ + 1]
  <2> HIDE DEF seen
  <2>1. p \in RequestType
    BY Zenon, <1>2, <1>3, <1>5, FieldUpdates
  <2>2. req' = [req EXCEPT ![r] = p]
    BY <1>5
  <2>3. req' \in [Requests -> RequestType] /\ req'[r] = p /\ OthersKept(r)
    BY <2>1, <2>2 DEF TypeOK, OthersKept
  <2>4. /\ p.pc = seen.pc /\ p.start = seen.start
        /\ p.offset = seen.offset + 1 /\ p.rejected = seen.rejected
        /\ p.outcome = seen.outcome /\ p.attempt = seen.attempt
        /\ p.tried = seen.tried /\ p.observed = seen.observed
    BY <1>2 DEF RequestType
  <2> QED
    BY <1>1, <1>3, <1>5, <2>3, <2>4 DEF LoopKept
<1>6. CASE q.offset = LastOffset /\ Finish(r, seen, "breaker_open")
  <2> DEFINE p == [seen EXCEPT !.pc = "done", !.outcome = "breaker_open"]
  <2> HIDE DEF seen
  <2>1. p \in RequestType
    BY Zenon, <1>2, FieldUpdates DEF Outcomes
  <2>2. req' = [req EXCEPT ![r] = p]
    BY <1>6 DEF Finish
  <2>3. req' \in [Requests -> RequestType] /\ req'[r] = p /\ OthersKept(r)
    BY <2>1, <2>2 DEF TypeOK, OthersKept
  <2>4. /\ p.pc = "done" /\ p.start = seen.start
        /\ p.offset = seen.offset /\ p.rejected = seen.rejected
        /\ p.outcome = "breaker_open" /\ p.attempt = seen.attempt
        /\ p.tried = seen.tried /\ p.observed = seen.observed
    BY <1>2 DEF RequestType
  <2> QED
    BY <1>1, <1>3, <1>6, <2>3, <2>4 DEF LoopKept
<1> QED
  BY <1>4, <1>5, <1>6 DEF Scan

\* The body is collected, or the request ends at one of its awaits with nothing
\* to record.
LEMMA AwaitEffect ==
  ASSUME TypeOK, NEW r \in Requests, CollectBody(r) \/ BodyError(r) \/ TotalTimeout(r)
  PROVE  /\ OthersKept(r) /\ LoopKept(r) /\ PickKept(r) /\ req' \in [Requests -> RequestType]
         /\ \/ /\ req[r].pc = "body" /\ req'[r].pc = "send"
               /\ req'[r].outcome = req[r].outcome
            \/ /\ req[r].pc \in Awaits /\ req'[r].pc = "done"
               /\ req'[r].outcome \in {"body_error", "timeout"}
<1> DEFINE q == req[r]
<1>1. q \in RequestType
  BY DEF TypeOK
<1>2. CASE CollectBody(r)
  <2> DEFINE p == [q EXCEPT !.pc = "send"]
  <2>1. p \in RequestType
    BY Zenon, <1>1, FieldUpdates
  <2>2. req' = [req EXCEPT ![r] = p]
    BY <1>2 DEF CollectBody, TypeOK
  <2>3. req' \in [Requests -> RequestType] /\ req'[r] = p /\ OthersKept(r)
    BY <2>1, <2>2 DEF TypeOK, OthersKept
  <2>4. /\ p.pc = "send" /\ p.start = q.start
        /\ p.offset = q.offset /\ p.rejected = q.rejected
        /\ p.outcome = q.outcome /\ p.attempt = q.attempt
        /\ p.tried = q.tried /\ p.observed = q.observed
    BY <1>1 DEF RequestType
  <2> QED
    BY <1>2, <2>3, <2>4 DEF CollectBody, LoopKept, PickKept
<1>3. ASSUME NEW o \in {"body_error", "timeout"}, Finish(r, q, o), q.pc \in Awaits
      PROVE  /\ OthersKept(r) /\ LoopKept(r) /\ PickKept(r) /\ req' \in [Requests -> RequestType]
             /\ req'[r].pc = "done" /\ req'[r].outcome = o
  <2> DEFINE p == [q EXCEPT !.pc = "done", !.outcome = o]
  <2>1. p \in RequestType
    BY Zenon, <1>1, FieldUpdates DEF Outcomes
  <2>2. req' = [req EXCEPT ![r] = p]
    BY <1>3 DEF Finish
  <2>3. req' \in [Requests -> RequestType] /\ req'[r] = p /\ OthersKept(r)
    BY <2>1, <2>2 DEF TypeOK, OthersKept
  <2>4. /\ p.pc = "done" /\ p.start = q.start
        /\ p.offset = q.offset /\ p.rejected = q.rejected
        /\ p.outcome = o /\ p.attempt = q.attempt
        /\ p.tried = q.tried /\ p.observed = q.observed
    BY <1>1 DEF RequestType
  <2> QED
    BY <2>3, <2>4 DEF LoopKept, PickKept
<1>4. CASE BodyError(r)
  BY <1>3, <1>4 DEF BodyError, Awaits
<1>5. CASE TotalTimeout(r)
  BY <1>3, <1>5 DEF TotalTimeout
<1> QED
  BY <1>2, <1>4, <1>5

\* An attempt that comes to a is repeated, or ends the forward and is recorded
\* as `good` with the breaker of the address that was picked.
Retried(r, a) ==
  /\ req'[r].pc = "send"
  /\ req'[r].attempt = req[r].attempt + 1
  /\ req'[r].attempt < MaxAttempts
  /\ req'[r].outcome = req[r].outcome
  /\ req'[r].observed = req[r].observed
  /\ Repeatable(a)
  /\ UNCHANGED <<breakers, history>>
Recorded(r) ==
  /\ req'[r].pc = "done"
  /\ req'[r].outcome \in Statuses \cup {"client_error", "exhausted"}
  /\ req'[r].observed = req[r].observed + 1
  /\ \E good \in BOOLEAN : Observe(Index(req[r]), good) /\ Remember(Index(req[r]), good)

\* Every return of client.request is one of the two.
LEMMA AttemptEffect ==
  ASSUME TypeOK, NEW r \in Requests, NEW a \in Statuses \cup Errors,
         \/ a \in Statuses /\ Response(r, a)
         \/ a \in Errors /\ ClientError(r, a)
  PROVE  /\ OthersKept(r) /\ PickKept(r) /\ req' \in [Requests -> RequestType]
         /\ req[r].pc = "send"
         /\ req'[r].tried = Append(req[r].tried, a)
         /\ Retried(r, a) \/ Recorded(r)
<1> DEFINE t == Append(req[r].tried, a)
           q == [req[r] EXCEPT !.tried = Append(@, a)]
           done == [q EXCEPT !.observed = @ + 1]
<1>1. req[r] \in RequestType /\ req[r].pc = "send"
  BY Zenon DEF TypeOK, Response, ClientError
<1>2. q \in RequestType
  BY Zenon, <1>1, FieldUpdates
<1>3. /\ q.tried = t
      /\ q.start = req[r].start /\ q.offset = req[r].offset /\ q.rejected = req[r].rejected
      /\ q.outcome = req[r].outcome /\ q.attempt = req[r].attempt
      /\ q.observed = req[r].observed /\ q.pc = req[r].pc
  <2> HIDE DEF t
  <2>1. q = [req[r] EXCEPT !.tried = t]
    BY DEF t
  <2> HIDE DEF q
  <2> QED
    BY <1>1, <2>1 DEF RequestType
<1>4. Index(q) = Index(req[r])
  BY <1>3 DEF Index
<1> HIDE DEF t, q
<1>5. ASSUME NEW o \in Statuses \cup {"client_error", "exhausted"}, Finish(r, done, o),
             NEW good \in BOOLEAN, Observe(Index(q), good), Remember(Index(q), good)
      PROVE  /\ OthersKept(r) /\ PickKept(r) /\ req' \in [Requests -> RequestType]
             /\ req'[r].tried = t /\ Recorded(r)
  <2> DEFINE p == [done EXCEPT !.pc = "done", !.outcome = o]
  <2>1. done \in RequestType
    BY Zenon, <1>2, FieldUpdates
  <2>2. /\ done.observed = q.observed + 1 /\ done.tried = q.tried /\ done.start = q.start
        /\ done.offset = q.offset /\ done.rejected = q.rejected
    BY <1>2 DEF RequestType
  <2> HIDE DEF done
  <2>3. p \in RequestType
    BY Zenon, <2>1, FieldUpdates DEF Outcomes
  <2>4. /\ p.pc = "done" /\ p.outcome = o /\ p.observed = done.observed
        /\ p.tried = done.tried /\ p.start = done.start
        /\ p.offset = done.offset /\ p.rejected = done.rejected
    BY <2>1 DEF RequestType
  <2>5. req' = [req EXCEPT ![r] = p]
    BY <1>5 DEF Finish
  <2> HIDE DEF p
  <2>6. req' \in [Requests -> RequestType] /\ req'[r] = p /\ OthersKept(r)
    BY <2>3, <2>5 DEF TypeOK, OthersKept
  <2>7. Recorded(r)
    BY <1>3, <1>4, <1>5, <2>2, <2>4, <2>6 DEF Recorded
  <2> QED
    BY <1>3, <2>2, <2>4, <2>6, <2>7 DEF PickKept
<1>6. ASSUME Again(r, q), Repeatable(a)
      PROVE  /\ OthersKept(r) /\ PickKept(r) /\ req' \in [Requests -> RequestType]
             /\ req'[r].tried = t /\ (Retried(r, a) \/ Recorded(r))
  <2>1. CASE q.attempt + 1 < MaxAttempts
    <3> DEFINE p == [q EXCEPT !.attempt = @ + 1]
    <3>1. p \in RequestType
      BY Zenon, <1>2, FieldUpdates
    <3>2. /\ p.pc = q.pc /\ p.outcome = q.outcome /\ p.observed = q.observed
          /\ p.tried = q.tried /\ p.start = q.start /\ p.attempt = q.attempt + 1
          /\ p.offset = q.offset /\ p.rejected = q.rejected
      BY <1>2 DEF RequestType
    <3>3. req' = [req EXCEPT ![r] = p] /\ UNCHANGED <<breakers, history>>
      BY <1>6, <2>1 DEF Again
    <3> HIDE DEF p
    <3>4. req' \in [Requests -> RequestType] /\ req'[r] = p /\ OthersKept(r)
      BY <3>1, <3>3 DEF TypeOK, OthersKept
    <3>5. Retried(r, a)
      BY <1>1, <1>3, <1>6, <2>1, <3>2, <3>3, <3>4 DEF Retried
    <3> QED
      BY <1>3, <3>2, <3>4, <3>5 DEF PickKept
  <2>2. CASE ~(q.attempt + 1 < MaxAttempts)
    BY Zenon, <1>5, <1>6, <2>2 DEF Again
  <2> QED
    BY <2>1, <2>2
<1>7. CASE a \in Statuses /\ Response(r, a)
  <2>1. (a = "ok") = IsSuccess(a)
    BY <1>7 DEF Statuses, IsSuccess
  <2>2. CASE DecideRetry(a, q.attempt) /\ Again(r, q)
    BY <1>1, <1>6, <2>2 DEF DecideRetry, Repeatable, t
  <2>3. CASE Observe(Index(q), IsSuccess(a)) /\ Remember(Index(q), a = "ok") /\ Finish(r, done, a)
    BY Zenon, <1>1, <1>5, <1>7, <2>1, <2>3 DEF t, IsSuccess
  <2> QED
    BY <1>7, <2>2, <2>3 DEF Response, q
<1>8. CASE a \in Errors /\ ClientError(r, a)
  <2>1. CASE RetryError(a, q.attempt) /\ Again(r, q)
    BY <1>1, <1>6, <2>1 DEF RetryError, Repeatable, t
  <2>2. CASE Observe(Index(q), FALSE) /\ Remember(Index(q), FALSE) /\ Finish(r, done, "client_error")
    BY Zenon, <1>1, <1>5, <2>2 DEF t
  <2> QED
    BY Zenon, <1>8, <2>1, <2>2 DEF ClientError, q
<1> QED
  BY <1>7, <1>8

-----------------------------------------------------------------------------
(* Type correctness *)

\* What is recorded keeps the breakers and the history well typed.
LEMMA RecordedType ==
  ASSUME TypeOK, NEW r \in Requests, Recorded(r)
  PROVE  /\ breakers' \in [Addrs -> BreakerType]
         /\ streak' \in [Addrs -> Nat]
         /\ lastFail' \in [Addrs -> Nat]
         /\ exposed' \in [Addrs -> SUBSET Requests]
<1>1. PICK good \in BOOLEAN : Observe(Index(req[r]), good) /\ Remember(Index(req[r]), good)
  BY DEF Recorded
<1>2. Index(req[r]) \in Addrs
  BY IndexInAddrs
<1>3. breakers' \in [Addrs -> BreakerType]
  BY <1>1, <1>2, BreakerOpsType DEF TypeOK, Observe
<1>4. streak' \in [Addrs -> Nat] /\ lastFail' \in [Addrs -> Nat]
  BY <1>1, <1>2 DEF TypeOK, Remember
<1>5. exposed' \in [Addrs -> SUBSET Requests]
  BY <1>1, <1>2 DEF TypeOK, Remember, UnderWay, LookingAt
<1> QED
  BY <1>3, <1>4, <1>5

\* TypeOK is inductive.
LEMMA UpstreamTypeStep == TypeOK /\ [Next]_vars => TypeOK'
<1> SUFFICES ASSUME TypeOK, [Next]_vars PROVE TypeOK'
  OBVIOUS
<1>1. CASE Tick
  BY <1>1 DEF Tick, TypeOK, history
<1>2. CASE Quiescent \/ UNCHANGED vars
  BY <1>2 DEF Quiescent, vars, TypeOK
<1>3. ASSUME NEW r \in Requests, Begin(r) PROVE TypeOK'
  <2>1. req' \in [Requests -> RequestType]
    BY <1>3, BeginEffect
  <2> QED
    BY <1>3, <2>1 DEF Begin, TypeOK, history
<1>4. ASSUME NEW r \in Requests, Scan(r) PROVE TypeOK'
  <2>1. req' \in [Requests -> RequestType]
    BY <1>4, ScanEffect
  <2> QED
    BY <1>4, <2>1 DEF Scan, TypeOK, history
<1>5. ASSUME NEW r \in Requests, CollectBody(r) \/ BodyError(r) \/ TotalTimeout(r)
      PROVE  TypeOK'
  <2>1. req' \in [Requests -> RequestType]
    BY <1>5, AwaitEffect
  <2> QED
    BY <1>5, <2>1 DEF CollectBody, BodyError, TotalTimeout, TypeOK, history
<1>6. ASSUME NEW r \in Requests, NEW a \in Statuses \cup Errors,
             \/ a \in Statuses /\ Response(r, a)
             \/ a \in Errors /\ ClientError(r, a)
      PROVE  TypeOK'
  <2>1. req' \in [Requests -> RequestType] /\ (Retried(r, a) \/ Recorded(r))
    BY <1>6, AttemptEffect
  <2>2. UNCHANGED <<next, now>>
    BY Zenon, <1>6 DEF Response, ClientError
  <2>3. CASE Retried(r, a)
    BY <2>1, <2>2, <2>3 DEF Retried, TypeOK, history
  <2>4. CASE Recorded(r)
    BY <2>1, <2>2, <2>4, RecordedType DEF TypeOK
  <2> QED
    BY <2>1, <2>3, <2>4
<1> QED
  BY <1>1, <1>2, <1>3, <1>4, <1>5, <1>6 DEF Next, RequestStep

\* The initial state is well typed.
LEMMA UpstreamInit == Init => TypeOK
<1>1. NewRequest \in RequestType
  BY UpstreamAssumption DEF RequestType, NewRequest, Addrs, Outcomes
<1>2. NewBreaker \in BreakerType
  BY BreakerOpsAssumption DEF NewBreaker, BreakerType
<1> QED
  BY <1>1, <1>2 DEF Init, TypeOK

\* The counter, the breakers and every request's local state keep their types;
\* in particular a scan never leaves the address list.
THEOREM UpstreamTypeCorrect == Spec => []TypeOK
BY UpstreamInit, UpstreamTypeStep, PTL DEF Spec

-----------------------------------------------------------------------------
(* What a forward may send and record *)

\* Before its body is collected a forward has sent nothing; while it sends, the
\* attempt counter is the number of attempts that came back and each of them
\* may be repeated; nothing is recorded before the forward ends.
GoodForward(q) ==
  /\ q.pc # "done" => q.outcome = "none" /\ q.observed = 0
  /\ q.pc \in {"new", "scan", "body"} => q.tried = <<>> /\ q.attempt = 0
  /\ q.pc = "send" => /\ q.attempt = Len(q.tried)
                      /\ q.attempt < MaxAttempts
                      /\ \A k \in 1..Len(q.tried) : Repeatable(q.tried[k])
  /\ q.pc = "done" => /\ Len(q.tried) <= MaxAttempts
                      /\ \A k \in 1..(Len(q.tried) - 1) : Repeatable(q.tried[k])
  /\ q.observed = IF q.outcome \in Statuses \cup {"client_error", "exhausted"}
                  THEN 1 ELSE 0

ForwardInv == \A r \in Requests : GoodForward(req[r])

\* ForwardInv is inductive relative to TypeOK.
LEMMA ForwardStep == TypeOK /\ ForwardInv /\ [Next]_vars => ForwardInv'
<1> SUFFICES ASSUME TypeOK, ForwardInv, [Next]_vars PROVE ForwardInv'
  OBVIOUS
<1>0. MaxAttempts \in Nat /\ MaxAttempts >= 1
  BY UpstreamAssumption DEF MaxAttempts
<1>a. ASSUME NEW r \in Requests, OthersKept(r), GoodForward(req'[r]) PROVE ForwardInv'
  BY <1>a DEF OthersKept, ForwardInv
<1>b. \A s \in Requests : /\ req[s].tried \in Seq(Statuses \cup Errors)
                          /\ Len(req[s].tried) \in Nat
                          /\ req[s].pc \in {"new", "scan", "body", "send", "done"}
  BY DEF TypeOK, RequestType
<1>1. CASE Tick \/ Quiescent \/ UNCHANGED vars
  BY <1>1 DEF Tick, Quiescent, vars, ForwardInv
<1>2. ASSUME NEW r \in Requests, Begin(r) PROVE ForwardInv'
  <2>1. GoodForward(req'[r])
    BY <1>2, BeginEffect DEF LoopKept, ForwardInv, GoodForward
  <2> QED
    BY <1>2, <1>a, <2>1, BeginEffect
<1>3. ASSUME NEW r \in Requests, Scan(r) PROVE ForwardInv'
  <2>1. GoodForward(req'[r])
    BY <1>0, <1>3, ScanEffect DEF LoopKept, Statuses, ForwardInv, GoodForward
  <2> QED
    BY <1>3, <1>a, <2>1, ScanEffect
<1>4. ASSUME NEW r \in Requests, CollectBody(r) \/ BodyError(r) \/ TotalTimeout(r)
      PROVE  ForwardInv'
  <2>1. GoodForward(req'[r])
    BY <1>0, <1>4, <1>b, AwaitEffect DEF LoopKept, Statuses, Awaits, ForwardInv, GoodForward
  <2> QED
    BY <1>4, <1>a, <2>1, AwaitEffect
<1>5. ASSUME NEW r \in Requests, NEW a \in Statuses \cup Errors,
             \/ a \in Statuses /\ Response(r, a)
             \/ a \in Errors /\ ClientError(r, a)
      PROVE  ForwardInv'
  <2>1. GoodForward(req'[r])
    <3>1. /\ req[r].pc = "send" /\ req'[r].tried = Append(req[r].tried, a)
          /\ Retried(r, a) \/ Recorded(r)
      BY <1>5, AttemptEffect
    <3>2. /\ Len(req'[r].tried) = Len(req[r].tried) + 1
          /\ \A k \in 1..Len(req[r].tried) : req'[r].tried[k] = req[r].tried[k]
          /\ req'[r].tried[Len(req[r].tried) + 1] = a
      BY <1>b, <3>1
    <3>3. CASE Retried(r, a)
      BY <1>0, <1>b, <3>1, <3>2, <3>3, SMTT(30) DEF Retried, ForwardInv, GoodForward
    <3>4. CASE Recorded(r)
      BY <1>0, <1>b, <3>1, <3>2, <3>4, SMTT(60) DEF Recorded, ForwardInv, GoodForward
    <3> QED
      BY <3>1, <3>3, <3>4
  <2> QED
    BY <1>5, <1>a, <2>1, AttemptEffect
<1> QED
  BY <1>1, <1>2, <1>3, <1>4, <1>5 DEF Next, RequestStep

\* ForwardInv holds in every state.
LEMMA ForwardCorrect == Spec => []ForwardInv
<1>1. Init => ForwardInv
  BY UpstreamAssumption DEF Init, ForwardInv, GoodForward, NewRequest, Statuses
<1> QED
  BY <1>1, ForwardStep, UpstreamTypeCorrect, PTL DEF Spec

\* However requests interleave, forward never sends more than max(attempts, 1)
\* times and repeats only what the policy allows it to repeat.
THEOREM RetriesCorrect == Spec => []RetriesWithinPolicy
<1>1. TypeOK /\ ForwardInv => RetriesWithinPolicy
  <2> SUFFICES ASSUME TypeOK, ForwardInv, NEW r \in Requests
               PROVE  LET q == req[r]
                          sent == Len(q.tried) + (IF q.pc = "send" THEN 1 ELSE 0)
                      IN  /\ sent <= MaxAttempts
                          /\ \A k \in 1..(sent - 1) : Repeatable(q.tried[k])
    BY Zenon DEF RetriesWithinPolicy
  <2>1. /\ GoodForward(req[r])
        /\ Len(req[r].tried) \in Nat
        /\ req[r].pc \in {"new", "scan", "body", "send", "done"}
    BY DEF TypeOK, RequestType, ForwardInv
  <2>2. MaxAttempts \in Nat /\ MaxAttempts >= 1 /\ Len(<<>>) = 0
    BY UpstreamAssumption DEF MaxAttempts
  <2>3. CASE req[r].pc = "send"
    BY <2>1, <2>2, <2>3 DEF GoodForward
  <2>4. CASE req[r].pc = "done"
    BY <2>1, <2>2, <2>4 DEF GoodForward
  <2>5. CASE req[r].pc \in {"new", "scan", "body"}
    <3>1. Len(req[r].tried) = 0 /\ req[r].pc # "send"
      BY <2>1, <2>2, <2>5 DEF GoodForward
    <3> QED
      BY <2>2, <3>1
  <2> QED
    BY Zenon, <2>1, <2>3, <2>4, <2>5
<1> QED
  BY <1>1, UpstreamTypeCorrect, ForwardCorrect, PTL

\* A forward records exactly one outcome when its last attempt answered or
\* failed, and none when it was rejected, dropped or failed on its own body.
THEOREM OutcomeCorrect == Spec => []OneOutcomePerForward
<1>1. ForwardInv => OneOutcomePerForward
  BY DEF ForwardInv, GoodForward, OneOutcomePerForward
<1> QED
  BY <1>1, ForwardCorrect, PTL

-----------------------------------------------------------------------------
(* The scan *)

\* A scan has been turned away by every address before the one it is at; a
\* request that was never turned away is at the address the counter gave it.
GoodScan(q) ==
  /\ q.pc = "new" => q.offset = 0 /\ q.rejected = {}
  /\ q.rejected = {} => q.offset = 0
  /\ q.pc = "scan" => \A k \in Addrs : k < q.offset => (q.start + k) % N \in q.rejected
  /\ q.outcome = "breaker_open" => q.rejected = Addrs /\ q.tried = <<>>

ScanInv == \A r \in Requests : GoodScan(req[r])

\* ScanInv is inductive relative to TypeOK and ForwardInv.
LEMMA ScanStep == TypeOK /\ ForwardInv /\ ScanInv /\ [Next]_vars => ScanInv'
<1> SUFFICES ASSUME TypeOK, ForwardInv, ScanInv, [Next]_vars PROVE ScanInv'
  OBVIOUS
<1>0. \A s \in Requests :
        /\ GoodScan(req[s]) /\ GoodForward(req[s])
        /\ req[s].start \in Nat /\ req[s].offset \in Addrs /\ req[s].rejected \subseteq Addrs
  BY DEF ScanInv, ForwardInv, TypeOK, RequestType
<1>a. ASSUME NEW r \in Requests, OthersKept(r), GoodScan(req'[r]) PROVE ScanInv'
  BY <1>a DEF OthersKept, ScanInv
<1>1. CASE Tick \/ Quiescent \/ UNCHANGED vars
  BY <1>1 DEF Tick, Quiescent, vars, ScanInv
<1>2. ASSUME NEW r \in Requests, Begin(r) PROVE ScanInv'
  <2>1. GoodScan(req'[r])
    BY <1>0, <1>2, BeginEffect DEF LoopKept, GoodScan, GoodForward, Addrs
  <2> QED
    BY <1>2, <1>a, <2>1, BeginEffect
<1>3. ASSUME NEW r \in Requests, Scan(r) PROVE ScanInv'
  <2>1. req'[r].pc = "body" => GoodScan(req'[r])
    BY <1>0, <1>3, ScanEffect, SMTT(30) DEF LoopKept, PickKept, GoodScan, GoodForward
  <2>2. ASSUME req'[r].pc \in {"scan", "done"}
        PROVE  \A k \in Addrs : k <= req[r].offset => (req[r].start + k) % N \in req'[r].rejected
    <3> SUFFICES ASSUME NEW k \in Addrs, k <= req[r].offset
                 PROVE  (req[r].start + k) % N \in req'[r].rejected
      OBVIOUS
    <3>1. req'[r].rejected = req[r].rejected \cup {Index(req[r])} /\ req[r].pc = "scan"
      BY <1>3, <2>2, ScanEffect
    <3>2. CASE k = req[r].offset
      BY <3>1, <3>2 DEF Index
    <3>3. CASE k < req[r].offset
      BY <1>0, <3>1, <3>3 DEF GoodScan
    <3> QED
      BY <1>0, <3>2, <3>3 DEF Addrs
  <2>3. ASSUME req'[r].pc = "scan" PROVE GoodScan(req'[r])
    <3>1. req'[r].rejected # {} /\ req'[r].start = req[r].start
      BY ZenonT(30), <1>3, <2>3, ScanEffect
    <3>2. \A k \in Addrs : k < req'[r].offset => k <= req[r].offset
      BY <1>0, <1>3, <2>3, ScanEffect, UpstreamAssumption, SMTT(30) DEF Addrs
    <3>3. req'[r].outcome = "none"
      BY <1>0, <1>3, <2>3, ScanEffect DEF GoodForward
    <3> QED
      BY <2>2, <2>3, <3>1, <3>2, <3>3 DEF GoodScan
  <2>4. ASSUME req'[r].pc = "done" PROVE GoodScan(req'[r])
    <3>1. req'[r].rejected \subseteq Addrs
      BY <1>3, ScanEffect DEF RequestType
    <3>2. req[r].offset = N - 1
      BY <1>3, <2>4, ScanEffect DEF LastOffset
    <3>3. Addrs \subseteq req'[r].rejected
      <4> SUFFICES ASSUME NEW i \in Addrs PROVE i \in req'[r].rejected
        OBVIOUS
      <4>1. PICK k \in Addrs : (req[r].start + k) % N = i
        BY <1>0, ModReaches
      <4>2. k <= req[r].offset
        BY <3>2, UpstreamAssumption, SMTT(30) DEF Addrs
      <4> QED
        BY <2>2, <2>4, <4>1, <4>2
    <3>4. req'[r].tried = <<>> /\ 0 \in Addrs
      BY <1>0, <1>3, ScanEffect, UpstreamAssumption, SMTT(30) DEF LoopKept, GoodForward, Addrs
    <3> QED
      BY Zenon, <2>4, <3>1, <3>3, <3>4 DEF GoodScan
  <2>5. GoodScan(req'[r])
    BY <1>3, <2>1, <2>3, <2>4, ScanEffect
  <2> QED
    BY <1>3, <1>a, <2>5, ScanEffect, SMTT(30)
<1>4. ASSUME NEW r \in Requests, CollectBody(r) \/ BodyError(r) \/ TotalTimeout(r)
      PROVE  ScanInv'
  <2>1. GoodScan(req'[r])
    BY <1>0, <1>4, AwaitEffect DEF PickKept, GoodScan, GoodForward, Awaits
  <2> QED
    BY <1>4, <1>a, <2>1, AwaitEffect, SMTT(30)
<1>5. ASSUME NEW r \in Requests, NEW a \in Statuses \cup Errors,
             \/ a \in Statuses /\ Response(r, a)
             \/ a \in Errors /\ ClientError(r, a)
      PROVE  ScanInv'
  <2>1. GoodScan(req'[r])
    BY <1>0, <1>5, AttemptEffect
    DEF PickKept, Retried, Recorded, GoodScan, GoodForward, Statuses
  <2> QED
    BY <1>5, <1>a, <2>1, AttemptEffect, SMTT(30)
<1> QED
  BY <1>1, <1>2, <1>3, <1>4, <1>5 DEF Next, RequestStep

\* ScanInv holds in every state.
LEMMA ScanCorrect == Spec => []ScanInv
<1>1. Init => ScanInv
  BY UpstreamAssumption DEF Init, ScanInv, GoodScan, NewRequest, Addrs
<1> QED
  BY <1>1, ScanStep, ForwardCorrect, UpstreamTypeCorrect, PTL DEF Spec

\* A request is answered with BreakerOpen only after every backend's breaker,
\* however many there are, turned it away; and then nothing was sent.
THEOREM RejectionCorrect == Spec => []RejectedByEveryBackend
<1>1. ScanInv => RejectedByEveryBackend
  BY DEF ScanInv, GoodScan, RejectedByEveryBackend
<1> QED
  BY <1>1, ScanCorrect, PTL

-----------------------------------------------------------------------------
(* The round robin *)

\* The requests that were given backend i.
Given(i) == {r \in Requests : req[r].pc # "new" /\ Index(req[r]) = i}

\* While no breaker has turned a request away each backend has been given one
\* request per full round of the counter, and those before the counter's
\* position one more.  RoundRobinEven alone is not inductive: it does not say
\* which backends are one ahead.
RoundInv ==
  (\A r \in Requests : req[r].rejected = {}) =>
    \A i \in Addrs :
      /\ IsFiniteSet(Given(i))
      /\ GivenTo(i) = (next \div N) + (IF i < next % N THEN 1 ELSE 0)

\* RoundInv is inductive relative to TypeOK and ScanInv.
LEMMA RoundStep == TypeOK /\ ScanInv /\ RoundInv /\ [Next]_vars => RoundInv'
<1> SUFFICES ASSUME TypeOK, ScanInv, RoundInv, [Next]_vars,
                    \A r \in Requests : req'[r].rejected = {},
                    NEW i \in Addrs
             PROVE  /\ IsFiniteSet(Given(i)')
                    /\ GivenTo(i)' = (next' \div N) + (IF i < next' % N THEN 1 ELSE 0)
  BY Zenon DEF RoundInv, Given
<1>a. GivenTo(i) = Cardinality(Given(i)) /\ GivenTo(i)' = Cardinality(Given(i)')
  BY DEF GivenTo, Given
<1>b. ASSUME \A s \in Requests : req[s].rejected = {}
      PROVE  /\ IsFiniteSet(Given(i))
             /\ Cardinality(Given(i)) = (next \div N) + (IF i < next % N THEN 1 ELSE 0)
  BY <1>a, <1>b DEF RoundInv
\* A step after Begin moves no request to another backend and forgets none.
<1>c. ASSUME UNCHANGED next,
             \A s \in Requests : /\ req[s].rejected \subseteq req'[s].rejected
                                 /\ req'[s].pc = "new" <=> req[s].pc = "new"
                                 /\ req'[s].start = req[s].start
                                 /\ req'[s].offset = req[s].offset
      PROVE  /\ IsFiniteSet(Given(i)')
             /\ GivenTo(i)' = (next' \div N) + (IF i < next' % N THEN 1 ELSE 0)
  <2>1. Given(i)' = Given(i)
    BY <1>c DEF Given, Index
  <2>2. \A s \in Requests : req[s].rejected = {}
    BY <1>c
  <2> QED
    BY <1>a, <1>b, <1>c, <2>1, <2>2
<1>1. CASE Tick \/ Quiescent \/ UNCHANGED vars
  BY <1>1, <1>c DEF Tick, Quiescent, vars
<1>2. ASSUME NEW r \in Requests, Begin(r)
      PROVE  /\ IsFiniteSet(Given(i)')
             /\ GivenTo(i)' = (next' \div N) + (IF i < next' % N THEN 1 ELSE 0)
  <2>1. next' = next + 1 /\ next \in Nat
    BY <1>2 DEF Begin, TypeOK
  <2>2. \A s \in Requests : req[s].rejected = {}
    BY <1>2, BeginEffect DEF OthersKept
  <2>3. r \notin Given(i) /\ req[r].pc = "new"
    BY <1>2, BeginEffect DEF Given
  <2>4. req'[r].pc = "scan" /\ Index(req'[r]) = next % N
    BY <1>2, <2>1, BeginEffect DEF Index, ScanInv, GoodScan
  <2>5. Given(i)' = IF next % N = i THEN Given(i) \cup {r} ELSE Given(i)
    BY <1>2, <2>3, <2>4, BeginEffect DEF Given, OthersKept
  <2>6. IsFiniteSet(Given(i)) /\ Cardinality(Given(i)) \in Nat
    BY <1>b, <2>2, FS_CardinalityType
  <2>7. /\ IsFiniteSet(Given(i)')
        /\ Cardinality(Given(i)') = Cardinality(Given(i)) + (IF next % N = i THEN 1 ELSE 0)
    <3>1. CASE next % N = i
      BY <2>3, <2>5, <2>6, <3>1, FS_AddElement
    <3>2. CASE next % N # i
      BY <2>5, <2>6, <3>2
    <3> QED
      BY <3>1, <3>2
  <2>8. /\ next % N \in Addrs /\ next \div N \in Nat
        /\ IF next % N = N - 1 THEN next' % N = 0 /\ next' \div N = (next \div N) + 1
           ELSE next' % N = (next % N) + 1 /\ next' \div N = next \div N
    BY <2>1, ModNext, DivMod
  <2> QED
    BY <1>a, <1>b, <2>2, <2>7, <2>8, UpstreamAssumption DEF Addrs
<1>3. ASSUME NEW r \in Requests, Scan(r)
      PROVE  /\ IsFiniteSet(Given(i)')
             /\ GivenTo(i)' = (next' \div N) + (IF i < next' % N THEN 1 ELSE 0)
  <2>1. req'[r].pc = "body" /\ PickKept(r)
    BY <1>3, ScanEffect
  <2> QED
    BY Zenon, <1>3, <1>c, <2>1, ScanEffect DEF OthersKept, PickKept, Scan
<1>4. ASSUME NEW r \in Requests, CollectBody(r) \/ BodyError(r) \/ TotalTimeout(r)
      PROVE  /\ IsFiniteSet(Given(i)')
             /\ GivenTo(i)' = (next' \div N) + (IF i < next' % N THEN 1 ELSE 0)
  BY <1>4, <1>c, AwaitEffect, SMTT(30)
  DEF OthersKept, PickKept, CollectBody, BodyError, TotalTimeout, Awaits
<1>5. ASSUME NEW r \in Requests, NEW a \in Statuses \cup Errors,
             \/ a \in Statuses /\ Response(r, a)
             \/ a \in Errors /\ ClientError(r, a)
      PROVE  /\ IsFiniteSet(Given(i)')
             /\ GivenTo(i)' = (next' \div N) + (IF i < next' % N THEN 1 ELSE 0)
  <2>1. UNCHANGED next
    BY Zenon, <1>5 DEF Response, ClientError
  <2> QED
    BY <1>5, <1>c, <2>1, AttemptEffect DEF OthersKept, PickKept, Retried, Recorded
<1> QED
  BY <1>1, <1>2, <1>3, <1>4, <1>5 DEF Next, RequestStep

\* As long as no breaker turns a request away the round robin is even at every
\* moment, for any number of requests and backends: concurrent requests never
\* leave two backends more than one request apart.
THEOREM RoundRobinCorrect == Spec => []RoundRobinEven
<1>1. Init => RoundInv
  <2> SUFFICES ASSUME Init, NEW i \in Addrs
               PROVE  /\ IsFiniteSet(Given(i))
                      /\ GivenTo(i) = (next \div N) + (IF i < next % N THEN 1 ELSE 0)
    BY DEF RoundInv
  <2>1. Given(i) = {} /\ GivenTo(i) = Cardinality(Given(i))
    BY DEF Init, NewRequest, Given, GivenTo
  <2>2. 0 % N = 0 /\ 0 \div N = 0
    BY UpstreamAssumption
  <2>3. next = 0
    BY DEF Init
  <2> QED
    BY <2>1, <2>2, <2>3, FS_EmptySet, UpstreamAssumption DEF Addrs
<1>2. TypeOK /\ RoundInv => RoundRobinEven
  <2> SUFFICES ASSUME TypeOK, RoundInv, \A r \in Requests : req[r].rejected = {},
                      NEW i \in Addrs, NEW j \in Addrs
               PROVE  GivenTo(i) <= GivenTo(j) + 1
    BY DEF RoundRobinEven
  <2>1. next \div N \in Nat /\ next % N \in Addrs
    BY DivMod DEF TypeOK
  <2> QED
    BY <2>1 DEF RoundInv
<1> QED
  BY <1>1, <1>2, RoundStep, ScanCorrect, UpstreamTypeCorrect, PTL DEF Spec

-----------------------------------------------------------------------------
(* The breakers *)

\* A step leaves the breakers alone or tells one of them one outcome, which the
\* history records.
LEMMA BreakerSteps ==
  ASSUME TypeOK, [Next]_vars
  PROVE  \/ UNCHANGED <<breakers, streak, lastFail>>
         \/ \E i \in Addrs, good \in BOOLEAN : Observe(i, good) /\ Remember(i, good)
<1>1. ASSUME NEW r \in Requests, NEW a \in Statuses \cup Errors,
             \/ a \in Statuses /\ Response(r, a)
             \/ a \in Errors /\ ClientError(r, a)
      PROVE  \/ UNCHANGED <<breakers, streak, lastFail>>
             \/ \E i \in Addrs, good \in BOOLEAN : Observe(i, good) /\ Remember(i, good)
  <2>1. Retried(r, a) \/ Recorded(r)
    BY <1>1, AttemptEffect
  <2>2. Index(req[r]) \in Addrs
    BY IndexInAddrs
  <2> QED
    BY <2>1, <2>2 DEF Retried, Recorded, history
<1> QED
  BY Zenon, <1>1
  DEF Next, RequestStep, vars, history, Tick, Quiescent, Begin, Scan, CollectBody, BodyError,
      TotalTimeout

\* A breaker that is enabled counts the failures its backend returned since its
\* last success, and past the threshold its deadline is one cooldown after the
\* last of them, until the count wraps.
StreakInv ==
  Threshold > 0 => \A i \in Addrs : streak[i] <= CounterMax =>
    /\ breakers[i].failures = streak[i]
    /\ streak[i] >= Threshold => breakers[i].open_until = lastFail[i] + Cooldown

\* StreakInv is inductive relative to TypeOK.
LEMMA StreakStep == TypeOK /\ StreakInv /\ [Next]_vars => StreakInv'
<1> SUFFICES ASSUME TypeOK, StreakInv, Threshold > 0, [Next]_vars PROVE StreakInv'
  BY DEF StreakInv
<1>1. CASE UNCHANGED <<breakers, streak, lastFail>>
  BY <1>1 DEF StreakInv
<1>2. ASSUME NEW i \in Addrs, Observe(i, TRUE), Remember(i, TRUE) PROVE StreakInv'
  BY <1>2, BreakerOpsAssumption
  DEF TypeOK, BreakerType, StreakInv, Observe, Remember, OnSuccess, NewBreaker
<1>3. ASSUME NEW i \in Addrs, Observe(i, FALSE), Remember(i, FALSE) PROVE StreakInv'
  BY <1>3, BreakerOpsAssumption
  DEF TypeOK, BreakerType, StreakInv, Observe, Remember, OnFailure, FetchAdd, SaturatingAdd
<1> QED
  BY Zenon, <1>1, <1>2, <1>3, BreakerSteps

\* A backend whose last Threshold or more outcomes were failures is skipped by
\* pick_addr until one cooldown after the last of them.
THEOREM RotationCorrect == Spec => []FailuresRotateOut
<1>1. Init => StreakInv
  BY BreakerOpsAssumption DEF Init, StreakInv, NewBreaker
<1>2. TypeOK /\ StreakInv => FailuresRotateOut
  BY BreakerOpsAssumption
  DEF TypeOK, BreakerType, StreakInv, FailuresRotateOut, Rejects, Tripped
<1> QED
  BY <1>1, <1>2, StreakStep, UpstreamTypeCorrect, PTL DEF Spec

\* A request that is with a backend after a step of r was with it before, if r
\* was or is not now.
LEMMA UnderWayShrinks ==
  ASSUME NEW r \in Requests, OthersKept(r), NEW i \in Addrs,
         req'[r].pc \in {"body", "send"} => req[r].pc \in {"body", "send"} /\ PickKept(r)
  PROVE  UnderWay(i)' \subseteq UnderWay(i)
BY DEF OthersKept, PickKept, UnderWay, Index

\* OpenBackendLeftAlone is inductive relative to TypeOK: pick_addr adds a request
\* only to a backend whose breaker lets it pass, and a breaker comes to reject
\* only by a failure, which takes down who is there.
LEMMA AloneStep == TypeOK /\ OpenBackendLeftAlone /\ [Next]_vars => OpenBackendLeftAlone'
<1> SUFFICES ASSUME TypeOK, OpenBackendLeftAlone, [Next]_vars, NEW i \in Addrs,
                    Rejects(breakers'[i], now')
             PROVE  UnderWay(i)' \subseteq exposed'[i]
  BY DEF OpenBackendLeftAlone
<1>a. ASSUME UNCHANGED <<breakers, now, history>>, UnderWay(i)' \subseteq UnderWay(i)
      PROVE  UnderWay(i)' \subseteq exposed'[i]
  BY <1>a DEF OpenBackendLeftAlone, history
<1>1. CASE Tick
  <2>1. Rejects(breakers[i], now)
    BY <1>1 DEF Tick, TypeOK, BreakerType, Rejects
  <2>2. UnderWay(i)' = UnderWay(i) /\ exposed' = exposed
    BY <1>1 DEF Tick, UnderWay, Index, history
  <2> QED
    BY <2>1, <2>2 DEF OpenBackendLeftAlone
<1>2. CASE Quiescent \/ UNCHANGED vars
  <2>1. UnderWay(i)' = UnderWay(i)
    BY <1>2 DEF Quiescent, vars, UnderWay, Index
  <2> QED
    BY <1>2, <1>a, <2>1 DEF Quiescent, vars, history
<1>3. ASSUME NEW r \in Requests, Begin(r) PROVE UnderWay(i)' \subseteq exposed'[i]
  <2>1. UnderWay(i)' \subseteq UnderWay(i)
    BY <1>3, BeginEffect, UnderWayShrinks
  <2> QED
    BY <1>3, <1>a, <2>1 DEF Begin
<1>4. ASSUME NEW r \in Requests, Scan(r) PROVE UnderWay(i)' \subseteq exposed'[i]
  <2>1. UNCHANGED <<breakers, now, history>>
    BY <1>4 DEF Scan
  <2>2. CASE req'[r].pc = "body"
    <3>1. OthersKept(r) /\ PickKept(r) /\ ~Rejects(breakers[Index(req[r])], now)
      BY <1>4, <2>2, ScanEffect
    <3>2. Index(req[r]) # i /\ Index(req'[r]) = Index(req[r])
      BY <2>1, <3>1 DEF PickKept, Index
    <3>3. UnderWay(i)' \subseteq UnderWay(i)
      BY <3>1, <3>2, SMTT(30) DEF OthersKept, UnderWay, Index
    <3> QED
      BY <1>a, <2>1, <3>3
  <2>3. CASE req'[r].pc # "body"
    <3>1. UnderWay(i)' \subseteq UnderWay(i)
      BY <1>4, <2>3, ScanEffect, UnderWayShrinks
    <3> QED
      BY <1>a, <2>1, <3>1
  <2> QED
    BY <2>2, <2>3
<1>5. ASSUME NEW r \in Requests, CollectBody(r) \/ BodyError(r) \/ TotalTimeout(r)
      PROVE  UnderWay(i)' \subseteq exposed'[i]
  <2>1. UnderWay(i)' \subseteq UnderWay(i)
    BY <1>5, AwaitEffect, UnderWayShrinks, SMTT(30)
  <2> QED
    BY <1>5, <1>a, <2>1, SMTT(30) DEF CollectBody, BodyError, TotalTimeout
<1>6. ASSUME NEW r \in Requests, NEW a \in Statuses \cup Errors,
             \/ a \in Statuses /\ Response(r, a)
             \/ a \in Errors /\ ClientError(r, a)
      PROVE  UnderWay(i)' \subseteq exposed'[i]
  <2>1. UnderWay(i)' \subseteq UnderWay(i)
    BY <1>6, AttemptEffect, UnderWayShrinks
  <2>2. UNCHANGED now
    BY Zenon, <1>6 DEF Response, ClientError
  <2>3. CASE Retried(r, a)
    BY <1>a, <2>1, <2>2, <2>3 DEF Retried
  <2>4. CASE Recorded(r)
    <3>1. PICK good \in BOOLEAN : Observe(Index(req[r]), good) /\ Remember(Index(req[r]), good)
      BY <2>4 DEF Recorded
    <3>2. CASE i # Index(req[r])
      <4>1. breakers'[i] = breakers[i] /\ exposed'[i] = exposed[i]
        BY <3>1, <3>2 DEF TypeOK, Observe, Remember
      <4> QED
        BY <2>1, <2>2, <4>1 DEF OpenBackendLeftAlone
    <3>3. CASE i = Index(req[r]) /\ good
      <4>1. breakers'[i] = OnSuccess(breakers[i])
        BY <3>1, <3>3 DEF TypeOK, Observe
      <4>2. ~Tripped(OnSuccess(breakers[i]))
        BY BreakerOpsAssumption DEF Tripped, OnSuccess, NewBreaker
      <4> QED
        BY <4>1, <4>2 DEF Rejects
    <3>4. CASE i = Index(req[r]) /\ ~good
      <4>1. exposed'[i] = UnderWay(i) \cup LookingAt(i)
        BY <3>1, <3>4 DEF TypeOK, Remember
      <4> QED
        BY <2>1, <4>1
    <3> QED
      BY <3>2, <3>3, <3>4
  <2> QED
    BY <1>6, <2>3, <2>4, AttemptEffect, SMTT(30)
<1> QED
  BY <1>1, <1>2, <1>3, <1>4, <1>5, <1>6 DEF Next, RequestStep

\* An open breaker's backend is given no request: those with it were there at the
\* failure that opened the breaker, however requests interleave.
THEOREM AloneCorrect == Spec => []OpenBackendLeftAlone
<1>1. Init => OpenBackendLeftAlone
  BY DEF Init, OpenBackendLeftAlone, UnderWay, NewRequest
<1> QED
  BY <1>1, AloneStep, UpstreamTypeCorrect, PTL DEF Spec

-----------------------------------------------------------------------------
(* How much work a forward is *)

\* What is left of a forward: the addresses still to be scanned, the body and the
\* attempts.
Left(q) ==
  CASE q.pc = "new" -> N + MaxAttempts + 2
    [] q.pc = "scan" -> (N - q.offset) + MaxAttempts + 1
    [] q.pc = "body" -> MaxAttempts + 1
    [] q.pc = "send" -> MaxAttempts - q.attempt
    [] OTHER -> 0

\* Every step of a forward leaves less to do, and no step of another request adds
\* to it: each takes at most one step per backend, one per attempt and two more,
\* so that only an await can keep it.
BoundedWork ==
  [][\A r \in Requests :
       req'[r] # req[r] => Left(req[r]) \in 1..(N + MaxAttempts + 2) /\ Left(req'[r]) \in 0..(Left(req[r]) - 1)]_vars

\* However requests interleave, forward never scans or sends without end.  This is
\* the part of EveryRequestEnds that does not depend on fairness.
THEOREM WorkCorrect == Spec => BoundedWork
<1>1. ASSUME TypeOK, ForwardInv, ScanInv, [Next]_vars, NEW s \in Requests, req'[s] # req[s]
      PROVE  Left(req[s]) \in 1..(N + MaxAttempts + 2) /\ Left(req'[s]) \in 0..(Left(req[s]) - 1)
  <2> DEFINE Less == Left(req[s]) \in 1..(N + MaxAttempts + 2) /\ Left(req'[s]) \in 0..(Left(req[s]) - 1)
  <2>1. /\ MaxAttempts \in Nat /\ MaxAttempts >= 1 /\ N \in Nat /\ N >= 1
        /\ req[s].attempt \in Nat /\ req[s].offset \in 0..(N - 1)
        /\ GoodForward(req[s]) /\ GoodScan(req[s])
    BY <1>1, UpstreamAssumption DEF MaxAttempts, TypeOK, RequestType, Addrs, ForwardInv, ScanInv
  <2>2. ASSUME NEW r \in Requests, OthersKept(r) PROVE s = r
    BY <1>1, <2>2 DEF OthersKept
  <2>3. ~(Tick \/ Quiescent \/ UNCHANGED vars)
    BY <1>1 DEF Tick, Quiescent, vars
  <2>4. ASSUME NEW r \in Requests, Begin(r) PROVE Less
    <3>1. /\ s = r /\ req[s].pc = "new" /\ req'[s].pc = "scan" /\ req'[s].offset = 0
      BY <1>1, <2>1, <2>2, <2>4, BeginEffect DEF GoodScan
    <3>2. Left(req[s]) = N + MaxAttempts + 2 /\ Left(req'[s]) = (N - 0) + MaxAttempts + 1
      BY <3>1 DEF Left
    <3> QED
      BY <2>1, <3>2, SMTT(30)
  <2>5. ASSUME NEW r \in Requests, Scan(r) PROVE Less
    <3>1. /\ s = r /\ req[s].pc = "scan"
          /\ \/ req'[s].pc = "body"
             \/ req'[s].pc = "scan" /\ req[s].offset < N - 1 /\ req'[s].offset = req[s].offset + 1
             \/ req'[s].pc = "done"
      BY <1>1, <2>2, <2>5, ScanEffect DEF LastOffset
    <3>2. /\ Left(req[s]) = (N - req[s].offset) + MaxAttempts + 1
          /\ \/ Left(req'[s]) = MaxAttempts + 1
             \/ req[s].offset < N - 1 /\ Left(req'[s]) = (N - (req[s].offset + 1)) + MaxAttempts + 1
             \/ Left(req'[s]) = 0
      BY <3>1 DEF Left
    <3> QED
      BY <2>1, <3>2, SMTT(30)
  <2>6. ASSUME NEW r \in Requests, CollectBody(r) \/ BodyError(r) \/ TotalTimeout(r)
        PROVE  Less
    <3>1. /\ s = r
          /\ \/ req[s].pc = "body" /\ req'[s].pc = "send" /\ req'[s].attempt = req[s].attempt
             \/ req[s].pc \in Awaits /\ req'[s].pc = "done"
      BY <1>1, <2>2, <2>6, AwaitEffect DEF LoopKept
    <3>2. CASE req[s].pc = "body" /\ req'[s].pc = "send"
      <4>1. req'[s].attempt = 0
        BY <2>1, <3>1, <3>2 DEF GoodForward
      <4>2. Left(req[s]) = MaxAttempts + 1 /\ Left(req'[s]) = MaxAttempts - 0
        BY <3>2, <4>1 DEF Left
      <4> QED
        BY <2>1, <4>2
    <3>3. CASE req[s].pc \in {"body", "send"} /\ req'[s].pc = "done"
      <4>1. /\ \/ Left(req[s]) = MaxAttempts + 1
               \/ req[s].pc = "send" /\ Left(req[s]) = MaxAttempts - req[s].attempt
            /\ Left(req'[s]) = 0
        BY <3>3 DEF Left
      <4>2. req[s].pc = "send" => req[s].attempt < MaxAttempts
        BY <2>1 DEF GoodForward
      <4> QED
        BY <2>1, <4>1, <4>2
    <3> QED
      BY <3>1, <3>2, <3>3 DEF Awaits
  <2>7. ASSUME NEW r \in Requests, NEW a \in Statuses \cup Errors,
               \/ a \in Statuses /\ Response(r, a)
               \/ a \in Errors /\ ClientError(r, a)
        PROVE  Less
    <3>1. /\ s = r /\ req[s].pc = "send"
          /\ \/ /\ req'[s].pc = "send" /\ req'[s].attempt = req[s].attempt + 1
                /\ req'[s].attempt < MaxAttempts
             \/ req'[s].pc = "done"
      BY ZenonT(30), <1>1, <2>2, <2>7, AttemptEffect DEF Retried, Recorded
    <3>2. /\ Left(req[s]) = MaxAttempts - req[s].attempt
          /\ \/ req[s].attempt + 1 < MaxAttempts /\ Left(req'[s]) = MaxAttempts - (req[s].attempt + 1)
             \/ Left(req'[s]) = 0
      BY <3>1 DEF Left
    <3>3. req[s].attempt < MaxAttempts
      BY <2>1, <3>1, SMTT(30) DEF GoodForward
    <3> QED
      BY <2>1, <3>2, <3>3, SMTT(30)
  <2> HIDE DEF Less
  <2>8. Less
    BY ZenonT(30), <1>1, <2>3, <2>4, <2>5, <2>6, <2>7 DEF Next, RequestStep
  <2> QED
    BY <2>8 DEF Less
<1>2. TypeOK /\ ForwardInv /\ ScanInv /\ [Next]_vars =>
        [\A r \in Requests :
           req'[r] # req[r] => Left(req[r]) \in 1..(N + MaxAttempts + 2) /\ Left(req'[r]) \in 0..(Left(req[r]) - 1)]_vars
  BY Zenon, <1>1
<1> QED
  BY <1>2, UpstreamTypeCorrect, ForwardCorrect, ScanCorrect, PTL DEF Spec, BoundedWork

-----------------------------------------------------------------------------
(* The probe loops of Health *)

ProbeType == [pc : {"request", "drain", "sleep", "exit"}, healthy : BOOLEAN,
              fails : Nat, oks : Nat]

\* The types of Upstream and of the probe loops.
HealthType ==
  /\ TypeOK
  /\ probe \in [Addrs -> ProbeType]
  /\ run \in [Addrs -> Nat]
  /\ well \in [Addrs -> Nat]
  /\ since \in [Addrs -> Nat]

\* A failure or a success that a probe counts keeps the counters well typed.
LEMMA CountProbeFields ==
  ASSUME NEW p \in ProbeType, NEW healthy \in BOOLEAN
  PROVE  /\ CountProbe(p, healthy) \in ProbeType
         /\ CountProbe(p, healthy).fails = IF healthy THEN 0 ELSE SaturatingAdd(p.fails)
         /\ CountProbe(p, healthy).oks = IF healthy THEN SaturatingAdd(p.oks) ELSE 0
<1> DEFINE ok == SaturatingAdd(p.oks)
           bad == SaturatingAdd(p.fails)
<1>1. ok \in Nat /\ bad \in Nat
  BY BreakerOpsAssumption DEF ProbeType, SaturatingAdd
<1> HIDE DEF ok, bad
<1>2. CASE healthy
  <2>1. CountProbe(p, healthy) = [p EXCEPT !.pc = "sleep", !.fails = 0, !.oks = ok]
    BY <1>2 DEF CountProbe, ok
  <2>2. [p EXCEPT !.pc = "sleep", !.fails = 0, !.oks = ok] \in ProbeType
    BY Zenon, <1>1 DEF ProbeType
  <2>3. /\ [p EXCEPT !.pc = "sleep", !.fails = 0, !.oks = ok].fails = 0
        /\ [p EXCEPT !.pc = "sleep", !.fails = 0, !.oks = ok].oks = ok
    BY DEF ProbeType
  <2> QED
    BY ZenonT(30), <1>2, <2>1, <2>2, <2>3 DEF ok
<1>3. CASE ~healthy
  <2>1. CountProbe(p, healthy) = [p EXCEPT !.pc = "sleep", !.oks = 0, !.fails = bad]
    BY <1>3 DEF CountProbe, bad
  <2>2. [p EXCEPT !.pc = "sleep", !.oks = 0, !.fails = bad] \in ProbeType
    BY Zenon, <1>1 DEF ProbeType
  <2>3. /\ [p EXCEPT !.pc = "sleep", !.oks = 0, !.fails = bad].fails = bad
        /\ [p EXCEPT !.pc = "sleep", !.oks = 0, !.fails = bad].oks = 0
    BY DEF ProbeType
  <2> QED
    BY <1>3, <2>1, <2>2, <2>3 DEF bad
<1> QED
  BY <1>2, <1>3

\* The two counters of every probe loop are left alone.
CountersKept ==
  /\ probe' \in [Addrs -> ProbeType]
  /\ \A i \in Addrs : probe'[i].fails = probe[i].fails /\ probe'[i].oks = probe[i].oks

\* The two steps that count a probe are the only ones of a probe loop that touch
\* a breaker.
LEMMA ProbeSteps ==
  ASSUME HealthType, [NextHealth]_healthVars
  PROVE  \/ Traffic
         \/ UNCHANGED <<vars, tallies>> /\ CountersKept
         \/ \E i \in Addrs, healthy \in BOOLEAN : Record(i, healthy)
<1>1. CASE Traffic
  BY <1>1
<1>2. CASE Cancel \/ UNCHANGED healthVars
  BY <1>2 DEF Cancel, healthVars, vars, tallies, HealthType, CountersKept
<1>3. ASSUME NEW i \in Addrs, ProbeFailed(i)
      PROVE  \E j \in Addrs, healthy \in BOOLEAN : Record(j, healthy)
  BY Zenon, <1>3 DEF ProbeFailed
<1>4. ASSUME NEW i \in Addrs, ProbeDrained(i)
      PROVE  \E j \in Addrs, healthy \in BOOLEAN : Record(j, healthy)
  <2>1. probe[i].healthy \in BOOLEAN
    BY DEF HealthType, ProbeType
  <2> QED
    BY <1>4, <2>1 DEF ProbeDrained
<1>5. ASSUME NEW i \in Addrs, NEW healthy \in BOOLEAN, ProbeResponse(i, healthy) \/ ProbeWake(i)
      PROVE  UNCHANGED <<vars, tallies>> /\ CountersKept
  <2>1. probe[i] \in ProbeType
    BY DEF HealthType
  <2>2. CASE ProbeResponse(i, healthy)
    <3> DEFINE p == [probe[i] EXCEPT !.pc = "drain", !.healthy = healthy]
    <3>1. p \in ProbeType /\ p.fails = probe[i].fails /\ p.oks = probe[i].oks
      BY Zenon, <2>1 DEF ProbeType
    <3>2. probe' = [probe EXCEPT ![i] = p]
      BY Zenon, <2>2 DEF ProbeResponse, HealthType
    <3> HIDE DEF p
    <3> QED
      BY Zenon, <2>2, <3>1, <3>2 DEF ProbeResponse, HealthType, CountersKept
  <2>3. CASE ProbeWake(i)
    <3> DEFINE p == [probe[i] EXCEPT !.pc = IF cancel THEN "exit" ELSE "request"]
    <3>1. p \in ProbeType /\ p.fails = probe[i].fails /\ p.oks = probe[i].oks
      BY <2>1 DEF ProbeType
    <3>2. probe' = [probe EXCEPT ![i] = p]
      BY <2>3 DEF ProbeWake, HealthType
    <3> HIDE DEF p
    <3> QED
      BY <2>3, <3>1, <3>2 DEF ProbeWake, HealthType, CountersKept
  <2> QED
    BY <1>5, <2>2, <2>3
<1> QED
  BY Zenon, <1>1, <1>2, <1>3, <1>4, <1>5 DEF NextHealth, vars

\* HealthType is inductive.
LEMMA HealthTypeStep == HealthType /\ [NextHealth]_healthVars => HealthType'
<1> SUFFICES ASSUME HealthType, [NextHealth]_healthVars PROVE HealthType'
  OBVIOUS
<1>1. CASE Traffic
  <2>1. TypeOK'
    BY <1>1, UpstreamTypeStep DEF Traffic, HealthType
  <2>2. probe' \in [Addrs -> ProbeType]
    BY <1>1 DEF Traffic, HealthType
  <2>3. run' \in [Addrs -> Nat] /\ well' \in [Addrs -> Nat] /\ since' \in [Addrs -> Nat]
    BY <1>1 DEF Traffic, HealthType
  <2> QED
    BY <2>1, <2>2, <2>3 DEF HealthType
<1>2. CASE UNCHANGED <<vars, tallies>> /\ CountersKept
  BY <1>2 DEF HealthType, TypeOK, vars, tallies, CountersKept
<1>3. ASSUME NEW i \in Addrs, NEW healthy \in BOOLEAN, Record(i, healthy) PROVE HealthType'
  <2>1. probe[i] \in ProbeType /\ breakers[i] \in BreakerType
    BY DEF HealthType, TypeOK
  <2>2. probe' \in [Addrs -> ProbeType]
    BY <1>3, <2>1, CountProbeFields DEF Record, HealthType
  <2>3. breakers' \in [Addrs -> BreakerType]
    BY <1>3, <2>1, BreakerOpsType DEF Record, HealthType, TypeOK
  <2>4. run' \in [Addrs -> Nat] /\ well' \in [Addrs -> Nat] /\ since' \in [Addrs -> Nat]
    BY <1>3, BreakerOpsAssumption DEF Record, HealthType, SaturatingAdd
  <2>5. UNCHANGED <<next, now, req, streak, lastFail, exposed>>
    BY <1>3 DEF Record, history
  <2> QED
    BY <2>2, <2>3, <2>4, <2>5 DEF HealthType, TypeOK
<1> QED
  BY <1>1, <1>2, <1>3, ProbeSteps

\* Requests and probe loops keep the types of the state they share.
LEMMA HealthTypeCorrect == SpecHealth => []HealthType
<1>1. InitHealth => HealthType
  <2>1. NewProbe \in ProbeType
    BY DEF NewProbe, ProbeType
  <2>2. Init => TypeOK
    BY UpstreamInit
  <2> QED
    BY <2>1, <2>2 DEF InitHealth, HealthType
<1> QED
  BY <1>1, HealthTypeStep, PTL DEF SpecHealth

-----------------------------------------------------------------------------
(* Failed probes *)

\* The probe loop has counted at least the failures of the current run, and all
\* of them but the first UnhealthyThreshold - 1 have reached the breaker.
ProbeRunInv ==
  \A i \in Addrs :
    /\ run[i] <= probe[i].fails
    /\ Threshold > 0 /\ UnhealthyThreshold > 0
         => run[i] <= breakers[i].failures + UnhealthyThreshold - 1

\* ProbeRunInv is inductive relative to HealthType.
LEMMA ProbeRunStep == HealthType /\ ProbeRunInv /\ [NextHealth]_healthVars => ProbeRunInv'
<1> SUFFICES ASSUME HealthType, ProbeRunInv, [NextHealth]_healthVars,
                    NEW j \in Addrs
             PROVE  /\ run'[j] <= probe'[j].fails
                    /\ Threshold > 0 /\ UnhealthyThreshold > 0
                         => run'[j] <= breakers'[j].failures + UnhealthyThreshold - 1
  BY DEF ProbeRunInv
<1>0. HealthType'
  BY HealthTypeStep
<1>a. /\ run[j] \in Nat /\ probe[j].fails \in Nat /\ breakers[j].failures \in Nat
      /\ probe'[j].fails \in Nat /\ breakers'[j].failures \in Nat
      /\ run[j] <= probe[j].fails
      /\ Threshold > 0 /\ UnhealthyThreshold > 0
           => run[j] <= breakers[j].failures + UnhealthyThreshold - 1
  BY <1>0, SMTT(30) DEF HealthType, TypeOK, BreakerType, ProbeType, ProbeRunInv
<1> USE HealthAssumption, BreakerOpsAssumption
<1>1. CASE Traffic
  <2>1. probe'[j] = probe[j]
        /\ run'[j] = IF breakers'[j].failures < breakers[j].failures THEN 0 ELSE run[j]
    BY ZenonT(30), <1>1 DEF Traffic, Cleared
  <2>2. CASE breakers'[j].failures < breakers[j].failures
    BY <1>a, <2>1, <2>2
  <2>3. CASE breakers'[j].failures >= breakers[j].failures
    <3>1. run'[j] = run[j]
      BY <1>a, <2>1, <2>3
    <3> QED
      BY <1>a, <2>1, <2>3, <3>1
  <2>4. \/ breakers'[j].failures < breakers[j].failures
        \/ breakers'[j].failures >= breakers[j].failures
    BY <1>a
  <2> QED
    BY Zenon, <2>2, <2>3, <2>4
<1>2. CASE UNCHANGED <<vars, tallies>> /\ CountersKept
  <2>1. run'[j] = run[j] /\ breakers'[j] = breakers[j] /\ probe'[j].fails = probe[j].fails
    BY Zenon, <1>2 DEF vars, tallies, CountersKept
  <2> QED
    BY Zenon, <1>a, <2>1
<1>3. ASSUME NEW i \in Addrs, NEW healthy \in BOOLEAN, Record(i, healthy)
      PROVE  /\ run'[j] <= probe'[j].fails
             /\ Threshold > 0 /\ UnhealthyThreshold > 0
                  => run'[j] <= breakers'[j].failures + UnhealthyThreshold - 1
  <2> DEFINE p == CountProbe(probe[i], healthy)
  <2>1. CASE j # i
    <3>1. probe'[j] = probe[j] /\ run'[j] = run[j] /\ breakers'[j] = breakers[j]
      BY <1>3, <2>1 DEF Record, HealthType, TypeOK
    <3> QED
      BY <1>a, <3>1
  <2>2. CASE j = i
    <3>1. /\ probe'[i] = p
          /\ run'[i] = IF healthy \/ breakers'[i].failures < breakers[i].failures THEN 0
                       ELSE SaturatingAdd(run[i])
          /\ ~healthy => breakers'[i] = IF TellsFailure(p) THEN OnFailure(breakers[i], now)
                                        ELSE breakers[i]
      BY <1>3 DEF Record, HealthType, TypeOK, Cleared
    <3>2. p.fails = IF healthy THEN 0 ELSE SaturatingAdd(probe[i].fails)
      BY CountProbeFields DEF HealthType
    <3> HIDE DEF p
    <3>3. CASE healthy
      BY <1>a, <2>2, <3>1, <3>2, <3>3, SMTT(30)
    <3>4. CASE ~healthy
      <4>1. run'[i] <= p.fails /\ run'[i] <= run[i] + 1 /\ run'[i] \in Nat
        BY <1>a, <2>2, <3>1, <3>2, <3>4, SMTT(30) DEF SaturatingAdd
      <4>2. CASE TellsFailure(p) /\ Threshold > 0
        <5>1. breakers'[i].failures = FetchAdd(breakers[i].failures)
          BY <3>1, <3>4, <4>2, SMTT(30) DEF OnFailure
        <5>2. CASE breakers[i].failures = CounterMax
          <6>1. run'[i] = 0
            BY <3>1, <5>1, <5>2 DEF FetchAdd
          <6>2. probe'[j].fails >= 0 /\ 0 <= breakers'[j].failures
            BY <1>a
          <6> QED
            BY <1>a, <2>2, <6>1, <6>2, SMTT(30)
        <5>3. CASE breakers[i].failures # CounterMax
          BY <1>a, <2>2, <3>1, <4>1, <5>1, <5>3, SMTT(30) DEF FetchAdd
        <5> QED
          BY <5>2, <5>3
      <4>3. CASE ~TellsFailure(p)
        BY <1>a, <2>2, <3>1, <4>1, <4>3 DEF TellsFailure
      <4>4. CASE Threshold = 0
        BY <2>2, <3>1, <4>1, <4>4
      <4> QED
        BY <4>2, <4>3, <4>4
    <3> QED
      BY <3>3, <3>4
  <2> QED
    BY <2>1, <2>2
<1> QED
  BY <1>1, <1>2, <1>3, ProbeSteps, SMTT(30)

\* unhealthy_threshold + threshold - 1 failed probes in a row trip the breaker
\* whatever requests do in between, as long as none succeeds.
THEOREM FailedProbesCorrect == SpecHealth => []FailedProbesTrip
<1>1. InitHealth => ProbeRunInv
  BY HealthAssumption DEF InitHealth, Init, ProbeRunInv, NewProbe, NewBreaker
<1>2. HealthType /\ ProbeRunInv => FailedProbesTrip
  BY HealthAssumption, BreakerOpsAssumption, SMTT(30)
  DEF HealthType, TypeOK, BreakerType, ProbeRunInv, FailedProbesTrip, Tripped
<1> QED
  BY <1>1, <1>2, ProbeRunStep, HealthTypeCorrect, PTL DEF SpecHealth

-----------------------------------------------------------------------------
(* Good probes *)

\* The probe loop has counted at least the good probes of the current run, and
\* once they are enough the breaker counts at most the failures that requests
\* returned since the last of them.
GoodRunInv ==
  \A i \in Addrs :
    /\ well[i] <= probe[i].oks
    /\ Threshold > 0 /\ well[i] > 0 /\ well[i] >= HealthyThreshold
         => breakers[i].failures <= since[i]

\* GoodRunInv is inductive relative to HealthType.
LEMMA GoodRunStep == HealthType /\ GoodRunInv /\ [NextHealth]_healthVars => GoodRunInv'
<1> SUFFICES ASSUME HealthType, GoodRunInv, [NextHealth]_healthVars, NEW j \in Addrs
             PROVE  /\ well'[j] <= probe'[j].oks
                    /\ Threshold > 0 /\ well'[j] > 0 /\ well'[j] >= HealthyThreshold
                         => breakers'[j].failures <= since'[j]
  BY ZenonT(30) DEF GoodRunInv
<1>a. /\ well[j] \in Nat /\ probe[j].oks \in Nat /\ since[j] \in Nat /\ streak[j] \in Nat
      /\ breakers[j].failures \in 0..CounterMax
      /\ well[j] <= probe[j].oks
      /\ Threshold > 0 /\ well[j] > 0 /\ well[j] >= HealthyThreshold
           => breakers[j].failures <= since[j]
  BY SMTT(30) DEF HealthType, TypeOK, BreakerType, ProbeType, GoodRunInv
<1> USE HealthAssumption, BreakerOpsAssumption
<1>1. CASE Traffic
  <2>1. /\ probe'[j] = probe[j] /\ well'[j] = well[j]
        /\ since'[j] = IF streak'[j] > streak[j] THEN since[j] + 1 ELSE since[j]
    BY ZenonT(30), <1>1 DEF Traffic
  <2>2. CASE breakers'[j] = breakers[j] /\ streak'[j] = streak[j]
    BY <1>a, <2>1, <2>2
  <2>3. CASE breakers'[j] = OnSuccess(breakers[j])
    BY <1>a, <2>1, <2>3, SMTT(30) DEF OnSuccess, NewBreaker
  <2>4. CASE breakers'[j] = OnFailure(breakers[j], now) /\ streak'[j] = streak[j] + 1
    <3>1. Threshold > 0 => breakers'[j].failures = FetchAdd(breakers[j].failures)
      BY <2>4, SMTT(30) DEF OnFailure
    <3>2. FetchAdd(breakers[j].failures) <= breakers[j].failures + 1
          /\ FetchAdd(breakers[j].failures) \in Nat
      BY <1>a DEF FetchAdd
    <3>3. since'[j] = since[j] + 1
      BY <1>a, <2>1, <2>4
    <3>4. ASSUME Threshold > 0, well'[j] > 0, well'[j] >= HealthyThreshold
          PROVE  breakers'[j].failures <= since'[j]
      <4>1. breakers[j].failures <= since[j]
        BY <1>a, <2>1, <3>4
      <4> QED
        BY <1>a, <3>1, <3>2, <3>3, <3>4, <4>1, SMTT(30)
    <3> QED
      BY <1>a, <2>1, <3>4, SMTT(30)
  <2>5. ASSUME NEW i \in Addrs, NEW good \in BOOLEAN, Observe(i, good), Remember(i, good)
        PROVE  \/ breakers'[j] = breakers[j] /\ streak'[j] = streak[j]
               \/ breakers'[j] = OnSuccess(breakers[j])
               \/ breakers'[j] = OnFailure(breakers[j], now) /\ streak'[j] = streak[j] + 1
    BY <2>5, SMTT(30) DEF HealthType, TypeOK, Observe, Remember
  <2> QED
    BY ZenonT(30), <1>1, <2>2, <2>3, <2>4, <2>5, BreakerSteps DEF Traffic, HealthType
<1>2. CASE UNCHANGED <<vars, tallies>> /\ CountersKept
  <2>1. /\ well'[j] = well[j] /\ since'[j] = since[j]
        /\ breakers'[j] = breakers[j] /\ probe'[j].oks = probe[j].oks
    BY Zenon, <1>2 DEF vars, tallies, CountersKept
  <2> QED
    BY Zenon, <1>a, <2>1
<1>3. ASSUME NEW i \in Addrs, NEW healthy \in BOOLEAN, Record(i, healthy)
      PROVE  /\ well'[j] <= probe'[j].oks
             /\ Threshold > 0 /\ well'[j] > 0 /\ well'[j] >= HealthyThreshold
                  => breakers'[j].failures <= since'[j]
  <2> DEFINE p == CountProbe(probe[i], healthy)
  <2>1. CASE j # i
    <3>1. /\ probe'[j] = probe[j] /\ well'[j] = well[j] /\ since'[j] = since[j]
          /\ breakers'[j] = breakers[j]
      BY <1>3, <2>1, SMTT(30) DEF Record, HealthType, TypeOK
    <3> QED
      BY <1>a, <3>1
  <2>2. CASE j = i
    <3>1. /\ probe'[i] = p
          /\ well'[i] = IF healthy THEN SaturatingAdd(well[i]) ELSE 0
          /\ healthy => /\ since'[i] = 0
                        /\ breakers'[i] = IF TellsSuccess(p) THEN OnSuccess(breakers[i])
                                          ELSE breakers[i]
      BY <1>3 DEF Record, HealthType, TypeOK
    <3>2. p.oks = IF healthy THEN SaturatingAdd(probe[i].oks) ELSE 0
      BY CountProbeFields DEF HealthType
    <3> HIDE DEF p
    <3>3. CASE healthy
      <4>1. well'[i] <= p.oks /\ well'[i] \in Nat /\ p.oks \in Nat
        <5>1. well'[i] = SaturatingAdd(well[i]) /\ p.oks = SaturatingAdd(probe[i].oks)
          BY <3>1, <3>2, <3>3
        <5>2. well[i] \in Nat /\ probe[i].oks \in Nat /\ well[i] <= probe[i].oks
          BY <1>a, <2>2
        <5> QED
          BY <5>1, <5>2 DEF SaturatingAdd
      <4>2. ASSUME Threshold > 0, well'[i] >= HealthyThreshold PROVE breakers'[i].failures = 0
        <5>1. TellsSuccess(p)
          BY <4>1, <4>2, SMTT(30) DEF TellsSuccess
        <5> QED
          BY <3>1, <3>3, <4>2, <5>1, SMTT(30) DEF OnSuccess, NewBreaker
      <4> QED
        BY <2>2, <3>1, <3>3, <4>1, <4>2, SMTT(30)
    <3>4. CASE ~healthy
      BY <1>a, <2>2, <3>1, <3>2, <3>4, SMTT(30)
    <3> QED
      BY <3>3, <3>4, SMTT(30)
  <2> QED
    BY <2>1, <2>2
<1> QED
  BY <1>1, <1>2, <1>3, ProbeSteps, SMTT(30)

\* healthy_threshold good probes in a row make up for every failure before the
\* last of them, whatever requests do at the same time.
THEOREM GoodProbesCorrect == SpecHealth => []GoodProbesRecover
<1>1. InitHealth => GoodRunInv
  BY HealthAssumption DEF InitHealth, Init, GoodRunInv, NewProbe, NewBreaker
<1>2. HealthType /\ GoodRunInv => GoodProbesRecover
  BY HealthAssumption, BreakerOpsAssumption
  DEF HealthType, TypeOK, BreakerType, GoodRunInv, GoodProbesRecover, Tripped
<1> QED
  BY <1>1, <1>2, GoodRunStep, HealthTypeCorrect, PTL DEF SpecHealth
=============================================================================
