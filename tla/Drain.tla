-------------------------------- MODULE Drain --------------------------------
(***************************************************************************)
(* What the plain-HTTP plane promises about connections, without workers,  *)
(* accept loops or counters: every connection that is taken is served to   *)
(* its end, fails by itself, or is cut, which happens only once the server *)
(* is stopping or in a crash, if the server is of a kind that may crash;   *)
(* and the final report counts exactly the connections taken and the ones  *)
(* served, but for those a crash has lost.  Module Worker implements it.   *)
(***************************************************************************)
EXTENDS Naturals, FiniteSets

CONSTANT Conns

VARIABLES
  state,     \* what became of each connection
  stopping,  \* shutdown has been requested
  fragile,   \* one connection's failure may crash what serves it
  lost,      \* connections on what has crashed
  summary    \* <<>> until the report, then <<accepted, completed>>

drainVars == <<state, stopping, fragile, lost, summary>>

Count(S) == Cardinality({c \in Conns \ lost : state[c] \in S})

DrainInit ==
  /\ state = [c \in Conns |-> "waiting"]
  /\ stopping = FALSE
  /\ fragile \in BOOLEAN
  /\ lost = {}
  /\ summary = <<>>

Take(c) ==
  /\ summary = <<>>
  /\ state[c] = "waiting" /\ c \notin lost
  /\ state' = [state EXCEPT ![c] = "serving"]
  /\ UNCHANGED <<stopping, fragile, lost, summary>>

End(c) ==
  /\ state[c] = "serving"
  /\ \E s \in {"served", "failed"} : state' = [state EXCEPT ![c] = s]
  /\ UNCHANGED <<stopping, fragile, lost, summary>>

Stop == ~stopping /\ stopping' = TRUE /\ UNCHANGED <<state, fragile, lost, summary>>

Cut ==
  /\ stopping
  /\ \E S \in SUBSET {c \in Conns : state[c] = "serving"} :
       state' = [c \in Conns |-> IF c \in S THEN "cut" ELSE state[c]]
  /\ UNCHANGED <<stopping, fragile, lost, summary>>

Crash ==
  /\ fragile
  /\ \E S \in SUBSET Conns :
       /\ \E c \in S : state[c] = "serving"
       /\ lost' = lost \cup S
       /\ state' = [c \in Conns |-> IF c \in S /\ state[c] = "serving" THEN "cut" ELSE state[c]]
  /\ UNCHANGED <<stopping, fragile, summary>>

Report ==
  /\ summary = <<>>
  /\ Count({"serving"}) = 0
  /\ summary' = <<Count({"served", "failed", "cut"}), Count({"served"})>>
  /\ UNCHANGED <<state, stopping, fragile, lost>>

DrainNext == Stop \/ Cut \/ Crash \/ Report \/ \E c \in Conns : Take(c) \/ End(c)

DrainSpec == DrainInit /\ [][DrainNext]_drainVars
=============================================================================
