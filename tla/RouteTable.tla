----------------------------- MODULE RouteTable -----------------------------
(***************************************************************************)
(* Routing (crates/conduit-lifecycle/src/table.rs): the table that         *)
(* RouteTable::from_config builds route by route, and the lookup           *)
(* Dispatch::handle makes in it, against the rule it stands for.  A path   *)
(* is a sequence of characters, a regex the set of paths it matches, a     *)
(* header a name with a value, and a host a name with its case; a regex    *)
(* may not compile, and a header predicate may not parse.                  *)
(***************************************************************************)
EXTENDS Naturals, Sequences, FiniteSets

CONSTANTS
  Chars,      \* what paths are made of
  Matches,    \* `[[route]] match` tables, from which configs are made
  Paths,      \* request paths
  Hosts,      \* request hosts
  HeaderSets, \* what request headers may be
  None        \* Option::None

\* A match table: host, and the three path matchers, are None when absent.
ASSUME RouteTableAssumption ==
  /\ Paths \subseteq Seq(Chars)
  /\ \A m \in Matches :
       /\ DOMAIN m = {"host", "exact", "prefix", "regex", "headers"}
       /\ m.exact # None => m.exact \in Seq(Chars)
       /\ m.prefix # None => m.prefix \in Seq(Chars)

VARIABLES
  cfg,    \* the match tables of the config, in declared order
  built,  \* how many routes are in the table
  table   \* by_host and wildcard

vars == <<cfg, built, table>>

\* The first of some places of a list, 0 when there is none.
FirstOf(at) == IF at = {} THEN 0 ELSE CHOOSE i \in at : \A j \in at : i <= j

-----------------------------------------------------------------------------
(* Building *)

\* A match table says something about the path.
HasPath(m) == m.prefix # None \/ m.exact # None \/ m.regex # None

Lower(h) == [h EXCEPT !.upper = FALSE]

\* Route::from_config: exact before prefix before regex; a regex that does not
\* compile makes the route match any path.
PathMatch(m) ==
  IF m.exact # None THEN [kind |-> "exact", pat |-> m.exact]
  ELSE IF m.prefix # None THEN [kind |-> "prefix", pat |-> m.prefix]
  ELSE IF m.regex # None /\ m.regex.compiles THEN [kind |-> "regex", pat |-> m.regex.lang]
  ELSE [kind |-> "any", pat |-> None]

\* The `filter_map` of Route::from_config: a predicate whose name or value is not
\* one a header can have is left out.
HeaderMatches(m) == {h.pair : h \in {x \in m.headers : x.parses}}

\* A route in the table is known by its place in the config.
Route(k) == [id |-> k, path |-> PathMatch(cfg[k]), headers |-> HeaderMatches(cfg[k])]

EmptyBucket == [exact |-> <<>>, prefix |-> <<>>, regex |-> <<>>, any |-> <<>>]

\* Mutant: a path seen before has its slot overwritten.
IntoSlotMut(slots, r) ==
  LET k == FirstOf({i \in 1..Len(slots) : slots[i].key = r.path.pat})
      slot == [key |-> r.path.pat, routes |-> <<r>>]
  IN  IF k = 0 THEN Append(slots, slot) ELSE [slots EXCEPT ![k] = slot]

\* The slot of the route's literal path, made when there is none.
IntoSlot(slots, r) ==
  LET k == FirstOf({i \in 1..Len(slots) : slots[i].key = r.path.pat})
  IN  IF k = 0 THEN Append(slots, [key |-> r.path.pat, routes |-> <<r>>])
      ELSE [slots EXCEPT ![k].routes = Append(@, r)]

\* HostBucket::insert
InsertInto(b, r) ==
  CASE r.path.kind = "exact"  -> [b EXCEPT !.exact = IntoSlot(@, r)]
    [] r.path.kind = "prefix" -> [b EXCEPT !.prefix = IntoSlot(@, r)]
    [] r.path.kind = "regex"  -> [b EXCEPT !.regex = Append(@, r)]
    [] r.path.kind = "any"    -> [b EXCEPT !.any = Append(@, r)]

\* The place of the i-th slot in a stable sort by decreasing length of the key.
Rank(slots, i) ==
  Cardinality({j \in 1..Len(slots) :
    \/ Len(slots[j].key) > Len(slots[i].key)
    \/ Len(slots[j].key) = Len(slots[i].key) /\ j <= i})

\* Mutant: the shortest prefix comes first.
ByLengthMut(slots) ==
  [k \in 1..Len(slots) |-> slots[CHOOSE i \in 1..Len(slots) : Rank(slots, i) = Len(slots) + 1 - k]]

\* `sort_by_key(Reverse(len))`, a stable sort.
ByLength(slots) ==
  [k \in 1..Len(slots) |-> slots[CHOOSE i \in 1..Len(slots) : Rank(slots, i) = k]]

\* HostBucket::finalise
Finalised(b) == [b EXCEPT !.prefix = ByLength(@)]

Keys == {Lower(h) : h \in Hosts \cup {m.host : m \in {x \in Matches : x.host # None}}}

EmptyTable == [by_host |-> [h \in Keys |-> EmptyBucket], wildcard |-> EmptyBucket]

Insert ==
  /\ built < Len(cfg)
  /\ built' = built + 1
  /\ LET r == Route(built + 1)
         h == cfg[built + 1].host
     IN  table' = IF h = None THEN [table EXCEPT !.wildcard = InsertInto(@, r)]
                  ELSE [table EXCEPT !.by_host[Lower(h)] = InsertInto(@, r)]
  /\ UNCHANGED cfg

Finalise ==
  /\ built = Len(cfg)
  /\ built' = built + 1
  /\ table' = [by_host |-> [h \in Keys |-> Finalised(table.by_host[h])],
               wildcard |-> Finalised(table.wildcard)]
  /\ UNCHANGED cfg

Complete == built = Len(cfg) + 1

-----------------------------------------------------------------------------
(* Lookup: the id of a route, or 0. *)

\* headers_match
HeadersMatch(r, q) == r.headers \subseteq q.headers

\* The places of the routes whose header predicates hold.
Fits(routes, q) == {i \in 1..Len(routes) : HeadersMatch(routes[i], q)}

IdAt(routes, k) == IF k = 0 THEN 0 ELSE routes[k].id

FirstIn(routes, q) == IdAt(routes, FirstOf(Fits(routes, q)))

OrElse(a, b) == IF a # 0 THEN a ELSE b

\* The first of the slots at some places that has a route.
FirstSlot(slots, q, at) ==
  LET k == FirstOf({i \in at : FirstIn(slots[i].routes, q) # 0})
  IN  IF k = 0 THEN 0 ELSE FirstIn(slots[k].routes, q)

\* str::starts_with
StartsWith(path, p) == Len(p) <= Len(path) /\ \A i \in 1..Len(p) : path[i] = p[i]

ExactAt(b, q) == {i \in 1..Len(b.exact) : b.exact[i].key = q.path}
PrefixAt(b, q) == {i \in 1..Len(b.prefix) : StartsWith(q.path, b.prefix[i].key)}
RegexAt(b, q) == {i \in Fits(b.regex, q) : q.path \in b.regex[i].path.pat}

\* HostBucket::find
FindIn(b, q) ==
  OrElse(FirstSlot(b.exact, q, ExactAt(b, q)),
  OrElse(FirstSlot(b.prefix, q, PrefixAt(b, q)),
  OrElse(IdAt(b.regex, FirstOf(RegexAt(b, q))),
         FirstIn(b.any, q))))

\* RouteTable::find, with the host folded by lookup_bucket.
Find(q) ==
  OrElse(IF q.host # None THEN FindIn(table.by_host[Lower(q.host)], q) ELSE 0,
         FindIn(table.wildcard, q))

-----------------------------------------------------------------------------
(* What the lookup stands for *)

Queries == [host : Hosts \cup {None}, path : Paths, headers : HeaderSets]

PathAllows(p, path) ==
  CASE p.kind = "exact"  -> path = p.pat
    [] p.kind = "prefix" -> StartsWith(path, p.pat)
    [] p.kind = "regex"  -> path \in p.pat
    [] p.kind = "any"    -> TRUE

Allows(m, q) ==
  /\ m.host = None \/ (q.host # None /\ Lower(m.host) = Lower(q.host))
  /\ PathAllows(PathMatch(m), q.path)
  /\ HeaderMatches(m) \subseteq q.headers

Candidates(q) == {k \in 1..Len(cfg) : Allows(cfg[k], q)}

Specificity == [exact |-> 1, prefix |-> 2, regex |-> 3, any |-> 4]

\* Route j is preferred to route k.
Preferred(j, k) ==
  LET a == PathMatch(cfg[j])
      b == PathMatch(cfg[k])
      wild(i) == cfg[i].host = None
  IN  IF wild(j) # wild(k) THEN wild(k)
      ELSE IF a.kind # b.kind THEN Specificity[a.kind] < Specificity[b.kind]
      ELSE IF a.kind = "prefix" /\ Len(a.pat) # Len(b.pat) THEN Len(a.pat) > Len(b.pat)
      ELSE j < k

\* The docs of RouteTable and find: of the routes that match, the lookup in the
\* indexed table returns the one of the request's host before a wildcard one,
\* then exact, longest prefix, regex, any, then the one declared first; a header
\* predicate that fails falls through to the next; and it finds nothing only
\* when no route matches.  What a route asks for is what from_config makes of it:
\* a regex that does not compile and a header predicate that does not parse ask
\* for nothing, and validate.rs lets both through.
FindIsBest ==
  Complete => \A q \in Queries :
    /\ Find(q) = 0 => Candidates(q) = {}
    /\ Find(q) # 0 => /\ Find(q) \in Candidates(q)
                      /\ \A k \in Candidates(q) \ {Find(q)} : Preferred(Find(q), k)

\* The ids in a list, in slots and in a bucket.
Ids(l) == {l[i].id : i \in 1..Len(l)}
SlotIds(slots) == UNION {Ids(slots[i].routes) : i \in 1..Len(slots)}
IdsIn(b) == SlotIds(b.exact) \cup SlotIds(b.prefix) \cup Ids(b.regex) \cup Ids(b.any)

\* Building loses no route and files none under a host that is not its own, at
\* every point of the loop.
NoRouteLost ==
  /\ IdsIn(table.wildcard) = {k \in DOMAIN cfg : k <= built /\ cfg[k].host = None}
  /\ \A h \in Keys : IdsIn(table.by_host[h]) =
       {k \in DOMAIN cfg : k <= built /\ cfg[k].host # None /\ Lower(cfg[k].host) = h}
=============================================================================
