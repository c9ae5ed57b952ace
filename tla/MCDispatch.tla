----------------------------- MODULE MCDispatch -----------------------------
(* Documents of two kinds: many route tables over one upstream that builds,  *)
(* to exercise the lookup, and few over two upstreams of every shape, to     *)
(* exercise validation and building.                                         *)
EXTENDS Dispatch

CONSTANT MaxRoutes  \* bound on the routes of the first kind

Host(n, up) == [name |-> n, upper |-> up]
A == Host("a", FALSE)
X == <<"x">>
XY == <<"x", "y">>
Gold == [pair |-> "gold", parses |-> TRUE]
Malformed == [pair |-> "malformed", parses |-> FALSE]

Rule(h, e, p, r, hs) == [host |-> h, exact |-> e, prefix |-> p, regex |-> r, headers |-> hs]

MCPaths == {<<>>, X, XY, <<"z">>, <<"x", "y", "z">>}
MCChars == {"x", "y", "z"}
MCHosts == {A, Host("a", TRUE), Host("b", FALSE)}
MCHeaderSets == {{}, {"gold"}}

PathRules(h, hs) ==
  {Rule(h, XY, None, None, hs), Rule(h, None, X, None, hs), Rule(h, None, XY, None, hs),
   Rule(h, None, <<"z">>, None, hs),
   Rule(h, None, None, [compiles |-> TRUE, lang |-> {X, XY}], hs),
   Rule(h, None, None, None, hs)}

RoutingRules ==
  PathRules(None, {}) \cup PathRules(A, {Gold}) \cup PathRules(Host("a", TRUE), {})
    \cup {Rule(None, None, X, None, {Gold, Malformed}), Rule(None, XY, X, None, {}),
          Rule(A, None, XY, None, {Malformed}),
          Rule(None, None, None, [compiles |-> FALSE, lang |-> {}], {}),
          Rule(A, XY, None, [compiles |-> TRUE, lang |-> {}], {})}

Pool(n, a, t, c) == [name |-> n, addrs |-> a, tls |-> t, check |-> c]
Tls(ca, cert, key, v) == [ca |-> ca, cert |-> cert, key |-> key, verify |-> v]
Check(i, t) == [interval |-> i, timeout |-> t]
To(m, u, r) == [match |-> m, upstream |-> u, retry |-> r]
Doc(rs, us, l, c, i) ==
  [routes |-> rs, upstreams |-> us, listens_tls |-> l, certs |-> c, allow_insecure_tls |-> i]

Plain(n) == Pool(n, 1, None, None)

RoutingDocs ==
  {Doc([k \in DOMAIN s |-> To(s[k], "u", None)], <<Plain("u")>>, FALSE, None, FALSE)
     : s \in UNION {[1..n -> RoutingRules] : n \in 1..MaxRoutes}}

Pools ==
  {Plain("u"), Plain("v"), Pool("u", 0, None, None),
   Pool("u", 2, Tls("ca", None, None, TRUE), Check(1, 1)),
   Pool("v", 1, Tls(None, "pem", "pem", TRUE), Check(1, 0)),
   Pool("v", 1, Tls(None, "pem", None, TRUE), None),
   Pool("v", 1, Tls("ca", "pem", "pem", TRUE), Check(2, 1)),
   Pool("v", 1, Tls(None, None, None, FALSE), None)}

AnyOfA == Rule(A, None, None, None, {})
MCMatches == RoutingRules \cup {AnyOfA}

RouteLists ==
  {<<>>, <<To(AnyOfA, "u", 2)>>,
   <<To(AnyOfA, "u", None), To(Rule(None, None, X, None, {}), "v", 1)>>,
   <<To(Rule(None, None, X, None, {}), "v", 0)>>,
   <<To(Rule(None, None, None, None, {}), "u", None)>>}

Pair == [cert |-> "pem", key |-> "pem"]

UpstreamDocs ==
  {Doc(rs, <<p>>, FALSE, None, FALSE) : rs \in RouteLists, p \in Pools}
    \cup {Doc(rs, <<p, q>>, TRUE, <<Pair>>, TRUE) : rs \in RouteLists, p \in Pools, q \in Pools}
    \cup {Doc(rs, <<Plain("v"), Plain("u")>>, l, c, FALSE) : rs \in RouteLists, l \in BOOLEAN, c \in {None, <<>>}}

MCDocs == RoutingDocs \cup UpstreamDocs
TlsDocs == {Doc(rs, <<Pool("u", 1, Tls("ca", None, None, TRUE), None)>>, FALSE, None, FALSE) : rs \in RouteLists}
=============================================================================
