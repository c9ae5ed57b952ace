------------------------------ MODULE Dispatch ------------------------------
(***************************************************************************)
(* From a config document to the forwarding of a request: conduit_config's *)
(* check_logic and check_filesystem, Dispatch::from_config (the table of   *)
(* module RouteTable, then the UpstreamMap), the probes of                 *)
(* spawn_health_thread, and Dispatch::handle.  The PEM files the document  *)
(* names may change between any two of these steps.                        *)
(***************************************************************************)
EXTENDS RouteTable

CONSTANTS
  Docs,      \* config documents, as serde makes them, with CONDUIT_ALLOW_INSECURE_TLS
  Names,     \* upstream names
  Pems,      \* paths of PEM files
  MaxEdits   \* bound on the changes of files

ASSUME DispatchAssumption ==
  /\ MaxEdits \in Nat
  /\ \A d \in Docs :
       /\ DOMAIN d = {"routes", "upstreams", "listens_tls", "certs", "allow_insecure_tls"}
       /\ Len(d.routes) \in Nat /\ DOMAIN d.routes = 1..Len(d.routes)
       /\ \A k \in DOMAIN d.routes : d.routes[k].match \in Matches
       /\ Len(d.upstreams) \in Nat /\ DOMAIN d.upstreams = 1..Len(d.upstreams)
       /\ \A k \in DOMAIN d.upstreams : d.upstreams[k].name \in Names /\ d.upstreams[k].addrs \in Nat

VARIABLES
  doc,      \* the document being loaded
  files,    \* what each PEM file holds
  edits,    \* how often files have changed
  verdict,  \* what load returned: "none" until it has
  mapped,   \* how many upstreams from_config has been through
  by_name,  \* UpstreamMap: the place in the document of the upstream, or 0
  asked,    \* how many upstreams spawn_health_thread has been through
  probes,   \* upstreams that have a Probe
  skipped   \* history: upstreams whose client could not be built

dispatchVars == <<doc, files, edits, verdict, mapped, by_name, asked, probes, skipped>>

DispatchInit ==
  /\ doc \in Docs
  /\ cfg = <<>> /\ built = 0 /\ table = EmptyTable
  /\ files = [f \in Pems |-> "good"]
  /\ edits = 0
  /\ verdict = "none"
  /\ mapped = 0 /\ asked = 0
  /\ by_name = [n \in Names |-> 0]
  /\ probes = {} /\ skipped = {}

Elements(s) == {s[k] : k \in DOMAIN s}

\* The files a document names; the others do not matter.
FilesOf(d) ==
  UNION ({{u.tls.ca, u.tls.cert, u.tls.key} : u \in {x \in Elements(d.upstreams) : x.tls # None}}
    \cup (IF d.certs = None THEN {} ELSE {{c.cert, c.key} : c \in Elements(d.certs)}))

EditFile(f) ==
  /\ edits < MaxEdits /\ f \in FilesOf(doc)
  /\ \E s \in {"good", "garbage", "missing"} : s # files[f] /\ files' = [files EXCEPT ![f] = s]
  /\ edits' = edits + 1
  /\ UNCHANGED <<vars, doc, verdict, mapped, by_name, asked, probes, skipped>>

-----------------------------------------------------------------------------
(* conduit_config::load: the first error in the order of validate.rs. *)

FirstError(errors) ==
  LET k == FirstOf({i \in DOMAIN errors : errors[i] # "ok"}) IN IF k = 0 THEN "ok" ELSE errors[k]

UpstreamError(d, k) ==
  LET us == d.upstreams
      u == us[k]
  IN  CASE u.addrs = 0 -> "UpstreamNoAddrs"
        [] u.addrs # 0 /\ \E j \in 1..(k - 1) : us[j].name = u.name -> "DuplicateUpstream"
        [] OTHER -> FirstError(
             <<IF u.tls # None /\ (u.tls.cert = None) # (u.tls.key = None) THEN "UpstreamMtlsMismatch" ELSE "ok",
               IF u.tls # None /\ ~u.tls.verify /\ ~d.allow_insecure_tls THEN "UpstreamInsecureTlsNotOptedIn" ELSE "ok",
               IF u.check # None /\ 0 \in {u.check.interval, u.check.timeout} THEN "HealthCheckBadDuration" ELSE "ok">>)

RouteError(us, r) ==
  FirstError(<<IF \A u \in Elements(us) : u.name # r.upstream THEN "UnknownUpstream" ELSE "ok",
               IF r.match.host = None /\ ~HasPath(r.match) THEN "RouteMatchEmpty" ELSE "ok",
               IF r.match.prefix # None /\ r.match.exact # None THEN "RoutePathConflict" ELSE "ok",
               IF r.retry = 0 THEN "RetryAttemptsZero" ELSE "ok">>)

TlsError(d) ==
  IF d.certs = None THEN IF d.listens_tls THEN "TlsRequired" ELSE "ok"
  ELSE IF d.certs = <<>> THEN "TlsNoCerts" ELSE "ok"

CheckLogic(d) ==
  FirstError(<<IF d.routes = <<>> THEN "NoRoutes" ELSE "ok",
               FirstError([k \in DOMAIN d.upstreams |-> UpstreamError(d, k)]),
               FirstError([k \in DOMAIN d.routes |-> RouteError(d.upstreams, d.routes[k])]),
               TlsError(d)>>)

\* is_file, of each cert and its key; upstream files are not looked at.
CheckFilesystem(d) ==
  IF d.certs = None THEN "ok"
  ELSE FirstError([k \in DOMAIN d.certs |->
         IF files[d.certs[k].cert] = "missing" THEN "CertMissing"
         ELSE IF files[d.certs[k].key] = "missing" THEN "KeyMissing" ELSE "ok"])

Load ==
  /\ verdict = "none"
  /\ verdict' = FirstError(<<CheckLogic(doc), CheckFilesystem(doc)>>)
  /\ cfg' = [k \in DOMAIN doc.routes |-> doc.routes[k].match]
  /\ UNCHANGED <<built, table, doc, files, edits, mapped, by_name, asked, probes, skipped>>

-----------------------------------------------------------------------------
(* Dispatch::from_config and spawn_health_thread *)

BuildTable == verdict = "ok" /\ (Insert \/ Finalise) /\ UNCHANGED dispatchVars

Readable(f) == f # None => files[f] = "good"

\* build_client_config: webpki roots, or a CA file that must load; a client
\* certificate and key that must load, if any.
BuildsClient(u) ==
  u.tls # None => Readable(u.tls.ca) /\ Readable(u.tls.cert) /\ Readable(u.tls.key)

\* Mutant: an upstream that cannot be built ends the loop.
AfterSkipMut == Len(doc.upstreams)

\* It is skipped.
AfterSkip == mapped + 1

\* UpstreamMap::from_config
BuildUpstream ==
  /\ verdict = "ok" /\ Complete /\ mapped < Len(doc.upstreams)
  /\ LET k == mapped + 1
     IN  IF BuildsClient(doc.upstreams[k])
         THEN /\ by_name' = [by_name EXCEPT ![doc.upstreams[k].name] = k]
              /\ mapped' = k
              /\ UNCHANGED skipped
         ELSE skipped' = skipped \cup {k} /\ mapped' = AfterSkip /\ UNCHANGED by_name
  /\ UNCHANGED <<vars, doc, files, edits, verdict, asked, probes>>

Ready == verdict = "ok" /\ Complete /\ mapped = Len(doc.upstreams)

\* spawn_health_thread reads the TLS files once more, in Probe::new.
BuildProbe ==
  /\ Ready /\ asked < Len(doc.upstreams)
  /\ asked' = asked + 1
  /\ LET k == asked + 1
         u == doc.upstreams[k]
     IN  probes' = IF u.check # None /\ by_name[u.name] # 0 /\ BuildsClient(u)
                   THEN probes \cup {k} ELSE probes
  /\ UNCHANGED <<vars, doc, files, edits, verdict, mapped, by_name, skipped>>

Done == (verdict \notin {"none", "ok"} \/ (Ready /\ asked = Len(doc.upstreams)))
        /\ UNCHANGED <<vars, dispatchVars>>

DispatchNext ==
  \/ Load \/ BuildTable \/ BuildUpstream \/ BuildProbe \/ Done
  \/ \E f \in Pems : EditFile(f)

DispatchSpec == DispatchInit /\ [][DispatchNext]_<<vars, dispatchVars>>

-----------------------------------------------------------------------------
(* Dispatch::handle, up to the call of forward *)

\* rewrite_uri
ForwardScheme(u) == "http"

\* Probe::new
ProbeScheme(u) == IF u.tls # None THEN "https" ELSE "http"

\* The route a request takes, and how it ends or goes on.
Handle(q) ==
  LET r == Find(q)
  IN  [route |-> r,
       outcome |-> IF r = 0 THEN "NoRoute"
                   ELSE IF by_name[doc.routes[r].upstream] = 0 THEN "UpstreamNotRegistered"
                   ELSE "forward"]

-----------------------------------------------------------------------------
\* DispatchError: a document that load accepts is served as it says.  A request
\* for which it has a route goes to the upstream the best route names, which has
\* addresses and no namesake, or is refused because that very upstream could not
\* be built: never because another one could not.
ServedAsConfigured ==
  Ready => \A q \in Queries :
    LET h == Handle(q)
    IN  IF h.outcome = "NoRoute" THEN Candidates(q) = {}
        ELSE LET name == doc.routes[h.route].upstream
             IN  \E k \in DOMAIN doc.upstreams :
                   /\ {j \in DOMAIN doc.upstreams : doc.upstreams[j].name = name} = {k}
                   /\ doc.upstreams[k].addrs > 0
                   /\ IF k \in skipped THEN h.outcome = "UpstreamNotRegistered"
                      ELSE h.outcome = "forward" /\ by_name[name] = k

\* schema.rs: an upstream without a tls table is reached in plaintext, so one
\* with it over TLS, by requests as by probes.
TlsToUpstream ==
  Ready => \A k \in DOMAIN doc.upstreams :
    by_name[doc.upstreams[k].name] = k => ForwardScheme(doc.upstreams[k]) = ProbeScheme(doc.upstreams[k])
=============================================================================
