-------------------------------- MODULE Certs --------------------------------
(***************************************************************************)
(* The certificate table of crates/conduit-transport/src/tls.rs: how it is *)
(* built from the `[[tls.certs]]` entries, and which certificate a         *)
(* handshake gets from it.  A server name is a sequence of labels with a   *)
(* case; a file is known by its content, a number that tells versions of   *)
(* it apart.                                                               *)
(***************************************************************************)
EXTENDS Integers, Sequences, FiniteSetsExt

\* A server name, and a CertSpec of the config schema.
ServerName == [labels : Seq(STRING), upper : BOOLEAN]
CertSpec == [sni : ServerName, cert : STRING, key : STRING, ocsp : Seq(STRING)]

\* What std::fs::read and the PEM parser cannot use: no such file, and a file
\* with no usable item or with a bad one.
Missing == -2
Garbage == -1
Usable(content) == content >= 0

\* load_certs, load_key (with any_supported_type) and the read of an OCSP
\* response: the files an entry needs, in the order they are read.
FilesOf(spec) == <<spec.cert, spec.key>> \o spec.ocsp

\* The j-th of them can be used: an OCSP response is read and not parsed.
Reads(j, content) == IF j <= 2 THEN Usable(content) ELSE content # Missing

\* Case is folded by to_ascii_lowercase; no label differs otherwise.
Folded(name) == name.labels
IsWildcard(spec) == Len(spec.sni.labels) > 1 /\ Head(spec.sni.labels) = "*"

\* A CertifiedKey: its entry, and the contents it was made of.  Nothing compares
\* the certificate with the key.
CertifiedKey(k, row) == [spec |-> k, pem |-> row]

\* Mutant: the entry read last is the fallback.
BuildTableMut(specs, rows) ==
  LET wild == {k \in DOMAIN specs : IsWildcard(specs[k])}
      at(n) == {k \in DOMAIN specs \ wild : Folded(specs[k].sni) = n}
      ck(k) == CertifiedKey(k, rows[k])
  IN  [exact |-> [n \in {Folded(specs[k].sni) : k \in DOMAIN specs \ wild} |-> ck(Max(at(n)))],
       wildcard |-> [k \in wild |-> [suffix |-> Tail(Folded(specs[k].sni)), ck |-> ck(k)]],
       fallback |-> ck(Len(specs))]

\* build_table, once every entry has been read: exact names in a map where a
\* later entry replaces an earlier one, wildcards in declared order (each at the
\* place of its entry), and the first entry as the fallback.
BuildTable(specs, rows) ==
  LET wild == {k \in DOMAIN specs : IsWildcard(specs[k])}
      at(n) == {k \in DOMAIN specs \ wild : Folded(specs[k].sni) = n}
      ck(k) == CertifiedKey(k, rows[k])
  IN  [exact |-> [n \in {Folded(specs[k].sni) : k \in DOMAIN specs \ wild} |-> ck(Max(at(n)))],
       wildcard |-> [k \in wild |-> [suffix |-> Tail(Folded(specs[k].sni)), ck |-> ck(k)]],
       fallback |-> ck(1)]

\* MultiCertResolver::lookup; one label is cut off before the wildcards, of
\* which the first that matches is taken.
Lookup(table, name) ==
  LET key == Folded(name)
      hits == {k \in DOMAIN table.wildcard :
                 Len(key) > 1 /\ table.wildcard[k].suffix = Tail(key)}
  IN  IF key \in DOMAIN table.exact THEN table.exact[key]
      ELSE IF hits # {} THEN table.wildcard[Min(hits)].ck
      ELSE table.fallback

\* ResolvesServerCert::resolve; a client that sends no name sends <<>>.
Resolve(table, name) == IF Folded(name) = <<>> THEN table.fallback ELSE Lookup(table, name)

-----------------------------------------------------------------------------
(* What the table stands for *)

\* The pattern of the entry is the name itself, or covers it one label down.
IsFor(spec, name) == ~IsWildcard(spec) /\ Folded(spec.sni) = Folded(name)
Covers(spec, name) ==
  /\ IsWildcard(spec)
  /\ Len(Folded(name)) = Len(Folded(spec.sni))
  /\ Tail(Folded(name)) = Tail(Folded(spec.sni))

\* The doc of load_server_config: an exact match, else a wildcard one label up,
\* else, and when no name is sent, the first entry of the config.
RightEntry(specs, name, k) ==
  IF Folded(name) = <<>> THEN k = 1
  ELSE IF \E j \in DOMAIN specs : IsFor(specs[j], name) THEN IsFor(specs[k], name)
  ELSE IF \E j \in DOMAIN specs : Covers(specs[j], name) THEN Covers(specs[k], name)
  ELSE k = 1
==============================================================================
