------------------------------- MODULE Reload -------------------------------
(***************************************************************************)
(* Hot reload on SIGHUP (install_reload_handler in                         *)
(* crates/conduit/src/main.rs): the reload thread reads the config file,   *)
(* then stores a fresh Dispatch in every swappable, one after the other,   *)
(* then rebuilds the certificate table, while requests of every plane load *)
(* the Dispatch of their swappable.  The operator may edit the files at    *)
(* any time; the PEM files are read later than the config.                 *)
(***************************************************************************)
EXTENDS Certs

CONSTANTS
  Workers,      \* number of HTTP workers; swappable 0 is the primary
  Requests,     \* request tasks
  MaxVersion,   \* bound on the versions of the config file
  MaxHups,      \* bound on the SIGHUPs
  MaxEdits,     \* bound on the edits of all files
  CertSpecs,    \* the `[[tls.certs]]` of each version; <<>> is no [tls] section
  Names         \* server names of client hellos

ASSUME ReloadAssumption ==
  /\ Workers \in Nat \ {0}
  /\ MaxVersion \in Nat
  /\ MaxHups \in Nat
  /\ MaxEdits \in Nat
  /\ DOMAIN CertSpecs = 0..MaxVersion /\ CertSpecs[0] # <<>>
  /\ \A v \in 0..MaxVersion : CertSpecs[v] \in Seq(CertSpec)
  /\ Names \subseteq ServerName

Swaps == 0..Workers

\* The CA bundle, client certificate and key of the upstreams' [upstream.tls].
CaFile == "ca"
EntryFiles(v) == UNION {Range(FilesOf(CertSpecs[v][k])) : k \in DOMAIN CertSpecs[v]}
Files == {CaFile} \cup UNION {EntryFiles(v) : v \in 0..MaxVersion}

VARIABLES
  disk,     \* the config file: its version, and whether check_logic accepts it
  pem,      \* the contents of the certificate, key, OCSP and CA files
  edits,    \* how many edits there were of any file
  pending,  \* a SIGHUP has been delivered; several are one
  hups,     \* how many were sent
  pc,       \* the reload thread
  loaded,   \* the config it has read
  index,    \* the next swappable it stores
  rows,     \* the entries build_table has read; the last may be incomplete
  gen,      \* reloads so far: which of them built a Dispatch
  swaps,    \* what each swappable holds
  certs,    \* what the HTTPS plane's certificate table was built from
  held,     \* the Dispatch each request in flight has loaded
  rejected  \* history: versions that check_logic does not accept

vars == <<disk, pem, edits, pending, hups, pc, loaded, index, rows, gen, swaps,
          certs, held, rejected>>

files == <<disk, pem, edits, rejected>>
live == <<swaps, certs>>
thread == <<pc, loaded, index, rows, gen>>

\* A Dispatch: the config it was built from, the build, and whether every
\* upstream the config names could be built.
Dispatch(v, g, whole) == [ver |-> v, gen |-> g, whole |-> whole]
None == [ver |-> 0, gen |-> 0, whole |-> TRUE, slot |-> Workers + 1]

\* What build_table reads when no file is edited meanwhile.
RowsOf(v) ==
  [k \in DOMAIN CertSpecs[v] |->
     [j \in DOMAIN FilesOf(CertSpecs[v][k]) |-> pem[FilesOf(CertSpecs[v][k])[j]]]]

\* The table that MultiCertResolver holds.
Table == BuildTable(CertSpecs[certs.ver], certs.rows)

\* main has started every plane from version 0; the files are at rest meanwhile.
Init ==
  /\ disk = [ver |-> 0, valid |-> TRUE]
  /\ pem = [f \in Files |-> 0]
  /\ edits = 0
  /\ pending = FALSE
  /\ hups = 0
  /\ pc = "wait"
  /\ loaded = 0
  /\ index = 0
  /\ rows = <<>>
  /\ gen = 0
  /\ swaps = [s \in Swaps |-> Dispatch(0, 0, TRUE)]
  /\ certs = [ver |-> 0, rows |-> RowsOf(0)]
  /\ held = [r \in Requests |-> None]
  /\ rejected = {}

-----------------------------------------------------------------------------
(* The operator *)

EditConfig(ok) ==
  /\ disk.ver < MaxVersion /\ edits < MaxEdits
  /\ edits' = edits + 1
  /\ disk' = [ver |-> disk.ver + 1, valid |-> ok]
  /\ rejected' = IF ok THEN rejected ELSE rejected \cup {disk.ver + 1}
  /\ UNCHANGED <<pem, pending, hups, thread, live, held>>

\* A file is renewed, removed, or left unusable; a certificate and its key are
\* renewed one after the other.
EditPem(f) ==
  /\ edits < MaxEdits
  /\ edits' = edits + 1
  /\ \E content \in {edits + 1, Missing, Garbage} : pem' = [pem EXCEPT ![f] = content]
  /\ UNCHANGED <<disk, rejected, pending, hups, thread, live, held>>

SendHup ==
  /\ hups < MaxHups
  /\ hups' = hups + 1
  /\ pending' = TRUE
  /\ UNCHANGED <<files, thread, live, held>>

-----------------------------------------------------------------------------
(* The reload thread *)

\* The iterator yields a signal: from here on another SIGHUP is a new one.
TakeHup ==
  /\ pc = "wait" /\ pending
  /\ pending' = FALSE
  /\ pc' = "load"
  /\ UNCHANGED <<files, hups, loaded, index, rows, gen, live, held>>

\* check_filesystem: certificates and keys must be files; OCSP responses and the
\* files of upstreams are not looked at, and nothing is parsed.
FilesPresent(v) ==
  \A k \in DOMAIN CertSpecs[v] :
    \A f \in {CertSpecs[v][k].cert, CertSpecs[v][k].key} : pem[f] # Missing

\* Mutant: a config that fails validation is used all the same.
AcceptsMut == FilesPresent(disk.ver)

\* conduit_config::load
Accepts == disk.valid /\ FilesPresent(disk.ver)

\* An error leaves everything as it is.
LoadConfig ==
  /\ pc = "load"
  /\ \/ /\ Accepts
        /\ pc' = "store" /\ loaded' = disk.ver /\ index' = 0 /\ gen' = gen + 1
     \/ /\ ~Accepts
        /\ pc' = "wait" /\ UNCHANGED <<loaded, index, gen>>
  /\ UNCHANGED <<files, pending, hups, rows, live, held>>

\* Mutant: the last worker's swappable is forgotten.
LastSwapMut == Workers - 1

\* Mutant: the stores run one past the last swappable.
LastSwapPast == Workers + 1

LastSwap == Workers

\* `swap.store(Arc::new(Dispatch::from_config(&cfg)))`; UpstreamMap::from_config
\* reads the upstreams' PEM files and skips an upstream it cannot build.
\* Without a [tls] section there is no table to rebuild.
StoreSwap ==
  /\ pc = "store"
  /\ swaps' = [swaps EXCEPT ![index] = Dispatch(loaded, gen, Usable(pem[CaFile]))]
  /\ index' = index + 1
  /\ pc' = IF index < LastSwap THEN "store"
           ELSE IF CertSpecs[loaded] = <<>> THEN "wait" ELSE "read"
  /\ rows' = IF index < LastSwap THEN rows ELSE << <<>> >>
  /\ UNCHANGED <<files, pending, hups, loaded, gen, certs, held>>

\* resolver.reload reads the files of every entry in turn.
Reading == CertSpecs[loaded][Len(rows)]
NextFile == FilesOf(Reading)[Len(rows[Len(rows)]) + 1]
Readable == Reads(Len(rows[Len(rows)]) + 1, pem[NextFile])
WithFile == [rows EXCEPT ![Len(rows)] = Append(@, pem[NextFile])]

ReadFile ==
  /\ pc = "read"
  /\ Readable
  /\ IF Len(WithFile[Len(rows)]) < Len(FilesOf(Reading)) THEN rows' = WithFile /\ UNCHANGED pc
     ELSE IF Len(rows) < Len(CertSpecs[loaded]) THEN rows' = Append(WithFile, <<>>) /\ UNCHANGED pc
     ELSE rows' = WithFile /\ pc' = "swap"
  /\ UNCHANGED <<files, pending, hups, loaded, index, gen, live, held>>

\* Any error gives up the whole table, and the previous one stays.
ReadFails ==
  /\ pc = "read"
  /\ ~Readable
  /\ pc' = "wait"
  /\ rows' = <<>>
  /\ UNCHANGED <<files, pending, hups, loaded, index, gen, live, held>>

\* Mutant: signals that arrived during the reload are discarded at its end.
StoreTableMut ==
  /\ pc = "swap"
  /\ certs' = [ver |-> loaded, rows |-> rows]
  /\ pc' = "wait"
  /\ rows' = <<>>
  /\ pending' = FALSE
  /\ UNCHANGED <<files, hups, loaded, index, gen, swaps, held>>

\* `self.inner.store(Arc::new(table))`
StoreTable ==
  /\ pc = "swap"
  /\ certs' = [ver |-> loaded, rows |-> rows]
  /\ pc' = "wait"
  /\ rows' = <<>>
  /\ UNCHANGED <<files, pending, hups, loaded, index, gen, swaps, held>>

-----------------------------------------------------------------------------
(* Requests: `dispatch.load_full()` on arrival, held to the end. *)

LoadFull(r, s) ==
  /\ held[r] = None
  /\ held' = [held EXCEPT ![r] = [ver |-> swaps[s].ver, gen |-> swaps[s].gen,
                                  whole |-> swaps[s].whole, slot |-> s]]
  /\ UNCHANGED <<files, pending, hups, thread, live>>

Finish(r) ==
  /\ held[r] # None
  /\ held' = [held EXCEPT ![r] = None]
  /\ UNCHANGED <<files, pending, hups, thread, live>>

Next ==
  \/ \E ok \in BOOLEAN : EditConfig(ok)
  \/ \E f \in Files : EditPem(f)
  \/ SendHup
  \/ TakeHup \/ LoadConfig \/ StoreSwap \/ ReadFile \/ ReadFails \/ StoreTable
  \/ \E r \in Requests : Finish(r) \/ \E s \in Swaps : LoadFull(r, s)

Spec == Init /\ [][Next]_vars

\* The reload thread runs.
FairSpec ==
  Spec /\ WF_vars(TakeHup \/ LoadConfig \/ StoreSwap \/ ReadFile \/ ReadFails \/ StoreTable)

-----------------------------------------------------------------------------
Held == [ver : Nat, gen : Nat, whole : BOOLEAN, slot : Swaps \cup {Workers + 1}]

TypeOK ==
  /\ disk \in [ver : 0..MaxVersion, valid : BOOLEAN]
  /\ pem \in [Files -> Int] /\ edits \in 0..MaxEdits
  /\ pending \in BOOLEAN
  /\ hups \in 0..MaxHups
  /\ pc \in {"wait", "load", "store", "read", "swap"}
  /\ loaded \in 0..MaxVersion
  /\ index \in 0..(Workers + 1)
  /\ rows \in Seq(Seq(Int))
  /\ gen \in Nat
  /\ swaps \in [Swaps -> [ver : Nat, gen : Nat, whole : BOOLEAN]]
  /\ certs.ver \in 0..MaxVersion
  /\ held \in [Requests -> Held]
  /\ rejected \subseteq Nat

\* Between reloads every swappable holds a Dispatch of the same config and the
\* same build: a reload leaves no worker behind, wherever edits and further
\* SIGHUPs fall.
UniformBetweenReloads ==
  pc \in {"wait", "load"} =>
    \A s, t \in Swaps : swaps[s].ver = swaps[t].ver /\ swaps[s].gen = swaps[t].gen

\* Neither a swappable, nor the certificate table, nor a request ever uses a
\* config that validation rejects.
RejectedNeverServed ==
  /\ \A s \in Swaps : swaps[s].ver \notin rejected
  /\ certs.ver \notin rejected
  /\ \A r \in Requests : held[r].ver \notin rejected

\* A SIGHUP is never lost, not even one that arrives during a reload: the
\* config on disk when it is sent, if it stays and is valid, gets everywhere,
\* and so do the certificate and key files it names, if they are all usable and
\* stay as they are: a table that mixes an old certificate with a new key is
\* mended, and so is a Dispatch that was built without one of its upstreams.  The
\* certificates are included because reload_once reads them again, where CONFIG.md
\* and ARCHITECTURE.md still ask for a restart.
FilesUsable(v) ==
  /\ Usable(pem[CaFile])
  /\ \A k \in DOMAIN CertSpecs[v] : \A j \in DOMAIN FilesOf(CertSpecs[v][k]) :
       Reads(j, pem[FilesOf(CertSpecs[v][k])[j]])
Current(v) ==
  /\ CertSpecs[v] # <<>> => certs = [ver |-> v, rows |-> RowsOf(v)]
  /\ \A s \in Swaps : swaps[s].ver = v /\ swaps[s].whole
HupConverges ==
  \A e \in 0..MaxEdits :
    (pending /\ disk.valid /\ FilesUsable(disk.ver) /\ edits = e)
      ~> (edits # e \/ Current(disk.ver))

\* Whatever is edited during a reload, and whichever of its reads fails, the table
\* in use is a whole table of one accepted config: every client hello gets a
\* usable certificate of the entry that the rule of load_server_config picks,
\* among all the entries of that config (CONFIG.md still says that the first entry
\* is used for every name).
HandshakeGetsItsCert ==
  LET table == Table
      specs == CertSpecs[certs.ver]
  IN  \A name \in Names :
        LET ck == Resolve(table, name)
        IN  /\ RightEntry(specs, name, ck.spec)
            /\ Len(ck.pem) = Len(FilesOf(specs[ck.spec]))
            /\ \A j \in DOMAIN ck.pem : Reads(j, ck.pem[j])

\* The comment on start_health_probes: probes update the same breakers the
\* request hot path consults.  spawn_health_thread takes them once, from what the
\* primary holds at startup.
Probed == [slot |-> 0, gen |-> 0]
ProbesReachHotPath ==
  \A r \in Requests :
    held[r] # None => held[r].slot = Probed.slot /\ held[r].gen = Probed.gen
=============================================================================
