---------------------------- MODULE ReloadProofs ----------------------------
(***************************************************************************)
(* Proofs about the hot reload (modules Reload and Certs), for any number  *)
(* of workers and requests, any versions of the config and any             *)
(* certificate entries that satisfy ReloadAssumption.                      *)
(***************************************************************************)
EXTENDS Reload, WellFoundedInduction, TLAPS

-----------------------------------------------------------------------------
(* Least and greatest elements *)

\* The order of the naturals, as a relation.
Below == {p \in Nat \X Nat : p[1] < p[2]}

\* A non-empty set of naturals has a least element.
LEMMA LeastElement ==
  ASSUME NEW S, S \subseteq Nat, S # {}
  PROVE  \E x \in S : \A y \in S : x =< y
<1>1. IsWellFoundedOn(Below, Nat)
  BY NatLessThanWellFounded DEF OpToRel, Below
<1>2. PICK x \in S : \A y \in S : ~(<<y, x>> \in Below)
  BY Zenon, <1>1, WFMin
<1>3. \A y \in S : x =< y
  <2> SUFFICES ASSUME NEW y \in S, ~(x =< y) PROVE FALSE
    OBVIOUS
  <2>1. x \in Nat /\ y \in Nat /\ y < x
    OBVIOUS
  <2>2. <<y, x>> \in Nat \X Nat /\ <<y, x>>[1] = y /\ <<y, x>>[2] = x
    BY <2>1
  <2>3. <<y, x>> \in Below
    BY <2>1, <2>2, Zenon DEF Below
  <2> QED
    BY <1>2, <2>3
<1> QED
  BY <1>3

\* Min picks one of the elements: the first wildcard that matches is one of
\* those that do.
LEMMA MinIn ==
  ASSUME NEW S, S \subseteq Nat, S # {}
  PROVE  Min(S) \in S
BY Zenon, LeastElement DEF Min

\* And so does Max of a bounded set: the last entry of a name is an entry of it.
LEMMA MaxIn ==
  ASSUME NEW n \in Nat, NEW S, S \subseteq 1..n, S # {}
  PROVE  Max(S) \in S
<1> DEFINE T == {n - k : k \in S}
<1>1. \A k \in S : k \in Nat /\ n - k \in Nat
  OBVIOUS
<1>2. T \subseteq Nat /\ T # {}
  BY Zenon, <1>1
<1>3. PICK x \in T : \A y \in T : x =< y
  BY Zenon, <1>2, LeastElement
<1>4. PICK k \in S : x = n - k
  OBVIOUS
<1>5. \A j \in S : n - k =< n - j
  BY Zenon, <1>3, <1>4
<1>6. \A j \in S : k >= j
  BY <1>1, <1>5
<1> QED
  BY Zenon, <1>6 DEF Max

-----------------------------------------------------------------------------
(* What a handshake gets from a table *)

\* MultiCertResolver::resolve on a table that build_table has built answers with
\* the certificate of an entry that the rule of load_server_config picks, for
\* any entries and any name.
LEMMA ResolveCorrect ==
  ASSUME NEW specs \in Seq(CertSpec), specs # <<>>, NEW rs, NEW name \in ServerName
  PROVE  \E k \in DOMAIN specs :
           /\ Resolve(BuildTable(specs, rs), name) = CertifiedKey(k, rs[k])
           /\ RightEntry(specs, name, k)
<1> DEFINE wild == {k \in DOMAIN specs : IsWildcard(specs[k])}
           at(n) == {k \in DOMAIN specs \ wild : Folded(specs[k].sni) = n}
           ck(k) == CertifiedKey(k, rs[k])
           exact == [n \in {Folded(specs[k].sni) : k \in DOMAIN specs \ wild} |-> ck(Max(at(n)))]
           wildcard == [k \in wild |-> [suffix |-> Tail(Folded(specs[k].sni)), ck |-> ck(k)]]
           table == BuildTable(specs, rs)
           key == Folded(name)
           hits == {k \in wild : Len(key) > 1 /\ Tail(Folded(specs[k].sni)) = Tail(key)}
<1>1. /\ DOMAIN specs = 1..Len(specs) /\ Len(specs) \in Nat /\ 1 \in DOMAIN specs
      /\ \A k \in DOMAIN specs : Folded(specs[k].sni) \in Seq(STRING)
      /\ key \in Seq(STRING)
  <2>1. DOMAIN specs = 1..Len(specs) /\ Len(specs) \in Nat /\ 1 \in DOMAIN specs
    OBVIOUS
  <2>2. \A k \in DOMAIN specs : specs[k] \in CertSpec
    OBVIOUS
  <2>3. \A k \in DOMAIN specs : Folded(specs[k].sni) \in Seq(STRING)
    BY <2>2 DEF CertSpec, ServerName, Folded
  <2>4. key \in Seq(STRING)
    BY DEF ServerName, Folded
  <2> QED
    BY <2>1, <2>3, <2>4
<1>2. table = [exact |-> exact, wildcard |-> wildcard, fallback |-> ck(1)]
  BY DEF BuildTable
<1> HIDE DEF table
<1>3. CASE key = <<>>
  <2>1. Resolve(table, name) = ck(1)
    BY <1>2, <1>3 DEF Resolve
  <2>2. RightEntry(specs, name, 1)
    BY <1>3 DEF RightEntry
  <2> QED
    BY <1>1, <2>1, <2>2 DEF table
<1>4. CASE key # <<>> /\ \E k \in DOMAIN specs \ wild : Folded(specs[k].sni) = key
  <2>1. Max(at(key)) \in at(key)
    BY Zenon, <1>1, <1>4, MaxIn
  <2>2. key \in DOMAIN table.exact /\ table.exact[key] = ck(Max(at(key)))
    BY Zenon, <1>2, <1>4
  <2>3. Resolve(table, name) = ck(Max(at(key)))
    BY <1>4, <2>2 DEF Resolve, Lookup
  <2>4. RightEntry(specs, name, Max(at(key)))
    BY <1>4, <2>1 DEF RightEntry, IsFor
  <2> QED
    BY Zenon, <2>1, <2>3, <2>4 DEF table
<1>5. CASE key # <<>> /\ ~\E k \in DOMAIN specs \ wild : Folded(specs[k].sni) = key
  <2>1. key \notin DOMAIN table.exact
    BY <1>2, <1>5
  <2>2. ~\E k \in DOMAIN specs : IsFor(specs[k], name)
    BY <1>5 DEF IsFor
  <2>3. {k \in DOMAIN table.wildcard : Len(key) > 1 /\ table.wildcard[k].suffix = Tail(key)} = hits
    BY <1>2
  <2>4. \A k \in DOMAIN specs : Covers(specs[k], name) <=> k \in hits
    <3> SUFFICES ASSUME NEW k \in DOMAIN specs PROVE Covers(specs[k], name) <=> k \in hits
      OBVIOUS
    <3>1. IsWildcard(specs[k]) => Len(Folded(specs[k].sni)) > 1
      BY DEF IsWildcard, Folded
    <3>2. ASSUME k \in hits PROVE Len(key) = Len(Folded(specs[k].sni))
      <4> DEFINE s == Folded(specs[k].sni)
      <4>1. s \in Seq(STRING) /\ Len(s) > 1 /\ Len(key) > 1 /\ Tail(s) = Tail(key)
        BY <1>1, <3>1, <3>2
      <4>2. Len(Tail(s)) = Len(s) - 1 /\ Len(Tail(key)) = Len(key) - 1
        BY <1>1, <4>1
      <4> QED
        BY <1>1, <4>1, <4>2
    <3> QED
      BY <3>1, <3>2 DEF Covers
  <2>5. CASE hits # {}
    <3>1. Min(hits) \in hits
      <4>1. hits \subseteq Nat
        BY <1>1
      <4> QED
        BY Zenon, <2>5, <4>1, MinIn
    <3>2. Resolve(table, name) = ck(Min(hits))
      BY Zenon, <1>2, <1>5, <2>1, <2>3, <2>5, <3>1 DEF Resolve, Lookup
    <3>3. RightEntry(specs, name, Min(hits))
      BY Zenon, <1>5, <2>2, <2>4, <3>1 DEF RightEntry
    <3> QED
      BY Zenon, <3>1, <3>2, <3>3 DEF table
  <2>6. CASE hits = {}
    <3>1. Resolve(table, name) = ck(1)
      BY Zenon, <1>2, <1>5, <2>1, <2>3, <2>6 DEF Resolve, Lookup
    <3>2. RightEntry(specs, name, 1)
      BY <1>5, <2>2, <2>4, <2>6 DEF RightEntry
    <3> QED
      BY <1>1, <3>1, <3>2 DEF table
  <2> QED
    BY <2>5, <2>6
<1> QED
  BY <1>3, <1>4, <1>5

-----------------------------------------------------------------------------
(* The files of the entries *)

\* The files of an entry are a certificate, a key and possibly an OCSP response.
LEMMA FilesOfType ==
  ASSUME NEW v \in 0..MaxVersion, NEW k \in DOMAIN CertSpecs[v]
  PROVE  /\ FilesOf(CertSpecs[v][k]) \in Seq(STRING)
         /\ Len(FilesOf(CertSpecs[v][k])) >= 2
         /\ \A j \in 1..Len(FilesOf(CertSpecs[v][k])) : FilesOf(CertSpecs[v][k])[j] \in Files
<1> DEFINE spec == CertSpecs[v][k]
           names == FilesOf(spec)
<1>1. spec \in CertSpec
  BY ReloadAssumption
<1>2. spec.cert \in STRING /\ spec.key \in STRING /\ spec.ocsp \in Seq(STRING)
  BY <1>1 DEF CertSpec
<1>3. <<spec.cert, spec.key>> \in Seq(STRING) /\ Len(<<spec.cert, spec.key>>) = 2
  BY <1>2
<1>4. names \in Seq(STRING) /\ Len(names) = 2 + Len(spec.ocsp)
  BY <1>2, <1>3 DEF FilesOf
<1>5. \A j \in 1..Len(names) : names[j] \in Range(names)
  BY <1>4 DEF Range
<1>6. Range(names) \subseteq Files
  <2>1. Range(names) \subseteq EntryFiles(v)
    BY DEF EntryFiles
  <2>2. EntryFiles(v) \subseteq Files
    BY DEF Files
  <2> QED
    BY <2>1, <2>2
<1> QED
  BY <1>2, <1>4, <1>5, <1>6

\* The row of an entry whose files were all read and could be used.
FullRow(v, k, row) == Len(row) = Len(FilesOf(CertSpecs[v][k]))
GoodRow(row) == \A j \in 1..Len(row) : Reads(j, row[j])

\* The rows of a whole table of config v.
WholeTable(v, rs) ==
  /\ CertSpecs[v] # <<>>
  /\ rs \in Seq(Seq(Int)) /\ Len(rs) = Len(CertSpecs[v])
  /\ \A k \in 1..Len(rs) : FullRow(v, k, rs[k]) /\ GoodRow(rs[k])

\* How far build_table is: the entry it reads is one of the config's, the
\* entries before it are complete, and a file of this one is still to be read.
ReadingInv ==
  /\ Len(rows) \in 1..Len(CertSpecs[loaded])
  /\ \A k \in 1..(Len(rows) - 1) : FullRow(loaded, k, rows[k])
  /\ \A k \in 1..Len(rows) : GoodRow(rows[k])
  /\ Len(rows[Len(rows)]) < Len(FilesOf(CertSpecs[loaded][Len(rows)]))

\* Only a whole table gets to the swap, so only a whole table is in use.
TableInv ==
  /\ WholeTable(certs.ver, certs.rows)
  /\ pc = "read" => ReadingInv
  /\ pc = "swap" => WholeTable(loaded, rows)

\* The steps of the reload thread stay within the swappables.
StoreInv == pc = "store" => index \in Swaps

ReloadInv == TypeOK /\ StoreInv /\ TableInv

-----------------------------------------------------------------------------
(* One file more *)

\* Reading a file appends its contents to the last row and leaves the others.
LEMMA WithFileEffect ==
  ASSUME TypeOK, ReadingInv, Readable
  PROVE  /\ WithFile \in Seq(Seq(Int)) /\ Len(WithFile) = Len(rows)
         /\ \A k \in 1..(Len(rows) - 1) : WithFile[k] = rows[k]
         /\ Len(WithFile[Len(rows)]) = Len(rows[Len(rows)]) + 1
         /\ \A k \in 1..Len(rows) : GoodRow(WithFile[k])
<1> DEFINE n == Len(rows)
           last == rows[n]
           content == pem[NextFile]
           new == Append(last, content)
<1>1. n \in 1..Len(CertSpecs[loaded]) /\ n \in Nat /\ loaded \in 0..MaxVersion /\ rows \in Seq(Seq(Int))
  BY ReloadAssumption DEF TypeOK, ReadingInv
<1>2. last \in Seq(Int) /\ Len(last) \in Nat /\ DOMAIN rows = 1..n
  BY <1>1
<1>3. n \in DOMAIN CertSpecs[loaded]
  BY <1>1, ReloadAssumption
<1>4. NextFile \in Files
  <2>1. NextFile = FilesOf(CertSpecs[loaded][n])[Len(last) + 1]
    BY DEF NextFile, Reading
  <2>2. Len(last) + 1 \in 1..Len(FilesOf(CertSpecs[loaded][n]))
    BY <1>1, <1>2, <1>3, FilesOfType DEF ReadingInv
  <2> QED
    BY <1>1, <1>3, <2>1, <2>2, FilesOfType
<1>5. content \in Int /\ Reads(Len(last) + 1, content)
  BY <1>4 DEF TypeOK, Readable
<1>6. WithFile = [rows EXCEPT ![n] = new]
  BY DEF WithFile
<1> HIDE DEF content
<1>7. new \in Seq(Int) /\ Len(new) = Len(last) + 1
  BY <1>2, <1>5
<1>8. GoodRow(new)
  <2>1. GoodRow(last)
    BY <1>1 DEF ReadingInv
  <2> SUFFICES ASSUME NEW j \in 1..(Len(last) + 1) PROVE Reads(j, new[j])
    BY <1>7 DEF GoodRow
  <2>2. CASE j = Len(last) + 1
    BY <1>2, <1>5, <2>2
  <2>3. CASE j # Len(last) + 1
    BY <1>2, <1>5, <2>1, <2>3 DEF GoodRow
  <2> QED
    BY <2>2, <2>3
<1> HIDE DEF new
<1>9. WithFile \in Seq(Seq(Int)) /\ Len(WithFile) = n
  BY <1>1, <1>6, <1>7
<1>10. n \in DOMAIN rows
  BY <1>1, <1>2
<1>11. WithFile[n] = new /\ \A k \in DOMAIN rows : k # n => WithFile[k] = rows[k]
  BY <1>6, <1>10, Zenon
<1>12. \A k \in 1..n : GoodRow(WithFile[k])
  BY <1>2, <1>8, <1>11 DEF ReadingInv
<1>13. \A k \in 1..(n - 1) : WithFile[k] = rows[k]
  <2>1. \A k \in 1..(n - 1) : k \in 1..n /\ k # n
    BY <1>1
  <2> QED
    BY Zenon, <1>2, <1>11, <2>1
<1> QED
  BY <1>7, <1>9, <1>11, <1>12, <1>13

-----------------------------------------------------------------------------
(* Type correctness *)

\* start-up has read the files of the first config, so the table is whole.
LEMMA ReloadInit == Init => ReloadInv
<1> SUFFICES ASSUME Init PROVE ReloadInv
  OBVIOUS
<1>1. /\ CertSpecs[0] \in Seq(CertSpec) /\ CertSpecs[0] # <<>> /\ 0 \in 0..MaxVersion
      /\ DOMAIN CertSpecs[0] = 1..Len(CertSpecs[0])
  BY ReloadAssumption
<1>2. certs.ver = 0 /\ certs.rows = RowsOf(0) /\ pem = [f \in Files |-> 0]
  BY DEF Init
<1>3. ASSUME NEW k \in 1..Len(CertSpecs[0])
      PROVE  /\ certs.rows[k] \in Seq(Int)
             /\ FullRow(0, k, certs.rows[k]) /\ GoodRow(certs.rows[k])
  <2> DEFINE names == FilesOf(CertSpecs[0][k])
             row == [j \in 1..Len(names) |-> 0]
  <2>1. names \in Seq(STRING) /\ \A j \in 1..Len(names) : names[j] \in Files
    BY <1>1, FilesOfType
  <2>2. DOMAIN names = 1..Len(names) /\ Len(names) \in Nat
    BY <2>1
  <2>3. certs.rows[k] = [j \in DOMAIN names |-> pem[names[j]]]
    BY <1>1, <1>2 DEF RowsOf
  <2> HIDE DEF names
  <2>4. certs.rows[k] = row
    BY <1>2, <2>1, <2>2, <2>3
  <2>5. row \in Seq(Int) /\ Len(row) = Len(names)
    BY <2>2
  <2>6. \A j \in 1..Len(names) : Reads(j, row[j])
    BY DEF Reads, Usable, Missing
  <2> HIDE DEF row
  <2> QED
    BY <2>4, <2>5, <2>6 DEF FullRow, GoodRow, names
<1>4. WholeTable(certs.ver, certs.rows)
  <2>1. DOMAIN certs.rows = 1..Len(CertSpecs[0]) /\ Len(CertSpecs[0]) \in Nat
    BY <1>1, <1>2 DEF RowsOf
  <2>2. certs.rows = [k \in 1..Len(CertSpecs[0]) |-> certs.rows[k]]
    BY <1>1, <1>2 DEF RowsOf
  <2>3. certs.rows \in Seq(Seq(Int)) /\ Len(certs.rows) = Len(CertSpecs[0])
    BY <1>3, <2>1, <2>2
  <2> QED
    BY <1>1, <1>2, <1>3, <2>3 DEF WholeTable
<1>5. TypeOK
  <2> USE ReloadAssumption DEF Init
  <2>1. disk \in [ver : 0..MaxVersion, valid : BOOLEAN]
    BY <1>1
  <2>2. pending \in BOOLEAN
    BY Zenon
  <2>3. swaps \in [Swaps -> [ver : Nat, gen : Nat, whole : BOOLEAN]]
    BY DEF Dispatch
  <2>4. held \in [Requests -> Held]
    <3>1. None \in Held
      BY DEF Held, None
    <3> QED
      BY <3>1
  <2>5. /\ pem \in [Files -> Int] /\ edits \in 0..MaxEdits /\ hups \in 0..MaxHups
        /\ pc = "wait" /\ loaded \in 0..MaxVersion /\ index \in 0..(Workers + 1)
        /\ rows \in Seq(Seq(Int)) /\ gen \in Nat /\ certs.ver \in 0..MaxVersion
        /\ rejected \subseteq Nat
    BY <1>1, <1>2
  <2> HIDE DEF Init
  <2> QED
    BY <2>1, <2>2, <2>3, <2>4, <2>5 DEF TypeOK
<1> QED
  BY <1>4, <1>5 DEF Init, ReloadInv, StoreInv, TableInv

\* Steps that leave the reload thread and the table alone.
LEMMA ThreadKept ==
  ASSUME StoreInv, TableInv, UNCHANGED <<pc, loaded, index, rows, certs>>
  PROVE  StoreInv' /\ TableInv'
BY DEF StoreInv, TableInv, ReadingInv

\* The part of TypeOK that the reload thread does not write.
FilesType ==
  /\ disk \in [ver : 0..MaxVersion, valid : BOOLEAN]
  /\ pem \in [Files -> Int] /\ edits \in 0..MaxEdits
  /\ rejected \subseteq Nat

\* The part that only the reload thread writes.
ThreadType ==
  /\ pc \in {"wait", "load", "store", "read", "swap"}
  /\ loaded \in 0..MaxVersion
  /\ index \in 0..(Workers + 1)
  /\ rows \in Seq(Seq(Int))
  /\ gen \in Nat
  /\ swaps \in [Swaps -> [ver : Nat, gen : Nat, whole : BOOLEAN]]
  /\ certs.ver \in 0..MaxVersion

SignalType == pending \in BOOLEAN /\ hups \in 0..MaxHups

HeldType == held \in [Requests -> Held]

\* TypeOK, cut along the actors that write its variables.
LEMMA TypeParts == TypeOK <=> FilesType /\ ThreadType /\ SignalType /\ HeldType
BY DEF TypeOK, FilesType, ThreadType, SignalType, HeldType

\* The operator's edits keep the files well typed.
LEMMA FilesTypeStep ==
  ASSUME FilesType, [Next]_vars
  PROVE  FilesType'
<1> USE ReloadAssumption
<1>1. ASSUME NEW ok \in BOOLEAN, EditConfig(ok)
      PROVE  FilesType'
  <2>1. disk' \in [ver : 0..MaxVersion, valid : BOOLEAN]
    BY <1>1 DEF EditConfig, FilesType
  <2>2. edits' \in 0..MaxEdits
    BY <1>1 DEF EditConfig, FilesType
  <2>3. disk.ver + 1 \in Nat
    BY DEF FilesType
  <2>4. rejected' \in {rejected, rejected \cup {disk.ver + 1}} /\ pem' = pem
    BY <1>1 DEF EditConfig
  <2> QED
    BY <2>1, <2>2, <2>3, <2>4 DEF FilesType
<1>2. ASSUME NEW f \in Files, EditPem(f)
      PROVE  FilesType'
  <2>1. edits' \in 0..MaxEdits /\ UNCHANGED <<disk, rejected>>
    BY <1>2 DEF EditPem, FilesType
  <2>2. pem' \in [Files -> Int]
    BY <1>2 DEF EditPem, FilesType, Missing, Garbage
  <2> QED
    BY <2>1, <2>2 DEF FilesType
<1>3. ASSUME UNCHANGED <<disk, pem, edits, rejected>>
      PROVE  FilesType'
  BY <1>3 DEF FilesType
<1>4. SendHup \/ TakeHup \/ LoadConfig \/ StoreSwap \/ ReadFile \/ ReadFails \/ StoreTable
        => UNCHANGED <<disk, pem, edits, rejected>>
  BY DEF SendHup, TakeHup, LoadConfig, StoreSwap, ReadFile, ReadFails, StoreTable, files
<1>5. (\E r \in Requests : Finish(r) \/ \E s \in Swaps : LoadFull(r, s))
        => UNCHANGED <<disk, pem, edits, rejected>>
  BY DEF Finish, LoadFull, files
<1> QED
  BY <1>1, <1>2, <1>3, <1>4, <1>5 DEF Next, vars

\* A SIGHUP is pending or not, and no more come than the bound.
LEMMA SignalTypeStep ==
  ASSUME SignalType, [Next]_vars
  PROVE  SignalType'
<1> USE ReloadAssumption DEF SignalType
<1>1. CASE SendHup
  <2>1. pending' \in BOOLEAN
    BY <1>1, Zenon DEF SendHup
  <2>2. hups' \in 0..MaxHups
    BY <1>1 DEF SendHup
  <2> QED
    BY <2>1, <2>2
<1>2. CASE TakeHup
  <2>1. pending' \in BOOLEAN
    BY <1>2, Zenon DEF TakeHup
  <2>2. hups' \in 0..MaxHups
    BY <1>2 DEF TakeHup
  <2> QED
    BY <2>1, <2>2
<1>3. LoadConfig \/ StoreSwap \/ ReadFile \/ ReadFails \/ StoreTable => UNCHANGED <<pending, hups>>
  BY DEF LoadConfig, StoreSwap, ReadFile, ReadFails, StoreTable
<1>4. (\E r \in Requests : Finish(r) \/ \E s \in Swaps : LoadFull(r, s)) => UNCHANGED <<pending, hups>>
  BY DEF Finish, LoadFull
<1>5. (\E ok \in BOOLEAN : EditConfig(ok)) \/ (\E f \in Files : EditPem(f)) => UNCHANGED <<pending, hups>>
  BY DEF EditConfig, EditPem
<1> QED
  BY <1>1, <1>2, <1>3, <1>4, <1>5 DEF Next, vars

\* A request holds a copy of what its swappable held.
LEMMA HeldTypeStep ==
  ASSUME ThreadType, HeldType, [Next]_vars
  PROVE  HeldType'
<1>1. ASSUME NEW r \in Requests, Finish(r)
      PROVE  HeldType'
  <2>1. None \in Held
    BY ReloadAssumption DEF None, Held
  <2> QED
    BY <1>1, <2>1 DEF Finish, HeldType
<1>2. ASSUME NEW r \in Requests, NEW s \in Swaps, LoadFull(r, s)
      PROVE  HeldType'
  <2> DEFINE h == [ver |-> swaps[s].ver, gen |-> swaps[s].gen, whole |-> swaps[s].whole, slot |-> s]
  <2>1. swaps[s] \in [ver : Nat, gen : Nat, whole : BOOLEAN]
    BY DEF ThreadType
  <2>2. h \in Held
    BY <2>1 DEF Held
  <2>3. held' = [held EXCEPT ![r] = h]
    BY <1>2 DEF LoadFull
  <2> HIDE DEF h
  <2> QED
    BY <2>2, <2>3 DEF HeldType
<1>3. SendHup \/ TakeHup \/ LoadConfig \/ StoreSwap \/ ReadFile \/ ReadFails \/ StoreTable => held' = held
  BY DEF SendHup, TakeHup, LoadConfig, StoreSwap, ReadFile, ReadFails, StoreTable
<1>4. (\E ok \in BOOLEAN : EditConfig(ok)) \/ (\E f \in Files : EditPem(f)) => held' = held
  BY DEF EditConfig, EditPem
<1> QED
  BY <1>1, <1>2, <1>3, <1>4 DEF Next, vars, HeldType

\* The reload thread keeps its state, and only a table whose files were all read
\* and could be used becomes the one in use.
LEMMA ThreadStep ==
  ASSUME ReloadInv, [Next]_vars
  PROVE  ThreadType' /\ StoreInv' /\ TableInv'
<1>t. TypeOK /\ StoreInv /\ TableInv /\ FilesType /\ ThreadType
  BY TypeParts DEF ReloadInv
<1>c. Workers \in Nat \ {0} /\ MaxVersion \in Nat
  BY ReloadAssumption
<1> USE <1>c
<1>1. ASSUME UNCHANGED <<thread, live>>
      PROVE  ThreadType' /\ StoreInv' /\ TableInv'
  <2>1. UNCHANGED <<pc, loaded, index, rows, gen, swaps, certs>>
    BY <1>1 DEF thread, live
  <2>2. StoreInv' /\ TableInv'
    BY <1>t, <2>1, ThreadKept
  <2> QED
    BY <1>t, <2>1, <2>2 DEF ThreadType
<1>2. CASE TakeHup
  <2>1. pc' = "load" /\ UNCHANGED <<loaded, index, rows, gen, swaps, certs>>
    BY <1>2 DEF TakeHup, live
  <2> QED
    BY <1>t, <2>1 DEF ThreadType, StoreInv, TableInv
<1>3. CASE LoadConfig
  <2>1. /\ UNCHANGED <<rows, swaps, certs>> /\ pc' \in {"wait", "store"}
        /\ loaded' \in {loaded, disk.ver} /\ index' \in {index, 0} /\ gen' \in {gen, gen + 1}
        /\ pc' = "store" => index' = 0
    BY <1>3 DEF LoadConfig, live
  <2>2. disk.ver \in 0..MaxVersion
    BY <1>t DEF FilesType
  <2>3. /\ loaded' \in 0..MaxVersion /\ index' \in 0..(Workers + 1) /\ gen' \in Nat
        /\ pc' \in {"wait", "load", "store", "read", "swap"}
    BY <1>t, <2>1, <2>2 DEF ThreadType
  <2>4. ThreadType'
    BY <1>t, <2>1, <2>3 DEF ThreadType
  <2>5. 0 \in Swaps
    BY DEF Swaps
  <2>6. StoreInv' /\ TableInv'
    BY <1>t, <2>1, <2>5 DEF StoreInv, TableInv
  <2> QED
    BY <2>4, <2>6
<1>4. CASE StoreSwap
  <2> DEFINE d == Dispatch(loaded, gen, Usable(pem[CaFile]))
  <2>1. /\ index \in Swaps /\ index' = index + 1 /\ swaps' = [swaps EXCEPT ![index] = d]
        /\ UNCHANGED <<loaded, gen, certs>>
    BY <1>4, <1>t DEF StoreSwap, StoreInv
  <2>2. d \in [ver : Nat, gen : Nat, whole : BOOLEAN]
    BY <1>t DEF Dispatch, ThreadType, Usable
  <2> HIDE DEF d
  <2>3. swaps' \in [Swaps -> [ver : Nat, gen : Nat, whole : BOOLEAN]]
    BY <1>t, <2>1, <2>2 DEF ThreadType
  <2>4. loaded \in 0..MaxVersion /\ CertSpecs[loaded] \in Seq(CertSpec) /\ rows \in Seq(Seq(Int))
    BY <1>t, ReloadAssumption DEF ThreadType
  <2>5. CASE index < Workers
    <3>1. pc' = "store" /\ rows' = rows
      BY <1>4, <2>5 DEF StoreSwap, LastSwap
    <3> QED
      BY <1>t, <2>1, <2>3, <2>5, <3>1 DEF ThreadType, StoreInv, TableInv, Swaps
  <2>6. CASE index = Workers
    <3>1. rows' = << <<>> >> /\ pc' = IF CertSpecs[loaded] = <<>> THEN "wait" ELSE "read"
      BY <1>4, <2>6 DEF StoreSwap, LastSwap
    <3>2. rows' \in Seq(Seq(Int)) /\ Len(rows') = 1 /\ rows'[1] = <<>>
      BY <3>1
    <3>3. ASSUME CertSpecs[loaded] # <<>>
          PROVE  ReadingInv'
      <4>1. 1 \in 1..Len(CertSpecs[loaded]) /\ 1 \in DOMAIN CertSpecs[loaded]
        BY <2>4, <3>3
      <4>2. Len(FilesOf(CertSpecs[loaded][1])) >= 2 /\ Len(FilesOf(CertSpecs[loaded][1])) \in Nat
        <5>1. FilesOf(CertSpecs[loaded][1]) \in Seq(STRING) /\ Len(FilesOf(CertSpecs[loaded][1])) >= 2
          BY <2>4, <4>1, FilesOfType
        <5> QED
          BY <5>1
      <4>3. GoodRow(rows'[1])
        BY <3>2 DEF GoodRow
      <4> QED
        BY <2>1, <3>2, <4>1, <4>2, <4>3 DEF ReadingInv
    <3>4. ThreadType'
      BY <1>t, <2>1, <2>3, <2>6, <3>1, <3>2 DEF ThreadType
    <3>5. StoreInv' /\ TableInv'
      BY <1>t, <2>1, <3>1, <3>3 DEF StoreInv, TableInv
    <3> QED
      BY <3>4, <3>5
  <2> QED
    BY <2>1, <2>5, <2>6 DEF Swaps
<1>5. CASE ReadFails
  <2>1. pc' = "wait" /\ rows' = <<>> /\ UNCHANGED <<loaded, index, gen, swaps, certs>>
    BY <1>5 DEF ReadFails, live
  <2> QED
    BY <1>t, <2>1 DEF ThreadType, StoreInv, TableInv
<1>6. CASE StoreTable
  <2>1. /\ pc = "swap" /\ pc' = "wait" /\ rows' = <<>> /\ UNCHANGED <<loaded, index, gen, swaps>>
        /\ certs'.ver = loaded /\ certs'.rows = rows
    BY <1>6 DEF StoreTable
  <2> QED
    BY <1>t, <2>1 DEF ThreadType, StoreInv, TableInv
<1>7. CASE ReadFile
  <2> DEFINE n == Len(rows)
  <2>1. /\ pc = "read" /\ ReadingInv /\ Readable
        /\ UNCHANGED <<loaded, index, gen, swaps, certs>>
    BY <1>7, <1>t DEF ReadFile, TableInv, live
  <2>2. /\ WithFile \in Seq(Seq(Int)) /\ Len(WithFile) = n
        /\ \A k \in 1..(n - 1) : WithFile[k] = rows[k]
        /\ Len(WithFile[n]) = Len(rows[n]) + 1
        /\ \A k \in 1..n : GoodRow(WithFile[k])
    BY <1>t, <2>1, WithFileEffect
  <2>3. /\ n \in 1..Len(CertSpecs[loaded]) /\ n \in Nat
        /\ loaded \in 0..MaxVersion /\ CertSpecs[loaded] \in Seq(CertSpec)
        /\ DOMAIN CertSpecs[loaded] = 1..Len(CertSpecs[loaded])
    BY <1>t, <2>1, ReloadAssumption DEF ReadingInv, ThreadType
  <2>4. rows[n] \in Seq(Int) /\ Len(rows[n]) \in Nat /\ Len(rows[n]) < Len(FilesOf(CertSpecs[loaded][n]))
    BY <1>t, <2>1, <2>3 DEF ReadingInv, ThreadType
  <2>5. \A k \in 1..Len(CertSpecs[loaded]) :
          Len(FilesOf(CertSpecs[loaded][k])) \in Nat /\ Len(FilesOf(CertSpecs[loaded][k])) >= 2
    BY <2>3, FilesOfType
  <2>6. \A k \in 1..(n - 1) : FullRow(loaded, k, WithFile[k])
    BY <2>1, <2>2 DEF ReadingInv, FullRow
  <2>7. Reading = CertSpecs[loaded][n]
    BY <2>2 DEF Reading
  <2>8. CASE Len(WithFile[n]) < Len(FilesOf(CertSpecs[loaded][n]))
    <3>1. rows' = WithFile /\ pc' = pc
      BY <1>7, <2>7, <2>8 DEF ReadFile
    <3>2. ReadingInv'
      BY <2>1, <2>2, <2>3, <2>6, <2>8, <3>1 DEF ReadingInv
    <3> QED
      BY <1>t, <2>1, <2>2, <3>1, <3>2 DEF ThreadType, StoreInv, TableInv
  <2>9. CASE ~(Len(WithFile[n]) < Len(FilesOf(CertSpecs[loaded][n])))
    <3>1. \A k \in 1..n : FullRow(loaded, k, WithFile[k])
      <4>1. FullRow(loaded, n, WithFile[n])
        BY <2>2, <2>3, <2>4, <2>5, <2>9 DEF FullRow
      <4>2. \A k \in 1..n : k = n \/ k \in 1..(n - 1)
        BY <2>3
      <4> QED
        BY <2>6, <4>1, <4>2
    <3>2. CASE n < Len(CertSpecs[loaded])
      <4> DEFINE more == Append(WithFile, <<>>)
      <4>1. rows' = more /\ pc' = pc
        BY <1>7, <2>7, <2>9, <3>2 DEF ReadFile
      <4>2. /\ more \in Seq(Seq(Int)) /\ Len(more) = n + 1 /\ more[n + 1] = <<>>
            /\ \A k \in 1..n : more[k] = WithFile[k]
        BY <2>2, <2>3
      <4> HIDE DEF more
      <4>3. GoodRow(more[n + 1]) /\ Len(more[n + 1]) = 0
        BY <4>2 DEF GoodRow
      <4>4. \A k \in 1..(n + 1) : k = n + 1 \/ k \in 1..n
        BY <2>3
      <4>5. \A k \in 1..(n + 1) : GoodRow(more[k])
        BY Zenon, <2>2, <4>2, <4>3, <4>4
      <4>6. \A k \in 1..n : FullRow(loaded, k, more[k])
        BY <3>1, <4>2
      <4>7. n + 1 \in 1..Len(CertSpecs[loaded]) /\ (n + 1) - 1 = n
        BY <2>3, <3>2
      <4>8. Len(more[n + 1]) < Len(FilesOf(CertSpecs[loaded][n + 1]))
        BY <2>5, <4>3, <4>7
      <4>9. Len(more) = n + 1 /\ rows' = more /\ loaded' = loaded
        BY <2>1, <4>1, <4>2
      <4>10. ReadingInv'
        <5> HIDE DEF n
        <5> QED
          BY <4>5, <4>6, <4>7, <4>8, <4>9 DEF ReadingInv
      <4> QED
        BY <1>t, <2>1, <4>1, <4>2, <4>10 DEF ThreadType, StoreInv, TableInv
    <3>3. CASE ~(n < Len(CertSpecs[loaded]))
      <4>1. rows' = WithFile /\ pc' = "swap"
        BY <1>7, <2>7, <2>9, <3>3 DEF ReadFile
      <4>2. n = Len(CertSpecs[loaded]) /\ CertSpecs[loaded] # <<>>
        BY <2>3, <3>3
      <4>3. WholeTable(loaded, WithFile)
        BY <2>2, <3>1, <4>2 DEF WholeTable
      <4> QED
        BY <1>t, <2>1, <2>2, <4>1, <4>3 DEF ThreadType, StoreInv, TableInv
    <3> QED
      BY <3>2, <3>3
  <2> QED
    BY <2>8, <2>9
<1>8. SendHup \/ (\E ok \in BOOLEAN : EditConfig(ok)) \/ (\E f \in Files : EditPem(f))
        => UNCHANGED <<thread, live>>
  BY DEF SendHup, EditConfig, EditPem
<1>9. (\E r \in Requests : Finish(r) \/ \E s \in Swaps : LoadFull(r, s)) => UNCHANGED <<thread, live>>
  BY DEF Finish, LoadFull
<1>10. UNCHANGED vars => UNCHANGED <<thread, live>>
  BY DEF vars, thread, live
<1> QED
  BY <1>1, <1>2, <1>3, <1>4, <1>5, <1>6, <1>7, <1>8, <1>9, <1>10 DEF Next

\* ReloadInv holds in every state.
LEMMA ReloadCorrect == Spec => []ReloadInv
<1>1. ReloadInv /\ [Next]_vars => ReloadInv'
  <2> SUFFICES ASSUME ReloadInv, [Next]_vars PROVE ReloadInv'
    OBVIOUS
  <2>1. FilesType /\ ThreadType /\ SignalType /\ HeldType
    BY TypeParts DEF ReloadInv
  <2>2. FilesType' /\ SignalType' /\ HeldType'
    BY <2>1, FilesTypeStep, SignalTypeStep, HeldTypeStep
  <2>3. ThreadType' /\ StoreInv' /\ TableInv'
    BY ThreadStep
  <2>4. TypeOK'
    BY <2>2, <2>3 DEF TypeOK, FilesType, ThreadType, SignalType, HeldType
  <2> QED
    BY <2>3, <2>4 DEF ReloadInv
<1> QED
  BY <1>1, ReloadInit, PTL DEF Spec

\* Every variable of the reload keeps its type, however many workers there are:
\* the stores never leave the swappables and no row of the table is read past
\* the files of its entry.
THEOREM ReloadTypeCorrect == Spec => []TypeOK
BY ReloadCorrect, PTL DEF ReloadInv

-----------------------------------------------------------------------------
(* The certificate table *)

\* Whatever is edited while a reload reads the files, and whichever read fails,
\* a handshake with any name gets a certificate whose files were all read and
\* usable, of the entry that the rule of load_server_config picks.
THEOREM HandshakeCorrect == Spec => []HandshakeGetsItsCert
<1>1. ReloadInv => HandshakeGetsItsCert
  <2> SUFFICES ASSUME ReloadInv PROVE HandshakeGetsItsCert
    OBVIOUS
  <2> DEFINE specs == CertSpecs[certs.ver]
             rs == certs.rows
  <2>1. specs \in Seq(CertSpec) /\ WholeTable(certs.ver, rs)
    BY ReloadAssumption DEF ReloadInv, TypeOK, TableInv
  <2>2. specs # <<>> /\ Len(rs) = Len(specs) /\ DOMAIN specs = 1..Len(specs)
    BY <2>1 DEF WholeTable
  <2>3. ASSUME NEW k \in DOMAIN specs
        PROVE  /\ Len(rs[k]) = Len(FilesOf(specs[k]))
               /\ \A j \in 1..Len(rs[k]) : Reads(j, rs[k][j])
    BY <2>1, <2>2 DEF WholeTable, FullRow, GoodRow
  <2>4. ASSUME NEW name \in Names
        PROVE  LET ck == Resolve(Table, name)
               IN  /\ RightEntry(specs, name, ck.spec)
                   /\ Len(ck.pem) = Len(FilesOf(specs[ck.spec]))
                   /\ \A j \in DOMAIN ck.pem : Reads(j, ck.pem[j])
    <3>1. PICK k \in DOMAIN specs : /\ Resolve(BuildTable(specs, rs), name) = CertifiedKey(k, rs[k])
                                    /\ RightEntry(specs, name, k)
      <4>1. name \in ServerName
        BY ReloadAssumption
      <4> QED
        BY Zenon, <2>1, <2>2, <4>1, ResolveCorrect
    <3>2. Resolve(Table, name) = [spec |-> k, pem |-> rs[k]]
      BY <3>1 DEF Table, CertifiedKey
    <3>3. rs[k] \in Seq(Int) /\ DOMAIN rs[k] = 1..Len(rs[k])
      BY <2>1, <2>2 DEF WholeTable
    <3> QED
      BY <2>3, <3>1, <3>2, <3>3, SMTT(30)
  <2> QED
    BY <2>4 DEF HandshakeGetsItsCert
<1> QED
  BY <1>1, ReloadCorrect, PTL

-----------------------------------------------------------------------------
(* The swappables *)

\* While the thread stores, the swappables it has passed hold the build it is
\* making; otherwise they all hold the same.
UniformInv ==
  /\ pc = "store" =>
       \A s \in Swaps : s < index => swaps[s].ver = loaded /\ swaps[s].gen = gen
  /\ pc # "store" =>
       \A s, t \in Swaps : swaps[s].ver = swaps[t].ver /\ swaps[s].gen = swaps[t].gen

\* No worker is left behind: between reloads every swappable holds a Dispatch
\* of the same config and the same build, however many workers there are.
THEOREM UniformCorrect == Spec => []UniformBetweenReloads
<1>1. Init => UniformInv
  BY DEF Init, UniformInv, Dispatch
<1>2. ASSUME ReloadInv, UniformInv, [Next]_vars
      PROVE  UniformInv'
  <2>c. Workers \in Nat
    BY ReloadAssumption
  <2>1. ASSUME UNCHANGED <<thread, live>> PROVE UniformInv'
    BY <1>2, <2>1 DEF UniformInv, thread, live
  <2>2. CASE TakeHup \/ ReadFile \/ ReadFails \/ StoreTable
    <3>1. pc # "store" /\ pc' # "store" /\ swaps' = swaps
      BY <2>2 DEF TakeHup, ReadFile, ReadFails, StoreTable, live
    <3> QED
      BY <1>2, <3>1 DEF UniformInv
  <2>3. CASE LoadConfig
    <3>1. pc # "store" /\ swaps' = swaps /\ (pc' = "store" => index' = 0)
      BY <2>3 DEF LoadConfig, live
    <3>2. \A s \in Swaps : ~(s < 0)
      BY <2>c DEF Swaps
    <3> QED
      BY <1>2, <3>1, <3>2 DEF UniformInv
  <2>4. CASE StoreSwap
    <3> DEFINE d == Dispatch(loaded, gen, Usable(pem[CaFile]))
    <3>1. /\ pc = "store" /\ index \in 0..Workers /\ index' = index + 1
          /\ UNCHANGED <<loaded, gen>> /\ swaps' = [swaps EXCEPT ![index] = d]
          /\ pc' # "store" => ~(index < Workers)
      BY <1>2, <2>4 DEF StoreSwap, LastSwap, ReloadInv, StoreInv, Swaps
    <3>2. d.ver = loaded /\ d.gen = gen
      BY DEF Dispatch
    <3> HIDE DEF d
    <3>3. \A s \in Swaps : s < index + 1 => swaps'[s].ver = loaded /\ swaps'[s].gen = gen
      <4> SUFFICES ASSUME NEW s \in Swaps, s < index + 1
                   PROVE  swaps'[s].ver = loaded /\ swaps'[s].gen = gen
        OBVIOUS
      <4>1. DOMAIN swaps = Swaps
        BY <1>2 DEF ReloadInv, TypeOK
      <4>2. CASE s = index
        BY <3>1, <3>2, <4>1, <4>2
      <4>3. CASE s # index
        <5>1. s < index
          BY <2>c, <3>1, <4>3 DEF Swaps
        <5>2. swaps'[s] = swaps[s]
          BY <3>1, <4>1, <4>3
        <5> QED
          BY <1>2, <3>1, <5>1, <5>2 DEF UniformInv
      <4> QED
        BY <4>2, <4>3
    <3>4. CASE index < Workers
      BY <3>1, <3>3, <3>4 DEF UniformInv
    <3>5. CASE ~(index < Workers)
      <4>1. \A s \in Swaps : s < index + 1
        BY <2>c, <3>1, <3>5 DEF Swaps
      <4> QED
        BY <3>1, <3>3, <4>1 DEF UniformInv
    <3> QED
      BY <3>4, <3>5
  <2>5. SendHup \/ (\E ok \in BOOLEAN : EditConfig(ok)) \/ (\E f \in Files : EditPem(f))
          => UNCHANGED <<thread, live>>
    BY DEF SendHup, EditConfig, EditPem
  <2>6. (\E r \in Requests : Finish(r) \/ \E s \in Swaps : LoadFull(r, s)) => UNCHANGED <<thread, live>>
    BY DEF Finish, LoadFull
  <2>7. UNCHANGED vars => UNCHANGED <<thread, live>>
    BY DEF vars, thread, live
  <2> QED
    BY <1>2, <2>1, <2>2, <2>3, <2>4, <2>5, <2>6, <2>7 DEF Next
<1>3. UniformInv => UniformBetweenReloads
  BY DEF UniformInv, UniformBetweenReloads
<1> QED
  BY <1>1, <1>2, <1>3, ReloadCorrect, PTL DEF Spec

-----------------------------------------------------------------------------
(* Rejected configs *)

\* A version that was on disk and that check_logic does not reject.
Sound(v) == v <= disk.ver /\ v \notin rejected

\* What is in use, in hand or about to be loaded is sound.
SoundInv ==
  /\ \A v \in rejected : v <= disk.ver
  /\ disk.valid => disk.ver \notin rejected
  /\ Sound(0) /\ Sound(loaded) /\ Sound(certs.ver)
  /\ \A s \in Swaps : Sound(swaps[s].ver)
  /\ \A r \in Requests : Sound(held[r].ver)

\* A version that was sound stays so when a later one is written.
LEMMA SoundStays ==
  ASSUME TypeOK, NEW ok \in BOOLEAN, EditConfig(ok), NEW v \in Nat, Sound(v)
  PROVE  Sound(v)'
<1>1. disk'.ver = disk.ver + 1 /\ disk.ver \in Nat /\ rejected' \subseteq rejected \cup {disk.ver + 1}
  BY ReloadAssumption DEF EditConfig, TypeOK
<1> QED
  BY <1>1 DEF Sound

\* No swappable, no certificate table and no request ever uses a config that
\* validation rejects, whenever the file is edited.
THEOREM RejectedCorrect == Spec => []RejectedNeverServed
<1>1. Init => SoundInv
  BY DEF Init, SoundInv, Sound, Dispatch, None
<1>2. ASSUME ReloadInv, SoundInv, [Next]_vars
      PROVE  SoundInv'
  <2>t. /\ TypeOK /\ disk.ver \in Nat /\ loaded \in Nat /\ certs.ver \in Nat
        /\ \A s \in Swaps : swaps[s].ver \in Nat
        /\ \A r \in Requests : held[r].ver \in Nat
    BY <1>2, ReloadAssumption DEF ReloadInv, TypeOK, Held
  <2>1. ASSUME NEW ok \in BOOLEAN, EditConfig(ok)
        PROVE  SoundInv'
    <3>1. UNCHANGED <<loaded, certs, swaps, held>>
      BY <2>1 DEF EditConfig, thread, live
    <3>2. disk'.ver = disk.ver + 1 /\ disk'.valid = ok
      BY <2>1 DEF EditConfig
    <3>3. CASE ok
      <4>1. rejected' = rejected
        BY <2>1, <3>3 DEF EditConfig
      <4>2. disk'.ver \notin rejected'
        BY <1>2, <2>t, <3>2, <4>1 DEF SoundInv
      <4>3. \A v \in rejected' : v <= disk'.ver
        BY <1>2, <2>t, <3>2, <4>1 DEF SoundInv, ReloadInv, TypeOK
      <4> QED
        BY <1>2, <2>1, <2>t, <3>1, <4>2, <4>3, SoundStays DEF SoundInv
    <3>4. CASE ~ok
      <4>1. rejected' = rejected \cup {disk.ver + 1}
        BY <2>1, <3>4 DEF EditConfig
      <4>2. \A v \in rejected' : v <= disk'.ver
        BY <1>2, <2>t, <3>2, <4>1 DEF SoundInv, ReloadInv, TypeOK
      <4>3. ~disk'.valid
        BY <3>2, <3>4
      <4> QED
        BY <1>2, <2>1, <2>t, <3>1, <4>2, <4>3, SoundStays DEF SoundInv
    <3> QED
      BY <3>3, <3>4
  <2>2. ASSUME UNCHANGED <<disk, rejected, loaded, certs, swaps, held>>
        PROVE  SoundInv'
    BY <1>2, <2>2 DEF SoundInv, Sound
  <2>3. CASE LoadConfig
    <3>1. UNCHANGED <<disk, rejected, certs, swaps, held>> /\ (loaded' = loaded \/ (loaded' = disk.ver /\ disk.valid))
      BY <2>3 DEF LoadConfig, Accepts, files, live
    <3>2. Sound(loaded)'
      BY <1>2, <2>t, <3>1 DEF SoundInv, Sound
    <3> QED
      BY <1>2, <3>1, <3>2 DEF SoundInv, Sound
  <2>4. CASE StoreSwap
    <3> DEFINE d == Dispatch(loaded, gen, Usable(pem[CaFile]))
    <3>1. UNCHANGED <<disk, rejected, loaded, certs, held>> /\ swaps' = [swaps EXCEPT ![index] = d]
      BY <2>4 DEF StoreSwap, files
    <3>2. d.ver = loaded
      BY DEF Dispatch
    <3> HIDE DEF d
    <3>3. \A s \in Swaps : swaps'[s].ver \in {swaps[s].ver, loaded}
      BY <2>t, <3>1, <3>2 DEF TypeOK
    <3> QED
      BY <1>2, <3>1, <3>3 DEF SoundInv, Sound
  <2>5. CASE StoreTable
    <3>1. UNCHANGED <<disk, rejected, loaded, swaps, held>> /\ certs'.ver = loaded
      BY <2>5 DEF StoreTable, files
    <3> QED
      BY <1>2, <3>1 DEF SoundInv, Sound
  <2>6. ASSUME NEW r \in Requests, Finish(r) \/ \E s \in Swaps : LoadFull(r, s)
        PROVE  SoundInv'
    <3>1. UNCHANGED <<disk, rejected, loaded, certs, swaps>>
      BY <2>6 DEF Finish, LoadFull, files, thread, live
    <3>2. PICK h : held' = [held EXCEPT ![r] = h] /\ (h.ver = 0 \/ \E s \in Swaps : h.ver = swaps[s].ver)
      BY <2>6 DEF Finish, LoadFull, None
    <3>3. \A q \in Requests : held'[q] = held[q] \/ held'[q] = h
      BY <2>t, <3>2 DEF TypeOK
    <3> QED
      BY <1>2, <3>1, <3>2, <3>3 DEF SoundInv, Sound
  <2>7. SendHup \/ (\E f \in Files : EditPem(f)) \/ TakeHup \/ ReadFile \/ ReadFails
          => UNCHANGED <<disk, rejected, loaded, certs, swaps, held>>
    BY DEF SendHup, EditPem, TakeHup, ReadFile, ReadFails, files, thread, live
  <2> QED
    BY <1>2, <2>1, <2>2, <2>3, <2>4, <2>5, <2>6, <2>7 DEF Next, vars
<1>3. SoundInv => RejectedNeverServed
  BY DEF SoundInv, Sound, RejectedNeverServed
<1> QED
  BY <1>1, <1>2, <1>3, ReloadCorrect, PTL DEF Spec

-----------------------------------------------------------------------------
(* No SIGHUP is lost *)

\* What build_table has read is what the files hold now.
Matches(rs) ==
  \A k \in 1..Len(rs) : \A j \in 1..Len(rs[k]) : rs[k][j] = pem[FilesOf(CertSpecs[loaded][k])[j]]

\* The swappable holds a whole Dispatch of the config on disk.
Renewed(s) == swaps[s].ver = disk.ver /\ swaps[s].whole

\* A reload is to come, the one that is under way has used nothing but the files
\* as they are now, or everything is as the files say.
Converging ==
  \/ pending
  \/ pc = "load"
  \/ pc = "store" /\ loaded = disk.ver /\ \A s \in Swaps : s < index => Renewed(s)
  \/ pc \in {"read", "swap"} /\ loaded = disk.ver /\ (\A s \in Swaps : Renewed(s)) /\ Matches(rows)
  \/ pc = "wait" /\ Current(disk.ver)

\* A SIGHUP over files that are in order is under way, or has been carried out.
Settling == disk.valid /\ FilesUsable(disk.ver) /\ Converging

\* Until the next edit no step loses it: neither the end of a reload that began
\* before the edit, nor a signal that arrives while one runs, nor a read.  A thread
\* that is idle with no signal pending has therefore made everything current.
HupNotLost ==
  [][Settling /\ edits' = edits =>
       Settling' /\ (pc' = "wait" /\ ~pending' => Current(disk.ver)')]_vars

\* A whole table of what the files hold is the one that RowsOf describes.
LEMMA MatchesRows ==
  ASSUME TypeOK, WholeTable(loaded, rows), Matches(rows)
  PROVE  rows = RowsOf(loaded)
<1>1. /\ loaded \in 0..MaxVersion /\ CertSpecs[loaded] \in Seq(CertSpec) /\ rows \in Seq(Seq(Int))
      /\ Len(rows) = Len(CertSpecs[loaded])
  BY ReloadAssumption DEF TypeOK, WholeTable
<1>2. DOMAIN CertSpecs[loaded] = 1..Len(rows) /\ DOMAIN rows = 1..Len(rows)
  BY <1>1
<1>3. ASSUME NEW k \in 1..Len(rows)
      PROVE  rows[k] = RowsOf(loaded)[k]
  <2> DEFINE names == FilesOf(CertSpecs[loaded][k])
  <2>1. names \in Seq(STRING)
    BY <1>1, <1>2, FilesOfType
  <2>2. rows[k] \in Seq(Int) /\ Len(rows[k]) = Len(names)
    BY <1>1 DEF WholeTable, FullRow
  <2>3. DOMAIN names = 1..Len(names) /\ DOMAIN rows[k] = 1..Len(names)
    BY <2>1, <2>2
  <2>4. RowsOf(loaded)[k] = [j \in DOMAIN names |-> pem[names[j]]]
    BY <1>2 DEF RowsOf
  <2>5. \A j \in 1..Len(names) : rows[k][j] = pem[names[j]]
    BY <2>2 DEF Matches
  <2>6. rows[k] = [j \in 1..Len(names) |-> rows[k][j]]
    BY <2>2, <2>3
  <2> HIDE DEF names
  <2> QED
    BY <2>3, <2>4, <2>5, <2>6
<1>4. rows = [k \in 1..Len(rows) |-> rows[k]]
  BY <1>1, <1>2
<1>5. RowsOf(loaded) = [k \in 1..Len(rows) |-> RowsOf(loaded)[k]]
  BY <1>2 DEF RowsOf
<1> QED
  BY <1>3, <1>4, <1>5

\* The file that is read next can be used, when all of them can.
LEMMA NextReadable ==
  ASSUME TypeOK, ReadingInv, FilesUsable(loaded)
  PROVE  Readable
<1> DEFINE n == Len(rows)
           names == FilesOf(CertSpecs[loaded][n])
<1>1. n \in 1..Len(CertSpecs[loaded]) /\ n \in Nat /\ loaded \in 0..MaxVersion /\ rows \in Seq(Seq(Int))
  BY ReloadAssumption DEF TypeOK, ReadingInv
<1>2. n \in DOMAIN CertSpecs[loaded] /\ Len(rows[n]) \in Nat
  BY <1>1, ReloadAssumption
<1>3. names \in Seq(STRING)
  BY <1>1, <1>2, FilesOfType
<1>4. Len(rows[n]) + 1 \in 1..Len(names)
  BY <1>2, <1>3 DEF ReadingInv
<1>5. Len(rows[n]) + 1 \in DOMAIN names
  BY <1>3, <1>4
<1>6. Reads(Len(rows[n]) + 1, pem[names[Len(rows[n]) + 1]])
  BY <1>2, <1>5 DEF FilesUsable
<1> QED
  BY <1>6 DEF Readable, NextFile, Reading

\* Reading one file more keeps what was read equal to the files.
LEMMA WithFileMatches ==
  ASSUME TypeOK, ReadingInv, Readable, Matches(rows)
  PROVE  Matches(WithFile)
<1> DEFINE n == Len(rows)
           last == rows[n]
           content == pem[NextFile]
           new == Append(last, content)
<1>1. n \in Nat /\ n >= 1 /\ rows \in Seq(Seq(Int)) /\ DOMAIN rows = 1..n
  BY DEF TypeOK, ReadingInv
<1>2. last \in Seq(Int) /\ Len(last) \in Nat
  BY <1>1
<1>3. /\ Len(WithFile) = n /\ \A k \in 1..(n - 1) : WithFile[k] = rows[k]
      /\ Len(WithFile[n]) = Len(last) + 1
  BY WithFileEffect
<1>4. content = pem[FilesOf(CertSpecs[loaded][n])[Len(last) + 1]]
  BY DEF NextFile, Reading
<1>5. WithFile[n] = new
  BY <1>1 DEF WithFile
<1> HIDE DEF content
<1>6. (\A j \in 1..Len(last) : new[j] = last[j]) /\ new[Len(last) + 1] = content
  BY <1>2
<1> HIDE DEF new
<1> SUFFICES ASSUME NEW k \in 1..n, NEW j \in 1..Len(WithFile[k])
             PROVE  WithFile[k][j] = pem[FilesOf(CertSpecs[loaded][k])[j]]
  BY <1>3 DEF Matches
<1>7. CASE k = n /\ j = Len(last) + 1
  BY <1>4, <1>5, <1>6, <1>7
<1>8. CASE k = n /\ j # Len(last) + 1
  <2>1. j \in 1..Len(last)
    BY <1>2, <1>3, <1>8
  <2>2. WithFile[k][j] = rows[k][j]
    BY <1>5, <1>6, <1>8, <2>1
  <2>3. j \in 1..Len(rows[k])
    BY <1>8, <2>1
  <2> QED
    BY <2>2, <2>3 DEF Matches
<1>9. CASE k # n
  <2>0. n \in Nat
    BY <1>1
  <2>1. k \in 1..(n - 1)
    <3> HIDE DEF n
    <3> QED
      BY <1>9, <2>0
  <2>2. WithFile[k] = rows[k]
    BY <1>3, <2>1
  <2> QED
    BY <2>2 DEF Matches
<1> QED
  BY <1>7, <1>8, <1>9

\* What a step that edits nothing leaves of the conditions.
LEMMA NoEdit ==
  ASSUME TypeOK, [Next]_vars, edits' = edits
  PROVE  disk' = disk /\ pem' = pem
<1>1. edits \in Nat /\ edits + 1 # edits
  BY ReloadAssumption DEF TypeOK
<1>2. ~(\E ok \in BOOLEAN : EditConfig(ok)) /\ ~(\E f \in Files : EditPem(f))
  BY <1>1 DEF EditConfig, EditPem
<1>3. SendHup \/ TakeHup \/ LoadConfig \/ StoreSwap \/ ReadFile \/ ReadFails \/ StoreTable
        => disk' = disk /\ pem' = pem
  BY DEF SendHup, TakeHup, LoadConfig, StoreSwap, ReadFile, ReadFails, StoreTable, files
<1>4. (\E r \in Requests : Finish(r) \/ \E s \in Swaps : LoadFull(r, s)) => disk' = disk /\ pem' = pem
  BY DEF Finish, LoadFull, files
<1> QED
  BY <1>2, <1>3, <1>4 DEF Next, vars

\* A config whose files can all be used passes check_filesystem.
LEMMA UsablePresent ==
  ASSUME NEW v \in 0..MaxVersion, FilesUsable(v)
  PROVE  FilesPresent(v)
<1> SUFFICES ASSUME NEW k \in DOMAIN CertSpecs[v]
             PROVE  pem[CertSpecs[v][k].cert] # Missing /\ pem[CertSpecs[v][k].key] # Missing
  BY DEF FilesPresent
<1> DEFINE spec == CertSpecs[v][k]
           names == FilesOf(spec)
<1>1. names \in Seq(STRING) /\ Len(names) >= 2
  BY FilesOfType
<1>2. 1 \in DOMAIN names /\ 2 \in DOMAIN names
  BY <1>1
<1>3. spec \in CertSpec
  BY ReloadAssumption
<1>4. <<spec.cert, spec.key>> \in Seq(STRING) /\ Len(<<spec.cert, spec.key>>) = 2 /\ spec.ocsp \in Seq(STRING)
  BY <1>3 DEF CertSpec
<1>5. names[1] = spec.cert /\ names[2] = spec.key
  BY <1>4 DEF FilesOf
<1>6. Reads(1, pem[names[1]]) /\ Reads(2, pem[names[2]])
  BY <1>2 DEF FilesUsable
<1> HIDE DEF names
<1>7. \A c : Reads(1, c) \/ Reads(2, c) => c # Missing
  BY DEF Reads, Usable, Missing
<1>8. pem[spec.cert] # Missing /\ pem[spec.key] # Missing
  BY Zenon, <1>5, <1>6, <1>7
<1> QED
  BY Zenon, <1>8

\* A step of the reload thread keeps Converging.
LEMMA ConvergingStep ==
  ASSUME ReloadInv, Settling, [Next]_vars, disk' = disk, pem' = pem, ~pending, ~pending'
  PROVE  Converging'
<1>t. /\ TypeOK /\ StoreInv /\ TableInv /\ Workers \in Nat /\ disk.ver \in 0..MaxVersion
      /\ disk.valid /\ FilesUsable(disk.ver)
  BY ReloadAssumption DEF ReloadInv, TypeOK, Settling
<1>c. Converging
  BY DEF Settling
<1>1. ASSUME UNCHANGED <<thread, live>>
      PROVE  Converging'
  <2>1. UNCHANGED <<pc, loaded, index, rows, swaps, certs>>
    BY <1>1 DEF thread, live
  <2>2. Current(disk.ver) => Current(disk.ver)'
    BY <2>1 DEF Current, RowsOf
  <2> QED
    BY <1>c, <2>1, <2>2 DEF Converging, Renewed, Matches
<1>2. CASE LoadConfig
  <2>1. Accepts
    BY <1>t, UsablePresent DEF Accepts
  <2>2. pc' = "store" /\ loaded' = disk.ver /\ index' = 0
    BY <1>2, <2>1 DEF LoadConfig
  <2>3. \A s \in Swaps : ~(s < 0)
    BY <1>t DEF Swaps
  <2> QED
    BY <2>2, <2>3 DEF Converging
<1>3. CASE StoreSwap
  <2> DEFINE d == Dispatch(loaded, gen, Usable(pem[CaFile]))
  <2>1. /\ pc = "store" /\ index \in 0..Workers /\ index' = index + 1 /\ loaded' = loaded
        /\ swaps' = [swaps EXCEPT ![index] = d]
    BY <1>3, <1>t DEF StoreSwap, StoreInv, Swaps
  <2>2. loaded = disk.ver /\ \A s \in Swaps : s < index => Renewed(s)
    BY <1>c, <2>1 DEF Converging
  <2>3. d.ver = disk.ver /\ d.whole
    <3>1. Usable(pem[CaFile])
      BY <1>t DEF FilesUsable
    <3> QED
      BY <2>2, <3>1 DEF Dispatch
  <2> HIDE DEF d
  <2>4. ASSUME NEW s \in Swaps, s < index + 1
        PROVE  Renewed(s)'
    <3>1. DOMAIN swaps = Swaps
      BY <1>t DEF TypeOK
    <3>2. CASE s = index
      <4>1. swaps'[s] = d
        BY <2>1, <3>1, <3>2
      <4> QED
        BY <2>3, <4>1 DEF Renewed
    <3>3. CASE s # index
      <4>1. swaps'[s] = swaps[s]
        BY <2>1, <3>1, <3>3
      <4>2. s < index
        BY <1>t, <2>1, <2>4, <3>3 DEF Swaps
      <4> QED
        BY <2>2, <4>1, <4>2 DEF Renewed
    <3> QED
      BY <3>2, <3>3
  <2>5. CASE index < Workers
    <3>1. pc' = "store"
      BY <1>3, <2>5 DEF StoreSwap, LastSwap
    <3> QED
      BY <2>1, <2>2, <2>4, <3>1 DEF Converging
  <2>6. CASE ~(index < Workers)
    <3>1. rows' = << <<>> >> /\ pc' = IF CertSpecs[loaded] = <<>> THEN "wait" ELSE "read"
      BY <1>3, <2>6 DEF StoreSwap, LastSwap
    <3>2. \A s \in Swaps : s < index + 1
      BY <1>t, <2>1, <2>6 DEF Swaps
    <3>3. \A s \in Swaps : Renewed(s)'
      BY <2>4, <3>2
    <3>4. CASE CertSpecs[loaded] = <<>>
      <4>1. Current(disk.ver)'
        BY <2>2, <3>3, <3>4 DEF Current, Renewed
      <4> QED
        BY <3>1, <3>4, <4>1 DEF Converging
    <3>5. CASE CertSpecs[loaded] # <<>>
      <4>1. Len(rows') = 1 /\ Len(rows'[1]) = 0
        BY <3>1
      <4>2. Matches(rows)'
        BY <4>1 DEF Matches
      <4> QED
        BY <2>1, <2>2, <3>1, <3>3, <3>5, <4>2 DEF Converging
    <3> QED
      BY <3>4, <3>5
  <2> QED
    BY <2>5, <2>6
<1>4. CASE ReadFile
  <2>1. /\ pc = "read" /\ Readable /\ ReadingInv /\ UNCHANGED <<loaded, swaps>>
    BY <1>4, <1>t DEF ReadFile, TableInv, live
  <2>2. loaded = disk.ver /\ (\A s \in Swaps : Renewed(s)) /\ Matches(rows)
    BY <1>c, <2>1 DEF Converging
  <2>3. Matches(WithFile)
    BY <1>t, <2>1, <2>2, WithFileMatches
  <2>4. WithFile \in Seq(Seq(Int))
    BY <1>t, <2>1, WithFileEffect
  <2>5. pc' \in {"read", "swap"} /\ rows' \in {WithFile, Append(WithFile, <<>>)}
    BY <1>4, <2>1 DEF ReadFile
  <2>6. Matches(Append(WithFile, <<>>))
    <3> DEFINE more == Append(WithFile, <<>>)
    <3>1. /\ Len(more) = Len(WithFile) + 1 /\ Len(WithFile) \in Nat
          /\ more[Len(WithFile) + 1] = <<>>
          /\ \A k \in 1..Len(WithFile) : more[k] = WithFile[k]
      BY <2>4
    <3> HIDE DEF more
    <3> SUFFICES ASSUME NEW k \in 1..(Len(WithFile) + 1), NEW j \in 1..Len(more[k])
                 PROVE  more[k][j] = pem[FilesOf(CertSpecs[loaded][k])[j]]
      BY <3>1 DEF Matches, more
    <3>2. k # Len(WithFile) + 1
      BY <3>1
    <3>3. k \in 1..Len(WithFile)
      BY <3>1, <3>2
    <3> QED
      BY <2>3, <3>1, <3>3 DEF Matches
  <2>7. Matches(rows')
    BY <2>3, <2>5, <2>6
  <2>8. Matches(rows)'
    BY <2>1, <2>7 DEF Matches
  <2>9. \A s \in Swaps : Renewed(s)'
    BY <2>1, <2>2 DEF Renewed
  <2> QED
    BY <2>1, <2>2, <2>5, <2>8, <2>9 DEF Converging
<1>5. ~ReadFails
  <2> SUFFICES ASSUME ReadFails PROVE FALSE
    OBVIOUS
  <2>1. pc = "read" /\ ~Readable
    BY DEF ReadFails
  <2>2. loaded = disk.ver /\ ReadingInv
    BY <1>c, <1>t, <2>1 DEF Converging, TableInv
  <2> QED
    BY <1>t, <2>1, <2>2, NextReadable
<1>6. CASE StoreTable
  <2>1. /\ pc = "swap" /\ pc' = "wait" /\ swaps' = swaps
        /\ certs' = [ver |-> loaded, rows |-> rows]
    BY <1>6 DEF StoreTable
  <2>2. loaded = disk.ver /\ (\A s \in Swaps : Renewed(s)) /\ Matches(rows)
    BY <1>c, <2>1 DEF Converging
  <2>3. rows = RowsOf(loaded)
    BY <1>t, <2>1, <2>2, MatchesRows DEF TableInv
  <2>4. RowsOf(disk.ver)' = RowsOf(disk.ver)
    BY DEF RowsOf
  <2>5. certs' = [ver |-> disk'.ver, rows |-> RowsOf(disk.ver)']
    BY <2>1, <2>2, <2>3, <2>4
  <2>6. \A s \in Swaps : swaps'[s].ver = disk'.ver /\ swaps'[s].whole
    BY <2>1, <2>2 DEF Renewed
  <2>7. Current(disk.ver)'
    BY Zenon, <2>5, <2>6 DEF Current
  <2> QED
    BY <2>1, <2>7 DEF Converging
<1>7. ~TakeHup /\ ~SendHup
  BY Zenon DEF TakeHup, SendHup
<1>8. (\E ok \in BOOLEAN : EditConfig(ok)) \/ (\E f \in Files : EditPem(f)) => UNCHANGED <<thread, live>>
  BY DEF EditConfig, EditPem
<1>9. (\E r \in Requests : Finish(r) \/ \E s \in Swaps : LoadFull(r, s)) => UNCHANGED <<thread, live>>
  BY DEF Finish, LoadFull
<1>10. UNCHANGED vars => UNCHANGED <<thread, live>>
  BY DEF vars, thread, live
<1> QED
  BY <1>1, <1>2, <1>3, <1>4, <1>5, <1>6, <1>7, <1>8, <1>9, <1>10 DEF Next

\* A SIGHUP is never lost, for any number of workers, versions and entries.  This is
\* the part of HupConverges that does not depend on fairness.
THEOREM HupCorrect == Spec => HupNotLost
<1>1. ASSUME ReloadInv, [Next]_vars
      PROVE  [Settling /\ edits' = edits =>
                Settling' /\ (pc' = "wait" /\ ~pending' => Current(disk.ver)')]_vars
  <2> SUFFICES ASSUME Settling, edits' = edits
               PROVE  Settling' /\ (pc' = "wait" /\ ~pending' => Current(disk.ver)')
    OBVIOUS
  <2>1. disk' = disk /\ pem' = pem
    BY <1>1, NoEdit DEF ReloadInv
  <2>2. disk'.valid /\ FilesUsable(disk.ver)'
    BY <2>1 DEF Settling, FilesUsable
  <2>3. Converging'
    <3>1. CASE pending'
      BY Zenon, <3>1 DEF Converging
    <3>2. CASE ~pending /\ ~pending'
      BY Zenon, <1>1, <2>1, <3>2, ConvergingStep
    <3>3. CASE pending /\ ~pending'
      <4>1. ~(SendHup \/ LoadConfig \/ StoreSwap \/ ReadFile \/ ReadFails \/ StoreTable)
        BY Zenon, <3>3 DEF SendHup, LoadConfig, StoreSwap, ReadFile, ReadFails, StoreTable
      <4>2. ~(\E ok \in BOOLEAN : EditConfig(ok)) /\ ~(\E f \in Files : EditPem(f))
        BY Zenon, <3>3 DEF EditConfig, EditPem
      <4>3. ~(\E r \in Requests : Finish(r) \/ \E s \in Swaps : LoadFull(r, s)) /\ ~UNCHANGED vars
        BY Zenon, <3>3 DEF Finish, LoadFull, vars
      <4>4. TakeHup
        BY Zenon, <1>1, <4>1, <4>2, <4>3 DEF Next
      <4> QED
        BY Zenon, <4>4 DEF TakeHup, Converging
    <3> QED
      BY Zenon, <3>1, <3>2, <3>3
  <2>4. pc' = "wait" /\ ~pending' => Current(disk.ver)'
    BY <2>3 DEF Converging
  <2> QED
    BY Zenon, <2>2, <2>3, <2>4 DEF Settling
<1> QED
  BY <1>1, ReloadCorrect, PTL DEF Spec, HupNotLost
=============================================================================
