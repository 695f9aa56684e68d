-------------------------- MODULE SessionStoreProofs --------------------------
(***************************************************************************)
(* Proofs about what the sessions keep beside their logs: the index of all *)
(* sessions (SessionCatalog), and the blobs of one (SessionBlobs).         *)
(***************************************************************************)
EXTENDS SessionBlobs, SessionCatalog, FiniteSetTheorems, SequenceTheorems, TLAPS

-----------------------------------------------------------------------------
(* The index as data: what its lines say of a session.  A tombstone among  *)
(* them is final; without one, the last put that can be read counts.       *)

\* Index.fold by one line.
FoldStep(c, entries, record) ==
    IF record.op = "bad" THEN entries ELSE [entries EXCEPT ![record.id] = Merge(@, record)]

LEMMA EntriesAre ==
  /\ Gone.deleted /\ ~Absent.deleted /\ Gone # Absent
  /\ \A v : ~Listing(v).deleted /\ Listing(v) # Gone /\ Listing(v).version = v
  /\ \A v \in Nat : Listing(v) # Absent
<1>1. Gone.deleted /\ ~Absent.deleted /\ Gone # Absent
  BY DEF Gone, Absent
<1>2. \A v : ~Listing(v).deleted /\ Listing(v) # Gone /\ Listing(v).version = v
  BY DEF Gone, Listing
<1>3. \A v \in Nat : Listing(v) # Absent
  BY DEF Absent, Listing
<1> QED BY <1>1, <1>2, <1>3

\* A line deletes x; no line that can be read is about x; line i is the last put of x.
Deleted(recs, x) == \E i \in 1 .. Len(recs) : recs[i].op = "del" /\ recs[i].id = x
Unknown(recs, x) == \A i \in 1 .. Len(recs) : recs[i].id = x => recs[i].op = "bad"
LastPut(recs, x, i) ==
    /\ recs[i].op = "put" /\ recs[i].id = x
    /\ \A j \in 1 .. Len(recs) : recs[j].id = x => recs[j].op # "del" /\ (j > i => recs[j].op = "bad")

Says(recs, x, entry) ==
    \/ entry = Gone /\ Deleted(recs, x)
    \/ entry = Absent /\ Unknown(recs, x)
    \/ \E i \in 1 .. Len(recs) : LastPut(recs, x, i) /\ entry = Listing(recs[i].version)

SaysAll(c, recs, entries) ==
    entries \in [Ids -> Entries] /\ \A x \in Ids : Says(recs, x, entries[x])

LinesFold == INSTANCE SequenceFolds WITH Op <- FoldStep, P <- SaysAll

NoEntries == [x \in Ids |-> Absent]

LEMMA FoldIs ==
  ASSUME NEW recs
  PROVE  Fold(recs) = LinesFold!Fold(0, NoEntries, recs)
BY DEF Fold, FoldStep, NoEntries, LinesFold!Fold, FoldLeft, MapThenFoldSet, Max, LinesFold!FoldLeft,
       LinesFold!MapThenFoldSet, LinesFold!Max

LEMMA SaysMore ==
  ASSUME NEW recs \in Seq(Records), NEW record \in Records, NEW entries, SaysAll(0, recs, entries)
  PROVE  SaysAll(0, Append(recs, record), FoldStep(0, entries, record))
<1> DEFINE more == Append(recs, record)
           n == Len(recs)
<1>1. /\ n \in Nat /\ Len(more) = n + 1 /\ more[n + 1] = record
      /\ \A i \in 1 .. n : more[i] = recs[i]
      /\ \A i \in 1 .. n + 1 : i \in 1 .. n \/ i = n + 1
  OBVIOUS
<1>2. /\ entries \in [Ids -> Entries]
      /\ record.id \in Ids /\ record.op \in {"put", "del", "bad"} /\ record.version \in Nat
  BY DEF SaysAll, Records, Ops
<1> HIDE DEF more, n
<1>3. ASSUME NEW x \in Ids
      PROVE  Says(more, x, FoldStep(0, entries, record)[x])
  <2>1. Says(recs, x, entries[x])
    BY DEF SaysAll
  <2>2. CASE record.op = "bad" \/ record.id # x
    <3>1. FoldStep(0, entries, record)[x] = entries[x]
      BY <1>2, <2>2 DEF FoldStep
    <3>2. Deleted(recs, x) => Deleted(more, x)
      BY <1>1 DEF Deleted, n
    <3>3. Unknown(recs, x) => Unknown(more, x)
      BY <1>1, <2>2 DEF Unknown, n
    <3>4. \A i \in 1 .. n : LastPut(recs, x, i) => LastPut(more, x, i) /\ i \in 1 .. Len(more)
      BY <1>1, <2>2 DEF LastPut, n
    <3>5. Says(more, x, entries[x])
      BY <1>1, <2>1, <3>2, <3>3, <3>4 DEF Says, n
    <3> QED BY <3>1, <3>5
  <2>3. CASE record.op = "del" /\ record.id = x
    <3>1. FoldStep(0, entries, record)[x] = Gone
      BY <1>2, <2>3 DEF FoldStep, Merge
    <3>2. Says(more, x, Gone)
      BY <1>1, <2>3 DEF Says, Deleted
    <3> QED BY <3>1, <3>2
  <2>4. CASE record.op = "put" /\ record.id = x /\ entries[x].deleted
    <3>1. FoldStep(0, entries, record)[x] = Gone
      BY <1>2, <2>4 DEF FoldStep, Merge
    <3>2. Deleted(recs, x)
      BY <2>1, <2>4, EntriesAre DEF Says
    <3>3. Says(more, x, Gone)
      BY <1>1, <3>2 DEF Says, Deleted, n
    <3> QED BY <3>1, <3>3
  <2>5. CASE record.op = "put" /\ record.id = x /\ ~entries[x].deleted
    <3>1. FoldStep(0, entries, record)[x] = Listing(record.version)
      BY <1>2, <2>5 DEF FoldStep, Merge, Listing
    <3>2. \A i \in 1 .. n : recs[i].id = x => recs[i].op # "del"
      BY <2>1, <2>5, EntriesAre DEF Says, n, Unknown, LastPut
    <3>3. Says(more, x, Listing(record.version))
      <4>1. more[n + 1].op = "put" /\ more[n + 1].id = x /\ n + 1 \in 1 .. Len(more)
        BY <1>1, <2>5
      <4>2. \A j \in 1 .. Len(more) : more[j].id = x => more[j].op # "del" /\ (j > n + 1 => more[j].op = "bad")
        BY <1>1, <2>5, <3>2
      <4> QED BY <1>1, <4>1, <4>2 DEF Says, LastPut
    <3> QED BY <3>1, <3>3
  <2> QED BY <1>2, <2>2, <2>3, <2>4, <2>5
<1>4. \A e \in Entries : Merge(e, record) \in Entries
  BY <1>2 DEF Merge, Gone, Listing, Entries
<1>5. FoldStep(0, entries, record) \in [Ids -> Entries]
  BY <1>2, <1>4 DEF FoldStep
<1> QED BY <1>3, <1>5 DEF SaysAll, more

\* Lines say one thing of a session, and the fold is what they say.
LEMMA SaysOne ==
  ASSUME NEW recs, NEW x, NEW e, NEW f, Says(recs, x, e), Says(recs, x, f), Len(recs) \in Nat
  PROVE  e = f
<1>1. ~(Deleted(recs, x) /\ Unknown(recs, x))
  BY DEF Deleted, Unknown
<1>2. ASSUME NEW i \in 1 .. Len(recs), LastPut(recs, x, i)
      PROVE  ~Deleted(recs, x) /\ ~Unknown(recs, x)
  BY <1>2 DEF LastPut, Deleted, Unknown
<1>3. ASSUME NEW i \in 1 .. Len(recs), NEW k \in 1 .. Len(recs), LastPut(recs, x, i), LastPut(recs, x, k)
      PROVE  i = k
  <2>1. ~(k > i) /\ ~(i > k)
    BY <1>3 DEF LastPut
  <2> QED BY <2>1
<1>4. CASE e = Gone /\ Deleted(recs, x)
  BY <1>1, <1>2, <1>4 DEF Says
<1>5. CASE e = Absent /\ Unknown(recs, x)
  BY <1>1, <1>2, <1>5 DEF Says
<1>6. ASSUME NEW i \in 1 .. Len(recs), LastPut(recs, x, i), e = Listing(recs[i].version)
      PROVE  e = f
  <2>1. ~(f = Gone /\ Deleted(recs, x)) /\ ~(f = Absent /\ Unknown(recs, x))
    BY <1>2, <1>6
  <2>2. PICK k \in 1 .. Len(recs) : LastPut(recs, x, k) /\ f = Listing(recs[k].version)
    BY <2>1 DEF Says
  <2>3. i = k
    BY <1>3, <1>6, <2>2
  <2> QED BY <1>6, <2>2, <2>3
<1> QED BY <1>4, <1>5, <1>6 DEF Says

LEMMA FoldSays ==
  ASSUME NEW recs \in Seq(Records)
  PROVE  /\ Fold(recs) \in [Ids -> Entries]
         /\ \A x \in Ids : Says(recs, x, Fold(recs)[x])
         /\ \A x \in Ids : \A e : Says(recs, x, e) => Fold(recs)[x] = e
<1>1. SaysAll(0, <<>>, NoEntries)
  BY DEF SaysAll, Says, NoEntries, Unknown, Absent, Entries
<1>2. \A s \in Seq(Records), x \in Records : \A a :
        SaysAll(0, s, a) => SaysAll(0, Append(s, x), FoldStep(0, a, x))
  BY SaysMore
<1>3. \A seq \in Seq(Records) : SaysAll(0, seq, LinesFold!Fold(0, NoEntries, seq))
  BY <1>1, <1>2, LinesFold!FoldInduction
<1>4. SaysAll(0, recs, Fold(recs))
  BY <1>3, FoldIs
<1> QED BY <1>4, SaysOne DEF SaysAll

\* An entry: nothing, a tombstone, or the version a session was put with.
Normal(e) == e = Absent \/ e = Gone \/ \E v \in Nat : e = Listing(v)

\* What an entry tells of the lines that say it.
LEMMA SaysWhat ==
  ASSUME NEW recs \in Seq(Records), NEW x, NEW e, Says(recs, x, e)
  PROVE  Normal(e) /\ (e.deleted <=> Deleted(recs, x)) /\ (e = Absent <=> Unknown(recs, x))
<1>1. \A i \in 1 .. Len(recs) : recs[i].version \in Nat
  <2> SUFFICES ASSUME NEW i \in 1 .. Len(recs) PROVE recs[i].version \in Nat
    OBVIOUS
  <2>1. recs[i] \in Records
    OBVIOUS
  <2> QED BY <2>1 DEF Records
<1>2. CASE e = Gone /\ Deleted(recs, x)
  BY <1>2, EntriesAre DEF Normal, Deleted, Unknown
<1>3. CASE e = Absent /\ Unknown(recs, x)
  BY <1>3, EntriesAre DEF Normal, Deleted, Unknown
<1>4. ASSUME NEW i \in 1 .. Len(recs), LastPut(recs, x, i), e = Listing(recs[i].version)
      PROVE  Normal(e) /\ (e.deleted <=> Deleted(recs, x)) /\ (e = Absent <=> Unknown(recs, x))
  <2>1. ~Deleted(recs, x) /\ ~Unknown(recs, x)
    BY <1>4 DEF LastPut, Deleted, Unknown
  <2> QED BY <1>1, <1>4, <2>1, EntriesAre DEF Normal
<1> QED BY <1>2, <1>3, <1>4 DEF Says

LEMMA FoldNormal ==
  ASSUME NEW recs \in Seq(Records), NEW x \in Ids
  PROVE  Normal(Fold(recs)[x])
BY FoldSays, SaysWhat

\* A line more.
LEMMA FoldAppend ==
  ASSUME NEW recs \in Seq(Records), NEW record \in Records
  PROVE  /\ Append(recs, record) \in Seq(Records)
         /\ \A x \in Ids : Fold(Append(recs, record))[x] =
                IF record.op # "bad" /\ record.id = x THEN Merge(Fold(recs)[x], record) ELSE Fold(recs)[x]
<1>1. SaysAll(0, recs, Fold(recs))
  BY FoldSays DEF SaysAll
<1>2. SaysAll(0, Append(recs, record), FoldStep(0, Fold(recs), record)) /\ Append(recs, record) \in Seq(Records)
  BY <1>1, SaysMore
<1>3. ASSUME NEW x \in Ids
      PROVE  Fold(Append(recs, record))[x] = FoldStep(0, Fold(recs), record)[x]
  BY <1>2, FoldSays DEF SaysAll
<1>4. DOMAIN Fold(recs) = Ids
  BY FoldSays
<1> QED BY <1>2, <1>3, <1>4 DEF FoldStep

\* A damaged line takes from the fold what it said of its own session, at most.
LEMMA FoldDamaged ==
  ASSUME NEW recs \in Seq(Records), NEW i \in 1 .. Len(recs)
  PROVE  LET damaged == [recs EXCEPT ![i].op = "bad"] IN
         /\ damaged \in Seq(Records) /\ Len(damaged) = Len(recs)
         /\ \A x \in Ids : /\ x # recs[i].id => Fold(damaged)[x] = Fold(recs)[x]
                           /\ Fold(damaged)[x].deleted => Fold(recs)[x].deleted
                           /\ Fold(damaged)[x] # Absent => Fold(recs)[x] # Absent
<1> DEFINE damaged == [recs EXCEPT ![i].op = "bad"]
<1>1. /\ Len(damaged) = Len(recs) /\ Len(recs) \in Nat
      /\ \A j \in 1 .. Len(recs) : j # i => damaged[j] = recs[j]
      /\ damaged[i].op = "bad" /\ damaged[i].id = recs[i].id /\ damaged[i] \in Records
  <2>1. recs[i] \in Records /\ Len(recs) \in Nat
    OBVIOUS
  <2>2. damaged[i] = [recs[i] EXCEPT !.op = "bad"]
    OBVIOUS
  <2>3. damaged[i] \in Records /\ damaged[i].op = "bad" /\ damaged[i].id = recs[i].id
    BY <2>1, <2>2 DEF Records, Ops
  <2> QED BY <2>1, <2>3
<1>2. damaged \in Seq(Records)
  BY <1>1
<1> HIDE DEF damaged
<1>3. ASSUME NEW x \in Ids
      PROVE  /\ x # recs[i].id => Fold(damaged)[x] = Fold(recs)[x]
             /\ Fold(damaged)[x].deleted => Fold(recs)[x].deleted
             /\ Fold(damaged)[x] # Absent => Fold(recs)[x] # Absent
  <2> DEFINE e == Fold(recs)[x]
             f == Fold(damaged)[x]
  <2>1. Says(recs, x, e) /\ Says(damaged, x, f) /\ \A g : Says(damaged, x, g) => f = g
    BY <1>2, FoldSays
  <2> HIDE DEF e, f
  <2>2. ASSUME x # recs[i].id
        PROVE  Says(damaged, x, e)
    <3>1. Deleted(recs, x) => Deleted(damaged, x)
      BY <1>1, <2>2 DEF Deleted
    <3>2. Unknown(recs, x) => Unknown(damaged, x)
      BY <1>1, <2>2 DEF Unknown
    <3>3. \A k \in 1 .. Len(recs) : LastPut(recs, x, k) => LastPut(damaged, x, k) /\ damaged[k] = recs[k]
      BY <1>1, <2>2 DEF LastPut
    <3> QED BY <1>1, <2>1, <3>1, <3>2, <3>3 DEF Says
  <2>3. f.deleted => e.deleted
    <3>1. Deleted(damaged, x) => Deleted(recs, x)
      BY <1>1 DEF Deleted
    <3> QED BY <1>2, <2>1, <3>1, SaysWhat
  <2>4. f # Absent => e # Absent
    <3>1. Unknown(recs, x) => Unknown(damaged, x)
      BY <1>1 DEF Unknown
    <3> QED BY <1>2, <2>1, <3>1, SaysWhat
  <2> QED BY <2>1, <2>2, <2>3, <2>4 DEF e, f
<1> QED BY <1>1, <1>2, <1>3 DEF damaged

\* The first lines say no more than all of them.
LEMMA FoldPrefix ==
  ASSUME NEW recs \in Seq(Records), NEW n \in 0 .. Len(recs)
  PROVE  /\ SubSeq(recs, 1, n) \in Seq(Records) /\ Len(SubSeq(recs, 1, n)) = n
         /\ \A x \in Ids : /\ Fold(SubSeq(recs, 1, n))[x].deleted => Fold(recs)[x].deleted
                           /\ Fold(SubSeq(recs, 1, n))[x] # Absent => Fold(recs)[x] # Absent
<1> DEFINE first == SubSeq(recs, 1, n)
<1>1. /\ first \in Seq(Records) /\ Len(first) = n /\ n \in Nat /\ n <= Len(recs) /\ Len(recs) \in Nat
      /\ \A i \in 1 .. n : first[i] = recs[i] /\ i \in 1 .. Len(recs)
  OBVIOUS
<1> HIDE DEF first
<1>2. ASSUME NEW x \in Ids
      PROVE  /\ Fold(first)[x].deleted => Fold(recs)[x].deleted
             /\ Fold(first)[x] # Absent => Fold(recs)[x] # Absent
  <2>1. Says(recs, x, Fold(recs)[x]) /\ Says(first, x, Fold(first)[x])
    BY <1>1, FoldSays
  <2>2. Deleted(first, x) => Deleted(recs, x)
    BY <1>1 DEF Deleted
  <2>3. Unknown(recs, x) => Unknown(first, x)
    BY <1>1 DEF Unknown
  <2> QED BY <1>1, <2>1, <2>2, <2>3, SaysWhat
<1> QED BY <1>1, <1>2 DEF first

\* Every element of a finite set is at one place of its sequence.
LEMMA SequenceOf ==
  ASSUME NEW S, IsFiniteSet(S)
  PROVE  /\ SetToSeq(S) \in Seq(S) /\ Len(SetToSeq(S)) \in Nat
         /\ \A e \in S : \E i \in 1 .. Len(SetToSeq(S)) : SetToSeq(S)[i] = e
         /\ \A i, j \in 1 .. Len(SetToSeq(S)) : SetToSeq(S)[i] = SetToSeq(S)[j] => i = j
<1> DEFINE n == Cardinality(S)
           f == SetToSeq(S)
<1>1. n \in Nat /\ ExistsBijection(1 .. n, S)
  BY FS_CardinalityType
<1>2. \E g \in [1 .. n -> S] : IsInjective(g)
  BY <1>1 DEF ExistsBijection, Bijection, Injection
<1>3. f \in [1 .. n -> S] /\ IsInjective(f)
  BY <1>2 DEF SetToSeq
<1>4. f \in Injection(1 .. n, S) /\ Cardinality(1 .. n) = n
  BY <1>1, <1>3, FS_Interval DEF Injection
<1>5. f \in Surjection(1 .. n, S)
  BY <1>4, FS_Injection
<1> HIDE DEF n, f
<1>6. f \in Seq(S) /\ Len(f) = n
  BY <1>1, <1>3
<1> QED BY <1>1, <1>3, <1>5, <1>6 DEF Surjection, IsInjective, f

\* A rewrite keeps what it is made from.
LEMMA FoldLines ==
  ASSUME NEW entries, DOMAIN entries = Ids, \A x \in Ids : Normal(entries[x])
  PROVE  /\ Lines(entries) \in Seq(Records)
         /\ \A x \in Ids : Fold(Lines(entries))[x] = entries[x]
<1> DEFINE D == {x \in Ids : entries[x] # Absent}
           Line(x) == [op |-> IF entries[x].deleted THEN "del" ELSE "put", id |-> x, version |-> entries[x].version]
           S == {Line(x) : x \in D}
           L == SetToSeq(S)
<1>1. \A x \in D : Line(x) \in Records /\ Line(x).id = x
                   /\ (entries[x] = Gone => Line(x).op = "del")
                   /\ (entries[x] # Gone => Line(x).op = "put" /\ entries[x] = Listing(Line(x).version))
  <2> SUFFICES ASSUME NEW x \in D
               PROVE  Line(x) \in Records /\ Line(x).id = x
                      /\ (entries[x] = Gone => Line(x).op = "del")
                      /\ (entries[x] # Gone => Line(x).op = "put"
                                               /\ entries[x] = Listing(Line(x).version))
    OBVIOUS
  <2>1. CASE entries[x] = Gone
    BY <2>1 DEF Gone, Records, Ops
  <2>2. CASE entries[x] # Gone
    <3>1. PICK v \in Nat : entries[x] = Listing(v)
      BY <2>2 DEF Normal
    <3>2. ~entries[x].deleted /\ entries[x].version = v
      BY <3>1, EntriesAre
    <3>3. /\ Line(x) = [op |-> "put", id |-> x, version |-> v]
          /\ x \in Ids
      BY <3>2
    <3>4. [op |-> "put", id |-> x, version |-> v] \in Records
      BY <3>3 DEF Records, Ops
    <3> HIDE DEF Line
    <3> QED BY <2>2, <3>1, <3>3, <3>4
  <2> QED BY <2>1, <2>2
<1>2. IsFiniteSet(S)
  <2>1. IsFiniteSet(D)
    BY CatalogAssumption, FS_Subset
  <2>2. [x \in D |-> Line(x)] \in Surjection(D, S)
    BY DEF Surjection
  <2> HIDE DEF D, S
  <2> QED BY <2>1, <2>2, FS_Surjection
<1>3. /\ L \in Seq(S) /\ Len(L) \in Nat
      /\ \A e \in S : \E i \in 1 .. Len(L) : L[i] = e
      /\ \A i, j \in 1 .. Len(L) : L[i] = L[j] => i = j
  <2> HIDE DEF S
  <2> QED BY <1>2, SequenceOf
<1>4. L \in Seq(Records)
  <2>1. S \subseteq Records
    BY <1>1
  <2> QED BY <1>3, <2>1
<1>5. \A i \in 1 .. Len(L) : L[i].id \in D /\ L[i] = Line(L[i].id)
  <2> HIDE DEF Line, L, D
  <2>1. SUFFICES ASSUME NEW i \in 1 .. Len(L)
                 PROVE  L[i].id \in D /\ L[i] = Line(L[i].id)
    OBVIOUS
  <2>2. L[i] \in S
    BY <1>3
  <2>3. PICK x \in D : L[i] = Line(x)
    BY <2>2
  <2>4. Line(x).id = x
    BY <1>1, <2>3
  <2> QED BY <2>3, <2>4
<1> HIDE DEF L
<1>6. ASSUME NEW x \in Ids
      PROVE  Says(L, x, entries[x])
  <2>1. CASE x \notin D
    <3>1. entries[x] = Absent /\ \A i \in 1 .. Len(L) : L[i].id # x
      BY <1>5, <2>1
    <3> QED BY <3>1 DEF Says, Unknown
  <2>2. CASE x \in D
    <3>1. PICK i \in 1 .. Len(L) : L[i] = Line(x)
      BY <1>3, <2>2
    <3>2. \A j \in 1 .. Len(L) : L[j].id = x => j = i
      BY <1>3, <1>5, <3>1
    <3>3. L[i].id = x
      BY <1>1, <2>2, <3>1
    <3>4. CASE entries[x] = Gone
      <4>1. L[i].op = "del"
        BY <1>1, <2>2, <3>1, <3>4
      <4> QED BY <3>3, <3>4, <4>1 DEF Says, Deleted
    <3>5. CASE entries[x] # Gone
      <4>1. L[i].op = "put" /\ entries[x] = Listing(L[i].version)
        BY <1>1, <2>2, <3>1, <3>5
      <4>2. \A j \in 1 .. Len(L) : L[j].id = x => L[j].op # "del" /\ ~(j > i)
        BY <1>3, <3>2, <4>1
      <4> QED BY <3>3, <4>1, <4>2 DEF Says, LastPut
    <3> QED BY <3>4, <3>5
  <2> QED BY <2>1, <2>2
<1>7. Lines(entries) = L
  BY DEF Lines, L
<1> QED BY <1>4, <1>6, <1>7, FoldSays

-----------------------------------------------------------------------------
(* The index and its folders *)

\* The bounds are what they were assumed to be; a folder that was made is one of them.
CatalogTypes ==
    /\ CatalogTypeOK
    /\ \A a \in Actors, x \in Ids : Normal(view[a][x])
    /\ \A x \in Ids : place[x] # "none" => x \in budget.ids
    /\ \A x \in open : place[x] = "root"

\* What an actor holds at each of its steps.
LocalsOf(a) ==
    /\ task[a] \in Owing => id[a] \in budget.ids /\ place[id[a]] # "none"
    /\ task[a] \in Deleting => id[a] \in budget.ids
    /\ task[a] \notin Deleting => kids[a] = {} /\ todo[a] = {}
    /\ task[a] \in {"idle", "heal"} => page[a] = {}
    /\ task[a] \in {"tombstone", "purge"} => target[a] \in Ids /\ place[target[a]] \in {"trash", "gone"}
    /\ task[a] \notin {"tombstone", "purge"} => target[a] = Nil
    /\ task[a] \in {"rebuild", "sweep"} <=> lock = a
LocalsHold == \A a \in Actors : LocalsOf(a)

\* What is known of a session was made, and what has a tombstone is out of the root.
KnownOf(entry, x) ==
    /\ entry # Absent => place[x] # "none"
    /\ entry.deleted => place[x] \in {"trash", "gone"}

KnownHold ==
    /\ \A x \in Ids : KnownOf(Fold(index)[x], x)
    /\ \A a \in Actors, x \in Ids : KnownOf(view[a][x], x)

\* One actor owes a session's record, and puts it as it is, unless two of its records
\* crossed.
OwedHold ==
    /\ \A a, b \in Actors : task[a] \in Owing /\ task[b] \in Owing /\ id[a] = id[b] =>
           a = b \/ id[a] \in crossed
    /\ \A a \in Actors : task[a] = "put" => copy[a] = version[id[a]] \/ id[a] \in crossed

\* What a heal will write of a session, no record of which it has missed, has its
\* tombstone, and is what the index says, unless the session is stale.
HealHas(a, x) ==
    task[a] = "heal" /\ x \notin missed[a] =>
        /\ Fold(index)[x].deleted => view[a][x].deleted
        /\ x \in stale \/ view[a][x] = Fold(index)[x]
HealHolds == \A a \in Actors, x \in Ids : HealHas(a, x)

\* A rebuild has every tombstone, and what it has read is as it is, unless a record is
\* owed, two records crossed or the session is stale.
RebuildHas(a, x) ==
    task[a] = "rebuild" =>
        /\ Fold(index)[x].deleted => view[a][x].deleted
        /\ x \in page[a] /\ place[x] = "root" /\ x \notin stale \union crossed /\ ~Owed(x) =>
               view[a][x] = Listing(version[x])
RebuildHolds == \A a \in Actors, x \in Ids : RebuildHas(a, x)

\* What a delete has removed stays so, and no list that began later shows it.
RemovedHold ==
    /\ \A x \in removed : place[x] = "gone"
    /\ \A a \in Actors : begun[a] \subseteq removed
    /\ ListedIsNotRemoved

\* A delete is done with the children it found before it moves the session.
KidsOf(a) ==
    /\ \A c \in todo[a] : Parent[c] = id[a]
    /\ \A c \in kids[a] : place[c] # "none" /\ (c \in todo[a] \/ place[c] # "root")
    /\ id[a] # Nil /\ target[a] = id[a] => todo[a] = {}
KidsHold == \A a \in Actors : KidsOf(a)

CatalogInv ==
    /\ CatalogTypes /\ LocalsHold /\ KnownHold /\ OwedHold /\ HealHolds
    /\ RebuildHolds /\ StaleIsReported /\ RemovedHold /\ KidsHold

-----------------------------------------------------------------------------
(* Writes of the index *)

LEMMA EntryTypes ==
  /\ Absent \in Entries /\ Gone \in Entries
  /\ \A v \in Nat : Listing(v) \in Entries /\ Normal(Listing(v))
  /\ Normal(Absent) /\ Normal(Gone)
BY DEF Absent, Gone, Entries, Listing, Normal

\* A record more in the index, with or without a rewrite after it.
LEMMA AppendFolds ==
  ASSUME index \in Seq(Records), index_synced \in 0 .. Len(index),
         NEW record \in Records, AppendRecord(record)
  PROVE  /\ index' \in Seq(Records) /\ index_synced' \in 0 .. Len(index')
         /\ lock = Nil
         /\ missed' = [b \in Actors |-> IF task[b] = "heal" THEN missed[b] \union {record.id} ELSE {}]
         /\ \A x \in Ids : Fold(index')[x] =
                IF record.op # "bad" /\ record.id = x THEN Merge(Fold(index)[x], record) ELSE Fold(index)[x]
<1> DEFINE recs == Append(index, record)
<1>1. /\ recs \in Seq(Records) /\ Len(recs) = Len(index) + 1 /\ Len(index) \in Nat
      /\ \A x \in Ids : Fold(recs)[x] =
             IF record.op # "bad" /\ record.id = x THEN Merge(Fold(index)[x], record) ELSE Fold(index)[x]
  BY FoldAppend
<1>2. DOMAIN Fold(recs) = Ids /\ \A x \in Ids : Normal(Fold(recs)[x])
  BY <1>1, FoldSays, FoldNormal
<1>3. /\ Lines(Fold(recs)) \in Seq(Records)
      /\ \A x \in Ids : Fold(Lines(Fold(recs)))[x] = Fold(recs)[x]
  BY <1>2, FoldLines
<1>4. /\ lock = Nil
      /\ missed' = [b \in Actors |-> IF task[b] = "heal" THEN missed[b] \union {record.id} ELSE {}]
  BY DEF AppendRecord, Writes
<1>5. \/ index' = recs /\ index_synced' = index_synced
      \/ index' = Lines(Fold(recs)) /\ index_synced' = Len(index')
  BY DEF AppendRecord
<1> HIDE DEF recs
<1>6. CASE index' = recs /\ index_synced' = index_synced
  BY <1>1, <1>4, <1>6
<1>7. CASE index' = Lines(Fold(recs)) /\ index_synced' = Len(index')
  BY <1>1, <1>3, <1>4, <1>7
<1> QED BY <1>5, <1>6, <1>7

LEMMA PutFolds ==
  ASSUME index \in Seq(Records), index_synced \in 0 .. Len(index), NEW y \in Ids, NEW v \in Nat,
         AppendRecord([op |-> "put", id |-> y, version |-> v])
  PROVE  /\ index' \in Seq(Records) /\ index_synced' \in 0 .. Len(index')
         /\ lock = Nil
         /\ missed' = [b \in Actors |-> IF task[b] = "heal" THEN missed[b] \union {y} ELSE {}]
         /\ \A x \in Ids : x # y => Fold(index')[x] = Fold(index)[x]
         /\ Fold(index')[y] = IF Fold(index)[y].deleted THEN Gone ELSE Listing(v)
<1> DEFINE record == [op |-> "put", id |-> y, version |-> v]
<1>1. /\ record \in Records /\ record.op = "put" /\ record.id = y
      /\ \A e : Merge(e, record) = IF e.deleted THEN Gone ELSE Listing(v)
  BY DEF Records, Ops, Merge, Listing
<1> HIDE DEF record
<1>2. AppendRecord(record)
  BY DEF record
<1> QED BY <1>1, <1>2, AppendFolds

LEMMA DelFolds ==
  ASSUME index \in Seq(Records), index_synced \in 0 .. Len(index), NEW y \in Ids,
         AppendRecord([op |-> "del", id |-> y, version |-> 0])
  PROVE  /\ index' \in Seq(Records) /\ index_synced' \in 0 .. Len(index')
         /\ lock = Nil
         /\ missed' = [b \in Actors |-> IF task[b] = "heal" THEN missed[b] \union {y} ELSE {}]
         /\ \A x \in Ids : x # y => Fold(index')[x] = Fold(index)[x]
         /\ Fold(index')[y] = Gone
<1> DEFINE record == [op |-> "del", id |-> y, version |-> 0]
<1>1. /\ record \in Records /\ record.op = "del" /\ record.id = y
      /\ \A e : Merge(e, record) = Gone
  BY DEF Records, Ops, Merge
<1> HIDE DEF record
<1>2. AppendRecord(record)
  BY DEF record
<1> QED BY <1>1, <1>2, AppendFolds

LEMMA WriteFolds ==
  ASSUME NEW entries \in [Ids -> Entries], \A x \in Ids : Normal(entries[x]), WriteFresh(entries)
  PROVE  /\ index' \in Seq(Records) /\ index_synced' \in 0 .. Len(index')
         /\ \A x \in Ids : Fold(index')[x] = entries[x]
<1>1. Lines(entries) \in Seq(Records) /\ \A x \in Ids : Fold(Lines(entries))[x] = entries[x]
  BY FoldLines
<1> QED BY <1>1 DEF WriteFresh

\* Every entry of the index is one.
LEMMA IndexFolds ==
  ASSUME CatalogTypes
  PROVE  /\ index \in Seq(Records) /\ index_synced \in 0 .. Len(index)
         /\ Fold(index) \in [Ids -> Entries]
         /\ \A x \in Ids : Normal(Fold(index)[x])
BY FoldSays, FoldNormal DEF CatalogTypes, CatalogTypeOK

-----------------------------------------------------------------------------
(* The steps *)


\* Another actor's own state is as it was; an actor is at rest.
Same(b) ==
    /\ task'[b] = task[b] /\ id'[b] = id[b] /\ copy'[b] = copy[b]
    /\ kids'[b] = kids[b] /\ todo'[b] = todo[b] /\ target'[b] = target[b]
    /\ view'[b] = view[b] /\ page'[b] = page[b] /\ begun'[b] = begun[b]

Rests(a) ==
    /\ task'[a] = "idle" /\ id'[a] = Nil /\ copy'[a] = 0
    /\ kids'[a] = {} /\ todo'[a] = {} /\ target'[a] = Nil
    /\ view'[a] = [x \in Ids |-> Absent] /\ page'[a] = {} /\ begun'[a] = {}

\* What the types say of one actor and one session.
Shape ==
    /\ budget.faults \in Nat /\ budget.damage \in Nat /\ budget.crashes \in Nat
    /\ budget.ids \subseteq Ids /\ stale \subseteq Ids /\ removed \subseteq Ids /\ open \subseteq Ids
    /\ crossed \subseteq Ids /\ \A a \in Actors : missed[a] \subseteq Ids
    /\ \A x \in Ids : version[x] \in Nat /\ place[x] \in {"none", "root", "trash", "gone"}
    /\ \A x \in open : place[x] = "root"
    /\ \A x \in Ids : Parent[x] # x
    /\ \A a \in Actors : /\ id[a] \in Ids \union {Nil} /\ target[a] \in Ids \union {Nil}
                         /\ kids[a] \subseteq Ids /\ todo[a] \subseteq Ids /\ page[a] \subseteq Ids

LEMMA Returns ==
  ASSUME CatalogTypes, NEW a \in Actors, Return(a)
  PROVE  /\ Rests(a) /\ \A b \in Actors : b # a => Same(b)
         /\ task' \in [Actors -> Steps] /\ id' \in [Actors -> Ids \union {Nil}]
         /\ copy' \in [Actors -> Nat]
         /\ kids' \in [Actors -> SUBSET Ids] /\ todo' \in [Actors -> SUBSET Ids]
         /\ target' \in [Actors -> Ids \union {Nil}]
         /\ view' \in [Actors -> [Ids -> Entries]] /\ page' \in [Actors -> SUBSET Ids]
         /\ begun' \in [Actors -> SUBSET Ids]
         /\ \A b \in Actors, x \in Ids : Normal(view'[b][x])
<1> USE DEF CatalogTypes, CatalogTypeOK, Return
<1>1. Rests(a) /\ \A b \in Actors : b # a => Same(b)
  BY DEF Rests, Same
<1>2. /\ task' \in [Actors -> Steps] /\ id' \in [Actors -> Ids \union {Nil}]
      /\ copy' \in [Actors -> Nat]
  BY DEF Steps
<1>3. /\ kids' \in [Actors -> SUBSET Ids] /\ todo' \in [Actors -> SUBSET Ids]
      /\ target' \in [Actors -> Ids \union {Nil}]
      /\ page' \in [Actors -> SUBSET Ids] /\ begun' \in [Actors -> SUBSET Ids]
  OBVIOUS
<1>4. [x \in Ids |-> Absent] \in [Ids -> Entries]
  BY EntryTypes
<1>5. view' \in [Actors -> [Ids -> Entries]] /\ \A b \in Actors, x \in Ids : Normal(view'[b][x])
  BY <1>4, EntryTypes
<1> QED BY <1>1, <1>2, <1>3, <1>5

LEMMA PublishStep ==
  ASSUME CatalogInv, NEW a \in Actors, NEW x \in budget.ids, Publish(a, x), UNCHANGED budget
  PROVE  CatalogInv'
<1> USE DEF CatalogInv, folders, file, locals, bounds, histories, Owing, Deleting
<1>0. Shape /\ x \in Ids /\ Nil \notin Ids /\ Nil \notin Actors /\ budget' = budget
  BY CatalogAssumption DEF Shape, CatalogTypes, CatalogTypeOK
<1>1. /\ task[a] = "idle" /\ place[x] = "none"
      /\ version' = version /\ index' = index /\ lock' = lock /\ stale' = stale
      /\ removed' = removed
      /\ place'[x] = "root" /\ \A y \in Ids : y # x => place'[y] = place[y]
      /\ index_synced' = index_synced
      /\ task'[a] = "summary" /\ id'[a] = x /\ copy'[a] = copy[a] /\ kids'[a] = kids[a]
      /\ todo'[a] = todo[a] /\ target'[a] = target[a] /\ view'[a] = view[a] /\ page'[a] = page[a]
      /\ begun'[a] = begun[a]
      /\ \A b \in Actors : b # a => Same(b)
      /\ missed' = missed /\ (Owed(x) => x \in crossed')
      /\ crossed \subseteq crossed' /\ crossed' \subseteq crossed \union {x}
  BY <1>0 DEF Publish, Begin, Goto, CatalogTypes, CatalogTypeOK, Same
<1>2. (\A y \in Ids : Owed(y) => Owed(y)') /\ Owed(x)'
  BY <1>0, <1>1 DEF Owed, Owes, Same
<1>3. CatalogTypes'
  <2>1. CatalogTypeOK'
    <3>1. /\ place' \in [Ids -> {"none", "root", "trash", "gone"}]
          /\ open' \subseteq Ids /\ version' \in [Ids -> Nat]
          /\ index' \in Seq(Records) /\ index_synced' \in 0 .. Len(index')
          /\ lock' \in Actors \union {Nil} /\ stale' \subseteq Ids /\ removed' \subseteq Ids
          /\ crossed' \subseteq Ids /\ missed' \in [Actors -> SUBSET Ids]
      BY <1>0, <1>1 DEF Publish, Begin, Goto, CatalogTypes, CatalogTypeOK, Shape, LocalsHold, LocalsOf
    <3>2. /\ task' \in [Actors -> Steps] /\ id' \in [Actors -> Ids \union {Nil}]
          /\ copy' \in [Actors -> Nat] /\ target' \in [Actors -> Ids \union {Nil}]
      BY <1>0 DEF Publish, Begin, Goto, CatalogTypes, CatalogTypeOK, Steps, Shape, LocalsHold, LocalsOf
    <3>3. /\ kids' \in [Actors -> SUBSET Ids] /\ todo' \in [Actors -> SUBSET Ids]
          /\ page' \in [Actors -> SUBSET Ids] /\ begun' \in [Actors -> SUBSET Ids]
      BY <1>0 DEF Publish, Begin, Goto, CatalogTypes, CatalogTypeOK, Shape
    <3>4. view' \in [Actors -> [Ids -> Entries]]
      BY <1>0, EntryTypes DEF Publish, Begin, Goto, CatalogTypes, CatalogTypeOK, Shape
    <3>5. /\ faults' \in 0 .. budget'.faults /\ damage' \in 0 .. budget'.damage
          /\ crashes' \in 0 .. budget'.crashes /\ budget' \in Budgets
      BY <1>0 DEF Publish, Begin, Goto, CatalogTypes, CatalogTypeOK, Shape
    <3> QED BY <3>1, <3>2, <3>3, <3>4, <3>5 DEF CatalogTypeOK
  <2>2. ASSUME NEW b \in Actors, NEW y \in Ids
        PROVE  Normal(view[b][y])'
    <3>1. Normal(view[b][y])
      BY DEF CatalogTypes
    <3>2. CASE b = a
      BY <1>0, <1>1, <3>1, <3>2, EntryTypes DEF Shape
    <3>3. CASE b # a
      BY <1>1, <3>1, <3>3 DEF Same
    <3> QED BY <3>2, <3>3
  <2>3. (\A y \in Ids : place[y] # "none" => y \in budget.ids)'
    BY <1>0, <1>1 DEF CatalogTypes, CatalogTypeOK
  <2>4. (\A y \in open : place[y] = "root")'
    BY <1>0, <1>1 DEF Shape, Publish, Begin, Goto, CatalogTypes, CatalogTypeOK
  <2> QED BY <2>1, <2>2, <2>3, <2>4 DEF CatalogTypes
<1>4. LocalsHold'
  <2>1. LocalsOf(a)'
    BY <1>0, <1>1 DEF LocalsHold, LocalsOf, Shape
  <2>2. ASSUME NEW b \in Actors, b # a
        PROVE  LocalsOf(b)'
    BY <1>0, <1>1, <2>2 DEF LocalsHold, LocalsOf, Shape, Same
  <2> QED BY <2>1, <2>2 DEF LocalsHold
<1>5. KnownHold'
  <2>1. ASSUME NEW y \in Ids
        PROVE  KnownOf(Fold(index)[y], y)'
    BY <1>0, <1>1 DEF KnownHold, KnownOf, Shape
  <2>2. ASSUME NEW y \in Ids
        PROVE  KnownOf(view[a][y], y)'
    BY <1>0, <1>1, EntriesAre DEF KnownHold, KnownOf, Shape
  <2>3. ASSUME NEW b \in Actors, b # a, NEW y \in Ids
        PROVE  KnownOf(view[b][y], y)'
    BY <1>0, <1>1, <2>3 DEF KnownHold, KnownOf, Shape, Same
  <2> QED BY <2>1, <2>2, <2>3 DEF KnownHold
<1>6. OwedHold'
  <2>1. (\A b, c \in Actors : task[b] \in Owing /\ task[c] \in Owing /\ id[b] = id[c] => b = c \/ id[b] \in crossed)'
    BY <1>0, <1>1 DEF OwedHold, Owed, Owes, Same
  <2>2. ASSUME NEW b \in Actors
        PROVE  (task[b] = "put" => copy[b] = version[id[b]] \/ id[b] \in crossed)'
    <3>1. CASE b = a
      BY <1>0, <1>1, <3>1 DEF OwedHold, LocalsHold, LocalsOf, Shape
    <3>2. CASE b # a
      BY <1>0, <1>1, <3>2 DEF OwedHold, LocalsHold, LocalsOf, Owed, Owes, Shape, Same
    <3> QED BY <3>1, <3>2
  <2> QED BY <2>1, <2>2 DEF OwedHold
<1>7. RebuildHolds'
  <2>1. ASSUME NEW y \in Ids
        PROVE  RebuildHas(a, y)'
    BY <1>0, <1>1, <1>2, EntriesAre DEF RebuildHolds, RebuildHas, KnownHold, KnownOf, LocalsHold, LocalsOf, Shape
  <2>2. ASSUME NEW b \in Actors, b # a, NEW y \in Ids
        PROVE  RebuildHas(b, y)'
    BY <1>0, <1>1, <1>2, <2>2 DEF RebuildHolds, RebuildHas, Shape, Same
  <2> QED BY <2>1, <2>2 DEF RebuildHolds
<1>8. StaleIsReported'
  BY <1>0, <1>1, <1>2, EntriesAre DEF StaleIsReported, KnownHold, KnownOf, Shape
<1>9. RemovedHold'
  <2>1. (\A y \in removed : place[y] = "gone")'
    BY <1>0, <1>1 DEF RemovedHold, Shape
  <2>2. (\A b \in Actors : begun[b] \subseteq removed)'
    BY <1>1 DEF RemovedHold, Same
  <2>3. ListedIsNotRemoved'
    BY <1>0, <1>1 DEF RemovedHold, ListedIsNotRemoved, LocalsHold, LocalsOf, Same
  <2> QED BY <2>1, <2>2, <2>3 DEF RemovedHold
<1>10. KidsHold'
  <2>1. KidsOf(a)'
    BY <1>0, <1>1 DEF KidsHold, KidsOf, LocalsHold, LocalsOf, Shape
  <2>2. ASSUME NEW b \in Actors, b # a
        PROVE  KidsOf(b)'
    BY <1>0, <1>1, <2>2 DEF KidsHold, KidsOf, LocalsHold, LocalsOf, Shape, Same
  <2> QED BY <2>1, <2>2 DEF KidsHold
<1>11. HealHolds'
  BY <1>0, <1>1 DEF HealHolds, HealHas, Shape, LocalsHold, LocalsOf, Same
<1> QED BY <1>3, <1>4, <1>5, <1>6, <1>7, <1>8, <1>9, <1>10, <1>11

LEMMA ChangeStep ==
  ASSUME CatalogInv, NEW a \in Actors, NEW x \in budget.ids, Change(a, x), UNCHANGED budget
  PROVE  CatalogInv'
<1> USE DEF CatalogInv, folders, file, locals, bounds, histories, Owing, Deleting
<1>0. Shape /\ x \in Ids /\ Nil \notin Ids /\ Nil \notin Actors /\ budget' = budget
  BY CatalogAssumption DEF Shape, CatalogTypes, CatalogTypeOK
<1>1. /\ task[a] = "idle" /\ x \in open
      /\ place' = place /\ index' = index /\ lock' = lock /\ stale' = stale
      /\ removed' = removed
      /\ version'[x] = version[x] + 1 /\ \A y \in Ids : y # x => version'[y] = version[y]
      /\ index_synced' = index_synced
      /\ task'[a] = "summary" /\ id'[a] = x /\ copy'[a] = copy[a] /\ kids'[a] = kids[a]
      /\ todo'[a] = todo[a] /\ target'[a] = target[a] /\ view'[a] = view[a] /\ page'[a] = page[a]
      /\ begun'[a] = begun[a]
      /\ \A b \in Actors : b # a => Same(b)
      /\ missed' = missed /\ (Owed(x) => x \in crossed')
      /\ crossed \subseteq crossed' /\ crossed' \subseteq crossed \union {x}
  BY <1>0 DEF Change, Begin, Goto, CatalogTypes, CatalogTypeOK, Same
<1>2. (\A y \in Ids : Owed(y) => Owed(y)') /\ Owed(x)'
  BY <1>0, <1>1 DEF Owed, Owes, Same
<1>3. CatalogTypes'
  <2>1. CatalogTypeOK'
    <3>1. /\ place' \in [Ids -> {"none", "root", "trash", "gone"}]
          /\ open' \subseteq Ids /\ version' \in [Ids -> Nat]
          /\ index' \in Seq(Records) /\ index_synced' \in 0 .. Len(index')
          /\ lock' \in Actors \union {Nil} /\ stale' \subseteq Ids /\ removed' \subseteq Ids
          /\ crossed' \subseteq Ids /\ missed' \in [Actors -> SUBSET Ids]
      <4>1. version' \in [Ids -> Nat] /\ UNCHANGED <<place, open>>
        BY <1>0 DEF Change, CatalogTypes, CatalogTypeOK, Shape
      <4> QED BY <1>1, <4>1 DEF CatalogTypes, CatalogTypeOK
    <3>2. /\ task' \in [Actors -> Steps] /\ id' \in [Actors -> Ids \union {Nil}]
          /\ copy' \in [Actors -> Nat] /\ target' \in [Actors -> Ids \union {Nil}]
      BY <1>0 DEF Change, Begin, Goto, CatalogTypes, CatalogTypeOK, Steps, Shape, LocalsHold, LocalsOf
    <3>3. /\ kids' \in [Actors -> SUBSET Ids] /\ todo' \in [Actors -> SUBSET Ids]
          /\ page' \in [Actors -> SUBSET Ids] /\ begun' \in [Actors -> SUBSET Ids]
      BY <1>0 DEF Change, Begin, Goto, CatalogTypes, CatalogTypeOK, Shape
    <3>4. view' \in [Actors -> [Ids -> Entries]]
      BY <1>0, EntryTypes DEF Change, Begin, Goto, CatalogTypes, CatalogTypeOK, Shape
    <3>5. /\ faults' \in 0 .. budget'.faults /\ damage' \in 0 .. budget'.damage
          /\ crashes' \in 0 .. budget'.crashes /\ budget' \in Budgets
      BY <1>0 DEF Change, Begin, Goto, CatalogTypes, CatalogTypeOK, Shape
    <3> QED BY <3>1, <3>2, <3>3, <3>4, <3>5 DEF CatalogTypeOK
  <2>2. ASSUME NEW b \in Actors, NEW y \in Ids
        PROVE  Normal(view[b][y])'
    <3>1. Normal(view[b][y])
      BY DEF CatalogTypes
    <3>2. CASE b = a
      BY <1>0, <1>1, <3>1, <3>2, EntryTypes DEF Shape
    <3>3. CASE b # a
      BY <1>1, <3>1, <3>3 DEF Same
    <3> QED BY <3>2, <3>3
  <2>3. (\A y \in Ids : place[y] # "none" => y \in budget.ids)'
    BY <1>0, <1>1 DEF CatalogTypes, CatalogTypeOK
  <2>4. (\A y \in open : place[y] = "root")'
    BY <1>0, <1>1 DEF Shape, Change, Begin, Goto, CatalogTypes, CatalogTypeOK
  <2> QED BY <2>1, <2>2, <2>3, <2>4 DEF CatalogTypes
<1>4. LocalsHold'
  <2>1. LocalsOf(a)'
    BY <1>0, <1>1 DEF LocalsHold, LocalsOf, Shape
  <2>2. ASSUME NEW b \in Actors, b # a
        PROVE  LocalsOf(b)'
    BY <1>0, <1>1, <2>2 DEF LocalsHold, LocalsOf, Shape, Same
  <2> QED BY <2>1, <2>2 DEF LocalsHold
<1>5. KnownHold'
  <2>1. ASSUME NEW y \in Ids
        PROVE  KnownOf(Fold(index)[y], y)'
    BY <1>0, <1>1 DEF KnownHold, KnownOf, Shape
  <2>2. ASSUME NEW y \in Ids
        PROVE  KnownOf(view[a][y], y)'
    BY <1>0, <1>1, EntriesAre DEF KnownHold, KnownOf, Shape
  <2>3. ASSUME NEW b \in Actors, b # a, NEW y \in Ids
        PROVE  KnownOf(view[b][y], y)'
    BY <1>0, <1>1, <2>3 DEF KnownHold, KnownOf, Shape, Same
  <2> QED BY <2>1, <2>2, <2>3 DEF KnownHold
<1>6. OwedHold'
  <2>1. (\A b, c \in Actors : task[b] \in Owing /\ task[c] \in Owing /\ id[b] = id[c] => b = c \/ id[b] \in crossed)'
    BY <1>0, <1>1 DEF OwedHold, Owed, Owes, Same
  <2>2. ASSUME NEW b \in Actors
        PROVE  (task[b] = "put" => copy[b] = version[id[b]] \/ id[b] \in crossed)'
    <3>1. CASE b = a
      BY <1>0, <1>1, <3>1 DEF OwedHold, LocalsHold, LocalsOf, Shape
    <3>2. CASE b # a
      BY <1>0, <1>1, <3>2 DEF OwedHold, LocalsHold, LocalsOf, Owed, Owes, Shape, Same
    <3> QED BY <3>1, <3>2
  <2> QED BY <2>1, <2>2 DEF OwedHold
<1>7. RebuildHolds'
  <2>1. ASSUME NEW y \in Ids
        PROVE  RebuildHas(a, y)'
    BY <1>0, <1>1, <1>2, EntriesAre DEF RebuildHolds, RebuildHas, KnownHold, KnownOf, LocalsHold, LocalsOf, Shape
  <2>2. ASSUME NEW b \in Actors, b # a, NEW y \in Ids
        PROVE  RebuildHas(b, y)'
    BY <1>0, <1>1, <1>2, <2>2 DEF RebuildHolds, RebuildHas, Shape, Same
  <2> QED BY <2>1, <2>2 DEF RebuildHolds
<1>8. StaleIsReported'
  BY <1>0, <1>1, <1>2, EntriesAre DEF StaleIsReported, KnownHold, KnownOf, Shape
<1>9. RemovedHold'
  <2>1. (\A y \in removed : place[y] = "gone")'
    BY <1>0, <1>1 DEF RemovedHold, Shape
  <2>2. (\A b \in Actors : begun[b] \subseteq removed)'
    BY <1>1 DEF RemovedHold, Same
  <2>3. ListedIsNotRemoved'
    BY <1>0, <1>1 DEF RemovedHold, ListedIsNotRemoved, LocalsHold, LocalsOf, Same
  <2> QED BY <2>1, <2>2, <2>3 DEF RemovedHold
<1>10. KidsHold'
  <2>1. KidsOf(a)'
    BY <1>0, <1>1 DEF KidsHold, KidsOf, LocalsHold, LocalsOf, Shape
  <2>2. ASSUME NEW b \in Actors, b # a
        PROVE  KidsOf(b)'
    BY <1>0, <1>1, <2>2 DEF KidsHold, KidsOf, LocalsHold, LocalsOf, Shape, Same
  <2> QED BY <2>1, <2>2 DEF KidsHold
<1>11. HealHolds'
  BY <1>0, <1>1 DEF HealHolds, HealHas, Shape, LocalsHold, LocalsOf, Same
<1> QED BY <1>3, <1>4, <1>5, <1>6, <1>7, <1>8, <1>9, <1>10, <1>11

LEMMA ResumeStep ==
  ASSUME CatalogInv, NEW a \in Actors, NEW x \in budget.ids, Resume(a, x), UNCHANGED budget
  PROVE  CatalogInv'
<1> USE DEF CatalogInv, folders, file, locals, bounds, histories, Owing, Deleting
<1>0. Shape /\ x \in Ids /\ Nil \notin Ids /\ Nil \notin Actors /\ budget' = budget
  BY CatalogAssumption DEF Shape, CatalogTypes, CatalogTypeOK
<1>1. /\ task[a] = "idle" /\ place[x] = "root"
      /\ place' = place /\ version' = version /\ index' = index /\ lock' = lock
      /\ stale' = stale /\ removed' = removed
      /\ index_synced' = index_synced
      /\ task'[a] = "summary" /\ id'[a] = x /\ copy'[a] = copy[a] /\ kids'[a] = kids[a]
      /\ todo'[a] = todo[a] /\ target'[a] = target[a] /\ view'[a] = view[a] /\ page'[a] = page[a]
      /\ begun'[a] = begun[a]
      /\ \A b \in Actors : b # a => Same(b)
      /\ missed' = missed /\ (Owed(x) => x \in crossed')
      /\ crossed \subseteq crossed' /\ crossed' \subseteq crossed \union {x}
  BY <1>0 DEF Resume, Begin, Goto, CatalogTypes, CatalogTypeOK, Same
<1>2. (\A y \in Ids : Owed(y) => Owed(y)') /\ Owed(x)'
  BY <1>0, <1>1 DEF Owed, Owes, Same
<1>3. CatalogTypes'
  <2>1. CatalogTypeOK'
    <3>1. /\ place' \in [Ids -> {"none", "root", "trash", "gone"}]
          /\ open' \subseteq Ids /\ version' \in [Ids -> Nat]
          /\ index' \in Seq(Records) /\ index_synced' \in 0 .. Len(index')
          /\ lock' \in Actors \union {Nil} /\ stale' \subseteq Ids /\ removed' \subseteq Ids
          /\ crossed' \subseteq Ids /\ missed' \in [Actors -> SUBSET Ids]
      BY <1>0, <1>1 DEF Resume, Begin, Goto, CatalogTypes, CatalogTypeOK, Shape, LocalsHold, LocalsOf
    <3>2. /\ task' \in [Actors -> Steps] /\ id' \in [Actors -> Ids \union {Nil}]
          /\ copy' \in [Actors -> Nat] /\ target' \in [Actors -> Ids \union {Nil}]
      BY <1>0 DEF Resume, Begin, Goto, CatalogTypes, CatalogTypeOK, Steps, Shape, LocalsHold, LocalsOf
    <3>3. /\ kids' \in [Actors -> SUBSET Ids] /\ todo' \in [Actors -> SUBSET Ids]
          /\ page' \in [Actors -> SUBSET Ids] /\ begun' \in [Actors -> SUBSET Ids]
      BY <1>0 DEF Resume, Begin, Goto, CatalogTypes, CatalogTypeOK, Shape
    <3>4. view' \in [Actors -> [Ids -> Entries]]
      BY <1>0, EntryTypes DEF Resume, Begin, Goto, CatalogTypes, CatalogTypeOK, Shape
    <3>5. /\ faults' \in 0 .. budget'.faults /\ damage' \in 0 .. budget'.damage
          /\ crashes' \in 0 .. budget'.crashes /\ budget' \in Budgets
      BY <1>0 DEF Resume, Begin, Goto, CatalogTypes, CatalogTypeOK, Shape
    <3> QED BY <3>1, <3>2, <3>3, <3>4, <3>5 DEF CatalogTypeOK
  <2>2. ASSUME NEW b \in Actors, NEW y \in Ids
        PROVE  Normal(view[b][y])'
    <3>1. Normal(view[b][y])
      BY DEF CatalogTypes
    <3>2. CASE b = a
      BY <1>0, <1>1, <3>1, <3>2, EntryTypes DEF Shape
    <3>3. CASE b # a
      BY <1>1, <3>1, <3>3 DEF Same
    <3> QED BY <3>2, <3>3
  <2>3. (\A y \in Ids : place[y] # "none" => y \in budget.ids)'
    BY <1>0, <1>1 DEF CatalogTypes, CatalogTypeOK
  <2>4. (\A y \in open : place[y] = "root")'
    BY <1>0, <1>1 DEF Shape, Resume, Begin, Goto, CatalogTypes, CatalogTypeOK
  <2> QED BY <2>1, <2>2, <2>3, <2>4 DEF CatalogTypes
<1>4. LocalsHold'
  <2>1. LocalsOf(a)'
    BY <1>0, <1>1 DEF LocalsHold, LocalsOf, Shape
  <2>2. ASSUME NEW b \in Actors, b # a
        PROVE  LocalsOf(b)'
    BY <1>0, <1>1, <2>2 DEF LocalsHold, LocalsOf, Shape, Same
  <2> QED BY <2>1, <2>2 DEF LocalsHold
<1>5. KnownHold'
  <2>1. ASSUME NEW y \in Ids
        PROVE  KnownOf(Fold(index)[y], y)'
    BY <1>0, <1>1 DEF KnownHold, KnownOf, Shape
  <2>2. ASSUME NEW y \in Ids
        PROVE  KnownOf(view[a][y], y)'
    BY <1>0, <1>1, EntriesAre DEF KnownHold, KnownOf, Shape
  <2>3. ASSUME NEW b \in Actors, b # a, NEW y \in Ids
        PROVE  KnownOf(view[b][y], y)'
    BY <1>0, <1>1, <2>3 DEF KnownHold, KnownOf, Shape, Same
  <2> QED BY <2>1, <2>2, <2>3 DEF KnownHold
<1>6. OwedHold'
  <2>1. (\A b, c \in Actors : task[b] \in Owing /\ task[c] \in Owing /\ id[b] = id[c] => b = c \/ id[b] \in crossed)'
    BY <1>0, <1>1 DEF OwedHold, Owed, Owes, Same
  <2>2. ASSUME NEW b \in Actors
        PROVE  (task[b] = "put" => copy[b] = version[id[b]] \/ id[b] \in crossed)'
    <3>1. CASE b = a
      BY <1>0, <1>1, <3>1 DEF OwedHold, LocalsHold, LocalsOf, Shape
    <3>2. CASE b # a
      BY <1>0, <1>1, <3>2 DEF OwedHold, LocalsHold, LocalsOf, Owed, Owes, Shape, Same
    <3> QED BY <3>1, <3>2
  <2> QED BY <2>1, <2>2 DEF OwedHold
<1>7. RebuildHolds'
  <2>1. ASSUME NEW y \in Ids
        PROVE  RebuildHas(a, y)'
    BY <1>0, <1>1, <1>2, EntriesAre DEF RebuildHolds, RebuildHas, KnownHold, KnownOf, LocalsHold, LocalsOf, Shape
  <2>2. ASSUME NEW b \in Actors, b # a, NEW y \in Ids
        PROVE  RebuildHas(b, y)'
    BY <1>0, <1>1, <1>2, <2>2 DEF RebuildHolds, RebuildHas, Shape, Same
  <2> QED BY <2>1, <2>2 DEF RebuildHolds
<1>8. StaleIsReported'
  BY <1>0, <1>1, <1>2, EntriesAre DEF StaleIsReported, KnownHold, KnownOf, Shape
<1>9. RemovedHold'
  <2>1. (\A y \in removed : place[y] = "gone")'
    BY <1>0, <1>1 DEF RemovedHold, Shape
  <2>2. (\A b \in Actors : begun[b] \subseteq removed)'
    BY <1>1 DEF RemovedHold, Same
  <2>3. ListedIsNotRemoved'
    BY <1>0, <1>1 DEF RemovedHold, ListedIsNotRemoved, LocalsHold, LocalsOf, Same
  <2> QED BY <2>1, <2>2, <2>3 DEF RemovedHold
<1>10. KidsHold'
  <2>1. KidsOf(a)'
    BY <1>0, <1>1 DEF KidsHold, KidsOf, LocalsHold, LocalsOf, Shape
  <2>2. ASSUME NEW b \in Actors, b # a
        PROVE  KidsOf(b)'
    BY <1>0, <1>1, <2>2 DEF KidsHold, KidsOf, LocalsHold, LocalsOf, Shape, Same
  <2> QED BY <2>1, <2>2 DEF KidsHold
<1>11. HealHolds'
  BY <1>0, <1>1 DEF HealHolds, HealHas, Shape, LocalsHold, LocalsOf, Same
<1> QED BY <1>3, <1>4, <1>5, <1>6, <1>7, <1>8, <1>9, <1>10, <1>11

LEMMA CloseStep ==
  ASSUME CatalogInv, NEW a \in Actors, NEW x \in budget.ids, Close(a, x), UNCHANGED budget
  PROVE  CatalogInv'
<1> USE DEF CatalogInv, folders, file, locals, bounds, histories, Owing, Deleting
<1>0. Shape /\ x \in Ids /\ Nil \notin Ids /\ Nil \notin Actors /\ budget' = budget
  BY CatalogAssumption DEF Shape, CatalogTypes, CatalogTypeOK
<1>1. /\ task[a] = "idle" /\ x \in open
      /\ place' = place /\ version' = version /\ index' = index /\ lock' = lock
      /\ stale' = stale /\ removed' = removed
      /\ index_synced' = index_synced
      /\ task'[a] = "put" /\ id'[a] = x /\ copy'[a] = version[x] /\ kids'[a] = kids[a]
      /\ todo'[a] = todo[a] /\ target'[a] = target[a] /\ view'[a] = view[a] /\ page'[a] = page[a]
      /\ begun'[a] = begun[a]
      /\ \A b \in Actors : b # a => Same(b)
      /\ missed' = missed /\ (Owed(x) => x \in crossed')
      /\ crossed \subseteq crossed' /\ crossed' \subseteq crossed \union {x}
  BY <1>0 DEF Close, Begin, Goto, CatalogTypes, CatalogTypeOK, Same
<1>2. (\A y \in Ids : Owed(y) => Owed(y)') /\ Owed(x)'
  BY <1>0, <1>1 DEF Owed, Owes, Same
<1>3. CatalogTypes'
  <2>1. CatalogTypeOK'
    <3>1. /\ place' \in [Ids -> {"none", "root", "trash", "gone"}]
          /\ open' \subseteq Ids /\ version' \in [Ids -> Nat]
          /\ index' \in Seq(Records) /\ index_synced' \in 0 .. Len(index')
          /\ lock' \in Actors \union {Nil} /\ stale' \subseteq Ids /\ removed' \subseteq Ids
          /\ crossed' \subseteq Ids /\ missed' \in [Actors -> SUBSET Ids]
      BY <1>0, <1>1 DEF Close, Begin, Goto, CatalogTypes, CatalogTypeOK, Shape, LocalsHold, LocalsOf
    <3>2. /\ task' \in [Actors -> Steps] /\ id' \in [Actors -> Ids \union {Nil}]
          /\ copy' \in [Actors -> Nat] /\ target' \in [Actors -> Ids \union {Nil}]
      BY <1>0 DEF Close, Begin, Goto, CatalogTypes, CatalogTypeOK, Steps, Shape, LocalsHold, LocalsOf
    <3>3. /\ kids' \in [Actors -> SUBSET Ids] /\ todo' \in [Actors -> SUBSET Ids]
          /\ page' \in [Actors -> SUBSET Ids] /\ begun' \in [Actors -> SUBSET Ids]
      BY <1>0 DEF Close, Begin, Goto, CatalogTypes, CatalogTypeOK, Shape
    <3>4. view' \in [Actors -> [Ids -> Entries]]
      BY <1>0, EntryTypes DEF Close, Begin, Goto, CatalogTypes, CatalogTypeOK, Shape
    <3>5. /\ faults' \in 0 .. budget'.faults /\ damage' \in 0 .. budget'.damage
          /\ crashes' \in 0 .. budget'.crashes /\ budget' \in Budgets
      BY <1>0 DEF Close, Begin, Goto, CatalogTypes, CatalogTypeOK, Shape
    <3> QED BY <3>1, <3>2, <3>3, <3>4, <3>5 DEF CatalogTypeOK
  <2>2. ASSUME NEW b \in Actors, NEW y \in Ids
        PROVE  Normal(view[b][y])'
    <3>1. Normal(view[b][y])
      BY DEF CatalogTypes
    <3>2. CASE b = a
      BY <1>0, <1>1, <3>1, <3>2, EntryTypes DEF Shape
    <3>3. CASE b # a
      BY <1>1, <3>1, <3>3 DEF Same
    <3> QED BY <3>2, <3>3
  <2>3. (\A y \in Ids : place[y] # "none" => y \in budget.ids)'
    BY <1>0, <1>1 DEF CatalogTypes, CatalogTypeOK
  <2>4. (\A y \in open : place[y] = "root")'
    BY <1>0, <1>1 DEF Shape, Close, Begin, Goto, CatalogTypes, CatalogTypeOK
  <2> QED BY <2>1, <2>2, <2>3, <2>4 DEF CatalogTypes
<1>4. LocalsHold'
  <2>1. LocalsOf(a)'
    BY <1>0, <1>1 DEF LocalsHold, LocalsOf, Shape
  <2>2. ASSUME NEW b \in Actors, b # a
        PROVE  LocalsOf(b)'
    BY <1>0, <1>1, <2>2 DEF LocalsHold, LocalsOf, Shape, Same
  <2> QED BY <2>1, <2>2 DEF LocalsHold
<1>5. KnownHold'
  <2>1. ASSUME NEW y \in Ids
        PROVE  KnownOf(Fold(index)[y], y)'
    BY <1>0, <1>1 DEF KnownHold, KnownOf, Shape
  <2>2. ASSUME NEW y \in Ids
        PROVE  KnownOf(view[a][y], y)'
    BY <1>0, <1>1, EntriesAre DEF KnownHold, KnownOf, Shape
  <2>3. ASSUME NEW b \in Actors, b # a, NEW y \in Ids
        PROVE  KnownOf(view[b][y], y)'
    BY <1>0, <1>1, <2>3 DEF KnownHold, KnownOf, Shape, Same
  <2> QED BY <2>1, <2>2, <2>3 DEF KnownHold
<1>6. OwedHold'
  <2>1. (\A b, c \in Actors : task[b] \in Owing /\ task[c] \in Owing /\ id[b] = id[c] => b = c \/ id[b] \in crossed)'
    BY <1>0, <1>1 DEF OwedHold, Owed, Owes, Same
  <2>2. ASSUME NEW b \in Actors
        PROVE  (task[b] = "put" => copy[b] = version[id[b]] \/ id[b] \in crossed)'
    <3>1. CASE b = a
      BY <1>0, <1>1, <3>1 DEF OwedHold, LocalsHold, LocalsOf, Shape
    <3>2. CASE b # a
      BY <1>0, <1>1, <3>2 DEF OwedHold, LocalsHold, LocalsOf, Owed, Owes, Shape, Same
    <3> QED BY <3>1, <3>2
  <2> QED BY <2>1, <2>2 DEF OwedHold
<1>7. RebuildHolds'
  <2>1. ASSUME NEW y \in Ids
        PROVE  RebuildHas(a, y)'
    BY <1>0, <1>1, <1>2, EntriesAre DEF RebuildHolds, RebuildHas, KnownHold, KnownOf, LocalsHold, LocalsOf, Shape
  <2>2. ASSUME NEW b \in Actors, b # a, NEW y \in Ids
        PROVE  RebuildHas(b, y)'
    BY <1>0, <1>1, <1>2, <2>2 DEF RebuildHolds, RebuildHas, Shape, Same
  <2> QED BY <2>1, <2>2 DEF RebuildHolds
<1>8. StaleIsReported'
  BY <1>0, <1>1, <1>2, EntriesAre DEF StaleIsReported, KnownHold, KnownOf, Shape
<1>9. RemovedHold'
  <2>1. (\A y \in removed : place[y] = "gone")'
    BY <1>0, <1>1 DEF RemovedHold, Shape
  <2>2. (\A b \in Actors : begun[b] \subseteq removed)'
    BY <1>1 DEF RemovedHold, Same
  <2>3. ListedIsNotRemoved'
    BY <1>0, <1>1 DEF RemovedHold, ListedIsNotRemoved, LocalsHold, LocalsOf, Same
  <2> QED BY <2>1, <2>2, <2>3 DEF RemovedHold
<1>10. KidsHold'
  <2>1. KidsOf(a)'
    BY <1>0, <1>1 DEF KidsHold, KidsOf, LocalsHold, LocalsOf, Shape
  <2>2. ASSUME NEW b \in Actors, b # a
        PROVE  KidsOf(b)'
    BY <1>0, <1>1, <2>2 DEF KidsHold, KidsOf, LocalsHold, LocalsOf, Shape, Same
  <2> QED BY <2>1, <2>2 DEF KidsHold
<1>11. HealHolds'
  BY <1>0, <1>1 DEF HealHolds, HealHas, Shape, LocalsHold, LocalsOf, Same
<1> QED BY <1>3, <1>4, <1>5, <1>6, <1>7, <1>8, <1>9, <1>10, <1>11

LEMMA SummaryStep ==
  ASSUME CatalogInv, NEW a \in Actors, Summary(a), UNCHANGED budget
  PROVE  CatalogInv'
<1> USE DEF CatalogInv, folders, file, locals, bounds, histories, Owing, Deleting
<1>0. Shape /\ Nil \notin Ids /\ Nil \notin Actors /\ budget' = budget
  BY CatalogAssumption DEF Shape, CatalogTypes, CatalogTypeOK
<1>1. /\ task[a] = "summary"
      /\ place' = place /\ version' = version /\ index' = index /\ lock' = lock
      /\ stale' = stale /\ removed' = removed
      /\ index_synced' = index_synced
      /\ task'[a] = "put" /\ id'[a] = id[a] /\ copy'[a] = version[id[a]] /\ kids'[a] = kids[a]
      /\ todo'[a] = todo[a] /\ target'[a] = target[a] /\ view'[a] = view[a] /\ page'[a] = page[a]
      /\ begun'[a] = begun[a]
      /\ \A b \in Actors : b # a => Same(b)
      /\ missed' = missed /\ crossed' = crossed
  BY <1>0 DEF Summary, Goto, CatalogTypes, CatalogTypeOK, Same
<1>2. (\A y \in Ids : Owed(y) => Owed(y)')
  BY <1>0, <1>1 DEF Owed, Owes, Same
<1>3. CatalogTypes'
  <2>1. CatalogTypeOK'
    <3>1. /\ place' \in [Ids -> {"none", "root", "trash", "gone"}]
          /\ open' \subseteq Ids /\ version' \in [Ids -> Nat]
          /\ index' \in Seq(Records) /\ index_synced' \in 0 .. Len(index')
          /\ lock' \in Actors \union {Nil} /\ stale' \subseteq Ids /\ removed' \subseteq Ids
          /\ crossed' \subseteq Ids /\ missed' \in [Actors -> SUBSET Ids]
      BY <1>0, <1>1 DEF Summary, Goto, CatalogTypes, CatalogTypeOK, Shape, LocalsHold, LocalsOf
    <3>2. /\ task' \in [Actors -> Steps] /\ id' \in [Actors -> Ids \union {Nil}]
          /\ copy' \in [Actors -> Nat] /\ target' \in [Actors -> Ids \union {Nil}]
      BY <1>0 DEF Summary, Goto, CatalogTypes, CatalogTypeOK, Steps, Shape, LocalsHold, LocalsOf
    <3>3. /\ kids' \in [Actors -> SUBSET Ids] /\ todo' \in [Actors -> SUBSET Ids]
          /\ page' \in [Actors -> SUBSET Ids] /\ begun' \in [Actors -> SUBSET Ids]
      BY <1>0 DEF Summary, Goto, CatalogTypes, CatalogTypeOK, Shape
    <3>4. view' \in [Actors -> [Ids -> Entries]]
      BY <1>0, EntryTypes DEF Summary, Goto, CatalogTypes, CatalogTypeOK, Shape
    <3>5. /\ faults' \in 0 .. budget'.faults /\ damage' \in 0 .. budget'.damage
          /\ crashes' \in 0 .. budget'.crashes /\ budget' \in Budgets
      BY <1>0 DEF Summary, Goto, CatalogTypes, CatalogTypeOK, Shape
    <3> QED BY <3>1, <3>2, <3>3, <3>4, <3>5 DEF CatalogTypeOK
  <2>2. ASSUME NEW b \in Actors, NEW y \in Ids
        PROVE  Normal(view[b][y])'
    <3>1. Normal(view[b][y])
      BY DEF CatalogTypes
    <3>2. CASE b = a
      BY <1>0, <1>1, <3>1, <3>2, EntryTypes DEF Shape
    <3>3. CASE b # a
      BY <1>1, <3>1, <3>3 DEF Same
    <3> QED BY <3>2, <3>3
  <2>3. (\A y \in Ids : place[y] # "none" => y \in budget.ids)'
    BY <1>0, <1>1 DEF CatalogTypes, CatalogTypeOK
  <2>4. (\A y \in open : place[y] = "root")'
    BY <1>0, <1>1 DEF Shape, Summary, Goto, CatalogTypes, CatalogTypeOK
  <2> QED BY <2>1, <2>2, <2>3, <2>4 DEF CatalogTypes
<1>4. LocalsHold'
  <2>1. LocalsOf(a)'
    BY <1>0, <1>1 DEF LocalsHold, LocalsOf, Shape
  <2>2. ASSUME NEW b \in Actors, b # a
        PROVE  LocalsOf(b)'
    BY <1>0, <1>1, <2>2 DEF LocalsHold, LocalsOf, Shape, Same
  <2> QED BY <2>1, <2>2 DEF LocalsHold
<1>5. KnownHold'
  <2>1. ASSUME NEW y \in Ids
        PROVE  KnownOf(Fold(index)[y], y)'
    BY <1>0, <1>1 DEF KnownHold, KnownOf, Shape
  <2>2. ASSUME NEW y \in Ids
        PROVE  KnownOf(view[a][y], y)'
    BY <1>0, <1>1, EntriesAre DEF KnownHold, KnownOf, Shape
  <2>3. ASSUME NEW b \in Actors, b # a, NEW y \in Ids
        PROVE  KnownOf(view[b][y], y)'
    BY <1>0, <1>1, <2>3 DEF KnownHold, KnownOf, Shape, Same
  <2> QED BY <2>1, <2>2, <2>3 DEF KnownHold
<1>6. OwedHold'
  <2>1. (\A b, c \in Actors : task[b] \in Owing /\ task[c] \in Owing /\ id[b] = id[c] => b = c \/ id[b] \in crossed)'
    BY <1>0, <1>1 DEF OwedHold, Owed, Owes, Same
  <2>2. ASSUME NEW b \in Actors
        PROVE  (task[b] = "put" => copy[b] = version[id[b]] \/ id[b] \in crossed)'
    <3>1. CASE b = a
      BY <1>0, <1>1, <3>1 DEF OwedHold, LocalsHold, LocalsOf, Shape
    <3>2. CASE b # a
      BY <1>0, <1>1, <3>2 DEF OwedHold, LocalsHold, LocalsOf, Owed, Owes, Shape, Same
    <3> QED BY <3>1, <3>2
  <2> QED BY <2>1, <2>2 DEF OwedHold
<1>7. RebuildHolds'
  <2>1. ASSUME NEW y \in Ids
        PROVE  RebuildHas(a, y)'
    BY <1>0, <1>1, <1>2, EntriesAre DEF RebuildHolds, RebuildHas, KnownHold, KnownOf, LocalsHold, LocalsOf, Shape
  <2>2. ASSUME NEW b \in Actors, b # a, NEW y \in Ids
        PROVE  RebuildHas(b, y)'
    BY <1>0, <1>1, <1>2, <2>2 DEF RebuildHolds, RebuildHas, Shape, Same
  <2> QED BY <2>1, <2>2 DEF RebuildHolds
<1>8. StaleIsReported'
  BY <1>0, <1>1, <1>2, EntriesAre DEF StaleIsReported, KnownHold, KnownOf, Shape
<1>9. RemovedHold'
  <2>1. (\A y \in removed : place[y] = "gone")'
    BY <1>0, <1>1 DEF RemovedHold, Shape
  <2>2. (\A b \in Actors : begun[b] \subseteq removed)'
    BY <1>1 DEF RemovedHold, Same
  <2>3. ListedIsNotRemoved'
    BY <1>0, <1>1 DEF RemovedHold, ListedIsNotRemoved, LocalsHold, LocalsOf, Same
  <2> QED BY <2>1, <2>2, <2>3 DEF RemovedHold
<1>10. KidsHold'
  <2>1. KidsOf(a)'
    BY <1>0, <1>1 DEF KidsHold, KidsOf, LocalsHold, LocalsOf, Shape
  <2>2. ASSUME NEW b \in Actors, b # a
        PROVE  KidsOf(b)'
    BY <1>0, <1>1, <2>2 DEF KidsHold, KidsOf, LocalsHold, LocalsOf, Shape, Same
  <2> QED BY <2>1, <2>2 DEF KidsHold
<1>11. HealHolds'
  BY <1>0, <1>1 DEF HealHolds, HealHas, Shape, LocalsHold, LocalsOf, Same
<1> QED BY <1>3, <1>4, <1>5, <1>6, <1>7, <1>8, <1>9, <1>10, <1>11

LEMMA DeleteStartStep ==
  ASSUME CatalogInv, NEW a \in Actors, NEW x \in budget.ids, DeleteStart(a, x), UNCHANGED budget
  PROVE  CatalogInv'
<1> USE DEF CatalogInv, folders, file, locals, bounds, histories, Owing, Deleting
<1>0. Shape /\ x \in Ids /\ Nil \notin Ids /\ Nil \notin Actors /\ budget' = budget
  BY CatalogAssumption DEF Shape, CatalogTypes, CatalogTypeOK
<1>00. PICK found \in SUBSET {c \in budget.ids : Parent[c] = x} : /\ todo' = [todo EXCEPT ![a] = found]
               /\ kids' = [kids EXCEPT ![a] = {c \in found : place[c] # "none"}]
  BY DEF DeleteStart
<1>1. /\ task[a] = "idle" /\ place[x] = "root"
      /\ place' = place /\ version' = version /\ index' = index /\ lock' = lock
      /\ stale' = stale /\ removed' = removed
      /\ index_synced' = index_synced
      /\ task'[a] = "delete" /\ id'[a] = x /\ copy'[a] = copy[a] /\ target'[a] = target[a]
      /\ view'[a] = view[a] /\ page'[a] = page[a] /\ begun'[a] = begun[a]
      /\ todo'[a] = found /\ kids'[a] = {c \in found : place[c] # "none"}
      /\ \A b \in Actors : b # a => Same(b)
      /\ missed' = missed /\ crossed' = crossed
  BY <1>0, <1>00 DEF DeleteStart, Goto, CatalogTypes, CatalogTypeOK, Same
<1>2. (\A y \in Ids : Owed(y) => Owed(y)')
  BY <1>0, <1>1 DEF Owed, Owes, Same
<1>3. CatalogTypes'
  <2>1. CatalogTypeOK'
    <3>1. /\ place' \in [Ids -> {"none", "root", "trash", "gone"}]
          /\ open' \subseteq Ids /\ version' \in [Ids -> Nat]
          /\ index' \in Seq(Records) /\ index_synced' \in 0 .. Len(index')
          /\ lock' \in Actors \union {Nil} /\ stale' \subseteq Ids /\ removed' \subseteq Ids
          /\ crossed' \subseteq Ids /\ missed' \in [Actors -> SUBSET Ids]
      BY <1>0, <1>00, <1>1 DEF DeleteStart, Goto, CatalogTypes, CatalogTypeOK, Shape, LocalsHold, LocalsOf
    <3>2. /\ task' \in [Actors -> Steps] /\ id' \in [Actors -> Ids \union {Nil}]
          /\ copy' \in [Actors -> Nat] /\ target' \in [Actors -> Ids \union {Nil}]
      BY <1>0, <1>00 DEF DeleteStart, Goto, CatalogTypes, CatalogTypeOK, Steps, Shape, LocalsHold, LocalsOf
    <3>3. /\ kids' \in [Actors -> SUBSET Ids] /\ todo' \in [Actors -> SUBSET Ids]
          /\ page' \in [Actors -> SUBSET Ids] /\ begun' \in [Actors -> SUBSET Ids]
      BY <1>0, <1>00 DEF DeleteStart, Goto, CatalogTypes, CatalogTypeOK, Shape
    <3>4. view' \in [Actors -> [Ids -> Entries]]
      BY <1>0, <1>00, EntryTypes DEF DeleteStart, Goto, CatalogTypes, CatalogTypeOK, Shape
    <3>5. /\ faults' \in 0 .. budget'.faults /\ damage' \in 0 .. budget'.damage
          /\ crashes' \in 0 .. budget'.crashes /\ budget' \in Budgets
      BY <1>0 DEF DeleteStart, Goto, CatalogTypes, CatalogTypeOK, Shape
    <3> QED BY <3>1, <3>2, <3>3, <3>4, <3>5 DEF CatalogTypeOK
  <2>2. ASSUME NEW b \in Actors, NEW y \in Ids
        PROVE  Normal(view[b][y])'
    <3>1. Normal(view[b][y])
      BY DEF CatalogTypes
    <3>2. CASE b = a
      BY <1>0, <1>1, <3>1, <3>2, EntryTypes DEF Shape
    <3>3. CASE b # a
      BY <1>1, <3>1, <3>3 DEF Same
    <3> QED BY <3>2, <3>3
  <2>3. (\A y \in Ids : place[y] # "none" => y \in budget.ids)'
    BY <1>0, <1>1 DEF CatalogTypes, CatalogTypeOK
  <2>4. (\A y \in open : place[y] = "root")'
    BY <1>0, <1>1 DEF Shape, DeleteStart, Goto, CatalogTypes, CatalogTypeOK
  <2> QED BY <2>1, <2>2, <2>3, <2>4 DEF CatalogTypes
<1>4. LocalsHold'
  <2>1. LocalsOf(a)'
    BY <1>0, <1>00, <1>1 DEF LocalsHold, LocalsOf, Shape
  <2>2. ASSUME NEW b \in Actors, b # a
        PROVE  LocalsOf(b)'
    BY <1>0, <1>00, <1>1, <2>2 DEF LocalsHold, LocalsOf, Shape, Same
  <2> QED BY <2>1, <2>2 DEF LocalsHold
<1>5. KnownHold'
  <2>1. ASSUME NEW y \in Ids
        PROVE  KnownOf(Fold(index)[y], y)'
    BY <1>0, <1>00, <1>1 DEF KnownHold, KnownOf, Shape
  <2>2. ASSUME NEW y \in Ids
        PROVE  KnownOf(view[a][y], y)'
    BY <1>0, <1>00, <1>1, EntriesAre DEF KnownHold, KnownOf, Shape
  <2>3. ASSUME NEW b \in Actors, b # a, NEW y \in Ids
        PROVE  KnownOf(view[b][y], y)'
    BY <1>0, <1>00, <1>1, <2>3 DEF KnownHold, KnownOf, Shape, Same
  <2> QED BY <2>1, <2>2, <2>3 DEF KnownHold
<1>6. OwedHold'
  <2>1. (\A b, c \in Actors : task[b] \in Owing /\ task[c] \in Owing /\ id[b] = id[c] => b = c \/ id[b] \in crossed)'
    BY <1>0, <1>00, <1>1 DEF OwedHold, Owed, Owes, Same
  <2>2. ASSUME NEW b \in Actors
        PROVE  (task[b] = "put" => copy[b] = version[id[b]] \/ id[b] \in crossed)'
    <3>1. CASE b = a
      BY <1>0, <1>00, <1>1, <3>1 DEF OwedHold, LocalsHold, LocalsOf, Shape
    <3>2. CASE b # a
      BY <1>0, <1>00, <1>1, <3>2 DEF OwedHold, LocalsHold, LocalsOf, Owed, Owes, Shape, Same
    <3> QED BY <3>1, <3>2
  <2> QED BY <2>1, <2>2 DEF OwedHold
<1>7. RebuildHolds'
  <2>1. ASSUME NEW y \in Ids
        PROVE  RebuildHas(a, y)'
    BY <1>0, <1>00, <1>1, <1>2, EntriesAre DEF RebuildHolds, RebuildHas, KnownHold, KnownOf, LocalsHold, LocalsOf, Shape
  <2>2. ASSUME NEW b \in Actors, b # a, NEW y \in Ids
        PROVE  RebuildHas(b, y)'
    BY <1>0, <1>00, <1>1, <1>2, <2>2 DEF RebuildHolds, RebuildHas, Shape, Same
  <2> QED BY <2>1, <2>2 DEF RebuildHolds
<1>8. StaleIsReported'
  BY <1>0, <1>00, <1>1, <1>2, EntriesAre DEF StaleIsReported, KnownHold, KnownOf, Shape
<1>9. RemovedHold'
  <2>1. (\A y \in removed : place[y] = "gone")'
    BY <1>0, <1>00, <1>1 DEF RemovedHold, Shape
  <2>2. (\A b \in Actors : begun[b] \subseteq removed)'
    BY <1>1 DEF RemovedHold, Same
  <2>3. ListedIsNotRemoved'
    BY <1>0, <1>00, <1>1 DEF RemovedHold, ListedIsNotRemoved, LocalsHold, LocalsOf, Same
  <2> QED BY <2>1, <2>2, <2>3 DEF RemovedHold
<1>10. KidsHold'
  <2>1. KidsOf(a)'
    BY <1>0, <1>00, <1>1 DEF KidsHold, KidsOf, LocalsHold, LocalsOf, Shape
  <2>2. ASSUME NEW b \in Actors, b # a
        PROVE  KidsOf(b)'
    BY <1>0, <1>00, <1>1, <2>2 DEF KidsHold, KidsOf, LocalsHold, LocalsOf, Shape, Same
  <2> QED BY <2>1, <2>2 DEF KidsHold
<1>11. HealHolds'
  BY <1>0, <1>00, <1>1 DEF HealHolds, HealHas, Shape, LocalsHold, LocalsOf, Same
<1> QED BY <1>3, <1>4, <1>5, <1>6, <1>7, <1>8, <1>9, <1>10, <1>11

LEMMA DeleteTrashStep ==
  ASSUME CatalogInv, NEW a \in Actors, DeleteTrash(a), UNCHANGED budget
  PROVE  CatalogInv'
<1> USE DEF CatalogInv, folders, file, locals, bounds, histories, Owing, Deleting
<1>0. Shape /\ Nil \notin Ids /\ Nil \notin Actors /\ budget' = budget
  BY CatalogAssumption DEF Shape, CatalogTypes, CatalogTypeOK
<1>00. PICK s \in Targets(a) : /\ place[s] = "root" /\ place' = [place EXCEPT ![s] = "trash"]
                                 /\ target' = [target EXCEPT ![a] = s]
                                 /\ todo' = [todo EXCEPT ![a] = @ \ {s}]
  BY DEF DeleteTrash
<1>01. s \in Ids /\ ((todo[a] = {} /\ s = id[a]) \/ s \in todo[a])
  BY <1>0, <1>00 DEF Targets, DeleteTrash, Shape, LocalsHold, LocalsOf
<1>1. /\ task[a] = "delete" /\ s \in Targets(a) /\ place[s] = "root"
      /\ version' = version /\ index' = index /\ lock' = lock /\ stale' = stale
      /\ removed' = removed
      /\ place'[s] = "trash" /\ \A z \in Ids : z # s => place'[z] = place[z]
      /\ index_synced' = index_synced
      /\ task'[a] = "tombstone" /\ id'[a] = id[a] /\ copy'[a] = copy[a] /\ kids'[a] = kids[a]
      /\ todo'[a] = todo[a] \ {s} /\ target'[a] = s /\ view'[a] = view[a] /\ page'[a] = page[a]
      /\ begun'[a] = begun[a]
      /\ \A b \in Actors : b # a => Same(b)
      /\ missed' = missed /\ crossed' = crossed
  BY <1>0, <1>00, <1>01 DEF DeleteTrash, Goto, Targets, CatalogTypes, CatalogTypeOK, Same
<1>2. (\A y \in Ids : Owed(y) => Owed(y)')
  BY <1>0, <1>1 DEF Owed, Owes, Same
<1>3. CatalogTypes'
  <2>1. CatalogTypeOK'
    <3>1. /\ place' \in [Ids -> {"none", "root", "trash", "gone"}]
          /\ open' \subseteq Ids /\ version' \in [Ids -> Nat]
          /\ index' \in Seq(Records) /\ index_synced' \in 0 .. Len(index')
          /\ lock' \in Actors \union {Nil} /\ stale' \subseteq Ids /\ removed' \subseteq Ids
          /\ crossed' \subseteq Ids /\ missed' \in [Actors -> SUBSET Ids]
      BY <1>0, <1>00, <1>01, <1>1 DEF DeleteTrash, Goto, Targets, CatalogTypes, CatalogTypeOK, Shape, LocalsHold, LocalsOf
    <3>2. /\ task' \in [Actors -> Steps] /\ id' \in [Actors -> Ids \union {Nil}]
          /\ copy' \in [Actors -> Nat] /\ target' \in [Actors -> Ids \union {Nil}]
      BY <1>0, <1>00, <1>01 DEF DeleteTrash, Goto, Targets, CatalogTypes, CatalogTypeOK, Steps, Shape, LocalsHold, LocalsOf
    <3>3. /\ kids' \in [Actors -> SUBSET Ids] /\ todo' \in [Actors -> SUBSET Ids]
          /\ page' \in [Actors -> SUBSET Ids] /\ begun' \in [Actors -> SUBSET Ids]
      BY <1>0, <1>00, <1>01 DEF DeleteTrash, Goto, Targets, CatalogTypes, CatalogTypeOK, Shape
    <3>4. view' \in [Actors -> [Ids -> Entries]]
      BY <1>0, <1>00, <1>01, EntryTypes DEF DeleteTrash, Goto, Targets, CatalogTypes, CatalogTypeOK, Shape
    <3>5. /\ faults' \in 0 .. budget'.faults /\ damage' \in 0 .. budget'.damage
          /\ crashes' \in 0 .. budget'.crashes /\ budget' \in Budgets
      BY <1>0 DEF DeleteTrash, Goto, Targets, CatalogTypes, CatalogTypeOK, Shape
    <3> QED BY <3>1, <3>2, <3>3, <3>4, <3>5 DEF CatalogTypeOK
  <2>2. ASSUME NEW b \in Actors, NEW y \in Ids
        PROVE  Normal(view[b][y])'
    <3>1. Normal(view[b][y])
      BY DEF CatalogTypes
    <3>2. CASE b = a
      BY <1>0, <1>1, <3>1, <3>2, EntryTypes DEF Shape
    <3>3. CASE b # a
      BY <1>1, <3>1, <3>3 DEF Same
    <3> QED BY <3>2, <3>3
  <2>3. (\A y \in Ids : place[y] # "none" => y \in budget.ids)'
    BY <1>0, <1>1 DEF CatalogTypes, CatalogTypeOK
  <2>4. (\A y \in open : place[y] = "root")'
    BY <1>0, <1>1 DEF Shape, DeleteTrash, Goto, Targets, CatalogTypes, CatalogTypeOK
  <2> QED BY <2>1, <2>2, <2>3, <2>4 DEF CatalogTypes
<1>4. LocalsHold'
  <2>1. LocalsOf(a)'
    BY <1>0, <1>00, <1>01, <1>1 DEF LocalsHold, LocalsOf, Shape
  <2>2. ASSUME NEW b \in Actors, b # a
        PROVE  LocalsOf(b)'
    BY <1>0, <1>00, <1>01, <1>1, <2>2 DEF LocalsHold, LocalsOf, Shape, Same
  <2> QED BY <2>1, <2>2 DEF LocalsHold
<1>5. KnownHold'
  <2>1. ASSUME NEW y \in Ids
        PROVE  KnownOf(Fold(index)[y], y)'
    BY <1>0, <1>00, <1>01, <1>1 DEF KnownHold, KnownOf, Shape
  <2>2. ASSUME NEW y \in Ids
        PROVE  KnownOf(view[a][y], y)'
    BY <1>0, <1>00, <1>01, <1>1, EntriesAre DEF KnownHold, KnownOf, Shape
  <2>3. ASSUME NEW b \in Actors, b # a, NEW y \in Ids
        PROVE  KnownOf(view[b][y], y)'
    BY <1>0, <1>00, <1>01, <1>1, <2>3 DEF KnownHold, KnownOf, Shape, Same
  <2> QED BY <2>1, <2>2, <2>3 DEF KnownHold
<1>6. OwedHold'
  <2>1. (\A b, c \in Actors : task[b] \in Owing /\ task[c] \in Owing /\ id[b] = id[c] => b = c \/ id[b] \in crossed)'
    BY <1>0, <1>00, <1>01, <1>1 DEF OwedHold, Owed, Owes, Same
  <2>2. ASSUME NEW b \in Actors
        PROVE  (task[b] = "put" => copy[b] = version[id[b]] \/ id[b] \in crossed)'
    <3>1. CASE b = a
      BY <1>0, <1>00, <1>01, <1>1, <3>1 DEF OwedHold, LocalsHold, LocalsOf, Shape
    <3>2. CASE b # a
      BY <1>0, <1>00, <1>01, <1>1, <3>2 DEF OwedHold, LocalsHold, LocalsOf, Owed, Owes, Shape, Same
    <3> QED BY <3>1, <3>2
  <2> QED BY <2>1, <2>2 DEF OwedHold
<1>7. RebuildHolds'
  <2>1. ASSUME NEW y \in Ids
        PROVE  RebuildHas(a, y)'
    BY <1>0, <1>00, <1>01, <1>1, <1>2, EntriesAre DEF RebuildHolds, RebuildHas, KnownHold, KnownOf, LocalsHold, LocalsOf, Shape
  <2>2. ASSUME NEW b \in Actors, b # a, NEW y \in Ids
        PROVE  RebuildHas(b, y)'
    BY <1>0, <1>00, <1>01, <1>1, <1>2, <2>2 DEF RebuildHolds, RebuildHas, Shape, Same
  <2> QED BY <2>1, <2>2 DEF RebuildHolds
<1>8. StaleIsReported'
  BY <1>0, <1>00, <1>01, <1>1, <1>2, EntriesAre DEF StaleIsReported, KnownHold, KnownOf, Shape
<1>9. RemovedHold'
  <2>1. (\A y \in removed : place[y] = "gone")'
    BY <1>0, <1>00, <1>01, <1>1 DEF RemovedHold, Shape
  <2>2. (\A b \in Actors : begun[b] \subseteq removed)'
    BY <1>1 DEF RemovedHold, Same
  <2>3. ListedIsNotRemoved'
    BY <1>0, <1>00, <1>01, <1>1 DEF RemovedHold, ListedIsNotRemoved, LocalsHold, LocalsOf, Same
  <2> QED BY <2>1, <2>2, <2>3 DEF RemovedHold
<1>10. KidsHold'
  <2>1. KidsOf(a)'
    BY <1>0, <1>00, <1>01, <1>1 DEF KidsHold, KidsOf, LocalsHold, LocalsOf, Shape
  <2>2. ASSUME NEW b \in Actors, b # a
        PROVE  KidsOf(b)'
    BY <1>0, <1>00, <1>01, <1>1, <2>2 DEF KidsHold, KidsOf, LocalsHold, LocalsOf, Shape, Same
  <2> QED BY <2>1, <2>2 DEF KidsHold
<1>11. HealHolds'
  BY <1>0, <1>00, <1>1 DEF HealHolds, HealHas, Shape, LocalsHold, LocalsOf, Same
<1> QED BY <1>3, <1>4, <1>5, <1>6, <1>7, <1>8, <1>9, <1>10, <1>11

LEMMA DeleteSkipsStep ==
  ASSUME CatalogInv, NEW a \in Actors, DeleteSkips(a), UNCHANGED budget
  PROVE  CatalogInv'
<1> USE DEF CatalogInv, folders, file, locals, bounds, histories, Owing, Deleting
<1>0. Shape /\ Nil \notin Ids /\ Nil \notin Actors /\ budget' = budget
  BY CatalogAssumption DEF Shape, CatalogTypes, CatalogTypeOK
<1>00. PICK s \in todo[a] : Skips(s) /\ todo' = [todo EXCEPT ![a] = @ \ {s}]
  BY DEF DeleteSkips
<1>1. /\ task[a] = "delete" /\ place[s] # "root"
      /\ place' = place /\ version' = version /\ index' = index /\ lock' = lock
      /\ stale' = stale /\ removed' = removed
      /\ index_synced' = index_synced
      /\ task'[a] = task[a] /\ id'[a] = id[a] /\ copy'[a] = copy[a] /\ kids'[a] = kids[a]
      /\ todo'[a] = todo[a] \ {s} /\ target'[a] = target[a] /\ view'[a] = view[a] /\ page'[a] = page[a]
      /\ begun'[a] = begun[a]
      /\ \A b \in Actors : b # a => Same(b)
      /\ missed' = missed /\ crossed' = crossed
  BY <1>0, <1>00 DEF DeleteSkips, Skips, CatalogTypes, CatalogTypeOK, Same
<1>2. (\A y \in Ids : Owed(y) => Owed(y)')
  BY <1>0, <1>1 DEF Owed, Owes, Same
<1>3. CatalogTypes'
  <2>1. CatalogTypeOK'
    <3>1. /\ place' \in [Ids -> {"none", "root", "trash", "gone"}]
          /\ open' \subseteq Ids /\ version' \in [Ids -> Nat]
          /\ index' \in Seq(Records) /\ index_synced' \in 0 .. Len(index')
          /\ lock' \in Actors \union {Nil} /\ stale' \subseteq Ids /\ removed' \subseteq Ids
          /\ crossed' \subseteq Ids /\ missed' \in [Actors -> SUBSET Ids]
      BY <1>0, <1>00, <1>1 DEF DeleteSkips, Skips, CatalogTypes, CatalogTypeOK, Shape, LocalsHold, LocalsOf
    <3>2. /\ task' \in [Actors -> Steps] /\ id' \in [Actors -> Ids \union {Nil}]
          /\ copy' \in [Actors -> Nat] /\ target' \in [Actors -> Ids \union {Nil}]
      BY <1>0, <1>00 DEF DeleteSkips, Skips, CatalogTypes, CatalogTypeOK, Steps, Shape, LocalsHold, LocalsOf
    <3>3. /\ kids' \in [Actors -> SUBSET Ids] /\ todo' \in [Actors -> SUBSET Ids]
          /\ page' \in [Actors -> SUBSET Ids] /\ begun' \in [Actors -> SUBSET Ids]
      BY <1>0, <1>00 DEF DeleteSkips, Skips, CatalogTypes, CatalogTypeOK, Shape
    <3>4. view' \in [Actors -> [Ids -> Entries]]
      BY <1>0, <1>00, EntryTypes DEF DeleteSkips, Skips, CatalogTypes, CatalogTypeOK, Shape
    <3>5. /\ faults' \in 0 .. budget'.faults /\ damage' \in 0 .. budget'.damage
          /\ crashes' \in 0 .. budget'.crashes /\ budget' \in Budgets
      BY <1>0 DEF DeleteSkips, Skips, CatalogTypes, CatalogTypeOK, Shape
    <3> QED BY <3>1, <3>2, <3>3, <3>4, <3>5 DEF CatalogTypeOK
  <2>2. ASSUME NEW b \in Actors, NEW y \in Ids
        PROVE  Normal(view[b][y])'
    <3>1. Normal(view[b][y])
      BY DEF CatalogTypes
    <3>2. CASE b = a
      BY <1>0, <1>1, <3>1, <3>2, EntryTypes DEF Shape
    <3>3. CASE b # a
      BY <1>1, <3>1, <3>3 DEF Same
    <3> QED BY <3>2, <3>3
  <2>3. (\A y \in Ids : place[y] # "none" => y \in budget.ids)'
    BY <1>0, <1>1 DEF CatalogTypes, CatalogTypeOK
  <2>4. (\A y \in open : place[y] = "root")'
    BY <1>0, <1>1 DEF Shape, DeleteSkips, Skips, CatalogTypes, CatalogTypeOK
  <2> QED BY <2>1, <2>2, <2>3, <2>4 DEF CatalogTypes
<1>4. LocalsHold'
  <2>1. LocalsOf(a)'
    BY <1>0, <1>00, <1>1 DEF LocalsHold, LocalsOf, Shape
  <2>2. ASSUME NEW b \in Actors, b # a
        PROVE  LocalsOf(b)'
    BY <1>0, <1>00, <1>1, <2>2 DEF LocalsHold, LocalsOf, Shape, Same
  <2> QED BY <2>1, <2>2 DEF LocalsHold
<1>5. KnownHold'
  <2>1. ASSUME NEW y \in Ids
        PROVE  KnownOf(Fold(index)[y], y)'
    BY <1>0, <1>00, <1>1 DEF KnownHold, KnownOf, Shape
  <2>2. ASSUME NEW y \in Ids
        PROVE  KnownOf(view[a][y], y)'
    BY <1>0, <1>00, <1>1, EntriesAre DEF KnownHold, KnownOf, Shape
  <2>3. ASSUME NEW b \in Actors, b # a, NEW y \in Ids
        PROVE  KnownOf(view[b][y], y)'
    BY <1>0, <1>00, <1>1, <2>3 DEF KnownHold, KnownOf, Shape, Same
  <2> QED BY <2>1, <2>2, <2>3 DEF KnownHold
<1>6. OwedHold'
  <2>1. (\A b, c \in Actors : task[b] \in Owing /\ task[c] \in Owing /\ id[b] = id[c] => b = c \/ id[b] \in crossed)'
    BY <1>0, <1>00, <1>1 DEF OwedHold, Owed, Owes, Same
  <2>2. ASSUME NEW b \in Actors
        PROVE  (task[b] = "put" => copy[b] = version[id[b]] \/ id[b] \in crossed)'
    <3>1. CASE b = a
      BY <1>0, <1>00, <1>1, <3>1 DEF OwedHold, LocalsHold, LocalsOf, Shape
    <3>2. CASE b # a
      BY <1>0, <1>00, <1>1, <3>2 DEF OwedHold, LocalsHold, LocalsOf, Owed, Owes, Shape, Same
    <3> QED BY <3>1, <3>2
  <2> QED BY <2>1, <2>2 DEF OwedHold
<1>7. RebuildHolds'
  <2>1. ASSUME NEW y \in Ids
        PROVE  RebuildHas(a, y)'
    BY <1>0, <1>00, <1>1, <1>2, EntriesAre DEF RebuildHolds, RebuildHas, KnownHold, KnownOf, LocalsHold, LocalsOf, Shape
  <2>2. ASSUME NEW b \in Actors, b # a, NEW y \in Ids
        PROVE  RebuildHas(b, y)'
    BY <1>0, <1>00, <1>1, <1>2, <2>2 DEF RebuildHolds, RebuildHas, Shape, Same
  <2> QED BY <2>1, <2>2 DEF RebuildHolds
<1>8. StaleIsReported'
  BY <1>0, <1>00, <1>1, <1>2, EntriesAre DEF StaleIsReported, KnownHold, KnownOf, Shape
<1>9. RemovedHold'
  <2>1. (\A y \in removed : place[y] = "gone")'
    BY <1>0, <1>00, <1>1 DEF RemovedHold, Shape
  <2>2. (\A b \in Actors : begun[b] \subseteq removed)'
    BY <1>1 DEF RemovedHold, Same
  <2>3. ListedIsNotRemoved'
    BY <1>0, <1>00, <1>1 DEF RemovedHold, ListedIsNotRemoved, LocalsHold, LocalsOf, Same
  <2> QED BY <2>1, <2>2, <2>3 DEF RemovedHold
<1>10. KidsHold'
  <2>1. KidsOf(a)'
    BY <1>0, <1>00, <1>1 DEF KidsHold, KidsOf, LocalsHold, LocalsOf, Shape
  <2>2. ASSUME NEW b \in Actors, b # a
        PROVE  KidsOf(b)'
    BY <1>0, <1>00, <1>1, <2>2 DEF KidsHold, KidsOf, LocalsHold, LocalsOf, Shape, Same
  <2> QED BY <2>1, <2>2 DEF KidsHold
<1>11. HealHolds'
  BY <1>0, <1>00, <1>1 DEF HealHolds, HealHas, Shape, LocalsHold, LocalsOf, Same
<1> QED BY <1>3, <1>4, <1>5, <1>6, <1>7, <1>8, <1>9, <1>10, <1>11

LEMMA DeleteRefusedStep ==
  ASSUME CatalogInv, NEW a \in Actors, DeleteRefused(a), UNCHANGED budget
  PROVE  CatalogInv'
<1> USE DEF CatalogInv, folders, file, locals, bounds, histories, Owing, Deleting
<1>0. Shape /\ Nil \notin Ids /\ Nil \notin Actors /\ budget' = budget
  BY CatalogAssumption DEF Shape, CatalogTypes, CatalogTypeOK
<1>1. /\ task[a] = "delete"
      /\ place' = place /\ version' = version /\ index' = index /\ lock' = lock
      /\ stale' = stale /\ removed' = removed
      /\ index_synced' = index_synced
      /\ Rests(a) /\ \A b \in Actors : b # a => Same(b)
      /\ missed' = missed /\ crossed' = crossed
  BY <1>0, Returns DEF DeleteRefused
<1>2. (\A y \in Ids : Owed(y) => Owed(y)')
  BY <1>0, <1>1 DEF Owed, Owes, Same, Rests
<1>3. CatalogTypes'
  <2>1. CatalogTypeOK'
    <3>1. /\ faults' \in 0 .. budget'.faults /\ damage' \in 0 .. budget'.damage
          /\ crashes' \in 0 .. budget'.crashes /\ budget' \in Budgets
      BY <1>0 DEF DeleteRefused, CatalogTypes, CatalogTypeOK, Shape
    <3>2. /\ place' \in [Ids -> {"none", "root", "trash", "gone"}]
          /\ open' \subseteq Ids /\ version' \in [Ids -> Nat]
          /\ index' \in Seq(Records) /\ index_synced' \in 0 .. Len(index')
          /\ lock' \in Actors \union {Nil} /\ stale' \subseteq Ids /\ removed' \subseteq Ids
          /\ crossed' \subseteq Ids /\ missed' \in [Actors -> SUBSET Ids]
      BY <1>0, <1>1 DEF DeleteRefused, CatalogTypes, CatalogTypeOK, Shape, LocalsHold, LocalsOf
    <3> QED BY <3>1, <3>2, Returns DEF DeleteRefused, CatalogTypeOK
  <2>2. (\A b \in Actors, y \in Ids : Normal(view[b][y]))'
    BY Returns DEF DeleteRefused, CatalogTypes
  <2>3. (\A y \in Ids : place[y] # "none" => y \in budget.ids)'
    BY <1>0, <1>1 DEF CatalogTypes, CatalogTypeOK
  <2>4. (\A y \in open : place[y] = "root")'
    BY <1>0, <1>1 DEF Shape, DeleteRefused, CatalogTypes, CatalogTypeOK
  <2> QED BY <2>1, <2>2, <2>3, <2>4 DEF CatalogTypes
<1>4. LocalsHold'
  <2>1. LocalsOf(a)'
    BY <1>0, <1>1 DEF LocalsHold, LocalsOf, Shape, Rests
  <2>2. ASSUME NEW b \in Actors, b # a
        PROVE  LocalsOf(b)'
    BY <1>0, <1>1, <2>2 DEF LocalsHold, LocalsOf, Shape, Same
  <2> QED BY <2>1, <2>2 DEF LocalsHold
<1>5. KnownHold'
  <2>1. ASSUME NEW y \in Ids
        PROVE  KnownOf(Fold(index)[y], y)'
    BY <1>0, <1>1 DEF KnownHold, KnownOf, Shape
  <2>2. ASSUME NEW y \in Ids
        PROVE  KnownOf(view[a][y], y)'
    BY <1>0, <1>1, EntriesAre DEF KnownHold, KnownOf, Shape, Rests
  <2>3. ASSUME NEW b \in Actors, b # a, NEW y \in Ids
        PROVE  KnownOf(view[b][y], y)'
    BY <1>0, <1>1, <2>3 DEF KnownHold, KnownOf, Shape, Same
  <2> QED BY <2>1, <2>2, <2>3 DEF KnownHold
<1>6. OwedHold'
  <2>1. (\A b, c \in Actors : task[b] \in Owing /\ task[c] \in Owing /\ id[b] = id[c] => b = c \/ id[b] \in crossed)'
    BY <1>0, <1>1 DEF OwedHold, Owed, Owes, Same, Rests
  <2>2. ASSUME NEW b \in Actors
        PROVE  (task[b] = "put" => copy[b] = version[id[b]] \/ id[b] \in crossed)'
    <3>1. CASE b = a
      BY <1>0, <1>1, <3>1 DEF OwedHold, LocalsHold, LocalsOf, Shape, Rests
    <3>2. CASE b # a
      BY <1>0, <1>1, <3>2 DEF OwedHold, LocalsHold, LocalsOf, Owed, Owes, Shape, Same
    <3> QED BY <3>1, <3>2
  <2> QED BY <2>1, <2>2 DEF OwedHold
<1>7. RebuildHolds'
  <2>1. ASSUME NEW y \in Ids
        PROVE  RebuildHas(a, y)'
    BY <1>0, <1>1, <1>2, EntriesAre DEF RebuildHolds, RebuildHas, KnownHold, KnownOf, LocalsHold, LocalsOf, Shape, Rests
  <2>2. ASSUME NEW b \in Actors, b # a, NEW y \in Ids
        PROVE  RebuildHas(b, y)'
    BY <1>0, <1>1, <1>2, <2>2 DEF RebuildHolds, RebuildHas, Shape, Same
  <2> QED BY <2>1, <2>2 DEF RebuildHolds
<1>8. StaleIsReported'
  BY <1>0, <1>1, <1>2, EntriesAre DEF StaleIsReported, KnownHold, KnownOf, Shape
<1>9. RemovedHold'
  <2>1. (\A y \in removed : place[y] = "gone")'
    BY <1>0, <1>1 DEF RemovedHold, Shape
  <2>2. (\A b \in Actors : begun[b] \subseteq removed)'
    BY <1>1 DEF RemovedHold, Same, Rests
  <2>3. ListedIsNotRemoved'
    BY <1>0, <1>1 DEF RemovedHold, ListedIsNotRemoved, LocalsHold, LocalsOf, Same, Rests
  <2> QED BY <2>1, <2>2, <2>3 DEF RemovedHold
<1>10. KidsHold'
  <2>1. KidsOf(a)'
    BY <1>0, <1>1 DEF KidsHold, KidsOf, LocalsHold, LocalsOf, Shape, Rests
  <2>2. ASSUME NEW b \in Actors, b # a
        PROVE  KidsOf(b)'
    BY <1>0, <1>1, <2>2 DEF KidsHold, KidsOf, LocalsHold, LocalsOf, Shape, Same
  <2> QED BY <2>1, <2>2 DEF KidsHold
<1>11. HealHolds'
  BY <1>0, <1>1 DEF HealHolds, HealHas, Shape, LocalsHold, LocalsOf, Same, Rests
<1> QED BY <1>3, <1>4, <1>5, <1>6, <1>7, <1>8, <1>9, <1>10, <1>11

LEMMA DeleteTombstoneFailsStep ==
  ASSUME CatalogInv, NEW a \in Actors, DeleteTombstoneFails(a), UNCHANGED budget
  PROVE  CatalogInv'
<1> USE DEF CatalogInv, folders, file, locals, bounds, histories, Owing, Deleting
<1>0. Shape /\ Nil \notin Ids /\ Nil \notin Actors /\ budget' = budget
  BY CatalogAssumption DEF Shape, CatalogTypes, CatalogTypeOK
<1>1. /\ task[a] = "tombstone"
      /\ place' = place /\ version' = version /\ index' = index /\ lock' = lock
      /\ removed' = removed
      /\ index_synced' = index_synced
      /\ stale' = stale \union {target[a]}
      /\ task'[a] = "purge" /\ id'[a] = id[a] /\ copy'[a] = copy[a] /\ kids'[a] = kids[a]
      /\ todo'[a] = todo[a] /\ target'[a] = target[a] /\ view'[a] = view[a] /\ page'[a] = page[a]
      /\ begun'[a] = begun[a]
      /\ \A b \in Actors : b # a => Same(b)
      /\ missed' = missed /\ crossed' = crossed
  BY <1>0 DEF DeleteTombstoneFails, Goto, CatalogTypes, CatalogTypeOK, Same
<1>2. (\A y \in Ids : Owed(y) => Owed(y)')
  BY <1>0, <1>1 DEF Owed, Owes, Same
<1>3. CatalogTypes'
  <2>1. CatalogTypeOK'
    <3>1. /\ place' \in [Ids -> {"none", "root", "trash", "gone"}]
          /\ open' \subseteq Ids /\ version' \in [Ids -> Nat]
          /\ index' \in Seq(Records) /\ index_synced' \in 0 .. Len(index')
          /\ lock' \in Actors \union {Nil} /\ stale' \subseteq Ids /\ removed' \subseteq Ids
          /\ crossed' \subseteq Ids /\ missed' \in [Actors -> SUBSET Ids]
      BY <1>0, <1>1 DEF DeleteTombstoneFails, Goto, CatalogTypes, CatalogTypeOK, Shape, LocalsHold, LocalsOf
    <3>2. /\ task' \in [Actors -> Steps] /\ id' \in [Actors -> Ids \union {Nil}]
          /\ copy' \in [Actors -> Nat] /\ target' \in [Actors -> Ids \union {Nil}]
      BY <1>0 DEF DeleteTombstoneFails, Goto, CatalogTypes, CatalogTypeOK, Steps, Shape, LocalsHold, LocalsOf
    <3>3. /\ kids' \in [Actors -> SUBSET Ids] /\ todo' \in [Actors -> SUBSET Ids]
          /\ page' \in [Actors -> SUBSET Ids] /\ begun' \in [Actors -> SUBSET Ids]
      BY <1>0 DEF DeleteTombstoneFails, Goto, CatalogTypes, CatalogTypeOK, Shape
    <3>4. view' \in [Actors -> [Ids -> Entries]]
      BY <1>0, EntryTypes DEF DeleteTombstoneFails, Goto, CatalogTypes, CatalogTypeOK, Shape
    <3>5. /\ faults' \in 0 .. budget'.faults /\ damage' \in 0 .. budget'.damage
          /\ crashes' \in 0 .. budget'.crashes /\ budget' \in Budgets
      BY <1>0 DEF DeleteTombstoneFails, Goto, CatalogTypes, CatalogTypeOK, Shape
    <3> QED BY <3>1, <3>2, <3>3, <3>4, <3>5 DEF CatalogTypeOK
  <2>2. ASSUME NEW b \in Actors, NEW y \in Ids
        PROVE  Normal(view[b][y])'
    <3>1. Normal(view[b][y])
      BY DEF CatalogTypes
    <3>2. CASE b = a
      BY <1>0, <1>1, <3>1, <3>2, EntryTypes DEF Shape
    <3>3. CASE b # a
      BY <1>1, <3>1, <3>3 DEF Same
    <3> QED BY <3>2, <3>3
  <2>3. (\A y \in Ids : place[y] # "none" => y \in budget.ids)'
    BY <1>0, <1>1 DEF CatalogTypes, CatalogTypeOK
  <2>4. (\A y \in open : place[y] = "root")'
    BY <1>0, <1>1 DEF Shape, DeleteTombstoneFails, Goto, CatalogTypes, CatalogTypeOK
  <2> QED BY <2>1, <2>2, <2>3, <2>4 DEF CatalogTypes
<1>4. LocalsHold'
  <2>1. LocalsOf(a)'
    BY <1>0, <1>1 DEF LocalsHold, LocalsOf, Shape
  <2>2. ASSUME NEW b \in Actors, b # a
        PROVE  LocalsOf(b)'
    BY <1>0, <1>1, <2>2 DEF LocalsHold, LocalsOf, Shape, Same
  <2> QED BY <2>1, <2>2 DEF LocalsHold
<1>5. KnownHold'
  <2>1. ASSUME NEW y \in Ids
        PROVE  KnownOf(Fold(index)[y], y)'
    BY <1>0, <1>1 DEF KnownHold, KnownOf, Shape
  <2>2. ASSUME NEW y \in Ids
        PROVE  KnownOf(view[a][y], y)'
    BY <1>0, <1>1, EntriesAre DEF KnownHold, KnownOf, Shape
  <2>3. ASSUME NEW b \in Actors, b # a, NEW y \in Ids
        PROVE  KnownOf(view[b][y], y)'
    BY <1>0, <1>1, <2>3 DEF KnownHold, KnownOf, Shape, Same
  <2> QED BY <2>1, <2>2, <2>3 DEF KnownHold
<1>6. OwedHold'
  <2>1. (\A b, c \in Actors : task[b] \in Owing /\ task[c] \in Owing /\ id[b] = id[c] => b = c \/ id[b] \in crossed)'
    BY <1>0, <1>1 DEF OwedHold, Owed, Owes, Same
  <2>2. ASSUME NEW b \in Actors
        PROVE  (task[b] = "put" => copy[b] = version[id[b]] \/ id[b] \in crossed)'
    <3>1. CASE b = a
      BY <1>0, <1>1, <3>1 DEF OwedHold, LocalsHold, LocalsOf, Shape
    <3>2. CASE b # a
      BY <1>0, <1>1, <3>2 DEF OwedHold, LocalsHold, LocalsOf, Owed, Owes, Shape, Same
    <3> QED BY <3>1, <3>2
  <2> QED BY <2>1, <2>2 DEF OwedHold
<1>7. RebuildHolds'
  <2>1. ASSUME NEW y \in Ids
        PROVE  RebuildHas(a, y)'
    BY <1>0, <1>1, <1>2, EntriesAre DEF RebuildHolds, RebuildHas, KnownHold, KnownOf, LocalsHold, LocalsOf, Shape
  <2>2. ASSUME NEW b \in Actors, b # a, NEW y \in Ids
        PROVE  RebuildHas(b, y)'
    BY <1>0, <1>1, <1>2, <2>2 DEF RebuildHolds, RebuildHas, Shape, Same
  <2> QED BY <2>1, <2>2 DEF RebuildHolds
<1>8. StaleIsReported'
  BY <1>0, <1>1, <1>2, EntriesAre DEF StaleIsReported, KnownHold, KnownOf, Shape
<1>9. RemovedHold'
  <2>1. (\A y \in removed : place[y] = "gone")'
    BY <1>0, <1>1 DEF RemovedHold, Shape
  <2>2. (\A b \in Actors : begun[b] \subseteq removed)'
    BY <1>1 DEF RemovedHold, Same
  <2>3. ListedIsNotRemoved'
    BY <1>0, <1>1 DEF RemovedHold, ListedIsNotRemoved, LocalsHold, LocalsOf, Same
  <2> QED BY <2>1, <2>2, <2>3 DEF RemovedHold
<1>10. KidsHold'
  <2>1. KidsOf(a)'
    BY <1>0, <1>1 DEF KidsHold, KidsOf, LocalsHold, LocalsOf, Shape
  <2>2. ASSUME NEW b \in Actors, b # a
        PROVE  KidsOf(b)'
    BY <1>0, <1>1, <2>2 DEF KidsHold, KidsOf, LocalsHold, LocalsOf, Shape, Same
  <2> QED BY <2>1, <2>2 DEF KidsHold
<1>11. HealHolds'
  BY <1>0, <1>1 DEF HealHolds, HealHas, Shape, LocalsHold, LocalsOf, Same
<1> QED BY <1>3, <1>4, <1>5, <1>6, <1>7, <1>8, <1>9, <1>10, <1>11

LEMMA DeleteStopsStep ==
  ASSUME CatalogInv, NEW a \in Actors, DeleteStops(a), UNCHANGED budget
  PROVE  CatalogInv'
<1> USE DEF CatalogInv, folders, file, locals, bounds, histories, Owing, Deleting
<1>0. Shape /\ Nil \notin Ids /\ Nil \notin Actors /\ budget' = budget
  BY CatalogAssumption DEF Shape, CatalogTypes, CatalogTypeOK
<1>1. /\ task[a] \in {"tombstone", "purge"}
      /\ place' = place /\ version' = version /\ index' = index /\ lock' = lock
      /\ stale' = stale /\ removed' = removed
      /\ index_synced' = index_synced
      /\ Rests(a) /\ \A b \in Actors : b # a => Same(b)
      /\ missed' = missed /\ crossed' = crossed
  BY <1>0, Returns DEF DeleteStops
<1>2. (\A y \in Ids : Owed(y) => Owed(y)')
  BY <1>0, <1>1 DEF Owed, Owes, Same, Rests
<1>3. CatalogTypes'
  <2>1. CatalogTypeOK'
    <3>1. /\ faults' \in 0 .. budget'.faults /\ damage' \in 0 .. budget'.damage
          /\ crashes' \in 0 .. budget'.crashes /\ budget' \in Budgets
      BY <1>0 DEF DeleteStops, CatalogTypes, CatalogTypeOK, Shape
    <3>2. /\ place' \in [Ids -> {"none", "root", "trash", "gone"}]
          /\ open' \subseteq Ids /\ version' \in [Ids -> Nat]
          /\ index' \in Seq(Records) /\ index_synced' \in 0 .. Len(index')
          /\ lock' \in Actors \union {Nil} /\ stale' \subseteq Ids /\ removed' \subseteq Ids
          /\ crossed' \subseteq Ids /\ missed' \in [Actors -> SUBSET Ids]
      BY <1>0, <1>1 DEF DeleteStops, CatalogTypes, CatalogTypeOK, Shape, LocalsHold, LocalsOf
    <3> QED BY <3>1, <3>2, Returns DEF DeleteStops, CatalogTypeOK
  <2>2. (\A b \in Actors, y \in Ids : Normal(view[b][y]))'
    BY Returns DEF DeleteStops, CatalogTypes
  <2>3. (\A y \in Ids : place[y] # "none" => y \in budget.ids)'
    BY <1>0, <1>1 DEF CatalogTypes, CatalogTypeOK
  <2>4. (\A y \in open : place[y] = "root")'
    BY <1>0, <1>1 DEF Shape, DeleteStops, CatalogTypes, CatalogTypeOK
  <2> QED BY <2>1, <2>2, <2>3, <2>4 DEF CatalogTypes
<1>4. LocalsHold'
  <2>1. LocalsOf(a)'
    BY <1>0, <1>1 DEF LocalsHold, LocalsOf, Shape, Rests
  <2>2. ASSUME NEW b \in Actors, b # a
        PROVE  LocalsOf(b)'
    BY <1>0, <1>1, <2>2 DEF LocalsHold, LocalsOf, Shape, Same
  <2> QED BY <2>1, <2>2 DEF LocalsHold
<1>5. KnownHold'
  <2>1. ASSUME NEW y \in Ids
        PROVE  KnownOf(Fold(index)[y], y)'
    BY <1>0, <1>1 DEF KnownHold, KnownOf, Shape
  <2>2. ASSUME NEW y \in Ids
        PROVE  KnownOf(view[a][y], y)'
    BY <1>0, <1>1, EntriesAre DEF KnownHold, KnownOf, Shape, Rests
  <2>3. ASSUME NEW b \in Actors, b # a, NEW y \in Ids
        PROVE  KnownOf(view[b][y], y)'
    BY <1>0, <1>1, <2>3 DEF KnownHold, KnownOf, Shape, Same
  <2> QED BY <2>1, <2>2, <2>3 DEF KnownHold
<1>6. OwedHold'
  <2>1. (\A b, c \in Actors : task[b] \in Owing /\ task[c] \in Owing /\ id[b] = id[c] => b = c \/ id[b] \in crossed)'
    BY <1>0, <1>1 DEF OwedHold, Owed, Owes, Same, Rests
  <2>2. ASSUME NEW b \in Actors
        PROVE  (task[b] = "put" => copy[b] = version[id[b]] \/ id[b] \in crossed)'
    <3>1. CASE b = a
      BY <1>0, <1>1, <3>1 DEF OwedHold, LocalsHold, LocalsOf, Shape, Rests
    <3>2. CASE b # a
      BY <1>0, <1>1, <3>2 DEF OwedHold, LocalsHold, LocalsOf, Owed, Owes, Shape, Same
    <3> QED BY <3>1, <3>2
  <2> QED BY <2>1, <2>2 DEF OwedHold
<1>7. RebuildHolds'
  <2>1. ASSUME NEW y \in Ids
        PROVE  RebuildHas(a, y)'
    BY <1>0, <1>1, <1>2, EntriesAre DEF RebuildHolds, RebuildHas, KnownHold, KnownOf, LocalsHold, LocalsOf, Shape, Rests
  <2>2. ASSUME NEW b \in Actors, b # a, NEW y \in Ids
        PROVE  RebuildHas(b, y)'
    BY <1>0, <1>1, <1>2, <2>2 DEF RebuildHolds, RebuildHas, Shape, Same
  <2> QED BY <2>1, <2>2 DEF RebuildHolds
<1>8. StaleIsReported'
  BY <1>0, <1>1, <1>2, EntriesAre DEF StaleIsReported, KnownHold, KnownOf, Shape
<1>9. RemovedHold'
  <2>1. (\A y \in removed : place[y] = "gone")'
    BY <1>0, <1>1 DEF RemovedHold, Shape
  <2>2. (\A b \in Actors : begun[b] \subseteq removed)'
    BY <1>1 DEF RemovedHold, Same, Rests
  <2>3. ListedIsNotRemoved'
    BY <1>0, <1>1 DEF RemovedHold, ListedIsNotRemoved, LocalsHold, LocalsOf, Same, Rests
  <2> QED BY <2>1, <2>2, <2>3 DEF RemovedHold
<1>10. KidsHold'
  <2>1. KidsOf(a)'
    BY <1>0, <1>1 DEF KidsHold, KidsOf, LocalsHold, LocalsOf, Shape, Rests
  <2>2. ASSUME NEW b \in Actors, b # a
        PROVE  KidsOf(b)'
    BY <1>0, <1>1, <2>2 DEF KidsHold, KidsOf, LocalsHold, LocalsOf, Shape, Same
  <2> QED BY <2>1, <2>2 DEF KidsHold
<1>11. HealHolds'
  BY <1>0, <1>1 DEF HealHolds, HealHas, Shape, LocalsHold, LocalsOf, Same, Rests
<1> QED BY <1>3, <1>4, <1>5, <1>6, <1>7, <1>8, <1>9, <1>10, <1>11

LEMMA LoadStep ==
  ASSUME CatalogInv, NEW a \in Actors, Load(a), UNCHANGED budget
  PROVE  CatalogInv'
<1> USE DEF CatalogInv, folders, file, locals, bounds, histories, Owing, Deleting
<1>0. Shape /\ Nil \notin Ids /\ Nil \notin Actors /\ budget' = budget
  BY CatalogAssumption DEF Shape, CatalogTypes, CatalogTypeOK
<1>1. /\ task[a] = "idle"
      /\ place' = place /\ version' = version /\ index' = index /\ lock' = lock
      /\ stale' = stale /\ removed' = removed
      /\ index_synced' = index_synced
      /\ id'[a] = id[a] /\ copy'[a] = copy[a] /\ kids'[a] = kids[a] /\ todo'[a] = todo[a]
      /\ target'[a] = target[a] /\ view'[a] = Fold(index) /\ page'[a] = page[a] /\ begun'[a] = removed
      /\ task'[a] \in {"heal", "list"}
      /\ \A b \in Actors : b # a => Same(b)
      /\ crossed' = crossed /\ missed'[a] = {} /\ \A b \in Actors : b # a => missed'[b] = missed[b]
  BY <1>0, IndexFolds DEF Load, Goto, CatalogTypes, CatalogTypeOK, Same
<1>2. (\A y \in Ids : Owed(y) => Owed(y)')
  BY <1>0, <1>1 DEF Owed, Owes, Same
<1>3. CatalogTypes'
  <2>1. CatalogTypeOK'
    <3>1. /\ place' \in [Ids -> {"none", "root", "trash", "gone"}]
          /\ open' \subseteq Ids /\ version' \in [Ids -> Nat]
          /\ index' \in Seq(Records) /\ index_synced' \in 0 .. Len(index')
          /\ lock' \in Actors \union {Nil} /\ stale' \subseteq Ids /\ removed' \subseteq Ids
          /\ crossed' \subseteq Ids /\ missed' \in [Actors -> SUBSET Ids]
      BY <1>0, <1>1 DEF Load, Goto, CatalogTypes, CatalogTypeOK, Shape, LocalsHold, LocalsOf
    <3>2. /\ task' \in [Actors -> Steps] /\ id' \in [Actors -> Ids \union {Nil}]
          /\ copy' \in [Actors -> Nat] /\ target' \in [Actors -> Ids \union {Nil}]
      BY <1>0 DEF Load, Goto, CatalogTypes, CatalogTypeOK, Steps, Shape, LocalsHold, LocalsOf
    <3>3. /\ kids' \in [Actors -> SUBSET Ids] /\ todo' \in [Actors -> SUBSET Ids]
          /\ page' \in [Actors -> SUBSET Ids] /\ begun' \in [Actors -> SUBSET Ids]
      BY <1>0 DEF Load, Goto, CatalogTypes, CatalogTypeOK, Shape
    <3>4. view' \in [Actors -> [Ids -> Entries]]
      BY <1>0, EntryTypes, IndexFolds DEF Load, Goto, CatalogTypes, CatalogTypeOK, Shape
    <3>5. /\ faults' \in 0 .. budget'.faults /\ damage' \in 0 .. budget'.damage
          /\ crashes' \in 0 .. budget'.crashes /\ budget' \in Budgets
      BY <1>0 DEF Load, Goto, CatalogTypes, CatalogTypeOK, Shape
    <3> QED BY <3>1, <3>2, <3>3, <3>4, <3>5 DEF CatalogTypeOK
  <2>2. ASSUME NEW b \in Actors, NEW y \in Ids
        PROVE  Normal(view[b][y])'
    <3>1. Normal(view[b][y])
      BY DEF CatalogTypes
    <3>2. CASE b = a
      BY <1>0, <1>1, <3>1, <3>2, EntryTypes, IndexFolds DEF Shape
    <3>3. CASE b # a
      BY <1>1, <3>1, <3>3 DEF Same
    <3> QED BY <3>2, <3>3
  <2>3. (\A y \in Ids : place[y] # "none" => y \in budget.ids)'
    BY <1>0, <1>1 DEF CatalogTypes, CatalogTypeOK
  <2>4. (\A y \in open : place[y] = "root")'
    BY <1>0, <1>1 DEF Shape, Load, Goto, CatalogTypes, CatalogTypeOK
  <2> QED BY <2>1, <2>2, <2>3, <2>4 DEF CatalogTypes
<1>4. LocalsHold'
  <2>1. LocalsOf(a)'
    BY <1>0, <1>1 DEF LocalsHold, LocalsOf, Shape
  <2>2. ASSUME NEW b \in Actors, b # a
        PROVE  LocalsOf(b)'
    BY <1>0, <1>1, <2>2 DEF LocalsHold, LocalsOf, Shape, Same
  <2> QED BY <2>1, <2>2 DEF LocalsHold
<1>5. KnownHold'
  <2>1. ASSUME NEW y \in Ids
        PROVE  KnownOf(Fold(index)[y], y)'
    BY <1>0, <1>1 DEF KnownHold, KnownOf, Shape
  <2>2. ASSUME NEW y \in Ids
        PROVE  KnownOf(view[a][y], y)'
    BY <1>0, <1>1, EntriesAre, IndexFolds DEF KnownHold, KnownOf, Shape
  <2>3. ASSUME NEW b \in Actors, b # a, NEW y \in Ids
        PROVE  KnownOf(view[b][y], y)'
    BY <1>0, <1>1, <2>3 DEF KnownHold, KnownOf, Shape, Same
  <2> QED BY <2>1, <2>2, <2>3 DEF KnownHold
<1>6. OwedHold'
  <2>1. (\A b, c \in Actors : task[b] \in Owing /\ task[c] \in Owing /\ id[b] = id[c] => b = c \/ id[b] \in crossed)'
    BY <1>0, <1>1 DEF OwedHold, Owed, Owes, Same
  <2>2. ASSUME NEW b \in Actors
        PROVE  (task[b] = "put" => copy[b] = version[id[b]] \/ id[b] \in crossed)'
    <3>1. CASE b = a
      BY <1>0, <1>1, <3>1 DEF OwedHold, LocalsHold, LocalsOf, Shape
    <3>2. CASE b # a
      BY <1>0, <1>1, <3>2 DEF OwedHold, LocalsHold, LocalsOf, Owed, Owes, Shape, Same
    <3> QED BY <3>1, <3>2
  <2> QED BY <2>1, <2>2 DEF OwedHold
<1>7. RebuildHolds'
  <2>1. ASSUME NEW y \in Ids
        PROVE  RebuildHas(a, y)'
    BY <1>0, <1>1, <1>2, EntriesAre DEF RebuildHolds, RebuildHas, KnownHold, KnownOf, LocalsHold, LocalsOf, Shape
  <2>2. ASSUME NEW b \in Actors, b # a, NEW y \in Ids
        PROVE  RebuildHas(b, y)'
    BY <1>0, <1>1, <1>2, <2>2 DEF RebuildHolds, RebuildHas, Shape, Same
  <2> QED BY <2>1, <2>2 DEF RebuildHolds
<1>8. StaleIsReported'
  BY <1>0, <1>1, <1>2, EntriesAre DEF StaleIsReported, KnownHold, KnownOf, Shape
<1>9. RemovedHold'
  <2>1. (\A y \in removed : place[y] = "gone")'
    BY <1>0, <1>1 DEF RemovedHold, Shape
  <2>2. (\A b \in Actors : begun[b] \subseteq removed)'
    BY <1>1 DEF RemovedHold, Same
  <2>3. ListedIsNotRemoved'
    BY <1>0, <1>1 DEF RemovedHold, ListedIsNotRemoved, LocalsHold, LocalsOf, Same
  <2> QED BY <2>1, <2>2, <2>3 DEF RemovedHold
<1>10. KidsHold'
  <2>1. KidsOf(a)'
    BY <1>0, <1>1 DEF KidsHold, KidsOf, LocalsHold, LocalsOf, Shape
  <2>2. ASSUME NEW b \in Actors, b # a
        PROVE  KidsOf(b)'
    BY <1>0, <1>1, <2>2 DEF KidsHold, KidsOf, LocalsHold, LocalsOf, Shape, Same
  <2> QED BY <2>1, <2>2 DEF KidsHold
<1>11. HealHolds'
  BY <1>0, <1>1, IndexFolds DEF HealHolds, HealHas, Shape, LocalsHold, LocalsOf, Same
<1> QED BY <1>3, <1>4, <1>5, <1>6, <1>7, <1>8, <1>9, <1>10, <1>11

LEMMA ListKeepsStep ==
  ASSUME CatalogInv, NEW a \in Actors, ListKeeps(a), UNCHANGED budget
  PROVE  CatalogInv'
<1> USE DEF CatalogInv, folders, file, locals, bounds, histories, Owing, Deleting
<1>0. Shape /\ Nil \notin Ids /\ Nil \notin Actors /\ budget' = budget
  BY CatalogAssumption DEF Shape, CatalogTypes, CatalogTypeOK
<1>00. PICK s \in Candidates(a) : Present(s) /\ page' = [page EXCEPT ![a] = @ \union {s}]
  BY DEF ListKeeps
<1>1. /\ task[a] = "list" /\ place[s] = "root" /\ s \in Ids
      /\ place' = place /\ version' = version /\ index' = index /\ lock' = lock
      /\ stale' = stale /\ removed' = removed
      /\ index_synced' = index_synced
      /\ task'[a] = task[a] /\ id'[a] = id[a] /\ copy'[a] = copy[a] /\ kids'[a] = kids[a]
      /\ todo'[a] = todo[a] /\ target'[a] = target[a] /\ view'[a] = view[a] /\ page'[a] = page[a] \union {s}
      /\ begun'[a] = begun[a]
      /\ \A b \in Actors : b # a => Same(b)
      /\ missed' = missed /\ crossed' = crossed
  BY <1>0, <1>00 DEF ListKeeps, Candidates, Present, CatalogTypes, CatalogTypeOK, Same
<1>2. (\A y \in Ids : Owed(y) => Owed(y)')
  BY <1>0, <1>1 DEF Owed, Owes, Same
<1>3. CatalogTypes'
  <2>1. CatalogTypeOK'
    <3>1. /\ place' \in [Ids -> {"none", "root", "trash", "gone"}]
          /\ open' \subseteq Ids /\ version' \in [Ids -> Nat]
          /\ index' \in Seq(Records) /\ index_synced' \in 0 .. Len(index')
          /\ lock' \in Actors \union {Nil} /\ stale' \subseteq Ids /\ removed' \subseteq Ids
          /\ crossed' \subseteq Ids /\ missed' \in [Actors -> SUBSET Ids]
      BY <1>0, <1>00, <1>1 DEF ListKeeps, Candidates, Present, CatalogTypes, CatalogTypeOK, Shape, LocalsHold, LocalsOf
    <3>2. /\ task' \in [Actors -> Steps] /\ id' \in [Actors -> Ids \union {Nil}]
          /\ copy' \in [Actors -> Nat] /\ target' \in [Actors -> Ids \union {Nil}]
      BY <1>0, <1>00 DEF ListKeeps, Candidates, Present, CatalogTypes, CatalogTypeOK, Steps, Shape, LocalsHold, LocalsOf
    <3>3. /\ kids' \in [Actors -> SUBSET Ids] /\ todo' \in [Actors -> SUBSET Ids]
          /\ page' \in [Actors -> SUBSET Ids] /\ begun' \in [Actors -> SUBSET Ids]
      BY <1>0, <1>00 DEF ListKeeps, Candidates, Present, CatalogTypes, CatalogTypeOK, Shape
    <3>4. view' \in [Actors -> [Ids -> Entries]]
      BY <1>0, <1>00, EntryTypes DEF ListKeeps, Candidates, Present, CatalogTypes, CatalogTypeOK, Shape
    <3>5. /\ faults' \in 0 .. budget'.faults /\ damage' \in 0 .. budget'.damage
          /\ crashes' \in 0 .. budget'.crashes /\ budget' \in Budgets
      BY <1>0 DEF ListKeeps, Candidates, Present, CatalogTypes, CatalogTypeOK, Shape
    <3> QED BY <3>1, <3>2, <3>3, <3>4, <3>5 DEF CatalogTypeOK
  <2>2. ASSUME NEW b \in Actors, NEW y \in Ids
        PROVE  Normal(view[b][y])'
    <3>1. Normal(view[b][y])
      BY DEF CatalogTypes
    <3>2. CASE b = a
      BY <1>0, <1>1, <3>1, <3>2, EntryTypes DEF Shape
    <3>3. CASE b # a
      BY <1>1, <3>1, <3>3 DEF Same
    <3> QED BY <3>2, <3>3
  <2>3. (\A y \in Ids : place[y] # "none" => y \in budget.ids)'
    BY <1>0, <1>1 DEF CatalogTypes, CatalogTypeOK
  <2>4. (\A y \in open : place[y] = "root")'
    BY <1>0, <1>1 DEF Shape, ListKeeps, Candidates, Present, CatalogTypes, CatalogTypeOK
  <2> QED BY <2>1, <2>2, <2>3, <2>4 DEF CatalogTypes
<1>4. LocalsHold'
  <2>1. LocalsOf(a)'
    BY <1>0, <1>00, <1>1 DEF LocalsHold, LocalsOf, Shape
  <2>2. ASSUME NEW b \in Actors, b # a
        PROVE  LocalsOf(b)'
    BY <1>0, <1>00, <1>1, <2>2 DEF LocalsHold, LocalsOf, Shape, Same
  <2> QED BY <2>1, <2>2 DEF LocalsHold
<1>5. KnownHold'
  <2>1. ASSUME NEW y \in Ids
        PROVE  KnownOf(Fold(index)[y], y)'
    BY <1>0, <1>00, <1>1 DEF KnownHold, KnownOf, Shape
  <2>2. ASSUME NEW y \in Ids
        PROVE  KnownOf(view[a][y], y)'
    BY <1>0, <1>00, <1>1, EntriesAre DEF KnownHold, KnownOf, Shape
  <2>3. ASSUME NEW b \in Actors, b # a, NEW y \in Ids
        PROVE  KnownOf(view[b][y], y)'
    BY <1>0, <1>00, <1>1, <2>3 DEF KnownHold, KnownOf, Shape, Same
  <2> QED BY <2>1, <2>2, <2>3 DEF KnownHold
<1>6. OwedHold'
  <2>1. (\A b, c \in Actors : task[b] \in Owing /\ task[c] \in Owing /\ id[b] = id[c] => b = c \/ id[b] \in crossed)'
    BY <1>0, <1>00, <1>1 DEF OwedHold, Owed, Owes, Same
  <2>2. ASSUME NEW b \in Actors
        PROVE  (task[b] = "put" => copy[b] = version[id[b]] \/ id[b] \in crossed)'
    <3>1. CASE b = a
      BY <1>0, <1>00, <1>1, <3>1 DEF OwedHold, LocalsHold, LocalsOf, Shape
    <3>2. CASE b # a
      BY <1>0, <1>00, <1>1, <3>2 DEF OwedHold, LocalsHold, LocalsOf, Owed, Owes, Shape, Same
    <3> QED BY <3>1, <3>2
  <2> QED BY <2>1, <2>2 DEF OwedHold
<1>7. RebuildHolds'
  <2>1. ASSUME NEW y \in Ids
        PROVE  RebuildHas(a, y)'
    BY <1>0, <1>00, <1>1, <1>2, EntriesAre DEF RebuildHolds, RebuildHas, KnownHold, KnownOf, LocalsHold, LocalsOf, Shape
  <2>2. ASSUME NEW b \in Actors, b # a, NEW y \in Ids
        PROVE  RebuildHas(b, y)'
    BY <1>0, <1>00, <1>1, <1>2, <2>2 DEF RebuildHolds, RebuildHas, Shape, Same
  <2> QED BY <2>1, <2>2 DEF RebuildHolds
<1>8. StaleIsReported'
  BY <1>0, <1>00, <1>1, <1>2, EntriesAre DEF StaleIsReported, KnownHold, KnownOf, Shape
<1>9. RemovedHold'
  <2>1. (\A y \in removed : place[y] = "gone")'
    BY <1>0, <1>00, <1>1 DEF RemovedHold, Shape
  <2>2. (\A b \in Actors : begun[b] \subseteq removed)'
    BY <1>1 DEF RemovedHold, Same
  <2>3. ListedIsNotRemoved'
    BY <1>0, <1>00, <1>1 DEF RemovedHold, ListedIsNotRemoved, LocalsHold, LocalsOf, Same
  <2> QED BY <2>1, <2>2, <2>3 DEF RemovedHold
<1>10. KidsHold'
  <2>1. KidsOf(a)'
    BY <1>0, <1>00, <1>1 DEF KidsHold, KidsOf, LocalsHold, LocalsOf, Shape
  <2>2. ASSUME NEW b \in Actors, b # a
        PROVE  KidsOf(b)'
    BY <1>0, <1>00, <1>1, <2>2 DEF KidsHold, KidsOf, LocalsHold, LocalsOf, Shape, Same
  <2> QED BY <2>1, <2>2 DEF KidsHold
<1>11. HealHolds'
  BY <1>0, <1>00, <1>1 DEF HealHolds, HealHas, Shape, LocalsHold, LocalsOf, Same
<1> QED BY <1>3, <1>4, <1>5, <1>6, <1>7, <1>8, <1>9, <1>10, <1>11

LEMMA ListReturnsStep ==
  ASSUME CatalogInv, NEW a \in Actors, ListReturns(a), UNCHANGED budget
  PROVE  CatalogInv'
<1> USE DEF CatalogInv, folders, file, locals, bounds, histories, Owing, Deleting
<1>0. Shape /\ Nil \notin Ids /\ Nil \notin Actors /\ budget' = budget
  BY CatalogAssumption DEF Shape, CatalogTypes, CatalogTypeOK
<1>1. /\ task[a] = "list"
      /\ place' = place /\ version' = version /\ index' = index /\ lock' = lock
      /\ stale' = stale /\ removed' = removed
      /\ index_synced' = index_synced
      /\ Rests(a) /\ \A b \in Actors : b # a => Same(b)
      /\ missed' = missed /\ crossed' = crossed
  BY <1>0, Returns DEF ListReturns
<1>2. (\A y \in Ids : Owed(y) => Owed(y)')
  BY <1>0, <1>1 DEF Owed, Owes, Same, Rests
<1>3. CatalogTypes'
  <2>1. CatalogTypeOK'
    <3>1. /\ faults' \in 0 .. budget'.faults /\ damage' \in 0 .. budget'.damage
          /\ crashes' \in 0 .. budget'.crashes /\ budget' \in Budgets
      BY <1>0 DEF ListReturns, CatalogTypes, CatalogTypeOK, Shape
    <3>2. /\ place' \in [Ids -> {"none", "root", "trash", "gone"}]
          /\ open' \subseteq Ids /\ version' \in [Ids -> Nat]
          /\ index' \in Seq(Records) /\ index_synced' \in 0 .. Len(index')
          /\ lock' \in Actors \union {Nil} /\ stale' \subseteq Ids /\ removed' \subseteq Ids
          /\ crossed' \subseteq Ids /\ missed' \in [Actors -> SUBSET Ids]
      BY <1>0, <1>1 DEF ListReturns, CatalogTypes, CatalogTypeOK, Shape, LocalsHold, LocalsOf
    <3> QED BY <3>1, <3>2, Returns DEF ListReturns, CatalogTypeOK
  <2>2. (\A b \in Actors, y \in Ids : Normal(view[b][y]))'
    BY Returns DEF ListReturns, CatalogTypes
  <2>3. (\A y \in Ids : place[y] # "none" => y \in budget.ids)'
    BY <1>0, <1>1 DEF CatalogTypes, CatalogTypeOK
  <2>4. (\A y \in open : place[y] = "root")'
    BY <1>0, <1>1 DEF Shape, ListReturns, CatalogTypes, CatalogTypeOK
  <2> QED BY <2>1, <2>2, <2>3, <2>4 DEF CatalogTypes
<1>4. LocalsHold'
  <2>1. LocalsOf(a)'
    BY <1>0, <1>1 DEF LocalsHold, LocalsOf, Shape, Rests
  <2>2. ASSUME NEW b \in Actors, b # a
        PROVE  LocalsOf(b)'
    BY <1>0, <1>1, <2>2 DEF LocalsHold, LocalsOf, Shape, Same
  <2> QED BY <2>1, <2>2 DEF LocalsHold
<1>5. KnownHold'
  <2>1. ASSUME NEW y \in Ids
        PROVE  KnownOf(Fold(index)[y], y)'
    BY <1>0, <1>1 DEF KnownHold, KnownOf, Shape
  <2>2. ASSUME NEW y \in Ids
        PROVE  KnownOf(view[a][y], y)'
    BY <1>0, <1>1, EntriesAre DEF KnownHold, KnownOf, Shape, Rests
  <2>3. ASSUME NEW b \in Actors, b # a, NEW y \in Ids
        PROVE  KnownOf(view[b][y], y)'
    BY <1>0, <1>1, <2>3 DEF KnownHold, KnownOf, Shape, Same
  <2> QED BY <2>1, <2>2, <2>3 DEF KnownHold
<1>6. OwedHold'
  <2>1. (\A b, c \in Actors : task[b] \in Owing /\ task[c] \in Owing /\ id[b] = id[c] => b = c \/ id[b] \in crossed)'
    BY <1>0, <1>1 DEF OwedHold, Owed, Owes, Same, Rests
  <2>2. ASSUME NEW b \in Actors
        PROVE  (task[b] = "put" => copy[b] = version[id[b]] \/ id[b] \in crossed)'
    <3>1. CASE b = a
      BY <1>0, <1>1, <3>1 DEF OwedHold, LocalsHold, LocalsOf, Shape, Rests
    <3>2. CASE b # a
      BY <1>0, <1>1, <3>2 DEF OwedHold, LocalsHold, LocalsOf, Owed, Owes, Shape, Same
    <3> QED BY <3>1, <3>2
  <2> QED BY <2>1, <2>2 DEF OwedHold
<1>7. RebuildHolds'
  <2>1. ASSUME NEW y \in Ids
        PROVE  RebuildHas(a, y)'
    BY <1>0, <1>1, <1>2, EntriesAre DEF RebuildHolds, RebuildHas, KnownHold, KnownOf, LocalsHold, LocalsOf, Shape, Rests
  <2>2. ASSUME NEW b \in Actors, b # a, NEW y \in Ids
        PROVE  RebuildHas(b, y)'
    BY <1>0, <1>1, <1>2, <2>2 DEF RebuildHolds, RebuildHas, Shape, Same
  <2> QED BY <2>1, <2>2 DEF RebuildHolds
<1>8. StaleIsReported'
  BY <1>0, <1>1, <1>2, EntriesAre DEF StaleIsReported, KnownHold, KnownOf, Shape
<1>9. RemovedHold'
  <2>1. (\A y \in removed : place[y] = "gone")'
    BY <1>0, <1>1 DEF RemovedHold, Shape
  <2>2. (\A b \in Actors : begun[b] \subseteq removed)'
    BY <1>1 DEF RemovedHold, Same, Rests
  <2>3. ListedIsNotRemoved'
    BY <1>0, <1>1 DEF RemovedHold, ListedIsNotRemoved, LocalsHold, LocalsOf, Same, Rests
  <2> QED BY <2>1, <2>2, <2>3 DEF RemovedHold
<1>10. KidsHold'
  <2>1. KidsOf(a)'
    BY <1>0, <1>1 DEF KidsHold, KidsOf, LocalsHold, LocalsOf, Shape, Rests
  <2>2. ASSUME NEW b \in Actors, b # a
        PROVE  KidsOf(b)'
    BY <1>0, <1>1, <2>2 DEF KidsHold, KidsOf, LocalsHold, LocalsOf, Shape, Same
  <2> QED BY <2>1, <2>2 DEF KidsHold
<1>11. HealHolds'
  BY <1>0, <1>1 DEF HealHolds, HealHas, Shape, LocalsHold, LocalsOf, Same, Rests
<1> QED BY <1>3, <1>4, <1>5, <1>6, <1>7, <1>8, <1>9, <1>10, <1>11

LEMMA RebuildStartStep ==
  ASSUME CatalogInv, NEW a \in Actors, RebuildStart(a), UNCHANGED budget
  PROVE  CatalogInv'
<1> USE DEF CatalogInv, folders, file, locals, bounds, histories, Owing, Deleting
<1>0. Shape /\ Nil \notin Ids /\ Nil \notin Actors /\ budget' = budget
  BY CatalogAssumption DEF Shape, CatalogTypes, CatalogTypeOK
<1>1. /\ task[a] = "idle" /\ lock = Nil
      /\ place' = place /\ version' = version /\ index' = index /\ lock' = a
      /\ stale' = stale /\ removed' = removed
      /\ index_synced' = index_synced
      /\ task'[a] = "rebuild" /\ id'[a] = id[a] /\ copy'[a] = copy[a] /\ kids'[a] = kids[a]
      /\ todo'[a] = todo[a] /\ target'[a] = target[a] /\ page'[a] = page[a] /\ begun'[a] = begun[a]
      /\ view'[a] = [x \in Ids |-> IF Fold(index)[x].deleted THEN Gone ELSE Absent]
      /\ \A b \in Actors : b # a => Same(b)
      /\ missed' = missed /\ crossed' = crossed
  BY <1>0, IndexFolds DEF RebuildStart, Goto, CatalogTypes, CatalogTypeOK, Same
<1>2. (\A y \in Ids : Owed(y) => Owed(y)')
  BY <1>0, <1>1 DEF Owed, Owes, Same
<1>3. CatalogTypes'
  <2>1. CatalogTypeOK'
    <3>1. /\ place' \in [Ids -> {"none", "root", "trash", "gone"}]
          /\ open' \subseteq Ids /\ version' \in [Ids -> Nat]
          /\ index' \in Seq(Records) /\ index_synced' \in 0 .. Len(index')
          /\ lock' \in Actors \union {Nil} /\ stale' \subseteq Ids /\ removed' \subseteq Ids
          /\ crossed' \subseteq Ids /\ missed' \in [Actors -> SUBSET Ids]
      BY <1>0, <1>1 DEF RebuildStart, Goto, CatalogTypes, CatalogTypeOK, Shape, LocalsHold, LocalsOf
    <3>2. /\ task' \in [Actors -> Steps] /\ id' \in [Actors -> Ids \union {Nil}]
          /\ copy' \in [Actors -> Nat] /\ target' \in [Actors -> Ids \union {Nil}]
      BY <1>0 DEF RebuildStart, Goto, CatalogTypes, CatalogTypeOK, Steps, Shape, LocalsHold, LocalsOf
    <3>3. /\ kids' \in [Actors -> SUBSET Ids] /\ todo' \in [Actors -> SUBSET Ids]
          /\ page' \in [Actors -> SUBSET Ids] /\ begun' \in [Actors -> SUBSET Ids]
      BY <1>0 DEF RebuildStart, Goto, CatalogTypes, CatalogTypeOK, Shape
    <3>4. view' \in [Actors -> [Ids -> Entries]]
      BY <1>0, EntryTypes, IndexFolds DEF RebuildStart, Goto, CatalogTypes, CatalogTypeOK, Shape
    <3>5. /\ faults' \in 0 .. budget'.faults /\ damage' \in 0 .. budget'.damage
          /\ crashes' \in 0 .. budget'.crashes /\ budget' \in Budgets
      BY <1>0 DEF RebuildStart, Goto, CatalogTypes, CatalogTypeOK, Shape
    <3> QED BY <3>1, <3>2, <3>3, <3>4, <3>5 DEF CatalogTypeOK
  <2>2. ASSUME NEW b \in Actors, NEW y \in Ids
        PROVE  Normal(view[b][y])'
    <3>1. Normal(view[b][y])
      BY DEF CatalogTypes
    <3>2. CASE b = a
      BY <1>0, <1>1, <3>1, <3>2, EntryTypes, IndexFolds DEF Shape
    <3>3. CASE b # a
      BY <1>1, <3>1, <3>3 DEF Same
    <3> QED BY <3>2, <3>3
  <2>3. (\A y \in Ids : place[y] # "none" => y \in budget.ids)'
    BY <1>0, <1>1 DEF CatalogTypes, CatalogTypeOK
  <2>4. (\A y \in open : place[y] = "root")'
    BY <1>0, <1>1 DEF Shape, RebuildStart, Goto, CatalogTypes, CatalogTypeOK
  <2> QED BY <2>1, <2>2, <2>3, <2>4 DEF CatalogTypes
<1>4. LocalsHold'
  <2>1. LocalsOf(a)'
    BY <1>0, <1>1 DEF LocalsHold, LocalsOf, Shape
  <2>2. ASSUME NEW b \in Actors, b # a
        PROVE  LocalsOf(b)'
    BY <1>0, <1>1, <2>2 DEF LocalsHold, LocalsOf, Shape, Same
  <2> QED BY <2>1, <2>2 DEF LocalsHold
<1>5. KnownHold'
  <2>1. ASSUME NEW y \in Ids
        PROVE  KnownOf(Fold(index)[y], y)'
    BY <1>0, <1>1 DEF KnownHold, KnownOf, Shape
  <2>2. ASSUME NEW y \in Ids
        PROVE  KnownOf(view[a][y], y)'
    BY <1>0, <1>1, EntriesAre, IndexFolds DEF KnownHold, KnownOf, Shape
  <2>3. ASSUME NEW b \in Actors, b # a, NEW y \in Ids
        PROVE  KnownOf(view[b][y], y)'
    BY <1>0, <1>1, <2>3 DEF KnownHold, KnownOf, Shape, Same
  <2> QED BY <2>1, <2>2, <2>3 DEF KnownHold
<1>6. OwedHold'
  <2>1. (\A b, c \in Actors : task[b] \in Owing /\ task[c] \in Owing /\ id[b] = id[c] => b = c \/ id[b] \in crossed)'
    BY <1>0, <1>1 DEF OwedHold, Owed, Owes, Same
  <2>2. ASSUME NEW b \in Actors
        PROVE  (task[b] = "put" => copy[b] = version[id[b]] \/ id[b] \in crossed)'
    <3>1. CASE b = a
      BY <1>0, <1>1, <3>1 DEF OwedHold, LocalsHold, LocalsOf, Shape
    <3>2. CASE b # a
      BY <1>0, <1>1, <3>2 DEF OwedHold, LocalsHold, LocalsOf, Owed, Owes, Shape, Same
    <3> QED BY <3>1, <3>2
  <2> QED BY <2>1, <2>2 DEF OwedHold
<1>7. RebuildHolds'
  <2>1. ASSUME NEW y \in Ids
        PROVE  RebuildHas(a, y)'
    BY <1>0, <1>1, <1>2, EntriesAre DEF RebuildHolds, RebuildHas, KnownHold, KnownOf, LocalsHold, LocalsOf, Shape
  <2>2. ASSUME NEW b \in Actors, b # a, NEW y \in Ids
        PROVE  RebuildHas(b, y)'
    BY <1>0, <1>1, <1>2, <2>2 DEF RebuildHolds, RebuildHas, Shape, Same
  <2> QED BY <2>1, <2>2 DEF RebuildHolds
<1>8. StaleIsReported'
  BY <1>0, <1>1, <1>2, EntriesAre DEF StaleIsReported, KnownHold, KnownOf, Shape
<1>9. RemovedHold'
  <2>1. (\A y \in removed : place[y] = "gone")'
    BY <1>0, <1>1 DEF RemovedHold, Shape
  <2>2. (\A b \in Actors : begun[b] \subseteq removed)'
    BY <1>1 DEF RemovedHold, Same
  <2>3. ListedIsNotRemoved'
    BY <1>0, <1>1 DEF RemovedHold, ListedIsNotRemoved, LocalsHold, LocalsOf, Same
  <2> QED BY <2>1, <2>2, <2>3 DEF RemovedHold
<1>10. KidsHold'
  <2>1. KidsOf(a)'
    BY <1>0, <1>1 DEF KidsHold, KidsOf, LocalsHold, LocalsOf, Shape
  <2>2. ASSUME NEW b \in Actors, b # a
        PROVE  KidsOf(b)'
    BY <1>0, <1>1, <2>2 DEF KidsHold, KidsOf, LocalsHold, LocalsOf, Shape, Same
  <2> QED BY <2>1, <2>2 DEF KidsHold
<1>11. HealHolds'
  BY <1>0, <1>1 DEF HealHolds, HealHas, Shape, LocalsHold, LocalsOf, Same
<1> QED BY <1>3, <1>4, <1>5, <1>6, <1>7, <1>8, <1>9, <1>10, <1>11

LEMMA RebuildReadsStep ==
  ASSUME CatalogInv, NEW a \in Actors, NEW x \in budget.ids, RebuildReads(a, x), UNCHANGED budget
  PROVE  CatalogInv'
<1> USE DEF CatalogInv, folders, file, locals, bounds, histories, Owing, Deleting
<1>0. Shape /\ x \in Ids /\ Nil \notin Ids /\ Nil \notin Actors /\ budget' = budget
  BY CatalogAssumption DEF Shape, CatalogTypes, CatalogTypeOK
<1>1. /\ task[a] = "rebuild" /\ x \notin page[a]
      /\ place' = place /\ version' = version /\ index' = index /\ lock' = lock
      /\ stale' = stale /\ removed' = removed
      /\ index_synced' = index_synced
      /\ task'[a] = task[a] /\ id'[a] = id[a] /\ copy'[a] = copy[a] /\ kids'[a] = kids[a]
      /\ todo'[a] = todo[a] /\ target'[a] = target[a] /\ page'[a] = page[a] \union {x} /\ begun'[a] = begun[a]
      /\ \A z \in Ids : z # x => view'[a][z] = view[a][z]
      /\ view'[a][x] = IF place[x] = "root" /\ ~view[a][x].deleted THEN Listing(version[x]) ELSE view[a][x]
      /\ \A b \in Actors : b # a => Same(b)
      /\ missed' = missed /\ crossed' = crossed
  BY <1>0 DEF RebuildReads, CatalogTypes, CatalogTypeOK, Same
<1>2. (\A y \in Ids : Owed(y) => Owed(y)')
  BY <1>0, <1>1 DEF Owed, Owes, Same
<1>3. CatalogTypes'
  <2>1. CatalogTypeOK'
    <3>1. /\ place' \in [Ids -> {"none", "root", "trash", "gone"}]
          /\ open' \subseteq Ids /\ version' \in [Ids -> Nat]
          /\ index' \in Seq(Records) /\ index_synced' \in 0 .. Len(index')
          /\ lock' \in Actors \union {Nil} /\ stale' \subseteq Ids /\ removed' \subseteq Ids
          /\ crossed' \subseteq Ids /\ missed' \in [Actors -> SUBSET Ids]
      BY <1>0, <1>1 DEF RebuildReads, CatalogTypes, CatalogTypeOK, Shape, LocalsHold, LocalsOf
    <3>2. /\ task' \in [Actors -> Steps] /\ id' \in [Actors -> Ids \union {Nil}]
          /\ copy' \in [Actors -> Nat] /\ target' \in [Actors -> Ids \union {Nil}]
      BY <1>0 DEF RebuildReads, CatalogTypes, CatalogTypeOK, Steps, Shape, LocalsHold, LocalsOf
    <3>3. /\ kids' \in [Actors -> SUBSET Ids] /\ todo' \in [Actors -> SUBSET Ids]
          /\ page' \in [Actors -> SUBSET Ids] /\ begun' \in [Actors -> SUBSET Ids]
      BY <1>0 DEF RebuildReads, CatalogTypes, CatalogTypeOK, Shape
    <3>4. view' \in [Actors -> [Ids -> Entries]]
      BY <1>0, EntryTypes DEF RebuildReads, CatalogTypes, CatalogTypeOK, Shape
    <3>5. /\ faults' \in 0 .. budget'.faults /\ damage' \in 0 .. budget'.damage
          /\ crashes' \in 0 .. budget'.crashes /\ budget' \in Budgets
      BY <1>0 DEF RebuildReads, CatalogTypes, CatalogTypeOK, Shape
    <3> QED BY <3>1, <3>2, <3>3, <3>4, <3>5 DEF CatalogTypeOK
  <2>2. ASSUME NEW b \in Actors, NEW y \in Ids
        PROVE  Normal(view[b][y])'
    <3>1. Normal(view[b][y])
      BY DEF CatalogTypes
    <3>2. CASE b = a
      BY <1>0, <1>1, <3>1, <3>2, EntryTypes DEF Shape
    <3>3. CASE b # a
      BY <1>1, <3>1, <3>3 DEF Same
    <3> QED BY <3>2, <3>3
  <2>3. (\A y \in Ids : place[y] # "none" => y \in budget.ids)'
    BY <1>0, <1>1 DEF CatalogTypes, CatalogTypeOK
  <2>4. (\A y \in open : place[y] = "root")'
    BY <1>0, <1>1 DEF Shape, RebuildReads, CatalogTypes, CatalogTypeOK
  <2> QED BY <2>1, <2>2, <2>3, <2>4 DEF CatalogTypes
<1>4. LocalsHold'
  <2>1. LocalsOf(a)'
    BY <1>0, <1>1 DEF LocalsHold, LocalsOf, Shape
  <2>2. ASSUME NEW b \in Actors, b # a
        PROVE  LocalsOf(b)'
    BY <1>0, <1>1, <2>2 DEF LocalsHold, LocalsOf, Shape, Same
  <2> QED BY <2>1, <2>2 DEF LocalsHold
<1>5. KnownHold'
  <2>1. ASSUME NEW y \in Ids
        PROVE  KnownOf(Fold(index)[y], y)'
    BY <1>0, <1>1 DEF KnownHold, KnownOf, Shape
  <2>2. ASSUME NEW y \in Ids
        PROVE  KnownOf(view[a][y], y)'
    BY <1>0, <1>1, EntriesAre DEF KnownHold, KnownOf, Shape
  <2>3. ASSUME NEW b \in Actors, b # a, NEW y \in Ids
        PROVE  KnownOf(view[b][y], y)'
    BY <1>0, <1>1, <2>3 DEF KnownHold, KnownOf, Shape, Same
  <2> QED BY <2>1, <2>2, <2>3 DEF KnownHold
<1>6. OwedHold'
  <2>1. (\A b, c \in Actors : task[b] \in Owing /\ task[c] \in Owing /\ id[b] = id[c] => b = c \/ id[b] \in crossed)'
    BY <1>0, <1>1 DEF OwedHold, Owed, Owes, Same
  <2>2. ASSUME NEW b \in Actors
        PROVE  (task[b] = "put" => copy[b] = version[id[b]] \/ id[b] \in crossed)'
    <3>1. CASE b = a
      BY <1>0, <1>1, <3>1 DEF OwedHold, LocalsHold, LocalsOf, Shape
    <3>2. CASE b # a
      BY <1>0, <1>1, <3>2 DEF OwedHold, LocalsHold, LocalsOf, Owed, Owes, Shape, Same
    <3> QED BY <3>1, <3>2
  <2> QED BY <2>1, <2>2 DEF OwedHold
<1>7. RebuildHolds'
  <2>1. ASSUME NEW y \in Ids
        PROVE  RebuildHas(a, y)'
    BY <1>0, <1>1, <1>2, EntriesAre DEF RebuildHolds, RebuildHas, KnownHold, KnownOf, LocalsHold, LocalsOf, Shape
  <2>2. ASSUME NEW b \in Actors, b # a, NEW y \in Ids
        PROVE  RebuildHas(b, y)'
    BY <1>0, <1>1, <1>2, <2>2 DEF RebuildHolds, RebuildHas, Shape, Same
  <2> QED BY <2>1, <2>2 DEF RebuildHolds
<1>8. StaleIsReported'
  BY <1>0, <1>1, <1>2, EntriesAre DEF StaleIsReported, KnownHold, KnownOf, Shape
<1>9. RemovedHold'
  <2>1. (\A y \in removed : place[y] = "gone")'
    BY <1>0, <1>1 DEF RemovedHold, Shape
  <2>2. (\A b \in Actors : begun[b] \subseteq removed)'
    BY <1>1 DEF RemovedHold, Same
  <2>3. ListedIsNotRemoved'
    BY <1>0, <1>1 DEF RemovedHold, ListedIsNotRemoved, LocalsHold, LocalsOf, Same
  <2> QED BY <2>1, <2>2, <2>3 DEF RemovedHold
<1>10. KidsHold'
  <2>1. KidsOf(a)'
    BY <1>0, <1>1 DEF KidsHold, KidsOf, LocalsHold, LocalsOf, Shape
  <2>2. ASSUME NEW b \in Actors, b # a
        PROVE  KidsOf(b)'
    BY <1>0, <1>1, <2>2 DEF KidsHold, KidsOf, LocalsHold, LocalsOf, Shape, Same
  <2> QED BY <2>1, <2>2 DEF KidsHold
<1>11. HealHolds'
  BY <1>0, <1>1 DEF HealHolds, HealHas, Shape, LocalsHold, LocalsOf, Same
<1> QED BY <1>3, <1>4, <1>5, <1>6, <1>7, <1>8, <1>9, <1>10, <1>11

LEMMA RebuildSweepsStep ==
  ASSUME CatalogInv, NEW a \in Actors, RebuildSweeps(a), UNCHANGED budget
  PROVE  CatalogInv'
<1> USE DEF CatalogInv, folders, file, locals, bounds, histories, Owing, Deleting
<1>0. Shape /\ Nil \notin Ids /\ Nil \notin Actors /\ budget' = budget
  BY CatalogAssumption DEF Shape, CatalogTypes, CatalogTypeOK
<1>1. /\ task[a] = "sweep"
      /\ version' = version /\ index' = index /\ lock' = Nil /\ stale' = stale
      /\ removed' = removed
      /\ \A y \in Ids : place'[y] = (IF place[y] = "trash" THEN "gone" ELSE place[y])
      /\ index_synced' = index_synced
      /\ Rests(a) /\ \A b \in Actors : b # a => Same(b)
      /\ missed' = missed /\ crossed' = crossed
  BY <1>0, Returns DEF RebuildSweeps
<1>2. (\A y \in Ids : Owed(y) => Owed(y)')
  BY <1>0, <1>1 DEF Owed, Owes, Same, Rests
<1>3. CatalogTypes'
  <2>1. CatalogTypeOK'
    <3>1. /\ faults' \in 0 .. budget'.faults /\ damage' \in 0 .. budget'.damage
          /\ crashes' \in 0 .. budget'.crashes /\ budget' \in Budgets
      BY <1>0 DEF RebuildSweeps, CatalogTypes, CatalogTypeOK, Shape
    <3>2. /\ place' \in [Ids -> {"none", "root", "trash", "gone"}]
          /\ open' \subseteq Ids /\ version' \in [Ids -> Nat]
          /\ index' \in Seq(Records) /\ index_synced' \in 0 .. Len(index')
          /\ lock' \in Actors \union {Nil} /\ stale' \subseteq Ids /\ removed' \subseteq Ids
          /\ crossed' \subseteq Ids /\ missed' \in [Actors -> SUBSET Ids]
      BY <1>0, <1>1 DEF RebuildSweeps, CatalogTypes, CatalogTypeOK, Shape, LocalsHold, LocalsOf
    <3> QED BY <3>1, <3>2, Returns DEF RebuildSweeps, CatalogTypeOK
  <2>2. (\A b \in Actors, y \in Ids : Normal(view[b][y]))'
    BY Returns DEF RebuildSweeps, CatalogTypes
  <2>3. (\A y \in Ids : place[y] # "none" => y \in budget.ids)'
    BY <1>0, <1>1 DEF CatalogTypes, CatalogTypeOK
  <2>4. (\A y \in open : place[y] = "root")'
    BY <1>0, <1>1 DEF Shape, RebuildSweeps, CatalogTypes, CatalogTypeOK
  <2> QED BY <2>1, <2>2, <2>3, <2>4 DEF CatalogTypes
<1>4. LocalsHold'
  <2>1. LocalsOf(a)'
    BY <1>0, <1>1 DEF LocalsHold, LocalsOf, Shape, Rests
  <2>2. ASSUME NEW b \in Actors, b # a
        PROVE  LocalsOf(b)'
    BY <1>0, <1>1, <2>2 DEF LocalsHold, LocalsOf, Shape, Same
  <2> QED BY <2>1, <2>2 DEF LocalsHold
<1>5. KnownHold'
  <2>1. ASSUME NEW y \in Ids
        PROVE  KnownOf(Fold(index)[y], y)'
    BY <1>0, <1>1 DEF KnownHold, KnownOf, Shape
  <2>2. ASSUME NEW y \in Ids
        PROVE  KnownOf(view[a][y], y)'
    BY <1>0, <1>1, EntriesAre DEF KnownHold, KnownOf, Shape, Rests
  <2>3. ASSUME NEW b \in Actors, b # a, NEW y \in Ids
        PROVE  KnownOf(view[b][y], y)'
    BY <1>0, <1>1, <2>3 DEF KnownHold, KnownOf, Shape, Same
  <2> QED BY <2>1, <2>2, <2>3 DEF KnownHold
<1>6. OwedHold'
  <2>1. (\A b, c \in Actors : task[b] \in Owing /\ task[c] \in Owing /\ id[b] = id[c] => b = c \/ id[b] \in crossed)'
    BY <1>0, <1>1 DEF OwedHold, Owed, Owes, Same, Rests
  <2>2. ASSUME NEW b \in Actors
        PROVE  (task[b] = "put" => copy[b] = version[id[b]] \/ id[b] \in crossed)'
    <3>1. CASE b = a
      BY <1>0, <1>1, <3>1 DEF OwedHold, LocalsHold, LocalsOf, Shape, Rests
    <3>2. CASE b # a
      BY <1>0, <1>1, <3>2 DEF OwedHold, LocalsHold, LocalsOf, Owed, Owes, Shape, Same
    <3> QED BY <3>1, <3>2
  <2> QED BY <2>1, <2>2 DEF OwedHold
<1>7. RebuildHolds'
  <2>1. ASSUME NEW y \in Ids
        PROVE  RebuildHas(a, y)'
    BY <1>0, <1>1, <1>2, EntriesAre DEF RebuildHolds, RebuildHas, KnownHold, KnownOf, LocalsHold, LocalsOf, Shape, Rests
  <2>2. ASSUME NEW b \in Actors, b # a, NEW y \in Ids
        PROVE  RebuildHas(b, y)'
    BY <1>0, <1>1, <1>2, <2>2 DEF RebuildHolds, RebuildHas, Shape, Same
  <2> QED BY <2>1, <2>2 DEF RebuildHolds
<1>8. StaleIsReported'
  BY <1>0, <1>1, <1>2, EntriesAre DEF StaleIsReported, KnownHold, KnownOf, Shape
<1>9. RemovedHold'
  <2>1. (\A y \in removed : place[y] = "gone")'
    BY <1>0, <1>1 DEF RemovedHold, Shape
  <2>2. (\A b \in Actors : begun[b] \subseteq removed)'
    BY <1>1 DEF RemovedHold, Same, Rests
  <2>3. ListedIsNotRemoved'
    BY <1>0, <1>1 DEF RemovedHold, ListedIsNotRemoved, LocalsHold, LocalsOf, Same, Rests
  <2> QED BY <2>1, <2>2, <2>3 DEF RemovedHold
<1>10. KidsHold'
  <2>1. KidsOf(a)'
    BY <1>0, <1>1 DEF KidsHold, KidsOf, LocalsHold, LocalsOf, Shape, Rests
  <2>2. ASSUME NEW b \in Actors, b # a
        PROVE  KidsOf(b)'
    BY <1>0, <1>1, <2>2 DEF KidsHold, KidsOf, LocalsHold, LocalsOf, Shape, Same
  <2> QED BY <2>1, <2>2 DEF KidsHold
<1>11. HealHolds'
  BY <1>0, <1>1 DEF HealHolds, HealHas, Shape, LocalsHold, LocalsOf, Same, Rests
<1> QED BY <1>3, <1>4, <1>5, <1>6, <1>7, <1>8, <1>9, <1>10, <1>11

LEMMA ActorDiesStep ==
  ASSUME CatalogInv, NEW a \in Actors, ActorDies(a), UNCHANGED budget
  PROVE  CatalogInv'
<1> USE DEF CatalogInv, folders, file, locals, bounds, histories, Owing, Deleting
<1>0. Shape /\ Nil \notin Ids /\ Nil \notin Actors /\ budget' = budget
  BY CatalogAssumption DEF Shape, CatalogTypes, CatalogTypeOK
<1>1. /\ task[a] # "idle"
      /\ place' = place /\ version' = version /\ index' = index /\ removed' = removed
      /\ index_synced' = index_synced
      /\ lock' = (IF lock = a THEN Nil ELSE lock)
      /\ stale' = (IF task[a] \in Owing THEN stale \union {id[a]} ELSE stale)
      /\ Rests(a) /\ \A b \in Actors : b # a => Same(b)
      /\ missed' = missed /\ crossed' = crossed
  BY <1>0, Returns DEF ActorDies
<1>2. \A y \in Ids : Owed(y) => Owed(y)' \/ (task[a] \in Owing /\ y = id[a])
  BY <1>0, <1>1 DEF Owed, Owes, Same, Rests
<1>3. CatalogTypes'
  <2>1. CatalogTypeOK'
    <3>1. /\ faults' \in 0 .. budget'.faults /\ damage' \in 0 .. budget'.damage
          /\ crashes' \in 0 .. budget'.crashes /\ budget' \in Budgets
      BY <1>0 DEF ActorDies, CatalogTypes, CatalogTypeOK, Shape
    <3>2. /\ place' \in [Ids -> {"none", "root", "trash", "gone"}]
          /\ open' \subseteq Ids /\ version' \in [Ids -> Nat]
          /\ index' \in Seq(Records) /\ index_synced' \in 0 .. Len(index')
          /\ lock' \in Actors \union {Nil} /\ stale' \subseteq Ids /\ removed' \subseteq Ids
          /\ crossed' \subseteq Ids /\ missed' \in [Actors -> SUBSET Ids]
      BY <1>0, <1>1 DEF ActorDies, CatalogTypes, CatalogTypeOK, Shape, LocalsHold, LocalsOf
    <3> QED BY <3>1, <3>2, Returns DEF ActorDies, CatalogTypeOK
  <2>2. (\A b \in Actors, y \in Ids : Normal(view[b][y]))'
    BY Returns DEF ActorDies, CatalogTypes
  <2>3. (\A y \in Ids : place[y] # "none" => y \in budget.ids)'
    BY <1>0, <1>1 DEF CatalogTypes, CatalogTypeOK
  <2>4. (\A y \in open : place[y] = "root")'
    BY <1>0, <1>1 DEF Shape, ActorDies, CatalogTypes, CatalogTypeOK
  <2> QED BY <2>1, <2>2, <2>3, <2>4 DEF CatalogTypes
<1>4. LocalsHold'
  <2>1. LocalsOf(a)'
    BY <1>0, <1>1 DEF LocalsHold, LocalsOf, Shape, Rests
  <2>2. ASSUME NEW b \in Actors, b # a
        PROVE  LocalsOf(b)'
    BY <1>0, <1>1, <2>2 DEF LocalsHold, LocalsOf, Shape, Same
  <2> QED BY <2>1, <2>2 DEF LocalsHold
<1>5. KnownHold'
  <2>1. ASSUME NEW y \in Ids
        PROVE  KnownOf(Fold(index)[y], y)'
    BY <1>0, <1>1 DEF KnownHold, KnownOf, Shape
  <2>2. ASSUME NEW y \in Ids
        PROVE  KnownOf(view[a][y], y)'
    BY <1>0, <1>1, EntriesAre DEF KnownHold, KnownOf, Shape, Rests
  <2>3. ASSUME NEW b \in Actors, b # a, NEW y \in Ids
        PROVE  KnownOf(view[b][y], y)'
    BY <1>0, <1>1, <2>3 DEF KnownHold, KnownOf, Shape, Same
  <2> QED BY <2>1, <2>2, <2>3 DEF KnownHold
<1>6. OwedHold'
  <2>1. (\A b, c \in Actors : task[b] \in Owing /\ task[c] \in Owing /\ id[b] = id[c] => b = c \/ id[b] \in crossed)'
    BY <1>0, <1>1 DEF OwedHold, Owed, Owes, Same, Rests
  <2>2. ASSUME NEW b \in Actors
        PROVE  (task[b] = "put" => copy[b] = version[id[b]] \/ id[b] \in crossed)'
    <3>1. CASE b = a
      BY <1>0, <1>1, <3>1 DEF OwedHold, LocalsHold, LocalsOf, Shape, Rests
    <3>2. CASE b # a
      BY <1>0, <1>1, <3>2 DEF OwedHold, LocalsHold, LocalsOf, Owed, Owes, Shape, Same
    <3> QED BY <3>1, <3>2
  <2> QED BY <2>1, <2>2 DEF OwedHold
<1>7. RebuildHolds'
  <2>1. ASSUME NEW y \in Ids
        PROVE  RebuildHas(a, y)'
    BY <1>0, <1>1, <1>2, EntriesAre DEF RebuildHolds, RebuildHas, KnownHold, KnownOf, LocalsHold, LocalsOf, Shape, Rests
  <2>2. ASSUME NEW b \in Actors, b # a, NEW y \in Ids
        PROVE  RebuildHas(b, y)'
    BY <1>0, <1>1, <1>2, <2>2 DEF RebuildHolds, RebuildHas, Shape, Same
  <2> QED BY <2>1, <2>2 DEF RebuildHolds
<1>8. StaleIsReported'
  BY <1>0, <1>1, <1>2, EntriesAre DEF StaleIsReported, KnownHold, KnownOf, Shape
<1>9. RemovedHold'
  <2>1. (\A y \in removed : place[y] = "gone")'
    BY <1>0, <1>1 DEF RemovedHold, Shape
  <2>2. (\A b \in Actors : begun[b] \subseteq removed)'
    BY <1>1 DEF RemovedHold, Same, Rests
  <2>3. ListedIsNotRemoved'
    BY <1>0, <1>1 DEF RemovedHold, ListedIsNotRemoved, LocalsHold, LocalsOf, Same, Rests
  <2> QED BY <2>1, <2>2, <2>3 DEF RemovedHold
<1>10. KidsHold'
  <2>1. KidsOf(a)'
    BY <1>0, <1>1 DEF KidsHold, KidsOf, LocalsHold, LocalsOf, Shape, Rests
  <2>2. ASSUME NEW b \in Actors, b # a
        PROVE  KidsOf(b)'
    BY <1>0, <1>1, <2>2 DEF KidsHold, KidsOf, LocalsHold, LocalsOf, Shape, Same
  <2> QED BY <2>1, <2>2 DEF KidsHold
<1>11. HealHolds'
  BY <1>0, <1>1 DEF HealHolds, HealHas, Shape, LocalsHold, LocalsOf, Same, Rests
<1> QED BY <1>3, <1>4, <1>5, <1>6, <1>7, <1>8, <1>9, <1>10, <1>11

LEMMA PutStep ==
  ASSUME CatalogInv, NEW a \in Actors, Put(a), UNCHANGED budget
  PROVE  CatalogInv'
<1> USE DEF CatalogInv, folders, file, locals, bounds, histories, Owing, Deleting
<1>0. Shape /\ Nil \notin Ids /\ Nil \notin Actors /\ budget' = budget
  BY CatalogAssumption DEF Shape, CatalogTypes, CatalogTypeOK
<1>02. /\ index' \in Seq(Records) /\ index_synced' \in 0 .. Len(index')
       /\ lock = Nil /\ id[a] \in Ids /\ (copy[a] = version[id[a]] \/ id[a] \in crossed)
       /\ missed' = [b \in Actors |-> IF task[b] = "heal" THEN missed[b] \union {id[a]} ELSE {}]
       /\ \A y \in Ids : y # id[a] => Fold(index')[y] = Fold(index)[y]
       /\ Fold(index')[id[a]] = (IF Fold(index)[id[a]].deleted THEN Gone ELSE Listing(copy[a]))
  <2>1. (copy[a] = version[id[a]] \/ id[a] \in crossed) /\ id[a] \in Ids /\ copy[a] \in Nat
    BY <1>0 DEF Put, LocalsHold, LocalsOf, OwedHold, Shape, CatalogTypes, CatalogTypeOK
  <2>2. AppendRecord([op |-> "put", id |-> id[a], version |-> copy[a]])
    BY <2>1 DEF Put, PutVersion
  <2>3. index \in Seq(Records) /\ index_synced \in 0 .. Len(index)
    BY IndexFolds
  <2> QED BY <2>1, <2>2, <2>3, PutFolds
<1>1. /\ task[a] = "put"
      /\ place' = place /\ version' = version /\ lock' = lock
      /\ removed' = removed
      /\ Rests(a) /\ \A b \in Actors : b # a => Same(b)
      /\ stale' \subseteq stale /\ crossed' \subseteq crossed
      /\ \A y \in Ids : y # id[a] => (y \in stale' <=> y \in stale) /\ (y \in crossed' <=> y \in crossed)
      /\ \A y \in crossed \ crossed' : copy[a] = version[y] /\ \A b \in Actors \ {a} : ~Owes(b, y)
  BY <1>0, <1>02, Returns DEF Put
<1>2. \A y \in Ids : Owed(y) => Owed(y)' \/ (task[a] \in Owing /\ y = id[a])
  BY <1>0, <1>1 DEF Owed, Owes, Same, Rests
<1>3. CatalogTypes'
  <2>1. CatalogTypeOK'
    <3>1. /\ faults' \in 0 .. budget'.faults /\ damage' \in 0 .. budget'.damage
          /\ crashes' \in 0 .. budget'.crashes /\ budget' \in Budgets
      BY <1>0 DEF Put, CatalogTypes, CatalogTypeOK, Shape
    <3>2. /\ place' \in [Ids -> {"none", "root", "trash", "gone"}]
          /\ open' \subseteq Ids /\ version' \in [Ids -> Nat]
          /\ index' \in Seq(Records) /\ index_synced' \in 0 .. Len(index')
          /\ lock' \in Actors \union {Nil} /\ stale' \subseteq Ids /\ removed' \subseteq Ids
          /\ crossed' \subseteq Ids /\ missed' \in [Actors -> SUBSET Ids]
      BY <1>0, <1>02, <1>1 DEF Put, CatalogTypes, CatalogTypeOK, Shape, LocalsHold, LocalsOf
    <3> QED BY <3>1, <3>2, Returns DEF Put, CatalogTypeOK
  <2>2. (\A b \in Actors, y \in Ids : Normal(view[b][y]))'
    BY Returns DEF Put, CatalogTypes
  <2>3. (\A y \in Ids : place[y] # "none" => y \in budget.ids)'
    BY <1>0, <1>1 DEF CatalogTypes, CatalogTypeOK
  <2>4. (\A y \in open : place[y] = "root")'
    BY <1>0, <1>1 DEF Shape, Put, CatalogTypes, CatalogTypeOK
  <2> QED BY <2>1, <2>2, <2>3, <2>4 DEF CatalogTypes
<1>4. LocalsHold'
  <2>1. LocalsOf(a)'
    BY <1>0, <1>1 DEF LocalsHold, LocalsOf, Shape, Rests
  <2>2. ASSUME NEW b \in Actors, b # a
        PROVE  LocalsOf(b)'
    BY <1>0, <1>1, <2>2 DEF LocalsHold, LocalsOf, Shape, Same
  <2> QED BY <2>1, <2>2 DEF LocalsHold
<1>5. KnownHold'
  <2>1. ASSUME NEW y \in Ids
        PROVE  KnownOf(Fold(index)[y], y)'
    BY <1>0, <1>02, <1>1, EntriesAre DEF KnownHold, KnownOf, Shape, LocalsHold, LocalsOf, OwedHold
  <2>2. ASSUME NEW y \in Ids
        PROVE  KnownOf(view[a][y], y)'
    BY <1>0, <1>02, <1>1, EntriesAre DEF KnownHold, KnownOf, Shape, Rests
  <2>3. ASSUME NEW b \in Actors, b # a, NEW y \in Ids
        PROVE  KnownOf(view[b][y], y)'
    BY <1>0, <1>02, <1>1, <2>3 DEF KnownHold, KnownOf, Shape, Same
  <2> QED BY <2>1, <2>2, <2>3 DEF KnownHold
<1>6. OwedHold'
  <2>1. (\A b, c \in Actors : task[b] \in Owing /\ task[c] \in Owing /\ id[b] = id[c] => b = c \/ id[b] \in crossed)'
    BY <1>0, <1>02, <1>1 DEF OwedHold, Owed, Owes, Same, Rests
  <2>2. ASSUME NEW b \in Actors
        PROVE  (task[b] = "put" => copy[b] = version[id[b]] \/ id[b] \in crossed)'
    <3>1. CASE b = a
      BY <1>0, <1>02, <1>1, <3>1 DEF OwedHold, LocalsHold, LocalsOf, Shape, Rests
    <3>2. CASE b # a
      BY <1>0, <1>02, <1>1, <3>2 DEF OwedHold, LocalsHold, LocalsOf, Owed, Owes, Shape, Same
    <3> QED BY <3>1, <3>2
  <2> QED BY <2>1, <2>2 DEF OwedHold
<1>7. RebuildHolds'
  <2>1. ASSUME NEW y \in Ids
        PROVE  RebuildHas(a, y)'
    BY <1>0, <1>02, <1>1, <1>2, EntriesAre DEF RebuildHolds, RebuildHas, KnownHold, KnownOf, LocalsHold, LocalsOf, Shape, Rests
  <2>2. ASSUME NEW b \in Actors, b # a, NEW y \in Ids
        PROVE  RebuildHas(b, y)'
    BY <1>0, <1>02, <1>1, <1>2, <2>2 DEF RebuildHolds, RebuildHas, Shape, Same, LocalsHold, LocalsOf, OwedHold
  <2> QED BY <2>1, <2>2 DEF RebuildHolds
<1>8. StaleIsReported'
  BY <1>0, <1>02, <1>1, <1>2, EntriesAre DEF StaleIsReported, KnownHold, KnownOf, Shape, LocalsHold, LocalsOf, OwedHold
<1>9. RemovedHold'
  <2>1. (\A y \in removed : place[y] = "gone")'
    BY <1>0, <1>1 DEF RemovedHold, Shape
  <2>2. (\A b \in Actors : begun[b] \subseteq removed)'
    BY <1>1 DEF RemovedHold, Same, Rests
  <2>3. ListedIsNotRemoved'
    BY <1>0, <1>1 DEF RemovedHold, ListedIsNotRemoved, LocalsHold, LocalsOf, Same, Rests
  <2> QED BY <2>1, <2>2, <2>3 DEF RemovedHold
<1>10. KidsHold'
  <2>1. KidsOf(a)'
    BY <1>0, <1>1 DEF KidsHold, KidsOf, LocalsHold, LocalsOf, Shape, Rests
  <2>2. ASSUME NEW b \in Actors, b # a
        PROVE  KidsOf(b)'
    BY <1>0, <1>1, <2>2 DEF KidsHold, KidsOf, LocalsHold, LocalsOf, Shape, Same
  <2> QED BY <2>1, <2>2 DEF KidsHold
<1>11. HealHolds'
  BY <1>0, <1>02, <1>1 DEF HealHolds, HealHas, Shape, LocalsHold, LocalsOf, Same, Rests
<1> QED BY <1>3, <1>4, <1>5, <1>6, <1>7, <1>8, <1>9, <1>10, <1>11

LEMMA DeleteTombstoneStep ==
  ASSUME CatalogInv, NEW a \in Actors, DeleteTombstone(a), UNCHANGED budget
  PROVE  CatalogInv'
<1> USE DEF CatalogInv, folders, file, locals, bounds, histories, Owing, Deleting
<1>0. Shape /\ Nil \notin Ids /\ Nil \notin Actors /\ budget' = budget
  BY CatalogAssumption DEF Shape, CatalogTypes, CatalogTypeOK
<1>02. /\ index' \in Seq(Records) /\ index_synced' \in 0 .. Len(index')
       /\ lock = Nil /\ target[a] \in Ids /\ place[target[a]] \in {"trash", "gone"}
       /\ missed' = [b \in Actors |-> IF task[b] = "heal" THEN missed[b] \union {target[a]} ELSE {}]
       /\ \A y \in Ids : y # target[a] => Fold(index')[y] = Fold(index)[y]
       /\ Fold(index')[target[a]] = Gone
  <2>1. target[a] \in Ids /\ place[target[a]] \in {"trash", "gone"}
    BY <1>0 DEF DeleteTombstone, LocalsHold, LocalsOf, Shape
  <2>2. AppendRecord([op |-> "del", id |-> target[a], version |-> 0])
    BY <1>0 DEF DeleteTombstone, LocalsHold, LocalsOf, Shape
  <2>3. index \in Seq(Records) /\ index_synced \in 0 .. Len(index)
    BY IndexFolds
  <2> QED BY <2>1, <2>2, <2>3, DelFolds
<1>1. /\ task[a] = "tombstone"
      /\ place' = place /\ version' = version /\ lock' = lock /\ stale' = stale
      /\ removed' = removed
      /\ task'[a] = "purge" /\ id'[a] = id[a] /\ copy'[a] = copy[a] /\ kids'[a] = kids[a]
      /\ todo'[a] = todo[a] /\ target'[a] = target[a] /\ view'[a] = view[a] /\ page'[a] = page[a]
      /\ begun'[a] = begun[a]
      /\ \A b \in Actors : b # a => Same(b)
      /\ crossed' = crossed
  BY <1>0, <1>02 DEF DeleteTombstone, Goto, CatalogTypes, CatalogTypeOK, Same
<1>2. (\A y \in Ids : Owed(y) => Owed(y)')
  BY <1>0, <1>1 DEF Owed, Owes, Same
<1>3. CatalogTypes'
  <2>1. CatalogTypeOK'
    <3>1. /\ place' \in [Ids -> {"none", "root", "trash", "gone"}]
          /\ open' \subseteq Ids /\ version' \in [Ids -> Nat]
          /\ index' \in Seq(Records) /\ index_synced' \in 0 .. Len(index')
          /\ lock' \in Actors \union {Nil} /\ stale' \subseteq Ids /\ removed' \subseteq Ids
          /\ crossed' \subseteq Ids /\ missed' \in [Actors -> SUBSET Ids]
      <4>1. UNCHANGED <<place, open, version, lock, stale, removed, crossed>>
        BY DEF DeleteTombstone
      <4>2. missed' \in [Actors -> SUBSET Ids]
        BY <1>02 DEF CatalogTypes, CatalogTypeOK
      <4> QED BY <1>02, <4>1, <4>2 DEF CatalogTypes, CatalogTypeOK
    <3>2. /\ task' \in [Actors -> Steps] /\ id' \in [Actors -> Ids \union {Nil}]
          /\ copy' \in [Actors -> Nat] /\ target' \in [Actors -> Ids \union {Nil}]
      BY <1>0, <1>02 DEF DeleteTombstone, Goto, CatalogTypes, CatalogTypeOK, Steps, Shape, LocalsHold, LocalsOf
    <3>3. /\ kids' \in [Actors -> SUBSET Ids] /\ todo' \in [Actors -> SUBSET Ids]
          /\ page' \in [Actors -> SUBSET Ids] /\ begun' \in [Actors -> SUBSET Ids]
      BY <1>0, <1>02 DEF DeleteTombstone, Goto, CatalogTypes, CatalogTypeOK, Shape
    <3>4. view' \in [Actors -> [Ids -> Entries]]
      BY <1>0, <1>02, EntryTypes DEF DeleteTombstone, Goto, CatalogTypes, CatalogTypeOK, Shape
    <3>5. /\ faults' \in 0 .. budget'.faults /\ damage' \in 0 .. budget'.damage
          /\ crashes' \in 0 .. budget'.crashes /\ budget' \in Budgets
      BY <1>0 DEF DeleteTombstone, Goto, CatalogTypes, CatalogTypeOK, Shape
    <3> QED BY <3>1, <3>2, <3>3, <3>4, <3>5 DEF CatalogTypeOK
  <2>2. ASSUME NEW b \in Actors, NEW y \in Ids
        PROVE  Normal(view[b][y])'
    <3>1. Normal(view[b][y])
      BY DEF CatalogTypes
    <3>2. CASE b = a
      BY <1>0, <1>1, <3>1, <3>2, EntryTypes DEF Shape
    <3>3. CASE b # a
      BY <1>1, <3>1, <3>3 DEF Same
    <3> QED BY <3>2, <3>3
  <2>3. (\A y \in Ids : place[y] # "none" => y \in budget.ids)'
    BY <1>0, <1>1 DEF CatalogTypes, CatalogTypeOK
  <2>4. (\A y \in open : place[y] = "root")'
    BY <1>0, <1>1 DEF Shape, DeleteTombstone, Goto, CatalogTypes, CatalogTypeOK
  <2> QED BY <2>1, <2>2, <2>3, <2>4 DEF CatalogTypes
<1>4. LocalsHold'
  <2>1. LocalsOf(a)'
    BY <1>0, <1>1 DEF LocalsHold, LocalsOf, Shape
  <2>2. ASSUME NEW b \in Actors, b # a
        PROVE  LocalsOf(b)'
    BY <1>0, <1>1, <2>2 DEF LocalsHold, LocalsOf, Shape, Same
  <2> QED BY <2>1, <2>2 DEF LocalsHold
<1>5. KnownHold'
  <2>1. ASSUME NEW y \in Ids
        PROVE  KnownOf(Fold(index)[y], y)'
    BY <1>0, <1>02, <1>1, EntriesAre DEF KnownHold, KnownOf, Shape, LocalsHold, LocalsOf, OwedHold
  <2>2. ASSUME NEW y \in Ids
        PROVE  KnownOf(view[a][y], y)'
    BY <1>0, <1>02, <1>1, EntriesAre DEF KnownHold, KnownOf, Shape
  <2>3. ASSUME NEW b \in Actors, b # a, NEW y \in Ids
        PROVE  KnownOf(view[b][y], y)'
    BY <1>0, <1>02, <1>1, <2>3 DEF KnownHold, KnownOf, Shape, Same
  <2> QED BY <2>1, <2>2, <2>3 DEF KnownHold
<1>6. OwedHold'
  <2>1. (\A b, c \in Actors : task[b] \in Owing /\ task[c] \in Owing /\ id[b] = id[c] => b = c \/ id[b] \in crossed)'
    BY <1>0, <1>02, <1>1 DEF OwedHold, Owed, Owes, Same
  <2>2. ASSUME NEW b \in Actors
        PROVE  (task[b] = "put" => copy[b] = version[id[b]] \/ id[b] \in crossed)'
    <3>1. CASE b = a
      BY <1>0, <1>02, <1>1, <3>1 DEF OwedHold, LocalsHold, LocalsOf, Shape
    <3>2. CASE b # a
      BY <1>0, <1>02, <1>1, <3>2 DEF OwedHold, LocalsHold, LocalsOf, Owed, Owes, Shape, Same
    <3> QED BY <3>1, <3>2
  <2> QED BY <2>1, <2>2 DEF OwedHold
<1>7. RebuildHolds'
  <2>1. ASSUME NEW y \in Ids
        PROVE  RebuildHas(a, y)'
    BY <1>0, <1>02, <1>1, <1>2, EntriesAre DEF RebuildHolds, RebuildHas, KnownHold, KnownOf, LocalsHold, LocalsOf, Shape
  <2>2. ASSUME NEW b \in Actors, b # a, NEW y \in Ids
        PROVE  RebuildHas(b, y)'
    BY <1>0, <1>02, <1>1, <1>2, <2>2 DEF RebuildHolds, RebuildHas, Shape, Same, LocalsHold, LocalsOf, OwedHold
  <2> QED BY <2>1, <2>2 DEF RebuildHolds
<1>8. StaleIsReported'
  BY <1>0, <1>02, <1>1, <1>2, EntriesAre DEF StaleIsReported, KnownHold, KnownOf, Shape, LocalsHold, LocalsOf, OwedHold
<1>9. RemovedHold'
  <2>1. (\A y \in removed : place[y] = "gone")'
    BY <1>0, <1>1 DEF RemovedHold, Shape
  <2>2. (\A b \in Actors : begun[b] \subseteq removed)'
    BY <1>1 DEF RemovedHold, Same
  <2>3. ListedIsNotRemoved'
    BY <1>0, <1>1 DEF RemovedHold, ListedIsNotRemoved, LocalsHold, LocalsOf, Same
  <2> QED BY <2>1, <2>2, <2>3 DEF RemovedHold
<1>10. KidsHold'
  <2>1. KidsOf(a)'
    BY <1>0, <1>1 DEF KidsHold, KidsOf, LocalsHold, LocalsOf, Shape
  <2>2. ASSUME NEW b \in Actors, b # a
        PROVE  KidsOf(b)'
    BY <1>0, <1>1, <2>2 DEF KidsHold, KidsOf, LocalsHold, LocalsOf, Shape, Same
  <2> QED BY <2>1, <2>2 DEF KidsHold
<1>11. HealHolds'
  BY <1>0, <1>02, <1>1 DEF HealHolds, HealHas, Shape, LocalsHold, LocalsOf, Same
<1> QED BY <1>3, <1>4, <1>5, <1>6, <1>7, <1>8, <1>9, <1>10, <1>11

LEMMA ListHealsStep ==
  ASSUME CatalogInv, NEW a \in Actors, ListHeals(a), UNCHANGED budget
  PROVE  CatalogInv'
<1> USE DEF CatalogInv, folders, file, locals, bounds, histories, Owing, Deleting
<1>0. Shape /\ Nil \notin Ids /\ Nil \notin Actors /\ budget' = budget
  BY CatalogAssumption DEF Shape, CatalogTypes, CatalogTypeOK
<1>00. PICK s \in Candidates(a) : /\ ~Present(s)
               /\ AppendRecord([op |-> "del", id |-> s, version |-> 0])
               /\ view' = [view EXCEPT ![a][s] = Gone]
  BY DEF ListHeals
<1>02. /\ index' \in Seq(Records) /\ index_synced' \in 0 .. Len(index')
       /\ lock = Nil /\ s \in Ids /\ place[s] \in {"trash", "gone"}
       /\ missed' = [b \in Actors |-> IF task[b] = "heal" THEN missed[b] \union {s} ELSE {}]
       /\ \A y \in Ids : y # s => Fold(index')[y] = Fold(index)[y]
       /\ Fold(index')[s] = Gone
  <2>1. s \in Ids /\ place[s] \in {"trash", "gone"}
    BY <1>0, <1>00 DEF Candidates, Present, KnownHold, KnownOf, Shape
  <2>2. AppendRecord([op |-> "del", id |-> s, version |-> 0])
    BY <1>0, <1>00 DEF Candidates, Present, KnownHold, KnownOf, Shape
  <2>3. index \in Seq(Records) /\ index_synced \in 0 .. Len(index)
    BY IndexFolds
  <2> QED BY <2>1, <2>2, <2>3, DelFolds
<1>1. /\ task[a] = "list" /\ place[s] # "root" /\ s \in Ids
      /\ place' = place /\ version' = version /\ lock' = lock /\ stale' = stale
      /\ removed' = removed
      /\ task'[a] = task[a] /\ id'[a] = id[a] /\ copy'[a] = copy[a] /\ kids'[a] = kids[a]
      /\ todo'[a] = todo[a] /\ target'[a] = target[a] /\ page'[a] = page[a] /\ begun'[a] = begun[a]
      /\ view'[a][s] = Gone /\ \A z \in Ids : z # s => view'[a][z] = view[a][z]
      /\ \A b \in Actors : b # a => Same(b)
      /\ crossed' = crossed
  BY <1>0, <1>00, <1>02 DEF ListHeals, Candidates, Present, CatalogTypes, CatalogTypeOK, Same
<1>2. (\A y \in Ids : Owed(y) => Owed(y)')
  BY <1>0, <1>1 DEF Owed, Owes, Same
<1>3. CatalogTypes'
  <2>1. CatalogTypeOK'
    <3>1. /\ place' \in [Ids -> {"none", "root", "trash", "gone"}]
          /\ open' \subseteq Ids /\ version' \in [Ids -> Nat]
          /\ index' \in Seq(Records) /\ index_synced' \in 0 .. Len(index')
          /\ lock' \in Actors \union {Nil} /\ stale' \subseteq Ids /\ removed' \subseteq Ids
          /\ crossed' \subseteq Ids /\ missed' \in [Actors -> SUBSET Ids]
      BY <1>0, <1>00, <1>02, <1>1 DEF ListHeals, Candidates, Present, CatalogTypes, CatalogTypeOK, Shape, LocalsHold, LocalsOf
    <3>2. /\ task' \in [Actors -> Steps] /\ id' \in [Actors -> Ids \union {Nil}]
          /\ copy' \in [Actors -> Nat] /\ target' \in [Actors -> Ids \union {Nil}]
      BY <1>0, <1>00, <1>02 DEF ListHeals, Candidates, Present, CatalogTypes, CatalogTypeOK, Steps, Shape, LocalsHold, LocalsOf
    <3>3. /\ kids' \in [Actors -> SUBSET Ids] /\ todo' \in [Actors -> SUBSET Ids]
          /\ page' \in [Actors -> SUBSET Ids] /\ begun' \in [Actors -> SUBSET Ids]
      BY <1>0, <1>00, <1>02 DEF ListHeals, Candidates, Present, CatalogTypes, CatalogTypeOK, Shape
    <3>4. view' \in [Actors -> [Ids -> Entries]]
      BY <1>0, <1>00, <1>02, EntryTypes DEF ListHeals, Candidates, Present, CatalogTypes, CatalogTypeOK, Shape
    <3>5. /\ faults' \in 0 .. budget'.faults /\ damage' \in 0 .. budget'.damage
          /\ crashes' \in 0 .. budget'.crashes /\ budget' \in Budgets
      BY <1>0 DEF ListHeals, Candidates, Present, CatalogTypes, CatalogTypeOK, Shape
    <3> QED BY <3>1, <3>2, <3>3, <3>4, <3>5 DEF CatalogTypeOK
  <2>2. ASSUME NEW b \in Actors, NEW y \in Ids
        PROVE  Normal(view[b][y])'
    <3>1. Normal(view[b][y])
      BY DEF CatalogTypes
    <3>2. CASE b = a
      BY <1>0, <1>1, <3>1, <3>2, EntryTypes DEF Shape
    <3>3. CASE b # a
      BY <1>1, <3>1, <3>3 DEF Same
    <3> QED BY <3>2, <3>3
  <2>3. (\A y \in Ids : place[y] # "none" => y \in budget.ids)'
    BY <1>0, <1>1 DEF CatalogTypes, CatalogTypeOK
  <2>4. (\A y \in open : place[y] = "root")'
    BY <1>0, <1>1 DEF Shape, ListHeals, Candidates, Present, CatalogTypes, CatalogTypeOK
  <2> QED BY <2>1, <2>2, <2>3, <2>4 DEF CatalogTypes
<1>4. LocalsHold'
  <2>1. LocalsOf(a)'
    BY <1>0, <1>00, <1>1 DEF LocalsHold, LocalsOf, Shape
  <2>2. ASSUME NEW b \in Actors, b # a
        PROVE  LocalsOf(b)'
    BY <1>0, <1>00, <1>1, <2>2 DEF LocalsHold, LocalsOf, Shape, Same
  <2> QED BY <2>1, <2>2 DEF LocalsHold
<1>5. KnownHold'
  <2>1. ASSUME NEW y \in Ids
        PROVE  KnownOf(Fold(index)[y], y)'
    BY <1>0, <1>00, <1>02, <1>1, EntriesAre DEF KnownHold, KnownOf, Shape, LocalsHold, LocalsOf, OwedHold
  <2>2. ASSUME NEW y \in Ids
        PROVE  KnownOf(view[a][y], y)'
    BY <1>0, <1>00, <1>02, <1>1, EntriesAre DEF KnownHold, KnownOf, Shape
  <2>3. ASSUME NEW b \in Actors, b # a, NEW y \in Ids
        PROVE  KnownOf(view[b][y], y)'
    BY <1>0, <1>00, <1>02, <1>1, <2>3 DEF KnownHold, KnownOf, Shape, Same
  <2> QED BY <2>1, <2>2, <2>3 DEF KnownHold
<1>6. OwedHold'
  <2>1. (\A b, c \in Actors : task[b] \in Owing /\ task[c] \in Owing /\ id[b] = id[c] => b = c \/ id[b] \in crossed)'
    BY <1>0, <1>00, <1>02, <1>1 DEF OwedHold, Owed, Owes, Same
  <2>2. ASSUME NEW b \in Actors
        PROVE  (task[b] = "put" => copy[b] = version[id[b]] \/ id[b] \in crossed)'
    <3>1. CASE b = a
      BY <1>0, <1>00, <1>02, <1>1, <3>1 DEF OwedHold, LocalsHold, LocalsOf, Shape
    <3>2. CASE b # a
      BY <1>0, <1>00, <1>02, <1>1, <3>2 DEF OwedHold, LocalsHold, LocalsOf, Owed, Owes, Shape, Same
    <3> QED BY <3>1, <3>2
  <2> QED BY <2>1, <2>2 DEF OwedHold
<1>7. RebuildHolds'
  <2>1. ASSUME NEW y \in Ids
        PROVE  RebuildHas(a, y)'
    BY <1>0, <1>00, <1>02, <1>1, <1>2, EntriesAre DEF RebuildHolds, RebuildHas, KnownHold, KnownOf, LocalsHold, LocalsOf, Shape
  <2>2. ASSUME NEW b \in Actors, b # a, NEW y \in Ids
        PROVE  RebuildHas(b, y)'
    BY <1>0, <1>00, <1>02, <1>1, <1>2, <2>2 DEF RebuildHolds, RebuildHas, Shape, Same, LocalsHold, LocalsOf, OwedHold
  <2> QED BY <2>1, <2>2 DEF RebuildHolds
<1>8. StaleIsReported'
  BY <1>0, <1>00, <1>02, <1>1, <1>2, EntriesAre DEF StaleIsReported, KnownHold, KnownOf, Shape, LocalsHold, LocalsOf, OwedHold
<1>9. RemovedHold'
  <2>1. (\A y \in removed : place[y] = "gone")'
    BY <1>0, <1>00, <1>1 DEF RemovedHold, Shape
  <2>2. (\A b \in Actors : begun[b] \subseteq removed)'
    BY <1>1 DEF RemovedHold, Same
  <2>3. ListedIsNotRemoved'
    BY <1>0, <1>00, <1>1 DEF RemovedHold, ListedIsNotRemoved, LocalsHold, LocalsOf, Same
  <2> QED BY <2>1, <2>2, <2>3 DEF RemovedHold
<1>10. KidsHold'
  <2>1. KidsOf(a)'
    BY <1>0, <1>00, <1>1 DEF KidsHold, KidsOf, LocalsHold, LocalsOf, Shape
  <2>2. ASSUME NEW b \in Actors, b # a
        PROVE  KidsOf(b)'
    BY <1>0, <1>00, <1>1, <2>2 DEF KidsHold, KidsOf, LocalsHold, LocalsOf, Shape, Same
  <2> QED BY <2>1, <2>2 DEF KidsHold
<1>11. HealHolds'
  BY <1>0, <1>00, <1>02, <1>1 DEF HealHolds, HealHas, Shape, LocalsHold, LocalsOf, Same
<1> QED BY <1>3, <1>4, <1>5, <1>6, <1>7, <1>8, <1>9, <1>10, <1>11

LEMMA LoadHealsStep ==
  ASSUME CatalogInv, NEW a \in Actors, LoadHeals(a), UNCHANGED budget
  PROVE  CatalogInv'
<1> USE DEF CatalogInv, folders, file, locals, bounds, histories, Owing, Deleting
<1>0. Shape /\ Nil \notin Ids /\ Nil \notin Actors /\ budget' = budget
  BY CatalogAssumption DEF Shape, CatalogTypes, CatalogTypeOK
<1>02. /\ index' \in Seq(Records) /\ index_synced' \in 0 .. Len(index')
       /\ lock = Nil /\ \A y \in Ids : Fold(index')[y] = view[a][y]
       /\ missed' = [b \in Actors |-> IF task[b] = "heal"
                         THEN missed[b] \union {y \in Ids : view[a][y] # Fold(index)[y]} ELSE {}]
  <2>1. lock = Nil /\ WriteFresh(view[a]) /\ Writes({y \in Ids : view[a][y] # Fold(index)[y]})
    BY DEF LoadHeals
  <2>2. view[a] \in [Ids -> Entries] /\ \A y \in Ids : Normal(view[a][y])
    BY DEF CatalogTypes, CatalogTypeOK
  <2>3. /\ index' \in Seq(Records) /\ index_synced' \in 0 .. Len(index')
        /\ \A y \in Ids : Fold(index')[y] = view[a][y]
    BY <2>1, <2>2, WriteFolds
  <2> QED BY <2>1, <2>3 DEF Writes
<1>1. /\ task[a] = "heal"
      /\ place' = place /\ version' = version /\ lock' = lock /\ stale' = stale
      /\ removed' = removed
      /\ task'[a] = "list" /\ id'[a] = id[a] /\ copy'[a] = copy[a] /\ kids'[a] = kids[a]
      /\ todo'[a] = todo[a] /\ target'[a] = target[a] /\ view'[a] = view[a] /\ page'[a] = page[a]
      /\ begun'[a] = begun[a]
      /\ \A b \in Actors : b # a => Same(b)
      /\ crossed' = crossed \union missed[a]
  BY <1>0, <1>02 DEF LoadHeals, Goto, CatalogTypes, CatalogTypeOK, Same
<1>2. (\A y \in Ids : Owed(y) => Owed(y)')
  BY <1>0, <1>1 DEF Owed, Owes, Same
<1>3. CatalogTypes'
  <2>1. CatalogTypeOK'
    <3>1. /\ place' \in [Ids -> {"none", "root", "trash", "gone"}]
          /\ open' \subseteq Ids /\ version' \in [Ids -> Nat]
          /\ index' \in Seq(Records) /\ index_synced' \in 0 .. Len(index')
          /\ lock' \in Actors \union {Nil} /\ stale' \subseteq Ids /\ removed' \subseteq Ids
          /\ crossed' \subseteq Ids /\ missed' \in [Actors -> SUBSET Ids]
      BY <1>0, <1>02, <1>1 DEF LoadHeals, Goto, CatalogTypes, CatalogTypeOK, Shape, LocalsHold, LocalsOf
    <3>2. /\ task' \in [Actors -> Steps] /\ id' \in [Actors -> Ids \union {Nil}]
          /\ copy' \in [Actors -> Nat] /\ target' \in [Actors -> Ids \union {Nil}]
      BY <1>0, <1>02 DEF LoadHeals, Goto, CatalogTypes, CatalogTypeOK, Steps, Shape, LocalsHold, LocalsOf
    <3>3. /\ kids' \in [Actors -> SUBSET Ids] /\ todo' \in [Actors -> SUBSET Ids]
          /\ page' \in [Actors -> SUBSET Ids] /\ begun' \in [Actors -> SUBSET Ids]
      BY <1>0, <1>02 DEF LoadHeals, Goto, CatalogTypes, CatalogTypeOK, Shape
    <3>4. view' \in [Actors -> [Ids -> Entries]]
      BY <1>0, <1>02, EntryTypes DEF LoadHeals, Goto, CatalogTypes, CatalogTypeOK, Shape
    <3>5. /\ faults' \in 0 .. budget'.faults /\ damage' \in 0 .. budget'.damage
          /\ crashes' \in 0 .. budget'.crashes /\ budget' \in Budgets
      BY <1>0 DEF LoadHeals, Goto, CatalogTypes, CatalogTypeOK, Shape
    <3> QED BY <3>1, <3>2, <3>3, <3>4, <3>5 DEF CatalogTypeOK
  <2>2. ASSUME NEW b \in Actors, NEW y \in Ids
        PROVE  Normal(view[b][y])'
    <3>1. Normal(view[b][y])
      BY DEF CatalogTypes
    <3>2. CASE b = a
      BY <1>0, <1>1, <3>1, <3>2, EntryTypes DEF Shape
    <3>3. CASE b # a
      BY <1>1, <3>1, <3>3 DEF Same
    <3> QED BY <3>2, <3>3
  <2>3. (\A y \in Ids : place[y] # "none" => y \in budget.ids)'
    BY <1>0, <1>1 DEF CatalogTypes, CatalogTypeOK
  <2>4. (\A y \in open : place[y] = "root")'
    BY <1>0, <1>1 DEF Shape, LoadHeals, Goto, CatalogTypes, CatalogTypeOK
  <2> QED BY <2>1, <2>2, <2>3, <2>4 DEF CatalogTypes
<1>4. LocalsHold'
  <2>1. LocalsOf(a)'
    BY <1>0, <1>1 DEF LocalsHold, LocalsOf, Shape
  <2>2. ASSUME NEW b \in Actors, b # a
        PROVE  LocalsOf(b)'
    BY <1>0, <1>1, <2>2 DEF LocalsHold, LocalsOf, Shape, Same
  <2> QED BY <2>1, <2>2 DEF LocalsHold
<1>5. KnownHold'
  <2>1. ASSUME NEW y \in Ids
        PROVE  KnownOf(Fold(index)[y], y)'
    BY <1>0, <1>02, <1>1, EntriesAre DEF KnownHold, KnownOf, Shape, LocalsHold, LocalsOf, OwedHold
  <2>2. ASSUME NEW y \in Ids
        PROVE  KnownOf(view[a][y], y)'
    BY <1>0, <1>02, <1>1, EntriesAre DEF KnownHold, KnownOf, Shape
  <2>3. ASSUME NEW b \in Actors, b # a, NEW y \in Ids
        PROVE  KnownOf(view[b][y], y)'
    BY <1>0, <1>02, <1>1, <2>3 DEF KnownHold, KnownOf, Shape, Same
  <2> QED BY <2>1, <2>2, <2>3 DEF KnownHold
<1>6. OwedHold'
  <2>1. (\A b, c \in Actors : task[b] \in Owing /\ task[c] \in Owing /\ id[b] = id[c] => b = c \/ id[b] \in crossed)'
    BY <1>0, <1>02, <1>1 DEF OwedHold, Owed, Owes, Same
  <2>2. ASSUME NEW b \in Actors
        PROVE  (task[b] = "put" => copy[b] = version[id[b]] \/ id[b] \in crossed)'
    <3>1. CASE b = a
      BY <1>0, <1>02, <1>1, <3>1 DEF OwedHold, LocalsHold, LocalsOf, Shape
    <3>2. CASE b # a
      BY <1>0, <1>02, <1>1, <3>2 DEF OwedHold, LocalsHold, LocalsOf, Owed, Owes, Shape, Same
    <3> QED BY <3>1, <3>2
  <2> QED BY <2>1, <2>2 DEF OwedHold
<1>7. RebuildHolds'
  <2>1. ASSUME NEW y \in Ids
        PROVE  RebuildHas(a, y)'
    BY <1>0, <1>02, <1>1, <1>2, EntriesAre DEF RebuildHolds, RebuildHas, KnownHold, KnownOf, LocalsHold, LocalsOf, Shape
  <2>2. ASSUME NEW b \in Actors, b # a, NEW y \in Ids
        PROVE  RebuildHas(b, y)'
    BY <1>0, <1>02, <1>1, <1>2, <2>2 DEF RebuildHolds, RebuildHas, Shape, Same, LocalsHold, LocalsOf, OwedHold
  <2> QED BY <2>1, <2>2 DEF RebuildHolds
<1>8. StaleIsReported'
  <2>1. ASSUME NEW y \in Ids, y \notin missed[a], y \notin stale
        PROVE  Fold(index')[y] = Fold(index)[y]
    BY <1>02, <1>1, <2>1 DEF HealHolds, HealHas
  <2> QED BY <1>0, <1>1, <1>2, <2>1 DEF StaleIsReported, Shape
<1>9. RemovedHold'
  <2>1. (\A y \in removed : place[y] = "gone")'
    BY <1>0, <1>1 DEF RemovedHold, Shape
  <2>2. (\A b \in Actors : begun[b] \subseteq removed)'
    BY <1>1 DEF RemovedHold, Same
  <2>3. ListedIsNotRemoved'
    BY <1>0, <1>1 DEF RemovedHold, ListedIsNotRemoved, LocalsHold, LocalsOf, Same
  <2> QED BY <2>1, <2>2, <2>3 DEF RemovedHold
<1>10. KidsHold'
  <2>1. KidsOf(a)'
    BY <1>0, <1>1 DEF KidsHold, KidsOf, LocalsHold, LocalsOf, Shape
  <2>2. ASSUME NEW b \in Actors, b # a
        PROVE  KidsOf(b)'
    BY <1>0, <1>1, <2>2 DEF KidsHold, KidsOf, LocalsHold, LocalsOf, Shape, Same
  <2> QED BY <2>1, <2>2 DEF KidsHold
<1>11. HealHolds'
  BY <1>0, <1>02, <1>1 DEF HealHolds, HealHas, Shape, LocalsHold, LocalsOf, Same
<1> QED BY <1>3, <1>4, <1>5, <1>6, <1>7, <1>8, <1>9, <1>10, <1>11

LEMMA RebuildWritesStep ==
  ASSUME CatalogInv, NEW a \in Actors, RebuildWrites(a), UNCHANGED budget
  PROVE  CatalogInv'
<1> USE DEF CatalogInv, folders, file, locals, bounds, histories, Owing, Deleting
<1>0. Shape /\ Nil \notin Ids /\ Nil \notin Actors /\ budget' = budget
  BY CatalogAssumption DEF Shape, CatalogTypes, CatalogTypeOK
<1>02. /\ index' \in Seq(Records) /\ index_synced' \in 0 .. Len(index')
       /\ lock = a /\ \A y \in Ids : Fold(index')[y] = view[a][y]
       /\ missed' = [b \in Actors |-> IF task[b] = "heal" THEN missed[b] \union Ids ELSE {}]
       /\ \A y \in budget.ids : y \in page[a]
       /\ \A y \in Ids : view[a][y].version = version[y] =>
              view[a][y] = Listing(version[y]) \/ view[a][y] = Gone
  <2>1. view[a] \in [Ids -> Entries] /\ (\A y \in Ids : Normal(view[a][y])) /\ lock = a
    BY DEF RebuildWrites, LocalsHold, LocalsOf, CatalogTypes, CatalogTypeOK
  <2>2. WriteFresh(view[a]) /\ page[a] = budget.ids /\ Writes(Ids)
    BY DEF RebuildWrites
  <2>3. /\ index' \in Seq(Records) /\ index_synced' \in 0 .. Len(index')
        /\ \A y \in Ids : Fold(index')[y] = view[a][y]
    BY <2>1, <2>2, WriteFolds
  <2>4. ASSUME NEW y \in Ids, view[a][y].version = version[y]
        PROVE  view[a][y] = Listing(version[y]) \/ view[a][y] = Gone
    <3>1. CASE view[a][y] = Absent
      BY <1>0, <2>4, <3>1 DEF Absent, Shape
    <3>2. CASE view[a][y] # Absent
      BY <2>1, <2>4, <3>2, EntriesAre DEF Normal
    <3> QED BY <3>1, <3>2
  <2> QED BY <2>1, <2>2, <2>3, <2>4 DEF Writes
<1>1. /\ task[a] = "rebuild"
      /\ place' = place /\ version' = version /\ lock' = lock /\ removed' = removed
      /\ stale' = stale \ {y \in Ids : view[a][y].version = version[y]}
      /\ task'[a] = "sweep" /\ id'[a] = id[a] /\ copy'[a] = copy[a] /\ kids'[a] = kids[a]
      /\ todo'[a] = todo[a] /\ target'[a] = target[a] /\ view'[a] = view[a] /\ page'[a] = page[a]
      /\ begun'[a] = begun[a]
      /\ \A b \in Actors : b # a => Same(b)
      /\ crossed' = crossed \ {y \in Ids : view[a][y].version = version[y] /\ ~Owed(y)}
  BY <1>0, <1>02 DEF RebuildWrites, Goto, CatalogTypes, CatalogTypeOK, Same
<1>2. (\A y \in Ids : Owed(y) => Owed(y)')
  BY <1>0, <1>1 DEF Owed, Owes, Same
<1>3. CatalogTypes'
  <2>1. CatalogTypeOK'
    <3>1. /\ place' \in [Ids -> {"none", "root", "trash", "gone"}]
          /\ open' \subseteq Ids /\ version' \in [Ids -> Nat]
          /\ index' \in Seq(Records) /\ index_synced' \in 0 .. Len(index')
          /\ lock' \in Actors \union {Nil} /\ stale' \subseteq Ids /\ removed' \subseteq Ids
          /\ crossed' \subseteq Ids /\ missed' \in [Actors -> SUBSET Ids]
      BY <1>0, <1>02, <1>1 DEF RebuildWrites, Goto, CatalogTypes, CatalogTypeOK, Shape, LocalsHold, LocalsOf
    <3>2. /\ task' \in [Actors -> Steps] /\ id' \in [Actors -> Ids \union {Nil}]
          /\ copy' \in [Actors -> Nat] /\ target' \in [Actors -> Ids \union {Nil}]
      BY <1>0, <1>02 DEF RebuildWrites, Goto, CatalogTypes, CatalogTypeOK, Steps, Shape, LocalsHold, LocalsOf
    <3>3. /\ kids' \in [Actors -> SUBSET Ids] /\ todo' \in [Actors -> SUBSET Ids]
          /\ page' \in [Actors -> SUBSET Ids] /\ begun' \in [Actors -> SUBSET Ids]
      BY <1>0, <1>02 DEF RebuildWrites, Goto, CatalogTypes, CatalogTypeOK, Shape
    <3>4. view' \in [Actors -> [Ids -> Entries]]
      BY <1>0, <1>02, EntryTypes DEF RebuildWrites, Goto, CatalogTypes, CatalogTypeOK, Shape
    <3>5. /\ faults' \in 0 .. budget'.faults /\ damage' \in 0 .. budget'.damage
          /\ crashes' \in 0 .. budget'.crashes /\ budget' \in Budgets
      BY <1>0 DEF RebuildWrites, Goto, CatalogTypes, CatalogTypeOK, Shape
    <3> QED BY <3>1, <3>2, <3>3, <3>4, <3>5 DEF CatalogTypeOK
  <2>2. ASSUME NEW b \in Actors, NEW y \in Ids
        PROVE  Normal(view[b][y])'
    <3>1. Normal(view[b][y])
      BY DEF CatalogTypes
    <3>2. CASE b = a
      BY <1>0, <1>1, <3>1, <3>2, EntryTypes DEF Shape
    <3>3. CASE b # a
      BY <1>1, <3>1, <3>3 DEF Same
    <3> QED BY <3>2, <3>3
  <2>3. (\A y \in Ids : place[y] # "none" => y \in budget.ids)'
    BY <1>0, <1>1 DEF CatalogTypes, CatalogTypeOK
  <2>4. (\A y \in open : place[y] = "root")'
    BY <1>0, <1>1 DEF Shape, RebuildWrites, Goto, CatalogTypes, CatalogTypeOK
  <2> QED BY <2>1, <2>2, <2>3, <2>4 DEF CatalogTypes
<1>4. LocalsHold'
  <2>1. LocalsOf(a)'
    BY <1>0, <1>1 DEF LocalsHold, LocalsOf, Shape
  <2>2. ASSUME NEW b \in Actors, b # a
        PROVE  LocalsOf(b)'
    BY <1>0, <1>1, <2>2 DEF LocalsHold, LocalsOf, Shape, Same
  <2> QED BY <2>1, <2>2 DEF LocalsHold
<1>5. KnownHold'
  <2>1. ASSUME NEW y \in Ids
        PROVE  KnownOf(Fold(index)[y], y)'
    BY <1>0, <1>02, <1>1, EntriesAre DEF KnownHold, KnownOf, Shape, LocalsHold, LocalsOf, OwedHold
  <2>2. ASSUME NEW y \in Ids
        PROVE  KnownOf(view[a][y], y)'
    BY <1>0, <1>02, <1>1, EntriesAre DEF KnownHold, KnownOf, Shape
  <2>3. ASSUME NEW b \in Actors, b # a, NEW y \in Ids
        PROVE  KnownOf(view[b][y], y)'
    BY <1>0, <1>02, <1>1, <2>3 DEF KnownHold, KnownOf, Shape, Same
  <2> QED BY <2>1, <2>2, <2>3 DEF KnownHold
<1>6. OwedHold'
  <2>1. (\A b, c \in Actors : task[b] \in Owing /\ task[c] \in Owing /\ id[b] = id[c] => b = c \/ id[b] \in crossed)'
    BY <1>0, <1>02, <1>1 DEF OwedHold, Owed, Owes, Same
  <2>2. ASSUME NEW b \in Actors
        PROVE  (task[b] = "put" => copy[b] = version[id[b]] \/ id[b] \in crossed)'
    <3>1. CASE b = a
      BY <1>0, <1>02, <1>1, <3>1 DEF OwedHold, LocalsHold, LocalsOf, Shape
    <3>2. CASE b # a
      BY <1>0, <1>02, <1>1, <3>2 DEF OwedHold, LocalsHold, LocalsOf, Owed, Owes, Shape, Same
    <3> QED BY <3>1, <3>2
  <2> QED BY <2>1, <2>2 DEF OwedHold
<1>7. RebuildHolds'
  <2>1. ASSUME NEW y \in Ids
        PROVE  RebuildHas(a, y)'
    BY <1>0, <1>02, <1>1, <1>2, EntriesAre DEF RebuildHolds, RebuildHas, KnownHold, KnownOf, LocalsHold, LocalsOf, Shape
  <2>2. ASSUME NEW b \in Actors, b # a, NEW y \in Ids
        PROVE  RebuildHas(b, y)'
    BY <1>0, <1>02, <1>1, <1>2, <2>2 DEF RebuildHolds, RebuildHas, Shape, Same, LocalsHold, LocalsOf, OwedHold
  <2> QED BY <2>1, <2>2 DEF RebuildHolds
<1>8. StaleIsReported'
  <2>1. ASSUME NEW y \in Ids, place[y] = "root", ~Owed(y), y \notin stale', y \notin crossed'
        PROVE  Fold(index')[y] = Listing(version[y])
    <3>1. y \in page[a] /\ ~view[a][y].deleted
      BY <1>02, <2>1 DEF CatalogTypes, KnownHold, KnownOf
    <3>2. CASE y \notin stale \union crossed
      BY <1>02, <1>1, <2>1, <3>1, <3>2 DEF RebuildHolds, RebuildHas
    <3>3. CASE y \in stale \union crossed
      BY <1>02, <1>1, <2>1, <3>1, <3>3, EntriesAre
    <3> QED BY <3>2, <3>3
  <2> QED BY <1>1, <1>2, <2>1 DEF StaleIsReported
<1>9. RemovedHold'
  <2>1. (\A y \in removed : place[y] = "gone")'
    BY <1>0, <1>1 DEF RemovedHold, Shape
  <2>2. (\A b \in Actors : begun[b] \subseteq removed)'
    BY <1>1 DEF RemovedHold, Same
  <2>3. ListedIsNotRemoved'
    BY <1>0, <1>1 DEF RemovedHold, ListedIsNotRemoved, LocalsHold, LocalsOf, Same
  <2> QED BY <2>1, <2>2, <2>3 DEF RemovedHold
<1>10. KidsHold'
  <2>1. KidsOf(a)'
    BY <1>0, <1>1 DEF KidsHold, KidsOf, LocalsHold, LocalsOf, Shape
  <2>2. ASSUME NEW b \in Actors, b # a
        PROVE  KidsOf(b)'
    BY <1>0, <1>1, <2>2 DEF KidsHold, KidsOf, LocalsHold, LocalsOf, Shape, Same
  <2> QED BY <2>1, <2>2 DEF KidsHold
<1>11. HealHolds'
  BY <1>0, <1>02, <1>1 DEF HealHolds, HealHas, Shape, LocalsHold, LocalsOf, Same
<1> QED BY <1>3, <1>4, <1>5, <1>6, <1>7, <1>8, <1>9, <1>10, <1>11

LEMMA PutFailsStep ==
  ASSUME CatalogInv, NEW a \in Actors, PutFails(a), UNCHANGED budget
  PROVE  CatalogInv'
<1> USE DEF CatalogInv, folders, file, locals, bounds, histories, Owing, Deleting
<1>0. Shape /\ Nil \notin Ids /\ Nil \notin Actors /\ budget' = budget
  BY CatalogAssumption DEF Shape, CatalogTypes, CatalogTypeOK
<1>02. /\ index' \in Seq(Records) /\ index_synced' \in 0 .. Len(index')
       /\ id[a] \in Ids
       /\ \/ index' = index /\ missed' = missed
          \/ lock = Nil /\ missed' = [b \in Actors |-> IF task[b] = "heal" THEN missed[b] \union {id[a]} ELSE {}]
       /\ \A y \in Ids : y # id[a] => Fold(index')[y] = Fold(index)[y]
       /\ \/ Fold(index')[id[a]] = Fold(index)[id[a]]
          \/ Fold(index')[id[a]] = (IF Fold(index)[id[a]].deleted THEN Gone ELSE Listing(copy[a]))
  <2>1. id[a] \in Ids /\ copy[a] \in Nat
    BY <1>0 DEF PutFails, LocalsHold, LocalsOf, Shape, CatalogTypes, CatalogTypeOK
  <2>2. index \in Seq(Records) /\ index_synced \in 0 .. Len(index)
    BY IndexFolds
  <2>3. CASE UNCHANGED <<index, index_synced, missed>>
    BY <2>1, <2>2, <2>3
  <2>4. CASE AppendRecord([op |-> "put", id |-> id[a], version |-> copy[a]])
    BY <2>1, <2>2, <2>4, PutFolds
  <2> QED BY <2>1, <2>3, <2>4 DEF PutFails, PutVersion
<1>1. /\ task[a] = "put"
      /\ place' = place /\ version' = version /\ lock' = lock /\ removed' = removed
      /\ stale' = stale \union {id[a]}
      /\ Rests(a) /\ \A b \in Actors : b # a => Same(b)
      /\ crossed' = crossed
  BY <1>0, <1>02, Returns DEF PutFails
<1>2. \A y \in Ids : Owed(y) => Owed(y)' \/ (task[a] \in Owing /\ y = id[a])
  BY <1>0, <1>1 DEF Owed, Owes, Same, Rests
<1>3. CatalogTypes'
  <2>1. CatalogTypeOK'
    <3>1. /\ faults' \in 0 .. budget'.faults /\ damage' \in 0 .. budget'.damage
          /\ crashes' \in 0 .. budget'.crashes /\ budget' \in Budgets
      BY <1>0 DEF PutFails, CatalogTypes, CatalogTypeOK, Shape
    <3>2. /\ place' \in [Ids -> {"none", "root", "trash", "gone"}]
          /\ open' \subseteq Ids /\ version' \in [Ids -> Nat]
          /\ index' \in Seq(Records) /\ index_synced' \in 0 .. Len(index')
          /\ lock' \in Actors \union {Nil} /\ stale' \subseteq Ids /\ removed' \subseteq Ids
          /\ crossed' \subseteq Ids /\ missed' \in [Actors -> SUBSET Ids]
      <4>1. UNCHANGED <<place, open, version>>
        BY DEF PutFails
      <4>2. missed' \in [Actors -> SUBSET Ids]
        <5>1. CASE missed' = missed
          BY <5>1 DEF CatalogTypes, CatalogTypeOK
        <5>2. CASE missed' = [b \in Actors |-> IF task[b] = "heal" THEN missed[b] \union {id[a]} ELSE {}]
          BY <1>02, <5>2 DEF CatalogTypes, CatalogTypeOK
        <5> QED BY <1>02, <5>1, <5>2
      <4> QED BY <1>02, <1>1, <4>1, <4>2 DEF CatalogTypes, CatalogTypeOK, Shape
    <3> QED BY <3>1, <3>2, Returns DEF PutFails, CatalogTypeOK
  <2>2. (\A b \in Actors, y \in Ids : Normal(view[b][y]))'
    BY Returns DEF PutFails, CatalogTypes
  <2>3. (\A y \in Ids : place[y] # "none" => y \in budget.ids)'
    BY <1>0, <1>1 DEF CatalogTypes, CatalogTypeOK
  <2>4. (\A y \in open : place[y] = "root")'
    BY <1>0, <1>1 DEF Shape, PutFails, CatalogTypes, CatalogTypeOK
  <2> QED BY <2>1, <2>2, <2>3, <2>4 DEF CatalogTypes
<1>4. LocalsHold'
  <2>1. LocalsOf(a)'
    BY <1>0, <1>1 DEF LocalsHold, LocalsOf, Shape, Rests
  <2>2. ASSUME NEW b \in Actors, b # a
        PROVE  LocalsOf(b)'
    BY <1>0, <1>1, <2>2 DEF LocalsHold, LocalsOf, Shape, Same
  <2> QED BY <2>1, <2>2 DEF LocalsHold
<1>5. KnownHold'
  <2>1. ASSUME NEW y \in Ids
        PROVE  KnownOf(Fold(index)[y], y)'
    BY <1>0, <1>02, <1>1, EntriesAre DEF KnownHold, KnownOf, Shape, LocalsHold, LocalsOf, OwedHold
  <2>2. ASSUME NEW y \in Ids
        PROVE  KnownOf(view[a][y], y)'
    BY <1>0, <1>02, <1>1, EntriesAre DEF KnownHold, KnownOf, Shape, Rests
  <2>3. ASSUME NEW b \in Actors, b # a, NEW y \in Ids
        PROVE  KnownOf(view[b][y], y)'
    BY <1>0, <1>02, <1>1, <2>3 DEF KnownHold, KnownOf, Shape, Same
  <2> QED BY <2>1, <2>2, <2>3 DEF KnownHold
<1>6. OwedHold'
  <2>1. (\A b, c \in Actors : task[b] \in Owing /\ task[c] \in Owing /\ id[b] = id[c] => b = c \/ id[b] \in crossed)'
    BY <1>0, <1>02, <1>1 DEF OwedHold, Owed, Owes, Same, Rests
  <2>2. ASSUME NEW b \in Actors
        PROVE  (task[b] = "put" => copy[b] = version[id[b]] \/ id[b] \in crossed)'
    <3>1. CASE b = a
      BY <1>0, <1>02, <1>1, <3>1 DEF OwedHold, LocalsHold, LocalsOf, Shape, Rests
    <3>2. CASE b # a
      BY <1>0, <1>02, <1>1, <3>2 DEF OwedHold, LocalsHold, LocalsOf, Owed, Owes, Shape, Same
    <3> QED BY <3>1, <3>2
  <2> QED BY <2>1, <2>2 DEF OwedHold
<1>7. RebuildHolds'
  <2>1. ASSUME NEW y \in Ids
        PROVE  RebuildHas(a, y)'
    BY <1>0, <1>02, <1>1, <1>2, EntriesAre DEF RebuildHolds, RebuildHas, KnownHold, KnownOf, LocalsHold, LocalsOf, Shape, Rests
  <2>2. ASSUME NEW b \in Actors, b # a, NEW y \in Ids
        PROVE  RebuildHas(b, y)'
    BY <1>0, <1>02, <1>1, <1>2, <2>2 DEF RebuildHolds, RebuildHas, Shape, Same, LocalsHold, LocalsOf, OwedHold
  <2> QED BY <2>1, <2>2 DEF RebuildHolds
<1>8. StaleIsReported'
  BY <1>0, <1>02, <1>1, <1>2, EntriesAre DEF StaleIsReported, KnownHold, KnownOf, Shape, LocalsHold, LocalsOf, OwedHold
<1>9. RemovedHold'
  <2>1. (\A y \in removed : place[y] = "gone")'
    BY <1>0, <1>1 DEF RemovedHold, Shape
  <2>2. (\A b \in Actors : begun[b] \subseteq removed)'
    BY <1>1 DEF RemovedHold, Same, Rests
  <2>3. ListedIsNotRemoved'
    BY <1>0, <1>1 DEF RemovedHold, ListedIsNotRemoved, LocalsHold, LocalsOf, Same, Rests
  <2> QED BY <2>1, <2>2, <2>3 DEF RemovedHold
<1>10. KidsHold'
  <2>1. KidsOf(a)'
    BY <1>0, <1>1 DEF KidsHold, KidsOf, LocalsHold, LocalsOf, Shape, Rests
  <2>2. ASSUME NEW b \in Actors, b # a
        PROVE  KidsOf(b)'
    BY <1>0, <1>1, <2>2 DEF KidsHold, KidsOf, LocalsHold, LocalsOf, Shape, Same
  <2> QED BY <2>1, <2>2 DEF KidsHold
<1>11. HealHolds'
  BY <1>0, <1>02, <1>1 DEF HealHolds, HealHas, Shape, LocalsHold, LocalsOf, Same, Rests
<1> QED BY <1>3, <1>4, <1>5, <1>6, <1>7, <1>8, <1>9, <1>10, <1>11

LEMMA DeletePurgeStep ==
  ASSUME CatalogInv, NEW a \in Actors, DeletePurge(a), UNCHANGED budget
  PROVE  CatalogInv'
<1> USE DEF CatalogInv, folders, file, locals, bounds, histories, Owing, Deleting
<1>0. Shape /\ Nil \notin Ids /\ Nil \notin Actors /\ budget' = budget
  BY CatalogAssumption DEF Shape, CatalogTypes, CatalogTypeOK
<1>1. /\ task[a] = "purge" /\ target[a] \in Ids /\ place[target[a]] \in {"trash", "gone"}
      /\ version' = version /\ index' = index /\ index_synced' = index_synced
      /\ lock' = lock /\ stale' = stale /\ open' = open
      /\ place'[target[a]] = "gone" /\ \A y \in Ids : y # target[a] => place'[y] = place[y]
      /\ removed' = removed \union {target[a]}
      /\ \A b \in Actors : b # a => Same(b)
      /\ missed' = missed /\ crossed' = crossed
  <2>1. \A b \in Actors : b # a => Same(b)
    <3>1. CASE target[a] = id[a]
      BY <3>1, Returns DEF DeletePurge
    <3>2. CASE target[a] # id[a]
      BY <3>2 DEF DeletePurge, Goto, Same, CatalogTypes, CatalogTypeOK
    <3> QED BY <3>1, <3>2
  <2> QED BY <1>0, <2>1 DEF DeletePurge, LocalsHold, LocalsOf, CatalogTypes, CatalogTypeOK
<1>2. \/ Rests(a)
      \/ /\ task'[a] = "delete" /\ target'[a] = Nil /\ id'[a] = id[a] /\ copy'[a] = copy[a]
         /\ kids'[a] = kids[a] /\ todo'[a] = todo[a] /\ view'[a] = view[a] /\ page'[a] = page[a]
         /\ begun'[a] = begun[a]
  <2>1. CASE target[a] = id[a]
    BY <2>1, Returns DEF DeletePurge
  <2>2. CASE target[a] # id[a]
    BY <2>2 DEF DeletePurge, Goto, CatalogTypes, CatalogTypeOK
  <2> QED BY <2>1, <2>2
<1>3. \A y \in Ids : Owed(y) => Owed(y)'
  BY <1>1 DEF Owed, Owes, Same
<1>4. CatalogTypes'
  <2>1. CatalogTypeOK'
    <3>1. CASE target[a] = id[a]
      <4>1. place' \in [Ids -> {"none", "root", "trash", "gone"}] /\ removed' \subseteq Ids
        BY <1>0, <1>1, <3>1 DEF DeletePurge, Shape, CatalogTypes, CatalogTypeOK
      <4>2. Return(a) /\ CatalogTypes
        BY <3>1 DEF DeletePurge
      <4>3. UNCHANGED <<faults, damage, crashes, version>>
        BY DEF DeletePurge
      <4> QED BY <1>0, <1>1, <4>1, <4>2, <4>3, Returns DEF CatalogTypes, CatalogTypeOK
    <3>2. CASE target[a] # id[a]
      <4>1. place' \in [Ids -> {"none", "root", "trash", "gone"}] /\ removed' \subseteq Ids
        BY <1>0, <1>1, <3>2 DEF DeletePurge, Shape, CatalogTypes, CatalogTypeOK
      <4>2. task' \in [Actors -> Steps] /\ target' \in [Actors -> Ids \union {Nil}]
        BY <3>2 DEF DeletePurge, Goto, Steps, CatalogTypes, CatalogTypeOK
      <4> QED BY <1>0, <1>1, <3>2, <4>1, <4>2 DEF DeletePurge, CatalogTypes, CatalogTypeOK
    <3> QED BY <3>1, <3>2
  <2>2. ASSUME NEW b \in Actors, NEW y \in Ids
        PROVE  Normal(view[b][y])'
    <3>1. Normal(view[b][y])
      BY DEF CatalogTypes
    <3> QED BY <1>1, <1>2, <3>1, EntryTypes DEF Same, Rests
  <2>3. (\A y \in Ids : place[y] # "none" => y \in budget.ids)' /\ (\A y \in open : place[y] = "root")'
    BY <1>0, <1>1 DEF CatalogTypes, CatalogTypeOK, Shape
  <2> QED BY <2>1, <2>2, <2>3 DEF CatalogTypes
<1>5. LocalsHold'
  <2>1. LocalsOf(a)'
    BY <1>0, <1>1, <1>2 DEF LocalsHold, LocalsOf, Shape, Rests
  <2>2. ASSUME NEW b \in Actors, b # a
        PROVE  LocalsOf(b)'
    BY <1>0, <1>1, <2>2 DEF LocalsHold, LocalsOf, Shape, Same
  <2> QED BY <2>1, <2>2 DEF LocalsHold
<1>6. KnownHold'
  <2>1. ASSUME NEW y \in Ids
        PROVE  KnownOf(Fold(index)[y], y)'
    BY <1>0, <1>1 DEF KnownHold, KnownOf
  <2>2. ASSUME NEW b \in Actors, NEW y \in Ids
        PROVE  KnownOf(view[b][y], y)'
    BY <1>0, <1>1, <1>2, EntriesAre DEF KnownHold, KnownOf, Same, Rests
  <2> QED BY <2>1, <2>2 DEF KnownHold
<1>7. OwedHold'
  <2>1. ASSUME NEW b \in Actors, task'[b] \in {"summary", "put", "heal"}
        PROVE  Same(b) /\ task[b] = task'[b]
    BY <1>1, <1>2, <2>1 DEF Same, Rests
  <2> QED BY <1>1, <2>1 DEF OwedHold, Same
<1>8. RebuildHolds'
  BY <1>0, <1>1, <1>2, <1>3 DEF RebuildHolds, RebuildHas, Same, Rests
<1>9. StaleIsReported'
  BY <1>0, <1>1, <1>3 DEF StaleIsReported
<1>10. RemovedHold'
  <2>1. (\A y \in removed : place[y] = "gone")'
    BY <1>0, <1>1 DEF RemovedHold, Shape
  <2>2. (\A b \in Actors : begun[b] \subseteq removed)'
    BY <1>1, <1>2 DEF RemovedHold, Same, Rests
  <2>3. ListedIsNotRemoved'
    BY <1>1, <1>2 DEF RemovedHold, ListedIsNotRemoved, Same, Rests
  <2> QED BY <2>1, <2>2, <2>3 DEF RemovedHold
<1>11. KidsHold'
  <2>1. KidsOf(a)'
    BY <1>0, <1>1, <1>2 DEF KidsHold, KidsOf, LocalsHold, LocalsOf, Shape, Rests
  <2>2. ASSUME NEW b \in Actors, b # a
        PROVE  KidsOf(b)'
    BY <1>0, <1>1, <2>2 DEF KidsHold, KidsOf, Shape, Same
  <2> QED BY <2>1, <2>2 DEF KidsHold
<1>12. HealHolds'
  BY <1>0, <1>1, <1>2 DEF HealHolds, HealHas, Shape, LocalsHold, LocalsOf, Same, Rests
<1> QED BY <1>4, <1>5, <1>6, <1>7, <1>8, <1>9, <1>10, <1>11, <1>12

LEMMA DiesStep ==
  ASSUME CatalogInv, NEW x \in budget.ids, Dies(x), UNCHANGED budget
  PROVE  CatalogInv'
<1> USE DEF CatalogInv, file, locals, bounds, histories
<1>1. /\ open' \subseteq open /\ UNCHANGED <<place, version, file, lock, locals, missed, histories, bounds,
                                        budget>>
  BY DEF Dies
<1>2. CatalogTypes' /\ LocalsHold' /\ KnownHold'
  BY <1>1 DEF CatalogTypes, CatalogTypeOK, LocalsHold, LocalsOf, KnownHold, KnownOf
<1>3. OwedHold' /\ HealHolds' /\ RebuildHolds' /\ StaleIsReported'
  BY <1>1 DEF OwedHold, HealHolds, HealHas, RebuildHolds, RebuildHas, StaleIsReported, Owed, Owes
<1>4. RemovedHold' /\ KidsHold'
  BY <1>1 DEF RemovedHold, ListedIsNotRemoved, KidsHold, KidsOf
<1> QED BY <1>2, <1>3, <1>4

LEMMA DamageStep ==
  ASSUME CatalogInv, Damage, UNCHANGED budget
  PROVE  CatalogInv'
<1> USE DEF CatalogInv, folders, locals
<1>1. PICK i \in 1 .. Len(index) : index' = [index EXCEPT ![i].op = "bad"] /\ stale' = stale \union {index[i].id}
  BY DEF Damage
<1>2. /\ UNCHANGED <<folders, index_synced, lock, locals, missed, removed, crossed, faults,
                    crashes, budget>>
      /\ damage' = damage + 1 /\ damage < budget.damage
  BY DEF Damage
<1>3. index \in Seq(Records) /\ index_synced \in 0 .. Len(index) /\ index[i] \in Records
  <2>1. index \in Seq(Records) /\ index_synced \in 0 .. Len(index)
    BY IndexFolds
  <2> QED BY <2>1
<1>4. /\ index' \in Seq(Records) /\ Len(index') = Len(index)
      /\ \A x \in Ids : /\ x # index[i].id => Fold(index')[x] = Fold(index)[x]
                        /\ Fold(index')[x].deleted => Fold(index)[x].deleted
                        /\ Fold(index')[x] # Absent => Fold(index)[x] # Absent
  <2> DEFINE damaged == [index EXCEPT ![i].op = "bad"]
  <2>1. /\ damaged \in Seq(Records) /\ Len(damaged) = Len(index)
        /\ \A x \in Ids : /\ x # index[i].id => Fold(damaged)[x] = Fold(index)[x]
                          /\ Fold(damaged)[x].deleted => Fold(index)[x].deleted
                          /\ Fold(damaged)[x] # Absent => Fold(index)[x] # Absent
    BY <1>3, FoldDamaged
  <2> HIDE DEF damaged
  <2>2. index' = damaged
    BY <1>1 DEF damaged
  <2> QED BY <2>1, <2>2
<1>5. index[i].id \in Ids
  BY <1>3 DEF Records
<1>6. CatalogTypes'
  <2>1. damage' \in 0 .. budget.damage
    BY <1>2, CatalogAssumption DEF CatalogTypes, CatalogTypeOK
  <2> QED BY <1>1, <1>2, <1>3, <1>4, <1>5, <2>1 DEF CatalogTypes, CatalogTypeOK
<1>7. LocalsHold'
  BY <1>2 DEF LocalsHold, LocalsOf
<1>8. KnownHold'
  BY <1>2, <1>4 DEF KnownHold, KnownOf
<1>9. OwedHold' /\ HealHolds'
  BY <1>1, <1>2, <1>4 DEF OwedHold, HealHolds, HealHas
<1>10. RebuildHolds'
  BY <1>1, <1>2, <1>4 DEF RebuildHolds, RebuildHas, Owed, Owes
<1>11. StaleIsReported'
  BY <1>1, <1>2, <1>4 DEF StaleIsReported, Owed, Owes
<1>12. RemovedHold' /\ KidsHold'
  BY <1>2 DEF RemovedHold, ListedIsNotRemoved, KidsHold, KidsOf
<1> QED BY <1>6, <1>7, <1>8, <1>9, <1>10, <1>11, <1>12

LEMMA LosesPowerStep ==
  ASSUME CatalogInv, LosesPower, UNCHANGED budget
  PROVE  CatalogInv'
<1> USE DEF CatalogInv
<1>1. PICK kept \in index_synced .. Len(index) : index' = SubSeq(index, 1, kept) /\ index_synced' = kept
  BY DEF LosesPower
<1>2. index \in Seq(Records) /\ index_synced \in 0 .. Len(index) /\ kept \in 0 .. Len(index)
  <2>1. index \in Seq(Records) /\ index_synced \in 0 .. Len(index)
    BY IndexFolds
  <2> QED BY <2>1
<1>3. /\ index' \in Seq(Records) /\ Len(index') = kept
      /\ \A x \in Ids : /\ Fold(index')[x].deleted => Fold(index)[x].deleted
                        /\ Fold(index')[x] # Absent => Fold(index)[x] # Absent
  BY <1>1, <1>2, FoldPrefix
<1>4. /\ \A a \in Actors : Rests(a)
      /\ lock' = Nil /\ open' = {} /\ stale' = Ids
      /\ UNCHANGED <<place, version, missed, removed, crossed, faults, damage, budget>>
      /\ crashes' = crashes + 1 /\ crashes < budget.crashes
  BY DEF LosesPower, Rests
<1>5. Nil \notin Actors /\ Nil \notin Ids
  BY CatalogAssumption
<1>6. CatalogTypes'
  <2>1. crashes' \in 0 .. budget.crashes
    BY <1>4, CatalogAssumption DEF CatalogTypes, CatalogTypeOK
  <2>2. /\ task' \in [Actors -> Steps] /\ id' \in [Actors -> Ids \union {Nil}] /\ copy' \in [Actors -> Nat]
        /\ kids' \in [Actors -> SUBSET Ids] /\ todo' \in [Actors -> SUBSET Ids]
        /\ target' \in [Actors -> Ids \union {Nil}]
        /\ page' \in [Actors -> SUBSET Ids] /\ begun' \in [Actors -> SUBSET Ids]
    BY DEF LosesPower, Steps
  <2>3. view' \in [Actors -> [Ids -> Entries]]
    BY EntryTypes DEF LosesPower
  <2>4. index_synced' \in 0 .. Len(index')
    BY <1>1, <1>2, <1>3
  <2>5. CatalogTypeOK'
    BY <1>3, <1>4, <2>1, <2>2, <2>3, <2>4 DEF CatalogTypes, CatalogTypeOK
  <2>6. (\A a \in Actors, x \in Ids : Normal(view[a][x]))'
    BY <1>4, EntryTypes DEF Rests
  <2> QED BY <1>4, <2>5, <2>6 DEF CatalogTypes
<1>7. LocalsHold'
  BY <1>4, <1>5 DEF LocalsHold, LocalsOf, Rests, Owing, Deleting
<1>8. KnownHold'
  BY <1>3, <1>4, EntriesAre DEF KnownHold, KnownOf, Rests
<1>9. OwedHold' /\ HealHolds' /\ RebuildHolds'
  BY <1>4 DEF OwedHold, HealHolds, HealHas, RebuildHolds, RebuildHas, Rests, Owing
<1>10. StaleIsReported'
  BY <1>4 DEF StaleIsReported
<1>11. RemovedHold' /\ KidsHold'
  BY <1>4 DEF RemovedHold, ListedIsNotRemoved, KidsHold, KidsOf, Rests
<1> QED BY <1>6, <1>7, <1>8, <1>9, <1>10, <1>11

LEMMA CatalogBegins ==
  ASSUME CatalogInit
  PROVE  CatalogInv
<1> USE DEF CatalogInit
<1>1. Nil \notin Actors /\ Nil \notin Ids
  BY CatalogAssumption
<1>2. <<>> \in Seq(Records) /\ \A x \in Ids : Fold(<<>>)[x] = Absent
  <2>1. <<>> \in Seq(Records)
    OBVIOUS
  <2>2. \A x \in Ids : Says(<<>>, x, Absent)
    BY DEF Says, Unknown
  <2> QED BY <2>1, <2>2, FoldSays
<1>3. CatalogTypes
  <2>1. view \in [Actors -> [Ids -> Entries]] /\ \A a \in Actors, x \in Ids : Normal(view[a][x])
    BY EntryTypes
  <2>2. faults \in 0 .. budget.faults /\ damage \in 0 .. budget.damage /\ crashes \in 0 .. budget.crashes
    BY CatalogAssumption
  <2> QED BY <1>2, <2>1, <2>2 DEF CatalogTypes, CatalogTypeOK, Steps
<1>4. LocalsHold /\ KnownHold
  BY <1>1, <1>2, EntriesAre DEF LocalsHold, LocalsOf, KnownHold, KnownOf, Owing, Deleting
<1>5. OwedHold /\ HealHolds /\ RebuildHolds /\ StaleIsReported
  BY DEF OwedHold, HealHolds, HealHas, RebuildHolds, RebuildHas, StaleIsReported, Owing
<1>6. RemovedHold /\ KidsHold
  BY DEF RemovedHold, ListedIsNotRemoved, KidsHold, KidsOf
<1> QED BY <1>3, <1>4, <1>5, <1>6 DEF CatalogInv

LEMMA CatalogStutters ==
  ASSUME CatalogInv, UNCHANGED catalogVars
  PROVE  CatalogInv'
<1> USE DEF CatalogInv, catalogVars, folders, file, locals, bounds, histories
<1>1. CatalogTypes' /\ LocalsHold' /\ KnownHold'
  BY DEF CatalogTypes, CatalogTypeOK, LocalsHold, LocalsOf, KnownHold, KnownOf
<1>2. OwedHold' /\ HealHolds' /\ RebuildHolds' /\ StaleIsReported'
  BY DEF OwedHold, HealHolds, HealHas, RebuildHolds, RebuildHas, StaleIsReported, Owed, Owes
<1>3. RemovedHold' /\ KidsHold'
  BY DEF RemovedHold, ListedIsNotRemoved, KidsHold, KidsOf
<1> QED BY <1>1, <1>2, <1>3

\* Every step keeps the invariant.
LEMMA CatalogSteps ==
  ASSUME CatalogInv, CatalogNext
  PROVE  CatalogInv'
<1>1. UNCHANGED budget
  BY DEF CatalogNext
<1>2. ASSUME NEW a \in Actors, Uses(a)
      PROVE  CatalogInv'
  BY <1>1, <1>2, PublishStep, ChangeStep, ResumeStep, CloseStep, SummaryStep, PutStep, PutFailsStep DEF Uses
<1>3. ASSUME NEW a \in Actors, Deletes(a)
      PROVE  CatalogInv'
  BY <1>1, <1>3, DeleteStartStep, DeleteTrashStep, DeleteSkipsStep, DeleteRefusedStep, DeleteTombstoneStep,
     DeleteTombstoneFailsStep, DeletePurgeStep, DeleteStopsStep DEF Deletes
<1>4. ASSUME NEW a \in Actors, Lists(a)
      PROVE  CatalogInv'
  BY <1>1, <1>4, LoadStep, LoadHealsStep, ListKeepsStep, ListHealsStep, ListReturnsStep DEF Lists
<1>5. ASSUME NEW a \in Actors, Rebuilds(a)
      PROVE  CatalogInv'
  BY <1>1, <1>5, RebuildStartStep, RebuildReadsStep, RebuildWritesStep, RebuildSweepsStep DEF Rebuilds
<1> QED BY <1>1, <1>2, <1>3, <1>4, <1>5, ActorDiesStep, DiesStep, DamageStep, LosesPowerStep DEF CatalogNext

\* The index, the folders and what every actor has of them agree in every behaviour,
\* whichever writes of the index overlap and cross (catalog.zig, api.zig).
THEOREM CatalogInvariant ==
  CatalogSpec => []CatalogInv
<1>1. CatalogInit => CatalogInv
  BY CatalogBegins
<1>2. CatalogInv /\ [CatalogNext]_catalogVars => CatalogInv'
  BY CatalogSteps, CatalogStutters
<1> QED BY <1>1, <1>2, PTL DEF CatalogSpec

\* Every variable keeps to its type.
THEOREM CatalogTypeCorrect ==
  CatalogSpec => []CatalogTypeOK
<1>1. CatalogInv => CatalogTypeOK
  BY DEF CatalogInv, CatalogTypes
<1> QED BY <1>1, CatalogInvariant, PTL

\* The index shows a visible session as it is, or somebody owes it a record, or it was
\* reported that a write for it failed, or two of its records crossed (api.zig,
\* updateIndexAs; catalog.zig, load).
THEOREM CatalogIsReported ==
  CatalogSpec => []StaleIsReported
<1>1. CatalogInv => StaleIsReported
  BY DEF CatalogInv
<1> QED BY <1>1, CatalogInvariant, PTL

\* A list shows no session whose delete had returned before it began, and a delete takes
\* the children before the session (catalog.zig, healIfGone; api.zig, deleteDepth).
THEOREM CatalogDeletes ==
  CatalogSpec => [](ListedIsNotRemoved /\ ChildrenGoFirst)
<1>1. CatalogInv => ListedIsNotRemoved /\ ChildrenGoFirst
  BY DEF CatalogInv, RemovedHold, KidsHold, KidsOf, ChildrenGoFirst
<1> QED BY <1>1, CatalogInvariant, PTL

\* A write of the index keeps the tombstones, but for damage, lost power and what a heal
\* has missed.
LEMMA TombstonesKept ==
  ASSUME CatalogInv, CatalogNext
  PROVE  TombstoneStays
<1> DEFINE Kept == \A x \in Ids : Fold(index)[x].deleted => Fold(index')[x].deleted
<1>1. CatalogTypes /\ LocalsHold /\ HealHolds /\ RebuildHolds
  BY DEF CatalogInv
<1>2. /\ index \in Seq(Records) /\ index_synced \in 0 .. Len(index)
      /\ Fold(index) \in [Ids -> Entries] /\ \A x \in Ids : Normal(Fold(index)[x])
  BY <1>1, IndexFolds
<1>3. index' = index => Kept
  OBVIOUS
<1>4. ASSUME NEW y \in Ids, NEW v \in Nat, AppendRecord([op |-> "put", id |-> y, version |-> v])
      PROVE  Kept
  <2>1. /\ \A x \in Ids : x # y => Fold(index')[x] = Fold(index)[x]
        /\ Fold(index')[y] = IF Fold(index)[y].deleted THEN Gone ELSE Listing(v)
    BY <1>2, <1>4, PutFolds
  <2> QED BY <2>1, EntriesAre
<1>5. ASSUME NEW y \in Ids, AppendRecord([op |-> "del", id |-> y, version |-> 0])
      PROVE  Kept
  <2>1. /\ \A x \in Ids : x # y => Fold(index')[x] = Fold(index)[x]
        /\ Fold(index')[y] = Gone
    BY <1>2, <1>5, DelFolds
  <2> QED BY <2>1, EntriesAre
<1> HIDE DEF Kept
<1>6. ASSUME NEW a \in Actors, Uses(a)
      PROVE  Kept
  <2>1. ASSUME task[a] = "put"
        PROVE  id[a] \in Ids /\ copy[a] \in Nat
    BY <1>1, <2>1, CatalogAssumption DEF LocalsHold, LocalsOf, Owing, CatalogTypes, CatalogTypeOK
  <2>2. CASE Put(a) \/ PutFails(a)
    BY <1>3, <1>4, <2>1, <2>2 DEF Put, PutFails, PutVersion, file
  <2>3. CASE Summary(a) \/ \E x \in budget.ids : Publish(a, x) \/ Change(a, x) \/ Resume(a, x) \/ Close(a, x)
    BY <1>3, <2>3 DEF Summary, Publish, Change, Resume, Close, Begin, file
  <2> QED BY <1>6, <2>2, <2>3 DEF Uses
<1>7. ASSUME NEW a \in Actors, Deletes(a)
      PROVE  Kept
  <2>1. CASE DeleteTombstone(a)
    BY <1>1, <1>5, <2>1 DEF DeleteTombstone, LocalsHold, LocalsOf
  <2>2. CASE ~DeleteTombstone(a)
    BY <1>3, <1>7, <2>2 DEF Deletes, DeleteStart, DeleteTrash, DeleteSkips, DeleteRefused, DeleteTombstoneFails,
       DeletePurge, DeleteStops, file
  <2> QED BY <2>1, <2>2
<1>8. ASSUME NEW a \in Actors, Lists(a)
      PROVE  Kept \/ \E b \in Actors : LoadHeals(b) /\ TombstonesStay(missed[b])
  <2>1. CASE LoadHeals(a)
    <3>1. view[a] \in [Ids -> Entries] /\ (\A x \in Ids : Normal(view[a][x])) /\ WriteFresh(view[a])
      BY <1>1, <2>1 DEF LoadHeals, CatalogTypes, CatalogTypeOK
    <3>2. \A x \in Ids : Fold(index')[x] = view[a][x]
      BY <3>1, WriteFolds
    <3>3. \A x \in Ids \ missed[a] : Fold(index)[x].deleted => view[a][x].deleted
      BY <1>1, <2>1 DEF LoadHeals, HealHolds, HealHas
    <3>4. TombstonesStay(missed[a])
      BY <3>2, <3>3 DEF TombstonesStay
    <3> QED BY <2>1, <3>4
  <2>2. CASE ListHeals(a)
    BY <1>5, <2>2 DEF ListHeals, Candidates
  <2>3. CASE Load(a) \/ ListKeeps(a) \/ ListReturns(a)
    BY <1>3, <2>3 DEF Load, ListKeeps, ListReturns, file
  <2> QED BY <1>8, <2>1, <2>2, <2>3 DEF Lists
<1>9. ASSUME NEW a \in Actors, Rebuilds(a)
      PROVE  Kept
  <2>1. CASE RebuildWrites(a)
    <3>1. view[a] \in [Ids -> Entries] /\ (\A x \in Ids : Normal(view[a][x])) /\ WriteFresh(view[a])
      BY <1>1, <2>1 DEF RebuildWrites, CatalogTypes, CatalogTypeOK
    <3>2. \A x \in Ids : Fold(index')[x] = view[a][x]
      BY <3>1, WriteFolds
    <3>3. \A x \in Ids : Fold(index)[x].deleted => view[a][x].deleted
      BY <1>1, <2>1 DEF RebuildWrites, RebuildHolds, RebuildHas
    <3> QED BY <3>2, <3>3 DEF Kept
  <2>2. CASE ~RebuildWrites(a)
    BY <1>3, <1>9, <2>2 DEF Rebuilds, RebuildStart, RebuildReads, RebuildSweeps, file
  <2> QED BY <2>1, <2>2
<1>10. ASSUME NEW x \in budget.ids, Dies(x)
       PROVE  Kept
  BY <1>3, <1>10 DEF Dies, file
<1>11. ASSUME NEW a \in Actors, ActorDies(a)
       PROVE  Kept
  BY <1>3, <1>11 DEF ActorDies, file
<1> QED BY <1>6, <1>7, <1>8, <1>9, <1>10, <1>11 DEF CatalogNext, TombstoneStays, TombstonesStay, Kept

\* Nothing takes a tombstone out of the index but damage, lost power and a heal that was
\* read before it: not a put that comes late, not a rewrite or a rebuild, and not a heal
\* that missed no record of the session (catalog.zig, Index.apply, load, writeFresh).
THEOREM CatalogTombstones ==
  CatalogSpec => TombstoneIsFinal
<1>1. CatalogInv /\ [CatalogNext]_catalogVars => [TombstoneStays]_catalogVars
  BY TombstonesKept
<1> QED BY <1>1, CatalogInvariant, PTL DEF CatalogSpec, TombstoneIsFinal

-----------------------------------------------------------------------------
(* The blobs of a session (SessionBlobs), for every set of threads and of  *)
(* bodies and every bound: the order of the storage calls.                 *)

LEMMA Order ==
    /\ Len(StoreOrder) = 3
    /\ \A i \in 1 .. 3 : /\ StoreOrder[i] = "sync" <=> i = 1
                         /\ StoreOrder[i] = "rename" <=> i = 2
                         /\ StoreOrder[i] = "sync_dir" <=> i = 3
<1>1. StoreOrder = <<"sync", "rename", "sync_dir">>
  BY DEF StoreOrder
<1>2. /\ StoreOrder[1] = "sync" /\ StoreOrder[2] = "rename" /\ StoreOrder[3] = "sync_dir"
  BY <1>1
<1>3. \A i \in 1 .. 3 : i = 1 \/ i = 2 \/ i = 3
  OBVIOUS
<1> QED BY <1>1, <1>2, <1>3

\* A call's step is the number of the storage call it makes next.
LEMMA StepsOfStore ==
    ASSUME TypeOK, NEW t \in Threads
    PROVE  /\ pc[t] \in 0 .. 3
           /\ \A op : Step(t, op) =>
                  /\ pc[t] \in 1 .. 3
                  /\ op = StoreOrder[pc[t]]
                  /\ pc' = [pc EXCEPT ![t] = @ + 1]
BY Order DEF TypeOK, Step

-----------------------------------------------------------------------------
(* Type correctness *)

\* What a call keeps: the body it stores, and whether its file was synced.
CallInv == \A t \in Threads :
    /\ pc[t] = 0 => hash[t] = None
    /\ pc[t] > 0 => hash[t] \in Hashes
    /\ pc[t] > 1 => synced[t]

IInv == TypeOK /\ CallInv

LEMMA Prefix ==
    ASSUME NEW S, NEW s \in Seq(S), NEW n \in 0 .. Len(s)
    PROVE  /\ SubSeq(s, 1, n) \in Seq(S)
           /\ Len(SubSeq(s, 1, n)) = n
           /\ \A i \in 1 .. n : SubSeq(s, 1, n)[i] = s[i]
OBVIOUS

LEMMA FinishTypes ==
    ASSUME IInv, NEW t \in Threads, NEW result \in SUBSET Hashes, Finish(t, result)
    PROVE  /\ pc' \in [Threads -> 0 .. 3]
           /\ hash' \in [Threads -> Hashes \union {None}]
           /\ from' \in [Threads -> {"none", "bytes", "file"}]
           /\ synced' \in [Threads -> BOOLEAN]
           /\ returned' \subseteq Hashes
           /\ CallInv'
<1>1. /\ pc' \in [Threads -> 0 .. 3]
      /\ hash' \in [Threads -> Hashes \union {None}]
      /\ from' \in [Threads -> {"none", "bytes", "file"}]
      /\ synced' \in [Threads -> BOOLEAN]
      /\ returned' \subseteq Hashes
  BY Order DEF IInv, TypeOK, Finish
<1>2. ASSUME NEW u \in Threads
      PROVE  /\ u # t => pc'[u] = pc[u] /\ hash'[u] = hash[u] /\ synced'[u] = synced[u]
             /\ u = t => pc'[u] = 0 /\ hash'[u] = None
  BY DEF IInv, TypeOK, Finish
<1>3. CallInv'
  BY <1>2 DEF IInv, CallInv
<1> QED BY <1>1, <1>3

LEMMA StepTypes ==
    ASSUME IInv, NEW t \in Threads, NEW op \in {"sync", "rename"}, Step(t, op)
    PROVE  /\ pc' \in [Threads -> 0 .. 3]
           /\ hash' = hash
           /\ pc[t] < 3 /\ pc'[t] = pc[t] + 1
           /\ \A u \in Threads : u # t => pc'[u] = pc[u]
BY Order DEF IInv, TypeOK, Step

\* The types and what each call keeps are inductive together.
LEMMA TypesInductive == IInv /\ [Next]_vars => IInv'
<1> SUFFICES ASSUME IInv, [Next]_vars PROVE IInv'
  OBVIOUS
<1> USE Order
<1>1. ASSUME NEW t \in Threads, NEW h \in Hashes, StoreKnown(t, h) PROVE IInv'
  BY <1>1 DEF IInv, CallInv, TypeOK, StoreKnown, FoundNamed, blobs, lines, stores, forking
<1>2. ASSUME NEW t \in Threads, NEW h \in Hashes, NEW source \in {"bytes", "file"},
             StoreStart(t, h, source)
      PROVE  IInv'
  <2>1. TypeOK'
    BY <1>2 DEF IInv, TypeOK, StoreStart, blobs, lines, forking, past
  <2>2. CallInv'
    BY <1>2 DEF IInv, CallInv, TypeOK, StoreStart
  <2> QED BY <2>1, <2>2 DEF IInv
<1>4. ASSUME NEW t \in Threads, StoreSync(t) PROVE IInv'
  <2>1. Step(t, "sync")
    BY <1>4 DEF StoreSync
  <2>2. pc[t] = 1
    BY <2>1, StepsOfStore DEF IInv
  <2>3. /\ content' \in [Hashes -> {"none", "unsynced", "whole"}]
        /\ synced' \in [Threads -> BOOLEAN]
    BY <1>4 DEF IInv, TypeOK, StoreSync
  <2>4. TypeOK'
    BY <1>4, <2>1, <2>3, StepTypes DEF IInv, TypeOK, StoreSync, Step, lines, forking, past
  <2>5. synced'[t] /\ \A u \in Threads : u # t => synced'[u] = synced[u]
    BY <1>4 DEF IInv, TypeOK, StoreSync
  <2>6. CallInv'
    BY <2>1, <2>2, <2>5, StepTypes DEF IInv, CallInv
  <2> QED BY <2>4, <2>6 DEF IInv
<1>5. ASSUME NEW t \in Threads, StoreFileKnown(t) PROVE IInv'
  <2>1. hash[t] \in Hashes
    BY <1>5 DEF IInv, CallInv, StoreFileKnown
  <2>2. hasty' \subseteq Hashes
    BY <1>5, <2>1 DEF StoreFileKnown, FoundNamed, IInv, TypeOK
  <2> QED BY <1>5, <2>1, <2>2, FinishTypes DEF IInv, TypeOK, StoreFileKnown, blobs, lines, forking
<1>6. ASSUME NEW t \in Threads, StoreRename(t) PROVE IInv'
  <2>1. Step(t, "rename")
    BY <1>6 DEF StoreRename
  <2>2. pc[t] = 2
    BY <2>1, StepsOfStore DEF IInv
  <2>3. content' \in [Hashes -> {"none", "unsynced", "whole"}]
    BY <1>6 DEF IInv, TypeOK, StoreRename
  <2>4. TypeOK'
    BY <1>6, <2>1, <2>3, StepTypes DEF IInv, TypeOK, StoreRename, Step, lines, forking, past
  <2>5. CallInv'
    BY <1>6, <2>1, <2>2, StepTypes DEF IInv, CallInv, StoreRename
  <2> QED BY <2>4, <2>5 DEF IInv
<1>7. ASSUME NEW t \in Threads, StoreSyncDir(t) PROVE IInv'
  <2>1. hash[t] \in Hashes
    BY <1>7 DEF IInv, CallInv, StoreSyncDir
  <2>2. durable' \subseteq Hashes /\ hasty' \subseteq Hashes
    BY <1>7 DEF IInv, TypeOK, StoreSyncDir
  <2> QED BY <1>7, <2>1, <2>2, FinishTypes DEF IInv, TypeOK, StoreSyncDir, lines, forking
<1>8. ASSUME NEW t \in Threads, StoreFails(t) PROVE IInv'
  BY <1>8, FinishTypes DEF IInv, TypeOK, StoreFails, blobs, lines, forking, past
<1>9. ASSUME NEW h \in Hashes, AppendRef(h) PROVE IInv'
  BY <1>9 DEF IInv, CallInv, TypeOK, AppendRef, blobs, stores, forking, past
<1>10. CASE SyncLog
  BY <1>10 DEF IInv, CallInv, TypeOK, SyncLog, Through, blobs, stores, forking, past
<1>11. CASE SourceDeleted
  <2>1. TypeOK'
    BY <1>11 DEF IInv, TypeOK, SourceDeleted, blobs, stores, forking, past
  <2> QED BY <1>11, <2>1 DEF IInv, CallInv, SourceDeleted, stores
<1>12. CASE ForkRead
  <2>1. PICK n \in 0 .. Len(log) : fork_refs' = {log[i] : i \in 1 .. n}
    BY <1>12 DEF ForkRead
  <2>2. fork_refs' \subseteq Hashes
    BY <2>1 DEF IInv, TypeOK
  <2> QED BY <1>12, <2>2 DEF IInv, CallInv, TypeOK, ForkRead, blobs, lines, stores, past
<1>13. CASE ForkLink
  BY <1>13 DEF IInv, CallInv, TypeOK, ForkLink, Links, blobs, lines, stores, past
<1>14. CASE ForkPublish
  BY <1>14 DEF IInv, CallInv, TypeOK, ForkPublish, blobs, lines, stores, past
<1>15. CASE ForkFails
  BY <1>15 DEF IInv, CallInv, TypeOK, ForkFails, NoFork, blobs, lines, stores
<1>16. ASSUME NEW h \in Hashes, PurgeBlob(h) PROVE IInv'
  <2>1. content' \in [Hashes -> {"none", "unsynced", "whole"}] /\ durable' \subseteq Hashes
    BY <1>16 DEF PurgeBlob, IInv, TypeOK
  <2>2. purged' \subseteq Hashes
    BY <1>16 DEF PurgeBlob, IInv, TypeOK
  <2> QED BY <1>16, <2>1, <2>2 DEF IInv, CallInv, TypeOK, PurgeBlob, lines, stores, forking
<1>17. ASSUME LoseCalls
       PROVE  /\ pc' \in [Threads -> 0 .. 3]
              /\ hash' \in [Threads -> Hashes \union {None}]
              /\ from' \in [Threads -> {"none", "bytes", "file"}]
              /\ synced' \in [Threads -> BOOLEAN]
              /\ returned' \subseteq Hashes
              /\ fork' \in {"none", "read", "linked", "published"}
              /\ fork_refs' \subseteq Hashes /\ fork_blobs' \subseteq Hashes
              /\ hasty' \subseteq Hashes /\ purged' \subseteq Hashes
              /\ CallInv'
  <2>1. pc' = [t \in Threads |-> 0] /\ hash' = [t \in Threads |-> None]
    BY <1>17 DEF LoseCalls
  <2>2. from' = [t \in Threads |-> "none"] /\ synced' = [t \in Threads |-> FALSE]
    BY <1>17 DEF LoseCalls
  <2>3. CallInv'
    BY <2>1 DEF CallInv
  <2>4. pc' \in [Threads -> 0 .. 3] /\ hash' \in [Threads -> Hashes \union {None}]
    BY <2>1
  <2>5. from' \in [Threads -> {"none", "bytes", "file"}] /\ synced' \in [Threads -> BOOLEAN]
    BY <2>2
  <2>6. /\ returned' \subseteq Hashes /\ fork' \in {"none", "read", "linked", "published"}
        /\ fork_refs' \subseteq Hashes /\ fork_blobs' \subseteq Hashes
        /\ hasty' \subseteq Hashes /\ purged' \subseteq Hashes
    BY <1>17 DEF LoseCalls, NoFork, IInv, TypeOK, forking
  <2> QED BY <2>3, <2>4, <2>5, <2>6
<1>18. CASE ProcessCrash
  BY <1>17, <1>18 DEF IInv, TypeOK, ProcessCrash, blobs, lines
<1>19. CASE MachineCrash
  <2>1. /\ content' \in [Hashes -> {"none", "unsynced", "whole"}]
        /\ durable' \subseteq Hashes
    BY <1>19 DEF MachineCrash
  <2>2. log' \in Seq(Hashes) /\ stable' \in 0 .. Len(log') /\ gone' \in BOOLEAN
    <3>1. log \in Seq(Hashes) /\ stable \in 0 .. Len(log)
      BY DEF IInv, TypeOK
    <3>2. stable' \in stable .. Len(log) /\ log' = SubSeq(log, 1, stable')
      BY <1>19 DEF MachineCrash
    <3>3. stable' \in 0 .. Len(log)
      BY <3>1, <3>2
    <3>4. log' \in Seq(Hashes) /\ Len(log') = stable'
      BY <3>1, <3>2, <3>3, Prefix
    <3>5. gone' \in BOOLEAN
      BY <1>19 DEF MachineCrash, IInv, TypeOK
    <3> QED BY <3>3, <3>4, <3>5
  <2> QED BY <1>17, <1>19, <2>1, <2>2 DEF IInv, TypeOK, MachineCrash
<1>20. CASE UNCHANGED vars
  BY <1>20 DEF IInv, CallInv, TypeOK, vars, blobs, lines, stores, forking, past
<1> QED BY <1>1, <1>2, <1>4, <1>5, <1>6, <1>7, <1>8, <1>9, <1>10, <1>11, <1>12, <1>13,
           <1>14, <1>15, <1>16, <1>18, <1>19, <1>20 DEF Next, StoreBlob

LEMMA Initially == Init => IInv
<1> SUFFICES ASSUME Init PROVE IInv
  OBVIOUS
<1>1. pc \in [Threads -> 0 .. 3] /\ hash \in [Threads -> Hashes \union {None}]
  BY DEF Init
<1>2. from \in [Threads -> {"none", "bytes", "file"}] /\ synced \in [Threads -> BOOLEAN]
  BY DEF Init
<1>3. content \in [Hashes -> {"none", "unsynced", "whole"}]
  BY DEF Init
<1>4. log \in Seq(Hashes) /\ stable \in 0 .. Len(log)
  BY DEF Init
<1>5. /\ durable \subseteq Hashes /\ returned \subseteq Hashes /\ fork_blobs \subseteq Hashes
      /\ fork_refs \subseteq Hashes /\ hasty \subseteq Hashes /\ purged \subseteq Hashes
      /\ gone \in BOOLEAN /\ fork \in {"none", "read", "linked", "published"}
  BY DEF Init
<1>6. CallInv
  BY DEF Init, CallInv
<1> QED BY <1>1, <1>2, <1>3, <1>4, <1>5, <1>6, Order DEF IInv, TypeOK

\* Every variable keeps its type, and a log is never counted as synced beyond its
\* end.
THEOREM TypeCorrect == Spec => []TypeOK
<1>1. IInv => TypeOK
  BY DEF IInv
<1> QED BY <1>1, Initially, TypesInductive, PTL DEF Spec

-----------------------------------------------------------------------------
(* A name is never given to bytes that could be lost under it. *)

LEMMA WholeInductive == IInv /\ NamedIsWhole /\ [Next]_vars => NamedIsWhole'
<1> SUFFICES ASSUME IInv, NamedIsWhole, [Next]_vars PROVE NamedIsWhole'
  OBVIOUS
<1>1. ASSUME UNCHANGED content PROVE NamedIsWhole'
  BY <1>1 DEF NamedIsWhole
<1>2. ASSUME NEW t \in Threads, StoreSync(t) PROVE NamedIsWhole'
  <2>1. \A h \in Hashes : content'[h] = content[h] \/ content'[h] = "whole"
    BY <1>2 DEF StoreSync, IInv, TypeOK
  <2> QED BY <2>1 DEF NamedIsWhole
<1>3. ASSUME NEW t \in Threads, StoreRename(t) PROVE NamedIsWhole'
  <2>1. pc[t] = 2
    BY <1>3, StepsOfStore, Order DEF StoreRename, IInv
  <2>2. synced[t]
    <3>1. pc[t] > 1
      BY <2>1
    <3> QED BY <3>1, Zenon DEF IInv, CallInv
  <2>3. \A h \in Hashes : content'[h] = content[h] \/ content'[h] = "whole"
    BY <1>3, <2>2 DEF StoreRename, IInv, TypeOK
  <2> QED BY <2>3 DEF NamedIsWhole
<1>4. CASE MachineCrash
  <2>1. \A h \in Hashes : content'[h] = "whole" \/ content'[h] = "none"
    BY <1>4 DEF MachineCrash
  <2> QED BY <2>1 DEF NamedIsWhole
<1>5. ASSUME NEW h \in Hashes, PurgeBlob(h) PROVE NamedIsWhole'
  BY <1>5 DEF PurgeBlob, NamedIsWhole, IInv, TypeOK
<1> QED
  BY <1>1, <1>2, <1>3, <1>4, <1>5 DEF Next, StoreBlob, StoreKnown, StoreStart,
     StoreFileKnown, StoreSyncDir, StoreFails, AppendRef, SyncLog, SourceDeleted, ForkRead,
     ForkLink, ForkPublish, ForkFails, ProcessCrash, vars, blobs

\* storeBlob syncs the file before it renames it: whoever finds a name has a whole
\* body behind it, whatever fails or crashes.
THEOREM NamesAreWhole == Spec => []NamedIsWhole
<1>1. Init => NamedIsWhole
  BY DEF Init, NamedIsWhole
<1> QED BY <1>1, Initially, TypesInductive, WholeInductive, PTL DEF Spec

-----------------------------------------------------------------------------
(* No line outlives the body it refers to. *)

\* What is durable is named; and as long as the session is there, a name just given
\* stays, and what a store has returned, and with it what a line refers to, is durable,
\* or came from a stat whose name no sync of the folder has covered since.
DurInv ==
    /\ \A h \in durable : Named(h)
    /\ ~gone => /\ \A t \in Threads : pc[t] = 3 => Named(hash[t])
                /\ \A h \in returned : h \in durable \/ h \in hasty
                /\ \A i \in 1 .. Len(log) : log[i] \in durable \/ log[i] \in hasty

\* Steps that leave the lines alone and lose no name, and account for what they return.
LEMMA DurKept ==
    ASSUME DurInv, gone' = gone, log' = log,
           \A h \in durable' : Named(h)',
           \A t \in Threads : pc'[t] = 3 =>
               content'[hash'[t]] # "none" \/ (pc[t] = 3 /\ hash'[t] = hash[t]),
           \A h \in Hashes : Named(h) => Named(h)',
           \A t \in Threads : pc[t] = 3 => hash[t] \in Hashes,
           \A h : h \in durable \/ h \in hasty => h \in durable' \/ h \in hasty',
           \A h \in returned' : h \in returned \/ h \in durable' \/ h \in hasty'
    PROVE  DurInv'
<1>1. \A h \in durable' : Named(h)'
  OBVIOUS
<1> SUFFICES ASSUME ~gone
             PROVE  /\ \A t \in Threads : pc'[t] = 3 => content'[hash'[t]] # "none"
                    /\ \A h \in returned' : h \in durable' \/ h \in hasty'
                    /\ \A i \in 1 .. Len(log) : log[i] \in durable' \/ log[i] \in hasty'
  BY <1>1 DEF DurInv, Named
<1>2. ASSUME NEW t \in Threads, pc'[t] = 3 PROVE content'[hash'[t]] # "none"
  BY <1>2 DEF DurInv, Named
<1>3. \A h \in returned' : h \in durable' \/ h \in hasty'
  BY DEF DurInv
<1>4. \A i \in 1 .. Len(log) : log[i] \in durable' \/ log[i] \in hasty'
  BY DEF DurInv
<1> QED BY <1>2, <1>3, <1>4

\* The same, when no call takes a step but those that end.
LEMMA DurStays ==
    ASSUME IInv, DurInv, UNCHANGED <<content, gone, log>>,
           \A t \in Threads : pc'[t] = 3 => pc[t] = 3 /\ hash'[t] = hash[t],
           \A h \in durable' : Named(h),
           \A h : h \in durable \/ h \in hasty => h \in durable' \/ h \in hasty',
           \A h \in returned' : h \in returned \/ h \in durable' \/ h \in hasty'
    PROVE  DurInv'
<1>1. \A t \in Threads : pc[t] = 3 => hash[t] \in Hashes
  BY DEF IInv, CallInv
<1>2. \A h : Named(h)' <=> Named(h)
  BY DEF Named
<1> QED BY <1>1, <1>2, DurKept

LEMMA DurInductive ==
    ASSUME IInv, NamedIsWhole, DurInv, [Next]_vars
    PROVE  DurInv'
<1> DEFINE NoneArrives == \A t \in Threads : pc'[t] = 3 => pc[t] = 3 /\ hash'[t] = hash[t]
<1>1. ASSUME NEW h \in Hashes, FoundNamed(h), UNCHANGED <<blobs, lines>>, NoneArrives,
             returned' = returned \union {h}
      PROVE  DurInv'
  <2>1. /\ UNCHANGED <<content, durable, gone, log>> /\ hasty' = hasty \union ({h} \ durable)
    BY <1>1 DEF FoundNamed, blobs, lines
  <2>2. \A k \in durable' : Named(k)
    BY <2>1 DEF DurInv
  <2>3. \A k : k \in durable \/ k \in hasty => k \in durable' \/ k \in hasty'
    BY <2>1
  <2>4. \A k \in returned' : k \in returned \/ k \in durable' \/ k \in hasty'
    BY <1>1, <2>1
  <2> QED BY <1>1, <2>1, <2>2, <2>3, <2>4, DurStays
<1>2. ASSUME NEW t \in Threads, NEW h \in Hashes, StoreKnown(t, h) PROVE DurInv'
  <2>1. NoneArrives
    BY <1>2 DEF StoreKnown, stores
  <2> QED BY <1>1, <1>2, <2>1 DEF StoreKnown
<1>3. ASSUME NEW t \in Threads, NEW result, Finish(t, result) PROVE NoneArrives
  BY <1>3 DEF Finish, IInv, TypeOK
<1>4. ASSUME NEW t \in Threads, StoreFileKnown(t) PROVE DurInv'
  <2>1. hash[t] \in Hashes
    BY <1>4 DEF IInv, CallInv, StoreFileKnown
  <2>2. FoundNamed(hash[t]) /\ Finish(t, {hash[t]}) /\ UNCHANGED <<blobs, lines>>
    BY <1>4 DEF StoreFileKnown
  <2>3. returned' = returned \union {hash[t]}
    BY <2>2 DEF Finish
  <2> QED BY <1>1, <1>3, <2>1, <2>2, <2>3
<1>5. ASSUME NEW t \in Threads, StoreSync(t) PROVE DurInv'
  <2>1. content' = content
    BY <1>5 DEF StoreSync, NamedIsWhole, IInv, TypeOK
  <2>2. UNCHANGED <<durable, gone, log, returned, hasty>> /\ Step(t, "sync")
    BY <1>5 DEF StoreSync, Step, lines, past
  <2>3. pc[t] = 1
    BY <2>2, StepsOfStore, Order DEF IInv
  <2>4. NoneArrives
    BY <2>2, <2>3, StepTypes
  <2> QED BY <2>1, <2>2, <2>4, DurStays DEF DurInv
<1>6. ASSUME NEW t \in Threads, StoreRename(t) PROVE DurInv'
  <2>1. UNCHANGED <<durable, gone, log, returned, hasty, hash>> /\ Step(t, "rename")
    BY <1>6 DEF StoreRename, Step, lines, past
  <2>2. pc[t] = 2 /\ \A u \in Threads : u # t => pc'[u] = pc[u]
    BY <2>1, StepsOfStore, StepTypes, Order DEF IInv
  <2>3. hash[t] \in Hashes /\ \A u \in Threads : pc[u] = 3 => hash[u] \in Hashes
    BY <2>2 DEF IInv, CallInv
  <2>4. \A h \in Hashes : content'[h] = content[h] \/ content'[h] # "none"
    BY <1>6 DEF StoreRename, IInv, TypeOK
  <2>5. content'[hash[t]] # "none"
    BY <1>6, <2>3 DEF StoreRename, IInv, TypeOK
  <2>6. \A h \in Hashes : Named(h) => Named(h)'
    BY <2>4 DEF Named
  <2>7. \A h \in durable' : Named(h)'
    BY <2>1, <2>6 DEF DurInv, IInv, TypeOK
  <2>8. \A u \in Threads : pc'[u] = 3 =>
            content'[hash'[u]] # "none" \/ (pc[u] = 3 /\ hash'[u] = hash[u])
    BY <2>1, <2>2, <2>5
  <2> QED BY <2>1, <2>3, <2>6, <2>7, <2>8, DurKept
<1>7. ASSUME NEW t \in Threads, StoreSyncDir(t) PROVE DurInv'
  <2>1. /\ content' = content /\ log' = log /\ gone' = gone
        /\ durable' = durable \union {h \in Hashes : Named(h)}
        /\ hasty' = {h \in hasty : ~Named(h)}
        /\ returned' = returned \union {hash[t]}
        /\ Finish(t, {hash[t]})
    BY <1>7 DEF StoreSyncDir, Finish, lines
  <2>2. pc[t] = 3
    BY <1>7, Order DEF StoreSyncDir, IInv, TypeOK
  <2>3. hash[t] \in Hashes
    BY <2>2 DEF IInv, CallInv
  <2>4. \A h \in durable' : Named(h)
    BY <2>1 DEF DurInv
  <2>5. \A h : h \in durable \/ h \in hasty => h \in durable' \/ h \in hasty'
    BY <2>1 DEF IInv, TypeOK
  <2>6. CASE ~gone
    <3>1. Named(hash[t])
      BY <2>2, <2>6 DEF DurInv
    <3>2. \A h \in returned' : h \in returned \/ h \in durable' \/ h \in hasty'
      BY <2>1, <2>3, <3>1
    <3> QED BY <1>3, <2>1, <2>4, <2>5, <3>2, DurStays
  <2>7. CASE gone
    BY <2>1, <2>4, <2>7 DEF DurInv, Named
  <2> QED BY <2>6, <2>7
<1>8. ASSUME NEW t \in Threads, StoreFails(t) PROVE DurInv'
  <2>1. UNCHANGED <<content, durable, gone, log, hasty>> /\ Finish(t, {})
    BY <1>8 DEF StoreFails, blobs, lines, past
  <2>2. returned' = returned
    BY <2>1 DEF Finish
  <2> QED BY <1>3, <2>1, <2>2, DurStays DEF DurInv
<1>9. ASSUME NEW t \in Threads, NEW h \in Hashes, NEW source, StoreStart(t, h, source)
      PROVE  DurInv'
  <2>1. UNCHANGED <<content, durable, gone, log, hasty, returned>>
    BY <1>9 DEF StoreStart, blobs, lines, past
  <2>2. NoneArrives
    BY <1>9 DEF StoreStart, IInv, TypeOK
  <2> QED BY <2>1, <2>2, DurStays DEF DurInv
<1>10. ASSUME NEW h \in Hashes, AppendRef(h) PROVE DurInv'
  <2>1. ~gone /\ h \in returned /\ log' = Append(log, h)
        /\ UNCHANGED <<content, durable, gone, pc, hash, returned, hasty>>
    BY <1>10 DEF AppendRef, Known, blobs, stores, past
  <2>2. h \in durable \/ h \in hasty
    BY <2>1 DEF DurInv
  <2>3. \A i \in 1 .. Len(log') : log'[i] \in durable \/ log'[i] \in hasty
    BY <2>1, <2>2 DEF DurInv, IInv, TypeOK
  <2> QED BY <2>1, <2>3 DEF DurInv, Named
<1>11. CASE MachineCrash
  <2>1. PICK kept \in SUBSET {h \in Hashes : Named(h)} :
            /\ durable \subseteq kept
            /\ content' = [h \in Hashes |->
                               IF h \in kept /\ content[h] = "whole" THEN "whole" ELSE "none"]
            /\ durable' = {h \in kept : content[h] = "whole"}
    BY <1>11 DEF MachineCrash
  <2>2. durable \subseteq durable'
    BY <2>1 DEF Named, NamedIsWhole, IInv, TypeOK
  <2>3. \A h \in durable' : Named(h)'
    BY <2>1 DEF Named
  <2>4. returned' = {} /\ hasty' = hasty /\ gone' = gone /\ \A t \in Threads : pc'[t] = 0
    BY <1>11 DEF MachineCrash, LoseCalls
  <2>5. ASSUME ~gone
        PROVE  \A i \in 1 .. Len(log') : log'[i] \in durable \/ log'[i] \in hasty
    <3>1. stable' \in 0 .. Len(log) /\ log' = SubSeq(log, 1, stable') /\ log \in Seq(Hashes)
      BY <1>11 DEF MachineCrash, IInv, TypeOK
    <3>2. Len(log') = stable' /\ \A i \in 1 .. stable' : log'[i] = log[i]
      BY <3>1, Prefix
    <3>3. \A i \in 1 .. stable' : i \in 1 .. Len(log)
      BY <3>1
    <3> QED BY <2>5, <3>2, <3>3 DEF DurInv
  <2> QED BY <2>2, <2>3, <2>4, <2>5 DEF DurInv
<1>12. CASE ProcessCrash
  <2>1. /\ UNCHANGED <<content, durable, gone, log, hasty>> /\ returned' = {}
        /\ \A t \in Threads : pc'[t] = 0
    BY <1>12 DEF ProcessCrash, LoseCalls, blobs, lines
  <2> QED BY <2>1, DurStays DEF DurInv
<1>13. CASE SourceDeleted
  <2>1. gone' /\ UNCHANGED <<content, durable>>
    BY <1>13 DEF SourceDeleted, blobs
  <2> QED BY <2>1 DEF DurInv, Named
<1>14. ASSUME NEW h \in Hashes, PurgeBlob(h) PROVE DurInv'
  <2>1. gone' /\ durable' = durable \ {h}
    BY <1>14 DEF PurgeBlob, lines
  <2>2. \A k \in Hashes \ {h} : Named(k)' <=> Named(k)
    BY <1>14 DEF PurgeBlob, Named, IInv, TypeOK
  <2> QED BY <2>1, <2>2 DEF DurInv, IInv, TypeOK
<1>15. CASE SyncLog \/ ForkRead \/ ForkLink \/ ForkPublish \/ ForkFails \/ UNCHANGED vars
  <2>1. UNCHANGED <<content, durable, gone, log, returned, hasty, pc, hash>>
    BY <1>15 DEF SyncLog, ForkRead, ForkLink, ForkPublish, ForkFails, vars, blobs, lines,
       stores, past
  <2> QED BY <2>1, DurStays DEF DurInv
<1> QED BY <1>2, <1>4, <1>5, <1>6, <1>7, <1>8, <1>9, <1>10, <1>11, <1>12, <1>13, <1>14,
           <1>15 DEF Next, StoreBlob

LEMMA DurInitially == Init => DurInv
<1> SUFFICES ASSUME Init PROVE DurInv
  OBVIOUS
<1>1. durable = {} /\ returned = {} /\ Len(log) = 0 /\ \A t \in Threads : pc[t] = 0
  BY DEF Init
<1> QED BY <1>1 DEF DurInv

\* A line refers only to what storeBlob returned (checkBlobRefs), and storeBlob returns
\* after a sync of the folder or after a stat: wherever a store fails or dies and whoever
\* else stores the body, a durable line's body is durable under its name, except the
\* body of a stat that no sync of the folder has followed.
THEOREM ReferencesSurvive == Spec => []RefsSurvive
<1>1. IInv /\ NamedIsWhole /\ DurInv /\ [Next]_vars => DurInv'
  BY DurInductive
<1>2. IInv /\ NamedIsWhole /\ DurInv => RefsSurvive
  BY DEF IInv, TypeOK, NamedIsWhole, Named, DurInv, RefsSurvive
<1>3. Init => NamedIsWhole
  BY DEF Init, NamedIsWhole
<1> QED
  BY <1>1, <1>2, <1>3, Initially, DurInitially, TypesInductive, WholeInductive, PTL
  DEF Spec

-----------------------------------------------------------------------------
(* A fork has every body its lines refer to. *)

\* Until the blobs are linked, what the lines refer to is in the source's folder, or a
\* purge took it; from then on the fork has it.
ForkInv ==
    /\ fork = "read" => \A h \in fork_refs : Named(h) \/ h \in purged
    /\ fork \in {"linked", "published"} => fork_refs \subseteq fork_blobs \union purged

\* As long as nothing is purged and the machine runs, a name stays.
LEMMA NamesGrow ==
    ASSUME IInv, [Next]_vars, ~MachineCrash, \A h \in Hashes : ~PurgeBlob(h)
    PROVE  \A h \in Hashes : Named(h) => Named(h)'
<1>1. ASSUME NEW t \in Threads, StoreSync(t) \/ StoreRename(t)
      PROVE  \A h \in Hashes : Named(h) => Named(h)'
  BY <1>1 DEF StoreSync, StoreRename, Named, IInv, TypeOK
<1>2. ASSUME UNCHANGED content PROVE \A h \in Hashes : Named(h) => Named(h)'
  BY <1>2 DEF Named
<1> QED
  BY <1>1, <1>2 DEF Next, StoreBlob, StoreKnown, StoreStart, StoreFileKnown, StoreSyncDir,
     StoreFails, AppendRef, SyncLog, SourceDeleted, ForkRead, ForkLink, ForkPublish,
     ForkFails, ProcessCrash, vars, blobs

LEMMA ForkInductive ==
    ASSUME IInv, ForkInv, [Next]_vars
    PROVE  ForkInv'
<1>1. CASE UNCHANGED <<forking, purged>> /\ ~MachineCrash /\ \A h \in Hashes : ~PurgeBlob(h)
  BY <1>1, NamesGrow DEF ForkInv, forking, IInv, TypeOK
<1>2. ASSUME NEW h \in Hashes, PurgeBlob(h) PROVE ForkInv'
  <2>1. UNCHANGED <<fork, fork_refs, fork_blobs>>
    BY <1>2 DEF PurgeBlob, forking
  <2>2. CASE fork = "read"
    <3>1. purged' = purged \union ({h} \cap fork_refs)
      BY <1>2, <2>2 DEF PurgeBlob
    <3>2. \A k \in Hashes \ {h} : Named(k)' <=> Named(k)
      BY <1>2 DEF PurgeBlob, Named, IInv, TypeOK
    <3> QED BY <2>1, <2>2, <3>1, <3>2 DEF ForkInv, IInv, TypeOK
  <2>3. CASE fork # "read"
    BY <1>2, <2>1, <2>3 DEF PurgeBlob, ForkInv
  <2> QED BY <2>2, <2>3
<1>3. CASE ForkRead
  <2>1. PICK n \in 0 .. Len(log) : /\ \A i \in 1 .. n : content[log[i]] = "whole"
                                   /\ fork_refs' = {log[i] : i \in 1 .. n}
    BY <1>3 DEF ForkRead
  <2>2. \A h \in fork_refs' : Named(h)'
    BY <1>3, <2>1 DEF ForkRead, Named, blobs
  <2>3. fork' = "read"
    BY <1>3 DEF ForkRead
  <2> QED BY <2>2, <2>3 DEF ForkInv
<1>4. CASE ForkLink
  <2>1. fork = "read" /\ fork' = "linked" /\ fork_blobs' = {h \in Hashes : Named(h)}
        /\ fork_refs' = fork_refs /\ purged' = purged
    BY <1>4 DEF ForkLink, Links, past
  <2> QED BY <2>1 DEF ForkInv, IInv, TypeOK
<1>5. CASE ForkPublish
  BY <1>5 DEF ForkPublish, ForkInv, past
<1>6. ASSUME NoFork PROVE ForkInv'
  BY <1>6 DEF NoFork, ForkInv
<1>7. CASE ProcessCrash \/ MachineCrash
  <2>1. LoseCalls
    BY <1>7 DEF ProcessCrash, MachineCrash
  <2>2. CASE fork = "published"
    BY <2>1, <2>2 DEF LoseCalls, forking, ForkInv
  <2> QED BY <1>6, <2>1, <2>2 DEF LoseCalls
<1> QED
  BY <1>1, <1>2, <1>3, <1>4, <1>5, <1>6, <1>7 DEF Next, StoreBlob, StoreKnown, StoreStart,
     StoreSync, StoreFileKnown, StoreRename, StoreSyncDir, StoreFails, Step, AppendRef,
     SyncLog, SourceDeleted, ForkFails, vars, past

\* openFork reads the lines first and links the blobs after: everything the copied lines
\* refer to is there by then, whatever its source stores or loses, except what a purge
\* took between the two.
THEOREM ForksAreWhole == Spec => []ForkIsWhole
<1>1. IInv /\ ForkInv /\ [Next]_vars => ForkInv'
  BY ForkInductive
<1>2. ForkInv => ForkIsWhole
  BY DEF ForkInv, ForkIsWhole
<1>3. Init => ForkInv
  BY DEF Init, ForkInv
<1> QED BY <1>1, <1>2, <1>3, Initially, TypesInductive, PTL DEF Spec
===============================================================================
