--------------------------- MODULE VerdictProofs ---------------------------
(***************************************************************************)
(* Theorems about the verdict on a file, for any set of contents and any   *)
(* number of replacements, and about the lookup of a hash in the           *)
(* definitions, for tables of any length and any queries.  Of the first,   *)
(* IndInv (module Verdict) is inductive, and three properties are among    *)
(* its conjuncts; the fourth, that the shield does what a scan would,      *)
(* follows from it and Undisturbed.  Of the second, LookUpInv (module      *)
(* SigDb) is.                                                              *)
(***************************************************************************)
EXTENDS Verdict, SigDb, SequenceTheorems, TLAPS

-----------------------------------------------------------------------------
(* A lookup in the definitions.                                            *)

\* What a lookup has to do with: a table of records and a query.
LEMMA Tabled ==
  ASSUME Loaded, q \in Queries
  PROVE  /\ q.kind \in {"md5", "sha", "sect"} /\ q.hash \in Nat \X Nat /\ q.size \in Nat
         /\ Table \in Seq(Record) /\ Len(Table) \in Nat /\ DOMAIN Table = 1..Len(Table)
         /\ \A i \in 1..Len(Table) : Table[i] \in Record /\ Table[i].hash \in Nat \X Nat
         /\ q.kind # "sha" => Sorted(Table)
         /\ q.kind = "sha" => SortedSha(Table)
<1>1. q \in [kind : {"md5", "sha", "sect"}, hash : Nat \X Nat, size : Nat]
  BY QueriesAssumption
<1>2. q.kind \in {"md5", "sha", "sect"} /\ q.hash \in Nat \X Nat /\ q.size \in Nat
  BY <1>1
<1>3. Table \in Seq(Record)
  BY <1>2 DEF Loaded, Table
<1>4. Len(Table) \in Nat /\ DOMAIN Table = 1..Len(Table) /\ \A i \in 1..Len(Table) : Table[i] \in Record
  BY <1>3, LenProperties
<1>5. \A r \in Record : r.hash \in Nat \X Nat
  BY DEF Record
<1>6. (q.kind # "sha" => Sorted(Table)) /\ (q.kind = "sha" => SortedSha(Table))
  BY <1>2 DEF Loaded, Table
<1> QED
  BY <1>2, <1>3, <1>4, <1>5, <1>6

\* The order of hashes is a total one.
LEMMA Ordered ==
  ASSUME NEW a \in Nat \X Nat, NEW b \in Nat \X Nat, NEW c \in Nat \X Nat
  PROVE  /\ ~Less(a, a)
         /\ a # b /\ ~Less(a, b) => Less(b, a)
         /\ ~Less(b, a) /\ ~Less(c, b) => ~Less(c, a)
         /\ Less(a, b) /\ ~Less(c, b) => Less(a, c)
         /\ Less(a, b) => ~Less(b, a)
<1>1. /\ a[1] \in Nat /\ a[2] \in Nat /\ b[1] \in Nat /\ b[2] \in Nat /\ c[1] \in Nat /\ c[2] \in Nat
      /\ a = <<a[1], a[2]>> /\ b = <<b[1], b[2]>>
  OBVIOUS
<1>2. a[1] = b[1] /\ a[2] = b[2] => a = b
  BY <1>1
<1> QED
  BY <1>1, <1>2 DEF Less

\* What is as large as the query comes after what is smaller, ...
LEMMA UpGoesOn ==
  ASSUME Loaded, q \in Queries, NEW i \in 1..Len(Table), NEW j \in 1..Len(Table), i <= j,
         Up(Table[i])
  PROVE  Up(Table[j])
<1>1. CASE q.kind = "sha"
  <2>1. i # j => ~Less(Table[j].hash, Table[i].hash)
    BY <1>1, Tabled DEF SortedSha
  <2>2. ~Less(Table[i].hash, q.hash)
    BY <1>1 DEF Up
  <2>3. i # j => ~Less(Table[j].hash, q.hash)
    BY <2>1, <2>2, Tabled, Ordered
  <2> QED
    BY <1>1, <2>2, <2>3 DEF Up
<1>2. CASE q.kind # "sha"
  <2>1. i # j => Table[i].hash[1] <= Table[j].hash[1]
    BY <1>2, Tabled DEF Sorted
  <2>2. Table[i].hash[1] >= q.hash[1]
    BY <1>2 DEF Up
  <2>3. Table[i].hash[1] \in Nat /\ Table[j].hash[1] \in Nat /\ q.hash[1] \in Nat
    BY Tabled
  <2> QED
    BY <1>2, <2>1, <2>2, <2>3 DEF Up
<1> QED
  BY <1>1, <1>2

\* ... the records that are the same stand together, ...
LEMMA SameStandTogether ==
  ASSUME Loaded, q \in Queries, NEW i \in 1..Len(Table), NEW j \in 1..Len(Table), i <= j,
         Up(Table[i]), ~Same(Table[i])
  PROVE  ~Same(Table[j])
<1>1. CASE q.kind = "sha"
  <2>1. i # j => ~Less(Table[j].hash, Table[i].hash)
    BY <1>1, Tabled DEF SortedSha
  <2>2. ~Less(Table[i].hash, q.hash) /\ Table[i].hash # q.hash
    BY <1>1 DEF Up, Same
  <2>3. Less(q.hash, Table[i].hash)
    BY <2>2, Tabled, Ordered
  <2>4. i # j => Less(q.hash, Table[j].hash)
    BY <2>1, <2>3, Tabled, Ordered
  <2>5. ~Less(q.hash, q.hash)
    BY Tabled, Ordered
  <2> QED
    BY <1>1, <2>2, <2>4, <2>5 DEF Same
<1>2. CASE q.kind # "sha"
  <2>1. i # j => Table[i].hash[1] <= Table[j].hash[1]
    BY <1>2, Tabled DEF Sorted
  <2>2. Table[i].hash[1] >= q.hash[1] /\ Table[i].hash[1] # q.hash[1]
    BY <1>2 DEF Up, Same
  <2>3. Table[i].hash[1] \in Nat /\ Table[j].hash[1] \in Nat /\ q.hash[1] \in Nat
    BY Tabled
  <2> QED
    BY <1>2, <2>1, <2>2, <2>3 DEF Same
<1> QED
  BY <1>1, <1>2

\* ... and only they can match.
LEMMA SameIs ==
  ASSUME Loaded, q \in Queries, NEW i \in 1..Len(Table)
  PROVE  /\ Same(Table[i]) => Up(Table[i])
         /\ i \in Matches => Same(Table[i])
         /\ Matches \subseteq 1..Len(Table)
<1>1. ~Less(q.hash, q.hash) /\ q.hash[1] \in Nat
  BY Tabled, Ordered
<1>2. Same(Table[i]) => Up(Table[i])
  BY <1>1 DEF Same, Up
<1>3. i \in Matches => Same(Table[i])
  BY DEF Matches, Same
<1> QED
  BY <1>2, <1>3, Tabled DEF Matches

\* Where nothing below is as large as the query and nothing above is the same,
\* nothing matches.
LEMMA NothingMatches ==
  ASSUME Loaded, q \in Queries, NEW h \in 0..Len(Table),
         \A i \in 1..h : ~Up(Table[i]),
         \A i \in h + 1..Len(Table) : Up(Table[i]),
         h < Len(Table) => ~Same(Table[h + 1])
  PROVE  Matches = {}
<1> SUFFICES ASSUME NEW i \in Matches PROVE FALSE
  OBVIOUS
<1>1. Len(Table) \in Nat
  BY Tabled
<1>2. i \in 1..Len(Table)
  BY Tabled DEF Matches
<1>3. Same(Table[i]) /\ Up(Table[i])
  BY <1>2, SameIs
<1>4. CASE i <= h
  BY <1>1, <1>2, <1>3, <1>4
<1>5. CASE i > h
  <2>1. h + 1 \in 1..Len(Table) /\ h + 1 <= i /\ h < Len(Table) /\ h + 1 \in h + 1..Len(Table)
    BY <1>1, <1>2, <1>5
  <2> QED
    BY <1>2, <1>3, <2>1, SameStandTogether
<1> QED
  BY <1>1, <1>2, <1>4, <1>5

-----------------------------------------------------------------------------
(* The steps.                                                              *)

\* Nothing a step of a lookup does changes what it looks in or for.
LEMMA Rest ==
  ASSUME UNCHANGED <<db, q>>
  PROVE  /\ Table' = Table /\ Matches' = Matches /\ (Loaded' <=> Loaded)
         /\ \A query : Asked(Table', query) <=> Asked(Table, query)
         /\ \A r : (Up(r)' <=> Up(r)) /\ (Same(r)' <=> Same(r))
<1>1. Table' = Table
  BY DEF Table
<1>2. Matches' = Matches
  BY <1>1 DEF Matches, Compatible
<1>3. Loaded' <=> Loaded
  BY DEF Loaded
<1>4. \A r : (Up(r)' <=> Up(r)) /\ (Same(r)' <=> Same(r))
  BY DEF Up, Same
<1> QED
  BY <1>1, <1>2, <1>3, <1>4

LEMMA BeginStep ==
  ASSUME LookUpInv, Begin
  PROVE  LookUpInv'
<1>1. PICK query \in Queries :
        /\ q' = query /\ hi' = Len(db[query.kind])
        /\ phase' = IF db[query.kind] # <<>> /\ Asked(db[query.kind], query) THEN "search" ELSE "done"
  BY DEF Begin
<1>2. /\ phase = "idle" /\ lo' = 1 /\ first' = 0 /\ at' = 0 /\ ans' = None /\ UNCHANGED db
      /\ phase' \in {"search", "done"}
  BY <1>1 DEF Begin
<1>3. Loaded' /\ Table' = db[query.kind]
  BY <1>1, <1>2 DEF LookUpInv, Loaded, Table
<1>4. Len(Table)' \in Nat /\ DOMAIN Table' = 1..Len(Table)' /\ (Len(Table)' = 0 => Table' = <<>>)
  <2>1. db[query.kind] \in Seq(Record)
    BY <1>1, QueriesAssumption DEF LookUpInv, Loaded
  <2> QED
    BY <1>3, <2>1, LenProperties, EmptySeq
<1>5. Searched'
  <2>1. lo' \in 1..hi' + 1 /\ hi' \in 0..Len(Table)' /\ hi' = Len(Table)'
    BY <1>1, <1>2, <1>3, <1>4
  <2> QED
    BY <1>2, <1>4, <2>1 DEF Searched
<1>6. FindsWhatIsThere'
  <2>1. ASSUME phase' = "done", Asked(Table', q')  PROVE Matches' = {}
    <3>1. Table' = <<>>
      BY <1>1, <1>3, <2>1
    <3> QED
      BY <3>1 DEF Matches
  <2> QED
    BY <1>2, <2>1 DEF FindsWhatIsThere
<1> QED
  BY <1>1, <1>2, <1>3, <1>5, <1>6 DEF LookUpInv, FoundAny, Walked

\* A step that only narrows the search.
LEMMA Narrowed ==
  ASSUME LookUpInv, phase = "search", lo <= hi, UNCHANGED <<db, q, ans, phase>>,
         \/ /\ Up(Table[Mid]) /\ hi' = Mid - 1 /\ lo' = lo
            /\ first' = IF Same(Table[Mid]) THEN Mid ELSE first
         \/ /\ ~Up(Table[Mid]) /\ lo' = Mid + 1 /\ hi' = hi /\ first' = first
  PROVE  LookUpInv'
<1>1. /\ lo \in 1..hi + 1 /\ hi \in 0..Len(Table) /\ q \in Queries /\ Loaded
      /\ \A i \in 1..lo - 1 : ~Up(Table[i])
      /\ \A i \in hi + 1..Len(Table) : Up(Table[i])
      /\ first = IF hi < Len(Table) /\ Same(Table[hi + 1]) THEN hi + 1 ELSE 0
  BY DEF LookUpInv, Searched
<1>2. Len(Table) \in Nat
  BY <1>1, Tabled
<1>3. Mid \in lo..hi /\ Mid \in 1..Len(Table) /\ Mid \in Nat
  BY <1>1, <1>2 DEF Mid
<1> DEFINE m == Mid
<1> HIDE DEF m
<1>m. m = Mid
  BY DEF m
<1>4. CASE Up(Table[m]) /\ hi' = m - 1 /\ lo' = lo /\ first' = IF Same(Table[m]) THEN m ELSE first
  <2>1. \A i \in m..Len(Table) : Up(Table[i])
    BY <1>1, <1>2, <1>3, <1>4, <1>m, UpGoesOn
  <2>2. ~Same(Table[m]) => first = 0
    <3> SUFFICES ASSUME ~Same(Table[m]), hi < Len(Table), Same(Table[hi + 1]) PROVE FALSE
      BY <1>1
    <3>1. hi + 1 \in 1..Len(Table) /\ m <= hi + 1
      BY <1>1, <1>2, <1>3, <1>m
    <3> QED
      BY <1>1, <1>3, <1>4, <1>m, <3>1, SameStandTogether
  <2>3. /\ lo' \in 1..hi' + 1 /\ hi' \in 0..Len(Table) /\ hi' + 1 = m /\ hi' < Len(Table)
    BY <1>1, <1>2, <1>3, <1>4, <1>m
  <2>4. first' = IF hi' < Len(Table) /\ Same(Table[hi' + 1]) THEN hi' + 1 ELSE 0
    BY <1>4, <2>2, <2>3
  <2>5. Searched'
    BY <1>1, <1>4, <2>1, <2>3, <2>4, Rest DEF Searched
  <2> QED
    BY <2>5, Rest DEF LookUpInv, FoundAny, Walked, FindsWhatIsThere
<1>5. CASE ~Up(Table[m]) /\ lo' = m + 1 /\ hi' = hi /\ first' = first
  <2>1. ASSUME NEW i \in 1..m, Up(Table[i])  PROVE FALSE
    <3>1. i \in 1..Len(Table) /\ i <= m
      BY <1>2, <1>3, <1>m
    <3> QED
      BY <1>1, <1>3, <1>5, <1>m, <2>1, <3>1, UpGoesOn
  <2>2. lo' \in 1..hi' + 1 /\ lo' - 1 = m
    BY <1>1, <1>2, <1>3, <1>5, <1>m
  <2>3. Searched'
    BY <1>1, <1>5, <2>1, <2>2, Rest DEF Searched
  <2> QED
    BY <2>3, Rest DEF LookUpInv, FoundAny, Walked, FindsWhatIsThere
<1> QED
  BY <1>4, <1>5, <1>m

LEMMA SearchStep ==
  ASSUME LookUpInv, Search
  PROVE  LookUpInv'
<1>1. /\ phase = "search" /\ q.kind # "sha" /\ lo <= hi /\ UNCHANGED <<db, q, ans, phase>>
      /\ IF Table[Mid].hash[1] >= q.hash[1]
         THEN /\ first' = (IF Same(Table[Mid]) THEN Mid ELSE first)
              /\ hi' = Mid - 1 /\ lo' = lo
         ELSE lo' = Mid + 1 /\ hi' = hi /\ first' = first
  BY DEF Search
<1>2. Up(Table[Mid]) <=> Table[Mid].hash[1] >= q.hash[1]
  BY <1>1 DEF Up
<1> QED
  BY <1>1, <1>2, Narrowed

LEMMA SearchShaStep ==
  ASSUME LookUpInv, SearchSha
  PROVE  LookUpInv'
<1>1. phase = "search" /\ q.kind = "sha" /\ lo <= hi /\ UNCHANGED <<db, q, ans>>
  BY DEF SearchSha
<1>2. /\ lo \in 1..hi + 1 /\ hi \in 0..Len(Table) /\ q \in Queries /\ Loaded /\ ans = None
      /\ \A i \in hi + 1..Len(Table) : Up(Table[i])
  BY <1>1 DEF LookUpInv, Searched
<1>3. Len(Table) \in Nat
  BY <1>2, Tabled
<1>4. Mid \in 1..Len(Table)
  BY <1>1, <1>2, <1>3 DEF Mid
<1>5. Table[Mid].hash \in Nat \X Nat /\ q.hash \in Nat \X Nat
  BY <1>2, <1>4, Tabled
<1>6. CASE Same(Table[Mid])
  <2>1. first' = Mid /\ phase' = "back"
    <3>1. Table[Mid].hash = q.hash
      BY <1>1, <1>6 DEF Same
    <3>2. ~Less(q.hash, Table[Mid].hash)
      BY <1>5, <3>1, Ordered
    <3> QED
      BY <1>6, <3>2 DEF SearchSha
  <2>2. FoundAny'
    BY <1>1, <1>4, <1>6, <2>1, Rest DEF FoundAny
  <2> QED
    BY <1>1, <1>2, <2>1, <2>2, Rest DEF LookUpInv, Searched, Walked, FindsWhatIsThere
<1>7. CASE ~Same(Table[Mid]) /\ Less(q.hash, Table[Mid].hash)
  <2>1. hi' = Mid - 1 /\ UNCHANGED <<lo, first, phase>>
    BY <1>7 DEF SearchSha
  <2>2. Up(Table[Mid])
    <3>1. ~Less(Table[Mid].hash, q.hash)
      BY <1>5, <1>7, Ordered
    <3> QED
      BY <1>1, <3>1 DEF Up
  <2> QED
    BY <1>1, <1>7, <2>1, <2>2, Narrowed
<1>8. CASE ~Same(Table[Mid]) /\ ~Less(q.hash, Table[Mid].hash)
  <2>1. lo' = Mid + 1 /\ UNCHANGED <<hi, first, phase>>
    BY <1>8 DEF SearchSha
  <2>2. ~Up(Table[Mid])
    <3>1. Table[Mid].hash # q.hash
      BY <1>1, <1>8 DEF Same
    <3>2. Less(Table[Mid].hash, q.hash)
      BY <1>5, <1>8, <3>1, Ordered
    <3> QED
      BY <1>1, <3>2 DEF Up
  <2> QED
    BY <1>1, <2>1, <2>2, Narrowed
<1> QED
  BY <1>6, <1>7, <1>8

LEMMA BackStep ==
  ASSUME LookUpInv, Back
  PROVE  LookUpInv'
<1>1. /\ phase = "back" /\ q.kind = "sha" /\ first \in 1..Len(Table) /\ Same(Table[first])
      /\ q \in Queries /\ Loaded /\ ans = None /\ UNCHANGED <<db, q, lo, hi, ans>>
  BY DEF Back, LookUpInv, FoundAny
<1>2. Len(Table) \in Nat
  BY <1>1, Tabled
<1>3. CASE first > 1 /\ Same(Table[first - 1])
  <2>1. first' = first - 1 /\ UNCHANGED <<at, phase>>
    BY <1>3 DEF Back
  <2>2. first - 1 \in 1..Len(Table)
    BY <1>1, <1>2, <1>3
  <2>3. FoundAny'
    BY <1>1, <1>3, <2>1, <2>2, Rest DEF FoundAny
  <2> QED
    BY <1>1, <2>1, <2>3, Rest DEF LookUpInv, Searched, Walked, FindsWhatIsThere
<1>4. CASE ~(first > 1 /\ Same(Table[first - 1]))
  <2>1. at' = first /\ phase' = "walk" /\ UNCHANGED first
    BY <1>4 DEF Back
  <2>2. \A i \in first..Len(Table) : Up(Table[i])
    <3>1. Up(Table[first])
      BY <1>1, SameIs
    <3>2. \A i \in first..Len(Table) : i \in 1..Len(Table) /\ first <= i
      BY <1>1, <1>2
    <3> QED
      BY <1>1, <3>1, <3>2, UpGoesOn
  <2>3. ASSUME NEW i \in 1..first - 1, i \in Matches  PROVE FALSE
    <3>1. i \in 1..Len(Table) /\ first - 1 \in 1..Len(Table) /\ i <= first - 1 /\ first > 1 /\ first - 1 <= first
      BY <1>1, <1>2
    <3>2. Up(Table[i])
      BY <1>1, <2>3, <3>1, SameIs
    <3>3. Up(Table[first - 1])
      BY <1>1, <3>1, <3>2, UpGoesOn
    <3>4. ~Same(Table[first - 1])
      BY <1>4, <3>1
    <3> QED
      BY <1>1, <3>1, <3>3, <3>4, SameStandTogether
  <2>4. Walked'
    <3>1. at' \in 1..Len(Table) + 1
      BY <1>1, <1>2, <2>1
    <3> QED
      BY <1>1, <2>1, <2>2, <2>3, <3>1, Rest DEF Walked
  <2> QED
    BY <1>1, <2>1, <2>4, Rest DEF LookUpInv, Searched, FoundAny, FindsWhatIsThere
<1> QED
  BY <1>3, <1>4

LEMMA SearchEndsStep ==
  ASSUME LookUpInv, SearchEnds
  PROVE  LookUpInv'
<1>1. /\ phase = "search" /\ lo > hi /\ at' = first /\ phase' = IF first = 0 THEN "done" ELSE "walk"
      /\ UNCHANGED <<db, q, lo, hi, first, ans>>
  BY DEF SearchEnds
<1>2. /\ lo \in 1..hi + 1 /\ hi \in 0..Len(Table) /\ q \in Queries /\ Loaded /\ ans = None
      /\ \A i \in 1..lo - 1 : ~Up(Table[i])
      /\ \A i \in hi + 1..Len(Table) : Up(Table[i])
      /\ first = IF hi < Len(Table) /\ Same(Table[hi + 1]) THEN hi + 1 ELSE 0
  BY <1>1 DEF LookUpInv, Searched
<1>3. Len(Table) \in Nat
  BY <1>2, Tabled
<1>4. \A i \in 1..hi : ~Up(Table[i])
  BY <1>1, <1>2, <1>3
<1>5. CASE first = 0
  <2>1. phase' = "done"
    BY <1>1, <1>5
  <2>2. hi < Len(Table) => ~Same(Table[hi + 1])
    BY <1>2, <1>3, <1>5
  <2>3. Matches = {}
    BY <1>2, <1>4, <2>2, NothingMatches
  <2>4. FindsWhatIsThere'
    BY <1>1, <1>2, <2>3, Rest DEF FindsWhatIsThere
  <2> QED
    BY <1>1, <1>2, <2>1, <2>4, Rest DEF LookUpInv, Searched, FoundAny, Walked
<1>6. CASE first # 0
  <2>1. phase' = "walk" /\ at' = hi + 1 /\ hi < Len(Table)
    BY <1>1, <1>2, <1>6
  <2>2. \A i \in 1..hi : i \notin Matches
    <3>1. \A i \in 1..hi : i \in 1..Len(Table)
      BY <1>2, <1>3
    <3> QED
      BY <1>2, <1>4, <3>1, SameIs
  <2>3. Walked'
    <3>1. at' \in 1..Len(Table) + 1 /\ at' - 1 = hi
      BY <1>2, <1>3, <2>1
    <3> QED
      BY <1>1, <1>2, <2>1, <2>2, <3>1, Rest DEF Walked
  <2> QED
    BY <1>1, <1>2, <2>1, <2>3, Rest DEF LookUpInv, Searched, FoundAny, FindsWhatIsThere
<1> QED
  BY <1>5, <1>6

LEMMA WalkStep ==
  ASSUME LookUpInv, Walk
  PROVE  LookUpInv'
<1>1. phase = "walk" /\ UNCHANGED <<db, q, lo, hi, first>>
  BY DEF Walk
<1>2. /\ at \in 1..Len(Table) + 1 /\ q \in Queries /\ Loaded /\ ans = None
      /\ \A i \in 1..at - 1 : i \notin Matches
      /\ \A i \in at..Len(Table) : Up(Table[i])
  BY <1>1 DEF LookUpInv, Walked
<1>3. Len(Table) \in Nat /\ DOMAIN Table = 1..Len(Table)
  BY <1>2, Tabled
<1>4. CASE at > Len(Table) \/ ~Same(Table[at])
  <2>1. phase' = "done" /\ UNCHANGED <<at, ans>>
    BY <1>4 DEF Walk
  <2>2. ASSUME NEW i \in Matches  PROVE FALSE
    <3>1. i \in 1..Len(Table) /\ i \in at..Len(Table)
      BY <1>2, <1>3, <2>2 DEF Matches
    <3>2. at \in 1..Len(Table) /\ at <= i /\ at \in at..Len(Table)
      BY <1>2, <1>3, <3>1
    <3>3. ~Same(Table[at])
      BY <1>3, <1>4, <3>2
    <3>4. ~Same(Table[i])
      BY <1>2, <3>1, <3>2, <3>3, SameStandTogether
    <3> QED
      BY <1>2, <3>1, <3>4, SameIs
  <2>3. FindsWhatIsThere'
    BY <1>1, <1>2, <2>1, <2>2, Rest DEF FindsWhatIsThere
  <2> QED
    BY <1>1, <1>2, <2>1, <2>3, Rest DEF LookUpInv, Searched, FoundAny, Walked
<1>5. CASE /\ ~(at > Len(Table) \/ ~Same(Table[at]))
           /\ Compatible(Table[at]) /\ Table[at].hash = q.hash
  <2>1. phase' = "done" /\ ans' = Table[at].name
    BY <1>5 DEF Walk
  <2>2. at \in Matches
    BY <1>2, <1>3, <1>5 DEF Matches
  <2>3. FindsWhatIsThere'
    BY <1>1, <2>1, <2>2, Rest DEF FindsWhatIsThere
  <2> QED
    BY <1>1, <1>2, <2>1, <2>3, Rest DEF LookUpInv, Searched, FoundAny, Walked
<1>6. CASE /\ ~(at > Len(Table) \/ ~Same(Table[at]))
           /\ ~(Compatible(Table[at]) /\ Table[at].hash = q.hash)
  <2>1. at' = at + 1 /\ UNCHANGED <<ans, phase>>
    BY <1>6 DEF Walk
  <2>2. at \notin Matches
    BY <1>6 DEF Matches
  <2>3. at' \in 1..Len(Table) + 1 /\ \A i \in 1..at' - 1 : i \in 1..at - 1 \/ i = at
    BY <1>2, <1>3, <1>6, <2>1
  <2>4. \A i \in at'..Len(Table) : i \in at..Len(Table)
    BY <1>2, <1>3, <2>1
  <2>5. Walked'
    BY <1>1, <1>2, <2>1, <2>2, <2>3, <2>4, Rest DEF Walked
  <2> QED
    BY <1>1, <1>2, <2>1, <2>5, Rest DEF LookUpInv, Searched, FoundAny, FindsWhatIsThere
<1> QED
  BY <1>4, <1>5, <1>6

LEMMA LookUpStep == LookUpInv /\ [Begin \/ LookUp]_dbvars => LookUpInv'
<1> SUFFICES ASSUME LookUpInv, [Begin \/ LookUp]_dbvars PROVE LookUpInv'
  OBVIOUS
<1>1. CASE UNCHANGED dbvars
  <2>1. UNCHANGED <<db, q, lo, hi, first, at, ans, phase>>
    BY <1>1 DEF dbvars
  <2> QED
    BY <2>1, Rest DEF LookUpInv, Searched, FoundAny, Walked, FindsWhatIsThere
<1> QED
  BY <1>1, BeginStep, SearchStep, SearchShaStep, BackStep, SearchEndsStep, WalkStep DEF LookUp

\* A lookup in tables of any size finds a name exactly when some record has the hash
\* and a size that is compatible: lookup's lower bound and sigdb_match_sha's walk
\* back pass nothing over.
THEOREM FindsAny == LookUpSpec => []FindsWhatIsThere
<1>1. Loaded /\ phase = "idle" => LookUpInv
  BY DEF LookUpInv, Searched, FoundAny, Walked, FindsWhatIsThere
<1>2. LookUpInv /\ [Begin \/ LookUp]_dbvars => LookUpInv'
  BY LookUpStep
<1>3. LookUpInv => FindsWhatIsThere
  BY DEF LookUpInv
<1> QED
  BY <1>1, <1>2, <1>3, PTL DEF LookUpSpec

-----------------------------------------------------------------------------
(* The verdict.                                                            *)

USE DEF Checkers, At, Over, Had, Clear, Says, given, learnt, history

LEMMA InitIndInv == Init => IndInv
<1> SUFFICES ASSUME Init PROVE IndInv
  OBVIOUS
<1>1. TypeOK
  BY VerdictAssumption DEF Init, TypeOK, Kinds, Reported
<1>2. \A k \in Checkers : Present(k) /\ HitHasCause(k)
  BY DEF Init, Present, HitHasCause
<1> QED
  BY <1>1, <1>2 DEF Init, IndInv, ShieldDoubts, ScanFoundNone, ShieldSparesVouched,
     SignedSkipHeuristics, SignatureIsReported

LEMMA TypeStep == TypeOK /\ [Next]_vars => TypeOK'
<1> SUFFICES ASSUME TypeOK, [Next]_vars PROVE TypeOK'
  OBVIOUS
<1> USE DEF TypeOK, Kinds, Reported, Goes, Ends, Finds, Opens, Fails
<1>1. ASSUME NEW k \in Checkers, Enter(k)
      PROVE TypeOK'
  BY <1>1 DEF Enter
<1>2. ASSUME NEW k \in Checkers, Archive(k)
      PROVE TypeOK'
  BY <1>2 DEF Archive
<1>3. ASSUME NEW k \in Checkers, Hash(k)
      PROVE TypeOK'
  BY <1>3 DEF Hash
<1>4. ASSUME NEW k \in Checkers, Sections(k)
      PROVE TypeOK'
  BY <1>4 DEF Sections
<1>5. ASSUME NEW k \in Checkers, Weigh(k)
      PROVE TypeOK'
  BY <1>5 DEF Weigh, ShieldWeighs, ScanWeighs
<1>6. ASSUME NEW k \in Checkers, Trust(k)
      PROVE TypeOK'
  BY <1>6 DEF Trust
<1>7. ASSUME NEW k \in Checkers, HeadCheck(k)
      PROVE TypeOK'
  <2>1. file.heur \in {"none", "heur", "pua"}
    BY VerdictAssumption DEF Content
  <2> QED
    BY <1>7, <2>1 DEF HeadCheck, AfterHead
<1>8. ASSUME NEW k \in Checkers, Guess(k)
      PROVE TypeOK'
  BY <1>8 DEF Guess
<1>9. ASSUME NEW k \in Checkers, Sweep(k)
      PROVE TypeOK'
  BY <1>9 DEF Sweep
<1>10. ASSUME NEW c \in Contents, Replace(c)
      PROVE TypeOK'
  BY VerdictAssumption, <1>10 DEF Replace
<1>11. CASE UNCHANGED vars
  BY <1>11 DEF vars
<1> QED
  BY <1>1, <1>2, <1>3, <1>4, <1>5, <1>6, <1>7, <1>8, <1>9, <1>10, <1>11 DEF Next, Step

LEMMA PresentStep == IndInv /\ [Next]_vars => (\A j \in Checkers : Present(j)')
<1> SUFFICES ASSUME IndInv, [Next]_vars PROVE \A j \in Checkers : Present(j)'
  OBVIOUS
<1> USE DEF IndInv, TypeOK, Present, Goes, Ends, Finds, Opens, Fails
<1>1. ASSUME NEW k \in Checkers, Enter(k)
      PROVE \A j \in Checkers : Present(j)'
  BY <1>1 DEF Enter
<1>2. ASSUME NEW k \in Checkers, Archive(k)
      PROVE \A j \in Checkers : Present(j)'
  BY <1>2 DEF Archive
<1>3. ASSUME NEW k \in Checkers, Hash(k)
      PROVE \A j \in Checkers : Present(j)'
  BY <1>3 DEF Hash
<1>4. ASSUME NEW k \in Checkers, Sections(k)
      PROVE \A j \in Checkers : Present(j)'
  BY <1>4 DEF Sections
<1>5. ASSUME NEW k \in Checkers, Weigh(k)
      PROVE \A j \in Checkers : Present(j)'
  BY <1>5 DEF Weigh, ShieldWeighs, ScanWeighs
<1>6. ASSUME NEW k \in Checkers, Trust(k)
      PROVE \A j \in Checkers : Present(j)'
  BY <1>6 DEF Trust
<1>7. ASSUME NEW k \in Checkers, HeadCheck(k)
      PROVE \A j \in Checkers : Present(j)'
  BY <1>7 DEF HeadCheck, AfterHead
<1>8. ASSUME NEW k \in Checkers, Guess(k)
      PROVE \A j \in Checkers : Present(j)'
  BY <1>8 DEF Guess
<1>9. ASSUME NEW k \in Checkers, Sweep(k)
      PROVE \A j \in Checkers : Present(j)'
  BY <1>9 DEF Sweep
<1>10. ASSUME NEW c \in Contents, Replace(c)
      PROVE \A j \in Checkers : Present(j)'
  BY <1>10 DEF Replace
<1>11. CASE UNCHANGED vars
  BY <1>11 DEF vars
<1> QED
  BY <1>1, <1>2, <1>3, <1>4, <1>5, <1>6, <1>7, <1>8, <1>9, <1>10, <1>11 DEF Next, Step

LEMMA CauseStep == IndInv /\ [Next]_vars => (\A j \in Checkers : HitHasCause(j)')
<1> SUFFICES ASSUME IndInv, [Next]_vars PROVE \A j \in Checkers : HitHasCause(j)'
  OBVIOUS
<1> USE DEF IndInv, TypeOK, HitHasCause, Goes, Ends, Finds, Opens, Fails
<1>1. ASSUME NEW k \in Checkers, Enter(k)
      PROVE \A j \in Checkers : HitHasCause(j)'
  BY <1>1 DEF Enter
<1>2. ASSUME NEW k \in Checkers, Archive(k)
      PROVE \A j \in Checkers : HitHasCause(j)'
  BY <1>2 DEF Archive
<1>3. ASSUME NEW k \in Checkers, Hash(k)
      PROVE \A j \in Checkers : HitHasCause(j)'
  BY <1>3 DEF Hash
<1>4. ASSUME NEW k \in Checkers, Sections(k)
      PROVE \A j \in Checkers : HitHasCause(j)'
  BY <1>4 DEF Sections
<1>5. ASSUME NEW k \in Checkers, Weigh(k)
      PROVE \A j \in Checkers : HitHasCause(j)'
  BY <1>5 DEF Weigh, ShieldWeighs, ScanWeighs
<1>6. ASSUME NEW k \in Checkers, Trust(k)
      PROVE \A j \in Checkers : HitHasCause(j)'
  BY <1>6 DEF Trust
<1>7. ASSUME NEW k \in Checkers, HeadCheck(k)
      PROVE \A j \in Checkers : HitHasCause(j)'
  BY <1>7 DEF HeadCheck, AfterHead
<1>8. ASSUME NEW k \in Checkers, Guess(k)
      PROVE \A j \in Checkers : HitHasCause(j)'
  BY <1>8 DEF Guess
<1>9. ASSUME NEW k \in Checkers, Sweep(k)
      PROVE \A j \in Checkers : HitHasCause(j)'
  BY <1>9 DEF Sweep
<1>10. ASSUME NEW c \in Contents, Replace(c)
      PROVE \A j \in Checkers : HitHasCause(j)'
  BY <1>10 DEF Replace
<1>11. CASE UNCHANGED vars
  BY <1>11 DEF vars
<1> QED
  BY <1>1, <1>2, <1>3, <1>4, <1>5, <1>6, <1>7, <1>8, <1>9, <1>10, <1>11 DEF Next, Step

LEMMA DoubtStep == IndInv /\ [Next]_vars => ShieldDoubts' /\ ~At("shield", "sweep")'
<1> SUFFICES ASSUME IndInv, [Next]_vars PROVE ShieldDoubts' /\ ~At("shield", "sweep")'
  OBVIOUS
<1> USE DEF IndInv, TypeOK, Present, ShieldDoubts, Verified, BaseClean, Goes, Ends, Finds, Opens, Fails
<1>1. ASSUME NEW k \in Checkers, Enter(k)
      PROVE ShieldDoubts' /\ ~At("shield", "sweep")'
  BY <1>1 DEF Enter
<1>2. ASSUME NEW k \in Checkers, Archive(k)
      PROVE ShieldDoubts' /\ ~At("shield", "sweep")'
  BY <1>2 DEF Archive
<1>3. ASSUME NEW k \in Checkers, Hash(k)
      PROVE ShieldDoubts' /\ ~At("shield", "sweep")'
  BY <1>3 DEF Hash
<1>4. ASSUME NEW k \in Checkers, Sections(k)
      PROVE ShieldDoubts' /\ ~At("shield", "sweep")'
  BY <1>4 DEF Sections
<1>5. ASSUME NEW k \in Checkers, Weigh(k)
      PROVE ShieldDoubts' /\ ~At("shield", "sweep")'
  BY <1>5 DEF Weigh, ShieldWeighs, ScanWeighs
<1>6. ASSUME NEW k \in Checkers, Trust(k)
      PROVE ShieldDoubts' /\ ~At("shield", "sweep")'
  BY <1>6 DEF Trust
<1>7. ASSUME NEW k \in Checkers, HeadCheck(k)
      PROVE ShieldDoubts' /\ ~At("shield", "sweep")'
  BY <1>7 DEF HeadCheck, AfterHead
<1>8. ASSUME NEW k \in Checkers, Guess(k)
      PROVE ShieldDoubts' /\ ~At("shield", "sweep")'
  BY <1>8 DEF Guess
<1>9. ASSUME NEW k \in Checkers, Sweep(k)
      PROVE ShieldDoubts' /\ ~At("shield", "sweep")'
  BY <1>9 DEF Sweep
<1>10. ASSUME NEW c \in Contents, Replace(c)
      PROVE ShieldDoubts' /\ ~At("shield", "sweep")'
  BY <1>10 DEF Replace
<1>11. CASE UNCHANGED vars
  BY <1>11 DEF vars
<1> QED
  BY <1>1, <1>2, <1>3, <1>4, <1>5, <1>6, <1>7, <1>8, <1>9, <1>10, <1>11 DEF Next, Step

LEMMA FoundStep == IndInv /\ [Next]_vars => ScanFoundNone'
<1> SUFFICES ASSUME IndInv, [Next]_vars PROVE ScanFoundNone'
  OBVIOUS
<1> USE DEF IndInv, TypeOK, Present, HitHasCause, ScanFoundNone, Goes, Ends, Finds, Opens, Fails
<1>1. ASSUME NEW k \in Checkers, Enter(k)
      PROVE ScanFoundNone'
  BY <1>1 DEF Enter
<1>2. ASSUME NEW k \in Checkers, Archive(k)
      PROVE ScanFoundNone'
  BY <1>2 DEF Archive
<1>3. ASSUME NEW k \in Checkers, Hash(k)
      PROVE ScanFoundNone'
  BY <1>3 DEF Hash
<1>4. ASSUME NEW k \in Checkers, Sections(k)
      PROVE ScanFoundNone'
  BY <1>4 DEF Sections
<1>5. ASSUME NEW k \in Checkers, Weigh(k)
      PROVE ScanFoundNone'
  BY <1>5 DEF Weigh, ShieldWeighs, ScanWeighs
<1>6. ASSUME NEW k \in Checkers, Trust(k)
      PROVE ScanFoundNone'
  BY <1>6 DEF Trust
<1>7. ASSUME NEW k \in Checkers, HeadCheck(k)
      PROVE ScanFoundNone'
  BY <1>7 DEF HeadCheck, AfterHead
<1>8. ASSUME NEW k \in Checkers, Guess(k)
      PROVE ScanFoundNone'
  BY <1>8 DEF Guess
<1>9. ASSUME NEW k \in Checkers, Sweep(k)
      PROVE ScanFoundNone'
  BY <1>9 DEF Sweep
<1>10. ASSUME NEW c \in Contents, Replace(c)
      PROVE ScanFoundNone'
  BY <1>10 DEF Replace
<1>11. CASE UNCHANGED vars
  BY <1>11 DEF vars
<1> QED
  BY <1>1, <1>2, <1>3, <1>4, <1>5, <1>6, <1>7, <1>8, <1>9, <1>10, <1>11 DEF Next, Step

LEMMA SpareStep == IndInv /\ [Next]_vars => ShieldSparesVouched'
<1> SUFFICES ASSUME IndInv, [Next]_vars PROVE ShieldSparesVouched'
  OBVIOUS
<1> USE DEF IndInv, TypeOK, Present, ShieldDoubts, ShieldSparesVouched, Verified, BaseClean, Goes, Ends, Finds, Opens, Fails
<1>1. ASSUME NEW k \in Checkers, Enter(k)
      PROVE ShieldSparesVouched'
  BY <1>1 DEF Enter
<1>2. ASSUME NEW k \in Checkers, Archive(k)
      PROVE ShieldSparesVouched'
  BY <1>2 DEF Archive
<1>3. ASSUME NEW k \in Checkers, Hash(k)
      PROVE ShieldSparesVouched'
  BY <1>3 DEF Hash
<1>4. ASSUME NEW k \in Checkers, Sections(k)
      PROVE ShieldSparesVouched'
  BY <1>4 DEF Sections
<1>5. ASSUME NEW k \in Checkers, Weigh(k)
      PROVE ShieldSparesVouched'
  BY <1>5 DEF Weigh, ShieldWeighs, ScanWeighs
<1>6. ASSUME NEW k \in Checkers, Trust(k)
      PROVE ShieldSparesVouched'
  BY <1>6 DEF Trust
<1>7. ASSUME NEW k \in Checkers, HeadCheck(k)
      PROVE ShieldSparesVouched'
  BY <1>7 DEF HeadCheck, AfterHead
<1>8. ASSUME NEW k \in Checkers, Guess(k)
      PROVE ShieldSparesVouched'
  BY <1>8 DEF Guess
<1>9. ASSUME NEW k \in Checkers, Sweep(k)
      PROVE ShieldSparesVouched'
  BY <1>9 DEF Sweep
<1>10. ASSUME NEW c \in Contents, Replace(c)
      PROVE ShieldSparesVouched'
  BY <1>10 DEF Replace
<1>11. CASE UNCHANGED vars
  BY <1>11 DEF vars
<1> QED
  BY <1>1, <1>2, <1>3, <1>4, <1>5, <1>6, <1>7, <1>8, <1>9, <1>10, <1>11 DEF Next, Step

LEMMA SignedStep == IndInv /\ [Next]_vars => SignedSkipHeuristics'
<1> SUFFICES ASSUME IndInv, [Next]_vars PROVE SignedSkipHeuristics'
  OBVIOUS
<1> USE DEF IndInv, TypeOK, Present, HitHasCause, SignedSkipHeuristics, Actionable, Reported, Goes, Ends, Finds, Opens, Fails
<1>1. ASSUME NEW k \in Checkers, Enter(k)
      PROVE SignedSkipHeuristics'
  BY <1>1 DEF Enter
<1>2. ASSUME NEW k \in Checkers, Archive(k)
      PROVE SignedSkipHeuristics'
  BY <1>2 DEF Archive
<1>3. ASSUME NEW k \in Checkers, Hash(k)
      PROVE SignedSkipHeuristics'
  BY <1>3 DEF Hash
<1>4. ASSUME NEW k \in Checkers, Sections(k)
      PROVE SignedSkipHeuristics'
  BY <1>4 DEF Sections
<1>5. ASSUME NEW k \in Checkers, Weigh(k)
      PROVE SignedSkipHeuristics'
  BY <1>5 DEF Weigh, ShieldWeighs, ScanWeighs
<1>6. ASSUME NEW k \in Checkers, Trust(k)
      PROVE SignedSkipHeuristics'
  BY <1>6 DEF Trust
<1>7. ASSUME NEW k \in Checkers, HeadCheck(k)
      PROVE SignedSkipHeuristics'
  BY <1>7 DEF HeadCheck, AfterHead
<1>8. ASSUME NEW k \in Checkers, Guess(k)
      PROVE SignedSkipHeuristics'
  BY <1>8 DEF Guess
<1>9. ASSUME NEW k \in Checkers, Sweep(k)
      PROVE SignedSkipHeuristics'
  BY <1>9 DEF Sweep
<1>10. ASSUME NEW c \in Contents, Replace(c)
      PROVE SignedSkipHeuristics'
  BY <1>10 DEF Replace
<1>11. CASE UNCHANGED vars
  BY <1>11 DEF vars
<1> QED
  BY <1>1, <1>2, <1>3, <1>4, <1>5, <1>6, <1>7, <1>8, <1>9, <1>10, <1>11 DEF Next, Step

LEMMA ReportStep == IndInv /\ [Next]_vars => SignatureIsReported'
<1> SUFFICES ASSUME IndInv, [Next]_vars PROVE SignatureIsReported'
  OBVIOUS
<1> USE DEF IndInv, TypeOK, Present, HitHasCause, ScanFoundNone, SignatureIsReported, Goes, Ends, Finds, Opens, Fails
<1>1. ASSUME NEW k \in Checkers, Enter(k)
      PROVE SignatureIsReported'
  BY <1>1 DEF Enter
<1>2. ASSUME NEW k \in Checkers, Archive(k)
      PROVE SignatureIsReported'
  BY <1>2 DEF Archive
<1>3. ASSUME NEW k \in Checkers, Hash(k)
      PROVE SignatureIsReported'
  BY <1>3 DEF Hash
<1>4. ASSUME NEW k \in Checkers, Sections(k)
      PROVE SignatureIsReported'
  BY <1>4 DEF Sections
<1>5. ASSUME NEW k \in Checkers, Weigh(k)
      PROVE SignatureIsReported'
  BY <1>5 DEF Weigh, ShieldWeighs, ScanWeighs
<1>6. ASSUME NEW k \in Checkers, Trust(k)
      PROVE SignatureIsReported'
  BY <1>6 DEF Trust
<1>7. ASSUME NEW k \in Checkers, HeadCheck(k)
      PROVE SignatureIsReported'
  BY <1>7 DEF HeadCheck, AfterHead
<1>8. ASSUME NEW k \in Checkers, Guess(k)
      PROVE SignatureIsReported'
  BY <1>8 DEF Guess
<1>9. ASSUME NEW k \in Checkers, Sweep(k)
      PROVE SignatureIsReported'
  BY <1>9 DEF Sweep
<1>10. ASSUME NEW c \in Contents, Replace(c)
      PROVE SignatureIsReported'
  BY <1>10 DEF Replace
<1>11. CASE UNCHANGED vars
  BY <1>11 DEF vars
<1> QED
  BY <1>1, <1>2, <1>3, <1>4, <1>5, <1>6, <1>7, <1>8, <1>9, <1>10, <1>11 DEF Next, Step

\* The contents a checker met account for what it has learnt, at every step.
THEOREM Inductive == Spec => []IndInv
<1>1. IndInv /\ [Next]_vars => IndInv'
  BY TypeStep, PresentStep, CauseStep, DoubtStep, FoundStep, SpareStep, SignedStep, ReportStep
     DEF IndInv
<1> QED
  BY InitIndInv, <1>1, PTL DEF Spec

\* Every variable keeps its type.
THEOREM TypeCorrect == Spec => []TypeOK
<1>1. IndInv => TypeOK
  BY DEF IndInv
<1> QED
  BY Inductive, <1>1, PTL

\* The shield spares what Microsoft's signature, or the baseline, Windows or the
\* installer's list, vouches for in every content the file had.
THEOREM SparesVouched == Spec => []ShieldSparesVouched
<1>1. IndInv => ShieldSparesVouched
  BY DEF IndInv
<1> QED
  BY Inductive, <1>1, PTL

\* A guess about a signed file is never acted on, nor offered.
THEOREM SignedAreSpared == Spec => []SignedSkipHeuristics
<1>1. IndInv => SignedSkipHeuristics
  BY DEF IndInv
<1> QED
  BY Inductive, <1>1, PTL

\* A scan that could read a file reports the hash signature it matches.
THEOREM ReportsSignature == Spec => []SignatureIsReported
<1>1. IndInv => SignatureIsReported
  BY DEF IndInv
<1> QED
  BY Inductive, <1>1, PTL

-----------------------------------------------------------------------------
(* The shield and a scan at a file that is not replaced meanwhile.         *)

\* What the file is does not change.
LEMMA SameFile ==
  ASSUME UNCHANGED given
  PROVE  /\ Refused' = Refused /\ Hashed' = Hashed /\ Vouched' = Vouched /\ Due' = Due
         /\ UNCHANGED <<file, place, option, changes>>
BY DEF Refused, Hashed, Vouched, Due, Verified, BaseClean

\* A step of one checker leaves the other where it is.
LEMMA OtherFollows ==
  ASSUME IndInv, NEW k \in Checkers, Step(k), NEW j \in Checkers, j # k, Follows(j)
  PROVE  Follows(j)'
<1>1. UNCHANGED given
  BY DEF Step, Enter, Archive, Hash, Sections, Weigh, Trust, HeadCheck, Guess, Sweep
<1>2. /\ pc \in [Checkers -> {"start", "archive", "hash", "sections", "weigh", "trust", "head",
                              "guess", "sweep", "over"}]
      /\ hit \in [Checkers -> SUBSET Contents] /\ guess \in [Checkers -> {"none", "heur", "pua"}]
      /\ verdict \in [Checkers -> Reported \cup {"none", "act"}] /\ had \in [Checkers -> SUBSET Contents]
      /\ failed \in [Checkers -> SUBSET {"hash", "sections", "trust", "head", "sweep"}]
  BY DEF IndInv, TypeOK
<1>3. pc'[j] = pc[j] /\ verdict'[j] = verdict[j]
  BY <1>2 DEF Step, Enter, Archive, Hash, Sections, Weigh, ShieldWeighs, ScanWeighs, Trust, HeadCheck, AfterHead, Guess,
              Sweep, Goes, Ends, Finds
<1>4. hit'[j] = hit[j] /\ guess'[j] = guess[j] /\ had'[j] = had[j] /\ failed'[j] = failed[j]
  BY <1>2 DEF Step, Enter, Archive, Hash, Sections, Weigh, Trust, HeadCheck, Guess, Sweep, Opens, Fails
<1>5. Entered(j)' /\ (failed'[j] = {} => Passed(j)') /\ Concluded(j)'
  <2>1. Entered(j)'
    BY <1>1, <1>3, <1>4, SameFile DEF Follows, Entered
  <2>2. failed'[j] = {} => Passed(j)'
    BY <1>1, <1>3, <1>4, SameFile DEF Follows, Passed
  <2>3. Concluded(j)'
    BY <1>1, <1>3, <1>4, SameFile DEF Follows, Concluded
  <2> QED
    BY <2>1, <2>2, <2>3
<1> QED
  BY <1>5 DEF Follows

\* The step of a checker, by what it knows of the file.
LEMMA OwnFollows ==
  ASSUME IndInv, NEW k \in Checkers, Step(k), Follows(k)
  PROVE  Follows(k)'
<1>1. UNCHANGED <<file, place, option, changes>> /\ Refused' = Refused /\ Hashed' = Hashed
      /\ Vouched' = Vouched /\ Due' = Due
  <2>1. UNCHANGED given
    BY DEF Step, Enter, Archive, Hash, Sections, Weigh, Trust, HeadCheck, Guess, Sweep
  <2> QED
    BY <2>1, SameFile
<1>2. /\ pc \in [Checkers -> {"start", "archive", "hash", "sections", "weigh", "trust", "head",
                              "guess", "sweep", "over"}]
      /\ hit \in [Checkers -> SUBSET Contents] /\ guess \in [Checkers -> {"none", "heur", "pua"}]
      /\ verdict \in [Checkers -> Reported \cup {"none", "act"}] /\ had \in [Checkers -> SUBSET Contents]
      /\ failed \in [Checkers -> SUBSET {"hash", "sections", "trust", "head", "sweep"}]
      /\ md5 \in [Checkers -> SUBSET Contents] /\ md5[k] \subseteq had[k]
      /\ file.sig \in {"none", "whole", "section", "pattern"} /\ file.heur \in {"none", "heur", "pua"}
      /\ file.archive \in {"fine", "bomb", "odd"} /\ place.exempt \in {"no", "excluded", "grace"}
      /\ guess[k] # "none" \/ ~At(k, "guess")
  BY VerdictAssumption DEF IndInv, TypeOK, Present, Content
<1>3. ASSUME failed'[k] = {}  PROVE failed[k] = {}
  BY <1>2, <1>3 DEF Step, Enter, Archive, Hash, Sections, Weigh, Trust, HeadCheck, Guess, Sweep, Opens, Fails
<1> USE DEF Goes, Ends, Finds, Opens, Fails
<1>4. CASE Enter(k)
  BY <1>1, <1>2, <1>3, <1>4 DEF Enter, Follows, Entered, Passed, Concluded, Due
<1>5. CASE Archive(k)
  BY <1>1, <1>2, <1>3, <1>5 DEF Archive, Follows, Entered, Passed, Concluded, Due, Refused, Actionable, Reported
<1>6. CASE Hash(k)
  BY <1>1, <1>2, <1>3, <1>6 DEF Hash, Follows, Entered, Passed, Concluded
<1>7. CASE Sections(k)
  BY <1>1, <1>2, <1>3, <1>7 DEF Sections, Follows, Entered, Passed, Concluded, Hashed
<1>8. CASE Weigh(k)
  BY <1>1, <1>2, <1>3, <1>8 DEF Weigh, ShieldWeighs, ScanWeighs, Follows, Entered, Passed, Concluded, Due, Vouched,
     BaseModified, Verified, BaseClean
<1>9. CASE Trust(k)
  BY <1>1, <1>2, <1>3, <1>9 DEF Trust, Follows, Entered, Passed, Concluded, Due, Actionable, Reported
<1>10. CASE HeadCheck(k)
  BY <1>1, <1>2, <1>3, <1>10 DEF HeadCheck, AfterHead, Follows, Entered, Passed, Concluded, Due
<1>11. CASE Guess(k)
  BY <1>1, <1>2, <1>3, <1>11 DEF Guess, Follows, Entered, Passed, Concluded, Due, Actionable, Reported
<1>12. CASE Sweep(k)
  BY <1>1, <1>2, <1>3, <1>12 DEF Sweep, Follows, Entered, Passed, Concluded, Due, Actionable, Reported, IndInv
<1> QED
  BY <1>4, <1>5, <1>6, <1>7, <1>8, <1>9, <1>10, <1>11, <1>12 DEF Step

LEMMA UndisturbedStep == IndInv /\ Undisturbed /\ [Next]_vars => Undisturbed'
<1> SUFFICES ASSUME IndInv, Undisturbed, [Next]_vars, changes' = 0
             PROVE  \A j \in Checkers : Follows(j)'
  BY DEF Undisturbed
<1>1. changes = 0 /\ ((\E k \in Checkers : Step(k)) \/ UNCHANGED vars)
  <2>1. ASSUME NEW c \in Contents, Replace(c)  PROVE FALSE
    <3>1. changes \in Nat /\ changes' = changes + 1
      BY <2>1, VerdictAssumption DEF IndInv, TypeOK, Replace
    <3> QED
      BY <3>1
  <2>2. (\E k \in Checkers : Step(k)) \/ UNCHANGED vars
    BY <2>1 DEF Next
  <2> QED
    BY <2>2 DEF Step, Enter, Archive, Hash, Sections, Weigh, Trust, HeadCheck, Guess, Sweep, vars
<1>2. \A j \in Checkers : Follows(j)
  BY <1>1 DEF Undisturbed
<1>3. ASSUME NEW k \in Checkers, Step(k)  PROVE \A j \in Checkers : Follows(j)'
  BY <1>2, <1>3, OtherFollows, OwnFollows
<1>4. CASE UNCHANGED vars
  BY <1>2, <1>4 DEF vars, Follows, Entered, Passed, Concluded, Refused, Hashed, Vouched, Due, Verified, BaseClean
<1> QED
  BY <1>1, <1>3, <1>4

\* What the shield acts on, a scan with heuristics that saw the same file unchanged
\* offers to quarantine or shows as modified (rt_check of realtime.c, scan_one of
\* scan.c): where each checker is tells, as long as the file is the same, what it is.
THEOREM WithinScan == Spec => []ShieldWithinScan
<1>1. Init => Undisturbed
  BY DEF Init, Undisturbed, Follows, Entered, Passed, Concluded
<1>2. IndInv /\ Undisturbed => ShieldWithinScan
  BY DEF Undisturbed, Follows, Concluded, ShieldWithinScan
<1> QED
  BY <1>1, <1>2, Inductive, UndisturbedStep, PTL DEF Spec
=============================================================================
