------------------------------ MODULE NetProofs ------------------------------
(***************************************************************************)
(* Theorems about what stands between the machine and the network: the     *)
(* Windows 2000 firewall, for any rules, addresses and limits, and the web *)
(* shield's block in the HOSTS file, for any processes, lines and lists.   *)
(* Of each, IndInv (modules Fw2k, Hosts) is inductive, and the properties  *)
(* follow from it.                                                         *)
(***************************************************************************)
EXTENDS Fw2k, Hosts, SequenceTheorems, FiniteSetTheorems, TLAPS

-----------------------------------------------------------------------------
(* The web shield: the least of a set of numbers, and of the places of a   *)
(* line.                                                                   *)

LEMMA Least == ASSUME NEW T \in SUBSET Nat, T # {} PROVE \E x \in T : \A y \in T : x <= y
<1> DEFINE Below == OpToRel(<, Nat)
<1>1. IsWellFoundedOn(Below, Nat)
  BY NatLessThanWellFounded
<1>2. \A x, y \in T : y < x => <<y, x>> \in Below
  BY DEF OpToRel
<1> HIDE DEF Below
<1>3. PICK x \in T : \A y \in T : <<y, x>> \notin Below
  BY <1>1, WFMin
<1>4. \A y \in T : ~(y < x)
  BY <1>2, <1>3
<1>5. x \in Nat /\ \A y \in T : y \in Nat
  OBVIOUS
<1>6. \A y \in T : x <= y
  BY <1>4, <1>5
<1> QED
  BY <1>6

LEMMA Found ==
  ASSUME NEW s \in Seq(Line), NEW x, NEW i \in Nat \ {0}
  PROVE  /\ Find(s, x, i) = 0 => \A j \in i..Len(s) : s[j] # x
         /\ Find(s, x, i) # 0 =>
              /\ Find(s, x, i) \in i..Len(s) /\ s[Find(s, x, i)] = x
              /\ \A l \in i..Find(s, x, i) - 1 : s[l] # x
<1>n. Len(s) \in Nat
  BY LenProperties
<1>1. CASE \E j \in i..Len(s) : s[j] = x
  <2> DEFINE T == {j \in i..Len(s) : s[j] = x}
  <2>1. T \in SUBSET Nat /\ T # {}
    BY <1>1, <1>n
  <2>2. PICK m \in T : \A y \in T : m <= y
    BY <2>1, Least
  <2>3. m \in i..Len(s) /\ s[m] = x /\ \A l \in i..m-1 : s[l] # x
    BY <1>n, <2>2
  <2>4. Find(s, x, i) = CHOOSE j \in i..Len(s) : s[j] = x /\ \A l \in i..j-1 : s[l] # x
    BY <1>1 DEF Find
  <2> QED
    BY <1>n, <2>3, <2>4
<1>2. CASE ~\E j \in i..Len(s) : s[j] = x
  BY <1>2 DEF Find
<1> QED
  BY <1>1, <1>2

-----------------------------------------------------------------------------
(* Lines taken out, and lines put in.                                      *)

Cut(s, b, e) == SubSeq(s, 1, b - 1) \o SubSeq(s, e + 1, Len(s))

LEMMA CutLines ==
  ASSUME NEW S, NEW s \in Seq(S), NEW b \in 1..Len(s) + 1, NEW e \in b - 1..Len(s)
  PROVE  /\ Cut(s, b, e) \in Seq(S) /\ Len(Cut(s, b, e)) = b - 1 + Len(s) - e
         /\ \A i \in 1..b - 1 : Cut(s, b, e)[i] = s[i]
         /\ \A i \in b..Len(Cut(s, b, e)) : Cut(s, b, e)[i] = s[i + (e - b + 1)]
<1> DEFINE u == SubSeq(s, 1, b - 1)
           v == SubSeq(s, e + 1, Len(s))
<1>1. Len(s) \in Nat /\ \A i \in 1..Len(s) : s[i] \in S
  BY LenProperties
<1>2. u \in Seq(S) /\ Len(u) = b - 1 /\ \A i \in 1..b - 1 : u[i] = s[i]
  BY <1>1, SubSeqProperties
<1>3. v \in Seq(S) /\ Len(v) = Len(s) - e /\ \A i \in 1..Len(s) - e : v[i] = s[e + i]
  <2>1. /\ v \in Seq(S) /\ Len(v) = IF e + 1 <= Len(s) THEN Len(s) - (e + 1) + 1 ELSE 0
        /\ \A i \in 1..Len(s) - (e + 1) + 1 : v[i] = s[e + 1 + i - 1]
    BY <1>1, SubSeqProperties
  <2>2. (IF e + 1 <= Len(s) THEN Len(s) - (e + 1) + 1 ELSE 0) = Len(s) - e
    BY <1>1
  <2>3. Len(s) - (e + 1) + 1 = Len(s) - e /\ \A i \in 1..Len(s) - e : e + 1 + i - 1 = e + i
    BY <1>1
  <2> HIDE DEF v
  <2> QED
    BY <2>1, <2>2, <2>3
<1>4. Cut(s, b, e) = u \o v
  BY DEF Cut
<1> HIDE DEF u, v
<1>5. /\ u \o v \in Seq(S) /\ Len(u \o v) = Len(u) + Len(v)
      /\ \A i \in 1..Len(u) + Len(v) : (u \o v)[i] = IF i <= Len(u) THEN u[i] ELSE v[i - Len(u)]
  BY <1>2, <1>3, ConcatProperties
<1>6. u \o v \in Seq(S) /\ Len(u \o v) = b - 1 + Len(s) - e
  BY <1>1, <1>2, <1>3, <1>5
<1>7. ASSUME NEW i \in 1..b - 1  PROVE (u \o v)[i] = s[i]
  BY <1>1, <1>2, <1>3, <1>5
<1>8. ASSUME NEW i \in b..b - 1 + Len(s) - e  PROVE (u \o v)[i] = s[i + (e - b + 1)]
  <2>1. (u \o v)[i] = v[i - (b - 1)]
    BY <1>1, <1>2, <1>3, <1>5
  <2>2. i - (b - 1) \in 1..Len(s) - e
    BY <1>1
  <2>3. v[i - (b - 1)] = s[e + (i - (b - 1))]
    BY <1>3, <2>2
  <2>4. e + (i - (b - 1)) = i + (e - b + 1)
    BY <1>1
  <2> QED
    BY <2>1, <2>3, <2>4
<1> QED
  BY <1>4, <1>6, <1>7, <1>8

LEMMA Prefixed ==
  ASSUME NEW S, NEW s \in Seq(S), NEW n \in 0..Len(s)
  PROVE  SubSeq(s, 1, n) \in Seq(S) /\ Len(SubSeq(s, 1, n)) = n /\ \A i \in 1..n : SubSeq(s, 1, n)[i] = s[i]
<1>1. Len(s) \in Nat /\ \A i \in 1..Len(s) : s[i] \in S
  BY LenProperties
<1> QED
  BY <1>1, SubSeqProperties

LEMMA PutLines ==
  ASSUME NEW s \in Seq(Line), NEW d \in Own \cup Domains, NEW i \in 1..Len(s) + 1
  PROVE  /\ InsertAt(s, i, d) \in Seq(Line) /\ Len(InsertAt(s, i, d)) = Len(s) + 1
         /\ \A j \in 1..i - 1 : InsertAt(s, i, d)[j] = s[j]
         /\ InsertAt(s, i, d)[i] = d
         /\ \A j \in i + 1..Len(s) + 1 : InsertAt(s, i, d)[j] = s[j - 1]
<1> DEFINE u == SubSeq(s, 1, i - 1)
           v == SubSeq(s, i, Len(s))
<1>d. d \in Line
  BY DEF Line
<1>1. Len(s) \in Nat /\ \A j \in 1..Len(s) : s[j] \in Line
  BY LenProperties
<1>2. u \in Seq(Line) /\ Len(u) = i - 1 /\ \A j \in 1..i - 1 : u[j] = s[j]
  BY <1>1, SubSeqProperties
<1>3. v \in Seq(Line) /\ Len(v) = Len(s) - i + 1 /\ \A j \in 1..Len(s) - i + 1 : v[j] = s[i + j - 1]
  BY <1>1, SubSeqProperties
<1>4. InsertAt(s, i, d) = (u \o <<d>>) \o v
  BY DEF InsertAt
<1> HIDE DEF u, v
<1>5. <<d>> \in Seq(Line) /\ Len(<<d>>) = 1 /\ <<d>>[1] = d
  BY <1>d
<1>6. /\ u \o <<d>> \in Seq(Line) /\ Len(u \o <<d>>) = i
      /\ \A j \in 1..i - 1 : (u \o <<d>>)[j] = s[j]
      /\ (u \o <<d>>)[i] = d
  BY <1>1, <1>2, <1>5, ConcatProperties
<1> DEFINE w == u \o <<d>>
<1> HIDE DEF w
<1>7. w \in Seq(Line) /\ Len(w) = i /\ (\A j \in 1..i - 1 : w[j] = s[j]) /\ w[i] = d
  BY <1>6 DEF w
<1>8. /\ w \o v \in Seq(Line) /\ Len(w \o v) = Len(w) + Len(v)
      /\ \A j \in 1..Len(w) + Len(v) : (w \o v)[j] = IF j <= Len(w) THEN w[j] ELSE v[j - Len(w)]
  BY <1>3, <1>7, ConcatProperties
<1>9. InsertAt(s, i, d) = w \o v
  BY <1>4 DEF w
<1> QED
  BY <1>1, <1>3, <1>7, <1>8, <1>9

-----------------------------------------------------------------------------
(* hosts_strip.                                                            *)

\* The lines from b to e are the block, to its end marker or to the file's end.
Stripped(s, b, e) ==
  /\ s[b] = "begin" /\ \A l \in 1..b - 1 : s[l] # "begin"
  /\ \/ s[e] = "end" /\ \A l \in b..e - 1 : s[l] # "end"
     \/ e = Len(s) /\ \A l \in b..e : s[l] # "end"

LEMMA StripIs ==
  ASSUME NEW s \in Seq(Line)
  PROVE  \/ Strip(s) = s /\ \A l \in 1..Len(s) : s[l] # "begin"
         \/ \E b \in 1..Len(s), e \in 1..Len(s) : b <= e /\ Stripped(s, b, e) /\ Strip(s) = Cut(s, b, e)
<1> DEFINE b == Find(s, "begin", 1)
           e == Find(s, "end", b)
<1>n. Len(s) \in Nat
  BY LenProperties
<1>1. CASE b = 0
  <2>1. Strip(s) = s
    BY <1>1 DEF Strip
  <2> QED
    BY <1>1, <2>1, Found
<1>2. CASE b # 0
  <2>1. b \in 1..Len(s) /\ s[b] = "begin" /\ \A l \in 1..b - 1 : s[l] # "begin"
    BY <1>2, Found
  <2>2. b \in Nat \ {0}
    BY <1>n, <2>1
  <2>3. CASE e = 0
    <3>1. \A l \in b..Len(s) : s[l] # "end"
      BY <2>2, <2>3, Found
    <3>2. Strip(s) = SubSeq(s, 1, b - 1)
      BY <1>2, <2>3 DEF Strip
    <3>3. SubSeq(s, Len(s) + 1, Len(s)) = <<>>
      BY <1>n, SubSeqEmpty
    <3>4. SubSeq(s, 1, b - 1) \in Seq(Line)
      BY <1>n, <2>1, Prefixed
    <3>5. Strip(s) = Cut(s, b, Len(s))
      BY <3>2, <3>3, <3>4, ConcatEmptySeq DEF Cut
    <3>6. Stripped(s, b, Len(s)) /\ b <= Len(s) /\ Len(s) \in 1..Len(s)
      BY <1>n, <2>1, <3>1 DEF Stripped
    <3> QED
      BY <2>1, <3>5, <3>6
  <2>4. CASE e # 0
    <3>1. e \in b..Len(s) /\ s[e] = "end" /\ \A l \in b..e - 1 : s[l] # "end"
      BY <2>2, <2>4, Found
    <3>2. Strip(s) = Cut(s, b, e)
      BY <1>2, <2>4 DEF Strip, Cut
    <3>3. Stripped(s, b, e)
      BY <2>1, <3>1 DEF Stripped
    <3>4. b <= e /\ e \in 1..Len(s)
      BY <1>n, <2>1, <3>1
    <3> QED
      BY <2>1, <3>2, <3>3, <3>4
  <2> QED
    BY <2>3, <2>4
<1> QED
  BY <1>1, <1>2

\* What is left has lines of the file only, and no begin marker, if there was one.
LEMMA StripLeaves ==
  ASSUME NEW s \in Seq(Line), OneStretch(s)
  PROVE  /\ Strip(s) \in Seq(Line) /\ \A i \in 1..Len(Strip(s)) : Strip(s)[i] # "begin"
         /\ NoneCut(s) => NoneCut(Strip(s))
<1>n. Len(s) \in Nat /\ DOMAIN s = 1..Len(s)
  BY LenProperties
<1>1. CASE Strip(s) = s /\ \A l \in 1..Len(s) : s[l] # "begin"
  BY <1>1
<1>2. ASSUME NEW b \in 1..Len(s), NEW e \in 1..Len(s), b <= e, Stripped(s, b, e), Strip(s) = Cut(s, b, e)
      PROVE  /\ Strip(s) \in Seq(Line) /\ \A i \in 1..Len(Strip(s)) : Strip(s)[i] # "begin"
             /\ NoneCut(s) => NoneCut(Strip(s))
  <2>a. /\ s[b] = "begin" /\ \A l \in 1..b - 1 : s[l] # "begin"
        /\ \/ s[e] = "end" /\ \A l \in b..e - 1 : s[l] # "end"
           \/ e = Len(s) /\ \A l \in b..e : s[l] # "end"
    BY <1>2 DEF Stripped
  <2>b. b \in 1..Len(s) /\ e \in 1..Len(s) /\ b <= e
    BY <1>2
  <2> DEFINE r == Cut(s, b, e)
  <2>1. b \in 1..Len(s) + 1 /\ e \in b - 1..Len(s)
    BY <1>n, <1>2
  <2>2. /\ r \in Seq(Line) /\ Len(r) = b - 1 + Len(s) - e
        /\ \A i \in 1..b - 1 : r[i] = s[i]
        /\ \A i \in b..Len(r) : r[i] = s[i + (e - b + 1)]
    BY <2>1, CutLines
  <2> HIDE DEF r
  <2>3. ASSUME NEW i \in 1..Len(r)  PROVE r[i] # "begin"
    <3>1. CASE i <= b - 1
      <4>1. i \in 1..b - 1 /\ r[i] = s[i]
        BY <1>n, <2>2, <2>b, <3>1
      <4> QED
        BY <2>a, <4>1
    <3>2. CASE i >= b
      <4> DEFINE k == i + (e - b + 1)
      <4>1. k \in 1..Len(s) /\ e < k /\ r[i] = s[k]
        BY <1>n, <2>b, <2>2, <3>2
      <4> HIDE DEF k
      <4>2. s[e] = "end" /\ e # b /\ e # Len(s)
        <5>1. e # Len(s)
          BY <1>n, <2>b, <4>1
        <5>2. s[e] = "end"
          BY <2>a, <5>1
        <5>3. e # b
          BY <2>a, <5>2
        <5> QED
          BY <5>1, <5>2, <5>3
      <4>3. b < e
        <5>1. e # b
          BY <4>2
        <5> QED
          BY <1>n, <2>b, <5>1
      <4>4. b \in DOMAIN s /\ e \in DOMAIN s /\ k \in DOMAIN s
        BY <1>n, <2>b, <4>1
      <4> QED
        BY <1>2, <2>a, <4>1, <4>2, <4>3, <4>4 DEF OneStretch
    <3> QED
      BY <1>n, <2>2, <3>1, <3>2
  <2>4. Strip(s) = r
    BY <1>2 DEF r
  <2>5. DOMAIN r = 1..Len(r)
    BY <2>2, LenProperties
  <2>6. ASSUME NoneCut(s), NEW i \in 1..Len(r)  PROVE r[i] # "begincut"
    <3>1. CASE i <= b - 1
      <4>1. i \in 1..b - 1 /\ i \in DOMAIN s
        BY <1>n, <2>2, <2>b, <3>1
      <4> QED
        BY <2>2, <2>6, <4>1 DEF NoneCut
    <3>2. CASE i >= b
      <4> DEFINE k == i + (e - b + 1)
      <4>1. k \in DOMAIN s /\ r[i] = s[k]
        BY <1>n, <2>b, <2>2, <3>2
      <4> HIDE DEF k
      <4> QED
        BY <2>6, <4>1 DEF NoneCut
    <3> QED
      BY <1>n, <2>2, <3>1, <3>2
  <2> QED
    BY <2>2, <2>3, <2>4, <2>5, <2>6 DEF NoneCut
<1> QED
  BY <1>1, <1>2, StripIs

\* Between the markers, or below a begin marker without an end.
InBlock(s, i) == \E b \in 1..i : s[b] = "begin" /\ \A l \in b..i : s[l] # "end"

LEMMA StripKeeps ==
  ASSUME NEW s \in Seq(Line), NEW i \in DOMAIN s, s[i] \in Own, ~InBlock(s, i)
  PROVE  \E j \in 1..Len(Strip(s)) : Strip(s)[j] = s[i]
<1>n. Len(s) \in Nat /\ DOMAIN s = 1..Len(s)
  BY LenProperties
<1>1. CASE Strip(s) = s
  BY <1>n, <1>1
<1>2. ASSUME NEW b \in 1..Len(s), NEW e \in 1..Len(s), b <= e, Stripped(s, b, e), Strip(s) = Cut(s, b, e)
      PROVE  \E j \in 1..Len(Strip(s)) : Strip(s)[j] = s[i]
  <2>a. /\ s[b] = "begin" /\ \A l \in 1..b - 1 : s[l] # "begin"
        /\ \/ s[e] = "end" /\ \A l \in b..e - 1 : s[l] # "end"
           \/ e = Len(s) /\ \A l \in b..e : s[l] # "end"
    BY <1>2 DEF Stripped
  <2>b. b \in 1..Len(s) /\ e \in 1..Len(s) /\ b <= e
    BY <1>2
  <2> DEFINE r == Cut(s, b, e)
  <2>1. b \in 1..Len(s) + 1 /\ e \in b - 1..Len(s)
    BY <1>n, <1>2
  <2>2. /\ r \in Seq(Line) /\ Len(r) = b - 1 + Len(s) - e
        /\ \A j \in 1..b - 1 : r[j] = s[j]
        /\ \A j \in b..Len(r) : r[j] = s[j + (e - b + 1)]
    BY <2>1, CutLines
  <2> HIDE DEF r
  <2>3. CASE i < b
    <3>1. i \in 1..Len(r) /\ i \in 1..b - 1
      BY <1>n, <1>2, <2>2, <2>3
    <3> QED
      BY <1>2, <2>2, <3>1 DEF r
  <2>4. CASE i \in b..e
    <3>1. s[i] # "end"
      BY HostsAssumption
    <3>2. \A l \in b..i : s[l] # "end"
      <4>1. ASSUME NEW l \in b..i, s[l] = "end"  PROVE FALSE
        <5>1. l # i
          BY <3>1, <4>1
        <5>2. l \in b..e /\ l \in b..e - 1
          BY <1>n, <2>b, <2>4, <5>1
        <5> QED
          BY <2>a, <4>1, <5>2
      <4> QED
        BY <4>1
    <3>3. b \in 1..i /\ s[b] = "begin"
      <4>1. b \in 1..i
        BY <1>n, <2>b, <2>4
      <4> QED
        BY <2>a, <4>1
    <3> QED
      BY <3>2, <3>3 DEF InBlock
  <2>5. CASE i > e
    <3> DEFINE j == i - (e - b + 1)
    <3>1. j \in 1..Len(r) /\ j \in b..Len(r) /\ j + (e - b + 1) = i
      BY <1>n, <1>2, <2>2, <2>5
    <3> HIDE DEF j
    <3>2. r[j] = s[i]
      BY <2>2, <3>1
    <3>3. Strip(s) = r
      BY <1>2 DEF r
    <3> QED
      BY <3>1, <3>2, <3>3
  <2> QED
    BY <1>n, <2>3, <2>4, <2>5
<1> QED
  BY <1>1, <1>2, StripIs

\* A whole file without its block has the others' lines and nothing else.
LEMMA StripCleans ==
  ASSUME NEW s \in Seq(Line), Whole(s)
  PROVE  Clean(Strip(s))
<1>n. Len(s) \in Nat /\ DOMAIN s = 1..Len(s)
  BY LenProperties
<1>o. \A x \in Own \cup Domains : x # "begin" /\ x # "end"
  BY HostsAssumption
<1>1. CASE Strip(s) = s /\ \A l \in 1..Len(s) : s[l] # "begin"
  BY <1>n, <1>1 DEF Whole, BlockAt
<1>2. ASSUME NEW b \in 1..Len(s), NEW e \in 1..Len(s), b <= e, Stripped(s, b, e), Strip(s) = Cut(s, b, e)
      PROVE  Clean(Strip(s))
  <2>a. /\ s[b] = "begin" /\ \A l \in 1..b - 1 : s[l] # "begin"
        /\ \/ s[e] = "end" /\ \A l \in b..e - 1 : s[l] # "end"
           \/ e = Len(s) /\ \A l \in b..e : s[l] # "end"
    BY <1>2 DEF Stripped
  <2>b. b \in 1..Len(s) /\ e \in 1..Len(s) /\ b <= e
    BY <1>2
  <2>1. b \in 1..Len(s) + 1 /\ e \in b - 1..Len(s) /\ s[b] = "begin"
    <3>1. b \in 1..Len(s) + 1 /\ e \in b - 1..Len(s)
      BY <1>n, <2>b
    <3> QED
      BY <2>a, <3>1
  <2>2. ~Clean(s)
    BY <1>n, <1>o, <2>1 DEF Clean
  <2>3. PICK c, f \in DOMAIN s : BlockAt(s, c, f)
    BY <2>2 DEF Whole
  <2>4. /\ c < f /\ s[c] = "begin" /\ s[f] = "end" /\ c \in 1..Len(s) /\ f \in 1..Len(s)
        /\ \A i \in 1..Len(s) : i # c /\ i # f => s[i] \in Own \/ (s[i] \in Domains /\ c < i /\ i < f)
    BY <1>n, <2>3 DEF BlockAt
  <2>5. b = c
    <3>1. b # f
      BY <2>1, <2>4
    <3> QED
      BY <1>o, <2>1, <2>4, <3>1
  <2>6. e = f
    <3>1. ~(e = Len(s) /\ \A l \in b..e : s[l] # "end")
      <4>1. ASSUME e = Len(s)  PROVE f \in b..e /\ s[f] = "end"
        BY <1>n, <2>4, <2>5, <4>1
      <4> QED
        BY <4>1
    <3>2. s[e] = "end"
      BY <2>a, <3>1
    <3> QED
      BY <1>o, <2>4, <3>2
  <2> DEFINE r == Cut(s, b, e)
  <2>7. /\ r \in Seq(Line) /\ Len(r) = b - 1 + Len(s) - e
        /\ \A i \in 1..b - 1 : r[i] = s[i]
        /\ \A i \in b..Len(r) : r[i] = s[i + (e - b + 1)]
    BY <2>1, CutLines
  <2> HIDE DEF r
  <2>8. DOMAIN r = 1..Len(r)
    BY <2>7, LenProperties
  <2>9. ASSUME NEW i \in 1..Len(r)  PROVE r[i] \in Own
    <3>1. CASE i <= b - 1
      <4>1. i \in 1..Len(s) /\ i \in 1..b - 1 /\ i # c /\ i # f /\ ~(c < i)
        BY <1>n, <2>4, <2>5, <3>1
      <4> QED
        BY <2>4, <2>7, <4>1
    <3>2. CASE i >= b
      <4> DEFINE k == i + (e - b + 1)
      <4>1. k \in 1..Len(s) /\ i \in b..Len(r) /\ k # c /\ k # f /\ ~(k < f)
        BY <1>n, <2>4, <2>5, <2>6, <2>7, <3>2
      <4>2. r[i] = s[k]
        BY <2>7, <4>1
      <4> HIDE DEF k
      <4> QED
        BY <2>4, <4>1, <4>2
    <3> QED
      BY <1>n, <2>7, <3>1, <3>2
  <2> QED
    BY <1>2, <2>8, <2>9 DEF Clean, r
<1> QED
  BY <1>1, <1>2, StripIs

-----------------------------------------------------------------------------
(* hosts_import and hosts_add.                                             *)

\* The list of what is kept, up to each line, is what the loop builds.
LEMMA KeptDomains ==
  ASSUME NEW S, NEW list \in Seq(S)
  PROVE  Kept(list) \in Seq(Domains)
<1> DEFINE Next1(f, n) == IF n = 0 THEN <<>>
                          ELSE IF list[n] \in Domains THEN Append(f[n - 1], list[n]) ELSE f[n - 1]
           Built(f, m) == \A n \in 0..m : f[n] = Next1(f, n)
           P(m) == \E f \in [0..m -> Seq(Domains)] : Built(f, m)
           all == 0..Len(list)
<1>n. Len(list) \in Nat
  BY LenProperties
<1>1. \A m \in all : P(m)
  <2> SUFFICES ASSUME {m \in all : ~P(m)} # {} PROVE FALSE
    OBVIOUS
  <2>1. {m \in all : ~P(m)} \in SUBSET Nat
    BY <1>n
  <2>2. PICK m \in all : ~P(m) /\ \A l \in all : ~P(l) => m <= l
    <3> HIDE DEF P
    <3> QED
      BY <2>1, Least
  <2>3. CASE m = 0
    <3> DEFINE f == [n \in 0..0 |-> <<>>]
    <3>1. f \in [0..0 -> Seq(Domains)] /\ Built(f, 0)
      OBVIOUS
    <3> QED
      BY <2>2, <2>3, <3>1
  <2>4. CASE m # 0
    <3>1. m - 1 \in all /\ ~(m <= m - 1) /\ m \in Nat
      BY <1>n, <2>4
    <3>2. P(m - 1)
      <4> HIDE DEF P
      <4> QED
        BY <2>2, <3>1
    <3>3. PICK f \in [0..m - 1 -> Seq(Domains)] : Built(f, m - 1)
      BY <3>2
    <3> DEFINE g == [n \in 0..m |-> IF n = m THEN Next1(f, m) ELSE f[n]]
    <3>4. Next1(f, m) \in Seq(Domains)
      BY <2>4, <3>1, <3>3
    <3>5. g \in [0..m -> Seq(Domains)]
      BY <3>1, <3>3, <3>4
    <3>6. ASSUME NEW n \in 0..m  PROVE g[n] = Next1(g, n)
      <4>1. CASE n = m
        <5>1. g[n] = Next1(f, n) /\ g[n - 1] = f[n - 1]
          BY <2>4, <3>1, <4>1
        <5> HIDE DEF g
        <5> QED
          BY <5>1
      <4>2. CASE n # m
        <5>1. n \in 0..m - 1
          BY <3>1, <4>2
        <5>2. g[n] = f[n] /\ f[n] = Next1(f, n)
          BY <3>3, <4>2, <5>1
        <5>3. n # 0 => g[n - 1] = f[n - 1]
          BY <3>1, <5>1
        <5> HIDE DEF g
        <5> QED
          BY <5>2, <5>3
      <4> QED
        BY <4>1, <4>2
    <3>7. Built(g, m)
      <4> HIDE DEF g, Next1
      <4> QED
        BY <3>6
    <3> HIDE DEF g, Built
    <3> QED
      BY <2>2, <3>5, <3>7
  <2> QED
    BY <2>3, <2>4
<1> DEFINE M == Len(list)
           kept == CHOOSE f : f = [n \in all |-> Next1(f, n)]
<1>2. PICK f \in [all -> Seq(Domains)] : Built(f, M)
  <2>1. P(M)
    <3> HIDE DEF P
    <3>1. M \in all
      BY <1>n
    <3> QED
      BY <1>1, <3>1
  <2> HIDE DEF Built
  <2> QED
    BY <2>1
<1>3. f = [n \in all |-> Next1(f, n)]
  <2> HIDE DEF Next1
  <2> QED
    BY <1>2
<1>4. kept = [n \in all |-> Next1(kept, n)]
  <2> HIDE DEF Next1
  <2> QED
    BY <1>3
<1>5. \A n \in all : kept[n] = Next1(kept, n)
  <2> HIDE DEF Next1, kept
  <2> QED
    BY <1>4
<1> HIDE DEF kept
<1>6. \A n \in all : kept[n] \in Seq(Domains)
  <2> DEFINE T == {n \in all : kept[n] \notin Seq(Domains)}
  <2> SUFFICES ASSUME T # {} PROVE FALSE
    OBVIOUS
  <2>1. T \in SUBSET Nat
    BY <1>n
  <2>2. PICK m \in T : \A l \in T : m <= l
    BY <2>1, Least
  <2>a. m \in all /\ kept[m] \notin Seq(Domains) /\ kept[m] = Next1(kept, m)
    <3> HIDE DEF Next1
    <3> QED
      BY <1>5, <2>2
  <2>3. m # 0
    <3>1. <<>> \in Seq(Domains)
      OBVIOUS
    <3> QED
      BY <2>a, <3>1
  <2>4. m - 1 \in all /\ m - 1 \notin T
    BY <1>n, <2>1, <2>2, <2>3
  <2>5. kept[m - 1] \in Seq(Domains)
    BY <2>4
  <2>6. kept[m] = IF list[m] \in Domains THEN Append(kept[m - 1], list[m]) ELSE kept[m - 1]
    BY <2>a, <2>3
  <2>7. list[m] \in Domains => Append(kept[m - 1], list[m]) \in Seq(Domains)
    BY <2>5
  <2> QED
    BY <2>a, <2>5, <2>6, <2>7
<1>7. Kept(list) = kept[M]
  BY DEF Kept, kept
<1> QED
  BY <1>6, <1>7, <1>n

\* What is below another of n lines is not the last of them.
LEMMA NotLast ==
  ASSUME NEW n \in Nat, NEW i \in 1..n, NEW j \in 1..n, i < j
  PROVE  i # n
OBVIOUS

\* The last line with its line end: nothing but a marker that had none changes.
LEMMA EndedIs ==
  ASSUME NEW s \in Seq(Line)
  PROVE  /\ LineEnded(s) \in Seq(Line) /\ Len(LineEnded(s)) = Len(s)
         /\ \A i \in 1..Len(s) : i # Len(s) => LineEnded(s)[i] = s[i]
         /\ \A i \in 1..Len(s) : s[i] \notin {"begincut", "endcut"} => LineEnded(s)[i] = s[i]
         /\ \A i \in 1..Len(s) : LineEnded(s)[i] = "begincut" => s[i] = "begincut"
         /\ \A i \in 1..Len(s) : LineEnded(s)[i] = "begin" => s[i] \in {"begin", "begincut"}
<1>n. Len(s) \in Nat /\ DOMAIN s = 1..Len(s) /\ s \in [1..Len(s) -> Line]
  BY LenProperties
<1>1. CASE s = <<>>
  BY <1>n, <1>1 DEF LineEnded
<1>2. CASE s # <<>>
  <2>1. Len(s) \in 1..Len(s)
    BY <1>n, <1>2, EmptySeq
  <2>2. s[Len(s)] \in Line
    BY <1>n, <2>1
  <2>3. EndLine(s[Len(s)]) \in Line
    BY <2>2 DEF EndLine, Line
  <2>4. LineEnded(s) = [s EXCEPT ![Len(s)] = EndLine(s[Len(s)])]
    BY <1>2 DEF LineEnded
  <2>5. LineEnded(s) \in Seq(Line) /\ Len(LineEnded(s)) = Len(s)
    BY <2>1, <2>3, <2>4, ExceptSeq
  <2>6. /\ LineEnded(s)[Len(s)] = EndLine(s[Len(s)])
        /\ \A i \in 1..Len(s) : i # Len(s) => LineEnded(s)[i] = s[i]
    BY <1>n, <2>1, <2>4
  <2> QED
    BY <2>5, <2>6 DEF EndLine
<1> QED
  BY <1>1, <1>2

\* It leaves one stretch, one begin marker and a whole file what they are.
LEMMA EndedKeeps ==
  ASSUME NEW s \in Seq(Line)
  PROVE  /\ OneStretch(s) => OneStretch(LineEnded(s))
         /\ NoneCut(s) => NoneCut(LineEnded(s)) /\ (OneBegin(s) => OneBegin(LineEnded(s)))
         /\ Clean(s) => Clean(LineEnded(s))
         /\ Whole(s) => Whole(LineEnded(s))
         /\ \A x \in Range(s) : x \in Own => x \in Range(LineEnded(s))
<1> DEFINE r == LineEnded(s)
<1>1. /\ r \in Seq(Line) /\ Len(r) = Len(s)
      /\ \A i \in 1..Len(s) : i # Len(s) => r[i] = s[i]
      /\ \A i \in 1..Len(s) : s[i] \notin {"begincut", "endcut"} => r[i] = s[i]
      /\ \A i \in 1..Len(s) : r[i] = "begincut" => s[i] = "begincut"
      /\ \A i \in 1..Len(s) : r[i] = "begin" => s[i] \in {"begin", "begincut"}
  BY EndedIs
<1> HIDE DEF r
<1>n. Len(s) \in Nat /\ DOMAIN s = 1..Len(s) /\ DOMAIN r = 1..Len(s)
  BY <1>1, LenProperties
<1>o. \A x \in Own \cup Domains \cup {"begin", "end"} : x \notin {"begincut", "endcut"}
  BY HostsAssumption
<1>2. ASSUME OneStretch(s)  PROVE OneStretch(r)
  <2> SUFFICES ASSUME NEW i \in 1..Len(s), NEW j \in 1..Len(s), NEW l \in 1..Len(s),
                      r[i] = "begin", r[j] \in {"begin", "begincut"}, i < l, l < j, r[l] = "end"
               PROVE  FALSE
    BY <1>n DEF OneStretch
  <2>1. i # Len(s) /\ l # Len(s)
    <3>1. i < j
      BY <1>n
    <3> QED
      BY <1>n, <3>1, NotLast
  <2>2. s[i] = "begin" /\ s[l] = "end" /\ s[j] \in {"begin", "begincut"}
    BY <1>1, <2>1
  <2> QED
    BY <1>n, <1>2, <2>2 DEF OneStretch
<1>3. ASSUME NoneCut(s)  PROVE NoneCut(r) /\ (OneBegin(s) => OneBegin(r))
  <2>1. \A i \in 1..Len(s) : r[i] # "begincut" /\ (r[i] = "begin" => s[i] = "begin")
    BY <1>1, <1>3, <1>n DEF NoneCut
  <2> QED
    BY <1>n, <2>1 DEF NoneCut, OneBegin
<1>4. ASSUME Clean(s)  PROVE Clean(r)
  BY <1>1, <1>4, <1>n, <1>o DEF Clean
<1>5. ASSUME Whole(s)  PROVE Whole(r)
  <2>1. \A i \in 1..Len(s) : s[i] \in Own \cup Domains \cup {"begin", "end"}
    BY <1>5, <1>n DEF Whole, Clean, BlockAt
  <2>2. \A i \in 1..Len(s) : r[i] = s[i]
    BY <1>1, <1>o, <2>1
  <2> QED
    BY <1>5, <1>n, <2>2 DEF Whole, Clean, BlockAt
<1>6. ASSUME NEW x \in Range(s), x \in Own  PROVE x \in Range(r)
  <2>1. PICK i \in 1..Len(s) : x = s[i]
    BY <1>n DEF Range
  <2> QED
    BY <1>1, <1>6, <1>n, <1>o, <2>1 DEF Range
<1> QED
  BY <1>2, <1>3, <1>4, <1>5, <1>6 DEF r

\* A block below what is left of the file.
LEMMA Blocked ==
  ASSUME NEW s \in Seq(Line), NEW k \in Seq(Domains)
  PROVE  LET r == s \o <<"begin">> \o k \o <<"end">> IN
         /\ r \in Seq(Line) /\ Len(r) = Len(s) + Len(k) + 2
         /\ \A i \in 1..Len(s) : r[i] = s[i]
         /\ r[Len(s) + 1] = "begin" /\ r[Len(s) + Len(k) + 2] = "end"
         /\ \A i \in Len(s) + 2..Len(s) + Len(k) + 1 : r[i] \in Domains
<1>1. /\ Len(s) \in Nat /\ Len(k) \in Nat /\ k \in Seq(Line) /\ \A i \in 1..Len(k) : k[i] \in Domains
  BY LenProperties, SeqMonotonic DEF Line
<1>2. /\ <<"begin">> \in Seq(Line) /\ Len(<<"begin">>) = 1 /\ <<"begin">>[1] = "begin"
      /\ <<"end">> \in Seq(Line) /\ Len(<<"end">>) = 1 /\ <<"end">>[1] = "end"
  BY DEF Line
<1> DEFINE u == s \o <<"begin">>
           v == u \o k
           r == v \o <<"end">>
<1>3. u \in Seq(Line) /\ Len(u) = Len(s) + 1 /\ (\A i \in 1..Len(s) : u[i] = s[i]) /\ u[Len(s) + 1] = "begin"
  BY <1>1, <1>2, ConcatProperties
<1> HIDE DEF u
<1>4. /\ v \in Seq(Line) /\ Len(v) = Len(s) + 1 + Len(k)
      /\ \A i \in 1..Len(s) + 1 + Len(k) : v[i] = IF i <= Len(s) + 1 THEN u[i] ELSE k[i - (Len(s) + 1)]
  <2>1. u \in Seq(Line) /\ k \in Seq(Line)
    BY <1>1, <1>3
  <2>2. /\ v \in Seq(Line) /\ Len(v) = Len(u) + Len(k)
        /\ \A i \in 1..Len(u) + Len(k) : v[i] = IF i <= Len(u) THEN u[i] ELSE k[i - Len(u)]
    BY <2>1, ConcatProperties
  <2> HIDE DEF v
  <2> QED
    BY <1>3, <2>2
<1> HIDE DEF v
<1>5. /\ r \in Seq(Line) /\ Len(r) = Len(s) + Len(k) + 2
      /\ \A i \in 1..Len(s) + 1 + Len(k) : r[i] = v[i]
      /\ r[Len(s) + Len(k) + 2] = "end"
  <2>1. /\ r \in Seq(Line) /\ Len(r) = Len(v) + 1
        /\ \A i \in 1..Len(v) + 1 : r[i] = IF i <= Len(v) THEN v[i] ELSE <<"end">>[i - Len(v)]
    <3>1. v \in Seq(Line) /\ <<"end">> \in Seq(Line)
      BY <1>2, <1>4
    <3>2. /\ r \in Seq(Line) /\ Len(r) = Len(v) + Len(<<"end">>)
          /\ \A i \in 1..Len(v) + Len(<<"end">>) :
               r[i] = IF i <= Len(v) THEN v[i] ELSE <<"end">>[i - Len(v)]
      BY <3>1, ConcatProperties
    <3> HIDE DEF r
    <3> QED
      BY <1>2, <3>2
  <2>2. r[Len(v) + 1] = <<"end">>[Len(v) + 1 - Len(v)]
    BY <1>1, <1>4, <2>1
  <2>3. Len(v) + 1 - Len(v) = 1 /\ Len(v) + 1 = Len(s) + Len(k) + 2
    BY <1>1, <1>4
  <2> HIDE DEF r
  <2> QED
    BY <1>1, <1>2, <1>4, <2>1, <2>2, <2>3
<1> HIDE DEF r
<1>6. (\A i \in 1..Len(s) : r[i] = s[i]) /\ r[Len(s) + 1] = "begin"
  <2>1. ASSUME NEW i \in 1..Len(s) + 1  PROVE r[i] = u[i]
    <3>1. i \in 1..Len(s) + 1 + Len(k) /\ i <= Len(s) + 1
      BY <1>1
    <3> QED
      BY <1>4, <1>5, <3>1
  <2>2. Len(s) + 1 \in 1..Len(s) + 1 /\ \A i \in 1..Len(s) : i \in 1..Len(s) + 1
    BY <1>1
  <2> QED
    BY <1>3, <2>1, <2>2
<1>7. ASSUME NEW i \in Len(s) + 2..Len(s) + Len(k) + 1  PROVE r[i] \in Domains
  <2>1. i \in 1..Len(s) + 1 + Len(k) /\ ~(i <= Len(s) + 1) /\ i - (Len(s) + 1) \in 1..Len(k)
    BY <1>1
  <2>2. r[i] = k[i - (Len(s) + 1)]
    BY <1>4, <1>5, <2>1
  <2> QED
    BY <1>1, <2>1, <2>2
<1> QED
  BY <1>5, <1>6, <1>7 DEF r, u, v

\* What the one begin marker is, and the one block, in a file put together so.
LEMMA BlockedIs ==
  ASSUME NEW s \in Seq(Line), NEW n \in Nat, NEW r \in Seq(Line), Len(r) = Len(s) + n + 2,
         \A i \in 1..Len(s) : r[i] = s[i],
         r[Len(s) + 1] = "begin", r[Len(s) + n + 2] = "end",
         \A i \in Len(s) + 2..Len(s) + n + 1 : r[i] \in Domains
  PROVE  /\ (\A i \in 1..Len(s) : s[i] # "begin") => OneBegin(r)
         /\ (\A i \in 1..Len(s) : i # Len(s) => s[i] # "begin") => OneStretch(r)
         /\ NoneCut(s) => NoneCut(r)
         /\ Clean(s) => Whole(r)
<1>n. /\ Len(s) \in Nat /\ Len(r) \in Nat /\ DOMAIN r = 1..Len(r) /\ DOMAIN s = 1..Len(s)
      /\ \A x \in Own \cup Domains : x # "begin" /\ x # "begincut"
  BY LenProperties, HostsAssumption
<1>1. ASSUME \A i \in 1..Len(s) : s[i] # "begin"  PROVE OneBegin(r)
  <2>1. ASSUME NEW i \in 1..Len(r), r[i] = "begin"  PROVE i = Len(s) + 1
    <3>1. CASE i <= Len(s)
      <4>1. i \in 1..Len(s)
        BY <1>n, <3>1
      <4> QED
        BY <1>1, <2>1, <4>1
    <3>2. CASE i > Len(s) + 1 /\ i < Len(r)
      <4>1. i \in Len(s) + 2..Len(s) + n + 1
        BY <1>n, <3>2
      <4> QED
        BY <1>n, <2>1, <4>1
    <3>3. CASE i = Len(r)
      BY <2>1, <3>3
    <3> QED
      BY <1>n, <3>1, <3>2, <3>3
  <2> QED
    BY <1>n, <2>1 DEF OneBegin
<1>2. ASSUME Clean(s)  PROVE Whole(r)
  <2>1. ASSUME NEW i \in 1..Len(r), i # Len(s) + 1, i # Len(s) + n + 2
        PROVE  r[i] \in Own \/ (r[i] \in Domains /\ Len(s) + 1 < i /\ i < Len(s) + n + 2)
    <3>1. CASE i <= Len(s)
      <4>1. i \in 1..Len(s)
        BY <1>n, <3>1
      <4> QED
        BY <1>n, <1>2, <4>1 DEF Clean
    <3>2. CASE i > Len(s)
      <4>1. i \in Len(s) + 2..Len(s) + n + 1 /\ Len(s) + 1 < i /\ i < Len(s) + n + 2
        BY <1>n, <2>1, <3>2
      <4> QED
        BY <4>1
    <3> QED
      BY <1>n, <3>1, <3>2
  <2>2. Len(s) + 1 \in DOMAIN r /\ Len(s) + n + 2 \in DOMAIN r /\ Len(s) + 1 < Len(s) + n + 2
    BY <1>n
  <2>3. BlockAt(r, Len(s) + 1, Len(s) + n + 2)
    BY <1>n, <2>1, <2>2 DEF BlockAt
  <2> QED
    BY <2>2, <2>3 DEF Whole
<1>3. ASSUME NEW i \in 1..Len(r), i > Len(s) + 1  PROVE r[i] # "begin" /\ r[i] # "begincut"
  <2>1. CASE i < Len(r)
    <3>1. i \in Len(s) + 2..Len(s) + n + 1
      BY <1>n, <1>3, <2>1
    <3> QED
      BY <1>n, <3>1
  <2>2. CASE i = Len(r)
    BY <2>2
  <2> QED
    BY <1>n, <2>1, <2>2
<1>4. ASSUME \A i \in 1..Len(s) : i # Len(s) => s[i] # "begin"  PROVE OneStretch(r)
  <2> SUFFICES ASSUME NEW i \in 1..Len(r), NEW j \in 1..Len(r), NEW l \in 1..Len(r),
                      r[i] = "begin", r[j] \in {"begin", "begincut"}, i < l, l < j
               PROVE  FALSE
    BY <1>n DEF OneStretch
  <2>1. ~(j > Len(s) + 1)
    BY <1>3
  <2>2. i \in Int /\ j \in Int /\ l \in Int /\ 1 <= i
    BY <1>n
  <2>3. i < Len(s)
    BY <1>n, <2>1, <2>2
  <2>4. i \in 1..Len(s) /\ i # Len(s)
    <3>1. i # Len(s)
      <4>1. \A n_ \in Nat : \A i_ \in Int : i_ < n_ => i_ # n_
        OBVIOUS
      <4>2. Len(s) \in Nat
        BY <1>n
      <4> QED
        BY <2>2, <2>3, <4>1, <4>2
    <3>2. i \in 1..Len(s)
      BY <1>n, <2>2, <2>3
    <3> QED
      BY <3>1, <3>2
  <2> QED
    BY <1>4, <2>4
<1>5. ASSUME NoneCut(s)  PROVE NoneCut(r)
  <2>1. ASSUME NEW i \in 1..Len(r)  PROVE r[i] # "begincut"
    <3>1. CASE i <= Len(s)
      <4>1. i \in 1..Len(s)
        BY <1>n, <3>1
      <4> QED
        BY <1>5, <1>n, <4>1 DEF NoneCut
    <3>2. CASE i = Len(s) + 1
      BY <3>2
    <3> QED
      BY <1>n, <1>3, <3>1, <3>2
  <2> QED
    BY <1>n, <2>1 DEF NoneCut
<1> QED
  BY <1>1, <1>2, <1>4, <1>5

LEMMA ImportedIs ==
  ASSUME NEW s \in Seq(Line), NEW list \in Lists, OneStretch(s)
  PROVE  /\ Imported(s, list) \in Seq(Line) /\ OneStretch(Imported(s, list))
         /\ NoneCut(s) => NoneCut(Imported(s, list)) /\ OneBegin(Imported(s, list))
         /\ Whole(s) => Whole(Imported(s, list))
         /\ \A j \in 1..Len(Strip(s)) : Strip(s)[j] \in Own => Strip(s)[j] \in Range(Imported(s, list))
<1> DEFINE x == Strip(s)
           y == LineEnded(x)
           k == Kept(list)
           r == y \o <<"begin">> \o k \o <<"end">>
<1>1. /\ x \in Seq(Line) /\ \A i \in 1..Len(x) : x[i] # "begin"
      /\ NoneCut(s) => NoneCut(x)
  BY StripLeaves
<1>2. k \in Seq(Domains)
  BY KeptDomains, HostsAssumption
<1>3. Whole(s) => Clean(x)
  BY StripCleans
<1>4. Imported(s, list) = r
  BY DEF Imported
<1> HIDE DEF x, k
<1>5. /\ y \in Seq(Line) /\ Len(y) = Len(x)
      /\ \A i \in 1..Len(x) : i # Len(x) => y[i] = x[i]
      /\ \A i \in 1..Len(x) : y[i] = "begin" => x[i] \in {"begin", "begincut"}
  BY <1>1, EndedIs
<1>6. /\ NoneCut(x) => NoneCut(y)
      /\ Clean(x) => Clean(y)
      /\ \A z \in Range(x) : z \in Own => z \in Range(y)
  BY <1>1, EndedKeeps
<1> HIDE DEF y
<1>7. /\ r \in Seq(Line) /\ Len(r) = Len(y) + Len(k) + 2
      /\ \A i \in 1..Len(y) : r[i] = y[i]
      /\ r[Len(y) + 1] = "begin" /\ r[Len(y) + Len(k) + 2] = "end"
      /\ \A i \in Len(y) + 2..Len(y) + Len(k) + 1 : r[i] \in Domains
  BY <1>2, <1>5, Blocked
<1> HIDE DEF r
<1>8. Len(k) \in Nat /\ Len(x) \in Nat /\ DOMAIN x = 1..Len(x) /\ DOMAIN y = 1..Len(x) /\ DOMAIN r = 1..Len(r)
  BY <1>1, <1>2, <1>5, <1>7, LenProperties
<1>9. /\ (\A i \in 1..Len(y) : y[i] # "begin") => OneBegin(r)
      /\ (\A i \in 1..Len(y) : i # Len(y) => y[i] # "begin") => OneStretch(r)
      /\ NoneCut(y) => NoneCut(r)
      /\ Clean(y) => Whole(r)
  BY <1>5, <1>7, <1>8, BlockedIs
<1>10. \A i \in 1..Len(y) : i # Len(y) => y[i] # "begin"
  BY <1>1, <1>5
<1>11. ASSUME NoneCut(s)  PROVE NoneCut(r) /\ OneBegin(r)
  <2>1. NoneCut(x)
    BY <1>1, <1>11
  <2>2. \A i \in 1..Len(y) : y[i] # "begin"
    BY <1>1, <1>5, <1>8, <2>1 DEF NoneCut
  <2> QED
    BY <1>6, <1>9, <2>1, <2>2
<1>12. ASSUME NEW j \in 1..Len(x), x[j] \in Own  PROVE x[j] \in Range(r)
  <2>1. x[j] \in Range(x)
    BY <1>8 DEF Range
  <2>2. PICK i \in 1..Len(x) : y[i] = x[j]
    BY <1>6, <1>8, <1>12, <2>1 DEF Range
  <2>3. i \in 1..Len(y) /\ i \in DOMAIN r
    <3>1. i \in 1..Len(y) /\ Len(y) \in Nat
      BY <1>5, <1>8
    <3>2. Len(r) = Len(y) + Len(k) + 2 /\ DOMAIN r = 1..Len(r)
      BY <1>7, <1>8
    <3> QED
      BY <1>8, <3>1, <3>2
  <2>4. r[i] = x[j]
    BY <1>7, <2>2, <2>3
  <2> QED
    BY <2>3, <2>4 DEF Range
<1>13. Whole(s) => Whole(r)
  BY <1>3, <1>6, <1>9
<1>14. OneStretch(r)
  BY <1>9, <1>10
<1> QED
  BY <1>4, <1>7, <1>11, <1>12, <1>13, <1>14 DEF x

-----------------------------------------------------------------------------
(* A line put in, a line taken out, a write cut short.                     *)

LEMMA PutIs ==
  ASSUME NEW s \in Seq(Line), NEW u \in Own \cup Domains, NEW i \in 1..Len(s) + 1
  PROVE  /\ InsertAt(s, i, u) \in Seq(Line) /\ u \in Range(InsertAt(s, i, u))
         /\ OneBegin(s) => OneBegin(InsertAt(s, i, u))
         /\ OneStretch(s) => OneStretch(InsertAt(s, i, u))
         /\ NoneCut(s) => NoneCut(InsertAt(s, i, u))
         /\ Range(s) \subseteq Range(InsertAt(s, i, u))
<1> DEFINE r == InsertAt(s, i, u)
<1>1. /\ r \in Seq(Line) /\ Len(r) = Len(s) + 1
      /\ \A j \in 1..i - 1 : r[j] = s[j]
      /\ r[i] = u
      /\ \A j \in i + 1..Len(s) + 1 : r[j] = s[j - 1]
  BY PutLines
<1>n. /\ Len(s) \in Nat /\ DOMAIN s = 1..Len(s) /\ u \notin {"begin", "begincut", "end"}
  BY LenProperties, HostsAssumption
<1> HIDE DEF r
<1>2. DOMAIN r = 1..Len(s) + 1
  BY <1>1, LenProperties
<1>3. u \in Range(r)
  BY <1>n, <1>1, <1>2 DEF Range
<1>6. ASSUME NEW j \in DOMAIN r, r[j] \in {"begin", "begincut", "end"}
      PROVE  j # i /\ (j < i => j \in DOMAIN s /\ s[j] = r[j]) /\ (j > i => j - 1 \in DOMAIN s /\ s[j - 1] = r[j])
  <2>1. j # i
    BY <1>n, <1>1, <1>6
  <2>2. ASSUME j < i  PROVE j \in DOMAIN s /\ s[j] = r[j]
    <3>1. j \in 1..i - 1 /\ j \in 1..Len(s)
      BY <1>n, <1>2, <2>2
    <3> QED
      BY <1>n, <1>1, <3>1
  <2>3. ASSUME j > i  PROVE j - 1 \in DOMAIN s /\ s[j - 1] = r[j]
    <3>1. j \in i + 1..Len(s) + 1 /\ j - 1 \in 1..Len(s)
      BY <1>n, <1>2, <2>3
    <3> QED
      BY <1>n, <1>1, <3>1
  <2> QED
    BY <2>1, <2>2, <2>3
<1>7. ASSUME NoneCut(s)  PROVE NoneCut(r)
  <2>1. ASSUME NEW j \in DOMAIN r, r[j] = "begincut"  PROVE FALSE
    <3>1. j < i \/ j > i
      BY <1>n, <1>2, <1>6, <2>1
    <3> QED
      BY <1>6, <1>7, <2>1, <3>1 DEF NoneCut
  <2> QED
    BY <2>1 DEF NoneCut
<1>8. ASSUME OneStretch(s)  PROVE OneStretch(r)
  <2> SUFFICES ASSUME NEW c \in DOMAIN r, NEW f \in DOMAIN r, NEW l \in DOMAIN r,
                      r[c] = "begin", r[f] \in {"begin", "begincut"}, c < l, l < f, r[l] = "end"
               PROVE  FALSE
    BY DEF OneStretch
  <2> DEFINE Was(j) == IF j < i THEN j ELSE j - 1
  <2>1. /\ Was(c) \in DOMAIN s /\ s[Was(c)] = r[c] /\ c # i
        /\ Was(f) \in DOMAIN s /\ s[Was(f)] = r[f] /\ f # i
        /\ Was(l) \in DOMAIN s /\ s[Was(l)] = r[l] /\ l # i
    <3>1. ASSUME NEW j \in DOMAIN r, r[j] \in {"begin", "begincut", "end"}
          PROVE  Was(j) \in DOMAIN s /\ s[Was(j)] = r[j] /\ j # i
      <4>1. j # i /\ (j < i \/ j > i)
        BY <1>n, <1>2, <1>6, <3>1
      <4>2. j > i => ~(j < i)
        BY <1>n, <1>2
      <4> QED
        BY <1>6, <3>1, <4>1, <4>2
    <3> HIDE DEF Was
    <3> QED
      BY <3>1
  <2>2. Was(c) < Was(l) /\ Was(l) < Was(f)
    BY <1>n, <1>2, <2>1
  <2> HIDE DEF Was
  <2> QED
    BY <1>8, <2>1, <2>2 DEF OneStretch
<1>4. ASSUME OneBegin(s)  PROVE OneBegin(r)
  <2> DEFINE Was(j) == IF j < i THEN j ELSE j - 1
  <2>1. ASSUME NEW j \in DOMAIN r, r[j] = "begin"  PROVE Was(j) \in DOMAIN s /\ s[Was(j)] = "begin" /\ j # i
    <3>1. CASE j < i
      <4>1. j \in 1..i - 1 /\ j \in 1..Len(s) /\ j # i
        BY <1>n, <1>2, <3>1
      <4> QED
        BY <1>n, <1>1, <2>1, <3>1, <4>1
    <3>2. CASE j > i
      <4>1. j \in i + 1..Len(s) + 1 /\ j - 1 \in 1..Len(s) /\ j # i /\ ~(j < i)
        BY <1>n, <1>2, <3>2
      <4> QED
        BY <1>n, <1>1, <2>1, <4>1
    <3>3. CASE j = i
      BY <1>n, <1>1, <2>1, <3>3
    <3> QED
      BY <1>n, <1>2, <3>1, <3>2, <3>3
  <2>2. ASSUME NEW j \in DOMAIN r, NEW l \in DOMAIN r, r[j] = "begin", r[l] = "begin"  PROVE j = l
    <3>1. Was(j) = Was(l) /\ j # i /\ l # i
      <4> HIDE DEF Was
      <4> QED
        BY <1>4, <2>1, <2>2 DEF OneBegin
    <3> QED
      BY <1>n, <1>2, <3>1
  <2> QED
    BY <2>2 DEF OneBegin
<1>5. ASSUME NEW j \in DOMAIN s  PROVE s[j] \in Range(r)
  <2>1. CASE j < i
    <3>1. j \in 1..i - 1 /\ j \in DOMAIN r
      BY <1>n, <1>2, <2>1
    <3> QED
      BY <1>1, <3>1 DEF Range
  <2>2. CASE j >= i
    <3>1. j + 1 \in i + 1..Len(s) + 1 /\ j + 1 \in DOMAIN r /\ (j + 1) - 1 = j
      BY <1>n, <1>2, <2>2
    <3>2. r[j + 1] = s[j]
      BY <1>1, <3>1
    <3> QED
      BY <3>1, <3>2 DEF Range
  <2> QED
    BY <1>n, <2>1, <2>2
<1> QED
  BY <1>1, <1>3, <1>4, <1>5, <1>7, <1>8 DEF r, Range

\* A line of the others' goes anywhere, a domain below the begin marker.
LEMMA PutWhole ==
  ASSUME NEW s \in Seq(Line), NEW u \in Own \cup Domains, NEW i \in 1..Len(s) + 1,
         Whole(s), u \in Own \/ (i > 1 /\ s[i - 1] = "begin")
  PROVE  Whole(InsertAt(s, i, u))
<1> DEFINE r == InsertAt(s, i, u)
<1>n. Len(s) \in Nat /\ DOMAIN s = 1..Len(s)
  BY LenProperties
<1>o. \A x \in Own \cup Domains : x # "begin" /\ x # "end"
  BY HostsAssumption
<1>1. /\ r \in Seq(Line) /\ Len(r) = Len(s) + 1
      /\ \A j \in 1..i - 1 : r[j] = s[j]
      /\ r[i] = u
      /\ \A j \in i + 1..Len(s) + 1 : r[j] = s[j - 1]
  BY PutLines
<1> HIDE DEF r
<1>2. DOMAIN r = 1..Len(s) + 1
  BY <1>1, LenProperties
<1> DEFINE Was(j) == IF j < i THEN j ELSE j - 1
<1>3. ASSUME NEW j \in DOMAIN r, j # i  PROVE Was(j) \in DOMAIN s /\ r[j] = s[Was(j)]
  <2>1. CASE j < i
    <3>1. j \in 1..i - 1 /\ j \in DOMAIN s
      BY <1>n, <1>2, <2>1
    <3> QED
      BY <1>1, <2>1, <3>1
  <2>2. CASE j > i
    <3>1. j \in i + 1..Len(s) + 1 /\ j - 1 \in DOMAIN s /\ ~(j < i)
      BY <1>n, <1>2, <2>2
    <3> QED
      BY <1>1, <3>1
  <2> QED
    BY <1>n, <1>2, <1>3, <2>1, <2>2
<1>4. CASE Clean(s)
  <2>1. u \in Own
    <3>1. i > 1 => i - 1 \in DOMAIN s
      BY <1>n
    <3> QED
      BY <1>o, <1>4, <3>1 DEF Clean
  <2>2. \A j \in DOMAIN r : r[j] \in Own
    <3> HIDE DEF Was
    <3> QED
      BY <1>1, <1>3, <1>4, <2>1 DEF Clean
  <2> QED
    BY <2>2 DEF Whole, Clean, r
<1>5. ASSUME NEW c \in DOMAIN s, NEW f \in DOMAIN s, BlockAt(s, c, f)  PROVE Whole(r)
  <2>1. /\ c < f /\ s[c] = "begin" /\ s[f] = "end" /\ c \in 1..Len(s) /\ f \in 1..Len(s)
        /\ \A j \in DOMAIN s \ {c, f} : s[j] \in Own \/ (s[j] \in Domains /\ c < j /\ j < f)
    BY <1>n, <1>5 DEF BlockAt
  <2> DEFINE Is(j) == IF j < i THEN j ELSE j + 1
  <2>2. ASSUME NEW j \in DOMAIN s  PROVE Is(j) \in DOMAIN r /\ Is(j) # i /\ r[Is(j)] = s[j]
    <3>1. Is(j) \in DOMAIN r /\ Is(j) # i /\ Was(Is(j)) = j
      BY <1>n, <1>2
    <3> HIDE DEF Is, Was
    <3> QED
      BY <1>3, <3>1
  <2>3. Is(c) < Is(f)
    BY <1>n, <2>1
  <2>4. ASSUME NEW j \in DOMAIN r \ {Is(c), Is(f)}
        PROVE  r[j] \in Own \/ (r[j] \in Domains /\ Is(c) < j /\ j < Is(f))
    <3>1. CASE j = i /\ u \notin Own
      <4>1. i > 1 /\ s[i - 1] = "begin" /\ i - 1 \in DOMAIN s
        BY <1>n, <3>1
      <4>2. i - 1 = c
        <5>1. i - 1 # f
          BY <2>1, <4>1
        <5> QED
          BY <1>o, <2>1, <4>1, <5>1
      <4>3. Is(c) < i /\ i < Is(f)
        BY <1>n, <2>1, <4>2
      <4> QED
        BY <1>1, <3>1, <4>3
    <3>2. CASE j = i /\ u \in Own
      BY <1>1, <3>2
    <3>3. CASE j # i
      <4>1. Was(j) \in DOMAIN s /\ r[j] = s[Was(j)]
        BY <1>3, <3>3
      <4>2. Was(j) # c /\ Was(j) # f
        BY <1>n, <1>2, <2>1, <3>3
      <4>3. /\ c < Was(j) => Is(c) < j
            /\ Was(j) < f => j < Is(f)
        BY <1>n, <1>2, <2>1, <3>3
      <4>4. s[Was(j)] \in Own \/ (s[Was(j)] \in Domains /\ c < Was(j) /\ Was(j) < f)
        <5> HIDE DEF Was
        <5> QED
          BY <2>1, <4>1, <4>2
      <4> HIDE DEF Was, Is
      <4> QED
        BY <4>1, <4>3, <4>4
    <3> QED
      BY <3>1, <3>2, <3>3
  <2>5. Is(c) \in DOMAIN r /\ Is(f) \in DOMAIN r /\ r[Is(c)] = "begin" /\ r[Is(f)] = "end"
    <3> HIDE DEF Is
    <3> QED
      BY <2>1, <2>2
  <2> HIDE DEF Is
  <2>6. BlockAt(r, Is(c), Is(f))
    BY <2>3, <2>4, <2>5 DEF BlockAt
  <2> QED
    BY <2>5, <2>6 DEF Whole
<1> QED
  BY <1>4, <1>5 DEF Whole, r

LEMMA TakenIs ==
  ASSUME NEW s \in Seq(Line), NEW i \in 1..Len(s)
  PROVE  /\ RemoveAt(s, i) \in Seq(Line)
         /\ OneBegin(s) => OneBegin(RemoveAt(s, i))
         /\ OneStretch(s) => OneStretch(RemoveAt(s, i))
         /\ NoneCut(s) => NoneCut(RemoveAt(s, i))
         /\ \A x \in Range(s) : x # s[i] => x \in Range(RemoveAt(s, i))
         /\ Whole(s) /\ s[i] \notin {"begin", "end"} => Whole(RemoveAt(s, i))
<1> DEFINE r == Cut(s, i, i)
<1>n. Len(s) \in Nat /\ DOMAIN s = 1..Len(s)
  BY LenProperties
<1>1. /\ r \in Seq(Line) /\ Len(r) = i - 1 + Len(s) - i
      /\ \A j \in 1..i - 1 : r[j] = s[j]
      /\ \A j \in i..Len(r) : r[j] = s[j + (i - i + 1)]
  <2>1. i \in 1..Len(s) + 1 /\ i \in i - 1..Len(s)
    BY <1>n
  <2> QED
    BY <2>1, CutLines
<1>r. RemoveAt(s, i) = r
  BY DEF RemoveAt, Cut
<1> HIDE DEF r
<1>2. DOMAIN r = 1..Len(s) - 1
  <2>1. DOMAIN r = 1..Len(r)
    BY <1>1, LenProperties
  <2> QED
    BY <1>n, <1>1, <2>1
<1> DEFINE Was(j) == IF j < i THEN j ELSE j + 1
           Is(j) == IF j < i THEN j ELSE j - 1
<1>3. ASSUME NEW j \in DOMAIN r  PROVE Was(j) \in DOMAIN s /\ r[j] = s[Was(j)] /\ Was(j) # i
  <2>1. CASE j < i
    <3>1. j \in 1..i - 1 /\ j \in DOMAIN s /\ j # i
      BY <1>n, <1>2, <2>1
    <3> QED
      BY <1>1, <2>1, <3>1
  <2>2. CASE j >= i
    <3>1. j \in i..Len(r) /\ j + 1 \in DOMAIN s /\ ~(j < i) /\ j + 1 # i /\ j + (i - i + 1) = j + 1
      BY <1>n, <1>1, <1>2, <2>2
    <3> QED
      BY <1>1, <3>1
  <2> QED
    BY <1>n, <1>2, <2>1, <2>2
<1>4. ASSUME NEW j \in DOMAIN s, j # i  PROVE Is(j) \in DOMAIN r /\ r[Is(j)] = s[j]
  <2>1. Is(j) \in DOMAIN r /\ Was(Is(j)) = j
    BY <1>n, <1>2, <1>4
  <2> HIDE DEF Is, Was
  <2> QED
    BY <1>3, <2>1
<1>5. ASSUME OneBegin(s)  PROVE OneBegin(r)
  <2>1. ASSUME NEW j \in DOMAIN r, NEW l \in DOMAIN r, r[j] = "begin", r[l] = "begin"  PROVE j = l
    <3>1. Was(j) = Was(l)
      <4> HIDE DEF Was
      <4> QED
        BY <1>3, <1>5, <2>1 DEF OneBegin
    <3> QED
      BY <1>n, <1>2, <3>1
  <2> QED
    BY <2>1 DEF OneBegin
<1>8. ASSUME NoneCut(s)  PROVE NoneCut(r)
  <2> HIDE DEF Was
  <2> QED
    BY <1>3, <1>8 DEF NoneCut
<1>9. ASSUME OneStretch(s)  PROVE OneStretch(r)
  <2> SUFFICES ASSUME NEW c \in DOMAIN r, NEW f \in DOMAIN r, NEW l \in DOMAIN r,
                      r[c] = "begin", r[f] \in {"begin", "begincut"}, c < l, l < f, r[l] = "end"
               PROVE  FALSE
    BY DEF OneStretch
  <2>1. Was(c) < Was(l) /\ Was(l) < Was(f)
    BY <1>n, <1>2
  <2> HIDE DEF Was
  <2> QED
    BY <1>3, <1>9, <2>1 DEF OneStretch
<1>6. ASSUME NEW x \in Range(s), x # s[i]  PROVE x \in Range(r)
  <2>1. PICK j \in DOMAIN s : x = s[j]
    BY DEF Range
  <2>2. j # i
    BY <1>6, <2>1
  <2> HIDE DEF Is
  <2> QED
    BY <1>4, <2>1, <2>2 DEF Range
<1>7. ASSUME Whole(s), s[i] \notin {"begin", "end"}  PROVE Whole(r)
  <2>1. CASE Clean(s)
    <3> HIDE DEF Was
    <3>1. Clean(r)
      BY <1>3, <2>1 DEF Clean
    <3> QED
      BY <3>1 DEF Whole
  <2>2. ASSUME NEW c \in DOMAIN s, NEW f \in DOMAIN s, BlockAt(s, c, f)  PROVE Whole(r)
    <3>1. /\ c < f /\ s[c] = "begin" /\ s[f] = "end" /\ c \in 1..Len(s) /\ f \in 1..Len(s)
          /\ \A j \in DOMAIN s \ {c, f} : s[j] \in Own \/ (s[j] \in Domains /\ c < j /\ j < f)
      BY <1>n, <2>2 DEF BlockAt
    <3>2. c # i /\ f # i
      BY <1>7, <3>1
    <3>3. Is(c) < Is(f)
      BY <1>n, <3>1, <3>2
    <3>4. Is(c) \in DOMAIN r /\ Is(f) \in DOMAIN r /\ r[Is(c)] = "begin" /\ r[Is(f)] = "end"
      <4> HIDE DEF Is
      <4> QED
        BY <1>4, <3>1, <3>2
    <3>5. ASSUME NEW j \in DOMAIN r \ {Is(c), Is(f)}
          PROVE  r[j] \in Own \/ (r[j] \in Domains /\ Is(c) < j /\ j < Is(f))
      <4>1. Was(j) \in DOMAIN s /\ r[j] = s[Was(j)]
        BY <1>3
      <4>2. Was(j) # c /\ Was(j) # f
        BY <1>n, <1>2, <3>1, <3>2
      <4>3. /\ c < Was(j) => Is(c) < j
            /\ Was(j) < f => j < Is(f)
        BY <1>n, <1>2, <3>1, <3>2
      <4>4. s[Was(j)] \in Own \/ (s[Was(j)] \in Domains /\ c < Was(j) /\ Was(j) < f)
        <5> HIDE DEF Was
        <5> QED
          BY <3>1, <4>1, <4>2
      <4> HIDE DEF Was, Is
      <4> QED
        BY <4>1, <4>3, <4>4
    <3> HIDE DEF Is
    <3>6. BlockAt(r, Is(c), Is(f))
      BY <3>3, <3>4, <3>5 DEF BlockAt
    <3> QED
      BY <3>4, <3>6 DEF Whole
  <2> QED
    BY <1>7, <2>1, <2>2 DEF Whole
<1> QED
  BY <1>1, <1>5, <1>6, <1>7, <1>8, <1>9, <1>r

\* A write cut short: what is left begins what was to be written, and its last line
\* may be a part of one or have no line end.
LEMMA ShortIs ==
  ASSUME NEW s \in Seq(Line), NEW n \in 0..Len(s) - 1, NEW l \in {"part", Unended(s[n + 1])}, OneStretch(s)
  PROVE  /\ SubSeq(s, 1, n) \in Seq(Line) /\ OneStretch(SubSeq(s, 1, n))
         /\ OneBegin(s) => OneBegin(SubSeq(s, 1, n))
         /\ Append(SubSeq(s, 1, n), l) \in Seq(Line) /\ OneStretch(Append(SubSeq(s, 1, n), l))
         /\ OneBegin(s) => OneBegin(Append(SubSeq(s, 1, n), l))
<1> DEFINE r == SubSeq(s, 1, n)
<1>n. Len(s) \in Nat /\ DOMAIN s = 1..Len(s) /\ n \in Nat /\ n + 1 \in 1..Len(s) /\ n \in 0..Len(s)
  BY LenProperties
<1>1. r \in Seq(Line) /\ Len(r) = n /\ \A i \in 1..n : r[i] = s[i]
  BY <1>n, Prefixed
<1> HIDE DEF r
<1>2. /\ l \in Line /\ l # "begin" /\ l # "end"
      /\ l = "begincut" => s[n + 1] \in {"begin", "begincut"}
  <2>1. s[n + 1] \in Line
    BY <1>n, LenProperties
  <2> QED
    BY <2>1 DEF Unended, Line
<1> DEFINE a == Append(r, l)
<1>3. a \in Seq(Line) /\ Len(a) = n + 1 /\ (\A i \in 1..n : a[i] = r[i]) /\ a[n + 1] = l
  BY <1>n, <1>1, <1>2, AppendProperties
<1> HIDE DEF a
<1>4. DOMAIN r = 1..n /\ DOMAIN a = 1..n + 1
  BY <1>1, <1>3, LenProperties
<1>5. \A i \in 1..n : i \in DOMAIN s
  BY <1>n
<1>6. OneStretch(r) /\ (OneBegin(s) => OneBegin(r))
  BY <1>1, <1>4, <1>5 DEF OneBegin, OneStretch
<1>7. ASSUME NEW i \in DOMAIN a
      PROVE  /\ i \in DOMAIN s
             /\ a[i] \in {"begin", "end"} => a[i] = s[i]
             /\ a[i] = "begincut" => s[i] \in {"begin", "begincut"}
  <2>1. i \in 1..n \/ i = n + 1
    BY <1>n, <1>4
  <2>2. CASE i \in 1..n
    BY <1>1, <1>3, <1>5, <2>2
  <2>3. CASE i = n + 1
    BY <1>n, <1>2, <1>3, <2>3
  <2> QED
    BY <2>1, <2>2, <2>3
<1>8. OneBegin(s) => OneBegin(a)
  BY <1>7 DEF OneBegin
<1>9. OneStretch(a)
  BY <1>7 DEF OneStretch
<1> QED
  BY <1>1, <1>3, <1>6, <1>8, <1>9 DEF r, a

LEMMA AddedIs ==
  ASSUME NEW s \in Seq(Line), NEW d \in Domains, OneStretch(s)
  PROVE  /\ Added(s, d) \in Seq(Line) /\ OneStretch(Added(s, d))
         /\ NoneCut(s) /\ OneBegin(s) => NoneCut(Added(s, d)) /\ OneBegin(Added(s, d))
         /\ Whole(s) => Whole(Added(s, d))
         /\ \A x \in Range(s) : x \in Own => x \in Range(Added(s, d))
<1> DEFINE b == Find(s, "begin", 1)
<1>n. Len(s) \in Nat /\ DOMAIN s = 1..Len(s)
  BY LenProperties
<1>1. CASE b = 0
  <2> DEFINE t == <<"begin", d, "end">>
             y == LineEnded(s)
             r == y \o t
  <2>1. \A i \in 1..Len(s) : s[i] # "begin"
    BY <1>1, Found
  <2>2. Added(s, d) = r
    BY <1>1 DEF Added
  <2>e. /\ y \in Seq(Line) /\ Len(y) = Len(s)
        /\ \A i \in 1..Len(s) : i # Len(s) => y[i] = s[i]
        /\ \A i \in 1..Len(s) : y[i] = "begin" => s[i] \in {"begin", "begincut"}
    BY EndedIs
  <2>k. /\ NoneCut(s) => NoneCut(y)
        /\ Clean(s) => Clean(y)
        /\ \A x \in Range(s) : x \in Own => x \in Range(y)
    BY EndedKeeps
  <2>3. t \in Seq(Line) /\ Len(t) = 3 /\ t[1] = "begin" /\ t[2] = d /\ t[3] = "end"
    BY DEF Line
  <2> HIDE DEF t, y
  <2>m. Len(y) \in Nat /\ DOMAIN y = 1..Len(y)
    BY <2>e, LenProperties
  <2>4. /\ r \in Seq(Line) /\ Len(r) = Len(y) + 3
        /\ \A i \in 1..Len(y) + 3 : r[i] = IF i <= Len(y) THEN y[i] ELSE t[i - Len(y)]
    <3>1. /\ r \in Seq(Line) /\ Len(r) = Len(y) + Len(t)
          /\ \A i \in 1..Len(y) + Len(t) : r[i] = IF i <= Len(y) THEN y[i] ELSE t[i - Len(y)]
      <4>1. y \in Seq(Line) /\ t \in Seq(Line)
        BY <2>3, <2>e
      <4> QED
        BY <4>1, ConcatProperties
    <3> HIDE DEF r
    <3> QED
      BY <2>3, <3>1
  <2> HIDE DEF r
  <2>5. /\ \A i \in 1..Len(y) : r[i] = y[i]
        /\ r[Len(y) + 1] = "begin" /\ r[Len(y) + 1 + 2] = "end"
        /\ \A i \in Len(y) + 2..Len(y) + 1 + 1 : r[i] \in Domains
    <3>1. \A i \in 1..Len(y) : i \in 1..Len(y) + 3 /\ i <= Len(y)
      BY <2>m
    <3>2. \A k \in 1..3 : r[Len(y) + k] = t[k]
      BY <2>m, <2>4
    <3>3. \A i \in Len(y) + 2..Len(y) + 1 + 1 : i = Len(y) + 2
      BY <2>m
    <3>4. Len(y) + 1 + 2 = Len(y) + 3
      BY <2>m
    <3> QED
      BY <2>3, <2>4, <3>1, <3>2, <3>3, <3>4
  <2>6. Len(r) = Len(y) + 1 + 2
    BY <2>m, <2>4
  <2>7. /\ (\A i \in 1..Len(y) : y[i] # "begin") => OneBegin(r)
        /\ (\A i \in 1..Len(y) : i # Len(y) => y[i] # "begin") => OneStretch(r)
        /\ NoneCut(y) => NoneCut(r)
        /\ Clean(y) => Whole(r)
    BY <2>e, <2>4, <2>5, <2>6, BlockedIs
  <2>8. Whole(s) => Clean(s)
    BY <1>n, <2>1 DEF Whole, BlockAt
  <2>9. ASSUME NEW x \in Range(s), x \in Own  PROVE x \in Range(r)
    <3>1. DOMAIN r = 1..Len(y) + 3
      BY <2>4, LenProperties
    <3>2. \A i \in DOMAIN y : i \in DOMAIN r /\ r[i] = y[i]
      BY <2>m, <2>5, <3>1
    <3> QED
      BY <2>k, <2>9, <3>2 DEF Range
  <2>10. OneStretch(r)
    BY <2>1, <2>e, <2>7
  <2>11. ASSUME NoneCut(s)  PROVE NoneCut(r) /\ OneBegin(r)
    <3>1. \A i \in 1..Len(y) : y[i] # "begin"
      BY <1>n, <2>1, <2>11, <2>e DEF NoneCut
    <3> QED
      BY <2>7, <2>11, <2>k, <3>1
  <2>12. Whole(s) => Whole(r)
    BY <2>7, <2>8, <2>k
  <2> QED
    BY <2>2, <2>4, <2>9, <2>10, <2>11, <2>12
<1>2. CASE b # 0
  <2>1. b \in 1..Len(s) /\ s[b] = "begin"
    BY <1>2, Found
  <2> HIDE DEF b
  <2>2. b + 1 \in 1..Len(s) + 1 /\ b + 1 > 1 /\ (b + 1) - 1 = b /\ b \in Nat
    BY <1>n, <2>1
  <2>3. Added(s, d) = InsertAt(s, b + 1, d)
    <3>1. SubSeq(s, 1, (b + 1) - 1) = SubSeq(s, 1, b)
      BY <2>2
    <3> QED
      BY <1>2, <3>1 DEF Added, InsertAt, b
  <2>4. s[(b + 1) - 1] = "begin"
    BY <2>1, <2>2
  <2>5. /\ InsertAt(s, b + 1, d) \in Seq(Line)
        /\ OneBegin(s) => OneBegin(InsertAt(s, b + 1, d))
        /\ OneStretch(s) => OneStretch(InsertAt(s, b + 1, d))
        /\ NoneCut(s) => NoneCut(InsertAt(s, b + 1, d))
        /\ Range(s) \subseteq Range(InsertAt(s, b + 1, d))
    BY <2>2, PutIs
  <2>6. Whole(s) => Whole(InsertAt(s, b + 1, d))
    BY <2>2, <2>4, PutWhole
  <2> QED
    BY <2>3, <2>5, <2>6
<1> QED
  BY <1>1, <1>2

-----------------------------------------------------------------------------
(* The inductive invariant, action by action.                              *)

\* What a process has is untouched by the others.
LEMMA Apart ==
  ASSUME NEW r \in Procs, kind'[r] = kind[r], read'[r] = read[r]
  PROVE  Inside(r)' = Inside(r)
BY DEF Inside

LEMMA NothingRead == Blocks(<<>>) /\ Whole(<<>>) /\ <<>> \in Seq(Line) /\ Range(<<>>) = {}
BY DEF Blocks, OneBegin, OneStretch, NoneCut, Whole, Clean, Range

\* What each operation makes of what it has read.
Makes(k, got, to) ==
  /\ to \in Seq(Line) /\ Blocks(to)
  /\ Whole(got) => Whole(to) /\ (k = "clear" => Clean(to))
  /\ \A i \in DOMAIN got : got[i] \in Own /\ ~(k # "add" /\ InBlock(got, i)) => got[i] \in Range(to)

LEMMA MakesClear ==
  ASSUME NEW got \in Seq(Line), Blocks(got)
  PROVE  Makes("clear", got, Strip(got))
<1> DEFINE to == Strip(got)
<1>1. to \in Seq(Line) /\ (\A i \in 1..Len(to) : to[i] # "begin") /\ (NoneCut(got) => NoneCut(to))
  BY StripLeaves DEF Blocks
<1>2. Whole(got) => Clean(to)
  BY StripCleans
<1>3. \A i \in DOMAIN got : got[i] \in Own /\ ~InBlock(got, i) => \E j \in 1..Len(to) : to[j] = got[i]
  BY StripKeeps
<1> HIDE DEF to
<1>4. DOMAIN to = 1..Len(to)
  BY <1>1, LenProperties
<1>5. Blocks(to) /\ (Clean(to) => Whole(to))
  <2>1. OneBegin(to) /\ OneStretch(to)
    BY <1>1, <1>4 DEF OneBegin, OneStretch
  <2> QED
    BY <1>1, <2>1 DEF Blocks, Whole
<1>6. \A i \in DOMAIN got : got[i] \in Own /\ ~InBlock(got, i) => got[i] \in Range(to)
  BY <1>3, <1>4 DEF Range
<1> QED
  BY <1>1, <1>2, <1>5, <1>6 DEF Makes, to

LEMMA MakesImport ==
  ASSUME NEW got \in Seq(Line), Blocks(got), NEW list \in Lists
  PROVE  Makes("import", got, Imported(got, list))
<1> DEFINE to == Imported(got, list)
<1>1. /\ to \in Seq(Line) /\ OneStretch(to) /\ (Whole(got) => Whole(to))
      /\ NoneCut(got) => NoneCut(to) /\ OneBegin(to)
      /\ \A j \in 1..Len(Strip(got)) : Strip(got)[j] \in Own => Strip(got)[j] \in Range(to)
  BY ImportedIs DEF Blocks
<1>3. Blocks(to)
  BY <1>1 DEF Blocks
<1>2. \A i \in DOMAIN got : got[i] \in Own /\ ~InBlock(got, i) =>
        \E j \in 1..Len(Strip(got)) : Strip(got)[j] = got[i]
  BY StripKeeps
<1> HIDE DEF to
<1> QED
  BY <1>1, <1>2, <1>3 DEF Makes, to

LEMMA MakesAdd ==
  ASSUME NEW got \in Seq(Line), Blocks(got), NEW d \in Domains
  PROVE  Makes("add", got, Added(got, d))
<1> DEFINE to == Added(got, d)
<1>1. /\ to \in Seq(Line) /\ OneStretch(to) /\ (Whole(got) => Whole(to))
      /\ NoneCut(got) /\ OneBegin(got) => NoneCut(to) /\ OneBegin(to)
      /\ \A x \in Range(got) : x \in Own => x \in Range(to)
  BY AddedIs DEF Blocks
<1>3. Blocks(to)
  BY <1>1 DEF Blocks
<1>2. \A i \in DOMAIN got : got[i] \in Range(got)
  BY DEF Range
<1> HIDE DEF to
<1> QED
  BY <1>1, <1>2, <1>3 DEF Makes, to

LEMMA ReadStep ==
  ASSUME HostsIndInv, NEW p \in Procs, Read(p)
  PROVE  HostsIndInv'
<1> USE DEF HostsIndInv
<1>1. /\ pc[p] = "idle" /\ Closed /\ pc' = [pc EXCEPT ![p] = "have"] /\ calls' \in 0..MaxCalls
      /\ UNCHANGED <<file, edits, placed, excused, halved>>
  BY HostsAssumption DEF Read, HostsTypeOK
<1>2. PICK got \in {file, <<>>} :
        /\ read' = [read EXCEPT ![p] = got]
        /\ maimed' = (maimed \/ got # file)
        /\ \/ kind' = [kind EXCEPT ![p] = "clear"]
              /\ new' = [new EXCEPT ![p] = Strip(got)]
           \/ kind' = [kind EXCEPT ![p] = "import"]
              /\ \E list \in Lists : new' = [new EXCEPT ![p] = Imported(got, list)]
           \/ kind' = [kind EXCEPT ![p] = "add"]
              /\ \E d \in Domains : new' = [new EXCEPT ![p] = Added(got, d)]
  BY DEF Read
<1>3. got \in Seq(Line) /\ Blocks(got)
  BY NothingRead DEF HostsTypeOK, OneBlockEach
<1> DEFINE As(k, to) == /\ kind' = [kind EXCEPT ![p] = k] /\ new' = [new EXCEPT ![p] = to]
                        /\ Makes(k, got, to)
<1>4. \E k \in {"clear", "import", "add"} : \E to : As(k, to)
  <2>1. CASE kind' = [kind EXCEPT ![p] = "clear"] /\ new' = [new EXCEPT ![p] = Strip(got)]
    BY <1>3, <2>1, MakesClear
  <2>2. ASSUME NEW list \in Lists, kind' = [kind EXCEPT ![p] = "import"],
               new' = [new EXCEPT ![p] = Imported(got, list)]
        PROVE  Makes("import", got, Imported(got, list))
    BY <1>3, <2>2, MakesImport
  <2>3. ASSUME NEW d \in Domains, kind' = [kind EXCEPT ![p] = "add"], new' = [new EXCEPT ![p] = Added(got, d)]
        PROVE  Makes("add", got, Added(got, d))
    BY <1>3, <2>3, MakesAdd
  <2> QED
    BY <1>2, <2>1, <2>2, <2>3
<1>a. PICK k \in {"clear", "import", "add"} : \E to : As(k, to)
  BY <1>4
<1>b. PICK to : As(k, to)
  BY <1>a
<1>5. kind' = [kind EXCEPT ![p] = k] /\ new' = [new EXCEPT ![p] = to] /\ Makes(k, got, to)
  BY <1>b
<1> HIDE DEF As
<1>6. /\ pc'[p] = "have" /\ kind'[p] = k /\ read'[p] = got /\ new'[p] = to
      /\ \A r \in Procs \ {p} : pc'[r] = pc[r] /\ kind'[r] = kind[r] /\ read'[r] = read[r] /\ new'[r] = new[r]
  BY <1>1, <1>2, <1>5 DEF HostsTypeOK
<1>7. HostsTypeOK'
  <2>1. to \in Seq(Line)
    BY <1>5 DEF Makes
  <2>2. /\ pc' \in [Procs -> {"idle", "have", "open"}] /\ kind' \in [Procs -> {"clear", "import", "add"}]
        /\ read' \in [Procs -> Seq(Line)] /\ new' \in [Procs -> Seq(Line)]
    BY <1>1, <1>2, <1>3, <1>5, <2>1 DEF HostsTypeOK
  <2>3. maimed' \in BOOLEAN
    BY <1>2 DEF HostsTypeOK
  <2> QED
    BY <1>1, <2>2, <2>3 DEF HostsTypeOK
<1>8. OneBlockEach'
  <2>1. Blocks(to) /\ \A t \in Seq(Line) : Blocks(t)' <=> Blocks(t)
    BY <1>1, <1>5 DEF Blocks, Makes
  <2>2. Blocks(file) /\ \A r \in Procs : Blocks(read'[r]) /\ Blocks(new'[r])
    BY <1>3, <1>6, <2>1 DEF OneBlockEach
  <2> QED
    BY <1>1, <2>2 DEF OneBlockEach, Blocks
<1>9. AloneWhileOpen' /\ EntriesSurvive'
  <2>1. \A r \in Procs : pc'[r] # "open"
    BY <1>1, <1>6 DEF Closed
  <2> QED
    BY <1>1, <2>1 DEF AloneWhileOpen, EntriesSurvive
<1>10. OthersAreKept'
  <2>1. ASSUME NEW i \in DOMAIN got, got[i] \in Own, got[i] \notin Inside(p)'  PROVE got[i] \in Range(to)
    <3>1. ~(k # "add" /\ InBlock(got, i))
      BY <1>6, <2>1 DEF Inside, InBlock
    <3> QED
      BY <1>5, <2>1, <3>1 DEF Makes
  <2>2. ASSUME NEW r \in Procs, r # p, pc'[r] # "idle", NEW i \in DOMAIN read'[r], read'[r][i] \in Own \ Inside(r)'
        PROVE  read'[r][i] \in Range(new'[r])
    <3>1. Inside(r)' = Inside(r)
      BY <1>6, <2>2, Apart
    <3> QED
      BY <1>6, <2>2, <3>1 DEF OthersAreKept
  <2>3. ASSUME NEW r \in Procs, pc'[r] # "idle", NEW i \in DOMAIN read'[r], read'[r][i] \in Own \ Inside(r)'
        PROVE  read'[r][i] \in Range(new'[r])
    BY <1>6, <2>1, <2>2, <2>3
  <2> QED
    BY <2>3 DEF OthersAreKept
<1>11. WholeUnlessMaimed'
  <2> SUFFICES ASSUME ~maimed'
               PROVE  /\ Whole(file)
                      /\ \A r \in Procs : pc'[r] # "idle" =>
                           Whole(new'[r]) /\ (kind'[r] = "clear" => Clean(new'[r]))
    BY <1>1 DEF WholeUnlessMaimed
  <2>1. ~maimed /\ got = file /\ Whole(file)
    BY <1>2 DEF WholeUnlessMaimed
  <2>2. Whole(to) /\ (k = "clear" => Clean(to))
    BY <1>5, <2>1 DEF Makes
  <2> QED
    BY <1>6, <2>1, <2>2 DEF WholeUnlessMaimed
<1> QED
  BY <1>7, <1>8, <1>9, <1>10, <1>11

LEMMA OpenStep ==
  ASSUME HostsIndInv, NEW p \in Procs, Open(p)
  PROVE  HostsIndInv'
<1> USE DEF HostsIndInv
<1>1. /\ pc[p] = "have" /\ Closed /\ pc' = [pc EXCEPT ![p] = "open"] /\ file' = <<>>
      /\ UNCHANGED <<kind, read, new, calls, edits, placed, excused, maimed, halved>>
  BY DEF Open
<1>2. pc'[p] = "open" /\ \A r \in Procs \ {p} : pc'[r] = pc[r]
  BY <1>1 DEF HostsTypeOK
<1>3. HostsTypeOK'
  <2>1. pc' \in [Procs -> {"idle", "have", "open"}] /\ file' \in Seq(Line)
    BY <1>1, NothingRead DEF HostsTypeOK
  <2> QED
    BY <1>1, <2>1 DEF HostsTypeOK
<1>4. OneBlockEach'
  BY <1>1, NothingRead DEF OneBlockEach, Blocks
<1>5. AloneWhileOpen' /\ EntriesSurvive'
  BY <1>1, <1>2 DEF AloneWhileOpen, EntriesSurvive, Closed
<1>6. OthersAreKept'
  <2>1. \A r \in Procs : Inside(r)' = Inside(r)
    BY <1>1, Apart
  <2>2. \A r \in Procs : pc'[r] # "idle" => pc[r] # "idle"
    BY <1>1, <1>2
  <2> QED
    BY <1>1, <2>1, <2>2 DEF OthersAreKept
<1>7. WholeUnlessMaimed'
  <2>1. \A r \in Procs : pc'[r] # "idle" => pc[r] # "idle"
    BY <1>1, <1>2
  <2> QED
    BY <1>1, <2>1, NothingRead DEF WholeUnlessMaimed
<1> QED
  BY <1>3, <1>4, <1>5, <1>6, <1>7

\* The operation returns, and the other processes have what they had.
LEMMA ReturnIs ==
  ASSUME HostsIndInv, NEW p \in Procs, Return(p), UNCHANGED kind
  PROVE  /\ pc'[p] = "idle" /\ \A r \in Procs \ {p} : pc'[r] = pc[r]
         /\ pc' \in [Procs -> {"idle", "have", "open"}]
         /\ read' \in [Procs -> Seq(Line)] /\ new' \in [Procs -> Seq(Line)]
         /\ \A r \in Procs : Blocks(read'[r]) /\ Blocks(new'[r])
         /\ OthersAreKept'
         /\ ~maimed => \A r \in Procs : pc'[r] # "idle" =>
              Whole(new'[r]) /\ (kind'[r] = "clear" => Clean(new'[r]))
<1> USE DEF HostsIndInv
<1>1. /\ pc' = [pc EXCEPT ![p] = "idle"] /\ read' = [read EXCEPT ![p] = <<>>] /\ new' = [new EXCEPT ![p] = <<>>]
  BY DEF Return
<1>2. /\ pc'[p] = "idle" /\ read'[p] = <<>> /\ new'[p] = <<>>
      /\ \A r \in Procs \ {p} : pc'[r] = pc[r] /\ read'[r] = read[r] /\ new'[r] = new[r]
  BY <1>1 DEF HostsTypeOK
<1>3. /\ pc' \in [Procs -> {"idle", "have", "open"}]
      /\ read' \in [Procs -> Seq(Line)] /\ new' \in [Procs -> Seq(Line)]
  BY <1>1, NothingRead DEF HostsTypeOK
<1>4. \A r \in Procs : Blocks(read'[r]) /\ Blocks(new'[r])
  BY <1>2, NothingRead DEF OneBlockEach
<1>5. OthersAreKept'
  <2>1. \A r \in Procs \ {p} : Inside(r)' = Inside(r)
    BY <1>2, Apart
  <2> QED
    BY <1>2, <2>1 DEF OthersAreKept
<1>6. ~maimed => \A r \in Procs : pc'[r] # "idle" =>
        Whole(new'[r]) /\ (kind'[r] = "clear" => Clean(new'[r]))
  BY <1>2 DEF WholeUnlessMaimed
<1> QED
  BY <1>2, <1>3, <1>4, <1>5, <1>6

LEMMA GiveUpStep ==
  ASSUME HostsIndInv, NEW p \in Procs, GiveUp(p)
  PROVE  HostsIndInv'
<1> USE DEF HostsIndInv
<1>1. pc[p] = "have" /\ Return(p) /\ UNCHANGED <<file, kind, calls, edits, placed, excused, maimed, halved>>
  BY DEF GiveUp
<1>2. HostsTypeOK' /\ OneBlockEach' /\ OthersAreKept' /\ WholeUnlessMaimed'
  <2>1. HostsTypeOK'
    BY <1>1, ReturnIs DEF HostsTypeOK
  <2>2. OneBlockEach' /\ OthersAreKept'
    BY <1>1, ReturnIs DEF OneBlockEach, Blocks
  <2>3. WholeUnlessMaimed'
    BY <1>1, ReturnIs DEF WholeUnlessMaimed
  <2> QED
    BY <2>1, <2>2, <2>3
<1>3. \A r \in Procs : pc'[r] = "open" <=> pc[r] = "open"
  BY <1>1, ReturnIs
<1>4. AloneWhileOpen' /\ EntriesSurvive'
  BY <1>1, <1>3 DEF AloneWhileOpen, EntriesSurvive, Closed
<1> QED
  BY <1>2, <1>4

LEMMA WriteAllStep ==
  ASSUME HostsIndInv, NEW p \in Procs, Write(p)
  PROVE  HostsIndInv'
<1> USE DEF HostsIndInv
<1>1. /\ pc[p] = "open" /\ Return(p) /\ file' = new[p] /\ UNCHANGED <<kind, calls, edits, placed, maimed, halved>>
      /\ excused' = excused \cup (Inside(p) \cap placed) \cup (placed \ Range(read[p]))
  BY DEF Write
<1>2. HostsTypeOK'
  <2>1. file' \in Seq(Line) /\ excused' \subseteq Own
    BY <1>1 DEF HostsTypeOK
  <2> QED
    BY <1>1, <2>1, ReturnIs DEF HostsTypeOK
<1>3. OneBlockEach' /\ OthersAreKept'
  BY <1>1, ReturnIs DEF OneBlockEach, Blocks
<1>4. WholeUnlessMaimed'
  <2>1. ~maimed => Whole(new[p])
    BY <1>1 DEF WholeUnlessMaimed
  <2> QED
    BY <1>1, <2>1, ReturnIs DEF WholeUnlessMaimed
<1>5. AloneWhileOpen'
  BY <1>1, ReturnIs DEF AloneWhileOpen
<1>6. EntriesSurvive'
  <2> SUFFICES ASSUME NEW u \in placed, u \notin excused' PROVE u \in Range(new[p])
    BY <1>1 DEF EntriesSurvive
  <2>1. u \in Range(read[p]) /\ u \notin Inside(p) /\ u \in Own
    BY <1>1 DEF HostsTypeOK
  <2>2. PICK i \in DOMAIN read[p] : u = read[p][i]
    BY <2>1 DEF Range
  <2> QED
    BY <1>1, <2>1, <2>2 DEF OthersAreKept
<1> QED
  BY <1>2, <1>3, <1>4, <1>5, <1>6

LEMMA WriteShortStep ==
  ASSUME HostsIndInv, NEW p \in Procs, WriteShort(p)
  PROVE  HostsIndInv'
<1> USE DEF HostsIndInv
<1>1. /\ pc[p] = "open" /\ Return(p) /\ UNCHANGED <<kind, calls, edits, placed>>
      /\ excused' = excused \cup (placed \ Range(file')) /\ maimed' = TRUE
  BY DEF WriteShort
<1>2. PICK n \in 0..Len(new[p]) - 1 :
        \/ file' = SubSeq(new[p], 1, n)
        \/ \E l \in {"part", Unended(new[p][n + 1])} : file' = Append(SubSeq(new[p], 1, n), l)
  BY DEF WriteShort
<1>3. new[p] \in Seq(Line) /\ OneStretch(new[p]) /\ (halved \/ OneBegin(new[p]))
  BY DEF HostsTypeOK, OneBlockEach, Blocks
<1>4. file' \in Seq(Line) /\ OneStretch(file') /\ (OneBegin(new[p]) => OneBegin(file'))
  BY <1>2, <1>3, ShortIs
<1>h. halved' = (halved \/ "begincut" \in Range(file')) /\ halved' \in BOOLEAN
  BY DEF WriteShort
<1>5. file' \in Seq(Line) /\ Blocks(file)'
  <2>1. ~halved' => NoneCut(file')
    BY <1>h DEF NoneCut, Range
  <2> QED
    BY <1>3, <1>4, <1>h, <2>1 DEF Blocks
<1>6. HostsTypeOK'
  <2>1. excused' \subseteq Own
    BY <1>1 DEF HostsTypeOK
  <2> QED
    BY <1>1, <1>5, <1>h, <2>1, ReturnIs DEF HostsTypeOK
<1>7. OneBlockEach' /\ OthersAreKept'
  <2>1. halved => halved'
    BY <1>h
  <2> QED
    BY <1>1, <1>5, <2>1, ReturnIs DEF OneBlockEach, Blocks
<1>8. AloneWhileOpen'
  BY <1>1, ReturnIs DEF AloneWhileOpen
<1>9. EntriesSurvive' /\ WholeUnlessMaimed'
  BY <1>1 DEF EntriesSurvive, WholeUnlessMaimed
<1> QED
  BY <1>6, <1>7, <1>8, <1>9

LEMMA EditStep ==
  ASSUME HostsIndInv, EditPut \/ EditTake
  PROVE  HostsIndInv'
<1> USE DEF HostsIndInv
<1>1. /\ Closed /\ edits' \in 0..MaxEdits /\ UNCHANGED <<pc, kind, read, new, calls, halved>>
      /\ maimed => maimed'
  <2>1. edits < MaxEdits /\ edits' = edits + 1
    BY DEF EditPut, EditTake
  <2>2. edits' \in 0..MaxEdits
    BY <2>1, HostsAssumption DEF HostsTypeOK
  <2>3. UNCHANGED <<pc, kind, read, new, calls, halved>> /\ Closed
    BY DEF EditPut, EditTake
  <2>4. maimed => maimed'
    BY DEF EditPut, EditTake
  <2> QED
    BY <2>2, <2>3, <2>4
<1>2. file \in Seq(Line) /\ Blocks(file) /\ placed \subseteq Own /\ excused \subseteq Own
  BY DEF HostsTypeOK, OneBlockEach
<1>3. /\ file' \in Seq(Line) /\ Blocks(file') /\ placed' \subseteq Own /\ excused' \subseteq Own
      /\ maimed' \in BOOLEAN
      /\ \A u \in placed' : u \in Range(file') \/ u \in excused'
      /\ ~maimed' => Whole(file')
  <2>1. CASE EditPut
    <3>1. PICK u \in Own, i \in 1..Len(file) + 1 :
            /\ file' = InsertAt(IF i > Len(file) THEN LineEnded(file) ELSE file, i, u)
            /\ placed' = placed \cup {u} /\ excused' = excused \ {u}
      BY <2>1 DEF EditPut
    <3>2. u \in Own \cup Domains /\ UNCHANGED maimed
      BY <2>1 DEF EditPut
    <3> DEFINE f == IF i > Len(file) THEN LineEnded(file) ELSE file
    <3>a. /\ f \in Seq(Line) /\ Len(f) = Len(file) /\ Blocks(f) /\ (Whole(file) => Whole(f))
          /\ \A x \in Range(file) : x \in Own => x \in Range(f)
      BY <1>2, EndedIs, EndedKeeps DEF Blocks
    <3>b. file' = InsertAt(f, i, u) /\ i \in 1..Len(f) + 1
      BY <3>1, <3>a
    <3> HIDE DEF f
    <3>3. /\ file' \in Seq(Line) /\ u \in Range(file') /\ Blocks(file')
          /\ \A x \in Range(file) : x \in Own => x \in Range(file')
      <4>1. /\ file' \in Seq(Line) /\ u \in Range(file')
            /\ OneBegin(f) => OneBegin(file')
            /\ OneStretch(f) => OneStretch(file')
            /\ NoneCut(f) => NoneCut(file')
            /\ Range(f) \subseteq Range(file')
        BY <3>2, <3>a, <3>b, PutIs
      <4> QED
        BY <3>a, <4>1 DEF Blocks
    <3>4. ~maimed => Whole(file')
      BY <3>2, <3>a, <3>b, PutWhole DEF WholeUnlessMaimed
    <3>5. \A v \in placed : v \in Range(file) \/ v \in excused
      BY <1>1 DEF EntriesSurvive
    <3> QED
      BY <1>2, <3>1, <3>2, <3>3, <3>4, <3>5 DEF HostsTypeOK
  <2>2. CASE EditTake
    <3>1. PICK i \in 1..Len(file) :
            /\ file' = RemoveAt(file, i) /\ placed' = placed \ {file[i]}
            /\ maimed' = (maimed \/ file[i] \in {"begin", "end"})
      BY <2>2 DEF EditTake
    <3>2. /\ file' \in Seq(Line) /\ Blocks(file')
          /\ \A x \in Range(file) : x # file[i] => x \in Range(file')
          /\ Whole(file) /\ file[i] \notin {"begin", "end"} => Whole(file')
      BY <1>2, <3>1, TakenIs DEF Blocks
    <3>3. ~maimed' => Whole(file')
      BY <3>1, <3>2 DEF WholeUnlessMaimed
    <3>4. \A v \in placed : v \in Range(file) \/ v \in excused
      BY <1>1 DEF EntriesSurvive
    <3>5. UNCHANGED excused /\ maimed' \in BOOLEAN
      BY <2>2, <3>1 DEF EditTake
    <3> QED
      BY <1>2, <3>1, <3>2, <3>3, <3>4, <3>5
  <2> QED
    BY <2>1, <2>2
<1>4. HostsTypeOK' /\ OneBlockEach'
  BY <1>1, <1>3 DEF HostsTypeOK, OneBlockEach, Blocks
<1>5. AloneWhileOpen' /\ EntriesSurvive'
  BY <1>1, <1>3 DEF AloneWhileOpen, EntriesSurvive, Closed
<1>6. OthersAreKept'
  <2>1. \A r \in Procs : Inside(r)' = Inside(r)
    BY <1>1, Apart
  <2> QED
    BY <1>1, <2>1 DEF OthersAreKept
<1>7. WholeUnlessMaimed'
  BY <1>1, <1>3 DEF WholeUnlessMaimed
<1> QED
  BY <1>4, <1>5, <1>6, <1>7

LEMMA HostsStepIndInv == HostsIndInv /\ [HostsNext]_hostsvars => HostsIndInv'
<1> SUFFICES ASSUME HostsIndInv, [HostsNext]_hostsvars PROVE HostsIndInv'
  OBVIOUS
<1>1. ASSUME NEW p \in Procs, Read(p) \/ Open(p) \/ GiveUp(p) \/ Write(p) \/ WriteShort(p)  PROVE HostsIndInv'
  BY <1>1, ReadStep, OpenStep, GiveUpStep, WriteAllStep, WriteShortStep
<1>2. CASE EditPut \/ EditTake
  BY <1>2, EditStep
<1>3. CASE UNCHANGED hostsvars
  <2>1. UNCHANGED <<file, pc, kind, read, new, calls, edits, placed, excused, maimed, halved>>
    BY <1>3 DEF hostsvars
  <2>2. \A r \in Procs : Inside(r)' = Inside(r)
    BY <2>1, Apart
  <2> QED
    BY <2>1, <2>2 DEF HostsIndInv, HostsTypeOK, OneBlockEach, Blocks, AloneWhileOpen, EntriesSurvive,
                      OthersAreKept, WholeUnlessMaimed, Closed
<1> QED
  BY <1>1, <1>2, <1>3 DEF HostsNext

LEMMA HostsInitIndInv == HostsInit => HostsIndInv
<1> SUFFICES ASSUME HostsInit PROVE HostsIndInv
  OBVIOUS
<1>1. ASSUME NEW u \in Own
      PROVE  <<u>> \in Seq(Line) /\ Blocks(<<u>>) /\ Clean(<<u>>) /\ Range(<<u>>) = {u}
  <2>1. <<u>> \in Seq(Line) /\ DOMAIN <<u>> = {1} /\ <<u>>[1] = u
    BY DEF Line
  <2>2. u # "begin" /\ u # "begincut"
    BY HostsAssumption
  <2> QED
    BY <2>1, <2>2 DEF Blocks, OneBegin, OneStretch, NoneCut, Clean, Range
<1>2. /\ file \in Seq(Line) /\ Blocks(file) /\ Whole(file) /\ Range(file) \subseteq Own
  <2>1. CASE file = <<>>
    BY <2>1, NothingRead
  <2>2. ASSUME NEW u \in Own, file = <<u>>
        PROVE  /\ file \in Seq(Line) /\ Blocks(file) /\ Whole(file) /\ Range(file) \subseteq Own
    BY <1>1, <2>2 DEF Whole
  <2> QED
    BY <2>1, <2>2 DEF HostsInit
<1>3. /\ pc = [p \in Procs |-> "idle"] /\ kind = [p \in Procs |-> "clear"]
      /\ read = [p \in Procs |-> <<>>] /\ new = [p \in Procs |-> <<>>]
      /\ calls = 0 /\ edits = 0 /\ placed = Range(file) /\ excused = {}
      /\ maimed = FALSE /\ halved = FALSE
  BY DEF HostsInit
<1>4. HostsTypeOK
  <2>1. read \in [Procs -> Seq(Line)] /\ new \in [Procs -> Seq(Line)]
    BY <1>3, NothingRead
  <2>2. calls \in 0..MaxCalls /\ edits \in 0..MaxEdits
    BY <1>3, HostsAssumption
  <2> QED
    BY <1>2, <1>3, <2>1, <2>2 DEF HostsTypeOK
<1>5. OneBlockEach
  BY <1>2, <1>3, NothingRead DEF OneBlockEach
<1>6. AloneWhileOpen /\ EntriesSurvive /\ OthersAreKept /\ WholeUnlessMaimed
  BY <1>2, <1>3 DEF AloneWhileOpen, EntriesSurvive, OthersAreKept, WholeUnlessMaimed
<1> QED
  BY <1>4, <1>5, <1>6 DEF HostsIndInv

-----------------------------------------------------------------------------
(* What follows from it.                                                   *)

\* The inductive invariant holds of every reachable state.
THEOREM HostsInductive == HostsSpec => []HostsIndInv
<1>1. HostsInit => HostsIndInv
  BY HostsInitIndInv
<1>2. HostsIndInv /\ [HostsNext]_hostsvars => HostsIndInv'
  BY HostsStepIndInv
<1> QED
  BY <1>1, <1>2, PTL DEF HostsSpec

\* Every variable stays in its range, and what is read, worked out and written is
\* made of lines (hosts_read, hosts_write of src/src/protect.c).
THEOREM HostsTypeCorrect == HostsSpec => []HostsTypeOK
<1>1. HostsIndInv => HostsTypeOK
  BY DEF HostsIndInv
<1> QED
  BY <1>1, HostsInductive, PTL

\* One block at most, whatever order hosts_add, hosts_import, hosts_clear and the
\* others' edits come in and wherever hosts_write is cut: hosts_strip leaves no begin
\* marker, and a second one is there only after a cut between a marker and its line end.
THEOREM OneBlockAtMost == HostsSpec => []OneBlock
<1>i. HostsSpec => []HostsIndInv
  BY HostsInductive
<1>1. HostsIndInv => OneBlock
  <2> SUFFICES ASSUME Blocks(file), file \in Seq(Line) PROVE OneBlock
    BY DEF HostsIndInv, HostsTypeOK, OneBlockEach
  <2>1. Find(Strip(file), "begin", 1) = 0
    <3>1. Strip(file) \in Seq(Line) /\ \A i \in 1..Len(Strip(file)) : Strip(file)[i] # "begin"
      BY StripLeaves DEF Blocks
    <3> QED
      BY <3>1, Found
  <2>2. CASE halved
    BY <2>1, <2>2 DEF OneBlock
  <2>3. CASE OneBegin(file)
    <3> DEFINE B == {i \in DOMAIN file : file[i] = "begin"}
    <3>1. \A i, j \in B : i = j
      BY <2>3 DEF OneBegin
    <3>2. CASE B = {}
      <4>1. Cardinality(B) = 0
        BY <3>2, FS_EmptySet
      <4> QED
        BY <2>1, <4>1 DEF OneBlock
    <3>3. CASE B # {}
      <4>1. PICK i : B = {i}
        BY <3>1, <3>3
      <4>2. Cardinality(B) = 1
        BY <4>1, FS_Singleton
      <4> QED
        BY <2>1, <4>2 DEF OneBlock
    <3> QED
      BY <3>2, <3>3
  <2> QED
    BY <2>2, <2>3 DEF Blocks
<1> QED
  BY <1>1, <1>i, PTL

\* The others' lines are still there when the file is closed, but for those the cases
\* named in EntriesSurvive have cost.
THEOREM OthersSurvive == HostsSpec => []EntriesSurvive
<1>i. HostsSpec => []HostsIndInv
  BY HostsInductive
<1>1. HostsIndInv => EntriesSurvive
  BY DEF HostsIndInv
<1> QED
  BY <1>1, <1>i, PTL

\* hosts_clear leaves the others' lines and nothing of the block, as long as nothing
\* was maimed.
THEOREM ClearCleans == HostsSpec => ClearLeavesOwn
<1>i. HostsSpec => []HostsIndInv
  BY HostsInductive
<1>1. HostsIndInv /\ [HostsNext]_hostsvars =>
        [\A p \in Procs : pc[p] = "open" /\ pc'[p] = "idle" /\ kind[p] = "clear" /\ ~maimed' =>
           Range(file') \subseteq Own]_hostsvars
  <2> SUFFICES ASSUME HostsIndInv, [HostsNext]_hostsvars, NEW p \in Procs, pc[p] = "open", pc'[p] = "idle",
                      kind[p] = "clear", ~maimed'
               PROVE  Range(file') \subseteq Own
    OBVIOUS
  <2>1. pc \in [Procs -> {"idle", "have", "open"}] /\ ~Closed
    BY DEF HostsIndInv, HostsTypeOK, Closed
  <2>2. ASSUME NEW r \in Procs, Read(r) \/ Open(r) \/ GiveUp(r) \/ Write(r) \/ WriteShort(r)  PROVE Write(p)
    <3>1. ~Read(r) /\ ~Open(r) /\ ~WriteShort(r)
      BY <2>1 DEF Read, Open, WriteShort
    <3>2. r = p
      BY <2>1, <2>2, <3>1 DEF GiveUp, Write, Return
    <3>3. ~GiveUp(r)
      BY <3>2 DEF GiveUp
    <3> QED
      BY <2>2, <3>1, <3>2, <3>3
  <2>3. Write(p)
    BY <2>1, <2>2 DEF HostsNext, EditPut, EditTake, hostsvars
  <2>4. file' = new[p] /\ Clean(new[p])
    BY <2>3 DEF Write, HostsIndInv, WholeUnlessMaimed
  <2> QED
    BY <2>4 DEF Clean, Range
<1> QED
  BY <1>1, <1>i, PTL DEF HostsSpec, ClearLeavesOwn

-----------------------------------------------------------------------------
(* The firewall: what is left of an operation, and what is left after its  *)
(* next step.                                                              *)

LEMMA Tuples ==
  ASSUME NEW a, NEW b, NEW c, NEW d
  PROVE  /\ Head(<<a>>) = a /\ Tail(<<a>>) = <<>>
         /\ Head(<<a, b>>) = a /\ Tail(<<a, b>>) = <<b>>
         /\ Head(<<a, b, c>>) = a /\ Tail(<<a, b, c>>) = <<b, c>>
         /\ Head(<<a, b, c, d>>) = a /\ Tail(<<a, b, c, d>>) = <<b, c, d>>
OBVIOUS

LEMMA OneAndTwo == ASSUME NEW a, NEW b, NEW c PROVE <<a>> \o <<b, c>> = <<a, b, c>>
<1> DEFINE q == <<a>> \o <<b, c>>
<1>1. q \in Seq({a, b, c}) /\ <<a, b, c>> \in Seq({a, b, c}) /\ Len(q) = 3
  OBVIOUS
<1>2. q[1] = a /\ q[2] = b /\ q[3] = c
  OBVIOUS
<1> HIDE DEF q
<1>3. \A i \in 1..3 : q[i] = <<a, b, c>>[i]
  BY <1>2
<1>4. q = <<a, b, c>>
  BY <1>1, <1>3
<1> QED
  BY <1>4 DEF q

LEMMA TwoAndOne == ASSUME NEW a, NEW b, NEW c PROVE <<a, b>> \o <<c>> = <<a, b, c>>
<1> DEFINE q == <<a, b>> \o <<c>>
<1>1. q \in Seq({a, b, c}) /\ <<a, b, c>> \in Seq({a, b, c}) /\ Len(q) = 3
  OBVIOUS
<1>2. q[1] = a /\ q[2] = b /\ q[3] = c
  OBVIOUS
<1> HIDE DEF q
<1>3. \A i \in 1..3 : q[i] = <<a, b, c>>[i]
  BY <1>2
<1>4. q = <<a, b, c>>
  BY <1>1, <1>3
<1> QED
  BY <1>4 DEF q

LEMMA TwoAndTwo == ASSUME NEW a, NEW b, NEW c, NEW d PROVE <<a, b>> \o <<c, d>> = <<a, b, c, d>>
<1> DEFINE q == <<a, b>> \o <<c, d>>
<1>1. q \in Seq({a, b, c, d}) /\ <<a, b, c, d>> \in Seq({a, b, c, d}) /\ Len(q) = 4
  OBVIOUS
<1>2. q[1] = a /\ q[2] = b /\ q[3] = c /\ q[4] = d
  OBVIOUS
<1> HIDE DEF q
<1>3. \A i \in 1..4 : q[i] = <<a, b, c, d>>[i]
  BY <1>2
<1>4. q = <<a, b, c, d>>
  BY <1>1, <1>3
<1> QED
  BY <1>4 DEF q

Steps(q) == {q[n] : n \in DOMAIN q}

LEMMA NoSteps == Steps(<<>>) = {}
BY DEF Steps
LEMMA OneStep == ASSUME NEW a PROVE Steps(<<a>>) = {a}
BY DEF Steps
LEMMA TwoSteps == ASSUME NEW a, NEW b PROVE Steps(<<a, b>>) = {a, b}
BY DEF Steps
LEMMA ThreeSteps == ASSUME NEW a, NEW b, NEW c PROVE Steps(<<a, b, c>>) = {a, b, c}
BY DEF Steps
LEMMA FourSteps == ASSUME NEW a, NEW b, NEW c, NEW d PROVE Steps(<<a, b, c, d>>) = {a, b, c, d}
BY DEF Steps

\* What a plan's first step tells of the rest of it.
Ahead(q) ==
  /\ Head(q) \in {"bind", "flag", "lists", "Enabled", "Ports"}
  /\ Tail(q) \in Plans /\ Steps(Tail(q)) = Steps(q) \ {Head(q)} /\ Head(q) \in Steps(q)
  /\ Head(q) = "bind" => method = "pf"
  /\ Head(q) = "Ports" => "Enabled" \notin Steps(q)
  /\ Head(q) = "lists" => method # "pf" /\ "flag" \notin Steps(q)
  /\ Head(q) = "Enabled" =>
       "Ports" \in Steps(q) /\ Tail(Tail(q)) \in Plans /\ Steps(Tail(Tail(q))) = Steps(q) \ {"Enabled", "Ports"}
  /\ Head(q) = "flag" =>
       /\ method # "pf" /\ "lists" \in Steps(q)
       /\ Tail(Tail(q)) \in Plans /\ Steps(Tail(Tail(q))) = Steps(q) \ {"flag", "lists"}

LEMMA PlansAhead == ASSUME NEW q \in Plans, q # <<>> PROVE Ahead(q)
<1>1. CASE method = "pf"
  <2>1. CASE q = <<"bind">>
    <3>1. Head(q) = "bind" /\ Tail(q) = <<>>
      BY <2>1
    <3>2. Steps(q) = {"bind"} /\ Steps(<<>>) = {}
      BY <2>1, NoSteps, OneStep, TwoSteps, ThreeSteps, FourSteps
    <3>3. <<>> \in Plans
      BY <1>1 DEF Plans
    <3> QED
      BY <1>1, <3>1, <3>2, <3>3 DEF Ahead
  <2>2. CASE q = <<"Ports">>
    <3>1. Head(q) = "Ports" /\ Tail(q) = <<>>
      BY <2>2
    <3>2. Steps(q) = {"Ports"} /\ Steps(<<>>) = {}
      BY <2>2, NoSteps, OneStep, TwoSteps, ThreeSteps, FourSteps
    <3>3. <<>> \in Plans
      BY <1>1 DEF Plans
    <3> QED
      BY <1>1, <3>1, <3>2, <3>3 DEF Ahead
  <2>3. CASE q = <<"Ports", "bind">>
    <3>1. Head(q) = "Ports" /\ Tail(q) = <<"bind">>
      BY <2>3
    <3>2. Steps(q) = {"Ports", "bind"} /\ Steps(<<"bind">>) = {"bind"}
      BY <2>3, NoSteps, OneStep, TwoSteps, ThreeSteps, FourSteps
    <3>3. <<"bind">> \in Plans
      BY <1>1 DEF Plans
    <3> QED
      BY <1>1, <3>1, <3>2, <3>3 DEF Ahead
  <2>4. CASE q = <<"Enabled", "Ports">>
    <3>1. Head(q) = "Enabled" /\ Tail(q) = <<"Ports">> /\ Tail(Tail(q)) = <<>>
      BY <2>4
    <3>2. Steps(q) = {"Enabled", "Ports"} /\ Steps(<<"Ports">>) = {"Ports"}
          /\ Steps(<<>>) = {}
      BY <2>4, NoSteps, OneStep, TwoSteps, ThreeSteps, FourSteps
    <3>3. <<"Ports">> \in Plans /\ <<>> \in Plans
      BY <1>1 DEF Plans
    <3> QED
      BY <1>1, <3>1, <3>2, <3>3 DEF Ahead
  <2>5. CASE q = <<"Enabled", "Ports", "bind">>
    <3>1. Head(q) = "Enabled" /\ Tail(q) = <<"Ports", "bind">> /\ Tail(Tail(q)) = <<"bind">>
      BY <2>5
    <3>2. Steps(q) = {"Enabled", "Ports", "bind"} /\ Steps(<<"Ports", "bind">>) = {"Ports", "bind"}
          /\ Steps(<<"bind">>) = {"bind"}
      BY <2>5, NoSteps, OneStep, TwoSteps, ThreeSteps, FourSteps
    <3>3. <<"Ports", "bind">> \in Plans /\ <<"bind">> \in Plans
      BY <1>1 DEF Plans
    <3> QED
      BY <1>1, <3>1, <3>2, <3>3 DEF Ahead
  <2>6. CASE q = <<"bind", "Enabled", "Ports">>
    <3>1. Head(q) = "bind" /\ Tail(q) = <<"Enabled", "Ports">>
      BY <2>6
    <3>2. Steps(q) = {"bind", "Enabled", "Ports"} /\ Steps(<<"Enabled", "Ports">>) = {"Enabled", "Ports"}
      BY <2>6, NoSteps, OneStep, TwoSteps, ThreeSteps, FourSteps
    <3>3. <<"Enabled", "Ports">> \in Plans
      BY <1>1 DEF Plans
    <3> QED
      BY <1>1, <3>1, <3>2, <3>3 DEF Ahead
  <2> QED
    BY <1>1, <2>1, <2>2, <2>3, <2>4, <2>5, <2>6 DEF Plans
<1>2. CASE method # "pf"
  <2>1. CASE q = <<"lists">>
    <3>1. Head(q) = "lists" /\ Tail(q) = <<>>
      BY <2>1
    <3>2. Steps(q) = {"lists"} /\ Steps(<<>>) = {}
      BY <2>1, NoSteps, OneStep, TwoSteps, ThreeSteps, FourSteps
    <3>3. <<>> \in Plans
      BY <1>2 DEF Plans
    <3> QED
      BY <1>2, <3>1, <3>2, <3>3 DEF Ahead
  <2>2. CASE q = <<"flag", "lists">>
    <3>1. Head(q) = "flag" /\ Tail(q) = <<"lists">> /\ Tail(Tail(q)) = <<>>
      BY <2>2
    <3>2. Steps(q) = {"flag", "lists"} /\ Steps(<<"lists">>) = {"lists"}
          /\ Steps(<<>>) = {}
      BY <2>2, NoSteps, OneStep, TwoSteps, ThreeSteps, FourSteps
    <3>3. <<"lists">> \in Plans /\ <<>> \in Plans
      BY <1>2 DEF Plans
    <3> QED
      BY <1>2, <3>1, <3>2, <3>3 DEF Ahead
  <2>3. CASE q = <<"Ports">>
    <3>1. Head(q) = "Ports" /\ Tail(q) = <<>>
      BY <2>3
    <3>2. Steps(q) = {"Ports"} /\ Steps(<<>>) = {}
      BY <2>3, NoSteps, OneStep, TwoSteps, ThreeSteps, FourSteps
    <3>3. <<>> \in Plans
      BY <1>2 DEF Plans
    <3> QED
      BY <1>2, <3>1, <3>2, <3>3 DEF Ahead
  <2>4. CASE q = <<"Ports", "flag", "lists">>
    <3>1. Head(q) = "Ports" /\ Tail(q) = <<"flag", "lists">>
      BY <2>4
    <3>2. Steps(q) = {"Ports", "flag", "lists"} /\ Steps(<<"flag", "lists">>) = {"flag", "lists"}
      BY <2>4, NoSteps, OneStep, TwoSteps, ThreeSteps, FourSteps
    <3>3. <<"flag", "lists">> \in Plans
      BY <1>2 DEF Plans
    <3> QED
      BY <1>2, <3>1, <3>2, <3>3 DEF Ahead
  <2>5. CASE q = <<"Enabled", "Ports">>
    <3>1. Head(q) = "Enabled" /\ Tail(q) = <<"Ports">> /\ Tail(Tail(q)) = <<>>
      BY <2>5
    <3>2. Steps(q) = {"Enabled", "Ports"} /\ Steps(<<"Ports">>) = {"Ports"}
          /\ Steps(<<>>) = {}
      BY <2>5, NoSteps, OneStep, TwoSteps, ThreeSteps, FourSteps
    <3>3. <<"Ports">> \in Plans /\ <<>> \in Plans
      BY <1>2 DEF Plans
    <3> QED
      BY <1>2, <3>1, <3>2, <3>3 DEF Ahead
  <2>6. CASE q = <<"Enabled", "Ports", "flag", "lists">>
    <3>1. Head(q) = "Enabled" /\ Tail(q) = <<"Ports", "flag", "lists">> /\ Tail(Tail(q)) = <<"flag", "lists">>
      BY <2>6
    <3>2. Steps(q) = {"Enabled", "Ports", "flag", "lists"} /\ Steps(<<"Ports", "flag", "lists">>) = {"Ports", "flag", "lists"}
          /\ Steps(<<"flag", "lists">>) = {"flag", "lists"}
      BY <2>6, NoSteps, OneStep, TwoSteps, ThreeSteps, FourSteps
    <3>3. <<"Ports", "flag", "lists">> \in Plans /\ <<"flag", "lists">> \in Plans
      BY <1>2 DEF Plans
    <3> QED
      BY <1>2, <3>1, <3>2, <3>3 DEF Ahead
  <2>7. CASE q = <<"lists", "Enabled", "Ports">>
    <3>1. Head(q) = "lists" /\ Tail(q) = <<"Enabled", "Ports">>
      BY <2>7
    <3>2. Steps(q) = {"lists", "Enabled", "Ports"} /\ Steps(<<"Enabled", "Ports">>) = {"Enabled", "Ports"}
      BY <2>7, NoSteps, OneStep, TwoSteps, ThreeSteps, FourSteps
    <3>3. <<"Enabled", "Ports">> \in Plans
      BY <1>2 DEF Plans
    <3> QED
      BY <1>2, <3>1, <3>2, <3>3 DEF Ahead
  <2>8. CASE q = <<"flag", "lists", "Enabled", "Ports">>
    <3>1. Head(q) = "flag" /\ Tail(q) = <<"lists", "Enabled", "Ports">> /\ Tail(Tail(q)) = <<"Enabled", "Ports">>
      BY <2>8
    <3>2. Steps(q) = {"flag", "lists", "Enabled", "Ports"} /\ Steps(<<"lists", "Enabled", "Ports">>) = {"lists", "Enabled", "Ports"}
          /\ Steps(<<"Enabled", "Ports">>) = {"Enabled", "Ports"}
      BY <2>8, NoSteps, OneStep, TwoSteps, ThreeSteps, FourSteps
    <3>3. <<"lists", "Enabled", "Ports">> \in Plans /\ <<"Enabled", "Ports">> \in Plans
      BY <1>2 DEF Plans
    <3> QED
      BY <1>2, <3>1, <3>2, <3>3 DEF Ahead
  <2> QED
    BY <1>2, <2>1, <2>2, <2>3, <2>4, <2>5, <2>6, <2>7, <2>8 DEF Plans
<1> QED
  BY <1>1, <1>2

\* The step at hand is done, or the operation goes on without it and the next.
LEMMA StepDone ==
  ASSUME TypeOK, NEW s, At(s), todo' = Tail(todo), UNCHANGED method
  PROVE  todo' \in Plans' /\ ToCome' = ToCome \ {s} /\ s \in ToCome
<1>1. Ahead(todo) /\ Head(todo) = s
  BY PlansAhead DEF TypeOK, At
<1>2. ToCome = Steps(todo) /\ ToCome' = Steps(todo')
  BY DEF ToCome, Steps
<1>3. Plans' = Plans
  BY DEF Plans
<1> QED
  BY <1>1, <1>2, <1>3 DEF Ahead

LEMMA TwoDropped ==
  ASSUME TypeOK, NEW s \in {"Enabled", "flag"}, At(s), todo' = Tail(Tail(todo)), UNCHANGED method
  PROVE  todo' \in Plans' /\ ToCome' = ToCome \ (IF s = "flag" THEN {"flag", "lists"} ELSE {"Enabled", "Ports"})
<1>1. Ahead(todo) /\ Head(todo) = s
  BY PlansAhead DEF TypeOK, At
<1>2. ToCome = Steps(todo) /\ ToCome' = Steps(todo')
  BY DEF ToCome, Steps
<1>3. Plans' = Plans
  BY DEF Plans
<1> QED
  BY <1>1, <1>2, <1>3 DEF Ahead

\* Where the operation is.
LEMMA Where ==
  ASSUME TypeOK
  PROVE  /\ At("bind") => method = "pf"
         /\ At("Ports") => "Ports" \in ToCome /\ "Enabled" \notin ToCome
         /\ At("Enabled") => "Enabled" \in ToCome /\ "Ports" \in ToCome
         /\ At("lists") => method = "tcpip" /\ "flag" \notin ToCome /\ "lists" \in ToCome
         /\ At("flag") => method = "tcpip" /\ "flag" \in ToCome /\ "lists" \in ToCome
         /\ todo = <<>> => ToCome = {}
<1>1. todo # <<>> => Ahead(todo)
  BY PlansAhead DEF TypeOK
<1>2. ToCome = Steps(todo)
  BY DEF ToCome, Steps
<1>3. method \in {"pf", "tcpip"}
  BY DEF TypeOK
<1> QED
  BY <1>1, <1>2, <1>3, NoSteps, OneStep, TwoSteps, ThreeSteps, FourSteps DEF Ahead, At

\* What an operation on the page has to do, and what starting has.
LEMMA Planned ==
  ASSUME method \in {"pf", "tcpip"}, UNCHANGED method
  PROVE  /\ Apply \in Plans' /\ Apply \o Save \in Plans' /\ Save \o Apply \in Plans' /\ <<>> \in Plans'
         /\ method = "pf" => /\ Steps(Apply) = {"bind"} /\ Steps(Apply \o Save) = {"bind", "Enabled", "Ports"}
                             /\ Steps(Save \o Apply) = {"bind", "Enabled", "Ports"} /\ <<"bind">> \in Plans'
         /\ method = "tcpip" =>
              /\ Steps(Apply \o Save) = {"flag", "lists", "Enabled", "Ports"}
              /\ Steps(Save \o Apply) = {"flag", "lists", "Enabled", "Ports"}
<1>1. CASE method = "pf"
  <2>1. Apply = <<"bind">> /\ Apply \o Save = <<"bind", "Enabled", "Ports">>
        /\ Save \o Apply = <<"Enabled", "Ports", "bind">>
    BY <1>1, OneAndTwo, TwoAndOne, TwoAndTwo DEF Apply, Save
  <2> QED
    <3>1. Plans' = Plans
      BY DEF Plans
    <3>2. /\ Apply \in Plans /\ Apply \o Save \in Plans /\ Save \o Apply \in Plans /\ <<>> \in Plans
          /\ method = "pf" => <<"bind">> \in Plans
      BY <1>1, <2>1 DEF Plans
    <3>3. /\ Steps(<<"bind">>) = {"bind"} /\ Steps(<<"bind", "Enabled", "Ports">>) = {"bind", "Enabled", "Ports"}
          /\ Steps(<<"Enabled", "Ports", "bind">>) = {"bind", "Enabled", "Ports"}
      BY OneStep, ThreeSteps
    <3> QED
      BY <1>1, <2>1, <3>1, <3>2, <3>3
<1>2. CASE method = "tcpip"
  <2>1. /\ Apply = <<"flag", "lists">> /\ Apply \o Save = <<"flag", "lists", "Enabled", "Ports">>
        /\ Save \o Apply = <<"Enabled", "Ports", "flag", "lists">>
    BY <1>2, OneAndTwo, TwoAndOne, TwoAndTwo DEF Apply, Save
  <2> QED
    <3>1. Plans' = Plans
      BY DEF Plans
    <3>2. /\ Apply \in Plans /\ Apply \o Save \in Plans /\ Save \o Apply \in Plans /\ <<>> \in Plans
          /\ method = "pf" => <<"bind">> \in Plans
      BY <1>2, <2>1 DEF Plans
    <3>3. /\ Steps(<<"flag", "lists", "Enabled", "Ports">>) = {"flag", "lists", "Enabled", "Ports"}
          /\ Steps(<<"Enabled", "Ports", "flag", "lists">>) = {"flag", "lists", "Enabled", "Ports"}
      BY FourSteps
    <3> QED
      BY <1>2, <2>1, <3>1, <3>2, <3>3
<1> QED
  BY <1>1, <1>2

\* All that an operation sets about.
LEMMA Begun ==
  ASSUME TypeOK, NEW steps \in {Apply \o Save, Save \o Apply}, Operation(steps)
  PROVE  /\ todo' \in Plans' /\ up = "up" /\ ToCome = {}
         /\ {"Enabled", "Ports"} \subseteq ToCome'
         /\ method = "pf" => "bind" \in ToCome'
         /\ method = "tcpip" => {"flag", "lists"} \subseteq ToCome'
<1>1. /\ todo' = steps /\ UNCHANGED method /\ Idle
  BY DEF Operation
<1>2. ToCome' = Steps(steps)
  BY <1>1 DEF ToCome, Steps
<1>3. method \in {"pf", "tcpip"}
  BY DEF TypeOK
<1> QED
  BY <1>1, <1>2, <1>3, Planned, Where DEF Idle

-----------------------------------------------------------------------------
(* Types.                                                                  *)

USE FwAssumption

LEMMA RuleLists ==
  ASSUME TypeOK
  PROVE  /\ Defaults \in PortLists /\ LoadedPorts \in PortLists /\ LoadedEnabled \in BOOLEAN
         /\ \A r \in Rules : Cardinality(ports) < MaxPorts => ports \cup {r} \in PortLists
         /\ \A r : ports \ {r} \in PortLists
<1>1. \A p \in SUBSET Rules : IsFiniteSet(p) /\ Cardinality(p) \in Nat
  BY FS_Subset, FS_CardinalityType DEF Rules
<1>2. Defaults \in PortLists
  BY FS_EmptySet DEF Defaults, PortLists, Rules
<1>3. LoadedPorts \in PortLists
  <2>1. CASE regPorts = {}
    BY <1>2, <2>1 DEF LoadedPorts
  <2>2. ASSUME NEW p \in PortLists, regPorts = {p}  PROVE LoadedPorts \in PortLists
    BY <2>2 DEF LoadedPorts
  <2> QED
    BY <2>1, <2>2 DEF TypeOK
<1>4. LoadedEnabled \in BOOLEAN
  <2>1. CASE regEn = {}
    <3>1. LoadedEnabled = (method = "pf")
      BY <2>1 DEF LoadedEnabled
    <3> QED
      BY <3>1
  <2>2. CASE regEn # {}
    <3>1. LoadedEnabled = (TRUE \in regEn)
      BY <2>2 DEF LoadedEnabled
    <3> QED
      BY <3>1
  <2> QED
    BY <2>1, <2>2
<1>5. ASSUME NEW r \in Rules, Cardinality(ports) < MaxPorts  PROVE ports \cup {r} \in PortLists
  <2>1. ports \in SUBSET Rules /\ IsFiniteSet(ports) /\ Cardinality(ports) \in Nat
    BY <1>1 DEF TypeOK, PortLists
  <2>2. Cardinality(ports \cup {r}) <= Cardinality(ports) + 1
    <3>1. Cardinality(ports \cup {r}) = IF r \in ports THEN Cardinality(ports) ELSE Cardinality(ports) + 1
      BY <2>1, FS_AddElement
    <3> QED
      BY <2>1, <3>1
  <2>3. Cardinality(ports \cup {r}) \in Nat /\ ports \cup {r} \in SUBSET Rules
    BY <1>1, <2>1
  <2> QED
    BY <1>5, <2>1, <2>2, <2>3 DEF PortLists
<1>6. ASSUME NEW r  PROVE ports \ {r} \in PortLists
  <2>1. ports \in SUBSET Rules /\ IsFiniteSet(ports) /\ Cardinality(ports) \in Nat /\ Cardinality(ports) <= MaxPorts
    BY <1>1 DEF TypeOK, PortLists
  <2>2. Cardinality(ports \ {r}) <= Cardinality(ports)
    BY <2>1, FS_Subset
  <2>3. Cardinality(ports \ {r}) \in Nat /\ ports \ {r} \in SUBSET Rules
    BY <1>1, <2>1
  <2> QED
    BY <2>1, <2>2, <2>3 DEF PortLists
<1> QED
  BY <1>2, <1>3, <1>4, <1>5, <1>6

\* The packet filter as pf_apply leaves it.
LEMMA Rebound ==
  ASSUME TypeOK, Rebind
  PROVE  /\ bound' \subseteq sig' /\ sig' \subseteq Addrs /\ err' \in BOOLEAN /\ filter' = ports
         /\ faults' \in 0..MaxFaults
         /\ bound' # {} => enabled
         /\ enabled /\ ports # {} => bound' = sig' \/ err'
<1>1. Seen \subseteq Addrs
  BY DEF TypeOK, Seen
<1>2. sig' \subseteq Addrs /\ faults' \in 0..MaxFaults
  <2>1. CASE sig' = Seen /\ UNCHANGED faults
    BY <1>1, <2>1 DEF TypeOK
  <2>2. CASE faults < MaxFaults /\ faults' = faults + 1 /\ sig' = {}
    BY <2>2 DEF TypeOK
  <2> QED
    BY <2>1, <2>2 DEF Rebind
<1>3. filter' = ports
  BY DEF Rebind
<1>4. CASE enabled /\ ports # {}
  <2>1. bound' \in SUBSET sig' /\ err' = (bound' # sig')
    BY <1>4 DEF Rebind
  <2> QED
    BY <1>2, <1>3, <1>4, <2>1
<1>5. CASE ~(enabled /\ ports # {})
  <2>1. bound' = {} /\ err' = FALSE
    BY <1>5 DEF Rebind
  <2> QED
    BY <1>2, <1>3, <1>5, <2>1
<1> QED
  BY <1>4, <1>5

LEMMA TypeStep == TypeOK /\ [Next]_vars => TypeOK'
<1> SUFFICES ASSUME TypeOK, [Next]_vars PROVE TypeOK'
  OBVIOUS
<1> USE DEF world, config, saved, pf, tcpip
<1>m. UNCHANGED method
  BY DEF Next, Page, Step, Tick, Start, SetEnabled, AddPort, RemovePort, RestoreDefaults, Operation,
         SaveEnabled, SavePorts, Bind, WriteFlag, WriteLists, TickCount, TickLook, TickBlind, Stop, Crash,
         Uninstall, Boot, Move, vars
<1>p. Plans' = Plans /\ <<>> \in Plans
  BY <1>m DEF Plans
<1>o. ASSUME NEW steps, Operation(steps), enabled' \in BOOLEAN, ports' \in PortLists, todo' \in Plans'
      PROVE  TypeOK'
  <2>1. ops' \in 0..MaxOps /\ up = "up"
    BY <1>o DEF Operation, Idle, TypeOK
  <2> QED
    BY <1>o, <2>1 DEF Operation, TypeOK
<1>1. CASE Start
  <2>1. todo' \in Plans'
    BY <1>1, <1>m, <1>p, Planned DEF Start, TypeOK
  <2>2. enabled' \in BOOLEAN /\ ports' \in PortLists /\ tick' \in 0..TickEvery - 1
    BY <1>1, RuleLists DEF Start
  <2>3. slips' \subseteq {"save", "write", "cut", "restart"} /\ UNCHANGED faults /\ UNCHANGED <<bound, filter>>
    BY <1>1 DEF Start, TypeOK
  <2> QED
    BY <1>1, <2>1, <2>2, <2>3 DEF Start, TypeOK
<1>2. CASE SetEnabled
  <2>1. todo' \in Plans'
    BY <1>2, Begun DEF SetEnabled
  <2> QED
    BY <1>2, <1>o, <2>1 DEF SetEnabled, TypeOK
<1>3. CASE AddPort
  <2>1. todo' \in Plans'
    BY <1>3, Begun DEF AddPort
  <2>2. ports' \in PortLists
    BY <1>3, RuleLists DEF AddPort
  <2> QED
    BY <1>3, <1>o, <2>1, <2>2 DEF AddPort, TypeOK
<1>4. CASE RemovePort
  <2>1. todo' \in Plans'
    BY <1>4, Begun DEF RemovePort
  <2>2. ports' \in PortLists
    BY <1>4, RuleLists DEF RemovePort
  <2> QED
    BY <1>4, <1>o, <2>1, <2>2 DEF RemovePort, TypeOK
<1>5. CASE RestoreDefaults
  <2>1. todo' \in Plans'
    BY <1>5, Begun DEF RestoreDefaults
  <2>2. ports' \in PortLists
    BY <1>5, RuleLists DEF RestoreDefaults
  <2> QED
    BY <1>5, <1>o, <2>1, <2>2 DEF RestoreDefaults, TypeOK
<1>6. CASE SaveEnabled
  <2>1. todo' \in Plans' /\ (up = "up" \/ (up = "leaving" /\ method = "tcpip"))
    BY <1>6, <1>m, StepDone, TwoDropped DEF SaveEnabled, At, TypeOK
  <2>2. regEn' \in {{}, {TRUE}, {FALSE}} /\ slips' \subseteq {"save", "write", "cut", "restart"}
    BY <1>6 DEF SaveEnabled, TypeOK
  <2> QED
    BY <1>6, <2>1, <2>2 DEF SaveEnabled, TypeOK
<1>7. CASE SavePorts
  <2>1. todo' \in Plans' /\ (up = "up" \/ (up = "leaving" /\ method = "tcpip"))
    BY <1>7, <1>m, StepDone DEF SavePorts, At, TypeOK
  <2> QED
    BY <1>7, <2>1 DEF SavePorts, TypeOK
<1>8. CASE Bind
  <2>1. todo' \in Plans' /\ (up = "up" \/ (up = "leaving" /\ method = "tcpip"))
    BY <1>8, <1>m, StepDone DEF Bind, At, TypeOK
  <2>2. bound' \subseteq Addrs /\ sig' \subseteq Addrs /\ filter' \subseteq Rules /\ err' \in BOOLEAN /\ faults' \in 0..MaxFaults
    BY <1>8, Rebound DEF Bind, TypeOK, PortLists
  <2> QED
    BY <1>8, <2>1, <2>2 DEF Bind, TypeOK
<1>9. CASE WriteFlag
  <2>1. todo' \in Plans' /\ (up = "up" \/ (up = "leaving" /\ method = "tcpip"))
    BY <1>9, <1>m, StepDone, TwoDropped DEF WriteFlag, At, TypeOK
  <2>2. flag' \in BOOLEAN /\ err' \in BOOLEAN /\ slips' \subseteq {"save", "write", "cut", "restart"}
    BY <1>9 DEF WriteFlag, TypeOK
  <2> QED
    BY <1>9, <2>1, <2>2 DEF WriteFlag, TypeOK
<1>10. CASE WriteLists
  <2>1. todo' \in Plans' /\ (up = "up" \/ (up = "leaving" /\ method = "tcpip"))
    BY <1>10, <1>m, StepDone DEF WriteLists, At, TypeOK
  <2>2. Allowed \in SUBSET SUBSET Rules
    BY DEF Allowed, TypeOK, PortLists
  <2>3. lists' \in [Ifaces -> SUBSET SUBSET Rules]
    BY <1>10, <2>2 DEF WriteLists, TypeOK
  <2>4. err' \in BOOLEAN /\ reboot' \in BOOLEAN /\ slips' \subseteq {"save", "write", "cut", "restart"}
    BY <1>10 DEF WriteLists, TypeOK
  <2> QED
    BY <1>10, <2>1, <2>3, <2>4 DEF WriteLists, TypeOK
<1>11. CASE TickCount
  <2>1. tick' \in 0..TickEvery - 1
    BY <1>11 DEF TickCount, TypeOK
  <2> QED
    BY <1>11, <1>p, <2>1 DEF TickCount, TypeOK
<1>12. CASE TickLook \/ TickBlind
  <2>1. bound' \subseteq Addrs /\ sig' \subseteq Addrs /\ filter' \subseteq Rules /\ err' \in BOOLEAN /\ faults' \in 0..MaxFaults
    <3>1. CASE Rebind
      BY <3>1, Rebound DEF TypeOK, PortLists
    <3>2. CASE UNCHANGED <<bound, filter, sig, err>> /\ (faults' = faults \/ (faults < MaxFaults /\ faults' = faults + 1))
      BY <3>2 DEF TypeOK
    <3> QED
      BY <1>12, <3>1, <3>2 DEF TickLook, TickBlind
  <2>2. tick' \in 0..TickEvery - 1
    BY <1>12 DEF TickLook, TickBlind
  <2> QED
    BY <1>12, <1>p, <2>1, <2>2 DEF TickLook, TickBlind, TypeOK
<1>13. CASE Stop
  BY <1>13, <1>p DEF Stop, Ended, TypeOK
<1>14. CASE Crash
  BY <1>14, <1>p DEF Crash, Ended, TypeOK
<1>15. CASE Uninstall
  <2>1. todo' \in Plans'
    BY <1>15, <1>m, <1>p, Planned DEF Uninstall, TypeOK
  <2> QED
    BY <1>15, <2>1 DEF Uninstall, TypeOK
<1>16. CASE Boot
  BY <1>16, <1>p DEF Boot, TypeOK
<1>17. CASE Move
  <2>1. addrs' \subseteq Addrs /\ moves' \in 0..MaxMoves
    BY <1>17 DEF Move, TypeOK
  <2> QED
    BY <1>17, <1>p, <2>1 DEF Move, TypeOK
<1>18. CASE UNCHANGED vars
  BY <1>18, <1>p DEF vars, TypeOK
<1> QED
  BY <1>1, <1>2, <1>3, <1>4, <1>5, <1>6, <1>7, <1>8, <1>9, <1>10, <1>11, <1>12, <1>13, <1>14, <1>15,
     <1>16, <1>17, <1>18 DEF Next, Page, Step, Tick

-----------------------------------------------------------------------------
(* What each kind of step does to what is to come.                         *)

\* Two methods, and nothing leaves one for the other.
LEMMA MethodStays == TypeOK /\ [Next]_vars => UNCHANGED method /\ method \in {"pf", "tcpip"}
BY DEF Next, Page, Step, Tick, Start, SetEnabled, AddPort, RemovePort, RestoreDefaults, Operation,
       SaveEnabled, SavePorts, Bind, WriteFlag, WriteLists, TickCount, TickLook, TickBlind, Stop, Crash,
       Uninstall, Boot, Move, vars, world, TypeOK

\* An operation starts with what was done before it, and has all of it to do again.
LEMMA PageStep ==
  ASSUME TypeOK, Page
  PROVE  /\ up = "up" /\ UNCHANGED <<method, up, regEn, regPorts, addrs, live, bound, filter, sig, tick, err>>
         /\ UNCHANGED <<flag, lists, reboot, slips>> /\ ToCome = {}
         /\ {"Enabled", "Ports"} \subseteq ToCome'
         /\ method = "pf" => "bind" \in ToCome'
         /\ method = "tcpip" => {"flag", "lists"} \subseteq ToCome'
         /\ enabled' = enabled \/ ports' = ports
<1>1. ASSUME NEW steps \in {Apply \o Save, Save \o Apply}, Operation(steps), enabled' = enabled \/ ports' = ports
      PROVE  /\ up = "up" /\ UNCHANGED <<method, up, regEn, regPorts, addrs, live, bound, filter, sig, tick, err>>
             /\ UNCHANGED <<flag, lists, reboot, slips>> /\ ToCome = {}
             /\ {"Enabled", "Ports"} \subseteq ToCome'
             /\ method = "pf" => "bind" \in ToCome'
             /\ method = "tcpip" => {"flag", "lists"} \subseteq ToCome'
             /\ enabled' = enabled \/ ports' = ports
  BY <1>1, Begun DEF Operation, saved, pf, tcpip
<1>2. CASE SetEnabled
  BY <1>1, <1>2 DEF SetEnabled
<1>3. CASE AddPort \/ RemovePort \/ RestoreDefaults
  BY <1>1, <1>3 DEF AddPort, RemovePort, RestoreDefaults
<1> QED
  BY <1>2, <1>3 DEF Page

LEMMA StartStep ==
  ASSUME TypeOK, Start
  PROVE  /\ up' = "up" /\ enabled' = LoadedEnabled /\ ports' = LoadedPorts /\ up = "down"
         /\ UNCHANGED <<method, regEn, regPorts, bound, filter, flag, lists, live>>
         /\ LoadedEnabled' = LoadedEnabled /\ LoadedPorts' = LoadedPorts
         /\ method = "pf" => ToCome' = {"bind"}
         /\ method # "pf" => ToCome' = {}
         /\ reboot' = FALSE /\ "save" \notin slips'
         /\ slips' \cap {"write", "cut"} = {} => slips \cap {"write", "cut", "save"} = {}
         /\ "restart" \notin slips' => live = <<flag, lists>>
<1>1. up' = "up" /\ UNCHANGED <<method, regEn, regPorts, bound, filter, flag, lists, live>>
  BY DEF Start, saved, world
<1>2. LoadedEnabled' = LoadedEnabled /\ LoadedPorts' = LoadedPorts
  BY <1>1 DEF LoadedEnabled, LoadedPorts, Defaults
<1>3. ToCome' = Steps(todo')
  BY DEF ToCome, Steps
<1>4. Steps(<<"bind">>) = {"bind"} /\ Steps(<<>>) = {}
  BY OneStep, NoSteps
<1>5. todo' = IF method = "pf" THEN <<"bind">> ELSE <<>>
  BY DEF Start
<1>6. slips' = (slips \ {"save"}) \cup (IF "save" \in slips THEN {"cut"} ELSE {})
                                   \cup (IF live # <<flag, lists>> THEN {"restart"} ELSE {})
  BY DEF Start
<1>7. /\ "save" \notin slips'
      /\ slips' \cap {"write", "cut"} = {} => slips \cap {"write", "cut", "save"} = {}
      /\ "restart" \notin slips' => live = <<flag, lists>>
  BY <1>6
<1> QED
  BY <1>1, <1>2, <1>3, <1>4, <1>5, <1>7 DEF Start

\* A step of saving or of writing, and what is left after it.
LEMMA SaveStep ==
  ASSUME TypeOK, SaveEnabled \/ SavePorts
  PROVE  /\ UNCHANGED <<method, up, enabled, ports, bound, filter, sig, err, flag, lists, live, reboot>>
         /\ "bind" \in ToCome' <=> "bind" \in ToCome
         /\ "flag" \in ToCome' <=> "flag" \in ToCome
         /\ "lists" \in ToCome' <=> "lists" \in ToCome
         /\ slips' \ {"save"} = slips \ {"save"}
         /\ \/ /\ "Enabled" \in ToCome /\ "Enabled" \notin ToCome' /\ {"Ports"} \subseteq ToCome'
               /\ regEn' = {enabled} /\ regPorts' = regPorts /\ slips' = slips
            \/ /\ "save" \in slips' /\ "Ports" \notin ToCome'
            \/ /\ "Ports" \in ToCome /\ "Enabled" \notin ToCome /\ "Enabled" \notin ToCome'
               /\ "Ports" \notin ToCome' /\ regEn' = regEn /\ regPorts' = {ports}
<1>1. UNCHANGED <<method, up, enabled, ports, bound, filter, sig, err, flag, lists, live, reboot>>
  BY DEF SaveEnabled, SavePorts, config, pf, tcpip, world
<1>2. CASE At("Enabled") /\ regEn' = {enabled} /\ todo' = Tail(todo) /\ UNCHANGED <<slips, regPorts>>
  <2>1. ToCome' = ToCome \ {"Enabled"} /\ "Enabled" \in ToCome
    BY <1>1, <1>2, StepDone
  <2>2. "Ports" \in ToCome
    BY <1>2, Where
  <2> QED
    BY <1>1, <1>2, <2>1, <2>2
<1>3. CASE At("Enabled") /\ todo' = Tail(Tail(todo)) /\ slips' = slips \cup {"save"}
  <2>1. ToCome' = ToCome \ {"Enabled", "Ports"}
    BY <1>1, <1>3, TwoDropped
  <2> QED
    BY <1>1, <1>3, <2>1
<1>4. CASE SavePorts
  <2>1. At("Ports") /\ todo' = Tail(todo) /\ regEn' = regEn /\ regPorts' = {ports} /\ slips' = slips \ {"save"}
    BY <1>4 DEF SavePorts
  <2>2. ToCome' = ToCome \ {"Ports"} /\ "Ports" \in ToCome
    BY <1>1, <2>1, StepDone
  <2>3. "Enabled" \notin ToCome
    BY <2>1, Where
  <2> QED
    BY <1>1, <2>1, <2>2, <2>3
<1> QED
  BY <1>2, <1>3, <1>4 DEF SaveEnabled

LEMMA WriteStep ==
  ASSUME TypeOK, WriteFlag \/ WriteLists
  PROVE  /\ UNCHANGED <<method, up, enabled, ports, regEn, regPorts, bound, filter, sig, live>>
         /\ method = "tcpip" /\ "lists" \in ToCome
         /\ "bind" \in ToCome' <=> "bind" \in ToCome
         /\ "Enabled" \in ToCome' <=> "Enabled" \in ToCome
         /\ "Ports" \in ToCome' <=> "Ports" \in ToCome
         /\ "save" \in slips' <=> "save" \in slips
         /\ \/ /\ "flag" \in ToCome /\ "flag" \notin ToCome' /\ "lists" \in ToCome'
               /\ flag' = enabled /\ UNCHANGED <<lists, reboot, slips>>
            \/ /\ "flag" \in ToCome /\ "flag" \notin ToCome' /\ "lists" \notin ToCome'
               /\ "write" \in slips' /\ UNCHANGED <<flag, lists, reboot>>
            \/ /\ "flag" \notin ToCome /\ "flag" \notin ToCome' /\ "lists" \notin ToCome' /\ flag' = flag
               /\ \/ lists' = [i \in Ifaces |-> Allowed] /\ reboot' = TRUE
                  \/ "write" \in slips'
<1>1. UNCHANGED <<method, up, enabled, ports, regEn, regPorts, bound, filter, sig, live>>
  BY DEF WriteFlag, WriteLists, config, saved, pf, world
<1>2. CASE At("flag") /\ flag' = enabled /\ todo' = Tail(todo) /\ UNCHANGED <<lists, reboot, slips>>
  <2>1. ToCome' = ToCome \ {"flag"} /\ "flag" \in ToCome
    BY <1>1, <1>2, StepDone
  <2>2. method = "tcpip" /\ "lists" \in ToCome
    BY <1>2, Where
  <2> QED
    BY <1>1, <1>2, <2>1, <2>2
<1>3. CASE At("flag") /\ todo' = Tail(Tail(todo)) /\ slips' = slips \cup {"write"} /\ UNCHANGED <<flag, lists, reboot>>
  <2>1. ToCome' = ToCome \ {"flag", "lists"}
    BY <1>1, <1>3, TwoDropped
  <2>2. method = "tcpip" /\ "lists" \in ToCome /\ "flag" \in ToCome
    BY <1>3, Where
  <2> QED
    BY <1>1, <1>3, <2>1, <2>2
<1>4. CASE WriteLists
  <2>1. At("lists") /\ todo' = Tail(todo) /\ flag' = flag
    BY <1>4 DEF WriteLists
  <2>2. ToCome' = ToCome \ {"lists"} /\ "lists" \in ToCome
    BY <1>1, <2>1, StepDone
  <2>3. method = "tcpip" /\ "flag" \notin ToCome
    BY <2>1, Where
  <2>4. /\ "save" \in slips' <=> "save" \in slips
        /\ (lists' = [i \in Ifaces |-> Allowed] /\ reboot' = TRUE) \/ "write" \in slips'
    BY <1>4 DEF WriteLists
  <2> QED
    BY <1>1, <2>1, <2>2, <2>3, <2>4
<1> QED
  BY <1>2, <1>3, <1>4 DEF WriteFlag

\* Steps that do nothing the properties speak of but what their names say.
LEMMA OthersStep ==
  ASSUME TypeOK, TickCount \/ Boot \/ Move \/ UNCHANGED vars
  PROVE  /\ UNCHANGED <<method, up, enabled, ports, regEn, regPorts, bound, filter, sig, err, flag, lists, reboot>>
         /\ ToCome' = ToCome /\ LoadedEnabled' = LoadedEnabled /\ LoadedPorts' = LoadedPorts
         /\ (UNCHANGED <<live, slips>> \/ (up # "up" /\ slips' = slips \ {"restart"}))
<1>1. UNCHANGED <<method, up, todo, enabled, ports, regEn, regPorts, bound, filter, sig, err, flag, lists, reboot>>
  BY DEF TickCount, Boot, Move, vars, world, config, saved, pf, tcpip
<1>2. UNCHANGED <<live, slips>> \/ (up # "up" /\ slips' = slips \ {"restart"})
  BY DEF TickCount, Boot, Move, vars, world
<1> QED
  BY <1>1, <1>2 DEF ToCome, LoadedEnabled, LoadedPorts, Defaults

\* The program ends, in good order only when nothing is left to do.
LEMMA EndStep ==
  ASSUME TypeOK, Stop \/ Crash
  PROVE  /\ up = "up" /\ up' = "down" /\ bound' = {}
         /\ UNCHANGED <<method, enabled, ports, regEn, regPorts, flag, lists, live>>
         /\ LoadedEnabled' = LoadedEnabled /\ LoadedPorts' = LoadedPorts
         /\ "cut" \notin slips' => slips' = slips /\ ToCome = {}
<1>1. /\ up = "up" /\ up' = "down" /\ bound' = {}
      /\ UNCHANGED <<method, enabled, ports, regEn, regPorts, flag, lists, live>>
  BY DEF Stop, Crash, Ended, Idle, world, config, saved, tcpip
<1>2. "cut" \notin slips' => slips' = slips /\ todo = <<>>
  BY DEF Stop, Crash, Idle
<1>3. todo = <<>> => ToCome = {}
  BY Where
<1> QED
  BY <1>1, <1>2, <1>3 DEF LoadedEnabled, LoadedPorts, Defaults

LEMMA LeaveStep ==
  ASSUME TypeOK, Uninstall
  PROVE  /\ up = "down" /\ up' = "leaving" /\ UNCHANGED <<method, bound, live>>
BY DEF Uninstall, pf, world

-----------------------------------------------------------------------------
(* The packet filter.                                                      *)

LEMMA BoundStep == TypeOK /\ BoundAsListed /\ [Next]_vars => BoundAsListed'
<1> SUFFICES ASSUME TypeOK, BoundAsListed, [Next]_vars PROVE BoundAsListed'
  OBVIOUS
<1>m. UNCHANGED method /\ method \in {"pf", "tcpip"}
  BY MethodStays
<1>1. CASE Start
  BY <1>1, <1>m, StartStep DEF BoundAsListed
<1>2. CASE Page
  BY <1>2, <1>m, PageStep DEF BoundAsListed
<1>3. CASE SaveEnabled \/ SavePorts \/ WriteFlag \/ WriteLists
  <2>1. "bind" \in ToCome' <=> "bind" \in ToCome
    BY <1>3, SaveStep, WriteStep
  <2>2. UNCHANGED <<up, enabled, ports, bound, filter, sig>>
    BY <1>3 DEF SaveEnabled, SavePorts, WriteFlag, WriteLists, config, pf
  <2>3. CASE SaveEnabled \/ SavePorts
    <3>1. UNCHANGED err
      BY <2>3 DEF SaveEnabled, SavePorts
    <3> QED
      BY <1>m, <2>1, <2>2, <3>1 DEF BoundAsListed
  <2>4. CASE WriteFlag \/ WriteLists
    <3>1. method = "tcpip"
      BY <2>4, Where DEF WriteFlag, WriteLists
    <3> QED
      BY <1>m, <2>1, <2>2, <3>1 DEF BoundAsListed
  <2> QED
    BY <1>3, <2>3, <2>4
<1>4. CASE Bind \/ TickLook \/ TickBlind
  <2>1. method = "pf" /\ UNCHANGED <<up, enabled, ports>>
    BY <1>4, Where DEF Bind, TickLook, TickBlind, config
  <2>2. CASE Rebind
    <3>1. bound' # {} => up = "up"
      <4>1. CASE Bind
        BY <4>1, <2>1 DEF Bind, At, TypeOK
      <4>2. CASE TickLook \/ TickBlind
        BY <4>2 DEF TickLook, TickBlind, Idle
      <4> QED
        BY <1>4, <4>1, <4>2
    <3> QED
      BY <1>m, <2>1, <2>2, <3>1, Rebound DEF BoundAsListed
  <2>3. CASE UNCHANGED <<bound, filter, sig, err>> /\ (TickLook \/ TickBlind)
    <3>1. ToCome' = ToCome
      BY <2>3 DEF TickLook, TickBlind, ToCome
    <3> QED
      BY <1>m, <2>1, <2>3, <3>1 DEF BoundAsListed
  <2> QED
    BY <1>4, <2>2, <2>3 DEF Bind, TickLook, TickBlind
<1>5. CASE TickCount \/ Boot \/ Move \/ UNCHANGED vars
  BY <1>5, OthersStep DEF BoundAsListed
<1>6. CASE Stop \/ Crash
  BY <1>6, EndStep DEF BoundAsListed
<1>7. CASE Uninstall
  BY <1>7, LeaveStep DEF BoundAsListed
<1> QED
  BY <1>1, <1>2, <1>3, <1>4, <1>5, <1>6, <1>7 DEF Next, Step, Tick

-----------------------------------------------------------------------------
(* What is saved.                                                          *)

LEMMA LoadsNext ==
  /\ \A e \in BOOLEAN : regEn' = {e} => LoadedEnabled' = e
  /\ \A p : regPorts' = {p} => LoadedPorts' = p
  /\ regEn' = regEn /\ method' = method => LoadedEnabled' = LoadedEnabled
  /\ regPorts' = regPorts /\ method' = method => LoadedPorts' = LoadedPorts
<1>1. ASSUME NEW e \in BOOLEAN, regEn' = {e}  PROVE LoadedEnabled' = e
  <2>a. LoadedEnabled' = (TRUE \in {e})
    BY <1>1 DEF LoadedEnabled
  <2>1. LoadedEnabled' <=> TRUE \in {e}
    BY <2>a
  <2>b. LoadedEnabled' \in BOOLEAN
    BY <2>a
  <2>2. CASE e = TRUE
    BY <2>1, <2>b, <2>2, Zenon
  <2>3. CASE e = FALSE
    <3>1. ~(TRUE \in {e})
      BY <2>3, Zenon
    <3> QED
      BY <2>1, <2>b, <2>3, <3>1, Zenon
  <2> QED
    BY <2>2, <2>3
<1>2. ASSUME NEW p, regPorts' = {p}  PROVE LoadedPorts' = p
  BY <1>2 DEF LoadedPorts
<1>3. /\ regEn' = regEn /\ method' = method => LoadedEnabled' = LoadedEnabled
      /\ regPorts' = regPorts /\ method' = method => LoadedPorts' = LoadedPorts
  <2>1. ASSUME regEn' = regEn, method' = method  PROVE LoadedEnabled' = LoadedEnabled
    BY <2>1 DEF LoadedEnabled
  <2>2. ASSUME regPorts' = regPorts, method' = method  PROVE LoadedPorts' = LoadedPorts
    BY <2>2 DEF LoadedPorts, Defaults
  <2> QED
    BY <2>1, <2>2
<1> QED
  BY <1>1, <1>2, <1>3

LEMMA SavedStep == TypeOK /\ SavedInTurn /\ [Next]_vars => SavedInTurn'
<1> SUFFICES ASSUME TypeOK, SavedInTurn, [Next]_vars PROVE SavedInTurn'
  OBVIOUS
<1>m. UNCHANGED method /\ enabled \in BOOLEAN
  BY MethodStays DEF TypeOK
<1>1. CASE Start
  BY <1>1, StartStep DEF SavedInTurn
<1>2. CASE Page
  <2>1. LoadedEnabled' = LoadedEnabled /\ LoadedPorts' = LoadedPorts
    BY <1>2, PageStep, LoadsNext
  <2> QED
    BY <1>2, <2>1, PageStep DEF SavedInTurn
<1>3. CASE SaveEnabled \/ SavePorts
  <2>1. UNCHANGED <<up, enabled, ports>>
    BY <1>3, SaveStep
  <2>2. CASE /\ "Enabled" \in ToCome /\ "Enabled" \notin ToCome' /\ {"Ports"} \subseteq ToCome'
             /\ regEn' = {enabled} /\ regPorts' = regPorts /\ slips' = slips
    <3>1. LoadedEnabled' = enabled
      BY <1>m, <2>2, LoadsNext
    <3> QED
      BY <2>1, <2>2, <3>1 DEF SavedInTurn
  <2>3. CASE "save" \in slips' /\ "Ports" \notin ToCome'
    BY <2>1, <2>3 DEF SavedInTurn
  <2>4. CASE /\ "Ports" \in ToCome /\ "Enabled" \notin ToCome /\ "Enabled" \notin ToCome'
             /\ "Ports" \notin ToCome' /\ regEn' = regEn /\ regPorts' = {ports}
    <3>1. up = "up" => regEn' = {enabled}
      BY <2>4 DEF SavedInTurn
    <3>2. up = "up" => LoadedEnabled' = enabled /\ LoadedPorts' = ports
      BY <1>m, <2>4, <3>1, LoadsNext
    <3> QED
      BY <2>1, <2>4, <3>2 DEF SavedInTurn
  <2> QED
    BY <1>3, <2>2, <2>3, <2>4, SaveStep
<1>4. CASE WriteFlag \/ WriteLists
  <2>1. LoadedEnabled' = LoadedEnabled /\ LoadedPorts' = LoadedPorts
    BY <1>4, WriteStep, LoadsNext
  <2> QED
    BY <1>4, <2>1, WriteStep DEF SavedInTurn
<1>5. CASE Bind \/ TickLook \/ TickBlind
  <2>1. UNCHANGED <<up, enabled, ports, regEn, regPorts, slips>>
    BY <1>5 DEF Bind, TickLook, TickBlind, config, saved
  <2>2. /\ "Enabled" \in ToCome' <=> "Enabled" \in ToCome
        /\ "Ports" \in ToCome' <=> "Ports" \in ToCome
    <3>1. CASE Bind
      BY <1>m, <3>1, StepDone DEF Bind
    <3>2. CASE TickLook \/ TickBlind
      BY <3>2 DEF TickLook, TickBlind, ToCome
    <3> QED
      BY <1>5, <3>1, <3>2
  <2>3. LoadedEnabled' = LoadedEnabled /\ LoadedPorts' = LoadedPorts
    BY <1>m, <2>1, LoadsNext
  <2> QED
    BY <2>1, <2>2, <2>3 DEF SavedInTurn
<1>6. CASE TickCount \/ Boot \/ Move \/ UNCHANGED vars
  BY <1>6, OthersStep DEF SavedInTurn
<1>7. CASE Stop \/ Crash
  BY <1>7, EndStep DEF SavedInTurn
<1>8. CASE Uninstall
  BY <1>8, LeaveStep DEF SavedInTurn
<1> QED
  BY <1>1, <1>2, <1>3, <1>4, <1>5, <1>6, <1>7, <1>8 DEF Next, Step, Tick

-----------------------------------------------------------------------------
(* TCP/IP filtering.                                                       *)

LEMMA WrittenStep == TypeOK /\ SavedInTurn /\ WrittenAsListed /\ [Next]_vars => WrittenAsListed'
<1> SUFFICES ASSUME TypeOK, SavedInTurn, WrittenAsListed, [Next]_vars, method = "tcpip" PROVE WrittenAsListed'
  BY MethodStays DEF WrittenAsListed
<1>m. UNCHANGED method
  BY MethodStays
<1>1. CASE Start
  <2>1. slips' \cap {"write", "cut"} = {} =>
          flag' = LoadedEnabled /\ \A i \in Ifaces : lists'[i] = IF LoadedEnabled THEN {LoadedPorts \cap Tcp} ELSE {}
    BY <1>1, StartStep DEF WrittenAsListed
  <2>2. up' = "up" /\ ToCome' = {} /\ enabled' = LoadedEnabled /\ ports' = LoadedPorts
    BY <1>1, StartStep
  <2>3. Allowed' = IF LoadedEnabled THEN {LoadedPorts \cap Tcp} ELSE {}
    BY <2>2 DEF Allowed
  <2> QED
    BY <2>1, <2>2, <2>3 DEF WrittenAsListed
<1>2. CASE Page
  BY <1>2, PageStep DEF WrittenAsListed
<1>3. CASE SaveEnabled \/ SavePorts
  <2>1. UNCHANGED <<up, enabled, ports, flag, lists>> /\ slips' \ {"save"} = slips \ {"save"} /\ up # "down"
    BY <1>3, SaveStep DEF TypeOK, SaveEnabled, SavePorts, At
  <2>2. Allowed' = Allowed
    BY <2>1 DEF Allowed
  <2>3. slips' \cap {"write", "cut"} = slips \cap {"write", "cut"}
    BY <2>1
  <2>4. ("flag" \in ToCome' <=> "flag" \in ToCome) /\ ("lists" \in ToCome' <=> "lists" \in ToCome)
    BY <1>3, SaveStep
  <2> QED
    BY <2>1, <2>2, <2>3, <2>4 DEF WrittenAsListed
<1>4. CASE WriteFlag \/ WriteLists
  <2>1. UNCHANGED <<up, enabled, ports>> /\ "lists" \in ToCome /\ up # "down"
    BY <1>4, WriteStep DEF TypeOK, WriteFlag, WriteLists, At
  <2>2. Allowed' = Allowed
    BY <2>1 DEF Allowed
  <2>3. CASE "flag" \in ToCome /\ "flag" \notin ToCome' /\ "lists" \in ToCome' /\ flag' = enabled
    BY <2>1, <2>3 DEF WrittenAsListed
  <2>4. CASE "lists" \notin ToCome' /\ "write" \in slips'
    BY <2>1, <2>4 DEF WrittenAsListed
  <2>5. CASE "flag" \notin ToCome /\ flag' = flag /\ lists' = [i \in Ifaces |-> Allowed]
    <3>1. up' = "up" => flag' = enabled'
      BY <2>1, <2>5 DEF WrittenAsListed
    <3>2. \A i \in Ifaces : lists'[i] = Allowed'
      BY <2>2, <2>5
    <3> QED
      BY <2>1, <3>1, <3>2 DEF WrittenAsListed
  <2> QED
    BY <1>4, <2>3, <2>4, <2>5, WriteStep
<1>5. CASE TickLook \/ TickBlind \/ Bind
  BY <1>5, Where DEF TickLook, TickBlind, Bind
<1>6. CASE TickCount \/ Boot \/ Move \/ UNCHANGED vars
  <2>1. /\ UNCHANGED <<method, up, enabled, ports, flag, lists>> /\ ToCome' = ToCome
        /\ LoadedEnabled' = LoadedEnabled /\ LoadedPorts' = LoadedPorts
        /\ slips' = slips \/ slips' = slips \ {"restart"}
    BY <1>6, OthersStep
  <2>2. Allowed' = Allowed
    BY <2>1 DEF Allowed
  <2>3. slips' \cap {"write", "cut"} = slips \cap {"write", "cut"}
        /\ slips' \cap {"write", "cut", "save"} = slips \cap {"write", "cut", "save"}
    BY <2>1
  <2> QED
    BY <2>1, <2>2, <2>3 DEF WrittenAsListed
<1>7. CASE Stop \/ Crash
  <2>1. /\ up = "up" /\ up' = "down" /\ UNCHANGED <<enabled, ports, flag, lists>>
        /\ LoadedEnabled' = LoadedEnabled /\ LoadedPorts' = LoadedPorts
        /\ "cut" \notin slips' => slips' = slips /\ ToCome = {}
    BY <1>7, EndStep
  <2>2. ASSUME slips' \cap {"write", "cut", "save"} = {}
        PROVE  /\ flag' = LoadedEnabled
               /\ \A i \in Ifaces : lists'[i] = IF LoadedEnabled THEN {LoadedPorts \cap Tcp} ELSE {}
    <3>1. slips' = slips /\ ToCome = {} /\ slips \cap {"write", "cut"} = {} /\ "save" \notin slips
      BY <2>1, <2>2
    <3>2. LoadedEnabled = enabled /\ LoadedPorts = ports
      BY <2>1, <3>1 DEF SavedInTurn
    <3>3. flag = enabled /\ \A i \in Ifaces : lists[i] = Allowed
      BY <2>1, <3>1 DEF WrittenAsListed
    <3> QED
      BY <2>1, <3>2, <3>3 DEF Allowed
  <2> QED
    BY <2>1, <2>2 DEF WrittenAsListed
<1>8. CASE Uninstall
  BY <1>8, LeaveStep DEF WrittenAsListed
<1> QED
  BY <1>1, <1>2, <1>3, <1>4, <1>5, <1>6, <1>7, <1>8 DEF Next, Step, Tick

LEMMA InForceStep == TypeOK /\ InForceAsWritten /\ [Next]_vars => InForceAsWritten'
<1> SUFFICES ASSUME TypeOK, InForceAsWritten, [Next]_vars PROVE InForceAsWritten'
  OBVIOUS
<1>1. CASE Start
  BY <1>1, StartStep DEF InForceAsWritten
<1>2. CASE Page
  BY <1>2, PageStep DEF InForceAsWritten
<1>3. CASE SaveEnabled \/ SavePorts
  <2>1. slips' \cap {"restart", "write", "cut"} = slips \cap {"restart", "write", "cut"}
    BY <1>3, SaveStep
  <2> QED
    BY <1>3, <2>1, SaveStep DEF InForceAsWritten
<1>4. CASE WriteFlag \/ WriteLists
  BY <1>4, WriteStep DEF InForceAsWritten
<1>5. CASE Bind \/ TickLook \/ TickBlind
  <2>1. UNCHANGED <<up, reboot, slips, live, flag, lists>>
    BY <1>5 DEF Bind, TickLook, TickBlind, tcpip, world
  <2>2. method = "pf"
    BY <1>5, Where DEF Bind, TickLook, TickBlind
  <2>3. ("flag" \in ToCome' <=> "flag" \in ToCome) /\ ("lists" \in ToCome' <=> "lists" \in ToCome)
    <3>1. CASE Bind
      BY <3>1, MethodStays, StepDone DEF Bind
    <3>2. CASE TickLook \/ TickBlind
      BY <3>2 DEF TickLook, TickBlind, ToCome
    <3> QED
      BY <1>5, <3>1, <3>2
  <2> QED
    BY <2>1, <2>3 DEF InForceAsWritten
<1>6. CASE TickCount \/ Boot \/ Move \/ UNCHANGED vars
  BY <1>6, OthersStep DEF InForceAsWritten
<1>7. CASE Stop \/ Crash
  BY <1>7, EndStep DEF InForceAsWritten
<1>8. CASE Uninstall
  BY <1>8, LeaveStep DEF InForceAsWritten
<1> QED
  BY <1>1, <1>2, <1>3, <1>4, <1>5, <1>6, <1>7, <1>8 DEF Next, Step, Tick

-----------------------------------------------------------------------------
(* The inductive invariant and what follows from it.                       *)

LEMMA InitIndInv == Init => IndInv
<1> SUFFICES ASSUME Init PROVE IndInv
  OBVIOUS
<1>1. TypeOK
  <2>1. PortLists # {} /\ {} \in PortLists
    BY FS_EmptySet DEF PortLists
  <2>2. <<>> \in Plans
    BY DEF Plans
  <2>3. lists \in [Ifaces -> SUBSET SUBSET Rules]
    BY DEF Init
  <2>4. tick \in 0..TickEvery - 1 /\ ops \in 0..MaxOps /\ moves \in 0..MaxMoves /\ faults \in 0..MaxFaults
    BY DEF Init
  <2> QED
    BY <2>1, <2>2, <2>3, <2>4 DEF Init, TypeOK
<1>2. BoundAsListed /\ SavedInTurn /\ InForceAsWritten
  BY DEF Init, BoundAsListed, SavedInTurn, InForceAsWritten
<1>3. WrittenAsListed
  <2>1. method = "tcpip" => LoadedEnabled = FALSE
    BY DEF Init, LoadedEnabled
  <2>2. flag = FALSE /\ up = "down" /\ \A i \in Ifaces : lists[i] = {}
    BY DEF Init
  <2> QED
    BY <2>1, <2>2 DEF WrittenAsListed
<1> QED
  BY <1>1, <1>2, <1>3 DEF IndInv

LEMMA StepIndInv == IndInv /\ [Next]_vars => IndInv'
BY TypeStep, BoundStep, WrittenStep, SavedStep, InForceStep DEF IndInv

\* The inductive invariant holds of every reachable state.
THEOREM Inductive == Spec => []IndInv
BY InitIndInv, StepIndInv, PTL DEF Spec

\* Every variable keeps its type, and an operation in progress is one that fw2k.c
\* can be in the middle of.
THEOREM TypeCorrect == Spec => []TypeOK
<1>1. IndInv => TypeOK
  BY DEF IndInv
<1> QED
  BY <1>1, Inductive, PTL

\* Between operations, what filters is what the page lists (apply, pf_apply,
\* tcpip_write), with only the failures named as an excuse.
THEOREM FiltersTheList == Spec => []FiltersAsListed
<1>1. IndInv => FiltersAsListed
  <2> SUFFICES ASSUME IndInv, Idle PROVE
         /\ bound # {} => enabled /\ filter = ports
         /\ method = "pf" /\ enabled /\ ports # {} => bound = sig \/ err
         /\ method = "tcpip" /\ slips \cap {"write", "cut"} = {} =>
              flag = enabled /\ \A i \in Ifaces : lists[i] = IF enabled THEN {ports \cap Tcp} ELSE {}
    BY DEF FiltersAsListed
  <2>1. ToCome = {} /\ up = "up"
    BY Where DEF Idle, IndInv
  <2>2. BoundAsListed /\ WrittenAsListed
    BY DEF IndInv
  <2>3. /\ bound # {} => enabled /\ filter = ports
        /\ method = "pf" /\ enabled /\ ports # {} => bound = sig \/ err
    BY <2>1, <2>2 DEF BoundAsListed
  <2>4. method = "tcpip" /\ slips \cap {"write", "cut"} = {} =>
          flag = enabled /\ \A i \in Ifaces : lists[i] = Allowed
    BY <2>1, <2>2 DEF WrittenAsListed
  <2> QED
    BY <2>3, <2>4 DEF Allowed
<1> QED
  BY <1>1, Inductive, PTL

\* What the next start loads is behind what is in memory by one choice at most,
\* wherever save_config and the operations around it are cut.
THEOREM OneBehindAtMost == Spec => []OneChoiceBehind
<1>1. IndInv => OneChoiceBehind
  BY Where DEF IndInv, OneChoiceBehind, SavedInTurn
<1> QED
  BY <1>1, Inductive, PTL

\* TCP/IP filtering that is shown on, without a restart asked for, is in force.
THEOREM OnAndInForce == Spec => []OnIsInForce
<1>1. IndInv => OnIsInForce
  <2> SUFFICES ASSUME IndInv, Idle, method = "tcpip", enabled, ~reboot, slips = {}
               PROVE  live = <<TRUE, [i \in Ifaces |-> {ports \cap Tcp}]>>
    BY DEF OnIsInForce
  <2>1. ToCome = {} /\ up = "up" /\ TypeOK
    BY Where DEF Idle, IndInv
  <2>2. live = <<flag, lists>>
    BY <2>1 DEF IndInv, InForceAsWritten
  <2>3. flag = enabled /\ \A i \in Ifaces : lists[i] = Allowed
    BY <2>1 DEF IndInv, WrittenAsListed
  <2>4. enabled = TRUE /\ Allowed = {ports \cap Tcp}
    BY <2>1 DEF TypeOK, Allowed
  <2>5. lists = [i \in Ifaces |-> {ports \cap Tcp}]
    BY <2>1, <2>3, <2>4 DEF TypeOK
  <2> QED
    BY <2>2, <2>3, <2>4, <2>5
<1> QED
  BY <1>1, Inductive, PTL
=============================================================================
