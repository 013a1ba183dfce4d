------------------------------- MODULE SigDb -------------------------------
(***************************************************************************)
(* Looking a hash up in a loaded database (src/src/sigdb.c): lookup, which *)
(* the MD5 and the section tables share, and sigdb_match_sha.              *)
(*                                                                         *)
(* Memory holds a prefix of each MD5 and the size; the rest is read from   *)
(* the file's record when these match.  A hash is a pair <<pre, rest>>,    *)
(* ordered as memcmp orders it.  Size 0 in a record means any size.        *)
(***************************************************************************)
EXTENDS Naturals, Sequences

CONSTANTS
  Queries,  \* what is looked up: [kind, hash, size]
  None

ASSUME QueriesAssumption ==
  /\ Queries \subseteq [kind : {"md5", "sha", "sect"}, hash : Nat \X Nat, size : Nat]

VARIABLES
  db,     \* g_db: for each kind the sequence of its records, [hash, size, name]
  q,      \* the query
  lo, hi, \* the part of the table that is still searched
  first,  \* the first record found so far that matches, or 0
  at,     \* the record whose turn it is to be compared in full
  ans,    \* the name found, or None
  phase      \* "idle", "search", "back", "walk", "done"

dbvars == <<db, q, lo, hi, first, at, ans, phase>>

Table == db[q.kind]
Less(a, b) == a[1] < b[1] \/ (a[1] = b[1] /\ a[2] < b[2])
Compatible(r) == r.size = 0 \/ r.size = q.size

\* What the search compares: the prefix in memory, or a SHA-256 as a whole.
Same(r) == IF q.kind = "sha" THEN r.hash = q.hash ELSE r.hash[1] = q.hash[1]

\* sigdb_has_sect_size: a section is hashed only if some record has its size.
Asked(t, query) == query.kind = "sect" => \E i \in DOMAIN t : t[i].size = query.size

\* load_keys, and what qsort leaves of the SHA-256 table.
Sorted(t) == \A i, j \in DOMAIN t : i < j => t[i].hash[1] <= t[j].hash[1]
SortedSha(t) == \A i, j \in DOMAIN t : i < j => ~Less(t[j].hash, t[i].hash)

Begin ==
  /\ phase = "idle"
  /\ \E query \in Queries :
       /\ q' = query /\ hi' = Len(db[query.kind])
       /\ phase' = IF db[query.kind] # <<>> /\ Asked(db[query.kind], query) THEN "search" ELSE "done"
  /\ lo' = 1 /\ first' = 0 /\ at' = 0 /\ ans' = None
  /\ UNCHANGED db

-----------------------------------------------------------------------------
Mid == lo + (hi - lo) \div 2

\* lookup: the lower bound of the prefix.
Search ==
  /\ phase = "search" /\ q.kind # "sha" /\ lo <= hi
  /\ IF Table[Mid].hash[1] >= q.hash[1]
     THEN /\ first' = (IF Same(Table[Mid]) THEN Mid ELSE first)
          /\ hi' = Mid - 1 /\ UNCHANGED lo
     ELSE lo' = Mid + 1 /\ UNCHANGED <<hi, first>>
  /\ UNCHANGED <<db, q, at, ans, phase>>

\* sigdb_match_sha: any record of the hash, ...
SearchSha ==
  /\ phase = "search" /\ q.kind = "sha" /\ lo <= hi
  /\ CASE Same(Table[Mid]) -> first' = Mid /\ phase' = "back" /\ UNCHANGED <<lo, hi>>
       [] Less(q.hash, Table[Mid].hash) -> hi' = Mid - 1 /\ UNCHANGED <<lo, first, phase>>
       [] OTHER -> lo' = Mid + 1 /\ UNCHANGED <<hi, first, phase>>
  /\ UNCHANGED <<db, q, at, ans>>

\* ... and back to the first of them.
Back ==
  /\ phase = "back"
  /\ IF first > 1 /\ Same(Table[first - 1]) THEN first' = first - 1 /\ UNCHANGED <<at, phase>>
     ELSE at' = first /\ phase' = "walk" /\ UNCHANGED first
  /\ UNCHANGED <<db, q, lo, hi, ans>>

SearchEnds ==
  /\ phase = "search" /\ lo > hi
  /\ at' = first /\ phase' = IF first = 0 THEN "done" ELSE "walk"
  /\ UNCHANGED <<db, q, lo, hi, first, ans>>

\* Variant: the first record that matches decides.
WalkFirst ==
  /\ phase = "walk" /\ phase' = "done" /\ UNCHANGED at
  /\ ans' = IF Compatible(Table[at]) /\ Table[at].hash = q.hash THEN Table[at].name ELSE None
  /\ UNCHANGED <<db, q, lo, hi, first>>

\* Every record that matches is looked at, the size in memory first and then the
\* hash in the file, until one does in full.
Walk ==
  /\ phase = "walk"
  /\ IF at > Len(Table) \/ ~Same(Table[at]) THEN phase' = "done" /\ UNCHANGED <<at, ans>>
     ELSE IF Compatible(Table[at]) /\ Table[at].hash = q.hash
     THEN phase' = "done" /\ ans' = Table[at].name /\ UNCHANGED at
     ELSE at' = at + 1 /\ UNCHANGED <<ans, phase>>
  /\ UNCHANGED <<db, q, lo, hi, first>>

LookUp == Search \/ SearchSha \/ Back \/ SearchEnds \/ Walk

-----------------------------------------------------------------------------
\* The records a query should find.
Matches == {i \in DOMAIN Table : Compatible(Table[i]) /\ Table[i].hash = q.hash}

\* A lookup finds a name exactly when some record has the hash and a size that is
\* compatible, several of them with the same prefix or the same hash and other
\* sizes included (lookup, sigdb_match_sha).
FindsWhatIsThere ==
  phase = "done" /\ Asked(Table, q) =>
    IF Matches = {} THEN ans = None ELSE \E i \in Matches : ans = Table[i].name

\* A lookup by itself, in any tables that sigdb_load lets pass.
Record == [hash : Nat \X Nat, size : Nat, name : STRING]
Loaded ==
  /\ db \in [{"md5", "sha", "sect"} -> Seq(Record)]
  /\ Sorted(db["md5"]) /\ Sorted(db["sect"]) /\ SortedSha(db["sha"])
LookUpSpec == (Loaded /\ phase = "idle") /\ [][Begin \/ LookUp]_dbvars

\* The strengthening that makes FindsWhatIsThere inductive: below the part still
\* searched every record is smaller than the query and above it none is, the
\* record found so far is the first above it, and the walk has passed no match.
Up(r) == IF q.kind = "sha" THEN ~Less(r.hash, q.hash) ELSE r.hash[1] >= q.hash[1]
Searched ==
  phase = "search" =>
    /\ lo \in 1..hi + 1 /\ hi \in 0..Len(Table)
    /\ \A i \in 1..lo - 1 : ~Up(Table[i])
    /\ \A i \in hi + 1..Len(Table) : Up(Table[i])
    /\ first = IF hi < Len(Table) /\ Same(Table[hi + 1]) THEN hi + 1 ELSE 0
FoundAny == phase = "back" => q.kind = "sha" /\ first \in 1..Len(Table) /\ Same(Table[first])
Walked ==
  phase = "walk" =>
    /\ at \in 1..Len(Table) + 1
    /\ \A i \in 1..at - 1 : i \notin Matches
    /\ \A i \in at..Len(Table) : Up(Table[i])
LookUpInv ==
  /\ Loaded /\ phase \in {"idle", "search", "back", "walk", "done"}
  /\ phase # "idle" => q \in Queries
  /\ phase \in {"search", "back", "walk"} => ans = None
  /\ Searched /\ FoundAny /\ Walked /\ FindsWhatIsThere
=============================================================================
