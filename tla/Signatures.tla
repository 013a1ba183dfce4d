----------------------------- MODULE Signatures -----------------------------
(***************************************************************************)
(* From the lists of signatures to an answer: the archives are compiled    *)
(* (DefsBuild), carrot.cdb is loaded (sigdb_load) and one query is         *)
(* answered from it (SigDb).                                               *)
(***************************************************************************)
EXTENDS DefsBuild, SigDb

vars == <<build, db, q, lo, hi, first, at, ans, phase>>

NoQuery == [kind |-> "md5", hash |-> <<0, 0>>, size |-> 0]

Init ==
  /\ archives \in Downloads /\ BuildInit
  /\ db = Empty /\ q = NoQuery /\ lo = 1 /\ hi = 0 /\ first = 0 /\ at = 0 /\ ans = None /\ phase = "off"

\* The orders in which qsort can leave records with the same SHA-256.
Orders(t) ==
  {u \in [DOMAIN t -> ToSet(t)] :
     ToSet(u) = ToSet(t) /\ SortedSha(u)}

\* sigdb_load: a database that is there in full and sorted.
Load ==
  /\ phase = "off" /\ stage \in {"built", "failed"} /\ cdb.is = "whole"
  /\ Sorted(cdb.tables.md5) /\ Sorted(cdb.tables.sect)
  /\ \E sha \in Orders(cdb.tables.sha) : db' = [cdb.tables EXCEPT !.sha = sha]
  /\ phase' = "idle"
  /\ UNCHANGED <<build, q, lo, hi, first, at, ans>>

\* What cannot be loaded answers nothing.
LoadFails ==
  /\ phase = "off" /\ stage \in {"built", "failed"} /\ cdb.is # "whole"
  /\ phase' = "none"
  /\ UNCHANGED <<build, db, q, lo, hi, first, at, ans>>

Next ==
  \/ Build /\ UNCHANGED <<db, q, lo, hi, first, at, ans, phase>>
  \/ Load \/ LoadFails
  \/ (Begin \/ LookUp) /\ UNCHANGED build

Spec == Init /\ [][Next]_vars

-----------------------------------------------------------------------------
TypeOK ==
  /\ tar.state \in {"HDR", "DATA", "PAD", "END"} /\ tar.hlen \in 0..Block - 1
  /\ tar.pad \in 0..Block - 1 /\ Len(tar.line) <= LineCap /\ tar.kind \in {"hash", "sect", "other"}
  /\ (archives # <<>> => pos + n <= Len(Here))
  /\ stage \in {"read", "write", "built", "failed"}
  /\ phase \in {"off", "none", "idle", "search", "back", "walk", "done"}
  /\ (phase \in {"search", "back", "walk"} => first \in 0..Len(db[q.kind]))

\* A query is answered exactly when a line for it has been read: one of the wanted
\* members, with the hash and with its size or "*"; and the answer is such a line's
\* name.  For a section the size must be listed by some line.
AnswersAsListed ==
  phase = "done" =>
    LET listed == {l \in Read(q.kind) : l.hash = q.hash /\ l.size \in {0, q.size}} IN
    IF listed = {} THEN ans = None ELSE \E l \in listed : ans = l.name

=============================================================================
