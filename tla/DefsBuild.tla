----------------------------- MODULE DefsBuild -----------------------------
(***************************************************************************)
(* cvd_compile (src/updater/defs_build.c): a list of archives is unpacked  *)
(* as a stream that arrives in chunks of any size, the lines of the wanted *)
(* members become records of three tables, and the tables, sorted and      *)
(* without duplicates, become carrot.cdb.                                  *)
(*                                                                         *)
(* A stream is a sequence of cells: of a header, of a line, of the padding *)
(* up to a whole number of blocks, of the zeros at the end.  A line is a   *)
(* record of the fields it has; how they are written is left out, how long *)
(* it is matters.                                                          *)
(***************************************************************************)
EXTENDS Naturals, Sequences, SequencesExt, FiniteSets

CONSTANTS
  Block,     \* cells in a tar block (512 bytes)
  LineCap,   \* cells in TARST's line (1024 bytes)
  Downloads, \* the lists of archives that are compiled
  MaxChunk   \* cells in a chunk that inflate fills (64 KB)

ASSUME BuildAssumption == Block \in Nat \ {0} /\ LineCap \in Nat \ {0} /\ MaxChunk \in Nat \ {0}

\* A line is [len, form, hash, size, name]: form is "md5", "sha" (SHA-256), "sha1", or
\* "junk" for a comment and for anything a field of which is wrong; size 0 is "*".
\* A member is [kind, lines, ended]: "hash", "sect" or another file; ended if there is
\* a newline after its last line.  An archive is [members, ended]: it may lack its end.
Cells(l) == [i \in 1..l.len |-> [cell |-> "text", line |-> l, i |-> i]]
Newline == [cell |-> "newline"]

Data(m) ==
  FlattenSeq([i \in DOMAIN m.lines |->
                Cells(m.lines[i]) \o (IF i < Len(m.lines) \/ m.ended THEN <<Newline>> ELSE <<>>)])

Pad(size) == (Block - (size % Block)) % Block
Header(m) == [i \in 1..Block |-> [cell |-> "header", kind |-> m.kind, size |-> Len(Data(m))]]
Fill(size, what) == [i \in 1..size |-> [cell |-> what]]
Member(m) == Header(m) \o Data(m) \o Fill(Pad(Len(Data(m))), "pad")

Stream(a) ==
  FlattenSeq([i \in DOMAIN a.members |-> Member(a.members[i])])
    \o (IF a.ended THEN Fill(Block, "zero") ELSE <<>>)

VARIABLES
  archives, \* cvd_files: those not yet begun, the current one first
  pos,      \* cells of the current one that have come out of inflate and been read
  n,        \* cells of the chunk that are left
  tar,      \* TARST: [state, kind, hlen, left, pad, line, overflow]
  recs,     \* g_md5, g_sha, g_sect: for each kind a sequence of [hash, size, off]
  names,    \* the temporary file of names, without the "" at its beginning
  oom,      \* g_oom
  cdb,      \* carrot.cdb: [is, tables], "old", "part" of one, or "whole"
  stage,    \* "read", "write", "built" or "failed"
  taken     \* what has been read of each archive: <<archive, cells>> (history)

build == <<archives, pos, n, tar, recs, names, oom, cdb, stage, taken>>

Empty == [md5 |-> <<>>, sha |-> <<>>, sect |-> <<>>]
Fresh == [state |-> "HDR", kind |-> "other", hlen |-> 0, left |-> 0, pad |-> 0, line |-> <<>>, overflow |-> FALSE]
Archives == UNION {ToSet(d) : d \in Downloads}
StreamOf == [a \in Archives |-> Stream(a)]
Here == StreamOf[archives[1]]

BuildInit ==
  /\ pos = 0 /\ n = 0 /\ tar = Fresh /\ recs = Empty /\ names = <<"Eicar-Test-Signature">> /\ oom = FALSE
  /\ cdb = [is |-> "old", tables |-> Empty] /\ stage = "read" /\ taken = <<>>

-----------------------------------------------------------------------------
\* intern: a name that repeats the last one is stored once.
Intern(name) == IF Last(names) = name THEN names ELSE Append(names, name)

\* parse_line: the table a line goes to, if any.  A section's size is never "*".
TableOf(l, kind) ==
  IF l.form \notin {"md5", "sha"} \/ (kind = "sect" /\ (l.form # "md5" \/ l.size = 0)) THEN {}
  ELSE {IF kind = "sect" THEN "sect" ELSE l.form}

\* parse_line and intern, which stops everything when the name cannot be written.
ParseLine(l) ==
  IF TableOf(l, tar.kind) = {} THEN UNCHANGED <<recs, names, oom>>
  ELSE LET k == CHOOSE k \in TableOf(l, tar.kind) : TRUE IN
       \/ /\ names' = Intern(l.name) /\ UNCHANGED oom
          /\ recs' = [recs EXCEPT ![k] = Append(@, [hash |-> l.hash, size |-> l.size, off |-> Len(names')])]
       \/ /\ oom' = TRUE /\ UNCHANGED names
          /\ recs' = [recs EXCEPT ![k] = Append(@, [hash |-> l.hash, size |-> l.size, off |-> 0])]

\* end_line.  What is not a whole line parses as junk.
EndLine ==
  IF tar.overflow \/ tar.line = <<>> \/ tar.line # Cells(tar.line[1].line)
  THEN UNCHANGED <<recs, names, oom>>
  ELSE ParseLine(tar.line[1].line)

-----------------------------------------------------------------------------
\* inflate fills the next chunk.
Chunk ==
  /\ stage = "read" /\ archives # <<>> /\ n = 0 /\ ~oom /\ tar.state # "END"
  /\ \E size \in 1..MaxChunk : pos + size <= Len(Here) /\ n' = size
  /\ UNCHANGED <<archives, pos, tar, recs, names, oom, cdb, stage, taken>>

\* tar_feed, T_HDR: as much of a header as there is.
FeedHeader ==
  /\ n > 0 /\ tar.state = "HDR" /\ ~oom
  /\ LET take == IF Block - tar.hlen < n THEN Block - tar.hlen ELSE n
         h == Here[pos + take] IN
       /\ pos' = pos + take /\ n' = n - take
       /\ IF tar.hlen + take < Block THEN tar' = [tar EXCEPT !.hlen = @ + take]
          ELSE IF h.cell = "zero" THEN tar' = [tar EXCEPT !.hlen = 0, !.state = "END"]
          ELSE tar' = [tar EXCEPT !.hlen = 0, !.left = h.size, !.pad = Pad(h.size), !.kind = h.kind,
                                  !.line = <<>>, !.overflow = FALSE,
                                  !.state = IF h.size > 0 THEN "DATA"
                                            ELSE IF Pad(h.size) > 0 THEN "PAD" ELSE "HDR"]
  /\ UNCHANGED <<archives, recs, names, oom, cdb, stage, taken>>

Wanted == tar.kind \in {"hash", "sect"}
AfterData == IF tar.pad > 0 THEN "PAD" ELSE "HDR"

\* Variant: a chunk begins with an empty line.
FeedAnew ==
  /\ n > 0 /\ tar.state = "DATA" /\ ~oom /\ tar.left > 0
  /\ LET c == Here[pos + 1] IN
       /\ pos' = pos + 1 /\ n' = n - 1
       /\ IF ~Wanted THEN tar' = [tar EXCEPT !.left = @ - 1] /\ UNCHANGED <<recs, names, oom>>
          ELSE IF c = Newline
          THEN EndLine /\ tar' = [tar EXCEPT !.left = @ - 1, !.line = <<>>, !.overflow = FALSE]
          ELSE /\ tar' = [tar EXCEPT !.left = @ - 1, !.line = IF n = 1 THEN <<>> ELSE Append(@, c)]
               /\ UNCHANGED <<recs, names, oom>>
  /\ UNCHANGED <<archives, cdb, stage, taken>>

\* tar_feed, T_DATA: the next cell of a member.
FeedData ==
  /\ n > 0 /\ tar.state = "DATA" /\ ~oom /\ tar.left > 0
  /\ LET c == Here[pos + 1] IN
       /\ pos' = pos + 1 /\ n' = n - 1
       /\ IF ~Wanted THEN tar' = [tar EXCEPT !.left = @ - 1] /\ UNCHANGED <<recs, names, oom>>
          ELSE IF c = Newline
          THEN EndLine /\ tar' = [tar EXCEPT !.left = @ - 1, !.line = <<>>, !.overflow = FALSE]
          ELSE /\ tar' = IF Len(tar.line) < LineCap THEN [tar EXCEPT !.left = @ - 1, !.line = Append(@, c)]
                                                    ELSE [tar EXCEPT !.left = @ - 1, !.overflow = TRUE]
               /\ UNCHANGED <<recs, names, oom>>
  /\ UNCHANGED <<archives, cdb, stage, taken>>

\* The member ends, in the call of tar_feed that has read its last cell; its last
\* line may have no newline.
EndData ==
  /\ tar.state = "DATA" /\ tar.left = 0 /\ stage = "read"
  /\ IF Wanted THEN EndLine ELSE UNCHANGED <<recs, names, oom>>
  /\ tar' = [tar EXCEPT !.state = AfterData, !.line = <<>>, !.overflow = FALSE]
  /\ UNCHANGED <<archives, pos, n, cdb, stage, taken>>

\* tar_feed, T_PAD.
FeedPad ==
  /\ n > 0 /\ tar.state = "PAD" /\ ~oom
  /\ LET take == IF n < tar.pad THEN n ELSE tar.pad IN
       /\ pos' = pos + take /\ n' = n - take
       /\ tar' = [tar EXCEPT !.pad = @ - take, !.state = IF tar.pad = take THEN "HDR" ELSE "PAD"]
  /\ UNCHANGED <<archives, recs, names, oom, cdb, stage, taken>>

\* process_cvd ends: at the archive's end, at the file's, where the stream is damaged,
\* or when there is no room; the lines before that stay, and the next one is read.
NextArchive ==
  /\ stage = "read" /\ archives # <<>> /\ ~(tar.state = "DATA" /\ tar.left = 0)
  /\ n = 0 \/ oom \/ tar.state = "END"
  /\ taken' = Append(taken, <<archives[1], pos>>) /\ archives' = Tail(archives)
  /\ pos' = 0 /\ n' = 0 /\ tar' = Fresh
  /\ UNCHANGED <<recs, names, oom, cdb, stage>>

-----------------------------------------------------------------------------
Before(r, s) ==
  \/ r.hash[1] < s.hash[1]
  \/ r.hash[1] = s.hash[1] /\ r.hash[2] < s.hash[2]
  \/ r.hash = s.hash /\ r.size < s.size

\* Variant: the size is not compared.
AlikeHash(r, s) == r.hash = s.hash

\* dedup: of the records with the same hash and the same size one is left, whichever
\* qsort puts first.
Alike(r, s) == r.hash = s.hash /\ r.size = s.size

Dedup(t) ==
  LET rs == ToSet(t) IN
  {SetToSortSeq(keep, Before) :
     keep \in {k \in SUBSET rs : /\ \A r, s \in k : Alike(r, s) => r = s
                                /\ \A r \in rs : \E s \in k : Alike(r, s)}}

\* cvd_compile when all archives have been read: nothing is written when there is
\* nothing, or when not everything could be kept; fopen empties the old database.
Compile ==
  /\ stage = "read" /\ archives = <<>>
  /\ \/ stage' = "failed" /\ UNCHANGED cdb
     \/ ~oom /\ recs # Empty /\ stage' = "write" /\ cdb' = [cdb EXCEPT !.is = "part"]
  /\ UNCHANGED <<archives, pos, n, tar, recs, names, oom, taken>>

Named(t) == [i \in DOMAIN t |-> [hash |-> t[i].hash, size |-> t[i].size, name |-> names[t[i].off]]]

\* The tables and the names are written.  Of a write that fails only the last few
\* are noticed.
Write ==
  /\ stage = "write"
  /\ \/ /\ stage' = "built"
        /\ \E md5 \in Dedup(recs.md5), sha \in Dedup(recs.sha), sect \in Dedup(recs.sect) :
             cdb' = [is |-> "whole", tables |-> [md5 |-> Named(md5), sha |-> Named(sha), sect |-> Named(sect)]]
     \/ stage' \in {"built", "failed"} /\ UNCHANGED cdb
  /\ UNCHANGED <<archives, pos, n, tar, recs, names, oom, taken>>

Build ==
  \/ Chunk \/ FeedHeader \/ FeedData \/ EndData \/ FeedPad \/ NextArchive \/ Compile \/ Write

-----------------------------------------------------------------------------
\* Where a line ends in its archive, and which lines a beginning of it contains.
EndOf(a, j, i) ==
  Len(Stream([members |-> SubSeq(a.members, 1, j - 1), ended |-> FALSE])) + Block
    + Len(Data([a.members[j] EXCEPT !.lines = SubSeq(@, 1, i),
                                    !.ended = (@ \/ i < Len(a.members[j].lines))]))

Places(a) == UNION {{<<j, i>> : i \in DOMAIN a.members[j].lines} : j \in DOMAIN a.members}

\* The lines for a table, each with where it ends.
LinesFor(a, table) ==
  {[line |-> a.members[p[1]].lines[p[2]], end |-> EndOf(a, p[1], p[2])] :
     p \in {p \in Places(a) :
              LET m == a.members[p[1]]
                  l == m.lines[p[2]] IN
              /\ l.len \in 1..LineCap
              /\ CASE table = "md5" -> m.kind = "hash" /\ l.form = "md5"
                   [] table = "sha" -> m.kind = "hash" /\ l.form = "sha"
                   [] OTHER -> m.kind = "sect" /\ l.form = "md5" /\ l.size > 0}}

Tables == {"md5", "sha", "sect"}
AllLines == [a \in Archives |-> [table \in Tables |-> LinesFor(a, table)]]
Lines(a, cells, table) == {x.line : x \in {x \in AllLines[a][table] : x.end <= cells}}

\* All lines for a table in what has been read so far.
Read(table) ==
  (UNION {Lines(taken[i][1], taken[i][2], table) : i \in DOMAIN taken})
    \cup (IF archives = <<>> THEN {} ELSE Lines(archives[1], pos, table))

\* Whatever the chunks, and wherever an archive is cut off or damaged, the records
\* are exactly the whole lines of the wanted members before that, with their own
\* names (tar_feed, end_line, parse_line, intern).
RecordsAsRead ==
  ~oom /\ n = 0 /\ ~(tar.state = "DATA" /\ tar.left = 0) =>
    \A k \in Tables :
      {[hash |-> r.hash, size |-> r.size, name |-> names[r.off]] : r \in ToSet(recs[k])}
        = {[hash |-> l.hash, size |-> l.size, name |-> l.name] : l \in Read(k)}
=============================================================================
