------------------------------- MODULE Hosts -------------------------------
(***************************************************************************)
(* The web shield of src/src/protect.c: a block of lines between two       *)
(* markers in the system's HOSTS file, which other programs and the user   *)
(* edit as well.  The window, and the processes the installer and the      *)
(* uninstaller start (main.c, /importhosts and /clearhosts), each read the *)
(* whole file, work out a new one, and write it over the old: nothing is   *)
(* held between the read and the write.                                    *)
(*                                                                         *)
(* The file is a sequence of lines.  "begin" and "end" are the markers, a  *)
(* member of Domains is a line that blocks it, "part" is what is left of a *)
(* line that was cut.  The search for a marker takes its line end in, so a *)
(* marker that is the last of the file and has none is a line of its own,  *)
(* "begincut" or "endcut", until what is appended ends it; for any other *)
(* line it makes no difference.                                            *)
(***************************************************************************)
EXTENDS Naturals, SequencesExt

CONSTANTS
  Procs,      \* processes of CarrotAV
  Own,        \* lines that are not ours
  Domains,    \* lines that block a domain
  Passed,     \* lines of a blocklist that are passed over: comments, localhost, too long
  Lists,      \* blocklists, as sequences of lines
  MaxCalls,   \* bound: operations
  MaxEdits    \* bound: edits by others

ASSUME HostsAssumption ==
  /\ Own \cap Domains = {} /\ {"begin", "end", "part", "begincut", "endcut"} \cap (Own \cup Domains) = {}
  /\ Lists \subseteq Seq(Domains \cup Passed)
  /\ MaxCalls \in Nat /\ MaxEdits \in Nat

VARIABLES
  file,      \* HOSTS
  pc,        \* [Procs -> "idle", "have" read, "open" for writing]
  kind,      \* [Procs -> the operation]
  read,      \* [Procs -> what hosts_read gave]
  new,       \* [Procs -> what is to be written]
  calls, edits,
  placed,    \* own lines somebody has put into the file and not taken out (history)
  excused,   \* of these, the lines a case named in EntriesSurvive has cost (history)
  maimed,    \* a marker was taken out by another, or a write or a read was cut (history)
  halved     \* a write was cut between a begin marker and its line end (history)

hostsvars == <<file, pc, kind, read, new, calls, edits, placed, excused, maimed, halved>>

Line == Own \cup Domains \cup {"begin", "end", "part", "begincut", "endcut"}

HostsInit ==
  /\ file \in {<<>>} \cup {<<u>> : u \in Own}
  /\ pc = [p \in Procs |-> "idle"] /\ kind = [p \in Procs |-> "clear"]
  /\ read = [p \in Procs |-> <<>>] /\ new = [p \in Procs |-> <<>>]
  /\ calls = 0 /\ edits = 0 /\ placed = Range(file) /\ excused = {} /\ maimed = FALSE /\ halved = FALSE

-----------------------------------------------------------------------------
\* strstr for a marker, from line i on; 0 if there is none.
Find(s, x, i) == IF \E j \in i..Len(s) : s[j] = x
                 THEN CHOOSE j \in i..Len(s) : s[j] = x /\ \A l \in i..j-1 : s[l] # x
                 ELSE 0

\* Variant: the end marker is left in the file.
StripBegin(s) ==
  LET b == Find(s, "begin", 1)
      e == Find(s, "end", b)
  IN IF b = 0 THEN s
     ELSE IF e = 0 THEN SubSeq(s, 1, b - 1)
     ELSE SubSeq(s, 1, b - 1) \o SubSeq(s, e, Len(s))

\* Variant: the end marker is not looked for.
StripRest(s) ==
  LET b == Find(s, "begin", 1)
  IN IF b = 0 THEN s ELSE SubSeq(s, 1, b - 1)

\* hosts_strip: without an end marker the rest of the file goes.
Strip(s) ==
  LET b == Find(s, "begin", 1)
      e == Find(s, "end", b)
  IN IF b = 0 THEN s
     ELSE IF e = 0 THEN SubSeq(s, 1, b - 1)
     ELSE SubSeq(s, 1, b - 1) \o SubSeq(s, e + 1, Len(s))

\* The last line as it is without its line end, and with one appended to it.
Unended(l) == IF l = "begin" THEN "begincut" ELSE IF l = "end" THEN "endcut" ELSE l
EndLine(l) == IF l = "begincut" THEN "begin" ELSE IF l = "endcut" THEN "end" ELSE l
LineEnded(s) == IF s = <<>> THEN s ELSE [s EXCEPT ![Len(s)] = EndLine(@)]

\* hosts_import, line by line of the blocklist: what is not a domain is passed over.
Kept(list) ==
  LET kept[n \in 0..Len(list)] ==
        IF n = 0 THEN <<>>
        ELSE IF list[n] \in Domains THEN Append(kept[n - 1], list[n]) ELSE kept[n - 1]
  IN kept[Len(list)]

\* Variant: the old block is left where it is.
ImportedToo(s, list) == LineEnded(s) \o <<"begin">> \o Kept(list) \o <<"end">>

\* hosts_import.
Imported(s, list) == LineEnded(Strip(s)) \o <<"begin">> \o Kept(list) \o <<"end">>

\* hosts_add: a line below the begin marker, or a new block.
Added(s, d) ==
  LET b == Find(s, "begin", 1)
  IN IF b = 0 THEN LineEnded(s) \o <<"begin", d, "end">>
     ELSE SubSeq(s, 1, b) \o <<d>> \o SubSeq(s, b + 1, Len(s))

-----------------------------------------------------------------------------
Closed == \A p \in Procs : pc[p] # "open"

\* The operation returns and frees its buffers.
Return(p) ==
  /\ pc' = [pc EXCEPT ![p] = "idle"]
  /\ read' = [read EXCEPT ![p] = <<>>] /\ new' = [new EXCEPT ![p] = <<>>]

\* hosts_read and the new contents.  A read that fails after the file is open
\* is taken for an empty file.
Read(p) ==
  /\ pc[p] = "idle" /\ Closed /\ calls < MaxCalls
  /\ calls' = calls + 1 /\ pc' = [pc EXCEPT ![p] = "have"]
  /\ \E got \in {file, <<>>} :
       /\ read' = [read EXCEPT ![p] = got]
       /\ maimed' = (maimed \/ got # file)
       /\ \/ kind' = [kind EXCEPT ![p] = "clear"]
             /\ new' = [new EXCEPT ![p] = Strip(got)]
          \/ kind' = [kind EXCEPT ![p] = "import"]
             /\ \E list \in Lists : new' = [new EXCEPT ![p] = Imported(got, list)]
          \/ kind' = [kind EXCEPT ![p] = "add"]
             /\ \E d \in Domains : new' = [new EXCEPT ![p] = Added(got, d)]
  /\ UNCHANGED <<file, edits, placed, excused, halved>>

\* hosts_write up to CREATE_ALWAYS, which empties the file.
Open(p) ==
  /\ pc[p] = "have" /\ Closed
  /\ pc' = [pc EXCEPT ![p] = "open"] /\ file' = <<>>
  /\ UNCHANGED <<kind, read, new, calls, edits, placed, excused, maimed, halved>>

\* A file that is missing or held by another cannot be opened.
GiveUp(p) ==
  /\ pc[p] = "have" /\ Return(p)
  /\ UNCHANGED <<file, kind, calls, edits, placed, excused, maimed, halved>>

\* What this operation takes for part of the block (history).
Inside(p) ==
  {read[p][i] : i \in {j \in DOMAIN read[p] :
     kind[p] # "add" /\ \E b \in 1..j : read[p][b] = "begin" /\ \A l \in b..j : read[p][l] # "end"}}

\* All of it is written.
Write(p) ==
  /\ pc[p] = "open" /\ Return(p)
  /\ file' = new[p]
  /\ excused' = excused \cup (Inside(p) \cap placed) \cup (placed \ Range(read[p]))
  /\ UNCHANGED <<kind, calls, edits, placed, maimed, halved>>

\* The disk is full, or the process or the machine stops: a part of it is
\* written, perhaps with half a line or one without its line end, perhaps nothing.
WriteShort(p) ==
  /\ pc[p] = "open" /\ Return(p)
  /\ \E n \in 0..Len(new[p]) - 1 :
       \/ file' = SubSeq(new[p], 1, n)
       \/ \E l \in {"part", Unended(new[p][n + 1])} : file' = Append(SubSeq(new[p], 1, n), l)
  /\ excused' = excused \cup (placed \ Range(file'))
  /\ maimed' = TRUE /\ halved' = (halved \/ "begincut" \in Range(file'))
  /\ UNCHANGED <<kind, calls, edits, placed>>

\* Another program puts a line of its own into the file, or takes a line out.
EditPut ==
  /\ Closed /\ edits < MaxEdits /\ edits' = edits + 1
  /\ \E u \in Own \ Range(file), i \in 1..Len(file) + 1 :
       /\ file' = InsertAt(IF i > Len(file) THEN LineEnded(file) ELSE file, i, u)
       /\ placed' = placed \cup {u} /\ excused' = excused \ {u}
  /\ UNCHANGED <<pc, kind, read, new, calls, maimed, halved>>

EditTake ==
  /\ Closed /\ edits < MaxEdits /\ edits' = edits + 1
  /\ \E i \in 1..Len(file) :
       /\ file' = RemoveAt(file, i)
       /\ placed' = placed \ {file[i]}
       /\ maimed' = (maimed \/ file[i] \in {"begin", "end"})
  /\ UNCHANGED <<pc, kind, read, new, calls, excused, halved>>

HostsNext ==
  \/ \E p \in Procs : Read(p) \/ Open(p) \/ GiveUp(p) \/ Write(p) \/ WriteShort(p)
  \/ EditPut \/ EditTake

HostsSpec == HostsInit /\ [][HostsNext]_hostsvars

-----------------------------------------------------------------------------
HostsTypeOK ==
  /\ file \in Seq(Line) /\ pc \in [Procs -> {"idle", "have", "open"}]
  /\ kind \in [Procs -> {"clear", "import", "add"}]
  /\ read \in [Procs -> Seq(Line)] /\ new \in [Procs -> Seq(Line)]
  /\ calls \in 0..MaxCalls /\ edits \in 0..MaxEdits /\ maimed \in BOOLEAN /\ halved \in BOOLEAN
  /\ placed \subseteq Own /\ excused \subseteq Own

\* Whatever the processes and the others do in between and wherever a write is
\* cut, strip leaves no begin marker in the file: every block is taken out by one
\* hosts_clear, and "our managed block" (hosts_strip) is one.  There is one begin
\* marker at most, unless a write was cut between a begin marker and its line end:
\* such a marker is not found, and the next import or add ends its line and puts
\* another below.
OneBlock ==
  /\ Find(Strip(file), "begin", 1) = 0
  /\ halved \/ Cardinality({i \in DOMAIN file : file[i] = "begin"}) <= 1

\* "Existing entries in HOSTS were left untouched" (main.c, do_import_hosts):
\* a line others have put into the file is still there when no process has it
\* open, unless it was between the markers or below a begin marker without an
\* end, was put there between a process's read and its write, or a read or a
\* write was cut.
EntriesSurvive ==
  Closed => \A u \in placed : u \in Range(file) \/ u \in excused

\* What the uninstaller leaves is the others' lines, if no marker was taken out
\* and no read or write was cut before.
ClearLeavesOwn ==
  [][\A p \in Procs : pc[p] = "open" /\ pc'[p] = "idle" /\ kind[p] = "clear" /\ ~maimed' =>
       Range(file') \subseteq Own]_hostsvars

\* The strengthening that makes these inductive: what is read and what is about to be
\* written have one begin marker at most, too, or a marker without a line end was
\* written, and between two of them there is no end marker; the process that has the file open is
\* alone; a line of the others that was read outside the block is going to be written;
\* and as long as nothing was maimed, every file has a whole block or none, and what
\* a "clear" is going to write is the others' lines.
OneBegin(s) == \A i, j \in DOMAIN s : s[i] = "begin" /\ s[j] = "begin" => i = j
NoneCut(s) == \A i \in DOMAIN s : s[i] # "begincut"
OneStretch(s) == \A i, j \in DOMAIN s, l \in DOMAIN s :
                   s[i] = "begin" /\ s[j] \in {"begin", "begincut"} /\ i < l /\ l < j => s[l] # "end"
Clean(s) == \A i \in DOMAIN s : s[i] \in Own
BlockAt(s, b, e) ==
  /\ b < e /\ s[b] = "begin" /\ s[e] = "end"
  /\ \A i \in DOMAIN s \ {b, e} : s[i] \in Own \/ (s[i] \in Domains /\ b < i /\ i < e)
Whole(s) == Clean(s) \/ \E b, e \in DOMAIN s : BlockAt(s, b, e)

Blocks(s) == OneStretch(s) /\ (halved \/ (OneBegin(s) /\ NoneCut(s)))
OneBlockEach == Blocks(file) /\ \A p \in Procs : Blocks(read[p]) /\ Blocks(new[p])
AloneWhileOpen ==
  \A p \in Procs : pc[p] = "open" => file = <<>> /\ \A r \in Procs : pc[r] = "open" => r = p
OthersAreKept ==
  \A p \in Procs : pc[p] # "idle" =>
    \A i \in DOMAIN read[p] : read[p][i] \in Own \ Inside(p) => read[p][i] \in Range(new[p])
WholeUnlessMaimed ==
  ~maimed =>
    /\ Whole(file)
    /\ \A p \in Procs : pc[p] # "idle" =>
         Whole(new[p]) /\ (kind[p] = "clear" => Clean(new[p]))
HostsIndInv ==
  HostsTypeOK /\ OneBlockEach /\ AloneWhileOpen /\ EntriesSurvive /\ OthersAreKept /\ WholeUnlessMaimed
=============================================================================
