----------------------------- MODULE ProcGuard -----------------------------
(***************************************************************************)
(* The shield's process guard, proc_thread of src/src/realtime.c: every    *)
(* two seconds it lists the processes, looks up and checks the image of    *)
(* each whose id was not in the list before, and terminates it on a hit.   *)
(* It knows processes by their id alone, and looks it up three times: in   *)
(* the list, for the image, and to terminate it.  In between a process may *)
(* end and another may get its id.                                         *)
(***************************************************************************)
EXTENDS Naturals, FiniteSets

CONSTANTS
  Pids,     \* process ids
  Images,   \* what a process may run: "good", "sig" or "guess", as rt_check says
  MaxPids,  \* MAX_PIDS, the room for ids
  MaxProcs, \* bound: processes that are ever started
  MaxFails  \* bound: lists of processes that cannot be had

ASSUME ProcAssumption ==
  /\ Images \subseteq {"good", "sig", "guess"}
  /\ MaxPids \in Nat /\ MaxProcs \in Nat /\ MaxFails \in Nat

Procs == 1..MaxProcs
None  == 0

VARIABLES
  run,     \* g_rt.run; the stop event is set as it is cleared
  kill,    \* g_rt.kill_procs
  pc,      \* where the thread is
  started, \* processes so far
  pid, image, \* [Procs -> of a process that was started]
  alive,   \* processes that are
  left,    \* ids still to come in the list being walked
  at,      \* the id at hand
  found,   \* the process whose image was looked up under it
  known, current, first, \* the thread's own
  listed,  \* the ids in the last list (history)
  \* History of the processes that are alive: those whose image was checked, or
  \* could not be had, those started under an id that the last list has, and
  \* those that were in the first list.
  checked, refused, reused, old,
  fails    \* lists that could not be had

guard == <<left, at, found, known, current, first, listed>>
history == <<checked, refused, reused, old>>
system == <<started, pid, image, alive>>
vars == <<run, kill, pc, guard, system, history, fails>>

Init ==
  /\ run = TRUE /\ kill = TRUE /\ pc = "list"
  /\ started = 0 /\ pid = [p \in Procs |-> None] /\ image = [p \in Procs |-> "good"]
  /\ alive = {} /\ left = {} /\ at = None /\ found = None
  /\ known = {} /\ current = {} /\ first = TRUE
  /\ listed = {} /\ checked = {} /\ refused = {} /\ reused = {} /\ old = {} /\ fails = 0

PidsOf(ps) == {pid[p] : p \in ps}
Hit(p)     == image[p] \in {"sig", "guess"}

-----------------------------------------------------------------------------
(* proc_thread.                                                            *)

\* The top of the loop.  Without a list no id is current, and none is known
\* after this pass.
List ==
  /\ pc = "list" /\ run
  /\ \/ /\ listed' = PidsOf(alive) /\ UNCHANGED fails
        /\ old' = IF first THEN alive ELSE old
     \/ fails < MaxFails /\ fails' = fails + 1 /\ listed' = {} /\ UNCHANGED old
  /\ left' = listed' /\ current' = {}
  /\ pc' = "walk"
  /\ UNCHANGED <<run, kill, at, found, known, first, system, checked, refused, reused>>

Noted(p) == IF Cardinality(current) < MaxPids THEN current \cup {p} ELSE current

\* An id that is known, and on the first pass every id.
Skip ==
  \E p \in left :
    /\ pc = "walk" /\ (p \in known \/ first)
    /\ current' = Noted(p) /\ left' = left \ {p}
    /\ UNCHANGED <<run, kill, pc, at, found, known, first, listed, system, history, fails>>

\* Any other id.
New ==
  \E p \in left :
    /\ pc = "walk" /\ p \notin known /\ ~first
    /\ current' = Noted(p) /\ left' = left \ {p} /\ at' = p
    /\ pc' = "look"
    /\ UNCHANGED <<run, kill, found, known, first, listed, system, history, fails>>

\* The image of whatever process has the id now: none, or not to be had.
Look ==
  /\ pc = "look"
  /\ LET holders == {p \in alive : pid[p] = at} IN
     \/ /\ refused' = refused \cup holders
        /\ at' = None /\ pc' = "walk" /\ UNCHANGED found
     \/ \E p \in holders : found' = p /\ pc' = "check" /\ UNCHANGED <<at, refused>>
  /\ UNCHANGED <<run, kill, left, known, current, first, listed, system, checked, reused, old, fails>>

\* rt_check reads the image's file; the walk goes on to end the process, or not.
Checked(goesOn) ==
  /\ pc' = IF goesOn THEN "kill" ELSE "walk"
  /\ IF goesOn THEN UNCHANGED <<at, found>> ELSE at' = None /\ found' = None
  /\ checked' = checked \cup ({found} \cap alive)
  /\ UNCHANGED <<run, kill, left, known, current, first, listed, system, refused, reused, old, fails>>

\* Variant: what is ended need not be a hit.
CheckEndsAny == pc = "check" /\ Checked(kill)

\* On a hit the process is ended, if that is switched on now, and the file goes
\* to rt_threat.
Check == pc = "check" /\ Checked(Hit(found) /\ kill)

\* Processes that end leave no history.
Gone(ps) ==
  /\ alive' = alive \ ps
  /\ pid' = [p \in Procs |-> IF p \in ps THEN None ELSE pid[p]]
  /\ checked' = checked \ ps /\ refused' = refused \ ps
  /\ reused' = reused \ ps /\ old' = old \ ps

\* OpenProcess and TerminateProcess, on whatever process has the id now.
Kill ==
  /\ pc = "kill"
  /\ \/ Gone({p \in alive : pid[p] = at})
     \/ UNCHANGED <<alive, pid, history>>
  /\ at' = None /\ found' = None /\ pc' = "walk"
  /\ UNCHANGED <<run, kill, left, known, current, first, listed, started, image, fails>>

\* Variant: an id once known stays known.
PassEndsKnowingMore ==
  /\ pc = "walk" /\ left = {}
  /\ known' = known \cup current /\ first' = FALSE
  /\ current' = {} /\ pc' = "rest"
  /\ UNCHANGED <<run, kill, left, at, found, listed, system, history, fails>>

PassEnds ==
  /\ pc = "walk" /\ left = {}
  /\ known' = current /\ first' = FALSE
  /\ current' = {} /\ pc' = "rest"
  /\ UNCHANGED <<run, kill, left, at, found, listed, system, history, fails>>

\* Two seconds without the stop event.
Rest ==
  /\ pc = "rest" /\ run
  /\ pc' = "list"
  /\ UNCHANGED <<run, kill, guard, system, history, fails>>

\* The stop event, or the loop's test of run.
Leave ==
  /\ pc \in {"list", "rest"} /\ ~run
  /\ pc' = "over"
  /\ UNCHANGED <<run, kill, guard, system, history, fails>>

Step == List \/ Skip \/ New \/ Look \/ Check \/ Kill \/ PassEnds \/ Rest \/ Leave

-----------------------------------------------------------------------------
\* rt_stop.
Stop ==
  /\ run /\ run' = FALSE
  /\ UNCHANGED <<kill, pc, guard, system, history, fails>>

\* rt_set_kill, from the monitor page while the shield is on.
SetKill ==
  /\ run /\ kill' = ~kill
  /\ UNCHANGED <<run, pc, guard, system, history, fails>>

\* A process starts, under an id that is free.
Start(p, i) ==
  LET new == started + 1 IN
  /\ started < MaxProcs /\ started' = new
  /\ p \notin PidsOf(alive)
  /\ pid' = [pid EXCEPT ![new] = p] /\ image' = [image EXCEPT ![new] = i]
  /\ alive' = alive \cup {new}
  /\ reused' = IF p \in listed THEN reused \cup {new} ELSE reused
  /\ UNCHANGED <<run, kill, pc, guard, checked, refused, old, fails>>

End(p) ==
  /\ p \in alive /\ Gone({p})
  /\ UNCHANGED <<run, kill, pc, guard, started, image, fails>>

Next ==
  \/ Step \/ Stop \/ SetKill
  \/ \E p \in Pids, i \in Images : Start(p, i)
  \/ \E p \in Procs : End(p)

Spec == Init /\ [][Next]_vars

\* The thread goes on, and the wait ends.
FairSpec == Spec /\ WF_vars(Step)

-----------------------------------------------------------------------------
(* Properties.                                                             *)

\* Every variable stays in its range; ids are unique, and the table of ids
\* keeps to its room.
TypeOK ==
  /\ run \in BOOLEAN /\ kill \in BOOLEAN /\ first \in BOOLEAN
  /\ pc \in {"list", "walk", "look", "check", "kill", "rest", "over"}
  /\ started \in 0..MaxProcs /\ fails \in 0..MaxFails
  /\ pid \in [Procs -> Pids \cup {None}] /\ image \in [Procs -> Images \cup {"good"}]
  /\ \A p, q \in alive : pid[p] = pid[q] => p = q
  /\ at \in Pids \cup {None} /\ found \in Procs \cup {None}
  /\ left \subseteq Pids /\ known \subseteq Pids /\ current \subseteq Pids
  /\ Cardinality(current) <= MaxPids /\ Cardinality(known) <= MaxPids
  /\ UNION {checked, refused, reused, old} \subseteq alive
  /\ alive \subseteq Procs /\ listed \subseteq Pids

\* A process that need not be looked at: it was checked, or was there when the guard
\* began, or gave no image, or has the id of one that was in the last list.
Excused(p) == p \in UNION {checked, old, refused, reused}

\* Between two passes a running process whose id the guard takes for known was
\* checked, or was there when the guard began, or gave no image, or has the id
\* of one that was in the last list: nothing else makes it overlooked.
KnownIsChecked ==
  pc = "rest" => \A p \in alive :
    pid[p] \in known => Excused(p)

\* A process that the guard ends is a hit itself, or took the id of one that
\* was checked and has ended since.
EndsOnlyHits ==
  [][pc = "kill" /\ pc' = "walk" =>
       \A p \in alive \ alive' : Hit(found) /\ (p = found \/ found \notin alive)]_vars

\* The strengthening that makes these inductive.  The tables hold few enough ids, all
\* of the last list, and of the list before until this one is walked; a process
\* that runs was started and has an id; the one looked up was started, has the id
\* at hand as long as it runs, and is a hit if it is to be ended; and whoever has an
\* id of a table, or on the first pass an id of the list, is excused, but for the
\* one just being looked at.
TablesOK ==
  /\ IsFiniteSet(current) /\ IsFiniteSet(known)
  /\ left \cup current \subseteq listed /\ (pc \in {"list", "rest"} => known \subseteq listed)
  /\ pc = "look" => at \in listed
StartedOK == alive \subseteq 1..started /\ PidsOf(alive) \subseteq Pids
FoundAtHand ==
  pc \in {"check", "kill"} =>
    /\ found \in 1..started /\ at \in listed
    /\ found \in alive => pid[found] = at
    /\ pc = "kill" => Hit(found)
KnownExcused   == \A p \in alive : pid[p] \in known \cap listed => Excused(p)
CurrentExcused ==
  \A p \in alive : pid[p] \in current =>
    Excused(p) \/ (pc = "look" /\ pid[p] = at) \/ (pc = "check" /\ p = found)
FirstExcused ==
  first /\ pc \in {"walk", "look", "check", "kill"} =>
    \A p \in alive : pid[p] \in listed => Excused(p)
IndInv ==
  TypeOK /\ TablesOK /\ StartedOK /\ FoundAtHand /\ KnownExcused /\ CurrentExcused /\ FirstExcused

\* A process that starts and stays is checked, with the same exceptions, while
\* the shield is on.
StartedIsChecked ==
  \A p \in Procs :
    p \in alive ~> p \notin alive \/ ~run \/ Excused(p)

=============================================================================
