-------------------------- MODULE ProcGuardProofs --------------------------
(***************************************************************************)
(* Theorems about the shield's process guard, for any ids, any room for    *)
(* them and any number of processes.  IndInv (module ProcGuard) is         *)
(* inductive; the two properties follow from it.                           *)
(***************************************************************************)
EXTENDS ProcGuard, FiniteSetTheorems, TLAPS

\* The four histories, as what excuses a process.
ExcusedBy(p) == p \in checked \/ p \in old \/ p \in refused \/ p \in reused

LEMMA ExcusedIs == \A p : Excused(p) <=> ExcusedBy(p)
BY DEF Excused, ExcusedBy

LEMMA ExcusedIsNext == \A p : Excused(p)' <=> ExcusedBy(p)'
BY DEF Excused, ExcusedBy

\* The types, apart.
LEMMA Types ==
  ASSUME TypeOK
  PROVE  /\ run \in BOOLEAN /\ kill \in BOOLEAN /\ first \in BOOLEAN
         /\ pc \in {"list", "walk", "look", "check", "kill", "rest", "over"}
         /\ started \in 0..MaxProcs /\ fails \in 0..MaxFails
         /\ pid \in [Procs -> Pids \cup {None}] /\ image \in [Procs -> Images \cup {"good"}]
         /\ \A p, q \in alive : pid[p] = pid[q] => p = q
         /\ at \in Pids \cup {None} /\ found \in Procs \cup {None}
         /\ left \subseteq Pids /\ known \subseteq Pids /\ current \subseteq Pids
         /\ Cardinality(current) <= MaxPids /\ Cardinality(known) <= MaxPids
         /\ checked \subseteq alive /\ refused \subseteq alive /\ reused \subseteq alive /\ old \subseteq alive
         /\ alive \subseteq Procs /\ listed \subseteq Pids
BY DEF TypeOK

\* Processes that end: the others keep their ids and their history.
LEMMA Ended ==
  ASSUME TypeOK, NEW ps, Gone(ps)
  PROVE  /\ alive' \subseteq alive /\ pid' \in [Procs -> Pids \cup {None}]
         /\ \A p \in alive' : pid'[p] = pid[p] /\ (ExcusedBy(p) => ExcusedBy(p)')
         /\ checked' \subseteq alive' /\ refused' \subseteq alive' /\ reused' \subseteq alive' /\ old' \subseteq alive'
<1>1. /\ alive' = alive \ ps /\ pid' = [p \in Procs |-> IF p \in ps THEN None ELSE pid[p]]
      /\ checked' = checked \ ps /\ refused' = refused \ ps /\ reused' = reused \ ps /\ old' = old \ ps
  BY DEF Gone
<1>2. alive \subseteq Procs /\ pid \in [Procs -> Pids \cup {None}]
      /\ checked \subseteq alive /\ refused \subseteq alive /\ reused \subseteq alive /\ old \subseteq alive
  BY Types
<1>3. pid' \in [Procs -> Pids \cup {None}] /\ \A p \in alive' : pid'[p] = pid[p]
  BY <1>1, <1>2
<1>4. \A p \in alive' : ExcusedBy(p) => ExcusedBy(p)'
  BY <1>1 DEF ExcusedBy
<1> QED
  BY <1>1, <1>2, <1>3, <1>4

\* A process that starts: no other is touched.
LEMMA Started ==
  ASSUME TypeOK, StartedOK, NEW i \in Pids, NEW m \in Images, Start(i, m)
  PROVE  /\ started + 1 \in Procs /\ started + 1 \notin alive /\ started' = started + 1
         /\ alive' = alive \cup {started + 1} /\ i \notin PidsOf(alive)
         /\ pid' \in [Procs -> Pids \cup {None}] /\ image' \in [Procs -> Images \cup {"good"}]
         /\ pid'[started + 1] = i /\ \A p \in Procs \ {started + 1} : pid'[p] = pid[p] /\ image'[p] = image[p]
         /\ UNCHANGED <<run, kill, pc, guard, checked, refused, old, fails>>
         /\ reused \subseteq reused' /\ reused' \subseteq alive'
         /\ i \in listed => started + 1 \in reused'
<1>1. /\ started < MaxProcs /\ started' = started + 1 /\ i \notin PidsOf(alive)
      /\ pid' = [pid EXCEPT ![started + 1] = i] /\ image' = [image EXCEPT ![started + 1] = m]
      /\ alive' = alive \cup {started + 1}
      /\ reused' = IF i \in listed THEN reused \cup {started + 1} ELSE reused
      /\ UNCHANGED <<run, kill, pc, guard, checked, refused, old, fails>>
  BY DEF Start
<1>2. started \in 0..MaxProcs /\ alive \subseteq 1..started /\ MaxProcs \in Nat
  BY Types, ProcAssumption DEF StartedOK
<1>3. started + 1 \in Procs /\ started + 1 \notin alive
  BY <1>1, <1>2 DEF Procs
<1>4. pid' \in [Procs -> Pids \cup {None}] /\ image' \in [Procs -> Images \cup {"good"}]
  BY <1>1, <1>3, Types
<1>5. pid'[started + 1] = i /\ \A p \in Procs \ {started + 1} : pid'[p] = pid[p] /\ image'[p] = image[p]
  BY <1>1, <1>3, Types
<1>6. reused \subseteq reused' /\ reused' \subseteq alive'
  BY <1>1, Types
<1> QED
  BY <1>1, <1>3, <1>4, <1>5, <1>6

\* The table takes the id, or is full.
LEMMA NotedIs ==
  ASSUME TypeOK, TablesOK, NEW p \in Pids
  PROVE  /\ Noted(p) \subseteq current \cup {p} /\ Noted(p) \subseteq Pids
         /\ IsFiniteSet(Noted(p)) /\ Cardinality(Noted(p)) <= MaxPids
<1>1. IsFiniteSet(current) /\ current \subseteq Pids /\ Cardinality(current) <= MaxPids /\ MaxPids \in Nat
  BY Types, ProcAssumption DEF TablesOK
<1>2. Cardinality(current) \in Nat
  BY <1>1, FS_CardinalityType
<1>3. IsFiniteSet(current \cup {p}) /\ (Cardinality(current \cup {p}) = Cardinality(current)
                                       \/ Cardinality(current \cup {p}) = Cardinality(current) + 1)
  BY <1>1, FS_AddElement
<1>4. CASE Cardinality(current) < MaxPids
  <2>1. Cardinality(current \cup {p}) <= MaxPids
    BY <1>1, <1>2, <1>3, <1>4
  <2> QED
    BY <1>1, <1>3, <1>4, <2>1 DEF Noted
<1>5. CASE ~(Cardinality(current) < MaxPids)
  BY <1>1, <1>5 DEF Noted
<1> QED
  BY <1>4, <1>5

-----------------------------------------------------------------------------
(* Each variable stays in its range.                                       *)

\* The thread's own variables, and those of the window's.
ThreadOK ==
  /\ run \in BOOLEAN /\ kill \in BOOLEAN /\ first \in BOOLEAN
  /\ pc \in {"list", "walk", "look", "check", "kill", "rest", "over"}
  /\ at \in Pids \cup {None} /\ found \in Procs \cup {None}
IdsOK ==
  /\ left \subseteq Pids /\ known \subseteq Pids /\ current \subseteq Pids /\ listed \subseteq Pids
  /\ Cardinality(current) <= MaxPids /\ Cardinality(known) <= MaxPids /\ fails \in 0..MaxFails
SystemOK ==
  /\ started \in 0..MaxProcs /\ alive \subseteq Procs
  /\ pid \in [Procs -> Pids \cup {None}] /\ image \in [Procs -> Images \cup {"good"}]
  /\ \A p, q \in alive : pid[p] = pid[q] => p = q
HistoryOK == checked \subseteq alive /\ refused \subseteq alive /\ reused \subseteq alive /\ old \subseteq alive

LEMMA ThreadType ==
  ASSUME TypeOK, [Next]_vars
  PROVE  ThreadOK'
<1>1. ThreadOK /\ left \subseteq Pids /\ alive \subseteq Procs
  BY Types DEF ThreadOK
<1>2. CASE List
  BY <1>1, <1>2 DEF List, ThreadOK
<1>3. CASE Skip
  BY <1>1, <1>3 DEF Skip, ThreadOK
<1>4. CASE New
  BY <1>1, <1>4 DEF New, ThreadOK
<1>5. CASE Look
  BY <1>1, <1>5 DEF Look, ThreadOK
<1>6. CASE Check
  BY <1>1, <1>6 DEF Check, Checked, ThreadOK
<1>7. CASE Kill
  BY <1>1, <1>7 DEF Kill, ThreadOK
<1>8. CASE PassEnds
  BY <1>1, <1>8 DEF PassEnds, ThreadOK
<1>9. CASE Rest \/ Leave \/ Stop
  BY <1>1, <1>9 DEF Rest, Leave, Stop, guard, ThreadOK
<1>10. CASE SetKill
  <2>1. kill' = ~kill /\ UNCHANGED <<run, pc, at, found, first>>
    BY <1>10 DEF SetKill, guard
  <2> QED
    BY <1>1, <2>1 DEF ThreadOK
<1>11. CASE UNCHANGED <<run, kill, pc, guard>>
  BY <1>1, <1>11 DEF guard, ThreadOK
<1> QED
  BY <1>2, <1>3, <1>4, <1>5, <1>6, <1>7, <1>8, <1>9, <1>10, <1>11 DEF Next, Step, Start, End, vars

LEMMA IdsType ==
  ASSUME TypeOK, TablesOK, StartedOK, [Next]_vars
  PROVE  IdsOK' /\ IsFiniteSet(current)' /\ IsFiniteSet(known)'
<1>1. /\ IdsOK /\ IsFiniteSet(current) /\ IsFiniteSet(known) /\ IsFiniteSet({}) /\ Cardinality({}) <= MaxPids
      /\ MaxFails \in Nat
  BY Types, FS_EmptySet, ProcAssumption DEF TablesOK, IdsOK
<1>2. CASE List
  <2>1. current' = {} /\ UNCHANGED known /\ left' = listed'
        /\ (listed' = PidsOf(alive) \/ listed' = {}) /\ (UNCHANGED fails \/ (fails < MaxFails /\ fails' = fails + 1))
    BY <1>2 DEF List
  <2>2. PidsOf(alive) \subseteq Pids
    BY DEF StartedOK
  <2>3. fails' \in 0..MaxFails
    BY <1>1, <2>1 DEF IdsOK
  <2> QED
    BY <1>1, <2>1, <2>2, <2>3 DEF IdsOK
<1>3. CASE Skip \/ New
  <2>1. PICK p \in left : current' = Noted(p) /\ left' = left \ {p} /\ UNCHANGED <<known, listed, fails>>
    BY <1>3 DEF Skip, New
  <2>2. Noted(p) \subseteq Pids /\ IsFiniteSet(Noted(p)) /\ Cardinality(Noted(p)) <= MaxPids
    BY <1>1, <2>1, NotedIs DEF IdsOK
  <2> QED
    BY <1>1, <2>1, <2>2 DEF IdsOK
<1>4. CASE PassEnds
  BY <1>1, <1>4 DEF PassEnds, IdsOK
<1>5. CASE UNCHANGED <<left, known, current, listed, fails>>
  BY <1>1, <1>5 DEF IdsOK
<1> QED
  BY <1>2, <1>3, <1>4, <1>5
     DEF Next, Step, Look, Check, Checked, Kill, Rest, Leave, Stop, SetKill, Start, End, guard, vars

LEMMA SystemType ==
  ASSUME TypeOK, StartedOK, [Next]_vars
  PROVE  SystemOK' /\ StartedOK' /\ HistoryOK'
<1>1. /\ SystemOK /\ HistoryOK /\ alive \subseteq 1..started /\ \A p \in alive : pid[p] \in Pids
  BY Types DEF StartedOK, SystemOK, HistoryOK, PidsOf
<1>2. ASSUME NEW ps, Gone(ps), UNCHANGED <<started, image>>
      PROVE  SystemOK' /\ StartedOK' /\ HistoryOK'
  <2>1. /\ alive' \subseteq alive /\ pid' \in [Procs -> Pids \cup {None}] /\ \A p \in alive' : pid'[p] = pid[p]
        /\ HistoryOK'
    BY <1>2, Ended DEF HistoryOK
  <2>2. SystemOK'
    BY <1>1, <1>2, <2>1 DEF SystemOK
  <2>3. StartedOK'
    BY <1>1, <1>2, <2>1 DEF StartedOK, PidsOf
  <2> QED
    BY <2>1, <2>2, <2>3
<1>3. ASSUME NEW i \in Pids, NEW m \in Images, Start(i, m)
      PROVE  SystemOK' /\ StartedOK' /\ HistoryOK'
  <2> DEFINE n == started + 1
  <2>1. /\ n \in Procs /\ n \notin alive /\ started' = n /\ alive' = alive \cup {n} /\ i \notin PidsOf(alive)
        /\ pid' \in [Procs -> Pids \cup {None}] /\ image' \in [Procs -> Images \cup {"good"}]
        /\ pid'[n] = i /\ \A p \in Procs \ {n} : pid'[p] = pid[p]
        /\ UNCHANGED <<checked, refused, old>> /\ reused' \subseteq alive'
    BY <1>3, Started
  <2>2. n \in 0..MaxProcs /\ 1..started \subseteq 1..n /\ n \in 1..n
    BY <1>1, <2>1, ProcAssumption DEF SystemOK, Procs
  <2> HIDE DEF n
  <2>3. \A p \in alive : p # n /\ p \in Procs /\ pid'[p] = pid[p] /\ pid[p] # i
    BY <1>1, <2>1 DEF SystemOK, PidsOf
  <2>4. \A p, q \in alive' : pid'[p] = pid'[q] => p = q
    BY <1>1, <2>1, <2>3 DEF SystemOK
  <2>5. SystemOK'
    BY <1>1, <2>1, <2>2, <2>4 DEF SystemOK
  <2>6. StartedOK'
    BY <1>1, <2>1, <2>2, <2>3 DEF StartedOK, PidsOf
  <2>7. HistoryOK'
    BY <1>1, <2>1 DEF HistoryOK
  <2> QED
    BY <2>5, <2>6, <2>7
<1>4. ASSUME UNCHANGED system
      PROVE  SystemOK' /\ StartedOK'
  BY <1>1, <1>4 DEF SystemOK, StartedOK, PidsOf, system
<1>5. CASE List
  BY <1>1, <1>4, <1>5 DEF List, HistoryOK, system
<1>6. CASE Look
  <2>1. UNCHANGED <<system, checked, reused, old>> /\ refused' \in {refused, refused \cup {p \in alive : pid[p] = at}}
    BY <1>6 DEF Look
  <2> QED
    BY <1>1, <1>4, <2>1 DEF HistoryOK, system
<1>7. CASE Check
  BY <1>1, <1>4, <1>7 DEF Check, Checked, HistoryOK, system
<1>8. CASE UNCHANGED <<system, history>>
  BY <1>1, <1>4, <1>8 DEF HistoryOK, system, history
<1>9. CASE Kill
  <2>1. UNCHANGED <<started, image>>
        /\ (Gone({p \in alive : pid[p] = at}) \/ UNCHANGED <<alive, pid, history>>)
    BY <1>9 DEF Kill
  <2>2. CASE UNCHANGED <<alive, pid, history>>
    BY <1>8, <2>1, <2>2 DEF system
  <2> QED
    BY <1>2, <2>1, <2>2
<1>10. ASSUME NEW p \in Procs, End(p)  PROVE SystemOK' /\ StartedOK' /\ HistoryOK'
  BY <1>2, <1>10 DEF End
<1> QED
  BY <1>3, <1>5, <1>6, <1>7, <1>8, <1>9, <1>10
     DEF Next, Step, Skip, New, PassEnds, Rest, Leave, Stop, SetKill, vars

LEMMA StepTypeOK ==
  ASSUME TypeOK, TablesOK, StartedOK, [Next]_vars
  PROVE  TypeOK'
<1>1. ThreadOK' /\ IdsOK' /\ SystemOK' /\ HistoryOK'
  BY ThreadType, IdsType, SystemType
<1> QED
  BY <1>1 DEF TypeOK, ThreadOK, IdsOK, SystemOK, HistoryOK

LEMMA TablesStep ==
  ASSUME TypeOK, TablesOK, StartedOK, [Next]_vars
  PROVE  TablesOK'
<1>1. /\ left \subseteq listed /\ current \subseteq listed /\ (pc \in {"list", "rest"} => known \subseteq listed)
      /\ pc = "look" => at \in listed
  BY DEF TablesOK
<1>2. IsFiniteSet(current)' /\ IsFiniteSet(known)'
  BY IdsType
<1>3. /\ left' \subseteq listed' /\ current' \subseteq listed' /\ (pc' \in {"list", "rest"} => known' \subseteq listed')
      /\ pc' = "look" => at' \in listed'
  <2>1. CASE List
    BY <2>1 DEF List
  <2>2. CASE Skip \/ New
    <3>1. PICK p \in left : /\ current' = Noted(p) /\ left' = left \ {p} /\ UNCHANGED <<known, listed>>
                            /\ (pc' = "look" /\ at' = p) \/ (pc' = "walk" /\ UNCHANGED at)
      BY <2>2 DEF Skip, New
    <3>2. Noted(p) \subseteq current \cup {p}
      BY <3>1, NotedIs, Types
    <3>3. left' \subseteq listed' /\ current' \subseteq listed' /\ p \in listed'
      BY <1>1, <3>1, <3>2
    <3>4. (pc' = "look" /\ at' \in listed') \/ pc' = "walk"
      BY <3>1, <3>3
    <3> QED
      BY <3>3, <3>4
  <2>3. CASE Look
    BY <1>1, <2>3 DEF Look
  <2>4. CASE Check
    BY <1>1, <2>4 DEF Check, Checked
  <2>5. CASE Kill
    BY <1>1, <2>5 DEF Kill
  <2>6. CASE PassEnds
    BY <1>1, <2>6 DEF PassEnds
  <2>7. CASE Rest \/ Leave
    BY <1>1, <2>7 DEF Rest, Leave, guard
  <2>8. CASE UNCHANGED <<pc, guard>>
    BY <1>1, <2>8 DEF guard
  <2> QED
    BY <2>1, <2>2, <2>3, <2>4, <2>5, <2>6, <2>7, <2>8 DEF Next, Step, Stop, SetKill, Start, End, vars
<1> QED
  BY <1>2, <1>3 DEF TablesOK

\* What is alive after a step: it was, with the id it has and excused if it was; or it
\* has just started, and is excused if its id is in the last list.
LEMMA Survives ==
  ASSUME TypeOK, StartedOK, [Next]_vars, NEW p \in alive'
  PROVE  \/ p \in alive /\ pid'[p] = pid[p] /\ (ExcusedBy(p) => ExcusedBy(p)') /\ (p <= started => image'[p] = image[p])
         \/ /\ p \notin alive /\ UNCHANGED <<pc, guard>>
            /\ pid'[p] \in listed' => ExcusedBy(p)'
<1> DEFINE Kept == p \in alive /\ pid'[p] = pid[p] /\ (ExcusedBy(p) => ExcusedBy(p)') /\ image'[p] = image[p]
<1>1. ASSUME NEW ps, Gone(ps), UNCHANGED image  PROVE Kept
  BY <1>1, Ended
<1>2. ASSUME NEW i \in Pids, NEW m \in Images, Start(i, m)
      PROVE  Kept \/ (p \notin alive /\ UNCHANGED <<pc, guard>> /\ (pid'[p] \in listed' => ExcusedBy(p)'))
  <2> DEFINE n == started + 1
  <2>1. /\ n \in Procs /\ n \notin alive /\ alive' = alive \cup {n}
        /\ pid'[n] = i /\ \A q \in Procs \ {n} : pid'[q] = pid[q] /\ image'[q] = image[q]
        /\ UNCHANGED <<pc, guard, checked, refused, old>>
        /\ reused \subseteq reused' /\ (i \in listed => n \in reused')
    BY <1>2, Started
  <2> HIDE DEF n
  <2>2. CASE p = n
    BY <2>1, <2>2 DEF ExcusedBy, guard
  <2>3. CASE p \in alive
    <3>1. p # n /\ p \in Procs
      BY <2>1, <2>3, Types
    <3> QED
      BY <2>1, <2>3, <3>1 DEF ExcusedBy
  <2> QED
    BY <2>1, <2>2, <2>3
<1>3. CASE List
  <2>1. old \subseteq old' /\ UNCHANGED <<pid, image, alive, checked, refused, reused>>
    BY <1>3, Types DEF List, system
  <2> QED
    BY <2>1 DEF ExcusedBy
<1>4. CASE Look
  <2>1. refused \subseteq refused' /\ UNCHANGED <<pid, image, alive, checked, reused, old>>
    BY <1>4 DEF Look, system
  <2> QED
    BY <2>1 DEF ExcusedBy
<1>5. CASE Check
  <2>1. checked \subseteq checked' /\ UNCHANGED <<pid, image, alive, refused, reused, old>>
    BY <1>5 DEF Check, Checked, system
  <2> QED
    BY <2>1 DEF ExcusedBy
<1>6. CASE UNCHANGED <<pid, image, alive, history>>
  BY <1>6 DEF ExcusedBy, history
<1>7. CASE Kill
  BY <1>1, <1>6, <1>7 DEF Kill
<1>8. ASSUME NEW q \in Procs, End(q)  PROVE Kept
  BY <1>1, <1>8 DEF End
<1> QED
  BY <1>2, <1>3, <1>4, <1>5, <1>6, <1>7, <1>8
     DEF Next, Step, Skip, New, PassEnds, Rest, Leave, Stop, SetKill, system, vars

-----------------------------------------------------------------------------
(* The process at hand, and who is excused.                                *)

LEMMA AtHandStep ==
  ASSUME TypeOK, StartedOK, TablesOK, FoundAtHand, [Next]_vars
  PROVE  FoundAtHand'
<1> SUFFICES ASSUME pc' \in {"check", "kill"}
             PROVE  /\ found' \in 1..started' /\ at' \in listed'
                    /\ found' \in alive' => pid'[found'] = at'
                    /\ pc' = "kill" => Hit(found)'
  BY DEF FoundAtHand
<1> DEFINE Goal == /\ found' \in 1..started' /\ at' \in listed'
                   /\ found' \in alive' => pid'[found'] = at'
                   /\ pc' = "kill" => Hit(found)'
<1>1. CASE Look
  <2>1. pc = "look" /\ pc' = "check" /\ UNCHANGED <<at, listed, system>>
        /\ found' \in alive /\ pid[found'] = at
    BY <1>1 DEF Look
  <2>2. found' \in 1..started /\ at \in listed
    BY <2>1 DEF StartedOK, TablesOK
  <2> QED
    BY <2>1, <2>2 DEF system
<1>2. CASE Check
  <2>1. /\ pc = "check" /\ pc' = "kill" /\ Hit(found) /\ UNCHANGED <<at, found, listed, system>>
    BY <1>2 DEF Check, Checked
  <2> QED
    BY <2>1 DEF FoundAtHand, Hit, system
<1>3. ASSUME UNCHANGED <<pc, found, at, listed>>, started <= started', started' \in Nat,
             \A p \in alive' : p <= started => p \in alive /\ pid'[p] = pid[p],
             \A p \in 1..started : image'[p] = image[p]
      PROVE  Goal
  <2>1. found \in 1..started /\ at \in listed /\ (found \in alive => pid[found] = at) /\ (pc = "kill" => Hit(found))
    BY <1>3 DEF FoundAtHand
  <2>2. started \in Nat
    BY Types
  <2>3. found \in 1..started' /\ found <= started
    BY <1>3, <2>1, <2>2
  <2> QED
    BY <1>3, <2>1, <2>3 DEF Hit
<1>4. ASSUME NEW ps, Gone(ps), UNCHANGED <<pc, found, at, listed, started, image>>  PROVE Goal
  <2>1. started <= started' /\ started' \in Nat
    BY <1>4, Types
  <2> QED
    BY <1>3, <1>4, <2>1, Ended
<1>5. ASSUME NEW i \in Pids, NEW m \in Images, Start(i, m)  PROVE Goal
  <2>1. /\ started' = started + 1 /\ alive' = alive \cup {started + 1} /\ started + 1 \notin alive
        /\ \A p \in Procs \ {started + 1} : pid'[p] = pid[p] /\ image'[p] = image[p]
        /\ UNCHANGED <<pc, guard>>
    BY <1>5, Started
  <2>2. /\ started \in Nat /\ started' \in Nat /\ started <= started' /\ ~(started + 1 <= started)
        /\ alive \subseteq Procs /\ \A p \in 1..started : p \in Procs /\ p # started + 1
    BY <2>1, Types, ProcAssumption DEF Procs
  <2>3. \A p \in alive' : p <= started => p \in alive /\ pid'[p] = pid[p]
    BY <2>1, <2>2
  <2> QED
    BY <1>3, <2>1, <2>2, <2>3 DEF guard
<1>6. ASSUME UNCHANGED <<pc, found, at, listed, system>>  PROVE Goal
  <2>1. started <= started' /\ started' \in Nat
    BY <1>6, Types DEF system
  <2> QED
    BY <1>3, <1>6, <2>1 DEF system
<1>7. ASSUME NEW p \in Procs, End(p)  PROVE Goal
  BY <1>4, <1>7 DEF End, guard
<1>8. CASE List \/ Skip \/ New \/ Kill \/ PassEnds \/ Rest \/ Leave
  <2>1. pc' \in {"walk", "look", "rest", "list", "over"}
    BY <1>8 DEF List, Skip, New, Kill, PassEnds, Rest, Leave
  <2> QED
    BY <2>1
<1>9. CASE Stop \/ SetKill \/ UNCHANGED vars
  BY <1>6, <1>9 DEF Stop, SetKill, vars, guard
<1> QED
  BY <1>1, <1>2, <1>5, <1>7, <1>8, <1>9 DEF Next, Step

LEMMA KnownStep ==
  ASSUME TypeOK, StartedOK, TablesOK, KnownExcused, CurrentExcused, [Next]_vars
  PROVE  KnownExcused'
<1> SUFFICES ASSUME NEW p \in alive', pid'[p] \in known', pid'[p] \in listed'
             PROVE  ExcusedBy(p)'
  BY ExcusedIsNext DEF KnownExcused
<1>1. CASE p \notin alive
  BY <1>1, Survives
<1>2. CASE p \in alive
  <2>1. pid'[p] = pid[p] /\ (ExcusedBy(p) => ExcusedBy(p)')
    BY <1>2, Survives
  <2>2. CASE UNCHANGED <<known, listed>>
    BY <1>2, <2>1, <2>2, ExcusedIs DEF KnownExcused
  <2>3. CASE List
    <3>1. UNCHANGED known /\ known \subseteq listed
      BY <2>3 DEF List, TablesOK
    <3> QED
      BY <1>2, <2>1, <3>1, ExcusedIs DEF KnownExcused
  <2>4. CASE PassEnds
    <3>1. known' = current /\ pc = "walk"
      BY <2>4 DEF PassEnds
    <3> QED
      BY <1>2, <2>1, <3>1, ExcusedIs DEF CurrentExcused
  <2> QED
    BY <2>2, <2>3, <2>4
       DEF Next, Step, Skip, New, Look, Check, Checked, Kill, Rest, Leave, Stop, SetKill, Start, End, guard, vars
<1> QED
  BY <1>1, <1>2

LEMMA CurrentStep ==
  ASSUME TypeOK, StartedOK, TablesOK, FoundAtHand, KnownExcused, CurrentExcused, FirstExcused, [Next]_vars
  PROVE  CurrentExcused'
<1> DEFINE Goal(p) == ExcusedBy(p)' \/ (pc' = "look" /\ pid'[p] = at') \/ (pc' = "check" /\ p = found')
<1> SUFFICES ASSUME NEW p \in alive', pid'[p] \in current'
             PROVE  Goal(p)
  BY ExcusedIsNext DEF CurrentExcused
<1>1. CASE p \notin alive
  <2>1. UNCHANGED <<pc, guard>> /\ (pid'[p] \in listed' => ExcusedBy(p)')
    BY <1>1, Survives
  <2>2. pid'[p] \in listed'
    BY <2>1 DEF guard, TablesOK
  <2> QED
    BY <2>1, <2>2
<1>2. CASE p \in alive
  <2>1. pid'[p] = pid[p] /\ (ExcusedBy(p) => ExcusedBy(p)')
    BY <1>2, Survives
  <2>2. pid[p] \in current => ExcusedBy(p) \/ (pc = "look" /\ pid[p] = at) \/ (pc = "check" /\ p = found)
    BY <1>2, ExcusedIs DEF CurrentExcused
  <2>3. CASE UNCHANGED <<current, pc, at, found>>
    BY <2>1, <2>2, <2>3
  <2>4. CASE List \/ PassEnds
    BY <2>4 DEF List, PassEnds
  <2>5. CASE Skip
    <3>1. PICK q \in left : /\ pc = "walk" /\ (q \in known \/ first) /\ current' = Noted(q)
      BY <2>5 DEF Skip
    <3>2. Noted(q) \subseteq current \cup {q} /\ q \in listed
      BY <3>1, NotedIs, Types DEF TablesOK
    <3>3. CASE pid[p] \in current
      BY <2>1, <2>2, <3>1, <3>3
    <3>4. CASE pid[p] = q /\ q \in known
      <4>1. ExcusedBy(p)
        BY <1>2, <3>2, <3>4, ExcusedIs DEF KnownExcused
      <4> QED
        BY <2>1, <4>1
    <3>5. CASE pid[p] = q /\ first
      <4>1. ExcusedBy(p)
        BY <1>2, <3>1, <3>2, <3>5, ExcusedIs DEF FirstExcused
      <4> QED
        BY <2>1, <4>1
    <3> QED
      BY <2>1, <3>1, <3>2, <3>3, <3>4, <3>5
  <2>6. CASE New
    <3>1. PICK q \in left : /\ pc = "walk" /\ current' = Noted(q) /\ at' = q /\ pc' = "look"
      BY <2>6 DEF New
    <3>2. Noted(q) \subseteq current \cup {q}
      BY <3>1, NotedIs, Types
    <3> QED
      BY <2>1, <2>2, <3>1, <3>2
  <2>7. CASE Look
    <3>1. pc = "look" /\ UNCHANGED current
      BY <2>7 DEF Look
    <3>2. CASE pid[p] = at
      <4>1. \/ refused' = refused \cup {q \in alive : pid[q] = at}
            \/ pc' = "check" /\ found' \in alive /\ pid[found'] = at
        BY <2>7 DEF Look
      <4>2. CASE refused' = refused \cup {q \in alive : pid[q] = at}
        BY <1>2, <3>2, <4>2 DEF ExcusedBy
      <4>3. CASE pc' = "check" /\ found' \in alive /\ pid[found'] = at
        BY <1>2, <3>2, <4>3, Types
      <4> QED
        BY <4>1, <4>2, <4>3
    <3> QED
      BY <2>1, <2>2, <3>1, <3>2
  <2>8. CASE Check
    <3>1. pc = "check" /\ UNCHANGED current /\ checked' = checked \cup ({found} \cap alive)
      BY <2>8 DEF Check, Checked
    <3>2. CASE p = found
      BY <1>2, <3>1, <3>2 DEF ExcusedBy
    <3> QED
      BY <2>1, <2>2, <3>1, <3>2
  <2>9. CASE Kill \/ Rest \/ Leave
    <3>1. pc \in {"kill", "rest", "list"} /\ UNCHANGED current
      BY <2>9 DEF Kill, Rest, Leave, guard
    <3> QED
      BY <2>1, <2>2, <3>1
  <2> QED
    BY <2>3, <2>4, <2>5, <2>6, <2>7, <2>8, <2>9 DEF Next, Step, Stop, SetKill, Start, End, guard, vars
<1> QED
  BY <1>1, <1>2

LEMMA FirstStep ==
  ASSUME TypeOK, StartedOK, FirstExcused, [Next]_vars
  PROVE  FirstExcused'
<1> DEFINE InPass == {"walk", "look", "check", "kill"}
<1> SUFFICES ASSUME first', pc' \in InPass, NEW p \in alive', pid'[p] \in listed'
             PROVE  ExcusedBy(p)'
  BY ExcusedIsNext DEF FirstExcused
<1>1. CASE p \notin alive
  BY <1>1, Survives
<1>2. CASE p \in alive
  <2>1. pid'[p] = pid[p] /\ (ExcusedBy(p) => ExcusedBy(p)')
    BY <1>2, Survives
  <2>2. CASE UNCHANGED <<first, listed>> /\ pc \in InPass
    <3>1. ExcusedBy(p)
      BY <1>2, <2>1, <2>2, ExcusedIs DEF FirstExcused
    <3> QED
      BY <2>1, <3>1
  <2>3. CASE List
    <3>1. first /\ (listed' = {} \/ old' = alive)
      BY <2>3 DEF List
    <3> QED
      BY <1>2, <3>1 DEF ExcusedBy
  <2>4. CASE PassEnds \/ Rest \/ Leave
    <3>1. ~first' \/ pc' \in {"list", "over"}
      BY <2>4 DEF PassEnds, Rest, Leave
    <3> QED
      BY <3>1
  <2>5. CASE Skip \/ New \/ Look \/ Check \/ Kill
    <3>1. pc \in InPass /\ UNCHANGED <<first, listed>>
      BY <2>5 DEF Skip, New, Look, Check, Checked, Kill
    <3> QED
      BY <2>2, <3>1
  <2>6. CASE UNCHANGED <<pc, first, listed>>
    BY <2>2, <2>6
  <2> QED
    BY <2>3, <2>4, <2>5, <2>6 DEF Next, Step, Stop, SetKill, Start, End, guard, vars
<1> QED
  BY <1>1, <1>2

-----------------------------------------------------------------------------
(* The theorems.                                                           *)

LEMMA InitIndInv ==
  ASSUME Init
  PROVE  IndInv
<1>1. IsFiniteSet({}) /\ Cardinality({}) = 0 /\ 0 <= MaxPids /\ 0 \in 0..MaxProcs /\ 0 \in 0..MaxFails
  BY FS_EmptySet, ProcAssumption
<1>2. TypeOK
  <2>1. ThreadOK
    BY DEF Init, ThreadOK
  <2>2. IdsOK
    BY <1>1 DEF Init, IdsOK
  <2>3. SystemOK
    BY <1>1 DEF Init, SystemOK
  <2>4. HistoryOK
    BY DEF Init, HistoryOK
  <2> QED
    BY <2>1, <2>2, <2>3, <2>4 DEF TypeOK, ThreadOK, IdsOK, SystemOK, HistoryOK
<1>3. TablesOK
  BY <1>1 DEF Init, TablesOK
<1>4. StartedOK /\ FoundAtHand /\ KnownExcused /\ CurrentExcused /\ FirstExcused
  BY DEF Init, StartedOK, PidsOf, FoundAtHand, KnownExcused, CurrentExcused, FirstExcused
<1> QED
  BY <1>2, <1>3, <1>4 DEF IndInv

LEMMA StepIndInv ==
  ASSUME IndInv, [Next]_vars
  PROVE  IndInv'
BY StepTypeOK, TablesStep, SystemType, AtHandStep, KnownStep, CurrentStep, FirstStep DEF IndInv

\* The inductive invariant, for any ids, tables and processes.
THEOREM Inductive == Spec => []IndInv
BY InitIndInv, StepIndInv, PTL DEF Spec

\* Every variable stays in its range, and the tables of proc_thread keep to their
\* room (MAX_PIDS of src/src/realtime.c).
THEOREM TypeCorrect == Spec => []TypeOK
<1>1. IndInv => TypeOK
  BY DEF IndInv
<1> QED
  BY <1>1, Inductive, PTL

\* Between two passes of proc_thread, whoever runs under a known id was checked, was
\* there when it began, gave no image, or took the id of one in the last list.
THEOREM NoneOverlooked == Spec => []KnownIsChecked
<1>1. IndInv => KnownIsChecked
  <2> SUFFICES ASSUME IndInv, pc = "rest", NEW p \in alive, pid[p] \in known
               PROVE  Excused(p)
    BY DEF KnownIsChecked
  <2>1. known \subseteq listed
    BY DEF IndInv, TablesOK
  <2> QED
    BY <2>1 DEF IndInv, KnownExcused
<1> QED
  BY <1>1, Inductive, PTL

\* Whoever proc_thread ends is a hit itself, or took the id of a hit that has ended
\* since it was looked up (TerminateProcess by id, src/src/realtime.c).
THEOREM OnlyHitsEnd == Spec => EndsOnlyHits
<1> DEFINE Ends == pc = "kill" /\ pc' = "walk" =>
                     \A p \in alive \ alive' : Hit(found) /\ (p = found \/ found \notin alive)
<1>1. ASSUME IndInv, [Next]_vars, pc = "kill", pc' = "walk", NEW p \in alive \ alive'
      PROVE  Hit(found) /\ (p = found \/ found \notin alive)
  <2>1. FoundAtHand /\ TypeOK
    BY <1>1 DEF IndInv
  <2>2. Kill
    BY <1>1 DEF Next, Step, List, Skip, New, Look, Check, Checked, PassEnds, Rest, Leave, Stop, SetKill,
                Start, End, vars
  <2>3. pid[p] = at
    BY <1>1, <2>2 DEF Kill, Gone
  <2>4. Hit(found) /\ (found \in alive => pid[found] = at)
    BY <1>1, <2>1 DEF FoundAtHand
  <2> QED
    BY <1>1, <2>1, <2>3, <2>4, Types
<1>2. IndInv /\ [Next]_vars => [Ends]_vars
  BY <1>1
<1> QED
  BY <1>2, Inductive, PTL DEF Spec, EndsOnlyHits
=============================================================================
