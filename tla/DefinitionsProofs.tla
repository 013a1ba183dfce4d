------------------------- MODULE DefinitionsProofs -------------------------
(***************************************************************************)
(* Theorems about the definitions in use, for any number of threads,       *)
(* versions of any length, updaters and buffers.  IndInv (module           *)
(* Definitions) is inductive; the two invariants are parts of it, and the  *)
(* two action properties follow from it.                                   *)
(***************************************************************************)
EXTENDS Definitions, SequenceTheorems, TLAPS

-----------------------------------------------------------------------------
(* Who changes what.                                                       *)

LEMMA ThreadFrame == ASSUME NEW t \in Threads, Thread(t)
                     PROVE  UNCHANGED <<file, upd, begun, win, from, tab, quit, overlap>>
  BY DEF Thread, LookUp, OpenFile, NotConfirmed, TakeSlot, ReadName, CopyName, Window

LEMMA UpdaterFrame == ASSUME NEW i \in DOMAIN upd, Updater(i)
                      PROVE  UNCHANGED <<begun, win, from, tab, quit, pc, age, kept>>
  BY DEF Updater, UpdaterOpens, UpdaterWrites, UpdaterEnds, Window, Looks

\* A step of the window's thread.
Windows == StartUpdate \/ LoadOther \/ Close \/ ShowBox \/ BoxGoes \/ Returns

LEMMA LooksFrame == ASSUME Windows PROVE UNCHANGED <<pc, age, kept, overlap>>
  BY DEF Windows, StartUpdate, LoadOther, Close, ShowBox, BoxGoes, Returns, Reload, LoadOwn, LoadChosen, Destroy,
         TakeQuit, PumpTakesQuit, Looks

-----------------------------------------------------------------------------
(* The stack of updaters and boxes.                                        *)

LEMMA Pushed ==
  ASSUME UpdatersOK, NEW u \in Update
  PROVE  /\ Append(upd, u) \in Seq(Update)
         /\ \A i \in DOMAIN Append(upd, u) :
              Append(upd, u)[i] = u \/ (i \in DOMAIN upd /\ Append(upd, u)[i] = upd[i])
         /\ \A i \in DOMAIN upd : i \in DOMAIN Append(upd, u) /\ Append(upd, u)[i] = upd[i]
         /\ \E i \in DOMAIN Append(upd, u) : Append(upd, u)[i] = u
<1>1. upd \in Seq(Update)
  BY DEF UpdatersOK
<1>2. Len(upd) \in Nat /\ DOMAIN upd = 1..Len(upd) /\ DOMAIN Append(upd, u) = 1..(Len(upd) + 1)
  BY <1>1
<1>3. Len(upd) + 1 \in DOMAIN Append(upd, u) /\ Append(upd, u)[Len(upd) + 1] = u
  BY <1>1, <1>2
<1> QED
  BY <1>1, <1>2, <1>3

LEMMA Popped ==
  ASSUME UpdatersOK, upd # <<>>
  PROVE  /\ Front(upd) \in Seq(Update)
         /\ \A i \in DOMAIN Front(upd) : i \in DOMAIN upd /\ Front(upd)[i] = upd[i]
         /\ \A i \in DOMAIN upd : upd[i] = Last(upd) \/ (i \in DOMAIN Front(upd) /\ Front(upd)[i] = upd[i])
<1>1. upd \in Seq(Update)
  BY DEF UpdatersOK
<1>2. Len(upd) \in Nat \ {0} /\ \A i \in 1..Len(upd) : upd[i] \in Update
  BY <1>1, EmptySeq, ElementOfSeq
<1>3. /\ SubSeq(upd, 1, Len(upd) - 1) \in Seq(Update)
      /\ Len(SubSeq(upd, 1, Len(upd) - 1)) = Len(upd) - 1
      /\ \A i \in 1..(Len(upd) - 1) : SubSeq(upd, 1, Len(upd) - 1)[i] = upd[i]
  <2>1. 1 \in Int /\ Len(upd) - 1 \in Int /\ \A i \in 1..(Len(upd) - 1) : upd[i] \in Update
    BY <1>2
  <2>2. /\ SubSeq(upd, 1, Len(upd) - 1) \in Seq(Update)
        /\ Len(SubSeq(upd, 1, Len(upd) - 1)) = IF 1 <= Len(upd) - 1 THEN Len(upd) - 1 - 1 + 1 ELSE 0
        /\ \A i \in 1..(Len(upd) - 1 - 1 + 1) : SubSeq(upd, 1, Len(upd) - 1)[i] = upd[1 + i - 1]
    BY <2>1, SubSeqProperties
  <2>3. (IF 1 <= Len(upd) - 1 THEN Len(upd) - 1 - 1 + 1 ELSE 0) = Len(upd) - 1
    <3>1. \A l \in Nat \ {0} : (IF 1 <= l - 1 THEN l - 1 - 1 + 1 ELSE 0) = l - 1
      OBVIOUS
    <3> QED
      BY <1>2, <3>1
  <2>4. 1..(Len(upd) - 1 - 1 + 1) = 1..(Len(upd) - 1)
    BY <1>2
  <2>5. \A i \in 1..(Len(upd) - 1) : 1 + i - 1 = i
    OBVIOUS
  <2> QED
    BY <2>2, <2>3, <2>4, <2>5
<1>4. /\ DOMAIN upd = 1..Len(upd) /\ DOMAIN Front(upd) = 1..(Len(upd) - 1)
      /\ \A i \in DOMAIN upd : i = Len(upd) \/ i \in 1..(Len(upd) - 1)
  BY <1>1, <1>2, <1>3 DEF Front
<1> QED
  BY <1>1, <1>2, <1>3, <1>4 DEF Front, Last

LEMMA Replaced ==
  ASSUME UpdatersOK, NEW i \in DOMAIN upd, NEW u \in Update, upd' = [upd EXCEPT ![i] = u]
  PROVE  /\ upd' \in Seq(Update) /\ Len(upd') = Len(upd) /\ DOMAIN upd' = DOMAIN upd
         /\ upd'[i] = u /\ \A j \in DOMAIN upd \ {i} : upd'[j] = upd[j]
<1>1. upd \in Seq(Update)
  BY DEF UpdatersOK
<1> QED
  BY <1>1

\* A box comes or goes.
Boxes == upd' = Append(upd, Box) \/ (upd # <<>> /\ Last(upd).at = "box" /\ upd' = Front(upd))

\* The records an updater gets, and the file it leaves.
LEMMA FullType == \A v \in Versions : Full[v] \in Nat \ {0}
  BY DefsAssumption

LEMMA NewUpdater == ASSUME NEW v \in Versions, NEW a \in {"fetch", "write", "ended", "box"}
                    PROVE  [at |-> a, ver |-> v, pos |-> 0] \in Update
  BY DEF Update

LEMMA BoxType == Box \in Update /\ Box.at = "box" /\ Box.pos <= Full[Box.ver]
<1>1. 1 \in Versions /\ 0 <= Full[1]
  BY DefsAssumption, FullType
<1>2. Box = [at |-> "box", ver |-> 1, pos |-> 0]
  BY DEF Box
<1> QED
  BY <1>1, <1>2 DEF Update

LEMMA BoxesOnly ==
  ASSUME UpdatersOK, Boxes
  PROVE  /\ \A a : a # "box" => (\E i \in DOMAIN upd' : upd'[i].at = a) <=> (\E i \in DOMAIN upd : upd[i].at = a)
         /\ Writing' <=> Writing
         /\ Updating' <=> Updating
<1>1. CASE upd' = Append(upd, Box)
  <2>1. /\ \A i \in DOMAIN upd' : upd'[i].at = "box" \/ (i \in DOMAIN upd /\ upd'[i] = upd[i])
        /\ \A i \in DOMAIN upd : i \in DOMAIN upd' /\ upd'[i] = upd[i]
    BY <1>1, BoxType, Pushed
  <2> QED
    BY <2>1 DEF Writing, Updating
<1>2. CASE upd # <<>> /\ Last(upd).at = "box" /\ upd' = Front(upd)
  <2>1. /\ \A i \in DOMAIN upd' : i \in DOMAIN upd /\ upd'[i] = upd[i]
        /\ \A i \in DOMAIN upd : upd[i].at = "box" \/ (i \in DOMAIN upd' /\ upd'[i] = upd[i])
    BY <1>2, Popped
  <2> QED
    BY <2>1 DEF Writing, Updating
<1> QED
  BY <1>1, <1>2 DEF Boxes

\* What a step of the window's thread does to the stack.
LEMMA WindowStack ==
  ASSUME UpdatersOK, Windows
  PROVE  \/ StartUpdate \/ Reload \/ Boxes
         \/ UNCHANGED upd
  BY DEF Windows, LoadOther, Close, ShowBox, BoxGoes, Boxes, Returns, LoadOwn, LoadChosen, Tell, Destroy, TakeQuit,
         PumpTakesQuit, Window

LEMMA WriteType ==
  ASSUME FileOK, UpdatersOK, NEW i \in DOMAIN upd, UpdaterWrites(i)
  PROVE  \E u \in Update : /\ upd' = [upd EXCEPT ![i] = u] /\ u.at = "write" /\ u.ver = upd[i].ver
                           /\ u.pos = upd[i].pos + 1 /\ u.pos <= Full[u.ver]
<1> DEFINE u == [upd[i] EXCEPT !.pos = @ + 1]
<1>1. upd[i] \in Update /\ upd[i].at = "write" /\ upd[i].pos < Full[upd[i].ver]
  BY DEF UpdatersOK, UpdaterWrites
<1>2. u \in Update /\ u.at = "write" /\ u.ver = upd[i].ver /\ u.pos = upd[i].pos + 1
  BY <1>1 DEF Update
<1>3. u.pos <= Full[u.ver]
  <2>1. upd[i].ver \in Versions /\ upd[i].pos \in Nat
    BY <1>1 DEF Update
  <2>2. Full[upd[i].ver] \in Nat
    BY <2>1, FullType
  <2> QED
    BY <1>1, <1>2, <2>1, <2>2
<1>4. upd' = [upd EXCEPT ![i] = u]
  BY DEF UpdaterWrites
<1> QED
  BY <1>2, <1>3, <1>4

-----------------------------------------------------------------------------
(* The type invariant.                                                     *)

LEMMA FileType == TypeOK /\ [Next]_vars => FileOK'
<1> SUFFICES ASSUME TypeOK, [Next]_vars PROVE FileOK'
  OBVIOUS
<1> DEFINE Parts == UNION {1..Full[v] : v \in Versions}
<1>0. FileOK /\ UpdatersOK
  BY DEF TypeOK
<1>1. ASSUME NEW i \in DOMAIN upd, Updater(i)
      PROVE FileOK'
  <2>1. CASE UpdaterOpens(i)
    BY <2>1 DEF UpdaterOpens, FileOK
  <2>2. CASE UpdaterWrites(i)
    <3>1. upd[i] \in Update
      BY <1>0 DEF UpdatersOK
    <3>2. upd[i].ver \in Versions /\ upd[i].pos \in Nat
      BY <3>1 DEF Update
    <3>3. upd[i].pos + 1 \in 1..Full[upd[i].ver]
      BY <2>2, <3>2, FullType DEF UpdaterWrites
    <3>4. upd[i].pos + 1 \in Parts
      BY <3>2, <3>3
    <3> QED
      BY <1>0, <2>2, <3>2, <3>4 DEF UpdaterWrites, FileOK
  <2>3. CASE UpdaterEnds(i)
    BY <1>0, <2>3 DEF UpdaterEnds, FileOK
  <2> QED
    BY <1>1, <2>1, <2>2, <2>3 DEF Updater
<1>2. CASE LoadChosen
  <2>1. \/ UNCHANGED file
        \/ \E v \in Versions : file' = [ver |-> v, parts |-> 1..Full[v]]
    BY <1>2 DEF LoadChosen
  <2>2. \A v \in Versions : [ver |-> v, parts |-> 1..Full[v]] \in [ver : Versions, parts : SUBSET Parts]
    OBVIOUS
  <2> QED
    BY <1>0, <2>1, <2>2 DEF FileOK
<1>3. CASE UNCHANGED file
  BY <1>0, <1>3 DEF FileOK
<1> QED
  BY <1>1, <1>2, <1>3, ThreadFrame
     DEF Next, StartUpdate, LoadOther, Close, ShowBox, BoxGoes, Returns, Reload, LoadOwn, Destroy, TakeQuit,
         PumpTakesQuit, vars

LEMMA UpdatersType == TypeOK /\ [Next]_vars => UpdatersOK'
<1> SUFFICES ASSUME TypeOK, [Next]_vars PROVE UpdatersOK'
  OBVIOUS
<1>0. UpdatersOK /\ FileOK /\ 1 \in Versions
  BY DefsAssumption DEF TypeOK
<1>1. ASSUME NEW i \in DOMAIN upd, NEW u \in Update, u.pos <= Full[u.ver],
             upd' = [upd EXCEPT ![i] = u], UNCHANGED begun
      PROVE UpdatersOK'
  BY <1>0, <1>1, Replaced DEF UpdatersOK
<1>2. ASSUME NEW i \in DOMAIN upd, Updater(i)
      PROVE UpdatersOK'
  <2>1. CASE UpdaterOpens(i)
    <3>1. PICK v \in Versions : upd' = [upd EXCEPT ![i] = [at |-> "write", ver |-> v, pos |-> 0]]
      BY <2>1 DEF UpdaterOpens
    <3>2. 0 <= Full[v]
      BY FullType
    <3> QED
      BY <1>1, <1>2, <3>1, <3>2, NewUpdater, UpdaterFrame
  <2>2. CASE UpdaterWrites(i)
    BY <1>0, <1>1, <1>2, <2>2, WriteType, UpdaterFrame
  <2>3. CASE UpdaterEnds(i)
    <3>1. upd' = [upd EXCEPT ![i] = [at |-> "ended", ver |-> 1, pos |-> 0]]
      BY <2>3 DEF UpdaterEnds
    <3>2. 0 <= Full[1]
      BY <1>0, FullType
    <3> QED
      BY <1>0, <1>1, <1>2, <3>1, <3>2, NewUpdater, UpdaterFrame
  <2> QED
    BY <1>2, <2>1, <2>2, <2>3 DEF Updater
<1>3. ASSUME NEW u \in Update, u.pos <= Full[u.ver], upd' = Append(upd, u), begun' \in 0..MaxBegun
      PROVE UpdatersOK'
  <2>1. /\ upd' \in Seq(Update)
        /\ \A i \in DOMAIN upd' : upd'[i] = u \/ (i \in DOMAIN upd /\ upd'[i] = upd[i])
    BY <1>0, <1>3, Pushed
  <2> QED
    BY <1>0, <1>3, <2>1 DEF UpdatersOK
<1>4. ASSUME upd # <<>>, upd' = Front(upd), begun' \in 0..MaxBegun
      PROVE UpdatersOK'
  <2>1. upd' \in Seq(Update) /\ \A i \in DOMAIN upd' : i \in DOMAIN upd /\ upd'[i] = upd[i]
    BY <1>0, <1>4, Popped
  <2> QED
    BY <1>0, <1>4, <2>1 DEF UpdatersOK
<1>5. CASE Windows
  <2>1. begun' \in 0..MaxBegun
    <3>1. begun' = begun \/ (begun < MaxBegun /\ begun' = begun + 1)
      BY <1>5 DEF Windows, StartUpdate, LoadOther, Close, ShowBox, BoxGoes, Returns, Reload, LoadOwn, LoadChosen,
                  Destroy, TakeQuit, PumpTakesQuit
    <3> QED
      BY <1>0, <3>1, DefsAssumption DEF UpdatersOK
  <2>2. CASE StartUpdate
    <3> DEFINE u == [at |-> "fetch", ver |-> 1, pos |-> 0]
    <3>1. u \in Update /\ u.pos <= Full[u.ver]
      <4>1. 0 <= Full[1]
        BY <1>0, FullType
      <4> QED
        BY <1>0, <4>1, NewUpdater
    <3>2. upd' = Append(upd, u)
      BY <2>2 DEF StartUpdate
    <3> QED
      BY <1>3, <2>1, <3>1, <3>2
  <2>3. CASE Reload
    BY <1>4, <2>1, <2>3 DEF Reload
  <2>4. CASE Boxes
    BY <1>3, <1>4, <2>1, <2>4, BoxType DEF Boxes
  <2>5. CASE UNCHANGED upd
    BY <1>0, <2>1, <2>5 DEF UpdatersOK
  <2> QED
    BY <1>0, <1>5, <2>2, <2>3, <2>4, <2>5, WindowStack
<1>6. CASE UNCHANGED <<upd, begun>>
  BY <1>0, <1>6 DEF UpdatersOK
<1> QED
  BY <1>2, <1>5, <1>6, ThreadFrame DEF Next, Windows, vars

LEMMA WindowType == TypeOK /\ ClosedLoadsOwn /\ [Next]_vars => WindowOK' /\ ClosedLoadsOwn'
<1> SUFFICES ASSUME TypeOK, ClosedLoadsOwn, [Next]_vars PROVE WindowOK' /\ ClosedLoadsOwn'
  OBVIOUS
<1>0. WindowOK
  BY DEF TypeOK
<1>1. CASE LoadOther
  <2>1. win = "loop" /\ win' = "free" /\ from' \in {"own", "other", "bad"} /\ quit' = quit
    BY <1>1 DEF LoadOther
  <2> QED
    BY <1>0, <2>1 DEF WindowOK, ClosedLoadsOwn
<1>2. CASE Close \/ Reload \/ LoadOwn \/ Destroy \/ TakeQuit \/ PumpTakesQuit
  BY <1>0, <1>2 DEF Close, Reload, LoadOwn, Destroy, TakeQuit, PumpTakesQuit, WindowOK, ClosedLoadsOwn
<1>3. CASE LoadChosen
  <2>1. win = "free" /\ from # "own" /\ win' = "loop" /\ from' \in {from, "uncopied"} /\ quit' = quit
    BY <1>3 DEF LoadChosen
  <2> QED
    BY <1>0, <2>1 DEF WindowOK, ClosedLoadsOwn
<1>4. CASE UNCHANGED <<win, from, quit>>
  BY <1>0, <1>4 DEF WindowOK, ClosedLoadsOwn
<1> QED
  BY <1>1, <1>2, <1>3, <1>4, ThreadFrame, UpdaterFrame DEF Next, StartUpdate, ShowBox, BoxGoes, Returns, Window, vars

LEMMA TableType == TypeOK /\ [Next]_vars => TableOK'
<1> SUFFICES ASSUME TypeOK, [Next]_vars PROVE TableOK'
  OBVIOUS
<1> DEFINE Tables == [loaded : BOOLEAN, ver : Versions, path : {"own", "other"}, whole : BOOLEAN]
<1>0. tab \in Tables /\ file.ver \in Versions
  BY DEF TypeOK, TableOK, FileOK
<1>1. NoTab \in Tables
  BY DefsAssumption DEF NoTab
<1>2. \A v \in Versions : [loaded |-> TRUE, ver |-> v, path |-> "other", whole |-> TRUE] \in Tables
  OBVIOUS
<1>3. [loaded |-> TRUE, ver |-> file.ver, path |-> "own", whole |-> file.parts = 1..Full[file.ver]] \in Tables
  BY <1>0
<1>4. CASE LoadOwn \/ LoadChosen
  BY <1>0, <1>2, <1>3, <1>4 DEF LoadOwn, LoadChosen, TableOK
<1>5. CASE tab' \in {tab, NoTab}
  BY <1>0, <1>1, <1>5 DEF TableOK
<1> QED
  BY <1>4, <1>5, ThreadFrame, UpdaterFrame
     DEF Next, StartUpdate, LoadOther, Close, ShowBox, BoxGoes, Returns, Reload, Destroy, TakeQuit, PumpTakesQuit,
         Window, vars

LEMMA ThreadsType == TypeOK /\ [Next]_vars => ThreadsOK'
<1> SUFFICES ASSUME TypeOK, [Next]_vars PROVE ThreadsOK'
  OBVIOUS
<1>0. ThreadsOK
  BY DEF TypeOK
<1>a. MaxAge \in Nat
  BY DefsAssumption
<1>1. ASSUME NEW t \in Threads, Thread(t)
      PROVE ThreadsOK'
  <2>1. CASE TakeSlot(t)
    <3>1. pc[t] = "open" /\ pc' = [pc EXCEPT ![t] = "name"] /\ kept' = kept
      BY <2>1 DEF TakeSlot
    <3>2. age' = [u \in Threads |-> IF u \in Holders THEN age[u] + 1 ELSE 0]
          /\ \A u \in Holders : age[u] < MaxAge
      BY <2>1 DEF TakeSlot
    <3>3. \A u \in Threads : age'[u] \in 0..MaxAge
      BY <1>0, <1>a, <3>2 DEF ThreadsOK
    <3>4. age' \in [Threads -> 0..MaxAge]
      BY <3>2, <3>3
    <3> QED
      BY <1>0, <3>1, <3>4 DEF ThreadsOK
  <2>2. CASE ReadName(t)
    <3>1. pc[t] = "name" /\ pc' = [pc EXCEPT ![t] = "copy"] /\ age' = age
      BY <2>2 DEF ReadName
    <3>2. kept' \in [Threads -> BOOLEAN]
      BY <2>2 DEF ReadName
    <3>3. \A u \in Threads : kept'[u] => u = t \/ kept[u]
      BY <2>2 DEF ReadName
    <3>4. \A u \in Threads : kept'[u] => pc'[u] = "copy"
      BY <1>0, <3>1, <3>3 DEF ThreadsOK
    <3> QED
      BY <1>0, <3>1, <3>2, <3>4 DEF ThreadsOK
  <2>3. CASE CopyName(t)
    <3>1. age' \in [Threads -> 0..MaxAge]
      <4>1. age' = [age EXCEPT ![t] = 0] /\ 0 \in 0..MaxAge
        BY <1>a, <2>3 DEF CopyName
      <4> QED
        BY <1>0, <4>1 DEF ThreadsOK
    <3>2. pc' = [pc EXCEPT ![t] = "idle"] /\ kept' = [kept EXCEPT ![t] = FALSE]
      BY <2>3 DEF CopyName
    <3> QED
      BY <1>0, <3>1, <3>2 DEF ThreadsOK
  <2>4. CASE UNCHANGED <<age, kept>> /\ pc[t] # "copy"
             /\ \E x \in {"idle", "found", "open"} : pc' = [pc EXCEPT ![t] = x]
    BY <1>0, <2>4 DEF ThreadsOK
  <2> QED
    BY <1>1, <2>1, <2>2, <2>3, <2>4 DEF Thread, LookUp, OpenFile, NotConfirmed
<1>2. CASE UNCHANGED <<pc, age, kept>>
  BY <1>0, <1>2 DEF ThreadsOK
<1> QED
  BY <1>1, <1>2, UpdaterFrame, LooksFrame DEF Next, Windows, vars

LEMMA HistoryType == TypeOK /\ [Next]_vars => stale' \subseteq Threads /\ overlap' \in BOOLEAN
<1> SUFFICES ASSUME TypeOK, [Next]_vars PROVE stale' \subseteq Threads /\ overlap' \in BOOLEAN
  OBVIOUS
<1>0. stale \subseteq Threads /\ Opened \subseteq Threads /\ InTables \subseteq Threads
  BY DEF TypeOK, Opened, InTables
<1>1. stale' \subseteq Threads
  <2>1. \/ stale' \in {stale, stale \cup Opened, stale \cup InTables}
        \/ \E t : stale' = stale \ {t}
    BY DEF Next, Thread, LookUp, OpenFile, NotConfirmed, TakeSlot, ReadName, CopyName, Updater, UpdaterOpens,
           UpdaterWrites, UpdaterEnds, StartUpdate, LoadOther, Close, ShowBox, BoxGoes, Returns, Reload, LoadOwn,
           LoadChosen, Destroy, TakeQuit, PumpTakesQuit, vars
  <2> QED
    BY <1>0, <2>1
<1>2. overlap' \in BOOLEAN
  BY ThreadFrame, LooksFrame
     DEF TypeOK, Next, Updater, UpdaterOpens, UpdaterWrites, UpdaterEnds, Windows, vars
<1> QED
  BY <1>1, <1>2

LEMMA TypeStep == TypeOK /\ ClosedLoadsOwn /\ [Next]_vars => TypeOK' /\ ClosedLoadsOwn'
  BY FileType, UpdatersType, WindowType, TableType, ThreadsType, HistoryType DEF TypeOK

-----------------------------------------------------------------------------
(* The parts of the strengthening.                                         *)

LEMMA WrittenStep == TypeOK /\ WrittenInOrder /\ [Next]_vars => WrittenInOrder'
<1> SUFFICES ASSUME TypeOK, WrittenInOrder, [Next]_vars, ~overlap' PROVE WrittenInOrder'
  BY DEF WrittenInOrder
<1>0. UpdatersOK /\ FileOK /\ 1 \in Versions /\ \A i \in DOMAIN upd : upd[i] \in Update
  BY DefsAssumption DEF TypeOK, UpdatersOK
<1>a. ~overlap
  BY ThreadFrame, LooksFrame DEF Next, Updater, UpdaterOpens, UpdaterWrites, UpdaterEnds, Windows, vars
<1>b. /\ \E n \in 0..Full[file.ver] : file.parts = 1..n
      /\ \A i \in DOMAIN upd : upd[i].at = "write" => upd[i].ver = file.ver /\ file.parts = 1..upd[i].pos
      /\ \A i, j \in DOMAIN upd : upd[i].at = "write" /\ upd[j].at = "write" => i = j
  BY <1>a DEF WrittenInOrder
<1>1. ASSUME NEW i \in DOMAIN upd, UpdaterOpens(i)
      PROVE WrittenInOrder'
  <2>1. PICK v \in Versions : /\ upd' = [upd EXCEPT ![i] = [at |-> "write", ver |-> v, pos |-> 0]]
                              /\ file' = [ver |-> v, parts |-> {}]
    BY <1>1 DEF UpdaterOpens
  <2>2. /\ upd'[i] = [at |-> "write", ver |-> v, pos |-> 0] /\ DOMAIN upd' = DOMAIN upd
        /\ \A j \in DOMAIN upd \ {i} : upd'[j] = upd[j]
    BY <1>0, <2>1, NewUpdater, Replaced
  <2>3. \A j \in DOMAIN upd : upd[j].at # "write"
    BY <1>1 DEF UpdaterOpens, Writing
  <2>4. 1..0 = {} /\ 0 \in 0..Full[v]
    BY FullType
  <2> QED
    BY <2>1, <2>2, <2>3, <2>4 DEF WrittenInOrder
<1>2. ASSUME NEW i \in DOMAIN upd, UpdaterWrites(i)
      PROVE WrittenInOrder'
  <2>1. PICK u \in Update : /\ upd' = [upd EXCEPT ![i] = u] /\ u.at = "write" /\ u.ver = upd[i].ver
                            /\ u.pos = upd[i].pos + 1 /\ u.pos <= Full[u.ver]
    BY <1>0, <1>2, WriteType
  <2>2. upd'[i] = u /\ DOMAIN upd' = DOMAIN upd /\ \A j \in DOMAIN upd \ {i} : upd'[j] = upd[j]
    BY <1>0, <2>1, Replaced
  <2>3. upd[i].at = "write" /\ file' = [ver |-> upd[i].ver, parts |-> file.parts \cup {upd[i].pos + 1}]
    BY <1>2 DEF UpdaterWrites
  <2>4. file.parts = 1..upd[i].pos
    BY <1>b, <2>3
  <2>5. upd[i].pos \in Nat /\ u.pos \in Nat
    BY <1>0 DEF Update
  <2>6. file'.parts = 1..u.pos /\ file'.ver = u.ver
    BY <2>1, <2>3, <2>4, <2>5
  <2>7. u.pos \in 0..Full[file'.ver]
    <3>1. u.ver \in Versions
      BY DEF Update
    <3> QED
      BY <2>1, <2>5, <2>6, <3>1, FullType
  <2> QED
    BY <1>b, <2>1, <2>2, <2>3, <2>6, <2>7 DEF WrittenInOrder
<1>3. ASSUME NEW i \in DOMAIN upd, UpdaterEnds(i)
      PROVE WrittenInOrder'
  <2>1. upd' = [upd EXCEPT ![i] = [at |-> "ended", ver |-> 1, pos |-> 0]] /\ file' = file
    BY <1>3 DEF UpdaterEnds
  <2>2. /\ upd'[i] = [at |-> "ended", ver |-> 1, pos |-> 0] /\ DOMAIN upd' = DOMAIN upd
        /\ \A j \in DOMAIN upd \ {i} : upd'[j] = upd[j]
    BY <1>0, <2>1, NewUpdater, Replaced
  <2> QED
    BY <1>b, <2>1, <2>2 DEF WrittenInOrder
<1>4. CASE Windows /\ UNCHANGED file
  <2>1. \A i \in DOMAIN upd' : upd'[i].at = "write" => i \in DOMAIN upd /\ upd'[i] = upd[i]
    <3>1. ASSUME NEW u \in Update, u.at # "write", upd' = Append(upd, u)
          PROVE  \A i \in DOMAIN upd' : upd'[i].at = "write" => i \in DOMAIN upd /\ upd'[i] = upd[i]
      BY <1>0, <3>1, Pushed
    <3>2. ASSUME upd # <<>>, upd' = Front(upd)
          PROVE  \A i \in DOMAIN upd' : upd'[i].at = "write" => i \in DOMAIN upd /\ upd'[i] = upd[i]
      BY <1>0, <3>2, Popped
    <3>3. CASE StartUpdate
      BY <1>0, <3>1, <3>3, NewUpdater DEF StartUpdate
    <3>4. CASE Reload
      BY <3>2, <3>4 DEF Reload
    <3>5. CASE Boxes
      BY <3>1, <3>2, <3>5, BoxType DEF Boxes
    <3>6. CASE UNCHANGED upd
      BY <3>6
    <3> QED
      BY <1>0, <1>4, <3>3, <3>4, <3>5, <3>6, WindowStack
  <2> QED
    BY <1>b, <1>4, <2>1 DEF WrittenInOrder
<1>5. CASE LoadChosen /\ file' # file
  <2>1. PICK v \in Versions : file' = [ver |-> v, parts |-> 1..Full[v]]
    BY <1>5 DEF LoadChosen
  <2>2. Boxes /\ ~Writing
    BY <1>5 DEF LoadChosen, Boxes
  <2>3. ~Writing'
    BY <1>0, <2>2, BoxesOnly
  <2>4. Full[v] \in 0..Full[v]
    BY FullType
  <2> QED
    BY <2>1, <2>3, <2>4 DEF Writing, WrittenInOrder
<1>6. CASE UNCHANGED <<file, upd>>
  BY <1>b, <1>6 DEF WrittenInOrder
<1>7. ASSUME Windows PROVE UNCHANGED file \/ (LoadChosen /\ file' # file)
  BY <1>7 DEF Windows, StartUpdate, LoadOther, Close, ShowBox, BoxGoes, Returns, Reload, LoadOwn, Destroy, TakeQuit,
              PumpTakesQuit
<1> QED
  BY <1>1, <1>2, <1>3, <1>4, <1>5, <1>6, <1>7, ThreadFrame DEF Next, Updater, Windows, vars

LEMMA LengthOf ==
  ASSUME NEW n \in Nat, NEW f, f.parts = 1..n
  PROVE  Length(f) = n
<1>1. CASE n = 0
  BY <1>1 DEF Length
<1>2. CASE n # 0
  <2>1. n \in f.parts /\ f.parts # {} /\ \A m \in f.parts : m <= n
    BY <1>2
  <2>2. ASSUME NEW k \in f.parts, \A m \in f.parts : m <= k
        PROVE  k = n
    <3>1. k \in Nat /\ k <= n /\ n <= k
      BY <2>1, <2>2
    <3> QED
      BY <3>1
  <2> QED
    BY <2>1, <2>2 DEF Length
<1> QED
  BY <1>1, <1>2

\* What is loaded from the file while it was written by one updater is all of it.
LEMMA LoadableIsWhole ==
  ASSUME TypeOK, WrittenInOrder, ~overlap, Loadable(file)
  PROVE  file.parts = 1..Full[file.ver]
<1>1. PICK n \in 0..Full[file.ver] : file.parts = 1..n
  BY DEF WrittenInOrder
<1>2. Length(file) = n
  BY <1>1, LengthOf
<1> QED
  BY <1>1, <1>2 DEF Loadable

LEMMA InStepStep ==
  TypeOK /\ WrittenInOrder /\ InStep /\ [Next]_vars => InStep'
<1> SUFFICES ASSUME TypeOK, WrittenInOrder, InStep, [Next]_vars PROVE InStep'
  OBVIOUS
<1>0. overlap => overlap'
  BY ThreadFrame, LooksFrame DEF Next, Updater, UpdaterOpens, UpdaterWrites, UpdaterEnds, Windows, vars
<1>a. UpdatersOK
  BY DEF TypeOK
<1>1. CASE LoadOwn
  <2>1. CASE Loadable(file)
    <3>1. tab' = [loaded |-> TRUE, ver |-> file.ver, path |-> "own", whole |-> file.parts = 1..Full[file.ver]]
          /\ file' = file
      BY <1>1, <2>1 DEF LoadOwn
    <3>2. tab'.loaded /\ tab'.ver = file'.ver /\ tab'.whole = (file.parts = 1..Full[file.ver])
      BY <3>1
    <3>3. tab'.whole \/ overlap'
      BY <1>0, <2>1, <3>2, LoadableIsWhole
    <3> QED
      BY <3>2, <3>3 DEF InStep
  <2>2. CASE ~Loadable(file)
    <3>1. UNCHANGED <<file, tab, overlap>> /\ (Boxes \/ UNCHANGED upd)
      BY <1>1, <2>2 DEF LoadOwn, Tell, Boxes
    <3>2. Writing' <=> Writing
      BY <1>a, <3>1, BoxesOnly DEF Writing
    <3>3. ~Loadable(file)'
      BY <2>2, <3>1, <3>2 DEF Loadable, Length
    <3> QED
      BY <3>1, <3>3 DEF InStep
  <2> QED
    BY <2>1, <2>2
<1>2. CASE LoadChosen
  <2>1. CASE from = "bad" /\ UNCHANGED <<tab, file, from, overlap>>
    BY <2>1 DEF InStep
  <2>2. ASSUME NEW v \in Versions,
               tab' = [loaded |-> TRUE, ver |-> v, path |-> "other", whole |-> TRUE],
               \/ file' = [ver |-> v, parts |-> 1..Full[v]]
               \/ from' = "uncopied"
        PROVE InStep'
    BY <2>2 DEF InStep
  <2> QED
    BY <1>2, <2>1, <2>2 DEF LoadChosen, Looks
<1>3. ASSUME NEW i \in DOMAIN upd, Updater(i)
      PROVE InStep'
  <2>1. tab' = tab
    BY <1>3, UpdaterFrame
  <2>2. Updating'
    <3>1. /\ upd'[i].at # "box" /\ DOMAIN upd' = DOMAIN upd
      <4>1. CASE UpdaterOpens(i)
        <5>1. PICK v \in Versions : upd' = [upd EXCEPT ![i] = [at |-> "write", ver |-> v, pos |-> 0]]
          BY <4>1 DEF UpdaterOpens
        <5> QED
          BY <1>a, <5>1, NewUpdater, Replaced
      <4>2. CASE UpdaterWrites(i)
        <5>1. FileOK
          BY DEF TypeOK
        <5>2. PICK u \in Update : upd' = [upd EXCEPT ![i] = u] /\ u.at = "write"
          BY <1>a, <4>2, <5>1, WriteType
        <5> QED
          BY <1>a, <5>2, Replaced
      <4>3. CASE UpdaterEnds(i)
        <5>1. upd' = [upd EXCEPT ![i] = [at |-> "ended", ver |-> 1, pos |-> 0]] /\ 1 \in Versions
          BY <4>3, DefsAssumption DEF UpdaterEnds
        <5> QED
          BY <1>a, <5>1, NewUpdater, Replaced
      <4> QED
        BY <1>3, <4>1, <4>2, <4>3 DEF Updater
    <3> QED
      BY <3>1 DEF Updating
  <2> QED
    BY <1>0, <2>1, <2>2 DEF InStep
<1>4. CASE StartUpdate
  <2> DEFINE u == [at |-> "fetch", ver |-> 1, pos |-> 0]
  <2>1. u \in Update /\ upd' = Append(upd, u)
    BY <1>4, NewUpdater, DefsAssumption DEF StartUpdate
  <2>2. \E i \in DOMAIN upd' : upd'[i] = u
    BY <1>a, <2>1, Pushed
  <2>3. Updating'
    BY <2>2 DEF Updating
  <2> QED
    BY <1>0, <1>4, <2>3 DEF StartUpdate, Window, InStep
<1>5. CASE LoadOther \/ Reload \/ Destroy
  <2>1. tab' = NoTab /\ win' \in {"free", "gone"}
    BY <1>5 DEF LoadOther, Reload, Destroy
  <2> QED
    BY <2>1 DEF NoTab, InStep
<1>6. CASE Close
  <2>1. tab' = tab /\ win' = "wait"
    BY <1>6 DEF Close
  <2> QED
    BY <1>0, <2>1 DEF InStep
<1>7. CASE ShowBox \/ BoxGoes
  <2>1. UNCHANGED <<file, win, from, tab>> /\ Boxes
    BY <1>7 DEF ShowBox, BoxGoes, Window, Boxes
  <2>2. (Updating' <=> Updating) /\ (Writing' <=> Writing)
    BY <1>a, <2>1, BoxesOnly
  <2>3. Loadable(file)' <=> Loadable(file)
    BY <2>1, <2>2 DEF Loadable, Length
  <2> QED
    BY <1>0, <2>1, <2>2, <2>3 DEF InStep
<1>8. CASE UNCHANGED <<file, upd, win, from, tab>>
  <2>1. (Loadable(file)' <=> Loadable(file)) /\ (Updating' <=> Updating)
    BY <1>8 DEF Loadable, Writing, Length, Updating
  <2> QED
    BY <1>0, <1>8, <2>1 DEF InStep
<1> QED
  BY <1>1, <1>2, <1>3, <1>4, <1>5, <1>6, <1>7, <1>8, ThreadFrame DEF Next, Returns, TakeQuit, PumpTakesQuit, vars

\* A look-up that is not stale has its tables, and the file it opened is as long as
\* they say.
LEMMA StillStep ==
  TypeOK /\ StillLoaded /\ StillAsLong /\ [Next]_vars => StillLoaded' /\ StillAsLong'
<1> SUFFICES ASSUME TypeOK, StillLoaded, StillAsLong, [Next]_vars PROVE StillLoaded' /\ StillAsLong'
  OBVIOUS
<1>0. pc \in [Threads -> {"idle", "found", "open", "name", "copy"}] /\ Opened \subseteq InTables
  BY DEF TypeOK, ThreadsOK, Opened, InTables
<1>1. ASSUME NEW t \in Threads, Thread(t)
      PROVE StillLoaded' /\ StillAsLong'
  <2>1. UNCHANGED <<file, win, tab>>
    BY <1>1, ThreadFrame
  <2>2. Length(file)' = Length(file)
    BY <2>1 DEF Length
  <2>3. CASE LookUp(t)
    <3>1. tab.loaded /\ pc[t] = "idle" /\ pc' = [pc EXCEPT ![t] = "found"] /\ stale' = stale
      BY <2>3 DEF LookUp
    <3>2. Opened' = Opened
      BY <1>0, <3>1 DEF Opened
    <3> QED
      BY <2>1, <2>2, <3>1, <3>2 DEF StillLoaded, StillAsLong
  <2>4. CASE OpenFile(t)
    <3>1. pc[t] = "found" /\ pc' = [pc EXCEPT ![t] = "open"] /\ stale' = stale /\ Confirmable
      BY <2>4 DEF OpenFile
    <3>2. InTables' = InTables /\ Opened' = Opened \cup {t} /\ t \in InTables
      BY <1>0, <3>1 DEF Opened, InTables
    <3>3. StillLoaded'
      BY <2>1, <3>1, <3>2 DEF StillLoaded
    <3>4. StillAsLong'
      BY <2>1, <2>2, <3>1, <3>2 DEF StillLoaded, StillAsLong, Confirmable
    <3> QED
      BY <3>3, <3>4
  <2>5. CASE NotConfirmed(t) \/ ReadName(t)
    <3>1. (\E x \in {"idle", "copy"} : pc' = [pc EXCEPT ![t] = x]) /\ stale' = stale \ {t}
      BY <2>5 DEF NotConfirmed, ReadName
    <3>2. InTables' \subseteq InTables \ {t} /\ Opened' \subseteq Opened \ {t}
      BY <1>0, <3>1 DEF Opened, InTables
    <3> QED
      BY <2>1, <2>2, <3>1, <3>2 DEF StillLoaded, StillAsLong
  <2>6. CASE TakeSlot(t) \/ CopyName(t)
    <3>1. /\ stale' = stale
          /\ \/ pc[t] = "open" /\ pc' = [pc EXCEPT ![t] = "name"]
             \/ pc[t] = "copy" /\ pc' = [pc EXCEPT ![t] = "idle"]
      BY <2>6 DEF TakeSlot, CopyName
    <3>2. InTables' = InTables /\ Opened' = Opened
      BY <1>0, <3>1 DEF Opened, InTables
    <3> QED
      BY <2>1, <2>2, <3>1, <3>2 DEF StillLoaded, StillAsLong
  <2> QED
    BY <1>1, <2>3, <2>4, <2>5, <2>6 DEF Thread
<1>2. ASSUME NEW i \in DOMAIN upd, Updater(i)
      PROVE StillLoaded' /\ StillAsLong'
  <2>1. UNCHANGED <<win, tab, pc>>
    BY <1>2, UpdaterFrame
  <2>2. InTables' = InTables /\ Opened' = Opened
    BY <2>1 DEF InTables, Opened
  <2>3. stale' = stale \cup Opened \/ (stale' = stale /\ file' = file)
    BY <1>2 DEF Updater, UpdaterOpens, UpdaterWrites, UpdaterEnds
  <2>4. StillLoaded'
    BY <2>1, <2>2, <2>3 DEF StillLoaded
  <2>5. StillAsLong'
    BY <2>1, <2>2, <2>3 DEF StillAsLong, Length
  <2> QED
    BY <2>4, <2>5
<1>3. CASE Reload \/ LoadOther \/ Destroy
  <2>1. stale' = stale \cup InTables /\ pc' = pc /\ tab' = NoTab
    BY <1>3 DEF Reload, LoadOther, Destroy, Looks
  <2>2. InTables' \ stale' = {} /\ Opened' \ stale' = {}
    BY <1>0, <2>1 DEF InTables, Opened
  <2> QED
    BY <2>1, <2>2 DEF StillLoaded, StillAsLong, NoTab
<1>4. CASE LoadOwn \/ LoadChosen
  <2>1. win = "free" /\ win' # "free" /\ pc' = pc /\ stale \subseteq stale'
    BY <1>4 DEF LoadOwn, LoadChosen, Looks
  <2>2. InTables' \ stale' = {} /\ Opened' \ stale' = {}
    <3>1. InTables \ stale = {}
      BY <2>1 DEF StillLoaded
    <3>2. InTables' = InTables /\ Opened' = Opened
      BY <2>1 DEF InTables, Opened
    <3> QED
      BY <1>0, <2>1, <3>1, <3>2
  <2> QED
    BY <2>1, <2>2 DEF StillLoaded, StillAsLong
<1>5. CASE UNCHANGED <<file, tab, pc, stale>> /\ (win' = "free" => win = "free")
  <2>1. InTables' = InTables /\ Opened' = Opened /\ Length(file)' = Length(file)
    BY <1>5 DEF InTables, Opened, Length
  <2> QED
    BY <1>5, <2>1 DEF StillLoaded, StillAsLong
<1> QED
  BY <1>1, <1>2, <1>3, <1>4, <1>5
     DEF Next, StartUpdate, Close, ShowBox, BoxGoes, Returns, TakeQuit, PumpTakesQuit, Window, Looks, vars

LEMMA BuffersStep == TypeOK /\ BuffersDiffer /\ [Next]_vars => BuffersDiffer'
<1> SUFFICES ASSUME TypeOK, BuffersDiffer, [Next]_vars PROVE BuffersDiffer'
  OBVIOUS
<1>0. ThreadsOK
  BY DEF TypeOK
<1>1. ASSUME NEW t \in Threads, Thread(t)
      PROVE BuffersDiffer'
  <2>1. CASE TakeSlot(t)
    <3>1. pc[t] = "open" /\ pc' = [pc EXCEPT ![t] = "name"]
          /\ age' = [u \in Threads |-> IF u \in Holders THEN age[u] + 1 ELSE 0]
      BY <2>1 DEF TakeSlot
    <3>2. Holders' = Holders \cup {t} /\ t \notin Holders /\ Holders \subseteq Threads
      BY <1>0, <3>1 DEF Holders, ThreadsOK
    <3>3. age'[t] = 0 /\ \A u \in Holders : age'[u] = age[u] + 1 /\ age[u] \in Nat
      BY <1>0, <3>1, <3>2 DEF ThreadsOK
    <3>4. \A u, w \in Holders : age'[u] = age'[w] => u = w
      BY <3>3 DEF BuffersDiffer
    <3>5. \A u \in Holders : age'[u] # age'[t]
      BY <3>3
    <3> QED
      BY <3>2, <3>4, <3>5 DEF BuffersDiffer
  <2>2. CASE CopyName(t)
    <3>1. pc' = [pc EXCEPT ![t] = "idle"] /\ age' = [age EXCEPT ![t] = 0]
      BY <2>2 DEF CopyName
    <3>2. Holders' \subseteq Holders \ {t} /\ Holders \subseteq Threads
      BY <1>0, <3>1 DEF Holders, ThreadsOK
    <3>3. \A u \in Holders \ {t} : age'[u] = age[u]
      BY <1>0, <3>1, <3>2 DEF ThreadsOK
    <3> QED
      BY <3>2, <3>3 DEF BuffersDiffer
  <2>3. CASE UNCHANGED age /\ \/ ReadName(t)
                              \/ \E x \in {"idle", "found", "open"} : pc' = [pc EXCEPT ![t] = x]
    <3>1. Holders' \subseteq Holders
      BY <1>0, <2>3 DEF ReadName, Holders, ThreadsOK
    <3> QED
      BY <2>3, <3>1 DEF BuffersDiffer
  <2> QED
    BY <1>1, <2>1, <2>2, <2>3 DEF Thread, LookUp, OpenFile, NotConfirmed, ReadName
<1>2. CASE UNCHANGED <<pc, age>>
  BY <1>2 DEF BuffersDiffer, Holders
<1> QED
  BY <1>1, <1>2, UpdaterFrame, LooksFrame DEF Next, Windows, vars

-----------------------------------------------------------------------------
(* The theorems.                                                           *)

LEMMA InitIndInv == Init => IndInv
<1> SUFFICES ASSUME Init PROVE IndInv
  OBVIOUS
<1>0. 1 \in Versions /\ Full[1] \in Nat \ {0} /\ MaxBegun \in Nat /\ MaxAge \in Nat
  BY DefsAssumption
<1>1. PICK n \in {0, Full[1]} : file = [ver |-> 1, parts |-> 1..n]
  <2>1. 1..0 = {}
    OBVIOUS
  <2> QED
    BY <2>1 DEF Init
<1>2. FileOK
  <2>1. 1..n \subseteq UNION {1..Full[v] : v \in Versions}
    BY <1>0, <1>1
  <2> QED
    BY <1>0, <1>1, <2>1 DEF FileOK
<1>3. UpdatersOK
  <2>1. upd = <<>> /\ begun = 0
    BY DEF Init
  <2>2. <<>> \in Seq(Update) /\ Len(<<>>) = 0
    BY EmptySeq
  <2> QED
    BY <1>0, <2>1, <2>2 DEF UpdatersOK
<1>4. WindowOK /\ ClosedLoadsOwn
  BY <1>0 DEF Init, WindowOK, ClosedLoadsOwn
<1>5. NoTab \in [loaded : BOOLEAN, ver : Versions, path : {"own", "other"}, whole : BOOLEAN]
  BY <1>0 DEF NoTab
<1>6. TableOK
  BY <1>5 DEF Init, TableOK
<1>7. ThreadsOK
  <2>1. 0 \in 0..MaxAge
    BY <1>0
  <2> QED
    BY <2>1 DEF Init, ThreadsOK
<1>8. WrittenInOrder
  BY <1>0, <1>1 DEF Init, WrittenInOrder
<1>9. BuffersDiffer /\ StillLoaded /\ StillAsLong
  BY DEF Init, BuffersDiffer, StillLoaded, StillAsLong, Holders, InTables, Opened
<1>10. InStep
  <2>1. tab = (IF file.parts = {} THEN NoTab ELSE [NoTab EXCEPT !.loaded = TRUE])
    BY DEF Init
  <2>2. tab.whole /\ tab.ver = 1 /\ (file.parts # {} => tab.loaded)
    BY <2>1 DEF NoTab
  <2> QED
    BY <1>1, <2>2 DEF InStep, Loadable
<1> QED
  BY <1>2, <1>3, <1>4, <1>6, <1>7, <1>8, <1>9, <1>10 DEF Init, IndInv, TypeOK

LEMMA StepIndInv == IndInv /\ [Next]_vars => IndInv'
  BY TypeStep, WrittenStep, StillStep, BuffersStep, InStepStep DEF IndInv

\* The window, its nested updates, the updaters that write the file in place and the
\* threads that look up in it keep the inductive invariant in every interleaving.
THEOREM Inductive == Spec => []IndInv
  BY InitIndInv, StepIndInv, PTL DEF Spec

\* No variable leaves its range (TypeOK names what else it says).
THEOREM TypeCorrect == Spec => []TypeOK
<1>1. IndInv => TypeOK
  BY DEF IndInv
<1> QED
  BY <1>1, Inductive, PTL

\* What is loaded is whole, and after the last update it is what is on disk
\* (sigdb_load, cvd_compile, do_reload_defs).
THEOREM LoadedInStep == Spec => []InStep
<1>1. IndInv => InStep
  BY DEF IndInv
<1> QED
  BY <1>1, Inductive, PTL

\* A name is read out of the database its key was found in, or another just as long,
\* unless the tables were freed or the file was written under the look-up (open_db,
\* read_name).
THEOREM ReadAsLoaded == Spec => NamedAsLoaded
<1>1. ASSUME IndInv, [Next]_vars, NEW t \in Threads, pc[t] = "name", pc'[t] = "copy",
             tab.path = "own", t \notin stale, ~overlap
      PROVE  \/ file = [ver |-> tab.ver, parts |-> 1..Full[tab.ver]]
             \/ file.ver # tab.ver /\ Length(file) = Full[tab.ver]
  <2>1. Length(file) = Full[tab.ver]
    BY <1>1 DEF IndInv, StillAsLong, Opened
  <2>2. PICK n \in 0..Full[file.ver] : file.parts = 1..n
    BY <1>1 DEF IndInv, WrittenInOrder
  <2>3. Length(file) = n
    BY <2>2, LengthOf
  <2>4. file = [ver |-> file.ver, parts |-> file.parts]
    BY <1>1 DEF IndInv, TypeOK, FileOK
  <2> QED
    BY <2>1, <2>2, <2>3, <2>4
<1>2. IndInv /\ [Next]_vars =>
        [\A t \in Threads :
           pc[t] = "name" /\ pc'[t] = "copy" /\ tab.path = "own" /\ t \notin stale /\ ~overlap
             => \/ file = [ver |-> tab.ver, parts |-> 1..Full[tab.ver]]
                \/ file.ver # tab.ver /\ Length(file) = Full[tab.ver]]_vars
  BY <1>1
<1> QED
  BY <1>2, Inductive, PTL DEF Spec, NamedAsLoaded

LEMMA InRing == ASSUME NEW a \in Nat, a < Slots PROVE a % Slots = a
  BY DefsAssumption

\* read_name gives a buffer away only when as many were handed out since as there are.
THEOREM NamesAreKept == Spec => NamesKept
<1>1. ASSUME IndInv, [Next]_vars, NEW t \in Threads, kept[t], pc'[t] = "copy", ~kept'[t]
      PROVE  \E u \in Holders : age[u] >= Slots
  <2>0. ThreadsOK /\ Slots \in Nat
    BY <1>1, DefsAssumption DEF IndInv, TypeOK
  <2>1. PICK u \in Threads : ReadName(u)
    <3>1. PICK u \in Threads : Thread(u)
      BY <1>1, UpdaterFrame, LooksFrame DEF Next, Windows, vars
    <3>2. ~CopyName(u)
      BY <1>1, <2>0 DEF CopyName, ThreadsOK
    <3> QED
      BY <1>1, <3>1, <3>2 DEF Thread, LookUp, OpenFile, NotConfirmed, TakeSlot
  <2>2. u # t /\ age[u] % Slots = age[t] % Slots
    BY <1>1, <2>1 DEF ReadName
  <2>3. t \in Holders /\ u \in Holders
    BY <1>1, <2>0, <2>1 DEF ThreadsOK, Holders, ReadName
  <2>4. age[u] # age[t] /\ age[u] \in Nat /\ age[t] \in Nat
    BY <1>1, <2>0, <2>2, <2>3 DEF IndInv, BuffersDiffer, ThreadsOK
  <2>5. ~(age[u] < Slots /\ age[t] < Slots)
    BY <2>2, <2>4, InRing
  <2> QED
    BY <2>0, <2>3, <2>4, <2>5
<1>2. IndInv /\ [Next]_vars =>
        [\A t \in Threads :
           kept[t] /\ pc'[t] = "copy" /\ ~kept'[t] => \E u \in Holders : age[u] >= Slots]_vars
  BY <1>1
<1> QED
  BY <1>2, Inductive, PTL DEF Spec, NamesKept
=============================================================================
