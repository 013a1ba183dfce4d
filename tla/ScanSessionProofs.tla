------------------------- MODULE ScanSessionProofs -------------------------
(***************************************************************************)
(* Theorems about a scan and its window, for any number of files, scans,   *)
(* boxes and messages.  IndInv (module ScanSession) is inductive; the      *)
(* properties are parts of it or follow from it.                     *)
(***************************************************************************)
EXTENDS ScanSession, SequenceTheorems, TLAPS

USE DEF screen, work, told

-----------------------------------------------------------------------------
(* Sequences: a message posted and taken, a box put up and gone.           *)

LEMMA PushedSeq ==
  ASSUME NEW S, NEW q \in Seq(S), NEW x \in S
  PROVE  /\ Append(q, x) \in Seq(S) /\ Len(Append(q, x)) = Len(q) + 1
         /\ Append(q, x)[Len(q) + 1] = x /\ DOMAIN Append(q, x) = DOMAIN q \cup {Len(q) + 1}
         /\ \A i \in DOMAIN q : i # Len(q) + 1 /\ Append(q, x)[i] = q[i]
  OBVIOUS

LEMMA PoppedSeq ==
  ASSUME NEW S, NEW q \in Seq(S), q # <<>>
  PROVE  /\ Front(q) \in Seq(S) /\ Len(Front(q)) = Len(q) - 1
         /\ Len(q) \in DOMAIN q /\ Last(q) = q[Len(q)] /\ DOMAIN Front(q) = DOMAIN q \ {Len(q)}
         /\ \A i \in DOMAIN Front(q) : Front(q)[i] = q[i]
<1> DEFINE l == Len(q) - 1
<1>1. Len(q) \in Nat \ {0} /\ \A i \in 1..Len(q) : q[i] \in S
  BY EmptySeq, ElementOfSeq
<1>2. 1 \in Int /\ l \in Int /\ \A i \in 1..l : q[i] \in S
  BY <1>1
<1>3. /\ SubSeq(q, 1, l) \in Seq(S) /\ Len(SubSeq(q, 1, l)) = IF 1 <= l THEN l - 1 + 1 ELSE 0
      /\ \A i \in 1..(l - 1 + 1) : SubSeq(q, 1, l)[i] = q[1 + i - 1]
  BY <1>2, SubSeqProperties
<1>4. (IF 1 <= l THEN l - 1 + 1 ELSE 0) = l /\ 1..(l - 1 + 1) = 1..l
  <2>1. \A n \in Nat \ {0} : (IF 1 <= n - 1 THEN n - 1 - 1 + 1 ELSE 0) = n - 1 /\ n - 1 - 1 + 1 = n - 1
    OBVIOUS
  <2> QED
    BY <1>1, <2>1
<1>5. \A i \in 1..l : 1 + i - 1 = i
  OBVIOUS
<1>6. /\ SubSeq(q, 1, l) \in Seq(S) /\ Len(SubSeq(q, 1, l)) = l
      /\ \A i \in 1..l : SubSeq(q, 1, l)[i] = q[i]
  BY <1>3, <1>4, <1>5
<1>7. DOMAIN q = 1..Len(q) /\ DOMAIN SubSeq(q, 1, l) = 1..l
  BY <1>6
<1>8. 1..l = (1..Len(q)) \ {Len(q)} /\ Len(q) \in 1..Len(q)
  BY <1>1
<1> QED
  BY <1>6, <1>7, <1>8 DEF Front, Last

LEMMA TakenSeq ==
  ASSUME NEW S, NEW q \in Seq(S), q # <<>>
  PROVE  /\ Tail(q) \in Seq(S) /\ Len(Tail(q)) = Len(q) - 1
         /\ 1 \in DOMAIN q /\ Head(q) = q[1] /\ Head(q) \in S
         /\ \A i \in DOMAIN Tail(q) : i + 1 \in DOMAIN q /\ Tail(q)[i] = q[i + 1]
         /\ \A i \in DOMAIN q : i = 1 \/ (i - 1 \in DOMAIN Tail(q) /\ Tail(q)[i - 1] = q[i])
<1>1. Len(q) \in Nat \ {0}
  BY EmptySeq
<1>2. /\ Head(q) \in S /\ Tail(q) \in Seq(S) /\ Len(Tail(q)) = Len(q) - 1
      /\ \A i \in 1..Len(Tail(q)) : Tail(q)[i] = q[i + 1]
  BY HeadTailProperties
<1>3. DOMAIN q = 1..Len(q) /\ DOMAIN Tail(q) = 1..(Len(q) - 1)
  BY <1>2
<1>4. \A i \in 1..(Len(q) - 1) : i + 1 \in 1..Len(q)
  BY <1>1
<1>5. \A i \in 1..Len(q) : i = 1 \/ (i - 1 \in 1..(Len(q) - 1) /\ (i - 1) + 1 = i)
  BY <1>1
<1>6. Head(q) = q[1] /\ 1 \in 1..Len(q)
  BY <1>1
<1> QED
  BY <1>2, <1>3, <1>4, <1>5, <1>6

-----------------------------------------------------------------------------
(* What the operations on the queue, the scans and the boxes do.           *)

LEMMA MessageTypes ==
  /\ \A p \in Files, a \in BOOLEAN : Hit(p, a) \in Messages
  /\ \A p \in Files : ShieldHit(p) \in Messages
  /\ Over \in Messages
  /\ \A m \in Messages : /\ m.type \in {"hit", "shield", "done"}
                         /\ m.type # "done" => m.path \in Files
<1>1. \A p \in Files, a \in BOOLEAN : Hit(p, a) \in Messages
  BY DEF Messages
<1>2. \A p \in Files : ShieldHit(p) \in Messages
  BY DEF Messages
<1>3. Over \in Messages
  BY DEF Messages
<1>4. ASSUME NEW m \in Messages
      PROVE  m.type \in {"hit", "shield", "done"} /\ (m.type # "done" => m.path \in Files)
  <2>1. CASE m = Over
    BY <2>1 DEF Over
  <2>2. ASSUME NEW p \in Files, m = ShieldHit(p)
        PROVE  m.type = "shield" /\ m.path \in Files
    BY <2>2 DEF ShieldHit
  <2>3. ASSUME NEW p \in Files, NEW a \in BOOLEAN, m = Hit(p, a)
        PROVE  m.type = "hit" /\ m.path \in Files
    BY <2>3 DEF Hit
  <2>4. \/ m = Over
        \/ \E p \in Files : m = ShieldHit(p)
        \/ \E p \in Files, a \in BOOLEAN : m = Hit(p, a)
    BY DEF Messages
  <2> QED
    BY <2>1, <2>2, <2>3, <2>4
<1> QED
  BY <1>1, <1>2, <1>3, <1>4

\* What is on its way, by its place in the queue.
LEMMA AwaitedIs ==
  \A p : p \in Awaited <=> \E i \in DOMAIN queue : queue[i].type = "hit" /\ queue[i].act /\ queue[i].path = p
  BY DEF Awaited

\* PostMessage: the message is last, or was refused.
LEMMA Posted ==
  ASSUME QueueOK, NEW m \in Messages, Post(m) \/ Report(m)
  PROVE  /\ queue' \in Seq(Messages) /\ Len(queue') <= QueueCap
         /\ lost' \in {lost, TRUE}
         /\ \A i \in DOMAIN queue : i \in DOMAIN queue' /\ queue'[i] = queue[i]
         /\ \A i \in DOMAIN queue' : i \in DOMAIN queue \/ (queue'[i] = m /\ \A j \in DOMAIN queue : j < i)
         /\ \A i, j \in DOMAIN queue' : j \notin DOMAIN queue => i <= j
         /\ lost' \/ (UNCHANGED lost /\ \E i \in DOMAIN queue' : queue'[i] = m)
<1>1. queue \in Seq(Messages) /\ Len(queue) \in Nat /\ Len(queue) <= QueueCap /\ DOMAIN queue = 1..Len(queue)
      /\ QueueCap \in Nat
  BY ScanAssumption DEF QueueOK
<1>2. CASE Len(queue) < QueueCap /\ Post(m)
  <2>1. queue' = Append(queue, m) /\ lost' = lost
    BY <1>2 DEF Post
  <2>2. /\ Append(queue, m) \in Seq(Messages) /\ Len(Append(queue, m)) = Len(queue) + 1
        /\ Append(queue, m)[Len(queue) + 1] = m /\ DOMAIN Append(queue, m) = DOMAIN queue \cup {Len(queue) + 1}
        /\ \A i \in DOMAIN queue : i # Len(queue) + 1 /\ Append(queue, m)[i] = queue[i]
    BY <1>1, PushedSeq
  <2>3. \A i \in DOMAIN queue : i < Len(queue) + 1
    BY <1>1
  <2>4. Len(queue) + 1 <= QueueCap
    BY <1>1, <1>2
  <2>5. \A i, j \in DOMAIN queue' : j \notin DOMAIN queue => i <= j
    BY <1>1, <2>1, <2>2, <2>3
  <2> QED
    BY <2>1, <2>2, <2>3, <2>4, <2>5
<1>3. CASE lost' = TRUE /\ UNCHANGED queue
  BY <1>1, <1>3
<1>4. \/ Len(queue) < QueueCap /\ Post(m)
      \/ lost' = TRUE /\ UNCHANGED queue
  BY Zenon DEF Report, Post
<1> QED
  BY <1>2, <1>3, <1>4

LEMMA Taken ==
  ASSUME QueueOK, NEW type, Received(type)
  PROVE  /\ queue' \in Seq(Messages) /\ Len(queue') <= QueueCap /\ Head(queue) \in Messages
         /\ 1 \in DOMAIN queue /\ Head(queue) = queue[1] /\ queue[1].type = type
         /\ \A i \in DOMAIN queue' : i + 1 \in DOMAIN queue /\ queue'[i] = queue[i + 1]
         /\ \A i \in DOMAIN queue : i = 1 \/ (i - 1 \in DOMAIN queue' /\ queue'[i - 1] = queue[i])
<1>1. queue \in Seq(Messages) /\ Len(queue) <= QueueCap /\ queue # <<>> /\ queue' = Tail(queue)
      /\ Head(queue).type = type /\ QueueCap \in Nat
  BY ScanAssumption DEF QueueOK, Received
<1>2. Len(queue) \in Nat
  BY <1>1
<1> QED
  BY <1>1, <1>2, TakenSeq

\* A thread's new record, and the others'.
LEMMA Turned ==
  ASSUME ScansOK, NEW s \in DOMAIN scan, NEW w \in Scan, scan' = [scan EXCEPT ![s] = w]
  PROVE  /\ scan' \in Seq(Scan) /\ Len(scan') = Len(scan) /\ DOMAIN scan' = DOMAIN scan
         /\ scan'[s] = w /\ \A r \in DOMAIN scan \ {s} : scan'[r] = scan[r]
<1>1. scan \in Seq(Scan)
  BY DEF ScansOK
<1> QED
  BY <1>1

\* The steps of a scan thread, by the record it gets.
Same(v, w) == w.hits = v.hits /\ w.acts = v.acts /\ w.todo = v.todo /\ w.due = v.due
ThreadRecord(s, w) ==
  LET v == scan[s] IN
  /\ v \in Scan /\ w \in Scan /\ scan' = [scan EXCEPT ![s] = w] /\ w.stop = v.stop /\ w.crossed = v.crossed
  /\ \/ Begin(s) /\ v.pc = "created" /\ w.pc = "counting" /\ Same(v, w)
     \/ /\ Enumerate(s) /\ v.pc = "counting" /\ w.pc = "walking"
        /\ w.hits = v.hits /\ w.acts = v.acts /\ w.due = v.due /\ (Starting \/ w.todo = job.target)
     \/ EndWalk(s) /\ v.pc = "walking" /\ w.pc = "ending" /\ Same(v, w)
     \/ PostDone(s) /\ v.pc = "ending" /\ w.pc = "over" /\ Same(v, w)
     \/ /\ v.pc = "walking" /\ w.pc = "walking" /\ w.todo \subseteq v.todo
        /\ \E f \in v.todo : /\ w.todo = v.todo \ {f}
                             /\ \/ w.due = v.due \ {f}
                                \/ w.due = v.due /\ (Starting \/ f \notin job.target)
        /\ UNCHANGED <<screen, handle, timer, boxes, vaulted, shielded, overlap, win, left>>
        /\ \/ w.hits = v.hits /\ w.acts = v.acts /\ UNCHANGED <<job, queue, lost>>
           \/ \E f \in Files, act \in BOOLEAN :
                /\ w.hits = v.hits \cup {f} /\ w.acts = IF act THEN v.acts \cup {f} ELSE v.acts
                /\ job' = [job EXCEPT !.found = @ + 1] /\ Report(Hit(f, act))

LEMMA ThreadRecords ==
  ASSUME ScansOK, NEW s \in DOMAIN scan, ThreadStep(s)
  PROVE  \E w : ThreadRecord(s, w)
<1> DEFINE v == scan[s]
<1>1. v \in Scan
  BY DEF ScansOK
<1>2. \A pc \in {"counting", "walking", "ending", "over"} :
        LET w == [v EXCEPT !.pc = pc] IN
        /\ w \in Scan /\ w.stop = v.stop /\ w.crossed = v.crossed /\ w.pc = pc /\ Same(v, w)
        /\ (Turn(s, pc) => scan' = [scan EXCEPT ![s] = w])
  BY <1>1 DEF Scan, Turn, Same
<1>3. CASE Begin(s)
  BY <1>1, <1>2, <1>3 DEF Begin, ThreadRecord
<1>4. CASE EndWalk(s)
  BY <1>1, <1>2, <1>4 DEF EndWalk, ThreadRecord
<1>5. CASE PostDone(s)
  BY <1>1, <1>2, <1>5 DEF PostDone, ThreadRecord
<1>6. CASE Enumerate(s)
  <2>1. PICK fs \in SUBSET Files : /\ Starting \/ fs = job.target
                                  /\ scan' = [scan EXCEPT ![s].pc = "walking", ![s].todo = fs]
    BY <1>6 DEF Enumerate
  <2> DEFINE w == [v EXCEPT !.pc = "walking", !.todo = fs]
  <2>2. w \in Scan /\ w.stop = v.stop /\ w.crossed = v.crossed /\ w.pc = "walking" /\ w.todo = fs
        /\ w.hits = v.hits /\ w.acts = v.acts /\ w.due = v.due
    BY <1>1 DEF Scan
  <2>3. scan' = [scan EXCEPT ![s] = w]
    BY <2>1
  <2>4. v.pc = "counting"
    BY <1>6 DEF Enumerate
  <2> QED
    BY <1>1, <1>6, <2>1, <2>2, <2>3, <2>4 DEF ThreadRecord
<1>7. ASSUME NEW f \in Files, PassOver(s, f)
      PROVE  \E w : ThreadRecord(s, w)
  <2> DEFINE w == [v EXCEPT !.todo = @ \ {f}]
  <2>1. w \in Scan /\ w.stop = v.stop /\ w.crossed = v.crossed /\ w.pc = v.pc /\ w.todo = v.todo \ {f}
        /\ w.hits = v.hits /\ w.acts = v.acts /\ w.due = v.due
    BY <1>1 DEF Scan
  <2>2. scan' = [scan EXCEPT ![s] = w]
    BY <1>7 DEF PassOver
  <2>3. /\ v.pc = "walking" /\ f \in v.todo /\ (Starting \/ f \notin job.target)
        /\ UNCHANGED <<screen, job, handle, timer, queue, boxes, told, win, left>>
    BY <1>7 DEF PassOver
  <2> HIDE DEF w
  <2>4. w.todo \subseteq v.todo
    BY <2>1
  <2> QED
    BY <1>1, <2>1, <2>2, <2>3, <2>4 DEF ThreadRecord
<1>8. ASSUME NEW f \in Files, Visit(s, f)
      PROVE  \E w : ThreadRecord(s, w)
  <2>0. /\ v.pc = "walking" /\ f \in v.todo
        /\ UNCHANGED <<screen, handle, timer, boxes, vaulted, shielded, overlap, win, left>>
    BY <1>8 DEF Visit
  <2>1. CASE scan' = [scan EXCEPT ![s].todo = @ \ {f}, ![s].due = @ \ {f}] /\ UNCHANGED <<job, queue, lost>>
    <3> DEFINE w == [v EXCEPT !.todo = @ \ {f}, !.due = @ \ {f}]
    <3>1. w \in Scan /\ w.stop = v.stop /\ w.crossed = v.crossed /\ w.pc = v.pc /\ w.hits = v.hits
          /\ w.acts = v.acts /\ w.todo = v.todo \ {f} /\ w.due = v.due \ {f}
      BY <1>1 DEF Scan
    <3>2. scan' = [scan EXCEPT ![s] = w]
      BY <2>1
    <3> HIDE DEF w
    <3>3. w.todo \subseteq v.todo
      BY <3>1
    <3> QED
      BY <1>1, <2>0, <2>1, <3>1, <3>2, <3>3 DEF ThreadRecord
  <2>2. ASSUME NEW act \in BOOLEAN,
               scan' = [scan EXCEPT ![s].todo = @ \ {f}, ![s].due = @ \ {f}, ![s].hits = @ \cup {f},
                                    ![s].acts = IF act THEN @ \cup {f} ELSE @],
               job' = [job EXCEPT !.found = @ + 1], Report(Hit(f, act))
        PROVE  \E w : ThreadRecord(s, w)
    <3> DEFINE w == [v EXCEPT !.todo = @ \ {f}, !.due = @ \ {f}, !.hits = @ \cup {f},
                              !.acts = IF act THEN @ \cup {f} ELSE @]
    <3>1. w \in Scan /\ w.stop = v.stop /\ w.crossed = v.crossed /\ w.pc = v.pc /\ w.hits = v.hits \cup {f}
          /\ w.acts = (IF act THEN v.acts \cup {f} ELSE v.acts)
          /\ w.todo = v.todo \ {f} /\ w.due = v.due \ {f}
      BY <1>1 DEF Scan
    <3>2. scan' = [scan EXCEPT ![s] = w]
      BY <2>2
    <3> HIDE DEF w
    <3>3. w.todo \subseteq v.todo
      BY <3>1
    <3> QED
      BY <1>1, <2>0, <2>2, <3>1, <3>2, <3>3 DEF ThreadRecord
  <2> QED
    BY <1>8, <2>1, <2>2 DEF Visit
<1> QED
  BY <1>3, <1>4, <1>5, <1>6, <1>7, <1>8 DEF ThreadStep

\* What Launch adds: a thread still to be created; those under way now share the job.
LEMMA Launched ==
  ASSUME ScansOK, NEW up, Launch(up)
  PROVE  /\ scan' \in Seq(Scan) /\ Len(scan') = Len(scan) + 1 /\ Len(scan) \in Nat
         /\ Len(scan) + 1 <= MaxScans
         /\ DOMAIN scan' = DOMAIN scan \cup {Len(scan) + 1} /\ Len(scan) + 1 \notin DOMAIN scan
         /\ \A s \in DOMAIN scan : Same(scan[s], scan'[s]) /\ scan'[s].pc = scan[s].pc
                /\ scan'[s].stop = scan[s].stop /\ scan'[s].crossed = (scan[s].crossed \/ Live(s))
         /\ \E target \in SUBSET Files, c \in BOOLEAN :
              /\ scan'[Len(scan) + 1] = New(target, c) /\ job' = Reset(target)
              /\ (\E s \in DOMAIN scan : Live(s)) => c
         /\ scan' # <<>>
<1>1. PICK target \in SUBSET Files : NewScan(up, target) /\ job' = Reset(target)
  BY ScanAssumption DEF Launch
<1>2. scan \in Seq(Scan) /\ Len(scan) \in Nat /\ DOMAIN scan = 1..Len(scan) /\ \A s \in DOMAIN scan : scan[s] \in Scan
  BY DEF ScansOK
<1> DEFINE under == {s \in DOMAIN scan : Live(s)}
           Crossed(s) == [scan[s] EXCEPT !.crossed = @ \/ s \in under]
           old == [s \in DOMAIN scan |-> Crossed(s)]
           c == (under # {})
           w == New(target, c)
<1>3. scan' = Append(old, w)
  BY <1>1 DEF NewScan
<1>4. c \in BOOLEAN /\ ((\E s \in DOMAIN scan : Live(s)) => c)
  OBVIOUS
<1> HIDE DEF c
<1>5. w \in Scan
  BY <1>4 DEF New, Scan
<1>6. \A s \in DOMAIN scan : /\ Crossed(s) \in Scan /\ Same(scan[s], Crossed(s)) /\ Crossed(s).pc = scan[s].pc
                             /\ Crossed(s).stop = scan[s].stop /\ Crossed(s).crossed = (scan[s].crossed \/ Live(s))
  BY <1>2 DEF Scan, Same
<1> HIDE DEF Crossed, w
<1>7. old \in [1..Len(scan) -> Scan]
  BY <1>2, <1>6, Zenon
<1>8. old \in Seq(Scan) /\ Len(old) = Len(scan) /\ DOMAIN old = DOMAIN scan
  BY <1>2, <1>7
<1>9. \A s \in DOMAIN scan : old[s] = Crossed(s)
  OBVIOUS
<1> HIDE DEF old
<1>10. /\ Append(old, w) \in Seq(Scan) /\ Len(Append(old, w)) = Len(old) + 1
       /\ Append(old, w)[Len(old) + 1] = w /\ DOMAIN Append(old, w) = DOMAIN old \cup {Len(old) + 1}
       /\ \A i \in DOMAIN old : i # Len(old) + 1 /\ Append(old, w)[i] = old[i]
  BY <1>5, <1>8, PushedSeq
<1>11. Len(scan) + 1 <= MaxScans
  <2>1. Len(scan) < MaxScans
    BY <1>1 DEF NewScan
  <2> QED
    BY <1>2, <2>1, ScanAssumption
<1>12. scan' \in Seq(Scan) /\ Len(scan') = Len(scan) + 1 /\ scan'[Len(scan) + 1] = w
       /\ DOMAIN scan' = DOMAIN scan \cup {Len(scan) + 1} /\ Len(scan) + 1 \notin DOMAIN scan
       /\ \A s \in DOMAIN scan : scan'[s] = Crossed(s)
  BY <1>3, <1>8, <1>9, <1>10
<1>13. scan' # <<>>
  BY <1>2, <1>12, EmptySeq
<1>14. w = New(target, c)
  BY DEF w
<1> QED
  BY <1>1, <1>2, <1>4, <1>6, <1>11, <1>12, <1>13, <1>14

\* The record of a thread that has done nothing.
LEMMA NewRecord ==
  \A target, c : LET w == New(target, c) IN
    /\ w.acts = {} /\ w.hits = {} /\ w.pc = "starting" /\ w.due = target
    /\ w.stop = FALSE /\ w.crossed = c
  BY DEF New

\* CreateThread: the latest scan's record, and no other, turns.
LEMMA Created ==
  ASSUME ScansOK, Started
  PROVE  \E w : /\ w \in Scan /\ Latest \in DOMAIN scan /\ scan[Latest].pc = "starting"
               /\ scan' = [scan EXCEPT ![Latest] = w]
               /\ Same(scan[Latest], w) /\ w.stop = scan[Latest].stop /\ w.crossed = scan[Latest].crossed
               /\ \/ w.pc = "created" /\ handle' = Latest
                  \/ w.pc = "never" /\ handle' = 0
<1>1. scan \in Seq(Scan) /\ scan # <<>> /\ scan[Latest].pc = "starting"
  BY DEF ScansOK, Started, Starting
<1>2. Latest \in DOMAIN scan
  BY <1>1, EmptySeq DEF Latest
<1>3. scan[Latest] \in Scan
  BY <1>1, <1>2
<1>4. PICK pc \in {"created", "never"} :
        /\ scan' = [scan EXCEPT ![Latest].pc = pc]
        /\ handle' = IF pc = "created" THEN Latest ELSE 0
  BY DEF Started
<1> DEFINE w == [scan[Latest] EXCEPT !.pc = pc]
<1>5. w \in Scan /\ Same(scan[Latest], w) /\ w.stop = scan[Latest].stop
      /\ w.crossed = scan[Latest].crossed /\ w.pc = pc
  BY <1>3 DEF Scan, Same
<1>6. scan' = [scan EXCEPT ![Latest] = w]
  BY <1>4
<1> QED
  BY <1>1, <1>2, <1>4, <1>5, <1>6

\* Close: the innermost box goes.
LEMMA Closed ==
  ASSUME BoxesOK, NEW k, Up(k)
  PROVE  /\ Popped \in Seq(Boxes) /\ Len(boxes) \in DOMAIN boxes /\ Last(boxes) = boxes[Len(boxes)]
         /\ boxes[Len(boxes)].kind = k /\ boxes # <<>>
         /\ DOMAIN Popped = DOMAIN boxes \ {Len(boxes)} /\ \A i \in DOMAIN Popped : Popped[i] = boxes[i]
<1>1. boxes \in Seq(Boxes) /\ boxes # <<>> /\ Last(boxes).kind = k
  BY DEF BoxesOK, Up
<1>2. /\ Front(boxes) \in Seq(Boxes) /\ Len(Front(boxes)) = Len(boxes) - 1
      /\ Len(boxes) \in DOMAIN boxes /\ Last(boxes) = boxes[Len(boxes)] /\ DOMAIN Front(boxes) = DOMAIN boxes \ {Len(boxes)}
      /\ \A i \in DOMAIN Front(boxes) : Front(boxes)[i] = boxes[i]
  BY <1>1, PoppedSeq
<1> QED
  BY <1>1, <1>2 DEF Popped

\* A box put up over those there are.
LEMMA PutUp ==
  ASSUME NEW bs \in Seq(Boxes), NEW k \in Kinds, NEW about \in Seq(Files)
  PROVE  /\ Append(bs, Box(k, about)) \in Seq(Boxes)
         /\ DOMAIN Append(bs, Box(k, about)) = DOMAIN bs \cup {Len(bs) + 1} /\ Len(bs) + 1 \notin DOMAIN bs
         /\ Append(bs, Box(k, about))[Len(bs) + 1].kind = k
         /\ Append(bs, Box(k, about))[Len(bs) + 1].about = about
         /\ \A i \in DOMAIN bs : Append(bs, Box(k, about))[i] = bs[i]
<1>1. Box(k, about) \in Boxes /\ Box(k, about).kind = k /\ Box(k, about).about = about
  BY DEF Box, Boxes
<1> QED
  BY <1>1, PushedSeq

-----------------------------------------------------------------------------
(* Which steps touch the scans and the job.                                *)

\* Of all steps but a launch, CreateThread, a cancel and a thread's own: the scans,
\* the job and the window's thread are left alone, or the window goes.
LEMMA Steps ==
  ASSUME [Next]_vars
  PROVE  \/ \E up : Launch(up)
         \/ Started
         \/ Cancelled /\ InLoop /\ win' \in {"loop", "wait"} /\ UNCHANGED <<rows, dets, mixed, handle, timer, queue, told, left>>
         \/ \E s \in DOMAIN scan : ThreadStep(s)
         \/ HandleDone
         \/ UNCHANGED <<job, scan, handle, timer, win, left>>
         \/ Exit \/ WaitEnds
<1>1. CASE Start \/ AskAnswered
  BY <1>1 DEF Start, AskAnswered
<1>2. CASE StopScan \/ ExitAnswered
  BY <1>2 DEF StopScan, ExitAnswered, InLoop
<1>3. CASE StartAsks \/ (\E q \in {"scan", "other"} : ShowPage(q)) \/ (\E q \in Files : ShieldReports(q))
  BY <1>3 DEF StartAsks, ShowPage, ShieldReports
<1>4. CASE HandleHit \/ AnswerYes \/ AnswerNo \/ Acknowledge \/ Dismiss \/ ExitAsks
  BY <1>4 DEF HandleHit, AnswerYes, AnswerNo, Acknowledge, Dismiss, ExitAsks
<1>5. CASE UNCHANGED vars
  BY <1>5 DEF vars
<1> QED
  BY <1>1, <1>2, <1>3, <1>4, <1>5 DEF Next, UserStep, Handle

-----------------------------------------------------------------------------
(* Each variable stays in its range.                                       *)

LEMMA JobType ==
  ASSUME TypeOK, [Next]_vars
  PROVE  JobOK'
<1>1. job \in [running : BOOLEAN, cancel : BOOLEAN, found : Nat, target : SUBSET Files]
  BY DEF TypeOK, JobOK
<1>2. ASSUME NEW up, Launch(up)  PROVE JobOK'
  <2>1. PICK target \in SUBSET Files : job' = Reset(target)
    BY <1>2, ScanAssumption DEF Launch
  <2> QED
    BY <2>1 DEF JobOK, Reset
<1>3. CASE Cancelled
  BY <1>1, <1>3 DEF Cancelled, JobOK
<1>4. ASSUME NEW s \in DOMAIN scan, Begin(s)  PROVE JobOK'
  BY <1>1, <1>4 DEF Begin, JobOK
<1>5. ASSUME NEW s \in DOMAIN scan, NEW f \in Files, Visit(s, f)  PROVE JobOK'
  <2>1. job' = job \/ job' = [job EXCEPT !.found = @ + 1]
    BY <1>5 DEF Visit
  <2> QED
    BY <1>1, <2>1 DEF JobOK
<1>6. ASSUME NEW s \in DOMAIN scan, EndWalk(s)  PROVE JobOK'
  BY <1>1, <1>6 DEF EndWalk, JobOK
<1>7. CASE UNCHANGED job
  BY <1>1, <1>7 DEF JobOK
<1> QED
  BY <1>2, <1>3, <1>4, <1>5, <1>6, <1>7, Steps
     DEF Started, ThreadStep, Enumerate, PassOver, PostDone, HandleDone, Exit, WaitEnds

LEMMA ScansType ==
  ASSUME TypeOK, [Next]_vars
  PROVE  ScansOK'
<1>1. ScansOK /\ scan \in Seq(Scan) /\ Len(scan) \in Nat /\ Len(scan) <= MaxScans /\ handle \in 0..Len(scan)
      /\ timer \in BOOLEAN
  BY DEF TypeOK, ScansOK
<1>2. ASSUME NEW up, Launch(up)  PROVE ScansOK'
  <2>1. /\ scan' \in Seq(Scan) /\ Len(scan') = Len(scan) + 1
        /\ Len(scan) + 1 <= MaxScans /\ handle' = handle /\ timer' = TRUE
    BY <1>1, <1>2, Launched DEF Launch, NewScan
  <2>2. handle' \in 0..(Len(scan) + 1)
    BY <1>1, <2>1
  <2> QED
    BY <2>1, <2>2 DEF ScansOK
<1>3. CASE Cancelled /\ UNCHANGED <<handle, timer>>
  <2> DEFINE Seen(s) == [scan[s] EXCEPT !.stop = @ \/ Live(s)]
  <2>1. \A s \in DOMAIN scan : Seen(s) \in Scan
    <3>1. \A s \in DOMAIN scan : scan[s] \in Scan
      BY <1>1
    <3> QED
      BY <3>1 DEF Scan
  <2>2. scan' = [s \in 1..Len(scan) |-> Seen(s)]
    BY <1>1, <1>3 DEF Cancelled
  <2>3. DOMAIN scan = 1..Len(scan)
    BY <1>1
  <2>4. scan' \in [1..Len(scan) -> Scan]
    BY <2>1, <2>2, <2>3, Zenon
  <2>5. scan' \in Seq(Scan) /\ Len(scan') = Len(scan)
    BY <1>1, <2>4
  <2> QED
    BY <1>1, <1>3, <2>5 DEF ScansOK
<1>4. ASSUME NEW s \in DOMAIN scan, ThreadStep(s)  PROVE ScansOK'
  <2>1. PICK w : ThreadRecord(s, w)
    BY <1>1, <1>4, ThreadRecords
  <2>2. scan' \in Seq(Scan) /\ Len(scan') = Len(scan)
    BY <1>1, <2>1, Turned DEF ThreadRecord
  <2>3. UNCHANGED <<handle, timer>>
    BY <1>4 DEF ThreadStep, Begin, Enumerate, PassOver, Visit, EndWalk, PostDone
  <2> QED
    BY <1>1, <2>2, <2>3 DEF ScansOK
<1>5. CASE Started
  <2>1. PICK w : /\ w \in Scan /\ Latest \in DOMAIN scan /\ scan' = [scan EXCEPT ![Latest] = w]
                 /\ handle' \in {Latest, 0}
    BY <1>1, <1>5, Created
  <2>2. scan' \in Seq(Scan) /\ Len(scan') = Len(scan)
    BY <1>1, <2>1, Turned
  <2>3. handle' \in 0..Len(scan)
    BY <1>1, <2>1 DEF Latest
  <2>4. timer' = timer
    BY <1>5 DEF Started
  <2> QED
    BY <1>1, <2>2, <2>3, <2>4 DEF ScansOK
<1>6. CASE HandleDone
  <2>1. UNCHANGED scan /\ handle' = 0 /\ timer' = FALSE
    BY <1>6 DEF HandleDone
  <2>2. 0 \in 0..Len(scan)
    BY <1>1
  <2> QED
    BY <1>1, <2>1, <2>2 DEF ScansOK
<1>7. CASE UNCHANGED <<scan, handle, timer>>
  BY <1>1, <1>7 DEF ScansOK
<1> QED
  BY <1>2, <1>3, <1>4, <1>5, <1>6, <1>7, Steps DEF Exit, WaitEnds

LEMMA WindowType ==
  ASSUME TypeOK, [Next]_vars
  PROVE  win' \in {"loop", "wait", "gone"} /\ left' \subseteq 1..MaxScans
<1>1. win \in {"loop", "wait", "gone"} /\ left \subseteq 1..MaxScans
  BY DEF TypeOK
<1>2. DOMAIN scan \subseteq 1..MaxScans
  <2>1. DOMAIN scan = 1..Len(scan) /\ Len(scan) \in Nat /\ Len(scan) <= MaxScans /\ MaxScans \in Nat
    BY ScanAssumption DEF TypeOK, ScansOK
  <2> QED
    BY <2>1
<1>3. CASE \E up : Launch(up)
  BY <1>1, <1>3 DEF Launch, NewScan
<1>4. CASE Started
  BY <1>1, <1>4 DEF Started
<1>5. CASE \E s \in DOMAIN scan : ThreadStep(s)
  BY <1>1, <1>5 DEF ThreadStep, Begin, Enumerate, PassOver, Visit, EndWalk, PostDone
<1>6. CASE HandleDone \/ Exit \/ WaitEnds
  <2>1. win' \in {win, "gone"}
    BY <1>6 DEF HandleDone, Exit, WaitEnds, Destroyed
  <2>2. left' \subseteq left \cup DOMAIN scan
    BY <1>6 DEF HandleDone, Exit, WaitEnds
  <2> QED
    BY <1>1, <1>2, <2>1, <2>2
<1> QED
  BY <1>1, <1>3, <1>4, <1>5, <1>6, Steps

LEMMA QueueType ==
  ASSUME TypeOK, [Next]_vars
  PROVE  QueueOK' /\ lost' \in BOOLEAN /\ overlap' \in BOOLEAN
<1>1. QueueOK /\ lost \in BOOLEAN /\ overlap \in BOOLEAN /\ shielded \in 0..MaxShieldHits
  BY DEF TypeOK, QueueOK
<1>2. ASSUME NEW m \in Messages, Post(m) \/ Report(m)
      PROVE  queue' \in Seq(Messages) /\ Len(queue') <= QueueCap /\ lost' \in BOOLEAN
  BY <1>1, <1>2, Posted
<1>3. ASSUME NEW up, Launch(up)  PROVE QueueOK' /\ lost' \in BOOLEAN /\ overlap' \in BOOLEAN
  <2>1. PICK target : NewScan(up, target)
    BY <1>3 DEF Launch
  <2>2. overlap' \in BOOLEAN
    BY <1>1, <2>1, Zenon DEF NewScan
  <2> QED
    BY <1>1, <2>1, <2>2 DEF NewScan, QueueOK
<1>4. ASSUME NEW s \in DOMAIN scan, ThreadStep(s)  PROVE QueueOK' /\ lost' \in BOOLEAN /\ overlap' \in BOOLEAN
  <2>1. UNCHANGED <<shielded, overlap>>
    BY <1>4 DEF ThreadStep, Begin, Enumerate, PassOver, Visit, EndWalk, PostDone
  <2>2. (\E m \in Messages : Report(m)) \/ UNCHANGED <<queue, lost>>
    BY <1>4, MessageTypes DEF ThreadStep, Begin, Enumerate, PassOver, Visit, EndWalk, PostDone
  <2> QED
    BY <1>1, <1>2, <2>1, <2>2 DEF QueueOK
<1>5. ASSUME NEW q \in Files, ShieldReports(q)  PROVE QueueOK' /\ lost' \in BOOLEAN /\ overlap' \in BOOLEAN
  <2>1. Post(ShieldHit(q)) /\ UNCHANGED overlap /\ shielded < MaxShieldHits /\ shielded' = shielded + 1
    BY <1>5 DEF ShieldReports
  <2>2. ShieldHit(q) \in Messages
    BY MessageTypes
  <2>3. shielded' \in 0..MaxShieldHits
    BY <1>1, <2>1, ScanAssumption
  <2> QED
    BY <1>1, <1>2, <2>1, <2>2, <2>3 DEF QueueOK
<1>6. CASE HandleHit
  <2>1. (\E type : Received(type)) /\ UNCHANGED <<shielded, lost, overlap>>
    BY <1>6 DEF HandleHit
  <2> QED
    BY <1>1, <2>1, Taken DEF QueueOK
<1>7. CASE HandleDone
  <2>1. (\E type : Received(type)) /\ UNCHANGED <<shielded, lost, overlap>>
    BY <1>7 DEF HandleDone
  <2> QED
    BY <1>1, <2>1, Taken DEF QueueOK
<1>8. CASE UNCHANGED <<queue, shielded, lost, overlap>>
  BY <1>1, <1>8 DEF QueueOK
<1>9. CASE Destroyed /\ UNCHANGED <<shielded, overlap>>
  <2>1. <<>> \in Seq(Messages) /\ Len(<<>>) <= QueueCap
    BY ScanAssumption
  <2> QED
    BY <1>1, <1>9, <2>1 DEF Destroyed, QueueOK
<1> QED
  BY <1>3, <1>4, <1>5, <1>6, <1>7, <1>8, <1>9
     DEF Next, UserStep, Start, StartAsks, AskAnswered, Started, StopScan, ShowPage,
         Handle, AnswerYes, AnswerNo, Acknowledge, Dismiss, ExitAsks, Exit, ExitAnswered, WaitEnds, vars

LEMMA HitPath ==
  ASSUME TypeOK, HandleHit
  PROVE  Head(queue).path \in Files /\ Head(queue) \in Messages
<1>1. PICK type \in {"hit", "shield"} : Received(type)
  BY DEF HandleHit
<1>2. Head(queue) \in Messages /\ Head(queue).type = type
  BY <1>1, Taken DEF TypeOK, Received
<1> QED
  BY <1>1, <1>2, MessageTypes

LEMMA ListType ==
  ASSUME TypeOK, [Next]_vars
  PROVE  ListOK'
<1> DEFINE Rows == Seq(Files \cup {NoFile})
<1>1. rows \in Rows /\ seen \in 0..Len(rows) /\ Len(rows) \in Nat
  BY DEF TypeOK, ListOK
<1>2. <<>> \in Rows /\ 0 \in 0..Len(<<>>) /\ Len(<<>>) = 0
  BY EmptySeq
<1>3. ASSUME NEW up, Launch(up)  PROVE ListOK'
  BY <1>2, <1>3 DEF Launch, ListOK
<1>4. ASSUME UNCHANGED rows, Close  PROVE ListOK'
  <2>1. seen' \in {Len(rows), seen}
    BY <1>4, Zenon DEF Close
  <2>2. Len(rows) \in 0..Len(rows)
    BY <1>1
  <2> QED
    BY <1>1, <1>4, <2>1, <2>2 DEF ListOK
<1>5. ASSUME NEW p \in {"scan", "other"}, ShowPage(p)  PROVE ListOK'
  <2>1. rows' \in Rows
    <3>1. <<NoFile>> \in Rows
      OBVIOUS
    <3> QED
      BY <1>2, <1>5, <3>1, Zenon DEF ShowPage
  <2>2. Len(rows') \in Nat
    BY <2>1
  <2>3. 0 \in 0..Len(rows') /\ Len(rows') \in 0..Len(rows')
    BY <2>2
  <2>4. seen' \in {0, Len(rows')}
    BY <1>5, Zenon DEF ShowPage
  <2> QED
    BY <2>1, <2>3, <2>4 DEF ListOK
<1>6. CASE HandleHit
  <2>1. rows' = Append(rows, Head(queue).path) /\ seen' \in {Len(rows) + 1, seen}
    BY <1>6, Zenon DEF HandleHit, AddRow
  <2>2. Head(queue).path \in Files \cup {NoFile}
    BY <1>6, HitPath
  <2>3. rows' \in Rows /\ Len(rows') = Len(rows) + 1
    BY <1>1, <2>1, <2>2, PushedSeq
  <2>4. seen' \in 0..Len(rows')
    BY <1>1, <2>1, <2>3
  <2> QED
    BY <1>1, <2>1, <2>3, <2>4 DEF ListOK
<1>7. CASE Acknowledge
  BY <1>1, <1>2, <1>7 DEF Acknowledge, ListOK
<1>8. CASE UNCHANGED <<rows, seen>>
  BY <1>1, <1>8 DEF ListOK
<1> QED
  BY <1>3, <1>4, <1>5, <1>6, <1>7, <1>8
     DEF Next, UserStep, Start, StartAsks, AskAnswered, Started, StopScan, ThreadStep, Begin, Enumerate, PassOver,
         Visit, EndWalk, PostDone, ShieldReports, Handle, HandleDone, AnswerYes, AnswerNo, Dismiss,
         ExitAsks, Exit, ExitAnswered, WaitEnds, vars

LEMMA MixedType ==
  ASSUME TypeOK, [Next]_vars
  PROVE  mixed' \in BOOLEAN
<1>1. mixed \in BOOLEAN
  BY DEF TypeOK
<1>2. CASE HandleHit
  BY <1>1, <1>2, Zenon DEF HandleHit
<1>3. CASE mixed' \in {TRUE, FALSE, mixed}
  BY <1>1, <1>3
<1> QED
  BY <1>2, <1>3
     DEF Next, UserStep, Start, Launch, StartAsks, AskAnswered, Started, StopScan, ShowPage, ThreadStep, Begin,
         Enumerate, PassOver, Visit, EndWalk, PostDone, ShieldReports, Handle, HandleDone, AnswerYes, AnswerNo,
         Acknowledge, Dismiss, ExitAsks, Exit, ExitAnswered, WaitEnds, vars

LEMMA DetsType ==
  ASSUME TypeOK, [Next]_vars
  PROVE  DetsOK'
<1>1. dets \in Seq(Files) /\ vaulted \subseteq Files
  BY DEF TypeOK, DetsOK
<1>2. ToSet(dets) \subseteq Files /\ \A i \in DOMAIN dets : dets[i] \in Files
  BY <1>1 DEF ToSet
<1>3. CASE HandleHit
  <2>1. Append(dets, Head(queue).path) \in Seq(Files)
    BY <1>1, <1>3, HitPath, PushedSeq
  <2>2. dets' \in {Append(dets, Head(queue).path), dets} /\ UNCHANGED vaulted
    BY <1>3, Zenon DEF HandleHit
  <2> QED
    BY <1>1, <2>1, <2>2 DEF DetsOK
<1>4. CASE AnswerYes
  BY <1>1, <1>2, <1>4 DEF AnswerYes, DetsOK
<1>5. CASE AnswerNo
  BY <1>1, <1>2, <1>5 DEF AnswerNo, DetsOK
<1>6. CASE dets' = <<>> /\ UNCHANGED vaulted
  BY <1>1, <1>6, EmptySeq DEF DetsOK
<1>7. CASE UNCHANGED <<dets, vaulted>>
  BY <1>1, <1>7 DEF DetsOK
<1> QED
  BY <1>3, <1>4, <1>5, <1>6, <1>7
     DEF Next, UserStep, Start, Launch, NewScan, StartAsks, AskAnswered, Started, StopScan, ShowPage, ThreadStep,
         Begin, Enumerate, PassOver, Visit, EndWalk, PostDone, ShieldReports, Handle, HandleDone, Acknowledge,
         Dismiss, ExitAsks, Exit, ExitAnswered, WaitEnds, vars

LEMMA BoxesType ==
  ASSUME TypeOK, [Next]_vars
  PROVE  BoxesOK'
<1>1. BoxesOK /\ boxes \in Seq(Boxes) /\ dets \in Seq(Files) /\ <<>> \in Seq(Files)
  BY EmptySeq DEF TypeOK, BoxesOK, DetsOK
<1>2. ASSUME NEW k, Up(k)  PROVE Popped \in Seq(Boxes)
  BY <1>1, <1>2, Closed
<1>3. CASE Start
  BY <1>1, <1>3 DEF Start, Launch, NewScan, BoxesOK
<1>4. ASSUME NEW k \in Kinds, NEW about \in Seq(Files), NEW bs \in Seq(Boxes), boxes' = Append(bs, Box(k, about))
      PROVE  BoxesOK'
  BY <1>4, PutUp, Zenon DEF BoxesOK
<1>5. \A k \in {"ask", "exit", "choose", "quarantined", "clean"} : k \in Kinds
  BY DEF Kinds
<1>6. CASE StartAsks \/ ExitAsks
  <2>1. boxes' = Append(boxes, Box("ask", <<>>)) \/ boxes' = Append(boxes, Box("exit", <<>>))
    BY <1>6 DEF StartAsks, ExitAsks
  <2> QED
    BY <1>1, <1>4, <1>5, <2>1
<1>7. CASE HandleDone
  <2>1. boxes' = boxes \/ boxes' = Append(boxes, Box("clean", <<>>)) \/ boxes' = Append(boxes, Box("choose", dets))
    BY <1>7 DEF HandleDone
  <2>2. CASE boxes' = boxes
    BY <1>1, <2>2 DEF BoxesOK
  <2> QED
    BY <1>1, <1>4, <1>5, <2>1, <2>2
<1>8. CASE AnswerYes
  <2>1. boxes' = Append(Popped, Box("quarantined", <<>>)) /\ Popped \in Seq(Boxes)
    BY <1>2, <1>8 DEF AnswerYes
  <2> QED
    BY <1>1, <1>4, <1>5, <2>1
<1>9. CASE boxes' = Popped /\ \E k : Up(k)
  BY <1>2, <1>9 DEF BoxesOK
<1>10. CASE AskAnswered
  BY <1>9, <1>10 DEF AskAnswered, Launch, NewScan, Close
<1>11. CASE AnswerNo \/ Dismiss \/ Acknowledge \/ ExitAnswered
  BY <1>9, <1>11 DEF AnswerNo, Dismiss, Acknowledge, ExitAnswered, Close
<1>12. CASE UNCHANGED boxes
  BY <1>1, <1>12 DEF BoxesOK
<1> QED
  BY <1>3, <1>6, <1>7, <1>8, <1>10, <1>11, <1>12
     DEF Next, UserStep, Started, StopScan, ShowPage, ThreadStep, Begin, Enumerate, PassOver, Visit, EndWalk,
         PostDone, ShieldReports, Handle, HandleHit, Exit, WaitEnds, vars

LEMMA StepTypeOK ==
  ASSUME TypeOK, [Next]_vars
  PROVE  TypeOK'
  BY ListType, DetsType, JobType, ScansType, QueueType, BoxesType, MixedType, WindowType DEF TypeOK

-----------------------------------------------------------------------------
(* What is kept can be acted on, and a scan ends early only if stopped.    *)

\* Stop is seen by every scan under way, and changes nothing else of them.
LEMMA Told ==
  ASSUME ScansOK, Cancelled
  PROVE  /\ DOMAIN scan' = DOMAIN scan /\ Len(scan') = Len(scan)
         /\ \A s \in DOMAIN scan : /\ scan'[s].pc = scan[s].pc /\ Same(scan[s], scan'[s])
                                    /\ scan'[s].crossed = scan[s].crossed
                                    /\ scan'[s].stop = (scan[s].stop \/ Live(s))
<1>1. scan \in Seq(Scan) /\ DOMAIN scan = 1..Len(scan) /\ Len(scan) \in Nat
  BY DEF ScansOK
<1>2. scan' = [s \in 1..Len(scan) |-> [scan[s] EXCEPT !.stop = @ \/ Live(s)]]
  BY <1>1 DEF Cancelled
<1>3. \A s \in DOMAIN scan : scan[s] \in Scan
  BY <1>1
<1>4. ASSUME NEW s \in DOMAIN scan
      PROVE  /\ scan'[s].pc = scan[s].pc /\ Same(scan[s], scan'[s]) /\ scan'[s].crossed = scan[s].crossed
             /\ scan'[s].stop = (scan[s].stop \/ Live(s))
  <2>1. scan'[s] = [scan[s] EXCEPT !.stop = @ \/ Live(s)]
    BY <1>1, <1>2
  <2>2. scan[s] \in Scan
    BY <1>3
  <2> QED
    BY <2>1, <2>2 DEF Scan, Same
<1>5. DOMAIN scan' = 1..Len(scan)
  BY <1>2
<1>6. Len(scan') = Len(scan)
  BY <1>1, <1>5
<1> QED
  BY <1>1, <1>4, <1>5, <1>6

\* What a thread does, when its visits do not matter apart.
LEMMA ThreadChanges ==
  ASSUME TypeOK, NEW s \in DOMAIN scan, ThreadStep(s)
  PROVE  /\ DOMAIN scan' = DOMAIN scan /\ Len(scan') = Len(scan)
         /\ \A r \in DOMAIN scan \ {s} : scan'[r] = scan[r]
         /\ scan[s].acts \subseteq scan'[s].acts /\ scan'[s].stop = scan[s].stop /\ Live(s)
         /\ scan'[s].crossed = scan[s].crossed
         /\ job'.cancel = job.cancel /\ job'.target = job.target
<1>1. PICK w : ThreadRecord(s, w)
  BY ThreadRecords DEF TypeOK
<1>2. /\ DOMAIN scan' = DOMAIN scan /\ Len(scan') = Len(scan)
      /\ scan'[s] = w /\ \A r \in DOMAIN scan \ {s} : scan'[r] = scan[r]
  BY <1>1, Turned DEF TypeOK, ThreadRecord
<1>3. scan[s].acts \subseteq w.acts /\ w.stop = scan[s].stop /\ w.crossed = scan[s].crossed /\ Live(s)
  BY <1>1 DEF ThreadRecord, Live, Same
<1>4. job' = [job EXCEPT !.running = TRUE, !.found = 0] \/ job' = [job EXCEPT !.found = @ + 1]
      \/ job' = [job EXCEPT !.running = FALSE] \/ job' = job
  BY DEF ThreadStep, Begin, Enumerate, PassOver, Visit, EndWalk, PostDone
<1>5. job \in [running : BOOLEAN, cancel : BOOLEAN, found : Nat, target : SUBSET Files]
  BY DEF TypeOK, JobOK
<1>6. job'.cancel = job.cancel /\ job'.target = job.target
  BY <1>4, <1>5
<1> QED
  BY <1>2, <1>3, <1>6

LEMMA ActsGrow ==
  ASSUME TypeOK, [Next]_vars
  PROVE  Acts \subseteq Acts'
<1>1. ScansOK
  BY DEF TypeOK
<1>2. \A s \in DOMAIN scan : s \in DOMAIN scan' /\ scan[s].acts \subseteq scan'[s].acts
  <2>1. ASSUME NEW up, Launch(up)
        PROVE  \A s \in DOMAIN scan : s \in DOMAIN scan' /\ scan[s].acts \subseteq scan'[s].acts
    BY <1>1, <2>1, Launched DEF Same
  <2>2. ASSUME NEW s \in DOMAIN scan, ThreadStep(s)
        PROVE  \A r \in DOMAIN scan : r \in DOMAIN scan' /\ scan[r].acts \subseteq scan'[r].acts
    BY <2>2, ThreadChanges
  <2>3. ASSUME Cancelled
        PROVE  \A s \in DOMAIN scan : s \in DOMAIN scan' /\ scan[s].acts \subseteq scan'[s].acts
    BY <1>1, <2>3, Told DEF Same
  <2>4. ASSUME Started
        PROVE  \A s \in DOMAIN scan : s \in DOMAIN scan' /\ scan[s].acts \subseteq scan'[s].acts
    <3>1. PICK w \in Scan : Latest \in DOMAIN scan /\ scan' = [scan EXCEPT ![Latest] = w] /\ Same(scan[Latest], w)
      BY <1>1, <2>4, Created
    <3>2. DOMAIN scan' = DOMAIN scan /\ scan'[Latest] = w /\ \A r \in DOMAIN scan \ {Latest} : scan'[r] = scan[r]
      BY <1>1, <3>1, Turned
    <3> QED
      BY <3>1, <3>2 DEF Same
  <2>5. ASSUME UNCHANGED scan
        PROVE  \A s \in DOMAIN scan : s \in DOMAIN scan' /\ scan[s].acts \subseteq scan'[s].acts
    BY <2>5
  <2> QED
    BY <2>1, <2>2, <2>3, <2>4, <2>5, Steps DEF HandleDone, Exit, WaitEnds
<1> QED
  BY <1>2 DEF Acts

\* A message posted, as the paths on their way see it.
LEMMA PostedAwaited ==
  ASSUME QueueOK, NEW m \in Messages, Post(m) \/ Report(m)
  PROVE  /\ Awaited \subseteq Awaited'
         /\ \A p \in Awaited' : p \in Awaited \/ (m.type = "hit" /\ m.act /\ p = m.path)
         /\ m.type = "hit" /\ m.act => lost' \/ m.path \in Awaited'
<1>1. /\ lost' \in {lost, TRUE}
      /\ \A i \in DOMAIN queue : i \in DOMAIN queue' /\ queue'[i] = queue[i]
      /\ \A i \in DOMAIN queue' : i \in DOMAIN queue \/ queue'[i] = m
      /\ lost' \/ (UNCHANGED lost /\ \E i \in DOMAIN queue' : queue'[i] = m)
  BY Posted
<1> QED
  BY <1>1 DEF Awaited

\* A message taken: it is no longer on its way, all others are.
LEMMA TakenAwaited ==
  ASSUME QueueOK, NEW type, Received(type)
  PROVE  /\ Awaited' \subseteq Awaited
         /\ \A p \in Awaited : p \in Awaited' \/ (type = "hit" /\ Head(queue).act /\ p = Head(queue).path)
         /\ type = "hit" /\ Head(queue).act => Head(queue).path \in Awaited
<1>1. /\ 1 \in DOMAIN queue /\ Head(queue) = queue[1] /\ queue[1].type = type
      /\ \A i \in DOMAIN queue' : i + 1 \in DOMAIN queue /\ queue'[i] = queue[i + 1]
      /\ \A i \in DOMAIN queue : i = 1 \/ (i - 1 \in DOMAIN queue' /\ queue'[i - 1] = queue[i])
  BY Taken
<1>2. Awaited' \subseteq Awaited
  <2> SUFFICES ASSUME NEW i \in DOMAIN queue', queue'[i].type = "hit", queue'[i].act
               PROVE  queue'[i].path \in Awaited
    BY DEF Awaited
  <2> QED
    BY <1>1 DEF Awaited
<1>3. ASSUME NEW p \in Awaited
      PROVE  p \in Awaited' \/ (type = "hit" /\ Head(queue).act /\ p = Head(queue).path)
  <2>1. PICK i \in DOMAIN queue : queue[i].type = "hit" /\ queue[i].act /\ queue[i].path = p
    BY DEF Awaited
  <2>2. CASE i = 1
    BY <1>1, <2>1, <2>2
  <2>3. CASE i # 1
    <3>1. i - 1 \in DOMAIN queue' /\ queue'[i - 1] = queue[i]
      BY <1>1, <2>1, <2>3
    <3> QED
      BY <2>1, <3>1 DEF Awaited
  <2> QED
    BY <2>2, <2>3
<1>4. type = "hit" /\ Head(queue).act => Head(queue).path \in Awaited
  BY <1>1 DEF Awaited
<1> QED
  BY <1>2, <1>3, <1>4

\* The detections after one more: what they were, and it.
LEMMA OneMoreDet ==
  ASSUME NEW q \in Seq(Files), NEW x \in Files
  PROVE  ToSet(Append(q, x)) = ToSet(q) \cup {x}
BY PushedSeq DEF ToSet

LEMMA NoDets == ToSet(<<>>) = {}
BY DEF ToSet

LEMMA NoneAwaited ==
  ASSUME queue' = <<>>
  PROVE  Awaited' = {}
BY DEF Awaited

\* A hit is kept, or it leaves the detections alone and mixes them with the rows.
LEMMA HitEffect ==
  ASSUME HandleHit
  PROVE  \/ Received("hit") /\ Head(queue).act /\ dets' = Append(dets, Head(queue).path) /\ mixed' = (mixed \/ FALSE)
         \/ (Received("shield") \/ (Received("hit") /\ ~Head(queue).act)) /\ UNCHANGED dets /\ mixed' = (mixed \/ TRUE)
<1> DEFINE kept == Head(queue).type = "hit" /\ Head(queue).act
<1>1. dets' = (IF kept THEN Append(dets, Head(queue).path) ELSE dets) /\ mixed' = (mixed \/ ~kept)
      /\ (Received("hit") \/ Received("shield"))
  BY Zenon DEF HandleHit
<1>2. Received("shield") => ~kept
  BY DEF Received
<1>3. Received("hit") => (kept <=> Head(queue).act)
  BY DEF Received
<1> HIDE DEF kept
<1>4. kept => dets' = Append(dets, Head(queue).path) /\ mixed' = (mixed \/ FALSE)
  BY <1>1, Zenon
<1>5. ~kept => dets' = dets /\ mixed' = (mixed \/ TRUE)
  BY <1>1, Zenon
<1> QED
  BY <1>1, <1>2, <1>3, <1>4, <1>5, Zenon

\* What each message is, as the paths on their way see it.
LEMMA MessageIs ==
  /\ \A p \in Files, a \in BOOLEAN : Hit(p, a).type = "hit" /\ Hit(p, a).path = p /\ Hit(p, a).act = a
  /\ \A p \in Files : ShieldHit(p).type = "shield"
  /\ Over.type = "done"
BY DEF Hit, ShieldHit, Over

\* What a thread's step does to the paths on their way.
LEMMA ThreadAwaited ==
  ASSUME TypeOK, NEW s \in DOMAIN scan, ThreadStep(s)
  PROVE  Awaited \subseteq Awaited' /\ Awaited' \subseteq Awaited \cup scan'[s].acts
<1>1. QueueOK /\ ScansOK
  BY DEF TypeOK
<1>2. PICK w : ThreadRecord(s, w)
  BY <1>1, ThreadRecords
<1>3. scan'[s] = w
  BY <1>1, <1>2, Turned DEF ThreadRecord
<1>4. CASE UNCHANGED queue
  BY <1>4 DEF Awaited
<1>5. ASSUME NEW f \in Files, NEW act \in BOOLEAN, Report(Hit(f, act)),
             w.acts = IF act THEN scan[s].acts \cup {f} ELSE scan[s].acts
      PROVE  Awaited \subseteq Awaited' /\ Awaited' \subseteq Awaited \cup scan'[s].acts
  <2>1. Hit(f, act) \in Messages /\ Hit(f, act).path = f /\ Hit(f, act).act = act
    BY MessageTypes, MessageIs
  <2>2. Awaited \subseteq Awaited' /\ \A p \in Awaited' : p \in Awaited \/ (act /\ p = f)
    BY <1>1, <1>5, <2>1, PostedAwaited
  <2> QED
    BY <1>3, <1>5, <2>2
<1>6. CASE PostDone(s)
  <2>1. Report(Over) /\ Over \in Messages /\ Over.type # "hit"
    BY <1>6, MessageTypes, MessageIs DEF PostDone
  <2> QED
    BY <1>1, <2>1, PostedAwaited
<1> QED
  BY <1>2, <1>4, <1>5, <1>6 DEF ThreadRecord, Begin, Enumerate, EndWalk

LEMMA KeptStep ==
  ASSUME TypeOK, KeptCanBeActedOn, [Next]_vars
  PROVE  KeptCanBeActedOn'
<1>1. ToSet(dets) \subseteq Acts /\ Awaited \subseteq Acts /\ (\A s \in DOMAIN scan : scan[s].acts \subseteq scan[s].hits)
  BY DEF KeptCanBeActedOn
<1>2. Acts \subseteq Acts' /\ TypeOK'
  BY ActsGrow, StepTypeOK
<1>3. QueueOK /\ ScansOK /\ dets \in Seq(Files)
  BY DEF TypeOK, DetsOK
<1>4. ToSet(dets') \subseteq Acts'
  <2>1. CASE HandleHit
    <3>1. CASE UNCHANGED dets
      BY <1>1, <1>2, <3>1
    <3>2. CASE Received("hit") /\ Head(queue).act /\ dets' = Append(dets, Head(queue).path)
      <4>1. Head(queue).path \in Awaited /\ Head(queue).path \in Files
        BY <1>3, <2>1, <3>2, TakenAwaited, HitPath
      <4>2. ToSet(dets') = ToSet(dets) \cup {Head(queue).path}
        BY <1>3, <3>2, <4>1, OneMoreDet
      <4> QED
        BY <1>1, <1>2, <4>1, <4>2
    <3>3. UNCHANGED dets \/ (Received("hit") /\ Head(queue).act /\ dets' = Append(dets, Head(queue).path))
      BY <2>1, HitEffect, Zenon
    <3> QED
      BY <3>1, <3>2, <3>3, Zenon
  <2>2. CASE dets' = <<>>
    BY <2>2, NoDets
  <2>3. CASE UNCHANGED dets
    BY <1>1, <1>2, <2>3
  <2> QED
    BY <2>1, <2>2, <2>3
       DEF Next, UserStep, Start, Launch, NewScan, StartAsks, AskAnswered, Started, StopScan, ShowPage, ThreadStep,
           Begin, Enumerate, PassOver, Visit, EndWalk, PostDone, ShieldReports, Handle, HandleDone, AnswerYes,
           AnswerNo, Acknowledge, Dismiss, ExitAsks, Exit, ExitAnswered, WaitEnds, vars
<1>5. Awaited' \subseteq Acts'
  <2>1. ASSUME NEW s \in DOMAIN scan, ThreadStep(s)  PROVE Awaited' \subseteq Acts'
    <3>1. Awaited' \subseteq Awaited \cup scan'[s].acts /\ s \in DOMAIN scan'
      BY <2>1, ThreadAwaited, ThreadChanges
    <3>2. scan'[s].acts \subseteq Acts'
      BY <3>1 DEF Acts
    <3> QED
      BY <1>1, <1>2, <3>1, <3>2
  <2>2. ASSUME NEW p \in Files, ShieldReports(p)  PROVE Awaited' \subseteq Acts'
    <3>1. Post(ShieldHit(p)) /\ ShieldHit(p) \in Messages /\ ShieldHit(p).type # "hit"
      BY <2>2, MessageTypes, MessageIs DEF ShieldReports
    <3> QED
      BY <1>1, <1>2, <1>3, <3>1, PostedAwaited
  <2>3. CASE Handle
    <3>1. \E type : Received(type)
      BY <2>3 DEF Handle, HandleHit, HandleDone
    <3> QED
      BY <1>1, <1>2, <1>3, <3>1, TakenAwaited
  <2>4. CASE UNCHANGED queue
    BY <1>1, <1>2, <2>4 DEF Awaited
  <2>5. CASE Destroyed
    BY <2>5, NoneAwaited DEF Destroyed
  <2> QED
    BY <2>1, <2>2, <2>3, <2>4, <2>5
       DEF Next, UserStep, Start, Launch, NewScan, StartAsks, AskAnswered, Started, StopScan, ShowPage,
           AnswerYes, AnswerNo, Acknowledge, Dismiss, ExitAsks, Exit, ExitAnswered, WaitEnds, vars
<1>6. \A s \in DOMAIN scan' : scan'[s].acts \subseteq scan'[s].hits
  <2>1. ASSUME NEW up, Launch(up)  PROVE \A s \in DOMAIN scan' : scan'[s].acts \subseteq scan'[s].hits
    BY <1>1, <1>3, <2>1, Launched, NewRecord DEF Same
  <2>2. ASSUME NEW s \in DOMAIN scan, ThreadStep(s)
        PROVE  \A r \in DOMAIN scan' : scan'[r].acts \subseteq scan'[r].hits
    <3>1. PICK w : ThreadRecord(s, w)
      BY <1>3, <2>2, ThreadRecords
    <3>2. w.acts \subseteq w.hits
      BY <1>1, <3>1 DEF ThreadRecord, Same
    <3>3. scan'[s] = w /\ DOMAIN scan' = DOMAIN scan /\ \A r \in DOMAIN scan \ {s} : scan'[r] = scan[r]
      BY <1>3, <3>1, Turned DEF ThreadRecord
    <3> QED
      BY <1>1, <3>2, <3>3
  <2>3. CASE Cancelled
    BY <1>1, <1>3, <2>3, Told DEF Same
  <2>4. CASE Started
    <3>1. PICK w \in Scan : Latest \in DOMAIN scan /\ scan' = [scan EXCEPT ![Latest] = w] /\ Same(scan[Latest], w)
      BY <1>3, <2>4, Created
    <3>2. DOMAIN scan' = DOMAIN scan /\ scan'[Latest] = w /\ \A r \in DOMAIN scan \ {Latest} : scan'[r] = scan[r]
      BY <1>3, <3>1, Turned
    <3> QED
      BY <1>1, <3>1, <3>2 DEF Same
  <2>5. CASE UNCHANGED scan
    BY <1>1, <2>5
  <2> QED
    BY <2>1, <2>2, <2>3, <2>4, <2>5, Steps DEF HandleDone, Exit, WaitEnds
<1> QED
  BY <1>4, <1>5, <1>6 DEF KeptCanBeActedOn

\* Only what is kept is handed over.
LEMMA ActionableStep ==
  ASSUME TypeOK, KeptCanBeActedOn, OnlyActionable, [Next]_vars
  PROVE  OnlyActionable'
<1>1. vaulted \subseteq Acts /\ ToSet(dets) \subseteq Acts /\ Acts \subseteq Acts'
  BY ActsGrow DEF OnlyActionable, KeptCanBeActedOn
<1>2. vaulted' \subseteq vaulted \cup ToSet(dets)
  <2>1. CASE AnswerYes
    BY <2>1 DEF AnswerYes
  <2>2. CASE AnswerNo
    BY <2>2 DEF AnswerNo, ToSet
  <2>3. CASE UNCHANGED vaulted
    BY <2>3
  <2> QED
    BY <2>1, <2>2, <2>3
       DEF Next, UserStep, Start, Launch, NewScan, StartAsks, AskAnswered, Started, StopScan, ShowPage, ThreadStep,
           Begin, Enumerate, PassOver, Visit, EndWalk, PostDone, ShieldReports, Handle, HandleHit, HandleDone,
           Acknowledge, Dismiss, ExitAsks, Exit, ExitAnswered, WaitEnds, vars
<1> QED
  BY <1>1, <1>2 DEF OnlyActionable

LEMMA CancelStep ==
  ASSUME TypeOK, CancelIsSeen, [Next]_vars
  PROVE  CancelIsSeen'
<1>1. ScansOK
  BY DEF TypeOK
<1>2. ASSUME NEW up, Launch(up)  PROVE CancelIsSeen'
  <2>1. job'.cancel = FALSE
    BY <1>2 DEF Launch, Reset
  <2> QED
    BY <2>1 DEF CancelIsSeen
<1>3. CASE Cancelled
  BY <1>1, <1>3, Told DEF CancelIsSeen, Live
<1>4. ASSUME NEW s \in DOMAIN scan, ThreadStep(s)  PROVE CancelIsSeen'
  BY <1>4, ThreadChanges DEF CancelIsSeen, Live
<1>5. CASE Started
  <2>1. PICK w \in Scan : Latest \in DOMAIN scan /\ scan' = [scan EXCEPT ![Latest] = w] /\ w.stop = scan[Latest].stop
                         /\ scan[Latest].pc = "starting"
    BY <1>1, <1>5, Created
  <2>2. DOMAIN scan' = DOMAIN scan /\ scan'[Latest] = w /\ \A r \in DOMAIN scan \ {Latest} : scan'[r] = scan[r]
    BY <1>1, <2>1, Turned
  <2>3. UNCHANGED job
    BY <1>5 DEF Started
  <2> QED
    BY <2>1, <2>2, <2>3 DEF CancelIsSeen, Live
<1>6. CASE UNCHANGED <<job, scan>>
  BY <1>6 DEF CancelIsSeen, Live
<1> QED
  BY <1>2, <1>3, <1>4, <1>5, <1>6, Steps DEF HandleDone, Exit, WaitEnds

\* Rows and detections are added and emptied together, or are mixed.
LEMMA RowsStep ==
  ASSUME TypeOK, RowsAreDets, [Next]_vars
  PROVE  RowsAreDets'
<1>1. mixed \in BOOLEAN
  BY DEF TypeOK
<1>2. CASE HandleHit
  <2>1. rows' = Append(rows, Head(queue).path)
    BY <1>2 DEF HandleHit, AddRow
  <2>2. CASE dets' = Append(dets, Head(queue).path) /\ mixed' = (mixed \/ FALSE)
    <3>1. CASE mixed
      BY <2>2, <3>1, Zenon DEF RowsAreDets
    <3>2. CASE rows = dets
      BY <2>1, <2>2, <3>2 DEF RowsAreDets
    <3> QED
      BY <3>1, <3>2 DEF RowsAreDets
  <2>3. CASE mixed' = (mixed \/ TRUE)
    BY <2>3, Zenon DEF RowsAreDets
  <2> QED
    BY <1>2, <2>2, <2>3, HitEffect, Zenon
<1>3. CASE mixed' = TRUE
  BY <1>3 DEF RowsAreDets
<1>4. CASE rows' = <<>> /\ dets' = <<>>
  BY <1>4 DEF RowsAreDets
<1>5. CASE UNCHANGED <<rows, dets, mixed>>
  BY <1>5 DEF RowsAreDets
<1> QED
  BY <1>2, <1>3, <1>4, <1>5
     DEF Next, UserStep, Start, Launch, StartAsks, AskAnswered, Started, StopScan, ShowPage, ThreadStep, Begin,
         Enumerate, PassOver, Visit, EndWalk, PostDone, ShieldReports, Handle, HandleDone, AnswerYes, AnswerNo,
         Acknowledge, Dismiss, ExitAsks, Exit, ExitAnswered, WaitEnds, vars

-----------------------------------------------------------------------------
(* A scan that shares the job with none.                                   *)

\* What a step does to a scan that shares the job with none afterwards.
LEMMA StillAlone ==
  ASSUME TypeOK, [Next]_vars, ~(\E up : Launch(up)), NEW r \in DOMAIN scan'
  PROVE  /\ r \in DOMAIN scan /\ (Live(r)' => Live(r)) /\ (Alone(r)' => Alone(r)) /\ Latest' = Latest
         /\ job'.target = job.target
<1>1. ScansOK /\ job \in [running : BOOLEAN, cancel : BOOLEAN, found : Nat, target : SUBSET Files]
  BY DEF TypeOK, JobOK
<1>2. ASSUME NEW s \in DOMAIN scan, ThreadStep(s)
      PROVE  /\ r \in DOMAIN scan /\ (Live(r)' => Live(r)) /\ (Alone(r)' => Alone(r)) /\ Latest' = Latest
             /\ job'.target = job.target
  BY <1>2, ThreadChanges DEF Live, Alone, Latest
<1>3. CASE Started
  <2>1. PICK w \in Scan : Latest \in DOMAIN scan /\ scan' = [scan EXCEPT ![Latest] = w]
                         /\ w.crossed = scan[Latest].crossed /\ scan[Latest].pc = "starting"
    BY <1>1, <1>3, Created
  <2>2. DOMAIN scan' = DOMAIN scan /\ Len(scan') = Len(scan)
        /\ scan'[Latest] = w /\ \A q \in DOMAIN scan \ {Latest} : scan'[q] = scan[q]
    BY <1>1, <2>1, Turned
  <2>3. UNCHANGED job
    BY <1>3 DEF Started
  <2> QED
    BY <2>1, <2>2, <2>3 DEF Live, Alone, Latest
<1>4. CASE Cancelled
  <2>1. job'.target = job.target
    BY <1>1, <1>4 DEF Cancelled
  <2> QED
    BY <1>1, <1>4, <2>1, Told DEF Live, Alone, Latest
<1>5. CASE UNCHANGED <<job, scan>>
  BY <1>5 DEF Live, Alone, Latest
<1> QED
  BY <1>2, <1>3, <1>4, <1>5, Steps DEF HandleDone, Exit, WaitEnds

\* A launch leaves none alone but the scan it adds, and that only if none was under way.
LEMMA LaunchAlone ==
  ASSUME TypeOK, NEW up, Launch(up), NEW r \in DOMAIN scan', Alone(r)'
  PROVE  /\ r = Len(scan) + 1 /\ Latest' = r /\ scan'[r].pc = "starting" /\ scan'[r].due = job'.target
         /\ \A s \in DOMAIN scan' : Live(s)' => s = r
<1>1. ScansOK
  BY DEF TypeOK
<1> DEFINE n == Len(scan) + 1
<1>2. /\ Len(scan') = n /\ DOMAIN scan' = DOMAIN scan \cup {n} /\ n \notin DOMAIN scan
      /\ \A s \in DOMAIN scan : scan'[s].pc = scan[s].pc /\ scan'[s].crossed = (scan[s].crossed \/ Live(s))
  BY <1>1, Launched
<1>3. PICK target \in SUBSET Files, c \in BOOLEAN :
        /\ scan'[n] = New(target, c) /\ job' = Reset(target) /\ ((\E s \in DOMAIN scan : Live(s)) => c)
  BY <1>1, Launched
<1> HIDE DEF n
<1>4. /\ scan'[n].pc = "starting" /\ scan'[n].due = target /\ scan'[n].crossed = c /\ job'.target = target
  BY <1>3, NewRecord DEF Reset
<1>5. \A s \in DOMAIN scan : Live(s)' <=> Live(s)
  BY <1>2 DEF Live
<1>6. \A s \in DOMAIN scan : ~Alone(s)'
  <2> SUFFICES ASSUME NEW s \in DOMAIN scan, Live(s)'
               PROVE  scan'[s].crossed
    BY DEF Alone
  <2>1. Live(s)
    BY <1>5
  <2>2. scan'[s].crossed = (scan[s].crossed \/ Live(s))
    BY <1>2
  <2> QED
    BY <2>1, <2>2, Zenon
<1>7. r = n
  BY <1>2, <1>6
<1>8. ~c
  BY <1>4, <1>7 DEF Alone
<1>9. \A s \in DOMAIN scan' : Live(s)' => s = r
  BY <1>2, <1>3, <1>5, <1>7, <1>8
<1> QED
  BY <1>2, <1>4, <1>7, <1>9 DEF Latest, n

LEMMA AloneStep ==
  ASSUME TypeOK, JobIsOnes, [Next]_vars
  PROVE  JobIsOnes'
<1>1. CASE \E up : Launch(up)
  BY <1>1, LaunchAlone DEF JobIsOnes
<1>2. CASE ~(\E up : Launch(up))
  <2> SUFFICES ASSUME NEW r \in DOMAIN scan', Alone(r)'
               PROVE  r = Latest' /\ \A q \in DOMAIN scan' : Live(q)' => q = r
    BY DEF JobIsOnes
  <2>1. r \in DOMAIN scan /\ Alone(r) /\ Latest' = Latest
    BY <1>2, StillAlone
  <2>2. \A q \in DOMAIN scan' : q \in DOMAIN scan /\ (Live(q)' => Live(q))
    BY <1>2, StillAlone
  <2> QED
    BY <2>1, <2>2 DEF JobIsOnes
<1> QED
  BY <1>1, <1>2

\* The target of a scan alone is read while nobody resets it.
LEMMA DueStep ==
  ASSUME TypeOK, JobIsOnes, DueKept, [Next]_vars
  PROVE  DueKept'
<1>1. ScansOK
  BY DEF TypeOK
<1>2. CASE \E up : Launch(up)
  <2> SUFFICES ASSUME NEW r \in DOMAIN scan', Alone(r)'
               PROVE  scan'[r].pc = "starting" /\ scan'[r].due \subseteq job'.target
    BY DEF DueKept
  <2> QED
    BY <1>2, LaunchAlone
<1>3. CASE ~(\E up : Launch(up))
  <2> SUFFICES ASSUME NEW r \in DOMAIN scan', Alone(r)'
               PROVE  /\ scan'[r].pc \in {"starting", "created", "counting"} => scan'[r].due \subseteq job'.target
                      /\ scan'[r].pc = "walking" => scan'[r].due \subseteq scan'[r].todo /\ scan'[r].todo \subseteq job'.target
    BY DEF DueKept
  <2>1. r \in DOMAIN scan /\ Alone(r) /\ r = Latest /\ job'.target = job.target
        /\ \A q \in DOMAIN scan : Live(q) => q = r
    BY <1>3, StillAlone DEF JobIsOnes
  <2>2. /\ scan[r].pc \in {"starting", "created", "counting"} => scan[r].due \subseteq job.target
        /\ scan[r].pc = "walking" => scan[r].due \subseteq scan[r].todo /\ scan[r].todo \subseteq job.target
    BY <2>1 DEF DueKept
  <2>3. ASSUME NEW s \in DOMAIN scan, ThreadStep(s)
        PROVE  /\ scan'[r].pc \in {"starting", "created", "counting"} => scan'[r].due \subseteq job'.target
               /\ scan'[r].pc = "walking" => scan'[r].due \subseteq scan'[r].todo /\ scan'[r].todo \subseteq job'.target
    <3>1. s = r
      BY <2>1, <2>3, ThreadChanges
    <3>2. PICK w : ThreadRecord(s, w)
      BY <1>1, <2>3, ThreadRecords
    <3>3. scan'[s] = w
      BY <1>1, <3>2, Turned DEF ThreadRecord
    <3>4. scan[r].pc # "starting" => ~Starting
      BY <2>1 DEF Starting
    <3>5. CASE scan[r].pc = "created" /\ w.pc = "counting" /\ Same(scan[r], w)
      BY <2>1, <2>2, <3>1, <3>3, <3>5 DEF Same
    <3>6. CASE scan[r].pc = "counting" /\ w.pc = "walking" /\ w.due = scan[r].due /\ (Starting \/ w.todo = job.target)
      BY <2>1, <2>2, <3>1, <3>3, <3>4, <3>6
    <3>7. CASE w.pc \in {"ending", "over"}
      BY <3>1, <3>3, <3>7
    <3>8. ASSUME scan[r].pc = "walking", w.pc = "walking", NEW f \in scan[r].todo, w.todo = scan[r].todo \ {f},
                 w.due = scan[r].due \ {f} \/ (w.due = scan[r].due /\ (Starting \/ f \notin job.target))
          PROVE  w.due \subseteq w.todo /\ w.todo \subseteq job.target
      <4>1. scan[r].due \subseteq scan[r].todo /\ scan[r].todo \subseteq job.target /\ ~Starting
        BY <2>2, <3>4, <3>8
      <4>2. w.due = scan[r].due \ {f}
        BY <3>8, <4>1
      <4> QED
        BY <3>8, <4>1, <4>2
    <3>9. CASE scan[r].pc = "walking" /\ w.pc = "walking"
      <4>1. PICK f \in scan[r].todo : /\ w.todo = scan[r].todo \ {f}
                                       /\ \/ w.due = scan[r].due \ {f}
                                          \/ w.due = scan[r].due /\ (Starting \/ f \notin job.target)
        BY <3>1, <3>2, <3>9 DEF ThreadRecord
      <4>2. w.due \subseteq w.todo /\ w.todo \subseteq job.target
        BY <3>8, <3>9, <4>1
      <4> QED
        BY <2>1, <3>1, <3>3, <3>9, <4>2
    <3> QED
      BY <3>1, <3>2, <3>5, <3>6, <3>7, <3>9 DEF ThreadRecord
  <2>4. CASE Started
    <3>1. PICK w \in Scan : Latest \in DOMAIN scan /\ scan' = [scan EXCEPT ![Latest] = w] /\ Same(scan[Latest], w)
                           /\ w.pc \in {"created", "never"} /\ scan[Latest].pc = "starting"
      BY <1>1, <2>4, Created
    <3>2. scan'[Latest] = w
      BY <1>1, <3>1, Turned
    <3> QED
      BY <2>1, <2>2, <3>1, <3>2 DEF Same
  <2>5. CASE Cancelled
    BY <1>1, <2>1, <2>2, <2>5, Told DEF Same
  <2>6. CASE UNCHANGED <<job, scan>>
    BY <2>2, <2>6
  <2> QED
    BY <1>3, <2>3, <2>4, <2>5, <2>6, Steps DEF HandleDone, Exit, WaitEnds
<1> QED
  BY <1>2, <1>3

LEMMA EndsEarlyStep ==
  ASSUME TypeOK, CancelIsSeen, DueKept, EndsEarlyOnlyIfStopped, [Next]_vars
  PROVE  EndsEarlyOnlyIfStopped'
<1>1. ScansOK
  BY DEF TypeOK
<1>2. ASSUME NEW up, Launch(up)  PROVE EndsEarlyOnlyIfStopped'
  <2>1. \A s \in DOMAIN scan : /\ scan'[s].pc = scan[s].pc /\ scan'[s].due = scan[s].due /\ scan'[s].stop = scan[s].stop
                              /\ (scan[s].crossed => scan'[s].crossed)
    <3>1. \A s \in DOMAIN scan : /\ scan'[s].pc = scan[s].pc /\ scan'[s].due = scan[s].due /\ scan'[s].stop = scan[s].stop
                                /\ scan'[s].crossed = (scan[s].crossed \/ Live(s))
      BY <1>1, <1>2, Launched DEF Same
    <3> QED
      BY <3>1, Zenon
  <2>2. DOMAIN scan' = DOMAIN scan \cup {Len(scan) + 1} /\ \E t, c : scan'[Len(scan) + 1] = New(t, c)
    BY <1>1, <1>2, Launched
  <2>3. scan'[Len(scan) + 1].pc = "starting"
    BY <2>2, NewRecord
  <2> QED
    BY <2>1, <2>2, <2>3 DEF EndsEarlyOnlyIfStopped
<1>3. CASE Cancelled
  BY <1>1, <1>3, Told DEF EndsEarlyOnlyIfStopped, Same
<1>4. ASSUME NEW s \in DOMAIN scan, ThreadStep(s)  PROVE EndsEarlyOnlyIfStopped'
  <2>1. PICK w : ThreadRecord(s, w)
    BY <1>1, <1>4, ThreadRecords
  <2>2. scan'[s] = w /\ DOMAIN scan' = DOMAIN scan /\ \A r \in DOMAIN scan \ {s} : scan'[r] = scan[r]
    BY <1>1, <2>1, Turned DEF ThreadRecord
  <2>3. w.pc \in {"ending", "over"} /\ w.due # {} => w.stop \/ w.crossed
    <3>1. CASE EndWalk(s) /\ Same(scan[s], w) /\ scan[s].pc = "walking" /\ w.stop = scan[s].stop
               /\ w.crossed = scan[s].crossed
      <4>1. Live(s) /\ (scan[s].todo = {} \/ job.cancel) /\ w.due = scan[s].due
        BY <3>1 DEF EndWalk, Live, Same
      <4>2. ~scan[s].crossed => scan[s].due \subseteq scan[s].todo
        BY <3>1, <4>1 DEF DueKept, Alone
      <4>3. job.cancel => scan[s].stop
        BY <4>1 DEF CancelIsSeen
      <4> QED
        BY <3>1, <4>1, <4>2, <4>3
    <3>2. CASE scan[s].pc = "ending" /\ Same(scan[s], w) /\ w.stop = scan[s].stop /\ w.crossed = scan[s].crossed
      BY <3>2 DEF EndsEarlyOnlyIfStopped, Same
    <3>3. CASE w.pc \in {"counting", "walking"}
      BY <3>3
    <3> QED
      BY <2>1, <3>1, <3>2, <3>3 DEF ThreadRecord
  <2> QED
    BY <2>2, <2>3 DEF EndsEarlyOnlyIfStopped
<1>5. CASE Started
  <2>1. PICK w \in Scan : Latest \in DOMAIN scan /\ scan' = [scan EXCEPT ![Latest] = w]
                         /\ w.pc \in {"created", "never"}
    BY <1>1, <1>5, Created
  <2>2. DOMAIN scan' = DOMAIN scan /\ scan'[Latest] = w /\ \A r \in DOMAIN scan \ {Latest} : scan'[r] = scan[r]
    BY <1>1, <2>1, Turned
  <2> QED
    BY <2>1, <2>2 DEF EndsEarlyOnlyIfStopped
<1>6. CASE UNCHANGED scan
  BY <1>6 DEF EndsEarlyOnlyIfStopped
<1> QED
  BY <1>2, <1>3, <1>4, <1>5, <1>6, Steps DEF HandleDone, Exit, WaitEnds

\* The window holds the handle of a scan alone, and sees its running flag.
LEMMA HeldStep ==
  ASSUME TypeOK, JobIsOnes, Held, [Next]_vars
  PROVE  Held'
<1>1. ScansOK /\ job \in [running : BOOLEAN, cancel : BOOLEAN, found : Nat, target : SUBSET Files]
  BY DEF TypeOK, JobOK
<1> SUFFICES ASSUME NEW r \in DOMAIN scan', Alone(r)', r \notin left', win' # "gone"
             PROVE  IF scan'[r].pc = "starting" THEN win' = "loop"
                    ELSE handle' = r /\ (scan'[r].pc \in {"counting", "walking"} => job'.running)
  BY DEF Held
<1>2. CASE \E up : Launch(up)
  <2>1. win' = "loop"
    BY <1>2 DEF Launch, NewScan, InLoop
  <2>2. scan'[r].pc = "starting"
    BY <1>2, LaunchAlone
  <2> QED
    BY <2>1, <2>2
<1>3. CASE ~(\E up : Launch(up))
  <2>1. r \in DOMAIN scan /\ Alone(r) /\ r = Latest /\ \A q \in DOMAIN scan : Live(q) => q = r
    BY <1>3, StillAlone DEF JobIsOnes
  <2>2. r \notin left /\ win # "gone" =>
          IF scan[r].pc = "starting" THEN win = "loop"
          ELSE handle = r /\ (scan[r].pc \in {"counting", "walking"} => job.running)
    BY <2>1 DEF Held
  <2>3. ASSUME NEW s \in DOMAIN scan, ThreadStep(s)
        PROVE  IF scan'[r].pc = "starting" THEN win' = "loop"
               ELSE handle' = r /\ (scan'[r].pc \in {"counting", "walking"} => job'.running)
    <3>1. s = r
      BY <2>1, <2>3, ThreadChanges
    <3>2. PICK w : ThreadRecord(s, w)
      BY <1>1, <2>3, ThreadRecords
    <3>3. scan'[s] = w
      BY <1>1, <3>2, Turned DEF ThreadRecord
    <3>4. UNCHANGED <<handle, win, left>>
      BY <2>3 DEF ThreadStep, Begin, Enumerate, PassOver, Visit, EndWalk, PostDone
    <3>5. scan[r].pc # "starting" /\ w.pc # "starting"
      BY <3>1, <3>2 DEF ThreadRecord
    <3>6. handle = r /\ (scan[r].pc \in {"counting", "walking"} => job.running)
      BY <2>2, <3>4, <3>5
    <3>7. w.pc \in {"counting", "walking"} => job'.running
      <4>1. CASE Begin(s)
        BY <1>1, <4>1 DEF Begin
      <4>2. CASE w.pc \in {"ending", "over"}
        BY <4>2
      <4>3. CASE scan[r].pc \in {"counting", "walking"} /\ (UNCHANGED job \/ job' = [job EXCEPT !.found = @ + 1])
        BY <1>1, <3>6, <4>3
      <4> QED
        BY <3>1, <3>2, <4>1, <4>2, <4>3 DEF ThreadRecord, Enumerate
    <3> QED
      BY <3>1, <3>3, <3>4, <3>5, <3>6, <3>7
  <2>4. CASE Started
    <3>1. PICK w \in Scan : Latest \in DOMAIN scan /\ scan' = [scan EXCEPT ![Latest] = w]
                           /\ ((w.pc = "created" /\ handle' = Latest) \/ w.pc = "never")
      BY <1>1, <2>4, Created
    <3>2. scan'[Latest] = w
      BY <1>1, <3>1, Turned
    <3>3. w.pc # "never"
      BY <2>1, <3>2 DEF Alone, Live
    <3> QED
      BY <2>1, <3>1, <3>2, <3>3
  <2>5. CASE Cancelled /\ InLoop /\ UNCHANGED <<handle, left>>
    <3>1. scan'[r].pc = scan[r].pc
      BY <1>1, <2>1, <2>5, Told
    <3>2. job'.running = job.running
      BY <1>1, <2>5 DEF Cancelled
    <3>3. scan[r].pc # "starting" /\ win # "gone"
      BY <2>1, <2>5 DEF InLoop, Starting
    <3> QED
      BY <2>2, <2>5, <3>1, <3>2, <3>3
  <2>6. CASE HandleDone
    <3>1. /\ UNCHANGED <<job, scan, win>> /\ InLoop
          /\ left' = left \cup {s \in DOMAIN scan : s = handle /\ Live(s)}
      BY <2>6 DEF HandleDone, Received
    <3>2. scan[r].pc # "starting"
      BY <2>1, <3>1 DEF InLoop, Starting
    <3>3. Live(r) /\ r \notin left
      BY <2>1, <3>1 DEF Alone
    <3>4. handle = r
      BY <2>2, <3>1, <3>2, <3>3
    <3> QED
      BY <2>1, <3>1, <3>3, <3>4
  <2>7. CASE UNCHANGED <<job, scan, handle, win, left>>
    BY <2>2, <2>7
  <2> QED
    BY <1>3, <2>3, <2>4, <2>5, <2>6, <2>7, Steps DEF Exit, WaitEnds, Destroyed
<1> QED
  BY <1>2, <1>3

\* The window goes from a message loop with the flag not set, or after the wait for
\* the thread it holds.
LEMMA LeftStep ==
  ASSUME TypeOK, JobIsOnes, Held, NobodyLeft, [Next]_vars
  PROVE  NobodyLeft'
<1>1. ScansOK
  BY DEF TypeOK
<1> SUFFICES ASSUME win' = "gone", NEW r \in DOMAIN scan', Live(r)', scan'[r].pc # "ending",
                    ~scan'[r].crossed, r \notin left'
             PROVE  FALSE
  BY DEF NobodyLeft
<1>2. Alone(r)'
  BY DEF Alone
<1>3. CASE Exit \/ WaitEnds
  <2>1. UNCHANGED <<job, scan, handle>> /\ left \subseteq left' /\ r \notin left /\ win # "gone"
    BY <1>3 DEF Exit, WaitEnds, InLoop
  <2>2. r \in DOMAIN scan /\ Alone(r) /\ r = Latest /\ scan[r].pc # "ending"
    BY <1>2, <2>1 DEF Alone, Live, JobIsOnes
  <2>3. IF scan[r].pc = "starting" THEN win = "loop"
        ELSE handle = r /\ (scan[r].pc \in {"counting", "walking"} => job.running)
    BY <2>1, <2>2 DEF Held
  <2>4. scan[r].pc \in {"starting", "created", "counting", "walking"}
    <3>1. scan[r] \in Scan
      BY <1>1, <2>2 DEF ScansOK
    <3> QED
      BY <2>2, <3>1 DEF Scan, Alone, Live
  <2>5. CASE Exit
    <3>1. InLoop /\ ~job.running /\ scan[r].pc # "created"
      BY <2>2, <2>5 DEF Exit
    <3>2. scan[r].pc # "starting"
      BY <2>2, <3>1 DEF InLoop, Starting
    <3> QED
      BY <2>3, <2>4, <3>1, <3>2
  <2>6. CASE WaitEnds
    <3>1. win = "wait" /\ left' = left \cup {s \in DOMAIN scan : s = handle /\ Live(s)}
      BY <2>6 DEF WaitEnds
    <3>2. handle = r
      BY <2>3, <3>1
    <3> QED
      BY <2>2, <3>1, <3>2 DEF Alone
  <2> QED
    BY <1>3, <2>5, <2>6
<1>4. CASE win = "gone"
  <2>1. UNCHANGED <<scan, win, left>>
    BY <1>4 DEF Next, vars
  <2> QED
    BY <1>4, <2>1 DEF NobodyLeft, Live
<1>5. ~(Exit \/ WaitEnds) => UNCHANGED win \/ win' \in {"loop", "wait"}
  BY Steps DEF Launch, NewScan, Started, ThreadStep, Begin, Enumerate, PassOver, Visit, EndWalk, PostDone, HandleDone
<1> QED
  BY <1>3, <1>4, <1>5

-----------------------------------------------------------------------------
(* While scans are not started over one another.                           *)

\* A launch with nothing left of the scans before it.
LEMMA LaunchInOrder ==
  ASSUME TypeOK, NEW up, Launch(up), ~overlap'
  PROVE  InOrder'
<1>1. queue' = <<>> /\ boxes' = <<>> /\ dets' = <<>> /\ \A s \in DOMAIN scan : ~Live(s)
  <2>1. PICK target : NewScan(up, target)
    BY DEF Launch
  <2>2. ~(overlap \/ queue # <<>> \/ up # <<>> \/ {s \in DOMAIN scan : Live(s)} # {})
    BY <2>1, Zenon DEF NewScan
  <2> QED
    BY <2>1, <2>2 DEF NewScan, Launch
<1>2. /\ DOMAIN scan' = DOMAIN scan \cup {Len(scan) + 1} /\ Latest' = Len(scan) + 1
      /\ \A s \in DOMAIN scan : scan'[s].pc = scan[s].pc
      /\ scan'[Len(scan) + 1].acts = {} /\ scan'[Len(scan) + 1].hits = {}
      /\ scan'[Len(scan) + 1].pc = "starting"
  <2>1. ScansOK
    BY DEF TypeOK
  <2>2. PICK target \in SUBSET Files, c \in BOOLEAN : scan'[Len(scan) + 1] = New(target, c)
    BY <2>1, Launched
  <2>3. /\ scan'[Len(scan) + 1].acts = {} /\ scan'[Len(scan) + 1].hits = {}
        /\ scan'[Len(scan) + 1].pc = "starting"
    BY <2>2, NewRecord
  <2>4. /\ DOMAIN scan' = DOMAIN scan \cup {Len(scan) + 1} /\ Len(scan') = Len(scan) + 1
        /\ \A s \in DOMAIN scan : scan'[s].pc = scan[s].pc
    BY <2>1, Launched
  <2> QED
    BY <2>3, <2>4 DEF Latest
<1>3. DOMAIN queue' = {} /\ DOMAIN boxes' = {}
  BY <1>1
<1>4. LatestAlone'
  BY <1>1, <1>2 DEF LatestAlone, Live
<1>5. Awaited' = {} /\ ToSet(dets') = {}
  BY <1>1, <1>3, NoDets DEF Awaited
<1>6. FoundCounts' /\ DetsComplete'
  BY <1>2, <1>5 DEF FoundCounts, DetsComplete
<1>7. EndComesLast' /\ OneBoxAbout' /\ BoxesTellTrue'
  BY <1>3 DEF EndComesLast, OneBoxAbout, BoxesTellTrue
<1> QED
  BY <1>4, <1>6, <1>7 DEF InOrder

\* A step that puts up no box but a question before a scan or the exit, and
\* leaves what the scans said alone.
LEMMA QuietStep ==
  ASSUME InOrder, DOMAIN scan' = DOMAIN scan, Len(scan') = Len(scan), Latest \in DOMAIN scan,
         \A s \in DOMAIN scan : /\ Live(s)' => Live(s)
                                /\ scan'[s].pc \in {"starting", "created"} => scan[s].pc \in {"starting", "created"}
                                /\ scan'[s].hits = scan[s].hits /\ scan'[s].acts = scan[s].acts,
         job'.found = job.found, UNCHANGED <<queue, lost, dets>>, vaulted \subseteq vaulted',
         \A i \in DOMAIN boxes' : boxes'[i].kind \in {"ask", "exit"} \/ (i \in DOMAIN boxes /\ boxes'[i] = boxes[i])
  PROVE  InOrder'
<1> DEFINE l == Latest
<1>1. /\ Latest' = l /\ Awaited' = Awaited /\ scan'[l].acts = scan[l].acts /\ scan'[l].hits = scan[l].hits
      /\ scan'[l].pc \in {"starting", "created"} => scan[l].pc \in {"starting", "created"}
  BY DEF Latest, Awaited
<1>2. \A s \in DOMAIN scan : scan'[s].pc \notin {"over", "never"} => scan[s].pc \notin {"over", "never"}
  BY DEF Live
<1>3. scan[l].pc \in {"over", "never"} => scan'[l].pc \in {"over", "never"}
  BY <1>2
<1>4. Finished => Finished'
  BY <1>1, <1>3 DEF Finished, Live
<1>5. LatestAlone'
  BY <1>1, <1>2 DEF InOrder, LatestAlone, Live
<1>6. FoundCounts'
  BY <1>1 DEF InOrder, FoundCounts
<1>7. EndComesLast'
  BY <1>1, <1>3 DEF InOrder, EndComesLast, Live
<1>8. OneBoxAbout'
  <2>1. \A i \in DOMAIN boxes' : boxes'[i].kind \notin {"ask", "exit"} => i \in DOMAIN boxes /\ boxes'[i] = boxes[i]
    OBVIOUS
  <2>2. OneBoxAbout
    BY DEF InOrder
  <2> QED
    BY <1>4, <2>1, <2>2 DEF OneBoxAbout
<1>9. BoxesTellTrue'
  <2>1. BoxesTellTrue
    BY DEF InOrder
  <2>2. ASSUME NEW i \in DOMAIN boxes', boxes'[i].kind \notin {"ask", "exit"}
        PROVE  i \in DOMAIN boxes /\ boxes'[i] = boxes[i]
    BY <2>2
  <2> QED
    BY <1>1, <2>1, <2>2 DEF BoxesTellTrue
<1>10. DetsComplete'
  <2>1. DetsComplete
    BY DEF InOrder
  <2> QED
    BY <1>1, <1>4, <2>1 DEF DetsComplete
<1> QED
  BY <1>5, <1>6, <1>7, <1>8, <1>9, <1>10 DEF InOrder

\* While the latest scan is under way, no box is up about it and no end is posted.
LEMMA UnderWay ==
  ASSUME InOrder, Live(Latest)
  PROVE  /\ \A i \in DOMAIN boxes : boxes[i].kind \in {"ask", "exit"}
         /\ \A i \in DOMAIN queue : queue[i].type # "done"
         /\ ~Finished
BY DEF InOrder, OneBoxAbout, EndComesLast, Finished

LEMMA ThreadInOrder ==
  ASSUME TypeOK, InOrder, Latest \in DOMAIN scan, NEW s \in DOMAIN scan, ThreadStep(s)
  PROVE  InOrder'
<1>1. QueueOK /\ ScansOK /\ job \in [running : BOOLEAN, cancel : BOOLEAN, found : Nat, target : SUBSET Files]
  BY DEF TypeOK, JobOK
<1>2. /\ DOMAIN scan' = DOMAIN scan /\ Len(scan') = Len(scan) /\ Live(s) /\ s = Latest /\ Latest' = Latest
      /\ \A r \in DOMAIN scan \ {s} : scan'[r] = scan[r]
  BY ThreadChanges DEF InOrder, LatestAlone, Latest
<1>3. /\ \A i \in DOMAIN boxes : boxes[i].kind \in {"ask", "exit"}
      /\ \A i \in DOMAIN queue : queue[i].type # "done"
      /\ ~Finished
  BY <1>2, UnderWay
<1>4. PICK w : ThreadRecord(s, w)
  BY <1>1, ThreadRecords
<1>5. scan'[s] = w
  BY <1>1, <1>4, Turned DEF ThreadRecord
<1>6. LatestAlone'
  BY <1>2 DEF InOrder, LatestAlone, Live
<1>7. UNCHANGED <<boxes, dets, vaulted>>
  BY DEF ThreadStep, Begin, Enumerate, PassOver, Visit, EndWalk, PostDone
<1>8. OneBoxAbout' /\ BoxesTellTrue'
  BY <1>3, <1>7 DEF OneBoxAbout, BoxesTellTrue
<1>9. FoundCounts'
  <2>1. Awaited' \subseteq w.acts
    BY <1>2, <1>5, ThreadAwaited, ThreadChanges DEF InOrder, FoundCounts
  <2>2. w.pc \notin {"starting", "created"}
    BY <1>4 DEF ThreadRecord
  <2>3. scan[s].pc \in {"starting", "created"} \/ job.found = 0 => scan[s].hits = {}
    BY <1>2 DEF InOrder, FoundCounts
  <2>4. job'.found = 0 => w.hits = {}
    <3>1. CASE Begin(s) /\ scan[s].pc = "created" /\ w.hits = scan[s].hits
      BY <2>3, <3>1
    <3>2. CASE (EndWalk(s) \/ PostDone(s)) /\ w.hits = scan[s].hits
      <4>1. job'.found = job.found
        BY <1>1, <3>2 DEF EndWalk, PostDone
      <4> QED
        BY <2>3, <3>2, <4>1
    <3>3. CASE UNCHANGED job /\ w.hits = scan[s].hits
      BY <2>3, <3>3
    <3>4. CASE job' = [job EXCEPT !.found = @ + 1]
      <4>1. \A n \in Nat : n + 1 # 0
        OBVIOUS
      <4>2. job.found \in Nat /\ job'.found = job.found + 1
        BY <1>1, <3>4
      <4> QED
        BY <4>1, <4>2
    <3> QED
      BY <1>4, <3>1, <3>2, <3>3, <3>4 DEF ThreadRecord, Same, Enumerate
  <2> QED
    BY <1>2, <1>5, <2>1, <2>2, <2>4 DEF FoundCounts
<1>10. EndComesLast'
  <2> SUFFICES ASSUME NEW i \in DOMAIN queue', queue'[i].type = "done"
               PROVE  ~Live(Latest)' /\ \A j \in DOMAIN queue' : j > i => queue'[j].type = "shield"
    BY DEF EndComesLast
  <2>1. CASE UNCHANGED queue
    BY <1>3, <2>1
  <2>2. ASSUME NEW f \in Files, NEW act \in BOOLEAN, Report(Hit(f, act))  PROVE FALSE
    <3>1. Hit(f, act) \in Messages /\ Hit(f, act).type = "hit"
      BY MessageTypes, MessageIs
    <3>2. (i \in DOMAIN queue /\ queue'[i] = queue[i]) \/ queue'[i] = Hit(f, act)
      BY <1>1, <2>2, <3>1, Posted
    <3> QED
      BY <1>3, <3>1, <3>2
  <2>3. CASE PostDone(s) /\ w.pc = "over"
    <3>1. Report(Over) /\ Over \in Messages
      BY <2>3, MessageTypes DEF PostDone
    <3>2. i \notin DOMAIN queue
      BY <1>1, <1>3, <3>1, Posted
    <3>3. \A j \in DOMAIN queue' : j <= i
      BY <1>1, <3>1, <3>2, Posted
    <3>4. DOMAIN queue' \subseteq Nat
      BY <1>1, <3>1, Posted
    <3>5. \A j \in DOMAIN queue' : ~(j > i)
      BY <3>3, <3>4
    <3> QED
      BY <1>2, <1>5, <2>3, <3>5 DEF Live
  <2> QED
    BY <1>4, <2>1, <2>2, <2>3 DEF ThreadRecord, Same, Begin, Enumerate, EndWalk
<1>11. DetsComplete'
  <2>1. ToSet(dets) \subseteq scan[s].acts /\ (lost \/ scan[s].acts \subseteq ToSet(dets) \cup Awaited)
    BY <1>2, <1>3 DEF InOrder, DetsComplete
  <2>2. scan[s].acts \subseteq w.acts /\ Awaited \subseteq Awaited'
    BY <1>5, ThreadChanges, ThreadAwaited
  <2>3. lost' \/ w.acts \subseteq ToSet(dets) \cup Awaited'
    <3>1. CASE w.acts = scan[s].acts /\ UNCHANGED lost
      BY <2>1, <2>2, <3>1
    <3>2. ASSUME NEW m \in Messages, Report(m),
                 w.acts = scan[s].acts \/ (m.type = "hit" /\ m.act /\ w.acts = scan[s].acts \cup {m.path})
          PROVE  lost' \/ w.acts \subseteq ToSet(dets) \cup Awaited'
      <4>1. lost' \in {lost, TRUE} /\ (m.type = "hit" /\ m.act => lost' \/ m.path \in Awaited')
        BY <1>1, <3>2, Posted, PostedAwaited
      <4>2. lost => lost'
        BY <4>1, Zenon
      <4>3. scan[s].acts \subseteq ToSet(dets) \cup Awaited => scan[s].acts \subseteq ToSet(dets) \cup Awaited'
        BY <2>2
      <4>4. CASE w.acts = scan[s].acts
        BY <2>1, <4>2, <4>3, <4>4, Zenon
      <4>5. CASE m.type = "hit" /\ m.act /\ w.acts = scan[s].acts \cup {m.path}
        <5>1. CASE m.path \in Awaited' /\ scan[s].acts \subseteq ToSet(dets) \cup Awaited'
          BY <4>5, <5>1
        <5> QED
          BY <2>1, <4>1, <4>2, <4>3, <4>5, <5>1, Zenon
      <4> QED
        BY <3>2, <4>4, <4>5
    <3>3. ASSUME NEW f \in Files, NEW act \in BOOLEAN, Report(Hit(f, act)),
                 w.acts = IF act THEN scan[s].acts \cup {f} ELSE scan[s].acts
          PROVE  lost' \/ w.acts \subseteq ToSet(dets) \cup Awaited'
      <4>1. /\ Hit(f, act) \in Messages /\ Hit(f, act).type = "hit" /\ Hit(f, act).path = f
            /\ Hit(f, act).act = act
        BY MessageTypes, MessageIs
      <4>2. w.acts = scan[s].acts \/ (Hit(f, act).type = "hit" /\ Hit(f, act).act
                                      /\ w.acts = scan[s].acts \cup {Hit(f, act).path})
        BY <3>3, <4>1
      <4> QED
        BY <3>2, <3>3, <4>1, <4>2
    <3>4. CASE PostDone(s) /\ w.acts = scan[s].acts
      <4>1. Report(Over) /\ Over \in Messages
        BY <3>4, MessageTypes DEF PostDone
      <4> QED
        BY <3>2, <3>4, <4>1
    <3> QED
      BY <1>4, <3>1, <3>3, <3>4 DEF ThreadRecord, Same, Begin, Enumerate, EndWalk
  <2> QED
    BY <1>2, <1>5, <1>7, <2>1, <2>2, <2>3 DEF DetsComplete
<1> QED
  BY <1>6, <1>8, <1>9, <1>10, <1>11 DEF InOrder

LEMMA ShieldInOrder ==
  ASSUME TypeOK, InOrder, NEW p \in Files, ShieldReports(p)
  PROVE  InOrder'
<1> DEFINE m == ShieldHit(p)
<1>1. QueueOK /\ m \in Messages /\ m.type = "shield" /\ Post(m)
  BY MessageTypes, MessageIs DEF TypeOK, ShieldReports
<1>2. UNCHANGED <<dets, job, scan, boxes, vaulted>>
  BY DEF ShieldReports
<1> HIDE DEF m
<1>3. /\ \A i \in DOMAIN queue : i \in DOMAIN queue' /\ queue'[i] = queue[i]
      /\ \A i \in DOMAIN queue' : i \in DOMAIN queue \/ (queue'[i] = m /\ \A j \in DOMAIN queue : j < i)
      /\ lost' \in {lost, TRUE}
  BY <1>1, Posted
<1>4. Awaited' = Awaited
  BY <1>1, PostedAwaited
<1>5. lost => lost'
  BY <1>3, Zenon
<1>6. Latest' = Latest /\ (Live(Latest)' <=> Live(Latest))
  BY <1>2 DEF Latest, Live
<1>7. Finished => Finished'
  BY <1>1, <1>3, <1>6 DEF Finished
<1>8. LatestAlone' /\ FoundCounts'
  BY <1>2, <1>4, <1>6 DEF InOrder, LatestAlone, FoundCounts, Live
<1>9. EndComesLast'
  <2> SUFFICES ASSUME NEW i \in DOMAIN queue', queue'[i].type = "done"
               PROVE  ~Live(Latest)' /\ \A j \in DOMAIN queue' : j > i => queue'[j].type = "shield"
    BY DEF EndComesLast
  <2>1. i \in DOMAIN queue /\ queue[i].type = "done"
    BY <1>1, <1>3
  <2>2. ~Live(Latest) /\ \A j \in DOMAIN queue : j > i => queue[j].type = "shield"
    BY <2>1 DEF InOrder, EndComesLast
  <2> QED
    BY <1>1, <1>3, <1>6, <2>2
<1>10. OneBoxAbout'
  BY <1>2, <1>7 DEF InOrder, OneBoxAbout
<1>11. BoxesTellTrue'
  <2> SUFFICES ASSUME NEW i \in DOMAIN boxes
               PROVE  /\ boxes[i].kind = "choose" =>
                           ToSet(boxes[i].about) = ToSet(dets) /\ (lost' \/ scan[Latest].acts = ToSet(dets))
                      /\ boxes[i].kind = "clean" => scan[Latest].hits = {}
                      /\ boxes[i].kind = "quarantined" => lost' \/ scan[Latest].acts \subseteq vaulted
    BY <1>2, <1>6 DEF BoxesTellTrue
  <2> QED
    BY <1>5, Zenon DEF InOrder, BoxesTellTrue
<1>12. DetsComplete'
  <2> SUFFICES /\ ToSet(dets) \subseteq scan[Latest].acts
               /\ lost' \/ scan[Latest].acts \subseteq ToSet(dets) \cup Awaited \cup vaulted
               /\ lost' \/ Finished' \/ scan[Latest].acts \subseteq ToSet(dets) \cup Awaited
    BY <1>2, <1>4, <1>6 DEF DetsComplete
  <2> QED
    BY <1>5, <1>7, Zenon DEF InOrder, DetsComplete
<1> QED
  BY <1>8, <1>9, <1>10, <1>11, <1>12 DEF InOrder

\* A message taken: what was behind it still is, one place on.
LEMMA TakenInOrder ==
  ASSUME TypeOK, InOrder, NEW type, Received(type), UNCHANGED scan
  PROVE  /\ EndComesLast' /\ LatestAlone' /\ (Finished => Finished')
         /\ Latest' = Latest /\ (Live(Latest)' <=> Live(Latest))
<1>1. /\ \A i \in DOMAIN queue' : i + 1 \in DOMAIN queue /\ queue'[i] = queue[i + 1]
      /\ DOMAIN queue \subseteq Nat /\ DOMAIN queue' \subseteq Nat
  BY Taken DEF TypeOK, QueueOK
<1>2. Latest' = Latest /\ (Live(Latest)' <=> Live(Latest))
  BY DEF Latest, Live
<1>3. Finished => Finished'
  BY <1>1, <1>2 DEF Finished
<1>4. EndComesLast'
  <2> SUFFICES ASSUME NEW i \in DOMAIN queue', queue'[i].type = "done"
               PROVE  ~Live(Latest)' /\ \A j \in DOMAIN queue' : j > i => queue'[j].type = "shield"
    BY DEF EndComesLast
  <2>1. i + 1 \in DOMAIN queue /\ queue[i + 1].type = "done"
    BY <1>1
  <2>2. ~Live(Latest) /\ \A j \in DOMAIN queue : j > i + 1 => queue[j].type = "shield"
    BY <2>1 DEF InOrder, EndComesLast
  <2>3. ASSUME NEW j \in DOMAIN queue', j > i  PROVE queue'[j].type = "shield"
    <3>1. j + 1 > i + 1
      BY <1>1, <2>3
    <3> QED
      BY <1>1, <2>2, <3>1
  <2> QED
    BY <1>2, <2>2, <2>3
<1>5. LatestAlone'
  BY <1>2 DEF InOrder, LatestAlone, Live
<1> QED
  BY <1>2, <1>3, <1>4, <1>5

LEMMA HitInOrder ==
  ASSUME TypeOK, InOrder, HandleHit
  PROVE  InOrder'
<1>1. PICK type \in {"hit", "shield"} : Received(type) /\ (type = "shield" => UNCHANGED dets)
                                     /\ (type = "hit" => dets' = IF Head(queue).act THEN Append(dets, Head(queue).path) ELSE dets)
  BY HitEffect
<1>2. UNCHANGED <<job, scan, boxes, vaulted, lost>>
  BY DEF HandleHit
<1>3. QueueOK /\ dets \in Seq(Files) /\ Head(queue).path \in Files
  BY HitPath DEF TypeOK, DetsOK
<1>4. /\ EndComesLast' /\ LatestAlone' /\ (Finished => Finished')
      /\ Latest' = Latest /\ (Live(Latest)' <=> Live(Latest))
  BY <1>1, <1>2, TakenInOrder
<1>5. /\ Awaited' \subseteq Awaited
      /\ \A p \in Awaited : p \in Awaited' \/ (type = "hit" /\ Head(queue).act /\ p = Head(queue).path)
      /\ type = "hit" /\ Head(queue).act => Head(queue).path \in Awaited
  BY <1>1, <1>3, TakenAwaited
<1>6. FoundCounts'
  BY <1>2, <1>4, <1>5 DEF InOrder, FoundCounts
<1>7. OneBoxAbout'
  BY <1>2, <1>4 DEF InOrder, OneBoxAbout
<1>8. Finished => UNCHANGED dets
  <2>1. 1 \in DOMAIN queue /\ queue[1].type = type
    BY <1>1, <1>3, Taken
  <2> QED
    BY <1>1, <2>1 DEF Finished
<1>9. BoxesTellTrue'
  <2> SUFFICES ASSUME NEW i \in DOMAIN boxes, boxes[i].kind \notin {"ask", "exit"}
               PROVE  /\ boxes[i].kind = "choose" =>
                           ToSet(boxes[i].about) = ToSet(dets)' /\ (lost \/ scan[Latest].acts = ToSet(dets)')
                      /\ boxes[i].kind = "clean" => scan[Latest].hits = {}
                      /\ boxes[i].kind = "quarantined" => lost \/ scan[Latest].acts \subseteq vaulted
    BY <1>2, <1>4 DEF BoxesTellTrue
  <2>1. ToSet(dets)' = ToSet(dets)
    BY <1>8 DEF InOrder, OneBoxAbout
  <2> QED
    BY <2>1, Zenon DEF InOrder, BoxesTellTrue
<1>10. /\ ToSet(dets)' \subseteq ToSet(dets) \cup Awaited
       /\ ToSet(dets) \cup Awaited \subseteq ToSet(dets)' \cup Awaited'
  <2>1. CASE type = "hit" /\ Head(queue).act
    <3>1. ToSet(dets)' = ToSet(dets) \cup {Head(queue).path}
      BY <1>1, <1>3, <2>1, OneMoreDet
    <3> QED
      BY <1>5, <2>1, <3>1
  <2>2. CASE ~(type = "hit" /\ Head(queue).act)
    <3>1. UNCHANGED dets
      BY <1>1, <2>2, Zenon
    <3> QED
      BY <1>5, <2>2, <3>1
  <2> QED
    BY <2>1, <2>2
<1>11. DetsComplete'
  <2> SUFFICES /\ ToSet(dets)' \subseteq scan[Latest].acts
               /\ lost \/ scan[Latest].acts \subseteq ToSet(dets)' \cup Awaited' \cup vaulted
               /\ lost \/ Finished' \/ scan[Latest].acts \subseteq ToSet(dets)' \cup Awaited'
    BY <1>2, <1>4 DEF DetsComplete
  <2>1. ToSet(dets)' \subseteq scan[Latest].acts
    BY <1>10 DEF InOrder, FoundCounts, DetsComplete
  <2>2. scan[Latest].acts \subseteq ToSet(dets) \cup Awaited \cup vaulted
        => scan[Latest].acts \subseteq ToSet(dets)' \cup Awaited' \cup vaulted
    BY <1>10
  <2>3. scan[Latest].acts \subseteq ToSet(dets) \cup Awaited
        => scan[Latest].acts \subseteq ToSet(dets)' \cup Awaited'
    BY <1>10
  <2> QED
    BY <1>4, <2>1, <2>2, <2>3, Zenon DEF InOrder, DetsComplete
<1> QED
  BY <1>4, <1>6, <1>7, <1>9, <1>11 DEF InOrder

\* The end of the scan: nothing more of it is to come, and no box is up about it.
LEMMA DoneInOrder ==
  ASSUME TypeOK, InOrder, HandleDone
  PROVE  InOrder'
<1>1. Received("done") /\ UNCHANGED <<dets, job, scan, vaulted, lost>>
  BY DEF HandleDone
<1>2. QueueOK /\ boxes \in Seq(Boxes) /\ dets \in Seq(Files) /\ <<>> \in Seq(Files)
      /\ job.found \in Nat
  BY EmptySeq DEF TypeOK, DetsOK, BoxesOK, JobOK
<1>3. /\ 1 \in DOMAIN queue /\ queue[1].type = "done" /\ DOMAIN queue' \subseteq Nat \ {0}
      /\ \A i \in DOMAIN queue' : i + 1 \in DOMAIN queue /\ queue'[i] = queue[i + 1]
  BY <1>1, <1>2, Taken
<1>4. /\ EndComesLast' /\ LatestAlone'
      /\ Latest' = Latest /\ (Live(Latest)' <=> Live(Latest))
  BY <1>1, TakenInOrder
<1>5. ~Live(Latest) /\ \A j \in DOMAIN queue : j > 1 => queue[j].type = "shield"
  BY <1>3 DEF InOrder, EndComesLast
<1>6. \A i \in DOMAIN queue' : i + 1 > 1
  BY <1>3
<1>7. \A i \in DOMAIN queue' : queue'[i].type = "shield"
  BY <1>3, <1>5, <1>6
<1>8. Finished' /\ Awaited' = {}
  BY <1>4, <1>5, <1>7 DEF Finished, Awaited
<1>9. ~Finished /\ \A i \in DOMAIN boxes : boxes[i].kind \in {"ask", "exit"}
  BY <1>3 DEF InOrder, Finished, OneBoxAbout
<1>10. Awaited = {}
  <2>1. \A p \in Awaited : p \in Awaited'
    BY <1>1, <1>2, TakenAwaited
  <2> QED
    BY <1>8, <2>1
<1>11. /\ ToSet(dets) \subseteq scan[Latest].acts
       /\ lost \/ scan[Latest].acts = ToSet(dets)
       /\ job.found = 0 => scan[Latest].hits = {}
  <2>1. ToSet(dets) \subseteq scan[Latest].acts /\ (lost \/ scan[Latest].acts \subseteq ToSet(dets) \cup Awaited)
        /\ (job.found = 0 => scan[Latest].hits = {})
    BY <1>9 DEF InOrder, DetsComplete, FoundCounts
  <2>2. scan[Latest].acts \subseteq ToSet(dets) \cup Awaited => scan[Latest].acts = ToSet(dets)
    BY <1>10, <2>1
  <2> QED
    BY <2>1, <2>2, Zenon
<1>12. FoundCounts'
  BY <1>1, <1>4, <1>8 DEF InOrder, FoundCounts
<1>13. DetsComplete'
  <2> SUFFICES /\ ToSet(dets) \subseteq scan[Latest].acts
               /\ lost \/ scan[Latest].acts \subseteq ToSet(dets) \cup {} \cup vaulted
    BY <1>1, <1>4, <1>8 DEF DetsComplete
  <2>1. scan[Latest].acts = ToSet(dets) => scan[Latest].acts \subseteq ToSet(dets) \cup {} \cup vaulted
    OBVIOUS
  <2> QED
    BY <1>11, <2>1, Zenon
<1>14. \/ boxes' = boxes
       \/ boxes' = Append(boxes, Box("clean", <<>>)) /\ job.found = 0
       \/ boxes' = Append(boxes, Box("choose", dets))
  BY DEF HandleDone
<1>15. \A i \in DOMAIN boxes' :
         \/ boxes'[i].kind \in {"ask", "exit"}
         \/ /\ \A j \in DOMAIN boxes' : boxes'[j].kind \notin {"ask", "exit"} => j = i
            /\ \/ boxes'[i].kind = "clean" /\ job.found = 0
               \/ boxes'[i].kind = "choose" /\ boxes'[i].about = dets
  <2>1. CASE boxes' = boxes
    BY <1>9, <2>1
  <2>2. ASSUME NEW k \in {"clean", "choose"}, NEW about \in Seq(Files), boxes' = Append(boxes, Box(k, about))
        PROVE  /\ DOMAIN boxes' = DOMAIN boxes \cup {Len(boxes) + 1}
               /\ boxes'[Len(boxes) + 1].kind = k /\ boxes'[Len(boxes) + 1].about = about
               /\ \A i \in DOMAIN boxes : boxes'[i].kind \in {"ask", "exit"}
    <3>1. k \in Kinds
      BY DEF Kinds
    <3> QED
      BY <1>2, <1>9, <2>2, <3>1, PutUp
  <2>3. CASE boxes' = Append(boxes, Box("clean", <<>>)) /\ job.found = 0
    BY <1>2, <2>2, <2>3
  <2>4. CASE boxes' = Append(boxes, Box("choose", dets))
    BY <1>2, <2>2, <2>4
  <2> QED
    BY <1>14, <2>1, <2>3, <2>4
<1>16. OneBoxAbout'
  BY <1>8, <1>15 DEF OneBoxAbout
<1>17. BoxesTellTrue'
  BY <1>1, <1>4, <1>11, <1>15 DEF BoxesTellTrue
<1> QED
  BY <1>4, <1>12, <1>13, <1>16, <1>17 DEF InOrder

\* Yes: the question gives way to the count, when all it was about is handed over.
LEMMA YesInOrder ==
  ASSUME TypeOK, InOrder, AnswerYes
  PROVE  InOrder'
<1>1. /\ Up("choose") /\ vaulted' = vaulted \cup ToSet(dets)
      /\ boxes' = Append(Popped, Box("quarantined", <<>>))
      /\ UNCHANGED <<dets, job, scan, queue, lost>>
  BY DEF AnswerYes
<1>2. BoxesOK /\ <<>> \in Seq(Files) /\ "quarantined" \in Kinds
  BY EmptySeq DEF TypeOK, Kinds
<1> DEFINE n == Len(boxes)
<1>3. /\ Popped \in Seq(Boxes) /\ n \in DOMAIN boxes /\ boxes[n].kind = "choose"
      /\ DOMAIN Popped = DOMAIN boxes \ {n} /\ \A i \in DOMAIN Popped : Popped[i] = boxes[i]
  BY <1>1, <1>2, Closed
<1> HIDE DEF n
<1> DEFINE k == Len(Popped) + 1
           bs == Append(Popped, Box("quarantined", <<>>))
<1>3a. /\ DOMAIN bs = DOMAIN Popped \cup {k} /\ bs[k].kind = "quarantined"
       /\ \A i \in DOMAIN Popped : bs[i] = Popped[i]
  <2>1. Box("quarantined", <<>>) \in Boxes /\ Box("quarantined", <<>>).kind = "quarantined"
    BY <1>2 DEF Box, Boxes
  <2> QED
    BY <1>3, <2>1, PushedSeq
<1>4. /\ DOMAIN boxes' = DOMAIN Popped \cup {k} /\ boxes'[k].kind = "quarantined"
      /\ \A i \in DOMAIN Popped : boxes'[i] = Popped[i]
  BY <1>1, <1>3a
<1> HIDE DEF k
<1>5. Finished /\ (\A i \in DOMAIN boxes : boxes[i].kind \notin {"ask", "exit"} => i = n)
      /\ (lost \/ scan[Latest].acts = ToSet(dets))
  BY <1>3 DEF InOrder, OneBoxAbout, BoxesTellTrue
<1>6. \A i \in DOMAIN boxes' : i = k \/ boxes'[i].kind \in {"ask", "exit"}
  BY <1>3, <1>4, <1>5
<1>7. Latest' = Latest /\ (Live(Latest)' <=> Live(Latest)) /\ Awaited' = Awaited /\ (Finished' <=> Finished)
  BY <1>1 DEF Latest, Live, Awaited, Finished
<1>8. LatestAlone' /\ FoundCounts' /\ EndComesLast'
  BY <1>1, <1>7 DEF InOrder, LatestAlone, FoundCounts, EndComesLast, Live
<1>9. OneBoxAbout'
  BY <1>4, <1>5, <1>6, <1>7 DEF OneBoxAbout
<1>10. BoxesTellTrue'
  <2> SUFFICES ASSUME NEW i \in DOMAIN boxes', boxes'[i].kind \notin {"ask", "exit"}
               PROVE  /\ boxes'[i].kind = "quarantined"
                      /\ lost \/ scan[Latest].acts \subseteq vaulted'
    BY <1>1, <1>7 DEF BoxesTellTrue
  <2>1. scan[Latest].acts = ToSet(dets) => scan[Latest].acts \subseteq vaulted'
    BY <1>1
  <2>2. boxes'[i].kind = "quarantined"
    BY <1>4, <1>6
  <2> QED
    BY <1>5, <2>1, <2>2, Zenon
<1>11. DetsComplete'
  <2>1. /\ scan[Latest].acts \subseteq ToSet(dets) \cup Awaited \cup vaulted
           => scan[Latest].acts \subseteq ToSet(dets) \cup Awaited \cup vaulted'
    BY <1>1
  <2> QED
    BY <1>1, <1>5, <1>7, <2>1 DEF InOrder, DetsComplete
<1> QED
  BY <1>8, <1>9, <1>10, <1>11 DEF InOrder

\* The count acknowledged: what is no longer kept has been handed over.
LEMMA AcknowledgeInOrder ==
  ASSUME TypeOK, InOrder, Acknowledge
  PROVE  InOrder'
<1>1. /\ Up("quarantined") /\ boxes' = Popped /\ dets' = <<>>
      /\ UNCHANGED <<job, scan, queue, vaulted, lost>>
  BY DEF Acknowledge
<1> DEFINE n == Len(boxes)
<1>2. /\ n \in DOMAIN boxes /\ boxes[n].kind = "quarantined"
      /\ DOMAIN Popped = DOMAIN boxes \ {n} /\ \A i \in DOMAIN Popped : Popped[i] = boxes[i]
  BY <1>1, Closed DEF TypeOK
<1> HIDE DEF n
<1>3. Finished /\ (\A i \in DOMAIN boxes : boxes[i].kind \notin {"ask", "exit"} => i = n)
      /\ (lost \/ scan[Latest].acts \subseteq vaulted)
  BY <1>2 DEF InOrder, OneBoxAbout, BoxesTellTrue
<1>4. \A i \in DOMAIN boxes' : boxes'[i].kind \in {"ask", "exit"}
  BY <1>1, <1>2, <1>3
<1>5. Latest' = Latest /\ (Live(Latest)' <=> Live(Latest)) /\ Awaited' = Awaited /\ (Finished' <=> Finished)
  BY <1>1 DEF Latest, Live, Awaited, Finished
<1>6. LatestAlone' /\ FoundCounts' /\ EndComesLast'
  BY <1>1, <1>5 DEF InOrder, LatestAlone, FoundCounts, EndComesLast, Live
<1>7. OneBoxAbout' /\ BoxesTellTrue'
  BY <1>4 DEF OneBoxAbout, BoxesTellTrue
<1>8. DetsComplete'
  <2>1. ToSet(dets)' = {}
    BY <1>1, NoDets
  <2>2. scan[Latest].acts \subseteq vaulted => scan[Latest].acts \subseteq {} \cup Awaited \cup vaulted
    OBVIOUS
  <2> QED
    BY <1>1, <1>3, <1>5, <2>1, <2>2 DEF DetsComplete
<1> QED
  BY <1>6, <1>7, <1>8 DEF InOrder

\* The window goes, and the messages with it.
LEMMA DestroyedInOrder ==
  ASSUME InOrder, Destroyed, UNCHANGED <<job, scan, dets, boxes, vaulted>>
  PROVE  InOrder'
<1>1. queue' = <<>> /\ lost' = TRUE /\ DOMAIN queue' = {} /\ Awaited' = {}
  BY NoneAwaited DEF Destroyed
<1>2. Latest' = Latest /\ (Live(Latest)' <=> Live(Latest)) /\ (Finished => Finished')
  BY <1>1 DEF Latest, Live, Finished
<1>3. LatestAlone' /\ FoundCounts' /\ EndComesLast'
  BY <1>1, <1>2 DEF InOrder, LatestAlone, FoundCounts, EndComesLast, Live
<1>4. OneBoxAbout'
  BY <1>2 DEF InOrder, OneBoxAbout
<1>5. BoxesTellTrue' /\ DetsComplete'
  BY <1>1, <1>2 DEF InOrder, BoxesTellTrue, DetsComplete
<1> QED
  BY <1>3, <1>4, <1>5 DEF InOrder

LEMMA SerialStep ==
  ASSUME TypeOK, Serial, [Next]_vars
  PROVE  Serial'
<1> SUFFICES ASSUME ~overlap', scan' # <<>>
             PROVE  InOrder'
  BY DEF Serial
<1>1. ScansOK /\ BoxesOK /\ scan \in Seq(Scan)
  BY DEF TypeOK, ScansOK
<1>2. ASSUME NEW up, Launch(up)  PROVE InOrder'
  BY <1>2, LaunchInOrder
<1>3. ASSUME UNCHANGED overlap, DOMAIN scan' = DOMAIN scan, scan' \in Seq(Scan)
      PROVE  InOrder /\ Latest \in DOMAIN scan
  <2>1. Len(scan') \in Nat \ {0} /\ DOMAIN scan' = 1..Len(scan') /\ DOMAIN scan = 1..Len(scan) /\ Len(scan) \in Nat
    BY <1>1, <1>3, EmptySeq
  <2>2. 1 \in DOMAIN scan'
    BY <2>1
  <2>3. 1 \in DOMAIN scan
    BY <1>3, <2>2
  <2>4. Len(scan) \in DOMAIN scan /\ scan # <<>>
    BY <2>1, <2>3
  <2> QED
    BY <1>3, <2>4 DEF Serial, Latest
<1>4. scan' \in Seq(Scan)
  BY ScansType DEF ScansOK
<1>5. ASSUME NEW s \in DOMAIN scan, ThreadStep(s)  PROVE InOrder'
  <2>1. UNCHANGED overlap /\ DOMAIN scan' = DOMAIN scan
    BY <1>5, ThreadChanges DEF ThreadStep, Begin, Enumerate, PassOver, Visit, EndWalk, PostDone
  <2> QED
    BY <1>3, <1>4, <1>5, <2>1, ThreadInOrder
<1>6. ASSUME NEW p \in Files, ShieldReports(p)  PROVE InOrder'
  <2>1. UNCHANGED <<overlap, scan>>
    BY <1>6 DEF ShieldReports
  <2> QED
    BY <1>3, <1>4, <1>6, <2>1, ShieldInOrder
<1>7. CASE HandleHit
  <2>1. UNCHANGED <<overlap, scan>>
    BY <1>7 DEF HandleHit
  <2> QED
    BY <1>3, <1>4, <1>7, <2>1, HitInOrder
<1>8. CASE HandleDone
  <2>1. UNCHANGED <<overlap, scan>>
    BY <1>8 DEF HandleDone
  <2> QED
    BY <1>3, <1>4, <1>8, <2>1, DoneInOrder
<1>9. CASE AnswerYes
  <2>1. UNCHANGED <<overlap, scan>>
    BY <1>9 DEF AnswerYes
  <2> QED
    BY <1>3, <1>4, <1>9, <2>1, YesInOrder
<1>10. CASE Acknowledge
  <2>1. UNCHANGED <<overlap, scan>>
    BY <1>10 DEF Acknowledge
  <2> QED
    BY <1>3, <1>4, <1>10, <2>1, AcknowledgeInOrder
<1>11. CASE StopScan \/ ExitAnswered
  <2>1. /\ DOMAIN scan' = DOMAIN scan /\ Len(scan') = Len(scan)
        /\ \A s \in DOMAIN scan : /\ scan'[s].pc = scan[s].pc
                                  /\ scan'[s].hits = scan[s].hits /\ scan'[s].acts = scan[s].acts
    BY <1>1, <1>11, Told DEF StopScan, ExitAnswered, Same
  <2>2. UNCHANGED <<overlap, queue, lost, dets, vaulted>> /\ job' = [job EXCEPT !.cancel = TRUE]
    BY <1>11 DEF StopScan, ExitAnswered, Cancelled
  <2>3. job'.found = job.found
    BY <2>2 DEF TypeOK, JobOK
  <2>4. \A i \in DOMAIN boxes' : i \in DOMAIN boxes /\ boxes'[i] = boxes[i]
    <3>1. CASE StopScan
      BY <3>1 DEF StopScan
    <3>2. CASE ExitAnswered
      BY <1>1, <3>2, Closed DEF ExitAnswered
    <3> QED
      BY <1>11, <3>1, <3>2
  <2>5. InOrder /\ Latest \in DOMAIN scan
    BY <1>3, <1>4, <2>1, <2>2
  <2>6. \A s \in DOMAIN scan : Live(s)' => Live(s)
    BY <2>1 DEF Live
  <2> QED
    BY <2>1, <2>2, <2>3, <2>4, <2>5, <2>6, QuietStep
<1>19. CASE Started
  <2>1. PICK w \in Scan : /\ Latest \in DOMAIN scan /\ scan' = [scan EXCEPT ![Latest] = w] /\ Same(scan[Latest], w)
                         /\ w.pc \in {"created", "never"} /\ scan[Latest].pc = "starting"
    BY <1>1, <1>19, Created
  <2>2. DOMAIN scan' = DOMAIN scan /\ Len(scan') = Len(scan)
        /\ scan'[Latest] = w /\ \A q \in DOMAIN scan \ {Latest} : scan'[q] = scan[q]
    BY <1>1, <2>1, Turned
  <2>3. UNCHANGED <<overlap, job, queue, lost, dets, vaulted, boxes>>
    BY <1>19 DEF Started
  <2>4. InOrder
    BY <1>3, <1>4, <2>2, <2>3
  <2>5. \A s \in DOMAIN scan : /\ Live(s)' => Live(s)
                               /\ scan'[s].pc \in {"starting", "created"} => scan[s].pc \in {"starting", "created"}
                               /\ scan'[s].hits = scan[s].hits /\ scan'[s].acts = scan[s].acts
    BY <2>1, <2>2 DEF Live, Same
  <2>6. \A i \in DOMAIN boxes' : i \in DOMAIN boxes /\ boxes'[i] = boxes[i]
    BY <2>3
  <2> QED
    BY <2>1, <2>2, <2>3, <2>4, <2>5, <2>6, QuietStep
<1>20. CASE Exit \/ WaitEnds
  <2>1. UNCHANGED <<overlap, job, scan, dets, boxes, vaulted>> /\ Destroyed
    BY <1>20 DEF Exit, WaitEnds
  <2> QED
    BY <1>3, <1>4, <2>1, DestroyedInOrder
<1>12. ASSUME UNCHANGED <<overlap, scan, job, queue, lost, dets>>, vaulted \subseteq vaulted',
              \A i \in DOMAIN boxes' : boxes'[i].kind \in {"ask", "exit"} \/ (i \in DOMAIN boxes /\ boxes'[i] = boxes[i])
       PROVE  InOrder'
  <2>1. \A s \in DOMAIN scan : Live(s)' => Live(s)
    BY <1>12 DEF Live
  <2> QED
    BY <1>3, <1>4, <1>12, <2>1, QuietStep
<1>13. ASSUME NEW k \in {"ask", "exit"}, boxes' = Append(boxes, Box(k, <<>>)),
              UNCHANGED <<overlap, scan, job, queue, lost, dets, vaulted>>
       PROVE  InOrder'
  <2>1. <<>> \in Seq(Files) /\ k \in Kinds /\ boxes \in Seq(Boxes)
    BY <1>1, EmptySeq DEF BoxesOK, Kinds
  <2> DEFINE none == <<>>
             bs == Append(boxes, Box(k, none))
  <2> HIDE DEF none
  <2>2. none \in Seq(Files) /\ boxes' = bs
    BY <1>13, <2>1 DEF none
  <2>3. /\ DOMAIN bs = DOMAIN boxes \cup {Len(boxes) + 1} /\ bs[Len(boxes) + 1].kind = k
        /\ \A i \in DOMAIN boxes : bs[i] = boxes[i]
    BY <2>1, <2>2, PutUp
  <2> HIDE DEF bs
  <2>4. \A i \in DOMAIN bs : bs[i].kind \in {"ask", "exit"} \/ (i \in DOMAIN boxes /\ bs[i] = boxes[i])
    BY <2>3
  <2> QED
    BY <1>12, <1>13, <2>2, <2>4
<1>21. CASE StartAsks \/ ExitAsks
  BY <1>13, <1>21 DEF StartAsks, ExitAsks
<1>14. ASSUME Close, NEW k, Up(k), UNCHANGED <<overlap, scan, job, queue, lost, dets>>, vaulted \subseteq vaulted'
       PROVE  InOrder'
  <2>1. \A i \in DOMAIN boxes' : i \in DOMAIN boxes /\ boxes'[i] = boxes[i]
    BY <1>1, <1>14, Closed DEF Close
  <2> QED
    BY <1>12, <1>14, <2>1
<1>15. CASE AskAnswered
  BY <1>2, <1>14, <1>15 DEF AskAnswered
<1>16. CASE AnswerNo
  BY <1>14, <1>16 DEF AnswerNo
<1>17. CASE Dismiss
  BY <1>14, <1>17 DEF Dismiss
<1>18. CASE UNCHANGED <<overlap, scan, job, queue, lost, dets, boxes, vaulted>>
  BY <1>12, <1>18
<1> QED
  BY <1>2, <1>5, <1>6, <1>7, <1>8, <1>9, <1>10, <1>11, <1>15, <1>16, <1>17, <1>18, <1>19, <1>20, <1>21
     DEF Next, UserStep, Start, ShowPage, Handle, vars

-----------------------------------------------------------------------------
(* The theorems.                                                           *)

LEMMA InitIndInv ==
  ASSUME Init
  PROVE  IndInv
<1>1. <<>> \in Seq(Files) /\ <<>> \in Seq(Scan) /\ <<>> \in Seq(Messages) /\ <<>> \in Seq(Boxes)
      /\ <<>> \in Seq(Files \cup {NoFile}) /\ Len(<<>>) = 0
  BY EmptySeq
<1>2. TypeOK
  <2>1. 0 <= MaxScans /\ 0 <= QueueCap /\ 0 \in 0..MaxShieldHits /\ 0 \in 0..0
    BY ScanAssumption
  <2>2. ListOK /\ DetsOK /\ BoxesOK
    BY <1>1, <2>1 DEF Init, ListOK, DetsOK, BoxesOK
  <2>3. ScansOK
    BY <1>1, <2>1 DEF Init, ScansOK
  <2>4. QueueOK
    BY <1>1, <2>1 DEF Init, QueueOK
  <2>5. JobOK /\ lost \in BOOLEAN /\ overlap \in BOOLEAN /\ mixed \in BOOLEAN
    BY DEF Init, JobOK, Reset
  <2>6. win \in {"loop", "wait", "gone"} /\ left \subseteq 1..MaxScans
    BY DEF Init
  <2> QED
    BY <2>2, <2>3, <2>4, <2>5, <2>6 DEF TypeOK
<1>3. Awaited = {} /\ ToSet(dets) = {} /\ DOMAIN scan = {}
  BY NoDets DEF Init, Awaited
<1>4. KeptCanBeActedOn /\ CancelIsSeen /\ EndsEarlyOnlyIfStopped
  BY <1>3 DEF KeptCanBeActedOn, CancelIsSeen, EndsEarlyOnlyIfStopped
<1>5. Serial /\ OnlyActionable /\ RowsAreDets
  BY DEF Init, Serial, OnlyActionable, RowsAreDets
<1>6. JobIsOnes /\ DueKept /\ Held /\ NobodyLeft
  BY <1>3 DEF JobIsOnes, DueKept, Held, NobodyLeft
<1> QED
  BY <1>2, <1>4, <1>5, <1>6 DEF IndInv

LEMMA StepIndInv ==
  ASSUME IndInv, [Next]_vars
  PROVE  IndInv'
BY StepTypeOK, KeptStep, CancelStep, SerialStep, ActionableStep, RowsStep, AloneStep, DueStep, EndsEarlyStep,
   HeldStep, LeftStep DEF IndInv

\* The inductive invariant, for any number of files, scans, boxes and messages.
THEOREM Inductive == Spec => []IndInv
BY InitIndInv, StepIndInv, PTL DEF Spec

\* Every variable stays in its range, whatever overlaps what (src/src/main.c).
THEOREM TypeCorrect == Spec => []TypeOK
<1>1. IndInv => TypeOK
  BY DEF IndInv
<1> QED
  BY <1>1, Inductive, PTL

\* Whatever is selected and however scans overlap, quar_add is handed only paths
\* some scan reported as something to act on (the WM_SCAN_DONE handler of main.c).
THEOREM ActionableOnly == Spec => []OnlyActionable
<1>1. IndInv => OnlyActionable
  BY DEF IndInv
<1> QED
  BY <1>1, Inductive, PTL

\* While no row was added that g_dets does not get and no other page filled the list,
\* what No hands over for a selected row is that row's file (WM_SCAN_HIT, dets_add
\* and the answers of WM_SCAN_DONE in main.c).
THEOREM RowIsItsDetection == Spec => []SelectedAreTaken
<1>1. ASSUME IndInv
      PROVE  SelectedAreTaken
  <2>1. mixed \/ rows = dets
    BY <1>1 DEF IndInv, RowsAreDets
  <2>2. \A i \in 1..seen : i \in DOMAIN rows
    <3>1. seen \in 0..Len(rows) /\ Len(rows) \in Nat /\ DOMAIN rows = 1..Len(rows)
      BY <1>1 DEF IndInv, TypeOK, ListOK
    <3> QED
      BY <3>1
  <2> QED
    BY <2>1, <2>2 DEF SelectedAreTaken
<1> QED
  BY <1>1, Inductive, PTL

\* While scans are not started over one another, none of what the latest reported is
\* missing that the queue has not refused or the user not answered, and what is
\* asked is about all of it (start_scan_path, WM_SCAN_HIT and WM_SCAN_DONE).
THEOREM NoneMissing == Spec => []SerialScansReportAll
<1>1. ASSUME IndInv, ~overlap, scan # <<>>
      PROVE  LET acts == scan[Latest].acts IN
             /\ ToSet(dets) \subseteq acts
             /\ lost \/ acts \subseteq ToSet(dets) \cup Awaited \cup vaulted
             /\ Up("choose") => ToSet(Last(boxes).about) = ToSet(dets) /\ (lost \/ acts = ToSet(dets))
             /\ Up("clean") => scan[Latest].hits = {}
  <2>1. BoxesTellTrue /\ DetsComplete
    BY <1>1 DEF IndInv, Serial, InOrder
  <2>2. \A k : Up(k) => Len(boxes) \in DOMAIN boxes /\ Last(boxes) = boxes[Len(boxes)] /\ boxes[Len(boxes)].kind = k
    BY <1>1, Closed DEF IndInv, TypeOK
  <2> QED
    BY <2>1, <2>2 DEF BoxesTellTrue, DetsComplete
<1>2. IndInv => SerialScansReportAll
  BY <1>1 DEF SerialScansReportAll
<1> QED
  BY <1>2, Inductive, PTL

\* When the tables are freed, no scan thread is on its way to them or among them but
\* one the window let go of, or one that shared the job with another (WM_CLOSE and
\* WM_DESTROY of main.c).
THEOREM FreedUnderNobody == Spec => []NobodyLeft
<1>1. IndInv => NobodyLeft
  BY DEF IndInv
<1> QED
  BY <1>1, Inductive, PTL

\* A scan leaves files of its target unvisited only if Stop was pressed while that
\* very scan was under way, or it shared the job with another (start_scan_path and
\* stop_scan of main.c, walk of scan.c).
THEOREM EndsEarlyIfStopped == Spec => []EndsEarlyOnlyIfStopped
<1>1. IndInv => EndsEarlyOnlyIfStopped
  BY DEF IndInv
<1> QED
  BY <1>1, Inductive, PTL
=============================================================================
