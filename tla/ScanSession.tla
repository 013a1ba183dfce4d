---------------------------- MODULE ScanSession ----------------------------
(***************************************************************************)
(* A scan and the window it reports to: start_scan_path, stop_scan, the    *)
(* WM_SCAN_HIT / WM_RT_HIT / WM_SCAN_DONE handlers and g_dets of           *)
(* src/src/main.c, and scan_thread, walk and post_hit of src/src/scan.c.   *)
(*                                                                         *)
(* The scan thread and the window share one SCANJOB without a lock and     *)
(* talk through the window's message queue.  A message box runs a message  *)
(* loop of its own, so while one is up messages are still handled and the  *)
(* tray menu can still start a scan; only the main window is disabled.     *)
(*                                                                         *)
(* The window's thread resets the job while a thread may still read it:    *)
(* start_scan_path is therefore two steps, the reset and CreateThread.     *)
(*                                                                         *)
(* A hit is a path and whether it can be acted on (a signature, heuristic  *)
(* or PUA hit) or is only shown (disputed, modified).  The system baseline *)
(* job, whose WM_SCAN_DONE has a branch of its own, is not among the scans *)
(* modelled here.                                                          *)
(***************************************************************************)
EXTENDS Naturals, SequencesExt

CONSTANTS
  Files,          \* the files there are to scan
  Targets,        \* the sets of files a mode and a root can stand for
  NoFile,         \* the text of a row of another page
  QueueCap,       \* messages the queue holds; PostMessage fails beyond it
  MaxScans,       \* bound: scan threads created
  MaxShieldHits,  \* bound: threats the shield reports
  MaxBoxes        \* bound: message boxes up at once

ASSUME ScanAssumption ==
  /\ NoFile \notin Files /\ Targets \subseteq SUBSET Files
  /\ QueueCap \in Nat /\ MaxScans \in Nat /\ MaxShieldHits \in Nat /\ MaxBoxes \in Nat

VARIABLES
  rows,     \* g_list: the path in each row, whatever page filled it
  seen,     \* how many rows the user has had a chance to select: none is
            \* selectable that was added under a message box
  dets,     \* g_dets, as paths
  mixed,    \* since rows and dets were last emptied together, a row was added
            \* that dets does not get, or another page filled the list (history)
  job,      \* g_job, which every scan thread shares: its flags, its counter, and
            \* as `target` the files its mode and root stand for
  scan,     \* the scan threads, in the order they were created
  handle,   \* g_thread: a scan, or 0 for NULL
  timer,    \* the progress timer is set
  queue,    \* messages posted to the window
  boxes,    \* message boxes that are up, the innermost last
  vaulted,  \* paths handed to quar_add
  shielded, \* threats the shield has reported
  lost,     \* a message was refused, or may have gone with the window (history)
  overlap,  \* a scan was started before all trace of the last was gone (history)
  win,      \* the window's thread: in a message loop, in WM_CLOSE's wait for
            \* g_thread, or past WM_DESTROY, which frees the tables
  left      \* scans the window let go of: their flag was not set yet when it
            \* closed, their handle was closed, or the wait given up (history)

screen == <<rows, seen, dets, mixed>>
work   == <<job, scan, handle, timer>>
told   == <<vaulted, shielded, lost, overlap>>
vars   == <<screen, work, queue, boxes, told, win, left>>

Hit(p, act)  == [type |-> "hit", path |-> p, act |-> act]
ShieldHit(p) == [type |-> "shield", path |-> p, act |-> TRUE]
Over         == [type |-> "done", path |-> NoFile, act |-> FALSE]
Messages == {Hit(p, a) : p \in Files, a \in BOOLEAN} \cup {ShieldHit(p) : p \in Files} \cup {Over}

\* A scan thread: the files its walk has before it, and as history those of its
\* target it has not visited, the paths it reported (all, and those that can be
\* acted on), whether Stop was pressed, and whether it shared the job with
\* another scan: it was started over one, or one was started over it.
Scan == [pc : {"starting", "created", "counting", "walking", "ending", "over", "never"},
         todo : SUBSET Files, due : SUBSET Files, hits : SUBSET Files, acts : SUBSET Files,
         stop : BOOLEAN, crossed : BOOLEAN]
New(target, crossed) ==
  [pc |-> "starting", todo |-> {}, due |-> target, hits |-> {}, acts |-> {},
   stop |-> FALSE, crossed |-> crossed]
Live(s)  == scan[s].pc \notin {"over", "never"}
Latest   == Len(scan)
\* start_scan_path is between its reset of the job and CreateThread.
Starting == scan # <<>> /\ scan[Latest].pc = "starting"
InLoop   == win = "loop" /\ ~Starting
Reset(target) == [running |-> FALSE, cancel |-> FALSE, found |-> 0, target |-> target]

\* "ask": start_scan_path's folder browser or its no-definitions question.
\* "choose": what to do with the detections; `about` is g_dets when it was
\* asked.  "quarantined": the count shown after Yes.  "clean": no threats.
\* "exit": WM_CLOSE's question when a scan is running.
Box(k, about) == [kind |-> k, about |-> about]
Up(k)     == boxes # <<>> /\ Last(boxes).kind = k
Popped    == Front(boxes)
\* The main window is enabled again when the last box goes.
Close     == boxes' = Popped /\ seen' = IF Popped = <<>> THEN Len(rows) ELSE seen
AddRow(p) == rows' = Append(rows, p) /\ seen' = IF boxes = <<>> THEN Len(rows) + 1 ELSE seen

Init ==
  /\ rows = <<>> /\ seen = 0 /\ dets = <<>>
  /\ mixed = FALSE /\ job = Reset({}) /\ win = "loop" /\ left = {}
  /\ scan = <<>> /\ handle = 0 /\ timer = FALSE
  /\ queue = <<>> /\ boxes = <<>>
  /\ vaulted = {} /\ shielded = 0 /\ lost = FALSE /\ overlap = FALSE

\* PostMessage fails when the queue is full.
Post(m) ==
  IF Len(queue) < QueueCap THEN queue' = Append(queue, m) /\ UNCHANGED lost
                           ELSE lost' = TRUE /\ UNCHANGED queue
\* A scan thread posts to notify, which the reset sets to NULL for a while.
Report(m) == IF Starting THEN lost' = TRUE /\ UNCHANGED queue ELSE Post(m)

-----------------------------------------------------------------------------
(* start_scan_path and stop_scan, on the window's thread.                  *)

\* What is new at a launch but for the list and the job: the files the mode and
\* the root stand for, the timer, and the boxes still up beneath it.
NewScan(up, target) ==
  /\ InLoop /\ Len(scan) < MaxScans
  /\ LET under == {s \in DOMAIN scan : Live(s)} IN
     /\ scan' = Append([s \in DOMAIN scan |-> [scan[s] EXCEPT !.crossed = @ \/ s \in under]],
                       New(target, under # {}))
     /\ overlap' = (overlap \/ queue # <<>> \/ up # <<>> \/ under # {})
  /\ timer' = TRUE /\ boxes' = up
  /\ UNCHANGED <<handle, queue, vaulted, shielded, lost, win, left>>

\* Variant: the job is not reset, so a stopped scan's cancel stays set.
LaunchKeepsCancel(up) ==
  \E target \in Targets :
    /\ NewScan(up, target)
    /\ rows' = <<>> /\ seen' = 0 /\ dets' = <<>> /\ mixed' = FALSE
    /\ job' = [Reset(target) EXCEPT !.cancel = job.cancel]

\* Variant: the detections of the last scan are kept.
LaunchKeepsDets(up) ==
  \E target \in Targets :
    /\ NewScan(up, target)
    /\ rows' = <<>> /\ seen' = 0 /\ mixed' = FALSE
    /\ job' = Reset(target)
    /\ UNCHANGED dets

\* Variant: the rows of the last scan are kept.
LaunchKeepsRows(up) ==
  \E target \in Targets :
    /\ NewScan(up, target)
    /\ dets' = <<>> /\ mixed' = FALSE
    /\ job' = Reset(target)
    /\ UNCHANGED <<rows, seen>>

\* From the page switch to the reset of the job, whoever still reads it.
Launch(up) ==
  \E target \in Targets :
    /\ NewScan(up, target)
    /\ rows' = <<>> /\ seen' = 0 /\ dets' = <<>> /\ mixed' = FALSE
    /\ job' = Reset(target)

\* CreateThread, which may fail: the timer stays on then.
Started ==
  /\ Starting
  /\ \/ scan' = [scan EXCEPT ![Latest].pc = "created"] /\ handle' = Latest
     \/ scan' = [scan EXCEPT ![Latest].pc = "never"] /\ handle' = 0
  /\ UNCHANGED <<screen, job, timer, queue, boxes, told, win, left>>

\* From a button, a menu, the command line or the tray menu.
Start == ~job.running /\ Launch(boxes)

\* The custom scan and the scan without definitions ask first; the check of
\* job.running is before the question and not made again after it.
StartAsks ==
  /\ InLoop /\ ~job.running
  /\ Len(boxes) < MaxBoxes
  /\ boxes' = Append(boxes, Box("ask", <<>>))
  /\ UNCHANGED <<screen, work, queue, told, win, left>>

AskAnswered ==
  /\ Up("ask")
  /\ \/ Launch(Popped)
     \/ /\ InLoop /\ Close
        /\ UNCHANGED <<rows, dets, mixed, work, queue, told, win, left>>

\* cancel is set; every scan under way will see it.
Cancelled ==
  /\ job' = [job EXCEPT !.cancel = TRUE]
  /\ scan' = [s \in DOMAIN scan |-> [scan[s] EXCEPT !.stop = @ \/ Live(s)]]

StopScan ==
  /\ InLoop /\ boxes = <<>>
  /\ job.running /\ ~job.cancel
  /\ Cancelled
  /\ UNCHANGED <<screen, handle, timer, queue, boxes, told, win, left>>

\* show_page: a tab is picked, or a balloon clicked while a box is up.
ShowPage(p) ==
  /\ InLoop /\ (p = "scan" => boxes = <<>>)
  /\ rows' = IF p = "scan" THEN <<>> ELSE <<NoFile>>
  /\ seen' = IF boxes = <<>> THEN Len(rows') ELSE 0
  /\ mixed' = TRUE
  /\ UNCHANGED <<dets, work, queue, boxes, told, win, left>>

-----------------------------------------------------------------------------
(* scan_thread.                                                            *)

Turn(s, pc) == scan' = [scan EXCEPT ![s].pc = pc]

Begin(s) ==
  /\ scan[s].pc = "created"
  /\ job' = [job EXCEPT !.running = TRUE, !.found = 0]
  /\ Turn(s, "counting")
  /\ UNCHANGED <<screen, handle, timer, queue, boxes, told, win, left>>

\* After the count, mode and root are read again to walk what they stand for now;
\* in the middle of a reset that is anything.
Enumerate(s) ==
  /\ scan[s].pc = "counting"
  /\ \E fs \in SUBSET Files :
       /\ Starting \/ fs = job.target
       /\ scan' = [scan EXCEPT ![s].pc = "walking", ![s].todo = fs]
  /\ UNCHANGED <<screen, job, handle, timer, queue, boxes, told, win, left>>

\* walk looks at cancel before each file, and want_file at the mode: a file the
\* mode does not stand for by now is left out.
PassOver(s, f) ==
  /\ scan[s].pc = "walking" /\ ~job.cancel /\ f \in scan[s].todo
  /\ Starting \/ f \notin job.target
  /\ scan' = [scan EXCEPT ![s].todo = @ \ {f}]
  /\ UNCHANGED <<screen, job, handle, timer, queue, boxes, told, win, left>>

\* scan_one finds nothing or one hit.
Visit(s, f) ==
  /\ scan[s].pc = "walking" /\ ~job.cancel /\ f \in scan[s].todo
  /\ \/ /\ scan' = [scan EXCEPT ![s].todo = @ \ {f}, ![s].due = @ \ {f}]
        /\ UNCHANGED <<job, queue, lost>>
     \/ \E act \in BOOLEAN :
          /\ scan' = [scan EXCEPT ![s].todo = @ \ {f}, ![s].due = @ \ {f}, ![s].hits = @ \cup {f},
                                  ![s].acts = IF act THEN @ \cup {f} ELSE @]
          /\ job' = [job EXCEPT !.found = @ + 1]
          /\ Report(Hit(f, act))
  /\ UNCHANGED <<screen, handle, timer, boxes, vaulted, shielded, overlap, win, left>>

EndWalk(s) ==
  /\ scan[s].pc = "walking"
  /\ scan[s].todo = {} \/ job.cancel
  /\ job' = [job EXCEPT !.running = FALSE]
  /\ Turn(s, "ending")
  /\ UNCHANGED <<screen, handle, timer, queue, boxes, told, win, left>>

\* Variant: a stopped scan leaves without a word.
PostDoneUnlessStopped(s) ==
  /\ scan[s].pc = "ending"
  /\ Turn(s, "over")
  /\ IF job.cancel THEN UNCHANGED <<queue, lost>> ELSE Report(Over)
  /\ UNCHANGED <<screen, job, handle, timer, boxes, vaulted, shielded, overlap, win, left>>

PostDone(s) ==
  /\ scan[s].pc = "ending"
  /\ Turn(s, "over")
  /\ Report(Over)
  /\ UNCHANGED <<screen, job, handle, timer, boxes, vaulted, shielded, overlap, win, left>>

ThreadStep(s) ==
  Begin(s) \/ Enumerate(s) \/ (\E f \in Files : Visit(s, f) \/ PassOver(s, f)) \/ EndWalk(s) \/ PostDone(s)

\* A shield thread has quarantined a file and tells the window.
ShieldReports(p) ==
  /\ shielded < MaxShieldHits /\ shielded' = shielded + 1
  /\ Post(ShieldHit(p))
  /\ UNCHANGED <<screen, work, boxes, vaulted, overlap, win, left>>

-----------------------------------------------------------------------------
(* The window's message loop, its own or a box's.                          *)

Received(type) == InLoop /\ queue # <<>> /\ Head(queue).type = type /\ queue' = Tail(queue)

\* WM_SCAN_HIT and WM_RT_HIT add a row to the list of whatever page is shown;
\* dets_add remembers the scan's hits that can be acted on.
HandleHit ==
  LET kept == Head(queue).type = "hit" /\ Head(queue).act IN
  /\ Received("hit") \/ Received("shield")
  /\ dets' = IF kept THEN Append(dets, Head(queue).path) ELSE dets
  /\ mixed' = (mixed \/ ~kept)
  /\ AddRow(Head(queue).path)
  /\ UNCHANGED <<work, boxes, told, win, left>>

\* WM_SCAN_DONE: the handle there is goes, whichever scan it is of.  The window
\* may be hidden or minimised, and then asks nothing.
HandleDone ==
  /\ Received("done")
  /\ timer' = FALSE /\ handle' = 0
  /\ left' = left \cup {s \in DOMAIN scan : s = handle /\ Live(s)}
  /\ \/ UNCHANGED boxes
     \/ /\ Len(boxes) < MaxBoxes /\ ~job.cancel
        /\ \/ job.found = 0 /\ boxes' = Append(boxes, Box("clean", <<>>))
           \/ job.found > 0 /\ dets # <<>> /\ boxes' = Append(boxes, Box("choose", dets))
  /\ UNCHANGED <<screen, job, scan, told, win>>

AnswerYes ==
  /\ InLoop /\ Up("choose")
  /\ vaulted' = vaulted \cup ToSet(dets)
  /\ boxes' = Append(Popped, Box("quarantined", <<>>))
  /\ UNCHANGED <<screen, work, queue, shielded, lost, overlap, win, left>>

AnswerNo ==
  /\ InLoop /\ Up("choose")
  /\ \E marked \in SUBSET (1..seen) :
       vaulted' = vaulted \cup {dets[i] : i \in marked \cap DOMAIN dets}
  /\ Close
  /\ UNCHANGED <<rows, dets, mixed, work, queue, shielded, lost, overlap, win, left>>

\* The count is acknowledged: dets_clear and list_clear.
Acknowledge ==
  /\ InLoop /\ Up("quarantined")
  /\ boxes' = Popped
  /\ dets' = <<>> /\ rows' = <<>> /\ seen' = 0 /\ mixed' = FALSE
  /\ UNCHANGED <<work, queue, told, win, left>>

\* Cancel, OK on the box that says nothing was found, or No to the exit.
Dismiss ==
  /\ InLoop /\ (Up("choose") \/ Up("clean") \/ Up("exit"))
  /\ Close
  /\ UNCHANGED <<rows, dets, mixed, work, queue, told, win, left>>

-----------------------------------------------------------------------------
(* WM_CLOSE when it is not to hide, and WM_DESTROY.                        *)

\* The messages still in the queue go with the window.
Destroyed == win' = "gone" /\ queue' = <<>> /\ lost' = TRUE

\* It asks when the running flag is set, and goes at once when it is not.
ExitAsks ==
  /\ InLoop /\ job.running
  /\ Len(boxes) < MaxBoxes
  /\ boxes' = Append(boxes, Box("exit", <<>>))
  /\ UNCHANGED <<screen, work, queue, told, win, left>>

Exit ==
  /\ InLoop /\ ~job.running
  /\ left' = left \cup {s \in DOMAIN scan : scan[s].pc = "created"}
  /\ Destroyed
  /\ UNCHANGED <<screen, work, boxes, vaulted, shielded, overlap>>

\* Variant: the scan is stopped but not waited for.
ExitAnsweredNoWait ==
  /\ InLoop /\ Up("exit")
  /\ Cancelled /\ Destroyed
  /\ boxes' = Popped
  /\ UNCHANGED <<screen, handle, timer, vaulted, shielded, overlap, left>>

\* Yes: the scan is stopped, and the window's thread waits for g_thread.
ExitAnswered ==
  /\ InLoop /\ Up("exit")
  /\ Cancelled
  /\ boxes' = Popped /\ win' = "wait"
  /\ UNCHANGED <<screen, handle, timer, queue, told, left>>

\* The thread has ended, there is no handle to wait for, or five seconds are over.
WaitEnds ==
  /\ win = "wait" /\ Destroyed
  /\ left' = left \cup {s \in DOMAIN scan : s = handle /\ Live(s)}
  /\ UNCHANGED <<screen, work, boxes, vaulted, shielded, overlap>>

Handle == HandleHit \/ HandleDone
UserStep == \/ Start \/ StartAsks \/ AskAnswered \/ StopScan
            \/ AnswerYes \/ AnswerNo \/ Acknowledge \/ Dismiss
            \/ \E p \in {"scan", "other"} : ShowPage(p)
            \/ ExitAsks \/ Exit \/ ExitAnswered

\* What the threads do after WM_DESTROY, until the process ends, is left out.
Next == /\ win # "gone"
        /\ \/ UserStep \/ Handle \/ Started \/ WaitEnds
           \/ \E s \in DOMAIN scan : ThreadStep(s)
           \/ \E p \in Files : ShieldReports(p)

Spec == Init /\ [][Next]_vars

\* The system runs the scan threads and the window takes its messages; CreateThread
\* returns, and WM_CLOSE's wait has an end.
Fairness == /\ WF_vars(Handle) /\ WF_vars(Started) /\ WF_vars(WaitEnds)
            /\ \A s \in 1..MaxScans : WF_vars(win # "gone" /\ s \in DOMAIN scan /\ ThreadStep(s))
FairSpec == Spec /\ Fairness

-----------------------------------------------------------------------------
(* Properties.                                                             *)

Kinds == {"ask", "exit", "choose", "quarantined", "clean"}
Boxes == [kind : Kinds, about : Seq(Files)]

\* Every variable stays in its range: no more rows can be selected than there are, no
\* more messages wait than the queue holds.
ListOK  == rows \in Seq(Files \cup {NoFile}) /\ seen \in 0..Len(rows)
DetsOK  == dets \in Seq(Files) /\ vaulted \subseteq Files
JobOK   == job \in [running : BOOLEAN, cancel : BOOLEAN, found : Nat, target : SUBSET Files]
ScansOK == scan \in Seq(Scan) /\ Len(scan) <= MaxScans /\ handle \in 0..Len(scan) /\ timer \in BOOLEAN
QueueOK == queue \in Seq(Messages) /\ Len(queue) <= QueueCap /\ shielded \in 0..MaxShieldHits
BoxesOK == boxes \in Seq(Boxes)
TypeOK  == /\ ListOK /\ DetsOK /\ JobOK /\ ScansOK /\ QueueOK /\ BoxesOK
           /\ lost \in BOOLEAN /\ overlap \in BOOLEAN /\ mixed \in BOOLEAN
           /\ win \in {"loop", "wait", "gone"} /\ left \subseteq 1..MaxScans

Acts == UNION {scan[s].acts : s \in DOMAIN scan}

\* However scans overlap and boxes nest, the window hands to quar_add only paths
\* that some scan reported as something to act on: never one it showed as
\* disputed or modified, or one the shield reported.
OnlyActionable == vaulted \subseteq Acts

\* "No - quarantine the file(s) I have SELECTED" (main.c:1985) is about the selected
\* rows: while no row was added that g_dets does not get and no other page filled
\* the list, the detection at a selected row's number is the file in that row.
\* Where one was (a disputed or modified file, a hit of the shield, a change of
\* tab), No takes the file of another row, though main.c:24-26 has the two parallel.
SelectedAreTaken ==
  Up("choose") => mixed \/ \A i \in 1..seen : i \in DOMAIN dets /\ dets[i] = rows[i]

\* While scans are not started over one another: the detections kept are those
\* of the latest scan, none is missing that the queue has not refused or the
\* user not answered, and a question put to the user is about all of them.
Awaited == {queue[i].path : i \in {j \in DOMAIN queue : queue[j].type = "hit" /\ queue[j].act}}
SerialScansReportAll ==
  ~overlap /\ scan # <<>> =>
    LET acts == scan[Latest].acts IN
    /\ ToSet(dets) \subseteq acts
    /\ lost \/ acts \subseteq ToSet(dets) \cup Awaited \cup vaulted
    /\ Up("choose") => ToSet(Last(boxes).about) = ToSet(dets) /\ (lost \/ acts = ToSet(dets))
    /\ Up("clean") => scan[Latest].hits = {}

\* main.c:770-773: a scan leaves files of its target unvisited only if Stop was
\* pressed while that very scan was under way, or it shared the job with another
\* scan, whose start resets what it is to walk.
EndsEarlyOnlyIfStopped ==
  \A s \in DOMAIN scan :
    scan[s].pc \in {"ending", "over"} /\ scan[s].due # {} => scan[s].stop \/ scan[s].crossed

\* When WM_DESTROY frees the tables, no scan thread is on its way to them or among
\* them, but one the window let go of (its running flag was not set yet when
\* WM_CLOSE tested it, its handle was closed at another scan's end, or the wait
\* for it was given up) or one that shared the job with another.
NobodyLeft ==
  win = "gone" => \A s \in DOMAIN scan :
    Live(s) /\ scan[s].pc # "ending" => scan[s].crossed \/ s \in left

\* The strengthening that makes these inductive.  Detections and hits on their way
\* can be acted on, and cancel is set only by a Stop that all scans under way have
\* seen.  While scans are not started over one another, the latest is the only one
\* under way, its end is the last the queue has of it, there is one box about it at
\* most, put up when no more of it was to come, and until then every path it
\* reported is kept or awaited.  A scan that shares the job with none is the only
\* one under way, has all of its target before it, and is the one whose handle the
\* window holds and whose running flag it sees.
KeptCanBeActedOn ==
  ToSet(dets) \cup Awaited \subseteq Acts
  /\ \A s \in DOMAIN scan : scan[s].acts \subseteq scan[s].hits
CancelIsSeen == job.cancel => \A s \in DOMAIN scan : Live(s) => scan[s].stop
Finished == ~Live(Latest) /\ \A i \in DOMAIN queue : queue[i].type = "shield"
LatestAlone == \A s \in DOMAIN scan : Live(s) => s = Latest
FoundCounts ==
  /\ scan[Latest].pc \in {"starting", "created"} \/ job.found = 0 => scan[Latest].hits = {}
  /\ Awaited \subseteq scan[Latest].acts
EndComesLast ==
  \A i \in DOMAIN queue : queue[i].type = "done" =>
    ~Live(Latest) /\ \A j \in DOMAIN queue : j > i => queue[j].type = "shield"
OneBoxAbout ==
  \A i \in DOMAIN boxes : boxes[i].kind \notin {"ask", "exit"} =>
    Finished /\ \A j \in DOMAIN boxes : boxes[j].kind \notin {"ask", "exit"} => j = i
BoxesTellTrue ==
  LET acts == scan[Latest].acts IN
  \A i \in DOMAIN boxes :
    /\ boxes[i].kind = "choose" => ToSet(boxes[i].about) = ToSet(dets) /\ (lost \/ acts = ToSet(dets))
    /\ boxes[i].kind = "clean" => scan[Latest].hits = {}
    /\ boxes[i].kind = "quarantined" => lost \/ acts \subseteq vaulted
DetsComplete ==
  LET acts == scan[Latest].acts IN
  /\ ToSet(dets) \subseteq acts
  /\ lost \/ acts \subseteq ToSet(dets) \cup Awaited \cup vaulted
  /\ lost \/ Finished \/ acts \subseteq ToSet(dets) \cup Awaited
InOrder == LatestAlone /\ FoundCounts /\ EndComesLast /\ OneBoxAbout /\ BoxesTellTrue /\ DetsComplete
Serial  == ~overlap /\ scan # <<>> => InOrder
RowsAreDets == mixed \/ rows = dets
Alone(s)  == ~scan[s].crossed /\ Live(s)
JobIsOnes == \A s \in DOMAIN scan : Alone(s) => s = Latest /\ \A r \in DOMAIN scan : Live(r) => r = s
DueKept ==
  \A s \in DOMAIN scan : Alone(s) =>
    /\ scan[s].pc \in {"starting", "created", "counting"} => scan[s].due \subseteq job.target
    /\ scan[s].pc = "walking" => scan[s].due \subseteq scan[s].todo /\ scan[s].todo \subseteq job.target
Held ==
  \A s \in DOMAIN scan : Alone(s) /\ s \notin left /\ win # "gone" =>
    IF scan[s].pc = "starting" THEN win = "loop"
    ELSE handle = s /\ (scan[s].pc \in {"counting", "walking"} => job.running)
IndInv ==
  /\ TypeOK /\ KeptCanBeActedOn /\ CancelIsSeen /\ Serial /\ OnlyActionable /\ RowsAreDets
  /\ JobIsOnes /\ DueKept /\ EndsEarlyOnlyIfStopped /\ Held /\ NobodyLeft

\* A scan that was started is seen to end: the window closes its handle and kills
\* the timer, unless the message that says so was refused, the thread could not be
\* created, which leaves the timer on (main.c:786-790), or the window is gone.
EndIsSeen ==
  timer ~> (handle = 0 /\ ~timer) \/ lost \/ win = "gone" \/ scan[Latest].pc = "never"
=============================================================================
