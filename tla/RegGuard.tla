------------------------------ MODULE RegGuard ------------------------------
(***************************************************************************)
(* The shield's registry guard, reg_thread of src/src/realtime.c: it keeps *)
(* the values of the Run keys it has last read, waits to be told that one  *)
(* of the keys has changed, and reports every value that is new.           *)
(*                                                                         *)
(* A notification is asked for once at a time; a change of a key whose     *)
(* notification has been given is remembered by its handle and signalled   *)
(* by the next request, from the first request on.  A value is its name    *)
(* together with its data.  A key is read one value at a time, and a read  *)
(* may fall short of the key: it cannot be opened, a value is too long for *)
(* the buffers, or the key changes under the enumeration.                  *)
(***************************************************************************)
EXTENDS Naturals

CONSTANTS
  NKeys,      \* Run keys, in the order of KEYS
  Values,     \* values a key may have, at most the 64 read_run_key reads
  Long,       \* those of them whose name or data read_run_key has no room for
  MaxChanges  \* bound: changes other programs make

ASSUME RegAssumption == NKeys \in Nat \ {0} /\ MaxChanges \in Nat /\ Long \subseteq Values

Keys == 1..NKeys

VARIABLES
  run,      \* g_rt.run; the stop event is set as it is cleared
  pc, at,   \* where the thread is, and at which key
  key,      \* [Keys -> its values]
  prev,     \* [Keys -> the values last read]
  reading,  \* the key at `at` is being enumerated
  now,      \* the values that enumeration has given
  there,    \* those there from its beginning on (history)
  shifted,  \* the key has changed since its beginning
  missed,   \* [Keys -> values its last read left out, though they were there throughout] (history)
  signal,   \* [Keys -> its event is set]
  request,  \* [Keys -> a notification is asked for: never, now, or not now;
            \*          "closed" for a key that could not be opened]
  untold,   \* keys changed with no notification asked for, and remembered so
  early,    \* keys changed after they were read and before the first request (history)
  wiped,    \* keys whose signal was reset before it was looked at (history)
  began,    \* the keys as they were when the guard began (history)
  gone,     \* values that were removed, or left out by a read, at some time (history)
  reported, \* values reported
  changes   \* changes so far

enum    == <<reading, now, there, shifted>>
history == <<early, wiped, began, gone>>
regvars == <<run, pc, at, key, prev, enum, signal, request, untold, missed, history, reported, changes>>

RegInit ==
  /\ run = TRUE /\ pc = "read" /\ at = 1
  /\ key \in [Keys -> SUBSET Values] /\ began = key
  /\ prev = [k \in Keys |-> {}] /\ missed = prev
  /\ reading = FALSE /\ now = {} /\ there = {} /\ shifted = FALSE
  /\ signal = [k \in Keys |-> FALSE] /\ request = [k \in Keys |-> "never"]
  /\ untold = {} /\ early = {} /\ wiped = {} /\ gone = {} /\ reported = {} /\ changes = 0

\* What was last read of a key is not what the key is now, apart from what the read left out.
Due(k) == ~(prev[k] \subseteq key[k] /\ key[k] \subseteq prev[k] \cup missed[k])

\* A signal of a change that is remembered nowhere else.
Unlooked(k) == signal[k] /\ k \notin untold /\ Due(k)

\* On to the next key, or after the last one to the next part of the thread.
Then(next) == IF at < NKeys THEN at' = at + 1 /\ UNCHANGED pc ELSE at' = 1 /\ pc' = next

-----------------------------------------------------------------------------
(* read_run_key of the key at `at`.                                        *)

\* Nothing has been read of the key yet, if it can be opened.
OpenKey ==
  /\ pc \in {"read", "compare"} /\ ~reading
  /\ reading' = TRUE /\ now' = {} /\ there' = key[at] /\ shifted' = FALSE
  /\ early' = early \ {at} /\ wiped' = wiped \ {at}
  /\ UNCHANGED <<run, pc, at, key, prev, signal, request, untold, missed, began, gone, reported, changes>>

NextValue(v) ==
  /\ reading /\ v \in key[at] \ (now \cup Long)
  /\ now' = now \cup {v}
  /\ UNCHANGED <<run, pc, at, key, prev, reading, there, shifted, signal, request, untold, missed,
                 history, reported, changes>>

\* The first call that fails is the end, whatever it failed of: there are no
\* more values, one is too long, the change of a key has moved its values
\* under the index, or the key could not be opened.
Enumerated ==
  /\ reading
  /\ \/ key[at] \subseteq now
     \/ key[at] \cap Long # {}
     \/ shifted
     \/ now = {}

\* What the enumeration has given is what is known of the key from now on.
Known ==
  /\ prev' = [prev EXCEPT ![at] = now] /\ missed' = [missed EXCEPT ![at] = there \ now]
  /\ gone' = gone \cup {<<at, v>> : v \in there \ now}
  /\ reading' = FALSE /\ now' = {} /\ there' = {} /\ shifted' = FALSE

-----------------------------------------------------------------------------
(* reg_thread.                                                             *)

\* Variant: the keys are opened and not read; what is there counts as new.
ReadKeyNot ==
  /\ pc = "read" /\ Enumerated
  /\ reading' = FALSE /\ now' = {} /\ there' = {} /\ shifted' = FALSE
  /\ Then("arm")
  /\ UNCHANGED <<run, key, prev, signal, request, untold, missed, history, reported, changes>>

\* Before the loop: each key is read, then opened, or not.
ReadKey ==
  /\ pc = "read" /\ Enumerated /\ Known
  /\ \E r \in {"never", "closed"} : request' = [request EXCEPT ![at] = r]
  /\ Then("arm")
  /\ UNCHANGED <<run, key, signal, untold, early, wiped, began, reported, changes>>

\* ResetEvent and RegNotifyChangeKeyValue for key k.
Ask(k) ==
  /\ signal' = [signal EXCEPT ![k] = k \in untold]
  /\ request' = [request EXCEPT ![k] = IF k \in untold THEN "not now" ELSE "now"]
  /\ untold' = untold \ {k}
  /\ wiped' = IF Unlooked(k) THEN wiped \cup {k} ELSE wiped

\* Variant: the event is reset each time and the notification asked for once.
ArmOnce ==
  /\ pc = "arm" /\ (at = 1 => run)
  /\ IF request[at] = "never" THEN Ask(at)
     ELSE signal' = [signal EXCEPT ![at] = FALSE] /\ UNCHANGED <<request, untold, wiped>>
  /\ Then("wait")
  /\ UNCHANGED <<run, key, prev, enum, missed, early, began, gone, reported, changes>>

\* The top of the loop: every key is asked about anew, and not only the one
\* just dealt with.
ArmKey ==
  /\ pc = "arm" /\ (at = 1 => run)
  /\ IF request[at] # "closed" THEN Ask(at) ELSE UNCHANGED <<signal, request, untold, wiped>>
  /\ Then("wait")
  /\ UNCHANGED <<run, key, prev, enum, missed, early, began, gone, reported, changes>>

\* The wait ends with the first event that is set.
Wake ==
  /\ pc = "wait" /\ run
  /\ \E k \in Keys : signal[k] /\ (\A j \in Keys : j < k => ~signal[j]) /\ at' = k
  /\ pc' = "compare"
  /\ UNCHANGED <<run, key, prev, enum, signal, request, untold, missed, history, reported, changes>>

\* 200 ms later the key has been read again: what was not known is reported.
Compare ==
  /\ pc = "compare" /\ Enumerated /\ Known
  /\ reported' = reported \cup {<<at, v>> : v \in now \ prev[at]}
  /\ pc' = "arm" /\ at' = 1
  /\ UNCHANGED <<run, key, signal, request, untold, early, wiped, began, changes>>

\* The loop's test of run, or the stop event.
LeaveKeys ==
  /\ pc \in {"arm", "wait"} /\ ~run /\ at = 1
  /\ pc' = "over"
  /\ UNCHANGED <<run, at, key, prev, enum, signal, request, untold, missed, history, reported, changes>>

Step == OpenKey \/ (\E v \in Values : NextValue(v)) \/ ReadKey \/ ArmKey \/ Wake \/ Compare \/ LeaveKeys

\* rt_stop.
Stop ==
  /\ run /\ run' = FALSE
  /\ UNCHANGED <<pc, at, key, prev, enum, signal, request, untold, missed, history, reported, changes>>

\* Another program sets or deletes a value.
Change(k, new) ==
  /\ changes < MaxChanges /\ changes' = changes + 1
  /\ new # key[k]
  /\ key' = [key EXCEPT ![k] = new]
  /\ there' = IF k = at THEN there \cap new ELSE there
  /\ shifted' = (shifted \/ (reading /\ k = at))
  /\ gone' = gone \cup {<<k, v>> : v \in key[k] \ new}
  /\ signal' = [signal EXCEPT ![k] = @ \/ request[k] = "now"]
  /\ request' = [request EXCEPT ![k] = IF @ = "now" THEN "not now" ELSE @]
  /\ untold' = IF request[k] = "not now" THEN untold \cup {k} ELSE untold
  /\ early' = IF request[k] = "never" THEN early \cup {k} ELSE early
  /\ UNCHANGED <<run, pc, at, prev, reading, now, missed, wiped, began, reported>>

RegNext == Step \/ Stop \/ \E k \in Keys, new \in SUBSET Values : Change(k, new)
RegSpec == RegInit /\ [][RegNext]_regvars
RegFairSpec == RegSpec /\ WF_regvars(Step)

-----------------------------------------------------------------------------
(* Properties.                                                             *)

\* Every variable stays in its range, and no request is out before its key has
\* been read.
RegTypeOK ==
  /\ run \in BOOLEAN /\ pc \in {"read", "arm", "wait", "compare", "over"} /\ at \in Keys
  /\ key \in [Keys -> SUBSET Values] /\ prev \in [Keys -> SUBSET Values]
  /\ reading \in BOOLEAN /\ now \subseteq Values /\ there \subseteq Values /\ shifted \in BOOLEAN
  /\ missed \in [Keys -> SUBSET Values]
  /\ signal \in [Keys -> BOOLEAN] /\ request \in [Keys -> {"never", "now", "not now", "closed"}]
  /\ untold \subseteq Keys /\ early \subseteq Keys /\ wiped \subseteq Keys
  /\ gone \subseteq Keys \X Values /\ reported \subseteq Keys \X Values
  /\ changes \in 0..MaxChanges
  /\ began \in [Keys -> SUBSET Values]
  /\ pc = "read" => \A k \in at..NKeys : request[k] = "never"

\* While the guard waits, a key that differs from what was last read has its
\* event set, so the guard will look, unless the change came too early or its
\* signal was wiped, or the key could not be opened; the one difference it may
\* know nothing of is a value the last read left out though it was there.
WaitsForNothingDue ==
  pc = "wait" => \A k \in Keys :
    \/ prev[k] \subseteq key[k] /\ key[k] \subseteq prev[k] \cup missed[k]
    \/ signal[k] \/ k \in early \cup wiped \/ request[k] = "closed"

\* What was in a Run key before the guard began, has stayed and was left out by
\* no read is not reported as a new autostart entry, nor is anything before it
\* is there.
KeptIsNotReported ==
  \A k \in Keys, v \in Values :
    <<k, v>> \in reported => (v \in key[k] /\ v \notin began[k]) \/ <<k, v>> \in gone

\* The strengthening that makes these inductive.  A notification that has been given
\* leaves its event set until the next request, so what is remembered for that
\* request is signalled too, and the key that is compared is one of these; a key
\* that was read and has changed since is due at any time, and not only in the
\* wait; an enumeration gives only what is there or gone, and the first of a key all
\* that is there unless the key has changed too early; and what was there at the
\* beginning is still there or gone, and once read is known.
Read(k)     == pc # "read" \/ k < at
SignalStays == /\ \A k \in Keys : (k \in untold => request[k] = "not now") /\ (request[k] = "not now" => signal[k])
               /\ pc = "compare" => signal[at]
NothingDue  == \A k \in Keys : Read(k) /\ Due(k) =>
                 signal[k] \/ k \in early \cup wiped \/ request[k] = "closed"
Enumerating ==
  reading =>
     /\ \A v \in now : v \notin key[at] => <<at, v>> \in gone
     /\ pc \in {"read", "compare"} /\ there \subseteq key[at]
     /\ \A v \in key[at] : v \in began[at] => v \in there \/ <<at, v>> \in gone
     /\ pc = "read" => at \in early \/ (there = key[at] /\ now \subseteq key[at])
BeganIsKnown ==
  \A k \in Keys, v \in Values : v \in began[k] =>
    \/ <<k, v>> \in gone
    \/ v \in key[k] /\ (Read(k) => v \in prev[k])
RegIndInv == RegTypeOK /\ SignalStays /\ NothingDue /\ Enumerating /\ BeganIsKnown /\ KeptIsNotReported

\* A value that is added and stays is read by the guard, with the same
\* exceptions, as long as the shield is on and the key could be opened.
AddedIsRead ==
  \A k \in Keys, v \in Values :
    v \in key[k] ~> \/ v \in prev[k] \/ v \notin key[k] \/ k \in early \cup wiped
                    \/ ~run \/ request[k] = "closed" \/ v \in missed[k]

=============================================================================
