---------------------------- MODULE ShieldProofs ----------------------------
(***************************************************************************)
(* Theorems about the shield's file guard and registry guard: the first    *)
(* for any number of starts, files and watchers, the second for any number *)
(* of Run keys, any set of values and any number of changes.  Of each the  *)
(* inductive invariant (IndInv, RegIndInv) is beside the properties, which *)
(* follow from it.                                                         *)
(***************************************************************************)
EXTENDS Shield, RegGuard, FiniteSets, TLAPS

-----------------------------------------------------------------------------
(* The registry guard.                                                     *)

\* On to the next key, or to the next part of the thread: the keys before the next
\* one are read.
LEMMA Moved ==
  ASSUME RegTypeOK, NEW next \in {"arm", "wait"}, Then(next)
  PROVE  /\ at' \in Keys /\ pc' \in {pc, next}
         /\ pc' = "read" => pc = "read" /\ at' = at + 1
         /\ pc = "read" => \A k \in Keys : k # at => (Read(k)' <=> Read(k))
         /\ pc # "read" => \A k \in Keys : Read(k)
<1>1. NKeys \in Nat \ {0} /\ at \in 1..NKeys
  BY RegAssumption DEF RegTypeOK, Keys
<1>2. CASE at < NKeys
  <2>1. at' = at + 1 /\ pc' = pc
    BY <1>2 DEF Then
  <2>2. at + 1 \in 1..NKeys
    BY <1>1, <1>2
  <2>3. \A k \in 1..NKeys : k # at => (k < at + 1 <=> k < at)
    BY <1>1
  <2> QED
    BY <2>1, <2>2, <2>3 DEF Keys, Read
<1>3. CASE ~(at < NKeys)
  <2>1. at' = 1 /\ pc' = next /\ next # "read"
    BY <1>3 DEF Then
  <2>2. at = NKeys /\ 1 \in 1..NKeys
    BY <1>1, <1>3
  <2>3. \A k \in 1..NKeys : k # NKeys => k < NKeys
    BY <1>1
  <2> QED
    BY <2>1, <2>2, <2>3 DEF Keys, Read
<1> QED
  BY <1>2, <1>3

\* A request for a key, as that key and the others see it.
LEMMA Asked ==
  ASSUME RegTypeOK, NEW k \in Keys, Ask(k)
  PROVE  /\ signal' \in [Keys -> BOOLEAN] /\ request' \in [Keys -> {"never", "now", "not now", "closed"}]
         /\ untold' \subseteq Keys /\ wiped' \subseteq Keys
         /\ wiped \subseteq wiped' /\ untold' = untold \ {k}
         /\ \A j \in Keys \ {k} : signal'[j] = signal[j] /\ request'[j] = request[j]
         /\ signal'[k] = (k \in untold)
         /\ request'[k] = IF k \in untold THEN "not now" ELSE "now"
         /\ signal[k] /\ Due(k) => k \in untold \/ k \in wiped'
<1>1. /\ signal \in [Keys -> BOOLEAN] /\ request \in [Keys -> {"never", "now", "not now", "closed"}]
      /\ untold \subseteq Keys /\ wiped \subseteq Keys
  BY DEF RegTypeOK
<1>2. /\ signal' = [signal EXCEPT ![k] = k \in untold]
      /\ request' = [request EXCEPT ![k] = IF k \in untold THEN "not now" ELSE "now"]
      /\ untold' = untold \ {k} /\ wiped' = IF Unlooked(k) THEN wiped \cup {k} ELSE wiped
  BY DEF Ask
<1>3. (k \in untold) \in BOOLEAN
  OBVIOUS
<1>4. signal' \in [Keys -> BOOLEAN] /\ signal'[k] = (k \in untold) /\ \A j \in Keys \ {k} : signal'[j] = signal[j]
  BY <1>1, <1>2, <1>3, Zenon
<1>5. /\ request' \in [Keys -> {"never", "now", "not now", "closed"}]
      /\ request'[k] = IF k \in untold THEN "not now" ELSE "now"
      /\ \A j \in Keys \ {k} : request'[j] = request[j]
  BY <1>1, <1>2
<1>6. wiped' \subseteq Keys /\ wiped \subseteq wiped' /\ untold' \subseteq Keys
  BY <1>1, <1>2
<1>7. signal[k] /\ Due(k) => k \in untold \/ k \in wiped'
  BY <1>2 DEF Unlooked
<1> QED
  BY <1>2, <1>4, <1>5, <1>6, <1>7

\* A step of the keys: what it changes is one key's.
LEMMA Changed ==
  ASSUME RegTypeOK, NEW k \in Keys, NEW new \in SUBSET Values, Change(k, new)
  PROVE  /\ key' \in [Keys -> SUBSET Values] /\ signal' \in [Keys -> BOOLEAN]
         /\ request' \in [Keys -> {"never", "now", "not now", "closed"}]
         /\ untold' \subseteq Keys /\ early' \subseteq Keys /\ gone' \subseteq Keys \X Values
         /\ gone \subseteq gone' /\ untold \subseteq untold' /\ early \subseteq early'
         /\ \A j \in Keys \ {k} : /\ key'[j] = key[j] /\ signal'[j] = signal[j] /\ request'[j] = request[j]
                                  /\ (j \in untold' => j \in untold)
         /\ \A v \in Values : v \in key[k] => v \in key'[k] \/ <<k, v>> \in gone'
         /\ (signal[k] => signal'[k])
         /\ request[k] = "now" => signal'[k] /\ request'[k] = "not now" /\ untold' = untold
         /\ request[k] = "not now" => request'[k] = "not now"
         /\ request[k] = "closed" => request'[k] = "closed" /\ untold' = untold
         /\ request[k] = "never" => request'[k] = "never" /\ k \in early' /\ untold' = untold
<1>1. /\ key \in [Keys -> SUBSET Values] /\ signal \in [Keys -> BOOLEAN]
      /\ request \in [Keys -> {"never", "now", "not now", "closed"}]
      /\ untold \subseteq Keys /\ early \subseteq Keys /\ gone \subseteq Keys \X Values
  BY DEF RegTypeOK
<1>2. /\ key' = [key EXCEPT ![k] = new]
      /\ gone' = gone \cup {<<k, v>> : v \in key[k] \ new}
      /\ signal' = [signal EXCEPT ![k] = @ \/ request[k] = "now"]
      /\ request' = [request EXCEPT ![k] = IF @ = "now" THEN "not now" ELSE @]
      /\ untold' = IF request[k] = "not now" THEN untold \cup {k} ELSE untold
      /\ early' = IF request[k] = "never" THEN early \cup {k} ELSE early
  BY DEF Change
<1>3. key' \in [Keys -> SUBSET Values] /\ key'[k] = new /\ \A j \in Keys \ {k} : key'[j] = key[j]
  BY <1>1, <1>2
<1>4. (signal[k] \/ request[k] = "now") \in BOOLEAN
  OBVIOUS
<1>5. /\ signal' \in [Keys -> BOOLEAN] /\ signal'[k] = (signal[k] \/ request[k] = "now")
      /\ \A j \in Keys \ {k} : signal'[j] = signal[j]
  BY <1>1, <1>2, <1>4, Zenon
<1>6. /\ request' \in [Keys -> {"never", "now", "not now", "closed"}]
      /\ request'[k] = IF request[k] = "now" THEN "not now" ELSE request[k]
      /\ \A j \in Keys \ {k} : request'[j] = request[j]
  BY <1>1, <1>2
<1>7. /\ untold' \subseteq Keys /\ early' \subseteq Keys /\ untold \subseteq untold' /\ early \subseteq early'
      /\ \A j \in Keys \ {k} : j \in untold' => j \in untold
  BY <1>1, <1>2
<1>8. gone' \subseteq Keys \X Values /\ gone \subseteq gone'
      /\ \A v \in Values : v \in key[k] => v \in key'[k] \/ <<k, v>> \in gone'
  <2>1. {<<k, v>> : v \in key[k] \ new} \subseteq Keys \X Values
    <3>1. key[k] \subseteq Values
      BY <1>1
    <3> QED
      BY <3>1
  <2>2. \A v \in key[k] \ new : <<k, v>> \in gone'
    BY <1>2
  <2> QED
    BY <1>1, <1>2, <1>3, <2>1, <2>2
<1>9. /\ (signal[k] => signal'[k]) /\ (request[k] = "now" => signal'[k])
  BY <1>5, Zenon
<1>10. /\ request[k] = "now" => request'[k] = "not now" /\ untold' = untold
       /\ request[k] = "not now" => request'[k] = "not now"
       /\ request[k] = "closed" => request'[k] = "closed" /\ untold' = untold
       /\ request[k] = "never" => request'[k] = "never" /\ k \in early' /\ untold' = untold
  BY <1>2, <1>6
<1> QED
  BY <1>3, <1>5, <1>6, <1>7, <1>8, <1>9, <1>10

\* What becomes known of a key at the end of an enumeration: the other keys are as
\* they were.
LEMMA Learned ==
  ASSUME RegTypeOK, Known
  PROVE  /\ prev' \in [Keys -> SUBSET Values] /\ missed' \in [Keys -> SUBSET Values] /\ gone' \subseteq Keys \X Values
         /\ prev'[at] = now /\ missed'[at] = there \ now
         /\ \A k \in Keys \ {at} : prev'[k] = prev[k] /\ missed'[k] = missed[k]
         /\ gone \subseteq gone' /\ \A v \in there \ now : <<at, v>> \in gone'
         /\ ~reading' /\ reading' \in BOOLEAN /\ now' = {} /\ there' = {} /\ ~shifted' /\ shifted' \in BOOLEAN
<1>1. /\ at \in Keys /\ prev \in [Keys -> SUBSET Values] /\ missed \in [Keys -> SUBSET Values]
      /\ gone \subseteq Keys \X Values /\ now \subseteq Values /\ there \subseteq Values
  BY DEF RegTypeOK
<1>2. /\ prev' = [prev EXCEPT ![at] = now] /\ missed' = [missed EXCEPT ![at] = there \ now]
      /\ gone' = gone \cup {<<at, v>> : v \in there \ now}
  BY DEF Known
<1>3. /\ prev' \in [Keys -> SUBSET Values] /\ missed' \in [Keys -> SUBSET Values]
      /\ prev'[at] = now /\ missed'[at] = there \ now
      /\ \A k \in Keys \ {at} : prev'[k] = prev[k] /\ missed'[k] = missed[k]
  BY <1>1, <1>2
<1>4. gone' \subseteq Keys \X Values /\ gone \subseteq gone' /\ \A v \in there \ now : <<at, v>> \in gone'
  BY <1>1, <1>2
<1>5. ~reading' /\ reading' \in BOOLEAN /\ now' = {} /\ there' = {} /\ ~shifted' /\ shifted' \in BOOLEAN
  BY DEF Known
<1> QED
  BY <1>3, <1>4, <1>5

LEMMA Ranges ==
  ASSUME RegTypeOK
  PROVE  /\ NKeys \in Nat \ {0} /\ at \in 1..NKeys /\ Keys = 1..NKeys
         /\ MaxChanges \in Nat /\ changes \in 0..MaxChanges
         /\ pc = "read" => \A k \in at..NKeys : request[k] = "never"
BY RegAssumption DEF RegTypeOK, Keys

LEMMA StepTypeOK ==
  ASSUME RegTypeOK, [RegNext]_regvars
  PROVE  RegTypeOK'
<1>1. CASE ReadKey
  <2>1. /\ pc = "read" /\ Known /\ Then("arm")
        /\ UNCHANGED <<run, key, signal, untold, early, wiped, began, reported, changes>>
        /\ \E r \in {"never", "closed"} : request' = [request EXCEPT ![at] = r]
    BY <1>1 DEF ReadKey
  <2>2. at' \in Keys /\ pc' \in {"read", "arm"} /\ (pc' = "read" => at' = at + 1)
    BY <2>1, Moved
  <2>3. /\ request' \in [Keys -> {"never", "now", "not now", "closed"}]
        /\ \A k \in Keys \ {at} : request'[k] = request[k]
    BY <2>1 DEF RegTypeOK
  <2>4. pc' = "read" => \A k \in at'..NKeys : request'[k] = "never"
    <3>1. \A k \in (at + 1)..NKeys : k \in at..NKeys /\ k \in Keys \ {at}
      BY Ranges
    <3> QED
      BY <2>1, <2>2, <2>3, <3>1, Ranges
  <2>5. /\ prev' \in [Keys -> SUBSET Values] /\ missed' \in [Keys -> SUBSET Values] /\ gone' \subseteq Keys \X Values
        /\ reading' \in BOOLEAN /\ now' = {} /\ there' = {} /\ shifted' \in BOOLEAN
    BY <2>1, Learned
  <2> QED
    BY <2>1, <2>2, <2>3, <2>4, <2>5 DEF RegTypeOK
<1>2. CASE ArmKey
  <2>1. /\ pc = "arm" /\ Then("wait")
        /\ UNCHANGED <<run, key, prev, enum, missed, early, began, gone, reported, changes>>
        /\ Ask(at) \/ UNCHANGED <<signal, request, untold, wiped>>
    BY <1>2 DEF ArmKey
  <2>2. at' \in Keys /\ pc' \in {"arm", "wait"}
    BY <2>1, Moved
  <2>3. /\ signal' \in [Keys -> BOOLEAN] /\ request' \in [Keys -> {"never", "now", "not now", "closed"}]
        /\ untold' \subseteq Keys /\ wiped' \subseteq Keys
    BY <2>1, Asked DEF RegTypeOK
  <2> QED
    BY <2>1, <2>2, <2>3 DEF RegTypeOK, enum
<1>3. CASE Wake
  BY <1>3 DEF Wake, RegTypeOK, enum, history
<1>4. CASE Compare
  <2>1. /\ Known /\ reported' = reported \cup {<<at, v>> : v \in now \ prev[at]}
        /\ pc' = "arm" /\ at' = 1
        /\ UNCHANGED <<run, key, signal, request, untold, early, wiped, began, changes>>
    BY <1>4 DEF Compare
  <2>2. reported' \subseteq Keys \X Values
    <3>1. at \in Keys /\ now \subseteq Values /\ reported \subseteq Keys \X Values
      BY DEF RegTypeOK
    <3>2. {<<at, v>> : v \in now \ prev[at]} \subseteq Keys \X Values
      BY <3>1
    <3> QED
      BY <2>1, <3>1, <3>2
  <2>3. at' \in Keys
    BY <2>1, RegAssumption DEF Keys
  <2>4. /\ prev' \in [Keys -> SUBSET Values] /\ missed' \in [Keys -> SUBSET Values] /\ gone' \subseteq Keys \X Values
        /\ reading' \in BOOLEAN /\ now' = {} /\ there' = {} /\ shifted' \in BOOLEAN
    BY <2>1, Learned
  <2> QED
    BY <2>1, <2>2, <2>3, <2>4 DEF RegTypeOK
<1>5. CASE LeaveKeys
  BY <1>5 DEF LeaveKeys, RegTypeOK, enum, history
<1>6. CASE Stop
  BY <1>6 DEF Stop, RegTypeOK, enum, history
<1>7. ASSUME NEW k \in Keys, NEW new \in SUBSET Values, Change(k, new)
      PROVE  RegTypeOK'
  <2>1. /\ changes < MaxChanges /\ changes' = changes + 1
        /\ UNCHANGED <<run, pc, at, prev, reading, now, missed, wiped, began, reported>>
    BY <1>7 DEF Change
  <2>2. changes' \in 0..MaxChanges
    BY <2>1, Ranges
  <2>3. /\ key' \in [Keys -> SUBSET Values] /\ signal' \in [Keys -> BOOLEAN]
        /\ request' \in [Keys -> {"never", "now", "not now", "closed"}]
        /\ untold' \subseteq Keys /\ early' \subseteq Keys /\ gone' \subseteq Keys \X Values
        /\ \A j \in Keys : request[j] = "never" => request'[j] = "never"
    BY <1>7, Changed
  <2>4. pc = "read" => \A j \in at..NKeys : request'[j] = "never"
    <3>1. at..NKeys \subseteq Keys
      BY Ranges
    <3> QED
      BY <2>3, <3>1, Ranges
  <2>5. there' \subseteq Values
    BY <1>7 DEF Change, RegTypeOK
  <2>6. shifted' \in BOOLEAN
    <3>1. shifted' = (shifted \/ (reading /\ k = at))
      BY <1>7 DEF Change
    <3> QED
      BY <3>1, Zenon
  <2> QED
    BY <2>1, <2>2, <2>3, <2>4, <2>5, <2>6 DEF RegTypeOK
<1>8. CASE UNCHANGED regvars
  BY <1>8 DEF regvars, RegTypeOK, enum, history
<1>9. CASE OpenKey
  <2>1. /\ reading' = TRUE /\ now' = {} /\ there' = key[at] /\ shifted' = FALSE
        /\ early' = early \ {at} /\ wiped' = wiped \ {at}
        /\ UNCHANGED <<run, pc, at, key, prev, signal, request, untold, missed, began, gone, reported, changes>>
    BY <1>9 DEF OpenKey
  <2>2. there' \subseteq Values
    BY <2>1 DEF RegTypeOK
  <2> QED
    BY <2>1, <2>2 DEF RegTypeOK
<1>10. CASE \E v \in Values : NextValue(v)
  BY <1>10 DEF NextValue, RegTypeOK, history
<1> QED
  BY <1>1, <1>2, <1>3, <1>4, <1>5, <1>6, <1>7, <1>8, <1>9, <1>10 DEF RegNext, Step

LEMMA SignalStep ==
  ASSUME RegTypeOK, SignalStays, [RegNext]_regvars
  PROVE  SignalStays'
<1>1. at \in Keys /\ (pc = "compare" => signal[at])
  BY DEF RegTypeOK, SignalStays
<1>2. CASE ReadKey
  <2>1. /\ pc = "read" /\ UNCHANGED <<signal, untold>> /\ Then("arm")
        /\ \E r \in {"never", "closed"} : request' = [request EXCEPT ![at] = r]
    BY <1>2 DEF ReadKey
  <2>2. request[at] = "never" /\ at \in Keys /\ request \in [Keys -> {"never", "now", "not now", "closed"}]
    <3>1. at \in at..NKeys
      BY Ranges
    <3> QED
      BY <2>1, <3>1 DEF RegTypeOK
  <2>3. at \notin untold /\ request'[at] # "not now" /\ \A k \in Keys \ {at} : request'[k] = request[k]
    BY <2>1, <2>2 DEF SignalStays
  <2>4. pc' # "compare"
    BY <2>1, Moved
  <2> QED
    BY <2>1, <2>3, <2>4 DEF SignalStays
<1>3. ASSUME NEW k \in Keys, NEW new \in SUBSET Values, Change(k, new)
      PROVE  SignalStays'
  <2>1. ASSUME NEW j \in Keys
        PROVE  (j \in untold' => request'[j] = "not now") /\ (request'[j] = "not now" => signal'[j])
    <3>1. CASE j # k
      BY <1>3, <3>1, Changed DEF SignalStays
    <3>2. CASE j = k
      <4>1. request[k] \in {"never", "now", "not now", "closed"}
        BY DEF RegTypeOK
      <4> QED
        BY <1>3, <3>2, <4>1, Changed DEF SignalStays
    <3> QED
      BY <3>1, <3>2
  <2>2. UNCHANGED <<pc, at>>
    BY <1>3 DEF Change
  <2>3. signal[at] => signal'[at]
    BY <1>1, <1>3, Changed
  <2> QED
    BY <1>1, <2>1, <2>2, <2>3 DEF SignalStays
<1>4. CASE ArmKey
  <2>1. Ask(at) \/ UNCHANGED <<signal, request, untold>>
    BY <1>4 DEF ArmKey
  <2>2. pc' # "compare"
    BY <1>4, Moved DEF ArmKey
  <2>3. CASE Ask(at)
    BY <1>1, <2>2, <2>3, Asked DEF SignalStays
  <2>4. CASE UNCHANGED <<signal, request, untold>>
    BY <2>2, <2>4 DEF SignalStays
  <2> QED
    BY <2>1, <2>3, <2>4
<1>5. CASE Wake
  <2>1. signal[at'] /\ UNCHANGED <<signal, request, untold>>
    BY <1>5 DEF Wake
  <2> QED
    BY <2>1 DEF SignalStays
<1>6. CASE Compare \/ LeaveKeys
  <2>1. pc' # "compare" /\ UNCHANGED <<signal, request, untold>>
    BY <1>6 DEF Compare, LeaveKeys
  <2> QED
    BY <2>1 DEF SignalStays
<1>7. CASE UNCHANGED <<pc, at, signal, request, untold>>
  BY <1>7 DEF SignalStays
<1> QED
  BY <1>2, <1>3, <1>4, <1>5, <1>6, <1>7 DEF RegNext, Step, OpenKey, NextValue, Stop, regvars

LEMMA DueStep ==
  ASSUME RegTypeOK, SignalStays, NothingDue, Enumerating, [RegNext]_regvars
  PROVE  NothingDue'
<1> SUFFICES ASSUME NEW k \in Keys, Read(k)', Due(k)'
             PROVE  signal'[k] \/ k \in early' \cup wiped' \/ request'[k] = "closed"
  BY DEF NothingDue
<1>1. ASSUME Read(k), Due(k)
      PROVE  signal[k] \/ k \in early \cup wiped \/ request[k] = "closed"
  BY <1>1 DEF NothingDue
<1>2. at \in Keys /\ prev \in [Keys -> SUBSET Values] /\ key \in [Keys -> SUBSET Values]
      /\ request \in [Keys -> {"never", "now", "not now", "closed"}]
  BY DEF RegTypeOK
<1>3. CASE ReadKey
  <2>1. /\ pc = "read" /\ Enumerated /\ Known /\ Then("arm")
        /\ UNCHANGED <<key, signal, early, wiped>>
        /\ \E r \in {"never", "closed"} : request' = [request EXCEPT ![at] = r]
    BY <1>3 DEF ReadKey
  <2>2. CASE k # at
    <3>1. Read(k) /\ prev'[k] = prev[k] /\ missed'[k] = missed[k] /\ request'[k] = request[k]
      BY <1>2, <2>1, <2>2, Moved, Learned
    <3> QED
      BY <1>1, <2>1, <3>1 DEF Due
  <2>3. CASE k = at
    <3>1. at \in early \/ (there = key[at] /\ now \subseteq key[at])
      BY <2>1 DEF Enumerated, Enumerating
    <3>2. prev'[at] = now /\ missed'[at] = there \ now
      BY <2>1, Learned
    <3> QED
      BY <2>1, <2>3, <3>1, <3>2 DEF Due
  <2> QED
    BY <2>2, <2>3
<1>4. CASE ArmKey
  <2>1. /\ pc = "arm" /\ UNCHANGED <<key, prev, missed, early>> /\ (Ask(at) \/ UNCHANGED <<signal, request, untold, wiped>>)
    BY <1>4 DEF ArmKey
  <2>2. Read(k) /\ Due(k)
    BY <2>1 DEF Read, Due
  <2>3. signal[k] \/ k \in early \cup wiped \/ request[k] = "closed"
    BY <1>1, <2>2
  <2>4. CASE UNCHANGED <<signal, request, untold, wiped>>
    BY <2>1, <2>3, <2>4
  <2>5. CASE Ask(at) /\ k # at
    <3>1. wiped \subseteq wiped' /\ signal'[k] = signal[k] /\ request'[k] = request[k]
      BY <1>2, <2>5, Asked
    <3> QED
      BY <2>1, <2>3, <3>1
  <2>6. CASE Ask(at) /\ k = at /\ request[at] # "closed"
    <3>1. wiped \subseteq wiped' /\ signal'[k] = (k \in untold) /\ (signal[k] => k \in untold \/ k \in wiped')
      BY <1>2, <2>2, <2>6, Asked
    <3> QED
      BY <2>1, <2>3, <2>6, <3>1
  <2> QED
    BY <1>4, <2>1, <2>4, <2>5, <2>6 DEF ArmKey
<1>5. CASE Compare
  <2>1. pc = "compare" /\ Known /\ UNCHANGED <<key, signal, request, early, wiped>>
    BY <1>5 DEF Compare
  <2>2. CASE k # at
    <3>1. prev'[k] = prev[k] /\ missed'[k] = missed[k]
      BY <2>1, <2>2, Learned
    <3> QED
      BY <1>1, <2>1, <3>1 DEF Due, Read
  <2>3. CASE k = at
    BY <2>1, <2>3 DEF SignalStays
  <2> QED
    BY <2>2, <2>3
<1>6. ASSUME NEW j \in Keys, NEW new \in SUBSET Values, Change(j, new)
      PROVE  signal'[k] \/ k \in early' \cup wiped' \/ request'[k] = "closed"
  <2>1. UNCHANGED <<prev, missed, pc, at, wiped>>
    BY <1>6 DEF Change
  <2>2. CASE j # k
    <3>1. Read(k) /\ (key'[k] = key[k]) /\ signal'[k] = signal[k] /\ request'[k] = request[k] /\ early \subseteq early'
      BY <1>6, <2>1, <2>2, Changed DEF Read
    <3> QED
      BY <1>1, <2>1, <3>1 DEF Due
  <2>3. CASE j = k
    <3>1. request[k] \in {"never", "now", "not now", "closed"}
      BY <1>2
    <3>2. request[k] = "not now" => signal[k]
      BY DEF SignalStays
    <3> QED
      BY <1>6, <2>3, <3>1, <3>2, Changed
  <2> QED
    BY <2>2, <2>3
<1>7. CASE OpenKey
  <2>1. /\ pc \in {"read", "compare"} /\ early' = early \ {at} /\ wiped' = wiped \ {at}
        /\ UNCHANGED <<pc, at, key, prev, missed, signal, request>>
    BY <1>7 DEF OpenKey
  <2>2. Read(k) /\ Due(k)
    BY <2>1 DEF Read, Due
  <2>3. CASE k # at
    BY <1>1, <2>1, <2>2, <2>3
  <2>4. CASE k = at
    <3>1. pc = "compare"
      <4>1. ~(at < at)
        BY Ranges
      <4> QED
        BY <2>1, <2>2, <2>4, <4>1 DEF Read
    <3> QED
      BY <2>1, <2>4, <3>1 DEF SignalStays
  <2> QED
    BY <2>3, <2>4
<1>8. CASE UNCHANGED <<key, prev, missed, signal, request, early, wiped>> /\ (Read(k)' => Read(k))
  BY <1>1, <1>8 DEF Due
<1>9. CASE (\E v \in Values : NextValue(v)) \/ Wake \/ LeaveKeys \/ Stop \/ UNCHANGED regvars
  <2>1. UNCHANGED <<key, prev, missed, signal, request, early, wiped>> /\ (Read(k)' => Read(k))
    BY <1>9 DEF NextValue, Wake, LeaveKeys, Stop, regvars, history, Read
  <2> QED
    BY <1>8, <2>1
<1> QED
  BY <1>3, <1>4, <1>5, <1>6, <1>7, <1>9 DEF RegNext, Step

LEMMA EnumStep ==
  ASSUME RegTypeOK, Enumerating, BeganIsKnown, [RegNext]_regvars
  PROVE  Enumerating'
<1>1. at \in Keys /\ key \in [Keys -> SUBSET Values] /\ UNCHANGED began
  BY DEF RegTypeOK, RegNext, Step, OpenKey, NextValue, ReadKey, ArmKey, Wake, Compare, LeaveKeys, Stop, Change,
     regvars, history
<1>2. CASE OpenKey
  <2>1. /\ pc \in {"read", "compare"} /\ now' = {} /\ there' = key[at] /\ UNCHANGED <<pc, at, key, gone>>
    BY <1>2 DEF OpenKey
  <2> QED
    BY <1>1, <2>1 DEF Enumerating
<1>3. ASSUME NEW v \in Values, NextValue(v)
      PROVE  Enumerating'
  <2>1. /\ reading /\ v \in key[at] /\ now' = now \cup {v}
        /\ UNCHANGED <<pc, at, key, there, early, gone>>
    BY <1>3 DEF NextValue, history
  <2> QED
    BY <1>1, <2>1 DEF Enumerating
<1>4. CASE ReadKey \/ Compare
  <2>1. ~reading'
    BY <1>4, Learned DEF ReadKey, Compare
  <2> QED
    BY <2>1 DEF Enumerating
<1>5. ASSUME NEW k \in Keys, NEW new \in SUBSET Values, Change(k, new), reading
      PROVE  Enumerating'
  <2>1. /\ UNCHANGED <<pc, at, reading, now>> /\ pc \in {"read", "compare"}
        /\ there' = IF k = at THEN there \cap new ELSE there
    BY <1>5 DEF Change, Enumerating
  <2>2. CASE k # at
    <3>1. key'[at] = key[at] /\ gone \subseteq gone' /\ early \subseteq early' /\ there' = there
      BY <1>1, <1>5, <2>1, <2>2, Changed
    <3> QED
      BY <1>1, <1>5, <2>1, <3>1 DEF Enumerating
  <2>3. CASE k = at
    <3>1. key'[at] = new /\ there' = there \cap new /\ there \subseteq key[at]
      BY <1>1, <1>5, <2>1, <2>3 DEF Change, Enumerating
    <3>2. gone \subseteq gone' /\ \A v \in Values : v \in key[at] => v \in new \/ <<at, v>> \in gone'
      BY <1>5, <2>3, <3>1, Changed
    <3>3. now \subseteq Values /\ new \subseteq Values
      BY DEF RegTypeOK
    <3>4. \A v \in now : v \notin key'[at] => <<at, v>> \in gone'
      BY <1>5, <3>1, <3>2, <3>3 DEF Enumerating
    <3>5. \A v \in key'[at] : v \in began[at] => v \in there' \/ <<at, v>> \in gone'
      <4> SUFFICES ASSUME NEW v \in new, v \in began[at], <<at, v>> \notin gone
                   PROVE  v \in there
        BY <3>1, <3>2
      <4>1. v \in key[at]
        BY <1>1, <3>3 DEF BeganIsKnown
      <4> QED
        BY <1>5, <4>1 DEF Enumerating
    <3>6. pc = "read" => at \in early'
      <4>1. at \in at..NKeys
        BY Ranges
      <4> QED
        BY <1>5, <2>3, <4>1, Changed DEF RegTypeOK
    <3> QED
      BY <1>1, <2>1, <3>1, <3>4, <3>5, <3>6 DEF Enumerating
  <2> QED
    BY <2>2, <2>3
<1>6. CASE ~reading /\ reading' = reading
  BY <1>6 DEF Enumerating
<1>7. CASE ArmKey \/ Wake \/ LeaveKeys
  <2>1. UNCHANGED reading /\ pc \notin {"read", "compare"}
    BY <1>7 DEF ArmKey, Wake, LeaveKeys, enum
  <2>2. ~reading
    BY <2>1 DEF Enumerating
  <2> QED
    BY <1>6, <2>1, <2>2
<1>8. CASE Stop \/ UNCHANGED regvars
  <2>1. UNCHANGED <<pc, at, key, reading, now, there, early, gone>>
    BY <1>8 DEF Stop, regvars, enum, history
  <2> QED
    BY <1>1, <2>1 DEF Enumerating
<1> QED
  <2>1. ASSUME NEW k \in Keys, NEW new \in SUBSET Values, Change(k, new), ~reading
        PROVE  Enumerating'
    BY <1>6, <2>1 DEF Change
  <2> QED
    BY <1>2, <1>3, <1>4, <1>5, <1>7, <1>8, <2>1 DEF RegNext, Step

\* An enumeration that ends knows what was there from the beginning, or it is gone.
LEMMA BeganLearned ==
  ASSUME RegTypeOK, Enumerating, BeganIsKnown, reading, Known,
         NEW v \in Values, v \in began[at], <<at, v>> \notin gone'
  PROVE  v \in key[at] /\ v \in prev'[at]
<1>1. at \in Keys /\ gone \subseteq gone' /\ prev'[at] = now /\ \A x \in there \ now : <<at, x>> \in gone'
  BY Learned DEF RegTypeOK
<1>2. v \in key[at]
  BY <1>1 DEF BeganIsKnown
<1>3. v \in there
  BY <1>1, <1>2 DEF Enumerating
<1> QED
  BY <1>1, <1>2, <1>3

LEMMA BeganStep ==
  ASSUME RegTypeOK, Enumerating, BeganIsKnown, [RegNext]_regvars
  PROVE  BeganIsKnown'
<1> SUFFICES ASSUME NEW k \in Keys, NEW v \in Values, v \in began'[k], <<k, v>> \notin gone'
             PROVE  v \in key'[k] /\ (Read(k)' => v \in prev'[k])
  BY DEF BeganIsKnown
<1>1. at \in Keys /\ prev \in [Keys -> SUBSET Values] /\ key \in [Keys -> SUBSET Values] /\ UNCHANGED began
  BY DEF RegTypeOK, RegNext, Step, OpenKey, NextValue, ReadKey, ArmKey, Wake, Compare, LeaveKeys, Stop, Change,
     regvars, history
<1>2. <<k, v>> \notin gone => v \in key[k] /\ (Read(k) => v \in prev[k])
  BY <1>1 DEF BeganIsKnown
<1>3. CASE ReadKey \/ Compare
  <2>1. reading /\ Known /\ UNCHANGED key
    BY <1>3 DEF ReadKey, Compare, Enumerated
  <2>2. CASE k = at
    BY <1>1, <2>1, <2>2, BeganLearned
  <2>3. CASE k # at
    <3>1. prev'[k] = prev[k] /\ gone \subseteq gone'
      BY <2>1, <2>3, Learned
    <3>2. Read(k)' => Read(k)
      BY <1>3, <2>3, Moved DEF ReadKey, Compare, Read
    <3> QED
      BY <1>2, <2>1, <3>1, <3>2
  <2> QED
    BY <2>2, <2>3
<1>5. ASSUME NEW j \in Keys, NEW new \in SUBSET Values, Change(j, new)
      PROVE  v \in key'[k] /\ (Read(k)' => v \in prev'[k])
  <2>1. UNCHANGED <<prev, pc, at>>
    BY <1>5 DEF Change
  <2>2. <<k, v>> \notin gone /\ (v \in key[k] => v \in key'[k])
    BY <1>5, Changed
  <2> QED
    BY <1>2, <2>1, <2>2 DEF Read
<1>6. CASE OpenKey \/ (\E x \in Values : NextValue(x)) \/ ArmKey \/ Wake \/ LeaveKeys \/ Stop \/ UNCHANGED regvars
  <2>1. UNCHANGED <<key, prev, gone>> /\ (Read(k)' => Read(k))
    <3>1. CASE ArmKey
      BY <3>1, Moved DEF ArmKey, Read
    <3> QED
      BY <1>6, <3>1 DEF OpenKey, NextValue, Wake, LeaveKeys, Stop, regvars, history, Read
  <2> QED
    BY <1>2, <2>1
<1> QED
  BY <1>3, <1>5, <1>6 DEF RegNext, Step

LEMMA KeptStep ==
  ASSUME RegTypeOK, Enumerating, BeganIsKnown, KeptIsNotReported, [RegNext]_regvars
  PROVE  KeptIsNotReported'
<1> SUFFICES ASSUME NEW k \in Keys, NEW v \in Values, <<k, v>> \in reported', <<k, v>> \notin gone'
             PROVE  v \in key'[k] /\ v \notin began'[k]
  BY DEF KeptIsNotReported
<1>1. UNCHANGED began
  BY DEF RegNext, Step, OpenKey, NextValue, ReadKey, ArmKey, Wake, Compare, LeaveKeys, Stop, Change, regvars, history
<1>2. <<k, v>> \in reported => (v \in key[k] /\ v \notin began[k]) \/ <<k, v>> \in gone
  BY DEF KeptIsNotReported
<1>3. CASE Compare
  <2>1. /\ pc = "compare" /\ reading /\ Known
        /\ reported' = reported \cup {<<at, x>> : x \in now \ prev[at]} /\ UNCHANGED key
    BY <1>3 DEF Compare, Enumerated
  <2>2. gone \subseteq gone'
    BY <2>1, Learned
  <2>3. CASE <<k, v>> \in reported
    BY <1>1, <1>2, <2>1, <2>2, <2>3
  <2>4. CASE <<k, v>> \notin reported
    <3>1. k = at /\ v \in now /\ v \notin prev[k]
      BY <2>1, <2>4
    <3>2. v \in key[k]
      BY <2>1, <2>2, <3>1 DEF Enumerating
    <3>3. v \notin began[k]
      BY <2>1, <2>2, <3>1 DEF BeganIsKnown, Read
    <3> QED
      BY <1>1, <2>1, <3>2, <3>3
  <2> QED
    BY <2>3, <2>4
<1>4. ASSUME NEW j \in Keys, NEW new \in SUBSET Values, Change(j, new)
      PROVE  v \in key'[k] /\ v \notin began'[k]
  <2>1. UNCHANGED reported
    BY <1>4 DEF Change
  <2>2. <<k, v>> \notin gone /\ (v \in key[k] => v \in key'[k])
    BY <1>4, Changed
  <2> QED
    BY <1>1, <1>2, <2>1, <2>2
<1>5. CASE UNCHANGED <<key, reported>> /\ gone \subseteq gone'
  BY <1>1, <1>2, <1>5
<1>6. CASE ReadKey
  BY <1>5, <1>6, Learned DEF ReadKey
<1> QED
  BY <1>3, <1>4, <1>5, <1>6 DEF RegNext, Step, OpenKey, NextValue, ArmKey, Wake, LeaveKeys, Stop, regvars, history

-----------------------------------------------------------------------------
(* The theorems.                                                           *)

LEMMA RegInitIndInv ==
  ASSUME RegInit
  PROVE  RegIndInv
<1>1. 1 \in Keys /\ 0 \in 0..MaxChanges /\ \A k \in 1..NKeys : k \in Keys /\ ~(k < 1)
  BY RegAssumption DEF Keys
<1>2. RegTypeOK
  BY <1>1 DEF RegInit, RegTypeOK
<1>3. \A k \in Keys : ~Read(k)
  BY <1>1 DEF RegInit, Read, Keys
<1>4. SignalStays /\ NothingDue /\ Enumerating /\ BeganIsKnown /\ KeptIsNotReported
  BY <1>3 DEF RegInit, SignalStays, NothingDue, Enumerating, BeganIsKnown, KeptIsNotReported
<1> QED
  BY <1>2, <1>4 DEF RegIndInv

LEMMA RegStepIndInv ==
  ASSUME RegIndInv, [RegNext]_regvars
  PROVE  RegIndInv'
BY StepTypeOK, SignalStep, DueStep, EnumStep, BeganStep, KeptStep DEF RegIndInv

\* The inductive invariant, for any keys, values and changes.
THEOREM RegInductive == RegSpec => []RegIndInv
<1>1. RegInit => RegIndInv
  BY RegInitIndInv
<1>2. RegIndInv /\ [RegNext]_regvars => RegIndInv'
  BY RegStepIndInv
<1> QED
  BY <1>1, <1>2, PTL DEF RegSpec

\* Every variable stays in its range (reg_thread of src/src/realtime.c).
THEOREM RegTypeCorrect == RegSpec => []RegTypeOK
<1>1. RegIndInv => RegTypeOK
  BY DEF RegIndInv
<1> QED
  BY <1>1, RegInductive, PTL

\* While reg_thread waits, a key that differs from what it last read has its event
\* set, unless the change came before the first request or its signal was reset
\* unlooked at, or the key could not be opened; all it may know nothing of is a value
\* that read_run_key left out.
THEOREM NothingForgotten == RegSpec => []WaitsForNothingDue
<1>1. RegIndInv => WaitsForNothingDue
  BY DEF RegIndInv, NothingDue, WaitsForNothingDue, Read, Due
<1> QED
  BY <1>1, RegInductive, PTL

\* What was in a Run key before reg_thread began, has stayed and was left out by no
\* read of the key is never reported.
THEOREM KeptUnreported == RegSpec => []KeptIsNotReported
<1>1. RegIndInv => KeptIsNotReported
  BY DEF RegIndInv
<1> QED
  BY <1>1, RegInductive, PTL

-----------------------------------------------------------------------------
(* The file guard.                                                         *)

USE ShieldAssumption DEF Alive

-----------------------------------------------------------------------------
(* What the parts of the type invariant give.                              *)

LEMMA NullIsNoStart == Null \notin Starts
  BY DEF Null, Starts

LEMMA NextStart == ASSUME ContextOK, starts < MaxStarts
                   PROVE  starts + 1 \in Starts /\ starts + 1 \in 0..MaxStarts
  BY DEF ContextOK, Starts

LEMMA SlotTypes ==
  ContextOK => /\ ctx.stopev \in Starts \cup {Null} /\ ctx.dirh \in Starts \cup {Null}
               /\ ctx.thread \in Starts \cup {Null}
  BY DEF ContextOK

LEMMA MoveFrame == ASSUME WatcherOK, NEW g \in Starts, NEW w, Set(g, w)
                   PROVE  watcher'[g] = w /\ \A h \in Starts \ {g} : watcher'[h] = watcher[h]
  BY DEF WatcherOK, Set

LEMMA MoveType == ASSUME WatcherOK, NEW g \in Starts, NEW w \in Watcher, Set(g, w)
                  PROVE  WatcherOK'
  BY DEF WatcherOK, Set

LEMMA MoveLoop == ASSUME WatcherOK, LoopOK, NEW g \in Starts, NEW w, Set(g, w), InLoop(w)
                  PROVE  LoopOK'
<1> SUFFICES ASSUME NEW h \in Starts PROVE InLoop(watcher'[h])
  BY DEF LoopOK, InLoop
<1> QED
  BY MoveFrame DEF LoopOK

\* The changes a pending read can give are files.
LEMMA ReadsFiles == ASSUME TypeOK, NEW g \in Starts, watcher[g].pc = "wait"
                    PROVE  /\ watcher[g].read \in Starts
                           /\ folder[watcher[g].read].buf \in SUBSET Files
<1>1. watcher[g] \in Watcher /\ InLoop(watcher[g])
  BY DEF TypeOK, WatcherOK, LoopOK
<1>2. watcher[g].read \in Starts
  BY <1>1 DEF Watcher, InLoop
<1> QED
  BY <1>2 DEF TypeOK, FolderOK, Folder

-----------------------------------------------------------------------------
(* A step of a watcher, by the record it gets.                             *)

\* Each step of watch_thread leaves its thread where the loop has a place for it.
LEMMA Moves ==
  ASSUME TypeOK, NEW g \in Starts, WatcherStep(g)
  PROVE  \E w \in Watcher : Set(g, w) /\ InLoop(w)
<1> DEFINE v == watcher[g]
<1>1. v \in Watcher /\ InLoop(v)
  BY DEF TypeOK, WatcherOK, LoopOK
<1>2. ASSUME Open(g)
      PROVE \E w \in Watcher : Set(g, w) /\ InLoop(w)
  <2>1. [v EXCEPT !.pc = "arm", !.stopev = ctx.stopev] \in Watcher
        /\ InLoop([v EXCEPT !.pc = "arm", !.stopev = ctx.stopev])
    BY <1>1, <1>2, SlotTypes DEF TypeOK, Open, Watcher, InLoop
  <2>2. [v EXCEPT !.pc = "refused"] \in Watcher /\ InLoop([v EXCEPT !.pc = "refused"])
    BY <1>1, <1>2 DEF Open, Watcher, InLoop
  <2> QED
    BY <1>2, <2>1, <2>2 DEF Open, Go
<1>3. ASSUME Arm(g)
      PROVE \E w \in Watcher : Set(g, w) /\ InLoop(w)
  <2>1. CASE ctx.run /\ ctx.dirh # Null
    <3>1. [v EXCEPT !.pc = "wait", !.read = ctx.dirh] \in Watcher
          /\ InLoop([v EXCEPT !.pc = "wait", !.read = ctx.dirh])
      BY <1>1, <1>3, <2>1, SlotTypes DEF TypeOK, Arm, Watcher, InLoop
    <3> QED
      BY <1>3, <2>1, <3>1 DEF Arm
  <2>2. CASE ~(ctx.run /\ ctx.dirh # Null)
    <3>1. [v EXCEPT !.pc = "leave"] \in Watcher /\ InLoop([v EXCEPT !.pc = "leave"])
      BY <1>1, <1>3 DEF Arm, Watcher, InLoop
    <3> QED
      BY <1>3, <2>2, <3>1 DEF Arm, Go
  <2> QED
    BY <2>1, <2>2
<1>4. ASSUME WaitEnds(g)
      PROVE \E w \in Watcher : Set(g, w) /\ InLoop(w)
  <2>1. [v EXCEPT !.pc = "leave", !.read = Null] \in Watcher
        /\ InLoop([v EXCEPT !.pc = "leave", !.read = Null])
    BY <1>1, <1>4 DEF WaitEnds, Watcher, InLoop
  <2> QED
    BY <1>4, <2>1 DEF WaitEnds
<1>5. ASSUME Take(g)
      PROVE \E w \in Watcher : Set(g, w) /\ InLoop(w)
  <2> DEFINE b == folder[v.read].buf
             c == IF ctx.run THEN NextPc(b) ELSE "leave"
  <2>1. [v EXCEPT !.pc = c, !.read = Null, !.batch = b] \in Watcher
        /\ InLoop([v EXCEPT !.pc = c, !.read = Null, !.batch = b])
    <3>1. b \in SUBSET Files
      BY <1>5, ReadsFiles DEF Take, Readable
    <3> QED
      BY <1>1, <1>5, <3>1 DEF Take, Readable, NextPc, Watcher, InLoop
  <2> QED
    BY <1>5, <2>1 DEF Take
<1>6. ASSUME ReadCancelled(g)
      PROVE \E w \in Watcher : Set(g, w) /\ InLoop(w)
  <2> DEFINE c == IF ctx.run THEN "arm" ELSE "leave"
  <2>1. [v EXCEPT !.pc = c, !.read = Null] \in Watcher
        /\ InLoop([v EXCEPT !.pc = c, !.read = Null])
    BY <1>1, <1>6 DEF ReadCancelled, Watcher, InLoop
  <2> QED
    BY <1>6, <2>1 DEF ReadCancelled
<1>7. ASSUME NEW f \in Files, Check(g, f)
      PROVE \E w \in Watcher : Set(g, w) /\ InLoop(w)
  <2> DEFINE left == v.batch \ {f}
  <2>1. [v EXCEPT !.pc = "act", !.batch = left, !.threat = {f}] \in Watcher
        /\ InLoop([v EXCEPT !.pc = "act", !.batch = left, !.threat = {f}])
    BY <1>1, <1>7 DEF Check, Watcher, InLoop
  <2>2. [v EXCEPT !.pc = NextPc(left), !.batch = left] \in Watcher
        /\ InLoop([v EXCEPT !.pc = NextPc(left), !.batch = left])
    BY <1>1, <1>7 DEF Check, NextPc, Watcher, InLoop
  <2> QED
    BY <1>7, <2>1, <2>2 DEF Check
<1>8. ASSUME Act(g)
      PROVE \E w \in Watcher : Set(g, w) /\ InLoop(w)
  <2>1. [v EXCEPT !.pc = NextPc(v.batch), !.threat = {}] \in Watcher
        /\ InLoop([v EXCEPT !.pc = NextPc(v.batch), !.threat = {}])
    BY <1>1, <1>8 DEF Act, NextPc, Watcher, InLoop
  <2> QED
    BY <1>8, <2>1 DEF Act
<1>9. ASSUME Leave(g)
      PROVE \E w \in Watcher : Set(g, w) /\ InLoop(w)
  <2>1. [v EXCEPT !.pc = "over"] \in Watcher /\ InLoop([v EXCEPT !.pc = "over"])
    BY <1>1, <1>9 DEF Leave, Watcher, InLoop
  <2> QED
    BY <1>9, <2>1 DEF Leave, Go
<1> QED
  BY <1>2, <1>3, <1>4, <1>5, <1>6, <1>7, <1>8, <1>9 DEF WatcherStep

-----------------------------------------------------------------------------
(* The type invariant.                                                     *)

LEMMA ContextType == TypeOK /\ [Next]_vars => ContextOK'
<1> SUFFICES ASSUME TypeOK, [Next]_vars PROVE ContextOK'
  OBVIOUS
<1> USE DEF TypeOK
<1>1. CASE StartShield
  BY <1>1, NextStart DEF StartShield, ContextOK
<1>2. CASE StopShield
  BY <1>2 DEF StopShield, ContextOK
<1>3. CASE Stopped \/ StopGivesUp
  <2>1. ctx' = NoContext /\ ui' = "idle" /\ starts' = starts /\ slow' \in {slow, TRUE}
    BY <1>3 DEF Stopped, StopGivesUp, Clear
  <2> QED
    BY <2>1 DEF NoContext, ContextOK
<1>4. ASSUME NEW g \in Starts, Open(g)
      PROVE ContextOK'
  BY <1>4 DEF Open, ContextOK
<1>5. ASSUME NEW g \in Starts, Leave(g)
      PROVE ContextOK'
  BY <1>5 DEF Leave, ContextOK
<1>6. CASE UNCHANGED <<ctx, ui, starts, slow>>
  BY <1>6 DEF ContextOK
<1> QED
  BY <1>1, <1>2, <1>3, <1>4, <1>5, <1>6
     DEF Next, WatcherStep, Arm, WaitEnds, Take, ReadCancelled, Check, Act, BeginWrite, EndWrite, vars

LEMMA EventType == TypeOK /\ [Next]_vars => EventOK'
<1> SUFFICES ASSUME TypeOK, [Next]_vars PROVE EventOK'
  OBVIOUS
<1>1. CASE StartShield \/ StopShield \/ Stopped \/ StopGivesUp
  BY <1>1 DEF TypeOK, EventOK, StartShield, StopShield, Stopped, StopGivesUp, Clear
<1>2. CASE UNCHANGED event
  BY <1>2 DEF TypeOK, EventOK
<1> QED
  BY <1>1, <1>2
     DEF Next, WatcherStep, Open, Arm, WaitEnds, Take, ReadCancelled, Check, Act, Leave,
         BeginWrite, EndWrite, vars

LEMMA ReportType == ASSUME FolderOK, NEW f \in Files, Report(f) PROVE FolderOK'
<1>1. \A h \in Starts : folder[h] \in Folder
  BY DEF FolderOK
<1>2. \A h \in Starts : /\ [folder[h] EXCEPT !.buf = {}, !.full = TRUE] \in Folder
                        /\ [folder[h] EXCEPT !.buf = @ \cup {f}] \in Folder
  BY <1>1 DEF Folder
<1>3. ASSUME NEW h \in Starts
      PROVE folder'[h] \in Folder
  BY <1>1, <1>2, <1>3 DEF Report
<1>4. folder' = [h \in Starts |-> folder'[h]]
  BY DEF Report
<1> QED
  BY <1>3, <1>4 DEF FolderOK

LEMMA FolderType == TypeOK /\ [Next]_vars => FolderOK'
<1> SUFFICES ASSUME TypeOK, [Next]_vars PROVE FolderOK'
  OBVIOUS
<1>1. ASSUME NEW g \in Starts, Open(g)
      PROVE FolderOK'
  BY <1>1 DEF TypeOK, FolderOK, Folder, Open
<1>2. ASSUME NEW g \in Starts, Arm(g)
      PROVE FolderOK'
  <2>1. CASE ctx.run /\ ctx.dirh # Null
    <3>1. ctx.dirh \in Starts
      BY <2>1, SlotTypes DEF TypeOK
    <3>2. [folder[ctx.dirh] EXCEPT !.reading = TRUE] \in Folder
      BY <3>1 DEF TypeOK, FolderOK, Folder
    <3> QED
      BY <1>2, <2>1, <3>1, <3>2 DEF TypeOK, FolderOK, Arm
  <2>2. CASE ~(ctx.run /\ ctx.dirh # Null)
    BY <1>2, <2>2 DEF TypeOK, FolderOK, Arm
  <2> QED
    BY <2>1, <2>2
<1>3. ASSUME NEW g \in Starts, Take(g)
      PROVE FolderOK'
  <2>1. watcher[g].read \in Starts
    BY <1>3, ReadsFiles DEF Take, Readable
  <2> QED
    BY <1>3, <2>1 DEF TypeOK, FolderOK, Folder, Take
<1>4. ASSUME NEW g \in Starts, Leave(g)
      PROVE FolderOK'
  <2>1. [Unopened EXCEPT !.state = "closed"] \in Folder
    BY DEF Unopened, Folder
  <2> QED
    BY <1>4, <2>1 DEF TypeOK, FolderOK, Leave
<1>5. ASSUME NEW f \in Files, BeginWrite(f) \/ EndWrite(f, "good") \/ EndWrite(f, "bad")
      PROVE FolderOK'
  BY <1>5, ReportType DEF TypeOK, BeginWrite, EndWrite
<1>6. CASE UNCHANGED folder
  BY <1>6 DEF TypeOK, FolderOK
<1> QED
  BY <1>1, <1>2, <1>3, <1>4, <1>5, <1>6
     DEF Next, WatcherStep, StartShield, StopShield, Stopped, StopGivesUp, Clear, WaitEnds,
         ReadCancelled, Check, Act, vars

LEMMA WatcherType == IndInv /\ [Next]_vars => WatcherOK' /\ LoopOK'
<1> SUFFICES ASSUME IndInv, [Next]_vars PROVE WatcherOK' /\ LoopOK'
  OBVIOUS
<1> USE DEF IndInv, TypeOK
<1>1. CASE StartShield
  <2> DEFINE g == starts + 1
             w == [watcher[g] EXCEPT !.pc = "open"]
  <2>1. g \in Starts /\ g > starts
    BY <1>1, NextStart DEF StartShield, ContextOK
  <2>2. watcher[g] \in Watcher /\ InLoop(watcher[g]) /\ watcher[g].pc = "none"
    BY <2>1 DEF WatcherOK, LoopOK, ContextIsLast
  <2>3. w \in Watcher /\ InLoop(w)
    BY <2>2 DEF Watcher, InLoop
  <2> QED
    BY <1>1, <2>1, <2>3, MoveType, MoveLoop DEF StartShield, Set
<1>2. ASSUME NEW g \in Starts, WatcherStep(g)
      PROVE WatcherOK' /\ LoopOK'
  BY <1>2, Moves, MoveType, MoveLoop
<1>3. CASE UNCHANGED watcher
  BY <1>3 DEF WatcherOK, LoopOK, InLoop
<1> QED
  BY <1>1, <1>2, <1>3
     DEF Next, StopShield, Stopped, StopGivesUp, Clear, BeginWrite, EndWrite, vars

LEMMA FilesType == TypeOK /\ [Next]_vars => FilesOK'
<1> SUFFICES ASSUME TypeOK, [Next]_vars PROVE FilesOK'
  OBVIOUS
<1> USE DEF TypeOK
<1>1. CASE StartShield
  BY <1>1 DEF StartShield, FilesOK
<1>2. ASSUME NEW g \in Starts, Act(g)
      PROVE FilesOK'
  <2> DEFINE f == CHOOSE x \in watcher[g].threat : TRUE
  <2>1. f \in Files
    <3>1. watcher[g] \in Watcher /\ InLoop(watcher[g])
      BY DEF WatcherOK, LoopOK
    <3> QED
      BY <1>2, <3>1 DEF Act, Watcher, InLoop
  <2>2. [file EXCEPT ![f] = "absent"] \in [Files -> {"absent", "good", "bad", "busy"}]
    BY DEF FilesOK
  <2>3. file' \in [Files -> {"absent", "good", "bad", "busy"}]
    BY <1>2, <2>2 DEF Act, FilesOK
  <2> QED
    BY <1>2, <2>1, <2>3 DEF Act, FilesOK
<1>3. ASSUME NEW f \in Files, BeginWrite(f) \/ EndWrite(f, "good") \/ EndWrite(f, "bad")
      PROVE FilesOK'
  <2>1. file' \in [Files -> {"absent", "good", "bad", "busy"}] /\ tried' \subseteq Files
    BY <1>3 DEF BeginWrite, EndWrite, FilesOK
  <2>2. unseen' \subseteq Files /\ dropped' \subseteq Files
    <3>1. ctx.dirh # Null => folder[ctx.dirh].buf \subseteq Files
      BY SlotTypes DEF FolderOK, Folder
    <3>2. Report(f)
      BY <1>3 DEF BeginWrite, EndWrite
    <3>3. CASE ctx.dirh # Null /\ folder[ctx.dirh].reading
      <4>1. unseen' = unseen \ {f} /\ dropped' \subseteq dropped \cup {f} \cup folder[ctx.dirh].buf
        BY <3>2, <3>3 DEF Report
      <4> QED
        BY <3>1, <3>3, <4>1 DEF FilesOK
    <3>4. CASE ~(ctx.dirh # Null /\ folder[ctx.dirh].reading)
      <4>1. unseen' = unseen \cup {f} /\ dropped' = dropped \ {f}
        BY <3>2, <3>4 DEF Report
      <4> QED
        BY <4>1 DEF FilesOK
    <3> QED
      BY <3>3, <3>4
  <2> QED
    BY <2>1, <2>2 DEF FilesOK
<1>4. CASE UNCHANGED <<file, unseen, dropped, tried>>
  BY <1>4 DEF FilesOK
<1> QED
  BY <1>1, <1>2, <1>3, <1>4
     DEF Next, WatcherStep, StopShield, Stopped, StopGivesUp, Clear, Open, Arm, WaitEnds, Take,
         ReadCancelled, Check, Leave, vars

LEMMA WritesType == TypeOK /\ [Next]_vars => WritesOK'
<1>1. ASSUME WritesOK, NEW f \in Files, BeginWrite(f)
      PROVE WritesOK'
  BY <1>1 DEF BeginWrite, WritesOK
<1>2. ASSUME WritesOK, UNCHANGED writes
      PROVE WritesOK'
  BY <1>2 DEF WritesOK
<1> QED
  BY <1>1, <1>2
     DEF TypeOK, Next, WatcherStep, StartShield, StopShield, Stopped, StopGivesUp, Clear, Open, Arm,
         WaitEnds, Take, ReadCancelled, Check, Act, Leave, EndWrite, vars

-----------------------------------------------------------------------------
(* The context is the last start's.                                        *)

LEMMA LastStep == IndInv /\ [Next]_vars => ContextIsLast'
<1> SUFFICES ASSUME IndInv, [Next]_vars PROVE ContextIsLast'
  OBVIOUS
<1> USE DEF IndInv, TypeOK
<1>1. CASE StartShield
  <2>1. starts + 1 \in Starts /\ starts \in Nat /\ starts + 1 # Null
    BY <1>1, NextStart, NullIsNoStart DEF StartShield, ContextOK
  <2>2. \A h \in Starts : event[h] \in {"none", "closed"}
    BY <1>1, NullIsNoStart DEF StartShield, ContextIsLast
  <2>3. \A h \in Starts : IF h = ctx'.stopev THEN event'[h] = "open" ELSE event'[h] \in {"none", "closed"}
    BY <1>1, <2>1, <2>2 DEF StartShield, EventOK
  <2>4. ASSUME NEW h \in Starts, h > starts + 1
        PROVE watcher'[h].pc = "none"
    <3>1. h > starts /\ h # starts + 1
      BY <2>1, <2>4 DEF Starts
    <3> QED
      BY <1>1, <3>1 DEF StartShield, WatcherOK, ContextIsLast
  <2> QED
    BY <1>1, <2>1, <2>3, <2>4 DEF StartShield, ContextIsLast
<1>2. CASE StopShield
  <2>1. \A h \in Starts : IF h = ctx.stopev THEN event'[h] = "set" ELSE event'[h] \in {"none", "closed"}
    BY <1>2 DEF StopShield, EventOK, ContextIsLast
  <2>2. ctx' = [ctx EXCEPT !.run = FALSE] /\ ctx \in [run : BOOLEAN, stopev : Starts \cup {Null},
          dir : BOOLEAN, dirh : Starts \cup {Null}, thread : Starts \cup {Null}]
    BY <1>2 DEF StopShield, ContextOK
  <2> QED
    BY <1>2, <2>1, <2>2 DEF StopShield, ContextIsLast
<1>3. CASE Stopped \/ StopGivesUp
  <2>1. /\ event' = [event EXCEPT ![ctx.stopev] = "closed"] /\ ctx' = NoContext /\ ui' = "idle"
        /\ UNCHANGED <<starts, watcher>>
    BY <1>3 DEF Stopped, StopGivesUp, Clear
  <2>2. \A h \in Starts : event'[h] \in {"none", "closed"}
    BY <2>1 DEF EventOK, ContextIsLast
  <2> QED
    BY <2>1, <2>2, NullIsNoStart DEF NoContext, ContextIsLast
<1>4. ASSUME NEW g \in Starts, WatcherStep(g)
      PROVE ContextIsLast'
  <2>1. /\ UNCHANGED <<ui, starts, event>>
        /\ ctx'.run = ctx.run /\ ctx'.stopev = ctx.stopev /\ ctx'.dir = ctx.dir /\ ctx'.thread = ctx.thread
    <3>1. CASE Open(g) \/ Leave(g)
      BY <3>1 DEF Open, Leave, ContextOK
    <3>2. CASE UNCHANGED <<ctx, ui, starts, event>>
      BY <3>2
    <3> QED
      BY <1>4, <3>1, <3>2 DEF WatcherStep, Arm, WaitEnds, Take, ReadCancelled, Check, Act
  <2>2. watcher[g].pc # "none"
    BY <1>4 DEF WatcherStep, Open, Arm, WaitEnds, Take, Readable, ReadCancelled, Check, Act, Leave
  <2>3. \A h \in Starts \ {g} : watcher'[h] = watcher[h]
    BY <1>4, Moves, MoveFrame
  <2> QED
    BY <2>1, <2>2, <2>3 DEF ContextIsLast
<1>5. CASE UNCHANGED <<ctx, ui, starts, event, watcher>>
  BY <1>5 DEF ContextIsLast
<1> QED
  BY <1>1, <1>2, <1>3, <1>4, <1>5 DEF Next, BeginWrite, EndWrite, vars

-----------------------------------------------------------------------------
(* The slot has one owner.                                                 *)

\* With no watcher alive, no folder is open.
LEMMA NobodyNothing ==
  ASSUME IndInv, ~slow, \A h \in Starts : ~Alive(h)
  PROVE  ctx.dirh = Null /\ \A h \in Starts : folder[h].state # "open"
<1>1. ctx.dirh = Null
  BY SlotTypes DEF IndInv, TypeOK, OpenIsWatched
<1> QED
  BY <1>1, NullIsNoStart DEF IndInv, OpenIsWatched

\* The steps a watcher takes while it is in its loop.
Stays(g) == Arm(g) \/ WaitEnds(g) \/ Take(g) \/ ReadCancelled(g) \/ (\E f \in Files : Check(g, f)) \/ Act(g)

LEMMA StaysKeeps ==
  ASSUME TypeOK, NEW g \in Starts, Stays(g)
  PROVE  /\ UNCHANGED <<ctx, slow>>
         /\ \A h \in Starts : folder'[h].state = folder[h].state
         /\ \A h \in Starts \ {g} : watcher'[h] = watcher[h]
         /\ watcher[g].pc \in {"arm", "wait", "check", "act"}
         /\ watcher'[g].pc \in {"arm", "wait", "check", "act", "leave"}
         /\ watcher'[g].stopev = watcher[g].stopev
         /\ watcher'[g].read \in {Null, watcher[g].read, ctx.dirh}
<1>1. UNCHANGED <<ctx, slow>> /\ watcher[g].pc \in {"arm", "wait", "check", "act"}
  BY DEF Stays, Arm, WaitEnds, Take, Readable, ReadCancelled, Check, Act
<1>2. \A h \in Starts : folder'[h].state = folder[h].state
  <2>1. CASE Arm(g)
    BY <2>1 DEF Arm, TypeOK, FolderOK, Folder
  <2>2. CASE Take(g)
    BY <2>2 DEF Take, TypeOK, FolderOK, Folder
  <2>3. CASE UNCHANGED folder
    BY <2>3
  <2> QED
    BY <2>1, <2>2, <2>3 DEF Stays, WaitEnds, ReadCancelled, Check, Act
<1>3. \A h \in Starts \ {g} : watcher'[h] = watcher[h]
  <2>1. WatcherStep(g)
    BY DEF Stays, WatcherStep
  <2> QED
    BY <2>1, Moves, MoveFrame DEF TypeOK
<1>4. /\ watcher'[g].pc \in {"arm", "wait", "check", "act", "leave"}
      /\ watcher'[g].stopev = watcher[g].stopev
      /\ watcher'[g].read \in {Null, watcher[g].read, ctx.dirh}
  <2>1. watcher[g] \in Watcher /\ g \in DOMAIN watcher
    BY DEF TypeOK, WatcherOK
  <2>2. CASE Arm(g)
    BY <2>1, <2>2 DEF Arm, Set, Go, Watcher
  <2>3. CASE WaitEnds(g)
    BY <2>1, <2>3 DEF WaitEnds, Set, Watcher
  <2>4. CASE Take(g)
    BY <2>1, <2>4 DEF Take, Set, NextPc, Watcher
  <2>5. CASE ReadCancelled(g)
    BY <2>1, <2>5 DEF ReadCancelled, Set, Watcher
  <2>6. ASSUME NEW f \in Files, Check(g, f)
        PROVE /\ watcher'[g].pc \in {"arm", "wait", "check", "act", "leave"}
              /\ watcher'[g].stopev = watcher[g].stopev
              /\ watcher'[g].read \in {Null, watcher[g].read, ctx.dirh}
    <3> DEFINE left == watcher[g].batch \ {f}
    <3>1. CASE Set(g, [watcher[g] EXCEPT !.pc = "act", !.batch = left, !.threat = {f}])
      BY <2>1, <3>1 DEF Set, Watcher
    <3>2. CASE Set(g, [watcher[g] EXCEPT !.pc = NextPc(left), !.batch = left])
      BY <2>1, <3>2 DEF Set, NextPc, Watcher
    <3> QED
      BY <2>6, <3>1, <3>2 DEF Check
  <2>7. CASE Act(g)
    BY <2>1, <2>7 DEF Act, Set, NextPc, Watcher
  <2> QED
    BY <2>2, <2>3, <2>4, <2>5, <2>6, <2>7 DEF Stays
<1> QED
  BY <1>1, <1>2, <1>3, <1>4

LEMMA SlotStep == IndInv /\ [Next]_vars => OpenIsWatched' /\ WatcherOwnsSlot'
<1> SUFFICES ASSUME IndInv, [Next]_vars, ~slow' PROVE OpenIsWatched' /\ WatcherOwnsSlot'
  BY DEF OpenIsWatched, WatcherOwnsSlot
<1> USE DEF IndInv
<1>0. ~slow
  BY DEF Next, WatcherStep, StartShield, StopShield, Stopped, StopGivesUp, Clear, Open, Arm, WaitEnds,
         Take, ReadCancelled, Check, Act, Leave, BeginWrite, EndWrite, vars
<1>a. \A h \in Starts : Alive(h) => h = ctx.thread
  BY <1>0 DEF WatcherOwnsSlot
<1>r. \A h \in Starts : watcher[h].read # Null => watcher[h].pc = "wait"
  BY DEF TypeOK, LoopOK, InLoop
<1>1. CASE StartShield
  <2> DEFINE g == starts + 1
  <2>1. g \in Starts
    BY <1>1, NextStart DEF StartShield, TypeOK
  <2>2. \A h \in Starts : ~Alive(h)
    BY <1>1, <1>a, NullIsNoStart DEF StartShield, ContextIsLast
  <2>3. \A h \in Starts : folder'[h].state # "open"
    BY <1>0, <1>1, <2>2, NobodyNothing DEF StartShield
  <2>4. watcher'[g].pc = "open" /\ watcher'[g].read = Null
    BY <1>1, <1>r, <2>1, <2>2 DEF StartShield, TypeOK, WatcherOK, Watcher
  <2>5. \A h \in Starts \ {g} : ~Alive(h)'
    BY <1>1, <2>2 DEF StartShield, TypeOK, WatcherOK
  <2>6. ctx'.dirh = Null /\ ctx'.thread = g
    BY <1>1 DEF StartShield
  <2>7. OpenIsWatched'
    BY <2>3, <2>6 DEF OpenIsWatched
  <2>8. WatcherOwnsSlot'
    BY <2>4, <2>5, <2>6 DEF WatcherOwnsSlot
  <2> QED
    BY <2>7, <2>8
<1>2. CASE StopShield
  <2>1. ctx'.stopev = ctx.stopev /\ ctx'.dirh = ctx.dirh /\ ctx'.thread = ctx.thread
    BY <1>2 DEF StopShield, TypeOK, ContextOK
  <2>2. UNCHANGED <<watcher, folder>>
    BY <1>2 DEF StopShield
  <2> QED
    BY <1>0, <2>1, <2>2 DEF OpenIsWatched, WatcherOwnsSlot
<1>3. CASE Stopped
  <2>1. \A h \in Starts : ~Alive(h)
    BY <1>3, <1>a DEF Stopped
  <2>2. UNCHANGED <<watcher, folder>> /\ ctx'.dirh = Null
    BY <1>3 DEF Stopped, Clear, NoContext
  <2>3. \A h \in Starts : folder[h].state # "open"
    BY <1>0, <2>1, NobodyNothing
  <2> QED
    BY <2>1, <2>2, <2>3 DEF OpenIsWatched, WatcherOwnsSlot
<1>4. CASE StopGivesUp
  BY <1>4 DEF StopGivesUp
<1>5. ASSUME NEW g \in Starts, Open(g)
      PROVE OpenIsWatched' /\ WatcherOwnsSlot'
  <2>1. watcher[g].pc = "open" /\ g = ctx.thread /\ watcher[g].read = Null
    BY <1>5, <1>a, <1>r DEF Open
  <2>2. \A h \in Starts : folder[h].state # "open"
    BY <1>0, <2>1, NullIsNoStart DEF OpenIsWatched
  <2>3. \A h \in Starts \ {g} : ~Alive(h)'
    BY <1>5, <1>a, <2>1 DEF Open, Go, Set, TypeOK, WatcherOK
  <2>4. CASE folder' = [folder EXCEPT ![g].state = "open"]
             /\ ctx' = [ctx EXCEPT !.dirh = g]
             /\ Set(g, [watcher[g] EXCEPT !.pc = "arm", !.stopev = ctx.stopev])
    <3>1. ctx'.dirh = g /\ ctx'.thread = g /\ ctx'.stopev = ctx.stopev
      BY <2>1, <2>4 DEF TypeOK, ContextOK
    <3>2. watcher'[g].pc = "arm" /\ watcher'[g].stopev = ctx.stopev /\ watcher'[g].read = Null
      BY <2>1, <2>4 DEF Set, TypeOK, WatcherOK, Watcher
    <3>3. folder'[g].state = "open" /\ \A h \in Starts \ {g} : folder'[h].state # "open"
      BY <2>2, <2>4 DEF TypeOK, FolderOK, Folder
    <3>4. OpenIsWatched'
      BY <2>3, <3>1, <3>2, <3>3 DEF OpenIsWatched
    <3>5. WatcherOwnsSlot'
      BY <2>3, <3>1, <3>2, <3>3 DEF WatcherOwnsSlot
    <3> QED
      BY <3>4, <3>5
  <2>5. CASE Go(g, "refused") /\ ctx' = [ctx EXCEPT !.dirh = Null] /\ UNCHANGED folder
    <3>1. ctx'.dirh = Null
      BY <2>5 DEF TypeOK, ContextOK
    <3>2. watcher'[g].pc = "refused"
      BY <2>5 DEF Go, Set, TypeOK, WatcherOK, Watcher
    <3> QED
      BY <2>2, <2>3, <2>5, <3>1, <3>2 DEF OpenIsWatched, WatcherOwnsSlot
  <2> QED
    BY <1>5, <2>4, <2>5 DEF Open
<1>6. ASSUME NEW g \in Starts, Leave(g)
      PROVE OpenIsWatched' /\ WatcherOwnsSlot'
  <2>1. watcher[g].pc = "leave" /\ g = ctx.thread /\ ctx.dirh = g
    BY <1>0, <1>6, <1>a DEF Leave, WatcherOwnsSlot
  <2>2. \A h \in Starts : ~Alive(h)'
    BY <1>6, <1>a, <2>1 DEF Leave, Go, Set, TypeOK, WatcherOK, Watcher
  <2>3. \A h \in Starts : folder'[h].state # "open"
    BY <1>0, <1>6, <2>1 DEF Leave, Unopened, OpenIsWatched
  <2>4. ctx'.dirh = Null
    BY <1>6 DEF Leave, TypeOK, ContextOK
  <2> QED
    BY <2>2, <2>3, <2>4 DEF OpenIsWatched, WatcherOwnsSlot
<1>7. ASSUME NEW g \in Starts, Stays(g)
      PROVE OpenIsWatched' /\ WatcherOwnsSlot'
  <2>1. watcher[g].pc \notin {"open", "none", "refused", "over"} /\ g = ctx.thread /\ ctx.dirh = g
        /\ folder[g].state = "open" /\ watcher[g].stopev = ctx.stopev /\ watcher[g].read \in {Null, g}
    BY <1>0, <1>7, <1>a, StaysKeeps DEF WatcherOwnsSlot, TypeOK
  <2>2. ctx' = ctx /\ \A h \in Starts : folder'[h].state = folder[h].state
    BY <1>7, StaysKeeps
  <2>3. /\ watcher'[g].pc \notin {"open", "none", "refused", "over"}
        /\ watcher'[g].stopev = ctx.stopev /\ watcher'[g].read \in {Null, g}
    BY <1>7, <2>1, StaysKeeps
  <2>4. \A h \in Starts \ {g} : watcher'[h] = watcher[h]
    BY <1>7, StaysKeeps
  <2>5. OpenIsWatched'
    BY <1>0, <2>1, <2>2, <2>3, <2>4 DEF OpenIsWatched
  <2>6. WatcherOwnsSlot'
    BY <1>a, <2>1, <2>2, <2>3, <2>4 DEF WatcherOwnsSlot
  <2> QED
    BY <2>5, <2>6
<1>8. CASE \E f \in Files : BeginWrite(f) \/ EndWrite(f, "good") \/ EndWrite(f, "bad")
  <2>1. UNCHANGED <<ctx, watcher>> /\ \E f \in Files : Report(f)
    BY <1>8 DEF BeginWrite, EndWrite
  <2>2. \A h \in Starts : folder[h] \in Folder
    BY DEF TypeOK, FolderOK
  <2>3. ASSUME NEW h \in Starts
        PROVE folder'[h].state = folder[h].state
    <3>1. PICK f \in Files : Report(f)
      BY <2>1
    <3>2. folder'[h] \in {folder[h], [folder[h] EXCEPT !.buf = {}, !.full = TRUE],
                         [folder[h] EXCEPT !.buf = @ \cup {f}]}
      BY <3>1 DEF Report
    <3> QED
      BY <2>2, <3>2 DEF Folder
  <2> QED
    BY <1>0, <2>1, <2>3 DEF OpenIsWatched, WatcherOwnsSlot
<1>9. CASE UNCHANGED vars
  BY <1>0, <1>9 DEF vars, OpenIsWatched, WatcherOwnsSlot
<1> QED
  BY <1>1, <1>2, <1>3, <1>4, <1>5, <1>6, <1>7, <1>8, <1>9 DEF Next, WatcherStep, Stays

-----------------------------------------------------------------------------
(* The theorems.                                                           *)

LEMMA InitIndInv == Init => IndInv
<1> SUFFICES ASSUME Init PROVE IndInv
  OBVIOUS
<1> USE DEF Init
<1>1. ContextOK
  <2>1. NoContext \in [run : BOOLEAN, stopev : Starts \cup {Null}, dir : BOOLEAN,
                       dirh : Starts \cup {Null}, thread : Starts \cup {Null}]
    BY DEF NoContext
  <2>2. 0 \in 0..MaxStarts
    OBVIOUS
  <2> QED
    BY <2>1, <2>2 DEF ContextOK
<1>2. EventOK
  BY DEF EventOK
<1>3. FolderOK
  <2>1. Unopened \in Folder
    BY DEF Unopened, Folder
  <2> QED
    BY <2>1 DEF FolderOK
<1>4. NotBegun \in Watcher /\ InLoop(NotBegun) /\ NotBegun.pc = "none"
  BY DEF NotBegun, Watcher, InLoop
<1>5. WatcherOK /\ LoopOK
  BY <1>4 DEF WatcherOK, LoopOK
<1>6. FilesOK /\ WritesOK
  BY DEF FilesOK, WritesOK
<1>7. \A g \in Starts : watcher[g].pc = "none" /\ folder[g].state = "none" /\ event[g] = "none"
  BY <1>4 DEF Unopened
<1>8. ContextIsLast
  BY <1>7, NullIsNoStart DEF ContextIsLast, NoContext
<1>9. OpenIsWatched /\ WatcherOwnsSlot
  BY <1>7 DEF OpenIsWatched, WatcherOwnsSlot, NoContext
<1> QED
  BY <1>1, <1>2, <1>3, <1>5, <1>6, <1>8, <1>9 DEF IndInv, TypeOK

LEMMA StepIndInv == IndInv /\ [Next]_vars => IndInv'
  BY ContextType, EventType, FolderType, WatcherType, FilesType, WritesType, LastStep, SlotStep
     DEF IndInv, TypeOK

\* rt_start, rt_stop and watch_thread keep the inductive invariant in every
\* interleaving, whatever other programs write meanwhile.
THEOREM Inductive == Spec => []IndInv
  BY InitIndInv, StepIndInv, PTL DEF Spec

\* No variable leaves its range, and watch_thread has a pending read, a threat or
\* changes left exactly where its loop says.
THEOREM TypeCorrect == Spec => []TypeOK
<1>1. IndInv => TypeOK
  BY DEF IndInv
<1> QED
  BY <1>1, Inductive, PTL

\* Until a stop gives up waiting, the watcher of a running shield is alone and
\* reads, waits on and closes only what is its own: the slot rt_start gave it.
THEOREM SlotOwned == Spec => []WatcherOwnsSlot
<1>1. IndInv => WatcherOwnsSlot
  BY DEF IndInv
<1> QED
  BY <1>1, Inductive, PTL

\* Until a stop gives up waiting, rt_stop leaves no thread, no open folder handle
\* and no stop event behind.
THEOREM StoppedClean == Spec => []StopLeavesNothing
<1>1. IndInv => StopLeavesNothing
  <2> SUFFICES ASSUME IndInv, ~slow, ui = "idle", ~ctx.run, NEW g \in Starts
               PROVE  ~Alive(g) /\ folder[g].state # "open" /\ event[g] \in {"none", "closed"}
    BY DEF StopLeavesNothing
  <2>1. ctx.stopev = Null /\ ctx.thread = Null
    BY DEF IndInv, ContextIsLast
  <2>2. \A h \in Starts : ~Alive(h)
    BY <2>1, NullIsNoStart DEF IndInv, WatcherOwnsSlot
  <2>3. event[g] \in {"none", "closed"}
    BY <2>1, NullIsNoStart DEF IndInv, ContextIsLast
  <2> QED
    BY <2>2, <2>3, NobodyNothing
<1> QED
  BY <1>1, Inductive, PTL
=============================================================================
