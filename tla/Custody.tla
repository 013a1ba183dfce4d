------------------------------ MODULE Custody ------------------------------
(***************************************************************************)
(* What a quarantine vault promises, whatever threads use it and however   *)
(* their calls interleave: a stored copy is made of bytes that were on     *)
(* disk, never changes, and is destroyed only after its bytes were put     *)
(* back whole or while the user is giving it up.  The rest of the disk may *)
(* change in any way at any time.                                          *)
(***************************************************************************)
CONSTANTS Paths, Contents, Names, Absent, Partial

VARIABLES
  disk,      \* [Paths -> bytes, Partial or Absent]
  sealed,    \* [Names -> Contents \cup {Absent}]: the complete stored copies
  returned,  \* copies whose bytes have just been put back
  givenUp    \* copies the user is giving up

vars == <<disk, sealed, returned, givenUp>>

Disks == [Paths -> Contents \cup {Partial, Absent}]

Init ==
  /\ disk \in Disks
  /\ sealed = [s \in Names |-> Absent]
  /\ returned = {} /\ givenUp = {}

\* A complete copy of a file that is on the disk.
Seal(s, p) ==
  /\ sealed[s] = Absent /\ disk[p] \in Contents
  /\ sealed' = [sealed EXCEPT ![s] = disk[p]]
  /\ UNCHANGED <<disk, returned, givenUp>>

PutBack(s, p) ==
  /\ sealed[s] # Absent
  /\ disk' = [disk EXCEPT ![p] = sealed[s]]
  /\ returned' = returned \cup {s}
  /\ UNCHANGED <<sealed, givenUp>>

GiveUp(s) ==
  /\ givenUp' = givenUp \cup {s}
  /\ UNCHANGED <<disk, sealed, returned>>

Destroy(s) ==
  /\ s \in returned \cup givenUp
  /\ sealed' = [sealed EXCEPT ![s] = Absent]
  /\ returned' = returned \ {s} /\ givenUp' = givenUp \ {s}
  /\ UNCHANGED disk

\* Anything else on the machine; a release can lapse, a copy cannot.
Elsewhere ==
  /\ disk' \in Disks
  /\ returned' \subseteq returned /\ givenUp' \subseteq givenUp
  /\ UNCHANGED sealed

Next ==
  \/ \E s \in Names : \/ GiveUp(s) \/ Destroy(s)
                      \/ \E p \in Paths : Seal(s, p) \/ PutBack(s, p)
  \/ Elsewhere

Spec == Init /\ [][Next]_vars
=============================================================================
