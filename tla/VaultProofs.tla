---------------------------- MODULE VaultProofs ----------------------------
(***************************************************************************)
(* Theorems about the quarantine vault, for any number of threads, paths,  *)
(* contents, runs and names.  IndInv (module Vault) is inductive; the      *)
(* properties follow from it.                                              *)
(***************************************************************************)
EXTENDS Vault, TLAPS

USE VaultAssumption DEF Threads, Bytes, Resting

LEMMA InitIndInv == Init => IndInv
  BY DEF Init, IndInv, TypeOK, Calls, NamesIssued, OwnName, ListedWhole, Listed,
         CopyBeforeRemove, SourceHeld, RestoreSound, TargetEmpty, Jobs, Steps, Fates, At, Written

LEMMA TypeStep == TypeOK /\ [Next]_vars => TypeOK'
<1> SUFFICES ASSUME TypeOK, [Next]_vars PROVE TypeOK'
  OBVIOUS
<1> USE DEF TypeOK, Jobs, Steps, Fates, At, Goto, Move, Enter, Done, Listing, Names, Items
<1>1. ASSUME NEW t \in Threads, NEW p \in Paths, BeginAdd(t, p)
      PROVE TypeOK'
  BY <1>1 DEF BeginAdd
<1>2. ASSUME NEW t \in Threads, AddOpen(t)
      PROVE TypeOK'
  BY <1>2 DEF AddOpen
<1>3. ASSUME NEW t \in Threads, AddCopy(t)
      PROVE TypeOK'
  BY <1>3 DEF AddCopy
<1>4. ASSUME NEW t \in Threads, AddRemove(t)
      PROVE TypeOK'
  BY <1>4 DEF AddRemove
<1>5. ASSUME NEW t \in Threads, AddNote(t)
      PROVE TypeOK'
  <2>1. UNCHANGED <<disk, vault, index, pending, todo, shown, grace, run, count, writes>>
    BY <1>5 DEF AddNote
  <2>2. Goto(t, "append") \/ Done(t)
    BY <1>5 DEF AddNote
  <2>3. job[t].pc = "note"
    BY <1>5 DEF AddNote
  <2> QED
    BY <2>1, <2>2, <2>3
<1>6. ASSUME NEW t \in Threads, AddAppend(t)
      PROVE TypeOK'
  BY <1>6 DEF AddAppend
<1>7. CASE PageQuar
  BY <1>7 DEF PageQuar
<1>8. CASE PickRestore
  BY <1>8 DEF PickRestore, Pick
<1>9. CASE PickPurge
  BY <1>9 DEF PickPurge, Pick
<1>10. CASE RestoreOpen
  BY <1>10 DEF RestoreOpen
<1>11. CASE RestoreCopy
  BY <1>11 DEF RestoreCopy
<1>12. CASE Drop
  BY <1>12 DEF Drop
<1>13. CASE ReadIndex
  BY <1>13 DEF ReadIndex
<1>14. CASE TruncateIndex
  BY <1>14 DEF TruncateIndex
<1>15. CASE RewriteIndex
  BY <1>15 DEF RewriteIndex
<1>16. CASE Return
  BY <1>16 DEF Return
<1>17. ASSUME NEW p \in Paths, GraceEnds(p)
      PROVE TypeOK'
  BY <1>17 DEF GraceEnds
<1>18. ASSUME NEW p \in Paths, NEW b \in Contents, OtherWrites(p, b)
      PROVE TypeOK'
  BY <1>18 DEF OtherWrites
<1>19. ASSUME NEW reboot \in BOOLEAN, Restart(reboot)
      PROVE TypeOK'
  BY <1>19 DEF Restart
<1>20. CASE RestoreDiscard
  BY <1>20 DEF RestoreDiscard
<1>21. CASE UNCHANGED vars
  BY <1>21 DEF vars
<1> QED
  BY <1>1, <1>2, <1>3, <1>4, <1>5, <1>6, <1>7, <1>8, <1>9, <1>10, <1>11, <1>12, <1>13, <1>14, <1>15, <1>16, <1>17, <1>18, <1>19, <1>20,
     <1>21 DEF Next, ShieldAdds, AddStep, UiStep

LEMMA CallsStep == IndInv /\ [Next]_vars => Calls'
<1> SUFFICES ASSUME IndInv, [Next]_vars PROVE Calls'
  OBVIOUS
<1> USE DEF IndInv, TypeOK, Jobs, Steps, Calls, At, Goto, Move, Enter, Done
<1>1. ASSUME NEW t \in Threads, NEW p \in Paths, BeginAdd(t, p)
      PROVE Calls'
  BY <1>1 DEF BeginAdd
<1>2. ASSUME NEW t \in Threads, AddOpen(t)
      PROVE Calls'
  BY <1>2 DEF AddOpen
<1>3. ASSUME NEW t \in Threads, AddCopy(t)
      PROVE Calls'
  BY <1>3 DEF AddCopy
<1>4. ASSUME NEW t \in Threads, AddRemove(t)
      PROVE Calls'
  BY <1>4 DEF AddRemove
<1>5. ASSUME NEW t \in Threads, AddNote(t)
      PROVE Calls'
  BY <1>5 DEF AddNote
<1>6. ASSUME NEW t \in Threads, AddAppend(t)
      PROVE Calls'
  BY <1>6 DEF AddAppend
<1>7. CASE PageQuar
  BY <1>7 DEF PageQuar
<1>8. CASE PickRestore
  BY <1>8 DEF PickRestore, Pick
<1>9. CASE PickPurge
  BY <1>9 DEF PickPurge, Pick
<1>10. CASE RestoreOpen
  BY <1>10 DEF RestoreOpen
<1>11. CASE RestoreCopy
  BY <1>11 DEF RestoreCopy
<1>12. CASE Drop
  BY <1>12 DEF Drop
<1>13. CASE ReadIndex
  BY <1>13 DEF ReadIndex
<1>14. CASE TruncateIndex
  BY <1>14 DEF TruncateIndex
<1>15. CASE RewriteIndex
  BY <1>15 DEF RewriteIndex
<1>16. CASE Return
  BY <1>16 DEF Return
<1>17. ASSUME NEW p \in Paths, GraceEnds(p)
      PROVE Calls'
  BY <1>17 DEF GraceEnds
<1>18. ASSUME NEW p \in Paths, NEW b \in Contents, OtherWrites(p, b)
      PROVE Calls'
  BY <1>18 DEF OtherWrites
<1>19. ASSUME NEW reboot \in BOOLEAN, Restart(reboot)
      PROVE Calls'
  BY <1>19 DEF Restart
<1>20. CASE RestoreDiscard
  BY <1>20 DEF RestoreDiscard
<1>21. CASE UNCHANGED vars
  BY <1>21 DEF vars
<1> QED
  BY <1>1, <1>2, <1>3, <1>4, <1>5, <1>6, <1>7, <1>8, <1>9, <1>10, <1>11, <1>12, <1>13, <1>14, <1>15, <1>16, <1>17, <1>18, <1>19, <1>20,
     <1>21 DEF Next, ShieldAdds, AddStep, UiStep

LEMMA NamesStep == IndInv /\ [Next]_vars => NamesIssued'
<1> SUFFICES ASSUME IndInv, [Next]_vars PROVE NamesIssued'
  OBVIOUS
<1> USE DEF IndInv, TypeOK, Jobs, Names, Items, Calls, NamesIssued, Issued, Listed, Listing, At, Goto, Move, Enter, Done
<1>1. ASSUME NEW t \in Threads, NEW p \in Paths, BeginAdd(t, p)
      PROVE NamesIssued'
  BY <1>1 DEF BeginAdd
<1>2. ASSUME NEW t \in Threads, AddOpen(t)
      PROVE NamesIssued'
  BY <1>2 DEF AddOpen
<1>3. ASSUME NEW t \in Threads, AddCopy(t)
      PROVE NamesIssued'
  BY <1>3 DEF AddCopy
<1>4. ASSUME NEW t \in Threads, AddRemove(t)
      PROVE NamesIssued'
  <2>1. /\ job'[t].it = job[t].it /\ job'[t].op = job[t].op
        /\ \A u \in Threads \ {t} : job'[u] = job[u]
    BY <1>4 DEF AddRemove
  <2>2. UNCHANGED <<vault, index, todo, shown, run, count>>
    BY <1>4 DEF AddRemove
  <2> QED
    BY <2>1, <2>2
<1>5. ASSUME NEW t \in Threads, AddNote(t)
      PROVE NamesIssued'
  BY <1>5 DEF AddNote
<1>6. ASSUME NEW t \in Threads, AddAppend(t)
      PROVE NamesIssued'
  BY <1>6 DEF AddAppend
<1>7. CASE PageQuar
  BY <1>7 DEF PageQuar
<1>8. CASE PickRestore
  BY <1>8 DEF PickRestore, Pick
<1>9. CASE PickPurge
  BY <1>9 DEF PickPurge, Pick
<1>10. CASE RestoreOpen
  BY <1>10 DEF RestoreOpen
<1>11. CASE RestoreCopy
  BY <1>11 DEF RestoreCopy
<1>12. CASE Drop
  BY <1>12 DEF Drop
<1>13. CASE ReadIndex
  BY <1>13 DEF ReadIndex
<1>14. CASE TruncateIndex
  BY <1>14 DEF TruncateIndex
<1>15. CASE RewriteIndex
  BY <1>15 DEF RewriteIndex
<1>16. CASE Return
  BY <1>16 DEF Return
<1>17. ASSUME NEW p \in Paths, GraceEnds(p)
      PROVE NamesIssued'
  BY <1>17 DEF GraceEnds
<1>18. ASSUME NEW p \in Paths, NEW b \in Contents, OtherWrites(p, b)
      PROVE NamesIssued'
  BY <1>18 DEF OtherWrites
<1>19. ASSUME NEW reboot \in BOOLEAN, Restart(reboot)
      PROVE NamesIssued'
  BY <1>19 DEF Restart
<1>20. CASE RestoreDiscard
  BY <1>20 DEF RestoreDiscard
<1>21. CASE UNCHANGED vars
  BY <1>21 DEF vars
<1> QED
  BY <1>1, <1>2, <1>3, <1>4, <1>5, <1>6, <1>7, <1>8, <1>9, <1>10, <1>11, <1>12, <1>13, <1>14, <1>15, <1>16, <1>17, <1>18, <1>19, <1>20,
     <1>21 DEF Next, ShieldAdds, AddStep, UiStep

LEMMA OwnNameStep == IndInv /\ [Next]_vars => OwnName'
<1> SUFFICES ASSUME IndInv, [Next]_vars PROVE OwnName'
  OBVIOUS
<1> USE DEF IndInv, TypeOK, Jobs, Names, Items, Calls, NamesIssued, Issued, OwnName, Listed, Listing, At, Goto, Move, Enter, Done
<1>1. ASSUME NEW t \in Threads, NEW p \in Paths, BeginAdd(t, p)
      PROVE OwnName'
  BY <1>1 DEF BeginAdd
<1>2. ASSUME NEW t \in Threads, AddOpen(t)
      PROVE OwnName'
  BY <1>2 DEF AddOpen
<1>3. ASSUME NEW t \in Threads, AddCopy(t)
      PROVE OwnName'
  BY <1>3 DEF AddCopy
<1>4. ASSUME NEW t \in Threads, AddRemove(t)
      PROVE OwnName'
  BY <1>4 DEF AddRemove
<1>5. ASSUME NEW t \in Threads, AddNote(t)
      PROVE OwnName'
  BY <1>5 DEF AddNote
<1>6. ASSUME NEW t \in Threads, AddAppend(t)
      PROVE OwnName'
  BY <1>6 DEF AddAppend
<1>7. CASE PageQuar
  BY <1>7 DEF PageQuar
<1>8. CASE PickRestore
  BY <1>8 DEF PickRestore, Pick
<1>9. CASE PickPurge
  BY <1>9 DEF PickPurge, Pick
<1>10. CASE RestoreOpen
  BY <1>10 DEF RestoreOpen
<1>11. CASE RestoreCopy
  BY <1>11 DEF RestoreCopy
<1>12. CASE Drop
  BY <1>12 DEF Drop
<1>13. CASE ReadIndex
  BY <1>13 DEF ReadIndex
<1>14. CASE TruncateIndex
  BY <1>14 DEF TruncateIndex
<1>15. CASE RewriteIndex
  BY <1>15 DEF RewriteIndex
<1>16. CASE Return
  BY <1>16 DEF Return
<1>17. ASSUME NEW p \in Paths, GraceEnds(p)
      PROVE OwnName'
  BY <1>17 DEF GraceEnds
<1>18. ASSUME NEW p \in Paths, NEW b \in Contents, OtherWrites(p, b)
      PROVE OwnName'
  BY <1>18 DEF OtherWrites
<1>19. ASSUME NEW reboot \in BOOLEAN, Restart(reboot)
      PROVE OwnName'
  BY <1>19 DEF Restart
<1>20. CASE RestoreDiscard
  BY <1>20 DEF RestoreDiscard
<1>21. CASE UNCHANGED vars
  BY <1>21 DEF vars
<1> QED
  BY <1>1, <1>2, <1>3, <1>4, <1>5, <1>6, <1>7, <1>8, <1>9, <1>10, <1>11, <1>12, <1>13, <1>14, <1>15, <1>16, <1>17, <1>18, <1>19, <1>20,
     <1>21 DEF Next, ShieldAdds, AddStep, UiStep

LEMMA ListedStep == IndInv /\ [Next]_vars => ListedWhole'
<1> SUFFICES ASSUME IndInv, [Next]_vars PROVE ListedWhole'
  OBVIOUS
<1> USE DEF IndInv, TypeOK, Jobs, Items, Calls, OwnName, ListedWhole, CopyBeforeRemove, Listed, Listing, At, Goto, Move, Enter, Done
<1>1. ASSUME NEW t \in Threads, NEW p \in Paths, BeginAdd(t, p)
      PROVE ListedWhole'
  BY <1>1 DEF BeginAdd
<1>2. ASSUME NEW t \in Threads, AddOpen(t)
      PROVE ListedWhole'
  BY <1>2 DEF AddOpen
<1>3. ASSUME NEW t \in Threads, AddCopy(t)
      PROVE ListedWhole'
  BY <1>3 DEF AddCopy
<1>4. ASSUME NEW t \in Threads, AddRemove(t)
      PROVE ListedWhole'
  BY <1>4 DEF AddRemove
<1>5. ASSUME NEW t \in Threads, AddNote(t)
      PROVE ListedWhole'
  BY <1>5 DEF AddNote
<1>6. ASSUME NEW t \in Threads, AddAppend(t)
      PROVE ListedWhole'
  BY <1>6 DEF AddAppend
<1>7. CASE PageQuar
  BY <1>7 DEF PageQuar
<1>8. CASE PickRestore
  BY <1>8 DEF PickRestore, Pick
<1>9. CASE PickPurge
  BY <1>9 DEF PickPurge, Pick
<1>10. CASE RestoreOpen
  BY <1>10 DEF RestoreOpen
<1>11. CASE RestoreCopy
  BY <1>11 DEF RestoreCopy
<1>12. CASE Drop
  BY <1>12 DEF Drop
<1>13. CASE ReadIndex
  BY <1>13 DEF ReadIndex
<1>14. CASE TruncateIndex
  BY <1>14 DEF TruncateIndex
<1>15. CASE RewriteIndex
  BY <1>15 DEF RewriteIndex
<1>16. CASE Return
  BY <1>16 DEF Return
<1>17. ASSUME NEW p \in Paths, GraceEnds(p)
      PROVE ListedWhole'
  BY <1>17 DEF GraceEnds
<1>18. ASSUME NEW p \in Paths, NEW b \in Contents, OtherWrites(p, b)
      PROVE ListedWhole'
  BY <1>18 DEF OtherWrites
<1>19. ASSUME NEW reboot \in BOOLEAN, Restart(reboot)
      PROVE ListedWhole'
  BY <1>19 DEF Restart
<1>20. CASE RestoreDiscard
  BY <1>20 DEF RestoreDiscard
<1>21. CASE UNCHANGED vars
  BY <1>21 DEF vars
<1> QED
  BY <1>1, <1>2, <1>3, <1>4, <1>5, <1>6, <1>7, <1>8, <1>9, <1>10, <1>11, <1>12, <1>13, <1>14, <1>15, <1>16, <1>17, <1>18, <1>19, <1>20,
     <1>21 DEF Next, ShieldAdds, AddStep, UiStep

LEMMA CopyStep == IndInv /\ [Next]_vars => CopyBeforeRemove'
<1> SUFFICES ASSUME IndInv, [Next]_vars PROVE CopyBeforeRemove'
  OBVIOUS
<1> USE DEF IndInv, TypeOK, Jobs, Items, Calls, OwnName, CopyBeforeRemove, At, Goto, Move, Enter, Done
<1>1. ASSUME NEW t \in Threads, NEW p \in Paths, BeginAdd(t, p)
      PROVE CopyBeforeRemove'
  BY <1>1 DEF BeginAdd
<1>2. ASSUME NEW t \in Threads, AddOpen(t)
      PROVE CopyBeforeRemove'
  BY <1>2 DEF AddOpen
<1>3. ASSUME NEW t \in Threads, AddCopy(t)
      PROVE CopyBeforeRemove'
  BY <1>3 DEF AddCopy
<1>4. ASSUME NEW t \in Threads, AddRemove(t)
      PROVE CopyBeforeRemove'
  BY <1>4 DEF AddRemove
<1>5. ASSUME NEW t \in Threads, AddNote(t)
      PROVE CopyBeforeRemove'
  BY <1>5 DEF AddNote
<1>6. ASSUME NEW t \in Threads, AddAppend(t)
      PROVE CopyBeforeRemove'
  BY <1>6 DEF AddAppend
<1>7. CASE PageQuar
  BY <1>7 DEF PageQuar
<1>8. CASE PickRestore
  BY <1>8 DEF PickRestore, Pick
<1>9. CASE PickPurge
  BY <1>9 DEF PickPurge, Pick
<1>10. CASE RestoreOpen
  BY <1>10 DEF RestoreOpen
<1>11. CASE RestoreCopy
  BY <1>11 DEF RestoreCopy
<1>12. CASE Drop
  BY <1>12 DEF Drop
<1>13. CASE ReadIndex
  BY <1>13 DEF ReadIndex
<1>14. CASE TruncateIndex
  BY <1>14 DEF TruncateIndex
<1>15. CASE RewriteIndex
  BY <1>15 DEF RewriteIndex
<1>16. CASE Return
  BY <1>16 DEF Return
<1>17. ASSUME NEW p \in Paths, GraceEnds(p)
      PROVE CopyBeforeRemove'
  BY <1>17 DEF GraceEnds
<1>18. ASSUME NEW p \in Paths, NEW b \in Contents, OtherWrites(p, b)
      PROVE CopyBeforeRemove'
  BY <1>18 DEF OtherWrites
<1>19. ASSUME NEW reboot \in BOOLEAN, Restart(reboot)
      PROVE CopyBeforeRemove'
  BY <1>19 DEF Restart
<1>20. CASE RestoreDiscard
  BY <1>20 DEF RestoreDiscard
<1>21. CASE UNCHANGED vars
  BY <1>21 DEF vars
<1> QED
  BY <1>1, <1>2, <1>3, <1>4, <1>5, <1>6, <1>7, <1>8, <1>9, <1>10, <1>11, <1>12, <1>13, <1>14, <1>15, <1>16, <1>17, <1>18, <1>19, <1>20,
     <1>21 DEF Next, ShieldAdds, AddStep, UiStep

LEMMA TargetStep == IndInv /\ [Next]_vars => TargetEmpty'
<1> SUFFICES ASSUME IndInv, [Next]_vars PROVE TargetEmpty'
  OBVIOUS
<1> USE DEF IndInv, TypeOK, Jobs, Items, Calls, NamesIssued, Issued, Names, OwnName, TargetEmpty, At, Goto, Move, Enter, Done
<1>1. ASSUME NEW t \in Threads, NEW p \in Paths, BeginAdd(t, p)
      PROVE TargetEmpty'
  BY <1>1 DEF BeginAdd
<1>2. ASSUME NEW t \in Threads, AddOpen(t)
      PROVE TargetEmpty'
  BY <1>2 DEF AddOpen
<1>3. ASSUME NEW t \in Threads, AddCopy(t)
      PROVE TargetEmpty'
  BY <1>3 DEF AddCopy
<1>4. ASSUME NEW t \in Threads, AddRemove(t)
      PROVE TargetEmpty'
  BY <1>4 DEF AddRemove
<1>5. ASSUME NEW t \in Threads, AddNote(t)
      PROVE TargetEmpty'
  <2>1. /\ job'[t].pc \notin {"open", "copy"}
        /\ \A u \in Threads \ {t} : job'[u] = job[u]
    BY <1>5 DEF AddNote
  <2>2. vault' = vault
    BY <1>5 DEF AddNote
  <2> QED
    BY <2>1, <2>2
<1>6. ASSUME NEW t \in Threads, AddAppend(t)
      PROVE TargetEmpty'
  BY <1>6 DEF AddAppend
<1>7. CASE PageQuar
  BY <1>7 DEF PageQuar
<1>8. CASE PickRestore
  BY <1>8 DEF PickRestore, Pick
<1>9. CASE PickPurge
  BY <1>9 DEF PickPurge, Pick
<1>10. CASE RestoreOpen
  BY <1>10 DEF RestoreOpen
<1>11. CASE RestoreCopy
  BY <1>11 DEF RestoreCopy
<1>12. CASE Drop
  BY <1>12 DEF Drop
<1>13. CASE ReadIndex
  BY <1>13 DEF ReadIndex
<1>14. CASE TruncateIndex
  BY <1>14 DEF TruncateIndex
<1>15. CASE RewriteIndex
  BY <1>15 DEF RewriteIndex
<1>16. CASE Return
  BY <1>16 DEF Return
<1>17. ASSUME NEW p \in Paths, GraceEnds(p)
      PROVE TargetEmpty'
  BY <1>17 DEF GraceEnds
<1>18. ASSUME NEW p \in Paths, NEW b \in Contents, OtherWrites(p, b)
      PROVE TargetEmpty'
  BY <1>18 DEF OtherWrites
<1>19. ASSUME NEW reboot \in BOOLEAN, Restart(reboot)
      PROVE TargetEmpty'
  BY <1>19 DEF Restart
<1>20. CASE RestoreDiscard
  BY <1>20 DEF RestoreDiscard
<1>21. CASE UNCHANGED vars
  BY <1>21 DEF vars
<1> QED
  BY <1>1, <1>2, <1>3, <1>4, <1>5, <1>6, <1>7, <1>8, <1>9, <1>10, <1>11, <1>12, <1>13, <1>14, <1>15, <1>16, <1>17, <1>18, <1>19, <1>20,
     <1>21 DEF Next, ShieldAdds, AddStep, UiStep

LEMMA SourceStep == IndInv /\ [Next]_vars => SourceHeld'
<1> SUFFICES ASSUME IndInv, [Next]_vars PROVE SourceHeld'
  OBVIOUS
<1> USE DEF IndInv, TypeOK, Jobs, Items, Calls, SourceHeld, Held, Written, At, Goto, Move, Enter, Done
<1>1. ASSUME NEW t \in Threads, NEW p \in Paths, BeginAdd(t, p)
      PROVE SourceHeld'
  BY <1>1 DEF BeginAdd
<1>2. ASSUME NEW t \in Threads, AddOpen(t)
      PROVE SourceHeld'
  BY <1>2 DEF AddOpen
<1>3. ASSUME NEW t \in Threads, AddCopy(t)
      PROVE SourceHeld'
  BY <1>3 DEF AddCopy
<1>4. ASSUME NEW t \in Threads, AddRemove(t)
      PROVE SourceHeld'
  BY <1>4 DEF AddRemove
<1>5. ASSUME NEW t \in Threads, AddNote(t)
      PROVE SourceHeld'
  BY <1>5 DEF AddNote
<1>6. ASSUME NEW t \in Threads, AddAppend(t)
      PROVE SourceHeld'
  BY <1>6 DEF AddAppend
<1>7. CASE PageQuar
  BY <1>7 DEF PageQuar
<1>8. CASE PickRestore
  BY <1>8 DEF PickRestore, Pick
<1>9. CASE PickPurge
  BY <1>9 DEF PickPurge, Pick
<1>10. CASE RestoreOpen
  BY <1>10 DEF RestoreOpen
<1>11. CASE RestoreCopy
  BY <1>11 DEF RestoreCopy
<1>12. CASE Drop
  BY <1>12 DEF Drop
<1>13. CASE ReadIndex
  BY <1>13 DEF ReadIndex
<1>14. CASE TruncateIndex
  BY <1>14 DEF TruncateIndex
<1>15. CASE RewriteIndex
  BY <1>15 DEF RewriteIndex
<1>16. CASE Return
  BY <1>16 DEF Return
<1>17. ASSUME NEW p \in Paths, GraceEnds(p)
      PROVE SourceHeld'
  BY <1>17 DEF GraceEnds
<1>18. ASSUME NEW p \in Paths, NEW b \in Contents, OtherWrites(p, b)
      PROVE SourceHeld'
  BY <1>18 DEF OtherWrites
<1>19. ASSUME NEW reboot \in BOOLEAN, Restart(reboot)
      PROVE SourceHeld'
  BY <1>19 DEF Restart
<1>20. CASE RestoreDiscard
  BY <1>20 DEF RestoreDiscard
<1>21. CASE UNCHANGED vars
  BY <1>21 DEF vars
<1> QED
  BY <1>1, <1>2, <1>3, <1>4, <1>5, <1>6, <1>7, <1>8, <1>9, <1>10, <1>11, <1>12, <1>13, <1>14, <1>15, <1>16, <1>17, <1>18, <1>19, <1>20,
     <1>21 DEF Next, ShieldAdds, AddStep, UiStep

LEMMA RestoreStep == IndInv /\ [Next]_vars => RestoreSound'
<1> SUFFICES ASSUME IndInv, [Next]_vars PROVE RestoreSound'
  OBVIOUS
<1> USE DEF IndInv, TypeOK, Jobs, Items, Calls, OwnName, RestoreSound, ListedWhole, Held, At, Goto, Move, Enter, Done
<1>1. ASSUME NEW t \in Threads, NEW p \in Paths, BeginAdd(t, p)
      PROVE RestoreSound'
  BY <1>1 DEF BeginAdd
<1>2. ASSUME NEW t \in Threads, AddOpen(t)
      PROVE RestoreSound'
  BY <1>2 DEF AddOpen
<1>3. ASSUME NEW t \in Threads, AddCopy(t)
      PROVE RestoreSound'
  BY <1>3 DEF AddCopy
<1>4. ASSUME NEW t \in Threads, AddRemove(t)
      PROVE RestoreSound'
  BY <1>4 DEF AddRemove
<1>5. ASSUME NEW t \in Threads, AddNote(t)
      PROVE RestoreSound'
  BY <1>5 DEF AddNote
<1>6. ASSUME NEW t \in Threads, AddAppend(t)
      PROVE RestoreSound'
  BY <1>6 DEF AddAppend
<1>7. CASE PageQuar
  BY <1>7 DEF PageQuar
<1>8. CASE PickRestore
  BY <1>8 DEF PickRestore, Pick
<1>9. CASE PickPurge
  BY <1>9 DEF PickPurge, Pick
<1>10. CASE RestoreOpen
  BY <1>10 DEF RestoreOpen
<1>11. CASE RestoreCopy
  BY <1>11 DEF RestoreCopy
<1>12. CASE Drop
  BY <1>12 DEF Drop
<1>13. CASE ReadIndex
  BY <1>13 DEF ReadIndex
<1>14. CASE TruncateIndex
  BY <1>14 DEF TruncateIndex
<1>15. CASE RewriteIndex
  BY <1>15 DEF RewriteIndex
<1>16. CASE Return
  BY <1>16 DEF Return
<1>17. ASSUME NEW p \in Paths, GraceEnds(p)
      PROVE RestoreSound'
  BY <1>17 DEF GraceEnds
<1>18. ASSUME NEW p \in Paths, NEW b \in Contents, OtherWrites(p, b)
      PROVE RestoreSound'
  BY <1>18 DEF OtherWrites
<1>19. ASSUME NEW reboot \in BOOLEAN, Restart(reboot)
      PROVE RestoreSound'
  BY <1>19 DEF Restart
<1>20. CASE RestoreDiscard
  BY <1>20 DEF RestoreDiscard
<1>21. CASE UNCHANGED vars
  BY <1>21 DEF vars
<1> QED
  BY <1>1, <1>2, <1>3, <1>4, <1>5, <1>6, <1>7, <1>8, <1>9, <1>10, <1>11, <1>12, <1>13, <1>14, <1>15, <1>16, <1>17, <1>18, <1>19, <1>20,
     <1>21 DEF Next, ShieldAdds, AddStep, UiStep

\* IndInv holds in every reachable state.
THEOREM Inductive == Spec => []IndInv
<1>1. IndInv /\ [Next]_vars => IndInv'
  BY TypeStep, CallsStep, NamesStep, OwnNameStep, ListedStep, CopyStep, SourceStep, TargetStep,
     RestoreStep DEF IndInv
<1> QED
  BY InitIndInv, <1>1, PTL DEF Spec

\* Every variable keeps its type.
THEOREM TypeCorrect == Spec => []TypeOK
<1>1. IndInv => TypeOK
  BY DEF IndInv
<1> QED
  BY Inductive, <1>1, PTL

\* quar_add removes a file only while the vault has the bytes it read from it.
THEOREM CopiedBeforeRemoved == Spec => []CopyBeforeRemove
<1>1. IndInv => CopyBeforeRemove
  BY DEF IndInv
<1> QED
  BY Inductive, <1>1, PTL

\* Every entry of the index points at a complete copy or at nothing.
THEOREM IndexPointsAtWhole == Spec => []IndexedWhole
<1>1. IndInv => IndexedWhole
  BY DEF IndInv, ListedWhole, Listed, IndexedWhole
<1> QED
  BY Inductive, <1>1, PTL

-----------------------------------------------------------------------------
(* The vault keeps the promise of module Custody: every step of it is one  *)
(* of the abstract steps, or leaves the abstract state alone.              *)

LEMMA PromiseInit == Init => Promise!Init
  BY DEF Init, Promise!Init, Promise!Disks, StoredBytes, Dropping, At

LEMMA PromiseStep == IndInv /\ IndInv' /\ [Next]_vars => [Promise!Next]_(Promise!vars)
<1> SUFFICES ASSUME IndInv, IndInv', [Next]_vars PROVE [Promise!Next]_(Promise!vars)
  OBVIOUS
<1> USE DEF IndInv, TypeOK, Jobs, Items, Calls, At, Goto, Move, Enter, Done, Dropping, StoredBytes,
            Promise!Next, Promise!Elsewhere, Promise!Disks, Promise!vars
<1>1. ASSUME NEW t \in Threads, NEW p \in Paths, BeginAdd(t, p)
      PROVE [Promise!Next]_(Promise!vars)
  BY <1>1 DEF BeginAdd
<1>2. ASSUME NEW t \in Threads, AddOpen(t)
      PROVE [Promise!Next]_(Promise!vars)
  <2>1. job[t].it.stored \in Names /\ vault[job[t].it.stored] \notin Contents
    BY <1>2 DEF AddOpen, TargetEmpty
  <2>2. StoredBytes' = StoredBytes
    BY <1>2, <2>1 DEF AddOpen
  <2>3. \A op \in {"restore", "purge"} : Dropping(op)' \subseteq Dropping(op)
    BY <1>2, <2>1 DEF AddOpen
  <2>4. disk' = disk
    BY <1>2 DEF AddOpen
  <2> QED
    BY <2>2, <2>3, <2>4
<1>3. ASSUME NEW t \in Threads, AddCopy(t)
      PROVE [Promise!Next]_(Promise!vars)
  <2> DEFINE s == job[t].it.stored
             p == job[t].it.orig
  <2>1. s \in Names /\ p \in Paths /\ vault[s] \notin Contents /\ disk[p] = job[t].it.what
    BY <1>3 DEF AddCopy, TargetEmpty, SourceHeld
  <2>2. disk' = disk /\ \A u \in Threads \ {t} : job'[u] = job[u]
    BY <1>3 DEF AddCopy
  <2>3. job[Ui].op # "none" /\ Ui # t => job[Ui].it.stored # s
    BY <1>3, <2>1 DEF AddCopy, OwnName
  <2>4. \A op \in {"restore", "purge"} : Dropping(op)' = Dropping(op)
    BY <1>3, <2>1, <2>2, <2>3 DEF AddCopy
  <2>5. CASE vault' = [vault EXCEPT ![s] = job[t].it.what] /\ disk[p] \in Contents
    <3>1. StoredBytes[s] = Absent /\ StoredBytes' = [StoredBytes EXCEPT ![s] = disk[p]]
      BY <2>1, <2>5
    <3> QED
      BY <2>1, <2>2, <2>4, <2>5, <3>1 DEF Promise!Seal
  <2>6. CASE \E b \in {Absent, Partial} : vault' = [vault EXCEPT ![s] = b]
    <3>1. StoredBytes' = StoredBytes
      BY <2>1, <2>6
    <3> QED
      BY <2>2, <2>4, <3>1
  <2> QED
    BY <1>3, <2>1, <2>5, <2>6 DEF AddCopy
<1>4. ASSUME NEW t \in Threads, AddRemove(t)
      PROVE [Promise!Next]_(Promise!vars)
  BY <1>4 DEF AddRemove
<1>5. ASSUME NEW t \in Threads, AddNote(t)
      PROVE [Promise!Next]_(Promise!vars)
  BY <1>5 DEF AddNote
<1>6. ASSUME NEW t \in Threads, AddAppend(t)
      PROVE [Promise!Next]_(Promise!vars)
  BY <1>6 DEF AddAppend
<1>7. CASE PageQuar
  BY <1>7 DEF PageQuar
<1>8. CASE PickRestore
  BY <1>8 DEF PickRestore, Pick
<1>9. CASE PickPurge
  <2> DEFINE s == job'[Ui].it.stored
  <2>1. /\ s \in Names /\ At(Ui, "purge", "drop")' /\ disk' = disk /\ vault' = vault
        /\ Dropping("restore")' = {} /\ Dropping("restore") = {} /\ Dropping("purge") = {}
    BY <1>9 DEF PickPurge, Pick
  <2>2. StoredBytes' = StoredBytes
    BY <2>1
  <2>3. CASE vault[s] \in Contents
    <3>1. Dropping("purge")' = {s}
      BY <2>1, <2>3
    <3> QED
      BY <2>1, <2>2, <3>1 DEF Promise!GiveUp
  <2>4. CASE vault[s] \notin Contents
    <3>1. Dropping("purge")' = {}
      BY <2>1, <2>4
    <3> QED
      BY <2>1, <2>2, <3>1
  <2> QED
    BY <2>3, <2>4
<1>10. CASE RestoreOpen
  BY <1>10 DEF RestoreOpen
<1>11. CASE RestoreCopy
  <2> DEFINE s == job[Ui].it.stored
             p == job[Ui].it.orig
  <2>1. /\ s \in Names /\ p \in Paths /\ vault' = vault /\ disk' \in Promise!Disks
        /\ Dropping("purge")' = {} /\ Dropping("purge") = {} /\ Dropping("restore") = {}
    BY <1>11 DEF RestoreCopy, RestoreSound
  <2>2. StoredBytes' = StoredBytes
    BY <2>1
  <2>3. CASE At(Ui, "restore", "drop")' /\ job'[Ui].it = job[Ui].it /\ vault[s] \in Contents
    <3>1. Dropping("restore")' = {s}
      BY <2>1, <2>3
    <3>2. disk' = [disk EXCEPT ![p] = vault[s]]
      BY <1>11, <2>3 DEF RestoreCopy
    <3>3. StoredBytes[s] = vault[s] /\ vault[s] # Absent
      BY <2>1, <2>3
    <3> HIDE DEF StoredBytes, Dropping
    <3>4. Promise!PutBack(s, p)
      BY <2>1, <2>2, <3>1, <3>2, <3>3 DEF Promise!PutBack
    <3> QED
      BY <2>1, <3>4
  <2>4. CASE ~At(Ui, "restore", "drop")' \/ (job'[Ui].it = job[Ui].it /\ vault[s] \notin Contents)
    <3>1. Dropping("restore")' = {}
      BY <2>1, <2>4
    <3> QED
      BY <2>1, <2>2, <3>1
  <2>5. At(Ui, "restore", "drop")' => job'[Ui].it = job[Ui].it
    BY <1>11 DEF RestoreCopy
  <2> QED
    BY <2>3, <2>4, <2>5
<1>12. CASE Drop
  <2> DEFINE s == job[Ui].it.stored
  <2>1. s \in Names /\ disk' = disk /\ Dropping("restore")' = {} /\ Dropping("purge")' = {}
    BY <1>12 DEF Drop
  <2>2. CASE vault' = [vault EXCEPT ![s] = Absent] /\ vault[s] \in Contents
    <3>1. StoredBytes' = [StoredBytes EXCEPT ![s] = Absent]
      BY <2>1, <2>2
    <3>2. /\ s \in Dropping("restore") \cup Dropping("purge")
          /\ Dropping("restore") \subseteq {s} /\ Dropping("purge") \subseteq {s}
      BY <1>12, <2>1, <2>2 DEF Drop
    <3> HIDE DEF StoredBytes, Dropping
    <3>3. Promise!Destroy(s)
      BY <2>1, <3>1, <3>2 DEF Promise!Destroy
    <3> QED
      BY <2>1, <3>3
  <2>3. CASE vault' = vault \/ (vault' = [vault EXCEPT ![s] = Absent] /\ vault[s] \notin Contents)
    <3>1. StoredBytes' = StoredBytes
      BY <2>1, <2>3
    <3> QED
      BY <2>1, <3>1
  <2> QED
    BY <1>12, <2>2, <2>3 DEF Drop
<1>13. CASE ReadIndex
  BY <1>13 DEF ReadIndex
<1>14. CASE TruncateIndex
  BY <1>14 DEF TruncateIndex
<1>15. CASE RewriteIndex
  BY <1>15 DEF RewriteIndex
<1>16. CASE Return
  BY <1>16 DEF Return
<1>17. ASSUME NEW p \in Paths, GraceEnds(p)
      PROVE [Promise!Next]_(Promise!vars)
  BY <1>17 DEF GraceEnds
<1>18. ASSUME NEW p \in Paths, NEW b \in Contents, OtherWrites(p, b)
      PROVE [Promise!Next]_(Promise!vars)
  BY <1>18 DEF OtherWrites
<1>19. ASSUME NEW reboot \in BOOLEAN, Restart(reboot)
      PROVE [Promise!Next]_(Promise!vars)
  BY <1>19 DEF Restart
<1>20. CASE RestoreDiscard
  BY <1>20 DEF RestoreDiscard
<1>21. CASE UNCHANGED vars
  BY <1>21 DEF vars
<1> QED
  BY <1>1, <1>2, <1>3, <1>4, <1>5, <1>6, <1>7, <1>8, <1>9, <1>10, <1>11, <1>12, <1>13, <1>14, <1>15, <1>16, <1>17, <1>18, <1>19, <1>20,
     <1>21 DEF Next, ShieldAdds, AddStep, UiStep

\* Whatever the threads do and wherever the program is stopped, the vault keeps
\* the promise of module Custody.
THEOREM KeepsPromise == Spec => PromiseSpec
  BY PromiseInit, PromiseStep, Inductive, PTL DEF Spec, PromiseSpec, Promise!Spec
\* One step of the program loses the last copy of a file's bytes only in the
\* ways NoOtherLoss lists.
LEMMA LossStep == IndInv /\ [Next]_vars =>
  \A c \in Contents : Safe(c) /\ ~Safe(c)' => Excused(c)
<1> SUFFICES ASSUME IndInv, [Next]_vars, NEW c \in Contents, Safe(c), ~Safe(c)' PROVE Excused(c)
  OBVIOUS
<1> USE DEF IndInv, TypeOK, Jobs, Items, Calls, At, Goto, Move, Enter, Done, Safe
<1>0. (disk' = disk /\ vault' = vault) => FALSE
  OBVIOUS
<1>1. ASSUME NEW t \in Threads, NEW p \in Paths, BeginAdd(t, p)
      PROVE Excused(c)
  BY <1>0, <1>1 DEF BeginAdd
<1>2. ASSUME NEW t \in Threads, AddOpen(t)
      PROVE Excused(c)
  BY <1>2 DEF AddOpen, TargetEmpty
<1>3. ASSUME NEW t \in Threads, AddCopy(t)
      PROVE Excused(c)
  BY <1>3 DEF AddCopy, TargetEmpty
<1>4. ASSUME NEW t \in Threads, AddRemove(t)
      PROVE Excused(c)
  BY <1>4 DEF AddRemove, CopyBeforeRemove, Excused, RemovesNewer
<1>5. ASSUME NEW t \in Threads, AddNote(t)
      PROVE Excused(c)
  BY <1>0, <1>5 DEF AddNote
<1>6. ASSUME NEW t \in Threads, AddAppend(t)
      PROVE Excused(c)
  BY <1>0, <1>6 DEF AddAppend
<1>7. CASE PageQuar
  BY <1>0, <1>7 DEF PageQuar
<1>8. CASE PickRestore
  BY <1>0, <1>8 DEF PickRestore, Pick
<1>9. CASE PickPurge
  BY <1>0, <1>9 DEF PickPurge, Pick
<1>10. CASE RestoreOpen
  BY <1>10 DEF RestoreOpen, Excused, RestoresOver
<1>11. CASE RestoreCopy
  BY <1>11 DEF RestoreCopy, RestoreSound
<1>12. CASE Drop
  BY <1>12 DEF Drop, RestoreSound, Excused, UserPurges, DropsReplaced
<1>13. CASE ReadIndex
  BY <1>0, <1>13 DEF ReadIndex
<1>14. CASE TruncateIndex
  BY <1>0, <1>14 DEF TruncateIndex
<1>15. CASE RewriteIndex
  BY <1>0, <1>15 DEF RewriteIndex
<1>16. CASE Return
  BY <1>0, <1>16 DEF Return
<1>17. ASSUME NEW p \in Paths, GraceEnds(p)
      PROVE Excused(c)
  BY <1>0, <1>17 DEF GraceEnds
<1>18. ASSUME NEW p \in Paths, NEW b \in Contents, OtherWrites(p, b)
      PROVE Excused(c)
  BY <1>18 DEF OtherWrites, Excused, Overwrites
<1>19. ASSUME NEW reboot \in BOOLEAN, Restart(reboot)
      PROVE Excused(c)
  BY <1>19 DEF Restart, Excused, BootRemoves
<1>20. CASE RestoreDiscard
  BY <1>20 DEF RestoreDiscard, Excused, DiscardsNewer
<1>21. CASE UNCHANGED vars
  BY <1>0, <1>21 DEF vars
<1> QED
  BY <1>1, <1>2, <1>3, <1>4, <1>5, <1>6, <1>7, <1>8, <1>9, <1>10, <1>11, <1>12, <1>13, <1>14, <1>15, <1>16, <1>17, <1>18, <1>19, <1>20,
     <1>21 DEF Next, ShieldAdds, AddStep, UiStep

\* No failed call and no interleaving of the threads loses the last copy of a
\* file's bytes in any other way than those.
THEOREM LosesNothingElse == Spec => NoOtherLoss
<1>1. IndInv /\ [Next]_vars => [\A c \in Contents : Safe(c) /\ ~Safe(c)' => Excused(c)]_vars
  BY LossStep
<1> QED
  BY Inductive, <1>1, PTL DEF Spec, NoOtherLoss
=============================================================================
