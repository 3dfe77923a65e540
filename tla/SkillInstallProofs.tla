------------------------- MODULE SkillInstallProofs -------------------------
(***************************************************************************)
(* What SkillInstall promises of bundles and configuration, for any number *)
(* of executions.                                                          *)
(***************************************************************************)
EXTENDS SkillInstall, TLAPS

USE DEF vars, fileVars, configVars

\* Before its own rename an installation has no backup.
NoBackupYet ==
  \A i \in Installs :
    pc[i] \in {"idle", "download", "extract", "look", "moveAway"} => ~MovedExisting(i)

\* Who left the bundle's place empty still has what it took away, and is not
\* on the way to removing it.
Holds(i) ==
  /\ MovedExisting(i)
  /\ pc[i] \in {"moveIn", "rollback", "giveUp", "failed", "crashed"}
EmptyIsHeld == (placed # {} /\ dest = NoBundle) => \E i \in Installs : Holds(i)

\* The hash tells configurations apart.
HashTells ==
  \A e \in Executions :
    /\ seen[e].hash <= hash
    /\ seen[e].hash = hash => seen[e].dirs = dirs

PatchCounted ==
  \A p \in Patches :
    /\ patchPc[p] \in {"idle", "get", "patch", "getAgain", "patchAgain"} => applied[p] = 0
    /\ patchPc[p] = "done" => applied[p] = 1
    /\ applied[p] <= 1

(***************************************************************************)
(* Types.                                                                  *)
(***************************************************************************)

\* Init gives every variable a value of its type.
LEMMA InitType == ASSUME Init PROVE InstallTypeOK
BY InstallAssumption
DEF Init, InstallTypeOK, Steps, PatchSteps, Bundles, Executions

\* The program counter keeps its type.
LEMMA GotoType ==
  ASSUME InstallTypeOK, NEW i \in Installs, NEW from, NEW to \in Steps, Goto(i, from, to)
  PROVE  pc' \in [Installs -> Steps]
BY DEF Goto, InstallTypeOK

\* The steps of an installation keep the types.
LEMMA InstallKeepsType ==
  ASSUME InstallTypeOK, NEW i \in Installs, InstallSteps(i)
  PROVE  InstallTypeOK'
<1> USE DEF InstallTypeOK, Bundles, Executions
<1>1. CASE Start(i) BY <1>1 DEF Start, Goto, Steps
<1>2. CASE Download(i) BY <1>2 DEF Download, Goto, Steps
<1>3. CASE Extract(i) BY <1>3 DEF Extract, Goto, Steps
<1>4. CASE Look(i)
  <2>1. pc' \in [Installs -> Steps] BY <1>4, GotoType DEF Look, Steps
  <2>2. QED BY <1>4, <2>1 DEF Look
<1>5. CASE MoveAway(i)
  <2>1. pc' \in [Installs -> Steps] BY <1>5, GotoType DEF MoveAway, Steps
  <2>2. QED BY <1>5, <2>1 DEF MoveAway
<1>6. CASE MoveIn(i)
  <2>1. pc' \in [Installs -> Steps] BY <1>6, GotoType DEF MoveIn, Steps
  <2>2. QED BY <1>6, <2>1 DEF MoveIn
<1>7. CASE Rollback(i)
  <2>1. pc' \in [Installs -> Steps] BY <1>7, GotoType DEF Rollback, Steps
  <2>2. lost' \in BOOLEAN BY <1>7, Zenon DEF Rollback
  <2>3. /\ dest' \in Bundles \cup {NoBundle}
        /\ backup' \in [Installs -> Bundles \cup {NoBundle}]
    BY <1>7 DEF Rollback
  <2>4. QED BY <1>7, <2>1, <2>2, <2>3 DEF Rollback
<1>8. CASE CleanStaging(i) BY <1>8 DEF CleanStaging, Goto, Steps
<1>9. CASE ConfigGet(i) BY <1>9 DEF ConfigGet, ReadConfig, Goto, Steps
<1>10. CASE PatchDirs(i)
  <2>1. CASE dirs' = seen[i].dirs \cup {Root} /\ hash' = hash + 1
    BY <1>10, <2>1 DEF PatchDirs, PatchedAlone, IsCurrent, Goto, Steps
  <2>2. CASE UNCHANGED configVars
    BY <1>10, <2>2 DEF PatchDirs, PatchedAlone, IsCurrent, Goto, Steps
  <2>3. QED BY <1>10, <2>1, <2>2 DEF PatchDirs
<1>11. CASE DropBackup(i) BY <1>11 DEF DropBackup, Goto, Steps
<1>12. QED
  BY <1>1, <1>2, <1>3, <1>4, <1>5, <1>6, <1>7, <1>8, <1>9, <1>10, <1>11 DEF InstallSteps

\* So do those of a configuration patch.
LEMMA PatchKeepsType ==
  ASSUME InstallTypeOK, NEW p \in Patches, FleetPatchSteps(p)
  PROVE  InstallTypeOK'
<1> USE DEF InstallTypeOK, Steps, PatchSteps, Bundles, Executions, GotoPatch
<1>1. CASE StartPatch(p) BY <1>1 DEF StartPatch
<1>2. CASE PatchGets(p)
  <2>1. patchPc' \in [Patches -> PatchSteps] BY <1>2 DEF PatchGets
  <2>2. seen' \in [Executions -> [dirs: SUBSET (OtherDirs \cup {Root}), hash: Nat]]
    BY <1>2 DEF PatchGets, ReadConfig
  <2>3. QED BY <1>2, <2>1, <2>2 DEF PatchGets
<1>3. CASE PatchApplies(p) BY <1>3 DEF PatchApplies, AfterError
<1>4. CASE PatchRefused(p) BY <1>4 DEF PatchRefused, AfterError
<1>5. QED BY <1>1, <1>2, <1>3, <1>4 DEF FleetPatchSteps

\* Every step keeps the types.
LEMMA StepKeepsType == ASSUME InstallTypeOK, [Next]_vars PROVE InstallTypeOK'
<1> USE DEF InstallTypeOK, Steps, PatchSteps, Bundles, Executions
<1>1. CASE \E i \in Installs : InstallSteps(i) BY <1>1, InstallKeepsType
<1>2. CASE \E p \in Patches : FleetPatchSteps(p) BY <1>2, PatchKeepsType
<1>3. CASE \E d \in OtherDirs : OtherAdds(d) BY <1>3 DEF OtherAdds
<1>4. CASE Crash BY <1>4 DEF Crash
<1>5. CASE UNCHANGED vars BY <1>5
<1>6. QED BY <1>1, <1>2, <1>3, <1>4, <1>5 DEF Next

\* The state of installations and configuration keeps its types.
THEOREM InstallTypeCorrect == Spec => []InstallTypeOK
<1>1. QED BY InitType, StepKeepsType, PTL DEF Spec

(***************************************************************************)
(* The bundle's directory.                                                 *)
(***************************************************************************)

FilesInv == NoBackupYet /\ EmptyIsHeld /\ NoGap /\ KeptUntilDone

\* A call that touches no directory, provided who holds the empty place goes on
\* holding it.
LEMMA QuietStep ==
  ASSUME InstallTypeOK, FilesInv,
         NEW i \in Installs, NEW from, NEW to \in Steps, Goto(i, from, to),
         UNCHANGED <<dest, backup, placed, lost>>,
         from # "done",
         to \in {"idle", "download", "extract", "look", "moveAway"}
           => from \in {"idle", "download", "extract", "look", "moveAway"},
         Holds(i) => to \in {"moveIn", "rollback", "giveUp", "failed", "crashed"},
         InTheGap(i) => to \in {"moveIn", "rollback"} \/ dest # NoBundle
  PROVE  FilesInv'
<1> USE DEF InstallTypeOK, Goto, MovedExisting, FilesInv
<1>1. NoBackupYet' BY DEF NoBackupYet
<1>2. EmptyIsHeld' BY DEF EmptyIsHeld, Holds
<1>3. NoGap' BY DEF NoGap, InTheGap
<1>4. KeptUntilDone'
  <2>1. (\A j \in Installs : pc'[j] # "done") => \A j \in Installs : pc[j] # "done"
    OBVIOUS
  <2>2. QED BY <2>1 DEF KeptUntilDone
<1>5. QED BY <1>1, <1>2, <1>3, <1>4

\* The two renames and the rollback, and the end of a successful installation.
LEMMA SwapKeepsFiles ==
  ASSUME InstallTypeOK, FilesInv, NEW i \in Installs,
         MoveAway(i) \/ MoveIn(i) \/ Rollback(i) \/ DropBackup(i)
  PROVE  FilesInv'
<1> USE InstallAssumption DEF InstallTypeOK, FilesInv, Bundles, Steps
<1>1. CASE MoveAway(i)
  <2>1. CASE Goto(i, "moveAway", "giveUp") /\ UNCHANGED <<dest, backup>>
    BY <1>1, <2>1, QuietStep DEF MoveAway, Holds, InTheGap, NoBackupYet, Goto
  <2>2. CASE /\ Goto(i, "moveAway", "moveIn") /\ dest # NoBundle
             /\ backup' = [backup EXCEPT ![i] = dest] /\ dest' = NoBundle
    <3> USE <1>1, <2>2 DEF MoveAway, Goto, MovedExisting
    <3>1. backup[i] = NoBundle BY DEF NoBackupYet
    <3>2. NoBackupYet' BY DEF NoBackupYet
    <3>3. EmptyIsHeld' /\ NoGap' BY DEF EmptyIsHeld, Holds, NoGap, InTheGap
    <3>4. KeptUntilDone'
      <4>1. SUFFICES ASSUME \A j \in Installs : pc'[j] # "done", NEW b \in placed
                     PROVE  b \in {dest'} \cup {backup'[j] : j \in Installs}
        BY DEF KeptUntilDone
      <4>2. \A j \in Installs : pc[j] # "done" BY <4>1
      <4>3. CASE b = dest BY <4>3
      <4>4. CASE b # dest
        <5>1. PICK j \in Installs : backup[j] = b BY <4>2, <4>4 DEF KeptUntilDone
        <5>2. CASE j # i BY <5>1, <5>2
        <5>3. CASE j = i BY <5>1, <5>3, <3>1 
        <5>4. QED BY <5>2, <5>3
      <4>5. QED BY <4>3, <4>4
    <3>5. QED BY <3>2, <3>3, <3>4
  <2>3. QED BY <1>1, <2>1, <2>2 DEF MoveAway
<1>2. CASE MoveIn(i)
  <2>1. CASE Goto(i, "moveIn", "clean") /\ dest = NoBundle
             /\ dest' = i /\ placed' = placed \cup {i}
    <3> USE <1>2, <2>1 DEF MoveIn, Goto, MovedExisting
    <3>1. NoBackupYet' BY DEF NoBackupYet
    <3>2. EmptyIsHeld' /\ NoGap' BY DEF EmptyIsHeld, NoGap
    <3>3. KeptUntilDone' BY DEF KeptUntilDone
    <3>4. QED BY <3>1, <3>2, <3>3
  <2>2. CASE /\ Goto(i, "moveIn", IF MovedExisting(i) THEN "rollback" ELSE "giveUp")
             /\ UNCHANGED <<dest, placed>>
    <3>1. CASE MovedExisting(i)
      BY <1>2, <2>2, <3>1, QuietStep DEF MoveIn, Goto
    <3>2. CASE ~MovedExisting(i)
      BY <1>2, <2>2, <3>2, QuietStep DEF MoveIn, Goto, Holds, InTheGap
    <3>3. QED BY <3>1, <3>2
  <2>3. QED BY <1>2, <2>1, <2>2 DEF MoveIn
<1>3. CASE Rollback(i)
  <2>1. CASE /\ dest = NoBundle
             /\ dest' = backup[i] /\ backup' = [backup EXCEPT ![i] = NoBundle]
             /\ UNCHANGED lost
    <3> USE <1>3, <2>1 DEF Rollback, Goto, MovedExisting
    <3>1. NoBackupYet' BY DEF NoBackupYet
    <3>2. CASE backup[i] # NoBundle
      <4>1. EmptyIsHeld' /\ NoGap' BY <3>2 DEF EmptyIsHeld, NoGap
      <4>2. KeptUntilDone' BY <3>2 DEF KeptUntilDone
      <4>3. QED BY <3>1, <4>1, <4>2
    <3>3. CASE backup[i] = NoBundle
      <4>1. EmptyIsHeld' /\ NoGap' BY <3>3 DEF EmptyIsHeld, Holds, NoGap, InTheGap
      <4>2. KeptUntilDone' BY <3>3 DEF KeptUntilDone
      <4>3. QED BY <3>1, <4>1, <4>2
    <3>4. QED BY <3>2, <3>3
  <2>2. CASE lost' = (lost \/ dest = NoBundle) /\ UNCHANGED <<dest, backup>>
    <3> USE <1>3, <2>2 DEF Rollback, Goto, MovedExisting
    <3>1. NoBackupYet' BY DEF NoBackupYet
    <3>2. EmptyIsHeld' BY DEF EmptyIsHeld, Holds
    <3>3. NoGap' BY DEF NoGap
    <3>4. KeptUntilDone' BY DEF KeptUntilDone
    <3>5. QED BY <3>1, <3>2, <3>3, <3>4
  <2>3. QED BY <1>3, <2>1, <2>2 DEF Rollback
<1>4. CASE DropBackup(i)
  <2> USE <1>4 DEF DropBackup, Goto, MovedExisting
  <2>1. NoBackupYet' BY DEF NoBackupYet
  <2>2. EmptyIsHeld' BY DEF EmptyIsHeld, Holds
  <2>3. NoGap' BY DEF NoGap, InTheGap
  <2>4. KeptUntilDone' BY DEF KeptUntilDone
  <2>5. QED BY <2>1, <2>2, <2>3, <2>4
<1>5. QED BY <1>1, <1>2, <1>3, <1>4

\* The other calls of an installation.
LEMMA InstallKeepsFiles ==
  ASSUME InstallTypeOK, FilesInv, NEW i \in Installs, InstallSteps(i)
  PROVE  FilesInv'
<1> USE DEF Steps, Holds, InTheGap
<1>1. CASE Start(i) BY <1>1, QuietStep DEF Start, Goto
<1>2. CASE Download(i) BY <1>2, QuietStep DEF Download, Goto
<1>3. CASE Extract(i) BY <1>3, QuietStep DEF Extract, Goto
<1>4. CASE Look(i)
  <2>1. CASE dest = NoBundle
    <3>1. ~Holds(i) /\ ~InTheGap(i)
      BY <1>4 DEF Look, Goto, FilesInv, NoBackupYet
    <3>2. QED BY <1>4, <2>1, <3>1, QuietStep DEF Look, Goto
  <2>2. CASE dest # NoBundle BY <1>4, <2>2, QuietStep DEF Look, Goto
  <2>3. QED BY <2>1, <2>2
<1>5. CASE CleanStaging(i)
  <2>1. CASE Goto(i, "giveUp", "failed")
    BY <1>5, <2>1, QuietStep DEF CleanStaging, Goto
  <2>2. CASE Goto(i, "clean", "configGet")
    BY <1>5, <2>2, QuietStep DEF CleanStaging, Goto
  <2>3. QED BY <1>5, <2>1, <2>2 DEF CleanStaging
<1>6. CASE ConfigGet(i) BY <1>6, QuietStep DEF ConfigGet, Goto
<1>7. CASE PatchDirs(i)
  <2>1. PICK to \in {"dropBackup", "done", "failed"} : Goto(i, "configPatch", to)
    BY <1>7 DEF PatchDirs, PatchedAlone
  <2>2. UNCHANGED <<dest, backup, placed, lost>> BY <1>7 DEF PatchDirs
  <2>3. ~Holds(i) /\ ~InTheGap(i) BY <2>1 DEF Goto
  <2>4. QED BY <2>1, <2>2, <2>3, QuietStep
<1>8. CASE MoveAway(i) \/ MoveIn(i) \/ Rollback(i) \/ DropBackup(i)
  BY <1>8, SwapKeepsFiles
<1>9. QED BY <1>1, <1>2, <1>3, <1>4, <1>5, <1>6, <1>7, <1>8 DEF InstallSteps

\* Every step keeps the directories' invariant; a crash ends the excuse of NoGap.
LEMMA StepKeepsFiles ==
  ASSUME InstallTypeOK, FilesInv, [Next]_vars
  PROVE  FilesInv'
<1> USE DEF FilesInv, NoBackupYet, EmptyIsHeld, Holds, NoGap, InTheGap, KeptUntilDone,
            MovedExisting
<1>1. CASE \E i \in Installs : InstallSteps(i) BY <1>1, InstallKeepsFiles
<1>2. CASE UNCHANGED <<pc, fileVars>> BY <1>2
<1>3. CASE (\E p \in Patches : FleetPatchSteps(p)) \/ \E d \in OtherDirs : OtherAdds(d)
  BY <1>2, <1>3
  DEF FleetPatchSteps, StartPatch, PatchGets, PatchApplies, PatchRefused, OtherAdds
<1>4. CASE Crash
  <2> USE <1>4 DEF Crash, Ended, InstallTypeOK
  <2>1. NoBackupYet' OBVIOUS
  <2>2. EmptyIsHeld' OBVIOUS
  <2>3. NoGap' OBVIOUS
  <2>4. KeptUntilDone'
    <3>1. (\A i \in Installs : pc'[i] # "done") => \A i \in Installs : pc[i] # "done"
      OBVIOUS
    <3>2. QED BY <3>1
  <2>5. QED BY <2>1, <2>2, <2>3, <2>4
<1>5. CASE UNCHANGED vars BY <1>5
<1>6. QED BY <1>1, <1>2, <1>3, <1>4, <1>5 DEF Next

\* It holds at the start.
LEMMA InitFiles == ASSUME Init PROVE FilesInv
<1>1. NoBackupYet BY DEF Init, NoBackupYet, MovedExisting
<1>2. dest = NoBundle => placed = {} BY DEF Init
<1>3. EmptyIsHeld /\ NoGap BY <1>2 DEF EmptyIsHeld, NoGap
<1>4. KeptUntilDone BY DEF Init, KeptUntilDone
<1>5. QED BY <1>1, <1>3, <1>4 DEF FilesInv

\* A bundle that was in place is never lost altogether, whatever is interrupted.
THEOREM BundlesAreKept == Spec => []BundleKept
<1>1. FilesInv => BundleKept BY DEF FilesInv, EmptyIsHeld, Holds, BundleKept
<1>2. QED BY <1>1, InitType, StepKeepsType, InitFiles, StepKeepsFiles, PTL DEF Spec

\* Without a crash somebody is at work to fill an empty place.
THEOREM GapsAreClosed == Spec => []NoGap
<1>1. FilesInv => NoGap BY DEF FilesInv
<1>2. QED BY <1>1, InitType, StepKeepsType, InitFiles, StepKeepsFiles, PTL DEF Spec

\* Before the first success every bundle can be put back by hand.
THEOREM NothingDroppedEarly == Spec => []KeptUntilDone
<1>1. FilesInv => KeptUntilDone BY DEF FilesInv
<1>2. QED BY <1>1, InitType, StepKeepsType, InitFiles, StepKeepsFiles, PTL DEF Spec

(***************************************************************************)
(* The configuration.                                                      *)
(***************************************************************************)

ConfigInv == HashTells /\ PatchCounted

\* A step reads the configuration, leaves it alone, or gives it a new hash.
LEMMA StepKeepsConfig ==
  ASSUME InstallTypeOK, ConfigInv, [Next]_vars
  PROVE  ConfigInv' /\ dirs \subseteq dirs'
<1> USE DEF InstallTypeOK, ConfigInv, Executions
<1>1. CASE UNCHANGED <<patchPc, configVars, seen, applied>>
  BY <1>1 DEF HashTells, PatchCounted
<1>2. ASSUME NEW i \in Installs, ConfigGet(i) PROVE ConfigInv' /\ dirs \subseteq dirs'
  <2>1. HashTells' BY <1>2 DEF ConfigGet, ReadConfig, HashTells
  <2>2. PatchCounted' BY <1>2 DEF ConfigGet, PatchCounted
  <2>3. QED BY <1>2, <2>1, <2>2 DEF ConfigGet
<1>3. ASSUME NEW i \in Installs, PatchDirs(i) PROVE ConfigInv' /\ dirs \subseteq dirs'
  <2>1. CASE UNCHANGED configVars BY <1>3, <2>1, <1>1 DEF PatchDirs
  <2>2. CASE IsCurrent(i) /\ dirs' = seen[i].dirs \cup {Root} /\ hash' = hash + 1
    <3> USE <1>3, <2>2 DEF PatchDirs, IsCurrent
    <3>1. seen[i].dirs = dirs BY DEF HashTells
    <3>2. HashTells' BY DEF HashTells
    <3>3. PatchCounted' BY DEF PatchCounted
    <3>4. QED BY <3>1, <3>2, <3>3
  <2>3. QED BY <1>3, <2>1, <2>2 DEF PatchDirs, PatchedAlone
<1>4. ASSUME NEW p \in Patches, FleetPatchSteps(p) PROVE ConfigInv' /\ dirs \subseteq dirs'
  <2> USE DEF GotoPatch
  <2>1. CASE StartPatch(p) BY <2>1 DEF StartPatch, HashTells, PatchCounted
  <2>2. CASE PatchGets(p)
    <3>1. HashTells' BY <2>2 DEF PatchGets, ReadConfig, HashTells
    <3>2. PatchCounted' BY <2>2 DEF PatchGets, PatchCounted
    <3>3. QED BY <2>2, <3>1, <3>2 DEF PatchGets
  <2>3. CASE PatchApplies(p)
    <3>1. HashTells' BY <2>3 DEF PatchApplies, HashTells
    <3>2. PatchCounted' BY <2>3 DEF PatchApplies, PatchCounted, AfterError
    <3>3. QED BY <2>3, <3>1, <3>2 DEF PatchApplies
  <2>4. CASE PatchRefused(p)
    BY <2>4 DEF PatchRefused, HashTells, PatchCounted, AfterError
  <2>5. QED BY <1>4, <2>1, <2>2, <2>3, <2>4 DEF FleetPatchSteps
<1>5. ASSUME NEW d \in OtherDirs, OtherAdds(d) PROVE ConfigInv' /\ dirs \subseteq dirs'
  BY <1>5 DEF OtherAdds, HashTells, PatchCounted
<1>6. CASE Crash BY <1>6 DEF Crash, HashTells, PatchCounted, Ended
<1>7. ASSUME NEW i \in Installs, InstallSteps(i) PROVE ConfigInv' /\ dirs \subseteq dirs'
  BY <1>7, <1>1, <1>2, <1>3
  DEF InstallSteps, Start, Download, Extract, Look, MoveAway, MoveIn, Rollback,
      CleanStaging, DropBackup
<1>8. QED BY <1>1, <1>4, <1>5, <1>6, <1>7 DEF Next

\* It holds at the start.
LEMMA InitConfig == ASSUME Init PROVE ConfigInv
BY DEF Init, ConfigInv, HashTells, PatchCounted

\* No writer of the configuration drops what another one added.
THEOREM DirectoriesAreKept == Spec => DirsKept
<1>1. InstallTypeOK /\ ConfigInv /\ [Next]_vars => [dirs \subseteq dirs']_vars
  BY StepKeepsConfig
<1>2. QED
  BY <1>1, InitType, StepKeepsType, InitConfig, StepKeepsConfig, PTL DEF Spec, DirsKept

\* A configuration patch takes effect at most once, retried or not.
THEOREM PatchesApplyOnce == Spec => []PatchedOnce
<1>1. ConfigInv => PatchedOnce BY DEF ConfigInv, PatchCounted, PatchedOnce
<1>2. QED
  BY <1>1, InitType, StepKeepsType, InitConfig, StepKeepsConfig, PTL DEF Spec
=============================================================================
