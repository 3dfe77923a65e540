----------------------------- MODULE SkillInstall -----------------------------
(***************************************************************************)
(* Executions of fleet.skill_bundle.install and fleet.config_patch by one  *)
(* sidecar (src/sidecar/skill-bundles/install.ts, config-patch.ts): the    *)
(* directory of one bundle, swapped by renames, and the configuration of   *)
(* the gateway, changed under an optimistic hash.                          *)
(*                                                                         *)
(* Runs of the scheduler overlap, so executions do; a step is one awaited  *)
(* call. The file system and the gateway are external: a rename replaces   *)
(* no directory that holds something; config.patch is refused unless it    *)
(* names the hash of the configuration as it is, and may take effect       *)
(* although its answer is lost.                                            *)
(***************************************************************************)
EXTENDS Naturals

CONSTANTS
  Installs,     \* executions of fleet.skill_bundle.install for one bundle name
  Patches,      \* executions of fleet.config_patch
  Root,         \* skillsRootDir
  OtherDirs,    \* directories others add to skills.load.extraDirs
  Old,          \* the bundle in place before, if any
  NoBundle

ASSUME InstallAssumption ==
  /\ NoBundle \notin Installs \cup {Old} /\ Old \notin Installs
  /\ Root \notin OtherDirs

VARIABLES
  pc,           \* of each installation: its next call, or how it ended
  patchPc,      \* the same of each configuration patch
  dest,         \* the bundle at skillsRootDir/name
  backup,       \* of each installation: the bundle at name.bak-<installId>
  staged,       \* installations whose staging directory stands
  placed,       \* bundles that have been in place
  lost,         \* TRUE after a crash, or a rollback that failed by itself
  dirs, hash,   \* the gateway's extraDirs and the hash of its configuration
  seen,         \* of each execution: the configuration as config.get gave it
  applied       \* how often each configuration patch took effect

fileVars == <<dest, backup, staged, placed, lost>>
configVars == <<dirs, hash>>
vars == <<pc, patchPc, fileVars, configVars, seen, applied>>

Bundles == Installs \cup {Old}
Executions == Installs \cup Patches
Steps == {"idle", "download", "extract", "look", "moveAway", "moveIn", "rollback",
          "giveUp", "clean", "configGet", "configPatch", "dropBackup", "done",
          "failed", "crashed"}
PatchSteps == {"idle", "get", "patch", "getAgain", "patchAgain", "done", "failed",
               "crashed"}
Ended == {"idle", "done", "failed", "crashed"}

InstallTypeOK ==
  /\ pc \in [Installs -> Steps] /\ patchPc \in [Patches -> PatchSteps]
  /\ dest \in Bundles \cup {NoBundle}
  /\ backup \in [Installs -> Bundles \cup {NoBundle}]
  /\ staged \subseteq Installs /\ placed \subseteq Bundles /\ lost \in BOOLEAN
  /\ dirs \subseteq OtherDirs \cup {Root} /\ hash \in Nat
  /\ seen \in [Executions -> [dirs: SUBSET (OtherDirs \cup {Root}), hash: Nat]]
  /\ applied \in [Patches -> Nat]

Init ==
  /\ pc = [i \in Installs |-> "idle"] /\ patchPc = [p \in Patches |-> "idle"]
  /\ dest \in {NoBundle, Old}
  /\ backup = [i \in Installs |-> NoBundle]
  /\ staged = {} /\ placed = {dest} \ {NoBundle} /\ lost = FALSE
  /\ dirs = {} /\ hash = 0
  /\ seen = [e \in Executions |-> [dirs |-> {}, hash |-> 0]]
  /\ applied = [p \in Patches |-> 0]

Goto(i, from, to) == pc[i] = from /\ pc' = [pc EXCEPT ![i] = to]

(***************************************************************************)
(* The bundle's directory.                                                 *)
(***************************************************************************)

\* The staging directory is made first.
Start(i) ==
  /\ \/ Goto(i, "idle", "download") /\ staged' = staged \cup {i}
     \/ Goto(i, "idle", "failed") /\ UNCHANGED staged
  /\ UNCHANGED <<patchPc, dest, backup, placed, lost, configVars, seen, applied>>

\* A failed download, a wrong digest or a broken archive leave the staging
\* directory where it is: only the swap has a finally.
Download(i) ==
  /\ Goto(i, "download", "extract") \/ Goto(i, "download", "failed")
  /\ UNCHANGED <<patchPc, fileVars, configVars, seen, applied>>

Extract(i) ==
  /\ Goto(i, "extract", "look") \/ Goto(i, "extract", "failed")
  /\ UNCHANGED <<patchPc, fileVars, configVars, seen, applied>>

\* pathExists(destDir)
Look(i) ==
  /\ Goto(i, "look", IF dest = NoBundle THEN "moveIn" ELSE "moveAway")
  /\ UNCHANGED <<patchPc, fileVars, configVars, seen, applied>>

RemoveExisting(i) ==
  /\ Goto(i, "moveAway", "moveIn") /\ dest' = NoBundle
  /\ UNCHANGED <<patchPc, backup, staged, placed, lost, configVars, seen, applied>>

\* rename(destDir, backupDir): another installation may have moved it.
MoveAway(i) ==
  /\ \/ /\ Goto(i, "moveAway", "moveIn") /\ dest # NoBundle
        /\ backup' = [backup EXCEPT ![i] = dest] /\ dest' = NoBundle
     \/ Goto(i, "moveAway", "giveUp") /\ UNCHANGED <<dest, backup>>
  /\ UNCHANGED <<patchPc, staged, placed, lost, configVars, seen, applied>>

MovedExisting(i) == backup[i] # NoBundle

\* rename(sourceDir, destDir): fails on a bundle another one put in place.
MoveIn(i) ==
  /\ \/ /\ Goto(i, "moveIn", "clean") /\ dest = NoBundle
        /\ dest' = i /\ placed' = placed \cup {i}
     \/ /\ Goto(i, "moveIn", IF MovedExisting(i) THEN "rollback" ELSE "giveUp")
        /\ UNCHANGED <<dest, placed>>
  /\ UNCHANGED <<patchPc, backup, staged, lost, configVars, seen, applied>>

\* The best-effort rollback: a failure of its rename is swallowed.
NoRollback(i) ==
  /\ Goto(i, "rollback", "giveUp")
  /\ UNCHANGED <<patchPc, fileVars, configVars, seen, applied>>

Rollback(i) ==
  /\ Goto(i, "rollback", "giveUp")
  /\ \/ /\ dest = NoBundle
        /\ dest' = backup[i] /\ backup' = [backup EXCEPT ![i] = NoBundle]
        /\ UNCHANGED lost
     \/ lost' = (lost \/ dest = NoBundle) /\ UNCHANGED <<dest, backup>>
  /\ UNCHANGED <<patchPc, staged, placed, configVars, seen, applied>>

CleanEverything(i) ==
  /\ Goto(i, "giveUp", "failed") \/ Goto(i, "clean", "configGet")
  /\ staged' = staged \ {i} /\ backup' = [backup EXCEPT ![i] = NoBundle]
  /\ UNCHANGED <<patchPc, dest, placed, lost, configVars, seen, applied>>

\* The finally of the swap, on both ways out of it.
CleanStaging(i) ==
  /\ Goto(i, "giveUp", "failed") \/ Goto(i, "clean", "configGet")
  /\ staged' = staged \ {i}
  /\ UNCHANGED <<patchPc, dest, backup, placed, lost, configVars, seen, applied>>

(***************************************************************************)
(* The configuration.                                                      *)
(***************************************************************************)

ReadConfig(e) == seen' = [seen EXCEPT ![e] = [dirs |-> dirs, hash |-> hash]]

ConfigGet(i) ==
  /\ \/ Goto(i, "configGet", "configPatch") /\ ReadConfig(i)
     \/ Goto(i, "configGet", "failed") /\ UNCHANGED seen
  /\ UNCHANGED <<patchPc, fileVars, configVars, applied>>

\* The gateway takes a patch made for the configuration as it is.
AnyHash(e) == TRUE
IsCurrent(e) == seen[e].hash = hash

\* config.patch of the list as it was read with the root added. A bundle that
\* replaced none has no backup to remove. A stale hash is not retried.
PatchedAlone(i) ==
  /\ Goto(i, "configPatch", IF MovedExisting(i) THEN "dropBackup" ELSE "done")
  /\ IsCurrent(i)
PatchDirs(i) ==
  /\ \/ /\ PatchedAlone(i) \/ (IsCurrent(i) /\ Goto(i, "configPatch", "failed"))
        /\ dirs' = seen[i].dirs \cup {Root} /\ hash' = hash + 1
     \/ Goto(i, "configPatch", "failed") /\ UNCHANGED configVars
  /\ UNCHANGED <<patchPc, fileVars, seen, applied>>

\* rm of the backup: its errors are swallowed.
DropBackup(i) ==
  /\ Goto(i, "dropBackup", "done")
  /\ \/ backup' = [backup EXCEPT ![i] = NoBundle]
     \/ UNCHANGED backup
  /\ UNCHANGED <<patchPc, dest, staged, placed, lost, configVars, seen, applied>>

(***************************************************************************)
(* applyFleetConfigPatch: tried once more, when the hash was stale.        *)
(***************************************************************************)

GotoPatch(p, from, to) == patchPc[p] = from /\ patchPc' = [patchPc EXCEPT ![p] = to]

StartPatch(p) ==
  /\ GotoPatch(p, "idle", "get")
  /\ UNCHANGED <<pc, fileVars, configVars, seen, applied>>

PatchGets(p) ==
  /\ \/ GotoPatch(p, "get", "patch") \/ GotoPatch(p, "getAgain", "patchAgain")
     \/ GotoPatch(p, "get", "failed") \/ GotoPatch(p, "getAgain", "failed")
  /\ ReadConfig(p) \/ (patchPc'[p] = "failed" /\ UNCHANGED seen)
  /\ UNCHANGED <<pc, fileVars, configVars, applied>>

\* Where the patch goes when config.patch reports an error; isStaleHashError.
TriedAThirdTime(p, stale) == IF stale THEN "getOnceMore" ELSE "failed"
AfterAnyError(p, stale) == IF patchPc[p] = "patch" THEN "getAgain" ELSE "failed"
AfterError(p, stale) == IF patchPc[p] = "patch" /\ stale THEN "getAgain" ELSE "failed"

PatchApplies(p) ==
  /\ patchPc[p] \in {"patch", "patchAgain"} /\ IsCurrent(p)
  /\ hash' = hash + 1
  /\ applied' = [applied EXCEPT ![p] = @ + 1]
  /\ \E to \in {"done", AfterError(p, FALSE)} : GotoPatch(p, patchPc[p], to)
  /\ UNCHANGED <<pc, fileVars, dirs, seen>>

PatchRefused(p) ==
  /\ patchPc[p] \in {"patch", "patchAgain"}
  /\ \/ ~IsCurrent(p) /\ GotoPatch(p, patchPc[p], AfterError(p, TRUE))
     \/ GotoPatch(p, patchPc[p], AfterError(p, FALSE))
  /\ UNCHANGED <<pc, fileVars, configVars, seen, applied>>

(***************************************************************************)
(* The surroundings.                                                       *)
(***************************************************************************)

\* Another client of the gateway adds a directory of its own.
OtherAdds(d) ==
  /\ d \in OtherDirs \ dirs
  /\ dirs' = dirs \cup {d} /\ hash' = hash + 1
  /\ UNCHANGED <<pc, patchPc, fileVars, seen, applied>>

\* The sidecar's process ends: what it was doing is not taken up again.
Crash ==
  /\ \/ \E i \in Installs : pc[i] \notin Ended
     \/ \E p \in Patches : patchPc[p] \notin Ended
  /\ pc' = [i \in Installs |-> IF pc[i] \in Ended THEN pc[i] ELSE "crashed"]
  /\ patchPc' = [p \in Patches |-> IF patchPc[p] \in Ended THEN patchPc[p] ELSE "crashed"]
  /\ lost' = TRUE
  /\ UNCHANGED <<dest, backup, staged, placed, configVars, seen, applied>>

InstallSteps(i) ==
  \/ Start(i) \/ Download(i) \/ Extract(i) \/ Look(i) \/ MoveAway(i) \/ MoveIn(i)
  \/ Rollback(i) \/ CleanStaging(i) \/ ConfigGet(i) \/ PatchDirs(i) \/ DropBackup(i)

FleetPatchSteps(p) == StartPatch(p) \/ PatchGets(p) \/ PatchApplies(p) \/ PatchRefused(p)

Next ==
  \/ \E i \in Installs : InstallSteps(i)
  \/ \E p \in Patches : FleetPatchSteps(p)
  \/ \E d \in OtherDirs : OtherAdds(d)
  \/ Crash

Spec == Init /\ [][Next]_vars

(***************************************************************************)
(* Properties.                                                             *)
(***************************************************************************)

\* A bundle that was in place is never lost altogether, whatever is interrupted
\* and however installations overlap: one is in place, or a backup holds one.
BundleKept == placed # {} => dest # NoBundle \/ \E i \in Installs : MovedExisting(i)

\* While no process ended and no rollback failed by itself, the gap between
\* the two renames is closed by an installation that is still at work.
InTheGap(i) == pc[i] \in {"moveIn", "rollback"} /\ MovedExisting(i)
NoGap == (placed # {} /\ ~lost /\ dest = NoBundle) => \E i \in Installs : InTheGap(i)

\* Until an installation has succeeded, every bundle that was in place can be
\* put back by hand.
KeptUntilDone ==
  (\A i \in Installs : pc[i] # "done") =>
    placed \subseteq {dest} \cup {backup[i] : i \in Installs}

\* Installations write back a list they read earlier; an entry somebody else
\* added in between is never dropped.
DirsKept == [][dirs \subseteq dirs']_vars

\* A configuration patch takes effect at most once, although it is retried, and
\* one that is reported done took effect.
PatchedOnce ==
  \A p \in Patches : applied[p] <= 1 /\ (patchPc[p] = "done" => applied[p] = 1)
=============================================================================
