-------------------------- MODULE PackUpdate_proofs --------------------------
(***************************************************************************)
(* Proofs about module PackUpdate, for any projects and versions, any mod  *)
(* the user has, and any number of updates, edits and ends of the process: *)
(* no mod is lost before the new ones are there, a failed update restores  *)
(* the mods, a successful one installs its manifest.                       *)
(*                                                                         *)
(* Each of the three needs to know where the files are while the update is *)
(* on its way: Restorable says from where a rollback gets them, Installing *)
(* that what the comparison found still is what the mods folder lacks.  A  *)
(* mod.json that cannot be read is never told to be true.                  *)
(***************************************************************************)
EXTENDS PackUpdate, TLAPS

\* Where the mods are until the update fails.
Restorable ==
  /\ phase # "idle" => last = "none"
  /\ phase \in {"pack", "mod info"} /\ ~stashed => modsBefore \subseteq mods
  /\ phase \in {"file info", "files"} /\ ~stashed =>
       /\ modsBefore \subseteq mods \cup backup
       /\ modsBefore \subseteq mods \/ (backupSet /\ modsDir)

\* What the mods folder lacks until the commit.
Installing ==
  /\ phase \in {"idle", "pack", "mod info"} => planned = NoPlan
  /\ planned.told =>
       /\ planned.old \cap mods = {}
       /\ planned.old \cap planned.new = {}
       /\ FilesOf(want) \subseteq mods \cup planned.new

IInv == /\ TypeOK
        /\ NothingLostUntilFetched
        /\ Restorable /\ FailedUpdateRestores
        /\ Installing

--------------------------------------------------------------------------------
(***************************************************************************)
(* The operators.                                                          *)
(***************************************************************************)

\* A manifest stands for files.
LEMMA ManifestFiles ==
  ASSUME NEW w \in Manifest
  PROVE  FilesOf(w) \subseteq Files
BY PackUpdateAssumption DEF FilesOf, Files, Manifest

\* No manifest stands for no file.
LEMMA NoManifestFiles == NoManifest \in Manifest /\ FilesOf(NoManifest) = {}
BY PackUpdateAssumption DEF FilesOf, Manifest, NoManifest

\* What counts as installed is listed in mod.json.
LEMMA InstalledIsListed == Installed \subseteq record.files
<1>1. ASSUME NEW f \in record.files
      PROVE  ListedOf(f[1]) \in record.files
  BY DEF ListedOf
<1>. QED
  BY <1>1 DEF Installed

\* What mod.json is written with.
LEMMA RecordsFit ==
  /\ \A S \in SUBSET Files : Named(S) \in Records /\ Nameless(S) \in Records
  /\ NoRecord \in Records /\ Damaged \in Records
<1>1. \A k \in {"named", "nameless", "damaged"}, S \in SUBSET Files :
        [kind |-> k, files |-> S] \in Records
  BY DEF Records
<1>. QED
  BY <1>1 DEF Named, Nameless, NoRecord, Damaged

\* A copy of mod.json that fails leaves the old one or none.
LEMMA RecordedFits ==
  ASSUME TypeOK, NEW r \in Recorded
  PROVE  r \in Records
<1>1. FilesOf(want) \subseteq Files
  BY ManifestFiles DEF TypeOK
<1>. QED
  BY <1>1, RecordsFit DEF Recorded, Shipped, TypeOK

\* A file can only refuse to move if it was to move.
LEMMA RefusalsAreMoves ==
  ASSUME NEW S, NEW refuse \in Refusals(S)
  PROVE  refuse \subseteq S
BY DEF Refusals

\* A rollback leaves every file in the mods folder or in the backup, where it
\* counts as refused.
LEMMA RestoreKeeps ==
  ASSUME NEW m, NEW b, NEW refuse \in Refusals(b), RestoreTo(m, b, refuse)
  PROVE  /\ mods' \cup backup' = m \cup b
         /\ m \cup b \subseteq mods' \cup refused'
         /\ refused \subseteq refused' /\ refused' \subseteq refused \cup b
BY RefusalsAreMoves DEF RestoreTo

\* So does performRollback(), which needs the folder and a backup for it.
LEMMA RollBackKeeps ==
  ASSUME RollBack
  PROVE  /\ mods' \cup backup' = mods \cup backup
         /\ mods \subseteq mods' \cup refused'
         /\ backupSet /\ modsDir => mods \cup backup \subseteq mods' \cup refused'
         /\ refused' \subseteq refused \cup backup
         /\ ~modsDir => mods' = mods
BY RestoreKeeps DEF RollBack

--------------------------------------------------------------------------------
(***************************************************************************)
(* The actions.                                                            *)
(***************************************************************************)

\* All the instance is made of.
USE DEF instance, update, history, IInv

LEMMA InitKeeps == Init => IInv
<1>. SUFFICES ASSUME Init PROVE IInv
  OBVIOUS
<1>1. PICK w \in Manifest, own \in SUBSET {<<Own, 1>>} :
        /\ mods = FilesOf(w) \cup own
        /\ record \in {Named(mods), NoRecord, Nameless(FilesOf(w))}
  BY DEF Init
<1>2. FilesOf(w) \subseteq Files /\ mods \subseteq Files
  BY <1>1, ManifestFiles DEF Files
<1>3. record \in Records
  BY <1>1, <1>2, RecordsFit
<1>4. scans \subseteq [read : BOOLEAN, files : SUBSET Files]
  <2>1. [read |-> FALSE, files |-> mods] \in [read : BOOLEAN, files : SUBSET Files]
    BY <1>2
  <2>. QED
    BY <2>1 DEF Init
<1>5. TypeOK
  <2>1. count \in [updates : 0..MaxUpdates, edits : 0..MaxEdits, ends : 0..MaxEnds]
    BY PackUpdateAssumption DEF Init
  <2>2. planned \in [told : BOOLEAN, old : SUBSET Files, new : SUBSET Files]
    BY DEF Init, NoPlan
  <2>. QED
    BY <1>2, <1>3, <1>4, <2>1, <2>2, NoManifestFiles DEF Init, TypeOK, Phases, Outcomes
<1>. QED
  BY <1>5 DEF Init, NothingLostUntilFetched, Restorable, FailedUpdateRestores, Installing,
              NoPlan

LEMMA BeginKeeps ==
  ASSUME IInv, NEW w \in Manifest, Begin(w)
  PROVE  IInv'
<1>1. TypeOK'
  <2>1. count' \in [updates : 0..MaxUpdates, edits : 0..MaxEdits, ends : 0..MaxEnds]
    BY PackUpdateAssumption DEF TypeOK, Begin
  <2>. QED
    BY <2>1 DEF TypeOK, Begin, Phases, Outcomes, Somewhere
<1>. QED
  BY <1>1 DEF Begin, TypeOK, NothingLostUntilFetched, Restorable, FailedUpdateRestores,
              Installing, Somewhere, NoPlan

LEMMA PackFailsKeeps == ASSUME IInv, PackFails PROVE IInv'
BY NoManifestFiles DEF PackFails, Over, Forget, TypeOK, NothingLostUntilFetched, Restorable,
   FailedUpdateRestores, Installing, Somewhere, NoPlan, Phases, Outcomes

LEMMA PackReadyKeeps == ASSUME IInv, PackReady PROVE IInv'
<1>1. phase = "pack" /\ phase' \in {"commit", "mod info"}
  BY DEF PackReady
<1>2. UNCHANGED <<mods, modsDir, backup, stash, stashed, astray, record, want, fetch, homeless>>
  BY DEF PackReady
<1>3. UNCHANGED <<backupSet, scans, last, before, modsBefore, refused, planned, count>>
  BY DEF PackReady
<1>4. TypeOK'
  BY <1>1, <1>2, <1>3 DEF TypeOK, Phases
<1>5. NothingLostUntilFetched' /\ Restorable' /\ FailedUpdateRestores'
  BY <1>1, <1>2, <1>3 DEF NothingLostUntilFetched, Restorable, FailedUpdateRestores, Somewhere
<1>6. Installing'
  BY <1>1, <1>2, <1>3 DEF Installing, NoPlan, FilesOf
<1>. QED
  BY <1>4, <1>5, <1>6

LEMMA FileInfoKeeps == ASSUME IInv, NEW urls, FileInfo(urls) PROVE IInv'
BY DEF FileInfo, TypeOK, NothingLostUntilFetched, Restorable, FailedUpdateRestores,
   Installing, Somewhere, Phases

LEMMA FilesFetchedKeeps == ASSUME IInv, FilesFetched PROVE IInv'
<1>1. TypeOK'
  <2>1. backup' \subseteq Files
    BY RefusalsAreMoves DEF FilesFetched, TypeOK
  <2>2. phase' \in Phases /\ UNCHANGED <<mods, modsDir, stash, stashed, astray>>
    BY DEF FilesFetched, Phases
  <2>3. UNCHANGED <<record, want, fetch, homeless, backupSet, scans, last, before,
                    modsBefore, refused, planned, count>>
    BY DEF FilesFetched
  <2>. QED
    BY <2>1, <2>2, <2>3 DEF TypeOK
<1>. QED
  BY <1>1 DEF FilesFetched, NothingLostUntilFetched, Restorable, FailedUpdateRestores,
     Installing

\* An update that fails after the comparison.
LEMMA RolledBackKeeps ==
  ASSUME IInv, phase \in {"file info", "files"}, RollBack, Over("failed"),
         UNCHANGED <<modsDir, stash, stashed, astray, record, scans, before, modsBefore>>
  PROVE  IInv'
<1>1. TypeOK'
  BY RollBackKeeps, NoManifestFiles
  DEF Over, Forget, TypeOK, NoPlan, Phases, Outcomes
<1>2. NothingLostUntilFetched'
  BY RollBackKeeps DEF NothingLostUntilFetched, Somewhere
<1>3. FailedUpdateRestores'
  BY RollBackKeeps DEF FailedUpdateRestores, Restorable
<1>. QED
  BY <1>1, <1>2, <1>3 DEF Over, Forget, Restorable, Installing, NoPlan

LEMMA FileInfoBadKeeps == ASSUME IInv, FileInfoBad PROVE IInv'
BY RolledBackKeeps DEF FileInfoBad

LEMMA FilesFailKeeps == ASSUME IInv, FilesFail PROVE IInv'
BY RolledBackKeeps DEF FilesFail

LEMMA ScanReadKeeps == ASSUME IInv, NEW s \in scans, ScanRead(s) PROVE IInv'
<1>1. TypeOK'
  <2>1. [read |-> TRUE, files |-> s.files \cap mods] \in [read : BOOLEAN, files : SUBSET Files]
    BY DEF TypeOK
  <2>2. scans' \subseteq [read : BOOLEAN, files : SUBSET Files]
    BY <2>1 DEF ScanRead, TypeOK
  <2>. QED
    BY <2>2 DEF ScanRead, TypeOK
<1>. QED
  BY <1>1 DEF ScanRead, NothingLostUntilFetched, Restorable, FailedUpdateRestores,
     Installing, Somewhere

LEMMA ScanFinishedKeeps ==
  ASSUME IInv, NEW s \in scans, NEW found \in SUBSET s.files, ScanFinished(s, found)
  PROVE  IInv'
<1>1. TypeOK'
  <2>1. found \subseteq Files /\ record \in Records
    BY DEF TypeOK
  <2>2. record' \in Records
    BY <2>1, RecordsFit DEF ScanFinished
  <2>3. UNCHANGED <<mods, modsDir, backup, stash, stashed, astray, phase, want, fetch,
                    homeless, backupSet, last, before, modsBefore, refused, planned, count>>
    BY DEF ScanFinished
  <2>4. scans' \subseteq scans
    BY DEF ScanFinished
  <2>. QED
    BY <2>2, <2>3, <2>4 DEF TypeOK
<1>. QED
  BY <1>1 DEF ScanFinished, NothingLostUntilFetched, Restorable, FailedUpdateRestores,
     Installing, Somewhere

LEMMA UserAddsKeeps == ASSUME IInv, NEW f \in Files, UserAdds(f) PROVE IInv'
<1>1. TypeOK'
  <2>1. count' \in [updates : 0..MaxUpdates, edits : 0..MaxEdits, ends : 0..MaxEnds]
    BY PackUpdateAssumption DEF TypeOK, UserAdds
  <2>. QED
    BY <2>1 DEF TypeOK, UserAdds
<1>. QED
  BY <1>1 DEF UserAdds, NothingLostUntilFetched, Restorable, FailedUpdateRestores,
     Installing, Somewhere, NoPlan

LEMMA UserRemovesKeeps == ASSUME IInv, NEW f \in Files, UserRemoves(f) PROVE IInv'
<1>1. TypeOK'
  <2>1. count' \in [updates : 0..MaxUpdates, edits : 0..MaxEdits, ends : 0..MaxEnds]
    BY PackUpdateAssumption DEF TypeOK, UserRemoves
  <2>. QED
    BY <2>1 DEF TypeOK, UserRemoves
<1>. QED
  BY <1>1 DEF UserRemoves, NothingLostUntilFetched, Restorable, FailedUpdateRestores,
     Installing, Somewhere, NoPlan

\* What the comparison plans.
LEMMA PlanFits ==
  ASSUME IInv
  PROVE  /\ Outdated \subseteq Files /\ Needed \subseteq Files
         /\ Outdated \cap Needed = {}
         /\ record.kind = "named" /\ record.files \subseteq mods =>
              FilesOf(want) \subseteq (mods \ Outdated) \cup Needed
<1>1. FilesOf(want) \subseteq Files /\ Installed \subseteq Files
  <2>1. record.files \subseteq Files
    BY DEF TypeOK, Records
  <2>. QED
    BY <2>1, InstalledIsListed, ManifestFiles DEF TypeOK
<1>2. Needed \subseteq FilesOf(want) \ Installed
  BY DEF Needed
<1>3. record.kind = "named" => Needed = FilesOf(want) \ Installed
  BY DEF Needed
<1>4. Outdated = Installed \ FilesOf(want)
  BY DEF Outdated
<1>5. ASSUME record.kind = "named", record.files \subseteq mods
      PROVE  FilesOf(want) \subseteq (mods \ Outdated) \cup Needed
  BY <1>3, <1>4, <1>5, InstalledIsListed
<1>. QED
  BY <1>1, <1>2, <1>4, <1>5

\* The comparison moves away what is outdated.
LEMMA MovedAwayKeeps ==
  ASSUME IInv, phase = "mod info", NEW answered \in BOOLEAN,
         homeless' = ~answered,
         IF Outdated = {} THEN UNCHANGED <<mods, modsDir, backup, stash, stashed, backupSet>>
                          ELSE MoveAway /\ backupSet' = TRUE,
         phase' = (IF Needed = {} THEN "commit" ELSE "file info"),
         fetch' = Needed,
         planned' = [told |-> record.kind = "named" /\ record.files \subseteq mods,
                     old |-> Outdated, new |-> Needed],
         UNCHANGED <<want, astray, last, before, modsBefore, refused, count, record, scans>>
  PROVE  IInv'
<1>1. phase' \in {"commit", "file info"}
  OBVIOUS
<1>2. /\ mods' \cup backup' \cup stash' = mods \cup backup \cup stash
      /\ stashed' \in BOOLEAN /\ modsDir' \in BOOLEAN /\ backupSet' \in BOOLEAN
      /\ modsDir' \/ mods' = {}
      /\ stashed' \/ stash' = {}
  BY DEF MoveAway, TypeOK
<1>3. planned' \in [told : BOOLEAN, old : SUBSET Files, new : SUBSET Files]
  <2>1. (record.kind = "named" /\ record.files \subseteq mods) \in BOOLEAN
    BY DEF TypeOK
  <2>. QED
    BY <2>1, PlanFits
<1>4. TypeOK'
  BY <1>1, <1>2, <1>3, PlanFits DEF TypeOK, Phases
<1>5. NothingLostUntilFetched'
  BY <1>2 DEF NothingLostUntilFetched, Somewhere
<1>6. ~stashed' => /\ ~stashed
                   /\ mods \subseteq mods' \cup backup'
                   /\ mods \subseteq mods' \/ (backupSet' /\ modsDir')
  BY DEF MoveAway, TypeOK
<1>7. Restorable'
  BY <1>1, <1>6 DEF Restorable
<1>8. FailedUpdateRestores'
  BY DEF FailedUpdateRestores, Restorable
<1>9. Installing'
  <2>1. record.kind = "named" => mods' = mods \ Outdated
    BY DEF MoveAway
  <2>. QED
    BY <1>1, <2>1, PlanFits DEF Installing, FilesOf
<1>. QED
  BY <1>4, <1>5, <1>7, <1>8, <1>9

\* It meets a file that stays, and gives up.
LEMMA MoveRefusedKeeps ==
  ASSUME IInv, phase = "mod info", MoveRefused, Over("failed"),
         UNCHANGED <<modsDir, stash, stashed, before, modsBefore, record, scans>>
  PROVE  IInv'
<1>1. /\ mods \cup backup \subseteq mods' \cup backup' \cup astray'
      /\ astray \subseteq mods' \cup backup' \cup astray'
      /\ mods \subseteq mods' \cup refused'
      /\ mods' \subseteq mods \cup backup /\ backup' \subseteq mods \cup backup
      /\ astray' \subseteq astray \cup backup
      /\ refused' \subseteq refused \cup mods \cup backup
      /\ modsDir \/ mods' = {}
  <2>1. CASE record.kind = "named"
    <3>0. PICK f \in Outdated \cap mods :
            \E gone \in SUBSET ((Outdated \cap mods) \ (backup \cup {f})) :
              /\ \E refuse \in Refusals(backup \cup gone) :
                   RestoreTo(mods \ gone, backup \cup gone, refuse)
              /\ UNCHANGED astray
      BY <2>1 DEF MoveRefused
    <3>1. PICK gone \in SUBSET ((Outdated \cap mods) \ (backup \cup {f})) :
            /\ \E refuse \in Refusals(backup \cup gone) :
                 RestoreTo(mods \ gone, backup \cup gone, refuse)
            /\ UNCHANGED astray
      BY <3>0
    <3>2. PICK refuse \in Refusals(backup \cup gone) :
            RestoreTo(mods \ gone, backup \cup gone, refuse)
      BY <3>1
    <3>3. modsDir
      BY <3>0 DEF TypeOK
    <3>4. /\ mods' \cup backup' = (mods \ gone) \cup (backup \cup gone)
          /\ (mods \ gone) \cup (backup \cup gone) \subseteq mods' \cup refused'
          /\ refused' \subseteq refused \cup (backup \cup gone)
      <4>1. refuse \subseteq backup \cup gone
        BY RefusalsAreMoves
      <4>. QED
        BY <3>2, <4>1 DEF RestoreTo
    <3>5. gone \subseteq mods /\ astray' = astray
      BY <3>1
    <3>. QED
      BY <3>3, <3>4, <3>5
  <2>2. CASE record.kind # "named"
    <3>1. PICK refuse \in Refusals(backup) :
            /\ astray' = (astray \cup backup) \ refuse
            /\ \E again \in Refusals(refuse) : RestoreTo(mods, refuse, again)
      BY <2>2 DEF MoveRefused
    <3>2. PICK again \in Refusals(refuse) : RestoreTo(mods, refuse, again)
      BY <3>1
    <3>3. refuse \subseteq backup
      BY RefusalsAreMoves
    <3>4. /\ mods' \cup backup' = mods \cup refuse
          /\ mods \cup refuse \subseteq mods' \cup refused'
          /\ refused' \subseteq refused \cup refuse
      BY <3>2, RestoreKeeps
    <3>5. modsDir
      BY <2>2 DEF MoveRefused
    <3>6. backup \subseteq astray' \cup refuse /\ astray \ refuse \subseteq astray'
          /\ astray' \subseteq astray \cup backup
      BY <3>1
    <3>7. mods \cup backup \subseteq mods' \cup backup' \cup astray'
      BY <3>4, <3>6
    <3>8. astray \subseteq mods' \cup backup' \cup astray'
      BY <3>4, <3>6
    <3>. QED
      BY <3>3, <3>4, <3>5, <3>6, <3>7, <3>8
  <2>. QED
    BY <2>1, <2>2
<1>2. TypeOK'
  BY <1>1, NoManifestFiles DEF Over, Forget, TypeOK, NoPlan, Phases, Outcomes
<1>3. NothingLostUntilFetched'
  BY <1>1 DEF NothingLostUntilFetched, Somewhere
<1>4. FailedUpdateRestores'
  BY <1>1 DEF FailedUpdateRestores, Restorable
<1>. QED
  BY <1>2, <1>3, <1>4 DEF Over, Forget, Restorable, Installing, NoPlan

LEMMA ModInfoKeeps == ASSUME IInv, NEW answered \in BOOLEAN, ModInfo(answered) PROVE IInv'
<1>1. CASE Outdated # {} /\ MoveRefused /\ Over("failed")
           /\ UNCHANGED <<modsDir, stash, stashed, before, modsBefore>>
  BY <1>1, MoveRefusedKeeps DEF ModInfo
<1>2. CASE ~(Outdated # {} /\ MoveRefused /\ Over("failed")
             /\ UNCHANGED <<modsDir, stash, stashed, before, modsBefore>>)
  BY <1>2, MovedAwayKeeps DEF ModInfo
<1>. QED
  BY <1>1, <1>2

LEMMA CommitKeeps == ASSUME IInv, Commit PROVE IInv'
<1>0. /\ record' \in Records /\ backup' \subseteq Files /\ stash' \subseteq Files
      /\ stashed' \in BOOLEAN /\ (stashed' \/ stash' = {})
  BY RecordedFits, RefusalsAreMoves DEF Commit, TypeOK
<1>1. mods' \subseteq Files /\ refused' \subseteq Files /\ (modsDir' \/ mods' = {})
  <2>1. PICK lost \in Refusals(Staged) :
          \E kept \in SUBSET (lost \cap mods) :
            /\ mods' = (mods \ lost) \cup kept \cup (Staged \ lost)
            /\ refused' = lost
    BY DEF Commit
  <2>2. lost \subseteq Staged /\ Staged \subseteq Files
    BY RefusalsAreMoves DEF Staged, TypeOK
  <2>3. mods' \subseteq mods \cup Staged /\ refused' = lost
    BY <2>1, <2>2
  <2>. QED
    BY <2>2, <2>3 DEF Commit, TypeOK
<1>2. scans' \subseteq [read : BOOLEAN, files : SUBSET Files]
  <2>1. [read |-> FALSE, files |-> mods'] \in [read : BOOLEAN, files : SUBSET Files]
    BY <1>1
  <2>. QED
    BY <2>1 DEF Commit, TypeOK
<1>3. modsDir' \in BOOLEAN
  BY DEF Commit, TypeOK
<1>4. TypeOK'
  BY <1>0, <1>1, <1>2, <1>3, NoManifestFiles
  DEF Commit, Over, Forget, TypeOK, NoPlan, Phases, Outcomes
<1>. QED
  BY <1>4 DEF Commit, Over, Forget, NothingLostUntilFetched, Restorable,
              FailedUpdateRestores, Installing, NoPlan

LEMMA ProcessEndsKeeps == ASSUME IInv, ProcessEnds PROVE IInv'
<1>1. count' \in [updates : 0..MaxUpdates, edits : 0..MaxEdits, ends : 0..MaxEnds]
  BY PackUpdateAssumption DEF TypeOK, ProcessEnds
<1>2. CASE phase # "commit"
  <2>1. CutShort
    BY <1>2 DEF ProcessEnds, CutCommit
  <2>2. /\ mods' \cup backup' = mods \cup backup
        /\ UNCHANGED <<stash, stashed, modsDir, astray>>
        /\ modsDir \/ mods' = {}
        /\ phase = "idle" => mods' = mods
        /\ record' \in Records
    BY <2>1, RecordsFit DEF CutShort, ProcessEnds, TypeOK
  <2>3. TypeOK'
    BY <1>1, <1>2, <2>2, NoManifestFiles
    DEF ProcessEnds, Forget, TypeOK, NoPlan, Phases, Outcomes
  <2>. QED
    BY <1>2, <2>2, <2>3 DEF ProcessEnds, Forget, NothingLostUntilFetched, Restorable,
       FailedUpdateRestores, Installing, NoPlan, Somewhere
<1>3. CASE phase = "commit"
  <2>1. CutCommit \/ UNCHANGED <<mods, modsDir, backup, stash, stashed, record>>
    BY <1>3 DEF ProcessEnds, CutShort
  <2>2. /\ mods' \subseteq Files /\ backup' \subseteq Files /\ stash' \subseteq Files
        /\ modsDir' \in BOOLEAN /\ stashed' \in BOOLEAN
        /\ (modsDir' \/ mods' = {}) /\ (stashed' \/ stash' = {})
    BY <2>1 DEF CutCommit, Staged, TypeOK
  <2>3. record' \in Records
    BY <2>1, RecordedFits, RecordsFit DEF CutCommit, TypeOK
  <2>4. TypeOK'
    BY <1>1, <1>3, <2>2, <2>3, NoManifestFiles
    DEF ProcessEnds, Forget, TypeOK, NoPlan, Phases, Outcomes
  <2>. QED
    BY <1>3, <2>4 DEF ProcessEnds, Forget, NothingLostUntilFetched, Restorable,
       FailedUpdateRestores, Installing, NoPlan
<1>. QED
  BY <1>2, <1>3

LEMMA StepKeeps == ASSUME IInv, [Next]_vars PROVE IInv'
<1>1. CASE UNCHANGED vars
  BY <1>1 DEF vars, TypeOK, NothingLostUntilFetched, Restorable, FailedUpdateRestores,
              Installing, Somewhere, FilesOf
<1>2. CASE Answer
  BY <1>2, PackFailsKeeps, PackReadyKeeps, ModInfoKeeps, FileInfoKeeps, FileInfoBadKeeps,
     FilesFetchedKeeps, FilesFailKeeps, CommitKeeps DEF Answer
<1>3. ASSUME NEW s \in scans, NEW found \in {{}, s.files, s.files \ {<<Own, 1>>}},
             ScanFinished(s, found)
      PROVE  IInv'
  BY <1>3, ScanFinishedKeeps
<1>. QED
  BY <1>1, <1>2, <1>3, BeginKeeps, ScanReadKeeps, UserAddsKeeps, UserRemovesKeeps,
     ProcessEndsKeeps DEF Next

\* Only a commit succeeds, and it copies what is planned to come.
\* What cannot be copied is in `refused`.
LEMMA CommitInstalls ==
  ASSUME IInv, [Next]_vars
  PROVE  (phase = "commit" /\ last' = "succeeded" /\ planned.told /\ ~homeless
            /\ fetch = planned.new)
           => (FilesOf(want) \subseteq mods' \cup refused' /\ planned.old \cap mods' = {})
<1>. SUFFICES ASSUME phase = "commit", last' = "succeeded", planned.told, ~homeless,
                     fetch = planned.new
              PROVE  FilesOf(want) \subseteq mods' \cup refused' /\ planned.old \cap mods' = {}
  OBVIOUS
<1>1. last = "none"
  BY DEF Restorable
<1>2. Commit
  BY <1>1 DEF Next, vars, Begin, Answer, PackFails, PackReady, ModInfo, FileInfo, FileInfoBad,
     FilesFetched, FilesFail, ScanRead, ScanFinished, UserAdds, UserRemoves, ProcessEnds
<1>3. /\ mods \cup planned.new \subseteq mods' \cup refused'
      /\ mods' \subseteq mods \cup planned.new
  <2>1. PICK lost \in Refusals(Staged) :
          \E kept \in SUBSET (lost \cap mods) :
            /\ mods' = (mods \ lost) \cup kept \cup (Staged \ lost)
            /\ refused' = lost
    BY <1>2 DEF Commit
  <2>2. lost \subseteq Staged /\ Staged = planned.new
    BY RefusalsAreMoves DEF Staged
  <2>. QED
    BY <2>1, <2>2
<1>. QED
  BY <1>3 DEF Installing

--------------------------------------------------------------------------------
(***************************************************************************)
(* The theorems.                                                           *)
(***************************************************************************)

LEMMA Invariance == Spec => []IInv
<1>1. Init => IInv
  BY InitKeeps
<1>2. IInv /\ [Next]_vars => IInv'
  BY StepKeeps
<1>. QED
  BY <1>1, <1>2, PTL DEF Spec

\* The state of an update keeps its types.
THEOREM TypeCorrect == Spec => []TypeOK
BY Invariance, PTL

\* No mod the instance had is lost before the new ones are there.
THEOREM NothingLost == Spec => []NothingLostUntilFetched
BY Invariance, PTL

\* A failed update restores the mods folder, file names in mod.json provided.
THEOREM FailureRestores == Spec => []FailedUpdateRestores
BY Invariance, PTL

\* An update that succeeds installed its manifest but for what the commit could not
\* copy, and left nothing it replaced, if mod.json could be read and was true and every
\* request was answered in full.
THEOREM SuccessInstalls == Spec => SuccessMeansInstalled
<1>1. IInv /\ [Next]_vars =>
        [(phase = "commit" /\ last' = "succeeded" /\ planned.told /\ ~homeless
            /\ fetch = planned.new)
           => (FilesOf(want) \subseteq mods' \cup refused' /\ planned.old \cap mods' = {})]_vars
  BY CommitInstalls
<1>. QED
  BY <1>1, Invariance, PTL DEF Spec, SuccessMeansInstalled
================================================================================
