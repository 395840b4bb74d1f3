----------------------------- MODULE PackUpdate -----------------------------
(***************************************************************************)
(* The update of an instance to another version of its CurseForge pack, as *)
(* far as its mods go.  The import task (launcher/InstanceImportTask.cpp)  *)
(* fetches the pack; the resolver (modplatform/curseforge/                 *)
(* FileResolvingTask.cpp) asks for its mods, compares them with mod.json   *)
(* of the instance and moves those that go into .update_backup; the new    *)
(* ones are fetched, and the commit (launcher/InstanceList.cpp) puts them  *)
(* into the instance with the mod.json of the pack.  Then a scan finds out *)
(* what the files in the mods folder are and writes mod.json again.        *)
(*                                                                         *)
(* Module InstanceList has the staging around it, and what happens when    *)
(* two of them are in the works; here the update is alone.                 *)
(*                                                                         *)
(* A mod file is its project and version, which is what a file name tells. *)
(* A handler is one step.  The end of the process may fall between any two *)
(* steps, between two moves of one handler, and between the deletion of    *)
(* the backup and the commit; the next process starts at once.             *)
(* A move that fails is seen by the code; a copy, a deletion and a write   *)
(* that fail are not.                                                      *)
(***************************************************************************)
EXTENDS Integers

CONSTANTS
  Projects,         \* the projects that packs are made of
  Own,              \* a project that is in no pack: a mod of the user's
  MaxVersion,       \* bound on versions
  FilesMayFail,     \* can a move, a copy, a deletion or a write fail?
  MaxUpdates,       \* bound on updates
  MaxEdits,         \* bound on what the user does to the mods folder
  MaxEnds           \* bound on the ends of the process

ASSUME PackUpdateAssumption ==
  /\ Own \notin Projects
  /\ MaxVersion \in Nat /\ FilesMayFail \in BOOLEAN
  /\ MaxUpdates \in Nat /\ MaxEdits \in Nat /\ MaxEnds \in Nat

Files == (Projects \X (1..MaxVersion)) \cup {<<Own, 1>>}
Manifest == [Projects -> 0..MaxVersion]   \* 0: not in the pack
NoManifest == [p \in Projects |-> 0]

VARIABLES
  mods,        \* the files in the mods folder
  modsDir,     \* is there a mods folder?
  backup,      \* the files in .update_backup
  stash,       \* the files in .update_backup/mods
  stashed,     \* is there a folder .update_backup/mods?
  astray,      \* mod files right in the minecraft folder
  record,      \* mod.json: what it lists, and whether with file names, or that it
               \* cannot be parsed
  phase,       \* what the update waits for
  want,        \* m_toProcess: the manifest of the new version
  fetch,       \* the files of it that are asked for, then those with an URL
  homeless,    \* have the files no target folder?
  backupSet,   \* is m_backupDir set?
  scans,       \* the scans under way
  \* history
  last,        \* the outcome of the last update
  before,      \* the mods there were when it began, wherever they were, unless
               \* it got to replace them
  modsBefore,  \* those of them that were in the mods folder
  refused,     \* files that could not be moved, or copied by the last commit
  planned,     \* what had to go and to come, if mod.json told the truth then
  count        \* how often updates, edits and ends happened

instance == <<mods, modsDir, backup, stash, stashed, astray>>
update == <<want, fetch, homeless, backupSet>>
history == <<before, modsBefore, refused, planned>>
vars == <<instance, record, phase, update, scans, last, history, count>>

Phases == {"idle", "pack", "mod info", "file info", "files", "commit"}
Outcomes == {"none", "failed", "cut", "succeeded"}
Records == [kind : {"named", "nameless", "damaged"}, files : SUBSET Files]
\* planned while there is nothing to be said of what had to go
NoPlan == [told |-> FALSE, old |-> {}, new |-> {}]

TypeOK ==
  /\ mods \subseteq Files /\ backup \subseteq Files
  /\ stash \subseteq Files /\ astray \subseteq Files
  /\ modsDir \in BOOLEAN /\ stashed \in BOOLEAN
  /\ (modsDir \/ mods = {}) /\ (stashed \/ stash = {})
  /\ record \in Records
  /\ phase \in Phases
  /\ want \in Manifest
  /\ fetch \subseteq Files
  /\ homeless \in BOOLEAN /\ backupSet \in BOOLEAN
  /\ scans \subseteq [read : BOOLEAN, files : SUBSET Files]
  /\ last \in Outcomes
  /\ before \subseteq Files /\ modsBefore \subseteq Files /\ refused \subseteq Files
  /\ planned \in [told : BOOLEAN, old : SUBSET Files, new : SUBSET Files]
  /\ count \in [updates : 0..MaxUpdates, edits : 0..MaxEdits, ends : 0..MaxEnds]

FilesOf(w) == {<<p, w[p]>> : p \in {q \in Projects : w[q] > 0}}
\* A list with file names, as a scan writes it, and one without, as an import does.
Named(S) == [kind |-> "named", files |-> S]
Nameless(S) == [kind |-> "nameless", files |-> S]
\* A mod.json that is not there is as good as one that lists nothing.
NoRecord == Named({})
Damaged == [kind |-> "damaged", files |-> {}]
Somewhere == mods \cup backup \cup stash \cup astray

--------------------------------------------------------------------------------
\* An instance of a pack, its scan done, still to come or given up, and maybe
\* with a mod of the user's that the scan has seen.
Init ==
  /\ \E w \in Manifest : \E own \in SUBSET {<<Own, 1>>} :
       /\ mods = FilesOf(w) \cup own
       /\ record \in {Named(mods), NoRecord, Nameless(FilesOf(w))}
  /\ scans \in {{}, {[read |-> FALSE, files |-> mods]}}
  /\ modsDir = TRUE
  /\ backup = {} /\ stash = {} /\ stashed = FALSE /\ astray = {}
  /\ phase = "idle"
  /\ want = NoManifest /\ fetch = {} /\ homeless = FALSE /\ backupSet = FALSE
  /\ last = "none" /\ before = {} /\ modsBefore = {} /\ refused = {}
  /\ planned = NoPlan
  /\ count = [updates |-> 0, edits |-> 0, ends |-> 0]

--------------------------------------------------------------------------------
(***************************************************************************)
(* Comparing the manifest with mod.json (compareManifests).                *)
(***************************************************************************)

\* Of a damaged mod.json the comparison makes that nothing is to be done.
\* aFileMap: of two files of a project it has the one listed last, which is a
\* matter of their names.
ListedOf(p) == CHOOSE f \in record.files : f[1] = p
Installed == {ListedOf(p) : p \in {f[1] : f \in record.files}}
Outdated == Installed \ FilesOf(want)

\* Mutant: a project that is there in any version is not asked for.
NeededIfUnknown ==
  {f \in FilesOf(want) : record.kind # "damaged" /\ \A g \in Installed : g[1] # f[1]}

Needed == {f \in FilesOf(want) \ Installed : record.kind # "damaged"}

--------------------------------------------------------------------------------
(***************************************************************************)
(* Moving files.  `refuse` are those whose move is refused.                *)
(***************************************************************************)

\* The files of S with which something may go wrong.
Refusals(S) == IF FilesMayFail THEN SUBSET S ELSE {{}}

\* rollbackFiles() into the mods folder.  A file that is there makes room first.
RestoreTo(m, b, refuse) ==
  /\ mods' = (m \ refuse) \cup (b \ refuse)
  /\ backup' = refuse
  /\ refused' = refused \cup refuse

\* performRollback()
RollBack ==
  IF backupSet /\ modsDir
  THEN \E refuse \in Refusals(backup) : RestoreTo(mods, backup, refuse)
  ELSE UNCHANGED <<mods, backup, refused>>

\* backupFiles(): all of them go.  Without file names each path ends at the
\* mods folder itself, which goes as a whole the first time.
MoveAway ==
  IF record.kind = "named"
  THEN /\ Outdated \cap mods \cap backup = {}
       /\ mods' = mods \ Outdated
       /\ backup' = backup \cup (Outdated \cap mods)
       /\ UNCHANGED <<modsDir, stash, stashed>>
  ELSE IF modsDir
       THEN /\ ~stashed
            /\ stashed' = TRUE /\ stash' = mods
            /\ modsDir' = FALSE /\ mods' = {}
            /\ UNCHANGED backup
       ELSE UNCHANGED <<mods, modsDir, backup, stash, stashed>>

\* backupFiles(): one of them stays, and what is in the backup goes back, to
\* the folder of the one that stays.  What refuses is then tried once more, in
\* performRollback().
MoveRefused ==
  IF record.kind = "named"
  THEN \E f \in Outdated \cap mods :
       \E gone \in SUBSET ((Outdated \cap mods) \ (backup \cup {f})) :
         /\ f \in backup \/ FilesMayFail
         /\ \E refuse \in Refusals(backup \cup gone) :
              RestoreTo(mods \ gone, backup \cup gone, refuse)
         /\ UNCHANGED astray
  ELSE /\ modsDir /\ (stashed \/ FilesMayFail)
       /\ \E refuse \in Refusals(backup) :
            /\ astray' = (astray \cup backup) \ refuse
            /\ \E again \in Refusals(refuse) : RestoreTo(mods, refuse, again)

--------------------------------------------------------------------------------
(***************************************************************************)
(* The update.                                                             *)
(***************************************************************************)

\* The end of MainWindow::processReply().
Begin(w) ==
  /\ phase = "idle" /\ count.updates < MaxUpdates
  /\ count' = [count EXCEPT !.updates = @ + 1]
  /\ phase' = "pack"
  /\ want' = w
  /\ last' = "none"
  /\ before' = Somewhere /\ modsBefore' = mods /\ refused' = {}
  /\ UNCHANGED <<instance, record, fetch, homeless, backupSet, planned, scans>>

\* The tasks of an update are gone.
Forget ==
  /\ want' = NoManifest /\ fetch' = {} /\ homeless' = FALSE /\ backupSet' = FALSE
  /\ planned' = NoPlan

\* Mutant: the end is not reported.
OverUnreported(outcome) ==
  /\ phase' = phase
  /\ last' = outcome
  /\ Forget
  /\ UNCHANGED count

Over(outcome) ==
  /\ phase' = "idle"
  /\ last' = outcome
  /\ Forget
  /\ UNCHANGED count

\* The pack is not there, cannot be read, is of no known kind.
PackFails ==
  /\ phase = "pack"
  /\ Over("failed")
  /\ UNCHANGED <<instance, record, scans, before, modsBefore, refused>>

\* processCurseForge() and FileResolvingTask::executeTask().  A pack without
\* mods is done at once.
PackReady ==
  /\ phase = "pack"
  /\ phase' = IF FilesOf(want) = {} THEN "commit" ELSE "mod info"
  /\ UNCHANGED <<instance, record, update, scans, last, history, count>>

\* modInfoFinished() and prepareDownloads(): the answer tells which folder each
\* file belongs to, and no answer is taken for one that says nothing.
ModInfo(answered) ==
  /\ phase = "mod info"
  /\ \/ /\ homeless' = ~answered
        /\ IF Outdated = {}
             THEN UNCHANGED <<mods, modsDir, backup, stash, stashed, backupSet>>
             ELSE MoveAway /\ backupSet' = TRUE
        /\ phase' = IF Needed = {} THEN "commit" ELSE "file info"
        /\ fetch' = Needed
        /\ planned' = [told |-> record.kind = "named" /\ record.files \subseteq mods,
                       old |-> Outdated, new |-> Needed]
        /\ UNCHANGED <<want, astray, last, before, modsBefore, refused, count>>
     \/ /\ Outdated # {} /\ MoveRefused
        /\ Over("failed")
        /\ UNCHANGED <<modsDir, stash, stashed, before, modsBefore>>
  /\ UNCHANGED <<record, scans>>

\* Mutant: the backup goes when the files are known, not when they are there.
FileInfoCleansUp(urls) ==
  /\ phase = "file info" /\ urls \subseteq fetch
  /\ fetch' = urls
  /\ phase' = IF urls = {} THEN "commit" ELSE "files"
  /\ backup' = {}
  /\ UNCHANGED <<mods, modsDir, stash, stashed, astray, record, want, homeless,
                 backupSet, scans, last, history, count>>

\* downloadFinished(): the files with an URL; no answer is none of them.
FileInfo(urls) ==
  /\ phase = "file info" /\ urls \subseteq fetch
  /\ fetch' = urls
  /\ phase' = IF urls = {} THEN "commit" ELSE "files"
  /\ UNCHANGED <<instance, record, want, homeless, backupSet, scans, last, history,
                 count>>

\* ... or an answer with a file that lacks a name or an URL.
FileInfoBad ==
  /\ phase = "file info"
  /\ RollBack
  /\ Over("failed")
  /\ UNCHANGED <<modsDir, stash, stashed, astray, record, scans, before, modsBefore>>

\* The job of the downloads succeeds: performCleanup(), then the commit.  What cannot
\* be deleted stays.
FilesFetched ==
  /\ phase = "files"
  /\ phase' = "commit"
  /\ backup' \in (IF backupSet THEN Refusals(backup) ELSE {backup})
  /\ UNCHANGED <<mods, modsDir, stash, stashed, astray, record, update, scans,
                 last, history, count>>

\* Mutant: downloads that fail roll nothing back.
FilesFailOnly ==
  /\ phase = "files"
  /\ Over("failed")
  /\ UNCHANGED <<instance, record, scans, before, modsBefore, refused>>

FilesFail ==
  /\ phase = "files"
  /\ RollBack
  /\ Over("failed")
  /\ UNCHANGED <<modsDir, stash, stashed, astray, record, scans, before, modsBefore>>

\* commitStagedInstance(): files without a folder are not among those it copies.
Staged == IF homeless THEN {} ELSE fetch

\* The mod.json that the import wrote (writeCurseForgeManifestModList), and what the
\* instance may have after it was copied: the old one goes first, if it can.
Shipped == Nameless(FilesOf(want))
Recorded == IF FilesMayFail THEN {Shipped, NoRecord, record} ELSE {Shipped}

\* Each file makes room for the one that is copied over it, and whether that works is
\* not looked at: `lost` are those not copied, `kept` those of them that were there
\* and did not go either.  Then the scan begins, if there is anything to scan.
Commit ==
  /\ phase = "commit"
  /\ \E lost \in Refusals(Staged) : \E kept \in SUBSET (lost \cap mods) :
       /\ mods' = (mods \ lost) \cup kept \cup (Staged \ lost)
       /\ refused' = lost
  /\ modsDir' = (modsDir \/ Staged # {})
  /\ record' \in Recorded
  /\ backup' \in Refusals(backup)
  /\ stash' \in Refusals(stash) /\ stashed' = (stash' # {})
  /\ scans' = IF mods' = {} THEN scans
              ELSE scans \cup {[read |-> FALSE, files |-> mods']}
  /\ Over("succeeded")
  /\ before' = {} /\ modsBefore' = {}
  /\ UNCHANGED astray

--------------------------------------------------------------------------------
(***************************************************************************)
(* The scan after a commit (scanAndProcessBlacklistedModsAsync).           *)
(***************************************************************************)

\* The thread has read the files; those that were moved meanwhile it missed.
ScanRead(s) ==
  /\ phase # "commit" /\ s \in scans /\ ~s.read
  /\ scans' = (scans \ {s}) \cup {[read |-> TRUE, files |-> s.files \cap mods]}
  /\ UNCHANGED <<instance, record, phase, update, last, history, count>>

\* finishScan(): mod.json lists what CurseForge knew, which is nothing if it
\* was not asked or did not answer.  It is written in place.
ScanFinished(s, found) ==
  /\ phase # "commit" /\ s \in scans /\ s.read
  /\ record' \in {Named(found)} \cup (IF FilesMayFail THEN {record, Damaged} ELSE {})
  /\ scans' = scans \ {s}
  /\ UNCHANGED <<instance, phase, update, last, history, count>>

--------------------------------------------------------------------------------
(***************************************************************************)
(* The user and the end of the process.                                    *)
(***************************************************************************)

\* While an update runs its dialog is in the way.
UserAdds(f) ==
  /\ phase = "idle" /\ count.edits < MaxEdits /\ f \notin mods
  /\ count' = [count EXCEPT !.edits = @ + 1]
  /\ mods' = mods \cup {f} /\ modsDir' = TRUE
  /\ UNCHANGED <<backup, stash, stashed, astray, record, phase, update, scans,
                 last, history>>

UserRemoves(f) ==
  /\ phase = "idle" /\ count.edits < MaxEdits /\ f \in mods
  /\ count' = [count EXCEPT !.edits = @ + 1]
  /\ mods' = mods \ {f}
  /\ before' = before \ {f} /\ modsBefore' = modsBefore \ {f}
  /\ UNCHANGED <<modsDir, backup, stash, stashed, astray, record, phase, update,
                 scans, last, refused, planned>>

\* A handler that moves files got as far as `gone` or `back`, or the end of a scan did
\* not get through with mod.json.
CutShort ==
  \/ UNCHANGED <<mods, modsDir, backup, stash, stashed, record>>
  \/ /\ phase # "commit" /\ \E s \in scans : s.read
     /\ record' = Damaged
     /\ UNCHANGED <<mods, modsDir, backup, stash, stashed>>
  \/ /\ phase = "mod info" /\ record.kind = "named"
     /\ \E gone \in SUBSET ((Outdated \cap mods) \ backup) :
          /\ mods' = mods \ gone
          /\ backup' = backup \cup gone
     /\ UNCHANGED <<modsDir, stash, stashed, record>>
  \/ /\ phase \in {"file info", "files"} /\ backupSet /\ modsDir
     /\ \E back \in SUBSET backup :
          /\ mods' = mods \cup back
          /\ backup' = backup \ back
     /\ UNCHANGED <<modsDir, stash, stashed, record>>

\* The commit copied some files, then mod.json, then deleted some of the backup.
CutCommit ==
  /\ phase = "commit"
  /\ \E copied, gone \in SUBSET Staged :
       /\ mods' = (mods \ gone) \cup copied
       /\ modsDir' = (modsDir \/ copied # {})
       /\ \/ record' \in {record, NoRecord} /\ UNCHANGED <<backup, stash, stashed>>
          \/ /\ FilesMayFail \/ copied = Staged
             /\ record' \in Recorded
             /\ backup' \in SUBSET backup
             /\ stash' \in SUBSET stash /\ stashed' = (stash' # {})

ProcessEnds ==
  /\ count.ends < MaxEnds
  /\ count' = [count EXCEPT !.ends = @ + 1]
  /\ CutShort \/ CutCommit
  /\ phase' = "idle"
  /\ last' = IF phase = "idle" THEN last ELSE "cut"
  /\ scans' = {}
  /\ Forget
  /\ IF phase = "commit"
       THEN before' = {} /\ modsBefore' = {} /\ refused' = {}
       ELSE UNCHANGED <<before, modsBefore, refused>>
  /\ UNCHANGED astray

--------------------------------------------------------------------------------
Answer ==
  \/ PackFails \/ PackReady
  \/ \E answered \in BOOLEAN : ModInfo(answered)
  \/ \E urls \in SUBSET fetch : FileInfo(urls)
  \/ FileInfoBad \/ FilesFetched \/ FilesFail \/ Commit

Next ==
  \/ \E w \in Manifest : Begin(w)
  \/ Answer
  \/ \E s \in scans : \/ ScanRead(s)
                      \/ \E found \in {{}, s.files, s.files \ {<<Own, 1>>}} :
                           ScanFinished(s, found)
  \/ \E f \in Files : UserAdds(f) \/ UserRemoves(f)
  \/ ProcessEnds

Spec == Init /\ [][Next]_vars

\* The server answers, or the request fails.
FairSpec == Spec /\ WF_vars(Answer)

--------------------------------------------------------------------------------
(***************************************************************************)
(* Properties.                                                             *)
(***************************************************************************)

\* Until everything new is there, each mod file the instance had when the
\* update began is still somewhere in it, whatever failed or was cut short, in
\* this update or an earlier one.  Only the user removes mods before.
NothingLostUntilFetched == (phase # "commit") => before \subseteq Somewhere

\* After an update that failed the mods are back in their folder, but for files
\* that refused to move, provided that mod.json had file names.
FailedUpdateRestores ==
  (last = "failed" /\ ~stashed) => modsBefore \subseteq mods \cup refused

\* An update that succeeds installed the manifest, but for files that the commit could
\* not copy, and left no file it was to replace, provided that mod.json could be read
\* and told the truth and that every request was answered.  A scan of before that
\* rewrites mod.json meanwhile does not disturb that, nor does what was left over in a
\* backup.
SuccessMeansInstalled ==
  [][(phase = "commit" /\ last' = "succeeded" /\ planned.told /\ ~homeless
        /\ fetch = planned.new)
       => (FilesOf(want) \subseteq mods' \cup refused' /\ planned.old \cap mods' = {})]_vars

\* An update comes to an end, whatever fails.
UpdateEnds == (phase # "idle") ~> (phase = "idle")
================================================================================
