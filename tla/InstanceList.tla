---------------------------- MODULE InstanceList ----------------------------
(***************************************************************************)
(* The list of instances (launcher/InstanceList.cpp): what it shows of the *)
(* instance folder, the groups it keeps in instgroups.json, and the tasks  *)
(* that build an instance in a staging folder and commit it, with retries, *)
(* as a new instance or over the one that is being updated.                *)
(*                                                                         *)
(* "An update is going on" and "of this instance" are two global variables *)
(* of Application.  They are set before the import of the update begins    *)
(* and cleared by whichever commit comes next.                             *)
(*                                                                         *)
(* A handler of the event loop is one step.  What an instance folder holds *)
(* is told by who put it there: Old for what was there before, a staging   *)
(* for what that staging committed, Part(s) for what was there before with *)
(* a part of what staging s had, Back for what another program put there.  *)
(* Names are numbers: each new instance asks for the same name and gets    *)
(* the first number that is free.                                          *)
(***************************************************************************)
EXTENDS Integers, FiniteSets

CONSTANTS
  Stagings,     \* the tasks that create or update an instance, in no order
  Groups,       \* names of groups
  MaxBackoff,   \* InstanceStaging::maxBackoff (16 in the code)
  MaxId,        \* bound on the instances in the folder
  MaxOutside,   \* bound on what other programs do to the folder
  MaxRestarts,  \* bound on the ends of the program
  Gone, Old, Back, NoId, NoGroup, NoFile

Ids == 1..MaxId
Part(s) == <<s>>
Parts == {Part(s) : s \in Stagings}

ASSUME InstanceListAssumption ==
  /\ MaxBackoff \in Nat \ {0} /\ \E n \in 0..MaxBackoff : MaxBackoff = 2^n
  /\ MaxId \in Nat /\ MaxOutside \in Nat /\ MaxRestarts \in Nat
  /\ Gone # Old /\ Gone # Back /\ Old # Back
  /\ (Stagings \cup Parts) \cap {Gone, Old, Back} = {} /\ Stagings \cap Parts = {}
  /\ NoGroup \notin Groups /\ NoId \notin Ids
  /\ NoFile \notin [Ids -> Groups \cup {NoGroup}]

VARIABLES
  up,           \* is the program running?
  folder,       \* the instance folder on disk
  temp,         \* the stagings whose folder in _LAUNCHER_TEMP exists
  groupFile,    \* instgroups.json
  unsaved,      \* has the last attempt to write it failed? (history)
  rows,         \* m_instances: each with its id and what was there when loaded
  known,        \* instanceSet
  group,        \* m_instanceGroupIndex
  groupsLoaded, \* m_groupsLoaded
  event,        \* does the watcher of the folder have something to report?
  updating,     \* Application::isUpdating()
  target,       \* Application::getUpdateTargetInstanceId()
  checking,     \* the instance whose update is looked for (MainWindow::m_id)
  task,         \* the stagings
  outside,      \* what other programs did so far
  restarts

disk == <<folder, temp, groupFile, unsaved>>
listVars == <<rows, known, group, groupsLoaded>>
flags == <<updating, target>>
vars == <<up, disk, listVars, event, flags, checking, task, outside, restarts>>

Content == Stagings \cup Parts \cup {Gone, Old, Back}
GroupMap == [Ids -> Groups \cup {NoGroup}]

(***************************************************************************)
(* A staging is "running" while its child works and "waiting" between two  *)
(* attempts to commit.  History: an update that failed keeps what it was   *)
(* of, until the flags that it leaves behind are used up; alone: nothing   *)
(* else was in the works meanwhile and no such flags were there before.    *)
(***************************************************************************)
TypeOK ==
  /\ up \in BOOLEAN /\ groupsLoaded \in BOOLEAN /\ event \in BOOLEAN
  /\ folder \in [Ids -> Content]
  /\ temp \subseteq Stagings
  /\ groupFile \in GroupMap \cup {NoFile} /\ unsaved \in BOOLEAN
  /\ rows \subseteq [id : Ids, from : Content \ {Gone}]
  /\ known \subseteq Ids
  /\ group \in GroupMap
  /\ updating \in BOOLEAN
  /\ target \in Ids \cup {NoId}
  /\ checking \in Ids \cup {NoId}
  /\ task \in [Stagings ->
       [state : {"idle", "running", "waiting", "succeeded", "failed", "lost"},
        of : Ids \cup {NoId}, group : Groups \cup {NoGroup},
        sleep : 1..MaxBackoff, alone : BOOLEAN]]
  /\ outside \in 0..MaxOutside
  /\ restarts \in 0..MaxRestarts

\* discoverInstances()
In(f) == {i \in Ids : f[i] # Gone}
Present == In(folder)
Listed == {r.id : r \in rows}
Busy(s) == task[s].state \in {"running", "waiting"}
\* A progress dialog is modal for the windows of the launcher.
UserIsFree == up /\ \A s \in Stagings : ~Busy(s)

--------------------------------------------------------------------------------
(***************************************************************************)
(* Reading the folder.                                                     *)
(***************************************************************************)

\* Mutant: the row of the updated instance is loaded again beside the old one.
ReloadedRowsDoubled(f) ==
  LET kept == {r \in rows : f[r.id] # Gone}
      new == In(f) \ {r.id : r \in {q \in kept : ~(updating /\ q.id = target)}}
  IN kept \cup {[id |-> i, from |-> f[i]] : i \in new}

\* Mutant: an instance that is in the list is never loaded again.
ReloadedRowsKept(f) ==
  LET kept == {r \in rows : f[r.id] # Gone}
      new == In(f) \ {r.id : r \in kept}
  IN kept \cup {[id |-> i, from |-> f[i]] : i \in new}

\* The rows after loadList() for folder f: a row stays if its folder is there,
\* unless it is the one being updated, which is loaded again.
ReloadedRows(f) ==
  LET kept == {r \in rows : f[r.id] # Gone /\ ~(updating /\ r.id = target)}
      new == In(f) \ {r.id : r \in kept}
  IN kept \cup {[id |-> i, from |-> f[i]] : i \in new}

\* loadInstance() reads the group file before the first instance it loads.
ReadsGroups(f) ==
  /\ ~groupsLoaded /\ groupFile # NoFile
  /\ In(f) \ Listed # {} \/ (updating /\ target \in In(f))

\* loadList(), g being the group index it finds.
LoadList(f, g) ==
  /\ rows' = ReloadedRows(f)
  /\ known' = In(f)
  /\ group' = IF ReadsGroups(f) THEN groupFile ELSE g
  /\ groupsLoaded' = (groupsLoaded \/ ReadsGroups(f))

\* Taking the folder off the watcher and back may lose what it had to report.
WatchLock == event' \in {event, FALSE}

\* The end of saveGroupList() for index g and set k: that the file cannot be written is
\* only logged.
WriteGroups(g, k) ==
  \/ /\ groupFile' = [i \in Ids |-> IF i \in k THEN g[i] ELSE NoGroup]
     /\ unsaved' = FALSE
  \/ UNCHANGED groupFile /\ unsaved' = TRUE

SaveGroups(g, k) == WriteGroups(g, k) /\ WatchLock

\* The list as it is after the constructor and the first loadList().
Started(f, file) ==
  LET read == In(f) # {} /\ file # NoFile
  IN [rows |-> {[id |-> i, from |-> f[i]] : i \in In(f)},
      known |-> In(f),
      group |-> IF read THEN file ELSE [i \in Ids |-> NoGroup],
      groupsLoaded |-> read]

NotStarted == [state |-> "idle", of |-> NoId, group |-> NoGroup,
               sleep |-> 1, alone |-> TRUE]

\* A staging that is over is deleted; an update that fails leaves its flags behind.
Ended(s, end) ==
  [NotStarted EXCEPT !.state = end,
                     !.of = IF end = "failed" /\ updating THEN task[s].of ELSE NoId]

\* The tasks, staging s apart, when the flags have gone.
Unflagged(s) == IF Busy(s) THEN task[s] ELSE [task[s] EXCEPT !.of = NoId]

\* The tasks when the process ends.
LostTasks == [s \in Stagings |-> IF Busy(s) THEN Ended(s, "lost") ELSE Unflagged(s)]

Init ==
  /\ up = TRUE
  /\ folder \in [Ids -> {Gone, Old}]
  /\ groupFile \in {NoFile} \cup
       {g \in GroupMap : \A i \in Ids : folder[i] = Gone => g[i] = NoGroup}
  /\ rows = Started(folder, groupFile).rows
  /\ known = Started(folder, groupFile).known
  /\ group = Started(folder, groupFile).group
  /\ groupsLoaded = Started(folder, groupFile).groupsLoaded
  /\ temp = {} /\ event = FALSE /\ unsaved = FALSE
  /\ updating = FALSE /\ target = NoId /\ checking = NoId
  /\ task = [s \in Stagings |-> NotStarted]
  /\ outside = 0 /\ restarts = 0

\* instanceDirContentsChanged() -> instancesChanged -> providerUpdated()
FolderReported ==
  /\ up /\ event
  /\ event' = FALSE
  /\ LoadList(folder, group)
  /\ UNCHANGED <<up, disk, flags, checking, task, outside, restarts>>

--------------------------------------------------------------------------------
(***************************************************************************)
(* Groups and deletion, by the user.                                       *)
(***************************************************************************)

\* setInstanceGroup(); entering no name files the instance under "".
SetInstanceGroup(i, g) ==
  /\ UserIsFree /\ i \in Listed
  /\ group[i] # g
  /\ group' = [group EXCEPT ![i] = g]
  /\ SaveGroups(group', known)
  /\ UNCHANGED <<up, folder, temp, rows, known, groupsLoaded, flags, checking,
                 task, outside, restarts>>

DeleteGroup(g) ==
  /\ UserIsFree
  /\ \E i \in Listed : group[i] = g
  /\ group' = [i \in Ids |->
                 IF i \in Listed /\ group[i] = g THEN NoGroup ELSE group[i]]
  /\ SaveGroups(group', known)
  /\ UNCHANGED <<up, folder, temp, rows, known, groupsLoaded, flags, checking,
                 task, outside, restarts>>

\* on_GroupStateChanged(): which groups are collapsed is left out.
GroupCollapsed ==
  /\ UserIsFree
  /\ SaveGroups(group, known)
  /\ UNCHANGED <<up, folder, temp, listVars, flags, checking, task, outside,
                 restarts>>

\* deleteInstance(): the group goes first, the files may refuse to go.  The
\* folder changes after the group file is written, so that is reported.
DeleteInstance(i) ==
  /\ UserIsFree /\ i \in Listed
  /\ group' = [group EXCEPT ![i] = NoGroup]
  /\ IF group[i] # NoGroup
       THEN WriteGroups(group', known)
       ELSE UNCHANGED <<groupFile, unsaved>>
  /\ \/ folder[i] # Gone /\ folder' = [folder EXCEPT ![i] = Gone] /\ event' = TRUE
     \/ UNCHANGED folder /\ WatchLock
  /\ UNCHANGED <<up, temp, rows, known, groupsLoaded, flags, checking, task,
                 outside, restarts>>

--------------------------------------------------------------------------------
(***************************************************************************)
(* Creating and updating.  A new instance may be asked for at any time: a  *)
(* second start of the launcher sends its file to the first one, and the   *)
(* answer to the search for an update opens its dialogs whatever else      *)
(* runs.                                                                   *)
(***************************************************************************)

Begun(s, of, g) ==
  [u \in Stagings |->
     IF u = s
     THEN [state |-> "running", of |-> of, group |-> g, sleep |-> 1,
           alone |-> \A v \in Stagings :
                       ~Busy(v) /\ ~(task[v].of # NoId /\ task[v].state = "failed")]
     ELSE IF Busy(u) THEN [task[u] EXCEPT !.alone = FALSE] ELSE task[u]]

\* wrapInstanceTask() and start() of a task for a new instance.
Create(s, g) ==
  /\ up /\ task[s].state = "idle"
  /\ task' = Begun(s, NoId, g)
  /\ temp' = temp \cup {s}
  /\ UNCHANGED <<up, folder, groupFile, unsaved, listVars, event, flags, checking,
                 outside, restarts>>

CheckForUpdate(i) ==
  /\ UserIsFree /\ checking = NoId /\ i \in Listed
  /\ checking' = i
  /\ UNCHANGED <<up, disk, listVars, event, flags, task, outside, restarts>>

NoUpdate ==
  /\ up /\ checking # NoId
  /\ checking' = NoId
  /\ UNCHANGED <<up, disk, listVars, event, flags, task, outside, restarts>>

\* Mutant: the import of the update begins without the flags.
UpdateUnflagged(s) ==
  /\ up /\ checking # NoId /\ task[s].state = "idle"
  /\ checking' = NoId
  /\ task' = Begun(s, checking, NoGroup)
  /\ temp' = temp \cup {s}
  /\ UNCHANGED <<up, folder, groupFile, unsaved, listVars, event, flags, outside, restarts>>

\* The end of processReply().
Update(s) ==
  /\ up /\ checking # NoId /\ task[s].state = "idle"
  /\ updating' = TRUE
  /\ target' = checking
  /\ checking' = NoId
  /\ task' = Begun(s, checking, NoGroup)
  /\ temp' = temp \cup {s}
  /\ UNCHANGED <<up, folder, groupFile, unsaved, listVars, event, outside, restarts>>

\* childFailed()
ChildFails(s) ==
  /\ up /\ task[s].state = "running"
  /\ task' = [task EXCEPT ![s] = Ended(s, "failed")]
  /\ temp' = temp \ {s}
  /\ UNCHANGED <<up, folder, groupFile, unsaved, listVars, event, flags, checking,
                 outside, restarts>>

\* The tasks after a commit, which takes the flags with it.
Committed(s) ==
  [u \in Stagings |-> IF u = s THEN Ended(s, "succeeded") ELSE Unflagged(u)]

\* Mutant: the flags outlive the commit.
PublishStillUpdating(s, f, g) ==
  /\ folder' = f
  /\ temp' = temp \ {s}
  /\ LoadList(f, g)
  /\ SaveGroups(group', known')
  /\ task' = Committed(s)
  /\ UNCHANGED <<up, flags>>

\* Mutant: the groups are saved before the new instance is known.
PublishGroupsEarly(s, f, g) ==
  /\ folder' = f
  /\ temp' = temp \ {s}
  /\ LoadList(f, g)
  /\ SaveGroups(group', known)
  /\ updating' = FALSE
  /\ target' = NoId
  /\ task' = Committed(s)
  /\ UNCHANGED up

\* What ends both branches of commitStagedInstance(): f is the folder and g the
\* group index after the files were moved.
Publish(s, f, g) ==
  /\ folder' = f
  /\ temp' = temp \ {s}
  /\ LoadList(f, g)
  /\ SaveGroups(group', known')
  /\ updating' = FALSE
  /\ target' = NoId
  /\ task' = Committed(s)
  /\ UNCHANGED up

\* The memory of a process that is over.
Forgotten ==
  /\ rows' = {} /\ known' = {} /\ groupsLoaded' = FALSE
  /\ group' = [i \in Ids |-> NoGroup]
  /\ event' = FALSE
  /\ updating' = FALSE /\ target' = NoId

\* instanceSelectRequest and getInstanceById(instID)->gameRoot() for an
\* instance that is not there.
CrashInCommit(s) ==
  /\ up' = FALSE
  /\ folder' = [folder EXCEPT ![target] = Gone]
  /\ temp' = temp \ {s}
  /\ task' = LostTasks
  /\ Forgotten
  /\ UNCHANGED <<groupFile, unsaved>>

\* The branch of an update.  Each old file goes before the new one comes, and nothing
\* looks whether that works; what was staged goes in any case.  Without a target the
\* copies fail, unless the pack has mods, for which the folders are made.  Without its
\* instance.cfg, which is copied like the rest, an instance is none.
CommitOver(s) ==
  \/ \E new \in {s, Part(s)} : Publish(s, [folder EXCEPT ![target] = new], group)
  \/ CrashInCommit(s)

\* DirNameFromString()
FreeId == CHOOSE i \in Ids \ Present : \A j \in Ids \ Present : i <= j

CommitNew(s) ==
  /\ Present # Ids
  /\ Publish(s, [folder EXCEPT ![FreeId] = s],
             [group EXCEPT ![FreeId] = task[s].group])

\* ExponentialSeries::operator()
NextBackoff(n) == IF 2 * n > MaxBackoff THEN MaxBackoff ELSE 2 * n

\* The folder cannot be renamed now, with the watcher off meanwhile; after the longest
\* wait it is given up, and what was staged stays where it is.
CommitBlocked(s) ==
  /\ task' = [task EXCEPT ![s] =
       IF @.sleep = MaxBackoff THEN Ended(s, "failed")
       ELSE [task[s] EXCEPT !.sleep = NextBackoff(task[s].sleep), !.state = "waiting"]]
  /\ WatchLock
  /\ UNCHANGED <<up, disk, listVars, flags>>

\* childSucceded(), also as the timeout of the timer.
Commit(s) ==
  /\ up /\ Busy(s)
  /\ IF updating
       THEN CommitOver(s)
       ELSE CommitNew(s) \/ CommitBlocked(s)
  /\ checking' = (IF up' THEN checking ELSE NoId)
  /\ UNCHANGED <<outside, restarts>>

--------------------------------------------------------------------------------
(***************************************************************************)
(* Other programs, and the end of this one.                                *)
(***************************************************************************)

FolderRemoved(i) ==
  /\ outside < MaxOutside /\ folder[i] # Gone
  /\ folder' = [folder EXCEPT ![i] = Gone]
  /\ event' = up
  /\ outside' = outside + 1
  /\ UNCHANGED <<up, temp, groupFile, unsaved, listVars, flags, checking, task, restarts>>

FolderPutBack(i) ==
  /\ outside < MaxOutside /\ folder[i] = Gone
  /\ folder' = [folder EXCEPT ![i] = Back]
  /\ event' = up
  /\ outside' = outside + 1
  /\ UNCHANGED <<up, temp, groupFile, unsaved, listVars, flags, checking, task, restarts>>

Stops ==
  /\ up
  /\ up' = FALSE
  /\ task' = LostTasks
  /\ checking' = NoId
  /\ Forgotten
  /\ UNCHANGED <<disk, outside, restarts>>

Starts ==
  /\ ~up /\ restarts < MaxRestarts
  /\ up' = TRUE
  /\ restarts' = restarts + 1
  /\ rows' = Started(folder, groupFile).rows
  /\ known' = Started(folder, groupFile).known
  /\ group' = Started(folder, groupFile).group
  /\ groupsLoaded' = Started(folder, groupFile).groupsLoaded
  /\ unsaved' = FALSE
  /\ UNCHANGED <<folder, temp, groupFile, event, flags, checking, task, outside>>

--------------------------------------------------------------------------------
Next ==
  \/ FolderReported
  \/ \E i \in Ids : \/ \E g \in Groups \cup {NoGroup} : SetInstanceGroup(i, g)
                    \/ DeleteInstance(i)
                    \/ CheckForUpdate(i)
                    \/ FolderRemoved(i)
                    \/ FolderPutBack(i)
  \/ \E g \in Groups : DeleteGroup(g)
  \/ GroupCollapsed
  \/ NoUpdate
  \/ \E s \in Stagings : \/ \E g \in Groups \cup {NoGroup} : Create(s, g)
                         \/ Update(s)
                         \/ ChildFails(s)
                         \/ Commit(s)
  \/ Stops
  \/ Starts

Spec == Init /\ [][Next]_vars

--------------------------------------------------------------------------------
(***************************************************************************)
(* Properties.                                                             *)
(***************************************************************************)

\* The list has one row for each instance that the last look at the folder
\* found, and no other: a commit adds to the set before the list is loaded,
\* and an update takes a row out and loads it again.  And what the group file
\* says of an instance in the list is what the list says, so a restart forgets
\* nothing, if the file could be written last time: each change of the index is
\* saved, by the commit too, and a later save makes good one that failed.  (Of an
\* instance that came back from outside the file may have forgotten the group
\* that the index still has.)
ListMatchesDisk ==
  /\ Listed = known
  /\ \A q, r \in rows : q.id = r.id => q = r
  /\ up /\ ~unsaved => \A i \in Listed \cap Present :
             folder[i] = Back \/
             group[i] = (IF groupFile = NoFile THEN NoGroup ELSE groupFile[i])

\* An instance is overwritten by a commit, whole or in part, or lost in it, only while
\* an update of it is under way, or when one has failed since the last commit of the
\* process.  So an update that succeeded, or a process that is over, leaves nothing
\* behind.  Whose commit it is is another matter, see CreationSparesInstances.
OverwrittenOnlyWhenAsked ==
  [][\A i \in Ids :
       /\ folder[i] # Gone /\ folder'[i] # folder[i]
       /\ folder'[i] \in Stagings \cup Parts \/ (up /\ ~up')
       => \E u \in Stagings : /\ task[u].of = i
                              /\ Busy(u) \/ task[u].state = "failed"]_vars

\* The commit of a task that creates an instance ("Commit the staging area given by
\* @keyPath to the provider - used when creation succeeds") adds it, and leaves alone the
\* instances that are there.  It does not hold while the flags of an update are set
\* (section 5 of the README), and no run checks it.
CreationSparesInstances ==
  [][\A s \in Stagings :
       (Busy(s) /\ task[s].of = NoId /\ task'[s].state = "succeeded")
         => \A i \in Present : folder'[i] = folder[i]]_vars

\* A staging that had the launcher to itself touches what it was asked to touch and
\* nothing else: a new instance gets a folder of its own, which is whole, and an update
\* goes over its instance, of which it may have left a part.
UndisturbedHitsTarget ==
  [][\A s \in Stagings :
       (task[s].alone /\ Busy(s) /\ task'[s].state = "succeeded")
         => \E i \in Ids :
              /\ \A j \in Ids \ {i} : folder'[j] = folder[j]
              /\ IF task[s].of = NoId THEN folder[i] = Gone /\ folder'[i] = s
                 ELSE i = task[s].of /\ folder'[i] \in {s, Part(s)}]_vars

\* A commit that succeeds shows what it committed, also a part: the row was read after
\* the files were there.  (A row whose folder another program took away a moment
\* ago, not reported yet, is taken for the new instance of that name.)
CommitShowsResult ==
  [][\A s \in Stagings :
       (Busy(s) /\ task'[s].state = "succeeded" /\ Listed \subseteq Present)
         => \E r \in rows' : r.from \in {s, Part(s)} /\ folder'[r.id] = r.from]_vars
================================================================================
