---------------------------- MODULE PackProfile ----------------------------
(***************************************************************************)
(* The component list of one Minecraft instance                            *)
(* (launcher/minecraft/PackProfile.cpp) together with the task that loads  *)
(* the meta data of its components and resolves their dependencies         *)
(* (launcher/minecraft/ComponentUpdateTask.cpp), the meta data cache it    *)
(* downloads into (launcher/meta/BaseEntity.cpp), and the pages that edit  *)
(* the list (launcher/ui/pages/instance/VersionPage.cpp).                  *)
(*                                                                         *)
(* Everything runs on the event loop.  A handler that runs the resolver is *)
(* several steps here, because the resolver loops and calls itself; while  *)
(* phase is "loading" or "resolving" the loop is inside such a handler and *)
(* no other event is delivered.  In "waiting" the task waits for downloads *)
(* and any event may be delivered.                                         *)
(***************************************************************************)
EXTENDS Components

CONSTANTS
  Index,              \* the meta data index, an entity like the versions
  NoList,             \* mmc-pack.json does not exist
  BadList,            \* mmc-pack.json cannot be read
  NoTask,             \* a null m_updateTask
  InitialLists,       \* what mmc-pack.json may hold at the start
  InitialPatches,     \* what the patches folder may hold at the start
  Netmodes,           \* the network modes the list is reloaded in
  EditsDuringUpdate,  \* may the user edit while an update task waits?
  PatchesMayFail,     \* may removing or writing a patch file fail?
  WritesMayFail,      \* may writing mmc-pack.json fail?
  MaxEdits,           \* bound on user actions
  MaxCrashes          \* bound on exits and crashes

Entities == {Index} \cup (Uids \X AnyVersion)
Slot == [entity : Entities, position : Nat, finished : BOOLEAN]
Task == [netmode : {"Online", "Offline"}, checkOnly : BOOLEAN,
         slots : Seq(Slot), ok : BOOLEAN, again : BOOLEAN]

ASSUME PackProfileAssumption ==
  /\ Index \notin Uids \X AnyVersion
  /\ InitialLists \subseteq Seq(PersistedComponent) \cup {NoList, BadList}
  /\ InitialPatches \subseteq [Uids -> VersionFile \cup {NoFile}]
  /\ Netmodes \subseteq {"Online", "Offline"}
  /\ EditsDuringUpdate \in BOOLEAN
  /\ PatchesMayFail \in BOOLEAN
  /\ WritesMayFail \in BOOLEAN
  /\ MaxEdits \in Nat
  /\ MaxCrashes \in Nat
  /\ NoList # BadList
  /\ NoList \notin Seq(PersistedComponent) /\ BadList \notin Seq(PersistedComponent)
  /\ NoTask \notin Task

VARIABLES
  components,      \* d->components
  componentIndex,  \* the keys of d->componentIndex
  dirty,           \* d->dirty
  saveTimer,       \* is d->m_saveTimer running?
  loaded,          \* d->loaded
  task,            \* d->m_updateTask and its private data; `again` is no part of it, but
                   \* makes a turn of its loop that changes nothing a step
  phase,           \* where the update task is
  result,          \* the last signal an update task emitted
  ready,           \* meta entities that are loaded in memory
  local,           \* meta entities that have a file in the local cache
  inFlight,        \* meta entities with a running download
  orphans,         \* in-flight entities a destroyed task is still connected to
  fault,           \* undefined behaviour the program has run into
  disk,            \* the contents of mmc-pack.json
  patches,         \* the contents of the patches folder
  edits, crashes,  \* how often the bounded actions have happened
  disturbed        \* history: were rows moved under a task that waits, or did it leave
                   \* downloads behind?

listVars == <<components, componentIndex>>
saveVars == <<dirty, saveTimer>>
taskVars == <<task, phase, result>>
metaVars == <<ready, local, inFlight, orphans>>
boundVars == <<edits, crashes, disturbed>>
vars == <<listVars, saveVars, loaded, taskVars, metaVars, fault, disk, patches,
          boundVars>>

TypeOK ==
  /\ components \in Seq(Component)
  /\ componentIndex \subseteq Uids
  /\ dirty \in BOOLEAN /\ saveTimer \in BOOLEAN /\ loaded \in BOOLEAN
  /\ task \in Task \cup {NoTask}
  /\ phase \in {"idle", "loading", "waiting", "resolving"}
  /\ (phase = "idle") = (task = NoTask)
  /\ result \in {"none", "succeeded", "failed"}
  /\ ready \subseteq Entities /\ local \subseteq Entities
  /\ inFlight \subseteq Entities /\ orphans \subseteq inFlight
  /\ fault \in {"none", "dangling", "null"}
  /\ disk \in Seq(PersistedComponent) \cup {NoList, BadList}
  /\ patches \in [Uids -> VersionFile \cup {NoFile}]
  /\ edits \in 0..MaxEdits /\ crashes \in 0..MaxCrashes
  /\ disturbed \in BOOLEAN

Init ==
  /\ components = <<>> /\ componentIndex = {}
  /\ dirty = FALSE /\ saveTimer = FALSE /\ loaded = FALSE
  /\ task = NoTask /\ phase = "idle" /\ result = "none"
  /\ ready = {} /\ inFlight = {} /\ orphans = {}
  /\ local \in {{}, Published \cup {Index}}
  /\ fault = "none"
  /\ disk \in InitialLists
  /\ patches \in InitialPatches
  /\ edits = 0 /\ crashes = 0 /\ disturbed = FALSE

(***************************************************************************)
(* Saving.                                                                 *)
(***************************************************************************)

\* Mutant: the check of d->loaded is missing.
ScheduleSaveUnloaded(isLoaded, change) ==
  dirty' = (dirty \/ change) /\ saveTimer' = (saveTimer \/ change)

\* scheduleSave(), called when `change` holds; `isLoaded` is d->loaded then.
ScheduleSave(isLoaded, change) ==
  /\ dirty' = (dirty \/ (isLoaded /\ change))
  /\ saveTimer' = (saveTimer \/ (isLoaded /\ change))

\* save_internal(): the flag is cleared whether or not the file was written.
Written(old, cs) == {SaveList(cs)} \cup (IF WritesMayFail THEN {old} ELSE {})

Free == phase \in {"idle", "waiting"} /\ fault = "none"

SaveTimeout ==
  /\ Free /\ saveTimer
  /\ disk' \in Written(disk, components)
  /\ dirty' = FALSE /\ saveTimer' = FALSE
  /\ UNCHANGED <<listVars, loaded, taskVars, metaVars, fault, patches, boundVars>>

(***************************************************************************)
(* Starting and ending an update task.                                     *)
(***************************************************************************)

AwaitedBy(t) ==
  IF t = NoTask THEN {}
  ELSE {t.slots[i].entity : i \in {j \in DOMAIN t.slots : ~t.slots[j].finished}}

\* resolve(): the old task, if there is one, is destroyed; the downloads it
\* waits for stay connected to its handlers.
StartTask(netmode) ==
  /\ task' = [netmode |-> netmode, checkOnly |-> FALSE, slots |-> <<>>, ok |-> TRUE,
              again |-> FALSE]
  /\ phase' = "loading"
  /\ orphans' = orphans \cup AwaitedBy(task)
  /\ UNCHANGED result

\* Mutant: the task is dropped but its state is not reset.
EndTaskHalf(r) == task' = NoTask /\ UNCHANGED phase /\ result' = r

\* updateSucceeded() and updateFailed().
EndTask(r) == task' = NoTask /\ phase' = "idle" /\ result' = r

(***************************************************************************)
(* loadComponents().                                                       *)
(***************************************************************************)

\* A component needs its meta version if it is not loaded and has no patch.
NeedsMeta(c) == ~c.loaded /\ patches[c.uid] = NoFile
MetaOf(c) == <<c.uid, c.version>>

\* BaseEntity::load on every entity of a set: the local file first, then a
\* download unless one is running.
Requested ==
  ({Index} \cup {MetaOf(components[i]) : i \in {j \in DOMAIN components :
                                                 NeedsMeta(components[j])}}) \ ready

\* getVersionFile() loads a meta version that is not loaded, always online.
Lacking(cs, available) == {Entity(c) : c \in {d \in cs : d.metaVersion # NoMeta}} \ available

\* updateCachedData() looks at the file of what was loaded before.
Revisited == Lacking({c \in Range(components) : c.loaded}, ready)
ReadyAfterLoad == ready \cup ((Requested \cup Revisited) \cap local)
InFlightAfterLoad ==
  inFlight \cup Revisited \cup (IF task.netmode = "Online" THEN Requested ELSE {})

IsRemote(c) == NeedsMeta(c) /\ MetaOf(c) \in Requested \cap InFlightAfterLoad
IsMissing(c) ==
  NeedsMeta(c) /\ MetaOf(c) \notin ReadyAfterLoad \cup InFlightAfterLoad

\* The component before updateCachedData() is called on it.
Prepared(c) ==
  IF c.loaded THEN c
  ELSE IF patches[c.uid] # NoFile
  THEN [c EXCEPT !.file = patches[c.uid], !.loaded = TRUE]
  ELSE [c EXCEPT !.metaVersion = c.version, !.loaded = MetaOf(c) \in ready]

LoadComponent(c) ==
  IF IsRemote(c) \/ IsMissing(c) THEN Prepared(c)
  ELSE UpdateCachedData(Prepared(c), ReadyAfterLoad)

\* Mutant: a slot remembers its own number in place of the component's position.
SlotsByNumber ==
  LET waiting == Ascending({i \in DOMAIN components : IsRemote(components[i])})
  IN [k \in DOMAIN waiting |-> [entity |-> MetaOf(components[waiting[k]]),
                                position |-> k, finished |-> FALSE]]

\* Slots remember the position of the component, not the component.
Slots ==
  LET waiting == Ascending({i \in DOMAIN components : IsRemote(components[i])})
      slot(e, i) == [entity |-> e, position |-> i, finished |-> FALSE]
  IN (IF Index \in Requested \cap InFlightAfterLoad
      THEN <<slot(Index, 0)>> ELSE <<>>)
     \o [k \in DOMAIN waiting |-> slot(MetaOf(components[waiting[k]]), waiting[k])]

LoadComponents ==
  /\ phase = "loading"
  /\ components' = [i \in DOMAIN components |-> LoadComponent(components[i])]
  /\ ready' = ReadyAfterLoad /\ inFlight' = InFlightAfterLoad
  /\ ScheduleSave(loaded, SaveList(components') # SaveList(components))
  /\ \/ /\ \E i \in DOMAIN components : IsMissing(components[i])
        /\ EndTask("failed")
        /\ orphans' = orphans \cup {Slots[k].entity : k \in DOMAIN Slots}
        /\ disturbed' = (disturbed \/ Slots # <<>>)
     \/ /\ \A i \in DOMAIN components : ~IsMissing(components[i])
        /\ task' = [task EXCEPT !.slots = Slots, !.ok = TRUE,
                                !.checkOnly = task.netmode = "Offline" /\ Slots = <<>>]
        /\ phase' = IF Slots = <<>> THEN "resolving" ELSE "waiting"
        /\ UNCHANGED <<result, orphans, disturbed>>
  /\ UNCHANGED <<componentIndex, loaded, local, fault, disk, patches, edits, crashes>>

(***************************************************************************)
(* Answers from the network.                                               *)
(***************************************************************************)

\* The slot of the current task a finished download is connected to.
SlotsFor(e) == IF task = NoTask THEN {}
               ELSE {k \in DOMAIN task.slots :
                       task.slots[k].entity = e /\ ~task.slots[k].finished}

\* The current task after an answer for e.
Finished(e) == [k \in DOMAIN task.slots |->
                  [task.slots[k] EXCEPT !.finished = @ \/ k \in SlotsFor(e)]]
AllFinished(e) == \A k \in DOMAIN task.slots : Finished(e)[k].finished

\* Mutant: the first failure ends the task, the other downloads keep running.
AnsweredFailsFast(e, success) ==
  IF SlotsFor(e) = {} THEN UNCHANGED taskVars /\ orphans' = orphans \ {e}
  ELSE IF ~success
  THEN EndTask("failed") /\ orphans' = (orphans \cup AwaitedBy(task)) \ {e}
  ELSE /\ task' = [task EXCEPT !.slots = Finished(e)]
       /\ phase' = IF AllFinished(e) THEN "resolving" ELSE phase
       /\ orphans' = orphans \ {e} /\ UNCHANGED result

\* Mutant: a failed download is not counted as finished.
AnsweredForgets(e, success) ==
  /\ orphans' = orphans \ {e}
  /\ IF ~success \/ SlotsFor(e) = {} THEN UNCHANGED taskVars
     ELSE /\ task' = [task EXCEPT !.slots = Finished(e)]
          /\ phase' = IF AllFinished(e) THEN "resolving" ELSE phase
          /\ UNCHANGED result

\* checkIfAllFinished(): only the last answer lets the task resolve, or fail if
\* one of the answers was a failure.
Answered(e, success) ==
  LET ok == task.ok /\ success IN
  /\ orphans' = orphans \ {e}
  /\ IF SlotsFor(e) = {} THEN UNCHANGED taskVars
     ELSE IF ~AllFinished(e)
     THEN task' = [task EXCEPT !.slots = Finished(e), !.ok = ok] /\ UNCHANGED <<phase, result>>
     ELSE IF ok
     THEN /\ task' = [task EXCEPT !.slots = <<>>, !.checkOnly = FALSE]
          /\ phase' = "resolving" /\ UNCHANGED result
     ELSE EndTask("failed")

\* remoteLoadSucceeded() marks whatever now stands at the remembered position.
RemoteLoadSucceeded(e, available) ==
  [i \in DOMAIN components |->
     IF \E k \in SlotsFor(e) : task.slots[k].position = i
     THEN UpdateCachedData([components[i] EXCEPT !.loaded = TRUE], available)
     ELSE components[i]]

PositionGone(e) ==
  \E k \in SlotsFor(e) : task.slots[k].position > Len(components)

\* The component an answer is attributed to; its meta version need not be the one that
\* arrived.
Attributed(e) ==
  {components[i] : i \in {task.slots[k].position : k \in SlotsFor(e)} \cap DOMAIN components}
AskedAgain(e, available) == Lacking(Attributed(e), available)

RemoteAnswer(e) ==
  /\ Free /\ e \in inFlight
  /\ fault' = IF e \in orphans THEN "dangling" ELSE "none"
  /\ UNCHANGED <<componentIndex, loaded, disk, patches, boundVars>>

RemoteSucceeds(e) ==
  /\ e \in Published \cup {Index}
  /\ ready' = ready \cup {e} \cup (AskedAgain(e, ready \cup {e}) \cap local)
  /\ local' = local \cup {e}
  /\ \/ /\ ~PositionGone(e)
        /\ RemoteAnswer(e)
        /\ components' = RemoteLoadSucceeded(e, ready')
        /\ inFlight' = (inFlight \ {e}) \cup AskedAgain(e, ready \cup {e})
        /\ Answered(e, TRUE)
        /\ ScheduleSave(loaded, \/ SaveList(components') # SaveList(components)
                               \/ Lacking(Attributed(e), ready') # {})
     \/ /\ PositionGone(e)
        /\ Free /\ e \in inFlight
        /\ fault' = "null"
        /\ inFlight' = inFlight \ {e}
        /\ orphans' = orphans \ {e}
        /\ UNCHANGED <<listVars, saveVars, taskVars, loaded, disk, patches, boundVars>>

RemoteFails(e) ==
  /\ RemoteAnswer(e)
  /\ Answered(e, FALSE)
  /\ inFlight' = inFlight \ {e}
  /\ UNCHANGED <<components, saveVars, ready, local>>

\* data(): drawing a row asks for its problems, and so for its version file.
DrawRow(i) ==
  LET asked == Lacking({components[i]}, ready) IN
  /\ Free /\ asked \ inFlight # {}
  /\ ready' = ready \cup (asked \cap local)
  /\ inFlight' = inFlight \cup asked
  /\ UNCHANGED <<listVars, saveVars, loaded, taskVars, local, orphans, fault, disk,
                 patches, boundVars>>

(***************************************************************************)
(* resolveDependencies(): one step per turn of its loop, then the verdict. *)
(***************************************************************************)
Reqs == GatherRequirements(components)

Resolving == phase = "resolving"
Settled == ConflictFree(components) /\ TrivialRemovals(components) = {}

\* removeComponent_internal() refuses important components and components whose
\* patch file cannot be deleted; the resolver ignores the refusal.
Refused(c, stuck) == c.important \/ c.uid \in stuck
StuckPatches ==
  IF PatchesMayFail THEN SUBSET {u \in Uids : patches[u] # NoFile} ELSE {{}}

Without(cs, gone) == Select(cs, {i \in DOMAIN cs : cs[i].uid \notin gone})

RemoveObsolete ==
  /\ Resolving /\ ConflictFree(components)
  /\ TrivialRemovals(components) # {}
  /\ \E stuck \in StuckPatches :
       LET gone == {c.uid : c \in {r \in TrivialRemovals(components) :
                                     ~Refused(r, stuck)}}
       IN /\ components' = Without(components, gone)
          /\ componentIndex' = componentIndex \ gone
          /\ patches' = [u \in Uids |-> IF u \in gone THEN NoFile ELSE patches[u]]
          /\ ScheduleSave(loaded, gone # {})
          /\ task' = [task EXCEPT !.again = IF gone = {} THEN ~@ ELSE @]
  /\ UNCHANGED <<loaded, phase, result, metaVars, fault, disk, boundVars>>

Changes == ToAdd(components, Reqs) \cup ToChange(components, Reqs)

ResolutionFails ==
  /\ Resolving
  /\ \/ ~ConflictFree(components)
     \/ Settled /\ Locked(components, Reqs) # {}
     \/ Settled /\ task.checkOnly /\ Changes # {}
  /\ EndTask("failed")
  /\ UNCHANGED <<listVars, saveVars, loaded, metaVars, fault, disk, patches, boundVars>>

ResolutionSucceeds ==
  /\ Resolving /\ Settled
  /\ Locked(components, Reqs) = {} /\ Changes = {}
  /\ EndTask("succeeded")
  /\ UNCHANGED <<listVars, saveVars, loaded, metaVars, fault, disk, patches, boundVars>>

\* Missing dependencies are injected, versions set, and everything loads again.
ApplyChanges ==
  /\ Resolving /\ Settled /\ ~task.checkOnly
  /\ Locked(components, Reqs) = {} /\ Changes # {}
  /\ components' = ChangeVersions(AddDependencies(components, Reqs), Reqs, ready,
                                  ToChange(components, Reqs))
  /\ componentIndex' = componentIndex \cup ToAdd(components, Reqs)
  /\ ScheduleSave(loaded, TRUE)
  /\ phase' = "loading"
  /\ UNCHANGED <<loaded, task, result, metaVars, fault, disk, patches, boundVars>>

(***************************************************************************)
(* The user, through VersionPage.                                          *)
(***************************************************************************)
\* An edit `disturbs` a task that waits if it moves rows or replaces the task.
Edit(disturbs) ==
  /\ Free /\ edits < MaxEdits
  /\ phase = "idle" \/ EditsDuringUpdate
  /\ edits' = edits + 1
  /\ disturbed' = (disturbed \/ (disturbs /\ phase = "waiting"))
  /\ UNCHANGED <<fault, crashes>>

\* The page that edits the list has tried to load it first.
PageOpen == loaded \/ disk = BadList

\* reload(), from a list that may just have been edited to cs (and was dirty if
\* wasDirty): flush the scheduled save, load the file, resolve.  While a task is
\* there reload() does nothing.
Reload(netmode, cs, index, wasDirty) ==
  IF task # NoTask
  THEN /\ components' = cs /\ componentIndex' = index
       /\ dirty' = wasDirty /\ saveTimer' = wasDirty
       /\ UNCHANGED <<disk, loaded, taskVars, orphans>>
  ELSE /\ disk' \in IF wasDirty THEN Written(disk, cs) ELSE {disk}
       /\ dirty' = FALSE /\ saveTimer' = FALSE
       /\ IF disk' = BadList
          THEN /\ components' = cs /\ componentIndex' = index
               /\ UNCHANGED <<loaded, taskVars, orphans>>
          ELSE /\ components' = LoadList(disk')
               /\ componentIndex' = UidsOf(components')
               /\ loaded' = TRUE
               /\ StartTask(netmode)

ReloadList(netmode) ==
  /\ Edit(FALSE) /\ disk # NoList /\ task = NoTask
  /\ Reload(netmode, components, componentIndex, dirty)
  /\ UNCHANGED <<ready, local, inFlight, patches>>

\* remove(index) followed, as on the page, by a reload.
RemoveComponent(i) ==
  /\ disk # NoList
  /\ \E stuck \in StuckPatches :
       LET c == components[i]
           refused == Refused(c, stuck)
       IN /\ Edit(~refused)
          /\ Reload("Online",
                    IF refused THEN components ELSE RemoveAt(components, i),
                    IF refused THEN componentIndex ELSE componentIndex \ {c.uid},
                    dirty \/ (loaded /\ ~refused))
          /\ patches' = IF refused THEN patches ELSE [patches EXCEPT ![c.uid] = NoFile]
  /\ UNCHANGED <<ready, local, inFlight>>

\* move(): the neighbour below the last row is the last row itself, and the
\* neighbour above the first row is the last row.
Neighbour(i, up) ==
  IF up THEN (IF i = 1 THEN Len(components) ELSE i - 1)
  ELSE (IF i = Len(components) THEN i ELSE i + 1)

\* Mutant: moving a row does not schedule a save.
MoveUnsaved(i, up) ==
  LET j == Neighbour(i, up) IN
  /\ Edit(TRUE) /\ i # j
  /\ components' = [components EXCEPT ![i] = components[j], ![j] = components[i]]
  /\ UNCHANGED <<componentIndex, saveVars, loaded, taskVars, metaVars, disk, patches>>

MoveComponent(i, up) ==
  LET j == Neighbour(i, up) IN
  /\ Edit(TRUE) /\ i # j
  /\ components' = [components EXCEPT ![i] = components[j], ![j] = components[i]]
  /\ ScheduleSave(loaded, TRUE)
  /\ UNCHANGED <<componentIndex, loaded, taskVars, metaVars, disk, patches>>

ToggleEnabled(i) ==
  LET c == components[i] IN
  /\ Edit(FALSE) /\ CanBeDisabled(c)
  /\ components' = [components EXCEPT ![i] = SetEnabled(c, ~IsEnabled(c))]
  /\ ScheduleSave(loaded, TRUE)
  /\ UNCHANGED <<componentIndex, loaded, taskVars, metaVars, disk, patches>>

CustomizeComponent(i) ==
  LET c == components[i] IN
  /\ Edit(FALSE) /\ IsCustomizable(c, ready) /\ ~IsCustom(c)
  /\ components' = [components EXCEPT ![i] = Customize(c, ready)]
  /\ patches' = [patches EXCEPT ![c.uid] = FileOf(c, ready)]
  /\ ScheduleSave(loaded, TRUE)
  /\ UNCHANGED <<componentIndex, loaded, taskVars, metaVars, disk>>

RevertComponent(i) ==
  LET c == components[i] IN
  /\ Edit(FALSE) /\ IsRevertible(c)
  /\ \E stuck \in StuckPatches : c.uid \notin stuck
  /\ components' = [components EXCEPT ![i] = Revert(c, ready)]
  /\ patches' = [patches EXCEPT ![c.uid] = NoFile]
  /\ ScheduleSave(loaded, TRUE)
  /\ UNCHANGED <<componentIndex, loaded, taskVars, metaVars, disk>>

\* setComponentVersion(), always followed by resolve(Online) on the pages.
ChangeVersion(u, v) ==
  LET important == u = Minecraft
      set(c) == [SetVersion(Revert(c, ready), v, ready) EXCEPT !.important = important]
  IN
  /\ Edit(TRUE) /\ PageOpen
  /\ IF u \notin componentIndex
     THEN /\ components' = Append(components, NewComponent(u, v, FALSE, important))
          /\ componentIndex' = componentIndex \cup {u}
          /\ ScheduleSave(loaded, TRUE)
          /\ UNCHANGED patches
     ELSE \E stuck \in StuckPatches :
          LET i == IndexOf(components, u)
              refused == IsCustom(components[i]) /\ u \in stuck
          IN /\ components' = IF refused THEN components
                              ELSE [components EXCEPT ![i] = set(@)]
             /\ patches' = IF refused \/ ~IsCustom(components[i]) THEN patches
                           ELSE [patches EXCEPT ![u] = NoFile]
             /\ ScheduleSave(loaded, components' # components)
             /\ UNCHANGED componentIndex
  /\ StartTask("Online")
  /\ UNCHANGED <<loaded, ready, local, inFlight, disk>>

\* installEmpty(), and the custom and jar mod variants: the patch first, then
\* the component.  That the patch could be opened is checked, that it could be written
\* is not.  The dialogs offer no uid that is in the list already.
InstallLocal(u) ==
  LET f == EmptyFile(CHOOSE v \in Versions : TRUE) IN
  /\ Edit(FALSE) /\ PageOpen /\ u \notin componentIndex
  /\ \E written \in {f} \cup (IF PatchesMayFail THEN {Truncated} ELSE {}) :
       patches' = [patches EXCEPT ![u] = written]
  /\ components' = Append(components, FileComponent(u, f))
  /\ componentIndex' = componentIndex \cup {u}
  /\ ScheduleSave(loaded, TRUE)
  /\ UNCHANGED <<loaded, taskVars, metaVars, disk>>

\* A new instance: buildingFromScratch(), setComponentVersion("net.minecraft"),
\* saveNow() on a temporary list.
CreateInstance(v) ==
  /\ Free /\ disk = NoList /\ ~loaded /\ components = <<>>
  /\ disk' = SaveList(<<NewComponent(Minecraft, v, FALSE, TRUE)>>)
  /\ UNCHANGED <<listVars, saveVars, loaded, taskVars, metaVars, fault, patches, boundVars>>

(***************************************************************************)
(* The end of the program: the destructor saves, a crash does not.         *)
(***************************************************************************)
Restart ==
  /\ crashes < MaxCrashes /\ crashes' = crashes + 1
  /\ components' = <<>> /\ componentIndex' = {}
  /\ dirty' = FALSE /\ saveTimer' = FALSE /\ loaded' = FALSE
  /\ EndTask("none")
  /\ ready' = {} /\ inFlight' = {} /\ orphans' = {}
  /\ fault' = "none" /\ disturbed' = FALSE
  /\ UNCHANGED <<local, patches, edits>>

Exit ==
  /\ Free
  /\ disk' \in IF dirty THEN Written(disk, components) ELSE {disk}
  /\ Restart

Crash == Restart /\ UNCHANGED disk

PublishedVersions(u) == {v \in Versions : <<u, v>> \in Published}

ResolverStep ==
  LoadComponents \/ RemoveObsolete \/ ResolutionFails \/ ResolutionSucceeds \/ ApplyChanges
UserStep ==
  \/ \E m \in Netmodes : ReloadList(m)
  \/ \E i \in DOMAIN components : RemoveComponent(i)
  \/ \E i \in DOMAIN components, up \in BOOLEAN : MoveComponent(i, up)
  \/ \E i \in DOMAIN components : ToggleEnabled(i)
  \/ \E i \in DOMAIN components : CustomizeComponent(i)
  \/ \E i \in DOMAIN components : RevertComponent(i)
  \/ \E u \in Uids : \E v \in PublishedVersions(u) : ChangeVersion(u, v)
  \/ \E u \in Uids : InstallLocal(u)
NetworkStep == \E e \in inFlight : RemoteSucceeds(e) \/ RemoteFails(e)

Next ==
  \/ ResolverStep
  \/ NetworkStep
  \/ \E i \in DOMAIN components : DrawRow(i)
  \/ UserStep
  \/ SaveTimeout
  \/ \E v \in PublishedVersions(Minecraft) : CreateInstance(v)
  \/ Exit
  \/ Crash

Spec == Init /\ [][Next]_vars

\* The resolver runs inside one handler and never yields; every download is
\* answered in the end, by the server or by an error of the network stack.
Fairness ==
  /\ WF_vars(ResolverStep)
  /\ \A e \in Entities : WF_vars(RemoteSucceeds(e) \/ RemoteFails(e))

FairSpec == Spec /\ Fairness

(***************************************************************************)
(* Properties.                                                             *)
(***************************************************************************)

\* Everything has its type, and the list and the map that finds components by
\* uid agree after every operation: no uid is listed twice and none is found
\* that is not listed.
IndexMatchesList ==
  /\ TypeOK
  /\ UidsOf(components) = componentIndex
  /\ \A i, j \in DOMAIN components :
       components[i].uid = components[j].uid => i = j

\* With no save pending, reloading mmc-pack.json gives the list that is in
\* memory (as far as the reader restores it): a crash then loses no edit.
NothingLostWhenClean ==
  (loaded /\ ~dirty /\ fault = "none") =>
    LoadList(disk) = LoadList(SaveList(components))

\* A list that was never loaded is not written: an unreadable mmc-pack.json is
\* not replaced ("should never save if it didn't successfully load").
UnloadedListNotSaved == [][disk' # disk => loaded \/ disk = NoList]_vars

\* Whatever component claims to be custom has its file in the patches folder, and with
\* the same contents, but where the file that an installation wrote was cut short:
\* otherwise nothing applies that would be gone on reload.
CustomMatchesPatch ==
  \A i \in DOMAIN components :
    IsCustom(components[i]) =>
      \/ patches[components[i].uid] = components[i].file
      \/ PatchesMayFail /\ patches[components[i].uid] = Truncated

\* What a user put into the list, in order: everything the resolver did not add
\* as a dependency itself.
UserChoices(cs) ==
  LET mine == Select(cs, {i \in DOMAIN cs : ~cs[i].dependencyOnly})
  IN [k \in DOMAIN mine |-> <<mine[k].uid, mine[k].version>>]

\* An update task, in all its loading and resolving, removes, re-versions and
\* reorders only components that were added as dependencies.
UpdateKeepsUserChoices ==
  [][(phase \in {"loading", "resolving"} /\ crashes' = crashes)
       => (UserChoices(components') = UserChoices(components))]_vars

\* When an update task reports success, the requirements of every component, as
\* its current file states them, are met by the list: the required component is
\* there, and in the required version if one is required.
Meets(cs, u, req) ==
  /\ u \in UidsOf(cs)
  /\ req.equals # NoVersion => cs[IndexOf(cs, u)].cachedVersion = req.equals

Resolved(cs) ==
  \A i \in DOMAIN cs :
    LET f == FileOf(cs[i], ready) IN
    /\ f # NoFile
    /\ \A u \in DOMAIN f.requires : Meets(cs, u, f.requires[u])

SuccessMeansResolved ==
  [][phase = "resolving" /\ phase' = "idle" /\ result' = "succeeded"
       => Resolved(components)]_vars

\* A component the resolver injects stands before everything that required it when the
\* requirements were gathered ("needs to be injected before the dependee(s)"); not so
\* before what gets a requirement by a change of version in the same turn.
InjectedBeforeDependees ==
  [][phase = "resolving" =>
       \A i, j \in DOMAIN components' : \A d \in Dependees(components, components'[i].uid) :
         /\ components'[i].uid \notin UidsOf(components)
         /\ components'[j].uid = components[d].uid
         => i < j]_vars

\* An answer marks the component it was requested for ("update the cached data of the
\* component from the downloaded version file"): a row is there to be marked, and no
\* component counts as loaded whose own meta data never arrived.  By itself this does
\* not hold, nor does the next (section 5 of the README): see AnswersFindTheirRow.
AnswersMarkTheirComponent ==
  /\ fault # "null"
  /\ \A i \in DOMAIN components :
       components[i].loaded /\ components[i].metaVersion # NoMeta =>
         Entity(components[i]) \in ready

\* A task that waits is not replaced ("Do not reload when the update/resolve task is
\* running.  It is in control."), so that no answer reaches a task that is gone.
TaskStaysInControl == fault # "dangling"

\* Both hold unless rows were moved or removed or the task was replaced while it waited,
\* or it failed while it was still starting downloads: there is no other way to get there,
\* through edits, removals that are refused, restarts, several downloads and rounds.
AnswersFindTheirRow == ~disturbed => AnswersMarkTheirComponent /\ TaskStaysInControl

\* Two ways to go round for ever: versions are changed, or nothing is removed of what has
\* to go.
ChangesVersions ==
  phase = "resolving" /\ phase' = "loading" /\ ToChange(components, Reqs) # {}
RemovesNothing ==
  phase = "resolving" /\ phase' = "resolving" /\ components' = components

\* An update task ends, unless it changes versions for ever or is for ever refused to
\* remove what has to go: it does not wait for an answer that does not come, nor go on
\* adding and removing.
UpdateTerminates ==
  (<>[][~ChangesVersions]_vars /\ <>[][~RemovesNothing]_vars)
    => ((phase # "idle") ~> (phase = "idle"))

\* A dependency in another version than the exact one that is required ends the update
\* ("A dependency has non-matching exact version number -> hard error").  It does not
\* hold for two dependencies that require versions of each other in a circle (section 5 of
\* the README), and no run checks it.
Mismatched ==
  phase = "resolving" /\ Settled /\ \E u \in DOMAIN Reqs : VersionDiffers(components, Reqs, u)
MismatchEndsUpdate == Mismatched ~> (phase = "idle")
=============================================================================
