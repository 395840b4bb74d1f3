----------------------------- MODULE ModFolder -----------------------------
(***************************************************************************)
(* The list of the mods in a folder (launcher/minecraft/mod/               *)
(* ModFolderModel.cpp).  A thread reads the folder, the list is brought in *)
(* line with what it read, and for each new mod a thread reads the details *)
(* out of the file.  Meanwhile the user enables, disables, deletes and     *)
(* installs mods and other programs change the folder, which a watcher     *)
(* reports a while later; so each answer may be about a folder that is no  *)
(* more.                                                                   *)
(*                                                                         *)
(* A mod in the folder is a file: a name, and whether it is enabled, which *)
(* is a suffix of the name on disk.  A date stands for the contents of a   *)
(* file; a file that is replaced has another date.  Not here are mod.json, *)
(* which the list writes along the way and reads only to decide what to    *)
(* look up, and mods that are folders, which cannot be disabled.           *)
(*                                                                         *)
(* Two things the code does not guard against let its index go wrong: a    *)
(* mod that is switched while its details are read, whose answer comes     *)
(* under an id that is no more, and a mod that is switched to the id of    *)
(* another row.  `mishap' says when they have happened.                    *)
(***************************************************************************)
EXTENDS Integers, FiniteSets, SequencesExt

CONSTANTS
  Names,       \* the mods there are
  MaxFiles,    \* bound on the files in the folder
  MaxDate,     \* bound on the dates in use at a time
  MaxChanges,  \* bound on the changes to the folder
  MaxVisits,   \* bound on the visits to the page of the mods, and on launches
  NoUpdate, Reading, Unread, NoDetails

Ids == Names \X BOOLEAN               \* mmc_id(): name, enabled?
Dates == 1..MaxDate
Folder == [Ids -> 0..MaxDate]         \* 0: not there
Details == (Names \X Dates) \cup {Unread, NoDetails}

\* A ticket is a number in the code; here it is told from others of the same file.
Tickets == Ids \X Nat

\* A Mod.  `valid` is that its type is known, and what is not Unread is resolved.
Row == [id : Ids, date : Dates, valid : BOOLEAN, ticket : Tickets, details : Details]

ASSUME ModFolderAssumption ==
  /\ IsFiniteSet(Names)
  /\ MaxDate \in Nat \ {0} /\ MaxFiles \in Nat /\ MaxChanges \in Nat /\ MaxVisits \in Nat
  /\ NoUpdate # Reading /\ NoUpdate \notin Folder /\ Reading \notin Folder
  /\ Unread # NoDetails /\ Unread \notin Names \X Dates /\ NoDetails \notin Names \X Dates

VARIABLES
  disk,       \* the folder
  changed,    \* has the watcher a change to report?
  watching,   \* is_watching
  update,     \* m_update: none, reading, or what was read
  scheduled,  \* scheduled_update
  mods,       \* the rows
  index,      \* modsIndex: the row of each id
  parses,     \* by ticket, the tasks that read details, until their signal is handled,
              \* and what they have read
  active,     \* activeTickets: the tickets that still count
  changes,    \* changes to the folder so far
  visits,     \* visits to the page so far
  mishap      \* has a mod been switched while its details were read ("hasty")?  Has a
              \* row been given the id of another, or an id without a row been put
              \* into the index ("muddled")?

watcher == <<changed, watching>>
reader == <<update, scheduled>>
list == <<mods, index, parses, active>>
vars == <<disk, watcher, reader, list, changes, visits, mishap>>

TypeOK ==
  /\ disk \in Folder
  /\ changed \in BOOLEAN /\ watching \in BOOLEAN /\ scheduled \in BOOLEAN
  /\ update \in Folder \cup {NoUpdate, Reading}
  /\ mods \in Seq(Row)
  /\ DOMAIN index \subseteq Ids /\ \A id \in DOMAIN index : index[id] \in DOMAIN mods
  /\ DOMAIN parses \subseteq Tickets /\ \A t \in DOMAIN parses : parses[t] \in Details
  /\ active \subseteq DOMAIN parses
  /\ changes \in 0..MaxChanges /\ visits \in 0..MaxVisits
  /\ mishap \in {"none", "hasty", "muddled"}

There(folder) == {id \in Ids : folder[id] > 0}
Other(id) == <<id[1], ~id[2]>>

\* A date that no file, row or answer has.
Fresh ==
  LET Used == {disk[id] : id \in Ids} \cup {mods[r].date : r \in DOMAIN mods}
                \cup (IF update \in {NoUpdate, Reading} THEN {} ELSE {update[id] : id \in Ids})
                \cup {x[2] : x \in (Range(parses)
                                      \cup {mods[r].details : r \in DOMAIN mods})
                                     \ {Unread, NoDetails}}
      Unused == Dates \ Used
  IN IF Unused = {} THEN {} ELSE {CHOOSE d \in Unused : \A e \in Unused : d <= e}

--------------------------------------------------------------------------------
(***************************************************************************)
(* Reading the folder.                                                     *)
(***************************************************************************)
Init ==
  /\ disk \in {f \in [Ids -> {0, 1}] : Cardinality(There(f)) <= MaxFiles}
  /\ changed = FALSE /\ watching = FALSE
  /\ update = NoUpdate /\ scheduled = FALSE
  /\ mods = <<>> /\ index = <<>> /\ parses = <<>> /\ active = {}
  /\ changes = 0 /\ visits = 0 /\ mishap = "none"

\* Mutant: a request that comes while the folder is read is forgotten.
UpdateUnlessReading ==
  /\ update' = IF update = NoUpdate THEN Reading ELSE update
  /\ UNCHANGED scheduled

Update ==
  IF update = NoUpdate
    THEN update' = Reading /\ UNCHANGED scheduled
    ELSE scheduled' = TRUE /\ UNCHANGED update

\* The thread of the ModFolderLoadTask.
Read ==
  /\ update = Reading
  /\ update' = disk
  /\ UNCHANGED <<disk, watcher, scheduled, list, changes, visits, mishap>>

\* The rows of what was read: those of another date, and those that are gone.
Known == DOMAIN index
Renewed == {id \in Known \cap There(update) : update[id] # mods[index[id]].date}
Gone == Known \ There(update)

\* Mutant: the parses of mods that are gone or replaced still count.
NothingDropped == {}

Dropped == {mods[r].ticket : r \in {index[id] : id \in Renewed \cup Gone}
                                     \cap {r \in DOMAIN mods : mods[r].details = Unread}}

\* resolveMod(): the number of the ticket is one that no thread has.
NewTicket(id) ==
  <<id, CHOOSE n \in 0..Cardinality(DOMAIN parses) : <<id, n>> \notin DOMAIN parses>>
NewRow(id) == [id |-> id, date |-> update[id], valid |-> TRUE, ticket |-> NewTicket(id),
               details |-> Unread]

RenewedRows ==
  [r \in DOMAIN mods |-> LET ids == {id \in Renewed : index[id] = r}
                         IN IF ids = {} THEN mods[r] ELSE NewRow(CHOOSE id \in ids : TRUE)]

\* Rows go from the last to the first, each as often as it is the row of an id that is
\* gone.
Cut(rows, r, n) == SubSeq(rows, 1, r - 1) \o SubSeq(rows, r + n, Len(rows))
RowsLeft ==
  LET n == Len(mods)
      times == [r \in 1..n |-> Cardinality({id \in Gone : index[id] = r})]
      left[k \in 0..n] ==
        IF k = 0 THEN RenewedRows ELSE Cut(left[k - 1], n + 1 - k, times[n + 1 - k])
  IN left[n]

IndexOf(rows) ==
  [id \in {rows[r].id : r \in DOMAIN rows} |-> Max({r \in DOMAIN rows : rows[r].id = id})]

\* Mutant: the request that came meanwhile is never done with.
AgainForEver ==
  /\ update' = IF scheduled THEN Reading ELSE NoUpdate
  /\ UNCHANGED scheduled

\* The end of finishUpdate(): the folder is read again if that was asked for meanwhile.
Again ==
  /\ update' = IF scheduled THEN Reading ELSE NoUpdate
  /\ scheduled' = FALSE

\* finishUpdate(): rows whose file has another date are replaced, rows whose file is
\* gone go, and what is new is added at the end, in any order.
FinishUpdate ==
  /\ update \notin {NoUpdate, Reading}
  /\ \E added \in SetToSeqs(There(update) \ Known) :
       mods' = RowsLeft \o [k \in DOMAIN added |-> NewRow(added[k])]
  /\ index' = IndexOf(mods')
  /\ LET new == {NewTicket(id) : id \in Renewed \cup (There(update) \ Known)}
     IN /\ parses' = [t \in DOMAIN parses \cup new |-> IF t \in new THEN Unread ELSE parses[t]]
        /\ active' = (active \ Dropped) \cup new
  /\ Again
  /\ UNCHANGED <<disk, watcher, changes, visits, mishap>>

--------------------------------------------------------------------------------
(***************************************************************************)
(* Reading the details of a mod.                                           *)
(***************************************************************************)

\* The thread of the LocalModParseTask: the file that the mod was when it began.
ParseRead(t) ==
  /\ parses[t] = Unread
  /\ parses' = [parses EXCEPT ![t] = IF disk[t[1]] > 0 THEN <<t[1][1], disk[t[1]]>>
                                     ELSE NoDetails]
  /\ UNCHANGED <<disk, watcher, reader, mods, index, active, changes, visits, mishap>>

\* finishModParse(): an id that the index has no longer is put there, for the first
\* row, whose details these are not, if there is a row at all.
FinishParse(t) ==
  /\ parses[t] # Unread
  /\ parses' = [u \in DOMAIN parses \ {t} |-> parses[u]]
  /\ IF t \notin active THEN UNCHANGED <<mods, index, active, mishap>>
     ELSE LET row == IF t[1] \in Known THEN index[t[1]] ELSE 1
          IN /\ active' = active \ {t}
             /\ mods' = [mods EXCEPT ![row].details = parses[t]]
             /\ index' = [id \in Known \cup {t[1]} |-> IF id = t[1] THEN row ELSE index[id]]
             /\ mishap' = IF t[1] \in Known THEN mishap ELSE "muddled"
  /\ UNCHANGED <<disk, watcher, reader, changes, visits>>

--------------------------------------------------------------------------------
(***************************************************************************)
(* The watcher, the pages and the launch.                                  *)
(***************************************************************************)
DirectoryChanged ==
  /\ changed
  /\ changed' = FALSE
  /\ Update
  /\ UNCHANGED <<disk, watching, list, changes, visits, mishap>>

StartWatching ==
  /\ ~watching /\ visits < MaxVisits
  /\ visits' = visits + 1
  /\ watching' = TRUE
  /\ Update
  /\ UNCHANGED <<disk, changed, list, changes, mishap>>

StopWatching ==
  /\ watching
  /\ watching' = FALSE /\ changed' = FALSE
  /\ UNCHANGED <<disk, reader, list, changes, visits, mishap>>

\* ScanModFolders, a step of a launch.
Scan ==
  /\ visits < MaxVisits
  /\ visits' = visits + 1
  /\ Update
  /\ UNCHANGED <<disk, watcher, list, changes, mishap>>

--------------------------------------------------------------------------------
(***************************************************************************)
(* Changes to the folder.                                                  *)
(***************************************************************************)
Becomes(folder) ==
  /\ changes < MaxChanges /\ Cardinality(There(folder)) <= MaxFiles
  /\ changes' = changes + 1
  /\ disk' = folder
  /\ changed' = watching
  /\ UNCHANGED watching

\* Another program puts a file there, for the one that may be there, or removes one.  It
\* may put an enabled mod beside a disabled one.
FilePut(id, d) ==
  /\ Becomes([disk EXCEPT ![id] = d])
  /\ UNCHANGED <<reader, list, visits, mishap>>

FileRemoved(id) ==
  /\ disk[id] > 0
  /\ Becomes([disk EXCEPT ![id] = 0])
  /\ UNCHANGED <<reader, list, visits, mishap>>

\* installMod(): a file of that name makes room, but one that is disabled does not.
InstallMod(n, d) ==
  /\ disk[<<n, TRUE>>] > 0 \/ disk[<<n, FALSE>>] = 0
  /\ Becomes([disk EXCEPT ![<<n, TRUE>>] = d])
  /\ Update
  /\ UNCHANGED <<list, visits, mishap>>

\* What may come of switching a mod at once: neither is checked for.
Switched(r) ==
  IF Other(mods[r].id) \in Known THEN "muddled"
  ELSE IF mods[r].details = Unread THEN "hasty"
  ELSE mishap

\* Mutant: the index keeps the old id of the row.
SetModStatusKeepsId(r) ==
  LET old == mods[r].id
      new == Other(old)
  IN /\ mods[r].valid /\ disk[old] > 0 /\ disk[new] = 0
     /\ Becomes([disk EXCEPT ![old] = 0, ![new] = disk[old]])
     /\ mods' = [mods EXCEPT ![r].id = new]
     /\ index' = (new :> r) @@ index
     /\ mishap' = Switched(r)
     /\ UNCHANGED <<reader, parses, active, visits>>

\* setModStatus() and Mod::enable(): the file is renamed, which fails if it is gone or
\* its other name is taken.  The row stays, with another id; another row that has this id
\* is found under it no longer.
SetModStatus(r) ==
  LET old == mods[r].id
      new == Other(old)
  IN /\ mods[r].valid /\ disk[old] > 0 /\ disk[new] = 0
     /\ Becomes([disk EXCEPT ![old] = 0, ![new] = disk[old]])
     /\ mods' = [mods EXCEPT ![r].id = new]
     /\ index' = [id \in (Known \ {old}) \cup {new} |-> IF id = new THEN r ELSE index[id]]
     /\ mishap' = Switched(r)
     /\ UNCHANGED <<reader, parses, active, visits>>

\* deleteMods() and Mod::destroy(): the row stays until the folder is read, its type
\* unknown.
DeleteMod(r) ==
  /\ mods[r].valid /\ disk[mods[r].id] > 0
  /\ Becomes([disk EXCEPT ![mods[r].id] = 0])
  /\ mods' = [mods EXCEPT ![r].valid = FALSE]
  /\ UNCHANGED <<reader, index, parses, active, visits, mishap>>

--------------------------------------------------------------------------------
Threads == Read \/ \E t \in DOMAIN parses : ParseRead(t)
Signals == FinishUpdate \/ DirectoryChanged \/ \E t \in DOMAIN parses : FinishParse(t)

User ==
  \/ StartWatching \/ StopWatching \/ Scan
  \/ \E r \in DOMAIN mods : SetModStatus(r) \/ DeleteMod(r)
  \/ \E n \in Names, d \in Fresh : InstallMod(n, d)

OtherPrograms ==
  \E id \in Ids : FileRemoved(id) \/ \E d \in Fresh : FilePut(id, d)

\* With the index muddled the code takes one row for another, or a row there is none of,
\* and where that ends is not followed.
Next == mishap # "muddled" /\ (Threads \/ Signals \/ User \/ OtherPrograms)

Spec == Init /\ [][Next]_vars

\* Threads run to their end, and their signals and those of the watcher are delivered.
Fairness ==
  /\ WF_vars(Read) /\ WF_vars(FinishUpdate) /\ WF_vars(DirectoryChanged)
  /\ WF_vars(\E t \in DOMAIN parses : ParseRead(t))
  /\ WF_vars(\E t \in DOMAIN parses : FinishParse(t))

FairSpec == Spec /\ Fairness

--------------------------------------------------------------------------------
(***************************************************************************)
(* Properties.                                                             *)
(***************************************************************************)

\* Nothing is under way, and the page is open.
AtRest == watching /\ ~changed /\ update = NoUpdate /\ active = {}

\* Everything has its type, and the index has each row under its id, in whatever order
\* the answers of threads, the reports of the watcher and the switches of the user come
\* in, also of mods whose details are being read (finishUpdate, setModStatus,
\* finishModParse).  There are two ways it goes wrong, and no other: a mod is given the id
\* of another row, or the details of a mod come under an id that is no row's.
IndexFits ==
  mishap # "muddled" => /\ TypeOK
                        /\ DOMAIN index = {mods[r].id : r \in DOMAIN mods}
                        /\ \A r \in DOMAIN mods : index[mods[r].id] = r

\* If no mod was switched while its details were read, nor to the id of another row, the
\* list at rest shows the folder: a row for each file, of its date, and one only, with
\* the details of that file as it is now, and not those of another mod or of a file that
\* was replaced while it was read.
ShowsFolder ==
  AtRest /\ mishap = "none" =>
    /\ {<<mods[r].id, mods[r].date>> : r \in DOMAIN mods}
          = {<<id, disk[id]>> : id \in There(disk)}
    /\ Len(mods) = Cardinality(There(disk))
    /\ \A r \in DOMAIN mods : mods[r].details = <<mods[r].id[1], disk[mods[r].id]>>

\* Once the folder and the user are quiet, a list that is open comes to rest, unless its
\* index is muddled (update, finishUpdate).
ComesToRest == []<>(~watching \/ AtRest \/ mishap = "muddled")

\* A mod that is switched is preserved, with another id (ModFolderModel.cpp:612): the
\* details that are asked for are for a row there is.  Not so: the answer to a mod that is
\* switched while its details are read comes under the old id (setModStatus,
\* finishModParse; section 5 of the README), and no run checks it.
AnswersHaveRows == \A t \in active : t[1] \in Known
================================================================================
