------------------------- MODULE InstanceList_proofs -------------------------
(***************************************************************************)
(* Proofs about module InstanceList, for any number of stagings, ids,      *)
(* groups, restarts and changes from outside: the list shows the folder    *)
(* and the group file says what the list says; nothing is overwritten      *)
(* unasked; an undisturbed staging does what it was asked to do; a commit  *)
(* shows what it brought.                                                  *)
(***************************************************************************)
EXTENDS InstanceList, WellFoundedInduction, TLAPS

\* A set of ids has a smallest one: DirNameFromString() finds a name.
LEMMA SmallestId ==
  ASSUME NEW S, S \subseteq Ids, S # {}
  PROVE  \E i \in S : \A j \in S : i <= j
<1>. DEFINE R == {ss \in Nat \X Nat : ss[1] < ss[2]}
<1>1. IsWellFoundedOn(R, Nat)
  BY NatLessThanWellFounded DEF OpToRel
<1>2. S \subseteq Nat
  BY DEF Ids
<1>3. PICK i \in S : \A j \in S : <<j, i>> \notin R
  <2>. HIDE DEF R
  <2>. QED
    BY <1>1, <1>2, WFMin
<1>4. ASSUME NEW j \in S PROVE i <= j
  <2>1. i \in Nat /\ j \in Nat /\ <<j, i>> \in Nat \X Nat /\ <<j, i>> \notin R
    BY <1>2, <1>3
  <2>2. ~(j < i)
    BY <2>1
  <2>. QED
    BY <2>1, <2>2
<1>. QED
  BY <1>4

\* A new instance gets a folder that does not exist.
LEMMA FreeIdIsFree ==
  ASSUME Present # Ids
  PROVE  FreeId \in Ids /\ FreeId \notin Present
<1>. DEFINE S == Ids \ Present
<1>1. S \subseteq Ids /\ S # {}
  BY DEF Present, In
<1>2. \E i \in S : \A j \in S : i <= j
  <2>. HIDE DEF S
  <2>. QED
    BY <1>1, SmallestId
<1>. QED
  BY <1>2 DEF FreeId

--------------------------------------------------------------------------------
(***************************************************************************)
(* The invariant.                                                          *)
(***************************************************************************)
States == {"idle", "running", "waiting", "succeeded", "failed", "lost"}
Row == [id : Ids, from : Content \ {Gone}]
TaskRecord == [state : States, of : Ids \cup {NoId}, group : Groups \cup {NoGroup},
               sleep : 1..MaxBackoff, alone : BOOLEAN]

\* What the watcher has not reported yet came from outside: the list has every
\* other instance of the folder.
ListHasOwn == up => \A i \in Present : folder[i] = Back \/ i \in Listed

\* An update that was asked for and is under way or failed.
Asked(u, i) == task[u].of = i /\ task[u].state \in {"running", "waiting", "failed"}

\* The flags are those of an update, and a staging that has the launcher to itself
\* has the flags that belong to it.
FlagsFit ==
  /\ updating => target \in Ids /\ \E u \in Stagings : Asked(u, target)
  /\ \A s \in Stagings : task[s].state = "idle" => task[s].of = NoId
  /\ \A s \in Stagings : task[s].alone /\ Busy(s) =>
       /\ \A v \in Stagings \ {s} : ~Busy(v) /\ ~(task[v].of # NoId /\ task[v].state = "failed")
       /\ task[s].of # NoId => updating /\ target = task[s].of

IInv == TypeOK /\ ListMatchesDisk /\ ListHasOwn /\ FlagsFit

\* Both need that no content stands for "no folder".
LEMMA Contents ==
  /\ Gone # Old /\ Gone # Back /\ Old # Back
  /\ Gone \notin Stagings \cup Parts /\ Old \notin Stagings \cup Parts
  /\ Back \notin Stagings \cup Parts
BY InstanceListAssumption

--------------------------------------------------------------------------------
(***************************************************************************)
(* The operators.                                                          *)
(***************************************************************************)

\* loadList() leaves one row for each folder, and no other.
LEMMA LoadListFits ==
  ASSUME rows \subseteq Row, \A q, r \in rows : q.id = r.id => q = r,
         NEW f \in [Ids -> Content], NEW g \in GroupMap,
         groupFile \in GroupMap \cup {NoFile}, LoadList(f, g)
  PROVE  /\ rows' \subseteq Row /\ known' = In(f) /\ Listed' = known'
         /\ \A q, r \in rows' : q.id = r.id => q = r
         /\ group' \in GroupMap
<1>. DEFINE kept == {r \in rows : f[r.id] # Gone /\ ~(updating /\ r.id = target)}
            new == In(f) \ {r.id : r \in kept}
            read == {[id |-> i, from |-> f[i]] : i \in new}
<1>1. rows' = kept \cup read /\ known' = In(f)
  BY DEF LoadList, ReloadedRows
<1>2. \A i \in In(f) : i \in Ids /\ f[i] \in Content \ {Gone}
  BY DEF In
<1>3. \A r \in kept : r \in rows /\ r \in Row /\ r.id \in In(f)
  BY DEF In, Row
<1>4. \A r \in read : r \in Row /\ r.id \in new
  BY <1>2 DEF Row
<1>5. Listed' = In(f)
  <2>1. \A i \in In(f) : \E r \in rows' : r.id = i
    <3>. SUFFICES ASSUME NEW i \in In(f), i \in new PROVE \E r \in rows' : r.id = i
      BY <1>1
    <3>1. [id |-> i, from |-> f[i]] \in read
      OBVIOUS
    <3>. QED
      BY <1>1, <3>1
  <2>2. \A r \in rows' : r.id \in In(f)
    BY <1>1, <1>3, <1>4
  <2>. QED
    BY <2>1, <2>2 DEF Listed
<1>6. ASSUME NEW q \in rows', NEW r \in rows', q.id = r.id PROVE q = r
  <2>1. CASE q \in kept /\ r \in kept
    BY <1>3, <1>6, <2>1
  <2>2. CASE q \in read /\ r \in read
    BY <1>6, <2>2
  <2>3. \A x \in kept : \A y \in read : x.id # y.id
    BY <1>4
  <2>. QED
    BY <1>1, <1>6, <2>1, <2>2, <2>3
<1>7. group' \in GroupMap
  BY DEF LoadList, ReadsGroups
<1>. QED
  BY <1>1, <1>3, <1>4, <1>5, <1>6, <1>7

\* saveGroupList() writes what the index says of each id of the set, or nothing.
LEMMA WriteGroupsFits ==
  ASSUME NEW g \in GroupMap, NEW k, WriteGroups(g, k),
         groupFile \in GroupMap \cup {NoFile}
  PROVE  /\ groupFile' \in GroupMap \cup {NoFile} /\ unsaved' \in BOOLEAN
         /\ ~unsaved' => /\ groupFile' # NoFile
                         /\ \A i \in Ids \cap k : groupFile'[i] = g[i]
<1>1. CASE /\ groupFile' = [i \in Ids |-> IF i \in k THEN g[i] ELSE NoGroup]
           /\ unsaved' = FALSE
  <2>1. groupFile' \in GroupMap /\ \A i \in Ids \cap k : groupFile'[i] = g[i]
    BY <1>1 DEF GroupMap
  <2>2. groupFile' # NoFile
    BY <2>1, InstanceListAssumption DEF GroupMap
  <2>. QED
    BY <1>1, <2>1, <2>2
<1>2. CASE groupFile' = groupFile /\ unsaved' = TRUE
  BY <1>2
<1>. QED
  BY <1>1, <1>2 DEF WriteGroups

\* What the list is when the program starts.
LEMMA StartedFits ==
  ASSUME NEW f \in [Ids -> Content], NEW file \in GroupMap \cup {NoFile}
  PROVE  /\ Started(f, file).rows \subseteq Row
         /\ {r.id : r \in Started(f, file).rows} = In(f)
         /\ Started(f, file).known = In(f)
         /\ \A q, r \in Started(f, file).rows : q.id = r.id => q = r
         /\ Started(f, file).group \in GroupMap
         /\ Started(f, file).groupsLoaded \in BOOLEAN
         /\ \A i \in In(f) :
              Started(f, file).group[i] = IF file = NoFile THEN NoGroup ELSE file[i]
<1>1. \A i \in In(f) : i \in Ids /\ f[i] \in Content \ {Gone}
  BY DEF In
<1>2. [i \in Ids |-> NoGroup] \in GroupMap
  BY DEF GroupMap
<1>3. \A i \in In(f) : [j \in Ids |-> NoGroup][i] = NoGroup
  BY <1>1
<1>. DEFINE R == {[id |-> i, from |-> f[i]] : i \in In(f)}
            read == In(f) # {} /\ file # NoFile
<1>4. /\ Started(f, file).rows = R /\ Started(f, file).known = In(f)
      /\ Started(f, file).group = IF read THEN file ELSE [i \in Ids |-> NoGroup]
      /\ Started(f, file).groupsLoaded = read
  BY DEF Started
<1>5. /\ R \subseteq Row /\ {r.id : r \in R} = In(f)
      /\ \A q, r \in R : q.id = r.id => q = r
  <2>1. R \subseteq Row
    BY <1>1 DEF Row
  <2>2. \A r \in R : r.id \in In(f) /\ r = [id |-> r.id, from |-> f[r.id]]
    OBVIOUS
  <2>3. \A i \in In(f) : [id |-> i, from |-> f[i]] \in R
    OBVIOUS
  <2>4. \A i \in In(f) : \E r \in R : r.id = i
    BY <2>3
  <2>5. {r.id : r \in R} = In(f)
    <3>. HIDE DEF R
    <3>. QED
      BY <2>2, <2>4
  <2>6. \A q, r \in R : q.id = r.id => q = r
    <3>. HIDE DEF R
    <3>. QED
      BY <2>2
  <2>. QED
    BY <2>1, <2>5, <2>6
<1>6. \A i \in In(f) : (IF read THEN file ELSE [j \in Ids |-> NoGroup])[i]
                         = IF file = NoFile THEN NoGroup ELSE file[i]
  BY <1>3
<1>7. (IF read THEN file ELSE [j \in Ids |-> NoGroup]) \in GroupMap
  BY <1>2
<1>. HIDE DEF R
<1>. QED
  BY <1>4, <1>5, <1>6, <1>7

LEMMA EndedFits ==
  ASSUME TypeOK, NEW s \in Stagings, NEW end \in {"succeeded", "failed", "lost"}
  PROVE  /\ Ended(s, end) \in TaskRecord /\ Ended(s, end).state = end
         /\ Ended(s, end).of = IF end = "failed" /\ updating THEN task[s].of ELSE NoId
<1>1. task[s] \in TaskRecord
  BY DEF TypeOK, TaskRecord, States
<1>2. 1 \in 1..MaxBackoff
  BY InstanceListAssumption
<1>3. task[s].of \in Ids \cup {NoId}
  BY <1>1 DEF TaskRecord
<1>. QED
  BY <1>2, <1>3 DEF Ended, NotStarted, TaskRecord, States

LEMMA UnflaggedFits ==
  ASSUME TypeOK, NEW s \in Stagings
  PROVE  /\ Unflagged(s) \in TaskRecord
         /\ Unflagged(s).state = task[s].state /\ Unflagged(s).alone = task[s].alone
         /\ ~Busy(s) => Unflagged(s).of = NoId
         /\ Busy(s) => Unflagged(s) = task[s]
<1>1. task[s] \in TaskRecord
  BY DEF TypeOK, TaskRecord, States
<1>2. [task[s] EXCEPT !.of = NoId] \in TaskRecord
  BY <1>1 DEF TaskRecord
<1>. QED
  BY <1>1, <1>2 DEF Unflagged, TaskRecord

--------------------------------------------------------------------------------
(***************************************************************************)
(* The steps.                                                              *)
(***************************************************************************)

\* What leaves stagings and flags alone.
LEMMA FlagsKept ==
  ASSUME FlagsFit, UNCHANGED <<task, flags>>
  PROVE  FlagsFit'
BY DEF FlagsFit, flags, Asked, Busy

\* A commit that succeeds, whichever branch it took.
LEMMA PublishFits ==
  ASSUME IInv, up, NEW s \in Stagings, Busy(s), NEW i \in Ids, NEW g \in GroupMap,
         NEW new \in {s, Part(s)},
         Publish(s, [folder EXCEPT ![i] = new], g), UNCHANGED <<checking, outside, restarts>>
  PROVE  IInv'
<1>. DEFINE f == [folder EXCEPT ![i] = new]
<1>1. f \in [Ids -> Content] /\ folder' = f
  <2>1. new \in Content
    BY DEF Content, Parts
  <2>. QED
    BY <2>1 DEF IInv, TypeOK, Publish
<1>. HIDE DEF f
<1>2. LoadList(f, g) /\ SaveGroups(group', known') /\ temp' = temp \ {s} /\ up' = up
      /\ updating' = FALSE /\ target' = NoId /\ task' = Committed(s)
  BY DEF Publish, f
<1>3. /\ rows' \subseteq Row /\ known' = In(f) /\ Listed' = known'
      /\ \A q, r \in rows' : q.id = r.id => q = r
      /\ group' \in GroupMap
  BY <1>1, <1>2, LoadListFits DEF IInv, TypeOK, ListMatchesDisk, Row
<1>4. /\ groupFile' \in GroupMap \cup {NoFile} /\ unsaved' \in BOOLEAN
      /\ ~unsaved' => /\ groupFile' # NoFile
                      /\ \A j \in Ids \cap known' : groupFile'[j] = group'[j]
  <2>1. WriteGroups(group', known')
    BY <1>2 DEF SaveGroups
  <2>. QED
    BY <1>3, <2>1, WriteGroupsFits DEF IInv, TypeOK
<1>5. known' \subseteq Ids /\ event' \in BOOLEAN
  BY <1>2, <1>3 DEF In, SaveGroups, WatchLock, IInv, TypeOK
<1>6. /\ task' \in [Stagings -> TaskRecord]
      /\ task'[s].state = "succeeded" /\ task'[s].of = NoId
      /\ \A u \in Stagings \ {s} : task'[u] = Unflagged(u)
  BY <1>2, EndedFits, UnflaggedFits DEF IInv, Committed
<1>7. groupsLoaded' \in BOOLEAN
  BY <1>2 DEF LoadList, ReadsGroups, IInv, TypeOK
<1>8. TypeOK'
  BY <1>1, <1>2, <1>3, <1>4, <1>5, <1>6, <1>7
     DEF IInv, TypeOK, Row, TaskRecord, States
<1>9. ListMatchesDisk'
  BY <1>3, <1>4, <1>5 DEF ListMatchesDisk
<1>10. ListHasOwn'
  BY <1>1, <1>3 DEF ListHasOwn, Present
<1>11. FlagsFit'
  <2>1. \A u \in Stagings : ~(task'[u].alone /\ Busy(u)')
    BY <1>6, UnflaggedFits DEF IInv, FlagsFit, Busy
  <2>2. \A u \in Stagings : task'[u].state = "idle" => task'[u].of = NoId
    BY <1>6, UnflaggedFits DEF IInv, FlagsFit, Busy
  <2>. QED
    BY <1>2, <2>1, <2>2 DEF FlagsFit
<1>. QED
  BY <1>8, <1>9, <1>10, <1>11 DEF IInv

\* The end of the process.
LEMMA LostFits ==
  ASSUME IInv, up' = FALSE, task' = LostTasks, Forgotten, temp' \subseteq temp,
         folder' \in [Ids -> Content], checking' = NoId,
         UNCHANGED <<groupFile, unsaved, outside, restarts>>
  PROVE  IInv'
<1>1. \A u \in Stagings : task'[u] = IF Busy(u) THEN Ended(u, "lost") ELSE Unflagged(u)
  BY DEF LostTasks
<1>2. \A u \in Stagings :
        /\ task'[u] \in TaskRecord /\ ~(task'[u].state \in {"running", "waiting"})
        /\ task'[u].state = "idle" => task'[u].of = NoId
  BY <1>1, EndedFits, UnflaggedFits DEF IInv, Busy
<1>3. task' \in [Stagings -> TaskRecord]
  BY <1>2 DEF LostTasks
<1>4. TypeOK'
  BY <1>3 DEF IInv, TypeOK, Forgotten, GroupMap, TaskRecord, States
<1>5. ListMatchesDisk' /\ ListHasOwn'
  BY DEF ListMatchesDisk, ListHasOwn, Listed, Forgotten
<1>6. FlagsFit'
  BY <1>2 DEF FlagsFit, Busy, Forgotten
<1>. QED
  BY <1>4, <1>5, <1>6 DEF IInv

LEMMA CommitFits ==
  ASSUME IInv, NEW s \in Stagings, Commit(s)
  PROVE  IInv'
<1>1. up /\ Busy(s) /\ UNCHANGED <<outside, restarts>>
  BY DEF Commit
<1>2. ASSUME NEW new \in {s, Part(s)}, updating,
             Publish(s, [folder EXCEPT ![target] = new], group)
      PROVE  IInv'
  <2>1. target \in Ids /\ group \in GroupMap
    BY <1>2 DEF IInv, FlagsFit, TypeOK
  <2>2. checking' = checking
    BY <1>1, <1>2 DEF Commit, Publish
  <2>. QED
    BY <1>1, <1>2, <2>1, <2>2, PublishFits
<1>3. CASE CrashInCommit(s)
  <2>1. folder' \in [Ids -> Content]
    BY <1>3 DEF CrashInCommit, IInv, TypeOK, Content
  <2>2. checking' = NoId
    BY <1>3 DEF CrashInCommit, Commit
  <2>. QED
    BY <1>1, <1>3, <2>1, <2>2, LostFits DEF CrashInCommit
<1>4. CASE ~updating /\ CommitNew(s)
  <2>1. FreeId \in Ids
    BY <1>4, FreeIdIsFree DEF CommitNew
  <2>2. task[s].group \in Groups \cup {NoGroup}
    BY DEF IInv, TypeOK
  <2>3. [group EXCEPT ![FreeId] = task[s].group] \in GroupMap
    BY <2>2 DEF IInv, TypeOK, GroupMap
  <2>4. checking' = checking
    BY <1>1, <1>4 DEF Commit, CommitNew, Publish
  <2>. QED
    BY <1>1, <1>4, <2>1, <2>3, <2>4, PublishFits DEF CommitNew
<1>5. CASE ~updating /\ CommitBlocked(s)
  <2>1. UNCHANGED <<up, disk, listVars, flags, checking>> /\ event' \in BOOLEAN
    BY <1>1, <1>5 DEF CommitBlocked, Commit, WatchLock, IInv, TypeOK
  <2>2. task[s] \in TaskRecord
    BY DEF IInv, TypeOK, TaskRecord, States
  <2>. DEFINE t == IF task[s].sleep = MaxBackoff THEN Ended(s, "failed")
                   ELSE [task[s] EXCEPT !.sleep = NextBackoff(task[s].sleep),
                                        !.state = "waiting"]
  <2>3. task' = [task EXCEPT ![s] = t] /\ task \in [Stagings -> TaskRecord]
    BY <1>5, Zenon DEF CommitBlocked, IInv, TypeOK, TaskRecord, States
  <2>4. NextBackoff(task[s].sleep) \in 1..MaxBackoff
    BY <2>2, InstanceListAssumption DEF NextBackoff, TaskRecord
  <2>5. /\ t \in TaskRecord /\ t.state \in {"waiting", "failed"}
        /\ t.state = "waiting" => t.alone = task[s].alone /\ t.of = task[s].of
    BY <2>2, <2>4, EndedFits DEF IInv, TaskRecord, States
  <2>. HIDE DEF t
  <2>6. task' \in [Stagings -> TaskRecord] /\ task'[s] = t
        /\ \A u \in Stagings \ {s} : task'[u] = task[u]
    BY <2>3, <2>5
  <2>7. TypeOK'
    BY <1>1, <2>1, <2>6 DEF IInv, TypeOK, TaskRecord, States, disk, listVars, flags
  <2>8. ListMatchesDisk' /\ ListHasOwn'
    BY <2>1 DEF IInv, ListMatchesDisk, ListHasOwn, Listed, Present, disk, listVars
  <2>9. FlagsFit'
    <3>1. updating' = FALSE
      <4>1. updating' = updating /\ updating \in BOOLEAN /\ ~updating
        BY <1>5, <2>1 DEF flags, IInv, TypeOK
      <4>. QED
        BY <4>1
    <3>2. \A u \in Stagings : task'[u].state = "idle" => task'[u].of = NoId
      BY <2>5, <2>6 DEF IInv, FlagsFit
    <3>3. ASSUME NEW u \in Stagings, task'[u].alone, Busy(u)'
          PROVE  u = s /\ task[s].alone /\ task[s].of = NoId
      <4>1. u = s
        <5>. SUFFICES ASSUME u # s PROVE FALSE
          OBVIOUS
        <5>1. task[u].alone /\ Busy(u)
          BY <2>6, <3>3 DEF Busy
        <5>. QED
          BY <1>1, <5>1 DEF IInv, FlagsFit
      <4>2. task[s].alone
        BY <2>5, <2>6, <3>3, <4>1 DEF Busy
      <4>. QED
        BY <1>1, <1>5, <4>1, <4>2 DEF IInv, FlagsFit
    <3>4. ASSUME NEW u \in Stagings, task'[u].alone, Busy(u)', NEW v \in Stagings \ {u}
          PROVE  ~Busy(v)' /\ ~(task'[v].of # NoId /\ task'[v].state = "failed")
      <4>1. u = s /\ task[s].alone /\ v \in Stagings \ {s}
        BY <3>3, <3>4
      <4>2. ~Busy(v) /\ ~(task[v].of # NoId /\ task[v].state = "failed")
        BY <1>1, <4>1 DEF IInv, FlagsFit
      <4>. QED
        BY <2>6, <4>1, <4>2 DEF Busy
    <3>5. \A u \in Stagings : task'[u].alone /\ Busy(u)' => task'[u].of = NoId
      BY <2>5, <2>6, <3>3 DEF Busy
    <3>. QED
      BY <3>1, <3>2, <3>4, <3>5 DEF FlagsFit
  <2>. QED
    BY <2>7, <2>8, <2>9 DEF IInv
<1>. QED
  <2>1. CASE updating
    BY <1>2, <1>3, <2>1 DEF Commit, CommitOver
  <2>2. CASE ~updating
    BY <1>4, <1>5, <2>2 DEF Commit
  <2>. QED
    BY <2>1, <2>2

\* A staging begins; if it is an update, the flags were set for it.
LEMMA BegunFits ==
  ASSUME IInv, NEW s \in Stagings, task[s].state = "idle",
         NEW of \in Ids \cup {NoId}, NEW g \in Groups \cup {NoGroup},
         task' = Begun(s, of, g),
         \/ of = NoId /\ UNCHANGED flags
         \/ of # NoId /\ updating' = TRUE /\ target' = of
  PROVE  task' \in [Stagings -> TaskRecord] /\ FlagsFit'
<1>. DEFINE clear == \A v \in Stagings :
                        ~Busy(v) /\ ~(task[v].of # NoId /\ task[v].state = "failed")
<1>1. task \in [Stagings -> TaskRecord]
  BY DEF IInv, TypeOK, TaskRecord, States
<1>2. /\ task'[s].state = "running" /\ task'[s].of = of /\ task'[s].group = g
      /\ task'[s].sleep = 1 /\ task'[s].alone = clear
      /\ task'[s] = [state |-> "running", of |-> of, group |-> g, sleep |-> 1, alone |-> clear]
  BY DEF Begun
<1>3. ASSUME NEW u \in Stagings, u # s
      PROVE  \/ Busy(u) /\ task'[u] = [task[u] EXCEPT !.alone = FALSE]
             \/ ~Busy(u) /\ task'[u] = task[u]
  BY <1>3 DEF Begun
<1>4. ASSUME NEW u \in Stagings, u # s
      PROVE  /\ task'[u] \in TaskRecord /\ task'[u].state = task[u].state
             /\ task'[u].of = task[u].of
             /\ ~(task'[u].alone /\ Busy(u))
  BY <1>1, <1>3, <1>4 DEF TaskRecord, Busy
<1>5. 1 \in 1..MaxBackoff
  BY InstanceListAssumption
<1>6. task'[s] \in TaskRecord
  <2>. HIDE DEF clear
  <2>1. clear \in BOOLEAN
    BY DEF clear
  <2>. QED
    BY <1>2, <1>5, <2>1 DEF TaskRecord, States
<1>7. task' \in [Stagings -> TaskRecord]
  BY <1>4, <1>6 DEF Begun
<1>8. updating' => target' \in Ids /\ \E u \in Stagings : Asked(u, target)'
  <2>1. CASE of = NoId
    <3>1. of = NoId /\ UNCHANGED flags
      BY <2>1
    <3>. SUFFICES ASSUME updating' PROVE target' \in Ids /\ \E u \in Stagings : Asked(u, target)'
      OBVIOUS
    <3>2. PICK u \in Stagings : Asked(u, target)
      BY <3>1 DEF flags, IInv, FlagsFit
    <3>3. u # s
      BY <3>2 DEF Asked
    <3>4. Asked(u, target)'
      BY <1>4, <3>1, <3>2, <3>3 DEF Asked, flags
    <3>. QED
      BY <3>1, <3>4 DEF flags, IInv, FlagsFit
  <2>2. CASE of # NoId
    <3>1. Asked(s, target)'
      BY <1>2, <2>2 DEF Asked
    <3>. QED
      BY <2>2, <3>1
  <2>. QED
    BY <2>1, <2>2
<1>9. \A u \in Stagings : task'[u].state = "idle" => task'[u].of = NoId
  BY <1>2, <1>4 DEF IInv, FlagsFit
<1>10. ASSUME NEW u \in Stagings, task'[u].alone, Busy(u)'
       PROVE  /\ \A v \in Stagings \ {u} : ~Busy(v)' /\ ~(task'[v].of # NoId /\ task'[v].state = "failed")
              /\ task'[u].of # NoId => updating' /\ target' = task'[u].of
  <2>1. u = s
    BY <1>4, <1>10 DEF Busy
  <2>2. clear
    BY <1>2, <1>10, <2>1
  <2>3. \A v \in Stagings \ {u} : ~Busy(v)' /\ ~(task'[v].of # NoId /\ task'[v].state = "failed")
    BY <1>4, <2>1, <2>2 DEF Busy
  <2>4. task'[u].of # NoId => updating' /\ target' = task'[u].of
    BY <1>2, <2>1
  <2>. QED
    BY <2>3, <2>4
<1>11. FlagsFit'
  BY <1>8, <1>9, <1>10 DEF FlagsFit
<1>. QED
  BY <1>7, <1>11

\* The child of a staging fails.
LEMMA ChildFailsFits ==
  ASSUME IInv, NEW s \in Stagings, ChildFails(s)
  PROVE  IInv'
<1>1. /\ UNCHANGED <<up, folder, groupFile, unsaved, listVars, event, flags, checking,
                      outside, restarts>>
      /\ temp' \subseteq temp /\ task[s].state = "running"
      /\ task' = [task EXCEPT ![s] = Ended(s, "failed")]
  BY DEF ChildFails
<1>2. /\ task' \in [Stagings -> TaskRecord]
      /\ task'[s].state = "failed" /\ (updating => task'[s].of = task[s].of)
      /\ \A u \in Stagings \ {s} : task'[u] = task[u]
  BY <1>1, EndedFits DEF IInv, TypeOK, TaskRecord, States
<1>3. TypeOK'
  BY <1>1, <1>2 DEF IInv, TypeOK, TaskRecord, States, listVars, flags
<1>4. ListMatchesDisk' /\ ListHasOwn'
  BY <1>1 DEF IInv, ListMatchesDisk, ListHasOwn, Listed, Present, listVars
<1>5. updating' => target' \in Ids /\ \E u \in Stagings : Asked(u, target)'
  <2>. SUFFICES ASSUME updating' PROVE target' \in Ids /\ \E u \in Stagings : Asked(u, target)'
    OBVIOUS
  <2>1. PICK u \in Stagings : Asked(u, target)
    BY <1>1 DEF flags, IInv, FlagsFit
  <2>2. Asked(u, target)'
    BY <1>1, <1>2, <2>1 DEF Asked, flags
  <2>. QED
    BY <1>1, <2>2 DEF flags, IInv, FlagsFit
<1>6. \A u \in Stagings : task'[u].state = "idle" => task'[u].of = NoId
  BY <1>2 DEF IInv, FlagsFit
<1>7. ASSUME NEW u \in Stagings, task'[u].alone, Busy(u)' PROVE FALSE
  <2>1. u # s
    BY <1>2, <1>7 DEF Busy
  <2>2. task[u].alone /\ Busy(u) /\ Busy(s)
    BY <1>1, <1>2, <1>7, <2>1 DEF Busy
  <2>. QED
    BY <2>1, <2>2 DEF IInv, FlagsFit
<1>8. FlagsFit'
  BY <1>5, <1>6, <1>7 DEF FlagsFit
<1>. QED
  BY <1>3, <1>4, <1>8 DEF IInv

\* The index changes, and the group file with it.
LEMMA GroupsFit ==
  ASSUME IInv, up, group' \in GroupMap, SaveGroups(group', known),
         UNCHANGED <<up, folder, temp, rows, known, groupsLoaded, flags, checking,
                     task, outside, restarts>>
  PROVE  IInv'
<1>1. /\ groupFile' \in GroupMap \cup {NoFile} /\ unsaved' \in BOOLEAN
      /\ ~unsaved' => /\ groupFile' # NoFile
                      /\ \A i \in Ids \cap known : groupFile'[i] = group'[i]
  BY WriteGroupsFits DEF IInv, TypeOK, SaveGroups
<1>2. event' \in BOOLEAN
  BY DEF SaveGroups, WatchLock, IInv, TypeOK
<1>3. TypeOK'
  BY <1>1, <1>2 DEF IInv, TypeOK, flags
<1>4. ListMatchesDisk'
  <2>1. Listed' = known /\ known \subseteq Ids
    BY DEF IInv, TypeOK, ListMatchesDisk, Listed
  <2>2. ~unsaved' => \A i \in Listed' : group'[i] = groupFile'[i]
    BY <1>1, <2>1
  <2>. QED
    BY <1>1, <2>1, <2>2 DEF IInv, ListMatchesDisk
<1>5. ListHasOwn'
  BY DEF IInv, ListHasOwn, Present, Listed
<1>6. FlagsFit'
  BY FlagsKept DEF IInv
<1>. QED
  BY <1>3, <1>4, <1>5, <1>6 DEF IInv

\* An instance is deleted, or its files refuse to go.
LEMMA DeleteInstanceFits ==
  ASSUME IInv, NEW i \in Ids, DeleteInstance(i)
  PROVE  IInv'
<1>1. /\ up /\ UNCHANGED <<up, temp, rows, known, groupsLoaded, flags, checking, task, outside, restarts>>
      /\ group' = [group EXCEPT ![i] = NoGroup] /\ group' \in GroupMap
      /\ group \in GroupMap /\ event' \in BOOLEAN /\ i \in Listed
  BY DEF DeleteInstance, UserIsFree, WatchLock, IInv, TypeOK, GroupMap
<1>2. folder' \in [Ids -> Content] /\ (folder' = folder \/ folder' = [folder EXCEPT ![i] = Gone])
  BY DEF DeleteInstance, IInv, TypeOK, Content
<1>3. Present' \subseteq Present /\ \A j \in Present' : folder'[j] = folder[j]
  BY <1>2 DEF Present, In, IInv, TypeOK
<1>4. Listed' = known /\ Listed = known /\ known \subseteq Ids
  BY <1>1 DEF IInv, TypeOK, ListMatchesDisk, Listed
<1>5. CASE group[i] = NoGroup
  <2>1. group' = group /\ groupFile' = groupFile /\ unsaved' = unsaved
    BY <1>1, <1>5 DEF DeleteInstance, GroupMap
  <2>2. TypeOK'
    BY <1>1, <1>2, <2>1 DEF IInv, TypeOK, flags
  <2>3. ListMatchesDisk'
    BY <1>1, <1>3, <1>4, <2>1 DEF IInv, ListMatchesDisk
  <2>. QED
    BY <1>1, <1>3, <1>4, <2>2, <2>3, FlagsKept DEF IInv, ListHasOwn
<1>6. CASE group[i] # NoGroup
  <2>1. WriteGroups(group', known)
    BY <1>6 DEF DeleteInstance
  <2>2. /\ groupFile' \in GroupMap \cup {NoFile} /\ unsaved' \in BOOLEAN
        /\ ~unsaved' => /\ groupFile' # NoFile
                        /\ \A j \in Ids \cap known : groupFile'[j] = group'[j]
    BY <1>1, <2>1, WriteGroupsFits DEF IInv, TypeOK
  <2>3. TypeOK'
    BY <1>1, <1>2, <2>2 DEF IInv, TypeOK, flags
  <2>4. ListMatchesDisk'
    BY <1>1, <1>4, <2>2 DEF IInv, ListMatchesDisk
  <2>. QED
    BY <1>1, <1>3, <1>4, <2>3, <2>4, FlagsKept DEF IInv, ListHasOwn
<1>. QED
  BY <1>5, <1>6

\* What changes neither folder nor list.
LEMMA ListKept ==
  ASSUME ListMatchesDisk, ListHasOwn, UNCHANGED <<up, folder, groupFile, unsaved, listVars>>
  PROVE  ListMatchesDisk' /\ ListHasOwn'
BY DEF ListMatchesDisk, ListHasOwn, Listed, Present, listVars

\* The watcher reports: the instances it did not know come from outside.
LEMMA FolderReportedFits ==
  ASSUME IInv, FolderReported
  PROVE  IInv'
<1>1. /\ up /\ LoadList(folder, group) /\ event' = FALSE
      /\ UNCHANGED <<up, disk, flags, checking, task, outside, restarts>>
  BY DEF FolderReported
<1>2. folder \in [Ids -> Content] /\ group \in GroupMap /\ groupFile \in GroupMap \cup {NoFile}
  BY DEF IInv, TypeOK
<1>3. /\ rows' \subseteq Row /\ known' = Present /\ Listed' = known'
      /\ \A q, r \in rows' : q.id = r.id => q = r
      /\ group' \in GroupMap
  BY <1>1, <1>2, LoadListFits DEF IInv, TypeOK, ListMatchesDisk, Row, Present
<1>4. groupsLoaded' \in BOOLEAN /\ known' \subseteq Ids
  BY <1>1, <1>3 DEF LoadList, ReadsGroups, IInv, TypeOK, Present, In
<1>5. TypeOK'
  BY <1>1, <1>3, <1>4 DEF IInv, TypeOK, Row, disk, flags
<1>6. ASSUME NEW i \in Present, folder[i] # Back, ~unsaved
      PROVE  group'[i] = IF groupFile = NoFile THEN NoGroup ELSE groupFile[i]
  <2>1. CASE ReadsGroups(folder)
    BY <1>1, <2>1 DEF LoadList, ReadsGroups
  <2>2. CASE ~ReadsGroups(folder)
    <3>1. group' = group
      BY <1>1, <2>2 DEF LoadList
    <3>2. i \in Listed \cap Present
      BY <1>1, <1>6 DEF IInv, ListHasOwn
    <3>. QED
      BY <1>1, <1>6, <3>1, <3>2 DEF IInv, ListMatchesDisk
  <2>. QED
    BY <2>1, <2>2
<1>7. ListMatchesDisk' /\ ListHasOwn'
  BY <1>1, <1>3, <1>6 DEF ListMatchesDisk, ListHasOwn, Present, disk
<1>8. FlagsFit'
  BY <1>1, FlagsKept DEF IInv
<1>. QED
  BY <1>5, <1>7, <1>8 DEF IInv

\* Another program takes a folder away or puts one there.
LEMMA OutsideFits ==
  ASSUME IInv, NEW i \in Ids, FolderRemoved(i) \/ FolderPutBack(i)
  PROVE  IInv'
<1>1. /\ UNCHANGED <<up, temp, groupFile, unsaved, listVars, flags, checking, task, restarts>>
      /\ event' = up /\ outside' = outside + 1 /\ outside < MaxOutside
      /\ folder' = [folder EXCEPT ![i] = Gone] \/ folder' = [folder EXCEPT ![i] = Back]
  BY DEF FolderRemoved, FolderPutBack
<1>2. outside' \in 0..MaxOutside
  BY <1>1, InstanceListAssumption DEF IInv, TypeOK
<1>3. folder' \in [Ids -> Content]
  BY <1>1 DEF IInv, TypeOK, Content
<1>4. TypeOK'
  BY <1>1, <1>2, <1>3 DEF IInv, TypeOK, listVars, flags
<1>5. \A j \in Present' : folder'[j] = Back \/ (j \in Present /\ folder'[j] = folder[j])
  BY <1>1 DEF Present, In, IInv, TypeOK
<1>6. ListMatchesDisk' /\ ListHasOwn'
  BY <1>1, <1>5 DEF IInv, ListMatchesDisk, ListHasOwn, Listed, listVars
<1>7. FlagsFit'
  BY <1>1, FlagsKept DEF IInv
<1>. QED
  BY <1>4, <1>6, <1>7 DEF IInv

LEMMA StartsFits ==
  ASSUME IInv, Starts
  PROVE  IInv'
<1>1. /\ UNCHANGED <<folder, temp, groupFile, event, flags, checking, task, outside>>
      /\ unsaved' = FALSE
      /\ up' = TRUE /\ restarts' = restarts + 1 /\ restarts < MaxRestarts
      /\ rows' = Started(folder, groupFile).rows
      /\ known' = Started(folder, groupFile).known
      /\ group' = Started(folder, groupFile).group
      /\ groupsLoaded' = Started(folder, groupFile).groupsLoaded
  BY DEF Starts
<1>2. folder \in [Ids -> Content] /\ groupFile \in GroupMap \cup {NoFile}
  BY DEF IInv, TypeOK
<1>3. restarts' \in 0..MaxRestarts
  BY <1>1, InstanceListAssumption DEF IInv, TypeOK
<1>4. /\ rows' \subseteq Row /\ Listed' = Present /\ known' = Present
      /\ \A q, r \in rows' : q.id = r.id => q = r
      /\ group' \in GroupMap /\ groupsLoaded' \in BOOLEAN
      /\ \A i \in Present : group'[i] = IF groupFile = NoFile THEN NoGroup ELSE groupFile[i]
  BY <1>1, <1>2, StartedFits DEF Listed, Present
<1>5. known' \subseteq Ids
  BY <1>4 DEF Present, In
<1>6. TypeOK'
  BY <1>1, <1>3, <1>4, <1>5 DEF IInv, TypeOK, Row, flags
<1>7. ListMatchesDisk' /\ ListHasOwn'
  BY <1>1, <1>4 DEF ListMatchesDisk, ListHasOwn, Present
<1>8. FlagsFit'
  BY <1>1, FlagsKept DEF IInv
<1>. QED
  BY <1>6, <1>7, <1>8 DEF IInv

LEMMA InitFits ==
  ASSUME Init
  PROVE  IInv
<1>1. /\ folder \in [Ids -> Content] /\ groupFile \in GroupMap \cup {NoFile}
      /\ rows = Started(folder, groupFile).rows
      /\ known = Started(folder, groupFile).known
      /\ group = Started(folder, groupFile).group
      /\ groupsLoaded = Started(folder, groupFile).groupsLoaded
  BY DEF Init, Content
<1>2. /\ rows \subseteq Row /\ Listed = Present /\ known = Present
      /\ \A q, r \in rows : q.id = r.id => q = r
      /\ group \in GroupMap /\ groupsLoaded \in BOOLEAN
      /\ \A i \in Present : group[i] = IF groupFile = NoFile THEN NoGroup ELSE groupFile[i]
  BY <1>1, StartedFits DEF Listed, Present
<1>3. known \subseteq Ids
  BY <1>2 DEF Present, In
<1>4. 1 \in 1..MaxBackoff /\ 0 \in 0..MaxOutside /\ 0 \in 0..MaxRestarts
  BY InstanceListAssumption
<1>5. task \in [Stagings -> TaskRecord] /\ \A u \in Stagings : task[u] = NotStarted
  BY <1>4 DEF Init, NotStarted, TaskRecord, States
<1>6. TypeOK
  BY <1>1, <1>2, <1>3, <1>4, <1>5 DEF Init, TypeOK, Row, TaskRecord, States
<1>7. ListMatchesDisk /\ ListHasOwn
  BY <1>2 DEF ListMatchesDisk, ListHasOwn
<1>8. FlagsFit
  BY <1>5 DEF Init, FlagsFit, Busy, NotStarted
<1>. QED
  BY <1>6, <1>7, <1>8 DEF IInv

\* The invariant is inductive.
LEMMA StepFits ==
  ASSUME IInv, [Next]_vars
  PROVE  IInv'
<1>1. CASE FolderReported
  BY <1>1, FolderReportedFits
<1>2. ASSUME NEW i \in Ids, NEW g \in Groups \cup {NoGroup}, SetInstanceGroup(i, g)
      PROVE  IInv'
  <2>1. group' \in GroupMap
    BY <1>2 DEF SetInstanceGroup, IInv, TypeOK, GroupMap
  <2>. QED
    BY <1>2, <2>1, GroupsFit DEF SetInstanceGroup, UserIsFree
<1>3. ASSUME NEW i \in Ids, DeleteInstance(i)
      PROVE  IInv'
  BY <1>3, DeleteInstanceFits
<1>4. ASSUME NEW i \in Ids, CheckForUpdate(i)
      PROVE  IInv'
  <2>1. /\ UNCHANGED <<up, disk, listVars, event, flags, task, outside, restarts>>
        /\ checking' \in Ids
    BY <1>4 DEF CheckForUpdate
  <2>2. TypeOK'
    BY <2>1 DEF IInv, TypeOK, disk, listVars, flags
  <2>. QED
    BY <2>1, <2>2, FlagsKept, ListKept DEF IInv, disk
<1>5. ASSUME NEW i \in Ids, FolderRemoved(i) \/ FolderPutBack(i)
      PROVE  IInv'
  BY <1>5, OutsideFits
<1>6. ASSUME NEW g \in Groups, DeleteGroup(g)
      PROVE  IInv'
  <2>1. group' \in GroupMap
    BY <1>6 DEF DeleteGroup, IInv, TypeOK, GroupMap
  <2>. QED
    BY <1>6, <2>1, GroupsFit DEF DeleteGroup, UserIsFree
<1>7. CASE GroupCollapsed
  <2>1. /\ up /\ group' = group /\ SaveGroups(group, known)
        /\ UNCHANGED <<up, folder, temp, rows, known, groupsLoaded, flags, checking,
                       task, outside, restarts>>
    BY <1>7 DEF GroupCollapsed, UserIsFree, listVars
  <2>2. group' \in GroupMap /\ SaveGroups(group', known)
    BY <2>1 DEF IInv, TypeOK
  <2>. QED
    BY <2>1, <2>2, GroupsFit
<1>8. CASE NoUpdate
  <2>1. /\ UNCHANGED <<up, disk, listVars, event, flags, task, outside, restarts>>
        /\ checking' = NoId
    BY <1>8 DEF NoUpdate
  <2>2. TypeOK'
    BY <2>1 DEF IInv, TypeOK, disk, listVars, flags
  <2>. QED
    BY <2>1, <2>2, FlagsKept, ListKept DEF IInv, disk
<1>9. ASSUME NEW s \in Stagings, NEW g \in Groups \cup {NoGroup}, Create(s, g)
      PROVE  IInv'
  <2>1. /\ UNCHANGED <<up, folder, groupFile, unsaved, listVars, event, flags, checking,
                       outside, restarts>>
        /\ temp' = temp \cup {s} /\ task' = Begun(s, NoId, g) /\ task[s].state = "idle"
    BY <1>9 DEF Create
  <2>2. task' \in [Stagings -> TaskRecord] /\ FlagsFit'
    BY <1>9, <2>1, BegunFits
  <2>3. TypeOK'
    BY <2>1, <2>2 DEF IInv, TypeOK, listVars, flags, TaskRecord, States
  <2>. QED
    BY <2>1, <2>2, <2>3, ListKept DEF IInv
<1>10. ASSUME NEW s \in Stagings, Update(s)
      PROVE  IInv'
  <2>1. /\ UNCHANGED <<up, folder, groupFile, unsaved, listVars, event, outside, restarts>>
        /\ checking # NoId /\ checking \in Ids \cup {NoId} /\ checking' = NoId
        /\ updating' = TRUE /\ target' = checking
        /\ temp' = temp \cup {s} /\ task' = Begun(s, checking, NoGroup)
        /\ task[s].state = "idle"
    BY <1>10 DEF Update, IInv, TypeOK
  <2>2. task' \in [Stagings -> TaskRecord] /\ FlagsFit'
    BY <2>1, BegunFits
  <2>3. TypeOK'
    BY <2>1, <2>2 DEF IInv, TypeOK, listVars, TaskRecord, States
  <2>. QED
    BY <2>1, <2>2, <2>3, ListKept DEF IInv
<1>11. ASSUME NEW s \in Stagings, ChildFails(s)
       PROVE  IInv'
  BY <1>11, ChildFailsFits
<1>12. ASSUME NEW s \in Stagings, Commit(s)
       PROVE  IInv'
  BY <1>12, CommitFits
<1>13. CASE Stops
  <2>1. folder' \in [Ids -> Content]
    BY <1>13 DEF Stops, disk, IInv, TypeOK
  <2>. QED
    BY <1>13, <2>1, LostFits DEF Stops, disk
<1>14. CASE Starts
  BY <1>14, StartsFits
<1>15. CASE UNCHANGED vars
  <2>1. TypeOK'
    BY <1>15 DEF IInv, TypeOK, vars, disk, listVars, flags
  <2>. QED
    BY <1>15, <2>1, FlagsKept, ListKept DEF IInv, vars, disk
<1>. QED
  BY <1>1, <1>2, <1>3, <1>4, <1>5, <1>6, <1>7, <1>8, <1>9, <1>10, <1>11, <1>12,
     <1>13, <1>14, <1>15 DEF Next

--------------------------------------------------------------------------------
(***************************************************************************)
(* The theorems.                                                           *)
(***************************************************************************)
LEMMA InvariantHolds == Spec => []IInv
<1>1. Init => IInv
  BY InitFits
<1>2. IInv /\ [Next]_vars => IInv'
  BY StepFits
<1>. QED
  BY <1>1, <1>2, PTL DEF Spec

\* Every variable of the instance list and of its stagings keeps its type.
THEOREM TypeCorrect == Spec => []TypeOK
<1>1. IInv => TypeOK
  BY DEF IInv
<1>. QED
  BY <1>1, InvariantHolds, PTL

\* The rows of the list are the instances the last look found, and the group
\* file says of each what the list says.
THEOREM ListShowsFolder == Spec => []ListMatchesDisk
<1>1. IInv => ListMatchesDisk
  BY DEF IInv
<1>. QED
  BY <1>1, InvariantHolds, PTL

--------------------------------------------------------------------------------
(***************************************************************************)
(* What a step may do to the folder.                                       *)
(***************************************************************************)

\* Nothing is committed, and no commit ends the process.
Quiet ==
  /\ \A s \in Stagings : Busy(s) => task'[s].state # "succeeded"
  /\ \A i \in Ids : folder'[i] \in Stagings \cup Parts => folder'[i] = folder[i]
  /\ up /\ ~up' => UNCHANGED folder

\* Staging s takes the place of instance i: of the target of the update that is
\* going on, of which it may leave a part, or of nothing.
Placed(s, i) ==
  /\ \E new \in {s, Part(s)}, g \in GroupMap :
       /\ Publish(s, [folder EXCEPT ![i] = new], g)
       /\ updating \/ new = s
  /\ IF updating THEN i = target ELSE folder[i] = Gone

LEMMA KeptIsQuiet ==
  ASSUME TypeOK, UNCHANGED folder,
         \A s \in Stagings : task'[s].state # "succeeded" \/ task'[s] = task[s]
  PROVE  Quiet
BY DEF Quiet, Busy

LEMMA BegunIsQuiet ==
  ASSUME TypeOK, NEW s \in Stagings, NEW of, NEW g, task' = Begun(s, of, g),
         UNCHANGED folder
  PROVE  Quiet
<1>1. ASSUME NEW u \in Stagings, Busy(u) PROVE task'[u].state # "succeeded"
  <2>1. CASE u = s
    BY <2>1 DEF Begun
  <2>2. CASE u # s
    <3>1. task'[u] = [task[u] EXCEPT !.alone = FALSE]
      BY <1>1, <2>2 DEF Begun
    <3>2. task[u] \in TaskRecord
      BY DEF TypeOK, TaskRecord, States
    <3>. QED
      BY <1>1, <3>1, <3>2 DEF TaskRecord, Busy
  <2>. QED
    BY <2>1, <2>2
<1>. QED
  BY <1>1 DEF Quiet

LEMMA EndOfTasks ==
  ASSUME TypeOK, task' = LostTasks, NEW s \in Stagings, Busy(s)
  PROVE  task'[s].state # "succeeded"
<1>1. task'[s] = Ended(s, "lost")
  BY DEF LostTasks
<1>. QED
  BY <1>1, EndedFits

\* A commit that ends the process.
Crashes(s) == updating /\ CrashInCommit(s)

\* Only a commit that succeeds brings anything into the folder.
LEMMA OnlyCommits ==
  ASSUME IInv, [Next]_vars
  PROVE  \/ Quiet
         \/ \E s \in Stagings : Crashes(s)
         \/ \E s \in Stagings : \E i \in Ids : Placed(s, i)
<1>. TypeOK
  BY DEF IInv
<1>1. CASE FolderReported \/ Starts \/ NoUpdate \/ GroupCollapsed \/ UNCHANGED vars
  BY <1>1, KeptIsQuiet DEF FolderReported, Starts, NoUpdate, GroupCollapsed, vars, disk
<1>2. ASSUME NEW i \in Ids,
             \/ \E g \in Groups \cup {NoGroup} : SetInstanceGroup(i, g)
             \/ CheckForUpdate(i)
      PROVE  Quiet
  BY <1>2, KeptIsQuiet DEF SetInstanceGroup, CheckForUpdate, disk
<1>3. ASSUME NEW i \in Ids, DeleteInstance(i) \/ FolderRemoved(i) \/ FolderPutBack(i)
      PROVE  Quiet
  <2>1. /\ UNCHANGED <<up, task>>
        /\ \/ folder' = [folder EXCEPT ![i] = Gone]
           \/ folder' = [folder EXCEPT ![i] = Back]
           \/ folder' = folder
    BY <1>3 DEF DeleteInstance, FolderRemoved, FolderPutBack
  <2>. QED
    BY <2>1, Contents DEF Quiet, Busy, TypeOK
<1>4. ASSUME NEW g \in Groups, DeleteGroup(g)
      PROVE  Quiet
  BY <1>4, KeptIsQuiet DEF DeleteGroup
<1>5. ASSUME NEW s \in Stagings,
             \/ \E g \in Groups \cup {NoGroup} : Create(s, g)
             \/ Update(s)
      PROVE  Quiet
  BY <1>5, BegunIsQuiet DEF Create, Update
<1>6. ASSUME NEW s \in Stagings, ChildFails(s)
      PROVE  Quiet
  <2>1. \A u \in Stagings : task'[u] = Ended(s, "failed") \/ task'[u] = task[u]
    BY <1>6 DEF ChildFails, TypeOK
  <2>. QED
    BY <1>6, <2>1, EndedFits, KeptIsQuiet DEF ChildFails
<1>7. ASSUME NEW s \in Stagings, Commit(s)
      PROVE  Quiet \/ Crashes(s) \/ \E i \in Ids : Placed(s, i)
  <2>1. ASSUME NEW new \in {s, Part(s)}, updating,
               Publish(s, [folder EXCEPT ![target] = new], group)
        PROVE  \E i \in Ids : Placed(s, i)
    <3>1. target \in Ids /\ group \in GroupMap
      BY <2>1 DEF IInv, FlagsFit, TypeOK
    <3>. QED
      BY <2>1, <3>1 DEF Placed
  <2>2. CASE updating /\ CrashInCommit(s)
    BY <2>2 DEF Crashes
  <2>3. CASE ~updating /\ CommitNew(s)
    <3>1. FreeId \in Ids /\ FreeId \notin Present
      BY <2>3, FreeIdIsFree DEF CommitNew
    <3>2. folder[FreeId] = Gone
      BY <3>1 DEF Present, In
    <3>3. [group EXCEPT ![FreeId] = task[s].group] \in GroupMap
      <4>1. task[s].group \in Groups \cup {NoGroup}
        BY DEF TypeOK
      <4>. QED
        BY <4>1 DEF TypeOK, GroupMap
    <3>. QED
      BY <2>3, <3>1, <3>2, <3>3 DEF Placed, CommitNew
  <2>4. CASE CommitBlocked(s)
    <3>1. task[s] \in TaskRecord
      BY DEF TypeOK, TaskRecord, States
    <3>2. [task[s] EXCEPT !.sleep = NextBackoff(task[s].sleep), !.state = "waiting"].state
            = "waiting"
      BY <3>1 DEF TaskRecord
    <3>3. \A u \in Stagings : task'[u].state # "succeeded" \/ task'[u] = task[u]
      BY <2>4, <3>2, EndedFits DEF CommitBlocked, TypeOK
    <3>. QED
      BY <2>4, <3>3, KeptIsQuiet DEF CommitBlocked, disk
  <2>. QED
    BY <1>7, <2>1, <2>2, <2>3, <2>4 DEF Commit, CommitOver
<1>8. CASE Stops
  BY <1>8, EndOfTasks DEF Stops, disk, Quiet
<1>. QED
  BY <1>1, <1>2, <1>3, <1>4, <1>5, <1>6, <1>7, <1>8 DEF Next

\* A staging that was busy and has succeeded is the one that was committed.
LEMMA PlacedIsOwn ==
  ASSUME TypeOK, NEW s \in Stagings, NEW i \in Ids, Placed(s, i),
         NEW u \in Stagings, Busy(u), task'[u].state = "succeeded"
  PROVE  u = s
<1>1. u # s => task'[u] = Unflagged(u)
  BY DEF Placed, Publish, Committed
<1>. QED
  BY <1>1, UnflaggedFits DEF Busy

LEMMA AskedBeforeOverwritten ==
  ASSUME IInv, [Next]_vars, NEW i \in Ids, folder[i] # Gone, folder'[i] # folder[i],
         folder'[i] \in Stagings \cup Parts \/ (up /\ ~up')
  PROVE  \E u \in Stagings : task[u].of = i /\ (Busy(u) \/ task[u].state = "failed")
<1>1. updating /\ i = target
  <2>1. ASSUME NEW s \in Stagings, NEW j \in Ids, Placed(s, j) PROVE updating /\ i = target
    <3>1. \A k \in Ids \ {j} : folder'[k] = folder[k]
      BY <2>1 DEF Placed, Publish, IInv, TypeOK
    <3>. QED
      BY <2>1, <3>1 DEF Placed
  <2>2. ASSUME NEW s \in Stagings, Crashes(s) PROVE updating /\ i = target
    BY <2>2 DEF Crashes, CrashInCommit, IInv, TypeOK
  <2>3. ~Quiet
    BY DEF Quiet
  <2>. QED
    BY <2>1, <2>2, <2>3, OnlyCommits
<1>2. PICK u \in Stagings : Asked(u, target)
  BY <1>1 DEF IInv, FlagsFit
<1>. QED
  BY <1>1, <1>2 DEF Asked, Busy

\* A staging that succeeds was placed.
LEMMA SucceededIsPlaced ==
  ASSUME IInv, [Next]_vars, NEW s \in Stagings, Busy(s), task'[s].state = "succeeded"
  PROVE  \E i \in Ids : Placed(s, i)
<1>1. ~Quiet
  BY DEF Quiet
<1>2. ASSUME NEW v \in Stagings, Crashes(v) PROVE FALSE
  BY <1>2, EndOfTasks DEF Crashes, CrashInCommit, IInv
<1>3. PICK v \in Stagings : \E j \in Ids : Placed(v, j)
  BY <1>1, <1>2, OnlyCommits
<1>. QED
  BY <1>3, PlacedIsOwn DEF IInv

LEMMA UndisturbedCommit ==
  ASSUME IInv, [Next]_vars, NEW s \in Stagings, task[s].alone, Busy(s),
         task'[s].state = "succeeded"
  PROVE  \E i \in Ids :
           /\ \A j \in Ids \ {i} : folder'[j] = folder[j]
           /\ IF task[s].of = NoId THEN folder[i] = Gone /\ folder'[i] = s
              ELSE i = task[s].of /\ folder'[i] \in {s, Part(s)}
<1>2. PICK i \in Ids : Placed(s, i)
  BY SucceededIsPlaced
<1>4. /\ \A j \in Ids \ {i} : folder'[j] = folder[j]
      /\ folder'[i] \in {s, Part(s)} /\ (~updating => folder'[i] = s)
  BY <1>2 DEF Placed, Publish, IInv, TypeOK
<1>5. CASE task[s].of # NoId
  <2>1. updating /\ target = task[s].of
    BY <1>5 DEF IInv, FlagsFit
  <2>. QED
    BY <1>2, <1>4, <1>5, <2>1 DEF Placed
<1>6. CASE task[s].of = NoId
  <2>1. ~updating
    <3>. SUFFICES ASSUME updating PROVE FALSE
      OBVIOUS
    <3>1. PICK u \in Stagings : Asked(u, target)
      BY DEF IInv, FlagsFit
    <3>2. target \in Ids /\ NoId \notin Ids
      BY InstanceListAssumption DEF IInv, FlagsFit
    <3>3. u # s /\ task[u].of # NoId
      BY <1>6, <3>1, <3>2 DEF Asked
    <3>4. ~Busy(u) /\ ~(task[u].of # NoId /\ task[u].state = "failed")
      BY <3>3 DEF IInv, FlagsFit
    <3>. QED
      BY <3>1, <3>3, <3>4 DEF Asked, Busy
  <2>. QED
    BY <1>2, <1>4, <1>6, <2>1 DEF Placed
<1>. QED
  BY <1>5, <1>6

LEMMA CommitIsShown ==
  ASSUME IInv, [Next]_vars, NEW s \in Stagings, Busy(s), task'[s].state = "succeeded",
         Listed \subseteq Present
  PROVE  \E r \in rows' : r.from \in {s, Part(s)} /\ folder'[r.id] = r.from
<1>2. PICK i \in Ids : Placed(s, i)
  BY SucceededIsPlaced
<1>3. PICK new \in {s, Part(s)} : \E g \in GroupMap : Publish(s, [folder EXCEPT ![i] = new], g)
  BY <1>2 DEF Placed
<1>. DEFINE f == [folder EXCEPT ![i] = new]
            kept == {r \in rows : f[r.id] # Gone /\ ~(updating /\ r.id = target)}
<1>4. folder' = f /\ rows' = ReloadedRows(f)
  BY <1>3 DEF Publish, LoadList
<1>5. f[i] = new /\ i \in In(f)
  BY Contents DEF In, IInv, TypeOK, Parts
<1>6. \A r \in kept : r.id # i
  <2>1. CASE updating
    BY <1>2, <2>1 DEF Placed
  <2>2. CASE ~updating
    <3>1. i \notin Present
      BY <1>2, <2>2 DEF Placed, Present, In
    <3>2. \A r \in rows : r.id \in Listed
      BY DEF Listed
    <3>. QED
      BY <3>1, <3>2
  <2>. QED
    BY <2>1, <2>2
<1>7. [id |-> i, from |-> f[i]] \in rows'
  BY <1>4, <1>5, <1>6 DEF ReloadedRows
<1>. QED
  BY <1>4, <1>5, <1>7

\* A commit overwrites an instance, or the process ends in it, only while an update of
\* that instance is under way or one that failed has left its flags behind; whose the
\* commit is, is not said.
THEOREM NothingOverwrittenUnasked == Spec => OverwrittenOnlyWhenAsked
<1>1. IInv /\ [Next]_vars =>
        [\A i \in Ids :
           /\ folder[i] # Gone /\ folder'[i] # folder[i]
           /\ folder'[i] \in Stagings \cup Parts \/ (up /\ ~up')
           => \E u \in Stagings : /\ task[u].of = i
                                  /\ Busy(u) \/ task[u].state = "failed"]_vars
  BY AskedBeforeOverwritten
<1>. QED
  BY <1>1, InvariantHolds, PTL DEF Spec, OverwrittenOnlyWhenAsked

\* A staging that had the launcher to itself commits where it was asked to; a new
\* instance is whole, of an update there may be a part.
THEOREM UndisturbedIsRight == Spec => UndisturbedHitsTarget
<1>1. IInv /\ [Next]_vars =>
        [\A s \in Stagings :
           (task[s].alone /\ Busy(s) /\ task'[s].state = "succeeded")
             => \E i \in Ids :
                  /\ \A j \in Ids \ {i} : folder'[j] = folder[j]
                  /\ IF task[s].of = NoId THEN folder[i] = Gone /\ folder'[i] = s
                     ELSE i = task[s].of /\ folder'[i] \in {s, Part(s)}]_vars
  BY UndisturbedCommit
<1>. QED
  BY <1>1, InvariantHolds, PTL DEF Spec, UndisturbedHitsTarget

\* What a commit brought, be it a part, is in the list when the commit ends.
THEOREM CommitIsInList == Spec => CommitShowsResult
<1>1. IInv /\ [Next]_vars =>
        [\A s \in Stagings :
           (Busy(s) /\ task'[s].state = "succeeded" /\ Listed \subseteq Present)
             => \E r \in rows' : r.from \in {s, Part(s)} /\ folder'[r.id] = r.from]_vars
  BY CommitIsShown
<1>. QED
  BY <1>1, InvariantHolds, PTL DEF Spec, CommitShowsResult
=============================================================================
