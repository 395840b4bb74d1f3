----------------------------- MODULE Components -----------------------------
(***************************************************************************)
(* The data a component list is made of (launcher/minecraft/Component.cpp) *)
(* and the pure part of the dependency resolver                            *)
(* (launcher/minecraft/ComponentUpdateTask.cpp).                           *)
(*                                                                         *)
(* A uid names a component ("net.minecraft", "org.lwjgl"); uids are        *)
(* numbers because the resolver walks std::set<RequireEx>, which is sorted *)
(* by uid.  A version is a number as well: only equality and, for          *)
(* "suggests", the order of versions matter.  NoVersion is the empty       *)
(* string.  A version file (meta data or a custom patch) is reduced to the *)
(* fields the resolver reads.                                              *)
(***************************************************************************)
EXTENDS Integers, FiniteSets, Sequences, SequencesExt, FiniteSetsExt

CONSTANTS
  Uids,             \* the component ids
  Versions,         \* the non-empty version names
  NoFile,           \* a null VersionFilePtr
  Metadata,         \* the published meta files: a function on uid-version pairs
  Minecraft,        \* the uid "net.minecraft"
  DefaultVersion,   \* hard-coded version of a dependency nobody suggests one for
  FollowsMinecraft  \* mapping uids that take the version of Minecraft

NoVersion == 0
NoMeta == -1                 \* a null m_metaVersion

AnyVersion == Versions \cup {NoVersion}
Published == DOMAIN Metadata

Require == [equals : AnyVersion, suggests : AnyVersion]
Requires == UNION {[U -> Require] : U \in SUBSET Uids}
NoRequires == [u \in {} |-> [equals |-> NoVersion, suggests |-> NoVersion]]
VersionFile == [version : AnyVersion, requires : Requires, volatile : BOOLEAN]

ASSUME ComponentsAssumption ==
  /\ Uids \subseteq Nat /\ IsFiniteSet(Uids)
  /\ Versions \subseteq Nat \ {NoVersion} /\ Versions # {}
  /\ Published \subseteq Uids \X Versions
  /\ \A e \in Published : /\ Metadata[e] \in VersionFile
                          /\ Metadata[e].version = e[2]
  /\ NoFile \notin VersionFile
  /\ Minecraft \in Uids
  /\ DefaultVersion \in [Uids -> AnyVersion]
  /\ FollowsMinecraft \subseteq Uids

(***************************************************************************)
(* A component: the persistent properties, then the load state.            *)
(***************************************************************************)
Component ==
  [uid : Uids, version : AnyVersion, dependencyOnly : BOOLEAN,
   important : BOOLEAN, disabled : BOOLEAN,
   cachedVersion : AnyVersion, requires : Requires, volatile : BOOLEAN,
   metaVersion : AnyVersion \cup {NoMeta}, file : VersionFile \cup {NoFile},
   loaded : BOOLEAN]

NewComponent(u, v, dep, imp) ==
  [uid |-> u, version |-> v, dependencyOnly |-> dep, important |-> imp,
   disabled |-> FALSE, cachedVersion |-> NoVersion, requires |-> NoRequires,
   volatile |-> FALSE, metaVersion |-> NoMeta, file |-> NoFile,
   loaded |-> FALSE]

\* Component(parent, uid, file), and the file installEmpty or a jar mod writes; one
\* that was cut short is read as a file without a version (createErrorVersionFile).
EmptyFile(v) == [version |-> v, requires |-> NoRequires, volatile |-> FALSE]
Truncated == EmptyFile(NoVersion)
FileComponent(u, f) ==
  [NewComponent(u, NoVersion, FALSE, FALSE) EXCEPT
     !.cachedVersion = f.version, !.file = f, !.loaded = TRUE]

IsCustom(c) == c.file # NoFile
IsRemovable(c) == ~c.important
CanBeDisabled(c) == IsRemovable(c) /\ ~c.dependencyOnly
IsEnabled(c) == ~CanBeDisabled(c) \/ ~c.disabled
HasUid(u) == \E e \in Published : e[1] = u
IsRevertible(c) == IsCustom(c) /\ HasUid(c.uid)

SetEnabled(c, state) ==
  [c EXCEPT !.disabled = CanBeDisabled(c) /\ ~state]

Entity(c) == <<c.uid, c.metaVersion>>

\* getVersionFile: the meta version's data wins over the custom file.  ready is
\* the set of meta entities that are loaded.
FileOf(c, ready) ==
  IF c.metaVersion = NoMeta THEN c.file
  ELSE IF Entity(c) \in ready THEN Metadata[Entity(c)] ELSE NoFile

UpdateCachedData(c, ready) ==
  LET f == FileOf(c, ready) IN
  IF f = NoFile
  THEN [c EXCEPT !.requires = NoRequires]
  ELSE [c EXCEPT !.cachedVersion = f.version, !.requires = f.requires,
                 !.volatile = f.volatile]

SetVersion(c, v, ready) ==
  LET named == [c EXCEPT !.version = v]
      known == <<c.uid, v>> \in ready
  IN IF v = c.version \/ ~c.loaded \/ IsCustom(c)
     THEN named
     ELSE UpdateCachedData(
            [named EXCEPT !.cachedVersion = v,
                          !.metaVersion = IF known THEN v ELSE NoMeta,
                          !.loaded = known], ready)

\* Mutant: the component keeps the custom file that was just deleted.
RevertKeepsFile(c, ready) == c

\* revert() once the patch file is gone.
Revert(c, ready) ==
  IF ~IsCustom(c) THEN c
  ELSE LET known == <<c.uid, c.version>> \in ready IN
       [c EXCEPT !.file = NoFile,
                 !.metaVersion = IF known THEN c.version ELSE NoMeta,
                 !.loaded = @ /\ known]

IsCustomizable(c, ready) == c.metaVersion # NoMeta /\ FileOf(c, ready) # NoFile
Customize(c, ready) ==
  [c EXCEPT !.file = FileOf(c, ready), !.metaVersion = NoMeta]

(***************************************************************************)
(* mmc-pack.json.  The writer puts every persistent property into the      *)
(* file; the reader looks m_cachedVolatile up under another key than the   *)
(* writer used, so it always comes back FALSE.                             *)
(***************************************************************************)
PersistedComponent ==
  [uid : Uids, version : AnyVersion, dependencyOnly : BOOLEAN,
   important : BOOLEAN, disabled : BOOLEAN,
   cachedVersion : AnyVersion, requires : Requires, volatile : BOOLEAN]

ComponentToJson(c) ==
  [uid |-> c.uid, version |-> c.version, dependencyOnly |-> c.dependencyOnly,
   important |-> c.important, disabled |-> c.disabled,
   cachedVersion |-> c.cachedVersion, requires |-> c.requires,
   volatile |-> c.volatile]

ComponentFromJson(p) ==
  SetEnabled([NewComponent(p.uid, p.version, p.dependencyOnly, p.important)
                EXCEPT !.cachedVersion = p.cachedVersion,
                       !.requires = p.requires,
                       !.volatile = FALSE],
             ~p.disabled)

SaveList(cs) == [i \in DOMAIN cs |-> ComponentToJson(cs[i])]

\* The numbers of a finite set in ascending order, and the rows of cs that are in a
\* set, in their order: SortSeq and SelectSeq, in a form that can be reasoned about.
Ascending(S) ==
  CHOOSE s \in [1..Cardinality(S) -> S] : \A i, j \in DOMAIN s : i < j => s[i] < s[j]
Select(cs, rows) == [k \in 1..Cardinality(rows) |-> cs[Ascending(rows)[k]]]

\* Mutant: duplicate entries are not skipped.
LoadListAll(ps) == [k \in DOMAIN ps |-> ComponentFromJson(ps[k])]

\* load(): a later entry with a uid that is already there is ignored.
Fresh(ps) == {i \in DOMAIN ps : \A j \in 1..(i-1) : ps[j].uid # ps[i].uid}
LoadList(ps) ==
  LET kept == Select(ps, Fresh(ps)) IN [k \in DOMAIN kept |-> ComponentFromJson(kept[k])]

UidsOf(cs) == {cs[i].uid : i \in DOMAIN cs}
IndexOf(cs, u) == CHOOSE i \in DOMAIN cs : cs[i].uid = u

(***************************************************************************)
(* The resolver.                                                           *)
(***************************************************************************)
RequiredUids(cs) == UNION {DOMAIN cs[i].requires : i \in DOMAIN cs}
Dependees(cs, u) == {i \in DOMAIN cs : u \in DOMAIN cs[i].requires}
ExactVersions(cs, u) ==
  {cs[i].requires[u].equals : i \in Dependees(cs, u)} \ {NoVersion}

\* composeRequirement refuses two different exact versions of one uid.
ConflictFree(cs) ==
  \A u \in RequiredUids(cs) : Cardinality(ExactVersions(cs, u)) <= 1

\* What gatherRequirementsFromComponents accumulates for each required uid.
GatherRequirements(cs) ==
  [u \in RequiredUids(cs) |->
     [equals |-> IF ExactVersions(cs, u) = {} THEN NoVersion
                 ELSE CHOOSE v \in ExactVersions(cs, u) : TRUE,
      suggests |-> Max({cs[i].requires[u].suggests : i \in Dependees(cs, u)}),
      first |-> Min(Dependees(cs, u))]]

TrivialRemovals(cs) ==
  {c \in {cs[i] : i \in DOMAIN cs} :
     c.dependencyOnly /\ c.volatile /\ c.uid \notin RequiredUids(cs)}

\* getTrivialComponentChanges: what to add, to change, and what is in the way.
VersionDiffers(cs, reqs, u) ==
  /\ u \in UidsOf(cs)
  /\ reqs[u].equals # NoVersion
  /\ cs[IndexOf(cs, u)].cachedVersion # reqs[u].equals
\* Mutant: a component the user picked may be re-versioned.
MayChangeAny(c) == ~IsCustom(c)

MayChange(c) == c.dependencyOnly /\ ~IsCustom(c)

ToAdd(cs, reqs) == DOMAIN reqs \ UidsOf(cs)
\* Mutant: a dependency in the wrong version is overlooked.
ToChangeNone(cs, reqs) == {}

ToChange(cs, reqs) ==
  {u \in DOMAIN reqs : VersionDiffers(cs, reqs, u) /\ MayChange(cs[IndexOf(cs, u)])}
Locked(cs, reqs) ==
  {u \in DOMAIN reqs : VersionDiffers(cs, reqs, u) /\ ~MayChange(cs[IndexOf(cs, u)])}

VersionToAdd(cs, u, req) ==
  IF req.equals # NoVersion THEN req.equals
  ELSE IF req.suggests # NoVersion THEN req.suggests
  ELSE IF u \in FollowsMinecraft /\ Minecraft \in UidsOf(cs)
  THEN cs[IndexOf(cs, Minecraft)].cachedVersion
  ELSE DefaultVersion[u]

Insert(cs, reqs, u, position) ==
  InsertAt(cs, position, NewComponent(u, VersionToAdd(cs, u, reqs[u]), TRUE, FALSE))

\* Mutant: a dependency goes in after its first dependee.
AddAfterDependee(cs, reqs) ==
  LET new == Ascending(ToAdd(cs, reqs))
      add[k \in 0..Len(new)] == IF k = 0 THEN cs
                                ELSE Insert(add[k - 1], reqs, new[k], reqs[new[k]].first + 1)
  IN add[Len(new)]

\* The new components go in one by one, in uid order, each at the position its
\* first dependee had when the requirements were gathered.
AddDependencies(cs, reqs) ==
  LET new == Ascending(ToAdd(cs, reqs))
      add[k \in 0..Len(new)] == IF k = 0 THEN cs
                                ELSE Insert(add[k - 1], reqs, new[k], reqs[new[k]].first)
  IN add[Len(new)]

ChangeVersions(cs, reqs, ready, change) ==
  [i \in DOMAIN cs |->
     IF cs[i].uid \in change
     THEN SetVersion(cs[i], reqs[cs[i].uid].equals, ready)
     ELSE cs[i]]
=============================================================================
