--------------------------- MODULE MCPackProfile ---------------------------
(***************************************************************************)
(* An instance of PackProfile: Minecraft (1), a user-installed component   *)
(* (2) and a volatile dependency of Minecraft (3), two versions each.      *)
(***************************************************************************)
EXTENDS PackProfile

req(equals, suggests) == [equals |-> equals, suggests |-> suggests]
file(v, requires, volatile) ==
  [version |-> v, requires |-> requires, volatile |-> volatile]

\* Minecraft 1 wants exactly version 1 of the dependency, Minecraft 2 suggests
\* version 2.  Component 2 has one published version, which wants Minecraft.
MCMetadata ==
  (<<1, 1>> :> file(1, 3 :> req(1, 0), FALSE)) @@
  (<<1, 2>> :> file(2, 3 :> req(0, 2), FALSE)) @@
  (<<2, 1>> :> file(1, 1 :> req(0, 0), FALSE)) @@
  (<<3, 1>> :> file(1, NoRequires, TRUE)) @@
  (<<3, 2>> :> file(2, NoRequires, TRUE))

MCDefault == [u \in Uids |-> NoVersion]

saved(u, v, dep, imp, requires, volatile) ==
  [uid |-> u, version |-> v, dependencyOnly |-> dep, important |-> imp,
   disabled |-> FALSE, cachedVersion |-> v, requires |-> requires,
   volatile |-> volatile]

SavedMinecraft == saved(1, 1, FALSE, TRUE, 3 :> req(1, 0), FALSE)
SavedDependency == saved(3, 1, TRUE, FALSE, NoRequires, TRUE)

\* A new folder, an instance as the launcher leaves it, one whose user disabled
\* Minecraft and doubled an entry by hand, and a damaged file.
MCLists == {NoList, BadList, <<SavedDependency, SavedMinecraft>>,
            <<[SavedMinecraft EXCEPT !.disabled = TRUE], SavedDependency,
              [SavedMinecraft EXCEPT !.version = 2]>>}

NoPatches == [u \in Uids |-> NoFile]
MCPatches == {NoPatches}
=============================================================================
