----------------------------- MODULE MCResolver -----------------------------
(***************************************************************************)
(* An instance of PackProfile for its resolver: two components a user      *)
(* installs (1 is Minecraft) and two that are dependencies, with versions  *)
(* whose requirements agree, conflict, chain and change.  The versions 2   *)
(* of the dependencies require each other; the versions 3 and 4 require    *)
(* each other round in a circle that no choice of versions satisfies.  It  *)
(* starts from every list of such components, in every order.              *)
(***************************************************************************)
EXTENDS PackProfile

req(equals, suggests) == [equals |-> equals, suggests |-> suggests]
file(v, requires, volatile) ==
  [version |-> v, requires |-> requires, volatile |-> volatile]

MCMetadata ==
  (<<1, 1>> :> file(1, (3 :> req(1, 0)) @@ (4 :> req(0, 0)), FALSE)) @@
  (<<1, 2>> :> file(2, 3 :> req(2, 0), FALSE)) @@
  (<<2, 1>> :> file(1, (3 :> req(0, 2)) @@ (4 :> req(1, 0)), FALSE)) @@
  (<<2, 2>> :> file(2, (1 :> req(2, 0)) @@ (3 :> req(1, 0)), FALSE)) @@
  (<<2, 3>> :> file(3, 3 :> req(0, 3), FALSE)) @@
  (<<3, 1>> :> file(1, NoRequires, TRUE)) @@
  (<<3, 2>> :> file(2, 4 :> req(2, 0), TRUE)) @@
  (<<4, 1>> :> file(1, NoRequires, TRUE)) @@
  (<<4, 2>> :> file(2, 3 :> req(2, 0), FALSE)) @@
  (<<3, 3>> :> file(3, 4 :> req(3, 0), TRUE)) @@
  (<<4, 3>> :> file(3, 3 :> req(4, 0), TRUE)) @@
  (<<3, 4>> :> file(4, 4 :> req(4, 0), TRUE)) @@
  (<<4, 4>> :> file(4, 3 :> req(3, 0), TRUE))

MCDefault == [u \in Uids |-> NoVersion]

saved(u, v, dep) ==
  [uid |-> u, version |-> v, dependencyOnly |-> dep, important |-> u = Minecraft,
   disabled |-> FALSE, cachedVersion |-> v,
   requires |-> MCMetadata[<<u, v>>].requires,
   volatile |-> MCMetadata[<<u, v>>].volatile]

\* A dependency may also have been picked by the user.
Entries ==
  {saved(u, v, FALSE) : u \in {1, 2}, v \in {1, 2}}
    \cup {saved(u, v, TRUE) : u \in {3, 4}, v \in {1, 2}}
    \cup {saved(3, 1, FALSE)}
Distinct(s) == \A i, j \in DOMAIN s : s[i].uid = s[j].uid => i = j
ListsUpTo(n) == {s \in UNION {[1..k -> Entries] : k \in 0..n} : Distinct(s)}
\* What leads into the circle.
Circle == <<saved(2, 3, FALSE)>>
MCLists == ListsUpTo(3) \cup {Circle}

NoPatches == [u \in Uids |-> NoFile]
CustomThree == [NoPatches EXCEPT ![3] = file(1, NoRequires, TRUE)]
MCPatches == {NoPatches, CustomThree}
=============================================================================
