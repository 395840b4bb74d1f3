------------------------- MODULE AccountUse_proofs -------------------------
(***************************************************************************)
(* Proofs about module AccountUse: for any accounts, lists, launches and   *)
(* outcomes of refreshes, the chain of background refreshes never stalls,  *)
(* the list stays consistent, a launch waits only for a task that runs,    *)
(* the activity of the list covers the tasks of its accounts, every        *)
(* variable keeps its type, and an account is in use exactly while a game  *)
(* plays with it.                                                          *)
(***************************************************************************)
EXTENDS AccountUse, SequenceTheorems, FiniteSetTheorems, TLAPS

(***************************************************************************)
(* Lists of accounts.                                                      *)
(***************************************************************************)
\* Removing a row of a list leaves a list.
LEMMA RemovalKeepsList ==
  ASSUME NEW S, NEW s \in Seq(S), NEW row \in DOMAIN s
  PROVE  RemoveAt(s, row) \in Seq(S)
<1>1. row \in 1..Len(s) /\ Len(s) \in Nat
  BY LenProperties
<1>2. SubSeq(s, 1, row - 1) \in Seq(S) /\ SubSeq(s, row + 1, Len(s)) \in Seq(S)
  BY <1>1, SubSeqProperties
<1>3. QED
  BY <1>2, ConcatProperties DEF RemoveAt

\* addAccount() leaves a list.
LEMMA AdditionKeepsList ==
  ASSUME accounts \in Seq(Account), NEW n \in Account
  PROVE  AddAccount(n) \in Seq(Account)
<1>1. CASE RowOf(n) = {}
  BY <1>1, AppendProperties DEF AddAccount
<1>2. CASE RowOf(n) # {}
  <2>1. DOMAIN accounts = 1..Len(accounts) /\ Len(accounts) \in Nat
        /\ \A i \in DOMAIN accounts : accounts[i] \in Account
    BY LenProperties, ElementOfSeq
  <2>2. AddAccount(n) \in [1..Len(accounts) -> Account]
    BY <1>2, <2>1 DEF AddAccount
  <2>3. QED
    BY <2>1, <2>2
<1>3. QED
  BY <1>1, <1>2

(***************************************************************************)
(* The inductive invariant: ChainAlive, and the types it rests on.         *)
(***************************************************************************)
ChainTypes ==
  /\ accounts \in Seq(Account)
  /\ active \in [Account -> BOOLEAN]
  /\ watched \subseteq Account

IInv == ChainTypes /\ ChainAlive

\* It holds when the list is loaded: the chain is not started yet.
LEMMA InitInv == Init => IInv
  BY AccountUseAssumption DEF Init, IInv, ChainTypes, ChainAlive

\* refresh() keeps running tasks running.
LEMMA RefreshKeepsTasks ==
  ASSUME ChainTypes, NEW a, Refresh(a)
  PROVE  /\ active' \in [Account -> BOOLEAN] /\ (a \in Account => active'[a])
         /\ \A b \in Account : active[b] => active'[b]
  BY DEF ChainTypes, Refresh

\* tryNext() leaves the chain alive, whatever it is given, and also when it has no
\* timer to rely on.
LEMMA TryNextStep ==
  ASSUME ChainTypes, NEW q, NEW timer, TryNext(q, timer)
  PROVE  /\ active' \in [Account -> BOOLEAN]
         /\ watched' \subseteq Account
         /\ refreshTimer' \/ (current' \in watched' /\ active'[current'])
<1>1. CASE refreshTimer' = TRUE /\ UNCHANGED <<active, watched>>
  BY <1>1 DEF ChainTypes
<1>2. CASE \E j \in DOMAIN accounts :
             /\ Refresh(accounts[j])
             /\ current' = accounts[j] /\ watched' = watched \cup {accounts[j]}
  <2>1. PICK j \in DOMAIN accounts :
             /\ Refresh(accounts[j])
             /\ current' = accounts[j] /\ watched' = watched \cup {accounts[j]}
    BY <1>2
  <2>2. accounts[j] \in Account
    BY ElementOfSeq, LenProperties DEF ChainTypes
  <2>3. QED
    BY <2>1, <2>2, RefreshKeepsTasks DEF ChainTypes
<1>3. QED
  BY <1>1, <1>2 DEF TryNext

(***************************************************************************)
(* The steps.                                                              *)
(***************************************************************************)
\* What leaves the tasks and the chain alone, or starts tasks besides it, keeps the
\* invariant.
LEMMA AsideStep ==
  ASSUME IInv, accounts' \in Seq(Account), UNCHANGED <<chainVars, started>>,
         UNCHANGED active \/ \E a : Refresh(a)
  PROVE  IInv'
<1>1. active' \in [Account -> BOOLEAN] /\ \A b \in Account : active[b] => active'[b]
  BY RefreshKeepsTasks DEF IInv, ChainTypes
<1>2. QED
  BY <1>1 DEF IInv, ChainTypes, ChainAlive, chainVars

\* Timers, the end of a refresh and time keep it.
LEMMA EventStep == IInv /\ Events => IInv'
<1> SUFFICES ASSUME IInv, Events PROVE IInv'
  OBVIOUS
<1>1. CASE Startup
  <2>1. ChainTypes /\ TryNext(Filled, refreshTimer) /\ UNCHANGED accounts
    BY <1>1 DEF Startup, IInv, listVars
  <2>2. QED
    BY <2>1, TryNextStep DEF IInv, ChainTypes, ChainAlive
<1>2. CASE RefreshTimeout
  <2>1. ChainTypes /\ TryNext(Filled, FALSE) /\ UNCHANGED accounts
    BY <1>2 DEF RefreshTimeout, IInv, listVars
  <2>2. QED
    BY <2>1, TryNextStep DEF IInv, ChainTypes, ChainAlive
<1>3. CASE NextTimeout
  <2>1. ChainTypes /\ TryNext(queue, refreshTimer) /\ UNCHANGED accounts
    BY <1>3 DEF NextTimeout, IInv, listVars
  <2>2. QED
    BY <2>1, TryNextStep DEF IInv, ChainTypes, ChainAlive
<1>4. ASSUME NEW a \in Account, NEW outcome \in Outcomes, RefreshEnds(a, outcome)
      PROVE  IInv'
  <2>1. /\ active' = [active EXCEPT ![a] = FALSE]
        /\ watched' = watched \ {a}
        /\ UNCHANGED <<accounts, refreshTimer, started>>
        /\ nextTimer' = (nextTimer \/ a \in watched)
        /\ current' = IF a \in watched THEN NoAccount ELSE current
    BY <1>4 DEF RefreshEnds, GoesOn, listVars
  <2>2. ChainTypes'
    BY <2>1 DEF IInv, ChainTypes
  <2>3. CASE a \in watched
    BY <2>1, <2>2, <2>3 DEF IInv, ChainAlive
  <2>4. CASE a \notin watched
    BY <2>1, <2>2, <2>4 DEF IInv, ChainTypes, ChainAlive
  <2>5. QED
    BY <2>3, <2>4
<1>5. ASSUME NEW a \in Account, Age(a)
      PROVE  IInv'
  BY <1>5, AsideStep DEF Age, listVars, IInv, ChainTypes
<1>6. QED
  BY <1>1, <1>2, <1>3, <1>4, <1>5 DEF Events

\* The account page keeps it: a click on "Refresh" starts a task that is watched, or
\* leaves the chain as it is.
LEMMA PageStep == IInv /\ PageSteps => IInv'
<1> SUFFICES ASSUME IInv, PageSteps PROVE IInv'
  OBVIOUS
<1>1. ASSUME NEW n \in Account, AddByPage(n)
      PROVE  IInv'
  <2>1. accounts' \in Seq(Account)
    BY <1>1, AdditionKeepsList DEF AddByPage, LogIn, IInv, ChainTypes
  <2>2. QED
    BY <1>1, <2>1, AsideStep DEF AddByPage
<1>2. ASSUME NEW a \in Account, RequestRefresh(a)
      PROVE  IInv'
  <2>1. UNCHANGED <<accounts, nextTimer, started>>
    BY <1>2 DEF RequestRefresh, listVars
  <2>2. CASE \E q : TryNext(q, refreshTimer)
    BY <2>1, <2>2, TryNextStep DEF IInv, ChainTypes, ChainAlive
  <2>3. CASE UNCHANGED <<active, current, watched, refreshTimer>>
    BY <2>1, <2>3 DEF IInv, ChainTypes, ChainAlive
  <2>4. QED
    BY <1>2, <2>2, <2>3 DEF RequestRefresh
<1>3. ASSUME NEW row \in DOMAIN accounts, RemoveByPage(row)
      PROVE  IInv'
  <2>1. accounts' \in Seq(Account)
    BY <1>3, RemovalKeepsList DEF RemoveByPage, Drop, IInv, ChainTypes
  <2>2. QED
    BY <1>3, <2>1, AsideStep DEF RemoveByPage
<1>4. ASSUME NEW d \in Account \cup {NoAccount}, SetDefault(d)
      PROVE  IInv'
  BY <1>4, AsideStep DEF SetDefault, IInv, ChainTypes
<1>5. QED
  BY <1>1, <1>2, <1>3, <1>4 DEF PageSteps

\* A launch keeps it: it may refresh the account it uses, remove the one that expired
\* and log in again, all of which leave the chain alone.
LEMMA LaunchStep ==
  ASSUME IInv, NEW l \in Launches, LoginSteps(l) \/ LaunchSteps(l)
  PROVE  IInv'
<1> USE DEF accountVars, listVars
<1>1. accounts \in Seq(Account)
  BY DEF IInv, ChainTypes
<1>2. ASSUME UNCHANGED <<accounts, active, chainVars, started>>
      PROVE  IInv'
  BY <1>1, <1>2, AsideStep
<1>3. ASSUME NEW a \in Account, NEW online \in BOOLEAN, Launch(l, a, online)
      PROVE  IInv'
  BY <1>2, <1>3 DEF Launch
<1>4. CASE \/ PlayOnline(l) \/ AskName(l) \/ NameGiven(l) \/ GiveUp(l) \/ AskToLogIn(l)
           \/ NotLoggedIn(l) \/ JavaMatched(l) \/ EarlyStepFails(l)
  BY <1>2, <1>4
  DEF PlayOnline, AskName, NameGiven, GiveUp, AskToLogIn, NotLoggedIn, JavaMatched,
      EarlyStepFails, LaunchOnly
<1>5. CASE Claim(l) \/ Finished(l)
  BY <1>2, <1>5 DEF Claim, Finished
<1>6. CASE OnlineRequested(l) \/ AwaitRefresh(l)
  <2>1. /\ UNCHANGED <<accounts, chainVars, started>>
        /\ UNCHANGED active \/ \E a : Refresh(a)
    BY <1>6 DEF OnlineRequested, AwaitRefresh
  <2>2. QED
    BY <1>1, <2>1, AsideStep
<1>7. CASE RemoveExpired(l)
  <2>1. accounts' \in Seq(Account)
    BY <1>1, <1>7, RemovalKeepsList DEF RemoveExpired, RowOf, Drop
  <2>2. QED
    BY <1>7, <2>1, AsideStep DEF RemoveExpired
<1>8. ASSUME NEW n \in Account, LogInAgain(l, n)
      PROVE  IInv'
  <2>1. accounts' \in Seq(Account)
    BY <1>1, <1>8, AdditionKeepsList DEF LogInAgain, LogIn
  <2>2. QED
    BY <1>8, <2>1, AsideStep DEF LogInAgain
<1>9. QED
  BY <1>3, <1>4, <1>5, <1>6, <1>7, <1>8 DEF LoginSteps, LaunchSteps

\* Every step keeps it.
LEMMA StepInv == IInv /\ [Next]_vars => IInv'
<1> SUFFICES ASSUME IInv, [Next]_vars PROVE IInv'
  OBVIOUS
<1>1. CASE Next
  BY <1>1, EventStep, PageStep, LaunchStep DEF Next
<1>2. CASE UNCHANGED vars
  BY <1>2, AsideStep DEF vars, listVars, IInv, ChainTypes
<1>3. QED
  BY <1>1, <1>2

(***************************************************************************)
(* The theorem.                                                            *)
(***************************************************************************)
\* However logins, removals, launches, clicks and answers interleave, and however the
\* refreshes end, a timer runs or a task that reports to the list does: background
\* refreshes go on until the program ends (AccountList::tryNext, authFailed).
THEOREM ChainNeverStalls == Spec => []ChainAlive
<1>1. IInv => ChainAlive
  BY DEF IInv
<1>2. QED
  BY InitInv, StepInv, <1>1, PTL DEF Spec

(***************************************************************************)
(* The list and its default account.                                       *)
(***************************************************************************)
ListInv == accounts \in Seq(Account) /\ ListConsistent

\* removeAccount() keeps the list consistent.
LEMMA DropKeepsConsistent ==
  ASSUME ListInv, NEW row \in DOMAIN accounts, Drop(row)
  PROVE  ListInv'
<1> DEFINE n == Len(accounts)
<1>1. DOMAIN accounts = 1..n /\ n \in Nat /\ accounts \in Seq(Account)
  BY LenProperties DEF ListInv
<1>2. accounts' = SubSeq(accounts, 1, row - 1) \o SubSeq(accounts, row + 1, n)
  BY DEF Drop, RemoveAt
<1>3. /\ accounts' \in Seq(Account) /\ DOMAIN accounts' = 1..(n - 1)
      /\ \A i \in 1..(n - 1) : accounts'[i] = IF i < row THEN accounts[i] ELSE accounts[i + 1]
  <2>1. DEFINE head == SubSeq(accounts, 1, row - 1)
               tail == SubSeq(accounts, row + 1, n)
  <2>2. /\ head \in Seq(Account) /\ Len(head) = row - 1
        /\ \A i \in 1..(row - 1) : head[i] = accounts[i]
    BY <1>1, SubSeqProperties
  <2>3. /\ tail \in Seq(Account) /\ Len(tail) = n - row
        /\ \A i \in 1..(n - row) : tail[i] = accounts[row + i]
    BY <1>1, SubSeqProperties
  <2> HIDE DEF head, tail
  <2>4. /\ head \o tail \in Seq(Account)
        /\ Len(head \o tail) = n - 1
        /\ \A i \in 1..(n - 1) :
             (head \o tail)[i] = IF i <= row - 1 THEN head[i] ELSE tail[i - (row - 1)]
    <3>1. /\ head \o tail \in Seq(Account)
          /\ Len(head \o tail) = Len(head) + Len(tail)
          /\ \A i \in 1..(Len(head) + Len(tail)) :
               (head \o tail)[i] = IF i <= Len(head) THEN head[i] ELSE tail[i - Len(head)]
      BY <2>2, <2>3, ConcatProperties
    <3>2. Len(head) + Len(tail) = n - 1
      BY <1>1, <2>2, <2>3
    <3>3. QED
      BY <2>2, <3>1, <3>2
  <2>5. accounts' = head \o tail
    BY <1>2 DEF head, tail
  <2>6. DOMAIN accounts' = 1..(n - 1)
    BY <2>4, <2>5, LenProperties
  <2>7. ASSUME NEW i \in 1..(n - 1)
        PROVE  accounts'[i] = IF i < row THEN accounts[i] ELSE accounts[i + 1]
    <3>1. CASE i < row
      BY <1>1, <2>2, <2>4, <2>5, <3>1
    <3>2. CASE ~(i < row)
      <4>1. i - (row - 1) \in 1..(n - row) /\ row + (i - (row - 1)) = i + 1
        BY <1>1, <3>2
      <4>2. QED
        BY <1>1, <2>3, <2>4, <2>5, <3>2, <4>1
    <3>3. QED
      BY <3>1, <3>2
  <2>8. QED
    BY <2>4, <2>5, <2>6, <2>7
<1> HIDE DEF n
<1>4. ASSUME NEW i \in DOMAIN accounts', NEW j \in DOMAIN accounts',
             ProfileOf[accounts'[i]] = ProfileOf[accounts'[j]]
      PROVE  i = j
  <2>1. DEFINE k(x) == IF x < row THEN x ELSE x + 1
  <2>2. /\ k(i) \in DOMAIN accounts /\ k(j) \in DOMAIN accounts
        /\ accounts'[i] = accounts[k(i)] /\ accounts'[j] = accounts[k(j)]
    BY <1>1, <1>3, <1>4
  <2>3. k(i) = k(j)
    BY <1>4, <2>2 DEF ListInv, ListConsistent
  <2>4. QED
    BY <1>1, <1>3, <1>4, <2>3
<1>5. default' \in Range(accounts') \cup {NoAccount}
  <2>1. CASE default = accounts[row] \/ default = NoAccount
    BY <2>1 DEF Drop
  <2>2. CASE default # accounts[row] /\ default # NoAccount
    <3>1. PICK i \in DOMAIN accounts : default = accounts[i]
      BY <2>2 DEF ListInv, ListConsistent, Listed, Range
    <3>2. i # row /\ default' = accounts[i]
      BY <2>2, <3>1 DEF Drop
    <3>3. CASE i < row
      BY <1>1, <1>3, <3>2, <3>3 DEF Range
    <3>4. CASE i > row
      <4>1. i - 1 \in 1..(n - 1) /\ ~(i - 1 < row) /\ (i - 1) + 1 = i
        BY <1>1, <3>4
      <4>2. accounts'[i - 1] = accounts[i]
        BY <1>3, <4>1
      <4>3. QED
        BY <1>3, <3>2, <4>1, <4>2 DEF Range
    <3>5. QED
      BY <1>1, <3>2, <3>3, <3>4
  <2>3. QED
    BY <2>1, <2>2
<1>6. QED
  BY <1>3, <1>4, <1>5 DEF ListInv, ListConsistent, Listed

\* A login, and addAccount() after it, keeps the list consistent.
LEMMA LogInKeepsConsistent ==
  ASSUME ListInv, NEW n \in Account, NEW isDefault, LogIn(n, isDefault)
  PROVE  ListInv'
<1>1. accounts' = AddAccount(n) /\ accounts' \in Seq(Account)
  BY AdditionKeepsList DEF ListInv, LogIn
<1>2. /\ n \in Range(accounts')
      /\ \A i, j \in DOMAIN accounts' :
           ProfileOf[accounts'[i]] = ProfileOf[accounts'[j]] => i = j
  <2>0. DOMAIN accounts = 1..Len(accounts) /\ Len(accounts) \in Nat
    BY LenProperties DEF ListInv
  <2>1. CASE RowOf(n) = {}
    <3>1. \A i \in DOMAIN accounts : ProfileOf[accounts[i]] # ProfileOf[n]
      BY <2>0, <2>1 DEF RowOf, ListInv, ListConsistent
    <3>2. accounts' = Append(accounts, n)
      BY <1>1, <2>1 DEF AddAccount
    <3>3. /\ DOMAIN accounts' = 1..(Len(accounts) + 1) /\ accounts'[Len(accounts) + 1] = n
          /\ \A i \in 1..Len(accounts) : accounts'[i] = accounts[i]
      BY <1>1, <3>2, AppendProperties, LenProperties DEF ListInv
    <3>4. \A i \in DOMAIN accounts' : i \in DOMAIN accounts \/ i = Len(accounts) + 1
      BY <2>0, <3>3
    <3>5. QED
      BY <2>0, <3>1, <3>3, <3>4 DEF Range, ListInv, ListConsistent
  <2>2. CASE RowOf(n) # {}
    <3>1. PICK row \in DOMAIN accounts :
                 row \in RowOf(n) /\ ProfileOf[accounts[row]] = ProfileOf[n]
      BY <2>2 DEF RowOf
    <3>2. \A i \in DOMAIN accounts : i \in RowOf(n) <=> i = row
      BY <3>1 DEF RowOf, ListInv, ListConsistent
    <3>3. /\ DOMAIN accounts' = DOMAIN accounts /\ accounts'[row] = n
          /\ \A i \in DOMAIN accounts : i # row => accounts'[i] = accounts[i]
      BY <1>1, <2>2, <3>1, <3>2 DEF AddAccount
    <3>4. \A i \in DOMAIN accounts : ProfileOf[accounts'[i]] = ProfileOf[accounts[i]]
      BY <3>1, <3>3
    <3>5. QED
      BY <3>1, <3>3, <3>4 DEF Range, ListInv, ListConsistent
  <2>3. QED
    BY <2>1, <2>2
<1>3. default' \in Range(accounts') \cup {NoAccount}
  BY <1>1, <1>2 DEF LogIn, ListInv, ListConsistent, Listed
<1>4. QED
  BY <1>1, <1>2, <1>3 DEF ListInv, ListConsistent, Listed

\* The steps that edit the list or choose the default account.
ListSteps ==
  \/ \E n \in Account : AddByPage(n)
  \/ \E row \in DOMAIN accounts : RemoveByPage(row)
  \/ \E d \in Account \cup {NoAccount} : SetDefault(d)
  \/ \E l \in Launches :
       \/ \E a \in Account, online \in BOOLEAN : Launch(l, a, online)
       \/ RemoveExpired(l)
       \/ \E n \in Account : LogInAgain(l, n)

\* All others leave both alone.
LEMMA OtherSteps == Next => ListSteps \/ UNCHANGED <<accounts, default>>
<1> USE DEF listVars, accountVars, ListSteps
<1>1. Events => UNCHANGED <<accounts, default>>
  BY DEF Events, Startup, RefreshTimeout, NextTimeout, RefreshEnds, Age
<1>2. PageSteps => ListSteps \/ UNCHANGED <<accounts, default>>
  BY DEF PageSteps, RequestRefresh
<1>3. ASSUME NEW l \in Launches, LoginSteps(l)
      PROVE  ListSteps \/ UNCHANGED <<accounts, default>>
  <2>1. CASE \/ PlayOnline(l) \/ AskName(l) \/ NameGiven(l) \/ OnlineRequested(l)
             \/ AwaitRefresh(l) \/ GiveUp(l) \/ AskToLogIn(l) \/ NotLoggedIn(l)
    BY <2>1 DEF PlayOnline, AskName, NameGiven, OnlineRequested, AwaitRefresh, GiveUp,
                AskToLogIn, NotLoggedIn, LaunchOnly
  <2>2. QED
    BY <1>3, <2>1 DEF LoginSteps
<1>4. ASSUME NEW l \in Launches, LaunchSteps(l)
      PROVE  UNCHANGED <<accounts, default>>
  BY <1>4 DEF LaunchSteps, JavaMatched, EarlyStepFails, Claim, Finished, LaunchOnly
<1>5. QED
  BY <1>1, <1>2, <1>3, <1>4 DEF Next

LEMMA ListInit == Init => ListInv
  BY AccountUseAssumption DEF Init, ListInv, ListConsistent

LEMMA ListStep == ListInv /\ [Next]_vars => ListInv'
<1> SUFFICES ASSUME ListInv, [Next]_vars PROVE ListInv'
  OBVIOUS
<1>1. ASSUME accounts' = accounts, default' \in Listed \cup {NoAccount}
      PROVE  ListInv'
  BY <1>1 DEF ListInv, ListConsistent, Listed
<1>2. default \in Listed \cup {NoAccount}
  BY DEF ListInv, ListConsistent
<1>3. CASE UNCHANGED <<accounts, default>>
  BY <1>1, <1>2, <1>3
<1>4. ASSUME NEW n \in Account, AddByPage(n)
      PROVE  ListInv'
  BY <1>4, LogInKeepsConsistent DEF AddByPage
<1>5. ASSUME NEW row \in DOMAIN accounts, RemoveByPage(row)
      PROVE  ListInv'
  BY <1>5, DropKeepsConsistent DEF RemoveByPage
<1>6. ASSUME NEW d, SetDefault(d)
      PROVE  ListInv'
  BY <1>1, <1>6 DEF SetDefault
<1>7. ASSUME NEW l, NEW a, NEW online, Launch(l, a, online)
      PROVE  ListInv'
  BY <1>1, <1>2, <1>7 DEF Launch
<1>8. ASSUME NEW l, RemoveExpired(l)
      PROVE  ListInv'
  <2>1. CASE UNCHANGED listVars
    BY <1>3, <2>1 DEF listVars
  <2>2. CASE \E row \in DOMAIN accounts : Drop(row)
    BY <2>2, DropKeepsConsistent
  <2>3. QED
    BY <1>8, <2>1, <2>2 DEF RemoveExpired, RowOf
<1>9. ASSUME NEW l, NEW n \in Account, LogInAgain(l, n)
      PROVE  ListInv'
  BY <1>9, LogInKeepsConsistent DEF LogInAgain
<1>10. CASE Next
  BY <1>3, <1>4, <1>5, <1>6, <1>7, <1>8, <1>9, <1>10, OtherSteps DEF ListSteps
<1>11. CASE UNCHANGED vars
  BY <1>3, <1>11 DEF vars, listVars
<1>12. QED
  BY <1>10, <1>11

\* Logins, removals and launches, in any order, leave a list without doubled profiles
\* and a default account that is in it (AccountList::addAccount, removeAccount).
THEOREM ListStaysConsistent == Spec => []ListConsistent
<1>1. ListInv => ListConsistent
  BY DEF ListInv
<1>2. QED
  BY ListInit, ListStep, <1>1, PTL DEF Spec

(***************************************************************************)
(* The tasks of the accounts, who waits for them, and their count.         *)
(***************************************************************************)
Controller == [phase : Phases, account : Account \cup {NoAccount}, online : BOOLEAN,
               claims : BOOLEAN, claim : Account \cup {NoAccount}]

\* Objects that are listed, chosen or active exist: a login makes a new one, which
\* therefore has no task yet.
ListFits ==
  /\ accounts \in Seq(Account) /\ made \subseteq Account
  /\ Listed \subseteq made /\ default \in made \cup {NoAccount}

\* An account is only "Working" while its task runs, and the list counts its tasks.
TasksFit ==
  /\ active \in [Account -> BOOLEAN]
  /\ state \in [Account -> Ends \cup {"Unchecked", "Working"}]
  /\ \A a \in Account : active[a] => a \in made
  /\ \A a \in Account : state[a] = "Working" => active[a]
  /\ activityCount \in Nat /\ CountCovers

\* A launch that waits has a task to wait for.
LaunchesFit ==
  /\ launch \in [Launches -> Controller]
  /\ \A l \in Launches :
       /\ launch[l].account \in made \cup {NoAccount}
       /\ launch[l].phase = "progress" =>
            launch[l].account \in Account /\ active[launch[l].account]

TaskInv == ListFits /\ TasksFit /\ LaunchesFit

\* The accounts of the list with a task.
Busy == {a \in Listed : active[a]}

LEMMA BusyFinite == ListFits => IsFiniteSet(Listed) /\ IsFiniteSet(Busy)
<1>. SUFFICES ASSUME ListFits PROVE IsFiniteSet(Listed) /\ IsFiniteSet(Busy)
  OBVIOUS
<1>1. IsFiniteSet(Account) /\ Listed \in SUBSET Account /\ Busy \in SUBSET Account
  BY AccountUseAssumption DEF ListFits, Busy
<1>. QED
  BY <1>1, FS_Subset

\* If no more accounts of the list have a task, the count still covers them.
LEMMA FewerBusy ==
  ASSUME ListFits, TasksFit, Busy' \subseteq Busy, activityCount' = activityCount
  PROVE  CountCovers'
<1>1. /\ IsFiniteSet(Busy') /\ Cardinality(Busy') <= Cardinality(Busy)
      /\ Cardinality(Busy') \in Nat /\ Cardinality(Busy) \in Nat
  BY BusyFinite, FS_Subset, FS_CardinalityType
<1>. QED
  BY <1>1 DEF TasksFit, CountCovers, Busy

\* refresh() of an account that exists.
LEMMA RefreshFits ==
  ASSUME ListFits, TasksFit, UNCHANGED <<accounts, made>>, NEW a \in made, Refresh(a)
  PROVE  TasksFit' /\ active'[a] /\ \A b \in Account : active[b] => active'[b]
<1>1. a \in Account
  BY DEF ListFits
<1>2. /\ active' \in [Account -> BOOLEAN] /\ active'[a]
      /\ \A b \in Account : b # a => active'[b] = active[b]
      /\ state' \in [Account -> Ends \cup {"Unchecked", "Working"}]
      /\ \A b \in Account : b # a => state'[b] = state[b]
  BY <1>1 DEF Refresh, TasksFit
<1>3. activityCount' \in Nat /\ CountCovers'
  <2>1. CASE active[a] \/ a \notin Listed
    <3>1. Busy' \subseteq Busy
      BY <1>1, <1>2, <2>1 DEF Busy, Listed, ListFits
    <3>2. activityCount' = activityCount /\ activityCount \in Nat
      BY <2>1 DEF Refresh, TasksFit
    <3>. QED
      BY <3>1, <3>2, FewerBusy
  <2>2. CASE ~active[a] /\ a \in Listed
    <3>1. Busy' = Busy \cup {a} /\ a \notin Busy
      BY <1>1, <1>2, <2>2 DEF Busy, Listed, ListFits
    <3>2. activityCount' = activityCount + 1 /\ activityCount \in Nat
          /\ activityCount >= Cardinality(Busy)
      BY <2>2 DEF Refresh, TasksFit, CountCovers, Busy
    <3>3. Cardinality(Busy') = Cardinality(Busy) + 1 /\ Cardinality(Busy) \in Nat
      BY <3>1, BusyFinite, FS_AddElement, FS_CardinalityType
    <3>4. activityCount' >= Cardinality(Busy')
      BY <3>2, <3>3
    <3>. QED
      BY <3>2, <3>4 DEF CountCovers, Busy
  <2>. QED
    BY <2>1, <2>2
<1>. QED
  BY <1>1, <1>2, <1>3 DEF TasksFit

\* What leaves tasks and list alone leaves the claims about them.
LEMMA TasksKept ==
  ASSUME ListFits, TasksFit, UNCHANGED <<active, state, activityCount>>,
         Listed' \subseteq Listed, made \subseteq made'
  PROVE  TasksFit'
<1>1. CountCovers'
  BY FewerBusy DEF Busy
<1>. QED
  BY <1>1 DEF TasksFit

LEMMA LaunchesKept ==
  ASSUME LaunchesFit, UNCHANGED launch, made \subseteq made',
         \A b \in Account : active[b] => active'[b]
  PROVE  LaunchesFit'
BY DEF LaunchesFit

\* A step of one launch that does not wait after it.
LEMMA LaunchKept ==
  ASSUME LaunchesFit, NEW l \in Launches, made \subseteq made',
         \A b \in Account : active[b] => active'[b],
         NEW r \in Controller, launch' = [launch EXCEPT ![l] = r],
         r.account \in made' \cup {NoAccount},
         r.phase = "progress" => r.account \in Account /\ active'[r.account]
  PROVE  LaunchesFit'
BY DEF LaunchesFit

\* tryNext() refreshes an account of the list, or nothing.
LEMMA TryNextFits ==
  ASSUME TaskInv, NEW q, NEW timer, TryNext(q, timer), UNCHANGED <<listVars, launch>>
  PROVE  TaskInv'
<1>1. ListFits'
  BY DEF listVars, TaskInv, ListFits, Listed
<1>2. CASE UNCHANGED <<active, state, activityCount>>
  BY <1>1, <1>2, TasksKept, LaunchesKept DEF listVars, TaskInv, Listed
<1>3. ASSUME NEW j \in DOMAIN accounts, Refresh(accounts[j])
      PROVE  TaskInv'
  <2>1. accounts[j] \in made
    BY DEF TaskInv, ListFits, Listed, Range
  <2>2. TasksFit' /\ \A b \in Account : active[b] => active'[b]
    BY <1>3, <2>1, RefreshFits DEF listVars, TaskInv
  <2>. QED
    BY <1>1, <2>2, LaunchesKept DEF listVars, TaskInv
<1>. QED
  BY <1>2, <1>3 DEF TryNext

\* The end of a refresh: whoever waits for it does not wait any more.
LEMMA RefreshEndsFits ==
  ASSUME TaskInv, NEW a \in Account, NEW outcome \in Outcomes, RefreshEnds(a, outcome)
  PROVE  TaskInv'
<1>1. active[a] /\ outcome \in Ends /\ UNCHANGED <<accounts, default, made>>
  BY AccountUseAssumption DEF RefreshEnds, TaskLives, listVars
<1>2. ListFits'
  BY <1>1 DEF TaskInv, ListFits, Listed
<1>3. active' = [active EXCEPT ![a] = FALSE] /\ state' = [state EXCEPT ![a] = outcome]
  BY DEF RefreshEnds
<1>4. Busy' = Busy \ {a}
  BY <1>1, <1>3 DEF Busy, Listed, TaskInv, ListFits, TasksFit
<1>5. activityCount' \in Nat /\ activityCount' >= Cardinality(Busy')
  <2>1. activityCount \in Nat /\ activityCount >= Cardinality(Busy) /\ Cardinality(Busy) \in Nat
    BY BusyFinite, FS_CardinalityType DEF TaskInv, TasksFit, CountCovers, Busy
  <2>2. Cardinality(Busy') = IF a \in Busy THEN Cardinality(Busy) - 1 ELSE Cardinality(Busy)
    BY <1>4, BusyFinite, FS_RemoveElement DEF TaskInv
  <2>3. a \in Listed => a \in Busy
    BY <1>1 DEF Busy
  <2>4. a \in Busy => a \in Listed
    BY DEF Busy
  <2>5. activityCount' = IF a \in Listed /\ activityCount > 0 THEN activityCount - 1
                         ELSE activityCount
    BY DEF RefreshEnds
  <2>6. Cardinality(Busy') \in Nat
    BY <1>4, BusyFinite, FS_RemoveElement, FS_CardinalityType DEF TaskInv
  <2>. QED
    BY <2>1, <2>2, <2>3, <2>4, <2>5, <2>6
<1>6. TasksFit'
  BY <1>1, <1>3, <1>5 DEF TaskInv, TasksFit, CountCovers, Busy, Ends
<1>7. LaunchesFit'
  <2>1. launch' = [l \in Launches |->
          IF launch[l].phase = "progress" /\ launch[l].account = a
          THEN [launch[l] EXCEPT !.phase = "login"] ELSE launch[l]]
    BY DEF RefreshEnds
  <2>2. ASSUME NEW l \in Launches
        PROVE  /\ launch'[l] \in Controller /\ launch'[l].account = launch[l].account
               /\ launch'[l].phase = "progress" =>
                    launch[l].phase = "progress" /\ launch[l].account # a
    BY <2>1 DEF TaskInv, LaunchesFit, Controller, Phases
  <2>3. launch' \in [Launches -> Controller]
    BY <2>1, <2>2
  <2>. QED
    BY <1>1, <1>3, <2>2, <2>3 DEF TaskInv, TasksFit, LaunchesFit
<1>. QED
  BY <1>2, <1>6, <1>7 DEF TaskInv

\* removeAccount() adds nothing to the list.
LEMMA DropFits ==
  ASSUME TaskInv, NEW row \in DOMAIN accounts, Drop(row),
         UNCHANGED <<active, state, activityCount>>
  PROVE  ListFits' /\ TasksFit' /\ made' = made
<1>. DEFINE n == Len(accounts)
            head == SubSeq(accounts, 1, row - 1)
            tail == SubSeq(accounts, row + 1, n)
<1>1. accounts \in Seq(Account) /\ DOMAIN accounts = 1..n /\ n \in Nat
  BY LenProperties DEF TaskInv, ListFits
<1>2. /\ head \in Seq(Account) /\ Len(head) = row - 1
      /\ \A i \in 1..(row - 1) : head[i] = accounts[i]
  BY <1>1, SubSeqProperties
<1>3. /\ tail \in Seq(Account) /\ Len(tail) = n - row
      /\ \A i \in 1..(n - row) : tail[i] = accounts[row + i]
  BY <1>1, SubSeqProperties
<1>4. accounts' = head \o tail
  BY DEF Drop, RemoveAt
<1>. HIDE DEF n, head, tail
<1>5. Range(head) \subseteq Listed
  BY <1>1, <1>2, LenProperties DEF Range, Listed
<1>6. Range(tail) \subseteq Listed
  <2>1. ASSUME NEW i \in 1..(n - row) PROVE tail[i] \in Listed
    <3>1. row + i \in 1..n
      BY <1>1
    <3>. QED
      BY <1>1, <1>3, <3>1 DEF Range, Listed
  <2>. QED
    BY <1>3, <2>1, LenProperties DEF Range
<1>7. accounts' \in Seq(Account) /\ Listed' \subseteq Listed
  BY <1>2, <1>3, <1>4, <1>5, <1>6, ConcatProperties, RangeConcatenation DEF Listed
<1>8. ListFits' /\ made' = made
  BY <1>7 DEF Drop, TaskInv, ListFits
<1>. QED
  BY <1>7, <1>8, TasksKept DEF TaskInv

\* addAccount() adds the new account, which has no task.
LEMMA LogInFits ==
  ASSUME TaskInv, NEW n \in Account, NEW isDefault, LogIn(n, isDefault),
         UNCHANGED <<active, activityCount>>
  PROVE  /\ ListFits' /\ TasksFit' /\ made \subseteq made'
         /\ accounts' \in Seq(Account)
<1>1. accounts' = AddAccount(n) /\ accounts' \in Seq(Account)
  BY AdditionKeepsList DEF LogIn, TaskInv, ListFits
<1>2. n \notin made /\ made' = made \cup {n} /\ ~active[n]
  BY DEF LogIn, TaskInv, TasksFit
<1>3. Listed' \subseteq Listed \cup {n}
  <2>1. accounts \in Seq(Account) /\ DOMAIN accounts = 1..Len(accounts) /\ Len(accounts) \in Nat
    BY LenProperties DEF TaskInv, ListFits
  <2>2. CASE RowOf(n) = {}
    <3>1. accounts' = Append(accounts, n)
      BY <1>1, <2>2 DEF AddAccount
    <3>2. /\ DOMAIN accounts' = 1..(Len(accounts) + 1) /\ accounts'[Len(accounts) + 1] = n
          /\ \A i \in 1..Len(accounts) : accounts'[i] = accounts[i]
      BY <1>1, <2>1, <3>1, AppendProperties, LenProperties
    <3>3. \A i \in DOMAIN accounts' : i \in DOMAIN accounts \/ i = Len(accounts) + 1
      BY <2>1, <3>2
    <3>. QED
      BY <2>1, <3>2, <3>3 DEF Listed, Range
  <2>3. CASE RowOf(n) # {}
    BY <1>1, <2>1, <2>3 DEF AddAccount, Listed, Range
  <2>. QED
    BY <2>2, <2>3
<1>4. default' \in {n, default}
  BY DEF LogIn
<1>5. ListFits'
  BY <1>1, <1>2, <1>3, <1>4 DEF TaskInv, ListFits
<1>6. Busy' \subseteq Busy
  BY <1>2, <1>3 DEF Busy
<1>7. CountCovers'
  BY <1>6, FewerBusy DEF TaskInv
<1>8. state' = [state EXCEPT ![n] = "Online"]
  BY DEF LogIn
<1>9. TasksFit'
  BY <1>2, <1>7, <1>8 DEF TaskInv, TasksFit, Ends
<1>. QED
  BY <1>1, <1>2, <1>5, <1>9

LEMMA TaskEvents == TaskInv /\ Events => TaskInv'
<1>. SUFFICES ASSUME TaskInv, Events PROVE TaskInv'
  OBVIOUS
<1>1. CASE Startup
  BY <1>1, TryNextFits DEF Startup
<1>2. CASE RefreshTimeout
  BY <1>2, TryNextFits DEF RefreshTimeout
<1>3. CASE NextTimeout
  BY <1>3, TryNextFits DEF NextTimeout
<1>4. ASSUME NEW a \in Account, Age(a)
      PROVE  TaskInv'
  <2>1. UNCHANGED <<listVars, state, active, activityCount, launch>>
    BY <1>4 DEF Age
  <2>. QED
    BY <2>1, TasksKept, LaunchesKept DEF listVars, TaskInv, ListFits, Listed
<1>. QED
  BY <1>1, <1>2, <1>3, <1>4, RefreshEndsFits DEF Events

LEMMA TaskPages == TaskInv /\ PageSteps => TaskInv'
<1>. SUFFICES ASSUME TaskInv, PageSteps PROVE TaskInv'
  OBVIOUS
<1>1. ASSUME NEW n \in Account, AddByPage(n)
      PROVE  TaskInv'
  BY <1>1, LogInFits, LaunchesKept DEF AddByPage, TaskInv
<1>2. ASSUME NEW a \in Account, RequestRefresh(a)
      PROVE  TaskInv'
  <2>1. UNCHANGED <<listVars, launch>>
    BY <1>2 DEF RequestRefresh
  <2>2. CASE \E q : TryNext(q, refreshTimer)
    BY <2>1, <2>2, TryNextFits
  <2>3. CASE UNCHANGED <<active, state, activityCount>>
    BY <2>1, <2>3, TasksKept, LaunchesKept DEF listVars, TaskInv, ListFits, Listed
  <2>. QED
    BY <1>2, <2>2, <2>3 DEF RequestRefresh
<1>3. ASSUME NEW row \in DOMAIN accounts, RemoveByPage(row)
      PROVE  TaskInv'
  BY <1>3, DropFits, LaunchesKept DEF RemoveByPage, TaskInv
<1>4. ASSUME NEW d \in Account \cup {NoAccount}, SetDefault(d)
      PROVE  TaskInv'
  <2>1. UNCHANGED <<accounts, made, state, active, activityCount, launch>>
        /\ default' \in Listed \cup {NoAccount}
    BY <1>4 DEF SetDefault
  <2>. QED
    BY <2>1, TasksKept, LaunchesKept DEF TaskInv, ListFits, Listed
<1>. QED
  BY <1>1, <1>2, <1>3, <1>4 DEF PageSteps

\* A launch at the phase of a step.
LEMMA ControllerFits ==
  ASSUME TaskInv, NEW l \in Launches
  PROVE  /\ launch[l] \in Controller /\ launch[l].account \in made \cup {NoAccount}
         /\ launch[l].account \in Account \cup {NoAccount}
         /\ launch[l].claim \in Account \cup {NoAccount}
         /\ \A phase \in Phases : [launch[l] EXCEPT !.phase = phase] \in Controller
         /\ [Idle EXCEPT !.claim = launch[l].claim] \in Controller
BY DEF TaskInv, LaunchesFit, Controller, Idle, Phases

\* A step of a launch that touches no account and leads to a phase that does not wait.
LEMMA QuietLaunch ==
  ASSUME TaskInv, NEW l \in Launches, UNCHANGED accountVars,
         NEW r \in Controller, launch' = [launch EXCEPT ![l] = r],
         r.account \in {launch[l].account, NoAccount}, r.phase # "progress"
  PROVE  TaskInv'
<1>1. ListFits' /\ TasksFit'
  BY TasksKept DEF accountVars, listVars, TaskInv, ListFits, Listed
<1>2. LaunchesFit'
  BY ControllerFits, LaunchKept DEF accountVars, listVars, TaskInv
<1>. QED
  BY <1>1, <1>2 DEF TaskInv

LEMMA QuietGoes ==
  ASSUME TaskInv, NEW l \in Launches, UNCHANGED accountVars,
         Over(l) \/ \E phase \in Phases \ {"progress"} : Goes(l, phase)
  PROVE  TaskInv'
<1>1. CASE Over(l)
  <2>. DEFINE r == [Idle EXCEPT !.claim = launch[l].claim]
  <2>1. r \in Controller /\ r.account = NoAccount /\ r.phase = "idle"
    BY ControllerFits DEF Idle
  <2>2. launch' = [launch EXCEPT ![l] = r]
    BY <1>1 DEF Over
  <2>. HIDE DEF r
  <2>. QED
    BY <2>1, <2>2, QuietLaunch
<1>2. ASSUME NEW phase \in Phases \ {"progress"}, Goes(l, phase)
      PROVE  TaskInv'
  <2>. DEFINE r == [launch[l] EXCEPT !.phase = phase]
  <2>1. r \in Controller /\ r.account = launch[l].account /\ r.phase = phase
    BY ControllerFits DEF Controller
  <2>2. launch' = [launch EXCEPT ![l] = r]
    BY <1>2 DEF Goes
  <2>. HIDE DEF r
  <2>. QED
    BY <2>1, <2>2, QuietLaunch
<1>. QED
  BY <1>1, <1>2

\* Login steps that only open a dialog, go on or give up.
LEMMA TaskQuietLogin ==
  ASSUME TaskInv, NEW l \in Launches,
         \/ PlayOnline(l) \/ AskName(l) \/ NameGiven(l) \/ GiveUp(l) \/ AskToLogIn(l)
         \/ NotLoggedIn(l)
  PROVE  TaskInv'
<1>1. UNCHANGED accountVars
  BY DEF PlayOnline, AskName, NameGiven, GiveUp, AskToLogIn, NotLoggedIn, LaunchOnly
<1>2. ASSUME NEW claims \in BOOLEAN,
             launch' = [launch EXCEPT ![l].phase = "java", ![l].claims = claims]
      PROVE  TaskInv'
  <2>. DEFINE r == [launch[l] EXCEPT !.phase = "java", !.claims = claims]
  <2>1. r \in Controller /\ r.account = launch[l].account /\ r.phase = "java"
    BY ControllerFits DEF Controller, Phases
  <2>2. launch' = [launch EXCEPT ![l] = r]
    BY <1>2 DEF TaskInv, LaunchesFit
  <2>. HIDE DEF r
  <2>. QED
    BY <1>1, <2>1, <2>2, QuietLaunch
<1>3. \/ \E claims \in BOOLEAN :
           launch' = [launch EXCEPT ![l].phase = "java", ![l].claims = claims]
      \/ Over(l) \/ \E phase \in {"name", "java", "expired"} : Goes(l, phase)
  BY DEF PlayOnline, AskName, NameGiven, GiveUp, AskToLogIn, NotLoggedIn
<1>4. {"name", "java", "expired"} \subseteq Phases \ {"progress"}
  BY DEF Phases, Dialogs
<1>. QED
  BY <1>1, <1>2, <1>3, <1>4, QuietGoes

\* executeTask() of a controller with an account of the list.
LEMMA TaskLaunch ==
  ASSUME TaskInv, NEW l \in Launches, NEW a \in Account, NEW online \in BOOLEAN,
         Launch(l, a, online)
  PROVE  TaskInv'
<1>. DEFINE r == [launch[l] EXCEPT !.phase = "login", !.account = a, !.online = online]
<1>1. a \in made /\ UNCHANGED <<accounts, made, state, active, activityCount>>
      /\ default' \in {default, a}
  BY DEF Launch, TaskInv, ListFits
<1>2. r \in Controller /\ r.account = a /\ r.phase = "login"
  BY ControllerFits DEF Controller, Phases
<1>3. launch' = [launch EXCEPT ![l] = r]
  BY DEF Launch, TaskInv, LaunchesFit
<1>. HIDE DEF r
<1>4. ListFits' /\ TasksFit'
  BY <1>1, TasksKept DEF TaskInv, ListFits, Listed
<1>5. LaunchesFit'
  BY <1>1, <1>2, <1>3, LaunchKept DEF TaskInv
<1>. QED
  BY <1>4, <1>5 DEF TaskInv

\* "OnlineRequested" goes back to the loop with a refresh on its way.
LEMMA TaskOnlineRequested ==
  ASSUME TaskInv, NEW l \in Launches, OnlineRequested(l)
  PROVE  TaskInv'
<1>. DEFINE a == launch[l].account
            r == [launch[l] EXCEPT !.phase = "login", !.online = TRUE]
<1>1. UNCHANGED listVars
  BY DEF OnlineRequested
<1>2. ListFits'
  BY <1>1 DEF listVars, TaskInv, ListFits, Listed
<1>3. r \in Controller /\ r.account = a /\ r.phase = "login" /\ a \in made \cup {NoAccount}
  BY ControllerFits DEF Controller, Phases
<1>4. launch' = [launch EXCEPT ![l] = r]
  BY DEF OnlineRequested, TaskInv, LaunchesFit
<1>. HIDE DEF r
<1>5. TasksFit' /\ \A b \in Account : active[b] => active'[b]
  <2>1. CASE UNCHANGED <<active, state, activityCount>>
    BY <1>1, <2>1, TasksKept DEF listVars, TaskInv, Listed
  <2>2. CASE a \in made /\ Refresh(a)
    BY <1>1, <2>2, RefreshFits DEF listVars, TaskInv
  <2>3. CASE a = NoAccount /\ Refresh(a)
    <3>1. a \notin Account /\ a \notin Listed
      BY <2>3, AccountUseAssumption DEF TaskInv, ListFits
    <3>2. activityCount' = activityCount
      BY <2>3, <3>1 DEF Refresh, TaskInv, TasksFit
    <3>3. active' = active /\ state' = state
      BY <2>3, <3>1 DEF Refresh, TaskInv, TasksFit
    <3>. QED
      BY <1>1, <3>2, <3>3, TasksKept DEF listVars, TaskInv, Listed
  <2>. QED
    BY <1>3, <2>1, <2>2, <2>3 DEF OnlineRequested
<1>6. LaunchesFit'
  BY <1>1, <1>3, <1>4, <1>5, LaunchKept DEF listVars, TaskInv
<1>. QED
  BY <1>2, <1>5, <1>6 DEF TaskInv

\* The dialog opens for an account whose task runs, or whose task it starts.
LEMMA TaskAwaitRefresh ==
  ASSUME TaskInv, NEW l \in Launches, AwaitRefresh(l)
  PROVE  TaskInv'
<1>. DEFINE a == launch[l].account
            r == [launch[l] EXCEPT !.phase = "progress"]
<1>1. UNCHANGED listVars /\ a \in made /\ a \in Account
  BY ControllerFits DEF AwaitRefresh, AtLogin, TaskInv, ListFits
<1>2. ListFits'
  BY <1>1 DEF listVars, TaskInv, ListFits, Listed
<1>3. r \in Controller /\ r.account = a
  BY ControllerFits DEF Controller, Phases, Dialogs
<1>4. launch' = [launch EXCEPT ![l] = r]
  BY DEF AwaitRefresh, Goes
<1>. HIDE DEF r
<1>5. TasksFit' /\ active'[a] /\ \A b \in Account : active[b] => active'[b]
  <2>1. CASE UNCHANGED <<active, state, activityCount>> /\ state[a] = "Working"
    BY <1>1, <2>1, TasksKept DEF listVars, TaskInv, TasksFit, Listed
  <2>2. CASE Refresh(a)
    BY <1>1, <2>2, RefreshFits DEF listVars, TaskInv
  <2>. QED
    BY <2>1, <2>2 DEF AwaitRefresh, StateOf
<1>6. LaunchesFit'
  BY <1>1, <1>3, <1>4, <1>5, LaunchKept DEF listVars, TaskInv
<1>. QED
  BY <1>2, <1>5, <1>6 DEF TaskInv

LEMMA TaskRemoveExpired ==
  ASSUME TaskInv, NEW l \in Launches, RemoveExpired(l)
  PROVE  TaskInv'
<1>1. PICK phase \in {"relogin", "reloginDefault"} : Goes(l, phase)
  BY DEF RemoveExpired
<1>2. UNCHANGED <<active, state, activityCount, validity>>
  BY DEF RemoveExpired
<1>3. CASE UNCHANGED listVars
  BY <1>1, <1>2, <1>3, QuietGoes DEF accountVars, Phases, Dialogs
<1>4. ASSUME NEW row \in DOMAIN accounts, Drop(row)
      PROVE  TaskInv'
  <2>. DEFINE r == [launch[l] EXCEPT !.phase = phase]
  <2>1. r \in Controller /\ r.account = launch[l].account /\ r.phase # "progress"
        /\ r.account \in made \cup {NoAccount}
    BY ControllerFits DEF Controller, Phases, Dialogs
  <2>2. launch' = [launch EXCEPT ![l] = r]
    BY <1>1 DEF Goes
  <2>. HIDE DEF r
  <2>3. ListFits' /\ TasksFit' /\ made' = made
    BY <1>2, <1>4, DropFits
  <2>4. LaunchesFit'
    BY <1>2, <2>1, <2>2, <2>3, LaunchKept DEF TaskInv
  <2>. QED
    BY <2>3, <2>4 DEF TaskInv
<1>. QED
  BY <1>3, <1>4 DEF RemoveExpired, RowOf

LEMMA TaskLogInAgain ==
  ASSUME TaskInv, NEW l \in Launches, NEW n \in Account, LogInAgain(l, n)
  PROVE  TaskInv'
<1>1. ListFits' /\ TasksFit' /\ made \subseteq made'
  BY LogInFits DEF LogInAgain
<1>2. PICK a \in made' \cup {NoAccount} :
        launch' = [launch EXCEPT ![l].account = a, ![l].phase = "login"]
  <2>1. default' \in made' \cup {NoAccount} /\ Range(accounts') \subseteq made'
    BY <1>1 DEF ListFits, Listed
  <2>2. PICK a \in IF default' # NoAccount THEN {default'} ELSE Range(accounts') \cup {NoAccount} :
          launch' = [launch EXCEPT ![l].account = a, ![l].phase = "login"]
    BY Zenon DEF LogInAgain
  <2>. QED
    BY <2>1, <2>2
<1>. DEFINE r == [launch[l] EXCEPT !.account = a, !.phase = "login"]
<1>3. a \in Account \cup {NoAccount}
  BY <1>1 DEF ListFits
<1>4. r \in Controller /\ r.account = a /\ r.phase = "login"
  BY <1>3, ControllerFits DEF Controller, Phases
<1>5. launch' = [launch EXCEPT ![l] = r]
  BY <1>2 DEF TaskInv, LaunchesFit
<1>6. UNCHANGED active
  BY DEF LogInAgain
<1>. HIDE DEF r
<1>7. LaunchesFit'
  BY <1>1, <1>2, <1>4, <1>5, <1>6, LaunchKept DEF TaskInv
<1>. QED
  BY <1>1, <1>7 DEF TaskInv

\* The steps of the launch claim an account of the list.
LEMMA TaskLaunchSteps ==
  ASSUME TaskInv, NEW l \in Launches, LaunchSteps(l)
  PROVE  TaskInv'
<1>1. UNCHANGED accountVars
  BY DEF LaunchSteps, JavaMatched, EarlyStepFails, Claim, Finished, LaunchOnly
<1>2. ASSUME NEW a \in Claimed(l),
             launch' = [launch EXCEPT ![l].phase = "steps", ![l].claim = a]
      PROVE  TaskInv'
  <2>. DEFINE r == [launch[l] EXCEPT !.phase = "steps", !.claim = a]
  <2>1. a \in Account \cup {NoAccount}
    BY LenProperties, ElementOfSeq DEF Claimed, RowOf, TaskInv, ListFits
  <2>2. r \in Controller /\ r.account = launch[l].account /\ r.phase = "steps"
    BY <2>1, ControllerFits DEF Controller, Phases
  <2>3. launch' = [launch EXCEPT ![l] = r]
    BY <1>2 DEF TaskInv, LaunchesFit
  <2>. HIDE DEF r
  <2>. QED
    BY <1>1, <2>2, <2>3, QuietLaunch
<1>3. \/ Over(l) \/ \E phase \in {"stuck", "playing"} : Goes(l, phase)
      \/ \E a \in Claimed(l) :
           launch' = [launch EXCEPT ![l].phase = "steps", ![l].claim = a]
  BY DEF LaunchSteps, JavaMatched, EarlyStepFails, Claim, Finished
<1>. QED
  BY <1>1, <1>2, <1>3, QuietGoes DEF Phases, Dialogs

LEMMA TaskInit == Init => TaskInv
<1>. SUFFICES ASSUME Init PROVE TaskInv
  OBVIOUS
<1>1. accounts \in Seq(Account)
  BY AccountUseAssumption DEF Init
<1>2. ListFits
  BY <1>1, LenProperties, ElementOfSeq DEF Init, ListFits, Listed, Range
<1>3. Busy = {}
  <2>1. \A a \in Listed : a \in Account /\ active[a] = FALSE
    BY <1>2 DEF Init, ListFits
  <2>. QED
    BY <2>1 DEF Busy
<1>4. CountCovers
  <2>1. activityCount = 0 /\ Cardinality({}) = 0
    BY FS_EmptySet DEF Init
  <2>2. activityCount >= Cardinality(Busy)
    BY <1>3, <2>1
  <2>. QED
    BY <2>2 DEF CountCovers, Busy
<1>5. TasksFit
  BY <1>4 DEF Init, TasksFit
<1>6. Idle \in Controller /\ Idle.phase = "idle" /\ Idle.account = NoAccount
  BY DEF Idle, Controller, Phases
<1>7. LaunchesFit
  BY <1>6 DEF Init, LaunchesFit
<1>. QED
  BY <1>2, <1>5, <1>7 DEF TaskInv

LEMMA TaskStep == TaskInv /\ [Next]_vars => TaskInv'
<1>. SUFFICES ASSUME TaskInv, [Next]_vars PROVE TaskInv'
  OBVIOUS
<1>1. ASSUME NEW l \in Launches, LoginSteps(l)
      PROVE  TaskInv'
  BY <1>1, TaskQuietLogin, TaskLaunch, TaskOnlineRequested, TaskAwaitRefresh,
     TaskRemoveExpired, TaskLogInAgain DEF LoginSteps
<1>2. CASE Next
  BY <1>1, <1>2, TaskEvents, TaskPages, TaskLaunchSteps DEF Next
<1>3. CASE UNCHANGED vars
  BY <1>3, TasksKept, LaunchesKept DEF vars, listVars, TaskInv, ListFits, Listed
<1>. QED
  BY <1>2, <1>3

\* A launch that waits, or is about to wait, for a refresh has a task to wait for
\* (LaunchController::login, MinecraftAccount::refresh).
THEOREM NoVainWait == Spec => []WaitsForLiveTask
<1>1. TaskInv => WaitsForLiveTask
  BY DEF TaskInv, TasksFit, LaunchesFit, WaitsForLiveTask, AtLogin, In, StateOf, Controller
<1>. QED
  BY TaskInit, TaskStep, <1>1, PTL DEF Spec

\* The list counts at least the tasks of its accounts, whichever of them are replaced,
\* removed or refreshed meanwhile (AccountList::accountActivityChanged).
THEOREM CountIsEnough == Spec => []CountCovers
<1>1. TaskInv => CountCovers
  BY DEF TaskInv, TasksFit
<1>. QED
  BY TaskInit, TaskStep, <1>1, PTL DEF Spec

(***************************************************************************)
(* The types of all variables, and the use counts.                         *)
(***************************************************************************)
\* What the queue holds.
Ids == Account \cup {Blank}

\* The launches whose game uses the account.
Players(a) == {l \in Launches : launch[l].phase = "playing" /\ launch[l].claim = a}

\* m_useCount is the number of games that use the account.
UsesFit == uses = [a \in Account |-> Cardinality(Players(a))]

IdsFit == id \in [Account -> Ids] /\ queue \in Seq(Ids)

ChainFits ==
  /\ watched \subseteq Account /\ current \in Account \cup {NoAccount}
  /\ nextTimer \in BOOLEAN /\ refreshTimer \in BOOLEAN

FlagsFit ==
  /\ validity \in [Account -> {"None", "Assumed", "Certain", "Expiring"}]
  /\ started \in BOOLEAN /\ crashed \in BOOLEAN
  /\ requests \in 0..MaxRequests

TypeInv == TaskInv /\ UsesFit /\ IdsFit /\ ChainFits /\ FlagsFit

\* A set of natural numbers that is not empty has a smallest member.
LEMMA LeastMember ==
  ASSUME NEW T, T \subseteq Nat, T # {}
  PROVE  \E x \in T : \A y \in T : x <= y
<1>. DEFINE R == {ss \in Nat \X Nat : ss[1] < ss[2]}
<1>1. IsWellFoundedOn(R, Nat)
  BY NatLessThanWellFounded DEF OpToRel
<1>2. PICK x \in T : \A y \in T : <<y, x>> \notin R
  <2>. HIDE DEF R
  <2>. QED
    BY <1>1, WFMin
<1>3. ASSUME NEW y \in T PROVE x <= y
  <2>1. x \in Nat /\ y \in Nat /\ <<y, x>> \in Nat \X Nat /\ <<y, x>> \notin R
    BY <1>2
  <2>2. ~(y < x)
    BY <2>1
  <2>. QED
    BY <2>1, <2>2
<1>. QED
  BY <1>3

\* The use counts are natural numbers up to the number of launches.
LEMMA UsesBounded ==
  ASSUME UsesFit, NEW a \in Account
  PROVE  /\ IsFiniteSet(Players(a)) /\ uses[a] = Cardinality(Players(a))
         /\ uses[a] \in 0..Cardinality(Launches)
<1>1. IsFiniteSet(Launches) /\ Players(a) \subseteq Launches
  BY AccountUseAssumption DEF Players
<1>2. /\ IsFiniteSet(Players(a)) /\ Cardinality(Players(a)) <= Cardinality(Launches)
      /\ Cardinality(Players(a)) \in Nat /\ Cardinality(Launches) \in Nat
  BY <1>1, FS_Subset, FS_CardinalityType
<1>. QED
  BY <1>2 DEF UsesFit

\* The controllers that neither start nor end a game leave the counts alone.
LEMMA UsesKept ==
  ASSUME UsesFit, UNCHANGED uses,
         \A l \in Launches :
           \/ launch'[l].phase # "playing" /\ launch[l].phase # "playing"
           \/ launch'[l] = launch[l]
  PROVE  UsesFit'
<1>1. ASSUME NEW a \in Account PROVE Players(a)' = Players(a)
  BY DEF Players
<1>. QED
  BY <1>1 DEF UsesFit

\* One controller moves, outside of the game.
LEMMA UsesKeptBy ==
  ASSUME TypeInv, UNCHANGED uses, NEW l \in Launches, launch[l].phase # "playing",
         launch'[l].phase # "playing", \A k \in Launches : k # l => launch'[k] = launch[k]
  PROVE  UsesFit'
BY UsesKept DEF TypeInv

\* ClaimAccount::executeTask() counts the game it starts.
LEMMA ClaimCounts ==
  ASSUME TypeInv, NEW l \in Launches, Claim(l)
  PROVE  UsesFit'
<1>. DEFINE a == launch[l].claim
            phase == IF launch[l].claims /\ a = NoAccount THEN "stuck" ELSE "playing"
<1>1. /\ launch[l].phase = "steps"
      /\ launch' = [launch EXCEPT ![l].phase = phase]
      /\ uses' = IF a = NoAccount THEN uses ELSE [uses EXCEPT ![a] = @ + 1]
  BY DEF Claim, In, Goes
<1>2. launch \in [Launches -> Controller] /\ a \in Account \cup {NoAccount}
  BY ControllerFits DEF TypeInv, TaskInv, LaunchesFit
<1>3. /\ launch'[l].phase = phase /\ launch'[l].claim = a
      /\ \A k \in Launches : k # l => launch'[k] = launch[k]
  BY <1>1, <1>2 DEF Controller
<1>. HIDE DEF phase
<1>4. ASSUME NEW b \in Account, b # a
      PROVE  Players(b)' = Players(b)
  BY <1>3, <1>4 DEF Players
<1>5. CASE a = NoAccount
  <2>1. a \notin Account
    BY <1>5, AccountUseAssumption
  <2>. QED
    BY <1>1, <1>4, <1>5, <2>1 DEF TypeInv, UsesFit
<1>6. CASE a # NoAccount
  <2>1. a \in Account /\ phase = "playing"
    BY <1>2, <1>6 DEF phase
  <2>2. ASSUME NEW b \in Account, b = a
        PROVE  Cardinality(Players(b)') = uses[b] + 1
    <3>1. Players(b)' = Players(b) \cup {l} /\ l \notin Players(b)
      BY <1>1, <1>3, <2>1, <2>2 DEF Players
    <3>. QED
      BY <3>1, UsesBounded, FS_AddElement DEF TypeInv
  <2>3. /\ uses' = [uses EXCEPT ![a] = uses[a] + 1]
        /\ uses = [b \in Account |-> Cardinality(Players(b))]
    BY <1>1, <1>6 DEF TypeInv, UsesFit
  <2>. HIDE DEF a
  <2>4. ASSUME NEW b \in Account PROVE Cardinality(Players(b)') = uses'[b]
    <3>1. CASE b = a
      BY <2>1, <2>2, <2>3, <3>1
    <3>2. CASE b # a
      <4>1. Players(b)' = Players(b) /\ uses[b] = Cardinality(Players(b)) /\ uses'[b] = uses[b]
        BY <1>4, <2>3, <3>2
      <4>. QED
        BY <4>1
    <3>. QED
      BY <3>1, <3>2
  <2>5. uses' = [b \in Account |-> uses'[b]]
    BY <2>1, <2>3
  <2>. QED
    BY <2>4, <2>5 DEF UsesFit
<1>. QED
  BY <1>5, <1>6

\* finalizeSteps() releases the account the game used.
LEMMA FinishCounts ==
  ASSUME TypeInv, NEW l \in Launches, Finished(l)
  PROVE  UsesFit'
<1>. DEFINE a == launch[l].claim
<1>1. /\ launch[l].phase = "playing"
      /\ launch' = [launch EXCEPT ![l] = [Idle EXCEPT !.claim = a]]
      /\ uses' = IF a = NoAccount THEN uses ELSE [uses EXCEPT ![a] = @ - 1]
  BY DEF Finished, In, Over
<1>2. launch \in [Launches -> Controller] /\ a \in Account \cup {NoAccount}
  BY ControllerFits DEF TypeInv, TaskInv, LaunchesFit
<1>3. /\ launch'[l].phase = "idle"
      /\ \A k \in Launches : k # l => launch'[k] = launch[k]
  BY <1>1, <1>2 DEF Idle
<1>4. ASSUME NEW b \in Account, b # a
      PROVE  Players(b)' = Players(b)
  BY <1>3, <1>4 DEF Players
<1>5. CASE a = NoAccount
  <2>1. a \notin Account
    BY <1>5, AccountUseAssumption
  <2>. QED
    BY <1>1, <1>4, <1>5, <2>1 DEF TypeInv, UsesFit
<1>6. CASE a # NoAccount
  <2>1. a \in Account
    BY <1>2, <1>6
  <2>2. ASSUME NEW b \in Account, b = a
        PROVE  Cardinality(Players(b)') = uses[b] - 1
    <3>1. Players(b)' = Players(b) \ {l} /\ l \in Players(b)
      BY <1>1, <1>3, <2>1, <2>2 DEF Players
    <3>. QED
      BY <3>1, UsesBounded, FS_RemoveElement DEF TypeInv
  <2>3. /\ uses' = [uses EXCEPT ![a] = uses[a] - 1]
        /\ uses = [b \in Account |-> Cardinality(Players(b))]
    BY <1>1, <1>6 DEF TypeInv, UsesFit
  <2>. HIDE DEF a
  <2>4. ASSUME NEW b \in Account PROVE Cardinality(Players(b)') = uses'[b]
    <3>1. CASE b = a
      BY <2>1, <2>2, <2>3, <3>1
    <3>2. CASE b # a
      <4>1. Players(b)' = Players(b) /\ uses[b] = Cardinality(Players(b)) /\ uses'[b] = uses[b]
        BY <1>4, <2>3, <3>2
      <4>. QED
        BY <4>1
    <3>. QED
      BY <3>1, <3>2
  <2>5. uses' = [b \in Account |-> uses'[b]]
    BY <2>1, <2>3
  <2>. QED
    BY <2>4, <2>5 DEF UsesFit
<1>. QED
  BY <1>5, <1>6

(***************************************************************************)
(* The queue that fillQueue() makes.                                       *)
(***************************************************************************)
\* Counting up: what holds of 0 and of every number after one it holds of.
LEMMA CountUp ==
  ASSUME NEW n \in Nat, NEW G, 0 \in G, \A k \in 1..n : k - 1 \in G => k \in G
  PROVE  \A k \in 0..n : k \in G
<1>. DEFINE B == {k \in 0..n : k \notin G}
<1>. SUFFICES ASSUME B # {} PROVE FALSE
  OBVIOUS
<1>1. PICK m \in B : \A j \in B : m <= j
  <2>1. B \subseteq Nat
    OBVIOUS
  <2>. HIDE DEF B
  <2>. QED
    BY <2>1, LeastMember
<1>2. m \in 1..n /\ m - 1 \in 0..n /\ m - 1 \notin B
  BY <1>1
<1>. QED
  BY <1>1, <1>2

\* What fillQueue() does with one row.
Row(n, q) ==
  IF accounts[n] # default /\ ShouldRefresh(accounts[n]) THEN QueueRefresh(q, accounts[n]) ELSE q
FillStart ==
  IF default # NoAccount /\ ShouldRefresh(default) THEN Append(queue, id[default]) ELSE queue

\* One row leaves a queue of ids.
LEMMA RowKeepsQueue ==
  ASSUME TypeInv
  PROVE  /\ FillStart \in Seq(Ids)
         /\ \A n \in 1..Len(accounts), q \in Seq(Ids) : Row(n, q) \in Seq(Ids)
<1>1. /\ accounts \in Seq(Account) /\ default \in Account \cup {NoAccount}
      /\ id \in [Account -> Ids] /\ queue \in Seq(Ids)
  BY DEF TypeInv, TaskInv, ListFits, IdsFit
<1>2. FillStart \in Seq(Ids)
  BY <1>1, AppendProperties DEF FillStart
<1>3. ASSUME NEW n \in 1..Len(accounts), NEW q \in Seq(Ids)
      PROVE  Row(n, q) \in Seq(Ids)
  <2>1. id[accounts[n]] \in Ids
    BY <1>1, ElementOfSeq
  <2>. QED
    BY <2>1, AppendProperties DEF Row, QueueRefresh
<1>. QED
  BY <1>2, <1>3

\* The recursion has a value for every number of rows.
LEMMA FilledToRows ==
  ASSUME TypeInv
  PROVE  FilledTo = [n \in 0..Len(accounts) |->
                       IF n = 0 THEN FillStart ELSE Row(n, FilledTo[n - 1])]
<1>. DEFINE L == Len(accounts)
            Rows(m, f) == [n \in 0..m |-> IF n = 0 THEN FillStart ELSE Row(n, f[n - 1])]
            G == {m \in 0..L : \E f : f = Rows(m, f)}
<1>1. L \in Nat
  BY LenProperties DEF TypeInv, TaskInv, ListFits
<1>2. 0 \in G
  <2>. DEFINE f == [n \in 0..0 |-> FillStart]
  <2>1. f = Rows(0, f)
    OBVIOUS
  <2>. HIDE DEF f, Rows
  <2>. QED
    BY <1>1, <2>1
<1>3. ASSUME NEW m \in 1..L, m - 1 \in G PROVE m \in G
  <2>1. PICK f : f = Rows(m - 1, f)
    BY <1>3
  <2>. DEFINE g == [n \in 0..m |-> IF n = m THEN Row(m, f[m - 1]) ELSE f[n]]
  <2>2. ASSUME NEW n \in 0..m
        PROVE  g[n] = IF n = 0 THEN FillStart ELSE Row(n, g[n - 1])
    <3>1. CASE n = m
      <4>1. g[m] = Row(m, f[m - 1]) /\ g[m - 1] = f[m - 1] /\ m # 0
        BY <1>1
      <4>. HIDE DEF g
      <4>. QED
        BY <3>1, <4>1
    <3>2. CASE n # m
      <4>1. n \in 0..(m - 1) /\ g[n] = f[n] /\ (n # 0 => g[n - 1] = f[n - 1])
        BY <3>2
      <4>2. f[n] = IF n = 0 THEN FillStart ELSE Row(n, f[n - 1])
        BY <2>1, <4>1
      <4>. HIDE DEF g
      <4>. QED
        BY <4>1, <4>2
    <3>. QED
      BY <3>1, <3>2
  <2>3. g = Rows(m, g)
    BY <2>2
  <2>. HIDE DEF g, Rows
  <2>. QED
    BY <2>3
<1>4. L \in G
  <2>. HIDE DEF G, L
  <2>1. \A m \in 0..L : m \in G
    BY <1>1, <1>2, <1>3, CountUp
  <2>. QED
    BY <1>1, <2>1
<1>5. \E f : f = [n \in 0..Len(accounts) |-> IF n = 0 THEN FillStart ELSE Row(n, f[n - 1])]
  BY <1>4
<1>. QED
  BY <1>5 DEF FilledTo, FillStart, Row

LEMMA FilledIsQueue ==
  ASSUME TypeInv
  PROVE  Filled \in Seq(Ids)
<1>. DEFINE L == Len(accounts)
            G == {n \in 0..L : FilledTo[n] \in Seq(Ids)}
<1>1. L \in Nat
  BY LenProperties DEF TypeInv, TaskInv, ListFits
<1>2. 0 \in G
  <2>1. FilledTo[0] = FillStart
    BY <1>1, FilledToRows
  <2>. QED
    BY <1>1, <2>1, RowKeepsQueue
<1>3. ASSUME NEW n \in 1..L, n - 1 \in G PROVE n \in G
  <2>1. n \in 0..L /\ FilledTo[n - 1] \in Seq(Ids) /\ FilledTo[n] = Row(n, FilledTo[n - 1])
    BY <1>1, <1>3, FilledToRows
  <2>. QED
    BY <2>1, RowKeepsQueue
<1>4. L \in G
  <2>. HIDE DEF G, L
  <2>1. \A n \in 0..L : n \in G
    BY <1>1, <1>2, <1>3, CountUp
  <2>. QED
    BY <1>1, <2>1
<1>. QED
  BY <1>4 DEF Filled

(***************************************************************************)
(* The steps keep the use counts.                                          *)
(***************************************************************************)
\* A phase that is not the game.
LEMMA UsesGo ==
  ASSUME TypeInv, UNCHANGED uses, NEW l \in Launches, launch[l].phase # "playing",
         Over(l) \/ \E phase \in Phases \ {"playing"} : Goes(l, phase)
  PROVE  UsesFit'
<1>1. launch \in [Launches -> Controller] /\ launch[l] \in Controller
  BY ControllerFits DEF TypeInv, TaskInv, LaunchesFit
<1>2. launch'[l].phase # "playing" /\ \A k \in Launches : k # l => launch'[k] = launch[k]
  BY <1>1 DEF Over, Goes, Idle, Controller
<1>. QED
  BY <1>2, UsesKeptBy

\* Steps of the list leave the controllers at their phases, or wake one that waits.
LEMMA UsesOfList == TypeInv /\ (Events \/ PageSteps) => UsesFit'
<1>. SUFFICES ASSUME TypeInv, Events \/ PageSteps PROVE UsesFit'
  OBVIOUS
<1>1. CASE UNCHANGED <<uses, launch>>
  BY <1>1, UsesKept DEF TypeInv
<1>2. ASSUME NEW a \in Account, NEW outcome \in Outcomes, RefreshEnds(a, outcome)
      PROVE  UsesFit'
  <2>1. /\ UNCHANGED uses
        /\ launch' = [l \in Launches |->
             IF launch[l].phase = "progress" /\ launch[l].account = a
             THEN [launch[l] EXCEPT !.phase = "login"] ELSE launch[l]]
    BY <1>2 DEF RefreshEnds
  <2>2. ASSUME NEW l \in Launches
        PROVE  \/ launch'[l].phase # "playing" /\ launch[l].phase # "playing"
               \/ launch'[l] = launch[l]
    BY <2>1, ControllerFits DEF TypeInv, Controller
  <2>. QED
    BY <2>1, <2>2, UsesKept DEF TypeInv
<1>3. \/ UNCHANGED <<uses, launch>>
      \/ \E a \in Account, outcome \in Outcomes : RefreshEnds(a, outcome)
  BY DEF Events, PageSteps, Startup, RefreshTimeout, NextTimeout, Age, AddByPage,
         RequestRefresh, RemoveByPage, SetDefault
<1>. QED
  BY <1>1, <1>2, <1>3

\* A login loop runs before the game.
LEMMA UsesOfLogin ==
  ASSUME TypeInv, NEW l \in Launches, LoginSteps(l)
  PROVE  UsesFit'
<1>. USE DEF In, AtLogin
<1>1. {"name", "java", "expired", "progress", "relogin", "reloginDefault"}
        \subseteq Phases \ {"playing"}
  BY DEF Phases, Dialogs
<1>2. launch \in [Launches -> Controller] /\ launch[l] \in Controller
  BY ControllerFits DEF TypeInv, TaskInv, LaunchesFit
<1>3. CASE PlayOnline(l)
  <2>1. UNCHANGED uses /\ launch[l].phase # "playing"
    BY <1>3 DEF PlayOnline, LaunchOnly
  <2>2. ASSUME NEW claims,
               launch' = [launch EXCEPT ![l].phase = "java", ![l].claims = claims]
        PROVE  UsesFit'
    <3>1. launch'[l].phase = "java" /\ \A k \in Launches : k # l => launch'[k] = launch[k]
      BY <1>2, <2>2 DEF Controller
    <3>. QED
      BY <2>1, <3>1, UsesKeptBy
  <2>. QED
    BY <1>3, <2>1, <2>2, UsesGo DEF PlayOnline
<1>4. CASE \/ AskName(l) \/ NameGiven(l) \/ AwaitRefresh(l) \/ GiveUp(l) \/ AskToLogIn(l)
           \/ RemoveExpired(l) \/ NotLoggedIn(l)
  <2>1. UNCHANGED uses /\ launch[l].phase # "playing"
    BY <1>4 DEF AskName, NameGiven, AwaitRefresh, GiveUp, AskToLogIn, RemoveExpired,
                NotLoggedIn, LaunchOnly
  <2>2. Over(l) \/ \E phase \in Phases \ {"playing"} : Goes(l, phase)
    BY <1>1, <1>4 DEF AskName, NameGiven, AwaitRefresh, GiveUp, AskToLogIn, RemoveExpired,
                      NotLoggedIn
  <2>. QED
    BY <2>1, <2>2, UsesGo
<1>5. CASE OnlineRequested(l)
  <2>1. UNCHANGED uses /\ launch[l].phase # "playing"
        /\ launch' = [launch EXCEPT ![l].phase = "login", ![l].online = TRUE]
    BY <1>5 DEF OnlineRequested
  <2>2. launch'[l].phase = "login" /\ \A k \in Launches : k # l => launch'[k] = launch[k]
    BY <1>2, <2>1 DEF Controller
  <2>. QED
    BY <2>1, <2>2, UsesKeptBy
<1>6. ASSUME NEW a \in Account, NEW online \in BOOLEAN, Launch(l, a, online)
      PROVE  UsesFit'
  <2>1. UNCHANGED uses /\ launch[l].phase # "playing"
        /\ launch' = [launch EXCEPT ![l].phase = "login", ![l].account = a, ![l].online = online]
    BY <1>6 DEF Launch
  <2>2. launch'[l].phase = "login" /\ \A k \in Launches : k # l => launch'[k] = launch[k]
    BY <1>2, <2>1 DEF Controller
  <2>. QED
    BY <2>1, <2>2, UsesKeptBy
<1>7. ASSUME NEW n \in Account, LogInAgain(l, n)
      PROVE  UsesFit'
  <2>1. UNCHANGED uses /\ launch[l].phase # "playing"
    BY <1>7 DEF LogInAgain
  <2>2. PICK a : launch' = [launch EXCEPT ![l].account = a, ![l].phase = "login"]
    BY <1>7, Zenon DEF LogInAgain
  <2>3. launch'[l].phase = "login" /\ \A k \in Launches : k # l => launch'[k] = launch[k]
    BY <1>2, <2>2 DEF Controller
  <2>. QED
    BY <2>1, <2>3, UsesKeptBy
<1>. QED
  BY <1>3, <1>4, <1>5, <1>6, <1>7 DEF LoginSteps

LEMMA UsesStep == TypeInv /\ [Next]_vars => UsesFit'
<1>. SUFFICES ASSUME TypeInv, [Next]_vars PROVE UsesFit'
  OBVIOUS
<1>1. ASSUME NEW l \in Launches, LaunchSteps(l)
      PROVE  UsesFit'
  <2>1. CASE EarlyStepFails(l)
    BY <2>1, UsesGo DEF EarlyStepFails, LaunchOnly, In
  <2>2. CASE JavaMatched(l)
    <3>1. UNCHANGED uses /\ launch[l].phase # "playing"
      BY <2>2 DEF JavaMatched, LaunchOnly, In
    <3>2. ASSUME NEW a, launch' = [launch EXCEPT ![l].phase = "steps", ![l].claim = a]
          PROVE  UsesFit'
      <4>1. launch'[l].phase = "steps" /\ \A k \in Launches : k # l => launch'[k] = launch[k]
        BY <3>2, ControllerFits DEF TypeInv, TaskInv, LaunchesFit, Controller
      <4>. QED
        BY <3>1, <4>1, UsesKeptBy
    <3>. QED
      BY <2>2, <3>1, <3>2, UsesGo DEF JavaMatched
  <2>. QED
    BY <1>1, <2>1, <2>2, ClaimCounts, FinishCounts DEF LaunchSteps
<1>2. CASE Next
  BY <1>1, <1>2, UsesOfList, UsesOfLogin DEF Next
<1>3. CASE UNCHANGED vars
  BY <1>3, UsesKept DEF vars, TypeInv
<1>. QED
  BY <1>2, <1>3

(***************************************************************************)
(* The steps keep the types of the queue, the timers and the flags.        *)
(***************************************************************************)
QueueFits == IdsFit /\ ChainFits

\* tryNext() takes ids off the queue, and turns to an account of the list.
LEMMA TryNextQueue ==
  ASSUME TypeInv, NEW q \in Seq(Ids), NEW timer \in BOOLEAN, TryNext(q, timer),
         UNCHANGED id, nextTimer' \in BOOLEAN
  PROVE  QueueFits'
<1>1. /\ accounts \in Seq(Account) /\ watched \subseteq Account
      /\ current \in Account \cup {NoAccount}
      /\ DOMAIN q = 1..Len(q) /\ Len(q) \in Nat
  BY LenProperties DEF TypeInv, TaskInv, ListFits, ChainFits
<1>2. CASE queue' = <<>> /\ refreshTimer' = TRUE /\ UNCHANGED <<current, watched>>
  BY <1>1, <1>2 DEF TypeInv, IdsFit, ChainFits, QueueFits
<1>3. ASSUME NEW i \in DOMAIN q, NEW j \in DOMAIN accounts,
             current' = accounts[j], watched' = watched \cup {accounts[j]},
             queue' = SubSeq(q, i + 1, Len(q)), refreshTimer' = timer
      PROVE  QueueFits'
  <2>1. accounts[j] \in Account
    BY <1>1, LenProperties, ElementOfSeq
  <2>2. queue' \in Seq(Ids)
    BY <1>1, <1>3, SubSeqProperties
  <2>. QED
    BY <1>1, <1>3, <2>1, <2>2 DEF TypeInv, IdsFit, ChainFits, QueueFits
<1>. QED
  BY <1>2, <1>3 DEF TryNext

LEMMA QueueKept ==
  ASSUME TypeInv, UNCHANGED chainVars, id' \in [Account -> Ids]
  PROVE  QueueFits'
BY DEF TypeInv, IdsFit, ChainFits, QueueFits, chainVars

\* requestRefresh() moves an id to the front.
LEMMA RequestQueue ==
  ASSUME TypeInv, NEW a \in Account, RequestRefresh(a)
  PROVE  QueueFits'
<1>. DEFINE at == {i \in DOMAIN queue : queue[i] = id[a]}
            rest == IF at = {} THEN queue ELSE RemoveAt(queue, Min(at))
            q == <<id[a]>> \o rest
<1>1. queue \in Seq(Ids) /\ id \in [Account -> Ids] /\ id[a] \in Ids
  BY DEF TypeInv, IdsFit
<1>2. rest \in Seq(Ids)
  <2>1. CASE at # {}
    <3>1. at \subseteq Nat
      BY <1>1, LenProperties
    <3>2. \E x \in at : \A y \in at : x <= y
      BY <2>1, <3>1, LeastMember
    <3>. HIDE DEF at
    <3>3. Min(at) \in at
      BY <3>2 DEF Min
    <3>4. Min(at) \in DOMAIN queue
      BY <3>3 DEF at
    <3>. QED
      BY <1>1, <2>1, <3>4, RemovalKeepsList
  <2>. QED
    BY <1>1, <2>1
<1>3. /\ UNCHANGED <<id, nextTimer>>
      /\ \/ TryNext(q, refreshTimer)
         \/ queue' = q /\ UNCHANGED <<current, watched, refreshTimer>>
  BY DEF RequestRefresh, listVars
<1>. HIDE DEF rest
<1>4. q \in Seq(Ids)
  <2>1. <<id[a]>> \in Seq(Ids)
    BY <1>1
  <2>. QED
    BY <1>2, <2>1, ConcatProperties
<1>. HIDE DEF q
<1>5. nextTimer \in BOOLEAN /\ refreshTimer \in BOOLEAN
  BY DEF TypeInv, ChainFits
<1>6. CASE TryNext(q, refreshTimer)
  BY <1>3, <1>4, <1>5, <1>6, TryNextQueue
<1>7. CASE queue' = q /\ UNCHANGED <<current, watched, refreshTimer>>
  BY <1>1, <1>3, <1>4, <1>7 DEF TypeInv, IdsFit, ChainFits, QueueFits
<1>. QED
  BY <1>3, <1>6, <1>7

\* A login gives the account an id, which is empty at Microsoft.
LEMMA LogInFlags ==
  ASSUME TypeInv, NEW n \in Account, NEW isDefault, LogIn(n, isDefault)
  PROVE  /\ id' \in [Account -> Ids]
         /\ validity' \in [Account -> {"None", "Assumed", "Certain", "Expiring"}]
BY DEF TypeInv, IdsFit, FlagsFit, LogIn, Ids

LEMMA QueueStep == TypeInv /\ [Next]_vars => QueueFits'
<1>. SUFFICES ASSUME TypeInv, [Next]_vars PROVE QueueFits'
  OBVIOUS
<1>. USE DEF listVars, accountVars
<1>1. /\ id \in [Account -> Ids] /\ queue \in Seq(Ids)
      /\ nextTimer \in BOOLEAN /\ refreshTimer \in BOOLEAN
  BY DEF TypeInv, IdsFit, ChainFits
<1>2. CASE Startup \/ RefreshTimeout
  <2>1. /\ UNCHANGED <<id, nextTimer>>
        /\ TryNext(Filled, refreshTimer) \/ TryNext(Filled, FALSE)
    BY <1>2 DEF Startup, RefreshTimeout
  <2>. QED
    BY <1>1, <2>1, TryNextQueue, FilledIsQueue
<1>3. CASE NextTimeout
  BY <1>1, <1>3, TryNextQueue DEF NextTimeout
<1>4. ASSUME NEW a \in Account, NEW outcome \in Outcomes, RefreshEnds(a, outcome)
      PROVE  QueueFits'
  <2>1. /\ UNCHANGED <<id, queue, refreshTimer>>
        /\ watched' = watched \ {a}
        /\ current' \in {NoAccount, current}
        /\ nextTimer' \in BOOLEAN
    BY <1>4 DEF RefreshEnds
  <2>. QED
    BY <2>1 DEF TypeInv, IdsFit, ChainFits, QueueFits
<1>5. ASSUME NEW n \in Account, AddByPage(n)
      PROVE  QueueFits'
  BY <1>5, LogInFlags, QueueKept DEF AddByPage
<1>6. ASSUME NEW l \in Launches, NEW n \in Account, LogInAgain(l, n)
      PROVE  QueueFits'
  <2>1. LogIn(n, launch[l].phase = "reloginDefault") /\ UNCHANGED chainVars
    BY <1>6 DEF LogInAgain
  <2>. QED
    BY <2>1, LogInFlags, QueueKept
<1>7. CASE UNCHANGED <<id, chainVars>>
  BY <1>1, <1>7, QueueKept
<1>8. ASSUME NEW l \in Launches, LoginSteps(l)
      PROVE  UNCHANGED <<id, chainVars>> \/ \E n \in Account : LogInAgain(l, n)
  <2>1. CASE \/ \E a \in Account, online \in BOOLEAN : Launch(l, a, online)
             \/ PlayOnline(l) \/ AskName(l) \/ NameGiven(l) \/ OnlineRequested(l)
             \/ AwaitRefresh(l) \/ GiveUp(l) \/ AskToLogIn(l) \/ NotLoggedIn(l)
    BY <2>1 DEF Launch, PlayOnline, AskName, NameGiven, OnlineRequested, AwaitRefresh,
                GiveUp, AskToLogIn, NotLoggedIn, LaunchOnly
  <2>2. CASE RemoveExpired(l)
    BY <2>2 DEF RemoveExpired, Drop
  <2>. QED
    BY <1>8, <2>1, <2>2 DEF LoginSteps
<1>9. ASSUME NEW l \in Launches, LaunchSteps(l)
      PROVE  UNCHANGED <<id, chainVars>>
  BY <1>9 DEF LaunchSteps, JavaMatched, EarlyStepFails, Claim, Finished, LaunchOnly
<1>10. CASE Events
  <2>1. ASSUME NEW a \in Account, Age(a) PROVE UNCHANGED <<id, chainVars>>
    BY <2>1 DEF Age
  <2>. QED
    BY <1>2, <1>3, <1>4, <1>7, <1>10, <2>1 DEF Events
<1>11. CASE PageSteps
  <2>1. ASSUME NEW row \in DOMAIN accounts, RemoveByPage(row) PROVE UNCHANGED <<id, chainVars>>
    BY <2>1 DEF RemoveByPage, Drop
  <2>2. ASSUME NEW d, SetDefault(d) PROVE UNCHANGED <<id, chainVars>>
    BY <2>2 DEF SetDefault
  <2>. QED
    BY <1>5, <1>7, <1>11, <2>1, <2>2, RequestQueue DEF PageSteps
<1>12. CASE UNCHANGED vars
  BY <1>7, <1>12 DEF vars
<1>. QED
  BY <1>6, <1>7, <1>8, <1>9, <1>10, <1>11, <1>12 DEF Next

LEMMA FlagsStep == TypeInv /\ [Next]_vars => FlagsFit'
<1>. SUFFICES ASSUME TypeInv, [Next]_vars PROVE FlagsFit'
  OBVIOUS
<1>1. /\ validity \in [Account -> {"None", "Assumed", "Certain", "Expiring"}]
      /\ started \in BOOLEAN /\ crashed \in BOOLEAN
      /\ requests \in 0..MaxRequests /\ MaxRequests \in Nat
  BY AccountUseAssumption DEF TypeInv, FlagsFit
<1>2. CASE UNCHANGED <<validity, started, crashed, requests>>
  BY <1>1, <1>2 DEF FlagsFit
<1>3. CASE Startup
  BY <1>1, <1>3 DEF Startup, FlagsFit
<1>4. ASSUME NEW a \in Account, NEW outcome \in Outcomes, RefreshEnds(a, outcome)
      PROVE  FlagsFit'
  <2>1. ValidityAfter(a, outcome) \in {"None", "Assumed", "Certain", "Expiring"}
    BY <1>1 DEF ValidityAfter
  <2>2. /\ validity' = [validity EXCEPT ![a] = ValidityAfter(a, outcome)]
        /\ crashed' \in BOOLEAN /\ UNCHANGED <<started, requests>>
    BY <1>4 DEF RefreshEnds
  <2>. QED
    BY <1>1, <2>1, <2>2 DEF FlagsFit
<1>5. ASSUME NEW a \in Account, Age(a)
      PROVE  FlagsFit'
  BY <1>1, <1>5 DEF Age, FlagsFit
<1>6. ASSUME NEW n \in Account, AddByPage(n)
      PROVE  FlagsFit'
  BY <1>1, <1>6, LogInFlags DEF AddByPage, FlagsFit
<1>7. ASSUME NEW a \in Account, RequestRefresh(a)
      PROVE  FlagsFit'
  <2>1. /\ UNCHANGED <<validity, started, crashed>>
        /\ requests < MaxRequests /\ requests' = requests + 1
    BY <1>7 DEF RequestRefresh
  <2>. QED
    BY <1>1, <2>1 DEF FlagsFit
<1>8. ASSUME NEW l \in Launches, NEW n \in Account, LogInAgain(l, n)
      PROVE  FlagsFit'
  <2>1. LogIn(n, launch[l].phase = "reloginDefault") /\ UNCHANGED <<started, requests>>
    BY <1>8 DEF LogInAgain
  <2>2. crashed' \in BOOLEAN
    BY <1>8 DEF LogInAgain
  <2>. QED
    BY <1>1, <2>1, <2>2, LogInFlags DEF FlagsFit
<1>9. ASSUME NEW l \in Launches, LoginSteps(l) \/ LaunchSteps(l)
      PROVE  \/ UNCHANGED <<validity, started, crashed, requests>>
             \/ \E n \in Account : LogInAgain(l, n)
  <2>. USE DEF accountVars
  <2>1. CASE LaunchSteps(l)
    BY <2>1 DEF LaunchSteps, JavaMatched, EarlyStepFails, Claim, Finished, LaunchOnly
  <2>2. CASE LoginSteps(l)
    BY <2>2 DEF LoginSteps, Launch, PlayOnline, AskName, NameGiven, OnlineRequested,
                AwaitRefresh, GiveUp, AskToLogIn, RemoveExpired, NotLoggedIn, LaunchOnly
  <2>. QED
    BY <1>9, <2>1, <2>2
<1>10. CASE Events
  <2>1. RefreshTimeout \/ NextTimeout => UNCHANGED <<validity, started, crashed, requests>>
    BY DEF RefreshTimeout, NextTimeout
  <2>. QED
    BY <1>2, <1>3, <1>4, <1>5, <1>10, <2>1 DEF Events
<1>11. CASE PageSteps
  <2>1. ASSUME NEW row, RemoveByPage(row)
        PROVE  UNCHANGED <<validity, started, crashed, requests>>
    BY <2>1 DEF RemoveByPage
  <2>2. ASSUME NEW d, SetDefault(d)
        PROVE  UNCHANGED <<validity, started, crashed, requests>>
    BY <2>2 DEF SetDefault
  <2>. QED
    BY <1>2, <1>6, <1>7, <1>11, <2>1, <2>2 DEF PageSteps
<1>12. CASE UNCHANGED vars
  BY <1>2, <1>12 DEF vars
<1>. QED
  BY <1>2, <1>8, <1>9, <1>10, <1>11, <1>12 DEF Next

LEMMA TypeInit == Init => TypeInv
<1>. SUFFICES ASSUME Init PROVE TypeInv
  OBVIOUS
<1>1. ListFits /\ TaskInv
  BY TaskInit DEF TaskInv
<1>2. UsesFit
  <2>1. ASSUME NEW a \in Account PROVE Cardinality(Players(a)) = 0
    <3>1. Players(a) = {}
      BY DEF Init, Idle, Players
    <3>. QED
      BY <3>1, FS_EmptySet
  <2>2. uses = [a \in Account |-> 0]
    BY DEF Init
  <2>. QED
    BY <2>1, <2>2 DEF UsesFit
<1>3. IdsFit
  BY DEF Init, IdsFit, Ids
<1>4. ChainFits
  BY DEF Init, ChainFits
<1>5. FlagsFit
  <2>1. validity \in [Account -> {"None", "Assumed", "Certain", "Expiring"}]
    <3>1. validity \in [Account -> {"None", "Assumed"}]
      BY DEF Init
    <3>. QED
      BY <3>1
  <2>2. started \in BOOLEAN /\ crashed \in BOOLEAN
    BY DEF Init
  <2>3. requests \in 0..MaxRequests
    BY AccountUseAssumption DEF Init
  <2>. QED
    BY <2>1, <2>2, <2>3 DEF FlagsFit
<1>. QED
  BY <1>1, <1>2, <1>3, <1>4, <1>5 DEF TypeInv

LEMMA TypeStep == TypeInv /\ [Next]_vars => TypeInv'
<1>1. TypeInv /\ [Next]_vars => TaskInv'
  BY TaskStep DEF TypeInv
<1>. QED
  BY <1>1, UsesStep, QueueStep, FlagsStep DEF TypeInv, QueueFits

\* Every variable keeps its type; in particular no release takes a use count below
\* zero, and the queue never holds anything but ids.
THEOREM TypesHold == Spec => []TypeOK
<1>1. TypeInv => TypeOK
  <2>. SUFFICES ASSUME TypeInv PROVE TypeOK
    OBVIOUS
  <2>1. uses \in [Account -> 0..Cardinality(Launches)]
    <3>1. \A a \in Account : uses[a] \in 0..Cardinality(Launches)
      BY UsesBounded DEF TypeInv
    <3>. QED
      BY <3>1 DEF TypeInv, UsesFit
  <2>. QED
    BY <2>1 DEF TypeInv, TaskInv, ListFits, TasksFit, LaunchesFit, IdsFit, ChainFits, FlagsFit,
                Controller, Ids, TypeOK
<1>. QED
  BY TypeInit, TypeStep, <1>1, PTL DEF Spec

\* An account is in use exactly while a game plays with it: its count is the number of
\* these games, whatever fails, is aborted or logged in meanwhile
\* (ClaimAccount::executeTask, finalize).
THEOREM UseCountIsExact == Spec => []UsesFit
<1>1. TypeInv => UsesFit
  BY DEF TypeInv
<1>. QED
  BY TypeInit, TypeStep, <1>1, PTL DEF Spec
=============================================================================
