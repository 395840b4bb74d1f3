----------------------------- MODULE AccountUse -----------------------------
(***************************************************************************)
(* The accounts of the launcher and who uses them: AccountList with its    *)
(* queue of background refreshes, MinecraftAccount with its task           *)
(* (launcher/minecraft/auth), the login loop of LaunchController.cpp, and  *)
(* the lock that ClaimAccount.cpp holds while the game runs.               *)
(*                                                                         *)
(* An account is an object; objects of the same profile replace each       *)
(* other.  Everything runs on one event loop: timers, answers of the       *)
(* network and clicks are steps, and a modal dialog is a phase of the      *)
(* launch that opened it, during which timers and the network go on.       *)
(***************************************************************************)
EXTENDS Naturals, Sequences, FiniteSets, SequencesExt

CONSTANTS
  Account,      \* the account objects
  ProfileOf,    \* the profile of each
  Microsoft,    \* the accounts that are logged in at Microsoft, not at a skin site
  Stored,       \* the lists that may be loaded from accounts.json; loading skips an
                \* account whose profile is there already
  Launches,     \* the launch controllers
  Outcomes,     \* the account states a refresh may end in
  MaxRequests,  \* bound on the clicks on "Refresh"
  Blank,        \* the empty internalId
  NoAccount     \* a null pointer to an account

Ends == {"Online", "Offline", "Errored", "MustMigrate", "Expired", "Gone"}

ASSUME AccountUseAssumption ==
  /\ IsFiniteSet(Account) /\ NoAccount \notin Account /\ Blank \notin Account
  /\ DOMAIN ProfileOf = Account
  /\ Microsoft \subseteq Account
  /\ Stored \subseteq Seq(Account)
  /\ \A s \in Stored : \A i, j \in DOMAIN s : ProfileOf[s[i]] = ProfileOf[s[j]] => i = j
  /\ Outcomes \subseteq Ends
  /\ MaxRequests \in Nat /\ IsFiniteSet(Launches)

VARIABLES
  accounts,       \* m_accounts
  default,        \* m_defaultAccount
  made,           \* the objects that exist or existed (history)
  id,             \* internalId
  state,          \* accountState
  validity,       \* validity_; "Expiring" is Certain with less than 12 hours left
  active,         \* does MinecraftAccount::m_currentTask run?
  uses,           \* m_useCount
  queue,          \* m_refreshQueue
  current,        \* AccountList::m_currentTask, by its account
  watched,        \* the accounts whose task reports to the list
  nextTimer,      \* does m_nextTimer run?
  refreshTimer,   \* does m_refreshTimer run?
  activityCount,  \* m_activityCount
  started,        \* was fillQueue() called after loading?
  requests,       \* clicks on "Refresh" so far
  crashed,        \* did the program use a null pointer or a dead account?
  launch          \* of each controller: phase, m_accountToUse, m_userWantsOnline,
                  \* will the session claim an account, and ClaimAccount::m_account

listVars == <<accounts, default, made, id>>
chainVars == <<queue, current, watched, nextTimer, refreshTimer>>
vars == <<listVars, state, validity, active, uses, chainVars, activityCount, started,
          requests, crashed, launch>>

Listed == Range(accounts)
Idle == [phase |-> "idle", account |-> NoAccount, online |-> FALSE, claims |-> FALSE,
         claim |-> NoAccount]
Dialogs == {"progress", "name", "expired", "relogin", "reloginDefault"}
Phases == {"idle", "login", "java", "steps", "playing", "stuck"} \cup Dialogs

TypeOK ==
  /\ accounts \in Seq(Account)
  /\ default \in Account \cup {NoAccount}
  /\ made \subseteq Account
  /\ id \in [Account -> Account \cup {Blank}]
  /\ state \in [Account -> Ends \cup {"Unchecked", "Working"}]
  /\ validity \in [Account -> {"None", "Assumed", "Certain", "Expiring"}]
  /\ active \in [Account -> BOOLEAN]
  /\ uses \in [Account -> 0..Cardinality(Launches)]
  /\ queue \in Seq(Account \cup {Blank})
  /\ current \in Account \cup {NoAccount}
  /\ watched \subseteq Account
  /\ {nextTimer, refreshTimer, started, crashed} \subseteq BOOLEAN
  /\ activityCount \in Nat
  /\ requests \in 0..MaxRequests
  /\ launch \in [Launches -> [phase : Phases, account : Account \cup {NoAccount},
                              online : BOOLEAN, claims : BOOLEAN,
                              claim : Account \cup {NoAccount}]]

\* loadList(): accounts are unchecked, and assumed to be valid unless their tokens
\* were dropped in an earlier session.
Init ==
  /\ accounts \in Stored
  /\ default \in Listed \cup {NoAccount}
  /\ made = Listed
  /\ id = [a \in Account |-> a]
  /\ state = [a \in Account |-> "Unchecked"]
  /\ validity \in {v \in [Account -> {"None", "Assumed"}] :
                     \A a \in Account \ Listed : v[a] = "None"}
  /\ active = [a \in Account |-> FALSE]
  /\ uses = [a \in Account |-> 0]
  /\ queue = <<>> /\ current = NoAccount /\ watched = {}
  /\ nextTimer = FALSE /\ refreshTimer = FALSE /\ started = FALSE
  /\ activityCount = 0 /\ requests = 0 /\ crashed = FALSE
  /\ launch = [l \in Launches |-> Idle]

(***************************************************************************)
(* MinecraftAccount.                                                       *)
(***************************************************************************)
ShouldRefresh(a) == uses[a] = 0 /\ validity[a] \in {"Assumed", "Expiring"}

\* Mutant: an activity beside another one is not counted.
RefreshCountsOnce(a) ==
  /\ active' = [active EXCEPT ![a] = TRUE]
  /\ state' = [state EXCEPT ![a] = "Working"]
  /\ activityCount' = IF ~active[a] /\ a \in Listed THEN 1 ELSE activityCount

\* refresh() and the start of its task, or the task that runs already.
Refresh(a) ==
  /\ active' = [active EXCEPT ![a] = TRUE]
  /\ state' = [state EXCEPT ![a] = "Working"]
  /\ activityCount' = activityCount + (IF ~active[a] /\ a \in Listed THEN 1 ELSE 0)

\* An object lives while somebody holds it, and its task while it lives or the
\* list holds the task.
Alive(a) ==
  \/ a \in Listed \cup {default}
  \/ \E l \in Launches : a \in {launch[l].account, launch[l].claim}
TaskLives(a) == active[a] /\ (Alive(a) \/ current = a)

\* What authSucceeded() and authFailed() leave of validity_.
ValidityAfter(a, outcome) ==
  CASE outcome = "Online" -> "Certain"
    [] outcome \in {"Expired", "Gone"} -> "None"
    [] OTHER -> validity[a]

(***************************************************************************)
(* The refresh queue of AccountList.                                       *)
(***************************************************************************)
Known(i) == \E a \in Listed : id[a] = i

\* tryNext() on queue q; `timer` is m_refreshTimer before it.
TryNext(q, timer) ==
  \/ /\ \A i \in DOMAIN q : ~Known(q[i])
     /\ queue' = <<>> /\ refreshTimer' = TRUE
     /\ UNCHANGED <<active, state, activityCount, current, watched>>
  \/ \E i \in DOMAIN q, j \in DOMAIN accounts :
       /\ id[accounts[j]] = q[i]
       /\ \A k \in 1..(i - 1) : ~Known(q[k])
       /\ \A k \in 1..(j - 1) : id[accounts[k]] # q[i]
       /\ Refresh(accounts[j])
       /\ current' = accounts[j]
       /\ watched' = watched \cup {accounts[j]}
       /\ queue' = SubSeq(q, i + 1, Len(q)) /\ refreshTimer' = timer

QueueRefresh(q, a) == IF id[a] \in Range(q) THEN q ELSE Append(q, id[a])

\* The queue fillQueue() makes of the default account and the first n rows.
FilledTo[n \in 0..Len(accounts)] ==
  IF n = 0
  THEN IF default # NoAccount /\ ShouldRefresh(default) THEN Append(queue, id[default])
       ELSE queue
  ELSE IF accounts[n] # default /\ ShouldRefresh(accounts[n])
       THEN QueueRefresh(FilledTo[n - 1], accounts[n])
       ELSE FilledTo[n - 1]

\* The queue fillQueue() passes to tryNext().
Filled == FilledTo[Len(accounts)]

Startup ==
  /\ ~crashed /\ ~started /\ started' = TRUE
  /\ TryNext(Filled, refreshTimer)
  /\ UNCHANGED <<listVars, validity, uses, nextTimer, requests, crashed, launch>>

\* Mutant: the hourly timer runs what is queued and queues nothing.
RefreshTimeoutFillsNothing ==
  /\ ~crashed /\ refreshTimer
  /\ TryNext(queue, FALSE)
  /\ UNCHANGED <<listVars, validity, uses, nextTimer, started, crashed, requests, launch>>

RefreshTimeout ==
  /\ ~crashed /\ refreshTimer
  /\ TryNext(Filled, FALSE)
  /\ UNCHANGED <<listVars, validity, uses, nextTimer, started, crashed, requests, launch>>

NextTimeout ==
  /\ ~crashed /\ nextTimer /\ nextTimer' = FALSE
  /\ TryNext(queue, refreshTimer)
  /\ UNCHANGED <<listVars, validity, uses, started, crashed, requests, launch>>

\* Mutant: authFailed() does not start the timer.
GoesOnIfOnline(a, outcome) == a \in watched /\ outcome = "Online"

\* authSucceeded() and authFailed() of the list, both the same.
GoesOn(a, outcome) == a \in watched

\* A refresh ends, as whatever: the account takes the outcome, the list goes on in
\* 20 seconds if it waited for it, and the dialogs that wait for it close.  The data
\* of a dead account is written all the same, which may crash.
RefreshEnds(a, outcome) ==
  /\ ~crashed /\ TaskLives(a)
  /\ state' = [state EXCEPT ![a] = outcome]
  /\ validity' = [validity EXCEPT ![a] = ValidityAfter(a, outcome)]
  /\ active' = [active EXCEPT ![a] = FALSE]
  /\ activityCount' = IF a \in Listed /\ activityCount > 0 THEN activityCount - 1
                      ELSE activityCount
  /\ watched' = watched \ {a}
  /\ current' = IF GoesOn(a, outcome) THEN NoAccount ELSE current
  /\ nextTimer' = (nextTimer \/ GoesOn(a, outcome))
  /\ launch' = [l \in Launches |->
       IF launch[l].phase = "progress" /\ launch[l].account = a
       THEN [launch[l] EXCEPT !.phase = "login"] ELSE launch[l]]
  /\ crashed' \in IF Alive(a) THEN {FALSE} ELSE BOOLEAN
  /\ UNCHANGED <<listVars, uses, queue, refreshTimer, started, requests>>

\* Twelve hours pass.
Age(a) ==
  /\ ~crashed /\ started /\ validity[a] = "Certain"
  /\ validity' = [validity EXCEPT ![a] = "Expiring"]
  /\ UNCHANGED <<listVars, state, active, uses, chainVars, activityCount, started, crashed,
                 requests, launch>>

(***************************************************************************)
(* The user and the list.  A modal dialog keeps the rest of the windows    *)
(* from being used.                                                        *)
(***************************************************************************)
AtHand == ~crashed /\ started /\ \A l \in Launches : launch[l].phase \notin Dialogs \cup {"login"}

\* findAccountByProfileId(): the first row with the profile of n, if there is one.
RowOf(n) ==
  LET rows == {i \in DOMAIN accounts : ProfileOf[accounts[i]] = ProfileOf[n]}
  IN {i \in rows : \A j \in rows : i <= j}

\* Mutant: an account that is there already is not replaced.
AddAccountTwice(n) == Append(accounts, n)

\* addAccount() replaces the account of the same profile.
AddAccount(n) ==
  IF RowOf(n) = {} THEN Append(accounts, n)
  ELSE [i \in DOMAIN accounts |-> IF i \in RowOf(n) THEN n ELSE accounts[i]]

\* A login that succeeded, in MSALoginDialog or BsLoginDialog, and addAccount().
\* The login at Microsoft assigns AccountData() and with it an empty internalId.
LogIn(n, isDefault) ==
  /\ n \notin made /\ made' = made \cup {n}
  /\ id' = [id EXCEPT ![n] = IF n \in Microsoft THEN Blank ELSE n]
  /\ state' = [state EXCEPT ![n] = "Online"]
  /\ validity' = [validity EXCEPT ![n] = "Certain"]
  /\ accounts' = AddAccount(n)
  /\ default' = IF isDefault \/ (default \in Listed \ Range(AddAccount(n))) THEN n
                ELSE default

\* An account that is alone in the list becomes the default one.
AddByPage(n) ==
  /\ AtHand
  /\ LogIn(n, Len(AddAccount(n)) = 1)
  /\ UNCHANGED <<active, uses, chainVars, activityCount, started, crashed, requests, launch>>

\* Mutant: the default account stays when it is removed.
DropKeepsDefault(row) ==
  /\ accounts' = RemoveAt(accounts, row)
  /\ UNCHANGED <<default, made, id>>

\* removeAccount()
Drop(row) ==
  /\ accounts' = RemoveAt(accounts, row)
  /\ default' = IF default = accounts[row] THEN NoAccount ELSE default
  /\ UNCHANGED <<made, id>>

\* The page offers this only for an account without a running task.
RemoveByPage(row) ==
  /\ AtHand /\ ~active[accounts[row]]
  /\ Drop(row)
  /\ UNCHANGED <<state, validity, active, uses, chainVars, activityCount, started, crashed,
                 requests, launch>>

\* The page, and the menu of the main window.
SetDefault(d) ==
  /\ AtHand /\ d \in Listed \cup {NoAccount} /\ d # default
  /\ default' = d
  /\ UNCHANGED <<accounts, made, id, state, validity, active, uses, chainVars,
                 activityCount, started, crashed, requests, launch>>

\* requestRefresh(): the id moves to the front, and the queue is run if no account
\* is active.
RequestRefresh(a) ==
  LET at == {i \in DOMAIN queue : queue[i] = id[a]}
      rest == IF at = {} THEN queue ELSE RemoveAt(queue, Min(at))
      q == <<id[a]>> \o rest
  IN /\ AtHand /\ a \in Listed /\ ~active[a]
     /\ requests < MaxRequests /\ requests' = requests + 1
     /\ IF activityCount = 0 THEN TryNext(q, refreshTimer)
        ELSE /\ queue' = q
             /\ UNCHANGED <<active, state, activityCount, current, watched, refreshTimer>>
     /\ UNCHANGED <<listVars, validity, uses, nextTimer, started, crashed, launch>>

(***************************************************************************)
(* LaunchController::login().                                              *)
(***************************************************************************)
In(l, phase) == ~crashed /\ launch[l].phase = phase
Goes(l, phase) == launch' = [launch EXCEPT ![l].phase = phase]
\* The instance keeps its last launch task, and with it the account to claim.
Over(l) == launch' = [launch EXCEPT ![l] = [Idle EXCEPT !.claim = launch[l].claim]]

accountVars == <<listVars, state, validity, active, activityCount>>
LaunchOnly == UNCHANGED <<accountVars, uses, chainVars, started, crashed, requests>>

\* executeTask() and decideAccount(): the account given by the caller, the default
\* one, or one the user picks, which may become the default.
Launch(l, a, online) ==
  /\ AtHand /\ launch[l].phase = "idle" /\ a \in Listed
  /\ launch' = [launch EXCEPT ![l].phase = "login", ![l].account = a, ![l].online = online]
  /\ default' \in IF default = NoAccount THEN {default, a} ELSE {default}
  /\ UNCHANGED <<accounts, made, id, state, validity, active, activityCount, uses,
                 chainVars, started, crashed, requests>>

StateOf(l) == state[launch[l].account]
AtLogin(l) == In(l, "login") /\ launch[l].account # NoAccount

\* The session plays online, or as a demo, or the user does not own the game.
PlayOnline(l) ==
  /\ AtLogin(l) /\ StateOf(l) = "Online" /\ launch[l].online
  /\ \/ \E claims \in BOOLEAN :
          launch' = [launch EXCEPT ![l].phase = "java", ![l].claims = claims]
     \/ Over(l)
  /\ LaunchOnly

\* OfflineNameDialog, for a session that does not want or cannot have to be online.
AskName(l) ==
  /\ AtLogin(l) /\ StateOf(l) \in {"Online", "Offline"}
  /\ ~(StateOf(l) = "Online" /\ launch[l].online)
  /\ Goes(l, "name")
  /\ LaunchOnly

NameGiven(l) ==
  /\ In(l, "name")
  /\ Goes(l, "java") \/ Over(l)
  /\ LaunchOnly

OnlineRequested(l) ==
  /\ In(l, "name")
  /\ launch' = [launch EXCEPT ![l].phase = "login", ![l].online = TRUE]
  /\ IF StateOf(l) = "Offline" THEN Refresh(launch[l].account)
     ELSE UNCHANGED <<active, state, activityCount>>
  /\ UNCHANGED <<listVars, validity, uses, chainVars, started, crashed, requests>>

\* Mutant: an account that had a soft error is not refreshed.
AwaitRefreshIfUnchecked(l) ==
  /\ AtLogin(l) /\ StateOf(l) \in {"Errored", "Unchecked", "Working"}
  /\ Goes(l, "progress")
  /\ IF StateOf(l) # "Unchecked" THEN UNCHANGED <<active, state, activityCount>>
     ELSE Refresh(launch[l].account)
  /\ UNCHANGED <<listVars, validity, uses, chainVars, started, crashed, requests>>

\* An account that is unchecked or had a soft error is refreshed; the dialog waits
\* for its task, also for one that runs already.
AwaitRefresh(l) ==
  /\ AtLogin(l) /\ StateOf(l) \in {"Errored", "Unchecked", "Working"}
  /\ Goes(l, "progress")
  /\ IF StateOf(l) = "Working" THEN UNCHANGED <<active, state, activityCount>>
     ELSE Refresh(launch[l].account)
  /\ UNCHANGED <<listVars, validity, uses, chainVars, started, crashed, requests>>

GiveUp(l) ==
  /\ AtLogin(l) /\ StateOf(l) \in {"Gone", "MustMigrate"}
  /\ Over(l)
  /\ LaunchOnly

AskToLogIn(l) ==
  /\ AtLogin(l) /\ StateOf(l) = "Expired"
  /\ Goes(l, "expired")
  /\ LaunchOnly

\* The answer is OK: the account that has this profile now is removed.
RemoveExpired(l) ==
  LET a == launch[l].account
  IN /\ In(l, "expired")
     /\ Goes(l, IF default = a THEN "reloginDefault" ELSE "relogin")
     /\ \/ RowOf(a) = {} /\ UNCHANGED listVars
        \/ \E row \in RowOf(a) : Drop(row)
     /\ UNCHANGED <<state, validity, active, activityCount, uses, chainVars, started, crashed,
                    requests>>

\* The login succeeds; then the default account is used, or one the user picks.
\* Picking none leaves a null pointer, and the loop goes on.
LogInAgain(l, n) ==
  /\ In(l, "relogin") \/ In(l, "reloginDefault")
  /\ LogIn(n, launch[l].phase = "reloginDefault")
  /\ \E a \in IF default' # NoAccount THEN {default'} ELSE Range(accounts') \cup {NoAccount} :
       /\ launch' = [launch EXCEPT ![l].account = a, ![l].phase = "login"]
       /\ crashed' = (a = NoAccount)
  /\ UNCHANGED <<active, activityCount, uses, chainVars, started, requests>>

\* "Cancel", or the login fails.
NotLoggedIn(l) ==
  /\ \E phase \in {"expired", "relogin", "reloginDefault"} : In(l, phase)
  /\ Over(l)
  /\ LaunchOnly

(***************************************************************************)
(* The launch itself: JavaMatchTask, then the steps of the LaunchTask.     *)
(***************************************************************************)
\* getAccountByProfileName(), when the steps are put together.
Claimed(l) ==
  LET rows == RowOf(launch[l].account)
  IN IF launch[l].claims /\ rows # {} THEN {accounts[i] : i \in rows} ELSE {NoAccount}

JavaMatched(l) ==
  /\ In(l, "java")
  /\ \/ \E a \in Claimed(l) :
          launch' = [launch EXCEPT ![l].phase = "steps", ![l].claim = a]
     \/ Over(l)
  /\ LaunchOnly

\* Mutant: the account is released although it is not claimed yet.
EarlyStepReleases(l) ==
  LET a == launch[l].claim
  IN /\ In(l, "steps")
     /\ Over(l)
     /\ uses' = IF a = NoAccount THEN uses ELSE [uses EXCEPT ![a] = @ - 1]
     /\ UNCHANGED <<accountVars, chainVars, started, crashed, requests>>

\* A step before ClaimAccount fails or is aborted.
EarlyStepFails(l) ==
  /\ In(l, "steps")
  /\ Over(l)
  /\ LaunchOnly

\* ClaimAccount::executeTask() says nothing if it has no account to claim.
Claim(l) ==
  LET a == launch[l].claim
  IN /\ In(l, "steps")
     /\ Goes(l, IF launch[l].claims /\ a = NoAccount THEN "stuck" ELSE "playing")
     /\ uses' = IF a = NoAccount THEN uses ELSE [uses EXCEPT ![a] = @ + 1]
     /\ UNCHANGED <<accountVars, chainVars, started, crashed, requests>>

\* The game ends, or a later step fails or is aborted: finalizeSteps().
Finished(l) ==
  LET a == launch[l].claim
  IN /\ In(l, "playing")
     /\ Over(l)
     /\ uses' = IF a = NoAccount THEN uses ELSE [uses EXCEPT ![a] = @ - 1]
     /\ UNCHANGED <<accountVars, chainVars, started, crashed, requests>>

Events ==
  \/ Startup \/ RefreshTimeout \/ NextTimeout
  \/ \E a \in Account : \/ Age(a)
                        \/ \E outcome \in Outcomes : RefreshEnds(a, outcome)

PageSteps ==
  \/ \E a \in Account : AddByPage(a) \/ RequestRefresh(a)
  \/ \E row \in DOMAIN accounts : RemoveByPage(row)
  \/ \E d \in Account \cup {NoAccount} : SetDefault(d)

LoginSteps(l) ==
  \/ \E a \in Account, online \in BOOLEAN : Launch(l, a, online)
  \/ PlayOnline(l) \/ AskName(l) \/ NameGiven(l) \/ OnlineRequested(l)
  \/ AwaitRefresh(l) \/ GiveUp(l) \/ AskToLogIn(l) \/ RemoveExpired(l) \/ NotLoggedIn(l)
  \/ \E n \in Account : LogInAgain(l, n)

LaunchSteps(l) == JavaMatched(l) \/ EarlyStepFails(l) \/ Claim(l) \/ Finished(l)

\* The loop of a dialog may handle further events before it returns to login().
Next == Events \/ PageSteps \/ \E l \in Launches : LoginSteps(l) \/ LaunchSteps(l)

Spec == Init /\ [][Next]_vars

\* Timers that run expire, and a refresh ends: each of its requests has a timeout.
Fairness ==
  /\ WF_vars(Startup)
  /\ WF_vars(RefreshTimeout)
  /\ WF_vars(NextTimeout)
  /\ \A a \in Account : WF_vars(\E outcome \in Outcomes : RefreshEnds(a, outcome))

FairSpec == Spec /\ Fairness

(***************************************************************************)
(* Properties.                                                             *)
(***************************************************************************)
\* The default account is one of the list, and no two accounts of the list have the
\* same profile, whatever order logins, removals and launches come in
\* (AccountList::addAccount, removeAccount, LaunchController::login).
ListConsistent ==
  /\ default \in Listed \cup {NoAccount}
  /\ \A i, j \in DOMAIN accounts :
       ProfileOf[accounts[i]] = ProfileOf[accounts[j]] => i = j

\* A launch that waits, or is about to wait, for a refresh has a task to wait for: the
\* dialog would never close, or the loop would spin, on an account that is "Working"
\* with its task gone (LaunchController::login, MinecraftAccount::refresh).
WaitsForLiveTask ==
  \A l \in Launches :
    LET a == launch[l].account
    IN (launch[l].phase = "progress" \/ (AtLogin(l) /\ StateOf(l) = "Working")) => active[a]

\* The background refresh never stalls: once started, one of the timers runs, or a
\* task runs that the list keeps alive and that reports to it, also when its account
\* was replaced, removed or refreshed by a launch meanwhile (AccountList::tryNext,
\* authSucceeded, authFailed).
ChainAlive ==
  started => \/ refreshTimer \/ nextTimer
             \/ current \in watched /\ active[current]

\* The list is active while an account in it is: it counts at least the tasks of its
\* accounts (AccountList::accountActivityChanged).
CountCovers == activityCount >= Cardinality({a \in Listed : active[a]})

\* An account whose token is assumed or about to expire is refreshed at last, unless
\* it is used, removed or replaced (AccountList::fillQueue, tryNext).
EveryStaleRefreshed ==
  \A a \in Account :
    (started /\ a \in Listed /\ ShouldRefresh(a))
      ~> (active[a] \/ ~ShouldRefresh(a) \/ a \notin Listed \/ crashed)

\* "Never refresh accounts that are being used by the game, it breaks the game
\* session." (MinecraftAccount::shouldRefresh)
RefreshSparesGame ==
  [][\A a \in Account : (~active[a] /\ active'[a]) => (uses[a] = 0)]_vars
=============================================================================
