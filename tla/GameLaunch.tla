----------------------------- MODULE GameLaunch -----------------------------
(***************************************************************************)
(* A launch of an instance: the steps that LaunchTask runs one after the   *)
(* other, what they take and leave behind, the update of the game's files, *)
(* the processes, and the ways to stop it.                                 *)
(*                                                                         *)
(* A step that ends calls onStepFinished(), which starts the next one from *)
(* inside the same call.  Each step of that chain is one action here; while *)
(* `chain` the event loop delivers nothing.  `frames` is the call stack:   *)
(* modal boxes and dialogs run event loops of their own, inside of which   *)
(* the launch goes on, and only the topmost can be answered.               *)
(***************************************************************************)
EXTENDS Integers, Sequences, FiniteSets

CONSTANTS
  Settings,     \* how instances, sessions and profilers may be set up
  MaxLaunches,  \* bound on launches of the instance
  MaxQuits      \* bound on ends of the launcher at any time

SettingsType ==
  [validMethod : BOOLEAN,  \* is the launch method known?
   server      : BOOLEAN,  \* join a server whose port is to be looked up?
   pre         : BOOLEAN,  \* is there a pre-launch command?
   post        : BOOLEAN,  \* is there a post-exit command?
   session     : {"online", "demo", "offline"},
   listed      : BOOLEAN,  \* does getAccountByProfileName() find the account?
   jarMods     : BOOLEAN,
   nativeJars  : 0..2,
   direct      : BOOLEAN,  \* DirectJava instead of LauncherPart?
   profiler    : {"none", "broken", "attached"}]

ASSUME GameLaunchAssumption ==
  /\ Settings \subseteq SettingsType
  /\ MaxLaunches \in Nat /\ MaxQuits \in Nat

\* The steps in the order in which createLaunchTask() appends them.
CheckJava == 1
GameFolders == 2
LookupServer == 3
PreLaunch == 4
ClaimAccount == 5
Update == 6
ModJar == 7
ScanMods == 8
Natives == 9
VerifyJava == 10
Game == 11
PostLaunch == 12
Step == 1..12

VARIABLES
  settings,  \* of the current or last launch
  task,      \* Task::m_state of the LaunchTask; the instance runs while it is "Running"
  state,     \* LaunchTask::state
  cur,       \* LaunchTask::currentStep
  chain,     \* is onStepFinished() on its way into step cur?
  frames,    \* modal boxes, dialogs and calls of abort() on the stack
  controller, \* is there a LaunchController (counted as a running instance)?
  sub,       \* the subtask of the update that runs
  subAbort,  \* MinecraftUpdate::m_abort
  proc,      \* the process of the current step
  killing,   \* LoggedProcess::m_is_aborting
  told,      \* what the launcher part was told on its standard input
  prof,      \* the profiler of this launch
  account,   \* is the account claimed?
  jar,       \* bin/minecraft.jar of the instance
  natives,   \* the natives folder of the instance
  blame,     \* what went wrong with files so far (history)
  abortedAt, \* the step at which an abort() of this launch was accepted (history)
  launches, quits

launchVars == <<settings, launches, quits>>
taskVars == <<task, cur, controller>>
updateVars == <<sub, subAbort>>
processVars == <<proc, killing, told, prof>>
heldVars == <<account, jar, natives, blame>>
vars == <<launchVars, taskVars, state, chain, frames, updateVars, processVars, heldVars,
          abortedAt>>

Frames == {"kill", "abort", "progress", "ready", "refused", "broken"}

TypeOK ==
  /\ settings \in SettingsType
  /\ task \in {"Inactive", "Running", "Succeeded", "Failed"}
  /\ state \in {"NotStarted", "Running", "Waiting", "Aborted"}
  /\ cur \in 0..12 /\ abortedAt \in 0..12
  /\ chain \in BOOLEAN /\ controller \in BOOLEAN
  /\ frames \in Seq(Frames)
  /\ sub \in {"none", "profile", "libraries", "fml", "index", "assets"}
  /\ proc \in {"none", "starting", "running"}
  /\ told \in {"nothing", "launch", "abort"}
  /\ prof \in {"none", "asked", "ready", "over"}
  /\ killing \in BOOLEAN /\ subAbort \in BOOLEAN /\ account \in BOOLEAN
  /\ jar \in {"none", "fresh", "stale"} /\ natives \in {"none", "fresh", "stale"}
  /\ blame \subseteq {"kept", "unreadable", "quit"}
  /\ launches \in 0..MaxLaunches /\ quits \in 0..MaxQuits

Init ==
  /\ settings \in Settings
  /\ task = "Inactive" /\ state = "NotStarted" /\ cur = 0 /\ chain = FALSE
  /\ frames = <<>> /\ controller = FALSE
  /\ sub = "none" /\ subAbort = FALSE
  /\ proc = "none" /\ killing = FALSE /\ told = "nothing" /\ prof = "none"
  /\ account = FALSE /\ jar = "none" /\ natives = "none" /\ blame = {}
  /\ abortedAt = 0 /\ launches = 0 /\ quits = 0

(***************************************************************************)
(* The list of steps.                                                      *)
(***************************************************************************)
Planned ==
  IF ~settings.validMethod THEN {CheckJava}
  ELSE {s \in Step :
          /\ s = LookupServer => settings.server
          /\ s = PreLaunch => settings.pre
          /\ s = ClaimAccount => settings.session = "online"
          /\ s = PostLaunch => settings.post}

After(s) == {t \in Planned : t > s}
Follows(t, s) == t \in After(s) /\ \A u \in After(s) : t <= u

\* Steps that were started, and are finalized when the launch ends.
Entered == {s \in Planned : s <= cur}

Running == task = "Running"
Top(f) == frames # <<>> /\ frames[Len(frames)] = f
Popped == SubSeq(frames, 1, Len(frames) - 1)

\* Events are delivered unless a step is being started or abort() is to return.
Idle == ~chain /\ ~Top("abort")
At(s) == Running /\ cur = s
Now(s) == chain /\ cur = s

(***************************************************************************)
(* The end of a step.                                                      *)
(***************************************************************************)

\* Mutant: the steps are finalized up to the one before the current.
FinalizeEarlier(outcome, has) ==
  \E kept \in SUBSET {"jar", "natives"} :
    /\ task' = outcome /\ chain' = FALSE /\ controller' = FALSE
    /\ account' = (has.account /\ ClaimAccount \notin Entered \ {cur})
    /\ jar' = IF ModJar \notin Entered \ {cur} THEN has.jar
              ELSE IF "jar" \in kept /\ has.jar # "none" THEN "stale" ELSE "none"
    /\ natives' = IF Natives \notin Entered \ {cur} THEN has.natives
                  ELSE IF "natives" \in kept /\ has.natives # "none" THEN "stale" ELSE "none"
    /\ blame' = blame \cup has.blame \cup (IF kept = {} THEN {} ELSE {"kept"})
    /\ UNCHANGED cur

\* finalizeSteps(): the steps that were started give back what they took, and the
\* launch ends.  `has` tells what is held when it is called; folders and files
\* that cannot be removed are kept.
Finalize(outcome, has) ==
  \E kept \in SUBSET {"jar", "natives"} :
    /\ task' = outcome /\ chain' = FALSE /\ controller' = FALSE
    /\ account' = (has.account /\ ClaimAccount \notin Entered)
    /\ jar' = IF ModJar \notin Entered THEN has.jar
              ELSE IF "jar" \in kept /\ has.jar # "none" THEN "stale" ELSE "none"
    /\ natives' = IF Natives \notin Entered THEN has.natives
                  ELSE IF "natives" \in kept /\ has.natives # "none" THEN "stale" ELSE "none"
    /\ blame' = blame \cup has.blame \cup (IF kept = {} THEN {} ELSE {"kept"})
    /\ UNCHANGED cur

Held == [account |-> account, jar |-> jar, natives |-> natives, blame |-> {}]

Keep(has) ==
  /\ account' = has.account /\ jar' = has.jar /\ natives' = has.natives
  /\ blame' = blame \cup has.blame

\* onStepFinished() after a success: the next step starts, or the launch succeeds.
Succeed(has) ==
  \/ /\ After(cur) = {}
     /\ Finalize("Succeeded", has)
  \/ /\ \E t \in Step : Follows(t, cur) /\ cur' = t
     /\ chain' = TRUE
     /\ Keep(has)
     /\ UNCHANGED <<task, controller>>

\* The same after a failure.
Fail(has) == Finalize("Failed", has)

Ends(ok) == IF ok THEN Succeed(Held) ELSE Fail(Held)

\* The step waits for an event.
Waits ==
  /\ chain' = FALSE
  /\ UNCHANGED <<task, cur, controller, heldVars>>

StepQuiet == UNCHANGED <<launchVars, state, frames, updateVars, processVars, abortedAt>>

(***************************************************************************)
(* executeTask() of the steps.                                             *)
(***************************************************************************)

\* The path may be wrong, the version may be known, or a checker is started.
CheckJavaStarts ==
  /\ Now(CheckJava) /\ StepQuiet
  /\ Waits \/ \E ok \in BOOLEAN : Ends(ok)

JavaChecked(ok) ==
  /\ Idle /\ At(CheckJava) /\ StepQuiet
  /\ Ends(ok)

\* Steps that only look: they fail or they go on at once.
GameFoldersStarts ==
  /\ Now(GameFolders) /\ StepQuiet
  /\ \E ok \in BOOLEAN : Ends(ok)

VerifyJavaStarts ==
  /\ Now(VerifyJava) /\ StepQuiet
  /\ \E ok \in BOOLEAN : Ends(ok)

LookupServerStarts ==
  /\ Now(LookupServer) /\ StepQuiet
  /\ Waits

\* Whatever the lookup says, the launch goes on.
LookedUp ==
  /\ Idle /\ At(LookupServer) /\ StepQuiet
  /\ Ends(TRUE)

Claimed == [account |-> TRUE, jar |-> jar, natives |-> natives, blame |-> {}]

\* Without an account to claim the step emits nothing, and waits forever.
ClaimAccountStarts ==
  /\ Now(ClaimAccount) /\ StepQuiet
  /\ IF settings.listed THEN Succeed(Claimed) ELSE Waits

\* The modded jar is built in place of an old one.  If the old one cannot be
\* removed the step has failed, but it builds the jar nevertheless.
ModJarStarts ==
  /\ Now(ModJar) /\ StepQuiet
  /\ IF ~settings.jarMods THEN Ends(TRUE)
     ELSE \/ Succeed([Held EXCEPT !.jar = "fresh"])
          \/ Fail([Held EXCEPT !.jar = "none"])
          \/ /\ jar = "stale"
             /\ Finalize("Failed", [Held EXCEPT !.blame = {"kept"}])

\* Either folder may be scanned already.
ScanModsStarts ==
  /\ Now(ScanMods) /\ StepQuiet
  /\ Waits \/ Ends(TRUE)

ModsScanned ==
  /\ Idle /\ At(ScanMods) /\ StepQuiet
  /\ Ends(TRUE)

\* Mutant: a jar that cannot be extracted is only reported.
NativesIgnoreFailure ==
  /\ Now(Natives) /\ StepQuiet
  /\ \/ Succeed([Held EXCEPT !.natives = IF settings.nativeJars = 0 THEN natives ELSE "fresh"])
     \/ /\ settings.nativeJars > 0
        /\ Succeed([Held EXCEPT !.natives = "stale"])

\* A jar that cannot be extracted fails the step, which takes the launch to its end,
\* and then the loop goes on with the jars behind it: what they leave is there again
\* after finalize() removed the folder, as if it could not be removed.
NativesStarts ==
  /\ Now(Natives) /\ StepQuiet
  /\ \/ Succeed([Held EXCEPT !.natives = IF settings.nativeJars = 0 THEN natives ELSE "fresh"])
     \/ /\ settings.nativeJars > 0
        /\ Fail([Held EXCEPT !.natives = "stale"])
     \/ /\ settings.nativeJars > 1
        /\ Fail([Held EXCEPT !.natives = "stale", !.blame = {"unreadable"}])

(***************************************************************************)
(* The update of the game's files, under a modal progress dialog.          *)
(***************************************************************************)
Online == settings.session # "offline"

\* What may wait for the network after each subtask: FMLLibrariesTask may have nothing
\* to do, and so may the second half of AssetUpdateTask.
AfterProfile == IF Online THEN {"libraries"} ELSE {"done"}
AfterLibraries == {"fml", "index"}
AfterFML == {"index"}
AfterIndex == {"assets", "done"}

SubNext ==
  CASE sub = "profile" -> AfterProfile
    [] sub = "libraries" -> AfterLibraries
    [] sub = "fml" -> AfterFML
    [] sub = "index" -> AfterIndex
    [] OTHER -> {"done"}

UpdateStarts ==
  /\ Now(Update)
  /\ state' = "Waiting"
  /\ UNCHANGED <<launchVars, processVars, subAbort, abortedAt>>
  /\ \/ Fail(Held) /\ UNCHANGED <<frames, sub>>
     \/ ~Online /\ Succeed(Held) /\ UNCHANGED <<frames, sub>>
     \/ /\ sub' \in IF Online THEN {"profile", "libraries"} ELSE {"profile"}
        /\ frames' = Append(frames, "progress")
        /\ Waits

UpdateOver == sub' = "none" /\ subAbort' = FALSE /\ frames' = Popped

\* Mutant: next() does not look at m_abort.
NextSubtaskBlind ==
  \/ UpdateOver /\ Fail(Held)
  \/ /\ "done" \in SubNext
     /\ UpdateOver /\ Succeed(Held)
  \/ /\ sub' \in SubNext \ {"done"}
     /\ UNCHANGED <<task, cur, chain, controller, heldVars, frames, subAbort>>

\* Mutant: next() returns when the update was aborted, and reports nothing.
NextSubtaskSilent ==
  \/ UpdateOver /\ Fail(Held)
  \/ /\ "done" \in SubNext /\ ~subAbort
     /\ UpdateOver /\ Succeed(Held)
  \/ /\ IF subAbort THEN sub' = "none" ELSE sub' \in SubNext \ {"done"}
     /\ UNCHANGED <<task, cur, chain, controller, heldVars, frames, subAbort>>

\* next() looks at m_abort between two subtasks, and AssetUpdateTask does not between
\* its index and its files.
NextSubtask ==
  \/ UpdateOver /\ Fail(Held)
  \/ /\ "done" \in SubNext /\ ~subAbort
     /\ UpdateOver /\ Succeed(Held)
  \/ /\ sub' \in SubNext \ {"done"}
     /\ ~subAbort \/ sub = "index"
     /\ UNCHANGED <<task, cur, chain, controller, heldVars, frames, subAbort>>

SubtaskEnds ==
  /\ Idle /\ At(Update) /\ sub # "none"
  /\ NextSubtask
  /\ UNCHANGED <<launchVars, state, processVars, abortedAt>>

\* The Abort button of the dialog.  The component update cannot be aborted, the other
\* subtasks can and may end at once.  The offline update cannot be aborted: Update::abort()
\* answers that it was, and nothing else happens, so no step of it is here.
AbortUpdate ==
  /\ Idle /\ At(Update) /\ Top("progress") /\ Online /\ ~subAbort
  /\ abortedAt' = Update
  /\ UNCHANGED <<launchVars, state, processVars>>
  /\ \/ /\ subAbort' = TRUE
        /\ UNCHANGED <<taskVars, chain, frames, sub, heldVars>>
     \/ /\ sub # "profile"
        /\ UpdateOver /\ Fail(Held)

(***************************************************************************)
(* The commands, the game and the profiler.                                *)
(***************************************************************************)
Starting == proc' = "starting" /\ killing' = FALSE /\ told' = "nothing" /\ Waits

CommandStarts ==
  /\ Now(PreLaunch) \/ Now(PostLaunch)
  /\ Starting
  /\ UNCHANGED <<launchVars, state, frames, updateVars, prof, abortedAt>>

GameStarts ==
  /\ Now(Game)
  /\ UNCHANGED <<launchVars, state, frames, updateVars, prof, abortedAt>>
  /\ \/ Starting
     \/ Fail(Held) /\ UNCHANGED <<proc, killing, told>>  \* there is no such wrapper command

ProcessOver == proc' = "none" /\ killing' = FALSE /\ UNCHANGED <<told, prof>>

FailsToStart ==
  /\ Idle /\ Running /\ proc = "starting"
  /\ ProcessOver /\ Fail(Held)
  /\ UNCHANGED <<launchVars, state, frames, updateVars, abortedAt>>

CommandRuns ==
  /\ Idle /\ (At(PreLaunch) \/ At(PostLaunch))
  /\ proc = "starting" /\ proc' = "running"
  /\ UNCHANGED <<launchVars, taskVars, state, chain, frames, updateVars, killing, told,
                 prof, heldVars, abortedAt>>

\* A game without the launcher part does not wait, and no profiler is told of it.
DirectGameRuns ==
  /\ Idle /\ At(Game) /\ settings.direct
  /\ proc = "starting" /\ proc' = "running"
  /\ told' = "launch"
  /\ UNCHANGED <<launchVars, taskVars, state, chain, frames, updateVars, killing, prof,
                 heldVars, abortedAt>>

\* The launcher part waits for "launch" or "abort".  readyForLaunch() of the controller
\* runs in the same event: without a profiler it proceeds, and with one that is broken
\* it aborts, and says so in a box.
LauncherPartRuns ==
  /\ Idle /\ At(Game) /\ proc = "starting" /\ ~settings.direct
  /\ proc' = "running"
  /\ UNCHANGED <<launchVars, taskVars, chain, updateVars, killing, heldVars>>
  /\ \/ /\ settings.profiler = "none"
        /\ state' = "Waiting" /\ told' = "launch"
        /\ UNCHANGED <<frames, prof, abortedAt>>
     \/ /\ settings.profiler = "broken"
        /\ state' = "Aborted" /\ told' = "abort" /\ abortedAt' = Game
        /\ frames' = Append(frames, "broken")
        /\ UNCHANGED prof
     \/ /\ settings.profiler = "attached"
        /\ state' = "Waiting" /\ prof' = "asked"
        /\ UNCHANGED <<frames, told, abortedAt>>

\* How a process may end: killed, told to stop (EntryPoint returns 1), or by itself,
\* and a launcher part that was told nothing only by a crash.
MayEndWell ==
  /\ ~killing
  /\ cur = Game => told = "launch"

ProcessEnds(ok) ==
  /\ Idle /\ Running /\ proc # "none"
  /\ proc = "running" \/ killing
  /\ ok => proc = "running" /\ MayEndWell
  /\ ProcessOver /\ Ends(ok)
  /\ UNCHANGED <<launchVars, state, frames, updateVars, abortedAt>>

\* The profiler lives as long as the controller.  It may break after it was ready.
ProfilerReports ==
  /\ Idle /\ controller
  /\ UNCHANGED <<launchVars, taskVars, state, chain, updateVars, proc, killing, told,
                 heldVars, abortedAt>>
  /\ \/ /\ prof = "asked" /\ prof' = "ready"
        /\ frames' = Append(frames, "ready")
     \/ /\ prof \in {"asked", "ready"} /\ prof' = "over"
        /\ frames' = Append(frames, "refused")

(***************************************************************************)
(* abort() and the boxes.                                                  *)
(***************************************************************************)
CanAbort ==
  /\ state # "Aborted"
  /\ cur \in {LookupServer, PreLaunch, Game, PostLaunch}

\* Mutant: the launcher part is told to stop although it was told to launch.
StopProcessByWord ==
  /\ state' = "Aborted"
  /\ abortedAt' = IF Running THEN cur ELSE abortedAt
  /\ UNCHANGED <<told, killing>>

\* LaunchTask::abort() while the step is a process: the launcher part is told if it
\* still waits, and anything else is killed.
StopProcess ==
  /\ state' = "Aborted"
  /\ abortedAt' = IF Running THEN cur ELSE abortedAt
  /\ IF proc = "running" /\ cur = Game /\ told = "nothing"
     THEN told' = "abort" /\ UNCHANGED killing
     ELSE killing' = (proc # "none") /\ UNCHANGED told

\* Application::kill() asks the user, in a box, if the step of that moment can be aborted.
AskToKill ==
  /\ Idle /\ Running /\ controller /\ frames = <<>> /\ CanAbort
  /\ frames' = <<"kill">>
  /\ UNCHANGED <<launchVars, taskVars, state, chain, updateVars, processVars, heldVars,
                 abortedAt>>

\* The answer is about the step of another moment, or a launch that is over.
KillAnswered ==
  /\ Idle /\ Top("kill")
  /\ UNCHANGED <<launchVars, updateVars, prof>>
  /\ \/ /\ frames' = Popped  \* "No", or a step that cannot be aborted
        /\ UNCHANGED <<taskVars, state, chain, proc, killing, told, heldVars, abortedAt>>
     \/ /\ CanAbort /\ cur # LookupServer
        /\ frames' = Popped
        /\ StopProcess
        /\ UNCHANGED <<taskVars, chain, proc, heldVars>>
     \/ /\ CanAbort /\ Running /\ cur = LookupServer
        /\ frames' = Append(Popped, "abort")
        /\ abortedAt' = LookupServer
        /\ Ends(TRUE)  \* the lookup reports from within its abort()
        /\ UNCHANGED <<state, proc, killing, told>>

\* LaunchTask::abort() returns from the lookup, with the launch at a later step.
AbortReturns ==
  /\ ~chain /\ Top("abort")
  /\ frames' = Popped /\ state' = "Aborted"
  /\ UNCHANGED <<launchVars, taskVars, chain, updateVars, processVars, heldVars, abortedAt>>

\* The end of the launcher, in whatever way: what is held in memory is gone.  A game is
\* detachable (LauncherPartLaunch.cpp:73) and may run on, but the launcher has no process.
ProgramEnds ==
  /\ task' = "Inactive" /\ state' = "NotStarted" /\ cur' = 0 /\ chain' = FALSE
  /\ frames' = <<>> /\ controller' = FALSE
  /\ sub' = "none" /\ subAbort' = FALSE
  /\ proc' = "none" /\ killing' = FALSE /\ told' = "nothing" /\ prof' = "none"
  /\ account' = FALSE
  /\ jar' = IF jar = "none" THEN "none" ELSE "stale"
  /\ natives' = IF natives = "none" THEN "none" ELSE "stale"
  /\ blame' = blame \cup {"quit"}
  /\ abortedAt' = 0

\* The boxes of the controller.  "Launch": proceed() works while the launch waits.
ReadyAnswered ==
  /\ Idle /\ Top("ready") /\ controller
  /\ frames' = Popped
  /\ told' = IF state = "Waiting" /\ At(Game) /\ told = "nothing" THEN "launch" ELSE told
  /\ UNCHANGED <<launchVars, taskVars, state, chain, updateVars, proc, killing, prof,
                 heldVars, abortedAt>>

\* The profiler was refused: the launch is aborted and the controller gives up.
RefusedAnswered ==
  /\ Idle /\ Top("refused") /\ controller
  /\ frames' = Popped
  /\ controller' = FALSE
  /\ IF CanAbort THEN StopProcess ELSE UNCHANGED <<state, abortedAt, told, killing>>
  /\ UNCHANGED <<launchVars, task, cur, chain, updateVars, proc, prof, heldVars>>

BrokenAnswered ==
  /\ Idle /\ Top("broken") /\ controller
  /\ frames' = Popped
  /\ controller' = FALSE
  /\ UNCHANGED <<launchVars, task, cur, state, chain, updateVars, processVars, heldVars,
                 abortedAt>>

\* The launch ended under a box, and with it the controller, which the code behind the
\* box goes on to use: it may seem to work, or the program ends.
AnsweredTooLate ==
  /\ Idle /\ ~controller
  /\ Top("ready") \/ Top("refused") \/ Top("broken")
  /\ UNCHANGED launchVars
  /\ \/ ProgramEnds
     \/ /\ frames' = Popped
        /\ UNCHANGED <<taskVars, state, chain, updateVars, processVars, heldVars, abortedAt>>

Quit ==
  /\ ~chain /\ quits < MaxQuits
  /\ quits' = quits + 1
  /\ ProgramEnds
  /\ UNCHANGED <<settings, launches>>

\* Application::launch() up to the first step that matters.
Launch(s) ==
  /\ ~Running /\ Idle /\ frames = <<>> /\ launches < MaxLaunches
  /\ settings' = s /\ launches' = launches + 1
  /\ task' = "Running" /\ state' = "Running" /\ controller' = TRUE
  /\ cur' = CheckJava /\ chain' = TRUE
  /\ told' = "nothing" /\ prof' = "none" /\ abortedAt' = 0
  /\ UNCHANGED <<quits, frames, updateVars, proc, killing, heldVars>>

StartsStep ==
  \/ CheckJavaStarts \/ GameFoldersStarts \/ LookupServerStarts \/ ClaimAccountStarts
  \/ UpdateStarts \/ ModJarStarts \/ ScanModsStarts \/ NativesStarts
  \/ VerifyJavaStarts \/ CommandStarts \/ GameStarts

Next ==
  \/ StartsStep
  \/ \E ok \in BOOLEAN : JavaChecked(ok) \/ ProcessEnds(ok)
  \/ LookedUp \/ ModsScanned \/ SubtaskEnds \/ AbortUpdate
  \/ FailsToStart \/ CommandRuns \/ DirectGameRuns \/ LauncherPartRuns \/ ProfilerReports
  \/ AskToKill \/ KillAnswered \/ AbortReturns
  \/ ReadyAnswered \/ RefusedAnswered \/ BrokenAnswered \/ AnsweredTooLate
  \/ \E s \in Settings : Launch(s)
  \/ Quit

Spec == Init /\ [][Next]_vars

\* The event loop runs; the Java checker, the lookup, the network and the scan answer;
\* the system starts a process or refuses to; a process that is killed, and a launcher
\* part that is told to stop, ends.  Nothing else ends a process, and nobody has to
\* answer a box.
FairSpec ==
  /\ Spec
  /\ WF_vars(StartsStep) /\ WF_vars(AbortReturns)
  /\ WF_vars(\E ok \in BOOLEAN : JavaChecked(ok))
  /\ WF_vars(LookedUp) /\ WF_vars(ModsScanned) /\ WF_vars(SubtaskEnds)
  /\ WF_vars(FailsToStart \/ CommandRuns \/ DirectGameRuns \/ LauncherPartRuns)
  /\ WF_vars((killing \/ told = "abort") /\ ProcessEnds(FALSE))

(***************************************************************************)
(* Properties.                                                             *)
(***************************************************************************)

\* The game runs only with what the steps before it prepared: the natives and the
\* modded jar of this launch, and the account claimed, so that it is not refreshed.
GameHasFiles ==
  At(Game) /\ proc # "none" =>
    /\ settings.nativeJars > 0 => natives = "fresh"
    /\ settings.jarMods => jar = "fresh"
    /\ settings.session = "online" => account

\* An instance that is not running left no process, no claim on an account, and no
\* modded jar or natives, unless a file could not be removed, a jar could not be read,
\* or the launcher ended.
NothingLeftBehind ==
  ~Running => /\ proc = "none" /\ sub = "none" /\ ~account
              /\ jar # "none" \/ natives # "none" => blame # {}

\* After an abort that was accepted, by the step or by the dialog of the update, the
\* launch starts no other step and never succeeds; and a launch whose controller gave
\* up, so that nobody can stop it any more, has been told to stop or is being killed.
\* Not so for the lookup: its abort() makes on_dnsLookupFinished() run first, which goes
\* on with the launch (LookupServerAddress.cpp:40); nor for the update of an offline launch,
\* which answers that it was aborted and is followed by the next step (Update.cpp:68).
AbortIsFinal ==
  /\ \A step \in Step \ {LookupServer} :
       abortedAt = step => task # "Succeeded" /\ (Running => cur = step)
  /\ Running /\ ~controller => told = "abort" \/ killing

\* A launch comes to its game, or to its end, or waits for an account that is not in
\* the list any more, as long as a pre-launch command ends; and a launch that was
\* aborted ends, whichever boxes are open.
Stuck == At(ClaimAccount) /\ Idle
LaunchSettles ==
  /\ Running ~> (~Running \/ proc = "running" \/ Stuck)
  /\ (Running /\ abortedAt \notin {0, LookupServer}) ~> ~Running
=============================================================================
