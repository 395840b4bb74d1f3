------------------------- MODULE GameLaunch_proofs -------------------------
(***************************************************************************)
(* Proofs about module GameLaunch, for any set of instances, any number of *)
(* launches and any way they are stopped: the game runs only with what the *)
(* steps before it prepared, a launch that is over leaves nothing, and a   *)
(* launch that was aborted goes nowhere.                                   *)
(*                                                                         *)
(* The argument: what a launch holds is a function of the step it has come *)
(* to.  A step that succeeds supplies what is held from then on, a step    *)
(* that ends the launch gives all of it back, because the steps that       *)
(* supply it lie between the first and the current, and nothing else       *)
(* touches it.  A step therefore lands in one of two ways, and the lemmas  *)
(* below say that every step that ends does, and that landing is enough.   *)
(* The last part has an invariant of its own, on top of this one.          *)
(***************************************************************************)
EXTENDS GameLaunch, SequenceTheorems, TLAPS

USE DEF CheckJava, GameFolders, LookupServer, PreLaunch, ClaimAccount, Update, ModJar,
        ScanMods, Natives, VerifyJava, Game, PostLaunch, Step

Files == {"none", "fresh", "stale"}
Blames == {"kept", "unreadable", "quit"}
HasType == [account : BOOLEAN, jar : Files, natives : Files, blame : SUBSET Blames]

\* The types of what a step that ends does not touch.
RestOK ==
  /\ settings \in SettingsType
  /\ state \in {"NotStarted", "Running", "Waiting", "Aborted"}
  /\ abortedAt \in 0..12
  /\ frames \in Seq(Frames)
  /\ sub \in {"none", "profile", "libraries", "fml", "index", "assets"}
  /\ proc \in {"none", "starting", "running"}
  /\ told \in {"nothing", "launch", "abort"}
  /\ prof \in {"none", "asked", "ready", "over"}
  /\ killing \in BOOLEAN /\ subAbort \in BOOLEAN
  /\ launches \in 0..MaxLaunches /\ quits \in 0..MaxQuits

\* Only a launch that runs has a step being started, a process or a subtask.
Busy ==
  /\ chain => Running
  /\ Running => cur \in Planned
  /\ proc # "none" => Running /\ ~chain /\ cur \in {PreLaunch, Game, PostLaunch}
  /\ sub # "none" => Running /\ ~chain /\ cur = Update

\* What is held where.
HeldRight ==
  /\ account => Running /\ cur > ClaimAccount /\ ClaimAccount \in Planned
  /\ Running /\ cur > ClaimAccount /\ settings.session = "online" => account
  /\ Running /\ cur > ModJar /\ settings.jarMods => jar = "fresh"
  /\ Running /\ cur > Natives /\ settings.nativeJars > 0 => natives = "fresh"
  /\ (Running => cur <= ModJar) /\ jar # "none" => blame # {}
  /\ (Running => cur <= Natives) /\ natives # "none" => blame # {}

IInv == TypeOK /\ Busy /\ HeldRight

\* What a step may report to hold, and what it has to supply to succeed.
Fits(has) ==
  /\ has \in HasType
  /\ has.account => account \/ cur = ClaimAccount
  /\ account => has.account
  /\ has.jar = jar \/ cur = ModJar
  /\ has.natives = natives \/ cur = Natives

Supplies(has) ==
  /\ cur = ClaimAccount => has.account
  /\ cur = ModJar /\ settings.jarMods => has.jar = "fresh"
  /\ cur = Natives /\ settings.nativeJars > 0 => has.natives = "fresh"

\* How a step that ends leaves the launch: over, or at a later step.
Landed ==
  /\ account' \in BOOLEAN /\ jar' \in Files /\ natives' \in Files
  /\ blame' \in SUBSET Blames /\ blame \subseteq blame'
  /\ controller' \in BOOLEAN
  /\ \/ /\ task' \in {"Succeeded", "Failed"} /\ chain' = FALSE /\ ~account' /\ cur' = cur
        /\ jar' # "none" \/ natives' # "none" => blame' # {}
     \/ /\ task' = "Running" /\ chain' = TRUE /\ cur' \in Planned /\ cur' > cur
        /\ account' => cur' > ClaimAccount /\ ClaimAccount \in Planned
        /\ cur' > ClaimAccount /\ settings.session = "online" => account'
        /\ cur' > ModJar /\ settings.jarMods => jar' = "fresh"
        /\ cur' > Natives /\ settings.nativeJars > 0 => natives' = "fresh"
        /\ cur' <= ModJar /\ jar' # "none" => blame' # {}
        /\ cur' <= Natives /\ natives' # "none" => blame' # {}

\* finalizeSteps() gives everything back, whatever the step that ended reports.
LEMMA FinalizeLands ==
  ASSUME IInv, Running, NEW STATE has, Fits(has), NEW outcome \in {"Succeeded", "Failed"},
         Finalize(outcome, has)
  PROVE  Landed
<1>1. PICK kept \in SUBSET {"jar", "natives"} :
        /\ task' = outcome /\ chain' = FALSE /\ controller' = FALSE
        /\ account' = (has.account /\ ClaimAccount \notin Entered)
        /\ jar' = IF ModJar \notin Entered THEN has.jar
                  ELSE IF "jar" \in kept /\ has.jar # "none" THEN "stale" ELSE "none"
        /\ natives' = IF Natives \notin Entered THEN has.natives
                      ELSE IF "natives" \in kept /\ has.natives # "none" THEN "stale" ELSE "none"
        /\ blame' = blame \cup has.blame \cup (IF kept = {} THEN {} ELSE {"kept"})
        /\ UNCHANGED cur
  BY DEF Finalize
<1>2. cur \in Planned /\ cur \in 0..12
  BY DEF IInv, Busy, TypeOK
<1>3. ~account'
  <2>1. has.account => cur >= ClaimAccount /\ ClaimAccount \in Planned
    BY <1>2 DEF IInv, HeldRight, Fits, TypeOK
  <2>2. QED
    BY <1>1, <2>1 DEF Entered
<1>4. jar' # "none" => blame' # {}
  BY <1>1, <1>2 DEF Entered, Planned, IInv, HeldRight, Fits, TypeOK
<1>5. natives' # "none" => blame' # {}
  BY <1>1, <1>2 DEF Entered, Planned, IInv, HeldRight, Fits, TypeOK
<1>6. jar' \in Files /\ natives' \in Files /\ blame' \in SUBSET Blames
  BY <1>1 DEF Fits, HasType, Files, Blames, IInv, TypeOK
<1>7. QED
  BY <1>1, <1>3, <1>4, <1>5, <1>6 DEF Landed

\* A step that succeeds is followed by the next of the list, which does not pass over
\* one that supplies something.
LEMMA SucceedLands ==
  ASSUME IInv, Running, NEW STATE has, Fits(has), Supplies(has), Succeed(has)
  PROVE  Landed
<1>1. CASE Finalize("Succeeded", has)
  BY <1>1, FinalizeLands
<1>2. CASE /\ \E t \in Step : Follows(t, cur) /\ cur' = t
           /\ chain' = TRUE
           /\ Keep(has)
           /\ UNCHANGED <<task, controller>>
  <2>1. cur' \in Planned /\ cur' > cur /\ \A u \in Planned : u > cur => cur' <= u
    BY <1>2 DEF Follows, After
  <2>2. cur \in Planned /\ cur \in 0..12 /\ cur' \in 1..12
    BY <1>2 DEF IInv, Busy, TypeOK
  <2>3. /\ account' = has.account /\ jar' = has.jar /\ natives' = has.natives
        /\ blame' = blame \cup has.blame
    BY <1>2 DEF Keep
  <2>4. /\ account' \in BOOLEAN /\ jar' \in Files /\ natives' \in Files
        /\ blame' \in SUBSET Blames /\ blame \subseteq blame'
        /\ controller' \in BOOLEAN /\ task' = "Running" /\ chain' = TRUE
    BY <1>2, <2>3 DEF Fits, HasType, Blames, IInv, TypeOK, Running
  <2>5. account' => cur' > ClaimAccount /\ ClaimAccount \in Planned
    BY <2>1, <2>2, <2>3 DEF Fits, IInv, HeldRight
  <2>6. cur' > ClaimAccount /\ settings.session = "online" => account'
    <3>1. HAVE cur' > ClaimAccount /\ settings.session = "online"
    <3>2. ClaimAccount \in Planned
      BY <2>1, <2>2, <3>1 DEF Planned
    <3>3. cur >= ClaimAccount
      BY <2>1, <2>2, <3>1, <3>2
    <3>4. QED
      BY <2>2, <2>3, <3>1, <3>3 DEF Supplies, Fits, IInv, HeldRight
  <2>7. cur' > ModJar => cur >= ModJar
    <3>1. cur' > ModJar => ModJar \in Planned
      BY <2>1, <2>2 DEF Planned
    <3>2. QED
      BY <2>1, <2>2, <3>1
  <2>8. cur' > Natives => cur >= Natives
    <3>1. cur' > Natives => Natives \in Planned
      BY <2>1, <2>2 DEF Planned
    <3>2. QED
      BY <2>1, <2>2, <3>1
  <2>9. cur' > ModJar /\ settings.jarMods => jar' = "fresh"
    BY <2>2, <2>3, <2>7 DEF Supplies, Fits, IInv, HeldRight
  <2>10. cur' > Natives /\ settings.nativeJars > 0 => natives' = "fresh"
    BY <2>2, <2>3, <2>8 DEF Supplies, Fits, IInv, HeldRight
  <2>11. cur' <= ModJar /\ jar' # "none" => blame' # {}
    BY <2>1, <2>2, <2>3 DEF Fits, IInv, HeldRight
  <2>12. cur' <= Natives /\ natives' # "none" => blame' # {}
    BY <2>1, <2>2, <2>3 DEF Fits, IInv, HeldRight
  <2>13. QED
    BY <2>1, <2>4, <2>5, <2>6, <2>9, <2>10, <2>11, <2>12 DEF Landed
<1>3. QED
  BY <1>1, <1>2 DEF Succeed

LEMMA FailLands ==
  ASSUME IInv, Running, NEW STATE has, Fits(has), Fail(has)
  PROVE  Landed
  BY FinalizeLands DEF Fail

LEMMA HeldFits == ASSUME IInv PROVE Fits(Held)
  BY DEF Fits, Held, HasType, Files, Blames, IInv, TypeOK

\* Most steps report what is held already.
LEMMA EndsLands ==
  ASSUME IInv, Running, NEW STATE ok, Ends(ok), ok => Supplies(Held)
  PROVE  Landed
  BY HeldFits, SucceedLands, FailLands DEF Ends

\* Landing, with nothing of the step left, is enough for the invariant.
LEMMA LandedKeeps ==
  ASSUME IInv, Running, Landed, RestOK', settings' = settings,
         proc' = "none", sub' = "none"
  PROVE  IInv'
<1> USE DEF IInv, TypeOK, Running, Landed
<1>1. Planned' = Planned
  BY DEF Planned
<1>2. TypeOK'
  <2>1. cur' \in 0..12
    BY DEF Busy, Planned
  <2>2. task' \in {"Inactive", "Running", "Succeeded", "Failed"} /\ chain' \in BOOLEAN
    OBVIOUS
  <2>3. /\ jar' \in {"none", "fresh", "stale"} /\ natives' \in {"none", "fresh", "stale"}
        /\ blame' \subseteq {"kept", "unreadable", "quit"}
        /\ account' \in BOOLEAN /\ controller' \in BOOLEAN
    BY DEF Files, Blames
  <2>4. QED
    BY <2>1, <2>2, <2>3 DEF RestOK
<1>3. Busy'
  BY <1>1 DEF Busy
<1>4. HeldRight'
  BY <1>1 DEF HeldRight, Busy
<1>5. QED
  BY <1>2, <1>3, <1>4

\* So is to stay at the step, with a process or a subtask only where one may be.
LEMMA StayKeeps ==
  ASSUME IInv, RestOK', settings' = settings, UNCHANGED <<task, cur, heldVars>>,
         controller' \in BOOLEAN, chain' \in BOOLEAN, chain' => Running,
         proc' # "none" => Running /\ ~chain' /\ cur \in {PreLaunch, Game, PostLaunch},
         sub' # "none" => Running /\ ~chain' /\ cur = Update
  PROVE  IInv'
<1> USE DEF IInv, TypeOK, Running, heldVars
<1>1. Planned' = Planned
  BY DEF Planned
<1>2. TypeOK'
  BY DEF RestOK
<1>3. Busy'
  BY <1>1 DEF Busy
<1>4. HeldRight'
  BY <1>1 DEF HeldRight
<1>5. QED
  BY <1>2, <1>3, <1>4

LEMMA Rest == ASSUME TypeOK PROVE RestOK
  BY DEF TypeOK, RestOK

\* Boxes and dialogs are pushed and popped.
LEMMA Stack ==
  ASSUME NEW f \in Seq(Frames)
  PROVE  SubSeq(f, 1, Len(f) - 1) \in Seq(Frames)
<1>1. Len(f) \in Nat
  BY LenProperties
<1>2. CASE Len(f) = 0
  BY <1>2, SubSeqEmpty, EmptySeq
<1>3. CASE Len(f) > 0
  BY <1>3, SubSeqProperties
<1>4. QED
  BY <1>1, <1>2, <1>3

(***************************************************************************)
(* The invariant.                                                          *)
(***************************************************************************)
LEMMA InitHolds == Init /\ Settings \subseteq SettingsType /\ MaxLaunches \in Nat
                   /\ MaxQuits \in Nat => IInv
<1> SUFFICES ASSUME Init, Settings \subseteq SettingsType, MaxLaunches \in Nat,
                    MaxQuits \in Nat
             PROVE  IInv
  OBVIOUS
<1> USE DEF Init
<1>1. TypeOK
  <2>1. frames \in Seq(Frames)
    BY EmptySeq
  <2>2. settings \in SettingsType
    OBVIOUS
  <2>3. launches \in 0..MaxLaunches /\ quits \in 0..MaxQuits /\ cur \in 0..12
        /\ abortedAt \in 0..12
    OBVIOUS
  <2>4. /\ chain \in BOOLEAN /\ controller \in BOOLEAN /\ killing \in BOOLEAN
        /\ subAbort \in BOOLEAN /\ account \in BOOLEAN
    OBVIOUS
  <2>5. QED
    BY <2>1, <2>2, <2>3, <2>4 DEF TypeOK
<1>2. Busy
  BY DEF Busy, Running
<1>3. HeldRight
  BY DEF HeldRight, Running
<1>4. QED
  BY <1>1, <1>2, <1>3 DEF IInv

\* Steps are started by a launch that runs, with nothing left of the step before.
LEMMA ChainQuiet ==
  ASSUME IInv, chain
  PROVE  Running /\ proc = "none" /\ sub = "none" /\ RestOK
  BY Rest DEF IInv, Busy

\* executeTask() of every step.
LEMMA StartsKeep == ASSUME IInv, StartsStep PROVE IInv'
<1> USE DEF launchVars, updateVars, processVars
<1>1. chain
  BY DEF StartsStep, CheckJavaStarts, GameFoldersStarts, LookupServerStarts,
     ClaimAccountStarts, UpdateStarts, ModJarStarts, ScanModsStarts, NativesStarts,
     VerifyJavaStarts, CommandStarts, GameStarts, Now
<1>2. Running /\ proc = "none" /\ sub = "none" /\ RestOK
  BY <1>1, ChainQuiet
<1>3. ASSUME StepQuiet, Landed PROVE IInv'
  <2>1. RestOK'
    BY <1>2, <1>3 DEF StepQuiet, RestOK
  <2>2. QED
    BY <1>2, <1>3, <2>1, LandedKeeps DEF StepQuiet
<1>4. ASSUME StepQuiet, Waits PROVE IInv'
  <2>1. RestOK'
    BY <1>2, <1>4 DEF StepQuiet, RestOK
  <2>2. controller' \in BOOLEAN
    BY <1>4 DEF Waits, IInv, TypeOK
  <2>3. QED
    BY <1>2, <1>4, <2>1, <2>2, StayKeeps DEF StepQuiet, Waits
<1>5. ASSUME NEW STATE ok, Ends(ok), cur \notin {ClaimAccount, ModJar, Natives}
      PROVE  Landed
  BY <1>2, <1>5, EndsLands DEF Supplies
<1>6. CASE CheckJavaStarts
  BY <1>3, <1>4, <1>5, <1>6 DEF CheckJavaStarts, Now
<1>7. CASE GameFoldersStarts
  BY <1>3, <1>5, <1>7 DEF GameFoldersStarts, Now
<1>8. CASE VerifyJavaStarts
  BY <1>3, <1>5, <1>8 DEF VerifyJavaStarts, Now
<1>9. CASE LookupServerStarts
  BY <1>4, <1>9 DEF LookupServerStarts
<1>10. CASE ScanModsStarts
  <2>1. CASE Waits
    BY <1>4, <1>10, <2>1 DEF ScanModsStarts
  <2>2. CASE Ends(TRUE)
    <3>1. cur = ScanMods /\ StepQuiet
      BY <1>10 DEF ScanModsStarts, Now
    <3>2. Supplies(Held)
      BY <3>1 DEF Supplies
    <3>3. Landed
      BY <1>2, <2>2, <3>2, EndsLands
    <3>4. QED
      BY <1>3, <3>1, <3>3
  <2>3. QED
    BY <1>10, <2>1, <2>2 DEF ScanModsStarts
<1>11. CASE ClaimAccountStarts
  <2>1. CASE Waits
    BY <1>4, <1>11, <2>1 DEF ClaimAccountStarts
  <2>2. CASE Succeed(Claimed)
    <3>1. Fits(Claimed) /\ Supplies(Claimed)
      BY <1>11 DEF ClaimAccountStarts, Now, Fits, Supplies, Claimed, HasType, Files, Blames,
         IInv, TypeOK
    <3>2. QED
      BY <1>2, <1>3, <1>11, <2>2, <3>1, SucceedLands DEF ClaimAccountStarts
  <2>3. QED
    BY <1>11, <2>1, <2>2 DEF ClaimAccountStarts
<1>12. CASE ModJarStarts
  <2>1. CASE ~settings.jarMods
    <3>1. Ends(TRUE)
      BY <1>12, <2>1 DEF ModJarStarts
    <3>2. Supplies(Held)
      BY <1>12, <2>1 DEF ModJarStarts, Now, Supplies
    <3>3. QED
      BY <1>2, <1>3, <1>12, <3>1, <3>2, EndsLands DEF ModJarStarts
  <2>3. CASE Succeed([Held EXCEPT !.jar = "fresh"])
    <3>1. Fits([Held EXCEPT !.jar = "fresh"]) /\ Supplies([Held EXCEPT !.jar = "fresh"])
      BY <1>12 DEF ModJarStarts, Now, Fits, Supplies, Held, HasType, Files, Blames,
         IInv, TypeOK
    <3>2. QED
      BY <1>2, <1>3, <1>12, <2>3, <3>1, SucceedLands DEF ModJarStarts
  <2>4. CASE Fail([Held EXCEPT !.jar = "none"])
    <3>1. Fits([Held EXCEPT !.jar = "none"])
      BY <1>12 DEF ModJarStarts, Now, Fits, Held, HasType, Files, Blames, IInv, TypeOK
    <3>2. QED
      BY <1>2, <1>3, <1>12, <2>4, <3>1, FailLands DEF ModJarStarts
  <2>5. CASE Finalize("Failed", [Held EXCEPT !.blame = {"kept"}])
    <3>1. Fits([Held EXCEPT !.blame = {"kept"}])
      BY <1>12 DEF ModJarStarts, Now, Fits, Held, HasType, Files, Blames, IInv, TypeOK
    <3>2. QED
      BY <1>2, <1>3, <1>12, <2>5, <3>1, FinalizeLands DEF ModJarStarts
  <2>6. QED
    BY <1>12, <2>1, <2>3, <2>4, <2>5 DEF ModJarStarts
<1>13. CASE NativesStarts
  <2> DEFINE Ok == [Held EXCEPT !.natives = IF settings.nativeJars = 0 THEN natives ELSE "fresh"]
             Bad == [Held EXCEPT !.natives = "stale"]
             Late == [Held EXCEPT !.natives = "stale", !.blame = {"unreadable"}]
  <2>1. cur = Natives /\ StepQuiet
    BY <1>13 DEF NativesStarts, Now
  <2>2. Fits(Ok) /\ Supplies(Ok)
    BY <2>1 DEF Fits, Supplies, Held, HasType, Files, Blames, IInv, TypeOK
  <2>3. Fits(Bad) /\ Fits(Late)
    BY <2>1 DEF Fits, Held, HasType, Files, Blames, IInv, TypeOK
  <2>4. Succeed(Ok) \/ Fail(Bad) \/ Fail(Late)
    BY <1>13 DEF NativesStarts
  <2> HIDE DEF Ok, Bad, Late
  <2>5. Landed
    BY <1>2, <2>2, <2>3, <2>4, SucceedLands, FailLands
  <2>6. QED
    BY <1>3, <2>1, <2>5
<1>14. CASE UpdateStarts
  <2>1. cur = Update /\ state' = "Waiting"
        /\ UNCHANGED <<launchVars, processVars, subAbort, abortedAt>>
    BY <1>14 DEF UpdateStarts, Now
  <2>2. CASE UNCHANGED <<frames, sub>> /\ (Fail(Held) \/ Succeed(Held))
    <3>1. Landed
      BY <1>2, <2>1, <2>2, HeldFits, SucceedLands, FailLands DEF Supplies
    <3>2. RestOK'
      BY <1>2, <2>1, <2>2 DEF RestOK
    <3>3. QED
      BY <1>2, <2>1, <2>2, <3>1, <3>2, LandedKeeps
  <2>3. CASE /\ sub' \in {"profile", "libraries"}
             /\ frames' = Append(frames, "progress")
             /\ Waits
    <3>1. frames' \in Seq(Frames)
      BY <1>2, <2>3, AppendProperties DEF RestOK, Frames
    <3>2. RestOK'
      BY <1>2, <2>1, <2>3, <3>1 DEF RestOK
    <3>3. QED
      BY <1>2, <2>1, <2>3, <3>2, StayKeeps DEF Waits, IInv, TypeOK
  <2>4. QED
    BY <1>14, <2>2, <2>3 DEF UpdateStarts
<1>15. ASSUME Starting, cur \in {PreLaunch, Game, PostLaunch},
              UNCHANGED <<launchVars, state, frames, updateVars, prof, abortedAt>>
       PROVE  IInv'
  <2>1. RestOK'
    BY <1>2, <1>15 DEF Starting, RestOK
  <2>2. QED
    BY <1>2, <1>15, <2>1, StayKeeps DEF Starting, Waits, IInv, TypeOK
<1>16. CASE CommandStarts
  BY <1>15, <1>16 DEF CommandStarts, Now
<1>17. CASE GameStarts
  <2>1. CASE Starting
    BY <1>15, <1>17, <2>1 DEF GameStarts, Now
  <2>2. CASE Fail(Held) /\ UNCHANGED <<proc, killing, told>>
    <3>1. Landed
      BY <1>2, <2>2, HeldFits, FailLands
    <3>2. RestOK'
      BY <1>2, <1>17, <2>2 DEF GameStarts, RestOK
    <3>3. QED
      BY <1>2, <1>17, <2>2, <3>1, <3>2, LandedKeeps DEF GameStarts
  <2>3. QED
    BY <1>17, <2>1, <2>2 DEF GameStarts
<1>18. QED
  BY <1>6, <1>7, <1>8, <1>9, <1>10, <1>11, <1>12, <1>13, <1>14, <1>16, <1>17 DEF StartsStep

\* The end of an update, a process or a checker.
LEMMA EndsKeep ==
  ASSUME IInv, NEW STATE ok, JavaChecked(ok) \/ ProcessEnds(ok)
  PROVE  IInv'
<1> USE DEF launchVars, updateVars, processVars
<1>1. /\ Running /\ cur \in {CheckJava, PreLaunch, Game, PostLaunch} /\ Ends(ok)
      /\ ~chain
    <2>1. CASE JavaChecked(ok)
      BY <2>1 DEF JavaChecked, At, Idle
    <2>2. CASE ProcessEnds(ok)
      BY <2>2 DEF ProcessEnds, Idle, IInv, Busy
    <2>3. QED
      BY <2>1, <2>2
<1>2. Landed
  BY <1>1, EndsLands DEF Supplies
<1>3. sub = "none" /\ RestOK
  BY <1>1, Rest DEF IInv, Busy
<1>4. CASE JavaChecked(ok)
  <2>1. StepQuiet /\ proc = "none"
    BY <1>4 DEF JavaChecked, At, IInv, Busy
  <2>2. RestOK'
    BY <1>3, <2>1 DEF StepQuiet, RestOK
  <2>3. QED
    BY <1>1, <1>2, <1>3, <2>1, <2>2, LandedKeeps DEF StepQuiet
<1>5. CASE ProcessEnds(ok)
  <2>1. RestOK'
    BY <1>3, <1>5 DEF ProcessEnds, ProcessOver, RestOK
  <2>2. QED
    BY <1>1, <1>2, <1>3, <1>5, <2>1, LandedKeeps DEF ProcessEnds, ProcessOver
<1>6. QED
  BY <1>4, <1>5

LEMMA AnswersKeep ==
  ASSUME IInv, LookedUp \/ ModsScanned \/ FailsToStart
  PROVE  IInv'
<1> USE DEF launchVars, updateVars, processVars
<1>1. CASE LookedUp \/ ModsScanned
  <2>1. /\ Running /\ cur \in {LookupServer, ScanMods} /\ Ends(TRUE) /\ StepQuiet
    BY <1>1 DEF LookedUp, ModsScanned, At
  <2>2. proc = "none" /\ sub = "none" /\ RestOK /\ Supplies(Held)
    BY <2>1, Rest DEF IInv, Busy, Supplies
  <2>3. Landed
    BY <2>1, <2>2, EndsLands
  <2>4. RestOK'
    BY <2>1, <2>2 DEF StepQuiet, RestOK
  <2>5. QED
    BY <2>1, <2>2, <2>3, <2>4, LandedKeeps DEF StepQuiet
<1>2. CASE FailsToStart
  <2>1. Running /\ sub = "none" /\ RestOK
    BY <1>2, Rest DEF FailsToStart, IInv, Busy
  <2>2. Landed
    BY <1>2, <2>1, HeldFits, FailLands DEF FailsToStart
  <2>3. RestOK'
    BY <1>2, <2>1 DEF FailsToStart, ProcessOver, RestOK
  <2>4. QED
    BY <1>2, <2>1, <2>2, <2>3, LandedKeeps DEF FailsToStart, ProcessOver
<1>3. QED
  BY <1>1, <1>2

LEMMA UpdateKeeps == ASSUME IInv, SubtaskEnds \/ AbortUpdate PROVE IInv'
<1> USE DEF launchVars, updateVars, processVars
<1>1. /\ RestOK /\ ~chain /\ settings' = settings /\ UNCHANGED <<state, processVars, launches, quits>>
      /\ abortedAt' \in 0..12
  BY Rest DEF SubtaskEnds, AbortUpdate, IInv, Busy, TypeOK, Idle
<1>2. CASE UpdateOver /\ Running /\ cur = Update
           /\ (Fail(Held) \/ Succeed(Held))
  <2>1. Landed
    BY <1>2, HeldFits, SucceedLands, FailLands DEF Supplies
  <2>2. frames' \in Seq(Frames)
    BY <1>1, <1>2, Stack DEF UpdateOver, Popped, RestOK
  <2>3. RestOK'
    BY <1>1, <1>2, <2>2 DEF UpdateOver, RestOK
  <2>4. proc = "none"
    BY <1>2 DEF IInv, Busy
  <2>5. QED
    BY <1>1, <1>2, <2>1, <2>3, <2>4, LandedKeeps DEF UpdateOver
<1>3. CASE SubtaskEnds
  <2>1. Running /\ cur = Update /\ sub # "none"
    BY <1>3 DEF SubtaskEnds, At
  <2>2. CASE UpdateOver /\ (Fail(Held) \/ Succeed(Held))
    BY <1>2, <2>1, <2>2
  <2>3. CASE /\ sub' \in SubNext \ {"done"}
             /\ UNCHANGED <<task, cur, chain, controller, heldVars, frames, subAbort>>
    <3>1. sub' \in {"libraries", "fml", "index", "assets"}
      BY <2>3 DEF SubNext, AfterProfile, AfterLibraries, AfterFML, AfterIndex
    <3>2. RestOK'
      BY <1>1, <1>3, <2>3, <3>1 DEF SubtaskEnds, RestOK
    <3>3. proc = "none"
      BY <2>1 DEF IInv, Busy
    <3>4. QED
      BY <1>1, <1>3, <2>1, <2>3, <3>1, <3>2, <3>3, StayKeeps DEF SubtaskEnds, IInv, TypeOK
  <2>4. QED
    BY <1>3, <2>2, <2>3 DEF SubtaskEnds, NextSubtask
<1>4. CASE AbortUpdate
  <2>1. Running /\ cur = Update
    BY <1>4 DEF AbortUpdate, At
  <2>2. CASE UpdateOver /\ Fail(Held)
    BY <1>2, <2>1, <2>2
  <2>3. CASE subAbort' = TRUE /\ UNCHANGED <<taskVars, chain, frames, sub, heldVars>>
    <3>1. RestOK'
      BY <1>1, <2>3 DEF RestOK
    <3>2. QED
      BY <1>1, <2>3, <3>1, StayKeeps DEF IInv, Busy, TypeOK, taskVars
  <2>4. QED
    BY <1>4, <2>2, <2>3 DEF AbortUpdate
<1>5. QED
  BY <1>3, <1>4

\* What a process, a profiler or an answer changes while its step goes on.
LEMMA EventsKeep ==
  ASSUME IInv,
         \/ CommandRuns \/ DirectGameRuns \/ LauncherPartRuns \/ ProfilerReports
         \/ AskToKill \/ AbortReturns
         \/ ReadyAnswered \/ RefusedAnswered \/ BrokenAnswered
  PROVE  IInv'
<1> USE DEF launchVars, updateVars, processVars, taskVars
<1>1. /\ ~chain /\ RestOK /\ UNCHANGED <<settings, launches, quits, sub, subAbort, chain, task, cur, heldVars>>
  BY Rest DEF CommandRuns, DirectGameRuns, LauncherPartRuns, ProfilerReports, AskToKill,
     AbortReturns, ReadyAnswered, RefusedAnswered, BrokenAnswered, IInv, Idle
<1>2. controller' \in BOOLEAN
  BY DEF CommandRuns, DirectGameRuns, LauncherPartRuns, ProfilerReports, AskToKill,
     AbortReturns, ReadyAnswered, RefusedAnswered, BrokenAnswered, IInv, TypeOK
<1>3. frames' \in Seq(Frames)
  <2>1. CASE UNCHANGED frames
    BY <1>1, <2>1 DEF RestOK
  <2>2. CASE \E f \in Frames : frames' = Append(frames, f)
    BY <1>1, <2>2, AppendProperties DEF RestOK
  <2>3. CASE frames' = Popped
    BY <1>1, <2>3, Stack DEF RestOK, Popped
  <2>4. CASE frames' = <<"kill">>
    BY <2>4 DEF Frames
  <2>5. QED
    BY <2>1, <2>2, <2>3, <2>4 DEF CommandRuns, DirectGameRuns, LauncherPartRuns,
       ProfilerReports, AskToKill, AbortReturns, ReadyAnswered, RefusedAnswered,
       BrokenAnswered, Frames
<1>4. /\ proc' # "none" => proc # "none"
      /\ proc' \in {"none", "starting", "running"}
  BY <1>1 DEF CommandRuns, DirectGameRuns, LauncherPartRuns, ProfilerReports, AskToKill,
     AbortReturns, ReadyAnswered, RefusedAnswered, BrokenAnswered, RestOK
<1>5. /\ state' \in {"NotStarted", "Running", "Waiting", "Aborted"}
      /\ told' \in {"nothing", "launch", "abort"}
      /\ prof' \in {"none", "asked", "ready", "over"}
      /\ abortedAt' \in 0..12
  BY <1>1 DEF CommandRuns, DirectGameRuns, LauncherPartRuns, ProfilerReports, AskToKill,
     AbortReturns, ReadyAnswered, RefusedAnswered, BrokenAnswered, RestOK, StopProcess,
     IInv, TypeOK
<1>6. killing' \in BOOLEAN
  BY <1>1 DEF CommandRuns, DirectGameRuns, LauncherPartRuns, ProfilerReports, AskToKill,
     AbortReturns, ReadyAnswered, RefusedAnswered, BrokenAnswered, RestOK, StopProcess
<1>7. RestOK'
  BY <1>1, <1>3, <1>4, <1>5, <1>6 DEF RestOK
<1>8. QED
  BY <1>1, <1>2, <1>4, <1>7, StayKeeps DEF IInv, Busy, TypeOK

LEMMA KillKeeps == ASSUME IInv, KillAnswered PROVE IInv'
<1> USE DEF launchVars, updateVars, processVars, taskVars
<1>1. /\ ~chain /\ RestOK /\ UNCHANGED <<settings, launches, quits, sub, subAbort, prof>>
      /\ Popped \in Seq(Frames)
  BY Rest, Stack DEF KillAnswered, IInv, Idle, Popped, RestOK
<1>2. CASE /\ frames' = Popped
           /\ UNCHANGED <<taskVars, state, chain, proc, killing, told, heldVars, abortedAt>>
  <2>1. RestOK'
    BY <1>1, <1>2 DEF RestOK
  <2>2. QED
    BY <1>1, <1>2, <2>1, StayKeeps DEF IInv, Busy, TypeOK
<1>3. CASE frames' = Popped /\ StopProcess /\ UNCHANGED <<taskVars, chain, proc, heldVars>>
  <2>1. RestOK'
    BY <1>1, <1>3 DEF RestOK, StopProcess, IInv, TypeOK
  <2>2. QED
    BY <1>1, <1>3, <2>1, StayKeeps DEF IInv, Busy, TypeOK
<1>4. CASE /\ Running /\ cur = LookupServer
           /\ frames' = Append(Popped, "abort")
           /\ abortedAt' = LookupServer
           /\ Ends(TRUE)
           /\ UNCHANGED <<state, proc, killing, told>>
  <2>1. frames' \in Seq(Frames)
    BY <1>1, <1>4, AppendProperties DEF Frames
  <2>2. RestOK'
    BY <1>1, <1>4, <2>1 DEF RestOK
  <2>3. Supplies(Held) /\ proc = "none" /\ sub = "none"
    BY <1>4 DEF Supplies, IInv, Busy
  <2>4. Landed
    BY <1>4, <2>3, EndsLands
  <2>5. QED
    BY <1>1, <1>4, <2>2, <2>3, <2>4, LandedKeeps
<1>5. QED
  BY <1>2, <1>3, <1>4 DEF KillAnswered

\* A launch begins, and the launcher ends.
LEMMA ProgramEndKeeps ==
  ASSUME IInv, ProgramEnds, settings' = settings, launches' = launches, quits' \in 0..MaxQuits
  PROVE  IInv'
<1> USE DEF ProgramEnds
<1>1. TypeOK'
  <2>1. frames' \in Seq(Frames)
    BY EmptySeq
  <2>2. /\ jar' \in {"none", "fresh", "stale"} /\ natives' \in {"none", "fresh", "stale"}
        /\ blame' \subseteq {"kept", "unreadable", "quit"}
        /\ cur' \in 0..12 /\ abortedAt' \in 0..12
        /\ settings' \in SettingsType /\ launches' \in 0..MaxLaunches
    BY DEF IInv, TypeOK
  <2>3. /\ chain' \in BOOLEAN /\ controller' \in BOOLEAN /\ killing' \in BOOLEAN
        /\ subAbort' \in BOOLEAN /\ account' \in BOOLEAN
    OBVIOUS
  <2>4. QED
    BY <2>1, <2>2, <2>3 DEF TypeOK
<1>2. Busy'
  BY DEF Busy, Running
<1>3. HeldRight'
  BY DEF HeldRight, Running
<1>4. QED
  BY <1>1, <1>2, <1>3 DEF IInv

LEMMA LaunchKeeps ==
  ASSUME IInv, NEW s \in Settings, Settings \subseteq SettingsType, MaxLaunches \in Nat,
         Launch(s)
  PROVE  IInv'
<1> USE DEF launchVars, updateVars, processVars, heldVars, Launch
<1>1. /\ ~Running /\ ~account /\ proc = "none" /\ sub = "none" /\ ~chain
      /\ jar # "none" \/ natives # "none" => blame # {}
  BY DEF IInv, Busy, HeldRight
<1>2. TypeOK'
  <2>1. launches' \in 0..MaxLaunches /\ cur' \in 0..12 /\ abortedAt' \in 0..12
    BY DEF IInv, TypeOK
  <2>2. settings' \in SettingsType
    OBVIOUS
  <2>3. chain' \in BOOLEAN /\ controller' \in BOOLEAN
    OBVIOUS
  <2>4. QED
    BY <2>1, <2>2, <2>3 DEF IInv, TypeOK
<1>3. Busy'
  BY <1>1 DEF Busy, Running, Planned
<1>4. HeldRight'
  BY <1>1 DEF HeldRight, Running
<1>5. QED
  BY <1>2, <1>3, <1>4 DEF IInv

LEMMA NextKeeps ==
  ASSUME IInv, [Next]_vars, Settings \subseteq SettingsType, MaxLaunches \in Nat,
         MaxQuits \in Nat
  PROVE  IInv'
<1>1. CASE \E s \in Settings : Launch(s)
  BY <1>1, LaunchKeeps
<1>2. CASE AnsweredTooLate
  <2>1. /\ ~chain /\ RestOK /\ UNCHANGED launchVars
    BY <1>2, Rest DEF AnsweredTooLate, IInv, Idle
  <2>2. CASE ProgramEnds
    BY <2>1, <2>2, ProgramEndKeeps DEF launchVars, RestOK
  <2>3. CASE /\ frames' = Popped
             /\ UNCHANGED <<taskVars, state, chain, updateVars, processVars, heldVars, abortedAt>>
    <3>1. frames' \in Seq(Frames)
      BY <2>1, <2>3, Stack DEF RestOK, Popped
    <3>2. RestOK'
      BY <2>1, <2>3, <3>1 DEF RestOK, launchVars, updateVars, processVars
    <3>3. QED
      BY <2>1, <2>3, <3>2, StayKeeps DEF IInv, Busy, TypeOK, taskVars, launchVars,
         updateVars, processVars
  <2>4. QED
    BY <1>2, <2>2, <2>3 DEF AnsweredTooLate
<1>3. CASE Quit
  <2>1. quits' \in 0..MaxQuits
    BY <1>3 DEF Quit, IInv, TypeOK
  <2>2. QED
    BY <1>3, <2>1, ProgramEndKeeps DEF Quit
<1>4. CASE UNCHANGED vars
  BY <1>4, Rest, StayKeeps DEF vars, launchVars, taskVars, updateVars, processVars,
     heldVars, IInv, TypeOK, Busy, RestOK
<1>5. CASE StartsStep
  BY <1>5, StartsKeep
<1>6. CASE \E ok \in BOOLEAN : JavaChecked(ok) \/ ProcessEnds(ok)
  BY <1>6, EndsKeep
<1>7. QED
  BY <1>1, <1>2, <1>3, <1>4, <1>5, <1>6, AnswersKeep, UpdateKeeps, EventsKeep, KillKeeps
     DEF Next

\* The invariant holds in every state of every launch.
LEMMA Invariance == Spec => []IInv
<1>1. Init => IInv
  BY InitHolds, GameLaunchAssumption
<1>2. IInv /\ [Next]_vars => IInv'
  BY NextKeeps, GameLaunchAssumption
<1>3. QED
  BY <1>1, <1>2, PTL DEF Spec

\* The state of a launch keeps its types.
THEOREM TypeCorrect == Spec => []TypeOK
<1>1. IInv => TypeOK
  BY DEF IInv
<1>2. QED
  BY <1>1, Invariance, PTL

\* The game runs only with the natives, the modded jar and the claimed account that the
\* steps before it prepared.
THEOREM GamePrepared == Spec => []GameHasFiles
<1>1. IInv => GameHasFiles
  BY DEF IInv, HeldRight, GameHasFiles, At
<1>2. QED
  BY <1>1, Invariance, PTL

\* A launch that is over has given back everything, but for what is to blame on files
\* that could not be removed or read, or on the end of the launcher.
THEOREM LeavesNothing == Spec => []NothingLeftBehind
<1>1. IInv => NothingLeftBehind
  BY DEF IInv, Busy, HeldRight, NothingLeftBehind
<1>2. QED
  BY <1>1, Invariance, PTL

(***************************************************************************)
(* An abort is final.                                                      *)
(*                                                                         *)
(* A launch is doomed when its process is being killed or its launcher     *)
(* part was told to stop: no process of it can end well any more.  What    *)
(* has to be shown is that nobody takes that back, and that whoever gives  *)
(* up the launch has doomed it.  The second is not obvious where abort()   *)
(* does nothing, because the launch counts as aborted already: it counts   *)
(* so, at the game or behind it, only if it is doomed, or if no profiler   *)
(* can be asked about it, and then there is no box whose answer gives up.  *)
(***************************************************************************)
Doomed == killing \/ told = "abort"

Stops ==
  /\ killing => proc # "none"
  /\ proc = "starting" => told = "nothing"
  /\ Running /\ told = "abort" => cur = Game /\ proc = "running"
  /\ Running /\ ~chain /\ cur \in {PreLaunch, Game, PostLaunch} => proc # "none"
  /\ controller => Running
  /\ Running /\ ~controller => Doomed

Aborts ==
  /\ abortedAt \in {0, LookupServer, PreLaunch, Update, Game, PostLaunch}
  /\ abortedAt \notin {0, LookupServer} =>
       /\ task # "Succeeded"
       /\ Running => cur = abortedAt /\ IF cur = Update THEN subAbort /\ sub # "none" ELSE Doomed
  /\ Running /\ state = "Aborted" /\ ~settings.direct
       /\ (cur = PostLaunch \/ (cur = Game /\ proc = "running")) => Doomed

\* The boxes on the stack.  Those of the profiler belong to a launch whose game runs or
\* is over, and the abort() of a lookup is below nothing but the dialog of the update.
ProfilerBoxes == {"ready", "refused", "broken"}
AtGame == Running => cur >= Game /\ ~settings.direct /\ (cur = Game => proc = "running")

Box(i) ==
  /\ frames[i] \in {"kill", "abort"} => i = 1
  /\ frames[i] = "progress" => sub # "none" /\ i = Len(frames)
  /\ frames[i] = "abort" =>
       /\ Running => cur <= Game /\ proc # "running"
       /\ i = Len(frames) \/ (Len(frames) = 2 /\ frames[2] = "progress")
  /\ frames[i] \in ProfilerBoxes => AtGame
  /\ frames[i] = "broken" /\ Running => told = "abort"

Boxes ==
  /\ \A i \in 1..Len(frames) : Box(i)
  /\ sub # "none" => Top("progress")
  /\ prof # "none" => AtGame

StopInv == Stops /\ Aborts /\ Boxes

LEMMA Pops ==
  ASSUME frames \in Seq(Frames), frames # <<>>, frames' = Popped
  PROVE  /\ Len(frames) \in Nat /\ Len(frames') = Len(frames) - 1
         /\ \A i \in 1..Len(frames') : i \in 1..Len(frames) /\ frames'[i] = frames[i]
<1>1. Len(frames) \in Nat \ {0} /\ \A i \in 1..(Len(frames) - 1) : frames[i] \in Frames
  BY EmptySeq, LenProperties, ElementOfSeq
<1>2. 1 \in Int /\ Len(frames) - 1 \in Int
  BY <1>1
<1> DEFINE p == SubSeq(frames, 1, Len(frames) - 1)
<1>3. /\ Len(p) = IF 1 <= Len(frames) - 1 THEN Len(frames) - 1 - 1 + 1 ELSE 0
      /\ \A i \in 1..(Len(frames) - 1 - 1 + 1) : p[i] = frames[1 + i - 1]
  BY <1>1, <1>2, SubSeqProperties
<1>4. frames' = p
  BY DEF Popped
<1> HIDE DEF p
<1>5. QED
  BY <1>1, <1>3, <1>4

LEMMA Pushes ==
  ASSUME frames \in Seq(Frames), NEW f \in Frames, frames' = Append(frames, f)
  PROVE  /\ Len(frames) \in Nat /\ Len(frames') = Len(frames) + 1
         /\ \A i \in 1..Len(frames) : frames'[i] = frames[i]
         /\ frames'[Len(frames')] = f
         /\ frames' # <<>>
  BY LenProperties, AppendProperties

\* How a step that ended leaves the launch, once more: what of it has to be known here.
Ended(outcome) == task' = outcome /\ chain' = FALSE /\ controller' = FALSE /\ cur' = cur

WentOn ==
  /\ task' = task /\ chain' = TRUE /\ controller' = controller
  /\ cur' \in 1..12 /\ cur' > cur
  /\ cur < Game => cur' <= Game

LEMMA FinalizeGoes ==
  ASSUME NEW STATE has, NEW outcome, Finalize(outcome, has)
  PROVE  Ended(outcome)
  BY DEF Finalize, Ended

LEMMA SucceedGoes ==
  ASSUME NEW STATE has, Succeed(has), cur \in 0..12, cur # 0
  PROVE  Ended("Succeeded") \/ WentOn
<1>1. CASE Finalize("Succeeded", has)
  BY <1>1, FinalizeGoes
<1>2. CASE /\ \E t \in Step : Follows(t, cur) /\ cur' = t
           /\ chain' = TRUE
           /\ UNCHANGED <<task, controller>>
  <2>1. cur' \in Planned /\ cur' > cur /\ \A u \in Planned : u > cur => cur' <= u
    BY <1>2 DEF Follows, After
  <2>2. cur' \in 2..12
    BY <2>1 DEF Planned
  <2>3. Game \in Planned
    BY <2>1, <2>2 DEF Planned
  <2>4. QED
    BY <1>2, <2>1, <2>3 DEF WentOn
<1>3. QED
  BY <1>1, <1>2 DEF Succeed

LEMMA EndsGoes ==
  ASSUME NEW STATE ok, Ends(ok), cur \in 0..12, cur # 0
  PROVE  Ended("Failed") \/ (ok /\ (Ended("Succeeded") \/ WentOn))
  BY SucceedGoes, FinalizeGoes DEF Ends, Fail

\* The stack after a step that ended: as it was, without the dialog of the update, or
\* with the abort() that the lookup ended in.
StackLeft ==
  \/ frames' = frames /\ sub = "none"
  \/ frames' = Popped /\ sub # "none"
  \/ frames' = <<"abort">>

LEMMA BoxesLeft ==
  ASSUME IInv, StopInv, StackLeft, NEW i \in 1..Len(frames')
  PROVE  /\ frames'[i] # "progress"
         /\ frames'[i] \in {"kill", "abort"} => i = 1
         /\ frames'[i] = "abort" => i = Len(frames')
         /\ frames' = <<"abort">> \/ (i \in 1..Len(frames) /\ frames'[i] = frames[i])
<1>1. CASE frames' = frames /\ sub = "none"
  BY <1>1 DEF StopInv, Boxes, Box
<1>2. CASE frames' = Popped /\ sub # "none"
  <2>1. frames \in Seq(Frames) /\ frames # <<>> /\ frames[Len(frames)] = "progress"
    BY <1>2 DEF IInv, TypeOK, StopInv, Boxes, Top
  <2>2. /\ Len(frames) \in Nat /\ Len(frames') = Len(frames) - 1
        /\ i \in 1..Len(frames) /\ frames'[i] = frames[i]
    BY <1>2, <2>1, Pops
  <2>3. Box(i)
    BY <2>2 DEF StopInv, Boxes
  <2>4. QED
    BY <2>1, <2>2, <2>3 DEF Box
<1>3. CASE frames' = <<"abort">>
  BY <1>3
<1>4. QED
  BY <1>1, <1>2, <1>3 DEF StackLeft

\* A launch that is over is nobody's concern, if it was not a success against an abort.
LEMMA OverKeeps ==
  ASSUME IInv, StopInv, NEW outcome \in {"Succeeded", "Failed"}, Ended(outcome), StackLeft,
         proc' = "none", killing' = FALSE, sub' = "none",
         abortedAt' \in {0, LookupServer, PreLaunch, Update, Game, PostLaunch},
         outcome = "Failed" \/ abortedAt' \in {0, LookupServer}
  PROVE  StopInv'
<1> USE DEF Running
<1>1. task' # "Running" /\ ~controller'
  BY DEF Ended
<1>2. Stops'
  BY <1>1 DEF Stops
<1>3. Aborts'
  BY <1>1 DEF Aborts, Ended
<1>4. Boxes'
  <2>1. AtGame'
    BY <1>1 DEF AtGame
  <2>2. ASSUME NEW i \in 1..Len(frames') PROVE Box(i)'
    BY <1>1, <2>1, BoxesLeft DEF Box
  <2>3. QED
    BY <2>1, <2>2 DEF Boxes
<1>5. QED
  BY <1>2, <1>3, <1>4 DEF StopInv

\* A launch that goes on was not aborted.
LEMMA OnwardKeeps ==
  ASSUME IInv, StopInv, Running, WentOn, StackLeft, ~Doomed, controller,
         abortedAt' \in {0, LookupServer},
         UNCHANGED <<settings, prof, told>>,
         proc' = "none", killing' = FALSE, sub' = "none",
         cur < Game \/ ~Top("abort"), frames' = <<"abort">> => cur < Game,
         cur < Game \/ proc = "running",
         state' \in {state, "Waiting"}
  PROVE  StopInv'
<1> USE DEF Running
<1>1. /\ cur \in 1..12 /\ cur' \in 1..12 /\ cur' > cur /\ controller'
      /\ task' = "Running" /\ chain' = TRUE /\ (cur < Game => cur' <= Game)
      /\ ~Doomed'
  BY DEF WentOn, IInv, Busy, Planned, Doomed
<1>2. Stops'
  BY <1>1 DEF Stops, Doomed
<1>3. Aborts'
  <2>1. cur' = PostLaunch => cur = Game /\ proc = "running"
    BY <1>1
  <2>2. cur' = PostLaunch /\ state' = "Aborted" => settings.direct
    BY <2>1 DEF StopInv, Aborts
  <2>3. QED
    BY <1>1, <2>2 DEF Aborts
<1>4. AtGame => AtGame'
  BY <1>1 DEF AtGame
<1>5. Boxes'
  <2>1. ASSUME NEW i \in 1..Len(frames') PROVE Box(i)'
    <3>1. CASE frames' = <<"abort">>
      <4>1. i = 1 /\ Len(frames') = 1 /\ frames'[i] = "abort" /\ cur' <= Game
        BY <1>1, <2>1, <3>1
      <4>2. QED
        BY <4>1 DEF Box, ProfilerBoxes
    <3>2. CASE i \in 1..Len(frames) /\ frames'[i] = frames[i]
      <4>1. Box(i) /\ frames[i] # "broken"
        BY <3>2 DEF StopInv, Boxes, Box, Doomed
      <4>2. frames[i] = "abort" => cur < Game
        <5>1. SUFFICES ASSUME frames[i] = "abort", cur >= Game PROVE FALSE
          BY <1>1
        <5>2. sub = "none" /\ frames' = frames
          BY <1>1, <3>2, <5>1 DEF IInv, Busy, StackLeft
        <5>3. frames[Len(frames)] = "abort" /\ frames # <<>>
          BY <2>1, <3>2, <4>1, <5>1, <5>2, BoxesLeft
        <5>4. QED
          BY <1>1, <5>1, <5>3 DEF Top
      <4>3. QED
        BY <1>1, <1>4, <2>1, <3>2, <4>1, <4>2, BoxesLeft DEF Box
    <3>3. QED
      BY <2>1, <3>1, <3>2, BoxesLeft
  <2>2. QED
    BY <1>4, <2>1 DEF StopInv, Boxes
<1>6. QED
  BY <1>2, <1>3, <1>5 DEF StopInv

\* Without a process nothing is doomed, and at the steps in between nothing was aborted.
LEMMA NotDoomed ==
  ASSUME IInv, StopInv, Running, proc = "none"
  PROVE  ~Doomed /\ controller /\ (sub = "none" => abortedAt \in {0, LookupServer})
  BY DEF StopInv, Stops, Aborts, Doomed

\* The end of a step that has no process and shows no dialog.
LEMMA QuietEndKeeps ==
  ASSUME IInv, StopInv, Running, proc = "none", sub = "none", cur < Game,
         UNCHANGED <<settings, frames, sub, proc, killing, told, prof, abortedAt>>,
         state' \in {state, "Waiting"},
         \/ \E has : Succeed(has)
         \/ \E has : Fail(has)
  PROVE  StopInv'
<1>1. ~Doomed /\ controller /\ abortedAt \in {0, LookupServer} /\ ~killing
  BY NotDoomed DEF StopInv, Stops
<1>2. cur \in 0..12 /\ cur # 0 /\ StackLeft
  BY DEF IInv, TypeOK, Busy, Planned, StackLeft
<1>3. Ended("Failed") \/ Ended("Succeeded") \/ WentOn
  <2>1. CASE \E has : Succeed(has)
    <3>1. PICK has : Succeed(has)
      BY <2>1
    <3>2. QED
      BY <1>2, <3>1, SucceedGoes
  <2>2. CASE \E has : Fail(has)
    BY <2>2, FinalizeGoes DEF Fail
  <2>3. QED
    BY <2>1, <2>2
<1>4. proc' = "none" /\ killing' = FALSE /\ sub' = "none" /\ abortedAt' \in {0, LookupServer}
  BY <1>1 DEF IInv, TypeOK
<1>5. CASE Ended("Failed") \/ Ended("Succeeded")
  BY <1>2, <1>4, <1>5, OverKeeps
<1>6. CASE WentOn
  <2>1. frames' # <<"abort">> \/ cur < Game
    OBVIOUS
  <2>2. QED
    BY <1>1, <1>2, <1>4, <1>6, OnwardKeeps
<1>7. QED
  BY <1>3, <1>5, <1>6

\* A step that waits for what it asked for.
LEMMA QuietWaitKeeps ==
  ASSUME IInv, StopInv, StepQuiet, Running, proc = "none", sub = "none",
         cur \notin {PreLaunch, Game, PostLaunch}, Waits
  PROVE  StopInv'
<1> USE DEF launchVars, updateVars, processVars, Running
<1>1. ~Doomed /\ controller /\ abortedAt \in {0, LookupServer}
  BY NotDoomed
<1>2. Stops'
  BY <1>1 DEF StopInv, Stops, StepQuiet, Waits, Doomed
<1>3. Aborts'
  BY <1>1 DEF StopInv, Aborts, StepQuiet, Waits
<1>4. Boxes'
  BY DEF StopInv, Boxes, Box, AtGame, Top, StepQuiet, Waits
<1>5. QED
  BY <1>2, <1>3, <1>4 DEF StopInv

\* The dialog of the update goes on top of the boxes there are.
LEMMA DialogKeeps ==
  ASSUME IInv, StopInv, chain, cur = Update, state' = "Waiting",
         UNCHANGED <<settings, proc, killing, told, prof, abortedAt>>,
         sub' \in {"profile", "libraries"}, frames' = Append(frames, "progress"), Waits
  PROVE  StopInv'
<1> USE DEF Running
<1>1. /\ task = "Running" /\ proc = "none" /\ sub = "none" /\ frames \in Seq(Frames)
      /\ ~Doomed /\ controller /\ abortedAt \in {0, LookupServer}
  BY ChainQuiet, NotDoomed DEF RestOK
<1>2. Stops'
  BY <1>1 DEF StopInv, Stops, Waits, Doomed
<1>3. Aborts'
  BY <1>1 DEF StopInv, Aborts, Waits
<1>4. Boxes'
  <2>1. /\ Len(frames) \in Nat /\ Len(frames') = Len(frames) + 1
        /\ \A i \in 1..Len(frames) : frames'[i] = frames[i]
        /\ frames'[Len(frames')] = "progress" /\ frames' # <<>>
    BY <1>1, Pushes DEF Frames
  <2>2. ~AtGame /\ prof = "none"
    BY <1>1 DEF AtGame, StopInv, Boxes
  <2>3. ASSUME NEW i \in 1..Len(frames) PROVE Box(i)'
    <3>1. Box(i) /\ frames'[i] = frames[i] /\ frames[i] \notin ProfilerBoxes
      BY <2>1, <2>2, <2>3 DEF StopInv, Boxes, Box
    <3>2. 2 \in 1..Len(frames) => frames[2] # "progress"
      BY <1>1 DEF StopInv, Boxes, Box
    <3>3. frames[i] = "abort" => Len(frames') = 2
      BY <2>1, <2>3, <3>1, <3>2 DEF Box
    <3>4. frames[i] # "progress" /\ frames[i] # "broken"
      BY <1>1, <3>1 DEF Box, ProfilerBoxes
    <3>5. QED
      BY <1>1, <2>1, <3>1, <3>3, <3>4 DEF Box, Waits, ProfilerBoxes
  <2>4. ASSUME NEW i, i = Len(frames') PROVE Box(i)'
    BY <2>1, <2>4 DEF Box, ProfilerBoxes
  <2>5. QED
    BY <2>1, <2>2, <2>3, <2>4 DEF Boxes, Top
<1>5. QED
  BY <1>2, <1>3, <1>4 DEF StopInv

\* A process begins with nobody asking for its end.
LEMMA CommandKeeps ==
  ASSUME IInv, StopInv, chain, cur \in {PreLaunch, Game, PostLaunch}, Starting,
         UNCHANGED <<settings, state, frames, sub, prof, abortedAt>>
  PROVE  StopInv'
<1> USE DEF Running
<1>1. /\ task = "Running" /\ proc = "none" /\ sub = "none"
      /\ ~Doomed /\ controller /\ abortedAt \in {0, LookupServer}
  BY ChainQuiet, NotDoomed
<1>2. /\ proc' = "starting" /\ ~killing' /\ told' = "nothing" /\ chain' = FALSE
      /\ UNCHANGED <<task, cur, controller>>
  BY DEF Starting, Waits
<1>3. Stops'
  BY <1>1, <1>2 DEF StopInv, Stops
<1>4. Aborts'
  BY <1>1, <1>2 DEF StopInv, Aborts, Doomed
<1>5. Boxes'
  <2>1. AtGame => AtGame'
    BY <1>1, <1>2 DEF AtGame
  <2>2. ASSUME NEW i \in 1..Len(frames) PROVE Box(i)'
    BY <1>1, <1>2, <2>1, <2>2 DEF StopInv, Boxes, Box, Doomed
  <2>3. QED
    BY <2>1, <2>2 DEF StopInv, Boxes, Top
<1>6. QED
  BY <1>3, <1>4, <1>5 DEF StopInv

\* executeTask() of every step.
LEMMA StartsStop == ASSUME IInv, StopInv, StartsStep PROVE StopInv'
<1> USE DEF launchVars, updateVars, processVars
<1>1. chain
  BY DEF StartsStep, CheckJavaStarts, GameFoldersStarts, LookupServerStarts,
     ClaimAccountStarts, UpdateStarts, ModJarStarts, ScanModsStarts, NativesStarts,
     VerifyJavaStarts, CommandStarts, GameStarts, Now
<1>2. /\ Running /\ proc = "none" /\ sub = "none" /\ RestOK
      /\ ~Doomed /\ controller /\ abortedAt \in {0, LookupServer}
  BY <1>1, ChainQuiet, NotDoomed
<1>3. CASE /\ StepQuiet /\ cur \in 1..10
           /\ \/ cur # PreLaunch /\ Waits
              \/ \E has : Succeed(has)
              \/ \E has : Fail(has)
  BY <1>2, <1>3, QuietEndKeeps, QuietWaitKeeps DEF StepQuiet
<1>4. CASE CheckJavaStarts \/ GameFoldersStarts \/ VerifyJavaStarts \/ LookupServerStarts
  BY <1>3, <1>4 DEF CheckJavaStarts, GameFoldersStarts, VerifyJavaStarts,
     LookupServerStarts, Now, Ends
<1>5. CASE ClaimAccountStarts \/ ScanModsStarts
  BY <1>3, <1>5 DEF ClaimAccountStarts, ScanModsStarts, Now, Ends
<1>6. CASE ModJarStarts
  BY <1>3, <1>6 DEF ModJarStarts, Now, Ends, Fail
<1>7. CASE NativesStarts
  BY <1>3, <1>7 DEF NativesStarts, Now
<1>8. CASE UpdateStarts
  <2>1. /\ cur = Update /\ state' = "Waiting"
        /\ UNCHANGED <<settings, proc, killing, told, prof, abortedAt>>
    BY <1>8 DEF UpdateStarts, Now
  <2>2. CASE UNCHANGED <<frames, sub>> /\ (Fail(Held) \/ Succeed(Held))
    BY <1>2, <2>1, <2>2, QuietEndKeeps
  <2>3. CASE /\ sub' \in {"profile", "libraries"}
             /\ frames' = Append(frames, "progress")
             /\ Waits
    BY <1>1, <2>1, <2>3, DialogKeeps
  <2>4. QED
    BY <1>8, <2>2, <2>3 DEF UpdateStarts
<1>9. CASE Starting /\ cur \in {PreLaunch, Game, PostLaunch}
           /\ UNCHANGED <<settings, state, frames, sub, prof, abortedAt>>
  BY <1>1, <1>9, CommandKeeps
<1>10. CASE CommandStarts
  BY <1>9, <1>10 DEF CommandStarts, Now
<1>11. CASE GameStarts
  <2>1. CASE Starting
    BY <1>9, <1>11, <2>1 DEF GameStarts, Now
  <2>2. CASE Fail(Held) /\ UNCHANGED <<proc, killing, told>>
    <3>1. UNCHANGED <<frames, sub, proc, killing, abortedAt>>
      BY <1>11, <2>2 DEF GameStarts
    <3>2. StackLeft /\ killing' = FALSE
      BY <1>2, <3>1 DEF StackLeft, Doomed, RestOK
    <3>3. QED
      BY <1>2, <2>2, <3>1, <3>2, FinalizeGoes, OverKeeps DEF Fail
  <2>3. QED
    BY <1>11, <2>1, <2>2 DEF GameStarts
<1>12. QED
  BY <1>4, <1>5, <1>6, <1>7, <1>8, <1>10, <1>11 DEF StartsStep

\* The end of a checker, a lookup, a scan or a process.
LEMMA StepEndsStop ==
  ASSUME IInv, StopInv, NEW ok \in BOOLEAN,
         JavaChecked(ok) \/ LookedUp \/ ModsScanned \/ ProcessEnds(ok) \/ FailsToStart
  PROVE  StopInv'
<1> USE DEF launchVars, updateVars, processVars
<1>1. CASE JavaChecked(ok) \/ LookedUp \/ ModsScanned
  <2>1. /\ Running /\ cur \in {CheckJava, LookupServer, ScanMods} /\ StepQuiet
        /\ (\E has : Succeed(has)) \/ (\E has : Fail(has))
    BY <1>1 DEF JavaChecked, LookedUp, ModsScanned, At, Ends
  <2>2. proc = "none" /\ sub = "none"
    BY <2>1 DEF IInv, Busy
  <2>3. QED
    BY <2>1, <2>2, QuietEndKeeps DEF StepQuiet
<1>2. CASE ProcessEnds(ok) \/ FailsToStart
  <2>1. /\ Running /\ Idle /\ proc # "none" /\ ProcessOver
        /\ UNCHANGED <<launchVars, state, frames, updateVars, abortedAt>>
        /\ \/ Ends(ok) /\ (ok => proc = "running" /\ MayEndWell)
           \/ Fail(Held)
    BY <1>2 DEF ProcessEnds, FailsToStart
  <2>2. /\ cur \in {PreLaunch, Game, PostLaunch} /\ sub = "none" /\ StackLeft
        /\ cur \in 0..12 /\ cur # 0
    BY <2>1 DEF IInv, Busy, StackLeft
  <2>3. /\ proc' = "none" /\ killing' = FALSE /\ sub' = "none"
        /\ UNCHANGED <<settings, told, prof, state, frames, abortedAt>>
        /\ abortedAt' \in {0, LookupServer, PreLaunch, Update, Game, PostLaunch}
    BY <2>1, <2>2 DEF ProcessOver, StopInv, Aborts
  <2>4. Ended("Failed") \/ (ok /\ (Ended("Succeeded") \/ WentOn) /\ proc = "running" /\ MayEndWell)
    BY <2>1, <2>2, EndsGoes, FinalizeGoes DEF Fail
  <2>5. CASE Ended("Failed")
    BY <2>2, <2>3, <2>5, OverKeeps
  <2>6. CASE (Ended("Succeeded") \/ WentOn) /\ proc = "running" /\ MayEndWell
    <3>1. ~Doomed /\ controller
      BY <2>1, <2>6 DEF MayEndWell, StopInv, Stops, Doomed
    <3>2. abortedAt' \in {0, LookupServer}
      BY <2>1, <2>2, <2>3, <3>1 DEF StopInv, Aborts
    <3>3. frames' = <<"abort">> => cur < Game
      <4>1. ~Top("abort") /\ frames' = frames
        BY <2>1, <2>3 DEF Idle
      <4>2. frames = <<"abort">> => Top("abort")
        BY DEF Top
      <4>3. QED
        BY <4>1, <4>2
    <3>4. CASE Ended("Succeeded")
      BY <2>2, <2>3, <3>2, <3>4, OverKeeps
    <3>5. CASE WentOn
      BY <2>1, <2>2, <2>3, <2>6, <3>1, <3>2, <3>3, <3>5, OnwardKeeps DEF Idle
    <3>6. QED
      BY <2>6, <3>4, <3>5
  <2>7. QED
    BY <2>4, <2>5, <2>6
<1>3. QED
  BY <1>1, <1>2

\* The subtasks of the update, and the Abort button of its dialog.
LEMMA UpdateStop == ASSUME IInv, StopInv, SubtaskEnds \/ AbortUpdate PROVE StopInv'
<1> USE DEF launchVars, updateVars, processVars
<1>1. /\ Running /\ cur = Update /\ Idle /\ proc = "none" /\ ~chain
      /\ UNCHANGED <<settings, state, proc, killing, told, prof>>
  BY DEF SubtaskEnds, AbortUpdate, At, Idle, IInv, Busy
<1>2. /\ ~Doomed /\ controller /\ killing = FALSE
      /\ abortedAt \in {0, LookupServer} \/ (abortedAt = Update /\ subAbort)
  BY <1>1, NotDoomed DEF StopInv, Stops, Aborts, IInv, TypeOK
<1>3. sub # "none"
  BY <1>1 DEF SubtaskEnds, AbortUpdate, Top, StopInv, Boxes, Box, IInv, TypeOK
<1>4. CASE UpdateOver /\ \/ Fail(Held) /\ abortedAt' \in {abortedAt, Update}
                         \/ Succeed(Held) /\ abortedAt' = abortedAt /\ ~subAbort
  <2>1. StackLeft /\ sub' = "none"
    BY <1>3, <1>4 DEF UpdateOver, StackLeft
  <2>2. CASE Fail(Held) /\ abortedAt' \in {abortedAt, Update}
    <3>1. Ended("Failed")
      BY <2>2, FinalizeGoes DEF Fail
    <3>2. QED
      BY <1>1, <1>2, <2>1, <2>2, <3>1, OverKeeps
  <2>3. CASE Succeed(Held) /\ abortedAt' = abortedAt /\ ~subAbort
    <3>1. Ended("Succeeded") \/ WentOn
      BY <1>1, <2>3, SucceedGoes
    <3>2. CASE Ended("Succeeded")
      BY <1>1, <1>2, <2>1, <2>3, <3>2, OverKeeps
    <3>3. CASE WentOn
      <4>1. /\ cur < Game /\ abortedAt' \in {0, LookupServer} /\ state' = state
            /\ proc' = "none" /\ killing' = FALSE
        BY <1>1, <1>2, <2>3
      <4>2. QED
        BY <1>1, <1>2, <2>1, <3>3, <4>1, OnwardKeeps
    <3>4. QED
      BY <3>1, <3>2, <3>3
  <2>4. QED
    BY <1>4, <2>2, <2>3
<1>5. CASE /\ sub' # "none"
           /\ \/ UNCHANGED <<subAbort, abortedAt>>
              \/ subAbort' = TRUE /\ abortedAt' = Update
           /\ UNCHANGED <<task, cur, chain, controller, frames>>
  <2>1. Stops'
    BY <1>1, <1>5 DEF StopInv, Stops, Running, Doomed
  <2>2. Aborts'
    BY <1>1, <1>2, <1>5 DEF StopInv, Aborts, Running
  <2>3. Boxes'
    BY <1>1, <1>3, <1>5 DEF StopInv, Boxes, Box, Top, AtGame, Running
  <2>4. QED
    BY <2>1, <2>2, <2>3 DEF StopInv
<1>6. CASE SubtaskEnds
  <2>1. SubNext \ {"done"} \subseteq {"libraries", "fml", "index", "assets"}
    BY DEF SubNext, AfterProfile, AfterLibraries, AfterFML, AfterIndex
  <2>2. QED
    BY <1>4, <1>5, <1>6, <2>1 DEF SubtaskEnds, NextSubtask
<1>7. CASE AbortUpdate
  BY <1>3, <1>4, <1>5, <1>7 DEF AbortUpdate, taskVars
<1>8. QED
  BY <1>6, <1>7

\* What is pushed and popped otherwise.
LEMMA NoAbortBelow ==
  ASSUME StopInv, sub = "none", ~Top("abort"), NEW i \in 1..Len(frames)
  PROVE  frames[i] # "abort" /\ frames[i] # "progress"
<1>1. Box(i) /\ frames # <<>>
  BY EmptySeq DEF StopInv, Boxes
<1>2. frames[i] # "progress"
  BY <1>1 DEF Box
<1>3. frames[i] = "abort" => i # Len(frames)
  BY <1>1 DEF Top
<1>4. frames[i] = "abort" => i = 1 /\ Len(frames) = 2 /\ frames[2] = "progress"
  BY <1>1, <1>3 DEF Box
<1>5. 2 \in 1..Len(frames) => frames[2] # "progress"
  BY DEF StopInv, Boxes, Box
<1>6. QED
  BY <1>2, <1>4, <1>5

LEMMA PushKeeps ==
  ASSUME IInv, StopInv, NEW f \in ProfilerBoxes, frames' = Append(frames, f),
         sub = "none", sub' = "none", ~Top("abort"), AtGame',
         Running' => Running /\ (told = "abort" => told' = "abort"),
         f = "broken" => told' = "abort"
  PROVE  Boxes'
<1>1. /\ Len(frames) \in Nat /\ Len(frames') = Len(frames) + 1
      /\ \A i \in 1..Len(frames) : frames'[i] = frames[i]
      /\ frames'[Len(frames')] = f
  BY Pushes DEF Frames, ProfilerBoxes, IInv, TypeOK
<1>2. ASSUME NEW i \in 1..Len(frames) PROVE Box(i)'
  BY <1>1, <1>2, NoAbortBelow DEF StopInv, Boxes, Box
<1>3. ASSUME NEW i, i = Len(frames') PROVE Box(i)'
  BY <1>1, <1>3 DEF Box, ProfilerBoxes
<1>4. QED
  BY <1>1, <1>2, <1>3 DEF Boxes

LEMMA PopKeeps ==
  ASSUME IInv, StopInv, frames # <<>>, frames' = Popped,
         sub = "none", sub' = "none", AtGame => AtGame',
         Running' => Running /\ (told = "abort" => told' = "abort"),
         prof' = prof
  PROVE  Boxes'
<1>1. /\ Len(frames) \in Nat /\ Len(frames') = Len(frames) - 1
      /\ \A i \in 1..Len(frames') : i \in 1..Len(frames) /\ frames'[i] = frames[i]
  BY Pops DEF IInv, TypeOK
<1>2. ASSUME NEW i \in 1..Len(frames') PROVE Box(i)'
  <2>1. Box(i) /\ i < Len(frames) /\ frames'[i] = frames[i]
    BY <1>1, <1>2 DEF StopInv, Boxes
  <2>2. 2 \in 1..Len(frames) => frames[2] # "progress"
    BY DEF StopInv, Boxes, Box
  <2>3. frames[i] # "progress" /\ frames[i] # "abort"
    BY <1>1, <1>2, <2>1, <2>2 DEF Box
  <2>4. QED
    BY <1>2, <2>1, <2>3 DEF Box
<1>3. QED
  BY <1>2 DEF StopInv, Boxes

\* A process comes to run, with the launcher part asking what to do.
LEMMA ProcessStop ==
  ASSUME IInv, StopInv, CommandRuns \/ DirectGameRuns \/ LauncherPartRuns
  PROVE  StopInv'
<1> USE DEF launchVars, updateVars, processVars, taskVars
<1>1. /\ Running /\ Idle /\ proc = "starting" /\ proc' = "running" /\ told = "nothing"
      /\ cur \in {PreLaunch, Game, PostLaunch} /\ ~chain /\ sub = "none"
      /\ UNCHANGED <<settings, task, cur, chain, controller, sub, subAbort, killing>>
  BY DEF CommandRuns, DirectGameRuns, LauncherPartRuns, At, Idle, StopInv, Stops, IInv, Busy
<1>2. /\ \A i \in 1..Len(frames) : frames[i] # "abort" /\ frames[i] # "broken"
      /\ ~Top("abort")
  BY <1>1, NoAbortBelow DEF Idle, StopInv, Boxes, Box
<1>3. killing \/ (controller /\ abortedAt \in {0, LookupServer})
  BY <1>1 DEF StopInv, Stops, Aborts, Doomed
<1>4. CASE CommandRuns
  <2>1. UNCHANGED <<state, frames, told, prof, abortedAt>> /\ cur # Game
    BY <1>4 DEF CommandRuns, At
  <2>2. Stops' /\ Aborts'
    BY <1>1, <2>1 DEF StopInv, Stops, Aborts, Doomed, Running
  <2>3. Boxes'
    BY <1>1, <1>2, <2>1 DEF StopInv, Boxes, Box, AtGame, Top, Running
  <2>4. QED
    BY <2>2, <2>3 DEF StopInv
<1>5. CASE DirectGameRuns
  <2>1. UNCHANGED <<state, frames, prof, abortedAt>> /\ told' = "launch" /\ settings.direct
    BY <1>5 DEF DirectGameRuns
  <2>2. Stops' /\ Aborts'
    BY <1>1, <1>3, <2>1 DEF StopInv, Stops, Aborts, Doomed, Running
  <2>3. ~AtGame
    BY <1>1, <2>1 DEF AtGame
  <2>4. Boxes'
    BY <1>1, <1>2, <2>1, <2>3 DEF StopInv, Boxes, Box, Top, Running
  <2>5. QED
    BY <2>2, <2>4 DEF StopInv
<1>6. CASE LauncherPartRuns
  <2>1. /\ cur = Game /\ ~settings.direct
        /\ \/ state' = "Waiting" /\ UNCHANGED <<frames, abortedAt>> /\ told' \in {told, "launch"}
           \/ /\ state' = "Aborted" /\ told' = "abort" /\ abortedAt' = Game
              /\ frames' = Append(frames, "broken")
    BY <1>6 DEF LauncherPartRuns, At
  <2>2. Stops' /\ Aborts'
    BY <1>1, <1>3, <2>1 DEF StopInv, Stops, Aborts, Doomed, Running
  <2>3. AtGame'
    BY <1>1, <2>1 DEF AtGame
  <2>4. Boxes'
    <3>1. CASE UNCHANGED frames
      BY <1>1, <1>2, <2>3, <3>1 DEF StopInv, Boxes, Box, Top, Running
    <3>2. CASE frames' = Append(frames, "broken") /\ told' = "abort"
      BY <1>1, <1>2, <2>3, <3>2, PushKeeps DEF ProfilerBoxes, Running
    <3>3. QED
      BY <2>1, <3>1, <3>2
  <2>5. QED
    BY <2>2, <2>4 DEF StopInv
<1>7. QED
  BY <1>4, <1>5, <1>6

LEMMA ProfilerStop == ASSUME IInv, StopInv, ProfilerReports PROVE StopInv'
<1> USE DEF launchVars, updateVars, processVars, taskVars
<1>1. /\ controller /\ Idle /\ prof # "none"
      /\ UNCHANGED <<settings, task, cur, chain, controller, state, sub, subAbort, proc,
                     killing, told, abortedAt>>
      /\ \E f \in {"ready", "refused"} : frames' = Append(frames, f)
  BY DEF ProfilerReports
<1>2. AtGame /\ AtGame' /\ Running /\ sub = "none"
  BY <1>1 DEF StopInv, Stops, Boxes, AtGame, Running, IInv, Busy
<1>3. Stops' /\ Aborts'
  BY <1>1 DEF StopInv, Stops, Aborts, Doomed, Running
<1>4. Boxes'
  BY <1>1, <1>2, PushKeeps DEF ProfilerBoxes, Running, Idle
<1>5. QED
  BY <1>3, <1>4 DEF StopInv

\* abort() of a process dooms the launch, if there is one.
LEMMA StopDooms ==
  ASSUME IInv, StopInv, ~chain, CanAbort, cur # LookupServer, StopProcess,
         UNCHANGED <<settings, task, cur, chain, proc, sub, subAbort>>,
         controller' \in {controller, FALSE}
  PROVE  Stops' /\ Aborts' /\ (told = "abort" => told' = "abort")
<1> USE DEF Running
<1>1. told = "abort" => told' = "abort"
  BY DEF StopProcess
<1>2. CASE ~Running
  <2>1. proc = "none" /\ controller = FALSE /\ killing = FALSE
    BY <1>2 DEF IInv, TypeOK, Busy, StopInv, Stops
  <2>2. killing' = FALSE /\ abortedAt' = abortedAt
    BY <1>2, <2>1 DEF StopProcess
  <2>3. controller' = FALSE
    BY <2>1
  <2>4. Stops' /\ Aborts'
    BY <1>2, <2>1, <2>2, <2>3 DEF StopInv, Stops, Aborts
  <2>5. QED
    BY <1>1, <2>4
<1>3. CASE Running
  <2>1. cur \in {PreLaunch, Game, PostLaunch} /\ proc # "none"
    BY <1>3 DEF CanAbort, StopInv, Stops
  <2>2. abortedAt' = cur
    BY <1>3 DEF StopProcess
  <2>3. \/ proc = "running" /\ cur = Game /\ told' = "abort" /\ killing' = killing
        \/ killing' = TRUE /\ told' = told
    BY <2>1 DEF StopProcess
  <2>4. Doomed'
    BY <2>3 DEF Doomed
  <2>5. Stops'
    BY <1>3, <2>1, <2>3, <2>4 DEF StopInv, Stops
  <2>6. Aborts'
    BY <1>3, <2>1, <2>2, <2>4 DEF Aborts
  <2>7. QED
    BY <1>1, <2>5, <2>6
<1>4. QED
  BY <1>2, <1>3

\* What a box on top says of the launch below it.
LEMMA BoxOnTop ==
  ASSUME IInv, StopInv, NEW f, f # "progress", Top(f)
  PROVE  /\ sub = "none" /\ frames # <<>>
         /\ Len(frames) \in 1..Len(frames) /\ Box(Len(frames)) /\ frames[Len(frames)] = f
<1>1. frames # <<>> /\ frames[Len(frames)] = f
  BY DEF Top
<1>2. sub = "none"
  BY <1>1 DEF StopInv, Boxes, Top
<1>3. Len(frames) \in 1..Len(frames)
  BY <1>1, EmptySeq, LenProperties DEF IInv, TypeOK
<1>4. QED
  BY <1>1, <1>2, <1>3 DEF StopInv, Boxes

\* A box that is answered without an effect on the launch.
LEMMA AnswerKeeps ==
  ASSUME IInv, StopInv, frames # <<>>, frames' = Popped, sub = "none",
         UNCHANGED <<taskVars, settings, state, chain, updateVars, processVars, abortedAt>>
  PROVE  StopInv'
<1> USE DEF taskVars, updateVars, processVars
<1>1. AtGame => AtGame'
  BY DEF AtGame, Running
<1>2. Boxes'
  BY <1>1, PopKeeps DEF Running
<1>3. Stops' /\ Aborts'
  BY DEF StopInv, Stops, Aborts, Doomed, Running
<1>4. QED
  BY <1>2, <1>3 DEF StopInv

LEMMA AskStop == ASSUME IInv, StopInv, AskToKill PROVE StopInv'
<1> USE DEF launchVars, updateVars, processVars, taskVars
<1>1. /\ frames = <<>> /\ frames' = <<"kill">>
      /\ UNCHANGED <<settings, task, cur, chain, controller, state, sub, subAbort, proc,
                     killing, told, prof, abortedAt>>
  BY DEF AskToKill
<1>2. sub = "none"
  BY <1>1 DEF StopInv, Boxes, Top
<1>3. Stops' /\ Aborts'
  BY <1>1 DEF StopInv, Stops, Aborts, Doomed, Running
<1>4. ASSUME NEW i \in 1..Len(frames') PROVE Box(i)'
  <2>1. i = 1 /\ frames'[i] = "kill"
    BY <1>1, <1>4
  <2>2. QED
    BY <2>1 DEF Box, ProfilerBoxes
<1>5. Boxes'
  <2>1. AtGame => AtGame'
    BY <1>1 DEF AtGame, Running
  <2>2. QED
    BY <1>1, <1>2, <1>4, <2>1 DEF StopInv, Boxes
<1>6. QED
  BY <1>3, <1>5 DEF StopInv

LEMMA KillStop == ASSUME IInv, StopInv, KillAnswered PROVE StopInv'
<1> USE DEF launchVars, updateVars, processVars, taskVars
<1>1. /\ ~chain /\ sub = "none" /\ frames # <<>> /\ ~Top("abort")
      /\ Len(frames) = 1 /\ frames[1] = "kill"
      /\ UNCHANGED <<settings, sub, subAbort, prof>>
  BY BoxOnTop DEF KillAnswered, Idle, Box
<1>2. CASE /\ frames' = Popped
           /\ UNCHANGED <<taskVars, state, chain, proc, killing, told, heldVars, abortedAt>>
  BY <1>1, <1>2, AnswerKeeps
<1>3. CASE /\ CanAbort /\ cur # LookupServer
           /\ frames' = Popped
           /\ StopProcess
           /\ UNCHANGED <<taskVars, chain, proc, heldVars>>
  <2>1. Stops' /\ Aborts' /\ (told = "abort" => told' = "abort")
    BY <1>1, <1>3, StopDooms
  <2>2. AtGame => AtGame'
    BY <1>1, <1>3 DEF AtGame, Running
  <2>3. Boxes'
    BY <1>1, <1>3, <2>1, <2>2, PopKeeps DEF Running
  <2>4. QED
    BY <2>1, <2>3 DEF StopInv
<1>4. CASE /\ Running /\ cur = LookupServer
           /\ frames' = Append(Popped, "abort")
           /\ abortedAt' = LookupServer
           /\ Ends(TRUE)
           /\ UNCHANGED <<state, proc, killing, told>>
  <2>1. proc = "none" /\ ~Doomed /\ controller
    BY <1>4, NotDoomed DEF IInv, Busy
  <2>2. killing' = FALSE
    BY <1>4, <2>1 DEF Doomed, IInv, TypeOK
  <2>3. frames' = <<"abort">>
    <3>1. Popped = <<>>
      <4>1. Popped \in Seq(Frames)
        BY Stack DEF IInv, TypeOK, Popped
      <4>2. Len(Popped) = 0
        BY <1>1, Pops DEF IInv, TypeOK, Popped
      <4>3. QED
        BY <4>1, <4>2, EmptySeq
    <3>2. QED
      BY <1>4, <3>1
  <2>4. Ended("Failed") \/ Ended("Succeeded") \/ WentOn
    <3>1. cur \in 0..12 /\ cur # 0
      BY <1>4
    <3>2. QED
      BY <1>4, <3>1, EndsGoes
  <2>5. CASE Ended("Failed") \/ Ended("Succeeded")
    BY <1>1, <1>4, <2>1, <2>2, <2>3, <2>5, OverKeeps DEF StackLeft
  <2>6. CASE WentOn
    <3>1. /\ cur < Game /\ proc' = "none" /\ sub' = "none" /\ state' = state
          /\ UNCHANGED <<settings, prof, told>> /\ abortedAt' = LookupServer
      BY <1>1, <1>4, <2>1
    <3>2. StackLeft
      BY <2>3 DEF StackLeft
    <3>3. QED
      BY <1>4, <2>1, <2>2, <2>6, <3>1, <3>2, OnwardKeeps
  <2>7. QED
    BY <2>4, <2>5, <2>6
<1>5. QED
  BY <1>2, <1>3, <1>4 DEF KillAnswered

\* The abort() of the lookup returns, when the launch has come no further than its game.
LEMMA AbortReturnsStop == ASSUME IInv, StopInv, AbortReturns PROVE StopInv'
<1> USE DEF launchVars, updateVars, processVars, taskVars
<1>1. /\ frames' = Popped /\ state' = "Aborted"
      /\ UNCHANGED <<settings, task, cur, chain, controller, sub, subAbort, proc,
                     killing, told, prof, abortedAt>>
  BY DEF AbortReturns
<1>2. sub = "none" /\ frames # <<>> /\ (Running => cur <= Game /\ proc # "running")
  BY BoxOnTop DEF AbortReturns, Box
<1>3. AtGame => AtGame'
  BY <1>1 DEF AtGame, Running
<1>4. Boxes'
  BY <1>1, <1>2, <1>3, PopKeeps DEF Running
<1>5. Stops' /\ Aborts'
  BY <1>1, <1>2 DEF StopInv, Stops, Aborts, Doomed, Running
<1>6. QED
  BY <1>4, <1>5 DEF StopInv

\* The boxes of the controller.
LEMMA ReadyStop == ASSUME IInv, StopInv, ReadyAnswered PROVE StopInv'
<1> USE DEF launchVars, updateVars, processVars, taskVars
<1>1. /\ frames' = Popped /\ ~chain /\ ~Top("abort")
      /\ UNCHANGED <<settings, task, cur, chain, controller, state, sub, subAbort, proc,
                     killing, prof, abortedAt>>
      /\ told' = told \/ (told = "nothing" /\ told' = "launch" /\ state = "Waiting" /\ At(Game))
  BY DEF ReadyAnswered, Idle
<1>2. sub = "none" /\ frames # <<>> /\ AtGame
  BY BoxOnTop DEF ReadyAnswered, Box, ProfilerBoxes
<1>3. AtGame' /\ (Doomed => Doomed')
  BY <1>1, <1>2 DEF AtGame, Running, Doomed
<1>4. Boxes'
  BY <1>1, <1>2, <1>3, PopKeeps DEF Running
<1>5. told' # told => proc = "running"
  BY <1>1, <1>2 DEF AtGame, At
<1>6. Stops'
  BY <1>1, <1>3, <1>5 DEF StopInv, Stops, Running
<1>7. Aborts'
  BY <1>1, <1>3 DEF StopInv, Aborts, Running
<1>8. QED
  BY <1>4, <1>6, <1>7 DEF StopInv

\* Where abort() does nothing, because the launch counts as aborted, it is doomed.
LEMMA RefusedStop == ASSUME IInv, StopInv, RefusedAnswered PROVE StopInv'
<1> USE DEF launchVars, updateVars, processVars, taskVars
<1>1. /\ frames' = Popped /\ ~chain /\ ~Top("abort") /\ controller /\ ~controller'
      /\ controller' = FALSE
      /\ UNCHANGED <<settings, task, cur, chain, sub, subAbort, proc, prof>>
  BY DEF RefusedAnswered, Idle
<1>2. sub = "none" /\ frames # <<>> /\ AtGame
  BY BoxOnTop DEF RefusedAnswered, Box, ProfilerBoxes
<1>3. Running /\ ~settings.direct /\ cur \in {Game, PostLaunch} /\ (cur = Game => proc = "running")
  BY <1>1, <1>2 DEF StopInv, Stops, AtGame, IInv, TypeOK
<1>4. /\ Stops' /\ Aborts' /\ (told = "abort" => told' = "abort")
  <2>1. CASE CanAbort
    <3>1. StopProcess /\ cur # LookupServer
      BY <1>3, <2>1 DEF RefusedAnswered
    <3>2. QED
      BY <1>1, <2>1, <3>1, StopDooms
  <2>2. CASE ~CanAbort
    <3>1. state = "Aborted" /\ UNCHANGED <<state, abortedAt, told, killing>>
      BY <1>3, <2>2 DEF CanAbort, RefusedAnswered
    <3>2. Doomed /\ Doomed'
      BY <1>3, <3>1 DEF StopInv, Aborts, Doomed
    <3>3. QED
      BY <1>1, <1>3, <3>1, <3>2 DEF StopInv, Stops, Aborts, Running
  <2>3. QED
    BY <2>1, <2>2
<1>5. AtGame'
  BY <1>1, <1>2 DEF AtGame, Running
<1>6. Boxes'
  BY <1>1, <1>2, <1>4, <1>5, PopKeeps DEF Running
<1>7. QED
  BY <1>4, <1>6 DEF StopInv

LEMMA BrokenStop == ASSUME IInv, StopInv, BrokenAnswered PROVE StopInv'
<1> USE DEF launchVars, updateVars, processVars, taskVars
<1>1. /\ frames' = Popped /\ ~controller' /\ controller
      /\ UNCHANGED <<settings, task, cur, chain, state, sub, subAbort, proc, killing, told,
                     prof, abortedAt>>
  BY DEF BrokenAnswered
<1>2. sub = "none" /\ frames # <<>> /\ (Running => told = "abort")
  BY BoxOnTop DEF BrokenAnswered, Box
<1>3. AtGame => AtGame'
  BY <1>1 DEF AtGame, Running
<1>4. Boxes'
  BY <1>1, <1>2, <1>3, PopKeeps DEF Running
<1>5. Stops' /\ Aborts'
  BY <1>1, <1>2 DEF StopInv, Stops, Aborts, Doomed, Running
<1>6. QED
  BY <1>4, <1>5 DEF StopInv

\* The launcher ends, and a launch begins.
LEMMA ProgramEndStop == ASSUME ProgramEnds PROVE StopInv'
<1>1. /\ task' = "Inactive" /\ ~controller' /\ frames' = <<>> /\ sub' = "none"
      /\ proc' = "none" /\ killing' = FALSE /\ prof' = "none" /\ abortedAt' = 0
  BY DEF ProgramEnds
<1>2. Stops' /\ Aborts'
  BY <1>1 DEF Stops, Aborts, Running
<1>3. Boxes'
  BY <1>1 DEF Boxes
<1>4. QED
  BY <1>2, <1>3 DEF StopInv

LEMMA LateStop == ASSUME IInv, StopInv, AnsweredTooLate PROVE StopInv'
<1> USE DEF launchVars
<1>1. CASE ProgramEnds
  BY <1>1, ProgramEndStop
<1>2. CASE /\ frames' = Popped
           /\ UNCHANGED <<taskVars, state, chain, updateVars, processVars, heldVars, abortedAt>>
  <2>1. sub = "none" /\ frames # <<>> /\ settings' = settings
    BY BoxOnTop DEF AnsweredTooLate
  <2>2. QED
    BY <1>2, <2>1, AnswerKeeps
<1>3. QED
  BY <1>1, <1>2 DEF AnsweredTooLate

LEMMA LaunchStop == ASSUME IInv, StopInv, NEW s \in Settings, Launch(s) PROVE StopInv'
<1> USE DEF Launch, updateVars, Running
<1>1. /\ proc = "none" /\ sub = "none" /\ frames = <<>> /\ ~killing
  BY DEF IInv, Busy, StopInv, Stops
<1>2. /\ task' = "Running" /\ chain' = TRUE /\ controller' = TRUE /\ cur' = CheckJava
      /\ proc' = "none" /\ sub' = "none" /\ frames' = <<>> /\ killing' = killing
      /\ told' = "nothing" /\ prof' = "none" /\ abortedAt' = 0
  BY <1>1
<1>3. Stops' /\ Aborts'
  BY <1>1, <1>2 DEF Stops, Aborts
<1>4. Boxes'
  BY <1>2 DEF Boxes
<1>5. QED
  BY <1>3, <1>4 DEF StopInv

LEMMA NextStop == ASSUME IInv, StopInv, [Next]_vars PROVE StopInv'
<1>1. CASE \E s \in Settings : Launch(s)
  BY <1>1, LaunchStop
<1>2. CASE Quit
  BY <1>2, ProgramEndStop DEF Quit
<1>3. CASE \E ok \in BOOLEAN : JavaChecked(ok) \/ ProcessEnds(ok)
  BY <1>3, StepEndsStop
<1>4. CASE LookedUp \/ ModsScanned \/ FailsToStart
  BY <1>4, StepEndsStop
<1>5. CASE UNCHANGED vars
  <2>1. UNCHANGED <<settings, task, cur, chain, controller, state, frames, sub, subAbort,
                    proc, killing, told, prof, abortedAt>>
    BY <1>5 DEF vars, launchVars, taskVars, updateVars, processVars
  <2>2. Stops' /\ Aborts'
    BY <2>1 DEF StopInv, Stops, Aborts, Doomed, Running
  <2>3. Boxes'
    BY <2>1 DEF StopInv, Boxes, Box, AtGame, Top, Running
  <2>4. QED
    BY <2>2, <2>3 DEF StopInv
<1>6. QED
  BY <1>1, <1>2, <1>3, <1>4, <1>5, StartsStop, UpdateStop, ProcessStop, ProfilerStop,
     AskStop, KillStop, AbortReturnsStop, ReadyStop, RefusedStop, BrokenStop, LateStop
     DEF Next

LEMMA StopInvariance == Spec => []StopInv
<1>1. Init => StopInv
  <2>1. SUFFICES ASSUME Init PROVE StopInv
    OBVIOUS
  <2>2. Stops /\ Aborts
    BY <2>1 DEF Init, Stops, Aborts, Running
  <2>3. Boxes
    BY <2>1 DEF Init, Boxes
  <2>4. QED
    BY <2>2, <2>3 DEF StopInv
<1>2. IInv /\ StopInv /\ [Next]_vars => StopInv'
  BY NextStop
<1>3. QED
  BY <1>1, <1>2, Invariance, PTL DEF Spec

\* After an abort that was accepted the launch starts no other step and never succeeds,
\* and a launch that its controller gave up was told to stop or is being killed; for
\* every set of instances and every order in which the boxes are answered.
THEOREM AbortFinal == Spec => []AbortIsFinal
<1>1. StopInv => AbortIsFinal
  BY DEF StopInv, Stops, Aborts, Doomed, AbortIsFinal
<1>2. QED
  BY <1>1, StopInvariance, PTL

=============================================================================
