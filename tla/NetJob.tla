------------------------------- MODULE NetJob -------------------------------
(***************************************************************************)
(* A job of network actions (launcher/net/NetJob.cpp): a task that runs    *)
(* its parts, a bounded number at a time, tries a failing part again, and  *)
(* can be aborted.  A part is its index in `downloads` plus one.           *)
(*                                                                         *)
(* startMoreParts() starts parts in a loop, and a part that ends at once   *)
(* (a fresh cache entry, a refusing sink) calls it again from inside the   *)
(* loop.  Each turn of that loop is one step here; while `scheduling` the  *)
(* event loop is inside it and delivers nothing else.                      *)
(***************************************************************************)
EXTENDS Integers, Sequences, FiniteSets, Functions

CONSTANTS
  MaxParts,       \* bound on the number of parts
  Abortable,      \* the parts whose action implements abort()
  Concurrencies   \* what the "Threads" setting may be bounded to

Part == 1..MaxParts

ASSUME NetJobAssumption ==
  /\ MaxParts \in Nat
  /\ Abortable \subseteq Part
  /\ Concurrencies \subseteq 1..32

MaxFailures == 3

VARIABLES
  state,        \* Task::m_state
  size,         \* the length of downloads
  todo,         \* m_todo
  doing,        \* m_doing
  done,         \* m_done
  failed,       \* m_failed
  failures,     \* part_info::failures
  aborted,      \* m_aborted
  concurrency,  \* m_concurrency
  queued,       \* is a startMoreParts() call waiting in the event queue?
  scheduling,   \* is startMoreParts() running?
  stopping,     \* parts told to abort whose answer is still to come
  starts        \* how often each part was started (history)

partVars == <<size, todo, doing, done, failed, failures>>
vars == <<state, partVars, aborted, concurrency, queued, scheduling, stopping,
          starts>>

Parts == 1..size
Waiting == Range(todo)

TypeOK ==
  /\ state \in {"Inactive", "Running", "Succeeded", "Failed", "AbortedByUser"}
  /\ size \in 0..MaxParts
  /\ todo \in Seq(Parts)
  /\ doing \subseteq Parts /\ done \subseteq Parts /\ failed \subseteq Parts
  /\ failures \in [Part -> 0..MaxFailures]
  /\ aborted \in BOOLEAN /\ queued \in BOOLEAN /\ scheduling \in BOOLEAN
  /\ concurrency \in 1..32
  /\ stopping \subseteq doing
  /\ starts \in [Part -> Nat]

Init ==
  /\ state = "Inactive"
  /\ size = 0 /\ todo = <<>>
  /\ doing = {} /\ done = {} /\ failed = {} /\ stopping = {}
  /\ failures = [p \in Part |-> 0] /\ starts = [p \in Part |-> 0]
  /\ aborted = FALSE /\ queued = FALSE /\ scheduling = FALSE
  /\ concurrency = 1

(***************************************************************************)
(* Building, starting and aborting the job.                                *)
(***************************************************************************)

\* addNetAction(); every caller in the repository adds actions that do not run yet.
AddPart ==
  /\ ~scheduling /\ size < MaxParts
  /\ size' = size + 1
  /\ todo' = Append(todo, size + 1)
  /\ UNCHANGED <<state, doing, done, failed, failures, aborted, concurrency,
                 queued, scheduling, stopping, starts>>

\* Task::start() and executeTask().
Start ==
  /\ ~scheduling /\ state # "Running"
  /\ state' = "Running"
  /\ concurrency' \in Concurrencies
  /\ queued' = TRUE
  /\ UNCHANGED <<partVars, aborted, scheduling, stopping, starts>>

QueuedStart ==
  /\ ~scheduling /\ queued
  /\ queued' = FALSE
  /\ scheduling' = (state = "Running")
  /\ UNCHANGED <<state, partVars, aborted, concurrency, stopping, starts>>

\* Mutant: the waiting parts fail but stay in the queue.
AbortKeepsQueue(now) ==
  /\ ~scheduling
  /\ now \subseteq doing \cap Abortable
  /\ todo' = todo
  /\ failed' = failed \cup Waiting \cup now
  /\ doing' = doing \ now
  /\ stopping' = (stopping \ now) \cup ((doing \cap Abortable) \ now)
  /\ aborted' = (aborted \/ now # {})
  /\ scheduling' = (now # {} /\ state = "Running")
  /\ UNCHANGED <<state, size, done, failures, concurrency, queued, starts>>

\* abort(): the waiting parts fail; of the active ones, those in `now` answer
\* "aborted" at once, others (a download that just got a redirect) later, and
\* actions without an abort() go on.
Abort(now) ==
  /\ ~scheduling
  /\ now \subseteq doing \cap Abortable
  /\ todo' = <<>>
  /\ failed' = failed \cup Waiting \cup now
  /\ doing' = doing \ now
  /\ stopping' = (stopping \ now) \cup ((doing \cap Abortable) \ now)
  /\ aborted' = (aborted \/ now # {})
  /\ scheduling' = (now # {} /\ state = "Running")
  /\ UNCHANGED <<state, size, done, failures, concurrency, queued, starts>>

(***************************************************************************)
(* The handlers of the answers.  Each ends in startMoreParts().            *)
(***************************************************************************)
Succeeded(p) ==
  /\ done' = done \cup {p}
  /\ UNCHANGED <<failed, failures>>

\* Mutant: one try too many.
FailedLate(p, queue) ==
  /\ IF failures[p] = MaxFailures + 1
     THEN /\ failed' = failed \cup {p} /\ todo' = queue
          /\ UNCHANGED failures
     ELSE /\ todo' = Append(queue, p) /\ failures' = [failures EXCEPT ![p] = @ + 1]
          /\ UNCHANGED failed
  /\ UNCHANGED done

\* partFailed(): the fourth failure is final.
Failed(p, queue) ==
  /\ IF failures[p] = MaxFailures
     THEN /\ failed' = failed \cup {p} /\ todo' = queue
          /\ UNCHANGED failures
     ELSE /\ todo' = Append(queue, p) /\ failures' = [failures EXCEPT ![p] = @ + 1]
          /\ UNCHANGED failed
  /\ UNCHANGED done

\* Mutant: an answer does not look for more parts to start.
AnswerIdle(p) ==
  /\ ~scheduling
  /\ p \in doing
  /\ doing' = doing \ {p} /\ stopping' = stopping \ {p}
  /\ UNCHANGED <<state, size, concurrency, queued, scheduling, starts>>

Answer(p) ==
  /\ ~scheduling
  /\ p \in doing
  /\ doing' = doing \ {p} /\ stopping' = stopping \ {p}
  /\ scheduling' = (state = "Running")
  /\ UNCHANGED <<state, size, concurrency, queued, starts>>

\* Also when it was told to stop: an action that may fall back to local data does
\* so if the error comes after the abort.
PartSucceeded(p) ==
  /\ Answer(p)
  /\ Succeeded(p)
  /\ UNCHANGED <<todo, aborted>>

PartFailed(p) ==
  /\ Answer(p)
  /\ Failed(p, todo)
  /\ UNCHANGED aborted

PartAborted(p) ==
  /\ Answer(p) /\ p \in stopping
  /\ failed' = failed \cup {p}
  /\ aborted' = TRUE
  /\ UNCHANGED <<todo, done, failures>>

(***************************************************************************)
(* The loop of startMoreParts().                                           *)
(***************************************************************************)

\* Mutant: the job does not look at the parts that failed.
VerdictOptimist ==
  /\ scheduling /\ todo = <<>> /\ doing = {}
  /\ state' = IF aborted THEN "AbortedByUser" ELSE "Succeeded"
  /\ scheduling' = FALSE
  /\ UNCHANGED <<partVars, aborted, concurrency, queued, stopping, starts>>

Verdict ==
  /\ scheduling /\ todo = <<>> /\ doing = {}
  /\ state' = IF failed = {} THEN "Succeeded"
              ELSE IF aborted THEN "AbortedByUser" ELSE "Failed"
  /\ scheduling' = FALSE
  /\ UNCHANGED <<partVars, aborted, concurrency, queued, stopping, starts>>

\* Mutant: a slot too many.
BusyLate == Cardinality(doing) > concurrency

Busy == Cardinality(doing) >= concurrency

Return ==
  /\ scheduling
  /\ IF todo = <<>> THEN doing # {} ELSE Busy
  /\ scheduling' = FALSE
  /\ UNCHANGED <<state, partVars, aborted, concurrency, queued, stopping, starts>>

\* The first waiting part is started: it runs, or it succeeds or fails at once.
StartPart ==
  LET p == Head(todo) IN
  /\ scheduling /\ todo # <<>> /\ ~Busy
  /\ starts' = [starts EXCEPT ![p] = @ + 1]
  /\ \/ /\ doing' = doing \cup {p} /\ todo' = Tail(todo)
        /\ UNCHANGED <<done, failed, failures>>
     \/ /\ Succeeded(p) /\ todo' = Tail(todo) /\ UNCHANGED doing
     \/ /\ Failed(p, Tail(todo)) /\ UNCHANGED doing
  /\ UNCHANGED <<state, size, aborted, concurrency, queued, scheduling, stopping>>

StartMoreParts == Verdict \/ Return \/ StartPart
PartAnswers(p) == PartSucceeded(p) \/ PartFailed(p) \/ PartAborted(p)

Next ==
  \/ AddPart
  \/ Start
  \/ QueuedStart
  \/ \E now \in SUBSET Part : Abort(now)
  \/ \E p \in Part : PartAnswers(p)
  \/ StartMoreParts

Spec == Init /\ [][Next]_vars

\* The event loop delivers what is queued, the loop of startMoreParts() runs to
\* its end, and every action that runs is answered by the network stack.
Fairness ==
  /\ WF_vars(StartMoreParts)
  /\ WF_vars(QueuedStart)
  /\ \A p \in Part : WF_vars(PartAnswers(p))

FairSpec == Spec /\ Fairness

(***************************************************************************)
(* Properties.                                                             *)
(***************************************************************************)

\* Every part is in exactly one place: no part is lost by a retry or an abort,
\* and none is started while it runs or after it ended.
OnePlaceEach ==
  /\ Parts = Waiting \cup doing \cup done \cup failed
  /\ \A i, j \in DOMAIN todo : todo[i] = todo[j] => i = j
  /\ Waiting \cap (doing \cup done \cup failed) = {}
  /\ doing \cap (done \cup failed) = {}
  /\ done \cap failed = {}

\* No part is started more than four times, whatever answers come in which order
\* and however often the job is started again.
StartsBounded == \A p \in Part : starts[p] <= MaxFailures + 1

\* Not more parts run than the setting allowed when the job was started.
ConcurrencyRespected == Cardinality(doing) <= concurrency

\* Parts run, and startMoreParts() is in its loop, only while the job runs: no
\* part is started for a job that has reported its end.
QuietWhenOver == state # "Running" => doing = {} /\ ~scheduling

\* A job that reports success has done every part it was given.
SuccessMeansDone == [][(state' = "Succeeded" /\ state # "Succeeded") => (done = Parts)]_vars

\* A job that runs comes to an end.
JobEnds == (state = "Running") ~> (state # "Running")

\* The job keeps the promise of module Job.
Outcome ==
  [p \in Part |-> IF p \notin Parts THEN "none"
                  ELSE IF p \in done THEN "ok"
                  ELSE IF p \in failed THEN "bad" ELSE "pending"]
Promise == INSTANCE Job WITH state <- state, outcome <- Outcome
KeepsPromise == Promise!Spec
=============================================================================
