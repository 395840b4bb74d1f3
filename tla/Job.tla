-------------------------------- MODULE Job --------------------------------
(***************************************************************************)
(* What a job of downloads promises (launcher/net/NetJob.h, seen from the  *)
(* code that starts one): every part it was given ends well or badly, a    *)
(* part that ended stays ended, and the job is over when no part is        *)
(* pending, successfully exactly when no part ended badly.                 *)
(***************************************************************************)
EXTENDS Naturals

CONSTANT MaxParts  \* bound on the number of parts

Part == 1..MaxParts

VARIABLES
  state,   \* the state of the task
  outcome  \* how each part stands; parts not added yet are "none"

vars == <<state, outcome>>

TypeOK ==
  /\ state \in {"Inactive", "Running", "Succeeded", "Failed", "AbortedByUser"}
  /\ outcome \in [Part -> {"none", "pending", "ok", "bad"}]

Init ==
  /\ state = "Inactive"
  /\ outcome = [p \in Part |-> "none"]

Add(p) ==
  /\ outcome[p] = "none"
  /\ outcome' = [outcome EXCEPT ![p] = "pending"]
  /\ UNCHANGED state

Start ==
  /\ state # "Running"
  /\ state' = "Running"
  /\ UNCHANGED outcome

\* A part ends; an abort may end several at once.
End(S, o) ==
  /\ \A p \in S : outcome[p] = "pending"
  /\ outcome' = [p \in Part |-> IF p \in S THEN o ELSE outcome[p]]
  /\ UNCHANGED state

Finish ==
  /\ state = "Running"
  /\ \A p \in Part : outcome[p] # "pending"
  /\ \/ /\ \A p \in Part : outcome[p] # "bad"
        /\ state' = "Succeeded"
     \/ /\ \E p \in Part : outcome[p] = "bad"
        /\ state' \in {"Failed", "AbortedByUser"}
  /\ UNCHANGED outcome

Next ==
  \/ \E p \in Part : Add(p)
  \/ Start
  \/ \E p \in Part : End({p}, "ok")
  \/ \E S \in SUBSET Part : End(S, "bad")
  \/ Finish

Spec == Init /\ [][Next]_vars
=============================================================================
