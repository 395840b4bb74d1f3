--------------------------- MODULE NetJob_proofs ---------------------------
(***************************************************************************)
(* Proofs about module NetJob: for any number of parts, any concurrency    *)
(* and any order of answers, the queue of a job never loses or doubles a   *)
(* part and never starts one more than four times; and a job whose parts   *)
(* are all its own implements module Job.                                  *)
(***************************************************************************)
EXTENDS NetJob, FiniteSetTheorems, SequenceTheorems, TLAPS

(***************************************************************************)
(* Queues without repetition.                                              *)
(***************************************************************************)
Distinct(s) == \A i, j \in DOMAIN s : s[i] = s[j] => i = j

LEMMA EmptyQueue == Range(<<>>) = {} /\ Distinct(<<>>)
  BY DEF Range, Distinct

\* What enqueueing does: the queue holds one element more, and stays without
\* repetition if the element is new.
LEMMA Enqueue ==
  ASSUME NEW S, NEW s \in Seq(S), NEW e \in S
  PROVE  /\ Append(s, e) \in Seq(S)
         /\ Range(Append(s, e)) = Range(s) \cup {e}
         /\ (Distinct(s) /\ e \notin Range(s)) => Distinct(Append(s, e))
<1> DEFINE t == Append(s, e)
           n == Len(s)
<1>1. /\ t \in Seq(S) /\ DOMAIN s = 1..n /\ DOMAIN t = 1..(n + 1) /\ n \in Nat
      /\ t[n + 1] = e /\ \A i \in 1..n : t[i] = s[i]
  BY AppendProperties, LenProperties
<1> HIDE DEF t, n
<1>2. Range(t) = Range(s) \cup {e}
  <2>1. ASSUME NEW x \in Range(t) PROVE x \in Range(s) \cup {e}
    <3>1. PICK i \in 1..(n + 1) : x = t[i]
      BY <1>1 DEF Range
    <3>2. i = n + 1 \/ i \in 1..n
      BY <1>1
    <3>3. QED
      BY <3>1, <3>2, <1>1 DEF Range
  <2>2. ASSUME NEW x \in Range(s) PROVE x \in Range(t)
    <3>1. PICK i \in 1..n : x = s[i]
      BY <1>1 DEF Range
    <3>2. i \in 1..(n + 1) /\ t[i] = x
      BY <3>1, <1>1
    <3>3. QED
      BY <3>2, <1>1 DEF Range
  <2>3. e \in Range(t)
    <3>1. n + 1 \in DOMAIN t
      BY <1>1
    <3>2. QED
      BY <3>1, <1>1 DEF Range
  <2>4. QED
    BY <2>1, <2>2, <2>3
<1>3. ASSUME Distinct(s), e \notin Range(s) PROVE Distinct(t)
  <2>1. \A i \in 1..n : t[i] # e
    BY <1>1, <1>3 DEF Range
  <2>2. ASSUME NEW i \in 1..(n + 1), NEW j \in 1..(n + 1), t[i] = t[j]
        PROVE  i = j
    BY <1>1, <1>3, <2>1, <2>2 DEF Distinct
  <2>3. QED
    BY <2>2, <1>1 DEF Distinct
<1>4. QED
  BY <1>1, <1>2, <1>3 DEF t

\* What dequeueing does: the first element leaves, and only it.
LEMMA Dequeue ==
  ASSUME NEW S, NEW s \in Seq(S), s # <<>>, Distinct(s)
  PROVE  /\ Tail(s) \in Seq(S)
         /\ Head(s) \in Range(s) /\ Head(s) \in S
         /\ Range(Tail(s)) = Range(s) \ {Head(s)}
         /\ Distinct(Tail(s))
<1> DEFINE t == Tail(s)
           n == Len(s)
<1>1. /\ t \in Seq(S) /\ Head(s) = s[1] /\ n \in Nat \ {0} /\ DOMAIN s = 1..n
      /\ DOMAIN t = 1..(n - 1) /\ \A i \in 1..(n - 1) : t[i] = s[i + 1]
      /\ Head(s) \in S
  BY HeadTailProperties, LenProperties, EmptySeq
<1> HIDE DEF t, n
<1>2. Head(s) \in Range(s)
  BY <1>1 DEF Range
<1>3. Range(t) = Range(s) \ {Head(s)}
  <2>1. ASSUME NEW x \in Range(t) PROVE x \in Range(s) \ {Head(s)}
    <3>1. PICK i \in 1..(n - 1) : x = t[i]
      BY <1>1 DEF Range
    <3>2. i + 1 \in DOMAIN s /\ 1 \in DOMAIN s /\ i + 1 # 1 /\ x = s[i + 1]
      BY <3>1, <1>1
    <3>3. QED
      BY <3>2, <1>1 DEF Range, Distinct
  <2>2. ASSUME NEW x \in Range(s), x # Head(s) PROVE x \in Range(t)
    <3>1. PICK i \in 1..n : x = s[i]
      BY <1>1 DEF Range
    <3>2. i - 1 \in 1..(n - 1) /\ (i - 1) + 1 = i
      BY <3>1, <2>2, <1>1
    <3>3. t[i - 1] = x
      BY <3>1, <3>2, <1>1
    <3>4. QED
      BY <3>2, <3>3, <1>1 DEF Range
  <2>3. QED
    BY <2>1, <2>2
<1>4. Distinct(t)
  <2>1. ASSUME NEW i \in 1..(n - 1), NEW j \in 1..(n - 1), t[i] = t[j]
        PROVE  i = j
    <3>1. i + 1 \in 1..n /\ j + 1 \in 1..n /\ s[i + 1] = s[j + 1]
      BY <1>1, <2>1
    <3>2. i + 1 = j + 1
      BY <3>1, <1>1 DEF Distinct
    <3>3. QED
      BY <3>2
  <2>2. QED
    BY <2>1, <1>1 DEF Distinct
<1>5. QED
  BY <1>1, <1>2, <1>3, <1>4 DEF t

(***************************************************************************)
(* How the actions change the queue.                                       *)
(***************************************************************************)
LEMMA AddsPart ==
  ASSUME TypeOK, OnePlaceEach, AddPart
  PROVE  /\ size' \in 0..MaxParts /\ Parts' = Parts \cup {size + 1}
         /\ size + 1 \in Part /\ size + 1 \notin Parts
         /\ todo' \in Seq(Parts') /\ Waiting' = Waiting \cup {size + 1}
         /\ Distinct(todo')
<1>0. /\ size' = size + 1 /\ size < MaxParts
      /\ MaxParts \in Nat /\ size \in 0..MaxParts
  BY NetJobAssumption DEF TypeOK, AddPart
<1>1. /\ size' \in 0..MaxParts
      /\ Parts' = Parts \cup {size + 1} /\ size + 1 \in Part
      /\ size + 1 \notin Parts
  BY <1>0 DEF Parts, Part
<1>2. todo \in Seq(Parts')
  BY <1>1, SeqMonotonic DEF TypeOK
<1>3. size + 1 \notin Range(todo)
  BY <1>1 DEF OnePlaceEach, Waiting
<1>4. Distinct(todo)
  BY DEF OnePlaceEach, Distinct
<1>5. QED
  BY <1>1, <1>2, <1>3, <1>4, Enqueue DEF AddPart, Waiting

\* A part that fails is finally failed, or it goes to the end of the queue.
LEMMA FailsOrRetries ==
  ASSUME TypeOK, NEW q \in Seq(Parts), Distinct(q), NEW p \in Parts,
         p \notin Range(q), Failed(p, q)
  PROVE  /\ todo' \in Seq(Parts) /\ Distinct(todo')
         /\ failures' \in [Part -> 0..MaxFailures]
         /\ \/ /\ failures[p] = MaxFailures
               /\ Range(todo') = Range(q) /\ failed' = failed \cup {p}
               /\ failures' = failures
            \/ /\ Range(todo') = Range(q) \cup {p} /\ failed' = failed
               /\ failures' = [failures EXCEPT ![p] = @ + 1]
<1>1. p \in Part
  BY NetJobAssumption DEF TypeOK, Parts, Part
<1>2. CASE failures[p] = MaxFailures
  BY <1>2 DEF Failed, TypeOK
<1>3. CASE failures[p] # MaxFailures
  <2>1. /\ todo' = Append(q, p) /\ failed' = failed
        /\ failures' = [failures EXCEPT ![p] = @ + 1]
    BY <1>3 DEF Failed
  <2>2. failures[p] + 1 \in 0..MaxFailures
    BY <1>1, <1>3 DEF TypeOK, MaxFailures
  <2>3. failures' \in [Part -> 0..MaxFailures]
    BY <2>1, <2>2 DEF TypeOK
  <2>4. QED
    BY <2>1, <2>3, Enqueue
<1>4. QED
  BY <1>2, <1>3

\* The answer of a part that runs does not find it in the queue.
LEMMA Answers ==
  ASSUME TypeOK, OnePlaceEach, NEW p \in Part, Answer(p)
  PROVE  p \in Parts /\ p \notin Waiting /\ p \notin done /\ p \notin failed
  BY DEF Answer, OnePlaceEach

\* The part startMoreParts() starts was waiting, and waits no longer.
LEMMA Starts ==
  ASSUME TypeOK, OnePlaceEach, StartPart
  PROVE  LET p == Head(todo) IN
         /\ p \in Parts /\ p \in Part /\ p \in Waiting
         /\ Tail(todo) \in Seq(Parts) /\ Distinct(Tail(todo))
         /\ Range(Tail(todo)) = Waiting \ {p}
<1>1. todo \in Seq(Parts) /\ todo # <<>> /\ Distinct(todo)
  BY DEF TypeOK, OnePlaceEach, StartPart, Distinct
<1>2. Parts \subseteq Part
  BY NetJobAssumption DEF TypeOK, Parts, Part
<1>3. QED
  BY <1>1, <1>2, Dequeue DEF Waiting

(***************************************************************************)
(* Types.                                                                  *)
(***************************************************************************)
LEMMA InitType == Init => TypeOK
<1>1. <<>> \in Seq(Parts)
  BY EmptySeq
<1>2. 0 \in 0..MaxParts /\ 0 \in 0..MaxFailures /\ 1 \in 1..32
  BY NetJobAssumption DEF MaxFailures
<1>3. Init => /\ failures \in [Part -> 0..MaxFailures]
              /\ starts \in [Part -> Nat]
  BY <1>2 DEF Init
<1>4. Init => todo \in Seq(Parts)
  BY <1>1 DEF Init
<1>5. QED
  BY <1>2, <1>3, <1>4 DEF Init, TypeOK

LEMMA TypeStep ==
  ASSUME TypeOK, OnePlaceEach, [Next]_vars
  PROVE  TypeOK'
<1>1. CASE AddPart
  BY <1>1, AddsPart DEF TypeOK, AddPart
<1>3. CASE Start
  BY <1>3, NetJobAssumption DEF TypeOK, Start, partVars, Parts
<1>4. CASE QueuedStart
  BY <1>4 DEF TypeOK, QueuedStart, partVars, Parts
<1>5. ASSUME NEW now \in SUBSET Part, Abort(now) PROVE TypeOK'
  <2>1. Parts' = Parts /\ todo' \in Seq(Parts) /\ Waiting \subseteq Parts
    BY <1>5, EmptySeq DEF Abort, Parts, OnePlaceEach
  <2>2. QED
    BY <1>5, <2>1 DEF Abort, TypeOK
<1>6. ASSUME NEW p \in Part, PartSucceeded(p) PROVE TypeOK'
  BY <1>6, Answers DEF PartSucceeded, Succeeded, Answer, TypeOK, Parts
<1>7. ASSUME NEW p \in Part, PartFailed(p) PROVE TypeOK'
  <2>1. p \in Parts /\ p \notin Waiting /\ Distinct(todo) /\ Failed(p, todo)
    BY <1>7, Answers DEF PartFailed, OnePlaceEach, Distinct
  <2>2. /\ todo' \in Seq(Parts) /\ failures' \in [Part -> 0..MaxFailures]
        /\ failed' \subseteq Parts
    BY <2>1, FailsOrRetries DEF TypeOK, Waiting
  <2>3. done' = done
    BY <2>1 DEF Failed
  <2>4. QED
    BY <1>7, <2>2, <2>3 DEF PartFailed, Answer, TypeOK, Parts
<1>8. ASSUME NEW p \in Part, PartAborted(p) PROVE TypeOK'
  BY <1>8, Answers DEF PartAborted, Answer, TypeOK, Parts
<1>9. CASE Verdict
  BY <1>9 DEF Verdict, TypeOK, partVars, Parts
<1>10. CASE Return
  BY <1>10 DEF Return, TypeOK, partVars, Parts
<1>11. CASE StartPart
  <2> DEFINE p == Head(todo)
             q == Tail(todo)
  <2>1. /\ p \in Parts /\ p \in Part /\ q \in Seq(Parts) /\ Distinct(q)
        /\ p \notin Range(q)
    BY <1>11, Starts
  <2>2. starts' \in [Part -> Nat]
    BY <1>11, <2>1 DEF StartPart, TypeOK
  <2>3. /\ todo' \in Seq(Parts) /\ doing' \subseteq Parts /\ doing \subseteq doing'
        /\ done' \subseteq Parts /\ failed' \subseteq Parts
        /\ failures' \in [Part -> 0..MaxFailures]
    <3>1. CASE Failed(p, q) /\ doing' = doing
      <4>1. done' = done
        BY <3>1 DEF Failed
      <4>2. QED
        BY <3>1, <4>1, <2>1, FailsOrRetries DEF TypeOK
    <3>2. CASE ~(Failed(p, q) /\ doing' = doing)
      BY <3>2, <1>11, <2>1 DEF StartPart, Succeeded, TypeOK
    <3>3. QED
      BY <3>1, <3>2
  <2>4. QED
    BY <1>11, <2>2, <2>3 DEF StartPart, TypeOK, Parts
<1>12. CASE UNCHANGED vars
  BY <1>12 DEF vars, partVars, TypeOK, Parts
<1>13. QED
  BY <1>1, <1>3, <1>4, <1>5, <1>6, <1>7, <1>8, <1>9, <1>10, <1>11, <1>12
     DEF Next, StartMoreParts, PartAnswers

(***************************************************************************)
(* Every part is in one place.                                             *)
(***************************************************************************)
LEMMA InitPlaces == Init => OnePlaceEach
<1>1. ASSUME Init PROVE Parts = {} /\ Waiting = {} /\ Distinct(todo)
  BY <1>1, EmptyQueue DEF Init, Parts, Waiting
<1>2. QED
  BY <1>1 DEF Init, OnePlaceEach, Distinct

LEMMA PlacesStep ==
  ASSUME TypeOK, OnePlaceEach, [Next]_vars
  PROVE  OnePlaceEach'
<1> USE DEF OnePlaceEach, Distinct
<1>1. CASE AddPart
  BY <1>1, AddsPart DEF AddPart
<1>3. CASE Start
  BY <1>3 DEF Start, partVars, Parts, Waiting
<1>4. CASE QueuedStart
  BY <1>4 DEF QueuedStart, partVars, Parts, Waiting
<1>5. ASSUME NEW now \in SUBSET Part, Abort(now) PROVE OnePlaceEach'
  <2>1. /\ Parts' = Parts /\ Waiting' = {} /\ Distinct(todo') /\ now \subseteq doing
        /\ failed' = failed \cup Waiting \cup now /\ doing' = doing \ now
        /\ done' = done
    BY <1>5, EmptyQueue DEF Abort, Parts, Waiting
  <2>2. QED
    BY <2>1
<1>6. ASSUME NEW p \in Part, PartSucceeded(p) PROVE OnePlaceEach'
  BY <1>6, Answers DEF PartSucceeded, Succeeded, Answer, Parts, Waiting
<1>7. ASSUME NEW p \in Part, PartFailed(p) PROVE OnePlaceEach'
  <2>1. p \in Parts /\ p \notin Range(todo) /\ Distinct(todo) /\ Failed(p, todo)
    BY <1>7, Answers DEF PartFailed, Waiting
  <2>2. /\ Distinct(todo')
        /\ \/ Waiting' = Waiting /\ failed' = failed \cup {p}
           \/ Waiting' = Waiting \cup {p} /\ failed' = failed
    BY <2>1, FailsOrRetries DEF TypeOK, Waiting
  <2>3. /\ Parts' = Parts /\ done' = done /\ doing' = doing \ {p}
        /\ p \in doing
    BY <1>7 DEF PartFailed, Answer, Failed, Parts
  <2>4. QED
    BY <2>2, <2>3
<1>8. ASSUME NEW p \in Part, PartAborted(p) PROVE OnePlaceEach'
  BY <1>8, Answers DEF PartAborted, Answer, Parts, Waiting
<1>9. CASE Verdict
  BY <1>9 DEF Verdict, partVars, Parts, Waiting
<1>10. CASE Return
  BY <1>10 DEF Return, partVars, Parts, Waiting
<1>11. CASE StartPart
  <2> DEFINE p == Head(todo)
             q == Tail(todo)
  <2>1. /\ p \in Parts /\ p \in Part /\ q \in Seq(Parts) /\ Distinct(q)
        /\ p \in Waiting /\ Range(q) = Waiting \ {p}
    BY <1>11, Starts
  <2>2. Parts' = Parts
    BY <1>11 DEF StartPart, Parts
  <2>3. CASE doing' = doing \cup {p} /\ todo' = q /\ UNCHANGED <<done, failed, failures>>
    BY <2>1, <2>2, <2>3 DEF Waiting
  <2>4. CASE Succeeded(p) /\ todo' = q /\ UNCHANGED doing
    BY <2>1, <2>2, <2>4 DEF Waiting, Succeeded
  <2>5. CASE Failed(p, q) /\ UNCHANGED doing
    <3>1. /\ Distinct(todo')
          /\ \/ Waiting' = Range(q) /\ failed' = failed \cup {p}
             \/ Waiting' = Range(q) \cup {p} /\ failed' = failed
      BY <2>1, <2>5, FailsOrRetries DEF Waiting
    <3>2. done' = done
      BY <2>5 DEF Failed
    <3>3. QED
      BY <2>1, <2>2, <2>5, <3>1, <3>2
  <2>6. QED
    BY <1>11, <2>3, <2>4, <2>5 DEF StartPart
<1>12. CASE UNCHANGED vars
  BY <1>12 DEF vars, partVars, Parts, Waiting
<1>13. QED
  BY <1>1, <1>3, <1>4, <1>5, <1>6, <1>7, <1>8, <1>9, <1>10, <1>11, <1>12
     DEF Next, StartMoreParts, PartAnswers

(***************************************************************************)
(* An over job is quiet, and a running one keeps to its limit.             *)
(***************************************************************************)
LEMMA QuietStep ==
  ASSUME TypeOK, QuietWhenOver, [Next]_vars
  PROVE  QuietWhenOver'
<1> USE DEF QuietWhenOver
<1>1. CASE AddPart
  BY <1>1 DEF AddPart
<1>2. CASE Start \/ QueuedStart
  BY <1>2 DEF Start, QueuedStart, partVars
<1>3. ASSUME NEW now \in SUBSET Part, Abort(now) PROVE QuietWhenOver'
  BY <1>3 DEF Abort
<1>4. ASSUME NEW p \in Part, PartAnswers(p) PROVE QuietWhenOver'
  BY <1>4 DEF PartAnswers, PartSucceeded, PartFailed, PartAborted, Answer
<1>5. CASE StartMoreParts
  BY <1>5 DEF StartMoreParts, Verdict, Return, StartPart, partVars
<1>6. CASE UNCHANGED vars
  BY <1>6 DEF vars, partVars
<1>7. QED
  BY <1>1, <1>2, <1>3, <1>4, <1>5, <1>6 DEF Next

LEMMA DoingIsFinite == TypeOK => IsFiniteSet(doing)
<1>1. SUFFICES ASSUME TypeOK PROVE IsFiniteSet(doing)
  OBVIOUS
<1>2. 1 \in Int /\ size \in Int
  BY <1>1, NetJobAssumption DEF TypeOK
<1>3. IsFiniteSet(Parts)
  BY <1>2, FS_Interval DEF Parts
<1>4. QED
  BY <1>1, <1>3, FS_Subset DEF TypeOK

LEMMA FewerRun ==
  ASSUME TypeOK, ConcurrencyRespected, doing' \subseteq doing,
         concurrency' = concurrency
  PROVE  ConcurrencyRespected'
<1>1. IsFiniteSet(doing)
  BY DoingIsFinite
<1>2. Cardinality(doing') <= Cardinality(doing) /\ IsFiniteSet(doing')
  BY <1>1, FS_Subset
<1>3. Cardinality(doing) \in Nat /\ Cardinality(doing') \in Nat
  BY <1>1, <1>2, FS_CardinalityType
<1>4. QED
  BY <1>2, <1>3 DEF ConcurrencyRespected, TypeOK

LEMMA ConcurrencyStep ==
  ASSUME TypeOK, QuietWhenOver, ConcurrencyRespected, [Next]_vars
  PROVE  ConcurrencyRespected'
<1>1. CASE AddPart
  BY <1>1, FewerRun DEF AddPart
<1>2. CASE Start
  <2>1. doing' = {} /\ concurrency' \in 1..32
    BY <1>2, NetJobAssumption DEF Start, QuietWhenOver, partVars
  <2>2. Cardinality(doing') = 0
    BY <2>1, FS_EmptySet
  <2>3. QED
    BY <2>1, <2>2 DEF ConcurrencyRespected
<1>3. CASE QueuedStart \/ Verdict \/ Return \/ UNCHANGED vars
  BY <1>3, FewerRun DEF QueuedStart, Verdict, Return, vars, partVars
<1>4. ASSUME NEW now \in SUBSET Part, Abort(now) PROVE ConcurrencyRespected'
  BY <1>4, FewerRun DEF Abort
<1>5. ASSUME NEW p \in Part, PartAnswers(p) PROVE ConcurrencyRespected'
  BY <1>5, FewerRun DEF PartAnswers, PartSucceeded, PartFailed, PartAborted, Answer
<1>6. CASE StartPart
  <2>1. CASE doing' = doing
    BY <1>6, <2>1, FewerRun DEF StartPart
  <2>2. CASE doing' = doing \cup {Head(todo)}
    <3>1. IsFiniteSet(doing)
      BY DoingIsFinite
    <3>2. Cardinality(doing) \in Nat
      BY <3>1, FS_CardinalityType
    <3>3. \/ Cardinality(doing') = Cardinality(doing)
          \/ Cardinality(doing') = Cardinality(doing) + 1
      BY <2>2, <3>1, FS_AddElement
    <3>4. ~(Cardinality(doing) >= concurrency) /\ concurrency' = concurrency
      BY <1>6 DEF StartPart, Busy
    <3>5. QED
      BY <3>2, <3>3, <3>4 DEF ConcurrencyRespected, TypeOK
  <2>3. QED
    BY <1>6, <2>1, <2>2 DEF StartPart
<1>7. QED
  BY <1>1, <1>2, <1>3, <1>4, <1>5, <1>6 DEF Next, StartMoreParts

(***************************************************************************)
(* The number of starts.  A waiting part was started at most as often as   *)
(* it failed, a running one at most once more.                             *)
(***************************************************************************)
StartsCounted ==
  \A p \in Part :
    /\ starts[p] <= MaxFailures + 1
    /\ p \in Waiting => starts[p] <= failures[p]
    /\ p \in doing => starts[p] <= failures[p] + 1
    /\ p \notin Parts => starts[p] = 0

LEMMA StartsStep ==
  ASSUME TypeOK, OnePlaceEach, StartsCounted, [Next]_vars
  PROVE  StartsCounted'
<1>1. CASE AddPart
  <2>1. /\ starts' = starts /\ failures' = failures /\ doing' = doing
       
        /\ Waiting' = Waiting \cup {size + 1} /\ Parts' = Parts \cup {size + 1}
        /\ size + 1 \notin Parts
    BY <1>1, AddsPart DEF AddPart
  <2>2. QED
    BY <2>1 DEF StartsCounted, TypeOK
<1>3. CASE Start \/ QueuedStart \/ Verdict \/ Return \/ UNCHANGED vars
  <2>1. /\ starts' = starts /\ failures' = failures /\ doing' = doing
        /\ Waiting' = Waiting /\ Parts' = Parts
    BY <1>3 DEF Start, QueuedStart, Verdict, Return, vars, partVars, Waiting, Parts
  <2>2. QED
    BY <2>1 DEF StartsCounted
<1>4. ASSUME NEW now \in SUBSET Part, Abort(now) PROVE StartsCounted'
  <2>1. /\ starts' = starts /\ failures' = failures /\ doing' \subseteq doing
        /\ Waiting' = {} /\ Parts' = Parts
    BY <1>4, EmptyQueue DEF Abort, Waiting, Parts
  <2>2. QED
    BY <2>1 DEF StartsCounted
<1>5. ASSUME NEW p \in Part, Answer(p), failures' = failures, todo' = todo
      PROVE  StartsCounted'
  <2>1. /\ starts' = starts /\ doing' \subseteq doing
        /\ Waiting' = Waiting /\ Parts' = Parts
    BY <1>5 DEF Answer, Waiting, Parts
  <2>2. QED
    BY <1>5, <2>1 DEF StartsCounted
<1>6. ASSUME NEW p \in Part, PartFailed(p) PROVE StartsCounted'
  <2>1. /\ starts' = starts /\ doing' = doing \ {p} /\ Parts' = Parts
        /\ p \in doing
    BY <1>6 DEF PartFailed, Answer, Parts
  <2>2. \/ Waiting' = Waiting /\ failures' = failures
        \/ Waiting' = Waiting \cup {p} /\ failures' = [failures EXCEPT ![p] = @ + 1]
    BY <1>6, Answers, FailsOrRetries
       DEF PartFailed, TypeOK, Waiting, OnePlaceEach, Distinct
  <2>3. QED
    BY <2>1, <2>2 DEF StartsCounted, TypeOK, OnePlaceEach
<1>7. CASE StartPart
  <2> DEFINE p == Head(todo)
             q == Tail(todo)
  <2>1. /\ p \in Parts /\ p \in Part /\ p \in Waiting /\ q \in Seq(Parts)
        /\ Distinct(q) /\ p \notin Range(q) /\ Range(q) = Waiting \ {p}
    BY <1>7, Starts
  <2>2. /\ starts' = [starts EXCEPT ![p] = @ + 1]
        /\ Parts' = Parts
    BY <1>7 DEF StartPart, Parts
  <2>3. starts[p] <= failures[p] /\ failures[p] \in 0..3 /\ starts[p] \in Nat
    BY <2>1 DEF StartsCounted, TypeOK, MaxFailures
  <2>4. /\ starts'[p] = starts[p] + 1
        /\ \A x \in Part \ {p} : starts'[x] = starts[x]
    BY <2>1, <2>2 DEF TypeOK
  <2>6. CASE Waiting' = Waiting \ {p} /\ failures' = failures /\ doing' \subseteq doing \cup {p}
    BY <2>1, <2>2, <2>3, <2>4, <2>6 DEF StartsCounted, MaxFailures
  <2>7. CASE /\ Waiting' = Waiting /\ failures' = [failures EXCEPT ![p] = @ + 1]
             /\ doing' = doing
    <3>1. /\ failures'[p] = failures[p] + 1
          /\ \A x \in Part \ {p} : failures'[x] = failures[x]
      BY <2>1, <2>7 DEF TypeOK
    <3>2. p \notin doing
      BY <2>1 DEF OnePlaceEach
    <3>3. QED
      BY <2>1, <2>2, <2>3, <2>4, <2>7, <3>1, <3>2
         DEF StartsCounted, MaxFailures
  <2>8. CASE Failed(p, q) /\ UNCHANGED doing
    <3>1. \/ Range(todo') = Range(q) /\ failures' = failures
          \/ /\ Range(todo') = Range(q) \cup {p}
             /\ failures' = [failures EXCEPT ![p] = @ + 1]
      BY <2>1, <2>8, FailsOrRetries
    <3>2. Range(q) \cup {p} = Waiting
      BY <2>1
    <3>3. \/ Waiting' = Waiting \ {p} /\ failures' = failures
          \/ Waiting' = Waiting /\ failures' = [failures EXCEPT ![p] = @ + 1]
      BY <2>1, <3>1, <3>2 DEF Waiting
    <3>4. QED
      BY <2>6, <2>7, <2>8, <3>3
  <2>9. CASE todo' = q /\ UNCHANGED failures /\ doing' \subseteq doing \cup {p}
    BY <2>1, <2>6, <2>9 DEF Waiting
  <2>10. QED
    BY <1>7, <2>8, <2>9 DEF StartPart, Succeeded
<1>8. QED
  BY <1>1, <1>3, <1>4, <1>5, <1>6, <1>7
     DEF Next, StartMoreParts, PartAnswers, PartSucceeded, PartAborted, Succeeded

(***************************************************************************)
(* The inductive invariant, and what follows from it.                      *)
(***************************************************************************)
IInv ==
  /\ TypeOK /\ OnePlaceEach /\ StartsCounted
  /\ QuietWhenOver /\ ConcurrencyRespected

LEMMA InitIInv == Init => IInv
<1>1. SUFFICES ASSUME Init PROVE IInv
  OBVIOUS
<1>2. TypeOK /\ OnePlaceEach
  BY <1>1, InitType, InitPlaces
<1>3. StartsCounted
  BY <1>1, <1>2, EmptyQueue DEF Init, StartsCounted, Waiting, MaxFailures
<1>4. QuietWhenOver
  BY <1>1 DEF Init, QuietWhenOver
<1>5. ConcurrencyRespected
  BY <1>1, FS_EmptySet DEF Init, ConcurrencyRespected
<1>6. QED
  BY <1>2, <1>3, <1>4, <1>5 DEF IInv

LEMMA NextIInv == IInv /\ [Next]_vars => IInv'
  BY TypeStep, PlacesStep, StartsStep, QuietStep, ConcurrencyStep DEF IInv

LEMMA Invariance == Spec => []IInv
  BY InitIInv, NextIInv, PTL DEF Spec

\* The variables of a job keep their types: no counter leaves its range and the
\* queue holds parts of the job only.
THEOREM TypeCorrect == Spec => []TypeOK
  BY Invariance, PTL DEF IInv

\* No retry, abort or restart of the job loses a part, doubles it or puts it
\* into two of the job's sets.
THEOREM PartsInOnePlace == Spec => []OnePlaceEach
  BY Invariance, PTL DEF IInv

\* No part is started more than four times, however the network answers.
THEOREM FourStartsAtMost == Spec => []StartsBounded
<1>1. IInv => StartsBounded
  BY DEF IInv, StartsCounted, StartsBounded
<1>2. QED
  BY <1>1, Invariance, PTL

\* A job keeps to the concurrency it took from the settings when it started.
THEOREM LimitKept == Spec => []ConcurrencyRespected
  BY Invariance, PTL DEF IInv

\* A job that reported its end runs nothing.
THEOREM OverMeansQuiet == Spec => []QuietWhenOver
  BY Invariance, PTL DEF IInv

LEMMA OnlyVerdictEnds ==
  ASSUME TypeOK, Next, state' # state
  PROVE  Start \/ Verdict
  BY DEF Next, AddPart, QueuedStart, Abort, PartAnswers,
         PartSucceeded, PartFailed, PartAborted, Answer, StartMoreParts, Return,
         StartPart

\* A job that reports success has done them all.
THEOREM SuccessIsComplete == Spec => SuccessMeansDone
<1>1. IInv /\ [Next]_vars =>
        ((state' = "Succeeded" /\ state # "Succeeded") => (done = Parts))
  <2>1. SUFFICES ASSUME IInv, Next,
                        state' = "Succeeded", state # "Succeeded"
                 PROVE  done = Parts
    BY DEF vars
  <2>2. Verdict
    BY <2>1, OnlyVerdictEnds DEF IInv, Start
  <2>3. Waiting = {} /\ doing = {} /\ failed = {}
    BY <2>1, <2>2, EmptyQueue DEF Verdict, Waiting
  <2>4. QED
    BY <2>1, <2>3 DEF IInv, OnePlaceEach
<1>2. QED
  BY <1>1, Invariance, PTL DEF Spec, SuccessMeansDone

(***************************************************************************)
(* A job implements module Job.                                            *)
(***************************************************************************)
LEMMA PromiseInit == Init => Promise!Init
<1>1. SUFFICES ASSUME Init PROVE Promise!Init
  OBVIOUS
<1>2. Parts = {}
  BY <1>1 DEF Init, Parts
<1>3. Outcome = [p \in Part |-> "none"]
  BY <1>2 DEF Outcome
<1>4. QED
  BY <1>1, <1>3 DEF Init, Promise!Init, Promise!Part, Part

\* Steps that end no part and not the job are invisible.
LEMMA PromiseStutters ==
  ASSUME Parts' = Parts, done' = done, failed' = failed
  PROVE  Outcome' = Outcome
  BY DEF Outcome

\* The parts of S, which have not ended, end in one step.
LEMMA PromiseEnds ==
  ASSUME NEW S \in SUBSET Parts, S \cap (done \cup failed) = {},
         Parts' = Parts, Parts \subseteq Part, state' = state,
         NEW o \in {"ok", "bad"},
         \/ o = "ok" /\ done' = done \cup S /\ failed' = failed
         \/ o = "bad" /\ failed' = failed \cup S /\ done' = done
  PROVE  Promise!End(S, o)
<1>1. \A p \in S : Outcome[p] = "pending"
  BY DEF Outcome
<1>2. Outcome' = [p \in Part |-> IF p \in S THEN o ELSE Outcome[p]]
  BY DEF Outcome
<1>3. QED
  BY <1>1, <1>2 DEF Promise!End, Promise!Part, Part

LEMMA PromiseStep ==
  ASSUME IInv, Next
  PROVE  Promise!Next \/ (state' = state /\ Outcome' = Outcome)
<1>1. /\ TypeOK /\ OnePlaceEach /\ QuietWhenOver
      /\ Parts \subseteq Part
  BY NetJobAssumption DEF IInv, TypeOK, Parts, Part
<1>2. CASE AddPart
  <2>1. /\ Parts' = Parts \cup {size + 1} /\ size + 1 \in Part /\ size + 1 \notin Parts
        /\ done' = done /\ failed' = failed /\ state' = state
    BY <1>1, <1>2, AddsPart DEF AddPart
  <2>2. Outcome[size + 1] = "none"
    BY <2>1 DEF Outcome
  <2>3. size + 1 \notin done /\ size + 1 \notin failed
    BY <2>1, <1>1 DEF TypeOK
  <2>4. Outcome' = [Outcome EXCEPT ![size + 1] = "pending"]
    BY <2>1, <2>3 DEF Outcome
  <2>5. Promise!Add(size + 1)
    BY <2>1, <2>2, <2>4 DEF Promise!Add
  <2>6. QED
    BY <2>1, <2>5 DEF Promise!Next, Promise!Part, Part
<1>4. CASE Start
  <2>1. Outcome' = Outcome
    BY <1>4, PromiseStutters DEF Start, partVars, Parts
  <2>2. Promise!Start
    BY <1>4, <2>1 DEF Start, Promise!Start
  <2>3. QED
    BY <2>2 DEF Promise!Next
<1>5. CASE QueuedStart \/ Return
  BY <1>5, PromiseStutters DEF QueuedStart, Return, partVars, Parts
<1>6. ASSUME NEW now \in SUBSET Part, Abort(now)
      PROVE  Promise!Next
  <2> DEFINE S == Waiting \cup now
  <2>1. /\ S \subseteq Parts /\ S \cap (done \cup failed) = {} /\ Parts' = Parts
        /\ state' = state /\ failed' = failed \cup S /\ done' = done
    BY <1>1, <1>6 DEF Abort, OnePlaceEach, Parts
  <2>2. Promise!End(S, "bad")
    BY <1>1, <2>1, PromiseEnds
  <2>3. S \in SUBSET Promise!Part
    BY <1>1, <2>1 DEF Promise!Part, Part
  <2>4. QED
    BY <2>2, <2>3 DEF Promise!Next
<1>7. ASSUME NEW p \in Part, PartAnswers(p)
      PROVE  Promise!Next \/ (state' = state /\ Outcome' = Outcome)
  <2>1. /\ p \in Parts /\ p \notin done /\ p \notin failed /\ Parts' = Parts
        /\ state' = state
    BY <1>1, <1>7, Answers
       DEF PartAnswers, PartSucceeded, PartFailed, PartAborted, Answer, Parts
  <2>2. {p} \in SUBSET Parts /\ {p} \cap (done \cup failed) = {}
    BY <2>1
  <2>3. CASE done' = done \cup {p} /\ failed' = failed
    <3>1. Promise!End({p}, "ok")
      BY <1>1, <2>1, <2>2, <2>3, PromiseEnds
    <3>2. QED
      BY <1>1, <2>1, <3>1 DEF Promise!Next, Promise!Part, Part
  <2>4. CASE failed' = failed \cup {p} /\ done' = done
    <3>1. Promise!End({p}, "bad")
      BY <1>1, <2>1, <2>2, <2>4, PromiseEnds
    <3>2. {p} \in SUBSET Promise!Part
      BY <1>1, <2>1 DEF Promise!Part, Part
    <3>3. QED
      BY <3>1, <3>2 DEF Promise!Next
  <2>5. CASE done' = done /\ failed' = failed
    BY <2>1, <2>5, PromiseStutters
  <2>6. QED
    BY <1>7, <2>3, <2>4, <2>5
       DEF PartAnswers, PartSucceeded, PartFailed, PartAborted, Succeeded, Failed
<1>8. CASE Verdict
  <2>1. /\ Outcome' = Outcome /\ Waiting = {} /\ doing = {} /\ scheduling
        /\ state' = IF failed = {} THEN "Succeeded"
                    ELSE IF aborted THEN "AbortedByUser" ELSE "Failed"
    BY <1>8, PromiseStutters, EmptyQueue DEF Verdict, partVars, Parts, Waiting
  <2>2. state = "Running" /\ Parts = done \cup failed /\ done \cap failed = {}
    BY <1>1, <2>1 DEF QuietWhenOver, OnePlaceEach
  <2>3. \A p \in Promise!Part : Outcome[p] # "pending"
    BY <2>2 DEF Outcome, Promise!Part, Part
  <2>4. CASE failed = {}
    <3>1. \A p \in Promise!Part : Outcome[p] # "bad"
      BY <2>4 DEF Outcome, Promise!Part, Part
    <3>2. Promise!Finish
      BY <2>1, <2>2, <2>3, <2>4, <3>1 DEF Promise!Finish
    <3>3. QED
      BY <3>2 DEF Promise!Next
  <2>5. CASE failed # {}
    <3>1. PICK p \in failed : TRUE
      BY <2>5
    <3>2. p \in Promise!Part /\ Outcome[p] = "bad"
      BY <1>1, <2>2, <3>1 DEF Outcome, Promise!Part, Part
    <3>3. state' \in {"Failed", "AbortedByUser"}
      BY <2>1, <2>5
    <3>4. Promise!Finish
      BY <2>1, <2>2, <2>3, <3>2, <3>3 DEF Promise!Finish
    <3>5. QED
      BY <3>4 DEF Promise!Next
  <2>6. QED
    BY <2>4, <2>5
<1>9. CASE StartPart
  <2> DEFINE p == Head(todo)
             q == Tail(todo)
  <2>1. /\ p \in Parts /\ p \in Part /\ p \in Waiting /\ q \in Seq(Parts)
        /\ p \notin done /\ p \notin failed
    BY <1>1, <1>9, Starts DEF OnePlaceEach
  <2>2. /\ Parts' = Parts /\ state' = state
        /\ {p} \in SUBSET Parts /\ {p} \cap (done \cup failed) = {}
    BY <1>9, <2>1 DEF StartPart, Parts
  <2>3. CASE done' = done \cup {p} /\ failed' = failed
    <3>1. Promise!End({p}, "ok")
      BY <1>1, <2>2, <2>3, PromiseEnds
    <3>2. QED
      BY <1>1, <2>1, <3>1 DEF Promise!Next, Promise!Part, Part
  <2>4. CASE failed' = failed \cup {p} /\ done' = done
    <3>1. Promise!End({p}, "bad")
      BY <1>1, <2>2, <2>4, PromiseEnds
    <3>2. {p} \in SUBSET Promise!Part
      BY <1>1, <2>1 DEF Promise!Part, Part
    <3>3. QED
      BY <3>1, <3>2 DEF Promise!Next
  <2>5. CASE done' = done /\ failed' = failed
    BY <2>2, <2>5, PromiseStutters
  <2>6. QED
    BY <1>9, <2>3, <2>4, <2>5 DEF StartPart, Succeeded, Failed
<1>10. QED
  BY <1>2, <1>4, <1>5, <1>6, <1>7, <1>8, <1>9 DEF Next, StartMoreParts

\* A job does what its users count on: what ended stays ended,
\* and the job ends when nothing is pending, well exactly if all parts did.
THEOREM PromiseKept == Spec => KeepsPromise
<1>1. IInv /\ [Next]_vars => [Promise!Next]_(Promise!vars)
  <2>1. SUFFICES ASSUME IInv, [Next]_vars
                 PROVE  Promise!Next \/ (state' = state /\ Outcome' = Outcome)
    BY DEF Promise!vars
  <2>2. CASE Next
    BY <2>1, <2>2, PromiseStep
  <2>3. CASE UNCHANGED vars
    BY <2>3, PromiseStutters DEF vars, partVars, Parts
  <2>4. QED
    BY <2>1, <2>2, <2>3
<1>2. QED
  BY <1>1, PromiseInit, Invariance, PTL
     DEF Spec, KeepsPromise, Promise!Spec
=============================================================================
