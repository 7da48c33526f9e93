---------------------- MODULE NotificationQueue_proofs ----------------------
(***************************************************************************)
(* The safety of the mail queue, for any number of mails and server        *)
(* processes and any number of faults.                                     *)
(*                                                                         *)
(* RepeatsNeedFaults counts what was sent; what makes it inductive counts  *)
(* also what may still be sent.  A mail may be sent once more by every     *)
(* worker that holds it and has not sent it (Live), once by the next claim *)
(* if the row is open to one now or after a recovery (Free), and once by a *)
(* retry by hand that has passed its check.  No step raises the sum unless *)
(* it is a fault: a claim turns Free into one Live worker, a refusal turns *)
(* it back.  The limit on attempts follows in the same way, with only the  *)
(* live workers counted that would still queue the mail again (Young).     *)
(***************************************************************************)
EXTENDS NotificationQueue, FiniteSetTheorems, TLAPS

One(b) == IF b THEN 1 ELSE 0

SentBy(w, n) == worker[w].step = "accepted" /\ worker[w].now = n
Live(n) == {w \in Workers : n \in worker[w].left /\ ~SentBy(w, n)}
Young(n) == {w \in Live(n) : worker[w].tries[n] < MaxAttempts}
Free(n) == \/ status[n] \in {"NONE"} \cup Waiting
           \/ status[n] = "PROCESSING" /\ (old[n] \/ ~Held(n))
Open(n) == One(Free(n)) + One(n \in retrying)

\* Between its passes a worker holds nothing.
Tidy == \A w \in Workers : worker[w].step \in {"down", "start", "idle"} => worker[w].left = {}

\* The two budgets of a row.
Within(n) ==
    /\ accepted[n] + Cardinality(Live(n)) + Open(n) <= 1 + faults
    /\ attempts[n] + Cardinality(Young(n)) + Open(n) <= MaxAttempts + faults
Budget == \A n \in Logs : Within(n)

\* What was accepted is known to its worker and to a row that says SENT.
Taken ==
    /\ \A n \in Logs : status[n] = "SENT" => accepted[n] > 0
    /\ \A w \in Workers : At(w, "accepted") => accepted[worker[w].now] > 0

\* While nothing has gone wrong a row that says PROCESSING has its one worker.
Calm == faults = 0 =>
    /\ retrying = {}
    /\ \A n \in Logs, v, w \in Workers :
          n \in worker[v].left /\ n \in worker[w].left => v = w
    /\ \A n \in Logs, w \in Workers :
          n \in worker[w].left => status[n] = "PROCESSING" /\ ~old[n]
    /\ \A n \in Logs : status[n] = "PROCESSING" => Held(n)
    /\ \A n \in Logs : accepted[n] > 0 =>
          \/ status[n] = "SENT"
          \/ status[n] = "PROCESSING" /\ \E w \in Workers : n \in worker[w].left /\ SentBy(w, n)

\* The inductive invariant.
IInv == TypeOK /\ Tidy /\ Budget /\ Taken /\ Calm

------------------------------------------------------------------------------
(* Types.                                                                  *)

\* A step of one worker leaves the others alone.
LEMMA DownTyped == Down \in Process
BY DEF Down, Process, Steps

\* The shape of the record after the last answer for a row.
LEMMA FinishTyped ==
    ASSUME TypeOK, NEW w \in Workers, NEW n \in worker[w].left, Finish(w, n)
    PROVE  /\ worker' \in [Workers -> Process]
           /\ \A v \in Workers : worker'[v].step \in {"accepted", "refused"}
                                     => worker'[v].now \in worker'[v].left
           /\ \A v \in Workers : v # w => worker'[v] = worker[v]
           /\ worker'[w].left = worker[w].left \ {n}
           /\ worker'[w].step \in {"idle", "loop"}
           /\ worker'[w].step = "idle" => worker'[w].left = {}
           /\ worker'[w].again = FALSE
           /\ \A m \in Logs : m # n => worker'[w].tries[m] = worker[w].tries[m]
<1>1. worker[w] \in Process /\ n \in Logs
  BY DEF TypeOK, Process
<1> DEFINE left == worker[w].left \ {n}
           r == [step |-> IF left = {} THEN "idle" ELSE "loop", left |-> left,
                 now |-> NoLog, again |-> FALSE, tries |-> [worker[w].tries EXCEPT ![n] = 0]]
<1>2. r \in Process
  <2>1. [worker[w].tries EXCEPT ![n] = 0] \in [Logs -> Nat]
    BY <1>1 DEF Process
  <2> QED BY <1>1, <2>1 DEF Process, Steps
<1>3. worker' = [worker EXCEPT ![w] = r]
  BY DEF Finish
<1>4. /\ worker'[w] = r
      /\ \A v \in Workers : v # w => worker'[v] = worker[v]
      /\ worker' \in [Workers -> Process]
  BY <1>2, <1>3 DEF TypeOK
<1>5. /\ r.left = worker[w].left \ {n}
      /\ r.step = IF left = {} THEN "idle" ELSE "loop"
      /\ r.again = FALSE
      /\ r.tries = [worker[w].tries EXCEPT ![n] = 0]
  BY <1>1 DEF Process
<1>6. \A m \in Logs : m # n => r.tries[m] = worker[w].tries[m]
  BY <1>1, <1>5 DEF Process
<1> HIDE DEF r
<1>7. r.step \in {"idle", "loop"} /\ (r.step = "idle" => r.left = {})
  BY <1>5
<1> QED BY <1>4, <1>5, <1>6, <1>7 DEF TypeOK

\* An answer for a row moves the worker on to it and nothing else.
LEMMA AnsweredTyped ==
    ASSUME TypeOK, NEW w \in Workers, NEW n \in worker[w].left,
           NEW step \in {"accepted", "refused"}, NEW again \in BOOLEAN, Answered(w, n, step, again)
    PROVE  /\ worker' \in [Workers -> Process]
           /\ \A v \in Workers : worker'[v].step \in {"accepted", "refused"}
                                     => worker'[v].now \in worker'[v].left
           /\ \A v \in Workers : v # w => worker'[v] = worker[v]
           /\ worker'[w].left = worker[w].left
           /\ worker'[w].step = step /\ worker'[w].now = n
           /\ worker'[w].tries = worker[w].tries
<1>1. worker[w] \in Process /\ n \in Logs
  BY DEF TypeOK, Process
<1>2. /\ worker'[w].left = worker[w].left
      /\ worker'[w].step = step /\ worker'[w].now = n
      /\ worker'[w].tries = worker[w].tries
      /\ worker'[w].again = again
      /\ \A v \in Workers : v # w => worker'[v] = worker[v]
  BY <1>1 DEF Answered, TypeOK, Process
<1>3. worker' \in [Workers -> Process]
  BY <1>1 DEF Answered, TypeOK, Process, Steps
<1> QED BY <1>2, <1>3 DEF TypeOK

\* A claim gives the worker its batch and counts the attempt.
LEMMA ClaimTyped ==
    ASSUME TypeOK, NEW w \in Workers, Claim(w)
    PROVE  \E batch \in SUBSET {n \in Logs : Claimable(n)} :
           /\ batch # {}
           /\ worker' \in [Workers -> Process]
           /\ \A v \in Workers : v # w => worker'[v] = worker[v]
           /\ worker'[w].step = "loop" /\ worker'[w].left = batch
           /\ \A n \in batch : /\ status'[n] = "PROCESSING" /\ ~old'[n]
                               /\ attempts'[n] = attempts[n] + 1
                               /\ worker'[w].tries[n] = attempts[n] + 1
           /\ \A n \in Logs \ batch : /\ status'[n] = status[n] /\ old'[n] = old[n]
                                      /\ attempts'[n] = attempts[n]
           /\ status' \in [Logs -> Statuses] /\ attempts' \in [Logs -> Nat]
           /\ old' \in [Logs -> BOOLEAN]
<1>1. PICK batch \in SUBSET {n \in Logs : Claimable(n)} :
        /\ batch # {}
        /\ status' = [n \in Logs |-> IF n \in batch THEN "PROCESSING" ELSE status[n]]
        /\ attempts' = [n \in Logs |-> IF n \in batch THEN attempts[n] + 1 ELSE attempts[n]]
        /\ old' = [n \in Logs |-> n \notin batch /\ old[n]]
        /\ worker' = [worker EXCEPT ![w] = [step |-> "loop", left |-> batch, now |-> NoLog,
               again |-> FALSE, tries |-> [n \in Logs |-> IF n \in batch THEN attempts[n] + 1 ELSE 0]]]
  BY DEF Claim
<1> DEFINE tries == [n \in Logs |-> IF n \in batch THEN attempts[n] + 1 ELSE 0]
           r == [step |-> "loop", left |-> batch, now |-> NoLog, again |-> FALSE, tries |-> tries]
<1>2. tries \in [Logs -> Nat]
  BY DEF TypeOK
<1>3. r \in Process
  BY <1>2 DEF Process, Steps
<1>4. /\ worker'[w] = r
      /\ \A v \in Workers : v # w => worker'[v] = worker[v]
      /\ worker' \in [Workers -> Process]
  BY <1>1, <1>3 DEF TypeOK
<1>5. status' \in [Logs -> Statuses] /\ attempts' \in [Logs -> Nat]
  BY <1>1 DEF TypeOK, Statuses
<1>6. old' \in [Logs -> BOOLEAN]
  BY <1>1
<1>7. \A n \in batch : /\ status'[n] = "PROCESSING" /\ ~old'[n]
                       /\ attempts'[n] = attempts[n] + 1
                       /\ worker'[w].tries[n] = attempts[n] + 1
  BY <1>1, <1>4
<1>8. \A n \in Logs \ batch : /\ status'[n] = status[n] /\ old'[n] = old[n]
                              /\ attempts'[n] = attempts[n]
  BY <1>1 DEF TypeOK
<1> QED BY <1>1, <1>4, <1>5, <1>6, <1>7, <1>8

\* A write by id changes one row.
LEMMA WriteTyped ==
    ASSUME TypeOK, NEW n \in Logs, NEW s \in Statuses, NEW d \in BOOLEAN, Write(n, s, d)
    PROVE  /\ status' \in [Logs -> Statuses] /\ due' \in [Logs -> BOOLEAN]
           /\ old' \in [Logs -> BOOLEAN] /\ attempts' = attempts
           /\ status'[n] = s
           /\ \A m \in Logs : m # n => status'[m] = status[m] /\ old'[m] = old[m]
<1>1. status' \in [Logs -> Statuses] /\ attempts' = attempts
  BY DEF Write, TypeOK
<1>2. due' \in [Logs -> BOOLEAN] /\ old' \in [Logs -> BOOLEAN]
  BY DEF Write, TypeOK
<1>3. status'[n] = s /\ \A m \in Logs : m # n => status'[m] = status[m] /\ old'[m] = old[m]
  BY DEF Write, TypeOK
<1> QED BY <1>1, <1>2, <1>3

\* A row is sent, refused or skipped by a worker that holds it.
LEMMA OnlyHeld ==
    ASSUME NEW w, NEW n, NEW again,
           Skip(w, n) \/ SendAccepted(w, n) \/ SendRefused(w, n, again) \/ SendUnanswered(w, n, again)
    PROVE  n \in worker[w].left
BY DEF Skip, SendAccepted, SendRefused, SendUnanswered

LEMMA TypeStep == TypeOK /\ [Next]_vars => TypeOK'
<1> SUFFICES ASSUME TypeOK, [Next]_vars PROVE TypeOK'
  OBVIOUS
<1> USE DEF row
<1>1. CASE UNCHANGED vars
  BY <1>1 DEF vars, TypeOK
<1>2. ASSUME NEW n \in Logs, Enqueue(n) PROVE TypeOK'
  BY <1>2, WriteTyped DEF Enqueue, TypeOK, Statuses
<1>3. ASSUME NEW n \in Logs, DelayPasses(n) PROVE TypeOK'
  BY <1>3 DEF DelayPasses, TypeOK
<1>4. ASSUME NEW n \in Logs, TimeoutPasses(n) PROVE TypeOK'
  BY <1>4 DEF TimeoutPasses, Fault, TypeOK
<1>5. ASSUME NEW n \in Logs, BeginRetry(n) PROVE TypeOK'
  BY <1>5 DEF BeginRetry, Fault, TypeOK
<1>6. ASSUME NEW n \in Logs, EndRetry(n) PROVE TypeOK'
  BY <1>6, WriteTyped DEF EndRetry, TypeOK, Statuses
<1>7. ASSUME NEW w \in Workers, Start(w) PROVE TypeOK'
  BY <1>7 DEF Start, TypeOK, Process, Steps
<1>8. ASSUME NEW w \in Workers, RecoverStale(w) PROVE TypeOK'
  <2>1. status' \in [Logs -> Statuses]
    BY <1>8 DEF RecoverStale, TypeOK, Statuses
  <2>2. due' \in [Logs -> BOOLEAN] /\ old' \in [Logs -> BOOLEAN]
    BY <1>8, Zenon DEF RecoverStale, TypeOK
  <2>3. /\ worker' \in [Workers -> Process]
        /\ \A v \in Workers : worker'[v].step \in {"accepted", "refused"}
                                  => worker'[v].now \in worker'[v].left
    BY <1>8 DEF RecoverStale, TypeOK, Process, Steps
  <2> QED BY <1>8, <2>1, <2>2, <2>3 DEF RecoverStale, TypeOK
<1>9. ASSUME NEW w \in Workers, Claim(w) PROVE TypeOK'
  <2>1. PICK batch \in SUBSET {n \in Logs : Claimable(n)} :
           /\ worker' \in [Workers -> Process]
           /\ \A v \in Workers : v # w => worker'[v] = worker[v]
           /\ worker'[w].step = "loop"
           /\ status' \in [Logs -> Statuses] /\ attempts' \in [Logs -> Nat]
           /\ old' \in [Logs -> BOOLEAN]
    BY <1>9, ClaimTyped
  <2>2. UNCHANGED <<due, retrying, accepted, faults>>
    BY <1>9 DEF Claim
  <2> QED BY <2>1, <2>2 DEF TypeOK
<1>10. ASSUME NEW w \in Workers, NEW n \in worker[w].left, Skip(w, n) PROVE TypeOK'
  <2>1. n \in Logs /\ "SKIPPED" \in Statuses
    BY DEF TypeOK, Process, Statuses
  <2> QED BY <1>10, <2>1, WriteTyped, FinishTyped DEF Skip, TypeOK
<1>11. ASSUME NEW w \in Workers, NEW n \in worker[w].left, SendAccepted(w, n) PROVE TypeOK'
  <2>1. n \in Logs
    BY DEF TypeOK, Process
  <2>2. accepted' \in [Logs -> Nat]
    BY <1>11, <2>1 DEF SendAccepted, TypeOK
  <2>3. Answered(w, n, "accepted", FALSE) /\ UNCHANGED <<row, retrying, faults>>
    BY <1>11 DEF SendAccepted
  <2> QED BY <2>2, <2>3, AnsweredTyped DEF TypeOK
<1>12. ASSUME NEW w \in Workers, NEW n \in worker[w].left, NEW again \in BOOLEAN,
              SendRefused(w, n, again) PROVE TypeOK'
  BY <1>12, AnsweredTyped DEF SendRefused, TypeOK
<1>13. ASSUME NEW w \in Workers, NEW n \in worker[w].left, NEW again \in BOOLEAN,
              SendUnanswered(w, n, again) PROVE TypeOK'
  <2>1. n \in Logs
    BY DEF TypeOK, Process
  <2>2. accepted' \in [Logs -> Nat] /\ faults' \in Nat
    BY <1>13, <2>1 DEF SendUnanswered, Fault, TypeOK
  <2>3. Answered(w, n, "refused", again) /\ UNCHANGED <<row, retrying>>
    BY <1>13 DEF SendUnanswered
  <2> QED BY <2>2, <2>3, AnsweredTyped DEF TypeOK
<1>14. ASSUME NEW w \in Workers, MarkSent(w) PROVE TypeOK'
  <2>1. worker[w].now \in worker[w].left /\ worker[w].now \in Logs /\ "SENT" \in Statuses
    BY <1>14 DEF MarkSent, At, TypeOK, Process, Statuses
  <2> QED BY <1>14, <2>1, WriteTyped, FinishTyped DEF MarkSent, TypeOK
<1>15. ASSUME NEW w \in Workers, NEW again \in BOOLEAN, MarkSentThrows(w, again) PROVE TypeOK'
  <2>1. worker[w].now \in worker[w].left
    BY <1>15 DEF MarkSentThrows, At, TypeOK
  <2> QED BY <1>15, <2>1, AnsweredTyped DEF MarkSentThrows, Fault, TypeOK
<1>16. ASSUME NEW w \in Workers, MarkRefused(w) PROVE TypeOK'
  <2>1. worker[w].now \in worker[w].left /\ worker[w].now \in Logs
    BY <1>16 DEF MarkRefused, At, TypeOK, Process
  <2>2. PICK s \in Statuses : Write(worker[w].now, s, FALSE)
    BY <1>16 DEF MarkRefused, Statuses
  <2> QED BY <1>16, <2>1, <2>2, WriteTyped, FinishTyped DEF MarkRefused, TypeOK
<1>17. ASSUME NEW w \in Workers, Abandon(w) PROVE TypeOK'
  <2>1. [Down EXCEPT !.step = "idle"] \in Process /\ [Down EXCEPT !.step = "idle"].step = "idle"
    BY DownTyped DEF Process, Steps
  <2>2. worker' \in [Workers -> Process] /\ faults' \in Nat
    BY <1>17, <2>1 DEF Abandon, Fault, TypeOK
  <2>3. \A v \in Workers : worker'[v].step \in {"accepted", "refused"}
                               => worker'[v].now \in worker'[v].left
    BY <1>17, <2>1 DEF Abandon, TypeOK
  <2> QED BY <1>17, <2>2, <2>3 DEF Abandon, TypeOK
<1>18. ASSUME NEW w \in Workers, Crash(w) PROVE TypeOK'
  BY <1>18 DEF Crash, Fault, Down, TypeOK, Process, Steps
<1>19. ASSUME NEW w \in Workers, Pass(w) \/ Mishap(w) PROVE TypeOK'
  BY <1>8, <1>9, <1>10, <1>11, <1>12, <1>13, <1>14, <1>15, <1>16, <1>17, <1>18, <1>19, OnlyHeld
     DEF Pass, Mishap
<1> QED
  BY <1>1, <1>2, <1>3, <1>4, <1>5, <1>6, <1>7, <1>19 DEF Next

\* Types: batches hold rows only, and the answered row is in its batch.
THEOREM TypeCorrect == Spec => []TypeOK
<1>1. Init => TypeOK
  BY DEF Init, TypeOK, Statuses, Down, Process, Steps
<1> QED BY <1>1, TypeStep, PTL DEF Spec

------------------------------------------------------------------------------
(* Counting.                                                               *)

LEMMA Shrinks ==
    ASSUME NEW S, IsFiniteSet(S), NEW T \in SUBSET S
    PROVE  Cardinality(T) <= Cardinality(S) /\ Cardinality(T) \in Nat /\ Cardinality(S) \in Nat
BY FS_Subset, FS_CardinalityType

LEMMA Grows ==
    ASSUME NEW S, IsFiniteSet(S), NEW x, NEW T \in SUBSET (S \cup {x})
    PROVE  Cardinality(T) <= Cardinality(S) + 1
<1>1. /\ IsFiniteSet(S \cup {x}) /\ Cardinality(S) \in Nat
      /\ Cardinality(S \cup {x}) <= Cardinality(S) + 1
  <2>1. Cardinality(S) \in Nat
    BY FS_CardinalityType
  <2>2. /\ IsFiniteSet(S \cup {x})
        /\ \/ Cardinality(S \cup {x}) = Cardinality(S)
           \/ Cardinality(S \cup {x}) = Cardinality(S) + 1
    BY FS_AddElement
  <2> QED BY <2>1, <2>2
<1> QED BY <1>1, Shrinks

LEMMA Loses ==
    ASSUME NEW S, IsFiniteSet(S), NEW x \in S, NEW T \in SUBSET (S \ {x})
    PROVE  Cardinality(T) <= Cardinality(S) - 1
<1>1. /\ IsFiniteSet(S \ {x}) /\ Cardinality(S) \in Nat
      /\ Cardinality(S \ {x}) = Cardinality(S) - 1
  BY FS_RemoveElement, FS_CardinalityType
<1> QED BY <1>1, Shrinks

\* Who may still send a row is a finite set.
LEMMA Counted ==
    ASSUME NEW n
    PROVE  /\ IsFiniteSet(Live(n)) /\ IsFiniteSet(Young(n))
           /\ Cardinality(Live(n)) \in Nat /\ Cardinality(Young(n)) \in Nat
           /\ Cardinality(Young(n)) <= Cardinality(Live(n))
           /\ Open(n) \in {0, 1, 2}
<1>1. IsFiniteSet(Live(n)) /\ Young(n) \subseteq Live(n)
  BY LogsType, FS_Subset DEF Live, Young
<1> QED BY <1>1, FS_Subset, Shrinks DEF Open, One

LEMMA CountedNext ==
    ASSUME NEW n
    PROVE  /\ IsFiniteSet(Live(n)') /\ IsFiniteSet(Young(n)')
           /\ Cardinality(Live(n)') \in Nat /\ Cardinality(Young(n)') \in Nat
           /\ Cardinality(Young(n)') <= Cardinality(Live(n)')
           /\ Open(n)' \in {0, 1, 2}
<1>1. IsFiniteSet(Live(n)') /\ Young(n)' \subseteq Live(n)'
  BY LogsType, FS_Subset DEF Live, Young
<1> QED BY <1>1, FS_Subset, Shrinks DEF Open, One

\* Nothing can be done with the row that could not be done before.
LEMMA RowKept ==
    ASSUME TypeOK, TypeOK', NEW n \in Logs, Within(n),
           Live(n)' \subseteq Live(n), Young(n)' \subseteq Young(n),
           Free(n)' => Free(n), n \in retrying' => n \in retrying,
           accepted'[n] = accepted[n], attempts'[n] = attempts[n], faults' >= faults
    PROVE  Within(n)'
<1>1. /\ Cardinality(Live(n)') <= Cardinality(Live(n))
      /\ Cardinality(Young(n)') <= Cardinality(Young(n))
  BY Counted, Shrinks
<1>2. Open(n)' <= Open(n)
  BY DEF Open, One
<1>3. /\ {accepted[n], attempts[n], faults, faults', accepted'[n], attempts'[n]} \subseteq Nat
      /\ MaxAttempts \in Nat
  BY LimitType DEF TypeOK
<1> QED BY <1>1, <1>2, <1>3, Counted, CountedNext DEF Within

\* A fault pays for one more chance, whichever it is.
LEMMA RowFault ==
    ASSUME TypeOK, TypeOK', NEW n \in Logs, Within(n), faults' = faults + 1, NEW w,
           attempts'[n] = attempts[n],
           \/ /\ Live(n)' \subseteq Live(n) /\ Young(n)' \subseteq Young(n)
              /\ Open(n)' <= Open(n)
              /\ accepted'[n] <= accepted[n] + 1
           \/ /\ Live(n)' \subseteq Live(n) /\ Young(n)' \subseteq Young(n)
              /\ Open(n)' <= Open(n) + 1
              /\ accepted'[n] = accepted[n]
           \/ /\ Live(n)' \subseteq Live(n) \cup {w} /\ Young(n)' \subseteq Young(n) \cup {w}
              /\ Open(n)' <= Open(n)
              /\ accepted'[n] = accepted[n]
    PROVE  Within(n)'
<1>1. /\ Live(n)' \subseteq Live(n) => Cardinality(Live(n)') <= Cardinality(Live(n))
      /\ Young(n)' \subseteq Young(n) => Cardinality(Young(n)') <= Cardinality(Young(n))
  BY Counted, Shrinks
<1>2. /\ Live(n)' \subseteq Live(n) \cup {w} => Cardinality(Live(n)') <= Cardinality(Live(n)) + 1
      /\ Young(n)' \subseteq Young(n) \cup {w} => Cardinality(Young(n)') <= Cardinality(Young(n)) + 1
  BY Counted, Grows
<1>3. /\ {accepted[n], attempts[n], faults, faults', accepted'[n], attempts'[n]} \subseteq Nat
      /\ MaxAttempts \in Nat
  BY LimitType DEF TypeOK
<1> QED BY <1>1, <1>2, <1>3, Counted, CountedNext DEF Within

------------------------------------------------------------------------------
(* What the steps of a worker do to the sets that are counted.             *)

LEMMA SameWorkers ==
    ASSUME worker' = worker, NEW n
    PROVE  Live(n)' = Live(n) /\ Young(n)' = Young(n) /\ Held(n)' = Held(n)
BY DEF Live, Young, Held, SentBy

\* The worker lets go of one row and keeps the others.
LEMMA FinishEffect ==
    ASSUME TypeOK, NEW w \in Workers, NEW n \in worker[w].left, Finish(w, n),
           worker[w].step \in {"loop", "refused"} \/ SentBy(w, n)
    PROVE  /\ \A m : Live(m)' \subseteq Live(m) \ (IF m = n THEN {w} ELSE {})
           /\ \A m \in Logs : Young(m)' \subseteq Young(m) \ (IF m = n THEN {w} ELSE {})
           /\ \A m : m # n => (Held(m)' <=> Held(m))
<1>1. /\ \A v \in Workers : v # w => worker'[v] = worker[v]
      /\ worker'[w].left = worker[w].left \ {n}
      /\ worker'[w].step \in {"idle", "loop"}
      /\ \A m \in Logs : m # n => worker'[w].tries[m] = worker[w].tries[m]
  BY FinishTyped
<1>2. \A m : m # n => ~SentBy(w, m)
  BY DEF SentBy
<1>3. \A m : Live(m)' \subseteq Live(m) \ (IF m = n THEN {w} ELSE {})
  BY <1>1, <1>2 DEF Live, SentBy
<1>4. \A m \in Logs : Young(m)' \subseteq Young(m) \ (IF m = n THEN {w} ELSE {})
  <2> SUFFICES ASSUME NEW m \in Logs, NEW v \in Young(m)'
               PROVE  v \in Young(m) \ (IF m = n THEN {w} ELSE {})
    OBVIOUS
  <2>1. v \in Live(m) /\ ~(m = n /\ v = w) /\ worker'[v].tries[m] < MaxAttempts
    BY <1>3 DEF Young
  <2>2. worker'[v].tries[m] = worker[v].tries[m]
    BY <1>1, <2>1 DEF Live
  <2> QED BY <2>1, <2>2 DEF Young
<1>5. \A m : m # n => (Held(m)' <=> Held(m))
  BY <1>1 DEF Held
<1> QED BY <1>3, <1>4, <1>5

\* An answer keeps every row where it is; an accepted one ends a chance, a
\* refused one opens none unless the row had been accepted.
LEMMA AnsweredEffect ==
    ASSUME TypeOK, NEW w \in Workers, NEW n \in worker[w].left,
           NEW step \in {"accepted", "refused"}, NEW again \in BOOLEAN, Answered(w, n, step, again),
           worker[w].step = "loop" \/ SentBy(w, n)
    PROVE  /\ \A m : Held(m)' <=> Held(m)
           /\ \A m : m # n => Live(m)' \subseteq Live(m) /\ Young(m)' \subseteq Young(m)
           /\ Live(n)' \subseteq Live(n) \cup {w} /\ Young(n)' \subseteq Young(n) \cup {w}
           /\ worker[w].step = "loop" => w \in Live(n) /\ (w \in Young(n)' => w \in Young(n))
           /\ step = "accepted" => w \notin Live(n)'
<1>1. /\ \A v \in Workers : v # w => worker'[v] = worker[v]
      /\ worker'[w].left = worker[w].left
      /\ worker'[w].step = step /\ worker'[w].now = n
      /\ worker'[w].tries = worker[w].tries
  BY AnsweredTyped
<1>2. \A m : m # n => ~SentBy(w, m)
  BY DEF SentBy
<1>3. \A m : Held(m)' <=> Held(m)
  BY <1>1 DEF Held
<1>4. \A m : m # n => Live(m)' \subseteq Live(m) /\ Young(m)' \subseteq Young(m)
  BY <1>1, <1>2 DEF Live, Young, SentBy
<1>5. Live(n)' \subseteq Live(n) \cup {w} /\ Young(n)' \subseteq Young(n) \cup {w}
  BY <1>1 DEF Live, Young, SentBy
<1>6. worker[w].step = "loop" => w \in Live(n) /\ (w \in Young(n)' => w \in Young(n))
  BY <1>1 DEF Live, Young, SentBy
<1>7. step = "accepted" => w \notin Live(n)'
  BY <1>1 DEF Live, SentBy
<1> QED BY <1>3, <1>4, <1>5, <1>6, <1>7

\* A worker that loses its batch takes no chance with it.
LEMMA LostEffect ==
    ASSUME TypeOK, NEW w \in Workers, Abandon(w) \/ Crash(w)
    PROVE  /\ worker'[w].left = {} /\ worker'[w].step \in {"down", "idle"}
           /\ \A v \in Workers : v # w => worker'[v] = worker[v]
           /\ \A m : Live(m)' \subseteq Live(m) /\ Young(m)' \subseteq Young(m)
<1>1. /\ worker'[w].left = {} /\ worker'[w].step \in {"down", "idle"}
      /\ \A v \in Workers : v # w => worker'[v] = worker[v]
  BY DEF Abandon, Crash, Down, TypeOK
<1>2. \A m : Live(m)' \subseteq Live(m) /\ Young(m)' \subseteq Young(m)
  BY <1>1 DEF Live, Young, SentBy
<1> QED BY <1>1, <1>2

\* A claim adds its worker to the holders of the batch, and to no other.
LEMMA ClaimEffect ==
    ASSUME TypeOK, Tidy, NEW w \in Workers, At(w, "idle"), NEW batch \in SUBSET Logs,
           \A v \in Workers : v # w => worker'[v] = worker[v],
           worker'[w].step = "loop", worker'[w].left = batch
    PROVE  /\ \A m : m \notin batch => /\ Live(m)' \subseteq Live(m) /\ Young(m)' \subseteq Young(m)
                                       /\ Held(m)' <=> Held(m)
           /\ \A m \in batch : /\ Live(m)' \subseteq Live(m) \cup {w}
                               /\ Young(m)' \subseteq Young(m) \cup {w}
                               /\ Held(m)'
           /\ \A m \in batch : ~(worker'[w].tries[m] < MaxAttempts) => Young(m)' \subseteq Young(m)
<1>1. worker[w].left = {}
  BY DEF Tidy, At
<1>2. \A m : m \notin batch => /\ Live(m)' \subseteq Live(m) /\ Young(m)' \subseteq Young(m)
                               /\ Held(m)' <=> Held(m)
  BY <1>1 DEF Live, Young, SentBy, Held
<1>3. \A m \in batch : /\ Live(m)' \subseteq Live(m) \cup {w}
                       /\ Young(m)' \subseteq Young(m) \cup {w}
                       /\ Held(m)'
  BY DEF Live, Young, SentBy, Held
<1>4. \A m \in batch : ~(worker'[w].tries[m] < MaxAttempts) => Young(m)' \subseteq Young(m)
  BY <1>3 DEF Young
<1> QED BY <1>2, <1>3, <1>4

------------------------------------------------------------------------------
(* The budget.                                                             *)

\* Steps that touch rows only.
LEMMA BudgetRows ==
    ASSUME TypeOK, TypeOK', Budget, NEW n \in Logs,
           Enqueue(n) \/ DelayPasses(n) \/ TimeoutPasses(n) \/ BeginRetry(n) \/ EndRetry(n)
    PROVE  Budget'
<1> SUFFICES ASSUME NEW m \in Logs PROVE Within(m)'
  BY DEF Budget
<1>1. worker' = worker /\ accepted'[m] = accepted[m] /\ attempts'[m] = attempts[m]
  BY DEF Enqueue, DelayPasses, TimeoutPasses, BeginRetry, EndRetry, Write, row
<1>2. Live(m)' = Live(m) /\ Young(m)' = Young(m) /\ Held(m)' = Held(m)
  BY <1>1, SameWorkers
<1>3. Within(m) /\ faults \in Nat
  BY DEF Budget, TypeOK
<1>4. CASE Enqueue(n)
  <2>1. Free(m)' => Free(m)
    BY <1>2, <1>4, WriteTyped DEF Enqueue, Free, Waiting, Statuses
  <2> QED BY <1>1, <1>2, <1>3, <1>4, <2>1, RowKept DEF Enqueue
<1>5. CASE DelayPasses(n)
  <2>1. Free(m)' => Free(m)
    BY <1>2, <1>5 DEF DelayPasses, Free
  <2> QED BY <1>1, <1>2, <1>3, <1>5, <2>1, RowKept DEF DelayPasses
<1>6. CASE TimeoutPasses(n)
  <2>1. CASE m = n /\ Held(n)
    <3>1. faults' = faults + 1 /\ retrying' = retrying
      BY <1>6, <2>1 DEF TimeoutPasses, Fault
    <3>2. Open(m)' <= Open(m) + 1
      <4>1. ~Free(m)
        BY <1>6, <2>1 DEF TimeoutPasses, Free, Waiting
      <4> QED BY <3>1, <4>1 DEF Open, One
    <3> QED BY <1>1, <1>2, <1>3, <3>1, <3>2, RowFault
  <2>2. CASE ~(m = n /\ Held(n))
    <3>1. Free(m)' => Free(m)
      BY <1>2, <1>6, <2>2 DEF TimeoutPasses, Free, TypeOK
    <3>2. faults' >= faults /\ retrying' = retrying
      BY <1>3, <1>6 DEF TimeoutPasses, Fault
    <3> QED BY <1>1, <1>2, <1>3, <3>1, <3>2, RowKept
  <2> QED BY <2>1, <2>2
<1>7. CASE BeginRetry(n)
  <2>1. faults' = faults + 1 /\ Free(m)' = Free(m)
    BY <1>2, <1>7 DEF BeginRetry, Fault, Free, row
  <2>2. Open(m)' <= Open(m) + 1
    BY <2>1 DEF Open, One
  <2> QED BY <1>1, <1>2, <1>3, <2>1, <2>2, RowFault
<1>8. CASE EndRetry(n)
  <2>1. CASE m = n
    <3>1. n \in retrying /\ n \notin retrying' /\ faults' = faults
      BY <1>8 DEF EndRetry
    <3>2. Open(m)' <= Open(m)
      BY <2>1, <3>1 DEF Open, One
    <3>3. /\ {accepted[m], attempts[m], faults, MaxAttempts} \subseteq Nat
          /\ Cardinality(Live(m)) \in Nat /\ Cardinality(Young(m)) \in Nat
          /\ Open(m) \in Nat /\ Open(m)' \in Nat
      BY LimitType, Counted, CountedNext DEF TypeOK
    <3> QED BY <1>1, <1>2, <1>3, <3>1, <3>2, <3>3 DEF Within
  <2>2. CASE m # n
    <3>1. Free(m)' => Free(m)
      BY <1>2, <1>8, <2>2, WriteTyped DEF EndRetry, Free, Statuses
    <3> QED BY <1>1, <1>2, <1>3, <1>8, <3>1, RowKept DEF EndRetry, TypeOK
  <2> QED BY <2>1, <2>2
<1> QED BY <1>4, <1>5, <1>6, <1>7, <1>8

\* The start of a worker and its recovery: an old claim was open already.
LEMMA BudgetStart ==
    ASSUME TypeOK, TypeOK', Tidy, Budget, NEW w \in Workers, Start(w) \/ RecoverStale(w)
    PROVE  Budget'
<1> SUFFICES ASSUME NEW m \in Logs PROVE Within(m)'
  BY DEF Budget
<1>1. /\ worker'[w].left = worker[w].left /\ worker[w].left = {}
      /\ \A v \in Workers : v # w => worker'[v] = worker[v]
  BY DEF Start, RecoverStale, Tidy, At, TypeOK, Process
<1>2. Live(m)' \subseteq Live(m) /\ Young(m)' \subseteq Young(m) /\ (Held(m)' <=> Held(m))
  BY <1>1 DEF Live, Young, Held, SentBy
<1>3. Free(m)' => Free(m)
  BY <1>2 DEF Start, RecoverStale, Free, Waiting, row
<1>4. /\ retrying' = retrying /\ accepted'[m] = accepted[m] /\ attempts'[m] = attempts[m]
      /\ faults' >= faults /\ Within(m)
  BY DEF Start, RecoverStale, row, Budget, TypeOK
<1> QED BY <1>2, <1>3, <1>4, RowKept

\* A claim turns an open row into one more worker.
LEMMA BudgetClaim ==
    ASSUME TypeOK, TypeOK', Tidy, Budget, NEW w \in Workers, Claim(w)
    PROVE  Budget'
<1> SUFFICES ASSUME NEW m \in Logs PROVE Within(m)'
  BY DEF Budget
<1>1. PICK batch \in SUBSET {n \in Logs : Claimable(n)} :
           /\ \A v \in Workers : v # w => worker'[v] = worker[v]
           /\ worker'[w].step = "loop" /\ worker'[w].left = batch
           /\ \A n \in batch : /\ status'[n] = "PROCESSING" /\ ~old'[n]
                               /\ attempts'[n] = attempts[n] + 1
                               /\ worker'[w].tries[n] = attempts[n] + 1
           /\ \A n \in Logs \ batch : /\ status'[n] = status[n] /\ old'[n] = old[n]
                                      /\ attempts'[n] = attempts[n]
  BY ClaimTyped
<1>2. At(w, "idle") /\ retrying' = retrying /\ accepted' = accepted /\ faults' = faults
  BY DEF Claim
<1>3. Within(m) /\ {accepted[m], attempts[m], faults} \subseteq Nat /\ MaxAttempts \in Nat
  BY LimitType DEF Budget, TypeOK
<1>4. CASE m \notin batch
  <2>1. /\ Live(m)' \subseteq Live(m) /\ Young(m)' \subseteq Young(m)
        /\ Held(m)' <=> Held(m)
    BY <1>1, <1>2, <1>4, ClaimEffect
  <2>2. Free(m)' => Free(m)
    BY <1>1, <1>4, <2>1 DEF Free
  <2> QED BY <1>1, <1>2, <1>3, <1>4, <2>1, <2>2, RowKept
<1>5. CASE m \in batch
  <2>1. /\ Live(m)' \subseteq Live(m) \cup {w} /\ Young(m)' \subseteq Young(m) \cup {w}
        /\ Held(m)'
        /\ ~(worker'[w].tries[m] < MaxAttempts) => Young(m)' \subseteq Young(m)
    BY <1>1, <1>2, <1>5, ClaimEffect
  <2>2. Free(m) /\ ~Free(m)'
    BY <1>1, <1>5, <2>1 DEF Claimable, Free, Waiting
  <2>3. Open(m)' = Open(m) - 1
    BY <1>2, <2>2 DEF Open, One
  <2>4. /\ Cardinality(Live(m)') <= Cardinality(Live(m)) + 1
        /\ ~(attempts[m] + 1 < MaxAttempts) => Cardinality(Young(m)') <= Cardinality(Young(m))
    BY <1>1, <1>5, <2>1, Counted, Grows, Shrinks
  <2>5. accepted[m] + Cardinality(Live(m)') + Open(m)' <= 1 + faults
    BY <1>3, <2>3, <2>4, Counted, CountedNext DEF Within
  <2>6. attempts[m] + 1 + Cardinality(Young(m)') + Open(m)' <= MaxAttempts + faults
    BY <1>3, <2>3, <2>4, <2>5, Counted, CountedNext DEF Within
  <2> QED BY <1>1, <1>2, <1>5, <2>5, <2>6 DEF Within
<1> QED BY <1>4, <1>5

\* The outcome is written: a chance ends, and a retry opens the row for it.
LEMMA BudgetFinish ==
    ASSUME TypeOK, TypeOK', Budget, NEW w \in Workers, NEW n \in worker[w].left,
           Finish(w, n), NEW s \in Statuses, Write(n, s, FALSE), s \notin {"NONE", "PROCESSING"},
           UNCHANGED <<retrying, accepted, faults>>,
           worker[w].step \in {"loop", "refused"} \/ SentBy(w, n),
           s \in Waiting => w \in Young(n)
    PROVE  Budget'
<1> SUFFICES ASSUME NEW m \in Logs PROVE Within(m)'
  BY DEF Budget
<1>1. n \in Logs
  BY DEF TypeOK, Process
<1>2. /\ Live(m)' \subseteq Live(m) \ (IF m = n THEN {w} ELSE {})
      /\ Young(m)' \subseteq Young(m) \ (IF m = n THEN {w} ELSE {})
      /\ m # n => (Held(m)' <=> Held(m))
  BY FinishEffect
<1>3. /\ status'[n] = s /\ attempts' = attempts
      /\ \A k \in Logs : k # n => status'[k] = status[k] /\ old'[k] = old[k]
  BY <1>1, WriteTyped
<1>4. /\ {accepted[m], attempts[m], faults, MaxAttempts} \subseteq Nat
      /\ Within(m)
  BY LimitType DEF Budget, TypeOK
<1>5. CASE m = n /\ s \in Waiting
  <2>1. w \in Young(m) /\ w \in Live(m)
    BY <1>5 DEF Young
  <2>2. /\ Cardinality(Live(m)') <= Cardinality(Live(m)) - 1
        /\ Cardinality(Young(m)') <= Cardinality(Young(m)) - 1
    BY <1>2, <1>5, <2>1, Counted, Loses
  <2>3. Open(m)' <= Open(m) + 1
    BY DEF Open, One
  <2> QED BY <1>3, <1>4, <2>2, <2>3, Counted, CountedNext DEF Within
<1>6. CASE ~(m = n /\ s \in Waiting)
  <2>1. Free(m)' => Free(m)
    BY <1>2, <1>3, <1>6 DEF Free
  <2> QED BY <1>2, <1>3, <1>4, <2>1, RowKept
<1> QED BY <1>5, <1>6

\* The transport answers: what it took is counted, and no longer to be sent.
LEMMA BudgetAnswer ==
    ASSUME TypeOK, TypeOK', Budget, NEW w \in Workers, NEW n \in worker[w].left,
           NEW again \in BOOLEAN,
           \/ SendAccepted(w, n) \/ SendRefused(w, n, again) \/ SendUnanswered(w, n, again)
           \/ MarkSentThrows(w, again) /\ worker[w].now = n
    PROVE  Budget'
<1> SUFFICES ASSUME NEW m \in Logs PROVE Within(m)'
  BY DEF Budget
<1>1. /\ {accepted[m], attempts[m], faults, MaxAttempts} \subseteq Nat
      /\ Within(m) /\ n \in Logs
  BY LimitType DEF Budget, TypeOK, Process
<1>2. PICK step \in {"accepted", "refused"}, a \in BOOLEAN :
         /\ Answered(w, n, step, a)
         /\ SendAccepted(w, n) => step = "accepted"
  BY DEF SendAccepted, SendRefused, SendUnanswered, MarkSentThrows
<1>3. worker[w].step = "loop" \/ SentBy(w, n)
  BY DEF SendAccepted, SendRefused, SendUnanswered, MarkSentThrows, At, SentBy
<1>4. /\ Held(m)' <=> Held(m)
      /\ m # n => Live(m)' \subseteq Live(m) /\ Young(m)' \subseteq Young(m)
      /\ Live(n)' \subseteq Live(n) \cup {w} /\ Young(n)' \subseteq Young(n) \cup {w}
      /\ worker[w].step = "loop" => w \in Live(n) /\ (w \in Young(n)' => w \in Young(n))
      /\ step = "accepted" => w \notin Live(n)'
  BY <1>2, <1>3, AnsweredEffect
<1>5. /\ row' = row /\ retrying' = retrying
      /\ \A k \in Logs : k # n => accepted'[k] = accepted[k]
  BY DEF SendAccepted, SendRefused, SendUnanswered, MarkSentThrows, TypeOK
<1>6. attempts'[m] = attempts[m] /\ (Free(m)' <=> Free(m))
  BY <1>4, <1>5 DEF row, Free
<1>7. Open(m)' = Open(m)
  BY <1>5, <1>6 DEF Open, One
<1>8. faults' >= faults
  <2>1. faults' = faults \/ faults' = faults + 1
    BY DEF SendAccepted, SendRefused, SendUnanswered, MarkSentThrows, Fault
  <2> QED BY <1>1, <2>1
<1>9. CASE m # n
  BY <1>1, <1>4, <1>5, <1>6, <1>8, <1>9, RowKept
<1>10. CASE m = n /\ SendAccepted(w, n)
  <2>1. accepted'[n] = accepted[n] + 1 /\ faults' = faults /\ worker[w].step = "loop"
    BY <1>1, <1>10 DEF SendAccepted, TypeOK, At
  <2>2. w \in Live(n) /\ Live(n)' \subseteq Live(n) \ {w} /\ Young(n)' \subseteq Young(n)
    BY <1>2, <1>4, <1>10, <2>1 DEF Young
  <2>3. /\ Cardinality(Live(n)') <= Cardinality(Live(n)) - 1
        /\ Cardinality(Young(n)') <= Cardinality(Young(n))
    BY <2>2, Counted, Loses, Shrinks
  <2> QED BY <1>1, <1>6, <1>7, <1>10, <2>1, <2>3, Counted, CountedNext DEF Within
<1>11. CASE m = n /\ SendRefused(w, n, again)
  <2>1. accepted' = accepted /\ worker[w].step = "loop"
    BY <1>11 DEF SendRefused, At
  <2>2. Live(n)' \subseteq Live(n) /\ Young(n)' \subseteq Young(n)
    BY <1>4, <2>1
  <2> QED BY <1>1, <1>5, <1>6, <1>8, <1>11, <2>1, <2>2, RowKept
<1>12. CASE m = n /\ SendUnanswered(w, n, again)
  <2>1. /\ accepted'[n] = accepted[n] + 1 /\ faults' = faults + 1 /\ worker[w].step = "loop"
    BY <1>1, <1>12 DEF SendUnanswered, TypeOK, At, Fault
  <2>2. Live(n)' \subseteq Live(n) /\ Young(n)' \subseteq Young(n)
    BY <1>4, <2>1
  <2>3. accepted'[n] <= accepted[n] + 1 /\ Open(m)' <= Open(m)
    BY <1>1, <1>7, <1>12, <2>1, Counted
  <2> QED BY <1>1, <1>6, <1>12, <2>1, <2>2, <2>3, RowFault
<1>13. CASE m = n /\ MarkSentThrows(w, again)
  <2>1. accepted' = accepted /\ faults' = faults + 1
    BY <1>13 DEF MarkSentThrows, Fault
  <2>2. Open(m)' <= Open(m)
    BY <1>7, Counted
  <2> QED BY <1>1, <1>4, <1>6, <1>13, <2>1, <2>2, RowFault
<1> QED BY <1>9, <1>10, <1>11, <1>12, <1>13

\* A batch is lost: each of its rows may be open to a recovery at once.
LEMMA BudgetLost ==
    ASSUME TypeOK, TypeOK', Budget, NEW w \in Workers, Abandon(w) \/ Crash(w)
    PROVE  Budget'
<1> SUFFICES ASSUME NEW m \in Logs PROVE Within(m)'
  BY DEF Budget
<1>1. Live(m)' \subseteq Live(m) /\ Young(m)' \subseteq Young(m)
  BY LostEffect
<1>2. /\ faults' = faults + 1 /\ accepted' = accepted /\ attempts' = attempts
      /\ retrying' = retrying /\ Within(m)
  BY DEF Abandon, Crash, Fault, row, Budget
<1>3. Open(m)' <= Open(m) + 1
  BY <1>2 DEF Open, One
<1> QED BY <1>1, <1>2, <1>3, RowFault

------------------------------------------------------------------------------
(* The step of the invariant.                                              *)

\* Once something has gone wrong Calm says nothing more.
LEMMA CalmFault ==
    ASSUME TypeOK, faults' = faults + 1
    PROVE  Calm'
BY DEF TypeOK, Calm

\* Steps that touch rows only.
LEMMA RestRows ==
    ASSUME IInv, TypeOK', NEW n \in Logs,
           Enqueue(n) \/ DelayPasses(n) \/ TimeoutPasses(n) \/ BeginRetry(n) \/ EndRetry(n)
    PROVE  (Tidy /\ Taken /\ Calm)'
<1>1. worker' = worker /\ accepted' = accepted
  BY DEF Enqueue, DelayPasses, TimeoutPasses, BeginRetry, EndRetry
<1>2. Tidy'
  BY <1>1 DEF IInv, Tidy
<1>3. \A m \in Logs : Held(m)' <=> Held(m)
  BY <1>1 DEF Held
<1>4. Taken'
  <2>1. \A m \in Logs : status'[m] = "SENT" => status[m] = "SENT"
    BY WriteTyped DEF IInv, Enqueue, DelayPasses, TimeoutPasses, BeginRetry, EndRetry, row, Statuses
  <2> QED BY <1>1, <2>1 DEF IInv, Taken, At
<1>5. Calm'
  <2>1. CASE faults' = faults + 1
    BY <2>1, CalmFault DEF IInv
  <2>2. CASE faults' # faults + 1
    <3>1. faults' = faults
      BY <2>2 DEF Enqueue, DelayPasses, TimeoutPasses, BeginRetry, EndRetry, Fault
    <3> SUFFICES ASSUME faults = 0 PROVE Calm'
      BY <3>1 DEF Calm
    <3>2. /\ retrying = {} /\ retrying' = {}
          /\ ~BeginRetry(n) /\ ~EndRetry(n)
      BY <2>2 DEF IInv, Calm, Enqueue, DelayPasses, TimeoutPasses, BeginRetry, EndRetry, Fault
    <3>3. ~TimeoutPasses(n)
      BY <2>2 DEF IInv, Calm, TimeoutPasses, Fault
    <3>4. \A m \in Logs : /\ status[m] \in {"PROCESSING", "SENT"} \/ status'[m] \in {"PROCESSING", "SENT"}
                               => status'[m] = status[m]
                          /\ status[m] = "PROCESSING" => old'[m] = old[m]
      BY <3>2, <3>3, WriteTyped DEF IInv, Enqueue, DelayPasses, Statuses
    <3> QED BY <1>1, <1>3, <3>1, <3>2, <3>4 DEF IInv, Calm, SentBy
  <2> QED BY <2>1, <2>2
<1> QED BY <1>2, <1>4, <1>5

LEMMA RestStart ==
    ASSUME IInv, TypeOK', NEW w \in Workers, Start(w) \/ RecoverStale(w)
    PROVE  (Tidy /\ Taken /\ Calm)'
<1>1. /\ worker'[w].left = worker[w].left /\ worker[w].left = {}
      /\ worker'[w].step \in {"start", "idle"}
      /\ \A v \in Workers : v # w => worker'[v] = worker[v]
  BY DEF Start, RecoverStale, IInv, Tidy, At, TypeOK, Process
<1>2. accepted' = accepted /\ retrying' = retrying /\ faults' = faults
  BY DEF Start, RecoverStale
<1>3. \A m \in Logs : Held(m)' <=> Held(m)
  BY <1>1 DEF Held
<1>4. \A m \in Logs : status'[m] = "SENT" => status[m] = "SENT"
  BY DEF Start, RecoverStale, row, IInv, TypeOK
<1>5. Tidy'
  BY <1>1 DEF IInv, Tidy
<1>6. Taken'
  BY <1>1, <1>2, <1>4 DEF IInv, Taken, At
<1>7. ASSUME faults = 0 PROVE \A m \in Logs : status'[m] = status[m] /\ old'[m] = old[m]
  <2>1. \A m \in Logs : ~(status[m] = "PROCESSING" /\ old[m])
    BY <1>7 DEF IInv, Calm, Held
  <2>2. CASE Start(w)
    BY <2>2 DEF Start, row
  <2>3. CASE RecoverStale(w)
    BY <2>1, <2>3 DEF RecoverStale, IInv, TypeOK
  <2> QED BY <2>2, <2>3
<1>8. Calm'
  BY <1>1, <1>2, <1>3, <1>7 DEF IInv, Calm, SentBy
<1> QED BY <1>5, <1>6, <1>8

\* A row that is claimed was nobody's: held rows say PROCESSING.
LEMMA RestClaim ==
    ASSUME IInv, TypeOK', NEW w \in Workers, Claim(w)
    PROVE  (Tidy /\ Taken /\ Calm)'
<1>1. PICK batch \in SUBSET {n \in Logs : Claimable(n)} :
           /\ \A v \in Workers : v # w => worker'[v] = worker[v]
           /\ worker'[w].step = "loop" /\ worker'[w].left = batch
           /\ \A n \in batch : status'[n] = "PROCESSING" /\ ~old'[n]
           /\ \A n \in Logs \ batch : status'[n] = status[n] /\ old'[n] = old[n]
  BY ClaimTyped DEF IInv
<1>2. At(w, "idle") /\ retrying' = retrying /\ accepted' = accepted /\ faults' = faults
  BY DEF Claim
<1>3. worker[w].left = {}
  BY <1>2 DEF IInv, Tidy, At
<1>4. \A n \in Logs : /\ n \notin batch => (Held(n)' <=> Held(n))
                      /\ n \in batch => Held(n)' /\ status[n] \in Waiting
  BY <1>1, <1>3 DEF Held, Claimable
<1>5. Tidy'
  BY <1>1 DEF IInv, Tidy
<1>6. Taken'
  BY <1>1, <1>2 DEF IInv, Taken, At
<1>7. Calm'
  <2> SUFFICES ASSUME faults = 0 PROVE Calm'
    BY <1>2 DEF Calm
  <2>1. \A n \in batch, v \in Workers : n \notin worker[v].left
    BY <1>4 DEF IInv, Calm, Waiting
  <2>2. \A n \in Logs, u, v \in Workers : n \in worker'[u].left /\ n \in worker'[v].left => u = v
    BY <1>1, <2>1 DEF IInv, Calm
  <2>3. \A n \in Logs, v \in Workers : n \in worker'[v].left => status'[n] = "PROCESSING" /\ ~old'[n]
    BY <1>1, <2>1 DEF IInv, Calm
  <2>4. \A n \in Logs : status'[n] = "PROCESSING" => Held(n)'
    BY <1>1, <1>4 DEF IInv, Calm
  <2>5. \A n \in Logs : accepted[n] > 0 => /\ n \notin batch
          /\ \/ status'[n] = "SENT"
             \/ status'[n] = "PROCESSING" /\ \E v \in Workers : n \in worker'[v].left /\ SentBy(v, n)'
    BY <1>1, <1>3, <1>4 DEF IInv, Calm, Waiting, SentBy
  <2> QED BY <1>2, <2>2, <2>3, <2>4, <2>5 DEF IInv, Calm
<1> QED BY <1>5, <1>6, <1>7

\* The outcome that is written is the one the worker has seen.
LEMMA RestFinish ==
    ASSUME IInv, TypeOK', NEW w \in Workers, NEW n \in worker[w].left,
           Finish(w, n), NEW s \in Statuses, Write(n, s, FALSE), s # "PROCESSING",
           UNCHANGED <<retrying, accepted, faults>>,
           IF s = "SENT" THEN SentBy(w, n) ELSE worker[w].step \in {"loop", "refused"}
    PROVE  (Tidy /\ Taken /\ Calm)'
<1>1. n \in Logs /\ TypeOK
  BY DEF IInv, TypeOK, Process
<1>2. /\ \A v \in Workers : v # w => worker'[v] = worker[v]
      /\ worker'[w].left = worker[w].left \ {n}
      /\ worker'[w].step \in {"idle", "loop"}
      /\ worker'[w].step = "idle" => worker'[w].left = {}
  BY <1>1, FinishTyped
<1>3. /\ status'[n] = s
      /\ \A k \in Logs : k # n => status'[k] = status[k] /\ old'[k] = old[k]
  BY <1>1, WriteTyped
<1>4. Tidy'
  BY <1>2 DEF IInv, Tidy
<1>5. Taken'
  <2>1. s = "SENT" => accepted[n] > 0
    BY DEF IInv, Taken, At, SentBy
  <2> QED BY <1>2, <1>3, <2>1 DEF IInv, Taken, At
<1>6. Calm'
  <2> SUFFICES ASSUME faults = 0 PROVE Calm'
    BY DEF Calm
  <2>1. /\ status[n] = "PROCESSING"
        /\ \A v \in Workers : n \in worker[v].left => v = w
        /\ \A v \in Workers : n \notin worker'[v].left
    BY <1>1, <1>2 DEF IInv, Calm
  <2>2. accepted[n] > 0 => s = "SENT"
    BY <1>1, <2>1 DEF IInv, Calm, SentBy
  <2>3. \A k \in Logs, u, v \in Workers : k \in worker'[u].left /\ k \in worker'[v].left => u = v
    BY <1>2 DEF IInv, Calm
  <2>4. \A k \in Logs, v \in Workers : k \in worker'[v].left => status'[k] = "PROCESSING" /\ ~old'[k]
    BY <1>2, <1>3, <2>1 DEF IInv, Calm
  <2>5. \A k \in Logs : status'[k] = "PROCESSING" => Held(k)'
    BY <1>2, <1>3 DEF IInv, Calm, Held
  <2>6. \A k \in Logs : accepted[k] > 0 =>
          \/ status'[k] = "SENT"
          \/ status'[k] = "PROCESSING" /\ \E v \in Workers : k \in worker'[v].left /\ SentBy(v, k)'
    BY <1>2, <1>3, <2>2 DEF IInv, Calm, SentBy
  <2> QED BY <2>3, <2>4, <2>5, <2>6 DEF IInv, Calm
<1> QED BY <1>4, <1>5, <1>6

\* An accepted mail is known to the worker that sent it.
LEMMA RestAnswer ==
    ASSUME IInv, TypeOK', NEW w \in Workers, NEW n \in worker[w].left, NEW again \in BOOLEAN,
           \/ SendAccepted(w, n) \/ SendRefused(w, n, again) \/ SendUnanswered(w, n, again)
           \/ MarkSentThrows(w, again) /\ worker[w].now = n
    PROVE  (Tidy /\ Taken /\ Calm)'
<1>1. n \in Logs /\ TypeOK
  BY DEF IInv, TypeOK, Process
<1>2. PICK step \in {"accepted", "refused"}, a \in BOOLEAN :
         /\ Answered(w, n, step, a)
         /\ step = "accepted" => SendAccepted(w, n)
  BY DEF SendAccepted, SendRefused, SendUnanswered, MarkSentThrows
<1>3. /\ \A v \in Workers : v # w => worker'[v] = worker[v]
      /\ worker'[w].left = worker[w].left
      /\ worker'[w].step = step /\ worker'[w].now = n
  BY <1>1, <1>2, AnsweredTyped
<1>4. row' = row /\ retrying' = retrying
  BY DEF SendAccepted, SendRefused, SendUnanswered, MarkSentThrows
<1>5. /\ \A k \in Logs : k # n => accepted'[k] = accepted[k]
      /\ accepted'[n] = accepted[n] \/ accepted'[n] = accepted[n] + 1
      /\ SendAccepted(w, n) => accepted'[n] = accepted[n] + 1
  BY <1>1 DEF SendAccepted, SendRefused, SendUnanswered, MarkSentThrows, TypeOK
<1>6. /\ \A k \in Logs : accepted[k] \in Nat /\ (accepted[k] > 0 => accepted'[k] > 0)
      /\ SendAccepted(w, n) => accepted'[n] > 0
  BY <1>1, <1>5 DEF TypeOK
<1>7. Tidy'
  BY <1>2, <1>3 DEF IInv, Tidy
<1>8. Taken'
  <2>1. ASSUME NEW v \in Workers, worker'[v].step = "accepted"
        PROVE  accepted'[worker'[v].now] > 0
    <3>1. CASE v = w
      BY <1>2, <1>3, <1>6, <2>1, <3>1
    <3>2. CASE v # w
      <4>1. worker'[v] = worker[v] /\ worker[v].now \in Logs
        BY <1>1, <1>3, <2>1, <3>2 DEF TypeOK, Process
      <4> QED BY <1>6, <2>1, <4>1 DEF IInv, Taken, At
    <3> QED BY <3>1, <3>2
  <2> QED BY <1>4, <1>6, <2>1 DEF IInv, Taken, At, row
<1>9. Calm'
  <2>1. CASE faults' = faults + 1
    BY <1>1, <2>1, CalmFault
  <2>2. CASE faults' # faults + 1
    <3>1. /\ SendAccepted(w, n) \/ (SendRefused(w, n, again) /\ accepted' = accepted)
          /\ faults' = faults /\ worker[w].step = "loop"
      BY <2>2 DEF SendAccepted, SendRefused, SendUnanswered, MarkSentThrows, Fault, At
    <3> SUFFICES ASSUME faults = 0 PROVE Calm'
      BY <3>1 DEF Calm
    <3>2. status[n] = "PROCESSING"
      BY <1>1 DEF IInv, Calm
    <3>3. \A k : Held(k)' <=> Held(k)
      BY <1>3 DEF Held
    <3>4. \A k \in Logs : accepted[k] > 0 =>
            \/ status[k] = "SENT"
            \/ status[k] = "PROCESSING" /\ \E v \in Workers : k \in worker'[v].left /\ SentBy(v, k)'
      BY <1>3, <3>1 DEF IInv, Calm, SentBy
    <3>5. SendAccepted(w, n) => n \in worker'[w].left /\ SentBy(w, n)'
      BY <1>3, <3>1 DEF SentBy, SendAccepted, Answered, IInv, TypeOK
    <3>6. \A k \in Logs : accepted'[k] > 0 =>
            \/ status'[k] = "SENT"
            \/ status'[k] = "PROCESSING" /\ \E v \in Workers : k \in worker'[v].left /\ SentBy(v, k)'
      BY <1>4, <1>5, <3>1, <3>2, <3>4, <3>5 DEF row
    <3> QED BY <1>3, <1>4, <3>3, <3>6 DEF IInv, Calm, row
  <2> QED BY <2>1, <2>2
<1> QED BY <1>7, <1>8, <1>9

LEMMA RestLost ==
    ASSUME IInv, TypeOK', NEW w \in Workers, Abandon(w) \/ Crash(w)
    PROVE  (Tidy /\ Taken /\ Calm)'
<1>1. /\ worker'[w].left = {} /\ worker'[w].step \in {"down", "idle"}
      /\ \A v \in Workers : v # w => worker'[v] = worker[v]
  BY LostEffect DEF IInv
<1>2. faults' = faults + 1 /\ accepted' = accepted /\ status' = status
  BY DEF Abandon, Crash, Fault, row
<1>3. Tidy' /\ Taken'
  BY <1>1, <1>2 DEF IInv, Tidy, Taken, At
<1> QED BY <1>2, <1>3, CalmFault DEF IInv

LEMMA IInvStep == IInv /\ [Next]_vars => IInv'
<1> SUFFICES ASSUME IInv, [Next]_vars PROVE IInv'
  OBVIOUS
<1>1. TypeOK /\ TypeOK' /\ Tidy /\ Budget
  BY TypeStep DEF IInv
<1>2. CASE UNCHANGED vars
  <2>1. UNCHANGED <<status, attempts, due, old, worker, retrying, accepted, faults>>
    BY <1>2 DEF vars, row
  <2>2. \A n : Live(n)' = Live(n) /\ Young(n)' = Young(n) /\ Held(n)' = Held(n)
    BY <2>1, SameWorkers
  <2>3. Budget'
    BY <2>1, <2>2 DEF IInv, Budget, Within, Open, Free
  <2>4. (Tidy /\ Taken /\ Calm)'
    BY <2>1, <2>2 DEF IInv, Tidy, Taken, Calm, At, SentBy
  <2> QED BY <1>1, <2>3, <2>4 DEF IInv
<1>3. ASSUME NEW n \in Logs,
             Enqueue(n) \/ DelayPasses(n) \/ TimeoutPasses(n) \/ BeginRetry(n) \/ EndRetry(n)
      PROVE  IInv'
  BY <1>1, <1>3, BudgetRows, RestRows DEF IInv
<1>4. ASSUME NEW w \in Workers, Start(w) \/ RecoverStale(w) PROVE IInv'
  BY <1>1, <1>4, BudgetStart, RestStart DEF IInv
<1>5. ASSUME NEW w \in Workers, Claim(w) PROVE IInv'
  BY <1>1, <1>5, BudgetClaim, RestClaim DEF IInv
<1>6. ASSUME NEW w \in Workers, NEW n, Skip(w, n) PROVE IInv'
  <2>1. /\ n \in worker[w].left /\ worker[w].step = "loop" /\ Finish(w, n)
        /\ Write(n, "SKIPPED", FALSE) /\ UNCHANGED <<retrying, accepted, faults>>
    BY <1>6 DEF Skip, At
  <2>2. "SKIPPED" \in Statuses /\ "SKIPPED" \notin Waiting
    BY DEF Statuses, Waiting
  <2>3. Budget'
    BY <1>1, <2>1, <2>2, BudgetFinish
  <2>4. (Tidy /\ Taken /\ Calm)'
    BY <1>1, <2>1, <2>2, RestFinish
  <2> QED BY <1>1, <2>3, <2>4 DEF IInv
<1>7. ASSUME NEW w \in Workers, MarkSent(w) PROVE IInv'
  <2> DEFINE n == worker[w].now
  <2>1. n \in worker[w].left /\ SentBy(w, n)
    BY <1>1, <1>7 DEF MarkSent, At, SentBy, TypeOK
  <2>2. Finish(w, n) /\ Write(n, "SENT", FALSE) /\ UNCHANGED <<retrying, accepted, faults>>
    BY <1>7 DEF MarkSent
  <2>3. "SENT" \in Statuses /\ "SENT" \notin Waiting
    BY DEF Statuses, Waiting
  <2> HIDE DEF n
  <2>4. Budget'
    BY <1>1, <2>1, <2>2, <2>3, BudgetFinish
  <2>5. (Tidy /\ Taken /\ Calm)'
    BY <1>1, <2>1, <2>2, <2>3, RestFinish
  <2> QED BY <1>1, <2>4, <2>5 DEF IInv
<1>8. ASSUME NEW w \in Workers, MarkRefused(w) PROVE IInv'
  <2> DEFINE n == worker[w].now
             retry == worker[w].again /\ worker[w].tries[n] < MaxAttempts
             s == IF retry THEN "RETRYING" ELSE "FAILED"
  <2>1. n \in worker[w].left /\ worker[w].step = "refused"
    BY <1>1, <1>8 DEF MarkRefused, At, TypeOK
  <2>2. Finish(w, n) /\ Write(n, s, FALSE) /\ UNCHANGED <<retrying, accepted, faults>>
    BY <1>8 DEF MarkRefused
  <2>3. s \in Statuses /\ s \notin {"NONE", "PROCESSING", "SENT"}
    BY DEF Statuses
  <2>4. s \in Waiting => w \in Young(n)
    BY <2>1 DEF Waiting, Young, Live, SentBy
  <2> HIDE DEF n, s
  <2>5. Budget'
    BY <1>1, <2>1, <2>2, <2>3, <2>4, BudgetFinish
  <2>6. (Tidy /\ Taken /\ Calm)'
    BY <1>1, <2>1, <2>2, <2>3, RestFinish
  <2> QED BY <1>1, <2>5, <2>6 DEF IInv
<1>9. ASSUME NEW w \in Workers, NEW n \in worker[w].left, NEW again \in BOOLEAN,
             \/ SendAccepted(w, n) \/ SendRefused(w, n, again) \/ SendUnanswered(w, n, again)
             \/ MarkSentThrows(w, again) /\ worker[w].now = n
      PROVE  IInv'
  BY <1>1, <1>9, BudgetAnswer, RestAnswer DEF IInv
<1>10. ASSUME NEW w \in Workers, Abandon(w) \/ Crash(w) PROVE IInv'
  BY <1>1, <1>10, BudgetLost, RestLost DEF IInv
<1>11. ASSUME NEW w \in Workers, NEW again \in BOOLEAN, MarkSentThrows(w, again)
       PROVE  worker[w].now \in worker[w].left
  BY <1>1, <1>11 DEF MarkSentThrows, At, TypeOK
<1>12. ASSUME NEW w \in Workers, Pass(w) PROVE IInv'
  BY <1>4, <1>5, <1>6, <1>7, <1>8, <1>9, <1>12, OnlyHeld DEF Pass
<1>13. ASSUME NEW w \in Workers, Mishap(w) PROVE IInv'
  BY <1>9, <1>10, <1>11, <1>13, OnlyHeld DEF Mishap
<1> QED BY <1>2, <1>3, <1>4, <1>12, <1>13 DEF Next

LEMMA IInvInit == Init => IInv
<1> SUFFICES ASSUME Init PROVE IInv
  OBVIOUS
<1>1. TypeOK
  BY DEF Init, TypeOK, Statuses, Down, Process, Steps
<1>2. Tidy
  BY DEF Init, Tidy, Down
<1>3. ASSUME NEW n \in Logs PROVE Within(n)
  <2>1. Live(n) = {} /\ Young(n) = {}
    BY DEF Init, Live, Young, Down
  <2>2. Open(n) = 1
    BY DEF Init, Open, One, Free, Waiting
  <2> QED BY <2>1, <2>2, FS_EmptySet, LimitType DEF Init, Within
<1>4. Taken /\ Calm
  BY DEF Init, Taken, Calm, At, Down
<1> QED BY <1>1, <1>2, <1>3, <1>4 DEF IInv, Budget

------------------------------------------------------------------------------
(* Theorems.                                                               *)

\* The inductive invariant holds in every reachable state.
THEOREM QueueInvariant == Spec => []IInv
BY IInvInit, IInvStep, PTL DEF Spec

\* Two workers never send one mail by themselves: every repeat is paid for by
\* a crash, a lost answer, an exception, a late worker or a retry by hand.
THEOREM RepeatsOnlyByFaults == Spec => []RepeatsNeedFaults
<1>1. IInv => RepeatsNeedFaults
  BY Counted DEF IInv, TypeOK, Budget, Within, RepeatsNeedFaults
<1> QED BY <1>1, QueueInvariant, PTL

\* email_max_attempts bounds the attempts, up to one more for each mishap.
THEOREM AttemptsBounded == Spec => []AttemptsWithinLimit
<1>1. IInv => AttemptsWithinLimit
  BY Counted, LimitType DEF IInv, TypeOK, Budget, Within, AttemptsWithinLimit
<1> QED BY <1>1, QueueInvariant, PTL

\* SENT is never said of a mail the transport did not take, and without a
\* mishap a mail it took is SENT or about to be.
THEOREM StatusIsTrue == Spec => []StatusTellsTruth
<1>1. IInv => StatusTellsTruth
  BY DEF IInv, Taken, Calm, StatusTellsTruth, SentBy, At
<1> QED BY <1>1, QueueInvariant, PTL
==============================================================================
