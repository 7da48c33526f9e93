------------------------- MODULE NotificationQueue -------------------------
(***************************************************************************)
(* The mail queue (services/notification-queue.service.ts) with the code   *)
(* that fills it (events/handlers/email.handler.ts) and the endpoint that  *)
(* retries a mail by hand (modules/notification-logs).                     *)
(*                                                                         *)
(* Every server process runs one worker.  It claims a batch of due rows,   *)
(* sends them one after the other and writes each outcome to its row by    *)
(* id, without a look at what the row says by then.  Rows left PROCESSING  *)
(* by a worker are recovered only when a worker starts.                    *)
(*                                                                         *)
(* A row is one mail.  Times are two Booleans: a retry delay has passed    *)
(* (due), a claim is older than the processing timeout (old).  What can go *)
(* wrong is counted in faults: that bounds the instances, and it is what   *)
(* the properties measure the damage by.                                   *)
(***************************************************************************)
EXTENDS Integers, FiniteSets

CONSTANTS
    Logs,           \* the notification_logs rows
    Workers,        \* the server processes
    NoLog,          \* no row
    MaxAttempts,    \* email_max_attempts
    BatchSize,      \* min(email_worker_batch_size, email_rate_limit_per_second)
    MaxFaults       \* bound: how many things go wrong

ASSUME LogsType  == IsFiniteSet(Logs) /\ IsFiniteSet(Workers) /\ NoLog \notin Logs
ASSUME LimitType == {MaxAttempts, BatchSize} \subseteq Nat \ {0} /\ MaxFaults \in Nat

VARIABLES
    status,     \* status[n]: the status of the row, "NONE" before it exists
    attempts,   \* attempts[n]
    due,        \* due[n]: next_attempt_at has come
    old,        \* old[n]: processing_started_at is past the timeout
    worker,     \* worker[w]: where the process is, and its batch
    retrying,   \* rows a manual retry has read and not yet updated
    accepted,   \* accepted[n]: how often the transport took the mail
    faults

row == <<status, attempts, due, old>>
vars == <<row, worker, retrying, accepted, faults>>

Statuses == {"NONE", "QUEUED", "PROCESSING", "SENT", "FAILED", "RETRYING", "SKIPPED"}
Settled == {"SENT", "FAILED", "SKIPPED"}
Waiting == {"QUEUED", "RETRYING"}
Steps == {"down", "start", "idle", "loop", "accepted", "refused"}

\* left: the rows of the batch not yet finished; tries: their attempts as the
\* claim returned them; now: the row whose mail has been answered; again: the
\* refusal is retryable.
Down == [step |-> "down", left |-> {}, now |-> NoLog, again |-> FALSE,
         tries |-> [n \in Logs |-> 0]]
Process == [step : Steps, left : SUBSET Logs, now : Logs \cup {NoLog}, again : BOOLEAN,
            tries : [Logs -> Nat]]

TypeOK ==
    /\ status \in [Logs -> Statuses]
    /\ attempts \in [Logs -> Nat]
    /\ due \in [Logs -> BOOLEAN] /\ old \in [Logs -> BOOLEAN]
    /\ worker \in [Workers -> Process]
    /\ \A w \in Workers : worker[w].step \in {"accepted", "refused"} => worker[w].now \in worker[w].left
    /\ retrying \subseteq Logs
    /\ accepted \in [Logs -> Nat]
    /\ faults \in Nat

Init ==
    /\ status = [n \in Logs |-> "NONE"]
    /\ attempts = [n \in Logs |-> 0]
    /\ due = [n \in Logs |-> FALSE] /\ old = [n \in Logs |-> FALSE]
    /\ worker = [w \in Workers |-> Down]
    /\ retrying = {}
    /\ accepted = [n \in Logs |-> 0]
    /\ faults = 0

At(w, step) == worker[w].step = step
Fault == faults < MaxFaults /\ faults' = faults + 1
\* UPDATE notification_logs ... WHERE id = n; only RETRYING has a next time.
Write(n, s, isDue) ==
    /\ status' = [status EXCEPT ![n] = s]
    /\ due' = [due EXCEPT ![n] = isDue]
    /\ old' = [old EXCEPT ![n] = FALSE]
    /\ UNCHANGED attempts

------------------------------------------------------------------------------
(* Rows appear; time passes.                                               *)

\* handleEmailNotifications inserts one row after the other, each on its own;
\* when it fails the rest is never inserted.
Enqueue(n) ==
    /\ status[n] = "NONE"
    /\ Write(n, "QUEUED", TRUE)
    /\ UNCHANGED <<worker, retrying, accepted, faults>>

DelayPasses(n) ==
    /\ status[n] = "RETRYING" /\ ~due[n]
    /\ due' = [due EXCEPT ![n] = TRUE]
    /\ UNCHANGED <<status, attempts, old, worker, retrying, accepted, faults>>

\* A claim grows old.  It is a fault of its own if its worker lives.
Held(n) == \E w \in Workers : n \in worker[w].left
TimeoutPasses(n) ==
    /\ status[n] = "PROCESSING" /\ ~old[n]
    /\ old' = [old EXCEPT ![n] = TRUE]
    /\ IF Held(n) THEN Fault ELSE UNCHANGED faults
    /\ UNCHANGED <<status, attempts, due, worker, retrying, accepted>>

------------------------------------------------------------------------------
(* NotificationQueueService.start: recover, then a pass, then the timer.   *)

Start(w) ==
    /\ At(w, "down")
    /\ worker' = [worker EXCEPT ![w].step = "start"]
    /\ UNCHANGED <<row, retrying, accepted, faults>>

\* Mutant: the age of the claim is not looked at.
RecoverStale_All(w) ==
    LET stale == {n \in Logs : status[n] = "PROCESSING"} IN
    /\ At(w, "start")
    /\ status' = [n \in Logs |-> IF n \in stale THEN "RETRYING" ELSE status[n]]
    /\ due' = [n \in Logs |-> n \in stale \/ due[n]]
    /\ old' = [n \in Logs |-> n \notin stale /\ old[n]]
    /\ worker' = [worker EXCEPT ![w].step = "idle"]
    /\ UNCHANGED <<attempts, retrying, accepted, faults>>

\* recoverStaleProcessingLogs: one UPDATE of all old claims.
RecoverStale(w) ==
    LET stale == {n \in Logs : status[n] = "PROCESSING" /\ old[n]} IN
    /\ At(w, "start")
    /\ status' = [n \in Logs |-> IF n \in stale THEN "RETRYING" ELSE status[n]]
    /\ due' = [n \in Logs |-> n \in stale \/ due[n]]
    /\ old' = [n \in Logs |-> n \notin stale /\ old[n]]
    /\ worker' = [worker EXCEPT ![w].step = "idle"]
    /\ UNCHANGED <<attempts, retrying, accepted, faults>>

------------------------------------------------------------------------------
(* One pass over the queue.                                                *)

\* Mutant first: rows to be retried are forgotten.
Claimable_QueuedOnly(n) == status[n] = "QUEUED" /\ due[n]
Claimable(n) == status[n] \in Waiting /\ due[n]

\* One statement, FOR UPDATE SKIP LOCKED: two workers never share a row.
\* Mutant first: the rows are selected and their status is left as it is.
Claim_Unmarked(w) ==
    /\ At(w, "idle")
    /\ \E batch \in SUBSET {n \in Logs : Claimable(n)} :
        /\ batch # {} /\ Cardinality(batch) <= BatchSize
        /\ attempts' = [n \in Logs |-> IF n \in batch THEN attempts[n] + 1 ELSE attempts[n]]
        /\ worker' = [worker EXCEPT ![w] = [step |-> "loop", left |-> batch, now |-> NoLog,
               again |-> FALSE, tries |-> [n \in Logs |-> IF n \in batch THEN attempts[n] + 1 ELSE 0]]]
    /\ UNCHANGED <<status, due, old, retrying, accepted, faults>>

\* As many due rows as fit the batch.
Claim(w) ==
    /\ At(w, "idle")
    /\ \E batch \in SUBSET {n \in Logs : Claimable(n)} :
        /\ batch # {} /\ Cardinality(batch) <= BatchSize
        /\ Cardinality(batch) < BatchSize => \A n \in Logs : Claimable(n) => n \in batch
        /\ status' = [n \in Logs |-> IF n \in batch THEN "PROCESSING" ELSE status[n]]
        /\ attempts' = [n \in Logs |-> IF n \in batch THEN attempts[n] + 1 ELSE attempts[n]]
        /\ old' = [n \in Logs |-> n \notin batch /\ old[n]]
        /\ worker' = [worker EXCEPT ![w] = [step |-> "loop", left |-> batch, now |-> NoLog,
               again |-> FALSE, tries |-> [n \in Logs |-> IF n \in batch THEN attempts[n] + 1 ELSE 0]]]
    /\ UNCHANGED <<due, retrying, accepted, faults>>

\* The loop goes on with the rest of the batch.
Finish(w, n) ==
    LET left == worker[w].left \ {n} IN
    worker' = [worker EXCEPT ![w] = [step |-> IF left = {} THEN "idle" ELSE "loop", left |-> left,
                   now |-> NoLog, again |-> FALSE, tries |-> [worker[w].tries EXCEPT ![n] = 0]]]
Answered(w, n, step, again) ==
    worker' = [worker EXCEPT ![w].step = step, ![w].now = n, ![w].again = again]

\* The recipient has unsubscribed.
Skip(w, n) ==
    /\ At(w, "loop") /\ n \in worker[w].left
    /\ Write(n, "SKIPPED", FALSE)
    /\ Finish(w, n)
    /\ UNCHANGED <<retrying, accepted, faults>>

SendAccepted(w, n) ==
    /\ At(w, "loop") /\ n \in worker[w].left
    /\ accepted' = [accepted EXCEPT ![n] = @ + 1]
    /\ Answered(w, n, "accepted", FALSE)
    /\ UNCHANGED <<row, retrying, faults>>

\* The transport refuses, or the template or the event is missing.
SendRefused(w, n, again) ==
    /\ At(w, "loop") /\ n \in worker[w].left
    /\ Answered(w, n, "refused", again)
    /\ UNCHANGED <<row, retrying, accepted, faults>>

\* The transport takes the mail, and its answer is lost.
SendUnanswered(w, n, again) ==
    /\ At(w, "loop") /\ n \in worker[w].left
    /\ accepted' = [accepted EXCEPT ![n] = @ + 1]
    /\ Answered(w, n, "refused", again)
    /\ Fault
    /\ UNCHANGED <<row, retrying>>

MarkSent(w) ==
    LET n == worker[w].now IN
    /\ At(w, "accepted")
    /\ Write(n, "SENT", FALSE)
    /\ Finish(w, n)
    /\ UNCHANGED <<retrying, accepted, faults>>

\* markNotificationSent is inside the try: if it throws, the mail counts as
\* refused although it was sent.
MarkSentThrows(w, again) ==
    /\ At(w, "accepted")
    /\ Answered(w, worker[w].now, "refused", again)
    /\ Fault
    /\ UNCHANGED <<row, retrying, accepted>>

\* The catch block.  Mutant first: an off-by-one in the limit.
MarkRefused_OneMore(w) ==
    LET n == worker[w].now
        retry == worker[w].again /\ worker[w].tries[n] <= MaxAttempts
    IN
    /\ At(w, "refused")
    /\ Write(n, IF retry THEN "RETRYING" ELSE "FAILED", FALSE)
    /\ Finish(w, n)
    /\ UNCHANGED <<retrying, accepted, faults>>

MarkRefused(w) ==
    LET n == worker[w].now
        retry == worker[w].again /\ worker[w].tries[n] < MaxAttempts
    IN
    /\ At(w, "refused")
    /\ Write(n, IF retry THEN "RETRYING" ELSE "FAILED", FALSE)
    /\ Finish(w, n)
    /\ UNCHANGED <<retrying, accepted, faults>>

------------------------------------------------------------------------------
(* What goes wrong, and the retry by hand.                                 *)

\* A statement outside the try throws (the claim after its commit, the read
\* of the event, the write of an outcome): the pass ends, the batch is lost.
Abandon(w) ==
    /\ worker[w].step \in {"loop", "refused"}
    /\ worker' = [worker EXCEPT ![w] = [Down EXCEPT !.step = "idle"]]
    /\ Fault
    /\ UNCHANGED <<row, retrying, accepted>>

Crash(w) ==
    /\ ~At(w, "down")
    /\ worker' = [worker EXCEPT ![w] = Down]
    /\ Fault
    /\ UNCHANGED <<row, retrying, accepted>>

\* retryNotification: reads and checks the row, reads the event, updates.
BeginRetry(n) ==
    /\ status[n] \in {"FAILED", "RETRYING"}
    /\ n \notin retrying
    /\ retrying' = retrying \cup {n}
    /\ Fault
    /\ UNCHANGED <<row, worker, accepted>>

EndRetry(n) ==
    /\ n \in retrying
    /\ Write(n, "RETRYING", TRUE)
    /\ retrying' = retrying \ {n}
    /\ UNCHANGED <<worker, accepted, faults>>

------------------------------------------------------------------------------
Pass(w) ==
    \/ RecoverStale(w) \/ Claim(w) \/ MarkSent(w) \/ MarkRefused(w)
    \/ \E n \in Logs : \/ Skip(w, n) \/ SendAccepted(w, n)
                       \/ \E again \in BOOLEAN : SendRefused(w, n, again)

Mishap(w) ==
    \/ Abandon(w) \/ Crash(w)
    \/ \E again \in BOOLEAN : \/ MarkSentThrows(w, again)
                              \/ \E n \in Logs : SendUnanswered(w, n, again)

Next ==
    \/ \E w \in Workers : Start(w) \/ Pass(w) \/ Mishap(w)
    \/ \E n \in Logs : \/ Enqueue(n) \/ DelayPasses(n) \/ TimeoutPasses(n)
                       \/ BeginRetry(n) \/ EndRetry(n)

Spec == Init /\ [][Next]_vars

\* A process that is down is started again (server.ts), its timer fires every
\* second, the event loop resumes a pass, delays run out, lost claims grow old.
FairSpec ==
    /\ Spec
    /\ \A w \in Workers : WF_vars(Start(w)) /\ WF_vars(Pass(w))
    /\ \A n \in Logs : WF_vars(DelayPasses(n)) /\ WF_vars(EndRetry(n))
    /\ \A n \in Logs : WF_vars(~Held(n) /\ TimeoutPasses(n))

------------------------------------------------------------------------------
(* Properties.                                                             *)

\* A recipient gets a mail twice only because something went wrong, and each
\* mishap costs at most one more mail (the claim with SKIP LOCKED, the
\* timeout that recovery waits for).
RepeatsNeedFaults == \A n \in Logs : accepted[n] <= 1 + faults

\* Each mishap costs at most one attempt beyond email_max_attempts.
AttemptsWithinLimit == \A n \in Logs : attempts[n] <= MaxAttempts + faults

\* A row says SENT only if the transport took the mail; and if nothing went
\* wrong a mail it took is SENT, or its worker is about to write so.
StatusTellsTruth == \A n \in Logs :
    /\ status[n] = "SENT" => accepted[n] > 0
    /\ (faults = 0 /\ accepted[n] > 0) =>
          \/ status[n] = "SENT"
          \/ status[n] = "PROCESSING" /\ \E w \in Workers : At(w, "accepted") /\ worker[w].now = n

\* Every mail is sent, given up or skipped, or it is stranded: claimed by a
\* worker that has lost it.
Stranded(n) == status[n] = "PROCESSING" /\ ~Held(n)
EveryMailSettles == \A n \in Logs :
    status[n] \in Waiting ~> (status[n] \in Settled \/ Stranded(n))

\* What the timeout is for: a stranded mail is picked up again.
StrandedIsRecovered == \A n \in Logs : Stranded(n) ~> ~Stranded(n)

\* A mail that is SENT is not queued again (notification-logs.controllers.ts:
\* "Only FAILED or RETRYING notifications can be retried").
SentStaysSent == [][\A n \in Logs : status[n] = "SENT" => status'[n] = "SENT"]_vars
==============================================================================
