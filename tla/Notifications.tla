----------------------------- MODULE Notifications -----------------------------
(***************************************************************************)
(* The queue of notifications and the job that sends them, run by several   *)
(* workers under an advisory lock: recovery of notifications whose worker   *)
(* fell silent, claims, sending, and retries by hand.  Translated from      *)
(* modules/notifications/notification.service.js and .repository.js and     *)
(* from jobs/: job-container, job-runner, job-lock.service,                 *)
(* retry-notifications.job, recover-stale-jobs.job and record-batch.        *)
(*                                                                          *)
(* A transaction is one step; a provider answers between two steps.  The    *)
(* advisory lock belongs to a connection of the worker and may be lost, by  *)
(* a broken connection or by the timeout of a shutdown, while the handler   *)
(* runs on.  A ticket is an id of the array a run works through: the        *)
(* attempt that claimed it distinguishes it from those of other runs.       *)
(***************************************************************************)
EXTENDS FiniteSets, Naturals

CONSTANTS
  Messages,    \* notifications, one per deduplication key
  Workers,     \* worker processes
  Null,
  MaxAttempts, \* max_attempts of a new notification
  AttemptCap,  \* bound: no administrator allows more attempts than this
  BatchSize    \* notifications a job takes at once

ASSUME NotificationsAssumption ==
  /\ Null \notin Workers
  /\ MaxAttempts \in Nat \ {0} /\ AttemptCap \in Nat /\ AttemptCap >= MaxAttempts
  /\ BatchSize \in Nat \ {0}

VARIABLES
  status,       \* notifications.status, NONE before the row exists
  attemptCount, \* attempt_count
  maxAttempts,  \* max_attempts
  owner,        \* processing_worker_id
  due,          \* notifications whose next_retry_at or scheduled_at has come
  silent,       \* notifications whose last_attempt_at is older than the lease
  lock,         \* worker that has the lock RETRY_NOTIFICATIONS
  phase,        \* what the job handler of a worker does
  tickets,      \* ids claimed for a run and not reached yet
  sending,      \* calls to a provider that have not returned
  sends,        \* number of calls made to a provider
  reopened,     \* notifications put back while PROCESSING
  lockLost      \* running workers whose lock was lost

rowVars == <<status, attemptCount, maxAttempts, owner, due, silent>>
jobVars == <<lock, phase, lockLost>>
vars == <<rowVars, jobVars, tickets, sending, sends, reopened>>

Status == {"PENDING", "PROCESSING", "RETRYING", "SENT", "FAILED"}
Phase == {"IDLE", "RECOVERING", "CLAIMING", "SENDING"}
Ticket == [worker : Workers, message : Messages, attempt : 1 .. AttemptCap]

TypeOK ==
  /\ status \in [Messages -> Status \union {"NONE"}]
  /\ attemptCount \in [Messages -> 0 .. AttemptCap]
  /\ maxAttempts \in [Messages -> 1 .. AttemptCap]
  /\ owner \in [Messages -> Workers \union {Null}]
  /\ due \subseteq Messages /\ silent \subseteq Messages
  /\ lock \in Workers \union {Null}
  /\ phase \in [Workers -> Phase]
  /\ tickets \subseteq Ticket /\ sending \subseteq Ticket
  /\ sends \in [Messages -> Nat]
  /\ reopened \subseteq Messages
  /\ lockLost \subseteq Workers

Init ==
  /\ status = [m \in Messages |-> "NONE"]
  /\ attemptCount = [m \in Messages |-> 0]
  /\ maxAttempts = [m \in Messages |-> MaxAttempts]
  /\ owner = [m \in Messages |-> Null]
  /\ due = {} /\ silent = {}
  /\ lock = Null
  /\ phase = [w \in Workers |-> "IDLE"]
  /\ tickets = {} /\ sending = {}
  /\ sends = [m \in Messages |-> 0]
  /\ reopened = {}
  /\ lockLost = {}

-------------------------------------------------------------------------------
(* The queue and the clock                                                   *)

\* queueNotification: one row per deduplication key, due at once.
QueueNotification(m) ==
  /\ status[m] = "NONE"
  /\ status' = [status EXCEPT ![m] = "PENDING"]
  /\ due' = due \union {m}
  /\ UNCHANGED <<attemptCount, maxAttempts, owner, silent, jobVars, tickets, sending,
                 sends, reopened>>

ComeDue(m) ==
  /\ status[m] = "RETRYING" /\ m \notin due
  /\ due' = due \union {m}
  /\ UNCHANGED <<status, attemptCount, maxAttempts, owner, silent, jobVars, tickets,
                 sending, sends, reopened>>

FallSilent(m) ==
  /\ status[m] = "PROCESSING" /\ m \notin silent
  /\ silent' = silent \union {m}
  /\ UNCHANGED <<status, attemptCount, maxAttempts, owner, due, jobVars, tickets,
                 sending, sends, reopened>>

-------------------------------------------------------------------------------
(* The lock and the runner                                                   *)

\* release: pg_advisory_unlock by a connection that lost the lock does nothing.
Release(w) == lock' = IF lock = w THEN Null ELSE lock

\* JobRunner.run with the lock; without it the run is skipped.
StartJob(w) ==
  /\ phase[w] = "IDLE" /\ lock = Null
  /\ lock' = w
  /\ phase' = [phase EXCEPT ![w] = "RECOVERING"]
  /\ UNCHANGED <<rowVars, lockLost, tickets, sending, sends, reopened>>

\* The handler returns, its records done.
EndJob(w) ==
  /\ phase[w] = "SENDING"
  /\ \A t \in tickets \union sending : t.worker # w
  /\ phase' = [phase EXCEPT ![w] = "IDLE"]
  /\ Release(w)
  /\ lockLost' = lockLost \ {w}
  /\ UNCHANGED <<rowVars, tickets, sending, sends, reopened>>

\* The handler throws: a transaction failed, or too many records did, and then
\* the other loops of the run go on behind the released lock.
FailJob(w) ==
  /\ phase[w] # "IDLE"
  /\ phase' = [phase EXCEPT ![w] = "IDLE"]
  /\ Release(w)
  /\ lockLost' = lockLost \ {w}
  /\ UNCHANGED <<rowVars, tickets, sending, sends, reopened>>

\* The connection breaks, or releaseAll gives the lock back at shutdown.
LoseLock(w) ==
  /\ lock = w
  /\ lock' = Null
  /\ lockLost' = lockLost \union {w}
  /\ UNCHANGED <<rowVars, phase, tickets, sending, sends, reopened>>

\* The process ends; the rows it claimed stay PROCESSING.
Crash(w) ==
  /\ phase[w] # "IDLE" \/ \E t \in tickets \union sending : t.worker = w
  /\ phase' = [phase EXCEPT ![w] = "IDLE"]
  /\ Release(w)
  /\ lockLost' = lockLost \ {w}
  /\ tickets' = {t \in tickets : t.worker # w}
  /\ sending' = {t \in sending : t.worker # w}
  /\ UNCHANGED <<rowVars, sends, reopened>>

-------------------------------------------------------------------------------
(* Recovery and claims                                                       *)

\* As many as the limit lets through; rows that another transaction has locked
\* are skipped.
Batch(batch, candidates) ==
  /\ batch \subseteq candidates
  /\ Cardinality(batch) <= BatchSize

\* recoverStaleProcessing; a failure is a FailJob.  A recovery that finds its
\* own lock taken is skipped, as if every row were locked.
RecoverStale(w, batch) ==
  /\ phase[w] = "RECOVERING"
  /\ Batch(batch, {m \in silent : status[m] = "PROCESSING"})
  /\ status' = [m \in Messages |-> IF m \in batch THEN "RETRYING" ELSE status[m]]
  /\ owner' = [m \in Messages |-> IF m \in batch THEN Null ELSE owner[m]]
  /\ due' = due \union batch
  /\ silent' = silent \ batch
  /\ reopened' = reopened \union batch
  /\ phase' = [phase EXCEPT ![w] = "CLAIMING"]
  /\ UNCHANGED <<attemptCount, maxAttempts, lock, lockLost, tickets, sending, sends>>

\* A mistake: only new notifications are looked for.
NewlyDue == {m \in due : status[m] = "PENDING" /\ attemptCount[m] < maxAttempts[m]}

\* A mistake: a notification is claimed whoever works on it.
DueWhoeverSends ==
  {m \in due : status[m] \in {"PENDING", "RETRYING", "PROCESSING"}
               /\ attemptCount[m] < maxAttempts[m]}

\* findDueNotifications
DueNotifications ==
  {m \in due : status[m] \in {"PENDING", "RETRYING"} /\ attemptCount[m] < maxAttempts[m]}

\* claimForProcessing of a set of notifications.
Claim(w, batch) ==
  /\ status' = [m \in Messages |-> IF m \in batch THEN "PROCESSING" ELSE status[m]]
  /\ attemptCount' = [m \in Messages |-> attemptCount[m] + IF m \in batch THEN 1 ELSE 0]
  /\ owner' = [m \in Messages |-> IF m \in batch THEN w ELSE owner[m]]
  /\ silent' = silent \ batch

TicketOf(w, m) == [worker |-> w, message |-> m, attempt |-> attemptCount[m] + 1]

\* claimDueNotifications
ClaimDue(w, batch) ==
  /\ phase[w] = "CLAIMING"
  /\ Batch(batch, DueNotifications)
  /\ Claim(w, batch)
  /\ tickets' = tickets \union {TicketOf(w, m) : m \in batch}
  /\ phase' = [phase EXCEPT ![w] = "SENDING"]
  /\ UNCHANGED <<maxAttempts, due, lock, lockLost, sending, sends, reopened>>

-------------------------------------------------------------------------------
(* Sending                                                                   *)

Dispatch(t) ==
  /\ sending' = sending \union {t}
  /\ sends' = [sends EXCEPT ![t.message] = @ + 1]

\* sendNotification of a ticket whose claim stands.
SendClaimed(t) ==
  /\ t \in tickets
  /\ status[t.message] = "PROCESSING" /\ owner[t.message] = t.worker
  /\ tickets' = tickets \ {t}
  /\ Dispatch(t)
  /\ UNCHANGED <<rowVars, jobVars, reopened>>

Waiting(m) == m \in due /\ status[m] \in {"PENDING", "RETRYING"}

\* The notification was put back meanwhile: it is claimed again ...
ReclaimAndSend(t) ==
  /\ t \in tickets
  /\ Waiting(t.message)
  /\ attemptCount[t.message] < maxAttempts[t.message]
  /\ tickets' = tickets \ {t}
  /\ Claim(t.worker, {t.message})
  /\ Dispatch(TicketOf(t.worker, t.message))
  /\ UNCHANGED <<maxAttempts, due, jobVars, reopened>>

\* ... or has no attempt left.
FailExhausted(t) ==
  /\ t \in tickets
  /\ Waiting(t.message)
  /\ attemptCount[t.message] >= maxAttempts[t.message]
  /\ tickets' = tickets \ {t}
  /\ status' = [status EXCEPT ![t.message] = "FAILED"]
  /\ owner' = [owner EXCEPT ![t.message] = Null]
  /\ UNCHANGED <<attemptCount, maxAttempts, due, silent, jobVars, sending, sends, reopened>>

\* Somebody else works on it, it is over or not due, or the transaction fails.
SkipTicket(t) ==
  /\ t \in tickets
  /\ tickets' = tickets \ {t}
  /\ UNCHANGED <<rowVars, jobVars, sending, sends, reopened>>

\* markSent: only a PROCESSING notification is marked, whoever claimed it last.
MarkSent(t) ==
  /\ t \in sending
  /\ sending' = sending \ {t}
  /\ IF status[t.message] = "PROCESSING"
       THEN /\ status' = [status EXCEPT ![t.message] = "SENT"]
            /\ owner' = [owner EXCEPT ![t.message] = Null]
       ELSE UNCHANGED <<status, owner>>
  /\ UNCHANGED <<attemptCount, maxAttempts, due, silent, jobVars, tickets, sends, reopened>>

\* The provider refuses: another attempt after a delay, or none.
RetryLater(t) ==
  /\ attemptCount[t.message] < maxAttempts[t.message]
  /\ status' = [status EXCEPT ![t.message] = "RETRYING"]
  /\ due' = due \ {t.message}

GiveUp(t) ==
  /\ status' = [status EXCEPT ![t.message] = "FAILED"]
  /\ UNCHANGED due

\* markFailed, of a failure that may be worth another attempt or not.
MarkFailed(t) ==
  /\ t \in sending
  /\ sending' = sending \ {t}
  /\ IF status[t.message] = "PROCESSING"
       THEN /\ RetryLater(t) \/ GiveUp(t)
            /\ owner' = [owner EXCEPT ![t.message] = Null]
       ELSE UNCHANGED <<status, owner, due>>
  /\ UNCHANGED <<attemptCount, maxAttempts, silent, jobVars, tickets, sends, reopened>>

\* The answer is not stored: the transaction of markSent or markFailed fails.
LoseAnswer(t) ==
  /\ t \in sending
  /\ sending' = sending \ {t}
  /\ UNCHANGED <<rowVars, jobVars, tickets, sends, reopened>>

-------------------------------------------------------------------------------
(* Retry by hand                                                             *)

\* retryNotification, for an administrator or, past the limit, a super admin.
RetryNotification(m) ==
  /\ status[m] \notin {"NONE", "SENT"}
  /\ \/ attemptCount[m] < maxAttempts[m] /\ UNCHANGED maxAttempts
     \/ /\ attemptCount[m] < AttemptCap
        /\ maxAttempts' = [maxAttempts EXCEPT ![m] = attemptCount[m] + 1]
  /\ status' = [status EXCEPT ![m] = "RETRYING"]
  /\ due' = due \union {m}
  /\ reopened' = IF status[m] = "PROCESSING" THEN reopened \union {m} ELSE reopened
  /\ UNCHANGED <<attemptCount, owner, silent, jobVars, tickets, sending, sends>>

-------------------------------------------------------------------------------
SendStep(t) ==
  \/ SendClaimed(t) \/ ReclaimAndSend(t) \/ FailExhausted(t) \/ SkipTicket(t)
  \/ MarkSent(t) \/ MarkFailed(t) \/ LoseAnswer(t)

WorkerStep(w) ==
  \/ StartJob(w) \/ EndJob(w) \/ FailJob(w) \/ LoseLock(w) \/ Crash(w)
  \/ \E batch \in SUBSET Messages : RecoverStale(w, batch) \/ ClaimDue(w, batch)

MessageStep(m) ==
  QueueNotification(m) \/ ComeDue(m) \/ FallSilent(m) \/ RetryNotification(m)

Next ==
  \/ \E w \in Workers : WorkerStep(w)
  \/ \E t \in tickets \union sending : SendStep(t)
  \/ \E m \in Messages : MessageStep(m)

Spec == Init /\ [][Next]_vars

\* Time passes, cron starts the job each minute, providers answer, and neither
\* crashes nor failures keep a notification from every recovery or claim.
JobFairness ==
  /\ \A m \in Messages :
       /\ WF_vars(ComeDue(m)) /\ WF_vars(FallSilent(m))
       /\ SF_vars(\E w \in Workers, batch \in SUBSET Messages :
                    m \in batch /\ RecoverStale(w, batch))
       /\ SF_vars(\E w \in Workers, batch \in SUBSET Messages :
                    m \in batch /\ ClaimDue(w, batch))
  /\ \A w \in Workers :
       /\ SF_vars(StartJob(w)) /\ WF_vars(EndJob(w))
       /\ SF_vars(\E batch \in SUBSET Messages : RecoverStale(w, batch))
       /\ SF_vars(\E batch \in SUBSET Messages : ClaimDue(w, batch))
       /\ WF_vars(\E t \in tickets : t.worker = w /\ SendStep(t))
       /\ WF_vars(\E t \in sending : t.worker = w /\ SendStep(t))

FairSpec == Spec /\ JobFairness

-------------------------------------------------------------------------------
(* Properties                                                                *)

\* Every call to a provider is counted before it is made, and no notification is
\* tried more often than its row allows, whoever recovers, retries or loses the
\* lock meanwhile (notification.repository.js:62, notification.service.js:97).
SendsAreCounted ==
  \A m \in Messages :
    /\ sends[m] <= attemptCount[m]
    /\ attemptCount[m] <= maxAttempts[m]

InHand(m) == {t \in tickets \union sending : t.message = m}

\* Two workers have a notification in hand only if it was taken from the first,
\* as silent or by an administrator, even without the lock of the job.
OneSenderUnlessReopened ==
  \A m \in Messages \ reopened : \A t, u \in InHand(m) : t = u

\* A notification that was sent stays sent: a slower worker's failure, a
\* recovery or a retry by hand does not put it back (notification.service.js:139).
SentIsFinal ==
  [][\A m \in Messages : status[m] = "SENT" => status'[m] = "SENT"]_vars

Running == {w \in Workers : phase[w] # "IDLE"}

\* Two workers run the job at once only if one of them lost its lock.
OneRunner == \A v, w \in Running \ lockLost : v = w

\* recoverStaleProcessing leaves this behind when the last attempt was silent.
Exhausted(m) == status[m] = "RETRYING" /\ attemptCount[m] >= maxAttempts[m]

\* A queued notification is sent or fails in the end, or is left where no job
\* looks for it: RETRYING with no attempt left.
NotificationsSettle ==
  \A m \in Messages :
    status[m] = "PENDING" ~> status[m] \in {"SENT", "FAILED"} \/ Exhausted(m)
===============================================================================
