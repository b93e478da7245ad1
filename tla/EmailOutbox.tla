----------------------------- MODULE EmailOutbox -----------------------------
(***************************************************************************)
(* The e-mail outbox: rows queued by the rest of the portal, workers that  *)
(* claim, send and settle them (the drain run after an enqueue, the five-  *)
(* minute job, and requests that send one row at once), and the delivery   *)
(* events SES sends back.                                                  *)
(*                                                                         *)
(* A row is claimed by a conditional update and settled by an unconditional*)
(* one.  In between a worker may crash, the answer of SES may be lost, a   *)
(* call of the database may fail, or more than ten minutes may pass, after *)
(* which another worker takes the row for abandoned.  A drain looks at the *)
(* row once more after settling it; an error there counts as an error of   *)
(* the delivery and takes the settled row back.                            *)
(***************************************************************************)
EXTENDS Naturals, FiniteSets

CONSTANTS
    Rows,           \* rows that may be queued
    Reminders,      \* pickup reminders, which a rescheduling cancels
    Address,        \* the address each row goes to
    OptOut,         \* rows whose recipient may opt out (not transactional)
    Workers,
    MaxAttempts,    \* EMAIL_MAX_ATTEMPTS
    MaxFaults       \* bound: crashes, and claims that outlive ten minutes;
                    \* failing calls are bounded by MaxAttempts

ASSUME OutboxAssumption ==
    /\ Reminders \subseteq Rows /\ OptOut \subseteq Rows
    /\ "none" \notin Rows           \* stands for no row in Idle
    /\ IsFiniteSet(Rows) /\ IsFiniteSet(Workers)
    /\ MaxAttempts \in Nat \ {0} /\ MaxFaults \in Nat

VARIABLES
    row,            \* the EmailOutbox documents
    worker,         \* what each worker is doing
    copies,         \* messages SES has accepted for a row
    suppressed,     \* addresses with an EmailSuppression document
    excuses,        \* history: events after which a row may be sent again
    slow,           \* history: rows reclaimed from a worker still at work
    doubted,        \* history: settled rows whose worker was told of a failure
    crashes

vars == <<row, worker, copies, suppressed, excuses, slow, doubted, crashes>>
-----------------------------------------------------------------------------
NoRow == [status |-> "NONE", attempts |-> 0, due |-> FALSE, stuck |-> FALSE,
          messageId |-> 0]
Idle == [pc |-> "idle", drain |-> FALSE, row |-> "none", outcome |-> "none",
         attempts |-> 0, messageId |-> 0]

Open == {"PENDING", "SENDING"}
Status(m) == row[m].status
At(w, pc) == worker[w].pc = pc
Of(w) == worker[w].row
WorkingOn(m) == {w \in Workers : Of(w) = m}
Accepted(w) == worker[w].messageId # 0
Faults == crashes + Cardinality(slow)

Init ==
    /\ row = [m \in Rows |-> NoRow]
    /\ worker = [w \in Workers |-> Idle]
    /\ copies = [m \in Rows |-> 0]
    /\ suppressed = {}
    /\ excuses = [m \in Rows |-> 0]
    /\ slow = {} /\ doubted = {} /\ crashes = 0
-----------------------------------------------------------------------------
(* The rest of the portal.                                                 *)

\* enqueueEmails: repeating it finds the row by its idempotency key.
Enqueue(m) ==
    /\ Status(m) = "NONE"
    /\ row' = [row EXCEPT ![m].status = "PENDING", ![m].due = TRUE]
    /\ UNCHANGED <<worker, copies, suppressed, excuses, slow, doubted, crashes>>

\* Rescheduling a pickup cancels its queued reminders.
CancelReminder(m) ==
    /\ m \in Reminders /\ Status(m) = "PENDING"
    /\ row' = [row EXCEPT ![m].status = "CANCELLED"]
    /\ UNCHANGED <<worker, copies, suppressed, excuses, slow, doubted, crashes>>

(* Time: the backoff of a retry passes, and ten minutes pass on a claim.   *)
BecomeDue(m) ==
    /\ Status(m) = "PENDING" /\ ~row[m].due
    /\ row' = [row EXCEPT ![m].due = TRUE]
    /\ UNCHANGED <<worker, copies, suppressed, excuses, slow, doubted, crashes>>

TenMinutesPass(m) ==
    /\ Status(m) = "SENDING" /\ ~row[m].stuck
    /\ row' = [row EXCEPT ![m].stuck = TRUE]
    /\ \/ WorkingOn(m) = {} /\ UNCHANGED <<excuses, slow>>
       \/ /\ WorkingOn(m) # {} /\ m \notin slow
          /\ Faults < MaxFaults
          /\ excuses' = [excuses EXCEPT ![m] = @ + 1]
          /\ slow' = slow \cup {m}
    /\ UNCHANGED <<worker, copies, suppressed, doubted, crashes>>
-----------------------------------------------------------------------------
(* The workers.                                                            *)

Reclaimable_none(m) == FALSE
Reclaimable_fresh(m) == Status(m) = "SENDING"
Reclaimable(m) == Status(m) = "SENDING" /\ row[m].stuck

\* A drain begins by returning abandoned rows to the queue.
StartDrain(w) ==
    /\ At(w, "idle")
    /\ \E m \in Rows : Status(m) \in Open
    /\ row' = [m \in Rows |->
                  IF Reclaimable(m)
                  THEN [row[m] EXCEPT !.status = "PENDING", !.stuck = FALSE]
                  ELSE row[m]]
    /\ worker' = [worker EXCEPT ![w].pc = "drain"]
    /\ UNCHANGED <<copies, suppressed, excuses, slow, doubted, crashes>>

Claim(w, m, drain) ==
    /\ row' = [row EXCEPT ![m].status = "SENDING",
                          ![m].stuck = FALSE,
                          ![m].attempts = @ + 1]
    /\ worker' = [worker EXCEPT ![w] = [Idle EXCEPT !.pc = "check", !.drain = drain,
                                           !.row = m, !.attempts = row[m].attempts + 1]]
    /\ UNCHANGED <<copies, suppressed, excuses, slow, doubted, crashes>>

Claimable_unsent(m) == Status(m) \in Open /\ row[m].due
Claimable(m) == Status(m) = "PENDING" /\ row[m].due

\* claimNextRow.  Which of the due rows comes first is left open.
ClaimNextRow(w) ==
    /\ At(w, "drain") \/ At(w, "more")
    /\ \E m \in Rows : Claimable(m) /\ Claim(w, m, TRUE)

\* Nothing is left, or the batch is full; a batch has room for one row.
StopDrain(w) ==
    /\ \/ At(w, "drain") /\ ~\E m \in Rows : Claimable(m)
       \/ At(w, "more")
    /\ worker' = [worker EXCEPT ![w] = Idle]
    /\ UNCHANGED <<row, copies, suppressed, excuses, slow, doubted, crashes>>

Flushable_any(m) == Status(m) # "NONE"
Flushable(m) == Status(m) = "PENDING"

\* flushOutboxRow: a request sends its own row at once, due or not.
FlushOutboxRow(w, m) ==
    /\ At(w, "idle") /\ Flushable(m)
    /\ Claim(w, m, FALSE)

Proceed(w, pc, outcome) ==
    worker' = [worker EXCEPT ![w].pc = pc, ![w].outcome = outcome]

\* deliver: what is read here is not read again before the message leaves.
\* A recipient may have turned off the operational e-mails at any time, and
\* the reads may fail.
CheckRecipient(w) ==
    /\ At(w, "check")
    /\ \/ /\ Address[Of(w)] \in suppressed
          /\ Proceed(w, "settle", "SUPPRESSED")
       \/ /\ Address[Of(w)] \notin suppressed
          /\ \/ Proceed(w, "send", "none")
             \/ Of(w) \in OptOut /\ Proceed(w, "settle", "CANCELLED")
       \/ Proceed(w, "fail", "retryable")
    /\ UNCHANGED <<row, copies, suppressed, excuses, slow, doubted, crashes>>

\* The address is not on the safelist of a test environment, or the message
\* cannot be put together.
Unsendable(w) ==
    /\ At(w, "send")
    /\ Proceed(w, "settle", "CANCELLED") \/ Proceed(w, "fail", "retryable")
    /\ UNCHANGED <<row, copies, suppressed, excuses, slow, doubted, crashes>>

\* SES refuses the message for good or for now, ...
SendRefused(w) ==
    /\ At(w, "send")
    /\ \E reason \in {"retryable", "terminal"} : Proceed(w, "fail", reason)
    /\ UNCHANGED <<row, copies, suppressed, excuses, slow, doubted, crashes>>

\* ... accepts it, or accepts it and its answer is lost.
SendAccepted(w) ==
    LET m == Of(w) IN
    /\ At(w, "send")
    /\ copies' = [copies EXCEPT ![m] = @ + 1]
    /\ \/ /\ worker' = [worker EXCEPT ![w].pc = "settle", ![w].outcome = "SENT",
                                      ![w].messageId = copies[m] + 1]
          /\ UNCHANGED excuses
       \/ /\ Proceed(w, "fail", "retryable")
          /\ excuses' = [excuses EXCEPT ![m] = @ + 1]
    /\ UNCHANGED <<row, suppressed, slow, doubted, crashes>>

\* settle: by _id, whatever the row has become.
Settle(w, m, status) ==
    row' = [row EXCEPT ![m] =
        [status |-> status, attempts |-> row[m].attempts,
         due |-> row[m].due /\ status # "PENDING", stuck |-> FALSE,
         messageId |-> IF Accepted(w) THEN worker[w].messageId ELSE row[m].messageId]]

\* A row is done with: a drain goes on to the next one, a request returns.
Leave(w) ==
    worker' = [worker EXCEPT ![w] =
                  IF worker[w].drain THEN [Idle EXCEPT !.pc = "more"] ELSE Idle]

\* A drain reads the row back, to count what was sent.
SettleRow(w) ==
    /\ At(w, "settle")
    /\ Settle(w, Of(w), worker[w].outcome)
    /\ \/ worker[w].drain /\ worker' = [worker EXCEPT ![w].pc = "read"]
       \/ ~worker[w].drain /\ Leave(w)
    /\ UNCHANGED <<copies, suppressed, excuses, slow, doubted, crashes>>

\* An error after deliver has decided ends in the catch clause, which fails
\* the row and knows nothing of a message that has left.
FailAfterAll(w) ==
    /\ worker' = [worker EXCEPT ![w].pc = "fail", ![w].outcome = "retryable",
                                ![w].messageId = 0]
    /\ excuses' = [excuses EXCEPT ![Of(w)] = IF Accepted(w) THEN @ + 1 ELSE @]
    /\ UNCHANGED <<copies, suppressed, slow, crashes>>

\* The settling write fails, or takes effect and is reported as failed.
SettleFails(w) ==
    /\ At(w, "settle")
    /\ FailAfterAll(w)
    /\ \/ UNCHANGED <<row, doubted>>
       \/ /\ Settle(w, Of(w), worker[w].outcome)
          /\ doubted' = doubted \cup {Of(w)}

\* The drain's read of the settled row, in the same try block.
ReadBack(w) ==
    /\ At(w, "read")
    /\ Leave(w)
    /\ UNCHANGED <<row, copies, suppressed, excuses, slow, doubted, crashes>>

ReadBackFails(w) ==
    /\ At(w, "read")
    /\ FailAfterAll(w)
    /\ doubted' = doubted \cup {Of(w)}
    /\ UNCHANGED row

\* failRow: by _id, decided from the attempts of this worker's own claim.
FailRow(w) ==
    /\ At(w, "fail")
    /\ Settle(w, Of(w), IF \/ worker[w].outcome = "terminal"
                           \/ worker[w].attempts >= MaxAttempts
                        THEN "FAILED" ELSE "PENDING")
    /\ Leave(w)
    /\ UNCHANGED <<copies, suppressed, excuses, slow, doubted, crashes>>

\* A worker stops: its process, or a failed write outside of the try block.
Crash(w) ==
    /\ ~At(w, "idle") /\ Faults < MaxFaults
    /\ crashes' = crashes + 1
    /\ excuses' = [m \in Rows |-> IF m = Of(w) /\ Accepted(w) /\ At(w, "settle")
                                  THEN excuses[m] + 1 ELSE excuses[m]]
    /\ worker' = [worker EXCEPT ![w] = Idle]
    /\ UNCHANGED <<row, copies, suppressed, slow, doubted>>
-----------------------------------------------------------------------------
(* handleSesEvent: events about accepted messages, in any order and any    *)
(* number of times.  The row is found by the message id it has recorded;   *)
(* an event that comes before the id is recorded finds none.               *)
SesEvent(m) ==
    /\ copies[m] > 0
    /\ \E id \in 1 .. copies[m], permanent \in BOOLEAN,
          event \in {"BOUNCED", "COMPLAINED", "DELIVERED", "FAILED"} :
          /\ row' = [row EXCEPT ![m].status = IF row[m].messageId = id
                                              THEN event ELSE @]
          /\ suppressed' = suppressed \cup
                (IF \/ event = "COMPLAINED"
                    \/ event = "BOUNCED" /\ permanent
                 THEN {Address[m]} ELSE {})
    /\ UNCHANGED <<worker, copies, excuses, slow, doubted, crashes>>
-----------------------------------------------------------------------------
WorkerStep(w) ==
    \/ StartDrain(w) \/ ClaimNextRow(w) \/ StopDrain(w)
    \/ CheckRecipient(w) \/ Unsendable(w) \/ SendRefused(w) \/ SendAccepted(w)
    \/ SettleRow(w) \/ SettleFails(w) \/ ReadBack(w) \/ ReadBackFails(w)
    \/ FailRow(w)

Next ==
    \/ \E w \in Workers : WorkerStep(w) \/ Crash(w)
                             \/ \E m \in Rows : FlushOutboxRow(w, m)
    \/ \E m \in Rows : \/ Enqueue(m) \/ CancelReminder(m) \/ BecomeDue(m) \/ TenMinutesPass(m) \/ SesEvent(m)

\* The job runs every five minutes and its workers go on; time passes.
\* Nothing is assumed of SES, of requests or of the rest of the portal.
Fairness ==
    /\ \A w \in Workers : WF_vars(WorkerStep(w))
    /\ \A m \in Rows : WF_vars(BecomeDue(m)) /\ WF_vars(TenMinutesPass(m))

Spec == Init /\ [][Next]_vars /\ Fairness
-----------------------------------------------------------------------------
(* Properties.                                                             *)

Settled == {"SENT", "FAILED", "SUPPRESSED", "CANCELLED", "BOUNCED",
            "COMPLAINED", "DELIVERED"}

\* "Whoever flips PENDING to SENDING first owns the row": while a worker is
\* at a row - delivering it, or looking at it once more after settling it -
\* nobody else is and the queue does not offer it to anybody, unless the
\* worker has outlived its ten minutes.
OneOwner ==
    \A m \in Rows \ slow :
        WorkingOn(m) # {} => /\ Status(m) \notin {"NONE", "PENDING"}
                             /\ Cardinality(WorkingOn(m)) = 1

\* A message leaves more often than once only after something that hid from
\* the portal that it had left: a lost answer of SES, a crash before the row
\* was settled, a settling write or the drain's read of a SENT row reported
\* as failed, or a worker taken for dead.  Each of them costs one more copy
\* at most.
CopiesExplained == \A m \in Rows : copies[m] <= 1 + excuses[m]

\* A settled row is taken up again only by the worker that settled it, when
\* its write or its read of the row is reported as failed, or when a worker
\* was taken for dead: what was sent, refused, cancelled or bounced stays so,
\* whatever other workers, requests, retries and the events of SES do.
SettledStays ==
    [][\A m \in Rows : Status(m) \in Settled /\ m \notin slow \cup doubted =>
                            Status(m)' \in Settled]_vars

\* Every queued message is settled in the end: retries are bounded, and a row
\* whose worker crashed is returned to the queue.
EveryMailEnds ==
    \A m \in Rows : Status(m) = "PENDING" ~> Status(m) \in Settled
=============================================================================
