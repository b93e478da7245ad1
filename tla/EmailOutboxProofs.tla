-------------------------- MODULE EmailOutboxProofs --------------------------
(***************************************************************************)
(* Who owns a row of the outbox, and what a second copy of a message       *)
(* costs, for any number of rows, workers, attempts and faults.            *)
(*                                                                         *)
(* The argument is about one row at a time.  A claim moves the right to    *)
(* send from the row to a worker; sending uses it up; settling, a crash or *)
(* ten minutes give it back, and whenever one of these gives back a right  *)
(* that was used, the model records an excuse.  A worker that reads a row  *)
(* back has settled it, and counts as its owner but not as one who will    *)
(* send it, unless the read fails.                                         *)
(***************************************************************************)
EXTENDS EmailOutbox, FiniteSetTheorems, TLAPS

Statuses == Open \cup Settled \cup {"NONE"}
Phases == {"idle", "drain", "more", "check", "send", "settle", "read", "fail"}
Busy == {"check", "send", "settle", "read", "fail"}
Endings == {"SENT", "SUPPRESSED", "CANCELLED"}

RowType == [status : Statuses, attempts : Nat, due : BOOLEAN, stuck : BOOLEAN,
            messageId : Nat]
WorkerType == [pc : Phases, drain : BOOLEAN, row : Rows \cup {"none"},
               outcome : Endings \cup {"none", "retryable", "terminal"},
               attempts : Nat, messageId : Nat]

TypeOK ==
    /\ row \in [Rows -> RowType]
    /\ worker \in [Workers -> WorkerType]
    /\ copies \in [Rows -> Nat] /\ excuses \in [Rows -> Nat]
    /\ slow \subseteq Rows /\ doubted \subseteq Rows /\ crashes \in Nat

\* A worker has a row exactly while it delivers one, and knows the id of a
\* message only from the answer of SES until it is done with the row.
PhaseOf(w) ==
    /\ Of(w) \in Rows <=> worker[w].pc \in Busy
    /\ Accepted(w) => At(w, "settle") \/ At(w, "read")
    /\ At(w, "settle") => worker[w].outcome \in Endings

TypeInv == TypeOK /\ \A w \in Workers : PhaseOf(w)

\* A row nobody was taken for dead on has one owner at most, and is not on
\* offer while it has one.  Unless its owner was told of a failure that was
\* none, it is SENDING until it is settled, and has recorded a message only
\* once it is.
Undoubted(m) ==
    /\ row[m].messageId # 0 => Status(m) \in Settled
    /\ \A w \in WorkingOn(m) : ~At(w, "read") => Status(m) = "SENDING"

Owned(m) ==
    /\ WorkingOn(m) # {} => Status(m) \notin {"NONE", "PENDING"} /\ ~row[m].stuck
    /\ \A v, w \in WorkingOn(m) : v = w
    /\ \A w \in WorkingOn(m) : At(w, "read") => Status(m) \in Settled
    /\ m \notin doubted => Undoubted(m)

OwnedInv == \A m \in Rows \ slow : Owned(m)

\* The right to send a message: it lies in the queue, where a claim or a
\* reclaim finds it, or with the workers that have not used it yet.
Delivering(m) == {w \in WorkingOn(m) : ~At(w, "read")}
InQueue(m) ==
    \/ Status(m) \in {"NONE", "PENDING"}
    \/ Status(m) = "SENDING" /\ (row[m].stuck \/ Delivering(m) = {})
Queued(m) == IF InQueue(m) THEN 1 ELSE 0
Carrying(m) == {w \in WorkingOn(m) : ~Accepted(w)}

Accounted(m) ==
    copies[m] + Queued(m) + Cardinality(Carrying(m)) <= 1 + excuses[m]

OutboxInv == TypeInv /\ OwnedInv /\ \A m \in Rows : Accounted(m)
-----------------------------------------------------------------------------
LEMMA TypeInit == Init => TypeInv
BY OutboxAssumption DEF Init, TypeInv, TypeOK, PhaseOf, RowType, WorkerType,
   Statuses, Phases, Busy, Endings, Open, NoRow, Idle, At, Of, Accepted

LEMMA TypeClaim ==
    ASSUME TypeInv, NEW w \in Workers, NEW m \in Rows, NEW drain \in BOOLEAN,
           Claim(w, m, drain)
    PROVE  TypeInv'
<1>1. row' \in [Rows -> RowType]
  BY DEF TypeInv, TypeOK, Claim, RowType, Statuses, Open
<1>2. worker' \in [Workers -> WorkerType]
  BY DEF TypeInv, TypeOK, Claim, RowType, WorkerType, Idle, Phases
<1>3. ASSUME NEW v \in Workers PROVE PhaseOf(v)'
  BY OutboxAssumption DEF TypeInv, TypeOK, Claim, WorkerType, Idle, Busy,
     PhaseOf, At, Of, Accepted
<1> QED BY <1>1, <1>2, <1>3 DEF TypeInv, TypeOK, Claim

LEMMA TypeSettle ==
    ASSUME TypeInv, NEW w \in Workers, NEW status \in Settled \cup {"PENDING"},
           Of(w) \in Rows, Settle(w, Of(w), status)
    PROVE  row' \in [Rows -> RowType]
<1> DEFINE due == row[Of(w)].due /\ status # "PENDING"
           id == IF Accepted(w) THEN worker[w].messageId
                                ELSE row[Of(w)].messageId
<1>1. due \in BOOLEAN
  OBVIOUS
<1>2. id \in Nat
  BY DEF TypeInv, TypeOK, WorkerType, RowType
<1>3. row' = [row EXCEPT ![Of(w)] =
                 [status |-> status, attempts |-> row[Of(w)].attempts,
                  due |-> due, stuck |-> FALSE, messageId |-> id]]
  BY DEF Settle
<1> HIDE DEF due, id
<1> QED BY <1>1, <1>2, <1>3 DEF TypeInv, TypeOK, RowType, Statuses, Open

LEMMA IdleIsTyped == Idle \in WorkerType /\ Idle.row = "none" /\ Idle.messageId = 0
BY DEF Idle, WorkerType, Phases

\* A worker that leaves a row has none.
LEMMA TypeLeave ==
    ASSUME TypeInv, NEW w \in Workers, Leave(w)
    PROVE  /\ worker' \in [Workers -> WorkerType]
           /\ \A v \in Workers : PhaseOf(v)'
           /\ \A v \in Workers \ {w} : worker'[v] = worker[v]
           /\ Of(w)' \notin Rows /\ ~At(w, "read")'
<1>1. PICK next : /\ worker' = [worker EXCEPT ![w] = next]
                  /\ next \in {[Idle EXCEPT !.pc = "more"], Idle}
  BY DEF Leave
<1>2. /\ next \in WorkerType
      /\ next.row = "none" /\ next.messageId = 0
      /\ next.pc \in {"more", "idle"}
  <2>1. CASE next = Idle
    BY <2>1, IdleIsTyped DEF Idle
  <2>2. CASE next = [Idle EXCEPT !.pc = "more"]
    BY <2>2, IdleIsTyped DEF WorkerType, Phases
  <2> QED BY <1>1, <2>1, <2>2
<1>3. worker'[w] = next /\ \A v \in Workers \ {w} : worker'[v] = worker[v]
  BY <1>1 DEF TypeInv, TypeOK
<1>4. PhaseOf(w)'
  BY <1>2, <1>3, OutboxAssumption DEF PhaseOf, Busy, At, Of, Accepted
<1>5. ASSUME NEW v \in Workers PROVE PhaseOf(v)'
  BY <1>3, <1>4 DEF TypeInv, PhaseOf, At, Of, Accepted
<1> QED BY <1>1, <1>2, <1>3, <1>5, OutboxAssumption DEF TypeInv, TypeOK, Of, At

\* A worker that is given a phase, an outcome and an id.
Moves(w, pc, outcome, id) ==
    worker' = [worker EXCEPT ![w].pc = pc, ![w].outcome = outcome,
                             ![w].messageId = id]

LEMMA WorkerMoves ==
    ASSUME worker \in [Workers -> WorkerType], NEW w \in Workers, NEW pc \in Phases,
           NEW outcome \in Endings \cup {"none", "retryable", "terminal"},
           NEW id \in Nat, Moves(w, pc, outcome, id)
    PROVE  /\ worker' \in [Workers -> WorkerType]
           /\ \A v \in Workers \ {w} : worker'[v] = worker[v]
           /\ worker'[w].row = worker[w].row /\ worker'[w].pc = pc
           /\ worker'[w].outcome = outcome /\ worker'[w].messageId = id
<1> DEFINE a == [worker[w] EXCEPT !.pc = pc]
           b == [a EXCEPT !.outcome = outcome]
           c == [b EXCEPT !.messageId = id]
<1>0. worker[w] \in WorkerType
  OBVIOUS
<1>1. /\ a \in WorkerType /\ a.row = worker[w].row /\ a.pc = pc
  BY <1>0 DEF WorkerType
<1>4. worker' = [worker EXCEPT ![w] = c]
  BY <1>0 DEF Moves
<1> HIDE DEF a
<1>2. /\ b \in WorkerType /\ b.row = worker[w].row /\ b.pc = pc
      /\ b.outcome = outcome
  BY <1>1 DEF WorkerType
<1> HIDE DEF b
<1>3. /\ c \in WorkerType /\ c.row = worker[w].row /\ c.pc = pc
      /\ c.outcome = outcome /\ c.messageId = id
  BY <1>2 DEF WorkerType
<1> HIDE DEF c
<1> QED BY <1>3, <1>4

\* A worker that is told of a failure fails its row.
LEMMA TypeFailAfterAll ==
    ASSUME TypeInv, NEW w \in Workers, At(w, "settle") \/ At(w, "read"),
           FailAfterAll(w)
    PROVE  /\ worker' \in [Workers -> WorkerType]
           /\ \A v \in Workers : PhaseOf(v)' /\ Of(v)' = Of(v)
           /\ \A v \in Workers \ {w} : worker'[v] = worker[v]
           /\ Of(w) \in Rows /\ At(w, "fail")' /\ ~Accepted(w)'
           /\ excuses' \in [Rows -> Nat]
<1>0. Of(w) \in Rows
  BY DEF TypeInv, PhaseOf, At, Busy
<1>1. Moves(w, "fail", "retryable", 0)
  BY DEF FailAfterAll, Moves
<1>2. /\ worker' \in [Workers -> WorkerType]
      /\ \A v \in Workers \ {w} : worker'[v] = worker[v]
      /\ Of(w)' = Of(w) /\ At(w, "fail")' /\ ~Accepted(w)'
  BY <1>1, WorkerMoves DEF TypeInv, TypeOK, Phases, Of, At, Accepted
<1>3. ASSUME NEW v \in Workers PROVE PhaseOf(v)' /\ Of(v)' = Of(v)
  BY <1>0, <1>2 DEF TypeInv, PhaseOf, Busy, At, Of, Accepted
<1>4. excuses' \in [Rows -> Nat]
  BY <1>0 DEF FailAfterAll, TypeInv, TypeOK
<1> QED BY <1>0, <1>2, <1>3, <1>4

\* The workers' steps keep the documents' and the workers' shape.
LEMMA TypeWorker ==
    ASSUME TypeInv, NEW w \in Workers, WorkerStep(w)
    PROVE  TypeInv'
<1>2. CASE ClaimNextRow(w)
  BY <1>2, TypeClaim DEF ClaimNextRow, Claim
<1>7. CASE SettleRow(w)
  <2>1. Of(w) \in Rows /\ worker[w].outcome \in Settled /\ At(w, "settle")
    BY <1>7 DEF SettleRow, TypeInv, PhaseOf, At, Busy, Endings, Settled
  <2>2. row' \in [Rows -> RowType]
    BY <1>7, <2>1, TypeSettle DEF SettleRow
  <2>3. CASE Leave(w)
    BY <1>7, <2>2, <2>3, TypeLeave DEF SettleRow, TypeInv, TypeOK
  <2>4. CASE worker' = [worker EXCEPT ![w].pc = "read"]
    <3>1. worker' \in [Workers -> WorkerType]
      BY <2>4 DEF TypeInv, TypeOK, WorkerType, Phases
    <3>2. ASSUME NEW v \in Workers PROVE PhaseOf(v)'
      BY <2>1, <2>4 DEF TypeInv, TypeOK, WorkerType, PhaseOf, Busy, At, Of, Accepted
    <3> QED BY <1>7, <2>2, <3>1, <3>2 DEF SettleRow, TypeInv, TypeOK
  <2> QED BY <1>7, <2>3, <2>4 DEF SettleRow
<1>8. CASE SettleFails(w)
  <2>1. /\ worker' \in [Workers -> WorkerType] /\ Of(w) \in Rows
        /\ \A v \in Workers : PhaseOf(v)' /\ excuses' \in [Rows -> Nat]
    BY <1>8, TypeFailAfterAll DEF SettleFails
  <2>2. worker[w].outcome \in Settled
    BY <1>8 DEF SettleFails, TypeInv, PhaseOf, At, Endings, Settled
  <2>3. row' \in [Rows -> RowType] /\ doubted' \subseteq Rows
    BY <1>8, <2>1, <2>2, TypeSettle DEF SettleFails, TypeInv, TypeOK
  <2> QED BY <1>8, <2>1, <2>3 DEF SettleFails, FailAfterAll, TypeInv, TypeOK
<1>9. CASE FailRow(w)
  <2>1. Of(w) \in Rows
    BY <1>9 DEF FailRow, TypeInv, PhaseOf, At, Busy
  <2> DEFINE status == IF worker[w].outcome = "terminal" \/ worker[w].attempts >= MaxAttempts
                       THEN "FAILED" ELSE "PENDING"
  <2>2. status \in Settled \cup {"PENDING"}
    BY DEF Settled
  <2>3. /\ Settle(w, Of(w), status) /\ Leave(w)
        /\ UNCHANGED <<copies, excuses, slow, doubted, crashes>>
    BY <1>9 DEF FailRow
  <2> HIDE DEF status
  <2> QED BY <2>1, <2>2, <2>3, TypeSettle, TypeLeave DEF TypeInv, TypeOK
<1>10. CASE ReadBack(w)
  BY <1>10, TypeLeave DEF ReadBack, TypeInv, TypeOK
<1>11. CASE ReadBackFails(w)
  <2>1. /\ worker' \in [Workers -> WorkerType] /\ Of(w) \in Rows
        /\ \A v \in Workers : PhaseOf(v)' /\ excuses' \in [Rows -> Nat]
    BY <1>11, TypeFailAfterAll DEF ReadBackFails
  <2> QED BY <1>11, <2>1 DEF ReadBackFails, FailAfterAll, TypeInv, TypeOK
<1> USE OutboxAssumption DEF TypeInv, TypeOK, PhaseOf, At, Of, Accepted
<1>1. CASE StartDrain(w)
  <2>1. row' \in [Rows -> RowType]
    BY <1>1 DEF StartDrain, RowType, Statuses, Open
  <2>2. worker' = [worker EXCEPT ![w].pc = "drain"] /\ worker[w].pc = "idle"
    BY <1>1 DEF StartDrain
  <2>3. worker' \in [Workers -> WorkerType]
    BY <2>2 DEF WorkerType, Phases
  <2>4. ASSUME NEW v \in Workers PROVE PhaseOf(v)'
    BY <2>2 DEF WorkerType, Busy
  <2>5. UNCHANGED <<copies, suppressed, excuses, slow, doubted, crashes>>
    BY <1>1 DEF StartDrain
  <2> QED BY <2>1, <2>3, <2>4, <2>5
<1>3. CASE StopDrain(w)
  BY <1>3 DEF StopDrain, Idle, WorkerType, Phases, Busy
<1>4. CASE CheckRecipient(w)
  BY <1>4 DEF CheckRecipient, Proceed, WorkerType, Phases, Busy, Endings
<1>5. CASE Unsendable(w) \/ SendRefused(w)
  BY <1>5 DEF Unsendable, SendRefused, Proceed, WorkerType, Phases, Busy, Endings
<1>6. CASE SendAccepted(w)
  <2>0. At(w, "send") /\ Of(w) \in Rows
    BY <1>6 DEF SendAccepted, Busy
  <2>1. copies' \in [Rows -> Nat] /\ excuses' \in [Rows -> Nat]
    <3>1. copies' = [copies EXCEPT ![Of(w)] = copies[Of(w)] + 1]
      BY <1>6 DEF SendAccepted
    <3>2. \/ excuses' = excuses
          \/ excuses' = [excuses EXCEPT ![Of(w)] = excuses[Of(w)] + 1]
      BY <1>6 DEF SendAccepted
    <3> QED BY <2>0, <3>1, <3>2
  <2>2. PICK pc \in {"settle", "fail"}, outcome \in {"SENT", "retryable"},
             id \in Nat :
          /\ Moves(w, pc, outcome, id)
          /\ pc = "settle" => outcome = "SENT"
          /\ pc = "fail" => id = 0
    <3>1. CASE worker' = [worker EXCEPT ![w].pc = "settle", ![w].outcome = "SENT",
                                        ![w].messageId = copies[Of(w)] + 1]
      <4>1. copies[Of(w)] + 1 \in Nat
        BY <2>0
      <4>2. Moves(w, "settle", "SENT", copies[Of(w)] + 1)
        BY <3>1 DEF Moves
      <4> QED BY <4>1, <4>2
    <3>2. CASE Proceed(w, "fail", "retryable")
      <4>1. worker[w].messageId = 0
        BY <2>0
      <4>2. Moves(w, "fail", "retryable", 0)
        BY <3>2, <4>1 DEF Proceed, WorkerType, Moves
      <4> QED BY <4>2
    <3> QED BY <1>6, <3>1, <3>2 DEF SendAccepted
  <2>3. /\ worker' \in [Workers -> WorkerType]
        /\ \A v \in Workers \ {w} : worker'[v] = worker[v]
        /\ Of(w)' = Of(w) /\ worker'[w].pc = pc /\ worker'[w].outcome = outcome
        /\ worker'[w].messageId = id
    BY <2>2, WorkerMoves DEF Phases, Endings
  <2>6. ASSUME NEW v \in Workers PROVE PhaseOf(v)'
    BY <2>0, <2>2, <2>3 DEF Busy, Endings
  <2> QED BY <1>6, <2>1, <2>3, <2>6 DEF SendAccepted
<1> QED BY <1>1, <1>2, <1>3, <1>4, <1>5, <1>6, <1>7, <1>8, <1>9, <1>10, <1>11
        DEF WorkerStep

LEMMA TypeNext == TypeInv /\ [Next]_vars => TypeInv'
<1> SUFFICES ASSUME TypeInv, [Next]_vars PROVE TypeInv'
  OBVIOUS
<1>1. ASSUME NEW w \in Workers, WorkerStep(w) PROVE TypeInv'
  BY <1>1, TypeWorker
<1>2. ASSUME NEW w \in Workers, Crash(w) PROVE TypeInv'
  <2>1. excuses' \in [Rows -> Nat]
    BY <1>2 DEF Crash, TypeInv, TypeOK
  <2>2. worker' \in [Workers -> WorkerType]
    BY <1>2 DEF Crash, TypeInv, TypeOK, Idle, WorkerType, Phases
  <2>3. ASSUME NEW v \in Workers PROVE PhaseOf(v)'
    BY <1>2, OutboxAssumption DEF Crash, TypeInv, TypeOK, PhaseOf, Idle,
       WorkerType, Busy, At, Of, Accepted
  <2> QED BY <1>2, <2>1, <2>2, <2>3 DEF Crash, TypeInv, TypeOK
<1>3. ASSUME NEW w \in Workers, NEW m \in Rows, FlushOutboxRow(w, m)
      PROVE  TypeInv'
  BY <1>3, TypeClaim DEF FlushOutboxRow
<1>4. ASSUME NEW m \in Rows, \/ Enqueue(m) \/ CancelReminder(m)
                             \/ BecomeDue(m) \/ TenMinutesPass(m) \/ SesEvent(m)
      PROVE  TypeInv'
  <2>1. row' \in [Rows -> RowType]
    <3> USE DEF TypeInv, TypeOK, RowType, Statuses
    <3>1. CASE Enqueue(m) \/ CancelReminder(m)
      BY <3>1 DEF Enqueue, CancelReminder, Open, Settled
    <3>2. CASE BecomeDue(m)
      BY <3>2 DEF BecomeDue
    <3>4. CASE TenMinutesPass(m)
      <4>1. row' = [row EXCEPT ![m].stuck = TRUE]
        BY <3>4 DEF TenMinutesPass
      <4> QED BY <4>1
    <3>3. CASE SesEvent(m)
      BY <3>3 DEF SesEvent, Settled
    <3> QED BY <1>4, <3>1, <3>2, <3>3, <3>4
  <2>2. excuses' \in [Rows -> Nat] /\ slow' \subseteq Rows
    BY <1>4 DEF TypeInv, TypeOK, Enqueue, CancelReminder, BecomeDue,
       TenMinutesPass, SesEvent
  <2>3. UNCHANGED <<worker, copies, doubted, crashes>>
    BY <1>4 DEF Enqueue, CancelReminder, BecomeDue, TenMinutesPass, SesEvent
  <2> QED BY <2>1, <2>2, <2>3 DEF TypeInv, TypeOK, PhaseOf, At, Of, Accepted
<1>5. CASE UNCHANGED vars
  BY <1>5 DEF vars, TypeInv, TypeOK, PhaseOf, At, Of, Accepted
<1> QED BY <1>1, <1>2, <1>3, <1>4, <1>5 DEF Next
-----------------------------------------------------------------------------
(* One owner.                                                              *)

\* These steps leave the documents alone, and every worker with its row.
Deliberates(w) ==
    \/ StopDrain(w) \/ CheckRecipient(w) \/ Unsendable(w)
    \/ SendRefused(w) \/ SendAccepted(w)

LEMMA DeliberationKeepsRows ==
    ASSUME TypeInv, NEW w \in Workers, Deliberates(w)
    PROVE  /\ row' = row /\ slow' = slow /\ doubted' = doubted
           /\ \A v \in Workers : Of(v)' = Of(v)
           /\ \A v \in Workers \ {w} : worker'[v] = worker[v]
           /\ ~At(w, "read") /\ ~At(w, "read")'
<1>1. CASE StopDrain(w)
  <2>1. Of(w) = "none"
    BY <1>1, OutboxAssumption DEF StopDrain, TypeInv, TypeOK, PhaseOf, At, Of,
       WorkerType, Busy
  <2> QED BY <1>1, <2>1 DEF StopDrain, TypeInv, TypeOK, Idle, Of, At
<1>2. CASE ~StopDrain(w)
  BY <1>2 DEF Deliberates, CheckRecipient, Unsendable, SendRefused,
     SendAccepted, Proceed, TypeInv, TypeOK, WorkerType, Of, At
<1> QED BY <1>1, <1>2

\* A row keeps its owner while it and all who work on it stay as they are.
LEMMA OwnedUntouched ==
    ASSUME NEW n \in Rows, Owned(n), row'[n] = row[n],
           WorkingOn(n)' \subseteq WorkingOn(n), doubted \subseteq doubted',
           \A v \in WorkingOn(n)' : At(v, "read")' = At(v, "read")
    PROVE  Owned(n)'
BY DEF Owned, Undoubted, Status

\* A claim is made of a row nobody works on.
LEMMA ClaimOwned ==
    ASSUME TypeInv, NEW w \in Workers, NEW m \in Rows, NEW n \in Rows \ slow,
           NEW drain \in BOOLEAN, Status(m) = "PENDING", Claim(w, m, drain),
           Owned(n), Of(w) \notin Rows
    PROVE  Owned(n)'
<1>1. /\ \A v \in Workers \ {w} : worker'[v] = worker[v]
      /\ Of(w)' = m /\ ~At(w, "read")' /\ doubted' = doubted
  BY DEF Claim, TypeInv, TypeOK, Idle, Of, At
<1>2. CASE n = m
  <2>1. WorkingOn(n) = {} /\ (n \notin doubted => row[n].messageId = 0)
    BY <1>2 DEF Owned, Undoubted, Settled
  <2>2. WorkingOn(n)' = {w}
    BY <1>1, <1>2, <2>1 DEF WorkingOn, Of
  <2>3. /\ Status(n)' = "SENDING" /\ ~row'[n].stuck
        /\ row'[n].messageId = row[n].messageId
    BY <1>2 DEF Claim, TypeInv, TypeOK, RowType, Status
  <2> QED BY <1>1, <2>1, <2>2, <2>3 DEF Owned, Undoubted
<1>3. CASE n # m
  <2>1. row'[n] = row[n]
    BY <1>3 DEF Claim, TypeInv, TypeOK
  <2>2. /\ WorkingOn(n)' \subseteq WorkingOn(n)
        /\ \A v \in WorkingOn(n)' : At(v, "read")' = At(v, "read")
    BY <1>1, <1>3 DEF WorkingOn, Of, At
  <2> QED BY <1>1, <2>1, <2>2, OwnedUntouched
<1> QED BY <1>2, <1>3

\* Settling a row leaves the others alone, ...
LEMMA SettleOther ==
    ASSUME TypeInv, NEW w \in Workers, NEW n \in Rows, n # Of(w), Owned(n),
           NEW status, Settle(w, Of(w), status),
           \A v \in Workers \ {w} : worker'[v] = worker[v],
           Of(w)' \notin Rows \/ Of(w)' = Of(w), doubted \subseteq doubted'
    PROVE  Owned(n)'
<1>1. row'[n] = row[n]
  BY DEF Settle, TypeInv, TypeOK
<1>2. /\ WorkingOn(n)' \subseteq WorkingOn(n)
      /\ \A v \in WorkingOn(n)' : At(v, "read")' = At(v, "read")
  BY DEF WorkingOn, Of, At
<1> QED BY <1>1, <1>2, OwnedUntouched

\* ... and is done by its owner.
LEMMA SettleOwned ==
    ASSUME TypeInv, NEW w \in Workers, NEW n \in Rows, n = Of(w), Owned(n),
           NEW status \in Settled \cup {"PENDING"}, Settle(w, Of(w), status),
           \A v \in Workers \ {w} : worker'[v] = worker[v],
           Of(w)' \notin Rows \/ Of(w)' = Of(w), ~At(w, "read"),
           status = "PENDING" => ~Accepted(w) /\ Of(w)' \notin Rows,
           doubted \subseteq doubted',
           Of(w)' = Of(w) => At(w, "read")' \/ n \in doubted'
    PROVE  Owned(n)'
<1>1. w \in WorkingOn(n)
  BY DEF WorkingOn
<1>2. /\ WorkingOn(n)' \subseteq {w}
      /\ w \in WorkingOn(n)' => Of(w)' = Of(w)
  BY <1>1 DEF Owned, WorkingOn, Of
<1>3. /\ Status(n)' = status /\ ~row'[n].stuck
      /\ ~Accepted(w) => row'[n].messageId = row[n].messageId
  BY DEF Settle, TypeInv, TypeOK, RowType, Status
<1>4. status \notin {"NONE"}
  BY DEF Settled
<1>5. n \notin doubted => row[n].messageId = 0
  BY <1>1 DEF Owned, Undoubted, Settled
<1>6. n \notin doubted' => Undoubted(n)'
  BY <1>2, <1>3, <1>5 DEF Undoubted
<1>7. w \in WorkingOn(n)' => status \in Settled /\ status # "PENDING"
  BY <1>2 DEF Settled
<1> QED BY <1>2, <1>3, <1>4, <1>6, <1>7 DEF Owned

LEMMA OwnedWorker ==
    ASSUME TypeInv, NEW w \in Workers, WorkerStep(w),
           NEW n \in Rows \ slow, Owned(n)
    PROVE  Owned(n)'
<1>1. CASE StartDrain(w)
  <2>1. /\ \A v \in Workers : Of(v)' = Of(v)
        /\ \A v \in Workers : At(v, "read")' = At(v, "read")
        /\ doubted' = doubted
    BY <1>1 DEF StartDrain, TypeInv, TypeOK, WorkerType, Of, At
  <2>2. WorkingOn(n)' = WorkingOn(n) /\ WorkingOn(n) \subseteq Workers
    BY <2>1 DEF WorkingOn
  <2>3. CASE Reclaimable(n)
    <3>1. WorkingOn(n) = {} /\ (n \notin doubted => row[n].messageId = 0)
      BY <2>3 DEF Reclaimable, Owned, Undoubted, Settled
    <3>2. row'[n].messageId = row[n].messageId
      BY <1>1 DEF StartDrain, TypeInv, TypeOK, RowType
    <3> QED BY <2>1, <2>2, <3>1, <3>2 DEF Owned, Undoubted
  <2>4. CASE ~Reclaimable(n)
    <3>1. row'[n] = row[n]
      BY <1>1, <2>4 DEF StartDrain
    <3> QED BY <2>1, <2>2, <3>1, OwnedUntouched
  <2> QED BY <2>3, <2>4
<1>2. CASE ClaimNextRow(w)
  <2>1. PICK m \in Rows : Claimable(m) /\ Claim(w, m, TRUE)
    BY <1>2 DEF ClaimNextRow
  <2>2. Of(w) \notin Rows
    BY <1>2 DEF ClaimNextRow, TypeInv, PhaseOf, At, Busy
  <2> QED BY <2>1, <2>2, ClaimOwned DEF Claimable
<1>3. CASE Deliberates(w)
  <2>1. WorkingOn(n)' = WorkingOn(n) /\ row' = row /\ doubted' = doubted
    BY <1>3, DeliberationKeepsRows DEF WorkingOn
  <2>2. \A v \in WorkingOn(n) : At(v, "read")' = At(v, "read")
    BY <1>3, DeliberationKeepsRows DEF WorkingOn, At
  <2> QED BY <2>1, <2>2, OwnedUntouched
<1>4. CASE SettleRow(w)
  <2>1. /\ At(w, "settle") /\ Of(w) \in Rows /\ ~At(w, "read")
        /\ worker[w].outcome \in Settled \ {"PENDING"}
    BY <1>4 DEF SettleRow, TypeInv, PhaseOf, At, Busy, Endings, Settled
  <2>2. /\ \A v \in Workers \ {w} : worker'[v] = worker[v]
        /\ \/ Of(w)' \notin Rows
           \/ Of(w)' = Of(w) /\ At(w, "read")'
    <3>1. CASE Leave(w)
      BY <3>1, TypeLeave
    <3>2. CASE worker' = [worker EXCEPT ![w].pc = "read"]
      BY <3>2 DEF TypeInv, TypeOK, WorkerType, Of, At
    <3> QED BY <1>4, <3>1, <3>2 DEF SettleRow
  <2>3. Settle(w, Of(w), worker[w].outcome) /\ doubted' = doubted
    BY <1>4 DEF SettleRow
  <2>4. CASE n = Of(w)
    BY <2>1, <2>2, <2>3, <2>4, SettleOwned
  <2>5. CASE n # Of(w)
    BY <2>1, <2>2, <2>3, <2>5, SettleOther
  <2> QED BY <2>4, <2>5
<1>5. CASE SettleFails(w)
  <2>1. /\ At(w, "settle") /\ ~At(w, "read")
        /\ worker[w].outcome \in Settled \ {"PENDING"}
    BY <1>5 DEF SettleFails, TypeInv, PhaseOf, At, Endings, Settled
  <2>2. /\ \A v \in Workers \ {w} : worker'[v] = worker[v]
        /\ \A v \in Workers : Of(v)' = Of(v)
        /\ Of(w) \in Rows /\ At(w, "fail")'
    BY <1>5, <2>1, TypeFailAfterAll DEF SettleFails
  <2>3. CASE UNCHANGED <<row, doubted>>
    <3>1. WorkingOn(n)' = WorkingOn(n)
      BY <2>2 DEF WorkingOn
    <3>2. \A v \in WorkingOn(n) : At(v, "read")' = At(v, "read")
      BY <2>1, <2>2 DEF WorkingOn, At
    <3> QED BY <2>3, <3>1, <3>2, OwnedUntouched
  <2>4. CASE /\ Settle(w, Of(w), worker[w].outcome)
             /\ doubted' = doubted \cup {Of(w)}
    <3>1. CASE n = Of(w)
      BY <2>1, <2>2, <2>4, <3>1, SettleOwned
    <3>2. CASE n # Of(w)
      BY <2>1, <2>2, <2>4, <3>2, SettleOther
    <3> QED BY <3>1, <3>2
  <2> QED BY <1>5, <2>3, <2>4 DEF SettleFails
<1>6. CASE ReadBack(w)
  <2>1. /\ \A v \in Workers \ {w} : worker'[v] = worker[v]
        /\ Of(w)' \notin Rows /\ row' = row /\ doubted' = doubted
    BY <1>6, TypeLeave DEF ReadBack
  <2>2. /\ WorkingOn(n)' \subseteq WorkingOn(n)
        /\ \A v \in WorkingOn(n)' : At(v, "read")' = At(v, "read")
    BY <2>1 DEF WorkingOn, Of, At
  <2> QED BY <2>1, <2>2, OwnedUntouched
<1>7. CASE ReadBackFails(w)
  <2>1. /\ \A v \in Workers \ {w} : worker'[v] = worker[v]
        /\ \A v \in Workers : Of(v)' = Of(v)
        /\ Of(w) \in Rows /\ At(w, "fail")' /\ At(w, "read")
    BY <1>7, TypeFailAfterAll DEF ReadBackFails
  <2>2. WorkingOn(n)' = WorkingOn(n)
    BY <2>1 DEF WorkingOn
  <2>3. row' = row /\ doubted' = doubted \cup {Of(w)}
    BY <1>7 DEF ReadBackFails
  <2>4. CASE n = Of(w)
    <3>1. WorkingOn(n) = {w} /\ ~At(w, "read")'
      BY <2>1, <2>4 DEF Owned, WorkingOn, At
    <3> QED BY <2>2, <2>3, <2>4, <3>1 DEF Owned, Status
  <2>5. CASE n # Of(w)
    <3>1. \A v \in WorkingOn(n) : At(v, "read")' = At(v, "read")
      BY <2>1, <2>5 DEF WorkingOn, At
    <3> QED BY <2>2, <2>3, <3>1, OwnedUntouched
  <2> QED BY <2>4, <2>5
<1>8. CASE FailRow(w)
  <2> DEFINE status == IF \/ worker[w].outcome = "terminal"
                          \/ worker[w].attempts >= MaxAttempts
                       THEN "FAILED" ELSE "PENDING"
  <2>1. Of(w) \in Rows /\ ~Accepted(w) /\ ~At(w, "read")
    BY <1>8 DEF FailRow, TypeInv, PhaseOf, At, Busy
  <2>2. status \in Settled \cup {"PENDING"}
    BY DEF Settled
  <2>3. Settle(w, Of(w), status) /\ Leave(w) /\ doubted' = doubted
    BY <1>8 DEF FailRow
  <2> HIDE DEF status
  <2>4. /\ \A v \in Workers \ {w} : worker'[v] = worker[v]
        /\ Of(w)' \notin Rows
    BY <2>3, TypeLeave
  <2>5. CASE n = Of(w)
    BY <2>1, <2>2, <2>3, <2>4, <2>5, SettleOwned
  <2>6. CASE n # Of(w)
    BY <2>1, <2>3, <2>4, <2>6, SettleOther
  <2> QED BY <2>5, <2>6
<1> QED BY <1>1, <1>2, <1>3, <1>4, <1>5, <1>6, <1>7, <1>8 DEF WorkerStep, Deliberates

LEMMA OwnedNext == TypeInv /\ OwnedInv /\ [Next]_vars => OwnedInv'
<1> SUFFICES ASSUME TypeInv, OwnedInv, [Next]_vars, NEW n \in Rows \ slow'
             PROVE  Owned(n)'
  BY DEF OwnedInv
<1>0. slow \subseteq slow'
  BY DEF Next, vars, WorkerStep, StartDrain, ClaimNextRow, Claim, StopDrain,
     CheckRecipient, Unsendable, SendRefused, SendAccepted, SettleRow,
     SettleFails, FailAfterAll, ReadBack, ReadBackFails, FailRow, Crash, FlushOutboxRow, Enqueue, CancelReminder,
     BecomeDue, TenMinutesPass, SesEvent
<1> n \in Rows \ slow /\ Owned(n)
  BY <1>0 DEF OwnedInv
<1>1. ASSUME NEW w \in Workers, WorkerStep(w) PROVE Owned(n)'
  BY <1>1, OwnedWorker
<1>2. ASSUME NEW w \in Workers, Crash(w) PROVE Owned(n)'
  <2>1. /\ WorkingOn(n)' \subseteq WorkingOn(n)
        /\ \A v \in WorkingOn(n)' : At(v, "read")' = At(v, "read")
    BY <1>2, OutboxAssumption DEF Crash, TypeInv, TypeOK, Idle, WorkingOn, Of, At
  <2> QED BY <1>2, <2>1, OwnedUntouched DEF Crash
<1>3. ASSUME NEW w \in Workers, NEW m \in Rows, FlushOutboxRow(w, m)
      PROVE  Owned(n)'
  <2>1. Of(w) \notin Rows
    BY <1>3 DEF FlushOutboxRow, TypeInv, PhaseOf, At, Busy
  <2> QED BY <1>3, <2>1, ClaimOwned DEF FlushOutboxRow, Flushable
<1>4. ASSUME NEW m \in Rows, \/ Enqueue(m) \/ CancelReminder(m)
                             \/ BecomeDue(m) \/ TenMinutesPass(m) \/ SesEvent(m)
      PROVE  Owned(n)'
  <2>1. /\ WorkingOn(n)' = WorkingOn(n) /\ doubted' = doubted
        /\ \A v \in Workers : At(v, "read")' = At(v, "read")
    BY <1>4 DEF Enqueue, CancelReminder, BecomeDue, TenMinutesPass, SesEvent,
       WorkingOn, Of, At
  <2>0. WorkingOn(n) \subseteq Workers
    BY DEF WorkingOn
  <2>2. CASE n # m
    <3>1. row'[n] = row[n]
      BY <1>4, <2>2 DEF Enqueue, CancelReminder, BecomeDue, TenMinutesPass,
         SesEvent, TypeInv, TypeOK
    <3> QED BY <2>0, <2>1, <3>1, OwnedUntouched
  <2>3. CASE n = m
    <3> USE DEF Status, TypeInv, TypeOK, RowType
    <3>1. CASE Enqueue(m) \/ CancelReminder(m)
      <4>1. WorkingOn(n) = {}
        BY <2>3, <3>1 DEF Enqueue, CancelReminder, Owned
      <4>2. row'[n].messageId = row[n].messageId
        BY <2>3, <3>1 DEF Enqueue, CancelReminder
      <4>3. row[n].messageId # 0 => n \in doubted
        BY <2>3, <3>1 DEF Enqueue, CancelReminder, Owned, Undoubted, Settled
      <4> QED BY <2>1, <4>1, <4>2, <4>3 DEF Owned, Undoubted
    <3>2. CASE BecomeDue(m)
      <4>1. /\ row'[n].status = row[n].status /\ row'[n].stuck = row[n].stuck
            /\ row'[n].messageId = row[n].messageId
        BY <2>3, <3>2 DEF BecomeDue
      <4> QED BY <2>0, <2>1, <4>1 DEF Owned, Undoubted
    <3>3. CASE TenMinutesPass(m)
      <4>1. WorkingOn(n) = {}
        BY <2>3, <3>3 DEF TenMinutesPass
      <4>2. row'[n].messageId = row[n].messageId /\ row'[n].status = row[n].status
        BY <2>3, <3>3 DEF TenMinutesPass
      <4> QED BY <2>1, <4>1, <4>2 DEF Owned, Undoubted
    <3>4. CASE SesEvent(m)
      <4>1. PICK id \in 1 .. copies[m],
                 event \in {"BOUNCED", "COMPLAINED", "DELIVERED", "FAILED"} :
               row' = [row EXCEPT ![m].status = IF row[m].messageId = id
                                                THEN event ELSE @]
        BY <3>4 DEF SesEvent
      <4>2. /\ row'[n].stuck = row[n].stuck
            /\ row'[n].messageId = row[n].messageId
        BY <2>3, <4>1
      <4>3. CASE row[m].messageId = id
        <5>1. row[n].messageId # 0
          BY <2>3, <4>3
        <5>2. row'[n].status \in Settled \ {"NONE", "PENDING"}
          BY <2>3, <4>1, <4>3 DEF Settled
        <5>3. n \notin doubted => \A v \in WorkingOn(n) : At(v, "read")
          BY <5>1 DEF Owned, Undoubted, Settled
        <5> QED BY <2>0, <2>1, <4>2, <5>2, <5>3 DEF Owned, Undoubted
      <4>4. CASE row[m].messageId # id
        <5>1. row'[n].status = row[n].status
          BY <2>3, <4>1, <4>4
        <5> QED BY <2>0, <2>1, <4>2, <5>1 DEF Owned, Undoubted
      <4> QED BY <4>3, <4>4
    <3> QED BY <1>4, <3>1, <3>2, <3>3, <3>4
  <2> QED BY <2>2, <2>3
<1>5. CASE UNCHANGED vars
  BY <1>5 DEF vars, Owned, Undoubted, WorkingOn, Of, At, Status
<1> QED BY <1>1, <1>2, <1>3, <1>4, <1>5 DEF Next
-----------------------------------------------------------------------------
(* What a second copy costs.                                               *)

LEMMA CarryingFinite ==
    ASSUME TypeInv, NEW m \in Rows
    PROVE  IsFiniteSet(Carrying(m)) /\ Cardinality(Carrying(m)) \in Nat
<1>1. Carrying(m) \subseteq Workers
  BY DEF Carrying, WorkingOn
<1> QED BY <1>1, OutboxAssumption, FS_Subset, FS_CardinalityType

\* One worker's step moves no other worker.
LEMMA OthersKeepWorking ==
    ASSUME NEW w \in Workers, NEW m,
           \A v \in Workers \ {w} : worker'[v] = worker[v]
    PROVE  /\ WorkingOn(m)' \ {w} = WorkingOn(m) \ {w}
           /\ Carrying(m)' \ {w} = Carrying(m) \ {w}
           /\ Delivering(m)' \ {w} = Delivering(m) \ {w}
BY DEF WorkingOn, Carrying, Delivering, Of, At, Accepted

\* A row that is left alone offers no more than before when nobody who was
\* delivering it has stopped.
LEMMA OffersNoMore ==
    ASSUME NEW n \in Rows, row'[n] = row[n], Delivering(n) \subseteq Delivering(n)'
    PROVE  Queued(n)' <= Queued(n) /\ Queued(n) \in Nat /\ Queued(n)' \in Nat
<1>1. InQueue(n)' => InQueue(n)
  BY DEF InQueue, Status
<1> QED BY <1>1 DEF Queued

\* A claim takes the right to send out of the queue.
LEMMA ClaimAccounted ==
    ASSUME TypeInv, TypeInv', NEW w \in Workers, NEW m \in Rows, NEW n \in Rows,
           NEW drain \in BOOLEAN, Status(m) = "PENDING", Claim(w, m, drain),
           Accounted(n), Of(w) \notin Rows
    PROVE  Accounted(n)'
<1>1. \A v \in Workers \ {w} : worker'[v] = worker[v]
  BY DEF Claim, TypeInv, TypeOK
<1>2. Of(w)' = m /\ ~Accepted(w)' /\ ~At(w, "read")'
  BY DEF Claim, TypeInv, TypeOK, Idle, Of, At, Accepted
<1>3. w \notin WorkingOn(n) /\ w \notin Carrying(n) /\ w \notin Delivering(n)
  BY DEF WorkingOn, Carrying, Delivering
<1>4. UNCHANGED <<copies, excuses>>
  BY DEF Claim
<1>5. CASE n = m
  <2>0. w \in WorkingOn(n)' /\ w \in Carrying(n)' /\ w \in Delivering(n)'
    BY <1>2, <1>5 DEF WorkingOn, Carrying, Delivering
  <2>1. Carrying(n)' = Carrying(n) \cup {w}
    BY <1>1, <1>3, <2>0, OthersKeepWorking
  <2>2. Cardinality(Carrying(n)') = Cardinality(Carrying(n)) + 1
    BY <1>3, <2>1, CarryingFinite, FS_AddElement
  <2>3. Queued(n) = 1
    BY <1>5 DEF Queued, InQueue
  <2>4. Status(n)' = "SENDING" /\ ~row'[n].stuck
    BY <1>5 DEF Claim, TypeInv, TypeOK, RowType, Status
  <2>5. Queued(n)' = 0
    BY <2>0, <2>4 DEF Queued, InQueue
  <2> QED BY <1>4, <2>2, <2>3, <2>5, CarryingFinite DEF Accounted, TypeInv, TypeOK
<1>6. CASE n # m
  <2>1. w \notin Delivering(n)' /\ w \notin Carrying(n)'
    BY <1>2, <1>6 DEF WorkingOn, Carrying, Delivering
  <2>2. Delivering(n)' = Delivering(n) /\ Carrying(n)' = Carrying(n)
    BY <1>1, <1>3, <2>1, OthersKeepWorking
  <2>3. row'[n] = row[n]
    BY <1>6 DEF Claim, TypeInv, TypeOK
  <2> QED BY <1>4, <2>2, <2>3 DEF Accounted, Queued, InQueue, Status
<1> QED BY <1>5, <1>6

\* Deciding what to do with a row keeps the right to send with its worker, ...
LEMMA DecisionAccounted ==
    ASSUME TypeInv, NEW w \in Workers, NEW n \in Rows, Accounted(n),
           StopDrain(w) \/ CheckRecipient(w) \/ Unsendable(w) \/ SendRefused(w)
    PROVE  Accounted(n)'
<1>1. /\ row' = row /\ \A v \in Workers : Of(v)' = Of(v)
      /\ \A v \in Workers \ {w} : worker'[v] = worker[v]
      /\ ~At(w, "read") /\ ~At(w, "read")'
  BY DeliberationKeepsRows DEF Deliberates
<1>2. Accepted(w)' = Accepted(w)
  <2>1. CASE StopDrain(w)
    BY <2>1 DEF StopDrain, TypeInv, TypeOK, PhaseOf, At, Idle, Accepted
  <2>2. CASE ~StopDrain(w)
    BY <2>2 DEF CheckRecipient, Unsendable, SendRefused, Proceed, TypeInv,
       TypeOK, WorkerType, Accepted
  <2> QED BY <2>1, <2>2
<1>3. Delivering(n)' = Delivering(n) /\ Carrying(n)' = Carrying(n)
  BY <1>1, <1>2 DEF WorkingOn, Carrying, Delivering, At, Accepted
<1>4. UNCHANGED <<copies, excuses>>
  BY DEF StopDrain, CheckRecipient, Unsendable, SendRefused
<1> QED BY <1>1, <1>3, <1>4 DEF Accounted, Queued, InQueue, Status

\* ... sending uses it up, or is excused because the answer was lost, ...
LEMMA SendAccounted ==
    ASSUME TypeInv, TypeInv', NEW w \in Workers, NEW n \in Rows, Accounted(n),
           SendAccepted(w)
    PROVE  Accounted(n)'
<1>1. /\ row' = row /\ \A v \in Workers : Of(v)' = Of(v)
      /\ \A v \in Workers \ {w} : worker'[v] = worker[v]
      /\ ~At(w, "read") /\ ~At(w, "read")'
  BY DeliberationKeepsRows DEF Deliberates
<1>2. WorkingOn(n)' = WorkingOn(n) /\ Delivering(n)' = Delivering(n)
  BY <1>1 DEF WorkingOn, Delivering, At
<1>3. Queued(n)' = Queued(n)
  BY <1>1, <1>2 DEF Queued, InQueue, Status
<1>4. Of(w) \in Rows /\ ~Accepted(w)
  BY DEF SendAccepted, TypeInv, PhaseOf, At, Busy
<1>5. CASE n # Of(w)
  <2>1. copies'[n] = copies[n] /\ excuses'[n] = excuses[n]
    BY <1>5 DEF SendAccepted, TypeInv, TypeOK
  <2>2. Carrying(n)' = Carrying(n)
    BY <1>1, <1>5 DEF Carrying, WorkingOn, Accepted
  <2> QED BY <1>3, <2>1, <2>2 DEF Accounted
<1>6. CASE n = Of(w)
  <2>1. w \in Carrying(n)
    BY <1>4, <1>6 DEF Carrying, WorkingOn
  <2>2. copies'[n] = copies[n] + 1
    BY <1>4, <1>6 DEF SendAccepted, TypeInv, TypeOK
  <2>3. CASE Accepted(w)' /\ UNCHANGED excuses
    <3>1. Carrying(n)' = Carrying(n) \ {w}
      BY <1>1, <2>3 DEF Carrying, WorkingOn, Accepted
    <3>2. Cardinality(Carrying(n)') = Cardinality(Carrying(n)) - 1
      BY <2>1, <3>1, CarryingFinite, FS_RemoveElement
    <3> QED BY <1>3, <2>2, <2>3, <3>2, CarryingFinite
            DEF Accounted, Queued, TypeInv, TypeOK
  <2>4. CASE ~Accepted(w)' /\ excuses'[n] = excuses[n] + 1
    <3>1. Carrying(n)' = Carrying(n)
      BY <1>1, <1>4, <2>4 DEF Carrying, WorkingOn, Accepted
    <3> QED BY <1>3, <2>2, <2>4, <3>1, CarryingFinite
            DEF Accounted, Queued, TypeInv, TypeOK
  <2>5. \/ Accepted(w)' /\ UNCHANGED excuses
        \/ ~Accepted(w)' /\ excuses'[n] = excuses[n] + 1
    <3>1. copies[n] + 1 # 0
      BY DEF TypeInv, TypeOK
    <3>2. CASE UNCHANGED excuses /\ worker' = [worker EXCEPT
                  ![w].pc = "settle", ![w].outcome = "SENT",
                  ![w].messageId = copies[n] + 1]
      BY <3>1, <3>2 DEF TypeInv, TypeOK, WorkerType, Accepted
    <3>3. CASE /\ Proceed(w, "fail", "retryable")
               /\ excuses' = [excuses EXCEPT ![n] = @ + 1]
      BY <1>4, <3>3 DEF Proceed, TypeInv, TypeOK, WorkerType, Accepted
    <3> QED BY <1>6, <3>2, <3>3 DEF SendAccepted
  <2> QED BY <2>3, <2>4, <2>5
<1> QED BY <1>5, <1>6

\* ... and so does an error after a message has left, which is excused.
LEMMA FailAfterAllAccounted ==
    ASSUME TypeInv, TypeInv', NEW w \in Workers, NEW n \in Rows, Accounted(n),
           At(w, "settle") \/ At(w, "read"), FailAfterAll(w),
           Queued(n)' <= Queued(n), Queued(n) \in Nat, Queued(n)' \in Nat
    PROVE  Accounted(n)'
<1>1. /\ \A v \in Workers : Of(v)' = Of(v)
      /\ \A v \in Workers \ {w} : worker'[v] = worker[v]
      /\ ~Accepted(w)' /\ Of(w) \in Rows
  BY TypeFailAfterAll
<1>2. copies' = copies
  BY DEF FailAfterAll
<1>3. CASE n = Of(w) /\ Accepted(w)
  <2>1. w \notin Carrying(n) /\ Carrying(n)' = Carrying(n) \cup {w}
    BY <1>1, <1>3 DEF Carrying, WorkingOn, Accepted
  <2>2. Cardinality(Carrying(n)') = Cardinality(Carrying(n)) + 1
    BY <2>1, CarryingFinite, FS_AddElement
  <2>3. excuses'[n] = excuses[n] + 1
    BY <1>3 DEF FailAfterAll, TypeInv, TypeOK
  <2> QED BY <1>2, <2>2, <2>3, CarryingFinite DEF Accounted, TypeInv, TypeOK
<1>4. CASE ~(n = Of(w) /\ Accepted(w))
  <2>1. Carrying(n)' = Carrying(n)
    BY <1>1, <1>4 DEF Carrying, WorkingOn, Accepted
  <2>2. excuses'[n] = excuses[n]
    BY <1>1, <1>4 DEF FailAfterAll, TypeInv, TypeOK
  <2> QED BY <1>2, <2>1, <2>2, CarryingFinite DEF Accounted, TypeInv, TypeOK
<1> QED BY <1>3, <1>4

\* The write of SettleFails offers its row no more than before.
LEMMA SettleFailsAccounted ==
    ASSUME TypeInv, TypeInv', NEW w \in Workers, NEW n \in Rows, Accounted(n),
           SettleFails(w)
    PROVE  Accounted(n)'
<1>1. /\ \A v \in Workers : Of(v)' = Of(v)
      /\ \A v \in Workers \ {w} : worker'[v] = worker[v]
      /\ At(w, "settle") /\ At(w, "fail")' /\ FailAfterAll(w)
  BY TypeFailAfterAll DEF SettleFails
<1>2. Delivering(n)' = Delivering(n)
  BY <1>1 DEF Delivering, WorkingOn, At
<1>3. CASE row'[n] = row[n]
  BY <1>1, <1>2, <1>3, OffersNoMore, FailAfterAllAccounted
<1>4. CASE row'[n] # row[n]
  <2>1. worker[w].outcome \in Settled
    BY <1>1 DEF TypeInv, PhaseOf, At, Endings, Settled
  <2>2. Settle(w, Of(w), worker[w].outcome) /\ n = Of(w)
    BY <1>4 DEF SettleFails, Settle, TypeInv, TypeOK
  <2>3. Status(n)' \in Settled
    BY <2>1, <2>2 DEF Settle, TypeInv, TypeOK, Status
  <2>4. Queued(n)' = 0 /\ Queued(n) \in Nat
    BY <2>3 DEF Queued, InQueue, Settled
  <2> QED BY <1>1, <2>4, FailAfterAllAccounted
<1> QED BY <1>3, <1>4

\* A worker that reads back a row was not delivering it any more.
LEMMA ReadBackAccounted ==
    ASSUME TypeInv, TypeInv', NEW w \in Workers, NEW n \in Rows, Accounted(n),
           ReadBack(w) \/ ReadBackFails(w)
    PROVE  Accounted(n)'
<1>1. row' = row /\ At(w, "read")
  BY DEF ReadBack, ReadBackFails
<1>2. w \notin Delivering(n)
  BY <1>1 DEF Delivering
<1>3. CASE ReadBack(w)
  <2>1. /\ \A v \in Workers \ {w} : worker'[v] = worker[v]
        /\ Of(w)' \notin Rows
    BY <1>3, TypeLeave DEF ReadBack
  <2>2. w \notin Delivering(n)' /\ w \notin Carrying(n)'
    BY <2>1 DEF Delivering, Carrying, WorkingOn
  <2>3. Delivering(n)' = Delivering(n) /\ Carrying(n)' \subseteq Carrying(n)
    BY <1>2, <2>1, <2>2, OthersKeepWorking
  <2>4. Queued(n)' <= Queued(n) /\ Queued(n) \in Nat /\ Queued(n)' \in Nat
    BY <1>1, <2>3, OffersNoMore
  <2>5. /\ Cardinality(Carrying(n)') <= Cardinality(Carrying(n))
        /\ Cardinality(Carrying(n)') \in Nat
    BY <2>3, CarryingFinite, FS_Subset, FS_CardinalityType
  <2>6. UNCHANGED <<copies, excuses>>
    BY <1>3 DEF ReadBack
  <2> QED BY <2>4, <2>5, <2>6, CarryingFinite DEF Accounted, TypeInv, TypeOK
<1>4. CASE ReadBackFails(w)
  <2>1. \A v \in Workers \ {w} : worker'[v] = worker[v]
    BY <1>1, <1>4, TypeFailAfterAll DEF ReadBackFails
  <2>2. Delivering(n) \subseteq Delivering(n)'
    BY <1>2, <2>1, OthersKeepWorking
  <2> QED BY <1>1, <1>4, <2>2, OffersNoMore, FailAfterAllAccounted
          DEF ReadBackFails
<1> QED BY <1>3, <1>4

\* Settling takes its row off the queue, ...
LEMMA SettleRowAccounted ==
    ASSUME TypeInv, TypeInv', NEW w \in Workers, NEW n \in Rows, Accounted(n),
           SettleRow(w), ~Leave(w)
    PROVE  Accounted(n)'
<1>1. /\ worker' = [worker EXCEPT ![w].pc = "read"]
      /\ Settle(w, Of(w), worker[w].outcome) /\ UNCHANGED <<copies, excuses>>
  BY DEF SettleRow
<1>2. Carrying(n)' = Carrying(n)
  BY <1>1 DEF Carrying, WorkingOn, Of, Accepted, TypeInv, TypeOK, WorkerType
<1>3. CASE n = Of(w)
  <2>1. worker[w].outcome \in Settled
    BY DEF SettleRow, TypeInv, PhaseOf, At, Endings, Settled
  <2>2. Status(n)' \in Settled
    BY <1>1, <1>3, <2>1 DEF Settle, TypeInv, TypeOK, Status
  <2>3. Queued(n)' = 0 /\ Queued(n) \in Nat
    BY <2>2 DEF Queued, InQueue, Settled
  <2> QED BY <1>1, <1>2, <2>3, CarryingFinite DEF Accounted, TypeInv, TypeOK
<1>4. CASE n # Of(w)
  <2>1. row'[n] = row[n]
    BY <1>1, <1>4 DEF Settle, TypeInv, TypeOK
  <2>2. Delivering(n)' = Delivering(n)
    BY <1>1, <1>4 DEF Delivering, WorkingOn, Of, At, TypeInv, TypeOK, WorkerType
  <2> QED BY <1>1, <1>2, <2>1, <2>2 DEF Accounted, Queued, InQueue, Status
<1> QED BY <1>3, <1>4

\* ... and a worker that leaves a row gives back what it has not used: to the
\* queue when the row is failed, to nobody when it is settled.
LEMMA SettleAccounted ==
    ASSUME TypeInv, NEW w \in Workers, NEW n \in Rows, Accounted(n),
           Of(w) \in Rows, NEW status \in Settled \cup {"PENDING"},
           Settle(w, Of(w), status), Leave(w),
           Accepted(w) => status \in Settled, UNCHANGED <<copies, excuses>>
    PROVE  Accounted(n)'
<1>1. /\ \A v \in Workers \ {w} : worker'[v] = worker[v]
      /\ Of(w)' \notin Rows
  BY TypeLeave
<1>3. w \notin Delivering(n)' /\ w \notin Carrying(n)'
  BY <1>1 DEF WorkingOn, Carrying, Delivering
<1>4. Carrying(n)' = Carrying(n) \ {w} /\ Delivering(n)' = Delivering(n) \ {w}
  BY <1>1, <1>3, OthersKeepWorking
<1>5. CASE n # Of(w)
  <2>1. row'[n] = row[n]
    BY <1>5 DEF Settle, TypeInv, TypeOK
  <2>2. Delivering(n)' = Delivering(n) /\ Carrying(n)' = Carrying(n)
    BY <1>4, <1>5 DEF WorkingOn, Carrying, Delivering
  <2> QED BY <2>1, <2>2 DEF Accounted, Queued, InQueue, Status
<1>6. CASE n = Of(w)
  <2>1. Status(n)' = status
    BY <1>6 DEF Settle, TypeInv, TypeOK, Status
  <2>2. CASE Accepted(w)
    <3>1. Carrying(n)' = Carrying(n)
      BY <1>4, <2>2 DEF Carrying
    <3>2. Queued(n)' = 0
      BY <2>1, <2>2 DEF Queued, InQueue, Settled
    <3> QED BY <3>1, <3>2, CarryingFinite DEF Accounted, Queued, TypeInv, TypeOK
  <2>3. CASE ~Accepted(w)
    <3>1. w \in Carrying(n)
      BY <1>6, <2>3 DEF Carrying, WorkingOn
    <3>2. Cardinality(Carrying(n)') = Cardinality(Carrying(n)) - 1
      BY <1>4, <3>1, CarryingFinite, FS_RemoveElement
    <3> QED BY <3>2, CarryingFinite DEF Accounted, Queued, TypeInv, TypeOK
  <2> QED BY <2>2, <2>3
<1> QED BY <1>5, <1>6

LEMMA CrashAccounted ==
    ASSUME TypeInv, NEW w \in Workers, NEW n \in Rows, Accounted(n), Crash(w)
    PROVE  Accounted(n)'
<1>1. \A v \in Workers \ {w} : worker'[v] = worker[v]
  BY DEF Crash, TypeInv, TypeOK
<1>2. Of(w)' \notin Rows /\ row' = row /\ copies' = copies
  BY OutboxAssumption DEF Crash, TypeInv, TypeOK, Idle, Of
<1>3. w \notin Delivering(n)' /\ w \notin Carrying(n)'
  BY <1>2 DEF WorkingOn, Carrying, Delivering
<1>4. Carrying(n)' = Carrying(n) \ {w} /\ Delivering(n)' = Delivering(n) \ {w}
  BY <1>1, <1>3, OthersKeepWorking
<1>5. CASE w \notin Delivering(n)
  <2>1. Delivering(n)' = Delivering(n) /\ Carrying(n)' \subseteq Carrying(n)
    BY <1>4, <1>5
  <2>2. Cardinality(Carrying(n)') <= Cardinality(Carrying(n))
        /\ Cardinality(Carrying(n)') \in Nat
    BY <2>1, CarryingFinite, FS_Subset, FS_CardinalityType
  <2>3. Queued(n)' = Queued(n) /\ Queued(n) \in Nat
    BY <1>2, <2>1 DEF Queued, InQueue, Status
  <2>4. excuses'[n] = excuses[n]
    BY <1>5 DEF Crash, Delivering, WorkingOn, At
  <2> QED BY <1>2, <2>2, <2>3, <2>4, CarryingFinite DEF Accounted, TypeInv, TypeOK
<1>6. CASE w \in Delivering(n) /\ Accepted(w)
  <2>1. Carrying(n)' = Carrying(n)
    BY <1>4, <1>6 DEF Carrying
  <2>2. excuses'[n] = excuses[n] + 1
    BY <1>6 DEF Crash, Delivering, WorkingOn, TypeInv, PhaseOf
  <2> QED BY <1>2, <2>1, <2>2, CarryingFinite DEF Accounted, Queued, TypeInv, TypeOK
<1>7. CASE w \in Delivering(n) /\ ~Accepted(w)
  <2>1. w \in Carrying(n) /\ excuses'[n] = excuses[n]
    BY <1>7 DEF Carrying, Delivering, WorkingOn, Crash
  <2> DEFINE S == Carrying(n)
  <2>2. IsFiniteSet(S) /\ w \in S
    BY <2>1, CarryingFinite
  <2>3. Cardinality(S \ {w}) = Cardinality(S) - 1
    <3> HIDE DEF S
    <3> QED BY <2>2, FS_RemoveElement
  <2>4. Cardinality(Carrying(n)') = Cardinality(Carrying(n)) - 1
    BY <1>4, <2>3
  <2> QED BY <1>2, <2>1, <2>4, CarryingFinite DEF Accounted, Queued, TypeInv, TypeOK
<1> QED BY <1>5, <1>6, <1>7

\* A drain that reclaims a row leaves the right to send in the queue.
LEMMA ReclaimAccounted ==
    ASSUME TypeInv, NEW w \in Workers, NEW n \in Rows, Accounted(n), StartDrain(w)
    PROVE  Accounted(n)'
<1>1. \A v \in Workers : /\ Of(v)' = Of(v) /\ Accepted(v)' = Accepted(v)
                         /\ At(v, "read")' = At(v, "read")
  BY DEF StartDrain, TypeInv, TypeOK, WorkerType, Of, At, Accepted
<1>2. Delivering(n)' = Delivering(n) /\ Carrying(n)' = Carrying(n)
  BY <1>1 DEF WorkingOn, Carrying, Delivering
<1>3. Queued(n)' = Queued(n)
  <2>1. CASE Reclaimable(n)
    <3>1. row'[n] = [row[n] EXCEPT !.status = "PENDING", !.stuck = FALSE]
      BY <2>1 DEF StartDrain
    <3>2. row'[n].status = "PENDING"
      BY <3>1 DEF TypeInv, TypeOK, RowType
    <3> QED BY <2>1, <3>2 DEF Reclaimable, Queued, InQueue, Status
  <2>2. CASE ~Reclaimable(n)
    <3>1. row'[n] = row[n]
      BY <2>2 DEF StartDrain
    <3> QED BY <1>2, <3>1 DEF Queued, InQueue, Status
  <2> QED BY <2>1, <2>2
<1> QED BY <1>2, <1>3 DEF Accounted, StartDrain

LEMMA AccountedNext ==
    TypeInv /\ (\A m \in Rows : Accounted(m)) /\ [Next]_vars
        => \A m \in Rows : Accounted(m)'
<1> SUFFICES ASSUME TypeInv, [Next]_vars, NEW n \in Rows, Accounted(n)
             PROVE  Accounted(n)'
  OBVIOUS
<1>0. TypeInv'
  BY TypeNext
<1>1. ASSUME NEW w \in Workers, WorkerStep(w) PROVE Accounted(n)'
  <2>1. CASE StartDrain(w)
    BY <2>1, ReclaimAccounted
  <2>2. CASE ClaimNextRow(w)
    <3>1. PICK m \in Rows : Claimable(m) /\ Claim(w, m, TRUE)
      BY <2>2 DEF ClaimNextRow
    <3>2. Of(w) \notin Rows
      BY <2>2 DEF ClaimNextRow, TypeInv, PhaseOf, At, Busy
    <3> QED BY <1>0, <3>1, <3>2, ClaimAccounted DEF Claimable
  <2>3. CASE StopDrain(w) \/ CheckRecipient(w) \/ Unsendable(w) \/ SendRefused(w)
    BY <2>3, DecisionAccounted
  <2>4. CASE SendAccepted(w)
    BY <1>0, <2>4, SendAccounted
  <2>5. CASE SettleFails(w)
    BY <1>0, <2>5, SettleFailsAccounted
  <2>6. CASE SettleRow(w)
    <3>1. Of(w) \in Rows /\ worker[w].outcome \in Settled
      BY <2>6 DEF SettleRow, TypeInv, PhaseOf, At, Busy, Endings, Settled
    <3> QED BY <1>0, <2>6, <3>1, SettleAccounted, SettleRowAccounted DEF SettleRow
  <2>7. CASE FailRow(w)
    <3> DEFINE status == IF \/ worker[w].outcome = "terminal"
                            \/ worker[w].attempts >= MaxAttempts
                         THEN "FAILED" ELSE "PENDING"
    <3>1. Of(w) \in Rows /\ ~Accepted(w)
      BY <2>7 DEF FailRow, TypeInv, PhaseOf, At, Busy
    <3>2. status \in Settled \cup {"PENDING"}
      BY DEF Settled
    <3>3. Settle(w, Of(w), status) /\ Leave(w) /\ UNCHANGED <<copies, excuses>>
      BY <2>7 DEF FailRow
    <3> HIDE DEF status
    <3> QED BY <3>1, <3>2, <3>3, SettleAccounted
  <2>8. CASE ReadBack(w) \/ ReadBackFails(w)
    BY <1>0, <2>8, ReadBackAccounted
  <2> QED BY <1>1, <2>1, <2>2, <2>3, <2>4, <2>5, <2>6, <2>7, <2>8 DEF WorkerStep
<1>2. ASSUME NEW w \in Workers, Crash(w) PROVE Accounted(n)'
  BY <1>2, CrashAccounted
<1>3. ASSUME NEW w \in Workers, NEW m \in Rows, FlushOutboxRow(w, m)
      PROVE  Accounted(n)'
  <2>1. Of(w) \notin Rows
    BY <1>3 DEF FlushOutboxRow, TypeInv, PhaseOf, At, Busy
  <2> QED BY <1>0, <1>3, <2>1, ClaimAccounted DEF FlushOutboxRow, Flushable
<1>4. ASSUME NEW m \in Rows, \/ Enqueue(m) \/ CancelReminder(m)
                             \/ BecomeDue(m) \/ TenMinutesPass(m) \/ SesEvent(m)
      PROVE  Accounted(n)'
  <2>1. Delivering(n)' = Delivering(n) /\ Carrying(n)' = Carrying(n) /\ copies' = copies
    BY <1>4 DEF Enqueue, CancelReminder, BecomeDue, TenMinutesPass, SesEvent,
       WorkingOn, Carrying, Delivering, Of, At, Accepted
  <2>2. CASE m # n
    <3>1. row'[n] = row[n] /\ excuses'[n] = excuses[n]
      BY <1>4, <2>2 DEF Enqueue, CancelReminder, BecomeDue, TenMinutesPass,
         SesEvent, TypeInv, TypeOK
    <3> QED BY <2>1, <3>1 DEF Accounted, Queued, InQueue, Status
  <2>3. CASE m = n /\ TenMinutesPass(m) /\ WorkingOn(m) # {}
    <3>1. excuses'[n] = excuses[n] + 1
      BY <2>3 DEF TenMinutesPass, TypeInv, TypeOK
    <3> QED BY <2>1, <3>1, CarryingFinite DEF Accounted, Queued, TypeInv, TypeOK
  <2>4. CASE m = n /\ ~(TenMinutesPass(m) /\ WorkingOn(m) # {})
    <3>1. excuses' = excuses
      BY <1>4, <2>4 DEF Enqueue, CancelReminder, BecomeDue, TenMinutesPass, SesEvent
    <3>2. InQueue(n)' => InQueue(n)
      <4> USE DEF InQueue, Status, TypeInv, TypeOK, RowType
      <4>1. CASE Enqueue(m) \/ CancelReminder(m)
        BY <2>4, <4>1 DEF Enqueue, CancelReminder
      <4>2. CASE BecomeDue(m)
        BY <2>4, <4>2 DEF BecomeDue
      <4>3. CASE TenMinutesPass(m)
        <5>1. WorkingOn(n) = {} /\ Status(n) = "SENDING"
          BY <2>4, <4>3 DEF TenMinutesPass
        <5> QED BY <5>1 DEF Delivering
      <4>4. CASE SesEvent(m)
        <5>1. PICK id \in 1 .. copies[m],
                   event \in {"BOUNCED", "COMPLAINED", "DELIVERED", "FAILED"} :
                 row' = [row EXCEPT ![m].status = IF row[m].messageId = id
                                                  THEN event ELSE @]
          BY <4>4 DEF SesEvent
        <5>2. row'[n].stuck = row[n].stuck
          BY <2>4, <5>1
        <5>3. \/ row'[n].status = event
              \/ row'[n].status = row[n].status
          BY <2>4, <5>1
        <5> QED BY <2>1, <5>2, <5>3
      <4> QED BY <1>4, <4>1, <4>2, <4>3, <4>4
    <3>3. Queued(n)' <= Queued(n) /\ Queued(n) \in Nat /\ Queued(n)' \in Nat
      BY <3>2 DEF Queued
    <3> QED BY <2>1, <3>1, <3>3, CarryingFinite DEF Accounted, TypeInv, TypeOK
  <2> QED BY <2>2, <2>3, <2>4
<1>5. CASE UNCHANGED vars
  BY <1>5 DEF vars, Accounted, Queued, InQueue, Carrying, Delivering, WorkingOn,
     Of, At, Accepted, Status
<1> QED BY <1>1, <1>2, <1>3, <1>4, <1>5 DEF Next
-----------------------------------------------------------------------------
LEMMA OutboxInvariant == Spec => []OutboxInv
<1>1. Init => OutboxInv
  <2> SUFFICES ASSUME Init PROVE OutboxInv
    OBVIOUS
  <2>1. TypeInv
    BY TypeInit
  <2>2. ASSUME NEW m \in Rows PROVE WorkingOn(m) = {} /\ row[m] = NoRow
    BY OutboxAssumption DEF Init, Idle, WorkingOn, Of
  <2>3. OwnedInv
    BY <2>2 DEF OwnedInv, Owned, Undoubted, NoRow
  <2>4. ASSUME NEW m \in Rows PROVE Accounted(m)
    <3>1. Carrying(m) = {}
      BY <2>2 DEF Carrying
    <3>2. Cardinality(Carrying(m)) = 0
      BY <3>1, FS_EmptySet
    <3> QED BY <3>2 DEF Init, Accounted, Queued
  <2> QED BY <2>1, <2>3, <2>4 DEF OutboxInv
<1>2. OutboxInv /\ [Next]_vars => OutboxInv'
  BY TypeNext, OwnedNext, AccountedNext DEF OutboxInv
<1> QED BY <1>1, <1>2, PTL DEF Spec

\* Whoever claims a row owns it: as long as no worker is taken for dead on a
\* row, nobody else is at it while the worker delivers it or reads it back,
\* and the queue does not offer it, for any number of drains, jobs and
\* requests that send their own row.
THEOREM RowHasOneOwner == Spec => []OneOwner
<1>1. OutboxInv => OneOwner
  <2> SUFFICES ASSUME OutboxInv, NEW m \in Rows \ slow, NEW w \in WorkingOn(m)
               PROVE  /\ Status(m) \notin {"NONE", "PENDING"}
                      /\ Cardinality(WorkingOn(m)) = 1
    BY DEF OneOwner
  <2>1. WorkingOn(m) = {w} /\ Status(m) \notin {"NONE", "PENDING"}
    BY DEF OutboxInv, OwnedInv, Owned
  <2> QED BY <2>1, FS_Singleton
<1> QED BY <1>1, OutboxInvariant, PTL

\* No message leaves twice unless something hid from the portal that it had
\* left, and each such event costs one more copy at most, whatever the number
\* of workers, retries and faults.
THEOREM EveryCopyExplained == Spec => []CopiesExplained
<1>1. OutboxInv => CopiesExplained
  <2> SUFFICES ASSUME OutboxInv, NEW m \in Rows
               PROVE  copies[m] <= 1 + excuses[m]
    BY DEF CopiesExplained
  <2>1. /\ Queued(m) \in Nat /\ Cardinality(Carrying(m)) \in Nat
        /\ copies[m] \in Nat /\ excuses[m] \in Nat
    BY CarryingFinite DEF OutboxInv, TypeInv, TypeOK, Queued
  <2> QED BY <2>1 DEF OutboxInv, Accounted
<1> QED BY <1>1, OutboxInvariant, PTL

\* What is settled stays settled: no retry, reclaim, cancellation, request or
\* delivery event takes a sent or refused message back into the queue, unless
\* the worker that settled it was told of a failure, or a worker was taken
\* for dead on it.
THEOREM SettledRowStays == Spec => SettledStays
<1>1. ASSUME OutboxInv, [Next]_vars, NEW m \in Rows, m \notin slow \cup doubted,
             Status(m) \in Settled
      PROVE  Status(m)' \in Settled
  <2>1. \A w \in Workers : Of(w) = m => At(w, "read")
    BY <1>1 DEF OutboxInv, OwnedInv, Owned, Undoubted, WorkingOn, Settled
  <2>2. TypeInv /\ TypeOK
    BY <1>1 DEF OutboxInv, TypeInv
  <2>4. ASSUME NEW w \in Workers, WorkerStep(w) PROVE Status(m)' \in Settled
    <3>1. CASE StartDrain(w)
      BY <1>1, <3>1 DEF StartDrain, Reclaimable, Status, Settled
    <3>2. CASE ClaimNextRow(w)
      <4>1. PICK k \in Rows : Claimable(k) /\ Claim(w, k, TRUE)
        BY <3>2 DEF ClaimNextRow
      <4>2. k # m
        BY <1>1, <4>1 DEF Claimable, Settled
      <4> QED BY <1>1, <2>2, <4>1, <4>2 DEF Claim, TypeOK, Status
    <3>3. CASE Deliberates(w)
      BY <1>1, <2>2, <3>3, DeliberationKeepsRows DEF Status
    <3>4. CASE SettleRow(w) \/ FailRow(w)
      <4>1. PICK status : Settle(w, Of(w), status)
        BY <3>4 DEF SettleRow, FailRow
      <4>2. Of(w) # m
        BY <2>1, <3>4 DEF SettleRow, FailRow, At
      <4> QED BY <1>1, <2>2, <4>1, <4>2 DEF Settle, TypeOK, Status
    <3>5. CASE SettleFails(w)
      <4>1. Of(w) # m
        BY <2>1, <3>5 DEF SettleFails, At
      <4> QED BY <1>1, <2>2, <3>5, <4>1 DEF SettleFails, Settle, TypeOK, Status
    <3>6. CASE ReadBack(w) \/ ReadBackFails(w)
      BY <1>1, <3>6 DEF ReadBack, ReadBackFails, Status
    <3> QED BY <2>4, <3>1, <3>2, <3>3, <3>4, <3>5, <3>6 DEF WorkerStep, Deliberates
  <2>5. ASSUME NEW w \in Workers, Crash(w) PROVE Status(m)' \in Settled
    BY <1>1, <2>5 DEF Crash, Status
  <2>6. ASSUME NEW w \in Workers, NEW k \in Rows, FlushOutboxRow(w, k)
        PROVE  Status(m)' \in Settled
    <3>1. k # m
      BY <1>1, <2>6 DEF FlushOutboxRow, Flushable, Settled
    <3> QED BY <1>1, <2>2, <2>6, <3>1 DEF FlushOutboxRow, Claim, TypeOK, Status
  <2>7. ASSUME NEW k \in Rows, \/ Enqueue(k) \/ CancelReminder(k)
                               \/ BecomeDue(k) \/ TenMinutesPass(k)
        PROVE  Status(m)' \in Settled
    <3>1. k # m
      BY <1>1, <2>7 DEF Enqueue, CancelReminder, BecomeDue, TenMinutesPass, Settled
    <3> QED BY <1>1, <2>2, <2>7, <3>1 DEF Enqueue, CancelReminder, BecomeDue,
            TenMinutesPass, TypeOK, Status
  <2>8. ASSUME NEW k \in Rows, SesEvent(k) PROVE Status(m)' \in Settled
    <3>1. PICK id \in 1 .. copies[k],
               event \in {"BOUNCED", "COMPLAINED", "DELIVERED", "FAILED"} :
             row' = [row EXCEPT ![k].status = IF row[k].messageId = id
                                              THEN event ELSE @]
      BY <2>8 DEF SesEvent
    <3>2. row'[m].status = event \/ row'[m].status = row[m].status
      BY <2>2, <3>1 DEF TypeOK, RowType
    <3> QED BY <1>1, <3>2 DEF Status, Settled
  <2>9. CASE UNCHANGED vars
    BY <1>1, <2>9 DEF vars, Status
  <2> QED BY <1>1, <2>4, <2>5, <2>6, <2>7, <2>8, <2>9 DEF Next
<1>2. OutboxInv /\ [Next]_vars
        => [\A m \in Rows : Status(m) \in Settled /\ m \notin slow \cup doubted =>
                               Status(m)' \in Settled]_vars
  BY <1>1
<1> QED BY <1>2, OutboxInvariant, PTL DEF Spec, SettledStays
=============================================================================
