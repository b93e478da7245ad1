---------------------------- MODULE PickupsProofs ----------------------------
(***************************************************************************)
(* What TLAPS proves of Pickups.  The inductive invariant IInv says, apart *)
(* from the types, that parcels shown as collected were in hand (InHand),  *)
(* and that a pickup nobody strayed from is in order while calls come and  *)
(* go (InOrder).  The second needs Fresh: what a call loaded of a request  *)
(* is so still, as long as nobody has written to the request since.        *)
(*                                                                         *)
(* There is one lemma for each action, each with the conclusion Keeps.     *)
(***************************************************************************)
EXTENDS Pickups, TLAPS, FiniteSetTheorems

-----------------------------------------------------------------------------
(* The inductive invariant                                                 *)


AttemptStatuses == Live \cup {"NONE", "CANCELLED", "FAILED", "COMPLETED"}
RequestType ==
    [status : {"NONE", "REQUESTED", "CONFIRMED", "DRIVER_ASSIGNED", "IN_PROGRESS",
               "ACTION_REQUIRED", "MISSED", "CANCELLED", "COLLECTED",
               "PARTIALLY_COLLECTED"} \cup Receipted,
     current : Nat, started : BOOLEAN]
AttemptType == [status : AttemptStatuses, otp : {"NONE", "ASKED", "APPROVED", "VERIFIED"}]
LinkType == [shipments : SUBSET Shipments, active : SUBSET Shipments,
             receipt : BOOLEAN,
             parcel : [Parcels -> {"PENDING", "COLLECTED", "EXCEPTION"}]]

\* What a call may have loaded, and the calls.
Saws == (SUBSET Shipments) \cup Parcels \cup RequestType
          \cup [attempt : AttemptStatuses, follows : BOOLEAN]
          \cup [links : SUBSET Shipments, collected : SUBSET Shipments]
          \cup Live \cup {"ASK", "APPROVE", "REJECT"}
Ops == {"create", "cancel", "missed", "reschedule", "start", "assign",
        "transition", "exception", "scan", "missing", "complete"}
CallType == [op : Ops, step : 1 .. 3, r : Requests, n : Nat, saw : Saws,
             stale : BOOLEAN]
SawOk(x) ==
    /\ x.op = "create" => x.saw \in SUBSET Shipments
    /\ x.op = "transition" => x.saw \in Live
    /\ x.op \in {"scan", "missing"} => x.saw \in Parcels
    /\ x.op = "complete" =>
          x.saw \in [links : SUBSET Shipments, collected : SUBSET Shipments]

TypeInv ==
    /\ request \in [Requests -> RequestType]
    /\ attempt \in [Requests -> [1 .. MaxAttempts -> AttemptType]]
    /\ link \in [Requests -> LinkType]
    /\ accepted \subseteq Parcels /\ received \subseteq Parcels
    /\ handed \subseteq Parcels
    /\ events \in [Shipments -> SUBSET {"PARCEL_COLLECTED", "WAREHOUSE_SCAN_IN"}]
    /\ finalized \subseteq Shipments /\ stated \subseteq Shipments
    /\ strayed \subseteq Requests
    /\ DOMAIN call = Calls /\ call = [c \in Calls |-> call[c]]
    /\ \A c \in Calls : call[c] # Idle => call[c] \in CallType /\ SawOk(call[c])

InHand ==
    /\ received \subseteq handed
    /\ \A r \in Requests : Collected(r) \subseteq handed
    /\ \A c \in Calls : call[c] # Idle /\ call[c].op = "complete" =>
          Pieces(call[c].saw.collected) \subseteq handed

\* What a call has loaded is so still while the call is not out of date.
Fresh(x) ==
    /\ x.op = "create" => Status(x.r) = "NONE"
    /\ x.op \in {"cancel", "missed", "reschedule"} /\ x.step < 3 =>
          x.n = request[x.r].current
    /\ x.op = "reschedule" /\ x.step = 3 => LiveAttempts(x.r) = {}
    /\ x.op \in {"assign", "transition", "complete"} /\ x.step = 1 =>
          x.n \in LiveAttempts(x.r)
    /\ x.op = "complete" => x.saw.links = link[x.r].active

Pending(r) == \E c \in Calls : /\ On(call[c], r) /\ call[c].step = 2
                               /\ call[c].op \in {"missed", "reschedule"}

OneAtWork(r) == LiveAttempts(r) \subseteq {request[r].current}
NoneAtWork(r) ==
    Status(r) \in Receipted \cup {"NONE", "REQUESTED", "MISSED", "CANCELLED",
                                  "COLLECTED", "PARTIALLY_COLLECTED"} =>
        LiveAttempts(r) = {} \/ Pending(r)
NoneKept(r) == Status(r) \in Receipted \cup {"CANCELLED", "COLLECTED"} =>
                  link[r].active = {}

InOrder ==
    /\ \A r \in Requests \ strayed : OneAtWork(r) /\ NoneAtWork(r) /\ NoneKept(r)
    /\ \A c \in Calls : call[c] # Idle =>
          call[c].stale \/ call[c].r \in strayed \/ Fresh(call[c])
IInv == TypeInv /\ InHand /\ InOrder
-----------------------------------------------------------------------------
(* Calls                                                                   *)

LEMMA CallFields ==
    ASSUME TypeInv, NEW c \in Calls, call[c] # Idle
    PROVE  /\ call[c] \in CallType /\ SawOk(call[c])
           /\ call[c].op \in Ops /\ call[c].step \in 1 .. 3 /\ call[c].r \in Requests
           /\ call[c].n \in Nat /\ call[c].stale \in BOOLEAN
BY DEF TypeInv, CallType

LEMMA IdleIsNoCall ==
    /\ Idle.op = "idle"
    /\ \A x \in CallType : x # Idle /\ x.op # "idle"
BY DEF Idle, CallType, Ops

\* What a write to r does to the calls: c goes on as next, and what another
\* call has loaded of r is out of date.
Moved(c, r, next) ==
    /\ DOMAIN call' = Calls /\ call' = [d \in Calls |-> call'[d]]
    /\ call'[c] = next
    /\ \A d \in Calls \ {c} :
          call'[d] = IF On(call[d], r) THEN [call[d] EXCEPT !.stale = TRUE] ELSE call[d]
MovedAll(r) ==
    /\ DOMAIN call' = Calls /\ call' = [d \in Calls |-> call'[d]]
    /\ \A d \in Calls :
          call'[d] = IF On(call[d], r) THEN [call[d] EXCEPT !.stale = TRUE] ELSE call[d]
\* A call that writes nothing.
MovedOne(c, next) ==
    /\ DOMAIN call' = Calls /\ call' = [d \in Calls |-> call'[d]]
    /\ call'[c] = next
    /\ \A d \in Calls \ {c} : call'[d] = call[d]

LEMMA LandsMoves ==
    ASSUME NEW c \in Calls, NEW next, Lands(c, next)
    PROVE  /\ Moved(c, call[c].r, next)
           /\ call[c].stale => strayed' = strayed \cup {call[c].r}
           /\ ~ call[c].stale => strayed' = strayed
BY DEF Lands, Moved, Outdated

LEMMA HalfDoneMoves ==
    ASSUME NEW c \in Calls, HalfDone(c)
    PROVE  Moved(c, call[c].r, Idle) /\ strayed' = strayed \cup {call[c].r}
BY DEF HalfDone, Moved, Outdated

LEMMA AtomicMoves ==
    ASSUME NEW r, Atomic(r)
    PROVE  MovedAll(r)
BY DEF Atomic, MovedAll, Outdated

LEMMA OneMoves ==
    ASSUME TypeInv, NEW c \in Calls, NEW next, call' = [call EXCEPT ![c] = next]
    PROVE  MovedOne(c, next)
BY DEF TypeInv, MovedOne

\* A call that is out of date is still the call it was.
LEMMA StaleIs ==
    ASSUME NEW x \in CallType
    PROVE  LET y == [x EXCEPT !.stale = TRUE] IN
           /\ y \in CallType /\ y.op = x.op /\ y.step = x.step /\ y.r = x.r
           /\ y.n = x.n /\ y.saw = x.saw /\ y.stale = TRUE
           /\ SawOk(x) => SawOk(y)
BY DEF CallType, SawOk

\* The part of TypeInv that is about calls.
CallsOk ==
    /\ DOMAIN call = Calls /\ call = [c \in Calls |-> call[c]]
    /\ \A c \in Calls : call[c] # Idle => call[c] \in CallType /\ SawOk(call[c])

LEMMA MovedOk ==
    ASSUME TypeInv, NEW c \in Calls, NEW r, NEW next, Moved(c, r, next),
           next # Idle => next \in CallType /\ SawOk(next)
    PROVE  CallsOk'
<1>1. ASSUME NEW d \in Calls, call'[d] # Idle
      PROVE  call'[d] \in CallType /\ SawOk(call'[d])
  <2>1. CASE d = c
    BY <1>1, <2>1 DEF Moved
  <2>2. CASE d # c /\ On(call[d], r)
    <3>1. call'[d] = [call[d] EXCEPT !.stale = TRUE]
      BY <2>2 DEF Moved
    <3>2. call[d] \in CallType /\ SawOk(call[d])
      BY <2>2, CallFields DEF On
    <3> QED BY <3>1, <3>2, StaleIs
  <2>3. CASE d # c /\ ~ On(call[d], r)
    <3>1. call'[d] = call[d]
      BY <2>3 DEF Moved
    <3> QED BY <1>1, <3>1, CallFields
  <2> QED BY <2>1, <2>2, <2>3
<1> QED BY <1>1 DEF CallsOk, Moved, SawOk

LEMMA MovedAllOk ==
    ASSUME TypeInv, NEW r, MovedAll(r)
    PROVE  CallsOk'
<1>1. ASSUME NEW d \in Calls, call'[d] # Idle
      PROVE  call'[d] \in CallType /\ SawOk(call'[d])
  <2>2. CASE On(call[d], r)
    <3>1. call'[d] = [call[d] EXCEPT !.stale = TRUE]
      BY <2>2 DEF MovedAll
    <3>2. call[d] \in CallType /\ SawOk(call[d])
      BY <2>2, CallFields DEF On
    <3> QED BY <3>1, <3>2, StaleIs
  <2>3. CASE ~ On(call[d], r)
    <3>1. call'[d] = call[d]
      BY <2>3 DEF MovedAll
    <3> QED BY <1>1, <3>1, CallFields
  <2> QED BY <2>2, <2>3
<1> QED BY <1>1 DEF CallsOk, MovedAll, SawOk

LEMMA MovedOneOk ==
    ASSUME TypeInv, NEW c \in Calls, NEW next, MovedOne(c, next),
           next # Idle => next \in CallType /\ SawOk(next)
    PROVE  CallsOk'
<1>1. ASSUME NEW d \in Calls, call'[d] # Idle
      PROVE  call'[d] \in CallType /\ SawOk(call'[d])
  <2>1. CASE d = c
    BY <1>1, <2>1 DEF MovedOne
  <2>3. CASE d # c
    <3>1. call'[d] = call[d]
      BY <2>3 DEF MovedOne
    <3> QED BY <1>1, <3>1, CallFields
  <2> QED BY <2>1, <2>3
<1> QED BY <1>1 DEF CallsOk, MovedOne, SawOk


-----------------------------------------------------------------------------
(* Types                                                                   *)

DocsOk ==
    /\ request \in [Requests -> RequestType]
    /\ attempt \in [Requests -> [1 .. MaxAttempts -> AttemptType]]
    /\ link \in [Requests -> LinkType]
RestOk ==
    /\ accepted \subseteq Parcels /\ received \subseteq Parcels
    /\ handed \subseteq Parcels
    /\ events \in [Shipments -> SUBSET {"PARCEL_COLLECTED", "WAREHOUSE_SCAN_IN"}]
    /\ finalized \subseteq Shipments /\ stated \subseteq Shipments

LEMMA TypeIs ==
    /\ TypeInv <=> DocsOk /\ RestOk /\ CallsOk /\ strayed \subseteq Requests
    /\ TypeInv' <=> DocsOk' /\ RestOk' /\ CallsOk' /\ strayed' \subseteq Requests
BY DEF TypeInv, DocsOk, RestOk, CallsOk

Ends(c) ==
    \/ Done(c) \/ HalfDone(c) \/ Refused(c)
    \/ call[c].step # 3 /\ GoOn(c)

\* The call after one more of its writes.
LEMMA NextStep ==
    ASSUME NEW x \in CallType, x.step # 3
    PROVE  LET y == [x EXCEPT !.step = x.step + 1] IN
           /\ y \in CallType /\ y.op = x.op /\ y.step = x.step + 1 /\ y.r = x.r
           /\ y.n = x.n /\ y.saw = x.saw /\ y.stale = x.stale
           /\ SawOk(x) => SawOk(y)
BY DEF CallType, SawOk

LEMMA CallsAfter ==
    ASSUME TypeInv, NEW c \in Calls, call[c] # Idle, Ends(c)
    PROVE  CallsOk' /\ strayed' \subseteq Requests
<1>1. call[c] \in CallType /\ SawOk(call[c]) /\ call[c].r \in Requests
      /\ strayed \subseteq Requests
  BY CallFields DEF TypeInv
<1>2. CASE Done(c)
  BY <1>1, <1>2, LandsMoves, MovedOk DEF Done, Lands
<1>3. CASE HalfDone(c)
  BY <1>1, <1>3, HalfDoneMoves, MovedOk DEF HalfDone
<1>4. CASE Refused(c)
  BY <1>1, <1>4, OneMoves, MovedOneOk DEF Refused
<1>5. CASE call[c].step # 3 /\ GoOn(c)
  <2> DEFINE next == [call[c] EXCEPT !.step = call[c].step + 1]
  <2>1. Lands(c, next)
    BY <1>5 DEF GoOn
  <2>2. next \in CallType /\ SawOk(next)
    BY <1>1, <1>5, NextStep
  <2> HIDE DEF next
  <2> QED BY <1>1, <2>1, <2>2, LandsMoves, MovedOk DEF Lands
<1> QED BY <1>2, <1>3, <1>4, <1>5 DEF Ends

\* A call that is doing something is a call, at the step it is at.
LEMMA DoingIs ==
    ASSUME TypeInv, NEW c \in Calls, NEW op \in Ops, NEW step, Doing(c, op, step)
    PROVE  /\ call[c] # Idle /\ call[c] \in CallType /\ SawOk(call[c])
           /\ call[c].op = op /\ call[c].step = step
           /\ call[c].r \in Requests /\ call[c].n \in Nat
<1>1. op # "idle"
  BY DEF Ops
<1> QED BY <1>1, CallFields, IdleIsNoCall DEF Doing

LEMMA StatusTyped ==
    ASSUME DocsOk, NEW r \in Requests, NEW status, SetStatus(r, status),
           status \in {"NONE", "REQUESTED", "CONFIRMED", "DRIVER_ASSIGNED",
                       "IN_PROGRESS", "ACTION_REQUIRED", "MISSED", "CANCELLED",
                       "COLLECTED", "PARTIALLY_COLLECTED"} \cup Receipted
    PROVE  /\ request' \in [Requests -> RequestType]
           /\ request'[r].status = status /\ request'[r].current = request[r].current
           /\ \A q \in Requests : q # r => request'[q] = request[q]
BY DEF DocsOk, SetStatus, RequestType

LEMMA AttemptTyped ==
    ASSUME DocsOk, NEW r \in Requests, NEW n, NEW status \in AttemptStatuses,
           SetAttempt(r, n, status)
    PROVE  /\ attempt' \in [Requests -> [1 .. MaxAttempts -> AttemptType]]
           /\ \A q \in Requests : q # r => attempt'[q] = attempt[q]
           /\ \A m \in 1 .. MaxAttempts :
                 attempt'[r][m].status = IF m = n THEN status ELSE attempt[r][m].status
<1>1. attempt \in [Requests -> [1 .. MaxAttempts -> AttemptType]]
  BY DEF DocsOk
<1>2. attempt' = [attempt EXCEPT ![r] = [attempt[r] EXCEPT ![n].status = status]]
  BY DEF SetAttempt
<1> DEFINE old == attempt[r]
           row == [old EXCEPT ![n].status = status]
<1>0. old \in [1 .. MaxAttempts -> AttemptType]
  BY <1>1
<1> HIDE DEF old
<1>3. ASSUME NEW m \in 1 .. MaxAttempts
      PROVE  /\ row[m] \in AttemptType
             /\ row[m].status = IF m = n THEN status ELSE old[m].status
  <2>1. old[m] \in AttemptType
    BY <1>0
  <2>2. CASE m = n
    <3>1. row[m] = [old[m] EXCEPT !.status = status]
      BY <1>0, <2>2
    <3> QED BY <2>1, <2>2, <3>1 DEF AttemptType
  <2>3. CASE m # n
    <3>1. row[m] = old[m]
      BY <1>0, <2>3
    <3> QED BY <2>1, <2>3, <3>1
  <2> QED BY <2>2, <2>3
<1>4. DOMAIN row = 1 .. MaxAttempts /\ row = [m \in 1 .. MaxAttempts |-> row[m]]
  BY <1>0
<1>5. row \in [1 .. MaxAttempts -> AttemptType]
  <2> HIDE DEF row
  <2> QED BY <1>3, <1>4
<1>6. attempt' = [attempt EXCEPT ![r] = row]
  BY <1>2 DEF old
<1> HIDE DEF row
<1> QED BY <1>1, <1>3, <1>5, <1>6 DEF old


-----------------------------------------------------------------------------
(* What a step leaves of the order                                         *)

Same(q) == /\ request'[q] = request[q] /\ attempt'[q] = attempt[q]
           /\ link'[q] = link[q]
OthersSame(r) == \A q \in Requests : q # r => Same(q)

LEMMA SameIs ==
    ASSUME NEW q, Same(q)
    PROVE  /\ LiveAttempts(q)' = LiveAttempts(q) /\ Status(q)' = Status(q)
           /\ OneAtWork(q)' <=> OneAtWork(q)
           /\ NoneKept(q)' <=> NoneKept(q)
<1>1. request'[q] = request[q] /\ attempt'[q] = attempt[q] /\ link'[q] = link[q]
  BY DEF Same
<1>2. LiveAttempts(q)' = LiveAttempts(q)
  BY <1>1 DEF LiveAttempts, Attempts
<1>3. Status(q)' = Status(q)
  BY <1>1 DEF Status
<1> QED BY <1>1, <1>2, <1>3 DEF OneAtWork, NoneKept

\* Only the writes that end a call's second step end what it leaves pending.
IsPending(x) == x.step = 2 /\ x.op \in {"missed", "reschedule"}

LEMMA PendingMoved ==
    ASSUME TypeInv, NEW c \in Calls, NEW r, NEW next, Moved(c, r, next), NEW q,
           On(call[c], q) => ~ IsPending(call[c]),
           Pending(q)
    PROVE  Pending(q)'
<1>1. PICK d \in Calls : On(call[d], q) /\ IsPending(call[d])
  BY DEF Pending, IsPending
<1>2. d # c /\ call[d] \in CallType
  BY <1>1, CallFields DEF On
<1>3. On(call'[d], q) /\ IsPending(call'[d])
  <2>1. CASE On(call[d], r)
    <3>1. call'[d] = [call[d] EXCEPT !.stale = TRUE]
      BY <1>2, <2>1 DEF Moved
    <3>2. /\ call'[d] \in CallType /\ call'[d].op = call[d].op
          /\ call'[d].step = call[d].step /\ call'[d].r = call[d].r
      BY <1>2, <3>1, StaleIs
    <3> QED BY <1>1, <3>2, IdleIsNoCall DEF On, IsPending
  <2>2. CASE ~ On(call[d], r)
    BY <1>1, <1>2, <2>2 DEF Moved
  <2> QED BY <2>1, <2>2
<1> QED BY <1>3 DEF Pending, IsPending, On, Idle

LEMMA PendingMovedAll ==
    ASSUME TypeInv, NEW r, MovedAll(r), NEW q, Pending(q)
    PROVE  Pending(q)'
<1>1. PICK d \in Calls : On(call[d], q) /\ IsPending(call[d])
  BY DEF Pending, IsPending
<1>2. call[d] \in CallType
  BY <1>1, CallFields DEF On
<1>3. On(call'[d], q) /\ IsPending(call'[d])
  <2>1. CASE On(call[d], r)
    <3>1. call'[d] = [call[d] EXCEPT !.stale = TRUE]
      BY <1>2, <2>1 DEF MovedAll
    <3>2. /\ call'[d] \in CallType /\ call'[d].op = call[d].op
          /\ call'[d].step = call[d].step /\ call'[d].r = call[d].r
      BY <1>2, <3>1, StaleIs
    <3> QED BY <1>1, <3>2, IdleIsNoCall DEF On, IsPending
  <2>2. CASE ~ On(call[d], r)
    BY <1>1, <1>2, <2>2 DEF MovedAll
  <2> QED BY <2>1, <2>2
<1> QED BY <1>3 DEF Pending, IsPending, On, Idle

LEMMA PendingMovedOne ==
    ASSUME TypeInv, NEW c \in Calls, NEW next, MovedOne(c, next), NEW q,
           On(call[c], q) => ~ IsPending(call[c]),
           Pending(q)
    PROVE  Pending(q)'
<1>1. PICK d \in Calls : On(call[d], q) /\ IsPending(call[d])
  BY DEF Pending, IsPending
<1>2. d # c /\ call'[d] = call[d]
  BY <1>1 DEF MovedOne
<1> QED BY <1>1, <1>2 DEF Pending, IsPending, On, Idle

\* What a call has loaded is so still when its request has not been written to.
LEMMA FreshSame ==
    ASSUME NEW d, NEW q, call[d].r = q, Same(q), call'[d] = call[d], Fresh(call[d])
    PROVE  Fresh(call[d])'
<1>1. request'[q] = request[q] /\ link'[q] = link[q] /\ call'[d].r = q
  BY DEF Same
<1>2. LiveAttempts(q)' = LiveAttempts(q) /\ Status(q)' = Status(q)
  BY SameIs
<1>3. LiveAttempts(call[d].r)' = LiveAttempts(call[d].r)
  BY <1>1, <1>2 DEF LiveAttempts, Attempts
<1>4. Status(call[d].r)' = Status(call[d].r)
  BY <1>1 DEF Status
<1> QED BY <1>1, <1>3, <1>4 DEF Fresh

Orderly(r) == OneAtWork(r) /\ NoneAtWork(r) /\ NoneKept(r)

\* A write of c to r keeps the order if it leaves r in order, and if what it has
\* still to write is as it loaded it.
LEMMA WriteOrder ==
    ASSUME TypeInv, TypeInv', InOrder, NEW c \in Calls, call[c] # Idle,
           NEW r \in Requests, call[c].r = r,
           NEW next, Moved(c, r, next), OthersSame(r), strayed \subseteq strayed',
           r \notin strayed' => Orderly(r)' /\ (next # Idle => Fresh(call[c])'),
           next # Idle => next.r = r
    PROVE  InOrder'
<1>1. ASSUME NEW q \in Requests, q \notin strayed'
      PROVE  OneAtWork(q)' /\ NoneAtWork(q)' /\ NoneKept(q)'
  <2>1. CASE q = r
    BY <1>1, <2>1 DEF Orderly
  <2>2. CASE q # r
    <3>1. Same(q) /\ q \notin strayed
      BY <1>1, <2>2 DEF OthersSame
    <3>2. OneAtWork(q) /\ NoneAtWork(q) /\ NoneKept(q)
      BY <3>1 DEF InOrder
    <3>3. /\ LiveAttempts(q)' = LiveAttempts(q) /\ Status(q)' = Status(q)
          /\ OneAtWork(q)' /\ NoneKept(q)'
      BY <3>1, <3>2, SameIs
    <3>4. Pending(q) => Pending(q)'
      <4>1. ~ On(call[c], q)
        BY <2>2 DEF On
      <4> QED BY <4>1, PendingMoved
    <3> QED BY <3>2, <3>3, <3>4 DEF NoneAtWork
  <2> QED BY <2>1, <2>2
<1>2. ASSUME NEW d \in Calls, call'[d] # Idle, ~ call'[d].stale, call'[d].r \notin strayed'
      PROVE  Fresh(call[d])'
  <2>1. CASE d = c
    <3>1. call'[c] = next /\ next # Idle /\ next.r = r
      BY <1>2, <2>1 DEF Moved
    <3> QED BY <1>2, <2>1, <3>1
  <2>2. CASE d # c
    <3>1. ~ On(call[d], r)
      <4>1. SUFFICES ASSUME On(call[d], r) PROVE FALSE
        OBVIOUS
      <4>2. call'[d] = [call[d] EXCEPT !.stale = TRUE] /\ call[d] \in CallType
        BY <2>2, <4>1, CallFields DEF Moved, On
      <4> QED BY <1>2, <4>2, StaleIs
    <3>2. call'[d] = call[d]
      BY <2>2, <3>1 DEF Moved
    <3>3. call[d] # Idle /\ call[d].r # r /\ call[d].r \in Requests
      BY <1>2, <3>1, <3>2, CallFields DEF On
    <3>4. Same(call[d].r)
      BY <3>3 DEF OthersSame
    <3>5. Fresh(call[d])
      BY <1>2, <3>2, <3>3 DEF InOrder
    <3> QED BY <3>2, <3>4, <3>5, FreshSame
  <2> QED BY <2>1, <2>2
<1>3. \A d \in Calls : call'[d] # Idle =>
         call'[d].stale \/ call'[d].r \in strayed' \/ Fresh(call[d])'
  BY <1>2
<1> QED BY <1>1, <1>3 DEF InOrder, Idle

\* A transaction on r keeps the order if it leaves r in order.
LEMMA AtomicOrder ==
    ASSUME TypeInv, TypeInv', InOrder, NEW r \in Requests, MovedAll(r), OthersSame(r),
           strayed \subseteq strayed', r \notin strayed' => Orderly(r)'
    PROVE  InOrder'
<1>1. ASSUME NEW q \in Requests, q \notin strayed'
      PROVE  OneAtWork(q)' /\ NoneAtWork(q)' /\ NoneKept(q)'
  <2>1. CASE q = r
    BY <1>1, <2>1 DEF Orderly
  <2>2. CASE q # r
    <3>1. Same(q) /\ q \notin strayed
      BY <1>1, <2>2 DEF OthersSame
    <3>2. OneAtWork(q) /\ NoneAtWork(q) /\ NoneKept(q)
      BY <3>1 DEF InOrder
    <3>3. /\ LiveAttempts(q)' = LiveAttempts(q) /\ Status(q)' = Status(q)
          /\ OneAtWork(q)' /\ NoneKept(q)'
      BY <3>1, <3>2, SameIs
    <3>4. Pending(q) => Pending(q)'
      BY PendingMovedAll
    <3> QED BY <3>2, <3>3, <3>4 DEF NoneAtWork
  <2> QED BY <2>1, <2>2
<1>2. ASSUME NEW d \in Calls, call'[d] # Idle, ~ call'[d].stale, call'[d].r \notin strayed'
      PROVE  Fresh(call[d])'
  <2>1. ~ On(call[d], r)
    <3>1. SUFFICES ASSUME On(call[d], r) PROVE FALSE
      OBVIOUS
    <3>2. call'[d] = [call[d] EXCEPT !.stale = TRUE] /\ call[d] \in CallType
      BY <3>1, CallFields DEF MovedAll, On
    <3> QED BY <1>2, <3>2, StaleIs
  <2>2. call'[d] = call[d]
    BY <2>1 DEF MovedAll
  <2>3. call[d] # Idle /\ call[d].r # r /\ call[d].r \in Requests
    BY <1>2, <2>1, <2>2, CallFields DEF On
  <2>4. Same(call[d].r)
    BY <2>3 DEF OthersSame
  <2>5. Fresh(call[d])
    BY <1>2, <2>2, <2>3 DEF InOrder
  <2> QED BY <2>2, <2>4, <2>5, FreshSame
<1>3. \A d \in Calls : call'[d] # Idle =>
         call'[d].stale \/ call'[d].r \in strayed' \/ Fresh(call[d])'
  BY <1>2
<1> QED BY <1>1, <1>3 DEF InOrder, Idle

\* So does a call that starts or ends without writing, unless it leaves its work
\* half done.
LEMMA QuietOrder ==
    ASSUME TypeInv, TypeInv', InOrder, NEW c \in Calls, NEW next, MovedOne(c, next),
           UNCHANGED pickup, strayed \subseteq strayed',
           call[c] # Idle /\ IsPending(call[c]) => call[c].r \in strayed',
           next # Idle => Fresh(call[c])'
    PROVE  InOrder'
<1>1. ASSUME NEW q \in Requests, q \notin strayed'
      PROVE  OneAtWork(q)' /\ NoneAtWork(q)' /\ NoneKept(q)'
  <2>1. Same(q) /\ q \notin strayed
    BY <1>1 DEF pickup, Same
  <2>2. OneAtWork(q) /\ NoneAtWork(q) /\ NoneKept(q)
    BY <2>1 DEF InOrder
  <2>3. /\ LiveAttempts(q)' = LiveAttempts(q) /\ Status(q)' = Status(q)
        /\ OneAtWork(q)' /\ NoneKept(q)'
    BY <2>1, <2>2, SameIs
  <2>4. Pending(q) => Pending(q)'
    <3>1. On(call[c], q) => ~ IsPending(call[c])
      BY <1>1 DEF On
    <3> QED BY <3>1, PendingMovedOne
  <2> QED BY <2>2, <2>3, <2>4 DEF NoneAtWork
<1>2. ASSUME NEW d \in Calls, call'[d] # Idle, ~ call'[d].stale, call'[d].r \notin strayed'
      PROVE  Fresh(call[d])'
  <2>1. CASE d = c
    BY <1>2, <2>1 DEF MovedOne
  <2>2. CASE d # c
    <3>1. call'[d] = call[d]
      BY <2>2 DEF MovedOne
    <3>2. call[d] # Idle /\ Same(call[d].r)
      BY <1>2, <3>1 DEF pickup, Same
    <3>3. Fresh(call[d])
      BY <1>2, <3>1, <3>2 DEF InOrder
    <3> QED BY <3>1, <3>2, <3>3, FreshSame
  <2> QED BY <2>1, <2>2
<1>3. \A d \in Calls : call'[d] # Idle =>
         call'[d].stale \/ call'[d].r \in strayed' \/ Fresh(call[d])'
  BY <1>2
<1> QED BY <1>1, <1>3 DEF InOrder, Idle


-----------------------------------------------------------------------------
(* The writes of a call                                                    *)

\* What calls in completion have loaded is what they had loaded.
LoadsKept ==
    \A d \in Calls : call'[d] # Idle /\ call'[d].op = "complete" =>
       call[d] # Idle /\ call[d].op = "complete" /\ call'[d].saw = call[d].saw

LEMMA LoadsMoved ==
    ASSUME TypeInv, NEW c \in Calls, NEW r, NEW next,
           Moved(c, r, next) \/ MovedOne(c, next),
           next # Idle /\ next.op = "complete" =>
              call[c] # Idle /\ call[c].op = "complete" /\ next.saw = call[c].saw
    PROVE  LoadsKept
<1>1. ASSUME NEW d \in Calls, call'[d] # Idle, call'[d].op = "complete"
      PROVE  call[d] # Idle /\ call[d].op = "complete" /\ call'[d].saw = call[d].saw
  <2>1. CASE d = c
    BY <1>1, <2>1 DEF Moved, MovedOne
  <2>2. CASE d # c
    <3>1. call'[d] = call[d] \/ (On(call[d], r) /\ call'[d] = [call[d] EXCEPT !.stale = TRUE])
      <4>1. CASE On(call[d], r)
        BY <2>2, <4>1 DEF Moved, MovedOne
      <4>2. CASE ~ On(call[d], r)
        BY <2>2, <4>2 DEF Moved, MovedOne
      <4> QED BY <4>1, <4>2
    <3>2. CASE call'[d] = call[d]
      BY <1>1, <3>2
    <3>3. CASE On(call[d], r) /\ call'[d] = [call[d] EXCEPT !.stale = TRUE]
      <4>1. call[d] # Idle /\ call[d] \in CallType
        BY <3>3, CallFields DEF On
      <4> QED BY <1>1, <3>3, <4>1, StaleIs
    <3> QED BY <3>1, <3>2, <3>3
  <2> QED BY <2>1, <2>2
<1> QED BY <1>1 DEF LoadsKept

LEMMA LoadsMovedAll ==
    ASSUME TypeInv, NEW r, MovedAll(r)
    PROVE  LoadsKept
<1>1. ASSUME NEW d \in Calls, call'[d] # Idle, call'[d].op = "complete"
      PROVE  call[d] # Idle /\ call[d].op = "complete" /\ call'[d].saw = call[d].saw
  <2>1. call'[d] = call[d] \/ (On(call[d], r) /\ call'[d] = [call[d] EXCEPT !.stale = TRUE])
    <3>1. CASE On(call[d], r)
      BY <3>1 DEF MovedAll
    <3>2. CASE ~ On(call[d], r)
      BY <3>2 DEF MovedAll
    <3> QED BY <3>1, <3>2
  <2>2. CASE call'[d] = call[d]
    BY <1>1, <2>2
  <2>3. CASE On(call[d], r) /\ call'[d] = [call[d] EXCEPT !.stale = TRUE]
    <3>1. call[d] # Idle /\ call[d] \in CallType
      BY <2>3, CallFields DEF On
    <3> QED BY <1>1, <2>3, <3>1, StaleIs
  <2> QED BY <2>1, <2>2, <2>3
<1> QED BY <1>1 DEF LoadsKept

\* What every write of a call does to the calls and to strayed.
Wrote(c, r, next) ==
    /\ CallsOk' /\ strayed' \subseteq Requests /\ LoadsKept
    /\ Moved(c, r, next) /\ strayed \subseteq strayed'
    /\ call[c].stale => r \in strayed'

LEMMA DoneWrites ==
    ASSUME TypeInv, NEW c \in Calls, call[c] # Idle, Done(c) \/ HalfDone(c)
    PROVE  Wrote(c, call[c].r, Idle)
<1>1. CallsOk' /\ strayed' \subseteq Requests
  BY CallsAfter DEF Ends
<1>2. /\ Moved(c, call[c].r, Idle) /\ strayed \subseteq strayed'
      /\ call[c].stale => call[c].r \in strayed'
  BY LandsMoves, HalfDoneMoves, CallFields DEF Done
<1>3. LoadsKept
  BY <1>2, LoadsMoved
<1> QED BY <1>1, <1>2, <1>3 DEF Wrote

LEMMA GoOnWrites ==
    ASSUME TypeInv, NEW c \in Calls, call[c] # Idle, call[c].step # 3, GoOn(c)
    PROVE  LET next == [call[c] EXCEPT !.step = call[c].step + 1] IN
           /\ Wrote(c, call[c].r, next)
           /\ call'[c] = next /\ next \in CallType /\ next # Idle /\ next.op = call[c].op
           /\ next.step = call[c].step + 1 /\ next.r = call[c].r
           /\ next.n = call[c].n /\ next.saw = call[c].saw
<1> DEFINE next == [call[c] EXCEPT !.step = call[c].step + 1]
<1>1. CallsOk' /\ strayed' \subseteq Requests
  BY CallsAfter DEF Ends
<1>2. /\ next \in CallType /\ next.op = call[c].op /\ next.step = call[c].step + 1
      /\ next.r = call[c].r /\ next.n = call[c].n /\ next.saw = call[c].saw
  BY CallFields, NextStep
<1>3. Lands(c, next)
  BY DEF GoOn
<1> HIDE DEF next
<1>4. /\ Moved(c, call[c].r, next) /\ strayed \subseteq strayed'
      /\ call[c].stale => call[c].r \in strayed'
  BY <1>3, LandsMoves, CallFields
<1>5. LoadsKept
  BY <1>2, <1>4, LoadsMoved
<1>6. call'[c] = next
  BY <1>4 DEF Moved
<1>7. next # Idle
  BY <1>2, IdleIsNoCall
<1> QED BY <1>1, <1>2, <1>4, <1>5, <1>6, <1>7 DEF Wrote, next

\* A call that writes, and is not left to its own, has what it loaded.
LEMMA LoadedIs ==
    ASSUME TypeInv, InOrder, NEW c \in Calls, call[c] # Idle, NEW next,
           Wrote(c, call[c].r, next), call[c].r \notin strayed'
    PROVE  /\ Fresh(call[c]) /\ OneAtWork(call[c].r) /\ NoneAtWork(call[c].r)
           /\ NoneKept(call[c].r)
<1>1. call[c].r \notin strayed /\ call[c].r \in Requests
  BY CallFields DEF Wrote
<1>2. ~ call[c].stale
  BY DEF Wrote
<1> QED BY <1>1, <1>2 DEF InOrder

\* The attempts that are at work.
LEMMA LiveIs ==
    ASSUME NEW r
    PROVE  LiveAttempts(r) = {m \in 1 .. MaxAttempts : attempt[r][m].status \in Live}
BY DEF LiveAttempts, Attempts, Live

LEMMA LiveIsNext ==
    ASSUME NEW r
    PROVE  LiveAttempts(r)' = {m \in 1 .. MaxAttempts : attempt'[r][m].status \in Live}
BY DEF LiveAttempts, Attempts, Live

LEMMA LiveAfter ==
    ASSUME DocsOk, NEW r \in Requests, NEW n, NEW status \in AttemptStatuses,
           SetAttempt(r, n, status)
    PROVE  /\ status \notin Live => LiveAttempts(r)' = LiveAttempts(r) \ {n}
           /\ status \in Live /\ n \in LiveAttempts(r) =>
                 LiveAttempts(r)' = LiveAttempts(r)
<1>1. \A m \in 1 .. MaxAttempts :
         attempt'[r][m].status = IF m = n THEN status ELSE attempt[r][m].status
  BY AttemptTyped
<1> DEFINE L == LiveAttempts(r)
           LL == LiveAttempts(r)'
<1>2. /\ L \subseteq 1 .. MaxAttempts /\ LL \subseteq 1 .. MaxAttempts
      /\ \A m \in 1 .. MaxAttempts :
            /\ m \in L <=> attempt[r][m].status \in Live
            /\ m \in LL <=> attempt'[r][m].status \in Live
  BY LiveIs, LiveIsNext
<1> HIDE DEF L, LL
<1>3. \A m \in 1 .. MaxAttempts :
         m \in LL <=> (IF m = n THEN status \in Live ELSE m \in L)
  BY <1>1, <1>2
<1>4. status \notin Live => LL = L \ {n}
  BY <1>2, <1>3
<1>5. status \in Live /\ n \in L => LL = L
  BY <1>2, <1>3
<1> QED BY <1>4, <1>5 DEF L, LL

\* What a step may do to the goods and to the charges.
HandStep ==
    /\ handed \subseteq handed' /\ received' \subseteq received \cup handed'
    /\ \A q \in Requests : Collected(q)' \subseteq Collected(q) \cup handed'
    /\ \A s \in finalized' : s \in finalized \/ s \in stated' \/ Pieces({s}) \subseteq handed'
    /\ stated \subseteq stated'
    /\ \A d \in Calls : call'[d] # Idle /\ call'[d].op = "complete" =>
          Pieces(call'[d].saw.collected) \subseteq handed'

GoodsStep ==
    /\ handed \subseteq handed' /\ received' \subseteq received \cup handed'
    /\ \A s \in finalized' : s \in finalized \/ s \in stated' \/ Pieces({s}) \subseteq handed'
    /\ stated \subseteq stated'

LEMMA GoodsMoved ==
    ASSUME InHand, LoadsKept, GoodsStep,
           \A q \in Requests : Collected(q)' \subseteq Collected(q) \cup handed'
    PROVE  HandStep
BY DEF HandStep, LoadsKept, InHand, GoodsStep

LEMMA CollectedSame ==
    ASSUME NEW q, link'[q] = link[q]
    PROVE  Collected(q)' = Collected(q)
BY DEF Collected


-----------------------------------------------------------------------------
(* One lemma for each write.                                               *)

Keeps == TypeInv' /\ HandStep /\ InOrder'

LEMMA WriteKeeps ==
    ASSUME IInv, NEW c \in Calls, call[c] # Idle, NEW r, call[c].r = r,
           NEW next, Wrote(c, r, next), next # Idle => next.r = r,
           DocsOk', OthersSame(r), RestOk', GoodsStep,
           Collected(r)' \subseteq Collected(r) \cup handed',
           r \notin strayed' => Orderly(r)' /\ (next # Idle => Fresh(call[c])')
    PROVE  Keeps
<1>0. TypeInv /\ InHand /\ InOrder /\ r \in Requests
  BY CallFields DEF IInv
<1>1. TypeInv'
  BY TypeIs DEF Wrote
<1>2. HandStep
  <2>1. ASSUME NEW q \in Requests PROVE Collected(q)' \subseteq Collected(q) \cup handed'
    <3>1. CASE q = r
      BY <3>1
    <3>2. CASE q # r
      <4>1. link'[q] = link[q]
        BY <3>2 DEF OthersSame, Same
      <4> QED BY <4>1, CollectedSame
    <3> QED BY <3>1, <3>2
  <2> QED BY <1>0, <2>1, GoodsMoved DEF Wrote
<1>3. InOrder'
  BY <1>0, <1>1, WriteOrder DEF Wrote
<1> QED BY <1>1, <1>2, <1>3 DEF Keeps

\* A write to the request, or to one of its attempts, and to nothing else.
LEMMA RestSame ==
    ASSUME TypeInv, UNCHANGED <<accepted, timeline, handed>>
    PROVE  RestOk' /\ GoodsStep
BY TypeIs DEF RestOk, timeline, GoodsStep

LEMMA RequestKeeps ==
    ASSUME IInv, NEW c \in Calls, call[c] # Idle, NEW r, call[c].r = r,
           NEW next, Wrote(c, r, next), next # Idle => next.r = r,
           request' \in [Requests -> RequestType],
           \A q \in Requests : q # r => request'[q] = request[q],
           UNCHANGED <<attempt, link, accepted, timeline, handed>>,
           r \notin strayed' => Orderly(r)' /\ (next # Idle => Fresh(call[c])')
    PROVE  Keeps
<1>1. TypeInv
  BY DEF IInv
<1>2. DocsOk' /\ OthersSame(r)
  BY <1>1, TypeIs DEF DocsOk, OthersSame, Same
<1>3. RestOk' /\ GoodsStep
  BY <1>1, RestSame
<1>4. Collected(r)' = Collected(r)
  BY CollectedSame
<1> QED BY <1>2, <1>3, <1>4, WriteKeeps

LEMMA AttemptKeeps ==
    ASSUME IInv, NEW c \in Calls, call[c] # Idle, NEW r, call[c].r = r,
           NEW next, Wrote(c, r, next), next # Idle => next.r = r,
           attempt' \in [Requests -> [1 .. MaxAttempts -> AttemptType]],
           \A q \in Requests : q # r => attempt'[q] = attempt[q],
           UNCHANGED <<request, link, accepted, timeline, handed>>,
           r \notin strayed' => Orderly(r)' /\ (next # Idle => Fresh(call[c])')
    PROVE  Keeps
<1>1. TypeInv
  BY DEF IInv
<1>2. DocsOk' /\ OthersSame(r)
  BY <1>1, TypeIs DEF DocsOk, OthersSame, Same
<1>3. RestOk' /\ GoodsStep
  BY <1>1, RestSame
<1>4. Collected(r)' = Collected(r)
  BY CollectedSame
<1> QED BY <1>2, <1>3, <1>4, WriteKeeps

\* A status in which a pickup may have a driver at work.
InWork == {"CONFIRMED", "DRIVER_ASSIGNED", "IN_PROGRESS", "ACTION_REQUIRED"}

LEMMA WorkingIsOrderly ==
    ASSUME NEW r, OneAtWork(r), UNCHANGED attempt,
           request'[r].current = request[r].current, request'[r].status \in InWork
    PROVE  Orderly(r)'
<1>1. LiveAttempts(r)' = LiveAttempts(r)
  BY DEF LiveAttempts, Attempts
<1>2. OneAtWork(r)'
  BY <1>1 DEF OneAtWork
<1>3. /\ Status(r)' \notin Receipted \cup {"NONE", "REQUESTED", "MISSED", "CANCELLED",
                                           "COLLECTED", "PARTIALLY_COLLECTED"}
      /\ Status(r)' \notin Receipted \cup {"CANCELLED", "COLLECTED"}
  BY DEF Status, InWork, Receipted
<1>4. NoneAtWork(r)' /\ NoneKept(r)'
  BY <1>3 DEF NoneAtWork, NoneKept
<1> QED BY <1>2, <1>4 DEF Orderly

LEMMA StartKeeps ==
    ASSUME IInv, NEW c \in Calls, NEW r, call[c].r = r, Start(c)
    PROVE  Keeps
<1>0. TypeInv /\ InOrder /\ call[c] # Idle /\ r \in Requests /\ DocsOk
  BY DoingIs, TypeIs DEF IInv, Start, Ops
<1>1. request' = [request EXCEPT ![r].status = "IN_PROGRESS", ![r].started = TRUE]
      /\ Done(c) /\ UNCHANGED <<attempt, link, accepted, timeline, handed>>
  BY DEF Start
<1>2. Wrote(c, r, Idle)
  BY <1>0, <1>1, DoneWrites
<1>3. /\ request' \in [Requests -> RequestType]
      /\ request'[r].current = request[r].current /\ request'[r].status = "IN_PROGRESS"
      /\ \A q \in Requests : q # r => request'[q] = request[q]
  BY <1>0, <1>1 DEF DocsOk, RequestType
<1>4. r \notin strayed' => OneAtWork(r)
  BY <1>0, <1>2, LoadedIs
<1>5. r \notin strayed' => Orderly(r)'
  BY <1>1, <1>3, <1>4, WorkingIsOrderly DEF InWork
<1> QED BY <1>0, <1>1, <1>2, <1>3, <1>5, RequestKeeps

\* The writes that set a status under which a driver may be at work.
LEMMA StatusKeeps ==
    ASSUME IInv, NEW c \in Calls, call[c] # Idle, NEW r, call[c].r = r, Done(c),
           NEW status \in InWork, SetStatus(r, status),
           UNCHANGED <<attempt, link, accepted, timeline, handed>>
    PROVE  Keeps
<1>0. TypeInv /\ InOrder /\ r \in Requests /\ DocsOk
  BY CallFields, TypeIs DEF IInv
<1>2. Wrote(c, r, Idle)
  BY <1>0, DoneWrites
<1>4. /\ request' \in [Requests -> RequestType]
      /\ request'[r].current = request[r].current /\ request'[r].status = status
      /\ \A q \in Requests : q # r => request'[q] = request[q]
  BY <1>0, StatusTyped DEF InWork
<1>5. r \notin strayed' => OneAtWork(r)
  BY <1>0, <1>2, LoadedIs
<1>6. r \notin strayed' => Orderly(r)'
  BY <1>4, <1>5, WorkingIsOrderly
<1> QED BY <1>0, <1>2, <1>4, <1>6, RequestKeeps

LEMMA FollowKeeps ==
    ASSUME IInv, NEW c \in Calls, NEW r, call[c].r = r,
           FollowAttempt(c) \/ FollowException(c)
    PROVE  Keeps
<1>1. CASE FollowAttempt(c)
  <2>1. call[c] # Idle
    BY <1>1, DoingIs DEF FollowAttempt, IInv, Ops
  <2> QED BY <1>1, <2>1, StatusKeeps DEF FollowAttempt, InWork
<1>2. CASE FollowException(c)
  <2>1. call[c] # Idle
    BY <1>2, DoingIs DEF FollowException, IInv, Ops
  <2>2. PICK status \in InWork : SetStatus(r, status)
    BY <1>2 DEF FollowException, InWork
  <2>3. Done(c) /\ UNCHANGED <<attempt, link, accepted, timeline, handed>>
    BY <1>2 DEF FollowException
  <2> QED BY <2>1, <2>2, <2>3, StatusKeeps
<1> QED BY <1>1, <1>2

-----------------------------------------------------------------------------
(* Calls that end without a write                                          *)

LEMMA QuietKeeps ==
    ASSUME IInv, NEW c \in Calls, NEW next, MovedOne(c, next),
           UNCHANGED <<pickup, accepted, timeline, handed>>, 
           next # Idle => next \in CallType /\ SawOk(next) /\ Fresh(call[c])',
           next # Idle /\ next.op = "complete" => Pieces(next.saw.collected) \subseteq handed,
           strayed \subseteq strayed' /\ strayed' \subseteq Requests,
           call[c] # Idle /\ IsPending(call[c]) => call[c].r \in strayed'
    PROVE  Keeps
<1>0. TypeInv /\ InHand /\ InOrder
  BY DEF IInv
<1>1. TypeInv'
  <2>1. CallsOk'
    BY <1>0, MovedOneOk
  <2>2. DocsOk' /\ RestOk'
    BY <1>0, TypeIs DEF pickup, timeline, DocsOk, RestOk
  <2> QED BY <2>1, <2>2, TypeIs
<1>2. HandStep
  <2>1. \A q \in Requests : Collected(q)' = Collected(q)
    BY CollectedSame DEF pickup
  <2>2. ASSUME NEW d \in Calls, call'[d] # Idle, call'[d].op = "complete"
        PROVE  Pieces(call'[d].saw.collected) \subseteq handed
    <3>1. CASE d = c
      BY <2>2, <3>1 DEF MovedOne
    <3>2. CASE d # c
      BY <1>0, <2>2, <3>2 DEF MovedOne, InHand
    <3> QED BY <3>1, <3>2
  <2> QED BY <2>1, <2>2 DEF HandStep, timeline
<1>3. InOrder'
  BY <1>0, <1>1, QuietOrder
<1> QED BY <1>1, <1>2, <1>3 DEF Keeps

LEMMA RefusedKeeps ==
    ASSUME IInv, NEW c \in Calls, call[c] # Idle, Refused(c), ~ IsPending(call[c]),
           UNCHANGED <<pickup, accepted, timeline, handed>>
    PROVE  Keeps
<1>1. MovedOne(c, Idle)
  BY OneMoves DEF Refused, IInv
<1>2. strayed' = strayed /\ strayed \subseteq Requests
  BY DEF Refused, IInv, TypeInv
<1> QED BY <1>1, <1>2, QuietKeeps

LEMMA CallDiesKeeps ==
    ASSUME IInv, NEW c \in Calls, CallDies(c)
    PROVE  Keeps
<1>1. MovedOne(c, Idle)
  BY OneMoves DEF CallDies, IInv
<1>2. strayed \subseteq strayed' /\ strayed' \subseteq Requests
  BY CallFields DEF CallDies, IInv, TypeInv
<1>3. call[c] # Idle /\ IsPending(call[c]) => call[c].r \in strayed'
  BY DEF CallDies, IsPending
<1> QED BY <1>1, <1>2, <1>3, QuietKeeps DEF CallDies

LEMMA LoadForDriverKeeps ==
    ASSUME IInv, NEW c \in Calls, NEW r, call[c].r = r, LoadForDriver(c)
    PROVE  Keeps
<1>0. call[c] # Idle /\ r \in Requests /\ call[c].op = "transition"
      /\ TypeInv /\ strayed \subseteq Requests
  BY DoingIs DEF IInv, LoadForDriver, Ops, TypeInv
<1>1. CASE Startable(r)
  <2> DEFINE next == [op |-> "start", step |-> 1, r |-> r, n |-> 0, saw |-> {},
                      stale |-> FALSE]
  <2>1. /\ next \in CallType /\ next.op = "start" /\ SawOk(next)
    BY <1>0 DEF CallType, SawOk, Saws, Ops
  <2>2. call' = [call EXCEPT ![c] = next]
    BY <1>1 DEF LoadForDriver
  <2> HIDE DEF next
  <2>3. MovedOne(c, next)
    BY <1>0, <2>2, OneMoves
  <2>4. call'[c].op = "start"
    BY <2>1, <2>3 DEF MovedOne
  <2>5. Fresh(call[c])'
    BY <2>4 DEF Fresh
  <2>6. ~ IsPending(call[c])
    BY <1>0 DEF IsPending
  <2>7. UNCHANGED <<pickup, accepted, timeline, handed, strayed>>
    BY DEF LoadForDriver
  <2> QED BY <1>0, <2>1, <2>3, <2>5, <2>6, <2>7, QuietKeeps
<1>2. CASE ~ Startable(r)
  <2>1. Refused(c) /\ UNCHANGED <<pickup, accepted, timeline, handed>>
    BY <1>2 DEF LoadForDriver, Refused
  <2>2. ~ IsPending(call[c])
    BY <1>0 DEF IsPending
  <2> QED BY <1>0, <2>1, <2>2, RefusedKeeps
<1> QED BY <1>1, <1>2

LEMMA ArriveKeeps ==
    ASSUME IInv, NEW c \in Calls, NEW r, call[c].r = r, Arrive(c)
    PROVE  Keeps
<1>0. call[c] # Idle /\ call[c].op = "transition"
  BY DoingIs DEF IInv, Arrive, Ops
<1>1. CASE Status(r) \in Receipted \cup {"CANCELLED"}
  <2>1. Refused(c) /\ UNCHANGED <<pickup, accepted, timeline, handed>>
    BY <1>1 DEF Arrive, pickup
  <2>2. ~ IsPending(call[c])
    BY <1>0 DEF IsPending
  <2> QED BY <1>0, <2>1, <2>2, RefusedKeeps
<1>2. CASE Status(r) \notin Receipted \cup {"CANCELLED"}
  BY <1>0, <1>2, StatusKeeps DEF Arrive, InWork
<1> QED BY <1>1, <1>2


-----------------------------------------------------------------------------
(* Calls that load                                                         *)

LEMMA LoadKeeps ==
    ASSUME IInv, NEW c \in Calls, NEW r \in Requests, NEW op \in Ops, NEW n \in Nat,
           NEW saw \in Saws, Load(c, op, r, n, saw),
           op = "create" => saw \in SUBSET Shipments /\ Status(r) = "NONE",
           op = "transition" => saw \in Live,
           op \in {"scan", "missing"} => saw \in Parcels,
           op = "complete" =>
              /\ saw \in [links : SUBSET Shipments, collected : SUBSET Shipments]
              /\ saw.links = link[r].active /\ Pieces(saw.collected) \subseteq handed,
           op \in {"cancel", "missed", "reschedule"} => n = request[r].current,
           op \in {"assign", "transition", "complete"} => n \in LiveAttempts(r)
    PROVE  Keeps
<1> DEFINE next == [op |-> op, step |-> 1, r |-> r, n |-> n, saw |-> saw,
                    stale |-> FALSE]
<1>1. /\ next \in CallType /\ SawOk(next) /\ next.op = op /\ next.step = 1
      /\ next.r = r /\ next.n = n /\ next.saw = saw
  BY DEF CallType, SawOk
<1>2. call' = [call EXCEPT ![c] = next] /\ call[c] = Idle
      /\ UNCHANGED <<pickup, accepted, timeline, handed, strayed>>
  BY DEF Load
<1> HIDE DEF next
<1>3. MovedOne(c, next)
  BY <1>2, OneMoves DEF IInv
<1>4. Fresh(call[c])'
  <2>1. /\ call'[c].op = op /\ call'[c].step = 1 /\ call'[c].r = r /\ call'[c].n = n
        /\ call'[c].saw = saw
    BY <1>1, <1>3 DEF MovedOne
  <2>2. request' = request /\ attempt' = attempt /\ link' = link
    BY <1>2 DEF pickup
  <2>3. LiveAttempts(call[c].r)' = LiveAttempts(r) /\ Status(call[c].r)' = Status(r)
    BY <2>1, <2>2 DEF LiveAttempts, Attempts, Status
  <2> QED BY <2>1, <2>2, <2>3 DEF Fresh
<1>5. strayed \subseteq strayed' /\ strayed' \subseteq Requests
  BY <1>2 DEF IInv, TypeInv
<1> QED BY <1>1, <1>2, <1>3, <1>4, <1>5, QuietKeeps

LEMMA CurrentIsNat ==
    ASSUME IInv, NEW r \in Requests
    PROVE  request[r] \in RequestType /\ request[r].current \in Nat
BY DEF IInv, TypeInv, RequestType

LEMMA StaffKeeps ==
    ASSUME IInv, NEW c \in Calls, NEW r \in Requests, Staff(c, r)
    PROVE  Keeps
<1>1. ASSUME NEW ss \in SUBSET Shipments, LoadCreate(c, r, ss)
      PROVE  Keeps
  <2>1. Load(c, "create", r, 0, ss) /\ Status(r) = "NONE"
    BY <1>1 DEF LoadCreate
  <2>2. ss \in Saws /\ "create" \in Ops
    BY DEF Saws, Ops
  <2> QED BY <2>1, <2>2, LoadKeeps
<1>2. {} \in Saws /\ request[r] \in Saws /\ request[r].current \in Nat
  BY CurrentIsNat DEF Saws
<1>3. CASE LoadCancel(c, r)
  BY <1>2, <1>3, LoadKeeps DEF LoadCancel, Ops
<1>4. CASE LoadMissed(c, r)
  BY <1>2, <1>4, LoadKeeps DEF LoadMissed, Ops
<1>5. CASE LoadReschedule(c, r)
  BY <1>2, <1>5, LoadKeeps DEF LoadReschedule, Ops
<1>6. CASE LoadStart(c, r)
  BY <1>2, <1>6, LoadKeeps DEF LoadStart, Ops
<1>7. ASSUME NEW n \in Attempts(r), LoadAssign(c, r, n)
      PROVE  Keeps
  <2> DEFINE saw == [attempt |-> attempt[r][n].status,
                     follows |-> Status(r) \in {"REQUESTED", "CONFIRMED",
                                                "ACTION_REQUIRED", "MISSED"}]
  <2>1. Load(c, "assign", r, n, saw) /\ attempt[r][n].status \in {"SCHEDULED", "ASSIGNED"}
    BY <1>7 DEF LoadAssign
  <2>2. n \in LiveAttempts(r) /\ n \in Nat
    BY <2>1 DEF LiveAttempts, Live, Attempts
  <2>3. saw \in Saws
    <3>1. attempt[r][n].status \in AttemptStatuses
      BY <2>1 DEF AttemptStatuses, Live
    <3>2. saw \in [attempt : AttemptStatuses, follows : BOOLEAN]
      BY <3>1
    <3> HIDE DEF saw
    <3> QED BY <3>2 DEF Saws
  <2> HIDE DEF saw
  <2> QED BY <2>1, <2>2, <2>3, LoadKeeps DEF Ops
<1> QED BY <1>1, <1>3, <1>4, <1>5, <1>6, <1>7 DEF Staff

LEMMA DriverKeeps ==
    ASSUME IInv, NEW c \in Calls, NEW r \in Requests, NEW n \in Attempts(r), Driver(c, r, n)
    PROVE  Keeps
<1>0. n \in Nat
  BY DEF Attempts
<1>1. CASE LoadTransition(c, r, n)
  <2>1. attempt[r][n].status \in {"ASSIGNED", "ACCEPTED", "EN_ROUTE", "ARRIVED"}
    BY <1>1 DEF LoadTransition, allowedAttemptTransitions
  <2>2. PICK saw \in Live : Load(c, "transition", r, n, saw)
    <3>1. allowedAttemptTransitions[attempt[r][n].status] \in Live
      BY <2>1 DEF allowedAttemptTransitions, Live
    <3> QED BY <1>1, <3>1 DEF LoadTransition
  <2>3. n \in LiveAttempts(r)
    BY <2>1 DEF LiveAttempts, Live
  <2>4. saw \in Saws
    BY DEF Saws
  <2> QED BY <1>0, <2>2, <2>3, <2>4, LoadKeeps DEF Ops
<1>2. CASE LoadComplete(c, r, n)
  <2> DEFINE saw == [links |-> link[r].active,
                     collected |-> Gathered(link[r].active, Collected(r))]
  <2>1. Load(c, "complete", r, n, saw) /\ attempt[r][n].status = "COLLECTING"
    BY <1>2 DEF LoadComplete, Finishable
  <2>2. link[r].active \subseteq Shipments /\ Collected(r) \subseteq handed
    BY DEF IInv, TypeInv, LinkType, InHand
  <2>3. /\ saw \in [links : SUBSET Shipments, collected : SUBSET Shipments]
        /\ saw.links = link[r].active
        /\ saw.collected = Whole(link[r].active, Collected(r))
    BY <2>2 DEF Gathered, Whole
  <2>4. Pieces(saw.collected) \subseteq handed
    BY <2>2, <2>3 DEF Whole, Pieces
  <2>5. n \in LiveAttempts(r)
    BY <2>1 DEF LiveAttempts, Live
  <2> HIDE DEF saw
  <2>6. saw \in Saws
    BY <2>3 DEF Saws
  <2> QED BY <1>0, <2>1, <2>3, <2>4, <2>5, <2>6, LoadKeeps DEF Ops
<1>3. ASSUME NEW answer \in {"ASK", "APPROVE", "REJECT"}, LoadException(c, r, n, answer)
      PROVE  Keeps
  <2>1. Load(c, "exception", r, n, answer) /\ answer \in Saws
    BY <1>3 DEF LoadException, Saws
  <2> QED BY <1>0, <2>1, LoadKeeps DEF Ops
<1>4. ASSUME NEW p \in Parcels, LoadScan(c, r, n, p) \/ LoadMissing(c, r, n, p)
      PROVE  Keeps
  <2>1. p \in Saws
    BY DEF Saws
  <2>2. CASE LoadScan(c, r, n, p)
    BY <1>0, <2>1, <2>2, LoadKeeps DEF Ops, LoadScan
  <2>3. CASE LoadMissing(c, r, n, p)
    BY <1>0, <2>1, <2>3, LoadKeeps DEF Ops, LoadMissing
  <2> QED BY <1>4, <2>2, <2>3
<1> QED BY <1>1, <1>2, <1>3, <1>4 DEF Driver


-----------------------------------------------------------------------------
(* Writes to an attempt                                                    *)

LEMMA NoneLeftIsOrderly ==
    ASSUME NEW r, LiveAttempts(r)' = {}, NoneKept(r)'
    PROVE  Orderly(r)'
BY DEF Orderly, OneAtWork, NoneAtWork

LEMMA KeptSame ==
    ASSUME NEW r, NoneKept(r), request'[r].status = request[r].status, UNCHANGED link
    PROVE  NoneKept(r)'
BY DEF NoneKept, Status

\* A write that neither opens nor closes an attempt.
LEMMA LiveSameIsOrderly ==
    ASSUME NEW r, OneAtWork(r), NoneAtWork(r), NoneKept(r),
           LiveAttempts(r)' = LiveAttempts(r), UNCHANGED request,
           link'[r].active = link[r].active,
           Pending(r) => Pending(r)'
    PROVE  Orderly(r)'
<1>1. Status(r)' = Status(r)
  BY DEF Status
<1> QED BY <1>1 DEF Orderly, OneAtWork, NoneAtWork, NoneKept

\* An attempt that is the current one, and no other, is closed.
LEMMA CurrentClosed ==
    ASSUME DocsOk, NEW r \in Requests, NEW n, NEW status \in AttemptStatuses,
           SetAttempt(r, n, status), status \notin Live,
           n = request[r].current, OneAtWork(r)
    PROVE  LiveAttempts(r)' = {}
BY LiveAfter DEF OneAtWork

LEMMA NoCurrent ==
    ASSUME NEW r, request[r].current = 0, OneAtWork(r)
    PROVE  LiveAttempts(r) = {}
BY LiveIs DEF OneAtWork

LEMMA LiveUnchanged ==
    ASSUME NEW r, UNCHANGED attempt
    PROVE  LiveAttempts(r)' = LiveAttempts(r)
BY DEF LiveAttempts, Attempts

\* The next write of a call, after GoOn.
GoesOnAs(c, r, next) ==
    /\ Wrote(c, r, next) /\ call'[c] = next /\ next # Idle /\ next.r = r
    /\ next.op = call[c].op /\ next.step = call[c].step + 1
    /\ next.n = call[c].n /\ next.saw = call[c].saw

LEMMA GoOnGives ==
    ASSUME TypeInv, NEW c \in Calls, call[c] # Idle, call[c].step # 3, GoOn(c),
           NEW r, call[c].r = r
    PROVE  \E next : GoesOnAs(c, r, next)
<1> DEFINE new == [call[c] EXCEPT !.step = call[c].step + 1]
<1>1. GoesOnAs(c, r, new)
  <2>1. /\ Wrote(c, call[c].r, new)
        /\ call'[c] = new /\ new # Idle /\ new.op = call[c].op
        /\ new.step = call[c].step + 1 /\ new.r = call[c].r
        /\ new.n = call[c].n /\ new.saw = call[c].saw
    BY GoOnWrites
  <2> HIDE DEF new
  <2> QED BY <2>1 DEF GoesOnAs
<1> HIDE DEF new
<1> QED BY <1>1

LEMMA FailKeeps ==
    ASSUME IInv, NEW c \in Calls, NEW r, call[c].r = r, FailAttempt(c)
    PROVE  Keeps
<1>0. TypeInv /\ InOrder /\ DocsOk /\ call[c] # Idle /\ r \in Requests
      /\ call[c].op = "missed" /\ call[c].step = 2
  BY DoingIs, TypeIs DEF IInv, FailAttempt, Ops
<1>1. SetAttempt(r, call[c].n, "FAILED") /\ Done(c)
      /\ UNCHANGED <<request, link, accepted, timeline, handed>>
  BY DEF FailAttempt
<1>2. Wrote(c, r, Idle)
  BY <1>0, <1>1, DoneWrites
<1>3. "FAILED" \in AttemptStatuses /\ "FAILED" \notin Live
  BY DEF AttemptStatuses, Live
<1>4. /\ attempt' \in [Requests -> [1 .. MaxAttempts -> AttemptType]]
      /\ \A q \in Requests : q # r => attempt'[q] = attempt[q]
  BY <1>0, <1>1, <1>3, AttemptTyped
<1>5. r \notin strayed' => Orderly(r)'
  <2>1. SUFFICES ASSUME r \notin strayed' PROVE Orderly(r)'
    OBVIOUS
  <2>2. Fresh(call[c]) /\ OneAtWork(r) /\ NoneKept(r)
    BY <1>0, <1>2, <2>1, LoadedIs
  <2>3. call[c].n = request[r].current
    BY <1>0, <2>2 DEF Fresh
  <2>4. LiveAttempts(r)' = {}
    BY <1>0, <1>1, <1>3, <2>2, <2>3, CurrentClosed
  <2>5. NoneKept(r)'
    BY <1>1, <2>2, KeptSame
  <2> QED BY <2>4, <2>5, NoneLeftIsOrderly
<1> QED BY <1>0, <1>1, <1>2, <1>4, <1>5, AttemptKeeps

LEMMA CancelAttemptKeeps ==
    ASSUME IInv, NEW c \in Calls, NEW r, call[c].r = r, CancelAttempt(c)
    PROVE  Keeps
<1>0. TypeInv /\ InOrder /\ DocsOk /\ call[c] # Idle /\ r \in Requests
      /\ call[c].op = "reschedule" /\ call[c].step = 2
  BY DoingIs, TypeIs DEF IInv, CancelAttempt, Ops
<1>1. SetAttempt(r, call[c].n, "CANCELLED") /\ GoOn(c)
      /\ UNCHANGED <<request, link, accepted, timeline, handed>>
  BY DEF CancelAttempt
<1>2. PICK next : GoesOnAs(c, r, next)
  BY <1>0, <1>1, GoOnGives
<1>3. "CANCELLED" \in AttemptStatuses /\ "CANCELLED" \notin Live
  BY DEF AttemptStatuses, Live
<1>4. /\ attempt' \in [Requests -> [1 .. MaxAttempts -> AttemptType]]
      /\ \A q \in Requests : q # r => attempt'[q] = attempt[q]
  BY <1>0, <1>1, <1>3, AttemptTyped
<1>5. ASSUME r \notin strayed' PROVE Orderly(r)' /\ Fresh(call[c])'
  <2>2. Fresh(call[c]) /\ OneAtWork(r) /\ NoneKept(r)
    BY <1>0, <1>2, <1>5, LoadedIs DEF GoesOnAs
  <2>3. call[c].n = request[r].current
    BY <1>0, <2>2 DEF Fresh
  <2>4. LiveAttempts(r)' = {}
    BY <1>0, <1>1, <1>3, <2>2, <2>3, CurrentClosed
  <2>5. NoneKept(r)'
    BY <1>1, <2>2, KeptSame
  <2>6. Fresh(call[c])'
    <3>1. call'[c].op = "reschedule" /\ call'[c].step = 3 /\ call'[c].r = r
      BY <1>0, <1>2 DEF GoesOnAs
    <3>2. LiveAttempts(call[c].r)' = {}
      BY <2>4, <3>1 DEF LiveAttempts, Attempts
    <3> QED BY <3>1, <3>2 DEF Fresh
  <2> QED BY <2>4, <2>5, <2>6, NoneLeftIsOrderly
<1> QED BY <1>0, <1>1, <1>2, <1>4, <1>5, AttemptKeeps DEF GoesOnAs

LEMMA DropKeeps ==
    ASSUME IInv, NEW c \in Calls, NEW r, call[c].r = r, DropAttempt(c)
    PROVE  Keeps
<1>0. TypeInv /\ InOrder /\ DocsOk /\ call[c] # Idle /\ r \in Requests
      /\ call[c].op = "reschedule" /\ call[c].step = 3
  BY DoingIs, TypeIs DEF IInv, DropAttempt, Ops
<1>1. request' = [request EXCEPT ![r].current = 0] /\ Done(c)
      /\ UNCHANGED <<attempt, link, accepted, timeline, handed>>
  BY DEF DropAttempt
<1>2. Wrote(c, r, Idle)
  BY <1>0, <1>1, DoneWrites
<1>3. /\ request' \in [Requests -> RequestType]
      /\ request'[r].status = request[r].status
      /\ \A q \in Requests : q # r => request'[q] = request[q]
  BY <1>0, <1>1 DEF DocsOk, RequestType
<1>5. ASSUME r \notin strayed' PROVE Orderly(r)'
  <2>2. Fresh(call[c]) /\ NoneKept(r)
    BY <1>0, <1>2, <1>5, LoadedIs
  <2>3. LiveAttempts(r) = {}
    BY <1>0, <2>2 DEF Fresh
  <2>4. LiveAttempts(r)' = {}
    BY <1>1, <2>3, LiveUnchanged
  <2>5. NoneKept(r)'
    BY <1>1, <1>3, <2>2, KeptSame
  <2> QED BY <2>4, <2>5, NoneLeftIsOrderly
<1> QED BY <1>0, <1>1, <1>2, <1>3, <1>5, RequestKeeps

\* A call has still to close the attempt it has loaded.
LEMMA WaitingIsOrderly ==
    ASSUME NEW c \in Calls, NEW r, OneAtWork(r), UNCHANGED attempt,
           request'[r].current = request[r].current, NoneKept(r)',
           call'[c] # Idle, call'[c].r = r, IsPending(call[c])'
    PROVE  Orderly(r)'
<1>1. LiveAttempts(r)' = LiveAttempts(r)
  BY LiveUnchanged
<1>2. OneAtWork(r)'
  BY <1>1 DEF OneAtWork
<1>3. Pending(r)'
  BY DEF Pending, IsPending, On, Idle
<1> QED BY <1>2, <1>3 DEF Orderly, NoneAtWork

\* The first writes of markPickupMissed and reschedulePickup.
LEMMA FirstWriteKeeps ==
    ASSUME IInv, NEW c \in Calls, call[c] # Idle, NEW r, call[c].r = r,
           call[c].step = 1, call[c].op \in {"missed", "reschedule"},
           IF call[c].n = 0 THEN Done(c) ELSE GoOn(c),
           request' \in [Requests -> RequestType],
           request'[r].current = request[r].current,
           \A q \in Requests : q # r => request'[q] = request[q],
           UNCHANGED <<attempt, link, accepted, timeline, handed>>,
           NoneKept(r) => NoneKept(r)'
    PROVE  Keeps
<1>0. TypeInv /\ InOrder /\ r \in Requests
  BY CallFields DEF IInv
<1>1. CASE call[c].n = 0
  <2>1. Wrote(c, r, Idle)
    BY <1>0, <1>1, DoneWrites
  <2>2. ASSUME r \notin strayed' PROVE Orderly(r)'
    <3>1. Fresh(call[c]) /\ OneAtWork(r) /\ NoneKept(r)
      BY <1>0, <2>1, <2>2, LoadedIs
    <3>2. request[r].current = 0
      BY <1>1, <3>1 DEF Fresh
    <3>3. LiveAttempts(r)' = {}
      BY <3>1, <3>2, NoCurrent, LiveUnchanged
    <3> QED BY <3>1, <3>3, NoneLeftIsOrderly
  <2> QED BY <2>1, <2>2, RequestKeeps
<1>2. CASE call[c].n # 0
  <2>1. PICK next : GoesOnAs(c, r, next)
    BY <1>0, <1>2, GoOnGives
  <2>2. ASSUME r \notin strayed' PROVE Orderly(r)' /\ Fresh(call[c])'
    <3>1. Fresh(call[c]) /\ OneAtWork(r) /\ NoneKept(r)
      BY <1>0, <2>1, <2>2, LoadedIs DEF GoesOnAs
    <3>2. call[c].n = request[r].current
      BY <3>1 DEF Fresh
    <3>3. /\ call'[c].op \in {"missed", "reschedule"} /\ call'[c].step = 2
          /\ call'[c].r = r /\ call'[c].n = request[r].current
      BY <2>1, <3>2 DEF GoesOnAs
    <3>4. Fresh(call[c])'
      BY <3>3 DEF Fresh
    <3>5. IsPending(call[c])'
      BY <3>3 DEF IsPending
    <3> QED BY <2>1, <3>1, <3>3, <3>4, <3>5, WaitingIsOrderly DEF GoesOnAs
  <2> QED BY <2>1, <2>2, RequestKeeps DEF GoesOnAs
<1> QED BY <1>1, <1>2

LEMMA MissedKeeps ==
    ASSUME IInv, NEW c \in Calls, NEW r, call[c].r = r, SaveMissed(c)
    PROVE  Keeps
<1>0. TypeInv /\ DocsOk /\ call[c] # Idle /\ r \in Requests
      /\ call[c].op = "missed" /\ call[c].step = 1
  BY DoingIs, TypeIs DEF IInv, SaveMissed, Ops
<1>1. SetStatus(r, "MISSED") /\ (IF call[c].n = 0 THEN Done(c) ELSE GoOn(c))
      /\ UNCHANGED <<attempt, link, accepted, timeline, handed>>
  BY DEF SaveMissed
<1>2. /\ request' \in [Requests -> RequestType]
      /\ request'[r].status = "MISSED" /\ request'[r].current = request[r].current
      /\ \A q \in Requests : q # r => request'[q] = request[q]
  BY <1>0, <1>1, StatusTyped
<1>3. NoneKept(r)'
  BY <1>2 DEF NoneKept, Status, Receipted
<1> QED BY <1>0, <1>1, <1>2, <1>3, FirstWriteKeeps

LEMMA RescheduleKeeps ==
    ASSUME IInv, NEW c \in Calls, NEW r, call[c].r = r, SaveReschedule(c)
    PROVE  Keeps
<1>0. TypeInv /\ DocsOk /\ call[c] # Idle /\ r \in Requests
      /\ call[c].op = "reschedule" /\ call[c].step = 1
  BY DoingIs, TypeIs DEF IInv, SaveReschedule, Ops
<1> DEFINE saw == call[c].saw
           status == IF saw.status = "REQUESTED" THEN request[r].status ELSE "REQUESTED"
           started == IF saw.started THEN FALSE ELSE request[r].started
<1>1. request' = [request EXCEPT ![r].status = status, ![r].started = started]
      /\ (IF call[c].n = 0 THEN Done(c) ELSE GoOn(c))
      /\ UNCHANGED <<attempt, link, accepted, timeline, handed>>
  BY DEF SaveReschedule
<1>2. request[r] \in RequestType
  BY <1>0 DEF DocsOk
<1>3. started \in BOOLEAN
  BY <1>2 DEF RequestType
<1>4. status = request[r].status \/ status = "REQUESTED"
  OBVIOUS
<1> HIDE DEF status, started, saw
<1>5. /\ request' \in [Requests -> RequestType]
      /\ request'[r].status = status /\ request'[r].current = request[r].current
      /\ \A q \in Requests : q # r => request'[q] = request[q]
  BY <1>0, <1>1, <1>2, <1>3, <1>4 DEF DocsOk, RequestType
<1>6. NoneKept(r) => NoneKept(r)'
  <2>1. CASE status = request[r].status
    BY <1>1, <1>5, <2>1, KeptSame
  <2>2. CASE status = "REQUESTED"
    BY <1>5, <2>2 DEF NoneKept, Status, Receipted
  <2> QED BY <1>4, <2>1, <2>2
<1> QED BY <1>0, <1>1, <1>5, <1>6, FirstWriteKeeps


\* A write to an attempt that neither opens nor closes one.
LEMMA AtWorkKeeps ==
    ASSUME IInv, NEW c \in Calls, call[c] # Idle, NEW r, call[c].r = r,
           call[c].step = 1, call[c].op \in {"assign", "transition", "exception"},
           Done(c) \/ GoOn(c),
           attempt' \in [Requests -> [1 .. MaxAttempts -> AttemptType]],
           \A q \in Requests : q # r => attempt'[q] = attempt[q],
           UNCHANGED <<request, link, accepted, timeline, handed>>,
           Fresh(call[c]) => LiveAttempts(r)' = LiveAttempts(r)
    PROVE  Keeps
<1>0. TypeInv /\ InOrder /\ r \in Requests /\ ~ IsPending(call[c])
  BY CallFields DEF IInv, IsPending
<1>1. ASSUME NEW next, Wrote(c, r, next), r \notin strayed'
      PROVE  Orderly(r)'
  <2>1. Fresh(call[c]) /\ OneAtWork(r) /\ NoneAtWork(r) /\ NoneKept(r)
    BY <1>0, <1>1, LoadedIs
  <2>2. Pending(r) => Pending(r)'
    BY <1>0, <1>1, PendingMoved DEF Wrote
  <2> QED BY <2>1, <2>2, LiveSameIsOrderly
<1>2. CASE Done(c)
  <2>1. Wrote(c, r, Idle)
    BY <1>0, <1>2, DoneWrites
  <2> QED BY <1>1, <2>1, AttemptKeeps
<1>3. CASE GoOn(c)
  <2>1. PICK next : GoesOnAs(c, r, next)
    BY <1>0, <1>3, GoOnGives
  <2>2. call'[c].op \in {"assign", "transition", "exception"} /\ call'[c].step = 2
    BY <2>1 DEF GoesOnAs
  <2>3. Fresh(call[c])'
    BY <2>2 DEF Fresh
  <2> QED BY <1>1, <2>1, <2>3, AttemptKeeps DEF GoesOnAs
<1> QED BY <1>2, <1>3

LEMMA AssignKeeps ==
    ASSUME IInv, NEW c \in Calls, NEW r, call[c].r = r, AssignAttempt(c)
    PROVE  Keeps
<1>0. TypeInv /\ DocsOk /\ call[c] # Idle /\ r \in Requests
      /\ call[c].op = "assign" /\ call[c].step = 1
  BY DoingIs, TypeIs DEF IInv, AssignAttempt, Ops
<1>1. /\ UNCHANGED <<request, link, accepted, timeline, handed>>
      /\ UNCHANGED attempt \/ SetAttempt(r, call[c].n, "ASSIGNED")
      /\ Done(c) \/ GoOn(c)
  BY DEF AssignAttempt
<1>2. "ASSIGNED" \in AttemptStatuses /\ "ASSIGNED" \in Live
  BY DEF AttemptStatuses, Live
<1>3. /\ attempt' \in [Requests -> [1 .. MaxAttempts -> AttemptType]]
      /\ \A q \in Requests : q # r => attempt'[q] = attempt[q]
  BY <1>0, <1>1, <1>2, AttemptTyped DEF DocsOk
<1>4. Fresh(call[c]) => LiveAttempts(r)' = LiveAttempts(r)
  <2>1. Fresh(call[c]) => call[c].n \in LiveAttempts(r)
    BY <1>0 DEF Fresh
  <2> QED BY <1>0, <1>1, <1>2, <2>1, LiveAfter, LiveUnchanged
<1> QED BY <1>0, <1>1, <1>3, <1>4, AtWorkKeeps

LEMMA TransitionKeeps ==
    ASSUME IInv, NEW c \in Calls, NEW r, call[c].r = r, SaveTransition(c)
    PROVE  Keeps
<1>0. TypeInv /\ DocsOk /\ call[c] # Idle /\ r \in Requests
      /\ call[c].op = "transition" /\ call[c].step = 1 /\ call[c].saw \in Live
  BY DoingIs, TypeIs DEF IInv, SaveTransition, Ops, SawOk
<1>1. /\ UNCHANGED <<request, link, accepted, timeline, handed>>
      /\ SetAttempt(r, call[c].n, call[c].saw)
      /\ Done(c) \/ GoOn(c)
  BY DEF SaveTransition
<1>2. call[c].saw \in AttemptStatuses
  BY <1>0 DEF AttemptStatuses
<1>3. /\ attempt' \in [Requests -> [1 .. MaxAttempts -> AttemptType]]
      /\ \A q \in Requests : q # r => attempt'[q] = attempt[q]
  BY <1>0, <1>1, <1>2, AttemptTyped
<1>4. Fresh(call[c]) => LiveAttempts(r)' = LiveAttempts(r)
  <2>1. Fresh(call[c]) => call[c].n \in LiveAttempts(r)
    BY <1>0 DEF Fresh
  <2> QED BY <1>0, <1>1, <1>2, <2>1, LiveAfter
<1> QED BY <1>0, <1>1, <1>3, <1>4, AtWorkKeeps

\* The code of an attempt is not its status.
LEMMA CodeTyped ==
    ASSUME DocsOk, NEW r \in Requests, NEW n, NEW otp \in {"ASKED", "APPROVED", "VERIFIED"},
           attempt' = [attempt EXCEPT ![r][n].otp = otp]
    PROVE  /\ attempt' \in [Requests -> [1 .. MaxAttempts -> AttemptType]]
           /\ \A q \in Requests : q # r => attempt'[q] = attempt[q]
           /\ LiveAttempts(r)' = LiveAttempts(r)
<1>1. attempt \in [Requests -> [1 .. MaxAttempts -> AttemptType]]
  BY DEF DocsOk
<1> DEFINE old == attempt[r]
           row == [old EXCEPT ![n].otp = otp]
<1>2. attempt' = [attempt EXCEPT ![r] = row]
  OBVIOUS
<1>3. old \in [1 .. MaxAttempts -> AttemptType]
  BY <1>1
<1>9. old = attempt[r]
  OBVIOUS
<1> HIDE DEF old
<1>4. ASSUME NEW m \in 1 .. MaxAttempts
      PROVE  row[m] \in AttemptType /\ row[m].status = old[m].status
  <2>1. old[m] \in AttemptType
    BY <1>3
  <2>2. CASE m = n
    <3>1. row[m] = [old[m] EXCEPT !.otp = otp]
      BY <1>3, <2>2
    <3> QED BY <2>1, <2>2, <3>1 DEF AttemptType
  <2>3. CASE m # n
    <3>1. row[m] = old[m]
      BY <1>3, <2>3
    <3> QED BY <2>1, <2>3, <3>1
  <2> QED BY <2>2, <2>3
<1>5. DOMAIN row = 1 .. MaxAttempts /\ row = [m \in 1 .. MaxAttempts |-> row[m]]
  BY <1>3
<1>6. row \in [1 .. MaxAttempts -> AttemptType]
  <2> HIDE DEF row
  <2> QED BY <1>4, <1>5
<1> HIDE DEF row
<1>7. /\ attempt' \in [Requests -> [1 .. MaxAttempts -> AttemptType]]
      /\ \A q \in Requests : q # r => attempt'[q] = attempt[q]
      /\ attempt'[r] = row
  BY <1>1, <1>2, <1>6
<1>8. LiveAttempts(r)' = LiveAttempts(r)
  BY <1>4, <1>7, <1>9, LiveIs, LiveIsNext
<1> QED BY <1>7, <1>8

LEMMA ExceptionKeeps ==
    ASSUME IInv, NEW c \in Calls, NEW r, call[c].r = r, SaveException(c)
    PROVE  Keeps
<1>0. TypeInv /\ DocsOk /\ call[c] # Idle /\ r \in Requests
      /\ call[c].op = "exception" /\ call[c].step = 1
  BY DoingIs, TypeIs DEF IInv, SaveException, Ops
<1>1. UNCHANGED <<request, link, accepted, timeline, handed>> /\ GoOn(c)
  BY DEF SaveException
<1> DEFINE n == call[c].n
           otp == IF attempt[r][n].otp = "VERIFIED" THEN attempt[r][n].otp
                  ELSE IF call[c].saw = "APPROVE" THEN "APPROVED" ELSE "ASKED"
<1>2. attempt' = [attempt EXCEPT ![r][n].otp = otp]
  BY DEF SaveException
<1>3. otp \in {"ASKED", "APPROVED", "VERIFIED"}
  OBVIOUS
<1> HIDE DEF otp, n
<1>4. PICK o \in {"ASKED", "APPROVED", "VERIFIED"} :
         attempt' = [attempt EXCEPT ![r][n].otp = o]
  BY <1>2, <1>3
<1>5. /\ attempt' \in [Requests -> [1 .. MaxAttempts -> AttemptType]]
      /\ \A q \in Requests : q # r => attempt'[q] = attempt[q]
      /\ LiveAttempts(r)' = LiveAttempts(r)
  BY <1>0, <1>4, CodeTyped
<1> QED BY <1>0, <1>1, <1>5, AtWorkKeeps

LEMMA AtomicKeeps ==
    ASSUME IInv, NEW r \in Requests, Atomic(r), DocsOk', OthersSame(r), RestOk',
           strayed \subseteq strayed', strayed' \subseteq Requests,
           GoodsStep, Collected(r)' \subseteq Collected(r) \cup handed',
           r \notin strayed' => Orderly(r)'
    PROVE  Keeps
<1>0. TypeInv /\ InHand /\ InOrder /\ MovedAll(r)
  BY AtomicMoves DEF IInv
<1>1. TypeInv'
  <2>1. CallsOk'
    BY <1>0, MovedAllOk
  <2> QED BY <2>1, TypeIs
<1>2. HandStep
  <2>1. ASSUME NEW q \in Requests PROVE Collected(q)' \subseteq Collected(q) \cup handed'
    <3>1. CASE q = r
      BY <3>1
    <3>2. CASE q # r
      <4>1. link'[q] = link[q]
        BY <3>2 DEF OthersSame, Same
      <4> QED BY <4>1, CollectedSame
    <3> QED BY <3>1, <3>2
  <2>2. LoadsKept
    BY <1>0, LoadsMovedAll
  <2> QED BY <1>0, <2>1, <2>2, GoodsMoved
<1>3. InOrder'
  BY <1>0, <1>1, AtomicOrder
<1> QED BY <1>1, <1>2, <1>3 DEF Keeps

LEMMA VerifyKeeps ==
    ASSUME IInv, NEW r \in Requests, NEW n, Verify(r, n)
    PROVE  Keeps
<1>0. TypeInv /\ InOrder /\ DocsOk /\ MovedAll(r)
  BY TypeIs, AtomicMoves DEF IInv, Verify
<1>1. UNCHANGED <<request, link, accepted, timeline, handed, strayed>> /\ Atomic(r)
  BY DEF Verify
<1>2. /\ attempt' \in [Requests -> [1 .. MaxAttempts -> AttemptType]]
      /\ \A q \in Requests : q # r => attempt'[q] = attempt[q]
      /\ LiveAttempts(r)' = LiveAttempts(r)
  BY <1>0, CodeTyped DEF Verify
<1>3. DocsOk' /\ OthersSame(r)
  BY <1>0, <1>1, <1>2 DEF DocsOk, OthersSame, Same
<1>4. RestOk' /\ GoodsStep
  BY <1>0, <1>1, RestSame
<1>5. Collected(r)' = Collected(r)
  BY <1>1, CollectedSame
<1>6. ASSUME r \notin strayed' PROVE Orderly(r)'
  <2>1. OneAtWork(r) /\ NoneAtWork(r) /\ NoneKept(r)
    BY <1>0, <1>1, <1>6 DEF InOrder
  <2> QED BY <1>0, <1>1, <1>2, <2>1, PendingMovedAll, LiveSameIsOrderly
<1>7. strayed \subseteq Requests
  BY <1>0 DEF TypeInv
<1> QED BY <1>1, <1>3, <1>4, <1>5, <1>6, <1>7, AtomicKeeps

LEMMA CancelKeeps ==
    ASSUME IInv, NEW c \in Calls, NEW r, call[c].r = r, Cancel(c)
    PROVE  Keeps
<1>0. TypeInv /\ InOrder /\ DocsOk /\ call[c] # Idle /\ r \in Requests
      /\ call[c].op = "cancel" /\ call[c].step = 1
  BY DoingIs, TypeIs DEF IInv, Cancel, Ops
<1>1. /\ SetStatus(r, "CANCELLED") /\ Done(c)
      /\ IF call[c].n = 0 THEN UNCHANGED attempt ELSE SetAttempt(r, call[c].n, "CANCELLED")
      /\ link' = [link EXCEPT ![r].active = {}]
      /\ UNCHANGED <<accepted, timeline, handed>>
  BY DEF Cancel, Cancelled
<1>2. Wrote(c, r, Idle)
  BY <1>0, <1>1, DoneWrites
<1>3. "CANCELLED" \in AttemptStatuses /\ "CANCELLED" \notin Live
  BY DEF AttemptStatuses, Live
<1>4. /\ attempt' \in [Requests -> [1 .. MaxAttempts -> AttemptType]]
      /\ \A q \in Requests : q # r => attempt'[q] = attempt[q]
  BY <1>0, <1>1, <1>3, AttemptTyped DEF DocsOk
<1>5. /\ request' \in [Requests -> RequestType]
      /\ \A q \in Requests : q # r => request'[q] = request[q]
  BY <1>0, <1>1, StatusTyped
<1>6. /\ link' \in [Requests -> LinkType] /\ link'[r].active = {}
      /\ link'[r].parcel = link[r].parcel
      /\ \A q \in Requests : q # r => link'[q] = link[q]
  BY <1>0, <1>1 DEF DocsOk, LinkType
<1>7. DocsOk' /\ OthersSame(r)
  BY <1>4, <1>5, <1>6 DEF DocsOk, OthersSame, Same
<1>8. RestOk' /\ GoodsStep
  BY <1>0, <1>1, RestSame
<1>9. Collected(r)' = Collected(r)
  BY <1>6 DEF Collected
<1>10. ASSUME r \notin strayed' PROVE Orderly(r)'
  <2>2. Fresh(call[c]) /\ OneAtWork(r)
    BY <1>0, <1>2, <1>10, LoadedIs
  <2>3. call[c].n = request[r].current
    BY <1>0, <2>2 DEF Fresh
  <2>4. LiveAttempts(r)' = {}
    <3>1. CASE call[c].n = 0
      BY <1>1, <2>2, <2>3, <3>1, NoCurrent, LiveUnchanged
    <3>2. CASE call[c].n # 0
      BY <1>0, <1>1, <1>3, <2>2, <2>3, <3>2, CurrentClosed
    <3> QED BY <3>1, <3>2
  <2>5. NoneKept(r)'
    BY <1>6 DEF NoneKept
  <2> QED BY <2>4, <2>5, NoneLeftIsOrderly
<1> QED BY <1>0, <1>2, <1>7, <1>8, <1>9, <1>10, WriteKeeps


-----------------------------------------------------------------------------
(* Creation, completion and the parcels                                    *)

LEMMA RowTyped ==
    ASSUME DocsOk, NEW r \in Requests, NEW active \in SUBSET Shipments,
           NEW ss \in SUBSET Shipments,
           \/ link' = [link EXCEPT ![r].active = active]
           \/ link' = [link EXCEPT ![r].shipments = ss, ![r].active = active]
    PROVE  /\ link' \in [Requests -> LinkType] /\ link'[r].parcel = link[r].parcel
           /\ link'[r].active = active
           /\ \A q \in Requests : q # r => link'[q] = link[q]
<1>1. link[r] \in LinkType /\ link \in [Requests -> LinkType]
  BY DEF DocsOk
<1>2. PICK row \in LinkType : /\ row.active = active /\ row.parcel = link[r].parcel
                              /\ link' = [link EXCEPT ![r] = row]
  <2>1. CASE link' = [link EXCEPT ![r].active = active]
    <3> DEFINE new == [link[r] EXCEPT !.active = active]
    <3>1. new \in LinkType /\ new.active = active /\ new.parcel = link[r].parcel
      BY <1>1 DEF LinkType
    <3>2. link' = [link EXCEPT ![r] = new]
      BY <2>1
    <3> HIDE DEF new
    <3> QED BY <3>1, <3>2
  <2>2. CASE link' = [link EXCEPT ![r].shipments = ss, ![r].active = active]
    <3> DEFINE one == [link[r] EXCEPT !.shipments = ss]
               new == [one EXCEPT !.active = active]
    <3>1. one \in LinkType /\ one.parcel = link[r].parcel
      BY <1>1 DEF LinkType
    <3>2. link' = [link EXCEPT ![r] = new]
      BY <2>2
    <3> HIDE DEF one
    <3>3. new \in LinkType /\ new.active = active /\ new.parcel = one.parcel
      BY <3>1 DEF LinkType
    <3> HIDE DEF new
    <3> QED BY <3>1, <3>2, <3>3
  <2> QED BY <2>1, <2>2
<1> QED BY <1>1, <1>2

LEMMA CreateKeeps ==
    ASSUME IInv, NEW c \in Calls, NEW r, call[c].r = r, Create(c)
    PROVE  Keeps
<1> DEFINE ss == call[c].saw
<1>0. TypeInv /\ InOrder /\ DocsOk /\ call[c] # Idle /\ r \in Requests
      /\ call[c].op = "create" /\ call[c].step = 1 /\ ss \in SUBSET Shipments
      /\ ~ IsPending(call[c])
  BY DoingIs, TypeIs DEF IInv, Create, Ops, SawOk, IsPending
<1>1. UNCHANGED <<accepted, timeline, handed>>
  BY DEF Create
<1>2. CASE \E s \in ss : Taken(s)
  <2>1. Refused(c) /\ UNCHANGED pickup
    BY <1>2 DEF Create
  <2> QED BY <1>0, <1>1, <2>1, RefusedKeeps
<1>3. CASE ~ \E s \in ss : Taken(s)
  <2>1. /\ SetStatus(r, "REQUESTED") /\ Done(c) /\ UNCHANGED attempt
        /\ link' = [link EXCEPT ![r].shipments = ss, ![r].active = ss]
    BY <1>3 DEF Create
  <2>2. Wrote(c, r, Idle)
    BY <1>0, <2>1, DoneWrites
  <2>3. /\ request' \in [Requests -> RequestType]
        /\ request'[r].status = "REQUESTED" /\ request'[r].current = request[r].current
        /\ \A q \in Requests : q # r => request'[q] = request[q]
    BY <1>0, <2>1, StatusTyped
  <2>4. /\ link' \in [Requests -> LinkType] /\ link'[r].parcel = link[r].parcel
        /\ \A q \in Requests : q # r => link'[q] = link[q]
    BY <1>0, <2>1, RowTyped
  <2>5. DocsOk' /\ OthersSame(r)
    BY <1>0, <2>1, <2>3, <2>4 DEF DocsOk, OthersSame, Same
  <2>6. RestOk' /\ GoodsStep
    BY <1>0, <1>1, RestSame
  <2>7. Collected(r)' = Collected(r)
    BY <2>4 DEF Collected
  <2>8. ASSUME r \notin strayed' PROVE Orderly(r)'
    <3>1. Fresh(call[c]) /\ OneAtWork(r) /\ NoneAtWork(r)
      BY <1>0, <2>2, <2>8, LoadedIs
    <3>2. LiveAttempts(r) = {} \/ Pending(r)
      BY <1>0, <3>1 DEF Fresh, NoneAtWork
    <3>3. LiveAttempts(r)' = LiveAttempts(r)
      BY <2>1, LiveUnchanged
    <3>4. Pending(r) => Pending(r)'
      BY <1>0, <2>2, PendingMoved DEF Wrote
    <3>5. OneAtWork(r)' /\ NoneAtWork(r)'
      BY <2>3, <3>1, <3>2, <3>3, <3>4 DEF OneAtWork, NoneAtWork
    <3>6. NoneKept(r)'
      BY <2>3 DEF NoneKept, Status, Receipted
    <3> QED BY <3>5, <3>6 DEF Orderly
  <2> QED BY <1>0, <2>2, <2>5, <2>6, <2>7, <2>8, WriteKeeps
<1> QED BY <1>2, <1>3

LEMMA CompleteKeeps ==
    ASSUME IInv, NEW c \in Calls, NEW r, call[c].r = r, Complete(c)
    PROVE  Keeps
<1> DEFINE saw == call[c].saw
<1>0. TypeInv /\ InHand /\ InOrder /\ DocsOk /\ RestOk /\ call[c] # Idle /\ r \in Requests
      /\ call[c].op = "complete" /\ call[c].step = 1 /\ ~ IsPending(call[c])
      /\ saw \in [links : SUBSET Shipments, collected : SUBSET Shipments]
  BY DoingIs, TypeIs DEF IInv, Complete, Ops, SawOk, IsPending
<1>1. UNCHANGED <<accepted, received, stated, handed>>
  BY DEF Complete
<1>2. CASE ~ Recordable(saw.collected)
  <2>1. Refused(c) /\ UNCHANGED <<pickup, events, finalized>>
    BY <1>2 DEF Complete
  <2> QED BY <1>0, <1>1, <2>1, RefusedKeeps DEF timeline
<1>3. CASE Recordable(saw.collected)
  <2> DEFINE status == IF saw.collected = saw.links THEN "COLLECTED"
                       ELSE "PARTIALLY_COLLECTED"
  <2>1. /\ SetAttempt(r, call[c].n, "COMPLETED") /\ SetStatus(r, status) /\ Done(c)
        /\ link' = [link EXCEPT ![r].active = link[r].active \ saw.collected]
        /\ events' = [s \in Shipments |-> events[s] \cup
                         IF s \in saw.collected THEN {"PARCEL_COLLECTED"} ELSE {}]
        /\ finalized' = finalized \cup saw.collected
    BY <1>0, <1>3 DEF Complete
  <2>2. Wrote(c, r, Idle)
    BY <1>0, <2>1, DoneWrites
  <2>3. /\ request' \in [Requests -> RequestType]
        /\ request'[r].status = status /\ request'[r].current = request[r].current
        /\ \A q \in Requests : q # r => request'[q] = request[q]
    BY <1>0, <2>1, StatusTyped
  <2>4. "COMPLETED" \in AttemptStatuses /\ "COMPLETED" \notin Live
    BY DEF AttemptStatuses, Live
  <2>5. /\ attempt' \in [Requests -> [1 .. MaxAttempts -> AttemptType]]
        /\ \A q \in Requests : q # r => attempt'[q] = attempt[q]
    BY <1>0, <2>1, <2>4, AttemptTyped
  <2>6. /\ link' \in [Requests -> LinkType] /\ link'[r].parcel = link[r].parcel
        /\ link'[r].active = link[r].active \ saw.collected
        /\ \A q \in Requests : q # r => link'[q] = link[q]
    <3>1. link[r].active \ saw.collected \in SUBSET Shipments
      BY <1>0 DEF DocsOk, LinkType
    <3> QED BY <1>0, <2>1, <3>1, RowTyped
  <2>7. DocsOk' /\ OthersSame(r)
    BY <2>3, <2>5, <2>6 DEF DocsOk, OthersSame, Same
  <2>8. RestOk'
    <3>1. events' \in [Shipments -> SUBSET {"PARCEL_COLLECTED", "WAREHOUSE_SCAN_IN"}]
      BY <1>0, <2>1 DEF RestOk
    <3>2. finalized' \subseteq Shipments
      BY <1>0, <2>1 DEF RestOk
    <3> QED BY <1>0, <1>1, <3>1, <3>2 DEF RestOk
  <2>9. GoodsStep
    <3>1. Pieces(saw.collected) \subseteq handed
      BY <1>0 DEF InHand
    <3>2. ASSUME NEW s \in saw.collected PROVE Pieces({s}) \subseteq handed
      BY <3>1 DEF Pieces
    <3> QED BY <1>1, <2>1, <3>2 DEF GoodsStep
  <2>10. Collected(r)' = Collected(r)
    BY <2>6 DEF Collected
  <2>11. ASSUME r \notin strayed' PROVE Orderly(r)'
    <3>1. Fresh(call[c]) /\ OneAtWork(r)
      BY <1>0, <2>2, <2>11, LoadedIs
    <3>2. call[c].n \in LiveAttempts(r) /\ saw.links = link[r].active
      BY <1>0, <3>1 DEF Fresh
    <3>3. call[c].n = request[r].current
      BY <3>1, <3>2 DEF OneAtWork
    <3>4. LiveAttempts(r)' = {}
      BY <1>0, <2>1, <2>4, <3>1, <3>3, CurrentClosed
    <3>5. NoneKept(r)'
      <4>1. CASE saw.collected = saw.links
        BY <2>6, <3>2, <4>1 DEF NoneKept
      <4>2. CASE saw.collected # saw.links
        BY <2>3, <4>2 DEF NoneKept, Status, Receipted
      <4> QED BY <4>1, <4>2
    <3> QED BY <3>4, <3>5, NoneLeftIsOrderly
  <2> HIDE DEF status
  <2> QED BY <1>0, <2>2, <2>7, <2>8, <2>9, <2>10, <2>11, WriteKeeps
<1> QED BY <1>2, <1>3

\* A write to the rows of r that leaves alone which shipments are active.
LEMMA RowKeeps ==
    ASSUME IInv, NEW c \in Calls, call[c] # Idle, NEW r, call[c].r = r,
           ~ IsPending(call[c]), Done(c) \/ HalfDone(c), UNCHANGED <<request, attempt>>,
           link' \in [Requests -> LinkType], link'[r].active = link[r].active,
           \A q \in Requests : q # r => link'[q] = link[q],
           RestOk', GoodsStep, Collected(r)' \subseteq Collected(r) \cup handed'
    PROVE  Keeps
<1>0. TypeInv /\ InOrder /\ DocsOk /\ r \in Requests
  BY CallFields, TypeIs DEF IInv
<1>1. Wrote(c, r, Idle)
  BY <1>0, DoneWrites
<1>2. DocsOk' /\ OthersSame(r)
  BY <1>0 DEF DocsOk, OthersSame, Same
<1>3. ASSUME r \notin strayed' PROVE Orderly(r)'
  <2>1. OneAtWork(r) /\ NoneAtWork(r) /\ NoneKept(r)
    BY <1>0, <1>1, <1>3, LoadedIs
  <2>2. Pending(r) => Pending(r)'
    BY <1>0, <1>1, PendingMoved DEF Wrote
  <2>3. LiveAttempts(r)' = LiveAttempts(r)
    BY LiveUnchanged
  <2> QED BY <2>1, <2>2, <2>3, LiveSameIsOrderly
<1> QED BY <1>0, <1>1, <1>2, <1>3, WriteKeeps

LEMMA ParcelTyped ==
    ASSUME DocsOk, NEW r \in Requests, NEW p \in Parcels,
           NEW state \in {"PENDING", "COLLECTED", "EXCEPTION"},
           link' = [link EXCEPT ![r].parcel[p] = state]
    PROVE  /\ link' \in [Requests -> LinkType] /\ link'[r].active = link[r].active
           /\ \A q \in Requests : q # r => link'[q] = link[q]
           /\ Collected(r)' \subseteq Collected(r) \cup {p}
           /\ state # "COLLECTED" => Collected(r)' \subseteq Collected(r)
<1> DEFINE row == [link[r].parcel EXCEPT ![p] = state]
<1>1. link' = [link EXCEPT ![r].parcel = row]
  OBVIOUS
<1>2. link[r] \in LinkType /\ link \in [Requests -> LinkType]
  BY DEF DocsOk
<1>3. link[r].parcel \in [Parcels -> {"PENDING", "COLLECTED", "EXCEPTION"}]
  BY <1>2 DEF LinkType
<1>4. /\ row \in [Parcels -> {"PENDING", "COLLECTED", "EXCEPTION"}]
      /\ row[p] = state /\ \A o \in Parcels : o # p => row[o] = link[r].parcel[o]
  BY <1>3
<1> HIDE DEF row
<1>5. /\ link' \in [Requests -> LinkType] /\ link'[r].active = link[r].active
      /\ link'[r].parcel = row
      /\ \A q \in Requests : q # r => link'[q] = link[q]
  BY <1>1, <1>2, <1>4 DEF LinkType
<1> QED BY <1>4, <1>5 DEF Collected

LEMMA MissingKeeps ==
    ASSUME IInv, NEW c \in Calls, NEW r, call[c].r = r, SaveMissing(c)
    PROVE  Keeps
<1>0. TypeInv /\ DocsOk /\ call[c] # Idle /\ r \in Requests /\ call[c].saw \in Parcels
      /\ ~ IsPending(call[c])
  BY DoingIs, TypeIs DEF IInv, SaveMissing, Ops, SawOk, IsPending
<1>1. /\ link' = [link EXCEPT ![r].parcel[call[c].saw] = "EXCEPTION"] /\ Done(c)
      /\ UNCHANGED <<request, attempt, accepted, timeline, handed>>
  BY DEF SaveMissing
<1>2. /\ link' \in [Requests -> LinkType] /\ link'[r].active = link[r].active
      /\ \A q \in Requests : q # r => link'[q] = link[q]
      /\ Collected(r)' \subseteq Collected(r)
  BY <1>0, <1>1, ParcelTyped
<1>3. RestOk' /\ GoodsStep
  BY <1>0, <1>1, RestSame
<1> QED BY <1>0, <1>1, <1>2, <1>3, RowKeeps

LEMMA ScanKeeps ==
    ASSUME IInv, NEW c \in Calls, NEW r, call[c].r = r, SaveScan(c)
    PROVE  Keeps
<1> DEFINE p == call[c].saw
<1>0. TypeInv /\ DocsOk /\ RestOk /\ call[c] # Idle /\ r \in Requests /\ p \in Parcels
      /\ ~ IsPending(call[c])
  BY DoingIs, TypeIs DEF IInv, SaveScan, Ops, SawOk, IsPending
<1>1. /\ Done(c) \/ HalfDone(c)
      /\ link' = link \/ link' = [link EXCEPT ![r].parcel[p] = "COLLECTED"]
      /\ accepted' = accepted \/ accepted' = accepted \cup {p}
      /\ handed' = handed \cup {p} /\ UNCHANGED <<request, attempt, timeline>>
  BY DEF SaveScan
<1>2. /\ link' \in [Requests -> LinkType] /\ link'[r].active = link[r].active
      /\ \A q \in Requests : q # r => link'[q] = link[q]
      /\ Collected(r)' \subseteq Collected(r) \cup {p}
  <2>1. CASE link' = link
    BY <1>0, <2>1, CollectedSame DEF DocsOk
  <2>2. CASE link' = [link EXCEPT ![r].parcel[p] = "COLLECTED"]
    BY <1>0, <2>2, ParcelTyped
  <2> QED BY <1>1, <2>1, <2>2
<1>3. RestOk'
  BY <1>0, <1>1 DEF RestOk, timeline
<1>4. GoodsStep
  BY <1>1 DEF GoodsStep, timeline
<1>5. Collected(r)' \subseteq Collected(r) \cup handed'
  BY <1>1, <1>2
<1> QED BY <1>0, <1>1, <1>2, <1>3, <1>4, <1>5, RowKeeps


-----------------------------------------------------------------------------
(* Confirmation, the hub and the timeline                                  *)

LEMMA ConfirmKeeps ==
    ASSUME IInv, NEW r \in Requests, Confirm(r)
    PROVE  Keeps
<1> DEFINE n == Cardinality(Attempts(r)) + 1
<1>0. TypeInv /\ InOrder /\ DocsOk /\ RestOk /\ strayed \subseteq Requests
      /\ "SCHEDULED" \in AttemptStatuses
  BY TypeIs DEF IInv, AttemptStatuses, Live
<1>1. n \in Nat
  <2>1. IsFiniteSet(Attempts(r))
    <3>1. IsFiniteSet(1 .. MaxAttempts)
      BY FS_Interval, PickupAssumption
    <3> QED BY <3>1, FS_Subset DEF Attempts
  <2>2. Cardinality(Attempts(r)) \in Nat
    BY <2>1, FS_CardinalityType
  <2> QED BY <2>2
<1>2. /\ attempt' = [attempt EXCEPT ![r][n].status = "SCHEDULED"]
      /\ request' = [request EXCEPT ![r].status = "CONFIRMED", ![r].current = n]
      /\ strayed' = IF LiveAttempts(r) = {} THEN strayed ELSE strayed \cup {r}
      /\ Atomic(r) /\ UNCHANGED <<accepted, timeline, handed>>
  BY DEF Confirm
<1> HIDE DEF n
<1>3. /\ attempt' \in [Requests -> [1 .. MaxAttempts -> AttemptType]]
      /\ \A q \in Requests : q # r => attempt'[q] = attempt[q]
      /\ \A m \in 1 .. MaxAttempts :
            attempt'[r][m].status = IF m = n THEN "SCHEDULED" ELSE attempt[r][m].status
  <2>1. SetAttempt(r, n, "SCHEDULED")
    BY <1>2 DEF SetAttempt
  <2> QED BY <1>0, <2>1, AttemptTyped
<1>4. /\ request' \in [Requests -> RequestType]
      /\ request'[r].status = "CONFIRMED" /\ request'[r].current = n
      /\ \A q \in Requests : q # r => request'[q] = request[q]
  BY <1>0, <1>1, <1>2 DEF DocsOk, RequestType
<1>5. /\ link' \in [Requests -> LinkType]
      /\ \A q \in Requests : q # r => link'[q] = link[q]
      /\ Collected(r)' \subseteq Collected(r)
  <2>1. CASE link' = link
    BY <1>0, <2>1, CollectedSame DEF DocsOk
  <2>2. CASE link' # link
    <3> DEFINE old == link[r].parcel
               row == [p \in Parcels |->
                         IF ShipmentOf[p] \in link[r].active /\ old[p] # "COLLECTED"
                         THEN "PENDING" ELSE old[p]]
    <3>1. link' = [link EXCEPT ![r].parcel = row]
      BY <2>2 DEF Confirm
    <3>2. link[r] \in LinkType /\ link \in [Requests -> LinkType]
      BY <1>0 DEF DocsOk
    <3>3. old \in [Parcels -> {"PENDING", "COLLECTED", "EXCEPTION"}]
      BY <3>2 DEF LinkType
    <3>4. /\ row \in [Parcels -> {"PENDING", "COLLECTED", "EXCEPTION"}]
          /\ \A p \in Parcels : row[p] = "COLLECTED" => old[p] = "COLLECTED"
      <4> HIDE DEF old
      <4> QED BY <3>3
    <3> HIDE DEF row
    <3>5. /\ link' \in [Requests -> LinkType] /\ link'[r].parcel = row
          /\ \A q \in Requests : q # r => link'[q] = link[q]
      BY <3>1, <3>2, <3>4 DEF LinkType
    <3> QED BY <3>4, <3>5 DEF Collected
  <2> QED BY <2>1, <2>2
<1>6. DocsOk' /\ OthersSame(r)
  BY <1>3, <1>4, <1>5 DEF DocsOk, OthersSame, Same
<1>7. RestOk' /\ GoodsStep
  BY <1>0, <1>2, RestSame
<1>8. strayed \subseteq strayed' /\ strayed' \subseteq Requests
  BY <1>0, <1>2
<1>9. ASSUME r \notin strayed' PROVE Orderly(r)'
  <2>1. LiveAttempts(r) = {}
    BY <1>2, <1>9
  <2>2. LiveAttempts(r)' \subseteq {n}
    BY <1>3, <2>1, LiveIs, LiveIsNext
  <2>3. OneAtWork(r)'
    BY <1>4, <2>2 DEF OneAtWork
  <2>4. NoneAtWork(r)' /\ NoneKept(r)'
    BY <1>4 DEF NoneAtWork, NoneKept, Status, Receipted
  <2> QED BY <2>3, <2>4 DEF Orderly
<1> QED BY <1>2, <1>5, <1>6, <1>7, <1>8, <1>9, AtomicKeeps

LEMMA ReceiveKeeps ==
    ASSUME IInv, NEW r \in Requests, NEW ps \in SUBSET Parcels, ReceiveAtHub(r, ps)
    PROVE  Keeps
<1> DEFINE n == request[r].current
           whole == Whole(link[r].shipments, ps)
           status == IF ps = Pieces(link[r].shipments) THEN "RECEIVED_AT_DELHI_HUB"
                     ELSE "COMPLETED_WITH_MISSING_PARCELS"
<1>0. TypeInv /\ InOrder /\ DocsOk /\ RestOk /\ strayed \subseteq Requests
  BY TypeIs DEF IInv
<1>1. /\ HubReady(r) /\ SetStatus(r, status)
      /\ IF Current(r) \in {"SCHEDULED", "ASSIGNED"} THEN SetAttempt(r, n, "CANCELLED")
         ELSE UNCHANGED attempt
      /\ received' = received \cup ps /\ handed' = handed \cup ps
      /\ finalized' = finalized \cup
             {s \in whole : events[s] # {"PARCEL_COLLECTED", "WAREHOUSE_SCAN_IN"}}
      /\ strayed' = IF Current(r) = "ACCEPTED" THEN strayed \cup {r} ELSE strayed
      /\ Atomic(r) /\ UNCHANGED <<accepted, stated>>
  BY DEF ReceiveAtHub, SetStatus
<1>2. status \in Receipted
  BY DEF Receipted
<1> HIDE DEF status
<1>3. "CANCELLED" \in AttemptStatuses /\ "CANCELLED" \notin Live
  BY DEF AttemptStatuses, Live
<1>4. /\ attempt' \in [Requests -> [1 .. MaxAttempts -> AttemptType]]
      /\ \A q \in Requests : q # r => attempt'[q] = attempt[q]
  BY <1>0, <1>1, <1>3, AttemptTyped DEF DocsOk
<1>5. /\ request' \in [Requests -> RequestType]
      /\ \A q \in Requests : q # r => request'[q] = request[q]
  BY <1>0, <1>1, <1>2, StatusTyped
<1>6. /\ link' \in [Requests -> LinkType] /\ link'[r].active = {}
      /\ \A q \in Requests : q # r => link'[q] = link[q]
      /\ Collected(r)' \subseteq Collected(r) \cup ps
  <2> DEFINE row == [p \in Parcels |-> IF p \in ps THEN "COLLECTED" ELSE link[r].parcel[p]]
             new == [shipments |-> link[r].shipments, active |-> {}, receipt |-> TRUE,
                     parcel |-> row]
  <2>1. link' = [link EXCEPT ![r] = new]
    BY DEF ReceiveAtHub
  <2>2. link[r] \in LinkType /\ link \in [Requests -> LinkType]
    BY <1>0 DEF DocsOk
  <2>3. /\ row \in [Parcels -> {"PENDING", "COLLECTED", "EXCEPTION"}]
        /\ \A p \in Parcels : row[p] = "COLLECTED" => p \in ps \/ link[r].parcel[p] = "COLLECTED"
    BY <2>2 DEF LinkType
  <2> HIDE DEF row
  <2>4. new \in LinkType /\ new.active = {} /\ new.parcel = row
    BY <2>2, <2>3 DEF LinkType
  <2> HIDE DEF new
  <2>5. /\ link' \in [Requests -> LinkType] /\ link'[r] = new
        /\ \A q \in Requests : q # r => link'[q] = link[q]
    BY <2>1, <2>2, <2>4
  <2> QED BY <2>3, <2>4, <2>5 DEF Collected
<1>7. DocsOk' /\ OthersSame(r)
  BY <1>4, <1>5, <1>6 DEF DocsOk, OthersSame, Same
<1>8. RestOk'
  <2>1. events' = [s \in Shipments |-> IF s \notin whole THEN events[s]
                     ELSE {"PARCEL_COLLECTED", "WAREHOUSE_SCAN_IN"}]
    BY DEF ReceiveAtHub
  <2>2. events' \in [Shipments -> SUBSET {"PARCEL_COLLECTED", "WAREHOUSE_SCAN_IN"}]
    <3> HIDE DEF whole
    <3> QED BY <1>0, <2>1 DEF RestOk
  <2>3. whole \subseteq Shipments
    BY <1>0 DEF Whole, DocsOk, LinkType
  <2> HIDE DEF whole
  <2> QED BY <1>0, <1>1, <2>2, <2>3 DEF RestOk
<1>9. GoodsStep
  <2>1. ASSUME NEW s \in whole PROVE Pieces({s}) \subseteq handed'
    BY <1>1 DEF Whole
  <2> HIDE DEF whole
  <2> QED BY <1>1, <2>1 DEF GoodsStep
<1>10. Collected(r)' \subseteq Collected(r) \cup handed'
  BY <1>1, <1>6
<1>11. strayed \subseteq strayed' /\ strayed' \subseteq Requests
  BY <1>0, <1>1
<1>12. ASSUME r \notin strayed' PROVE Orderly(r)'
  <2>1. OneAtWork(r) /\ Current(r) # "ACCEPTED"
    BY <1>0, <1>1, <1>11, <1>12 DEF InOrder
  <2>2. LiveAttempts(r)' = {}
    <3>1. CASE Current(r) \in {"SCHEDULED", "ASSIGNED"}
      BY <1>0, <1>1, <1>3, <2>1, <3>1, CurrentClosed
    <3>2. CASE Current(r) \notin {"SCHEDULED", "ASSIGNED"}
      <4>1. Current(r) \notin Live
        BY <1>1, <2>1, <3>2 DEF HubReady, Live
      <4>2. LiveAttempts(r) = {}
        <5>1. SUFFICES ASSUME NEW m \in LiveAttempts(r) PROVE FALSE
          OBVIOUS
        <5>2. m = n /\ m # 0 /\ attempt[r][m].status \in Live
          BY <2>1, LiveIs DEF OneAtWork
        <5> QED BY <4>1, <5>2 DEF Current
      <4> QED BY <1>1, <3>2, <4>2, LiveUnchanged
    <3> QED BY <3>1, <3>2
  <2>3. NoneKept(r)'
    BY <1>6 DEF NoneKept
  <2> QED BY <2>2, <2>3, NoneLeftIsOrderly
<1> QED BY <1>1, <1>7, <1>8, <1>9, <1>10, <1>11, <1>12, AtomicKeeps

\* A step that is not about pickups.
LEMMA OrderSame ==
    ASSUME InOrder, UNCHANGED <<pickup, call, strayed>>
    PROVE  InOrder'
BY DEF InOrder, pickup, OneAtWork, NoneAtWork, NoneKept, LiveAttempts, Attempts, Status,
       Pending, Fresh, On, Idle

LEMMA TimelineKeeps ==
    ASSUME IInv, UNCHANGED <<pickup, call, strayed>>, RestOk', GoodsStep
    PROVE  Keeps
<1>0. TypeInv /\ InHand /\ InOrder
  BY DEF IInv
<1>1. DocsOk' /\ CallsOk' /\ strayed' \subseteq Requests
  BY <1>0, TypeIs DEF DocsOk, CallsOk, pickup, SawOk
<1>2. TypeInv'
  BY <1>1, TypeIs
<1>3. \A q \in Requests : Collected(q)' = Collected(q)
  BY CollectedSame DEF pickup
<1>4. HandStep
  BY <1>0, <1>3, GoodsMoved DEF LoadsKept
<1> QED BY <1>0, <1>2, <1>4, OrderSame DEF Keeps

LEMMA ByHandKeeps ==
    ASSUME IInv, NEW s \in Shipments, NEW milestone \in {"PARCEL_COLLECTED", "WAREHOUSE_SCAN_IN"},
           RecordByHand(s, milestone)
    PROVE  Keeps
<1>1. RestOk
  BY TypeIs DEF IInv
<1>2. RestOk' /\ GoodsStep /\ UNCHANGED <<pickup, call, strayed>>
  BY <1>1 DEF RecordByHand, RestOk, GoodsStep
<1> QED BY <1>2, TimelineKeeps

LEMMA OriginKeeps ==
    ASSUME IInv, NEW p \in Parcels, OriginScan(p)
    PROVE  Keeps
<1> DEFINE s == ShipmentOf[p]
           complete == Pieces({s}) \subseteq received \cup {p}
<1>1. RestOk /\ InHand /\ s \in Shipments
  BY TypeIs, PickupAssumption DEF IInv
<1>2. /\ received' = received \cup {p} /\ handed' = handed \cup {p}
      /\ events' = [events EXCEPT ![s] = IF complete THEN events[s] \cup {"WAREHOUSE_SCAN_IN"}
                                         ELSE events[s]]
      /\ finalized' = IF complete THEN finalized \cup {s} ELSE finalized
      /\ UNCHANGED <<pickup, accepted, stated, call, strayed>>
  BY DEF OriginScan
<1>3. complete => Pieces({s}) \subseteq handed'
  BY <1>1, <1>2 DEF InHand
<1>4. GoodsStep
  BY <1>2, <1>3 DEF GoodsStep
<1>5. RestOk'
  <2> HIDE DEF complete, s
  <2> QED BY <1>1, <1>2 DEF RestOk
<1> QED BY <1>2, <1>4, <1>5, TimelineKeeps


-----------------------------------------------------------------------------
(* The theorems                                                            *)

LEMMA InitOk ==
    Init => IInv /\ ChargedInHand
<1> SUFFICES ASSUME Init PROVE IInv /\ ChargedInHand
  OBVIOUS
<1>1. NoRequest \in RequestType /\ NoAttempt \in AttemptType /\ NoLink \in LinkType
  BY DEF NoRequest, NoAttempt, NoLink, RequestType, AttemptType, LinkType, AttemptStatuses
<1>2. TypeInv
  <2>1. DocsOk
    BY <1>1 DEF Init, DocsOk
  <2>2. RestOk /\ strayed \subseteq Requests
    BY DEF Init, RestOk
  <2>3. CallsOk
    BY DEF Init, CallsOk
  <2> QED BY <2>1, <2>2, <2>3, TypeIs
<1>3. InHand
  BY DEF Init, InHand, Collected, NoLink
<1>4. InOrder
  <2>1. ASSUME NEW r \in Requests PROVE LiveAttempts(r) = {} /\ Status(r) = "NONE"
    BY DEF Init, LiveAttempts, Attempts, NoAttempt, NoRequest, Status
  <2>2. \A r \in Requests : OneAtWork(r) /\ NoneAtWork(r) /\ NoneKept(r)
    BY <2>1 DEF OneAtWork, NoneAtWork, NoneKept, Receipted
  <2> QED BY <2>2 DEF InOrder, Init
<1>5. ChargedInHand
  BY DEF Init, ChargedInHand
<1> QED BY <1>2, <1>3, <1>4, <1>5 DEF IInv

\* A call that writes has a request.
LEMMA WriteStep ==
    ASSUME IInv, NEW c \in Calls, Write(c)
    PROVE  Keeps
<1>1. PICK r : call[c].r = r
  OBVIOUS
<1>2. CASE Create(c) \/ Cancel(c) \/ Complete(c)
  BY <1>1, <1>2, CreateKeeps, CancelKeeps, CompleteKeeps
<1>3. CASE SaveMissed(c) \/ FailAttempt(c)
  BY <1>1, <1>3, MissedKeeps, FailKeeps
<1>4. CASE SaveReschedule(c) \/ CancelAttempt(c) \/ DropAttempt(c)
  BY <1>1, <1>4, RescheduleKeeps, CancelAttemptKeeps, DropKeeps
<1>5. CASE Start(c) \/ AssignAttempt(c) \/ FollowAttempt(c)
  BY <1>1, <1>5, StartKeeps, AssignKeeps, FollowKeeps
<1>6. CASE SaveTransition(c) \/ LoadForDriver(c) \/ Arrive(c)
  BY <1>1, <1>6, TransitionKeeps, LoadForDriverKeeps, ArriveKeeps
<1>7. CASE SaveException(c) \/ FollowException(c)
  BY <1>1, <1>7, ExceptionKeeps, FollowKeeps
<1>8. CASE SaveScan(c) \/ SaveMissing(c)
  BY <1>1, <1>8, ScanKeeps, MissingKeeps
<1>9. CASE CallDies(c)
  BY <1>9, CallDiesKeeps
<1> QED BY <1>2, <1>3, <1>4, <1>5, <1>6, <1>7, <1>8, <1>9 DEF Write

LEMMA StepKeeps ==
    ASSUME IInv, Next
    PROVE  Keeps
<1>1. CASE \E c \in Calls : Write(c)
  BY <1>1, WriteStep
<1>2. CASE \E c \in Calls, r \in Requests :
               Staff(c, r) \/ \E n \in Attempts(r) : Driver(c, r, n)
  BY <1>2, StaffKeeps, DriverKeeps
<1>3. CASE \E r \in Requests : Confirm(r) \/ \E n \in Attempts(r) : Verify(r, n)
  BY <1>3, ConfirmKeeps, VerifyKeeps
<1>4. CASE \E r \in Requests, ps \in SUBSET Parcels : ReceiveAtHub(r, ps)
  BY <1>4, ReceiveKeeps
<1>5. CASE \E s \in Shipments, milestone \in {"PARCEL_COLLECTED", "WAREHOUSE_SCAN_IN"} :
              RecordByHand(s, milestone)
  BY <1>5, ByHandKeeps
<1>6. CASE \E p \in Parcels : OriginScan(p)
  BY <1>6, OriginKeeps
<1> QED BY <1>1, <1>2, <1>3, <1>4, <1>5, <1>6 DEF Next

LEMMA StutterKeeps ==
    ASSUME IInv, UNCHANGED vars
    PROVE  Keeps
<1>1. RestOk
  BY TypeIs DEF IInv
<1>2. RestOk' /\ GoodsStep /\ UNCHANGED <<pickup, call, strayed>>
  BY <1>1 DEF vars, timeline, RestOk, GoodsStep
<1> QED BY <1>2, TimelineKeeps

LEMMA KeepsInv ==
    ASSUME IInv, Keeps, ChargedInHand
    PROVE  IInv' /\ ChargedInHand'
<1>1. TypeInv' /\ InOrder' /\ HandStep /\ InHand
  BY DEF Keeps, IInv
<1>2. InHand'
  <2>1. received' \subseteq handed'
    BY <1>1 DEF HandStep, InHand
  <2>2. \A q \in Requests : Collected(q)' \subseteq handed'
    BY <1>1 DEF HandStep, InHand
  <2>3. \A d \in Calls : call'[d] # Idle /\ call'[d].op = "complete" =>
           Pieces(call'[d].saw.collected) \subseteq handed'
    BY <1>1 DEF HandStep
  <2>4. \A d \in Calls : (call[d] # Idle /\ call[d].op = "complete" =>
           Pieces(call[d].saw.collected) \subseteq handed)'
    BY <2>3 DEF Pieces, Idle
  <2> QED BY <2>1, <2>2, <2>4 DEF InHand
<1>3. ChargedInHand'
  BY <1>1 DEF HandStep, ChargedInHand, Pieces
<1> QED BY <1>1, <1>2, <1>3 DEF IInv

\* The documents of a pickup, and what calls have loaded of them, are what the
\* code takes them for; and what a call has loaded of a request nobody has
\* written to since is so still.
THEOREM PickupsInOrder == Spec => []IInv
<1>1. Init => IInv /\ ChargedInHand
  BY InitOk
<1>2. IInv /\ ChargedInHand /\ [Next]_vars => (IInv /\ ChargedInHand)'
  BY StepKeeps, StutterKeeps, KeepsInv
<1> QED BY <1>1, <1>2, PTL DEF Spec

\* completePickupAttempt, markPickupReceivedAtDelhiHub and the origin scans make
\* a charge billable only for goods that a driver or the hub had in hand.
THEOREM ChargedGoodsInHand == Spec => []ChargedInHand
<1>1. Init => IInv /\ ChargedInHand
  BY InitOk
<1>2. IInv /\ ChargedInHand /\ [Next]_vars => (IInv /\ ChargedInHand)'
  BY StepKeeps, StutterKeeps, KeepsInv
<1> QED BY <1>1, <1>2, PTL DEF Spec

\* No driver keeps working on a pickup that is over or back at its start, unless
\* a call wrote to it from a stale copy or died halfway.
THEOREM NobodyIsLeft == Spec => []NobodyLeftBehind
<1>1. IInv => NobodyLeftBehind
  <2> SUFFICES ASSUME IInv, NEW r \in Requests \ strayed,
                      \A c \in Calls : ~(On(call[c], r) /\ call[c].step > 1)
               PROVE  OneAtWork(r) /\ (NoneAtWork(r) /\ ~ Pending(r)) /\ NoneKept(r)
    BY DEF NobodyLeftBehind, OneAtWork, NoneAtWork, NoneKept
  <2>1. ~ Pending(r)
    BY DEF Pending
  <2> QED BY <2>1 DEF IInv, InOrder
<1> QED BY <1>1, PickupsInOrder, PTL
=============================================================================
