---------------------------- MODULE BookingFunds ----------------------------
(***************************************************************************)
(* What the credit booking engine promises, without its running totals,    *)
(* charges, calls or review states: a purse of prepaid money and a line of *)
(* credit, against which a booking attempt holds an amount that is later   *)
(* taken or freed, once.  What is held is counted from the holds           *)
(* themselves, so nothing here can drift; the engine keeps running totals  *)
(* instead, and implementing this module is what it means for them to be   *)
(* right.                                                                  *)
(***************************************************************************)
EXTENDS MinorUnits

CONSTANTS Drafts, Attempts, DraftOf, Price

VARIABLES
    purse,   \* prepaid money, held or not
    debt,    \* credit taken and not paid off
    line,    \* the credit limit
    hold     \* the hold of each attempt: its stage and its two portions

fundsVars == <<purse, debt, line, hold>>

NoFundsHold == [stage |-> "none", advance |-> 0, credit |-> 0]

Held == {a \in Attempts : hold[a].stage = "held"}
HeldAdvance == Total(Held, [a \in Attempts |-> hold[a].advance])
HeldCredit == Total(Held, [a \in Attempts |-> hold[a].credit])

FundsInit ==
    /\ purse = 0 /\ debt = 0 /\ line = 0
    /\ hold = [a \in Attempts |-> NoFundsHold]

\* A hold advances to a stage, and nothing else about it changes.
Advance(a, from, to) ==
    /\ hold[a].stage = from /\ hold'[a].stage = to
    /\ hold' = [hold EXCEPT ![a].stage = to]

\* Prepaid money goes first, credit makes up the rest, neither is promised
\* twice, and a draft holds or has paid for one attempt at most.
Hold(a) ==
    /\ hold[a].stage = "none" /\ hold'[a].stage = "held"
    /\ UNCHANGED <<purse, debt, line>>
    /\ \A b \in Attempts : DraftOf[b] = DraftOf[a]
                              => hold[b].stage \notin {"held", "taken"}
    /\ LET advance == Lesser(Price[a], purse - HeldAdvance)
           credit == Price[a] - advance
       IN /\ credit > 0 => debt + HeldCredit + credit <= line
          /\ hold' = [hold EXCEPT ![a] = [stage |-> "held", advance |-> advance,
                                          credit |-> credit]]

Take(a) ==
    /\ Advance(a, "held", "taken")
    /\ purse' = purse - hold[a].advance
    /\ debt' = debt + hold[a].credit
    /\ UNCHANGED line

Free(a) ==
    /\ Advance(a, "held", "freed")
    /\ UNCHANGED <<purse, debt, line>>

\* Money comes in: it pays off debt or fills the purse.
PayIn ==
    /\ UNCHANGED <<line, hold>>
    /\ purse' >= purse
    /\ debt' \in 0 .. debt

\* The limit never drops below what is committed.
SetLine ==
    /\ line' # line
    /\ UNCHANGED <<purse, debt, hold>>
    /\ line' >= debt + HeldCredit

FundsNext ==
    \/ PayIn
    \/ SetLine
    \/ \E a \in Attempts : Hold(a) \/ Take(a) \/ Free(a)

FundsSpec == FundsInit /\ [][FundsNext]_fundsVars
=============================================================================
