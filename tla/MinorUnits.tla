----------------------------- MODULE MinorUnits -----------------------------
(***************************************************************************)
(* Sums of minor-unit amounts (paise).  Every balance the credit services  *)
(* keep is an integer number of minor units, and what has to agree with    *)
(* them is always a sum over a finite set of documents: reservations,      *)
(* invoices, statements.  The sum is counted, not folded: a document r of  *)
(* amount n stands for the n distinct units <<r, 1>>, ..., <<r, n>>, and   *)
(* the total is the number of units.  Nothing here is recursive, so the    *)
(* sums can be reasoned about for every set of documents.                  *)
(***************************************************************************)
EXTENDS Integers, FiniteSets

\* The minor units that the documents of S stand for.
Units(S, amount) == UNION {{r} \X (1 .. amount[r]) : r \in S}

\* The sum of amount[r] over the documents r of S.
Total(S, amount) == Cardinality(Units(S, amount))

\* Math.max(n, 0) and the $max of the account expressions.
AtLeastZero(n) == IF n > 0 THEN n ELSE 0

\* Math.min(m, n) and the $min of the account expressions.
Lesser(m, n) == IF m <= n THEN m ELSE n
=============================================================================
