-------------------------------- MODULE Sums --------------------------------
(* Sums of numbers, as the loops of the code take them: one after another. *)
EXTENDS Integers, Sequences

\* The running totals of the sequence ws: entry 0 is before its first number.
RunningSums(ws) == LET sum[i \in 0..Len(ws)] == IF i = 0 THEN 0 ELSE sum[i - 1] + ws[i] IN sum

SumOf(ws) == RunningSums(ws)[Len(ws)]

\* The sum of those numbers of ws whose indices are in P.
SumAt(ws, P) == SumOf([i \in 1..Len(ws) |-> IF i \in P THEN ws[i] ELSE 0])
=============================================================================
