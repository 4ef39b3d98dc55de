----------------------------- MODULE ScanSummary -----------------------------
(***************************************************************************)
(* What a quantile collector promises a scrape.                            *)
(*                                                                         *)
(* A scrape is shown the records of the scan completed last, in each       *)
(* dimension the set is configured with; a completed scan replaces what is *)
(* shown in all of them at once, and nothing else does: neither a scan in  *)
(* progress, nor one that was refused.                                     *)
(***************************************************************************)
EXTENDS Integers, Sequences

CONSTANTS Dims,               \* the dimensions there are
          Records,            \* what a scan delivers
          Contributes(_, _)   \* a record has a value in a dimension

VARIABLES dims,       \* the dimensions the set is configured with
          history,    \* records of all scans, in the order processed
          scanning,   \* a scan is under way
          first,      \* position of its first record in history
          shown       \* [Dims -> positions of the records a scrape is shown]

vars == <<dims, history, scanning, first, shown>>

\* The records at positions P, by dimension.
Summary(P) ==
    [d \in Dims |-> IF d \in dims THEN {p \in P : Contributes(d, history[p])} ELSE {}]

Init == /\ dims \subseteq Dims
        /\ history = <<>>
        /\ scanning = FALSE
        /\ first = 1
        /\ shown = [d \in Dims |-> {}]

Start == /\ ~scanning
         /\ scanning' = TRUE
         /\ first' = Len(history) + 1
         /\ UNCHANGED <<dims, history, shown>>

Observe(r) == /\ scanning
              /\ history' = Append(history, r)
              /\ UNCHANGED <<dims, scanning, first, shown>>

\* The node refuses the scan: nothing was delivered, what is shown stays.
Refuse == /\ scanning
          /\ first = Len(history) + 1
          /\ scanning' = FALSE
          /\ UNCHANGED <<dims, history, first, shown>>

Complete == /\ scanning
            /\ shown' = Summary(first..Len(history))
            /\ scanning' = FALSE
            /\ UNCHANGED <<dims, history, first>>

Next == \/ Start \/ Refuse \/ Complete
        \/ \E r \in Records : Observe(r)

Spec == Init /\ [][Next]_vars
=============================================================================
