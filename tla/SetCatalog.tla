------------------------------ MODULE SetCatalog ------------------------------
(***************************************************************************)
(* What the discovery registry promises the rest of the exporter.          *)
(*                                                                         *)
(* The scanner asks the catalog which collectors a set has; a scrape sees  *)
(* the series those collectors serve.  A reconciliation replaces the whole *)
(* catalog at once for the scanner.  For a scrape it replaces the series   *)
(* of one set after the other: those of a set leave one by one, then those *)
(* of its new form come one by one.  So a scrape at any moment shows at    *)
(* most one set in part, never old and new series of one set together, and *)
(* nothing missing of a set whose entry stays.                             *)
(***************************************************************************)
CONSTANTS Key,          \* the names "ns:set"
          Shapes,       \* what an entry says about its collectors
          SeriesOf(_)   \* the series collectors of that shape serve

VARIABLES catalog,      \* Key -> Shapes, on the sets that are known
          served,       \* [Key -> set of series a scrape is shown]
          stage,        \* [Key -> how far the replacement of its series is]
          busy          \* a reconciliation is under way

vars == <<catalog, served, stage, busy>>

\* An entry as a set: empty for an unknown key.
Entry(cat, k) == IF k \in DOMAIN cat THEN {cat[k]} ELSE {}
Shown(cat, k) == UNION {SeriesOf(e) : e \in Entry(cat, k)}

Moving(k) == stage[k] \in {"leaving", "coming"}
NoneMoves == \A k \in Key : ~Moving(k)

Init == /\ catalog = [k \in {} |-> {}]
        /\ served = [k \in Key |-> {}]
        /\ stage = [k \in Key |-> "settled"]
        /\ busy = FALSE

Begin == /\ ~busy
         /\ busy' = TRUE
         /\ \E K \in SUBSET Key : catalog' \in [K -> Shapes]
         /\ stage' = [k \in Key |-> IF Entry(catalog, k) = Entry(catalog', k)
                                    THEN "settled" ELSE "waiting"]
         /\ UNCHANGED served

Stage(k, to) == /\ stage' = [stage EXCEPT ![k] = to]
                /\ UNCHANGED <<catalog, served, busy>>

Leave(k) == stage[k] = "waiting" /\ NoneMoves /\ Stage(k, "leaving")

Drop(k) == /\ stage[k] = "leaving"
           /\ \E some \in SUBSET served[k] : served' = [served EXCEPT ![k] = some]
           /\ UNCHANGED <<catalog, stage, busy>>

\* The new series come only when the old ones are gone: of a key that leaves,
\* or of one that served nothing before.
Turn(k) == /\ stage[k] = "leaving" \/ (stage[k] = "waiting" /\ NoneMoves)
           /\ served[k] = {}
           /\ Stage(k, "coming")

Show(k) == /\ stage[k] = "coming"
           /\ \E more \in SUBSET Shown(catalog, k) :
                 served' = [served EXCEPT ![k] = @ \cup more]
           /\ UNCHANGED <<catalog, stage, busy>>

Settle(k) == Moving(k) /\ served[k] = Shown(catalog, k) /\ Stage(k, "settled")

End == /\ busy
       /\ \A k \in Key : stage[k] = "settled"
       /\ busy' = FALSE
       /\ UNCHANGED <<catalog, served, stage>>

Next == \/ Begin
        \/ \E k \in Key : Leave(k) \/ Drop(k) \/ Turn(k) \/ Show(k) \/ Settle(k)
        \/ End

Spec == Init /\ [][Next]_vars
=============================================================================
