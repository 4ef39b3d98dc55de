---------------------------- MODULE SetScanProofs ----------------------------
(***************************************************************************)
(* Proofs about the scans of a set, for all records, edges, configurations *)
(* and bounds.                                                             *)
(***************************************************************************)
EXTENDS Quantiles, TLAPS, OrderLemmas

(* What appending the record in hand does to the history.                  *)
LEMMA AppendFacts ==
    ASSUME NEW S, NEW s \in Seq(S), NEW x \in S
    PROVE  /\ Append(s, x) \in Seq(S)
           /\ Len(Append(s, x)) = Len(s) + 1
           /\ Len(s) \in Nat
           /\ \A p \in 1..Len(s) : Append(s, x)[p] = s[p]
           /\ Append(s, x)[Len(s) + 1] = x
OBVIOUS

(* The position of the record in hand is one beyond the history.           *)
LEMMA PositionFacts ==
    ASSUME ScanBuffersOK
    PROVE  Len(log) \in Nat /\ Position = Len(log) + 1 /\ Position \in Positions
BY DEF ScanBuffersOK, Position, Positions

(* The type invariant, part by part: the state of the scan, the buffers,    *)
(* the mutexes.                                                            *)
LEMMA TypeInit == Init => ScanTypeOK
<1> SUFFICES ASSUME Init PROVE ScanTypeOK
  OBVIOUS
<1>1. log \in Seq(Records \cup {NoRecord}) /\ Len(log) = 0
  BY DEF Init
<1>2. ScanStateOK
  BY DEF Init, ScanStateOK, NoRange, Ranges, Phases
<1>3. done \in [from : Nat, to : Nat, erred : BOOLEAN] /\ from \in Positions
  BY <1>1 DEF Init, NoScan, Positions
<1>4. ScanBuffersOK
  BY <1>1, <1>3 DEF Init, ScanBuffersOK
<1>5. bytesMu = FALSE /\ quantMu = FALSE /\ phase = "idle"
  BY DEF Init
<1>6. (phase = "total") = FALSE /\ (phase \in {"sizeq", "ttlSize"}) = FALSE
  BY <1>5
<1>7. ScanMutexOK
  BY <1>5, <1>6, Zenon DEF ScanMutexOK
<1>8. QED
  BY <1>2, <1>4, <1>7 DEF ScanTypeOK

\* Every step keeps the types of the scan's state.
LEMMA StateStep ==
    ASSUME ScanStateOK, [Next]_vars
    PROVE  ScanStateOK'
<1> USE ScanAssumption DEF ScanStateOK, Phases, vars, configVars, histVars,
   quantVars, gaugeVars, scanVars
<1>1. CASE Begin
  <2>1. ttls' \in Ranges
    BY <1>1 DEF Begin, NoRange, Ranges
  <2>2. erred' \in BOOLEAN
    BY <1>1, Zenon DEF Begin
  <2>3. scans' \in Nat /\ exported' \in Nat /\ phase' \in Phases
    BY <1>1 DEF Begin
  <2>4. UNCHANGED <<element, expirable, rec, opPolicy, results>>
    BY <1>1 DEF Begin
  <2>5. QED
    BY <2>1, <2>2, <2>3, <2>4
<1>2. CASE ScanRefused
  BY <1>2 DEF ScanRefused
<1>3. CASE ScanOpens
  BY <1>3 DEF ScanOpens, NeedsReads, QuantilesNeedSize
<1>4. ASSUME NEW r \in Records, TakeExpirable(r)
      PROVE  ScanStateOK'
  <2>1. r.ttl \in Nat
    BY <1>4 DEF TakeExpirable, Records, Expirable
  <2>2. ttls' \in Ranges
    BY <1>4, <2>1 DEF TakeExpirable, Observed, Ranges
  <2>3. QED
    BY <1>4, <2>2 DEF TakeExpirable
<1>5. ASSUME NEW r \in Records, TakeUnexpirable(r)
      PROVE  ScanStateOK'
  BY <1>5 DEF TakeUnexpirable
<1>6. CASE Measure
  BY <1>6 DEF Measure
<1>7. CASE AddToBucket
  BY <1>7 DEF AddToBucket
<1>8. CASE AddToTotal
  BY <1>8 DEF AddToTotal
<1>9. CASE ObserveSize
  BY <1>9 DEF ObserveSize
<1>10. CASE Tally
  BY <1>10 DEF Tally
<1>11. CASE ResultError
  BY <1>11 DEF ResultError
<1>12. CASE ResultsEnd
  BY <1>12 DEF ResultsEnd
<1>13. CASE PublishMin
  BY <1>13 DEF PublishMin, AfterPublish
<1>14. CASE PublishMax
  BY <1>14 DEF PublishMax, AfterPublish
<1>15. CASE FinalizeTTL
  BY <1>15 DEF FinalizeTTL
<1>16. CASE FinalizeSize
  BY <1>16 DEF FinalizeSize
<1>17. CASE FinalizeTTLSize
  BY <1>17 DEF FinalizeTTLSize
<1>18. CASE UNCHANGED vars
  BY <1>18
<1>19. QED
  BY <1>1, <1>2, <1>3, <1>4, <1>5, <1>6, <1>7, <1>8, <1>9, <1>10, <1>11,
     <1>12, <1>13, <1>14, <1>15, <1>16, <1>17, <1>18 DEF Next

\* Every step keeps the buffers within the positions of the records seen.
LEMMA BuffersStep ==
    ASSUME ScanStateOK, ScanBuffersOK, [Next]_vars
    PROVE  ScanBuffersOK'
<1> USE DEF ScanBuffersOK, vars, configVars, histVars, quantVars, gaugeVars,
   scanVars
<1>0. Len(log) \in Nat /\ Position \in Positions
  BY PositionFacts
<1>stage. ASSUME NEW ds PROVE Stage(ds, Position) \in [Dims -> SUBSET Positions]
  BY <1>0 DEF Stage
<1>promote. ASSUME NEW d \in Dims, Promote(d) PROVE live' \in [Dims -> SUBSET Positions]
  BY <1>promote DEF Promote
<1>1. CASE Begin
  BY <1>1, <1>0 DEF Begin, Positions
<1>2. CASE ScanRefused
  BY <1>2 DEF ScanRefused, Positions
<1>3. CASE ScanOpens
  BY <1>3 DEF ScanOpens, Positions
<1>4. ASSUME NEW r \in Records, TakeExpirable(r)
      PROVE  ScanBuffersOK'
  <2>1. log' = log /\ Positions' = Positions
    BY <1>4 DEF TakeExpirable, Positions
  <2>2. counts' \subseteq Positions /\ staging' \in [Dims -> SUBSET Positions]
    BY <1>4, <1>0, <1>stage DEF TakeExpirable
  <2>3. QED
    BY <1>4, <2>1, <2>2 DEF TakeExpirable
<1>5. ASSUME NEW r \in Records, TakeUnexpirable(r)
      PROVE  ScanBuffersOK'
  BY <1>5 DEF TakeUnexpirable, Positions
<1>6. CASE Measure
  BY <1>6 DEF Measure, Positions
<1>7. CASE AddToBucket
  <2>1. log' = log /\ Positions' = Positions
    BY <1>7 DEF AddToBucket, Positions
  <2>2. buckets' \in [Buckets -> SUBSET Positions]
    BY <1>7, <1>0 DEF AddToBucket
  <2>3. QED
    BY <1>7, <2>1, <2>2 DEF AddToBucket
<1>8. CASE AddToTotal
  <2>1. log' = log /\ Positions' = Positions
    BY <1>8 DEF AddToTotal, Positions
  <2>2. total' \subseteq Positions
    BY <1>8, <1>0 DEF AddToTotal
  <2>3. QED
    BY <1>8, <2>1, <2>2 DEF AddToTotal
<1>9. CASE ObserveSize
  <2>1. log' = log /\ Positions' = Positions
    BY <1>9 DEF ObserveSize, Positions
  <2>2. sizes' \subseteq Positions /\ staging' \in [Dims -> SUBSET Positions]
    BY <1>9, <1>0, <1>stage DEF ObserveSize
  <2>3. QED
    BY <1>9, <2>1, <2>2 DEF ObserveSize
<1>10. CASE Tally
  <2>1. log' \in Seq(Records \cup {NoRecord}) /\ Len(log') = Len(log) + 1
    BY <1>10, AppendFacts DEF Tally, ScanStateOK
  <2>2. Positions \subseteq Positions' /\ 1..Len(log) \subseteq 1..Len(log')
    BY <2>1, <1>0 DEF Positions
  <2>3. QED
    BY <1>10, <2>1, <2>2 DEF Tally
<1>11. CASE ResultError
  BY <1>11 DEF ResultError, Positions
<1>12. CASE ResultsEnd
  BY <1>12 DEF ResultsEnd, Positions
<1>13. CASE PublishMin
  BY <1>13 DEF PublishMin, Positions, ScanStateOK, Ranges
<1>14. CASE PublishMax
  <2>1. from..Len(log) \subseteq 1..Len(log)
    BY <1>0 DEF Positions
  <2>2. QED
    BY <1>14, <2>1 DEF PublishMax, Positions, ScanStateOK, Ranges
<1>15. CASE FinalizeTTL
  BY <1>15, <1>promote DEF FinalizeTTL, Positions, Dims
<1>16. CASE FinalizeSize
  BY <1>16, <1>promote DEF FinalizeSize, Positions, Dims
<1>17. CASE FinalizeTTLSize
  <2>1. done' \in [from : Nat, to : Nat, erred : BOOLEAN]
    BY <1>17, <1>0 DEF FinalizeTTLSize, ScanStateOK, Positions
  <2>2. QED
    BY <1>17, <1>promote, <2>1 DEF FinalizeTTLSize, Positions, Dims
<1>18. CASE UNCHANGED vars
  BY <1>18 DEF Positions
<1>19. QED
  BY <1>1, <1>2, <1>3, <1>4, <1>5, <1>6, <1>7, <1>8, <1>9, <1>10, <1>11,
     <1>12, <1>13, <1>14, <1>15, <1>16, <1>17, <1>18 DEF Next

\* A mutex is taken and released by the one operation that holds it.
LEMMA MutexStep ==
    ASSUME ScanMutexOK, [Next]_vars
    PROVE  ScanMutexOK'
<1> USE DEF ScanMutexOK, vars, configVars, histVars, quantVars, gaugeVars, scanVars
<1>1. CASE Begin
  BY <1>1 DEF Begin
<1>2. CASE ScanRefused
  BY <1>2 DEF ScanRefused
<1>3. CASE ScanOpens
  BY <1>3 DEF ScanOpens
<1>4. ASSUME NEW r \in Records, TakeExpirable(r)
      PROVE  ScanMutexOK'
  BY <1>4 DEF TakeExpirable
<1>5. ASSUME NEW r \in Records, TakeUnexpirable(r)
      PROVE  ScanMutexOK'
  BY <1>5 DEF TakeUnexpirable
<1>6. CASE Measure
  BY <1>6 DEF Measure
<1>7. CASE AddToBucket
  <2>1. (phase' = "total") = TRUE /\ (phase \in {"sizeq", "ttlSize"}) = FALSE
        /\ (phase' \in {"sizeq", "ttlSize"}) = FALSE
    BY <1>7 DEF AddToBucket
  <2>2. QED
    BY <1>7, <2>1, Zenon DEF AddToBucket
<1>8. CASE AddToTotal
  <2>1. (phase' = "total") = FALSE /\ (phase \in {"sizeq", "ttlSize"}) = FALSE
        /\ (phase' \in {"sizeq", "ttlSize"}) = FALSE
    BY <1>8 DEF AddToTotal
  <2>2. QED
    BY <1>8, <2>1, Zenon DEF AddToTotal
<1>9. CASE ObserveSize
  BY <1>9 DEF ObserveSize
<1>10. CASE Tally
  BY <1>10 DEF Tally
<1>11. CASE ResultError
  BY <1>11 DEF ResultError
<1>12. CASE ResultsEnd
  BY <1>12 DEF ResultsEnd
<1>13. CASE PublishMin
  BY <1>13 DEF PublishMin, AfterPublish
<1>14. CASE PublishMax
  BY <1>14 DEF PublishMax, AfterPublish
<1>15. CASE FinalizeTTL
  BY <1>15 DEF FinalizeTTL
<1>16. CASE FinalizeSize
  BY <1>16 DEF FinalizeSize
<1>17. CASE FinalizeTTLSize
  <2>1. (phase' = "total") = FALSE /\ (phase = "total") = FALSE
        /\ (phase' \in {"sizeq", "ttlSize"}) = FALSE
    BY <1>17 DEF FinalizeTTLSize
  <2>2. QED
    BY <1>17, <2>1, Zenon DEF FinalizeTTLSize
<1>18. CASE UNCHANGED vars
  BY <1>18
<1>19. QED
  BY <1>1, <1>2, <1>3, <1>4, <1>5, <1>6, <1>7, <1>8, <1>9, <1>10, <1>11,
     <1>12, <1>13, <1>14, <1>15, <1>16, <1>17, <1>18 DEF Next

(***************************************************************************)
(* The record in hand, the policy of size reads and the cap.               *)
(***************************************************************************)
LEMMA RecordStep ==
    ASSUME ScanStateOK, RecordOK, [Next]_vars
    PROVE  RecordOK'
<1> USE DEF RecordOK, InRecord, vars, configVars, histVars, quantVars,
   gaugeVars, scanVars
<1>1. CASE Begin
  BY <1>1 DEF Begin
<1>2. CASE ScanRefused
  BY <1>2 DEF ScanRefused
<1>3. CASE ScanOpens
  BY <1>3 DEF ScanOpens
<1>4. ASSUME NEW r \in Records, TakeExpirable(r)
      PROVE  RecordOK'
  BY <1>4 DEF TakeExpirable, Expirable, HasBytes
<1>5. ASSUME NEW r \in Records, TakeUnexpirable(r)
      PROVE  RecordOK'
  BY <1>5 DEF TakeUnexpirable, Expirable, HasBytes
<1>6. CASE Measure
  BY <1>6 DEF Measure, Expirable, HasBytes, ScanStateOK, Records
<1>7. CASE AddToBucket
  BY <1>7 DEF AddToBucket, HasBytes, Expirable
<1>8. CASE AddToTotal
  BY <1>8 DEF AddToTotal
<1>9. CASE ObserveSize
  BY <1>9 DEF ObserveSize
<1>10. CASE Tally
  BY <1>10 DEF Tally
<1>11. CASE ResultError
  BY <1>11 DEF ResultError
<1>12. CASE ResultsEnd
  BY <1>12 DEF ResultsEnd
<1>13. CASE PublishMin
  BY <1>13 DEF PublishMin, AfterPublish
<1>14. CASE PublishMax
  BY <1>14 DEF PublishMax, AfterPublish
<1>15. CASE FinalizeTTL
  BY <1>15 DEF FinalizeTTL
<1>16. CASE FinalizeSize
  BY <1>16 DEF FinalizeSize
<1>17. CASE FinalizeTTLSize
  BY <1>17 DEF FinalizeTTLSize
<1>18. CASE UNCHANGED vars
  BY <1>18 DEF HasBytes, Expirable
<1>19. QED
  BY <1>1, <1>2, <1>3, <1>4, <1>5, <1>6, <1>7, <1>8, <1>9, <1>10, <1>11,
     <1>12, <1>13, <1>14, <1>15, <1>16, <1>17, <1>18 DEF Next

\* From the opening of the scan on, the policy is there if a size may be read.
LEMMA PolicyStep ==
    ASSUME ScanStateOK, PolicyOK, [Next]_vars
    PROVE  PolicyOK'
<1> USE DEF PolicyOK, InRecord, NeedsReads, QuantilesNeedSize, vars,
   configVars, histVars, quantVars, gaugeVars, scanVars
<1>1. CASE Begin
  BY <1>1 DEF Begin
<1>2. CASE ScanRefused
  BY <1>2 DEF ScanRefused
<1>3. CASE ScanOpens
  BY <1>3 DEF ScanOpens
<1>4. ASSUME NEW r \in Records, TakeExpirable(r)
      PROVE  PolicyOK'
  BY <1>4 DEF TakeExpirable
<1>5. ASSUME NEW r \in Records, TakeUnexpirable(r)
      PROVE  PolicyOK'
  BY <1>5 DEF TakeUnexpirable
<1>6. CASE Measure
  BY <1>6 DEF Measure
<1>7. CASE AddToBucket
  BY <1>7 DEF AddToBucket
<1>8. CASE AddToTotal
  BY <1>8 DEF AddToTotal
<1>9. CASE ObserveSize
  BY <1>9 DEF ObserveSize
<1>10. CASE Tally
  BY <1>10 DEF Tally
<1>11. CASE ResultError
  BY <1>11 DEF ResultError
<1>12. CASE ResultsEnd
  BY <1>12 DEF ResultsEnd
<1>13. CASE PublishMin
  BY <1>13 DEF PublishMin, AfterPublish
<1>14. CASE PublishMax
  BY <1>14 DEF PublishMax, AfterPublish
<1>15. CASE FinalizeTTL
  BY <1>15 DEF FinalizeTTL
<1>16. CASE FinalizeSize
  BY <1>16 DEF FinalizeSize
<1>17. CASE FinalizeTTLSize
  BY <1>17 DEF FinalizeTTLSize
<1>18. CASE UNCHANGED vars
  BY <1>18
<1>19. QED
  BY <1>1, <1>2, <1>3, <1>4, <1>5, <1>6, <1>7, <1>8, <1>9, <1>10, <1>11,
     <1>12, <1>13, <1>14, <1>15, <1>16, <1>17, <1>18 DEF Next

\* The cap is checked after every result, so it is exceeded by none.
LEMMA CapStep ==
    ASSUME ScanStateOK, RecordOK, CapOK, [Next]_vars
    PROVE  CapOK'
<1> USE ScanAssumption DEF CapOK, InScan, ScanStateOK, CapReached, vars,
   configVars, histVars, quantVars, gaugeVars, scanVars
<1>0. element.cap \in Nat \cup {-1}
  OBVIOUS
<1>1. CASE Begin
  BY <1>1, <1>0 DEF Begin
<1>2. CASE ScanRefused
  BY <1>2, <1>0 DEF ScanRefused
<1>3. CASE ScanOpens
  BY <1>3, <1>0 DEF ScanOpens
<1>4. ASSUME NEW r \in Records, TakeExpirable(r)
      PROVE  CapOK'
  BY <1>4, <1>0 DEF TakeExpirable
<1>5. ASSUME NEW r \in Records, TakeUnexpirable(r)
      PROVE  CapOK'
  BY <1>5, <1>0 DEF TakeUnexpirable
<1>6. CASE Measure
  BY <1>6, <1>0 DEF Measure
<1>7. CASE AddToBucket
  BY <1>7, <1>0 DEF AddToBucket
<1>8. CASE AddToTotal
  BY <1>8, <1>0 DEF AddToTotal
<1>9. CASE ObserveSize
  BY <1>9, <1>0 DEF ObserveSize
<1>10. CASE Tally
  BY <1>10, <1>0 DEF Tally
<1>11. CASE ResultError
  BY <1>11, <1>0 DEF ResultError
<1>12. CASE ResultsEnd
  BY <1>12, <1>0 DEF ResultsEnd
<1>13. CASE PublishMin
  BY <1>13, <1>0 DEF PublishMin, AfterPublish
<1>14. CASE PublishMax
  BY <1>14, <1>0 DEF PublishMax, AfterPublish
<1>15. CASE FinalizeTTL
  BY <1>15, <1>0 DEF FinalizeTTL
<1>16. CASE FinalizeSize
  BY <1>16, <1>0 DEF FinalizeSize
<1>17. CASE FinalizeTTLSize
  BY <1>17, <1>0 DEF FinalizeTTLSize
<1>18. CASE UNCHANGED vars
  BY <1>18
<1>19. QED
  BY <1>1, <1>2, <1>3, <1>4, <1>5, <1>6, <1>7, <1>8, <1>9, <1>10, <1>11,
     <1>12, <1>13, <1>14, <1>15, <1>16, <1>17, <1>18 DEF Next

(***************************************************************************)
(* The histograms.                                                         *)
(***************************************************************************)
LEMMA TallyFacts ==
    ASSUME ScanStateOK, ScanBuffersOK, Tally
    PROVE  /\ 1..Len(log') = 1..Len(log) \cup {Position}
           /\ Position \notin 1..Len(log)
           /\ \A p \in 1..Len(log) : log'[p] = log[p]
           /\ log'[Position] = rec
           /\ Position' = Position + 1 /\ Position \in Nat
<1>1. log' = Append(log, rec) /\ log \in Seq(Records \cup {NoRecord})
      /\ rec \in Records \cup {NoRecord}
  BY DEF ScanStateOK, ScanBuffersOK, Tally
<1>2. QED
  BY <1>1, AppendFacts DEF Position

LEMMA CountsStep ==
    ASSUME ScanStateOK, ScanBuffersOK, RecordOK, CountsOK, [Next]_vars
    PROVE  CountsOK'
<1> USE DEF CountsOK, Position, HasCounts, Expirable, InRecord, vars,
   configVars, histVars, quantVars, gaugeVars, scanVars
<1>1. CASE Begin
  BY <1>1 DEF Begin
<1>2. CASE ScanRefused
  BY <1>2 DEF ScanRefused
<1>3. CASE ScanOpens
  BY <1>3 DEF ScanOpens
<1>4. ASSUME NEW r \in Records, TakeExpirable(r)
      PROVE  CountsOK'
  BY <1>4 DEF TakeExpirable
<1>5. ASSUME NEW r \in Records, TakeUnexpirable(r)
      PROVE  CountsOK'
  BY <1>5 DEF TakeUnexpirable
<1>6. CASE Measure
  BY <1>6 DEF Measure
<1>7. CASE AddToBucket
  BY <1>7 DEF AddToBucket
<1>8. CASE AddToTotal
  BY <1>8 DEF AddToTotal
<1>9. CASE ObserveSize
  BY <1>9 DEF ObserveSize
<1>10. CASE Tally
  <2>1. phase = "tally" /\ phase' \in {"min", "drain"}
    BY <1>10 DEF Tally
  <2>2. UNCHANGED <<configVars, histVars>>
    BY <1>10 DEF Tally
  <2>3. QED
    BY <2>1, <2>2, TallyFacts, <1>10
<1>11. CASE ResultError
  BY <1>11 DEF ResultError
<1>12. CASE ResultsEnd
  BY <1>12 DEF ResultsEnd
<1>13. CASE PublishMin
  BY <1>13 DEF PublishMin, AfterPublish
<1>14. CASE PublishMax
  BY <1>14 DEF PublishMax, AfterPublish
<1>15. CASE FinalizeTTL
  BY <1>15 DEF FinalizeTTL
<1>16. CASE FinalizeSize
  BY <1>16 DEF FinalizeSize
<1>17. CASE FinalizeTTLSize
  BY <1>17 DEF FinalizeTTLSize
<1>18. CASE UNCHANGED vars
  BY <1>18
<1>19. QED
  BY <1>1, <1>2, <1>3, <1>4, <1>5, <1>6, <1>7, <1>8, <1>9, <1>10, <1>11,
     <1>12, <1>13, <1>14, <1>15, <1>16, <1>17, <1>18 DEF Next

\* Likewise for the histogram of sizes, observed once the size is known.
LEMMA SizesStep ==
    ASSUME ScanStateOK, ScanBuffersOK, RecordOK, SizesOK, [Next]_vars
    PROVE  SizesOK'
<1> USE DEF SizesOK, Position, InRecord, vars, configVars, histVars,
   quantVars, gaugeVars, scanVars
<1>1. CASE Begin
  BY <1>1 DEF Begin
<1>2. CASE ScanRefused
  BY <1>2 DEF ScanRefused
<1>3. CASE ScanOpens
  BY <1>3 DEF ScanOpens
<1>4. ASSUME NEW r \in Records, TakeExpirable(r)
      PROVE  SizesOK'
  BY <1>4 DEF TakeExpirable, QuantilesNeedSize
<1>5. ASSUME NEW r \in Records, TakeUnexpirable(r)
      PROVE  SizesOK'
  BY <1>5 DEF TakeUnexpirable, QuantilesNeedSize
<1>6. CASE Measure
  BY <1>6 DEF Measure
<1>7. CASE AddToBucket
  BY <1>7 DEF AddToBucket
<1>8. CASE AddToTotal
  BY <1>8 DEF AddToTotal
<1>9. CASE ObserveSize
  BY <1>9 DEF ObserveSize
<1>10. CASE Tally
  <2>1. phase = "tally" /\ phase' \in {"min", "drain"}
    BY <1>10 DEF Tally
  <2>2. UNCHANGED <<configVars, histVars>>
    BY <1>10 DEF Tally
  <2>3. QED
    BY <2>1, <2>2, TallyFacts, <1>10
<1>11. CASE ResultError
  BY <1>11 DEF ResultError
<1>12. CASE ResultsEnd
  BY <1>12 DEF ResultsEnd
<1>13. CASE PublishMin
  BY <1>13 DEF PublishMin, AfterPublish
<1>14. CASE PublishMax
  BY <1>14 DEF PublishMax, AfterPublish
<1>15. CASE FinalizeTTL
  BY <1>15 DEF FinalizeTTL
<1>16. CASE FinalizeSize
  BY <1>16 DEF FinalizeSize
<1>17. CASE FinalizeTTLSize
  BY <1>17 DEF FinalizeTTLSize
<1>18. CASE UNCHANGED vars
  BY <1>18
<1>19. QED
  BY <1>1, <1>2, <1>3, <1>4, <1>5, <1>6, <1>7, <1>8, <1>9, <1>10, <1>11,
     <1>12, <1>13, <1>14, <1>15, <1>16, <1>17, <1>18 DEF Next

\* Likewise for the totals of the byte histogram.
LEMMA TotalStep ==
    ASSUME ScanStateOK, ScanBuffersOK, RecordOK, TotalOK, [Next]_vars
    PROVE  TotalOK'
<1> USE DEF TotalOK, Position, Weighed, WeighedNow, HasBytes, Expirable,
   vars, configVars, histVars, quantVars, gaugeVars, scanVars
<1>1. CASE Begin
  BY <1>1 DEF Begin
<1>2. CASE ScanRefused
  BY <1>2 DEF ScanRefused
<1>3. CASE ScanOpens
  BY <1>3 DEF ScanOpens
<1>4. ASSUME NEW r \in Records, TakeExpirable(r)
      PROVE  TotalOK'
  BY <1>4 DEF TakeExpirable
<1>5. ASSUME NEW r \in Records, TakeUnexpirable(r)
      PROVE  TotalOK'
  BY <1>5 DEF TakeUnexpirable
<1>6. CASE Measure
  <2>1. rec.size \in Nat
    BY <1>6, ScanAssumption DEF Measure, RecordOK, InRecord, Records
  <2>2. phase' = IF WeighedNow THEN "weigh" ELSE "size"
    BY <1>6, <2>1 DEF Measure
  <2>3. phase = "measure" /\ UNCHANGED <<configVars, histVars, rec, log>>
    BY <1>6 DEF Measure
  <2>4. QED
    BY <2>2, <2>3
<1>7. CASE AddToBucket
  BY <1>7 DEF AddToBucket, RecordOK
<1>8. CASE AddToTotal
  BY <1>8 DEF AddToTotal, RecordOK
<1>9. CASE ObserveSize
  BY <1>9 DEF ObserveSize
<1>10. CASE Tally
  <2>1. phase = "tally" /\ phase' \in {"min", "drain"}
    BY <1>10 DEF Tally
  <2>2. UNCHANGED <<configVars, histVars>>
    BY <1>10 DEF Tally
  <2>3. QED
    BY <2>1, <2>2, TallyFacts, <1>10
<1>11. CASE ResultError
  BY <1>11 DEF ResultError
<1>12. CASE ResultsEnd
  BY <1>12 DEF ResultsEnd
<1>13. CASE PublishMin
  BY <1>13 DEF PublishMin, AfterPublish
<1>14. CASE PublishMax
  BY <1>14 DEF PublishMax, AfterPublish
<1>15. CASE FinalizeTTL
  BY <1>15 DEF FinalizeTTL
<1>16. CASE FinalizeSize
  BY <1>16 DEF FinalizeSize
<1>17. CASE FinalizeTTLSize
  BY <1>17 DEF FinalizeTTLSize
<1>18. CASE UNCHANGED vars
  BY <1>18
<1>19. QED
  BY <1>1, <1>2, <1>3, <1>4, <1>5, <1>6, <1>7, <1>8, <1>9, <1>10, <1>11,
     <1>12, <1>13, <1>14, <1>15, <1>16, <1>17, <1>18 DEF Next

\* Likewise for each of its buckets, one step ahead of the totals.
LEMMA BucketsStep ==
    ASSUME ScanStateOK, ScanBuffersOK, RecordOK, BucketsOK, [Next]_vars
    PROVE  BucketsOK'
<1> USE DEF BucketsOK, Position, Weighed, WeighedNow, HasBytes, Expirable,
   InBucket, vars, configVars, histVars, quantVars, gaugeVars, scanVars
<1>1. CASE Begin
  BY <1>1 DEF Begin
<1>2. CASE ScanRefused
  BY <1>2 DEF ScanRefused
<1>3. CASE ScanOpens
  BY <1>3 DEF ScanOpens
<1>4. ASSUME NEW r \in Records, TakeExpirable(r)
      PROVE  BucketsOK'
  BY <1>4 DEF TakeExpirable
<1>5. ASSUME NEW r \in Records, TakeUnexpirable(r)
      PROVE  BucketsOK'
  BY <1>5 DEF TakeUnexpirable
<1>6. CASE Measure
  <2>1. rec.size \in Nat
    BY <1>6, ScanAssumption DEF Measure, RecordOK, InRecord, Records
  <2>2. phase' = IF WeighedNow THEN "weigh" ELSE "size"
    BY <1>6, <2>1 DEF Measure
  <2>3. phase = "measure" /\ UNCHANGED <<configVars, histVars, rec, log>>
    BY <1>6 DEF Measure
  <2>4. QED
    BY <2>2, <2>3
<1>7. CASE AddToBucket
  BY <1>7 DEF AddToBucket, RecordOK, ScanBuffersOK
<1>8. CASE AddToTotal
  BY <1>8 DEF AddToTotal, RecordOK
<1>9. CASE ObserveSize
  BY <1>9 DEF ObserveSize
<1>10. CASE Tally
  <2>1. phase = "tally" /\ phase' \in {"min", "drain"}
    BY <1>10 DEF Tally
  <2>2. UNCHANGED <<configVars, histVars>>
    BY <1>10 DEF Tally
  <2>3. QED
    BY <2>1, <2>2, TallyFacts, <1>10
<1>11. CASE ResultError
  BY <1>11 DEF ResultError
<1>12. CASE ResultsEnd
  BY <1>12 DEF ResultsEnd
<1>13. CASE PublishMin
  BY <1>13 DEF PublishMin, AfterPublish
<1>14. CASE PublishMax
  BY <1>14 DEF PublishMax, AfterPublish
<1>15. CASE FinalizeTTL
  BY <1>15 DEF FinalizeTTL
<1>16. CASE FinalizeSize
  BY <1>16 DEF FinalizeSize
<1>17. CASE FinalizeTTLSize
  BY <1>17 DEF FinalizeTTLSize
<1>18. CASE UNCHANGED vars
  BY <1>18
<1>19. QED
  BY <1>1, <1>2, <1>3, <1>4, <1>5, <1>6, <1>7, <1>8, <1>9, <1>10, <1>11,
     <1>12, <1>13, <1>14, <1>15, <1>16, <1>17, <1>18 DEF Next

(***************************************************************************)
(* The quantile buffers: staging belongs to this scan, live to one scan.   *)
(***************************************************************************)
LEMMA StagingStep ==
    ASSUME ScanStateOK, ScanBuffersOK, StagingOK, [Next]_vars
    PROVE  StagingOK'
<1> SUFFICES ASSUME NEW d \in Dims, phase' # "idle"
             PROVE  staging'[d] = (Relevant(d, from..Len(log)))'
                                  \cup (IF StagedNow(d)' THEN {Position'} ELSE {})
  BY DEF StagingOK
<1> USE DEF StagingOK, StagedNow, Relevant, InRecord, Position, vars,
   configVars, histVars, quantVars, gaugeVars, scanVars
<1>0. Len(log) \in Nat /\ Position \in Positions
  BY PositionFacts
<1>1. CASE Begin
  <2>1. from'..Len(log') = {} /\ phase' = "open" /\ staging'[d] = {}
    BY <1>1, <1>0 DEF Begin
  <2>2. QED
    BY <2>1
<1>2. CASE ScanRefused
  BY <1>2 DEF ScanRefused
<1>3. CASE ScanOpens
  BY <1>3 DEF ScanOpens
<1>4. ASSUME NEW r \in Records, TakeExpirable(r)
      PROVE  staging'[d] = (Relevant(d, from..Len(log)))'
                 \cup (IF StagedNow(d)' THEN {Position'} ELSE {})
  BY <1>4, <1>0 DEF TakeExpirable, Stage, Contributes, Expirable,
     QuantilesNeedSize, Dims
<1>5. ASSUME NEW r \in Records, TakeUnexpirable(r)
      PROVE  staging'[d] = (Relevant(d, from..Len(log)))'
                 \cup (IF StagedNow(d)' THEN {Position'} ELSE {})
  BY <1>5 DEF TakeUnexpirable, Contributes, Expirable, QuantilesNeedSize, Dims
<1>6. CASE Measure
  BY <1>6 DEF Measure
<1>7. CASE AddToBucket
  BY <1>7 DEF AddToBucket
<1>8. CASE AddToTotal
  BY <1>8 DEF AddToTotal
<1>9. CASE ObserveSize
  <2>1. phase = "size" /\ phase' = "tally" /\ UNCHANGED <<element, log, from, rec>>
    BY <1>9 DEF ObserveSize
  <2>2. CASE d = "ttl"
    <3>1. staging'[d] = staging[d]
      BY <1>9, <2>2 DEF ObserveSize, Stage
    <3>2. QED
      BY <2>1, <2>2, <3>1 DEF Contributes, Expirable
  <2>3. CASE d \in {"size", "ttlSize"}
    <3>1. staging'[d] = IF d \in element.dims /\ Contributes(d, rec)
                        THEN staging[d] \cup {Position} ELSE staging[d]
      BY <1>9, <2>3 DEF ObserveSize, Stage, Contributes
    <3>2. ~StagedNow(d) /\ (StagedNow(d)' <=> d \in element.dims /\ Contributes(d, rec))
      BY <2>1, <2>3 DEF Contributes, Expirable
    <3>3. QED
      BY <2>1, <3>1, <3>2 DEF Contributes, Expirable
  <2>4. QED
    BY <2>2, <2>3 DEF Dims
<1>10. CASE Tally
  <2>1. phase = "tally" /\ phase' \in {"min", "drain"} /\ UNCHANGED <<element, staging, from>>
    BY <1>10 DEF Tally
  <2>2. from'..Len(log') = from..Len(log) \cup {Position} /\ from..Len(log) \subseteq 1..Len(log)
    BY <1>10, <2>1, <1>0, TallyFacts DEF ScanBuffersOK, Positions
  <2>3. \A r : Contributes(d, r)' <=> Contributes(d, r)
    BY DEF Contributes, Expirable
  <2>4. QED
    BY <1>10, <2>1, <2>2, TallyFacts DEF Contributes, Expirable
<1>11. CASE ResultError
  BY <1>11 DEF ResultError
<1>12. CASE ResultsEnd
  BY <1>12 DEF ResultsEnd
<1>13. CASE PublishMin
  BY <1>13 DEF PublishMin, AfterPublish
<1>14. CASE PublishMax
  BY <1>14 DEF PublishMax, AfterPublish
<1>15. CASE FinalizeTTL
  BY <1>15 DEF FinalizeTTL, Promote
<1>16. CASE FinalizeSize
  BY <1>16 DEF FinalizeSize
<1>17. CASE FinalizeTTLSize
  BY <1>17 DEF FinalizeTTLSize
<1>18. CASE UNCHANGED vars
  BY <1>18
<1>19. QED
  BY <1>1, <1>2, <1>3, <1>4, <1>5, <1>6, <1>7, <1>8, <1>9, <1>10, <1>11,
     <1>12, <1>13, <1>14, <1>15, <1>16, <1>17, <1>18 DEF Next

\* The live buffers change only under the mutex, dimension by dimension.
LEMMA LiveStep ==
    ASSUME ScanTypeOK, StagingOK, LiveOK, [Next]_vars
    PROVE  LiveOK'
<1> USE DEF vars, configVars, histVars, quantVars, gaugeVars, scanVars
<1>0. /\ Len(log) \in Nat /\ (quantMu <=> phase \in {"sizeq", "ttlSize"})
      /\ live \in [Dims -> SUBSET Positions]
      /\ done.from \in Nat /\ done.to \in Nat
  BY PositionFacts DEF ScanTypeOK, ScanBuffersOK, ScanMutexOK
<1>1. /\ done.from >= 1 /\ done.to <= Len(log)
      /\ ~quantMu => \A d \in Dims : live[d] = Relevant(d, done.from..done.to)
      /\ \A d \in Dims \ element.dims : live[d] = {}
      /\ quantMu /\ "ttl" \in element.dims => live["ttl"] = staging["ttl"]
      /\ phase = "ttlSize" /\ "size" \in element.dims => live["size"] = staging["size"]
  BY DEF LiveOK, LiveIsOneScan, QuantilesCollectable
<1>2. ASSUME /\ done'.from >= 1 /\ done'.to <= Len(log')
             /\ ~quantMu' => \A d \in Dims : live'[d] = (Relevant(d, done.from..done.to))'
             /\ \A d \in Dims \ element'.dims : live'[d] = {}
             /\ quantMu' /\ "ttl" \in element'.dims => live'["ttl"] = staging'["ttl"]
             /\ phase' = "ttlSize" /\ "size" \in element'.dims => live'["size"] = staging'["size"]
      PROVE  LiveOK'
  BY <1>2 DEF LiveOK, LiveIsOneScan, QuantilesCollectable
<1>3. ASSUME UNCHANGED <<element, log, done>>
      PROVE  \A d \in Dims : (Relevant(d, done.from..done.to))' = Relevant(d, done.from..done.to)
  BY <1>3 DEF Relevant, Contributes, Expirable
<1>4. ASSUME UNCHANGED <<element, log, live, done, quantMu>>,
             quantMu => UNCHANGED <<staging, phase>>, phase' = "ttlSize" => quantMu
      PROVE  LiveOK'
  BY <1>0, <1>1, <1>2, <1>3, <1>4
<1>5. CASE Begin
  BY <1>5, <1>0, <1>4 DEF Begin
<1>6. CASE ScanRefused
  BY <1>6, <1>0, <1>4 DEF ScanRefused
<1>7. CASE ScanOpens
  BY <1>7, <1>0, <1>4 DEF ScanOpens
<1>8. ASSUME NEW r \in Records, TakeExpirable(r)
      PROVE  LiveOK'
  BY <1>8, <1>0, <1>4 DEF TakeExpirable
<1>9. ASSUME NEW r \in Records, TakeUnexpirable(r)
      PROVE  LiveOK'
  BY <1>9, <1>0, <1>4 DEF TakeUnexpirable
<1>10. CASE Measure
  BY <1>10, <1>0, <1>4 DEF Measure
<1>11. CASE AddToBucket
  BY <1>11, <1>0, <1>4 DEF AddToBucket
<1>12. CASE AddToTotal
  BY <1>12, <1>0, <1>4 DEF AddToTotal
<1>13. CASE ObserveSize
  BY <1>13, <1>0, <1>4 DEF ObserveSize
<1>14. CASE Tally
  <2>1. phase = "tally" /\ phase' \in {"min", "drain"} /\ UNCHANGED <<element, live, done, quantMu>>
    BY <1>14 DEF Tally
  <2>2. Len(log') = Len(log) + 1 /\ \A p \in 1..Len(log) : log'[p] = log[p]
    BY <1>14, AppendFacts DEF Tally, ScanTypeOK, ScanStateOK, ScanBuffersOK
  <2>3. \A p \in done.from..done.to : log'[p] = log[p]
    BY <2>2, <1>0, <1>1
  <2>4. \A d \in Dims : (Relevant(d, done.from..done.to))' = Relevant(d, done.from..done.to)
    BY <2>1, <2>3 DEF Relevant, Contributes, Expirable
  <2>5. ~quantMu
    BY <2>1, <1>0
  <2>6. QED
    BY <2>1, <2>2, <2>4, <2>5, <1>0, <1>1, <1>2
<1>15. CASE ResultError
  BY <1>15, <1>0, <1>4 DEF ResultError
<1>16. CASE ResultsEnd
  BY <1>16, <1>0, <1>4 DEF ResultsEnd
<1>17. CASE PublishMin
  BY <1>17, <1>0, <1>4 DEF PublishMin, AfterPublish
<1>18. CASE PublishMax
  BY <1>18, <1>0, <1>4 DEF PublishMax, AfterPublish
<1>19. CASE FinalizeTTL
  <2>1. live' = (IF "ttl" \in element.dims THEN [live EXCEPT !["ttl"] = staging["ttl"]] ELSE live)
        /\ phase' = "sizeq" /\ UNCHANGED <<element, log, done, staging>>
    BY <1>19 DEF FinalizeTTL, Promote
  <2>2. quantMu'
    BY <1>19, Zenon DEF FinalizeTTL
  <2>3. QED
    BY <2>1, <2>2, <1>0, <1>1, <1>2 DEF Dims
<1>20. CASE FinalizeSize
  <2>1. live' = (IF "size" \in element.dims THEN [live EXCEPT !["size"] = staging["size"]] ELSE live)
        /\ phase = "sizeq" /\ phase' = "ttlSize" /\ UNCHANGED <<element, log, done, staging>>
    BY <1>20 DEF FinalizeSize, Promote
  <2>2. quantMu /\ quantMu'
    BY <1>20, <2>1, <1>0 DEF FinalizeSize
  <2>3. QED
    BY <2>1, <2>2, <1>0, <1>1, <1>2 DEF Dims
<1>21. CASE FinalizeTTLSize
  <2>1. live' = (IF "ttlSize" \in element.dims THEN [live EXCEPT !["ttlSize"] = staging["ttlSize"]] ELSE live)
        /\ phase = "ttlSize" /\ phase' = "idle" /\ UNCHANGED <<element, log, staging>>
    BY <1>21 DEF FinalizeTTLSize, Promote
  <2>2. done'.from = from /\ done'.to = Len(log)
    BY <1>21 DEF FinalizeTTLSize
  <2>3. ~quantMu'
    BY <1>21, Zenon DEF FinalizeTTLSize
  <2>4. \A d \in Dims : staging[d] = Relevant(d, from..Len(log))
    BY <2>1 DEF StagingOK, StagedNow, InRecord
  <2>5. \A d \in Dims : live'[d] = IF d \in element.dims THEN staging[d] ELSE {}
    BY <2>1, <1>0, <1>1 DEF Dims
  <2>6. \A d \in Dims : live'[d] = Relevant(d, from..Len(log))
    BY <2>4, <2>5 DEF Relevant
  <2>7. \A d \in Dims : (Relevant(d, done.from..done.to))' = Relevant(d, from..Len(log))
    BY <2>1, <2>2 DEF Relevant, Contributes, Expirable
  <2>8. from \in Nat /\ from >= 1
    BY <1>0 DEF ScanTypeOK, ScanBuffersOK, Positions
  <2>9. QED
    BY <2>1, <2>2, <2>3, <2>5, <2>6, <2>7, <2>8, <1>0, <1>2
<1>22. CASE UNCHANGED vars
  BY <1>22, <1>0, <1>4
<1>23. QED
  BY <1>5, <1>6, <1>7, <1>8, <1>9, <1>10, <1>11, <1>12, <1>13, <1>14,
     <1>15, <1>16, <1>17, <1>18, <1>19, <1>20, <1>21, <1>22 DEF Next

(***************************************************************************)
(* The TTL gauges: ttlRange spans this scan, the gauges the one published. *)
(***************************************************************************)
LEMMA TTLsNat ==
    ASSUME ScanTypeOK, RecordOK
    PROVE  TTLsNow \subseteq Nat
<1>1. ASSUME NEW r \in Records \cup {NoRecord}, Expirable(r)
      PROVE  r.ttl \in Nat
  <2>1. CASE r \in Records
    BY <1>1, <2>1, ScanAssumption DEF Records, Expirable
  <2>2. CASE r = NoRecord
    BY <1>1, <2>2 DEF NoRecord, Expirable
  <2>3. QED
    BY <2>1, <2>2
<1>2. from..Len(log) \subseteq 1..Len(log)
  BY PositionFacts DEF ScanTypeOK, ScanBuffersOK, Positions
<1>3. \A p \in from..Len(log) : log[p] \in Records \cup {NoRecord}
  BY <1>2 DEF ScanTypeOK, ScanBuffersOK
<1>4. rec \in Records \cup {NoRecord}
  BY DEF ScanTypeOK, ScanStateOK
<1>5. QED
  BY <1>1, <1>3, <1>4 DEF TTLsNow, TTLsOf

\* ttlRange spans the TTLs the scan has met.
LEMMA SpanStep ==
    ASSUME ScanTypeOK, RecordOK, SpanOK, [Next]_vars
    PROVE  SpanOK'
<1> USE DEF SpanOK, TTLsNow, TTLsOf, InRecord, ScanTypeOK, vars, configVars,
   histVars, quantVars, gaugeVars, scanVars
<1>0. Len(log) \in Nat /\ Position = Len(log) + 1 /\ from \in 1..(Len(log) + 1) /\ ttls \in Ranges
  BY PositionFacts DEF ScanBuffersOK, ScanStateOK, Positions
<1>1. CASE Begin
  <2>1. from'..Len(log') = {} /\ phase' = "open"
    BY <1>1, <1>0 DEF Begin
  <2>2. TTLsNow' = {} /\ ttls' = [seen |-> FALSE, min |-> 0, max |-> 0]
    BY <1>1, <2>1 DEF Begin, NoRange
  <2>3. ~ttls'.seen
    BY <2>2
  <2>4. QED
    BY <2>2, <2>3
<1>2. CASE ScanRefused
  BY <1>2, <1>0 DEF ScanRefused, Expirable
<1>3. CASE ScanOpens
  BY <1>3, <1>0 DEF ScanOpens, Expirable
<1>4. ASSUME NEW r \in Records, TakeExpirable(r)
      PROVE  SpanOK'
  <2>1. phase = "drain" /\ phase' \in InRecord /\ UNCHANGED <<log, from>> /\ rec' = r /\ Expirable(r)
    BY <1>4 DEF TakeExpirable
  <2>2. TTLsNow' = TTLsNow \cup {r.ttl} /\ r.ttl \in Nat
    BY <2>1, ScanAssumption DEF Expirable, Records
  <2>3. ttls' = Observed(ttls, r.ttl)
    BY <1>4 DEF TakeExpirable
  <2>4. TTLsNow \subseteq Nat
    BY <2>1, TTLsNat
  <2>5. ttls'.seen
    BY <2>3, Zenon DEF Observed
  <2>6. ttls'.min = (IF ~ttls.seen \/ r.ttl < ttls.min THEN r.ttl ELSE ttls.min)
        /\ ttls'.max = (IF ~ttls.seen \/ r.ttl > ttls.max THEN r.ttl ELSE ttls.max)
    BY <2>3 DEF Observed
  <2>7. ttls.min \in Nat /\ ttls.max \in Nat
    BY <1>0 DEF Ranges
  <2>8. phase # "idle" /\ phase' # "idle"
    BY <2>1
  <2>9. /\ ttls.seen => ttls.min \in TTLsNow /\ ttls.max \in TTLsNow
        /\ \A t \in TTLsNow : ttls.seen /\ ttls.min <= t /\ t <= ttls.max
    BY <2>8
  <2>10. ttls'.min \in TTLsNow' /\ ttls'.max \in TTLsNow'
    <3> HIDE DEF TTLsNow
    <3>1. QED
      BY <2>2, <2>6, <2>9
  <2>11. \A t \in TTLsNow' : ttls'.min <= t /\ t <= ttls'.max
    <3> HIDE DEF TTLsNow
    <3>1. SUFFICES ASSUME NEW t \in TTLsNow \cup {r.ttl} PROVE ttls'.min <= t /\ t <= ttls'.max
      BY <2>2
    <3>2. QED
      BY <2>2, <2>4, <2>6, <2>7, <2>9
  <2>12. QED
    BY <2>5, <2>10, <2>11
<1>5. ASSUME NEW r \in Records, TakeUnexpirable(r)
      PROVE  SpanOK'
  BY <1>5, <1>0 DEF TakeUnexpirable, Expirable
<1>6. CASE Measure
  BY <1>6, <1>0 DEF Measure, Expirable
<1>7. CASE AddToBucket
  BY <1>7, <1>0 DEF AddToBucket, Expirable
<1>8. CASE AddToTotal
  BY <1>8, <1>0 DEF AddToTotal, Expirable
<1>9. CASE ObserveSize
  BY <1>9, <1>0 DEF ObserveSize, Expirable
<1>10. CASE Tally
  <2>1. phase = "tally" /\ phase' \in {"min", "drain"} /\ UNCHANGED <<from, ttls>>
    BY <1>10 DEF Tally
  <2>2. from..Len(log') = from..Len(log) \cup {Position} /\ from..Len(log) \subseteq 1..Len(log)
    BY <1>10, <1>0, TallyFacts
  <2>3. \A p \in from..Len(log) : log'[p] = log[p]
    BY <1>10, <2>2, TallyFacts
  <2>4. log'[Position] = rec
    BY <1>10, TallyFacts
  <2>5. TTLsNow' = {log'[p].ttl : p \in {q \in from..Len(log) \cup {Position} : Expirable(log'[q])}}
    BY <2>1, <2>2 DEF Expirable
  <2>6. TTLsNow = {log[p].ttl : p \in {q \in from..Len(log) : Expirable(log[q])}}
                  \cup (IF Expirable(rec) THEN {rec.ttl} ELSE {})
    BY <2>1
  <2>7. TTLsNow' = TTLsNow
    <3> HIDE DEF TTLsNow
    <3>1. QED
      BY <2>3, <2>4, <2>5, <2>6 DEF Expirable
  <2>8. QED
    BY <2>1, <2>7
<1>11. CASE ResultError
  BY <1>11, <1>0 DEF ResultError, Expirable
<1>12. CASE ResultsEnd
  BY <1>12, <1>0 DEF ResultsEnd, Expirable
<1>13. CASE PublishMin
  BY <1>13, <1>0 DEF PublishMin, AfterPublish, Expirable
<1>14. CASE PublishMax
  BY <1>14, <1>0 DEF PublishMax, AfterPublish, Expirable
<1>15. CASE FinalizeTTL
  BY <1>15, <1>0 DEF FinalizeTTL, Expirable
<1>16. CASE FinalizeSize
  BY <1>16, <1>0 DEF FinalizeSize, Expirable
<1>17. CASE FinalizeTTLSize
  BY <1>17, <1>0 DEF FinalizeTTLSize, Expirable
<1>18. CASE UNCHANGED vars
  BY <1>18, <1>0
<1>19. QED
  BY <1>1, <1>2, <1>3, <1>4, <1>5, <1>6, <1>7, <1>8, <1>9, <1>10, <1>11,
     <1>12, <1>13, <1>14, <1>15, <1>16, <1>17, <1>18 DEF Next

\* The gauges span those of the scan published last.
LEMMA GaugesStep ==
    ASSUME ScanTypeOK, SpanOK, MinOK, MaxOK, [Next]_vars
    PROVE  MinOK' /\ MaxOK'
<1> USE DEF ScanTypeOK, vars, configVars, histVars, quantVars, gaugeVars, scanVars
<1>0. /\ Len(log) \in Nat /\ Position = Len(log) + 1 /\ from \in 1..(Len(log) + 1)
      /\ ttls \in Ranges /\ ranged \subseteq 1..Len(log)
  BY PositionFacts DEF ScanBuffersOK, ScanStateOK, Positions
<1>same. ASSUME UNCHANGED <<minTTL, maxTTL, ranged, log>>, phase # "max", phase' # "max"
      PROVE  MinOK' /\ MaxOK'
  BY <1>same DEF MinOK, MaxOK, TTLsOf, Expirable
<1>1. CASE Begin
  BY <1>1, <1>same DEF Begin
<1>2. CASE ScanRefused
  BY <1>2, <1>same DEF ScanRefused
<1>3. CASE ScanOpens
  BY <1>3, <1>same DEF ScanOpens
<1>4. ASSUME NEW r \in Records, TakeExpirable(r)
      PROVE  MinOK' /\ MaxOK'
  BY <1>4, <1>same DEF TakeExpirable
<1>5. ASSUME NEW r \in Records, TakeUnexpirable(r)
      PROVE  MinOK' /\ MaxOK'
  BY <1>5, <1>same DEF TakeUnexpirable
<1>6. CASE Measure
  BY <1>6, <1>same DEF Measure
<1>7. CASE AddToBucket
  BY <1>7, <1>same DEF AddToBucket
<1>8. CASE AddToTotal
  BY <1>8, <1>same DEF AddToTotal
<1>9. CASE ObserveSize
  BY <1>9, <1>same DEF ObserveSize
<1>10. CASE Tally
  <2>1. phase = "tally" /\ phase' \in {"min", "drain"} /\ UNCHANGED <<minTTL, maxTTL, ranged>>
    BY <1>10 DEF Tally
  <2>2. \A p \in ranged : log'[p] = log[p]
    BY <1>10, <1>0, TallyFacts
  <2>3. (TTLsOf(ranged))' = TTLsOf(ranged)
    BY <2>1, <2>2 DEF TTLsOf, Expirable
  <2>4. QED
    BY <2>1, <2>3 DEF MinOK, MaxOK
<1>11. CASE ResultError
  BY <1>11, <1>same DEF ResultError
<1>12. CASE ResultsEnd
  BY <1>12, <1>same DEF ResultsEnd
<1>13. CASE PublishMin
  <2>1. phase = "min" /\ UNCHANGED <<maxTTL, ranged, log, ttls>>
    BY <1>13 DEF PublishMin
  <2>2. CASE ttls.seen
    <3>1. minTTL' = {ttls.min} /\ phase' = "max"
      BY <1>13, <2>2 DEF PublishMin
    <3>2. QED
      BY <2>1, <2>2, <3>1 DEF MinOK, MaxOK, TTLsOf, Expirable
  <2>3. CASE ~ttls.seen
    BY <1>13, <1>same, <2>1, <2>3 DEF PublishMin, AfterPublish
  <2>4. QED
    BY <2>2, <2>3
<1>14. CASE PublishMax
  <2>1. phase = "max" /\ phase' \in {"ttl", "idle"} /\ ranged' = from..Len(log)
        /\ maxTTL' = {ttls.max} /\ UNCHANGED <<minTTL, log>>
    BY <1>14 DEF PublishMax, AfterPublish
  <2>2. ttls.seen /\ minTTL = {ttls.min}
    BY <2>1 DEF MinOK
  <2>3. (TTLsOf(ranged))' = TTLsNow
    BY <2>1 DEF TTLsOf, TTLsNow, InRecord, Expirable
  <2>4. /\ ttls.min \in TTLsNow /\ ttls.max \in TTLsNow
        /\ \A t \in TTLsNow : ttls.min <= t /\ t <= ttls.max
    BY <2>1, <2>2 DEF SpanOK
  <2>5. QED
    BY <2>1, <2>2, <2>3, <2>4 DEF MinOK, MaxOK
<1>15. CASE FinalizeTTL
  BY <1>15, <1>same DEF FinalizeTTL
<1>16. CASE FinalizeSize
  BY <1>16, <1>same DEF FinalizeSize
<1>17. CASE FinalizeTTLSize
  BY <1>17, <1>same DEF FinalizeTTLSize
<1>18. CASE UNCHANGED vars
  BY <1>18 DEF MinOK, MaxOK, TTLsOf, Expirable
<1>19. QED
  BY <1>1, <1>2, <1>3, <1>4, <1>5, <1>6, <1>7, <1>8, <1>9, <1>10, <1>11,
     <1>12, <1>13, <1>14, <1>15, <1>16, <1>17, <1>18 DEF Next

(***************************************************************************)
(* The inductive invariant.                                                *)
(***************************************************************************)
LEMMA ScanInvInit == Init => ScanInv
<1> SUFFICES ASSUME Init PROVE ScanInv
  OBVIOUS
<1>1. ScanTypeOK
  BY TypeInit
<1>2. /\ log = <<>> /\ Len(log) = 0 /\ phase = "idle" /\ exported = 0 /\ ranged = {}
      /\ minTTL = {} /\ maxTTL = {} /\ counts = {} /\ sizes = {} /\ total = {}
      /\ done.from = 1 /\ done.to = 0
  BY DEF Init, NoScan
<1>3. RecordOK /\ PolicyOK /\ StagingOK
  BY <1>2 DEF RecordOK, PolicyOK, StagingOK, InRecord
<1>4. CapOK
  BY <1>1, <1>2, ScanAssumption DEF CapOK, ScanTypeOK, ScanStateOK
<1>5. LiveOK
  <2>1. ~quantMu /\ \A d \in Dims : live[d] = {}
    BY DEF Init
  <2>2. \A d \in Dims : Relevant(d, 1..0) = {}
    BY DEF Relevant
  <2>3. phase # "ttlSize" /\ done.from >= 1 /\ done.to <= Len(log)
        /\ \A d \in Dims : Relevant(d, done.from..done.to) = {}
    BY <1>2, <2>2
  <2>4. QED
    BY <2>1, <2>3 DEF LiveOK, LiveIsOneScan
<1>6. HistogramsOK
  <2>1. \A i \in Buckets : buckets[i] = {}
    BY DEF Init
  <2>2. Weighed = {}
    BY <1>2 DEF Weighed
  <2>3. QED
    BY <1>2, <2>1, <2>2 DEF HistogramsOK, CountsOK, SizesOK, TotalOK,
       BucketsOK, InRecord
<1>7. RangeOK
  BY <1>2 DEF RangeOK, SpanOK, MinOK, MaxOK, TTLsOf
<1>8. QED
  BY <1>1, <1>3, <1>4, <1>5, <1>6, <1>7 DEF ScanInv

\* ... and every step keeps them.
LEMMA ScanInvStep ==
    ASSUME ScanInv, [Next]_vars
    PROVE  ScanInv'
<1>1. ScanTypeOK'
  BY StateStep, BuffersStep, MutexStep DEF ScanInv, ScanTypeOK
<1>2. RecordOK' /\ PolicyOK' /\ CapOK'
  BY RecordStep, PolicyStep, CapStep DEF ScanInv, ScanTypeOK
<1>3. StagingOK' /\ LiveOK'
  BY StagingStep, LiveStep DEF ScanInv, ScanTypeOK
<1>4. HistogramsOK'
  BY CountsStep, SizesStep, TotalStep, BucketsStep DEF ScanInv, ScanTypeOK,
     HistogramsOK
<1>5. RangeOK'
  BY SpanStep, GaugesStep DEF ScanInv, RangeOK
<1>6. QED
  BY <1>1, <1>2, <1>3, <1>4, <1>5 DEF ScanInv

\* The inductive invariant of the scans of a set: what every buffer, gauge
\* and histogram holds at each step of scanOne (stats.go).
THEOREM ScanInvariant == Spec => []ScanInv
BY ScanInvInit, ScanInvStep, PTL DEF Spec

\* The scan's state keeps its types, and each collector's mutex is held in the
\* middle of addWeight and of finalize and at no other time.
THEOREM ScanTypeCorrect == Spec => []ScanTypeOK
<1>1. ScanInv => ScanTypeOK
  BY DEF ScanInv
<1>2. QED
  BY <1>1, ScanInvariant, PTL

\* Whatever the records, errors and refusals, a scrape reads the quantiles of
\* one scan, the one finalized last, in all dimensions (quantile_collector.go).
THEOREM QuantilesOfOneScan == Spec => []LiveIsOneScan
<1>1. ScanInv => LiveIsOneScan
  BY DEF ScanInv, LiveOK
<1>2. QED
  BY <1>1, ScanInvariant, PTL

\* A bucket never holds bytes the total lacks when the byte histogram is
\* collected (expiry_bytes_collector.go).
THEOREM ByteScrapesWellFormed == Spec => []BytesScrapeConsistent
<1>1. ASSUME ScanInv PROVE BytesScrapeConsistent
  <2>1. SUFFICES ASSUME ~bytesMu, NEW i \in Buckets
                 PROVE  buckets[i] \subseteq total
    BY DEF BytesScrapeConsistent, BytesCollectable
  <2>2. phase # "total"
    BY <1>1, <2>1 DEF ScanInv, ScanTypeOK, ScanMutexOK
  <2>3. TotalOK /\ BucketsOK
    BY <1>1 DEF ScanInv, HistogramsOK
  <2>4. QED
    BY <2>2, <2>3 DEF TotalOK, BucketsOK
<1>2. QED
  BY <1>1, ScanInvariant, PTL

\* Between scans the TTL gauges are the range of the last scan that met an
\* expirable record (ttlRange in stats.go).
THEOREM GaugesOfLastScan == Spec => []RangeIsLastScan
<1>1. ASSUME ScanInv PROVE RangeIsLastScan
  <2>1. MinOK /\ MaxOK
    BY <1>1 DEF ScanInv, RangeOK
  <2>2. ranged = {} => TTLsOf(ranged) = {}
    BY DEF TTLsOf
  <2>3. QED
    BY <2>1, <2>2 DEF MinOK, MaxOK, RangeIsLastScan
<1>2. QED
  BY <1>1, ScanInvariant, PTL

\* No scan exports more records than its cap, but for one under a cap of 0
\* (drainScan).
THEOREM CapsAlwaysRespected == Spec => []CapRespected
<1>1. ScanInv => CapRespected
  BY DEF ScanInv, CapOK, CapRespected
<1>2. QED
  BY <1>1, ScanInvariant, PTL

\* A size is only ever read under the policy that keeps the record's TTL
\* (measureRecordSize, updateStats).
THEOREM ReadsAlwaysKeepTTL == Spec => []ReadsKeepTTL
<1>1. ScanInv => ReadsKeepTTL
  BY DEF ScanInv, PolicyOK, InRecord, ReadsKeepTTL
<1>2. QED
  BY <1>1, ScanInvariant, PTL

(***************************************************************************)
(* Every TTL within some edge is in the bucket of the least such edge.     *)
(***************************************************************************)
\* A TTL is within an edge exactly if it falls into a bucket up to it.
LEMMA BucketOfTTL ==
    ASSUME NEW t \in Nat, NEW i \in Buckets
    PROVE  t <= Edges[i] <=> \E j \in 1..i : InBucket(j, t)
<1> USE ScanAssumption DEF Buckets
<1>1. ASSUME NEW j \in 1..i, InBucket(j, t)
      PROVE  t <= Edges[i]
  <2>1. Edges[j] \in Nat /\ Edges[i] \in Nat /\ Edges[j] <= Edges[i]
    BY <1>1
  <2>2. QED
    BY <1>1, <2>1 DEF InBucket
<1>2. ASSUME t <= Edges[i]
      PROVE  \E j \in 1..i : InBucket(j, t)
  <2> DEFINE S == {j \in 1..i : t <= Edges[j]}
  <2>1. S \subseteq Nat /\ i \in S
    BY <1>2
  <2>2. PICK j \in S : \A m \in S : j <= m
    BY <2>1, LeastOf
  <2>3. ASSUME NEW k \in 1..(j - 1) PROVE Edges[k] < t
    <3>1. k \in 1..i /\ k \notin S
      BY <2>2
    <3>2. Edges[k] \in Nat
      BY <3>1
    <3>3. QED
      BY <3>1, <3>2
  <2>4. QED
    BY <2>2, <2>3 DEF InBucket
<1>3. QED
  BY <1>1, <1>2

\* Between records the histograms count exactly the records processed, and a
\* cumulative bucket exactly the bytes expiring within its edge.
THEOREM HistogramsAlwaysRecords == Spec => []HistogramsAreRecords
<1>1. ASSUME ScanInv, phase \notin InRecord
      PROVE  /\ counts = IF HasCounts THEN {p \in 1..Len(log) : Expirable(log[p])} ELSE {}
             /\ sizes = IF element.sizes THEN {p \in 1..Len(log) : log[p].size # 0} ELSE {}
             /\ total = Weighed
             /\ \A i \in Buckets : buckets[i] = {p \in Weighed : InBucket(i, log[p].ttl)}
  BY <1>1 DEF ScanInv, HistogramsOK, CountsOK, SizesOK, TotalOK, BucketsOK, InRecord
<1>2. ASSUME ScanInv, NEW p \in Weighed
      PROVE  log[p].ttl \in Nat
  <2>1. log[p] \in Records
    BY <1>2 DEF ScanInv, ScanTypeOK, ScanBuffersOK, Weighed, Expirable, NoRecord
  <2>2. QED
    BY <1>2, <2>1, ScanAssumption DEF Weighed, Expirable, Records
<1>3. ASSUME ScanInv, phase \notin InRecord, NEW i \in Buckets
      PROVE  UNION {buckets[j] : j \in 1..i} = {p \in Weighed : log[p].ttl <= Edges[i]}
  <2>1. 1..i \subseteq Buckets
    BY DEF Buckets
  <2>2. \A j \in 1..i : buckets[j] = {p \in Weighed : InBucket(j, log[p].ttl)}
    BY <1>1, <1>3, <2>1
  <2>3. \A p \in Weighed : log[p].ttl <= Edges[i] <=> \E j \in 1..i : InBucket(j, log[p].ttl)
    BY <1>2, <1>3, BucketOfTTL
  <2>4. QED
    BY <2>2, <2>3
<1>4. ASSUME ScanInv PROVE HistogramsAreRecords
  <2>1. SUFFICES ASSUME phase \notin InRecord
                 PROVE  HistogramsAreRecords
    BY DEF HistogramsAreRecords
  <2> DEFINE weighed == {p \in 1..Len(log) : Expirable(log[p]) /\ log[p].size # 0}
  <2>2. Weighed = IF HasBytes THEN weighed ELSE {}
    BY DEF Weighed
  <2>3. \A i \in Buckets : {p \in Weighed : log[p].ttl <= Edges[i]}
            = IF HasBytes THEN {p \in weighed : log[p].ttl <= Edges[i]} ELSE {}
    BY <2>2
  <2>4. \A i \in Buckets : UNION {buckets[j] : j \in 1..i}
            = IF HasBytes THEN {p \in weighed : log[p].ttl <= Edges[i]} ELSE {}
    BY <1>3, <1>4, <2>1, <2>3
  <2>5. QED
    BY <1>1, <1>4, <2>1, <2>2, <2>4 DEF HistogramsAreRecords
<1>5. QED
  BY <1>4, ScanInvariant, PTL

(***************************************************************************)
(* The quantiles of the records a scrape reads.                            *)
(***************************************************************************)
\* What a scrape reads are records of the last scan, with a value each.
LEMMA LiveFacts ==
    ASSUME ScanInv, QuantilesCollectable, NEW d \in Dims, live[d] # {}
    PROVE  /\ live[d] = Finalized(d)
           /\ live[d] \subseteq 1..Len(log) /\ Len(log) \in Nat
           /\ IsFiniteSet(live[d])
           /\ Cardinality(live[d]) \in Nat /\ Cardinality(live[d]) > 0
           /\ \A p \in live[d] : Value(d, p) \in Nat
           /\ \A p \in 1..Len(log) : Weight(p) \in Nat
<1>1. live[d] = Relevant(d, done.from..done.to)
  BY DEF ScanInv, LiveOK, LiveIsOneScan
<1>2. Len(log) \in Nat /\ \A p \in 1..Len(log) : log[p] \in Records \cup {NoRecord}
  BY PositionFacts DEF ScanInv, ScanTypeOK, ScanBuffersOK
<1>3. live[d] \subseteq 1..Len(log) /\ \A p \in live[d] : Contributes(d, log[p])
  <2>1. done.from >= 1 /\ done.to <= Len(log) /\ done.from \in Nat /\ done.to \in Nat
    BY DEF ScanInv, LiveOK, ScanTypeOK, ScanBuffersOK
  <2>2. done.from..done.to \subseteq 1..Len(log)
    BY <1>2, <2>1
  <2>3. QED
    BY <1>1, <2>2 DEF Relevant
<1>4. IsFiniteSet(live[d])
  <2>1. IsFiniteSet(1..Len(log))
    BY <1>2, FS_Interval
  <2>2. QED
    BY <1>3, <2>1, FS_Subset
<1>5. Cardinality(live[d]) \in Nat /\ Cardinality(live[d]) # 0
  BY <1>4, FS_CardinalityType, FS_EmptySet
<1>6. ASSUME NEW r \in Records \cup {NoRecord}
      PROVE  r.size \in Nat /\ (Expirable(r) => r.ttl \in Nat)
  <2>1. CASE r \in Records
    BY <2>1, ScanAssumption DEF Records, Expirable
  <2>2. CASE r = NoRecord
    BY <2>2 DEF NoRecord, Expirable
  <2>3. QED
    BY <2>1, <2>2
<1>7. \A p \in live[d] : Value(d, p) \in Nat
  <2>1. d = "size" \/ \A p \in live[d] : Expirable(log[p])
    BY <1>3 DEF Contributes, Dims
  <2>2. QED
    BY <1>2, <1>3, <1>6, <2>1 DEF Value
<1>8. \A p \in 1..Len(log) : Weight(p) \in Nat
  BY <1>2, <1>6 DEF Weight
<1>9. QED
  BY <1>1, <1>2, <1>3, <1>4, <1>5, <1>7, <1>8 DEF Finalized

ValueOf(d) == [p \in live[d] |-> Value(d, p)]
Values(s, d) == [i \in 1..Cardinality(live[d]) |-> Value(d, s[i])]

\* What a sort returns lists the records with their values ascending.
LEMMA SortingFacts ==
    ASSUME ScanInv, QuantilesCollectable, NEW d \in Dims, live[d] # {},
           NEW s \in Sortings(d), NEW n, n = Cardinality(live[d])
    PROVE  /\ s \in [1..n -> live[d]] /\ DOMAIN s = 1..n /\ Len(s) = n
           /\ n \in Nat \ {0} /\ Lists(s, n, live[d])
           /\ Ascending(Values(s, d), n) /\ AreValues(Values(s, d), ValueOf(d), s, n)
           /\ \A i \in 1..n : Values(s, d)[i] = Value(d, s[i])
<1>1. n \in Nat /\ n > 0 /\ \A p \in live[d] : Value(d, p) \in Nat
  BY LiveFacts
<1>2. /\ s \in Bijection(1..n, live[d])
      /\ \A i, j \in DOMAIN s : i <= j => Value(d, s[i]) <= Value(d, s[j])
  BY DEF Sortings
<1>3. s \in [1..n -> live[d]]
  BY <1>2 DEF Bijection, Injection
<1>4. DOMAIN s = 1..n
  BY <1>3
<1>5. Len(s) = n
  BY <1>1, <1>4
<1>6. Ascending(Values(s, d), n)
  BY <1>1, <1>2, <1>3, <1>4 DEF Ascending, Values
<1>7. AreValues(Values(s, d), ValueOf(d), s, n)
  BY <1>3 DEF AreValues, Values, ValueOf
<1>8. Lists(s, n, live[d])
  BY <1>2 DEF Lists
<1>9. \A i \in 1..n : Values(s, d)[i] = Value(d, s[i])
  BY DEF Values
<1>10. QED
  BY <1>1, <1>3, <1>4, <1>5, <1>6, <1>7, <1>8, <1>9

\* The records a scrape reads can be sorted: the quantiles' properties are
\* about sorts that there are (computeQuantiles, computeWeightedQuantiles).
THEOREM SortingsExist ==
    Spec => [](QuantilesCollectable => \A d \in Dims : Sortings(d) # {})
<1>1. ASSUME ScanInv, QuantilesCollectable, NEW d \in Dims
      PROVE  Sortings(d) # {}
  <2> DEFINE n == Cardinality(live[d])
  <2>1. IsFiniteSet(live[d]) /\ ValueOf(d) \in [live[d] -> Nat]
    <3>1. CASE live[d] = {}
      <4>1. ValueOf(d) \in [live[d] -> Nat]
        BY <3>1 DEF ValueOf
      <4>2. QED
        BY <3>1, <4>1, FS_EmptySet
    <3>2. CASE live[d] # {}
      BY <1>1, <3>2, LiveFacts DEF ValueOf
    <3>3. QED
      BY <3>1, <3>2
  <2>2. PICK s \in Bijection(1..n, live[d]) : Sorted(s, ValueOf(d), n)
    BY <2>1, SortingExists
  <2>3. s \in [1..n -> live[d]]
    BY <2>2 DEF Bijection, Injection
  <2>4. \A i \in 1..n : ValueOf(d)[s[i]] = Value(d, s[i])
    BY <2>3 DEF ValueOf
  <2>5. \A i, j \in 1..n : i <= j => Value(d, s[i]) <= Value(d, s[j])
    BY <2>2, <2>4 DEF Sorted
  <2>6. s \in Sortings(d)
    BY <2>2, <2>3, <2>5 DEF Sortings
  <2>7. QED
    BY <2>6
<1>2. ScanInv => (QuantilesCollectable => \A d \in Dims : Sortings(d) # {})
  BY <1>1
<1>3. QED
  BY <1>2, ScanInvariant, PTL

\* exactQuantile interpolates in the sorted values, at an index in their list.
LEMMA ExactInterpolates ==
    ASSUME ScanInv, QuantilesCollectable, NEW d \in Dims, live[d] # {},
           NEW s \in Sortings(d), NEW t \in Targets,
           NEW n, n = Cardinality(live[d])
    PROVE  LET x == t.num * (n - 1)
           IN  /\ x \in Nat /\ x <= t.den * (n - 1)
               /\ ExactQuantile(s, d, t) = Interpolated(Values(s, d), t.den, x)
<1> DEFINE x == t.num * (n - 1)
           l == x \div t.den
           f == x % t.den
           a == Values(s, d)
<1>1. /\ Len(s) = n /\ n \in Nat \ {0} /\ \A i \in 1..n : a[i] = Value(d, s[i])
  BY SortingFacts
<1>2. t.num \in Nat /\ t.den \in Nat /\ 0 < t.den /\ t.num <= t.den
  BY TargetsAssumption
<1> HIDE DEF a
<1>3. x \in Nat /\ x <= t.den * (n - 1)
  <2>1. n - 1 \in Nat
    BY <1>1
  <2>2. (n - 1) * t.num <= (n - 1) * t.den
    BY <1>2, <2>1, ProductGrows
  <2>3. (n - 1) * t.num = t.num * (n - 1) /\ (n - 1) * t.den = t.den * (n - 1)
    BY <1>2, <2>1
  <2>4. QED
    BY <1>2, <2>1, <2>2, <2>3
<1>4. ExactQuantile(s, d, t) = IF f = 0 THEN t.den * Value(d, s[l + 1])
          ELSE (t.den - f) * Value(d, s[l + 1]) + f * Value(d, s[l + 2])
  BY <1>1 DEF ExactQuantile
<1>5. Interpolated(a, t.den, x)
          = IF f = 0 THEN t.den * a[l + 1] ELSE (t.den - f) * a[l + 1] + f * a[l + 2]
  BY DEF Interpolated
<1> HIDE DEF x
<1>6. l + 1 \in 1..n /\ (f > 0 => l + 2 \in 1..n) /\ f \in Nat
  BY <1>1, <1>2, <1>3, IndexInList, Division
<1> HIDE DEF l, f
<1>7. a[l + 1] = Value(d, s[l + 1]) /\ (f # 0 => a[l + 2] = Value(d, s[l + 2]))
  BY <1>1, <1>6
<1>8. ExactQuantile(s, d, t) = Interpolated(a, t.den, x)
  BY <1>4, <1>5, <1>7
<1>9. QED
  BY <1>3, <1>8 DEF x, a

\* The exact quantiles a scrape reads are ranked among the records of the last
\* scan as their targets ask, and ascend with them (exactQuantile).
THEOREM QuantilesAlwaysRankTheScan == Spec => []QuantilesRankTheScan
<1>1. ASSUME ScanInv, QuantilesCollectable, NEW d \in {"ttl", "size"}, live[d] # {},
             NEW s \in Sortings(d), NEW t \in Targets
      PROVE  LET v == ExactQuantile(s, d, t)
                 rank == t.num * (Cardinality(Finalized(d)) - 1)
                 below == {p \in Finalized(d) : t.den * Value(d, p) < v}
                 within == {p \in Finalized(d) : t.den * Value(d, p) <= v}
             IN /\ t.den * Cardinality(within) > rank
                /\ t.den * Cardinality(below) < rank + t.den
  <2> DEFINE n == Cardinality(live[d])
             a == Values(s, d)
             vs == ValueOf(d)
             x == t.num * (n - 1)
             q == Interpolated(a, t.den, x)
  <2>1. d \in Dims
    BY DEF Dims
  <2>2. live[d] = Finalized(d)
    BY <1>1, <2>1, LiveFacts
  <2>3. n \in Nat \ {0} /\ Lists(s, n, live[d]) /\ Ascending(a, n) /\ AreValues(a, vs, s, n)
    BY <1>1, <2>1, SortingFacts
  <2>4. x \in Nat /\ x <= t.den * (n - 1) /\ ExactQuantile(s, d, t) = q
    BY <1>1, <2>1, ExactInterpolates
  <2>5. t.den \in Nat /\ 0 < t.den
    BY TargetsAssumption
  <2>6. /\ t.den * Cardinality(AtOrBelow(live[d], vs, t.den, q)) > x
        /\ t.den * Cardinality(StrictlyBelow(live[d], vs, t.den, q)) < x + t.den
    <3> HIDE DEF n, a, vs, x
    <3>1. QED
      BY <2>3, <2>4, <2>5, RankOfInterpolated
  <2>7. \A p \in live[d] : vs[p] = Value(d, p)
    BY DEF ValueOf
  <2> HIDE DEF q, vs
  <2>8. /\ AtOrBelow(live[d], vs, t.den, q) = {p \in live[d] : t.den * Value(d, p) <= q}
        /\ StrictlyBelow(live[d], vs, t.den, q) = {p \in live[d] : t.den * Value(d, p) < q}
    BY <2>7 DEF AtOrBelow, StrictlyBelow
  <2>9. QED
    BY <2>2, <2>4, <2>6, <2>8
<1>2. ASSUME ScanInv, QuantilesCollectable, NEW d \in {"ttl", "size"}, live[d] # {},
             NEW s \in Sortings(d), NEW t \in Targets, NEW u \in Targets,
             t.num * u.den <= u.num * t.den
      PROVE  u.den * ExactQuantile(s, d, t) <= t.den * ExactQuantile(s, d, u)
  <2> DEFINE n == Cardinality(live[d])
             a == Values(s, d)
             x == t.num * (n - 1)
             y == u.num * (n - 1)
  <2>1. d \in Dims
    BY DEF Dims
  <2>2. n \in Nat \ {0} /\ Ascending(a, n)
    BY <1>2, <2>1, SortingFacts
  <2>3. x \in Nat /\ x <= t.den * (n - 1) /\ ExactQuantile(s, d, t) = Interpolated(a, t.den, x)
    BY <1>2, <2>1, ExactInterpolates
  <2>4. y \in Nat /\ y <= u.den * (n - 1) /\ ExactQuantile(s, d, u) = Interpolated(a, u.den, y)
    BY <1>2, <2>1, ExactInterpolates
  <2>5. t.num \in Nat /\ t.den \in Nat /\ 0 < t.den /\ u.num \in Nat /\ u.den \in Nat /\ 0 < u.den
    BY TargetsAssumption
  <2> HIDE DEF n, a
  <2>6. u.den * x <= t.den * y
    <3>1. n - 1 \in Nat
      BY <2>2
    <3>2. (n - 1) * (t.num * u.den) <= (n - 1) * (u.num * t.den)
      BY <1>2, <2>5, <3>1, ProductGrows
    <3>3. /\ (n - 1) * (t.num * u.den) = u.den * x
          /\ (n - 1) * (u.num * t.den) = t.den * y
      BY <2>5, <3>1
    <3>4. QED
      BY <3>2, <3>3
  <2> HIDE DEF x, y
  <2>7. u.den * Interpolated(a, t.den, x) <= t.den * Interpolated(a, u.den, y)
    BY <2>2, <2>3, <2>4, <2>5, <2>6, InterpolatedAscends
  <2>8. QED
    BY <2>3, <2>4, <2>7
<1>3. ScanInv => QuantilesRankTheScan
  BY <1>1, <1>2 DEF QuantilesRankTheScan
<1>4. QED
  BY <1>3, ScanInvariant, PTL

\* A byte-weighted quantile of any order is the earliest TTL that covers its share.
LEMMA WeightedCovers == ScanInv => WeightedQuantilesCover
<1>1. ASSUME ScanInv, QuantilesCollectable, live["ttlSize"] # {},
             NEW s \in Sortings("ttlSize"), NEW t \in Targets
      PROVE  LET all == Finalized("ttlSize")
                 v == WeightedQuantile(s, t)
                 Enough(x) == t.den * BytesOf({p \in all : log[p].ttl <= x})
                                  >= t.num * BytesOf(all)
             IN /\ Reached(s, t) # {} /\ Enough(v)
                /\ \A p \in all : Enough(log[p].ttl) => v <= log[p].ttl
  <2> DEFINE P == live["ttlSize"]
             n == Cardinality(P)
             a == Values(s, "ttlSize")
             vs == ValueOf("ttlSize")
             ws == [p \in 1..Len(log) |-> Weight(p)]
             us == [i \in DOMAIN s |-> Weight(s[i])]
             r == RunningSums(us)
             k == Min(Reached(s, t))
  <2>1. "ttlSize" \in Dims
    BY DEF Dims
  <2>2. /\ P = Finalized("ttlSize") /\ P \subseteq 1..Len(log) /\ Len(log) \in Nat
        /\ \A p \in 1..Len(log) : Weight(p) \in Nat
    BY <1>1, <2>1, LiveFacts
  <2>3. /\ s \in [1..n -> P] /\ DOMAIN s = 1..n /\ Len(s) = n /\ n \in Nat \ {0}
    BY <1>1, <2>1, SortingFacts
  <2>4. /\ Lists(s, n, P) /\ Ascending(a, n) /\ AreValues(a, vs, s, n)
        /\ \A i \in 1..n : a[i] = Value("ttlSize", s[i])
    BY <1>1, <2>1, SortingFacts
  <2>5. t.num \in Nat /\ t.den \in Nat /\ t.num <= t.den
    BY TargetsAssumption
  <2>6. ws \in Seq(Nat) /\ Len(ws) = Len(log) /\ \A p \in 1..Len(log) : ws[p] = Weight(p)
    <3>1. ws \in [1..Len(log) -> Nat]
      BY <2>2
    <3>2. QED
      BY <2>2, <3>1
  <2>7. us \in Seq(Nat) /\ Len(us) = n /\ \A i \in 1..n : us[i] = ws[s[i]]
    <3>1. us \in [1..n -> Nat] /\ \A i \in 1..n : us[i] = ws[s[i]]
      BY <2>2, <2>3
    <3>2. QED
      BY <2>3, <3>1
  <2> HIDE DEF a, vs, ws, us, n, P
  <2>8. WeighedList(ws, P, n, s, us)
    BY <2>2, <2>3, <2>4, <2>6, <2>7 DEF WeighedList, AreWeights
  <2>9. r \in [0..n -> Nat]
    BY <2>7, RunningSumsFacts
  <2>10. Reached(s, t) = {i \in 1..n : t.den * r[i] >= t.num * r[n]}
    BY <2>3 DEF Reached, Cumulative, us
  <2> HIDE DEF r
  <2>11. n \in Reached(s, t)
    <3>1. r[n] \in Nat /\ n \in 1..n
      BY <2>3, <2>9
    <3>2. r[n] * t.num <= r[n] * t.den
      BY <2>5, <3>1, ProductGrows
    <3>3. r[n] * t.num = t.num * r[n] /\ r[n] * t.den = t.den * r[n]
      BY <2>5, <3>1
    <3>4. t.den * r[n] >= t.num * r[n]
      BY <2>5, <3>1, <3>2, <3>3
    <3>5. QED
      BY <2>10, <3>1, <3>4
  <2>12. k \in Reached(s, t) /\ \A j \in Reached(s, t) : k <= j
    <3>1. Reached(s, t) \subseteq Nat
      BY <2>3, <2>10
    <3>2. \E i \in Reached(s, t) : \A j \in Reached(s, t) : i <= j
      BY <2>11, <3>1, LeastOf
    <3>3. QED
      BY <3>2 DEF Min
  <2> HIDE DEF k
  <2>13. /\ k \in 1..n /\ t.den * r[k] >= t.num * r[n]
         /\ \A j \in 1..n : t.den * r[j] >= t.num * r[n] => k <= j
    BY <2>10, <2>12
  <2>14. WeightedQuantile(s, t) = a[k]
    BY <2>4, <2>11, <2>13 DEF WeightedQuantile, k
  <2> DEFINE Share(x) == t.den * SumAt(ws, {p \in P : vs[p] <= x}) >= t.num * SumAt(ws, P)
  <2>15. Share(a[k]) /\ \A p \in P : Share(vs[p]) => a[k] <= vs[p]
    BY <2>4, <2>5, <2>8, <2>13, FirstReachedCovers DEF r
  <2>16. \A p \in P : vs[p] = log[p].ttl
    BY DEF ValueOf, Value, vs, P
  <2>17. ASSUME NEW x PROVE {p \in P : vs[p] <= x} = {p \in P : log[p].ttl <= x}
    BY <2>16
  <2>18. \A O : BytesOf(O) = SumAt(ws, O)
    BY DEF BytesOf, ws
  <2>19. ASSUME NEW x
         PROVE  Share(x) <=> t.den * BytesOf({p \in P : log[p].ttl <= x}) >= t.num * BytesOf(P)
    BY <2>17, <2>18
  <2> HIDE DEF Share
  <2>20. QED
    BY <2>2, <2>11, <2>14, <2>15, <2>16, <2>19
<1>2. QED
  BY <1>1 DEF WeightedQuantilesCover

\* A byte-weighted quantile a scrape reads is the earliest TTL of the last scan
\* that covers the target's share of its bytes, whatever the order of equal TTLs
\* (weightedQuantile).
THEOREM WeightedQuantilesAlwaysCover == Spec => []WeightedQuantilesCover
BY WeightedCovers, ScanInvariant, PTL

\* A weighted quantile is the TTL of a record shown, and bytes are numbers.
LEMMA WeightedFacts ==
    ASSUME ScanInv, QuantilesCollectable, live["ttlSize"] # {},
           NEW s \in Sortings("ttlSize"), NEW t \in Targets
    PROVE  /\ \E p \in Finalized("ttlSize") : WeightedQuantile(s, t) = log[p].ttl
           /\ WeightedQuantile(s, t) \in Nat
           /\ \A O \in SUBSET Finalized("ttlSize") : BytesOf(O) \in Nat
<1> DEFINE P == live["ttlSize"]
           n == Cardinality(P)
           ws == [p \in 1..Len(log) |-> Weight(p)]
           k == IF Reached(s, t) = {} THEN Len(s) ELSE Min(Reached(s, t))
<1>1. "ttlSize" \in Dims
  BY DEF Dims
<1>2. /\ P = Finalized("ttlSize") /\ P \subseteq 1..Len(log) /\ Len(log) \in Nat
      /\ \A p \in P : Value("ttlSize", p) \in Nat
      /\ \A p \in 1..Len(log) : Weight(p) \in Nat
  BY <1>1, LiveFacts
<1>3. s \in [1..n -> P] /\ DOMAIN s = 1..n /\ Len(s) = n /\ n \in Nat \ {0}
  BY <1>1, SortingFacts
<1>4. k \in 1..n
  <2>1. CASE Reached(s, t) = {}
    BY <1>3, <2>1
  <2>2. CASE Reached(s, t) # {}
    <3>1. Reached(s, t) \subseteq 1..n
      BY <1>3 DEF Reached
    <3>2. Reached(s, t) \subseteq Nat
      BY <1>3, <3>1
    <3>3. PICK i \in Reached(s, t) : TRUE
      BY <2>2
    <3>4. \E j \in Reached(s, t) : \A h \in Reached(s, t) : j <= h
      BY <3>2, <3>3, LeastOf
    <3>5. Min(Reached(s, t)) \in Reached(s, t)
      BY <3>4 DEF Min
    <3>6. QED
      BY <2>2, <3>1, <3>5
  <2>3. QED
    BY <2>1, <2>2
<1>5. WeightedQuantile(s, t) = Value("ttlSize", s[k])
  BY DEF WeightedQuantile
<1> HIDE DEF k
<1>6. s[k] \in P /\ Value("ttlSize", s[k]) = log[s[k]].ttl
  BY <1>3, <1>4 DEF Value
<1>7. ASSUME NEW O \in SUBSET P PROVE BytesOf(O) \in Nat
  <2>1. ws \in [1..Len(log) -> Nat]
    BY <1>2
  <2>2. ws \in Seq(Nat)
    BY <1>2, <2>1
  <2>3. BytesOf(O) = SumAt(ws, O)
    BY DEF BytesOf
  <2> HIDE DEF ws
  <2>4. QED
    BY <2>2, <2>3, ChosenFacts
<1>8. QED
  BY <1>2, <1>5, <1>6, <1>7

\* What the order of equal values cannot change (sort.Slice in computeQuantiles
\* and computeWeightedQuantiles), for any records and targets.
THEOREM QuantilesAlwaysIgnoreTies == Spec => []QuantilesIgnoreTies
<1>1. ASSUME ScanInv, QuantilesCollectable, NEW d \in {"ttl", "size"}, live[d] # {},
             NEW s \in Sortings(d), NEW r \in Sortings(d), NEW t \in Targets
      PROVE  ExactQuantile(s, d, t) = ExactQuantile(r, d, t)
  <2> DEFINE P == live[d]
             n == Cardinality(P)
             a == Values(s, d)
             b == Values(r, d)
             vs == ValueOf(d)
             x == t.num * (n - 1)
  <2>1. d \in Dims
    BY DEF Dims
  <2>2. n \in Nat /\ Lists(s, n, P) /\ Ascending(a, n) /\ AreValues(a, vs, s, n)
    BY <1>1, <2>1, SortingFacts
  <2>3. Lists(r, n, P) /\ Ascending(b, n) /\ AreValues(b, vs, r, n)
    BY <1>1, <2>1, SortingFacts
  <2>4. /\ ExactQuantile(s, d, t) = Interpolated(a, t.den, x)
        /\ ExactQuantile(r, d, t) = Interpolated(b, t.den, x)
    BY <1>1, <2>1, ExactInterpolates
  <2> HIDE DEF P, n, a, b, vs, x
  <2>5. a = b
    BY ONLY <2>2, <2>3, SortingsAgree
  <2>6. QED
    BY <2>4, <2>5
<1>2. ASSUME ScanInv, QuantilesCollectable, live["ttlSize"] # {},
             NEW s \in Sortings("ttlSize"), NEW r \in Sortings("ttlSize"), NEW t \in Targets
      PROVE  WeightedQuantile(s, t) <= WeightedQuantile(r, t)
  <2> DEFINE all == Finalized("ttlSize")
             Enough(x) == t.den * BytesOf({p \in all : log[p].ttl <= x}) >= t.num * BytesOf(all)
  <2>1. WeightedQuantilesCover
    BY <1>2, WeightedCovers
  <2>2. /\ Enough(WeightedQuantile(r, t))
        /\ \A p \in all : Enough(log[p].ttl) => WeightedQuantile(s, t) <= log[p].ttl
    BY <1>2, <2>1 DEF WeightedQuantilesCover
  <2> HIDE DEF Enough
  <2>3. \E p \in all : WeightedQuantile(r, t) = log[p].ttl
    BY <1>2, WeightedFacts
  <2>4. QED
    BY <2>2, <2>3
<1>3. ASSUME ScanInv, QuantilesCollectable, live["ttlSize"] # {},
             NEW s \in Sortings("ttlSize"), NEW r \in Sortings("ttlSize"), NEW t \in Targets
      PROVE  WeightedQuantile(s, t) = WeightedQuantile(r, t)
  <2>1. /\ WeightedQuantile(s, t) <= WeightedQuantile(r, t)
        /\ WeightedQuantile(r, t) <= WeightedQuantile(s, t)
    BY <1>2, <1>3
  <2>2. WeightedQuantile(s, t) \in Nat /\ WeightedQuantile(r, t) \in Nat
    BY <1>3, WeightedFacts
  <2>3. QED
    BY <2>1, <2>2
<1>4. ScanInv => QuantilesIgnoreTies
  BY <1>1, <1>3 DEF QuantilesIgnoreTies
<1>5. QED
  BY <1>4, ScanInvariant, PTL

\* The byte-weighted quantiles ascend with their targets: what covers the higher
\* share covers the lower (weightedQuantile).
THEOREM WeightedQuantilesAlwaysAscend == Spec => []WeightedQuantilesAscend
<1>1. ASSUME ScanInv, QuantilesCollectable, live["ttlSize"] # {},
             NEW s \in Sortings("ttlSize"), NEW t \in Targets, NEW u \in Targets,
             t.num * u.den <= u.num * t.den
      PROVE  WeightedQuantile(s, t) <= WeightedQuantile(s, u)
  <2> DEFINE all == Finalized("ttlSize")
             within == {p \in all : log[p].ttl <= WeightedQuantile(s, u)}
             b == BytesOf(within)
             c == BytesOf(all)
             Enough(x) == t.den * BytesOf({p \in all : log[p].ttl <= x}) >= t.num * c
  <2>1. WeightedQuantilesCover
    BY <1>1, WeightedCovers
  <2>2. /\ u.den * b >= u.num * c
        /\ \A p \in all : Enough(log[p].ttl) => WeightedQuantile(s, t) <= log[p].ttl
    BY <1>1, <2>1 DEF WeightedQuantilesCover
  <2>3. PICK p \in all : WeightedQuantile(s, u) = log[p].ttl
    BY <1>1, WeightedFacts
  <2>4. b \in Nat /\ c \in Nat
    BY <1>1, WeightedFacts
  <2>5. /\ t.num \in Nat /\ t.den \in Nat /\ 0 < t.den
        /\ u.num \in Nat /\ u.den \in Nat /\ 0 < u.den
    BY TargetsAssumption
  <2> HIDE DEF b, c
  <2>6. t.den * b >= t.num * c
    <3>1. t.den * (u.num * c) <= t.den * (u.den * b)
      BY <2>2, <2>4, <2>5, ProductGrows
    <3>2. c * (t.num * u.den) <= c * (u.num * t.den)
      BY <1>1, <2>4, <2>5, ProductGrows
    <3>3. /\ t.den * (u.num * c) = c * (u.num * t.den)
          /\ c * (t.num * u.den) = u.den * (t.num * c)
          /\ t.den * (u.den * b) = u.den * (t.den * b)
      BY <2>4, <2>5
    <3>4. /\ t.num * c \in Nat /\ t.den * b \in Nat /\ u.den * (t.num * c) \in Nat
          /\ u.den * (t.den * b) \in Nat /\ t.den * (u.num * c) \in Nat
      BY <2>4, <2>5
    <3>5. u.den * (t.num * c) <= u.den * (t.den * b)
      BY <3>1, <3>2, <3>3, <3>4
    <3>6. SUFFICES ASSUME t.den * b + 1 <= t.num * c PROVE FALSE
      BY <3>4
    <3>7. u.den * (t.den * b + 1) <= u.den * (t.num * c)
      BY <2>5, <3>4, <3>6, ProductGrows
    <3>8. u.den * (t.den * b + 1) = u.den * (t.den * b) + u.den
      <4> DEFINE y == t.den * b
                 e == u.den
      <4>1. y \in Nat /\ e \in Nat
        BY <2>5, <3>4
      <4> HIDE DEF y, e
      <4>2. e * (y + 1) = e * y + e
        BY ONLY <4>1
      <4>3. QED
        BY <4>2 DEF y, e
    <3>9. QED
      BY <2>5, <3>4, <3>5, <3>7, <3>8
  <2>7. Enough(log[p].ttl)
    BY <2>3, <2>6 DEF b
  <2> HIDE DEF Enough
  <2>8. QED
    BY <2>2, <2>3, <2>7
<1>2. ScanInv => WeightedQuantilesAscend
  BY <1>1 DEF WeightedQuantilesAscend
<1>3. QED
  BY <1>2, ScanInvariant, PTL

(***************************************************************************)
(* What a scan has to do with the scans before it.                         *)
(***************************************************************************)
LEMMA LinksInit == Init => ScanLinks
BY DEF Init, ScanLinks, FirstOK, RangedOK, Dims

\* The TTLs shown once finalize is through are those the gauges span.
LEMMA FinalizedIsRanged ==
    ASSUME ScanInv, RangedOK, phase = "ttlSize", live["ttl"] # {}
    PROVE  ranged = from..Len(log)
<1>1. "ttl" \in Dims /\ phase # "idle" /\ phase \notin InRecord
  BY DEF Dims, InRecord
<1>2. quantMu
  BY DEF ScanInv, ScanTypeOK, ScanMutexOK
<1>3. "ttl" \in element.dims
  BY <1>1 DEF ScanInv, LiveOK
<1>4. live["ttl"] = staging["ttl"]
  BY <1>2, <1>3 DEF ScanInv, LiveOK
<1>5. staging["ttl"] = Relevant("ttl", from..Len(log))
  BY <1>1 DEF ScanInv, StagingOK, StagedNow
<1>6. PICK p \in from..Len(log) : Expirable(log[p])
  BY <1>3, <1>4, <1>5 DEF Relevant, Contributes
<1>7. log[p].ttl \in TTLsNow
  BY <1>6 DEF TTLsNow, TTLsOf
<1>8. ttls.seen
  BY <1>1, <1>7 DEF ScanInv, RangeOK, SpanOK
<1>9. QED
  BY <1>8 DEF RangedOK

LEMMA LinksStep ==
    ASSUME ScanInv, ScanLinks, [Next]_vars
    PROVE  ScanLinks'
<1> USE DEF ScanLinks, FirstOK, RangedOK, vars, configVars, histVars, quantVars,
   gaugeVars, scanVars
<1>1. CASE Begin
  BY <1>1 DEF Begin
<1>2. CASE ScanRefused
  BY <1>2 DEF ScanRefused
<1>3. CASE ScanOpens
  BY <1>3 DEF ScanOpens
<1>4. ASSUME NEW r \in Records, TakeExpirable(r)
      PROVE  ScanLinks'
  BY <1>4 DEF TakeExpirable
<1>5. ASSUME NEW r \in Records, TakeUnexpirable(r)
      PROVE  ScanLinks'
  BY <1>5 DEF TakeUnexpirable
<1>6. CASE Measure
  BY <1>6 DEF Measure
<1>7. CASE AddToBucket
  BY <1>7 DEF AddToBucket
<1>8. CASE AddToTotal
  BY <1>8 DEF AddToTotal
<1>9. CASE ObserveSize
  BY <1>9 DEF ObserveSize
<1>10. CASE Tally
  BY <1>10 DEF Tally
<1>11. CASE ResultError
  BY <1>11 DEF ResultError
<1>12. CASE ResultsEnd
  BY <1>12 DEF ResultsEnd
<1>13. CASE PublishMin
  BY <1>13 DEF PublishMin, AfterPublish
<1>14. CASE PublishMax
  <2>1. ~HasQuantiles => live["ttl"] = {}
    BY DEF ScanInv, LiveOK, HasQuantiles, Dims
  <2>2. QED
    BY <1>14, <2>1 DEF PublishMax, AfterPublish
<1>15. CASE FinalizeTTL
  BY <1>15 DEF FinalizeTTL
<1>16. CASE FinalizeSize
  BY <1>16 DEF FinalizeSize
<1>17. CASE FinalizeTTLSize
  <2>1. /\ phase = "ttlSize" /\ phase' = "idle" /\ ranged' = ranged
        /\ done'.from = from /\ done'.to = Len(log)
    BY <1>17 DEF FinalizeTTLSize
  <2>2. live'["ttl"] = live["ttl"]
    BY <1>17 DEF FinalizeTTLSize, Promote, ScanInv, ScanTypeOK, ScanBuffersOK, Dims
  <2>3. live["ttl"] # {} => ranged = from..Len(log)
    BY <2>1, FinalizedIsRanged
  <2>4. QED
    BY <2>1, <2>2, <2>3
<1>18. CASE UNCHANGED vars
  BY <1>18
<1>19. QED
  BY <1>1, <1>2, <1>3, <1>4, <1>5, <1>6, <1>7, <1>8, <1>9, <1>10, <1>11,
     <1>12, <1>13, <1>14, <1>15, <1>16, <1>17, <1>18 DEF Next

\* The inductive invariant with what relates a scan to those before it: a scan
\* that can be refused has delivered nothing, gauges and quantiles are of one.
THEOREM ScanLinksInvariant == Spec => [](ScanInv /\ ScanLinks)
<1>1. Init => ScanInv /\ ScanLinks
  BY ScanInvInit, LinksInit
<1>2. (ScanInv /\ ScanLinks) /\ [Next]_vars => (ScanInv /\ ScanLinks)'
  BY ScanInvStep, LinksStep
<1>3. QED
  BY <1>1, <1>2, PTL DEF Spec

\* Between scans gauges and quantiles, published one after the other, are of one
\* scan, and the TTL quantiles lie within the range the gauges show
\* (ttlRange.publish and quantileCollector.finalize).
THEOREM QuantilesAlwaysWithinGauges == Spec => []QuantilesWithinGauges
<1>1. ASSUME ScanInv, ScanLinks, phase = "idle", live["ttl"] # {}
      PROVE  ranged = done.from..done.to
  BY <1>1 DEF ScanLinks, RangedOK
<1>2. ASSUME ScanInv, ScanLinks, phase = "idle", live["ttl"] # {},
             NEW s \in Sortings("ttl"), NEW t \in Targets
      PROVE  /\ \A m \in minTTL : t.den * m <= ExactQuantile(s, "ttl", t)
             /\ \A m \in maxTTL : ExactQuantile(s, "ttl", t) <= t.den * m
  <2> DEFINE n == Cardinality(live["ttl"])
             a == Values(s, "ttl")
             x == t.num * (n - 1)
             q == Interpolated(a, t.den, x)
  <2>1. "ttl" \in Dims /\ QuantilesCollectable
    BY <1>2 DEF Dims, QuantilesCollectable, ScanInv, ScanTypeOK, ScanMutexOK
  <2>2. live["ttl"] = Relevant("ttl", ranged)
    BY <1>1, <1>2, <2>1 DEF ScanInv, LiveOK, LiveIsOneScan
  <2>3. /\ n \in Nat \ {0} /\ s \in [1..n -> live["ttl"]] /\ Ascending(a, n)
        /\ \A i \in 1..n : a[i] = Value("ttl", s[i])
    BY <1>2, <2>1, SortingFacts
  <2>4. x \in Nat /\ x <= t.den * (n - 1) /\ ExactQuantile(s, "ttl", t) = q
    BY <1>2, <2>1, ExactInterpolates
  <2>5. t.den \in Nat /\ 0 < t.den
    BY TargetsAssumption
  <2> HIDE DEF a, n
  <2>6. ASSUME NEW i \in 1..n PROVE a[i] \in TTLsOf(ranged)
    <3>1. s[i] \in ranged /\ Expirable(log[s[i]])
      BY <2>2, <2>3 DEF Relevant, Contributes
    <3>2. a[i] = log[s[i]].ttl
      BY <2>3 DEF Value
    <3>3. QED
      BY <3>1, <3>2 DEF TTLsOf
  <2>7. ASSUME NEW i \in 1..n
        PROVE  (\A m \in minTTL : m <= a[i]) /\ (\A m \in maxTTL : a[i] <= m)
    BY <1>2, <2>6 DEF ScanInv, RangeOK, MinOK, MaxOK
  <2>8. minTTL \subseteq Nat /\ maxTTL \subseteq Nat
    BY <1>2 DEF ScanInv, ScanTypeOK, ScanBuffersOK
  <2> HIDE DEF x
  <2>9. ASSUME NEW m \in minTTL PROVE t.den * m <= q
    <3>1. m \in Nat /\ \A i \in 1..n : m <= a[i]
      BY <2>7, <2>8
    <3>2. QED
      BY <2>3, <2>4, <2>5, <3>1, InterpolatedAbove
  <2>10. ASSUME NEW m \in maxTTL PROVE q <= t.den * m
    <3>1. m \in Nat /\ \A i \in 1..n : a[i] <= m
      BY <2>7, <2>8
    <3>2. QED
      BY <2>3, <2>4, <2>5, <3>1, InterpolatedBelow
  <2> HIDE DEF q
  <2>11. QED
    BY <2>4, <2>9, <2>10
<1>3. ScanInv /\ ScanLinks => QuantilesWithinGauges
  BY <1>1, <1>2 DEF QuantilesWithinGauges
<1>4. QED
  BY <1>3, ScanLinksInvariant, PTL

(***************************************************************************)
(* The scans implement the summary of ScanSummary.                         *)
(***************************************************************************)
\* Whether or not finalize is under way, the summary shown is the one of the
\* scan finalized last.
LEMMA ShownIsFinalized ==
    ASSUME ScanInv
    PROVE  ShownSummary = [d \in Dims |-> Relevant(d, done.from..done.to)]
BY DEF ScanInv, LiveOK, LiveIsOneScan, QuantilesCollectable, ShownSummary

\* ... and so it is after a step.
LEMMA ShownIsFinalizedNext ==
    ASSUME ScanInv'
    PROVE  ShownSummary' = [d \in Dims |-> Relevant(d, done.from..done.to)']
BY DEF ScanInv, LiveOK, LiveIsOneScan, QuantilesCollectable, ShownSummary

LEMMA SummaryInit == Init => Summary!Init
<1> SUFFICES ASSUME Init PROVE Summary!Init
  OBVIOUS
<1>1. element.dims \subseteq Dims
  BY ScanAssumption DEF Init
<1>2. ShownSummary = [d \in Dims |-> {}]
  BY DEF Init, ShownSummary
<1>3. QED
  BY <1>1, <1>2 DEF Init, Summary!Init

\* A summary does not change when records are added behind it.
LEMMA FinalizedStays ==
    ASSUME ScanInv, element' = element, done' = done,
           log' = log \/ \E r \in Records : log' = Append(log, r)
    PROVE  \A d \in Dims : Relevant(d, done.from..done.to)'
                              = Relevant(d, done.from..done.to)
<1>1. /\ log \in Seq(Records \cup {NoRecord}) /\ Len(log) \in Nat
      /\ done.from \in Nat /\ done.to \in Nat /\ done.from >= 1 /\ done.to <= Len(log)
  BY PositionFacts DEF ScanInv, ScanTypeOK, ScanBuffersOK, LiveOK
<1>2. \A p \in 1..Len(log) : log'[p] = log[p]
  BY <1>1, AppendFacts
<1>3. \A p \in done.from..done.to : log'[p] = log[p]
  BY <1>1, <1>2
<1>4. QED
  BY <1>3 DEF Relevant, Contributes, Expirable

\* A step that finalizes nothing changes nothing shown.
LEMMA ShownStays ==
    ASSUME ScanInv, ScanInv', element' = element, done' = done,
           log' = log \/ \E r \in Records : log' = Append(log, r)
    PROVE  ShownSummary' = ShownSummary
<1>1. ShownSummary = [d \in Dims |-> Relevant(d, done.from..done.to)]
  BY ShownIsFinalized
<1>2. ShownSummary' = [d \in Dims |-> Relevant(d, done.from..done.to)']
  BY ShownIsFinalizedNext
<1>3. QED
  BY <1>1, <1>2, FinalizedStays

\* The step that ends a scan shows its records, in every dimension.
LEMMA FinalizeCompletes ==
    ASSUME ScanInv, ScanInv', FinalizeTTLSize
    PROVE  Summary!Complete
<1>1. /\ phase = "ttlSize" /\ phase' = "idle" /\ log' = log /\ from' = from
      /\ element' = element /\ done'.from = from /\ done'.to = Len(log)
  BY DEF FinalizeTTLSize, scanVars, configVars
<1>2. ShownSummary' = [d \in Dims |-> Relevant(d, done.from..done.to)']
  BY ShownIsFinalizedNext
<1>3. \A d \in Dims : Relevant(d, done.from..done.to)'
          = IF d \in element.dims THEN {p \in from..Len(log) : Contributes(d, log[p])} ELSE {}
  BY <1>1 DEF Relevant, Contributes, Expirable
<1>4. ShownSummary' = Summary!Summary(from..Len(log))
  BY <1>2, <1>3 DEF Summary!Summary
<1>5. QED
  BY <1>1, <1>4 DEF Summary!Complete

\* A set without quantiles shows none, before and after.
LEMMA PublishCompletes ==
    ASSUME ScanInv, ScanInv', PublishMin \/ PublishMax, phase' = "idle"
    PROVE  Summary!Complete
<1>1. /\ phase # "idle" /\ log' = log /\ from' = from /\ element' = element
      /\ done' = done /\ ~HasQuantiles
  BY DEF PublishMin, PublishMax, scanVars, configVars, quantVars, AfterPublish
<1>2. element.dims = {}
  BY <1>1 DEF HasQuantiles
<1>3. ShownSummary' = ShownSummary
  BY <1>1, ShownStays
<1>4. ShownSummary = [d \in Dims |-> {}]
  BY <1>2, ShownIsFinalized DEF Relevant
<1>5. Summary!Summary(from..Len(log)) = [d \in Dims |-> {}]
  BY <1>2 DEF Summary!Summary
<1>6. QED
  BY <1>1, <1>3, <1>4, <1>5 DEF Summary!Complete

LEMMA SummaryStep ==
    ASSUME ScanInv, ScanInv', ScanLinks, [Next]_vars
    PROVE  [Summary!Next]_(Summary!vars)
<1> USE DEF vars, configVars, histVars, quantVars, gaugeVars, scanVars
<1>same. ASSUME UNCHANGED <<element, log, from, done>>, (phase = "idle") = (phase' = "idle")
         PROVE  UNCHANGED Summary!vars
  <2>1. ShownSummary' = ShownSummary
    BY <1>same, ShownStays
  <2>2. QED
    BY <1>same, <2>1, Zenon DEF Summary!vars
<1>1. CASE Begin
  <2>1. ShownSummary' = ShownSummary
    BY <1>1, ShownStays DEF Begin
  <2>2. QED
    BY <1>1, <2>1 DEF Begin, Summary!Start, Summary!Next
<1>2. CASE ScanRefused
  <2>1. ShownSummary' = ShownSummary
    BY <1>2, ShownStays DEF ScanRefused
  <2>2. QED
    BY <1>2, <2>1 DEF ScanRefused, ScanLinks, FirstOK, Summary!Refuse, Summary!Next
<1>3. CASE ScanOpens \/ Measure \/ AddToBucket \/ AddToTotal \/ ObserveSize \/ ResultError
           \/ ResultsEnd \/ FinalizeTTL \/ FinalizeSize
  BY <1>3, <1>same DEF ScanOpens, Measure, AddToBucket, AddToTotal, ObserveSize, ResultError,
     ResultsEnd, FinalizeTTL, FinalizeSize
<1>4. ASSUME NEW r \in Records, TakeExpirable(r) \/ TakeUnexpirable(r)
      PROVE  UNCHANGED Summary!vars
  BY <1>4, <1>same DEF TakeExpirable, TakeUnexpirable
<1>5. CASE Tally
  <2>1. rec \in Records /\ log' = Append(log, rec)
    BY <1>5 DEF Tally, ScanInv, RecordOK, InRecord
  <2>2. ShownSummary' = ShownSummary
    BY <1>5, <2>1, ShownStays DEF Tally
  <2>3. Summary!Observe(rec)
    BY <1>5, <2>1, <2>2 DEF Tally, Summary!Observe
  <2>4. QED
    BY <2>1, <2>3 DEF Summary!Next
<1>6. CASE PublishMin \/ PublishMax
  <2>1. CASE phase' = "idle"
    BY <1>6, <2>1, PublishCompletes DEF Summary!Next
  <2>2. CASE phase' # "idle"
    BY <1>6, <2>2, <1>same DEF PublishMin, PublishMax
  <2>3. QED
    BY <2>1, <2>2
<1>7. CASE FinalizeTTLSize
  BY <1>7, FinalizeCompletes DEF Summary!Next
<1>8. CASE UNCHANGED vars
  BY <1>8, <1>same
<1>9. QED
  BY <1>1, <1>2, <1>3, <1>4, <1>5, <1>6, <1>7, <1>8 DEF Next

\* The scans of a set implement the summary of ScanSummary, whatever the records,
\* refusals and the order finalize goes through the dimensions in: a scrape sees
\* one completed scan replaced by the next, at once (quantile_collector.go).
THEOREM ScansImplementSummary == Spec => SummarySpec
BY SummaryInit, SummaryStep, ScanLinksInvariant, PTL DEF Spec, SummarySpec, Summary!Spec
=============================================================================
