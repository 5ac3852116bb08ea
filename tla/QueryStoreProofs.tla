-------------------------- MODULE QueryStoreProofs --------------------------
(***************************************************************************)
(* Theorems about QueryStore: its types, the reach of a changed flush      *)
(* interval, the bound on the table, and that it implements DurableLog     *)
(* without its liveness.                                                   *)
(***************************************************************************)
EXTENDS QueryStore, CommonFacts, TLAPS

\* The empty sequence is a sequence of entries.
LEMMA Empty == <<>> \in Seq(Entry) /\ Len(<<>>) = 0
OBVIOUS

\* Appending an entry adds one.
LEMMA Appended ==
    ASSUME NEW s \in Seq(Entry), NEW e \in Entry
    PROVE  Append(s, e) \in Seq(Entry) /\ Len(Append(s, e)) = Len(s) + 1
OBVIOUS

\* Taking the head off takes one.
LEMMA Taken ==
    ASSUME NEW s \in Seq(Entry), s # <<>>
    PROVE  /\ Head(s) \in Entry /\ Tail(s) \in Seq(Entry)
           /\ Len(Tail(s)) = Len(s) - 1 /\ Len(s) \in Nat
OBVIOUS

\* The bounds are numbers.
LEMMA Bounds == MaxOpens \in Nat /\ BufferSize \in Nat /\ BatchSize \in Nat \ {0}
BY StoreAssumption

\* The end of the process empties the channels and the batch.
LEMMA Cleared == ASSUME ProcessEnds PROVE FlowTyped'
<1>1. batch' = <<>> /\ channel' = [s \in Store |-> <<>>]
  BY DEF ProcessEnds
<1> QED
  BY <1>1, Empty, Bounds DEF FlowTyped

\* While its goroutine runs, the newest store has a channel.
LEMMA OfWriter ==
    ASSUME FlowTyped, LifeTyped, writer # "done"
    PROVE  opened \in Store /\ channel[opened] \in Seq(Entry)
<1>1. opened \in Store
  BY Bounds DEF LifeTyped, Store
<1> QED
  BY <1>1 DEF FlowTyped

\* The store a handler holds has a channel.
LEMMA OfHandler ==
    ASSUME FlowTyped, LifeTyped, held # 0
    PROVE  held \in Store /\ channel[held] \in Seq(Entry)
<1>1. held \in Store
  BY Bounds DEF LifeTyped, Store
<1> QED
  BY <1>1 DEF FlowTyped

\* The rows of a batch get ids above the sequence, which moves up to the last.
LEMMA Inserted ==
    ASSUME TableTyped, FlowTyped, NEW at, Insert(at) PROVE TableTyped'
<1> DEFINE new == (last + 1)..(last + Len(batch))
<1>1. Len(batch) \in Nat /\ \A i \in 1..Len(batch) : batch[i] \in Entry
  BY DEF FlowTyped
<1>2. last' \in Nat /\ room' \in Nat /\ last <= last'
  BY <1>1 DEF Insert, TableTyped
<1>3. DOMAIN table' = DOMAIN table \cup new
  BY DEF Insert
<1>4. DOMAIN table' \subseteq 1..last'
  BY <1>1, <1>3 DEF Insert, TableTyped
<1>5. ASSUME NEW i \in DOMAIN table' PROVE table'[i] \in Entry
  <2>1. CASE i \in DOMAIN table
    BY <2>1 DEF Insert, TableTyped
  <2>2. CASE i \in new
    <3>1. i - last \in 1..Len(batch) /\ ~(i <= last)
      BY <2>2, <1>1 DEF TableTyped
    <3>2. table'[i] = batch[i - last]
      BY <2>2, <3>1 DEF Insert
    <3> QED
      BY <1>1, <3>1, <3>2
  <2> QED
    BY <1>3, <1>5, <2>1, <2>2
<1> QED
  BY <1>2, <1>4, <1>5 DEF TableTyped, Insert

\* A step keeps the lifecycle's variables typed: a handler holds a store that was
\* opened, the current store is the newest, before the first there is no goroutine.
LEMMA LifeStep ==
    ASSUME LifeTyped, TuningTyped, [Next]_vars PROVE LifeTyped'
<1> USE StoreAssumption
<1> USE DEF LifeTyped, WriterAt, LifeAt,
            storeVars, writerVars, fileVars, boundVars, Faulty, Open, Close,
            ProcessEnds, Writing, StatementFails, Arm, FlushReturns, Forget, Insert
<1>1. ASSUME NEW e \in Entry, Record(e) PROVE LifeTyped'
  BY <1>1 DEF Record
<1>2. CASE Reload
  BY <1>2 DEF Reload
<1>3. ASSUME NEW t \in Tuning, ReconcileOpen(t) PROVE LifeTyped'
  BY <1>3 DEF ReconcileOpen
<1>4. ASSUME NEW t \in Tuning, SetTuning(t) PROVE LifeTyped'
  BY <1>4 DEF SetTuning
<1>5. CASE SendRetune
  BY <1>5 DEF SendRetune
<1>6. CASE ReconcileOff
  BY <1>6 DEF ReconcileOff
<1>7. CASE CloseStore
  BY <1>7 DEF CloseStore
<1>8. CASE CloseReturns
  BY <1>8 DEF CloseReturns
<1>9. CASE PruneByAge
  BY <1>9 DEF PruneByAge
<1>10. CASE PruneByRows
  BY <1>10 DEF PruneByRows
<1>11. CASE Receive
  BY <1>11 DEF Receive
<1>12. CASE FlushTick
  BY <1>12 DEF FlushTick
<1>13. CASE Retune
  BY <1>13 DEF Retune
<1>14. CASE PruneTick
  BY <1>14 DEF PruneTick
<1>15. CASE Done
  BY <1>15 DEF Done
<1>16. CASE BeginInsert
  BY <1>16 DEF BeginInsert
<1>17. CASE CommitInsert
  BY <1>17 DEF CommitInsert
<1>18. CASE Drain
  BY <1>18 DEF Drain
<1>19. CASE FinalFlush
  BY <1>19 DEF FinalFlush
<1>20. CASE Return
  BY <1>20 DEF Return
<1>21. CASE Boot
  BY <1>21 DEF Boot
<1>22. CASE StopEngine
  BY <1>22 DEF StopEngine
<1>23. CASE Crash
  BY <1>23 DEF Crash
<1>24. CASE Tick
  BY <1>24 DEF Tick
<1>25. CASE UNCHANGED vars
  BY <1>25 DEF vars
<1> QED
    BY <1>1, <1>2, <1>3, <1>4, <1>5, <1>6, <1>7, <1>8, <1>9, <1>10, <1>11,
     <1>12, <1>13, <1>14, <1>15, <1>16, <1>17, <1>18, <1>19, <1>20, <1>21,
     <1>22, <1>23, <1>24, <1>25 DEF Next

\* A step keeps the flags boolean.
LEMMA SignalsStep ==
    ASSUME SignalsTyped, [Next]_vars PROVE SignalsTyped'
<1> USE DEF SignalsTyped,
            storeVars, writerVars, fileVars, boundVars, Faulty, Open, Close,
            ProcessEnds, Writing, StatementFails, Arm, FlushReturns, Forget, Insert
<1>1. ASSUME NEW e \in Entry, Record(e) PROVE SignalsTyped'
  BY <1>1 DEF Record
<1>2. CASE Reload
  BY <1>2 DEF Reload
<1>3. ASSUME NEW t \in Tuning, ReconcileOpen(t) PROVE SignalsTyped'
  BY <1>3 DEF ReconcileOpen
<1>4. ASSUME NEW t \in Tuning, SetTuning(t) PROVE SignalsTyped'
  BY <1>4 DEF SetTuning
<1>5. CASE SendRetune
  BY <1>5 DEF SendRetune
<1>6. CASE ReconcileOff
  BY <1>6 DEF ReconcileOff
<1>7. CASE CloseStore
  BY <1>7 DEF CloseStore
<1>8. CASE CloseReturns
  BY <1>8 DEF CloseReturns
<1>9. CASE PruneByAge
  BY <1>9 DEF PruneByAge
<1>10. CASE PruneByRows
  BY <1>10 DEF PruneByRows
<1>11. CASE Receive
  BY <1>11 DEF Receive
<1>12. CASE FlushTick
  BY <1>12 DEF FlushTick
<1>13. CASE Retune
  BY <1>13 DEF Retune
<1>14. CASE PruneTick
  BY <1>14 DEF PruneTick
<1>15. CASE Done
  BY <1>15 DEF Done
<1>16. CASE BeginInsert
  BY <1>16 DEF BeginInsert
<1>17. CASE CommitInsert
  BY <1>17 DEF CommitInsert
<1>18. CASE Drain
  BY <1>18 DEF Drain
<1>19. CASE FinalFlush
  BY <1>19 DEF FinalFlush
<1>20. CASE Return
  BY <1>20 DEF Return
<1>21. CASE Boot
  BY <1>21 DEF Boot
<1>22. CASE StopEngine
  BY <1>22 DEF StopEngine
<1>23. CASE Crash
  BY <1>23 DEF Crash
<1>24. CASE Tick
  BY <1>24 DEF Tick
<1>25. CASE UNCHANGED vars
  BY <1>25 DEF vars
<1> QED
    BY <1>1, <1>2, <1>3, <1>4, <1>5, <1>6, <1>7, <1>8, <1>9, <1>10, <1>11,
     <1>12, <1>13, <1>14, <1>15, <1>16, <1>17, <1>18, <1>19, <1>20, <1>21,
     <1>22, <1>23, <1>24, <1>25 DEF Next

\* A step keeps the tuning one that was asked for, and the ticker a number.
LEMMA TuningStep ==
    ASSUME TuningTyped, [Next]_vars PROVE TuningTyped'
<1> USE StoreAssumption
<1> USE DEF TuningTyped, NoTuning,
            storeVars, writerVars, fileVars, boundVars, Faulty, Open, Close,
            ProcessEnds, Writing, StatementFails, Arm, FlushReturns, Forget, Insert
<1>1. ASSUME NEW e \in Entry, Record(e) PROVE TuningTyped'
  BY <1>1 DEF Record
<1>2. CASE Reload
  BY <1>2 DEF Reload
<1>3. ASSUME NEW t \in Tuning, ReconcileOpen(t) PROVE TuningTyped'
  BY <1>3 DEF ReconcileOpen
<1>4. ASSUME NEW t \in Tuning, SetTuning(t) PROVE TuningTyped'
  BY <1>4 DEF SetTuning
<1>5. CASE SendRetune
  BY <1>5 DEF SendRetune
<1>6. CASE ReconcileOff
  BY <1>6 DEF ReconcileOff
<1>7. CASE CloseStore
  BY <1>7 DEF CloseStore
<1>8. CASE CloseReturns
  BY <1>8 DEF CloseReturns
<1>9. CASE PruneByAge
  BY <1>9 DEF PruneByAge
<1>10. CASE PruneByRows
  BY <1>10 DEF PruneByRows
<1>11. CASE Receive
  BY <1>11 DEF Receive
<1>12. CASE FlushTick
  BY <1>12 DEF FlushTick
<1>13. CASE Retune
  BY <1>13 DEF Retune
<1>14. CASE PruneTick
  BY <1>14 DEF PruneTick
<1>15. CASE Done
  BY <1>15 DEF Done
<1>16. CASE BeginInsert
  BY <1>16 DEF BeginInsert
<1>17. CASE CommitInsert
  BY <1>17 DEF CommitInsert
<1>18. CASE Drain
  BY <1>18 DEF Drain
<1>19. CASE FinalFlush
  BY <1>19 DEF FinalFlush
<1>20. CASE Return
  BY <1>20 DEF Return
<1>21. CASE Boot
  BY <1>21 DEF Boot
<1>22. CASE StopEngine
  BY <1>22 DEF StopEngine
<1>23. CASE Crash
  BY <1>23 DEF Crash
<1>24. CASE Tick
  BY <1>24 DEF Tick
<1>25. CASE UNCHANGED vars
  BY <1>25 DEF vars
<1> QED
    BY <1>1, <1>2, <1>3, <1>4, <1>5, <1>6, <1>7, <1>8, <1>9, <1>10, <1>11,
     <1>12, <1>13, <1>14, <1>15, <1>16, <1>17, <1>18, <1>19, <1>20, <1>21,
     <1>22, <1>23, <1>24, <1>25 DEF Next

\* A step keeps the counters numbers.
LEMMA CountersStep ==
    ASSUME CountersTyped, [Next]_vars PROVE CountersTyped'
<1> USE DEF CountersTyped,
            storeVars, writerVars, fileVars, boundVars, Faulty, Open, Close,
            ProcessEnds, Writing, StatementFails, Arm, FlushReturns, Forget, Insert
<1>1. ASSUME NEW e \in Entry, Record(e) PROVE CountersTyped'
  BY <1>1 DEF Record
<1>2. CASE Reload
  BY <1>2 DEF Reload
<1>3. ASSUME NEW t \in Tuning, ReconcileOpen(t) PROVE CountersTyped'
  BY <1>3 DEF ReconcileOpen
<1>4. ASSUME NEW t \in Tuning, SetTuning(t) PROVE CountersTyped'
  BY <1>4 DEF SetTuning
<1>5. CASE SendRetune
  BY <1>5 DEF SendRetune
<1>6. CASE ReconcileOff
  BY <1>6 DEF ReconcileOff
<1>7. CASE CloseStore
  BY <1>7 DEF CloseStore
<1>8. CASE CloseReturns
  BY <1>8 DEF CloseReturns
<1>9. CASE PruneByAge
  BY <1>9 DEF PruneByAge
<1>10. CASE PruneByRows
  BY <1>10 DEF PruneByRows
<1>11. CASE Receive
  BY <1>11 DEF Receive
<1>12. CASE FlushTick
  BY <1>12 DEF FlushTick
<1>13. CASE Retune
  BY <1>13 DEF Retune
<1>14. CASE PruneTick
  BY <1>14 DEF PruneTick
<1>15. CASE Done
  BY <1>15 DEF Done
<1>16. CASE BeginInsert
  BY <1>16 DEF BeginInsert
<1>17. CASE CommitInsert
  BY <1>17 DEF CommitInsert
<1>18. CASE Drain
  BY <1>18 DEF Drain
<1>19. CASE FinalFlush
  BY <1>19 DEF FinalFlush
<1>20. CASE Return
  BY <1>20 DEF Return
<1>21. CASE Boot
  BY <1>21 DEF Boot
<1>22. CASE StopEngine
  BY <1>22 DEF StopEngine
<1>23. CASE Crash
  BY <1>23 DEF Crash
<1>24. CASE Tick
  BY <1>24 DEF Tick
<1>25. CASE UNCHANGED vars
  BY <1>25 DEF vars
<1> QED
    BY <1>1, <1>2, <1>3, <1>4, <1>5, <1>6, <1>7, <1>8, <1>9, <1>10, <1>11,
     <1>12, <1>13, <1>14, <1>15, <1>16, <1>17, <1>18, <1>19, <1>20, <1>21,
     <1>22, <1>23, <1>24, <1>25 DEF Next

\* A step keeps a count of dropped entries per store.
LEMMA DroppedStep ==
    ASSUME DroppedTyped, LifeTyped, [Next]_vars PROVE DroppedTyped'
<1> USE DEF DroppedTyped, LifeTyped, Store,
            storeVars, writerVars, fileVars, boundVars, Faulty, Open, Close,
            ProcessEnds, Writing, StatementFails, Arm, FlushReturns, Forget, Insert
<1>1. ASSUME NEW e \in Entry, Record(e) PROVE DroppedTyped'
  BY <1>1 DEF Record
<1>2. CASE Reload
  BY <1>2 DEF Reload
<1>3. ASSUME NEW t \in Tuning, ReconcileOpen(t) PROVE DroppedTyped'
  BY <1>3 DEF ReconcileOpen
<1>4. ASSUME NEW t \in Tuning, SetTuning(t) PROVE DroppedTyped'
  BY <1>4 DEF SetTuning
<1>5. CASE SendRetune
  BY <1>5 DEF SendRetune
<1>6. CASE ReconcileOff
  BY <1>6 DEF ReconcileOff
<1>7. CASE CloseStore
  BY <1>7 DEF CloseStore
<1>8. CASE CloseReturns
  BY <1>8 DEF CloseReturns
<1>9. CASE PruneByAge
  BY <1>9 DEF PruneByAge
<1>10. CASE PruneByRows
  BY <1>10 DEF PruneByRows
<1>11. CASE Receive
  BY <1>11 DEF Receive
<1>12. CASE FlushTick
  BY <1>12 DEF FlushTick
<1>13. CASE Retune
  BY <1>13 DEF Retune
<1>14. CASE PruneTick
  BY <1>14 DEF PruneTick
<1>15. CASE Done
  BY <1>15 DEF Done
<1>16. CASE BeginInsert
  BY <1>16 DEF BeginInsert
<1>17. CASE CommitInsert
  BY <1>17 DEF CommitInsert
<1>18. CASE Drain
  BY <1>18 DEF Drain
<1>19. CASE FinalFlush
  BY <1>19 DEF FinalFlush
<1>20. CASE Return
  BY <1>20 DEF Return
<1>21. CASE Boot
  BY <1>21 DEF Boot
<1>22. CASE StopEngine
  BY <1>22 DEF StopEngine
<1>23. CASE Crash
  BY <1>23 DEF Crash
<1>24. CASE Tick
  BY <1>24 DEF Tick
<1>25. CASE UNCHANGED vars
  BY <1>25 DEF vars
<1> QED
    BY <1>1, <1>2, <1>3, <1>4, <1>5, <1>6, <1>7, <1>8, <1>9, <1>10, <1>11,
     <1>12, <1>13, <1>14, <1>15, <1>16, <1>17, <1>18, <1>19, <1>20, <1>21,
     <1>22, <1>23, <1>24, <1>25 DEF Next

\* A step keeps the table's ids at or below the id sequence, and its rows entries.
LEMMA TableStep ==
    ASSUME TableTyped, FlowTyped, TuningTyped, [Next]_vars PROVE TableTyped'
<1> USE StoreAssumption
<1> USE DEF TableTyped, FlowTyped, TuningTyped, NoTuning,
            storeVars, writerVars, fileVars, boundVars, Faulty, Open, Close,
            ProcessEnds, Writing, StatementFails, Arm, FlushReturns, Forget, Insert
<1>1. ASSUME NEW e \in Entry, Record(e) PROVE TableTyped'
  BY <1>1 DEF Record
<1>2. CASE Reload
  BY <1>2 DEF Reload
<1>3. ASSUME NEW t \in Tuning, ReconcileOpen(t) PROVE TableTyped'
  BY <1>3 DEF ReconcileOpen
<1>4. ASSUME NEW t \in Tuning, SetTuning(t) PROVE TableTyped'
  BY <1>4 DEF SetTuning
<1>5. CASE SendRetune
  BY <1>5 DEF SendRetune
<1>6. CASE ReconcileOff
  BY <1>6 DEF ReconcileOff
<1>7. CASE CloseStore
  BY <1>7 DEF CloseStore
<1>8. CASE CloseReturns
  BY <1>8 DEF CloseReturns
<1>9. CASE PruneByAge
  BY <1>9 DEF PruneByAge
<1>10. CASE PruneByRows
  BY <1>10 DEF PruneByRows
<1>11. CASE Receive
  BY <1>11 DEF Receive
<1>12. CASE FlushTick
  BY <1>12 DEF FlushTick
<1>13. CASE Retune
  BY <1>13 DEF Retune
<1>14. CASE PruneTick
  BY <1>14 DEF PruneTick
<1>15. CASE Done
  BY <1>15 DEF Done
<1>16. CASE BeginInsert
  BY <1>16 DEF BeginInsert
<1>17. CASE CommitInsert
  <2> HIDE DEF Insert
  <2>1. CASE Insert("loop")
    BY <2>1, Inserted
  <2>2. CASE UNCHANGED fileVars
    BY <2>2
  <2> QED
    BY <1>17, <2>1, <2>2 DEF CommitInsert
<1>18. CASE Drain
  BY <1>18 DEF Drain
<1>19. CASE FinalFlush
  <2> HIDE DEF Insert
  <2>1. CASE Insert("return")
    BY <2>1, Inserted
  <2>2. CASE UNCHANGED fileVars
    BY <2>2
  <2> QED
    BY <1>19, <2>1, <2>2 DEF FinalFlush
<1>20. CASE Return
  BY <1>20 DEF Return
<1>21. CASE Boot
  BY <1>21 DEF Boot
<1>22. CASE StopEngine
  BY <1>22 DEF StopEngine
<1>23. CASE Crash
  BY <1>23 DEF Crash
<1>24. CASE Tick
  BY <1>24 DEF Tick
<1>25. CASE UNCHANGED vars
  BY <1>25 DEF vars
<1> QED
    BY <1>1, <1>2, <1>3, <1>4, <1>5, <1>6, <1>7, <1>8, <1>9, <1>10, <1>11,
     <1>12, <1>13, <1>14, <1>15, <1>16, <1>17, <1>18, <1>19, <1>20, <1>21,
     <1>22, <1>23, <1>24, <1>25 DEF Next

\* A step keeps what is not recorded yet, and what is lost, sets of entries.
LEMMA EntriesStep ==
    ASSUME EntriesTyped, FlowTyped, LifeTyped, [Next]_vars PROVE EntriesTyped'
<1> USE DEF EntriesTyped, FlowTyped, LifeTyped, Store, Elements, Pending,
            storeVars, writerVars, fileVars, boundVars, Faulty, Open, Close,
            ProcessEnds, Writing, StatementFails, Arm, FlushReturns, Forget, Insert
<1>1. ASSUME NEW e \in Entry, Record(e) PROVE EntriesTyped'
  BY <1>1 DEF Record
<1>2. CASE Reload
  BY <1>2 DEF Reload
<1>3. ASSUME NEW t \in Tuning, ReconcileOpen(t) PROVE EntriesTyped'
  BY <1>3 DEF ReconcileOpen
<1>4. ASSUME NEW t \in Tuning, SetTuning(t) PROVE EntriesTyped'
  BY <1>4 DEF SetTuning
<1>5. CASE SendRetune
  BY <1>5 DEF SendRetune
<1>6. CASE ReconcileOff
  BY <1>6 DEF ReconcileOff
<1>7. CASE CloseStore
  BY <1>7 DEF CloseStore
<1>8. CASE CloseReturns
  BY <1>8 DEF CloseReturns
<1>9. CASE PruneByAge
  BY <1>9 DEF PruneByAge
<1>10. CASE PruneByRows
  BY <1>10 DEF PruneByRows
<1>11. CASE Receive
  BY <1>11 DEF Receive
<1>12. CASE FlushTick
  BY <1>12 DEF FlushTick
<1>13. CASE Retune
  BY <1>13 DEF Retune
<1>14. CASE PruneTick
  BY <1>14 DEF PruneTick
<1>15. CASE Done
  BY <1>15 DEF Done
<1>16. CASE BeginInsert
  BY <1>16 DEF BeginInsert
<1>17. CASE CommitInsert
  BY <1>17 DEF CommitInsert
<1>18. CASE Drain
  BY <1>18 DEF Drain
<1>19. CASE FinalFlush
  BY <1>19 DEF FinalFlush
<1>20. CASE Return
  BY <1>20 DEF Return
<1>21. CASE Boot
  BY <1>21 DEF Boot
<1>22. CASE StopEngine
  BY <1>22 DEF StopEngine
<1>23. CASE Crash
  BY <1>23 DEF Crash
<1>24. CASE Tick
  BY <1>24 DEF Tick
<1>25. CASE UNCHANGED vars
  BY <1>25 DEF vars
<1> QED
    BY <1>1, <1>2, <1>3, <1>4, <1>5, <1>6, <1>7, <1>8, <1>9, <1>10, <1>11,
     <1>12, <1>13, <1>14, <1>15, <1>16, <1>17, <1>18, <1>19, <1>20, <1>21,
     <1>22, <1>23, <1>24, <1>25 DEF Next

\* A step keeps the batch and the channels sequences of entries, no channel above
\* BufferSize: Record looks before it sends, the writer only takes.
LEMMA FlowStep ==
    ASSUME FlowTyped, LifeTyped, [Next]_vars PROVE FlowTyped'
<1> USE StoreAssumption
<1> USE DEF FlowTyped, LifeTyped, Store,
            storeVars, writerVars, fileVars, boundVars, Faulty, Open, Close,
            ProcessEnds, Writing, StatementFails, Arm, FlushReturns, Forget, Insert
<1>1. ASSUME NEW e \in Entry, Record(e) PROVE FlowTyped'
  <2>1. CASE held # 0 /\ Len(channel[held]) < BufferSize
    <3>1. held \in Store /\ channel[held] \in Seq(Entry)
      BY <2>1, OfHandler
    <3>2. channel' = [channel EXCEPT ![held] = Append(channel[held], e)] /\ batch' = batch
      BY <1>1, <2>1 DEF Record
    <3>3. /\ Append(channel[held], e) \in Seq(Entry)
          /\ Len(Append(channel[held], e)) <= BufferSize
      BY <2>1, <3>1, Appended, Bounds
    <3> QED
      BY <3>1, <3>2, <3>3
  <2>2. CASE ~(held # 0 /\ Len(channel[held]) < BufferSize)
    BY <1>1, <2>2 DEF Record
  <2> QED
    BY <2>1, <2>2
<1>2. CASE Reload
  BY <1>2 DEF Reload
<1>3. ASSUME NEW t \in Tuning, ReconcileOpen(t) PROVE FlowTyped'
  BY <1>3, Empty DEF ReconcileOpen
<1>4. ASSUME NEW t \in Tuning, SetTuning(t) PROVE FlowTyped'
  BY <1>4 DEF SetTuning
<1>5. CASE SendRetune
  BY <1>5 DEF SendRetune
<1>6. CASE ReconcileOff
  BY <1>6 DEF ReconcileOff
<1>7. CASE CloseStore
  <2>1. ProcessEnds \/ UNCHANGED <<channel, batch>>
    BY <1>7 DEF CloseStore
  <2> QED
    BY <2>1, Cleared
<1>8. CASE CloseReturns
  <2>1. ProcessEnds \/ UNCHANGED <<channel, batch>>
    BY <1>8 DEF CloseReturns
  <2> QED
    BY <2>1, Cleared
<1>9. CASE PruneByAge
  BY <1>9 DEF PruneByAge
<1>10. CASE PruneByRows
  BY <1>10 DEF PruneByRows
<1>11. CASE Receive
  <2>1. opened \in Store /\ channel[opened] \in Seq(Entry)
    BY <1>11, OfWriter DEF Receive
  <2>2. CASE channel[opened] # <<>>
    <3>1. Head(channel[opened]) \in Entry /\ Tail(channel[opened]) \in Seq(Entry)
          /\ Len(Tail(channel[opened])) <= BufferSize
      BY <2>1, <2>2, Taken, Bounds
    <3>2. channel' = [channel EXCEPT ![opened] = Tail(channel[opened])]
          /\ batch' = Append(batch, Head(channel[opened]))
      BY <1>11, <2>2 DEF Receive
    <3> QED
      BY <2>1, <3>1, <3>2, Appended
  <2>3. CASE channel[opened] = <<>>
    BY <1>11, <2>3 DEF Receive
  <2> QED
    BY <2>2, <2>3
<1>12. CASE FlushTick
  BY <1>12 DEF FlushTick
<1>13. CASE Retune
  BY <1>13 DEF Retune
<1>14. CASE PruneTick
  BY <1>14 DEF PruneTick
<1>15. CASE Done
  BY <1>15 DEF Done
<1>16. CASE BeginInsert
  BY <1>16, Empty DEF BeginInsert
<1>17. CASE CommitInsert
  BY <1>17, Empty DEF CommitInsert
<1>18. CASE Drain
  <2>1. opened \in Store /\ channel[opened] \in Seq(Entry)
    BY <1>18, OfWriter DEF Drain
  <2>2. CASE channel[opened] # <<>>
    <3>1. Head(channel[opened]) \in Entry /\ Tail(channel[opened]) \in Seq(Entry)
          /\ Len(Tail(channel[opened])) <= BufferSize
      BY <2>1, <2>2, Taken, Bounds
    <3>2. channel' = [channel EXCEPT ![opened] = Tail(channel[opened])]
          /\ batch' = Append(batch, Head(channel[opened]))
      BY <1>18, <2>2 DEF Drain
    <3> QED
      BY <2>1, <3>1, <3>2, Appended
  <2>3. CASE channel[opened] = <<>>
    BY <1>18, <2>3 DEF Drain
  <2> QED
    BY <2>2, <2>3
<1>19. CASE FinalFlush
  BY <1>19, Empty DEF FinalFlush
<1>20. CASE Return
  BY <1>20 DEF Return
<1>21. CASE Boot
  BY <1>21, Empty DEF Boot
<1>22. CASE StopEngine
  BY <1>22 DEF StopEngine
<1>23. CASE Crash
  <2>1. ProcessEnds \/ UNCHANGED <<channel, batch>>
    BY <1>23 DEF Crash
  <2> QED
    BY <2>1, Cleared
<1>24. CASE Tick
  BY <1>24 DEF Tick
<1>25. CASE UNCHANGED vars
  BY <1>25 DEF vars
<1> QED
    BY <1>1, <1>2, <1>3, <1>4, <1>5, <1>6, <1>7, <1>8, <1>9, <1>10, <1>11,
     <1>12, <1>13, <1>14, <1>15, <1>16, <1>17, <1>18, <1>19, <1>20, <1>21,
     <1>22, <1>23, <1>24, <1>25 DEF Next

\* A step keeps the inductive strengthening.
LEMMA WriterStep ==
    ASSUME WriterInv, FlowTyped, LifeTyped, [Next]_vars PROVE WriterInv'
<1> USE StoreAssumption
<1> USE DEF WriterInv, FlowTyped, LifeTyped, Store,
            storeVars, writerVars, fileVars, boundVars, Faulty, Open, Close,
            ProcessEnds, Writing, StatementFails, Arm, FlushReturns, Forget, Insert
<1>1. ASSUME NEW e \in Entry, Record(e) PROVE WriterInv'
  <2>1. \A s \in Store : opened < s => channel'[s] = channel[s]
    BY <1>1 DEF Record
  <2> QED
    BY <1>1, <2>1 DEF Record
<1>2. CASE Reload
  BY <1>2 DEF Reload
<1>3. ASSUME NEW t \in Tuning, ReconcileOpen(t) PROVE WriterInv'
  BY <1>3 DEF ReconcileOpen
<1>4. ASSUME NEW t \in Tuning, SetTuning(t) PROVE WriterInv'
  BY <1>4 DEF SetTuning
<1>5. CASE SendRetune
  BY <1>5 DEF SendRetune
<1>6. CASE ReconcileOff
  BY <1>6 DEF ReconcileOff
<1>7. CASE CloseStore
  BY <1>7 DEF CloseStore
<1>8. CASE CloseReturns
  BY <1>8 DEF CloseReturns
<1>9. CASE PruneByAge
  BY <1>9 DEF PruneByAge
<1>10. CASE PruneByRows
  BY <1>10 DEF PruneByRows
<1>11. CASE Receive
  <2>1. opened \in Store /\ channel[opened] \in Seq(Entry)
    BY <1>11, OfWriter DEF Receive
  <2>2. batch' # <<>>
    <3>1. Head(channel[opened]) \in Entry /\ batch' = Append(batch, Head(channel[opened]))
      BY <1>11, <2>1, Taken DEF Receive
    <3>2. Len(batch') = Len(batch) + 1 /\ Len(batch) \in Nat
      BY <3>1, Appended
    <3> QED
      BY <3>2, Empty
  <2>3. \A s \in Store : opened < s => channel'[s] = channel[s]
    BY <1>11, <2>1 DEF Receive
  <2> QED
    BY <1>11, <2>1, <2>2, <2>3 DEF Receive
<1>12. CASE FlushTick
  BY <1>12 DEF FlushTick
<1>13. CASE Retune
  BY <1>13 DEF Retune
<1>14. CASE PruneTick
  BY <1>14 DEF PruneTick
<1>15. CASE Done
  BY <1>15 DEF Done
<1>16. CASE BeginInsert
  BY <1>16 DEF BeginInsert
<1>17. CASE CommitInsert
  BY <1>17 DEF CommitInsert
<1>18. CASE Drain
  BY <1>18 DEF Drain
<1>19. CASE FinalFlush
  BY <1>19 DEF FinalFlush
<1>20. CASE Return
  BY <1>20 DEF Return
<1>21. CASE Boot
  BY <1>21 DEF Boot
<1>22. CASE StopEngine
  BY <1>22 DEF StopEngine
<1>23. CASE Crash
  BY <1>23 DEF Crash
<1>24. CASE Tick
  BY <1>24 DEF Tick
<1>25. CASE UNCHANGED vars
  BY <1>25 DEF vars
<1> QED
    BY <1>1, <1>2, <1>3, <1>4, <1>5, <1>6, <1>7, <1>8, <1>9, <1>10, <1>11,
     <1>12, <1>13, <1>14, <1>15, <1>16, <1>17, <1>18, <1>19, <1>20, <1>21,
     <1>22, <1>23, <1>24, <1>25 DEF Next

\* A step keeps the ticker's interval the one set, or a signal on its way: no type
\* is needed for it.
LEMMA TuningReachesStep ==
    ASSUME TuningReachesTicker, [Next]_vars PROVE TuningReachesTicker'
<1> USE DEF TuningReachesTicker,
            storeVars, writerVars, fileVars, boundVars, Faulty, Open, Close,
            ProcessEnds, Writing, StatementFails, Arm, FlushReturns, Forget, Insert
<1>1. ASSUME NEW e \in Entry, Record(e) PROVE TuningReachesTicker'
  BY <1>1 DEF Record
<1>2. CASE Reload
  BY <1>2 DEF Reload
<1>3. ASSUME NEW t \in Tuning, ReconcileOpen(t) PROVE TuningReachesTicker'
  BY <1>3 DEF ReconcileOpen
<1>4. ASSUME NEW t \in Tuning, SetTuning(t) PROVE TuningReachesTicker'
  BY <1>4 DEF SetTuning
<1>5. CASE SendRetune
  BY <1>5 DEF SendRetune
<1>6. CASE ReconcileOff
  BY <1>6 DEF ReconcileOff
<1>7. CASE CloseStore
  BY <1>7 DEF CloseStore
<1>8. CASE CloseReturns
  BY <1>8 DEF CloseReturns
<1>9. CASE PruneByAge
  BY <1>9 DEF PruneByAge
<1>10. CASE PruneByRows
  BY <1>10 DEF PruneByRows
<1>11. CASE Receive
  BY <1>11 DEF Receive
<1>12. CASE FlushTick
  BY <1>12 DEF FlushTick
<1>13. CASE Retune
  BY <1>13 DEF Retune
<1>14. CASE PruneTick
  BY <1>14 DEF PruneTick
<1>15. CASE Done
  BY <1>15 DEF Done
<1>16. CASE BeginInsert
  BY <1>16 DEF BeginInsert
<1>17. CASE CommitInsert
  BY <1>17 DEF CommitInsert
<1>18. CASE Drain
  BY <1>18 DEF Drain
<1>19. CASE FinalFlush
  BY <1>19 DEF FinalFlush
<1>20. CASE Return
  BY <1>20 DEF Return
<1>21. CASE Boot
  BY <1>21 DEF Boot
<1>22. CASE StopEngine
  BY <1>22 DEF StopEngine
<1>23. CASE Crash
  BY <1>23 DEF Crash
<1>24. CASE Tick
  BY <1>24 DEF Tick
<1>25. CASE UNCHANGED vars
  BY <1>25 DEF vars
<1> QED
    BY <1>1, <1>2, <1>3, <1>4, <1>5, <1>6, <1>7, <1>8, <1>9, <1>10, <1>11,
     <1>12, <1>13, <1>14, <1>15, <1>16, <1>17, <1>18, <1>19, <1>20, <1>21,
     <1>22, <1>23, <1>24, <1>25 DEF Next

\* Sequences as the refinement meets them: an entry that goes from the head of
\* one to the end of the other leaves the two together as they were.
LEMMA Moved ==
    ASSUME NEW s \in Seq(Entry), NEW t \in Seq(Entry), t # <<>>
    PROVE  Append(s, Head(t)) \o Tail(t) = s \o t
OBVIOUS

\* An entry at the end of the second is at the end of both.
LEMMA Grown ==
    ASSUME NEW s \in Seq(Entry), NEW t \in Seq(Entry), NEW e \in Entry
    PROVE  s \o Append(t, e) = Append(s \o t, e)
OBVIOUS

\* What is left when the first is taken away.
LEMMA Rest ==
    ASSUME NEW s \in Seq(Entry), NEW t \in Seq(Entry)
    PROVE  SubSeq(s \o t, Len(s) + 1, Len(s \o t)) = t
OBVIOUS

\* What is left when everything is taken away.
LEMMA Nothing ==
    ASSUME NEW s \in Seq(Entry)
    PROVE  SubSeq(s, Len(s) + 1, Len(s)) = <<>>
OBVIOUS

\* The first comes first; the empty sequence adds nothing.
LEMMA Prefixed ==
    ASSUME NEW s \in Seq(Entry), NEW t \in Seq(Entry)
    PROVE  <<>> \o t = t /\ s \o <<>> = s /\ \A i \in 1..Len(s) : (s \o t)[i] = s[i]
OBVIOUS

\* The two together are a sequence of both lengths; a non-empty one has a length.
LEMMA Whole ==
    ASSUME NEW s \in Seq(Entry), NEW t \in Seq(Entry)
    PROVE  /\ s \o t \in Seq(Entry) /\ Len(s \o t) = Len(s) + Len(t)
           /\ Len(s) \in Nat /\ Len(t) \in Nat
           /\ s # <<>> => Len(s) > 0
OBVIOUS

\* Nothing is pending without a goroutine, and with one it is the batch and the
\* channel behind it.
LEMMA OfPending ==
    ASSUME FlowTyped, LifeTyped
    PROVE  /\ Pending \in Seq(Entry)
           /\ writer = "done" => Pending = <<>>
           /\ writer # "done" => /\ opened \in Store
                                 /\ batch \in Seq(Entry) /\ channel[opened] \in Seq(Entry)
                                 /\ Pending = batch \o channel[opened]
<1>1. CASE writer = "done"
  BY <1>1, Empty DEF Pending
<1>2. CASE writer # "done"
  <2>1. opened \in Store /\ channel[opened] \in Seq(Entry) /\ batch \in Seq(Entry)
    BY <1>2, OfWriter DEF FlowTyped
  <2> QED
    BY <1>2, <2>1, Whole DEF Pending
<1> QED
  BY <1>1, <1>2

\* A step that changes neither what is pending nor the table is no step of the
\* promise.
LEMMA Stutters ==
    ASSUME UNCHANGED <<fresh, table, last>>, Pending' = Pending
    PROVE  [Promise!Next]_(Promise!vars)
BY DEF Promise!vars

\* A step that leaves the channels, the batch and the goroutine's life alone does
\* not change what is pending.
LEMMA Quiet ==
    ASSUME UNCHANGED <<batch, channel, opened>>, (writer' = "done") <=> (writer = "done")
    PROVE  Pending' = Pending
BY DEF Pending

\* A step that gives up everything is GiveUp, or nothing if nothing was pending.
LEMMA GivesUpAll ==
    ASSUME Pending \in Seq(Entry), Pending' = <<>>, UNCHANGED <<fresh, table, last>>
    PROVE  [Promise!Next]_(Promise!vars)
<1>1. CASE Pending = <<>>
  BY <1>1, Stutters
<1>2. CASE Pending # <<>>
  <2> DEFINE k == Len(Pending)
  <2>1. k \in 1..Len(Pending)
    BY <1>2, Whole
  <2>2. Pending' = SubSeq(Pending, k + 1, Len(Pending))
    BY Nothing
  <2>3. Promise!GiveUp(k)
    BY <2>2 DEF Promise!GiveUp
  <2> QED
    BY <2>1, <2>3 DEF Promise!Next, Promise!Settle
<1> QED
  BY <1>1, <1>2

\* A flush that empties the batch leaves the channel pending: the promise's step
\* takes as many entries from the front as the batch held.
LEMMA BatchLeaves ==
    ASSUME FlowTyped, LifeTyped, writer # "done", batch # <<>>,
           writer' # "done", batch' = <<>>, UNCHANGED <<channel, opened>>
    PROVE  /\ Len(batch) \in 1..Len(Pending)
           /\ Pending' = SubSeq(Pending, Len(batch) + 1, Len(Pending))
           /\ \A i \in 1..Len(batch) : Pending[i] = batch[i]
<1>1. batch \in Seq(Entry) /\ channel[opened] \in Seq(Entry)
      /\ Pending = batch \o channel[opened]
  BY OfPending
<1>2. Pending' = <<>> \o channel[opened]
  BY DEF Pending
<1>3. Pending' = channel[opened]
  BY <1>1, <1>2, Prefixed
<1>4. Len(batch) \in 1..Len(Pending)
  BY <1>1, Whole
<1> QED
  BY <1>1, <1>3, <1>4, Rest, Prefixed

\* A batch that is forgotten is GiveUp of its entries.
LEMMA BatchGivenUp ==
    ASSUME FlowTyped, LifeTyped, writer # "done", batch # <<>>,
           writer' # "done", batch' = <<>>, UNCHANGED <<channel, opened>>,
           UNCHANGED <<fresh, table, last>>
    PROVE  [Promise!Next]_(Promise!vars)
<1>1. Len(batch) \in 1..Len(Pending)
      /\ Pending' = SubSeq(Pending, Len(batch) + 1, Len(Pending))
  BY BatchLeaves
<1>2. Promise!GiveUp(Len(batch))
  BY <1>1 DEF Promise!GiveUp
<1> QED
  BY <1>1, <1>2 DEF Promise!Next, Promise!Settle

\* A batch that is inserted is Write of its entries.
LEMMA BatchWritten ==
    ASSUME FlowTyped, LifeTyped, TableTyped, writer # "done", batch # <<>>,
           NEW at \in {"loop", "return"}, Insert(at), UNCHANGED <<channel, opened, fresh>>
    PROVE  [Promise!Next]_(Promise!vars)
<1>1. writer' # "done" /\ batch' = <<>>
  BY DEF Insert, FlushReturns
<1>2. /\ Len(batch) \in 1..Len(Pending)
      /\ Pending' = SubSeq(Pending, Len(batch) + 1, Len(Pending))
      /\ \A i \in 1..Len(batch) : Pending[i] = batch[i]
  BY <1>1, BatchLeaves
<1> DEFINE new == DOMAIN table \cup (last + 1)..(last + Len(batch))
<1>3. ASSUME NEW i \in new PROVE i <= last \/ Pending[i - last] = batch[i - last]
  <2>1. CASE i \in DOMAIN table
    BY <2>1 DEF TableTyped
  <2>2. CASE i \in (last + 1)..(last + Len(batch))
    <3>1. i - last \in 1..Len(batch)
      BY <1>2, <2>2 DEF TableTyped
    <3> QED
      BY <1>2, <3>1
  <2> QED
    BY <1>3, <2>1, <2>2
<1>4. table' = [i \in new |-> IF i <= last THEN table[i] ELSE batch[i - last]]
  BY DEF Insert
<1>5. table' = [i \in new |-> IF i <= last THEN table[i] ELSE Pending[i - last]]
  BY <1>3, <1>4, Zenon
<1>6. Promise!Write(Len(batch))
  BY <1>2, <1>5 DEF Promise!Write, Insert
<1> QED
  BY <1>2, <1>6 DEF Promise!Next, Promise!Settle

\* Record is Accept when the goroutine that reads the handler's channel still
\* runs and there is room, and Ignore otherwise: a full channel, no store, or the
\* channel of a store that was closed.
LEMMA RecordRefines ==
    ASSUME FlowTyped, LifeTyped, NEW e \in Entry, Record(e)
    PROVE  [Promise!Next]_(Promise!vars)
<1>1. /\ e \in fresh /\ fresh' = fresh \ {e}
      /\ UNCHANGED <<table, last, opened, writer, batch>>
  BY DEF Record, writerVars, fileVars
<1>2. CASE /\ held # 0 /\ Len(channel[held]) < BufferSize
           /\ held = opened /\ writer # "done"
  <2>1. /\ opened \in Store /\ batch \in Seq(Entry) /\ channel[opened] \in Seq(Entry)
        /\ Pending = batch \o channel[opened]
    BY <1>2, OfPending
  <2>2. channel' = [channel EXCEPT ![opened] = Append(channel[opened], e)]
    BY <1>2 DEF Record
  <2>3. channel'[opened] = Append(channel[opened], e)
    BY <2>1, <2>2 DEF FlowTyped
  <2>4. Pending' = batch \o Append(channel[opened], e)
    BY <1>1, <1>2, <2>3 DEF Pending
  <2>5. Pending' = Append(Pending, e)
    BY <2>1, <2>4, Grown
  <2>6. Promise!Accept(e)
    BY <1>1, <2>5 DEF Promise!Accept
  <2> QED
    BY <2>6 DEF Promise!Next
<1>3. CASE ~(/\ held # 0 /\ Len(channel[held]) < BufferSize
             /\ held = opened /\ writer # "done")
  <2>1. ASSUME writer = "done" PROVE Pending' = Pending
    BY <1>1, <2>1 DEF Pending
  <2>2. ASSUME writer # "done" PROVE Pending' = Pending
    <3>1. opened \in Store
      BY <2>2, OfPending
    <3>2. channel'[opened] = channel[opened]
      BY <1>3, <2>2, <3>1 DEF Record, FlowTyped
    <3> QED
      BY <1>1, <3>2 DEF Pending
  <2>3. Pending' = Pending
    BY <2>1, <2>2
  <2>4. Promise!Ignore(e)
    BY <1>1, <2>3 DEF Promise!Ignore
  <2> QED
    BY <2>4 DEF Promise!Next
<1> QED
  BY <1>2, <1>3

\* An entry that moves from the channel into the batch stays pending, in its
\* place.
LEMMA TakingRefines ==
    ASSUME FlowTyped, LifeTyped, writer # "done", writer' # "done",
           channel[opened] # <<>>, batch' = Append(batch, Head(channel[opened])),
           channel' = [channel EXCEPT ![opened] = Tail(channel[opened])],
           UNCHANGED <<opened, fresh, table, last>>
    PROVE  [Promise!Next]_(Promise!vars)
<1>1. /\ opened \in Store /\ batch \in Seq(Entry) /\ channel[opened] \in Seq(Entry)
      /\ Pending = batch \o channel[opened]
  BY OfPending
<1>2. channel'[opened] = Tail(channel[opened])
  BY <1>1 DEF FlowTyped
<1>3. Pending' = Append(batch, Head(channel[opened])) \o Tail(channel[opened])
  BY <1>2 DEF Pending
<1>4. Pending' = Pending
  BY <1>1, <1>3, Moved
<1> QED
  BY <1>4, Stutters

\* A store that is opened starts with nothing pending.
LEMMA OpeningRefines ==
    ASSUME FlowTyped, LifeTyped, WriterInv, writer = "done", NEW t \in Tuning, Open(t),
           UNCHANGED <<channel, fresh, table, last>>
    PROVE  [Promise!Next]_(Promise!vars)
<1>1. opened + 1 \in Store /\ opened < opened + 1
  BY Bounds DEF LifeTyped, Store, Open
<1>2. channel[opened + 1] = <<>>
  BY <1>1 DEF WriterInv
<1>3. Pending' = <<>> \o <<>>
  BY <1>2 DEF Pending, Open
<1>4. Pending' = <<>>
  BY <1>3, Empty, Prefixed
<1>5. Pending = <<>>
  BY DEF Pending
<1> QED
  BY <1>4, <1>5, Stutters

\* A prune removes rows and nothing else.
LEMMA PruningRefines ==
    ASSUME NEW kept, table' = [i \in kept |-> table[i]], kept \subseteq DOMAIN table,
           Pending' = Pending, UNCHANGED <<fresh, last>>
    PROVE  [Promise!Next]_(Promise!vars)
<1> DEFINE ids == DOMAIN table \ kept
<1>1. DOMAIN table \ ids = kept
  OBVIOUS
<1>2. Promise!Forget(ids)
  BY <1>1 DEF Promise!Forget
<1> QED
  BY <1>2 DEF Promise!Next

\* The store implements its promise step by step: each of its steps is the step
\* of DurableLog named above, or none.
LEMMA PromiseStep ==
    ASSUME FlowTyped, LifeTyped, TableTyped, WriterInv, [Next]_vars
    PROVE  [Promise!Next]_(Promise!vars)
<1> USE DEF storeVars, writerVars, fileVars, boundVars, Writing
<1>1. ASSUME NEW e \in Entry, Record(e) PROVE [Promise!Next]_(Promise!vars)
  BY <1>1, RecordRefines
<1>2. CASE Reload
  BY <1>2, Quiet, Stutters DEF Reload
<1>3. ASSUME NEW t \in Tuning, ReconcileOpen(t) PROVE [Promise!Next]_(Promise!vars)
  <2>1. writer = "done"
    BY <1>3 DEF ReconcileOpen, WriterInv
  <2>2. CASE Open(t)
    BY <1>3, <2>1, <2>2, OpeningRefines DEF ReconcileOpen
  <2>3. CASE ~Open(t)
    BY <1>3, <2>3, Quiet, Stutters DEF ReconcileOpen
  <2> QED
    BY <2>2, <2>3
<1>4. ASSUME NEW t \in Tuning, SetTuning(t) PROVE [Promise!Next]_(Promise!vars)
  BY <1>4, Quiet, Stutters DEF SetTuning
<1>5. CASE SendRetune
  BY <1>5, Quiet, Stutters DEF SendRetune
<1>6. CASE ReconcileOff
  BY <1>6, Quiet, Stutters DEF ReconcileOff, Close
<1>7. CASE CloseStore
  <2>1. CASE Close("exit")
    BY <1>7, <2>1, Quiet, Stutters DEF CloseStore, Close
  <2>2. CASE current = 0 /\ ProcessEnds /\ UNCHANGED <<fresh, opened, fileVars, lost>>
    <3>1. writer = "done" /\ writer' = "done"
      BY <2>2 DEF WriterInv, ProcessEnds
    <3> QED
      BY <2>2, <3>1, Stutters DEF Pending
  <2> QED
    BY <1>7, <2>1, <2>2 DEF CloseStore
<1>8. CASE CloseReturns
  <2>1. writer = "done" /\ writer' = "done" /\ UNCHANGED <<fresh, table, last>>
    BY <1>8 DEF CloseReturns, ProcessEnds
  <2> QED
    BY <2>1, Stutters DEF Pending
<1>9. CASE PruneByAge
  <2>1. Pending' = Pending
    BY <1>9, Quiet DEF PruneByAge
  <2>2. CASE UNCHANGED table
    BY <1>9, <2>1, <2>2, Stutters DEF PruneByAge
  <2>3. CASE ~UNCHANGED table
    <3> DEFINE kept == {j \in DOMAIN table : Stamp[table[j]] >= now - tuning.retention}
    <3>1. table' = [i \in kept |-> table[i]] /\ kept \subseteq DOMAIN table
      BY <1>9, <2>3 DEF PruneByAge
    <3> QED
      BY <1>9, <2>1, <3>1, PruningRefines DEF PruneByAge
  <2> QED
    BY <2>2, <2>3
<1>10. CASE PruneByRows
  <2>1. Pending' = Pending
    BY <1>10, Quiet DEF PruneByRows
  <2>2. CASE UNCHANGED table
    BY <1>10, <2>1, <2>2, Stutters DEF PruneByRows
  <2>3. CASE ~UNCHANGED table
    <3> DEFINE kept == DOMAIN table \ Excess(DOMAIN table, tuning.maxRows)
    <3>1. table' = [i \in kept |-> table[i]] /\ kept \subseteq DOMAIN table
      BY <1>10, <2>3 DEF PruneByRows
    <3> QED
      BY <1>10, <2>1, <3>1, PruningRefines DEF PruneByRows
  <2> QED
    BY <2>2, <2>3
<1>11. CASE Receive
  BY <1>11, TakingRefines DEF Receive
<1>12. CASE FlushTick
  BY <1>12, Quiet, Stutters DEF FlushTick
<1>13. CASE Retune
  BY <1>13, Quiet, Stutters DEF Retune
<1>14. CASE PruneTick
  BY <1>14, Quiet, Stutters DEF PruneTick
<1>15. CASE Done
  BY <1>15, Quiet, Stutters DEF Done
<1>16. CASE BeginInsert
  <2>1. CASE Forget("loop")
    BY <1>16, <2>1, BatchGivenUp DEF BeginInsert, Forget, FlushReturns, WriterInv
  <2>2. CASE ~Forget("loop")
    BY <1>16, <2>2, Quiet, Stutters DEF BeginInsert
  <2> QED
    BY <2>1, <2>2
<1>17. CASE CommitInsert
  <2>1. writer # "done" /\ batch # <<>> /\ UNCHANGED <<channel, opened, fresh>>
    BY <1>17 DEF CommitInsert, WriterInv
  <2>2. CASE Forget("loop")
    BY <2>1, <2>2, BatchGivenUp DEF Forget, FlushReturns
  <2>3. CASE Insert("loop")
    BY <2>1, <2>3, BatchWritten
  <2> QED
    BY <1>17, <2>2, <2>3 DEF CommitInsert
<1>18. CASE Drain
  <2>1. CASE channel[opened] # <<>>
    BY <1>18, <2>1, TakingRefines DEF Drain
  <2>2. CASE channel[opened] = <<>>
    BY <1>18, <2>2, Quiet, Stutters DEF Drain
  <2> QED
    BY <2>1, <2>2
<1>19. CASE FinalFlush
  <2>1. writer # "done" /\ UNCHANGED <<channel, opened, fresh>>
    BY <1>19 DEF FinalFlush
  <2>2. CASE batch = <<>>
    BY <1>19, <2>2, Quiet, Stutters DEF FinalFlush
  <2>3. CASE batch # <<>> /\ Forget("return")
    BY <2>1, <2>3, BatchGivenUp DEF Forget, FlushReturns
  <2>4. CASE batch # <<>> /\ Insert("return")
    BY <2>1, <2>4, BatchWritten
  <2> QED
    BY <1>19, <2>2, <2>3, <2>4 DEF FinalFlush
<1>20. CASE Return
  <2>1. Pending' = <<>> /\ UNCHANGED <<fresh, table, last>>
    BY <1>20 DEF Return, Pending
  <2> QED
    BY <2>1, OfPending, GivesUpAll
<1>21. CASE Boot
  <2>1. writer = "done" /\ UNCHANGED <<channel, fresh, table, last>>
    BY <1>21 DEF Boot, WriterInv
  <2>2. CASE \E t \in Tuning : Open(t)
    BY <2>1, <2>2, OpeningRefines
  <2>3. CASE ~\E t \in Tuning : Open(t)
    BY <1>21, <2>1, <2>3, Quiet, Stutters DEF Boot
  <2> QED
    BY <2>2, <2>3
<1>22. CASE StopEngine
  BY <1>22, Quiet, Stutters DEF StopEngine
<1>23. CASE Crash
  <2>1. Pending' = <<>> /\ UNCHANGED <<fresh, table, last>>
    BY <1>23 DEF Crash, Pending, ProcessEnds
  <2> QED
    BY <2>1, OfPending, GivesUpAll
<1>24. CASE Tick
  BY <1>24, Quiet, Stutters DEF Tick
<1>25. CASE UNCHANGED vars
  BY <1>25, Quiet, Stutters DEF vars
<1> QED
    BY <1>1, <1>2, <1>3, <1>4, <1>5, <1>6, <1>7, <1>8, <1>9, <1>10, <1>11,
     <1>12, <1>13, <1>14, <1>15, <1>16, <1>17, <1>18, <1>19, <1>20, <1>21,
     <1>22, <1>23, <1>24, <1>25 DEF Next

\* The table's ids are finitely many numbers.
LEMMA FiniteTable ==
    ASSUME TableTyped
    PROVE  /\ IsFiniteSet(DOMAIN table) /\ DOMAIN table \in SUBSET Nat
           /\ Cardinality(DOMAIN table) \in Nat
<1>1. DOMAIN table \in SUBSET (1..last) /\ DOMAIN table \in SUBSET Nat /\ last \in Nat
  BY DEF TableTyped
<1>2. IsFiniteSet(1..last)
  BY <1>1, FS_Interval
<1>3. IsFiniteSet(DOMAIN table)
  BY <1>1, <1>2, FS_Subset
<1> QED
  BY <1>1, <1>3, FS_CardinalityType

\* Deleting rows keeps the bound.
LEMMA FewerRows ==
    ASSUME TableTyped, RowsBounded, DOMAIN table' \in SUBSET DOMAIN table, UNCHANGED room
    PROVE  RowsBounded'
<1>1. IsFiniteSet(DOMAIN table)
  BY FiniteTable
<1>2. IsFiniteSet(DOMAIN table') /\ Cardinality(DOMAIN table') <= Cardinality(DOMAIN table)
  BY <1>1, FS_Subset
<1>3. Cardinality(DOMAIN table') \in Nat /\ Cardinality(DOMAIN table) \in Nat
  BY <1>1, <1>2, FS_CardinalityType
<1> QED
  BY <1>2, <1>3 DEF RowsBounded, TableTyped

\* prune's second statement leaves at most maxRows ids: DELETE ... WHERE id <=
\* (SELECT id ... ORDER BY id DESC LIMIT 1 OFFSET maxRows).
LEMMA CapHolds ==
    ASSUME NEW ids \in SUBSET Nat, IsFiniteSet(ids), NEW maxRows \in Nat
    PROVE  Cardinality(ids \ Excess(ids, maxRows)) <= maxRows
<1> DEFINE kept == ids \ Excess(ids, maxRows)
<1>1. ASSUME NEW t \in ids, NEW i \in kept, Cardinality({j \in ids : j > t}) = maxRows
      PROVE  i > t
  <2>1. ~(i <= t)
    BY <1>1 DEF Excess
  <2>2. i \in Nat /\ t \in Nat
    OBVIOUS
  <2> QED
    BY <2>1, <2>2
<1>2. kept \in SUBSET ids
  OBVIOUS
<1> HIDE DEF kept
<1>3. Cardinality(kept) <= maxRows
  BY <1>1, <1>2, NewestLeft
<1> QED
  BY <1>3 DEF kept

\* A batch adds no more rows than the bound grows by.
LEMMA RowsAdded ==
    ASSUME TableTyped, FlowTyped, RowsBounded, NEW at, Insert(at)
    PROVE  RowsBounded'
<1> DEFINE new == (last + 1)..(last + Len(batch))
<1>1. Len(batch) \in Nat /\ last \in Nat /\ room \in Nat
  BY DEF FlowTyped, TableTyped
<1>2. DOMAIN table' = DOMAIN table \cup new /\ room' = room + Len(batch)
  BY DEF Insert
<1>3. IsFiniteSet(new) /\ Cardinality(new) = Len(batch)
  <2>1. \A a, b \in Int : /\ IsFiniteSet(a..b)
                          /\ Cardinality(a..b) = IF a > b THEN 0 ELSE b - a + 1
    BY FS_Interval
  <2>2. PICK a, b \in Int : a = last + 1 /\ b = last + Len(batch)
    BY <1>1
  <2>3. new = a..b
    BY <2>2
  <2>4. (a > b /\ Len(batch) = 0) \/ (~(a > b) /\ Len(batch) = b - a + 1)
    BY <1>1, <2>2
  <2>5. IsFiniteSet(a..b) /\ Cardinality(a..b) = Len(batch)
    BY <2>1, <2>4
  <2> QED
    BY <2>3, <2>5
<1>4. IsFiniteSet(DOMAIN table)
  BY FiniteTable
<1> HIDE DEF new
<1>5. IsFiniteSet(DOMAIN table \cap new)
  BY <1>4, FS_Intersection
<1>6. Cardinality(DOMAIN table \cup new)
        = Cardinality(DOMAIN table) + Cardinality(new) - Cardinality(DOMAIN table \cap new)
  BY <1>3, <1>4, FS_Union
<1>7. Cardinality(DOMAIN table) \in Nat /\ Cardinality(DOMAIN table \cap new) \in Nat
  BY <1>4, <1>5, FS_CardinalityType
<1> QED
  BY <1>1, <1>2, <1>3, <1>6, <1>7 DEF RowsBounded

\* A step keeps the bound: only prune and the inserts touch the table.
LEMMA RowsStep ==
    ASSUME TableTyped, FlowTyped, TuningTyped, RowsBounded, [Next]_vars
    PROVE  RowsBounded'
<1> USE DEF fileVars, Writing, ProcessEnds
<1>0. ASSUME UNCHANGED <<table, room>> PROVE RowsBounded'
  BY <1>0 DEF RowsBounded
<1>1. ASSUME NEW e \in Entry, Record(e) PROVE RowsBounded'
  BY <1>1, <1>0 DEF Record
<1>2. CASE Reload
  BY <1>0, <1>2 DEF Reload
<1>3. ASSUME NEW t \in Tuning, ReconcileOpen(t) PROVE RowsBounded'
  BY <1>0, <1>3 DEF ReconcileOpen
<1>4. ASSUME NEW t \in Tuning, SetTuning(t) PROVE RowsBounded'
  BY <1>0, <1>4 DEF SetTuning
<1>5. CASE SendRetune
  BY <1>0, <1>5 DEF SendRetune
<1>6. CASE ReconcileOff
  BY <1>0, <1>6 DEF ReconcileOff, Close
<1>7. CASE CloseStore
  BY <1>0, <1>7 DEF CloseStore, Close
<1>8. CASE CloseReturns
  BY <1>0, <1>8 DEF CloseReturns
<1>9. CASE PruneByAge
  <2>1. DOMAIN table' \in SUBSET DOMAIN table /\ UNCHANGED room
    BY <1>9 DEF PruneByAge
  <2> QED
    BY <2>1, FewerRows
<1>10. CASE PruneByRows
  <2>1. CASE UNCHANGED <<table, room>>
    BY <1>0, <2>1
  <2>2. CASE /\ table' = [i \in DOMAIN table \ Excess(DOMAIN table, tuning.maxRows)
                            |-> table[i]]
             /\ room' = tuning.maxRows
    <3>1. DOMAIN table' = DOMAIN table \ Excess(DOMAIN table, tuning.maxRows)
      BY <2>2
    <3>2. tuning.maxRows \in Nat
      BY StoreAssumption DEF TuningTyped, NoTuning
    <3>3. Cardinality(DOMAIN table \ Excess(DOMAIN table, tuning.maxRows)) <= tuning.maxRows
      BY <3>2, FiniteTable, CapHolds
    <3> QED
      BY <2>2, <3>1, <3>3 DEF RowsBounded
  <2> QED
    BY <1>10, <2>1, <2>2 DEF PruneByRows
<1>11. CASE Receive
  BY <1>0, <1>11 DEF Receive
<1>12. CASE FlushTick
  BY <1>0, <1>12 DEF FlushTick
<1>13. CASE Retune
  BY <1>0, <1>13 DEF Retune
<1>14. CASE PruneTick
  BY <1>0, <1>14 DEF PruneTick
<1>15. CASE Done
  BY <1>0, <1>15 DEF Done
<1>16. CASE BeginInsert
  BY <1>0, <1>16 DEF BeginInsert, Forget
<1>17. CASE CommitInsert
  <2>1. CASE Insert("loop")
    BY <2>1, RowsAdded
  <2>2. CASE UNCHANGED fileVars
    BY <1>0, <2>2
  <2> QED
    BY <1>17, <2>1, <2>2 DEF CommitInsert, Forget
<1>18. CASE Drain
  BY <1>0, <1>18 DEF Drain
<1>19. CASE FinalFlush
  <2>1. CASE Insert("return")
    BY <2>1, RowsAdded
  <2>2. CASE UNCHANGED fileVars
    BY <1>0, <2>2
  <2> QED
    BY <1>19, <2>1, <2>2 DEF FinalFlush, Forget
<1>20. CASE Return
  BY <1>0, <1>20 DEF Return
<1>21. CASE Boot
  BY <1>0, <1>21 DEF Boot
<1>22. CASE StopEngine
  BY <1>0, <1>22 DEF StopEngine
<1>23. CASE Crash
  BY <1>0, <1>23 DEF Crash
<1>24. CASE Tick
  BY <1>0, <1>24 DEF Tick
<1>25. CASE UNCHANGED vars
  BY <1>0, <1>25 DEF vars
<1> QED
  BY <1>1, <1>2, <1>3, <1>4, <1>5, <1>6, <1>7, <1>8, <1>9, <1>10, <1>11,
     <1>12, <1>13, <1>14, <1>15, <1>16, <1>17, <1>18, <1>19, <1>20, <1>21,
     <1>22, <1>23, <1>24, <1>25 DEF Next

\* The first state is well typed: no store, no process, an empty table.
LEMMA StartsTyped == Init => TypeOK
<1> SUFFICES ASSUME Init PROVE TypeOK
  OBVIOUS
<1> USE DEF Init
<1>1. FlowTyped
  BY Empty, Bounds DEF FlowTyped
<1>2. EntriesTyped /\ SignalsTyped /\ TuningTyped /\ CountersTyped /\ DroppedTyped
  BY DEF EntriesTyped, SignalsTyped, TuningTyped, CountersTyped, DroppedTyped
<1>3. LifeTyped
  BY Bounds DEF LifeTyped, WriterAt, LifeAt
<1>4. TableTyped
  BY DEF TableTyped
<1> QED
  BY <1>1, <1>2, <1>3, <1>4 DEF TypeOK

\* Every step keeps the types, one part after the other.
LEMMA KeepsTyped == TypeOK /\ [Next]_vars => TypeOK'
<1> SUFFICES ASSUME TypeOK, [Next]_vars PROVE TypeOK'
  OBVIOUS
<1>1. /\ FlowTyped /\ EntriesTyped /\ LifeTyped /\ SignalsTyped /\ TuningTyped
      /\ CountersTyped /\ DroppedTyped /\ TableTyped
  BY DEF TypeOK
<1>2. FlowTyped' /\ EntriesTyped' /\ LifeTyped' /\ SignalsTyped'
  BY <1>1, FlowStep, EntriesStep, LifeStep, SignalsStep
<1>3. TuningTyped' /\ CountersTyped' /\ DroppedTyped' /\ TableTyped'
  BY <1>1, TuningStep, CountersStep, DroppedStep, TableStep
<1> QED
  BY <1>2, <1>3 DEF TypeOK

\* In every reachable state every variable of the query log's store has its type:
\* the channel never holds more than Record may put there, the handler never
\* holds a store that was not opened, and no row has an id beyond the sequence.
THEOREM StoreTyped == Spec => []TypeOK
BY StartsTyped, KeepsTyped, PTL DEF Spec

\* The strengthening holds from the start on.
LEMMA WriterKept == Spec => []WriterInv
<1>1. Init => WriterInv
  BY DEF Init, WriterInv
<1>2. TypeOK /\ WriterInv /\ [Next]_vars => WriterInv'
  <2> SUFFICES ASSUME TypeOK, WriterInv, [Next]_vars PROVE WriterInv'
    OBVIOUS
  <2>1. FlowTyped /\ LifeTyped
    BY DEF TypeOK
  <2> QED
    BY <2>1, WriterStep
<1> QED
  BY <1>1, <1>2, StoreTyped, PTL DEF Spec

\* A flush interval that was set reaches the ticker: whenever the goroutine's
\* ticker is armed with another interval, SetTuning's signal is buffered or about
\* to be sent, whatever runs in between.
THEOREM TuningArrives == Spec => []TuningReachesTicker
<1>1. Init => TuningReachesTicker
  BY DEF Init, TuningReachesTicker
<1>2. TuningReachesTicker /\ [Next]_vars => TuningReachesTicker'
  BY TuningReachesStep
<1> QED
  BY <1>1, <1>2, PTL DEF Spec

\* The table stays bounded: in every reachable state it holds at most the row cap
\* of the last prune that worked and what was written since, whatever was tuned,
\* failed, closed or restarted in between.
THEOREM RowsStayBounded == Spec => []RowsBounded
<1>1. Init => RowsBounded
  <2> SUFFICES ASSUME Init PROVE RowsBounded
    OBVIOUS
  <2>1. DOMAIN table = {} /\ room = 0
    BY DEF Init
  <2>2. Cardinality(DOMAIN table) = 0
    BY <2>1, FS_EmptySet, Zenon
  <2> QED
    BY <2>1, <2>2 DEF RowsBounded
<1>2. TypeOK /\ RowsBounded /\ [Next]_vars => RowsBounded'
  <2> SUFFICES ASSUME TypeOK, RowsBounded, [Next]_vars PROVE RowsBounded'
    OBVIOUS
  <2>1. TableTyped /\ FlowTyped /\ TuningTyped
    BY DEF TypeOK
  <2> QED
    BY <2>1, RowsStep
<1> QED
  BY <1>1, <1>2, StoreTyped, PTL DEF Spec

\* The store implements what DurableLog promises of it: entries are accepted
\* once, reach the table in order and under ids of their own or are given up in
\* order, and rows never return - across full channels, failing statements,
\* cancelled contexts, closes, reopens and crashes.
THEOREM StoreImplements == Spec => ImplementsSafe
<1>1. Init => Promise!Init
  BY DEF Init, Promise!Init, Pending
<1>2. TypeOK /\ WriterInv /\ [Next]_vars => [Promise!Next]_(Promise!vars)
  <2> SUFFICES ASSUME TypeOK, WriterInv, [Next]_vars
               PROVE  [Promise!Next]_(Promise!vars)
    OBVIOUS
  <2>1. FlowTyped /\ LifeTyped /\ TableTyped
    BY DEF TypeOK
  <2> QED
    BY <2>1, PromiseStep
<1> QED
  BY <1>1, <1>2, StoreTyped, WriterKept, PTL DEF Spec, ImplementsSafe, Promise!Safe

=============================================================================
