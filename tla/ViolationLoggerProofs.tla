------------------------ MODULE ViolationLoggerProofs ------------------------
(***************************************************************************)
(* Theorems about the violation logger, for any number of cameras, calls,  *)
(* limits and retries.  The argument: types first; then which thread holds *)
(* the database and the batch; then what the calls in progress have not    *)
(* yet done; from these, every record and every call is accounted for, the *)
(* flush is a barrier, and each step is a step of the ledger or none.      *)
(***************************************************************************)
EXTENDS ViolationLogger, SequenceTheorems, TLAPS

-----------------------------------------------------------------------------
(* Types.                                                                  *)

(* What one call builds is a record.                                       *)
LEMMA ReportType ==
  ASSUME NEW c \in Cameras, NEW a \in Actors, NEW t \in Calls
  PROVE  Report(c, a, t) \in QueuedViolation
BY DEF Report, QueuedViolation

(* Folding a record into another gives a record of the same event.         *)
LEMMA CoalescedType ==
  ASSUME NEW r \in QueuedViolation, NEW e \in QueuedViolation
  PROVE  /\ Coalesced(r, e) \in QueuedViolation
         /\ Coalesced(r, e).calls = r.calls \cup e.calls
BY DEF Coalesced, QueuedViolation

(* The queue without its first element is a shorter sequence.              *)
LEMMA TailType ==
  ASSUME NEW s \in Seq(QueuedViolation), s # <<>>
  PROVE  /\ Tail(s) \in Seq(QueuedViolation)
         /\ Head(s) \in QueuedViolation
         /\ Len(Tail(s)) = Len(s) - 1
BY HeadTailProperties

(* A sequence split at n.                                                  *)
LEMMA Split ==
  ASSUME NEW s \in Seq(QueuedViolation), NEW n \in 0 .. Len(s)
  PROVE  /\ SubSeq(s, 1, n) \in Seq(QueuedViolation)
         /\ SubSeq(s, n + 1, Len(s)) \in Seq(QueuedViolation)
         /\ Len(SubSeq(s, 1, n)) = n
         /\ Len(SubSeq(s, n + 1, Len(s))) = Len(s) - n
         /\ SubSeq(s, 1, n) \o SubSeq(s, n + 1, Len(s)) = s
<1>1. Len(s) \in Nat /\ \A i \in 1 .. Len(s) : s[i] \in QueuedViolation
  BY LenProperties, ElementOfSeq
<1>2. SubSeq(s, 1, n) \in Seq(QueuedViolation) /\ Len(SubSeq(s, 1, n)) = n
  BY <1>1, SubSeqProperties
<1>3. /\ SubSeq(s, n + 1, Len(s)) \in Seq(QueuedViolation)
      /\ Len(SubSeq(s, n + 1, Len(s))) = Len(s) - n
  BY <1>1, SubSeqProperties
<1>4. SubSeq(s, 1, n) \o SubSeq(s, n + 1, Len(s)) = SubSeq(s, 1, Len(s))
  <2>1. /\ 1 \in 1 .. Len(s) + 1 /\ n \in 1 - 1 .. Len(s)
        /\ Len(s) \in n .. Len(s)
    BY <1>1
  <2> QED BY <2>1, ConcatAdjacentSubSeq
<1>5. SubSeq(s, 1, Len(s)) = s
  BY SubSeqFull
<1> QED BY <1>2, <1>3, <1>4, <1>5

(* The writer's batch: never empty, never more than is queued.             *)
LEMMA BatchSize ==
  ASSUME NEW s \in Seq(QueuedViolation), s # <<>>,
         NEW b \in Nat, b >= 1
  PROVE  (IF b < Len(s) THEN b ELSE Len(s)) \in 1 .. Len(s)
<1>1. Len(s) \in Nat \ {0}
  BY EmptySeq
<1> QED BY <1>1

(* The counters stay counters.                                             *)
LEMMA MetricTypes ==
  ASSUME NEW m \in Metrics, NEW n \in Nat, NEW d \in Nat
  PROVE  /\ [m EXCEPT !.coalesced = @ + n] \in Metrics
         /\ [m EXCEPT !.written = @ + n] \in Metrics
         /\ [m EXCEPT !.dropped = d, !.enqueued = @ + n] \in Metrics
<1>1. /\ m.enqueued + n \in Nat /\ m.written + n \in Nat
      /\ m.coalesced + n \in Nat
  BY DEF Metrics
<1>2. [m EXCEPT !.coalesced = m.coalesced + n] \in Metrics
  BY <1>1 DEF Metrics
<1>3. [m EXCEPT !.written = m.written + n] \in Metrics
  BY <1>1 DEF Metrics
<1>4. [m EXCEPT !.dropped = d, !.enqueued = m.enqueued + n] \in Metrics
  BY <1>1 DEF Metrics
<1> QED BY <1>2, <1>3, <1>4

LEMMA TypeInit == Init => TypeOK
<1> SUFFICES ASSUME Init PROVE TypeOK
  OBVIOUS
<1>1. <<>> \in Seq(QueuedViolation)
  BY EmptySeq
<1>2. clock \in 0 .. MaxCalls /\ accepted \subseteq Calls
  BY EventAssumption DEF Init
<1>3. /\ limits \in [queue: Nat, batch: Nat, retries: Nat]
      /\ limits.queue >= QueueFloor /\ limits.batch >= 1
  BY LoggerAssumption DEF Init
<1>4. metric \in Metrics
  BY DEF Init, Metrics
<1>5. caller \in [Cameras -> QueuedViolation \cup {Idle}]
  BY DEF Init
<1> QED BY <1>1, <1>2, <1>3, <1>4, <1>5 DEF Init, TypeOK

LEMMA TypeStep == TypeOK /\ [Next]_vars => TypeOK'
<1> SUFFICES ASSUME TypeOK, [Next]_vars PROVE TypeOK'
  OBVIOUS
<1> USE EventAssumption, LoggerAssumption
<1>1. CASE InitFails
  BY <1>1 DEF InitFails, TypeOK, dbVars, writerVars, threads, history
<1>2. CASE InitOpens
  BY <1>2 DEF InitOpens, TypeOK, writerVars, threads, history
<1>3. CASE InitRelockHangs
  BY <1>3 DEF InitRelockHangs, TypeOK, dbVars, writerVars, threads, history
<1>4. CASE InitReturns
  BY <1>4 DEF InitReturns, TypeOK, threads, history
<1>5. ASSUME NEW c \in Cameras, NEW a \in Actors, LogViolation(c, a)
      PROVE  TypeOK'
  <2>1. clock + 1 \in Calls /\ clock' \in 0 .. MaxCalls
    BY <1>5 DEF LogViolation, TypeOK, Calls
  <2>2. caller' \in [Cameras -> QueuedViolation \cup {Idle}]
    BY <1>5, <2>1, ReportType DEF LogViolation, TypeOK
  <2> QED BY <1>5, <2>1, <2>2
          DEF LogViolation, TypeOK, dbVars, writerVars
<1>6. ASSUME NEW c \in Cameras, Coalesce(c)
      PROVE  TypeOK'
  <2>1. caller[c] \in QueuedViolation
    BY <1>6 DEF Coalesce, TypeOK
  <2>2. queue # <<>>
    BY <1>6 DEF Coalesce, Coalesces
  <2>3. Len(queue) \in 1 .. Len(queue) /\ queue[Len(queue)] \in QueuedViolation
    BY <2>2, EmptySeq, ElementOfSeq DEF TypeOK
  <2>4. queue' \in Seq(QueuedViolation)
    BY <1>6, <2>1, <2>3, CoalescedType, ExceptSeq DEF Coalesce, TypeOK
  <2>5. accepted' \subseteq Calls
    BY <1>6, <2>1 DEF Coalesce, TypeOK, QueuedViolation
  <2>6. metric' \in Metrics
    BY <1>6, MetricTypes DEF Coalesce, TypeOK
  <2>7. caller' \in [Cameras -> QueuedViolation \cup {Idle}]
    BY <1>6 DEF Coalesce, TypeOK
  <2> QED BY <1>6, <2>4, <2>5, <2>6, <2>7
          DEF Coalesce, TypeOK, dbVars, writerVars
<1>7. ASSUME NEW c \in Cameras, Enqueue(c)
      PROVE  TypeOK'
  <2>1. caller[c] \in QueuedViolation
    BY <1>7 DEF Enqueue, TypeOK
  <2>2. Full => queue # <<>>
    BY EmptySeq DEF Full, TypeOK
  <2>3. queue' \in Seq(QueuedViolation) /\ displaced' \in Seq(QueuedViolation)
    BY <1>7, <2>1, <2>2, TailType, AppendProperties DEF Enqueue, TypeOK
  <2>4. accepted' \subseteq Calls
    BY <1>7, <2>1 DEF Enqueue, TypeOK, QueuedViolation
  <2>5. (IF Full THEN metric.dropped + 1 ELSE metric.dropped) \in Nat
    BY DEF TypeOK, Metrics
  <2>6. metric' \in Metrics
    BY <1>7, <2>5, MetricTypes DEF Enqueue, TypeOK
  <2>7. caller' \in [Cameras -> QueuedViolation \cup {Idle}]
    BY <1>7 DEF Enqueue, TypeOK
  <2> QED BY <1>7, <2>3, <2>4, <2>6, <2>7
          DEF Enqueue, TypeOK, dbVars, writerVars
<1>8. CASE WriterLoops
  BY <1>8 DEF WriterLoops, TypeOK, dbVars, threads, history
<1>9. CASE WriterFindsNothing
  BY <1>9 DEF WriterFindsNothing, TypeOK, dbVars, threads, history
<1>10. CASE WriterTakesBatch
  <2>1. PICK n \in 1 .. Len(queue) : batch' = Taken(n) /\ queue' = Left(n)
    BY <1>10, BatchSize DEF WriterTakesBatch, TypeOK
  <2>2. batch' \in Seq(QueuedViolation) /\ queue' \in Seq(QueuedViolation)
    BY <2>1, Split, LenProperties DEF Taken, Left, TypeOK
  <2> QED BY <1>10, <2>2
          DEF WriterTakesBatch, TypeOK, dbVars, threads, history
<1>11. CASE WriterLocksDatabase
  BY <1>11 DEF WriterLocksDatabase, TypeOK, threads, history
<1>12. CASE AttemptCommits
  <2>1. rows' \in Seq(QueuedViolation) /\ Len(batch) \in Nat
    BY <1>12, ConcatProperties, LenProperties DEF AttemptCommits, TypeOK
  <2>2. metric' \in Metrics /\ batch' \in Seq(QueuedViolation)
    BY <1>12, <2>1, EmptySeq, MetricTypes DEF AttemptCommits, TypeOK
  <2> QED BY <1>12, <2>1, <2>2
          DEF AttemptCommits, TypeOK, threads, history
<1>13. CASE AttemptRetries
  BY <1>13 DEF AttemptRetries, RolledBack, NextAttempt, TypeOK, threads,
               history
<1>14. CASE AttemptGivesUp
  <2>1. abandoned' \in Seq(QueuedViolation) /\ batch' \in Seq(QueuedViolation)
    BY <1>14, ConcatProperties, EmptySeq DEF AttemptGivesUp, TypeOK
  <2> QED BY <1>14, <2>1 DEF AttemptGivesUp, TypeOK, threads
<1>15. CASE WriterSettles
  BY <1>15 DEF WriterSettles, TypeOK, dbVars, threads, history
<1>16. CASE FlushCalled
  BY <1>16 DEF FlushCalled, TypeOK, dbVars, writerVars, history
<1>17. CASE FlushReturns
  BY <1>17 DEF FlushReturns, TypeOK, dbVars, writerVars, history
<1>18. ASSUME NEW q \in QueueRequests, NEW b \in BatchRequests,
              SetQueueLimits(q, b)
       PROVE  TypeOK'
  <2>1. /\ AtLeast(QueueFloor, q) \in Nat
        /\ AtLeast(QueueFloor, q) >= QueueFloor
        /\ AtLeast(1, b) \in Nat /\ AtLeast(1, b) >= 1
    BY DEF AtLeast
  <2>2. /\ limits' \in [queue: Nat, batch: Nat, retries: Nat]
        /\ limits'.queue >= QueueFloor /\ limits'.batch >= 1
    BY <1>18, <2>1 DEF SetQueueLimits, TypeOK
  <2> QED BY <1>18, <2>2 DEF SetQueueLimits, TypeOK, dbVars, writerVars,
                             threads, history
<1>19. ASSUME NEW r \in RetryRequests, SetRetryPolicy(r)
       PROVE  TypeOK'
  <2>1. AtLeast(0, r) \in Nat
    BY DEF AtLeast
  <2>2. /\ limits' \in [queue: Nat, batch: Nat, retries: Nat]
        /\ limits'.queue >= QueueFloor /\ limits'.batch >= 1
    BY <1>19, <2>1 DEF SetRetryPolicy, TypeOK
  <2> QED BY <1>19, <2>2 DEF SetRetryPolicy, TypeOK, dbVars, writerVars,
                             history
<1>20. CASE SetBusyTimeout
  BY <1>20 DEF SetBusyTimeout, TypeOK, dbVars, writerVars, history
<1>21. CASE OtherConnection
  BY <1>21 DEF OtherConnection, TypeOK, writerVars, threads, history
<1>22. CASE DestructorStops
  BY <1>22 DEF DestructorStops, TypeOK, dbVars, threads, history
<1>23. CASE DestructorCloses
  BY <1>23 DEF DestructorCloses, TypeOK, writerVars, threads, history
<1>24. CASE UNCHANGED vars
  BY <1>24 DEF vars, TypeOK, dbVars, writerVars, threads, history
<1> QED BY <1>1, <1>2, <1>3, <1>4, <1>5, <1>6, <1>7, <1>8, <1>9, <1>10, <1>11,
           <1>12, <1>13, <1>14, <1>15, <1>16, <1>17, <1>18, <1>19, <1>20,
           <1>21, <1>22, <1>23, <1>24 DEF Next, Writer

(* Every variable keeps its type, and the limits their floors, whatever    *)
(* the setters are asked for.                                              *)
THEOREM TypeCorrect == Spec => []TypeOK
<1> QED BY TypeInit, TypeStep, PTL DEF Spec

-----------------------------------------------------------------------------
(* Who holds the database and the batch.                                   *)

(* DatabaseDiscipline is not inductive: it says nothing of a writer that   *)
(* runs before init returned or after the destructor closed the database.  *)
WriterLife ==
  /\ owner \in {"created", "cleanup", "hung", "failed", "destroyed"} =>
       writer \in {"none", "exited"}
  /\ owner \in {"cleanup", "hung"} => dbOpen

DBInv == TypeOK /\ DatabaseDiscipline /\ WriterLife

(* What the writer takes is not empty and leaves the rest of the queue.    *)
LEMMA BatchTaken ==
  ASSUME TypeOK, WriterTakesBatch
  PROVE  /\ batch' # <<>>
         /\ batch' \in Seq(QueuedViolation) /\ queue' \in Seq(QueuedViolation)
         /\ batch' \o queue' = queue
         /\ Len(batch') + Len(queue') = Len(queue)
<1>1. PICK n \in 1 .. Len(queue) : batch' = Taken(n) /\ queue' = Left(n)
  BY BatchSize DEF WriterTakesBatch, TypeOK
<1>2. /\ n \in 0 .. Len(queue) /\ Len(queue) \in Nat
      /\ queue \in Seq(QueuedViolation)
  BY LenProperties DEF TypeOK
<1>3. /\ batch' \in Seq(QueuedViolation) /\ queue' \in Seq(QueuedViolation)
      /\ Len(batch') = n /\ Len(queue') = Len(queue) - n
      /\ batch' \o queue' = queue
  BY <1>1, <1>2, Split DEF Taken, Left
<1>4. batch' # <<>>
  BY <1>3, EmptySeq
<1> QED BY <1>2, <1>3, <1>4

LEMMA DBStep == DBInv /\ [Next]_vars => DatabaseDiscipline' /\ WriterLife'
<1> SUFFICES ASSUME DBInv, [Next]_vars
             PROVE  DatabaseDiscipline' /\ WriterLife'
  OBVIOUS
<1> USE DEF DBInv, DatabaseDiscipline, WriterLife
<1>1. CASE InitFails
  BY <1>1 DEF InitFails, writerVars
<1>2. CASE InitOpens
  BY <1>2 DEF InitOpens, writerVars
<1>3. CASE InitRelockHangs
  BY <1>3 DEF InitRelockHangs, dbVars, writerVars
<1>4. CASE InitReturns
  BY <1>4 DEF InitReturns
<1>5. CASE \E c \in Cameras, a \in Actors : LogViolation(c, a)
  BY <1>5 DEF LogViolation, dbVars, writerVars
<1>6. CASE \E c \in Cameras : Coalesce(c) \/ Enqueue(c)
  BY <1>6 DEF Coalesce, Enqueue, dbVars, writerVars
<1>7. CASE WriterLoops
  BY <1>7 DEF WriterLoops, dbVars
<1>8. CASE WriterFindsNothing
  BY <1>8 DEF WriterFindsNothing, dbVars
<1>9. CASE WriterTakesBatch
  BY <1>9, BatchTaken DEF WriterTakesBatch, dbVars
<1>10. CASE WriterLocksDatabase
  BY <1>10 DEF WriterLocksDatabase, TypeOK
<1>11. CASE AttemptCommits \/ AttemptGivesUp
  BY <1>11 DEF AttemptCommits, AttemptGivesUp
<1>12. CASE AttemptRetries
  BY <1>12 DEF AttemptRetries
<1>13. CASE WriterSettles
  BY <1>13 DEF WriterSettles, dbVars
<1>14. CASE \/ FlushCalled \/ FlushReturns
            \/ \E q \in QueueRequests, b \in BatchRequests :
               SetQueueLimits(q, b)
            \/ \E r \in RetryRequests : SetRetryPolicy(r)
            \/ SetBusyTimeout
  BY <1>14 DEF FlushCalled, FlushReturns, SetQueueLimits, SetRetryPolicy,
               SetBusyTimeout, dbVars, writerVars
<1>15. CASE OtherConnection
  BY <1>15 DEF OtherConnection, writerVars
<1>16. CASE DestructorStops
  BY <1>16 DEF DestructorStops, dbVars
<1>17. CASE DestructorCloses
  BY <1>17 DEF DestructorCloses, Joined, writerVars
<1>18. CASE UNCHANGED vars
  BY <1>18 DEF vars, dbVars, writerVars
<1> QED BY <1>1, <1>2, <1>3, <1>4, <1>5, <1>6, <1>7, <1>8, <1>9, <1>10, <1>11,
           <1>12, <1>13, <1>14, <1>15, <1>16, <1>17, <1>18 DEF Next, Writer

LEMMA DBInvariant == Spec => []DBInv
<1>1. Init => DBInv
  BY TypeInit DEF Init, DBInv, DatabaseDiscipline, WriterLife
<1>2. DBInv /\ [Next]_vars => DBInv'
  BY TypeStep, DBStep DEF DBInv
<1> QED BY <1>1, <1>2, PTL DEF Spec

(* No call ever meets a closed database between init and the destructor,   *)
(* one thread at a time uses the connection, and writer_busy_ is up        *)
(* whenever a batch is in flight.                                          *)
THEOREM DatabaseIsDisciplined == Spec => []DatabaseDiscipline
<1>1. DBInv => DatabaseDiscipline
  BY DEF DBInv
<1> QED BY <1>1, DBInvariant, PTL

-----------------------------------------------------------------------------
(* Every record is accounted for.                                          *)

(* The two ways a call changes the queue, by length.                       *)
LEMMA FoldLength ==
  ASSUME TypeOK, NEW c \in Cameras, Coalesce(c)
  PROVE  Len(queue') = Len(queue)
<1>1. /\ caller[c] \in QueuedViolation /\ queue # <<>>
      /\ queue \in Seq(QueuedViolation)
  BY DEF Coalesce, Coalesces, TypeOK
<1>2. Len(queue) \in 1 .. Len(queue)
  BY <1>1, EmptySeq
<1>3. queue[Len(queue)] \in QueuedViolation
  BY <1>1, <1>2, ElementOfSeq
<1> QED BY <1>1, <1>2, <1>3, CoalescedType, ExceptSeq DEF Coalesce

LEMMA EnqueueLength ==
  ASSUME TypeOK, NEW c \in Cameras, Enqueue(c)
  PROVE  /\ Full => queue # <<>> /\ Len(queue') = Len(queue)
         /\ ~Full => Len(queue') = Len(queue) + 1
<1>1. caller[c] \in QueuedViolation /\ queue \in Seq(QueuedViolation)
  BY DEF Enqueue, TypeOK
<1>2. CASE Full
  <2>1. queue # <<>>
    BY <1>1, <1>2, EmptySeq, LoggerAssumption DEF Full, TypeOK
  <2> QED BY <1>1, <1>2, <2>1, TailType, AppendProperties DEF Enqueue
<1>3. CASE ~Full
  BY <1>1, <1>3, AppendProperties DEF Enqueue
<1> QED BY <1>2, <1>3

LEMMA RecordsStep ==
  DBInv /\ RecordsAccountedFor /\ [Next]_vars => RecordsAccountedFor'
<1> SUFFICES ASSUME DBInv, RecordsAccountedFor, [Next]_vars
             PROVE  RecordsAccountedFor'
  OBVIOUS
<1>a. /\ queue \in Seq(QueuedViolation) /\ batch \in Seq(QueuedViolation)
      /\ rows \in Seq(QueuedViolation) /\ displaced \in Seq(QueuedViolation)
      /\ abandoned \in Seq(QueuedViolation)
  BY DEF DBInv, TypeOK
<1>n. /\ Len(queue) \in Nat /\ Len(batch) \in Nat /\ Len(rows) \in Nat
      /\ Len(displaced) \in Nat /\ Len(abandoned) \in Nat
  BY <1>a, LenProperties
<1>b. /\ metric \in Metrics
      /\ metric.enqueued \in Nat /\ metric.written \in Nat
      /\ metric.dropped \in Nat
  BY DEF DBInv, TypeOK, Metrics
<1> DEFINE e == metric.enqueued  w == metric.written  d == metric.dropped
           a == Len(abandoned)   b == Len(batch)      q == Len(queue)
<1>v. /\ e \in Nat /\ w \in Nat /\ d \in Nat /\ a \in Nat /\ b \in Nat
      /\ q \in Nat /\ e = w + d + a + b + q
  BY <1>n, <1>b DEF RecordsAccountedFor
<1>w. w = Len(rows) /\ d = Len(displaced)
  BY DEF RecordsAccountedFor
<1>x. ASSUME e' = w' + d' + a' + b' + q', w' = Len(rows'), d' = Len(displaced')
      PROVE  RecordsAccountedFor'
  BY <1>x DEF RecordsAccountedFor
<1>1. ASSUME UNCHANGED <<rows, queue, batch, metric, displaced, abandoned>>
      PROVE  RecordsAccountedFor'
  BY <1>1 DEF RecordsAccountedFor
<1>2. CASE InitFails \/ InitOpens \/ InitRelockHangs \/ InitReturns
  BY <1>1, <1>2 DEF InitFails, InitOpens, InitRelockHangs, InitReturns, dbVars,
                    writerVars, history
<1>3. CASE \E c \in Cameras, o \in Actors : LogViolation(c, o)
  BY <1>1, <1>3 DEF LogViolation, dbVars, writerVars
<1>4. ASSUME NEW c \in Cameras, Coalesce(c)
      PROVE  RecordsAccountedFor'
  <2>4. Len(queue') = Len(queue)
    BY <1>4, FoldLength DEF DBInv
  <2>5. e' = e /\ w' = w /\ d' = d
    BY <1>4, <1>b DEF Coalesce, Metrics
  <2>6. rows' = rows /\ displaced' = displaced /\ a' = a /\ b' = b
    BY <1>4 DEF Coalesce, dbVars, writerVars
  <2>7. e' = w' + d' + a' + b' + q'
    <3>1. q' = q
      BY <2>4
    <3> HIDE DEF e, w, d, a, b, q
    <3> QED BY <1>v, <2>5, <2>6, <3>1
  <2> QED BY <2>5, <2>6, <2>7, <1>w, <1>x
<1>5. ASSUME NEW c \in Cameras, Enqueue(c)
      PROVE  RecordsAccountedFor'
  <2>2. rows' = rows /\ b' = b /\ a' = a
    BY <1>5 DEF Enqueue, dbVars, writerVars
  <2>3. e' = e + 1 /\ w' = w
    BY <1>5, <1>b DEF Enqueue, Metrics
  <2>4. CASE Full
    <3>2. q' = q /\ Len(displaced') = Len(displaced) + 1
      BY <1>5, <2>4, <1>a, EnqueueLength, TailType, AppendProperties
      DEF DBInv, Enqueue
    <3>3. d' = d + 1
      BY <1>5, <2>4, <1>b DEF Enqueue, Metrics
    <3>4. e' = w' + d' + a' + b' + q'
      <4> HIDE DEF e, w, d, a, b, q
      <4> QED BY <1>v, <2>2, <2>3, <3>2, <3>3
    <3>5. d' = Len(displaced')
      BY <1>w, <3>2, <3>3
    <3>6. w' = Len(rows')
      BY <1>w, <2>2, <2>3
    <3> QED BY <3>4, <3>5, <3>6, <1>x
  <2>5. CASE ~Full
    <3>1. q' = q + 1 /\ displaced' = displaced
      BY <1>5, <2>5, EnqueueLength DEF DBInv, Enqueue
    <3>2. d' = d
      BY <1>5, <2>5, <1>b DEF Enqueue, Metrics
    <3>3. e' = w' + d' + a' + b' + q'
      <4> HIDE DEF e, w, d, a, b, q
      <4> QED BY <1>v, <2>2, <2>3, <3>1, <3>2
    <3> QED BY <2>2, <2>3, <3>1, <3>2, <3>3, <1>w, <1>x
  <2> QED BY <2>4, <2>5
<1>6. CASE \/ WriterLoops \/ WriterFindsNothing \/ WriterLocksDatabase
           \/ WriterSettles
  BY <1>1, <1>6 DEF WriterLoops, WriterFindsNothing, WriterLocksDatabase,
                    WriterSettles, dbVars, history
<1>7. CASE WriterTakesBatch
  <2>1. batch = <<>>
    BY <1>7 DEF WriterTakesBatch, DBInv, DatabaseDiscipline
  <2>2. b = 0 /\ b' \in Nat /\ q' \in Nat
    BY <1>7, <2>1, BatchTaken, EmptySeq, LenProperties DEF DBInv
  <2>3. b + q = b' + q'
    BY <1>7, <1>n, <2>2, BatchTaken DEF DBInv
  <2>4. e' = e /\ w' = w /\ d' = d /\ a' = a /\ UNCHANGED <<rows, displaced>>
    BY <1>7 DEF WriterTakesBatch, dbVars, history
  <2>5. e' = w' + d' + a' + b' + q'
    <3> HIDE DEF e, w, d, a, b, q
    <3> QED BY <1>v, <2>2, <2>3, <2>4
  <2> QED BY <2>4, <2>5, <1>w, <1>x
<1>8. CASE AttemptCommits
  <2>1. Len(rows') = Len(rows) + Len(batch) /\ b' = 0
    BY <1>8, <1>a, ConcatProperties, EmptySeq DEF AttemptCommits
  <2>2. w' = w + b /\ e' = e /\ d' = d
    BY <1>8, <1>b DEF AttemptCommits, Metrics
  <2>3. q' = q /\ a' = a /\ displaced' = displaced
    BY <1>8 DEF AttemptCommits, history
  <2>4. e' = w' + d' + a' + b' + q'
    <3> HIDE DEF e, w, d, a, b, q
    <3> QED BY <1>v, <2>1, <2>2, <2>3
  <2> QED BY <2>1, <2>2, <2>3, <2>4, <1>w, <1>x
<1>9. CASE AttemptRetries
  BY <1>1, <1>9 DEF AttemptRetries, RolledBack, history
<1>10. CASE AttemptGivesUp
  <2>1. a' = a + b /\ b' = 0
    BY <1>10, <1>a, ConcatProperties, EmptySeq DEF AttemptGivesUp
  <2>2. /\ e' = e /\ w' = w /\ d' = d /\ q' = q
        /\ UNCHANGED <<rows, displaced>>
    BY <1>10 DEF AttemptGivesUp
  <2>3. e' = w' + d' + a' + b' + q'
    <3> HIDE DEF e, w, d, a, b, q
    <3> QED BY <1>v, <2>1, <2>2
  <2> QED BY <2>2, <2>3, <1>w, <1>x
<1>11. CASE \/ FlushCalled \/ FlushReturns
            \/ \E n \in QueueRequests, m \in BatchRequests :
               SetQueueLimits(n, m)
            \/ \E r \in RetryRequests : SetRetryPolicy(r)
            \/ SetBusyTimeout
  BY <1>1, <1>11 DEF FlushCalled, FlushReturns, SetQueueLimits, SetRetryPolicy,
                     SetBusyTimeout, dbVars, writerVars, history
<1>12. CASE OtherConnection \/ DestructorStops \/ DestructorCloses
  BY <1>1, <1>12 DEF OtherConnection, DestructorStops, DestructorCloses,
                     dbVars, writerVars, history
<1>13. CASE UNCHANGED vars
  BY <1>1, <1>13 DEF vars, dbVars, writerVars, history
<1> HIDE DEF e, w, d, a, b, q
<1> QED BY <1>2, <1>3, <1>4, <1>5, <1>6, <1>7, <1>8, <1>9, <1>10, <1>11, <1>12,
           <1>13 DEF Next, Writer

(* Every record counted as enqueued is queued, in flight, stored, dropped  *)
(* or given up, and the counters agree with the table, in every state of   *)
(* every interleaving.                                                     *)
THEOREM NoRecordDisappears == Spec => []RecordsAccountedFor
<1>1. Init => RecordsAccountedFor
  BY EmptySeq DEF Init, RecordsAccountedFor
<1>2. DBInv /\ RecordsAccountedFor /\ [Next]_vars => RecordsAccountedFor'
  BY RecordsStep
<1> QED BY <1>1, <1>2, DBInvariant, PTL DEF Spec

-----------------------------------------------------------------------------
(* Backpressure.                                                           *)

LEMMA BoundStep ==
  DBInv /\ [Next]_vars =>
    (Len(queue') > Len(queue) => Len(queue') <= limits.queue)
<1> SUFFICES ASSUME DBInv, [Next]_vars, Len(queue') > Len(queue)
             PROVE  Len(queue') <= limits.queue
  OBVIOUS
<1>a. /\ queue \in Seq(QueuedViolation) /\ Len(queue) \in Nat
      /\ limits.queue \in Nat
  BY LenProperties DEF DBInv, TypeOK
<1>1. ASSUME queue' = queue PROVE FALSE
  BY <1>1, <1>a
<1>2. ASSUME NEW c \in Cameras, Coalesce(c) PROVE FALSE
  <2>1. Len(queue') = Len(queue)
    BY <1>2, FoldLength DEF DBInv
  <2> QED BY <2>1, <1>a
<1>3. ASSUME NEW c \in Cameras, Enqueue(c) PROVE Len(queue') <= limits.queue
  <2>1. CASE Full
    <3>1. Len(queue') = Len(queue)
      BY <1>3, <2>1, EnqueueLength DEF DBInv
    <3> QED BY <3>1, <1>a
  <2>2. CASE ~Full
    <3>1. Len(queue') = Len(queue) + 1
      BY <1>3, <2>2, EnqueueLength DEF DBInv
    <3>2. Len(queue) < limits.queue
      BY <2>2, <1>a DEF Full
    <3> QED BY <3>1, <3>2, <1>a
  <2> QED BY <2>1, <2>2
<1>4. CASE WriterTakesBatch
  <2>1. /\ Len(batch') \in Nat /\ Len(queue') \in Nat
        /\ Len(batch') + Len(queue') = Len(queue)
    BY <1>4, BatchTaken, LenProperties DEF DBInv
  <2> QED BY <2>1, <1>a
<1>5. CASE \/ InitFails \/ InitOpens \/ InitRelockHangs \/ InitReturns
           \/ \E c \in Cameras, a \in Actors : LogViolation(c, a)
  BY <1>1, <1>5 DEF InitFails, InitOpens, InitRelockHangs, InitReturns,
                    LogViolation
<1>6. CASE \/ WriterLoops \/ WriterFindsNothing \/ WriterLocksDatabase
           \/ AttemptCommits \/ AttemptRetries \/ AttemptGivesUp
           \/ WriterSettles
  BY <1>1, <1>6 DEF WriterLoops, WriterFindsNothing, WriterLocksDatabase,
                    AttemptCommits, AttemptRetries, AttemptGivesUp,
                    WriterSettles
<1>7. CASE \/ FlushCalled \/ FlushReturns
           \/ \E q \in QueueRequests, b \in BatchRequests :
               SetQueueLimits(q, b)
           \/ \E r \in RetryRequests : SetRetryPolicy(r)
           \/ SetBusyTimeout
  BY <1>1, <1>7 DEF FlushCalled, FlushReturns, SetQueueLimits, SetRetryPolicy,
                    SetBusyTimeout
<1>8. CASE OtherConnection \/ DestructorStops \/ DestructorCloses
  BY <1>1, <1>8 DEF OtherConnection, DestructorStops, DestructorCloses
<1>9. CASE UNCHANGED vars
  BY <1>1, <1>9 DEF vars
<1> QED BY <1>2, <1>3, <1>4, <1>5, <1>6, <1>7, <1>8, <1>9 DEF Next, Writer

(* Whatever set_queue_limits did while records were queued, a call that    *)
(* makes the queue longer leaves it within the limit in force.             *)
THEOREM QueueIsBounded == Spec => QueueStaysBounded
<1>1. DBInv /\ [Next]_vars =>
        [Len(queue') > Len(queue) => Len(queue') <= limits.queue]_vars
  BY BoundStep
<1> QED BY <1>1, DBInvariant, PTL DEF Spec, QueueStaysBounded

-----------------------------------------------------------------------------
(* Every call is accounted for, and flush is a barrier.                    *)

(* The calls behind a concatenation.                                       *)
LEMMA CallsOfConcat ==
  ASSUME NEW s \in Seq(QueuedViolation), NEW u \in Seq(QueuedViolation)
  PROVE  CallsOf(s \o u) = CallsOf(s) \cup CallsOf(u)
<1>1. /\ DOMAIN s = 1 .. Len(s) /\ DOMAIN u = 1 .. Len(u)
      /\ Len(s) \in Nat /\ Len(u) \in Nat
  BY LenProperties
<1>2. /\ s \o u \in Seq(QueuedViolation) /\ Len(s \o u) = Len(s) + Len(u)
      /\ DOMAIN (s \o u) = 1 .. Len(s) + Len(u)
      /\ \A i \in 1 .. Len(s) + Len(u) :
           (s \o u)[i] = IF i <= Len(s) THEN s[i] ELSE u[i - Len(s)]
  BY ConcatProperties, LenProperties
<1>3. ASSUME NEW t, t \in CallsOf(s \o u)
      PROVE  t \in CallsOf(s) \cup CallsOf(u)
  <2>1. PICK i \in 1 .. Len(s) + Len(u) : t \in (s \o u)[i].calls
    BY <1>2, <1>3 DEF CallsOf
  <2>2. CASE i <= Len(s)
    BY <1>1, <1>2, <2>1, <2>2 DEF CallsOf
  <2>3. CASE ~(i <= Len(s))
    <3>1. i - Len(s) \in 1 .. Len(u) /\ t \in u[i - Len(s)].calls
      BY <1>1, <1>2, <2>1, <2>3
    <3> QED BY <1>1, <3>1 DEF CallsOf
  <2> QED BY <2>2, <2>3
<1>4. ASSUME NEW t, t \in CallsOf(s) PROVE t \in CallsOf(s \o u)
  <2>1. PICK i \in 1 .. Len(s) : t \in s[i].calls
    BY <1>1, <1>4 DEF CallsOf
  <2>2. i \in 1 .. Len(s) + Len(u) /\ t \in (s \o u)[i].calls
    BY <1>1, <1>2, <2>1
  <2> QED BY <1>2, <2>2 DEF CallsOf
<1>5. ASSUME NEW t, t \in CallsOf(u) PROVE t \in CallsOf(s \o u)
  <2>1. PICK i \in 1 .. Len(u) : t \in u[i].calls
    BY <1>1, <1>5 DEF CallsOf
  <2>2. /\ i + Len(s) \in 1 .. Len(s) + Len(u) /\ ~(i + Len(s) <= Len(s))
        /\ (i + Len(s)) - Len(s) = i
    BY <1>1, <2>1
  <2>3. t \in (s \o u)[i + Len(s)].calls
    BY <1>2, <2>1, <2>2
  <2> QED BY <1>2, <2>2, <2>3 DEF CallsOf
<1> QED BY <1>3, <1>4, <1>5

(* The calls behind no record and behind one.                              *)
LEMMA CallsOfOne ==
  /\ CallsOf(<<>>) = {}
  /\ \A r : CallsOf(<<r>>) = r.calls
<1>1. CallsOf(<<>>) = {}
  BY DEF CallsOf
<1>2. ASSUME NEW r PROVE CallsOf(<<r>>) = r.calls
  <2>1. DOMAIN <<r>> = {1} /\ <<r>>[1] = r
    OBVIOUS
  <2> QED BY <2>1 DEF CallsOf
<1> QED BY <1>1, <1>2

(* Appending a record adds the calls behind it.                            *)
LEMMA CallsOfAppend ==
  ASSUME NEW s \in Seq(QueuedViolation), NEW r \in QueuedViolation
  PROVE  CallsOf(Append(s, r)) = CallsOf(s) \cup r.calls
<1>1. Append(s, r) = s \o <<r>> /\ <<r>> \in Seq(QueuedViolation)
  BY AppendIsConcat, AppendProperties
<1> QED BY <1>1, CallsOfConcat, CallsOfOne

(* Removing the first record removes at most the calls behind it.          *)
LEMMA CallsOfTail ==
  ASSUME NEW s \in Seq(QueuedViolation), s # <<>>
  PROVE  CallsOf(s) = Head(s).calls \cup CallsOf(Tail(s))
<1>1. s = <<Head(s)>> \o Tail(s) /\ Head(s) \in QueuedViolation
      /\ Tail(s) \in Seq(QueuedViolation)
  BY HeadTailProperties
<1>2. <<Head(s)>> \in Seq(QueuedViolation)
  BY <1>1
<1> QED BY <1>1, <1>2, CallsOfConcat, CallsOfOne

(* Folding a record into the last one adds the calls behind it.            *)
LEMMA CallsOfFold ==
  ASSUME NEW s \in Seq(QueuedViolation), s # <<>>, NEW r \in QueuedViolation
  PROVE  CallsOf([s EXCEPT ![Len(s)] = Coalesced(@, r)])
           = CallsOf(s) \cup r.calls
<1> DEFINE f == [s EXCEPT ![Len(s)] = Coalesced(@, r)]
<1>1. Len(s) \in 1 .. Len(s) /\ DOMAIN s = 1 .. Len(s)
  BY EmptySeq, LenProperties
<1>2. s[Len(s)] \in QueuedViolation
  BY <1>1, ElementOfSeq
<1>3. /\ DOMAIN f = DOMAIN s
      /\ f[Len(s)].calls = s[Len(s)].calls \cup r.calls
      /\ \A i \in DOMAIN s : i # Len(s) => f[i] = s[i]
  BY <1>1, <1>2 DEF Coalesced, QueuedViolation
<1> HIDE DEF f
<1>4. CallsOf(f) = CallsOf(s) \cup r.calls
  BY <1>1, <1>3 DEF CallsOf
<1> QED BY <1>4 DEF f

(* A call that returned true is stored, displaced, abandoned, in the       *)
(* writer's batch or in the queue, and nothing else is.                    *)
CallsAccountedFor ==
  accepted = settled \cup CallsOf(batch) \cup CallsOf(queue)

LEMMA CallsStep ==
  DBInv /\ CallsAccountedFor /\ [Next]_vars => CallsAccountedFor'
<1> SUFFICES ASSUME DBInv, CallsAccountedFor, [Next]_vars
             PROVE  CallsAccountedFor'
  OBVIOUS
<1> USE DEF CallsAccountedFor, settled
<1>a. /\ queue \in Seq(QueuedViolation) /\ batch \in Seq(QueuedViolation)
      /\ rows \in Seq(QueuedViolation) /\ displaced \in Seq(QueuedViolation)
      /\ abandoned \in Seq(QueuedViolation)
  BY DEF DBInv, TypeOK
<1>1. ASSUME UNCHANGED <<rows, queue, batch, accepted, displaced, abandoned>>
      PROVE  CallsAccountedFor'
  BY <1>1
<1>2. CASE InitFails \/ InitOpens \/ InitRelockHangs \/ InitReturns
  BY <1>1, <1>2 DEF InitFails, InitOpens, InitRelockHangs, InitReturns, dbVars,
                    writerVars, history
<1>3. CASE \E c \in Cameras, a \in Actors : LogViolation(c, a)
  BY <1>1, <1>3 DEF LogViolation, dbVars, writerVars
<1>4. ASSUME NEW c \in Cameras, Coalesce(c)
      PROVE  CallsAccountedFor'
  <2>1. caller[c] \in QueuedViolation /\ queue # <<>>
    BY <1>4 DEF Coalesce, Coalesces, DBInv, TypeOK
  <2>2. CallsOf(queue') = CallsOf(queue) \cup caller[c].calls
    BY <1>4, <2>1, <1>a, CallsOfFold DEF Coalesce
  <2> QED BY <1>4, <2>2 DEF Coalesce, dbVars, writerVars
<1>5. ASSUME NEW c \in Cameras, Enqueue(c)
      PROVE  CallsAccountedFor'
  <2>1. caller[c] \in QueuedViolation
    BY <1>5 DEF Enqueue, DBInv, TypeOK
  <2>2. /\ UNCHANGED <<rows, batch, abandoned>>
        /\ accepted' = accepted \cup caller[c].calls
    BY <1>5 DEF Enqueue, dbVars, writerVars
  <2>3. CASE Full
    <3>1. /\ queue # <<>> /\ queue' = Append(Tail(queue), caller[c])
          /\ displaced' = Append(displaced, Head(queue))
      BY <1>5, <2>3, EnqueueLength DEF DBInv, Enqueue
    <3>2. /\ Tail(queue) \in Seq(QueuedViolation)
          /\ Head(queue) \in QueuedViolation
      BY <3>1, <1>a, TailType
    <3>3. CallsOf(queue') = CallsOf(Tail(queue)) \cup caller[c].calls
      BY <3>1, <3>2, <2>1, CallsOfAppend
    <3>4. CallsOf(displaced') = CallsOf(displaced) \cup Head(queue).calls
      BY <3>1, <3>2, <1>a, CallsOfAppend
    <3>5. CallsOf(queue) = Head(queue).calls \cup CallsOf(Tail(queue))
      BY <3>1, <1>a, CallsOfTail
    <3> QED BY <2>2, <3>3, <3>4, <3>5
  <2>4. CASE ~Full
    <3>1. CallsOf(queue') = CallsOf(queue) \cup caller[c].calls
      BY <1>5, <2>1, <2>4, <1>a, CallsOfAppend DEF Enqueue
    <3>2. displaced' = displaced
      BY <1>5, <2>4 DEF Enqueue
    <3> QED BY <2>2, <3>1, <3>2
  <2> QED BY <2>3, <2>4
<1>6. CASE \/ WriterLoops \/ WriterFindsNothing \/ WriterLocksDatabase
           \/ WriterSettles
  BY <1>1, <1>6 DEF WriterLoops, WriterFindsNothing, WriterLocksDatabase,
                    WriterSettles, dbVars, history
<1>7. CASE WriterTakesBatch
  <2>1. batch = <<>>
    BY <1>7 DEF WriterTakesBatch, DBInv, DatabaseDiscipline
  <2>2. CallsOf(batch) = {}
    BY <2>1, CallsOfOne
  <2>3. CallsOf(queue) = CallsOf(batch') \cup CallsOf(queue')
    BY <1>7, BatchTaken, CallsOfConcat DEF DBInv
  <2> QED BY <1>7, <2>2, <2>3 DEF WriterTakesBatch, dbVars, history
<1>8. CASE AttemptCommits
  <2>1. CallsOf(rows') = CallsOf(rows) \cup CallsOf(batch)
    BY <1>8, <1>a, CallsOfConcat DEF AttemptCommits
  <2>2. CallsOf(batch') = {}
    BY <1>8, CallsOfOne DEF AttemptCommits
  <2> QED BY <1>8, <2>1, <2>2 DEF AttemptCommits, history
<1>9. CASE AttemptRetries
  BY <1>1, <1>9 DEF AttemptRetries, RolledBack, history
<1>10. CASE AttemptGivesUp
  <2>1. CallsOf(abandoned') = CallsOf(abandoned) \cup CallsOf(batch)
    BY <1>10, <1>a, CallsOfConcat DEF AttemptGivesUp
  <2>2. CallsOf(batch') = {}
    BY <1>10, CallsOfOne DEF AttemptGivesUp
  <2> QED BY <1>10, <2>1, <2>2 DEF AttemptGivesUp
<1>11. CASE \/ FlushCalled \/ FlushReturns
            \/ \E q \in QueueRequests, b \in BatchRequests :
               SetQueueLimits(q, b)
            \/ \E r \in RetryRequests : SetRetryPolicy(r)
            \/ SetBusyTimeout
  BY <1>1, <1>11 DEF FlushCalled, FlushReturns, SetQueueLimits, SetRetryPolicy,
                     SetBusyTimeout, dbVars, writerVars, history
<1>12. CASE OtherConnection \/ DestructorStops \/ DestructorCloses
  BY <1>1, <1>12 DEF OtherConnection, DestructorStops, DestructorCloses,
                     dbVars, writerVars, history
<1>13. CASE UNCHANGED vars
  BY <1>1, <1>13 DEF vars, dbVars, writerVars, history
<1> QED BY <1>2, <1>3, <1>4, <1>5, <1>6, <1>7, <1>8, <1>9, <1>10, <1>11, <1>12,
           <1>13 DEF Next, Writer

LEMMA CallsInvariant == Spec => []CallsAccountedFor
<1>1. Init => CallsAccountedFor
  BY CallsOfOne DEF Init, CallsAccountedFor, settled
<1>2. DBInv /\ CallsAccountedFor /\ [Next]_vars => CallsAccountedFor'
  BY CallsStep
<1> QED BY <1>1, <1>2, DBInvariant, PTL DEF Spec

LEMMA FlushStep ==
  DBInv /\ CallsAccountedFor /\ [Next]_vars =>
    (flusher = "waiting" /\ flusher' = "flushed" => accepted = settled)
<1> SUFFICES ASSUME DBInv, CallsAccountedFor, [Next]_vars,
                    flusher = "waiting", flusher' = "flushed"
             PROVE  accepted = settled
  OBVIOUS
<1>1. ASSUME flusher' = flusher PROVE FALSE
  BY <1>1
<1>2. CASE FlushReturns
  <2>1. queue = <<>> /\ ~writerBusy
    BY <1>2 DEF FlushReturns, Quiet
  <2>2. batch = <<>>
    BY <2>1 DEF DBInv, DatabaseDiscipline
  <2> QED BY <2>1, <2>2, CallsOfOne DEF CallsAccountedFor
<1>3. CASE \/ InitFails \/ InitOpens \/ InitRelockHangs \/ InitReturns
           \/ \E c \in Cameras, a \in Actors : LogViolation(c, a)
           \/ \E c \in Cameras : Coalesce(c) \/ Enqueue(c)
  BY <1>1, <1>3 DEF InitFails, InitOpens, InitRelockHangs, InitReturns,
                    LogViolation, Coalesce, Enqueue, threads
<1>4. CASE Writer
  BY <1>1, <1>4 DEF Writer, WriterLoops, WriterFindsNothing, WriterTakesBatch,
                    WriterLocksDatabase, AttemptCommits, AttemptRetries,
                    AttemptGivesUp, WriterSettles, threads
<1>5. CASE \/ FlushCalled
           \/ \E q \in QueueRequests, b \in BatchRequests :
               SetQueueLimits(q, b)
           \/ \E r \in RetryRequests : SetRetryPolicy(r)
           \/ SetBusyTimeout
  BY <1>1, <1>5 DEF FlushCalled, SetQueueLimits, SetRetryPolicy,
                    SetBusyTimeout, threads
<1>6. CASE OtherConnection \/ DestructorStops \/ DestructorCloses
  BY <1>1, <1>6 DEF OtherConnection, DestructorStops, DestructorCloses, threads
<1>7. CASE UNCHANGED vars
  BY <1>1, <1>7 DEF vars, threads
<1> QED BY <1>2, <1>3, <1>4, <1>5, <1>6, <1>7 DEF Next

(* A flush that returns true leaves no accepted call in the queue or in a  *)
(* batch.  It rests on writer_busy_ being up for as long as the writer     *)
(* holds a batch (DatabaseDiscipline) and on the account of the calls.     *)
THEOREM FlushWaitsForAll == Spec => FlushIsABarrier
<1>1. DBInv /\ CallsAccountedFor /\ [Next]_vars =>
        [flusher = "waiting" /\ flusher' = "flushed" =>
           accepted = settled]_vars
  BY FlushStep
<1> QED BY <1>1, DBInvariant, CallsInvariant, PTL DEF Spec, FlushIsABarrier

-----------------------------------------------------------------------------
(* The line of records, and what the steps do to it.                       *)

(* Each call of a later record of a camera is later than each call of an   *)
(* earlier one.                                                            *)
Ordered(s) ==
  \A i, j \in DOMAIN s :
    i < j /\ s[i].camera = s[j].camera =>
      \A t \in s[i].calls, u \in s[j].calls : t < u

(* Every call of camera c behind a record of s was begun before t.         *)
Before(s, c, t) ==
  \A i \in DOMAIN s : s[i].camera = c => \A u \in s[i].calls : u < t

(* Where an element of a concatenation comes from.                         *)
LEMMA ElementsOfConcat ==
  ASSUME NEW s \in Seq(QueuedViolation), NEW u \in Seq(QueuedViolation)
  PROVE  /\ DOMAIN s = 1 .. Len(s) /\ DOMAIN u = 1 .. Len(u)
         /\ Len(s) \in Nat /\ Len(u) \in Nat
         /\ s \o u \in Seq(QueuedViolation) /\ Len(s \o u) = Len(s) + Len(u)
         /\ DOMAIN (s \o u) = 1 .. Len(s) + Len(u)
         /\ \A i \in 1 .. Len(s) + Len(u) :
              (s \o u)[i] = IF i <= Len(s) THEN s[i] ELSE u[i - Len(s)]
<1>1. /\ DOMAIN s = 1 .. Len(s) /\ DOMAIN u = 1 .. Len(u)
      /\ Len(s) \in Nat /\ Len(u) \in Nat
  BY LenProperties
<1>2. /\ s \o u \in Seq(QueuedViolation) /\ Len(s \o u) = Len(s) + Len(u)
      /\ \A i \in 1 .. Len(s) + Len(u) :
           (s \o u)[i] = IF i <= Len(s) THEN s[i] ELSE u[i - Len(s)]
  BY ConcatProperties
<1>3. DOMAIN (s \o u) = 1 .. Len(s) + Len(u)
  BY <1>2, LenProperties
<1> QED BY <1>1, <1>2, <1>3

(* A run of records taken out of the line moves every later record up, and *)
(* no record past another.                                                 *)
LEMMA DropMoves ==
  ASSUME NEW s \in Seq(QueuedViolation), NEW m \in Seq(QueuedViolation),
         NEW u \in Seq(QueuedViolation)
  PROVE  /\ s \o u \in Seq(QueuedViolation)
         /\ (s \o m) \o u \in Seq(QueuedViolation)
         /\ \A i \in DOMAIN (s \o u) :
              LET k == IF i <= Len(s) THEN i ELSE i + Len(m)
              IN  /\ k \in DOMAIN ((s \o m) \o u)
                  /\ ((s \o m) \o u)[k] = (s \o u)[i]
<1> DEFINE sm == s \o m
<1>1. /\ Len(s) \in Nat /\ Len(m) \in Nat /\ Len(u) \in Nat
      /\ sm \in Seq(QueuedViolation) /\ Len(sm) = Len(s) + Len(m)
      /\ \A i \in 1 .. Len(s) + Len(m) :
           sm[i] = IF i <= Len(s) THEN s[i] ELSE m[i - Len(s)]
  BY ElementsOfConcat
<1> HIDE DEF sm
<1>2. /\ sm \o u \in Seq(QueuedViolation)
      /\ DOMAIN (sm \o u) = 1 .. Len(s) + Len(m) + Len(u)
      /\ \A i \in 1 .. Len(s) + Len(m) + Len(u) :
           (sm \o u)[i] = IF i <= Len(s) + Len(m)
                            THEN sm[i] ELSE u[i - (Len(s) + Len(m))]
  <2>1. /\ sm \o u \in Seq(QueuedViolation)
        /\ DOMAIN (sm \o u) = 1 .. Len(sm) + Len(u)
        /\ \A i \in 1 .. Len(sm) + Len(u) :
             (sm \o u)[i] = IF i <= Len(sm) THEN sm[i] ELSE u[i - Len(sm)]
    BY <1>1, ElementsOfConcat
  <2> QED BY <2>1, <1>1, Zenon
<1>3. /\ s \o u \in Seq(QueuedViolation)
      /\ DOMAIN (s \o u) = 1 .. Len(s) + Len(u)
      /\ \A i \in 1 .. Len(s) + Len(u) :
           (s \o u)[i] = IF i <= Len(s) THEN s[i] ELSE u[i - Len(s)]
  BY ElementsOfConcat
<1>4. ASSUME NEW i \in DOMAIN (s \o u), NEW k,
             k = IF i <= Len(s) THEN i ELSE i + Len(m)
      PROVE  k \in DOMAIN (sm \o u) /\ (sm \o u)[k] = (s \o u)[i]
  <2>0. i \in 1 .. Len(s) + Len(u)
    BY <1>3
  <2>1. CASE i <= Len(s)
    <3>1. k = i /\ k \in 1 .. Len(s) + Len(m) /\ k <= Len(s)
          /\ k \in 1 .. Len(s) + Len(m) + Len(u) /\ k <= Len(s) + Len(m)
      BY <1>1, <1>4, <2>0, <2>1
    <3> QED BY <1>1, <1>2, <1>3, <2>0, <2>1, <3>1
  <2>2. CASE ~(i <= Len(s))
    <3>1. /\ k \in 1 .. Len(s) + Len(m) + Len(u)
          /\ ~(k <= Len(s) + Len(m))
          /\ k - (Len(s) + Len(m)) = i - Len(s)
      BY <1>1, <1>4, <2>0, <2>2
    <3> QED BY <1>2, <1>3, <2>0, <2>2, <3>1
  <2> QED BY <2>1, <2>2
<1> QED BY <1>2, <1>3, <1>4 DEF sm

LEMMA DropKeepsOrder ==
  ASSUME NEW s \in Seq(QueuedViolation), NEW m \in Seq(QueuedViolation),
         NEW u \in Seq(QueuedViolation)
  PROVE  /\ Ordered((s \o m) \o u) => Ordered(s \o u)
         /\ \A c, t : Before((s \o m) \o u, c, t) => Before(s \o u, c, t)
<1> DEFINE long == (s \o m) \o u
           short == s \o u
           Old(i) == IF i <= Len(s) THEN i ELSE i + Len(m)
<1>1. /\ \A i \in DOMAIN short :
           Old(i) \in DOMAIN long /\ long[Old(i)] = short[i]
      /\ DOMAIN short = 1 .. Len(s) + Len(u)
      /\ Len(s) \in Nat /\ Len(m) \in Nat /\ Len(u) \in Nat
  BY DropMoves, ElementsOfConcat, LenProperties
<1>2. \A i, j \in DOMAIN short : i < j => Old(i) < Old(j)
  BY <1>1
<1> HIDE DEF long, short, Old
<1>3. Ordered(long) => Ordered(short)
  BY <1>1, <1>2 DEF Ordered
<1>4. \A c, t : Before(long, c, t) => Before(short, c, t)
  BY <1>1 DEF Before
<1> QED BY <1>3, <1>4 DEF long, short

(* A record later than the line goes to its end.                           *)
LEMMA AppendKeepsOrder ==
  ASSUME NEW s \in Seq(QueuedViolation), NEW r \in QueuedViolation,
         Ordered(s), Before(s, r.camera, r.timestamp),
         r.calls = {r.timestamp}
  PROVE  Ordered(Append(s, r))
<1> DEFINE a == Append(s, r)
<1>1. /\ DOMAIN s = 1 .. Len(s) /\ Len(s) \in Nat
      /\ DOMAIN a = 1 .. Len(s) + 1
      /\ \A i \in 1 .. Len(s) : a[i] = s[i]
      /\ a[Len(s) + 1] = r
  BY AppendProperties, LenProperties
<1> HIDE DEF a
<1> SUFFICES ASSUME NEW i \in DOMAIN a, NEW j \in DOMAIN a,
                    i < j, a[i].camera = a[j].camera,
                    NEW t \in a[i].calls, NEW u \in a[j].calls
             PROVE  t < u
  BY DEF Ordered, a
<1>2. i \in 1 .. Len(s) /\ a[i] = s[i]
  BY <1>1
<1>3. CASE j = Len(s) + 1
  <2>1. a[j] = r /\ u = r.timestamp
    BY <1>1, <1>3
  <2> QED BY <1>1, <1>2, <2>1 DEF Before
<1>4. CASE j # Len(s) + 1
  <2>1. j \in 1 .. Len(s) /\ a[j] = s[j]
    BY <1>1, <1>4
  <2> QED BY <1>1, <1>2, <2>1 DEF Ordered
<1> QED BY <1>3, <1>4

LEMMA AppendKeepsBefore ==
  ASSUME NEW s \in Seq(QueuedViolation), NEW r \in QueuedViolation,
         NEW c, NEW t, Before(s, c, t),
         r.camera = c => \A u \in r.calls : u < t
  PROVE  Before(Append(s, r), c, t)
<1> DEFINE a == Append(s, r)
<1>1. /\ DOMAIN s = 1 .. Len(s) /\ Len(s) \in Nat
      /\ DOMAIN a = 1 .. Len(s) + 1
      /\ \A i \in 1 .. Len(s) : a[i] = s[i]
      /\ a[Len(s) + 1] = r
  BY AppendProperties, LenProperties
<1> HIDE DEF a
<1>2. \A i \in DOMAIN a : i \in 1 .. Len(s) \/ i = Len(s) + 1
  BY <1>1
<1> QED BY <1>1, <1>2 DEF Before, a

(* A record of the same event folded into the last one.                    *)
Folded(s, r) == [s EXCEPT ![Len(s)] = Coalesced(@, r)]

LEMMA FoldedFields ==
  ASSUME NEW s \in Seq(QueuedViolation), s # <<>>, NEW r \in QueuedViolation,
         SameEvent(s[Len(s)], r)
  PROVE  /\ Len(s) \in Nat \ {0} /\ DOMAIN s = 1 .. Len(s)
         /\ Folded(s, r) \in Seq(QueuedViolation)
         /\ Len(Folded(s, r)) = Len(s)
         /\ DOMAIN Folded(s, r) = 1 .. Len(s)
         /\ \A i \in 1 .. Len(s) : i # Len(s) => Folded(s, r)[i] = s[i]
         /\ Folded(s, r)[Len(s)].camera = r.camera
         /\ s[Len(s)].camera = r.camera
         /\ Folded(s, r)[Len(s)].calls = s[Len(s)].calls \cup r.calls
<1>1. Len(s) \in Nat \ {0} /\ DOMAIN s = 1 .. Len(s)
  BY EmptySeq, LenProperties
<1>2. Len(s) \in 1 .. Len(s)
  BY <1>1
<1>3. s[Len(s)] \in QueuedViolation
  BY <1>2, ElementOfSeq
<1> DEFINE e == Coalesced(s[Len(s)], r)
<1>4. /\ e \in QueuedViolation /\ e.calls = s[Len(s)].calls \cup r.calls
      /\ e.camera = s[Len(s)].camera
  BY <1>3 DEF Coalesced, QueuedViolation
<1>5. s[Len(s)].camera = r.camera
  BY DEF SameEvent
<1>6. Folded(s, r) = [s EXCEPT ![Len(s)] = e]
  BY DEF Folded
<1> HIDE DEF e
<1>7. /\ Folded(s, r) \in Seq(QueuedViolation)
      /\ Len(Folded(s, r)) = Len(s)
      /\ \A i \in 1 .. Len(s) :
           Folded(s, r)[i] = IF i = Len(s) THEN e ELSE s[i]
  BY <1>2, <1>4, <1>6, ExceptSeq
<1>8. DOMAIN Folded(s, r) = 1 .. Len(s)
  BY <1>7, LenProperties
<1> QED BY <1>1, <1>2, <1>4, <1>5, <1>7, <1>8

LEMMA FoldKeepsOrder ==
  ASSUME NEW s \in Seq(QueuedViolation), s # <<>>, NEW r \in QueuedViolation,
         SameEvent(s[Len(s)], r),
         Ordered(s), Before(s, r.camera, r.timestamp),
         r.calls = {r.timestamp}
  PROVE  Ordered(Folded(s, r))
<1> DEFINE a == Folded(s, r)
<1>1. /\ Len(s) \in Nat \ {0} /\ DOMAIN s = 1 .. Len(s)
      /\ DOMAIN a = 1 .. Len(s)
      /\ \A i \in 1 .. Len(s) : i # Len(s) => a[i] = s[i]
      /\ a[Len(s)].camera = r.camera
      /\ s[Len(s)].camera = r.camera
      /\ a[Len(s)].calls = s[Len(s)].calls \cup r.calls
  BY FoldedFields
<1> HIDE DEF a
<1> SUFFICES ASSUME NEW i \in DOMAIN a, NEW j \in DOMAIN a,
                    i < j, a[i].camera = a[j].camera,
                    NEW t \in a[i].calls, NEW u \in a[j].calls
             PROVE  t < u
  BY DEF Ordered, a
<1>2. /\ i \in DOMAIN s /\ j \in DOMAIN s /\ a[i] = s[i]
  <2>1. i \in 1 .. Len(s) /\ j \in 1 .. Len(s)
    BY <1>1, Zenon
  <2>2. i # Len(s)
    BY <2>1
  <2> QED BY <1>1, <2>1, <2>2, Zenon
<1>3. CASE j = Len(s)
  <2>1. s[i].camera = r.camera /\ s[j].camera = r.camera
    BY <1>1, <1>2, <1>3
  <2>2. CASE u \in s[j].calls
    BY <1>2, <2>1, <2>2 DEF Ordered
  <2>3. CASE u = r.timestamp
    BY <1>2, <2>1, <2>3 DEF Before
  <2>4. u \in s[j].calls \cup {r.timestamp}
    <3>1. a[j].calls = s[j].calls \cup {r.timestamp}
      BY <1>1, <1>3, Zenon
    <3> QED BY <3>1, Zenon
  <2> QED BY <2>2, <2>3, <2>4
<1>4. CASE j # Len(s)
  <2>1. a[j] = s[j]
    BY <1>1, <1>2, <1>4
  <2> QED BY <1>2, <2>1 DEF Ordered
<1> QED BY <1>3, <1>4

LEMMA FoldKeepsBefore ==
  ASSUME NEW s \in Seq(QueuedViolation), s # <<>>, NEW r \in QueuedViolation,
         SameEvent(s[Len(s)], r), NEW c, NEW t, Before(s, c, t),
         r.camera = c => \A u \in r.calls : u < t
  PROVE  Before(Folded(s, r), c, t)
<1> DEFINE a == Folded(s, r)
<1>1. /\ Len(s) \in Nat \ {0} /\ DOMAIN s = 1 .. Len(s)
      /\ DOMAIN a = 1 .. Len(s)
      /\ \A i \in 1 .. Len(s) : i # Len(s) => a[i] = s[i]
      /\ a[Len(s)].camera = r.camera
      /\ s[Len(s)].camera = r.camera
      /\ a[Len(s)].calls = s[Len(s)].calls \cup r.calls
  BY FoldedFields
<1> HIDE DEF a
<1> SUFFICES ASSUME NEW i \in DOMAIN a, a[i].camera = c,
                    NEW u \in a[i].calls
             PROVE  u < t
  BY DEF Before, a
<1>2. CASE i = Len(s)
  BY <1>1, <1>2 DEF Before
<1>3. CASE i # Len(s)
  BY <1>1, <1>3 DEF Before
<1> QED BY <1>2, <1>3

(* Folding into the last record of a line folds into the line, and so for   *)
(* appending.                                                              *)
LEMMA ConcatFolds ==
  ASSUME NEW s \in Seq(QueuedViolation), NEW q \in Seq(QueuedViolation),
         q # <<>>, NEW r \in QueuedViolation, SameEvent(q[Len(q)], r)
  PROVE  /\ s \o q \in Seq(QueuedViolation) /\ s \o q # <<>>
         /\ SameEvent((s \o q)[Len(s \o q)], r)
         /\ s \o Folded(q, r) = Folded(s \o q, r)
<1> DEFINE l == s \o q
           f == Folded(q, r)
           e == Coalesced(q[Len(q)], r)
<1>1. /\ Len(s) \in Nat /\ Len(q) \in Nat \ {0}
      /\ l \in Seq(QueuedViolation) /\ Len(l) = Len(s) + Len(q)
      /\ \A i \in 1 .. Len(s) + Len(q) :
           l[i] = IF i <= Len(s) THEN s[i] ELSE q[i - Len(s)]
  BY ElementsOfConcat, EmptySeq
<1>2. Len(l) \in 1 .. Len(l) /\ l[Len(l)] = q[Len(q)]
  <2>1. /\ Len(s) + Len(q) \in 1 .. Len(s) + Len(q)
        /\ ~(Len(s) + Len(q) <= Len(s))
        /\ (Len(s) + Len(q)) - Len(s) = Len(q)
    BY <1>1
  <2> QED BY <1>1, <2>1
<1>3. l # <<>>
  BY <1>2, <1>1, EmptySeq
<1>4. SameEvent(l[Len(l)], r)
  BY <1>2
<1>5. /\ f \in Seq(QueuedViolation) /\ Len(f) = Len(q)
  BY FoldedFields
<1>6. Len(q) \in 1 .. Len(q) /\ q[Len(q)] \in QueuedViolation
  BY <1>1, ElementOfSeq
<1>7. e \in QueuedViolation
  BY <1>6, CoalescedType
<1>8. \A i \in 1 .. Len(q) : f[i] = IF i = Len(q) THEN e ELSE q[i]
  BY <1>6, <1>7, ExceptSeq DEF Folded
<1>9. \A i \in 1 .. Len(l) : Folded(l, r)[i] = IF i = Len(l) THEN e ELSE l[i]
  <2>1. Folded(l, r) = [l EXCEPT ![Len(l)] = e]
    BY <1>2 DEF Folded
  <2> HIDE DEF e, l
  <2> QED BY <1>1, <1>2, <1>7, <2>1, ExceptSeq
<1>10. /\ Folded(l, r) \in Seq(QueuedViolation)
       /\ Len(Folded(l, r)) = Len(l)
  BY <1>1, <1>3, <1>4, FoldedFields
<1> HIDE DEF l, f, e
<1>11. /\ s \o f \in Seq(QueuedViolation) /\ Len(s \o f) = Len(s) + Len(f)
       /\ \A i \in 1 .. Len(s) + Len(f) :
            (s \o f)[i] = IF i <= Len(s) THEN s[i] ELSE f[i - Len(s)]
  BY <1>5, ElementsOfConcat
<1>12. ASSUME NEW i \in 1 .. Len(l)
       PROVE  (s \o f)[i] = Folded(l, r)[i]
  <2>1. CASE i <= Len(s)
    <3>1. i # Len(l) /\ i \in 1 .. Len(s) + Len(f)
      BY <1>1, <1>5, <2>1
    <3> QED BY <1>1, <1>9, <1>11, <2>1, <3>1
  <2>2. CASE ~(i <= Len(s))
    <3>1. /\ i \in 1 .. Len(s) + Len(f) /\ i - Len(s) \in 1 .. Len(q)
          /\ i = Len(l) <=> i - Len(s) = Len(q)
      BY <1>1, <1>5, <2>2
    <3>2. (s \o f)[i] = IF i - Len(s) = Len(q) THEN e ELSE q[i - Len(s)]
      BY <1>8, <1>11, <2>2, <3>1
    <3>3. Folded(l, r)[i] = IF i = Len(l) THEN e ELSE q[i - Len(s)]
      BY <1>1, <1>9, <2>2
    <3> QED BY <3>1, <3>2, <3>3
  <2> QED BY <2>1, <2>2
<1>13. Len(s \o f) = Len(Folded(l, r))
  BY <1>1, <1>5, <1>10, <1>11
<1>14. s \o f = Folded(l, r)
  BY <1>10, <1>11, <1>12, <1>13, <1>1, SeqEqual
<1> QED BY <1>1, <1>3, <1>4, <1>14 DEF l, f

LEMMA ConcatAppends ==
  ASSUME NEW s \in Seq(QueuedViolation), NEW q \in Seq(QueuedViolation),
         NEW r \in QueuedViolation
  PROVE  /\ s \o q \in Seq(QueuedViolation)
         /\ s \o Append(q, r) = Append(s \o q, r)
<1>1. /\ Append(q, r) = q \o <<r>> /\ <<r>> \in Seq(QueuedViolation)
      /\ s \o q \in Seq(QueuedViolation)
  BY AppendIsConcat, ConcatProperties
<1>2. Append(s \o q, r) = (s \o q) \o <<r>>
  BY <1>1, AppendIsConcat
<1> QED BY <1>1, <1>2, ConcatAssociative

-----------------------------------------------------------------------------
(* The line, and the calls that have not joined it yet.                    *)

Line == rows \o batch \o queue

(* A call in progress waits with its own record, later than all the        *)
(* records of its camera.  StoredInOrder is not inductive without it: it   *)
(* says nothing of the record a caller still holds.                        *)
Waiting(c) ==
  /\ caller[c].camera = c
  /\ caller[c].calls = {caller[c].timestamp}
  /\ caller[c].timestamp <= clock
  /\ caller[c].timestamp \notin accepted
  /\ Before(Line, c, caller[c].timestamp)

OrderInv ==
  /\ Ordered(Line)
  /\ accepted \subseteq 1 .. clock
  /\ \A c \in Cameras : caller[c] # Idle => Waiting(c)
  /\ \A c, d \in Cameras :
       c # d /\ caller[c] # Idle /\ caller[d] # Idle =>
         caller[c].timestamp # caller[d].timestamp

(* The calls behind the line have been accepted.                           *)
LEMMA LineAccepted ==
  ASSUME DBInv, CallsAccountedFor
  PROVE  /\ Line \in Seq(QueuedViolation)
         /\ \A i \in DOMAIN Line : Line[i].calls \subseteq accepted
<1>1. /\ rows \in Seq(QueuedViolation) /\ batch \in Seq(QueuedViolation)
      /\ queue \in Seq(QueuedViolation)
      /\ rows \o batch \in Seq(QueuedViolation)
      /\ Line \in Seq(QueuedViolation)
  BY ConcatProperties DEF DBInv, TypeOK, Line
<1>2. CallsOf(Line) = CallsOf(rows) \cup CallsOf(batch) \cup CallsOf(queue)
  BY <1>1, CallsOfConcat DEF Line
<1>3. CallsOf(Line) \subseteq accepted
  BY <1>2 DEF CallsAccountedFor, settled
<1> QED BY <1>1, <1>3 DEF CallsOf

(* A record enters the line at its end, or is folded into the last one,    *)
(* whose camera is its own.                                                *)
LEMMA LineFolds ==
  ASSUME DBInv, NEW c \in Cameras, Coalesce(c)
  PROVE  /\ caller[c] \in QueuedViolation
         /\ Line \in Seq(QueuedViolation) /\ Line # <<>>
         /\ SameEvent(Line[Len(Line)], caller[c])
         /\ Line' = Folded(Line, caller[c])
<1> DEFINE s == rows \o batch
           r == caller[c]
<1>1. /\ r \in QueuedViolation /\ queue # <<>>
      /\ queue \in Seq(QueuedViolation)
      /\ SameEvent(queue[Len(queue)], r)
      /\ queue' = Folded(queue, r)
      /\ s \in Seq(QueuedViolation)
      /\ s' = s /\ Line = s \o queue /\ Line' = s' \o queue'
  BY ConcatProperties DEF Coalesce, Coalesces, DBInv, TypeOK, Folded, Line,
                          dbVars, writerVars
<1> HIDE DEF s, r
<1> QED BY <1>1, ConcatFolds DEF r

(* A full queue loses its first record to the one that joins.              *)
LEMMA LineGrows ==
  ASSUME DBInv, NEW c \in Cameras, Enqueue(c)
  PROVE  /\ caller[c] \in QueuedViolation
         /\ \E b \in Seq(QueuedViolation) :
              /\ Line' = Append(b, caller[c])
              /\ Ordered(Line) => Ordered(b)
              /\ \A d, t : Before(Line, d, t) => Before(b, d, t)
<1> DEFINE s == rows \o batch
           r == caller[c]
<1>1. /\ r \in QueuedViolation /\ queue \in Seq(QueuedViolation)
      /\ s \in Seq(QueuedViolation)
      /\ s' = s /\ Line = s \o queue /\ Line' = s' \o queue'
  BY ConcatProperties DEF Enqueue, DBInv, TypeOK, Line, dbVars, writerVars
<1>2. CASE Full
  <2>1. queue # <<>> /\ queue' = Append(Tail(queue), r)
    BY <1>2, EnqueueLength DEF DBInv, Enqueue
  <2>2. /\ Tail(queue) \in Seq(QueuedViolation)
        /\ Head(queue) \in QueuedViolation
        /\ <<Head(queue)>> \in Seq(QueuedViolation)
        /\ queue = <<Head(queue)>> \o Tail(queue)
    BY <2>1, <1>1, HeadTailProperties
  <2> DEFINE b == s \o Tail(queue)
             m == <<Head(queue)>>
             u == Tail(queue)
  <2> HIDE DEF s, r
  <2>3. Line' = Append(b, r) /\ b \in Seq(QueuedViolation)
    BY <1>1, <2>1, <2>2, ConcatAppends
  <2>4. Line = (s \o m) \o u
    <3> HIDE DEF m, u
    <3>1. m \in Seq(QueuedViolation) /\ u \in Seq(QueuedViolation)
          /\ queue = m \o u
      BY <2>2 DEF m, u
    <3> QED BY <1>1, <3>1, ConcatAssociative
  <2>5. /\ Ordered(Line) => Ordered(b)
        /\ \A d, t : Before(Line, d, t) => Before(b, d, t)
    <3>1. m \in Seq(QueuedViolation) /\ u \in Seq(QueuedViolation)
      BY <2>2
    <3> HIDE DEF m, u
    <3>2. b = s \o u
      BY DEF u
    <3> HIDE DEF b
    <3> QED BY <1>1, <2>4, <3>1, <3>2, DropKeepsOrder
  <2> HIDE DEF b
  <2> QED BY <1>1, <2>3, <2>5 DEF r
<1>3. CASE ~Full
  <2>1. queue' = Append(queue, r)
    BY <1>3 DEF Enqueue
  <2> HIDE DEF s, r
  <2>2. Line' = Append(Line, r) /\ Line \in Seq(QueuedViolation)
    BY <1>1, <2>1, ConcatAppends
  <2> QED BY <1>1, <2>2 DEF r
<1> QED BY <1>2, <1>3

(* The writer moves records along the line; when it gives a batch up, they *)
(* leave it.                                                               *)
LEMMA LineMoves ==
  ASSUME DBInv
  PROVE  /\ UNCHANGED <<rows, batch, queue>> => Line' = Line
         /\ WriterTakesBatch => Line' = Line
         /\ AttemptCommits => Line' = Line
         /\ AttemptGivesUp => /\ Line' = rows \o queue
                              /\ Line = (rows \o batch) \o queue
<1>1. /\ rows \in Seq(QueuedViolation) /\ batch \in Seq(QueuedViolation)
      /\ queue \in Seq(QueuedViolation)
      /\ rows \o batch \in Seq(QueuedViolation)
  BY ConcatProperties DEF DBInv, TypeOK
<1>2. UNCHANGED <<rows, batch, queue>> => Line' = Line
  BY DEF Line
<1>3. ASSUME WriterTakesBatch PROVE Line' = Line
  <2>1. batch = <<>> /\ rows' = rows
    BY <1>3 DEF WriterTakesBatch, DBInv, DatabaseDiscipline, dbVars
  <2>2. /\ batch' \in Seq(QueuedViolation) /\ queue' \in Seq(QueuedViolation)
        /\ batch' \o queue' = queue
    BY <1>3, BatchTaken DEF DBInv
  <2>3. Line = rows \o queue
    BY <1>1, <2>1, ConcatEmptySeq DEF Line
  <2>4. Line' = (rows \o batch') \o queue'
    BY <2>1 DEF Line
  <2>5. (rows \o batch') \o queue' = rows \o (batch' \o queue')
    <3>1. \A b, q \in Seq(QueuedViolation) :
            (rows \o b) \o q = rows \o (b \o q)
      BY <1>1, ConcatAssociative
    <3> QED BY <2>2, <3>1, Zenon
  <2> QED BY <2>2, <2>3, <2>4, <2>5, Zenon
<1>4. ASSUME AttemptCommits PROVE Line' = Line
  <2>1. rows' = rows \o batch /\ batch' = <<>> /\ queue' = queue
    BY <1>4 DEF AttemptCommits
  <2>2. Line' = ((rows \o batch) \o <<>>) \o queue
    BY <2>1 DEF Line
  <2> QED BY <1>1, <2>2, ConcatEmptySeq DEF Line
<1>5. ASSUME AttemptGivesUp
      PROVE  Line' = rows \o queue /\ Line = (rows \o batch) \o queue
  <2>1. rows' = rows /\ batch' = <<>> /\ queue' = queue
    BY <1>5 DEF AttemptGivesUp
  <2> QED BY <1>1, <2>1, ConcatEmptySeq DEF Line
<1> QED BY <1>2, <1>3, <1>4, <1>5

(* A call that joins the line leaves the others waiting.                   *)
LEMMA JoiningKeepsOrder ==
  ASSUME DBInv, OrderInv, NEW c \in Cameras, caller[c] # Idle,
         caller' = [caller EXCEPT ![c] = Idle],
         accepted' = accepted \cup caller[c].calls,
         clock' = clock,
         Ordered(Line'),
         \A d, t : d # c /\ Before(Line, d, t) => Before(Line', d, t)
  PROVE  OrderInv'
<1>1. Waiting(c) /\ caller[c] \in QueuedViolation
  BY DEF OrderInv, DBInv, TypeOK
<1>2. accepted' = accepted \cup {caller[c].timestamp}
  BY <1>1 DEF Waiting
<1>3. accepted' \subseteq 1 .. clock'
  <2>1. caller[c].timestamp \in Nat \ {0} /\ caller[c].timestamp <= clock
        /\ clock \in Nat
    BY <1>1, EventAssumption
    DEF QueuedViolation, Calls, Waiting, DBInv, TypeOK
  <2>2. caller[c].timestamp \in 1 .. clock
    BY <2>1
  <2> QED BY <1>2, <2>2 DEF OrderInv
<1>4. \A d \in Cameras :
        caller'[d] = IF d = c THEN Idle ELSE caller[d]
  BY DEF DBInv, TypeOK
<1>5. ASSUME NEW d \in Cameras, caller'[d] # Idle
      PROVE  Waiting(d)'
  <2>1. d # c /\ caller'[d] = caller[d] /\ caller[d] # Idle
    BY <1>4, <1>5
  <2>2. Waiting(d) /\ caller[d].timestamp # caller[c].timestamp
    BY <2>1 DEF OrderInv
  <2>3. Before(Line', d, caller[d].timestamp)
    BY <2>1, <2>2 DEF Waiting
  <2> QED BY <1>2, <2>1, <2>2, <2>3, Zenon DEF Waiting
<1>6. ASSUME NEW d \in Cameras, NEW e \in Cameras, d # e,
             caller'[d] # Idle, caller'[e] # Idle
      PROVE  caller'[d].timestamp # caller'[e].timestamp
  BY <1>4, <1>6 DEF OrderInv
<1> QED BY <1>3, <1>5, <1>6 DEF OrderInv

(* Where the calls do not move, the line may stay or lose records.         *)
LEMMA WaitingKeepsOrder ==
  ASSUME OrderInv, UNCHANGED <<caller, accepted, clock>>,
         Ordered(Line) => Ordered(Line'),
         \A d, t : Before(Line, d, t) => Before(Line', d, t)
  PROVE  OrderInv'
<1>1. ASSUME NEW d \in Cameras, caller'[d] # Idle PROVE Waiting(d)'
  <2>1. Waiting(d) /\ caller'[d] = caller[d]
    BY <1>1 DEF OrderInv
  <2>2. Before(Line', d, caller[d].timestamp)
    BY <2>1 DEF Waiting
  <2> QED BY <2>1, <2>2, Zenon DEF Waiting
<1> QED BY <1>1 DEF OrderInv

LEMMA OrderStep ==
  DBInv /\ CallsAccountedFor /\ OrderInv /\ [Next]_vars => OrderInv'
<1> SUFFICES ASSUME DBInv, CallsAccountedFor, OrderInv, [Next]_vars
             PROVE  OrderInv'
  OBVIOUS
<1>0. ASSUME UNCHANGED <<caller, accepted, clock>>, Line' = Line
      PROVE  OrderInv'
  BY <1>0, WaitingKeepsOrder
<1>1. ASSUME UNCHANGED <<rows, batch, queue, caller, accepted, clock>>
      PROVE  OrderInv'
  BY <1>0, <1>1, LineMoves
<1>2. CASE InitFails \/ InitOpens \/ InitRelockHangs \/ InitReturns
  BY <1>1, <1>2 DEF InitFails, InitOpens, InitRelockHangs, InitReturns, dbVars,
                    writerVars, threads, history
<1>3. ASSUME NEW c \in Cameras, NEW a \in Actors, LogViolation(c, a)
      PROVE  OrderInv'
  <2>1. /\ UNCHANGED <<rows, batch, queue, accepted>>
        /\ clock' = clock + 1
        /\ caller' = [caller EXCEPT ![c] = Report(c, a, clock + 1)]
        /\ caller[c] = Idle
    BY <1>3 DEF LogViolation, dbVars, writerVars
  <2>2. Line' = Line /\ clock \in Nat
    BY <2>1, LineMoves, EventAssumption DEF DBInv, TypeOK
  <2>3. accepted \subseteq 1 .. clock
    BY DEF OrderInv
  <2>4. accepted' \subseteq 1 .. clock' /\ clock + 1 \notin accepted
    BY <2>1, <2>2, <2>3
  <2>5. \A d \in Cameras :
          caller'[d] = IF d = c THEN Report(c, a, clock + 1) ELSE caller[d]
    BY <2>1 DEF DBInv, TypeOK
  <2>6. \A d \in Cameras : d # c /\ caller[d] # Idle =>
          caller[d].timestamp # clock + 1
    <3> SUFFICES ASSUME NEW d \in Cameras, caller[d] # Idle
                 PROVE  caller[d].timestamp # clock + 1
      OBVIOUS
    <3>1. caller[d].timestamp <= clock /\ caller[d] \in QueuedViolation
      BY DEF OrderInv, Waiting, DBInv, TypeOK
    <3>2. caller[d].timestamp \in Nat
      BY <3>1, EventAssumption DEF QueuedViolation, Calls
    <3> QED BY <2>2, <3>1, <3>2
  <2>7. Waiting(c)'
    <3>1. /\ caller'[c].camera = c /\ caller'[c].timestamp = clock + 1
          /\ caller'[c].calls = {clock + 1}
      BY <2>5 DEF Report
    <3>2. Before(Line, c, clock + 1)
      <4>1. \A i \in DOMAIN Line : Line[i].calls \subseteq 1 .. clock
        BY <2>3, LineAccepted
      <4> QED BY <2>2, <4>1 DEF Before
    <3>3. clock + 1 <= clock'
      BY <2>1, <2>2
    <3>4. /\ Before(Line', c, caller'[c].timestamp)
          /\ caller'[c].timestamp <= clock'
          /\ caller'[c].timestamp \notin accepted'
          /\ caller'[c].calls = {caller'[c].timestamp}
      <4>1. accepted' = accepted /\ Line' = Line
        BY <2>1, <2>2
      <4>2. Before(Line', c, clock + 1) /\ clock + 1 \notin accepted'
        BY <2>4, <3>2, <4>1, Zenon
      <4> QED BY <3>1, <3>3, <4>2, Zenon
    <3> QED BY <3>1, <3>4, Zenon DEF Waiting
  <2>8. ASSUME NEW d \in Cameras, d # c, caller'[d] # Idle
        PROVE  Waiting(d)'
    <3>1. Waiting(d) /\ caller'[d] = caller[d]
      BY <2>5, <2>8 DEF OrderInv
    <3>2. caller[d].timestamp <= clock'
      <4>1. caller[d] \in QueuedViolation /\ caller[d].timestamp <= clock
        BY <2>5, <2>8, <3>1 DEF Waiting, DBInv, TypeOK
      <4>2. caller[d].timestamp \in Nat
        BY <4>1, EventAssumption DEF QueuedViolation, Calls
      <4> QED BY <2>1, <2>2, <4>1, <4>2
    <3>3. /\ Before(Line', d, caller[d].timestamp)
          /\ caller[d].timestamp \notin accepted'
      BY <2>1, <2>2, <3>1, Zenon DEF Waiting
    <3> QED BY <3>1, <3>2, <3>3, Zenon DEF Waiting
  <2>9. ASSUME NEW d \in Cameras, NEW e \in Cameras, d # e,
               caller'[d] # Idle, caller'[e] # Idle
        PROVE  caller'[d].timestamp # caller'[e].timestamp
    <3>1. Report(c, a, clock + 1).timestamp = clock + 1
      BY DEF Report
    <3> QED BY <2>5, <2>6, <2>9, <3>1 DEF OrderInv
  <2> QED BY <2>2, <2>4, <2>7, <2>8, <2>9 DEF OrderInv
<1>4. ASSUME NEW c \in Cameras, Coalesce(c)
      PROVE  OrderInv'
  <2>1. /\ caller[c] # Idle /\ clock' = clock
        /\ caller' = [caller EXCEPT ![c] = Idle]
        /\ accepted' = accepted \cup caller[c].calls
    BY <1>4 DEF Coalesce
  <2>2. /\ caller[c] \in QueuedViolation
        /\ Line \in Seq(QueuedViolation) /\ Line # <<>>
        /\ SameEvent(Line[Len(Line)], caller[c])
        /\ Line' = Folded(Line, caller[c])
    BY <1>4, LineFolds
  <2>3. /\ caller[c].camera = c /\ caller[c].calls = {caller[c].timestamp}
        /\ Before(Line, caller[c].camera, caller[c].timestamp)
        /\ Ordered(Line)
    BY <2>1 DEF OrderInv, Waiting
  <2>4. Ordered(Line')
    BY <2>2, <2>3, FoldKeepsOrder
  <2>5. ASSUME NEW d, NEW t, d # c, Before(Line, d, t)
        PROVE  Before(Line', d, t)
    BY <2>2, <2>3, <2>5, FoldKeepsBefore
  <2> QED BY <2>1, <2>4, <2>5, JoiningKeepsOrder
<1>5. ASSUME NEW c \in Cameras, Enqueue(c)
      PROVE  OrderInv'
  <2>1. /\ caller[c] # Idle /\ clock' = clock
        /\ caller' = [caller EXCEPT ![c] = Idle]
        /\ accepted' = accepted \cup caller[c].calls
    BY <1>5 DEF Enqueue
  <2>2. caller[c] \in QueuedViolation
    BY <1>5, LineGrows
  <2>3. PICK b \in Seq(QueuedViolation) :
           /\ Line' = Append(b, caller[c])
           /\ Ordered(Line) => Ordered(b)
           /\ \A d, t : Before(Line, d, t) => Before(b, d, t)
    BY <1>5, LineGrows
  <2>4. /\ caller[c].camera = c /\ caller[c].calls = {caller[c].timestamp}
        /\ Before(b, caller[c].camera, caller[c].timestamp)
        /\ Ordered(b)
    BY <2>1, <2>3 DEF OrderInv, Waiting
  <2>5. Ordered(Line')
    BY <2>2, <2>3, <2>4, AppendKeepsOrder
  <2>6. ASSUME NEW d, NEW t, d # c, Before(Line, d, t)
        PROVE  Before(Line', d, t)
    BY <2>2, <2>3, <2>4, <2>6, AppendKeepsBefore
  <2> QED BY <2>1, <2>5, <2>6, JoiningKeepsOrder
<1>6. CASE \/ WriterLoops \/ WriterFindsNothing \/ WriterLocksDatabase
           \/ WriterSettles
  BY <1>1, <1>6 DEF WriterLoops, WriterFindsNothing, WriterLocksDatabase,
                    WriterSettles, dbVars, threads, history
<1>7. CASE WriterTakesBatch
  BY <1>0, <1>7, LineMoves DEF WriterTakesBatch, threads, history
<1>8. CASE AttemptCommits
  BY <1>0, <1>8, LineMoves DEF AttemptCommits, threads, history
<1>9. CASE AttemptRetries
  BY <1>1, <1>9 DEF AttemptRetries, RolledBack, threads, history
<1>10. CASE AttemptGivesUp
  <2>1. /\ rows \in Seq(QueuedViolation) /\ batch \in Seq(QueuedViolation)
        /\ queue \in Seq(QueuedViolation)
    BY DEF DBInv, TypeOK
  <2>2. /\ Ordered(Line) => Ordered(Line')
        /\ \A d, t : Before(Line, d, t) => Before(Line', d, t)
    <3>1. Line' = rows \o queue /\ Line = (rows \o batch) \o queue
      BY <1>10, LineMoves
    <3>2. /\ Ordered((rows \o batch) \o queue) => Ordered(rows \o queue)
          /\ \A d, t : Before((rows \o batch) \o queue, d, t)
                       => Before(rows \o queue, d, t)
      BY <2>1, DropKeepsOrder
    <3> QED BY <3>1, <3>2, Zenon
  <2> QED BY <1>10, <2>2, WaitingKeepsOrder DEF AttemptGivesUp, threads
<1>11. CASE \/ FlushCalled \/ FlushReturns
            \/ \E q \in QueueRequests, b \in BatchRequests :
               SetQueueLimits(q, b)
            \/ \E r \in RetryRequests : SetRetryPolicy(r)
            \/ SetBusyTimeout
  BY <1>1, <1>11 DEF FlushCalled, FlushReturns, SetQueueLimits, SetRetryPolicy,
                     SetBusyTimeout, dbVars, writerVars, threads, history
<1>12. CASE OtherConnection \/ DestructorStops \/ DestructorCloses
  BY <1>1, <1>12 DEF OtherConnection, DestructorStops, DestructorCloses,
                     dbVars, writerVars, threads, history
<1>13. CASE UNCHANGED vars
  BY <1>1, <1>13 DEF vars, dbVars, writerVars, threads, history
<1> QED BY <1>2, <1>3, <1>4, <1>5, <1>6, <1>7, <1>8, <1>9, <1>10, <1>11, <1>12,
           <1>13 DEF Next, Writer

LEMMA OrderInvariant == Spec => []OrderInv
<1>1. Init => OrderInv
  <2> SUFFICES ASSUME Init PROVE OrderInv
    OBVIOUS
  <2>1. /\ rows = <<>> /\ batch = <<>> /\ queue = <<>> /\ accepted = {}
        /\ \A c \in Cameras : caller[c] = Idle
    BY DEF Init
  <2>2. Line = <<>>
    BY <2>1 DEF Line
  <2> QED BY <2>1, <2>2 DEF OrderInv, Ordered
<1>2. DBInv /\ CallsAccountedFor /\ OrderInv /\ [Next]_vars => OrderInv'
  BY OrderStep
<1> QED BY <1>1, <1>2, DBInvariant, CallsInvariant, PTL DEF Spec

(* Records of one camera are stored in the order of their calls and no     *)
(* call is stored twice, across coalescing, drops, retries and batches,    *)
(* for any number of cameras and calls.                                    *)
THEOREM RecordsStoredInOrder == Spec => []StoredInOrder
<1>1. OrderInv => StoredInOrder
  BY DEF OrderInv, Ordered, StoredInOrder, Line
<1> QED BY <1>1, OrderInvariant, PTL

-----------------------------------------------------------------------------
(* The logger implements the ledger: each of its steps is a step of the    *)
(* ledger, or changes neither the backlog nor the table.                   *)

Backlog == batch \o queue

(* The records and operators of the ledger are those of the logger.        *)
LEMMA LedgerTerms ==
  /\ Ledger!QueuedViolation = QueuedViolation
  /\ \A r, e : /\ Ledger!Coalesced(r, e) = Coalesced(r, e)
               /\ Ledger!SameEvent(r, e) = SameEvent(r, e)
  /\ Ledger!ledger = <<Backlog, rows, accepted>>
BY DEF Ledger!QueuedViolation, QueuedViolation, Ledger!Calls, Calls,
       Ledger!Coalesced, Coalesced, Ledger!SameEvent, SameEvent,
       Ledger!ledger, Backlog

(* A call that joins brings a record the ledger has not seen.              *)
LEMMA WaitingIsFresh ==
  ASSUME DBInv, OrderInv, NEW c \in Cameras, caller[c] # Idle,
         accepted' = accepted \cup caller[c].calls
  PROVE  Ledger!Fresh(caller[c])
BY DEF Ledger!Fresh, OrderInv, Waiting

(* Without a record in its middle.                                         *)
LEMMA WithoutMiddle ==
  ASSUME NEW s \in Seq(QueuedViolation), NEW q \in Seq(QueuedViolation),
         q # <<>>
  PROVE  /\ Len(s) + 1 \in 1 .. Len(s \o q)
         /\ Ledger!Without(s \o q, Len(s) + 1) = s \o Tail(q)
<1> DEFINE l == s \o q
           k == Len(s) + 1
<1>1. /\ Len(s) \in Nat /\ Len(q) \in Nat \ {0}
      /\ l \in Seq(QueuedViolation) /\ Len(l) = Len(s) + Len(q)
      /\ \A i \in 1 .. Len(s) + Len(q) :
           l[i] = IF i <= Len(s) THEN s[i] ELSE q[i - Len(s)]
  BY ElementsOfConcat, EmptySeq
<1>2. /\ Tail(q) \in Seq(QueuedViolation) /\ Len(Tail(q)) = Len(q) - 1
      /\ \A i \in 1 .. Len(Tail(q)) : Tail(q)[i] = q[i + 1]
  BY HeadTailProperties
<1> HIDE DEF l
<1>3. \A i \in 1 .. Len(l) : l[i] \in QueuedViolation
  BY <1>1, ElementOfSeq
<1>4. SubSeq(l, 1, k - 1) = s
  <2>1. k - 1 = Len(s) /\ Len(s) \in 0 .. Len(l)
    BY <1>1
  <2>2. \A i \in 1 .. Len(s) : l[i] \in QueuedViolation
    BY <1>1, <1>3
  <2>3. /\ SubSeq(l, 1, Len(s)) \in Seq(QueuedViolation)
        /\ Len(SubSeq(l, 1, Len(s))) = Len(s)
        /\ \A i \in 1 .. Len(s) : SubSeq(l, 1, Len(s))[i] = l[i]
    <3>1. /\ SubSeq(l, 1, Len(s)) \in Seq(QueuedViolation)
          /\ Len(SubSeq(l, 1, Len(s)))
               = IF 1 <= Len(s) THEN Len(s) - 1 + 1 ELSE 0
          /\ \A i \in 1 .. Len(s) - 1 + 1 :
               SubSeq(l, 1, Len(s))[i] = l[1 + i - 1]
      BY <1>1, <2>2, SubSeqProperties
    <3>2. \A i \in 1 .. Len(s) : i \in 1 .. Len(s) - 1 + 1 /\ 1 + i - 1 = i
      BY <1>1
    <3> QED BY <1>1, <3>1, <3>2
  <2>4. \A i \in 1 .. Len(s) : l[i] = s[i]
    BY <1>1
  <2> QED BY <2>1, <2>3, <2>4, SeqEqual
<1>5. SubSeq(l, k + 1, Len(l)) = Tail(q)
  <2>1. k + 1 = Len(s) + 2 /\ Len(s) + 2 \in Int /\ Len(l) \in Int
    BY <1>1
  <2>2. \A i \in Len(s) + 2 .. Len(l) : l[i] \in QueuedViolation
    BY <1>1, <1>3
  <2> DEFINE t == SubSeq(l, Len(s) + 2, Len(l))
  <2>3. /\ t \in Seq(QueuedViolation)
        /\ Len(t) = IF Len(s) + 2 <= Len(l) THEN Len(l) - (Len(s) + 2) + 1
                                            ELSE 0
        /\ \A i \in 1 .. Len(l) - (Len(s) + 2) + 1 :
             t[i] = l[(Len(s) + 2) + i - 1]
    BY <2>1, <2>2, SubSeqProperties
  <2> HIDE DEF t
  <2>4. Len(t) = Len(q) - 1
    <3>1. Len(s) \in Nat /\ Len(q) \in Nat \ {0} /\ Len(l) = Len(s) + Len(q)
      BY <1>1
    <3>2. Len(t) = IF Len(s) + 2 <= Len(l) THEN Len(l) - (Len(s) + 2) + 1
                                           ELSE 0
      BY <2>3
    <3>3. \A a \in Nat, b \in Nat \ {0} : \A c :
            c = a + b =>
              (IF a + 2 <= c THEN c - (a + 2) + 1 ELSE 0) = b - 1
      OBVIOUS
    <3>4. (IF Len(s) + 2 <= Len(l) THEN Len(l) - (Len(s) + 2) + 1 ELSE 0)
            = Len(q) - 1
      BY <3>1, <3>3, Zenon
    <3> QED BY <3>2, <3>4
  <2>5. ASSUME NEW i \in 1 .. Len(q) - 1 PROVE t[i] = Tail(q)[i]
    <3>1. /\ i \in 1 .. Len(l) - (Len(s) + 2) + 1
          /\ (Len(s) + 2) + i - 1 = Len(s) + i + 1
          /\ Len(s) + i + 1 \in 1 .. Len(s) + Len(q)
          /\ ~(Len(s) + i + 1 <= Len(s))
          /\ (Len(s) + i + 1) - Len(s) = i + 1
      BY <1>1
    <3>2. t[i] = l[Len(s) + i + 1]
      BY <2>3, <3>1
    <3>3. l[Len(s) + i + 1] = q[i + 1]
      BY <1>1, <3>1
    <3> QED BY <1>2, <3>2, <3>3
  <2>6. t = Tail(q)
    <3>1. Len(t) = Len(Tail(q)) /\ \A i \in 1 .. Len(t) : t[i] = Tail(q)[i]
      BY <1>2, <2>4, <2>5
    <3> QED BY <1>2, <2>3, <3>1, SeqEqual
  <2> QED BY <2>1, <2>6 DEF t
<1>6. k \in 1 .. Len(l)
  BY <1>1
<1> QED BY <1>4, <1>5, <1>6 DEF Ledger!Without, l

LEMMA LedgerFolds ==
  ASSUME DBInv, OrderInv, NEW c \in Cameras, Coalesce(c)
  PROVE  Ledger!Fold(caller[c])
<1> DEFINE r == caller[c]
<1>1. /\ r \in QueuedViolation /\ batch \in Seq(QueuedViolation)
      /\ queue \in Seq(QueuedViolation) /\ queue # <<>>
      /\ SameEvent(queue[Len(queue)], r)
      /\ queue' = Folded(queue, r) /\ batch' = batch /\ rows' = rows
      /\ accepted' = accepted \cup r.calls /\ caller[c] # Idle
  BY DEF Coalesce, Coalesces, DBInv, TypeOK, Folded, dbVars, writerVars
<1>2. Ledger!Fresh(r)
  BY <1>1, WaitingIsFresh
<1> HIDE DEF r
<1>3. /\ Backlog # <<>> /\ SameEvent(Backlog[Len(Backlog)], r)
      /\ Backlog' = Folded(Backlog, r)
  BY <1>1, ConcatFolds DEF Backlog
<1> QED BY <1>1, <1>2, <1>3, LedgerTerms DEF Ledger!Fold, Backlog, Folded, r

LEMMA LedgerEnqueues ==
  ASSUME DBInv, OrderInv, NEW c \in Cameras, Enqueue(c)
  PROVE  Ledger!Accept(caller[c]) \/ Ledger!Displace(caller[c])
<1> DEFINE r == caller[c]
<1>1. /\ r \in QueuedViolation /\ batch \in Seq(QueuedViolation)
      /\ queue \in Seq(QueuedViolation)
      /\ batch' = batch /\ rows' = rows
      /\ accepted' = accepted \cup r.calls /\ caller[c] # Idle
  BY DEF Enqueue, DBInv, TypeOK, dbVars, writerVars
<1>2. Ledger!Fresh(r)
  BY <1>1, WaitingIsFresh
<1>3. CASE Full
  <2>1. queue # <<>> /\ queue' = Append(Tail(queue), r)
    BY <1>3, EnqueueLength DEF DBInv, Enqueue
  <2>2. Tail(queue) \in Seq(QueuedViolation)
    BY <1>1, <2>1, TailType
  <2> HIDE DEF r
  <2>3. Backlog' = Append(batch \o Tail(queue), r)
    BY <1>1, <2>1, <2>2, ConcatAppends DEF Backlog
  <2>4. /\ Len(batch) + 1 \in 1 .. Len(Backlog)
        /\ Ledger!Without(Backlog, Len(batch) + 1) = batch \o Tail(queue)
    BY <1>1, <2>1, WithoutMiddle DEF Backlog
  <2>5. \E i \in 1 .. Len(Backlog) :
           Backlog' = Append(Ledger!Without(Backlog, i), r)
    BY <2>3, <2>4
  <2>6. Len(Backlog) >= QueueFloor
    <3>1. /\ limits.queue \in Nat /\ limits.queue >= QueueFloor
          /\ Len(queue) \in Nat /\ Len(batch) \in Nat /\ QueueFloor \in Nat
          /\ Len(Backlog) = Len(batch) + Len(queue)
      BY <1>1, LoggerAssumption, ElementsOfConcat DEF DBInv, TypeOK, Backlog
    <3>2. Len(queue) >= limits.queue
      BY <1>3 DEF Full
    <3> QED BY <3>1, <3>2
  <2> QED BY <1>1, <1>2, <2>5, <2>6 DEF Ledger!Displace, Backlog, r
<1>4. CASE ~Full
  <2>1. queue' = Append(queue, r)
    BY <1>4 DEF Enqueue
  <2> HIDE DEF r
  <2>2. Backlog' = Append(Backlog, r)
    BY <1>1, <2>1, ConcatAppends DEF Backlog
  <2> QED BY <1>1, <1>2, <2>2 DEF Ledger!Accept, Backlog, r
<1> QED BY <1>3, <1>4

(* The batch in flight is the first part of the backlog.                   *)
LEMMA BatchIsFirst ==
  ASSUME NEW s \in Seq(QueuedViolation), NEW q \in Seq(QueuedViolation),
         s # <<>>
  PROVE  /\ Len(s) \in 1 .. Len(s \o q)
         /\ SubSeq(s \o q, 1, Len(s)) = s
         /\ SubSeq(s \o q, Len(s) + 1, Len(s \o q)) = q
<1> DEFINE l == s \o q
<1>1. /\ Len(s) \in Nat \ {0} /\ Len(q) \in Nat
      /\ l \in Seq(QueuedViolation) /\ Len(l) = Len(s) + Len(q)
  BY ElementsOfConcat, EmptySeq
<1>2. Len(s) \in 1 .. Len(l) /\ Len(s) \in 0 .. Len(l)
      /\ 1 \in 1 .. Len(s) /\ Len(s) \in 1 .. Len(s)
  BY <1>1
<1>3. SubSeq(l, 1, Len(s)) = s
  BY <1>2, SubSeqOfConcat1, SubSeqFull
<1>4. SubSeq(l, Len(s) + 1, Len(l)) \in Seq(QueuedViolation)
      /\ SubSeq(l, 1, Len(s)) \o SubSeq(l, Len(s) + 1, Len(l)) = l
  <2> HIDE DEF l
  <2> QED BY <1>1, <1>2, Split
<1>5. s \o SubSeq(l, Len(s) + 1, Len(l)) = s \o q
  BY <1>3, <1>4
<1> HIDE DEF l
<1>6. SubSeq(l, Len(s) + 1, Len(l)) = q
  BY <1>4, <1>5, ConcatSimplifications
<1> QED BY <1>2, <1>3, <1>6 DEF l

(* A commit stores the batch, a batch given up is forgotten, in one step.  *)
LEMMA LedgerSettles ==
  ASSUME DBInv, AttemptCommits \/ AttemptGivesUp
  PROVE  \E n \in 1 .. Len(Backlog) : Ledger!Persist(n) \/ Ledger!Abandon(n)
<1>1. /\ batch \in Seq(QueuedViolation) /\ queue \in Seq(QueuedViolation)
      /\ batch # <<>>
  BY DEF DBInv, DatabaseDiscipline, TypeOK, AttemptCommits, AttemptGivesUp
<1>2. batch' = <<>> /\ queue' = queue /\ accepted' = accepted
  BY DEF AttemptCommits, AttemptGivesUp, history
<1>3. Backlog' = queue
  BY <1>1, <1>2, ConcatEmptySeq DEF Backlog
<1>4. /\ Len(batch) \in 1 .. Len(Backlog)
      /\ SubSeq(Backlog, 1, Len(batch)) = batch
      /\ SubSeq(Backlog, Len(batch) + 1, Len(Backlog)) = queue
  BY <1>1, BatchIsFirst DEF Backlog
<1>5. CASE AttemptCommits
  <2>1. rows' = rows \o batch
    BY <1>5 DEF AttemptCommits
  <2>2. Ledger!Persist(Len(batch))
    BY <1>2, <1>3, <1>4, <2>1 DEF Ledger!Persist, Backlog
  <2> QED BY <1>4, <2>2
<1>6. CASE AttemptGivesUp
  <2>1. rows' = rows
    BY <1>6 DEF AttemptGivesUp
  <2>2. Ledger!Abandon(Len(batch))
    BY <1>2, <1>3, <1>4, <2>1 DEF Ledger!Abandon, Backlog
  <2> QED BY <1>4, <2>2
<1> QED BY <1>5, <1>6

LEMMA LedgerStep ==
  DBInv /\ OrderInv /\ [Next]_vars => [Ledger!Next]_(Ledger!ledger)
<1> SUFFICES ASSUME DBInv, OrderInv, [Next]_vars
             PROVE  [Ledger!Next]_(Ledger!ledger)
  OBVIOUS
<1>0. ASSUME Backlog' = Backlog, UNCHANGED <<rows, accepted>>
      PROVE  [Ledger!Next]_(Ledger!ledger)
  BY <1>0 DEF Ledger!ledger, Backlog
<1>1. ASSUME UNCHANGED <<rows, batch, queue, accepted>>
      PROVE  [Ledger!Next]_(Ledger!ledger)
  BY <1>0, <1>1 DEF Backlog
<1>2. CASE InitFails \/ InitOpens \/ InitRelockHangs \/ InitReturns
  BY <1>1, <1>2 DEF InitFails, InitOpens, InitRelockHangs, InitReturns, dbVars,
                    writerVars, history
<1>3. CASE \E c \in Cameras, a \in Actors : LogViolation(c, a)
  BY <1>1, <1>3 DEF LogViolation, dbVars, writerVars
<1>4. ASSUME NEW c \in Cameras, Coalesce(c) \/ Enqueue(c)
      PROVE  [Ledger!Next]_(Ledger!ledger)
  <2>1. \/ Ledger!Accept(caller[c]) \/ Ledger!Fold(caller[c])
        \/ Ledger!Displace(caller[c])
    BY <1>4, LedgerFolds, LedgerEnqueues
  <2>2. caller[c] \in Ledger!QueuedViolation
    BY <1>4, LedgerTerms DEF Coalesce, Enqueue, DBInv, TypeOK
  <2> QED BY <2>1, <2>2 DEF Ledger!Next
<1>5. CASE \/ WriterLoops \/ WriterFindsNothing \/ WriterLocksDatabase
           \/ WriterSettles
  BY <1>1, <1>5 DEF WriterLoops, WriterFindsNothing, WriterLocksDatabase,
                    WriterSettles, dbVars, history
<1>6. CASE WriterTakesBatch
  <2>1. batch = <<>> /\ queue \in Seq(QueuedViolation)
    BY <1>6 DEF WriterTakesBatch, DBInv, DatabaseDiscipline, TypeOK
  <2>2. Backlog' = Backlog
    BY <1>6, <2>1, BatchTaken, ConcatEmptySeq DEF Backlog, DBInv
  <2> QED BY <1>0, <1>6, <2>2 DEF WriterTakesBatch, dbVars, history
<1>7. CASE AttemptCommits \/ AttemptGivesUp
  BY <1>7, LedgerSettles DEF Ledger!Next, Backlog
<1>8. CASE AttemptRetries
  BY <1>1, <1>8 DEF AttemptRetries, RolledBack, history
<1>9. CASE \/ FlushCalled \/ FlushReturns
           \/ \E q \in QueueRequests, b \in BatchRequests :
               SetQueueLimits(q, b)
           \/ \E r \in RetryRequests : SetRetryPolicy(r)
           \/ SetBusyTimeout
  BY <1>1, <1>9 DEF FlushCalled, FlushReturns, SetQueueLimits, SetRetryPolicy,
                    SetBusyTimeout, dbVars, writerVars, history
<1>10. CASE OtherConnection \/ DestructorStops \/ DestructorCloses
  BY <1>1, <1>10 DEF OtherConnection, DestructorStops, DestructorCloses,
                     dbVars, writerVars, history
<1>11. CASE UNCHANGED vars
  BY <1>1, <1>11 DEF vars, dbVars, writerVars, history
<1> QED BY <1>2, <1>3, <1>4, <1>5, <1>6, <1>7, <1>8, <1>9, <1>10, <1>11
        DEF Next, Writer

(* The logger, with its threads, locks, retries and batches, is a lossy    *)
(* ordered ledger: nothing is invented, stored twice, stored out of order  *)
(* or changed once stored, and a record is displaced only by a backlog of  *)
(* at least the floor of the limits.                                       *)
THEOREM LoggerIsALedger == Spec => LedgerSpec
<1>1. Init => Ledger!Init
  <2>1. <<>> \in Seq(QueuedViolation)
    BY EmptySeq
  <2>2. <<>> \o <<>> = <<>>
    BY <2>1, ConcatEmptySeq
  <2> QED BY <2>2 DEF Init, Ledger!Init
<1>2. DBInv /\ OrderInv /\ [Next]_vars => [Ledger!Next]_(Ledger!ledger)
  BY LedgerStep
<1> QED BY <1>1, <1>2, DBInvariant, OrderInvariant, PTL
        DEF Spec, LedgerSpec, Ledger!Spec
=============================================================================
