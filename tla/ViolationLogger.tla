--------------------------- MODULE ViolationLogger ---------------------------
(***************************************************************************)
(* safety::ViolationLogger (src/utils/violation_logger.{hpp,cpp}): the     *)
(* asynchronous writer between the streaming threads, which report a       *)
(* violation for every violating frame, and the SQLite file.               *)
(*                                                                         *)
(* Threads: the owner (init, then the destructor), one caller of           *)
(* log_violation per camera, the writer thread, a thread that calls flush, *)
(* a thread that tunes the limits, and another connection that may lock    *)
(* the database file.  A critical section under queue_mutex_ never blocks, *)
(* so each is one action.  db_mutex_ is held across steps by init and by   *)
(* the writer, so it is a variable; whoever else takes it releases it in   *)
(* the same action.  wait_for always has a timeout, so a waiting thread    *)
(* may look at its predicate at any time and no wake-up is modelled.       *)
(***************************************************************************)
EXTENDS ViolationEvents

CONSTANTS
  QueueFloor,     (* smallest max_queue_size_ (64 in the code)             *)
  QueueDefault,   (* max_queue_size_ of a new logger (10000)               *)
  BatchDefault,   (* batch_size_ of a new logger (64)                      *)
  RetriesDefault, (* max_retries_ of a new logger (5)                      *)
  QueueRequests,  (* max_queue_size arguments of set_queue_limits          *)
  BatchRequests,  (* batch_size arguments of set_queue_limits              *)
  RetryRequests,  (* max_retries arguments of set_retry_policy             *)
  Relocks,        (* what locking a std::mutex one holds may do            *)
  Idle            (* the thread is outside the call                        *)

(* Mutant: the requested limits are taken as they are.                     *)
Unclamped(lo, n) == n

AtLeast(lo, n) == IF n < lo THEN lo ELSE n

ASSUME LoggerAssumption ==
  /\ QueueFloor \in Nat \ {0}
  /\ QueueDefault \in Nat /\ QueueDefault >= QueueFloor
  /\ BatchDefault \in Nat \ {0}
  /\ RetriesDefault \in Nat
  /\ QueueRequests \subseteq Nat
  /\ BatchRequests \subseteq Nat
  /\ RetryRequests \subseteq Int
  /\ Relocks \subseteq {"hang", "proceed"}
  /\ Idle \notin QueuedViolation

VARIABLES
  owner,          (* where the owner is in init and the destructor         *)
  dbOpen,         (* db_ is not null                                       *)
  dbMutex,        (* who holds db_mutex_ across steps                      *)
  dbLocked,       (* another connection holds the database lock            *)
  rows,           (* the violations table, in order of id                  *)
  queue,          (* write_queue_                                          *)
  batch,          (* the writer's local batch                              *)
  writer,         (* where the writer thread is                            *)
  writerRunning,  (* writer_running_                                       *)
  writerBusy,     (* writer_busy_                                          *)
  attempt,        (* attempt of write_batch_with_retry                     *)
  caller,         (* per camera: Idle, or the record built by the call     *)
  flusher,        (* the thread in flush, and how its last call returned   *)
  tuner,          (* the thread in set_retry_policy                        *)
  limits,         (* max_queue_size_, batch_size_, max_retries_            *)
  metric,         (* the metric_ counters of records and calls             *)
  clock,          (* history: calls of log_violation begun                 *)
  accepted,       (* history: calls that returned true                     *)
  displaced,      (* history: records dropped as the oldest of the queue   *)
  abandoned       (* history: records of batches given up                  *)

dbVars     == <<dbOpen, dbMutex, dbLocked, rows>>
writerVars == <<batch, writer, writerRunning, writerBusy, attempt>>
threads    == <<caller, flusher, tuner>>
history    == <<clock, accepted, displaced, abandoned>>
vars == <<owner, dbVars, queue, writerVars, threads, limits, metric, history>>

Metrics == [enqueued: Nat, written: Nat, dropped: Nat, coalesced: Nat]

Init ==
  /\ owner = "created"
  /\ dbOpen = FALSE /\ dbMutex = "free" /\ dbLocked = FALSE /\ rows = <<>>
  /\ queue = <<>> /\ batch = <<>>
  /\ writer = "none" /\ writerRunning = FALSE /\ writerBusy = FALSE
  /\ attempt = 0
  /\ caller = [c \in Cameras |-> Idle]
  /\ flusher = "idle" /\ tuner = "idle"
  /\ limits = [queue |-> QueueDefault, batch |-> BatchDefault,
               retries |-> RetriesDefault]
  /\ metric = [enqueued |-> 0, written |-> 0, dropped |-> 0, coalesced |-> 0]
  /\ clock = 0 /\ accepted = {} /\ displaced = <<>> /\ abandoned = <<>>

-----------------------------------------------------------------------------
(* init, called once by the owner.                                         *)

(* The file cannot be opened, or the table cannot be created: init returns *)
(* false and releases db_mutex_; sqlite3_open leaves a handle either way.  *)
InitFails ==
  /\ owner = "created"
  /\ owner' = "failed"
  /\ dbOpen' = TRUE
  /\ UNCHANGED <<dbMutex, dbLocked, rows, queue, writerVars, threads, limits,
                 metric, history>>

(* Database opened, table and columns in place; db_mutex_ is kept.         *)
InitOpens ==
  /\ owner = "created"
  /\ owner' = "cleanup"
  /\ dbOpen' = TRUE
  /\ dbMutex' = "init"
  /\ UNCHANGED <<dbLocked, rows, queue, writerVars, threads, limits, metric,
                 history>>

(* cleanup_old_logs locks db_mutex_ a second time in the same thread:      *)
(* undefined, and on some implementations the thread waits for itself.     *)
InitRelockHangs ==
  /\ owner = "cleanup"
  /\ "hang" \in Relocks
  /\ owner' = "hung"
  /\ UNCHANGED <<dbVars, queue, writerVars, threads, limits, metric, history>>

(* Where the second lock is granted, cleanup deletes rows of earlier days  *)
(* (none of this logger's), the writer starts and init returns true.       *)
InitReturns ==
  /\ owner = "cleanup"
  /\ "proceed" \in Relocks
  /\ owner' = "running"
  /\ dbMutex' = "free"
  /\ writerRunning' = TRUE
  /\ writer' = "loop"
  /\ UNCHANGED <<dbOpen, dbLocked, rows, queue, batch, writerBusy, attempt,
                 threads, limits, metric, history>>

-----------------------------------------------------------------------------
(* log_violation.  The pipeline calls it only after init returned true, so *)
(* db_ is never null here (DatabaseDiscipline).                            *)

(* Take and release db_mutex_ to look at db_, then stamp the record.       *)
LogViolation(c, a) ==
  /\ owner = "running"
  /\ caller[c] = Idle
  /\ clock < MaxCalls
  /\ dbMutex = "free"
  /\ clock' = clock + 1
  /\ caller' = [caller EXCEPT ![c] = Report(c, a, clock + 1)]
  /\ UNCHANGED <<owner, dbVars, queue, writerVars, flusher, tuner, limits,
                 metric, accepted, displaced, abandoned>>

Coalesces(item) == queue # <<>> /\ SameEvent(queue[Len(queue)], item)

(* Under queue_mutex_: fold the record into the tail of the queue.         *)
Coalesce(c) ==
  /\ caller[c] # Idle
  /\ Coalesces(caller[c])
  /\ queue' = [queue EXCEPT ![Len(queue)] = Coalesced(@, caller[c])]
  /\ metric' = [metric EXCEPT !.coalesced = @ + 1]
  /\ accepted' = accepted \cup caller[c].calls
  /\ caller' = [caller EXCEPT ![c] = Idle]
  /\ UNCHANGED <<owner, dbVars, writerVars, flusher, tuner, limits, clock,
                 displaced, abandoned>>

(* Mutant: the queue may hold one record too many before it drops.         *)
FullTooLate == Len(queue) > limits.queue

Full == Len(queue) >= limits.queue

(* Under queue_mutex_: append, dropping the oldest when the queue is full. *)
Enqueue(c) ==
  /\ caller[c] # Idle
  /\ ~Coalesces(caller[c])
  /\ queue' = Append(IF Full THEN Tail(queue) ELSE queue, caller[c])
  /\ displaced' = IF Full THEN Append(displaced, Head(queue)) ELSE displaced
  /\ metric' = [metric EXCEPT !.dropped  = IF Full THEN @ + 1 ELSE @,
                              !.enqueued = @ + 1]
  /\ accepted' = accepted \cup caller[c].calls
  /\ caller' = [caller EXCEPT ![c] = Idle]
  /\ UNCHANGED <<owner, dbVars, writerVars, flusher, tuner, limits, clock,
                 abandoned>>

-----------------------------------------------------------------------------
(* The writer thread: writer_loop and write_batch_with_retry.              *)

(* Mutant: the loop ends when the logger closes, whatever is queued.       *)
LeavesWithWork == writerRunning

(* The condition of the loop.                                              *)
Continues == writerRunning \/ queue # <<>>

WriterLoops ==
  /\ writer = "loop"
  /\ writer' = IF Continues THEN "wait" ELSE "exited"
  /\ UNCHANGED <<owner, dbVars, queue, batch, writerRunning, writerBusy,
                 attempt, threads, limits, metric, history>>

(* wait_for timed out, or the logger is closing, and there is no work.     *)
WriterFindsNothing ==
  /\ writer = "wait"
  /\ queue = <<>>
  /\ writerBusy' = FALSE
  /\ writer' = "loop"
  /\ UNCHANGED <<owner, dbVars, queue, batch, writerRunning, attempt, threads,
                 limits, metric, history>>

(* Mutant: the newest records are taken, the oldest removed.               *)
TakenFromBack(n) == SubSeq(queue, Len(queue) - n + 1, Len(queue))

(* Mutant: one record too many is popped.                                  *)
PopsOneTooMany(n) == SubSeq(queue, n + 2, Len(queue))

Taken(n) == SubSeq(queue, 1, n)
Left(n) == SubSeq(queue, n + 1, Len(queue))

WriterTakesBatch ==
  /\ writer = "wait"
  /\ queue # <<>>
  /\ writerBusy' = TRUE
  /\ LET take == IF limits.batch < Len(queue) THEN limits.batch ELSE Len(queue)
     IN  batch' = Taken(take) /\ queue' = Left(take)
  /\ writer' = "batch"
  /\ UNCHANGED <<owner, dbVars, writerRunning, attempt, threads, limits,
                 metric, history>>

(* db_mutex_ is kept for all the attempts and the pauses between them.     *)
WriterLocksDatabase ==
  /\ writer = "batch"
  /\ dbMutex = "free"
  /\ dbMutex' = "writer"
  /\ writer' = "attempt"
  /\ UNCHANGED <<owner, dbOpen, dbLocked, rows, queue, batch, writerRunning,
                 writerBusy, attempt, threads, limits, metric, history>>

(* One attempt: BEGIN IMMEDIATE, the inserts and COMMIT all succeed.       *)
AttemptCommits ==
  /\ writer = "attempt"
  /\ ~dbLocked
  /\ rows' = rows \o batch
  /\ metric' = [metric EXCEPT !.written = @ + Len(batch)]
  /\ batch' = <<>> /\ attempt' = 0
  /\ dbMutex' = "free"
  /\ writer' = "written"
  /\ UNCHANGED <<owner, dbOpen, dbLocked, queue, writerRunning, writerBusy,
                 threads, limits, history>>

(* Mutant: a record inserted before the lock was met stays in the table.   *)
NotRolledBack == Append(rows, Head(batch))

RolledBack == rows

(* Mutant: an attempt that met a lock is not counted.                      *)
NotCounted == attempt

NextAttempt == attempt + 1

(* A statement met a lock: pause and try again while attempts are left.    *)
AttemptRetries ==
  /\ writer = "attempt"
  /\ dbLocked
  /\ NextAttempt <= limits.retries
  /\ attempt' = NextAttempt
  /\ rows' = RolledBack
  /\ UNCHANGED <<owner, dbOpen, dbMutex, dbLocked, queue, batch, writer,
                 writerRunning, writerBusy, threads, limits, metric, history>>

(* The last attempt met a lock, or a statement failed for another reason   *)
(* and was rolled back.  writer_loop ignores the result: the batch is gone.*)
AttemptGivesUp ==
  /\ writer = "attempt"
  /\ dbLocked => NextAttempt > limits.retries
  /\ abandoned' = abandoned \o batch
  /\ batch' = <<>> /\ attempt' = 0
  /\ dbMutex' = "free"
  /\ writer' = "written"
  /\ UNCHANGED <<owner, dbOpen, dbLocked, rows, queue, writerRunning,
                 writerBusy, threads, limits, metric, clock, accepted,
                 displaced>>

WriterSettles ==
  /\ writer = "written"
  /\ writerBusy' = IF queue = <<>> THEN FALSE ELSE writerBusy
  /\ writer' = "loop"
  /\ UNCHANGED <<owner, dbVars, queue, batch, writerRunning, attempt, threads,
                 limits, metric, history>>

Writer ==
  \/ WriterLoops \/ WriterFindsNothing \/ WriterTakesBatch
  \/ WriterLocksDatabase \/ AttemptCommits \/ AttemptRetries \/ AttemptGivesUp
  \/ WriterSettles

-----------------------------------------------------------------------------
(* flush, the two setters, and the other connection to the database file.  *)

(* Mutant: a batch in flight does not delay flush.                         *)
QueueIsEmpty == queue = <<>>

Quiet == queue = <<>> /\ ~writerBusy

FlushCalled ==
  /\ owner = "running"
  /\ flusher # "waiting"
  /\ flusher' = "waiting"
  /\ UNCHANGED <<owner, dbVars, queue, writerVars, caller, tuner, limits,
                 metric, history>>

(* Woken, or timed out (then back to "idle"): flush returns its predicate. *)
FlushReturns ==
  /\ flusher = "waiting"
  /\ flusher' = IF Quiet THEN "flushed" ELSE "idle"
  /\ UNCHANGED <<owner, dbVars, queue, writerVars, caller, tuner, limits,
                 metric, history>>

SetQueueLimits(q, b) ==
  /\ owner = "running"
  /\ tuner = "idle"
  /\ limits' = [limits EXCEPT !.queue = AtLeast(QueueFloor, q),
                              !.batch = AtLeast(1, b)]
  /\ UNCHANGED <<owner, dbVars, queue, writerVars, threads, metric, history>>

(* max_retries_ changes before db_mutex_ is taken, even during an attempt. *)
SetRetryPolicy(r) ==
  /\ owner = "running"
  /\ tuner = "idle"
  /\ limits' = [limits EXCEPT !.retries = AtLeast(0, r)]
  /\ tuner' = "timeout"
  /\ UNCHANGED <<owner, dbVars, queue, writerVars, caller, flusher, metric,
                 history>>

(* sqlite3_busy_timeout under db_mutex_; the wait inside SQLite is part of *)
(* the outcome "locked" of an attempt.                                     *)
SetBusyTimeout ==
  /\ tuner = "timeout"
  /\ dbMutex = "free"
  /\ tuner' = "idle"
  /\ UNCHANGED <<owner, dbVars, queue, writerVars, caller, flusher, limits,
                 metric, history>>

OtherConnection ==
  /\ dbLocked' = ~dbLocked
  /\ UNCHANGED <<owner, dbOpen, dbMutex, rows, queue, writerVars, threads,
                 limits, metric, history>>

-----------------------------------------------------------------------------
(* The destructor.  Destroying an object other threads still use is the    *)
(* owner's mistake, so it starts when no call is in progress.              *)

DestructorStops ==
  /\ owner \in {"running", "failed"}
  /\ \A c \in Cameras : caller[c] = Idle
  /\ flusher # "waiting" /\ tuner = "idle"
  /\ owner' = "joining"
  /\ writerRunning' = FALSE
  /\ UNCHANGED <<dbVars, queue, batch, writer, writerBusy, attempt, threads,
                 limits, metric, history>>

(* Mutant: the database is closed without waiting for the writer.          *)
NotJoined == TRUE

(* A writer that was never started is not joinable.                        *)
Joined == writer \in {"none", "exited"}

DestructorCloses ==
  /\ owner = "joining"
  /\ Joined
  /\ dbMutex = "free"
  /\ owner' = "destroyed"
  /\ dbOpen' = FALSE
  /\ UNCHANGED <<dbMutex, dbLocked, rows, queue, writerVars, threads, limits,
                 metric, history>>

-----------------------------------------------------------------------------
Next ==
  \/ InitFails \/ InitOpens \/ InitRelockHangs \/ InitReturns
  \/ \E c \in Cameras, a \in Actors : LogViolation(c, a)
  \/ \E c \in Cameras : Coalesce(c) \/ Enqueue(c)
  \/ Writer
  \/ FlushCalled \/ FlushReturns
  \/ \E q \in QueueRequests, b \in BatchRequests : SetQueueLimits(q, b)
  \/ \E r \in RetryRequests : SetRetryPolicy(r)
  \/ SetBusyTimeout
  \/ OtherConnection
  \/ DestructorStops \/ DestructorCloses

Spec == Init /\ [][Next]_vars

(* Every thread the process owns keeps running; nobody has to call init,   *)
(* log_violation, flush, a setter or the destructor, and the other         *)
(* connection owes nothing.                                                *)
Fairness ==
  /\ WF_vars(InitRelockHangs \/ InitReturns)
  /\ \A c \in Cameras : WF_vars(Coalesce(c) \/ Enqueue(c))
  /\ WF_vars(Writer)
  /\ WF_vars(FlushReturns)
  /\ WF_vars(DestructorCloses)

FairSpec == Spec /\ Fairness
-----------------------------------------------------------------------------
(* Properties.                                                             *)

settled == CallsOf(rows) \cup CallsOf(displaced) \cup CallsOf(abandoned)

(* Every variable has its type, and the limits stay above their floors.    *)
TypeOK ==
  /\ owner \in {"created", "cleanup", "hung", "failed", "running", "joining",
               "destroyed"}
  /\ dbOpen \in BOOLEAN
  /\ dbMutex \in {"free", "init", "writer"}
  /\ dbLocked \in BOOLEAN
  /\ rows \in Seq(QueuedViolation)
  /\ queue \in Seq(QueuedViolation)
  /\ batch \in Seq(QueuedViolation)
  /\ writer \in {"none", "loop", "wait", "batch", "attempt", "written",
                "exited"}
  /\ writerRunning \in BOOLEAN
  /\ writerBusy \in BOOLEAN
  /\ attempt \in Nat
  /\ caller \in [Cameras -> QueuedViolation \cup {Idle}]
  /\ flusher \in {"idle", "waiting", "flushed"}
  /\ tuner \in {"idle", "timeout"}
  /\ limits \in [queue: Nat, batch: Nat, retries: Nat]
  /\ limits.queue >= QueueFloor /\ limits.batch >= 1
  /\ metric \in Metrics
  /\ clock \in 0 .. MaxCalls
  /\ accepted \subseteq Calls
  /\ displaced \in Seq(QueuedViolation)
  /\ abandoned \in Seq(QueuedViolation)

(* The early returns on a null db_ in log_violation (152) and in the writer*)
(* (202) never happen between init and the destructor, no two threads use  *)
(* the connection at a time, and writer_busy_ is up whenever a batch is in *)
(* flight.                                                                 *)
DatabaseDiscipline ==
  /\ owner = "running" \/ writer \notin {"none", "exited"} => dbOpen
  /\ dbMutex = "writer" <=> writer = "attempt"
  /\ dbMutex = "init" <=> owner \in {"cleanup", "hung"}
  /\ batch # <<>> <=> writer \in {"batch", "attempt"}
  /\ batch # <<>> => writerBusy

(* No record disappears between two threads: every record counted as       *)
(* enqueued is in the queue, in the writer's batch, counted as written,    *)
(* counted as dropped, or in a batch given up, and the counters agree with *)
(* the table.  The writer moves records between these under two different  *)
(* locks and counts them at other places (lines 170-193, 273-295, 313-332).*)
RecordsAccountedFor ==
  /\ metric.enqueued = metric.written + metric.dropped + Len(abandoned)
                       + Len(batch) + Len(queue)
  /\ metric.written = Len(rows)
  /\ metric.dropped = Len(displaced)

(* Records of one camera reach the table in the order of their calls and   *)
(* no call is stored twice, across coalescing, drops, retries and batches: *)
(* each call of a later record is later than each call of an earlier one.  *)
StoredInOrder ==
  LET line == rows \o batch \o queue
  IN  \A i, j \in DOMAIN line :
        i < j /\ line[i].camera = line[j].camera =>
          \A t \in line[i].calls, u \in line[j].calls : t < u

(* flush is a barrier: it returns true only when every call that has       *)
(* returned is settled, none is still in the queue or in a batch.          *)
FlushIsABarrier ==
  [][flusher = "waiting" /\ flusher' = "flushed" => accepted = settled]_vars

(* Backpressure: the queue never grows beyond the limit in force, whatever *)
(* set_queue_limits did while records were queued.                         *)
QueueStaysBounded ==
  [][Len(queue') > Len(queue) => Len(queue') <= limits.queue]_vars

(* The logger implements the lossy ordered ledger: its backlog is the      *)
(* batch in flight followed by the queue.                                  *)
Ledger == INSTANCE ViolationLedger
            WITH backlog <- batch \o queue, stored <- rows,
                 Floor <- QueueFloor
LedgerSpec == Ledger!Spec

(* Every accepted violation is eventually stored or visibly given up, even *)
(* if the other connection keeps locking the file.                         *)
EveryViolationSettles ==
  \A t \in Calls : t \in accepted ~> t \in settled

(* The destructor returns, after the writer settled all that was accepted. *)
DestructorDrains ==
  owner = "joining" ~> owner = "destroyed" /\ accepted = settled

(* What the repository says and the code does not do, each violated.       *)

(* tests/unit/utils/test_violation_logger.cpp:27, "EXPECT_TRUE(logger.init *)
(* (db_path))": init comes back.  It does not where a std::mutex locked    *)
(* twice by its owner waits (violation_logger.cpp:60, 115, 361).           *)
InitComesBack == owner = "cleanup" ~> owner \notin {"cleanup", "hung"}
=============================================================================
