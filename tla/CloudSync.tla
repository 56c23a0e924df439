------------------------------ MODULE CloudSync ------------------------------
(***************************************************************************)
(* The way of a stored violation to the cloud.  The tiling thread of the   *)
(* pipeline manager reads a batch of rows not yet uploaded, hands it to    *)
(* the MQTT client and marks the rows (PipelineManager::updateTiledView);  *)
(* the hand-over is asynchronous, the client may be replaced while a       *)
(* message is in flight, the process may be killed between any two steps,  *)
(* and the machine may lose its power with the last transactions.          *)
(***************************************************************************)
EXTENDS Integers, FiniteSets, FiniteSetsExt, Functions

CONSTANTS
  NumEvents,   (* bound: violations that the writer stores                 *)
  BatchSize,   (* limit of get_pending_uploads (5)                         *)
  MaxFaults    (* bound: kills, power failures, marks that fail            *)

ASSUME CloudSyncAssumption ==
  /\ NumEvents \in Nat
  /\ BatchSize \in Nat \ {0}
  /\ MaxFaults \in Nat

VARIABLES
  table,     (* id -> the row of the table violations                      *)
  lastId,    (* sqlite_sequence of the table (AUTOINCREMENT)               *)
  durable,   (* table and lastId as a power failure would leave them       *)
  pc,        (* where the tiling thread is in its cloud sync               *)
  batch,     (* pending: the rows it read                                  *)
  client,    (* client_ of the MQTTClient                                  *)
  inflight,  (* messages handed to client_ and not acknowledged            *)
  arrived,   (* <<id, event>> the broker has received                      *)
  stored,    (* history: number of events the writer has stored            *)
  handed,    (* history: event -> how often a client has got it since a    *)
             (*   fault last forgot that one had                           *)
  dropped,   (* history: events in flight in a client that was destroyed   *)
  faults,    (* number of faults                                           *)
  powerCut   (* history: power has failed                                  *)

database == <<table, lastId, durable, stored>>
syncVars == <<pc, batch, handed>>
session  == <<client, inflight, arrived, dropped>>
faultVars == <<faults, powerCut>>
vars == <<database, syncVars, session, faultVars>>

(* Violations, numbered in the order in which they are stored.            *)
Events == 1 .. NumEvents

Row == [event : Events, uploaded : BOOLEAN]

(* The ids a message or a batch may name: ids are not reused, so there are *)
(* no more than events.                                                    *)
Ids == Events

Running == client # "killed"
Connected == client = "connected"

(* What a message says: its ids with the event of each.                    *)
Message(ids) == {<<i, table[i].event>> : i \in ids}
EventsIn(messages) == {p[2] : p \in UNION messages}

Marked == {table[i].event : i \in {j \in DOMAIN table : table[j].uploaded}}
Removed == (1 .. stored) \ {table[i].event : i \in DOMAIN table}
Arrived == {p[2] : p \in arrived}
InFlight == EventsIn(inflight)

Init ==
  /\ table = <<>>
  /\ lastId = 0
  /\ durable = [table |-> <<>>, lastId |-> 0]
  /\ pc = "idle"
  /\ batch = {}
  /\ client = "new"
  /\ inflight = {}
  /\ arrived = {}
  /\ stored = 0
  /\ handed = [e \in Events |-> 0]
  /\ dropped = {}
  /\ faults = 0
  /\ powerCut = FALSE

-----------------------------------------------------------------------------
(* The writer thread stores the next violation.                            *)

(* Mutant: INTEGER PRIMARY KEY without AUTOINCREMENT.                      *)
OneAboveTheRows == Max(DOMAIN table \cup {0}) + 1

NextId == lastId + 1

Store ==
  /\ Running
  /\ stored + 1 \in Events
  /\ stored' = stored + 1
  /\ table' = [i \in DOMAIN table \cup {NextId} |->
                 IF i = NextId THEN [event |-> stored', uploaded |-> FALSE]
                               ELSE table[i]]
  /\ lastId' = NextId
  /\ UNCHANGED <<durable, syncVars, session, faultVars>>

(* SQLite checkpoints its log, or the system happens to flush it: with     *)
(* synchronous=NORMAL no commit waits for that.                            *)
Checkpoint ==
  /\ durable' = [table |-> table, lastId |-> lastId]
  /\ UNCHANGED <<table, lastId, stored, syncVars, session, faultVars>>

-----------------------------------------------------------------------------
(* The cloud sync of the tiling thread, once in ten seconds.               *)

(* Mutant: the newest row is left for the next round.                      *)
AllButNewest == {i \in DOMAIN table : ~table[i].uploaded /\ i < lastId}

Pending == {i \in DOMAIN table : ~table[i].uploaded}

(* Mutant: the query forgets its LIMIT.                                    *)
WithoutLimit(ids) == ids

(* A scan by id, since no index and no ORDER BY is given.                  *)
Limited(ids) ==
  {i \in ids : Cardinality({j \in ids : j < i}) < BatchSize}

ReadPending ==
  /\ pc = "idle" /\ Connected
  /\ Pending # {}
  /\ batch' = Limited(Pending)
  /\ pc' = "read"
  /\ UNCHANGED <<database, handed, session, faultVars>>

(* Mutant: the result of publish is ignored.                               *)
AcceptedAlways == TRUE

(* MQTTClient::publish returns true as soon as the client has the message. *)
Accepted == Connected

(* A batch that is not accepted waits for the next round.                  *)
Publish ==
  /\ pc = "read"
  /\ IF Connected
       THEN /\ inflight' = inflight \cup {Message(batch)}
            /\ handed' = [e \in Events |->
                 IF e \in EventsIn({Message(batch)}) THEN handed[e] + 1
                                                     ELSE handed[e]]
       ELSE UNCHANGED <<inflight, handed>>
  /\ IF Accepted
       THEN pc' = "handed" /\ UNCHANGED batch
       ELSE pc' = "idle" /\ batch' = {}
  /\ UNCHANGED <<database, client, arrived, dropped, faultVars>>

(* Mutant: the last id is left out of the list.                            *)
AllButLast(ids) == ids \ {Max(ids)}

Listed(ids) == ids

MarkUploaded ==
  /\ pc = "handed"
  /\ table' = [i \in DOMAIN table |->
                 [table[i] EXCEPT !.uploaded = @ \/ i \in Listed(batch)]]
  /\ pc' = "idle"
  /\ batch' = {}
  /\ UNCHANGED <<lastId, durable, stored, handed, session, faultVars>>

(* A fault that keeps events from being marked makes them pending again.   *)
Forgets(events) ==
  handed' = [e \in Events |-> IF e \in events THEN 0 ELSE handed[e]]

(* Another connection holds the lock: the error is logged, nothing more.   *)
MarkFails ==
  /\ pc = "handed"
  /\ faults < MaxFaults
  /\ faults' = faults + 1
  /\ Forgets({table[i].event : i \in batch})
  /\ pc' = "idle"
  /\ batch' = {}
  /\ UNCHANGED <<database, session, powerCut>>

-----------------------------------------------------------------------------
(* The session with the broker.                                            *)

ConnectionBreaks ==
  /\ Connected
  /\ client' = "broken"
  /\ UNCHANGED <<database, syncVars, inflight, arrived, dropped, faultVars>>

(* The library reconnects a client that was connected before and sends     *)
(* again what is in flight.                                                *)
LibraryReconnects ==
  /\ client = "broken"
  /\ client' = "connected"
  /\ UNCHANGED <<database, syncVars, inflight, arrived, dropped, faultVars>>

(* ensureMQTTConnected, between two rounds of the thread: a client that is *)
(* not connected is replaced, and forgets its messages.                    *)
Replaces(outcome) ==
  /\ pc = "idle" /\ Running /\ ~Connected
  /\ client' = outcome
  /\ inflight' = {}
  /\ dropped' = dropped \cup (InFlight \ Arrived)
  /\ UNCHANGED <<database, syncVars, arrived, faultVars>>

Connects == Replaces("connected")
ConnectFails == Replaces("new")

(* A message reaches the broker; without its acknowledgement it stays in   *)
(* flight and is sent again.                                               *)
Arrives ==
  /\ Connected
  /\ \E m \in inflight :
       /\ arrived' = arrived \cup m
       /\ inflight' \in {inflight, inflight \ {m}}
  /\ UNCHANGED <<database, syncVars, client, dropped, faultVars>>

-----------------------------------------------------------------------------
(* The process is killed, exits or crashes; it is started again by docker. *)

Ends ==
  /\ Running
  /\ faults < MaxFaults
  /\ faults' = faults + 1
  /\ pc' = "idle"
  /\ batch' = {}
  /\ client' = "killed"
  /\ inflight' = {}
  /\ dropped' = dropped \cup (InFlight \ Arrived)
  /\ UNCHANGED arrived

Killed ==
  /\ Ends
  /\ Forgets(IF pc = "handed" THEN {table[i].event : i \in batch} ELSE {})
  /\ UNCHANGED <<database, powerCut>>

(* The commits after the last checkpoint are gone, marks and rows alike.   *)
PowerFails ==
  /\ Ends
  /\ powerCut' = TRUE
  /\ table' = durable.table
  /\ lastId' = durable.lastId
  /\ Forgets(Events \ Marked')
  /\ UNCHANGED <<durable, stored>>

(* init: rows older than the retention are deleted, uploaded or not.       *)
Restart ==
  /\ ~Running
  /\ client' = "new"
  /\ \E cut \in 0 .. lastId :
       table' = Restrict(table, {i \in DOMAIN table : i > cut})
  /\ UNCHANGED <<lastId, durable, stored, syncVars, inflight, arrived,
                 dropped, faultVars>>

-----------------------------------------------------------------------------
Next ==
  \/ Store \/ Checkpoint
  \/ ReadPending \/ Publish \/ MarkUploaded \/ MarkFails
  \/ ConnectionBreaks \/ LibraryReconnects \/ Connects \/ ConnectFails
  \/ Arrives
  \/ Killed \/ PowerFails \/ Restart

(* Docker restarts the process, the tiling thread goes on, and the broker  *)
(* is up again and again for long enough to connect, to take a message and *)
(* to acknowledge it.                                                      *)
Fairness ==
  /\ WF_vars(Restart)
  /\ WF_vars(MarkUploaded)
  /\ WF_vars(Publish)
  /\ SF_vars(Publish /\ Connected)
  /\ SF_vars(ReadPending)
  /\ SF_vars(Connects)
  /\ SF_vars(Arrives)

Spec == Init /\ [][Next]_vars
FairSpec == Spec /\ Fairness

-----------------------------------------------------------------------------
(* Every variable has its type, and a batch respects its limit.            *)
TypeOK ==
  /\ DOMAIN table \subseteq Ids
  /\ \A i \in DOMAIN table : table[i] \in Row
  /\ lastId \in {0} \cup Ids
  /\ DOMAIN durable.table \subseteq Ids
  /\ \A i \in DOMAIN durable.table : durable.table[i] \in Row
  /\ durable.lastId \in {0} \cup Ids
  /\ pc \in {"idle", "read", "handed"}
  /\ batch \subseteq Ids
  /\ Cardinality(batch) <= BatchSize
  /\ client \in {"new", "connected", "broken", "killed"}
  /\ inflight \subseteq SUBSET (Ids \X Events)
  /\ arrived \subseteq Ids \X Events
  /\ stored \in {0} \cup Events
  /\ handed \in [Events -> Nat]
  /\ dropped \subseteq Events
  /\ faults \in 0 .. MaxFaults
  /\ powerCut \in BOOLEAN

(* A row marked as uploaded has reached the broker, or its message is in   *)
(* flight, or it was in flight in a client that was destroyed: that is the *)
(* only way in which the cloud misses a row that looks uploaded            *)
(* (MQTTClient::publish returns before the acknowledgement).               *)
UploadedIsAccountedFor == Marked \subseteq Arrived \cup InFlight \cup dropped

(* A record is handed to a client again only if a mark that failed, a kill *)
(* before the mark or a power failure forgot that one had it: the batch    *)
(* read, published and marked is the same, whatever is stored meanwhile.   *)
ResentOnlyWhenForgotten == \A e \in Events : handed[e] <= 1

(* As long as the power has not failed, the cloud never receives two       *)
(* violations under one id, retention and restarts notwithstanding; after  *)
(* a power failure it may, since the sequence of ids is set back too.      *)
IdNamesOneViolation ==
  ~powerCut => \A p, q \in arrived : p[1] = q[1] => p = q

(* Everything that is stored reaches the broker, or was lost with a        *)
(* destroyed client, or was removed by retention or with the power.        *)
EveryRecordSettles ==
  \A e \in Events :
    stored >= e ~> e \in Arrived \cup dropped \/ e \in Removed
=============================================================================
