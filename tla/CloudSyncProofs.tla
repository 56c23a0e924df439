--------------------------- MODULE CloudSyncProofs ---------------------------
(***************************************************************************)
(* For any number of violations, any batch and any number of faults: what  *)
(* is marked as uploaded is accounted for, nothing is handed over twice    *)
(* unless a fault forgot it, and before the first power failure an id      *)
(* names one violation.                                                    *)
(***************************************************************************)
EXTENDS CloudSync, FiniteSetTheorems, TLAPS

-----------------------------------------------------------------------------
(* The shape of the state.                                                 *)

(* A table: ids up to the sequence, events up to the last one stored, no   *)
(* event twice.                                                            *)
Sound(t, last) ==
  /\ last \in Nat
  /\ \A i \in DOMAIN t : /\ i \in Nat /\ i <= last
                         /\ t[i] \in Row
                         /\ t[i].event <= stored
  /\ \A i, j \in DOMAIN t : t[i].event = t[j].event => i = j

Base ==
  /\ stored \in Nat
  /\ Sound(table, lastId)
  /\ Sound(durable.table, durable.lastId)
  /\ handed \in [Events -> Nat]
  /\ pc \in {"idle", "read", "handed"}
  /\ pc = "idle" => batch = {}
  /\ batch \subseteq DOMAIN table
  /\ ~Running => pc = "idle"

LEMMA InitBase == Init => Base
BY CloudSyncAssumption DEF Init, Base, Sound, Running, Row, Events

(* Storing the next violation keeps a table sound: its id and its event    *)
(* are new.                                                                *)
LEMMA StoreIsSound ==
  ASSUME Base, Store
  PROVE  /\ Sound(table, lastId)'
         /\ DOMAIN table \subseteq DOMAIN table'
         /\ \A i \in DOMAIN table : table'[i] = table[i]
         /\ DOMAIN table' = DOMAIN table \cup {NextId}
         /\ table'[NextId] = [event |-> stored + 1, uploaded |-> FALSE]
         /\ NextId \notin DOMAIN table
<1>1. lastId \in Nat /\ stored \in Nat /\ NextId = lastId + 1
  BY DEF Base, Sound, NextId
<1>2. NextId \notin DOMAIN table
  BY <1>1 DEF Base, Sound
<1>3. /\ stored' = stored + 1 /\ stored' \in Events
      /\ lastId' = NextId
      /\ table' = [i \in DOMAIN table \cup {NextId} |->
                     IF i = NextId THEN [event |-> stored', uploaded |-> FALSE]
                                   ELSE table[i]]
  BY DEF Store
<1>4. DOMAIN table' = DOMAIN table \cup {NextId}
  BY <1>3
<1>5. \A i \in DOMAIN table : table'[i] = table[i]
  BY <1>2, <1>3
<1>6. table'[NextId] = [event |-> stored + 1, uploaded |-> FALSE]
  BY <1>3
<1>7. \A i \in DOMAIN table : /\ i \in Nat /\ i <= lastId
                              /\ table[i] \in Row /\ table[i].event <= stored
  BY DEF Base, Sound
<1>8. \A i \in DOMAIN table' : /\ i \in Nat /\ i <= lastId'
                               /\ table'[i] \in Row
                               /\ table'[i].event <= stored'
  <2> SUFFICES ASSUME NEW i \in DOMAIN table'
               PROVE  /\ i \in Nat /\ i <= lastId'
                      /\ table'[i] \in Row
                      /\ table'[i].event <= stored'
    OBVIOUS
  <2>1. CASE i = NextId
    BY <1>1, <1>3, <1>6, <2>1 DEF Row, Events
  <2>2. CASE i \in DOMAIN table
    BY <1>1, <1>3, <1>5, <1>7, <2>2, CloudSyncAssumption DEF Row, Events
  <2> QED
    BY <1>4, <2>1, <2>2
<1>9. \A i, j \in DOMAIN table' :
        table'[i].event = table'[j].event => i = j
  <2>1. \A i, j \in DOMAIN table : table[i].event = table[j].event => i = j
    BY DEF Base, Sound
  <2>2. \A i \in DOMAIN table : table'[i].event # table'[NextId].event
    BY <1>1, <1>5, <1>6, <1>7, CloudSyncAssumption DEF Row, Events
  <2> QED
    BY <1>4, <1>5, <2>1, <2>2
<1> QED
  BY <1>1, <1>2, <1>3, <1>4, <1>5, <1>6, <1>8, <1>9 DEF Sound

(* Marking rows changes nothing but their flags.                           *)
LEMMA MarkKeepsRows ==
  ASSUME Base, MarkUploaded
  PROVE  /\ Sound(table, lastId)'
         /\ DOMAIN table' = DOMAIN table
         /\ \A i \in DOMAIN table :
              /\ table'[i].event = table[i].event
              /\ table'[i].uploaded = (table[i].uploaded \/ i \in batch)
<1>1. table' = [i \in DOMAIN table |->
                  [table[i] EXCEPT !.uploaded = @ \/ i \in batch]]
  BY DEF MarkUploaded, Listed
<1>2. \A i \in DOMAIN table : table[i] \in Row
  BY DEF Base, Sound
<1>3. \A i \in DOMAIN table :
        /\ table'[i].event = table[i].event
        /\ table'[i].uploaded = (table[i].uploaded \/ i \in batch)
        /\ table'[i] \in Row
  BY <1>1, <1>2 DEF Row
<1>4. DOMAIN table' = DOMAIN table /\ lastId' = lastId /\ stored' = stored
  BY <1>1 DEF MarkUploaded
<1> QED
  BY <1>3, <1>4 DEF Base, Sound

(* Retention removes rows and changes none.                                *)
LEMMA RestartKeepsRows ==
  ASSUME Base, Restart
  PROVE  /\ Sound(table, lastId)'
         /\ DOMAIN table' \subseteq DOMAIN table
         /\ \A i \in DOMAIN table' : table'[i] = table[i]
<1>1. PICK cut \in 0 .. lastId :
        table' = Restrict(table, {i \in DOMAIN table : i > cut})
  BY DEF Restart
<1>2. /\ DOMAIN table' \subseteq DOMAIN table
      /\ \A i \in DOMAIN table' : table'[i] = table[i]
  BY <1>1 DEF Restrict
<1>3. lastId' = lastId /\ stored' = stored
  BY DEF Restart
<1> QED
  BY <1>2, <1>3 DEF Base, Sound

LEMMA LimitedIsPart == Limited(Pending) \subseteq DOMAIN table
BY DEF Limited, Pending

LEMMA NextBase == Base /\ [Next]_vars => Base'
<1> SUFFICES ASSUME Base, [Next]_vars PROVE Base'
  OBVIOUS
<1>1. CASE Store
  <2>1. Sound(durable.table, durable.lastId)'
    BY <1>1 DEF Base, Sound, Store, Row, Events
  <2> QED
    BY <1>1, <2>1, StoreIsSound DEF Base, Store, syncVars, session, Running
<1>2. CASE Checkpoint
  BY <1>2 DEF Base, Sound, Checkpoint, syncVars, session, Running
<1>3. CASE ReadPending
  BY <1>3, LimitedIsPart
    DEF Base, Sound, ReadPending, database, session, Running, Connected
<1>4. CASE Publish
  BY <1>4 DEF Base, Sound, Publish, database, Running
<1>5. CASE MarkUploaded
  BY <1>5, MarkKeepsRows
    DEF Base, Sound, MarkUploaded, session, Running
<1>6. CASE MarkFails
  BY <1>6 DEF Base, Sound, MarkFails, Forgets, database, session, Running
<1>7. CASE ConnectionBreaks
  BY <1>7 DEF Base, Sound, ConnectionBreaks, database, syncVars, Connected,
              Running
<1>8. CASE LibraryReconnects
  BY <1>8 DEF Base, Sound, LibraryReconnects, database, syncVars, Running
<1>9. CASE Connects \/ ConnectFails
  BY <1>9 DEF Base, Sound, Connects, ConnectFails, Replaces, database,
              syncVars, Running
<1>10. CASE Arrives
  BY <1>10 DEF Base, Sound, Arrives, database, syncVars, Running
<1>11. CASE Killed
  BY <1>11 DEF Base, Sound, Killed, Ends, Forgets, database, Running
<1>12. CASE PowerFails
  BY <1>12 DEF Base, Sound, PowerFails, Ends, Forgets, Running
<1>13. CASE Restart
  <2>1. pc = "idle" /\ batch = {}
    BY <1>13 DEF Base, Restart
  <2> QED
    BY <1>13, <2>1, RestartKeepsRows DEF Base, Sound, Restart, syncVars
<1>14. CASE UNCHANGED vars
  BY <1>14 DEF Base, Sound, vars, database, syncVars, session, Running
<1> QED
  BY <1>1, <1>2, <1>3, <1>4, <1>5, <1>6, <1>7, <1>8, <1>9, <1>10, <1>11,
     <1>12, <1>13, <1>14 DEF Next

-----------------------------------------------------------------------------
(* What is marked is accounted for.                                        *)

Known == Arrived \cup InFlight \cup dropped

(* The batch handed over, and the marks that a power failure would bring   *)
(* back, have to be accounted for too.                                     *)
Account ==
  /\ \A i \in DOMAIN table : table[i].uploaded => table[i].event \in Known
  /\ \A i \in DOMAIN durable.table :
       durable.table[i].uploaded => durable.table[i].event \in Known
  /\ pc = "handed" => \A i \in batch : table[i].event \in Known

(* A message once handed over stays known: it arrives, or is in flight, or *)
(* was in flight in a client that is gone.                                 *)
LEMMA KnownGrows == [Next]_vars => Known \subseteq Known'
<1> SUFFICES ASSUME [Next]_vars PROVE Known \subseteq Known'
  OBVIOUS
<1> USE DEF Known, Arrived, InFlight, EventsIn
<1>1. CASE UNCHANGED <<inflight, arrived, dropped>>
  BY <1>1
<1>2. CASE Publish
  BY <1>2 DEF Publish
<1>3. CASE Connects \/ ConnectFails
  BY <1>3 DEF Connects, ConnectFails, Replaces
<1>4. CASE Killed \/ PowerFails
  BY <1>4 DEF Killed, PowerFails, Ends
<1>5. CASE Arrives
  <2>1. PICK m \in inflight : /\ arrived' = arrived \cup m
                              /\ inflight' \in {inflight, inflight \ {m}}
    BY <1>5 DEF Arrives
  <2>2. dropped' = dropped
    BY <1>5 DEF Arrives
  <2>3. ASSUME NEW p \in UNION inflight
        PROVE  p \in arrived' \/ p \in UNION inflight'
    BY <2>1
  <2> QED
    BY <2>1, <2>2, <2>3
<1> QED
  BY <1>1, <1>2, <1>3, <1>4, <1>5
    DEF Next, vars, Store, Checkpoint, ReadPending, MarkUploaded, MarkFails,
        ConnectionBreaks, LibraryReconnects, Restart, session

LEMMA InitAccount == Init => Account
BY DEF Init, Account

LEMMA NextAccount == Base /\ Account /\ [Next]_vars => Account'
<1> SUFFICES ASSUME Base, Account, [Next]_vars PROVE Account'
  OBVIOUS
<1> USE KnownGrows
<1>1. CASE Store
  <2>1. batch' = batch /\ pc' = pc /\ durable' = durable
    BY <1>1 DEF Store, syncVars
  <2>2. \A i \in DOMAIN table' :
          table'[i].uploaded => i \in DOMAIN table /\ table'[i] = table[i]
    BY <1>1, StoreIsSound
  <2>3. \A i \in batch : table'[i] = table[i]
    BY <1>1, StoreIsSound DEF Base
  <2> QED
    BY <2>1, <2>2, <2>3 DEF Account
<1>2. CASE Checkpoint
  BY <1>2 DEF Account, Checkpoint, syncVars
<1>3. CASE ReadPending
  BY <1>3 DEF Account, ReadPending, database
<1>4. CASE Publish
  <2>1. table' = table /\ durable' = durable
    BY <1>4 DEF Publish, database
  <2>2. ASSUME pc' = "handed"
        PROVE  \A i \in batch' : table'[i].event \in Known'
    <3>1. inflight' = inflight \cup {Message(batch)} /\ batch' = batch
      BY <1>4, <2>2 DEF Publish, Accepted
    <3>2. ASSUME NEW i \in batch PROVE table[i].event \in InFlight'
      <4>1. <<i, table[i].event>> \in Message(batch)
        BY DEF Message
      <4>2. <<i, table[i].event>> \in UNION inflight'
        BY <3>1, <4>1
      <4> QED
        BY <4>2 DEF InFlight, EventsIn
    <3> QED
      BY <2>1, <3>1, <3>2 DEF Known
  <2> QED
    BY <2>1, <2>2 DEF Account
<1>5. CASE MarkUploaded
  <2>1. /\ pc = "handed" /\ pc' # "handed" /\ durable' = durable
    BY <1>5 DEF MarkUploaded
  <2> QED
    BY <1>5, <2>1, MarkKeepsRows DEF Account
<1>6. CASE MarkFails
  BY <1>6 DEF Account, MarkFails, database
<1>7. CASE ConnectionBreaks \/ LibraryReconnects \/ Arrives
  BY <1>7 DEF Account, ConnectionBreaks, LibraryReconnects, Arrives, database,
              syncVars
<1>8. CASE Connects \/ ConnectFails
  BY <1>8 DEF Account, Connects, ConnectFails, Replaces, database, syncVars
<1>9. CASE Killed
  BY <1>9 DEF Account, Killed, Ends, database
<1>10. CASE PowerFails
  BY <1>10 DEF Account, PowerFails, Ends
<1>11. CASE Restart
  <2>1. pc' = pc /\ batch' = batch /\ durable' = durable /\ pc # "handed"
    BY <1>11 DEF Base, Restart, syncVars
  <2> QED
    BY <1>11, <2>1, RestartKeepsRows DEF Account
<1>12. CASE UNCHANGED vars
  BY <1>12 DEF Account, vars, database, syncVars
<1> QED
  BY <1>1, <1>2, <1>3, <1>4, <1>5, <1>6, <1>7, <1>8, <1>9, <1>10, <1>11,
     <1>12 DEF Next

(* Whatever breaks, a row marked as uploaded has reached the broker, or is *)
(* in flight, or was in flight in a client that is gone.                   *)
THEOREM UploadsAreAccountedFor == Spec => []UploadedIsAccountedFor
<1>1. Account => UploadedIsAccountedFor
  BY DEF Account, Known, UploadedIsAccountedFor, Marked
<1> QED
  BY <1>1, InitBase, NextBase, InitAccount, NextAccount, PTL DEF Spec
-----------------------------------------------------------------------------
(* Nothing is handed over twice.                                           *)

(* What has not been marked and is not about to be has not been handed     *)
(* over since a fault last forgot it.                                      *)
Handing ==
  /\ \A e \in Events : handed[e] <= 1
  /\ \A e \in Events : e > stored => handed[e] = 0
  /\ \A i \in DOMAIN table :
       ~table[i].uploaded /\ ~(pc = "handed" /\ i \in batch)
         => handed[table[i].event] = 0
  /\ \A i \in batch : ~table[i].uploaded

LEMMA InitHanding == Init => Handing
BY DEF Init, Handing

LEMMA EventsOfMessage ==
  ASSUME NEW ids
  PROVE  EventsIn({Message(ids)}) = {table[i].event : i \in ids}
<1>1. UNION {Message(ids)} = Message(ids)
  OBVIOUS
<1>2. EventsIn({Message(ids)}) = {p[2] : p \in Message(ids)}
  BY <1>1 DEF EventsIn
<1>3. ASSUME NEW i \in ids
      PROVE  table[i].event \in {p[2] : p \in Message(ids)}
  <2>1. <<i, table[i].event>> \in Message(ids)
    BY DEF Message
  <2> QED
    BY <2>1
<1>4. ASSUME NEW p \in Message(ids)
      PROVE  p[2] \in {table[i].event : i \in ids}
  BY DEF Message
<1> QED
  BY <1>2, <1>3, <1>4

LEMMA NextHanding == Base /\ Handing /\ [Next]_vars => Handing'
<1> SUFFICES ASSUME Base, Handing, [Next]_vars PROVE Handing'
  OBVIOUS
<1>a. /\ \A i \in DOMAIN table : table[i].event \in Events
      /\ batch \subseteq DOMAIN table
      /\ \A i, j \in DOMAIN table : table[i].event = table[j].event => i = j
  BY DEF Base, Sound, Row
<1>1. CASE Store
  <2>1. stored' = stored + 1 /\ stored' \in Events /\ stored \in Nat
    BY <1>1 DEF Store, Base
  <2>2. pc' = pc /\ batch' = batch /\ handed' = handed
    BY <1>1 DEF Store, syncVars
  <2>3. \A e \in Events : e > stored' => e > stored
    BY <2>1, CloudSyncAssumption DEF Events
  <2>4. handed[stored + 1] = 0
    BY <2>1, CloudSyncAssumption DEF Handing, Events
  <2>5. \A i \in DOMAIN table' :
          \/ i \in DOMAIN table /\ table'[i] = table[i]
          \/ table'[i].event = stored + 1
    BY <1>1, StoreIsSound
  <2>6. \A i \in batch : table'[i] = table[i]
    BY <1>1, <1>a, StoreIsSound
  <2> QED
    BY <2>2, <2>3, <2>4, <2>5, <2>6 DEF Handing
<1>2. CASE Checkpoint
  BY <1>2 DEF Handing, Checkpoint, syncVars
<1>3. CASE ReadPending
  BY <1>3 DEF Handing, ReadPending, Limited, Pending, database
<1>4. CASE Publish
  <2>1. table' = table /\ stored' = stored /\ pc = "read"
    BY <1>4 DEF Publish, database
  <2>2. CASE Connected
    <3>1. /\ pc' = "handed" /\ batch' = batch
          /\ handed' = [e \in Events |->
               IF e \in {table[i].event : i \in batch} THEN handed[e] + 1
                                                      ELSE handed[e]]
      BY <1>4, <2>2, EventsOfMessage DEF Publish, Accepted
    <3>2. \A i \in batch : handed[table[i].event] = 0
      BY <1>a, <2>1 DEF Handing
    <3>3. ASSUME NEW e \in Events PROVE handed'[e] <= 1
      BY <3>1, <3>2 DEF Handing
    <3>4. ASSUME NEW e \in Events, e > stored PROVE handed'[e] = 0
      <4>1. e \notin {table[i].event : i \in batch}
        BY <1>a, <3>4, CloudSyncAssumption DEF Base, Sound, Events
      <4> QED
        BY <3>1, <3>4, <4>1 DEF Handing
    <3>5. ASSUME NEW i \in DOMAIN table, ~table[i].uploaded, i \notin batch
          PROVE  handed'[table[i].event] = 0
      <4>1. table[i].event \notin {table[j].event : j \in batch}
        BY <1>a, <3>5
      <4> QED
        BY <1>a, <2>1, <3>1, <3>5, <4>1 DEF Handing
    <3> QED
      BY <2>1, <3>1, <3>3, <3>4, <3>5 DEF Handing
  <2>3. CASE ~Connected
    BY <1>4, <2>1, <2>3 DEF Handing, Publish, Accepted
  <2> QED
    BY <2>2, <2>3
<1>5. CASE MarkUploaded
  <2>1. batch' = {} /\ handed' = handed /\ stored' = stored
    BY <1>5 DEF MarkUploaded
  <2> QED
    BY <1>5, <2>1, MarkKeepsRows DEF Handing
<1>6. CASE MarkFails
  <2>1. /\ table' = table /\ stored' = stored /\ batch' = {}
        /\ handed' = [e \in Events |->
             IF e \in {table[i].event : i \in batch} THEN 0 ELSE handed[e]]
    BY <1>6 DEF MarkFails, Forgets, database
  <2> QED
    BY <1>a, <2>1 DEF Handing
<1>7. CASE ConnectionBreaks \/ LibraryReconnects \/ Arrives
  BY <1>7 DEF Handing, ConnectionBreaks, LibraryReconnects, Arrives, database,
              syncVars
<1>8. CASE Connects \/ ConnectFails
  BY <1>8 DEF Handing, Connects, ConnectFails, Replaces, database, syncVars
<1>9. CASE Killed
  <2>1. /\ table' = table /\ stored' = stored /\ batch' = {}
        /\ handed' = [e \in Events |->
             IF e \in (IF pc = "handed" THEN {table[i].event : i \in batch}
                                       ELSE {})
               THEN 0 ELSE handed[e]]
    BY <1>9 DEF Killed, Ends, Forgets, database
  <2> QED
    BY <1>a, <2>1 DEF Handing
<1>10. CASE PowerFails
  <2>1. /\ table' = durable.table /\ stored' = stored /\ batch' = {}
        /\ handed' = [e \in Events |->
             IF e \in Events \ Marked' THEN 0 ELSE handed[e]]
    BY <1>10 DEF PowerFails, Ends, Forgets
  <2>2. ASSUME NEW i \in DOMAIN table', ~table'[i].uploaded
        PROVE  table'[i].event \in Events \ Marked'
    BY <2>1, <2>2 DEF Base, Sound, Row, Marked
  <2> QED
    BY <2>1, <2>2 DEF Handing
<1>11. CASE Restart
  <2>1. /\ pc' = pc /\ batch' = batch /\ handed' = handed
        /\ stored' = stored /\ batch = {}
    BY <1>11 DEF Base, Restart, syncVars
  <2> QED
    BY <1>11, <2>1, RestartKeepsRows DEF Handing
<1>12. CASE UNCHANGED vars
  BY <1>12 DEF Handing, vars, database, syncVars
<1> QED
  BY <1>1, <1>2, <1>3, <1>4, <1>5, <1>6, <1>7, <1>8, <1>9, <1>10, <1>11,
     <1>12 DEF Next

(* A violation is handed over again only after a kill, a power failure or  *)
(* a mark that failed, however the writer and the session interleave with  *)
(* the three steps of the tiling thread.                                   *)
THEOREM HandedOverOnce == Spec => []ResentOnlyWhenForgotten
<1>1. Handing => ResentOnlyWhenForgotten
  BY DEF Handing, ResentOnlyWhenForgotten
<1> QED
  BY <1>1, InitBase, NextBase, InitHanding, NextHanding, PTL DEF Spec

-----------------------------------------------------------------------------
(* Before the first power failure the sequence counts the violations.      *)

Faithful(m) == \A p \in m : p \in Ids \X Events /\ p[1] = p[2]

IdsCount ==
  ~powerCut =>
    /\ lastId = stored
    /\ \A i \in DOMAIN table : table[i].event = i
    /\ \A m \in inflight : Faithful(m)
    /\ Faithful(arrived)

LEMMA InitIdsCount == Init => IdsCount
BY DEF Init, IdsCount, Faithful

LEMMA NextIdsCount == Base /\ IdsCount /\ [Next]_vars => IdsCount'
<1> SUFFICES ASSUME Base, IdsCount, [Next]_vars PROVE IdsCount'
  OBVIOUS
<1>1. CASE Store
  <2>1. /\ stored' = stored + 1 /\ lastId' = lastId + 1
        /\ inflight' = inflight /\ arrived' = arrived
        /\ powerCut' = powerCut
    BY <1>1 DEF Store, NextId, session, faultVars
  <2> QED
    BY <1>1, <2>1, StoreIsSound DEF IdsCount, Faithful, NextId
<1>2. CASE Publish
  <2>1. table' = table /\ lastId' = lastId /\ stored' = stored
        /\ arrived' = arrived /\ powerCut' = powerCut
    BY <1>2 DEF Publish, database, faultVars
  <2>2. inflight' \in {inflight, inflight \cup {Message(batch)}}
    BY <1>2 DEF Publish
  <2>3. ASSUME ~powerCut PROVE Faithful(Message(batch))
    BY <2>3 DEF Base, Sound, Row, IdsCount, Faithful, Message, Ids
  <2> QED
    BY <2>1, <2>2, <2>3 DEF IdsCount, Faithful
<1>3. CASE MarkUploaded
  <2>1. lastId' = lastId /\ stored' = stored /\ inflight' = inflight
        /\ arrived' = arrived /\ powerCut' = powerCut
    BY <1>3 DEF MarkUploaded, session, faultVars
  <2> QED
    BY <1>3, <2>1, MarkKeepsRows DEF IdsCount, Faithful
<1>4. CASE Arrives
  <2>1. PICK m \in inflight : /\ arrived' = arrived \cup m
                              /\ inflight' \in {inflight, inflight \ {m}}
    BY <1>4 DEF Arrives
  <2>2. UNCHANGED <<table, lastId, stored, powerCut>>
    BY <1>4 DEF Arrives, database, faultVars
  <2> QED
    BY <2>1, <2>2 DEF IdsCount, Faithful
<1>5. CASE Connects \/ ConnectFails
  BY <1>5 DEF Connects, ConnectFails, Replaces, database, faultVars, IdsCount,
              Faithful
<1>6. CASE Killed
  BY <1>6 DEF Killed, Ends, database, IdsCount, Faithful
<1>7. CASE PowerFails
  BY <1>7 DEF PowerFails, IdsCount
<1>8. CASE Restart
  <2>1. UNCHANGED <<lastId, stored, inflight, arrived, powerCut>>
    BY <1>8 DEF Restart, faultVars
  <2> QED
    BY <1>8, <2>1, RestartKeepsRows DEF IdsCount, Faithful
<1>9. CASE UNCHANGED <<table, lastId, stored, inflight, arrived, powerCut>>
  BY <1>9 DEF IdsCount, Faithful
<1> QED
  BY <1>1, <1>2, <1>3, <1>4, <1>5, <1>6, <1>7, <1>8, <1>9
    DEF Next, vars, Checkpoint, ReadPending, MarkFails, ConnectionBreaks,
        LibraryReconnects, database, session, faultVars

(* As long as the power has not failed, the cloud receives one violation   *)
(* under each id, whatever retention deletes and whenever the engine is    *)
(* started again (AUTOINCREMENT).                                          *)
THEOREM IdsAreNotReused == Spec => []IdNamesOneViolation
<1>1. IdsCount => IdNamesOneViolation
  <2> SUFFICES ASSUME IdsCount, ~powerCut, NEW p \in arrived,
                      NEW q \in arrived, p[1] = q[1]
               PROVE  p = q
    BY DEF IdNamesOneViolation
  <2>1. p \in Ids \X Events /\ q \in Ids \X Events
        /\ p[1] = p[2] /\ q[1] = q[2]
    BY DEF IdsCount, Faithful
  <2>2. ASSUME NEW A, NEW B, NEW r \in A \X B PROVE r = <<r[1], r[2]>>
    OBVIOUS
  <2>3. p = <<p[1], p[2]>> /\ q = <<q[1], q[2]>>
    BY <2>1, <2>2
  <2>4. p[1] = q[1] /\ p[2] = q[2]
    BY <2>1
  <2> QED
    BY <2>3, <2>4
<1> QED
  BY <1>1, InitBase, NextBase, InitIdsCount, NextIdsCount, PTL DEF Spec

-----------------------------------------------------------------------------
(* The types.                                                              *)

(* The query returns the rows that have fewer than BatchSize before them:  *)
(* no two have the same number before them.                                *)
LEMMA LimitIsRespected ==
  ASSUME NEW ids \in SUBSET Nat, IsFiniteSet(ids)
  PROVE  Cardinality(Limited(ids)) <= BatchSize
<1> DEFINE Before(i) == {j \in ids : j < i}
           rank == [i \in Limited(ids) |-> Cardinality(Before(i))]
<1>1. /\ BatchSize \in Nat \ {0}
      /\ \A i \in Limited(ids) :
           i \in ids /\ Cardinality(Before(i)) < BatchSize
  BY CloudSyncAssumption DEF Limited
<1>2. ASSUME NEW i \in ids
      PROVE  IsFiniteSet(Before(i)) /\ Cardinality(Before(i)) \in Nat
  BY FS_Subset, FS_CardinalityType
<1>3. ASSUME NEW i \in ids, NEW k \in ids, i < k
      PROVE  Cardinality(Before(i)) # Cardinality(Before(k))
  <2>1. Before(i) \subseteq Before(k)
    <3>1. \A a, b, c \in Nat : a < b /\ b < c => a < c
      OBVIOUS
    <3>2. \A j \in ids : j < i => j < k
      BY <1>3, <3>1
    <3> QED
      BY <3>2
  <2>2. i \in Before(k) /\ i \notin Before(i)
    BY <1>3
  <2>3. IsFiniteSet(Before(k))
    BY <1>2
  <2>4. Before(i) # Before(k)
    BY <2>2
  <2> HIDE DEF Before
  <2>5. \A T \in SUBSET Before(k) :
          Cardinality(Before(k)) = Cardinality(T) => Before(k) = T
    BY <2>3, FS_Subset
  <2> QED
    BY <2>1, <2>4, <2>5
<1>4. rank \in [Limited(ids) -> 0 .. BatchSize - 1]
  <2>1. \A b \in Nat \ {0} : \A c \in Nat : c < b => c \in 0 .. b - 1
    OBVIOUS
  <2> HIDE DEF Before
  <2> QED
    BY <1>1, <1>2, <2>1
<1>5. ASSUME NEW i \in Limited(ids), NEW k \in Limited(ids),
             rank[i] = rank[k]
      PROVE  i = k
  <2>1. i \in ids /\ k \in ids /\ i \in Nat /\ k \in Nat
    BY <1>1
  <2>2. Cardinality(Before(i)) = Cardinality(Before(k))
    BY <1>5
  <2>3. i < k \/ k < i \/ i = k
    BY <2>1
  <2> HIDE DEF Before
  <2> QED
    BY <1>3, <2>1, <2>2, <2>3
<1>6. rank \in Injection(Limited(ids), 0 .. BatchSize - 1)
  <2> HIDE DEF rank
  <2> QED
    BY <1>4, <1>5 DEF Injection, IsInjective
<1>7. /\ IsFiniteSet(0 .. BatchSize - 1)
      /\ Cardinality(0 .. BatchSize - 1) = BatchSize
  BY <1>1, FS_Interval
<1> HIDE DEF rank
<1> QED
  BY <1>6, <1>7, FS_Injection

(* Ids are counted from one and given to events that were stored.          *)
Counted(t, last) == DOMAIN t \subseteq 1 .. last /\ last <= stored

Counting ==
  /\ stored <= NumEvents
  /\ Counted(table, lastId)
  /\ Counted(durable.table, durable.lastId)

Messages == SUBSET (Ids \X Events)

SessionTyped ==
  /\ client \in {"new", "connected", "broken", "killed"}
  /\ inflight \subseteq Messages
  /\ arrived \in Messages
  /\ dropped \subseteq Events

FaultsTyped == faults \in 0 .. MaxFaults /\ powerCut \in BOOLEAN

BatchLimited == Cardinality(batch) <= BatchSize

LEMMA InitTypes ==
  Init => Counting /\ SessionTyped /\ FaultsTyped /\ BatchLimited
<1> SUFFICES ASSUME Init
             PROVE  Counting /\ SessionTyped /\ FaultsTyped /\ BatchLimited
  OBVIOUS
<1>1. Counting
  BY CloudSyncAssumption DEF Init, Counting, Counted
<1>2. SessionTyped
  BY DEF Init, SessionTyped, Messages
<1>3. FaultsTyped
  <2>1. faults = 0 /\ powerCut = FALSE
    BY DEF Init
  <2>2. 0 \in 0 .. MaxFaults
    BY CloudSyncAssumption
  <2> QED
    BY <2>1, <2>2 DEF FaultsTyped
<1>4. BatchLimited
  <2>1. batch = {} /\ BatchSize \in Nat
    BY CloudSyncAssumption DEF Init
  <2>2. Cardinality(batch) = 0
    BY <2>1, FS_EmptySet
  <2> QED
    BY <2>1, <2>2 DEF BatchLimited
<1> QED
  BY <1>1, <1>2, <1>3, <1>4

LEMMA NextCounting == Base /\ Counting /\ [Next]_vars => Counting'
<1> SUFFICES ASSUME Base, Counting, [Next]_vars PROVE Counting'
  OBVIOUS
<1>1. /\ stored \in Nat /\ lastId \in Nat /\ durable.lastId \in Nat
      /\ NumEvents \in Nat /\ stored <= NumEvents
      /\ lastId <= stored /\ DOMAIN table \subseteq 1 .. lastId
      /\ durable.lastId <= stored
      /\ DOMAIN durable.table \subseteq 1 .. durable.lastId
  BY CloudSyncAssumption DEF Base, Sound, Counting, Counted
<1>2. CASE Store
  <2>1. /\ stored' = stored + 1 /\ lastId' = lastId + 1
        /\ durable' = durable /\ stored + 1 \in 1 .. NumEvents
        /\ DOMAIN table' = DOMAIN table \cup {lastId + 1}
    BY <1>2 DEF Store, Events, NextId
  <2>2. DOMAIN table' \subseteq 1 .. lastId'
    BY <1>1, <2>1
  <2>3. lastId' <= stored' /\ stored' <= NumEvents
    BY <1>1, <2>1
  <2>4. durable'.lastId <= stored'
    BY <1>1, <2>1
  <2>5. DOMAIN durable'.table \subseteq 1 .. durable'.lastId
    BY <1>1, <2>1
  <2> QED
    BY <2>2, <2>3, <2>4, <2>5 DEF Counting, Counted
<1>3. CASE Checkpoint
  BY <1>3 DEF Counting, Counted, Checkpoint
<1>4. CASE MarkUploaded
  <2>1. DOMAIN table' = DOMAIN table
    BY <1>4 DEF MarkUploaded
  <2>2. UNCHANGED <<stored, lastId, durable>>
    BY <1>4 DEF MarkUploaded
  <2> QED
    BY <2>1, <2>2 DEF Counting, Counted
<1>5. CASE PowerFails
  <2>1. /\ table' = durable.table /\ lastId' = durable.lastId
        /\ UNCHANGED <<durable, stored>>
    BY <1>5 DEF PowerFails
  <2> QED
    BY <2>1 DEF Counting, Counted
<1>6. CASE Restart
  <2>1. DOMAIN table' \subseteq DOMAIN table
    BY <1>6, RestartKeepsRows
  <2>2. UNCHANGED <<stored, lastId, durable>>
    BY <1>6 DEF Restart
  <2> QED
    BY <2>1, <2>2 DEF Counting, Counted
<1>7. UNCHANGED database => Counting'
  BY DEF Counting, Counted, database
<1>8. CASE \/ ReadPending \/ Publish \/ MarkFails \/ ConnectionBreaks
           \/ LibraryReconnects \/ Connects \/ ConnectFails \/ Arrives
           \/ Killed \/ UNCHANGED vars
  BY <1>7, <1>8 DEF ReadPending, Publish, MarkFails, ConnectionBreaks,
    LibraryReconnects, Connects, ConnectFails, Replaces, Arrives, Killed,
    vars
<1> QED
  BY <1>2, <1>3, <1>4, <1>5, <1>6, <1>8 DEF Next

(* Ids and events of the rows that are there.                              *)
LEMMA RowsAreCounted ==
  ASSUME Base, Counting
  PROVE  /\ DOMAIN table \subseteq Ids /\ DOMAIN durable.table \subseteq Ids
         /\ \A i \in DOMAIN table : table[i].event \in Events
<1>1. \A i \in DOMAIN table : table[i].event \in Events
  BY DEF Base, Sound, Row
<1>2. /\ stored \in Nat /\ lastId \in Nat /\ durable.lastId \in Nat
      /\ NumEvents \in Nat /\ stored <= NumEvents
      /\ lastId <= stored /\ durable.lastId <= stored
  BY CloudSyncAssumption DEF Base, Sound, Counting, Counted
<1>3. \A n \in Nat : n <= stored => 1 .. n \subseteq 1 .. NumEvents
  BY <1>2
<1>4. /\ DOMAIN table \subseteq 1 .. lastId
      /\ DOMAIN durable.table \subseteq 1 .. durable.lastId
  BY DEF Counting, Counted
<1> QED
  BY <1>1, <1>2, <1>3, <1>4 DEF Ids, Events

LEMMA MessageTyped ==
  ASSUME Base, Counting
  PROVE  Message(batch) \in Messages
BY RowsAreCounted DEF Base, Message, Messages

LEMMA EventsTyped ==
  ASSUME SessionTyped
  PROVE  InFlight \subseteq Events /\ Arrived \subseteq Events
BY DEF SessionTyped, Messages, InFlight, EventsIn, Arrived

LEMMA NextSession ==
  Base /\ Counting /\ SessionTyped /\ [Next]_vars => SessionTyped'
<1> SUFFICES ASSUME Base, Counting, SessionTyped, [Next]_vars
             PROVE  SessionTyped'
  OBVIOUS
<1>1. CASE Publish
  <2>1. inflight' \in {inflight, inflight \cup {Message(batch)}}
    BY <1>1 DEF Publish
  <2>2. UNCHANGED <<client, arrived, dropped>>
    BY <1>1 DEF Publish
  <2> QED
    BY <2>1, <2>2, MessageTyped DEF SessionTyped
<1>2. CASE ConnectionBreaks \/ LibraryReconnects
  BY <1>2 DEF ConnectionBreaks, LibraryReconnects, SessionTyped
<1>3. CASE Connects \/ ConnectFails
  BY <1>3, EventsTyped DEF Connects, ConnectFails, Replaces, SessionTyped
<1>4. CASE Arrives
  <2>1. PICK m \in inflight : /\ arrived' = arrived \cup m
                              /\ inflight' \in {inflight, inflight \ {m}}
    BY <1>4 DEF Arrives
  <2>2. UNCHANGED <<client, dropped>>
    BY <1>4 DEF Arrives
  <2>3. arrived' \in Messages
    BY <2>1 DEF SessionTyped, Messages
  <2> QED
    BY <2>1, <2>2, <2>3 DEF SessionTyped
<1>5. CASE Killed \/ PowerFails
  BY <1>5, EventsTyped DEF Killed, PowerFails, Ends, SessionTyped
<1>6. CASE Restart
  BY <1>6 DEF Restart, SessionTyped
<1>7. CASE UNCHANGED session
  BY <1>7 DEF session, SessionTyped
<1> QED
  BY <1>1, <1>2, <1>3, <1>4, <1>5, <1>6, <1>7
    DEF Next, vars, Store, Checkpoint, ReadPending, MarkUploaded, MarkFails

LEMMA NextFaults == FaultsTyped /\ [Next]_vars => FaultsTyped'
<1> SUFFICES ASSUME FaultsTyped, [Next]_vars PROVE FaultsTyped'
  OBVIOUS
<1>1. /\ faults \in Nat /\ faults <= MaxFaults /\ MaxFaults \in Nat
      /\ powerCut \in BOOLEAN
  BY CloudSyncAssumption DEF FaultsTyped
<1>2. CASE MarkFails \/ Killed \/ PowerFails
  <2>1. /\ faults < MaxFaults /\ faults' = faults + 1
        /\ powerCut' \in {powerCut, TRUE}
    BY <1>2 DEF MarkFails, Killed, PowerFails, Ends
  <2>2. faults' \in 0 .. MaxFaults
    BY <1>1, <2>1
  <2>3. powerCut' \in BOOLEAN
    BY <1>1, <2>1, Zenon
  <2> QED
    BY <2>2, <2>3 DEF FaultsTyped
<1>3. CASE UNCHANGED faultVars
  BY <1>3 DEF faultVars, FaultsTyped
<1> QED
  BY <1>2, <1>3 DEF Next, vars, Store, Checkpoint, ReadPending, Publish,
    MarkUploaded, ConnectionBreaks, LibraryReconnects, Connects,
    ConnectFails, Replaces, Arrives, Restart

LEMMA NextBatch ==
  Base /\ Counting /\ BatchLimited /\ [Next]_vars => BatchLimited'
<1> SUFFICES ASSUME Base, Counting, BatchLimited, [Next]_vars
             PROVE  BatchLimited'
  OBVIOUS
<1>1. batch' = {} => BatchLimited'
  <2>1. Cardinality({}) = 0 /\ BatchSize \in Nat
    BY FS_EmptySet, CloudSyncAssumption
  <2>2. Cardinality({}) <= BatchSize
    BY <2>1
  <2> QED
    BY <2>2 DEF BatchLimited
<1>2. batch' = batch => BatchLimited'
  BY DEF BatchLimited
<1>3. CASE ReadPending
  <2>1. batch' = Limited(Pending)
    BY <1>3 DEF ReadPending
  <2>2. Pending \in SUBSET Ids
    BY RowsAreCounted DEF Pending
  <2>3. IsFiniteSet(Ids) /\ Ids \subseteq Nat
    BY CloudSyncAssumption, FS_Interval DEF Ids, Events
  <2>4. IsFiniteSet(Pending)
    BY <2>2, <2>3, FS_Subset
  <2>5. Cardinality(Limited(Pending)) <= BatchSize
    BY <2>2, <2>3, <2>4, LimitIsRespected
  <2> QED
    BY <2>1, <2>5 DEF BatchLimited
<1>4. CASE \/ Publish \/ MarkUploaded \/ MarkFails \/ Killed \/ PowerFails
  BY <1>1, <1>2, <1>4 DEF Publish, MarkUploaded, MarkFails, Killed,
    PowerFails, Ends
<1>5. CASE \/ Store \/ Checkpoint \/ ConnectionBreaks \/ LibraryReconnects
           \/ Connects \/ ConnectFails \/ Arrives \/ Restart
           \/ UNCHANGED vars
  BY <1>2, <1>5 DEF Store, Checkpoint, ConnectionBreaks, LibraryReconnects,
    Connects, ConnectFails, Replaces, Arrives, Restart, vars, syncVars
<1> QED
  BY <1>3, <1>4, <1>5 DEF Next

(* Ids and events stay within their bounds although every id comes from    *)
(* the sequence, and no batch that is read is longer than the limit of the *)
(* query (get_pending_uploads).                                            *)
THEOREM SyncTypes == Spec => []TypeOK
<1>1. Base /\ Counting /\ SessionTyped /\ FaultsTyped /\ BatchLimited
        => TypeOK
  <2> SUFFICES ASSUME Base, Counting, SessionTyped, FaultsTyped, BatchLimited
               PROVE  TypeOK
    OBVIOUS
  <2>1. /\ DOMAIN table \subseteq Ids /\ DOMAIN durable.table \subseteq Ids
        /\ batch \subseteq Ids
    BY RowsAreCounted DEF Base
  <2>2. /\ \A i \in DOMAIN table : table[i] \in Row
        /\ \A i \in DOMAIN durable.table : durable.table[i] \in Row
    BY DEF Base, Sound
  <2>3. \A n \in Nat : n <= stored => n \in {0} \cup Events
    BY CloudSyncAssumption DEF Base, Counting, Events
  <2>4. /\ stored \in {0} \cup Events /\ lastId \in {0} \cup Ids
        /\ durable.lastId \in {0} \cup Ids
    BY <2>3 DEF Base, Sound, Counting, Counted, Ids
  <2>5. handed \in [Events -> Nat] /\ pc \in {"idle", "read", "handed"}
    BY DEF Base
  <2> QED
    BY <2>1, <2>2, <2>4, <2>5
      DEF SessionTyped, FaultsTyped, BatchLimited, Messages, TypeOK
<1> QED
  BY <1>1, InitBase, NextBase, InitTypes, NextCounting, NextSession,
    NextFaults, NextBatch, PTL DEF Spec
=============================================================================
