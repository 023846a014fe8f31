----------------------------- MODULE Persistence -----------------------------
(***************************************************************************)
(* The persistence plugins, MysqlPersistencePlugin.cpp and                 *)
(* SqlitePersistencePlugin.cpp: the repositories of alarms, history and    *)
(* operations over one connection to a database.  The history thread       *)
(* writes batches of records, statement by statement; the main thread      *)
(* writes alarms, acknowledgements and KPI snapshots at any time between   *)
(* two statements of a batch, on the same connection.                      *)
(*                                                                         *)
(* The database behind the connection is outside the repository; what the  *)
(* plugins rely on is its session: BEGIN commits an open transaction, a    *)
(* lost connection rolls one back, and MYSQL_OPT_RECONNECT opens a new     *)
(* session in silence.  That the client library is called from two threads *)
(* at once is undefined and left out.                                      *)
(***************************************************************************)
EXTENDS Naturals, FiniteSets

CONSTANTS
  MaxBatches,  \* a bound on the batches the sampler hands over
  BatchLength, \* records in a batch
  Events,      \* alarm ids
  KpiSnapshots \* KPI snapshots, by their time

ASSUME PersistenceAssumption == MaxBatches \in Nat /\ BatchLength \in Nat \ {0}

VARIABLES
  base,      \* the plugin, whether it could open the database, and the tables there are
  store,     \* the tables as the session of the plugin sees them
  saved,     \* the tables as the others see them, while a transaction is open
  open,      \* a transaction is open
  write,     \* where batchInsert is, the batch and the record it has come to
  prepared,  \* its statement is known to the session
  handedOver, \* ghost: the number of batches handed over
  cut         \* ghost: the batches that lost the connection between BEGIN and prepare

persistenceVars == <<base, store, saved, open, write, prepared, handedOver, cut>>

Tables == {"alarm_events", "alarm_kpi_snapshots", "history_records", "operation_logs"}
RecordsOf(b) == {b} \X (1 .. BatchLength)

(* The rows: records by batch and place, alarms that are acknowledged or    *)
(* not, snapshots, and whether the operator's log has any.                  *)
EmptyStore == [history |-> {}, events |-> [e \in Events |-> "absent"],
               kpi |-> {}, log |-> FALSE]

NotWriting == [at |-> "idle", batch |-> 0, record |-> 1]

(* The database opens or not, and each CREATE TABLE may fail; that it did   *)
(* is only written to the log.  SQLite has no table of snapshots.           *)
Configure ==
  \E canOpen \in BOOLEAN, tables \in SUBSET Tables :
    /\ ~ canOpen => tables = {}
    /\ base = [plugin |-> "mysql", canOpen |-> canOpen, tables |-> tables]

ConfigureSqlite ==
  \E canOpen \in BOOLEAN, tables \in SUBSET (Tables \ {"alarm_kpi_snapshots"}) :
    /\ ~ canOpen => tables = {}
    /\ base = [plugin |-> "sqlite", canOpen |-> canOpen, tables |-> tables]

PersistenceInit ==
  /\ Configure \/ ConfigureSqlite
  /\ store = EmptyStore /\ saved = EmptyStore /\ open = FALSE
  /\ write = NotWriting /\ prepared = FALSE
  /\ handedOver = 0 /\ cut = {}

-----------------------------------------------------------------------------
(* What every statement does: it needs the database and its table, and it   *)
(* may be refused all the same, which execQuery only logs; a refused        *)
(* statement changes nothing.  Outside a transaction it is durable at once. *)
Accepts(table) == base.canOpen /\ table \in base.tables

Durable == IF open THEN saved ELSE store

ExecQuery(table, after) ==
  /\ \/ Accepts(table) /\ store' = after
     \/ UNCHANGED store
  /\ UNCHANGED <<base, saved, open, write, prepared, handedOver, cut>>

(* The main thread, on a MySQL connection.                                  *)
Mysql == base.plugin = "mysql"

(* An id that is there keeps its row and takes state and acknowledgement of *)
(* the event; the engine inserts alarms when it raises them.                *)
InsertEvent(e) ==
  Mysql /\ ExecQuery("alarm_events", [store EXCEPT !.events[e] = "unacknowledged"])

UpdateAck(e) ==
  /\ Mysql /\ store.events[e] # "absent"
  /\ ExecQuery("alarm_events", [store EXCEPT !.events[e] = "acknowledged"])

InsertKpiSnapshot(s) ==
  Mysql /\ ExecQuery("alarm_kpi_snapshots", [store EXCEPT !.kpi = @ \cup {s}])

(* Only the SQLite plugin keeps the log of the operator.                    *)
Log == base.plugin = "sqlite" /\ ExecQuery("operation_logs", [store EXCEPT !.log = TRUE])

-----------------------------------------------------------------------------
(* The history thread: batchInsert of the MySQL plugin.                     *)

HandOver ==
  /\ write.at = "idle" /\ handedOver < MaxBatches
  /\ handedOver' = handedOver + 1

(* Nothing is done without a database, or when BEGIN is refused.            *)
BeginBatch ==
  /\ Mysql /\ HandOver
  /\ \/ UNCHANGED <<saved, open, write>>
     \/ /\ base.canOpen
        /\ saved' = store /\ open' = TRUE
        /\ write' = [at |-> "prepare", batch |-> handedOver', record |-> 1]
  /\ UNCHANGED <<base, store, prepared, cut>>

(* The answer of prepare is not looked at: a statement that could not be    *)
(* prepared fails with its first record.                                    *)
PrepareInsert ==
  /\ write.at = "prepare"
  /\ prepared' \in {FALSE, Accepts("history_records")}
  /\ write' = [write EXCEPT !.at = "rows"]
  /\ UNCHANGED <<base, store, saved, open, handedOver, cut>>

(* Faulty variant: the loop is left without the rollback.                   *)
LeaveOpen ==
  /\ UNCHANGED <<store, open>>
  /\ write' = NotWriting
Rollback ==
  /\ store' = Durable /\ open' = FALSE
  /\ write' = NotWriting

InsertRow ==
  /\ write.at = "rows" /\ Mysql
  /\ \/ /\ prepared
        /\ store' = [store EXCEPT !.history = @ \cup {<<write.batch, write.record>>}]
        /\ write' = IF write.record = BatchLength
                    THEN [write EXCEPT !.at = "commit"]
                    ELSE [write EXCEPT !.record = @ + 1]
        /\ UNCHANGED open
     \/ Rollback
  /\ UNCHANGED <<base, saved, prepared, handedOver, cut>>

(* Outside a transaction COMMIT succeeds and does nothing.                  *)
CommitBatch ==
  /\ write.at = "commit"
  /\ \/ open' = FALSE /\ write' = NotWriting /\ UNCHANGED store
     \/ Rollback
  /\ UNCHANGED <<base, saved, prepared, handedOver, cut>>

(* batchInsert of the SQLite plugin: no transaction, and a record that is   *)
(* refused is passed over.                                                  *)
BeginSqlite ==
  /\ base.plugin = "sqlite" /\ HandOver
  /\ IF base.canOpen
     THEN write' = [at |-> "rows", batch |-> handedOver', record |-> 1]
     ELSE UNCHANGED write
  /\ UNCHANGED <<base, store, saved, open, prepared, cut>>

RowSqlite ==
  /\ write.at = "rows" /\ base.plugin = "sqlite"
  /\ \/ UNCHANGED store
     \/ /\ Accepts("history_records")
        /\ store' = [store EXCEPT !.history = @ \cup {<<write.batch, write.record>>}]
  /\ write' = IF write.record = BatchLength THEN NotWriting
              ELSE [write EXCEPT !.record = @ + 1]
  /\ UNCHANGED <<base, saved, open, prepared, handedOver, cut>>

(* The connection to the server is lost.  The next statement finds a new    *)
(* session, without a transaction and without the prepared statement; a     *)
(* BEGIN that is lost is refused.                                           *)
Lose ==
  /\ Mysql /\ base.canOpen
  /\ store' = Durable /\ open' = FALSE /\ prepared' = FALSE
  /\ cut' = IF write.at = "prepare" THEN cut \cup {write.batch} ELSE cut
  /\ UNCHANGED <<base, saved, write, handedOver>>

-----------------------------------------------------------------------------
(* query: the rows of the session, also those not committed yet.            *)
StoredRecords == IF base.canOpen THEN store.history ELSE {}

MainThread ==
  \/ \E e \in Events : InsertEvent(e) \/ UpdateAck(e)
  \/ \E s \in KpiSnapshots : InsertKpiSnapshot(s)
  \/ Log

BatchInsert ==
  \/ BeginBatch \/ PrepareInsert \/ InsertRow \/ CommitBatch
  \/ BeginSqlite \/ RowSqlite

PersistenceNext == MainThread \/ BatchInsert \/ Lose

PersistenceSpec == PersistenceInit /\ [][PersistenceNext]_persistenceVars

-----------------------------------------------------------------------------
(* Properties.                                                              *)

(* Everybody else sees a MySQL batch whole or not at all at any moment,     *)
(* whatever the main thread writes in between, whichever statement is       *)
(* refused and wherever the connection is lost, with one exception: when it *)
(* is lost between BEGIN and prepare, the prepare opens a new session and   *)
(* the records are stored one by one (MysqlPersistencePlugin.cpp:187-209).  *)
WholeOrNot(b) == \/ Durable.history \cap RecordsOf(b) = {}
                 \/ RecordsOf(b) \subseteq Durable.history

(* Between two batches a query of the plugin shows nothing that could still *)
(* be taken back: no way out of batchInsert leaves its transaction open for *)
(* the main thread to write into.                                           *)
NothingLeftOpen == write.at = "idle" => StoredRecords \subseteq Durable.history

(* The batch is one transaction and its transaction is the batch.           *)
BatchIsTransaction ==
  Mysql => NothingLeftOpen /\ \A b \in (1 .. handedOver) \ cut : WholeOrNot(b)
=============================================================================
