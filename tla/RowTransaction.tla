--------------------------- MODULE RowTransaction ---------------------------
(***************************************************************************)
(* The transactions of mysqlAccessor.php: one PHP script that uses several *)
(* databases, with a row of interest in each.  The static $auto_commit is  *)
(* consulted only when a connection is opened, commit() and roll_back() go *)
(* over the connections in the order they were opened, and an object's     *)
(* cache entry is written before its row (APF_DB_DataObject.php:145).      *)
(***************************************************************************)
EXTENDS Integers, Sequences

CONSTANTS
  Dbs,    \* names of connections: the databases a script uses
  Vals    \* values of a row

ASSUME ValsAssumption == 0 \in Vals /\ Vals \subseteq Nat

VARIABLES
  pc,           \* "idle" between calls, "update", "commit", "rollback", "ended"
  job,          \* the row and the value of the update in progress
  k,            \* index of the foreach over $connections
  auto_commit, connections,
  tx,           \* connection -> PDO takes a transaction to be active on it
  live,         \* connection -> the server has one
  row,          \* what is committed
  pend,         \* what this script's connection sees
  cache,        \* the entries in memcache
  intx,         \* the script is between begin_transaction and its end
  outcome,      \* how the last commit() or roll_back() ended
  before,       \* history: the rows at begin_transaction
  last, wrote,  \* history: what was written in the transaction, and where
  owed,         \* history: what the script may take for durable, or Unknown
  astray,       \* history: why a transaction may be half done
  leaked,       \* history: connections in a transaction the script is not in
  severed,      \* history: connections whose transaction the server has ended
  undone,       \* history: rows whose last write went with it
  dropped,      \* history: rows whose cached update was undone or failed
  lost          \* history: rows whose last update memcache did not take

dbvars == <<auto_commit, connections, tx, live, row, pend>>
hist == <<before, last, wrote, owed, astray, leaked, severed, undone, dropped, lost>>
vars == <<pc, job, k, dbvars, cache, intx, outcome, hist>>

Unknown == -1
Astray == {"not in it", "undone", "stopped", "killed"}

TypeOK ==
  /\ pc \in {"idle", "update", "commit", "rollback", "ended"}
  /\ job \in Dbs \X Vals
  /\ k \in 1 .. Len(connections) + 1
  /\ auto_commit \in BOOLEAN /\ intx \in BOOLEAN
  /\ connections \in Seq(Dbs)
  /\ \A i, j \in DOMAIN connections : connections[i] = connections[j] => i = j
  /\ tx \in [Dbs -> BOOLEAN] /\ live \in [Dbs -> BOOLEAN]
  /\ row \in [Dbs -> Vals] /\ pend \in [Dbs -> Vals] /\ cache \in [Dbs -> Vals]
  /\ outcome \in {"none", "committed", "rolled back", "exception"}
  /\ before \in [Dbs -> Vals] /\ last \in [Dbs -> Vals]
  /\ wrote \in SUBSET Dbs /\ leaked \in SUBSET Dbs
  /\ severed \in SUBSET Dbs /\ undone \in SUBSET Dbs
  /\ dropped \in SUBSET Dbs /\ lost \in SUBSET Dbs
  /\ owed \in [Dbs -> Vals \cup {Unknown}]
  /\ astray \in SUBSET Astray

Init ==
  /\ pc = "idle" /\ job \in Dbs \X {0} /\ k = 1
  /\ auto_commit = TRUE /\ connections = <<>>
  /\ tx = [d \in Dbs |-> FALSE] /\ live = tx
  /\ row = [d \in Dbs |-> 0] /\ pend = row /\ cache = row
  /\ intx = FALSE /\ outcome = "none"
  /\ before = row /\ last = row /\ owed = row
  /\ wrote = {} /\ astray = {} /\ leaked = {} /\ severed = {} /\ undone = {}
  /\ dropped = {} /\ lost = {}

-----------------------------------------------------------------------------
\* array_key_exists($con_name, self::$connections)
Opened(d) == \E j \in DOMAIN connections : connections[j] = d

\* get_connection(): the transaction of d's connection afterwards; $auto_commit
\* is looked at when the connection is opened.
TxOf(d) == IF Opened(d) THEN tx[d] ELSE ~auto_commit
LiveOf(d) == IF Opened(d) THEN live[d] ELSE ~auto_commit

GetConnection(d) ==
  /\ connections' = IF Opened(d) THEN connections ELSE Append(connections, d)
  /\ tx' = [tx EXCEPT ![d] = TxOf(d)]
  /\ leaked' = IF ~Opened(d) /\ TxOf(d) /\ ~intx THEN leaked \cup {d} ELSE leaked

begin_transaction ==
  /\ pc = "idle"
  /\ auto_commit' = FALSE
  /\ intx' = TRUE
  /\ IF intx THEN UNCHANGED <<before, wrote, astray, severed>>
             ELSE /\ before' = row /\ wrote' = {} /\ astray' = {}
                  /\ severed' = {d \in Dbs : tx[d] /\ ~live[d]}
  /\ outcome' = "none"
  /\ UNCHANGED <<pc, job, k, connections, tx, live, row, pend, cache, last, owed,
                 leaked, undone, dropped, lost>>

\* The statement on d's connection leaves the server's transaction as it is.
Keeps(d) ==
  /\ live' = [live EXCEPT ![d] = LiveOf(d)]
  /\ UNCHANGED <<pend, astray, severed, undone>>

\* It fails and the transaction with it: a deadlock, after which the connection
\* goes on and PDO knows of nothing, or a lost connection.
Severs(d) ==
  /\ LiveOf(d)
  /\ live' = [live EXCEPT ![d] = FALSE]
  /\ pend' = [pend EXCEPT ![d] = row[d]]
  /\ severed' = severed \cup {d}
  /\ undone' = IF pend[d] # row[d] THEN undone \cup {d} ELSE undone
  /\ astray' = IF intx /\ pend[d] # row[d] THEN astray \cup {"undone"} ELSE astray

\* A query opens a connection too, to the master or to a slave.
Query(d) ==
  /\ pc = "idle"
  /\ GetConnection(d)
  /\ \/ Keeps(d) /\ dropped' = dropped
     \/ Severs(d) /\ dropped' = dropped \cup {d}
  /\ outcome' = "none"
  /\ UNCHANGED <<pc, job, k, auto_commit, row, cache, intx, before, last, wrote,
                 owed, lost>>

\* Mutant of CacheUpdate: the entry gets the row as it was loaded.
CacheUpdateOld(d, v) ==
  /\ cache' = [cache EXCEPT ![d] = pend[d]]
  /\ lost' = lost \ {d}

\* The answer of memcache's set is not looked at: it may have done nothing.
CacheUpdate(d, v) ==
  \/ cache' = [cache EXCEPT ![d] = v] /\ lost' = lost \ {d}
  \/ cache' = cache /\ lost' = lost \cup {d}

\* _update(): the cache first.
Save(d, v) ==
  /\ pc = "idle"
  /\ CacheUpdate(d, v)
  /\ job' = <<d, v>>
  /\ pc' = "update"
  /\ outcome' = "none"
  /\ UNCHANGED <<k, dbvars, intx, before, last, wrote, owed, astray, leaked,
                 severed, undone, dropped>>

\* Then the statement, on the connection of its database; due is what the
\* script may take for durable afterwards.
Executes(d, v, due) ==
  /\ GetConnection(d)
  /\ live' = [live EXCEPT ![d] = LiveOf(d)]
  /\ pend' = [pend EXCEPT ![d] = v]
  /\ row' = IF LiveOf(d) THEN row ELSE [row EXCEPT ![d] = v]
  /\ last' = [last EXCEPT ![d] = v]
  /\ wrote' = IF intx THEN wrote \cup {d} ELSE {}
  /\ astray' = IF intx /\ ~LiveOf(d) THEN astray \cup {"not in it"} ELSE astray
  /\ owed' = [owed EXCEPT ![d] = due]
  /\ undone' = undone \ {d}
  /\ dropped' = dropped \ {d}
  /\ pc' = "idle"
  /\ UNCHANGED <<job, k, auto_commit, cache, intx, outcome, before, severed, lost>>

Execute ==
  /\ pc = "update"
  /\ LET d == job[1]
         v == job[2]
     IN Executes(d, v, IF ~intx THEN v
                       ELSE IF LiveOf(d) THEN owed[d] ELSE Unknown)

\* It is done and committed, but the connection is lost before the answer.
AnswerLost ==
  /\ pc = "update"
  /\ ~LiveOf(job[1])
  /\ Executes(job[1], job[2], Unknown)

\* The connection or, on it, the statement fails; the caller gets an exception.
ExecuteFails ==
  /\ pc = "update"
  /\ pc' = "idle"
  /\ LET d == job[1]
     IN /\ \/ GetConnection(d) /\ (Keeps(d) \/ Severs(d))
           \/ UNCHANGED <<connections, tx, live, leaked, pend, astray, severed, undone>>
        /\ dropped' = dropped \cup {d}
  /\ UNCHANGED <<job, k, auto_commit, row, cache, intx, outcome, before, last,
                 wrote, owed, lost>>

commit ==
  /\ pc = "idle"
  /\ pc' = "commit" /\ k' = 1
  /\ UNCHANGED <<job, dbvars, cache, intx, outcome, hist>>

roll_back ==
  /\ pc = "idle"
  /\ pc' = "rollback" /\ k' = 1
  /\ UNCHANGED <<job, dbvars, cache, intx, outcome, hist>>

\* Mutant of MoreToDo: the last connection is left out.
MoreToDoBut1 == k < Len(connections)

MoreToDo == k <= Len(connections)

\* The transaction on d is over without effect.
Undo(d) ==
  /\ tx' = [tx EXCEPT ![d] = FALSE]
  /\ live' = [live EXCEPT ![d] = FALSE]
  /\ pend' = [pend EXCEPT ![d] = row[d]]
  /\ row' = row
  /\ dropped' = IF live[d] THEN dropped \cup {d} ELSE dropped

\* It is committed; a COMMIT without a transaction does nothing.
Redo(d) ==
  /\ row' = [row EXCEPT ![d] = pend[d]]
  /\ tx' = [tx EXCEPT ![d] = FALSE]
  /\ live' = [live EXCEPT ![d] = FALSE]
  /\ UNCHANGED <<pend, dropped>>

\* $con->commit() of the connection the loop is at.
CommitOne ==
  /\ pc = "commit" /\ MoreToDo
  /\ tx[connections[k]]
  /\ Redo(connections[k])
  /\ leaked' = leaked \ {connections[k]}
  /\ k' = k + 1
  /\ UNCHANGED <<pc, job, auto_commit, connections, cache, intx, outcome,
                 before, last, wrote, owed, astray, severed, undone, lost>>

\* Mutant of RollBackOne: a connection without a transaction is passed over.
RollBackOneQuiet ==
  /\ pc = "rollback" /\ MoreToDo
  /\ Undo(connections[k])
  /\ k' = k + 1
  /\ UNCHANGED <<pc, job, auto_commit, connections, cache, intx, outcome,
                 before, last, wrote, owed, astray, leaked, severed, undone, lost>>

\* $con->rollBack() of the connection the loop is at.
RollBackOne ==
  /\ pc = "rollback" /\ MoreToDo
  /\ tx[connections[k]]
  /\ Undo(connections[k])
  /\ k' = k + 1
  /\ UNCHANGED <<pc, job, auto_commit, connections, cache, intx, outcome,
                 before, last, wrote, owed, astray, leaked, severed, undone, lost>>

\* PDO throws: there is no active transaction, or the server is gone and the
\* transaction with it, or only the answer to its commit.  The connections
\* after this one are not reached.
LoopStops ==
  /\ pc \in {"commit", "rollback"} /\ MoreToDo
  /\ \/ Undo(connections[k])
     \/ pc = "commit" /\ tx[connections[k]] /\ Redo(connections[k])
  /\ pc' = "idle"
  /\ intx' = FALSE
  /\ outcome' = "exception"
  /\ astray' = astray \cup {"stopped"}
  /\ leaked' = leaked \cup {d \in Dbs : tx[d] /\ d # connections[k]}
  /\ owed' = [d \in Dbs |-> IF d \in wrote THEN Unknown ELSE owed[d]]
  /\ UNCHANGED <<job, k, auto_commit, connections, cache, before, last, wrote,
                 severed, undone, lost>>

Committed ==
  /\ pc = "commit" /\ ~MoreToDo
  /\ pc' = "idle"
  /\ intx' = FALSE
  /\ outcome' = "committed"
  /\ owed' = [d \in Dbs |-> IF d \in wrote THEN last[d] ELSE owed[d]]
  /\ UNCHANGED <<job, k, dbvars, cache, before, last, wrote, astray, leaked,
                 severed, undone, dropped, lost>>

RolledBack ==
  /\ pc = "rollback" /\ ~MoreToDo
  /\ pc' = "idle"
  /\ intx' = FALSE
  /\ outcome' = "rolled back"
  /\ UNCHANGED <<job, k, dbvars, cache, hist>>

\* The script ends or is killed: the server rolls back what is not committed.
Exit ==
  /\ pc # "ended"
  /\ pc' = "ended"
  /\ tx' = [d \in Dbs |-> FALSE] /\ live' = tx'
  /\ pend' = row
  /\ dropped' = dropped \cup {d \in Dbs : live[d]}
                        \cup (IF pc = "update" THEN {job[1]} ELSE {})
  /\ intx' = FALSE
  /\ outcome' = "none"
  /\ astray' = IF pc = "commit" THEN astray \cup {"killed"} ELSE astray
  /\ owed' = [d \in Dbs |-> IF pc = "commit" /\ d \in wrote THEN Unknown
                                                            ELSE owed[d]]
  /\ UNCHANGED <<job, k, auto_commit, connections, row, cache, before, last,
                 wrote, leaked, severed, undone, lost>>

Next ==
  \/ begin_transaction \/ commit \/ roll_back
  \/ \E d \in Dbs : Query(d) \/ \E v \in Vals : Save(d, v)
  \/ Execute \/ AnswerLost \/ ExecuteFails
  \/ CommitOne \/ RollBackOne \/ LoopStops \/ Committed \/ RolledBack
  \/ Exit

Spec == Init /\ [][Next]_vars

-----------------------------------------------------------------------------
Over == pc \in {"idle", "ended"} /\ ~intx

(***************************************************************************)
(* What a transaction wrote is committed in every database or in none,     *)
(* unless one of its writes went over a connection that was not in it (one *)
(* open before begin_transaction, mysqlAccessor.php:449), the server undid *)
(* one after a failure the script survived (mysqlAccessor.php:442), or the *)
(* loop of commit() was left by an exception or a kill.                    *)
(***************************************************************************)
AllOrNothing ==
  Over /\ astray = {} =>
    \/ \A d \in wrote : row[d] = last[d]
    \/ \A d \in wrote : row[d] = before[d]

(***************************************************************************)
(* When roll_back() returns, every database is as it was at                *)
(* begin_transaction: where that cannot be had it throws, after a commit() *)
(* that stopped half way too.  The exception is a connection whose         *)
(* transaction the server has ended: PDO does not know, and what was       *)
(* written over it afterwards stays.                                       *)
(***************************************************************************)
RollBackRestores ==
  outcome = "rolled back" => \A d \in Dbs : row[d] = before[d] \/ d \in severed

(***************************************************************************)
(* What was written outside a transaction, or in one that was committed,   *)
(* is durable, unless its connection was opened after an earlier           *)
(* transaction, since $auto_commit is never set back, or was left in one   *)
(* by a commit() or roll_back() that stopped: then it is in a transaction  *)
(* that nobody knows of and perhaps nobody commits; or unless the server   *)
(* undid it and it was not written again: commit() does not tell.          *)
(***************************************************************************)
DurableUnlessLeaked ==
  Over => \A d \in Dbs :
            owed[d] \in {Unknown, row[d]} \/ d \in leaked \/ d \in undone

(***************************************************************************)
(* The cache says what is committed, unless a transaction on the row is    *)
(* still open (then everybody reads uncommitted data through the cache),   *)
(* the update was undone or failed after its entry was written, or memcache*)
(* did not take the last one (APF_DB_DataObject.php:253).                  *)
(***************************************************************************)
CacheAheadHasReason ==
  pc \in {"idle", "ended"} =>
    \A d \in Dbs : cache[d] = row[d] \/ live[d] \/ d \in dropped \/ d \in lost
=============================================================================
