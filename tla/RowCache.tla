------------------------------ MODULE RowCache ------------------------------
(***************************************************************************)
(* APF_DB_DataObject and APF_DB_MysqlAccessor: row objects that PHP        *)
(* requests load, save and delete, in the sub-tables of a master database  *)
(* that a slave follows, with every object also in memcache.  The key of   *)
(* an entry is made of the class and the primary key: rows of two          *)
(* sub-tables with one primary key share an entry.                         *)
(*                                                                         *)
(* An object has its primary key and one property, which stands for all.   *)
(* A request runs from one call to the database or the cache to the next   *)
(* as one step.  The cache is enabled, and requests do not use             *)
(* transactions here.                                                      *)
(***************************************************************************)
EXTENDS Integers, Sequences, FiniteSets

CONSTANTS
  Reqs,      \* the requests (PHP processes)
  Tables,    \* the split suffixes of the class, each with a table
  Values,    \* what a property may be set to, besides null
  MaxId,     \* bound: primary keys a table may give out
  FirstRows, \* the rows of each table at first, keys 1, 2, ...
  MaxOps,    \* bound: calls that the requests make together
  Default    \* the column's default

Null == "null"
Absent == "absent"
None == "none"
Ids == 1 .. MaxId
Rows == Tables \X Ids

ASSUME RowAssumption ==
  /\ MaxId \in Nat /\ MaxOps \in Nat
  /\ FirstRows \in [Tables -> Seq(Values)]
  /\ \A t \in Tables : Len(FirstRows[t]) <= MaxId
  /\ {Null, Absent} \cap Values = {} /\ None \notin Tables
  /\ Default \in Values \cup {Null}

VARIABLES
  master, slave,  \* row -> its column, or Absent
  relay,          \* changes of the master the slave has not yet made
  nextid,         \* the auto-increment counter of each table
  cache,          \* key -> suffix and property of the cached object, or Miss
  pc,             \* the next external call of each request
  obj,            \* its object: suffix, key (0 for null), property, isLoaded
  ops,            \* calls the requests have made
  taint,          \* history: what may have made the entry of a row stale
  own             \* history: what a request has saved undisturbed

dbvars == <<master, slave, relay, nextid>>
vars == <<dbvars, cache, pc, obj, ops, taint, own>>

Column == Values \cup {Null}
Suffix == Tables \cup {None}
Miss == [tab |-> None, v |-> Null]
NoObj == [tab |-> None, id |-> 0, v |-> Null, isLoaded |-> TRUE]

\* What the constructor makes.
New(tab, id, v) == [tab |-> tab, id |-> id, v |-> v, isLoaded |-> FALSE]

\* What init_objs makes of a row: with the suffix of the last use_model, which
\* may have been for another accessor, and null for each column that
\* load_field did not select.
Loaded(id, v) ==
  {[tab |-> t, id |-> sel[1], v |-> sel[2], isLoaded |-> TRUE] :
     t \in Tables, sel \in {<<id, v>>, <<id, Null>>, <<0, v>>}}

RowOf(o) == <<o.tab, o.id>>

Nothing == <<<<None, 0>>, Null>>

Reasons == {"overlap", "slave behind", "not selected", "suffix", "null", "no row",
            "failed", "lost", "bypass"}

TypeOK ==
  /\ master \in [Rows -> Column \cup {Absent}]
  /\ slave \in [Rows -> Column \cup {Absent}]
  /\ relay \in Seq(Rows \X (Column \cup {Absent}))
  /\ nextid \in [Tables -> 1 .. MaxId + 1]
  /\ cache \in [Ids -> [tab : Suffix, v : Column]]
  /\ pc \in [Reqs -> {"idle", "query", "fill", "insert", "insert cache",
                      "update cache", "update", "delete cache", "delete",
                      "exception"}]
  /\ obj \in [Reqs -> [tab : Suffix, id : 0 .. MaxId, v : Column,
                       isLoaded : BOOLEAN]]
  /\ ops \in 0 .. MaxOps
  /\ taint \in [Rows -> SUBSET Reasons]
  /\ own \in [Reqs -> (Suffix \X (0 .. MaxId)) \X Column]

Init ==
  /\ master = [row \in Rows |->
                 IF row[2] <= Len(FirstRows[row[1]])
                 THEN FirstRows[row[1]][row[2]] ELSE Absent]
  /\ slave = master
  /\ relay = <<>>
  /\ nextid = [t \in Tables |-> Len(FirstRows[t]) + 1]
  /\ cache = [id \in Ids |-> Miss]
  /\ pc = [r \in Reqs |-> "idle"]
  /\ obj = [r \in Reqs |-> NoObj]
  /\ ops = 0
  /\ taint = [row \in Rows |-> {}]
  /\ own = [r \in Reqs |-> Nothing]

-----------------------------------------------------------------------------
\* A request makes its next call.
Begin(r) ==
  /\ pc[r] = "idle"
  /\ ops < MaxOps
  /\ ops' = ops + 1

Goto(r, where) == pc' = [pc EXCEPT ![r] = where]

\* A change of the master, which the slave will follow.
Write(row, col) ==
  /\ master' = [master EXCEPT ![row] = col]
  /\ relay' = Append(relay, <<row, col>>)

\* The counter of a table once it has the row.
Counts(row) ==
  nextid' = [nextid EXCEPT ![row[1]] = IF row[2] >= @ THEN row[2] + 1 ELSE @]

(* Mutant of CacheSet: the primary key is left out of the key as well.     *)
CacheSetOneKey(o) ==
  \/ o.id # 0 /\ cache' = [cache EXCEPT ![1] = [tab |-> o.tab, v |-> o.v]]
  \/ UNCHANGED cache

\* _cache_update and set_cached_objs, and _cache_delete.  The suffix is not in
\* the key.  Nobody looks at what memcache answers, so that a call may also do
\* nothing.  An entry with no key is one that no find_by_pk asks for.
CacheSet(o) ==
  \/ o.id # 0 /\ cache' = [cache EXCEPT ![o.id] = [tab |-> o.tab, v |-> o.v]]
  \/ UNCHANGED cache

CacheDelete(o) == cache' \in {[cache EXCEPT ![o.id] = Miss], cache}

(* create($data, $splitSuffix)                                             *)
Create(r) ==
  /\ Begin(r)
  /\ \E t \in Tables, v \in Column : obj' = [obj EXCEPT ![r] = New(t, 0, v)]
  /\ UNCHANGED <<dbvars, cache, pc>>

(* find_by_pk: from the cache, whichever sub-table the object there is of, *)
(* or, when there is none or $del_cache says to pass it by, from the       *)
(* database and then into the cache.                                       *)
FindByPk(r, row) ==
  /\ Begin(r)
  /\ \/ /\ cache[row[2]] # Miss
        /\ obj' = [obj EXCEPT ![r] =
             [tab |-> cache[row[2]].tab, id |-> row[2], v |-> cache[row[2]].v,
              isLoaded |-> TRUE]]
        /\ UNCHANGED pc
     \/ /\ obj' = [obj EXCEPT ![r] = New(row[1], row[2], Null)]
        /\ Goto(r, "query")
  /\ UNCHANGED <<dbvars, cache>>

\* get_pdo_name: a read goes to the slave unless force_master was called.
ReadFrom(row) == {slave[row], master[row]}

Query(r) ==
  /\ pc[r] = "query"
  /\ \E v \in ReadFrom(RowOf(obj[r])) :
       IF v = Absent
       THEN /\ obj' = [obj EXCEPT ![r] = NoObj]
            /\ Goto(r, "idle")
       ELSE /\ \E o \in Loaded(obj[r].id, v) : obj' = [obj EXCEPT ![r] = o]
            /\ Goto(r, "fill")
  /\ UNCHANGED <<dbvars, cache, ops>>

Fill(r) ==
  /\ pc[r] = "fill"
  /\ CacheSet(obj[r])
  /\ Goto(r, "idle")
  /\ UNCHANGED <<dbvars, obj, ops>>

(* save($data), with the property or without it.  The loop over $data uses *)
(* $key again, so that is_null looks at the last property set, and at the  *)
(* primary key only when there is none.                                    *)
Save(r) ==
  /\ Begin(r)
  /\ obj[r] # NoObj
  /\ \/ /\ Goto(r, IF ~obj[r].isLoaded \/ obj[r].id = 0 THEN "insert"
                                                        ELSE "update cache")
        /\ UNCHANGED obj
     \/ \E v \in Column :
          /\ obj' = [obj EXCEPT ![r].v = v]
          /\ Goto(r, IF ~obj[r].isLoaded \/ v = Null THEN "insert"
                                                     ELSE "update cache")
  /\ UNCHANGED <<dbvars, cache>>

(* _insert: the key too if there is one, and the column's default for null.*)
Insert(r) ==
  /\ pc[r] = "insert"
  /\ LET tab == obj[r].tab
         id == IF obj[r].id = 0 THEN nextid[tab] ELSE obj[r].id
     IN /\ id \in Ids
        /\ master[<<tab, id>>] = Absent
        /\ Write(<<tab, id>>, IF obj[r].v = Null THEN Default ELSE obj[r].v)
        /\ obj' = [obj EXCEPT ![r].id = id, ![r].isLoaded = TRUE]
        /\ Counts(<<tab, id>>)
  /\ Goto(r, "insert cache")
  /\ UNCHANGED <<slave, cache, ops>>

\* The key is taken: PDO throws.
DuplicateKey(r) ==
  /\ pc[r] = "insert"
  /\ obj[r].id # 0 /\ master[RowOf(obj[r])] # Absent
  /\ Goto(r, "exception")
  /\ UNCHANGED <<dbvars, cache, obj, ops>>

InsertCache(r) ==
  /\ pc[r] = "insert cache"
  /\ CacheSet(obj[r])
  /\ Goto(r, "idle")
  /\ UNCHANGED <<dbvars, obj, ops>>

(* _update: the cache first, then the database, nulls left out; an update  *)
(* of a row that is not there is none.  get_primary_key throws, before     *)
(* anything is done, when the object has no key.                           *)
UpdateCache(r) ==
  /\ pc[r] = "update cache"
  /\ obj[r].id # 0
  /\ CacheSet(obj[r])
  /\ Goto(r, "update")
  /\ UNCHANGED <<dbvars, obj, ops>>

Update(r) ==
  /\ pc[r] = "update"
  /\ IF obj[r].v = Null \/ master[RowOf(obj[r])] = Absent
     THEN UNCHANGED <<master, relay>>
     ELSE Write(RowOf(obj[r]), obj[r].v)
  /\ Goto(r, "idle")
  /\ UNCHANGED <<slave, nextid, cache, obj, ops>>

(* Mutant of Delete: the entry is left in the cache.                       *)
DeleteUncached(r) ==
  /\ Begin(r)
  /\ obj[r].id # 0
  /\ Goto(r, "delete")
  /\ UNCHANGED <<dbvars, cache, obj>>

(* delete: the cache first, then the database, or get_primary_key throws.  *)
Delete(r) ==
  /\ Begin(r)
  /\ obj[r] # NoObj
  /\ Goto(r, "delete cache")
  /\ UNCHANGED <<dbvars, cache, obj>>

DeleteCache(r) ==
  /\ pc[r] = "delete cache"
  /\ obj[r].id # 0
  /\ CacheDelete(obj[r])
  /\ Goto(r, "delete")
  /\ UNCHANGED <<dbvars, obj, ops>>

DeleteRow(r) ==
  /\ pc[r] = "delete"
  /\ IF master[RowOf(obj[r])] = Absent THEN UNCHANGED <<master, relay>>
                                       ELSE Write(RowOf(obj[r]), Absent)
  /\ Goto(r, "idle")
  /\ UNCHANGED <<slave, nextid, cache, obj, ops>>

(* The accessor's own insert, replace, update, delete and native_sql,      *)
(* which change a row and leave the cache alone.                           *)
DirectWrite(r, row) ==
  /\ Begin(r)
  /\ \E col \in Column \cup {Absent} :
       /\ col # master[row]
       /\ Write(row, col)
       /\ IF col = Absent THEN UNCHANGED nextid ELSE Counts(row)
  /\ UNCHANGED <<slave, cache, pc, obj>>

(* A call throws, or the request is killed: nothing is undone.             *)
Fail(r) ==
  /\ pc[r] \notin {"idle", "exception"}
  /\ Goto(r, "exception")
  /\ UNCHANGED <<dbvars, cache, obj, ops>>

\* The slave makes the next change.
Replicate ==
  /\ relay # <<>>
  /\ slave' = [slave EXCEPT ![Head(relay)[1]] = Head(relay)[2]]
  /\ relay' = Tail(relay)
  /\ UNCHANGED <<master, nextid, cache, pc, obj, ops>>

\* An entry expires, or memcached evicts it.
Expire(id) ==
  /\ cache[id] # Miss
  /\ cache' = [cache EXCEPT ![id] = Miss]
  /\ UNCHANGED <<dbvars, pc, obj, ops>>

ReqNext(r) ==
  \/ Create(r) \/ \E row \in Rows : FindByPk(r, row)
  \/ Query(r) \/ Fill(r)
  \/ Save(r)
  \/ Insert(r) \/ DuplicateKey(r) \/ InsertCache(r)
  \/ UpdateCache(r) \/ Update(r)
  \/ Delete(r) \/ DeleteCache(r) \/ DeleteRow(r)
  \/ \E row \in Rows : DirectWrite(r, row)
  \/ Fail(r)

-----------------------------------------------------------------------------
(* The history: which requests are between a look at a row and what they   *)
(* do about it, and what can make an entry wrong.                          *)

InFlight(r, row) ==
  RowOf(obj[r]) = row /\ pc[r] \in {"fill", "insert cache", "update", "delete"}

\* The entry under the row's key is an object of the row, with property v.
Holds(row, v) == cache[row[2]] = [tab |-> row[1], v |-> v]
HasEntry(row) == cache[row[2]].tab = row[1]

Stale(row) == HasEntry(row) /\ ~Holds(row, master[row])

Calm(row) == ~Stale(row) /\ \A r \in Reqs : ~InFlight(r, row)

\* What is wrong with an object that a query has made, for its own row.
Misread(r, row) ==
  CASE obj[r].tab # row[1]            -> {"suffix"}
    [] obj'[r].v \notin ReadFrom(row) -> {"not selected"}
    [] OTHER                          -> {"slave behind"}

Fault(r, row) ==
  (IF pc[r] = "query" /\ pc'[r] = "fill" /\ obj'[r].v # master[row]
   THEN Misread(r, row) ELSE {})
  \cup (IF pc'[r] \in {"update", "insert cache"} /\ obj'[r].v = Null
        THEN {"null"} ELSE {})
  \cup (IF pc'[r] = "update" /\ master[row] = Absent THEN {"no row"} ELSE {})
  \cup (IF pc[r] = "update" /\ pc'[r] = "exception" THEN {"failed"} ELSE {})
  \cup (IF \/ pc[r] = "update cache" /\ pc'[r] = "update" /\ ~Holds(row, obj[r].v)'
           \/ pc[r] = "delete cache" /\ pc'[r] = "delete" /\ HasEntry(row)'
        THEN {"lost"} ELSE {})

Overlap(row) ==
  IF \E r, q \in Reqs : r # q /\ InFlight(r, row) /\ InFlight(q, row)
  THEN {"overlap"} ELSE {}

\* The row was changed by a call that does not know of the cache.
Bypassed(row) == ops' # ops /\ master'[row] # master[row]

\* r has saved the property v of the row, and its entry is still there.
Saved(r, row, v) ==
  /\ pc[r] \in {"insert cache", "update"} /\ pc'[r] = "idle"
  /\ RowOf(obj[r]) = row /\ obj[r].v = v
  /\ Calm(row)' /\ cache'[row[2]] = [tab |-> row[1], v |-> v]

\* Somebody else, or r again, is at work on the row, or it is changed past the
\* cache, or its entry has made way for a row of another table, or is gone
\* before the slave has heard of the row.
Disturbed(row, v) ==
  \/ \E q \in Reqs : InFlight(q, row)'
  \/ Bypassed(row)
  \/ ~HasEntry(row)' /\ (cache'[row[2]] # Miss \/ slave'[row] # v)

Watch ==
  /\ taint' = [row \in Rows |->
       IF Calm(row)' THEN {}
       ELSE taint[row] \cup Overlap(row)'
              \cup (IF Bypassed(row) THEN {"bypass"} ELSE {})
              \cup UNION {Fault(r, row) : r \in {q \in Reqs : RowOf(obj'[q]) = row}}]
  /\ own' = [r \in Reqs |->
       IF \E row \in Rows, v \in Values : Saved(r, row, v)
       THEN <<RowOf(obj[r]), obj[r].v>>
       ELSE IF \E row \in Rows, v \in Values :
                 own[r] = <<row, v>> /\ Disturbed(row, v)
            THEN Nothing ELSE own[r]]

Next ==
  /\ \/ \E r \in Reqs : ReqNext(r)
     \/ Replicate
     \/ \E id \in Ids : Expire(id)
  /\ Watch

Spec == Init /\ [][Next]_vars

-----------------------------------------------------------------------------
(***************************************************************************)
(* How what find_by_pk finds in the cache can be something else than the   *)
(* row it was asked for, when nobody is at work on the row.  It is an      *)
(* object of another sub-table with the same primary key, since the suffix *)
(* is not in the key (APF_DB_DataObject.php:253); or it came to be wrong   *)
(* while two requests were at work on the row, by a fill from a slave that *)
(* is behind, by a fill with a column that load_field left out or with the *)
(* suffix of another use_model (mysqlAccessor.php:425-427), by a null that *)
(* the cache takes and the database does not, by an update of a row that   *)
(* was deleted, by an update that failed after the cache was written       *)
(* (APF_DB_DataObject.php:147), by a call to memcache that did nothing, or *)
(* by a write of the accessor's own, which leaves the cache alone          *)
(* (mysqlAccessor.php:365-391).  Each of these is told by what was done to *)
(* this row since its entry was last right.                                *)
(***************************************************************************)
StaleHasReason ==
  \A row \in Rows :
    (cache[row[2]] # Miss /\ ~Holds(row, master[row])
       /\ \A r \in Reqs : ~InFlight(r, row))
    => taint[row] # {} \/ cache[row[2]].tab # row[1]

(***************************************************************************)
(* A request finds what it has saved, although reads go to a slave that    *)
(* may be behind: the entry that save() leaves in the cache hides it       *)
(* (APF_DB_DataObject.php:136 and 147), until somebody else works on the   *)
(* row, or writes it past the cache, or the entry goes too early or makes  *)
(* way for one of another sub-table.  Found is what a find_by_pk of all    *)
(* columns gives that does not pass the cache by.                          *)
(***************************************************************************)
Found(row) ==
  IF cache[row[2]] # Miss
  THEN {cache[row[2]]}
  ELSE {[tab |-> row[1], v |-> x] : x \in ReadFrom(row)}

ReadsOwnWrites ==
  \A r \in Reqs : own[r] # Nothing =>
    Found(own[r][1]) = {[tab |-> own[r][1][1], v |-> own[r][2]]}
=============================================================================
