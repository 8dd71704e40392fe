----------------------------- MODULE RowProofs ------------------------------
(***************************************************************************)
(* Proofs about the row cache, for any number of requests, calls, tables,  *)
(* keys and values.                                                        *)
(***************************************************************************)
EXTENDS RowCache, SequenceTheorems, TLAPS

Obj == [tab : Suffix, id : 0 .. MaxId, v : Column, isLoaded : BOOLEAN]
Entry == [tab : Tables, v : Column]
Cell == Column \cup {Absent}
Places == {"idle", "query", "fill", "insert", "insert cache", "update cache",
           "update", "delete cache", "delete", "exception"}

\* A request that is at work on an object knows its table, and past the first
\* calls of it its key.
KeyedAt(r) ==
  /\ pc[r] \in {"query", "insert cache", "update", "delete"} => obj[r].id \in Ids
  /\ pc[r] \notin {"idle", "exception"} => obj[r].tab \in Tables
  /\ obj[r] = NoObj \/ obj[r].tab \in Tables

Keyed == \A r \in Reqs : KeyedAt(r)

\* The types of what the requests, the databases and the cache have.
CoreTypes ==
  /\ master \in [Rows -> Cell]
  /\ slave \in [Rows -> Cell]
  /\ relay \in Seq(Rows \X Cell)
  /\ nextid \in [Tables -> 1 .. MaxId + 1]
  /\ cache \in [Ids -> Entry \cup {Miss}]
  /\ pc \in [Reqs -> Places]
  /\ obj \in [Reqs -> Obj]
  /\ ops \in 0 .. MaxOps

HistoryTypes ==
  /\ taint \in [Rows -> SUBSET Reasons]
  /\ own \in [Reqs -> (Suffix \X (0 .. MaxId)) \X Column]

Types == CoreTypes /\ HistoryTypes /\ Keyed

-----------------------------------------------------------------------------
(* Facts about keys, rows, columns, entries and objects.                   *)

LEMMA Keys ==
  /\ 0 \in 0 .. MaxId /\ 0 \notin Ids
  /\ \A id \in Ids : id \in 0 .. MaxId /\ id + 1 \in 1 .. MaxId + 1
  /\ \A n \in 0 .. MaxId : n # 0 => n \in Ids
  BY RowAssumption DEF Ids

LEMMA Columns ==
  /\ Null \in Column /\ Default \in Column
  /\ Absent \notin Column
<1>1. Null # Absent
  BY DEF Null, Absent
<1> QED
  BY <1>1, RowAssumption DEF Column

LEMMA RowParts ==
  ASSUME NEW row \in Rows
  PROVE  row[1] \in Tables /\ row[2] \in Ids /\ row = <<row[1], row[2]>>
  BY DEF Rows

LEMMA RowMade ==
  ASSUME NEW t \in Tables, NEW id \in Ids
  PROVE  <<t, id>> \in Rows /\ <<t, id>>[1] = t /\ <<t, id>>[2] = id
  BY DEF Rows

LEMMA RowOfParts ==
  ASSUME NEW o \in Obj, NEW row \in Rows, RowOf(o) = row
  PROVE  o.tab = row[1] /\ o.id = row[2] /\ o.tab \in Tables /\ o.id \in Ids
  BY RowParts DEF RowOf

\* No entry of any table is there when the cache misses.
LEMMA Misses ==
  /\ Miss.tab = None /\ None \notin Tables /\ Miss \notin Entry
  /\ Miss \in [tab : Suffix, v : Column]
  BY RowAssumption, Columns DEF Miss, Entry, Suffix

LEMMA TypesImplyTypeOK == Types => TypeOK
<1>1. Entry \cup {Miss} \subseteq [tab : Suffix, v : Column]
  BY Misses DEF Entry, Suffix
<1> QED
  BY <1>1 DEF Types, CoreTypes, HistoryTypes, TypeOK, Obj, Places, Cell

LEMMA Objects ==
  /\ NoObj \in Obj
  /\ \A t \in Tables, id \in 0 .. MaxId, v \in Column :
       New(t, id, v) \in Obj /\ New(t, id, v).tab = t /\ New(t, id, v).id = id
  BY Keys, Columns DEF NoObj, New, Obj, Suffix

LEMMA LoadedObjects ==
  ASSUME NEW id \in 0 .. MaxId, NEW v \in Column, NEW o \in Loaded(id, v)
  PROVE  o \in Obj /\ o.tab \in Tables
<1>1. PICK t \in Tables, sel \in {<<id, v>>, <<id, Null>>, <<0, v>>} :
        o = [tab |-> t, id |-> sel[1], v |-> sel[2], isLoaded |-> TRUE]
  BY DEF Loaded
<1>2. sel[1] \in 0 .. MaxId /\ sel[2] \in Column
  BY Keys, Columns
<1> QED
  BY <1>1, <1>2 DEF Obj, Suffix

\* A request gets another object.
LEMMA SetObj ==
  ASSUME CoreTypes, NEW r \in Reqs, NEW o \in Obj, obj' = [obj EXCEPT ![r] = o]
  PROVE  /\ obj' \in [Reqs -> Obj] /\ obj'[r] = o
         /\ \A q \in Reqs : q # r => obj'[q] = obj[q]
  BY DEF CoreTypes

LEMMA SetPc ==
  ASSUME CoreTypes, NEW r \in Reqs, NEW p \in Places, Goto(r, p)
  PROVE  /\ pc' \in [Reqs -> Places] /\ pc'[r] = p
         /\ \A q \in Reqs : q # r => pc'[q] = pc[q]
  BY DEF CoreTypes, Goto

LEMMA SetOps ==
  ASSUME CoreTypes, NEW r \in Reqs, Begin(r)
  PROVE  ops' \in 0 .. MaxOps /\ pc[r] = "idle" /\ ops' # ops
  BY RowAssumption DEF CoreTypes, Begin

LEMMA WriteTypes ==
  ASSUME CoreTypes, NEW row \in Rows, NEW col \in Cell, Write(row, col)
  PROVE  /\ master' \in [Rows -> Cell] /\ relay' \in Seq(Rows \X Cell)
         /\ master'[row] = col
         /\ \A k \in Rows : k # row => master'[k] = master[k]
<1>1. <<row, col>> \in Rows \X Cell
  OBVIOUS
<1>2. relay' \in Seq(Rows \X Cell)
  BY <1>1, AppendProperties DEF CoreTypes, Write
<1> QED
  BY <1>2 DEF CoreTypes, Write

LEMMA CountsTypes ==
  ASSUME CoreTypes, NEW row \in Rows, Counts(row)
  PROVE  nextid' \in [Tables -> 1 .. MaxId + 1]
<1>1. row[1] \in Tables /\ row[2] + 1 \in 1 .. MaxId + 1
  BY RowParts, Keys
<1> QED
  BY <1>1 DEF CoreTypes, Counts

\* What the calls to memcache leave under a key.
LEMMA CacheSetTypes ==
  ASSUME CoreTypes, NEW o \in Obj, o.tab \in Tables, CacheSet(o)
  PROVE  /\ cache' \in [Ids -> Entry \cup {Miss}]
         /\ \A id \in Ids : id # o.id => cache'[id] = cache[id]
         /\ o.id \in Ids =>
              cache'[o.id] \in {cache[o.id], [tab |-> o.tab, v |-> o.v]}
<1>1. [tab |-> o.tab, v |-> o.v] \in Entry /\ (o.id # 0 => o.id \in Ids)
  BY Keys DEF Entry, Obj
<1> QED
  BY <1>1 DEF CacheSet, CoreTypes

LEMMA CacheDeleteTypes ==
  ASSUME CoreTypes, NEW o \in Obj, o.id \in Ids, CacheDelete(o)
  PROVE  /\ cache' \in [Ids -> Entry \cup {Miss}]
         /\ \A id \in Ids : id # o.id => cache'[id] = cache[id]
         /\ cache'[o.id] \in {cache[o.id], Miss}
  BY DEF CacheDelete, CoreTypes

-----------------------------------------------------------------------------
(* Type correctness.                                                       *)

LEMMA InitTypes == Init => Types
<1> SUFFICES ASSUME Init PROVE Types
  OBVIOUS
<1>1. \A t \in Tables : /\ FirstRows[t] \in Seq(Values) /\ Len(FirstRows[t]) \in Nat
                        /\ Len(FirstRows[t]) <= MaxId
  BY RowAssumption
<1>2. \A row \in Rows :
        row[2] <= Len(FirstRows[row[1]]) => FirstRows[row[1]][row[2]] \in Values
  <2>1. SUFFICES ASSUME NEW row \in Rows, row[2] <= Len(FirstRows[row[1]])
                 PROVE  FirstRows[row[1]][row[2]] \in Values
    OBVIOUS
  <2>2. row[1] \in Tables /\ row[2] \in 1 .. Len(FirstRows[row[1]])
    BY <1>1, <2>1, RowParts, RowAssumption DEF Ids
  <2> QED
    BY <1>1, <2>2, ElementOfSeq
<1>3. master \in [Rows -> Cell]
  <2> DEFINE M(row) == IF row[2] <= Len(FirstRows[row[1]])
                       THEN FirstRows[row[1]][row[2]] ELSE Absent
  <2>1. \A row \in Rows : M(row) \in Cell
    BY <1>2 DEF Cell, Column
  <2>2. master = [row \in Rows |-> M(row)]
    BY DEF Init
  <2> HIDE DEF M
  <2> QED
    BY <2>1, <2>2
<1>4. nextid \in [Tables -> 1 .. MaxId + 1]
  BY <1>1, RowAssumption DEF Init
<1>5. obj \in [Reqs -> Obj]
  BY Objects DEF Init
<1>6. own \in [Reqs -> (Suffix \X (0 .. MaxId)) \X Column]
  BY Keys, Columns DEF Init, Nothing, Suffix
<1>7. relay \in Seq(Rows \X Cell)
  BY DEF Init
<1>8. CoreTypes
  BY <1>3, <1>4, <1>5, <1>7, RowAssumption DEF Init, CoreTypes, Places
<1>9. HistoryTypes
  BY <1>6 DEF Init, HistoryTypes
<1>10. Keyed
  BY DEF Init, Keyed, KeyedAt
<1> QED
  BY <1>8, <1>9, <1>10 DEF Types

(* The history variables keep their types whatever the step.               *)
LEMMA WatchTypes ==
  ASSUME Types, Watch
  PROVE  HistoryTypes'
<1>1. \A row \in Rows, r \in Reqs : Fault(r, row) \subseteq Reasons
  <2>1. \A row \in Rows, r \in Reqs : Misread(r, row) \subseteq Reasons
    BY DEF Misread, Reasons
  <2> QED
    BY <2>1 DEF Fault, Reasons
<1>2. \A row \in Rows : Overlap(row)' \subseteq Reasons
  BY DEF Overlap, Reasons
<1> DEFINE F(row) == UNION {Fault(r, row) : r \in {q \in Reqs : RowOf(obj'[q]) = row}}
           B(row) == IF Bypassed(row) THEN {"bypass"} ELSE {}
<1>3. \A row \in Rows : F(row) \subseteq Reasons /\ B(row) \subseteq Reasons
  BY <1>1 DEF Reasons
<1>4. taint' \in [Rows -> SUBSET Reasons]
  <2> DEFINE T(row) == IF Calm(row)' THEN {}
                       ELSE taint[row] \cup Overlap(row)' \cup B(row) \cup F(row)
  <2>1. \A row \in Rows : T(row) \in SUBSET Reasons
    <3> HIDE DEF F, B
    <3> QED
      BY <1>2, <1>3 DEF Types, HistoryTypes
  <2>2. taint' = [row \in Rows |-> T(row)]
    BY DEF Watch
  <2> HIDE DEF T
  <2> QED
    BY <2>1, <2>2
<1>5. \A r \in Reqs :
        <<RowOf(obj[r]), obj[r].v>> \in (Suffix \X (0 .. MaxId)) \X Column
  BY DEF Types, CoreTypes, Obj, RowOf
<1>6. Nothing \in (Suffix \X (0 .. MaxId)) \X Column
  BY Keys, Columns DEF Nothing, Suffix
<1>7. own' \in [Reqs -> (Suffix \X (0 .. MaxId)) \X Column]
  <2> DEFINE O(r) == IF \E row \in Rows, v \in Values : Saved(r, row, v)
                     THEN <<RowOf(obj[r]), obj[r].v>>
                     ELSE IF \E row \in Rows, v \in Values :
                               own[r] = <<row, v>> /\ Disturbed(row, v)
                          THEN Nothing ELSE own[r]
  <2>1. \A r \in Reqs : O(r) \in (Suffix \X (0 .. MaxId)) \X Column
    BY <1>5, <1>6 DEF Types, HistoryTypes
  <2>2. own' = [r \in Reqs |-> O(r)]
    BY DEF Watch
  <2> HIDE DEF O
  <2> QED
    BY <2>1, <2>2
<1> QED
  BY <1>4, <1>7 DEF HistoryTypes

\* The columns and objects that a request's step may change are typed, and
\* those of the others stay.
Others(r) == \A q \in Reqs : q # r => obj'[q] = obj[q] /\ pc'[q] = pc[q]

LEMMA KeyedStep ==
  ASSUME Keyed, NEW r \in Reqs, Others(r), KeyedAt(r)'
  PROVE  Keyed'
<1> SUFFICES ASSUME NEW q \in Reqs, q # r PROVE KeyedAt(q)'
  BY DEF Keyed
<1>1. KeyedAt(q) /\ obj'[q] = obj[q] /\ pc'[q] = pc[q]
  BY DEF Keyed, Others
<1> QED
  BY <1>1 DEF KeyedAt

(* The steps between external calls: only the object, the place and the    *)
(* count of calls change.                                                  *)
LEMMA LocalTypes ==
  ASSUME Types, NEW r \in Reqs,
         Create(r) \/ (\E row \in Rows : FindByPk(r, row)) \/ Query(r) \/ Save(r)
           \/ Delete(r) \/ DuplicateKey(r) \/ Fail(r)
  PROVE  CoreTypes' /\ Keyed' /\ Others(r) /\ UNCHANGED <<dbvars, cache>>
<1>0. CoreTypes /\ Keyed /\ KeyedAt(r) /\ obj[r] \in Obj /\ pc[r] \in Places
  BY DEF Types, Keyed, CoreTypes
<1>a. obj[r].id \in 0 .. MaxId /\ obj[r].v \in Column /\ obj[r].isLoaded \in BOOLEAN
      /\ obj[r].tab \in Suffix
  BY <1>0 DEF Obj
<1>b. SUFFICES /\ UNCHANGED <<dbvars, cache>> /\ ops' \in 0 .. MaxOps
               /\ pc' \in [Reqs -> Places] /\ obj' \in [Reqs -> Obj]
               /\ Others(r) /\ KeyedAt(r)'
  BY <1>0, KeyedStep DEF CoreTypes, dbvars
<1>1. CASE Create(r)
  <2>1. PICK t \in Tables, v \in Column : obj' = [obj EXCEPT ![r] = New(t, 0, v)]
    BY <1>1 DEF Create
  <2>2. New(t, 0, v) \in Obj /\ New(t, 0, v).tab = t
    BY Keys, Objects
  <2>3. obj' \in [Reqs -> Obj] /\ obj'[r] = New(t, 0, v)
        /\ \A q \in Reqs : q # r => obj'[q] = obj[q]
    BY <1>0, <2>1, <2>2, SetObj
  <2>4. ops' \in 0 .. MaxOps /\ pc[r] = "idle" /\ UNCHANGED <<dbvars, cache, pc>>
    BY <1>0, <1>1, SetOps DEF Create
  <2> QED
    BY <1>0, <2>2, <2>3, <2>4 DEF CoreTypes, Others, KeyedAt
<1>2. ASSUME NEW row \in Rows, FindByPk(r, row)
      PROVE  /\ UNCHANGED <<dbvars, cache>> /\ ops' \in 0 .. MaxOps
             /\ pc' \in [Reqs -> Places] /\ obj' \in [Reqs -> Obj]
             /\ Others(r) /\ KeyedAt(r)'
  <2>1. ops' \in 0 .. MaxOps /\ pc[r] = "idle" /\ UNCHANGED <<dbvars, cache>>
    BY <1>0, <1>2, SetOps DEF FindByPk
  <2>0. row[1] \in Tables /\ row[2] \in Ids /\ row[2] \in 0 .. MaxId
    BY RowParts, Keys
  <2> DEFINE hit == [tab |-> cache[row[2]].tab, id |-> row[2],
                     v |-> cache[row[2]].v, isLoaded |-> TRUE]
  <2>2. CASE /\ cache[row[2]] # Miss /\ obj' = [obj EXCEPT ![r] = hit]
             /\ UNCHANGED pc
    <3>1. cache[row[2]] \in Entry
      BY <1>0, <2>0, <2>2 DEF CoreTypes
    <3>2. hit \in Obj /\ hit.tab \in Tables
      BY <2>0, <3>1 DEF Obj, Entry, Suffix
    <3> HIDE DEF hit
    <3>3. obj' \in [Reqs -> Obj] /\ obj'[r] = hit
          /\ \A q \in Reqs : q # r => obj'[q] = obj[q]
      BY <1>0, <2>2, <3>2, SetObj
    <3> QED
      BY <1>0, <2>1, <2>2, <3>2, <3>3 DEF CoreTypes, Others, KeyedAt
  <2>3. CASE obj' = [obj EXCEPT ![r] = New(row[1], row[2], Null)] /\ Goto(r, "query")
    <3>2. /\ New(row[1], row[2], Null) \in Obj
          /\ New(row[1], row[2], Null).tab = row[1]
          /\ New(row[1], row[2], Null).id = row[2]
      BY <2>0, Columns, Objects
    <3>3. obj' \in [Reqs -> Obj] /\ obj'[r] = New(row[1], row[2], Null)
          /\ \A q \in Reqs : q # r => obj'[q] = obj[q]
      BY <1>0, <2>3, <3>2, SetObj
    <3>4. pc' \in [Reqs -> Places] /\ \A q \in Reqs : q # r => pc'[q] = pc[q]
      BY <1>0, <2>3, SetPc DEF Places
    <3> QED
      BY <1>0, <2>0, <2>1, <3>2, <3>3, <3>4 DEF Others, KeyedAt
  <2> QED
    BY <1>2, <2>2, <2>3 DEF FindByPk
<1>3. CASE Query(r)
  <2>2. obj[r].id \in Ids /\ obj[r].tab \in Tables /\ RowOf(obj[r]) \in Rows
    BY <1>0, <1>3 DEF Query, KeyedAt, RowOf, Rows
  <2>1. PICK v \in ReadFrom(RowOf(obj[r])) :
          IF v = Absent
          THEN obj' = [obj EXCEPT ![r] = NoObj] /\ Goto(r, "idle")
          ELSE /\ \E o \in Loaded(obj[r].id, v) : obj' = [obj EXCEPT ![r] = o]
               /\ Goto(r, "fill")
    BY <1>3 DEF Query
  <2>3. v \in Column \cup {Absent}
    BY <1>0, <2>2 DEF ReadFrom, CoreTypes, Cell
  <2>4. UNCHANGED <<dbvars, cache>> /\ ops' \in 0 .. MaxOps
    BY <1>0, <1>3 DEF Query, CoreTypes
  <2>5. PICK o \in Obj, p \in {"idle", "fill"} :
          /\ obj' = [obj EXCEPT ![r] = o] /\ Goto(r, p)
          /\ o = NoObj \/ o.tab \in Tables
          /\ p = "fill" => o.tab \in Tables
    <3>1. CASE v = Absent
      BY <2>1, <3>1, Objects
    <3>2. CASE v # Absent
      <4>1. PICK o \in Loaded(obj[r].id, v) : obj' = [obj EXCEPT ![r] = o]
        BY <2>1, <3>2
      <4>2. o \in Obj /\ o.tab \in Tables
        BY <1>a, <2>3, <3>2, <4>1, LoadedObjects
      <4> QED
        BY <2>1, <3>2, <4>1, <4>2
    <3> QED
      BY <3>1, <3>2
  <2>6. obj' \in [Reqs -> Obj] /\ obj'[r] = o
        /\ \A q \in Reqs : q # r => obj'[q] = obj[q]
    BY <1>0, <2>5, SetObj
  <2>7. pc' \in [Reqs -> Places] /\ pc'[r] = p
        /\ \A q \in Reqs : q # r => pc'[q] = pc[q]
    BY <1>0, <2>5, SetPc DEF Places
  <2> QED
    BY <2>4, <2>5, <2>6, <2>7 DEF Others, KeyedAt
<1>4. CASE Save(r)
  <2>1. /\ ops' \in 0 .. MaxOps /\ UNCHANGED <<dbvars, cache>>
        /\ obj[r].tab \in Tables
    BY <1>0, <1>4, SetOps DEF Save, KeyedAt
  <2>2. PICK p \in {"insert", "update cache"} : Goto(r, p)
    BY <1>4 DEF Save
  <2>3. pc' \in [Reqs -> Places] /\ pc'[r] = p
        /\ \A q \in Reqs : q # r => pc'[q] = pc[q]
    BY <1>0, <2>2, SetPc DEF Places
  <2>4. PICK o \in Obj : obj' = [obj EXCEPT ![r] = o] /\ o.tab = obj[r].tab
    <3>1. CASE UNCHANGED obj
      BY <1>0, <3>1 DEF CoreTypes
    <3>2. CASE \E v \in Column : obj' = [obj EXCEPT ![r].v = v]
      <4>1. PICK v \in Column : obj' = [obj EXCEPT ![r].v = v]
        BY <3>2
      <4>2. [obj[r] EXCEPT !.v = v] \in Obj
            /\ [obj[r] EXCEPT !.v = v].tab = obj[r].tab
        BY <1>0 DEF Obj
      <4> QED
        BY <4>1, <4>2
    <3> QED
      BY <1>4, <3>1, <3>2 DEF Save
  <2>5. obj' \in [Reqs -> Obj] /\ obj'[r] = o
        /\ \A q \in Reqs : q # r => obj'[q] = obj[q]
    BY <1>0, <2>4, SetObj
  <2> QED
    BY <2>1, <2>2, <2>3, <2>4, <2>5 DEF Others, KeyedAt
<1>5. CASE Delete(r)
  <2>1. /\ ops' \in 0 .. MaxOps /\ UNCHANGED <<dbvars, cache, obj>>
        /\ Goto(r, "delete cache") /\ obj[r].tab \in Tables
    BY <1>0, <1>5, SetOps DEF Delete, KeyedAt
  <2>2. pc' \in [Reqs -> Places] /\ pc'[r] = "delete cache"
        /\ \A q \in Reqs : q # r => pc'[q] = pc[q]
    BY <1>0, <2>1, SetPc DEF Places
  <2> QED
    BY <1>0, <2>1, <2>2 DEF CoreTypes, Others, KeyedAt
<1>6. CASE DuplicateKey(r) \/ Fail(r)
  <2>1. Goto(r, "exception") /\ UNCHANGED <<dbvars, cache, obj, ops>>
    BY <1>6 DEF DuplicateKey, Fail
  <2>2. pc' \in [Reqs -> Places] /\ pc'[r] = "exception"
        /\ \A q \in Reqs : q # r => pc'[q] = pc[q]
    BY <1>0, <2>1, SetPc DEF Places
  <2> QED
    BY <1>0, <2>1, <2>2 DEF CoreTypes, Others, KeyedAt
<1> QED
  BY <1>1, <1>2, <1>3, <1>4, <1>5, <1>6

\* An insert, told by the row it makes.
LEMMA InsertFacts ==
  ASSUME Types, NEW r \in Reqs, Insert(r)
  PROVE  \E row \in Rows, col \in Column :
           /\ master[row] = Absent /\ Write(row, col) /\ Counts(row)
           /\ obj[r].v # Null => col = obj[r].v
           /\ obj' \in [Reqs -> Obj] /\ RowOf(obj'[r]) = row
           /\ obj'[r].v = obj[r].v /\ obj'[r].id \in Ids /\ obj'[r].tab \in Tables
           /\ \A q \in Reqs : q # r => obj'[q] = obj[q]
<1>0. CoreTypes /\ KeyedAt(r) /\ obj[r] \in Obj
  BY DEF Types, Keyed, CoreTypes
<1>1. obj[r].tab \in Tables /\ obj[r].v \in Column
  BY <1>0 DEF Insert, KeyedAt, Obj
<1> DEFINE id == IF obj[r].id = 0 THEN nextid[obj[r].tab] ELSE obj[r].id
           col == IF obj[r].v = Null THEN Default ELSE obj[r].v
           o == [obj[r] EXCEPT !.id = id, !.isLoaded = TRUE]
<1>2. /\ id \in Ids /\ master[<<obj[r].tab, id>>] = Absent
      /\ Write(<<obj[r].tab, id>>, col) /\ Counts(<<obj[r].tab, id>>)
      /\ obj' = [obj EXCEPT ![r].id = id, ![r].isLoaded = TRUE]
  BY DEF Insert
<1>3. col \in Column /\ (obj[r].v # Null => col = obj[r].v)
  BY <1>1, Columns
<1> HIDE DEF id, col
<1>4. id \in 0 .. MaxId
  BY <1>2, Keys
<1>5. o \in Obj /\ o.id = id /\ o.tab = obj[r].tab /\ o.v = obj[r].v
  BY <1>0, <1>4 DEF Obj
<1>6. obj' = [obj EXCEPT ![r] = o]
  BY <1>0, <1>2 DEF CoreTypes, Obj
<1> HIDE DEF o
<1>7. obj' \in [Reqs -> Obj] /\ obj'[r] = o
      /\ \A q \in Reqs : q # r => obj'[q] = obj[q]
  BY <1>0, <1>5, <1>6, SetObj
<1>8. RowOf(obj'[r]) = <<obj[r].tab, id>>
  BY <1>5, <1>7 DEF RowOf
<1>9. <<obj[r].tab, id>> \in Rows
  BY <1>1, <1>2, RowMade
<1> QED
  BY <1>1, <1>2, <1>3, <1>5, <1>7, <1>8, <1>9

(* The calls to the cache and to the database.                             *)
LEMMA CallTypes ==
  ASSUME Types, NEW r \in Reqs,
         Fill(r) \/ Insert(r) \/ InsertCache(r) \/ UpdateCache(r) \/ Update(r)
           \/ DeleteCache(r) \/ DeleteRow(r)
  PROVE  CoreTypes' /\ Keyed' /\ Others(r)
<1>0. CoreTypes /\ Keyed /\ KeyedAt(r) /\ obj[r] \in Obj /\ pc[r] \in Places
  BY DEF Types, Keyed, CoreTypes
<1>a. obj[r].id \in 0 .. MaxId /\ obj[r].v \in Column /\ obj[r].isLoaded \in BOOLEAN
  BY <1>0 DEF Obj
<1>1. CASE Fill(r) \/ InsertCache(r) \/ UpdateCache(r) \/ DeleteCache(r)
  <2>1. /\ obj[r].tab \in Tables
        /\ UpdateCache(r) \/ DeleteCache(r) => obj[r].id \in Ids
    BY <1>0, <1>a, <1>1, Keys DEF Fill, InsertCache, UpdateCache, DeleteCache, KeyedAt
  <2>2. UNCHANGED <<dbvars, obj, ops>>
    BY <1>1 DEF Fill, InsertCache, UpdateCache, DeleteCache
  <2>3. cache' \in [Ids -> Entry \cup {Miss}]
    BY <1>0, <1>1, <2>1, CacheSetTypes, CacheDeleteTypes
       DEF Fill, InsertCache, UpdateCache, DeleteCache
  <2>4. PICK p \in {"idle", "update", "delete"} :
          Goto(r, p) /\ (p # "idle" => obj[r].id \in Ids)
    BY <1>1, <2>1 DEF Fill, InsertCache, UpdateCache, DeleteCache
  <2>5. pc' \in [Reqs -> Places] /\ pc'[r] = p
        /\ \A q \in Reqs : q # r => pc'[q] = pc[q]
    BY <1>0, <2>4, SetPc DEF Places
  <2>6. Others(r) /\ KeyedAt(r)'
    BY <1>0, <2>1, <2>2, <2>4, <2>5 DEF Others, KeyedAt
  <2> QED
    BY <1>0, <2>2, <2>3, <2>5, <2>6, KeyedStep DEF CoreTypes, dbvars
<1>2. CASE Insert(r)
  <2>1. PICK row \in Rows, col \in Column :
           /\ Write(row, col) /\ Counts(row)
           /\ obj' \in [Reqs -> Obj]
           /\ obj'[r].id \in Ids /\ obj'[r].tab \in Tables
           /\ \A q \in Reqs : q # r => obj'[q] = obj[q]
    BY <1>2, InsertFacts
  <2>2. Goto(r, "insert cache") /\ UNCHANGED <<slave, cache, ops>>
    BY <1>2 DEF Insert
  <2>3. master' \in [Rows -> Cell] /\ relay' \in Seq(Rows \X Cell)
    BY <1>0, <2>1, WriteTypes DEF Cell
  <2>4. nextid' \in [Tables -> 1 .. MaxId + 1]
    BY <1>0, <2>1, CountsTypes
  <2>5. pc' \in [Reqs -> Places] /\ pc'[r] = "insert cache"
        /\ \A q \in Reqs : q # r => pc'[q] = pc[q]
    BY <1>0, <2>2, SetPc DEF Places
  <2>6. Others(r) /\ KeyedAt(r)'
    BY <2>1, <2>5 DEF Others, KeyedAt
  <2> QED
    BY <1>0, <2>1, <2>2, <2>3, <2>4, <2>5, <2>6, KeyedStep DEF CoreTypes
<1>3. CASE Update(r) \/ DeleteRow(r)
  <2>1. obj[r].id \in Ids /\ obj[r].tab \in Tables
    BY <1>0, <1>3 DEF Update, DeleteRow, KeyedAt
  <2>2. RowOf(obj[r]) \in Rows
    BY <2>1, RowMade DEF RowOf
  <2>3. master' \in [Rows -> Cell] /\ relay' \in Seq(Rows \X Cell)
    BY <1>0, <1>a, <1>3, <2>2, WriteTypes DEF Update, DeleteRow, CoreTypes, Cell
  <2>4. Goto(r, "idle") /\ UNCHANGED <<slave, nextid, cache, obj, ops>>
    BY <1>3 DEF Update, DeleteRow
  <2>5. pc' \in [Reqs -> Places] /\ pc'[r] = "idle"
        /\ \A q \in Reqs : q # r => pc'[q] = pc[q]
    BY <1>0, <2>4, SetPc DEF Places
  <2>6. Others(r) /\ KeyedAt(r)'
    BY <1>0, <2>1, <2>4, <2>5 DEF Others, KeyedAt
  <2> QED
    BY <1>0, <2>3, <2>4, <2>5, <2>6, KeyedStep DEF CoreTypes
<1> QED
  BY <1>1, <1>2, <1>3

\* A write past the cache.
LEMMA DirectTypes ==
  ASSUME Types, NEW r \in Reqs, NEW row \in Rows, DirectWrite(r, row)
  PROVE  /\ CoreTypes' /\ Keyed' /\ Others(r) /\ UNCHANGED <<cache, pc, obj>>
         /\ ops' # ops
         /\ \A k \in Rows : k # row => master'[k] = master[k]
<1>0. CoreTypes /\ Keyed
  BY DEF Types
<1>1. PICK col \in Column \cup {Absent} :
        /\ Write(row, col)
        /\ IF col = Absent THEN UNCHANGED nextid ELSE Counts(row)
  BY DEF DirectWrite
<1>2. Begin(r) /\ UNCHANGED <<slave, cache, pc, obj>>
  BY DEF DirectWrite
<1>3. /\ master' \in [Rows -> Cell] /\ relay' \in Seq(Rows \X Cell)
      /\ \A k \in Rows : k # row => master'[k] = master[k]
  BY <1>0, <1>1, WriteTypes DEF Cell
<1>4. nextid' \in [Tables -> 1 .. MaxId + 1]
  BY <1>0, <1>1, CountsTypes DEF CoreTypes
<1>5. ops' \in 0 .. MaxOps /\ ops' # ops
  BY <1>0, <1>2, SetOps
<1>6. CoreTypes'
  BY <1>0, <1>2, <1>3, <1>4, <1>5 DEF CoreTypes
<1>7. Keyed' /\ Others(r)
  BY <1>0, <1>2 DEF Keyed, KeyedAt, Others
<1> QED
  BY <1>2, <1>3, <1>5, <1>6, <1>7

LEMMA ReqTypes ==
  ASSUME Types, NEW r \in Reqs, ReqNext(r)
  PROVE  CoreTypes' /\ Keyed' /\ Others(r)
<1>1. CASE Create(r) \/ (\E row \in Rows : FindByPk(r, row)) \/ Query(r) \/ Save(r)
           \/ Delete(r) \/ DuplicateKey(r) \/ Fail(r)
  BY <1>1, LocalTypes
<1>2. CASE Fill(r) \/ Insert(r) \/ InsertCache(r) \/ UpdateCache(r) \/ Update(r)
           \/ DeleteCache(r) \/ DeleteRow(r)
  BY <1>2, CallTypes
<1>3. CASE \E row \in Rows : DirectWrite(r, row)
  BY <1>3, DirectTypes
<1> QED
  BY <1>1, <1>2, <1>3 DEF ReqNext

\* The slave and the expiry of an entry do not touch the requests.
LEMMA EnvTypes ==
  ASSUME Types, Replicate \/ (\E id \in Ids : Expire(id))
  PROVE  CoreTypes' /\ Keyed' /\ UNCHANGED <<pc, obj>>
<1>0. CoreTypes /\ Keyed
  BY DEF Types
<1>1. UNCHANGED <<master, nextid, pc, obj, ops>>
  BY DEF Replicate, Expire, dbvars
<1>2. Keyed'
  BY <1>0, <1>1 DEF Keyed, KeyedAt
<1>3. CASE Replicate
  <2>1. /\ relay \in Seq(Rows \X Cell) /\ relay # <<>>
        /\ slave' = [slave EXCEPT ![Head(relay)[1]] = Head(relay)[2]]
        /\ relay' = Tail(relay) /\ cache' = cache
    BY <1>0, <1>3 DEF Replicate, CoreTypes
  <2>2. Head(relay) \in Rows \X Cell /\ relay' \in Seq(Rows \X Cell)
    BY <2>1, HeadTailProperties
  <2>3. slave' \in [Rows -> Cell]
    BY <1>0, <2>1, <2>2 DEF CoreTypes
  <2> QED
    BY <1>0, <1>1, <1>2, <2>1, <2>2, <2>3 DEF CoreTypes
<1>4. CASE \E id \in Ids : Expire(id)
  <2>1. cache' \in [Ids -> Entry \cup {Miss}] /\ UNCHANGED dbvars
    BY <1>0, <1>4 DEF Expire, CoreTypes
  <2> QED
    BY <1>0, <1>1, <1>2, <2>1 DEF CoreTypes, dbvars
<1> QED
  BY <1>3, <1>4

LEMMA NextTypes == Types /\ [Next]_vars => Types'
<1> SUFFICES ASSUME Types, [Next]_vars PROVE Types'
  OBVIOUS
<1>1. CASE Next
  <2>1. HistoryTypes'
    BY <1>1, WatchTypes DEF Next
  <2>2. CoreTypes' /\ Keyed'
    BY <1>1, ReqTypes, EnvTypes DEF Next
  <2> QED
    BY <2>1, <2>2 DEF Types
<1>2. CASE UNCHANGED vars
  BY <1>2 DEF vars, dbvars, Types, CoreTypes, HistoryTypes, Keyed, KeyedAt
<1> QED
  BY <1>1, <1>2

(***************************************************************************)
(* Type correctness of the row cache: what the requests, the two           *)
(* databases, memcache and the history hold is well typed in every         *)
(* reachable state.                                                        *)
(***************************************************************************)
THEOREM RowTypeCorrect == Spec => []TypeOK
<1>1. Spec => []Types
  BY InitTypes, NextTypes, PTL DEF Spec
<1> QED
  BY <1>1, TypesImplyTypeOK, PTL

-----------------------------------------------------------------------------
(***************************************************************************)
(* The strengthening of StaleHasReason: as long as there is no reason, at  *)
(* most one request is at work on a row, and its object, the row and the   *)
(* entry fit what it is about to do.                                       *)
(***************************************************************************)
Alone(row) == \A r, q \in Reqs : InFlight(r, row) /\ InFlight(q, row) => r = q

Fits(r, row) ==
  /\ pc[r] \in {"fill", "insert cache"} => obj[r].v = master[row] /\ ~Stale(row)
  /\ pc[r] = "update" => /\ obj[r].v # Null /\ master[row] # Absent
                         /\ HasEntry(row) => Holds(row, obj[r].v)
  /\ pc[r] = "delete" => ~HasEntry(row)

Clean(row) ==
  /\ Alone(row)
  /\ (\A r \in Reqs : ~InFlight(r, row)) => ~Stale(row)
  /\ \A r \in Reqs : InFlight(r, row) => Fits(r, row)

RowInd == Types /\ \A row \in Rows : taint[row] = {} => Clean(row)

\* The entry of the row is as it was, or the row has none now.
Same(row) == cache'[row[2]] = cache[row[2]] \/ ~HasEntry(row)'

LEMMA NoEntry ==
  ASSUME NEW row \in Rows, cache[row[2]] = Miss
  PROVE  ~HasEntry(row) /\ ~Stale(row)
  BY RowParts, Misses DEF HasEntry, Stale

LEMMA InitRow == Init => RowInd
<1> SUFFICES ASSUME Init PROVE RowInd
  OBVIOUS
<1>1. ASSUME NEW row \in Rows PROVE Clean(row)
  <2>1. cache[row[2]] = Miss
    BY RowParts DEF Init
  <2>2. ~Stale(row)
    BY <2>1, NoEntry
  <2> QED
    BY <2>2 DEF Init, Clean, Alone, InFlight
<1> QED
  BY <1>1, InitTypes DEF RowInd

\* No fault of r: what it is about to do is in order.
LEMMA NoFault ==
  ASSUME NEW r \in Reqs, NEW row \in Rows, Fault(r, row) = {}
  PROVE  /\ pc[r] = "query" /\ pc'[r] = "fill" => obj'[r].v = master[row]
         /\ pc'[r] \in {"update", "insert cache"} => obj'[r].v # Null
         /\ pc'[r] = "update" => master[row] # Absent
         /\ ~(pc[r] = "update" /\ pc'[r] = "exception")
         /\ pc[r] = "update cache" /\ pc'[r] = "update" => Holds(row, obj[r].v)'
         /\ pc[r] = "delete cache" /\ pc'[r] = "delete" => ~HasEntry(row)'
<1>1. Misread(r, row) # {}
  BY DEF Misread
<1> QED
  BY <1>1 DEF Fault

\* A row still without a reason is calm, or was without one before.
LEMMA WatchFacts ==
  ASSUME Watch, NEW row \in Rows, taint'[row] = {}, ~Calm(row)'
  PROVE  /\ taint[row] = {} /\ Alone(row)' /\ ~Bypassed(row)
         /\ \A r \in Reqs : RowOf(obj'[r]) = row => Fault(r, row) = {}
<1>1. taint'[row] = taint[row] \cup Overlap(row)'
        \cup (IF Bypassed(row) THEN {"bypass"} ELSE {})
        \cup UNION {Fault(r, row) : r \in {q \in Reqs : RowOf(obj'[q]) = row}}
  BY DEF Watch
<1>2. taint[row] = {} /\ Overlap(row)' = {}
  BY <1>1
<1>3. \A r \in Reqs : RowOf(obj'[r]) = row => Fault(r, row) = {}
  BY <1>1
<1>4. ~Bypassed(row)
  BY <1>1
<1>5. Alone(row)'
  BY <1>2 DEF Overlap, Alone
<1> QED
  BY <1>2, <1>3, <1>4, <1>5

\* What memcache does for an object of another row leaves this one's entry
\* alone, or takes it away.
LEMMA OtherEntry ==
  ASSUME CoreTypes, NEW o \in Obj, NEW row \in Rows, RowOf(o) # row,
         o.tab \in Tables, CacheSet(o) \/ (o.id \in Ids /\ CacheDelete(o))
  PROVE  Same(row)
<1>1. row[1] \in Tables /\ row[2] \in Ids /\ row = <<row[1], row[2]>>
  BY RowParts
<1>2. CASE o.id # row[2]
  BY <1>1, <1>2, CacheSetTypes, CacheDeleteTypes DEF Same
<1>3. CASE o.id = row[2]
  <2>1. o.tab # row[1]
    BY <1>1, <1>3 DEF RowOf
  <2>2. cache'[row[2]] \in {cache[row[2]], [tab |-> o.tab, v |-> o.v], Miss}
    BY <1>1, <1>3, CacheSetTypes, CacheDeleteTypes
  <2> QED
    BY <1>1, <2>1, <2>2, Misses DEF Same, HasEntry
<1> QED
  BY <1>2, <1>3

\* A request that is not at work on a row, and does not write it past the
\* cache, does nothing to it or its entry but to push the entry out.
LEMMA Aloof ==
  ASSUME Types, NEW r \in Reqs, ReqNext(r), NEW row \in Rows,
         ~InFlight(r, row), ~InFlight(r, row)', ~Bypassed(row)
  PROVE  master'[row] = master[row] /\ Same(row)
<1>0. CoreTypes /\ KeyedAt(r) /\ obj[r] \in Obj
  BY DEF Types, CoreTypes, Keyed
<1>1. CASE Create(r) \/ (\E k \in Rows : FindByPk(r, k)) \/ Query(r) \/ Save(r)
           \/ Delete(r) \/ DuplicateKey(r) \/ Fail(r)
  BY <1>1, LocalTypes DEF dbvars, Same
<1>2. CASE Fill(r) \/ InsertCache(r)
  <2>1. RowOf(obj[r]) # row /\ CacheSet(obj[r]) /\ UNCHANGED dbvars
    BY <1>2 DEF Fill, InsertCache, InFlight
  <2>2. obj[r].tab \in Tables
    BY <1>0, <1>2 DEF Fill, InsertCache, KeyedAt
  <2> QED
    BY <1>0, <2>1, <2>2, OtherEntry DEF dbvars
<1>3. CASE UpdateCache(r) \/ DeleteCache(r)
  <2>1. UNCHANGED <<obj, dbvars>> /\ pc'[r] \in {"update", "delete"}
    BY <1>0, <1>3, SetPc DEF UpdateCache, DeleteCache, Places
  <2>2. RowOf(obj[r]) # row
    BY <2>1 DEF InFlight
  <2>3. obj[r].tab \in Tables /\ obj[r].id \in Ids
    BY <1>0, <1>3, Keys DEF UpdateCache, DeleteCache, KeyedAt, Obj
  <2> QED
    BY <1>0, <1>3, <2>1, <2>2, <2>3, OtherEntry DEF UpdateCache, DeleteCache, dbvars
<1>4. CASE Update(r) \/ DeleteRow(r)
  <2>1. RowOf(obj[r]) # row /\ UNCHANGED cache
    BY <1>4 DEF Update, DeleteRow, InFlight
  <2>2. RowOf(obj[r]) \in Rows
    BY <1>0, <1>4, RowMade DEF Update, DeleteRow, KeyedAt, RowOf
  <2>3. obj[r].v \in Cell /\ Absent \in Cell
    BY <1>0 DEF Obj, Cell
  <2>4. master'[row] = master[row]
    BY <1>0, <1>4, <2>1, <2>2, <2>3, WriteTypes DEF Update, DeleteRow
  <2> QED
    BY <2>1, <2>4 DEF Same
<1>5. CASE Insert(r)
  <2>1. PICK k \in Rows, col \in Column : Write(k, col) /\ RowOf(obj'[r]) = k
    BY <1>5, InsertFacts
  <2>2. Goto(r, "insert cache") /\ UNCHANGED cache
    BY <1>5 DEF Insert
  <2>3. pc'[r] = "insert cache"
    BY <1>0, <2>2, SetPc DEF Places
  <2>4. k # row
    BY <2>1, <2>3 DEF InFlight
  <2>5. master'[row] = master[row]
    BY <1>0, <2>1, <2>4, WriteTypes DEF Cell
  <2> QED
    BY <2>2, <2>5 DEF Same
<1>6. CASE \E k \in Rows : DirectWrite(r, k)
  <2>1. UNCHANGED cache /\ ops' # ops
    BY <1>6, DirectTypes
  <2> QED
    BY <2>1 DEF Bypassed, Same
<1> QED
  BY <1>1, <1>2, <1>3, <1>4, <1>5, <1>6 DEF ReqNext

\* A request takes up a row nobody is at work on.
LEMMA TakesUp ==
  ASSUME Types, NEW r \in Reqs, ReqNext(r), NEW row \in Rows,
         ~InFlight(r, row), InFlight(r, row)', ~Stale(row), Fault(r, row) = {}
  PROVE  Fits(r, row)'
<1>0. CoreTypes /\ RowOf(obj'[r]) = row /\ obj[r] \in Obj
      /\ pc'[r] \in {"fill", "insert cache", "update", "delete"}
  BY DEF Types, CoreTypes, InFlight
<1>1. CASE Create(r) \/ (\E k \in Rows : FindByPk(r, k)) \/ Save(r) \/ Delete(r)
           \/ DuplicateKey(r) \/ Fail(r)
  <2>1. CASE Create(r) \/ \E k \in Rows : FindByPk(r, k)
    BY <1>0, <2>1, SetPc DEF Create, FindByPk, Begin, Places
  <2>2. CASE Save(r) \/ Delete(r)
    BY <1>0, <2>2, SetPc DEF Save, Delete, Places
  <2>3. CASE DuplicateKey(r) \/ Fail(r)
    BY <1>0, <2>3, SetPc DEF DuplicateKey, Fail, Places
  <2> QED
    BY <1>1, <2>1, <2>2, <2>3
<1>2. CASE Query(r)
  <2>1. UNCHANGED <<dbvars, cache>> /\ pc[r] = "query" /\ pc'[r] \in {"idle", "fill"}
    BY <1>0, <1>2, SetPc DEF Query, Places
  <2>2. pc'[r] = "fill" /\ obj'[r].v = master[row]
    BY <1>0, <2>1, NoFault
  <2> QED
    BY <2>1, <2>2 DEF Fits, Stale, HasEntry, Holds, dbvars
<1>3. CASE Fill(r) \/ InsertCache(r) \/ Update(r) \/ DeleteRow(r)
  BY <1>0, <1>3, SetPc DEF Fill, InsertCache, Update, DeleteRow, Places
<1>4. CASE Insert(r)
  <2>1. PICK k \in Rows, col \in Column :
          /\ master[k] = Absent /\ Write(k, col) /\ RowOf(obj'[r]) = k
          /\ obj[r].v # Null => col = obj[r].v
          /\ obj'[r].v = obj[r].v
    BY <1>4, InsertFacts
  <2>2. Goto(r, "insert cache") /\ UNCHANGED cache
    BY <1>4 DEF Insert
  <2>3. pc'[r] = "insert cache"
    BY <1>0, <2>2, SetPc DEF Places
  <2>4. k = row /\ obj[r].v # Null
    BY <1>0, <2>1, <2>3, NoFault
  <2>5. master'[row] = obj[r].v
    BY <1>0, <2>1, <2>4, WriteTypes DEF Cell
  <2>6. ~HasEntry(row)
    <3>1. ASSUME HasEntry(row) PROVE FALSE
      <4>1. cache[row[2]] = [tab |-> row[1], v |-> Absent]
        BY <2>1, <2>4, <3>1 DEF Stale, Holds
      <4>2. cache[row[2]] \in Entry \cup {Miss} /\ row[1] \in Tables
        BY <1>0, RowParts DEF CoreTypes
      <4>3. cache[row[2]] \in Entry
        BY <3>1, <4>2, Misses DEF HasEntry
      <4>4. Absent \in Column
        BY <4>1, <4>3 DEF Entry
      <4> QED
        BY <4>4, Columns
    <3> QED
      BY <3>1
  <2>7. ~HasEntry(row)' /\ ~Stale(row)'
    BY <2>2, <2>6 DEF HasEntry, Stale
  <2> QED
    BY <2>1, <2>3, <2>5, <2>7 DEF Fits
<1>5. CASE UpdateCache(r)
  <2>1. pc[r] = "update cache" /\ pc'[r] = "update" /\ UNCHANGED <<dbvars, obj>>
    BY <1>0, <1>5, SetPc DEF UpdateCache, Places
  <2>2. obj'[r].v # Null /\ master[row] # Absent /\ Holds(row, obj[r].v)'
    BY <2>1, NoFault
  <2> QED
    BY <2>1, <2>2 DEF Fits, dbvars, Holds
<1>6. CASE DeleteCache(r)
  <2>1. pc[r] = "delete cache" /\ pc'[r] = "delete"
    BY <1>0, <1>6, SetPc DEF DeleteCache, Places
  <2>2. ~HasEntry(row)'
    BY <2>1, NoFault
  <2> QED
    BY <2>1, <2>2 DEF Fits
<1>7. CASE \E k \in Rows : DirectWrite(r, k)
  BY <1>7, DirectTypes DEF InFlight
<1> QED
  BY <1>1, <1>2, <1>3, <1>4, <1>5, <1>6, <1>7 DEF ReqNext

\* A request whose object fits leaves the row and its entry in order.
LEMMA LeavesClean ==
  ASSUME Types, NEW r \in Reqs, ReqNext(r), NEW row \in Rows, InFlight(r, row),
         Fits(r, row), RowOf(obj'[r]) = row => Fault(r, row) = {}
  PROVE  ~InFlight(r, row)' /\ ~Stale(row)'
<1>0. /\ CoreTypes /\ RowOf(obj[r]) = row /\ obj[r] \in Obj
      /\ pc[r] \in {"fill", "insert cache", "update", "delete"}
  BY DEF Types, CoreTypes, InFlight
<1>a. /\ obj[r].tab = row[1] /\ obj[r].id = row[2]
      /\ obj[r].tab \in Tables /\ obj[r].id \in Ids
  BY <1>0, RowOfParts
<1>1. CASE Create(r) \/ (\E k \in Rows : FindByPk(r, k)) \/ Save(r) \/ Delete(r)
           \/ \E k \in Rows : DirectWrite(r, k)
  BY <1>0, <1>1 DEF Create, FindByPk, Save, Delete, DirectWrite, Begin
<1>2. CASE Query(r) \/ Insert(r) \/ DuplicateKey(r) \/ UpdateCache(r)
           \/ DeleteCache(r)
  BY <1>0, <1>2 DEF Query, Insert, DuplicateKey, UpdateCache, DeleteCache
<1>3. CASE Fill(r) \/ InsertCache(r)
  <2>1. /\ pc[r] \in {"fill", "insert cache"} /\ Goto(r, "idle")
        /\ CacheSet(obj[r]) /\ UNCHANGED <<dbvars, obj>>
    BY <1>3 DEF Fill, InsertCache
  <2>2. obj[r].v = master[row] /\ ~Stale(row)
    BY <2>1 DEF Fits
  <2>3. /\ cache'[row[2]] \in {cache[row[2]], [tab |-> row[1], v |-> master[row]]}
        /\ master'[row] = master[row]
    BY <1>0, <1>a, <2>1, <2>2, CacheSetTypes DEF dbvars
  <2>4. pc'[r] = "idle"
    BY <1>0, <2>1, SetPc DEF Places
  <2> QED
    BY <2>2, <2>3, <2>4 DEF Stale, HasEntry, Holds, InFlight
<1>4. CASE Update(r)
  <2>1. obj[r].v # Null /\ master[row] # Absent /\ (HasEntry(row) => Holds(row, obj[r].v))
    BY <1>4 DEF Update, Fits
  <2>2. Write(row, obj[r].v) /\ cache' = cache /\ Goto(r, "idle")
    BY <1>0, <1>4, <2>1 DEF Update
  <2>3. master'[row] = obj[r].v
    BY <1>0, <2>2, WriteTypes DEF Cell, Obj
  <2>4. pc'[r] = "idle"
    BY <1>0, <2>2, SetPc DEF Places
  <2> QED
    BY <2>1, <2>2, <2>3, <2>4 DEF Stale, HasEntry, Holds, InFlight
<1>5. CASE DeleteRow(r)
  <2>1. ~HasEntry(row) /\ cache' = cache /\ Goto(r, "idle")
    BY <1>5 DEF DeleteRow, Fits
  <2>2. pc'[r] = "idle"
    BY <1>0, <2>1, SetPc DEF Places
  <2> QED
    BY <2>1, <2>2 DEF Stale, HasEntry, InFlight
<1>6. CASE Fail(r)
  <2>1. Goto(r, "exception") /\ UNCHANGED <<dbvars, cache, obj>>
    BY <1>6 DEF Fail
  <2>2. pc'[r] = "exception"
    BY <1>0, <2>1, SetPc DEF Places
  <2>3. pc[r] # "update"
    BY <1>0, <2>1, <2>2, NoFault
  <2>4. ~Stale(row)
    BY <1>0, <2>3 DEF Fits, Stale
  <2> QED
    BY <2>1, <2>2, <2>4 DEF Stale, HasEntry, Holds, InFlight, dbvars
<1> QED
  BY <1>1, <1>2, <1>3, <1>4, <1>5, <1>6 DEF ReqNext

\* The steps of the slave and of memcached's clock.
LEMMA EnvRow ==
  ASSUME Types, Replicate \/ (\E id \in Ids : Expire(id)), NEW row \in Rows
  PROVE  UNCHANGED <<master, pc, obj>> /\ Same(row)
         /\ cache'[row[2]] \in {cache[row[2]], Miss}
<1>1. UNCHANGED <<master, pc, obj>> /\ cache'[row[2]] \in {cache[row[2]], Miss}
  BY RowParts DEF Replicate, Expire, dbvars, Types, CoreTypes
<1>2. Miss.tab # row[1]
  BY RowParts, Misses
<1> QED
  BY <1>1, <1>2 DEF Same, HasEntry

LEMMA NextRow == RowInd /\ [Next]_vars => RowInd'
<1> SUFFICES ASSUME RowInd, [Next]_vars PROVE RowInd'
  OBVIOUS
<1>0. Types /\ Types'
  BY NextTypes DEF RowInd
<1>1. SUFFICES ASSUME NEW row \in Rows, taint'[row] = {}, ~Calm(row)' PROVE Clean(row)'
  BY <1>0 DEF RowInd, Calm, Clean, Alone
<1>2. CASE UNCHANGED vars
  <2>1. UNCHANGED <<master, cache, pc, obj, taint>>
    BY <1>2 DEF vars, dbvars
  <2>2. Clean(row)
    BY <1>1, <2>1 DEF RowInd
  <2>3. Stale(row)' <=> Stale(row)
    BY <2>1 DEF Stale, HasEntry, Holds
  <2>4. \A r \in Reqs : /\ InFlight(r, row)' <=> InFlight(r, row)
                        /\ Fits(r, row) => Fits(r, row)'
    BY <2>1, <2>3 DEF InFlight, Fits, HasEntry, Holds
  <2> QED
    BY <2>2, <2>3, <2>4 DEF Clean, Alone
<1>3. CASE Next
  <2>1. /\ taint[row] = {} /\ Alone(row)' /\ ~Bypassed(row)
        /\ \A r \in Reqs : RowOf(obj'[r]) = row => Fault(r, row) = {}
    BY <1>1, <1>3, WatchFacts DEF Next
  <2>2. Clean(row)
    BY <2>1 DEF RowInd
  <2>3. CASE Replicate \/ \E k \in Ids : Expire(k)
    <3>1. UNCHANGED <<master, pc, obj>> /\ Same(row)
      BY <1>0, <2>3, EnvRow
    <3> QED
      BY <2>1, <2>2, <3>1
         DEF Same, Clean, Alone, Fits, InFlight, Stale, HasEntry, Holds
  <2>4. ASSUME NEW r \in Reqs, ReqNext(r) PROVE Clean(row)'
    <3>1. \A q \in Reqs : q # r => /\ obj'[q] = obj[q] /\ pc'[q] = pc[q]
                                   /\ (InFlight(q, row)' <=> InFlight(q, row))
      BY <1>0, <2>4, ReqTypes DEF Others, InFlight
    <3>2. CASE ~InFlight(r, row) /\ ~InFlight(r, row)'
      <4>1. master'[row] = master[row] /\ Same(row)
        BY <1>0, <2>1, <2>4, <3>2, Aloof
      <4>2. /\ HasEntry(row)' => HasEntry(row)
            /\ HasEntry(row)' => cache'[row[2]] = cache[row[2]]
            /\ Stale(row)' => Stale(row)
        BY <4>1 DEF Same, Stale, HasEntry, Holds
      <4>3. ASSUME NEW q \in Reqs, InFlight(q, row)' PROVE Fits(q, row)'
        <5>1. q # r /\ InFlight(q, row) /\ obj'[q] = obj[q] /\ pc'[q] = pc[q]
          BY <3>1, <3>2, <4>3
        <5>2. Fits(q, row)
          BY <2>2, <5>1 DEF Clean
        <5> QED
          BY <4>1, <4>2, <5>1, <5>2 DEF Fits, Holds
      <4>4. (\A q \in Reqs : ~InFlight(q, row)') => ~Stale(row)'
        BY <2>2, <3>1, <3>2, <4>2 DEF Clean
      <4> QED
        BY <2>1, <4>3, <4>4 DEF Clean
    <3>3. CASE ~InFlight(r, row) /\ InFlight(r, row)'
      <4>1. \A q \in Reqs : q # r => ~InFlight(q, row)' /\ ~InFlight(q, row)
        BY <2>1, <3>1, <3>3 DEF Alone
      <4>2. ~Stale(row) /\ Fault(r, row) = {}
        BY <2>1, <2>2, <3>3, <4>1 DEF Clean, InFlight
      <4>3. Fits(r, row)'
        BY <1>0, <2>4, <3>3, <4>2, TakesUp
      <4> QED
        BY <2>1, <3>3, <4>1, <4>3 DEF Clean
    <3>4. CASE InFlight(r, row)
      <4>1. Fits(r, row) /\ \A q \in Reqs : q # r => ~InFlight(q, row)
        BY <2>2, <3>4 DEF Clean, Alone
      <4>2. ~InFlight(r, row)' /\ ~Stale(row)'
        BY <1>0, <2>1, <2>4, <3>4, <4>1, LeavesClean
      <4> QED
        BY <2>1, <3>1, <4>1, <4>2 DEF Clean
    <3> QED
      BY <3>2, <3>3, <3>4
  <2> QED
    BY <1>3, <2>3, <2>4 DEF Next
<1> QED
  BY <1>2, <1>3

(***************************************************************************)
(* What find_by_pk finds in the cache is the row, or an object of another  *)
(* sub-table, or wrong for one of the reasons StaleHasReason names,        *)
(* however many requests load, save, delete, write past the cache, fail    *)
(* and are killed, whatever columns they select, and however far the slave *)
(* is behind (APF_DB_DataObject.php:101-172, mysqlAccessor.php:218-245 and *)
(* 421-432).                                                               *)
(***************************************************************************)
THEOREM StaleAlwaysHasReason == Spec => []StaleHasReason
<1>1. RowInd => StaleHasReason
  <2>1. SUFFICES ASSUME RowInd, NEW row \in Rows, ~Holds(row, master[row]),
                        \A r \in Reqs : ~InFlight(r, row),
                        taint[row] = {}, cache[row[2]].tab = row[1]
                 PROVE  FALSE
    BY DEF StaleHasReason
  <2>2. Stale(row)
    BY <2>1 DEF Stale, HasEntry
  <2> QED
    BY <2>1, <2>2 DEF RowInd, Clean
<1>2. Spec => []RowInd
  BY InitRow, NextRow, PTL DEF Spec
<1> QED
  BY <1>1, <1>2, PTL

-----------------------------------------------------------------------------
(***************************************************************************)
(* The strengthening of ReadsOwnWrites: while a request counts on what it  *)
(* has saved, nobody is at work on the row, the master has it, and so has  *)
(* the cache or, when the entry is gone, the slave.                        *)
(***************************************************************************)
Untouched(row) == \A q \in Reqs : ~InFlight(q, row)

KeptAt(row, v) ==
  /\ master[row] = v /\ Untouched(row)
  /\ Holds(row, v) \/ (cache[row[2]] = Miss /\ slave[row] = v)

Kept(r) == \E row \in Rows, v \in Values : own[r] = <<row, v>> /\ KeptAt(row, v)

OwnInd == Types /\ \A r \in Reqs : own[r] # Nothing => Kept(r)

LEMMA InitOwn == Init => OwnInd
BY InitTypes DEF Init, OwnInd

\* Nobody at work on a row before a step or after it, and no write past the
\* cache: the step leaves the row alone, and at most its entry goes.
LEMMA QuietRow ==
  ASSUME Types, [Next]_vars, NEW row \in Rows, Untouched(row), Untouched(row)',
         ~Bypassed(row)
  PROVE  master'[row] = master[row] /\ Same(row)
<1>1. CASE UNCHANGED vars
  BY <1>1 DEF vars, dbvars, Same
<1>2. CASE Replicate \/ \E k \in Ids : Expire(k)
  BY <1>2, EnvRow
<1>3. ASSUME NEW r \in Reqs, ReqNext(r)
      PROVE  master'[row] = master[row] /\ Same(row)
  BY <1>3, Aloof DEF Untouched
<1> QED
  BY <1>1, <1>2, <1>3 DEF Next

\* A row kept stays so, unless it is disturbed.
LEMMA StaysKept ==
  ASSUME Types, [Next]_vars, NEW row \in Rows, NEW v \in Values,
         KeptAt(row, v), ~Disturbed(row, v)
  PROVE  KeptAt(row, v)'
<1>1. /\ Untouched(row)' /\ ~Bypassed(row)
      /\ HasEntry(row)' \/ (cache'[row[2]] = Miss /\ slave'[row] = v)
  BY DEF Disturbed, Untouched
<1>2. master'[row] = v /\ Same(row)
  BY <1>1, QuietRow DEF KeptAt
<1>3. CASE HasEntry(row)'
  <2>1. cache'[row[2]] = cache[row[2]]
    BY <1>2, <1>3 DEF Same
  <2>2. Holds(row, v)
    BY <1>3, <2>1, RowParts, Misses DEF KeptAt, HasEntry
  <2> QED
    BY <1>1, <1>2, <2>1, <2>2 DEF KeptAt, Holds
<1>4. CASE cache'[row[2]] = Miss /\ slave'[row] = v
  BY <1>1, <1>2, <1>4 DEF KeptAt
<1> QED
  BY <1>1, <1>3, <1>4

LEMMA NextOwn == OwnInd /\ [Next]_vars => OwnInd'
<1> SUFFICES ASSUME OwnInd, [Next]_vars PROVE OwnInd'
  OBVIOUS
<1>0. Types /\ Types'
  BY NextTypes DEF OwnInd
<1>1. SUFFICES ASSUME NEW r \in Reqs, own'[r] # Nothing PROVE Kept(r)'
  BY <1>0 DEF OwnInd
<1>2. CASE \E row \in Rows, v \in Values : Saved(r, row, v) /\ own'[r] = <<row, v>>
  <2>1. PICK row \in Rows, v \in Values : Saved(r, row, v) /\ own'[r] = <<row, v>>
    BY <1>2
  <2>2. Calm(row)' /\ cache'[row[2]] = [tab |-> row[1], v |-> v]
    BY <2>1 DEF Saved
  <2>3. master'[row] = v
    BY <2>2 DEF Calm, Stale, HasEntry, Holds
  <2>4. KeptAt(row, v)'
    BY <2>2, <2>3 DEF KeptAt, Calm, Untouched, Holds
  <2> QED
    BY <2>1, <2>4, Zenon DEF Kept
<1>3. CASE /\ own'[r] = own[r]
           /\ ~\E row \in Rows, v \in Values :
                 own[r] = <<row, v>> /\ Disturbed(row, v)
  <2>1. PICK row \in Rows, v \in Values : own[r] = <<row, v>> /\ KeptAt(row, v)
    BY <1>1, <1>3 DEF OwnInd, Kept
  <2>2. KeptAt(row, v)'
    BY <1>0, <1>3, <2>1, StaysKept
  <2>3. own'[r] = <<row, v>>
    BY <1>3, <2>1
  <2> QED
    BY <2>2, <2>3, Zenon DEF Kept
<1>4. CASE UNCHANGED vars
  <2>1. UNCHANGED <<own, master, cache, slave, pc, obj>>
    BY <1>4 DEF vars, dbvars
  <2>2. Kept(r)
    BY <1>1, <2>1 DEF OwnInd
  <2> QED
    BY <2>1, <2>2, Zenon DEF Kept, KeptAt, Holds, Untouched, InFlight
<1>5. CASE Next
  <2>1. own'[r] = IF \E row \in Rows, v \in Values : Saved(r, row, v)
                  THEN <<RowOf(obj[r]), obj[r].v>>
                  ELSE IF \E row \in Rows, v \in Values :
                            own[r] = <<row, v>> /\ Disturbed(row, v)
                       THEN Nothing ELSE own[r]
    BY <1>5 DEF Next, Watch
  <2>2. CASE \E row \in Rows, v \in Values : Saved(r, row, v)
    <3>1. PICK row \in Rows, v \in Values : Saved(r, row, v)
      BY <2>2
    <3>2. own'[r] = <<row, v>>
      BY <2>1, <2>2, <3>1 DEF Saved
    <3> QED
      BY <1>2, <3>1, <3>2
  <2>3. CASE ~\E row \in Rows, v \in Values : Saved(r, row, v)
    BY <1>1, <1>3, <2>1, <2>3
  <2> QED
    BY <2>2, <2>3
<1> QED
  BY <1>4, <1>5

(***************************************************************************)
(* A request finds in the cache, or behind it in either database, what it  *)
(* has saved, until somebody works on the row or writes it past the cache, *)
(* or the entry makes way for one of another sub-table or goes before the  *)
(* slave has heard of it (APF_DB_DataObject.php:136 and 147).              *)
(***************************************************************************)
THEOREM AlwaysReadsOwnWrites == Spec => []ReadsOwnWrites
<1>1. OwnInd => ReadsOwnWrites
  <2>1. SUFFICES ASSUME OwnInd, NEW r \in Reqs, own[r] # Nothing
                 PROVE  Found(own[r][1]) = {[tab |-> own[r][1][1], v |-> own[r][2]]}
    BY DEF ReadsOwnWrites
  <2>2. PICK row \in Rows, v \in Values : own[r] = <<row, v>> /\ KeptAt(row, v)
    BY <2>1 DEF OwnInd, Kept
  <2>3. own[r][1] = row /\ own[r][2] = v
    BY <2>2
  <2>4. CASE Holds(row, v)
    <3>1. cache[row[2]] # Miss
      BY <2>4, RowParts, Misses DEF Holds
    <3> QED
      BY <2>3, <2>4, <3>1 DEF Found, Holds
  <2>5. CASE cache[row[2]] = Miss /\ slave[row] = v
    <3>1. ReadFrom(row) = {v}
      BY <2>2, <2>5 DEF ReadFrom, KeptAt
    <3> QED
      BY <2>3, <2>5, <3>1 DEF Found
  <2> QED
    BY <2>2, <2>4, <2>5 DEF KeptAt
<1>2. Spec => []OwnInd
  BY InitOwn, NextOwn, PTL DEF Spec
<1> QED
  BY <1>1, <1>2, PTL
=============================================================================
