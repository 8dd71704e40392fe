------------------------- MODULE TransactionProofs -------------------------
(***************************************************************************)
(* What the transactions of mysqlAccessor.php promise over any number of   *)
(* databases and any values: the four properties of RowTransaction, from   *)
(* one inductive invariant.                                                *)
(***************************************************************************)
EXTENDS RowTransaction, TLAPS

Conns == DOMAIN connections

\* The loop of commit() or roll_back() has been at d's connection.
Passed(d) == \E j \in Conns : j < k /\ connections[j] = d

Looping == pc \in {"commit", "rollback"}

\* A connection that is not in a transaction sees what is committed, and only
\* open connections are in one, or were.
Connected ==
  /\ \A d \in Dbs : live[d] \/ pend[d] = row[d]
  /\ \A d \in Dbs : live[d] => tx[d]
  /\ \A d \in Dbs : tx[d] \/ d \in wrote \/ d \in leaked \/ d \in undone => Opened(d)
  /\ pc = "ended" => \A d \in Dbs : ~tx[d]

\* What the loop has passed is no longer in a transaction.
PassedDone == Looping => \A d \in Dbs : Passed(d) => ~tx[d]

\* A row is not as it was, and the server has not ended a transaction on it.
Differs == \E d \in Dbs : d \notin severed /\ row[d] # before[d]

\* Then there is a connection at which roll_back() throws, one that its loop
\* has still before it.
Restorable ==
  /\ \A d \in Dbs : tx[d] /\ ~live[d] => d \in severed
  /\ Differs /\ pc # "rollback" => \E j \in Conns : ~tx[connections[j]]
  /\ Differs /\ pc = "rollback" =>
       \E j \in Conns : k <= j /\ ~tx[connections[j]]
  /\ outcome = "rolled back" => ~Differs /\ \A d \in Dbs : ~tx[d]
  /\ pc = "update" => outcome = "none"

\* The cache is as the script sees the row.
CacheInv ==
  /\ pc = "update" => cache[job[1]] = job[2] \/ job[1] \in lost
  /\ \A d \in Dbs : \/ cache[d] = pend[d]
                    \/ d \in dropped
                    \/ d \in lost
                    \/ pc = "update" /\ d = job[1]

\* Why what is owed is in the row, or will be by the commit.
OwedInv ==
  /\ \A d \in wrote : tx[d] => pend[d] = last[d] \/ d \in undone
  /\ pc = "commit" => \A d \in wrote : Passed(d) => row[d] = last[d] \/ d \in undone
  /\ \A d \in Dbs : \/ owed[d] \in {Unknown, row[d]}
                    \/ d \in leaked
                    \/ d \in undone /\ ~tx[d]
                    \/ pc = "commit" /\ d \in wrote /\ Passed(d)
  /\ \A d \in Dbs : tx[d] /\ (d \notin wrote \/ ~intx) =>
                      owed[d] \in {Unknown, pend[d]} \/ d \in undone
  /\ ~intx => \A d \in Dbs : tx[d] => d \in leaked

\* What keeps a transaction from being half done.
WholeInv ==
  astray = {} =>
    /\ \A d \in wrote : d \notin undone /\ (intx \/ ~tx[d])
    /\ intx /\ pc # "commit" => row = before
    /\ ~intx /\ wrote # {} =>
         /\ ~tx[connections[1]]
         /\ pc = "commit" => k = 1
         /\ \/ \A d \in wrote : row[d] = last[d]
            \/ \A d \in wrote : row[d] = before[d]

TInd ==
  /\ TypeOK /\ Connected /\ PassedDone
  /\ Restorable /\ CacheInv /\ OwedInv /\ WholeInv

-----------------------------------------------------------------------------
(* What holds at the start, and of a step that changes nothing.            *)

LEMMA InitTInd == Init => TInd
<1> SUFFICES ASSUME Init PROVE TInd
  OBVIOUS
<1>1. 0 \in Vals /\ Vals \subseteq Nat
  BY ValsAssumption
<1>2. /\ connections = <<>> /\ Conns = {} /\ Len(connections) = 0
      /\ connections \in Seq(Dbs)
  BY DEF Init, Conns
<1>3. /\ pc = "idle" /\ outcome = "none" /\ intx = FALSE /\ k = 1
      /\ wrote = {} /\ leaked = {} /\ dropped = {} /\ astray = {}
      /\ severed = {} /\ undone = {} /\ lost = {} /\ live = tx
      /\ row \in [Dbs -> Vals] /\ pend = row /\ cache = row /\ before = row
      /\ last = row /\ owed = row /\ \A d \in Dbs : tx[d] = FALSE
      /\ tx \in [Dbs -> BOOLEAN] /\ auto_commit = TRUE /\ job \in Dbs \X Vals
  BY <1>1 DEF Init
<1>4. TypeOK
  <2>1. owed \in [Dbs -> Vals \cup {Unknown}]
    BY <1>3
  <2>2. k \in 1 .. Len(connections) + 1
    BY <1>2, <1>3
  <2>3. \A x, y \in DOMAIN connections : connections[x] = connections[y] => x = y
    BY <1>2 DEF Conns
  <2>4. {} \in SUBSET Dbs /\ {} \in SUBSET Astray
    OBVIOUS
  <2> QED BY <1>2, <1>3, <2>1, <2>2, <2>3, <2>4 DEF TypeOK
<1>5. Connected /\ PassedDone /\ Restorable /\ CacheInv /\ OwedInv /\ WholeInv
  BY <1>2, <1>3 DEF Connected, PassedDone, Looping, Restorable, Differs, CacheInv, OwedInv, WholeInv
<1> QED BY <1>4, <1>5 DEF TInd

LEMMA StutterTInd ==
  ASSUME TInd, UNCHANGED vars
  PROVE  TInd'
<1>1. UNCHANGED <<pc, job, k, auto_commit, connections, tx, live, row, pend, cache, intx,
                  outcome, before, last, wrote, owed, astray, leaked, severed, undone,
                  dropped, lost>>
  BY DEF vars, dbvars, hist
<1>2. TypeOK' /\ Connected' /\ PassedDone'
  BY <1>1 DEF TInd, TypeOK, Connected, PassedDone, Looping, Passed, Conns, Opened
<1>3. Restorable' /\ CacheInv' /\ WholeInv'
  BY <1>1 DEF TInd, Restorable, Differs, CacheInv, WholeInv, Conns
<1>4. OwedInv'
  BY <1>1 DEF TInd, OwedInv, Passed, Conns
<1> QED BY <1>2, <1>3, <1>4 DEF TInd

\* The types of what the proofs compare.
LEMMA Typed ==
  ASSUME TypeOK
  PROVE  /\ k \in Nat /\ Len(connections) \in Nat
         /\ Conns = 1 .. Len(connections)
         /\ \A j \in Conns : connections[j] \in Dbs
         /\ \A d \in Dbs : tx[d] \in BOOLEAN /\ live[d] \in BOOLEAN
         /\ job[1] \in Dbs /\ job[2] \in Vals
         /\ wrote \subseteq Dbs /\ leaked \subseteq Dbs
<1>1. connections \in Seq(Dbs) /\ k \in 1 .. Len(connections) + 1
  BY DEF TypeOK
<1>2. Len(connections) \in Nat /\ Conns = 1 .. Len(connections)
      /\ \A j \in Conns : connections[j] \in Dbs
  BY <1>1 DEF Conns
<1>3. k \in Nat
  BY <1>1, <1>2
<1>4. \A d \in Dbs : tx[d] \in BOOLEAN /\ live[d] \in BOOLEAN
  BY DEF TypeOK
<1>5. job[1] \in Dbs /\ job[2] \in Vals /\ wrote \subseteq Dbs /\ leaked \subseteq Dbs
  BY DEF TypeOK
<1> QED BY <1>2, <1>3, <1>4, <1>5

\* A step that leaves the connections alone leaves open what was open.
LEMMA SameConnections ==
  ASSUME UNCHANGED connections
  PROVE  /\ Conns' = Conns
         /\ \A d : Opened(d)' = Opened(d)
BY DEF Conns, Opened

\* A script that has written has a first connection.
LEMMA FirstOpen ==
  ASSUME TypeOK, Connected, wrote # {}
  PROVE  1 \in Conns
<1>1. PICK d \in wrote : TRUE
  OBVIOUS
<1>2. Opened(d)
  BY Typed DEF Connected
<1>3. PICK j \in Conns : connections[j] = d
  BY <1>2 DEF Opened, Conns
<1>4. Conns = 1 .. Len(connections) /\ Len(connections) \in Nat
  BY Typed
<1> QED BY <1>3, <1>4

\* get_connection(d): what it adds, and what it leaves alone.
LEMMA Opening ==
  ASSUME TypeOK, Connected, NEW d \in Dbs, GetConnection(d)
  PROVE  /\ connections' \in Seq(Dbs)
         /\ \A x, y \in Conns' : connections'[x] = connections'[y] => x = y
         /\ k \in 1 .. Len(connections') + 1
         /\ tx' \in [Dbs -> BOOLEAN] /\ leaked' \in SUBSET Dbs
         /\ \A j \in Conns : /\ j \in Conns' /\ connections'[j] = connections[j]
                             /\ tx'[connections[j]] = tx[connections[j]]
         /\ \A e \in Dbs : Opened(e)' <=> Opened(e) \/ e = d
         /\ \A e \in Dbs : e # d => tx'[e] = tx[e]
         /\ tx'[d] = TxOf(d)
         /\ Opened(d) => tx' = tx /\ leaked' = leaked
         /\ ~Opened(d) => ~tx[d] /\ d \notin wrote /\ d \notin leaked /\ d \notin undone
         /\ LiveOf(d) \in BOOLEAN /\ (LiveOf(d) => tx'[d]) /\ (live[d] => LiveOf(d))
         /\ Opened(d) => LiveOf(d) = live[d]
         /\ tx'[d] /\ ~LiveOf(d) => tx[d] /\ ~live[d]
         /\ leaked \subseteq leaked' /\ leaked' \subseteq leaked \cup {d}
         /\ ~Opened(d) /\ tx'[d] /\ ~intx => d \in leaked'
<1>1. /\ Len(connections) \in Nat /\ Conns = 1 .. Len(connections)
      /\ connections \in Seq(Dbs) /\ tx \in [Dbs -> BOOLEAN] /\ auto_commit \in BOOLEAN
      /\ leaked \in SUBSET Dbs /\ k \in 1 .. Len(connections) + 1
  BY Typed DEF TypeOK
<1>2. /\ tx' = [tx EXCEPT ![d] = TxOf(d)]
      /\ leaked' = IF ~Opened(d) /\ TxOf(d) /\ ~intx THEN leaked \cup {d} ELSE leaked
      /\ connections' = IF Opened(d) THEN connections ELSE Append(connections, d)
  BY DEF GetConnection
<1>3. TxOf(d) \in BOOLEAN
  BY <1>1 DEF TxOf
<1>4. ~Opened(d) => ~tx[d] /\ d \notin wrote /\ d \notin leaked /\ d \notin undone
  BY DEF Connected
<1>7. /\ LiveOf(d) \in BOOLEAN /\ (LiveOf(d) => TxOf(d)) /\ (live[d] => LiveOf(d))
      /\ Opened(d) => LiveOf(d) = live[d]
      /\ TxOf(d) /\ ~LiveOf(d) => tx[d] /\ ~live[d]
  <2>1. CASE Opened(d)
    BY <1>1, <2>1, Typed DEF LiveOf, TxOf, Connected
  <2>2. CASE ~Opened(d)
    BY <1>1, <1>4, <2>2 DEF LiveOf, TxOf, Connected
  <2> QED BY <2>1, <2>2
<1>5. CASE Opened(d)
  <2>1. connections' = connections /\ tx' = tx /\ leaked' = leaked
    BY <1>1, <1>2, <1>5 DEF TxOf
  <2>2. Conns' = Conns /\ \A e : Opened(e)' = Opened(e)
    BY <2>1 DEF Conns, Opened
  <2>3. \A x, y \in Conns' : connections'[x] = connections'[y] => x = y
    BY <2>1, <2>2 DEF TypeOK, Conns
  <2>4. \A j \in Conns : /\ j \in Conns' /\ connections'[j] = connections[j]
                         /\ tx'[connections[j]] = tx[connections[j]]
    BY <2>1, <2>2
  <2>5. tx'[d] = TxOf(d)
    BY <1>1, <2>1, <1>5 DEF TxOf
  <2> QED BY <1>1, <1>5, <1>7, <2>1, <2>2, <2>3, <2>4, <2>5
<1>6. CASE ~Opened(d)
  <2>1. connections' = Append(connections, d)
    BY <1>2, <1>6
  <2>2. /\ connections' \in Seq(Dbs) /\ Len(connections') = Len(connections) + 1
        /\ Conns' = 1 .. Len(connections) + 1
        /\ connections'[Len(connections) + 1] = d
        /\ \A j \in Conns : connections'[j] = connections[j]
    BY <1>1, <2>1 DEF Conns
  <2>3. \A j \in Conns : j \in Conns' /\ connections[j] # d /\ connections[j] \in Dbs
    BY <1>1, <1>6, <2>2 DEF Opened, Conns
  <2>4. \A j \in Conns' : j \in Conns \/ j = Len(connections) + 1
    BY <1>1, <2>2
  <2>5. \A x, y \in Conns' : connections'[x] = connections'[y] => x = y
    <3>1. \A x, y \in Conns : connections[x] = connections[y] => x = y
      BY DEF TypeOK, Conns
    <3> QED BY <2>2, <2>3, <2>4, <3>1
  <2>6. \A e \in Dbs : Opened(e)' <=> Opened(e) \/ e = d
    <3>1. \A e : Opened(e)' <=> \E j \in Conns' : connections'[j] = e
      BY DEF Opened, Conns
    <3>2. \A e : Opened(e) <=> \E j \in Conns : connections[j] = e
      BY DEF Opened, Conns
    <3>3. Len(connections) + 1 \in Conns'
      BY <1>1, <2>2
    <3> QED BY <2>2, <2>3, <2>4, <3>1, <3>2, <3>3
  <2>7. /\ tx' \in [Dbs -> BOOLEAN] /\ tx'[d] = TxOf(d)
        /\ \A e \in Dbs : e # d => tx'[e] = tx[e]
    BY <1>1, <1>2, <1>3
  <2>8. \A j \in Conns : tx'[connections[j]] = tx[connections[j]]
    BY <2>3, <2>7
  <2>9. leaked \subseteq leaked' /\ leaked' \subseteq leaked \cup {d} /\ leaked' \in SUBSET Dbs
    BY <1>1, <1>2
  <2>10. ~Opened(d) /\ tx'[d] /\ ~intx => d \in leaked'
    BY <1>2, <2>7
  <2>11. k \in 1 .. Len(connections') + 1
    BY <1>1, <2>2
  <2> QED BY <1>4, <1>6, <1>7, <2>2, <2>3, <2>5, <2>6, <2>7, <2>8, <2>9, <2>10, <2>11
<1> QED BY <1>5, <1>6

-----------------------------------------------------------------------------
(* The calls that only change the script's own state.                      *)

LEMMA BeginStep ==
  ASSUME TInd, begin_transaction
  PROVE  TInd'
<1>1. /\ pc = "idle" /\ auto_commit' = FALSE /\ intx' = TRUE /\ outcome' = "none"
      /\ UNCHANGED <<pc, job, k, connections, tx, live, row, pend, cache, last, owed,
                     leaked, undone, dropped, lost>>
  BY DEF begin_transaction
<1>2. CASE intx
  <2>1. UNCHANGED <<before, wrote, astray, severed, intx>>
    BY <1>1, <1>2 DEF begin_transaction, TInd, TypeOK
  <2>2. TypeOK' /\ Connected' /\ PassedDone'
    BY <1>1, <2>1 DEF TInd, TypeOK, Connected, PassedDone, Looping, Opened
  <2>3. Restorable' /\ CacheInv' /\ WholeInv'
    BY <1>1, <1>2, <2>1 DEF TInd, Restorable, Differs, CacheInv, WholeInv, Conns
  <2>4. OwedInv'
    BY <1>1, <1>2, <2>1 DEF TInd, OwedInv, Passed
  <2> QED BY <2>2, <2>3, <2>4 DEF TInd
<1>3. CASE ~intx
  <2>1. /\ before' = row /\ wrote' = {} /\ astray' = {}
        /\ severed' = {d \in Dbs : tx[d] /\ ~live[d]}
    BY <1>3 DEF begin_transaction
  <2>2. TypeOK'
    BY <1>1, <2>1 DEF TInd, TypeOK
  <2>3. Connected' /\ PassedDone'
    BY <1>1, <2>1 DEF TInd, Connected, PassedDone, Looping, Opened
  <2>4. Restorable' /\ CacheInv' /\ WholeInv'
    BY <1>1, <2>1 DEF TInd, Restorable, Differs, CacheInv, WholeInv
  <2>5. OwedInv'
    BY <1>1, <1>3, <2>1 DEF TInd, OwedInv
  <2> QED BY <2>2, <2>3, <2>4, <2>5 DEF TInd
<1> QED BY <1>2, <1>3

LEMMA SaveStep ==
  ASSUME TInd, NEW d \in Dbs, NEW v \in Vals, Save(d, v)
  PROVE  TInd'
<1>1. /\ pc = "idle" /\ pc' = "update" /\ job' = <<d, v>> /\ outcome' = "none"
      /\ \/ cache' = [cache EXCEPT ![d] = v] /\ lost' = lost \ {d}
         \/ cache' = cache /\ lost' = lost \cup {d}
      /\ UNCHANGED <<k, auto_commit, connections, tx, live, row, pend, intx, before, last,
                     wrote, owed, astray, leaked, severed, undone, dropped>>
  BY DEF Save, CacheUpdate, dbvars
<1>2. job'[1] = d /\ job'[2] = v
  BY <1>1
<1>3. /\ cache' \in [Dbs -> Vals] /\ lost' \in SUBSET Dbs
      /\ cache'[d] = v \/ d \in lost'
      /\ \A e \in Dbs : e # d => cache'[e] = cache[e] /\ (e \in lost => e \in lost')
  <2>1. cache \in [Dbs -> Vals] /\ lost \in SUBSET Dbs
    BY DEF TInd, TypeOK
  <2> QED BY <1>1, <2>1
<1>4. TypeOK'
  BY <1>1, <1>3 DEF TInd, TypeOK
<1>5. Connected' /\ PassedDone'
  BY <1>1 DEF TInd, Connected, PassedDone, Looping, Opened
<1>6. Restorable' /\ WholeInv'
  BY <1>1 DEF TInd, Restorable, Differs, WholeInv, Conns
<1>7. CacheInv'
  BY <1>1, <1>2, <1>3 DEF TInd, CacheInv
<1>8. OwedInv'
  BY <1>1 DEF TInd, OwedInv
<1> QED BY <1>4, <1>5, <1>6, <1>7, <1>8 DEF TInd

\* commit() and roll_back() before the first connection.
LEMMA LoopBegins ==
  ASSUME TInd, commit \/ roll_back
  PROVE  TInd'
<1>1. /\ pc = "idle" /\ pc' \in {"commit", "rollback"} /\ k' = 1
      /\ UNCHANGED <<job, auto_commit, connections, tx, live, row, pend, cache, intx,
                     outcome, before, last, wrote, owed, astray, leaked, severed, undone,
                     dropped, lost>>
  BY DEF commit, roll_back, dbvars, hist
<1>2. /\ Conns = 1 .. Len(connections) /\ Len(connections) \in Nat /\ Conns' = Conns
  BY <1>1, Typed, SameConnections DEF TInd
<1>3. \A d : ~Passed(d)'
  BY <1>1, <1>2 DEF Passed
<1>4. TypeOK'
  <2>1. k' \in 1 .. Len(connections') + 1
    BY <1>1, <1>2
  <2> QED BY <1>1, <2>1 DEF TInd, TypeOK
<1>5. Connected'
  BY <1>1 DEF TInd, Connected, Opened
<1>6. PassedDone'
  BY <1>3 DEF PassedDone
<1>7. Restorable'
  <2>1. \A j \in Conns : 1 <= j
    BY <1>2
  <2>2. Differs' <=> Differs
    BY <1>1 DEF Differs
  <2>3. Differs => \E j \in Conns' : 1 <= j /\ ~tx'[connections'[j]]
    BY <1>1, <1>2, <2>1 DEF TInd, Restorable
  <2> QED BY <1>1, <1>2, <2>2, <2>3 DEF TInd, Restorable
<1>8. CacheInv' /\ WholeInv'
  BY <1>1 DEF TInd, CacheInv, WholeInv
<1>9. OwedInv'
  BY <1>1, <1>3 DEF TInd, OwedInv
<1> QED BY <1>4, <1>5, <1>6, <1>7, <1>8, <1>9 DEF TInd

-----------------------------------------------------------------------------
(* The calls that may open a connection.                                   *)

\* What a statement that changes no row does to the transaction on d.
LEMMA Statement ==
  ASSUME TypeOK, Connected, NEW d \in Dbs, GetConnection(d), Keeps(d) \/ Severs(d)
  PROVE  /\ live' \in [Dbs -> BOOLEAN] /\ pend' \in [Dbs -> Vals]
         /\ severed' \in SUBSET Dbs /\ undone' \in SUBSET Dbs /\ astray' \in SUBSET Astray
         /\ \A e \in Dbs : e # d => live'[e] = live[e] /\ pend'[e] = pend[e]
         /\ live'[d] => tx'[d] /\ LiveOf(d)
         /\ tx'[d] /\ ~live'[d] => d \in severed' \/ (tx[d] /\ ~live[d])
         /\ live[d] => live'[d] \/ pend'[d] = row[d]
         /\ \/ pend' = pend /\ undone' = undone /\ astray' = astray
            \/ /\ LiveOf(d) /\ Severs(d) /\ pend'[d] = row[d]
               /\ undone' = undone \cup {d}
               /\ intx => astray' # {}
               /\ ~intx => astray' = astray
         /\ severed \subseteq severed' /\ undone \subseteq undone'
         /\ \A e \in Dbs : e # d => (e \in severed' <=> e \in severed)
                                 /\ (e \in undone' => e \in undone)
<1>1. /\ live \in [Dbs -> BOOLEAN] /\ pend \in [Dbs -> Vals] /\ row \in [Dbs -> Vals]
      /\ severed \in SUBSET Dbs /\ undone \in SUBSET Dbs /\ astray \in SUBSET Astray
  BY DEF TypeOK
<1>2. /\ LiveOf(d) \in BOOLEAN /\ (LiveOf(d) => tx'[d]) /\ (live[d] => LiveOf(d))
      /\ tx'[d] /\ ~LiveOf(d) => tx[d] /\ ~live[d]
  BY Opening
<1>3. CASE Keeps(d)
  BY <1>1, <1>2, <1>3 DEF Keeps
<1>4. CASE Severs(d)
  <2>1. /\ LiveOf(d) /\ live' = [live EXCEPT ![d] = FALSE]
        /\ pend' = [pend EXCEPT ![d] = row[d]] /\ severed' = severed \cup {d}
        /\ undone' = IF pend[d] # row[d] THEN undone \cup {d} ELSE undone
        /\ astray' = IF intx /\ pend[d] # row[d] THEN astray \cup {"undone"} ELSE astray
    BY <1>4 DEF Severs
  <2>2. live' \in [Dbs -> BOOLEAN] /\ pend' \in [Dbs -> Vals] /\ ~live'[d] /\ pend'[d] = row[d]
        /\ \A e \in Dbs : e # d => live'[e] = live[e] /\ pend'[e] = pend[e]
    BY <1>1, <2>1
  <2>3. CASE pend[d] = row[d]
    <3>1. pend' = pend /\ undone' = undone /\ astray' = astray
      BY <1>1, <2>1, <2>3
    <3> QED BY <1>1, <1>2, <2>1, <2>2, <3>1
  <2>4. CASE pend[d] # row[d]
    <3>1. astray' \in SUBSET Astray /\ (intx => astray' # {}) /\ (~intx => astray' = astray)
      BY <1>1, <2>1, <2>4 DEF Astray
    <3> QED BY <1>1, <1>2, <1>4, <2>1, <2>2, <2>4, <3>1
  <2> QED BY <2>3, <2>4
<1> QED BY <1>3, <1>4

\* What stays true when d's connection is there and the rows are as they were.
LEMMA OpeningKeeps ==
  ASSUME TInd, NEW d \in Dbs, GetConnection(d), Keeps(d) \/ Severs(d),
         UNCHANGED <<job, k, auto_commit, row, cache, intx, before, last, wrote, owed, lost>>,
         pc \in {"idle", "update"}, pc' = "idle", outcome' # "rolled back",
         outcome' \in {"none", "committed", "exception"},
         dropped' \in SUBSET Dbs, dropped \subseteq dropped',
         Severs(d) => d \in dropped',
         pc = "update" => job[1] \in dropped'
  PROVE  TInd'
<1> USE DEF TInd
<1>1. /\ connections' \in Seq(Dbs)
      /\ \A x, y \in Conns' : connections'[x] = connections'[y] => x = y
      /\ k \in 1 .. Len(connections') + 1
      /\ tx' \in [Dbs -> BOOLEAN] /\ leaked' \in SUBSET Dbs
      /\ \A j \in Conns : /\ j \in Conns' /\ connections'[j] = connections[j]
                          /\ tx'[connections[j]] = tx[connections[j]]
      /\ \A e \in Dbs : Opened(e)' <=> Opened(e) \/ e = d
      /\ \A e \in Dbs : e # d => tx'[e] = tx[e]
      /\ Opened(d) => tx' = tx /\ leaked' = leaked
      /\ ~Opened(d) => ~tx[d] /\ d \notin wrote /\ d \notin leaked /\ d \notin undone
      /\ Opened(d) => LiveOf(d) = live[d]
      /\ LiveOf(d) => tx'[d]
      /\ leaked \subseteq leaked' /\ leaked' \subseteq leaked \cup {d}
      /\ ~Opened(d) /\ tx'[d] /\ ~intx => d \in leaked'
  BY Opening
<1>2. /\ live' \in [Dbs -> BOOLEAN] /\ pend' \in [Dbs -> Vals]
      /\ severed' \in SUBSET Dbs /\ undone' \in SUBSET Dbs /\ astray' \in SUBSET Astray
      /\ \A e \in Dbs : e # d => live'[e] = live[e] /\ pend'[e] = pend[e]
      /\ live'[d] => tx'[d] /\ LiveOf(d)
      /\ tx'[d] /\ ~live'[d] => d \in severed' \/ (tx[d] /\ ~live[d])
      /\ live[d] => live'[d] \/ pend'[d] = row[d]
      /\ \/ pend' = pend /\ undone' = undone /\ astray' = astray
         \/ /\ LiveOf(d) /\ Severs(d) /\ pend'[d] = row[d]
            /\ undone' = undone \cup {d}
            /\ intx => astray' # {}
            /\ ~intx => astray' = astray
      /\ severed \subseteq severed' /\ undone \subseteq undone'
      /\ \A e \in Dbs : e # d => (e \in severed' <=> e \in severed)
                                 /\ (e \in undone' => e \in undone)
  BY Statement
<1>3. TypeOK'
  <2>1. \A x, y \in DOMAIN connections' : connections'[x] = connections'[y] => x = y
    BY <1>1 DEF Conns
  <2> QED BY <1>1, <1>2, <2>1 DEF TypeOK
<1>4. /\ \A e \in Dbs : tx[e] => tx'[e]
      /\ \A e \in Dbs : pend'[e] = pend[e] \/ (e = d /\ pend'[e] = row[e] /\ e \in undone'
                                                /\ e \in dropped' /\ tx'[e])
  BY <1>1, <1>2
<1>5. Connected'
  <2>1. \A e \in Dbs : live'[e] \/ pend'[e] = row'[e]
    BY <1>2, <1>4 DEF Connected
  <2>2. \A e \in Dbs : live'[e] => tx'[e]
    BY <1>1, <1>2 DEF Connected
  <2>3. \A e \in Dbs : e # d => (e \in undone' => e \in undone)
    BY <1>2
  <2>4. \A e \in Dbs : e # d => (e \in leaked' => e \in leaked)
    BY <1>1
  <2>5. \A e \in Dbs : tx'[e] \/ e \in wrote' \/ e \in leaked' \/ e \in undone' => Opened(e)'
    BY <1>1, <2>3, <2>4 DEF Connected
  <2> QED BY <2>1, <2>2, <2>5 DEF Connected
<1>6. PassedDone'
  BY DEF PassedDone, Looping
<1>7. Restorable'
  <2>1. \A e \in Dbs : tx'[e] /\ ~live'[e] => e \in severed'
    BY <1>1, <1>2 DEF Restorable
  <2>2. Differs' => Differs
    BY <1>2 DEF Differs
  <2>3. Differs => \E j \in Conns' : ~tx'[connections'[j]]
    BY <1>1 DEF Restorable
  <2> QED BY <2>1, <2>2, <2>3 DEF Restorable
<1>8. CacheInv'
  BY <1>4 DEF CacheInv
<1>9. OwedInv'
  <2>1. \A e \in wrote' : tx'[e] => pend'[e] = last'[e] \/ e \in undone'
    <3>1. \A e \in wrote : e # d \/ Opened(d)
      BY <1>1
    <3>2. wrote \subseteq Dbs
      BY Typed
    <3> QED BY <1>1, <1>2, <1>4, <3>1, <3>2 DEF OwedInv
  <2>2. \A e \in Dbs : owed'[e] \in {Unknown, row'[e]} \/ e \in leaked'
                         \/ (e \in undone' /\ ~tx'[e])
    <3>1. \A e \in Dbs : owed[e] \in {Unknown, row[e]} \/ e \in leaked
                         \/ (e \in undone /\ ~tx[e])
      BY DEF OwedInv
    <3>2. \A e \in Dbs : e \in undone /\ ~tx[e] => ~tx'[e]
      BY <1>1
    <3> QED BY <1>1, <1>2, <3>1, <3>2
  <2>3. ASSUME NEW e \in Dbs, tx'[e], e \notin wrote' \/ ~intx'
        PROVE  owed'[e] \in {Unknown, pend'[e]} \/ e \in undone'
    <3>1. CASE tx[e]
      BY <1>2, <1>4, <2>3, <3>1 DEF OwedInv
    <3>2. CASE ~tx[e]
      <4>1. e = d /\ ~Opened(d)
        BY <1>1, <2>3, <3>2
      <4>2. pend[e] = row[e] /\ e \notin leaked /\ e \notin undone
        BY <1>1, <3>2, <4>1 DEF Connected
      <4>3. owed[e] \in {Unknown, row[e]}
        BY <4>2 DEF OwedInv
      <4> QED BY <1>4, <4>2, <4>3
    <3> QED BY <3>1, <3>2
  <2>4. ~intx' => \A e \in Dbs : tx'[e] => e \in leaked'
    BY <1>1 DEF OwedInv
  <2> QED BY <2>1, <2>2, <2>3, <2>4 DEF OwedInv
<1>10. WholeInv'
  <2> SUFFICES ASSUME astray' = {} PROVE WholeInv'
    BY DEF WholeInv
  <2>0. astray = {} /\ wrote \subseteq Dbs
    BY <1>2, Typed
  <2>1. wrote # {} => tx'[connections'[1]] = tx[connections[1]]
    <3> SUFFICES ASSUME wrote # {} PROVE tx'[connections'[1]] = tx[connections[1]]
      OBVIOUS
    <3>1. 1 \in Conns
      BY FirstOpen
    <3> QED BY <1>1, <3>1
  <2>2. ASSUME NEW e \in wrote
        PROVE  e \notin undone' /\ (intx \/ ~tx'[e])
    <3>1. e \notin undone /\ (intx \/ ~tx[e])
      BY <2>0 DEF WholeInv
    <3>2. e \in Dbs /\ Opened(e) /\ tx'[e] = tx[e]
      BY <1>1, <2>0 DEF Connected
    <3>3. e \in undone' => e = d /\ LiveOf(d) /\ ~intx
      <4>1. CASE undone' = undone
        BY <3>1, <4>1
      <4>2. CASE LiveOf(d) /\ undone' = undone \cup {d} /\ (intx => astray' # {})
        BY <3>1, <4>2
      <4> QED BY <1>2, <4>1, <4>2
    <3> QED BY <1>1, <3>1, <3>2, <3>3
  <2> QED BY <2>0, <2>1, <2>2 DEF WholeInv
<1> QED BY <1>3, <1>5, <1>6, <1>7, <1>8, <1>9, <1>10

LEMMA QueryStep ==
  ASSUME TInd, NEW d \in Dbs, Query(d)
  PROVE  TInd'
<1>1. /\ pc = "idle" /\ pc' = "idle" /\ GetConnection(d) /\ outcome' = "none"
      /\ Keeps(d) \/ Severs(d)
      /\ dropped' = dropped \/ dropped' = dropped \cup {d}
      /\ UNCHANGED <<job, k, auto_commit, row, cache, intx, before, last,
                     wrote, owed, lost>>
  BY DEF Query
<1>2. dropped' \in SUBSET Dbs /\ dropped \subseteq dropped'
  BY <1>1 DEF TInd, TypeOK
<1>3. Keeps(d) => ~Severs(d)
  <2> SUFFICES ASSUME Keeps(d), Severs(d) PROVE FALSE
    OBVIOUS
  <2>1. live \in [Dbs -> BOOLEAN]
    BY DEF TInd, TypeOK
  <2>2. LiveOf(d) /\ live' = [live EXCEPT ![d] = LiveOf(d)] /\ live' = [live EXCEPT ![d] = FALSE]
    BY DEF Keeps, Severs
  <2>3. live'[d] = LiveOf(d) /\ live'[d] = FALSE
    BY <2>1, <2>2
  <2> QED BY <2>2, <2>3
<1>4. Severs(d) => d \in dropped'
  BY <1>3 DEF Query
<1> QED BY <1>1, <1>2, <1>4, OpeningKeeps

LEMMA ExecuteFailsStep ==
  ASSUME TInd, ExecuteFails
  PROVE  TInd'
<1>1. /\ pc = "update" /\ pc' = "idle"
      /\ \/ GetConnection(job[1]) /\ (Keeps(job[1]) \/ Severs(job[1]))
         \/ UNCHANGED <<connections, tx, live, leaked, pend, astray, severed, undone>>
      /\ dropped' = dropped \cup {job[1]}
      /\ UNCHANGED <<job, k, auto_commit, row, cache, intx, outcome, before,
                     last, wrote, owed, lost>>
  BY DEF ExecuteFails
<1>2. /\ job[1] \in Dbs /\ dropped \in SUBSET Dbs /\ outcome = "none"
      /\ dropped' \in SUBSET Dbs /\ dropped \subseteq dropped' /\ job[1] \in dropped'
  BY <1>1, Typed DEF TInd, TypeOK, Restorable
<1>3. CASE GetConnection(job[1]) /\ (Keeps(job[1]) \/ Severs(job[1]))
  BY <1>1, <1>2, <1>3, OpeningKeeps
<1>4. CASE UNCHANGED <<connections, tx, live, leaked, pend, astray, severed, undone>>
  <2>1. TypeOK'
    BY <1>1, <1>2, <1>4 DEF TInd, TypeOK
  <2>2. Connected' /\ PassedDone'
    BY <1>1, <1>4 DEF TInd, Connected, PassedDone, Looping, Opened
  <2>3. Restorable' /\ CacheInv' /\ WholeInv'
    BY <1>1, <1>4 DEF TInd, Restorable, Differs, CacheInv, WholeInv, Conns
  <2>4. OwedInv'
    BY <1>1, <1>4 DEF TInd, OwedInv
  <2> QED BY <2>1, <2>2, <2>3, <2>4 DEF TInd
<1> QED BY <1>1, <1>3, <1>4

LEMMA ExecutesStep ==
  ASSUME TInd, pc = "update", NEW due \in Vals \cup {Unknown},
         Executes(job[1], job[2], due),
         \/ due = Unknown /\ ~LiveOf(job[1])
         \/ due = IF ~intx THEN job[2] ELSE IF LiveOf(job[1]) THEN owed[job[1]] ELSE Unknown
  PROVE  TInd'
<1> DEFINE d == job[1]
           v == job[2]
<1>1. /\ pc = "update" /\ pc' = "idle" /\ GetConnection(d)
      /\ live' = [live EXCEPT ![d] = LiveOf(d)]
      /\ pend' = [pend EXCEPT ![d] = v]
      /\ row' = IF LiveOf(d) THEN row ELSE [row EXCEPT ![d] = v]
      /\ last' = [last EXCEPT ![d] = v]
      /\ wrote' = IF intx THEN wrote \cup {d} ELSE {}
      /\ astray' = IF intx /\ ~LiveOf(d) THEN astray \cup {"not in it"} ELSE astray
      /\ owed' = [owed EXCEPT ![d] = due]
      /\ undone' = undone \ {d}
      /\ dropped' = dropped \ {d}
      /\ UNCHANGED <<job, k, auto_commit, cache, intx, outcome, before, severed, lost>>
  BY DEF Executes
<1>2. /\ d \in Dbs /\ v \in Vals /\ outcome = "none"
      /\ cache[d] = v \/ d \in lost
      /\ \/ due = Unknown /\ ~LiveOf(d)
         \/ due = IF ~intx THEN v ELSE IF LiveOf(d) THEN owed[d] ELSE Unknown
  BY <1>1, Typed DEF TInd, CacheInv, Restorable
<1> HIDE DEF d, v
<1>3. TypeOK /\ Connected
  BY DEF TInd
<1>4. /\ connections' \in Seq(Dbs)
      /\ \A x, y \in Conns' : connections'[x] = connections'[y] => x = y
      /\ k \in 1 .. Len(connections') + 1
      /\ tx' \in [Dbs -> BOOLEAN] /\ leaked' \in SUBSET Dbs
      /\ \A j \in Conns : /\ j \in Conns' /\ connections'[j] = connections[j]
                          /\ tx'[connections[j]] = tx[connections[j]]
      /\ \A e \in Dbs : Opened(e)' <=> Opened(e) \/ e = d
      /\ \A e \in Dbs : e # d => tx'[e] = tx[e]
      /\ LiveOf(d) \in BOOLEAN /\ (LiveOf(d) => tx'[d]) /\ (live[d] => LiveOf(d))
      /\ Opened(d) => LiveOf(d) = live[d]
      /\ tx'[d] /\ ~LiveOf(d) => tx[d] /\ ~live[d]
      /\ Opened(d) => tx' = tx /\ leaked' = leaked
      /\ ~Opened(d) => ~tx[d] /\ d \notin wrote /\ d \notin leaked /\ d \notin undone
      /\ leaked \subseteq leaked' /\ leaked' \subseteq leaked \cup {d}
      /\ ~Opened(d) /\ tx'[d] /\ ~intx => d \in leaked'
  BY <1>1, <1>2, <1>3, Opening
<1>5. /\ pend \in [Dbs -> Vals] /\ row \in [Dbs -> Vals] /\ last \in [Dbs -> Vals]
      /\ owed \in [Dbs -> Vals \cup {Unknown}] /\ wrote \in SUBSET Dbs
      /\ dropped \in SUBSET Dbs /\ astray \in SUBSET Astray
      /\ live \in [Dbs -> BOOLEAN] /\ undone \in SUBSET Dbs
  BY <1>3 DEF TypeOK
<1>6. /\ pend' \in [Dbs -> Vals] /\ pend'[d] = v
      /\ last' \in [Dbs -> Vals] /\ last'[d] = v
      /\ live' \in [Dbs -> BOOLEAN] /\ live'[d] = LiveOf(d)
      /\ \A e \in Dbs : e # d => /\ pend'[e] = pend[e] /\ last'[e] = last[e]
                                /\ live'[e] = live[e]
  BY <1>1, <1>2, <1>4, <1>5
<1>7. /\ row' \in [Dbs -> Vals] /\ \A e \in Dbs : e # d => row'[e] = row[e]
      /\ live'[d] => row' = row
      /\ ~live'[d] => row'[d] = v
  BY <1>1, <1>2, <1>5, <1>6
<1>8. /\ owed' \in [Dbs -> Vals \cup {Unknown}]
      /\ \A e \in Dbs : e # d => owed'[e] = owed[e]
      /\ owed'[d] = due
      /\ \/ due = Unknown /\ ~live'[d]
         \/ due = v /\ ~intx
         \/ due = owed[d] /\ live'[d] /\ intx
  BY <1>1, <1>2, <1>5, <1>6
<1>9. /\ intx => wrote' = wrote \cup {d}
      /\ ~intx => wrote' = {}
      /\ wrote' \in SUBSET Dbs /\ astray' \in SUBSET Astray
      /\ intx /\ ~live'[d] => astray' # {}
      /\ live'[d] => astray' = astray
      /\ undone' \in SUBSET Dbs /\ d \notin undone'
      /\ \A e \in Dbs : e # d => (e \in undone' <=> e \in undone)
  BY <1>1, <1>2, <1>5, <1>6 DEF Astray
<1>10. TypeOK'
  <2>1. \A x, y \in DOMAIN connections' : connections'[x] = connections'[y] => x = y
    BY <1>4 DEF Conns
  <2>2. dropped' \in SUBSET Dbs
    BY <1>1, <1>5
  <2> QED BY <1>1, <1>2, <1>3, <1>4, <1>6, <1>7, <1>8, <1>9, <2>1, <2>2 DEF TypeOK
<1>11. Connected'
  <2>1. \A e \in Dbs : live'[e] \/ pend'[e] = row'[e]
    BY <1>3, <1>4, <1>6, <1>7 DEF Connected
  <2>2. \A e \in Dbs : live'[e] => tx'[e]
    BY <1>3, <1>4, <1>6 DEF Connected
  <2>3. \A e \in Dbs : tx'[e] \/ e \in wrote' \/ e \in leaked' \/ e \in undone' => Opened(e)'
    BY <1>3, <1>4, <1>9 DEF Connected
  <2> QED BY <1>1, <2>1, <2>2, <2>3 DEF Connected
<1>12. PassedDone'
  BY <1>1 DEF PassedDone, Looping
<1>13. Restorable'
  <2>1. ASSUME NEW e \in Dbs, tx'[e] /\ ~live'[e] PROVE e \in severed'
    <3>1. tx[e] /\ ~live[e]
      <4>1. CASE e = d
        BY <1>4, <1>6, <2>1, <4>1
      <4>2. CASE e # d
        BY <1>4, <1>6, <2>1, <4>2
      <4> QED BY <4>1, <4>2
    <3>2. e \in severed
      BY <1>1, <3>1 DEF TInd, Restorable
    <3> QED BY <1>1, <3>2
  <2>2. ASSUME Differs'
        PROVE  \E j \in Conns' : ~tx'[connections'[j]]
    <3>1. PICK e \in Dbs : e \notin severed /\ row'[e] # before[e]
      BY <1>1, <2>2 DEF Differs
    <3>2. CASE row'[e] = row[e]
      <4>1. Differs
        BY <3>1, <3>2 DEF Differs
      <4>2. PICK j \in Conns : ~tx[connections[j]]
        BY <1>1, <4>1 DEF TInd, Restorable
      <4> QED BY <1>4, <4>2
    <3>3. CASE row'[e] # row[e]
      <4>1. e = d /\ ~live'[d]
        BY <1>7, <3>3
      <4>2. ~tx'[d]
        BY <1>1, <1>2, <2>1, <3>1, <4>1
      <4>3. \A x \in Dbs : x = d => \E j \in Conns' : connections'[j] = x
        BY <1>4 DEF Opened, Conns
      <4>4. PICK j \in Conns' : connections'[j] = d
        BY <1>2, <4>3
      <4> QED BY <4>2, <4>4
    <3> QED BY <3>2, <3>3
  <2> QED BY <1>1, <1>2, <2>1, <2>2 DEF Restorable
<1>14. CacheInv'
  <2>1. \A e \in Dbs : cache[e] = pend'[e] \/ e \in dropped' \/ e \in lost
    BY <1>1, <1>2, <1>6 DEF TInd, CacheInv, d
  <2> QED BY <1>1, <2>1 DEF CacheInv
<1>15. OwedInv'
  <2>1. \A e \in wrote' : tx'[e] => pend'[e] = last'[e] \/ e \in undone'
    BY <1>4, <1>5, <1>6, <1>9 DEF TInd, OwedInv
  <2>2. \A e \in Dbs : owed'[e] \in {Unknown, row'[e]} \/ e \in leaked'
                      \/ (e \in undone' /\ ~tx'[e])
    <3>1. \A e \in Dbs : owed[e] \in {Unknown, row[e]} \/ e \in leaked
                         \/ (e \in undone /\ ~tx[e])
      BY <1>1 DEF TInd, OwedInv
    <3>2. \A e \in Dbs : e # d => owed'[e] \in {Unknown, row'[e]} \/ e \in leaked'
                                   \/ (e \in undone' /\ ~tx'[e])
      BY <1>4, <1>7, <1>8, <1>9, <3>1
    <3>3. owed'[d] \in {Unknown, row'[d]} \/ d \in leaked'
      <4>1. CASE due = Unknown
        BY <1>8, <4>1
      <4>2. CASE due = v /\ ~live'[d]
        BY <1>7, <1>8, <4>2
      <4>3. CASE due = owed[d] /\ live'[d]
        <5>1. tx'[d] /\ row'[d] = row[d]
          BY <1>4, <1>6, <1>7, <4>3
        <5>2. d \in undone => tx[d]
          BY <1>4, <5>1
        <5> QED BY <1>2, <1>4, <1>8, <3>1, <4>3, <5>1, <5>2
      <4>4. CASE ~intx /\ live'[d]
        <5>1. tx'[d]
          BY <1>4, <1>6, <4>4
        <5>2. Opened(d) => tx[d] /\ d \in leaked
          BY <1>2, <1>4, <4>4, <5>1 DEF TInd, OwedInv
        <5> QED BY <1>4, <4>4, <5>1, <5>2
      <4> QED BY <1>8, <4>1, <4>2, <4>3, <4>4
    <3> QED BY <3>2, <3>3
  <2>3. ASSUME NEW e \in Dbs, tx'[e], e \notin wrote' \/ ~intx
        PROVE  owed'[e] \in {Unknown, pend'[e]} \/ e \in undone'
    <3>1. CASE e = d
      <4>1. ~intx
        BY <1>9, <2>3, <3>1
      <4> QED BY <1>6, <1>8, <3>1, <4>1
    <3>2. CASE e # d
      <4>1. tx[e] /\ (e \notin wrote \/ ~intx)
        BY <1>4, <1>9, <2>3, <3>2
      <4>2. owed[e] \in {Unknown, pend[e]} \/ e \in undone
        BY <4>1 DEF TInd, OwedInv
      <4> QED BY <1>6, <1>8, <1>9, <3>2, <4>2
    <3> QED BY <3>1, <3>2
  <2>4. ~intx => \A e \in Dbs : tx'[e] => e \in leaked'
    BY <1>4 DEF TInd, OwedInv
  <2> QED BY <1>1, <2>1, <2>2, <2>3, <2>4 DEF OwedInv
<1>16. WholeInv'
  <2>1. astray' = {} /\ intx => live'[d] /\ row' = row /\ astray = {}
    BY <1>6, <1>7, <1>9
  <2>2. astray = {} /\ intx => row = before /\ \A e \in wrote : e \notin undone
    BY <1>1 DEF TInd, WholeInv
  <2>3. astray' = {} /\ intx => \A e \in wrote' : e \notin undone'
    BY <1>5, <1>9, <2>1, <2>2
  <2> QED BY <1>1, <1>9, <2>1, <2>2, <2>3 DEF WholeInv
<1> QED BY <1>10, <1>11, <1>12, <1>13, <1>14, <1>15, <1>16 DEF TInd

LEMMA ExecuteStep ==
  ASSUME TInd, Execute \/ AnswerLost
  PROVE  TInd'
<1>1. job[1] \in Dbs /\ job[2] \in Vals /\ owed \in [Dbs -> Vals \cup {Unknown}]
  BY Typed DEF TInd, TypeOK
<1>2. CASE Execute
  <2> DEFINE due == IF ~intx THEN job[2] ELSE IF LiveOf(job[1]) THEN owed[job[1]] ELSE Unknown
  <2>1. pc = "update" /\ Executes(job[1], job[2], due)
    BY <1>2 DEF Execute
  <2>2. due \in Vals \cup {Unknown}
    BY <1>1
  <2> QED BY <2>1, <2>2, ExecutesStep
<1>3. CASE AnswerLost
  BY <1>3, ExecutesStep DEF AnswerLost
<1> QED BY <1>2, <1>3

-----------------------------------------------------------------------------
(* The loops of commit() and roll_back().                                  *)

\* What is passed when the loop goes on, or is at its end.
LEMMA Passing ==
  ASSUME TypeOK, UNCHANGED connections
  PROVE  /\ MoreToDo => k \in Conns /\ connections[k] \in Dbs
         /\ MoreToDo /\ k' = k + 1 =>
              /\ k' \in 1 .. Len(connections') + 1
              /\ \A d \in Dbs : Passed(d)' <=> Passed(d) \/ d = connections[k]
         /\ k' = k => \A d : Passed(d)' <=> Passed(d)
         /\ ~MoreToDo => \A j \in Conns : j < k
         /\ ~MoreToDo => \A d \in Dbs : Opened(d) => Passed(d)
<1>1. /\ k \in 1 .. Len(connections) + 1 /\ Len(connections) \in Nat
      /\ Conns = 1 .. Len(connections) /\ Conns' = Conns /\ connections' = connections
      /\ \A j \in Conns : connections[j] \in Dbs
  BY Typed DEF TypeOK, Conns
<1>2. MoreToDo => k \in Conns /\ connections[k] \in Dbs
  BY <1>1 DEF MoreToDo
<1>3. ASSUME MoreToDo, k' = k + 1
      PROVE  /\ k' \in 1 .. Len(connections') + 1
             /\ \A d \in Dbs : Passed(d)' <=> Passed(d) \/ d = connections[k]
  <2>1. k' \in 1 .. Len(connections') + 1
    BY <1>1, <1>3 DEF MoreToDo
  <2>2. \A j \in Conns : j < k' <=> j < k \/ j = k
    BY <1>1, <1>3
  <2> QED BY <1>1, <1>2, <1>3, <2>1, <2>2 DEF Passed
<1>4. k' = k => \A d : Passed(d)' <=> Passed(d)
  BY <1>1 DEF Passed
<1>5. ~MoreToDo => \A j \in Conns : j < k
  BY <1>1 DEF MoreToDo
<1>6. ~MoreToDo => \A d \in Dbs : Opened(d) => Passed(d)
  BY <1>5 DEF Opened, Passed, Conns
<1> QED BY <1>2, <1>3, <1>4, <1>5, <1>6

LEMMA CommitOneStep ==
  ASSUME TInd, CommitOne
  PROVE  TInd'
<1> DEFINE c == connections[k]
<1>1. /\ pc = "commit" /\ pc' = "commit" /\ MoreToDo /\ tx[c] /\ k' = k + 1
      /\ row' = [row EXCEPT ![c] = pend[c]]
      /\ tx' = [tx EXCEPT ![c] = FALSE] /\ live' = [live EXCEPT ![c] = FALSE]
      /\ leaked' = leaked \ {c}
      /\ UNCHANGED <<job, auto_commit, connections, pend, cache, intx, outcome, before,
                     last, wrote, owed, astray, severed, undone, dropped, lost>>
  BY DEF CommitOne, Redo
<1>2. TypeOK
  BY DEF TInd
<1>3. /\ c \in Dbs /\ k \in Conns /\ k' \in 1 .. Len(connections') + 1
      /\ \A d \in Dbs : Passed(d)' <=> Passed(d) \/ d = c
      /\ Conns' = Conns /\ \A d : Opened(d)' = Opened(d)
  BY <1>1, <1>2, Passing, SameConnections
<1>4. /\ row' \in [Dbs -> Vals] /\ row'[c] = pend[c]
      /\ tx' \in [Dbs -> BOOLEAN] /\ ~tx'[c]
      /\ live' \in [Dbs -> BOOLEAN] /\ ~live'[c]
      /\ \A d \in Dbs : d # c => row'[d] = row[d] /\ tx'[d] = tx[d] /\ live'[d] = live[d]
  BY <1>1, <1>2, <1>3 DEF TypeOK
<1>5. wrote \subseteq Dbs
  BY <1>2 DEF TypeOK
<1>6. TypeOK'
  <2>1. leaked' \in SUBSET Dbs
    BY <1>1, <1>2 DEF TypeOK
  <2> QED BY <1>1, <1>2, <1>3, <1>4, <2>1 DEF TypeOK
<1> HIDE DEF c
<1>7. Connected'
  <2>1. \A d \in Dbs : (live'[d] \/ pend'[d] = row'[d]) /\ (live'[d] => tx'[d])
    BY <1>1, <1>4 DEF TInd, Connected
  <2>2. \A d \in Dbs : tx'[d] \/ d \in wrote' \/ d \in leaked' \/ d \in undone' => Opened(d)'
    BY <1>1, <1>3, <1>4 DEF TInd, Connected
  <2> QED BY <1>1, <2>1, <2>2 DEF Connected
<1>8. PassedDone'
  BY <1>1, <1>3, <1>4 DEF TInd, PassedDone, Looping
<1>9. Restorable'
  <2>1. connections'[k] = c
    BY <1>1 DEF c
  <2>2. \E j \in Conns' : ~tx'[connections'[j]]
    BY <1>3, <1>4, <2>1
  <2>3. outcome' # "rolled back"
    BY <1>1, <1>3 DEF TInd, Restorable
  <2>4. \A d \in Dbs : tx'[d] /\ ~live'[d] => d \in severed'
    BY <1>1, <1>4 DEF TInd, Restorable
  <2> QED BY <1>1, <2>2, <2>3, <2>4 DEF Restorable
<1>10. CacheInv'
  BY <1>1 DEF TInd, CacheInv
<1>11. OwedInv'
  <2>1. \A d \in wrote' : tx'[d] => pend'[d] = last'[d] \/ d \in undone'
    BY <1>1, <1>4, <1>5 DEF TInd, OwedInv
  <2>2. \A d \in wrote' : Passed(d)' => row'[d] = last'[d] \/ d \in undone'
    BY <1>1, <1>3, <1>4, <1>5 DEF TInd, OwedInv
  <2>3. \A d \in Dbs : \/ owed'[d] \in {Unknown, row'[d]}
                       \/ d \in leaked'
                       \/ d \in undone' /\ ~tx'[d]
                       \/ d \in wrote' /\ Passed(d)'
    <3>1. \A d \in Dbs : d # c => \/ owed'[d] \in {Unknown, row'[d]}
                                  \/ d \in leaked'
                                  \/ d \in undone' /\ ~tx'[d]
                                  \/ d \in wrote' /\ Passed(d)'
      BY <1>1, <1>3, <1>4 DEF TInd, OwedInv
    <3>2. c \notin wrote => owed[c] \in {Unknown, pend[c]} \/ c \in undone
      BY <1>1, <1>3 DEF TInd, OwedInv
    <3>3. c \notin wrote => owed'[c] \in {Unknown, row'[c]} \/ (c \in undone' /\ ~tx'[c])
      BY <1>1, <1>4, <3>2
    <3>4. \A d \in Dbs : d = c /\ d \in wrote => d \in wrote' /\ Passed(d)'
      BY <1>1, <1>3
    <3> QED BY <3>1, <3>3, <3>4
  <2>4. \A d \in Dbs : tx'[d] /\ (d \notin wrote' \/ ~intx') =>
                         owed'[d] \in {Unknown, pend'[d]} \/ d \in undone'
    BY <1>1, <1>4 DEF TInd, OwedInv
  <2>5. ~intx' => \A d \in Dbs : tx'[d] => d \in leaked'
    BY <1>1, <1>4 DEF TInd, OwedInv
  <2> QED BY <2>1, <2>2, <2>3, <2>4, <2>5, <1>1 DEF OwedInv
<1>12. WholeInv'
  <2>1. astray = {} /\ ~intx /\ wrote # {} => ~tx[connections[1]] /\ k = 1
    BY <1>1 DEF TInd, WholeInv
  <2>2. ~(astray = {} /\ ~intx /\ wrote # {})
    BY <1>1, <2>1 DEF c
  <2>3. astray = {} => \A d \in wrote : d \notin undone /\ (intx \/ ~tx'[d])
    BY <1>4, <1>5 DEF TInd, WholeInv
  <2> QED BY <1>1, <2>2, <2>3 DEF WholeInv
<1> QED BY <1>6, <1>7, <1>8, <1>9, <1>10, <1>11, <1>12 DEF TInd

\* The transaction on c is undone, and the rows are as they were.
LEMMA Undone ==
  ASSUME TypeOK, Connected, NEW c \in Dbs, Undo(c)
  PROVE  /\ tx' \in [Dbs -> BOOLEAN] /\ ~tx'[c]
         /\ live' \in [Dbs -> BOOLEAN] /\ ~live'[c]
         /\ pend' \in [Dbs -> Vals] /\ pend'[c] = row[c]
         /\ \A d \in Dbs : d # c => /\ pend'[d] = pend[d] /\ tx'[d] = tx[d]
                                   /\ live'[d] = live[d]
         /\ row' = row /\ dropped' \in SUBSET Dbs
         /\ dropped \subseteq dropped' /\ dropped' \subseteq dropped \cup {c}
         /\ c \in dropped' \/ pend' = pend
<1>1. /\ tx \in [Dbs -> BOOLEAN] /\ pend \in [Dbs -> Vals] /\ row \in [Dbs -> Vals]
      /\ dropped \in SUBSET Dbs /\ live \in [Dbs -> BOOLEAN]
  BY DEF TypeOK
<1>2. /\ tx' = [tx EXCEPT ![c] = FALSE] /\ pend' = [pend EXCEPT ![c] = row[c]]
      /\ live' = [live EXCEPT ![c] = FALSE]
      /\ row' = row /\ dropped' = IF live[c] THEN dropped \cup {c} ELSE dropped
  BY DEF Undo
<1>3. ~live[c] => pend' = pend
  BY <1>1, <1>2 DEF Connected
<1> QED BY <1>1, <1>2, <1>3

LEMMA RollBackOneStep ==
  ASSUME TInd, RollBackOne
  PROVE  TInd'
<1> DEFINE c == connections[k]
<1>1. /\ pc = "rollback" /\ pc' = "rollback" /\ MoreToDo /\ tx[c] /\ k' = k + 1
      /\ Undo(c)
      /\ UNCHANGED <<job, auto_commit, connections, cache, intx, outcome,
                     before, last, wrote, owed, astray, leaked, severed, undone, lost>>
  BY DEF RollBackOne
<1>2. TypeOK /\ Connected
  BY DEF TInd
<1>3. /\ c \in Dbs /\ k \in Conns /\ k' \in 1 .. Len(connections') + 1
      /\ \A d \in Dbs : Passed(d)' <=> Passed(d) \/ d = c
      /\ Conns' = Conns /\ \A d : Opened(d)' = Opened(d)
  BY <1>1, <1>2, Passing, SameConnections
<1>4. Conns = 1 .. Len(connections) /\ k \in Nat
      /\ \A j \in Conns : connections[j] \in Dbs
  BY <1>2, Typed
<1>5. connections[k] = c
  OBVIOUS
<1> HIDE DEF c
<1>6. /\ tx' \in [Dbs -> BOOLEAN] /\ ~tx'[c]
      /\ live' \in [Dbs -> BOOLEAN] /\ ~live'[c]
      /\ pend' \in [Dbs -> Vals] /\ pend'[c] = row[c]
      /\ \A d \in Dbs : d # c => /\ pend'[d] = pend[d] /\ tx'[d] = tx[d]
                                /\ live'[d] = live[d]
      /\ row' = row /\ dropped' \in SUBSET Dbs
      /\ dropped \subseteq dropped' /\ dropped' \subseteq dropped \cup {c}
      /\ c \in dropped' \/ pend' = pend
  BY <1>1, <1>2, <1>3, Undone
<1>7. TypeOK'
  BY <1>1, <1>2, <1>3, <1>6 DEF TypeOK
<1>8. Connected'
  <2>1. \A d \in Dbs : (live'[d] \/ pend'[d] = row'[d]) /\ (live'[d] => tx'[d])
    BY <1>6 DEF TInd, Connected
  <2>2. \A d \in Dbs : tx'[d] \/ d \in wrote' \/ d \in leaked' \/ d \in undone' => Opened(d)'
    BY <1>1, <1>3, <1>6 DEF TInd, Connected
  <2> QED BY <1>1, <2>1, <2>2 DEF Connected
<1>9. PassedDone'
  BY <1>1, <1>3, <1>6 DEF TInd, PassedDone, Looping
<1>10. Restorable'
  <2>0. (Differs' <=> Differs) /\ \A d \in Dbs : tx'[d] /\ ~live'[d] => d \in severed'
    BY <1>1, <1>6 DEF Differs, TInd, Restorable
  <2>1. ASSUME Differs
        PROVE  \E j \in Conns' : k' <= j /\ ~tx'[connections'[j]]
    <3>1. PICK j \in Conns : k <= j /\ ~tx[connections[j]]
      BY <1>1, <2>1 DEF TInd, Restorable
    <3>2. j # k
      BY <1>1, <1>5, <3>1
    <3>3. k' <= j
      BY <1>1, <1>4, <3>1, <3>2
    <3>4. ~tx'[connections[j]]
      BY <1>4, <1>6, <3>1
    <3> QED BY <1>1, <1>3, <3>3, <3>4
  <2>2. outcome' # "rolled back"
    BY <1>1, <1>3 DEF TInd, Restorable
  <2> QED BY <1>1, <1>6, <2>0, <2>1, <2>2 DEF Restorable
<1>11. CacheInv'
  BY <1>1, <1>6 DEF TInd, CacheInv
<1>12. OwedInv'
  <2>1. wrote \subseteq Dbs
    BY <1>2 DEF TypeOK
  <2> QED BY <1>1, <1>6, <2>1 DEF TInd, OwedInv
<1>13. WholeInv'
  <2>1. wrote # {} => connections[1] \in Dbs
    BY <1>2, <1>4, FirstOpen
  <2>2. wrote # {} /\ ~tx[connections[1]] => ~tx'[connections'[1]]
    BY <1>1, <1>6, <2>1
  <2>3. \A d \in Dbs : ~tx[d] => ~tx'[d]
    BY <1>6
  <2>4. wrote \subseteq Dbs
    BY <1>2 DEF TypeOK
  <2> QED BY <1>1, <1>6, <2>2, <2>3, <2>4 DEF TInd, WholeInv
<1> QED BY <1>7, <1>8, <1>9, <1>10, <1>11, <1>12, <1>13 DEF TInd

LEMMA LoopStopsStep ==
  ASSUME TInd, LoopStops
  PROVE  TInd'
<1> DEFINE c == connections[k]
<1>1. /\ Looping /\ MoreToDo
      /\ Undo(c) \/ (pc = "commit" /\ tx[c] /\ Redo(c))
      /\ pc' = "idle" /\ intx' = FALSE /\ outcome' = "exception"
      /\ astray' = astray \cup {"stopped"}
      /\ leaked' = leaked \cup {d \in Dbs : tx[d] /\ d # c}
      /\ owed' = [d \in Dbs |-> IF d \in wrote THEN Unknown ELSE owed[d]]
      /\ UNCHANGED <<job, k, auto_commit, connections, cache, before, last, wrote,
                     severed, undone, lost>>
  BY DEF LoopStops, Looping
<1>2. TypeOK /\ Connected
  BY DEF TInd
<1>3. /\ c \in Dbs /\ k \in Conns
      /\ Conns' = Conns /\ \A d : Opened(d)' = Opened(d)
  BY <1>1, <1>2, Passing, SameConnections
<1>4. connections'[k] = c
  BY <1>1
<1> HIDE DEF c
<1>5. /\ tx' \in [Dbs -> BOOLEAN] /\ ~tx'[c]
      /\ live' \in [Dbs -> BOOLEAN] /\ ~live'[c]
      /\ pend' \in [Dbs -> Vals] /\ row' \in [Dbs -> Vals]
      /\ \A d \in Dbs : d # c => /\ pend'[d] = pend[d] /\ tx'[d] = tx[d]
                                /\ row'[d] = row[d] /\ live'[d] = live[d]
      /\ dropped' \in SUBSET Dbs /\ dropped \subseteq dropped'
      /\ pend'[c] = row'[c]
      /\ c \in dropped' \/ pend' = pend
      /\ row'[c] = row[c] \/ (tx[c] /\ row'[c] = pend[c])
  <2>1. CASE Undo(c)
    BY <1>2, <1>3, <2>1, Undone DEF TypeOK
  <2>2. CASE pc = "commit" /\ tx[c] /\ Redo(c)
    BY <1>2, <1>3, <2>2 DEF TypeOK, Redo
  <2> QED BY <1>1, <2>1, <2>2
<1>6. /\ owed' \in [Dbs -> Vals \cup {Unknown}]
      /\ \A d \in Dbs : IF d \in wrote THEN owed'[d] = Unknown ELSE owed'[d] = owed[d]
  BY <1>1, <1>2 DEF TypeOK
<1>7. TypeOK'
  <2>1. leaked' \in SUBSET Dbs /\ astray' \in SUBSET Astray
    BY <1>1, <1>2 DEF TypeOK, Astray
  <2> QED BY <1>1, <1>2, <1>5, <1>6, <2>1 DEF TypeOK
<1>8. Connected'
  <2>1. \A d \in Dbs : (live'[d] \/ pend'[d] = row'[d]) /\ (live'[d] => tx'[d])
    BY <1>5 DEF TInd, Connected
  <2>2. \A d \in Dbs : tx'[d] \/ d \in wrote' \/ d \in leaked' \/ d \in undone' => Opened(d)'
    BY <1>1, <1>3, <1>5 DEF TInd, Connected
  <2> QED BY <1>1, <2>1, <2>2 DEF Connected
<1>9. PassedDone'
  BY <1>1 DEF PassedDone, Looping
<1>10. Restorable'
  <2>1. \E j \in Conns' : ~tx'[connections'[j]]
    BY <1>3, <1>4, <1>5
  <2>2. \A d \in Dbs : tx'[d] /\ ~live'[d] => d \in severed'
    BY <1>1, <1>5 DEF TInd, Restorable
  <2> QED BY <1>1, <2>1, <2>2 DEF Restorable
<1>11. CacheInv'
  <2>1. \A d \in Dbs : cache[d] = pend[d] \/ d \in dropped \/ d \in lost
    BY <1>1 DEF TInd, CacheInv, Looping
  <2>2. \A d \in Dbs : cache[d] = pend'[d] \/ d \in dropped' \/ d \in lost
    BY <1>5, <2>1
  <2> QED BY <1>1, <2>2 DEF CacheInv
<1>12. OwedInv'
  <2>1. wrote \subseteq Dbs
    BY <1>2 DEF TypeOK
  <2>2. \A d \in wrote' : tx'[d] => pend'[d] = last'[d] \/ d \in undone'
    BY <1>1, <1>5, <2>1 DEF TInd, OwedInv
  <2>3. \A d \in Dbs : \/ owed'[d] \in {Unknown, row'[d]} \/ d \in leaked'
                       \/ d \in undone /\ ~tx'[d]
    <3>1. \A d \in Dbs : d \notin wrote =>
            (owed[d] \in {Unknown, row[d]} \/ d \in leaked \/ (d \in undone /\ ~tx[d]))
      BY DEF TInd, OwedInv
    <3>2. \A d \in Dbs : d \notin wrote /\ tx[d] =>
                           owed[d] \in {Unknown, pend[d]} \/ d \in undone
      BY DEF TInd, OwedInv
    <3> QED BY <1>1, <1>3, <1>5, <1>6, <3>1, <3>2
  <2>4. \A d \in Dbs : tx'[d] => owed'[d] \in {Unknown, pend'[d]} \/ d \in undone
    <3>1. \A d \in Dbs : d \notin wrote /\ tx[d] =>
                           owed[d] \in {Unknown, pend[d]} \/ d \in undone
      BY DEF TInd, OwedInv
    <3> QED BY <1>5, <1>6, <3>1
  <2>5. \A d \in Dbs : tx'[d] => d \in leaked'
    BY <1>1, <1>5
  <2> QED BY <1>1, <2>2, <2>3, <2>4, <2>5 DEF OwedInv
<1>13. WholeInv'
  BY <1>1 DEF WholeInv
<1> QED BY <1>7, <1>8, <1>9, <1>10, <1>11, <1>12, <1>13 DEF TInd

\* At the end of the loop every connection has been passed.
LEMMA LoopEnds ==
  ASSUME TInd, Looping, ~MoreToDo
  PROVE  /\ \A d \in Dbs : ~tx[d]
         /\ \A d \in wrote : Passed(d)
         /\ pc = "rollback" => ~Differs
<1>1. TypeOK /\ Connected /\ PassedDone /\ wrote \subseteq Dbs
  BY Typed DEF TInd
<1>2. \A d \in Dbs : tx[d] \/ d \in wrote => Opened(d)
  BY <1>1 DEF Connected
<1>3. \A d \in Dbs : Opened(d) => \E j \in Conns : j < k /\ connections[j] = d
  <2>1. Len(connections) \in Nat /\ k \in 1 .. Len(connections) + 1
        /\ Conns = 1 .. Len(connections)
    BY <1>1, Typed DEF TypeOK
  <2>2. \A j \in Conns : j < k
    BY <2>1 DEF MoreToDo
  <2> QED BY <2>2 DEF Opened, Conns
<1>4. \A d \in Dbs : Opened(d) => Passed(d)
  BY <1>3 DEF Passed
<1>5. \A d \in Dbs : ~tx[d]
  BY <1>1, <1>2, <1>4 DEF PassedDone
<1>6. pc = "rollback" => ~Differs
  <2> SUFFICES ASSUME pc = "rollback", Differs PROVE FALSE
    OBVIOUS
  <2>1. PICK j \in Conns : k <= j
    BY DEF TInd, Restorable
  <2>2. Len(connections) \in Nat /\ k \in Nat /\ Conns = 1 .. Len(connections)
    BY <1>1, Typed
  <2> QED BY <2>1, <2>2 DEF MoreToDo
<1> QED BY <1>1, <1>2, <1>4, <1>5, <1>6

LEMMA CommittedStep ==
  ASSUME TInd, Committed
  PROVE  TInd'
<1>1. /\ pc = "commit" /\ ~MoreToDo /\ pc' = "idle" /\ intx' = FALSE
      /\ outcome' = "committed"
      /\ owed' = [d \in Dbs |-> IF d \in wrote THEN last[d] ELSE owed[d]]
      /\ UNCHANGED <<job, k, auto_commit, connections, tx, live, row, pend, cache, before,
                     last, wrote, astray, leaked, severed, undone, dropped, lost>>
  BY DEF Committed, dbvars
<1>2. (\A d \in Dbs : ~tx[d]) /\ \A d \in wrote : Passed(d)
  BY <1>1, LoopEnds DEF Looping
<1>3. \A d \in wrote : row[d] = last[d] \/ d \in undone
  BY <1>1, <1>2 DEF TInd, OwedInv
<1>4. TypeOK
  BY DEF TInd
<1>5. /\ owed' \in [Dbs -> Vals \cup {Unknown}]
      /\ \A d \in Dbs : owed'[d] = IF d \in wrote THEN last[d] ELSE owed[d]
  BY <1>1, <1>4 DEF TypeOK
<1>6. TypeOK'
  BY <1>1, <1>4, <1>5 DEF TypeOK
<1>7. Connected' /\ PassedDone' /\ CacheInv'
  BY <1>1 DEF TInd, Connected, PassedDone, Looping, CacheInv, Opened
<1>8. Restorable'
  BY <1>1 DEF TInd, Restorable, Differs, Conns
<1>9. OwedInv'
  BY <1>1, <1>2, <1>3, <1>4, <1>5 DEF TInd, OwedInv, TypeOK
<1>10. WholeInv'
  <2>1. wrote # {} => connections[1] \in Dbs
    BY <1>4, FirstOpen, Typed DEF TInd
  <2>2. wrote \subseteq Dbs
    BY <1>4 DEF TypeOK
  <2>3. astray = {} => \A d \in wrote : d \notin undone
    BY DEF TInd, WholeInv
  <2> QED BY <1>1, <1>2, <1>3, <2>1, <2>2, <2>3 DEF WholeInv
<1> QED BY <1>6, <1>7, <1>8, <1>9, <1>10 DEF TInd

LEMMA RolledBackStep ==
  ASSUME TInd, RolledBack
  PROVE  TInd'
<1>1. /\ pc = "rollback" /\ ~MoreToDo /\ pc' = "idle" /\ intx' = FALSE
      /\ outcome' = "rolled back"
      /\ UNCHANGED <<job, k, auto_commit, connections, tx, live, row, pend, cache, before,
                     last, wrote, owed, astray, leaked, severed, undone, dropped, lost>>
  BY DEF RolledBack, dbvars, hist
<1>2. (\A d \in Dbs : ~tx[d]) /\ ~Differs
  BY <1>1, LoopEnds DEF Looping
<1>3. TypeOK'
  BY <1>1 DEF TInd, TypeOK
<1>4. Connected' /\ PassedDone' /\ CacheInv'
  BY <1>1 DEF TInd, Connected, PassedDone, Looping, CacheInv, Opened
<1>5. Restorable'
  BY <1>1, <1>2 DEF TInd, Restorable, Differs
<1>6. OwedInv'
  BY <1>1, <1>2 DEF TInd, OwedInv
<1>7. WholeInv'
  <2>1. wrote # {} => connections[1] \in Dbs
    BY FirstOpen, Typed DEF TInd
  <2>2. wrote \subseteq Dbs
    BY Typed DEF TInd
  <2>3. astray = {} /\ intx => row = before
    BY <1>1 DEF TInd, WholeInv
  <2>4. astray = {} => \/ \A d \in wrote : row[d] = last[d]
                       \/ \A d \in wrote : row[d] = before[d]
    BY <2>3 DEF TInd, WholeInv, TypeOK
  <2>5. astray = {} => \A d \in wrote : d \notin undone
    BY DEF TInd, WholeInv
  <2> QED BY <1>1, <1>2, <2>1, <2>2, <2>4, <2>5 DEF WholeInv
<1> QED BY <1>3, <1>4, <1>5, <1>6, <1>7 DEF TInd

LEMMA ExitStep ==
  ASSUME TInd, Exit
  PROVE  TInd'
<1>1. /\ pc # "ended" /\ pc' = "ended" /\ intx' = FALSE /\ outcome' = "none"
      /\ tx' = [d \in Dbs |-> FALSE] /\ live' = tx' /\ pend' = row
      /\ dropped' = dropped \cup {d \in Dbs : live[d]}
                            \cup (IF pc = "update" THEN {job[1]} ELSE {})
      /\ astray' = IF pc = "commit" THEN astray \cup {"killed"} ELSE astray
      /\ owed' = [d \in Dbs |-> IF pc = "commit" /\ d \in wrote THEN Unknown
                                                                ELSE owed[d]]
      /\ UNCHANGED <<job, k, auto_commit, connections, row, cache, before, last,
                     wrote, leaked, severed, undone, lost>>
  BY DEF Exit
<1>2. TypeOK /\ job[1] \in Dbs /\ wrote \subseteq Dbs
  BY Typed DEF TInd
<1>3. /\ tx' \in [Dbs -> BOOLEAN] /\ \A d \in Dbs : ~tx'[d] /\ ~live'[d]
      /\ live' \in [Dbs -> BOOLEAN]
  BY <1>1
<1>4. /\ owed' \in [Dbs -> Vals \cup {Unknown}]
      /\ \A d \in Dbs : owed'[d] = IF pc = "commit" /\ d \in wrote THEN Unknown
                                                                   ELSE owed[d]
  BY <1>1, <1>2 DEF TypeOK
<1>5. TypeOK'
  <2>1. dropped' \in SUBSET Dbs /\ astray' \in SUBSET Astray
    BY <1>1, <1>2 DEF TypeOK, Astray
  <2> QED BY <1>1, <1>2, <1>3, <1>4, <2>1 DEF TypeOK
<1>6. Connected'
  BY <1>1, <1>3 DEF TInd, Connected, Opened
<1>7. PassedDone'
  BY <1>1 DEF PassedDone, Looping
<1>8. Restorable'
  <2>0. Differs' <=> Differs
    BY <1>1 DEF Differs
  <2>1. Differs => Conns # {}
    BY DEF TInd, Restorable
  <2>2. \A j \in Conns : connections[j] \in Dbs
    BY <1>2, Typed
  <2>3. Differs => \E j \in Conns' : ~tx'[connections'[j]]
    BY <1>1, <1>3, <2>1, <2>2, SameConnections
  <2> QED BY <1>1, <1>3, <2>0, <2>3 DEF Restorable
<1>9. CacheInv'
  <2>1. \A d \in Dbs : \/ cache[d] = pend[d] \/ d \in dropped \/ d \in lost
                       \/ pc = "update" /\ d = job[1]
    BY DEF TInd, CacheInv
  <2>2. \A d \in Dbs : live[d] \/ pend[d] = row[d]
    BY DEF TInd, Connected
  <2>3. \A d \in Dbs : cache[d] = row[d] \/ d \in dropped' \/ d \in lost
    BY <1>1, <2>1, <2>2
  <2> QED BY <1>1, <2>3 DEF CacheInv
<1>10. OwedInv'
  <2>1. \A d \in Dbs : owed'[d] \in {Unknown, row'[d]} \/ d \in leaked' \/ d \in undone
    BY <1>1, <1>4 DEF TInd, OwedInv
  <2> QED BY <1>1, <1>2, <1>3, <2>1 DEF OwedInv
<1>11. WholeInv'
  <2>1. wrote # {} => connections[1] \in Dbs
    BY FirstOpen, Typed DEF TInd
  <2>2. astray' = {} => pc # "commit" /\ astray = {}
    BY <1>1
  <2>3. astray' = {} /\ wrote # {} => \/ \A d \in wrote : row[d] = last[d]
                                      \/ \A d \in wrote : row[d] = before[d]
    BY <1>2, <2>2 DEF TInd, WholeInv, TypeOK
  <2>4. astray' = {} => \A d \in wrote : d \notin undone
    BY <2>2 DEF TInd, WholeInv
  <2> QED BY <1>1, <1>2, <1>3, <2>1, <2>3, <2>4 DEF WholeInv
<1> QED BY <1>5, <1>6, <1>7, <1>8, <1>9, <1>10, <1>11 DEF TInd

-----------------------------------------------------------------------------
LEMMA StepTInd == TInd /\ [Next]_vars => TInd'
<1> SUFFICES ASSUME TInd, [Next]_vars PROVE TInd'
  OBVIOUS
<1>1. CASE UNCHANGED vars
  BY <1>1, StutterTInd
<1>2. CASE begin_transaction
  BY <1>2, BeginStep
<1>3. CASE commit \/ roll_back
  BY <1>3, LoopBegins
<1>4. ASSUME NEW d \in Dbs, Query(d) PROVE TInd'
  BY <1>4, QueryStep
<1>5. ASSUME NEW d \in Dbs, NEW v \in Vals, Save(d, v) PROVE TInd'
  BY <1>5, SaveStep
<1>6. CASE Execute \/ AnswerLost
  BY <1>6, ExecuteStep
<1>7. CASE ExecuteFails
  BY <1>7, ExecuteFailsStep
<1>8. CASE CommitOne
  BY <1>8, CommitOneStep
<1>9. CASE RollBackOne
  BY <1>9, RollBackOneStep
<1>10. CASE LoopStops
  BY <1>10, LoopStopsStep
<1>11. CASE Committed
  BY <1>11, CommittedStep
<1>12. CASE RolledBack
  BY <1>12, RolledBackStep
<1>13. CASE Exit
  BY <1>13, ExitStep
<1> QED BY <1>1, <1>2, <1>3, <1>4, <1>5, <1>6, <1>7, <1>8, <1>9, <1>10, <1>11, <1>12, <1>13
        DEF Next

LEMMA AlwaysTInd == Spec => []TInd
BY InitTInd, StepTInd, PTL DEF Spec

(***************************************************************************)
(* For any number of databases: a script that has ended its transaction    *)
(* left it whole, unless one of the named causes occurred: a write over a  *)
(* connection not in it, one undone by the server, a loop that stopped.    *)
(***************************************************************************)
THEOREM WholeOrNothing == Spec => []AllOrNothing
<1>1. TInd => AllOrNothing
  BY DEF TInd, WholeInv, AllOrNothing, Over
<1> QED BY <1>1, AlwaysTInd, PTL

(***************************************************************************)
(* For any number of databases: roll_back() returns only where every row   *)
(* is what it was at begin_transaction, or behind a connection whose       *)
(* transaction the server had ended.                                       *)
(***************************************************************************)
THEOREM RollBackAlwaysRestores == Spec => []RollBackRestores
<1>1. TInd => RollBackRestores
  BY DEF TInd, Restorable, Differs, RollBackRestores
<1> QED BY <1>1, AlwaysTInd, PTL

(***************************************************************************)
(* For any number of databases: what a script may take for durable is in   *)
(* the row, or its connection is in a transaction the script is not in, or *)
(* the server has undone it.                                               *)
(***************************************************************************)
THEOREM DurableOrLeaked == Spec => []DurableUnlessLeaked
<1>1. TInd => DurableUnlessLeaked
  BY DEF TInd, OwedInv, DurableUnlessLeaked, Over
<1> QED BY <1>1, AlwaysTInd, PTL

(***************************************************************************)
(* For any number of databases: the cache is ahead of the row only during  *)
(* a transaction on it, or after one was undone or an update failed or did *)
(* not reach memcache.                                                     *)
(***************************************************************************)
THEOREM CacheAlwaysHasReason == Spec => []CacheAheadHasReason
<1>1. TInd => CacheAheadHasReason
  BY DEF TInd, CacheInv, Connected, CacheAheadHasReason
<1> QED BY <1>1, AlwaysTInd, PTL
=============================================================================
