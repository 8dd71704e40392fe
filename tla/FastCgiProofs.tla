---------------------------- MODULE FastCgiProofs ----------------------------
(***************************************************************************)
(* What the threads of fastcgi_server.c promise, for any number of threads *)
(* and requests and any buffer: the safety properties of FastCgi, from one *)
(* inductive invariant.                                                    *)
(***************************************************************************)
EXTENDS FastCgi, TLAPS

\* The requests whose answer shows the counts.
Counted == {r \in Reqs : status[r] \in {"counted", "finished"}}

\* Every request in work belongs to one thread.
Owned ==
  /\ \A t \in Threads :
       /\ tpc[t] \in {"read", "count", "print"} =>
            req[t] \in Reqs /\ status[req[t]] = "accepted"
       /\ tpc[t] = "finish" => req[t] \in Reqs /\ status[req[t]] = "counted"
       /\ tpc[t] \in {"lock", "accept", "ended"} => req[t] = 0
       /\ i[t] # 0 => tpc[t] = "print"
  /\ \A t, u \in Threads : t # u /\ req[t] = req[u] => req[t] = 0

\* What has not been accepted has no answer.
Untouched == \A r \in Reqs : status[r] = "waiting" => foreign[r] = {}

\* The answers so far are behind the counts, by one at least for the thread
\* that prints; what it has printed are the counts.
Behind ==
  /\ \A r \in Counted, x \in Threads : printed[r][x] <= counts[x]
  /\ \A t \in Threads : tpc[t] = "print" =>
       /\ \A r \in Counted : printed[r][t] < counts[t]
       /\ \A x \in Threads : x < i[t] => printed[req[t]][x] = counts[x]

FInd ==
  /\ TypeOK /\ Owned /\ Untouched /\ Behind
  /\ AnswersTellOrder /\ ForeignBytesHaveCause

-----------------------------------------------------------------------------
(* The types, and what they say of the numbers compared.                   *)

LEMMA Numbers ==
  ASSUME TypeOK
  PROVE  /\ THREAD_COUNT \in Nat /\ THREAD_COUNT # 0
         /\ \A t \in Threads : t \in Nat /\ t # Free
         /\ \A r \in Reqs : r \in Nat /\ r # 0
         /\ \A r \in Reqs : kind[r][1] \in Nat /\ kind[r][2] \in {-1} \cup Nat
         /\ \A t \in Threads : i[t] \in Threads /\ i[t] \in Nat /\ counts[t] \in Nat
         /\ \A r \in Reqs, t \in Threads : printed[r][t] \in Nat
<1>1. THREAD_COUNT \in Nat /\ THREAD_COUNT # 0 /\ MaxLine \in Nat /\ MaxReqs \in Nat
      /\ Kinds \subseteq (0 .. MaxLine) \X ({-1} \cup Nat)
  BY FastCgiAssumption
<1>2. (\A t \in Threads : t \in Nat /\ t # Free) /\ \A r \in Reqs : r \in Nat /\ r # 0
  BY <1>1 DEF Threads, Reqs, Free
<1>3. \A r \in Reqs : kind[r][1] \in Nat /\ kind[r][2] \in {-1} \cup Nat
  <2> SUFFICES ASSUME NEW r \in Reqs
               PROVE  kind[r][1] \in Nat /\ kind[r][2] \in {-1} \cup Nat
    OBVIOUS
  <2>1. kind[r] \in Kinds \/ kind[r] = <<0, 1>>
    BY DEF TypeOK, Unseen
  <2>2. CASE kind[r] \in Kinds
    <3>1. kind[r] \in (0 .. MaxLine) \X ({-1} \cup Nat)
      BY <1>1, <2>2
    <3> QED BY <1>1, <3>1
  <2>3. CASE kind[r] = <<0, 1>>
    BY <2>3
  <2> QED BY <2>1, <2>2, <2>3
<1>4. \A t \in Threads : i[t] \in Threads /\ i[t] \in Nat /\ counts[t] \in Nat
  BY <1>2 DEF TypeOK
<1>5. \A r \in Reqs, t \in Threads : printed[r][t] \in Nat
  BY DEF TypeOK
<1> QED BY <1>1, <1>2, <1>3, <1>4, <1>5

\* Which numbers are threads.
LEMMA ThreadRange == \A x \in Nat : x \in Threads <=> x < THREAD_COUNT
BY FastCgiAssumption DEF Threads

LEMMA InitFInd == Init => FInd
<1> SUFFICES ASSUME Init PROVE FInd
  OBVIOUS
<1>1. /\ tpc = [t \in Threads |-> "lock"] /\ cause = "none"
      /\ accept_mutex = Free /\ counts_mutex = Free
      /\ counts = [t \in Threads |-> 0]
      /\ req = [t \in Threads |-> 0] /\ i = [t \in Threads |-> 0]
      /\ kind = [r \in Reqs |-> Unseen]
      /\ status = [r \in Reqs |-> "waiting"]
      /\ foreign = [r \in Reqs |-> {}]
      /\ printed = [r \in Reqs |-> [t \in Threads |-> 0]]
  BY DEF Init
<1>2. THREAD_COUNT \in Nat \ {0} /\ MaxReqs \in Nat
  BY FastCgiAssumption
<1>3. 0 \in Threads /\ \A t \in Threads : t # Free
  BY <1>2 DEF Threads, Free
<1>4. input \in [Threads -> [Cells -> {Nul, Junk} \cup Reqs]]
  <2>1. PICK c \in {Nul, Junk} : input = [t \in Threads |-> [x \in Cells |-> c]]
    BY DEF Init
  <2> QED BY <2>1
<1>5. TypeOK
  <2>1. \A t \in Threads : /\ accept_mutex = t <=> tpc[t] = "accept"
                           /\ counts_mutex = t <=> tpc[t] = "print"
                           /\ tpc[t] \in {"read", "count", "print", "finish"} =>
                                req[t] \in Reqs
    BY <1>1, <1>3
  <2>2. req \in [Threads -> 0 .. MaxReqs] /\ i \in [Threads -> Threads]
        /\ counts \in [Threads -> Nat]
    BY <1>1, <1>2, <1>3
  <2>3. /\ tpc \in [Threads -> {"lock", "accept", "read", "count", "print", "finish",
                                "ended"}]
        /\ kind \in [Reqs -> Kinds \cup {Unseen}]
        /\ status \in [Reqs -> {"waiting", "accepted", "counted", "finished"}]
        /\ foreign \in [Reqs -> SUBSET ({Junk} \cup Reqs)]
        /\ printed \in [Reqs -> [Threads -> Nat]]
    BY <1>1
  <2> QED BY <1>1, <1>4, <2>1, <2>2, <2>3 DEF TypeOK
<1>6. Counted = {}
  BY <1>1 DEF Counted
<1>7. Owned /\ Untouched /\ Behind
  BY <1>1, <1>6 DEF Owned, Untouched, Behind
<1>8. AnswersTellOrder /\ ForeignBytesHaveCause
  BY <1>1, <1>6 DEF AnswersTellOrder, ForeignBytesHaveCause, Counted, Running
<1> QED BY <1>5, <1>7, <1>8 DEF FInd

LEMMA StutterFInd ==
  ASSUME FInd, UNCHANGED vars
  PROVE  FInd'
<1>1. UNCHANGED <<tpc, cause, accept_mutex, counts_mutex, counts, req, input, i,
                  kind, status, foreign, printed>>
  BY DEF vars
<1>2. TypeOK' /\ Owned' /\ Untouched'
  BY <1>1 DEF FInd, TypeOK, Owned, Untouched
<1>3. Behind' /\ AnswersTellOrder'
  BY <1>1 DEF FInd, Behind, Counted, AnswersTellOrder
<1>4. ForeignBytesHaveCause'
  BY <1>1 DEF FInd, ForeignBytesHaveCause, Running, Wild
<1> QED BY <1>2, <1>3, <1>4 DEF FInd

\* A thread's step moves that thread only.
LEMMA Moves ==
  ASSUME TypeOK, NEW t \in Threads, NEW where, Goto(t, where),
         where \in {"lock", "accept", "read", "count", "print", "finish", "ended"}
  PROVE  /\ tpc' \in [Threads -> {"lock", "accept", "read", "count", "print", "finish",
                                  "ended"}]
         /\ tpc'[t] = where
         /\ \A u \in Threads : u # t => tpc'[u] = tpc[u]
BY DEF TypeOK, Goto

-----------------------------------------------------------------------------
(* Accepting a request.                                                    *)

LEMMA LockAcceptStep ==
  ASSUME FInd, NEW t \in Threads, LockAccept(t)
  PROVE  FInd'
<1>1. /\ Running /\ tpc[t] = "lock" /\ accept_mutex = Free /\ accept_mutex' = t
      /\ Goto(t, "accept")
      /\ UNCHANGED <<cause, counts_mutex, counts, req, input, i, kind, status,
                     foreign, printed>>
  BY DEF LockAccept, At
<1>2. TypeOK /\ \A u \in Threads : u # Free
  BY Numbers DEF FInd
<1>3. /\ tpc' \in [Threads -> {"lock", "accept", "read", "count", "print", "finish",
                               "ended"}]
      /\ tpc'[t] = "accept"
      /\ \A u \in Threads : u # t => tpc'[u] = tpc[u]
  BY <1>1, <1>2, Moves
<1>4. TypeOK'
  <2>1. \A u \in Threads : /\ accept_mutex' = u <=> tpc'[u] = "accept"
                           /\ counts_mutex' = u <=> tpc'[u] = "print"
                           /\ tpc'[u] \in {"read", "count", "print", "finish"} =>
                                req'[u] \in Reqs
    BY <1>1, <1>2, <1>3 DEF TypeOK
  <2> QED BY <1>1, <1>2, <1>3, <2>1 DEF TypeOK
<1>5. Owned'
  BY <1>1, <1>3 DEF FInd, Owned
<1>6. Untouched' /\ Behind'
  BY <1>1, <1>3 DEF FInd, Untouched, Behind, Counted
<1>7. AnswersTellOrder' /\ ForeignBytesHaveCause'
  BY <1>1 DEF FInd, AnswersTellOrder, ForeignBytesHaveCause, Running, Wild
<1> QED BY <1>4, <1>5, <1>6, <1>7 DEF FInd

LEMMA AcceptStep ==
  ASSUME FInd, NEW t \in Threads, Accept(t)
  PROVE  FInd'
<1>1. /\ Running /\ tpc[t] = "accept" /\ accept_mutex' = Free
      /\ Goto(t, "read")
      /\ UNCHANGED <<cause, counts_mutex, counts, input, i, foreign, printed>>
  BY DEF Accept, At
<1>2. PICK r \in Reqs, d \in Kinds :
        /\ status[r] = "waiting"
        /\ kind' = [kind EXCEPT ![r] = d]
        /\ req' = [req EXCEPT ![t] = r]
        /\ status' = [status EXCEPT ![r] = "accepted"]
  BY DEF Accept
<1>3. TypeOK /\ (\A u \in Threads : u # Free) /\ r # 0 /\ r \in 0 .. MaxReqs
  BY Numbers DEF FInd, Reqs
<1>4. /\ tpc' \in [Threads -> {"lock", "accept", "read", "count", "print", "finish",
                               "ended"}]
      /\ tpc'[t] = "read"
      /\ \A u \in Threads : u # t => tpc'[u] = tpc[u]
  BY <1>1, <1>3, Moves
<1>5. /\ req' \in [Threads -> 0 .. MaxReqs] /\ req'[t] = r
      /\ \A u \in Threads : u # t => req'[u] = req[u]
      /\ status' \in [Reqs -> {"waiting", "accepted", "counted", "finished"}]
      /\ status'[r] = "accepted"
      /\ \A q \in Reqs : q # r => status'[q] = status[q] /\ kind'[q] = kind[q]
      /\ kind' \in [Reqs -> Kinds \cup {Unseen}]
  BY <1>2, <1>3 DEF TypeOK
<1>6. TypeOK'
  <2>1. \A u \in Threads : /\ accept_mutex' = u <=> tpc'[u] = "accept"
                           /\ counts_mutex' = u <=> tpc'[u] = "print"
                           /\ tpc'[u] \in {"read", "count", "print", "finish"} =>
                                req'[u] \in Reqs
    <3>1. accept_mutex = t /\ \A u \in Threads : u # t => tpc[u] # "accept"
      BY <1>1, <1>3 DEF TypeOK
    <3>2. \A u \in Threads : accept_mutex' = u <=> tpc'[u] = "accept"
      BY <1>1, <1>3, <1>4, <3>1
    <3>3. \A u \in Threads : counts_mutex' = u <=> tpc'[u] = "print"
      BY <1>1, <1>3, <1>4 DEF TypeOK
    <3>4. \A u \in Threads : tpc'[u] \in {"read", "count", "print", "finish"} =>
                                req'[u] \in Reqs
      BY <1>3, <1>4, <1>5 DEF TypeOK
    <3> QED BY <3>2, <3>3, <3>4
  <2> QED BY <1>1, <1>3, <1>4, <1>5, <2>1 DEF TypeOK
<1>7. \A u \in Threads : u # t => req[u] # r
  <2>1. \A u \in Threads : tpc[u] \in {"lock", "accept", "read", "count", "print", "finish",
                                       "ended"}
    BY <1>3 DEF TypeOK
  <2> QED BY <1>2, <1>3, <2>1 DEF FInd, Owned
<1>8. Owned'
  <2>1. \A u \in Threads :
       /\ tpc'[u] \in {"read", "count", "print"} =>
            req'[u] \in Reqs /\ status'[req'[u]] = "accepted"
       /\ tpc'[u] = "finish" => req'[u] \in Reqs /\ status'[req'[u]] = "counted"
       /\ tpc'[u] \in {"lock", "accept", "ended"} => req'[u] = 0
       /\ i'[u] # 0 => tpc'[u] = "print"
    BY <1>1, <1>2, <1>4, <1>5, <1>7 DEF FInd, Owned
  <2>2. \A u, w \in Threads : u # w /\ req'[u] = req'[w] => req'[u] = 0
    BY <1>5, <1>7 DEF FInd, Owned
  <2> QED BY <2>1, <2>2 DEF Owned
<1>9. Counted' = Counted
  BY <1>2, <1>5 DEF Counted
<1>10. Untouched'
  BY <1>1, <1>5 DEF FInd, Untouched
<1>11. Behind'
  BY <1>1, <1>4, <1>5, <1>9 DEF FInd, Behind
<1>12. AnswersTellOrder'
  BY <1>1, <1>9 DEF FInd, AnswersTellOrder, Counted
<1>13. ForeignBytesHaveCause'
  <2>1. foreign[r] = {}
    BY <1>2 DEF FInd, Untouched
  <2> QED BY <1>1, <1>5, <2>1 DEF FInd, ForeignBytesHaveCause, Wild
<1> QED BY <1>6, <1>8, <1>10, <1>11, <1>12, <1>13 DEF FInd

LEMMA AcceptFailsStep ==
  ASSUME FInd, NEW t \in Threads, AcceptFails(t)
  PROVE  FInd'
<1>1. /\ Running /\ tpc[t] = "accept" /\ accept_mutex' = Free
      /\ Goto(t, "ended")
      /\ cause' = IF t = Main THEN "main returned" ELSE cause
      /\ UNCHANGED <<counts_mutex, counts, req, input, i, kind, status, foreign, printed>>
  BY DEF AcceptFails, At, Leaves
<1>2. TypeOK /\ \A u \in Threads : u # Free
  BY Numbers DEF FInd
<1>3. /\ tpc' \in [Threads -> {"lock", "accept", "read", "count", "print", "finish",
                               "ended"}]
      /\ tpc'[t] = "ended"
      /\ \A u \in Threads : u # t => tpc'[u] = tpc[u]
  BY <1>1, <1>2, Moves
<1>4. TypeOK'
  <2>1. \A u \in Threads : /\ accept_mutex' = u <=> tpc'[u] = "accept"
                           /\ counts_mutex' = u <=> tpc'[u] = "print"
                           /\ tpc'[u] \in {"read", "count", "print", "finish"} =>
                                req'[u] \in Reqs
    BY <1>1, <1>2, <1>3 DEF TypeOK
  <2> QED BY <1>1, <1>2, <1>3, <2>1 DEF TypeOK
<1>5. Owned'
  BY <1>1, <1>3 DEF FInd, Owned
<1>6. Untouched' /\ Behind'
  BY <1>1, <1>3 DEF FInd, Untouched, Behind, Counted
<1>7. AnswersTellOrder' /\ ForeignBytesHaveCause'
  BY <1>1 DEF FInd, AnswersTellOrder, ForeignBytesHaveCause, Wild
<1> QED BY <1>4, <1>5, <1>6, <1>7 DEF FInd

-----------------------------------------------------------------------------
(* Reading the input.                                                      *)

\* The ways the process is killed.
LEMMA KilledStep ==
  ASSUME FInd, NEW t \in Threads, NoLength(t) \/ WildWrite(t)
  PROVE  FInd'
<1>1. /\ tpc[t] = "read" /\ cause' \in {"no length", "wild write"}
      /\ kind[req[t]][2] = -1 \/ Wild(kind[req[t]][2])
      /\ UNCHANGED <<tpc, accept_mutex, counts_mutex, counts, req, input, i, kind, status,
                     foreign, printed>>
  BY DEF NoLength, WildWrite, At
<1>2. TypeOK' /\ Owned' /\ Untouched'
  BY <1>1 DEF FInd, TypeOK, Owned, Untouched
<1>3. Behind' /\ AnswersTellOrder' /\ ForeignBytesHaveCause'
  BY ZenonT(30), <1>1 DEF FInd, Behind, Counted, AnswersTellOrder, ForeignBytesHaveCause, Wild
<1> QED BY <1>2, <1>3 DEF FInd

\* What is shown after a body of n cells, announced with len: the cells before
\* the terminator are the body's, if the terminator is in the buffer and not
\* beyond the cell after the body.
LEMMA ShownFacts ==
  ASSUME NEW r \in Reqs, NEW n \in Nat, NEW len \in Nat,
         NEW buf \in [Cells -> {Nul, Junk} \cup Reqs]
  PROVE  LET b == Terminate(GetStr(buf, r, n), len)
         IN /\ b \in [Cells -> {Nul, Junk} \cup Reqs]
            /\ Shown(b) \subseteq {Junk} \cup Reqs
            /\ ~Wild(len) /\ len <= n + 1 => Shown(b) \subseteq {r}
<1> DEFINE b == Terminate(GetStr(buf, r, n), len)
<1>1. b \in [Cells -> {Nul, Junk} \cup Reqs]
  BY DEF Terminate, GetStr
<1>2. /\ \A x \in Cells : x = len - 1 => b[x] = Nul
      /\ \A x \in Cells : x # len - 1 /\ x < n => b[x] = r
  BY DEF Terminate, GetStr
<1>3. MaxLine \in Nat /\ Cells = 0 .. MaxLine - 1
  BY FastCgiAssumption DEF Cells
<1> HIDE DEF b
<1>4. Shown(b) \subseteq {Junk} \cup Reqs
  <2> SUFFICES ASSUME NEW c \in Cells, \A e \in 0 .. c : b[e] # Nul
               PROVE  b[c] \in {Junk} \cup Reqs
    BY DEF Shown
  <2>1. c \in 0 .. c
    BY <1>3
  <2> QED BY <1>1, <2>1
<1>5. ASSUME ~Wild(len), len <= n + 1
      PROVE  Shown(b) \subseteq {r}
  <2> SUFFICES ASSUME NEW c \in Cells, \A e \in 0 .. c : b[e] # Nul
               PROVE  b[c] = r
    BY DEF Shown
  <2>1. len - 1 \in Cells
    BY <1>3, <1>5 DEF Wild
  <2>2. c < len - 1
    <3>1. ~(len - 1 \in 0 .. c)
      BY <1>2, <2>1
    <3> QED BY <1>3, <2>1, <3>1
  <2>3. c # len - 1 /\ c < n
    BY <1>3, <1>5, <2>2
  <2> QED BY <1>2, <2>3
<1> QED BY <1>1, <1>4, <1>5 DEF b

LEMMA ReadStep ==
  ASSUME FInd, NEW t \in Threads, Read(t)
  PROVE  FInd'
<1> DEFINE r == req[t]
           b == Terminate(GetStr(input[t], r, kind[r][1]), kind[r][2])
<1>1. /\ Running /\ tpc[t] = "read" /\ kind[r][2] # -1
      /\ input' = [input EXCEPT ![t] = b]
      /\ foreign' = [foreign EXCEPT ![r] = Shown(b) \ {r}]
      /\ Goto(t, "count")
      /\ UNCHANGED <<cause, accept_mutex, counts_mutex, counts, req, i, kind, status,
                     printed>>
  BY DEF Read, At
<1>2. TypeOK
  BY DEF FInd
<1>3. r \in Reqs /\ status[r] = "accepted" /\ input[t] \in [Cells -> {Nul, Junk} \cup Reqs]
  BY <1>1, <1>2 DEF FInd, Owned, TypeOK
<1>4. kind[r][1] \in Nat /\ kind[r][2] \in Nat
  BY <1>1, <1>2, <1>3, Numbers
<1>5. /\ b \in [Cells -> {Nul, Junk} \cup Reqs]
      /\ Shown(b) \subseteq {Junk} \cup Reqs
      /\ ~Wild(kind[r][2]) /\ kind[r][2] <= kind[r][1] + 1 => Shown(b) \subseteq {r}
  BY <1>3, <1>4, ShownFacts
<1> HIDE DEF b, r
<1>6. /\ tpc' \in [Threads -> {"lock", "accept", "read", "count", "print", "finish",
                               "ended"}]
      /\ tpc'[t] = "count"
      /\ \A u \in Threads : u # t => tpc'[u] = tpc[u]
  BY <1>1, <1>2, Moves
<1>7. /\ input' \in [Threads -> [Cells -> {Nul, Junk} \cup Reqs]]
      /\ foreign' \in [Reqs -> SUBSET ({Junk} \cup Reqs)]
      /\ foreign'[r] = Shown(b) \ {r}
      /\ \A q \in Reqs : q # r => foreign'[q] = foreign[q]
  BY <1>1, <1>2, <1>3, <1>5 DEF TypeOK
<1>8. TypeOK'
  <2>1. \A u \in Threads : /\ accept_mutex' = u <=> tpc'[u] = "accept"
                           /\ counts_mutex' = u <=> tpc'[u] = "print"
                           /\ tpc'[u] \in {"read", "count", "print", "finish"} =>
                                req'[u] \in Reqs
    BY <1>1, <1>2, <1>3, <1>6 DEF TypeOK
  <2> QED BY <1>1, <1>2, <1>6, <1>7, <2>1 DEF TypeOK
<1>9. Owned'
  BY <1>1, <1>6 DEF FInd, Owned
<1>10. Untouched'
  BY <1>1, <1>3, <1>7 DEF FInd, Untouched
<1>11. Behind' /\ AnswersTellOrder'
  BY <1>1, <1>6 DEF FInd, Behind, Counted, AnswersTellOrder
<1>12. ForeignBytesHaveCause'
  <2>1. foreign'[r] # {} => Wild(kind[r][2]) \/ kind[r][2] > kind[r][1] + 1
    BY <1>4, <1>5, <1>7
  <2>2. \A q \in Reqs : foreign'[q] # {} => Wild(kind[q][2]) \/ kind[q][2] > kind[q][1] + 1
    BY <1>7, <2>1 DEF FInd, ForeignBytesHaveCause
  <2> QED BY <1>1, <2>2 DEF ForeignBytesHaveCause, Wild
<1> QED BY <1>8, <1>9, <1>10, <1>11, <1>12 DEF FInd

-----------------------------------------------------------------------------
(* Counting and printing the counts.                                       *)

LEMMA CountStep ==
  ASSUME FInd, NEW t \in Threads, Count(t)
  PROVE  FInd'
<1>1. /\ Running /\ tpc[t] = "count" /\ counts_mutex = Free /\ counts_mutex' = t
      /\ counts' = [counts EXCEPT ![t] = counts[t] + 1]
      /\ Goto(t, "print")
      /\ UNCHANGED <<cause, accept_mutex, req, input, i, kind, status, foreign, printed>>
  BY DEF Count, At, CountsFree
<1>2. TypeOK
  BY DEF FInd
<1>3. /\ \A u \in Threads : u # Free /\ u \in Nat /\ counts[u] \in Nat
      /\ \A r \in Reqs, u \in Threads : printed[r][u] \in Nat
  BY <1>2, Numbers
<1>4. /\ tpc' \in [Threads -> {"lock", "accept", "read", "count", "print", "finish",
                               "ended"}]
      /\ tpc'[t] = "print"
      /\ \A u \in Threads : u # t => tpc'[u] = tpc[u]
  BY <1>1, <1>2, Moves
<1>5. /\ counts' \in [Threads -> Nat] /\ counts'[t] = counts[t] + 1
      /\ \A u \in Threads : u # t => counts'[u] = counts[u]
  <2>1. counts[t] \in Nat
    BY <1>3
  <2>2. counts[t] + 1 \in Nat
    BY <2>1
  <2>3. counts \in [Threads -> Nat]
    BY <1>2 DEF TypeOK
  <2> QED BY <1>1, <2>2, <2>3
<1>6. \A u \in Threads : tpc[u] # "print"
  BY <1>1, <1>2, <1>3 DEF TypeOK
<1>7. TypeOK'
  <2>1. \A u \in Threads : /\ accept_mutex' = u <=> tpc'[u] = "accept"
                           /\ counts_mutex' = u <=> tpc'[u] = "print"
                           /\ tpc'[u] \in {"read", "count", "print", "finish"} =>
                                req'[u] \in Reqs
    BY <1>1, <1>2, <1>4, <1>6 DEF TypeOK
  <2> QED BY <1>1, <1>2, <1>4, <1>5, <2>1 DEF TypeOK
<1>8. Owned'
  BY <1>1, <1>4 DEF FInd, Owned
<1>9. Behind'
  <2>1. Counted' = Counted /\ Counted \subseteq Reqs
    BY <1>1 DEF Counted
  <2>2. \A r \in Counted, x \in Threads : printed[r][x] <= counts[x]
    BY DEF FInd, Behind
  <2>3. \A r \in Counted, x \in Threads : printed[r][x] <= counts'[x]
    BY <1>3, <1>5, <2>1, <2>2
  <2>4. \A r \in Counted : printed[r][t] < counts'[t]
    BY <1>3, <1>5, <2>1, <2>2
  <2>5. i[t] = 0
    BY <1>1 DEF FInd, Owned
  <2>6. \A x \in Threads : ~(x < i[t])
    BY <1>3, <2>5
  <2> QED BY <1>1, <1>4, <1>6, <2>1, <2>3, <2>4, <2>6 DEF Behind
<1>10. Untouched' /\ AnswersTellOrder' /\ ForeignBytesHaveCause'
  BY <1>1 DEF FInd, Untouched, AnswersTellOrder, ForeignBytesHaveCause, Wild
<1> QED BY <1>7, <1>8, <1>9, <1>10 DEF FInd

LEMMA FinishStep ==
  ASSUME FInd, NEW t \in Threads, Finish(t)
  PROVE  FInd'
<1> DEFINE r == req[t]
<1>1. /\ Running /\ tpc[t] = "finish"
      /\ req' = [req EXCEPT ![t] = 0]
      /\ status' = [status EXCEPT ![r] = "finished"]
      /\ Goto(t, "lock")
      /\ UNCHANGED <<cause, accept_mutex, counts_mutex, counts, input, i, kind, foreign,
                     printed>>
  BY DEF Finish, At
<1>2. TypeOK
  BY DEF FInd
<1>3. r \in Reqs /\ r # 0 /\ status[r] = "counted"
  BY <1>1, <1>2, Numbers DEF FInd, Owned
<1> HIDE DEF r
<1>4. /\ tpc' \in [Threads -> {"lock", "accept", "read", "count", "print", "finish",
                               "ended"}]
      /\ tpc'[t] = "lock"
      /\ \A u \in Threads : u # t => tpc'[u] = tpc[u]
  BY <1>1, <1>2, Moves
<1>5. /\ req' \in [Threads -> 0 .. MaxReqs] /\ req'[t] = 0
      /\ \A u \in Threads : u # t => req'[u] = req[u]
      /\ status' \in [Reqs -> {"waiting", "accepted", "counted", "finished"}]
      /\ status'[r] = "finished"
      /\ \A q \in Reqs : q # r => status'[q] = status[q]
  <2>1. 0 \in 0 .. MaxReqs
    BY FastCgiAssumption
  <2> QED BY <1>1, <1>2, <1>3, <2>1 DEF TypeOK
<1>6. \A u \in Threads : u # t => req[u] # r
  BY <1>3 DEF FInd, Owned, r
<1>7. TypeOK'
  <2>1. \A u \in Threads : /\ accept_mutex' = u <=> tpc'[u] = "accept"
                           /\ counts_mutex' = u <=> tpc'[u] = "print"
                           /\ tpc'[u] \in {"read", "count", "print", "finish"} =>
                                req'[u] \in Reqs
    <3>1. \A u \in Threads : /\ accept_mutex = u <=> tpc[u] = "accept"
                             /\ counts_mutex = u <=> tpc[u] = "print"
                             /\ tpc[u] \in {"read", "count", "print", "finish"} =>
                                  req[u] \in Reqs
      BY <1>2 DEF TypeOK
    <3> QED BY <1>1, <1>4, <1>5, <3>1
  <2> QED BY <1>1, <1>2, <1>4, <1>5, <2>1 DEF TypeOK
<1>8. Owned'
  <2>1. \A u \in Threads :
       /\ tpc'[u] \in {"read", "count", "print"} =>
            req'[u] \in Reqs /\ status'[req'[u]] = "accepted"
       /\ tpc'[u] = "finish" => req'[u] \in Reqs /\ status'[req'[u]] = "counted"
       /\ tpc'[u] \in {"lock", "accept", "ended"} => req'[u] = 0
       /\ i'[u] # 0 => tpc'[u] = "print"
    BY <1>1, <1>4, <1>5, <1>6 DEF FInd, Owned
  <2>2. \A u, w \in Threads : u # w /\ req'[u] = req'[w] => req'[u] = 0
    BY <1>5 DEF FInd, Owned
  <2> QED BY <2>1, <2>2 DEF Owned
<1>9. Counted' = Counted
  BY <1>3, <1>5 DEF Counted
<1>10. Untouched' /\ Behind'
  BY <1>1, <1>4, <1>5, <1>9 DEF FInd, Untouched, Behind
<1>11. AnswersTellOrder'
  BY <1>1, <1>9 DEF FInd, AnswersTellOrder, Counted
<1>12. ForeignBytesHaveCause'
  BY <1>1 DEF FInd, ForeignBytesHaveCause, Wild
<1> QED BY <1>7, <1>8, <1>10, <1>11, <1>12 DEF FInd

\* A turn of the loop that is not the last.
LEMMA PrintOnStep ==
  ASSUME FInd, NEW t \in Threads, PrintCount(t), i[t] + 1 < THREAD_COUNT
  PROVE  FInd'
<1> DEFINE r == req[t]
<1>1. /\ Running /\ tpc[t] = "print"
      /\ printed' = [printed EXCEPT ![r][i[t]] = counts[i[t]]]
      /\ i' = [i EXCEPT ![t] = i[t] + 1]
      /\ UNCHANGED <<tpc, counts_mutex, status, cause, accept_mutex, counts, req, input,
                     kind, foreign>>
  BY DEF PrintCount, At
<1>2. TypeOK
  BY DEF FInd
<1>3. r \in Reqs /\ status[r] = "accepted" /\ r \notin Counted /\ Counted \subseteq Reqs
  BY <1>1 DEF FInd, Owned, Counted
<1>4. /\ i[t] \in Threads /\ i[t] \in Nat /\ THREAD_COUNT \in Nat
      /\ \A u \in Threads : u \in Nat
      /\ counts \in [Threads -> Nat] /\ printed \in [Reqs -> [Threads -> Nat]]
      /\ i \in [Threads -> Threads]
  BY <1>2, Numbers DEF TypeOK
<1> HIDE DEF r
<1>5. i[t] + 1 \in Threads
  <2>1. i[t] \in Nat
    BY <1>4
  <2>2. i[t] + 1 \in Nat
    BY <2>1
  <2> QED BY <2>2, ThreadRange
<1>6. /\ i' \in [Threads -> Threads] /\ i'[t] = i[t] + 1
      /\ \A u \in Threads : u # t => i'[u] = i[u]
  BY <1>1, <1>4, <1>5
<1>7. /\ printed' \in [Reqs -> [Threads -> Nat]]
      /\ printed'[r][i[t]] = counts[i[t]]
      /\ \A x \in Threads : x # i[t] => printed'[r][x] = printed[r][x]
      /\ \A q \in Reqs : q # r => printed'[q] = printed[q]
  BY <1>1, <1>3, <1>4
<1>8. TypeOK'
  BY <1>1, <1>2, <1>6, <1>7 DEF TypeOK
<1>9. Owned'
  BY <1>1, <1>6 DEF FInd, Owned
<1>10. Counted' = Counted /\ \A q \in Counted : printed'[q] = printed[q]
  BY <1>1, <1>3, <1>7 DEF Counted
<1>11. \A u \in Threads : tpc[u] = "print" => u = t
  BY <1>1, <1>2 DEF TypeOK
<1>12. Behind'
  <2>1. \A q \in Counted', x \in Threads : printed'[q][x] <= counts'[x]
    BY <1>1, <1>10 DEF FInd, Behind
  <2>2. \A q \in Counted' : printed'[q][t] < counts'[t]
    BY <1>1, <1>10 DEF FInd, Behind
  <2>3. ASSUME NEW x \in Threads, x < i'[t]
        PROVE  printed'[req'[t]][x] = counts'[x]
    <3>1. req'[t] = r /\ counts' = counts
      BY <1>1 DEF r
    <3>2. x = i[t] \/ x < i[t]
      BY <1>4, <1>6, <2>3
    <3>3. x < i[t] => printed[r][x] = counts[x] /\ x # i[t]
      BY <1>1, <1>4 DEF FInd, Behind, r
    <3> QED BY <1>7, <3>1, <3>2, <3>3
  <2> QED BY <1>1, <1>11, <2>1, <2>2, <2>3 DEF Behind
<1>13. AnswersTellOrder'
  <2>1. \A q, p \in Counted : q # p =>
          /\ printed'[q] # printed'[p]
          /\ \/ \A u \in Threads : printed'[q][u] <= printed'[p][u]
             \/ \A u \in Threads : printed'[p][u] <= printed'[q][u]
    BY <1>10 DEF FInd, AnswersTellOrder, Counted
  <2> QED BY <1>10, <2>1 DEF AnswersTellOrder, Counted
<1>14. Untouched' /\ ForeignBytesHaveCause'
  BY <1>1 DEF FInd, Untouched, ForeignBytesHaveCause, Wild, Running
<1> QED BY <1>8, <1>9, <1>12, <1>13, <1>14 DEF FInd

\* The last turn: the answer shows the counts as they are.
LEMMA PrintLastStep ==
  ASSUME FInd, NEW t \in Threads, PrintCount(t), ~(i[t] + 1 < THREAD_COUNT)
  PROVE  FInd'
<1> DEFINE r == req[t]
<1>1. /\ Running /\ tpc[t] = "print"
      /\ printed' = [printed EXCEPT ![r][i[t]] = counts[i[t]]]
      /\ counts_mutex' = Free
      /\ status' = [status EXCEPT ![r] = "counted"]
      /\ Goto(t, "finish")
      /\ i' = [i EXCEPT ![t] = 0]
      /\ UNCHANGED <<cause, accept_mutex, counts, req, input, kind, foreign>>
  BY DEF PrintCount, At, UnlockCounts
<1>2. TypeOK
  BY DEF FInd
<1>3. r \in Reqs /\ status[r] = "accepted" /\ r \notin Counted /\ Counted \subseteq Reqs
  BY <1>1 DEF FInd, Owned, Counted
<1>4. /\ i[t] \in Threads /\ i[t] \in Nat /\ THREAD_COUNT \in Nat /\ THREAD_COUNT # 0
      /\ \A u \in Threads : u \in Nat /\ u # Free /\ counts[u] \in Nat
      /\ counts \in [Threads -> Nat] /\ printed \in [Reqs -> [Threads -> Nat]]
      /\ i \in [Threads -> Threads]
  BY <1>2, Numbers DEF TypeOK
<1>5. \A q \in Reqs, u \in Threads : printed[q][u] \in Nat
  BY <1>2, Numbers
<1> HIDE DEF r
<1>6. /\ tpc' \in [Threads -> {"lock", "accept", "read", "count", "print", "finish",
                               "ended"}]
      /\ tpc'[t] = "finish"
      /\ \A u \in Threads : u # t => tpc'[u] = tpc[u]
  BY <1>1, <1>2, Moves
<1>7. /\ i' \in [Threads -> Threads] /\ i'[t] = 0
      /\ \A u \in Threads : u # t => i'[u] = i[u]
  <2>1. 0 \in Threads
    BY <1>4 DEF Threads
  <2> QED BY <1>1, <1>4, <2>1
<1>8. /\ printed' \in [Reqs -> [Threads -> Nat]]
      /\ printed'[r][i[t]] = counts[i[t]]
      /\ \A x \in Threads : x # i[t] => printed'[r][x] = printed[r][x]
      /\ \A q \in Reqs : q # r => printed'[q] = printed[q]
  BY <1>1, <1>3, <1>4
<1>9. \A x \in Threads : printed'[r][x] = counts[x]
  <2>1. \A x \in Threads : x = i[t] \/ x < i[t]
    <3> SUFFICES ASSUME NEW x \in Threads PROVE x = i[t] \/ x < i[t]
      OBVIOUS
    <3>1. x \in Nat /\ i[t] \in Nat /\ THREAD_COUNT \in Nat
      BY <1>4
    <3>2. x < THREAD_COUNT
      BY <3>1, ThreadRange
    <3> QED BY <3>1, <3>2
  <2>2. \A x \in Threads : x < i[t] => printed[r][x] = counts[x] /\ x # i[t]
    BY <1>1, <1>4 DEF FInd, Behind, r
  <2> QED BY <1>8, <2>1, <2>2
<1>10. /\ status' \in [Reqs -> {"waiting", "accepted", "counted", "finished"}]
       /\ status'[r] = "counted"
       /\ \A q \in Reqs : q # r => status'[q] = status[q]
  BY <1>1, <1>2, <1>3 DEF TypeOK
<1>11. Counted' = Counted \cup {r} /\ \A q \in Counted : printed'[q] = printed[q]
  BY <1>3, <1>8, <1>10 DEF Counted
<1>12. \A u \in Threads : tpc[u] = "print" => u = t
  BY <1>1, <1>2 DEF TypeOK
<1>13. \A u \in Threads : u # t => req[u] # r
  BY <1>3, <1>2, Numbers DEF FInd, Owned, r
<1>14. TypeOK'
  <2>1. \A u \in Threads : /\ accept_mutex = u <=> tpc[u] = "accept"
                           /\ counts_mutex = u <=> tpc[u] = "print"
                           /\ tpc[u] \in {"read", "count", "print", "finish"} =>
                                req[u] \in Reqs
    BY <1>2 DEF TypeOK
  <2>2. \A u \in Threads : /\ accept_mutex' = u <=> tpc'[u] = "accept"
                           /\ tpc'[u] \in {"read", "count", "print", "finish"} =>
                                req'[u] \in Reqs
    BY <1>1, <1>6, <2>1
  <2>3. \A u \in Threads : counts_mutex' = u <=> tpc'[u] = "print"
    BY <1>1, <1>4, <1>6, <1>12
  <2> QED BY <1>1, <1>2, <1>6, <1>7, <1>8, <1>10, <2>2, <2>3 DEF TypeOK
<1>15. Owned'
  <2>1. \A u \in Threads :
       /\ tpc'[u] \in {"read", "count", "print"} =>
            req'[u] \in Reqs /\ status'[req'[u]] = "accepted"
       /\ tpc'[u] = "finish" => req'[u] \in Reqs /\ status'[req'[u]] = "counted"
       /\ tpc'[u] \in {"lock", "accept", "ended"} => req'[u] = 0
       /\ i'[u] # 0 => tpc'[u] = "print"
    <3>1. /\ req'[t] = r /\ \A u \in Threads : req'[u] = req[u]
      BY <1>1 DEF r
    <3> QED BY <1>3, <1>6, <1>7, <1>10, <1>13, <3>1 DEF FInd, Owned
  <2>2. \A u, w \in Threads : u # w /\ req'[u] = req'[w] => req'[u] = 0
    BY <1>1 DEF FInd, Owned
  <2> QED BY <2>1, <2>2 DEF Owned
<1>16. \A q \in Counted : /\ \A x \in Threads : printed[q][x] <= counts[x]
                          /\ printed[q][t] < counts[t]
  BY <1>1 DEF FInd, Behind
<1>17. Behind'
  <2>1. \A q \in Counted', x \in Threads : printed'[q][x] <= counts'[x]
    BY <1>1, <1>4, <1>9, <1>11, <1>16
  <2> QED BY <1>6, <1>12, <2>1 DEF Behind
<1>18. AnswersTellOrder'
  <2>1. \A q, p \in Counted : q # p =>
          /\ printed'[q] # printed'[p]
          /\ \/ \A u \in Threads : printed'[q][u] <= printed'[p][u]
             \/ \A u \in Threads : printed'[p][u] <= printed'[q][u]
    BY <1>11 DEF FInd, AnswersTellOrder, Counted
  <2>2. \A q \in Counted : /\ printed'[q] # printed'[r]
                           /\ \A u \in Threads : printed'[q][u] <= printed'[r][u]
    <3> SUFFICES ASSUME NEW q \in Counted
                 PROVE  /\ printed'[q] # printed'[r]
                        /\ \A u \in Threads : printed'[q][u] <= printed'[r][u]
      OBVIOUS
    <3>1. \A u \in Threads : printed'[q][u] <= printed'[r][u]
      BY <1>9, <1>11, <1>16
    <3>2. printed[q][t] \in Nat /\ counts[t] \in Nat /\ printed[q][t] < counts[t]
      BY <1>3, <1>4, <1>5, <1>16
    <3>3. printed'[q][t] # printed'[r][t]
      BY <1>9, <1>11, <3>2
    <3> QED BY <3>1, <3>3
  <2>3. \A q, p \in Counted' : q # p =>
          /\ printed'[q] # printed'[p]
          /\ \/ \A u \in Threads : printed'[q][u] <= printed'[p][u]
             \/ \A u \in Threads : printed'[p][u] <= printed'[q][u]
    BY <1>11, <2>1, <2>2
  <2> QED BY <2>3 DEF AnswersTellOrder, Counted
<1>19. Untouched'
  BY <1>1, <1>10 DEF FInd, Untouched
<1>20. ForeignBytesHaveCause'
  BY <1>1 DEF FInd, ForeignBytesHaveCause, Wild, Running
<1> QED BY <1>14, <1>15, <1>17, <1>18, <1>19, <1>20 DEF FInd

-----------------------------------------------------------------------------
LEMMA StepFInd == FInd /\ [Next]_vars => FInd'
<1> SUFFICES ASSUME FInd, [Next]_vars PROVE FInd'
  OBVIOUS
<1>1. CASE UNCHANGED vars
  BY <1>1, StutterFInd
<1>2. ASSUME NEW t \in Threads, Serve(t) \/ AcceptFails(t)
      PROVE  FInd'
  <2>1. CASE LockAccept(t)
    BY <2>1, LockAcceptStep
  <2>2. CASE Accept(t)
    BY <2>2, AcceptStep
  <2>3. CASE NoLength(t) \/ WildWrite(t)
    BY <2>3, KilledStep
  <2>4. CASE Read(t)
    BY <2>4, ReadStep
  <2>5. CASE Count(t)
    BY <2>5, CountStep
  <2>6. CASE PrintCount(t)
    BY <2>6, PrintOnStep, PrintLastStep
  <2>7. CASE Finish(t)
    BY <2>7, FinishStep
  <2>8. CASE AcceptFails(t)
    BY <2>8, AcceptFailsStep
  <2> QED BY <1>2, <2>1, <2>2, <2>3, <2>4, <2>5, <2>6, <2>7, <2>8 DEF Serve
<1> QED BY <1>1, <1>2 DEF Next

LEMMA AlwaysFInd == Spec => []FInd
BY InitFInd, StepFInd, PTL DEF Spec

(***************************************************************************)
(* For any number of threads and requests: the counts in the answers are   *)
(* moments of one history, no two the same.                                *)
(***************************************************************************)
THEOREM AnswersAlwaysTellOrder == Spec => []AnswersTellOrder
<1>1. FInd => AnswersTellOrder
  BY DEF FInd
<1> QED BY <1>1, AlwaysFInd, PTL

(***************************************************************************)
(* For buffers, bodies and announced lengths of any size: an answer shows  *)
(* other bytes than its request's only for one of the named reasons.       *)
(***************************************************************************)
THEOREM ForeignBytesAlwaysHaveCause == Spec => []ForeignBytesHaveCause
<1>1. FInd => ForeignBytesHaveCause
  BY DEF FInd
<1> QED BY <1>1, AlwaysFInd, PTL
=============================================================================
