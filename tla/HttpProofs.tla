---------------------------- MODULE HttpProofs ----------------------------
(***************************************************************************)
(* Proofs about the HTTP server for any number of agents, any request      *)
(* length, buffer and table sizes, whoever gives up early and whoever cuts *)
(* his request line: what may bring the server down, who is answered,      *)
(* which bytes the parser is given, that its tables agree and that no call *)
(* of the loop waits; then about the request the callbacks build from one  *)
(* bufferful, for any number of callbacks: what it holds, and what becomes *)
(* of the heap.                                                            *)
(***************************************************************************)
EXTENDS HttpSystem, HttpRequest, SequenceTheorems, TLAPS

LEMMA LesserType ==
  \A m, n \in Nat :
    /\ Lesser(m, n) \in Nat
    /\ Lesser(m, n) <= m /\ Lesser(m, n) <= n
    /\ m > 0 /\ n > 0 => Lesser(m, n) > 0
BY DEF Lesser

LEMMA TakeFacts ==
  ASSUME NEW S, NEW s \in Seq(S), NEW n \in 0 .. Len(s)
  PROVE  /\ Take(s, n) \in Seq(S) /\ Len(Take(s, n)) = n
         /\ \A k \in 1 .. n : Take(s, n)[k] = s[k] /\ s[k] \in S
<1>1. \A k \in 1 .. n : s[k] \in S
  BY ElementOfSeq
<1> QED
  BY <1>1, SubSeqProperties, LenProperties DEF Take

LEMMA DropFacts ==
  ASSUME NEW S, NEW s \in Seq(S), NEW n \in 0 .. Len(s)
  PROVE  /\ Drop(s, n) \in Seq(S) /\ Len(Drop(s, n)) = Len(s) - n
         /\ \A k \in 1 .. Len(s) - n : Drop(s, n)[k] = s[n + k]
<1>1. \A k \in n + 1 .. Len(s) : s[k] \in S
  BY ElementOfSeq
<1>2. Len(s) \in Nat
  BY LenProperties
<1>3. /\ Drop(s, n) \in Seq(S) /\ Len(Drop(s, n)) = Len(s) - n
      /\ \A k \in 1 .. Len(s) - n : Drop(s, n)[k] = s[n + 1 + k - 1]
  BY <1>1, <1>2, SubSeqProperties DEF Drop
<1>4. \A k \in 1 .. Len(s) - n : n + 1 + k - 1 = n + k
  BY <1>2
<1> QED
  BY <1>3, <1>4

LEMMA JoinFacts ==
  ASSUME NEW S, NEW a \in Seq(S), NEW b \in Seq(S)
  PROVE  /\ a \o b \in Seq(S) /\ Len(a \o b) = Len(a) + Len(b)
         /\ \A k \in 1 .. Len(a) : (a \o b)[k] = a[k]
<1>1. /\ a \o b \in Seq(S) /\ Len(a \o b) = Len(a) + Len(b)
      /\ \A k \in 1 .. Len(a) + Len(b) :
           (a \o b)[k] = IF k <= Len(a) THEN a[k] ELSE b[k - Len(a)]
  BY ConcatProperties
<1>2. Len(a) \in Nat /\ Len(b) \in Nat
  BY LenProperties
<1>3. \A k \in 1 .. Len(a) : k \in 1 .. Len(a) + Len(b) /\ k <= Len(a)
  BY <1>2
<1> QED
  BY <1>1, <1>3

-----------------------------------------------------------------------------
(***************************************************************************)
(* The inductive invariant.                                                *)
(***************************************************************************)
Cell == Unit \cup {Junk}

Types ==
  /\ listenq \in Seq(Conns)
  /\ cend \in [Conns -> {"none", "open", "closed"}]
  /\ send \in [Conns -> {"none", "open", "closed"}]
  /\ c2s \in [Conns -> Seq(Unit)] /\ s2c \in [Conns -> Seq(Unit)]
  /\ rstS \in [Conns -> BOOLEAN] /\ rstC \in [Conns -> BOOLEAN]
  /\ pc \in {"select", "accept", "scan", "write", "dead"}
  /\ i \in Nat
  /\ client \in [Slots -> {-1} \cup ConnFds] /\ maxi \in {-1} \cup Slots
  /\ allset \in SUBSET ({ListenFd} \cup ConnFds)
  /\ rset \in SUBSET ({ListenFd} \cup ConnFds)
  /\ fdconn \in [ConnFds -> Conns \cup {NoConn}]
  /\ buf \in Seq(Cell) /\ Len(buf) = MaxLine
  /\ upc \in [Conns -> {"connect", "send", "wait", "done"}]
  /\ fate \in [Conns -> {"none", "answered", "no answer", "reset", "gave up"}]
  /\ sent \in [Conns -> Nat] /\ got \in [Conns -> Nat] /\ seen \in [Conns -> Nat]

\* Where the loop is.
Control ==
  /\ pc = "accept" => listenq # <<>> /\ i = 0
  /\ pc \in {"scan", "write"} => i <= maxi
  /\ pc # "dead" => \A f \in allset \ {ListenFd} :
                      \E k \in Slots : client[k] = f /\ k <= maxi

\* A connection waits in the queue once, or has one descriptor.
OnePlace ==
  /\ \A f, g \in ConnFds : fdconn[f] = fdconn[g] /\ fdconn[f] # NoConn => f = g
  /\ \A m, n \in 1 .. Len(listenq) : listenq[m] = listenq[n] => m = n
  /\ \A m \in 1 .. Len(listenq) : \A f \in ConnFds : fdconn[f] # listenq[m]
  /\ \A m \in 1 .. Len(listenq) : send[listenq[m]] = "open"
  /\ \A f \in ConnFds : fdconn[f] # NoConn => send[fdconn[f]] = "open"

\* What the agent has done, and what of its request is still on its way.
Agent(c) ==
  /\ upc[c] = "connect" => cend[c] = "none" /\ send[c] = "none"
  /\ upc[c] \in {"send", "wait"} => cend[c] = "open"
  /\ upc[c] # "done" => fate[c] = "none"
  /\ send[c] = "none" => sent[c] = 0 /\ cend[c] = "none"

Bytes(c) ==
  /\ seen[c] + Len(c2s[c]) <= sent[c]
  /\ ~rstC[c] => seen[c] + Len(c2s[c]) = sent[c]
  /\ \A k \in 1 .. Len(c2s[c]) : c2s[c][k] = <<c, seen[c] + k>>

\* Why the server's end is closed, and what the agent may conclude.
Unread(c) == send[c] = "closed" /\ seen[c] < sent[c]

Endings(c) ==
  /\ ~rstS[c]
  /\ send[c] = "open" /\ cend[c] = "closed" => fate[c] = "gave up"
  /\ upc[c] \in {"send", "wait"} /\ send[c] = "closed" /\ pc # "dead" =>
       s2c[c] # <<>> \/ rstC[c]
  /\ rstC[c] => send[c] = "closed" /\ (pc = "dead" \/ Unread(c))
  /\ fate[c] \in {"no answer", "reset"} => pc = "dead" \/ Unread(c)

\* One answer, when the bufferful has been read, and the end with it.
Answers(c) ==
  /\ send[c] # "closed" => s2c[c] = <<>> /\ got[c] = 0
  /\ seen[c] > 0 => send[c] = "closed" \/ (pc = "write" /\ fdconn[sockfd] = c)
  /\ got[c] + Len(s2c[c]) <= (IF seen[c] > 0 THEN 1 ELSE 0)

\* Somebody left before the server had read anything of his.
Left(c) == fate[c] = "gave up" /\ seen[c] = 0 /\ send[c] = "closed"
Quitter == \E c \in Conns : Left(c)

Serving ==
  pc = "write" =>
    /\ sockfd \in ConnFds
    /\ fdconn[sockfd] # NoConn =>
         client[i] = sockfd /\ seen[fdconn[sockfd]] > 0
    /\ fdconn[sockfd] = NoConn => Quitter

Causes ==
  /\ cause = "writen error" => Quitter
  /\ cause = "bad method" => Quitter \/ \E c \in NoMethod : sent[c] > 0
  /\ cause # "read error"

Each(c) == Agent(c) /\ Bytes(c) /\ Endings(c) /\ Answers(c)

Ind ==
  /\ Types /\ Control /\ OnePlace
  /\ Serving /\ OwnBytesFirst /\ Causes
  /\ \A c \in Conns : Each(c)

LEMMA Filled ==
  \A x \in Cell, n \in Nat :
    [k \in 1 .. n |-> x] \in Seq(Cell) /\ Len([k \in 1 .. n |-> x]) = n
<1> SUFFICES ASSUME NEW x \in Cell, NEW n \in Nat
             PROVE  /\ [k \in 1 .. n |-> x] \in Seq(Cell)
                    /\ Len([k \in 1 .. n |-> x]) = n
  OBVIOUS
<1> DEFINE s == [k \in 1 .. n |-> x]
<1>1. s \in [1 .. n -> Cell]
  OBVIOUS
<1>2. s \in Seq(Cell)
  BY <1>1, SeqDef
<1>3. DOMAIN s = 1 .. n /\ DOMAIN s = 1 .. Len(s) /\ Len(s) \in Nat
  BY <1>2, LenProperties
<1> HIDE DEF s
<1>4. Len(s) = n
  BY <1>3, SMTT(30)
<1> QED
  BY <1>2, <1>4 DEF s

LEMMA InitInd == Init => Ind
<1> SUFFICES ASSUME Init PROVE Ind
  OBVIOUS
<1> USE SocketsAssumption, LoopAssumption, NoConnAssumption
     DEF Init, LoopInit, NetInit
<1>1. buf \in Seq(Cell) /\ Len(buf) = MaxLine
  <2>1. MaxLine \in Nat /\ Junk \in Cell
    BY DEF Cell
  <2>2. buf = [k \in 1 .. MaxLine |-> Junk]
    OBVIOUS
  <2> QED
    BY <2>1, <2>2, Filled, Zenon
<1>2. Types
  BY <1>1, EmptySeq DEF Types, Slots
<1>3. Control /\ Serving /\ OwnBytesFirst /\ Causes
  BY DEF Control, Serving, OwnBytesFirst, Causes
<1>4. OnePlace
  <2>1. Len(listenq) = 0 /\ \A f \in ConnFds : fdconn[f] = NoConn
    BY EmptySeq
  <2> QED
    BY <2>1 DEF OnePlace
<1>5. ASSUME NEW c \in Conns PROVE Each(c)
  <2>1. /\ upc[c] = "connect" /\ cend[c] = "none" /\ send[c] = "none"
        /\ sent[c] = 0 /\ got[c] = 0 /\ seen[c] = 0 /\ fate[c] = "none"
        /\ c2s[c] = <<>> /\ s2c[c] = <<>> /\ Len(<<>>) = 0
        /\ ~rstS[c] /\ ~rstC[c]
    BY EmptySeq
  <2>2. Agent(c) /\ Bytes(c) /\ Answers(c)
    BY <2>1 DEF Agent, Bytes, Answers
  <2>3. Endings(c)
    BY <2>1 DEF Endings
  <2> QED
    BY <2>2, <2>3 DEF Each
<1> QED
  BY <1>2, <1>3, <1>4, <1>5 DEF Ind

-----------------------------------------------------------------------------
(* Where the server is.                                                    *)

LEMMA Numbers ==
  ASSUME Types
  PROVE  /\ maxi \in Int /\ maxi < FD_SETSIZE /\ i \in Nat
         /\ Slots \subseteq Nat /\ ConnFds \subseteq Nat
         /\ ListenFd \notin ConnFds /\ -1 \notin {ListenFd} \cup ConnFds
         /\ FD_SETSIZE \in Nat /\ MaxLine \in Nat /\ MaxLine > 0
<1>1. /\ Slots \subseteq Nat /\ \A k \in Slots : k < FD_SETSIZE
      /\ ConnFds \subseteq Nat /\ ListenFd \notin ConnFds
      /\ ListenFd \in Nat /\ FD_SETSIZE \in Nat \ {0}
  BY LoopAssumption DEF Slots, ConnFds
<1>2. maxi \in {-1} \cup Slots /\ i \in Nat
  BY DEF Types
<1> QED
  BY <1>1, <1>2, SocketsAssumption

LEMMA TypesOf ==
  ASSUME Types, NEW c \in Conns
  PROVE  /\ c2s[c] \in Seq(Unit) /\ Len(c2s[c]) \in Nat
         /\ s2c[c] \in Seq(Unit) /\ Len(s2c[c]) \in Nat
         /\ sent[c] \in Nat /\ got[c] \in Nat /\ seen[c] \in Nat
<1>1. /\ c2s[c] \in Seq(Unit) /\ s2c[c] \in Seq(Unit)
      /\ sent[c] \in Nat /\ got[c] \in Nat /\ seen[c] \in Nat
  BY DEF Types
<1> QED
  BY <1>1, LenProperties

\* The descriptor the scan has come to, and its connection.
LEMMA AtSlot ==
  ASSUME Ind, NEW c \in Conns, Reading(c)
  PROVE  /\ i \in Slots /\ client[i] \in ConnFds /\ fdconn[client[i]] = c
         /\ send[c] = "open" /\ seen[c] = 0 /\ ~rstS[c] /\ ~rstC[c]
         /\ \A f \in ConnFds : fdconn[f] = c => f = client[i]
<1>0. Types /\ Control /\ OnePlace /\ Each(c) /\ pc = "scan" /\ client[i] \in rset
      /\ c # NoConn /\ fdconn[client[i]] = c
  BY NoConnAssumption DEF Ind, Reading
<1>1. i \in Slots
  <2>1. i <= maxi
    BY <1>0 DEF Control
  <2> QED
    BY <1>0, <2>1, Numbers DEF Slots
<1>2. client[i] \in ConnFds
  BY <1>0, <1>1, Numbers DEF Types
<1>3. send[c] = "open" /\ \A f \in ConnFds : fdconn[f] = c => f = client[i]
  BY <1>0, <1>2 DEF OnePlace
<1>4. seen[c] = 0
  <2>1. ~(seen[c] > 0)
    BY <1>0, <1>3 DEF Each, Answers
  <2>2. seen[c] \in Nat
    BY <1>0 DEF Types
  <2> QED
    BY <2>1, <2>2
<1>5. ~rstS[c] /\ ~rstC[c]
  BY <1>0, <1>3, Zenon DEF Each, Endings
<1> QED
  BY <1>0, <1>1, <1>2, <1>3, <1>4, <1>5

\* The connection that is being answered.
LEMMA AtWrite ==
  ASSUME Ind, NEW c \in Conns, pc = "write", fdconn[sockfd] = c
  PROVE  /\ sockfd \in ConnFds /\ client[i] = sockfd /\ i \in Slots
         /\ send[c] = "open" /\ seen[c] > 0 /\ ~rstS[c] /\ ~rstC[c]
         /\ \A f \in ConnFds : fdconn[f] = c => f = sockfd
<1>0. Types /\ Control /\ OnePlace /\ Serving /\ Each(c) /\ c # NoConn
  BY NoConnAssumption DEF Ind
<1>1. sockfd \in ConnFds /\ client[i] = sockfd /\ seen[c] > 0
  BY <1>0 DEF Serving
<1>2. i \in Slots
  <2>1. i <= maxi
    BY <1>0 DEF Control
  <2> QED
    BY <1>0, <2>1, Numbers DEF Slots
<1>3. send[c] = "open" /\ \A f \in ConnFds : fdconn[f] = c => f = sockfd
  BY <1>0, <1>1 DEF OnePlace
<1>4. ~rstS[c] /\ ~rstC[c]
  BY <1>0, <1>3, Zenon DEF Each, Endings
<1> QED
  BY <1>1, <1>2, <1>3, <1>4

LEMMA NoConnAtWrite ==
  ASSUME Ind, pc = "write", fdconn[sockfd] \notin Conns
  PROVE  Quitter
<1>1. sockfd \in ConnFds /\ (fdconn[sockfd] = NoConn => Quitter)
  BY DEF Ind, Serving
<1> QED
  BY <1>1 DEF Ind, Types

-----------------------------------------------------------------------------
(* What a step leaves alone.                                               *)

\* The state of one connection and of its agent.
Own(d) == <<upc[d], cend[d], send[d], sent[d], seen[d], got[d], fate[d],
            c2s[d], s2c[d], rstS[d], rstC[d]>>

LEMMA OwnParts ==
  ASSUME NEW d, UNCHANGED Own(d)
  PROVE  /\ upc'[d] = upc[d] /\ cend'[d] = cend[d] /\ send'[d] = send[d]
         /\ sent'[d] = sent[d] /\ seen'[d] = seen[d] /\ got'[d] = got[d]
         /\ fate'[d] = fate[d] /\ c2s'[d] = c2s[d] /\ s2c'[d] = s2c[d]
         /\ rstS'[d] = rstS[d] /\ rstC'[d] = rstC[d]
BY DEF Own

LEMMA EachFrame ==
  ASSUME NEW d \in Conns, Each(d), UNCHANGED Own(d),
         pc' = "dead" <=> pc = "dead",
         pc = "write" /\ fdconn[sockfd] = d =>
           pc' = "write" /\ fdconn'[sockfd'] = d
  PROVE  Each(d)'
<1>1. /\ upc'[d] = upc[d] /\ cend'[d] = cend[d] /\ send'[d] = send[d]
      /\ sent'[d] = sent[d] /\ seen'[d] = seen[d] /\ got'[d] = got[d]
      /\ fate'[d] = fate[d] /\ c2s'[d] = c2s[d] /\ s2c'[d] = s2c[d]
      /\ rstS'[d] = rstS[d] /\ rstC'[d] = rstC[d]
  BY OwnParts
<1>2. Agent(d)' /\ Bytes(d)'
  BY <1>1 DEF Each, Agent, Bytes
<1>3. Endings(d)'
  BY <1>1, Zenon DEF Each, Endings, Unread
<1>4. Answers(d)'
  BY <1>1 DEF Each, Answers
<1> QED
  BY <1>2, <1>3, <1>4 DEF Each

LEMMA LeftFrame ==
  ASSUME NEW d \in Conns, Left(d), UNCHANGED <<fate[d], seen[d], send[d]>>
  PROVE  Left(d)'
BY DEF Left
-----------------------------------------------------------------------------
(* Reading a bufferful.                                                    *)

\* How much is read, and what is in the buffer afterwards.
LEMMA ReadFacts ==
  ASSUME Ind, NEW c \in Conns, ReadData(c)
  PROVE  \E n \in 1 .. Len(c2s[c]) :
           /\ n <= MaxLine
           /\ c2s' = [c2s EXCEPT ![c] = Drop(@, n)]
           /\ seen' = [seen EXCEPT ![c] = @ + n]
           /\ buf' \in Seq(Cell) /\ Len(buf') = MaxLine
           /\ \A k \in 1 .. n : buf'[k] = <<c, k>>
<1> DEFINE n == Lesser(MaxLine, Len(c2s[c]))
<1>1. /\ c2s[c] \in Seq(Unit) /\ c2s[c] # <<>> /\ buf \in Seq(Cell)
      /\ Len(buf) = MaxLine /\ MaxLine \in Nat /\ MaxLine > 0
  BY Numbers DEF Ind, Types, ReadData
<1>2. Len(c2s[c]) \in Nat /\ Len(c2s[c]) > 0
  BY <1>1, EmptySeq, LenProperties
<1>3. n \in 1 .. Len(c2s[c]) /\ n <= MaxLine /\ n \in Nat
  <2>1. n \in Nat /\ n <= MaxLine /\ n <= Len(c2s[c]) /\ n > 0
    BY <1>1, <1>2, LesserType
  <2> QED
    BY <1>2, <2>1
<1> HIDE DEF n
<1>4. /\ Take(c2s[c], n) \in Seq(Unit) /\ Len(Take(c2s[c], n)) = n
      /\ \A k \in 1 .. n : Take(c2s[c], n)[k] = c2s[c][k]
  <2>1. n \in 0 .. Len(c2s[c])
    BY <1>2, <1>3
  <2> QED
    BY <1>1, <2>1, TakeFacts
<1>5. Drop(buf, n) \in Seq(Cell) /\ Len(Drop(buf, n)) = MaxLine - n
  BY <1>1, <1>3, DropFacts
<1>6. Take(c2s[c], n) \in Seq(Cell)
  <2>1. \A k \in 1 .. Len(Take(c2s[c], n)) : Take(c2s[c], n)[k] \in Cell
    BY <1>4, ElementOfSeq DEF Cell
  <2> QED
    BY <1>4, <2>1, SeqDef, LenProperties
<1>7. buf' = Take(c2s[c], n) \o Drop(buf, n)
  BY DEF ReadData, n
<1>8. /\ buf' \in Seq(Cell) /\ Len(buf') = n + (MaxLine - n)
      /\ \A k \in 1 .. n : buf'[k] = c2s[c][k]
  BY <1>4, <1>5, <1>6, <1>7, JoinFacts
<1>9. \A k \in 1 .. n : c2s[c][k] = <<c, k>>
  <2>1. seen[c] = 0
    BY AtSlot DEF ReadData
  <2>2. \A k \in 1 .. Len(c2s[c]) : c2s[c][k] = <<c, 0 + k>>
    BY <2>1 DEF Ind, Each, Bytes
  <2>3. \A k \in 1 .. n : k \in 1 .. Len(c2s[c]) /\ 0 + k = k
    BY <1>2, <1>3
  <2> QED
    BY <2>2, <2>3
<1>10. n + (MaxLine - n) = MaxLine
  BY <1>1, <1>3
<1>11. /\ c2s' = [c2s EXCEPT ![c] = Drop(@, n)]
       /\ seen' = [seen EXCEPT ![c] = @ + n]
  BY DEF ReadData, n
<1>12. \A k \in 1 .. n : buf'[k] = <<c, k>>
  BY <1>8, <1>9
<1>13. Len(buf') = MaxLine
  BY <1>8, <1>10
<1> QED
  BY <1>3, <1>8, <1>11, <1>12, <1>13

\* strlen stops at the first NUL of what was read, or behind all of it.
LEMMA TextCells ==
  ASSUME NEW b \in Seq(Cell), Len(b) = MaxLine, NEW c, NEW n \in Nat,
         \A k \in 1 .. n : b[k] = <<c, k>>, n <= MaxLine,
         NEW len \in Strlen(b)
  PROVE  /\ len \in Nat /\ Len(Take(b, len)) = len
         /\ \A k \in 1 .. len : Take(b, len)[k] = b[k]
         /\ \A k \in 1 .. n : <<c, k>> \in Nul => len < k
         /\ len < n => <<c, len + 1>> \in Nul
<1>1. /\ len \in 0 .. MaxLine /\ MaxLine \in Nat
      /\ \A k \in 1 .. len : b[k] \notin Nul
      /\ (len < MaxLine => b[len + 1] \in Nul \cup {Junk})
  BY SocketsAssumption DEF Strlen, FirstNul
<1>2. /\ Len(Take(b, len)) = len
      /\ \A k \in 1 .. len : Take(b, len)[k] = b[k]
  BY <1>1, TakeFacts
<1>3. ASSUME NEW k \in 1 .. n, <<c, k>> \in Nul PROVE len < k
  <2>1. b[k] \in Nul /\ k \in Nat /\ k > 0
    BY <1>3
  <2>2. k \notin 1 .. len
    BY <1>1, <2>1
  <2> QED
    BY <1>1, <2>1, <2>2
<1>4. ASSUME len < n PROVE <<c, len + 1>> \in Nul
  <2>1. len + 1 \in 1 .. n /\ len < MaxLine
    BY <1>1, <1>4
  <2>2. <<c, len + 1>> \in Nul \cup {Junk}
    BY <1>1, <2>1
  <2>3. <<c, len + 1>> # Junk
    <3>1. ASSUME <<c, len + 1>> = <<"junk", 0>> PROVE FALSE
      <4>1. len + 1 = 0
        BY <3>1
      <4> QED
        BY <1>1, <4>1
    <3> QED
      BY <3>1 DEF Junk
  <2> QED
    BY <2>2, <2>3
<1>5. len \in Nat
  BY <1>1
<1> QED
  BY <1>2, <1>3, <1>4, <1>5

\* So the text is all that was read up to its first NUL, and without one what
\* follows is behind it.
LEMMA WholeText ==
  ASSUME NEW b \in Seq(Cell), Len(b) = MaxLine, NEW c, NEW n \in Nat,
         \A k \in 1 .. n : b[k] = <<c, k>>, n <= MaxLine,
         NEW len \in Strlen(b), NEW cuts,
         cuts = {k \in 1 .. n : <<c, k>> \in Nul}
  PROVE  /\ \A k \in 1 .. n : (\A j \in cuts : k < j) =>
              k <= Len(Take(b, len)) /\ Take(b, len)[k] = <<c, k>>
         /\ cuts # {} =>
              \A k \in 1 .. Len(Take(b, len)) : Take(b, len)[k] = <<c, k>>
<1>1. /\ len \in Nat /\ Len(Take(b, len)) = len
      /\ \A k \in 1 .. len : Take(b, len)[k] = b[k]
      /\ \A k \in 1 .. n : <<c, k>> \in Nul => len < k
      /\ len < n => <<c, len + 1>> \in Nul
  BY TextCells
<1>2. ASSUME NEW k \in 1 .. n, \A j \in cuts : k < j
      PROVE  k <= Len(Take(b, len)) /\ Take(b, len)[k] = <<c, k>>
  <2>1. k <= len
    <3>1. SUFFICES ASSUME len < k PROVE FALSE
      BY <1>1
    <3>2. len < n /\ len + 1 \in 1 .. n
      BY <1>1, <3>1
    <3>3. len + 1 \in cuts
      BY <1>1, <3>2
    <3> QED
      BY <1>1, <1>2, <3>1, <3>3
  <2>2. k \in 1 .. len
    BY <1>1, <2>1
  <2> QED
    BY <1>1, <2>1, <2>2
<1>3. ASSUME cuts # {}, NEW k \in 1 .. Len(Take(b, len))
      PROVE  Take(b, len)[k] = <<c, k>>
  <2>1. PICK j \in 1 .. n : <<c, j>> \in Nul
    BY <1>3
  <2>2. len < j /\ k \in 1 .. len
    BY <1>1, <2>1
  <2>3. k \in 1 .. n
    BY <1>1, <2>2
  <2> QED
    BY <1>1, <2>2, <2>3
<1> QED
  BY <1>2, <1>3

-----------------------------------------------------------------------------
(* Types.                                                                  *)

LEMMA SrvTypes ==
  ASSUME Ind, SrvNext, UNCHANGED uavars
  PROVE  Types'
<1>0. Types /\ UNCHANGED <<upc, sent, got, fate>>
  BY DEF Ind, uavars
<1>1. CASE Select /\ UNCHANGED httpvars
  <2>1. ReadyFds \in SUBSET ({ListenFd} \cup ConnFds)
    BY <1>0 DEF Types, ReadyFds
  <2> QED
    BY <1>0, <1>1, <2>1 DEF Types, Select, tabvars, netvars, httpvars
<1>2. CASE AcceptClient /\ UNCHANGED httpvars
  <2>1. PICK fd \in FreeFds, k \in FreeSlots :
          /\ fdconn' = [fdconn EXCEPT ![fd] = Head(listenq)]
          /\ client' = [client EXCEPT ![k] = fd]
          /\ allset' = allset \cup {fd}
          /\ maxi' = MaxIndex(k)
    BY <1>2 DEF AcceptClient
  <2>2. Head(listenq) \in Conns /\ Tail(listenq) \in Seq(Conns)
    BY <1>0, <1>2, HeadTailProperties DEF Ind, Control, Types, AcceptClient
  <2>3. fd \in ConnFds /\ k \in Slots
    BY <2>1 DEF FreeFds, FreeSlots
  <2>4. /\ fdconn' \in [ConnFds -> Conns \cup {NoConn}]
        /\ client' \in [Slots -> {-1} \cup ConnFds]
        /\ allset' \in SUBSET ({ListenFd} \cup ConnFds)
        /\ maxi' \in {-1} \cup Slots
    BY <1>0, <2>1, <2>2, <2>3 DEF Types, MaxIndex
  <2> QED
    BY <1>0, <1>2, <2>2, <2>4 DEF Types, AcceptClient, httpvars
<1>3. CASE SkipSlot /\ UNCHANGED httpvars
  <2>1. i' \in Nat
    BY <1>0, <1>3, Numbers DEF SkipSlot
  <2> QED
    BY <1>0, <1>3, <2>1 DEF Types, SkipSlot, tabvars, netvars, httpvars
<1>4. ASSUME NEW why, SrvExit(why), UNCHANGED httpvars PROVE Types'
  BY <1>0, <1>4, EmptySeq DEF Types, SrvExit, httpvars
<1>5. ASSUME NEW c \in Conns, ReadData(c) PROVE Types'
  <2>1. PICK n \in 1 .. Len(c2s[c]) :
           /\ c2s' = [c2s EXCEPT ![c] = Drop(@, n)]
           /\ seen' = [seen EXCEPT ![c] = @ + n]
           /\ buf' \in Seq(Cell) /\ Len(buf') = MaxLine
    BY <1>5, ReadFacts
  <2>2. /\ c2s[c] \in Seq(Unit) /\ n \in 0 .. Len(c2s[c])
        /\ n \in Nat /\ seen[c] + n \in Nat
    BY <1>0, TypesOf
  <2>3. Drop(c2s[c], n) \in Seq(Unit)
    BY <2>2, DropFacts
  <2>4. c2s' \in [Conns -> Seq(Unit)] /\ seen' \in [Conns -> Nat]
    BY <1>0, <2>1, <2>2, <2>3 DEF Types
  <2> QED
    BY <1>0, <1>5, <2>1, <2>4 DEF Types, ReadData, tabvars
<1>6. ASSUME NEW c \in Conns, ReadEof(c) PROVE Types'
  BY <1>0, <1>6 DEF Types, ReadEof, CloseClient
<1>7. ASSUME NEW c \in Conns, Respond(c) PROVE Types'
  <2>1. Answered(c) \in Seq(Unit)
    <3>1. <<c, 1>> \in Unit /\ s2c[c] \in Seq(Unit)
      BY <1>0, TypesOf DEF Unit
    <3> QED
      BY <3>1, AppendProperties DEF Answered
  <2>2. i' \in Nat /\ pc' \in {"select", "scan"}
    BY <1>0, <1>7, Numbers DEF Respond, NextReady
  <2> QED
    BY <1>0, <1>7, <2>1, <2>2 DEF Types, Respond, HangUp, CloseClient, httpvars
<1> QED
  BY <1>1, <1>2, <1>3, <1>4, <1>5, <1>6, <1>7 DEF SrvNext, AcceptError,
     TooManyClients, ReadError, BadMethod, WriteError

LEMMA UaTypes ==
  ASSUME Ind, NEW c \in Conns, UaNext(c) \/ UaGiveUp(c),
         UNCHANGED <<srvvars, httpvars>>
  PROVE  Types'
<1>0. /\ Types
      /\ UNCHANGED <<pc, i, rset, client, maxi, allset, fdconn, buf, seen>>
  BY DEF Ind, srvvars, httpvars
<1>1. CASE UaConnect(c)
  <2>1. listenq' \in Seq(Conns)
    <3>1. listenq \in Seq(Conns) /\ listenq' = Append(listenq, c)
      BY <1>0, <1>1 DEF Types, UaConnect
    <3> QED
      BY <3>1, AppendProperties
  <2> QED
    BY <1>0, <1>1, <2>1 DEF Types, UaConnect
<1>2. CASE UaSend(c)
  <2>1. sent[c] + 1 \in Nat \ {0} /\ sent[c] + 1 \in Nat /\ c2s[c] \in Seq(Unit)
    BY <1>0, TypesOf
  <2>2. Append(c2s[c], <<c, sent[c] + 1>>) \in Seq(Unit)
    <3>1. <<c, sent[c] + 1>> \in Unit
      BY <2>1 DEF Unit
    <3> QED
      BY <2>1, <3>1, AppendProperties
  <2> QED
    BY <1>0, <1>2, <2>1, <2>2 DEF Types, UaSend
<1>3. CASE UaRead(c)
  <2>1. got[c] + Len(s2c[c]) \in Nat /\ <<>> \in Seq(Unit)
    BY <1>0, EmptySeq, TypesOf
  <2> QED
    BY <1>0, <1>3, <2>1 DEF Types, UaRead, UaEnd
<1>4. CASE UaFail(c)
  BY <1>0, <1>4 DEF Types, UaFail, UaEnd
<1>5. CASE UaGiveUp(c)
  BY <1>0, <1>5 DEF Types, UaGiveUp, UaEnd
<1> QED
  BY <1>1, <1>2, <1>3, <1>4, <1>5 DEF UaNext

LEMMA NetTypes ==
  ASSUME Ind, NetNext, UNCHANGED <<srvvars, httpvars, uavars>>
  PROVE  Types'
<1>0. /\ Types /\ UNCHANGED <<upc, sent, got, fate>>
      /\ UNCHANGED <<pc, i, rset, client, maxi, allset, fdconn, buf, seen>>
  BY DEF Ind, srvvars, httpvars, uavars
<1>1. PICK c \in Conns : ResetServer(c) \/ ResetClient(c)
  BY DEF NetNext
<1>2. /\ c2s' = c2s \/ c2s' = [c2s EXCEPT ![c] = <<>>]
      /\ s2c' = s2c \/ s2c' = [s2c EXCEPT ![c] = <<>>]
      /\ rstS' = rstS \/ rstS' = [rstS EXCEPT ![c] = TRUE]
      /\ rstC' = rstC \/ rstC' = [rstC EXCEPT ![c] = TRUE]
      /\ UNCHANGED <<listenq, cend, send>>
  BY <1>1 DEF ResetServer, ResetClient
<1>3. <<>> \in Seq(Unit)
  BY EmptySeq
<1>4. (c2s \in [Conns -> Seq(Unit)])' /\ (s2c \in [Conns -> Seq(Unit)])'
  <2>1. c2s \in [Conns -> Seq(Unit)] /\ s2c \in [Conns -> Seq(Unit)]
    BY <1>0 DEF Types
  <2> QED
    BY ZenonT(30), <1>2, <1>3, <2>1
<1>5. (rstS \in [Conns -> BOOLEAN])' /\ (rstC \in [Conns -> BOOLEAN])'
  BY <1>0, <1>2 DEF Types
<1> QED
  BY <1>0, <1>2, <1>4, <1>5 DEF Types
-----------------------------------------------------------------------------
(* The loop, and the places a connection is in.                            *)

LEMMA SelectControl ==
  ASSUME Ind, Select
  PROVE  Control'
<1>0. /\ Types /\ Control /\ pc = "select" /\ i' = 0 /\ ReadyFds # {}
      /\ UNCHANGED <<listenq, client, maxi, allset>>
      /\ pc' = IF ListenFd \in ReadyFds THEN "accept" ELSE "scan"
  BY DEF Ind, Select, tabvars, netvars
<1>1. pc' = "accept" => listenq' # <<>>
  BY <1>0 DEF ReadyFds, FdReady
<1>2. ASSUME pc' = "scan" PROVE 0 <= maxi
  <2>1. PICK f \in allset : f # ListenFd
    BY <1>0, <1>2 DEF ReadyFds
  <2>2. PICK k \in Slots : client[k] = f /\ k <= maxi
    BY <1>0, <2>1 DEF Control
  <2> QED
    BY <1>0, <2>2, Numbers
<1>3. \A f \in allset' \ {ListenFd} : \E k \in Slots : client'[k] = f /\ k <= maxi'
  BY <1>0 DEF Control
<1> QED
  BY <1>0, <1>1, <1>2, <1>3 DEF Control

LEMMA AcceptControl ==
  ASSUME Ind, AcceptClient
  PROVE  Control'
<1>0. /\ Types /\ Control /\ i = 0 /\ i' = i /\ pc' \in {"select", "scan"}
      /\ pc = "accept"
  BY DEF Ind, Control, AcceptClient
<1>1. PICK fd \in FreeFds, k \in FreeSlots :
        /\ client' = [client EXCEPT ![k] = fd]
        /\ allset' = allset \cup {fd}
        /\ maxi' = MaxIndex(k)
  BY DEF AcceptClient
<1>2. k \in Slots /\ k \in Nat /\ client[k] < 0
  BY <1>0, Numbers DEF FreeSlots
<1>3. maxi' \in Int /\ maxi' >= k /\ maxi' >= maxi
  BY <1>0, <1>1, <1>2, Numbers DEF MaxIndex
<1>4. ASSUME NEW f \in allset' \ {ListenFd}
      PROVE  \E l \in Slots : client'[l] = f /\ l <= maxi'
  <2>1. CASE f = fd
    <3>1. client'[k] = f
      BY <1>0, <1>1, <1>2, <2>1 DEF Types
    <3> QED
      BY <1>2, <1>3, <3>1
  <2>2. CASE f # fd
    <3>1. PICK l \in Slots : client[l] = f /\ l <= maxi
      BY <1>0, <1>1, <1>4, <2>2 DEF Control
    <3>2. f \in ConnFds
      BY <1>0, <1>1, <1>4, <2>2 DEF Types
    <3>3. l # k
      BY <1>0, <1>2, <3>1, <3>2, Numbers
    <3>4. client'[l] = f
      BY <1>0, <1>1, <3>1, <3>3 DEF Types
    <3>5. l <= maxi'
      BY <1>0, <1>3, <3>1, Numbers
    <3> QED
      BY <3>4, <3>5
  <2> QED
    BY <2>1, <2>2
<1>5. i' <= maxi'
  BY <1>0, <1>2, <1>3
<1> QED
  BY <1>0, <1>4, <1>5 DEF Control

\* The bit of a descriptor goes with its slot.
LEMMA CloseControl ==
  ASSUME Ind, NEW c \in Conns, CloseClient(c), pc # "dead", UNCHANGED maxi,
         i \in Slots, pc' # "accept", pc' \in {"scan", "write"} => i' <= maxi
  PROVE  Control'
<1>0. /\ Types /\ Control
      /\ client' = [client EXCEPT ![i] = -1] /\ allset' = allset \ {client[i]}
  BY DEF Ind, CloseClient
<1>1. ASSUME NEW f \in allset' \ {ListenFd}
      PROVE  \E k \in Slots : client'[k] = f /\ k <= maxi'
  <2>1. PICK k \in Slots : client[k] = f /\ k <= maxi
    BY <1>0, <1>1 DEF Control
  <2>2. k # i
    BY <1>0, <1>1, <2>1
  <2>3. client'[k] = f
    BY <1>0, <2>1, <2>2 DEF Types
  <2> QED
    BY <2>1, <2>3
<1> QED
  BY <1>1 DEF Control

LEMMA NextControl ==
  ASSUME Ind, Next
  PROVE  Control'
<1>0. Types /\ Control
  BY DEF Ind
<1>1. ASSUME SrvNext PROVE Control'
  <2>1. CASE Select
    BY <2>1, SelectControl
  <2>2. CASE AcceptClient
    BY <2>2, AcceptControl
  <2>3. CASE SkipSlot
    <3>1. /\ pc = "scan" /\ UNCHANGED <<listenq, client, maxi, allset>>
          /\ i' = i + 1 /\ pc' = IF i + 1 > maxi THEN "select" ELSE "scan"
      BY <2>3 DEF SkipSlot, tabvars, netvars
    <3>2. pc' \in {"select", "scan"} /\ (pc' = "scan" => i' <= maxi)
      BY <1>0, <3>1, Numbers
    <3> QED
      BY <1>0, <3>1, <3>2 DEF Control
  <2>4. ASSUME NEW why, SrvExit(why) PROVE Control'
    BY <2>4 DEF SrvExit, Control
  <2>5. ASSUME NEW c \in Conns, ReadData(c) PROVE Control'
    <3>1. /\ pc = "scan" /\ pc' = "write"
          /\ UNCHANGED <<i, client, maxi, allset>>
      BY <2>5 DEF ReadData, Reading, tabvars
    <3> QED
      BY <1>0, <3>1 DEF Control
  <2>6. ASSUME NEW c \in Conns, ReadEof(c) PROVE Control'
    <3>1. /\ pc = "scan" /\ pc' = "write" /\ UNCHANGED <<i, maxi>>
          /\ CloseClient(c)
      BY <2>6 DEF ReadEof, Reading
    <3>2. i \in Slots /\ i' <= maxi
      BY <1>0, <2>6, <3>1, AtSlot DEF ReadEof, Control
    <3> QED
      BY <3>1, <3>2, CloseControl
  <2>7. ASSUME NEW c \in Conns, Respond(c) PROVE Control'
    <3>1. /\ pc = "write" /\ UNCHANGED maxi /\ CloseClient(c)
          /\ fdconn[sockfd] = c
      BY <2>7 DEF Respond, HangUp
    <3>2. i \in Slots
      BY <3>1, AtWrite
    <3>3. pc' \in {"select", "scan"} /\ (pc' = "scan" => i' <= maxi)
      BY <1>0, <2>7, Numbers DEF Respond, NextReady
    <3> QED
      BY <3>1, <3>2, <3>3, CloseControl
  <2> QED
    BY <1>1, <2>1, <2>2, <2>3, <2>4, <2>5, <2>6, <2>7 DEF SrvNext, AcceptError,
       TooManyClients, ReadError, BadMethod, WriteError
<1>2. ASSUME UNCHANGED srvvars, listenq # <<>> => listenq' # <<>>
      PROVE  Control'
  BY <1>0, <1>2 DEF Control, srvvars
<1>3. ASSUME NEW c \in Conns, UaNext(c) \/ UaGiveUp(c)
      PROVE  listenq # <<>> => listenq' # <<>>
  <2>1. CASE UaConnect(c)
    <3>1. listenq' = Append(listenq, c) /\ listenq \in Seq(Conns)
      BY <1>0, <2>1 DEF UaConnect, Types
    <3> QED
      BY <3>1, AppendProperties
  <2> QED
    BY <1>3, <2>1 DEF UaNext, UaSend, UaRead, UaFail, UaGiveUp, UaEnd
<1>4. NetNext => listenq' = listenq
  BY DEF NetNext, ResetServer, ResetClient
<1> QED
  BY <1>1, <1>2, <1>3, <1>4 DEF Next

LEMMA ConnectPlace ==
  ASSUME Ind, NEW c \in Conns, UaConnect(c), UNCHANGED srvvars
  PROVE  OnePlace'
<1>0. OnePlace /\ Types /\ Agent(c)
  BY DEF Ind, Each
<1>1. /\ listenq \in Seq(Conns) /\ send \in [Conns -> {"none", "open", "closed"}]
      /\ fdconn \in [ConnFds -> Conns \cup {NoConn}]
      /\ send[c] = "none"
  BY <1>0 DEF Types, Agent, UaConnect
<1>2. /\ listenq' = Append(listenq, c) /\ send' = [send EXCEPT ![c] = "open"]
      /\ fdconn' = fdconn
  BY DEF UaConnect, srvvars
<1>3. /\ Len(listenq') = Len(listenq) + 1 /\ Len(listenq) \in Nat
      /\ \A m \in 1 .. Len(listenq) :
           listenq'[m] = listenq[m] /\ listenq[m] \in Conns
      /\ listenq'[Len(listenq) + 1] = c
  BY <1>1, <1>2, AppendProperties, LenProperties, ElementOfSeq
<1>4. \A m \in 1 .. Len(listenq) : listenq[m] # c
  BY <1>0, <1>1 DEF OnePlace
<1>5. \A f \in ConnFds : fdconn[f] # c
  BY <1>0, <1>1, NoConnAssumption DEF OnePlace
<1>6. \A m \in 1 .. Len(listenq') :
        \/ m = Len(listenq) + 1 /\ listenq'[m] = c
        \/ /\ m \in 1 .. Len(listenq)
           /\ listenq'[m] = listenq[m] /\ listenq[m] # c /\ listenq[m] \in Conns
  BY <1>3, <1>4
<1>7. \A m, n \in 1 .. Len(listenq') : listenq'[m] = listenq'[n] => m = n
  BY <1>0, <1>6 DEF OnePlace
<1>8. /\ \A m \in 1 .. Len(listenq') : \A f \in ConnFds : fdconn'[f] # listenq'[m]
      /\ \A m \in 1 .. Len(listenq') : send'[listenq'[m]] = "open"
  BY <1>0, <1>1, <1>2, <1>5, <1>6 DEF OnePlace
<1>9. /\ \A f, g \in ConnFds :
           fdconn'[f] = fdconn'[g] /\ fdconn'[f] # NoConn => f = g
      /\ \A f \in ConnFds : fdconn'[f] # NoConn => send'[fdconn'[f]] = "open"
  BY <1>0, <1>1, <1>2, <1>5 DEF OnePlace
<1> QED
  BY <1>7, <1>8, <1>9 DEF OnePlace

LEMMA AcceptPlace ==
  ASSUME Ind, AcceptClient
  PROVE  OnePlace'
<1>0. OnePlace /\ Types /\ Control
  BY DEF Ind
<1>1. PICK fd \in FreeFds : fdconn' = [fdconn EXCEPT ![fd] = Head(listenq)]
  BY DEF AcceptClient
<1>2. /\ fd \in ConnFds /\ fdconn[fd] = NoConn
      /\ listenq \in Seq(Conns) /\ listenq # <<>>
      /\ fdconn \in [ConnFds -> Conns \cup {NoConn}]
      /\ listenq' = Tail(listenq) /\ send' = send
  BY <1>0 DEF FreeFds, Types, Control, AcceptClient
<1>3. /\ Len(listenq) \in Nat \ {0} /\ Len(listenq') = Len(listenq) - 1
      /\ \A m \in 1 .. Len(listenq') : listenq'[m] = listenq[m + 1]
      /\ Head(listenq) = listenq[1]
  BY <1>2, HeadTailProperties, EmptySeq
<1>4. \A m \in 1 .. Len(listenq') : m \in Nat /\ m + 1 \in 1 .. Len(listenq)
  BY <1>3
<1>5. 1 \in 1 .. Len(listenq)
  BY <1>3
<1>6. \A m, n \in 1 .. Len(listenq') : listenq'[m] = listenq'[n] => m = n
  <2>1. SUFFICES ASSUME NEW m \in 1 .. Len(listenq'), NEW n \in 1 .. Len(listenq'),
                        listenq'[m] = listenq'[n]
                 PROVE  m = n
    OBVIOUS
  <2>2. m + 1 = n + 1
    BY <1>0, <1>3, <1>4, <2>1 DEF OnePlace
  <2> QED
    BY <1>4, <2>2
<1>7. \A m \in 1 .. Len(listenq') :
        /\ listenq'[m] # Head(listenq)
        /\ \A f \in ConnFds : fdconn[f] # listenq'[m]
        /\ send[listenq'[m]] = "open"
  <2>1. SUFFICES ASSUME NEW m \in 1 .. Len(listenq')
                 PROVE  /\ listenq'[m] # Head(listenq)
                        /\ \A f \in ConnFds : fdconn[f] # listenq'[m]
                        /\ send[listenq'[m]] = "open"
    OBVIOUS
  <2>2. m + 1 # 1 /\ m + 1 \in 1 .. Len(listenq)
    BY <1>4
  <2> QED
    BY <1>0, <1>3, <1>5, <2>2 DEF OnePlace
<1>8. \A f \in ConnFds : fdconn[f] # Head(listenq)
  BY <1>0, <1>3, <1>5 DEF OnePlace
<1>9. send[Head(listenq)] = "open"
  BY <1>0, <1>3, <1>5 DEF OnePlace
<1>10. \A f \in ConnFds : fdconn'[f] = IF f = fd THEN Head(listenq) ELSE fdconn[f]
  BY <1>1, <1>2
<1>11. \A f, g \in ConnFds :
         fdconn'[f] = fdconn'[g] /\ fdconn'[f] # NoConn => f = g
  BY <1>0, <1>8, <1>10 DEF OnePlace
<1>12. \A f \in ConnFds : fdconn'[f] # NoConn => send'[fdconn'[f]] = "open"
  BY <1>0, <1>2, <1>9, <1>10 DEF OnePlace
<1>13. \A m \in 1 .. Len(listenq') : \A f \in ConnFds : fdconn'[f] # listenq'[m]
  BY <1>7, <1>10
<1>14. \A m \in 1 .. Len(listenq') : send'[listenq'[m]] = "open"
  BY <1>2, <1>7
<1> QED
  BY <1>6, <1>11, <1>12, <1>13, <1>14 DEF OnePlace

LEMMA ClosePlace ==
  ASSUME Ind, NEW c \in Conns, CloseClient(c), UNCHANGED listenq,
         client[i] \in ConnFds, fdconn[client[i]] = c
  PROVE  OnePlace'
<1>0. OnePlace /\ Types
  BY DEF Ind
<1>2. /\ fdconn' = [fdconn EXCEPT ![client[i]] = NoConn]
      /\ send' = [send EXCEPT ![c] = "closed"] /\ listenq' = listenq
  BY DEF CloseClient
<1>3. /\ fdconn \in [ConnFds -> Conns \cup {NoConn}]
      /\ send \in [Conns -> {"none", "open", "closed"}] /\ listenq \in Seq(Conns)
      /\ c # NoConn
  BY <1>0, NoConnAssumption DEF Types
<1>4. \A f \in ConnFds : IF f = client[i] THEN fdconn'[f] = NoConn
                         ELSE fdconn'[f] = fdconn[f] /\ fdconn[f] # c
  BY <1>0, <1>2, <1>3 DEF OnePlace
<1>5. \A m \in 1 .. Len(listenq) : listenq[m] # c /\ listenq[m] \in Conns
  BY <1>0, <1>3, ElementOfSeq DEF OnePlace
<1>6. \A d \in Conns : d # c => send'[d] = send[d]
  BY <1>2, <1>3
<1>7. \A m \in 1 .. Len(listenq') : send'[listenq'[m]] = "open"
  BY <1>0, <1>2, <1>5, <1>6 DEF OnePlace
<1>8. \A f \in ConnFds : fdconn'[f] # NoConn => send'[fdconn'[f]] = "open"
  BY <1>0, <1>3, <1>4, <1>6 DEF OnePlace
<1>9. \A m \in 1 .. Len(listenq') : \A f \in ConnFds : fdconn'[f] # listenq'[m]
  BY <1>0, <1>2, <1>4, <1>5, NoConnAssumption DEF OnePlace
<1>10. \A f, g \in ConnFds :
         fdconn'[f] = fdconn'[g] /\ fdconn'[f] # NoConn => f = g
  BY <1>0, <1>4 DEF OnePlace
<1> QED
  BY <1>0, <1>2, <1>7, <1>8, <1>9, <1>10 DEF OnePlace

LEMMA NextPlace ==
  ASSUME Ind, Next
  PROVE  OnePlace'
<1>1. ASSUME UNCHANGED <<listenq, fdconn, send>> PROVE OnePlace'
  BY <1>1 DEF Ind, OnePlace
<1>2. ASSUME SrvNext PROVE OnePlace'
  <2>1. CASE AcceptClient
    BY <2>1, AcceptPlace
  <2>2. ASSUME NEW c \in Conns, ReadEof(c) PROVE OnePlace'
    BY <2>2, AtSlot, ClosePlace DEF ReadEof
  <2>3. ASSUME NEW c \in Conns, Respond(c) PROVE OnePlace'
    <3>1. CloseClient(c) /\ UNCHANGED listenq /\ pc = "write" /\ fdconn[sockfd] = c
      BY <2>3 DEF Respond, HangUp
    <3> QED
      BY <3>1, AtWrite, ClosePlace
  <2>4. ASSUME NEW why, SrvExit(why) PROVE OnePlace'
    <3>1. /\ listenq' = <<>> /\ Len(listenq') = 0
          /\ \A f \in ConnFds : fdconn'[f] = NoConn
      BY <2>4, EmptySeq DEF SrvExit
    <3> QED
      BY <3>1 DEF OnePlace
  <2>5. CASE Select \/ SkipSlot \/ \E c \in Conns : ReadData(c)
    <3>1. UNCHANGED <<listenq, fdconn, send>>
      BY <2>5 DEF Select, SkipSlot, ReadData, tabvars, netvars
    <3> QED
      BY <1>1, <3>1
  <2> QED
    BY <1>2, <2>1, <2>2, <2>3, <2>4, <2>5 DEF SrvNext, AcceptError,
       TooManyClients, ReadError, BadMethod, WriteError
<1>3. ASSUME NEW c \in Conns, UaNext(c) \/ UaGiveUp(c), UNCHANGED srvvars
      PROVE  OnePlace'
  <2>1. CASE UaConnect(c)
    BY <1>3, <2>1, ConnectPlace
  <2>2. CASE ~UaConnect(c)
    <3>1. UNCHANGED <<listenq, send>>
      BY <1>3, <2>2 DEF UaNext, UaSend, UaRead, UaFail, UaGiveUp, UaEnd
    <3> QED
      BY <1>1, <1>3, <3>1 DEF srvvars
  <2> QED
    BY <2>1, <2>2
<1>4. ASSUME NetNext, UNCHANGED srvvars PROVE OnePlace'
  <2>1. UNCHANGED <<listenq, send, fdconn>>
    BY <1>4 DEF NetNext, ResetServer, ResetClient, srvvars
  <2> QED
    BY <1>1, <2>1
<1> QED
  BY <1>2, <1>3, <1>4 DEF Next
-----------------------------------------------------------------------------
(* Each connection: the steps of the agents and of the network.            *)

\* A step of one agent or of the network, seen from another connection.
LEMMA OthersFrame ==
  ASSUME Ind, NEW c \in Conns, NEW d \in Conns, d # c, UNCHANGED <<srvvars, httpvars>>,
         \/ UaNext(c) \/ UaGiveUp(c)
         \/ (ResetServer(c) \/ ResetClient(c)) /\ UNCHANGED uavars
  PROVE  Each(d)'
<1>0. /\ Types /\ Each(d)
      /\ UNCHANGED <<pc, fdconn, sockfd, seen>>
  BY DEF Ind, srvvars, httpvars
<1>1. CASE UaNext(c) \/ UaGiveUp(c)
  <2>1. UNCHANGED Own(d)
    <3>1. CASE UaConnect(c)
      BY <1>0, <3>1 DEF Types, UaConnect, Own
    <3>2. CASE UaSend(c)
      BY <1>0, <3>2 DEF Types, UaSend, Own
    <3>3. CASE UaRead(c)
      BY <1>0, <3>3 DEF Types, UaRead, UaEnd, Own
    <3>4. CASE UaFail(c)
      BY <1>0, <3>4 DEF Types, UaFail, UaEnd, Own
    <3>5. CASE UaGiveUp(c)
      BY <1>0, <3>5 DEF Types, UaGiveUp, UaEnd, Own
    <3> QED
      BY <1>1, <3>1, <3>2, <3>3, <3>4, <3>5 DEF UaNext
  <2> QED
    BY <1>0, <2>1, EachFrame
<1>2. CASE (ResetServer(c) \/ ResetClient(c)) /\ UNCHANGED uavars
  <2>1. /\ c2s' = c2s \/ c2s' = [c2s EXCEPT ![c] = <<>>]
        /\ s2c' = s2c \/ s2c' = [s2c EXCEPT ![c] = <<>>]
        /\ rstS' = rstS \/ rstS' = [rstS EXCEPT ![c] = TRUE]
        /\ rstC' = rstC \/ rstC' = [rstC EXCEPT ![c] = TRUE]
        /\ UNCHANGED <<cend, send>>
    BY <1>2 DEF ResetServer, ResetClient
  <2>2. c2s'[d] = c2s[d] /\ s2c'[d] = s2c[d]
    BY <1>0, <2>1 DEF Types
  <2>3. rstS'[d] = rstS[d] /\ rstC'[d] = rstC[d]
    BY <1>0, <2>1, Zenon DEF Types
  <2>4. UNCHANGED <<upc, sent, got, fate>>
    BY <1>2 DEF uavars
  <2>5. UNCHANGED Own(d)
    BY <1>0, <2>1, <2>2, <2>3, <2>4 DEF Own
  <2> QED
    BY <1>0, <2>5, EachFrame
<1> QED
  BY <1>1, <1>2

LEMMA ConnectEach ==
  ASSUME Ind, NEW c \in Conns, UaConnect(c), UNCHANGED <<srvvars, httpvars>>
  PROVE  Each(c)'
<1>0. /\ Types /\ Agent(c) /\ Bytes(c) /\ Endings(c) /\ Answers(c)
      /\ UNCHANGED <<pc, fdconn, sockfd, seen>>
  BY DEF Ind, Each, srvvars, httpvars
<1>1. /\ upc[c] = "connect" /\ cend[c] = "none" /\ send[c] = "none" /\ sent[c] = 0
      /\ pc # "dead"
  BY <1>0 DEF Agent, UaConnect
<1>2. /\ upc'[c] = "send" /\ cend'[c] = "open" /\ send'[c] = "open"
      /\ UNCHANGED <<c2s, s2c, rstS, rstC, sent, got, fate>>
  BY <1>0 DEF Types, UaConnect
<1>3. ~rstC[c] /\ ~rstS[c]
  BY <1>0, <1>1, Zenon DEF Endings
<1>4. fate[c] = "none"
  BY <1>0, <1>1 DEF Agent
<1>5. Agent(c)'
  BY <1>0, <1>2, <1>4 DEF Agent
<1>6. Bytes(c)'
  BY <1>0, <1>2 DEF Bytes
<1>7. Endings(c)'
  BY <1>2, <1>3, <1>4 DEF Endings
<1>8. Answers(c)'
  <2>1. ~(seen[c] > 0)
    BY <1>0, <1>1, TypesOf DEF Bytes
  <2> QED
    BY <1>0, <1>1, <1>2, <2>1 DEF Answers
<1> QED
  BY <1>5, <1>6, <1>7, <1>8 DEF Each
LEMMA SendEach ==
  ASSUME Ind, NEW c \in Conns, UaSend(c), UNCHANGED <<srvvars, httpvars>>
  PROVE  Each(c)'
<1>0. /\ Types /\ Agent(c) /\ Bytes(c) /\ Endings(c) /\ Answers(c)
      /\ UNCHANGED <<pc, fdconn, sockfd, seen>>
  BY DEF Ind, Each, srvvars, httpvars
<1>1. /\ upc[c] = "send" /\ ~rstC[c] /\ cend[c] = "open" /\ fate[c] = "none"
      /\ send[c] # "none"
  BY <1>0 DEF Agent, UaSend
<1>2. /\ upc'[c] \in {"send", "wait"} /\ sent'[c] = sent[c] + 1
      /\ c2s'[c] = Append(c2s[c], <<c, sent[c] + 1>>)
      /\ UNCHANGED <<cend, send, s2c, rstS, rstC, got, fate>>
  BY <1>0 DEF Types, UaSend
<1>3. /\ c2s[c] \in Seq(Unit) /\ Len(c2s[c]) \in Nat
      /\ sent[c] \in Nat /\ seen[c] \in Nat
      /\ seen[c] + Len(c2s[c]) = sent[c]
  BY <1>0, <1>1, TypesOf DEF Bytes
<1>4. Agent(c)'
  BY <1>1, <1>2 DEF Agent
<1>5. Bytes(c)'
  <2>1. <<c, sent[c] + 1>> \in Unit
    BY <1>3 DEF Unit
  <2>2. /\ Len(c2s'[c]) = Len(c2s[c]) + 1
        /\ \A k \in 1 .. Len(c2s[c]) : c2s'[c][k] = c2s[c][k]
        /\ c2s'[c][Len(c2s[c]) + 1] = <<c, sent[c] + 1>>
    BY <1>2, <1>3, <2>1, AppendProperties
  <2>3. seen[c] + (Len(c2s[c]) + 1) = sent[c] + 1
    BY <1>3
  <2>4. ASSUME NEW k \in 1 .. Len(c2s'[c])
        PROVE  c2s'[c][k] = <<c, seen[c] + k>>
    <3>1. k \in 1 .. Len(c2s[c]) \/ k = Len(c2s[c]) + 1
      BY <1>3, <2>2
    <3>2. CASE k \in 1 .. Len(c2s[c])
      BY <1>0, <2>2, <3>2 DEF Bytes
    <3>3. CASE k = Len(c2s[c]) + 1
      BY <2>2, <2>3, <3>3
    <3> QED
      BY <3>1, <3>2, <3>3
  <2>5. seen'[c] + Len(c2s'[c]) = sent'[c] /\ seen'[c] = seen[c]
    BY <1>0, <1>2, <2>2, <2>3
  <2>6. seen'[c] + Len(c2s'[c]) <= sent'[c]
    <3>1. sent'[c] \in Nat
      BY <1>2, <1>3
    <3> QED
      BY <2>5, <3>1
  <2> QED
    BY <2>4, <2>5, <2>6 DEF Bytes
<1>6. Endings(c)'
  BY <1>0, <1>1, <1>2 DEF Endings
<1>7. Answers(c)'
  BY <1>0, <1>2 DEF Answers
<1> QED
  BY <1>4, <1>5, <1>6, <1>7 DEF Each

LEMMA NothingMore == \A m, n \in Nat : (m + n) + 0 = m + n
OBVIOUS

\* The agent ends, having taken what it has been sent or not.
LEMMA EndEach ==
  ASSUME Ind, NEW c \in Conns, UNCHANGED <<srvvars, httpvars>>,
         NEW how \in {"answered", "no answer", "reset", "gave up"},
         UaEnd(c, how), upc[c] # "done",
         send[c] = "open" /\ upc[c] # "connect" => how = "gave up",
         how \in {"no answer", "reset"} => pc = "dead" \/ Unread(c),
         \/ UNCHANGED <<s2c, got>>
         \/ /\ s2c[c] # <<>> /\ s2c' = [s2c EXCEPT ![c] = <<>>]
            /\ got' = [got EXCEPT ![c] = @ + Len(s2c[c])]
  PROVE  Each(c)'
<1>0. /\ Types /\ Agent(c) /\ Bytes(c) /\ Endings(c) /\ Answers(c)
      /\ UNCHANGED <<pc, fdconn, sockfd, seen>>
  BY DEF Ind, Each, srvvars, httpvars
<1>1. /\ upc'[c] = "done" /\ fate'[c] = how
      /\ cend'[c] = (IF cend[c] = "none" THEN "none" ELSE "closed")
      /\ UNCHANGED <<send, c2s, rstS, rstC, sent>>
  BY <1>0 DEF Types, UaEnd
<1>2. Agent(c)'
  BY <1>0, <1>1 DEF Agent
<1>3. Bytes(c)'
  BY <1>0, <1>1 DEF Bytes
<1>4. send[c] = "open" /\ cend'[c] = "closed" => how = "gave up"
  BY <1>0, <1>1 DEF Agent
<1>5. Endings(c)'
  BY <1>0, <1>1, <1>4 DEF Endings, Unread
<1>6. Answers(c)'
  <2>1. CASE UNCHANGED <<s2c, got>>
    BY <1>0, <1>1, <2>1 DEF Answers
  <2>2. CASE /\ s2c[c] # <<>> /\ s2c' = [s2c EXCEPT ![c] = <<>>]
             /\ got' = [got EXCEPT ![c] = @ + Len(s2c[c])]
    <3>1. s2c'[c] = <<>> /\ got'[c] = got[c] + Len(s2c[c]) /\ Len(<<>>) = 0
      BY <1>0, <2>2, EmptySeq DEF Types
    <3>2. send[c] = "closed"
      BY <1>0, <2>2 DEF Answers
    <3>3. got'[c] + Len(s2c'[c]) = got[c] + Len(s2c[c])
      <4>1. got[c] \in Nat /\ Len(s2c[c]) \in Nat
        BY <1>0, TypesOf
      <4>2. Len(s2c'[c]) = 0
        BY <3>1
      <4>3. got'[c] = got[c] + Len(s2c[c])
        BY <3>1
      <4> QED
        BY <4>1, <4>2, <4>3, NothingMore, Zenon
    <3> QED
      BY <1>0, <1>1, <3>2, <3>3 DEF Answers
  <2> QED
    BY <2>1, <2>2
<1> QED
  BY <1>2, <1>3, <1>5, <1>6 DEF Each

LEMMA UaEach ==
  ASSUME Ind, NEW c \in Conns, UaNext(c) \/ UaGiveUp(c),
         UNCHANGED <<srvvars, httpvars>>
  PROVE  Each(c)'
<1>0. Types /\ Agent(c) /\ Endings(c) /\ Answers(c)
  BY DEF Ind, Each
<1>1. CASE UaConnect(c)
  BY <1>1, ConnectEach
<1>2. CASE UaSend(c)
  BY <1>2, SendEach
<1>3. CASE UaRead(c)
  <2>1. send[c] = "closed" /\ upc[c] = "wait"
    BY <1>0, <1>3 DEF UaRead, Answers
  <2> QED
    BY <1>3, <2>1, EndEach DEF UaRead
<1>4. CASE UaFail(c)
  <2> DEFINE how == IF rstC[c] THEN "reset" ELSE "no answer"
  <2>1. how \in {"no answer", "reset"}
    OBVIOUS
  <2>2. rstC[c] => send[c] = "closed" /\ (pc = "dead" \/ Unread(c))
    BY <1>0, Zenon DEF Endings
  <2>3. pc = "dead" \/ Unread(c)
    BY <1>0, <1>4, <2>2 DEF UaFail, CliReadable, Endings
  <2>4. /\ upc[c] # "done"
        /\ upc[c] = "connect" => send[c] = "none"
        /\ upc[c] # "connect" => send[c] = "closed"
    BY <1>0, <1>4, <2>2 DEF UaFail, CliReadable, Agent
  <2>5. upc[c] = "connect" => how = "no answer"
    BY <2>2, <2>4
  <2>6. UaEnd(c, how) /\ UNCHANGED <<s2c, got>>
    BY <1>4 DEF UaFail
  <2> HIDE DEF how
  <2> QED
    BY <2>1, <2>3, <2>4, <2>5, <2>6, EndEach
<1>5. CASE UaGiveUp(c)
  BY <1>5, EndEach DEF UaGiveUp
<1> QED
  BY <1>1, <1>2, <1>3, <1>4, <1>5 DEF UaNext

LEMMA ResetEach ==
  ASSUME Ind, NEW c \in Conns, ResetServer(c) \/ ResetClient(c),
         UNCHANGED <<srvvars, httpvars, uavars>>
  PROVE  Each(c)'
<1>0. /\ Types /\ Agent(c) /\ Bytes(c) /\ Endings(c) /\ Answers(c)
      /\ UNCHANGED <<pc, fdconn, sockfd, seen>>
      /\ UNCHANGED <<upc, sent, got, fate>>
  BY DEF Ind, Each, srvvars, httpvars, uavars
<1>1. ~ResetServer(c)
  BY <1>0 DEF ResetServer, Answers
<1>2. /\ send[c] = "closed" /\ c2s[c] # <<>>
      /\ c2s'[c] = <<>> /\ UNCHANGED <<cend, send, rstS>>
      /\ s2c'[c] = s2c[c] \/ s2c'[c] = <<>>
  BY <1>0, <1>1 DEF Types, ResetClient
<1>3. rstC'[c]
  BY <1>0, <1>1, Zenon DEF Types, ResetClient
<1>4. /\ Len(c2s[c]) \in Nat /\ Len(c2s[c]) > 0 /\ Len(<<>>) = 0
      /\ sent[c] \in Nat /\ seen[c] \in Nat
      /\ seen[c] + Len(c2s[c]) <= sent[c]
  BY <1>0, <1>2, TypesOf, EmptySeq DEF Bytes
<1>5. seen[c] < sent[c]
  BY <1>4
<1>6. Agent(c)'
  BY <1>0, <1>2 DEF Agent
<1>7. Bytes(c)'
  <2>1. /\ seen'[c] + Len(c2s'[c]) <= sent'[c]
        /\ \A k \in 1 .. Len(c2s'[c]) : c2s'[c][k] = <<c, seen'[c] + k>>
    BY <1>0, <1>2, <1>4
  <2> QED
    BY <1>3, <2>1 DEF Bytes
<1>8. Endings(c)'
  <2>1. Unread(c)'
    BY <1>0, <1>2, <1>5 DEF Unread
  <2>2. ~rstS'[c]
    BY <1>0, <1>2 DEF Endings
  <2> QED
    BY <1>0, <1>2, <1>3, <2>1, <2>2 DEF Endings
<1>9. Answers(c)'
  <2>1. got[c] \in Nat /\ Len(s2c[c]) \in Nat
    BY <1>0, TypesOf
  <2>2. got'[c] + Len(s2c'[c]) <= got[c] + Len(s2c[c])
    BY <1>0, <1>2, <1>4, <2>1
  <2>3. got'[c] + Len(s2c'[c]) \in Nat
    BY <1>0, <1>2, <1>4, <2>1
  <2>4. got'[c] + Len(s2c'[c]) <= (IF seen[c] > 0 THEN 1 ELSE 0)
    BY <1>0, <2>1, <2>2, <2>3 DEF Answers
  <2> QED
    BY <1>0, <1>2, <2>4 DEF Answers
<1> QED
  BY <1>6, <1>7, <1>8, <1>9 DEF Each
-----------------------------------------------------------------------------
(* Each connection: the steps of the server.                               *)

\* The loop moves on and touches no connection.
LEMMA IdleEach ==
  ASSUME Ind, NEW d \in Conns, UNCHANGED <<seen, uavars>>,
         Select \/ AcceptClient \/ SkipSlot
  PROVE  Each(d)'
<1>1. /\ Each(d) /\ pc # "write" /\ pc # "dead" /\ pc' # "dead"
      /\ UNCHANGED <<cend, send, c2s, s2c, rstS, rstC>>
  BY DEF Ind, Select, AcceptClient, SkipSlot, netvars
<1>2. UNCHANGED Own(d)
  BY <1>1 DEF Own, uavars
<1> QED
  BY <1>1, <1>2, EachFrame

\* exit() closes what is open.
LEMMA ExitEach ==
  ASSUME Ind, NEW d \in Conns, NEW why, SrvExit(why), UNCHANGED <<seen, uavars>>
  PROVE  Each(d)'
<1>0. /\ Types /\ Agent(d) /\ Bytes(d) /\ Endings(d) /\ Answers(d)
      /\ UNCHANGED <<upc, sent, got, fate, seen>>
      /\ UNCHANGED <<cend, c2s, s2c, rstS, rstC>> /\ pc' = "dead"
      /\ send'[d] = (IF send[d] = "open" THEN "closed" ELSE send[d])
  BY DEF Ind, Each, uavars, SrvExit
<1>1. Agent(d)' /\ Bytes(d)'
  BY <1>0 DEF Agent, Bytes
<1>2. Endings(d)'
  BY <1>0, Zenon DEF Endings
<1>3. Answers(d)'
  <2>1. seen[d] > 0 => send'[d] = "closed"
    <3>1. ASSUME seen[d] > 0, pc = "write", fdconn[sockfd] = d
          PROVE  send[d] = "open"
      BY <3>1, AtWrite
    <3> QED
      BY <1>0, <3>1 DEF Answers
  <2> QED
    BY <1>0, <2>1 DEF Answers
<1> QED
  BY <1>1, <1>2, <1>3 DEF Each

LEMMA ReadDataEach ==
  ASSUME Ind, NEW c \in Conns, NEW d \in Conns, ReadData(c), UNCHANGED uavars
  PROVE  Each(d)'
<1>0. /\ Types /\ Each(d) /\ pc = "scan" /\ pc' = "write" /\ Each(c)
      /\ UNCHANGED <<upc, sent, got, fate>>
      /\ UNCHANGED <<cend, send, s2c, rstS, rstC, fdconn>>
      /\ sockfd' = client[i]
  BY DEF Ind, ReadData, Reading, uavars, tabvars
<1>1. PICK n \in 1 .. Len(c2s[c]) :
         /\ c2s' = [c2s EXCEPT ![c] = Drop(@, n)]
         /\ seen' = [seen EXCEPT ![c] = @ + n]
  BY ReadFacts
<1>2. CASE d # c
  <2>1. UNCHANGED Own(d)
    BY <1>0, <1>1, <1>2 DEF Types, Own
  <2> QED
    BY <1>0, <2>1, EachFrame
<1>3. CASE d = c
  <2>1. /\ send[c] = "open" /\ seen[c] = 0 /\ ~rstS[c] /\ ~rstC[c]
        /\ fdconn[client[i]] = c
    BY AtSlot DEF ReadData
  <2>2. /\ c2s[c] \in Seq(Unit) /\ Len(c2s[c]) \in Nat
        /\ sent[c] \in Nat /\ n \in Nat /\ n > 0 /\ n \in 0 .. Len(c2s[c])
        /\ Len(c2s[c]) - n \in Nat
    BY <1>0, TypesOf
  <2>3. c2s'[c] = Drop(c2s[c], n) /\ seen'[c] = n
    <3>1. seen'[c] = 0 + n
      BY <1>0, <1>1, <2>1 DEF Types
    <3>2. c2s'[c] = Drop(c2s[c], n)
      BY <1>0, <1>1 DEF Types
    <3>3. 0 + n = n
      BY <2>2
    <3> QED
      BY <3>1, <3>2, <3>3, Zenon
  <2>4. /\ Len(c2s'[c]) = Len(c2s[c]) - n
        /\ \A k \in 1 .. Len(c2s[c]) - n : c2s'[c][k] = c2s[c][n + k]
    <3>1. /\ Len(Drop(c2s[c], n)) = Len(c2s[c]) - n
          /\ \A k \in 1 .. Len(c2s[c]) - n : Drop(c2s[c], n)[k] = c2s[c][n + k]
      BY <2>2, DropFacts
    <3> QED
      BY <2>3, <3>1, Zenon
  <2>5. 0 + Len(c2s[c]) = sent[c]
    BY <1>0, <2>1 DEF Each, Bytes
  <2>6. seen'[c] + Len(c2s'[c]) = sent[c] /\ seen'[c] + Len(c2s'[c]) <= sent[c]
    BY <2>2, <2>3, <2>4, <2>5
  <2>7. \A k \in 1 .. Len(c2s'[c]) : c2s'[c][k] = <<c, seen'[c] + k>>
    <3>1. \A k \in 1 .. Len(c2s[c]) : c2s[c][k] = <<c, 0 + k>>
      BY <1>0, <2>1 DEF Each, Bytes
    <3>2. \A k \in 1 .. Len(c2s[c]) - n :
            n + k \in 1 .. Len(c2s[c]) /\ 0 + (n + k) = n + k
      BY <2>2
    <3> QED
      BY <2>3, <2>4, <3>1, <3>2
  <2>8. Bytes(c)'
    BY <1>0, <2>6, <2>7 DEF Bytes
  <2>9. Agent(c)'
    BY <1>0 DEF Each, Agent
  <2>10. Endings(c)'
    BY <1>0, <2>1, Zenon DEF Each, Endings, Unread
  <2>11. Answers(c)'
    <3>1. s2c[c] = <<>> /\ got[c] = 0 /\ Len(<<>>) = 0
      BY <1>0, <2>1, EmptySeq DEF Each, Answers
    <3>2. got'[c] + Len(s2c'[c]) <= 1 /\ seen'[c] > 0
      BY <1>0, <2>2, <2>3, <3>1
    <3> QED
      BY <1>0, <2>1, <3>1, <3>2 DEF Answers
  <2> QED
    BY <1>3, <2>8, <2>9, <2>10, <2>11 DEF Each
<1> QED
  BY <1>2, <1>3

LEMMA ReadEofEach ==
  ASSUME Ind, NEW c \in Conns, NEW d \in Conns, ReadEof(c), UNCHANGED uavars
  PROVE  Each(d)'
<1>0. /\ Types /\ Each(d) /\ pc = "scan" /\ pc' = "write" /\ Each(c)
      /\ UNCHANGED <<upc, sent, got, fate, seen>>
      /\ UNCHANGED <<cend, c2s, s2c, rstS, rstC>>
      /\ send' = [send EXCEPT ![c] = "closed"]
  BY DEF Ind, ReadEof, Reading, uavars, CloseClient
<1>2. CASE d # c
  <2>1. UNCHANGED Own(d)
    BY <1>0, <1>2 DEF Types, Own
  <2> QED
    BY <1>0, <2>1, EachFrame
<1>3. CASE d = c
  <2>1. /\ send[c] = "open" /\ seen[c] = 0 /\ ~rstS[c] /\ ~rstC[c]
    BY AtSlot DEF ReadEof
  <2>2. send'[c] = "closed" /\ cend[c] = "closed"
    BY <1>0 DEF Types, ReadEof, AtEof
  <2>3. fate[c] = "gave up" /\ upc[c] \notin {"send", "wait"}
    BY <1>0, <2>1, <2>2 DEF Each, Endings, Agent
  <2>4. Agent(c)' /\ Bytes(c)'
    BY <1>0, <2>2 DEF Each, Agent, Bytes
  <2>5. Endings(c)'
    BY <1>0, <2>1, <2>2, <2>3 DEF Endings
  <2>6. Answers(c)'
    BY <1>0, <2>2 DEF Each, Answers
  <2> QED
    BY <1>3, <2>4, <2>5, <2>6 DEF Each
<1> QED
  BY <1>2, <1>3

LEMMA RespondEach ==
  ASSUME Ind, NEW c \in Conns, NEW d \in Conns, Respond(c), UNCHANGED uavars
  PROVE  Each(d)'
<1>0. /\ Types /\ Each(d) /\ Each(c) /\ fdconn[sockfd] = c
      /\ pc = "write" /\ pc' \in {"select", "scan"}
      /\ UNCHANGED <<upc, sent, got, fate, seen>>
      /\ UNCHANGED <<cend, c2s, rstS, rstC>>
      /\ send' = [send EXCEPT ![c] = "closed"]
      /\ s2c' = [s2c EXCEPT ![c] = Append(s2c[c], <<c, 1>>)]
  BY DEF Ind, Respond, uavars, HangUp, CloseClient, Answered, NextReady, httpvars
<1>2. CASE d # c
  <2>1. UNCHANGED Own(d)
    BY <1>0, <1>2 DEF Types, Own
  <2> QED
    BY <1>0, <1>2, <2>1, EachFrame
<1>3. CASE d = c
  <2>1. send[c] = "open" /\ seen[c] > 0 /\ ~rstS[c] /\ ~rstC[c]
    BY <1>0, AtWrite
  <2>2. send'[c] = "closed" /\ s2c'[c] = Append(s2c[c], <<c, 1>>)
    BY <1>0 DEF Types
  <2>3. s2c[c] = <<>> /\ got[c] = 0
    BY <1>0, <2>1 DEF Each, Answers
  <2>4. s2c'[c] # <<>> /\ Len(s2c'[c]) = 1
    <3>1. <<c, 1>> \in Unit /\ s2c[c] \in Seq(Unit) /\ Len(<<>>) = 0
      BY <1>0, TypesOf, EmptySeq DEF Unit
    <3>2. Len(s2c'[c]) = Len(<<>>) + 1
      BY <2>2, <2>3, <3>1, AppendProperties
    <3>3. Len(s2c'[c]) = 1
      BY <3>1, <3>2
    <3>4. Len(s2c'[c]) # Len(<<>>)
      BY <3>1, <3>3
    <3>5. s2c'[c] # <<>>
      BY <3>4, Zenon
    <3> QED
      BY <3>3, <3>5
  <2>5. fate[c] \notin {"no answer", "reset"}
    BY <1>0, <2>1 DEF Each, Endings, Unread
  <2>6. Agent(c)' /\ Bytes(c)'
    BY <1>0, <2>1, <2>2 DEF Each, Agent, Bytes
  <2>7. Endings(c)'
    BY <1>0, <2>1, <2>2, <2>4, <2>5 DEF Endings
  <2>8. Answers(c)'
    BY <1>0, <2>1, <2>2, <2>3, <2>4 DEF Answers
  <2> QED
    BY <1>3, <2>6, <2>7, <2>8 DEF Each
<1> QED
  BY <1>2, <1>3

LEMMA NextEach ==
  ASSUME Ind, Next, NEW d \in Conns
  PROVE  Each(d)'
<1>1. CASE SrvNext /\ UNCHANGED uavars
  <2>1. CASE (Select \/ AcceptClient \/ SkipSlot) /\ UNCHANGED httpvars
    BY <1>1, <2>1, IdleEach DEF httpvars
  <2>2. ASSUME NEW why, SrvExit(why), UNCHANGED httpvars PROVE Each(d)'
    BY <1>1, <2>2, ExitEach DEF httpvars
  <2>3. ASSUME NEW c \in Conns, ReadData(c) \/ ReadEof(c) \/ Respond(c)
        PROVE  Each(d)'
    BY <1>1, <2>3, ReadDataEach, ReadEofEach, RespondEach
  <2> QED
    BY <1>1, <2>1, <2>2, <2>3 DEF SrvNext, AcceptError, TooManyClients,
       ReadError, BadMethod, WriteError
<1>2. ASSUME NEW c \in Conns, UaNext(c) \/ UaGiveUp(c),
             UNCHANGED <<srvvars, httpvars>>
      PROVE  Each(d)'
  BY <1>2, UaEach, OthersFrame
<1>3. CASE NetNext /\ UNCHANGED <<srvvars, httpvars, uavars>>
  BY <1>3, ResetEach, OthersFrame DEF NetNext
<1> QED
  BY <1>1, <1>2, <1>3 DEF Next
-----------------------------------------------------------------------------
(* What brings the server down, and what the parser is given.              *)

\* Whoever left stays gone.
LEMMA QuitterStays ==
  ASSUME Ind, Next, Quitter
  PROVE  Quitter'
<1>1. PICK d \in Conns : Left(d)
  BY DEF Quitter
<1>2. Types /\ Agent(d) /\ send[d] = "closed" /\ fate[d] = "gave up"
  BY <1>1 DEF Ind, Each, Left
<1>3. upc[d] = "done"
  BY <1>2 DEF Types, Agent
<1>4. UNCHANGED <<fate[d], seen[d], send[d]>>
  <2>1. CASE SrvNext /\ UNCHANGED uavars
    <3>1. fate' = fate
      BY <2>1 DEF uavars
    <3>2. CASE (Select \/ AcceptClient \/ SkipSlot) /\ UNCHANGED httpvars
      BY <3>1, <3>2 DEF Select, AcceptClient, SkipSlot, netvars, httpvars
    <3>3. ASSUME NEW why, SrvExit(why), UNCHANGED httpvars
          PROVE  UNCHANGED <<seen[d], send[d]>>
      BY <1>2, <3>3 DEF SrvExit, httpvars
    <3>4. ASSUME NEW c \in Conns, ReadData(c)
          PROVE  UNCHANGED <<seen[d], send[d]>>
      <4>1. c # d
        BY <1>2, <3>4, AtSlot DEF ReadData
      <4> QED
        BY <1>2, <3>4, <4>1 DEF ReadData, Types
    <3>5. ASSUME NEW c \in Conns, ReadEof(c)
          PROVE  UNCHANGED <<seen[d], send[d]>>
      <4>1. c # d
        BY <1>2, <3>5, AtSlot DEF ReadEof
      <4> QED
        BY <1>2, <3>5, <4>1 DEF ReadEof, CloseClient, Types
    <3>6. ASSUME NEW c \in Conns, Respond(c)
          PROVE  UNCHANGED <<seen[d], send[d]>>
      <4>1. c # d
        BY <1>2, <3>6, AtWrite DEF Respond
      <4> QED
        BY <1>2, <3>6, <4>1 DEF Respond, HangUp, CloseClient, Types, httpvars
    <3> QED
      BY <2>1, <3>1, <3>2, <3>3, <3>4, <3>5, <3>6 DEF SrvNext, AcceptError,
         TooManyClients, ReadError, BadMethod, WriteError
  <2>2. ASSUME NEW c \in Conns, UaNext(c) \/ UaGiveUp(c),
               UNCHANGED <<srvvars, httpvars>>
        PROVE  UNCHANGED <<fate[d], seen[d], send[d]>>
    <3>1. c # d
      BY <1>3, <2>2 DEF UaNext, UaConnect, UaSend, UaRead, UaFail, UaGiveUp
    <3> QED
      BY <1>2, <2>2, <3>1 DEF UaNext, UaConnect, UaSend, UaRead, UaFail,
         UaGiveUp, UaEnd, Types, httpvars
  <2>3. CASE NetNext /\ UNCHANGED <<srvvars, httpvars, uavars>>
    BY <2>3 DEF NetNext, ResetServer, ResetClient, httpvars, uavars
  <2> QED
    BY <2>1, <2>2, <2>3 DEF Next
<1>5. Left(d)'
  BY <1>1, <1>4, LeftFrame
<1> QED
  BY <1>5 DEF Quitter

\* The end of a connection that is read is that of an agent that gave up.
LEMMA EofQuits ==
  ASSUME Ind, NEW c \in Conns, ReadEof(c), UNCHANGED uavars
  PROVE  Quitter'
<1>1. /\ Types /\ Endings(c) /\ UNCHANGED <<seen, fate>>
      /\ send' = [send EXCEPT ![c] = "closed"] /\ cend[c] \in {"shut", "closed"}
  BY DEF Ind, Each, ReadEof, AtEof, CloseClient, uavars
<1>2. send[c] = "open" /\ seen[c] = 0
  BY AtSlot DEF ReadEof
<1>3. fate[c] = "gave up"
  BY <1>1, <1>2 DEF Types, Endings
<1>4. send'[c] = "closed"
  BY <1>1 DEF Types
<1>5. Left(c)'
  BY <1>1, <1>2, <1>3, <1>4 DEF Left
<1> QED
  BY <1>5 DEF Quitter

\* A bufferful without a method comes from nobody, or from a request that is
\* cut or malformed.
LEMMA CutRequest ==
  ASSUME Ind, pc = "write", ~HasUrl(text)
  PROVE  Quitter \/ \E c \in NoMethod : sent[c] > 0
<1>1. CASE fdconn[sockfd] \notin Conns
  BY <1>1, NoConnAtWrite
<1>2. ASSUME NEW c \in Conns, fdconn[sockfd] = c
      PROVE  \E d \in NoMethod : sent[d] > 0
  <2>1. seen[c] > 0
    BY <1>2, AtWrite
  <2>2. seen[c] \in Nat /\ sent[c] \in Nat /\ Len(c2s[c]) \in Nat
    BY TypesOf DEF Ind
  <2>3. seen[c] + Len(c2s[c]) <= sent[c]
    BY DEF Ind, Each, Bytes
  <2>4. sent[c] > 0
    BY <2>1, <2>2, <2>3
  <2>5. CASE <<c, 1>> \in Nul
    BY <2>4, <2>5 DEF NoMethod
  <2>6. CASE <<c, 1>> \notin Nul
    <3>1. 1 \in 1 .. seen[c]
      BY <2>1, <2>2
    <3>2. \A j \in Cuts(c) : 1 < j
      BY <2>2, <2>6 DEF Cuts
    <3>3. 1 <= Len(text) /\ text[1] = <<c, 1>>
      BY <1>2, <3>1, <3>2 DEF Ind, OwnBytesFirst
    <3>4. text # <<>>
      <4>1. ASSUME text = <<>> PROVE FALSE
        <5>1. Len(text) = 0
          BY <4>1, EmptySeq
        <5> QED
          BY <3>3, <5>1
      <4> QED
        BY <4>1
    <3>5. text[1] # Junk
      BY <3>3 DEF Junk
    <3>6. text[1][1] = c
      BY <3>3
    <3>7. c \in Split \cup Malformed
      BY <3>4, <3>5, <3>6 DEF HasUrl
    <3> QED
      BY <2>4, <3>7 DEF NoMethod
  <2> QED
    BY <2>5, <2>6
<1> QED
  BY <1>1, <1>2

LEMMA NextCauses ==
  ASSUME Ind, Next
  PROVE  Causes'
<1>0. Causes /\ Types
  BY DEF Ind
<1>1. ASSUME NEW c \in Conns, sent[c] > 0 PROVE sent'[c] > 0
  <2>1. sent[c] \in Nat
    BY <1>0, TypesOf
  <2>2. sent'[c] = sent[c] \/ sent'[c] = sent[c] + 1
    <3>1. ASSUME NEW d \in Conns, UaSend(d)
          PROVE  sent'[c] = sent[c] \/ sent'[c] = sent[c] + 1
      BY <1>0, <3>1 DEF UaSend, Types
    <3>2. ASSUME NEW d \in Conns, UaNext(d) \/ UaGiveUp(d), ~UaSend(d)
          PROVE  sent' = sent
      BY <3>2 DEF UaNext, UaConnect, UaRead, UaFail, UaGiveUp, UaEnd
    <3> QED
      BY <3>1, <3>2 DEF Next, uavars
  <2> QED
    BY <1>1, <2>1, <2>2
<1>2. NoMethod \subseteq Conns
  BY DEF NoMethod
<1>3. (Quitter \/ \E c \in NoMethod : sent[c] > 0)
        => (Quitter' \/ \E c \in NoMethod : sent'[c] > 0)
  BY <1>1, <1>2, QuitterStays
<1>4. CASE cause' = cause
  BY <1>0, <1>3, <1>4, QuitterStays DEF Causes
<1>5. CASE BadMethod
  <2>1. cause' = "bad method" /\ (Quitter \/ \E c \in NoMethod : sent[c] > 0)
    BY <1>5, CutRequest DEF BadMethod, SrvExit
  <2> QED
    BY <1>3, <2>1 DEF Causes
<1>6. CASE WriteError
  <2>1. cause' = "writen error" /\ pc = "write"
    BY <1>6 DEF WriteError, SrvExit
  <2>2. fdconn[sockfd] \notin Conns
    <3>1. ASSUME NEW c \in Conns, fdconn[sockfd] = c PROVE FALSE
      <4>1. ~rstS[c] /\ c # NoConn
        BY <2>1, <3>1, AtWrite, NoConnAssumption
      <4> QED
        BY <1>6, <3>1, <4>1, Zenon DEF WriteError
    <3> QED
      BY <3>1
  <2>3. Quitter'
    BY <2>1, <2>2, NoConnAtWrite, QuitterStays
  <2> QED
    BY <2>1, <2>3 DEF Causes
<1>7. CASE AcceptError \/ TooManyClients
  BY <1>7 DEF AcceptError, TooManyClients, SrvExit, Causes
<1>8. ASSUME NEW c \in Conns, ReadError(c) PROVE FALSE
  <2>1. ~rstS[c]
    BY <1>8, AtSlot DEF ReadError
  <2> QED
    BY <1>8, <2>1, Zenon DEF ReadError
<1>9. CASE Select \/ AcceptClient \/ SkipSlot
  BY <1>4, <1>9 DEF Select, AcceptClient, SkipSlot
<1>10. ASSUME NEW c \in Conns, ReadData(c) \/ ReadEof(c) \/ Respond(c)
       PROVE  Causes'
  BY <1>4, <1>10 DEF ReadData, ReadEof, Respond
<1>11. CASE UNCHANGED srvvars
  BY <1>4, <1>11 DEF srvvars
<1> QED
  BY <1>5, <1>6, <1>7, <1>8, <1>9, <1>10, <1>11 DEF Next, SrvNext
\* The agents and the network leave the answer in progress alone.
LEMMA ServingIdle ==
  ASSUME Ind, Next, UNCHANGED <<srvvars, httpvars>>
  PROVE  Serving' /\ OwnBytesFirst'
<1>1. /\ UNCHANGED <<pc, i, client, fdconn>> /\ UNCHANGED <<sockfd, text, seen>>
  BY DEF srvvars, httpvars
<1>2. Serving /\ OwnBytesFirst /\ (Quitter => Quitter')
  BY QuitterStays DEF Ind
<1>3. Serving'
  BY <1>1, <1>2 DEF Serving
<1>4. OwnBytesFirst'
  BY <1>1, <1>2 DEF OwnBytesFirst, Cuts
<1> QED
  BY <1>3, <1>4

LEMMA ReadDataServes ==
  ASSUME Ind, NEW c \in Conns, ReadData(c)
  PROVE  Serving' /\ OwnBytesFirst'
<1>0. /\ Types /\ sockfd' = client[i] /\ UNCHANGED <<i, client, fdconn>>
      /\ seen[c] = 0 /\ client[i] \in ConnFds /\ fdconn[client[i]] = c
  BY AtSlot DEF Ind, ReadData, tabvars
<1>1. PICK n \in 1 .. Len(c2s[c]) :
         /\ n <= MaxLine
         /\ seen' = [seen EXCEPT ![c] = @ + n]
         /\ buf' \in Seq(Cell) /\ Len(buf') = MaxLine
         /\ \A k \in 1 .. n : buf'[k] = <<c, k>>
  BY ReadFacts
<1>2. n \in Nat /\ n > 0
  BY <1>0, TypesOf
<1>3. seen'[c] = n
  <2>1. seen'[c] = 0 + n
    BY <1>0, <1>1 DEF Types
  <2> QED
    BY <1>2, <2>1
<1>4. PICK len \in Strlen(buf') : text' = Take(buf', len)
  BY DEF ReadData
<1>5. PICK cuts : cuts = {k \in 1 .. n : <<c, k>> \in Nul}
  OBVIOUS
<1>6. Cuts(c)' = cuts
  BY <1>3, <1>5 DEF Cuts
<1>7. /\ \A k \in 1 .. n :
           (\A j \in cuts : k < j) => k <= Len(text') /\ text'[k] = <<c, k>>
      /\ cuts # {} => \A k \in 1 .. Len(text') : text'[k] = <<c, k>>
  <2>1. /\ \A k \in 1 .. n : (\A j \in cuts : k < j) =>
             k <= Len(Take(buf', len)) /\ Take(buf', len)[k] = <<c, k>>
        /\ cuts # {} =>
             \A k \in 1 .. Len(Take(buf', len)) : Take(buf', len)[k] = <<c, k>>
    BY <1>1, <1>2, <1>5, WholeText
  <2> QED
    BY <1>4, <2>1
<1>8. fdconn'[sockfd'] = c /\ sockfd' \in ConnFds /\ client'[i'] = sockfd'
      /\ c # NoConn
  BY <1>0, NoConnAssumption
<1>9. Serving'
  BY <1>2, <1>3, <1>8 DEF Serving
<1>10. OwnBytesFirst'
  <2>1. /\ \A k \in 1 .. seen'[c] : (\A j \in Cuts(c)' : k < j) =>
             k <= Len(text') /\ text'[k] = <<c, k>>
        /\ Cuts(c)' # {} => \A k \in 1 .. Len(text') : text'[k] = <<c, k>>
    BY <1>3, <1>6, <1>7
  <2>2. \A d \in Conns : fdconn'[sockfd'] = d => d = c
    BY <1>8
  <2> QED
    BY <2>1, <2>2 DEF OwnBytesFirst
<1> QED
  BY <1>9, <1>10

LEMMA NextServing ==
  ASSUME Ind, Next
  PROVE  Serving' /\ OwnBytesFirst'
<1>1. ASSUME pc' # "write" PROVE Serving' /\ OwnBytesFirst'
  BY <1>1 DEF Serving, OwnBytesFirst
<1>2. CASE SrvNext /\ UNCHANGED uavars
  <2>1. CASE Select \/ AcceptClient \/ SkipSlot
    BY <1>1, <2>1 DEF Select, AcceptClient, SkipSlot
  <2>2. ASSUME NEW why, SrvExit(why) PROVE Serving' /\ OwnBytesFirst'
    BY <1>1, <2>2 DEF SrvExit
  <2>3. ASSUME NEW c \in Conns, Respond(c) PROVE Serving' /\ OwnBytesFirst'
    BY <1>1, <2>3 DEF Respond, NextReady
  <2>4. ASSUME NEW c \in Conns, ReadData(c) PROVE Serving' /\ OwnBytesFirst'
    BY <2>4, ReadDataServes
  <2>5. ASSUME NEW c \in Conns, ReadEof(c) PROVE Serving' /\ OwnBytesFirst'
    <3>1. Quitter'
      BY <1>2, <2>5, EofQuits
    <3>2. sockfd' \in ConnFds /\ fdconn'[sockfd'] = NoConn
      <4>1. client[i] \in ConnFds
        BY <2>5, AtSlot DEF ReadEof
      <4> QED
        BY <2>5, <4>1 DEF ReadEof, CloseClient, Ind, Types
    <3> QED
      BY <3>1, <3>2, NoConnAssumption DEF Serving, OwnBytesFirst
  <2> QED
    BY <1>2, <2>1, <2>2, <2>3, <2>4, <2>5 DEF SrvNext, AcceptError,
       TooManyClients, ReadError, BadMethod, WriteError
<1>3. CASE UNCHANGED <<srvvars, httpvars>>
  BY <1>3, ServingIdle
<1> QED
  BY <1>2, <1>3 DEF Next

-----------------------------------------------------------------------------
LEMMA NextInd == Ind /\ [Next]_vars => Ind'
<1> SUFFICES ASSUME Ind, [Next]_vars PROVE Ind'
  OBVIOUS
<1>1. CASE Next
  <2>1. Types'
    BY <1>1, SrvTypes, UaTypes, NetTypes DEF Next
  <2>2. \A d \in Conns : Each(d)'
    BY <1>1, NextEach
  <2> QED
    BY <1>1, <2>1, <2>2, NextControl, NextPlace, NextServing, NextCauses DEF Ind
<1>2. CASE UNCHANGED vars
  <2>1. /\ UNCHANGED <<pc, i, rset, client, maxi, allset, fdconn, cause>>
        /\ UNCHANGED <<listenq, cend, send, c2s, s2c, rstS, rstC>>
        /\ UNCHANGED <<sockfd, buf, text, seen>> /\ UNCHANGED <<upc, sent, got, fate>>
    BY <1>2 DEF vars, srvvars, httpvars, netvars, uavars
  <2>2. Types' /\ Control' /\ OnePlace'
    <3>1. Types'
      BY <2>1 DEF Ind, Types
    <3>2. Control' /\ OnePlace'
      BY <2>1 DEF Ind, Control, OnePlace
    <3> QED
      BY <3>1, <3>2
  <2>3. Serving' /\ OwnBytesFirst' /\ Causes'
    BY <2>1 DEF Ind, Serving, OwnBytesFirst, Cuts, Causes, Quitter, Left
  <2>4. ASSUME NEW d \in Conns PROVE Each(d)'
    <3>1. UNCHANGED Own(d)
      BY <2>1 DEF Own
    <3> QED
      BY <2>1, <3>1, EachFrame DEF Ind
  <2> QED
    BY <2>2, <2>3, <2>4 DEF Ind
<1> QED
  BY <1>1, <1>2

LEMMA AlwaysInd == Spec => []Ind
BY InitInd, NextInd, PTL DEF Spec

(***************************************************************************)
(* Whatever the agents do, the process of httpserver.c leaves only at its  *)
(* limits, for an agent that closed before anything of its request was     *)
(* read (lines 272 to 293 run on after the end of file), or for a request  *)
(* whose first unit stops short of the end of its URL, that the parser     *)
(* refuses, or that starts with a NUL; no read fails.                      *)
(***************************************************************************)
THEOREM DeathAlwaysHasCause == Spec => []DeathHasCause
<1>1. Ind => DeathHasCause
  <2> SUFFICES ASSUME Ind PROVE DeathHasCause
    OBVIOUS
  <2>1. Quitter => \E c \in Conns : fate[c] = "gave up" /\ seen[c] = 0
    BY DEF Quitter, Left
  <2> QED
    BY <2>1 DEF Ind, Causes, DeathHasCause
<1> QED
  BY <1>1, AlwaysInd, PTL

(***************************************************************************)
(* An agent that waits and whose request was read in full gets its answer, *)
(* one, and nobody is answered before something of his was read.           *)
(***************************************************************************)
THEOREM WholeRequestAlwaysAnswered == Spec => []WholeRequestAnswered
<1>1. Ind => WholeRequestAnswered
  BY DEF Ind, Each, Endings, Answers, Unread, WholeRequestAnswered
<1> QED
  BY <1>1, AlwaysInd, PTL

(***************************************************************************)
(* The text http_parser_execute is given while a connection is served      *)
(* begins with what was read from it, up to its first NUL, whatever        *)
(* earlier connections left in buf and wherever strlen stops; behind a NUL *)
(* nothing of theirs follows.                                              *)
(***************************************************************************)
THEOREM OwnBytesAlwaysFirst == Spec => []OwnBytesFirst
<1>1. Ind => OwnBytesFirst
  BY DEF Ind
<1> QED
  BY <1>1, AlwaysInd, PTL
-----------------------------------------------------------------------------
(***************************************************************************)
(* The tables of the loop, and what Select has announced.  While the loop  *)
(* serves one descriptor the agents may send, leave or reset; LoopInd says *)
(* that the descriptors still to be served stay readable and stay in the   *)
(* tables, so none of the calls on them can wait.                          *)
(***************************************************************************)

\* The descriptors Select reported and the loop has still to read from.
Awaited ==
  CASE pc = "accept" -> rset \ {ListenFd}
    [] pc = "scan" -> {client[k] : k \in Pending}
    [] pc = "write" -> {client[k] : k \in Pending \ {i}}
    [] OTHER -> {}

StillReady == \A f \in Awaited : SrvReadable(fdconn[f])

LoopInd ==
  /\ Ind /\ TablesAgree /\ StillReady
  /\ maxfd \in {ListenFd} \cup ConnFds
  /\ pc = "accept" => rset \subseteq allset

LEMMA InitLoop == Init => LoopInd
<1> SUFFICES ASSUME Init PROVE LoopInd
  OBVIOUS
<1>1. /\ Ind /\ pc = "select" /\ maxfd = ListenFd /\ allset = {ListenFd}
      /\ client = [k \in Slots |-> -1] /\ fdconn = [f \in ConnFds |-> NoConn]
  BY InitInd DEF Init, LoopInit
<1>2. Taken = {} /\ Awaited = {}
  BY <1>1 DEF Taken, Awaited
<1>3. TablesAgree
  BY <1>1, <1>2 DEF TablesAgree
<1> QED
  BY <1>1, <1>2, <1>3 DEF LoopInd, StillReady

LEMMA AcceptTables ==
  ASSUME LoopInd, AcceptClient
  PROVE  TablesAgree' /\ maxfd' \in {ListenFd} \cup ConnFds
<1>0. Types /\ TablesAgree /\ pc = "accept" /\ listenq \in Seq(Conns) /\ listenq # <<>>
  BY DEF LoopInd, Ind, Types, Control, AcceptClient
<1>1. PICK fd \in FreeFds, k \in FreeSlots :
       /\ fdconn' = [fdconn EXCEPT ![fd] = Head(listenq)]
       /\ client' = [client EXCEPT ![k] = fd]
       /\ allset' = allset \cup {fd}
       /\ maxfd' = IF fd > maxfd THEN fd ELSE maxfd
       /\ maxi' = IF k > maxi THEN k ELSE maxi
  BY DEF AcceptClient, MaxIndex
<1>2. /\ fd \in ConnFds /\ fdconn[fd] = NoConn
      /\ k \in Slots /\ client[k] < 0
      /\ client \in [Slots -> {-1} \cup ConnFds]
      /\ fdconn \in [ConnFds -> Conns \cup {NoConn}]
  BY <1>0 DEF FreeFds, FreeSlots, Types
<1>3. client[k] = -1
  BY <1>0, <1>2, Numbers
<1>4. Head(listenq) \in Conns
  BY <1>0, HeadTailProperties
<1>5. Taken' = Taken \cup {k} /\ k \notin Taken
  BY <1>0, <1>1, <1>2, <1>3, Numbers DEF Taken
<1>6. /\ \A l \in Taken : client'[l] = client[l] /\ client[l] \in ConnFds
      /\ client'[k] = fd
  BY <1>1, <1>2, <1>5 DEF Taken
<1>7. \A l \in Taken : client[l] # fd
  BY <1>0, <1>2 DEF TablesAgree
<1>8. \A l \in Taken' : fdconn'[client'[l]] # NoConn
  BY <1>0, <1>1, <1>2, <1>4, <1>5, <1>6, <1>7, NoConnAssumption DEF TablesAgree
<1>9. \A l, m \in Taken' : client'[l] = client'[m] => l = m
  BY <1>0, <1>5, <1>6, <1>7 DEF TablesAgree
<1>10. \A f \in ConnFds : fdconn'[f] # NoConn => \E l \in Taken' : client'[l] = f
  BY <1>0, <1>1, <1>2, <1>5, <1>6 DEF TablesAgree
<1>11. allset' = {ListenFd} \cup {client'[l] : l \in Taken'}
  BY <1>0, <1>1, <1>5, <1>6 DEF TablesAgree
<1>12. maxfd \in Nat /\ maxfd' \in {ListenFd} \cup ConnFds
  <2>1. maxfd \in {ListenFd} \cup ConnFds /\ ListenFd \in Nat
    BY LoopAssumption DEF LoopInd
  <2> QED
    BY <1>0, <1>1, <1>2, <2>1, Numbers
<1>13. \A l \in Taken' : l <= maxi' /\ client'[l] <= maxfd'
  <2>1. Taken \subseteq Nat
    BY <1>0, Numbers DEF Taken
  <2> QED
    BY <1>0, <1>1, <1>2, <1>5, <1>6, <1>12, <2>1, Numbers DEF TablesAgree
<1> QED
  BY <1>8, <1>9, <1>10, <1>11, <1>12, <1>13 DEF TablesAgree

LEMMA CloseTables ==
  ASSUME LoopInd, pc # "dead", NEW c \in Conns, CloseClient(c),
         UNCHANGED <<maxi, maxfd>>,
         i \in Slots, client[i] \in ConnFds, fdconn[client[i]] = c
  PROVE  TablesAgree'
<1> DEFINE fd == client[i]
<1>0. Types /\ TablesAgree
  BY DEF LoopInd, Ind
<1>1. /\ client \in [Slots -> {-1} \cup ConnFds]
      /\ fdconn \in [ConnFds -> Conns \cup {NoConn}]
      /\ fd # -1 /\ i \in Taken
  BY <1>0, Numbers DEF Types, Taken
<1>2. /\ fdconn' = [fdconn EXCEPT ![fd] = NoConn]
      /\ allset' = allset \ {fd}
      /\ client' = [client EXCEPT ![i] = -1]
  BY DEF CloseClient
<1>3. Taken' = Taken \ {i}
  BY <1>1, <1>2 DEF Taken
<1>4. \A l \in Taken' : l \in Taken /\ client'[l] = client[l] /\ l # i
  BY <1>1, <1>2, <1>3 DEF Taken
<1>5. \A l \in Taken' : client[l] # fd
  BY <1>0, <1>1, <1>4 DEF TablesAgree
<1>6. \A l \in Taken' : fdconn'[client'[l]] # NoConn
  <2>1. \A l \in Taken' : client[l] \in ConnFds
    BY <1>1, <1>4 DEF Taken
  <2> QED
    BY <1>0, <1>1, <1>2, <1>4, <1>5, <2>1 DEF TablesAgree
<1>7. \A l, m \in Taken' : client'[l] = client'[m] => l = m
  BY <1>0, <1>4 DEF TablesAgree
<1>8. ASSUME NEW f \in ConnFds, fdconn'[f] # NoConn
      PROVE  \E l \in Taken' : client'[l] = f
  <2>1. f # fd /\ fdconn[f] # NoConn
    BY <1>1, <1>2, <1>8
  <2>2. PICK l \in Taken : client[l] = f
    BY <1>0, <2>1 DEF TablesAgree
  <2> QED
    BY <1>3, <1>4, <2>1, <2>2
<1>9. allset' = {ListenFd} \cup {client'[l] : l \in Taken'}
  <2>1. allset = {ListenFd} \cup {client[l] : l \in Taken}
    BY <1>0 DEF TablesAgree
  <2>2. fd # ListenFd
    BY <1>0, Numbers
  <2> QED
    BY <1>1, <1>2, <1>3, <1>4, <1>5, <2>1, <2>2
<1>10. \A l \in Taken' : l <= maxi' /\ client'[l] <= maxfd'
  BY <1>0, <1>4 DEF TablesAgree
<1> QED
  BY <1>6, <1>7, <1>8, <1>9, <1>10 DEF TablesAgree

LEMMA NextTables ==
  ASSUME LoopInd, [Next]_vars
  PROVE  /\ TablesAgree' /\ maxfd' \in {ListenFd} \cup ConnFds
         /\ pc' = "accept" => rset' \subseteq allset'
<1>0. Ind /\ TablesAgree /\ maxfd \in {ListenFd} \cup ConnFds
  BY DEF LoopInd
<1>1. CASE AcceptClient
  BY <1>1, AcceptTables DEF AcceptClient
<1>2. ASSUME pc # "dead", UNCHANGED tabvars,
             pc' = "accept" => rset' \subseteq allset'
      PROVE  /\ TablesAgree' /\ maxfd' \in {ListenFd} \cup ConnFds
             /\ pc' = "accept" => rset' \subseteq allset'
  BY <1>0, <1>2 DEF TablesAgree, Taken, tabvars
<1>3. CASE Select \/ SkipSlot \/ \E c \in Conns : ReadData(c)
  BY <1>2, <1>3 DEF Select, SkipSlot, ReadData, Reading, ReadyFds, tabvars
<1>4. ASSUME NEW why, SrvExit(why)
      PROVE  /\ TablesAgree' /\ maxfd' \in {ListenFd} \cup ConnFds
             /\ pc' = "accept" => rset' \subseteq allset'
  BY <1>0, <1>4 DEF SrvExit, TablesAgree
<1>5. ASSUME NEW c \in Conns, ReadEof(c)
      PROVE  /\ TablesAgree' /\ maxfd' \in {ListenFd} \cup ConnFds
             /\ pc' = "accept" => rset' \subseteq allset'
  <2>1. /\ pc = "scan" /\ pc' = "write" /\ CloseClient(c)
        /\ UNCHANGED <<maxi, maxfd>>
    BY <1>5 DEF ReadEof, Reading
  <2>2. i \in Slots /\ client[i] \in ConnFds /\ fdconn[client[i]] = c
    BY <1>0, <1>5, AtSlot DEF ReadEof
  <2> QED
    BY <1>0, <2>1, <2>2, CloseTables
<1>6. ASSUME NEW c \in Conns, Respond(c)
      PROVE  /\ TablesAgree' /\ maxfd' \in {ListenFd} \cup ConnFds
             /\ pc' = "accept" => rset' \subseteq allset'
  <2>1. /\ pc = "write" /\ pc' \in {"select", "scan"} /\ CloseClient(c)
        /\ UNCHANGED <<maxi, maxfd>> /\ fdconn[sockfd] = c
    BY <1>6 DEF Respond, HangUp, NextReady
  <2>2. i \in Slots /\ client[i] \in ConnFds /\ fdconn[client[i]] = c
    BY <1>0, <2>1, AtWrite
  <2> QED
    BY <1>0, <2>1, <2>2, CloseTables
<1>7. CASE UNCHANGED srvvars
  BY <1>7 DEF srvvars, LoopInd, TablesAgree, Taken
<1> QED
  BY <1>1, <1>3, <1>4, <1>5, <1>6, <1>7 DEF Next, SrvNext, AcceptError,
     TooManyClients, ReadError, BadMethod, WriteError, vars

LEMMA PendingHeld ==
  ASSUME LoopInd, NEW k \in Pending
  PROVE  k \in Taken /\ client[k] \in rset /\ client[k] \in ConnFds
<1>0. Types
  BY DEF LoopInd, Ind
<1>1. k \in i .. maxi /\ client[k] \in rset
  BY DEF Pending
<1>2. k \in Slots
  BY <1>0, <1>1, Numbers DEF Slots
<1>3. client[k] # -1
  BY <1>0, <1>1, Numbers DEF Types
<1> QED
  BY <1>0, <1>1, <1>2, <1>3 DEF Taken, Types

LEMMA AwaitedHeld ==
  ASSUME LoopInd, NEW f \in Awaited
  PROVE  f \in ConnFds /\ fdconn[f] \in Conns /\ send[fdconn[f]] = "open"
<1>0. Types /\ TablesAgree /\ OnePlace
  BY DEF LoopInd, Ind
<1>1. pc # "dead" /\ \E k \in Taken : client[k] = f
  <2>1. CASE pc = "accept"
    <3>1. f \in allset /\ f # ListenFd
      BY <2>1 DEF Awaited, LoopInd
    <3> QED
      BY <1>0, <2>1, <3>1 DEF TablesAgree
  <2>2. CASE pc \in {"scan", "write"}
    <3>1. \E k \in Pending : client[k] = f
      BY <2>2 DEF Awaited
    <3> QED
      BY <2>2, <3>1, PendingHeld
  <2> QED
    BY <2>1, <2>2 DEF Awaited
<1>2. PICK k \in Taken : client[k] = f
  BY <1>1
<1>3. f \in ConnFds /\ fdconn[f] # NoConn
  BY <1>0, <1>1, <1>2 DEF Taken, Types, TablesAgree
<1> QED
  BY <1>0, <1>3 DEF Types, OnePlace

(* A step of the server after which what is awaited was awaited before, on *)
(* the same connections, and these are as they were.                       *)
LEMMA NarrowsReady ==
  ASSUME LoopInd, Awaited' \subseteq Awaited,
         \A f \in Awaited' :
           /\ fdconn'[f] = fdconn[f]
           /\ c2s'[fdconn[f]] = c2s[fdconn[f]]
           /\ cend'[fdconn[f]] = cend[fdconn[f]]
           /\ rstS'[fdconn[f]] = rstS[fdconn[f]]
  PROVE  StillReady'
<1> SUFFICES ASSUME NEW f \in Awaited' PROVE SrvReadable(fdconn[f])'
  BY DEF StillReady
<1>1. SrvReadable(fdconn[f])
  BY DEF LoopInd, StillReady
<1> QED
  BY <1>1 DEF SrvReadable

LEMMA SelectAnnounces ==
  ASSUME LoopInd, Select
  PROVE  StillReady'
<1> SUFFICES ASSUME NEW f \in Awaited' PROVE SrvReadable(fdconn[f])'
  BY DEF StillReady
<1>0. Types
  BY DEF LoopInd, Ind
<1>1. /\ rset' = ReadyFds /\ UNCHANGED <<client, fdconn, maxi>> /\ i' = 0
      /\ pc' \in {"accept", "scan"}
      /\ UNCHANGED <<c2s, cend, rstS>>
  BY DEF Select, tabvars, netvars
<1>2. f \in ReadyFds /\ f # ListenFd
  <2>1. CASE pc' = "accept"
    BY <1>1, <2>1 DEF Awaited
  <2>2. CASE pc' = "scan"
    <3>1. PICK k \in Pending' : client[k] = f
      BY <1>1, <2>2 DEF Awaited
    <3>2. k \in 0 .. maxi /\ client[k] \in ReadyFds
      BY <1>1, <3>1 DEF Pending
    <3>3. k \in Slots
      BY <1>0, <3>2, Numbers DEF Slots
    <3> QED
      BY <1>0, <3>1, <3>2, <3>3, Numbers DEF Types
  <2> QED
    BY <1>1, <2>1, <2>2
<1>3. SrvReadable(fdconn[f])
  BY <1>2 DEF ReadyFds, FdReady
<1> QED
  BY <1>1, <1>3 DEF SrvReadable

LEMMA AcceptAwaits ==
  ASSUME LoopInd, AcceptClient
  PROVE  StillReady'
<1>0. Types
  BY DEF LoopInd, Ind
<1>1. PICK fd \in FreeFds, k0 \in FreeSlots :
       /\ fdconn' = [fdconn EXCEPT ![fd] = Head(listenq)]
       /\ client' = [client EXCEPT ![k0] = fd]
       /\ maxi' = IF k0 > maxi THEN k0 ELSE maxi
  BY DEF AcceptClient, MaxIndex
<1>2. /\ pc = "accept" /\ pc' \in {"select", "scan"}
      /\ rset' = rset /\ i' = i /\ i = 0
      /\ UNCHANGED <<c2s, cend, rstS>>
  BY DEF LoopInd, Ind, Control, AcceptClient
<1>3. /\ fd \in ConnFds /\ fdconn[fd] = NoConn
      /\ k0 \in Slots
      /\ client \in [Slots -> {-1} \cup ConnFds]
      /\ fdconn \in [ConnFds -> Conns \cup {NoConn}]
  BY <1>0 DEF FreeFds, FreeSlots, Types
<1>4. Awaited = rset \ {ListenFd}
  BY <1>2 DEF Awaited
<1>5. \A f \in Awaited : f \in ConnFds /\ fdconn[f] \in Conns
  BY AwaitedHeld
<1>6. fd \notin Awaited
  BY <1>3, <1>5, NoConnAssumption
<1>7. ASSUME NEW f \in Awaited' PROVE f \in Awaited
  <2>1. PICK k \in Pending' : client'[k] = f
    BY <1>2 DEF Awaited
  <2>2. k \in 0 .. maxi' /\ f \in rset
    BY <1>2, <2>1 DEF Pending
  <2>3. k \in Slots
    BY <1>0, <1>1, <1>3, <2>2, Numbers DEF Slots
  <2>4. f \in {-1} \cup ConnFds
    BY <1>1, <1>3, <2>1, <2>3
  <2> QED
    BY <1>0, <1>4, <2>2, <2>4, Numbers
<1>8. \A f \in Awaited' : fdconn'[f] = fdconn[f]
  BY <1>1, <1>3, <1>5, <1>6, <1>7
<1> QED
  BY <1>2, <1>7, <1>8, NarrowsReady

(* Of the slots behind i nothing changes while the one at i is served.     *)
LEMMA ServesOne ==
  ASSUME LoopInd, pc \in {"scan", "write"},
         \/ pc' \in {"scan", "select"} /\ i' = i + 1
         \/ pc' = "write" /\ i' = i,
         UNCHANGED <<rset, maxi>>,
         \A k \in i + 1 .. maxi : client'[k] = client[k]
  PROVE  /\ Awaited' \subseteq Awaited
         /\ \A f \in Awaited' : \E k \in Taken : k # i /\ client[k] = f
<1>0. i \in Nat /\ maxi \in Int
  BY Numbers DEF LoopInd, Ind
<1>1. \A f \in Awaited' : \E k \in Pending' : client'[k] = f /\ k # i
  <2>1. CASE pc' = "write" /\ i' = i
    BY <2>1 DEF Awaited
  <2>2. CASE pc' \in {"scan", "select"} /\ i' = i + 1
    BY <1>0, <2>2 DEF Awaited, Pending
  <2> QED
    BY <2>1, <2>2
<1>2. \A k \in Pending' : k # i => k \in Pending \ {i} /\ client'[k] = client[k]
  <2>1. \A k \in Pending' : k # i => k \in i + 1 .. maxi /\ client'[k] \in rset
    BY <1>0 DEF Pending
  <2> QED
    BY <1>0, <2>1 DEF Pending
<1>3. \A f \in Awaited' : \E k \in Pending \ {i} : client[k] = f
  BY <1>1, <1>2
<1>4. \A f \in Awaited' : f \in Awaited
  BY <1>3 DEF Awaited
<1> QED
  BY <1>3, <1>4, PendingHeld

LEMMA OneServed ==
  ASSUME LoopInd, pc \in {"scan", "write"},
         NEW c \in Conns, i \in Slots, client[i] \in ConnFds, fdconn[client[i]] = c,
         \/ pc' \in {"scan", "select"} /\ i' = i + 1
         \/ pc' = "write" /\ i' = i,
         UNCHANGED <<rset, maxi, cend, rstS>>,
         client' = client \/ client' = [client EXCEPT ![i] = -1],
         fdconn' = fdconn \/ fdconn' = [fdconn EXCEPT ![client[i]] = NoConn],
         \A d \in Conns : d # c => c2s'[d] = c2s[d]
  PROVE  StillReady'
<1>0. Types /\ TablesAgree /\ OnePlace
  BY DEF LoopInd, Ind
<1>1. \A k \in i + 1 .. maxi : client'[k] = client[k]
  <2>1. \A k \in i + 1 .. maxi : k \in Slots /\ k # i
    BY <1>0, Numbers DEF Slots
  <2> QED
    BY <1>0, <2>1 DEF Types
<1>2. /\ Awaited' \subseteq Awaited
      /\ \A f \in Awaited' : \E k \in Taken : k # i /\ client[k] = f
  BY <1>1, ServesOne
<1>3. i \in Taken
  BY <1>0, Numbers DEF Taken
<1>4. \A f \in Awaited' : f # client[i]
  BY <1>0, <1>2, <1>3 DEF TablesAgree
<1>5. \A f \in Awaited' : f \in ConnFds /\ fdconn[f] \in Conns
  BY <1>2, AwaitedHeld
<1>6. \A f \in Awaited' : fdconn'[f] = fdconn[f] /\ fdconn[f] # c
  <2>1. /\ fdconn \in [ConnFds -> Conns \cup {NoConn}]
        /\ c # NoConn /\ client[i] \in ConnFds
    BY <1>0, NoConnAssumption DEF Types
  <2>2. \A f \in Awaited' : fdconn[f] # c
    BY <1>0, <1>4, <1>5, <2>1 DEF OnePlace
  <2>3. \A f \in Awaited' : fdconn'[f] = fdconn[f]
    BY <1>4, <1>5, <2>1
  <2> QED
    BY <2>2, <2>3
<1> QED
  BY <1>2, <1>5, <1>6, NarrowsReady

LEMMA ServeAwaits ==
  ASSUME LoopInd, NEW c \in Conns, ReadData(c) \/ ReadEof(c) \/ Respond(c)
  PROVE  StillReady'
<1>0. Ind /\ c2s \in [Conns -> Seq(Unit)]
  BY DEF LoopInd, Ind, Types
<1>1. CASE ReadData(c)
  <2>1. /\ pc = "scan" /\ pc' = "write" /\ i' = i
        /\ UNCHANGED <<client, fdconn, rset, maxi, cend, rstS>>
        /\ \E s : c2s' = [c2s EXCEPT ![c] = s]
    BY <1>1 DEF ReadData, Reading, tabvars
  <2>2. i \in Slots /\ client[i] \in ConnFds /\ fdconn[client[i]] = c
    BY <1>0, <1>1, AtSlot DEF ReadData
  <2>3. \A d \in Conns : d # c => c2s'[d] = c2s[d]
    BY <1>0, <2>1
  <2> QED
    BY <2>1, <2>2, <2>3, OneServed
<1>2. CASE ReadEof(c)
  <2>1. /\ pc = "scan" /\ pc' = "write" /\ i' = i
        /\ client' = [client EXCEPT ![i] = -1]
        /\ fdconn' = [fdconn EXCEPT ![client[i]] = NoConn]
        /\ UNCHANGED <<rset, maxi, cend, rstS, c2s>>
    BY <1>2 DEF ReadEof, Reading, CloseClient
  <2>2. i \in Slots /\ client[i] \in ConnFds /\ fdconn[client[i]] = c
    BY <1>0, <1>2, AtSlot DEF ReadEof
  <2> QED
    BY <2>1, <2>2, OneServed
<1>3. CASE Respond(c)
  <2>1. /\ pc = "write" /\ pc' \in {"scan", "select"} /\ i' = i + 1
        /\ client' = [client EXCEPT ![i] = -1]
        /\ fdconn' = [fdconn EXCEPT ![client[i]] = NoConn]
        /\ UNCHANGED <<rset, maxi, cend, rstS, c2s>> /\ fdconn[sockfd] = c
    BY <1>3 DEF Respond, HangUp, CloseClient, NextReady
  <2>2. i \in Slots /\ client[i] \in ConnFds /\ fdconn[client[i]] = c
    BY <1>0, <2>1, AtWrite
  <2> QED
    BY <2>1, <2>2, OneServed
<1> QED
  BY <1>1, <1>2, <1>3

(* Nobody but the server takes away what makes a connection readable.      *)
LEMMA StaysReadable ==
  ASSUME Ind, NEW d \in Conns, send[d] = "open", SrvReadable(d),
         NetNext \/ \E c \in Conns : UaNext(c) \/ UaGiveUp(c)
  PROVE  SrvReadable(d)'
<1>0. Types /\ Each(d) /\ \A c \in Conns : Each(c)
  BY DEF Ind
<1>1. ASSUME NEW c \in Conns, ResetServer(c) \/ ResetClient(c)
      PROVE  SrvReadable(d)'
  BY <1>0, <1>1, Zenon DEF Types, ResetServer, ResetClient, SrvReadable
<1>2. ASSUME NEW c \in Conns, UaConnect(c) PROVE SrvReadable(d)'
  <2>1. c # d
    BY <1>0, <1>2 DEF UaConnect, Each, Agent
  <2> QED
    BY <1>0, <1>2, <2>1 DEF UaConnect, Types, SrvReadable
<1>3. ASSUME NEW c \in Conns, UaSend(c) PROVE SrvReadable(d)'
  <2>1. Append(c2s[c], <<c, sent[c] + 1>>) # <<>>
    <3>1. c2s[c] \in Seq(Unit) /\ <<c, sent[c] + 1>> \in Unit
      <4>1. c2s[c] \in Seq(Unit) /\ sent[c] \in Nat
        BY <1>0 DEF Types
      <4> QED
        BY <4>1 DEF Unit
    <3> QED
      BY <3>1, AppendProperties
  <2> QED
    BY <1>0, <1>3, <2>1 DEF UaSend, Types, SrvReadable
<1>4. ASSUME NEW c \in Conns, NEW how, UaEnd(c, how) PROVE SrvReadable(d)'
  BY <1>0, <1>4 DEF UaEnd, Types, SrvReadable
<1> QED
  BY <1>1, <1>2, <1>3, <1>4 DEF NetNext, UaNext, UaRead, UaFail, UaGiveUp

LEMMA NextAwaits ==
  ASSUME LoopInd, [Next]_vars
  PROVE  StillReady'
<1>1. CASE SrvNext
  <2>1. CASE Select
    BY <2>1, SelectAnnounces
  <2>2. CASE AcceptClient
    BY <2>2, AcceptAwaits
  <2>3. CASE SkipSlot
    <3>1. /\ pc = "scan" /\ pc' \in {"scan", "select"} /\ i' = i + 1
          /\ UNCHANGED <<rset, client, maxi, fdconn, c2s, cend, rstS>>
      BY <2>3 DEF SkipSlot, tabvars, netvars
    <3>2. Awaited' \subseteq Awaited
      BY <3>1, ServesOne
    <3> QED
      BY <3>1, <3>2, NarrowsReady
  <2>4. ASSUME NEW c \in Conns, ReadData(c) \/ ReadEof(c) \/ Respond(c)
        PROVE  StillReady'
    BY <2>4, ServeAwaits
  <2>5. ASSUME pc' = "dead" PROVE StillReady'
    BY <2>5 DEF StillReady, Awaited
  <2> QED
    BY <1>1, <2>1, <2>2, <2>3, <2>4, <2>5 DEF SrvNext, AcceptError,
       TooManyClients, ReadError, BadMethod, WriteError, SrvExit
<1>2. ASSUME UNCHANGED srvvars, NetNext \/ \E c \in Conns : UaNext(c) \/ UaGiveUp(c)
      PROVE  StillReady'
  <2>1. Awaited' = Awaited /\ fdconn' = fdconn
    BY <1>2 DEF srvvars, Awaited, Pending
  <2>2. SUFFICES ASSUME NEW f \in Awaited PROVE SrvReadable(fdconn[f])'
    BY <2>1 DEF StillReady
  <2>3. PICK d \in Conns : d = fdconn[f] /\ send[d] = "open"
    BY AwaitedHeld
  <2>4. SrvReadable(d)
    BY <2>3 DEF LoopInd, StillReady
  <2>5. SrvReadable(d)'
    BY <1>2, <2>3, <2>4, StaysReadable DEF LoopInd
  <2> QED
    BY <2>1, <2>3, <2>5 DEF SrvReadable
<1>3. CASE UNCHANGED vars
  <2>1. /\ Awaited' = Awaited
        /\ UNCHANGED <<fdconn, c2s, cend, rstS>>
    BY <1>3 DEF vars, srvvars, netvars, Awaited, Pending
  <2> QED
    BY <2>1, NarrowsReady
<1> QED
  BY <1>1, <1>2, <1>3 DEF Next

LEMMA AlwaysLoop == Spec => []LoopInd
<1>1. LoopInd /\ [Next]_vars => LoopInd'
  BY NextInd, NextTables, NextAwaits DEF LoopInd
<1> QED
  BY <1>1, InitLoop, PTL DEF Spec

(***************************************************************************)
(* client[], allset, maxi and maxfd (httpserver.c:223-295) always agree    *)
(* with each other and with the kernel's table, though the server closes a *)
(* connection from two places: at its end (269-271) and after every answer *)
(* (293-295).                                                              *)
(***************************************************************************)
THEOREM HttpTablesAlwaysAgree == Spec => []TablesAgree
BY AlwaysLoop, PTL DEF LoopInd

(***************************************************************************)
(* Whatever the agents do after Select has returned (httpserver.c:234),    *)
(* Accept (238) and Read (267) find what it announced: the HTTP server     *)
(* never blocks in them.                                                   *)
(***************************************************************************)
THEOREM HttpNeverBlocksOnStale == Spec => []NeverBlocksOnStaleReady
<1>1. LoopInd => NeverBlocksOnStaleReady
  BY DEF LoopInd, StillReady, Awaited, Ind, Control, NeverBlocksOnStaleReady
<1> QED
  BY <1>1, AlwaysLoop, PTL

-----------------------------------------------------------------------------
(***************************************************************************)
(* The request of one bufferful (HttpRequest.tla).  The invariant says of  *)
(* every field which call it comes from without CHOOSE, of the list that   *)
(* its headers are in the order of their names and, while parsing, that    *)
(* none is missing, and of the heap what LosesOnlyReplaced says.           *)
(***************************************************************************)
\* The kinds of data callback, of block, and the shape of a header.
Kinds == {"url", "field", "value", "body"}
Block == {"null", "request", "node"} \cup Kinds
Header == [node : Block \X Nat, name : Block \X Nat, value : Block \X Nat]

RequestTypeOK ==
  /\ phase \in {"start", "line", "version", "headers", "name", "value",
                "identity", "chunked", "print", "url", "body", "list",
                "freed", "crash"}
  /\ calls \in Seq(Kinds)
  /\ method \in {"uninitialised", "set"}
  /\ headers \in Seq(Header)

\* The block b is the one of the last of the calls S, which are of kind k.
IsLast(b, k, S) ==
  \/ b = NULL /\ S = {}
  \/ \E x \in S : b = <<k, x>> /\ \A y \in S : y <= x

\* A request line was reported.
Messages == CallsOf("url") # {}

\* Method, URL and body.
LineInd ==
  /\ method = "set" <=> Messages
  /\ phase = "crash" => ~Messages
  /\ IsLast(url, "url", CallsOf("url"))
  /\ IsLast(body, "body", CallsOf("body"))

\* The call that named header k, and what header k is made of.
NamedBy(k) == headers[k].name[2]

HeaderInd(k) ==
  /\ NamedBy(k) \in CallsOf("field")
  /\ headers[k].node = <<"node", NamedBy(k)>>
  /\ headers[k].name = <<"field", NamedBy(k)>>
  /\ IsLast(headers[k].value, "value", ValuesOf(NamedBy(k)))

\* The list is in the order of the calls and, until it is freed, complete.
ListInd ==
  /\ \A k \in 1 .. Len(headers) : HeaderInd(k)
  /\ \A k, l \in 1 .. Len(headers) : k < l => NamedBy(k) < NamedBy(l)
  /\ Parsing => \A f \in CallsOf("field") :
                   \E k \in 1 .. Len(headers) : NamedBy(k) = f
  /\ phase \in {"name", "value"} => headers # <<>>
  /\ phase = "freed" => headers = <<>>

RequestInd == RequestTypeOK /\ LineInd /\ ListInd /\ heap = Replaced \cup Held

LEMMA CallsAre ==
  ASSUME RequestTypeOK
  PROVE  /\ Len(calls) \in Nat
         /\ \A k : \A x \in CallsOf(k) : x \in Nat /\ 0 < x /\ x <= Len(calls)
         /\ \A k : \A x \in CallsOf(k) : calls[x] = k
         /\ \A f : ValuesOf(f) \subseteq CallsOf("value")
BY LenProperties DEF RequestTypeOK, CallsOf, ValuesOf

LEMMA CallMade ==
  ASSUME RequestTypeOK, NEW k \in Kinds, Call(k)
  PROVE  /\ calls' \in Seq(Kinds)
         /\ CallsOf(k)' = CallsOf(k) \cup {Len(calls) + 1}
         /\ \A j : j # k => CallsOf(j)' = CallsOf(j)
<1>1. /\ calls' \in Seq(Kinds) /\ Len(calls') = Len(calls) + 1
      /\ \A n \in 1 .. Len(calls) : calls'[n] = calls[n]
      /\ calls'[Len(calls) + 1] = k
  BY AppendProperties DEF Call, RequestTypeOK
<1>2. Len(calls) \in Nat
  BY LenProperties DEF RequestTypeOK
<1> QED
  BY <1>1, <1>2 DEF CallsOf

LEMMA CallsKept ==
  ASSUME UNCHANGED calls
  PROVE  /\ \A k : CallsOf(k)' = CallsOf(k)
         /\ \A f : ValuesOf(f)' = ValuesOf(f)
         /\ Replaced' = Replaced
BY DEF CallsOf, ValuesOf, SameHeader, Replaced

\* A later call took the place of call x, of kind k, in the request.
Superseded(k, x) ==
  \E y \in CallsOf(k) : x < y /\ (k = "value" => SameHeader(x, y))

LEMMA ReplacedIs ==
  \A b : b \in Replaced <=>
    \E k \in {"url", "body", "value"} : \E x \in CallsOf(k) :
      b = <<k, x>> /\ Superseded(k, x)
<1>1. \A k : \A x \in CallsOf(k) : calls[x] = k
  BY DEF CallsOf
<1> QED
  BY <1>1 DEF Replaced, Superseded

LEMMA ReplacedIsNext ==
  \A b : b \in Replaced' <=>
    \E k \in {"url", "body", "value"} : \E x \in CallsOf(k)' :
      b = <<k, x>> /\ Superseded(k, x)'
<1>1. \A k : \A x \in CallsOf(k)' : calls'[x] = k
  BY DEF CallsOf
<1> QED
  BY <1>1 DEF Replaced, Superseded

LEMMA HeldIs ==
  ASSUME NEW b
  PROVE  b \in Held <=>
           /\ b # NULL
           /\ \/ \E k \in 1 .. Len(headers) : b \in Blocks(k)
              \/ b = url /\ phase \notin {"body", "list", "freed"}
              \/ b = body /\ phase \notin {"list", "freed"}
              \/ b = Request /\ phase # "freed"
<1>1. b \in ListBlocks <=> \E k \in 1 .. Len(headers) : b \in Blocks(k)
  BY DEF ListBlocks
<1>2. b \in Held <=>
        /\ b # NULL
        /\ \/ b \in ListBlocks
           \/ b = url /\ phase \notin {"body", "list", "freed"}
           \/ b = body /\ phase \notin {"list", "freed"}
           \/ b = Request /\ phase # "freed"
  BY DEF Held
<1> QED
  BY <1>1, <1>2

LEMMA HeldIsNext ==
  ASSUME NEW b
  PROVE  b \in Held' <=>
           /\ b # NULL
           /\ \/ \E k \in 1 .. Len(headers') : b \in Blocks(k)'
              \/ b = url' /\ phase' \notin {"body", "list", "freed"}
              \/ b = body' /\ phase' \notin {"list", "freed"}
              \/ b = Request /\ phase' # "freed"
<1>1. b \in ListBlocks' <=> \E k \in 1 .. Len(headers') : b \in Blocks(k)'
  BY DEF ListBlocks
<1>2. b \in Held' <=>
        /\ b # NULL
        /\ \/ b \in ListBlocks'
           \/ b = url' /\ phase' \notin {"body", "list", "freed"}
           \/ b = body' /\ phase' \notin {"list", "freed"}
           \/ b = Request /\ phase' # "freed"
  BY DEF Held, NULL, Request
<1> QED
  BY <1>1, <1>2

LEMMA StartsRight == RequestInit => RequestInd
<1> SUFFICES ASSUME RequestInit PROVE RequestInd
  OBVIOUS
<1>1. RequestTypeOK /\ Len(calls) = 0 /\ Len(headers) = 0
  BY EmptySeq DEF RequestInit, RequestTypeOK
<1>2. \A k : CallsOf(k) = {}
  BY <1>1 DEF CallsOf
<1>3. LineInd
  BY <1>2 DEF RequestInit, LineInd, Messages, IsLast
<1>4. ListInd
  BY <1>1, <1>2 DEF RequestInit, ListInd
<1>5. heap = Replaced \cup Held
  BY <1>1, <1>2, ReplacedIs, HeldIs DEF RequestInit, NULL, Request
<1> QED
  BY <1>1, <1>3, <1>4, <1>5 DEF RequestInd

LEMMA MessagesKept ==
  ASSUME CallsOf("url")' = CallsOf("url")
  PROVE  Messages' <=> Messages
BY DEF Messages

LEMMA HeadersKept ==
  ASSUME UNCHANGED <<calls, headers>>
  PROVE  /\ \A k : NamedBy(k)' = NamedBy(k) /\ Blocks(k)' = Blocks(k)
         /\ \A k : HeaderInd(k)' <=> HeaderInd(k)
<1>1. \A k : NamedBy(k)' = NamedBy(k) /\ Blocks(k)' = Blocks(k)
  BY DEF NamedBy, Blocks
<1>2. CallsOf("field")' = CallsOf("field") /\ \A f : ValuesOf(f)' = ValuesOf(f)
  BY CallsKept
<1>3. \A k : headers'[k] = headers[k]
  OBVIOUS
<1> QED
  BY <1>1, <1>2, <1>3 DEF HeaderInd, IsLast, NULL

\* What every step that makes no call and leaves the list alone keeps.
LEMMA QuietKeeps ==
  ASSUME RequestInd, UNCHANGED <<calls, reqvars>>, phase' # phase,
         phase # "freed", phase # "crash",
         Parsing' => Parsing,
         phase' \in {"name", "value"} => phase \in {"name", "value"},
         phase' = "freed" => headers = <<>>,
         RequestTypeOK'
  PROVE  ListInd'
<1>1. UNCHANGED headers
  BY DEF reqvars
<1>2. CallsOf("field")' = CallsOf("field")
  BY CallsKept
<1>3. /\ \A k : NamedBy(k)' = NamedBy(k)
      /\ \A k : HeaderInd(k)' <=> HeaderInd(k)
  BY <1>1, HeadersKept
<1> QED
  BY <1>1, <1>2, <1>3 DEF RequestInd, ListInd

\* The phases in which the request still points to all it was given.
Whole == phase \notin {"body", "list", "freed"}

LEMMA QuietHeap ==
  ASSUME UNCHANGED <<calls, reqvars, heap>>, Whole, Whole',
         heap = Replaced \cup Held
  PROVE  heap' = Replaced' \cup Held'
<1>1. UNCHANGED <<headers, url, body>>
  BY DEF reqvars
<1>2. Len(headers') = Len(headers) /\ \A k : Blocks(k)' = Blocks(k)
  BY <1>1, HeadersKept
<1>3. ASSUME NEW b PROVE b \in Held' <=> b \in Held
  BY <1>1, <1>2, HeldIs, HeldIsNext DEF Whole
<1> QED
  BY <1>3, CallsKept

LEMMA ParserQuiet ==
  ASSUME RequestInd, MessageBegin \/ ParseVersion \/ HeadersComplete
                     \/ ParserReturns \/ ReportMethod
  PROVE  RequestInd'
<1>1. UNCHANGED <<calls, reqvars, heap>>
  BY DEF MessageBegin, ParseVersion, HeadersComplete, ParserReturns, ReportMethod
<1>2. RequestTypeOK'
  BY <1>1 DEF RequestInd, RequestTypeOK, reqvars, MessageBegin, ParseVersion,
              HeadersComplete, ParserReturns, ReportMethod
<1>3. /\ Parsing /\ Whole /\ Whole' /\ phase' # phase
      /\ phase' \notin {"name", "value", "freed"}
  BY DEF MessageBegin, ParseVersion, HeadersComplete, ParserReturns,
         ReportMethod, Parsing, Whole
<1>4. ListInd'
  BY <1>1, <1>2, <1>3, QuietKeeps DEF Parsing
<1>5. heap' = Replaced' \cup Held'
  BY <1>1, <1>3, QuietHeap DEF RequestInd
<1>6. LineInd'
  <2>1. Messages' <=> Messages
    BY <1>1, CallsKept, MessagesKept
  <2>2. /\ IsLast(url, "url", CallsOf("url"))' <=> IsLast(url, "url", CallsOf("url"))
        /\ IsLast(body, "body", CallsOf("body"))'
             <=> IsLast(body, "body", CallsOf("body"))
    BY <1>1, CallsKept DEF IsLast, reqvars, NULL
  <2>3. method' = method
    BY <1>1 DEF reqvars
  <2>4. phase' = "crash" => ~Messages
    BY DEF RequestInd, LineInd, RequestTypeOK, MessageBegin, ParseVersion,
           HeadersComplete, ParserReturns, ReportMethod
  <2> QED
    BY <2>1, <2>2, <2>3, <2>4 DEF RequestInd, LineInd
<1> QED
  BY <1>2, <1>4, <1>5, <1>6 DEF RequestInd

\* The block last reported of its kind was not replaced.
LEMMA LastNotReplaced ==
  ASSUME RequestTypeOK, NEW k \in {"url", "body"}, NEW b, b # NULL,
         IsLast(b, k, CallsOf(k))
  PROVE  b \notin Replaced /\ \E x \in CallsOf(k) : b = <<k, x>>
<1>1. PICK x \in CallsOf(k) : b = <<k, x>> /\ \A y \in CallsOf(k) : y <= x
  BY DEF IsLast
<1>2. ~Superseded(k, x)
  BY <1>1, CallsAre DEF Superseded
<1> QED
  BY <1>1, <1>2, ReplacedIs

\* The blocks of a header: its node, its name, and the last line of its value.
LEMMA HeaderBlocks ==
  ASSUME RequestTypeOK, NEW k, HeaderInd(k), NEW b \in Blocks(k), b # NULL
  PROVE  /\ b \notin Replaced
         /\ \/ b = <<"node", NamedBy(k)>>
            \/ b = <<"field", NamedBy(k)>>
            \/ \E x \in ValuesOf(NamedBy(k)) : b = <<"value", x>>
<1> DEFINE f == NamedBy(k)
<1>1. f \in CallsOf("field")
  BY DEF HeaderInd
<1>2. CASE b = <<"node", f>> \/ b = <<"field", f>>
  BY <1>2, ReplacedIs
<1>3. CASE b = headers[k].value
  <2>1. PICK x \in ValuesOf(f) : b = <<"value", x>> /\ \A y \in ValuesOf(f) : y <= x
    BY <1>3 DEF HeaderInd, IsLast
  <2>2. ASSUME Superseded("value", x) PROVE FALSE
    <3>1. PICK y \in CallsOf("value") : x < y /\ SameHeader(x, y)
      BY <2>2 DEF Superseded
    <3>2. SameHeader(f, x) /\ f < x
      BY DEF ValuesOf
    <3>3. f \in Nat /\ x \in Nat /\ y \in Nat
      BY <1>1, CallsAre
    <3>4. y \in ValuesOf(f)
      BY <3>1, <3>2, <3>3, CallsAre DEF ValuesOf, SameHeader
    <3> QED
      BY <3>1, <3>3, <3>4, <2>1
  <2> QED
    BY <2>1, <2>2, ReplacedIs
<1> QED
  BY <1>2, <1>3 DEF Blocks, HeaderInd

LEMMA HeldNotReplaced ==
  ASSUME RequestInd
  PROVE  Replaced \cap Held = {}
<1> SUFFICES ASSUME NEW b \in Held PROVE b \notin Replaced
  OBVIOUS
<1>1. b # NULL
  BY HeldIs
<1>2. ASSUME NEW k \in 1 .. Len(headers), b \in Blocks(k) PROVE b \notin Replaced
  BY <1>1, <1>2, HeaderBlocks DEF RequestInd, ListInd
<1>3. CASE b = url
  BY <1>1, <1>3, LastNotReplaced DEF RequestInd, LineInd
<1>4. CASE b = body
  BY <1>1, <1>4, LastNotReplaced DEF RequestInd, LineInd
<1>5. CASE b = Request
  BY <1>5, ReplacedIs DEF Request
<1> QED
  BY <1>2, <1>3, <1>4, <1>5, HeldIs

\* Two headers have no block in common.
LEMMA HeadersApart ==
  ASSUME RequestInd, NEW k \in 1 .. Len(headers), NEW l \in 1 .. Len(headers),
         k < l, NEW b \in Blocks(k), b \in Blocks(l)
  PROVE  b = NULL
<1> SUFFICES ASSUME b # NULL PROVE FALSE
  OBVIOUS
<1> DEFINE f == NamedBy(k)
           g == NamedBy(l)
<1>1. f \in CallsOf("field") /\ g \in CallsOf("field") /\ f < g
  BY DEF RequestInd, ListInd, HeaderInd
<1>2. f \in Nat /\ g \in Nat
  BY <1>1, CallsAre DEF RequestInd
<1>3. \/ b = <<"node", f>>
      \/ b = <<"field", f>>
      \/ \E x \in ValuesOf(f) : b = <<"value", x>>
  BY HeaderBlocks DEF RequestInd, ListInd
<1>4. \/ b = <<"node", g>>
      \/ b = <<"field", g>>
      \/ \E x \in ValuesOf(g) : b = <<"value", x>>
  BY HeaderBlocks DEF RequestInd, ListInd
<1>5. ASSUME NEW x \in ValuesOf(f), x \in ValuesOf(g) PROVE FALSE
  <2>1. x \in Nat
    BY CallsAre DEF RequestInd
  <2>2. g < x /\ ~(f < g /\ g <= x)
    BY <1>1, <1>5 DEF ValuesOf, SameHeader
  <2> QED
    BY <1>1, <1>2, <2>1, <2>2
<1> QED
  BY <1>1, <1>2, <1>3, <1>4, <1>5

\* What a header holds is neither the URL, the body nor the request itself.
LEMMA HeadersOnly ==
  ASSUME RequestInd, NEW k \in 1 .. Len(headers), NEW b \in Blocks(k), b # NULL
  PROVE  b # url /\ b # body /\ b # Request
<1>1. \/ b = <<"node", NamedBy(k)>>
      \/ b = <<"field", NamedBy(k)>>
      \/ \E x \in ValuesOf(NamedBy(k)) : b = <<"value", x>>
  BY HeaderBlocks DEF RequestInd, ListInd
<1>2. /\ url = NULL \/ \E x \in CallsOf("url") : url = <<"url", x>>
      /\ body = NULL \/ \E x \in CallsOf("body") : body = <<"body", x>>
  BY DEF RequestInd, LineInd, IsLast
<1> QED
  BY <1>1, <1>2 DEF Request

LEMMA FieldsApart ==
  ASSUME RequestInd
  PROVE  /\ url # NULL => url # body
         /\ url # Request /\ body # Request
<1>1. /\ url = NULL \/ \E x \in CallsOf("url") : url = <<"url", x>>
      /\ body = NULL \/ \E x \in CallsOf("body") : body = <<"body", x>>
  BY DEF RequestInd, LineInd, IsLast
<1> QED
  BY <1>1 DEF Request, NULL

LEMMA ReleaseLine ==
  ASSUME RequestInd, UNCHANGED <<calls, method, url, body>>,
         phase' \in {"body", "list", "freed"}
  PROVE  LineInd'
<1>1. Messages' <=> Messages
  BY CallsKept, MessagesKept
<1>2. /\ IsLast(url, "url", CallsOf("url"))' <=> IsLast(url, "url", CallsOf("url"))
      /\ IsLast(body, "body", CallsOf("body"))'
           <=> IsLast(body, "body", CallsOf("body"))
  BY CallsKept DEF IsLast, NULL
<1> QED
  BY <1>1, <1>2 DEF RequestInd, LineInd

LEMMA FieldsFreed ==
  ASSUME RequestInd, FreeUrl \/ FreeBody \/ FreeRequest
  PROVE  RequestInd'
<1>1. UNCHANGED <<calls, reqvars, headers, url, body>>
  BY DEF FreeUrl, FreeBody, FreeRequest, reqvars
<1>2. RequestTypeOK'
  BY <1>1 DEF RequestInd, RequestTypeOK, reqvars, FreeUrl, FreeBody, FreeRequest
<1>3. LineInd'
  BY <1>1, ReleaseLine DEF FreeUrl, FreeBody, FreeRequest, reqvars
<1>4. ListInd'
  BY <1>1, <1>2, QuietKeeps DEF FreeUrl, FreeBody, FreeRequest, Parsing
<1>5. Replaced' = Replaced /\ Len(headers') = Len(headers)
  BY <1>1, CallsKept
<1>6. \A k : Blocks(k)' = Blocks(k)
  BY <1>1, HeadersKept
<1>7. \A b \in heap : b \in Held => b \notin Replaced
  BY HeldNotReplaced
<1>8. /\ NULL \notin Held /\ Request \notin Replaced
      /\ url \notin Replaced \/ url = NULL
      /\ body \notin Replaced \/ body = NULL
      /\ NULL \notin Replaced
  <2>1. NULL \notin Held /\ NULL \notin Replaced /\ Request \notin Replaced
    BY HeldIs, ReplacedIs DEF NULL, Request
  <2> QED
    BY <2>1, LastNotReplaced DEF RequestInd, LineInd
<1>9. CASE FreeUrl
  <2>1. ASSUME NEW b PROVE b \in Held' <=> b \in Held /\ b # url
    <3>1. phase = "url" /\ phase' = "body"
      BY <1>9 DEF FreeUrl
    <3> QED
      BY <1>1, <1>5, <1>6, <3>1, HeldIs, HeldIsNext, HeadersOnly, FieldsApart
  <2> QED
    BY <1>2, <1>3, <1>4, <1>5, <1>8, <1>9, <2>1 DEF RequestInd, FreeUrl
<1>10. CASE FreeBody
  <2>1. ASSUME NEW b PROVE b \in Held' <=> b \in Held /\ b # body
    <3>1. phase = "body" /\ phase' = "list"
      BY <1>10 DEF FreeBody
    <3> QED
      BY <1>1, <1>5, <1>6, <3>1, HeldIs, HeldIsNext, HeadersOnly, FieldsApart
  <2> QED
    BY <1>2, <1>3, <1>4, <1>5, <1>8, <1>10, <2>1 DEF RequestInd, FreeBody
<1>11. CASE FreeRequest
  <2>1. ASSUME NEW b PROVE b \in Held' <=> b \in Held /\ b # Request
    <3>1. phase = "list" /\ phase' = "freed" /\ headers = <<>>
      BY <1>11 DEF FreeRequest
    <3> QED
      BY <1>1, <1>5, <1>6, <3>1, HeldIs, HeldIsNext
  <2> QED
    BY <1>2, <1>3, <1>4, <1>5, <1>8, <1>11, <2>1 DEF RequestInd, FreeRequest
<1> QED
  BY <1>9, <1>10, <1>11

LEMMA HeaderFreed ==
  ASSUME RequestInd, FreeHeader
  PROVE  RequestInd'
<1>1. /\ UNCHANGED <<phase, calls, method, url, body>>
      /\ phase = "list" /\ headers # <<>> /\ headers' = Tail(headers)
      /\ heap' = heap \ {headers[1].name, headers[1].value, headers[1].node}
  BY DEF FreeHeader, delete_http_header, RequestInd, RequestTypeOK
<1>2. /\ headers' \in Seq(Header) /\ Len(headers') = Len(headers) - 1
      /\ Len(headers) \in Nat /\ Len(headers) >= 1
      /\ \A k \in 1 .. Len(headers') : headers'[k] = headers[k + 1]
  <2>1. headers \in Seq(Header) /\ Len(headers) \in Nat
    BY LenProperties DEF RequestInd, RequestTypeOK
  <2>2. Len(headers) # 0
    BY <1>1, <2>1, EmptySeq
  <2> QED
    BY <1>1, <2>1, <2>2, HeadTailProperties
<1>3. RequestTypeOK'
  BY <1>1, <1>2 DEF RequestInd, RequestTypeOK
<1>4. LineInd'
  BY <1>1, ReleaseLine
<1>5. /\ \A k \in 1 .. Len(headers') : k + 1 \in 1 .. Len(headers)
      /\ \A k \in 1 .. Len(headers') : NamedBy(k)' = NamedBy(k + 1)
      /\ \A k \in 1 .. Len(headers') : Blocks(k)' = Blocks(k + 1)
  BY <1>2 DEF NamedBy, Blocks
<1>6. ListInd'
  <2>1. CallsOf("field")' = CallsOf("field") /\ \A f : ValuesOf(f)' = ValuesOf(f)
    BY <1>1, CallsKept
  <2>2. ASSUME NEW k \in 1 .. Len(headers') PROVE HeaderInd(k)'
    <3>1. HeaderInd(k + 1)
      BY <1>5 DEF RequestInd, ListInd
    <3> QED
      BY <3>1, <1>2, <1>5, <2>1 DEF HeaderInd, IsLast, NULL
  <2>3. ASSUME NEW k \in 1 .. Len(headers'), NEW l \in 1 .. Len(headers'), k < l
        PROVE  NamedBy(k)' < NamedBy(l)'
    <3>1. k + 1 < l + 1
      BY <2>3, <1>2
    <3> QED
      BY <3>1, <1>5 DEF RequestInd, ListInd
  <2> QED
    BY <1>1, <2>2, <2>3 DEF ListInd, Parsing
<1>7. heap' = heap \ Blocks(1) /\ 1 \in 1 .. Len(headers)
  BY <1>1, <1>2 DEF Blocks
<1>8. ASSUME NEW b PROVE b \in Held' <=> b \in Held /\ b \notin Blocks(1)
  <2>1. (\E k \in 1 .. Len(headers) : b \in Blocks(k)) <=>
          b \in Blocks(1) \/ \E k \in 1 .. Len(headers') : b \in Blocks(k)'
    <3>1. \A k \in 1 .. Len(headers) : k = 1 \/ (k - 1 \in 1 .. Len(headers')
                                                 /\ k = (k - 1) + 1)
      BY <1>2
    <3> QED
      BY <3>1, <1>5, <1>7
  <2>2. ASSUME b \in Blocks(1), NEW k \in 1 .. Len(headers'), b \in Blocks(k)'
        PROVE  b = NULL
    <3>1. 1 < k + 1 /\ k + 1 \in 1 .. Len(headers) /\ b \in Blocks(k + 1)
      BY <2>2, <1>2, <1>5
    <3> QED
      BY <2>2, <3>1, <1>7, HeadersApart
  <2>3. b \in Blocks(1) /\ b # NULL => b # Request
    BY <1>7, HeadersOnly
  <2> QED
    BY <1>1, <2>1, <2>2, <2>3, HeldIs, HeldIsNext
<1>9. ASSUME NEW b \in Blocks(1) PROVE b \notin Replaced
  <2>1. NULL \notin Replaced
    BY ReplacedIs DEF NULL
  <2> QED
    BY <2>1, <1>7, HeaderBlocks DEF RequestInd, ListInd
<1>10. heap' = Replaced' \cup Held'
  BY <1>1, <1>7, <1>8, <1>9, CallsKept DEF RequestInd
<1> QED
  BY <1>3, <1>4, <1>6, <1>10 DEF RequestInd

LEMMA SameHeaderAfter ==
  ASSUME RequestTypeOK, NEW k \in Kinds, Call(k)
  PROVE  /\ \A m, n \in Nat :
              n <= Len(calls) => (SameHeader(m, n)' <=> SameHeader(m, n))
         /\ \A m, n \in Nat : k = "value" /\ n = Len(calls) + 1
              => (SameHeader(m, n)' <=> SameHeader(m, Len(calls)))
<1>0. PICK N \in Nat : N = Len(calls) + 1
  BY CallsAre
<1>1. /\ Len(calls) \in Nat
      /\ \A j : \A x \in CallsOf(j) : x \in Nat /\ x <= Len(calls)
  BY CallsAre
<1>2. /\ CallsOf(k)' = CallsOf(k) \cup {N}
      /\ \A j : j # k => CallsOf(j)' = CallsOf(j)
  BY <1>0, CallMade
<1>3. \A m, n \in Nat : n <= Len(calls) => (SameHeader(m, n)' <=> SameHeader(m, n))
  <2>1. CASE k = "field"
    BY <2>1, <1>0, <1>1, <1>2 DEF SameHeader
  <2>2. CASE k # "field"
    BY <2>2, <1>1, <1>2 DEF SameHeader
  <2> QED
    BY <2>1, <2>2
<1>4. k = "value" => \A m \in Nat :
                       SameHeader(m, N)' <=> SameHeader(m, Len(calls))
  BY <1>0, <1>1, <1>2 DEF SameHeader
<1> QED
  BY <1>0, <1>3, <1>4

LEMMA ValuesAfter ==
  ASSUME RequestTypeOK, NEW k \in Kinds, Call(k), NEW f \in CallsOf("field")
  PROVE  /\ k # "value" => ValuesOf(f)' = ValuesOf(f)
         /\ k = "value" => ValuesOf(f)' = ValuesOf(f) \cup
              {n \in {Len(calls) + 1} : SameHeader(f, Len(calls))}
<1>0. PICK N \in Nat : N = Len(calls) + 1
  BY CallsAre
<1>1. /\ Len(calls) \in Nat /\ f \in Nat /\ f <= Len(calls)
      /\ \A j : \A x \in CallsOf(j) : x \in Nat /\ x <= Len(calls)
  BY CallsAre
<1>2. /\ CallsOf(k)' = CallsOf(k) \cup {N}
      /\ \A j : j # k => CallsOf(j)' = CallsOf(j)
  BY <1>0, CallMade
<1>3. \A n \in Nat : n <= Len(calls) => (SameHeader(f, n)' <=> SameHeader(f, n))
  BY <1>1, SameHeaderAfter
<1>4. k = "value" => (SameHeader(f, N)' <=> SameHeader(f, Len(calls)))
  BY <1>0, <1>1, SameHeaderAfter
<1>5. CASE k # "value"
  BY <1>1, <1>2, <1>3, <1>5 DEF ValuesOf
<1>6. CASE k = "value"
  <2>1. f < N /\ N \in CallsOf("value")'
    BY <1>0, <1>1, <1>2, <1>6
  <2>2. N \in ValuesOf(f)' <=> SameHeader(f, Len(calls))
    BY <1>4, <1>6, <2>1 DEF ValuesOf
  <2>3. \A x : x # N => (x \in ValuesOf(f)' <=> x \in ValuesOf(f))
    <3>1. \A x : x # N => (x \in CallsOf("value")' <=> x \in CallsOf("value"))
      BY <1>2, <1>6
    <3> QED
      BY <1>1, <1>3, <3>1 DEF ValuesOf
  <2>4. N \notin ValuesOf(f)
    BY <1>0, <1>1 DEF ValuesOf
  <2> QED
    BY <1>0, <1>6, <2>2, <2>3, <2>4
<1> QED
  BY <1>5, <1>6

\* What a call makes the request forget.
LEMMA ReplacedAfter ==
  ASSUME RequestTypeOK, NEW k \in Kinds, Call(k), NEW b
  PROVE  b \in Replaced' <=>
           \/ b \in Replaced
           \/ /\ k # "field"
              /\ \E x \in CallsOf(k) :
                   b = <<k, x>> /\ (k = "value" => SameHeader(x, Len(calls)))
<1>0. PICK N \in Nat : N = Len(calls) + 1
  BY CallsAre
<1>1. /\ Len(calls) \in Nat
      /\ \A j : \A x \in CallsOf(j) : x \in Nat /\ x <= Len(calls)
  BY CallsAre
<1>2. /\ CallsOf(k)' = CallsOf(k) \cup {N}
      /\ \A j : j # k => CallsOf(j)' = CallsOf(j)
  BY <1>0, CallMade
<1>3. \A m, n \in Nat : n <= Len(calls) => (SameHeader(m, n)' <=> SameHeader(m, n))
  BY SameHeaderAfter
<1>4. k = "value" => \A m \in Nat :
                       SameHeader(m, N)' <=> SameHeader(m, Len(calls))
  BY <1>0, SameHeaderAfter
<1>5. ASSUME NEW j \in {"url", "body", "value"}, NEW x \in CallsOf(j)
      PROVE  Superseded(j, x)' <=>
               \/ Superseded(j, x)
               \/ j = k /\ (k = "value" => SameHeader(x, Len(calls)))
  <2>1. CASE j # k
    BY <1>1, <1>2, <1>3, <2>1 DEF Superseded
  <2>2. CASE j = k
    <3>1. x \in Nat /\ x < N
      BY <1>0, <1>1
    <3>2. Superseded(j, x)' <=>
            \/ \E y \in CallsOf(j) : x < y /\ (k = "value" => SameHeader(x, y)')
            \/ k = "value" => SameHeader(x, N)'
      BY <1>2, <2>2, <3>1 DEF Superseded
    <3>3. \A y \in CallsOf(j) : SameHeader(x, y)' <=> SameHeader(x, y)
      BY <1>1, <1>3, <3>1
    <3> QED
      BY <2>2, <3>1, <3>2, <3>3, <1>4 DEF Superseded
  <2> QED
    BY <2>1, <2>2
<1>6. ASSUME NEW j PROVE ~Superseded(j, N)'
  BY <1>0, <1>1, <1>2 DEF Superseded
<1>7. b \in Replaced' <=>
        \E j \in {"url", "body", "value"} : \E x \in CallsOf(j) :
          b = <<j, x>> /\ Superseded(j, x)'
  <2>1. \A j : CallsOf(j) \subseteq CallsOf(j)' /\ CallsOf(j)' \subseteq CallsOf(j) \cup {N}
    BY <1>2
  <2> QED
    BY <1>6, <2>1, ReplacedIsNext
<1>8. b \in Replaced <=>
        \E j \in {"url", "body", "value"} : \E x \in CallsOf(j) :
          b = <<j, x>> /\ Superseded(j, x)
  BY ReplacedIs
<1> QED
  BY <1>5, <1>7, <1>8 DEF Kinds

\* A call of kind k replaces the block of the last call of that kind, if any.
LEMMA LastReplaced ==
  ASSUME RequestTypeOK, NEW k \in {"url", "body"}, Call(k), NEW b,
         IsLast(b, k, CallsOf(k))
  PROVE  /\ \A c : c \in Replaced' <=> c \in Replaced \/ (c = b /\ b # NULL)
         /\ IsLast(<<k, Len(calls) + 1>>, k, CallsOf(k)')
<1>0. k \in Kinds
  BY DEF Kinds
<1>1. /\ Len(calls) \in Nat
      /\ \A x \in CallsOf(k) : x \in Nat /\ x <= Len(calls)
  BY CallsAre
<1>2. CallsOf(k)' = CallsOf(k) \cup {Len(calls) + 1}
  BY <1>0, CallMade
<1>3. ASSUME NEW x \in CallsOf(k), b # <<k, x>> PROVE <<k, x>> \in Replaced
  <2>1. PICK y \in CallsOf(k) : b = <<k, y>> /\ \A z \in CallsOf(k) : z <= y
    BY DEF IsLast
  <2>2. x # y
    BY <1>3, <2>1
  <2>3. Superseded(k, x)
    BY <1>1, <2>1, <2>2 DEF Superseded
  <2> QED
    BY <2>3, ReplacedIs
<1>4. b = NULL => CallsOf(k) = {}
  BY DEF IsLast, NULL
<1>5. b # NULL => \E x \in CallsOf(k) : b = <<k, x>>
  BY DEF IsLast
<1>6. \A c : c \in Replaced' <=>
               c \in Replaced \/ \E x \in CallsOf(k) : c = <<k, x>>
  BY <1>0, ReplacedAfter
<1>7. \A c : (\E x \in CallsOf(k) : c = <<k, x>>)
               => c \in Replaced \/ (c = b /\ b # NULL)
  BY <1>3, <1>4
<1>8. \A c : c \in Replaced' <=> c \in Replaced \/ (c = b /\ b # NULL)
  BY <1>5, <1>6, <1>7
<1>9. \A y \in CallsOf(k)' : y <= Len(calls) + 1
  BY <1>1, <1>2
<1> QED
  BY <1>2, <1>8, <1>9 DEF IsLast

\* So does a further line of a value with the line before it.
LEMMA LineReplaced ==
  ASSUME RequestTypeOK, Call("value"), NEW f \in CallsOf("field"),
         \A z \in CallsOf("field") : z <= f,
         NEW b, IsLast(b, "value", ValuesOf(f))
  PROVE  /\ \A c : c \in Replaced' <=> c \in Replaced \/ (c = b /\ b # NULL)
         /\ IsLast(<<"value", Len(calls) + 1>>, "value", ValuesOf(f)')
<1>0. "value" \in Kinds
  BY DEF Kinds
<1>1. /\ Len(calls) \in Nat /\ f \in Nat
      /\ \A j : \A x \in CallsOf(j) : x \in Nat /\ x <= Len(calls)
  BY CallsAre
<1>2. SameHeader(f, Len(calls))
  BY <1>1 DEF SameHeader
<1>3. ValuesOf(f)' = ValuesOf(f) \cup {Len(calls) + 1}
  BY <1>0, <1>2, ValuesAfter
<1>4. \A x \in CallsOf("value") :
        SameHeader(x, Len(calls)) <=> x \in ValuesOf(f)
  <2>1. \A x \in CallsOf("value") : x # f
    BY CallsAre
  <2> QED
    BY <1>1, <2>1 DEF SameHeader, ValuesOf
<1>5. \A x \in ValuesOf(f) : x \in CallsOf("value") /\ x \in Nat /\ f < x
                             /\ x <= Len(calls)
  BY <1>1 DEF ValuesOf
<1>6. ASSUME NEW x \in ValuesOf(f), b # <<"value", x>>
      PROVE  <<"value", x>> \in Replaced
  <2>1. PICK y \in ValuesOf(f) : b = <<"value", y>> /\ \A z \in ValuesOf(f) : z <= y
    BY DEF IsLast
  <2>2. x < y
    BY <1>5, <1>6, <2>1
  <2>3. SameHeader(x, y)
    BY <1>1, <1>5 DEF SameHeader
  <2>4. Superseded("value", x)
    BY <1>5, <2>2, <2>3 DEF Superseded
  <2> QED
    BY <1>5, <2>4, ReplacedIs
<1>7. b = NULL => ValuesOf(f) = {}
  BY DEF IsLast, NULL
<1>8. b # NULL => \E x \in ValuesOf(f) : b = <<"value", x>>
  BY DEF IsLast
<1>9. \A c : c \in Replaced' <=>
        c \in Replaced \/ \E x \in CallsOf("value") :
                            c = <<"value", x>> /\ SameHeader(x, Len(calls))
  BY <1>0, ReplacedAfter
<1>10. \A c : c \in Replaced' <=>
         c \in Replaced \/ \E x \in ValuesOf(f) : c = <<"value", x>>
  BY <1>4, <1>5, <1>9
<1>11. \A c : (\E x \in ValuesOf(f) : c = <<"value", x>>)
                => c \in Replaced \/ (c = b /\ b # NULL)
  BY <1>6, <1>7
<1>12. \A c : c \in Replaced' <=> c \in Replaced \/ (c = b /\ b # NULL)
  BY <1>8, <1>10, <1>11
<1>13. \A y \in ValuesOf(f)' : y <= Len(calls) + 1
  BY <1>1, <1>3, <1>5
<1> QED
  BY <1>3, <1>12, <1>13 DEF IsLast

\* What a call that is not about headers keeps of the list.
LEMMA ListKept ==
  ASSUME RequestInd, NEW k \in {"url", "body"}, Call(k), UNCHANGED headers,
         Parsing, phase' \notin {"name", "value", "freed"}
  PROVE  ListInd'
<1>0. k \in Kinds /\ k # "field" /\ k # "value"
  BY DEF Kinds
<1>1. CallsOf("field")' = CallsOf("field")
  BY <1>0, CallMade DEF RequestInd
<1>2. \A f \in CallsOf("field") : ValuesOf(f)' = ValuesOf(f)
  BY <1>0, ValuesAfter DEF RequestInd
<1>3. \A n : NamedBy(n)' = NamedBy(n)
  BY DEF NamedBy
<1>4. ASSUME NEW n \in 1 .. Len(headers') PROVE HeaderInd(n)'
  <2>1. HeaderInd(n)
    BY DEF RequestInd, ListInd
  <2> QED
    BY <1>1, <1>2, <1>3, <2>1 DEF HeaderInd, IsLast, NULL
<1> QED
  BY <1>1, <1>3, <1>4 DEF RequestInd, ListInd

LEMMA UrlCalled ==
  ASSUME RequestInd, url_cb
  PROVE  RequestInd'
<1>0. "url" \in Kinds /\ RequestTypeOK /\ Call("url")
  BY DEF Kinds, RequestInd, url_cb
<1>1. /\ url' = <<"url", Len(calls) + 1>>
      /\ heap' = heap \cup {<<"url", Len(calls) + 1>>}
      /\ phase = "line" /\ phase' \in {"version", "headers"}
      /\ method' = "set" /\ UNCHANGED <<body, headers>>
  BY DEF url_cb, UrlEnds, NewBlock
<1>2. /\ Len(calls) \in Nat
      /\ \A x \in CallsOf("url") : x \in Nat /\ x <= Len(calls)
  BY <1>0, CallsAre
<1>3. /\ calls' \in Seq(Kinds)
      /\ CallsOf("url")' = CallsOf("url") \cup {Len(calls) + 1}
      /\ CallsOf("body")' = CallsOf("body")
  BY <1>0, CallMade
<1>4. RequestTypeOK'
  BY <1>0, <1>1, <1>3 DEF RequestTypeOK
<1>5. /\ \A c : c \in Replaced' <=> c \in Replaced \/ (c = url /\ url # NULL)
      /\ IsLast(url', "url", CallsOf("url")')
  BY <1>0, <1>1, LastReplaced DEF RequestInd, LineInd
<1>6. LineInd'
  <2>1. Messages'
    BY <1>3 DEF Messages
  <2>3. IsLast(body', "body", CallsOf("body")')
    BY <1>1, <1>3 DEF RequestInd, LineInd
  <2> QED
    BY <1>1, <1>5, <2>1, <2>3 DEF LineInd, IsLast, NULL
<1>7. ListInd'
  BY <1>0, <1>1, ListKept DEF Parsing
<1>8. \A k : Blocks(k)' = Blocks(k)
  BY <1>1 DEF Blocks
<1>9. ASSUME NEW b
      PROVE  b \in Held' <=> (b \in Held /\ b # url) \/ b = <<"url", Len(calls) + 1>>
  <2>1. \A k \in 1 .. Len(headers) : b \in Blocks(k) /\ b # NULL => b # url
    BY HeadersOnly
  <2>2. <<"url", Len(calls) + 1>> # NULL
    BY DEF NULL
  <2> QED
    BY <1>1, <1>8, <2>1, <2>2, HeldIs, HeldIsNext, FieldsApart
<1>10. url # NULL => url \in Held
  BY <1>1, HeldIs
<1>11. heap' = Replaced' \cup Held'
  BY <1>1, <1>5, <1>9, <1>10, HeldIs DEF RequestInd
<1> QED
  BY <1>4, <1>6, <1>7, <1>11 DEF RequestInd

LEMMA BodyCalled ==
  ASSUME RequestInd, body_cb
  PROVE  RequestInd'
<1>0. "body" \in Kinds /\ RequestTypeOK /\ Call("body")
  BY DEF Kinds, RequestInd, body_cb
<1>1. /\ body' = <<"body", Len(calls) + 1>>
      /\ heap' = heap \cup {<<"body", Len(calls) + 1>>}
      /\ phase \in {"identity", "chunked"}
      /\ phase' \in {"start", "chunked", "headers"}
      /\ UNCHANGED <<method, url, headers>>
  BY DEF body_cb, NewBlock
<1>3. /\ calls' \in Seq(Kinds)
      /\ CallsOf("url")' = CallsOf("url")
  BY <1>0, CallMade
<1>4. RequestTypeOK'
  BY <1>0, <1>1, <1>3 DEF RequestTypeOK
<1>5. /\ \A c : c \in Replaced' <=> c \in Replaced \/ (c = body /\ body # NULL)
      /\ IsLast(body', "body", CallsOf("body")')
  BY <1>0, <1>1, LastReplaced DEF RequestInd, LineInd
<1>6. LineInd'
  <2>1. Messages' <=> Messages
    BY <1>3, MessagesKept
  <2>3. IsLast(url', "url", CallsOf("url")')
    BY <1>1, <1>3 DEF RequestInd, LineInd
  <2> QED
    BY <1>1, <1>5, <2>1, <2>3 DEF RequestInd, LineInd, IsLast, NULL
<1>7. ListInd'
  BY <1>0, <1>1, ListKept DEF Parsing
<1>8. \A k : Blocks(k)' = Blocks(k)
  BY <1>1 DEF Blocks
<1>9. ASSUME NEW b
      PROVE  b \in Held' <=>
               (b \in Held /\ b # body) \/ b = <<"body", Len(calls) + 1>>
  <2>1. \A k \in 1 .. Len(headers) : b \in Blocks(k) /\ b # NULL => b # body
    BY HeadersOnly
  <2>2. <<"body", Len(calls) + 1>> # NULL
    BY DEF NULL
  <2> QED
    BY <1>1, <1>8, <2>1, <2>2, HeldIs, HeldIsNext, FieldsApart
<1>10. body # NULL => body \in Held
  BY <1>1, HeldIs
<1>11. heap' = Replaced' \cup Held'
  BY <1>1, <1>5, <1>9, <1>10, HeldIs DEF RequestInd
<1> QED
  BY <1>4, <1>6, <1>7, <1>11 DEF RequestInd

\* What a call about headers keeps of the request line and the body.
LEMMA LineKept ==
  ASSUME RequestInd, NEW k \in {"field", "value"}, Call(k),
         UNCHANGED <<method, url, body>>,
         phase \in {"headers", "name", "value"}, phase' \in {"name", "value"}
  PROVE  LineInd'
<1>0. k \in Kinds /\ RequestTypeOK /\ k # "url" /\ k # "body"
  BY DEF Kinds, RequestInd
<1>1. /\ CallsOf("url")' = CallsOf("url")
      /\ CallsOf("body")' = CallsOf("body")
  BY <1>0, CallMade
<1>2. Messages' <=> Messages
  BY <1>1, MessagesKept
<1>3. /\ IsLast(url, "url", CallsOf("url"))' <=> IsLast(url, "url", CallsOf("url"))
      /\ IsLast(body, "body", CallsOf("body"))'
           <=> IsLast(body, "body", CallsOf("body"))
  BY <1>1 DEF IsLast, NULL
<1> QED
  BY <1>2, <1>3 DEF RequestInd, LineInd

LEMMA FieldCalled ==
  ASSUME RequestInd, header_field_cb
  PROVE  RequestInd'
<1>0. "field" \in Kinds /\ RequestTypeOK /\ Call("field")
  BY DEF Kinds, RequestInd, header_field_cb
<1>1. PICK N \in Nat : N = Len(calls) + 1
  BY <1>0, CallsAre
<1> DEFINE h == [node |-> <<"node", N>>, name |-> <<"field", N>>, value |-> NULL]
<1>2. /\ headers' = Append(headers, h)
      /\ heap' = heap \cup {<<"node", N>>, <<"field", N>>}
      /\ phase \in {"headers", "value"} /\ phase' = "name"
      /\ UNCHANGED <<method, url, body>>
  BY <1>1 DEF header_field_cb, add_http_header, NewBlock
<1>3. h \in Header /\ headers \in Seq(Header) /\ Len(headers) \in Nat
  BY <1>0, LenProperties DEF Header, Block, Kinds, NULL, RequestTypeOK
<1>3a. PICK m \in Nat : m = Len(headers) + 1
  BY <1>3
<1>4. /\ headers' \in Seq(Header) /\ Len(headers') = m
      /\ \A k \in 1 .. Len(headers) : headers'[k] = headers[k]
      /\ headers'[m] = h
  BY <1>2, <1>3, <1>3a, AppendProperties
<1> HIDE DEF h
<1>5. /\ calls' \in Seq(Kinds)
      /\ CallsOf("field")' = CallsOf("field") \cup {N}
      /\ CallsOf("value")' = CallsOf("value")
  BY <1>0, <1>1, CallMade
<1>6. RequestTypeOK'
  BY <1>0, <1>2, <1>4, <1>5 DEF RequestTypeOK
<1>7. LineInd'
  BY <1>0, <1>2, LineKept
<1>8. /\ Len(calls) \in Nat
      /\ \A j : \A x \in CallsOf(j) : x \in Nat /\ x < N
  BY <1>0, <1>1, CallsAre
<1>9. /\ \A k \in 1 .. Len(headers) : NamedBy(k)' = NamedBy(k) /\ Blocks(k)' = Blocks(k)
      /\ NamedBy(m)' = N
      /\ Blocks(m)' = {<<"node", N>>, <<"field", N>>, NULL}
  <2>1. \A k \in 1 .. Len(headers) : NamedBy(k)' = NamedBy(k) /\ Blocks(k)' = Blocks(k)
    BY <1>4 DEF NamedBy, Blocks
  <2>2. headers'[m].name = <<"field", N>> /\ headers'[m].node = <<"node", N>>
        /\ headers'[m].value = NULL
    BY <1>4 DEF h
  <2>3. NamedBy(m)' = N
    BY <2>2 DEF NamedBy
  <2>4. Blocks(m)' = {<<"node", N>>, <<"field", N>>, NULL}
    BY <2>2 DEF Blocks
  <2> QED
    BY <2>1, <2>3, <2>4
<1>10. ListInd'
  <2>1. ASSUME NEW k \in 1 .. Len(headers) PROVE HeaderInd(k)'
    <3>1. HeaderInd(k)
      BY DEF RequestInd, ListInd
    <3>2. ValuesOf(NamedBy(k))' = ValuesOf(NamedBy(k))
      <4>1. PICK f \in CallsOf("field") : f = NamedBy(k)
        BY <3>1 DEF HeaderInd
      <4>2. ValuesOf(f)' = ValuesOf(f) /\ NamedBy(k)' = f
        BY <1>0, <1>9, <4>1, ValuesAfter
      <4> QED
        BY <4>1, <4>2 DEF ValuesOf, SameHeader
    <3> QED
      BY <1>4, <1>5, <1>9, <3>1, <3>2 DEF HeaderInd, IsLast, NULL
  <2>2. HeaderInd(m)'
    <3>1. ValuesOf(N)' = {}
      BY <1>5, <1>8 DEF ValuesOf
    <3>2. headers'[m].name = <<"field", N>> /\ headers'[m].node = <<"node", N>>
          /\ headers'[m].value = NULL
      BY <1>4 DEF h
    <3>3. ValuesOf(NamedBy(m))' = {}
      BY <1>9, <3>1 DEF ValuesOf, SameHeader
    <3> QED
      BY <1>5, <1>9, <3>2, <3>3 DEF HeaderInd, IsLast, NULL
  <2>3. \A k \in 1 .. Len(headers') : k \in 1 .. Len(headers) \/ k = m
    BY <1>3, <1>4, <1>3a
  <2>4. \A k \in 1 .. Len(headers) : k \in 1 .. Len(headers') /\ k < m
    BY <1>3, <1>4, <1>3a
  <2>5. \A k \in 1 .. Len(headers) : NamedBy(k) \in Nat /\ NamedBy(k) < N
    BY <1>8 DEF RequestInd, ListInd, HeaderInd
  <2>6. ASSUME NEW k \in 1 .. Len(headers'), NEW l \in 1 .. Len(headers'), k < l
        PROVE  NamedBy(k)' < NamedBy(l)'
    <3>1. k \in 1 .. Len(headers)
      BY <1>4, <1>3a, <1>3, <2>6
    <3> QED
      BY <3>1, <2>3, <2>5, <2>6, <1>9 DEF RequestInd, ListInd
  <2>7. ASSUME NEW f \in CallsOf("field")'
        PROVE  \E k \in 1 .. Len(headers') : NamedBy(k)' = f
    <3>1. CASE f = N
      BY <1>3, <1>4, <1>3a, <1>9, <3>1
    <3>2. CASE f \in CallsOf("field")
      BY <1>2, <1>9, <2>4, <3>2 DEF RequestInd, ListInd, Parsing
    <3> QED
      BY <3>1, <3>2, <1>5
  <2>8. headers' # <<>>
    BY <1>3, <1>4, <1>3a, EmptySeq
  <2> QED
    BY <1>2, <2>1, <2>2, <2>3, <2>6, <2>7, <2>8 DEF ListInd
<1>11. ASSUME NEW b
       PROVE  b \in Held' <=> b \in Held \/ b \in {<<"node", N>>, <<"field", N>>}
  <2>1. (\E k \in 1 .. Len(headers') : b \in Blocks(k)') <=>
          b \in Blocks(m)' \/ \E k \in 1 .. Len(headers) : b \in Blocks(k)
    <3>1. \A k : k \in 1 .. Len(headers') <=> k \in 1 .. Len(headers) \/ k = m
      BY <1>3, <1>4, <1>3a
    <3> QED
      BY <3>1, <1>9
  <2>2. <<"node", N>> # NULL /\ <<"field", N>> # NULL
    BY DEF NULL
  <2> QED
    BY <1>2, <1>9, <2>1, <2>2, HeldIs, HeldIsNext
<1>12. Replaced' = Replaced
  BY <1>0, ReplacedAfter
<1>13. heap' = Replaced' \cup Held'
  BY <1>2, <1>11, <1>12 DEF RequestInd
<1> QED
  BY <1>6, <1>7, <1>10, <1>13 DEF RequestInd

LEMMA ValueCalled ==
  ASSUME RequestInd, header_value_cb
  PROVE  RequestInd'
<1>0. "value" \in Kinds /\ RequestTypeOK /\ Call("value")
  BY DEF Kinds, RequestInd, header_value_cb
<1>1. PICK N \in Nat : N = Len(calls) + 1
  BY <1>0, CallsAre
<1>2. headers \in Seq(Header) /\ headers # <<>> /\ Len(headers) \in Nat
  BY <1>0, LenProperties DEF header_value_cb, RequestInd, ListInd, RequestTypeOK
<1>3. PICK m \in Nat : m = Len(headers) /\ m >= 1
  BY <1>2, EmptySeq
<1>4. /\ headers' = [headers EXCEPT ![m].value = <<"value", N>>]
      /\ heap' = heap \cup {<<"value", N>>}
      /\ phase \in {"name", "value"} /\ phase' = "value"
      /\ UNCHANGED <<method, url, body>>
  BY <1>1, <1>2, <1>3 DEF header_value_cb, NewBlock
<1>5. m \in 1 .. Len(headers) /\ headers[m] \in Header
  BY <1>2, <1>3, ElementOfSeq
<1>6. /\ headers' \in Seq(Header) /\ Len(headers') = Len(headers)
      /\ \A k \in 1 .. Len(headers) : k # m => headers'[k] = headers[k]
      /\ headers'[m] = [headers[m] EXCEPT !.value = <<"value", N>>]
  <2>1. PICK h \in Header : h = [headers[m] EXCEPT !.value = <<"value", N>>]
    BY <1>5 DEF Header, Block, Kinds
  <2>2. headers' = [headers EXCEPT ![m] = h]
    BY <1>4, <2>1
  <2>3. /\ headers' \in Seq(Header) /\ Len(headers') = Len(headers)
        /\ \A k \in 1 .. Len(headers) : headers'[k] = IF k = m THEN h ELSE headers[k]
    BY <1>2, <1>5, <2>2, ExceptSeq
  <2> QED
    BY <1>5, <2>1, <2>3
<1>7. /\ headers'[m].node = headers[m].node /\ headers'[m].name = headers[m].name
      /\ headers'[m].value = <<"value", N>>
  BY <1>5, <1>6 DEF Header
<1>8. /\ calls' \in Seq(Kinds)
      /\ CallsOf("field")' = CallsOf("field")
  BY <1>0, CallMade
<1>9. RequestTypeOK'
  BY <1>0, <1>4, <1>6, <1>8 DEF RequestTypeOK
<1>10. LineInd'
  BY <1>0, <1>4, LineKept
<1>11. /\ \A k \in 1 .. Len(headers) : NamedBy(k)' = NamedBy(k)
       /\ \A k \in 1 .. Len(headers) : k # m => Blocks(k)' = Blocks(k)
       /\ Blocks(m)' = {headers[m].node, headers[m].name, <<"value", N>>}
  BY <1>6, <1>7 DEF NamedBy, Blocks
<1>12. PICK f \in CallsOf("field") : f = NamedBy(m)
  BY <1>5 DEF RequestInd, ListInd, HeaderInd
<1>13. /\ Len(calls) \in Nat
       /\ \A j : \A x \in CallsOf(j) : x \in Nat /\ x <= Len(calls)
  BY <1>0, CallsAre
<1>14. ASSUME NEW k \in 1 .. Len(headers), k # m PROVE NamedBy(k) \in Nat /\ NamedBy(k) < f
  <2>1. k < m
    BY <1>2, <1>3, <1>14
  <2>2. NamedBy(k) \in CallsOf("field")
    BY DEF RequestInd, ListInd, HeaderInd
  <2> QED
    BY <1>5, <1>12, <1>13, <2>1, <2>2 DEF RequestInd, ListInd
<1>15. \A z \in CallsOf("field") : z <= f
  <2>1. \A z \in CallsOf("field") : \E k \in 1 .. Len(headers) : NamedBy(k) = z
    BY <1>4 DEF RequestInd, ListInd, Parsing
  <2>2. f \in Nat
    BY <1>13
  <2> QED
    BY <1>12, <1>14, <2>1, <2>2
<1>16. HeaderInd(m) /\ IsLast(headers[m].value, "value", ValuesOf(f))
  BY <1>5, <1>12 DEF RequestInd, ListInd, HeaderInd
<1>17. /\ \A c : c \in Replaced' <=>
            c \in Replaced \/ (c = headers[m].value /\ headers[m].value # NULL)
       /\ IsLast(<<"value", N>>, "value", ValuesOf(f)')
  BY <1>0, <1>1, <1>15, <1>16, LineReplaced
<1>18. ListInd'
  <2>1. HeaderInd(m)'
    <3>1. NamedBy(m)' = f
      BY <1>5, <1>11, <1>12
    <3>2. ValuesOf(NamedBy(m))' = ValuesOf(f)'
      BY <3>1 DEF ValuesOf, SameHeader
    <3>3. NULL' = NULL
      BY DEF NULL
    <3> QED
      BY <1>7, <1>8, <1>12, <1>16, <1>17, <3>1, <3>2, <3>3 DEF HeaderInd, IsLast
  <2>2. ASSUME NEW k \in 1 .. Len(headers), k # m PROVE HeaderInd(k)'
    <3>1. HeaderInd(k)
      BY DEF RequestInd, ListInd
    <3>2. PICK g \in CallsOf("field") : g = NamedBy(k)
      BY <3>1 DEF HeaderInd
    <3>3. g < f /\ g \in Nat /\ f \in Nat /\ f <= Len(calls)
      BY <1>13, <1>14, <2>2, <3>2
    <3>4. ~SameHeader(g, Len(calls))
      BY <3>3 DEF SameHeader
    <3>5. ValuesOf(g)' = ValuesOf(g)
      BY <1>0, <3>4, ValuesAfter
    <3>6. ValuesOf(NamedBy(k))' = ValuesOf(NamedBy(k))
      BY <1>11, <3>2, <3>5 DEF ValuesOf, SameHeader
    <3> QED
      BY <1>6, <1>8, <1>11, <2>2, <3>1, <3>6 DEF HeaderInd, IsLast, NULL
  <2>3. headers' # <<>>
    BY <1>3, <1>6, EmptySeq
  <2> QED
    BY <1>4, <1>6, <1>8, <1>11, <2>1, <2>2, <2>3 DEF RequestInd, ListInd, Parsing
<1>19. ASSUME NEW b
       PROVE  b \in Held' <=>
                \/ b \in Held /\ ~(b = headers[m].value /\ headers[m].value # NULL)
                \/ b = <<"value", N>>
  <2>1. Blocks(m) = {headers[m].node, headers[m].name, headers[m].value}
    BY DEF Blocks
  <2>2. /\ headers[m].node # headers[m].value /\ headers[m].name # headers[m].value
        /\ <<"value", N>> # NULL
    BY <1>16 DEF HeaderInd, IsLast, NULL
  <2>3. ASSUME NEW k \in 1 .. Len(headers), k # m, b \in Blocks(k), b \in Blocks(m)
        PROVE  b = NULL
    <3>1. k < m
      BY <1>2, <1>3, <2>3
    <3> QED
      BY <1>5, <2>3, <3>1, HeadersApart
  <2>4. b \in Blocks(m) /\ b # NULL => b # url /\ b # body /\ b # Request
    BY <1>5, HeadersOnly
  <2>5. (\E k \in 1 .. Len(headers') : b \in Blocks(k)') <=>
          \/ b \in {headers[m].node, headers[m].name, <<"value", N>>}
          \/ \E k \in 1 .. Len(headers) : k # m /\ b \in Blocks(k)
    BY <1>5, <1>6, <1>11
  <2>6. (\E k \in 1 .. Len(headers) : b \in Blocks(k)) <=>
          \/ b \in Blocks(m)
          \/ \E k \in 1 .. Len(headers) : k # m /\ b \in Blocks(k)
    BY <1>5
  <2>7. b \in Held <=> b # NULL /\ (\/ \E k \in 1 .. Len(headers) : b \in Blocks(k)
                                    \/ b = url \/ b = body \/ b = Request)
    BY <1>4, HeldIs
  <2>8. b \in Held' <=> b # NULL /\ (\/ \E k \in 1 .. Len(headers') : b \in Blocks(k)'
                                     \/ b = url \/ b = body \/ b = Request)
    BY <1>4, HeldIsNext
  <2> QED
    BY <2>1, <2>2, <2>3, <2>4, <2>5, <2>6, <2>7, <2>8
<1>20. headers[m].value # NULL => headers[m].value \in Held
  BY <1>5, HeldIs DEF Blocks
<1>21. heap' = Replaced' \cup Held'
  BY <1>4, <1>17, <1>19, <1>20 DEF RequestInd
<1> QED
  BY <1>9, <1>10, <1>18, <1>21 DEF RequestInd

LEMMA RequestStuttered ==
  ASSUME RequestInd, UNCHANGED rvars
  PROVE  RequestInd'
<1>1. UNCHANGED <<calls, headers, url, body, phase, heap, method>>
  BY DEF rvars
<1>2. \A k : CallsOf(k)' = CallsOf(k)
  BY <1>1, CallsKept
<1>3. Messages' <=> Messages
  BY <1>2, MessagesKept
<1>4. /\ \A k : NamedBy(k)' = NamedBy(k)
      /\ \A k : Blocks(k)' = Blocks(k)
      /\ \A k : HeaderInd(k)' <=> HeaderInd(k)
  BY <1>1, HeadersKept
<1>5. RequestTypeOK'
  BY <1>1 DEF RequestInd, RequestTypeOK
<1>6. LineInd'
  <2>1. /\ IsLast(url, "url", CallsOf("url"))' <=> IsLast(url, "url", CallsOf("url"))
        /\ IsLast(body, "body", CallsOf("body"))'
             <=> IsLast(body, "body", CallsOf("body"))
    BY <1>1, <1>2 DEF IsLast, NULL
  <2> QED
    BY <1>1, <1>3, <2>1 DEF RequestInd, LineInd
<1>7. ListInd'
  BY <1>1, <1>2, <1>4 DEF RequestInd, ListInd, Parsing
<1>8. ASSUME NEW b PROVE b \in Held' <=> b \in Held
  BY <1>1, <1>4, HeldIs, HeldIsNext
<1>9. heap' = Replaced' \cup Held'
  BY <1>1, <1>8, CallsKept DEF RequestInd
<1> QED
  BY <1>5, <1>6, <1>7, <1>9 DEF RequestInd

(***************************************************************************)
(* The invariant of the request holds throughout.                          *)
(***************************************************************************)
LEMMA RequestStays == RequestSpec => []RequestInd
<1>1. RequestInd /\ [RequestNext]_rvars => RequestInd'
  BY ParserQuiet, UrlCalled, FieldCalled, ValueCalled, BodyCalled, FieldsFreed,
     HeaderFreed, RequestStuttered DEF RequestNext
<1> QED
  BY <1>1, StartsRight, PTL DEF RequestSpec

(***************************************************************************)
(* The versions: outside the version of a request line the parser has that *)
(* of the last line, which is what url_cb finds when the next line names   *)
(* one; a short line gives its own.                                        *)
(***************************************************************************)
InParser == phase \in {"start", "line", "headers", "name", "value", "identity",
                       "chunked"}

LineVersions == {"0.0", "0.9", "unread"} \cup Versions

VersionInd ==
  /\ lines \in Seq(LineVersions)
  /\ version = CopiedVersion
  /\ phase = "version" => lines # <<>> /\ lines[Len(lines)] = "unread"
  /\ InParser => pversion = IF lines = <<>> THEN "0.0" ELSE lines[Len(lines)]

LEMMA VersionKept ==
  ASSUME VersionInd, UNCHANGED <<lines, version>>,
         phase' = phase \/ (phase' # "version" /\ (InParser' => InParser)),
         InParser' => UNCHANGED pversion
  PROVE  VersionInd'
<1>1. CopiedVersion' = CopiedVersion
  BY DEF CopiedVersion, EarlierVersion
<1>2. InParser' => InParser
  BY DEF InParser
<1> QED
  BY <1>1, <1>2 DEF VersionInd

LEMMA VersionCopied ==
  ASSUME VersionInd, url_cb
  PROVE  VersionInd'
<1>1. /\ phase = "line" /\ version' = pversion' /\ UrlEnds
      /\ lines \in Seq(LineVersions)
      /\ pversion = IF lines = <<>> THEN "0.0" ELSE lines[Len(lines)]
  BY DEF url_cb, VersionInd, InParser
<1>2. PICK v \in {"unread", "0.9"} :
        /\ lines' = Append(lines, v)
        /\ phase' = IF v = "0.9" THEN "headers" ELSE "version"
        /\ pversion' = IF v = "0.9" THEN "0.9" ELSE pversion
  BY <1>1 DEF UrlEnds
<1>3. v \in LineVersions /\ Len(lines) \in Nat
  BY <1>1, LenProperties DEF LineVersions
<1>4. /\ lines' \in Seq(LineVersions) /\ Len(lines') = Len(lines) + 1
      /\ lines'[Len(lines) + 1] = v
      /\ \A n \in 1 .. Len(lines) : lines'[n] = lines[n]
  BY <1>1, <1>2, <1>3, AppendProperties
<1>5. lines' # <<>> /\ (lines = <<>> <=> Len(lines) = 0)
  BY <1>1, <1>3, <1>4, EmptySeq
<1>6. EarlierVersion' = pversion
  BY <1>1, <1>3, <1>4, <1>5 DEF EarlierVersion
<1>7. CopiedVersion' = IF v = "0.9" THEN "0.9" ELSE pversion
  BY <1>4, <1>5, <1>6 DEF CopiedVersion
<1> QED
  BY <1>1, <1>2, <1>4, <1>5, <1>7 DEF VersionInd, InParser

LEMMA VersionParsed ==
  ASSUME VersionInd, ParseVersion
  PROVE  VersionInd'
<1>1. /\ phase = "version" /\ phase' = "headers" /\ version' = version
      /\ lines \in Seq(LineVersions) /\ lines # <<>> /\ lines[Len(lines)] = "unread"
  BY DEF ParseVersion, VersionInd, reqvars
<1>2. PICK v \in Versions :
        pversion' = v /\ lines' = [lines EXCEPT ![Len(lines)] = v]
  BY DEF ParseVersion
<1>3. Len(lines) \in Nat /\ Len(lines) # 0
  BY <1>1, LenProperties, EmptySeq
<1>4. /\ lines' \in Seq(LineVersions) /\ Len(lines') = Len(lines)
      /\ lines'[Len(lines)] = v
      /\ \A n \in 1 .. Len(lines) : n # Len(lines) => lines'[n] = lines[n]
  BY <1>1, <1>2, <1>3, ExceptSeq DEF LineVersions
<1>5. EarlierVersion' = EarlierVersion
  BY <1>3, <1>4 DEF EarlierVersion
<1>6. v # "0.9" /\ lines' # <<>>
  BY <1>3, <1>4, EmptySeq DEF Versions
<1>7. CopiedVersion' = EarlierVersion /\ CopiedVersion = EarlierVersion
  BY <1>1, <1>4, <1>5, <1>6 DEF CopiedVersion
<1> QED
  BY <1>1, <1>2, <1>4, <1>6, <1>7 DEF VersionInd, InParser

LEMMA VersionStays == RequestSpec => []VersionInd
<1>1. RequestInit => VersionInd
  BY EmptySeq DEF RequestInit, VersionInd, CopiedVersion, EarlierVersion
<1>2. ASSUME VersionInd, [RequestNext]_rvars PROVE VersionInd'
  <2>1. CASE MessageBegin \/ HeadersComplete \/ ParserReturns \/ ReportMethod
    BY <1>2, <2>1, VersionKept DEF MessageBegin, HeadersComplete, ParserReturns,
       ReportMethod, reqvars, InParser
  <2>2. CASE header_field_cb \/ header_value_cb \/ body_cb
    BY <1>2, <2>2, VersionKept DEF header_field_cb, header_value_cb, body_cb, InParser
  <2>3. CASE FreeUrl \/ FreeBody \/ FreeHeader \/ FreeRequest
    BY <1>2, <2>3, VersionKept DEF FreeUrl, FreeBody, FreeHeader, FreeRequest,
       reqvars, InParser
  <2>4. CASE UNCHANGED rvars
    BY <1>2, <2>4, VersionKept DEF rvars
  <2> QED
    BY <1>2, <2>1, <2>2, <2>3, <2>4, VersionCopied, VersionParsed DEF RequestNext
<1> QED
  BY <1>1, <1>2, PTL DEF RequestSpec

LEMMA LastIs ==
  ASSUME NEW b, NEW k, NEW S \in SUBSET Nat, IsLast(b, k, S)
  PROVE  b = LastBlock(k, S)
<1>1. CASE S = {}
  BY <1>1 DEF IsLast, LastBlock
<1>2. ASSUME NEW x \in S, b = <<k, x>>, \A y \in S : y <= x
      PROVE  b = LastBlock(k, S)
  <2>1. (CHOOSE z \in S : \A y \in S : y <= z) = x
    <3>1. \A z \in S : (\A y \in S : y <= z) => z = x
      BY <1>2
    <3> QED
      BY <1>2, <3>1
  <2>2. LastBlock(k, S) = <<k, CHOOSE z \in S : \A y \in S : y <= z>>
    BY Zenon DEF LastBlock
  <2> QED
    BY <1>2, <2>1, <2>2, Zenon
<1> QED
  BY <1>1, <1>2 DEF IsLast

LEMMA HeaderMatches ==
  ASSUME RequestInd, NEW k \in 1 .. Len(headers)
  PROVE  headers[k] = HeaderOf(NamedBy(k)) /\ NamedBy(k) \in CallsOf("field")
<1>1. HeaderInd(k)
  BY DEF RequestInd, ListInd
<1>2. headers[k] \in Header
  BY ElementOfSeq DEF RequestInd, RequestTypeOK
<1>3. ValuesOf(NamedBy(k)) \in SUBSET Nat
  BY CallsAre DEF RequestInd
<1>4. headers[k].value = LastBlock("value", ValuesOf(NamedBy(k)))
  BY <1>1, <1>3, LastIs DEF HeaderInd
<1>5. headers[k] = [node |-> headers[k].node, name |-> headers[k].name,
                    value |-> headers[k].value]
  BY <1>2 DEF Header
<1> QED
  BY <1>1, <1>4, <1>5 DEF HeaderInd, HeaderOf

(***************************************************************************)
(* The request always holds what the parser reported, for bufferfuls with  *)
(* any number of callbacks: the last URL and body, every header in order   *)
(* with the last line of its own value, a version that is the line's own   *)
(* for a line without one and the earlier line's otherwise, and no crash   *)
(* but of a method that was never set (httpserver.c:107-164,               *)
(* http_parser.c:1147-1166).                                               *)
(***************************************************************************)
THEOREM RequestAlwaysMatchesCalls == RequestSpec => []RequestMatchesCalls
<1>1. RequestInd /\ VersionInd => RequestMatchesCalls
  <2> SUFFICES ASSUME RequestInd, VersionInd PROVE RequestMatchesCalls
    OBVIOUS
  <2>1. CallsOf("url") \in SUBSET Nat /\ CallsOf("body") \in SUBSET Nat
    BY CallsAre DEF RequestInd
  <2>2. /\ url = LastBlock("url", CallsOf("url"))
        /\ body = LastBlock("body", CallsOf("body"))
    BY <2>1, LastIs DEF RequestInd, LineInd
  <2>3. /\ phase = "crash" => CallsOf("url") = {}
        /\ version = CopiedVersion
    BY DEF RequestInd, LineInd, Messages, VersionInd
  <2>4. ASSUME Parsing, NEW f \in CallsOf("field")
        PROVE  \E k \in 1 .. Len(headers) : headers[k] = HeaderOf(f)
    BY <2>4, HeaderMatches DEF RequestInd, ListInd
  <2>5. ASSUME NEW k \in 1 .. Len(headers)
        PROVE  \E f \in CallsOf("field") :
                 headers[k] = HeaderOf(f) /\ \A l \in 1 .. k - 1 : headers[l].name[2] < f
    <3>1. Len(headers) \in Nat
      BY LenProperties DEF RequestInd, RequestTypeOK
    <3>2. \A l \in 1 .. k - 1 : l \in 1 .. Len(headers) /\ l < k
      BY <3>1
    <3>3. \A l \in 1 .. k - 1 : headers[l].name[2] < NamedBy(k)
      BY <3>2 DEF RequestInd, ListInd, NamedBy
    <3> QED
      BY <3>3, HeaderMatches
  <2> QED
    BY <2>2, <2>3, <2>4, <2>5 DEF RequestMatchesCalls
<1> QED
  BY <1>1, RequestStays, VersionStays, PTL

(***************************************************************************)
(* The heap is accounted for throughout, for bufferfuls with any number of *)
(* callbacks: a block is held by the request or was replaced, never both,  *)
(* so that delete_http_request (httpserver.c:37-82) frees all that is held *)
(* once, and leaks what was replaced and nothing else.                     *)
(***************************************************************************)
THEOREM HeapAlwaysAccounted == RequestSpec => []LosesOnlyReplaced
<1>1. RequestInd => LosesOnlyReplaced
  BY HeldNotReplaced DEF RequestInd, LosesOnlyReplaced
<1> QED
  BY <1>1, RequestStays, PTL
=============================================================================
