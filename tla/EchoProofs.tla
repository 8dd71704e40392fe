----------------------------- MODULE EchoProofs -----------------------------
(***************************************************************************)
(* Proofs about the echo service for any number of clients, any table and  *)
(* buffer sizes and any descriptor limit: the descriptor table and the     *)
(* loop that scans it, what either end may conclude from the end of a      *)
(* connection, the streams between them, and that the service implements   *)
(* the pipe of EchoPipe.  Then about the chat room, which is the same loop *)
(* with the same clients: what it shares carries over.                     *)
(***************************************************************************)
EXTENDS ChatSystem, FiniteSetTheorems, SequenceTheorems, TLAPS

LEMMA LesserType ==
  \A m, n \in Nat :
    /\ Lesser(m, n) \in Nat
    /\ Lesser(m, n) <= m /\ Lesser(m, n) <= n
    /\ m > 0 /\ n > 0 => Lesser(m, n) > 0
BY DEF Lesser

LEMMA TakeType ==
  ASSUME NEW S, NEW s \in Seq(S), NEW n \in 0 .. Len(s)
  PROVE  Take(s, n) \in Seq(S) /\ Len(Take(s, n)) = n
<1>1. \A k \in 1 .. n : s[k] \in S
  BY ElementOfSeq
<1> QED
  BY <1>1, SubSeqProperties, LenProperties DEF Take

LEMMA DropType ==
  ASSUME NEW S, NEW s \in Seq(S), NEW n \in 0 .. Len(s)
  PROVE  Drop(s, n) \in Seq(S) /\ Len(Drop(s, n)) = Len(s) - n
<1>1. \A k \in n + 1 .. Len(s) : s[k] \in S
  BY ElementOfSeq
<1> QED
  BY <1>1, SubSeqProperties, LenProperties DEF Drop

LEMMA MoveHead ==
  ASSUME NEW S, NEW s \in Seq(S), s # <<>>, NEW t \in Seq(S)
  PROVE  /\ Append(t, Head(s)) \in Seq(S)
         /\ Tail(s) \in Seq(S)
         /\ Len(s) > 1 => Tail(s) # <<>>
<1>1. Head(s) \in S /\ Tail(s) \in Seq(S) /\ Len(Tail(s)) = Len(s) - 1
  BY HeadTailProperties
<1>2. Append(t, Head(s)) \in Seq(S)
  BY <1>1
<1>3. ASSUME Len(s) > 1 PROVE Len(Tail(s)) # Len(<<>>)
  <2>1. Len(s) \in Nat /\ Len(<<>>) = 0
    OBVIOUS
  <2> QED
    BY <1>1, <1>3, <2>1
<1>4. Len(s) > 1 => Tail(s) # <<>>
  BY <1>3, Zenon
<1> QED
  BY <1>1, <1>2, <1>4

LEMMA AppendFacts ==
  ASSUME NEW S, NEW s \in Seq(S), NEW x \in S
  PROVE  Append(s, x) \in Seq(S) /\ Append(s, x) # <<>>
<1>1. Append(s, x) \in Seq(S) /\ Len(Append(s, x)) = Len(s) + 1
  OBVIOUS
<1>2. Len(s) \in Nat /\ Len(<<>>) = 0
  OBVIOUS
<1> QED
  BY <1>1, <1>2

-----------------------------------------------------------------------------
(***************************************************************************)
(* The inductive invariant: types, where the two programs are in their     *)
(* loops, and the agreement of the tables.                                 *)
(***************************************************************************)
SrvControl ==
  /\ pc = "accept" => listenq # <<>> /\ i = 0
  /\ pc \in {"accept", "scan", "write"} => nready > 0
  /\ pc \in {"scan", "write"} => i <= maxi
  /\ pc = "write" => buf # <<>> /\ client[i] # -1

CliControl ==
  \A c \in Conns : cpc[c] = "writen" => cbuf[c] # <<>>

Ind == TypeOK /\ SrvControl /\ CliControl /\ TablesAgree

LEMMA InitInd == Init => Ind
<1> SUFFICES ASSUME Init PROVE Ind
  OBVIOUS
<1> USE SocketsAssumption, LoopAssumption, CliAssumption
     DEF Init, LoopInit, NetInit, CliInit
<1>1. NetTypeOK
  BY EmptySeq DEF NetTypeOK
<1>2. LoopTypeOK
  BY DEF LoopTypeOK, Slots
<1>3. CliTypeOK
  BY EmptySeq DEF CliTypeOK
<1>4. TablesAgree
  BY DEF TablesAgree, Taken
<1> QED
  BY <1>1, <1>2, <1>3, <1>4, EmptySeq DEF Ind, TypeOK, SrvControl, CliControl

LEMMA ServerIdle ==
  ASSUME Ind, UNCHANGED <<srvvars, buf>>
  PROVE  LoopTypeOK' /\ (buf \in Seq(Unit))' /\ TablesAgree'
<1>1. /\ UNCHANGED <<pc, i, rset, nready, cause>>
      /\ UNCHANGED <<client, maxi, maxfd, allset, fdconn>>
      /\ UNCHANGED buf
  BY DEF srvvars
<1>2. LoopTypeOK'
  BY <1>1 DEF Ind, TypeOK, LoopTypeOK
<1>3. TablesAgree'
  BY <1>1 DEF Ind, TablesAgree, Taken
<1> QED
  BY <1>1, <1>2, <1>3 DEF Ind, TypeOK

LEMMA CliExitInd ==
  ASSUME Ind, NEW c \in Conns,
         NEW how \in {"normal", "premature", "error", "killed"},
         CliExit(c, how),
         UNCHANGED <<listenq, send, c2s, s2c, rstS, rstC, crset, stdineof, cbuf,
                     typed, rcvd>>,
         UNCHANGED <<srvvars, buf>>
  PROVE  Ind'
<1>1. NetTypeOK'
  BY DEF Ind, TypeOK, NetTypeOK, CliExit
<1>2. CliTypeOK' /\ CliControl'
  BY DEF Ind, TypeOK, CliTypeOK, CliControl, CliExit
<1>3. SrvControl'
  BY DEF Ind, SrvControl, srvvars
<1> QED
  BY <1>1, <1>2, <1>3, ServerIdle DEF Ind, TypeOK

LEMMA CliStepInd ==
  ASSUME Ind, NEW c \in Conns, CliNext(c, Listening) \/ CliKill(c),
         UNCHANGED <<srvvars, buf>>
  PROVE  Ind'
<1> SUFFICES NetTypeOK' /\ CliTypeOK' /\ CliControl' /\ SrvControl'
  BY ServerIdle DEF Ind, TypeOK
<1> USE SocketsAssumption, CliAssumption
<1>1. CASE Connect(c, Listening)
  <2>1. listenq' \in Seq(Conns) /\ listenq' # <<>>
    BY <1>1, AppendFacts DEF Ind, TypeOK, NetTypeOK, Connect
  <2> QED
    BY <1>1, <2>1 DEF Ind, TypeOK, NetTypeOK, CliTypeOK, CliControl, SrvControl,
       srvvars, Connect
<1>2. CASE Refused(c, Listening)
  BY <1>2, CliExitInd DEF Refused, Ind, TypeOK
<1>3. CASE CliSelect(c)
  <2>1. PICK ready \in SUBSET {"sock", "stdin"} :
          /\ crset' = [crset EXCEPT ![c] = ready]
          /\ cpc' = [cpc EXCEPT ![c] =
                       IF "sock" \in ready THEN "sock" ELSE "stdin"]
    BY <1>3 DEF CliSelect
  <2>2. CliTypeOK' /\ CliControl'
    BY <1>3, <2>1 DEF Ind, TypeOK, CliTypeOK, CliControl, CliSelect
  <2>3. NetTypeOK' /\ SrvControl'
    BY <1>3 DEF Ind, TypeOK, NetTypeOK, SrvControl, srvvars, netvars, CliSelect
  <2> QED
    BY <2>2, <2>3
<1>4. CASE CliRead(c)
  <2> DEFINE n == Lesser(MaxLine, Len(s2c[c]))
  <2>1. s2c[c] \in Seq(Unit) /\ rcvd[c] \in Seq(Unit) /\ Len(s2c[c]) \in Nat
    BY DEF Ind, TypeOK, NetTypeOK, CliTypeOK
  <2>2. n \in 0 .. Len(s2c[c])
    <3>1. MaxLine \in Nat
      OBVIOUS
    <3>2. n \in Nat /\ n <= Len(s2c[c])
      BY <2>1, <3>1, LesserType
    <3> QED
      BY <2>1, <3>2
  <2>3. Take(s2c[c], n) \in Seq(Unit) /\ Drop(s2c[c], n) \in Seq(Unit)
    BY <2>1, <2>2, TakeType, DropType
  <2>4. rcvd[c] \o Take(s2c[c], n) \in Seq(Unit)
    BY <2>1, <2>3, ConcatProperties
  <2> QED
    BY <1>4, <2>3, <2>4 DEF Ind, TypeOK, NetTypeOK, CliTypeOK, CliControl,
       SrvControl, srvvars, CliRead
<1>5. CASE CliEof(c)
  BY <1>5, CliExitInd DEF CliEof, Ind, TypeOK
<1>6. CASE CliReadError(c)
  BY <1>6, CliExitInd DEF CliReadError, Ind, TypeOK
<1>7. CASE ReadStdin(c)
  <2>1. PICK n \in 1 .. Lesser(MaxLine, NUnits[c] - typed[c]) :
       /\ cbuf' = [cbuf EXCEPT ![c] = [k \in 1 .. n |-> <<c, typed[c] + k>>]]
       /\ typed' = [typed EXCEPT ![c] = @ + n]
    BY <1>7 DEF ReadStdin
  <2>2. typed[c] \in 0 .. NUnits[c]
    BY DEF Ind, TypeOK, CliTypeOK
  <2>3. n \in Nat \ {0} /\ typed[c] + n \in 0 .. NUnits[c]
    <3>1. MaxLine \in Nat /\ NUnits[c] - typed[c] \in Nat
      BY <2>2
    <3>2. /\ Lesser(MaxLine, NUnits[c] - typed[c]) \in Nat
          /\ Lesser(MaxLine, NUnits[c] - typed[c]) <= NUnits[c] - typed[c]
      BY <3>1, LesserType
    <3> QED
      BY <2>2, <3>2
  <2>4. /\ [k \in 1 .. n |-> <<c, typed[c] + k>>] \in Seq(Unit)
        /\ [k \in 1 .. n |-> <<c, typed[c] + k>>] # <<>>
    <3>1. [k \in 1 .. n |-> <<c, typed[c] + k>>] \in [1 .. n -> Unit]
      BY <2>2, <2>3 DEF Unit
    <3>2. 1 \in DOMAIN [k \in 1 .. n |-> <<c, typed[c] + k>>]
      BY <2>3
    <3>3. DOMAIN <<>> = {}
      OBVIOUS
    <3> QED
      BY SMTT(30), <3>1, <3>2, <3>3, <2>3, SeqDef
  <2>5. /\ typed' \in [Conns -> Nat]
        /\ \A d \in Conns : typed'[d] <= NUnits[d]
    <3>1. typed \in [Conns -> Nat] /\ \A d \in Conns : typed[d] <= NUnits[d]
      BY DEF Ind, TypeOK, CliTypeOK
    <3> QED
      BY <2>1, <2>2, <2>3, <3>1
  <2>6. cbuf' \in [Conns -> Seq(Unit)] /\ cbuf'[c] # <<>>
    <3>1. cbuf \in [Conns -> Seq(Unit)]
      BY DEF Ind, TypeOK, CliTypeOK
    <3> QED
      BY <2>1, <2>4, <3>1
  <2>7. CliControl'
    BY <1>7, <2>1, <2>6 DEF Ind, TypeOK, CliTypeOK, CliControl, ReadStdin
  <2>8. CliTypeOK'
    BY <1>7, <2>5, <2>6 DEF Ind, TypeOK, CliTypeOK, ReadStdin
  <2> QED
    BY <1>7, <2>7, <2>8 DEF Ind, TypeOK, NetTypeOK, CliTypeOK, CliControl,
       SrvControl, srvvars, netvars, ReadStdin
<1>8. CASE StdinEof(c)
  BY <1>8 DEF Ind, TypeOK, NetTypeOK, CliTypeOK, CliControl, SrvControl,
       srvvars, StdinEof, EofFlag, HalfClosed
<1>9. CASE CliWriten(c)
  <2>1. cbuf[c] \in Seq(Unit) /\ cbuf[c] # <<>> /\ c2s[c] \in Seq(Unit)
    BY <1>9 DEF Ind, TypeOK, NetTypeOK, CliTypeOK, CliControl, CliWriten
  <2>2. /\ Append(c2s[c], Head(cbuf[c])) \in Seq(Unit)
        /\ Tail(cbuf[c]) \in Seq(Unit)
        /\ Len(cbuf[c]) > 1 => Tail(cbuf[c]) # <<>>
    BY <2>1, MoveHead
  <2> QED
    BY <1>9, <2>2 DEF Ind, TypeOK, NetTypeOK, CliTypeOK, CliControl,
       SrvControl, srvvars, CliWriten
<1>10. CASE CliWriteError(c)
  BY <1>10, CliExitInd DEF CliWriteError, Ind, TypeOK
<1>11. CASE CliKill(c)
  BY <1>11, CliExitInd DEF CliKill, Ind, TypeOK
<1> QED
  BY <1>1, <1>2, <1>3, <1>4, <1>5, <1>6, <1>7, <1>8, <1>9, <1>10, <1>11
     DEF CliNext

LEMMA NetStepInd ==
  ASSUME Ind, NetNext, UNCHANGED <<srvvars, buf, clivars>>
  PROVE  Ind'
<1>1. PICK c \in Conns : ResetServer(c) \/ ResetClient(c)
  BY DEF NetNext
<1>2. NetTypeOK' /\ UNCHANGED listenq
  <2>1. /\ c2s' = c2s \/ c2s' = [c2s EXCEPT ![c] = <<>>]
        /\ s2c' = s2c \/ s2c' = [s2c EXCEPT ![c] = <<>>]
        /\ rstS' = rstS \/ rstS' = [rstS EXCEPT ![c] = TRUE]
        /\ rstC' = rstC \/ rstC' = [rstC EXCEPT ![c] = TRUE]
        /\ UNCHANGED <<listenq, cend, send>>
    BY <1>1 DEF ResetServer, ResetClient
  <2> USE DEF Ind, TypeOK, NetTypeOK
  <2>0. <<>> \in Seq(Unit)
    BY EmptySeq
  <2>2. (c2s \in [Conns -> Seq(Unit)])' /\ (s2c \in [Conns -> Seq(Unit)])'
    BY ZenonT(30), <2>0, <2>1
  <2>3. (rstS \in [Conns -> BOOLEAN])' /\ (rstC \in [Conns -> BOOLEAN])'
    BY <2>1
  <2> QED
    BY <2>1, <2>2, <2>3
<1>3. CliTypeOK' /\ CliControl'
  BY DEF Ind, TypeOK, CliTypeOK, CliControl, clivars
<1>4. SrvControl'
  BY <1>2 DEF Ind, SrvControl, srvvars
<1>5. UNCHANGED <<srvvars, buf>>
  OBVIOUS
<1> QED
  BY <1>2, <1>3, <1>4, <1>5, ServerIdle DEF Ind, TypeOK

-----------------------------------------------------------------------------
(* The steps of the server leave the clients alone.                        *)
LEMMA ClientsIdle ==
  ASSUME Ind, UNCHANGED clivars
  PROVE  CliTypeOK' /\ CliControl'
BY DEF Ind, TypeOK, CliTypeOK, CliControl, clivars

LEMMA SrvExitInd ==
  ASSUME Ind, UNCHANGED <<clivars, buf>>,
         NEW why \in {"accept error", "too many clients", "read error",
                      "writen error"},
         SrvExit(why)
  PROVE  Ind'
<1>1. NetTypeOK'
  BY EmptySeq DEF Ind, TypeOK, NetTypeOK, SrvExit
<1>2. LoopTypeOK'
  BY DEF Ind, TypeOK, LoopTypeOK, SrvExit
<1>3. SrvControl' /\ TablesAgree'
  BY DEF SrvExit, SrvControl, TablesAgree
<1> QED
  BY <1>1, <1>2, <1>3, ClientsIdle DEF Ind, TypeOK

LEMMA Numbers ==
  ASSUME Ind
  PROVE  /\ maxi \in Int /\ maxi < FD_SETSIZE /\ i \in Nat /\ nready \in Nat
         /\ Slots \subseteq Nat /\ ConnFds \subseteq Nat
         /\ \A f \in ConnFds : f > ListenFd
         /\ maxfd \in Nat /\ ListenFd \in Nat /\ FD_SETSIZE \in Nat
<1>1. /\ Slots \subseteq Nat /\ \A k \in Slots : k < FD_SETSIZE
      /\ ConnFds \subseteq Nat /\ \A f \in ConnFds : f > ListenFd
      /\ ListenFd \in Nat /\ FD_SETSIZE \in Nat \ {0}
  BY LoopAssumption DEF Slots, ConnFds
<1>2. /\ maxi \in {-1} \cup Slots /\ maxfd \in {ListenFd} \cup ConnFds
      /\ i \in Nat /\ nready \in Nat
  BY DEF Ind, TypeOK, LoopTypeOK
<1> QED
  BY <1>1, <1>2

LEMMA SelectInd ==
  ASSUME Ind, Select, UNCHANGED <<clivars, buf>>
  PROVE  Ind'
<1>1. ReadyFds \in SUBSET ({ListenFd} \cup ConnFds) /\ ReadyFds # {}
  BY DEF Ind, TypeOK, LoopTypeOK, Select, ReadyFds, FdReady
<1>2. IsFiniteSet(ReadyFds)
  <2>1. IsFiniteSet(ConnFds)
    BY FS_Interval, LoopAssumption DEF ConnFds
  <2>2. IsFiniteSet({ListenFd} \cup ConnFds)
    BY <2>1, FS_Singleton, FS_Union
  <2> QED
    BY <1>1, <2>2, FS_Subset
<1>3. nready' \in Nat /\ nready' > 0
  BY <1>1, <1>2, FS_CardinalityType, FS_EmptySet DEF Select
<1>4. pc' = "scan" => 0 <= maxi
  <2>1. SUFFICES ASSUME pc' = "scan" PROVE 0 <= maxi
    OBVIOUS
  <2>2. PICK f \in ReadyFds : f # ListenFd
    BY <1>1, <2>1 DEF Select
  <2>3. PICK k \in Taken : client[k] = f
    BY <2>2 DEF Ind, TablesAgree, Select, ReadyFds, FdReady
  <2>4. k \in Nat /\ k <= maxi
    BY <2>3, Numbers DEF Ind, TablesAgree, Select, Taken
  <2> QED
    BY <2>4, Numbers
<1>5. LoopTypeOK' /\ NetTypeOK'
  BY <1>1, <1>3 DEF Ind, TypeOK, LoopTypeOK, NetTypeOK, Select, tabvars, netvars
<1>6. SrvControl'
  BY <1>3, <1>4 DEF SrvControl, Select, ReadyFds, FdReady, tabvars, netvars
<1>7. TablesAgree'
  BY DEF Ind, TablesAgree, Taken, Select, tabvars
<1> QED
  BY <1>5, <1>6, <1>7, ClientsIdle DEF Ind, TypeOK

LEMMA SkipSlotInd ==
  ASSUME Ind, SkipSlot, UNCHANGED <<clivars, buf>>
  PROVE  Ind'
<1>1. LoopTypeOK'
  <2>1. i' \in Nat /\ pc' \in {"select", "scan"}
    BY Numbers DEF SkipSlot
  <2> QED
    BY <2>1 DEF Ind, TypeOK, LoopTypeOK, SkipSlot, tabvars
<1>4. NetTypeOK'
  BY DEF Ind, TypeOK, NetTypeOK, SkipSlot, netvars
<1>2. SrvControl'
  <2>1. pc' = "scan" => i' <= maxi' /\ nready' > 0
    BY Numbers DEF Ind, SrvControl, SkipSlot, tabvars
  <2> QED
    BY <2>1 DEF SkipSlot, SrvControl
<1>3. TablesAgree'
  BY DEF Ind, TablesAgree, Taken, SkipSlot, tabvars
<1> QED
  BY <1>1, <1>2, <1>3, <1>4, ClientsIdle DEF Ind, TypeOK

LEMMA AcceptInd ==
  ASSUME Ind, AcceptClient, UNCHANGED <<clivars, buf>>
  PROVE  Ind'
<1>1. PICK fd \in FreeFds, k \in FreeSlots :
       /\ fdconn' = [fdconn EXCEPT ![fd] = Head(listenq)]
       /\ client' = [client EXCEPT ![k] = fd]
       /\ allset' = allset \cup {fd}
       /\ maxfd' = IF fd > maxfd THEN fd ELSE maxfd
       /\ maxi' = IF k > maxi THEN k ELSE maxi
  BY DEF AcceptClient, MaxIndex
<1>2. /\ fd \in ConnFds /\ fdconn[fd] = NoConn
      /\ k \in Slots /\ client[k] < 0
      /\ client \in [Slots -> {-1} \cup ConnFds]
      /\ fdconn \in [ConnFds -> Conns \cup {NoConn}]
  BY DEF FreeFds, FreeSlots, Ind, TypeOK, LoopTypeOK
<1>3. client[k] = -1
  BY <1>2, Numbers
<1>4. listenq \in Seq(Conns) /\ listenq # <<>>
  BY DEF AcceptClient, MaxIndex, Ind, TypeOK, NetTypeOK, SrvControl
<1>5. Head(listenq) \in Conns /\ Tail(listenq) \in Seq(Conns)
  BY <1>4, HeadTailProperties
<1>6. /\ nready' \in Nat /\ (pc' = "scan" => nready' > 0)
      /\ pc' \in {"select", "scan"}
  BY Numbers DEF AcceptClient, MaxIndex, Ind, SrvControl
<1>7. LoopTypeOK'
  <2>1. /\ (client \in [Slots -> {-1} \cup ConnFds])'
        /\ (fdconn \in [ConnFds -> Conns \cup {NoConn}])'
    BY <1>1, <1>2, <1>5
  <2>2. /\ maxi' \in {-1} \cup Slots
        /\ maxfd' \in {ListenFd} \cup ConnFds
        /\ allset' \in SUBSET ({ListenFd} \cup ConnFds)
    BY <1>1, <1>2 DEF Ind, TypeOK, LoopTypeOK
  <2> QED
    BY <1>6, <2>1, <2>2 DEF Ind, TypeOK, LoopTypeOK, AcceptClient, MaxIndex
<1>8. NetTypeOK'
  BY <1>5 DEF Ind, TypeOK, NetTypeOK, AcceptClient, MaxIndex
<1>9. SrvControl'
  <2>1. 0 <= maxi'
    BY <1>1, <1>2, Numbers
  <2>2. i' = 0
    BY DEF AcceptClient, MaxIndex, Ind, SrvControl
  <2> QED
    BY <1>6, <2>1, <2>2 DEF SrvControl
<1>10. TablesAgree'
  <2>1. pc # "dead"
    BY DEF AcceptClient, MaxIndex
  <2>2. Taken' = Taken \cup {k} /\ k \notin Taken
    BY <1>1, <1>2, <1>3, Numbers DEF Taken
  <2>3. /\ \A l \in Taken : client'[l] = client[l] /\ client[l] \in ConnFds
        /\ client'[k] = fd
    BY <1>1, <1>2, <2>2 DEF Taken
  <2>4. \A l \in Taken : client[l] # fd
    BY <1>2, <2>1 DEF Ind, TablesAgree
  <2>5. \A l \in Taken' : fdconn'[client'[l]] # NoConn
    BY <1>1, <1>2, <1>5, <2>1, <2>2, <2>3, <2>4, NoConnAssumption
       DEF Ind, TablesAgree
  <2>6. \A l, m \in Taken' : client'[l] = client'[m] => l = m
    BY <2>1, <2>2, <2>3, <2>4 DEF Ind, TablesAgree
  <2>7. \A f \in ConnFds : fdconn'[f] # NoConn => \E l \in Taken' : client'[l] = f
    BY <1>1, <1>2, <2>1, <2>2, <2>3 DEF Ind, TablesAgree
  <2>8. allset' = {ListenFd} \cup {client'[l] : l \in Taken'}
    BY <1>1, <2>1, <2>2, <2>3 DEF Ind, TablesAgree
  <2>9. \A l \in Taken' : l <= maxi' /\ client'[l] <= maxfd'
    <3>1. Taken \subseteq Nat
      BY Numbers DEF Taken
    <3> QED
      BY <1>1, <1>2, <2>1, <2>2, <2>3, <3>1, Numbers DEF Ind, TablesAgree
  <2> QED
    BY <2>5, <2>6, <2>7, <2>8, <2>9 DEF TablesAgree
<1> QED
  BY <1>7, <1>8, <1>9, <1>10, ClientsIdle DEF Ind, TypeOK

LEMMA AtSlot ==
  ASSUME Ind, NEW c \in Conns,
         \/ Reading(c)
         \/ pc = "write" /\ c = fdconn[client[i]]
  PROVE  /\ i \in Slots /\ i \in Taken /\ client[i] \in ConnFds
         /\ fdconn[client[i]] = c
<1>1. i \in Nat /\ i <= maxi
  BY Numbers DEF Ind, SrvControl, Reading
<1>2. i \in Slots
  BY <1>1, Numbers DEF Slots
<1>3. client[i] # -1
  <2>1. CASE Reading(c)
    <3>1. \A f \in rset : f \in Nat
      BY Numbers DEF Ind, TypeOK, LoopTypeOK
    <3> QED
      BY <2>1, <3>1 DEF Reading
  <2>2. CASE pc = "write"
    BY <2>2 DEF Ind, SrvControl
  <2> QED
    BY <2>1, <2>2
<1> QED
  BY <1>2, <1>3 DEF Ind, TypeOK, LoopTypeOK, Taken, Reading

LEMMA NextReadyFacts ==
  ASSUME Ind, pc \in {"scan", "write"}, NextReady
  PROVE  /\ pc' \in {"select", "scan"}
         /\ i' \in Nat /\ nready' \in Nat
         /\ pc' = "scan" => nready' > 0 /\ i' <= maxi
BY Numbers DEF Ind, SrvControl, NextReady

LEMMA ReadDataInd ==
  ASSUME Ind, NEW c \in Conns, ReadData(c), UNCHANGED clivars
  PROVE  Ind'
<1> DEFINE n == Lesser(MaxLine, Len(c2s[c]))
<1>1. /\ c2s[c] \in Seq(Unit) /\ c2s[c] # <<>> /\ Len(c2s[c]) \in Nat
      /\ Len(c2s[c]) > 0
  BY EmptySeq DEF Ind, TypeOK, NetTypeOK, ReadData
<1>2. n \in 0 .. Len(c2s[c]) /\ n > 0
  <2>1. MaxLine \in Nat /\ MaxLine > 0
    BY SocketsAssumption
  <2>2. n \in Nat /\ n <= Len(c2s[c]) /\ n > 0
    BY <1>1, <2>1, LesserType
  <2> QED
    BY <1>1, <2>2
<1>3. /\ Take(c2s[c], n) \in Seq(Unit) /\ Len(Take(c2s[c], n)) = n
      /\ Drop(c2s[c], n) \in Seq(Unit)
  BY <1>1, <1>2, TakeType, DropType
<1>4. buf' \in Seq(Unit) /\ buf' # <<>>
  <2>1. Len(<<>>) = 0 /\ buf' = Take(c2s[c], n)
    BY DEF ReadData
  <2> QED
    BY <1>2, <1>3, <2>1
<1>5. NetTypeOK'
  BY <1>3 DEF Ind, TypeOK, NetTypeOK, ReadData
<1>6. LoopTypeOK'
  BY DEF Ind, TypeOK, LoopTypeOK, ReadData, tabvars
<1>7. SrvControl'
  <2>1. /\ pc = "scan" /\ pc' = "write" /\ client' = client /\ i' = i
        /\ nready' = nready /\ maxi' = maxi
    BY DEF ReadData, Reading, tabvars
  <2>2. client[i] # -1
    BY AtSlot DEF ReadData, Taken
  <2> QED
    BY <1>4, <2>1, <2>2 DEF Ind, SrvControl
<1>8. TablesAgree'
  BY DEF Ind, TablesAgree, Taken, ReadData, Reading, tabvars
<1> QED
  BY <1>4, <1>5, <1>6, <1>7, <1>8, ClientsIdle DEF Ind, TypeOK

LEMMA WriteUnitInd ==
  ASSUME Ind, NEW c \in Conns, WriteUnit(c), UNCHANGED clivars
  PROVE  Ind'
<1>1. buf \in Seq(Unit) /\ buf # <<>> /\ s2c[c] \in Seq(Unit)
  BY DEF Ind, TypeOK, NetTypeOK, SrvControl, WriteUnit, Recipient, MoreToWrite
<1>2. /\ Append(s2c[c], Head(buf)) \in Seq(Unit)
      /\ Tail(buf) \in Seq(Unit)
      /\ Len(buf) > 1 => Tail(buf) # <<>>
  BY <1>1, MoveHead
<1>3. NetTypeOK' /\ (buf \in Seq(Unit))'
  BY <1>2 DEF Ind, TypeOK, NetTypeOK, WriteUnit, Recipient, MoreToWrite
<1>4. pc = "write" /\ UNCHANGED <<rset, cause, client, maxi, maxfd, allset, fdconn>>
  BY DEF WriteUnit, Recipient, MoreToWrite, tabvars
<1>5. LoopTypeOK' /\ SrvControl'
  <2>1. CASE Len(buf) > 1
    <3>1. UNCHANGED <<pc, i, nready>> /\ buf' # <<>>
      BY <1>2, <2>1 DEF WriteUnit, Recipient, MoreToWrite
    <3> QED
      BY <1>4, <3>1 DEF Ind, TypeOK, LoopTypeOK, SrvControl
  <2>2. CASE ~(Len(buf) > 1)
    <3>1. NextReady
      BY <2>2 DEF WriteUnit, Recipient, MoreToWrite
    <3>2. /\ pc' \in {"select", "scan"}
          /\ i' \in Nat /\ nready' \in Nat
          /\ pc' = "scan" => nready' > 0 /\ i' <= maxi
      BY <1>4, <3>1, NextReadyFacts
    <3>3. LoopTypeOK'
      BY <1>4, <3>2 DEF Ind, TypeOK, LoopTypeOK
    <3>4. SrvControl'
      BY <1>4, <3>2 DEF SrvControl
    <3> QED
      BY <3>3, <3>4
  <2> QED
    BY <2>1, <2>2
<1>6. TablesAgree'
  <2>1. pc # "dead"
    BY <1>4
  <2> QED
    BY <1>4, <2>1 DEF Ind, TablesAgree, Taken
<1> QED
  BY <1>3, <1>5, <1>6, ClientsIdle DEF Ind, TypeOK

LEMMA ReadEofInd ==
  ASSUME Ind, NEW c \in Conns, ReadEof(c), UNCHANGED clivars
  PROVE  Ind'
<1>1. /\ i \in Slots /\ i \in Taken /\ client[i] \in ConnFds
      /\ fdconn[client[i]] = c
  BY AtSlot DEF ReadEof
<1>2. /\ fdconn' = [fdconn EXCEPT ![client[i]] = NoConn]
      /\ allset' = allset \ {client[i]}
      /\ client' = [client EXCEPT ![i] = -1]
      /\ send' = [send EXCEPT ![c] = "closed"]
      /\ UNCHANGED <<rset, cause, maxi, maxfd, buf, listenq, cend, c2s, s2c,
                     rstS, rstC>>
  BY DEF ReadEof, CloseClient
<1>3. pc = "scan" /\ NextReady
  BY DEF ReadEof, Reading
<1>4. /\ pc' \in {"select", "scan"}
      /\ i' \in Nat /\ nready' \in Nat
      /\ pc' = "scan" => nready' > 0 /\ i' <= maxi
  BY <1>3, NextReadyFacts
<1>5. NetTypeOK' /\ (buf \in Seq(Unit))'
  BY <1>2 DEF Ind, TypeOK, NetTypeOK
<1>6. LoopTypeOK'
  BY <1>1, <1>2, <1>4 DEF Ind, TypeOK, LoopTypeOK
<1>7. SrvControl'
  BY <1>2, <1>4 DEF SrvControl
<1>8. TablesAgree'
  <2> DEFINE fd == client[i]
  <2>1. client \in [Slots -> {-1} \cup ConnFds]
    BY DEF Ind, TypeOK, LoopTypeOK
  <2>2. Taken' = Taken \ {i}
    BY <1>1, <1>2, <2>1 DEF Taken
  <2>3. \A l \in Taken' : l \in Taken /\ client'[l] = client[l] /\ l # i
    BY <1>1, <1>2, <2>1, <2>2 DEF Taken
  <2>4. \A l \in Taken' : client[l] # fd
    BY <1>1, <1>3, <2>3 DEF Ind, TablesAgree
  <2>5. \A l \in Taken' : fdconn'[client'[l]] # NoConn
    <3>1. \A l \in Taken' : client[l] \in ConnFds
      BY <2>1, <2>3 DEF Taken
    <3>2. fdconn \in [ConnFds -> Conns \cup {NoConn}]
      BY DEF Ind, TypeOK, LoopTypeOK
    <3> QED
      BY <1>2, <1>3, <2>3, <2>4, <3>1, <3>2 DEF Ind, TablesAgree
  <2>6. \A l, m \in Taken' : client'[l] = client'[m] => l = m
    BY <1>3, <2>3 DEF Ind, TablesAgree
  <2>7. \A f \in ConnFds : fdconn'[f] # NoConn => \E l \in Taken' : client'[l] = f
    <3>1. SUFFICES ASSUME NEW f \in ConnFds, fdconn'[f] # NoConn
                   PROVE  \E l \in Taken' : client'[l] = f
      OBVIOUS
    <3>2. f # fd /\ fdconn[f] # NoConn
      BY <1>1, <1>2, <3>1 DEF Ind, TypeOK, LoopTypeOK
    <3>3. PICK l \in Taken : client[l] = f
      BY <1>3, <3>2 DEF Ind, TablesAgree
    <3> QED
      BY <2>2, <2>3, <3>2, <3>3
  <2>8. allset' = {ListenFd} \cup {client'[l] : l \in Taken'}
    <3>1. allset = {ListenFd} \cup {client[l] : l \in Taken}
      BY <1>3 DEF Ind, TablesAgree
    <3>2. fd # ListenFd
      BY <1>1, Numbers
    <3> QED
      BY <1>1, <1>2, <2>2, <2>3, <2>4, <3>1, <3>2
  <2>9. \A l \in Taken' : l <= maxi' /\ client'[l] <= maxfd'
    BY <1>2, <1>3, <2>3 DEF Ind, TablesAgree
  <2> QED
    BY <2>5, <2>6, <2>7, <2>8, <2>9 DEF TablesAgree
<1> QED
  BY <1>5, <1>6, <1>7, <1>8, ClientsIdle DEF Ind, TypeOK

-----------------------------------------------------------------------------
LEMMA NextInd == Ind /\ [Next]_vars => Ind'
<1> SUFFICES ASSUME Ind, [Next]_vars PROVE Ind'
  OBVIOUS
<1>1. CASE SrvNext /\ UNCHANGED clivars
  <2>1. CASE Select /\ UNCHANGED buf
    BY <1>1, <2>1, SelectInd
  <2>2. CASE AcceptClient /\ UNCHANGED buf
    BY <1>1, <2>2, AcceptInd
  <2>3. CASE (AcceptError \/ TooManyClients) /\ UNCHANGED buf
    BY <1>1, <2>3, SrvExitInd DEF AcceptError, TooManyClients
  <2>4. CASE SkipSlot /\ UNCHANGED buf
    BY <1>1, <2>4, SkipSlotInd
  <2>5. ASSUME NEW c \in Conns, ReadError(c), UNCHANGED buf PROVE Ind'
    BY <1>1, <2>5, SrvExitInd DEF ReadError
  <2>6. ASSUME NEW c \in Conns, ReadData(c) PROVE Ind'
    BY <1>1, <2>6, ReadDataInd
  <2>7. ASSUME NEW c \in Conns, ReadEof(c) PROVE Ind'
    BY <1>1, <2>7, ReadEofInd
  <2>8. ASSUME NEW c \in Conns, WriteUnit(c) PROVE Ind'
    BY <1>1, <2>8, WriteUnitInd
  <2>9. ASSUME NEW c \in Conns, WriteError(c) PROVE Ind'
    BY <1>1, <2>9, SrvExitInd DEF WriteError
  <2> QED
    BY <1>1, <2>1, <2>2, <2>3, <2>4, <2>5, <2>6, <2>7, <2>8, <2>9 DEF SrvNext
<1>2. ASSUME NEW c \in Conns, CliNext(c, Listening) \/ CliKill(c),
             UNCHANGED <<srvvars, buf>>
      PROVE  Ind'
  BY <1>2, CliStepInd
<1>3. CASE NetNext /\ UNCHANGED <<srvvars, buf, clivars>>
  BY <1>3, NetStepInd
<1>4. CASE UNCHANGED vars
  <2>1. /\ UNCHANGED <<srvvars, buf>> /\ UNCHANGED clivars /\ UNCHANGED netvars
    BY <1>4 DEF vars
  <2>2. NetTypeOK' /\ SrvControl'
    BY <2>1 DEF Ind, TypeOK, NetTypeOK, SrvControl, netvars, srvvars
  <2> QED
    BY <2>1, <2>2, ServerIdle, ClientsIdle DEF Ind, TypeOK
<1> QED
  BY <1>1, <1>2, <1>3, <1>4 DEF Next

(***************************************************************************)
(* Every variable of the echo service keeps its type, whatever the clients *)
(* do and in whatever order.                                               *)
(***************************************************************************)
THEOREM TypeCorrect == Spec => []TypeOK
<1>1. Ind => TypeOK
  BY DEF Ind
<1> QED
  BY InitInd, NextInd, <1>1, PTL DEF Spec

(***************************************************************************)
(* client[], allset, maxi, maxfd and the descriptors the process holds     *)
(* always agree while the server runs (selectserver.c:35-82).              *)
(***************************************************************************)
THEOREM TablesAlwaysAgree == Spec => []TablesAgree
<1>1. Ind => TablesAgree
  BY DEF Ind
<1> QED
  BY InitInd, NextInd, <1>1, PTL DEF Spec

-----------------------------------------------------------------------------
(* What the ends of a connection mean.                                     *)

(***************************************************************************)
(* The inductive invariant, on top of Ind: for every client, where it is   *)
(* in its loop and what that says of the two ends.                         *)
(***************************************************************************)
CliStage(c) ==
  /\ cpc[c] = "connect" =>
       cend[c] = "none" /\ send[c] = "none" /\ stdineof[c] = 0
  /\ cpc[c] \notin {"connect", "exit"} =>
       cend[c] = IF stdineof[c] = 1 THEN "shut" ELSE "open"
  /\ cpc[c] \in {"stdin", "writen"} => stdineof[c] = 0
  /\ cpc[c] = "sock" =>
       CliReadable(c) /\ ("stdin" \in crset[c] => stdineof[c] = 0)

\* The server's end is closed under a running server, or data is answered by
\* a reset, only after the client's own end.
Endings(c) ==
  /\ cend[c] = "closed" /\ send[c] = "open" => verdict[c] = "killed"
  /\ rstS[c] => verdict[c] = "killed"
  /\ rstC[c] => pc = "dead" /\ send[c] = "closed"
  /\ send[c] = "closed" /\ pc # "dead" =>
       c2s[c] = <<>> /\ cend[c] \in {"shut", "closed"}
  /\ verdict[c] # "none" => cpc[c] = "exit"
  /\ verdict[c] \in {"premature", "error"} => pc = "dead"

CliFacts == \A c \in Conns : CliStage(c) /\ Endings(c)

ExitInd == Ind /\ CliFacts /\ ExitHasCause /\ (pc # "dead" => cause = "none")

LEMMA InitExit == Init => ExitInd
<1> SUFFICES ASSUME Init PROVE ExitInd
  OBVIOUS
<1>1. CliFacts
  BY DEF Init, NetInit, CliInit, CliFacts, CliStage, Endings
<1>2. ExitHasCause /\ (pc # "dead" => cause = "none")
  BY DEF Init, LoopInit, ExitHasCause
<1> QED
  BY <1>1, <1>2, InitInd DEF ExitInd

-----------------------------------------------------------------------------
(* The client's steps.                                                     *)

LEMMA CliStepFacts ==
  ASSUME ExitInd, NEW c \in Conns, CliNext(c, Listening) \/ CliKill(c),
         UNCHANGED <<srvvars, buf>>
  PROVE  CliFacts'
<1> SUFFICES ASSUME NEW d \in Conns PROVE CliStage(d)' /\ Endings(d)'
  BY DEF CliFacts
<1>1. CliStage(d) /\ Endings(d) /\ CliStage(c) /\ Endings(c)
  BY DEF ExitInd, CliFacts
<1>2. NetTypeOK /\ CliTypeOK /\ pc' = pc
  BY DEF ExitInd, Ind, TypeOK, srvvars
<1> USE <1>1, <1>2 DEF NetTypeOK, CliTypeOK, CliStage, Endings, CliReadable,
      clivars, netvars
<1>3. CASE Connect(c, Listening)
  BY <1>3 DEF Connect
<1>4. CASE Refused(c, Listening)
  BY <1>4 DEF Refused, CliExit, Listening
<1>5. CASE CliSelect(c)
  BY <1>5 DEF CliSelect
<1>6. CASE CliRead(c)
  BY <1>6 DEF CliRead
<1>7. CASE CliEof(c)
  BY <1>7 DEF CliEof, CliExit
<1>8. CASE CliReadError(c)
  BY <1>8 DEF CliReadError, CliExit
<1>9. CASE ReadStdin(c)
  BY <1>9 DEF ReadStdin
<1>10. CASE StdinEof(c)
  BY <1>10 DEF StdinEof, EofFlag, HalfClosed
<1>11. CASE CliWriten(c)
  BY SMTT(30), <1>11 DEF CliWriten
<1>12. CASE CliWriteError(c)
  BY <1>12 DEF CliWriteError, CliExit
<1>13. CASE CliKill(c)
  BY <1>13 DEF CliKill, CliExit
<1> QED
  BY <1>3, <1>4, <1>5, <1>6, <1>7, <1>8, <1>9, <1>10, <1>11, <1>12, <1>13
     DEF CliNext

LEMMA ResetFacts ==
  ASSUME ExitInd, NetNext, UNCHANGED <<srvvars, buf, clivars>>
  PROVE  CliFacts'
<1>1. PICK c \in Conns : ResetServer(c) \/ ResetClient(c)
  BY DEF NetNext
<1> SUFFICES ASSUME NEW d \in Conns PROVE CliStage(d)' /\ Endings(d)'
  BY DEF CliFacts
<1>2. CliStage(d) /\ Endings(d) /\ CliStage(c) /\ Endings(c)
  BY DEF ExitInd, CliFacts
<1>3. NetTypeOK /\ CliTypeOK /\ pc' = pc
  BY DEF ExitInd, Ind, TypeOK, srvvars
<1> QED
  BY ZenonT(30), <1>1, <1>2, <1>3 DEF NetTypeOK, CliTypeOK, CliStage, Endings, CliReadable,
     clivars, ResetServer, ResetClient

-----------------------------------------------------------------------------
(* The server's steps.                                                     *)

LEMMA SrvExitFacts ==
  ASSUME ExitInd, NEW why, SrvExit(why), UNCHANGED clivars
  PROVE  CliFacts' /\ pc' = "dead" /\ cause' = why
<1> SUFFICES ASSUME NEW d \in Conns PROVE CliStage(d)' /\ Endings(d)'
  BY DEF CliFacts, SrvExit
<1>1. CliStage(d) /\ Endings(d) /\ NetTypeOK
  BY DEF ExitInd, CliFacts, Ind, TypeOK
<1> QED
  BY <1>1 DEF NetTypeOK, CliStage, Endings, CliReadable, clivars, SrvExit

LEMMA ServeFacts ==
  ASSUME ExitInd, NEW c \in Conns, UNCHANGED clivars,
         ReadData(c) \/ ReadEof(c) \/ WriteUnit(c)
  PROVE  CliFacts' /\ pc # "dead" /\ pc' # "dead" /\ cause' = cause
<1>1. pc # "dead" /\ pc' # "dead" /\ cause' = cause
  BY DEF ReadData, ReadEof, WriteUnit, Recipient, MoreToWrite, Reading, NextReady
<1> SUFFICES ASSUME NEW d \in Conns PROVE CliStage(d)' /\ Endings(d)'
  BY <1>1 DEF CliFacts
<1>2. CliStage(d) /\ Endings(d) /\ NetTypeOK /\ CliTypeOK
  BY DEF ExitInd, CliFacts, Ind, TypeOK
<1>3. CASE ReadData(c)
  BY <1>1, <1>2, <1>3 DEF NetTypeOK, CliTypeOK, CliStage, Endings, CliReadable,
     clivars, ReadData
<1>4. CASE ReadEof(c)
  BY <1>1, <1>2, <1>4 DEF NetTypeOK, CliTypeOK, CliStage, Endings, CliReadable,
     clivars, ReadEof, AtEof, CloseClient
<1>5. CASE WriteUnit(c)
  <2>1. Append(s2c[c], Head(buf)) # <<>>
    <3>1. buf \in Seq(Unit) /\ buf # <<>> /\ s2c[c] \in Seq(Unit)
      BY <1>5 DEF ExitInd, Ind, TypeOK, NetTypeOK, SrvControl, WriteUnit, Recipient, MoreToWrite
    <3> QED
      BY <3>1, HeadTailProperties, AppendFacts
  <2> QED
    BY <1>1, <1>2, <1>5, <2>1 DEF NetTypeOK, CliTypeOK, CliStage, Endings,
       CliReadable, clivars, WriteUnit, Recipient, MoreToWrite
<1> QED
  BY <1>3, <1>4, <1>5

(* Steps of the loop that touch neither a connection nor a client.         *)
LEMMA LoopFacts ==
  ASSUME ExitInd, UNCHANGED clivars, Select \/ AcceptClient \/ SkipSlot
  PROVE  CliFacts' /\ pc # "dead" /\ pc' # "dead" /\ cause' = cause
<1>1. /\ pc # "dead" /\ pc' # "dead" /\ cause' = cause
      /\ UNCHANGED <<cend, send, c2s, s2c, rstS, rstC>>
  BY DEF Select, AcceptClient, MaxIndex, SkipSlot, netvars
<1> QED
  BY <1>1 DEF ExitInd, CliFacts, CliStage, Endings, CliReadable, clivars

(* When the slots run out before the descriptors, there are more of these. *)
LEMMA MoreFdsThanSlots ==
  ASSUME Ind, pc # "dead", FreeFds # {}, FreeSlots = {}
  PROVE  OpenMax - ListenFd > FD_SETSIZE + 1
<1>1. PICK f \in FreeFds : TRUE
  OBVIOUS
<1>2. client \in [Slots -> {-1} \cup ConnFds] /\ FD_SETSIZE \in Nat
  BY LoopAssumption DEF Ind, TypeOK, LoopTypeOK
<1>3. \A k \in Slots : k \in Taken /\ client[k] \in ConnFds \ {f}
  <2>1. \A k \in Slots : client[k] # -1
    BY <1>2 DEF FreeSlots
  <2> QED
    BY <1>1, <1>2, <2>1 DEF Ind, TablesAgree, Taken, FreeFds
<1>4. client \in Injection(Slots, ConnFds \ {f})
  BY <1>2, <1>3 DEF Ind, TablesAgree, Injection, IsInjective
<1>5. f \in ConnFds /\ OpenMax \in Nat /\ ListenFd \in Nat
  BY <1>1, LoopAssumption DEF FreeFds
<1>6. IsFiniteSet(ConnFds) /\ Cardinality(ConnFds) = OpenMax - ListenFd - 1
  BY <1>5, FS_Interval DEF ConnFds
<1>7. /\ IsFiniteSet(ConnFds \ {f})
      /\ Cardinality(ConnFds \ {f}) = OpenMax - ListenFd - 2
  BY <1>5, <1>6, FS_RemoveElement
<1>8. Cardinality(Slots) = FD_SETSIZE
  BY <1>2, FS_Interval DEF Slots
<1>9. Cardinality(Slots) <= Cardinality(ConnFds \ {f})
  BY <1>4, <1>7, FS_Injection
<1> QED
  BY <1>2, <1>5, <1>7, <1>8, <1>9

-----------------------------------------------------------------------------
LEMMA NextExit == ExitInd /\ [Next]_vars => ExitInd'
<1> SUFFICES ASSUME ExitInd, [Next]_vars PROVE ExitInd'
  OBVIOUS
<1>0. Ind'
  BY NextInd DEF ExitInd
<1>1. CASE SrvNext /\ UNCHANGED clivars
  <2>0. verdict' = verdict
    BY <1>1 DEF clivars
  <2>1. CASE Select \/ AcceptClient \/ SkipSlot
    BY <1>0, <1>1, <2>1, LoopFacts DEF ExitInd, ExitHasCause
  <2>2. ASSUME NEW c \in Conns, ReadData(c) \/ ReadEof(c) \/ WriteUnit(c)
        PROVE  ExitInd'
    BY <1>0, <1>1, <2>2, ServeFacts DEF ExitInd, ExitHasCause
  <2>3. CASE AcceptError
    <3>1. CliFacts' /\ pc' = "dead" /\ cause' = "accept error"
      BY <1>1, <2>3, SrvExitFacts DEF AcceptError
    <3> QED
      BY <1>0, <3>1 DEF ExitInd, ExitHasCause
  <2>4. CASE TooManyClients
    <3>1. OpenMax - ListenFd > FD_SETSIZE + 1
      BY <2>4, MoreFdsThanSlots DEF TooManyClients, ExitInd
    <3>2. CliFacts' /\ pc' = "dead" /\ cause' = "too many clients"
      BY <1>1, <2>4, SrvExitFacts DEF TooManyClients
    <3> QED
      BY <1>0, <3>1, <3>2 DEF ExitInd, ExitHasCause
  <2>5. ASSUME NEW c \in Conns, ReadError(c) \/ WriteError(c) PROVE ExitInd'
    <3>1. verdict[c] = "killed"
      BY <2>5 DEF ReadError, WriteError, ExitInd, CliFacts, Endings
    <3>2. CliFacts' /\ pc' = "dead" /\ cause' \in {"read error", "writen error"}
      BY <1>1, <2>5, SrvExitFacts DEF ReadError, WriteError
    <3> QED
      BY <1>0, <2>0, <3>1, <3>2 DEF ExitInd, ExitHasCause
  <2> QED
    BY <1>1, <2>1, <2>2, <2>3, <2>4, <2>5 DEF SrvNext
<1>2. ASSUME NEW c \in Conns, CliNext(c, Listening) \/ CliKill(c),
             UNCHANGED <<srvvars, buf>>
      PROVE  ExitInd'
  <2>1. pc' = pc /\ cause' = cause
    BY <1>2 DEF srvvars
  <2>2. \A d \in Conns : verdict[d] = "killed" => verdict'[d] = "killed"
    <3>1. CliTypeOK /\ (verdict[c] # "none" => cpc[c] = "exit")
      BY DEF ExitInd, Ind, TypeOK, CliFacts, Endings
    <3> QED
      BY <1>2, <3>1 DEF CliTypeOK, CliNext, Connect, Refused, CliSelect, CliRead,
         CliEof, CliReadError, ReadStdin, StdinEof, EofFlag, HalfClosed, CliWriten, CliWriteError,
         CliKill, CliExit
  <2>3. ExitHasCause'
    BY <2>1, <2>2 DEF ExitInd, ExitHasCause
  <2> QED
    BY <1>0, <1>2, <2>1, <2>3, CliStepFacts DEF ExitInd
<1>3. CASE NetNext /\ UNCHANGED <<srvvars, buf, clivars>>
  <2>1. pc' = pc /\ cause' = cause /\ verdict' = verdict
    BY <1>3 DEF srvvars, clivars
  <2> QED
    BY <1>0, <1>3, <2>1, ResetFacts DEF ExitInd, ExitHasCause
<1>4. CASE UNCHANGED vars
  <2>1. UNCHANGED <<pc, cause>> /\ UNCHANGED clivars /\ UNCHANGED netvars
    BY <1>4 DEF vars, srvvars
  <2> QED
    BY <1>0, <2>1 DEF ExitInd, ExitHasCause, CliFacts, CliStage, Endings,
       CliReadable, clivars, netvars
<1> QED
  BY <1>1, <1>2, <1>3, <1>4 DEF Next

LEMMA AlwaysExit == Spec => []ExitInd
BY InitExit, NextExit, PTL DEF Spec

(***************************************************************************)
(* The server exits only at its own limits or because some client was      *)
(* killed; a client that half-closes, waits and leaves the way str_cli     *)
(* does can never make its Read or Writen fail (selectserver.c:69-76).     *)
(***************************************************************************)
THEOREM ExitAlwaysHasCause == Spec => []ExitHasCause
BY AlwaysExit, PTL DEF ExitInd

(***************************************************************************)
(* A client says "server terminated prematurely" (select_strcli.c:25), or  *)
(* fails in a call, only when the server is dead.                          *)
(***************************************************************************)
THEOREM NeverPrematurely == Spec => []PrematureOnlyIfDead
<1>1. ExitInd => PrematureOnlyIfDead
  BY DEF ExitInd, CliFacts, Endings, PrematureOnlyIfDead
<1> QED
  BY <1>1, AlwaysExit, PTL

-----------------------------------------------------------------------------
(***************************************************************************)
(* The count of ready descriptors.  Between Select and the scan, what was  *)
(* reported is in allset; a descriptor accepted meanwhile is not reported. *)
(***************************************************************************)
Reported ==
  /\ pc = "accept" => ListenFd \in rset /\ rset \subseteq allset
  /\ pc = "write" => client[i] \in rset

ReadyInd == Ind /\ ReadyCountExact /\ Reported

(* A table that lists every element of R once has as many entries as R.    *)
LEMMA SameCount ==
  ASSUME NEW tab, NEW T, NEW R, IsFiniteSet(R),
         \A k \in T : tab[k] \in R,
         \A k, l \in T : tab[k] = tab[l] => k = l,
         \A f \in R : \E k \in T : tab[k] = f
  PROVE  IsFiniteSet(T) /\ Cardinality(T) = Cardinality(R)
<1> DEFINE g == [k \in T |-> tab[k]]
<1>1. g \in Injection(T, R)
  BY DEF Injection, IsInjective
<1>2. g \in Surjection(T, R)
  BY DEF Surjection
<1> QED
  BY <1>1, <1>2, FS_Injection

LEMMA FdsFinite ==
  ASSUME Ind, NEW R, R \subseteq {ListenFd} \cup ConnFds
  PROVE  IsFiniteSet(R) /\ Cardinality(R) \in Nat /\ \A f \in R : f # -1
<1>1. IsFiniteSet(ConnFds)
  BY FS_Interval, LoopAssumption DEF ConnFds
<1>2. IsFiniteSet({ListenFd} \cup ConnFds)
  BY <1>1, FS_Singleton, FS_Union
<1>3. IsFiniteSet(R)
  BY <1>2, FS_Subset
<1>4. \A f \in R : f \in Nat
  BY Numbers
<1> QED
  BY <1>3, <1>4, FS_CardinalityType

(* The slots whose descriptor is in R, when all of R is in the table.      *)
LEMMA SlotsReported ==
  ASSUME Ind, pc # "dead", NEW R, R \subseteq allset
  PROVE  Cardinality({k \in 0 .. maxi : client[k] \in R}) =
           Cardinality(R \ {ListenFd})
<1> DEFINE T == {k \in 0 .. maxi : client[k] \in R}
<1>1. R \subseteq {ListenFd} \cup ConnFds
  BY DEF Ind, TypeOK, LoopTypeOK
<1>2. \A k \in 0 .. maxi : k \in Slots
  BY Numbers DEF Slots
<1>3. \A k \in T : k \in Taken /\ client[k] \in R \ {ListenFd}
  <2>1. SUFFICES ASSUME NEW k \in T
                 PROVE  k \in Taken /\ client[k] \in R \ {ListenFd}
    OBVIOUS
  <2>2. k \in Slots /\ client[k] # -1
    BY <1>1, <1>2, FdsFinite
  <2>3. client[k] \in ConnFds
    BY <2>2 DEF Ind, TypeOK, LoopTypeOK
  <2> QED
    BY <2>2, <2>3, Numbers DEF Taken
<1>4. \A k, l \in T : client[k] = client[l] => k = l
  BY <1>3 DEF Ind, TablesAgree
<1>5. \A f \in R \ {ListenFd} : \E k \in T : client[k] = f
  <2>1. SUFFICES ASSUME NEW f \in R \ {ListenFd}
                 PROVE  \E k \in T : client[k] = f
    OBVIOUS
  <2>2. PICK k \in Taken : client[k] = f
    BY <2>1 DEF Ind, TablesAgree
  <2>3. k \in Nat /\ k <= maxi
    BY <2>2, Numbers DEF Ind, TablesAgree, Taken
  <2> QED
    BY <2>2, <2>3, Numbers
<1>6. IsFiniteSet(R \ {ListenFd})
  BY <1>1, FdsFinite, FS_Difference
<1> HIDE DEF T
<1>7. Cardinality(T) = Cardinality(R \ {ListenFd})
  BY <1>3, <1>4, <1>5, <1>6, SameCount
<1> QED
  BY <1>7 DEF T

(* Handling the slot at i takes one from the slots still to be handled.    *)
LEMMA OneLess ==
  ASSUME ReadyInd, pc \in {"scan", "write"}, client[i] \in rset, NEW tab,
         \A k \in i + 1 .. maxi : tab[k] = client[k]
  PROVE  Cardinality({k \in i + 1 .. maxi : tab[k] \in rset}) = nready - 1
<1>1. i \in Nat /\ maxi \in Int /\ i <= maxi
  BY Numbers DEF ReadyInd, Ind, SrvControl
<1>2. {k \in i + 1 .. maxi : tab[k] \in rset} = Pending \ {i}
  BY <1>1 DEF Pending
<1>3. IsFiniteSet(Pending)
  <2>1. IsFiniteSet(i .. maxi)
    BY <1>1, FS_Interval
  <2>2. Pending \in SUBSET (i .. maxi)
    BY DEF Pending
  <2> QED
    BY <2>1, <2>2, FS_Subset
<1>4. i \in Pending
  BY <1>1 DEF Pending
<1> QED
  BY <1>2, <1>3, <1>4, FS_RemoveElement DEF ReadyInd, ReadyCountExact

LEMMA InitReady == Init => ReadyInd
BY InitInd DEF ReadyInd, ReadyCountExact, Reported, Init, LoopInit

LEMMA SelectReady ==
  ASSUME ReadyInd, Select, UNCHANGED <<clivars, buf>>
  PROVE  ReadyCountExact' /\ Reported'
<1>1. Ind /\ pc = "select"
  BY DEF ReadyInd, Select
<1>2. /\ rset' = ReadyFds /\ ReadyFds \subseteq allset /\ ReadyFds # {}
      /\ nready' = Cardinality(ReadyFds) /\ i' = 0
      /\ UNCHANGED <<client, maxi, allset>>
      /\ pc' = IF ListenFd \in ReadyFds THEN "accept" ELSE "scan"
  BY DEF Select, ReadyFds, tabvars
<1>3. Cardinality({k \in 0 .. maxi : client[k] \in ReadyFds}) =
        Cardinality(ReadyFds \ {ListenFd})
  BY <1>1, <1>2, SlotsReported
<1>4. pc' = "scan" => ReadyFds \ {ListenFd} = ReadyFds
  BY <1>2
<1>5. nready' > 0
  <2>1. ReadyFds \subseteq {ListenFd} \cup ConnFds
    BY <1>1, <1>2 DEF Ind, TypeOK, LoopTypeOK
  <2> QED
    BY <1>1, <1>2, <2>1, FdsFinite, FS_EmptySet
<1>6. Pending' = {k \in 0 .. maxi : client[k] \in ReadyFds}
  BY <1>2 DEF Pending
<1> QED
  BY <1>2, <1>3, <1>4, <1>5, <1>6 DEF ReadyCountExact, Reported

LEMMA AcceptReady ==
  ASSUME ReadyInd, AcceptClient, UNCHANGED <<clivars, buf>>
  PROVE  ReadyCountExact' /\ Reported'
<1>1. PICK fd \in FreeFds, k0 \in FreeSlots :
       /\ client' = [client EXCEPT ![k0] = fd]
       /\ maxi' = IF k0 > maxi THEN k0 ELSE maxi
  BY DEF AcceptClient, MaxIndex
<1>2. /\ Ind /\ pc = "accept" /\ i = 0 /\ i' = 0 /\ rset' = rset
      /\ nready' = nready - 1 /\ nready = Cardinality(rset)
      /\ ListenFd \in rset /\ rset \subseteq allset
      /\ pc' = IF nready - 1 <= 0 THEN "select" ELSE "scan"
  BY DEF ReadyInd, ReadyCountExact, Reported, Ind, SrvControl, AcceptClient
<1>3. /\ fd \in ConnFds /\ fdconn[fd] = NoConn
      /\ k0 \in Slots /\ client[k0] < 0 /\ k0 \in Nat
      /\ client \in [Slots -> {-1} \cup ConnFds]
  BY <1>2, Numbers DEF FreeFds, FreeSlots, Ind, TypeOK, LoopTypeOK
<1>4. fd \notin rset
  <2>1. fd # ListenFd
    BY <1>2, <1>3, Numbers
  <2>2. \A k \in Taken : client[k] # fd
    BY <1>2, <1>3 DEF Ind, TablesAgree
  <2> QED
    BY <1>2, <2>1, <2>2 DEF Ind, TablesAgree
<1>5. rset \subseteq {ListenFd} \cup ConnFds
  BY <1>2 DEF Ind, TypeOK, LoopTypeOK
<1>6. Pending' = {k \in 0 .. maxi : client[k] \in rset}
  <2>1. maxi \in Int /\ \A k \in 0 .. maxi : k \in Slots
    BY <1>2, Numbers DEF Slots
  <2>2. client[k0] \notin rset
    BY <1>2, <1>3, <1>5, Numbers
  <2>3. \A k \in 0 .. maxi' : client'[k] \in rset =>
           k \in 0 .. maxi /\ client[k] \in rset
    <3>1. SUFFICES ASSUME NEW k \in 0 .. maxi', client'[k] \in rset
                   PROVE  k \in 0 .. maxi /\ client[k] \in rset
      OBVIOUS
    <3>2. k # k0
      BY <1>1, <1>3, <1>4, <3>1
    <3>3. k \in Slots
      BY <1>1, <1>2, <1>3, <2>1, Numbers DEF Slots
    <3>4. client'[k] = client[k]
      BY <1>1, <1>3, <3>2, <3>3
    <3>5. k \in Taken
      BY <1>2, <1>5, <3>1, <3>3, <3>4, FdsFinite DEF Taken
    <3> QED
      BY <1>2, <2>1, <3>1, <3>3, <3>4, <3>5 DEF Ind, TablesAgree
  <2>4. \A k \in 0 .. maxi : client[k] \in rset =>
           k \in 0 .. maxi' /\ client'[k] \in rset
    BY <1>1, <1>3, <2>1, <2>2
  <2> QED
    BY <1>2, <2>3, <2>4 DEF Pending
<1>7. Cardinality(Pending') = Cardinality(rset \ {ListenFd})
  BY <1>2, <1>6, SlotsReported
<1>8. Cardinality(rset \ {ListenFd}) = Cardinality(rset) - 1
  BY <1>2, <1>5, FdsFinite, FS_RemoveElement
<1>9. Cardinality(rset) \in Nat
  BY <1>2, <1>5, FdsFinite
<1> QED
  BY <1>2, <1>7, <1>8, <1>9 DEF ReadyCountExact, Reported

LEMMA SkipReady ==
  ASSUME ReadyInd, SkipSlot, UNCHANGED <<clivars, buf>>
  PROVE  ReadyCountExact' /\ Reported'
<1>1. /\ i \in Nat /\ maxi \in Int
      /\ pc = "scan" /\ client[i] \notin rset /\ i' = i + 1
      /\ UNCHANGED <<rset, nready, client, maxi>>
      /\ pc' \in {"select", "scan"}
  BY Numbers DEF ReadyInd, SkipSlot, tabvars
<1>2. Pending' = Pending
  BY <1>1 DEF Pending
<1> QED
  BY <1>1, <1>2 DEF ReadyInd, ReadyCountExact, Reported

LEMMA HandledReady ==
  ASSUME ReadyInd, pc \in {"scan", "write"}, client[i] \in rset, NextReady,
         UNCHANGED <<rset, maxi>>,
         \A k \in i + 1 .. maxi : client'[k] = client[k]
  PROVE  ReadyCountExact' /\ Reported'
<1>1. Cardinality({k \in i + 1 .. maxi : client'[k] \in rset}) = nready - 1
  BY OneLess
<1>2. Cardinality(Pending') = nready - 1
  BY <1>1 DEF Pending, NextReady
<1>3. nready \in Nat /\ nready' = nready - 1 /\ pc' \in {"select", "scan"}
  BY Numbers DEF ReadyInd, NextReady
<1>4. pc' = "scan" => nready - 1 > 0
  BY <1>3 DEF NextReady
<1> QED
  BY <1>2, <1>3, <1>4 DEF ReadyCountExact, Reported

LEMMA ServeReady ==
  ASSUME ReadyInd, NEW c \in Conns, ReadData(c) \/ ReadEof(c) \/ WriteUnit(c)
  PROVE  ReadyCountExact' /\ Reported'
<1>0. Ind
  BY DEF ReadyInd
<1>1. CASE ReadData(c)
  <2>1. /\ pc = "scan" /\ pc' = "write" /\ client[i] \in rset
        /\ UNCHANGED <<i, rset, nready, client, maxi>>
    BY <1>1 DEF ReadData, Reading, tabvars
  <2>2. Pending' = Pending
    BY <2>1 DEF Pending
  <2> QED
    BY <2>1, <2>2 DEF ReadyInd, ReadyCountExact, Reported
<1>2. CASE ReadEof(c)
  <2>1. /\ pc = "scan" /\ client[i] \in rset /\ NextReady
        /\ client' = [client EXCEPT ![i] = -1] /\ UNCHANGED <<rset, maxi>>
    BY <1>2 DEF ReadEof, Reading, CloseClient
  <2>2. \A k \in i + 1 .. maxi : client'[k] = client[k]
    <3>1. i \in Nat /\ maxi \in Int /\ client \in [Slots -> {-1} \cup ConnFds]
      BY <1>0, Numbers DEF Ind, TypeOK, LoopTypeOK
    <3>2. \A k \in i + 1 .. maxi : k \in Slots /\ k # i
      BY <1>0, <3>1, Numbers DEF Slots
    <3> QED
      BY <2>1, <3>1, <3>2
  <2> QED
    BY <2>1, <2>2, HandledReady
<1>3. CASE WriteUnit(c)
  <2>1. /\ pc = "write" /\ UNCHANGED <<rset, client, maxi>>
        /\ client[i] \in rset
        /\ UNCHANGED <<pc, i, nready>> \/ NextReady
    BY <1>3 DEF WriteUnit, tabvars, ReadyInd, Reported
  <2>2. CASE UNCHANGED <<pc, i, nready>>
    BY <2>1, <2>2 DEF ReadyInd, ReadyCountExact, Reported, Pending
  <2>3. CASE NextReady
    BY <2>1, <2>3, HandledReady
  <2> QED
    BY <2>1, <2>2, <2>3
<1> QED
  BY <1>1, <1>2, <1>3

LEMMA NextReadyInd == ReadyInd /\ [Next]_vars => ReadyInd'
<1> SUFFICES ASSUME ReadyInd, [Next]_vars PROVE ReadyCountExact' /\ Reported'
  BY NextInd DEF ReadyInd
<1>1. CASE SrvNext /\ UNCHANGED clivars
  <2>1. CASE Select /\ UNCHANGED buf
    BY <1>1, <2>1, SelectReady
  <2>2. CASE AcceptClient /\ UNCHANGED buf
    BY <1>1, <2>2, AcceptReady
  <2>3. CASE SkipSlot /\ UNCHANGED buf
    BY <1>1, <2>3, SkipReady
  <2>4. ASSUME NEW c \in Conns, ReadData(c) \/ ReadEof(c) \/ WriteUnit(c)
        PROVE  ReadyCountExact' /\ Reported'
    BY <2>4, ServeReady
  <2>5. ASSUME pc' = "dead" PROVE ReadyCountExact' /\ Reported'
    BY <2>5 DEF ReadyCountExact, Reported
  <2> QED
    BY <1>1, <2>1, <2>2, <2>3, <2>4, <2>5 DEF SrvNext, AcceptError,
       TooManyClients, ReadError, WriteError, SrvExit
<1>2. CASE UNCHANGED srvvars
  BY <1>2 DEF ReadyInd, ReadyCountExact, Reported, Pending, srvvars
<1> QED
  BY <1>1, <1>2 DEF Next, vars

(***************************************************************************)
(* In every round of the select loop nready is exactly the number of       *)
(* descriptors still to be handled (selectserver.c:40-79): the early break *)
(* out of the scan skips nobody.                                           *)
(***************************************************************************)
THEOREM ReadyCountAlwaysExact == Spec => []ReadyCountExact
<1>1. ReadyInd => ReadyCountExact
  BY DEF ReadyInd
<1> QED
  BY InitReady, NextReadyInd, <1>1, PTL DEF Spec

-----------------------------------------------------------------------------
(***************************************************************************)
(* A connection is in one place: it waits in the queue of the listening    *)
(* socket, once, or has one descriptor; in either place its server end is  *)
(* open.                                                                   *)
(***************************************************************************)
OnePlace ==
  /\ \A f, g \in ConnFds : fdconn[f] = fdconn[g] /\ fdconn[f] # NoConn => f = g
  /\ \A m, n \in 1 .. Len(listenq) : listenq[m] = listenq[n] => m = n
  /\ \A m \in 1 .. Len(listenq) : \A f \in ConnFds : fdconn[f] # listenq[m]
  /\ \A m \in 1 .. Len(listenq) : send[listenq[m]] = "open"
  /\ \A f \in ConnFds : fdconn[f] # NoConn => send[fdconn[f]] = "open"

PlaceInd == ExitInd /\ OnePlace

LEMMA InitPlace == Init => PlaceInd
<1> SUFFICES ASSUME Init PROVE OnePlace
  BY InitExit DEF PlaceInd
<1>1. listenq = <<>> /\ Len(listenq) = 0 /\ \A f \in ConnFds : fdconn[f] = NoConn
  BY EmptySeq DEF Init, LoopInit, NetInit
<1> QED
  BY <1>1 DEF OnePlace

LEMMA ConnectPlace ==
  ASSUME PlaceInd, NEW c \in Conns, Connect(c, Listening), UNCHANGED srvvars
  PROVE  OnePlace'
<1>1. /\ listenq \in Seq(Conns) /\ send \in [Conns -> {"none", "open", "closed"}]
      /\ fdconn \in [ConnFds -> Conns \cup {NoConn}]
      /\ send[c] = "none"
  BY DEF PlaceInd, ExitInd, Ind, TypeOK, NetTypeOK, LoopTypeOK, CliFacts,
         CliStage, Connect
<1>2. /\ listenq' = Append(listenq, c) /\ send' = [send EXCEPT ![c] = "open"]
      /\ fdconn' = fdconn
  BY DEF Connect, srvvars
<1>3. /\ Len(listenq') = Len(listenq) + 1 /\ Len(listenq) \in Nat
      /\ \A m \in 1 .. Len(listenq) :
           listenq'[m] = listenq[m] /\ listenq[m] \in Conns
      /\ listenq'[Len(listenq) + 1] = c
  BY <1>1, <1>2, AppendProperties, LenProperties, ElementOfSeq
<1>4. \A m \in 1 .. Len(listenq) : listenq[m] # c
  BY <1>1 DEF PlaceInd, OnePlace
<1>5. \A f \in ConnFds : fdconn[f] # c
  BY <1>1, NoConnAssumption DEF PlaceInd, OnePlace
<1>6. \A m \in 1 .. Len(listenq') :
        \/ m = Len(listenq) + 1 /\ listenq'[m] = c
        \/ /\ m \in 1 .. Len(listenq)
           /\ listenq'[m] = listenq[m] /\ listenq[m] # c /\ listenq[m] \in Conns
  BY <1>3, <1>4
<1>7. \A m, n \in 1 .. Len(listenq') : listenq'[m] = listenq'[n] => m = n
  BY <1>6 DEF PlaceInd, OnePlace
<1>8. /\ \A m \in 1 .. Len(listenq') : \A f \in ConnFds : fdconn'[f] # listenq'[m]
      /\ \A m \in 1 .. Len(listenq') : send'[listenq'[m]] = "open"
  BY <1>1, <1>2, <1>5, <1>6 DEF PlaceInd, OnePlace
<1>9. /\ \A f, g \in ConnFds :
           fdconn'[f] = fdconn'[g] /\ fdconn'[f] # NoConn => f = g
      /\ \A f \in ConnFds : fdconn'[f] # NoConn => send'[fdconn'[f]] = "open"
  BY <1>1, <1>2, <1>5 DEF PlaceInd, OnePlace
<1> QED
  BY <1>7, <1>8, <1>9 DEF OnePlace

LEMMA AcceptPlace ==
  ASSUME PlaceInd, AcceptClient
  PROVE  OnePlace'
<1>1. PICK fd \in FreeFds : fdconn' = [fdconn EXCEPT ![fd] = Head(listenq)]
  BY DEF AcceptClient
<1>2. /\ fd \in ConnFds /\ fdconn[fd] = NoConn
      /\ listenq \in Seq(Conns) /\ listenq # <<>>
      /\ fdconn \in [ConnFds -> Conns \cup {NoConn}]
      /\ listenq' = Tail(listenq) /\ send' = send
  BY DEF FreeFds, PlaceInd, ExitInd, Ind, TypeOK, NetTypeOK, LoopTypeOK,
         SrvControl, AcceptClient
<1>3. /\ Len(listenq) \in Nat \ {0} /\ Len(listenq') = Len(listenq) - 1
      /\ \A m \in 1 .. Len(listenq') : listenq'[m] = listenq[m + 1]
      /\ Head(listenq) = listenq[1]
  BY <1>2, HeadTailProperties, EmptySeq
<1>4. \A m \in 1 .. Len(listenq') : m \in Nat /\ m + 1 \in 1 .. Len(listenq)
  BY <1>3
<1>5. 1 \in 1 .. Len(listenq)
  BY <1>3
<1>6. \A m, n \in 1 .. Len(listenq') : listenq'[m] = listenq'[n] => m = n
  <2>1. SUFFICES ASSUME NEW m \in 1 .. Len(listenq'), NEW n \in 1 .. Len(listenq'),
                        listenq'[m] = listenq'[n]
                 PROVE  m = n
    OBVIOUS
  <2>2. m + 1 = n + 1
    BY <1>3, <1>4, <2>1 DEF PlaceInd, OnePlace
  <2> QED
    BY <1>4, <2>2
<1>7. \A m \in 1 .. Len(listenq') :
        /\ listenq'[m] # Head(listenq)
        /\ \A f \in ConnFds : fdconn[f] # listenq'[m]
        /\ send[listenq'[m]] = "open"
  <2>1. SUFFICES ASSUME NEW m \in 1 .. Len(listenq')
                 PROVE  /\ listenq'[m] # Head(listenq)
                        /\ \A f \in ConnFds : fdconn[f] # listenq'[m]
                        /\ send[listenq'[m]] = "open"
    OBVIOUS
  <2>2. m + 1 # 1 /\ m + 1 \in 1 .. Len(listenq)
    BY <1>4
  <2> QED
    BY <1>3, <1>5, <2>2 DEF PlaceInd, OnePlace
<1>8. \A f \in ConnFds : fdconn[f] # Head(listenq)
  BY <1>3, <1>5 DEF PlaceInd, OnePlace
<1>9. send[Head(listenq)] = "open"
  BY <1>3, <1>5 DEF PlaceInd, OnePlace
<1>10. \A f \in ConnFds : fdconn'[f] = IF f = fd THEN Head(listenq) ELSE fdconn[f]
  BY <1>1, <1>2
<1>11. \A f, g \in ConnFds :
         fdconn'[f] = fdconn'[g] /\ fdconn'[f] # NoConn => f = g
  BY <1>8, <1>10 DEF PlaceInd, OnePlace
<1>12. \A f \in ConnFds : fdconn'[f] # NoConn => send'[fdconn'[f]] = "open"
  BY <1>2, <1>9, <1>10 DEF PlaceInd, OnePlace
<1>13. \A m \in 1 .. Len(listenq') : \A f \in ConnFds : fdconn'[f] # listenq'[m]
  BY <1>7, <1>10
<1>14. \A m \in 1 .. Len(listenq') : send'[listenq'[m]] = "open"
  BY <1>2, <1>7
<1> QED
  BY <1>6, <1>11, <1>12, <1>13, <1>14 DEF OnePlace

LEMMA ClosePlace ==
  ASSUME PlaceInd, NEW c \in Conns, ReadEof(c)
  PROVE  OnePlace'
<1>1. /\ client[i] \in ConnFds /\ fdconn[client[i]] = c
  BY AtSlot DEF ReadEof, PlaceInd, ExitInd
<1>2. /\ fdconn' = [fdconn EXCEPT ![client[i]] = NoConn]
      /\ send' = [send EXCEPT ![c] = "closed"] /\ listenq' = listenq
  BY DEF ReadEof, CloseClient
<1>3. /\ fdconn \in [ConnFds -> Conns \cup {NoConn}]
      /\ send \in [Conns -> {"none", "open", "closed"}] /\ listenq \in Seq(Conns)
      /\ c # NoConn
  BY NoConnAssumption DEF PlaceInd, ExitInd, Ind, TypeOK, NetTypeOK, LoopTypeOK
<1>4. \A f \in ConnFds : IF f = client[i] THEN fdconn'[f] = NoConn
                         ELSE fdconn'[f] = fdconn[f] /\ fdconn[f] # c
  BY <1>1, <1>2, <1>3 DEF PlaceInd, OnePlace
<1>5. \A m \in 1 .. Len(listenq) : listenq[m] # c /\ listenq[m] \in Conns
  BY <1>1, <1>3, ElementOfSeq DEF PlaceInd, OnePlace
<1>6. \A d \in Conns : d # c => send'[d] = send[d]
  BY <1>2, <1>3
<1>7. \A m \in 1 .. Len(listenq') : send'[listenq'[m]] = "open"
  BY <1>2, <1>5, <1>6 DEF PlaceInd, OnePlace
<1>8. \A f \in ConnFds : fdconn'[f] # NoConn => send'[fdconn'[f]] = "open"
  BY <1>3, <1>4, <1>6 DEF PlaceInd, OnePlace
<1>9. \A m \in 1 .. Len(listenq') : \A f \in ConnFds : fdconn'[f] # listenq'[m]
  BY <1>2, <1>4, <1>5, NoConnAssumption DEF PlaceInd, OnePlace
<1>10. \A f, g \in ConnFds :
         fdconn'[f] = fdconn'[g] /\ fdconn'[f] # NoConn => f = g
  BY <1>4 DEF PlaceInd, OnePlace
<1> QED
  BY <1>2, <1>7, <1>8, <1>9, <1>10 DEF PlaceInd, OnePlace

LEMMA NextPlace == PlaceInd /\ [Next]_vars => PlaceInd'
<1> SUFFICES ASSUME PlaceInd, [Next]_vars PROVE OnePlace'
  BY NextExit DEF PlaceInd
<1>1. CASE UNCHANGED <<listenq, fdconn, send>>
  BY <1>1 DEF PlaceInd, OnePlace
<1>2. CASE SrvNext
  <2>1. CASE AcceptClient
    BY <2>1, AcceptPlace
  <2>2. ASSUME NEW c \in Conns, ReadEof(c) PROVE OnePlace'
    BY <2>2, ClosePlace
  <2>3. ASSUME NEW why, SrvExit(why) PROVE OnePlace'
    <3>1. /\ listenq' = <<>> /\ Len(listenq') = 0
          /\ \A f \in ConnFds : fdconn'[f] = NoConn
      BY <2>3, EmptySeq DEF SrvExit
    <3> QED
      BY <3>1 DEF OnePlace
  <2>4. CASE Select \/ SkipSlot \/ \E c \in Conns : ReadData(c) \/ WriteUnit(c)
    <3>1. UNCHANGED <<listenq, fdconn, send>>
      BY <2>4 DEF Select, SkipSlot, ReadData, WriteUnit, tabvars, netvars
    <3> QED
      BY <1>1, <3>1
  <2> QED
    BY <1>2, <2>1, <2>2, <2>3, <2>4 DEF SrvNext, AcceptError, TooManyClients,
       ReadError, WriteError
<1>3. ASSUME NEW c \in Conns, CliNext(c, Listening) \/ CliKill(c),
             UNCHANGED <<srvvars, buf>>
      PROVE  OnePlace'
  <2>1. CASE Connect(c, Listening)
    BY <1>3, <2>1, ConnectPlace
  <2>2. CASE ~Connect(c, Listening)
    <3>1. UNCHANGED <<listenq, send>>
      BY <1>3, <2>2 DEF CliNext, Refused, CliSelect, CliRead, CliEof,
         CliReadError, ReadStdin, StdinEof, CliWriten, CliWriteError, CliKill,
         netvars
    <3> QED
      BY <1>1, <1>3, <3>1 DEF srvvars
  <2> QED
    BY <2>1, <2>2
<1>4. CASE NetNext /\ UNCHANGED <<srvvars, buf, clivars>>
  <2>1. UNCHANGED <<listenq, send, fdconn>>
    BY <1>4 DEF NetNext, ResetServer, ResetClient, srvvars
  <2> QED
    BY <1>1, <2>1
<1>5. CASE UNCHANGED vars
  BY <1>1, <1>5 DEF vars, srvvars, netvars
<1> QED
  BY <1>2, <1>3, <1>4, <1>5 DEF Next

-----------------------------------------------------------------------------
(***************************************************************************)
(* The descriptors Select reported and the loop has still to read from.    *)
(***************************************************************************)
Awaited ==
  CASE pc = "accept" -> rset \ {ListenFd}
    [] pc = "scan" -> {client[k] : k \in Pending}
    [] pc = "write" -> {client[k] : k \in Pending \ {i}}
    [] OTHER -> {}

StillReady == \A f \in Awaited : SrvReadable(fdconn[f])

StaleInd == ReadyInd /\ PlaceInd /\ StillReady

LEMMA InitStale == Init => StaleInd
<1> SUFFICES ASSUME Init PROVE Awaited = {}
  BY InitReady, InitPlace DEF StaleInd, StillReady
<1> QED
  BY DEF Init, LoopInit, Awaited

LEMMA PendingTaken ==
  ASSUME Ind, NEW k \in Pending
  PROVE  k \in Taken /\ client[k] \in rset /\ client[k] \in ConnFds /\ k \in Nat
<1>1. k \in i .. maxi /\ client[k] \in rset
  BY DEF Pending
<1>2. k \in Slots /\ k \in Nat
  BY <1>1, Numbers DEF Slots
<1>3. client[k] # -1
  BY <1>1, FdsFinite DEF Ind, TypeOK, LoopTypeOK
<1> QED
  BY <1>1, <1>2, <1>3 DEF Taken, Ind, TypeOK, LoopTypeOK

LEMMA AwaitedHeld ==
  ASSUME ReadyInd, NEW f \in Awaited
  PROVE  f \in ConnFds /\ fdconn[f] \in Conns
<1>0. Ind
  BY DEF ReadyInd
<1>1. pc # "dead" /\ \E k \in Taken : client[k] = f
  <2>1. CASE pc = "accept"
    <3>1. f \in allset /\ f # ListenFd
      BY <2>1 DEF Awaited, ReadyInd, Reported
    <3> QED
      BY <1>0, <2>1, <3>1 DEF Ind, TablesAgree
  <2>2. CASE pc \in {"scan", "write"}
    <3>1. \E k \in Pending : client[k] = f
      BY <2>2 DEF Awaited
    <3> QED
      BY <1>0, <2>2, <3>1, PendingTaken
  <2> QED
    BY <2>1, <2>2 DEF Awaited
<1>2. PICK k \in Taken : client[k] = f
  BY <1>1
<1>3. f \in ConnFds
  BY <1>0, <1>2 DEF Taken, Ind, TypeOK, LoopTypeOK
<1> QED
  BY <1>0, <1>1, <1>2, <1>3 DEF Ind, TypeOK, LoopTypeOK, TablesAgree

(* Nobody but the server takes away what makes a connection readable.      *)
LEMMA StaysReadable ==
  ASSUME PlaceInd, NEW d \in Conns, send[d] = "open", SrvReadable(d),
         \/ NetNext
         \/ \E c \in Conns : CliNext(c, Listening) \/ CliKill(c)
  PROVE  SrvReadable(d)'
<1>1. NetTypeOK /\ CliTypeOK /\ \A c \in Conns : CliStage(c)
  BY DEF PlaceInd, ExitInd, Ind, TypeOK, CliFacts
<1>2. ASSUME NEW c \in Conns, ResetServer(c) \/ ResetClient(c)
      PROVE  SrvReadable(d)'
  BY <1>1, <1>2, Zenon DEF NetTypeOK, ResetServer, ResetClient, SrvReadable
<1>3. ASSUME NEW c \in Conns, CliNext(c, Listening) \/ CliKill(c)
      PROVE  SrvReadable(d)'
  <2>1. CliStage(c)
    BY <1>1
  <2>2. CASE Connect(c, Listening)
    BY <1>1, <2>1, <2>2 DEF Connect, NetTypeOK, CliStage, SrvReadable
  <2>3. CASE CliWriten(c)
    <3>1. Append(c2s[c], Head(cbuf[c])) # <<>>
      <4>1. cbuf[c] \in Seq(Unit) /\ cbuf[c] # <<>> /\ c2s[c] \in Seq(Unit)
        BY <2>3 DEF PlaceInd, ExitInd, Ind, TypeOK, NetTypeOK, CliTypeOK,
           CliControl, CliWriten
      <4> QED
        BY <4>1, HeadTailProperties, AppendFacts
    <3> QED
      BY <1>1, <2>3, <3>1 DEF CliWriten, NetTypeOK, SrvReadable
  <2>4. CASE StdinEof(c)
    BY <1>1, <2>4 DEF StdinEof, HalfClosed, NetTypeOK, SrvReadable
  <2>5. ASSUME NEW how, CliExit(c, how), UNCHANGED <<c2s, rstS>>
        PROVE  SrvReadable(d)'
    BY <1>1, <2>5 DEF CliExit, NetTypeOK, SrvReadable
  <2>6. CASE UNCHANGED <<c2s, rstS, cend>>
    BY <2>6 DEF SrvReadable
  <2> QED
    BY <1>3, <2>2, <2>3, <2>4, <2>5, <2>6 DEF CliNext, Refused, CliSelect,
       CliRead, CliEof, CliReadError, ReadStdin, CliWriteError, CliKill, netvars
<1> QED
  BY <1>2, <1>3 DEF NetNext

(* A step of the server after which what is awaited was awaited before, on *)
(* the same connections, and these are as they were.                       *)
LEMMA NarrowsReady ==
  ASSUME StaleInd, Awaited' \subseteq Awaited,
         \A f \in Awaited' :
           /\ fdconn'[f] = fdconn[f]
           /\ c2s'[fdconn[f]] = c2s[fdconn[f]]
           /\ cend'[fdconn[f]] = cend[fdconn[f]]
           /\ rstS'[fdconn[f]] = rstS[fdconn[f]]
  PROVE  StillReady'
<1> SUFFICES ASSUME NEW f \in Awaited' PROVE SrvReadable(fdconn[f])'
  BY DEF StillReady
<1>1. SrvReadable(fdconn[f])
  BY DEF StaleInd, StillReady
<1> QED
  BY <1>1 DEF SrvReadable

LEMMA SelectStale ==
  ASSUME StaleInd, Select
  PROVE  StillReady'
<1> SUFFICES ASSUME NEW f \in Awaited' PROVE SrvReadable(fdconn[f])'
  BY DEF StillReady
<1>0. Ind /\ pc = "select"
  BY DEF StaleInd, ReadyInd, Select
<1>1. /\ rset' = ReadyFds /\ UNCHANGED <<client, fdconn, maxi>> /\ i' = 0
      /\ pc' \in {"accept", "scan"}
      /\ UNCHANGED <<c2s, cend, rstS>>
  BY DEF Select, tabvars, netvars
<1>2. f \in ReadyFds /\ f # ListenFd
  <2>1. CASE pc' = "accept"
    BY <1>1, <2>1 DEF Awaited
  <2>2. CASE pc' = "scan"
    <3>1. PICK k \in Pending' : client[k] = f
      BY <1>1, <2>2 DEF Awaited
    <3>2. k \in 0 .. maxi /\ client[k] \in ReadyFds
      BY <1>1, <3>1 DEF Pending
    <3>3. k \in Slots
      BY <1>0, <3>2, Numbers DEF Slots
    <3>4. ListenFd # -1 /\ ListenFd \notin ConnFds
      BY <1>0, Numbers
    <3> QED
      BY <1>0, <3>1, <3>2, <3>3, <3>4 DEF Ind, TypeOK, LoopTypeOK
  <2> QED
    BY <1>1, <2>1, <2>2
<1>3. SrvReadable(fdconn[f])
  BY <1>2 DEF ReadyFds, FdReady
<1> QED
  BY <1>1, <1>3 DEF SrvReadable

LEMMA AcceptStale ==
  ASSUME StaleInd, AcceptClient
  PROVE  StillReady'
<1>1. PICK fd \in FreeFds, k0 \in FreeSlots :
       /\ fdconn' = [fdconn EXCEPT ![fd] = Head(listenq)]
       /\ client' = [client EXCEPT ![k0] = fd]
       /\ maxi' = IF k0 > maxi THEN k0 ELSE maxi
  BY DEF AcceptClient, MaxIndex
<1>2. /\ Ind /\ pc = "accept" /\ pc' \in {"select", "scan"}
      /\ rset' = rset /\ rset \subseteq allset /\ i' = i /\ i = 0
      /\ UNCHANGED <<c2s, cend, rstS>>
  BY DEF StaleInd, ReadyInd, Reported, Ind, SrvControl, AcceptClient
<1>3. /\ fd \in ConnFds /\ fdconn[fd] = NoConn
      /\ k0 \in Slots /\ client[k0] < 0
      /\ client \in [Slots -> {-1} \cup ConnFds]
      /\ fdconn \in [ConnFds -> Conns \cup {NoConn}]
  BY <1>2 DEF FreeFds, FreeSlots, Ind, TypeOK, LoopTypeOK
<1>4. \A f \in rset \ {ListenFd} : f \in ConnFds /\ fdconn[f] \in Conns
  BY <1>2, AwaitedHeld DEF Awaited, StaleInd
<1>5. fd \notin rset \ {ListenFd}
  BY <1>3, <1>4, NoConnAssumption
<1>6. Awaited' \subseteq rset \ {ListenFd}
  <2>1. SUFFICES ASSUME NEW f \in Awaited' PROVE f \in rset \ {ListenFd}
    OBVIOUS
  <2>2. PICK k \in Pending' : client'[k] = f
    BY <1>2, <2>1 DEF Awaited
  <2>3. k \in 0 .. maxi' /\ f \in rset
    BY <1>2, <2>2 DEF Pending
  <2>4. k \in Slots
    BY <1>1, <1>2, <1>3, <2>3, Numbers DEF Slots
  <2>5. f \in {-1} \cup ConnFds
    BY <1>1, <1>3, <2>2, <2>4
  <2>6. ListenFd # -1 /\ ListenFd \notin ConnFds
    BY <1>2, Numbers
  <2> QED
    BY <2>3, <2>5, <2>6
<1>7. Awaited = rset \ {ListenFd}
  BY <1>2 DEF Awaited
<1>8. \A f \in Awaited' : fdconn'[f] = fdconn[f]
  BY <1>1, <1>3, <1>4, <1>5, <1>6
<1> QED
  BY <1>2, <1>6, <1>7, <1>8, NarrowsReady

(* The slot at i is behind the loop.                                       *)
LEMMA HandledStale ==
  ASSUME StaleInd, pc \in {"scan", "write"}, pc' \in {"scan", "select"},
         i' = i + 1, UNCHANGED <<rset, maxi>>,
         \A k \in i + 1 .. maxi : client'[k] = client[k]
  PROVE  /\ Awaited' \subseteq Awaited
         /\ \A f \in Awaited' : \E k \in Taken : k # i /\ client[k] = f
<1>0. Ind /\ i \in Nat /\ maxi \in Int
  BY Numbers DEF StaleInd, ReadyInd
<1>1. \A k \in Pending' : k \in Pending \ {i} /\ client'[k] = client[k]
  BY <1>0 DEF Pending
<1>2. \A f \in Awaited' : \E k \in Pending \ {i} : client[k] = f
  BY <1>1 DEF Awaited
<1>3. \A f \in Awaited' : f \in Awaited
  BY <1>2 DEF Awaited
<1> QED
  BY <1>0, <1>2, <1>3, PendingTaken

LEMMA ServeStale ==
  ASSUME StaleInd, NEW c \in Conns, ReadData(c) \/ ReadEof(c) \/ WriteUnit(c)
  PROVE  StillReady'
<1>0. Ind /\ ReadyInd /\ OnePlace
  BY DEF StaleInd, ReadyInd, PlaceInd
<1>1. CASE ReadData(c)
  <2>1. /\ pc = "scan" /\ pc' = "write" /\ client[i] \in rset
        /\ UNCHANGED <<i, rset, client, maxi, fdconn, cend, rstS>>
        /\ \E s : c2s' = [c2s EXCEPT ![c] = s]
    BY <1>1 DEF ReadData, Reading, tabvars
  <2>2. /\ i \in Taken /\ client[i] \in ConnFds /\ fdconn[client[i]] = c
    BY <1>0, <1>1, AtSlot DEF ReadData
  <2>3. Pending' = Pending
    BY <2>1 DEF Pending
  <2>4. \A f \in Awaited' : \E k \in Pending \ {i} : client[k] = f
    BY <2>1, <2>3 DEF Awaited
  <2>5. Awaited' \subseteq Awaited
    BY <2>1, <2>4 DEF Awaited
  <2>6. \A f \in Awaited' : f # client[i] /\ f \in ConnFds /\ fdconn[f] \in Conns
    <3>1. \A k \in Pending \ {i} : client[k] # client[i]
      BY <1>0, <2>1, <2>2, PendingTaken DEF Ind, TablesAgree
    <3> QED
      BY <1>0, <2>4, <2>5, <3>1, AwaitedHeld
  <2>7. \A f \in Awaited' : fdconn[f] # c
    BY <1>0, <2>2, <2>6, NoConnAssumption DEF OnePlace
  <2>8. c2s \in [Conns -> Seq(Unit)]
    BY <1>0 DEF Ind, TypeOK, NetTypeOK
  <2>9. \A f \in Awaited' : c2s'[fdconn[f]] = c2s[fdconn[f]]
    BY <2>1, <2>6, <2>7, <2>8
  <2> QED
    BY <2>1, <2>5, <2>9, NarrowsReady
<1>2. CASE ReadEof(c)
  <2>1. /\ pc = "scan" /\ client[i] \in rset /\ NextReady
        /\ client' = [client EXCEPT ![i] = -1]
        /\ fdconn' = [fdconn EXCEPT ![client[i]] = NoConn]
        /\ UNCHANGED <<rset, maxi, c2s, cend, rstS>>
    BY <1>2 DEF ReadEof, Reading, CloseClient
  <2>2. /\ i \in Taken /\ client[i] \in ConnFds /\ i \in Nat /\ maxi \in Int
        /\ client \in [Slots -> {-1} \cup ConnFds]
        /\ fdconn \in [ConnFds -> Conns \cup {NoConn}]
    BY <1>0, <1>2, AtSlot, Numbers DEF ReadEof, Ind, TypeOK, LoopTypeOK
  <2>3. \A k \in i + 1 .. maxi : client'[k] = client[k]
    <3>1. \A k \in i + 1 .. maxi : k \in Slots /\ k # i
      BY <1>0, <2>2, Numbers DEF Slots
    <3> QED
      BY <2>1, <2>2, <3>1
  <2>4. /\ Awaited' \subseteq Awaited
        /\ \A f \in Awaited' : \E k \in Taken : k # i /\ client[k] = f
    <3>1. pc' \in {"scan", "select"} /\ i' = i + 1
      BY <2>1 DEF NextReady
    <3> QED
      BY <2>1, <2>3, <3>1, HandledStale
  <2>5. \A f \in Awaited' : f # client[i] /\ f \in ConnFds
    <3>1. \A k \in Taken : k # i => client[k] # client[i]
      BY <1>0, <2>1, <2>2 DEF Ind, TablesAgree
    <3> QED
      BY <1>0, <2>4, <3>1, AwaitedHeld
  <2>6. \A f \in Awaited' : fdconn'[f] = fdconn[f]
    BY <2>1, <2>2, <2>5
  <2> QED
    BY <2>1, <2>4, <2>6, NarrowsReady
<1>3. CASE WriteUnit(c)
  <2>1. /\ pc = "write"
        /\ UNCHANGED <<rset, client, maxi, fdconn, c2s, cend, rstS>>
        /\ UNCHANGED <<pc, i, nready>> \/ NextReady
    BY <1>3 DEF WriteUnit, tabvars
  <2>2. CASE UNCHANGED <<pc, i, nready>>
    <3>1. Awaited' = Awaited
      BY <2>1, <2>2 DEF Awaited, Pending
    <3> QED
      BY <2>1, <3>1, NarrowsReady
  <2>3. CASE NextReady
    <3>1. pc' \in {"scan", "select"} /\ i' = i + 1
      BY <2>3 DEF NextReady
    <3>2. Awaited' \subseteq Awaited
      BY <2>1, <3>1, HandledStale
    <3> QED
      BY <2>1, <3>2, NarrowsReady
  <2> QED
    BY <2>1, <2>2, <2>3
<1> QED
  BY <1>1, <1>2, <1>3

LEMMA NextStale == StaleInd /\ [Next]_vars => StaleInd'
<1> SUFFICES ASSUME StaleInd, [Next]_vars PROVE StillReady'
  BY NextReadyInd, NextPlace DEF StaleInd
<1>1. CASE SrvNext
  <2>1. CASE Select
    BY <2>1, SelectStale
  <2>2. CASE AcceptClient
    BY <2>2, AcceptStale
  <2>3. CASE SkipSlot
    <3>1. /\ pc = "scan" /\ pc' \in {"scan", "select"} /\ i' = i + 1
          /\ UNCHANGED <<rset, client, maxi, fdconn, c2s, cend, rstS>>
      BY <2>3 DEF SkipSlot, tabvars, netvars
    <3>2. Awaited' \subseteq Awaited
      BY <3>1, HandledStale
    <3> QED
      BY <3>1, <3>2, NarrowsReady
  <2>4. ASSUME NEW c \in Conns, ReadData(c) \/ ReadEof(c) \/ WriteUnit(c)
        PROVE  StillReady'
    BY <2>4, ServeStale
  <2>5. ASSUME pc' = "dead" PROVE StillReady'
    BY <2>5 DEF StillReady, Awaited
  <2> QED
    BY <1>1, <2>1, <2>2, <2>3, <2>4, <2>5 DEF SrvNext, AcceptError,
       TooManyClients, ReadError, WriteError, SrvExit
<1>2. ASSUME UNCHANGED srvvars,
             NetNext \/ \E c \in Conns : CliNext(c, Listening) \/ CliKill(c)
      PROVE  StillReady'
  <2>1. Awaited' = Awaited /\ fdconn' = fdconn
    BY <1>2 DEF srvvars, Awaited, Pending
  <2>2. SUFFICES ASSUME NEW f \in Awaited PROVE SrvReadable(fdconn[f])'
    BY <2>1 DEF StillReady
  <2>3. PICK d \in Conns : d = fdconn[f]
    BY AwaitedHeld DEF StaleInd
  <2>4. f \in ConnFds /\ d # NoConn /\ SrvReadable(d)
    BY <2>3, AwaitedHeld, NoConnAssumption DEF StaleInd, StillReady
  <2>5. send[d] = "open"
    BY <2>3, <2>4 DEF StaleInd, PlaceInd, OnePlace
  <2>6. SrvReadable(d)'
    BY <1>2, <2>4, <2>5, StaysReadable DEF StaleInd
  <2> QED
    BY <2>1, <2>3, <2>6 DEF SrvReadable
<1>3. CASE UNCHANGED vars
  <2>1. /\ Awaited' = Awaited
        /\ UNCHANGED <<fdconn, c2s, cend, rstS>>
    BY <1>3 DEF vars, srvvars, netvars, Awaited, Pending
  <2> QED
    BY <2>1, NarrowsReady
<1> QED
  BY <1>1, <1>2, <1>3 DEF Next

LEMMA AlwaysStale == Spec => []StaleInd
BY InitStale, NextStale, PTL DEF Spec

(***************************************************************************)
(* Whatever clients do between Select and the calls it announced, Accept   *)
(* and Read find what was announced (selectserver.c:40-69): the server     *)
(* never blocks in them.                                                   *)
(***************************************************************************)
THEOREM NeverBlocksOnStale == Spec => []NeverBlocksOnStaleReady
<1>1. StaleInd => NeverBlocksOnStaleReady
  BY DEF StaleInd, StillReady, Awaited, ReadyInd, Ind, SrvControl,
     NeverBlocksOnStaleReady
<1> QED
  BY <1>1, AlwaysStale, PTL

-----------------------------------------------------------------------------
(* Facts about streams that are cut and put together again.                *)

LEMMA TakeDrop ==
  ASSUME NEW S, NEW a \in Seq(S), NEW b \in Seq(S), NEW n \in 0 .. Len(b)
  PROVE  (a \o Take(b, n)) \o Drop(b, n) = a \o b
<1>1. Take(b, n) \in Seq(S) /\ Drop(b, n) \in Seq(S)
  BY TakeType, DropType
<1>2. Take(b, n) \o Drop(b, n) = b
  <2>0. Len(b) \in Nat
    BY LenProperties
  <2>1. /\ 1 \in 1 .. Len(b) + 1 /\ n \in 1 - 1 .. Len(b)
        /\ Len(b) \in n .. Len(b)
    BY <2>0
  <2>2. SubSeq(b, 1, n) \o SubSeq(b, n + 1, Len(b)) = SubSeq(b, 1, Len(b))
    BY <2>1, ConcatAdjacentSubSeq
  <2> QED
    BY <2>2, SubSeqFull DEF Take, Drop
<1>3. (a \o Take(b, n)) \o Drop(b, n) = a \o (Take(b, n) \o Drop(b, n))
  <2>1. \A p, q \in Seq(S) : (a \o p) \o q = a \o (p \o q)
    BY ConcatAssociative
  <2> QED
    BY <1>1, <2>1, Zenon
<1> QED
  BY <1>2, <1>3

LEMMA Regroup == \A a, b, t \in Seq(Unit) : (a \o b) \o t = a \o (b \o t)
BY ConcatAssociative

LEMMA PassOn ==
  \A a, x, y \in Seq(Unit) : y # <<>> =>
    (a \o Append(x, Head(y))) \o Tail(y) = (a \o x) \o y
<1> SUFFICES ASSUME NEW a \in Seq(Unit), NEW x \in Seq(Unit), NEW y \in Seq(Unit),
                    y # <<>>
             PROVE  (a \o Append(x, Head(y))) \o Tail(y) = (a \o x) \o y
  OBVIOUS
<1>1. Head(y) \in Unit /\ Tail(y) \in Seq(Unit) /\ <<Head(y)>> \in Seq(Unit)
  BY HeadTailProperties
<1>2. y = <<Head(y)>> \o Tail(y)
  <2>1. Len(y) \in Nat \ {0}
    BY EmptySeq
  <2>2. 1 \in 1 .. Len(y) /\ Len(y) \in 1 .. Len(y)
    BY <2>1
  <2>3. SubSeq(y, 1, Len(y)) = <<y[1]>> \o SubSeq(y, 1 + 1, Len(y))
    BY <2>2, SubSeqRecursiveFirst
  <2>4. SubSeq(y, 1, Len(y)) = y
    BY SubSeqFull
  <2>5. Tail(y) = SubSeq(y, 2, Len(y))
    BY TailIsSubSeq
  <2>6. Head(y) = y[1] /\ 1 + 1 = 2
    OBVIOUS
  <2> QED
    BY <2>3, <2>4, <2>5, <2>6
<1>3. Append(x, Head(y)) = x \o <<Head(y)>>
  BY <1>1, AppendIsConcat
<1>4. a \o (x \o <<Head(y)>>) = (a \o x) \o <<Head(y)>>
  BY <1>1, ConcatAssociative
<1>5. a \o x \in Seq(Unit)
  BY ConcatProperties
<1>6. ((a \o x) \o <<Head(y)>>) \o Tail(y) = (a \o x) \o (<<Head(y)>> \o Tail(y))
  BY <1>1, <1>5, Regroup, Zenon
<1> QED
  BY <1>2, <1>3, <1>4, <1>6

LEMMA FiveLengths ==
  \A a, b, h, x, y \in Seq(Unit) :
    Len(a \o b \o h \o x \o y) = Len(a) + Len(b) + Len(h) + Len(x) + Len(y)
<1> SUFFICES ASSUME NEW a \in Seq(Unit), NEW b \in Seq(Unit), NEW h \in Seq(Unit),
                    NEW x \in Seq(Unit), NEW y \in Seq(Unit)
             PROVE  Len(a \o b \o h \o x \o y)
                      = Len(a) + Len(b) + Len(h) + Len(x) + Len(y)
  OBVIOUS
<1>1. a \o b \in Seq(Unit) /\ Len(a \o b) = Len(a) + Len(b)
  BY ConcatProperties
<1>2. /\ a \o b \o h \in Seq(Unit)
      /\ Len(a \o b \o h) = Len(a) + Len(b) + Len(h)
  BY <1>1, ConcatProperties
<1>3. /\ a \o b \o h \o x \in Seq(Unit)
      /\ Len(a \o b \o h \o x) = Len(a) + Len(b) + Len(h) + Len(x)
  BY <1>2, ConcatProperties
<1> QED
  BY <1>3, ConcatProperties

LEMMA TailEmpty ==
  ASSUME NEW S, NEW s \in Seq(S), s # <<>>, ~(Len(s) > 1)
  PROVE  Tail(s) = <<>>
<1>1. Tail(s) \in Seq(S) /\ Len(Tail(s)) = Len(s) - 1 /\ Len(s) \in Nat \ {0}
  BY HeadTailProperties, EmptySeq
<1>2. Len(Tail(s)) = 0
  BY <1>1
<1> QED
  BY <1>1, <1>2, EmptySeq

(* What the user of c has typed after t units.                             *)
LEMMA TypedFacts ==
  ASSUME NEW c \in Conns, NEW t \in Nat
  PROVE  /\ [k \in 1 .. t |-> <<c, k>>] \in Seq(Unit)
         /\ Len([k \in 1 .. t |-> <<c, k>>]) = t
<1>1. [k \in 1 .. t |-> <<c, k>>] \in [1 .. t -> Unit]
  BY DEF Unit
<1>2. [k \in 1 .. t |-> <<c, k>>] \in Seq(Unit)
  BY <1>1, SeqDef
<1>3. DOMAIN [k \in 1 .. t |-> <<c, k>>] = 1 .. t
  OBVIOUS
<1> QED
  BY <1>2, <1>3, LenProperties

LEMMA TypeMore ==
  ASSUME NEW c \in Conns, NEW t \in Nat, NEW n \in Nat
  PROVE  /\ [k \in 1 .. n |-> <<c, t + k>>] \in Seq(Unit)
         /\ [k \in 1 .. t |-> <<c, k>>] \o [k \in 1 .. n |-> <<c, t + k>>]
              = [k \in 1 .. t + n |-> <<c, k>>]
<1> DEFINE a == [k \in 1 .. t |-> <<c, k>>]
           b == [k \in 1 .. n |-> <<c, t + k>>]
           w == [k \in 1 .. t + n |-> <<c, k>>]
<1>1. a \in Seq(Unit) /\ Len(a) = t
  BY TypedFacts
<1>2. w \in Seq(Unit) /\ Len(w) = t + n
  <2>1. t + n \in Nat
    OBVIOUS
  <2> QED
    BY <2>1, TypedFacts
<1>3. b \in Seq(Unit) /\ Len(b) = n
  <2>1. b \in [1 .. n -> Unit]
    BY DEF Unit
  <2>2. b \in Seq(Unit)
    BY <2>1, SeqDef
  <2>3. DOMAIN b = 1 .. n
    OBVIOUS
  <2> QED
    BY <2>2, <2>3, LenProperties
<1>4. /\ a \o b \in Seq(Unit) /\ Len(a \o b) = t + n
      /\ \A k \in 1 .. t + n :
           (a \o b)[k] = IF k <= t THEN a[k] ELSE b[k - t]
  BY <1>1, <1>3, ConcatProperties
<1>5. \A k \in 1 .. t + n : (a \o b)[k] = w[k]
  <2>1. SUFFICES ASSUME NEW k \in 1 .. t + n PROVE (a \o b)[k] = <<c, k>>
    OBVIOUS
  <2>2. CASE k <= t
    BY <1>4, <2>2
  <2>3. CASE ~(k <= t)
    <3>1. k - t \in 1 .. n /\ t + (k - t) = k
      BY <2>3
    <3> QED
      BY <1>4, <2>3, <3>1
  <2> QED
    BY <2>2, <2>3
<1> QED
  BY <1>2, <1>3, <1>4, <1>5, SeqEqual

-----------------------------------------------------------------------------
(***************************************************************************)
(* The streams.  EchoStream with what each process holds between its       *)
(* calls; what reached a client or is on its way to it is the beginning of *)
(* what it typed even after a reset or the server's death.                 *)
(***************************************************************************)
NothingHeldBack ==
  \A c \in Conns : cpc[c] \notin {"writen", "exit"} => cbuf[c] = <<>>

Begins(c) ==
  \E rest \in Seq(Unit) : (rcvd[c] \o s2c[c]) \o rest = Typed(c)

Delivered == \A c \in Conns : Begins(c)

Fallen == pc = "dead" => cause # "none"

StreamInd ==
  /\ PlaceInd /\ NothingHeldBack /\ Fallen
  /\ EchoStream /\ Delivered /\ NormalMeansComplete

Flow(c) == rcvd[c] \o s2c[c] \o Held(c) \o c2s[c] \o cbuf[c]

LEMMA StreamTypes ==
  ASSUME Ind, NEW c \in Conns
  PROVE  /\ rcvd[c] \in Seq(Unit) /\ s2c[c] \in Seq(Unit) /\ Held(c) \in Seq(Unit)
         /\ c2s[c] \in Seq(Unit) /\ cbuf[c] \in Seq(Unit)
         /\ typed[c] \in Nat /\ Typed(c) \in Seq(Unit) /\ Len(Typed(c)) = typed[c]
<1>1. typed[c] \in Nat
  BY DEF Ind, TypeOK, CliTypeOK
<1>2. Typed(c) \in Seq(Unit) /\ Len(Typed(c)) = typed[c]
  BY <1>1, TypedFacts DEF Typed
<1>3. Held(c) \in Seq(Unit)
  BY EmptySeq DEF Held, Ind, TypeOK
<1> QED
  BY <1>1, <1>2, <1>3 DEF Ind, TypeOK, NetTypeOK, CliTypeOK

LEMMA InitStream == Init => StreamInd
<1> SUFFICES ASSUME Init PROVE StreamInd
  OBVIOUS
<1>1. PlaceInd
  BY InitPlace
<1>2. \A c \in Conns : /\ rcvd[c] = <<>> /\ s2c[c] = <<>> /\ c2s[c] = <<>>
                       /\ cbuf[c] = <<>> /\ typed[c] = 0 /\ verdict[c] = "none"
  BY DEF Init, NetInit, CliInit
<1>3. pc = "select" /\ cause = "none"
  BY DEF Init, LoopInit
<1>4. \A c \in Conns : Typed(c) = <<>>
  <2>1. SUFFICES ASSUME NEW c \in Conns PROVE Typed(c) = <<>>
    OBVIOUS
  <2>2. Typed(c) \in Seq(Unit) /\ Len(Typed(c)) = 0
    BY <1>1, <1>2, StreamTypes DEF PlaceInd, ExitInd
  <2> QED
    BY <2>2, EmptySeq
<1>5. <<>> \o <<>> = <<>>
  BY EmptySeq, ConcatEmptySeq
<1>6. EchoStream
  BY <1>2, <1>3, <1>4, <1>5 DEF EchoStream, Held
<1>7. Delivered
  BY <1>2, <1>4, <1>5, EmptySeq DEF Delivered, Begins
<1> QED
  BY <1>1, <1>2, <1>3, <1>6, <1>7 DEF StreamInd, NothingHeldBack, Fallen,
     NormalMeansComplete

(* What the server holds changes only when the server does something.      *)
LEMMA HeldIdle ==
  ASSUME UNCHANGED <<srvvars, buf>>, NEW c
  PROVE  Held(c)' = Held(c)
BY DEF srvvars, Held

(* The stream of a connection a step does not touch.                       *)
LEMMA Untouched ==
  ASSUME StreamInd, pc # "dead", NEW d \in Conns,
         rcvd'[d] = rcvd[d], s2c'[d] = s2c[d], Held(d)' = Held(d),
         c2s'[d] = c2s[d], cbuf'[d] = cbuf[d], typed'[d] = typed[d],
         ~rstS[d], ~rstC[d]
  PROVE  Flow(d)' = Typed(d)'
<1>1. Flow(d) = Typed(d)
  BY DEF StreamInd, EchoStream, Flow
<1>2. Typed(d)' = Typed(d)
  BY DEF Typed
<1>3. Flow(d)' = Flow(d)
  BY DEF Flow
<1> QED
  BY <1>1, <1>2, <1>3

-----------------------------------------------------------------------------
(* Each step that moves units leaves the stream of its connection whole.   *)

LEMMA CliReadFlow ==
  ASSUME StreamInd, NEW c \in Conns, CliRead(c), UNCHANGED <<srvvars, buf>>
  PROVE  /\ Flow(c)' = Flow(c) /\ Typed(c)' = Typed(c)
         /\ rcvd'[c] \o s2c'[c] = rcvd[c] \o s2c[c]
<1> DEFINE n == Lesser(MaxLine, Len(s2c[c]))
<1>0. Ind
  BY DEF StreamInd, PlaceInd, ExitInd
<1>1. rcvd[c] \in Seq(Unit) /\ s2c[c] \in Seq(Unit) /\ Len(s2c[c]) \in Nat
  BY <1>0, StreamTypes, LenProperties
<1>2. n \in 0 .. Len(s2c[c])
  <2>1. MaxLine \in Nat
    BY SocketsAssumption
  <2>2. n \in Nat /\ n <= Len(s2c[c])
    BY <1>1, <2>1, LesserType
  <2> QED
    BY <1>1, <2>2
<1>3. rcvd'[c] = rcvd[c] \o Take(s2c[c], n) /\ s2c'[c] = Drop(s2c[c], n)
  BY <1>0 DEF CliRead, Ind, TypeOK, NetTypeOK, CliTypeOK
<1>4. (rcvd[c] \o Take(s2c[c], n)) \o Drop(s2c[c], n) = rcvd[c] \o s2c[c]
  BY <1>1, <1>2, TakeDrop
<1>5. rcvd'[c] \o s2c'[c] = rcvd[c] \o s2c[c]
  BY <1>3, <1>4
<1>6. Held(c)' = Held(c) /\ UNCHANGED <<c2s, cbuf, typed>>
  BY HeldIdle DEF CliRead
<1> QED
  BY <1>5, <1>6 DEF Flow, Typed

LEMMA ReadStdinFlow ==
  ASSUME StreamInd, NEW c \in Conns, ReadStdin(c), UNCHANGED <<srvvars, buf>>
  PROVE  /\ Flow(c) = Typed(c) => Flow(c)' = Typed(c)'
         /\ \E more \in Seq(Unit) : Typed(c)' = Typed(c) \o more
         /\ UNCHANGED <<rcvd, s2c>>
<1>0. Ind
  BY DEF StreamInd, PlaceInd, ExitInd
<1>1. PICK n \in 1 .. Lesser(MaxLine, NUnits[c] - typed[c]) :
       /\ cbuf' = [cbuf EXCEPT ![c] = [k \in 1 .. n |-> <<c, typed[c] + k>>]]
       /\ typed' = [typed EXCEPT ![c] = @ + n]
  BY DEF ReadStdin
<1> DEFINE more == [k \in 1 .. n |-> <<c, typed[c] + k>>]
<1>2. typed[c] \in Nat /\ n \in Nat
  BY <1>0, StreamTypes
<1>3. more \in Seq(Unit) /\ Typed(c) \o more = [k \in 1 .. typed[c] + n |-> <<c, k>>]
  BY <1>2, TypeMore DEF Typed
<1>4. cbuf'[c] = more /\ typed'[c] = typed[c] + n
  BY <1>0, <1>1 DEF Ind, TypeOK, CliTypeOK
<1>5. Typed(c)' = Typed(c) \o more
  BY <1>3, <1>4 DEF Typed
<1>6. UNCHANGED <<rcvd, s2c, c2s>> /\ Held(c)' = Held(c)
  BY HeldIdle DEF ReadStdin, netvars
<1>7. cbuf[c] = <<>>
  BY DEF ReadStdin, StreamInd, NothingHeldBack
<1>8. Flow(c) = rcvd[c] \o s2c[c] \o Held(c) \o c2s[c]
  <2>1. /\ rcvd[c] \in Seq(Unit) /\ s2c[c] \in Seq(Unit) /\ Held(c) \in Seq(Unit)
        /\ c2s[c] \in Seq(Unit)
    BY <1>0, StreamTypes
  <2>2. rcvd[c] \o s2c[c] \o Held(c) \o c2s[c] \in Seq(Unit)
    BY <2>1, ConcatProperties
  <2> QED
    BY <1>7, <2>2, ConcatEmptySeq DEF Flow
<1>9. Flow(c)' = (rcvd[c] \o s2c[c] \o Held(c) \o c2s[c]) \o more
  BY <1>4, <1>6 DEF Flow
<1> QED
  BY <1>3, <1>5, <1>6, <1>8, <1>9

LEMMA CliWritenFlow ==
  ASSUME StreamInd, NEW c \in Conns, CliWriten(c), UNCHANGED <<srvvars, buf>>
  PROVE  Flow(c)' = Flow(c) /\ UNCHANGED <<rcvd, s2c, typed>>
<1>0. Ind
  BY DEF StreamInd, PlaceInd, ExitInd
<1>1. /\ rcvd[c] \in Seq(Unit) /\ s2c[c] \in Seq(Unit) /\ Held(c) \in Seq(Unit)
      /\ c2s[c] \in Seq(Unit) /\ cbuf[c] \in Seq(Unit)
  BY <1>0, StreamTypes
<1>2. cbuf[c] # <<>>
  BY <1>0 DEF CliWriten, Ind, CliControl
<1>3. rcvd[c] \o s2c[c] \o Held(c) \in Seq(Unit)
  BY <1>1, ConcatProperties
<1>4. ((rcvd[c] \o s2c[c] \o Held(c)) \o Append(c2s[c], Head(cbuf[c])))
        \o Tail(cbuf[c])
      = ((rcvd[c] \o s2c[c] \o Held(c)) \o c2s[c]) \o cbuf[c]
  BY <1>1, <1>2, <1>3, PassOn, ZenonT(60)
<1>5. /\ c2s'[c] = Append(c2s[c], Head(cbuf[c])) /\ cbuf'[c] = Tail(cbuf[c])
      /\ UNCHANGED <<rcvd, s2c, typed>>
  BY <1>0 DEF CliWriten, Ind, TypeOK, NetTypeOK, CliTypeOK
<1> QED
  BY <1>4, <1>5, HeldIdle DEF Flow

LEMMA ReadDataFlow ==
  ASSUME StreamInd, NEW c \in Conns, ReadData(c), UNCHANGED clivars
  PROVE  Flow(c)' = Flow(c)
<1> DEFINE n == Lesser(MaxLine, Len(c2s[c]))
<1>0. Ind
  BY DEF StreamInd, PlaceInd, ExitInd
<1>1. /\ rcvd[c] \in Seq(Unit) /\ s2c[c] \in Seq(Unit)
      /\ c2s[c] \in Seq(Unit) /\ Len(c2s[c]) \in Nat
  BY <1>0, StreamTypes, LenProperties
<1>2. n \in 0 .. Len(c2s[c])
  <2>1. MaxLine \in Nat
    BY SocketsAssumption
  <2>2. n \in Nat /\ n <= Len(c2s[c])
    BY <1>1, <2>1, LesserType
  <2> QED
    BY <1>1, <2>2
<1>3. Held(c) = <<>>
  BY DEF ReadData, Reading, Held
<1>4. Held(c)' = Take(c2s[c], n) /\ c2s'[c] = Drop(c2s[c], n)
  BY <1>0 DEF ReadData, Reading, Held, tabvars, Ind, TypeOK, NetTypeOK
<1>5. UNCHANGED <<rcvd, s2c, cbuf>>
  BY DEF ReadData, clivars
<1>6. rcvd[c] \o s2c[c] \in Seq(Unit)
  BY <1>1, ConcatProperties
<1>7. ((rcvd[c] \o s2c[c]) \o Take(c2s[c], n)) \o Drop(c2s[c], n)
        = (rcvd[c] \o s2c[c]) \o c2s[c]
  BY <1>1, <1>2, <1>6, TakeDrop
<1>8. (rcvd[c] \o s2c[c]) \o Held(c) = rcvd[c] \o s2c[c]
  BY <1>3, <1>6, ConcatEmptySeq
<1> QED
  BY <1>4, <1>5, <1>7, <1>8 DEF Flow

LEMMA WriteUnitFlow ==
  ASSUME StreamInd, NEW c \in Conns, WriteUnit(c), UNCHANGED clivars
  PROVE  Flow(c)' = Flow(c)
<1>0. Ind
  BY DEF StreamInd, PlaceInd, ExitInd
<1>1. pc = "write" /\ c = fdconn[client[i]] /\ buf \in Seq(Unit) /\ buf # <<>>
  BY <1>0 DEF WriteUnit, Recipient, Ind, TypeOK, SrvControl
<1>2. Held(c) = buf
  BY <1>1 DEF Held
<1>3. Held(c)' = Tail(buf)
  <2>1. UNCHANGED <<fdconn, client>> /\ buf' = Tail(buf)
    BY DEF WriteUnit, tabvars
  <2>2. CASE Len(buf) > 1
    <3>1. UNCHANGED <<pc, i>>
      BY <2>2 DEF WriteUnit, MoreToWrite
    <3> QED
      BY <1>1, <2>1, <3>1 DEF Held
  <2>3. CASE ~(Len(buf) > 1)
    <3>1. Tail(buf) = <<>>
      BY <1>1, <2>3, TailEmpty
    <3>2. pc' # "write"
      BY <2>3 DEF WriteUnit, MoreToWrite, NextReady
    <3> QED
      BY <3>1, <3>2 DEF Held
  <2> QED
    BY <2>2, <2>3
<1>4. /\ s2c'[c] = Append(s2c[c], Head(buf))
      /\ UNCHANGED <<rcvd, c2s, cbuf>>
  BY <1>0 DEF WriteUnit, clivars, Ind, TypeOK, NetTypeOK
<1>5. rcvd[c] \in Seq(Unit) /\ s2c[c] \in Seq(Unit)
  BY <1>0, StreamTypes
<1>6. (rcvd[c] \o Append(s2c[c], Head(buf))) \o Tail(buf)
        = (rcvd[c] \o s2c[c]) \o buf
  BY <1>1, <1>5, PassOn, ZenonT(60)
<1> QED
  BY <1>2, <1>3, <1>4, <1>6 DEF Flow

-----------------------------------------------------------------------------
(* A reset is for good, and so is the server's death.                      *)
LEMMA ForGood ==
  ASSUME Ind, [Next]_vars, NEW d \in Conns
  PROVE  /\ rstS[d] => rstS'[d]
         /\ rstC[d] => rstC'[d]
         /\ pc = "dead" => pc' = "dead"
<1>1. NetTypeOK
  BY DEF Ind, TypeOK
<1>2. ASSUME NEW c \in Conns, ResetServer(c) \/ ResetClient(c), pc' = pc
      PROVE  /\ rstS[d] => rstS'[d]
             /\ rstC[d] => rstC'[d]
             /\ pc = "dead" => pc' = "dead"
  BY <1>1, <1>2 DEF NetTypeOK, ResetServer, ResetClient
<1>3. CASE SrvNext /\ UNCHANGED clivars
  <2>1. UNCHANGED <<rstS, rstC>>
    BY <1>3 DEF SrvNext, Select, AcceptClient, AcceptError, TooManyClients,
       SkipSlot, ReadError, ReadData, ReadEof, WriteUnit, WriteError, SrvExit,
       netvars
  <2>2. pc # "dead"
    BY <1>3 DEF SrvNext, Select, AcceptClient, AcceptError, TooManyClients,
       SkipSlot, ReadError, ReadData, ReadEof, WriteUnit, WriteError, Reading
  <2> QED
    BY <2>1, <2>2
<1>4. ASSUME NEW c \in Conns, CliNext(c, Listening) \/ CliKill(c),
             UNCHANGED <<srvvars, buf>>
      PROVE  UNCHANGED <<rstS, rstC, pc>>
  BY <1>4 DEF CliNext, Connect, Refused, CliSelect, CliRead, CliEof,
     CliReadError, ReadStdin, StdinEof, CliWriten, CliWriteError, CliKill,
     netvars, srvvars
<1>5. CASE UNCHANGED vars
  BY <1>5 DEF vars, netvars, srvvars
<1> QED
  BY <1>2, <1>3, <1>4, <1>5 DEF Next, NetNext, srvvars

LEMMA SrvStepStream ==
  ASSUME StreamInd, SrvNext, UNCHANGED clivars, pc' # "dead",
         NEW d \in Conns, ~rstS[d], ~rstC[d]
  PROVE  Flow(d)' = Typed(d)'
<1>0. Ind /\ NetTypeOK /\ UNCHANGED <<rcvd, cbuf, typed>>
  BY DEF StreamInd, PlaceInd, ExitInd, Ind, TypeOK, clivars
<1>1. CASE Select \/ AcceptClient \/ SkipSlot
  <2>1. pc # "write" /\ pc' # "write" /\ pc # "dead" /\ UNCHANGED <<s2c, c2s>>
    BY <1>1 DEF Select, AcceptClient, SkipSlot, netvars
  <2>2. Held(d) = <<>> /\ Held(d)' = <<>>
    BY <2>1 DEF Held
  <2> QED
    BY <1>0, <2>1, <2>2, Untouched
<1>2. ASSUME NEW c \in Conns, ReadEof(c) PROVE Flow(d)' = Typed(d)'
  <2>1. pc # "write" /\ pc' # "write" /\ pc # "dead" /\ UNCHANGED <<s2c, c2s>>
    BY <1>2 DEF ReadEof, Reading, NextReady
  <2>2. Held(d) = <<>> /\ Held(d)' = <<>>
    BY <2>1 DEF Held
  <2> QED
    BY <1>0, <2>1, <2>2, Untouched
<1>3. ASSUME NEW c \in Conns, ReadData(c) PROVE Flow(d)' = Typed(d)'
  <2>0. pc = "scan" /\ pc' = "write" /\ fdconn'[client'[i']] = c
    BY <1>3 DEF ReadData, Reading, tabvars
  <2>1. CASE d = c
    BY <1>0, <1>3, <2>0, <2>1, ReadDataFlow DEF StreamInd, EchoStream, Flow, Typed
  <2>2. CASE d # c
    <3>1. s2c'[d] = s2c[d] /\ c2s'[d] = c2s[d]
      BY <1>0, <1>3, <2>2 DEF ReadData, NetTypeOK
    <3>2. Held(d) = <<>> /\ Held(d)' = <<>>
      BY <2>0, <2>2 DEF Held
    <3> QED
      BY <1>0, <2>0, <3>1, <3>2, Untouched
  <2> QED
    BY <2>1, <2>2
<1>4. ASSUME NEW c \in Conns, WriteUnit(c) PROVE Flow(d)' = Typed(d)'
  <2>0. /\ pc = "write" /\ fdconn[client[i]] = c
        /\ UNCHANGED <<fdconn, client>>
        /\ UNCHANGED i \/ pc' # "write"
    BY <1>4 DEF WriteUnit, Recipient, tabvars, NextReady
  <2>1. CASE d = c
    BY <1>0, <1>4, <2>0, <2>1, WriteUnitFlow DEF StreamInd, EchoStream, Flow, Typed
  <2>2. CASE d # c
    <3>1. s2c'[d] = s2c[d] /\ c2s'[d] = c2s[d]
      BY <1>0, <1>4, <2>2 DEF WriteUnit, NetTypeOK
    <3>2. Held(d) = <<>> /\ Held(d)' = <<>>
      BY <2>0, <2>2 DEF Held
    <3> QED
      BY <1>0, <2>0, <3>1, <3>2, Untouched
  <2> QED
    BY <2>1, <2>2
<1> QED
  BY <1>1, <1>2, <1>3, <1>4 DEF SrvNext, AcceptError, TooManyClients,
     ReadError, WriteError, SrvExit

(* A client's step moves the units of that client only.                    *)
LEMMA CliStepOwn ==
  ASSUME Ind, NEW c \in Conns, CliNext(c, Listening) \/ CliKill(c),
         NEW d \in Conns, d # c
  PROVE  /\ rcvd'[d] = rcvd[d] /\ s2c'[d] = s2c[d] /\ c2s'[d] = c2s[d]
         /\ cbuf'[d] = cbuf[d] /\ typed'[d] = typed[d] /\ cpc'[d] = cpc[d]
         /\ verdict'[d] = verdict[d]
<1> USE DEF Ind, TypeOK, NetTypeOK, CliTypeOK
<1>1. CASE Connect(c, Listening)
  BY <1>1 DEF Connect
<1>2. CASE CliSelect(c)
  BY <1>2 DEF CliSelect, netvars
<1>3. CASE CliRead(c)
  BY <1>3 DEF CliRead
<1>4. CASE ReadStdin(c)
  BY <1>4 DEF ReadStdin, netvars
<1>5. CASE StdinEof(c)
  BY <1>5 DEF StdinEof
<1>6. CASE CliWriten(c)
  BY <1>6 DEF CliWriten
<1>7. CASE Refused(c, Listening) \/ CliEof(c) \/ CliReadError(c)
             \/ CliWriteError(c) \/ CliKill(c)
  BY <1>7 DEF Refused, CliEof, CliReadError, CliWriteError, CliKill, CliExit
<1> QED
  BY <1>1, <1>2, <1>3, <1>4, <1>5, <1>6, <1>7 DEF CliNext

(* The steps of a client that move no units.                               *)
LEMMA CliStepQuiet ==
  ASSUME NEW c \in Conns, CliNext(c, Listening) \/ CliKill(c),
         ~CliRead(c), ~ReadStdin(c), ~CliWriten(c)
  PROVE  UNCHANGED <<rcvd, s2c, c2s, cbuf, typed>>
BY DEF CliNext, Connect, Refused, CliSelect, CliEof, CliReadError, StdinEof,
   CliWriteError, CliKill, netvars

LEMMA CliStepStream ==
  ASSUME StreamInd, NEW c \in Conns, CliNext(c, Listening) \/ CliKill(c),
         UNCHANGED <<srvvars, buf>>, pc # "dead",
         NEW d \in Conns, ~rstS[d], ~rstC[d]
  PROVE  Flow(d)' = Typed(d)'
<1>0. Ind /\ Flow(d) = Typed(d)
  BY DEF StreamInd, PlaceInd, ExitInd, EchoStream, Flow
<1>1. CASE d # c
  BY <1>0, <1>1, CliStepOwn, HeldIdle, Untouched
<1>2. CASE d = c
  <2>1. CASE CliRead(c)
    BY <1>0, <1>2, <2>1, CliReadFlow
  <2>2. CASE ReadStdin(c)
    BY <1>0, <1>2, <2>2, ReadStdinFlow
  <2>3. CASE CliWriten(c)
    <3>1. Flow(c)' = Flow(c) /\ UNCHANGED <<rcvd, s2c, typed>>
      BY <2>3, CliWritenFlow
    <3> QED
      BY <1>0, <1>2, <3>1 DEF Typed
  <2>4. CASE ~CliRead(c) /\ ~ReadStdin(c) /\ ~CliWriten(c)
    BY <2>4, CliStepQuiet, HeldIdle, Untouched
  <2> QED
    BY <2>1, <2>2, <2>3, <2>4
<1> QED
  BY <1>1, <1>2

LEMMA NextEchoStream ==
  ASSUME StreamInd, [Next]_vars
  PROVE  EchoStream'
<1> SUFFICES ASSUME pc' # "dead", NEW d \in Conns, ~rstS'[d], ~rstC'[d]
             PROVE  Flow(d)' = Typed(d)'
  BY DEF EchoStream, Flow
<1>0. Ind
  BY DEF StreamInd, PlaceInd, ExitInd
<1>1. pc # "dead" /\ ~rstS[d] /\ ~rstC[d]
  BY <1>0, ForGood
<1>2. CASE SrvNext /\ UNCHANGED clivars
  BY <1>1, <1>2, SrvStepStream
<1>3. ASSUME NEW c \in Conns, CliNext(c, Listening) \/ CliKill(c),
             UNCHANGED <<srvvars, buf>>
      PROVE  Flow(d)' = Typed(d)'
  BY <1>1, <1>3, CliStepStream
<1>4. CASE NetNext /\ UNCHANGED <<srvvars, buf, clivars>>
  <2>1. PICK c \in Conns : ResetServer(c) \/ ResetClient(c)
    BY <1>4 DEF NetNext
  <2>2. d # c
    BY <1>0, <2>1 DEF ResetServer, ResetClient, Ind, TypeOK, NetTypeOK
  <2>3. c2s'[d] = c2s[d] /\ s2c'[d] = s2c[d]
    BY <1>0, <2>1, <2>2, Zenon DEF ResetServer, ResetClient, Ind, TypeOK, NetTypeOK
  <2>4. UNCHANGED <<rcvd, cbuf, typed>>
    BY <1>4 DEF clivars
  <2> QED
    BY <1>1, <1>4, <2>3, <2>4, HeldIdle, Untouched
<1>5. CASE UNCHANGED vars
  <2>1. UNCHANGED <<srvvars, buf>> /\ UNCHANGED <<rcvd, s2c, c2s, cbuf, typed>>
    BY <1>5 DEF vars, netvars, clivars
  <2> QED
    BY <1>1, <2>1, HeldIdle, Untouched
<1> QED
  BY <1>2, <1>3, <1>4, <1>5 DEF Next

-----------------------------------------------------------------------------
(* Losing what was on its way leaves a beginning.                          *)
LEMMA LoseTheRest ==
  ASSUME NEW a \in Seq(Unit), NEW b \in Seq(Unit), NEW t,
         \E rest \in Seq(Unit) : (a \o b) \o rest = t
  PROVE  \E rest \in Seq(Unit) : (a \o <<>>) \o rest = t
<1>1. PICK rest \in Seq(Unit) : (a \o b) \o rest = t
  OBVIOUS
<1>2. b \o rest \in Seq(Unit) /\ (a \o b) \o rest = a \o (b \o rest)
  BY ConcatProperties, Regroup
<1>3. a \o <<>> = a
  BY ConcatEmptySeq
<1> QED
  BY <1>1, <1>2, <1>3

LEMMA NextDelivered ==
  ASSUME StreamInd, [Next]_vars
  PROVE  Delivered'
<1> SUFFICES ASSUME NEW d \in Conns PROVE Begins(d)'
  BY DEF Delivered
<1>0. Ind /\ Begins(d)
  BY DEF StreamInd, PlaceInd, ExitInd, Delivered
<1>1. ASSUME rcvd'[d] = rcvd[d], s2c'[d] = s2c[d], typed'[d] = typed[d]
      PROVE  Begins(d)'
  BY <1>0, <1>1 DEF Typed, Begins
<1>2. ASSUME NEW c \in Conns, WriteUnit(c), UNCHANGED clivars PROVE Begins(d)'
  <2>1. CASE d # c
    BY <1>0, <1>1, <1>2, <2>1 DEF WriteUnit, clivars, Ind, TypeOK, NetTypeOK
  <2>2. CASE d = c
    <3>1. pc # "dead" /\ ~rstS[c] /\ ~rstC[c]
      BY <1>2 DEF WriteUnit, StreamInd, PlaceInd, ExitInd, CliFacts, Endings
    <3>2. Flow(c)' = Flow(c) /\ Flow(c) = Typed(c) /\ Typed(c)' = Typed(c)
      BY <1>2, <3>1, WriteUnitFlow DEF StreamInd, EchoStream, Flow, Typed, clivars
    <3>3. Ind'
      BY <1>0, NextInd
    <3>4. /\ rcvd'[c] \in Seq(Unit) /\ s2c'[c] \in Seq(Unit)
          /\ c2s'[c] \in Seq(Unit) /\ cbuf'[c] \in Seq(Unit)
          /\ buf' \in Seq(Unit)
      BY <3>3 DEF Ind, TypeOK, NetTypeOK, CliTypeOK
    <3>5. rcvd'[c] \o s2c'[c] \in Seq(Unit) /\ Held(c)' \in Seq(Unit)
      BY <3>4, ConcatProperties, EmptySeq DEF Held
    <3>6. PICK a \in Seq(Unit), h \in Seq(Unit), x \in Seq(Unit), y \in Seq(Unit) :
            a = rcvd'[c] \o s2c'[c] /\ h = Held(c)' /\ x = c2s'[c] /\ y = cbuf'[c]
      BY <3>4, <3>5
    <3>7. /\ h \o (x \o y) \in Seq(Unit)
          /\ a \o (h \o (x \o y)) = a \o h \o x \o y
      OBVIOUS
    <3>8. a \o h \o x \o y = Typed(c)'
      BY <3>2, <3>6 DEF Flow
    <3>9. (rcvd'[c] \o s2c'[c]) \o (h \o (x \o y)) = Typed(c)'
      BY <3>6, <3>7, <3>8
    <3> QED
      BY <2>2, <3>7, <3>9 DEF Begins
  <2> QED
    BY <2>1, <2>2
<1>3. CASE SrvNext /\ UNCHANGED clivars
  <2>1. CASE UNCHANGED s2c
    BY <1>1, <1>3, <2>1 DEF clivars
  <2> QED
    BY <1>2, <1>3, <2>1 DEF SrvNext, Select, AcceptClient, AcceptError,
       TooManyClients, SkipSlot, ReadError, ReadData, ReadEof, WriteError,
       SrvExit, netvars
<1>4. ASSUME NEW c \in Conns, CliNext(c, Listening) \/ CliKill(c),
             UNCHANGED <<srvvars, buf>>
      PROVE  Begins(d)'
  <2>1. CASE d # c
    BY <1>0, <1>1, <1>4, <2>1, CliStepOwn
  <2>2. CASE d = c
    <3>1. CASE CliRead(c)
      <4>1. rcvd'[d] \o s2c'[d] = rcvd[d] \o s2c[d] /\ Typed(d)' = Typed(d)
        BY <1>4, <2>2, <3>1, CliReadFlow
      <4> QED
        BY <1>0, <4>1 DEF Begins
    <3>2. CASE ReadStdin(c)
      <4>1. PICK more \in Seq(Unit) : Typed(d)' = Typed(d) \o more
        BY <1>4, <2>2, <3>2, ReadStdinFlow
      <4>2. UNCHANGED <<rcvd, s2c>>
        BY <1>4, <3>2, ReadStdinFlow
      <4>3. PICK rest \in Seq(Unit) : (rcvd[d] \o s2c[d]) \o rest = Typed(d)
        BY <1>0 DEF Begins
      <4>4. rcvd[d] \o s2c[d] \in Seq(Unit)
        BY <1>0, StreamTypes, ConcatProperties
      <4>5. ((rcvd[d] \o s2c[d]) \o rest) \o more = (rcvd[d] \o s2c[d]) \o (rest \o more)
        BY <4>4, Regroup, Zenon
      <4>6. rest \o more \in Seq(Unit)
        BY ConcatProperties
      <4> QED
        BY <4>1, <4>2, <4>3, <4>5, <4>6 DEF Begins
    <3>3. CASE CliWriten(c)
      BY <1>1, <3>3 DEF CliWriten
    <3>4. CASE ~CliRead(c) /\ ~ReadStdin(c) /\ ~CliWriten(c)
      BY <1>1, <1>4, <3>4, CliStepQuiet
    <3> QED
      BY <3>1, <3>2, <3>3, <3>4
  <2> QED
    BY <2>1, <2>2
<1>5. CASE NetNext /\ UNCHANGED <<srvvars, buf, clivars>>
  <2>1. s2c'[d] = s2c[d] \/ s2c'[d] = <<>>
    BY <1>0, <1>5, Zenon DEF NetNext, ResetServer, ResetClient, Ind, TypeOK, NetTypeOK
  <2>2. UNCHANGED <<rcvd, typed>> /\ Typed(d)' = Typed(d)
    BY <1>5 DEF clivars, Typed
  <2>3. CASE s2c'[d] = <<>>
    <3>1. rcvd[d] \in Seq(Unit) /\ s2c[d] \in Seq(Unit)
      BY <1>0, StreamTypes
    <3>2. \E rest \in Seq(Unit) : (rcvd[d] \o <<>>) \o rest = Typed(d)
      <4>1. \E rest \in Seq(Unit) : (rcvd[d] \o s2c[d]) \o rest = Typed(d)
        BY <1>0 DEF Begins
      <4> QED
        BY <3>1, <4>1, LoseTheRest, ZenonT(30)
    <3> QED
      BY <2>2, <2>3, <3>2 DEF Begins
  <2> QED
    BY <1>1, <2>1, <2>2, <2>3
<1>6. CASE UNCHANGED vars
  BY <1>1, <1>6 DEF vars, netvars, clivars
<1> QED
  BY <1>3, <1>4, <1>5, <1>6 DEF Next

-----------------------------------------------------------------------------
LEMMA NextHeldBack ==
  ASSUME StreamInd, [Next]_vars
  PROVE  NothingHeldBack'
<1>0. Ind /\ CliTypeOK /\ NothingHeldBack
  BY DEF StreamInd, PlaceInd, ExitInd, Ind, TypeOK
<1>1. CASE UNCHANGED <<cpc, cbuf>>
  BY <1>0, <1>1 DEF NothingHeldBack
<1>2. ASSUME NEW c \in Conns, CliNext(c, Listening) \/ CliKill(c)
      PROVE  NothingHeldBack'
  <2>1. SUFFICES ASSUME NEW d \in Conns, cpc'[d] \notin {"writen", "exit"}
                 PROVE  cbuf'[d] = <<>>
    BY DEF NothingHeldBack
  <2>2. CASE d # c
    BY <1>0, <1>2, <2>1, <2>2, CliStepOwn DEF NothingHeldBack
  <2>3. CASE d = c
    <3>1. CASE CliWriten(c)
      <4>1. cbuf[c] \in Seq(Unit) /\ cbuf[c] # <<>>
        BY <1>0, <3>1 DEF CliWriten, CliTypeOK, Ind, CliControl
      <4>2. cbuf'[c] = Tail(cbuf[c]) /\ ~(Len(cbuf[c]) > 1)
        BY <1>0, <2>1, <2>3, <3>1 DEF CliWriten, CliTypeOK
      <4> QED
        BY <2>3, <4>1, <4>2, TailEmpty
    <3>2. CASE ReadStdin(c)
      BY <1>0, <2>1, <2>3, <3>2 DEF ReadStdin, CliTypeOK
    <3>3. CASE Connect(c, Listening) \/ CliSelect(c) \/ CliRead(c) \/ StdinEof(c)
      BY <1>0, <2>3, <3>3 DEF NothingHeldBack, Connect, CliSelect, CliRead, StdinEof
    <3>4. ASSUME NEW how, CliExit(c, how) PROVE FALSE
      BY <1>0, <2>1, <2>3, <3>4 DEF CliExit, CliTypeOK
    <3> QED
      BY <1>2, <3>1, <3>2, <3>3, <3>4 DEF CliNext, Refused, CliEof,
         CliReadError, CliWriteError, CliKill
  <2> QED
    BY <2>2, <2>3
<1> QED
  BY <1>1, <1>2 DEF Next, vars, clivars

LEMMA NextFallen ==
  ASSUME StreamInd, [Next]_vars
  PROVE  Fallen' /\ (cause' = "none" => cause = "none")
<1>0. Fallen /\ (pc # "dead" => cause = "none")
  BY DEF StreamInd, PlaceInd, ExitInd
<1>1. CASE UNCHANGED <<pc, cause>>
  BY <1>0, <1>1 DEF Fallen
<1>2. CASE SrvNext
  <2>1. ASSUME NEW why \in {"accept error", "too many clients", "read error",
                           "writen error"}, SrvExit(why)
        PROVE  Fallen' /\ (cause' = "none" => cause = "none")
    BY <2>1 DEF SrvExit, Fallen
  <2>2. ASSUME pc # "dead", pc' # "dead", UNCHANGED cause
        PROVE  Fallen' /\ (cause' = "none" => cause = "none")
    BY <2>2 DEF Fallen
  <2>3. CASE Select \/ AcceptClient \/ SkipSlot
    BY <2>2, <2>3 DEF Select, AcceptClient, SkipSlot
  <2>4. ASSUME NEW c \in Conns, ReadData(c) \/ ReadEof(c) \/ WriteUnit(c)
        PROVE  Fallen' /\ (cause' = "none" => cause = "none")
    BY <2>2, <2>4 DEF ReadData, ReadEof, WriteUnit, Reading, NextReady
  <2> QED
    BY <1>2, <2>1, <2>3, <2>4 DEF SrvNext, AcceptError, TooManyClients,
       ReadError, WriteError
<1> QED
  BY <1>1, <1>2 DEF Next, vars, srvvars

(* A client whose server has closed the connection under it, and whose     *)
(* stream is empty, has it all.                                            *)
LEMMA EofMeansAll ==
  ASSUME StreamInd, NEW c \in Conns, CliEof(c), cause = "none"
  PROVE  rcvd[c] = Typed(c)
<1>0. Ind /\ OnePlace /\ CliStage(c) /\ Endings(c) /\ EchoStream
  BY DEF StreamInd, PlaceInd, ExitInd, CliFacts
<1>1. cpc[c] = "sock" /\ s2c[c] = <<>> /\ ~rstC[c]
  BY DEF CliEof
<1>2. pc # "dead" /\ send[c] = "closed"
  BY <1>0, <1>1 DEF StreamInd, Fallen, CliStage, CliReadable
<1>3. c2s[c] = <<>> /\ ~rstS[c]
  BY <1>0, <1>1, <1>2 DEF Endings
<1>4. cbuf[c] = <<>>
  BY <1>1 DEF StreamInd, NothingHeldBack
<1>5. Held(c) = <<>>
  <2>1. SUFFICES ASSUME pc = "write", fdconn[client[i]] = c PROVE FALSE
    BY DEF Held
  <2>2. client[i] \in ConnFds
    BY <1>0, <2>1, AtSlot
  <2> QED
    BY <1>0, <1>2, <2>1, <2>2, NoConnAssumption DEF OnePlace
<1>6. rcvd[c] \o <<>> \o <<>> \o <<>> \o <<>> = Typed(c)
  BY <1>0, <1>1, <1>2, <1>3, <1>4, <1>5 DEF EchoStream
<1>7. rcvd[c] \in Seq(Unit)
  BY <1>0, StreamTypes
<1>8. rcvd[c] \o <<>> = rcvd[c]
  BY <1>7, ConcatEmptySeq
<1> QED
  BY <1>6, <1>8

LEMMA NextComplete ==
  ASSUME StreamInd, [Next]_vars
  PROVE  NormalMeansComplete'
<1> SUFFICES ASSUME NEW d \in Conns, verdict'[d] = "normal", cause' = "none"
             PROVE  rcvd'[d] = Typed(d)'
  BY DEF NormalMeansComplete
<1>0. Ind /\ CliTypeOK /\ Endings(d) /\ cause = "none"
  BY NextFallen DEF StreamInd, PlaceInd, ExitInd, CliFacts, Ind, TypeOK
<1>1. ASSUME verdict[d] = "normal", rcvd'[d] = rcvd[d], typed'[d] = typed[d]
      PROVE  rcvd'[d] = Typed(d)'
  BY <1>0, <1>1 DEF StreamInd, NormalMeansComplete, Typed
<1>2. ASSUME NEW c \in Conns, CliNext(c, Listening) \/ CliKill(c)
      PROVE  rcvd'[d] = Typed(d)'
  <2>1. CASE d # c
    BY <1>0, <1>1, <1>2, <2>1, CliStepOwn
  <2>2. CASE d = c
    <3>1. cpc[c] # "exit" /\ verdict[c] # "normal"
      BY <1>0, <1>2, <2>2 DEF CliNext, Connect, Refused, CliSelect, CliRead,
         CliEof, CliReadError, ReadStdin, StdinEof, CliWriten, CliWriteError,
         CliKill, Endings
    <3>2. CliEof(c)
      BY <1>0, <1>2, <2>2, <3>1 DEF CliNext, Connect, Refused, CliSelect,
         CliRead, CliReadError, ReadStdin, StdinEof, CliWriten,
         CliWriteError, CliKill, CliExit, CliTypeOK
    <3>3. UNCHANGED <<rcvd, typed>>
      BY <3>2 DEF CliEof
    <3> QED
      BY <1>0, <2>2, <3>2, <3>3, EofMeansAll DEF Typed
  <2> QED
    BY <2>1, <2>2
<1>3. CASE UNCHANGED clivars
  BY <1>1, <1>3 DEF clivars
<1> QED
  BY <1>2, <1>3 DEF Next, vars

LEMMA NextStream == StreamInd /\ [Next]_vars => StreamInd'
BY NextPlace, NextHeldBack, NextFallen, NextEchoStream, NextDelivered,
   NextComplete DEF StreamInd

LEMMA AlwaysStream == Spec => []StreamInd
BY InitStream, NextStream, PTL DEF Spec

(***************************************************************************)
(* While the server runs, no unit a user typed is lost, doubled, out of    *)
(* order or with another client (selectserver.c:69-76,                     *)
(* select_strcli.c:19-40): each is printed, on its way or in one buffer.   *)
(***************************************************************************)
THEOREM StreamNeverBreaks == Spec => []EchoStream
<1>1. StreamInd => EchoStream
  BY DEF StreamInd
<1> QED
  BY <1>1, AlwaysStream, PTL

(***************************************************************************)
(* A client that half-closes and then sees the end of file has printed all *)
(* that its user typed (select_strcli.c:21-36).                            *)
(***************************************************************************)
THEOREM NormalIsComplete == Spec => []NormalMeansComplete
<1>1. StreamInd => NormalMeansComplete
  BY DEF StreamInd
<1> QED
  BY <1>1, AlwaysStream, PTL

(***************************************************************************)
(* Server and client blocked in Writen on one connection hold more of what *)
(* the user typed than both directions: two buffers besides.               *)
(***************************************************************************)
THEOREM WedgeAlwaysNeedsFullPipe == Spec => []WedgeNeedsFullPipe
<1>1. StreamInd => WedgeNeedsFullPipe
  <2>1. SUFFICES ASSUME StreamInd, NEW c \in Conns, Wedged(c)
                 PROVE  typed[c] - Len(rcvd[c]) >= 2 * SockBuf + 2
    BY DEF WedgeNeedsFullPipe
  <2>2. Ind /\ Endings(c) /\ EchoStream
    BY <2>1 DEF StreamInd, PlaceInd, ExitInd, CliFacts
  <2>3. /\ pc = "write" /\ ~rstS[c] /\ ~rstC[c] /\ Held(c) = buf
        /\ buf # <<>> /\ cbuf[c] # <<>>
        /\ Len(s2c[c]) >= SockBuf /\ Len(c2s[c]) >= SockBuf
    BY <2>1, <2>2 DEF Wedged, Endings, Held, Ind, SrvControl, CliControl
  <2>4. rcvd[c] \o s2c[c] \o buf \o c2s[c] \o cbuf[c] = Typed(c)
    BY <2>2, <2>3 DEF EchoStream
  <2>5. /\ rcvd[c] \in Seq(Unit) /\ s2c[c] \in Seq(Unit) /\ buf \in Seq(Unit)
        /\ c2s[c] \in Seq(Unit) /\ cbuf[c] \in Seq(Unit)
        /\ Len(Typed(c)) = typed[c]
    BY <2>2, <2>3, StreamTypes
  <2>6. Len(rcvd[c] \o s2c[c] \o buf \o c2s[c] \o cbuf[c])
          = Len(rcvd[c]) + Len(s2c[c]) + Len(buf) + Len(c2s[c]) + Len(cbuf[c])
    BY <2>5, FiveLengths
  <2>7. /\ Len(buf) \in Nat \ {0} /\ Len(cbuf[c]) \in Nat \ {0}
        /\ Len(rcvd[c]) \in Nat /\ Len(s2c[c]) \in Nat /\ Len(c2s[c]) \in Nat
    BY <2>3, <2>5, EmptySeq, LenProperties
  <2>8. typed[c] = Len(rcvd[c]) + Len(s2c[c]) + Len(buf) + Len(c2s[c]) + Len(cbuf[c])
    BY <2>4, <2>5, <2>6
  <2>9. \A t, r, m, n, x, y, k \in Nat :
          t = r + m + x + n + y /\ m >= k /\ n >= k /\ x >= 1 /\ y >= 1
            => t - r >= 2 * k + 2
    OBVIOUS
  <2>10. SockBuf \in Nat /\ typed[c] \in Nat
    BY <2>2, StreamTypes, SocketsAssumption
  <2>11. Len(buf) >= 1 /\ Len(cbuf[c]) >= 1
    BY <2>7
  <2> QED
    BY <2>3, <2>7, <2>8, <2>9, <2>10, <2>11
<1> QED
  BY <1>1, AlwaysStream, PTL

-----------------------------------------------------------------------------
(* The service seen from outside.                                          *)

LEMMA BeginningOf ==
  \A a, b \in Seq(Unit) :
    /\ Len(a) \in Nat /\ Len(a \o b) \in Nat /\ Len(a) <= Len(a \o b)
    /\ SubSeq(a \o b, 1, Len(a)) = a
    /\ \A k \in 1 .. Len(a) : a[k] = (a \o b)[k]
<1> SUFFICES ASSUME NEW a \in Seq(Unit), NEW b \in Seq(Unit)
             PROVE  /\ Len(a) \in Nat /\ Len(a \o b) \in Nat
                    /\ Len(a) <= Len(a \o b)
                    /\ SubSeq(a \o b, 1, Len(a)) = a
                    /\ \A k \in 1 .. Len(a) : a[k] = (a \o b)[k]
  OBVIOUS
<1>1. Len(a) \in Nat /\ Len(b) \in Nat
  BY LenProperties
<1>2. /\ a \o b \in Seq(Unit) /\ Len(a \o b) = Len(a) + Len(b)
      /\ \A k \in 1 .. Len(a) + Len(b) :
           (a \o b)[k] = IF k <= Len(a) THEN a[k] ELSE b[k - Len(a)]
  BY ConcatProperties
<1>3. \A k \in 1 .. Len(a) : a[k] = (a \o b)[k]
  BY <1>1, <1>2
<1>4. SubSeq(a \o b, 1, Len(a)) \in Seq(Unit) /\ Len(SubSeq(a \o b, 1, Len(a))) = Len(a)
  BY <1>1, <1>2
<1>5. \A k \in 1 .. Len(a) : SubSeq(a \o b, 1, Len(a))[k] = a[k]
  BY <1>1, <1>2, <1>3
<1>6. SubSeq(a \o b, 1, Len(a)) = a
  BY <1>4, <1>5, SeqEqual
<1> QED
  BY <1>1, <1>2, <1>3, <1>6

LEMMA PhaseFacts ==
  ASSUME NEW c
  PROVE  /\ verdict[c] = "none" => Phase(c) = "talking"
         /\ verdict[c] # "none" =>
              Phase(c) = IF verdict[c] = "normal" /\ rcvd[c] = Typed(c)
                         THEN "answered" ELSE "cut off"
BY Zenon DEF Phase

LEMMA InitPipe == Init => Pipe!Init
<1> SUFFICES ASSUME Init PROVE Pipe!Init
  OBVIOUS
<1>1. rcvd = [c \in Conns |-> <<>>]
  BY DEF Init, CliInit
<1>2. [c \in Conns |-> Phase(c)] = [c \in Conns |-> "talking"]
  <2>1. \A c \in Conns : verdict[c] = "none"
    BY DEF Init, CliInit
  <2> QED
    BY <2>1, PhaseFacts
<1>3. [c \in Conns |-> Typed(c)] = [c \in Conns |-> <<>>]
  <2>1. SUFFICES ASSUME NEW c \in Conns PROVE Typed(c) = <<>>
    OBVIOUS
  <2>2. typed[c] = 0 /\ Ind
    BY InitInd DEF Init, CliInit
  <2>3. Typed(c) \in Seq(Unit) /\ Len(Typed(c)) = 0
    BY <2>2, StreamTypes
  <2> QED
    BY <2>3, EmptySeq
<1> QED
  BY <1>1, <1>2, <1>3 DEF Pipe!Init

(* A step of one client changes at most what that client sees.             *)
LEMMA OnlyOwnView ==
  ASSUME Ind, NEW c \in Conns, CliNext(c, Listening) \/ CliKill(c)
  PROVE  /\ [d \in Conns |-> Typed(d)]'
              = [[d \in Conns |-> Typed(d)] EXCEPT ![c] = Typed(c)']
         /\ [d \in Conns |-> Phase(d)]'
              = [[d \in Conns |-> Phase(d)] EXCEPT ![c] = Phase(c)']
<1>1. ASSUME NEW d \in Conns, d # c
      PROVE  Typed(d)' = Typed(d) /\ Phase(d)' = Phase(d)
  <2>1. typed'[d] = typed[d] /\ rcvd'[d] = rcvd[d] /\ verdict'[d] = verdict[d]
    BY <1>1, CliStepOwn
  <2>2. Typed(d)' = Typed(d)
    BY <2>1 DEF Typed
  <2> QED
    BY <2>1, <2>2 DEF Phase
<1> QED
  BY <1>1

(* A step in which c neither reads, types nor ends is not seen.            *)
LEMMA NotSeen ==
  ASSUME UNCHANGED <<typed, rcvd, verdict>>
  PROVE  UNCHANGED Pipe!pipevars
<1>1. \A d : Typed(d)' = Typed(d)
  BY DEF Typed
<1>2. \A d : Phase(d)' = Phase(d)
  BY <1>1 DEF Phase
<1> QED
  BY <1>1, <1>2 DEF Pipe!pipevars

LEMMA ReadIsReceive ==
  ASSUME StreamInd, StreamInd', NEW c \in Conns, CliRead(c),
         UNCHANGED <<srvvars, buf>>
  PROVE  Pipe!Receive(c)
<1>0. Ind /\ Endings(c) /\ cpc[c] = "sock" /\ CliNext(c, Listening)
  BY DEF StreamInd, PlaceInd, ExitInd, CliFacts, CliRead, CliNext
<1>1. verdict[c] = "none" /\ UNCHANGED <<verdict, typed>>
  BY <1>0 DEF Endings, CliRead
<1>2. Phase(c) = "talking" /\ Phase(c)' = "talking"
  BY <1>1, PhaseFacts, Zenon DEF Phase
<1>3. Typed(c)' = Typed(c)
  BY <1>1 DEF Typed
<1>4. UNCHANGED <<[d \in Conns |-> Typed(d)], [d \in Conns |-> Phase(d)]>>
  BY <1>0, <1>2, <1>3, OnlyOwnView
<1>5. PICK a \in Seq(Unit), b \in Seq(Unit) : a = rcvd'[c] /\ a \o b = Typed(c)
  <2>1. PICK rest \in Seq(Unit) : (rcvd'[c] \o s2c'[c]) \o rest = Typed(c)'
    BY DEF StreamInd, Delivered, Begins
  <2>2. rcvd'[c] \in Seq(Unit) /\ s2c'[c] \in Seq(Unit)
    BY DEF StreamInd, PlaceInd, ExitInd, Ind, TypeOK, NetTypeOK, CliTypeOK
  <2>3. (rcvd'[c] \o s2c'[c]) \o rest = rcvd'[c] \o (s2c'[c] \o rest)
    BY <2>2, Regroup, Zenon
  <2>4. s2c'[c] \o rest \in Seq(Unit)
    BY <2>2, ConcatProperties
  <2> QED
    BY <1>3, <2>1, <2>2, <2>3, <2>4
<1>6. PICK new \in Seq(Unit) : rcvd'[c] = rcvd[c] \o new
  <2>1. s2c[c] \in Seq(Unit) /\ Len(s2c[c]) \in Nat
    BY <1>0, StreamTypes, LenProperties
  <2>2. Lesser(MaxLine, Len(s2c[c])) \in 0 .. Len(s2c[c])
    <3>1. MaxLine \in Nat
      BY SocketsAssumption
    <3>2. /\ Lesser(MaxLine, Len(s2c[c])) \in Nat
          /\ Lesser(MaxLine, Len(s2c[c])) <= Len(s2c[c])
      BY <2>1, <3>1, LesserType
    <3> QED
      BY <2>1, <3>2
  <2>3. Take(s2c[c], Lesser(MaxLine, Len(s2c[c]))) \in Seq(Unit)
    BY <2>1, <2>2, TakeType
  <2> QED
    BY <1>0, <2>3 DEF CliRead, Ind, TypeOK, CliTypeOK
<1>7. rcvd[c] \in Seq(Unit) /\ rcvd \in [Conns -> Seq(Unit)]
  BY <1>0 DEF Ind, TypeOK, CliTypeOK
<1>8. Len(rcvd[c]) \in Nat /\ Len(rcvd[c]) <= Len(a)
  BY <1>5, <1>6, <1>7, BeginningOf
<1>9. /\ Len(a) \in Nat /\ Len(Typed(c)) \in Nat /\ Len(a) <= Len(Typed(c))
      /\ SubSeq(Typed(c), 1, Len(a)) = a
  BY <1>5, BeginningOf
<1>10. Len(a) \in Len(rcvd[c]) .. Len(Typed(c))
  BY <1>8, <1>9
<1>11. rcvd' = [rcvd EXCEPT ![c] = SubSeq(Typed(c), 1, Len(a))]
  BY <1>5, <1>7, <1>9 DEF CliRead
<1> QED
  BY <1>2, <1>4, <1>10, <1>11 DEF Pipe!Receive

LEMMA TypeIsSend ==
  ASSUME StreamInd, NEW c \in Conns, ReadStdin(c), UNCHANGED <<srvvars, buf>>
  PROVE  Pipe!Send(c)
<1>0. Ind /\ Endings(c) /\ cpc[c] = "stdin" /\ CliNext(c, Listening)
  BY DEF StreamInd, PlaceInd, ExitInd, CliFacts, ReadStdin, CliNext
<1>1. verdict[c] = "none" /\ UNCHANGED <<verdict, rcvd>>
  BY <1>0 DEF Endings, ReadStdin
<1>2. Phase(c) = "talking" /\ Phase(c)' = "talking"
  BY <1>1, PhaseFacts, Zenon DEF Phase
<1>3. UNCHANGED [d \in Conns |-> Phase(d)]
  BY <1>0, <1>2, OnlyOwnView
<1>4. /\ [d \in Conns |-> Typed(d)]'
           = [[d \in Conns |-> Typed(d)] EXCEPT ![c] = Typed(c)']
      /\ [d \in Conns |-> Typed(d)]'[c] = Typed(c)'
  BY <1>0, OnlyOwnView
<1>5. Pipe!IsPrefixOf(Typed(c), Typed(c)')
  <2>1. PICK more \in Seq(Unit) : Typed(c)' = Typed(c) \o more
    BY ReadStdinFlow
  <2>2. Typed(c) \in Seq(Unit)
    BY <1>0, StreamTypes
  <2> QED
    BY <2>1, <2>2, BeginningOf DEF Pipe!IsPrefixOf
<1> QED
  BY <1>1, <1>2, <1>3, <1>4, <1>5 DEF Pipe!Send

LEMMA ExitIsFinish ==
  ASSUME StreamInd, NEW c \in Conns,
         CliNext(c, Listening) \/ CliKill(c), cpc[c] # "exit",
         NEW how \in {"normal", "premature", "error", "killed"}, CliExit(c, how),
         UNCHANGED <<typed, rcvd>>
  PROVE  Pipe!Finish(c)
<1>0. Ind /\ Endings(c)
  BY DEF StreamInd, PlaceInd, ExitInd, CliFacts
<1>1. verdict[c] = "none" /\ verdict'[c] = how
  BY <1>0 DEF Endings, CliExit, Ind, TypeOK, CliTypeOK
<1>2. \A d : Typed(d)' = Typed(d)
  BY DEF Typed
<1>3. Phase(c) = "talking"
  BY <1>1, PhaseFacts
<1>4. \/ rcvd[c] = Typed(c) /\ Phase(c)' = "answered"
      \/ Phase(c)' = "cut off"
  BY <1>1, <1>2, Zenon DEF Phase
<1>5. [d \in Conns |-> Phase(d)]'
        = [[d \in Conns |-> Phase(d)] EXCEPT ![c] = Phase(c)']
  BY <1>0, OnlyOwnView
<1>6. [d \in Conns |-> Typed(d)]' = [d \in Conns |-> Typed(d)]
  BY <1>2
<1> QED
  BY <1>3, <1>4, <1>5, <1>6 DEF Pipe!Finish

LEMMA NextPipe ==
  ASSUME StreamInd, StreamInd', [Next]_vars
  PROVE  [Pipe!Next]_(Pipe!pipevars)
<1>1. CASE UNCHANGED clivars
  BY <1>1, NotSeen DEF clivars
<1>2. ASSUME NEW c \in Conns, CliNext(c, Listening) \/ CliKill(c),
             UNCHANGED <<srvvars, buf>>
      PROVE  [Pipe!Next]_(Pipe!pipevars)
  <2>1. CASE CliRead(c)
    BY <1>2, <2>1, ReadIsReceive DEF Pipe!Next
  <2>2. CASE ReadStdin(c)
    BY <1>2, <2>2, TypeIsSend DEF Pipe!Next
  <2>3. CASE Connect(c, Listening) \/ CliSelect(c) \/ StdinEof(c) \/ CliWriten(c)
    <3>1. UNCHANGED <<typed, rcvd, verdict>>
      BY <2>3 DEF Connect, CliSelect, StdinEof, CliWriten
    <3> QED
      BY <3>1, NotSeen
  <2>4. CASE Refused(c, Listening) \/ CliEof(c) \/ CliReadError(c)
               \/ CliWriteError(c) \/ CliKill(c)
    <3>1. PICK how \in {"normal", "premature", "error", "killed"} : CliExit(c, how)
      BY <2>4 DEF Refused, CliEof, CliReadError, CliWriteError, CliKill
    <3>2. cpc[c] # "exit" /\ UNCHANGED <<typed, rcvd>>
      BY <2>4 DEF Refused, CliEof, CliReadError, CliWriteError, CliKill
    <3> QED
      BY <1>2, <3>1, <3>2, ExitIsFinish DEF Pipe!Next
  <2> QED
    BY <1>2, <2>1, <2>2, <2>3, <2>4 DEF CliNext
<1> QED
  BY <1>1, <1>2 DEF Next, vars

(***************************************************************************)
(* The service is the pipe of EchoPipe for every number of clients, slots, *)
(* descriptors and buffers: what a client prints is at any time a          *)
(* beginning of what its user typed, whatever resets, kills and the        *)
(* server's own death interrupt (selectserver.c, select_strcli.c).         *)
(***************************************************************************)
THEOREM EchoImplementsPipe == Spec => ImplementsPipe
<1>1. StreamInd /\ StreamInd' /\ [Next]_vars => [Pipe!Next]_(Pipe!pipevars)
  BY NextPipe
<1> QED
  BY <1>1, InitPipe, AlwaysStream, PTL DEF Spec, ImplementsPipe, Pipe!Spec

-----------------------------------------------------------------------------
(* The chat room: the same loop, connections and clients, so that all that *)
(* was shown of the steps they share holds here as well.                   *)

(***************************************************************************)
(* The inductive invariant of the chat room: what the echo service keeps   *)
(* of its tables, clients and connections, where the broadcast is, and the *)
(* account of what everyone has heard.                                     *)
(***************************************************************************)
Broadcast ==
  /\ j \in Nat /\ left \in Seq(Unit) /\ heard \in [Conns -> Seq(Unit)]
  /\ pc = "write" => j <= maxi /\ left # <<>>

ChatInd == PlaceInd /\ Broadcast /\ EveryoneElseHears

LEMMA InitChat == ChatInit => ChatInd
<1> SUFFICES ASSUME ChatInit PROVE ChatInd
  OBVIOUS
<1>1. Init
  BY DEF ChatInit
<1>2. PlaceInd
  BY <1>1, InitPlace
<1>3. Broadcast
  BY <1>1, EmptySeq DEF Broadcast, ChatInit, Init, LoopInit
<1>4. EveryoneElseHears
  <2>1. ASSUME NEW d \in Conns
        PROVE  rcvd[d] \o s2c[d] \o Owed(d) = heard[d]
    <3>1. /\ rcvd[d] = <<>> /\ s2c[d] = <<>> /\ heard[d] = <<>>
          /\ Owed(d) = <<>>
      BY <1>1 DEF Init, LoopInit, NetInit, CliInit, ChatInit, Owed
    <3> QED
      BY <3>1, EmptySeq, ConcatEmptySeq
  <2> QED
    BY <2>1 DEF EveryoneElseHears
<1> QED
  BY <1>2, <1>3, <1>4 DEF ChatInd

-----------------------------------------------------------------------------
(* But for the broadcast the server does what the echo server does.        *)
Telling ==
  \/ PassOver
  \/ \E c \in Conns : ChatWriteUnit(c) \/ ChatWriteError(c)

Aside ==
  /\ UNCHANGED <<buf, j, left, heard>>
  /\ \/ /\ \/ Select \/ AcceptClient \/ AcceptError \/ TooManyClients \/ SkipSlot
           \/ \E c \in Conns : ReadError(c) \/ ReadEof(c)
        /\ UNCHANGED clivars
     \/ \E c \in Conns :
          (CliNext(c, Listening) \/ CliKill(c)) /\ UNCHANGED <<srvvars, buf>>
     \/ NetNext /\ UNCHANGED <<srvvars, buf, clivars>>
     \/ UNCHANGED vars

LEMMA ChatSteps ==
  ASSUME [ChatNext]_chatvars
  PROVE  \/ Aside
         \/ (\E c \in Conns : ChatReadData(c)) /\ UNCHANGED clivars
         \/ Telling /\ UNCHANGED clivars
<1>1. CASE ChatSrvNext /\ UNCHANGED clivars
  <2>1. ASSUME NEW c \in Conns, ChatReadEof(c) PROVE Aside
    <3>1. ReadEof(c) /\ UNCHANGED <<buf, j, left, heard>>
      BY <2>1 DEF ChatReadEof, ReadEof, tellvars
    <3> QED
      BY <1>1, <3>1 DEF Aside
  <2>2. ASSUME UNCHANGED <<buf, tellvars>>,
               \/ Select \/ AcceptClient \/ AcceptError \/ TooManyClients
               \/ SkipSlot \/ \E c \in Conns : ReadError(c)
        PROVE  Aside
    <3>1. UNCHANGED <<buf, j, left, heard>>
      BY <2>2 DEF tellvars
    <3> QED
      BY <1>1, <2>2, <3>1 DEF Aside
  <2> QED
    BY <1>1, <2>1, <2>2 DEF ChatSrvNext, Telling
<1>2. ASSUME UNCHANGED <<srvvars, buf, tellvars>>
      PROVE  UNCHANGED <<srvvars, buf>> /\ UNCHANGED <<buf, j, left, heard>>
  BY <1>2 DEF tellvars
<1>3. ASSUME NEW c \in Conns, CliNext(c, Listening) \/ CliKill(c),
             UNCHANGED <<srvvars, buf, tellvars>>
      PROVE  Aside
  BY <1>2, <1>3 DEF Aside
<1>4. CASE NetNext /\ UNCHANGED <<srvvars, buf, tellvars, clivars>>
  <2>1. UNCHANGED <<srvvars, buf, clivars>> /\ UNCHANGED <<buf, j, left, heard>>
    BY <1>2, <1>4
  <2> QED
    BY <1>4, <2>1 DEF Aside
<1>5. CASE UNCHANGED chatvars
  <2>1. UNCHANGED vars /\ UNCHANGED <<buf, j, left, heard>>
    BY <1>5 DEF chatvars, tellvars, vars
  <2> QED
    BY <2>1 DEF Aside
<1> QED
  BY <1>1, <1>3, <1>4, <1>5 DEF ChatNext, ChatCli

LEMMA AsEcho ==
  /\ Aside => [Next]_vars
  /\ (\E c \in Conns : ChatReadData(c)) /\ UNCHANGED clivars => [Next]_vars
<1>1. Aside => [Next]_vars
  BY DEF Aside, Next, SrvNext
<1>2. (\E c \in Conns : ChatReadData(c)) /\ UNCHANGED clivars => [Next]_vars
  BY DEF ChatReadData, Next, SrvNext
<1> QED
  BY <1>1, <1>2

(* One turn of the broadcast: the loop stays at its slot or goes on.       *)
LEMMA TurnPlace ==
  ASSUME PlaceInd, pc = "write", UNCHANGED clivars,
         UNCHANGED <<rset, cause, client, maxi, maxfd, allset, fdconn, buf>>,
         UNCHANGED <<listenq, cend, send, c2s, rstS, rstC>>,
         s2c' \in [Conns -> Seq(Unit)],
         \A d \in Conns : s2c[d] # <<>> => s2c'[d] # <<>>,
         NextReady \/ UNCHANGED <<pc, i, nready>>
  PROVE  PlaceInd'
<1>1. Ind /\ CliFacts /\ ExitHasCause /\ OnePlace /\ cause = "none"
  BY DEF PlaceInd, ExitInd
<1>2. /\ pc' \in {"write", "scan", "select"} /\ i' \in Nat /\ nready' \in Nat
      /\ pc' \in {"scan", "write"} => nready' > 0 /\ i' <= maxi
      /\ pc' = "write" => i' = i
  <2>1. CASE NextReady
    BY <1>1, <2>1, NextReadyFacts
  <2>2. CASE UNCHANGED <<pc, i, nready>>
    BY <1>1, <2>2, Numbers DEF Ind, SrvControl
  <2> QED
    BY <2>1, <2>2
<1>3. LoopTypeOK' /\ NetTypeOK' /\ (buf \in Seq(Unit))'
  BY <1>1, <1>2 DEF Ind, TypeOK, LoopTypeOK, NetTypeOK
<1>4. SrvControl'
  BY <1>1, <1>2 DEF Ind, SrvControl
<1>5. TablesAgree'
  BY <1>1 DEF Ind, TablesAgree, Taken
<1>6. Ind'
  BY <1>1, <1>3, <1>4, <1>5, ClientsIdle DEF Ind, TypeOK
<1>7. CliFacts'
  <2> SUFFICES ASSUME NEW d \in Conns PROVE CliStage(d)' /\ Endings(d)'
    BY DEF CliFacts
  <2>1. CliStage(d) /\ Endings(d)
    BY <1>1 DEF CliFacts
  <2> QED
    BY <1>2, <2>1 DEF CliStage, Endings, CliReadable, clivars
<1>8. ExitHasCause' /\ cause' = "none" /\ OnePlace'
  BY <1>1 DEF ExitHasCause, OnePlace, clivars
<1> QED
  BY <1>6, <1>7, <1>8 DEF PlaceInd, ExitInd

(* The slot the broadcast is at.                                           *)
LEMMA AtRecipient ==
  ASSUME ChatInd, pc = "write"
  PROVE  /\ j \in Slots
         /\ client[j] > 0 => j \in Taken /\ client[j] \in ConnFds
         /\ client[j] > 0 => fdconn[client[j]] \in Conns
<1>1. Ind /\ j \in Nat /\ j <= maxi
  BY DEF ChatInd, PlaceInd, ExitInd, Broadcast
<1>2. j \in Slots
  BY <1>1, Numbers DEF Slots
<1>3. client[j] \in {-1} \cup ConnFds /\ fdconn \in [ConnFds -> Conns \cup {NoConn}]
  BY <1>1, <1>2 DEF Ind, TypeOK, LoopTypeOK
<1>4. client[j] > 0 => client[j] # -1
  OBVIOUS
<1>5. client[j] > 0 => j \in Taken /\ client[j] \in ConnFds
  BY <1>2, <1>3, <1>4 DEF Taken
<1>6. client[j] > 0 => fdconn[client[j]] # NoConn
  BY <1>1, <1>5 DEF Ind, TablesAgree
<1> QED
  BY <1>2, <1>3, <1>5, <1>6

LEMMA PassOverTurn ==
  ASSUME ChatInd, PassOver, UNCHANGED clivars
  PROVE  PlaceInd' /\ Broadcast'
<1>1. /\ PlaceInd /\ pc = "write" /\ NextSlot
      /\ UNCHANGED <<rset, cause, client, maxi, maxfd, allset, fdconn, buf>>
      /\ UNCHANGED <<listenq, cend, send, c2s, s2c, rstS, rstC, heard>>
  BY DEF ChatInd, PassOver, tabvars, netvars
<1>2. /\ left' = buf /\ j' = j + 1
      /\ IF j + 1 > maxi THEN NextReady ELSE UNCHANGED <<pc, i, nready>>
  BY <1>1 DEF NextSlot
<1>3. s2c' \in [Conns -> Seq(Unit)] /\ Ind
  BY <1>1 DEF PlaceInd, ExitInd, Ind, TypeOK, NetTypeOK
<1>4. PlaceInd'
  BY <1>1, <1>2, <1>3, TurnPlace
<1>5. Broadcast'
  <2>1. buf \in Seq(Unit) /\ buf # <<>> /\ maxi \in Int
    BY <1>1, <1>3, Numbers DEF Ind, TypeOK, SrvControl
  <2>2. pc' = "write" => j + 1 <= maxi
    BY <1>2, <2>1 DEF NextReady, ChatInd, Broadcast
  <2> QED
    BY <1>1, <1>2, <2>1, <2>2 DEF ChatInd, Broadcast
<1> QED
  BY <1>4, <1>5

LEMMA WriteUnitTurn ==
  ASSUME ChatInd, NEW c \in Conns, ChatWriteUnit(c), UNCHANGED clivars
  PROVE  PlaceInd' /\ Broadcast'
<1>1. /\ PlaceInd /\ pc = "write"
      /\ UNCHANGED <<rset, cause, client, maxi, maxfd, allset, fdconn, buf>>
      /\ UNCHANGED <<listenq, cend, send, c2s, rstS, rstC, heard>>
      /\ s2c' = [s2c EXCEPT ![c] = Append(@, Head(left))]
  BY DEF ChatInd, ChatWriteUnit, tabvars
<1>2. /\ Ind /\ left \in Seq(Unit) /\ left # <<>> /\ s2c \in [Conns -> Seq(Unit)]
      /\ j \in Nat /\ maxi \in Int /\ buf \in Seq(Unit) /\ buf # <<>>
      /\ j <= maxi
  BY <1>1, Numbers DEF ChatInd, PlaceInd, ExitInd, Ind, TypeOK, NetTypeOK,
                      Broadcast, SrvControl
<1>3. /\ Append(s2c[c], Head(left)) \in Seq(Unit)
      /\ Append(s2c[c], Head(left)) # <<>>
      /\ Tail(left) \in Seq(Unit)
      /\ Len(left) > 1 => Tail(left) # <<>>
  <2>1. s2c[c] \in Seq(Unit) /\ Head(left) \in Unit
    BY <1>2, HeadTailProperties
  <2> QED
    BY <1>2, <2>1, MoveHead, AppendFacts
<1>4. /\ s2c' \in [Conns -> Seq(Unit)]
      /\ \A d \in Conns : s2c[d] # <<>> => s2c'[d] # <<>>
  BY <1>1, <1>2, <1>3
<1>5. CASE Len(left) > 1
  <2>1. left' = Tail(left) /\ UNCHANGED <<j, pc, i, nready>>
    BY <1>5 DEF ChatWriteUnit
  <2>2. PlaceInd'
    BY <1>1, <1>4, <2>1, TurnPlace
  <2>3. Broadcast'
    BY <1>1, <1>3, <1>5, <2>1 DEF ChatInd, Broadcast
  <2> QED
    BY <2>2, <2>3
<1>6. CASE ~(Len(left) > 1)
  <2>1. /\ left' = buf /\ j' = j + 1
        /\ IF j + 1 > maxi THEN NextReady ELSE UNCHANGED <<pc, i, nready>>
    BY <1>6 DEF ChatWriteUnit, NextSlot
  <2>2. PlaceInd'
    BY <1>1, <1>4, <2>1, TurnPlace
  <2>3. pc' = "write" => j + 1 <= maxi
    BY <1>2, <2>1 DEF NextReady
  <2>4. Broadcast'
    BY <1>1, <1>2, <2>1, <2>3 DEF ChatInd, Broadcast
  <2> QED
    BY <2>2, <2>4
<1> QED
  BY <1>5, <1>6

LEMMA WriteErrorTurn ==
  ASSUME ChatInd, NEW c \in Conns, ChatWriteError(c), UNCHANGED clivars
  PROVE  PlaceInd' /\ Broadcast' /\ pc' = "dead"
<1>1. PlaceInd /\ ExitInd /\ Ind
  BY DEF ChatInd, PlaceInd, ExitInd
<1>2. rstS[c] /\ SrvExit("writen error") /\ UNCHANGED <<buf, j, left, heard>>
  BY DEF ChatWriteError, SrvExit, tellvars, ConnFds, NoConn
<1>3. Ind'
  BY <1>1, <1>2, SrvExitInd
<1>4. CliFacts' /\ pc' = "dead" /\ cause' = "writen error"
  BY <1>1, <1>2, SrvExitFacts
<1>5. ExitHasCause'
  BY <1>1, <1>2, <1>4 DEF ExitInd, CliFacts, Endings, ExitHasCause, clivars
<1>6. OnePlace'
  <2>1. /\ listenq' = <<>> /\ Len(listenq') = 0
        /\ \A f \in ConnFds : fdconn'[f] = NoConn
    BY <1>2, EmptySeq DEF SrvExit
  <2> QED
    BY <2>1 DEF OnePlace
<1>7. Broadcast'
  BY <1>2, <1>4 DEF ChatInd, Broadcast
<1> QED
  BY <1>3, <1>4, <1>5, <1>6, <1>7 DEF PlaceInd, ExitInd

(* What a Read returns goes to the end of what everyone else has heard.    *)
LEMMA ReadDataHeard ==
  ASSUME ChatInd, NEW c \in Conns, ChatReadData(c)
  PROVE  /\ buf' \in Seq(Unit) /\ buf' # <<>> /\ left' = buf' /\ j' = 0
         /\ heard' = [d \in Conns |->
                        IF d \in Others(c) /\ Audible(buf')
                          THEN heard[d] \o buf' ELSE heard[d]]
         /\ Broadcast'
<1> DEFINE n == Lesser(MaxLine, Len(c2s[c]))
<1>0. Ind
  BY DEF ChatInd, PlaceInd, ExitInd
<1>1. /\ c2s[c] \in Seq(Unit) /\ c2s[c] # <<>> /\ Len(c2s[c]) \in Nat
      /\ Len(c2s[c]) > 0
  BY <1>0, EmptySeq DEF Ind, TypeOK, NetTypeOK, ChatReadData, ReadData
<1>2. n \in 0 .. Len(c2s[c]) /\ n > 0
  <2>1. MaxLine \in Nat /\ MaxLine > 0
    BY SocketsAssumption
  <2>2. n \in Nat /\ n <= Len(c2s[c]) /\ n > 0
    BY <1>1, <2>1, LesserType
  <2> QED
    BY <1>1, <2>2
<1>3. Take(c2s[c], n) \in Seq(Unit) /\ Len(Take(c2s[c], n)) = n
  BY <1>1, <1>2, TakeType
<1>4. /\ buf' = Take(c2s[c], n) /\ left' = buf' /\ j' = 0 /\ pc' = "write"
      /\ heard' = [d \in Conns |->
                     IF d \in Others(c) /\ Audible(buf')
                       THEN heard[d] \o buf' ELSE heard[d]]
      /\ UNCHANGED <<client, maxi, i>>
  BY DEF ChatReadData, ReadData, tabvars
<1>5. buf' \in Seq(Unit) /\ buf' # <<>>
  <2>1. Len(<<>>) = 0
    OBVIOUS
  <2> QED
    BY <1>2, <1>3, <1>4, <2>1
<1>6. heard' \in [Conns -> Seq(Unit)]
  <2>1. \A d \in Conns : heard[d] \in Seq(Unit) /\ heard[d] \o buf' \in Seq(Unit)
    BY <1>5, ConcatProperties DEF ChatInd, Broadcast
  <2> QED
    BY <1>4, <2>1
<1>7. 0 <= maxi
  <2>1. Reading(c)
    BY DEF ChatReadData, ReadData
  <2> QED
    BY <1>0, <2>1, Numbers DEF Reading, Ind, SrvControl
<1> QED
  BY <1>4, <1>5, <1>6, <1>7 DEF Broadcast

-----------------------------------------------------------------------------
LEMMA AsideLoop ==
  ASSUME Aside
  PROVE  /\ pc = "write" => UNCHANGED srvvars
         /\ pc' = "write" => UNCHANGED srvvars
         /\ UNCHANGED srvvars => pc' = pc /\ maxi' = maxi
<1>1. CASE UNCHANGED srvvars
  BY <1>1 DEF srvvars
<1>2. CASE \/ Select \/ AcceptClient \/ AcceptError \/ TooManyClients \/ SkipSlot
           \/ \E c \in Conns : ReadError(c) \/ ReadEof(c)
  <2>1. pc # "write" /\ pc' # "write"
    BY <1>2 DEF Select, AcceptClient, AcceptError, TooManyClients, SkipSlot,
       ReadError, ReadEof, Reading, NextReady, SrvExit
  <2> QED
    BY <2>1 DEF srvvars
<1> QED
  BY <1>1, <1>2 DEF Aside, vars

LEMMA NextChatPlace ==
  ASSUME ChatInd, [ChatNext]_chatvars
  PROVE  PlaceInd' /\ Broadcast'
<1>1. CASE Telling /\ UNCHANGED clivars
  BY <1>1, PassOverTurn, WriteUnitTurn, WriteErrorTurn DEF Telling
<1>2. CASE (\E c \in Conns : ChatReadData(c)) /\ UNCHANGED clivars
  BY <1>2, AsEcho, NextPlace, ReadDataHeard DEF ChatInd
<1>3. CASE Aside
  <2>1. PlaceInd'
    BY <1>3, AsEcho, NextPlace DEF ChatInd
  <2>2. Broadcast'
    BY <1>3, AsideLoop DEF ChatInd, Broadcast, Aside
  <2> QED
    BY <2>1, <2>2
<1> QED
  BY <1>1, <1>2, <1>3, ChatSteps

-----------------------------------------------------------------------------
(* A connection has one slot.                                              *)
LEMMA OneSlot ==
  ASSUME PlaceInd, pc # "dead", NEW k \in Taken, NEW l \in Taken,
         fdconn[client[k]] = fdconn[client[l]]
  PROVE  k = l
<1>1. Ind /\ OnePlace
  BY DEF PlaceInd, ExitInd
<1>2. client[k] \in ConnFds /\ client[l] \in ConnFds
  BY <1>1 DEF Taken, Ind, TypeOK, LoopTypeOK
<1>3. client[k] = client[l]
  BY <1>1, <1>2 DEF OnePlace, Ind, TablesAgree
<1> QED
  BY <1>1, <1>3 DEF Ind, TablesAgree

(* Slots after j, other than the speaker's, that hold client d.            *)
Ahead(d) == \E k \in Taken : k > j /\ k # i /\ fdconn[client[k]] = d

LEMMA OwedIs ==
  ASSUME NEW d
  PROVE  Owed(d) =
           IF pc # "write" \/ ~Audible(buf) THEN <<>>
           ELSE IF Ahead(d) THEN buf
           ELSE IF client[j] > 0 /\ j # i /\ fdconn[client[j]] = d THEN left
           ELSE <<>>
BY DEF Owed, Taken, Ahead, Slots

(* Once the slot is done, what is owed is the buffer to those ahead.       *)
LEMMA NextSlotOwes ==
  ASSUME ChatInd, pc = "write", NextSlot, NEW d,
         UNCHANGED <<client, maxi, fdconn, buf>>
  PROVE  Owed(d)' = IF Ahead(d) /\ Audible(buf) THEN buf ELSE <<>>
<1>1. /\ left' = buf /\ j' = j + 1
      /\ IF j + 1 > maxi THEN NextReady ELSE UNCHANGED <<pc, i, nready>>
  BY DEF NextSlot
<1>2. /\ Ind /\ j \in Nat /\ maxi \in Int /\ i \in Nat /\ Slots \subseteq Nat
      /\ maxi < FD_SETSIZE /\ FD_SETSIZE \in Nat
  BY Numbers DEF ChatInd, PlaceInd, ExitInd, Broadcast
<1>3. \A k \in Taken : k \in Nat /\ k <= maxi
  BY <1>2 DEF Taken, Ind, TablesAgree
<1>4. CASE j + 1 > maxi
  <2>1. pc' # "write"
    BY <1>1, <1>4 DEF NextReady
  <2>2. ~Ahead(d)
    BY <1>2, <1>3, <1>4 DEF Ahead
  <2> QED
    BY <2>1, <2>2 DEF Owed
<1>5. CASE ~(j + 1 > maxi)
  <2>1. /\ pc' = "write" /\ i' = i /\ j' = j + 1 /\ left' = buf
        /\ UNCHANGED <<client, maxi, fdconn, buf>>
    BY <1>1, <1>5
  <2>2. j + 1 \in Slots
    BY <1>2, <1>5 DEF Slots
  <2>3. client[j + 1] \in {-1} \cup ConnFds
    BY <1>2, <2>2 DEF Ind, TypeOK, LoopTypeOK
  <2>4. \A f \in ConnFds : f > 0 /\ f # -1
    BY <1>2, Numbers
  <2>5. client[j + 1] > 0 <=> j + 1 \in Taken
    BY <2>2, <2>3, <2>4 DEF Taken
  <2>6. Ahead(d) <=> \/ \E k \in Taken : k > j + 1 /\ k # i /\ fdconn[client[k]] = d
                     \/ j + 1 \in Taken /\ j + 1 # i /\ fdconn[client[j + 1]] = d
    BY <1>2, <1>3 DEF Ahead
  <2>7. Ahead(d)' <=> \E k \in Taken : k > j + 1 /\ k # i /\ fdconn[client[k]] = d
    BY <2>1 DEF Ahead, Taken
  <2>8. Owed(d)' =
          IF ~Audible(buf) THEN <<>>
          ELSE IF Ahead(d)' THEN buf
          ELSE IF client[j + 1] > 0 /\ j + 1 # i /\ fdconn[client[j + 1]] = d
                 THEN buf
          ELSE <<>>
    BY <2>1 DEF Owed, Taken, Ahead, Slots,
                Audible
  <2> QED
    BY <2>5, <2>6, <2>7, <2>8
<1> QED
  BY <1>4, <1>5

LEMMA NoSpeakerAhead ==
  ASSUME ChatInd, pc = "write", client[j] > 0, NEW k \in Taken, k > j
  PROVE  fdconn[client[k]] # fdconn[client[j]]
<1>1. j \in Taken /\ PlaceInd /\ j \in Nat /\ k \in Nat
  BY AtRecipient, Numbers DEF ChatInd, PlaceInd, ExitInd, Broadcast, Taken
<1> QED
  BY <1>1, OneSlot

(* What the account needs of the sequences in it.                          *)
LEMMA HearTypes ==
  ASSUME ChatInd, NEW d \in Conns
  PROVE  /\ rcvd[d] \in Seq(Unit) /\ s2c[d] \in Seq(Unit)
         /\ rcvd[d] \o s2c[d] \in Seq(Unit)
         /\ left \in Seq(Unit) /\ buf \in Seq(Unit)
<1>1. /\ rcvd[d] \in Seq(Unit) /\ s2c[d] \in Seq(Unit)
      /\ left \in Seq(Unit) /\ buf \in Seq(Unit)
  BY DEF ChatInd, PlaceInd, ExitInd, Broadcast, Ind, TypeOK, NetTypeOK, CliTypeOK
<1> QED
  BY <1>1, ConcatProperties

LEMMA PassOverHears ==
  ASSUME ChatInd, PassOver, UNCHANGED clivars, NEW d \in Conns,
         rcvd[d] \o s2c[d] \o Owed(d) = heard[d]
  PROVE  (rcvd[d] \o s2c[d] \o Owed(d) = heard[d])'
<1>1. /\ pc = "write" /\ NextSlot /\ ~Addressed
      /\ UNCHANGED <<client, maxi, fdconn, buf, s2c, heard, rcvd>>
  BY DEF PassOver, tabvars, netvars, clivars
<1>2. Owed(d)' = IF Ahead(d) /\ Audible(buf) THEN buf ELSE <<>>
  BY <1>1, NextSlotOwes
<1>3. Owed(d) = IF Ahead(d) /\ Audible(buf) THEN buf ELSE <<>>
  BY <1>1, OwedIs DEF Addressed
<1> QED
  BY <1>1, <1>2, <1>3

LEMMA WriteUnitHears ==
  ASSUME ChatInd, NEW c \in Conns, ChatWriteUnit(c), UNCHANGED clivars,
         NEW d \in Conns, rcvd[d] \o s2c[d] \o Owed(d) = heard[d]
  PROVE  (rcvd[d] \o s2c[d] \o Owed(d) = heard[d])'
<1>1. /\ pc = "write" /\ Addressed /\ c = fdconn[client[j]]
      /\ UNCHANGED <<client, maxi, maxfd, allset, fdconn, buf, heard, rcvd>>
      /\ s2c' = [s2c EXCEPT ![c] = Append(@, Head(left))]
      /\ IF Len(left) > 1 THEN left' = Tail(left) /\ UNCHANGED <<j, pc, i, nready>>
                          ELSE NextSlot
  BY DEF ChatWriteUnit, tabvars, clivars
<1>2. client[j] > 0 /\ i # j /\ Audible(buf) /\ j \in Taken
  BY <1>1, AtRecipient DEF Addressed
<1>3. ~Ahead(c)
  BY <1>1, <1>2, NoSpeakerAhead DEF Ahead
<1>4. left \in Seq(Unit) /\ left # <<>> /\ s2c \in [Conns -> Seq(Unit)]
  BY <1>1 DEF ChatInd, PlaceInd, ExitInd, Broadcast, Ind, TypeOK, NetTypeOK
<1>5. CASE d = c
  <2>1. Owed(c) = left
    BY <1>1, <1>2, <1>3, OwedIs
  <2>2. Owed(c)' = Tail(left)
    <3>1. CASE Len(left) > 1
      <4>1. left' = Tail(left) /\ UNCHANGED <<j, pc, i, client, fdconn, buf>>
        BY <1>1, <3>1
      <4>2. ~Ahead(c)'
        BY <1>3, <4>1 DEF Ahead, Taken
      <4> QED
        BY <1>1, <1>2, <4>1, <4>2 DEF Owed, Taken, Ahead,
           Slots, Audible
    <3>2. CASE ~(Len(left) > 1)
      <4>1. Tail(left) = <<>>
        BY <1>4, <3>2, TailEmpty
      <4>2. Owed(c)' = <<>>
        BY <1>1, <1>3, <3>2, NextSlotOwes
      <4> QED
        BY <4>1, <4>2
    <3> QED
      BY <3>1, <3>2
  <2>3. rcvd[c] \in Seq(Unit) /\ s2c[c] \in Seq(Unit)
    BY HearTypes
  <2>4. (rcvd[c] \o Append(s2c[c], Head(left))) \o Tail(left)
          = (rcvd[c] \o s2c[c]) \o left
    BY <1>4, <2>3, PassOn, ZenonT(60)
  <2>5. s2c'[c] = Append(s2c[c], Head(left)) /\ rcvd' = rcvd /\ heard' = heard
    BY <1>1, <1>4
  <2> QED
    BY <1>5, <2>1, <2>2, <2>4, <2>5
<1>6. CASE d # c
  <2>1. s2c'[d] = s2c[d] /\ rcvd' = rcvd /\ heard' = heard
    BY <1>1, <1>4, <1>6
  <2>2. Owed(d) = IF Ahead(d) THEN buf ELSE <<>>
    BY <1>1, <1>2, <1>6, OwedIs
  <2>3. Owed(d)' = IF Ahead(d) THEN buf ELSE <<>>
    <3>1. CASE Len(left) > 1
      <4>1. UNCHANGED <<j, pc, i, client, fdconn, buf>>
        BY <1>1, <3>1
      <4>2. Ahead(d)' = Ahead(d)
        BY <4>1 DEF Ahead, Taken
      <4> QED
        BY <1>1, <1>2, <1>6, <4>1, <4>2 DEF Owed, Taken, Ahead,
           Slots, Audible
    <3>2. CASE ~(Len(left) > 1)
      BY <1>1, <1>2, <3>2, NextSlotOwes
    <3> QED
      BY <3>1, <3>2
  <2> QED
    BY <2>1, <2>2, <2>3
<1> QED
  BY <1>5, <1>6

LEMMA ReadDataHears ==
  ASSUME ChatInd, NEW c \in Conns, ChatReadData(c), UNCHANGED clivars,
         NEW d \in Conns, rcvd[d] \o s2c[d] \o Owed(d) = heard[d]
  PROVE  (rcvd[d] \o s2c[d] \o Owed(d) = heard[d])'
<1>0. PlaceInd /\ Ind
  BY DEF ChatInd, PlaceInd, ExitInd
<1>1. /\ Reading(c) /\ pc = "scan" /\ pc' = "write"
      /\ UNCHANGED <<i, client, fdconn, s2c, rcvd>>
  BY DEF ChatReadData, ReadData, Reading, tabvars, clivars
<1>2. /\ buf' \in Seq(Unit) /\ left' = buf' /\ j' = 0
      /\ heard'[d] = IF d \in Others(c) /\ Audible(buf')
                       THEN heard[d] \o buf' ELSE heard[d]
  BY ReadDataHeard
<1>3. i \in Taken /\ fdconn[client[i]] = c
  BY <1>0, <1>1, AtSlot
<1>4. rcvd[d] \o s2c[d] = heard[d]
  <2>1. Owed(d) = <<>>
    BY <1>1 DEF Owed
  <2> QED
    BY <2>1, HearTypes, ConcatEmptySeq
<1>5. d \in Others(c) <=> \E k \in Taken : k # i /\ fdconn[client[k]] = d
  <2>1. d \in Others(c) <=> d # c /\ \E k \in Taken : fdconn[client[k]] = d
    BY DEF Others, Taken, Slots
  <2>2. \A k \in Taken : k # i => fdconn[client[k]] # c
    BY <1>0, <1>1, <1>3, OneSlot
  <2> QED
    BY <1>3, <2>1, <2>2
<1>6. Owed(d)' = IF d \in Others(c) /\ Audible(buf') THEN buf'
                                                                ELSE <<>>
  <2>1. /\ Slots \subseteq Nat /\ 0 \in Slots
        /\ \A f \in ConnFds : f > 0 /\ f # -1
    BY <1>0, Numbers, LoopAssumption DEF Slots
  <2>2. client[0] > 0 <=> 0 \in Taken
    <3>1. client[0] \in {-1} \cup ConnFds
      BY <1>0, <2>1 DEF Ind, TypeOK, LoopTypeOK
    <3> QED
      BY <2>1, <3>1 DEF Taken
  <2>3. Owed(d)' =
          IF ~Audible(buf') THEN <<>>
          ELSE IF \E k \in Taken : k > 0 /\ k # i /\ fdconn[client[k]] = d THEN buf'
          ELSE IF client[0] > 0 /\ 0 # i /\ fdconn[client[0]] = d THEN buf'
          ELSE <<>>
    BY <1>1, <1>2 DEF Owed, Taken, Slots,
       Audible
  <2>4. (\E k \in Taken : k # i /\ fdconn[client[k]] = d) <=>
           \/ \E k \in Taken : k > 0 /\ k # i /\ fdconn[client[k]] = d
           \/ 0 \in Taken /\ 0 # i /\ fdconn[client[0]] = d
    BY <2>1 DEF Taken
  <2> QED
    BY <1>5, <2>2, <2>3, <2>4
<1>7. rcvd[d] \o s2c[d] \in Seq(Unit)
  BY HearTypes
<1>8. (rcvd[d] \o s2c[d]) \o <<>> = rcvd[d] \o s2c[d]
  BY <1>7, ConcatEmptySeq
<1> QED
  BY <1>1, <1>2, <1>4, <1>6, <1>8

LEMMA CliReadKeeps ==
  ASSUME Ind, NEW c \in Conns, CliRead(c)
  PROVE  rcvd'[c] \o s2c'[c] = rcvd[c] \o s2c[c]
<1> DEFINE n == Lesser(MaxLine, Len(s2c[c]))
<1>1. rcvd[c] \in Seq(Unit) /\ s2c[c] \in Seq(Unit) /\ Len(s2c[c]) \in Nat
  BY LenProperties DEF Ind, TypeOK, NetTypeOK, CliTypeOK
<1>2. n \in 0 .. Len(s2c[c])
  <2>1. MaxLine \in Nat
    BY SocketsAssumption
  <2>2. n \in Nat /\ n <= Len(s2c[c])
    BY <1>1, <2>1, LesserType
  <2> QED
    BY <1>1, <2>2
<1>3. rcvd'[c] = rcvd[c] \o Take(s2c[c], n) /\ s2c'[c] = Drop(s2c[c], n)
  BY DEF CliRead, Ind, TypeOK, NetTypeOK, CliTypeOK
<1>4. (rcvd[c] \o Take(s2c[c], n)) \o Drop(s2c[c], n) = rcvd[c] \o s2c[c]
  BY <1>1, <1>2, TakeDrop
<1> QED
  BY <1>3, <1>4

(* Nothing else puts units on a connection to a client or takes them off.  *)
LEMMA AsideKeeps ==
  ASSUME ChatInd, Aside, NEW d \in Conns, pc' # "dead", ~rstS'[d], ~rstC'[d]
  PROVE  rcvd'[d] \o s2c'[d] = rcvd[d] \o s2c[d]
<1>0. Ind /\ NetTypeOK
  BY DEF ChatInd, PlaceInd, ExitInd, Ind, TypeOK
<1>1. ASSUME UNCHANGED clivars,
             \/ Select \/ AcceptClient \/ AcceptError \/ TooManyClients \/ SkipSlot
             \/ \E c \in Conns : ReadError(c) \/ ReadEof(c)
      PROVE  UNCHANGED <<rcvd, s2c>>
  BY <1>1 DEF Select, AcceptClient, AcceptError, TooManyClients, SkipSlot,
     ReadError, ReadEof, SrvExit, clivars, netvars
<1>2. ASSUME NEW c \in Conns, CliNext(c, Listening) \/ CliKill(c)
      PROVE  rcvd'[d] \o s2c'[d] = rcvd[d] \o s2c[d]
  <2>1. CASE d # c
    BY <1>0, <1>2, <2>1, CliStepOwn
  <2>2. CASE d = c /\ CliRead(c)
    BY <1>0, <2>2, CliReadKeeps
  <2>3. CASE ~CliRead(c)
    <3>1. UNCHANGED <<rcvd, s2c>>
      BY <1>2, <2>3 DEF CliNext, Connect, Refused, CliSelect, CliEof,
         CliReadError, ReadStdin, StdinEof, CliWriten, CliWriteError, CliKill,
         netvars
    <3> QED
      BY <3>1
  <2> QED
    BY <2>1, <2>2, <2>3
<1>3. ASSUME NEW c \in Conns, ResetServer(c) \/ ResetClient(c), UNCHANGED clivars
      PROVE  rcvd' = rcvd /\ s2c'[d] = s2c[d]
  <2>1. c # d
    BY <1>0, <1>3 DEF NetTypeOK, ResetServer, ResetClient
  <2>2. rcvd' = rcvd
    BY <1>3 DEF clivars
  <2>3. CASE ResetServer(c)
    BY <1>0, <2>1, <2>2, <2>3 DEF NetTypeOK, ResetServer
  <2>4. CASE ResetClient(c)
    BY <1>0, <2>1, <2>2, <2>4 DEF NetTypeOK, ResetClient
  <2> QED
    BY <1>3, <2>3, <2>4
<1>4. ASSUME UNCHANGED vars PROVE UNCHANGED <<rcvd, s2c>>
  BY <1>4 DEF vars, netvars, clivars
<1> QED
  BY <1>1, <1>2, <1>3, <1>4 DEF Aside, NetNext

LEMMA AsideHears ==
  ASSUME ChatInd, Aside, NEW d \in Conns, pc' # "dead", ~rstS'[d], ~rstC'[d],
         rcvd[d] \o s2c[d] \o Owed(d) = heard[d]
  PROVE  (rcvd[d] \o s2c[d] \o Owed(d) = heard[d])'
<1>1. rcvd'[d] \o s2c'[d] = rcvd[d] \o s2c[d]
  BY AsideKeeps
<1>2. Owed(d)' = Owed(d)
  <2>1. UNCHANGED <<buf, j, left>>
    BY DEF Aside
  <2>2. CASE UNCHANGED srvvars
    BY <2>1, <2>2 DEF srvvars, Owed, Taken, Audible
  <2>3. CASE pc # "write" /\ pc' # "write"
    BY <2>3 DEF Owed
  <2> QED
    BY <2>2, <2>3, AsideLoop
<1>3. heard' = heard
  BY DEF Aside
<1> QED
  BY <1>1, <1>2, <1>3

-----------------------------------------------------------------------------
LEMMA NextHears ==
  ASSUME ChatInd, [ChatNext]_chatvars
  PROVE  EveryoneElseHears'
<1> SUFFICES ASSUME NEW d \in Conns, pc' # "dead", ~rstS'[d], ~rstC'[d]
             PROVE  (rcvd[d] \o s2c[d] \o Owed(d) = heard[d])'
  BY DEF EveryoneElseHears
<1>0. Ind
  BY DEF ChatInd, PlaceInd, ExitInd
<1>1. pc # "dead" /\ ~rstS[d] /\ ~rstC[d] =>
        rcvd[d] \o s2c[d] \o Owed(d) = heard[d]
  BY DEF ChatInd, EveryoneElseHears
<1>2. CASE Aside
  <2>1. pc # "dead" /\ ~rstS[d] /\ ~rstC[d]
    BY <1>0, <1>2, AsEcho, ForGood
  <2> QED
    BY <1>1, <1>2, <2>1, AsideHears
<1>3. ASSUME NEW c \in Conns, ChatReadData(c), UNCHANGED clivars
      PROVE  (rcvd[d] \o s2c[d] \o Owed(d) = heard[d])'
  <2>1. pc # "dead" /\ ~rstS[d] /\ ~rstC[d]
    BY <1>0, <1>3, AsEcho, ForGood
  <2> QED
    BY <1>1, <1>3, <2>1, ReadDataHears
<1>4. CASE Telling /\ UNCHANGED clivars
  <2>1. CASE PassOver
    <3>1. pc = "write" /\ UNCHANGED <<rstS, rstC>>
      BY <2>1 DEF PassOver, netvars
    <3> QED
      BY <1>1, <1>4, <2>1, <3>1, PassOverHears
  <2>2. ASSUME NEW c \in Conns, ChatWriteUnit(c)
        PROVE  (rcvd[d] \o s2c[d] \o Owed(d) = heard[d])'
    <3>1. pc = "write" /\ UNCHANGED <<rstS, rstC>>
      BY <2>2 DEF ChatWriteUnit
    <3> QED
      BY <1>1, <1>4, <2>2, <3>1, WriteUnitHears
  <2>3. ASSUME NEW c \in Conns, ChatWriteError(c) PROVE FALSE
    BY <1>4, <2>3, WriteErrorTurn
  <2> QED
    BY <1>4, <2>1, <2>2, <2>3 DEF Telling
<1> QED
  BY <1>2, <1>3, <1>4, ChatSteps

LEMMA NextChat == ChatInd /\ [ChatNext]_chatvars => ChatInd'
BY NextChatPlace, NextHears DEF ChatInd

LEMMA AlwaysChat == ChatSpec => []ChatInd
BY InitChat, NextChat, PTL DEF ChatSpec

(***************************************************************************)
(* In the chat room everyone else hears everything, once, in the order the *)
(* server read it, and nobody hears himself (chatserver.c:70-80), whatever *)
(* clients come, leave, are killed or read slowly during a broadcast.      *)
(***************************************************************************)
THEOREM EveryoneElseAlwaysHears == ChatSpec => []EveryoneElseHears
BY AlwaysChat, PTL DEF ChatInd

(***************************************************************************)
(* A client that leaves the way chat_strcli.c does takes nobody down: a    *)
(* Read or a Writen of the server fails only when a client was killed.     *)
(***************************************************************************)
THEOREM RoomAlwaysSurvivesLeaving == ChatSpec => []RoomSurvivesLeaving
<1>1. ChatInd => RoomSurvivesLeaving
  BY DEF ChatInd, PlaceInd, ExitInd, ExitHasCause, RoomSurvivesLeaving
<1> QED
  BY <1>1, AlwaysChat, PTL
-----------------------------------------------------------------------------
(* The round of the select loop while it broadcasts: a turn handles nobody *)
(* but the client whose bytes are passed on.                               *)
LEMMA TurnReady ==
  ASSUME StaleInd, pc = "write", NextReady \/ UNCHANGED <<pc, i, nready>>,
         UNCHANGED <<rset, client, maxi, fdconn, c2s, cend, rstS>>
  PROVE  ReadyCountExact' /\ Reported' /\ StillReady'
<1>0. ReadyInd /\ client[i] \in rset
  BY DEF StaleInd, ReadyInd, Reported
<1>1. CASE NextReady
  <2>1. pc' \in {"scan", "select"} /\ i' = i + 1
    BY <1>1 DEF NextReady
  <2>2. Awaited' \subseteq Awaited
    BY <2>1, HandledStale
  <2>3. StillReady'
    BY <2>2, NarrowsReady
  <2>4. ReadyCountExact' /\ Reported'
    BY <1>0, <1>1, HandledReady
  <2> QED
    BY <2>3, <2>4
<1>2. CASE UNCHANGED <<pc, i, nready>>
  <2>1. Pending' = Pending
    BY <1>2 DEF Pending
  <2>2. Awaited' = Awaited
    BY <1>2, <2>1 DEF Awaited
  <2>3. StillReady'
    BY <2>2, NarrowsReady
  <2>4. ReadyCountExact' /\ Reported'
    BY <1>0, <1>2, <2>1 DEF ReadyInd, ReadyCountExact, Reported
  <2> QED
    BY <2>3, <2>4
<1> QED
  BY <1>1, <1>2

LEMMA TellingReady ==
  ASSUME StaleInd, Telling
  PROVE  ReadyCountExact' /\ Reported' /\ StillReady'
<1>1. CASE PassOver
  <2>1. /\ pc = "write" /\ (NextReady \/ UNCHANGED <<pc, i, nready>>)
        /\ UNCHANGED <<rset, client, maxi, fdconn, c2s, cend, rstS>>
    BY <1>1 DEF PassOver, NextSlot, tabvars, netvars
  <2> QED
    BY <2>1, TurnReady
<1>2. ASSUME NEW c \in Conns, ChatWriteUnit(c)
      PROVE  ReadyCountExact' /\ Reported' /\ StillReady'
  <2>1. /\ pc = "write" /\ (NextReady \/ UNCHANGED <<pc, i, nready>>)
        /\ UNCHANGED <<rset, client, maxi, fdconn, c2s, cend, rstS>>
    BY <1>2 DEF ChatWriteUnit, NextSlot, tabvars
  <2> QED
    BY <2>1, TurnReady
<1>3. ASSUME NEW c \in Conns, ChatWriteError(c)
      PROVE  ReadyCountExact' /\ Reported' /\ StillReady'
  <2>1. pc' = "dead"
    BY <1>3 DEF ChatWriteError, SrvExit
  <2> QED
    BY <2>1 DEF ReadyCountExact, Reported, StillReady, Awaited
<1> QED
  BY <1>1, <1>2, <1>3 DEF Telling

LEMMA NextRound == ChatInd /\ StaleInd /\ [ChatNext]_chatvars => StaleInd'
<1> SUFFICES ASSUME ChatInd, StaleInd, [ChatNext]_chatvars PROVE StaleInd'
  OBVIOUS
<1>1. CASE Telling
  <2>1. PlaceInd'
    BY NextChatPlace
  <2>2. Ind'
    BY <2>1 DEF PlaceInd, ExitInd
  <2> QED
    BY <1>1, <2>1, <2>2, TellingReady DEF StaleInd, ReadyInd
<1>2. CASE Aside \/ ((\E c \in Conns : ChatReadData(c)) /\ UNCHANGED clivars)
  BY <1>2, AsEcho, NextStale
<1> QED
  BY <1>1, <1>2, ChatSteps

LEMMA AlwaysRound == ChatSpec => [](ChatInd /\ StaleInd)
<1>1. ChatInit => ChatInd /\ StaleInd
  BY InitChat, InitStale DEF ChatInit
<1> QED
  BY <1>1, NextChat, NextRound, PTL DEF ChatSpec

(***************************************************************************)
(* The chat server's tables always agree with each other and with the      *)
(* kernel's (chatserver.c:26-80), though a broadcast walks client[] in the *)
(* middle of the scan over it.                                             *)
(***************************************************************************)
THEOREM ChatTablesAlwaysAgree == ChatSpec => []TablesAgree
<1>1. ChatInd => TablesAgree
  BY DEF ChatInd, PlaceInd, ExitInd, Ind
<1> QED
  BY <1>1, AlwaysChat, PTL

(***************************************************************************)
(* In the chat room too nready is exactly the number of descriptors still  *)
(* to be handled in the round (chatserver.c:37-86): one is counted off for *)
(* every client read from, however many were written to.                   *)
(***************************************************************************)
THEOREM ChatReadyCountAlwaysExact == ChatSpec => []ReadyCountExact
<1>1. StaleInd => ReadyCountExact
  BY DEF StaleInd, ReadyInd
<1> QED
  BY <1>1, AlwaysRound, PTL

(***************************************************************************)
(* However long a broadcast blocks on slow readers, what Select reported   *)
(* before it is still true when the scan goes on: the chat server never    *)
(* blocks in Accept or Read (chatserver.c:37-70).                          *)
(***************************************************************************)
THEOREM ChatNeverBlocksOnStale == ChatSpec => []NeverBlocksOnStaleReady
<1>1. StaleInd => NeverBlocksOnStaleReady
  BY DEF StaleInd, StillReady, Awaited, ReadyInd, Ind, SrvControl,
     NeverBlocksOnStaleReady
<1> QED
  BY <1>1, AlwaysRound, PTL

(***************************************************************************)
(* A chat client is told "server terminated prematurely" only when it was  *)
(* (chat_strcli.c:25).                                                     *)
(***************************************************************************)
THEOREM ChatNeverPrematurely == ChatSpec => []PrematureOnlyIfDead
<1>1. ChatInd => PrematureOnlyIfDead
  BY DEF ChatInd, PlaceInd, ExitInd, CliFacts, Endings, PrematureOnlyIfDead
<1> QED
  BY <1>1, AlwaysChat, PTL
=============================================================================
