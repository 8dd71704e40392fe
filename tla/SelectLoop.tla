----------------------------- MODULE SelectLoop -----------------------------
(***************************************************************************)
(* The select() loop that selectserver.c, chatserver.c and httpserver.c    *)
(* share line for line: the client[] table, the descriptor sets, Select,   *)
(* Accept and the scan over client[].  What a server does with the data of *)
(* a ready client is in the module of that server.                         *)
(*                                                                         *)
(* Each step up to the next blocking call is one action; the clients run   *)
(* between any two of them.                                                *)
(***************************************************************************)
EXTENDS Sockets

CONSTANTS
  FD_SETSIZE,  \* entries of client[]
  OpenMax,     \* descriptors the process may have; numbers are below it
  ListenFd     \* what Socket() returned: the lowest number free at start

ASSUME LoopAssumption ==
  /\ FD_SETSIZE \in Nat \ {0}
  /\ OpenMax \in Nat
  /\ ListenFd \in Nat

VARIABLES
  pc,       \* the next call: "select", "accept", "scan", "write" or "dead"
  i,        \* index of the scan over client[]
  client,   \* slot -> descriptor, -1 for an available entry
  maxi, maxfd, allset, rset, nready,
  fdconn,   \* the process's descriptor table: descriptor -> connection
  cause     \* why the process exited, "none" while it runs

tabvars == <<client, maxi, maxfd, allset, fdconn>>
srvvars == <<pc, i, rset, nready, cause, client, maxi, maxfd, allset, fdconn>>

NoConn == "no connection"
Slots == 0 .. FD_SETSIZE - 1
ConnFds == ListenFd + 1 .. OpenMax - 1

ASSUME NoConnAssumption == NoConn \notin Conns

FreeFds == {f \in ConnFds : fdconn[f] = NoConn}
FreeSlots == {k \in Slots : client[k] < 0}

\* x is the least element of S: the lowest free descriptor, the first slot.
IsLeast(x, S) == x \in S /\ \A y \in S : x <= y

LoopTypeOK ==
  /\ pc \in {"select", "accept", "scan", "write", "dead"}
  /\ i \in Nat
  /\ client \in [Slots -> {-1} \cup ConnFds]
  /\ maxi \in {-1} \cup Slots
  /\ maxfd \in {ListenFd} \cup ConnFds
  /\ allset \in SUBSET ({ListenFd} \cup ConnFds)
  /\ rset \in SUBSET ({ListenFd} \cup ConnFds)
  /\ nready \in Nat
  /\ fdconn \in [ConnFds -> Conns \cup {NoConn}]
  /\ cause \in {"none", "accept error", "too many clients", "read error",
                "writen error", "bad method"}

LoopInit ==
  /\ pc = "select"
  /\ i = 0
  /\ client = [k \in Slots |-> -1]
  /\ maxi = -1
  /\ maxfd = ListenFd
  /\ allset = {ListenFd}
  /\ rset = {}
  /\ nready = 0
  /\ fdconn = [f \in ConnFds |-> NoConn]
  /\ cause = "none"

-----------------------------------------------------------------------------
(* Leaving the process: exit() closes every descriptor the process holds,  *)
(* the connections nobody accepted included.                               *)
SrvExit(why) ==
  /\ pc' = "dead"
  /\ cause' = why
  /\ fdconn' = [f \in ConnFds |-> NoConn]
  /\ send' = [c \in Conns |-> IF send[c] = "open" THEN "closed" ELSE send[c]]
  /\ listenq' = <<>>
  /\ UNCHANGED <<i, rset, nready, client, maxi, maxfd, allset,
                 cend, c2s, s2c, rstS, rstC>>

(* Mutant of NextReady: nready is not decremented.                         *)
NextReadyKeepsCount ==
  /\ nready' = nready
  /\ i' = i + 1
  /\ pc' = IF i + 1 > maxi THEN "select" ELSE "scan"

(* --nready, then break, or on to the next slot of the for loop.           *)
NextReady ==
  /\ nready' = nready - 1
  /\ i' = i + 1
  /\ pc' = IF nready - 1 <= 0 \/ i + 1 > maxi THEN "select" ELSE "scan"

FdReady(f) == IF f = ListenFd THEN listenq # <<>> ELSE SrvReadable(fdconn[f])

\* Mutants of ReadyFds: maxfd is passed where maxfd + 1 is asked for; the
\* answer is added to that of the round before.
ReadyFdsBelow == {f \in allset : f < maxfd /\ FdReady(f)}
ReadyFdsAdded == rset \cup {f \in allset : f <= maxfd /\ FdReady(f)}

ReadyFds == {f \in allset : f <= maxfd /\ FdReady(f)}

Select ==
  /\ pc = "select"
  /\ ReadyFds # {}
  /\ rset' = ReadyFds
  /\ nready' = Cardinality(ReadyFds)
  /\ pc' = IF ListenFd \in ReadyFds THEN "accept" ELSE "scan"
  /\ i' = 0
  /\ UNCHANGED <<cause, tabvars, netvars>>


\* if (i > maxi) maxi = i;
MaxIndex(k) == IF k > maxi THEN k ELSE maxi

(* A new client: the kernel gives the lowest free descriptor, the loop the *)
(* first free slot.                                                        *)
AcceptClient ==
  /\ pc = "accept"
  /\ \E fd \in FreeFds, k \in FreeSlots :
       /\ IsLeast(fd, FreeFds) /\ IsLeast(k, FreeSlots)
       /\ fdconn' = [fdconn EXCEPT ![fd] = Head(listenq)]
       /\ client' = [client EXCEPT ![k] = fd]
       /\ allset' = allset \cup {fd}
       /\ maxfd' = IF fd > maxfd THEN fd ELSE maxfd
       /\ maxi' = MaxIndex(k)
  /\ listenq' = Tail(listenq)
  /\ nready' = nready - 1
  /\ pc' = IF nready - 1 <= 0 THEN "select" ELSE "scan"
  /\ UNCHANGED <<i, rset, cause, cend, send, c2s, s2c, rstS, rstC>>

(* Accept() leaves through err_sys when the process is out of descriptors. *)
AcceptError ==
  /\ pc = "accept"
  /\ FreeFds = {}
  /\ SrvExit("accept error")

TooManyClients ==
  /\ pc = "accept"
  /\ FreeFds # {} /\ FreeSlots = {}
  /\ SrvExit("too many clients")

(* A slot that is free, or whose descriptor Select did not report.         *)
SkipSlot ==
  /\ pc = "scan"
  /\ client[i] \notin rset
  /\ i' = i + 1
  /\ pc' = IF i + 1 > maxi THEN "select" ELSE "scan"
  /\ UNCHANGED <<rset, nready, cause, tabvars, netvars>>

(* Read of a reported descriptor, by its three outcomes.                   *)
Reading(c) ==
  /\ pc = "scan"
  /\ client[i] \in rset
  /\ c = fdconn[client[i]]

AtEof(c) == c2s[c] = <<>> /\ cend[c] \in {"shut", "closed"}

\* Mutant of CloseClient: FD_CLR is forgotten.
CloseKeepsBit(c) ==
  /\ fdconn' = [fdconn EXCEPT ![client[i]] = NoConn]
  /\ client' = [client EXCEPT ![i] = -1]
  /\ send' = [send EXCEPT ![c] = "closed"]
  /\ UNCHANGED allset

\* Mutant of CloseClient: the slot is freed and the socket left open.
CloseLeaksSocket(c) ==
  /\ allset' = allset \ {client[i]}
  /\ client' = [client EXCEPT ![i] = -1]
  /\ UNCHANGED <<fdconn, send>>

\* Close(sockfd); FD_CLR(sockfd, &allset); client[i] = -1
CloseClient(c) ==
  /\ fdconn' = [fdconn EXCEPT ![client[i]] = NoConn]
  /\ allset' = allset \ {client[i]}
  /\ client' = [client EXCEPT ![i] = -1]
  /\ send' = [send EXCEPT ![c] = "closed"]

ReadError(c) ==
  /\ Reading(c)
  /\ c2s[c] = <<>> /\ rstS[c]
  /\ SrvExit("read error")

-----------------------------------------------------------------------------
(***************************************************************************)
(* The tables the loop keeps agree with each other and with the kernel's:  *)
(* no slot holds a closed descriptor, no two slots the same one, no open   *)
(* descriptor is forgotten, allset is exactly the listening socket and the *)
(* clients, and maxi and maxfd bound what the scan and Select look at.     *)
(***************************************************************************)
Taken == {k \in Slots : client[k] # -1}

TablesAgree ==
  pc # "dead" =>
    /\ \A k \in Taken : fdconn[client[k]] # NoConn
    /\ \A k, l \in Taken : client[k] = client[l] => k = l
    /\ \A f \in ConnFds : fdconn[f] # NoConn => \E k \in Taken : client[k] = f
    /\ allset = {ListenFd} \cup {client[k] : k \in Taken}
    /\ \A k \in Taken : k <= maxi /\ client[k] <= maxfd

(***************************************************************************)
(* nready counts exactly the descriptors of this round that are still to   *)
(* be handled, so that leaving the scan at zero (selectserver.c:78) skips  *)
(* no client, and the scan never runs off the end of client[] with work    *)
(* left.                                                                   *)
(***************************************************************************)
Pending == {k \in i .. maxi : client[k] \in rset}

ReadyCountExact ==
  /\ pc = "accept" => nready = Cardinality(rset)
  /\ pc \in {"scan", "write"} => nready = Cardinality(Pending) /\ nready > 0

(***************************************************************************)
(* What Select reported is still true when the loop gets round to it, after*)
(* accepting and after serving other clients: neither Accept nor Read can  *)
(* block the server on a stale answer.                                     *)
(***************************************************************************)
NeverBlocksOnStaleReady ==
  /\ pc = "accept" => listenq # <<>>
  /\ pc = "scan" => \A k \in Pending : SrvReadable(fdconn[client[k]])
=============================================================================
