----------------------------- MODULE ForkSystem -----------------------------
(***************************************************************************)
(* tcpserver.c with sigchldwaitpid.c and strecho.c, and its clients        *)
(* tcpclient.c with strcli.c: a parent that accepts and forks, one child   *)
(* per connection that answers line by line, and a SIGCHLD handler that    *)
(* collects the children.                                                  *)
(*                                                                         *)
(* A child is named by its connection.  The signal is one bit, however     *)
(* many children end before it is delivered.  libunp's Signal asks for     *)
(* SA_RESTART, so that it does not interrupt accept().                     *)
(***************************************************************************)
EXTENDS Sockets

CONSTANTS
  Lines,     \* what each user may type: <<x, y>>, or <<>> if not two numbers
  NLines,    \* bound: lines the user of each client types
  MaxProcs,  \* children, the uncollected ones included, fork() allows
  MaxFiles,  \* connections the system may have open at once
  Mortal,    \* the clients that may be killed
  Doomed,    \* the connections whose child may be killed, and the parent
  Idle       \* the clients whose users may stop typing for good

NoConn == "no connection"
Parent == "parent"
ASSUME NamesAssumption == NoConn \notin Conns /\ Parent \notin Conns

ASSUME ForkAssumption ==
  /\ \A c \in Conns : Lines[c] \subseteq {<<>>} \cup (Nat \X Nat)
  /\ NLines \in [Conns -> Nat]
  /\ MaxProcs \in Nat \ {0} /\ MaxFiles \in Nat \ {0}
  /\ Mortal \subseteq Conns /\ Doomed \subseteq Conns \cup {Parent}
  /\ Idle \subseteq Conns

VARIABLES
  ppc,       \* the parent's next call: "accept", "fork", "close" or "dead"
  connfd,    \* the connection just accepted
  cause,     \* why the parent ended
  holders,   \* who has the server's end of a connection open
  lsn,       \* who has the listening socket open
  chld,      \* child: "none", "start", "read", "write", "zombie" or "gone"
  line,      \* the answer a child is about to write
  sigchld,   \* a SIGCHLD is pending
  kpc,       \* the client's next call
  asked,     \* the lines it has sent
  printed,   \* the answers it has printed
  verdict    \* how it ended

parvars == <<ppc, connfd, cause>>
kidvars == <<chld, line, sigchld>>
hldvars == <<holders, lsn>>
clivars == <<kpc, asked, printed, verdict>>
vars == <<parvars, kidvars, hldvars, clivars, netvars>>


(* str_echo's answer: the sum, or "input error".                           *)
Answer(l) == IF l = <<>> THEN <<>> ELSE <<l[1] + l[2]>>

Init ==
  /\ NetInit
  /\ ppc = "accept" /\ connfd = NoConn /\ cause = "none"
  /\ holders = [c \in Conns |-> {}]
  /\ lsn = {Parent}
  /\ chld = [c \in Conns |-> "none"]
  /\ line = [c \in Conns |-> <<>>]
  /\ sigchld = FALSE
  /\ kpc = [c \in Conns |-> "connect"]
  /\ asked = [c \in Conns |-> <<>>]
  /\ printed = [c \in Conns |-> <<>>]
  /\ verdict = [c \in Conns |-> "none"]

-----------------------------------------------------------------------------
(* Descriptors are shared after fork: the kernel closes a connection, or   *)
(* the listening socket with its queue, when the last holder lets go.      *)

\* Connection c is in the queue of those not yet accepted.
Waits(c, queue) == \E k \in 1 .. Len(queue) : queue[k] = c

Release(h, l, queue) ==
  /\ holders' = h
  /\ lsn' = l
  /\ listenq' = IF l = {} THEN <<>> ELSE queue
  /\ send' = [c \in Conns |->
       IF \/ holders[c] # {} /\ h[c] = {}
          \/ l = {} /\ Waits(c, queue)
       THEN "closed" ELSE send[c]]
  /\ UNCHANGED <<cend, c2s, s2c, rstS, rstC>>

-----------------------------------------------------------------------------
(* The parent.                                                             *)

OpenFiles == {c \in Conns : holders[c] # {}}
OpenInParent == {c \in Conns : "parent" \in holders[c]}
Unreaped == {c \in Conns : chld[c] \notin {"none", "gone"}}

Accept ==
  /\ ppc = "accept"
  /\ listenq # <<>>
  /\ Cardinality(OpenFiles) < MaxFiles
  /\ connfd' = Head(listenq)
  /\ ppc' = "fork"
  /\ Release([holders EXCEPT ![Head(listenq)] = {"parent"}], lsn, Tail(listenq))
  /\ UNCHANGED <<cause, kidvars, clivars>>

(* The parent's end: its descriptors are closed and its children, dead or  *)
(* alive, become init's, which collects them.                              *)
ParentDies(why) ==
  /\ ppc' = "dead"
  /\ cause' = why
  /\ chld' = [c \in Conns |-> IF chld[c] = "zombie" THEN "gone" ELSE chld[c]]
  /\ Release([c \in Conns |-> holders[c] \ {"parent"}], lsn \ {Parent}, listenq)
  /\ UNCHANGED <<connfd, line, sigchld, clivars>>

(* accept() fails, the system being out of files: err_sys.                 *)
AcceptError ==
  /\ ppc = "accept"
  /\ listenq # <<>>
  /\ Cardinality(OpenFiles) >= MaxFiles
  /\ ParentDies("accept error")

(* Fork(): the child gets both sockets.                                    *)
Fork ==
  /\ ppc = "fork"
  /\ Cardinality(Unreaped) < MaxProcs
  /\ chld' = [chld EXCEPT ![connfd] = "start"]
  /\ Release([holders EXCEPT ![connfd] = @ \cup {"child"}],
             lsn \cup {connfd}, listenq)
  /\ ppc' = "close"
  /\ UNCHANGED <<connfd, cause, line, sigchld, clivars>>

ForkError ==
  /\ ppc = "fork"
  /\ Cardinality(Unreaped) >= MaxProcs
  /\ ParentDies("fork error")

\* Mutant of CloseConnfd: the parent keeps its copy.
CloseConnfdForgotten ==
  /\ ppc = "close"
  /\ ppc' = "accept"
  /\ UNCHANGED <<connfd, cause, holders, lsn, kidvars, clivars, netvars>>

\* Close(connfd)
CloseConnfd ==
  /\ ppc = "close"
  /\ Release([holders EXCEPT ![connfd] = @ \ {"parent"}], lsn, listenq)
  /\ ppc' = "accept"
  /\ UNCHANGED <<connfd, cause, kidvars, clivars>>

\* Somebody kills the parent.
ParentKill ==
  /\ Parent \in Doomed
  /\ ppc # "dead"
  /\ ParentDies("killed")

(* Mutant of sig_chld: if where while was meant.                           *)
sig_chld_once ==
  /\ ppc # "dead"
  /\ sigchld
  /\ sigchld' = FALSE
  /\ \E c \in Conns : /\ chld[c] = "zombie"
                      /\ chld' = [chld EXCEPT ![c] = "gone"]
  /\ UNCHANGED <<parvars, hldvars, line, clivars, netvars>>

(* The handler collects every child that has ended by now.                 *)
sig_chld ==
  /\ ppc # "dead"
  /\ sigchld
  /\ sigchld' = FALSE
  /\ chld' = [c \in Conns |-> IF chld[c] = "zombie" THEN "gone" ELSE chld[c]]
  /\ UNCHANGED <<parvars, hldvars, line, clivars, netvars>>

ParentNext ==
  Accept \/ AcceptError \/ Fork \/ ForkError \/ CloseConnfd

-----------------------------------------------------------------------------
(* A child.                                                                *)


\* Close(listenfd)
ChildStart(c) ==
  /\ chld[c] = "start"
  /\ Release(holders, lsn \ {c}, listenq)
  /\ chld' = [chld EXCEPT ![c] = "read"]
  /\ UNCHANGED <<parvars, line, sigchld, clivars>>

(* Readline, and the answer put together in the same buffer.               *)
ReadLine(c) ==
  /\ chld[c] = "read"
  /\ c2s[c] # <<>>
  /\ line' = [line EXCEPT ![c] = Answer(Head(c2s[c]))]
  /\ c2s' = [c2s EXCEPT ![c] = Tail(@)]
  /\ chld' = [chld EXCEPT ![c] = "write"]
  /\ UNCHANGED <<parvars, hldvars, sigchld, clivars, listenq, cend, send, s2c,
                 rstS, rstC>>

\* Mutant of AfterWrite: the loop writes again before it reads.
AfterWriteAgain == "write"

AfterWrite == "read"

WriteLine(c) ==
  /\ chld[c] = "write"
  /\ ~rstS[c]
  /\ Len(s2c[c]) < SockBuf
  /\ s2c' = [s2c EXCEPT ![c] = Append(@, line[c])]
  /\ line' = [line EXCEPT ![c] = <<>>]
  /\ chld' = [chld EXCEPT ![c] = AfterWrite]
  /\ UNCHANGED <<parvars, hldvars, sigchld, clivars, listenq, cend, send, c2s,
                 rstS, rstC>>

ChildDies(c) ==
  /\ chld' = [chld EXCEPT ![c] = IF ppc = "dead" THEN "gone" ELSE "zombie"]
  /\ sigchld' = (sigchld \/ ppc # "dead")
  /\ Release([holders EXCEPT ![c] = @ \ {"child"}], lsn \ {c}, listenq)
  /\ UNCHANGED <<parvars, line, clivars>>

(* End of file: str_echo returns and the child exits.  A reset, met by     *)
(* Readline or by Writen, ends it as well.                                 *)
ChildEnds(c) ==
  /\ \/ chld[c] = "read" /\ c2s[c] = <<>> /\ (cend[c] = "closed" \/ rstS[c])
     \/ chld[c] = "write" /\ rstS[c]
  /\ ChildDies(c)

\* Somebody kills the child.
ChildKill(c) ==
  /\ c \in Doomed
  /\ chld[c] \in {"start", "read", "write"}
  /\ ChildDies(c)

ChildNext(c) == ChildStart(c) \/ ReadLine(c) \/ WriteLine(c) \/ ChildEnds(c)

-----------------------------------------------------------------------------
(* A client.                                                               *)

Connect(c) ==
  /\ kpc[c] = "connect"
  /\ lsn # {} /\ Len(listenq) < Backlog
  /\ listenq' = Append(listenq, c)
  /\ cend' = [cend EXCEPT ![c] = "open"]
  /\ send' = [send EXCEPT ![c] = "open"]
  /\ kpc' = [kpc EXCEPT ![c] = "fgets"]
  /\ UNCHANGED <<parvars, kidvars, hldvars, asked, printed, verdict, c2s, s2c,
                 rstS, rstC>>

CliExit(c, how) ==
  /\ kpc' = [kpc EXCEPT ![c] = "exit"]
  /\ verdict' = [verdict EXCEPT ![c] = how]
  /\ cend' = [cend EXCEPT ![c] = IF @ = "none" THEN "none" ELSE "closed"]
  /\ UNCHANGED <<parvars, kidvars, hldvars, asked, printed, listenq, send,
                 c2s, s2c, rstS, rstC>>

(* Fgets and Writen.  No line is on its way then, so that Writen does not  *)
(* block, and none was that a reset could have answered.                   *)
Ask(c) ==
  /\ kpc[c] = "fgets"
  /\ Len(asked[c]) < NLines[c]
  /\ \E l \in Lines[c] :
       /\ asked' = [asked EXCEPT ![c] = Append(@, l)]
       /\ c2s' = [c2s EXCEPT ![c] = Append(@, l)]
  /\ kpc' = [kpc EXCEPT ![c] = "readline"]
  /\ UNCHANGED <<parvars, kidvars, hldvars, printed, verdict, listenq, cend,
                 send, s2c, rstS, rstC>>

PrintAnswer(c) ==
  /\ kpc[c] = "readline"
  /\ s2c[c] # <<>>
  /\ printed' = [printed EXCEPT ![c] = Append(@, Head(s2c[c]))]
  /\ s2c' = [s2c EXCEPT ![c] = Tail(@)]
  /\ kpc' = [kpc EXCEPT ![c] = "fgets"]
  /\ UNCHANGED <<parvars, kidvars, hldvars, asked, verdict, listenq, cend,
                 send, c2s, rstS, rstC>>

\* The end of the client's input, or nobody to connect to.
Leave(c) ==
  \/ kpc[c] = "fgets" /\ CliExit(c, "normal")
  \/ kpc[c] = "connect" /\ lsn = {} /\ CliExit(c, "error")

\* Readline returned 0: "server terminated prematurely"; or -1.
CutOff(c) ==
  /\ kpc[c] = "readline"
  /\ s2c[c] = <<>> /\ CliReadable(c)
  /\ CliExit(c, IF rstC[c] THEN "error" ELSE "premature")

CliKill(c) ==
  /\ c \in Mortal
  /\ kpc[c] \in {"fgets", "readline"}
  /\ CliExit(c, "killed")

CliNext(c) ==
  Connect(c) \/ Ask(c) \/ PrintAnswer(c) \/ Leave(c) \/ CutOff(c)

-----------------------------------------------------------------------------
Resets == NetNext /\ UNCHANGED <<parvars, kidvars, hldvars, clivars>>

Next ==
  \/ ParentNext
  \/ ParentKill
  \/ sig_chld
  \/ \E c \in Conns : ChildNext(c) \/ ChildKill(c)
  \/ \E c \in Conns : CliNext(c) \/ CliKill(c)
  \/ Resets

Spec == Init /\ [][Next]_vars

\* A client somebody has started, and that has connected.
Started(c) == kpc[c] # "connect"

(* Every process runs, signals are delivered and resets arrive.  Nobody has *)
(* to start a client, and the idle users need not type on or leave.        *)
FairSpec ==
  /\ Spec
  /\ WF_vars(ParentNext) /\ WF_vars(sig_chld) /\ WF_vars(Resets)
  /\ \A c \in Conns : WF_vars(ChildNext(c)) /\ WF_vars(PrintAnswer(c) \/ CutOff(c))
  /\ \A c \in Conns \ Idle : WF_vars(Started(c) /\ CliNext(c))

-----------------------------------------------------------------------------
(***************************************************************************)
(* A client gets the answers to its own lines, in order and one each: what *)
(* it printed, what is on its way and what its child is about to write     *)
(* answer what it asked, all but the line that is still on its way in.     *)
(***************************************************************************)
AnswersInOrder ==
  \A c \in Conns : ~rstS[c] /\ ~rstC[c] /\ chld[c] \notin {"zombie", "gone"} =>
    LET out == printed[c] \o s2c[c] \o
                 (IF chld[c] = "write" THEN <<line[c]>> ELSE <<>>)
    IN /\ Len(out) + Len(c2s[c]) = Len(asked[c])
       /\ \A k \in 1 .. Len(out) : out[k] = Answer(asked[c][k])

(***************************************************************************)
(* Trouble stays with the connection it happens on: a client is cut off    *)
(* only if its own child was killed, or if the parent died before it could *)
(* fork; and the parent does not gather descriptors of connections it has  *)
(* handed on (tcpserver.c:39).                                             *)
(***************************************************************************)
TroubleIsOwn ==
  /\ ppc = "accept" => OpenInParent = {}
  /\ \A c \in Conns \ Doomed :
       verdict[c] \in {"premature", "error"} => ppc = "dead" /\ chld[c] = "none"

(***************************************************************************)
(* Every child is collected, although the signals of several may be one:   *)
(* the loop in sig_chld makes up for it (sigchldwaitpid.c:9).              *)
(***************************************************************************)
ChildrenCollected ==
  \A c \in Conns : chld[c] = "zombie" ~> chld[c] = "gone"

=============================================================================
