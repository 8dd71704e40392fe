----------------------------- MODULE ForkProofs -----------------------------
(***************************************************************************)
(* Proofs about the forking server, for any number of clients, lines and   *)
(* processes, and whoever may be killed: a client is cut off only through  *)
(* its own child or the death of the parent, the port is given up with the *)
(* parent, and every client has its answers in the order it asked.         *)
(***************************************************************************)
EXTENDS ForkSystem, SequenceTheorems, TLAPS

-----------------------------------------------------------------------------
(* The queue of connections.                                               *)

Distinct(q) == \A k, l \in 1 .. Len(q) : q[k] = q[l] => k = l

LEMMA EmptyQueue ==
  ASSUME NEW q, q = <<>>
  PROVE  Distinct(q) /\ (\A c : ~Waits(c, q)) /\ q \in Seq(Conns)
BY DEF Distinct, Waits

LEMMA JoinQueue ==
  ASSUME NEW q \in Seq(Conns), Distinct(q), NEW x \in Conns, ~Waits(x, q)
  PROVE  /\ Append(q, x) \in Seq(Conns)
         /\ Distinct(Append(q, x))
         /\ \A c : Waits(c, Append(q, x)) <=> c = x \/ Waits(c, q)
<1>1. /\ Append(q, x) \in Seq(Conns)
      /\ Len(Append(q, x)) = Len(q) + 1 /\ Len(q) \in Nat
      /\ Append(q, x)[Len(q) + 1] = x
      /\ \A k \in 1 .. Len(q) : Append(q, x)[k] = q[k]
  OBVIOUS
<1> QED
  BY <1>1 DEF Distinct, Waits

LEMMA LeaveQueue ==
  ASSUME NEW q \in Seq(Conns), Distinct(q), q # <<>>
  PROVE  /\ Tail(q) \in Seq(Conns)
         /\ Distinct(Tail(q))
         /\ Head(q) \in Conns
         /\ Waits(Head(q), q)
         /\ \A c : Waits(c, Tail(q)) <=> c # Head(q) /\ Waits(c, q)
<1>1. /\ Tail(q) \in Seq(Conns) /\ Head(q) \in Conns /\ Head(q) = q[1]
      /\ Len(Tail(q)) = Len(q) - 1 /\ Len(q) \in Nat /\ Len(q) > 0
      /\ \A k \in 1 .. Len(q) - 1 : Tail(q)[k] = q[k + 1]
  <2>1. Len(q) \in Nat /\ Len(q) # 0
    BY EmptySeq
  <2> QED
    BY <2>1, HeadTailProperties
<1>2. Distinct(Tail(q))
  BY <1>1 DEF Distinct
<1>3. Waits(Head(q), q)
  BY <1>1 DEF Waits
<1>4. ASSUME NEW c PROVE Waits(c, Tail(q)) <=> c # Head(q) /\ Waits(c, q)
  <2>1. ASSUME Waits(c, Tail(q)) PROVE c # Head(q) /\ Waits(c, q)
    <3>1. PICK k \in 1 .. Len(q) - 1 : q[k + 1] = c
      BY <1>1, <2>1 DEF Waits
    <3> QED
      BY <1>1, <3>1 DEF Distinct, Waits
  <2>2. ASSUME c # Head(q), Waits(c, q) PROVE Waits(c, Tail(q))
    <3>1. PICK k \in 1 .. Len(q) : q[k] = c
      BY <2>2 DEF Waits
    <3>2. k - 1 \in 1 .. Len(q) - 1 /\ Tail(q)[k - 1] = c
      BY <1>1, <2>2, <3>1
    <3> QED
      BY <1>1, <3>2 DEF Waits
  <2> QED
    BY <2>1, <2>2
<1> QED
  BY <1>1, <1>2, <1>3, <1>4

-----------------------------------------------------------------------------
(***************************************************************************)
(* The inductive invariant.  Trouble on a connection is traced back through*)
(* the reset or end of file the client saw, to the last holder of the      *)
(* server's end, to the end of that holder.                                *)
(***************************************************************************)
Shape ==
  /\ ppc \in {"accept", "fork", "close", "dead"}
  /\ holders \in [Conns -> SUBSET {"parent", "child"}]
  /\ lsn \in SUBSET (Conns \cup {Parent})
  /\ chld \in [Conns -> {"none", "start", "read", "write", "zombie", "gone"}]
  /\ kpc \in [Conns -> {"connect", "fgets", "readline", "exit"}]
  /\ verdict \in [Conns -> {"none", "normal", "premature", "error", "killed"}]
  /\ cend \in [Conns -> {"none", "open", "closed"}]
  /\ send \in [Conns -> {"none", "open", "closed"}]
  /\ rstS \in [Conns -> BOOLEAN] /\ rstC \in [Conns -> BOOLEAN]

Queue == listenq \in Seq(Conns) /\ Distinct(listenq)

\* What the client has done.
ClientSide(c) ==
  /\ kpc[c] = "connect" =>
       /\ cend[c] = "none" /\ send[c] = "none" /\ chld[c] = "none"
       /\ holders[c] = {} /\ ~Waits(c, listenq)
  /\ kpc[c] \in {"fgets", "readline"} => cend[c] = "open"

\* Who holds the server's end.
ServerSide(c) ==
  /\ Waits(c, listenq) => holders[c] = {} /\ chld[c] = "none"
  /\ "child" \in holders[c] <=> chld[c] \in {"start", "read", "write"}
  /\ "parent" \in holders[c] <=> ppc \in {"fork", "close"} /\ connfd = c
  /\ ppc = "fork" /\ connfd = c => chld[c] = "none"
  /\ ppc = "close" /\ connfd = c => chld[c] # "none"

Resetting(c) ==
  /\ rstS[c] => cend[c] = "closed"
  /\ rstC[c] => send[c] = "closed"

Abandoned(c) == ppc = "dead" /\ chld[c] = "none"

\* Why the server's end is closed, and the client unhappy.
Blame(c) ==
  c \notin Doomed =>
    /\ chld[c] \in {"zombie", "gone"} => cend[c] = "closed"
    /\ send[c] = "closed" => cend[c] = "closed" \/ Abandoned(c)
    /\ verdict[c] \in {"premature", "error"} => Abandoned(c)

Each(c) == ClientSide(c) /\ ServerSide(c) /\ Resetting(c) /\ Blame(c)

Handed == ppc \in {"fork", "close"} => connfd \in Conns

\* Who holds the listening socket.
Listening ==
  /\ lsn \subseteq {Parent} \cup {c \in Conns : chld[c] = "start"}
  /\ (Parent \in lsn <=> ppc # "dead")

Ind == Shape /\ Queue /\ Handed /\ Listening /\ \A c \in Conns : Each(c)

LEMMA InitInd == Init => Ind
<1> SUFFICES ASSUME Init PROVE Ind
  OBVIOUS
<1>1. Shape /\ Handed
  BY DEF Init, NetInit, Shape, Handed
<1>2. Queue /\ \A c \in Conns : ~Waits(c, listenq)
  BY EmptyQueue DEF Init, NetInit, Queue
<1>3. Listening
  BY DEF Init, Listening
<1>4. ASSUME NEW c \in Conns PROVE Each(c)
  BY <1>2 DEF Init, NetInit, Each, ClientSide, ServerSide, Resetting, Blame
<1> QED
  BY <1>1, <1>2, <1>3, <1>4 DEF Ind
-----------------------------------------------------------------------------
(* Every action preserves it.                                              *)

LEMMA AcceptInd == ASSUME Ind, Accept PROVE Ind'
<1> DEFINE q == Tail(listenq)
<1>1. /\ Head(listenq) \in Conns /\ Waits(Head(listenq), listenq)
      /\ q \in Seq(Conns) /\ Distinct(q)
      /\ \A c : Waits(c, q) <=> c # Head(listenq) /\ Waits(c, listenq)
  BY LeaveQueue DEF Ind, Queue, Accept
<1>2. lsn # {} /\ listenq' = q
  BY DEF Ind, Listening, Accept, Release
<1>3. send' = send
  BY <1>1, <1>2 DEF Ind, Shape, Accept, Release
<1>4. Shape'
  BY <1>1, <1>3 DEF Ind, Shape, Accept, Release, kidvars, clivars
<1>5. Queue' /\ Handed' /\ Listening'
  BY <1>1, <1>2 DEF Ind, Queue, Handed, Listening, Accept, Release,
     kidvars
<1>6. ASSUME NEW c \in Conns PROVE Each(c)'
  <2>1. Each(c) /\ Each(Head(listenq))
    BY <1>1 DEF Ind
  <2> QED
    BY <1>1, <1>2, <1>3, <2>1 DEF Ind, Shape, Each, ClientSide, ServerSide,
       Resetting, Blame, Abandoned, Accept, Release, kidvars, clivars
<1> QED
  BY <1>4, <1>5, <1>6 DEF Ind

LEMMA ParentDiesInd == ASSUME Ind, NEW why, ppc # "dead", ParentDies(why) PROVE Ind'
<1>1. Shape'
  BY DEF Ind, Shape, ParentDies, Release, clivars
<1>2. Queue' /\ \A c \in Conns : Waits(c, listenq') => Waits(c, listenq)
  BY EmptyQueue DEF Ind, Queue, ParentDies, Release
<1>3. Handed' /\ Listening'
  BY NamesAssumption DEF Ind, Shape, Handed, Listening, ParentDies, Release
<1>4. ASSUME NEW c \in Conns PROVE Each(c)'
  <2>1. Each(c)
    BY DEF Ind
  <2> QED
    BY <1>2, <2>1 DEF Ind, Shape, Each, ClientSide, ServerSide,
       Resetting, Blame, Abandoned, ParentDies, Release, clivars
<1> QED
  BY <1>1, <1>2, <1>3, <1>4 DEF Ind

LEMMA ForkInd == ASSUME Ind, Fork PROVE Ind'
<1>1. connfd \in Conns /\ listenq' = listenq /\ send' = send
  BY DEF Ind, Shape, Handed, Fork, Release
<1>2. Shape' /\ Queue' /\ Handed' /\ Listening'
  BY <1>1, NamesAssumption DEF Ind, Shape, Queue, Handed, Listening,
     Fork, Release, clivars
<1>3. ASSUME NEW c \in Conns PROVE Each(c)'
  <2>1. Each(c) /\ Each(connfd)
    BY <1>1 DEF Ind
  <2> QED
    BY <1>1, <2>1 DEF Ind, Shape, Each, ClientSide, ServerSide,
       Resetting, Blame, Abandoned, Fork, Release, clivars
<1> QED
  BY <1>2, <1>3 DEF Ind

LEMMA CloseConnfdInd == ASSUME Ind, CloseConnfd PROVE Ind'
<1>1. connfd \in Conns /\ lsn # {} /\ listenq' = listenq
  BY DEF Ind, Handed, Listening, CloseConnfd, Release
<1>2. Shape' /\ Queue' /\ Handed' /\ Listening'
  BY <1>1, NamesAssumption DEF Ind, Shape, Queue, Handed, Listening,
     CloseConnfd, Release, kidvars, clivars
<1>3. ASSUME NEW c \in Conns PROVE Each(c)'
  <2>1. Each(c) /\ Each(connfd)
    BY <1>1 DEF Ind
  <2> QED
    BY <1>1, <2>1 DEF Ind, Shape, Each, ClientSide, ServerSide,
       Resetting, Blame, Abandoned, CloseConnfd, Release, kidvars, clivars
<1> QED
  BY <1>2, <1>3 DEF Ind

LEMMA SigChldInd == ASSUME Ind, sig_chld PROVE Ind'
<1>1. Shape' /\ Queue' /\ Handed' /\ Listening'
  BY DEF Ind, Shape, Queue, Handed, Listening, sig_chld, parvars,
     hldvars, clivars, netvars
<1>2. ASSUME NEW c \in Conns PROVE Each(c)'
  <2>1. Each(c)
    BY DEF Ind
  <2> QED
    BY <2>1 DEF Ind, Shape, Each, ClientSide, ServerSide, Resetting, Blame,
       Abandoned, sig_chld, parvars, hldvars, clivars, netvars
<1> QED
  BY <1>1, <1>2 DEF Ind

LEMMA ChildStartInd == ASSUME Ind, NEW c \in Conns, ChildStart(c) PROVE Ind'
<1>1. Shape'
  BY DEF Ind, Shape, ChildStart, Release, parvars, clivars
<1>2. Queue' /\ \A d \in Conns : Waits(d, listenq') => Waits(d, listenq)
  BY EmptyQueue DEF Ind, Queue, ChildStart, Release
<1>3. Handed' /\ Listening'
  BY NamesAssumption DEF Ind, Shape, Handed, Listening, ChildStart,
     Release, parvars
<1>4. lsn \ {c} = {} => ppc = "dead"
  BY NamesAssumption DEF Ind, Listening
<1>5. ASSUME NEW d \in Conns PROVE Each(d)'
  <2>1. Each(d)
    BY DEF Ind
  <2> QED
    BY <1>2, <1>4, <2>1 DEF Ind, Shape, Each, ClientSide, ServerSide,
       Resetting, Blame, Abandoned, ChildStart, Release, parvars, clivars
<1> QED
  BY <1>1, <1>2, <1>3, <1>5 DEF Ind

LEMMA ChildDiesInd ==
  ASSUME Ind, NEW c \in Conns, chld[c] \in {"start", "read", "write"},
         c \in Doomed \/ cend[c] = "closed", ChildDies(c)
  PROVE  Ind'
<1>1. Shape'
  BY DEF Ind, Shape, ChildDies, Release, parvars, clivars
<1>2. Queue' /\ \A d \in Conns : Waits(d, listenq') => Waits(d, listenq)
  BY EmptyQueue DEF Ind, Queue, ChildDies, Release
<1>3. Handed' /\ Listening'
  BY NamesAssumption DEF Ind, Shape, Handed, Listening, ChildDies,
     Release, parvars
<1>4. lsn \ {c} = {} => ppc = "dead"
  BY NamesAssumption DEF Ind, Listening
<1>5. ASSUME NEW d \in Conns PROVE Each(d)'
  <2>1. Each(d)
    BY DEF Ind
  <2> QED
    BY <1>2, <1>4, <2>1 DEF Ind, Shape, Each, ClientSide, ServerSide,
       Resetting, Blame, Abandoned, ChildDies, Release, parvars, clivars
<1> QED
  BY <1>1, <1>2, <1>3, <1>5 DEF Ind

LEMMA ChildInd ==
  ASSUME Ind, NEW c \in Conns, ChildNext(c) \/ ChildKill(c) PROVE Ind'
<1>1. CASE ChildStart(c)
  BY <1>1, ChildStartInd
<1>2. CASE ReadLine(c) \/ WriteLine(c)
  <2>1. Shape' /\ Queue' /\ Handed' /\ Listening'
    BY <1>2 DEF Ind, Shape, Queue, Handed, Listening, ReadLine,
       WriteLine, AfterWrite, parvars, hldvars, clivars
  <2>2. ASSUME NEW d \in Conns PROVE Each(d)'
    <3>1. Each(d)
      BY DEF Ind
    <3> QED
      BY <1>2, <3>1 DEF Ind, Shape, Each, ClientSide, ServerSide, Resetting,
         Blame, Abandoned, ReadLine, WriteLine, AfterWrite, parvars, hldvars, clivars
  <2> QED
    BY <2>1, <2>2 DEF Ind
<1>3. CASE ChildEnds(c)
  <2>1. rstS[c] => cend[c] = "closed"
    BY DEF Ind, Each, Resetting
  <2> QED
    BY <1>3, <2>1, ChildDiesInd DEF ChildEnds
<1>4. CASE ChildKill(c)
  BY <1>4, ChildDiesInd DEF ChildKill
<1> QED
  BY <1>1, <1>2, <1>3, <1>4 DEF ChildNext
LEMMA ConnectInd == ASSUME Ind, NEW c \in Conns, Connect(c) PROVE Ind'
<1>1. /\ listenq' \in Seq(Conns) /\ Distinct(listenq')
      /\ \A d : Waits(d, listenq') <=> d = c \/ Waits(d, listenq)
  BY JoinQueue DEF Ind, Queue, Each, ClientSide, Connect
<1>2. Shape' /\ Queue' /\ Handed' /\ Listening'
  BY <1>1 DEF Ind, Shape, Queue, Handed, Listening, Connect, parvars,
     kidvars, hldvars
<1>3. ASSUME NEW d \in Conns PROVE Each(d)'
  <2>1. Each(d)
    BY DEF Ind
  <2> QED
    BY <1>1, <2>1 DEF Ind, Shape, Each, ClientSide, ServerSide, Resetting,
       Blame, Abandoned, Connect, parvars, kidvars, hldvars
<1> QED
  BY <1>2, <1>3 DEF Ind

LEMMA CliExitInd ==
  ASSUME Ind, NEW c \in Conns,
         NEW how \in {"normal", "premature", "error", "killed"},
         how \in {"premature", "error"} => c \in Doomed \/ Abandoned(c),
         kpc[c] = "connect" => cend[c] = "none",
         CliExit(c, how)
  PROVE  Ind'
<1>1. Shape' /\ Queue' /\ Handed' /\ Listening'
  BY DEF Ind, Shape, Queue, Handed, Listening, CliExit, parvars,
     kidvars, hldvars
<1>2. ASSUME NEW d \in Conns PROVE Each(d)'
  <2>1. Each(d)
    BY DEF Ind
  <2> QED
    BY <2>1 DEF Ind, Shape, Each, ClientSide, ServerSide, Resetting,
       Blame, Abandoned, CliExit, parvars, kidvars, hldvars
<1> QED
  BY <1>1, <1>2 DEF Ind

LEMMA ClientInd ==
  ASSUME Ind, NEW c \in Conns, CliNext(c) \/ CliKill(c) PROVE Ind'
<1>0. Each(c)
  BY DEF Ind
<1>1. CASE Connect(c)
  BY <1>1, ConnectInd
<1>2. CASE Ask(c) \/ PrintAnswer(c)
  <2>1. Shape' /\ Queue' /\ Handed' /\ Listening'
    BY <1>2 DEF Ind, Shape, Queue, Handed, Listening, Ask,
       PrintAnswer, parvars, kidvars, hldvars
  <2>2. ASSUME NEW d \in Conns PROVE Each(d)'
    <3>1. Each(d)
      BY DEF Ind
    <3> QED
      BY <1>2, <3>1 DEF Ind, Shape, Each, ClientSide, ServerSide, Resetting,
         Blame, Abandoned, Ask, PrintAnswer, parvars, kidvars, hldvars
  <2> QED
    BY <2>1, <2>2 DEF Ind
<1>3. CASE kpc[c] = "fgets" /\ CliExit(c, "normal")
  BY <1>3, CliExitInd
<1>4. CASE kpc[c] = "connect" /\ lsn = {} /\ CliExit(c, "error")
  <2>1. Abandoned(c) /\ cend[c] = "none"
    BY <1>0, <1>4 DEF Ind, Listening, Each, ClientSide, Abandoned
  <2> QED
    BY <1>4, <2>1, CliExitInd
<1>5. CASE CutOff(c)
  <2>1. send[c] = "closed" /\ cend[c] = "open"
    BY <1>0, <1>5 DEF CutOff, CliReadable, Each, ClientSide, Resetting
  <2>2. c \in Doomed \/ Abandoned(c)
    BY <1>0, <2>1 DEF Each, Blame
  <2> QED
    BY <1>5, <2>2, CliExitInd DEF CutOff
<1>6. CASE CliKill(c)
  BY <1>6, CliExitInd DEF CliKill
<1> QED
  BY <1>1, <1>2, <1>3, <1>4, <1>5, <1>6 DEF CliNext, Leave

LEMMA ResetsInd == ASSUME Ind, Resets PROVE Ind'
<1>1. PICK c \in Conns : ResetServer(c) \/ ResetClient(c)
  BY DEF Resets, NetNext
<1>2. Shape' /\ Queue' /\ Handed' /\ Listening'
  BY <1>1 DEF Ind, Shape, Queue, Handed, Listening, Resets,
     ResetServer, ResetClient, parvars, kidvars, hldvars, clivars
<1>3. ASSUME NEW d \in Conns PROVE Each(d)'
  <2>1. Each(d)
    BY DEF Ind
  <2> QED
    BY <1>1, <2>1 DEF Ind, Shape, Each, ClientSide, ServerSide, Resetting,
       Blame, Abandoned, Resets, ResetServer, ResetClient, parvars, kidvars,
       hldvars, clivars
<1> QED
  BY <1>2, <1>3 DEF Ind

LEMMA NextInd == Ind /\ [Next]_vars => Ind'
<1> SUFFICES ASSUME Ind, [Next]_vars PROVE Ind'
  OBVIOUS
<1>1. CASE Accept
  BY <1>1, AcceptInd
<1>2. CASE AcceptError
  BY <1>2, ParentDiesInd DEF AcceptError
<1>3. CASE Fork
  BY <1>3, ForkInd
<1>4. CASE ForkError
  BY <1>4, ParentDiesInd DEF ForkError
<1>5. CASE CloseConnfd
  BY <1>5, CloseConnfdInd
<1>6. CASE ParentKill
  BY <1>6, ParentDiesInd DEF ParentKill
<1>7. CASE sig_chld
  BY <1>7, SigChldInd
<1>8. CASE \E c \in Conns : ChildNext(c) \/ ChildKill(c)
  BY <1>8, ChildInd
<1>9. CASE \E c \in Conns : CliNext(c) \/ CliKill(c)
  BY <1>9, ClientInd
<1>10. CASE Resets
  BY <1>10, ResetsInd
<1>11. CASE UNCHANGED vars
  <2>1. Shape' /\ Queue' /\ Handed' /\ Listening'
    BY <1>11 DEF Ind, Shape, Queue, Handed, Listening, vars, parvars,
       kidvars, hldvars, clivars, netvars
  <2>2. ASSUME NEW c \in Conns PROVE Each(c)'
    <3>1. Each(c)
      BY DEF Ind
    <3> QED
      BY <1>11, <3>1 DEF Each, ClientSide, ServerSide, Resetting, Blame,
         Abandoned, vars, parvars, kidvars, hldvars, clivars, netvars
  <2> QED
    BY <2>1, <2>2 DEF Ind
<1> QED
  BY <1>1, <1>2, <1>3, <1>4, <1>5, <1>6, <1>7, <1>8, <1>9, <1>10, <1>11
     DEF Next, ParentNext

LEMMA AlwaysInd == Spec => []Ind
BY InitInd, NextInd, PTL DEF Spec

-----------------------------------------------------------------------------
(***************************************************************************)
(* No client is cut off by what happens to another's connection, and the   *)
(* parent never keeps a connection it has handed on (tcpserver.c:34-39).   *)
(***************************************************************************)
THEOREM TroubleStaysOwn == Spec => []TroubleIsOwn
<1>1. Ind => TroubleIsOwn
  BY DEF Ind, Each, ServerSide, Blame, Abandoned, TroubleIsOwn, OpenInParent
<1> QED
  BY <1>1, AlwaysInd, PTL

-----------------------------------------------------------------------------
(***************************************************************************)
(* The strengthening of AnswersInOrder: besides, the line that is still on *)
(* its way in is the one the next answer is to be for.                     *)
(***************************************************************************)
AllLines == {<<>>} \cup (Nat \X Nat)
Answers == {Answer(l) : l \in AllLines}

Streams ==
  /\ asked \in [Conns -> Seq(AllLines)] /\ c2s \in [Conns -> Seq(AllLines)]
  /\ printed \in [Conns -> Seq(Answers)] /\ s2c \in [Conns -> Seq(Answers)]
  /\ line \in [Conns -> Answers]

Matches(out, way, ask) ==
  /\ Len(out) + Len(way) = Len(ask)
  /\ \A k \in 1 .. Len(out) : out[k] = Answer(ask[k])
  /\ \A k \in 1 .. Len(way) : way[k] = ask[Len(out) + k]

Out(c) ==
  printed[c] \o s2c[c] \o (IF chld[c] = "write" THEN <<line[c]>> ELSE <<>>)

Sound(c) == ~rstS[c] /\ ~rstC[c] /\ chld[c] \notin {"zombie", "gone"}

InOrder == \A c \in Conns : Sound(c) => Matches(Out(c), c2s[c], asked[c])

AnsInd == Ind /\ Streams /\ InOrder

(* What the child reads, and what the user types.                          *)
LEMMA ReadMatches ==
  ASSUME NEW out \in Seq(Answers), NEW way \in Seq(AllLines),
         NEW ask \in Seq(AllLines), way # <<>>, Matches(out, way, ask)
  PROVE  Matches(Append(out, Answer(Head(way))), Tail(way), ask)
<1> DEFINE more == Append(out, Answer(Head(way)))
<1>1. /\ Len(way) \in Nat \ {0} /\ Len(out) \in Nat /\ Len(ask) \in Nat
      /\ Head(way) = way[1]
  BY EmptySeq
<1>2. Len(Tail(way)) = Len(way) - 1 /\ \A k \in 1 .. Len(way) - 1 : Tail(way)[k] = way[k + 1]
  BY <1>1, HeadTailProperties
<1>3. Answer(Head(way)) \in Answers
  BY HeadTailProperties DEF Answers
<1>4. /\ Len(more) = Len(out) + 1 /\ more[Len(out) + 1] = Answer(Head(way))
      /\ \A k \in 1 .. Len(out) : more[k] = out[k]
  BY <1>1, <1>3, AppendProperties
<1>5. Len(out) + Len(way) = Len(ask)
  BY DEF Matches
<1>6. Len(more) + Len(Tail(way)) = Len(ask)
  BY <1>1, <1>2, <1>4, <1>5
<1>7. ASSUME NEW k \in 1 .. Len(more) PROVE more[k] = Answer(ask[k])
  <2>1. CASE k \in 1 .. Len(out)
    BY <1>4, <2>1 DEF Matches
  <2>2. CASE k = Len(out) + 1
    <3>1. way[1] = ask[Len(out) + 1]
      BY <1>1 DEF Matches
    <3> QED
      BY <1>1, <1>4, <2>2, <3>1
  <2> QED
    BY <1>1, <1>4, <2>1, <2>2
<1>8. ASSUME NEW k \in 1 .. Len(Tail(way))
      PROVE  Tail(way)[k] = ask[Len(more) + k]
  <2>1. k \in 1 .. Len(way) - 1 /\ k + 1 \in 1 .. Len(way)
    BY <1>1, <1>2
  <2>2. way[k + 1] = ask[Len(out) + (k + 1)]
    BY <2>1 DEF Matches
  <2>3. Len(out) + (k + 1) = Len(more) + k
    BY <1>1, <1>4, <2>1
  <2> QED
    BY <1>2, <2>1, <2>2, <2>3
<1> QED
  BY <1>6, <1>7, <1>8 DEF Matches

LEMMA AskMatches ==
  ASSUME NEW out \in Seq(Answers), NEW way \in Seq(AllLines),
         NEW ask \in Seq(AllLines), NEW l \in AllLines, Matches(out, way, ask)
  PROVE  Matches(out, Append(way, l), Append(ask, l))
<1>1. Len(way) \in Nat /\ Len(out) \in Nat /\ Len(ask) \in Nat
  OBVIOUS
<1>2. /\ Len(Append(way, l)) = Len(way) + 1 /\ Append(way, l)[Len(way) + 1] = l
      /\ \A k \in 1 .. Len(way) : Append(way, l)[k] = way[k]
  BY AppendProperties
<1>3. /\ Len(Append(ask, l)) = Len(ask) + 1 /\ Append(ask, l)[Len(ask) + 1] = l
      /\ \A k \in 1 .. Len(ask) : Append(ask, l)[k] = ask[k]
  BY AppendProperties
<1>4. Len(out) + Len(way) = Len(ask)
  BY DEF Matches
<1>5. Len(out) + Len(Append(way, l)) = Len(Append(ask, l))
  BY <1>1, <1>2, <1>3, <1>4
<1>6. ASSUME NEW k \in 1 .. Len(out) PROVE out[k] = Answer(Append(ask, l)[k])
  <2>1. k \in 1 .. Len(ask)
    BY <1>1, <1>4
  <2> QED
    BY <1>3, <2>1 DEF Matches
<1>7. ASSUME NEW k \in 1 .. Len(Append(way, l))
      PROVE  Append(way, l)[k] = Append(ask, l)[Len(out) + k]
  <2>1. CASE k \in 1 .. Len(way)
    <3>1. Len(out) + k \in 1 .. Len(ask)
      BY <1>1, <1>4, <2>1
    <3> QED
      BY <1>2, <1>3, <2>1, <3>1 DEF Matches
  <2>2. CASE k = Len(way) + 1
    <3>1. Len(out) + k = Len(ask) + 1
      BY <1>1, <1>4, <2>2
    <3> QED
      BY <1>2, <1>3, <2>2, <3>1
  <2>3. k \in 1 .. Len(way) + 1
    BY <1>2
  <2>4. k \in 1 .. Len(way) \/ k = Len(way) + 1
    BY <1>1, <2>3
  <2> QED
    BY <2>1, <2>2, <2>4
<1> QED
  BY <1>5, <1>6, <1>7 DEF Matches

(* What goes out in three places.                                          *)
LEMMA OutFacts ==
  ASSUME NEW p \in Seq(Answers), NEW s \in Seq(Answers), NEW x \in Answers
  PROVE  /\ p \o s \in Seq(Answers) /\ p \o s \o <<>> = p \o s
         /\ p \o s \o <<x>> = Append(p \o s, x)
         /\ p \o Append(s, x) = p \o s \o <<x>>
<1>1. p \o s \in Seq(Answers) /\ <<x>> \in Seq(Answers)
  BY ConcatProperties
<1>2. p \o s \o <<>> = p \o s
  BY <1>1, ConcatEmptySeq
<1>3. p \o s \o <<x>> = Append(p \o s, x)
  BY <1>1, AppendIsConcat
<1>4. Append(s, x) = s \o <<x>>
  BY AppendIsConcat
<1>5. p \o (s \o <<x>>) = (p \o s) \o <<x>>
  BY <1>1, ConcatAssociative
<1> QED
  BY <1>1, <1>2, <1>3, <1>4, <1>5

LEMMA PrintSame ==
  ASSUME NEW p \in Seq(Answers), NEW s \in Seq(Answers), s # <<>>
  PROVE  Append(p, Head(s)) \o Tail(s) = p \o s
<1>1. Head(s) \in Answers /\ Tail(s) \in Seq(Answers) /\ <<Head(s)>> \in Seq(Answers)
  BY HeadTailProperties
<1>2. s = <<Head(s)>> \o Tail(s)
  <2>1. Len(s) \in Nat \ {0}
    BY EmptySeq
  <2>2. 1 \in 1 .. Len(s) /\ Len(s) \in 1 .. Len(s)
    BY <2>1
  <2>3. SubSeq(s, 1, Len(s)) = <<s[1]>> \o SubSeq(s, 1 + 1, Len(s))
    BY <2>2, SubSeqRecursiveFirst
  <2>4. SubSeq(s, 1, Len(s)) = s /\ Tail(s) = SubSeq(s, 2, Len(s))
    BY SubSeqFull, TailIsSubSeq
  <2>5. Head(s) = s[1] /\ 1 + 1 = 2
    OBVIOUS
  <2> QED
    BY <2>3, <2>4, <2>5
<1>3. Append(p, Head(s)) = p \o <<Head(s)>>
  BY <1>1, AppendIsConcat
<1>4. (p \o <<Head(s)>>) \o Tail(s) = p \o (<<Head(s)>> \o Tail(s))
  BY <1>1, ConcatAssociative
<1> QED
  BY <1>2, <1>3, <1>4

LEMMA InitAns == Init => AnsInd
<1> SUFFICES ASSUME Init PROVE AnsInd
  OBVIOUS
<1>1. <<>> \in AllLines /\ <<>> \in Answers
  <2>1. Answer(<<>>) = <<>>
    BY DEF Answer
  <2> QED
    BY <2>1 DEF AllLines, Answers
<1>2. <<>> \in Seq(AllLines) /\ <<>> \in Seq(Answers) /\ Len(<<>>) = 0
  BY EmptySeq
<1>3. Streams
  BY <1>1, <1>2 DEF Init, NetInit, Streams
<1>4. <<>> \o <<>> = <<>>
  BY <1>2, ConcatEmptySeq
<1>5. ASSUME NEW c \in Conns PROVE Matches(Out(c), c2s[c], asked[c])
  <2>1. Out(c) = <<>> /\ c2s[c] = <<>> /\ asked[c] = <<>>
    BY <1>4 DEF Init, NetInit, Out
  <2> QED
    BY <1>2, <2>1 DEF Matches
<1> QED
  BY <1>3, <1>5, InitInd DEF AnsInd, InOrder

(* A step that moves no line of d, and leaves its child where it was.      *)
LEMMA SameLines ==
  ASSUME InOrder, NEW d \in Conns, Sound(d),
         printed'[d] = printed[d], s2c'[d] = s2c[d], c2s'[d] = c2s[d],
         asked'[d] = asked[d], line'[d] = line[d],
         chld'[d] = "write" <=> chld[d] = "write"
  PROVE  Matches(Out(d), c2s[d], asked[d])'
<1>1. Matches(Out(d), c2s[d], asked[d])
  BY DEF InOrder
<1>2. Out(d)' = Out(d)
  BY DEF Out
<1> QED
  BY <1>1, <1>2 DEF Matches

(* Nothing mends a connection, and no child comes back.                    *)
LEMMA StaysUnsound ==
  ASSUME Ind, [Next]_vars, NEW d \in Conns, Sound(d)'
  PROVE  Sound(d)
<1>0. Shape /\ Each(d)
  BY DEF Ind
<1>1. ASSUME UNCHANGED <<rstS, rstC>>, chld'[d] = chld[d] PROVE Sound(d)
  BY <1>1 DEF Sound
<1>2. CASE Accept \/ CloseConnfd
  BY <1>1, <1>2 DEF Accept, CloseConnfd, Release, kidvars
<1>3. CASE AcceptError \/ ForkError \/ ParentKill
  <2>1. /\ chld'[d] = IF chld[d] = "zombie" THEN "gone" ELSE chld[d]
        /\ UNCHANGED <<rstS, rstC>>
    BY <1>3 DEF AcceptError, ForkError, ParentKill, ParentDies, Release
  <2> QED
    BY <2>1 DEF Sound
<1>4. CASE Fork
  <2>1. ppc = "fork" /\ UNCHANGED <<rstS, rstC>>
    BY <1>4 DEF Fork, Release
  <2>2. CASE d = connfd
    BY <1>0, <2>1, <2>2 DEF Sound, Each, ServerSide
  <2>3. CASE d # connfd
    BY <1>0, <1>1, <1>4, <2>1, <2>3 DEF Fork, Shape
  <2> QED
    BY <2>2, <2>3
<1>5. CASE sig_chld
  BY <1>0, <1>5 DEF sig_chld, Sound, Shape, netvars
<1>6. ASSUME NEW c \in Conns, ChildNext(c) \/ ChildKill(c) PROVE Sound(d)
  <2>1. UNCHANGED <<rstS, rstC>>
    BY <1>6 DEF ChildNext, ChildKill, ChildStart, ReadLine, WriteLine, ChildEnds,
       ChildDies, Release
  <2>2. chld[c] \in {"start", "read", "write"}
    BY <1>6 DEF ChildNext, ChildKill, ChildStart, ReadLine, WriteLine, ChildEnds
  <2>3. d # c => chld'[d] = chld[d]
    BY <1>0, <1>6 DEF ChildNext, ChildKill, ChildStart, ReadLine, WriteLine,
       ChildEnds, ChildDies, Shape
  <2> QED
    BY <2>1, <2>2, <2>3 DEF Sound
<1>7. ASSUME NEW c \in Conns, CliNext(c) \/ CliKill(c) PROVE Sound(d)
  BY <1>1, <1>7 DEF CliNext, CliKill, Connect, Ask, PrintAnswer, Leave, CutOff,
     CliExit, kidvars
<1>8. CASE Resets
  BY <1>0, <1>8 DEF Resets, NetNext, ResetServer, ResetClient, kidvars, Sound, Shape
<1>9. CASE UNCHANGED vars
  BY <1>1, <1>9 DEF vars, kidvars, netvars
<1> QED
  BY <1>2, <1>3, <1>4, <1>5, <1>6, <1>7, <1>8, <1>9 DEF Next, ParentNext
LEMMA NextStreams ==
  ASSUME Ind, Streams, [Next]_vars
  PROVE  Streams'
<1>1. CASE UNCHANGED <<asked, printed, c2s, s2c, line>>
  BY <1>1 DEF Streams
<1>2. ASSUME NEW c \in Conns, ReadLine(c) PROVE Streams'
  <2>1. Head(c2s[c]) \in AllLines /\ Tail(c2s[c]) \in Seq(AllLines)
    BY <1>2, HeadTailProperties DEF ReadLine, Streams
  <2>2. Answer(Head(c2s[c])) \in Answers
    BY <2>1 DEF Answers
  <2> QED
    BY <1>2, <2>1, <2>2 DEF ReadLine, Streams, clivars
<1>3. ASSUME NEW c \in Conns, WriteLine(c) PROVE Streams'
  <2>1. <<>> \in Answers
    BY DEF Answers, Answer, AllLines
  <2>2. Append(s2c[c], line[c]) \in Seq(Answers)
    BY AppendProperties DEF Streams
  <2> QED
    BY <1>3, <2>1, <2>2 DEF WriteLine, Streams, clivars
<1>4. ASSUME NEW c \in Conns, Ask(c) PROVE Streams'
  <2>1. PICK l \in Lines[c] :
          /\ asked' = [asked EXCEPT ![c] = Append(@, l)]
          /\ c2s' = [c2s EXCEPT ![c] = Append(@, l)]
    BY <1>4 DEF Ask
  <2>2. l \in AllLines
    BY ForkAssumption DEF AllLines
  <2>3. Append(asked[c], l) \in Seq(AllLines) /\ Append(c2s[c], l) \in Seq(AllLines)
    BY <2>2, AppendProperties DEF Streams
  <2> QED
    BY <1>4, <2>1, <2>3 DEF Ask, Streams, kidvars
<1>5. ASSUME NEW c \in Conns, PrintAnswer(c) PROVE Streams'
  <2>1. Head(s2c[c]) \in Answers /\ Tail(s2c[c]) \in Seq(Answers)
    BY <1>5, HeadTailProperties DEF PrintAnswer, Streams
  <2>2. Append(printed[c], Head(s2c[c])) \in Seq(Answers)
    BY <2>1, AppendProperties DEF Streams
  <2> QED
    BY <1>5, <2>1, <2>2 DEF PrintAnswer, Streams, kidvars
<1>6. CASE Resets
  <2>1. <<>> \in Seq(AllLines) /\ <<>> \in Seq(Answers)
    BY EmptySeq
  <2>2. PICK c \in Conns : ResetServer(c) \/ ResetClient(c)
    BY <1>6 DEF Resets, NetNext
  <2>3. /\ c2s' = c2s \/ c2s' = [c2s EXCEPT ![c] = <<>>]
        /\ s2c' = s2c \/ s2c' = [s2c EXCEPT ![c] = <<>>]
    BY <2>2 DEF ResetServer, ResetClient
  <2>4. UNCHANGED <<asked, printed, line>>
    BY <1>6 DEF Resets, kidvars, clivars
  <2>5. c2s \in [Conns -> Seq(AllLines)] /\ s2c \in [Conns -> Seq(Answers)]
    BY DEF Streams
  <2>6. (c2s \in [Conns -> Seq(AllLines)])' /\ (s2c \in [Conns -> Seq(Answers)])'
    BY <2>1, <2>3, <2>5, ZenonT(30)
  <2> QED
    BY <2>4, <2>6 DEF Streams
<1>7. ASSUME ParentNext \/ ParentKill \/ sig_chld
      PROVE  UNCHANGED <<asked, printed, c2s, s2c, line>>
  BY <1>7 DEF ParentNext, Accept, AcceptError, Fork, ForkError, CloseConnfd,
     ParentKill, ParentDies, sig_chld, Release, kidvars, clivars, netvars
<1>8. ASSUME NEW c \in Conns, ChildStart(c) \/ ChildEnds(c) \/ ChildKill(c)
      PROVE  UNCHANGED <<asked, printed, c2s, s2c, line>>
  BY <1>8 DEF ChildStart, ChildEnds, ChildKill, ChildDies, Release, clivars
<1>9. ASSUME NEW c \in Conns, Connect(c) \/ Leave(c) \/ CutOff(c) \/ CliKill(c)
      PROVE  UNCHANGED <<asked, printed, c2s, s2c, line>>
  BY <1>9 DEF Connect, Leave, CutOff, CliKill, CliExit, kidvars
<1>10. CASE UNCHANGED vars
  BY <1>1, <1>10 DEF vars, kidvars, clivars, netvars
<1> QED
  BY <1>1, <1>2, <1>3, <1>4, <1>5, <1>6, <1>7, <1>8, <1>9, <1>10
     DEF Next, ChildNext, CliNext

(* The lines of c as it, or its child, moves one.                          *)
LEMMA ReadLineOut ==
  ASSUME Shape, Streams, NEW c \in Conns, ReadLine(c),
         Matches(Out(c), c2s[c], asked[c])
  PROVE  Matches(Out(c), c2s[c], asked[c])'
<1> DEFINE x == Answer(Head(c2s[c]))
           out == printed[c] \o s2c[c]
<1>1. /\ printed[c] \in Seq(Answers) /\ s2c[c] \in Seq(Answers)
      /\ c2s[c] \in Seq(AllLines) /\ asked[c] \in Seq(AllLines)
      /\ c2s[c] # <<>> /\ chld[c] = "read"
  BY DEF Streams, ReadLine
<1>2. x \in Answers
  BY <1>1, HeadTailProperties DEF Answers
<1>3. out \in Seq(Answers) /\ out \o <<>> = out /\ out \o <<x>> = Append(out, x)
  BY <1>1, <1>2, OutFacts
<1>4. Out(c) = out
  BY <1>1, <1>3 DEF Out
<1>5. /\ chld'[c] = "write" /\ line'[c] = x /\ c2s'[c] = Tail(c2s[c])
      /\ UNCHANGED <<printed, s2c, asked>>
  BY DEF ReadLine, Shape, Streams, clivars
<1>6. Out(c)' = Append(out, x)
  BY <1>3, <1>5 DEF Out
<1>7. Matches(Append(out, x), Tail(c2s[c]), asked[c])
  BY <1>1, <1>3, <1>4, ReadMatches
<1> QED
  BY <1>5, <1>6, <1>7 DEF Matches

LEMMA WriteLineOut ==
  ASSUME Shape, Streams, NEW c \in Conns, WriteLine(c)
  PROVE  Out(c)' = Out(c) /\ UNCHANGED <<c2s, asked>>
<1>1. /\ printed[c] \in Seq(Answers) /\ s2c[c] \in Seq(Answers)
      /\ line[c] \in Answers /\ chld[c] = "write"
  BY DEF Streams, WriteLine
<1>2. /\ s2c'[c] = Append(s2c[c], line[c]) /\ chld'[c] = "read"
      /\ UNCHANGED <<printed, c2s, asked>>
  BY DEF WriteLine, AfterWrite, Shape, Streams, clivars
<1>3. Append(s2c[c], line[c]) \in Seq(Answers)
  BY <1>1, AppendProperties
<1>4. Out(c) = printed[c] \o s2c[c] \o <<line[c]>>
  BY <1>1 DEF Out
<1>5. Out(c)' = printed[c] \o Append(s2c[c], line[c]) \o <<>>
  BY <1>2 DEF Out
<1>6. printed[c] \o Append(s2c[c], line[c]) \o <<>>
        = printed[c] \o Append(s2c[c], line[c])
  BY <1>1, <1>3, OutFacts
<1>7. printed[c] \o Append(s2c[c], line[c]) = printed[c] \o s2c[c] \o <<line[c]>>
  BY <1>1, OutFacts
<1> QED
  BY <1>2, <1>4, <1>5, <1>6, <1>7

LEMMA PrintAnswerOut ==
  ASSUME Streams, NEW c \in Conns, PrintAnswer(c)
  PROVE  Out(c)' = Out(c) /\ UNCHANGED <<c2s, asked>>
<1>1. printed[c] \in Seq(Answers) /\ s2c[c] \in Seq(Answers) /\ s2c[c] # <<>>
  BY DEF Streams, PrintAnswer
<1>2. Append(printed[c], Head(s2c[c])) \o Tail(s2c[c]) = printed[c] \o s2c[c]
  BY <1>1, PrintSame
<1>3. /\ printed'[c] = Append(printed[c], Head(s2c[c])) /\ s2c'[c] = Tail(s2c[c])
      /\ UNCHANGED <<chld, line, c2s, asked>>
  BY DEF PrintAnswer, Streams, kidvars
<1> QED
  BY <1>2, <1>3 DEF Out

LEMMA AskOut ==
  ASSUME Streams, NEW c \in Conns, Ask(c), Matches(Out(c), c2s[c], asked[c])
  PROVE  Matches(Out(c), c2s[c], asked[c])'
<1>1. PICK l \in Lines[c] :
        /\ asked' = [asked EXCEPT ![c] = Append(@, l)]
        /\ c2s' = [c2s EXCEPT ![c] = Append(@, l)]
  BY DEF Ask
<1>2. l \in AllLines
  BY ForkAssumption DEF AllLines
<1>3. asked'[c] = Append(asked[c], l) /\ c2s'[c] = Append(c2s[c], l)
  BY <1>1 DEF Streams
<1>4. Out(c)' = Out(c)
  BY DEF Out, Ask, kidvars
<1>5. Out(c) \in Seq(Answers)
  <2>1. printed[c] \in Seq(Answers) /\ s2c[c] \in Seq(Answers) /\ line[c] \in Answers
    BY DEF Streams
  <2>2. printed[c] \o s2c[c] \in Seq(Answers)
    BY <2>1, ConcatProperties
  <2>3. <<line[c]>> \in Seq(Answers) /\ <<>> \in Seq(Answers)
    BY <2>1, EmptySeq
  <2> QED
    BY <2>2, <2>3, ConcatProperties DEF Out
<1>6. Matches(Out(c), Append(c2s[c], l), Append(asked[c], l))
  BY <1>2, <1>5, AskMatches DEF Streams
<1> QED
  BY <1>3, <1>4, <1>6 DEF Matches

LEMMA NextInOrder ==
  ASSUME AnsInd, [Next]_vars
  PROVE  InOrder'
<1> SUFFICES ASSUME NEW d \in Conns, Sound(d)'
             PROVE  Matches(Out(d), c2s[d], asked[d])'
  BY DEF InOrder
<1>0. Ind /\ Shape /\ Each(d) /\ Streams /\ InOrder
  BY DEF AnsInd, Ind
<1>1. Sound(d) /\ Matches(Out(d), c2s[d], asked[d])
  BY <1>0, StaysUnsound DEF InOrder
<1>2. CASE ParentNext \/ ParentKill \/ sig_chld
  <2>1. UNCHANGED <<asked, printed, c2s, s2c, line>>
    BY <1>2 DEF ParentNext, Accept, AcceptError, Fork, ForkError, CloseConnfd,
       ParentKill, ParentDies, sig_chld, Release, kidvars, clivars, netvars
  <2>2. chld'[d] = "write" <=> chld[d] = "write"
    <3>1. CASE Fork
      <4>1. d = connfd => chld[d] = "none"
        BY <1>0, <3>1 DEF Fork, Each, ServerSide
      <4> QED
        BY <1>0, <3>1, <4>1 DEF Fork, Shape
    <3>2. CASE Accept \/ CloseConnfd
      BY <3>2 DEF Accept, CloseConnfd, kidvars
    <3>3. CASE AcceptError \/ ForkError \/ ParentKill \/ sig_chld
      <4>1. chld' = [c \in Conns |->
                       IF chld[c] = "zombie" THEN "gone" ELSE chld[c]]
        BY <3>3, Zenon DEF AcceptError, ForkError, ParentKill, ParentDies, sig_chld
      <4> QED
        BY <4>1
    <3> QED
      BY <1>2, <3>1, <3>2, <3>3 DEF ParentNext
  <2> QED
    BY <1>0, <1>1, <2>1, <2>2, SameLines
<1>3. ASSUME NEW c \in Conns, ReadLine(c) PROVE Matches(Out(d), c2s[d], asked[d])'
  <2>1. CASE d = c
    BY <1>0, <1>1, <1>3, <2>1, ReadLineOut
  <2>2. CASE d # c
    BY <1>0, <1>1, <1>3, <2>2, SameLines DEF ReadLine, clivars, Shape, Streams
  <2> QED
    BY <2>1, <2>2
<1>4. ASSUME NEW c \in Conns, WriteLine(c) PROVE Matches(Out(d), c2s[d], asked[d])'
  <2>1. CASE d = c
    BY <1>0, <1>1, <1>4, <2>1, WriteLineOut DEF Matches
  <2>2. CASE d # c
    BY <1>0, <1>1, <1>4, <2>2, SameLines DEF WriteLine, clivars, Shape, Streams
  <2> QED
    BY <2>1, <2>2
<1>5. ASSUME NEW c \in Conns, ChildStart(c) \/ ChildEnds(c) \/ ChildKill(c)
      PROVE  Matches(Out(d), c2s[d], asked[d])'
  <2>1. UNCHANGED <<asked, printed, c2s, s2c, line>>
    BY <1>5 DEF ChildStart, ChildEnds, ChildKill, ChildDies, Release, clivars
  <2>2. chld'[d] = "write" <=> chld[d] = "write"
    BY <1>0, <1>5 DEF ChildStart, ChildEnds, ChildKill, ChildDies, Shape, Sound
  <2> QED
    BY <1>0, <1>1, <2>1, <2>2, SameLines
<1>6. ASSUME NEW c \in Conns, Ask(c) PROVE Matches(Out(d), c2s[d], asked[d])'
  <2>1. CASE d = c
    BY <1>0, <1>1, <1>6, <2>1, AskOut
  <2>2. CASE d # c
    BY <1>0, <1>1, <1>6, <2>2, SameLines DEF Ask, kidvars, Streams
  <2> QED
    BY <2>1, <2>2
<1>7. ASSUME NEW c \in Conns, PrintAnswer(c) PROVE Matches(Out(d), c2s[d], asked[d])'
  <2>1. CASE d = c
    BY <1>0, <1>1, <1>7, <2>1, PrintAnswerOut DEF Matches
  <2>2. CASE d # c
    BY <1>0, <1>1, <1>7, <2>2, SameLines DEF PrintAnswer, kidvars, Streams
  <2> QED
    BY <2>1, <2>2
<1>8. ASSUME NEW c \in Conns, Connect(c) \/ Leave(c) \/ CutOff(c) \/ CliKill(c)
      PROVE  Matches(Out(d), c2s[d], asked[d])'
  <2>1. UNCHANGED <<asked, printed, c2s, s2c, line, chld>>
    BY <1>8 DEF Connect, Leave, CutOff, CliKill, CliExit, kidvars
  <2> QED
    BY <1>0, <1>1, <2>1, SameLines
<1>9. CASE Resets
  <2>1. PICK c \in Conns : ResetServer(c) \/ ResetClient(c)
    BY <1>9 DEF Resets, NetNext
  <2>2. d # c
    BY <1>0, <2>1 DEF ResetServer, ResetClient, Shape, Sound
  <2>3. c2s'[d] = c2s[d] /\ s2c'[d] = s2c[d]
    BY <1>0, <2>1, <2>2, Zenon DEF ResetServer, ResetClient, Streams
  <2>4. UNCHANGED <<asked, printed, line, chld>>
    BY <1>9 DEF Resets, kidvars, clivars
  <2> QED
    BY <1>0, <1>1, <2>3, <2>4, SameLines
<1>10. CASE UNCHANGED vars
  <2>1. UNCHANGED <<asked, printed, c2s, s2c, line, chld>>
    BY <1>10 DEF vars, kidvars, clivars, netvars
  <2> QED
    BY <1>0, <1>1, <2>1, SameLines
<1> QED
  BY <1>2, <1>3, <1>4, <1>5, <1>6, <1>7, <1>8, <1>9, <1>10
     DEF Next, ChildNext, CliNext

(***************************************************************************)
(* Every answer is for the line it is due to, in order and once, on every  *)
(* connection that has not been reset and whose child lives (strecho.c,    *)
(* strcli.c): for any lines, clients, forks and deaths of others.          *)
(***************************************************************************)
THEOREM AnswersAlwaysInOrder == Spec => []AnswersInOrder
<1>1. AnsInd /\ [Next]_vars => AnsInd'
  BY NextInd, NextStreams, NextInOrder DEF AnsInd
<1>2. AnsInd => AnswersInOrder
  BY DEF AnsInd, InOrder, Sound, Matches, Out, AnswersInOrder
<1> QED
  BY <1>1, <1>2, InitAns, PTL DEF Spec
=============================================================================
