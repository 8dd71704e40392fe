------------------------------ MODULE Sockets ------------------------------
(***************************************************************************)
(* The TCP connections the socket programs share: what the kernel does on  *)
(* connect, write, shutdown, close and process exit.  The kernel is not in *)
(* the repository; it is modelled from the calls the programs make.        *)
(*                                                                         *)
(* A stream is a sequence of units, a unit standing for up to a bufferful  *)
(* of bytes.  A direction holds at most SockBuf units (send plus receive   *)
(* buffer); a writer blocks while it is full.  Close and exit are the      *)
(* same to the peer: end of file after the data, or a reset when data      *)
(* reaches an end that no longer exists.                                   *)
(***************************************************************************)
EXTENDS Integers, Sequences, FiniteSets

CONSTANTS
  Conns,      \* the connections clients may make, one per client process
  SockBuf,    \* capacity of one direction of a connection, in units
  Backlog,    \* the LISTENQ passed to Listen
  MaxLine     \* MAXLINE: units one Read returns at most

ASSUME SocketsAssumption ==
  /\ IsFiniteSet(Conns)
  /\ SockBuf \in Nat \ {0}
  /\ Backlog \in Nat \ {0}
  /\ MaxLine \in Nat \ {0}

VARIABLES
  listenq,    \* completed connections the server has not accepted
  cend,       \* client's end: "none", "open", "shut" (SHUT_WR) or "closed"
  send,       \* server's end: "none", "open" or "closed"
  c2s, s2c,   \* units written to and not yet read from each direction
  rstS, rstC  \* the server's (client's) end has received a reset

netvars == <<listenq, cend, send, c2s, s2c, rstS, rstC>>

\* The k-th unit a client writes.
Unit == Conns \X (Nat \ {0})

NetTypeOK ==
  /\ listenq \in Seq(Conns)
  /\ cend \in [Conns -> {"none", "open", "shut", "closed"}]
  /\ send \in [Conns -> {"none", "open", "closed"}]
  /\ c2s \in [Conns -> Seq(Unit)]
  /\ s2c \in [Conns -> Seq(Unit)]
  /\ rstS \in [Conns -> BOOLEAN]
  /\ rstC \in [Conns -> BOOLEAN]

NetInit ==
  /\ listenq = <<>>
  /\ cend = [c \in Conns |-> "none"]
  /\ send = [c \in Conns |-> "none"]
  /\ c2s = [c \in Conns |-> <<>>]
  /\ s2c = [c \in Conns |-> <<>>]
  /\ rstS = [c \in Conns |-> FALSE]
  /\ rstC = [c \in Conns |-> FALSE]

\* The first n units of s, what follows them, and the smaller of two numbers.
Take(s, n) == SubSeq(s, 1, n)
Drop(s, n) == SubSeq(s, n + 1, Len(s))
Lesser(m, n) == IF m < n THEN m ELSE n

\* The server would not block in read: data, end of file or an error.
SrvReadable(c) == c2s[c] # <<>> \/ cend[c] \in {"shut", "closed"} \/ rstS[c]

\* The client would not block in read.
CliReadable(c) == s2c[c] # <<>> \/ send[c] = "closed" \/ rstC[c]

\* Data that reached an end already closed is answered by a reset; the
\* receiver of the reset may or may not still be able to read what it had.
ResetServer(c) ==
  /\ cend[c] = "closed" /\ send[c] = "open" /\ s2c[c] # <<>>
  /\ s2c' = [s2c EXCEPT ![c] = <<>>]
  /\ rstS' = [rstS EXCEPT ![c] = TRUE]
  /\ \E keep \in BOOLEAN :
       c2s' = IF keep THEN c2s ELSE [c2s EXCEPT ![c] = <<>>]
  /\ UNCHANGED <<listenq, cend, send, rstC>>

ResetClient(c) ==
  /\ send[c] = "closed" /\ cend[c] \in {"open", "shut"} /\ c2s[c] # <<>>
  /\ c2s' = [c2s EXCEPT ![c] = <<>>]
  /\ rstC' = [rstC EXCEPT ![c] = TRUE]
  /\ \E keep \in BOOLEAN :
       s2c' = IF keep THEN s2c ELSE [s2c EXCEPT ![c] = <<>>]
  /\ UNCHANGED <<listenq, cend, send, rstS>>

NetNext == \E c \in Conns : ResetServer(c) \/ ResetClient(c)
=============================================================================
