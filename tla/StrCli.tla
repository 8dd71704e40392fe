------------------------------- MODULE StrCli -------------------------------
(***************************************************************************)
(* The client processes: main() of selectclient.c and chatclient.c, and    *)
(* the str_cli() of select_strcli.c and chat_strcli.c they run, which      *)
(* selects on standard input and the socket, copies one to the other, and  *)
(* half-closes the connection when standard input ends.                    *)
(***************************************************************************)
EXTENDS Sockets

CONSTANTS
  NUnits,    \* bound: units the user of each client types at most
  Mortal     \* the clients that may be killed at any time

ASSUME CliAssumption ==
  /\ NUnits \in [Conns -> Nat]
  /\ Mortal \subseteq Conns

VARIABLES
  cpc,       \* the next call of the client
  crset,     \* its rset after Select: a subset of {"sock", "stdin"}
  stdineof,
  cbuf,      \* what is left of the buffer Writen is sending
  typed,     \* units read from standard input so far
  rcvd,      \* units written to standard output
  verdict    \* how the process ended

clivars == <<cpc, crset, stdineof, cbuf, typed, rcvd, verdict>>

CliTypeOK ==
  /\ cpc \in [Conns -> {"connect", "select", "sock", "stdin", "writen", "exit"}]
  /\ crset \in [Conns -> SUBSET {"sock", "stdin"}]
  /\ stdineof \in [Conns -> {0, 1}]
  /\ cbuf \in [Conns -> Seq(Unit)]
  /\ typed \in [Conns -> Nat] /\ \A c \in Conns : typed[c] <= NUnits[c]
  /\ rcvd \in [Conns -> Seq(Unit)]
  /\ verdict \in [Conns -> {"none", "normal", "premature", "error", "killed"}]

CliInit ==
  /\ cpc = [c \in Conns |-> "connect"]
  /\ crset = [c \in Conns |-> {}]
  /\ stdineof = [c \in Conns |-> 0]
  /\ cbuf = [c \in Conns |-> <<>>]
  /\ typed = [c \in Conns |-> 0]
  /\ rcvd = [c \in Conns |-> <<>>]
  /\ verdict = [c \in Conns |-> "none"]

\* What the user has typed.
Typed(c) == [k \in 1 .. typed[c] |-> <<c, k>>]

-----------------------------------------------------------------------------
(* exit(): the kernel closes the socket.                                   *)
CliExit(c, how) ==
  /\ cpc' = [cpc EXCEPT ![c] = "exit"]
  /\ verdict' = [verdict EXCEPT ![c] = how]
  /\ cend' = [cend EXCEPT ![c] = IF @ = "none" THEN "none" ELSE "closed"]

(* Connect, which fails when nobody listens any more.                      *)
Connect(c, listening) ==
  /\ cpc[c] = "connect"
  /\ listening
  /\ Len(listenq) < Backlog
  /\ listenq' = Append(listenq, c)
  /\ cend' = [cend EXCEPT ![c] = "open"]
  /\ send' = [send EXCEPT ![c] = "open"]
  /\ cpc' = [cpc EXCEPT ![c] = "select"]
  /\ UNCHANGED <<c2s, s2c, rstS, rstC, crset, stdineof, cbuf, typed, rcvd,
                 verdict>>

Refused(c, listening) ==
  /\ cpc[c] = "connect"
  /\ ~listening
  /\ CliExit(c, "error")
  /\ UNCHANGED <<listenq, send, c2s, s2c, rstS, rstC, crset, stdineof, cbuf,
                 typed, rcvd>>

(* Select on the socket and, until it has ended, on standard input.        *)
CliSelect(c) ==
  /\ cpc[c] = "select"
  /\ \E keyboard \in BOOLEAN :
       LET ready == {x \in {"sock", "stdin"} :
                       \/ x = "sock" /\ CliReadable(c)
                       \/ x = "stdin" /\ stdineof[c] = 0 /\ keyboard}
       IN /\ ready # {}
          /\ crset' = [crset EXCEPT ![c] = ready]
          /\ cpc' = [cpc EXCEPT ![c] =
                       IF "sock" \in ready THEN "sock" ELSE "stdin"]
  /\ UNCHANGED <<netvars, stdineof, cbuf, typed, rcvd, verdict>>

CliRead(c) ==
  /\ cpc[c] = "sock"
  /\ s2c[c] # <<>>
  /\ LET n == Lesser(MaxLine, Len(s2c[c]))
     IN /\ rcvd' = [rcvd EXCEPT ![c] = @ \o Take(s2c[c], n)]
        /\ s2c' = [s2c EXCEPT ![c] = Drop(@, n)]
  /\ cpc' = [cpc EXCEPT ![c] = IF "stdin" \in crset[c] THEN "stdin"
                                                       ELSE "select"]
  /\ UNCHANGED <<listenq, cend, send, c2s, rstS, rstC, crset, stdineof, cbuf,
                 typed, verdict>>

(* Read returned 0: the end after our own end, or the server is gone.      *)
CliEof(c) ==
  /\ cpc[c] = "sock"
  /\ s2c[c] = <<>> /\ ~rstC[c]
  /\ CliExit(c, IF stdineof[c] = 1 THEN "normal" ELSE "premature")
  /\ UNCHANGED <<listenq, send, c2s, s2c, rstS, rstC, crset, stdineof, cbuf,
                 typed, rcvd>>

(* Read returned -1, and its wrapper leaves through err_sys.               *)
CliReadError(c) ==
  /\ cpc[c] = "sock"
  /\ s2c[c] = <<>> /\ rstC[c]
  /\ CliExit(c, "error")
  /\ UNCHANGED <<listenq, send, c2s, s2c, rstS, rstC, crset, stdineof, cbuf,
                 typed, rcvd>>

ReadStdin(c) ==
  /\ cpc[c] = "stdin"
  /\ \E n \in 1 .. Lesser(MaxLine, NUnits[c] - typed[c]) :
       /\ cbuf' = [cbuf EXCEPT ![c] = [k \in 1 .. n |-> <<c, typed[c] + k>>]]
       /\ typed' = [typed EXCEPT ![c] = @ + n]
  /\ cpc' = [cpc EXCEPT ![c] = "writen"]
  /\ UNCHANGED <<netvars, crset, stdineof, rcvd, verdict>>

(* Mutant of StdinEof: return at once, as a str_cli without shutdown does. *)
StdinEofReturns(c) ==
  /\ cpc[c] = "stdin"
  /\ CliExit(c, "normal")
  /\ UNCHANGED <<listenq, send, c2s, s2c, rstS, rstC, crset, stdineof, cbuf,
                 typed, rcvd>>

\* Mutant of EofFlag: not set.  Mutant of HalfClosed: close, not shutdown.
EofFlagUnset == 0
HalfClosedWholly == "closed"

\* stdineof = 1; Shutdown(sockfd, SHUT_WR)
EofFlag == 1
HalfClosed == "shut"

StdinEof(c) ==
  /\ cpc[c] = "stdin"
  /\ stdineof' = [stdineof EXCEPT ![c] = EofFlag]
  /\ cend' = [cend EXCEPT ![c] = HalfClosed]
  /\ crset' = [crset EXCEPT ![c] = @ \ {"stdin"}]
  /\ cpc' = [cpc EXCEPT ![c] = "select"]
  /\ UNCHANGED <<listenq, send, c2s, s2c, rstS, rstC, cbuf, typed, rcvd,
                 verdict>>

(* Mutant of CliWriten: the buffer pointer is not advanced.                *)
CliWritenResends(c) ==
  /\ cpc[c] = "writen"
  /\ ~rstC[c]
  /\ Len(c2s[c]) < SockBuf
  /\ c2s' = [c2s EXCEPT ![c] = Append(@, Head(cbuf[c]))]
  /\ UNCHANGED <<listenq, cend, send, s2c, rstS, rstC, clivars>>

(* One turn of Writen's loop: a unit goes out, blocking while the          *)
(* connection is full.                                                     *)
CliWriten(c) ==
  /\ cpc[c] = "writen"
  /\ ~rstC[c]
  /\ Len(c2s[c]) < SockBuf
  /\ c2s' = [c2s EXCEPT ![c] = Append(@, Head(cbuf[c]))]
  /\ cbuf' = [cbuf EXCEPT ![c] = Tail(@)]
  /\ cpc' = [cpc EXCEPT ![c] = IF Len(cbuf[c]) > 1 THEN "writen" ELSE "select"]
  /\ UNCHANGED <<listenq, cend, send, s2c, rstS, rstC, crset, stdineof, typed,
                 rcvd, verdict>>

(* Writing to a connection the server has reset ends the client.           *)
CliWriteError(c) ==
  /\ cpc[c] = "writen"
  /\ rstC[c]
  /\ CliExit(c, "error")
  /\ UNCHANGED <<listenq, send, c2s, s2c, rstS, rstC, crset, stdineof, cbuf,
                 typed, rcvd>>

(* Somebody kills the client.                                              *)
CliKill(c) ==
  /\ c \in Mortal
  /\ cpc[c] \notin {"connect", "exit"}
  /\ CliExit(c, "killed")
  /\ UNCHANGED <<listenq, send, c2s, s2c, rstS, rstC, crset, stdineof, cbuf,
                 typed, rcvd>>

\* A client's own steps, being killed excepted.
CliNext(c, listening) ==
  \/ Connect(c, listening) \/ Refused(c, listening)
  \/ CliSelect(c)
  \/ CliRead(c) \/ CliEof(c) \/ CliReadError(c)
  \/ ReadStdin(c) \/ StdinEof(c)
  \/ CliWriten(c) \/ CliWriteError(c)
=============================================================================
