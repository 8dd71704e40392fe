----------------------------- MODULE EchoSystem -----------------------------
(***************************************************************************)
(* selectserver.c with the clients of selectclient.c: the whole echo       *)
(* service.                                                                *)
(***************************************************************************)
EXTENDS SelectLoop, StrCli

VARIABLE buf   \* what is left of the buffer the server's Writen is sending

vars == <<srvvars, buf, netvars, clivars>>

TypeOK ==
  /\ NetTypeOK /\ LoopTypeOK /\ CliTypeOK
  /\ buf \in Seq(Unit)

Init == LoopInit /\ NetInit /\ CliInit /\ buf = <<>>

-----------------------------------------------------------------------------
ReadData(c) ==
  /\ Reading(c)
  /\ c2s[c] # <<>>
  /\ LET n == Lesser(MaxLine, Len(c2s[c]))
     IN /\ buf' = Take(c2s[c], n)
        /\ c2s' = [c2s EXCEPT ![c] = Drop(@, n)]
  /\ pc' = "write"
  /\ UNCHANGED <<i, rset, nready, cause, tabvars, listenq, cend, send, s2c,
                 rstS, rstC>>

ReadEof(c) ==
  /\ Reading(c)
  /\ AtEof(c)
  /\ CloseClient(c)
  /\ NextReady
  /\ UNCHANGED <<rset, cause, maxi, maxfd, buf, listenq, cend, c2s, s2c,
                 rstS, rstC>>

\* Mutant of Recipient: the client of the last slot.
RecipientLast == fdconn[client[maxi]]

Recipient == fdconn[client[i]]

\* Mutant of MoreToWrite: one unit short.
MoreToWriteBut1 == Len(buf) > 2

MoreToWrite == Len(buf) > 1

(* One turn of the loop in Writen(sockfd, buf, n).                         *)
WriteUnit(c) ==
  /\ pc = "write"
  /\ c = Recipient
  /\ ~rstS[c]
  /\ Len(s2c[c]) < SockBuf
  /\ s2c' = [s2c EXCEPT ![c] = Append(@, Head(buf))]
  /\ buf' = Tail(buf)
  /\ IF MoreToWrite THEN UNCHANGED <<pc, i, nready>> ELSE NextReady
  /\ UNCHANGED <<rset, cause, tabvars, listenq, cend, send, c2s, rstS, rstC>>

WriteError(c) ==
  /\ pc = "write"
  /\ c = fdconn[client[i]]
  /\ rstS[c]
  /\ SrvExit("writen error")
  /\ UNCHANGED buf

SrvNext ==
  \/ /\ \/ Select \/ AcceptClient \/ AcceptError \/ TooManyClients \/ SkipSlot
        \/ \E c \in Conns : ReadError(c)
     /\ UNCHANGED buf
  \/ \E c \in Conns :
       ReadData(c) \/ ReadEof(c) \/ WriteUnit(c) \/ WriteError(c)

Listening == pc # "dead"

Next ==
  \/ SrvNext /\ UNCHANGED clivars
  \/ \E c \in Conns :
       (CliNext(c, Listening) \/ CliKill(c)) /\ UNCHANGED <<srvvars, buf>>
  \/ NetNext /\ UNCHANGED <<srvvars, buf, clivars>>

Spec == Init /\ [][Next]_vars

(***************************************************************************)
(* The scheduler runs every process that can run, the network delivers its *)
(* resets, and users go on typing until they end their input.              *)
(***************************************************************************)
FairSpec ==
  /\ Spec
  /\ WF_vars(SrvNext /\ UNCHANGED clivars)
  /\ WF_vars(NetNext /\ UNCHANGED <<srvvars, buf, clivars>>)
  /\ \A c \in Conns :
       WF_vars(CliNext(c, Listening) /\ UNCHANGED <<srvvars, buf>>)

-----------------------------------------------------------------------------
(***************************************************************************)
(* Nothing is lost, duplicated, reordered or sent to another client: on a  *)
(* connection without a reset, what the client has printed, what is on its *)
(* way back, what the server holds and what is on its way in is what the   *)
(* user typed, in that order.                                              *)
(***************************************************************************)
Held(c) ==
  IF pc = "write" /\ fdconn[client[i]] = c THEN buf ELSE <<>>

EchoStream ==
  pc # "dead" =>
    \A c \in Conns : ~rstS[c] /\ ~rstC[c] =>
      rcvd[c] \o s2c[c] \o Held(c) \o c2s[c] \o cbuf[c] = Typed(c)

(***************************************************************************)
(* A client that ends normally has been echoed everything its user typed:  *)
(* the half-close (select_strcli.c:34) loses no answer.                    *)
(***************************************************************************)
NormalMeansComplete ==
  \A c \in Conns : verdict[c] = "normal" /\ cause = "none" => rcvd[c] = Typed(c)

(***************************************************************************)
(* A client sees "server terminated prematurely" only when it did.         *)
(***************************************************************************)
PrematureOnlyIfDead ==
  \A c \in Conns : verdict[c] \in {"premature", "error"} => pc = "dead"

(***************************************************************************)
(* The server leaves its loop only when it is out of descriptors or slots, *)
(* or when some client was killed: no client that ends the way str_cli     *)
(* does can take the others down.                                          *)
(***************************************************************************)
ExitHasCause ==
  /\ cause \in {"read error", "writen error"} =>
       \E c \in Conns : verdict[c] = "killed"
  /\ cause = "too many clients" => OpenMax - ListenFd > FD_SETSIZE + 1

(***************************************************************************)
(* Server and client both blocked in Writen on the same connection: neither*)
(* reads, so neither will ever go on.                                      *)
(***************************************************************************)
Wedged(c) ==
  /\ pc = "write" /\ fdconn[client[i]] = c
  /\ ~rstS[c] /\ Len(s2c[c]) >= SockBuf
  /\ cpc[c] = "writen" /\ Len(c2s[c]) >= SockBuf

(***************************************************************************)
(* That takes a client with more unanswered units than both directions     *)
(* hold.                                                                   *)
(***************************************************************************)
WedgeNeedsFullPipe ==
  \A c \in Conns : Wedged(c) => typed[c] - Len(rcvd[c]) >= 2 * SockBuf + 2

(***************************************************************************)
(* Every client process ends: it is accepted however busy the server is,   *)
(* served, and gets its end of file; and when the server dies under it, it *)
(* learns of that.  Two peers blocked in Writen are the only way not to.   *)
(***************************************************************************)
EndsUnlessWedged ==
  \A c \in Conns : <>(cpc[c] = "exit" \/ \E d \in Conns : Wedged(d))

-----------------------------------------------------------------------------
(***************************************************************************)
(* What the service promises each client, seen from outside: see EchoPipe. *)
(***************************************************************************)
Phase(c) ==
  CASE verdict[c] = "none" -> "talking"
    [] verdict[c] = "normal" /\ rcvd[c] = Typed(c) -> "answered"
    [] OTHER -> "cut off"

Pipe == INSTANCE EchoPipe WITH
          Clients <- Conns,
          sent <- [c \in Conns |-> Typed(c)],
          got <- rcvd,
          phase <- [c \in Conns |-> Phase(c)]

\* The echo service implements the pipe.
ImplementsPipe == Pipe!Spec
=============================================================================
