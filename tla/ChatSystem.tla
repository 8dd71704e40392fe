----------------------------- MODULE ChatSystem -----------------------------
(***************************************************************************)
(* chatserver.c with the clients of chatclient.c: what one client types is *)
(* written to every other client.  The server is selectserver.c with       *)
(* another use of what was read; here buf is all of what the last Read     *)
(* returned.                                                               *)
(***************************************************************************)
EXTENDS EchoSystem

CONSTANT
  Silent    \* the numbers of the units that start with a NUL byte

VARIABLES
  j,        \* the slot the broadcast is at
  left,     \* what is left of buf for that slot
  heard     \* history: per client, the units read from others while it was
            \* in the table, in the order the server read them

tellvars == <<j, left, heard>>
chatvars == <<vars, tellvars>>

ChatInit ==
  /\ Init
  /\ left = <<>> /\ j = 0
  /\ heard = [c \in Conns |-> <<>>]

-----------------------------------------------------------------------------
\* strlen(buf) > 0: the first byte just read is not NUL.
Audible(b) == b[1][2] \notin Silent

\* The clients other than c that the server holds.
Others(c) == {fdconn[client[k]] : k \in Taken} \ {c}

ChatReadData(c) ==
  /\ ReadData(c)
  /\ left' = buf'
  /\ j' = 0
  /\ heard' = [d \in Conns |->
                 IF d \in Others(c) /\ Audible(buf') THEN heard[d] \o buf'
                                                     ELSE heard[d]]

ChatReadEof(c) == ReadEof(c) /\ UNCHANGED tellvars

\* Slot j gets the buffer.
Addressed == client[j] > 0 /\ i # j /\ Audible(buf)

\* Mutant of NextSlot: j < maxi where j <= maxi was meant.
NextSlotStopsEarly ==
  /\ left' = buf
  /\ j' = j + 1
  /\ IF j + 1 >= maxi THEN NextReady ELSE UNCHANGED <<pc, i, nready>>

\* j++, and after the last slot on to the next ready descriptor.
NextSlot ==
  /\ left' = buf
  /\ j' = j + 1
  /\ IF j + 1 > maxi THEN NextReady ELSE UNCHANGED <<pc, i, nready>>

PassOver ==
  /\ pc = "write"
  /\ ~Addressed
  /\ NextSlot
  /\ UNCHANGED <<rset, cause, tabvars, buf, heard, netvars>>

ChatWriteUnit(c) ==
  /\ pc = "write"
  /\ Addressed
  /\ c = fdconn[client[j]]
  /\ ~rstS[c]
  /\ Len(s2c[c]) < SockBuf
  /\ s2c' = [s2c EXCEPT ![c] = Append(@, Head(left))]
  /\ IF Len(left) > 1 THEN left' = Tail(left) /\ UNCHANGED <<j, pc, i, nready>>
                      ELSE NextSlot
  /\ UNCHANGED <<rset, cause, tabvars, buf, heard, listenq, cend, send, c2s,
                 rstS, rstC>>

ChatWriteError(c) ==
  /\ pc = "write"
  /\ Addressed
  /\ c = fdconn[client[j]]
  /\ rstS[c]
  /\ SrvExit("writen error")
  /\ UNCHANGED <<buf, tellvars>>

ChatSrvNext ==
  \/ /\ \/ Select \/ AcceptClient \/ AcceptError \/ TooManyClients \/ SkipSlot
        \/ \E c \in Conns : ReadError(c)
     /\ UNCHANGED <<buf, tellvars>>
  \/ PassOver
  \/ \E c \in Conns :
       \/ ChatReadData(c) \/ ChatReadEof(c)
       \/ ChatWriteUnit(c) \/ ChatWriteError(c)

\* The str_cli of chat_strcli.c, which only adds a prompt of its own.
ChatCli(c) == CliNext(c, Listening) /\ UNCHANGED <<srvvars, buf, tellvars>>

ChatNext ==
  \/ ChatSrvNext /\ UNCHANGED clivars
  \/ \E c \in Conns : ChatCli(c)
  \/ \E c \in Conns : CliKill(c) /\ UNCHANGED <<srvvars, buf, tellvars>>
  \/ NetNext /\ UNCHANGED <<srvvars, buf, tellvars, clivars>>

ChatSpec == ChatInit /\ [][ChatNext]_chatvars

\* As for the echo service: fair scheduling, resets arrive, users type on.
ChatFairSpec ==
  /\ ChatSpec
  /\ WF_chatvars(ChatSrvNext /\ UNCHANGED clivars)
  /\ WF_chatvars(NetNext /\ UNCHANGED <<srvvars, buf, tellvars, clivars>>)
  /\ \A c \in Conns : WF_chatvars(ChatCli(c))

-----------------------------------------------------------------------------
\* The part of the broadcast in progress that client d has still to get.
Owed(d) ==
  IF pc # "write" \/ ~Audible(buf) THEN <<>>
  ELSE IF \E k \in Taken : k > j /\ k # i /\ fdconn[client[k]] = d THEN buf
  ELSE IF client[j] > 0 /\ j # i /\ fdconn[client[j]] = d THEN left
  ELSE <<>>

(***************************************************************************)
(* Everyone else in the room hears everything, once, in the order in which *)
(* the server read it, and nobody hears himself (the comment of            *)
(* chatserver.c:77): what a client was sent is exactly what the server     *)
(* read from others since it was accepted, less what it is about to write. *)
(***************************************************************************)
EveryoneElseHears ==
  pc # "dead" =>
    \A d \in Conns : ~rstS[d] /\ ~rstC[d] =>
      rcvd[d] \o s2c[d] \o Owed(d) = heard[d]

(***************************************************************************)
(* A client that leaves the way str_cli does takes nobody down: the server *)
(* is only stopped by its limits or by a client that was killed.           *)
(***************************************************************************)
RoomSurvivesLeaving ==
  cause \in {"read error", "writen error"} =>
    \E c \in Conns : verdict[c] = "killed"

(***************************************************************************)
(* The server is blocked writing to a client that is blocked writing to it.*)
(***************************************************************************)
ChatWedged(c) ==
  /\ pc = "write" /\ Addressed /\ fdconn[client[j]] = c
  /\ ~rstS[c] /\ Len(s2c[c]) >= SockBuf
  /\ cpc[c] = "writen" /\ Len(c2s[c]) >= SockBuf

(***************************************************************************)
(* Every client process can leave the room, however slowly the others read,*)
(* unless the server is wedged on one of them.                             *)
(***************************************************************************)
EveryoneCanLeave ==
  \A c \in Conns : <>(cpc[c] = "exit" \/ \E d \in Conns : ChatWedged(d))
=============================================================================
