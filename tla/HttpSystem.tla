----------------------------- MODULE HttpSystem -----------------------------
(***************************************************************************)
(* httpserver.c: the select loop, answering the first bufferful of every   *)
(* connection with a 404 and closing it.  What happens to that bufferful   *)
(* in the parser is in HttpRequest; here it matters which bytes it gets.   *)
(*                                                                         *)
(* The user agents are not in the repository: a connection sends a request *)
(* of ReqLen units, waits for the answer and closes; a hasty one may close *)
(* at any time.  A request need not be a good one.                         *)
(***************************************************************************)
EXTENDS SelectLoop

CONSTANTS
  ReqLen,   \* units of a request
  Hasty,    \* the agents that may give up at any time
  Split,    \* those whose first unit ends before the URL does
  Malformed,  \* those whose request the parser refuses before the URL's end
  Nul       \* the units of requests that begin with a NUL byte

ASSUME HttpAssumption ==
  /\ ReqLen \in Nat \ {0}
  /\ Hasty \subseteq Conns /\ Split \subseteq Conns
  /\ Malformed \subseteq Conns
  /\ Nul \subseteq Conns \X (Nat \ {0})

VARIABLES
  sockfd,   \* the descriptor being served, also after it was closed
  buf,      \* the server's buffer; it is not cleared between requests
  text,     \* what http_parser_execute is given
  upc,      \* the next step of the agent
  sent,     \* units of the request the agent has written
  got,      \* answers it has read
  fate,     \* how it ended
  seen      \* history: units of the agent's request the server has read

httpvars == <<sockfd, buf, text, seen>>
uavars == <<upc, sent, got, fate>>
vars == <<srvvars, httpvars, netvars, uavars>>

Junk == <<"junk", 0>>   \* an uninitialised part of buf

Init ==
  /\ LoopInit /\ NetInit
  /\ sockfd = -1
  /\ buf = [k \in 1 .. MaxLine |-> Junk]
  /\ text = <<>>
  /\ upc = [c \in Conns |-> "connect"]
  /\ sent = [c \in Conns |-> 0]
  /\ got = [c \in Conns |-> 0]
  /\ fate = [c \in Conns |-> "none"]
  /\ seen = [c \in Conns |-> 0]

-----------------------------------------------------------------------------
(* The server.                                                             *)

(* strlen(buf) stops at the first NUL: that of a request, or one in what   *)
(* was never written.  What it may read beyond the end of buf is left out. *)
FirstNul(b) ==
  {n \in 0 .. MaxLine :
     /\ \A k \in 1 .. n : b[k] \notin Nul
     /\ n < MaxLine => b[n + 1] \in Nul \cup {Junk}}

\* Mutant of Strlen: one short, as if the last byte were the newline.
StrlenShort(b) == {IF n = 0 THEN 0 ELSE n - 1 : n \in FirstNul(b)}

Strlen(b) == FirstNul(b)

(* url_cb, which sets the method, is called at the end of a URL that the   *)
(* parser accepts.  Of a text that stops short of it, or goes on with what *)
(* another connection left, nothing is known.                              *)
HasUrl(t) ==
  /\ t # <<>> /\ t[1] # Junk
  /\ t[1][1] \notin Malformed
  /\ \/ t[1][1] \notin Split
     \/ Len(t) > 1 /\ t[2] = <<t[1][1], 2>>

ReadData(c) ==
  /\ Reading(c)
  /\ c2s[c] # <<>>
  /\ LET n == Lesser(MaxLine, Len(c2s[c]))
     IN /\ buf' = Take(c2s[c], n) \o Drop(buf, n)
        /\ c2s' = [c2s EXCEPT ![c] = Drop(@, n)]
        /\ seen' = [seen EXCEPT ![c] = @ + n]
  /\ \E len \in Strlen(buf') : text' = Take(buf', len)
  /\ sockfd' = client[i]
  /\ pc' = "write"
  /\ UNCHANGED <<i, rset, nready, cause, tabvars, listenq, cend, send, s2c,
                 rstS, rstC>>

(* The else of httpserver.c:272 covers one statement only, so that after   *)
(* the end of a connection the rest is done as well.                       *)
ReadEof(c) ==
  /\ Reading(c)
  /\ AtEof(c)
  /\ CloseClient(c)
  /\ \E len \in Strlen(buf) : text' = Take(buf, len)
  /\ sockfd' = client[i]
  /\ pc' = "write"
  /\ UNCHANGED <<i, rset, nready, cause, maxi, maxfd, buf, seen, listenq,
                 cend, c2s, s2c, rstS, rstC>>

(* printf of a method that was never set may crash, or print garbage and   *)
(* go on to Respond.                                                       *)
BadMethod ==
  /\ pc = "write"
  /\ ~HasUrl(text)
  /\ SrvExit("bad method")
  /\ UNCHANGED httpvars

\* Mutant of Answered: nothing is written.
AnsweredNot(c) == s2c[c]

\* The 404 response goes out.
Answered(c) == Append(s2c[c], <<c, 1>>)

\* Mutant of HangUp: the connection stays open for another request.
HangUpNot(c) == UNCHANGED <<fdconn, allset, client, send>>

HangUp(c) == CloseClient(c)

(* Writen(sockfd, response, ...), one unit on an empty direction, then     *)
(* Close, FD_CLR and client[i] = -1.                                       *)
Respond(c) ==
  /\ pc = "write"
  /\ sockfd \in ConnFds /\ fdconn[sockfd] = c /\ ~rstS[c]
  /\ Len(s2c[c]) < SockBuf
  /\ s2c' = [s2c EXCEPT ![c] = Answered(c)]
  /\ HangUp(c)
  /\ NextReady
  /\ UNCHANGED <<rset, cause, maxi, maxfd, httpvars, listenq, cend, c2s,
                 rstS, rstC>>

(* Writen to a descriptor that was closed, or to a connection that was     *)
(* reset, leaves through err_sys.                                          *)
WriteError ==
  /\ pc = "write"
  /\ fdconn[sockfd] # NoConn => rstS[fdconn[sockfd]]
  /\ SrvExit("writen error")
  /\ UNCHANGED httpvars

SrvNext ==
  \/ /\ \/ Select \/ AcceptClient \/ AcceptError \/ TooManyClients \/ SkipSlot
        \/ \E c \in Conns : ReadError(c)
     /\ UNCHANGED httpvars
  \/ \E c \in Conns : ReadData(c) \/ ReadEof(c) \/ Respond(c)
  \/ BadMethod
  \/ WriteError

-----------------------------------------------------------------------------
(* The user agents.                                                        *)

UaConnect(c) ==
  /\ upc[c] = "connect"
  /\ pc # "dead"
  /\ Len(listenq) < Backlog
  /\ listenq' = Append(listenq, c)
  /\ cend' = [cend EXCEPT ![c] = "open"]
  /\ send' = [send EXCEPT ![c] = "open"]
  /\ upc' = [upc EXCEPT ![c] = "send"]
  /\ UNCHANGED <<c2s, s2c, rstS, rstC, sent, got, fate>>

UaEnd(c, how) ==
  /\ upc' = [upc EXCEPT ![c] = "done"]
  /\ fate' = [fate EXCEPT ![c] = how]
  /\ cend' = [cend EXCEPT ![c] = IF @ = "none" THEN "none" ELSE "closed"]
  /\ UNCHANGED <<listenq, send, c2s, rstS, rstC, sent>>

UaSend(c) ==
  /\ upc[c] = "send"
  /\ ~rstC[c]
  /\ Len(c2s[c]) < SockBuf
  /\ c2s' = [c2s EXCEPT ![c] = Append(@, <<c, sent[c] + 1>>)]
  /\ sent' = [sent EXCEPT ![c] = @ + 1]
  /\ upc' = [upc EXCEPT ![c] = IF sent[c] + 1 = ReqLen THEN "wait" ELSE "send"]
  /\ UNCHANGED <<listenq, cend, send, s2c, rstS, rstC, got, fate>>

UaRead(c) ==
  /\ upc[c] = "wait"
  /\ s2c[c] # <<>>
  /\ got' = [got EXCEPT ![c] = @ + Len(s2c[c])]
  /\ s2c' = [s2c EXCEPT ![c] = <<>>]
  /\ UaEnd(c, "answered")

UaFail(c) ==
  /\ \/ upc[c] = "connect" /\ pc = "dead"
     \/ upc[c] = "send" /\ rstC[c]
     \/ upc[c] = "wait" /\ s2c[c] = <<>> /\ CliReadable(c)
  /\ UaEnd(c, IF rstC[c] THEN "reset" ELSE "no answer")
  /\ UNCHANGED <<s2c, got>>

UaGiveUp(c) ==
  /\ c \in Hasty
  /\ upc[c] \in {"send", "wait"}
  /\ UaEnd(c, "gave up")
  /\ UNCHANGED <<s2c, got>>

UaNext(c) == UaConnect(c) \/ UaSend(c) \/ UaRead(c) \/ UaFail(c)

Next ==
  \/ SrvNext /\ UNCHANGED uavars
  \/ \E c \in Conns :
       (UaNext(c) \/ UaGiveUp(c)) /\ UNCHANGED <<srvvars, httpvars>>
  \/ NetNext /\ UNCHANGED <<srvvars, httpvars, uavars>>

Spec == Init /\ [][Next]_vars

\* Fair scheduling of the processes, and resets arrive.
FairSpec ==
  /\ Spec
  /\ WF_vars(SrvNext /\ UNCHANGED uavars)
  /\ WF_vars(NetNext /\ UNCHANGED <<srvvars, httpvars, uavars>>)
  /\ \A c \in Conns : WF_vars(UaNext(c) /\ UNCHANGED <<srvvars, httpvars>>)

-----------------------------------------------------------------------------
\* The agents whose request may leave the method unset.
NoMethod == {c \in Conns : c \in Split \cup Malformed \/ <<c, 1>> \in Nul}

(***************************************************************************)
(* The server is only brought down by its limits, by an agent that closed  *)
(* before the server had read anything from it, or by a request the parser *)
(* finds no URL in: a request line that is cut or malformed, or a text     *)
(* that starts with a NUL (httpserver.c:276-285).  It leaves through Writen*)
(* for the first of these only, and never through Read.                    *)
(***************************************************************************)
DeathHasCause ==
  /\ cause = "writen error" =>
       \E c \in Conns : fate[c] = "gave up" /\ seen[c] = 0
  /\ cause = "bad method" =>
       \/ \E c \in NoMethod : sent[c] > 0
       \/ \E c \in Conns : fate[c] = "gave up" /\ seen[c] = 0
  /\ cause # "read error"

(***************************************************************************)
(* Every agent whose whole request the server read, and that waits, gets   *)
(* the answer: only a request of which something was left unread when the  *)
(* server closed can be answered by a reset (httpserver.c:293).  Nobody is *)
(* answered twice, or without having sent anything.                        *)
(***************************************************************************)
WholeRequestAnswered ==
  \A c \in Conns :
    /\ fate[c] \in {"no answer", "reset"} => pc = "dead" \/ seen[c] < sent[c]
    /\ got[c] + Len(s2c[c]) <= (IF seen[c] > 0 THEN 1 ELSE 0)

(***************************************************************************)
(* Every agent comes to an end: answered, reset or told the server is gone.*)
(***************************************************************************)
EveryAgentEnds == \A c \in Conns : <>(upc[c] = "done")

\* The units of what was read from c that begin with a NUL.
Cuts(c) == {k \in 1 .. seen[c] : <<c, k>> \in Nul}

(***************************************************************************)
(* What http_parser_execute is given starts with what was just read, in    *)
(* its place and up to the first NUL: the length is strlen(buf), not n     *)
(* (httpserver.c:281).  Without a NUL it is whole, and what earlier        *)
(* connections left in the buffer, which is never cleared, comes behind it;*)
(* with one nothing of theirs is in the text.                              *)
(***************************************************************************)
OwnBytesFirst ==
  \A c \in Conns :
    pc = "write" /\ fdconn[sockfd] = c =>
      /\ \A k \in 1 .. seen[c] :
           (\A j \in Cuts(c) : k < j) => k <= Len(text) /\ text[k] = <<c, k>>
      /\ Cuts(c) # {} => \A k \in 1 .. Len(text) : text[k] = <<c, k>>
=============================================================================
