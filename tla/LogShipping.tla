---------------------------- MODULE LogShipping ----------------------------
(***************************************************************************)
(* NLogger.php and FluentLogger.php: a PHP process buffers log messages and *)
(* ships them to fluentd over one TCP connection, which may break at any   *)
(* time.  Messages are numbered in the order of the calls of log(); each is *)
(* Pieces long, and fwrite may take any part of what is left of it.        *)
(***************************************************************************)
EXTENDS Naturals, Sequences, FiniteSets

CONSTANTS
  MaxLogs,          \* bound: calls of log()
  Pieces,           \* length of a packed message
  Threhold,         \* the configured threshold (the source's spelling)
  MAX_WRITE_RETRY

ASSUME LogAssumption ==
  /\ MaxLogs \in Nat /\ MAX_WRITE_RETRY \in Nat
  /\ Pieces \in Nat \ {0} /\ Threhold \in Nat \ {0}

VARIABLES
  pc,        \* "idle" between calls, "post", "write", "done" or "killed"
  ending,    \* the shutdown hook has run
  n,         \* calls of log() so far
  logs, log_times,
  at,        \* index of the foreach over logs
  written, retry,
  socket,    \* $socket: "none", "open", or "closed" (no longer a resource)
  result,    \* message -> what post() returned
  alive,     \* fluentd still has its end of the connection
  wire,      \* pieces on their way, in order
  decoder,   \* the piece fluentd has read last
  stored,    \* the messages fluentd has decoded
  reason     \* history: message -> why it may be missing

phpvars == <<ending, n, logs, log_times, at>>
postvars == <<written, retry, socket>>
netvars == <<alive, wire, decoder, stored>>
vars == <<pc, phpvars, postvars, result, netvars, reason>>

Msgs == 1 .. MaxLogs
Piece == Msgs \X (1 .. Pieces)
Start == <<0, Pieces>>   \* nothing read yet: a message may follow
Lost == <<0, 0>>         \* out of step with the messages
Reasons == {"link broke", "resumed elsewhere", "stream out of step"}

TypeOK ==
  /\ pc \in {"idle", "post", "write", "done", "killed"}
  /\ ending \in BOOLEAN /\ alive \in BOOLEAN
  /\ n \in 0 .. MaxLogs
  /\ logs \in Seq(Msgs) /\ Len(logs) <= Threhold
  /\ log_times = Len(logs)
  /\ at \in 0 .. Len(logs)
  /\ pc \in {"post", "write"} => at > 0
  /\ written \in 0 .. Pieces - 1
  /\ retry \in 0 .. MAX_WRITE_RETRY + 1
  /\ socket \in {"none", "open", "closed"}
  /\ result \in [Msgs -> {"none", "true", "false"}]
  /\ wire \in Seq(Piece)
  /\ decoder \in {Start, Lost} \cup Piece
  /\ stored \in Seq(Msgs)
  /\ reason \in [Msgs -> SUBSET Reasons]

Init ==
  /\ pc = "idle" /\ ending = FALSE /\ n = 0
  /\ logs = <<>> /\ log_times = 0 /\ at = 0
  /\ written = 0 /\ retry = 0 /\ socket = "none"
  /\ result = [m \in Msgs |-> "none"]
  /\ alive = FALSE /\ wire = <<>> /\ decoder = Start /\ stored = <<>>
  /\ reason = [m \in Msgs |-> {}]

-----------------------------------------------------------------------------
\* The message the foreach of flush() is at.
Current == logs[at]

Elements(s) == {s[k] : k \in DOMAIN s}

\* Add r to the reasons of the messages in S.
Blame(S, r) == [m \in Msgs |-> IF m \in S THEN reason[m] \cup {r} ELSE reason[m]]

\* flush(): on to the first message.
Flush == pc' = "post" /\ at' = 1

Due(times) == times >= Threhold

\* log(): buffer the message, and flush at the threshold or when forced.
Log(force) ==
  /\ pc = "idle" /\ ~ending
  /\ n < MaxLogs
  /\ n' = n + 1
  /\ logs' = Append(logs, n + 1)
  /\ log_times' = log_times + 1
  /\ IF Due(log_times + 1) \/ force THEN Flush ELSE UNCHANGED <<pc, at>>
  /\ UNCHANGED <<ending, postvars, result, netvars, reason>>

\* The end of the script: shutdown() flushes what is left.
Shutdown ==
  /\ pc = "idle" /\ ~ending
  /\ ending' = TRUE
  /\ IF log_times > 0 THEN Flush ELSE pc' = "done" /\ UNCHANGED at
  /\ UNCHANGED <<n, logs, log_times, postvars, result, netvars, reason>>

\* Mutant of EndFlush: the buffer is kept.
EndFlushKeeps ==
  /\ pc' = IF ending THEN "done" ELSE "idle"
  /\ at' = 0
  /\ UNCHANGED <<logs, log_times>>

\* The end of flush(): logs and log_times are reset.
EndFlush ==
  /\ pc' = IF ending THEN "done" ELSE "idle"
  /\ at' = 0
  /\ logs' = <<>> /\ log_times' = 0

\* post() returns r, which flush() ignores: on to the next message.
Return(r) ==
  /\ result' = [result EXCEPT ![Current] = r]
  /\ written' = 0 /\ retry' = 0
  /\ IF at < Len(logs) THEN /\ pc' = "post" /\ at' = at + 1
                            /\ UNCHANGED <<logs, log_times>>
                       ELSE EndFlush
  /\ UNCHANGED <<ending, n>>

\* connect() succeeds: a new stream for fluentd, whose decoder starts afresh.
Connect ==
  /\ socket' = "open" /\ alive' = TRUE
  /\ UNCHANGED <<wire, decoder, stored>>

\* The reconnect() at the head of post().
Reuse ==
  /\ pc = "post" /\ socket = "open"
  /\ pc' = "write"
  /\ UNCHANGED <<phpvars, postvars, result, netvars, reason>>

PostConnects ==
  /\ pc = "post" /\ socket # "open"
  /\ Connect
  /\ pc' = "write"
  /\ UNCHANGED <<phpvars, written, retry, result, reason>>

PostCannotConnect ==
  /\ pc = "post" /\ socket # "open"
  /\ Return("false")
  /\ UNCHANGED <<socket, netvars, reason>>

\* Mutant of Advance: what fwrite did not take is forgotten.
AdvanceToEnd(k) ==
  Return("true")

\* $written += $nwrite, and the test of the while loop.
Advance(k) ==
  IF written + k < Pieces
    THEN /\ written' = written + k
         /\ UNCHANGED <<pc, phpvars, retry, result>>
    ELSE Return("true")

\* fwrite takes k pieces.  They reach nobody if the other end is gone.
WriteSome(k) ==
  /\ pc = "write"
  /\ k \in 1 .. Pieces - written
  /\ wire' = IF alive THEN wire \o [p \in 1 .. k |-> <<Current, written + p>>]
                      ELSE wire
  /\ reason' = IF alive THEN reason ELSE Blame({Current}, "link broke")
  /\ Advance(k)
  /\ UNCHANGED <<socket, alive, decoder, stored>>

\* fwrite returns false: an exception; the socket stays open.
WriteFails ==
  /\ pc = "write"
  /\ Return("false")
  /\ UNCHANGED <<socket, netvars, reason>>

RetriesLeft == retry <= MAX_WRITE_RETRY

\* fwrite returns 0 more often than MAX_WRITE_RETRY allows.
WriteGivesUp ==
  /\ pc = "write"
  /\ ~RetriesLeft
  /\ Return("false")
  /\ UNCHANGED <<socket, netvars, reason>>

\* Mutant of CountRetry: the counter stays where it is.
CountRetryNot == retry' = retry

CountRetry == retry' = retry + 1

\* fwrite returns 0 and the last error is not errno=32.  The error is that of
\* this fwrite: PHP leaves one with every 0 it returns.
WriteZero ==
  /\ pc = "write"
  /\ RetriesLeft
  /\ CountRetry
  /\ UNCHANGED <<pc, phpvars, written, socket, result, netvars, reason>>

\* fwrite returns 0 and the last error is errno=32, broken pipe: close() and
\* reconnect().  $written is kept: the rest of the message follows on the new
\* connection.
BrokenPipe ==
  /\ pc = "write"
  /\ ~alive
  /\ RetriesLeft

PipeReconnects ==
  /\ BrokenPipe
  /\ Connect
  /\ CountRetry
  /\ reason' = IF written > 0 THEN Blame({Current}, "resumed elsewhere")
                              ELSE reason
  /\ UNCHANGED <<pc, phpvars, written, result>>

PipeStaysBroken ==
  /\ BrokenPipe
  /\ socket' = "closed"
  /\ Return("false")
  /\ UNCHANGED <<netvars, reason>>

Post ==
  \/ Reuse \/ PostConnects \/ PostCannotConnect
  \/ \E k \in 1 .. Pieces : WriteSome(k)
  \/ WriteFails \/ WriteGivesUp \/ WriteZero
  \/ PipeReconnects \/ PipeStaysBroken

\* The process is killed: no shutdown hook.  The kernel sends what it has.
Kill ==
  /\ pc \notin {"done", "killed"}
  /\ pc' = "killed"
  /\ UNCHANGED <<phpvars, postvars, result, netvars, reason>>

-----------------------------------------------------------------------------
\* A piece continues what the decoder has read.
InStep(p) ==
  \/ p[2] = 1 /\ decoder[2] = Pieces
  \/ p[2] > 1 /\ decoder = <<p[1], p[2] - 1>>

\* fluentd reads a piece.  Out of step it may find the start of a message
\* again, or take everything for parts of something else.
Deliver ==
  /\ wire # <<>>
  /\ LET p == Head(wire)
     IN \/ /\ InStep(p) \/ (decoder = Lost /\ p[2] = 1)
           /\ decoder' = p
           /\ stored' = IF p[2] = Pieces THEN Append(stored, p[1]) ELSE stored
           /\ UNCHANGED reason
        \/ /\ ~InStep(p)
           /\ decoder' = Lost
           /\ reason' = Blame({p[1]}, "stream out of step")
           /\ UNCHANGED stored
  /\ wire' = Tail(wire)
  /\ UNCHANGED <<pc, phpvars, postvars, result, alive>>

\* fluentd restarts or the network resets the connection.
Break ==
  /\ alive
  /\ alive' = FALSE
  /\ wire' = <<>> /\ decoder' = Start
  /\ reason' = Blame({p[1] : p \in Elements(wire)} \cup
                     (IF pc = "write" /\ written > 0 THEN {Current} ELSE {}),
                     "link broke")
  /\ UNCHANGED <<pc, phpvars, postvars, result, stored>>

Next ==
  \/ \E force \in BOOLEAN : Log(force)
  \/ Shutdown \/ Post \/ Kill \/ Deliver \/ Break

Spec == Init /\ [][Next]_vars

\* The process is scheduled and the script ends; sends arrive.
FairSpec == Spec /\ WF_vars(Post) /\ WF_vars(Shutdown) /\ WF_vars(Deliver)

-----------------------------------------------------------------------------
(***************************************************************************)
(* No message is stored twice and none overtakes another, whatever the     *)
(* connection does between and within the writes of FluentLogger::post.    *)
(***************************************************************************)
StoredOnceInOrder ==
  \A k \in 2 .. Len(stored) : stored[k - 1] < stored[k]

(***************************************************************************)
(* A message of which post() said true is stored or on its way, unless the *)
(* link broke under it, the rest of it went over a new connection          *)
(* (FluentLogger.php:294), or it came to a stream that some message before *)
(* it had left out of step: one that was continued so, or was given up half*)
(* way, after which post() leaves the socket open (FluentLogger.php:286).  *)
(***************************************************************************)
LeftHalfWay(m) == result[m] = "false" \/ "resumed elsewhere" \in reason[m]

TrueMeansShipped ==
  \A m \in Msgs :
    /\ result[m] = "true" =>
         m \in Elements(stored) \/ <<m, Pieces>> \in Elements(wire)
           \/ reason[m] # {}
    /\ "stream out of step" \in reason[m] => \E k \in 1 .. m : LeftHalfWay(k)

(***************************************************************************)
(* The retries of post() are bounded: unless it is killed the process ends *)
(* and every message has an answer, although fluentd is away for ever.     *)
(***************************************************************************)
EndsWithAnswers ==
  <>(\/ pc = "killed"
     \/ pc = "done" /\ \A m \in 1 .. n : result[m] # "none")
=============================================================================
