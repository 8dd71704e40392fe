------------------------------ MODULE FastCgi ------------------------------
(***************************************************************************)
(* fastcgi_server.c: threads that accept requests one at a time, answer    *)
(* with the input they read and with the counts of all threads.  The main  *)
(* thread runs the same loop, and its return ends the process.             *)
(*                                                                         *)
(* A buffer is a few cells; a cell holds the number of the request whose   *)
(* byte it is, Nul or Junk.                                                *)
(***************************************************************************)
EXTENDS Integers, FiniteSets

CONSTANTS
  THREAD_COUNT,
  MaxLine,      \* cells of input[]
  MaxReqs,      \* bound: requests the web server sends, in order
  Kinds         \* <<cells of the body, CONTENT_LENGTH>>; -1: not a parameter

ASSUME FastCgiAssumption ==
  /\ THREAD_COUNT \in Nat \ {0} /\ MaxLine \in Nat /\ MaxReqs \in Nat
  /\ Kinds \subseteq (0 .. MaxLine) \X ({-1} \cup Nat)

VARIABLES
  tpc,            \* thread -> its next step
  cause,          \* why the process ended, "none" while it runs
  accept_mutex, counts_mutex,   \* the thread that holds it, or Free
  counts,
  req,            \* thread -> the request in its FCGX_Request, 0 for none
  input,          \* thread -> its buffer, kept from request to request
  i,              \* thread -> index of its loop over counts
  kind, status,   \* request -> what it is, how far it got
  foreign,        \* request -> cells in its answer that are not its own
  printed         \* request -> the counts in its answer

vars == <<tpc, cause, accept_mutex, counts_mutex, counts, req, input, i,
          kind, status, foreign, printed>>

Threads == 0 .. THREAD_COUNT - 1
Main == 0
Free == -1
Cells == 0 .. MaxLine - 1
Reqs == 1 .. MaxReqs
Nul == 0
Junk == -1
Unseen == <<0, 1>>   \* the kind of a request before it is accepted

TypeOK ==
  /\ tpc \in [Threads -> {"lock", "accept", "read", "count", "print", "finish",
                          "ended"}]
  /\ cause \in {"none", "main returned", "no length", "wild write"}
  /\ accept_mutex \in {Free} \cup Threads /\ counts_mutex \in {Free} \cup Threads
  /\ \A t \in Threads : /\ accept_mutex = t <=> tpc[t] = "accept"
                        /\ counts_mutex = t <=> tpc[t] = "print"
                        /\ tpc[t] \in {"read", "count", "print", "finish"} =>
                             req[t] \in Reqs
  /\ counts \in [Threads -> Nat]
  /\ req \in [Threads -> 0 .. MaxReqs]
  /\ input \in [Threads -> [Cells -> {Nul, Junk} \cup Reqs]]
  /\ i \in [Threads -> Threads]
  /\ kind \in [Reqs -> Kinds \cup {Unseen}]
  /\ status \in [Reqs -> {"waiting", "accepted", "counted", "finished"}]
  /\ foreign \in [Reqs -> SUBSET ({Junk} \cup Reqs)]
  /\ printed \in [Reqs -> [Threads -> Nat]]

\* The stack of a new thread holds zeros or something else.
Init ==
  /\ tpc = [t \in Threads |-> "lock"] /\ cause = "none"
  /\ accept_mutex = Free /\ counts_mutex = Free
  /\ counts = [t \in Threads |-> 0]
  /\ req = [t \in Threads |-> 0] /\ i = [t \in Threads |-> 0]
  /\ \E c \in {Nul, Junk} : input = [t \in Threads |-> [k \in Cells |-> c]]
  /\ kind = [r \in Reqs |-> Unseen]
  /\ status = [r \in Reqs |-> "waiting"]
  /\ foreign = [r \in Reqs |-> {}]
  /\ printed = [r \in Reqs |-> [t \in Threads |-> 0]]

Running == cause = "none"
At(t, where) == Running /\ tpc[t] = where
Goto(t, where) == tpc' = [tpc EXCEPT ![t] = where]

-----------------------------------------------------------------------------
LockAccept(t) ==
  /\ At(t, "lock")
  /\ accept_mutex = Free
  /\ accept_mutex' = t
  /\ Goto(t, "accept")
  /\ UNCHANGED <<cause, counts_mutex, counts, req, input, i, kind, status,
                 foreign, printed>>

\* FCGX_Accept_r returns with a request, and the mutex is released.
Accept(t) ==
  /\ At(t, "accept")
  /\ \E r \in Reqs, d \in Kinds :
       /\ status[r] = "waiting"
       /\ \A q \in 1 .. r - 1 : status[q] # "waiting"
       /\ kind' = [kind EXCEPT ![r] = d]
       /\ req' = [req EXCEPT ![t] = r]
       /\ status' = [status EXCEPT ![r] = "accepted"]
  /\ accept_mutex' = Free
  /\ Goto(t, "read")
  /\ UNCHANGED <<cause, counts_mutex, counts, input, i, foreign,
                 printed>>

\* The end of doit(): of a thread, or of main and so of the process.
Leaves(t) == cause' = IF t = Main THEN "main returned" ELSE cause

\* Mutant of AcceptFails: the break comes before the unlock.
AcceptFailsLocked(t) ==
  /\ At(t, "accept")
  /\ Goto(t, "ended")
  /\ Leaves(t)
  /\ UNCHANGED <<accept_mutex, counts_mutex, counts, req, input, i, kind, status,
                 foreign, printed>>

\* FCGX_Accept_r fails: rc < 0, break.
AcceptFails(t) ==
  /\ At(t, "accept")
  /\ accept_mutex' = Free
  /\ Goto(t, "ended")
  /\ Leaves(t)
  /\ UNCHANGED <<counts_mutex, counts, req, input, i, kind, status,
                 foreign, printed>>

\* strtol of a null pointer: the process is killed.
NoLength(t) ==
  /\ At(t, "read")
  /\ kind[req[t]][2] = -1
  /\ cause' = "no length"
  /\ UNCHANGED <<tpc, accept_mutex, counts_mutex, counts, req, input, i, kind, status, foreign, printed>>

\* FCGX_GetStr: the first n cells are request r's.
GetStr(buf, r, n) == [k \in Cells |-> IF k < n THEN r ELSE buf[k]]

\* Mutant of Terminate: no terminator.
TerminateNot(buf, len) == buf

\* input[len-1] = '\0', where that is in the buffer.
Terminate(buf, len) == [k \in Cells |-> IF k = len - 1 THEN Nul ELSE buf[k]]

\* What %s prints: the cells up to the first Nul.
Shown(buf) == {buf[k] : k \in {c \in Cells : \A e \in 0 .. c : buf[e] # Nul}}

Wild(len) == len = 0 \/ len > MaxLine

\* Read the input and print the first part of the answer.
Read(t) ==
  /\ At(t, "read")
  /\ kind[req[t]][2] # -1
  /\ LET r == req[t]
         b == Terminate(GetStr(input[t], r, kind[r][1]), kind[r][2])
     IN /\ input' = [input EXCEPT ![t] = b]
        /\ foreign' = [foreign EXCEPT ![r] = Shown(b) \ {r}]
  /\ Goto(t, "count")
  /\ UNCHANGED <<cause, accept_mutex, counts_mutex, counts, req, i, kind,
                 status, printed>>

\* The byte outside the buffer may be one the process cannot do without.
WildWrite(t) ==
  /\ At(t, "read")
  /\ Wild(kind[req[t]][2])
  /\ cause' = "wild write"
  /\ UNCHANGED <<tpc, accept_mutex, counts_mutex, counts, req, input, i, kind, status, foreign, printed>>

\* Mutant of CountsFree: the mutex is not waited for.
CountsFreeAlways == TRUE

CountsFree == counts_mutex = Free

\* Lock, and ++counts[thread_id].
Count(t) ==
  /\ At(t, "count")
  /\ CountsFree
  /\ counts_mutex' = t
  /\ counts' = [counts EXCEPT ![t] = @ + 1]
  /\ Goto(t, "print")
  /\ UNCHANGED <<cause, accept_mutex, req, input, i, kind, status, foreign,
                 printed>>

\* Mutant of UnlockCounts: the mutex is kept.
UnlockCountsNot == UNCHANGED counts_mutex

UnlockCounts == counts_mutex' = Free

\* One turn of the loop over counts; unlock after the last.
PrintCount(t) ==
  /\ At(t, "print")
  /\ printed' = [printed EXCEPT ![req[t]][i[t]] = counts[i[t]]]
  /\ IF i[t] + 1 < THREAD_COUNT
       THEN /\ i' = [i EXCEPT ![t] = @ + 1]
            /\ UNCHANGED <<tpc, counts_mutex, status>>
       ELSE /\ UnlockCounts
            /\ status' = [status EXCEPT ![req[t]] = "counted"]
            /\ Goto(t, "finish")
            /\ i' = [i EXCEPT ![t] = 0]
  /\ UNCHANGED <<cause, accept_mutex, counts, req, input, kind, foreign>>

\* FCGX_Finish_r frees the request.
Finish(t) ==
  /\ At(t, "finish")
  /\ req' = [req EXCEPT ![t] = 0]
  /\ status' = [status EXCEPT ![req[t]] = "finished"]
  /\ Goto(t, "lock")
  /\ UNCHANGED <<cause, accept_mutex, counts_mutex, counts, input, i, kind, foreign, printed>>

Serve(t) ==
  \/ LockAccept(t) \/ Accept(t) \/ NoLength(t) \/ Read(t) \/ WildWrite(t)
  \/ Count(t) \/ PrintCount(t) \/ Finish(t)

Next == \E t \in Threads : Serve(t) \/ AcceptFails(t)

Spec == Init /\ [][Next]_vars

\* Every thread is scheduled and the web server sends on; accept need not fail.
FairSpec == Spec /\ \A t \in Threads : WF_vars(Serve(t))

-----------------------------------------------------------------------------
(***************************************************************************)
(* The counts in any two answers differ and one is nowhere behind the      *)
(* other: every answer shows one moment of a common history, although the  *)
(* threads print entry by entry (fastcgi_server.c:94).                     *)
(***************************************************************************)
AnswersTellOrder ==
  \A r, q \in {p \in Reqs : status[p] \in {"counted", "finished"}} : r # q =>
    /\ printed[r] # printed[q]
    /\ \/ \A t \in Threads : printed[r][t] <= printed[q][t]
       \/ \A t \in Threads : printed[q][t] <= printed[r][t]

(***************************************************************************)
(* input[] outlives the request: an answer shows bytes of an earlier       *)
(* request of the thread, or of the stack, only if the announced length is *)
(* 0 (a GET), outside the buffer, or more than a byte beyond what was read.*)
(***************************************************************************)
ForeignBytesHaveCause ==
  \A r \in Reqs : foreign[r] # {} =>
    Wild(kind[r][2]) \/ kind[r][2] > kind[r][1] + 1

(***************************************************************************)
(* What was accepted is answered, unless the process ends: no thread waits *)
(* for ever for a mutex.                                                   *)
(***************************************************************************)
AcceptedAreAnswered ==
  \A r \in Reqs : status[r] = "accepted" ~> (status[r] = "finished" \/ ~Running)

(***************************************************************************)
(* No request waits for ever to be accepted, unless the process ends: all  *)
(* threads queue for accept_mutex, one of them blocks in FCGX_Accept_r     *)
(* with it held, and any of them but main may leave the loop for good at   *)
(* the break of fastcgi_server.c:50 while the others go on.                *)
(***************************************************************************)
WaitingAreAccepted ==
  <>(~Running \/ \A r \in Reqs : status[r] # "waiting")
=============================================================================
