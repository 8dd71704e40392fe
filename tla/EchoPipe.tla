------------------------------ MODULE EchoPipe ------------------------------
(***************************************************************************)
(* What an echo service promises, with no server in sight: what a client   *)
(* gets back is at any time a prefix of what it sent, and a client that is *)
(* answered in full stops there.  A client may also be cut off, by its own *)
(* death or the server's.                                                  *)
(***************************************************************************)
EXTENDS Integers, Sequences

CONSTANT Clients

VARIABLES sent, got, phase

pipevars == <<sent, got, phase>>

IsPrefixOf(s, t) == Len(s) <= Len(t) /\ \A k \in 1 .. Len(s) : s[k] = t[k]

Init ==
  /\ sent = [c \in Clients |-> <<>>]
  /\ got = [c \in Clients |-> <<>>]
  /\ phase = [c \in Clients |-> "talking"]

\* The user of c types some more.
Send(c) ==
  /\ phase[c] = "talking"
  /\ IsPrefixOf(sent[c], sent'[c])
  /\ sent' = [sent EXCEPT ![c] = sent'[c]]
  /\ UNCHANGED <<got, phase>>

\* Some more of what c sent comes back.
Receive(c) ==
  /\ phase[c] = "talking"
  /\ \E n \in Len(got[c]) .. Len(sent[c]) :
       got' = [got EXCEPT ![c] = SubSeq(sent[c], 1, n)]
  /\ UNCHANGED <<sent, phase>>

\* c ends with everything answered, or is cut off.
Finish(c) ==
  /\ phase[c] = "talking"
  /\ \/ got[c] = sent[c] /\ phase' = [phase EXCEPT ![c] = "answered"]
     \/ phase' = [phase EXCEPT ![c] = "cut off"]
  /\ UNCHANGED <<sent, got>>

Next == \E c \in Clients : Send(c) \/ Receive(c) \/ Finish(c)

Spec == Init /\ [][Next]_pipevars
=============================================================================
