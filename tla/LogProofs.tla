------------------------------ MODULE LogProofs ------------------------------
(***************************************************************************)
(* What NLogger and FluentLogger promise for any number and length of      *)
(* messages, any threshold and any number of retries: both invariants of   *)
(* LogShipping, from one inductive invariant.                              *)
(***************************************************************************)
EXTENDS LogShipping, Integers, SequenceTheorems, TLAPS

Posting == pc \in {"post", "write"}
Active == pc \in {"idle", "post", "write"}

\* The messages up to Base have their answer; the next one is Base + 1.
Base == IF Posting THEN n + at - Len(logs) - 1 ELSE n - Len(logs)

\* What is buffered are the last messages, in order.
Numbered ==
  /\ Len(logs) <= n
  /\ \A x \in 1 .. Len(logs) : logs[x] = n - Len(logs) + x
  /\ pc = "idle" => Len(logs) < Threhold
  /\ pc # "write" /\ Active => written = 0
  /\ Active => \A m \in Msgs : Base < m => result[m] = "none"

\* Piece q comes behind p.
Before(p, q) == p[1] < q[1] \/ (p[1] = q[1] /\ p[2] < q[2])

\* Pieces travel in the order they are written, behind what is stored.
Ordered ==
  /\ \A a, b \in 1 .. Len(wire) : a < b => Before(wire[a], wire[b])
  /\ \A a \in 1 .. Len(wire), x \in 1 .. Len(stored) : stored[x] < wire[a][1]
  /\ Active => \A a \in 1 .. Len(wire) : Before(wire[a], <<Base + 1, written + 1>>)
  /\ Active => \A x \in 1 .. Len(stored) : stored[x] <= Base

\* p continues a stream of which d was the last piece.
Follows(d, p) ==
  \/ p[2] = 1 /\ d[2] = Pieces
  \/ p[2] > 1 /\ d = <<p[1], p[2] - 1>>

\* A message up to m was left half way.
Excuse(m) == \E x \in Msgs : x <= m /\ LeftHalfWay(x)

\* The piece before the one at a.
Prev(a) == IF a = 1 THEN decoder ELSE wire[a - 1]

\* Every piece, the next one to be written too, continues the stream or comes
\* behind a message that was left half way.
Linked ==
  /\ \A a \in 1 .. Len(wire) : Follows(Prev(a), wire[a]) \/ Excuse(wire[a][1])
  /\ alive /\ Active =>
       \/ Follows(Prev(Len(wire) + 1), <<Base + 1, written + 1>>)
       \/ Excuse(Base + 1)
  /\ ~alive => wire = <<>> /\ decoder = Start

LInd ==
  /\ TypeOK /\ Numbered /\ Ordered /\ Linked
  /\ StoredOnceInOrder /\ TrueMeansShipped

-----------------------------------------------------------------------------
(* The two halves of the type invariant: the process, and the rest.        *)

PhpTypes ==
  /\ pc \in {"idle", "post", "write", "done", "killed"}
  /\ ending \in BOOLEAN
  /\ n \in 0 .. MaxLogs
  /\ logs \in Seq(Msgs) /\ Len(logs) <= Threhold
  /\ log_times = Len(logs)
  /\ at \in 0 .. Len(logs)
  /\ pc \in {"post", "write"} => at > 0
  /\ written \in 0 .. Pieces - 1
  /\ retry \in 0 .. MAX_WRITE_RETRY + 1
  /\ result \in [Msgs -> {"none", "true", "false"}]

NetTypes ==
  /\ alive \in BOOLEAN
  /\ socket \in {"none", "open", "closed"}
  /\ wire \in Seq(Piece)
  /\ decoder \in {Start, Lost} \cup Piece
  /\ stored \in Seq(Msgs)
  /\ reason \in [Msgs -> SUBSET Reasons]

LEMMA TypesAre == TypeOK <=> PhpTypes /\ NetTypes
BY DEF TypeOK, PhpTypes, NetTypes

LEMMA TypesAreNext == TypeOK' <=> PhpTypes' /\ NetTypes'
BY DEF TypeOK, PhpTypes, NetTypes

LEMMA InitLInd == Init => LInd
<1> SUFFICES ASSUME Init PROVE LInd
  OBVIOUS
<1>3. /\ Len(logs) = 0 /\ Len(wire) = 0 /\ Len(stored) = 0
      /\ logs \in Seq(Msgs) /\ wire \in Seq(Piece) /\ stored \in Seq(Msgs)
  BY DEF Init
<1>1. PhpTypes
  <2>1. /\ written \in 0 .. Pieces - 1 /\ retry \in 0 .. MAX_WRITE_RETRY + 1
        /\ n \in 0 .. MaxLogs /\ at \in 0 .. Len(logs) /\ Len(logs) <= Threhold
    BY <1>3, LogAssumption DEF Init
  <2> QED BY <1>3, <2>1 DEF Init, PhpTypes
<1>2. NetTypes
  <2>1. reason \in [Msgs -> SUBSET Reasons]
    BY DEF Init
  <2> QED BY <1>3, <2>1 DEF Init, NetTypes
<1>4. Numbered
  BY <1>3, LogAssumption DEF Init, Numbered, Base, Posting, Active, Msgs
<1>5. Ordered /\ StoredOnceInOrder /\ Linked
  BY <1>3 DEF Init, Ordered, StoredOnceInOrder, Linked
<1>6. TrueMeansShipped
  BY DEF Init, TrueMeansShipped
<1> QED BY <1>1, <1>2, <1>4, <1>5, <1>6, TypesAre DEF LInd

-----------------------------------------------------------------------------
(* Where the process is.                                                   *)

LEMMA BaseFacts ==
  ASSUME LInd
  PROVE  /\ Base \in 0 .. MaxLogs
         /\ Posting => /\ Base + 1 \in Msgs /\ Current = Base + 1
                       /\ Base + 1 = n + at - Len(logs)
                       /\ at \in 1 .. Len(logs) /\ result[Base + 1] = "none"
<1>1. /\ Len(logs) \in Nat /\ Len(logs) <= n /\ n \in 0 .. MaxLogs
      /\ at \in 0 .. Len(logs) /\ (Posting => at > 0)
      /\ \A x \in 1 .. Len(logs) : logs[x] = n - Len(logs) + x
      /\ MaxLogs \in Nat
  BY LogAssumption DEF LInd, TypeOK, Numbered, Posting
<1>2. Base \in 0 .. MaxLogs
  BY <1>1 DEF Base
<1>3. ASSUME Posting
      PROVE  /\ Base + 1 \in Msgs /\ Current = Base + 1
             /\ Base + 1 = n + at - Len(logs)
             /\ at \in 1 .. Len(logs)
  <2>1. at \in 1 .. Len(logs) /\ Base + 1 = n + at - Len(logs)
    BY <1>1, <1>3 DEF Base
  <2>2. Current = n - Len(logs) + at
    BY <1>1, <2>1 DEF Current
  <2> QED BY <1>1, <2>1, <2>2 DEF Msgs
<1>4. ASSUME Posting PROVE result[Base + 1] = "none"
  <2>1. Active /\ Base + 1 \in Msgs /\ Base < Base + 1
    BY <1>2, <1>3, <1>4 DEF Posting, Active
  <2> QED BY <2>1 DEF LInd, Numbered
<1> QED BY <1>2, <1>3, <1>4

\* post() returns: the next message is the next one, and nothing else moves.
LEMMA ReturnPhp ==
  ASSUME LInd, Posting, NEW r \in {"true", "false"}, Return(r)
  PROVE  /\ PhpTypes' /\ Numbered' /\ written' = 0
         /\ Active' => Base' = Base + 1
         /\ result' = [result EXCEPT ![Base + 1] = r]
<1>1. /\ PhpTypes /\ Numbered /\ Active
      /\ MaxLogs \in Nat /\ MAX_WRITE_RETRY \in Nat
      /\ Pieces \in Nat \ {0} /\ Threhold \in Nat \ {0}
  BY LogAssumption, TypesAre DEF LInd, Posting, Active
<1>2. /\ Base \in 0 .. MaxLogs /\ Base + 1 \in Msgs /\ Current = Base + 1
      /\ Base + 1 = n + at - Len(logs) /\ at \in 1 .. Len(logs)
  BY BaseFacts
<1>3. /\ result' = [result EXCEPT ![Base + 1] = r]
      /\ written' = 0 /\ retry' = 0 /\ ending' = ending /\ n' = n
  BY <1>2 DEF Return
<1>4. result' \in [Msgs -> {"none", "true", "false"}]
  BY <1>1, <1>3 DEF PhpTypes
<1>5. CASE at < Len(logs)
  <2>1. /\ pc' = "post" /\ at' = at + 1 /\ logs' = logs
        /\ log_times' = log_times
    BY <1>5 DEF Return
  <2>2. PhpTypes'
    <3>1. at' \in 0 .. Len(logs') /\ at' > 0
      BY <1>2, <1>5, <2>1
    <3>2. written' \in 0 .. Pieces - 1 /\ retry' \in 0 .. MAX_WRITE_RETRY + 1
      BY <1>1, <1>3
    <3> QED BY <1>1, <1>3, <1>4, <2>1, <3>1, <3>2 DEF PhpTypes
  <2>3. Base' = Base + 1
    BY <1>1, <1>2, <1>3, <2>1 DEF Base, Posting, PhpTypes
  <2>4. Numbered'
    <3>1. \A m \in Msgs : Base' < m => result'[m] = "none"
      <4>1. ASSUME NEW m \in Msgs, Base' < m PROVE result[m] = "none" /\ m # Base + 1
        BY <1>1, <1>2, <2>3, <4>1 DEF Numbered, Msgs
      <4> QED BY <4>1, <1>1, <1>3 DEF PhpTypes
    <3> QED BY <1>1, <1>3, <2>1, <3>1 DEF Numbered, Active
  <2> QED BY <1>3, <2>2, <2>3, <2>4
<1>6. CASE ~(at < Len(logs))
  <2>1. /\ pc' = IF ending THEN "done" ELSE "idle"
        /\ at' = 0 /\ logs' = <<>> /\ log_times' = 0
    BY <1>6 DEF Return, EndFlush
  <2>2. Len(logs') = 0 /\ logs' \in Seq(Msgs)
    BY <2>1
  <2>3. PhpTypes'
    <3>1. written' \in 0 .. Pieces - 1 /\ retry' \in 0 .. MAX_WRITE_RETRY + 1
      BY <1>1, <1>3
    <3> QED BY <1>1, <1>3, <1>4, <2>1, <2>2, <3>1 DEF PhpTypes
  <2>4. Base' = Base + 1
    <3>1. at = Len(logs) /\ n' = n /\ n \in Nat
      BY <1>1, <1>2, <1>3, <1>6 DEF PhpTypes
    <3>2. ~Posting'
      BY <2>1 DEF Posting
    <3>3. Base' = n' - Len(logs')
      BY <3>2 DEF Base
    <3> QED BY <1>2, <2>2, <3>1, <3>3
  <2>5. Numbered'
    <3>1. \A m \in Msgs : Base' < m => result'[m] = "none"
      <4>1. ASSUME NEW m \in Msgs, Base' < m PROVE result[m] = "none" /\ m # Base + 1
        BY <1>1, <1>2, <2>4, <4>1 DEF Numbered, Msgs
      <4> QED BY <4>1, <1>1, <1>3 DEF PhpTypes
    <3> QED BY <1>1, <1>3, <2>1, <2>2, <3>1 DEF Numbered, Active, PhpTypes
  <2> QED BY <1>3, <2>3, <2>4, <2>5
<1> QED BY <1>5, <1>6

LEMMA EarlierMsgs ==
  \A m \in Msgs : /\ \A x \in 1 .. m : x \in Msgs
                  /\ \A x \in Msgs : x <= m => x \in 1 .. m
BY LogAssumption DEF Msgs

\* The numbers in the pieces and in what is stored.
LEMMA Scalars ==
  ASSUME TypeOK
  PROVE  /\ Len(wire) \in Nat /\ Len(stored) \in Nat
         /\ \A a \in 1 .. Len(wire) :
              /\ wire[a] \in Piece /\ wire[a][1] \in Msgs
              /\ wire[a][1] \in Int /\ wire[a][2] \in Int
              /\ 1 <= wire[a][2] /\ wire[a][2] <= Pieces
         /\ \A x \in 1 .. Len(stored) : stored[x] \in Int /\ stored[x] \in Msgs
<1>1. wire \in Seq(Piece) /\ stored \in Seq(Msgs)
  BY DEF TypeOK
<1>2. /\ Len(wire) \in Nat /\ Len(stored) \in Nat
      /\ \A a \in 1 .. Len(wire) : wire[a] \in Piece
      /\ \A x \in 1 .. Len(stored) : stored[x] \in Msgs
  BY <1>1
<1>3. \A m \in Msgs : m \in Int
  BY DEF Msgs
<1>4. \A p \in Piece : p[1] \in Msgs /\ p[2] \in 1 .. Pieces
  BY DEF Piece
<1>5. \A q \in 1 .. Pieces : q \in Int /\ 1 <= q /\ q <= Pieces
  BY LogAssumption
<1> QED BY <1>2, <1>3, <1>4, <1>5

-----------------------------------------------------------------------------
(* What was left half way stays so.                                        *)

Grows ==
  \A m \in Msgs : /\ reason[m] \subseteq reason'[m]
                  /\ result[m] = "false" => result'[m] = "false"

LEMMA ExcuseStays ==
  ASSUME Grows, NEW m, Excuse(m)
  PROVE  \E x \in Msgs : x <= m /\ LeftHalfWay(x)'
BY DEF Grows, Excuse, LeftHalfWay

LEMMA ExcuseSpreads ==
  ASSUME NEW m \in Int, NEW w \in Int, m <= w, Excuse(m)
  PROVE  Excuse(w)
BY DEF Excuse, Msgs

(***************************************************************************)
(* A step of the process that writes nothing, or writes to a connection    *)
(* that is gone.                                                           *)
(***************************************************************************)
Forward ==
  Active' => /\ Active
             /\ \/ Base' = Base /\ written' = written
                \/ Base' = Base + 1 /\ written' = 0
                \/ Base' = Base /\ written' > written /\ ~alive

LEMMA QuietStep ==
  ASSUME LInd, TypeOK', Grows, Forward,
         UNCHANGED <<alive, wire, decoder, stored>>,
         alive /\ Active' /\ Base' = Base + 1 =>
           \E x \in Msgs : x <= Base + 1 /\ LeftHalfWay(x)'
  PROVE  Ordered' /\ Linked' /\ StoredOnceInOrder'
<1>1. /\ TypeOK /\ Ordered /\ Linked /\ StoredOnceInOrder
      /\ Base \in 0 .. MaxLogs /\ MaxLogs \in Nat /\ Pieces \in Nat \ {0}
  BY LogAssumption, BaseFacts DEF LInd
<1>2. /\ alive' = alive /\ wire' = wire /\ decoder' = decoder
      /\ stored' = stored
  OBVIOUS
<1>3. written \in Nat /\ written' \in Nat
  BY <1>1 DEF TypeOK
<1>4. \A a \in 1 .. Len(wire) : wire[a][1] \in Int /\ wire[a][2] \in Int
  BY <1>1, Scalars
<1>5. \A x \in 1 .. Len(stored) : stored[x] \in Int
  BY <1>1, Scalars
<1>6. StoredOnceInOrder'
  BY <1>1, <1>2 DEF StoredOnceInOrder
<1>7. Ordered'
  <2>1. ASSUME Active', NEW a \in 1 .. Len(wire)
        PROVE  Before(wire[a], <<Base' + 1, written' + 1>>)
    <3>1. Before(wire[a], <<Base + 1, written + 1>>)
      BY <1>1, <2>1 DEF Ordered, Forward
    <3>2. \/ wire[a][1] < Base + 1
          \/ wire[a][1] = Base + 1 /\ wire[a][2] < written + 1
      BY <3>1 DEF Before
    <3>3. \/ wire[a][1] < Base' + 1
          \/ wire[a][1] = Base' + 1 /\ wire[a][2] < written' + 1
      BY <1>1, <1>3, <1>4, <2>1, <3>2 DEF Forward
    <3> QED BY <3>3 DEF Before
  <2>2. ASSUME Active', NEW x \in 1 .. Len(stored) PROVE stored[x] <= Base'
    <3>1. stored[x] <= Base
      BY <1>1, <2>2 DEF Ordered, Forward
    <3> QED BY <1>1, <1>5, <2>2, <3>1 DEF Forward
  <2>3. /\ \A a, b \in 1 .. Len(wire) : a < b => Before(wire[a], wire[b])
        /\ \A a \in 1 .. Len(wire), x \in 1 .. Len(stored) :
             stored[x] < wire[a][1]
    BY <1>1 DEF Ordered
  <2> QED BY <1>2, <2>1, <2>2, <2>3 DEF Ordered, Before
<1>8. Linked'
  <2>1. ASSUME NEW a \in 1 .. Len(wire)
        PROVE  \/ Follows(Prev(a), wire[a])
               \/ \E x \in Msgs : x <= wire[a][1] /\ LeftHalfWay(x)'
    <3>1. Follows(Prev(a), wire[a]) \/ Excuse(wire[a][1])
      BY <1>1 DEF Linked
    <3> QED BY <3>1, ExcuseStays
  <2>2. ASSUME alive, Active'
        PROVE  \/ Follows(Prev(Len(wire) + 1), <<Base' + 1, written' + 1>>)
               \/ \E x \in Msgs : x <= Base' + 1 /\ LeftHalfWay(x)'
    <3>1. CASE Base' = Base /\ written' = written
      <4>1. \/ Follows(Prev(Len(wire) + 1), <<Base + 1, written + 1>>)
            \/ Excuse(Base + 1)
        BY <1>1, <2>2 DEF Linked, Forward
      <4> QED BY <3>1, <4>1, ExcuseStays
    <3>2. CASE Base' = Base + 1
      <4>1. PICK x \in Msgs : x <= Base + 1 /\ LeftHalfWay(x)'
        BY <2>2, <3>2
      <4>2. x <= Base' + 1
        BY <1>1, <3>2, <4>1 DEF Msgs
      <4> QED BY <4>1, <4>2
    <3> QED BY <2>2, <3>1, <3>2 DEF Forward
  <2>3. \A a : Prev(a)' = Prev(a)
    BY <1>2 DEF Prev
  <2>4. ~alive => wire = <<>> /\ decoder = Start
    BY <1>1 DEF Linked
  <2> QED BY <1>2, <2>1, <2>2, <2>3, <2>4 DEF Linked, Follows, Excuse
<1> QED BY <1>6, <1>7, <1>8

\* The same for what is shipped: nothing new is called true or out of step.
LEMMA QuietShipped ==
  ASSUME LInd, Grows, UNCHANGED <<wire, stored>>,
         \A m \in Msgs : /\ result'[m] = "true" =>
                              result[m] = "true" \/ reason'[m] # {}
                         /\ "stream out of step" \in reason'[m] =>
                              "stream out of step" \in reason[m]
  PROVE  TrueMeansShipped'
<1>1. TrueMeansShipped
  BY DEF LInd
<1>2. ASSUME NEW m \in Msgs
      PROVE  /\ result'[m] = "true" =>
                  m \in Elements(stored) \/ <<m, Pieces>> \in Elements(wire)
                    \/ reason'[m] # {}
             /\ "stream out of step" \in reason'[m] =>
                  \E x \in 1 .. m : LeftHalfWay(x)'
  <2>1. result'[m] = "true" =>
          m \in Elements(stored) \/ <<m, Pieces>> \in Elements(wire)
            \/ reason'[m] # {}
    BY <1>1 DEF TrueMeansShipped, Grows
  <2>2. ASSUME "stream out of step" \in reason'[m]
        PROVE  \E x \in 1 .. m : LeftHalfWay(x)'
    <3>1. PICK x \in 1 .. m : LeftHalfWay(x)
      BY <1>1, <2>2 DEF TrueMeansShipped
    <3>2. x \in Msgs
      BY EarlierMsgs
    <3> QED BY <3>1, <3>2 DEF Grows, LeftHalfWay
  <2> QED BY <2>1, <2>2
<1> QED BY <1>2 DEF TrueMeansShipped, Elements

-----------------------------------------------------------------------------
(* The steps that send nothing.                                            *)

LEMMA SamePlace ==
  ASSUME LInd, PhpTypes', Numbered', socket' \in {"none", "open", "closed"},
         Active' => Active /\ Base' = Base, written' = written,
         UNCHANGED <<alive, wire, decoder, stored, result, reason>>
  PROVE  LInd'
<1>1. TypeOK'
  <2>1. NetTypes
    BY TypesAre DEF LInd
  <2>2. NetTypes'
    BY <2>1 DEF NetTypes
  <2> QED BY <2>2, TypesAreNext
<1>2. Grows
  BY DEF Grows
<1>3. Forward
  BY DEF Forward
<1>4. Active' => Base' # Base + 1
  BY BaseFacts
<1>5. Ordered' /\ Linked' /\ StoredOnceInOrder'
  BY <1>1, <1>2, <1>3, <1>4, QuietStep
<1>6. TrueMeansShipped'
  BY <1>2, QuietShipped
<1> QED BY <1>1, <1>5, <1>6 DEF LInd

LEMMA ReturnFalseStep ==
  ASSUME LInd, Posting, Return("false"),
         socket' \in {"none", "open", "closed"},
         UNCHANGED <<alive, wire, decoder, stored, reason>>
  PROVE  LInd'
<1>1. /\ PhpTypes' /\ Numbered' /\ written' = 0
      /\ Active' => Base' = Base + 1
      /\ result' = [result EXCEPT ![Base + 1] = "false"]
  BY ReturnPhp
<1>2. Base \in Int /\ Base + 1 \in Msgs /\ Active
  BY BaseFacts DEF Posting, Active
<1>3. result \in [Msgs -> {"none", "true", "false"}]
  BY DEF LInd, TypeOK
<1>4. TypeOK'
  <2>1. NetTypes
    BY TypesAre DEF LInd
  <2>2. NetTypes'
    BY <2>1 DEF NetTypes
  <2> QED BY <1>1, <2>2, TypesAreNext
<1>5. \A m \in Msgs : result'[m] = result[m] \/ result'[m] = "false"
  BY <1>1, <1>3
<1>6. Grows
  BY <1>5 DEF Grows
<1>7. Forward
  BY <1>1, <1>2 DEF Forward
<1>8. \E x \in Msgs : x <= Base + 1 /\ LeftHalfWay(x)'
  <2>2. PICK x \in Msgs : x = Base + 1
    BY <1>2
  <2>3. result'[x] = "false"
    BY <1>1, <1>3, <2>2
  <2>4. LeftHalfWay(x)'
    BY <2>3 DEF LeftHalfWay
  <2>5. x <= Base + 1
    BY <1>2, <2>2
  <2> QED BY <2>4, <2>5
<1>9. Ordered' /\ Linked' /\ StoredOnceInOrder'
  BY <1>4, <1>6, <1>7, <1>8, QuietStep
<1>10. TrueMeansShipped'
  BY <1>5, <1>6, QuietShipped
<1> QED BY <1>1, <1>4, <1>9, <1>10 DEF LInd

LEMMA StutterLInd == LInd /\ UNCHANGED vars => LInd'
<1> SUFFICES ASSUME LInd, UNCHANGED vars PROVE LInd'
  OBVIOUS
<1>1. /\ pc' = pc /\ ending' = ending /\ n' = n /\ logs' = logs
      /\ log_times' = log_times /\ at' = at /\ written' = written
      /\ retry' = retry /\ socket' = socket
      /\ UNCHANGED <<alive, wire, decoder, stored, result, reason>>
  BY DEF vars, phpvars, postvars, netvars
<1>2. PhpTypes /\ NetTypes /\ Numbered
  BY TypesAre DEF LInd
<1>3. PhpTypes' /\ Base' = Base /\ (Active' <=> Active)
  BY <1>1, <1>2 DEF PhpTypes, Base, Posting, Active
<1>4. Numbered'
  BY <1>1, <1>2, <1>3 DEF Numbered
<1> QED BY <1>1, <1>2, <1>3, <1>4, SamePlace DEF NetTypes

LEMMA KillStep == LInd /\ Kill => LInd'
<1> SUFFICES ASSUME LInd, Kill PROVE LInd'
  OBVIOUS
<1>1. /\ pc' = "killed" /\ ending' = ending /\ n' = n /\ logs' = logs
      /\ log_times' = log_times /\ at' = at /\ written' = written
      /\ retry' = retry /\ socket' = socket
      /\ UNCHANGED <<alive, wire, decoder, stored, result, reason>>
  BY DEF Kill, phpvars, postvars, netvars
<1>2. PhpTypes /\ NetTypes /\ Numbered
  BY TypesAre DEF LInd
<1>3. PhpTypes' /\ ~Active'
  BY <1>1, <1>2 DEF PhpTypes, Active
<1>4. Numbered'
  BY <1>1, <1>2, <1>3 DEF Numbered
<1> QED BY <1>1, <1>2, <1>3, <1>4, SamePlace DEF NetTypes

LEMMA ReuseStep == LInd /\ Reuse => LInd'
<1> SUFFICES ASSUME LInd, Reuse PROVE LInd'
  OBVIOUS
<1>1. /\ pc = "post" /\ pc' = "write" /\ ending' = ending /\ n' = n
      /\ logs' = logs /\ log_times' = log_times /\ at' = at
      /\ written' = written /\ retry' = retry /\ socket' = socket
      /\ UNCHANGED <<alive, wire, decoder, stored, result, reason>>
  BY DEF Reuse, phpvars, postvars, netvars
<1>2. PhpTypes /\ NetTypes /\ Numbered
  BY TypesAre DEF LInd
<1>3. PhpTypes' /\ Base' = Base /\ Active' /\ Active
  BY <1>1, <1>2 DEF PhpTypes, Base, Posting, Active
<1>4. Numbered'
  BY <1>1, <1>2, <1>3 DEF Numbered
<1> QED BY <1>1, <1>2, <1>3, <1>4, SamePlace DEF NetTypes

LEMMA WriteZeroStep == LInd /\ WriteZero => LInd'
<1> SUFFICES ASSUME LInd, WriteZero PROVE LInd'
  OBVIOUS
<1>1. /\ pc = "write" /\ pc' = pc /\ ending' = ending /\ n' = n
      /\ logs' = logs /\ log_times' = log_times /\ at' = at
      /\ written' = written /\ socket' = socket
      /\ retry' = retry + 1 /\ retry <= MAX_WRITE_RETRY
      /\ UNCHANGED <<alive, wire, decoder, stored, result, reason>>
  BY DEF WriteZero, CountRetry, RetriesLeft, phpvars, netvars
<1>2. PhpTypes /\ NetTypes /\ Numbered
  BY TypesAre DEF LInd
<1>3. retry' \in 0 .. MAX_WRITE_RETRY + 1
  BY <1>1, <1>2, LogAssumption DEF PhpTypes
<1>4. PhpTypes' /\ Base' = Base /\ Active' /\ Active
  BY <1>1, <1>2, <1>3 DEF PhpTypes, Base, Posting, Active
<1>5. Numbered'
  BY <1>1, <1>2, <1>4 DEF Numbered
<1> QED BY <1>1, <1>2, <1>4, <1>5, SamePlace DEF NetTypes

LEMMA ShutdownStep == LInd /\ Shutdown => LInd'
<1> SUFFICES ASSUME LInd, Shutdown PROVE LInd'
  OBVIOUS
<1>1. /\ pc = "idle" /\ ending' = TRUE /\ n' = n
      /\ logs' = logs /\ log_times' = log_times
      /\ written' = written /\ socket' = socket /\ retry' = retry
      /\ UNCHANGED <<alive, wire, decoder, stored, result, reason>>
      /\ \/ pc' = "done" /\ at' = at
         \/ log_times > 0 /\ pc' = "post" /\ at' = 1
  BY DEF Shutdown, Flush, postvars, netvars
<1>2. PhpTypes /\ NetTypes /\ Numbered /\ Active
  BY <1>1, TypesAre DEF LInd, Active
<1>3. PhpTypes'
  BY <1>1, <1>2 DEF PhpTypes
<1>4. Active' => Base' = Base
  BY <1>1, <1>2 DEF Base, Posting, Active, PhpTypes
<1>5. Numbered'
  BY <1>1, <1>2, <1>4 DEF Numbered, Active
<1> QED BY <1>1, <1>2, <1>3, <1>4, <1>5, SamePlace DEF NetTypes

LEMMA FalseSteps ==
  LInd /\ (PostCannotConnect \/ WriteFails \/ WriteGivesUp \/ PipeStaysBroken)
    => LInd'
<1> SUFFICES ASSUME LInd,
                    PostCannotConnect \/ WriteFails \/ WriteGivesUp \/ PipeStaysBroken
             PROVE  LInd'
  OBVIOUS
<1>1. /\ Posting /\ Return("false")
      /\ socket' \in {socket, "closed"}
      /\ UNCHANGED <<alive, wire, decoder, stored, reason>>
  BY DEF PostCannotConnect, WriteFails, WriteGivesUp, PipeStaysBroken,
     BrokenPipe, netvars, Posting
<1>2. socket \in {"none", "open", "closed"}
  BY DEF LInd, TypeOK
<1> QED BY <1>1, <1>2, ReturnFalseStep

LEMMA LogStep ==
  ASSUME LInd, NEW force \in BOOLEAN, Log(force)
  PROVE  LInd'
<1>1. /\ pc = "idle" /\ n < MaxLogs /\ n' = n + 1 /\ ending' = ending
      /\ logs' = Append(logs, n + 1) /\ log_times' = log_times + 1
      /\ written' = written /\ socket' = socket /\ retry' = retry
      /\ UNCHANGED <<alive, wire, decoder, stored, result, reason>>
      /\ \/ pc' = pc /\ at' = at /\ ~(log_times + 1 >= Threhold)
         \/ pc' = "post" /\ at' = 1
  BY DEF Log, Due, Flush, postvars, netvars
<1>2. PhpTypes /\ NetTypes /\ Numbered /\ Active
  BY <1>1, TypesAre DEF LInd, Active
<1>3. /\ n \in Nat /\ MaxLogs \in Nat /\ Len(logs) \in Nat /\ Threhold \in Nat
      /\ logs \in Seq(Msgs) /\ log_times = Len(logs) /\ at \in 0 .. Len(logs)
      /\ Len(logs) < Threhold /\ Len(logs) <= n
  BY <1>1, <1>2, LogAssumption DEF PhpTypes, Numbered
<1>4. n + 1 \in Msgs
  BY <1>1, <1>3 DEF Msgs
<1>5. /\ logs' \in Seq(Msgs) /\ Len(logs') = Len(logs) + 1
      /\ logs'[Len(logs) + 1] = n + 1
      /\ \A x \in 1 .. Len(logs) : logs'[x] = logs[x]
  BY <1>1, <1>3, <1>4
<1>6. n' \in 0 .. MaxLogs /\ at' \in 0 .. Len(logs') /\ Len(logs') <= Threhold
  BY <1>1, <1>3, <1>5
<1>7. log_times' = Len(logs') /\ pc' \in {"idle", "post"}
      /\ (pc' = "post" => at' > 0)
  BY <1>1, <1>3, <1>5
<1>8. PhpTypes'
  BY <1>1, <1>2, <1>5, <1>6, <1>7 DEF PhpTypes
<1>9. Base' = Base
  BY <1>1, <1>3, <1>5 DEF Base, Posting
<1>10. Numbered'
  <2>1. Len(logs') <= n'
    BY <1>1, <1>3, <1>5
  <2>2. ASSUME NEW x \in 1 .. Len(logs') PROVE logs'[x] = n' - Len(logs') + x
    <3>1. CASE x = Len(logs) + 1
      BY <1>1, <1>3, <1>5, <3>1
    <3>2. CASE x # Len(logs) + 1
      <4>1. x \in 1 .. Len(logs)
        BY <1>3, <1>5, <3>2
      <4>2. logs[x] = n - Len(logs) + x
        BY <1>2, <4>1 DEF Numbered
      <4> QED BY <1>1, <1>3, <1>5, <4>1, <4>2
    <3> QED BY <3>1, <3>2
  <2>3. pc' = "idle" => Len(logs') < Threhold
    BY <1>1, <1>3, <1>5
  <2>4. written' = 0
    BY <1>1, <1>2 DEF Numbered
  <2>5. \A m \in Msgs : Base' < m => result'[m] = "none"
    BY <1>1, <1>2, <1>9 DEF Numbered
  <2> QED BY <2>1, <2>2, <2>3, <2>4, <2>5 DEF Numbered
<1> QED BY <1>1, <1>2, <1>8, <1>9, <1>10, SamePlace DEF NetTypes

-----------------------------------------------------------------------------
(* A new connection, and the end of one.                                   *)

LEMMA BaseInt == LInd => Base \in Int
<1>1. ASSUME NEW b \in 0 .. MaxLogs PROVE b \in Int
  OBVIOUS
<1> QED BY <1>1, BaseFacts

LEMMA PlaceNumbers == TypeOK => written \in Nat /\ retry \in Nat
BY LogAssumption DEF TypeOK

LEMMA IntReflexive == \A i \in Int : i <= i /\ i + 1 <= i + 1
OBVIOUS

LEMMA ZeroOrMore == \A i \in Nat : i = 0 \/ i > 0
OBVIOUS

LEMMA FirstFollows ==
  ASSUME NEW b, NEW w, w = 0
  PROVE  Follows(Start, <<b, w + 1>>)
<1>1. Start[2] = Pieces /\ <<b, w + 1>>[2] = 1
  BY DEF Start
<1> QED BY <1>1 DEF Follows

LEMMA EmptyWireOrdered ==
  ASSUME wire' = <<>>, stored' = stored,
         Active' => \A x \in 1 .. Len(stored) : stored[x] <= Base'
  PROVE  Ordered'
<1>1. Len(wire') = 0
  OBVIOUS
<1> QED BY <1>1 DEF Ordered

LEMMA DeadLinked ==
  ASSUME wire' = <<>>, decoder' = Start, alive' = FALSE
  PROVE  Linked'
<1>1. Len(wire') = 0
  OBVIOUS
<1> QED BY <1>1 DEF Linked

LEMMA FreshLinked ==
  ASSUME wire' = <<>>, decoder' = Start, Base' = Base, written' = written,
         \/ Follows(Start, <<Base + 1, written + 1>>)
         \/ \E x \in Msgs : x <= Base + 1 /\ LeftHalfWay(x)'
  PROVE  Linked'
<1>1. Len(wire') = 0
  OBVIOUS
<1>2. Prev(Len(wire) + 1)' = Start
  BY <1>1 DEF Prev
<1>3. \/ Follows(Start, <<Base' + 1, written' + 1>>)
      \/ \E x \in Msgs : x <= Base' + 1 /\ LeftHalfWay(x)'
  OBVIOUS
<1> QED BY <1>1, <1>2, <1>3 DEF Linked, Excuse, Follows

LEMMA ConnectStep ==
  ASSUME LInd, Posting, ~alive, Connect, PhpTypes', Numbered',
         Active' /\ Base' = Base, written' = written, result' = result,
         reason' \in [Msgs -> SUBSET Reasons], Grows,
         \A m \in Msgs : "stream out of step" \in reason'[m] =>
                           "stream out of step" \in reason[m],
         written > 0 => "resumed elsewhere" \in reason'[Base + 1]
  PROVE  LInd'
<1>0. /\ TypeOK /\ Ordered /\ Linked /\ StoredOnceInOrder /\ NetTypes /\ Active
      /\ Base + 1 \in Msgs
  BY BaseFacts, TypesAre DEF LInd, Posting, Active
<1>1. Base \in Int /\ written \in Nat
  BY <1>0, BaseInt, PlaceNumbers
<1>2. /\ socket' = "open" /\ alive' = TRUE /\ wire' = wire
      /\ decoder' = decoder /\ stored' = stored
      /\ wire = <<>> /\ decoder = Start
  BY <1>0 DEF Connect, Linked
<1>3. Len(wire) = 0
  BY <1>2
<1>4. TypeOK'
  <2>1. NetTypes'
    BY <1>0, <1>2 DEF NetTypes
  <2> QED BY <2>1, TypesAreNext
<1>5. StoredOnceInOrder'
  BY <1>0, <1>2 DEF StoredOnceInOrder
<1>6. Ordered'
  <2>1. \A x \in 1 .. Len(stored) : stored[x] <= Base'
    BY <1>0 DEF Ordered
  <2> QED BY <1>2, <1>3, <2>1, EmptyWireOrdered
<1>7. \/ Follows(Start, <<Base + 1, written + 1>>)
      \/ \E x \in Msgs : x <= Base + 1 /\ LeftHalfWay(x)'
  <2>1. CASE written = 0
    BY <2>1, FirstFollows
  <2>2. CASE written > 0
    <3>1. PICK x \in Msgs : x = Base + 1
      BY <1>0
    <3>2. LeftHalfWay(x)'
      BY <2>2, <3>1 DEF LeftHalfWay
    <3>3. x <= Base + 1
      BY <1>1, <3>1, IntReflexive
    <3> QED BY <3>2, <3>3
  <2>3. written = 0 \/ written > 0
    BY <1>1, ZeroOrMore
  <2> QED BY <2>1, <2>2, <2>3
<1>8. Linked'
  BY <1>2, <1>3, <1>7, FreshLinked
<1>9. TrueMeansShipped'
  BY <1>2, QuietShipped
<1> QED BY <1>4, <1>5, <1>6, <1>8, <1>9 DEF LInd

LEMMA PostConnectsStep == LInd /\ PostConnects => LInd'
<1> SUFFICES ASSUME LInd, PostConnects PROVE LInd'
  OBVIOUS
<1>1. /\ pc = "post" /\ pc' = "write" /\ ending' = ending /\ n' = n
      /\ logs' = logs /\ log_times' = log_times /\ at' = at
      /\ written' = written /\ retry' = retry /\ Connect
      /\ socket' = "open" /\ alive' = TRUE
      /\ UNCHANGED <<wire, decoder, stored, result, reason>>
  BY DEF PostConnects, Connect, phpvars, netvars
<1>2. PhpTypes /\ NetTypes /\ Numbered
  BY TypesAre DEF LInd
<1>3. PhpTypes' /\ Base' = Base /\ Active' /\ Active /\ Posting
  BY <1>1, <1>2 DEF PhpTypes, Base, Posting, Active
<1>4. Numbered' /\ written = 0
  BY <1>1, <1>2, <1>3 DEF Numbered
<1>5. CASE alive
  <2>1. UNCHANGED <<alive, wire, decoder, stored, result, reason>>
    BY <1>1, <1>2, <1>5 DEF NetTypes
  <2> QED BY <1>1, <1>3, <1>4, <2>1, SamePlace
<1>6. CASE ~alive
  <2>1. Grows /\ reason' \in [Msgs -> SUBSET Reasons]
    BY <1>1, <1>2 DEF Grows, NetTypes
  <2>2. ~(written > 0)
    BY <1>4
  <2> QED BY <1>1, <1>3, <1>4, <1>6, <2>1, <2>2, ConnectStep
<1> QED BY <1>5, <1>6

\* The reasons grow.
LEMMA BlameFacts ==
  ASSUME reason \in [Msgs -> SUBSET Reasons], NEW S, NEW r \in Reasons
  PROVE  /\ Blame(S, r) \in [Msgs -> SUBSET Reasons]
         /\ \A m \in Msgs : /\ reason[m] \subseteq Blame(S, r)[m]
                            /\ m \in S => r \in Blame(S, r)[m]
                            /\ Blame(S, r)[m] \subseteq reason[m] \cup {r}
                            /\ m \notin S => Blame(S, r)[m] = reason[m]
BY DEF Blame

LEMMA PipeReconnectsStep == LInd /\ PipeReconnects => LInd'
<1> SUFFICES ASSUME LInd, PipeReconnects PROVE LInd'
  OBVIOUS
<1>1. /\ pc = "write" /\ pc' = pc /\ ending' = ending /\ n' = n
      /\ logs' = logs /\ log_times' = log_times /\ at' = at
      /\ written' = written /\ result' = result /\ Connect /\ ~alive
      /\ retry' = retry + 1 /\ retry <= MAX_WRITE_RETRY
      /\ reason' = IF written > 0 THEN Blame({Current}, "resumed elsewhere")
                                  ELSE reason
  BY DEF PipeReconnects, BrokenPipe, CountRetry, RetriesLeft, phpvars
<1>2. PhpTypes /\ NetTypes /\ Numbered
  BY TypesAre DEF LInd
<1>3. retry' \in 0 .. MAX_WRITE_RETRY + 1
  <2>1. retry \in Nat /\ MAX_WRITE_RETRY \in Nat
    BY LogAssumption, PlaceNumbers DEF LInd
  <2>2. retry' = retry + 1 /\ retry <= MAX_WRITE_RETRY
    BY <1>1
  <2> QED BY <2>1, <2>2
<1>4. PhpTypes' /\ Base' = Base /\ Active' /\ Active /\ Posting
  BY <1>1, <1>2, <1>3 DEF PhpTypes, Base, Posting, Active
<1>5. Numbered'
  BY <1>1, <1>2, <1>4 DEF Numbered
<1>6. Current = Base + 1 /\ Base + 1 \in Msgs
  BY <1>4, BaseFacts
<1>7. "resumed elsewhere" \in Reasons /\ reason \in [Msgs -> SUBSET Reasons]
  BY <1>2 DEF Reasons, NetTypes
<1>8. /\ reason' \in [Msgs -> SUBSET Reasons]
      /\ \A m \in Msgs : reason[m] \subseteq reason'[m]
      /\ \A m \in Msgs : reason'[m] \subseteq reason[m] \cup {"resumed elsewhere"}
      /\ written > 0 => "resumed elsewhere" \in reason'[Base + 1]
  <2>1. CASE written > 0
    BY <1>1, <1>6, <1>7, <2>1, BlameFacts
  <2>2. CASE ~(written > 0)
    BY <1>1, <1>7, <2>2
  <2> QED BY <2>1, <2>2
<1>9. Grows
  BY <1>1, <1>8 DEF Grows
<1> QED BY <1>1, <1>4, <1>5, <1>8, <1>9, ConnectStep

LEMMA BreakStep == LInd /\ Break => LInd'
<1> SUFFICES ASSUME LInd, Break PROVE LInd'
  OBVIOUS
<1> DEFINE Hit == {p[1] : p \in Elements(wire)} \cup
                  (IF pc = "write" /\ written > 0 THEN {Current} ELSE {})
<1>1. /\ pc' = pc /\ ending' = ending /\ n' = n /\ logs' = logs
      /\ log_times' = log_times /\ at' = at /\ written' = written
      /\ retry' = retry /\ socket' = socket /\ result' = result
      /\ stored' = stored /\ alive' = FALSE /\ wire' = <<>>
      /\ decoder' = Start /\ reason' = Blame(Hit, "link broke")
  BY DEF Break, phpvars, postvars
<1>2. PhpTypes /\ NetTypes /\ Numbered /\ Ordered /\ StoredOnceInOrder
      /\ TrueMeansShipped
  BY TypesAre DEF LInd
<1>3. PhpTypes' /\ Base' = Base /\ (Active' <=> Active)
  BY <1>1, <1>2 DEF PhpTypes, Base, Posting, Active
<1>4. Numbered'
  BY <1>1, <1>2, <1>3 DEF Numbered
<1>5. "link broke" \in Reasons /\ reason \in [Msgs -> SUBSET Reasons]
  BY <1>2 DEF Reasons, NetTypes
<1> HIDE DEF Hit
<1>6. /\ reason' \in [Msgs -> SUBSET Reasons]
      /\ \A m \in Msgs : /\ reason[m] \subseteq reason'[m]
                         /\ reason'[m] \subseteq reason[m] \cup {"link broke"}
                         /\ m \in Hit => "link broke" \in reason'[m]
  BY <1>1, <1>5, BlameFacts
<1>7. NetTypes'
  <2>0. <<>> \in Seq(Piece)
    OBVIOUS
  <2>1. wire' \in Seq(Piece)
    BY <1>1, <2>0
  <2> QED BY <1>1, <1>2, <1>6, <2>1 DEF NetTypes
<1>8. Ordered' /\ StoredOnceInOrder' /\ Linked'
  <2>1. Active' => \A x \in 1 .. Len(stored) : stored[x] <= Base'
    BY <1>2, <1>3 DEF Ordered
  <2>2. Ordered'
    BY <1>1, <2>1, EmptyWireOrdered
  <2>3. StoredOnceInOrder'
    BY <1>1, <1>2 DEF StoredOnceInOrder
  <2>5. Linked'
    BY <1>1, DeadLinked
  <2> QED BY <2>2, <2>3, <2>5
<1>9. TrueMeansShipped'
  <2>1. ASSUME NEW m \in Msgs, <<m, Pieces>> \in Elements(wire) PROVE m \in Hit
    <3>1. <<m, Pieces>>[1] = m
      OBVIOUS
    <3> QED BY <2>1, <3>1 DEF Hit
  <2>2. ASSUME NEW m \in Msgs, result'[m] = "true"
        PROVE  m \in Elements(stored)' \/ reason'[m] # {}
    <3>1. \/ m \in Elements(stored) \/ <<m, Pieces>> \in Elements(wire)
          \/ reason[m] # {}
      BY <1>1, <1>2, <2>2 DEF TrueMeansShipped
    <3> QED BY <1>1, <1>6, <2>1, <3>1 DEF Elements
  <2>3. ASSUME NEW m \in Msgs, "stream out of step" \in reason'[m]
        PROVE  \E x \in 1 .. m : LeftHalfWay(x)'
    <3>1. "stream out of step" \in reason[m]
      BY <1>6, <2>3
    <3>2. PICK x \in 1 .. m : LeftHalfWay(x)
      BY <1>2, <3>1 DEF TrueMeansShipped
    <3>3. x \in Msgs
      BY EarlierMsgs
    <3> QED BY <1>1, <1>6, <3>2, <3>3 DEF LeftHalfWay
  <2> QED BY <2>2, <2>3 DEF TrueMeansShipped
<1> QED BY <1>3, <1>4, <1>7, <1>8, <1>9, TypesAreNext DEF LInd

-----------------------------------------------------------------------------
(* fluentd reads a piece.                                                  *)

LEMMA TailFacts ==
  ASSUME NEW S, NEW q \in Seq(S), q # <<>>
  PROVE  /\ Len(q) \in Nat /\ Len(q) > 0 /\ Head(q) = q[1] /\ q[1] \in S
         /\ Tail(q) \in Seq(S) /\ Len(Tail(q)) = Len(q) - 1
         /\ \A a \in 1 .. Len(q) - 1 : Tail(q)[a] = q[a + 1]
<1>1. Len(q) \in Nat /\ Len(q) # 0
  BY EmptySeq
<1> QED BY <1>1, HeadTailProperties

\* What the reading of a piece does to wire and stored.
Reads ==
  /\ Len(wire) > 0 /\ wire' \in Seq(Piece)
  /\ Len(wire') = Len(wire) - 1
  /\ \A a \in 1 .. Len(wire) - 1 : wire'[a] = wire[a + 1]
  /\ \/ stored' = stored
     \/ wire[1][2] = Pieces /\ stored' = Append(stored, wire[1][1])

LEMMA StoredFacts ==
  ASSUME TypeOK, Reads
  PROVE  /\ stored' \in Seq(Msgs)
         /\ \A x \in 1 .. Len(stored) : x \in 1 .. Len(stored') /\ stored'[x] = stored[x]
         /\ \A x \in 1 .. Len(stored') :
              \/ x \in 1 .. Len(stored) /\ stored'[x] = stored[x]
              \/ x = Len(stored) + 1 /\ stored'[x] = wire[1][1] /\ wire[1][2] = Pieces
<1>1. stored \in Seq(Msgs) /\ Len(stored) \in Nat /\ wire[1][1] \in Msgs
  <2>1. 1 \in 1 .. Len(wire)
    BY Scalars DEF Reads
  <2> QED BY <2>1, Scalars DEF TypeOK
<1>2. CASE stored' = stored
  BY <1>1, <1>2
<1>3. CASE wire[1][2] = Pieces /\ stored' = Append(stored, wire[1][1])
  <2>1. /\ stored' \in Seq(Msgs) /\ Len(stored') = Len(stored) + 1
        /\ stored'[Len(stored) + 1] = wire[1][1]
        /\ \A x \in 1 .. Len(stored) : stored'[x] = stored[x]
    BY <1>1, <1>3
  <2>2. \A x \in 1 .. Len(stored) : x \in 1 .. Len(stored')
    BY <1>1, <2>1
  <2>3. \A x \in 1 .. Len(stored') : x \in 1 .. Len(stored) \/ x = Len(stored) + 1
    BY <1>1, <2>1
  <2> QED BY <1>3, <2>1, <2>2, <2>3
<1> QED BY <1>2, <1>3 DEF Reads

LEMMA ReadsOrdered ==
  ASSUME LInd, Reads, Base' = Base, Active' <=> Active, written' = written
  PROVE  Ordered' /\ StoredOnceInOrder'
<1>1. TypeOK /\ Ordered /\ StoredOnceInOrder
  BY DEF LInd
<1>2. /\ Len(wire) \in Nat /\ Len(wire) > 0 /\ Len(stored) \in Nat
      /\ Len(wire') = Len(wire) - 1
      /\ \A a \in 1 .. Len(wire) - 1 : wire'[a] = wire[a + 1]
  BY <1>1, Scalars DEF Reads
<1>3. \A a \in 1 .. Len(wire) : /\ wire[a][1] \in Int /\ wire[a][2] \in Int
                                /\ wire[a][2] <= Pieces
  BY <1>1, Scalars
<1>4. Base \in Int /\ Pieces \in Int
  BY BaseInt, LogAssumption
<1>5. 1 \in 1 .. Len(wire) /\ \A a \in 1 .. Len(wire') : /\ a + 1 \in 1 .. Len(wire)
                                                         /\ a \in 1 .. Len(wire) - 1
                                                         /\ 1 < a + 1
  BY <1>2
<1>6. ASSUME NEW a \in 1 .. Len(wire'), NEW b \in 1 .. Len(wire'), a < b
      PROVE  Before(wire'[a], wire'[b])
  <2>1. a + 1 < b + 1
    BY <1>2, <1>6
  <2>2. Before(wire[a + 1], wire[b + 1])
    BY <1>1, <1>5, <2>1 DEF Ordered
  <2> QED BY <1>2, <1>5, <2>2
<1>7. ASSUME NEW x \in 1 .. Len(stored')
      PROVE  \/ x \in 1 .. Len(stored) /\ stored'[x] = stored[x]
             \/ x = Len(stored) + 1 /\ stored'[x] = wire[1][1] /\ wire[1][2] = Pieces
  BY <1>1, StoredFacts
<1>8. ASSUME NEW a \in 1 .. Len(wire'), NEW x \in 1 .. Len(stored')
      PROVE  stored'[x] < wire'[a][1]
  <2>1. CASE x \in 1 .. Len(stored) /\ stored'[x] = stored[x]
    <3>1. stored[x] < wire[a + 1][1]
      BY <1>1, <1>5, <2>1 DEF Ordered
    <3> QED BY <1>2, <1>5, <2>1, <3>1
  <2>2. CASE stored'[x] = wire[1][1] /\ wire[1][2] = Pieces
    <3>1. Before(wire[1], wire[a + 1])
      BY <1>1, <1>5 DEF Ordered
    <3>2. \/ wire[1][1] < wire[a + 1][1]
          \/ wire[1][2] < wire[a + 1][2]
      BY <3>1 DEF Before
    <3>3. wire[a + 1][2] \in Int /\ wire[a + 1][2] <= Pieces
      BY <1>3, <1>5
    <3>4. ~(wire[1][2] < wire[a + 1][2])
      BY <1>4, <2>2, <3>3
    <3> QED BY <1>2, <1>5, <2>2, <3>2, <3>4
  <2> QED BY <1>7, <2>1, <2>2
<1>9. ASSUME Active', NEW a \in 1 .. Len(wire')
      PROVE  Before(wire'[a], <<Base' + 1, written' + 1>>)
  <2>1. Before(wire[a + 1], <<Base + 1, written + 1>>)
    BY <1>1, <1>5, <1>9 DEF Ordered
  <2> QED BY <1>2, <1>5, <2>1
<1>10. ASSUME Active', NEW x \in 1 .. Len(stored') PROVE stored'[x] <= Base'
  <2>1. CASE x \in 1 .. Len(stored) /\ stored'[x] = stored[x]
    BY <1>1, <1>10, <2>1 DEF Ordered
  <2>2. CASE stored'[x] = wire[1][1] /\ wire[1][2] = Pieces
    <3>1. Before(wire[1], <<Base + 1, written + 1>>)
      BY <1>1, <1>5, <1>10 DEF Ordered
    <3>2. \/ wire[1][1] < Base + 1
          \/ wire[1][2] < written + 1
      BY <3>1 DEF Before
    <3>3. written \in Int /\ written <= Pieces - 1
      BY <1>1, LogAssumption DEF TypeOK
    <3>4. ~(wire[1][2] < written + 1)
      BY <1>4, <2>2, <3>3
    <3>5. wire[1][1] \in Int
      BY <1>3, <1>5
    <3>6. wire[1][1] <= Base
      BY <1>4, <3>2, <3>4, <3>5
    <3> QED BY <2>2, <3>6
  <2> QED BY <1>7, <2>1, <2>2
<1>11. ASSUME NEW k \in 2 .. Len(stored') PROVE stored'[k - 1] < stored'[k]
  <2>0. Len(stored') \in Nat
    BY <1>1, StoredFacts
  <2>1. k \in Int /\ 2 <= k /\ k <= Len(stored') /\ k - 1 \in 1 .. Len(stored')
        /\ k \in 1 .. Len(stored')
    BY <2>0
  <2>2. CASE k \in 1 .. Len(stored) /\ stored'[k] = stored[k]
    <3>1. k - 1 \in 1 .. Len(stored) /\ k \in 2 .. Len(stored)
      BY <1>2, <2>1, <2>2
    <3>2. stored'[k - 1] = stored[k - 1]
      BY <1>1, <3>1, StoredFacts
    <3>3. stored[k - 1] < stored[k]
      BY <1>1, <3>1 DEF StoredOnceInOrder
    <3> QED BY <2>2, <3>2, <3>3
  <2>3. CASE k = Len(stored) + 1 /\ stored'[k] = wire[1][1]
    <3>1. k - 1 \in 1 .. Len(stored)
      BY <1>2, <2>1, <2>3
    <3>2. stored'[k - 1] = stored[k - 1]
      BY <1>1, <3>1, StoredFacts
    <3>3. stored[k - 1] < wire[1][1]
      BY <1>1, <1>5, <3>1 DEF Ordered
    <3> QED BY <2>3, <3>2, <3>3
  <2> QED BY <1>7, <2>1, <2>2, <2>3
<1>12. StoredOnceInOrder'
  BY <1>11 DEF StoredOnceInOrder
<1>13. Ordered'
  BY <1>6, <1>8, <1>9, <1>10 DEF Ordered, Before
<1> QED BY <1>12, <1>13

\* After a piece that was read in step, or whose message is excused, the rest
\* of the stream is linked.
LEMMA ReadsLinked ==
  ASSUME LInd, Reads, Grows, Base' = Base, Active' <=> Active,
         written' = written, alive' = alive,
         \/ decoder' = wire[1]
         \/ ~Follows(decoder, wire[1])
  PROVE  Linked'
<1>1. TypeOK /\ Ordered /\ Linked
  BY DEF LInd
<1>2. /\ Len(wire) \in Nat /\ Len(wire) > 0
      /\ Len(wire') = Len(wire) - 1
      /\ \A a \in 1 .. Len(wire) - 1 : wire'[a] = wire[a + 1]
  BY <1>1, Scalars DEF Reads
<1>3. \A a \in 1 .. Len(wire) : wire[a][1] \in Int
  BY <1>1, Scalars
<1>4. /\ 1 \in 1 .. Len(wire)
      /\ \A a \in 1 .. Len(wire') : /\ a + 1 \in 1 .. Len(wire)
                                    /\ a \in 1 .. Len(wire) - 1
                                    /\ a + 1 # 1 /\ 1 < a + 1 /\ a + 1 - 1 = a
                                    /\ a # 1 => /\ a - 1 \in 1 .. Len(wire) - 1
                                                /\ a - 1 + 1 = a
  BY <1>2
<1>5. alive /\ (alive' <=> alive)
  <2>1. wire # <<>>
    BY <1>2
  <2> QED BY <1>1, <2>1 DEF Linked
<1>6. Follows(decoder, wire[1]) \/ Excuse(wire[1][1])
  <2>1. Follows(Prev(1), wire[1]) \/ Excuse(wire[1][1])
    BY <1>1, <1>4 DEF Linked
  <2> QED BY <2>1 DEF Prev
<1>7. ASSUME NEW a \in 1 .. Len(wire')
      PROVE  \/ Follows(Prev(a)', wire'[a])
             \/ \E x \in Msgs : x <= wire'[a][1] /\ LeftHalfWay(x)'
  <2>1. Follows(Prev(a + 1), wire[a + 1]) \/ Excuse(wire[a + 1][1])
    BY <1>1, <1>4 DEF Linked
  <2>2. Prev(a + 1) = wire[a] /\ wire'[a] = wire[a + 1]
    BY <1>2, <1>4 DEF Prev
  <2>3. CASE a # 1
    <3>1. Prev(a)' = wire[a]
      BY <1>2, <1>4, <2>3 DEF Prev
    <3> QED BY <2>1, <2>2, <3>1, ExcuseStays
  <2>4. CASE a = 1 /\ decoder' = wire[1]
    <3>1. Prev(a)' = wire[a]
      BY <2>4 DEF Prev
    <3> QED BY <2>1, <2>2, <3>1, ExcuseStays
  <2>5. CASE a = 1 /\ ~Follows(decoder, wire[1])
    <3>1. Excuse(wire[1][1])
      BY <1>6, <2>5
    <3>2. Before(wire[1], wire[a + 1])
      BY <1>1, <1>4 DEF Ordered
    <3>3. /\ wire[1][1] < wire[a + 1][1] \/ wire[1][1] = wire[a + 1][1]
          /\ wire[1][1] \in Int /\ wire[a + 1][1] \in Int
      BY <1>3, <1>4, <3>2 DEF Before
    <3>4. wire[1][1] <= wire[a + 1][1]
      BY <3>3
    <3>5. Excuse(wire[a + 1][1])
      BY <3>1, <3>3, <3>4, ExcuseSpreads
    <3> QED BY <2>2, <3>5, ExcuseStays
  <2> QED BY <2>3, <2>4, <2>5
<1>8. ASSUME Active
      PROVE  \/ Follows(Prev(Len(wire) + 1)', <<Base' + 1, written' + 1>>)
             \/ \E x \in Msgs : x <= Base' + 1 /\ LeftHalfWay(x)'
  <2>1. \/ Follows(Prev(Len(wire) + 1), <<Base + 1, written + 1>>)
        \/ Excuse(Base + 1)
    BY <1>1, <1>5, <1>8 DEF Linked
  <2>2. Prev(Len(wire) + 1) = wire[Len(wire)]
    <3>1. Len(wire) + 1 # 1 /\ Len(wire) + 1 - 1 = Len(wire)
      BY <1>2
    <3> QED BY <3>1 DEF Prev
  <2>3. Prev(Len(wire) + 1)' = IF Len(wire') + 1 = 1 THEN decoder'
                                                      ELSE wire'[Len(wire') + 1 - 1]
    BY DEF Prev
  <2>4. CASE Len(wire) # 1
    <3>1. /\ Len(wire') + 1 # 1 /\ Len(wire') + 1 - 1 = Len(wire) - 1
          /\ Len(wire) - 1 \in 1 .. Len(wire) - 1 /\ Len(wire) - 1 + 1 = Len(wire)
      BY <1>2, <2>4
    <3>2. wire'[Len(wire) - 1] = wire[Len(wire)]
      BY <1>2, <3>1
    <3> QED BY <2>1, <2>2, <2>3, <3>1, <3>2, ExcuseStays
  <2>5. CASE Len(wire) = 1 /\ decoder' = wire[1]
    <3>1. Len(wire') + 1 = 1
      BY <1>2, <2>5
    <3> QED BY <2>1, <2>2, <2>3, <2>5, <3>1, ExcuseStays
  <2>6. CASE Len(wire) = 1 /\ ~Follows(decoder, wire[1])
    <3>1. Excuse(wire[1][1])
      BY <1>6, <2>6
    <3>2. Before(wire[1], <<Base + 1, written + 1>>)
      BY <1>1, <1>4, <1>8 DEF Ordered
    <3>3. /\ wire[1][1] < Base + 1 \/ wire[1][1] = Base + 1
          /\ wire[1][1] \in Int /\ Base + 1 \in Int
      BY <1>3, <1>4, <3>2, BaseInt DEF Before
    <3>4. wire[1][1] <= Base + 1
      BY <3>3
    <3>5. Excuse(Base + 1)
      BY <3>1, <3>3, <3>4, ExcuseSpreads
    <3> QED BY <3>5, ExcuseStays
  <2> QED BY <2>4, <2>5, <2>6
<1> QED BY <1>5, <1>7, <1>8 DEF Linked, Excuse, Follows

LEMMA SeqDomain ==
  ASSUME NEW S, NEW q \in Seq(S)
  PROVE  DOMAIN q = 1 .. Len(q) /\ Len(q) \in Nat
OBVIOUS

LEMMA AppendLast ==
  ASSUME NEW S, NEW q \in Seq(S), NEW e \in S
  PROVE  /\ Len(q) + 1 \in DOMAIN Append(q, e)
         /\ Append(q, e)[Len(q) + 1] = e
OBVIOUS

LEMMA StepBack ==
  \A len \in Nat : \A a \in 1 .. len :
    a # 1 => a - 1 \in 1 .. len - 1 /\ a - 1 + 1 = a
OBVIOUS

LEMMA PairParts == \A m, q : <<m, q>>[1] = m /\ <<m, q>>[2] = q
OBVIOUS

LEMMA PairIs ==
  ASSUME NEW p, NEW m, NEW q, p = <<m, q>>
  PROVE  p[1] = m /\ p[2] = q
BY PairParts

LEMMA LastElement ==
  ASSUME NEW S, NEW q \in Seq(S), NEW e \in S, NEW z, z = Append(q, e)
  PROVE  e \in Elements(z)
BY AppendLast DEF Elements

LEMMA ReadsShipped ==
  ASSUME LInd, Reads, Grows, result' = result,
         \/ wire[1][2] = Pieces => stored' = Append(stored, wire[1][1])
         \/ reason'[wire[1][1]] # {},
         \A m \in Msgs : "stream out of step" \in reason'[m] =>
                           \/ "stream out of step" \in reason[m]
                           \/ m = wire[1][1] /\ Excuse(m)
  PROVE  TrueMeansShipped'
<1>1. TypeOK /\ TrueMeansShipped
  BY DEF LInd
<1>2. /\ Len(wire) \in Nat /\ Len(wire) > 0
      /\ Len(wire') = Len(wire) - 1
      /\ wire' \in Seq(Piece) /\ wire \in Seq(Piece) /\ stored \in Seq(Msgs)
      /\ \A a \in 1 .. Len(wire) - 1 : wire'[a] = wire[a + 1]
  BY <1>1, Scalars DEF Reads, TypeOK
<1>3. \A m \in Elements(stored) : m \in Elements(stored')
  <2>1. \A x \in 1 .. Len(stored) : x \in 1 .. Len(stored') /\ stored'[x] = stored[x]
    BY <1>1, StoredFacts
  <2>2. stored' \in Seq(Msgs) /\ stored \in Seq(Msgs)
    BY <1>1, <1>2, StoredFacts
  <2>3. DOMAIN stored = 1 .. Len(stored) /\ DOMAIN stored' = 1 .. Len(stored')
    BY <2>2, SeqDomain
  <2> QED BY <2>1, <2>3 DEF Elements
<1>4. ASSUME NEW m \in Msgs, <<m, Pieces>> \in Elements(wire)
      PROVE  \/ <<m, Pieces>> \in Elements(wire')
             \/ wire[1] = <<m, Pieces>>
  <2>1. DOMAIN wire = 1 .. Len(wire) /\ DOMAIN wire' = 1 .. Len(wire')
    BY <1>2, SeqDomain
  <2>2. PICK a \in 1 .. Len(wire) : wire[a] = <<m, Pieces>>
    BY <1>4, <2>1 DEF Elements
  <2>3. CASE a # 1
    <3>1. a - 1 \in 1 .. Len(wire') /\ a - 1 \in 1 .. Len(wire) - 1 /\ a - 1 + 1 = a
      BY <1>2, <2>2, <2>3, StepBack
    <3>2. wire'[a - 1] = <<m, Pieces>>
      BY <1>2, <2>2, <3>1
    <3> QED BY <2>1, <3>1, <3>2 DEF Elements
  <2> QED BY <2>2, <2>3
<1>5. ASSUME NEW m \in Msgs, wire[1] = <<m, Pieces>>
      PROVE  m \in Elements(stored') \/ reason'[m] # {}
  <2>1. wire[1][1] = m /\ wire[1][2] = Pieces
    BY ONLY <1>5, PairIs
  <2>2. CASE stored' = Append(stored, m)
    BY ONLY <1>2, <1>5, <2>2, LastElement
  <2> QED BY <2>1, <2>2
<1>6. ASSUME NEW m \in Msgs, result'[m] = "true"
      PROVE  \/ m \in Elements(stored') \/ <<m, Pieces>> \in Elements(wire')
             \/ reason'[m] # {}
  <2>1. \/ m \in Elements(stored) \/ <<m, Pieces>> \in Elements(wire)
        \/ reason[m] # {}
    BY <1>1, <1>6 DEF TrueMeansShipped
  <2>2. reason[m] \subseteq reason'[m]
    BY DEF Grows
  <2> QED BY <1>3, <1>4, <1>5, <2>1, <2>2
<1>7. ASSUME NEW m \in Msgs, "stream out of step" \in reason'[m]
      PROVE  \E x \in 1 .. m : LeftHalfWay(x)'
  <2>1. CASE "stream out of step" \in reason[m]
    <3>1. PICK x \in 1 .. m : LeftHalfWay(x)
      BY <1>1, <2>1 DEF TrueMeansShipped
    <3>2. x \in Msgs
      BY EarlierMsgs
    <3> QED BY <3>1, <3>2 DEF Grows, LeftHalfWay
  <2>2. CASE Excuse(m)
    <3>1. PICK x \in Msgs : x <= m /\ LeftHalfWay(x)'
      BY <2>2, ExcuseStays
    <3>2. x \in 1 .. m
      BY <3>1, EarlierMsgs
    <3> QED BY <3>1, <3>2
  <2> QED BY <1>7, <2>1, <2>2
<1> QED BY <1>6, <1>7 DEF TrueMeansShipped, Elements

LEMMA DeliverStep == LInd /\ Deliver => LInd'
<1> SUFFICES ASSUME LInd, Deliver PROVE LInd'
  OBVIOUS
<1>1. /\ pc' = pc /\ ending' = ending /\ n' = n /\ logs' = logs
      /\ log_times' = log_times /\ at' = at /\ written' = written
      /\ retry' = retry /\ socket' = socket /\ result' = result
      /\ alive' = alive /\ wire # <<>> /\ wire' = Tail(wire)
  BY DEF Deliver, phpvars, postvars
<1>2. PhpTypes /\ NetTypes /\ Numbered /\ TypeOK /\ Linked
  BY TypesAre DEF LInd
<1>3. PhpTypes' /\ Base' = Base /\ (Active' <=> Active)
  BY <1>1, <1>2 DEF PhpTypes, Base, Posting, Active
<1>4. Numbered'
  BY <1>1, <1>2, <1>3 DEF Numbered
<1>5. /\ Len(wire) > 0 /\ Head(wire) = wire[1] /\ wire[1] \in Piece
      /\ wire' \in Seq(Piece) /\ Len(wire') = Len(wire) - 1
      /\ \A a \in 1 .. Len(wire) - 1 : wire'[a] = wire[a + 1]
      /\ Len(wire) \in Nat
  <2>1. wire \in Seq(Piece)
    BY <1>2 DEF NetTypes
  <2> QED BY <1>1, <2>1, TailFacts
<1>6. wire[1][1] \in Msgs /\ reason \in [Msgs -> SUBSET Reasons]
  BY <1>2, <1>5 DEF Piece, NetTypes
<1>7. InStep(wire[1]) <=> Follows(decoder, wire[1])
  BY DEF InStep, Follows
<1>8. \/ /\ decoder' = wire[1] /\ reason' = reason
         /\ stored' = IF wire[1][2] = Pieces THEN Append(stored, wire[1][1])
                                             ELSE stored
      \/ /\ ~Follows(decoder, wire[1]) /\ decoder' = Lost /\ stored' = stored
         /\ reason' = Blame({wire[1][1]}, "stream out of step")
  BY <1>5, <1>7 DEF Deliver
<1>9. Reads
  BY <1>5, <1>8 DEF Reads
<1>10. /\ reason' \in [Msgs -> SUBSET Reasons] /\ Grows
       /\ decoder' \in {Start, Lost} \cup Piece
       /\ \/ wire[1][2] = Pieces => stored' = Append(stored, wire[1][1])
          \/ reason'[wire[1][1]] # {}
       /\ \A m \in Msgs : "stream out of step" \in reason'[m] =>
                            \/ "stream out of step" \in reason[m]
                            \/ m = wire[1][1] /\ ~Follows(decoder, wire[1])
       /\ decoder' = wire[1] \/ ~Follows(decoder, wire[1])
  <2>1. CASE decoder' = wire[1] /\ reason' = reason
             /\ stored' = IF wire[1][2] = Pieces THEN Append(stored, wire[1][1])
                                                 ELSE stored
    BY <1>1, <1>5, <1>6, <2>1 DEF Grows
  <2>2. CASE /\ ~Follows(decoder, wire[1]) /\ decoder' = Lost
             /\ reason' = Blame({wire[1][1]}, "stream out of step")
    <3>1. "stream out of step" \in Reasons
      BY DEF Reasons
    <3> DEFINE m1 == wire[1][1]
    <3>0. m1 \in Msgs /\ reason' = Blame({m1}, "stream out of step")
      BY <1>6, <2>2
    <3> HIDE DEF m1
    <3>4. /\ reason' \in [Msgs -> SUBSET Reasons]
          /\ \A m \in Msgs : reason[m] \subseteq reason'[m]
          /\ "stream out of step" \in reason'[m1]
          /\ \A m \in Msgs : m # m1 => reason'[m] = reason[m]
      BY ZenonT(30), <1>6, <3>0, <3>1, BlameFacts
    <3>2. /\ reason' \in [Msgs -> SUBSET Reasons]
          /\ \A m \in Msgs : reason[m] \subseteq reason'[m]
          /\ "stream out of step" \in reason'[wire[1][1]]
          /\ \A m \in Msgs : m # wire[1][1] => reason'[m] = reason[m]
      BY <3>4 DEF m1
    <3>3. Grows
      BY <1>1, <3>2 DEF Grows
    <3> QED BY <2>2, <3>2, <3>3
  <2> QED BY <1>8, <2>1, <2>2
<1>11. Ordered' /\ StoredOnceInOrder'
  BY <1>1, <1>3, <1>9, ReadsOrdered
<1>12. Linked'
  BY <1>1, <1>3, <1>9, <1>10, ReadsLinked
<1>13. Follows(decoder, wire[1]) \/ Excuse(wire[1][1])
  <2>1. 1 \in 1 .. Len(wire) /\ Prev(1) = decoder
    BY <1>5 DEF Prev
  <2> QED BY <1>2, <2>1 DEF Linked
<1>14. TrueMeansShipped'
  <2>1. \A m \in Msgs : "stream out of step" \in reason'[m] =>
                          \/ "stream out of step" \in reason[m]
                          \/ m = wire[1][1] /\ Excuse(m)
    BY <1>10, <1>13
  <2> QED BY <1>1, <1>9, <1>10, <2>1, ReadsShipped
<1>15. NetTypes'
  <2>1. stored' \in Seq(Msgs)
    BY <1>2, <1>9, StoredFacts
  <2> QED BY <1>1, <1>2, <1>5, <1>10, <2>1 DEF NetTypes
<1> QED BY <1>3, <1>4, <1>11, <1>12, <1>14, <1>15, TypesAreNext DEF LInd

-----------------------------------------------------------------------------
(* fwrite takes some pieces.                                               *)

LEMMA AdvancePhp ==
  ASSUME LInd, pc = "write", NEW k \in 1 .. Pieces - written, Advance(k)
  PROVE  /\ PhpTypes' /\ Numbered'
         /\ \/ /\ written + k < Pieces /\ written' = written + k
               /\ Base' = Base /\ Active' /\ result' = result
            \/ /\ written + k = Pieces /\ written' = 0
               /\ Active' => Base' = Base + 1
               /\ result' = [result EXCEPT ![Base + 1] = "true"]
<1>1. PhpTypes /\ Numbered /\ Posting /\ TypeOK
  BY TypesAre DEF LInd, Posting
<1>2. written \in Nat /\ Pieces \in Nat /\ k \in Nat /\ k <= Pieces - written
  BY <1>1, LogAssumption, PlaceNumbers
<1>3. CASE written + k < Pieces
  <2>1. /\ written' = written + k /\ pc' = pc /\ ending' = ending /\ n' = n
        /\ logs' = logs /\ log_times' = log_times /\ at' = at
        /\ retry' = retry /\ result' = result
    BY <1>3 DEF Advance, phpvars
  <2>2. written' \in 0 .. Pieces - 1
    BY ONLY <1>2, <1>3, <2>1
  <2>3. PhpTypes' /\ Base' = Base /\ Active'
    BY <1>1, <2>1, <2>2 DEF PhpTypes, Base, Posting, Active
  <2>4. Numbered'
    BY <1>1, <2>1, <2>3 DEF Numbered, Active
  <2> QED BY <1>3, <2>1, <2>3, <2>4
<1>4. CASE ~(written + k < Pieces)
  <2>1. Return("true")
    BY <1>4 DEF Advance
  <2>2. written + k = Pieces
    BY ONLY <1>2, <1>4
  <2> QED BY <1>1, <2>1, <2>2, ReturnPhp
<1> QED BY <1>3, <1>4

\* What a write of k pieces adds to the wire.
Sends(k) ==
  /\ wire' \in Seq(Piece) /\ Len(wire') = Len(wire) + k
  /\ \A a \in 1 .. Len(wire) : wire'[a] = wire[a]
  /\ \A a \in Len(wire) + 1 .. Len(wire) + k :
       wire'[a] = <<Base + 1, written + (a - Len(wire))>>

LEMMA SomeSends ==
  ASSUME LInd, pc = "write", NEW k \in 1 .. Pieces - written,
         wire' = wire \o [p \in 1 .. k |-> <<Current, written + p>>]
  PROVE  Sends(k)
<1>1. Current = Base + 1 /\ Base + 1 \in Msgs /\ TypeOK
  BY BaseFacts DEF LInd, Posting
<1>2. written \in Nat /\ Pieces \in Nat /\ k \in Nat /\ k <= Pieces - written
  BY <1>1, LogAssumption, PlaceNumbers
<1> DEFINE new == [p \in 1 .. k |-> <<Base + 1, written + p>>]
<1>3. \A p \in 1 .. k : <<Base + 1, written + p>> \in Piece
  <2>1. \A p \in 1 .. k : written + p \in 1 .. Pieces
    BY ONLY <1>2
  <2> QED BY ONLY <1>1, <2>1 DEF Piece
<1>4. new \in Seq(Piece) /\ Len(new) = k
  BY ONLY <1>2, <1>3
<1>5. wire \in Seq(Piece) /\ wire' = wire \o new
  BY <1>1 DEF TypeOK
<1>6. \A p \in 1 .. k : new[p] = <<Base + 1, written + p>>
  OBVIOUS
<1> HIDE DEF new
<1>7. /\ wire' \in Seq(Piece) /\ Len(wire') = Len(wire) + k
      /\ \A a \in 1 .. Len(wire) + k :
           wire'[a] = IF a <= Len(wire) THEN wire[a] ELSE new[a - Len(wire)]
  BY ONLY <1>2, <1>4, <1>5, ConcatProperties
<1>8. Len(wire) \in Nat
  BY ONLY <1>5
<1>9. \A a \in 1 .. Len(wire) : wire'[a] = wire[a]
  BY ONLY <1>2, <1>7, <1>8
<1>10. ASSUME NEW a \in Len(wire) + 1 .. Len(wire) + k
       PROVE  wire'[a] = <<Base + 1, written + (a - Len(wire))>>
  <2>1. a \in 1 .. Len(wire) + k /\ ~(a <= Len(wire)) /\ a - Len(wire) \in 1 .. k
    BY ONLY <1>2, <1>8
  <2> QED BY ONLY <1>6, <1>7, <2>1
<1> QED BY <1>7, <1>9, <1>10 DEF Sends

LEMMA SendsOrdered ==
  ASSUME LInd, Posting, NEW k \in 1 .. Pieces - written, Sends(k),
         stored' = stored,
         \/ written' = written + k /\ Base' = Base
         \/ written' = 0 /\ (Active' => Base' = Base + 1)
  PROVE  Ordered' /\ StoredOnceInOrder'
<1>1. TypeOK /\ Ordered /\ StoredOnceInOrder /\ Active
  BY DEF LInd, Posting, Active
<1>2. /\ written \in Nat /\ Pieces \in Nat /\ k \in Nat /\ k > 0
      /\ Len(wire) \in Nat /\ Base \in Int
  BY <1>1, LogAssumption, PlaceNumbers, Scalars, BaseInt
<1>3. /\ Len(wire') = Len(wire) + k
      /\ \A a \in 1 .. Len(wire) : wire'[a] = wire[a]
  BY DEF Sends
<1>4. ASSUME NEW a \in 1 .. Len(wire'), ~(a <= Len(wire))
      PROVE  /\ wire'[a][1] = Base + 1 /\ wire'[a][2] = written + (a - Len(wire))
             /\ a \in Int /\ Len(wire) < a /\ a <= Len(wire) + k
  <2>1. a \in Len(wire) + 1 .. Len(wire) + k
    BY ONLY <1>2, <1>3, <1>4
  <2>2. wire'[a] = <<Base + 1, written + (a - Len(wire))>>
    BY <2>1 DEF Sends
  <2> QED BY ONLY <1>2, <2>1, <2>2, PairIs
<1>5. ASSUME NEW a \in 1 .. Len(wire'), a <= Len(wire)
      PROVE  /\ a \in 1 .. Len(wire) /\ wire'[a] = wire[a]
             /\ wire'[a][1] \in Int /\ wire'[a][2] \in Int
             /\ \/ wire'[a][1] < Base + 1
                \/ wire'[a][1] = Base + 1 /\ wire'[a][2] < written + 1
  <2>1. a \in 1 .. Len(wire)
    BY ONLY <1>2, <1>3, <1>5
  <2>2. Before(wire[a], <<Base + 1, written + 1>>)
    BY <1>1, <2>1 DEF Ordered
  <2>3. \/ wire[a][1] < Base + 1
        \/ wire[a][1] = Base + 1 /\ wire[a][2] < written + 1
    BY ONLY <2>2, PairParts DEF Before
  <2>4. wire[a][1] \in Int /\ wire[a][2] \in Int /\ wire'[a] = wire[a]
    BY <1>1, <1>3, <2>1, Scalars
  <2> QED BY ONLY <2>1, <2>3, <2>4
<1>6. ASSUME NEW a \in 1 .. Len(wire'), NEW b \in 1 .. Len(wire'), a < b
      PROVE  Before(wire'[a], wire'[b])
  <2>0. a \in Int /\ b \in Int
    BY ONLY <1>2, <1>3, <1>6
  <2>1. CASE b <= Len(wire)
    <3>1. a <= Len(wire)
      BY ONLY <1>2, <1>6, <2>0, <2>1
    <3>2. a \in 1 .. Len(wire) /\ b \in 1 .. Len(wire)
      BY <1>5, <2>1, <3>1
    <3>3. Before(wire[a], wire[b])
      BY <1>1, <1>6, <3>2 DEF Ordered
    <3> QED BY <1>3, <3>2, <3>3
  <2>2. CASE a <= Len(wire) /\ ~(b <= Len(wire))
    <3>1. \/ wire'[a][1] < Base + 1
          \/ wire'[a][1] = Base + 1 /\ wire'[a][2] < written + 1
      BY <1>5, <2>2
    <3>2. wire'[b][1] = Base + 1 /\ wire'[b][2] = written + (b - Len(wire))
          /\ Len(wire) < b /\ wire'[a][2] \in Int
      BY <1>4, <1>5, <2>2
    <3>3. \/ wire'[a][1] < wire'[b][1]
          \/ wire'[a][1] = wire'[b][1] /\ wire'[a][2] < wire'[b][2]
      BY ONLY <1>2, <2>0, <3>1, <3>2
    <3> QED BY ONLY <3>3 DEF Before
  <2>3. CASE ~(a <= Len(wire)) /\ ~(b <= Len(wire))
    <3>1. /\ wire'[a][1] = Base + 1 /\ wire'[a][2] = written + (a - Len(wire))
          /\ wire'[b][1] = Base + 1 /\ wire'[b][2] = written + (b - Len(wire))
      BY <1>4, <2>3
    <3>2. wire'[a][1] = wire'[b][1] /\ wire'[a][2] < wire'[b][2]
      BY ONLY <1>2, <1>6, <2>0, <3>1
    <3> QED BY ONLY <3>2 DEF Before
  <2> QED BY <2>1, <2>2, <2>3
<1>7. ASSUME NEW a \in 1 .. Len(wire'), NEW x \in 1 .. Len(stored)
      PROVE  stored[x] < wire'[a][1]
  <2>1. CASE a <= Len(wire)
    <3>1. a \in 1 .. Len(wire) /\ wire'[a] = wire[a]
      BY <1>5, <2>1
    <3>2. stored[x] < wire[a][1]
      BY <1>1, <3>1 DEF Ordered
    <3> QED BY <3>1, <3>2
  <2>2. CASE ~(a <= Len(wire))
    <3>1. stored[x] <= Base /\ stored[x] \in Int
      BY <1>1, Scalars DEF Ordered
    <3>2. wire'[a][1] = Base + 1
      BY <1>4, <2>2
    <3> QED BY ONLY <1>2, <3>1, <3>2
  <2> QED BY <2>1, <2>2
<1>8. ASSUME Active', NEW a \in 1 .. Len(wire')
      PROVE  Before(wire'[a], <<Base' + 1, written' + 1>>)
  <2>1. /\ wire'[a][1] \in Int /\ wire'[a][2] \in Int
        /\ \/ wire'[a][1] < Base + 1
           \/ wire'[a][1] = Base + 1 /\ wire'[a][2] < written + k + 1
    <3>1. CASE a <= Len(wire)
      <4>1. /\ wire'[a][1] \in Int /\ wire'[a][2] \in Int
            /\ \/ wire'[a][1] < Base + 1
               \/ wire'[a][1] = Base + 1 /\ wire'[a][2] < written + 1
        BY <1>5, <3>1
      <4> QED BY ONLY <1>2, <4>1
    <3>2. CASE ~(a <= Len(wire))
      <4>1. /\ wire'[a][1] = Base + 1 /\ wire'[a][2] = written + (a - Len(wire))
            /\ a \in Int /\ a <= Len(wire) + k
        BY <1>4, <3>2
      <4> QED BY ONLY SMTT(30), <1>2, <4>1
    <3> QED BY <3>1, <3>2
  <2>2. \/ written' = written + k /\ Base' = Base
        \/ written' = 0 /\ Base' = Base + 1
    BY <1>8
  <2>3. \/ wire'[a][1] < Base' + 1
        \/ wire'[a][1] = Base' + 1 /\ wire'[a][2] < written' + 1
    BY ONLY <1>2, <2>1, <2>2
  <2> QED BY ONLY <2>3, PairParts DEF Before
<1>9. ASSUME Active', NEW x \in 1 .. Len(stored) PROVE stored[x] <= Base'
  <2>1. stored[x] <= Base /\ stored[x] \in Int
    BY <1>1, Scalars DEF Ordered
  <2>2. Base' = Base \/ Base' = Base + 1
    BY <1>9
  <2> QED BY ONLY <1>2, <2>1, <2>2
<1>10. StoredOnceInOrder'
  BY <1>1 DEF StoredOnceInOrder
<1>11. Ordered'
  BY <1>6, <1>7, <1>8, <1>9 DEF Ordered, Before
<1> QED BY <1>10, <1>11

LEMMA SendsLinked ==
  ASSUME LInd, Posting, alive, alive' = alive, Grows, decoder' = decoder,
         NEW k \in 1 .. Pieces - written, Sends(k),
         \/ written' = written + k /\ Base' = Base
         \/ written + k = Pieces /\ written' = 0 /\ (Active' => Base' = Base + 1)
  PROVE  Linked'
<1>1. TypeOK /\ Linked /\ Active
  BY DEF LInd, Posting, Active
<1>2. /\ written \in Nat /\ Pieces \in Nat /\ k \in Nat /\ k > 0
      /\ Len(wire) \in Nat /\ Base \in Int
  BY <1>1, LogAssumption, PlaceNumbers, Scalars, BaseInt
<1>3. /\ Len(wire') = Len(wire) + k
      /\ \A a \in 1 .. Len(wire) : wire'[a] = wire[a]
      /\ \A a \in Len(wire) + 1 .. Len(wire) + k :
           wire'[a] = <<Base + 1, written + (a - Len(wire))>>
  BY DEF Sends
<1>4. ASSUME NEW a \in 1 .. Len(wire) + 1 PROVE Prev(a)' = Prev(a)
  <2>1. CASE a = 1
    BY <2>1 DEF Prev
  <2>2. CASE a # 1
    <3>1. a - 1 \in 1 .. Len(wire)
      BY ONLY <1>2, <2>2
    <3> QED BY <1>3, <2>2, <3>1 DEF Prev
  <2> QED BY <2>1, <2>2
<1>5. ASSUME NEW a \in 1 .. Len(wire')
      PROVE  \/ Follows(Prev(a)', wire'[a])
             \/ \E x \in Msgs : x <= wire'[a][1] /\ LeftHalfWay(x)'
  <2>1. CASE a <= Len(wire)
    <3>1. a \in 1 .. Len(wire) /\ a \in 1 .. Len(wire) + 1
      BY ONLY <1>2, <1>3, <2>1
    <3>2. Follows(Prev(a), wire[a]) \/ Excuse(wire[a][1])
      BY <1>1, <3>1 DEF Linked
    <3>3. Prev(a)' = Prev(a) /\ wire'[a] = wire[a]
      BY <1>3, <1>4, <3>1
    <3> QED BY <3>2, <3>3, ExcuseStays
  <2>2. CASE a = Len(wire) + 1
    <3>1. /\ a \in 1 .. Len(wire) + 1 /\ a \in Len(wire) + 1 .. Len(wire) + k
          /\ written + (a - Len(wire)) = written + 1
      BY ONLY <1>2, <2>2
    <3>2. wire'[a] = <<Base + 1, written + 1>> /\ Prev(a)' = Prev(a)
      BY <1>3, <1>4, <3>1
    <3>3. \/ Follows(Prev(a), <<Base + 1, written + 1>>)
          \/ Excuse(Base + 1)
      BY <1>1, <2>2 DEF Linked
    <3>4. wire'[a][1] = Base + 1
      BY ONLY <3>2, PairIs
    <3> QED BY <3>2, <3>3, <3>4, ExcuseStays
  <2>3. CASE a > Len(wire) + 1
    <3>1. /\ a \in Len(wire) + 1 .. Len(wire) + k
          /\ a - 1 \in Len(wire) + 1 .. Len(wire) + k /\ a # 1
      BY ONLY <1>2, <1>3, <2>3
    <3> DEFINE q == written + (a - Len(wire))
    <3>2. q > 1 /\ written + ((a - 1) - Len(wire)) = q - 1
      BY ONLY <1>2, <2>3, <3>1
    <3>3. wire'[a] = <<Base + 1, q>> /\ wire'[a - 1] = <<Base + 1, q - 1>>
      BY <1>3, <3>1, <3>2
    <3> HIDE DEF q
    <3>4. Prev(a)' = <<Base + 1, q - 1>>
      BY <3>1, <3>3 DEF Prev
    <3>5. wire'[a][1] = Base + 1 /\ wire'[a][2] = q
      BY ONLY <3>3, PairIs
    <3> QED BY ONLY <3>2, <3>4, <3>5 DEF Follows
  <2>4. a <= Len(wire) \/ a = Len(wire) + 1 \/ a > Len(wire) + 1
    BY ONLY <1>2, <1>3
  <2> QED BY <2>1, <2>2, <2>3, <2>4
<1>6. ASSUME Active'
      PROVE  Follows(Prev(Len(wire) + 1)', <<Base' + 1, written' + 1>>)
  <2>1. /\ Len(wire) + k \in Len(wire) + 1 .. Len(wire) + k
        /\ Len(wire') + 1 # 1 /\ Len(wire') + 1 - 1 = Len(wire) + k
        /\ written + ((Len(wire) + k) - Len(wire)) = written + k
    BY ONLY <1>2, <1>3
  <2>2. wire'[Len(wire) + k] = <<Base + 1, written + k>>
    BY <1>3, <2>1
  <2>3. Prev(Len(wire) + 1)' = <<Base + 1, written + k>>
    BY <2>1, <2>2 DEF Prev
  <2>4. Follows(<<Base + 1, written + k>>, <<Base' + 1, written' + 1>>)
    <3>1. CASE written' = written + k /\ Base' = Base
      <4>1. written' + 1 > 1 /\ written' + 1 - 1 = written + k
        BY ONLY <1>2, <3>1
      <4> QED BY ONLY <3>1, <4>1, PairParts DEF Follows
    <3>2. CASE written + k = Pieces /\ written' = 0
      <4>1. written' + 1 = 1
        BY ONLY <3>2
      <4> QED BY ONLY <3>2, <4>1, PairParts DEF Follows
    <3> QED BY <3>1, <3>2
  <2> QED BY <2>3, <2>4
<1> QED BY <1>5, <1>6 DEF Linked, Excuse, Follows

LEMMA SendsShipped ==
  ASSUME LInd, Posting, NEW k \in 1 .. Pieces - written, Sends(k),
         stored' = stored, reason' = reason,
         \/ result' = result
         \/ written + k = Pieces /\ result' = [result EXCEPT ![Base + 1] = "true"]
  PROVE  TrueMeansShipped'
<1>1. TypeOK /\ TrueMeansShipped /\ Base + 1 \in Msgs /\ result[Base + 1] = "none"
  BY BaseFacts DEF LInd
<1>2. /\ written \in Nat /\ Pieces \in Nat /\ k \in Nat /\ k > 0
      /\ Len(wire) \in Nat /\ Base \in Int
  BY <1>1, LogAssumption, PlaceNumbers, Scalars, BaseInt
<1>3. /\ Len(wire') = Len(wire) + k /\ wire' \in Seq(Piece)
      /\ \A a \in 1 .. Len(wire) : wire'[a] = wire[a]
      /\ \A a \in Len(wire) + 1 .. Len(wire) + k :
           wire'[a] = <<Base + 1, written + (a - Len(wire))>>
  BY DEF Sends
<1>4. DOMAIN wire' = 1 .. Len(wire) + k /\ DOMAIN wire = 1 .. Len(wire)
  BY <1>1, <1>3, SeqDomain DEF TypeOK
<1>5. \A e \in Elements(wire) : e \in Elements(wire')
  <2>1. \A a \in 1 .. Len(wire) : a \in 1 .. Len(wire) + k
    BY ONLY <1>2
  <2> QED BY ONLY <1>3, <1>4, <2>1 DEF Elements
<1>6. ASSUME written + k = Pieces PROVE <<Base + 1, Pieces>> \in Elements(wire')
  <2>1. /\ Len(wire) + k \in Len(wire) + 1 .. Len(wire) + k
        /\ Len(wire) + k \in 1 .. Len(wire) + k
        /\ written + ((Len(wire) + k) - Len(wire)) = Pieces
    BY ONLY <1>2, <1>6
  <2>2. wire'[Len(wire) + k] = <<Base + 1, Pieces>>
    BY <1>3, <2>1
  <2> QED BY ONLY <1>4, <2>1, <2>2 DEF Elements
<1>7. ASSUME NEW m \in Msgs, result'[m] = "true"
      PROVE  \/ m \in Elements(stored) \/ <<m, Pieces>> \in Elements(wire')
             \/ reason[m] # {}
  <2>1. CASE result[m] = "true"
    BY <1>1, <1>5, <2>1 DEF TrueMeansShipped
  <2>2. CASE result[m] # "true"
    <3>1. result \in [Msgs -> {"none", "true", "false"}]
      BY <1>1 DEF TypeOK
    <3>2. m = Base + 1 /\ written + k = Pieces
      BY <1>1, <1>7, <2>2, <3>1
    <3> QED BY <1>6, <3>2
  <2> QED BY <2>1, <2>2
<1>8. ASSUME NEW m \in Msgs, "stream out of step" \in reason[m]
      PROVE  \E x \in 1 .. m : LeftHalfWay(x)'
  <2>1. PICK x \in 1 .. m : LeftHalfWay(x)
    BY <1>1, <1>8 DEF TrueMeansShipped
  <2>2. x \in Msgs
    BY EarlierMsgs
  <2>3. result \in [Msgs -> {"none", "true", "false"}]
    BY <1>1 DEF TypeOK
  <2>4. result[x] = "false" => result'[x] = "false"
    BY <1>1, <2>2, <2>3
  <2> QED BY <2>1, <2>4 DEF LeftHalfWay
<1> QED BY <1>7, <1>8 DEF TrueMeansShipped, Elements

LEMMA WriteSomeStep ==
  ASSUME LInd, NEW k \in 1 .. Pieces, WriteSome(k)
  PROVE  LInd'
<1>1. /\ pc = "write" /\ k \in 1 .. Pieces - written /\ Advance(k)
      /\ socket' = socket /\ alive' = alive /\ decoder' = decoder
      /\ stored' = stored
      /\ wire' = IF alive THEN wire \o [p \in 1 .. k |-> <<Current, written + p>>]
                          ELSE wire
      /\ reason' = IF alive THEN reason ELSE Blame({Current}, "link broke")
  BY DEF WriteSome
<1>2. TypeOK /\ NetTypes /\ Posting /\ Active
  BY <1>1, TypesAre DEF LInd, Posting, Active
<1>3. /\ PhpTypes' /\ Numbered'
      /\ \/ /\ written + k < Pieces /\ written' = written + k
            /\ Base' = Base /\ Active' /\ result' = result
         \/ /\ written + k = Pieces /\ written' = 0
            /\ Active' => Base' = Base + 1
            /\ result' = [result EXCEPT ![Base + 1] = "true"]
  BY <1>1, AdvancePhp
<1>4. /\ Current = Base + 1 /\ Base + 1 \in Msgs /\ result[Base + 1] = "none"
      /\ reason \in [Msgs -> SUBSET Reasons]
      /\ result \in [Msgs -> {"none", "true", "false"}]
  BY <1>2, BaseFacts DEF TypeOK
<1>5. \A m \in Msgs : /\ result[m] = "false" => result'[m] = "false"
                      /\ result'[m] = "true" => result[m] = "true" \/ m = Base + 1
  BY ONLY <1>3, <1>4
<1>6. CASE alive
  <2>1. wire' = wire \o [p \in 1 .. k |-> <<Current, written + p>>] /\ reason' = reason
    BY <1>1, <1>6
  <2>2. Sends(k)
    BY <1>1, <2>1, SomeSends
  <2>3. Grows
    BY <1>5, <2>1 DEF Grows
  <2>4. NetTypes'
    BY <1>1, <1>2, <2>1, <2>2 DEF NetTypes, Sends
  <2>5. Ordered' /\ StoredOnceInOrder'
    BY <1>1, <1>2, <1>3, <2>2, SendsOrdered
  <2>6. Linked'
    BY <1>1, <1>2, <1>3, <1>6, <2>2, <2>3, SendsLinked
  <2>7. TrueMeansShipped'
    BY <1>1, <1>2, <1>3, <2>1, <2>2, SendsShipped
  <2> QED BY <1>3, <2>4, <2>5, <2>6, <2>7, TypesAreNext DEF LInd
<1>7. CASE ~alive
  <2>1. wire' = wire /\ reason' = Blame({Base + 1}, "link broke")
    BY <1>1, <1>4, <1>7
  <2>2. "link broke" \in Reasons
    BY DEF Reasons
  <2>3. /\ reason' \in [Msgs -> SUBSET Reasons]
        /\ \A m \in Msgs : reason[m] \subseteq reason'[m]
        /\ \A m \in Msgs : reason'[m] \subseteq reason[m] \cup {"link broke"}
        /\ "link broke" \in reason'[Base + 1]
    BY <1>4, <2>1, <2>2, BlameFacts
  <2>4. Grows
    BY <1>5, <2>3 DEF Grows
  <2>5. NetTypes'
    BY <1>1, <1>2, <2>1, <2>3 DEF NetTypes
  <2>6. Forward
    <3>1. written \in Nat /\ k \in Nat /\ k > 0
      BY <1>2, LogAssumption, PlaceNumbers
    <3>2. written + k > written
      BY ONLY <3>1
    <3> QED BY <1>2, <1>3, <1>7, <3>2 DEF Forward
  <2>7. TypeOK'
    BY <1>3, <2>5, TypesAreNext
  <2>8. Ordered' /\ Linked' /\ StoredOnceInOrder'
    BY <1>1, <1>7, <2>1, <2>4, <2>6, <2>7, QuietStep
  <2>9. TrueMeansShipped'
    <3>1. \A m \in Msgs : /\ result'[m] = "true" =>
                               result[m] = "true" \/ reason'[m] # {}
                          /\ "stream out of step" \in reason'[m] =>
                               "stream out of step" \in reason[m]
      BY ONLY <1>5, <2>3
    <3> QED BY <1>1, <2>1, <2>4, <3>1, QuietShipped
  <2> QED BY <1>3, <2>7, <2>8, <2>9 DEF LInd
<1> QED BY <1>6, <1>7

-----------------------------------------------------------------------------
LEMMA StepLInd == LInd /\ [Next]_vars => LInd'
<1> SUFFICES ASSUME LInd, [Next]_vars PROVE LInd'
  OBVIOUS
<1>1. CASE UNCHANGED vars
  BY <1>1, StutterLInd
<1>2. CASE \E force \in BOOLEAN : Log(force)
  BY <1>2, LogStep
<1>3. CASE Shutdown
  BY <1>3, ShutdownStep
<1>4. CASE Post
  <2>1. CASE Reuse
    BY <2>1, ReuseStep
  <2>2. CASE PostConnects
    BY <2>2, PostConnectsStep
  <2>3. CASE PostCannotConnect \/ WriteFails \/ WriteGivesUp \/ PipeStaysBroken
    BY <2>3, FalseSteps
  <2>4. CASE \E k \in 1 .. Pieces : WriteSome(k)
    BY <2>4, WriteSomeStep
  <2>5. CASE WriteZero
    BY <2>5, WriteZeroStep
  <2>6. CASE PipeReconnects
    BY <2>6, PipeReconnectsStep
  <2> QED BY <1>4, <2>1, <2>2, <2>3, <2>4, <2>5, <2>6 DEF Post
<1>5. CASE Kill
  BY <1>5, KillStep
<1>6. CASE Deliver
  BY <1>6, DeliverStep
<1>7. CASE Break
  BY <1>7, BreakStep
<1> QED BY <1>1, <1>2, <1>3, <1>4, <1>5, <1>6, <1>7 DEF Next

LEMMA AlwaysLInd == Spec => []LInd
BY InitLInd, StepLInd, PTL DEF Spec

(***************************************************************************)
(* For any number and length of messages, any threshold and any number of  *)
(* retries: fluentd stores no message twice and none before an earlier one.*)
(***************************************************************************)
THEOREM AlwaysStoredOnceInOrder == Spec => []StoredOnceInOrder
<1>1. LInd => StoredOnceInOrder
  BY DEF LInd
<1> QED BY <1>1, AlwaysLInd, PTL

(***************************************************************************)
(* For any number and length of messages: a message of which post() said   *)
(* true is stored or on its way, or one of the three reasons occurred; and *)
(* a stream is out of step only behind a message that was left half way.   *)
(***************************************************************************)
THEOREM TrueAlwaysMeansShipped == Spec => []TrueMeansShipped
<1>1. LInd => TrueMeansShipped
  BY DEF LInd
<1> QED BY <1>1, AlwaysLInd, PTL
=============================================================================
