------------------------------ MODULE Sorting ------------------------------
(***************************************************************************)
(* The sorts of src/c/basic_sort, each as the loop it is; main() calls one *)
(* of them (the calls in main.c are commented in and out).                 *)
(*                                                                         *)
(* data[] holds elements, not numbers: an element is named by the place it *)
(* had in the input, so that equal numbers can be told apart and one that  *)
(* is lost or doubled is seen.  The display between two passes changes     *)
(* nothing.                                                                *)
(***************************************************************************)
EXTENDS Integers, Sequences

CONSTANTS
  MaxNum,  \* bound: elements to sort
  Values   \* the numbers main() draws from

ASSUME SortingAssumption == MaxNum \in Nat /\ Values \subseteq Int

VARIABLES
  alg,     \* the sort that main() calls
  num,     \* the number of elements
  input,   \* what the elements are
  data,    \* the array
  pc,      \* the next step
  i, j,    \* loop counters
  swap,    \* bubble_sort: an exchange was made in this pass
  index,   \* select_sort: where the least element so far is
  stack,   \* quick_sort: the calls still to be made, the next one first
  left, right, key, low, high, tmp_low, tmp_high   \* quick_sort's own

counters == <<i, j>>
frame == <<left, right, key>>
cursors == <<low, high, tmp_low, tmp_high>>
quickvars == <<stack, frame, cursors>>
fixed == <<alg, num, input>>
vars == <<fixed, data, pc, counters, swap, index, quickvars>>

D == 0 .. num - 1
V(e) == input[e]

TypeOK ==
  /\ alg \in {"bubble", "insertion", "select", "quick"}
  /\ num \in 0 .. MaxNum
  /\ input \in [D -> Values]
  /\ data \in [D -> D]
  /\ pc \in {"start", "pass", "scan", "call", "loop", "down", "up", "done"}
  /\ i \in 0 .. num /\ j \in 0 .. num
  /\ swap \in {0, 1}
  /\ index \in 0 .. num
  /\ stack \in Seq((0 .. num) \X (-1 .. num))
  /\ left \in 0 .. num /\ right \in -1 .. num
  /\ key \in 0 .. num
  /\ low \in 0 .. num /\ high \in 0 .. num
  /\ tmp_low \in 0 .. num /\ tmp_high \in 0 .. num

Init ==
  /\ alg \in {"bubble", "insertion", "select", "quick"}
  /\ num \in 0 .. MaxNum
  /\ input \in [D -> Values]
  /\ data = [k \in D |-> k]
  /\ pc = "start"
  /\ i = 0 /\ j = 0 /\ swap = 0 /\ index = 0
  /\ stack = <<>>
  /\ left = 0 /\ right = 0 /\ key = 0
  /\ low = 0 /\ high = 0 /\ tmp_low = 0 /\ tmp_high = 0

At(a, where) == alg = a /\ pc = where

-----------------------------------------------------------------------------
(* bubble_sort: passes up to i, which ends one earlier each time, until a  *)
(* pass has exchanged nothing.                                             *)

BubbleStart ==
  /\ At("bubble", "start")
  /\ i' = num
  /\ swap' = 1
  /\ pc' = "pass"
  /\ UNCHANGED <<fixed, data, j, index, quickvars>>

BubblePass ==
  /\ At("bubble", "pass")
  /\ IF i > 0 /\ swap # 0 THEN swap' = 0 /\ j' = 0 /\ pc' = "scan"
                          ELSE pc' = "done" /\ UNCHANGED <<swap, j>>
  /\ UNCHANGED <<fixed, data, i, index, quickvars>>

Exchanged(k, l) == [data EXCEPT ![k] = data[l], ![l] = data[k]]

\* Mutant of LastPair: the last pair of a pass is left out.
LastPairMissed == i - 2

LastPair == i - 1

BubbleCompare ==
  /\ At("bubble", "scan")
  /\ j < LastPair
  /\ IF V(data[j]) > V(data[j + 1])
     THEN data' = Exchanged(j, j + 1) /\ swap' = 1
     ELSE UNCHANGED <<data, swap>>
  /\ j' = j + 1
  /\ UNCHANGED <<fixed, pc, i, index, quickvars>>

BubbleEndPass ==
  /\ At("bubble", "scan")
  /\ j >= LastPair
  /\ i' = i - 1
  /\ pc' = "pass"
  /\ UNCHANGED <<fixed, data, j, swap, index, quickvars>>

-----------------------------------------------------------------------------
(* The loop over i of insertion_sort, and of select_sort.                  *)

LoopStart ==
  /\ alg \in {"insertion", "select"} /\ pc = "start"
  /\ i' = 0
  /\ pc' = "pass"
  /\ UNCHANGED <<fixed, data, j, swap, index, quickvars>>

LoopEnd ==
  /\ alg \in {"insertion", "select"} /\ pc = "pass"
  /\ i >= num
  /\ pc' = "done"
  /\ UNCHANGED <<fixed, data, counters, swap, index, quickvars>>

InsertionPass ==
  /\ At("insertion", "pass")
  /\ i < num
  /\ j' = i
  /\ pc' = "scan"
  /\ UNCHANGED <<fixed, data, i, swap, index, quickvars>>

\* The element at i goes further down than j.
Lower == j > 0 /\ V(data[j]) >= V(data[i]) /\ V(data[j - 1]) >= V(data[i])

InsertionSearch ==
  /\ At("insertion", "scan")
  /\ Lower
  /\ j' = j - 1
  /\ UNCHANGED <<fixed, data, pc, i, swap, index, quickvars>>

\* The elements from j on move up by one, and that of i goes to j.
Inserted ==
  [k \in D |-> IF k = j THEN data[i]
               ELSE IF j < k /\ k <= i THEN data[k - 1] ELSE data[k]]

InsertionInsert ==
  /\ At("insertion", "scan")
  /\ ~Lower
  /\ data' = Inserted
  /\ i' = i + 1
  /\ pc' = "pass"
  /\ UNCHANGED <<fixed, j, swap, index, quickvars>>

-----------------------------------------------------------------------------
(* select_sort: tmp is always the element at index.                        *)

SelectPass ==
  /\ At("select", "pass")
  /\ i < num
  /\ index' = i
  /\ j' = i + 1
  /\ pc' = "scan"
  /\ UNCHANGED <<fixed, data, i, swap, quickvars>>

SelectCompare ==
  /\ At("select", "scan")
  /\ j < num
  /\ index' = IF V(data[j]) < V(data[index]) THEN j ELSE index
  /\ j' = j + 1
  /\ UNCHANGED <<fixed, data, pc, i, swap, quickvars>>

SelectExchange ==
  /\ At("select", "scan")
  /\ j >= num
  /\ data' = Exchanged(index, i)
  /\ i' = i + 1
  /\ pc' = "pass"
  /\ UNCHANGED <<fixed, j, swap, index, quickvars>>

-----------------------------------------------------------------------------
(* quick_sort: its first call, and calls for the parts, left before right. *)

QuickStart ==
  /\ At("quick", "start")
  /\ stack' = <<<<0, num - 1>>>>
  /\ pc' = "call"
  /\ UNCHANGED <<fixed, data, counters, swap, index, frame, cursors>>

QuickReturn ==
  /\ At("quick", "call")
  /\ stack # <<>>
  /\ Head(stack)[1] >= Head(stack)[2]
  /\ stack' = Tail(stack)
  /\ UNCHANGED <<fixed, data, pc, counters, swap, index, frame, cursors>>

QuickDone ==
  /\ At("quick", "call")
  /\ stack = <<>>
  /\ pc' = "done"
  /\ UNCHANGED <<fixed, data, counters, swap, index, quickvars>>

QuickCall ==
  /\ At("quick", "call")
  /\ stack # <<>>
  /\ Head(stack)[1] < Head(stack)[2]
  /\ left' = Head(stack)[1] /\ low' = left'
  /\ right' = Head(stack)[2] /\ high' = right'
  /\ key' = data[left']
  /\ stack' = Tail(stack)
  /\ pc' = "loop"
  /\ UNCHANGED <<fixed, data, counters, swap, index, tmp_low, tmp_high>>

QuickLoop ==
  /\ At("quick", "loop")
  /\ low < high
  /\ tmp_low' = low
  /\ tmp_high' = high
  /\ pc' = "down"
  /\ UNCHANGED <<fixed, data, counters, swap, index, stack, frame, low, high>>

\* while (low < high && data[high] > key), then data[low] = data[high]
QuickDown ==
  /\ At("quick", "down")
  /\ IF low < high /\ V(data[high]) > V(key)
     THEN high' = high - 1 /\ UNCHANGED <<data, pc>>
     ELSE /\ data' = [data EXCEPT ![low] = data[high]]
          /\ pc' = "up"
          /\ UNCHANGED high
  /\ UNCHANGED <<fixed, counters, swap, index, stack, frame, low, tmp_low,
                 tmp_high>>

\* Mutant of Shrunk: nothing is taken off.
ShrunkNot == high

\* Neither end has moved, both being equal to the key.
Shrunk == IF high = tmp_high /\ low = tmp_low THEN high - 1 ELSE high

\* Mutant of Moved: the place at high keeps what was copied from it.
MovedNot == data

\* data[high] = data[low]
Moved == [data EXCEPT ![high] = data[low]]

\* while (low < high && data[low] < key), then the copy and the check
QuickUp ==
  /\ At("quick", "up")
  /\ IF low < high /\ V(data[low]) < V(key)
     THEN low' = low + 1 /\ UNCHANGED <<data, high, pc>>
     ELSE /\ data' = Moved
          /\ high' = Shrunk
          /\ pc' = "loop"
          /\ UNCHANGED low
  /\ UNCHANGED <<fixed, counters, swap, index, stack, frame, tmp_low, tmp_high>>

Parts == <<<<left, low - 1>>, <<low + 1, right>>>>

QuickPlace ==
  /\ At("quick", "loop")
  /\ low >= high
  /\ data' = [data EXCEPT ![low] = key]
  /\ stack' = Parts \o stack
  /\ pc' = "call"
  /\ UNCHANGED <<fixed, counters, swap, index, frame, cursors>>

Next ==
  \/ BubbleStart \/ BubblePass \/ BubbleCompare \/ BubbleEndPass
  \/ LoopStart \/ LoopEnd
  \/ InsertionPass \/ InsertionSearch \/ InsertionInsert
  \/ SelectPass \/ SelectCompare \/ SelectExchange
  \/ QuickStart \/ QuickReturn \/ QuickDone \/ QuickCall
  \/ QuickLoop \/ QuickDown \/ QuickUp \/ QuickPlace

Spec == Init /\ [][Next]_vars

\* The program goes on.
FairSpec == Spec /\ WF_vars(Next)

-----------------------------------------------------------------------------
(* The array as it is once the key is back: while quick_sort divides, it   *)
(* holds one element twice and the key only in its variable.               *)
Hole == IF pc = "up" THEN high ELSE low

Whole ==
  IF pc \in {"loop", "down", "up"} THEN [data EXCEPT ![Hole] = key] ELSE data

(***************************************************************************)
(* No element is lost or doubled, in the middle of a division least of all *)
(* (quick_sort.c:26-36): the array is always the input in another order.   *)
(***************************************************************************)
NothingLost == \A k, l \in D : k # l => Whole[k] # Whole[l]

(***************************************************************************)
(* Each of the four sorts leaves the array in order, equal elements        *)
(* included (insertion_sort.c:16, quick_sort.c:23).                        *)
(***************************************************************************)
InOrder ==
  pc = "done" => \A k, l \in D : k < l => V(data[k]) <= V(data[l])

(***************************************************************************)
(* Every sort comes to its end, also where all elements left are equal and *)
(* neither inner loop of quick_sort moves (quick_sort.c:32).               *)
(***************************************************************************)
Terminates == <>(pc = "done")
=============================================================================
