----------------------------- MODULE SortProofs -----------------------------
(***************************************************************************)
(* What the four sorts do to arrays of any length, of any numbers: no      *)
(* element is lost or doubled, and the result is in order.                 *)
(***************************************************************************)
EXTENDS Sorting, TLAPS

\* The elements of array d at k and l are in order.
Le(d, k, l) == V(d[k]) <= V(d[l])

\* bubble_sort: from i on everything is in its place; the greatest element
\* before has come along to j; without an exchange all of it is in order.
BubbleInv ==
  alg = "bubble" =>
    /\ pc \in {"start", "pass", "scan", "done"}
    /\ pc \in {"pass", "scan"} =>
         \A k, l \in D : k < l /\ i <= l => Le(data, k, l)
    /\ pc = "pass" /\ swap = 0 => \A k, l \in D : k < l => Le(data, k, l)
    /\ pc = "scan" =>
         /\ 0 < i /\ j < i
         /\ \A k \in D : k < j => Le(data, k, j)
         /\ swap = 0 => \A k, l \in D : k < l /\ l <= j => Le(data, k, l)
    /\ InOrder

\* insertion_sort: what lies before i is in order, and from j on not less than
\* the element at i.
InsertionInv ==
  alg = "insertion" =>
    /\ pc \in {"start", "pass", "scan", "done"}
    /\ pc \in {"pass", "scan"} =>
         \A k, l \in D : k < l /\ l < i => Le(data, k, l)
    /\ pc = "scan" =>
         /\ i < num /\ j <= i
         /\ \A k \in D : j <= k /\ k < i => Le(data, i, k)
    /\ InOrder

\* select_sort: what lies before i is in its place, and index is the place of
\* the least element from i to j.
SelectInv ==
  alg = "select" =>
    /\ pc \in {"start", "pass", "scan", "done"}
    /\ pc \in {"pass", "scan"} =>
         \A k, l \in D : k < l /\ k < i => Le(data, k, l)
    /\ pc = "scan" =>
         /\ i < num /\ i <= index /\ index < j /\ i < j
         /\ \A k \in D : i <= k /\ k < j => Le(data, index, k)
    /\ InOrder

Dividing == pc \in {"loop", "down", "up"}

\* The places k and l are in one of the parts still to be sorted.
Pending(k, l) ==
  \E n \in 1 .. Len(stack) : stack[n][1] <= k /\ l <= stack[n][2]

\* The parts lie in the array, one after the other.
StackInv ==
  /\ \A n \in 1 .. Len(stack) :
       /\ stack[n][1] \in 0 .. num /\ stack[n][2] \in -1 .. num - 1
       /\ stack[n][1] <= stack[n][2] + 1
  /\ \A m, n \in 1 .. Len(stack) : m < n => stack[m][2] < stack[n][1]

\* The part being divided lies before them, with what is not greater than the
\* key before low, and what is not less behind high.
DivideInv ==
  Dividing =>
    /\ 0 <= left /\ left < right /\ right < num
    /\ left <= low /\ low <= high /\ high <= right
    /\ key \in D
    /\ \A n \in 1 .. Len(stack) : right < stack[n][1]
    /\ \A k \in D : left <= k /\ k < low => V(Whole[k]) <= V(key)
    /\ \A k \in D : high < k /\ k <= right => V(key) <= V(Whole[k])
    /\ pc # "loop" => /\ tmp_low < tmp_high
                      /\ tmp_low <= low /\ high <= tmp_high
    /\ pc = "up" /\ low < high => V(data[low]) <= V(key) \/ tmp_low < low

\* quick_sort: two elements out of order are in the same part.
QuickInv ==
  alg = "quick" =>
    /\ pc \in {"start", "call", "loop", "down", "up", "done"}
    /\ pc # "start" =>
         /\ StackInv
         /\ DivideInv
         /\ \A k, l \in D : k < l =>
              \/ Le(Whole, k, l)
              \/ Dividing /\ left <= k /\ l <= right
              \/ Pending(k, l)
    /\ InOrder

Ind ==
  /\ TypeOK /\ NothingLost
  /\ BubbleInv /\ InsertionInv /\ SelectInv /\ QuickInv

-----------------------------------------------------------------------------
(* What the types say about the values compared.                           *)

LEMMA Comparable ==
  ASSUME TypeOK
  PROVE  /\ num \in Nat /\ D \subseteq Int
         /\ \A e \in D : V(e) \in Int
         /\ \A k \in D : data[k] \in D /\ V(data[k]) \in Int
<1>1. num \in Nat /\ D \subseteq Int /\ data \in [D -> D]
  BY SortingAssumption DEF TypeOK, D
<1>2. input \in [D -> Int]
  BY SortingAssumption DEF TypeOK
<1> QED BY <1>1, <1>2 DEF V

\* A step changes neither the number of elements nor the elements.
LEMMA SameInput ==
  ASSUME UNCHANGED fixed
  PROVE  /\ D' = D /\ num' = num /\ alg' = alg /\ input' = input
         /\ \A e : V(e)' = V(e)
BY DEF fixed, D, V

-----------------------------------------------------------------------------
(* bubble_sort                                                             *)

LEMMA BubbleStep ==
  ASSUME Ind, BubbleStart \/ BubblePass \/ BubbleCompare \/ BubbleEndPass
  PROVE  Ind'
<1> USE DEF At
<1>1. UNCHANGED <<fixed, index, quickvars>> /\ alg = "bubble"
  BY DEF BubbleStart, BubblePass, BubbleCompare, BubbleEndPass
<1>2. D' = D /\ num' = num /\ alg' = alg /\ input' = input
      /\ \A e : V(e)' = V(e)
  BY <1>1, SameInput
<1>3. InsertionInv' /\ SelectInv' /\ QuickInv'
  BY <1>1, <1>2 DEF InsertionInv, SelectInv, QuickInv
<1>4. /\ num \in Nat /\ D \subseteq Int
      /\ \A e \in D : V(e) \in Int
      /\ \A k \in D : data[k] \in D /\ V(data[k]) \in Int
  BY Comparable DEF Ind
<1>5. pc \in {"start", "pass", "scan", "done"} /\ i \in 0 .. num /\ j \in 0 .. num
  BY <1>1 DEF Ind, BubbleInv, TypeOK
<1>6. ASSUME UNCHANGED data, pc' \in {"pass", "scan", "done"}
      PROVE  NothingLost'
  BY <1>2, <1>5, <1>6 DEF Ind, NothingLost, Whole
<1>7. CASE BubbleStart
  <2>1. TypeOK'
    BY <1>1, <1>2, <1>7 DEF Ind, TypeOK, BubbleStart, fixed, quickvars, frame, cursors
  <2>2. BubbleInv'
    BY <1>2, <1>4, <1>7 DEF BubbleStart, BubbleInv, D, InOrder
  <2> QED BY <1>3, <1>6, <1>7, <2>1, <2>2 DEF Ind, BubbleStart
<1>8. CASE BubblePass
  <2>1. TypeOK'
    BY <1>1, <1>2, <1>8 DEF Ind, TypeOK, BubblePass, fixed, quickvars, frame, cursors
  <2>2. BubbleInv'
    BY <1>1, <1>2, <1>4, <1>5, <1>8 DEF Ind, BubblePass, BubbleInv, D, InOrder, Le
  <2> QED BY <1>3, <1>6, <1>8, <2>1, <2>2 DEF Ind, BubblePass
<1>9. CASE BubbleCompare
  <2>1. j \in D /\ j + 1 \in D /\ i \in 0 .. num /\ j < i - 1 /\ pc = "scan"
    BY <1>4, <1>5, <1>9 DEF BubbleCompare, LastPair, D
  <2>2. /\ \A k, l \in D : k < l /\ i <= l => Le(data, k, l)
        /\ \A k \in D : k < j => Le(data, k, j)
        /\ swap = 0 => \A k, l \in D : k < l /\ l <= j => Le(data, k, l)
    BY <1>1, <2>1 DEF Ind, BubbleInv
  <2>3. CASE V(data[j]) > V(data[j + 1])
    <3>1. /\ data' = Exchanged(j, j + 1) /\ swap' = 1 /\ j' = j + 1
          /\ pc' = pc /\ i' = i
      BY <1>9, <2>3 DEF BubbleCompare
    <3>2. /\ data' \in [D -> D]
          /\ data'[j] = data[j + 1] /\ data'[j + 1] = data[j]
          /\ \A k \in D : k # j /\ k # j + 1 => data'[k] = data[k]
      BY <2>1, <3>1, <1>4 DEF Exchanged, Ind, TypeOK
    <3>3. TypeOK'
      BY <1>1, <1>2, <2>1, <3>1, <3>2, <1>4 DEF Ind, TypeOK, fixed, quickvars, frame, cursors
    <3>4. NothingLost'
      BY <1>2, <1>4, <2>1, <3>1, <3>2 DEF Ind, NothingLost, Whole
    <3>5. \A k, l \in D : k < l /\ i <= l => V(data'[k]) <= V(data'[l])
      BY <1>4, <2>1, <2>2, <3>2 DEF Le
    <3>6. \A k \in D : k < j + 1 => V(data'[k]) <= V(data'[j + 1])
      BY <1>4, <2>1, <2>2, <2>3, <3>2 DEF Le
    <3>7. BubbleInv'
      <4>1. 0 < i' /\ j' < i' /\ pc' = "scan" /\ swap' # 0
        BY <2>1, <3>1, <1>4, <1>5 DEF D
      <4>2. \A k, l \in D' : k < l /\ i' <= l => Le(data, k, l)'
        BY <1>2, <3>1, <3>5 DEF Le, V
      <4>3. \A k \in D' : k < j' => Le(data, k, j)'
        BY <1>2, <3>1, <3>6 DEF Le, V
      <4> QED BY <4>1, <4>2, <4>3 DEF BubbleInv, InOrder
    <3> QED BY <1>3, <3>3, <3>4, <3>7 DEF Ind
  <2>4. CASE ~(V(data[j]) > V(data[j + 1]))
    <3>1. data' = data /\ swap' = swap /\ j' = j + 1 /\ pc' = pc /\ i' = i
      BY <1>9, <2>4 DEF BubbleCompare
    <3>2. TypeOK'
      BY <1>1, <1>2, <2>1, <3>1, <1>4 DEF Ind, TypeOK, fixed, quickvars, frame, cursors
    <3>3. \A k \in D : k < j + 1 => Le(data, k, j + 1)
      BY <1>4, <2>1, <2>2, <2>4 DEF Le
    <3>4. swap = 0 => \A k, l \in D : k < l /\ l <= j + 1 => Le(data, k, l)
      BY <1>4, <2>1, <2>2, <3>3
    <3>5. BubbleInv'
      <4>1. 0 < i' /\ j' < i' /\ pc' = "scan"
        BY <2>1, <3>1, <1>4, <1>5 DEF D
      <4>2. /\ \A k, l \in D' : k < l /\ i' <= l => Le(data, k, l)'
            /\ \A k \in D' : k < j' => Le(data, k, j)'
            /\ swap' = 0 => \A k, l \in D' : k < l /\ l <= j' => Le(data, k, l)'
        BY <1>2, <2>2, <3>1, <3>3, <3>4 DEF Le, V
      <4> QED BY <4>1, <4>2 DEF BubbleInv, InOrder
    <3> QED BY <1>3, <1>6, <2>1, <3>1, <3>2, <3>5 DEF Ind
  <2> QED BY <2>3, <2>4
<1>10. CASE BubbleEndPass
  <2>1. TypeOK'
    BY <1>1, <1>2, <1>4, <1>10 DEF Ind, TypeOK, BubbleInv, BubbleEndPass, LastPair, fixed,
       quickvars, frame, cursors
  <2>2. BubbleInv'
    BY <1>1, <1>2, <1>4, <1>5, <1>10 DEF Ind, BubbleEndPass, LastPair, BubbleInv, D, InOrder, Le
  <2> QED BY <1>3, <1>6, <1>10, <2>1, <2>2 DEF Ind, BubbleEndPass
<1> QED BY <1>7, <1>8, <1>9, <1>10

-----------------------------------------------------------------------------
(* insertion_sort                                                          *)

LEMMA InsertionStep ==
  ASSUME Ind, alg = "insertion",
         LoopStart \/ LoopEnd \/ InsertionPass \/ InsertionSearch \/ InsertionInsert
  PROVE  Ind'
<1> USE DEF At
<1>1. UNCHANGED <<fixed, swap, index, quickvars>>
  BY DEF LoopStart, LoopEnd, InsertionPass, InsertionSearch, InsertionInsert
<1>2. D' = D /\ num' = num /\ alg' = alg /\ input' = input
      /\ \A e : V(e)' = V(e)
  BY <1>1, SameInput
<1>3. BubbleInv' /\ SelectInv' /\ QuickInv'
  BY <1>1, <1>2 DEF BubbleInv, SelectInv, QuickInv
<1>4. /\ num \in Nat /\ D \subseteq Int
      /\ \A e \in D : V(e) \in Int
      /\ \A k \in D : data[k] \in D /\ V(data[k]) \in Int
  BY Comparable DEF Ind
<1>5. pc \in {"start", "pass", "scan", "done"} /\ i \in 0 .. num /\ j \in 0 .. num
  BY <1>1 DEF Ind, InsertionInv, TypeOK
<1>6. ASSUME UNCHANGED data, pc' \in {"pass", "scan", "done"}
      PROVE  NothingLost'
  BY <1>2, <1>5, <1>6 DEF Ind, NothingLost, Whole
<1>7. CASE LoopStart
  <2>1. TypeOK'
    BY <1>1, <1>2, <1>4, <1>7 DEF Ind, TypeOK, LoopStart, fixed, quickvars, frame, cursors
  <2>2. InsertionInv'
    BY <1>2, <1>4, <1>7 DEF LoopStart, InsertionInv, D, InOrder
  <2> QED BY <1>3, <1>6, <1>7, <2>1, <2>2 DEF Ind, LoopStart
<1>8. CASE LoopEnd
  <2>1. TypeOK'
    BY <1>1, <1>2, <1>8 DEF Ind, TypeOK, LoopEnd, fixed, counters, quickvars, frame, cursors
  <2>2. InsertionInv'
    BY <1>1, <1>2, <1>4, <1>5, <1>8 DEF Ind, LoopEnd, InsertionInv, D, InOrder, Le
  <2> QED BY <1>3, <1>6, <1>8, <2>1, <2>2 DEF Ind, LoopEnd
<1>9. CASE InsertionPass
  <2>1. TypeOK'
    BY <1>1, <1>2, <1>5, <1>9 DEF Ind, TypeOK, InsertionPass, fixed, quickvars, frame, cursors
  <2>2. InsertionInv'
    BY <1>1, <1>2, <1>4, <1>5, <1>9 DEF Ind, InsertionPass, InsertionInv, D, InOrder, Le
  <2> QED BY <1>3, <1>6, <1>9, <2>1, <2>2 DEF Ind, InsertionPass
<1>10. CASE InsertionSearch
  <2>1. TypeOK'
    BY <1>1, <1>2, <1>4, <1>5, <1>10 DEF Ind, TypeOK, InsertionSearch, Lower, fixed,
       quickvars, frame, cursors
  <2>2. /\ i < num /\ j <= i /\ 0 < j /\ j - 1 \in D
        /\ \A k, l \in D : k < l /\ l < i => Le(data, k, l)
        /\ \A k \in D : j <= k /\ k < i => Le(data, i, k)
    BY <1>4, <1>5, <1>10 DEF Ind, InsertionInv, InsertionSearch, Lower, D
  <2>3. Le(data, i, j - 1)
    BY <1>4, <1>5, <1>10, <2>2 DEF InsertionSearch, Lower, Le, D
  <2>4. \A k \in D : j - 1 <= k /\ k < i => Le(data, i, k)
    BY <1>4, <1>5, <2>2, <2>3 DEF D
  <2>5. /\ pc' = "scan" /\ i' = i /\ j' = j - 1 /\ data' = data
    BY <1>10 DEF InsertionSearch
  <2>6. /\ \A k, l \in D' : k < l /\ l < i' => Le(data, k, l)'
        /\ \A k \in D' : j' <= k /\ k < i' => Le(data, i, k)'
    BY <1>2, <2>2, <2>4, <2>5 DEF Le, V
  <2>7. i' < num' /\ j' <= i'
    BY <1>2, <1>4, <1>5, <2>2, <2>5
  <2>8. InsertionInv'
    BY <2>5, <2>6, <2>7 DEF InsertionInv, InOrder
  <2> QED BY <1>3, <1>6, <2>1, <2>5, <2>8 DEF Ind
<1>11. CASE InsertionInsert
  <2>1. /\ i < num /\ j <= i /\ i \in D /\ j \in D
        /\ \A k, l \in D : k < l /\ l < i => Le(data, k, l)
        /\ \A k \in D : j <= k /\ k < i => Le(data, i, k)
    BY <1>4, <1>5, <1>11 DEF Ind, InsertionInv, InsertionInsert, D
  <2>2. /\ pc = "scan" /\ pc' = "pass" /\ i' = i + 1 /\ j' = j /\ data' = Inserted
    BY <1>11 DEF InsertionInsert
  <2>3. \A k \in D : j < k /\ k <= i => k - 1 \in D
    BY <1>4, <1>5, <2>1 DEF D
  <2>4. /\ data' \in [D -> D]
        /\ data'[j] = data[i]
        /\ \A k \in D : j < k /\ k <= i => data'[k] = data[k - 1]
        /\ \A k \in D : k < j \/ i < k => data'[k] = data[k]
    BY <1>4, <1>5, <2>1, <2>2, <2>3 DEF Inserted
  <2>5. TypeOK'
    BY <1>1, <1>2, <1>5, <2>1, <2>2, <2>4, <1>4 DEF Ind, TypeOK, fixed, quickvars, frame, cursors
  <2>6. NothingLost'
    <3>1. \A k, l \in D : k # l => data[k] # data[l]
      BY <2>2 DEF Ind, NothingLost, Whole
    <3>2. \A k, l \in D : k # l => data'[k] # data'[l]
      BY <1>4, <1>5, <2>1, <2>3, <2>4, <3>1
    <3> QED BY <1>2, <2>2, <3>2 DEF NothingLost, Whole
  <2>7. \A k \in D : k < j => Le(data, k, i)
    <3>1. CASE j = 0
      BY <1>4, <3>1 DEF D
    <3>2. CASE 0 < j
      <4>1. j - 1 \in D /\ \A k \in D : k < j => k <= j - 1
        BY <1>4, <1>5, <2>1, <3>2 DEF D
      <4>2. V(data[j]) < V(data[i]) \/ V(data[j - 1]) < V(data[i])
        BY <1>4, <1>5, <1>11, <2>1, <4>1, <3>2 DEF InsertionInsert, Lower
      <4>3. V(data[j - 1]) <= V(data[i])
        BY <1>4, <1>5, <2>1, <4>1, <4>2 DEF Le
      <4>4. \A k \in D : k < j - 1 => V(data[k]) <= V(data[j - 1])
        BY <1>4, <1>5, <2>1, <4>1 DEF Le
      <4> QED BY <1>4, <1>5, <2>1, <4>1, <4>3, <4>4 DEF Le
    <3> QED BY <1>5, <3>1, <3>2
  <2>8. \A k, l \in D : k < l /\ l <= i => V(data'[k]) <= V(data'[l])
    <3> SUFFICES ASSUME NEW k \in D, NEW l \in D, k < l, l <= i
                 PROVE  V(data'[k]) <= V(data'[l])
      OBVIOUS
    <3>1. CASE l < j
      BY <1>4, <1>5, <2>1, <2>4, <3>1 DEF Le
    <3>2. CASE l = j
      BY <1>4, <1>5, <2>1, <2>4, <2>7, <3>2 DEF Le
    <3>3. CASE j < l /\ k < j
      <4>1. l - 1 \in D /\ data'[l] = data[l - 1] /\ data'[k] = data[k]
        BY <2>3, <2>4, <3>3
      <4> QED BY <1>4, <1>5, <2>1, <4>1, <3>3 DEF Le
    <3>4. CASE j < l /\ k = j
      <4>1. l - 1 \in D /\ data'[l] = data[l - 1] /\ data'[k] = data[i]
        BY <2>3, <2>4, <3>4
      <4> QED BY <1>4, <1>5, <2>1, <4>1, <3>4 DEF Le
    <3>5. CASE j < l /\ j < k
      <4>1. l - 1 \in D /\ data'[l] = data[l - 1]
        BY <2>3, <2>4, <3>5
      <4>2. k - 1 \in D /\ data'[k] = data[k - 1]
        BY <1>4, <1>5, <2>3, <2>4, <3>5
      <4> QED BY <1>4, <1>5, <2>1, <4>1, <4>2, <3>5 DEF Le
    <3> QED BY <1>4, <1>5, <3>1, <3>2, <3>3, <3>4, <3>5
  <2>9. \A k, l \in D' : k < l /\ l < i' => Le(data, k, l)'
    BY <1>2, <1>4, <1>5, <2>2, <2>8 DEF Le, V
  <2>10. InsertionInv'
    BY <2>2, <2>9 DEF InsertionInv, InOrder
  <2> QED BY <1>3, <2>5, <2>6, <2>10 DEF Ind
<1> QED BY <1>7, <1>8, <1>9, <1>10, <1>11

-----------------------------------------------------------------------------
(* select_sort                                                             *)

LEMMA SelectStep ==
  ASSUME Ind, alg = "select",
         LoopStart \/ LoopEnd \/ SelectPass \/ SelectCompare \/ SelectExchange
  PROVE  Ind'
<1> USE DEF At
<1>1. UNCHANGED <<fixed, swap, quickvars>>
  BY DEF LoopStart, LoopEnd, SelectPass, SelectCompare, SelectExchange
<1>2. D' = D /\ num' = num /\ alg' = alg /\ input' = input
      /\ \A e : V(e)' = V(e)
  BY <1>1, SameInput
<1>3. BubbleInv' /\ InsertionInv' /\ QuickInv'
  BY <1>1, <1>2 DEF BubbleInv, InsertionInv, QuickInv
<1>4. /\ num \in Nat /\ D \subseteq Int
      /\ \A e \in D : V(e) \in Int
      /\ \A k \in D : data[k] \in D /\ V(data[k]) \in Int
  BY Comparable DEF Ind
<1>5. pc \in {"start", "pass", "scan", "done"} /\ i \in 0 .. num /\ j \in 0 .. num
      /\ index \in 0 .. num
  BY <1>1 DEF Ind, SelectInv, TypeOK
<1>6. ASSUME UNCHANGED data, pc' \in {"pass", "scan", "done"}
      PROVE  NothingLost'
  BY <1>2, <1>5, <1>6 DEF Ind, NothingLost, Whole
<1>7. CASE LoopStart
  <2>1. TypeOK'
    BY <1>1, <1>2, <1>4, <1>7 DEF Ind, TypeOK, LoopStart, fixed, quickvars, frame, cursors
  <2>2. SelectInv'
    BY <1>2, <1>4, <1>7 DEF LoopStart, SelectInv, D, InOrder
  <2> QED BY <1>3, <1>6, <1>7, <2>1, <2>2 DEF Ind, LoopStart
<1>8. CASE LoopEnd
  <2>1. TypeOK'
    BY <1>1, <1>2, <1>8 DEF Ind, TypeOK, LoopEnd, fixed, counters, quickvars, frame, cursors
  <2>2. SelectInv'
    BY <1>1, <1>2, <1>4, <1>5, <1>8 DEF Ind, LoopEnd, SelectInv, D, InOrder, Le
  <2> QED BY <1>3, <1>6, <1>8, <2>1, <2>2 DEF Ind, LoopEnd
<1>9. CASE SelectPass
  <2>1. TypeOK'
    BY <1>1, <1>2, <1>4, <1>5, <1>9 DEF Ind, TypeOK, SelectPass, fixed, quickvars, frame, cursors
  <2>2. SelectInv'
    BY <1>1, <1>2, <1>4, <1>5, <1>9 DEF Ind, SelectPass, SelectInv, D, InOrder, Le
  <2> QED BY <1>3, <1>6, <1>9, <2>1, <2>2 DEF Ind, SelectPass
<1>10. CASE SelectCompare
  <2>1. /\ i < num /\ i <= index /\ index < j /\ i < j /\ j < num
        /\ \A k, l \in D : k < l /\ k < i => Le(data, k, l)
        /\ \A k \in D : i <= k /\ k < j => Le(data, index, k)
        /\ j \in D /\ index \in D
    BY <1>4, <1>5, <1>10 DEF Ind, SelectInv, SelectCompare, D
  <2>2. /\ pc' = "scan" /\ i' = i /\ j' = j + 1 /\ data' = data
        /\ index' = IF V(data[j]) < V(data[index]) THEN j ELSE index
    BY <1>10 DEF SelectCompare
  <2>3. TypeOK'
    BY <1>1, <1>2, <1>4, <1>5, <2>1, <2>2, <1>10 DEF Ind, TypeOK, SelectCompare, fixed,
       quickvars, frame, cursors
  <2>4. \A k \in D : i <= k /\ k < j + 1 => V(data[index']) <= V(data[k])
    BY <1>4, <1>5, <2>1, <2>2 DEF Le
  <2>5. /\ \A k, l \in D' : k < l /\ k < i' => Le(data, k, l)'
        /\ \A k \in D' : i' <= k /\ k < j' => Le(data, index, k)'
    BY <1>2, <2>1, <2>2, <2>4 DEF Le, V
  <2>6. i' < num' /\ i' <= index' /\ index' < j' /\ i' < j'
    BY <1>2, <1>4, <1>5, <2>1, <2>2
  <2>7. SelectInv'
    BY <2>2, <2>5, <2>6 DEF SelectInv, InOrder
  <2> QED BY <1>3, <1>6, <2>2, <2>3, <2>7 DEF Ind
<1>11. CASE SelectExchange
  <2>1. /\ i < num /\ i <= index /\ index < j /\ i < j /\ j = num
        /\ \A k, l \in D : k < l /\ k < i => Le(data, k, l)
        /\ \A k \in D : i <= k => Le(data, index, k)
        /\ i \in D /\ index \in D
    BY <1>4, <1>5, <1>11 DEF Ind, SelectInv, SelectExchange, D
  <2>2. /\ pc = "scan" /\ pc' = "pass" /\ i' = i + 1 /\ index' = index /\ j' = j
        /\ data' = Exchanged(index, i)
    BY <1>11 DEF SelectExchange
  <2>3. /\ data' \in [D -> D]
        /\ data'[i] = data[index] /\ data'[index] = data[i]
        /\ \A k \in D : k # i /\ k # index => data'[k] = data[k]
    BY <2>1, <2>2, <1>4 DEF Exchanged, Ind, TypeOK
  <2>4. TypeOK'
    BY <1>1, <1>2, <1>4, <1>5, <2>1, <2>2, <2>3 DEF Ind, TypeOK, fixed, quickvars, frame, cursors
  <2>5. NothingLost'
    BY <1>2, <1>4, <2>1, <2>2, <2>3 DEF Ind, NothingLost, Whole
  <2>6. \A k, l \in D : k < l /\ k < i + 1 => V(data'[k]) <= V(data'[l])
    BY <1>4, <1>5, <2>1, <2>3 DEF Le
  <2>7. \A k, l \in D' : k < l /\ k < i' => Le(data, k, l)'
    BY <1>2, <2>2, <2>6 DEF Le, V
  <2>8. SelectInv'
    BY <2>2, <2>7 DEF SelectInv, InOrder
  <2> QED BY <1>3, <2>4, <2>5, <2>8 DEF Ind
<1> QED BY <1>7, <1>8, <1>9, <1>10, <1>11

-----------------------------------------------------------------------------
(* quick_sort: what the invariant says while a part is divided, and what    *)
(* holds of the array with the key in its place.                            *)

LEMMA DividingFacts ==
  ASSUME Ind, alg = "quick", Dividing
  PROVE  /\ low \in D /\ high \in D /\ key \in D
         /\ left \in D /\ right \in D
         /\ left <= low /\ low <= high /\ high <= right /\ left < right
         /\ Hole \in D /\ Whole \in [D -> D]
         /\ Whole[Hole] = key
         /\ \A k \in D : k # Hole => Whole[k] = data[k]
         /\ \A k \in D : left <= k /\ k < low => V(Whole[k]) <= V(key)
         /\ \A k \in D : high < k /\ k <= right => V(key) <= V(Whole[k])
         /\ \A n \in 1 .. Len(stack) : right < stack[n][1]
<1>1. num \in Nat
  BY Comparable DEF Ind
<1>2. DivideInv /\ TypeOK
  BY DEF Ind, QuickInv, Dividing
<1>3. /\ 0 <= left /\ left < right /\ right < num
      /\ left <= low /\ low <= high /\ high <= right
      /\ key \in D
      /\ \A n \in 1 .. Len(stack) : right < stack[n][1]
      /\ \A k \in D : left <= k /\ k < low => V(Whole[k]) <= V(key)
      /\ \A k \in D : high < k /\ k <= right => V(key) <= V(Whole[k])
  BY <1>2 DEF DivideInv
<1>4. low \in Int /\ high \in Int /\ left \in Int /\ right \in Int
  BY <1>1, <1>2 DEF TypeOK
<1>5. low \in D /\ high \in D /\ left \in D /\ right \in D
  BY <1>1, <1>3, <1>4 DEF D
<1>6. Hole \in D
  BY <1>5 DEF Hole
<1>7. Whole = [data EXCEPT ![Hole] = key] /\ data \in [D -> D]
  BY <1>2 DEF Whole, Dividing, TypeOK
<1>8. /\ Whole \in [D -> D] /\ Whole[Hole] = key
      /\ \A k \in D : k # Hole => Whole[k] = data[k]
  BY <1>3, <1>6, <1>7
<1> QED BY <1>3, <1>5, <1>6, <1>8

\* Two elements exchanged inside the part: whatever lies outside is still in
\* order with both of them, as no other part reaches into this one.
LEMMA ExchangeInPart ==
  ASSUME Ind, alg = "quick", Dividing,
         NEW x \in [D -> D], NEW a \in D, NEW b \in D,
         left <= a, a <= right, left <= b, b <= right,
         x[a] = Whole[b], x[b] = Whole[a],
         \A k \in D : k # a /\ k # b => x[k] = Whole[k]
  PROVE  \A k, l \in D : k < l =>
           \/ Le(x, k, l)
           \/ left <= k /\ l <= right
           \/ Pending(k, l)
<1> SUFFICES ASSUME NEW k \in D, NEW l \in D, k < l, ~(left <= k /\ l <= right)
             PROVE  Le(x, k, l) \/ Pending(k, l)
  OBVIOUS
<1>1. num \in Nat /\ k \in Int /\ l \in Int /\ a \in Int /\ b \in Int
      /\ \A m \in D : m \in Int
  BY Comparable DEF Ind
<1>2. \A m, n \in D : m < n => \/ Le(Whole, m, n)
                               \/ left <= m /\ n <= right
                               \/ Pending(m, n)
  BY DEF Ind, QuickInv, Dividing
<1>3. /\ left \in D /\ right \in D /\ left < right
      /\ left \in Int /\ right \in Int
      /\ \A n \in 1 .. Len(stack) : right < stack[n][1]
      /\ \A n \in 1 .. Len(stack) : stack[n][1] \in Int
  <2>1. \A n \in 1 .. Len(stack) : stack[n][1] \in Int
    BY <1>1 DEF Ind, QuickInv, StackInv, Dividing
  <2> QED BY <1>1, DividingFacts, <2>1
<1>4. ASSUME NEW m \in D, NEW n \in D, m <= right
      PROVE  ~Pending(m, n)
  <2> SUFFICES ASSUME NEW p \in 1 .. Len(stack), stack[p][1] <= m
               PROVE  FALSE
    BY DEF Pending
  <2>1. m \in Int /\ right \in Int /\ stack[p][1] \in Int /\ right < stack[p][1]
    BY <1>1, <1>3
  <2> QED BY <1>4, <2>1
<1>5. CASE k > right
  <2>1. x[k] = Whole[k] /\ x[l] = Whole[l]
    BY <1>1, <1>3, <1>5
  <2> QED BY <1>1, <1>2, <1>3, <1>5, <2>1 DEF Le
<1>6. CASE k <= right
  <2>1. \A m, n \in D : m < n /\ m <= right /\ ~(left <= m /\ n <= right)
                         => Le(Whole, m, n)
    BY <1>2, <1>4
  <2>2. CASE k < left
    <3>1. x[k] = Whole[k]
      BY <1>1, <1>3, <2>2
    <3>2. CASE l = a
      BY <1>1, <1>3, <2>1, <2>2, <3>1, <3>2 DEF Le
    <3>3. CASE l = b
      BY <1>1, <1>3, <2>1, <2>2, <3>1, <3>3 DEF Le
    <3>4. CASE l # a /\ l # b
      BY <1>1, <1>3, <1>6, <2>1, <2>2, <3>1, <3>4 DEF Le
    <3> QED BY <3>2, <3>3, <3>4
  <2>3. CASE left <= k
    <3>1. right < l /\ x[l] = Whole[l]
      BY <1>1, <1>3, <2>3
    <3>2. CASE k = a
      BY <1>1, <1>3, <2>1, <3>1, <3>2 DEF Le
    <3>3. CASE k = b
      BY <1>1, <1>3, <2>1, <3>1, <3>3 DEF Le
    <3>4. CASE k # a /\ k # b
      BY <1>1, <1>3, <1>6, <2>1, <3>1, <3>4 DEF Le
    <3> QED BY <3>2, <3>3, <3>4
  <2> QED BY <1>1, <1>3, <2>2, <2>3
<1> QED BY <1>1, <1>3, <1>5, <1>6

-----------------------------------------------------------------------------
(* quick_sort: the calls and their returns                                 *)

\* The calls that are left once the first has been taken.
LEMMA Rest ==
  ASSUME TypeOK, stack # <<>>
  PROVE  /\ Tail(stack) \in Seq((0 .. num) \X (-1 .. num))
         /\ Len(stack) \in Nat /\ Len(Tail(stack)) = Len(stack) - 1
         /\ 1 \in 1 .. Len(stack) /\ Head(stack) = stack[1]
         /\ \A n \in 1 .. Len(Tail(stack)) :
              n + 1 \in 1 .. Len(stack) /\ Tail(stack)[n] = stack[n + 1]
<1>1. stack \in Seq((0 .. num) \X (-1 .. num))
  BY DEF TypeOK
<1> QED BY <1>1

LEMMA RestInv ==
  ASSUME TypeOK, StackInv, stack # <<>>, stack' = Tail(stack), num' = num
  PROVE  /\ StackInv'
         /\ Head(stack)[1] \in 0 .. num /\ Head(stack)[2] \in -1 .. num - 1
         /\ \A n \in 1 .. Len(stack') : Head(stack)[2] < stack'[n][1]
<1>1. /\ Len(stack) \in Nat /\ Len(stack') = Len(stack) - 1
      /\ 1 \in 1 .. Len(stack) /\ Head(stack) = stack[1]
      /\ \A n \in 1 .. Len(stack') :
           n + 1 \in 1 .. Len(stack) /\ stack'[n] = stack[n + 1]
  BY Rest
<1>2. /\ \A n \in 1 .. Len(stack) :
           /\ stack[n][1] \in 0 .. num /\ stack[n][2] \in -1 .. num - 1
           /\ stack[n][1] <= stack[n][2] + 1
      /\ \A m, n \in 1 .. Len(stack) : m < n => stack[m][2] < stack[n][1]
  BY DEF StackInv
<1>3. ASSUME NEW n \in 1 .. Len(stack')
      PROVE  /\ stack'[n][1] \in 0 .. num' /\ stack'[n][2] \in -1 .. num' - 1
             /\ stack'[n][1] <= stack'[n][2] + 1
             /\ stack[1][2] < stack'[n][1]
  <2>1. n \in Nat /\ n + 1 \in 1 .. Len(stack) /\ stack'[n] = stack[n + 1] /\ 1 < n + 1
    BY <1>1, <1>3
  <2> QED BY <1>1, <1>2, <2>1
<1>4. ASSUME NEW m \in 1 .. Len(stack'), NEW n \in 1 .. Len(stack'), m < n
      PROVE  stack'[m][2] < stack'[n][1]
  <2>1. /\ m + 1 \in 1 .. Len(stack) /\ stack'[m] = stack[m + 1]
        /\ n + 1 \in 1 .. Len(stack) /\ stack'[n] = stack[n + 1]
        /\ m + 1 < n + 1
    BY <1>1, <1>4
  <2> QED BY <1>2, <2>1
<1>5. StackInv'
  BY <1>3, <1>4 DEF StackInv
<1> QED BY <1>1, <1>2, <1>3, <1>5

LEMMA CallStep ==
  ASSUME Ind, alg = "quick", QuickStart \/ QuickReturn \/ QuickDone \/ QuickCall
  PROVE  Ind'
<1> USE DEF At
<1>1. UNCHANGED <<fixed, data, counters, swap, index, tmp_low, tmp_high>>
  BY DEF QuickStart, QuickReturn, QuickDone, QuickCall, frame, cursors, quickvars
<1>2. D' = D /\ num' = num /\ alg' = alg /\ input' = input
      /\ \A e : V(e)' = V(e)
  BY <1>1, SameInput
<1>3. BubbleInv' /\ InsertionInv' /\ SelectInv'
  BY <1>2 DEF BubbleInv, InsertionInv, SelectInv
<1>4. /\ num \in Nat
      /\ \A e \in D : e \in Int /\ V(e) \in Int
      /\ data \in [D -> D]
      /\ \A k \in D : data[k] \in D /\ V(data[k]) \in Int
  BY Comparable DEF Ind, TypeOK
<1>5. pc \in {"start", "call"} /\ Whole = data /\ ~Dividing
  BY DEF QuickStart, QuickReturn, QuickDone, QuickCall, Whole, Dividing
<1>6. \A k, l \in D : k # l => data[k] # data[l]
  BY <1>5 DEF Ind, NothingLost
<1>7. CASE QuickStart
  <2>1. /\ stack' = <<<<0, num - 1>>>> /\ pc' = "call" /\ data' = data
        /\ UNCHANGED <<frame, cursors>>
    BY <1>7 DEF QuickStart
  <2>2. TypeOK'
    <3>1. stack' \in Seq((0 .. num) \X (-1 .. num))
      BY <1>4, <2>1
    <3> QED BY <1>1, <1>2, <1>4, <2>1, <3>1 DEF Ind, TypeOK, fixed, counters, frame, cursors
  <2>3. NothingLost'
    BY <1>2, <1>6, <2>1 DEF NothingLost, Whole
  <2>4. Len(stack') = 1 /\ stack'[1] = <<0, num - 1>>
        /\ stack'[1][1] = 0 /\ stack'[1][2] = num - 1
    BY <2>1
  <2>5. StackInv'
    BY <1>2, <1>4, <2>4 DEF StackInv
  <2>6. \A k, l \in D' : Pending(k, l)'
    BY <1>2, <1>4, <2>4 DEF Pending, D
  <2>7. QuickInv'
    BY <2>1, <2>5, <2>6 DEF QuickInv, DivideInv, Dividing, InOrder
  <2> QED BY <1>3, <2>2, <2>3, <2>7 DEF Ind
<1>8. ASSUME pc = "call"
      PROVE  /\ StackInv
             /\ \A k, l \in D : k < l => Le(data, k, l) \/ Pending(k, l)
  BY <1>5, <1>8 DEF Ind, QuickInv
<1>9. CASE QuickReturn
  <2>1. /\ stack # <<>> /\ stack' = Tail(stack) /\ pc = "call" /\ pc' = "call"
        /\ data' = data /\ Head(stack)[1] >= Head(stack)[2]
        /\ UNCHANGED <<frame, cursors>>
    BY <1>9 DEF QuickReturn
  <2>2. TypeOK'
    <3>1. stack' \in Seq((0 .. num) \X (-1 .. num))
      BY <2>1, Rest DEF Ind
    <3> QED BY <1>1, <1>2, <2>1, <3>1 DEF Ind, TypeOK, fixed, counters, frame, cursors
  <2>3. NothingLost'
    BY <1>2, <1>6, <2>1 DEF NothingLost, Whole
  <2>4. /\ Len(stack) \in Nat /\ Len(stack') = Len(stack) - 1
        /\ 1 \in 1 .. Len(stack) /\ Head(stack) = stack[1]
        /\ \A n \in 1 .. Len(stack') :
             n + 1 \in 1 .. Len(stack) /\ stack'[n] = stack[n + 1]
    BY <2>1, Rest DEF Ind
  <2>5. StackInv'
    BY <1>2, <1>8, <2>1, RestInv DEF Ind
  <2>6. \A k, l \in D' : k < l => Le(Whole, k, l)' \/ Pending(k, l)'
    <3> SUFFICES ASSUME NEW k \in D, NEW l \in D, k < l, Pending(k, l)
                 PROVE  Pending(k, l)'
      BY <1>2, <1>8, <2>1 DEF Le, V, Whole
    <3>1. PICK n \in 1 .. Len(stack) : stack[n][1] <= k /\ l <= stack[n][2]
      BY DEF Pending
    <3>2. stack[n][1] \in Int /\ stack[n][2] \in Int
      BY <1>4, <1>8, <2>1 DEF StackInv
    <3>3. n # 1
      BY <1>4, <2>1, <2>4, <3>1, <3>2
    <3>4. n - 1 \in 1 .. Len(stack') /\ stack'[n - 1] = stack[n]
      BY <2>4, <3>3
    <3> QED BY <3>1, <3>4 DEF Pending
  <2>7. QuickInv'
    BY <2>1, <2>5, <2>6 DEF QuickInv, DivideInv, Dividing, InOrder
  <2> QED BY <1>3, <2>2, <2>3, <2>7 DEF Ind
<1>10. CASE QuickDone
  <2>1. /\ stack = <<>> /\ stack' = stack /\ pc = "call" /\ pc' = "done"
        /\ data' = data /\ UNCHANGED <<frame, cursors>>
    BY <1>10 DEF QuickDone, quickvars
  <2>2. TypeOK'
    BY <1>1, <1>2, <2>1 DEF Ind, TypeOK, fixed, counters, frame, cursors
  <2>3. NothingLost'
    BY <1>2, <1>6, <2>1 DEF NothingLost, Whole
  <2>4. StackInv'
    BY <1>2, <1>8, <2>1 DEF StackInv
  <2>5. Len(stack) = 0
    BY <2>1
  <2>6. \A k, l \in D : k < l => Le(data, k, l)
    BY <1>8, <2>1, <2>5 DEF Pending
  <2>7. \A k, l \in D' : k < l => Le(data, k, l)'
    BY <1>2, <2>1, <2>6 DEF Le, V
  <2>8. Whole' = data'
    BY <2>1 DEF Whole
  <2>9. QuickInv'
    BY <2>1, <2>4, <2>7, <2>8 DEF QuickInv, DivideInv, Dividing, InOrder, Le
  <2> QED BY <1>3, <2>2, <2>3, <2>9 DEF Ind
<1>11. CASE QuickCall
  <2>1. /\ stack # <<>> /\ stack' = Tail(stack) /\ pc = "call" /\ pc' = "loop"
        /\ data' = data /\ Head(stack)[1] < Head(stack)[2]
        /\ left' = Head(stack)[1] /\ low' = left'
        /\ right' = Head(stack)[2] /\ high' = right'
        /\ key' = data[left']
    BY <1>11 DEF QuickCall
  <2>2. /\ Len(stack) \in Nat /\ Len(stack') = Len(stack) - 1
        /\ 1 \in 1 .. Len(stack) /\ Head(stack) = stack[1]
        /\ \A n \in 1 .. Len(stack') :
             n + 1 \in 1 .. Len(stack) /\ stack'[n] = stack[n + 1]
    BY <2>1, Rest DEF Ind
  <2>3. /\ left' \in D /\ right' \in D /\ left' < right' /\ key' \in D
        /\ left' \in Int /\ right' \in Int
    <3>1. Head(stack)[1] \in 0 .. num /\ Head(stack)[2] \in -1 .. num - 1
      BY <1>2, <1>8, <2>1, RestInv DEF Ind
    <3>2. left' \in 0 .. num /\ right' \in -1 .. num - 1 /\ left' < right'
      BY <2>1, <3>1
    <3>3. left' \in D /\ right' \in D
      BY <1>4, <3>2 DEF D
    <3> QED BY <1>4, <2>1, <3>2, <3>3
  <2>4. TypeOK'
    <3>1. stack' \in Seq((0 .. num) \X (-1 .. num))
      BY <2>1, Rest DEF Ind
    <3>2. left' \in 0 .. num /\ right' \in 0 .. num /\ right' \in -1 .. num /\ key' \in 0 .. num
      BY <1>4, <2>3 DEF D
    <3> QED BY <1>1, <1>2, <2>1, <3>1, <3>2 DEF Ind, TypeOK, fixed, counters
  <2>5. Whole' = data
    BY <1>4, <2>1, <2>3 DEF Whole, Hole
  <2>6. NothingLost'
    BY <1>2, <1>6, <2>5 DEF NothingLost
  <2>7. StackInv' /\ \A n \in 1 .. Len(stack') : right' < stack'[n][1]
    BY <1>2, <1>8, <2>1, RestInv DEF Ind
  <2>9. /\ \A k \in D' : left' <= k /\ k < low' => V(Whole[k])' <= V(key)'
        /\ \A k \in D' : high' < k /\ k <= right' => V(key)' <= V(Whole[k])'
    <3>1. \A k \in D' : k \in Int
      BY <1>2, <1>4
    <3>2. low' = left' /\ high' = right' /\ left' \in Int /\ right' \in Int
      BY <2>1, <2>3
    <3>3. \A k \in D' : ~(left' <= k /\ k < low') /\ ~(high' < k /\ k <= right')
      BY <3>1, <3>2
    <3> QED BY <3>3
  <2>10. DivideInv'
    <3>1. /\ 0 <= left' /\ left' < right' /\ right' < num'
          /\ left' <= low' /\ low' <= high' /\ high' <= right'
          /\ key' \in D'
      <4>1. low' = left' /\ high' = right'
        BY <2>1
      <4>2. 0 <= left' /\ right' < num
        BY <1>4, <2>3 DEF D
      <4> QED BY <1>2, <2>3, <4>1, <4>2
    <3> QED BY <2>1, <2>7, <2>9, <3>1 DEF DivideInv
  <2>11. \A k, l \in D' : k < l => \/ Le(Whole, k, l)'
                                   \/ left' <= k /\ l <= right'
                                   \/ Pending(k, l)'
    <3> SUFFICES ASSUME NEW k \in D, NEW l \in D, k < l, Pending(k, l),
                        ~(left' <= k /\ l <= right')
                 PROVE  Pending(k, l)'
      BY <1>2, <1>8, <2>1, <2>5 DEF Le, V
    <3>1. PICK n \in 1 .. Len(stack) : stack[n][1] <= k /\ l <= stack[n][2]
      BY DEF Pending
    <3>2. n # 1
      BY <2>1, <2>2, <3>1
    <3>3. n - 1 \in 1 .. Len(stack') /\ stack'[n - 1] = stack[n]
      BY <2>2, <3>2
    <3> QED BY <3>1, <3>3 DEF Pending
  <2>12. QuickInv'
    BY <2>1, <2>7, <2>10, <2>11 DEF QuickInv, Dividing, InOrder
  <2> QED BY <1>3, <2>4, <2>6, <2>12 DEF Ind
<1> QED BY <1>7, <1>9, <1>10, <1>11

-----------------------------------------------------------------------------
(* quick_sort: dividing a part                                             *)

LEMMA DivideStep ==
  ASSUME Ind, alg = "quick", QuickLoop \/ QuickDown \/ QuickUp
  PROVE  Ind'
<1> USE DEF At
<1>1. UNCHANGED <<fixed, counters, swap, index, stack, frame>>
  BY DEF QuickLoop, QuickDown, QuickUp
<1>2. D' = D /\ num' = num /\ alg' = alg /\ input' = input
      /\ \A e : V(e)' = V(e)
  BY <1>1, SameInput
<1>3. BubbleInv' /\ InsertionInv' /\ SelectInv'
  BY <1>2 DEF BubbleInv, InsertionInv, SelectInv
<1>4. /\ num \in Nat
      /\ \A e \in D : e \in Int /\ V(e) \in Int
      /\ data \in [D -> D]
      /\ \A k \in D : data[k] \in D /\ V(data[k]) \in Int
  BY Comparable DEF Ind, TypeOK
<1>5. Dividing /\ Dividing' /\ pc' # "done" /\ pc # "start" /\ pc' # "start"
      /\ pc' \in {"start", "call", "loop", "down", "up", "done"}
  BY DEF QuickLoop, QuickDown, QuickUp, Dividing
<1>6. /\ low \in D /\ high \in D /\ key \in D
      /\ left \in D /\ right \in D
      /\ left <= low /\ low <= high /\ high <= right /\ left < right
      /\ Whole \in [D -> D]
      /\ Whole[Hole] = key
      /\ \A k \in D : k # Hole => Whole[k] = data[k]
      /\ \A k \in D : left <= k /\ k < low => V(Whole[k]) <= V(key)
      /\ \A k \in D : high < k /\ k <= right => V(key) <= V(Whole[k])
      /\ \A n \in 1 .. Len(stack) : right < stack[n][1]
  BY <1>5, DividingFacts
<1>7. low \in Int /\ high \in Int /\ left \in Int /\ right \in Int
      /\ tmp_low \in Int /\ tmp_high \in Int
  BY <1>4, <1>6 DEF Ind, TypeOK
<1>8. left' = left /\ right' = right /\ key' = key /\ stack' = stack
  BY <1>1 DEF frame
<1>9. pc # "loop" => tmp_low < tmp_high /\ tmp_low <= low /\ high <= tmp_high
  BY <1>5 DEF Ind, QuickInv, DivideInv
<1>10. StackInv'
  BY <1>2, <1>5, <1>8 DEF Ind, QuickInv, StackInv
<1>11. \A k, l \in D : Pending(k, l)' = Pending(k, l)
  BY <1>8 DEF Pending
\* What is left to show of a step that leaves the whole array as it is.
<1>12. ASSUME Whole' = Whole, TypeOK', DivideInv'
       PROVE  Ind'
  <2>1. NothingLost'
    BY <1>2, <1>12 DEF Ind, NothingLost
  <2>2. \A k, l \in D : k < l => \/ Le(Whole, k, l)
                                 \/ left <= k /\ l <= right
                                 \/ Pending(k, l)
    BY <1>5 DEF Ind, QuickInv
  <2>3. \A k, l \in D' : k < l => \/ Le(Whole, k, l)'
                                  \/ left' <= k /\ l <= right'
                                  \/ Pending(k, l)'
    BY <1>2, <1>8, <1>11, <1>12, <2>2 DEF Le
  <2>4. QuickInv'
    BY <1>5, <1>10, <1>12, <2>3 DEF QuickInv, InOrder
  <2> QED BY <1>3, <1>12, <2>1, <2>4 DEF Ind
\* And of one that exchanges the elements at low and high.
<1>13. ASSUME Whole' \in [D -> D],
              Whole'[low] = Whole[high], Whole'[high] = Whole[low],
              \A k \in D : k # low /\ k # high => Whole'[k] = Whole[k],
              TypeOK', DivideInv'
       PROVE  Ind'
  <2>1. NothingLost'
    <3>1. \A k, l \in D : k # l => Whole[k] # Whole[l]
      BY DEF Ind, NothingLost
    <3>2. \A k, l \in D : k # l => Whole'[k] # Whole'[l]
      BY <1>6, <1>13, <3>1
    <3> QED BY <1>2, <3>2 DEF NothingLost
  <2>2. left <= low /\ low <= right /\ left <= high /\ high <= right
    BY <1>6, <1>7
  <2>3. \A k, l \in D : k < l => \/ Le(Whole', k, l)
                                 \/ left <= k /\ l <= right
                                 \/ Pending(k, l)
    BY <1>5, <1>6, <1>13, <2>2, ExchangeInPart
  <2>4. \A k, l \in D' : k < l => \/ Le(Whole, k, l)'
                                  \/ left' <= k /\ l <= right'
                                  \/ Pending(k, l)'
    BY <1>2, <1>8, <1>11, <2>3 DEF Le
  <2>5. QuickInv'
    BY <1>5, <1>10, <1>13, <2>4 DEF QuickInv, InOrder
  <2> QED BY <1>3, <1>13, <2>1, <2>5 DEF Ind
\* The bounds that stay with the part.
<1>14. /\ 0 <= left' /\ left' < right' /\ right' < num' /\ key' \in D'
       /\ \A n \in 1 .. Len(stack') : right' < stack'[n][1]
  <2>1. 0 <= left /\ right < num
    BY <1>4, <1>6 DEF D
  <2> QED BY <1>2, <1>6, <1>8, <2>1
<1>15. CASE QuickLoop
  <2>1. /\ low < high /\ tmp_low' = low /\ tmp_high' = high /\ low' = low /\ high' = high
        /\ pc = "loop" /\ pc' = "down" /\ data' = data
    BY <1>15 DEF QuickLoop
  <2>2. TypeOK'
    BY <1>1, <1>2, <2>1 DEF Ind, TypeOK, fixed, counters, frame
  <2>3. Whole' = Whole
    BY <1>8, <2>1 DEF Whole, Hole
  <2>4. /\ \A k \in D' : left' <= k /\ k < low' => V(Whole[k])' <= V(key)'
        /\ \A k \in D' : high' < k /\ k <= right' => V(key)' <= V(Whole[k])'
    BY <1>2, <1>6, <1>8, <2>1, <2>3 DEF V
  <2>5. /\ left' <= low' /\ low' <= high' /\ high' <= right'
        /\ tmp_low' < tmp_high' /\ tmp_low' <= low' /\ high' <= tmp_high'
    BY <1>6, <1>7, <1>8, <2>1
  <2>6. DivideInv'
    BY <1>14, <2>1, <2>4, <2>5 DEF DivideInv
  <2> QED BY <1>12, <2>2, <2>3, <2>6
<1>16. CASE QuickDown
  <2>1. /\ pc = "down" /\ low' = low /\ tmp_low' = tmp_low /\ tmp_high' = tmp_high
    BY <1>16 DEF QuickDown
  <2>2. Hole = low
    BY <2>1 DEF Hole
  <2>3. CASE low < high /\ V(data[high]) > V(key)
    <3>1. high' = high - 1 /\ data' = data /\ pc' = "down"
      BY <1>16, <2>3 DEF QuickDown
    <3>2. TypeOK'
      <4>1. high' \in 0 .. num
        BY <1>4, <1>6, <1>7, <2>3, <3>1 DEF D
      <4> QED BY <1>1, <1>2, <2>1, <3>1, <4>1 DEF Ind, TypeOK, fixed, counters, frame
    <3>3. Whole' = Whole
      BY <1>8, <2>1, <3>1 DEF Whole, Hole
    <3>4. V(key) <= V(Whole[high])
      <4>1. Whole[high] = data[high]
        BY <1>6, <1>7, <2>2, <2>3
      <4>2. V(key) \in Int /\ V(data[high]) \in Int
        BY <1>4, <1>6
      <4> QED BY <2>3, <4>1, <4>2
    <3>5. \A k \in D : high - 1 < k /\ k <= right => V(key) <= V(Whole[k])
      BY <1>4, <1>6, <1>7, <3>4
    <3>6. /\ \A k \in D' : left' <= k /\ k < low' => V(Whole[k])' <= V(key)'
          /\ \A k \in D' : high' < k /\ k <= right' => V(key)' <= V(Whole[k])'
      BY <1>2, <1>6, <1>8, <2>1, <3>1, <3>3, <3>5 DEF V
    <3>7. /\ left' <= low' /\ low' <= high' /\ high' <= right'
          /\ tmp_low' < tmp_high' /\ tmp_low' <= low' /\ high' <= tmp_high'
      BY <1>6, <1>7, <1>8, <1>9, <2>1, <2>3, <3>1
    <3>8. DivideInv'
      BY <1>14, <3>1, <3>6, <3>7 DEF DivideInv
    <3> QED BY <1>12, <3>2, <3>3, <3>8
  <2>4. CASE ~(low < high /\ V(data[high]) > V(key))
    <3>1. high' = high /\ data' = [data EXCEPT ![low] = data[high]] /\ pc' = "up"
      BY <1>16, <2>4 DEF QuickDown
    <3>2. data' \in [D -> D] /\ data'[low] = data[high]
          /\ \A k \in D : k # low => data'[k] = data[k]
      BY <1>4, <1>6, <3>1
    <3>3. TypeOK'
      BY <1>1, <1>2, <2>1, <3>1, <3>2 DEF Ind, TypeOK, fixed, counters, frame
    <3>4. Whole' = [data' EXCEPT ![high] = key]
      BY <1>8, <3>1 DEF Whole, Hole
    <3>5. /\ Whole' \in [D -> D] /\ Whole'[high] = key
          /\ \A k \in D : k # high => Whole'[k] = data'[k]
      BY <1>6, <3>2, <3>4
    <3>6. /\ Whole'[low] = Whole[high] /\ Whole'[high] = Whole[low]
          /\ \A k \in D : k # low /\ k # high => Whole'[k] = Whole[k]
      BY <1>6, <2>2, <3>2, <3>5
    <3>7. /\ \A k \in D : left <= k /\ k < low => V(Whole'[k]) <= V(key)
          /\ \A k \in D : high < k /\ k <= right => V(key) <= V(Whole'[k])
      <4>1. \A k \in D : k < low \/ high < k => Whole'[k] = Whole[k]
        <5>1. \A k \in D : k < low \/ high < k => k # low /\ k # high
          BY <1>4, <1>6, <1>7
        <5> QED BY <3>6, <5>1
      <4> QED BY <1>6, <4>1
    <3>8. /\ \A k \in D' : left' <= k /\ k < low' => V(Whole[k])' <= V(key)'
          /\ \A k \in D' : high' < k /\ k <= right' => V(key)' <= V(Whole[k])'
      BY <1>2, <1>8, <2>1, <3>1, <3>7 DEF V
    <3>9. /\ left' <= low' /\ low' <= high' /\ high' <= right'
          /\ tmp_low' < tmp_high' /\ tmp_low' <= low' /\ high' <= tmp_high'
      BY <1>6, <1>7, <1>8, <1>9, <2>1, <3>1
    <3>10. low' < high' => V(data[low])' <= V(key)'
      <4>1. low < high => V(data'[low]) <= V(key)
        BY <1>4, <1>6, <2>4, <3>2
      <4> QED BY <1>2, <1>8, <2>1, <3>1, <4>1 DEF V
    <3>11. DivideInv'
      BY <1>14, <3>8, <3>9, <3>10 DEF DivideInv
    <3> QED BY <1>13, <3>3, <3>5, <3>6, <3>11
  <2> QED BY <2>3, <2>4
<1>17. CASE QuickUp
  <2>1. /\ pc = "up" /\ tmp_low' = tmp_low /\ tmp_high' = tmp_high
    BY <1>17 DEF QuickUp
  <2>2. Hole = high
    BY <2>1 DEF Hole
  <2>3. CASE low < high /\ V(data[low]) < V(key)
    <3>1. low' = low + 1 /\ high' = high /\ data' = data /\ pc' = "up"
      BY <1>17, <2>3 DEF QuickUp
    <3>2. TypeOK'
      <4>1. low' \in 0 .. num
        BY <1>4, <1>6, <1>7, <2>3, <3>1 DEF D
      <4> QED BY <1>1, <1>2, <2>1, <3>1, <4>1 DEF Ind, TypeOK, fixed, counters, frame
    <3>3. Whole' = Whole
      BY <1>8, <2>1, <3>1 DEF Whole, Hole
    <3>4. V(Whole[low]) <= V(key)
      BY <1>4, <1>6, <1>7, <2>2, <2>3
    <3>5. \A k \in D : left <= k /\ k < low + 1 => V(Whole[k]) <= V(key)
      BY <1>4, <1>6, <1>7, <3>4
    <3>6. /\ \A k \in D' : left' <= k /\ k < low' => V(Whole[k])' <= V(key)'
          /\ \A k \in D' : high' < k /\ k <= right' => V(key)' <= V(Whole[k])'
      BY <1>2, <1>6, <1>8, <3>1, <3>3, <3>5 DEF V
    <3>7. /\ left' <= low' /\ low' <= high' /\ high' <= right'
          /\ tmp_low' < tmp_high' /\ tmp_low' < low' /\ tmp_low' <= low' /\ high' <= tmp_high'
      BY <1>6, <1>7, <1>8, <1>9, <2>1, <2>3, <3>1
    <3>8. DivideInv'
      BY <1>14, <3>6, <3>7 DEF DivideInv
    <3> QED BY <1>12, <3>2, <3>3, <3>8
  <2>4. CASE ~(low < high /\ V(data[low]) < V(key))
    <3>1. low' = low /\ data' = Moved /\ high' = Shrunk /\ pc' = "loop"
      BY <1>17, <2>4 DEF QuickUp
    <3>2. data' \in [D -> D] /\ data'[high] = data[low]
          /\ \A k \in D : k # high => data'[k] = data[k]
      BY <1>4, <1>6, <3>1 DEF Moved
    <3>3. Whole' = [data' EXCEPT ![low] = key]
      BY <1>8, <3>1 DEF Whole, Hole
    <3>4. /\ Whole' \in [D -> D] /\ Whole'[low] = key
          /\ \A k \in D : k # low => Whole'[k] = data'[k]
      BY <1>6, <3>2, <3>3
    <3>5. /\ Whole'[low] = Whole[high] /\ Whole'[high] = Whole[low]
          /\ \A k \in D : k # low /\ k # high => Whole'[k] = Whole[k]
      BY <1>6, <2>2, <3>2, <3>4
    <3>6. /\ \A k \in D : left <= k /\ k < low => V(Whole'[k]) <= V(key)
          /\ \A k \in D : high < k /\ k <= right => V(key) <= V(Whole'[k])
      <4>1. \A k \in D : k < low \/ high < k => Whole'[k] = Whole[k]
        <5>1. \A k \in D : k < low \/ high < k => k # low /\ k # high
          BY <1>4, <1>6, <1>7
        <5> QED BY <3>5, <5>1
      <4> QED BY <1>6, <4>1
    <3>7. /\ low <= high' /\ high' <= high /\ high' \in Int
          /\ \A k \in D : high' < k /\ k <= right => V(key) <= V(Whole'[k])
      <4>1. CASE high = tmp_high /\ low = tmp_low
        <5>1. high' = high - 1 /\ low < high
          BY <1>7, <1>9, <2>1, <3>1, <4>1 DEF Shrunk
        <5>2. V(data[low]) <= V(key) \/ tmp_low < low
          BY <1>5, <2>1, <5>1 DEF Ind, QuickInv, DivideInv
        <5>3. V(data[low]) = V(key)
          <6>1. ~(tmp_low < low)
            BY <1>7, <4>1
          <6>2. V(key) \in Int /\ V(data[low]) \in Int
            BY <1>4, <1>6
          <6> QED BY <2>4, <5>1, <5>2, <6>1, <6>2
        <5>4. Whole'[high] = data[low]
          BY <1>6, <1>7, <3>2, <3>4, <5>1
        <5>5. V(key) <= V(Whole'[high])
          BY <1>4, <1>6, <5>3, <5>4
        <5> QED BY SMTT(30), <1>4, <1>6, <1>7, <3>6, <5>1, <5>5
      <4>2. CASE ~(high = tmp_high /\ low = tmp_low)
        BY <1>6, <1>7, <3>1, <3>6, <4>2 DEF Shrunk
      <4> QED BY <4>1, <4>2
    <3>8. TypeOK'
      <4>1. high' \in 0 .. num
        BY <1>4, <1>6, <1>7, <3>7 DEF D
      <4> QED BY <1>1, <1>2, <2>1, <3>1, <3>2, <4>1 DEF Ind, TypeOK, fixed, counters, frame
    <3>9. /\ \A k \in D' : left' <= k /\ k < low' => V(Whole[k])' <= V(key)'
          /\ \A k \in D' : high' < k /\ k <= right' => V(key)' <= V(Whole[k])'
      BY <1>2, <1>8, <3>1, <3>6, <3>7 DEF V
    <3>10. /\ left' <= low' /\ low' <= high' /\ high' <= right'
      BY <1>6, <1>7, <1>8, <3>1, <3>7
    <3>11. DivideInv'
      BY <1>14, <3>1, <3>9, <3>10 DEF DivideInv
    <3> QED BY <1>13, <3>4, <3>5, <3>8, <3>11
  <2> QED BY <2>3, <2>4
<1> QED BY <1>15, <1>16, <1>17

\* The key goes to its place, and the two parts are left to be sorted.
LEMMA PlaceStep ==
  ASSUME Ind, alg = "quick", QuickPlace
  PROVE  Ind'
<1>1. /\ pc = "loop" /\ low >= high /\ data' = [data EXCEPT ![low] = key]
      /\ stack' = Parts \o stack /\ pc' = "call"
      /\ UNCHANGED <<fixed, counters, swap, index, frame, cursors>>
  BY DEF QuickPlace, At
<1>2. D' = D /\ num' = num /\ alg' = alg /\ input' = input
      /\ \A e : V(e)' = V(e)
  BY <1>1, SameInput
<1>3. BubbleInv' /\ InsertionInv' /\ SelectInv'
  BY <1>2 DEF BubbleInv, InsertionInv, SelectInv
<1>4. /\ num \in Nat
      /\ \A e \in D : e \in Int /\ V(e) \in Int
      /\ data \in [D -> D]
  BY Comparable DEF Ind, TypeOK
<1>5. Dividing /\ ~Dividing'
  BY <1>1 DEF Dividing
<1>6. /\ low \in D /\ high \in D /\ key \in D
      /\ left \in D /\ right \in D
      /\ left <= low /\ low <= high /\ high <= right /\ left < right
      /\ Whole \in [D -> D]
      /\ Whole[Hole] = key
      /\ \A k \in D : left <= k /\ k < low => V(Whole[k]) <= V(key)
      /\ \A k \in D : high < k /\ k <= right => V(key) <= V(Whole[k])
      /\ \A n \in 1 .. Len(stack) : right < stack[n][1]
  BY <1>5, DividingFacts
<1>7. /\ low \in 0 .. num - 1 /\ left \in 0 .. num - 1 /\ right \in 0 .. num - 1
      /\ low = high /\ left <= low /\ low <= right
  <2>1. low \in Int /\ high \in Int /\ left \in Int /\ right \in Int
    BY <1>4, <1>6
  <2>2. low = high /\ left <= low /\ low <= right
    BY <1>1, <1>6, <2>1
  <2> QED BY <1>6, <2>2 DEF D
<1>8. Whole' = Whole /\ data' = Whole /\ Whole[low] = key
  BY <1>1, <1>6 DEF Whole, Hole
<1>9. Parts[1] = <<left, low - 1>> /\ Parts[2] = <<low + 1, right>> /\ Len(Parts) = 2
  BY DEF Parts
<1>10. /\ stack \in Seq((0 .. num) \X (-1 .. num))
       /\ Parts \in Seq((0 .. num) \X (-1 .. num))
  <2>1. /\ left \in 0 .. num /\ low - 1 \in -1 .. num
        /\ low + 1 \in 0 .. num /\ right \in -1 .. num
    BY <1>4, <1>7
  <2>2. Parts \in Seq((0 .. num) \X (-1 .. num))
    BY <2>1 DEF Parts
  <2> QED BY <2>2 DEF Ind, TypeOK
<1>11. /\ stack' \in Seq((0 .. num) \X (-1 .. num))
       /\ Len(stack) \in Nat /\ Len(stack') = Len(stack) + 2
       /\ stack'[1] = <<left, low - 1>> /\ stack'[2] = <<low + 1, right>>
       /\ \A n \in 1 .. Len(stack) : stack'[n + 2] = stack[n]
  <2>1. /\ stack' \in Seq((0 .. num) \X (-1 .. num))
        /\ Len(stack) \in Nat /\ Len(stack') = Len(Parts) + Len(stack)
        /\ \A n \in 1 .. Len(Parts) + Len(stack) :
             stack'[n] = IF n <= Len(Parts) THEN Parts[n] ELSE stack[n - Len(Parts)]
    BY <1>1, <1>10
  <2>2. /\ Len(stack') = 2 + Len(stack)
        /\ \A n \in 1 .. 2 + Len(stack) :
             stack'[n] = IF n <= 2 THEN Parts[n] ELSE stack[n - 2]
    BY <1>9, <2>1
  <2>3. stack'[1] = Parts[1] /\ stack'[2] = Parts[2]
    BY <2>1, <2>2
  <2>4. ASSUME NEW n \in 1 .. Len(stack)
        PROVE  stack'[n + 2] = stack[n]
    <3>1. n + 2 \in 1 .. 2 + Len(stack) /\ ~(n + 2 <= 2) /\ (n + 2) - 2 = n
      BY <2>1
    <3> QED BY <2>2, <3>1
  <2>5. stack' \in Seq((0 .. num) \X (-1 .. num)) /\ Len(stack) \in Nat
    BY <2>1
  <2>6. Len(stack') = Len(stack) + 2
    BY <2>2, <2>5
  <2>7. stack'[1] = <<left, low - 1>> /\ stack'[2] = <<low + 1, right>>
    BY <1>9, <2>3
  <2> QED BY <2>4, <2>5, <2>6, <2>7
<1>12. /\ stack'[1][1] = left /\ stack'[1][2] = low - 1
       /\ stack'[2][1] = low + 1 /\ stack'[2][2] = right
  BY <1>11
<1>13. /\ \A n \in 1 .. Len(stack) :
            /\ stack[n][1] \in 0 .. num /\ stack[n][2] \in -1 .. num - 1
            /\ stack[n][1] <= stack[n][2] + 1
       /\ \A m, n \in 1 .. Len(stack) : m < n => stack[m][2] < stack[n][1]
  BY <1>5 DEF Ind, QuickInv, StackInv, Dividing
<1>14. \A n \in 1 .. Len(stack') :
         n = 1 \/ n = 2 \/ (n - 2 \in 1 .. Len(stack) /\ 2 < n /\ stack'[n] = stack[n - 2])
  <2> SUFFICES ASSUME NEW n \in 1 .. Len(stack'), n # 1, n # 2
               PROVE  n - 2 \in 1 .. Len(stack) /\ 2 < n /\ stack'[n] = stack[n - 2]
    OBVIOUS
  <2>1. n - 2 \in 1 .. Len(stack) /\ 2 < n /\ (n - 2) + 2 = n
    BY <1>11
  <2> QED BY <1>11, <2>1
<1>15. StackInv'
  <2>1. ASSUME NEW n \in 1 .. Len(stack')
        PROVE  /\ stack'[n][1] \in 0 .. num' /\ stack'[n][2] \in -1 .. num' - 1
               /\ stack'[n][1] <= stack'[n][2] + 1
    <3>1. CASE n = 1
      BY <1>2, <1>4, <1>7, <1>12, <3>1
    <3>2. CASE n = 2
      BY <1>2, <1>4, <1>7, <1>12, <3>2
    <3>3. CASE n - 2 \in 1 .. Len(stack) /\ stack'[n] = stack[n - 2]
      BY <1>2, <1>13, <3>3
    <3> QED BY <1>14, <3>1, <3>2, <3>3
  <2>2. ASSUME NEW m \in 1 .. Len(stack'), NEW n \in 1 .. Len(stack'), m < n
        PROVE  stack'[m][2] < stack'[n][1]
    <3>1. CASE m = 1 /\ n = 2
      BY <1>7, <1>12, <3>1
    <3>2. CASE n - 2 \in 1 .. Len(stack) /\ 2 < n /\ stack'[n] = stack[n - 2]
      <4>1. stack'[n][1] \in Int /\ right < stack'[n][1]
        <5>1. stack[n - 2][1] \in Int /\ right < stack[n - 2][1]
          BY <1>6, <1>13, <3>2
        <5> QED BY <3>2, <5>1
      <4>2. CASE m = 1 \/ m = 2
        BY <1>7, <1>12, <4>1, <4>2
      <4>3. CASE m - 2 \in 1 .. Len(stack) /\ stack'[m] = stack[m - 2]
        <5>1. m - 2 < n - 2
          BY <2>2, <1>11
        <5> QED BY <1>13, <3>2, <4>3, <5>1
      <4> QED BY <1>14, <4>2, <4>3
    <3>3. n # 1 /\ (n = 2 => m = 1)
      BY <2>2, <1>11
    <3> QED BY <1>14, <3>1, <3>2, <3>3
  <2> QED BY <2>1, <2>2 DEF StackInv
<1>16. TypeOK'
  <2>1. data' \in [D -> D]
    BY <1>6, <1>8
  <2> QED BY <1>1, <1>2, <1>11, <2>1 DEF Ind, TypeOK, fixed, counters, frame, cursors
<1>17. NothingLost'
  BY <1>2, <1>8 DEF Ind, NothingLost
<1>18. ASSUME NEW k \in D, NEW l \in D, k < l, ~Le(Whole, k, l)
       PROVE  Pending(k, l)'
  <2>1. (left <= k /\ l <= right) \/ Pending(k, l)
    BY <1>5, <1>18 DEF Ind, QuickInv, Dividing
  <2>2. CASE Pending(k, l)
    <3>1. PICK n \in 1 .. Len(stack) : stack[n][1] <= k /\ l <= stack[n][2]
      BY <2>2 DEF Pending
    <3>2. n + 2 \in 1 .. Len(stack') /\ stack'[n + 2] = stack[n]
      BY <1>11
    <3> QED BY <3>1, <3>2 DEF Pending
  <2>3. CASE left <= k /\ l <= right
    <3>1. k \in Int /\ l \in Int /\ V(Whole[k]) \in Int /\ V(Whole[l]) \in Int /\ V(key) \in Int
      BY <1>4, <1>6
    <3>2. k <= low => V(Whole[k]) <= V(key)
      BY <1>6, <1>7, <1>8, <2>3, <3>1
    <3>3. low <= l => V(key) <= V(Whole[l])
      BY <1>6, <1>7, <1>8, <2>3, <3>1
    <3>4. l <= low - 1 \/ low + 1 <= k
      BY <1>7, <1>18, <3>1, <3>2, <3>3 DEF Le
    <3>5. 1 \in 1 .. Len(stack') /\ 2 \in 1 .. Len(stack')
      BY <1>11
    <3> QED BY <1>12, <2>3, <3>4, <3>5 DEF Pending
  <2> QED BY <2>1, <2>2, <2>3
<1>19. \A k, l \in D' : k < l => Le(Whole, k, l)' \/ Pending(k, l)'
  <2>1. \A k, l \in D : Le(Whole, k, l)' = Le(Whole, k, l)
    BY <1>2, <1>8 DEF Le
  <2> QED BY <1>2, <1>18, <2>1
<1>20. QuickInv'
  BY <1>1, <1>5, <1>15, <1>19 DEF QuickInv, DivideInv, InOrder
<1> QED BY <1>3, <1>16, <1>17, <1>20 DEF Ind

-----------------------------------------------------------------------------
(* The invariant holds at the start and is kept by every step.             *)

LEMMA InitInd == Init => Ind
<1> SUFFICES ASSUME Init PROVE Ind
  OBVIOUS
<1>1. num \in Nat /\ data = [k \in D |-> k] /\ pc = "start"
  BY SortingAssumption DEF Init
<1>2. TypeOK
  <2>1. data \in [D -> D]
    BY <1>1
  <2>2. 0 \in 0 .. num /\ 0 \in -1 .. num
    BY <1>1
  <2>3. <<>> \in Seq((0 .. num) \X (-1 .. num))
    OBVIOUS
  <2> QED BY <2>1, <2>2, <2>3 DEF Init, TypeOK
<1>3. NothingLost
  BY <1>1 DEF NothingLost, Whole
<1>4. BubbleInv /\ InsertionInv /\ SelectInv /\ QuickInv
  BY <1>1 DEF BubbleInv, InsertionInv, SelectInv, QuickInv, InOrder
<1> QED BY <1>2, <1>3, <1>4 DEF Ind

LEMMA StutterInd ==
  ASSUME Ind, UNCHANGED vars
  PROVE  Ind'
<1>1. UNCHANGED <<alg, num, input, data, pc, i, j, swap, index, stack, left, right,
                  key, low, high, tmp_low, tmp_high>>
  BY DEF vars, fixed, counters, quickvars, frame, cursors
<1>2. TypeOK' /\ NothingLost'
  BY <1>1 DEF Ind, TypeOK, NothingLost, Whole, Hole, D
<1>3. BubbleInv' /\ InsertionInv' /\ SelectInv'
  BY <1>1 DEF Ind, BubbleInv, InsertionInv, SelectInv, InOrder, Le, V, D
<1>4. QuickInv'
  BY SMTT(30), <1>1 DEF Ind, QuickInv, StackInv, DivideInv, Dividing, Pending, Whole, Hole, InOrder,
     Le, V, D
<1> QED BY <1>2, <1>3, <1>4 DEF Ind

LEMMA StepInd == Ind /\ [Next]_vars => Ind'
<1> SUFFICES ASSUME Ind, [Next]_vars PROVE Ind'
  OBVIOUS
<1>1. CASE UNCHANGED vars
  BY <1>1, StutterInd
<1>2. CASE BubbleStart \/ BubblePass \/ BubbleCompare \/ BubbleEndPass
  BY <1>2, BubbleStep
<1>3. CASE LoopStart \/ LoopEnd
  BY <1>3, InsertionStep, SelectStep DEF LoopStart, LoopEnd
<1>4. CASE InsertionPass \/ InsertionSearch \/ InsertionInsert
  BY <1>4, InsertionStep DEF InsertionPass, InsertionSearch, InsertionInsert, At
<1>5. CASE SelectPass \/ SelectCompare \/ SelectExchange
  BY <1>5, SelectStep DEF SelectPass, SelectCompare, SelectExchange, At
<1>6. CASE QuickStart \/ QuickReturn \/ QuickDone \/ QuickCall
  BY <1>6, CallStep DEF QuickStart, QuickReturn, QuickDone, QuickCall, At
<1>7. CASE QuickLoop \/ QuickDown \/ QuickUp
  BY <1>7, DivideStep DEF QuickLoop, QuickDown, QuickUp, At
<1>8. CASE QuickPlace
  BY <1>8, PlaceStep DEF QuickPlace, At
<1> QED BY <1>1, <1>2, <1>3, <1>4, <1>5, <1>6, <1>7, <1>8 DEF Next

LEMMA AlwaysInd == Spec => []Ind
BY InitInd, StepInd, PTL DEF Spec

-----------------------------------------------------------------------------
(***************************************************************************)
(* Every index and counter of the four sorts stays where it may point, for *)
(* arrays of any length: no loop runs off either end of data[].            *)
(***************************************************************************)
THEOREM SortTypeCorrect == Spec => []TypeOK
<1>1. Ind => TypeOK
  BY DEF Ind
<1> QED BY <1>1, AlwaysInd, PTL

(***************************************************************************)
(* No element is lost or doubled by any of the sorts, at any step, with    *)
(* the key of a division counted where it will be put back.                *)
(***************************************************************************)
THEOREM NothingEverLost == Spec => []NothingLost
<1>1. Ind => NothingLost
  BY DEF Ind
<1> QED BY <1>1, AlwaysInd, PTL

(***************************************************************************)
(* Each of the four sorts, once it has ended, has left the array in order, *)
(* whatever its length and whatever the numbers.                           *)
(***************************************************************************)
THEOREM SortsInOrder == Spec => []InOrder
<1>1. Ind => InOrder
  BY DEF Ind, TypeOK, BubbleInv, InsertionInv, SelectInv, QuickInv
<1> QED BY <1>1, AlwaysInd, PTL
=============================================================================
