---------------------------- MODULE BtList_proofs ---------------------------
(***************************************************************************)
(* ListInv holds in every reachable state, for any finite set of cells,    *)
(* and the list implements an ordered bag.  The lemmas on chains are about *)
(* constants: an order s of n cells, a first cell l and the next fields nx.*)
(***************************************************************************)
EXTENDS BtList, WellFoundedInduction, SequenceTheorems, FiniteSetTheorems, TLAPS

Img(s, n) == {s[i] : i \in 1..n}

IsChain(s, n, l, nx) ==
  /\ s \in [1..n -> Cells]
  /\ l = IF n = 0 THEN NULL ELSE s[1]
  /\ \A i \in 1..n : nx[s[i]] = IF i = n THEN NULL ELSE s[i + 1]
  /\ \A i, j \in 1..n : s[i] = s[j] => i = j

NextFields == [Cells -> Links]

-----------------------------------------------------------------------------
(* Chains *)

\* A set of numbers that is not empty has a least element.
LEMMA LeastNumber ==
  ASSUME NEW T \in SUBSET Nat, T # {}
  PROVE  \E m \in T : \A k \in T : m <= k
<1> DEFINE R == OpToRel(<, Nat)
<1>1. IsWellFoundedOn(R, Nat)
  BY NatLessThanWellFounded
<1> HIDE DEF R
<1>2. PICK m \in T : \A k \in T : ~(<<k, m>> \in R)
  BY <1>1, WFMin
<1>3. \A k \in T : ~(k < m)
  BY <1>2 DEF R, OpToRel
<1> QED
  BY <1>2, <1>3

\* A set closed under next that has the first cell has the whole chain.
LEMMA ChainInClosed ==
  ASSUME NEW n \in Nat, NEW nx \in NextFields, NEW l, NEW s, IsChain(s, n, l, nx),
         NEW S \in SUBSET Cells, l \in S \cup {NULL},
         \A d \in S : nx[d] \in S \cup {NULL}
  PROVE  Img(s, n) \subseteq S
<1> DEFINE T == {i \in 1..n : s[i] \notin S}
<1>1. SUFFICES ASSUME T # {} PROVE FALSE
  BY DEF Img
<1>2. T \in SUBSET Nat
  OBVIOUS
<1>3. PICK m \in T : \A k \in T : m <= k
  <2> HIDE DEF T
  <2> QED
    BY <1>1, <1>2, LeastNumber
<1>4. m # 1
  BY <1>3, CellAssumption DEF IsChain
<1>5. m - 1 \in 1..n /\ m - 1 \notin T
  BY <1>3, <1>4
<1>6. s[m - 1] \in S /\ nx[s[m - 1]] = s[m]
  BY <1>3, <1>5 DEF IsChain
<1> QED
  BY <1>3, <1>6, CellAssumption DEF IsChain

\* The cells a walk comes to are the cells of the chain.
LEMMA WalkOfChain ==
  ASSUME ListTypeOK, NEW s \in Chains
  PROVE  InList = Img(s, num)
<1>1. IsChain(s, num, list, next)
  BY DEF Chains, Chain, IsChain
<1>2. Img(s, num) \subseteq Cells
  BY <1>1 DEF Img, IsChain
<1>3. Closed(Img(s, num)) /\ list \in Img(s, num) \cup {NULL}
  BY <1>1 DEF Closed, Img, IsChain, ListTypeOK
<1>4. InList \subseteq Img(s, num)
  BY <1>2, <1>3 DEF InList, From
<1>5. \A S \in SUBSET Cells : Closed(S) /\ list \in S \cup {NULL} => Img(s, num) \subseteq S
  BY <1>1, ChainInClosed DEF Closed, ListTypeOK, NextFields
<1> QED
  BY <1>2, <1>4, <1>5 DEF InList, From

LEMMA EmptyChain ==
  ASSUME NEW nx
  PROVE  \A s \in [1..0 -> Cells] : IsChain(s, 0, NULL, nx) /\ Img(s, 0) = {}
BY DEF IsChain, Img

\* The order with c behind, or in front.
Appended(s, n, c) == [i \in 1..(n + 1) |-> IF i = n + 1 THEN c ELSE s[i]]
Prepended(s, n, c) == [i \in 1..(n + 1) |-> IF i = 1 THEN c ELSE s[i - 1]]

LEMMA SingleChain ==
  ASSUME NEW c \in Cells, NEW nx \in NextFields, nx[c] = NULL, NEW s
  PROVE  /\ IsChain(Appended(s, 0, c), 1, c, nx) /\ Img(Appended(s, 0, c), 1) = {c}
         /\ Prepended(s, 0, c) = Appended(s, 0, c)
BY DEF IsChain, Img, Appended, Prepended

LEMMA ChainAppended ==
  ASSUME NEW n \in Nat \ {0}, NEW nx \in NextFields, NEW l, NEW s, IsChain(s, n, l, nx),
         NEW c \in Cells \ Img(s, n), nx[c] = NULL
  PROVE  /\ IsChain(Appended(s, n, c), n + 1, l, [nx EXCEPT ![s[n]] = c])
         /\ Img(Appended(s, n, c), n + 1) = Img(s, n) \cup {c}
<1> USE DEF Appended
<1> DEFINE t == Appended(s, n, c)
           ny == [nx EXCEPT ![s[n]] = c]
<1>1. t \in [1..(n + 1) -> Cells] /\ l = t[1]
  BY DEF IsChain
<1>2. \A i, j \in 1..(n + 1) : t[i] = t[j] => i = j
  BY DEF IsChain, Img
<1>3. ASSUME NEW i \in 1..(n + 1) PROVE ny[t[i]] = IF i = n + 1 THEN NULL ELSE t[i + 1]
  <2>1. CASE i = n + 1
    BY <2>1 DEF IsChain, Img, NextFields
  <2>2. CASE i = n
    BY <2>2 DEF IsChain, Img, NextFields
  <2>3. CASE i \in 1..(n - 1)
    BY <2>3 DEF IsChain, Img, NextFields
  <2> QED
    BY <2>1, <2>2, <2>3
<1>4. Img(t, n + 1) = Img(s, n) \cup {c}
  BY DEF Img
<1> QED
  BY <1>1, <1>2, <1>3, <1>4 DEF IsChain

LEMMA ChainPrepended ==
  ASSUME NEW n \in Nat \ {0}, NEW nx \in NextFields, NEW l, NEW s, IsChain(s, n, l, nx),
         NEW c \in Cells \ Img(s, n)
  PROVE  /\ IsChain(Prepended(s, n, c), n + 1, c, [nx EXCEPT ![c] = l])
         /\ Img(Prepended(s, n, c), n + 1) = Img(s, n) \cup {c}
<1> USE DEF Prepended
<1> DEFINE t == Prepended(s, n, c)
           ny == [nx EXCEPT ![c] = l]
<1>1. t \in [1..(n + 1) -> Cells] /\ c = t[1]
  BY DEF IsChain
<1>2. \A i, j \in 1..(n + 1) : t[i] = t[j] => i = j
  BY DEF IsChain, Img
<1>3. ASSUME NEW i \in 1..(n + 1) PROVE ny[t[i]] = IF i = n + 1 THEN NULL ELSE t[i + 1]
  <2>1. CASE i = 1
    BY <2>1 DEF IsChain, Img, NextFields
  <2>2. CASE i \in 2..(n + 1)
    <3>1. i - 1 \in 1..n /\ t[i] = s[i - 1] /\ t[i] # c
      BY <2>2 DEF Img
    <3> QED
      BY <2>2, <3>1 DEF IsChain, NextFields
  <2> QED
    BY <2>1, <2>2
<1>4. Img(t, n + 1) = Img(s, n) \cup {c}
  <2>1. \A i \in 1..n : i + 1 \in 1..(n + 1) /\ t[i + 1] = s[i]
    OBVIOUS
  <2>2. \A i \in 1..(n + 1) : i = 1 \/ (i - 1 \in 1..n /\ t[i] = s[i - 1])
    OBVIOUS
  <2>3. 1 \in 1..(n + 1) /\ t[1] = c
    OBVIOUS
  <2> HIDE DEF t
  <2>4. Img(t, n + 1) \subseteq Img(s, n) \cup {c}
    BY <2>2, <2>3 DEF Img
  <2>5. Img(s, n) \cup {c} \subseteq Img(t, n + 1)
    BY <2>1, <2>3 DEF Img
  <2> QED
    BY <2>4, <2>5
<1> QED
  BY <1>1, <1>2, <1>3, <1>4 DEF IsChain

\* The order without its k-th cell.
Without(s, n, k) == [i \in 1..(n - 1) |-> IF i < k THEN s[i] ELSE s[i + 1]]

LEMMA OrderWithout ==
  ASSUME NEW n \in Nat, NEW nx, NEW l, NEW s, IsChain(s, n, l, nx), NEW k \in 1..n
  PROVE  /\ Without(s, n, k) \in [1..(n - 1) -> Cells]
         /\ \A i, j \in 1..(n - 1) : Without(s, n, k)[i] = Without(s, n, k)[j] => i = j
         /\ Img(Without(s, n, k), n - 1) = Img(s, n) \ {s[k]}
<1> DEFINE t == Without(s, n, k)
<1>1. t \in [1..(n - 1) -> Cells]
  BY DEF Without, IsChain
<1>2. \A i, j \in 1..(n - 1) : t[i] = t[j] => i = j
  BY DEF Without, IsChain
<1>3. \A i \in 1..(n - 1) : t[i] \in Img(s, n) \ {s[k]}
  BY DEF Without, Img, IsChain
<1>4. ASSUME NEW i \in 1..n, i # k PROVE s[i] \in Img(t, n - 1)
  <2>1. CASE i < k
    <3>1. i \in 1..(n - 1) /\ t[i] = s[i]
      BY <2>1 DEF Without
    <3> QED
      BY <3>1 DEF Img
  <2>2. CASE i > k
    <3>1. i - 1 \in 1..(n - 1) /\ t[i - 1] = s[i]
      BY <2>2 DEF Without
    <3> QED
      BY <3>1 DEF Img
  <2> QED
    BY <1>4, <2>1, <2>2
<1> QED
  BY <1>1, <1>2, <1>3, <1>4 DEF Img

LEMMA FirstUnlinked ==
  ASSUME NEW n \in Nat \ {0}, NEW nx \in NextFields, NEW l, NEW s, IsChain(s, n, l, nx)
  PROVE  IsChain(Without(s, n, 1), n - 1, nx[l], nx)
<1>1. \A i \in 1..(n - 1) : Without(s, n, 1)[i] = s[i + 1]
  BY DEF Without
<1> QED
  BY <1>1, OrderWithout DEF IsChain

LEMMA InnerUnlinked ==
  ASSUME NEW n \in Nat, NEW nx \in NextFields, NEW l, NEW s, IsChain(s, n, l, nx),
         NEW k \in 2..n
  PROVE  IsChain(Without(s, n, k), n - 1, l, [nx EXCEPT ![s[k - 1]] = nx[s[k]]])
<1> DEFINE t == Without(s, n, k)
           ny == [nx EXCEPT ![s[k - 1]] = nx[s[k]]]
<1>1. ASSUME NEW i \in 1..(n - 1) PROVE ny[t[i]] = IF i = n - 1 THEN NULL ELSE t[i + 1]
  <2>1. CASE i = k - 1
    BY <2>1 DEF IsChain, Without, NextFields
  <2>2. CASE i < k - 1
    BY <2>2 DEF IsChain, Without, NextFields
  <2>3. CASE i > k - 1
    BY <2>3 DEF IsChain, Without, NextFields
  <2> QED
    BY <2>1, <2>2, <2>3
<1>2. l = IF n - 1 = 0 THEN NULL ELSE t[1]
  BY DEF IsChain, Without
<1>3. /\ t \in [1..(n - 1) -> Cells]
      /\ \A i, j \in 1..(n - 1) : t[i] = t[j] => i = j
  BY OrderWithout
<1> HIDE DEF t, ny
<1>4. IsChain(t, n - 1, l, ny)
  BY <1>1, <1>2, <1>3 DEF IsChain
<1> QED
  BY <1>4 DEF t, ny

-----------------------------------------------------------------------------
(* Steps *)

\* The order of the list before a step.
LEMMA OrderOfList ==
  ASSUME ListInv, open
  PROVE  \E s \in Chains : IsChain(s, num, list, next) /\ InList = Img(s, num)
                           /\ heap = Img(s, num) \cup held /\ Img(s, num) \cap held = {}
<1>1. PICK s \in Chains : Owned({s[i] : i \in 1..num})
  BY DEF ListInv
<1>2. IsChain(s, num, list, next)
  BY DEF Chains, Chain, IsChain
<1> QED
  BY <1>1, <1>2, WalkOfChain DEF ListInv, Owned, Img

\* An order of the list after it.
LEMMA OrderAfter ==
  ASSUME ListTypeOK', open', NEW t, IsChain(t, num', list', next'),
         heap' = Img(t, num') \cup held', Img(t, num') \cap held' = {}
  PROVE  ListInv'
<1>1. t \in Chains'
  BY DEF Chains, Chain, IsChain
<1>2. Owned({t[i] : i \in 1..num})'
  BY DEF Owned, Img
<1> QED
  BY <1>1, <1>2 DEF ListInv

LEMMA InitStarts == ListInit => ListInv
<1> SUFFICES ASSUME ListInit PROVE ListInv
  OBVIOUS
<1>1. ListTypeOK
  BY DEF ListInit, ListTypeOK, Links
<1>2. ~open /\ heap = held
  BY DEF ListInit
<1> QED
  BY <1>1, <1>2 DEF ListInv

LEMMA InitKeeps == ListInv /\ bt_list_init => ListInv'
<1> SUFFICES ASSUME ListInv, bt_list_init PROVE ListInv'
  OBVIOUS
<1> DEFINE t == [i \in 1..0 |-> NULL]
<1>1. ListTypeOK' /\ open'
  BY DEF ListInv, ListTypeOK, bt_list_init, Links
<1>2. t \in [1..0 -> Cells]
  OBVIOUS
<1>3. IsChain(t, num', list', next') /\ Img(t, num') = {}
  BY <1>2 DEF bt_list_init, IsChain, Img
<1>4. heap' = held'
  BY DEF ListInv, bt_list_init
<1> HIDE DEF t
<1> QED
  BY <1>1, <1>3, <1>4, OrderAfter

\* The list has the order it had.
SameOrder ==
  /\ open' = open
  /\ open => /\ num' = num
             /\ \E s : IsChain(s, num, list, next) /\ IsChain(s, num', list', next')

LEMMA CellCallKeeps == ListInv /\ CellCall => ListInv' /\ SameOrder
<1> SUFFICES ASSUME ListInv, NEW c \in Cells,
                    bt_list_new_with_data(c) \/ bt_list_free(c)
             PROVE  ListInv' /\ SameOrder
  BY DEF CellCall
<1> USE DEF bt_list_new_with_data, bt_list_free
<1>1. ListTypeOK'
  BY DEF ListInv, ListTypeOK, Links
<1>2. CASE ~open
  BY <1>1, <1>2 DEF ListInv, SameOrder
<1>3. CASE open
  <2>1. PICK s \in Chains : IsChain(s, num, list, next) /\ heap = Img(s, num) \cup held
                            /\ Img(s, num) \cap held = {}
    BY <1>3, OrderOfList
  <2>2. c \notin Img(s, num)
    BY <2>1
  <2>3. IsChain(s, num', list', next')
    BY <2>1, <2>2 DEF IsChain, Img, ListInv, ListTypeOK
  <2>4. heap' = Img(s, num') \cup held' /\ Img(s, num') \cap held' = {}
    BY <2>1, <2>2
  <2>5. SameOrder
    BY <1>3, <2>1, <2>3 DEF SameOrder
  <2> QED
    BY <1>1, <1>3, <2>3, <2>4, <2>5, OrderAfter
<1> QED
  BY <1>2, <1>3

LEMMA InsertEndKeeps ==
  ASSUME ListInv, NEW c \in Cells, FitForEnd(c), bt_list_insl_end(c)
  PROVE  /\ ListInv' /\ open' /\ num' = num + 1
         /\ \E s : /\ IsChain(s, num, list, next) /\ c \notin Img(s, num)
                  /\ IsChain(Appended(s, num, c), num', list', next')
<1>0. next[c] = NULL
  BY DEF FitForEnd
<1> USE DEF bt_list_insl_end
<1>1. PICK s \in Chains : IsChain(s, num, list, next) /\ InList = Img(s, num)
                          /\ heap = Img(s, num) \cup held /\ Img(s, num) \cap held = {}
  BY OrderOfList
<1>2. ListTypeOK'
  BY DEF ListInv, ListTypeOK, Links, InsertIntoEmpty
<1>3. c \notin Img(s, num) /\ next \in NextFields /\ num \in Nat
  BY <1>1 DEF ListInv, ListTypeOK, NextFields
<1>4. CASE InsertIntoEmpty(c)
  <2>1. num = 0 /\ Img(s, num) = {}
    BY <1>1, <1>3, <1>4, CellAssumption DEF InsertIntoEmpty, IsChain, Img
  <2>2. PICK t : t = Appended(s, num, c) /\ IsChain(t, 1, c, next) /\ Img(t, 1) = {c}
    BY <1>0, <1>3, <2>1, SingleChain
  <2>3. IsChain(t, num', list', next') /\ num' = num + 1
    BY <1>4, <2>1, <2>2 DEF InsertIntoEmpty
  <2>4. ListInv'
    BY <1>1, <1>2, <1>4, <2>1, <2>2, OrderAfter DEF InsertIntoEmpty
  <2> QED
    BY <1>1, <1>3, <2>2, <2>3, <2>4
<1>5. CASE ~InsertIntoEmpty(c)
  <2>1. PICK last \in Img(s, num) : next[last] = NULL /\ next' = [next EXCEPT ![last] = c]
    BY <1>1, <1>5
  <2>2. num # 0 /\ last = s[num]
    BY <1>1, <1>3, <2>1, CellAssumption DEF IsChain, Img
  <2> DEFINE t == Appended(s, num, c)
  <2>3. IsChain(t, num + 1, list, [next EXCEPT ![s[num]] = c])
        /\ Img(t, num + 1) = Img(s, num) \cup {c}
    <3>1. num \in Nat \ {0} /\ c \in Cells \ Img(s, num)
      BY <1>3, <2>2
    <3> HIDE DEF bt_list_insl_end
    <3> QED
      BY <1>0, <1>1, <1>3, <3>1, ChainAppended
  <2>4. num' = num + 1 /\ list' = list /\ next' = [next EXCEPT ![s[num]] = c]
    BY <1>5, <2>1, <2>2
  <2>5. heap' = Img(t, num') \cup held' /\ Img(t, num') \cap held' = {}
    BY <1>1, <2>3, <2>4
  <2>6. ListInv'
    BY <1>2, <2>3, <2>4, <2>5, OrderAfter
  <2> QED
    BY <1>1, <1>3, <2>3, <2>4, <2>6
<1> QED
  BY <1>4, <1>5

LEMMA InsertFrontKeeps ==
  ASSUME ListInv, NEW c \in Cells, FitForFront(c), bt_list_insl_front(c)
  PROVE  /\ ListInv' /\ open' /\ num' = num + 1
         /\ \E s : /\ IsChain(s, num, list, next) /\ c \notin Img(s, num)
                  /\ IsChain(Prepended(s, num, c), num', list', next')
<1> USE DEF bt_list_insl_front
<1>1. PICK s \in Chains : IsChain(s, num, list, next) /\ heap = Img(s, num) \cup held
                          /\ Img(s, num) \cap held = {}
  BY OrderOfList
<1>2. ListTypeOK'
  BY DEF ListInv, ListTypeOK, Links, InsertIntoEmpty, InsertBefore
<1>3. c \notin Img(s, num) /\ next \in NextFields /\ num \in Nat
  BY <1>1 DEF ListInv, ListTypeOK, NextFields
<1>4. CASE InsertIntoEmpty(c)
  <2>1. num = 0 /\ Img(s, num) = {} /\ next[c] = NULL
    BY <1>1, <1>3, <1>4, CellAssumption DEF FitForFront, InsertIntoEmpty, IsChain, Img
  <2>2. PICK t : t = Prepended(s, num, c) /\ IsChain(t, 1, c, next) /\ Img(t, 1) = {c}
    BY <1>3, <2>1, SingleChain
  <2>3. IsChain(t, num', list', next') /\ num' = num + 1
    BY <1>4, <2>1, <2>2 DEF InsertIntoEmpty
  <2>4. ListInv'
    BY <1>1, <1>2, <1>4, <2>1, <2>2, OrderAfter DEF InsertIntoEmpty
  <2> QED
    BY <1>1, <1>3, <2>2, <2>3, <2>4
<1>5. CASE InsertBefore(c)
  <2>1. num # 0
    BY <1>1, <1>5 DEF InsertBefore, IsChain
  <2> DEFINE t == Prepended(s, num, c)
  <2>2. IsChain(t, num + 1, c, [next EXCEPT ![c] = list])
        /\ Img(t, num + 1) = Img(s, num) \cup {c}
    BY <1>1, <1>3, <2>1, ChainPrepended
  <2>3. num' = num + 1 /\ IsChain(t, num', list', next')
    BY <1>5, <2>2 DEF InsertBefore
  <2>4. ListInv'
    BY <1>1, <1>2, <1>5, <2>2, OrderAfter DEF InsertBefore
  <2> QED
    BY <1>1, <1>3, <2>3, <2>4
<1> QED
  BY <1>4, <1>5

\* The order of the list when c was unlinked.
LEMMA UnlinkedOrder ==
  ASSUME ListInv, open, NEW c \in InList, Unlink(c), num' = num - 1
  PROVE  \E t : /\ IsChain(t, num', list', next')
               /\ heap = Img(t, num') \cup {c} \cup held
               /\ c \notin Img(t, num') /\ c \notin held /\ Img(t, num') \cap held = {}
               /\ num > 0
               /\ \E s : IsChain(s, num, list, next) /\ \E k \in 1..num : t = Without(s, num, k)
<1>1. PICK s \in Chains : IsChain(s, num, list, next) /\ InList = Img(s, num)
                          /\ heap = Img(s, num) \cup held /\ Img(s, num) \cap held = {}
  BY OrderOfList
<1>2. num \in Nat /\ next \in NextFields
  BY DEF ListInv, ListTypeOK, NextFields
<1>3. PICK k \in 1..num : c = s[k]
  BY <1>1 DEF Img
<1>4. Img(Without(s, num, k), num - 1) = Img(s, num) \ {c}
  BY <1>1, <1>2, <1>3, OrderWithout
<1>5. IsChain(Without(s, num, k), num', list', next')
  <2>1. CASE k = 1
    <3>1. c = list
      BY <1>1, <1>3, <2>1 DEF IsChain
    <3>2. list' = next[list] /\ next' = next
      BY <3>1 DEF Unlink
    <3> QED
      BY <1>1, <1>2, <1>3, <2>1, <3>2, FirstUnlinked
  <2>2. CASE k # 1
    <3>1. c # list
      <4>1. 1 \in 1..num /\ list = s[1]
        BY <1>1, <1>2, <1>3 DEF IsChain
      <4> QED
        BY <1>1, <1>3, <2>2, <4>1 DEF IsChain
    <3>2. list' = list
      BY <3>1 DEF Unlink
    <3>3. PICK prev \in Img(s, num) : next[prev] = c /\ next' = [next EXCEPT ![prev] = next[c]]
      BY <1>1, <3>1 DEF Unlink
    <3>4. prev = s[k - 1]
      BY <1>1, <1>2, <1>3, <3>3, CellAssumption DEF IsChain, Img
    <3>5. k \in 2..num
      BY <1>2, <1>3, <2>2
    <3>6. IsChain(Without(s, num, k), num - 1, list, [next EXCEPT ![s[k - 1]] = next[s[k]]])
      BY <1>1, <1>2, <3>5, InnerUnlinked
    <3> QED
      BY <1>3, <3>2, <3>3, <3>4, <3>6
  <2> QED
    BY <2>1, <2>2
<1> QED
  BY <1>1, <1>2, <1>3, <1>4, <1>5

\* The list has the order it had, without one cell.
OneLess ==
  /\ open /\ open' /\ num' = num - 1
  /\ \E s : /\ IsChain(s, num, list, next)
           /\ \E k \in 1..num : IsChain(Without(s, num, k), num', list', next')

\* A cell that was taken is the client's, or was freed.
LEMMA TakenKeeps ==
  ASSUME ListInv, open, NEW c \in InList, Unlink(c), num' = num - 1, end' \in Links, open' = open,
         \/ Held(c)
         \/ heap' = heap \ {c} /\ held' = held
  PROVE  ListInv' /\ OneLess
<1>1. PICK t : /\ IsChain(t, num', list', next')
               /\ heap = Img(t, num') \cup {c} \cup held
               /\ c \notin Img(t, num') /\ c \notin held /\ Img(t, num') \cap held = {}
               /\ num > 0
               /\ \E s : IsChain(s, num, list, next) /\ \E k \in 1..num : t = Without(s, num, k)
  BY UnlinkedOrder
<1>2. ListTypeOK'
  BY <1>1 DEF ListInv, ListTypeOK, Unlink, Held, InList, From, Links
<1>3. heap' = Img(t, num') \cup held' /\ Img(t, num') \cap held' = {}
  BY <1>1 DEF Held
<1>4. OneLess
  BY <1>1 DEF OneLess
<1> QED
  BY <1>1, <1>2, <1>3, <1>4, OrderAfter

LEMMA RemovalKeeps == ListInv /\ Removal => ListInv' /\ OneLess
<1> SUFFICES ASSUME ListInv, Removal PROVE ListInv' /\ OneLess
  OBVIOUS
<1> USE DEF GetCell
<1>1. ASSUME NEW c \in Links, bt_list_getl(c) \/ bt_list_free_from_data(c)
      PROVE  ListInv' /\ OneLess
  <2>1. c \in InList /\ next[c] \in Links
    BY <1>1 DEF bt_list_getl, bt_list_free_from_data, InList, From, ListInv, ListTypeOK
  <2>2. end' \in Links
    BY <1>1, <2>1 DEF bt_list_getl, bt_list_free_from_data, ListInv, ListTypeOK
  <2> QED
    BY <1>1, <2>1, <2>2, TakenKeeps DEF bt_list_getl, bt_list_free_from_data
<1>2. CASE bt_list_getl_front \/ bt_list_getl_end
  BY <1>1, <1>2 DEF bt_list_getl_front, bt_list_getl_end, ListInv, ListTypeOK
<1>3. ASSUME NEW accepted \in SUBSET Cells, bt_list_get_search(accepted)
      PROVE  ListInv' /\ OneLess
  BY <1>3, TakenKeeps DEF bt_list_get_search, ListInv, ListTypeOK
<1> QED
  BY <1>1, <1>2, <1>3 DEF Removal, Links

LEMMA DestroyKeeps == ListInv /\ bt_list_destroy => ListInv'
<1> SUFFICES ASSUME ListInv, bt_list_destroy PROVE ListInv'
  OBVIOUS
<1> USE DEF bt_list_destroy
<1>1. PICK s \in Chains : IsChain(s, num, list, next) /\ InList = Img(s, num)
                          /\ heap = Img(s, num) \cup held /\ Img(s, num) \cap held = {}
  BY OrderOfList
<1>2. ListTypeOK'
  BY <1>1 DEF ListInv, ListTypeOK, Links
<1>3. heap' = held'
  BY <1>1
<1>4. CASE list # NULL
  BY <1>2, <1>3, <1>4 DEF ListInv
<1>5. CASE list = NULL
  <2>1. num = 0
    BY <1>1, <1>5, CellAssumption DEF IsChain, ListInv, ListTypeOK
  <2>2. IsChain(s, num', list', next') /\ Img(s, num') = {}
    BY <1>1, <2>1 DEF Img
  <2> QED
    BY <1>2, <1>3, <1>5, <2>2, OrderAfter
<1> QED
  BY <1>4, <1>5

LEMMA StepKeeps == ListInv /\ [ListNext]_listVars => ListInv'
<1> SUFFICES ASSUME ListInv, [ListNext]_listVars PROVE ListInv'
  OBVIOUS
<1>1. CASE bt_list_init
  BY <1>1, InitKeeps
<1>2. CASE bt_list_destroy
  BY <1>2, DestroyKeeps
<1>3. CASE CellCall
  BY <1>3, CellCallKeeps
<1>4. CASE Insertion
  BY <1>4, InsertEndKeeps, InsertFrontKeeps DEF Insertion
<1>5. CASE Removal
  BY <1>5, RemovalKeeps
<1>6. CASE UNCHANGED listVars
  BY <1>6 DEF listVars, ListInv, ListTypeOK, Chains, Chain, Owned
<1> QED
  BY <1>1, <1>2, <1>3, <1>4, <1>5, <1>6 DEF ListNext

\* Whatever calls a client that keeps its rule (FitForEnd, FitForFront) makes, in
\* whatever order: the list is a chain without a
\* cycle, its count and first cell are right, and every allocated cell is in it or
\* in the client's hands (bt_list.c).
THEOREM ListHolds == ListSpec => []ListInv
<1>1. ListInit => ListInv
  BY InitStarts
<1>2. ListInv /\ [ListNext]_listVars => ListInv'
  BY StepKeeps
<1> QED
  BY <1>1, <1>2, PTL DEF ListSpec
-----------------------------------------------------------------------------
(* The order a list stands for *)

LEMMA OrderIsSeq ==
  ASSUME NEW n \in Nat, NEW s \in [1..n -> Cells]
  PROVE  s \in Seq(Cells) /\ Len(s) = n /\ DOMAIN s = 1..n
<1>1. s \in Seq(Cells)
  BY SeqDef
<1>2. Len(s) \in Nat /\ 1..n = 1..Len(s)
  BY <1>1, LenProperties
<1> QED
  BY <1>1, <1>2

\* From one first cell along one set of links goes one chain.
LEMMA ChainUnique ==
  ASSUME NEW n \in Nat, NEW m \in Nat, NEW l, NEW nx, NEW s, NEW t,
         IsChain(s, n, l, nx), IsChain(t, m, l, nx)
  PROVE  s = t /\ n = m
<1> DEFINE T == {i \in Nat : i \in 1..n /\ i \in 1..m /\ s[i] # t[i]}
<1>1. T = {}
  <2> SUFFICES ASSUME T # {} PROVE FALSE
    OBVIOUS
  <2>1. T \in SUBSET Nat
    OBVIOUS
  <2>2. PICK i \in T : \A k \in T : i <= k
    <3> HIDE DEF T
    <3> QED
      BY <2>1, LeastNumber
  <2>3. i # 1
    BY <2>2 DEF IsChain
  <2>4. i - 1 \in 1..n /\ i - 1 \in 1..m /\ i - 1 # n /\ i - 1 # m /\ (i - 1) + 1 = i /\ i - 1 \notin T
    BY <2>2, <2>3
  <2>5. s[i - 1] = t[i - 1]
    BY <2>4
  <2>6. nx[s[i - 1]] = s[i] /\ nx[t[i - 1]] = t[i]
    BY <2>4 DEF IsChain
  <2> QED
    BY <2>2, <2>5, <2>6
<1>2. \A i \in 1..n : i \in 1..m => s[i] = t[i]
  BY <1>1
<1> HIDE DEF T
<1>3. ~(n < m)
  <2> SUFFICES ASSUME n < m PROVE FALSE
    OBVIOUS
  <2>1. n + 1 \in 1..m /\ t[n + 1] \in Cells
    BY DEF IsChain
  <2>2. CASE n = 0
    BY <2>1, <2>2, CellAssumption DEF IsChain
  <2>3. CASE n # 0
    <3>1. n \in 1..n /\ n \in 1..m /\ n # m
      BY <2>3
    <3>2. nx[s[n]] = NULL /\ nx[t[n]] = t[n + 1]
      BY <3>1 DEF IsChain
    <3> QED
      BY <1>2, <2>1, <3>1, <3>2, CellAssumption
  <2> QED
    BY <2>2, <2>3
<1>4. ~(m < n)
  <2> SUFFICES ASSUME m < n PROVE FALSE
    OBVIOUS
  <2>1. m + 1 \in 1..n /\ s[m + 1] \in Cells
    BY DEF IsChain
  <2>2. CASE m = 0
    BY <2>1, <2>2, CellAssumption DEF IsChain
  <2>3. CASE m # 0
    <3>1. m \in 1..m /\ m \in 1..n /\ m # n
      BY <2>3
    <3>2. nx[t[m]] = NULL /\ nx[s[m]] = s[m + 1]
      BY <3>1 DEF IsChain
    <3> QED
      BY <1>2, <2>1, <3>1, <3>2, CellAssumption
  <2> QED
    BY <2>2, <2>3
<1>5. n = m
  BY <1>3, <1>4
<1> QED
  BY <1>2, <1>5 DEF IsChain

LEMMA ChainIsShort ==
  ASSUME NEW n \in Nat, NEW l, NEW nx, NEW s, IsChain(s, n, l, nx)
  PROVE  n <= Cardinality(Cells)
<1>1. s \in Injection(1..n, Cells)
  BY DEF IsChain, Injection, IsInjective
<1>2. Cardinality(1..n) = n
  BY FS_Interval
<1> QED
  BY <1>1, <1>2, FS_Injection, CellAssumption

LEMMA OrderIs ==
  ListInv =>
    /\ open => /\ num \in Nat /\ \E s : IsChain(s, num, list, next)
               /\ \A s : IsChain(s, num, list, next) => Order = s /\ Count = num
    /\ ~open => Order = <<>> /\ Count = 0
<1> SUFFICES ASSUME ListInv, open
             PROVE  /\ num \in Nat /\ \E s : IsChain(s, num, list, next)
                    /\ \A s : IsChain(s, num, list, next) => Order = s /\ Count = num
  BY DEF Order, Count
<1>1. num \in Nat /\ \E s : IsChain(s, num, list, next)
  BY OrderOfList DEF ListInv, ListTypeOK
<1>2. ASSUME NEW s, IsChain(s, num, list, next) PROVE Order = s
  <2>1. s \in [1..num -> Cells] /\ num \in 0..Cardinality(Cells)
    <3>1. num <= Cardinality(Cells) /\ Cardinality(Cells) \in Nat
      BY <1>1, <1>2, ChainIsShort, CellAssumption, FS_CardinalityType
    <3> QED
      BY <1>1, <1>2, <3>1 DEF IsChain
  <2>2. s \in Orders /\ Chain(s, Len(s))
    <3>1. Len(s) = num
      BY <1>1, <2>1, OrderIsSeq
    <3> QED
      BY <1>2, <2>1, <3>1 DEF Orders, IsChain, Chain
  <2>3. ASSUME NEW t \in Orders, Chain(t, Len(t)) PROVE t = s
    <3>1. PICK m \in 0..Cardinality(Cells) : t \in [1..m -> Cells]
      BY DEF Orders
    <3>2. m \in Nat
      BY CellAssumption, FS_CardinalityType
    <3>3. Len(t) = m
      BY <3>1, <3>2, OrderIsSeq
    <3>4. IsChain(t, m, list, next)
      BY <2>3, <3>1, <3>3 DEF IsChain, Chain
    <3> QED
      BY <1>1, <1>2, <3>2, <3>4, ChainUnique
  <2> QED
    BY <2>2, <2>3 DEF Order
<1> QED
  BY <1>1, <1>2 DEF Count

-----------------------------------------------------------------------------
(* Orders as sequences *)

LEMMA AppendedIsAppend ==
  ASSUME NEW n \in Nat, NEW s \in [1..n -> Cells], NEW c \in Cells
  PROVE  Appended(s, n, c) = Append(s, c)
<1>1. s \in Seq(Cells) /\ Len(s) = n
  BY OrderIsSeq
<1>2. PICK a : a = Append(s, c)
  OBVIOUS
<1>3. /\ a \in Seq(Cells) /\ Len(a) = n + 1 /\ a[n + 1] = c
      /\ \A i \in 1..n : a[i] = s[i]
  BY <1>1, <1>2, AppendProperties
<1>4. a \in [1..(n + 1) -> Cells]
  BY <1>3, LenProperties
<1>5. Appended(s, n, c) = a
  BY <1>3, <1>4 DEF Appended
<1> QED
  BY <1>2, <1>5

LEMMA PrependedIsConcat ==
  ASSUME NEW n \in Nat, NEW s \in [1..n -> Cells], NEW c \in Cells
  PROVE  Prepended(s, n, c) = <<c>> \o s
<1>1. s \in Seq(Cells) /\ Len(s) = n
  BY OrderIsSeq
<1>2. PICK one \in Seq(Cells) : one = <<c>> /\ Len(one) = 1 /\ one[1] = c
  <2>1. <<c>> \in Seq(Cells)
    OBVIOUS
  <2>2. Len(<<c>>) = 1 /\ <<c>>[1] = c
    OBVIOUS
  <2> QED
    BY <2>1, <2>2
<1>3. PICK a : a = one \o s
  OBVIOUS
<1>4. /\ a \in Seq(Cells) /\ Len(a) = 1 + n
      /\ \A i \in 1..1 + n : a[i] = IF i <= 1 THEN one[i] ELSE s[i - 1]
  BY <1>1, <1>2, <1>3, ConcatProperties
<1>5. a \in [1..(1 + n) -> Cells] /\ 1 + n = n + 1
  BY <1>4, LenProperties
<1>6. Prepended(s, n, c) = a
  BY <1>2, <1>4, <1>5 DEF Prepended
<1> QED
  BY <1>2, <1>3, <1>6

LEMMA WithoutIsRemoveAt ==
  ASSUME NEW n \in Nat, NEW s \in [1..n -> Cells], NEW k \in 1..n
  PROVE  Without(s, n, k) = SubSeq(s, 1, k - 1) \o SubSeq(s, k + 1, Len(s))
<1>1. s \in Seq(Cells) /\ Len(s) = n /\ \A i \in 1..n : s[i] \in Cells
  BY OrderIsSeq
<1>2. PICK a, b : a = SubSeq(s, 1, k - 1) /\ b = SubSeq(s, k + 1, n)
  OBVIOUS
<1>3. a \in Seq(Cells) /\ Len(a) = k - 1 /\ \A i \in 1..(k - 1) : a[i] = s[i]
  <2>1. 1 \in Int /\ k - 1 \in Int /\ \A i \in 1..(k - 1) : s[i] \in Cells
    BY <1>1
  <2>2. /\ a \in Seq(Cells) /\ Len(a) = IF 1 <= k - 1 THEN (k - 1) - 1 + 1 ELSE 0
        /\ \A i \in 1..(k - 1) - 1 + 1 : a[i] = s[1 + i - 1]
    BY <1>2, <2>1, SubSeqProperties
  <2> QED
    BY <2>2
<1>4. b \in Seq(Cells) /\ Len(b) = n - k /\ \A i \in 1..(n - k) : b[i] = s[k + i]
  <2>1. k + 1 \in Int /\ n \in Int /\ \A i \in (k + 1)..n : s[i] \in Cells
    BY <1>1
  <2>2. /\ b \in Seq(Cells) /\ Len(b) = IF k + 1 <= n THEN n - (k + 1) + 1 ELSE 0
        /\ \A i \in 1..n - (k + 1) + 1 : b[i] = s[(k + 1) + i - 1]
    BY <1>2, <2>1, SubSeqProperties
  <2> QED
    BY <2>2
<1>5. PICK r : r = a \o b
  OBVIOUS
<1>6. /\ r \in Seq(Cells) /\ Len(r) = (k - 1) + (n - k)
      /\ \A i \in 1..(k - 1) + (n - k) : r[i] = IF i <= k - 1 THEN a[i] ELSE b[i - (k - 1)]
  <2>1. a \in Seq(Cells) /\ b \in Seq(Cells)
    BY <1>3, <1>4
  <2>2. /\ r \in Seq(Cells) /\ Len(r) = Len(a) + Len(b)
        /\ \A i \in 1..Len(a) + Len(b) : r[i] = IF i <= Len(a) THEN a[i] ELSE b[i - Len(a)]
    BY <1>5, <2>1, ConcatProperties
  <2> QED
    BY <1>3, <1>4, <2>2
<1>7. r \in [1..(n - 1) -> Cells]
  <2>1. (k - 1) + (n - k) = n - 1
    OBVIOUS
  <2> QED
    BY <1>6, <2>1, LenProperties
<1>8. ASSUME NEW i \in 1..(n - 1) PROVE r[i] = IF i < k THEN s[i] ELSE s[i + 1]
  <2>1. i \in 1..(k - 1) + (n - k)
    OBVIOUS
  <2>2. CASE i < k
    BY <1>3, <1>6, <2>1, <2>2
  <2>3. CASE ~(i < k)
    <3>1. i - (k - 1) \in 1..(n - k) /\ k + (i - (k - 1)) = i + 1 /\ ~(i <= k - 1)
      BY <2>3
    <3> QED
      BY <1>4, <1>6, <2>1, <2>3, <3>1
  <2> QED
    BY <2>2, <2>3
<1>9. Without(s, n, k) = r
  BY <1>7, <1>8 DEF Without
<1> QED
  BY <1>1, <1>2, <1>5, <1>9

-----------------------------------------------------------------------------
(* Every call is a step of the bag *)

OrderKnown ==
  /\ open => /\ num \in Nat /\ \E s : IsChain(s, num, list, next)
             /\ \A s : IsChain(s, num, list, next) => Order = s /\ Count = num
  /\ ~open => Order = <<>> /\ Count = 0

LEMMA InsertionMaps ==
  ASSUME OrderKnown, OrderKnown', open, open', num' = num + 1, NEW c \in Cells,
         NEW s, IsChain(s, num, list, next), c \notin Img(s, num),
         \/ IsChain(Appended(s, num, c), num', list', next')
         \/ IsChain(Prepended(s, num, c), num', list', next')
  PROVE  OB!Insert(c)
<1>1. num \in Nat /\ s \in [1..num -> Cells] /\ Order = s /\ Count = num /\ Count' = num + 1
  BY DEF OrderKnown, IsChain
<1>2. Order' = Append(s, c) \/ Order' = <<c>> \o s
  <2>1. Appended(s, num, c) = Append(s, c) /\ Prepended(s, num, c) = <<c>> \o s
    BY <1>1, AppendedIsAppend, PrependedIsConcat
  <2>2. Order' = Appended(s, num, c) \/ Order' = Prepended(s, num, c)
    BY DEF OrderKnown
  <2> QED
    BY <2>1, <2>2
<1>3. c \notin OB!ToSet(s)
  BY <1>1, OrderIsSeq DEF OB!ToSet, Img
<1> QED
  BY <1>1, <1>2, <1>3 DEF OB!Insert

LEMMA RemovalMaps ==
  ASSUME OrderKnown, OrderKnown', OneLess
  PROVE  \E k \in DOMAIN Order : OB!Take(k)
<1>1. PICK s : /\ IsChain(s, num, list, next)
               /\ \E k \in 1..num : IsChain(Without(s, num, k), num', list', next')
  BY DEF OneLess
<1>2. PICK k \in 1..num : IsChain(Without(s, num, k), num', list', next')
  BY <1>1
<1>3. /\ num \in Nat /\ s \in [1..num -> Cells] /\ Order = s /\ Count = num /\ Count' = num - 1
      /\ Order' = Without(s, num, k)
  BY <1>1, <1>2 DEF OneLess, OrderKnown, IsChain
<1>4. Order' = SubSeq(s, 1, k - 1) \o SubSeq(s, k + 1, Len(s)) /\ k \in DOMAIN s
  BY <1>3, WithoutIsRemoveAt
<1>5. OB!Take(k)
  BY <1>3, <1>4 DEF OB!Take, OB!RemoveAt
<1> QED
  BY <1>3, <1>4, <1>5

\* A list without cells stands for the empty bag.
LEMMA NoOrder == OrderKnown /\ (open => num = 0) => Order = <<>> /\ Count = 0
<1> SUFFICES ASSUME OrderKnown, open => num = 0 PROVE Order = <<>> /\ Count = 0
  OBVIOUS
<1>1. CASE ~open
  BY <1>1 DEF OrderKnown
<1>2. CASE open
  <2>1. PICK s : IsChain(s, 0, list, next) /\ Order = s /\ Count = 0
    BY <1>2 DEF OrderKnown
  <2>2. s \in Seq(Cells) /\ Len(s) = 0
    BY <2>1, OrderIsSeq DEF IsChain
  <2>3. s = <<>>
    BY <2>2, EmptySeq
  <2> QED
    BY <2>1, <2>3
<1> QED
  BY <1>1, <1>2

LEMMA SameOrderMaps ==
  ASSUME OrderKnown, OrderKnown', SameOrder
  PROVE  UNCHANGED <<Order, Count>>
<1>1. CASE ~open
  BY <1>1 DEF OrderKnown, SameOrder
<1>2. CASE open
  BY <1>2 DEF OrderKnown, SameOrder
<1> QED
  BY <1>1, <1>2

LEMMA StepMaps ==
  ASSUME ListInv, OrderKnown, OrderKnown', [ListNext]_listVars
  PROVE  [OB!BagNext]_<<Order, Count>>
<1>0. (OrderKnown /\ (open => num = 0) => Order = <<>> /\ Count = 0)'
  BY NoOrder, PTL
<1>1. CASE bt_list_init
  <2>1. (open => num = 0) /\ (open' => num' = 0)
    BY <1>1 DEF bt_list_init
  <2>2. Order' = <<>> /\ Count' = 0
    BY <1>0, <2>1
  <2> QED
    BY <2>2 DEF OB!BagNext, OB!Clear
<1>2. CASE bt_list_destroy
  <2>1. open' => num' = 0
    BY <1>2 DEF bt_list_destroy
  <2>2. Order' = <<>> /\ Count' = 0
    BY <1>0, <2>1
  <2> QED
    BY <2>2 DEF OB!BagNext, OB!Clear
<1>3. CASE CellCall
  BY <1>3, CellCallKeeps, SameOrderMaps
<1>4. ASSUME NEW c \in Cells, FitForEnd(c), bt_list_insl_end(c) PROVE OB!BagNext
  <2>1. PICK s : /\ IsChain(s, num, list, next) /\ c \notin Img(s, num)
                 /\ IsChain(Appended(s, num, c), num', list', next')
    BY <1>4, InsertEndKeeps
  <2>2. open /\ open' /\ num' = num + 1
    BY <1>4, InsertEndKeeps DEF bt_list_insl_end
  <2> QED
    BY <2>1, <2>2, InsertionMaps DEF OB!BagNext
<1>5. ASSUME NEW c \in Cells, FitForFront(c), bt_list_insl_front(c) PROVE OB!BagNext
  <2>1. PICK s : /\ IsChain(s, num, list, next) /\ c \notin Img(s, num)
                 /\ IsChain(Prepended(s, num, c), num', list', next')
    BY <1>5, InsertFrontKeeps
  <2>2. open /\ open' /\ num' = num + 1
    BY <1>5, InsertFrontKeeps DEF bt_list_insl_front
  <2> QED
    BY <2>1, <2>2, InsertionMaps DEF OB!BagNext
<1>6. CASE Removal
  BY <1>6, RemovalKeeps, RemovalMaps DEF OB!BagNext
<1>7. CASE UNCHANGED listVars
  <2>1. SameOrder
    BY <1>7 DEF listVars, SameOrder, OrderKnown
  <2> QED
    BY <2>1, SameOrderMaps
<1> QED
  BY <1>1, <1>2, <1>3, <1>4, <1>5, <1>6, <1>7 DEF ListNext, Insertion

\* Whatever calls a client that keeps its rule makes, each of them inserts one element at an end of the
\* order, takes one out of it wherever it stands, empties it, or leaves it alone; and
\* num_elts is counted with it (bt_list.c).
THEOREM BagImplemented == ListSpec => ImplementsBag
<1>1. ListInit => OB!BagInit
  BY DEF ListInit, OB!BagInit, Order, Count
<1>2. ListInv => OrderKnown
  BY OrderIs DEF OrderKnown
<1>3. ListInv /\ ListInv' /\ [ListNext]_listVars => [OB!BagNext]_<<Order, Count>>
  <2>1. ListInv' => OrderKnown'
    BY <1>2, PTL
  <2> QED
    BY <1>2, <2>1, StepMaps
<1> QED
  BY <1>1, <1>3, ListHolds, PTL DEF ListSpec, ImplementsBag, OB!BagSpec
=============================================================================
