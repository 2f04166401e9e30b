------------------------------- MODULE BtList -------------------------------
(***************************************************************************)
(* bt_list.c: a singly linked list of cells the client allocates, inserts, *)
(* takes out and frees.  The operations are those of the code; the client  *)
(* that calls them keeps to the rules they rely on without saying so, in   *)
(* particular where it may insert a cell (FitForEnd, FitForFront).         *)
(***************************************************************************)
EXTENDS Integers, FiniteSets, Sequences

CONSTANTS
  Cells,   \* the cells malloc() may return: memory is finite
  NULL

ASSUME CellAssumption == NULL \notin Cells /\ IsFiniteSet(Cells)

VARIABLES
  list, end, num,   \* the fields of bt_list_head_t
  next,             \* the field next of each cell, also of one that was freed
  heap,             \* the allocated cells
  held,             \* the cells the client has a pointer to and no list has
  open              \* bt_list_init() was called and not undone by a destroy

listVars == <<list, end, num, next, heap, held, open>>

Links == Cells \cup {NULL}

ListTypeOK ==
  /\ list \in Links /\ end \in Links /\ num \in Nat
  /\ next \in [Cells -> Links]
  /\ heap \subseteq Cells /\ held \subseteq heap
  /\ open \in BOOLEAN

\* The head is a variable of the client: what it holds is whatever was there.
ListInit ==
  /\ list \in Links /\ end \in Links /\ num = 0
  /\ next = [c \in Cells |-> NULL]
  /\ heap = {} /\ held = {}
  /\ open = FALSE

-----------------------------------------------------------------------------
(* Walking along the list *)

Closed(S) == \A d \in S : next[d] \in S \cup {NULL}

\* The cells a walk from x comes to.
From(x) == {c \in Cells : \A S \in SUBSET Cells : Closed(S) /\ x \in S \cup {NULL} => c \in S}

InList == From(list)

-----------------------------------------------------------------------------
(* Cells *)

bt_list_init ==
  /\ ~open /\ open' = TRUE
  /\ list' = NULL /\ end' = NULL /\ num' = 0
  /\ UNCHANGED <<next, heap, held>>

bt_list_new_with_data(c) ==
  /\ c \notin heap
  /\ heap' = heap \cup {c} /\ held' = held \cup {c}
  /\ next' = [next EXCEPT ![c] = NULL]
  /\ UNCHANGED <<list, end, num, open>>

\* bt_list_free(), bt_list_delete(), and bt_list_free_from_data() on a cell that
\* is in no list, which frees it all the same.
bt_list_free(c) ==
  /\ c \in held
  /\ heap' = heap \ {c} /\ held' = held \ {c}
  /\ UNCHANGED <<list, end, num, next, open>>

\* head->list keeps pointing to the first cell freed: the client has to call
\* bt_list_init() before it uses the head again, unless the list was empty.
bt_list_destroy ==
  /\ open
  /\ heap' = heap \ InList
  /\ num' = 0 /\ end' = NULL
  /\ open' = (list = NULL)
  /\ UNCHANGED <<list, next, held>>

-----------------------------------------------------------------------------
(* Insertion *)

InsertIntoEmpty(c) == list = NULL /\ list' = c /\ end' = c /\ num' = 1 /\ UNCHANGED next

\* The walk to the last cell (bt_list.c:87-92) does not end if there is none.
bt_list_insl_end(c) ==
  /\ open /\ c \in held
  /\ held' = held \ {c}
  /\ \/ InsertIntoEmpty(c)
     \/ /\ \E last \in {d \in InList : next[d] = NULL} : next' = [next EXCEPT ![last] = c]
        /\ end' = c /\ num' = num + 1
        /\ UNCHANGED list
  /\ UNCHANGED <<heap, open>>

\* An insertion in front that loses the cells behind.
InsertBeforeUnlinked(c) ==
  list # NULL /\ list' = c /\ num' = num + 1 /\ UNCHANGED <<next, end>>

InsertBefore(c) ==
  /\ list # NULL
  /\ next' = [next EXCEPT ![c] = list]
  /\ list' = c /\ num' = num + 1
  /\ UNCHANGED end

bt_list_insl_front(c) ==
  /\ open /\ c \in held
  /\ held' = held \ {c}
  /\ InsertIntoEmpty(c) \/ InsertBefore(c)
  /\ UNCHANGED <<heap, open>>

-----------------------------------------------------------------------------
(* Removal *)

\* An unlinking that takes the cells behind along when the first one goes.
UnlinkFirstWithRest(c) ==
  \/ c = list /\ list' = NULL /\ UNCHANGED next
  \/ /\ c # list /\ UNCHANGED list
     /\ \E prev \in {d \in InList : next[d] = c} : next' = [next EXCEPT ![prev] = next[c]]

\* c, which keeps its own next, is taken out of the chain.
Unlink(c) ==
  \/ c = list /\ list' = next[c] /\ UNCHANGED next
  \/ /\ c # list /\ UNCHANGED list
     /\ \E prev \in {d \in InList : next[d] = c} : next' = [next EXCEPT ![prev] = next[c]]

\* end becomes the next of the cell taken: NULL, where it was the last.
GetCell(c) ==
  /\ open /\ c \in InList
  /\ Unlink(c)
  /\ end' = IF end = c THEN next[c] ELSE end
  /\ num' = num - 1
  /\ UNCHANGED open

Held(c) == held' = held \cup {c} /\ UNCHANGED heap

\* A cell that is not in the list is not found, and nothing happens.
bt_list_getl(c) == GetCell(c) /\ Held(c)

bt_list_getl_front == \E c \in {list} \ {NULL} : bt_list_getl(c)

\* end may be NULL, or no cell of the list any more: then nothing is found.
bt_list_getl_end == \E c \in {end} \ {NULL} : bt_list_getl(c)

\* A cell the list holds is taken out and freed.
bt_list_free_from_data(c) == GetCell(c) /\ heap' = heap \ {c} /\ UNCHANGED held

\* The first of the cells cmp() accepts is taken; end is not looked at.
bt_list_get_search(accepted) ==
  /\ open
  /\ \E c \in InList \cap accepted :
       /\ InList \cap accepted \subseteq From(c)
       /\ Unlink(c) /\ Held(c)
  /\ num' = num - 1
  /\ UNCHANGED <<end, open>>

-----------------------------------------------------------------------------
CellCall == \E c \in Cells : bt_list_new_with_data(c) \/ bt_list_free(c)

\* The rule of the client, which no function tests: neither insertion at the end nor
\* into an empty list writes the cell's own next, and a cell that was taken keeps the
\* one it had in the list; so it goes only where that is NULL or is overwritten.
FitForEnd(c) == next[c] = NULL
FitForFront(c) == list = NULL => next[c] = NULL

Insertion == \E c \in Cells : \/ FitForEnd(c) /\ bt_list_insl_end(c)
                              \/ FitForFront(c) /\ bt_list_insl_front(c)

Removal == \/ \E c \in Cells : bt_list_getl(c) \/ bt_list_free_from_data(c)
           \/ bt_list_getl_front \/ bt_list_getl_end
           \/ \E accepted \in SUBSET Cells : bt_list_get_search(accepted)

ListNext == bt_list_init \/ bt_list_destroy \/ CellCall \/ Insertion \/ Removal

ListSpec == ListInit /\ [][ListNext]_listVars

-----------------------------------------------------------------------------
(* Properties *)

\* s is the list's n cells in their order, each linked to the next one, no cell
\* twice: a walk ends after n steps.
Chain(s, n) ==
  /\ list = IF n = 0 THEN NULL ELSE s[1]
  /\ \A i \in 1..n : next[s[i]] = IF i = n THEN NULL ELSE s[i + 1]
  /\ \A i, j \in 1..n : s[i] = s[j] => i = j

Chains == {s \in [1..num -> Cells] : Chain(s, num)}

\* In whatever order a client that keeps its rule calls, an allocated cell is in the list or in the
\* client's hands, and never in both: none is lost, none is reached from the list
\* after it was freed.
Owned(C) == heap = C \cup held /\ C \cap held = {}

ListInv ==
  /\ ListTypeOK
  /\ open => \E s \in Chains : Owned({s[i] : i \in 1..num})
  /\ ~open => heap = held

\* The list implements an ordered bag, which counts its elements; end has no part in
\* that, it is a hint where to look for the last one.
Orders == UNION {[1..n -> Cells] : n \in 0..Cardinality(Cells)}
Order == IF open THEN CHOOSE s \in Orders : Chain(s, Len(s)) ELSE <<>>
Count == IF open THEN num ELSE 0

OB == INSTANCE OrderedBag WITH Elements <- Cells, seq <- Order, count <- Count
ImplementsBag == OB!BagSpec
=============================================================================
