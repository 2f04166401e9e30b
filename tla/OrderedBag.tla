----------------------------- MODULE OrderedBag -----------------------------
(***************************************************************************)
(* What a list promises: its elements stand in an order that only          *)
(* insertion at either end and removal change, one element at a time, and  *)
(* it knows how many there are.                                            *)
(***************************************************************************)
EXTENDS Integers, Sequences, SequencesExt

CONSTANT Elements

VARIABLES
  seq,    \* the elements in their order
  count   \* what the list says their number is

Insert(x) ==
  /\ x \notin ToSet(seq)
  /\ seq' \in {Append(seq, x), <<x>> \o seq}
  /\ count' = count + 1

Take(i) == seq' = RemoveAt(seq, i) /\ count' = count - 1

Clear == seq' = <<>> /\ count' = 0

BagInit == seq = <<>> /\ count = 0

BagNext == \/ \E x \in Elements : Insert(x)
           \/ \E i \in DOMAIN seq : Take(i)
           \/ Clear

BagSpec == BagInit /\ [][BagNext]_<<seq, count>>
=============================================================================
