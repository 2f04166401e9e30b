------------------------------ MODULE ConnTable -----------------------------
(***************************************************************************)
(* What the ACL table promises its user: a set of open connections, each a *)
(* handle and the device at the other end.  A connection is opened once,   *)
(* on a handle no other one has and while there is room; it keeps its      *)
(* device until it is closed, alone or with all others by a restart.       *)
(***************************************************************************)
EXTENDS Integers, FiniteSets

CONSTANTS Devices, ConnHandles, Capacity

VARIABLE conns

InUse == {c[1] : c \in conns}

Open(h, a) ==
  /\ h \notin InUse /\ Cardinality(conns) < Capacity
  /\ conns' = conns \cup {<<h, a>>}

Close(h) == h \in InUse /\ conns' = {c \in conns : c[1] # h}

Restart == conns' = {}

CTInit == conns = {}

CTNext == \/ \E h \in ConnHandles : Close(h) \/ \E a \in Devices : Open(h, a)
          \/ Restart

CTSpec == CTInit /\ [][CTNext]_conns
=============================================================================
