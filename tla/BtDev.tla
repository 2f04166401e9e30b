------------------------------- MODULE BtDev --------------------------------
(***************************************************************************)
(* The device structure bt_dev_t and the functions of bt_dev.c on it: the  *)
(* peer and ACL tables, the command credits, and sending a packed command. *)
(*                                                                         *)
(* A lookup that returns a pointer in the code returns here the set of the *)
(* one entry pointed to; the empty set is the NULL pointer.                *)
(***************************************************************************)
EXTENDS HciTransport

CONSTANTS NUM_PEERS, NUM_ACLS

ASSUME TableAssumption == NUM_PEERS \in Nat \ {0} /\ NUM_ACLS \in Nat \ {0}

VARIABLES
  dev_state,   \* dev->state
  ncmds,       \* dev->ncmds, an unsigned char
  peers,       \* dev->peers
  acls         \* dev->acls

devVars == <<dev_state, ncmds, peers, acls>>

Peers == 1..NUM_PEERS
Acls == 1..NUM_ACLS
NULL == 0

DevStates == {"RESET", "INITIALIZING", "READY", "INQUIRY", "CONNECTING", "DISCONNECTING"}
PeerStates == {"EMPTY", "FOUND", "SHOULD_CONNECT", "CONNECTING"}
PeerTables == [Peers -> [state : PeerStates, bd_addr : Addrs \cup {ZeroAddr}]]
AclTables == [Acls -> [state : {"EMPTY", "CONNECTED"},
                       handle : Handles \cup {NoHandle}, peer : Peers \cup {NULL}]]

DevTypeOK ==
  /\ dev_state \in DevStates
  /\ ncmds \in 0..255
  /\ peers \in PeerTables
  /\ acls \in AclTables

EmptyPeers == [p \in Peers |-> [state |-> "EMPTY", bd_addr |-> ZeroAddr]]
EmptyAcls == [i \in Acls |-> [state |-> "EMPTY", handle |-> NoHandle, peer |-> NULL]]

-----------------------------------------------------------------------------
(* The tables: every scan returns the first entry that matches *)

First(S) == {x \in S : \A y \in S : x <= y}

get_free_peer == First({p \in Peers : peers[p].state = "EMPTY"})

\* bt_dev_get_free_peer() also wipes the entry it returns, and leaves it EMPTY.
WipePeer(P) ==
  [p \in Peers |-> IF p \in P THEN [peers[p] EXCEPT !.bd_addr = ZeroAddr] ELSE peers[p]]

get_peer_by_bd_addr(a) ==
  First({p \in Peers : peers[p].state # "EMPTY" /\ peers[p].bd_addr = a})

\* The scan without its test of the state.
get_first_acl == First(Acls)

get_free_acl == First({i \in Acls : acls[i].state = "EMPTY"})

get_acl_by_handle(h) ==
  First({i \in Acls : acls[i].state # "EMPTY" /\ acls[i].handle = h})

-----------------------------------------------------------------------------
(* Sending *)

\* A field as wide as need be.
UCharUnwrapped(x) == x

\* The value an unsigned char holds after x is stored in it.
UChar(x) == x % 256

\* Sending that looks at the credits first, and drops the packet without one.
flush_hci_within_credits(credits, c) ==
  /\ ncmds' = IF credits > 0 THEN credits - 1 ELSE 0
  /\ IF credits > 0 THEN bt_serial_send(c) ELSE UNCHANGED cmdq

\* bt_dev_flush_hci(): one credit less, whether there was one or not, and the
\* packet goes out.  credits is the value of dev->ncmds at the call.
flush_hci(credits, c) == ncmds' = UChar(credits - 1) /\ bt_serial_send(c)

-----------------------------------------------------------------------------
\* bt_dev_init() on the zeroed global every program of the repository uses.
\* The result of bt_serial_init() is not looked at.
dev_init ==
  /\ dev_state' = "RESET"
  /\ ncmds' = 1
  /\ peers' = EmptyPeers
  /\ acls' = EmptyAcls

DevInit ==
  /\ dev_state = "RESET"
  /\ ncmds = 1
  /\ peers = EmptyPeers
  /\ acls = EmptyAcls
=============================================================================
