----------------------------- MODULE MCBtStack ------------------------------
(***************************************************************************)
(* Instances of BtStack for TLC.                                           *)
(***************************************************************************)
EXTENDS BtStack, TLC

\* The callbacks of test.c, and those of a client that also takes calls.
TestApp == {"cb_ready", "cb_peer_found", "cb_pincode_req"}
Client == {"cb_conn_req", "cb_pincode_req", "cb_link_key_req", "cb_idle"}

DeviceSymmetry == Permutations(Addrs)
FullSymmetry == Permutations(Addrs) \cup Permutations(Handles)
=============================================================================
