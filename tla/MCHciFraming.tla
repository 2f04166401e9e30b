---------------------------- MODULE MCHciFraming ----------------------------
(***************************************************************************)
(* Instances for TLC of the three modules of this code that share nothing  *)
(* with each other or the main loop: HciFraming, L2cap (bt_hci_unpack_acl  *)
(* hands no packet on) and BtList (no program uses a list).  A behaviour   *)
(* here is one of one of them, with the other two as they began.           *)
(***************************************************************************)
EXTENDS HciFraming, L2cap, BtList, TLC

LineStill == UNCHANGED framingVars
L2capStill == UNCHANGED l2capVars
ListStill == UNCHANGED listVars

\* Where the head of the list points before bt_list_init() matters to the list alone.
ListUnused == ListInit /\ list = NULL /\ end = NULL

MCInit == FramingInit /\ L2capInit /\ ListInit

MCNext ==
  \/ packet = <<>> /\ ListUnused /\ FramingNext /\ L2capStill /\ ListStill
  \/ FramingInit /\ ListUnused /\ L2capNext /\ LineStill /\ ListStill
  \/ FramingInit /\ packet = <<>> /\ ListNext /\ LineStill /\ L2capStill

MCSpec == MCInit /\ [][MCNext]_<<framingVars, l2capVars, listVars>> /\ WF_framingVars(bt_dev_read_hci)

\* All thresholds of the parser, and both sides of the ends of 16 and 8 bits.
CheckedLengths == (0..24) \cup (250..260) \cup (65528..65535)
CheckedSizes == (0..24) \cup (240..260)
CheckedHandles == {0, 1, 255, 256, 4095}
=============================================================================
