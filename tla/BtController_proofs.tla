------------------------ MODULE BtController_proofs ------------------------
(***************************************************************************)
(* Lemmas about the queues of the line and the events the controller sends *)
(* on it, for the programs at its other end.                               *)
(***************************************************************************)
EXTENDS BtController, SequenceTheorems, TLAPS

LEMMA SingletonSeq == ASSUME NEW S, NEW e \in S PROVE <<e>> \in Seq(S)
OBVIOUS

\* What is left of a queue when a prefix is dropped is a queue.
LEMMA SuffixInSeq ==
  ASSUME NEW S, NEW q \in Seq(S), NEW k \in 0..Len(q)
  PROVE  SubSeq(q, k + 1, Len(q)) \in Seq(S)
<1>1. Len(q) \in Nat /\ \A i \in 1..Len(q) : q[i] \in S
  OBVIOUS
<1>2. \A i \in (k + 1)..Len(q) : q[i] \in S
  BY <1>1
<1> QED
  BY <1>1, <1>2, SubSeqProperties

\* The events the controller sends are events.
LEMMA EventType ==
  /\ \A op \in Ops, ok \in BOOLEAN, n \in Grants :
       /\ [code |-> "cmd_status", op |-> op, ok |-> ok, n |-> n] \in Events
       /\ [code |-> "cmd_complete", op |-> op, ok |-> ok, n |-> n] \in Events
  /\ \A n \in Grants : CmdStatus("none", TRUE, n) \in Events
  /\ \A a \in Addrs : InquiryResult(a) \in Events
  /\ \A ok \in BOOLEAN : InquiryComplete(ok) \in Events
  /\ \A r \in Calls : ConnRequest(r[1], r[2]) \in Events
  /\ \A ok \in BOOLEAN, h \in Handles \cup {NoHandle}, r \in Calls :
       ConnComplete(ok, h, r[1], r[2]) \in Events
  /\ \A ok \in BOOLEAN, h \in Handles : DisconnComplete(ok, h) \in Events
  /\ \A code \in {"pincode_req", "link_key_req"}, a \in Addrs : KeyRequest(code, a) \in Events
  /\ OtherEvent \in Events
<1>1. \A n \in Grants : n \in 0..255
  BY ControllerAssumption
<1>2. \A r \in Calls : r[1] \in Addrs /\ r[2] \in LinkTypes
  BY DEF Calls
<1> USE <1>1, <1>2 DEF Events
<1>3. /\ \A op \in Ops, ok \in BOOLEAN, n \in Grants :
           /\ [code |-> "cmd_status", op |-> op, ok |-> ok, n |-> n] \in Events
           /\ [code |-> "cmd_complete", op |-> op, ok |-> ok, n |-> n] \in Events
      /\ \A n \in Grants : CmdStatus("none", TRUE, n) \in Events
  BY DEF CmdEvents, CmdStatus
<1>4. /\ \A a \in Addrs : InquiryResult(a) \in Events
      /\ \A ok \in BOOLEAN : InquiryComplete(ok) \in Events
  BY DEF InquiryResults, InquiryResult, InquiryCompletes, InquiryComplete
<1>5. \A r \in Calls : ConnRequest(r[1], r[2]) \in Events
  BY DEF ConnRequests, ConnRequest
<1>6. \A ok \in BOOLEAN, h \in Handles \cup {NoHandle}, r \in Calls :
        ConnComplete(ok, h, r[1], r[2]) \in Events
  BY DEF ConnCompletes, ConnComplete
<1>7. /\ \A ok \in BOOLEAN, h \in Handles : DisconnComplete(ok, h) \in Events
      /\ \A code \in {"pincode_req", "link_key_req"}, a \in Addrs : KeyRequest(code, a) \in Events
      /\ OtherEvent \in Events
  BY DEF DisconnCompletes, DisconnComplete, KeyRequests, KeyRequest, OtherEvents, OtherEvent
<1> QED
  BY <1>3, <1>4, <1>5, <1>6, <1>7
=============================================================================
