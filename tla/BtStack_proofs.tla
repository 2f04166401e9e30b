--------------------------- MODULE BtStack_proofs ---------------------------
(***************************************************************************)
(* Theorems about BtStack, for every value of its constants.               *)
(***************************************************************************)
EXTENDS BtStack, BtController_proofs

-----------------------------------------------------------------------------
(* Lemmas on sending and on the tables *)

\* Sending a command keeps the credits an unsigned char, and puts it in the queue.
LEMMA FlushType ==
  ASSUME NEW credits \in 0..255, NEW S, NEW c \in S, cmdq \in Seq(S), flush_hci(credits, c)
  PROVE  ncmds' \in 0..255 /\ cmdq' \in Seq(S)
<1>1. (credits - 1) % 256 \in 0..255
  OBVIOUS
<1> QED
  BY <1>1 DEF flush_hci, UChar, bt_serial_send

LEMMA CommandType ==
  /\ \A op \in Ops : Cmd(op) \in Commands
  /\ \A op \in Ops, a \in Addrs \cup {ZeroAddr, JunkAddr} : CmdTo(op, a) \in Commands
  /\ \A h \in Handles \cup {NoHandle} : Disconnect(h) \in Commands
BY DEF Cmd, CmdTo, Disconnect, Commands, Ops

LEMMA TableLookup ==
  ASSUME DevTypeOK, NEW a, NEW h
  PROVE  /\ get_free_peer \subseteq Peers /\ get_peer_by_bd_addr(a) \subseteq Peers
         /\ RequestPeer(a) \subseteq Peers
         /\ get_free_acl \subseteq Acls /\ get_acl_by_handle(h) \subseteq Acls
         /\ RequestTable(a) \in PeerTables
BY DEF DevTypeOK, PeerTables, get_free_peer, get_peer_by_bd_addr, RequestPeer, get_free_acl,
       get_acl_by_handle, RequestTable, WipePeer, First

\* What the host reads is an event, and the rest of the queue is still one.
LEMMA GotType ==
  ASSUME TransportTypeOK, NEW e \in Incoming, NEW codes, Got(e, codes)
  PROVE  /\ e \in Events /\ evtq' \in Seq(Events) /\ line' \in BOOLEAN
         /\ e.code \in codes
BY HeadTailProperties DEF TransportTypeOK, Incoming, Got, Receive

\* The fields of an event, by its code.
LEMMA EventFields ==
  ASSUME NEW e \in Events
  PROVE  /\ e.code \in {"cmd_status", "cmd_complete"} => e.n \in 0..255 /\ e.op \in Ops \cup {"none"}
         /\ e.code \in {"inquiry_result", "conn_request", "conn_complete",
                        "pincode_req", "link_key_req"} => e.addr \in Addrs
         /\ e.code \in {"conn_complete", "disconn_complete"} => e.handle \in Handles \cup {NoHandle}
BY DEF Events, CmdEvents, InquiryResults, InquiryCompletes, ConnRequests, ConnCompletes,
       DisconnCompletes, KeyRequests, OtherEvents

-----------------------------------------------------------------------------
(* Type correctness *)

LEMMA InitTypeOK == Init => TypeOK
<1> SUFFICES ASSUME Init PROVE TypeOK
  OBVIOUS
<1>1. HciTypeOK
  BY DEF Init, DevInit, HciTypeOK, DevTypeOK, EmptyPeers, EmptyAcls, PeerTables, AclTables,
         DevStates, PeerStates
<1>2. TransportTypeOK
  BY EmptySeq DEF Init, TransportInit, TransportTypeOK
<1>3. CtlTypeOK
  <2>1. remote \in 0..MaxRemote
    BY ControllerAssumption DEF Init, CtlInit
  <2>2. links \in [Handles -> Addrs \cup {ZeroAddr}]
    BY DEF Init, CtlInit
  <2> QED
    BY <2>1, <2>2 DEF Init, CtlInit, CtlTypeOK
<1>4. boots \in 1..MaxBoots
  BY StackAssumption DEF Init
<1> QED
  BY <1>1, <1>2, <1>3, <1>4 DEF TypeOK

LEMMA LoopTopType == TypeOK /\ LoopTop => HciTypeOK' /\ TransportTypeOK'
<1> SUFFICES ASSUME TypeOK, LoopTop PROVE HciTypeOK' /\ TransportTypeOK'
  OBVIOUS
<1> USE DEF TypeOK, HciTypeOK, TransportTypeOK
<1>1. CASE LoopReset
  <2>1. Cmd("set_event_flt") \in Commands
    BY CommandType DEF Ops, ConfigOps
  <2> QED
    BY <1>1, <2>1, FlushType DEF LoopReset, DevTypeOK, DevStates
<1>2. CASE LoopReady
  <2>1. PICK table \in cb_idle :
          /\ peers' = table
          /\ \/ UNCHANGED <<ncmds, cmdq>>
             \/ \E p \in Peers : flush_hci(ncmds, CmdTo("create_conn", table[p].bd_addr))
    BY <1>2 DEF LoopReady, First
  <2>2. table \in PeerTables
    <3>1. \A p \in Peers, a \in Addrs : Register(p, a) \in PeerTables
      BY DEF DevTypeOK, PeerTables, PeerStates, Register
    <3>2. get_free_peer \subseteq Peers
      BY DEF get_free_peer, First
    <3> QED
      BY <3>1, <3>2 DEF DevTypeOK, cb_idle
  <2>3. ncmds' \in 0..255 /\ cmdq' \in Seq(Commands)
    <3>1. CASE UNCHANGED <<ncmds, cmdq>>
      BY <3>1 DEF DevTypeOK
    <3>2. ASSUME NEW p \in Peers, flush_hci(ncmds, CmdTo("create_conn", table[p].bd_addr))
          PROVE  ncmds' \in 0..255 /\ cmdq' \in Seq(Commands)
      <4>1. CmdTo("create_conn", table[p].bd_addr) \in Commands
        BY <2>2, CommandType DEF PeerTables, Ops
      <4> QED
        BY <3>2, <4>1, FlushType DEF DevTypeOK
    <3> QED
      BY <2>1, <3>1, <3>2
  <2> QED
    BY <1>2, <2>1, <2>2, <2>3 DEF LoopReady, DevTypeOK
<1>3. CASE LoopWait
  BY <1>3 DEF LoopWait, DevTypeOK, devVars, transportVars
<1> QED
  BY <1>1, <1>2, <1>3 DEF LoopTop

LEMMA CmdEventType ==
  ASSUME TypeOK, NEW e \in Incoming, OnCmdEvent(e)
  PROVE  HciTypeOK' /\ TransportTypeOK'
<1> USE DEF TypeOK, HciTypeOK
<1>0. /\ e \in Events /\ evtq' \in Seq(Events) /\ line' \in BOOLEAN
      /\ e.code \in {"cmd_status", "cmd_complete"}
  BY GotType DEF OnCmdEvent, OnCmdStatus, OnCompleteIgnored, OnConfigFailed, OnConfigStep,
                 OnConfigured
<1>1. e.n \in 0..255
  BY <1>0, EventFields
<1>2. CASE OnCmdStatus(e)
  BY <1>0, <1>1, <1>2 DEF OnCmdStatus, DevTypeOK, TransportTypeOK
<1>3. CASE OnCompleteIgnored(e)
  BY <1>0, <1>1, <1>3 DEF OnCompleteIgnored, DevTypeOK, TransportTypeOK
<1>4. CASE OnConfigFailed(e)
  BY <1>0, <1>1, <1>4 DEF OnConfigFailed, DevTypeOK, TransportTypeOK
<1>5. CASE OnConfigStep(e)
  <2>1. Cmd(NextConfig(e.op)) \in Commands
    BY <1>5, CommandType DEF OnConfigStep, Configuring, NextConfig, ConfigOps, Ops
  <2> QED
    BY <1>0, <1>1, <1>5, <2>1, FlushType DEF OnConfigStep, DevTypeOK, TransportTypeOK
<1>6. CASE OnConfigured(e)
  <2>1. Cmd("inquiry") \in Commands
    BY CommandType DEF Ops
  <2>2. ncmds' \in 0..255 /\ cmdq' \in Seq(Commands)
    BY <1>1, <1>6, <2>1, FlushType DEF OnConfigured, TransportTypeOK
  <2> QED
    BY <1>0, <1>6, <2>2 DEF OnConfigured, DevTypeOK, DevStates, TransportTypeOK
<1> QED
  BY <1>2, <1>3, <1>4, <1>5, <1>6 DEF OnCmdEvent

LEMMA InquiryEventType ==
  ASSUME TypeOK, NEW e \in Incoming, OnInquiryEvent(e)
  PROVE  HciTypeOK' /\ TransportTypeOK'
<1> USE DEF TypeOK, HciTypeOK
<1>0. /\ e \in Events /\ evtq' \in Seq(Events) /\ line' \in BOOLEAN
      /\ OnInquiryResult(e) => e.code = "inquiry_result"
  BY GotType DEF OnInquiryEvent, OnInquiryResult, OnInquiryIgnored, OnInquiryComplete,
                 OnInquiryFailed
<1>1. Cmd("inquiry") \in Commands
  BY CommandType DEF Ops
<1>2. CASE OnInquiryResult(e)
  <2>1. peers' \in PeerTables
    BY <1>0, <1>2, EventFields DEF OnInquiryResult, DevTypeOK, PeerTables
  <2> QED
    BY <1>0, <1>2, <2>1 DEF OnInquiryResult, DevTypeOK, TransportTypeOK
<1>3. CASE OnInquiryIgnored(e)
  BY <1>0, <1>3 DEF OnInquiryIgnored, devVars, DevTypeOK, TransportTypeOK
<1>4. CASE OnInquiryComplete(e)
  <2>1. peers' \in PeerTables
    BY <1>4 DEF OnInquiryComplete, DevTypeOK, PeerTables, PeerStates
  <2>2. ncmds' \in 0..255 /\ cmdq' \in Seq(Commands)
    BY <1>1, <1>4, FlushType DEF OnInquiryComplete, DevTypeOK, TransportTypeOK
  <2> QED
    BY <1>0, <1>4, <2>1, <2>2 DEF OnInquiryComplete, DevTypeOK, DevStates, TransportTypeOK
<1>5. CASE OnInquiryFailed(e)
  <2>1. ncmds' \in 0..255 /\ cmdq' \in Seq(Commands)
    BY <1>1, <1>5, FlushType DEF OnInquiryFailed, DevTypeOK, TransportTypeOK
  <2> QED
    BY <1>0, <1>5, <2>1 DEF OnInquiryFailed, DevTypeOK, DevStates, TransportTypeOK
<1> QED
  BY <1>2, <1>3, <1>4, <1>5 DEF OnInquiryEvent

LEMMA ConnEventType ==
  ASSUME TypeOK, NEW e \in Incoming, OnConnEvent(e)
  PROVE  HciTypeOK' /\ TransportTypeOK'
<1> USE DEF TypeOK, HciTypeOK
<1>0. /\ e \in Events /\ evtq' \in Seq(Events) /\ line' \in BOOLEAN
      /\ e.code \in {"conn_request", "conn_complete", "disconn_complete"}
      /\ pc' \in {"top", "crashed"}
  BY GotType DEF OnConnEvent, OnConnRequestAccepted, OnConnRequestRejected, OnUnwantedConnection,
                 OnConnected, OnNoFreeAcl, OnConnectFailed, OnDisconnected, OnDisconnectedUnknown,
                 OnDisconnectFailed
<1>1. /\ e.code \in {"conn_complete", "disconn_complete"} => Disconnect(e.handle) \in Commands
      /\ e.code \in {"conn_complete", "disconn_complete"} => e.handle \in Handles \cup {NoHandle}
  BY <1>0, EventFields, CommandType
<1>2. /\ RequestPeer(e.addr) \subseteq Peers /\ RequestTable(e.addr) \in PeerTables
      /\ get_peer_by_bd_addr(e.addr) \subseteq Peers
      /\ get_free_acl \subseteq Acls /\ get_acl_by_handle(e.handle) \subseteq Acls
  BY TableLookup
<1>3. CASE OnConnRequestAccepted(e)
  <2>1. PICK p \in Peers :
          /\ flush_hci(ncmds, CmdTo("accept_conn_req", RequestTable(e.addr)[p].bd_addr))
          /\ peers' = [RequestTable(e.addr) EXCEPT ![p].state = "CONNECTING"]
    BY <1>2, <1>3 DEF OnConnRequestAccepted
  <2>2. CmdTo("accept_conn_req", RequestTable(e.addr)[p].bd_addr) \in Commands
    BY <1>2, CommandType DEF PeerTables, Ops
  <2>3. ncmds' \in 0..255 /\ cmdq' \in Seq(Commands)
    BY <2>1, <2>2, FlushType DEF DevTypeOK, TransportTypeOK
  <2>4. peers' \in PeerTables
    BY <1>2, <2>1 DEF PeerTables, PeerStates
  <2> QED
    BY <1>0, <1>3, <2>3, <2>4 DEF OnConnRequestAccepted, DevTypeOK, DevStates, TransportTypeOK
<1>4. CASE OnConnRequestRejected(e)
  <2>1. PICK a \in Addrs \cup {ZeroAddr, JunkAddr} : flush_hci(ncmds, CmdTo("reject_conn_req", a))
    BY <1>2, <1>4 DEF OnConnRequestRejected, PeerTables
  <2>2. CmdTo("reject_conn_req", a) \in Commands
    BY CommandType DEF Ops
  <2>3. ncmds' \in 0..255 /\ cmdq' \in Seq(Commands)
    BY <2>1, <2>2, FlushType DEF DevTypeOK, TransportTypeOK
  <2> QED
    BY <1>0, <1>2, <1>4, <2>3 DEF OnConnRequestRejected, DevTypeOK, TransportTypeOK
<1>5. CASE OnUnwantedConnection(e)
  <2>1. ncmds' \in 0..255 /\ cmdq' \in Seq(Commands)
    BY <1>1, <1>5, FlushType DEF OnUnwantedConnection, Got, DevTypeOK, TransportTypeOK
  <2> QED
    BY <1>0, <1>5, <2>1 DEF OnUnwantedConnection, DevTypeOK, DevStates, TransportTypeOK
<1>6. CASE OnConnected(e)
  <2>1. acls' \in AclTables
    BY <1>1, <1>2, <1>6 DEF OnConnected, Got, DevTypeOK, AclTables
  <2> QED
    BY <1>0, <1>6, <2>1 DEF OnConnected, DevTypeOK, DevStates, TransportTypeOK
<1>7. CASE OnNoFreeAcl(e)
  <2>1. ncmds' \in 0..255 /\ cmdq' \in Seq(Commands)
    BY <1>1, <1>7, FlushType DEF OnNoFreeAcl, Got, DevTypeOK, TransportTypeOK
  <2> QED
    BY <1>0, <1>7, <2>1 DEF OnNoFreeAcl, DevTypeOK, TransportTypeOK
<1>8. CASE OnConnectFailed(e)
  BY <1>0, <1>8 DEF OnConnectFailed, DevTypeOK, DevStates, TransportTypeOK
<1>9. CASE OnDisconnected(e)
  <2>1. acls' \in AclTables
    BY <1>2, <1>9 DEF OnDisconnected, FreeAcl, DevTypeOK, AclTables
  <2> QED
    BY <1>0, <1>9, <2>1 DEF OnDisconnected, DevTypeOK, DevStates, TransportTypeOK
<1>10. CASE OnDisconnectedUnknown(e)
  BY <1>0, <1>10 DEF OnDisconnectedUnknown, devVars, DevTypeOK, TransportTypeOK
<1>11. CASE OnDisconnectFailed(e)
  <2>1. ncmds' \in 0..255 /\ cmdq' \in Seq(Commands)
    BY <1>1, <1>11, FlushType DEF OnDisconnectFailed, Got, DevTypeOK, TransportTypeOK
  <2> QED
    BY <1>0, <1>11, <2>1 DEF OnDisconnectFailed, DevTypeOK, DevStates, TransportTypeOK
<1> QED
  BY <1>3, <1>4, <1>5, <1>6, <1>7, <1>8, <1>9, <1>10, <1>11 DEF OnConnEvent

LEMMA OtherEventType ==
  ASSUME TypeOK, NEW e \in Incoming, OnKeyRequest(e) \/ OnOther(e)
  PROVE  HciTypeOK' /\ TransportTypeOK'
<1> USE DEF TypeOK, HciTypeOK
<1>1. CASE OnKeyRequest(e)
  <2>1. /\ e \in Events /\ evtq' \in Seq(Events) /\ line' \in BOOLEAN
        /\ e.code \in {"pincode_req", "link_key_req"}
    BY <1>1, GotType DEF OnKeyRequest
  <2>2. e.addr \in Addrs
    BY <2>1, EventFields
  <2>3. PICK op \in KeyOps : flush_hci(ncmds, CmdTo(op, e.addr))
    BY <1>1 DEF OnKeyRequest, KeyReply, KeyReplyNeg, KeyOps
  <2>4. CmdTo(op, e.addr) \in Commands
    BY <2>2, CommandType DEF Ops
  <2>5. ncmds' \in 0..255 /\ cmdq' \in Seq(Commands)
    BY <2>3, <2>4, FlushType DEF DevTypeOK, TransportTypeOK
  <2> QED
    BY <1>1, <2>1, <2>5 DEF OnKeyRequest, DevTypeOK, TransportTypeOK
<1>2. CASE OnOther(e)
  BY <1>2, GotType DEF OnOther, devVars, DevTypeOK, TransportTypeOK
<1> QED
  BY <1>1, <1>2

LEMMA HostType == TypeOK /\ bt_hci_main => HciTypeOK' /\ TransportTypeOK'
<1>1. TypeOK /\ ReadFails => HciTypeOK' /\ TransportTypeOK'
  BY DEF ReadFails, TypeOK, HciTypeOK, DevTypeOK, TransportTypeOK, devVars, transportVars
<1> QED
  BY <1>1, LoopTopType, CmdEventType, InquiryEventType, ConnEventType, OtherEventType
     DEF bt_hci_main, unpack_hci

\* A command taken from its queue: both queues keep their elements.
LEMMA TakeType ==
  ASSUME TypeOK, cmdq # <<>>,
         NEW code \in {"cmd_status", "cmd_complete"}, NEW op \in Ops, NEW ok \in BOOLEAN,
         NEW more \in Seq(Events), Take(code, op, ok, more)
  PROVE  TransportTypeOK' /\ owed' \in BOOLEAN /\ remote' \in 0..MaxRemote
<1>1. PICK n \in Grants : evtq' = evtq \o (<<[code |-> code, op |-> op, ok |-> ok, n |-> n]>> \o more)
  BY DEF Take, Send
<1>2. [code |-> code, op |-> op, ok |-> ok, n |-> n] \in Events
  BY EventType
<1>3. evtq' \in Seq(Events)
  BY <1>1, <1>2 DEF TypeOK, TransportTypeOK
<1>4. cmdq' \in Seq(Commands)
  BY HeadTailProperties DEF Take, TypeOK, TransportTypeOK
<1> QED
  BY <1>3, <1>4 DEF Take, TypeOK, TransportTypeOK, CtlTypeOK

LEMMA TakeCommandType == TypeOK /\ TakeCommand => CtlTypeOK' /\ TransportTypeOK'
<1> SUFFICES ASSUME TypeOK, NEW c \in Waiting,
                    Configure(c) \/ TakeKey(c) \/ Refuse(c) \/ Begin(c) \/ Answer(c)
             PROVE  CtlTypeOK' /\ TransportTypeOK'
  BY DEF TakeCommand
<1>0. cmdq # <<>> /\ c \in Commands /\ <<>> \in Seq(Events)
  BY HeadTailProperties, EmptySeq DEF Waiting, TypeOK, TransportTypeOK
<1>1. c.op \in Ops /\ c.addr \in Addrs \cup {ZeroAddr, JunkAddr} /\ c.handle \in Handles \cup {NoHandle}
  BY <1>0 DEF Commands
<1> USE DEF TypeOK, CtlTypeOK
<1>2. CASE Configure(c)
  <2>1. PICK ok \in BOOLEAN : /\ Take("cmd_complete", c.op, ok, <<>>)
                             /\ done' = IF ok THEN done \cup {c.op} ELSE done
    BY <1>2, ControllerAssumption DEF Configure
  <2>2. TransportTypeOK' /\ owed' \in BOOLEAN /\ remote' \in 0..MaxRemote
    BY <1>0, <1>1, <2>1, TakeType
  <2> QED
    BY <1>2, <2>1, <2>2 DEF Configure
<1>3. CASE TakeKey(c)
  <2>1. TransportTypeOK' /\ owed' \in BOOLEAN /\ remote' \in 0..MaxRemote
    BY <1>0, <1>1, <1>3, TakeType DEF TakeKey
  <2> QED
    BY <1>3, <2>1 DEF TakeKey
<1>4. CASE Refuse(c)
  <2>1. TransportTypeOK' /\ owed' \in BOOLEAN /\ remote' \in 0..MaxRemote
    BY <1>0, <1>1, <1>4, TakeType DEF Refuse
  <2> QED
    BY <1>4, <2>1 DEF Refuse
<1>5. CASE Begin(c)
  <2>1. TransportTypeOK' /\ owed' \in BOOLEAN /\ remote' \in 0..MaxRemote
    BY <1>0, <1>1, <1>5, TakeType DEF Begin
  <2>2. inquiring' \in BOOLEAN
    BY <1>5 DEF Begin
  <2>3. setup' \subseteq Calls
    BY <1>1, <1>5 DEF Begin, Disallowed, Calls, LinkTypes
  <2>4. closing' \subseteq Handles
    BY <1>1, <1>5 DEF Begin, Disallowed, Live
  <2> QED
    BY <1>5, <2>1, <2>2, <2>3, <2>4 DEF Begin
<1>6. CASE Answer(c)
  <2>1. PICK r \in asking :
          /\ asking' = asking \ {r}
          /\ setup' = setup \cup {r} \/ setup' = setup
          /\ \/ Take("cmd_status", c.op, TRUE, <<>>)
             \/ Take("cmd_status", c.op, TRUE, <<ConnComplete(FALSE, FailHandle, r[1], r[2])>>)
    BY <1>6 DEF Answer
  <2>2. ConnComplete(FALSE, FailHandle, r[1], r[2]) \in Events
    BY EventType, ControllerAssumption
  <2>3. <<ConnComplete(FALSE, FailHandle, r[1], r[2])>> \in Seq(Events)
    BY <2>2, SingletonSeq
  <2>4. PICK more \in Seq(Events) : Take("cmd_status", c.op, TRUE, more)
    BY <1>0, <2>1, <2>3
  <2>5. TransportTypeOK' /\ owed' \in BOOLEAN /\ remote' \in 0..MaxRemote
    BY <1>0, <1>1, <2>4, TakeType
  <2> QED
    BY <1>6, <2>1, <2>5 DEF Answer
<1> QED
  BY <1>2, <1>3, <1>4, <1>5, <1>6

LEMMA SpontaneousType == TypeOK /\ Spontaneous => CtlTypeOK' /\ TransportTypeOK'
<1> SUFFICES ASSUME TypeOK, Spontaneous PROVE CtlTypeOK' /\ TransportTypeOK'
  OBVIOUS
<1>1. ASSUME NEW e \in Events, Report(e)
      PROVE  TransportTypeOK' /\ done' = done /\ owed' = owed
  <2>1. evtq' = evtq \o <<e>> /\ cmdq' = cmdq /\ line' = line /\ done' = done /\ owed' = owed
    BY <1>1 DEF Report, Send
  <2> QED
    BY <2>1 DEF TypeOK, TransportTypeOK
<1>2. /\ FailHandle \in Handles \cup {NoHandle} /\ Outcomes \subseteq BOOLEAN /\ MaxRemote \in Nat
      /\ RemoteActs => remote' \in 0..MaxRemote
  BY ControllerAssumption DEF RemoteActs, TypeOK, CtlTypeOK
<1>3. /\ \A s \in setup \cup asking : s \in Calls /\ s[1] \in Addrs
      /\ links \in [Handles -> Addrs \cup {ZeroAddr}]
  BY DEF TypeOK, CtlTypeOK, Calls
<1> USE DEF TypeOK, CtlTypeOK
<1>4. ASSUME NEW a \in Addrs, FindDevice(a) PROVE CtlTypeOK' /\ TransportTypeOK'
  BY <1>1, <1>4, EventType DEF FindDevice
<1>5. CASE EndInquiry
  BY <1>1, <1>2, <1>5, EventType DEF EndInquiry
<1>6. ASSUME NEW s \in setup, LinkFails(s) PROVE CtlTypeOK' /\ TransportTypeOK'
  <2>1. ConnComplete(FALSE, FailHandle, s[1], s[2]) \in Events
    BY <1>2, <1>3, EventType
  <2> QED
    BY <1>1, <1>6, <2>1 DEF LinkFails
<1>7. ASSUME NEW s \in setup, NEW h \in Handles, LinkUp(s, h) PROVE CtlTypeOK' /\ TransportTypeOK'
  <2>1. ConnComplete(TRUE, h, s[1], s[2]) \in Events
    BY <1>3, EventType
  <2>2. links' \in [Handles -> Addrs \cup {ZeroAddr}]
    BY <1>3, <1>7 DEF LinkUp
  <2> QED
    BY <1>1, <1>7, <2>1, <2>2 DEF LinkUp
<1>8. ASSUME NEW h \in Handles, LinkDown(h)
      PROVE  /\ TransportTypeOK' /\ links' \in [Handles -> Addrs \cup {ZeroAddr}]
             /\ closing' \subseteq Handles /\ done' = done /\ owed' = owed
             /\ UNCHANGED <<asking, setup, inquiring>>
  <2>1. DisconnComplete(TRUE, h) \in Events
    BY EventType
  <2> QED
    BY <1>1, <1>3, <1>8, <2>1 DEF LinkDown
<1>9. ASSUME NEW h \in Handles, Closed(h) PROVE CtlTypeOK' /\ TransportTypeOK'
  BY <1>8, <1>9 DEF Closed
<1>10. ASSUME NEW h \in Handles, RemoteLeaves(h) PROVE CtlTypeOK' /\ TransportTypeOK'
  BY <1>2, <1>8, <1>10 DEF RemoteLeaves
<1>11. ASSUME NEW h \in Handles, CloseFails(h) PROVE CtlTypeOK' /\ TransportTypeOK'
  <2>1. DisconnComplete(FALSE, h) \in Events
    BY EventType
  <2> QED
    BY <1>1, <1>11, <2>1 DEF CloseFails
<1>12. ASSUME NEW r \in asking, CallTimesOut(r) PROVE CtlTypeOK' /\ TransportTypeOK'
  <2>1. ConnComplete(FALSE, FailHandle, r[1], r[2]) \in Events
    BY <1>2, <1>3, EventType
  <2> QED
    BY <1>1, <1>12, <2>1 DEF CallTimesOut
<1>13. ASSUME NEW r \in Calls, RemoteCalls(r) PROVE CtlTypeOK' /\ TransportTypeOK'
  <2>1. ConnRequest(r[1], r[2]) \in Events
    BY EventType
  <2> QED
    BY <1>1, <1>2, <1>13, <2>1 DEF RemoteCalls
<1>14. ASSUME NEW code \in {"pincode_req", "link_key_req"}, NEW a \in Addrs, AskKey(code, a)
       PROVE  CtlTypeOK' /\ TransportTypeOK'
  <2>1. KeyRequest(code, a) \in Events
    BY EventType
  <2> QED
    BY <1>1, <1>2, <1>14, <2>1 DEF AskKey
<1>15. CASE ReportOther
  <2>1. OtherEvent \in Events
    BY EventType
  <2> QED
    BY <1>1, <1>2, <1>15, <2>1 DEF ReportOther
<1> QED
  BY <1>4, <1>5, <1>6, <1>7, <1>9, <1>10, <1>11, <1>12, <1>13, <1>14, <1>15 DEF Spontaneous

LEMMA NextTypeOK == TypeOK /\ [Next]_vars => TypeOK'
<1> SUFFICES ASSUME TypeOK, [Next]_vars PROVE TypeOK'
  OBVIOUS
<1>1. CASE Host
  <2>1. HciTypeOK' /\ TransportTypeOK'
    BY <1>1, HostType DEF Host
  <2> QED
    BY <1>1, <2>1 DEF Host, TypeOK, CtlTypeOK, ctlVars
<1>2. CASE CommandTaken
  <2>1. CtlTypeOK' /\ TransportTypeOK'
    BY <1>2, TakeCommandType DEF CommandTaken
  <2> QED
    BY <1>2, <2>1 DEF CommandTaken, TypeOK, HciTypeOK, DevTypeOK, hostVars
<1>3. CASE CreditGranted
  <2>1. PICK e \in Events : evtq' = evtq \o <<e>>
    BY <1>3, EventType DEF CreditGranted, CtlGrant, Send
  <2>2. evtq' \in Seq(Events)
    BY <2>1 DEF TypeOK, TransportTypeOK
  <2> QED
    BY <1>3, <2>2 DEF CreditGranted, CtlGrant, TypeOK, HciTypeOK, DevTypeOK, hostVars, CtlTypeOK,
                      TransportTypeOK
<1>4. CASE EventSent
  <2>1. CtlTypeOK' /\ TransportTypeOK'
    BY <1>4, SpontaneousType DEF EventSent
  <2> QED
    BY <1>4, <2>1 DEF EventSent, TypeOK, HciTypeOK, DevTypeOK, hostVars
<1>5. CASE Boot
  <2>0. PICK k \in 0..Len(evtq) : evtq' = SubSeq(evtq, k + 1, Len(evtq))
    BY <1>5 DEF Boot, Reopened
  <2>1. evtq' \in Seq(Events)
    BY <2>0, SuffixInSeq DEF TypeOK, TransportTypeOK
  <2>2. HciTypeOK'
    BY <1>5 DEF Boot, dev_init, HciTypeOK, DevTypeOK, EmptyPeers, EmptyAcls, PeerTables, AclTables,
                DevStates, PeerStates
  <2>3. boots' \in 1..MaxBoots
    BY <1>5, StackAssumption DEF Boot, TypeOK
  <2> QED
    BY <1>5, <2>1, <2>2, <2>3 DEF Boot, TypeOK, TransportTypeOK, CtlTypeOK, ctlVars
<1>6. CASE LineLost
  BY <1>6 DEF LineLost, Hangup, TypeOK, HciTypeOK, DevTypeOK, hostVars, TransportTypeOK, CtlTypeOK,
              ctlVars
<1>7. CASE UNCHANGED vars
  BY <1>7 DEF vars, TypeOK, HciTypeOK, DevTypeOK, hostVars, TransportTypeOK, transportVars,
              CtlTypeOK, ctlVars
<1> QED
  BY <1>1, <1>2, <1>3, <1>4, <1>5, <1>6, <1>7 DEF Next

\* The host, the line and the controller stay in their types, the credits among
\* them: dev->ncmds is an unsigned char whatever it is decremented from.
THEOREM TypeCorrect == Spec => []TypeOK
<1> QED
  BY InitTypeOK, NextTypeOK, PTL DEF Spec

-----------------------------------------------------------------------------
(* The order of the initialisation *)

LEMMA AppendAny ==
  ASSUME NEW S, NEW q \in Seq(S), NEW c
  PROVE  /\ Len(Append(q, c)) = Len(q) + 1
         /\ \A k \in 1..Len(q) : Append(q, c)[k] = q[k]
         /\ Append(q, c)[Len(q) + 1] = c
<1> DEFINE T == S \cup {c}
<1>1. q \in Seq(T)
  BY SeqMonotonic
<1>2. c \in T
  OBVIOUS
<1> HIDE DEF T
<1> QED
  BY <1>1, <1>2

\* A step of the host sends nothing, or a command that is not of the initialisation,
\* except the two steps HostSends names.
SendsPlain == cmdq' = cmdq \/ \E c : c.op \notin ConfigOps /\ bt_serial_send(c)

LEMMA FlushSends ==
  ASSUME NEW credits, NEW c, c.op \notin ConfigOps, flush_hci(credits, c)
  PROVE  SendsPlain
BY DEF SendsPlain, flush_hci

LEMMA PlainCommands ==
  /\ Cmd("inquiry").op \notin ConfigOps
  /\ \A op \in Ops \ ConfigOps : \A a : CmdTo(op, a).op \notin ConfigOps
  /\ \A h : Disconnect(h).op \notin ConfigOps
  /\ {"create_conn", "accept_conn_req", "reject_conn_req"} \cup KeyOps \subseteq Ops \ ConfigOps
BY DEF Cmd, CmdTo, Disconnect, ConfigOps, KeyOps, Ops

LEMMA HostSends ==
  ASSUME bt_hci_main
  PROVE  \/ SendsPlain
         \/ LoopReset
         \/ \E e \in Incoming : OnConfigStep(e)
<1>1. CASE LoopReady
  BY <1>1, FlushSends, PlainCommands DEF LoopReady, SendsPlain
<1>2. CASE LoopWait \/ ReadFails
  BY <1>2 DEF LoopWait, ReadFails, SendsPlain, transportVars
<1>3. ASSUME NEW e \in Incoming, OnCmdEvent(e), ~OnConfigStep(e)
      PROVE  SendsPlain
  <2>1. CASE OnConfigured(e)
    BY <2>1, FlushSends, PlainCommands DEF OnConfigured, SendsPlain
  <2> QED
    BY <1>3, <2>1 DEF OnCmdEvent, OnCmdStatus, OnCompleteIgnored, OnConfigFailed, SendsPlain
<1>4. ASSUME NEW e \in Incoming, OnInquiryEvent(e)
      PROVE  SendsPlain
  BY <1>4, FlushSends, PlainCommands
     DEF OnInquiryEvent, OnInquiryResult, OnInquiryIgnored, OnInquiryComplete, OnInquiryFailed, SendsPlain
<1>5. ASSUME NEW e \in Incoming, OnConnEvent(e)
      PROVE  SendsPlain
  <2>1. CASE OnConnRequestAccepted(e) \/ OnConnRequestRejected(e)
    BY <2>1, FlushSends, PlainCommands DEF OnConnRequestAccepted, OnConnRequestRejected
  <2>2. CASE OnUnwantedConnection(e) \/ OnNoFreeAcl(e) \/ OnDisconnectFailed(e)
    BY <2>2, FlushSends, PlainCommands DEF OnUnwantedConnection, OnNoFreeAcl, OnDisconnectFailed
  <2>3. CASE OnConnected(e) \/ OnConnectFailed(e) \/ OnDisconnected(e) \/ OnDisconnectedUnknown(e)
    BY <2>3 DEF OnConnected, OnConnectFailed, OnDisconnected, OnDisconnectedUnknown, SendsPlain
  <2> QED
    BY <1>5, <2>1, <2>2, <2>3 DEF OnConnEvent
<1>6. ASSUME NEW e \in Incoming, OnKeyRequest(e) \/ OnOther(e)
      PROVE  SendsPlain
  BY <1>6, FlushSends, PlainCommands DEF OnKeyRequest, KeyReply, KeyReplyNeg, KeyOps, OnOther, SendsPlain
<1> QED
  BY <1>1, <1>2, <1>3, <1>4, <1>5, <1>6 DEF bt_hci_main, LoopTop, unpack_hci

\* A step of the host reads at most one packet.
LEMMA HostReads ==
  ASSUME bt_hci_main
  PROVE  evtq' = evtq \/ (evtq # <<>> /\ evtq' = Tail(evtq))
BY DEF bt_hci_main, LoopTop, LoopReset, LoopReady, LoopWait, ReadFails, unpack_hci, transportVars,
       OnCmdEvent, OnCmdStatus, OnCompleteIgnored, OnConfigFailed, OnConfigStep, OnConfigured,
       OnInquiryEvent, OnInquiryResult, OnInquiryIgnored, OnInquiryComplete, OnInquiryFailed,
       OnConnEvent, OnConnRequestAccepted, OnConnRequestRejected, OnUnwantedConnection,
       OnConnected, OnNoFreeAcl, OnConnectFailed, OnDisconnected, OnDisconnectedUnknown,
       OnDisconnectFailed, OnKeyRequest, OnOther, Got, Receive

\* The event the host handles is the first of the queue.
LEMMA IncomingFirst ==
  ASSUME TypeOK, NEW e \in Incoming
  PROVE  1 \in 1..Len(evtq) /\ e = evtq[1] /\ e \in Events
BY HeadTailProperties DEF Incoming, TypeOK, TransportTypeOK

LEMMA HostCommandsInOrder ==
  ASSUME ConfigInv, bt_hci_main, UNCHANGED done
  PROVE  CommandsInOrder'
<1>0. cmdq \in Seq(Commands) /\ CommandsInOrder
  BY DEF ConfigInv, TypeOK, TransportTypeOK
<1>1. ASSUME NEW c, c.op \in ConfigOps => Earlier(c.op) \subseteq done, bt_serial_send(c)
      PROVE  CommandsInOrder'
  <2> SUFFICES ASSUME cmdq' = Append(cmdq, c) PROVE CommandsInOrder'
    BY <1>0, <1>1 DEF bt_serial_send, CommandsInOrder
  <2>1. /\ Len(cmdq') = Len(cmdq) + 1 /\ cmdq'[Len(cmdq) + 1] = c
        /\ \A k \in 1..Len(cmdq) : cmdq'[k] = cmdq[k]
    BY <1>0, AppendAny
  <2>2. \A k \in 1..Len(cmdq') : k \in 1..Len(cmdq) \/ k = Len(cmdq) + 1
    BY <1>0, <2>1
  <2> QED
    BY <1>0, <1>1, <2>1, <2>2 DEF CommandsInOrder
<1>2. CASE SendsPlain
  <2>1. CASE cmdq' = cmdq
    BY <1>0, <2>1 DEF CommandsInOrder
  <2>2. ASSUME NEW c, c.op \notin ConfigOps, bt_serial_send(c)
        PROVE  CommandsInOrder'
    BY <1>1, <2>2
  <2> QED
    BY <1>2, <2>1, <2>2 DEF SendsPlain
<1>3. CASE LoopReset
  <2>1. Earlier(Cmd("set_event_flt").op) \subseteq done
    BY DEF Earlier, Cmd
  <2> QED
    BY <1>1, <1>3, <2>1 DEF LoopReset, flush_hci
<1>4. ASSUME NEW e \in Incoming, OnConfigStep(e)
      PROVE  CommandsInOrder'
  <2>1. Succeeded(e)
    BY <1>4 DEF OnConfigStep, Configuring, Got, Succeeded
  <2>2. Earlier(e.op) \cup {e.op} \subseteq done
    BY <2>1, IncomingFirst DEF ConfigInv, CompletionsInOrder
  <2>3. Earlier(Cmd(NextConfig(e.op)).op) \subseteq done
    BY <1>4, <2>2 DEF OnConfigStep, Configuring, ConfigOps, NextConfig, Earlier, Cmd
  <2> QED
    BY <1>1, <1>4, <2>3 DEF OnConfigStep, flush_hci
<1> QED
  BY <1>2, <1>3, <1>4, HostSends

LEMMA HostCompletionsInOrder ==
  ASSUME ConfigInv, bt_hci_main, UNCHANGED done
  PROVE  CompletionsInOrder'
<1>1. evtq \in Seq(Events) /\ CompletionsInOrder
  BY DEF ConfigInv, TypeOK, TransportTypeOK
<1>2. CASE evtq' = evtq
  BY <1>1, <1>2 DEF CompletionsInOrder, Succeeded
<1>3. CASE evtq # <<>> /\ evtq' = Tail(evtq)
  <2>1. /\ Len(evtq') = Len(evtq) - 1
        /\ \A k \in 1..Len(evtq') : evtq'[k] = evtq[k + 1]
    BY <1>1, <1>3, HeadTailProperties
  <2>2. \A k \in 1..Len(evtq') : k + 1 \in 1..Len(evtq)
    BY <1>1, <2>1
  <2> QED
    BY <1>1, <2>1, <2>2 DEF CompletionsInOrder, Succeeded
<1> QED
  BY <1>2, <1>3, HostReads

\* While the device is not configured the host knows no device, has no connection
\* and is not READY; and a step of the host leaves it so.
HostBlank ==
  /\ \A p \in Peers : peers[p].state = "EMPTY" \/ peers[p].bd_addr \notin Addrs
  /\ \A i \in Acls : acls[i].state = "EMPTY"
  /\ dev_state \notin {"READY", "INQUIRY"}

LEMMA HostStaysBlank ==
  ASSUME ConfigInv, ~Configured, HostBlank, bt_hci_main
  PROVE  HostBlank'
<1>1. /\ \A a \in Addrs : get_peer_by_bd_addr(a) = {}
      /\ \A h : get_acl_by_handle(h) = {}
  BY DEF HostBlank, get_peer_by_bd_addr, get_acl_by_handle, First
<1>2. CASE LoopTop \/ ReadFails
  BY <1>2 DEF LoopTop, LoopReset, LoopReady, LoopWait, ReadFails, devVars, HostBlank
<1>3. ASSUME NEW e \in Incoming, OnCmdEvent(e) PROVE HostBlank'
  <2>1. ~OnConfigured(e)
    <3>1. ASSUME OnConfigured(e) PROVE Configured
      <4>1. Succeeded(e) /\ e.op = "write_scan_enable"
        BY <3>1 DEF OnConfigured, Configuring, Got, Succeeded
      <4>2. Earlier(e.op) \cup {e.op} \subseteq done
        BY <4>1, IncomingFirst DEF ConfigInv, CompletionsInOrder
      <4> QED
        BY <4>1, <4>2 DEF Configured, Earlier, ConfigOps
    <3> QED
      BY <3>1
  <2> QED
    BY <1>3, <2>1 DEF OnCmdEvent, OnCmdStatus, OnCompleteIgnored, OnConfigFailed, OnConfigStep,
                      HostBlank
<1>4. ASSUME NEW e \in Incoming, OnInquiryEvent(e) PROVE HostBlank'
  <2>1. CASE OnInquiryResult(e)
    <3>1. \A p \in get_free_peer : peers[p].state = "EMPTY"
      BY DEF get_free_peer, First
    <3> QED
      BY <2>1, <3>1 DEF OnInquiryResult, HostBlank, ConfigInv, TypeOK, HciTypeOK, DevTypeOK, PeerTables
  <2>2. CASE OnInquiryIgnored(e)
    BY <2>2 DEF OnInquiryIgnored, devVars, HostBlank
  <2> QED
    BY <1>4, <2>1, <2>2 DEF OnInquiryEvent, OnInquiryComplete, OnInquiryFailed, HostBlank
<1>5. ASSUME NEW e \in Incoming, OnConnEvent(e) PROVE HostBlank'
  <2>1. e.addr \in Addrs \/ e.code = "disconn_complete"
    BY <1>5, IncomingFirst, EventFields
       DEF ConfigInv, OnConnEvent, OnConnRequestAccepted, OnConnRequestRejected,
           OnUnwantedConnection, OnConnected, OnNoFreeAcl, OnConnectFailed, OnDisconnected,
           OnDisconnectedUnknown, OnDisconnectFailed, Got
  <2>2. e.addr \in Addrs => /\ RequestPeer(e.addr) = get_free_peer
                           /\ RequestTable(e.addr) = WipePeer(get_free_peer)
    BY <1>1 DEF RequestPeer, RequestTable
  <2>3. \A p \in Peers : \/ WipePeer(get_free_peer)[p].bd_addr \notin Addrs
                         \/ WipePeer(get_free_peer)[p].state = "EMPTY"
    BY TransportAssumption
       DEF WipePeer, HostBlank, ConfigInv, TypeOK, HciTypeOK, DevTypeOK, PeerTables
  <2>4. /\ get_free_peer \subseteq Peers
        /\ \A p \in get_free_peer : WipePeer(get_free_peer)[p].bd_addr \notin Addrs
    BY TransportAssumption
       DEF get_free_peer, First, WipePeer, ConfigInv, TypeOK, HciTypeOK, DevTypeOK, PeerTables
  <2>5. WipePeer(get_free_peer) \in PeerTables
    BY DEF WipePeer, ConfigInv, TypeOK, HciTypeOK, DevTypeOK, PeerTables
  <2>6. CASE OnConnRequestAccepted(e)
    <3>1. e.addr \in Addrs
      BY <2>1, <2>6 DEF OnConnRequestAccepted, Got
    <3>2. PICK p \in get_free_peer :
            peers' = [WipePeer(get_free_peer) EXCEPT ![p].state = "CONNECTING"]
      BY <2>2, <2>6, <3>1 DEF OnConnRequestAccepted
    <3>3. \A q \in Peers : peers'[q].state = "EMPTY" \/ peers'[q].bd_addr \notin Addrs
      BY <2>3, <2>4, <2>5, <3>2 DEF PeerTables
    <3> QED
      BY <2>6, <3>3 DEF OnConnRequestAccepted, HostBlank
  <2>7. CASE OnConnRequestRejected(e)
    <3>1. e.addr \in Addrs
      BY <2>1, <2>7 DEF OnConnRequestRejected, Got
    <3> QED
      BY <2>2, <2>3, <2>7, <3>1 DEF OnConnRequestRejected, HostBlank
  <2>8. CASE OnUnwantedConnection(e) \/ OnDisconnectedUnknown(e) \/ OnDisconnectFailed(e)
    BY <2>8 DEF OnUnwantedConnection, OnDisconnectedUnknown, OnDisconnectFailed, devVars, HostBlank
  <2>9. ~(OnConnected(e) \/ OnNoFreeAcl(e) \/ OnConnectFailed(e) \/ OnDisconnected(e))
    BY <1>1, <2>1 DEF OnConnected, OnNoFreeAcl, OnConnectFailed, OnDisconnected, Got
  <2> QED
    BY <1>5, <2>6, <2>7, <2>8, <2>9 DEF OnConnEvent
<1>6. ASSUME NEW e \in Incoming, OnKeyRequest(e) \/ OnOther(e) PROVE HostBlank'
  BY <1>6 DEF OnKeyRequest, OnOther, devVars, HostBlank
<1> QED
  BY <1>2, <1>3, <1>4, <1>5, <1>6 DEF bt_hci_main, unpack_hci

LEMMA HostConfigInv == ConfigInv /\ Host => ConfigInv'
<1> SUFFICES ASSUME ConfigInv, Host PROVE ConfigInv'
  OBVIOUS
<1>1. bt_hci_main /\ UNCHANGED done
  BY DEF Host, ctlVars
<1>2. TypeOK'
  BY NextTypeOK DEF ConfigInv, Next
<1>3. CommandsInOrder' /\ CompletionsInOrder'
  BY <1>1, HostCommandsInOrder, HostCompletionsInOrder
<1>4. TablesConfigured' /\ ReadyMeansConfigured'
  <2>1. CASE Configured
    BY <1>1, <2>1 DEF Configured, TablesConfigured, ReadyMeansConfigured
  <2>2. CASE ~Configured
    <3>1. HostBlank
      BY <2>2 DEF HostBlank, ConfigInv, TablesConfigured, ReadyMeansConfigured, TypeOK, HciTypeOK,
                  DevTypeOK, AclTables
    <3> QED
      BY <1>1, <2>2, <3>1, HostStaysBlank DEF HostBlank, TablesConfigured, ReadyMeansConfigured
  <2> QED
    BY <2>1, <2>2
<1> QED
  BY <1>2, <1>3, <1>4 DEF ConfigInv

\* Events added to the queue keep it in order when each of them is.
LEMMA SentInOrder ==
  ASSUME ConfigInv, done \subseteq done',
         NEW s \in Seq({e \in Events : Succeeded(e) => Earlier(e.op) \cup {e.op} \subseteq done'}),
         evtq' = evtq \o s
  PROVE  CompletionsInOrder'
<1> DEFINE T == {e \in Events : Succeeded(e) => Earlier(e.op) \cup {e.op} \subseteq done'}
<1>1. evtq \in Seq(Events) /\ CompletionsInOrder
  BY DEF ConfigInv, TypeOK, TransportTypeOK
<1>2. s \in Seq(Events) /\ Len(s) \in Nat /\ \A k \in 1..Len(s) : s[k] \in T
  <2>1. T \subseteq Events
    OBVIOUS
  <2>2. s \in Seq(T)
    OBVIOUS
  <2> HIDE DEF T
  <2> QED
    BY <2>1, <2>2, SeqMonotonic, ElementOfSeq
<1>3. /\ Len(evtq') = Len(evtq) + Len(s)
      /\ \A k \in 1..Len(evtq') : evtq'[k] = IF k <= Len(evtq) THEN evtq[k] ELSE s[k - Len(evtq)]
  BY <1>1, <1>2, ConcatProperties
<1>4. ASSUME NEW k \in 1..Len(evtq'), Succeeded(evtq'[k])
      PROVE  Earlier(evtq'[k].op) \cup {evtq'[k].op} \subseteq done'
  <2>1. CASE k <= Len(evtq)
    <3>1. k \in 1..Len(evtq) /\ evtq'[k] = evtq[k]
      BY <1>1, <1>3, <2>1
    <3> QED
      BY <1>1, <1>4, <3>1 DEF CompletionsInOrder
  <2>2. CASE k > Len(evtq)
    <3>1. k - Len(evtq) \in 1..Len(s) /\ evtq'[k] = s[k - Len(evtq)]
      BY <1>1, <1>2, <1>3, <2>2
    <3>2. evtq'[k] \in T
      BY <1>2, <3>1
    <3> QED
      BY <1>4, <3>2
  <2> QED
    BY <1>1, <1>2, <1>3, <2>1, <2>2
<1> QED
  BY <1>4 DEF CompletionsInOrder, Succeeded

\* What the host knows stays right when it does nothing and more gets configured.
LEMMA StillConfigured ==
  ASSUME ConfigInv, done \subseteq done', UNCHANGED hostVars
  PROVE  TablesConfigured' /\ ReadyMeansConfigured'
BY DEF ConfigInv, hostVars, Configured, TablesConfigured, ReadyMeansConfigured

LEMMA CommandTakenConfigInv == ConfigInv /\ CommandTaken => ConfigInv'
<1> SUFFICES ASSUME ConfigInv, UNCHANGED hostVars, CommandTaken, NEW c \in Waiting,
                    Configure(c) \/ TakeKey(c) \/ Refuse(c) \/ Begin(c) \/ Answer(c)
             PROVE  ConfigInv'
  BY DEF CommandTaken, TakeCommand
<1> DEFINE T == {e \in Events : Succeeded(e) => Earlier(e.op) \cup {e.op} \subseteq done'}
<1>0. TypeOK' /\ TypeOK
  BY NextTypeOK DEF ConfigInv, Next
<1>1. cmdq \in Seq(Commands) /\ cmdq # <<>> /\ c = cmdq[1] /\ c \in Commands /\ 1 \in 1..Len(cmdq)
  BY <1>0, HeadTailProperties DEF Waiting, TypeOK, TransportTypeOK
<1>2. c.op \in ConfigOps => Earlier(c.op) \subseteq done
  BY <1>1 DEF ConfigInv, CommandsInOrder
<1>3. done \subseteq done' /\ cmdq' = Tail(cmdq)
  BY DEF Configure, TakeKey, Refuse, Begin, Answer, Take
<1>4. CommandsInOrder'
  <2>1. /\ Len(cmdq') = Len(cmdq) - 1
        /\ \A k \in 1..Len(cmdq') : cmdq'[k] = cmdq[k + 1]
    BY <1>1, <1>3, HeadTailProperties
  <2>2. \A k \in 1..Len(cmdq') : k + 1 \in 1..Len(cmdq)
    BY <1>1, <2>1
  <2> QED
    BY <1>3, <2>1, <2>2 DEF ConfigInv, CommandsInOrder
<1>5. PICK s \in Seq(T) : evtq' = evtq \o s
  <2>1. ASSUME NEW e, NEW more \in Seq(T), e \in T, evtq' = evtq \o (<<e>> \o more)
        PROVE  \E s \in Seq(T) : evtq' = evtq \o s
    <3> HIDE DEF T
    <3>1. <<e>> \o more \in Seq(T)
      BY <2>1
    <3> QED
      BY <2>1, <3>1
  <2>2. <<>> \in Seq(T)
    BY EmptySeq
  <2>3. ASSUME NEW code \in {"cmd_status", "cmd_complete"}, NEW ok \in BOOLEAN, NEW n \in Grants,
               code = "cmd_complete" /\ ok /\ c.op \in ConfigOps => done' = done \cup {c.op}
        PROVE  [code |-> code, op |-> c.op, ok |-> ok, n |-> n] \in T
    <3>1. c.op \in Ops
      BY <1>1 DEF Commands
    <3>2. [code |-> code, op |-> c.op, ok |-> ok, n |-> n] \in Events
      BY <3>1, EventType
    <3> QED
      BY <1>2, <2>3, <3>2 DEF Succeeded
  <2>4. CASE Configure(c)
    <3>1. PICK ok \in BOOLEAN : /\ Take("cmd_complete", c.op, ok, <<>>)
                               /\ done' = IF ok THEN done \cup {c.op} ELSE done
      BY <2>4, ControllerAssumption DEF Configure
    <3>2. PICK n \in Grants :
            evtq' = evtq \o (<<[code |-> "cmd_complete", op |-> c.op, ok |-> ok, n |-> n]>> \o <<>>)
      BY <3>1 DEF Take, Send
    <3>3. [code |-> "cmd_complete", op |-> c.op, ok |-> ok, n |-> n] \in T
      BY <2>3, <3>1
    <3> HIDE DEF T
    <3> QED
      BY <2>1, <2>2, <3>2, <3>3
  <2>5. CASE TakeKey(c)
    <3>1. PICK n \in Grants :
            evtq' = evtq \o (<<[code |-> "cmd_complete", op |-> c.op, ok |-> TRUE, n |-> n]>> \o <<>>)
      BY <2>5 DEF TakeKey, Take, Send
    <3>2. c.op \notin ConfigOps
      BY <2>5 DEF TakeKey, KeyOps, ConfigOps
    <3>3. [code |-> "cmd_complete", op |-> c.op, ok |-> TRUE, n |-> n] \in T
      BY <2>3, <3>2
    <3> HIDE DEF T
    <3> QED
      BY <2>1, <2>2, <3>1, <3>3
  <2>6. ASSUME NEW ok \in BOOLEAN, NEW more \in Seq(T), Take("cmd_status", c.op, ok, more)
        PROVE  \E s \in Seq(T) : evtq' = evtq \o s
    <3>1. PICK n \in Grants :
            evtq' = evtq \o (<<[code |-> "cmd_status", op |-> c.op, ok |-> ok, n |-> n]>> \o more)
      BY <2>6 DEF Take, Send
    <3>2. [code |-> "cmd_status", op |-> c.op, ok |-> ok, n |-> n] \in T
      BY <2>3
    <3> HIDE DEF T
    <3> QED
      BY <2>1, <3>1, <3>2
  <2>7. CASE Refuse(c)
    BY <2>2, <2>6, <2>7 DEF Refuse
  <2>8. CASE Begin(c)
    BY <2>2, <2>6, <2>8 DEF Begin
  <2>9. CASE Answer(c)
    <3>1. PICK r \in asking :
            \/ Take("cmd_status", c.op, TRUE, <<>>)
            \/ Take("cmd_status", c.op, TRUE, <<ConnComplete(FALSE, FailHandle, r[1], r[2])>>)
      BY <2>9 DEF Answer
    <3>2. ConnComplete(FALSE, FailHandle, r[1], r[2]) \in Events
      BY <1>0, EventType, ControllerAssumption DEF TypeOK, CtlTypeOK
    <3>3. ConnComplete(FALSE, FailHandle, r[1], r[2]) \in T
      BY <3>2 DEF ConnComplete, Succeeded
    <3>4. <<ConnComplete(FALSE, FailHandle, r[1], r[2])>> \in Seq(T)
      BY <3>3, SingletonSeq
    <3> QED
      BY <2>2, <2>6, <3>1, <3>4
  <2> QED
    BY <2>4, <2>5, <2>7, <2>8, <2>9
<1>6. CompletionsInOrder'
  BY <1>3, <1>5, SentInOrder
<1>7. TablesConfigured' /\ ReadyMeansConfigured'
  BY <1>3, StillConfigured
<1> QED
  BY <1>0, <1>4, <1>6, <1>7 DEF ConfigInv

\* An event that completes no command of the initialisation keeps the order.
LEMMA PlainEventConfigInv ==
  ASSUME ConfigInv, TypeOK', UNCHANGED <<hostVars, cmdq, done>>,
         NEW e \in Events, ~Succeeded(e), evtq' = evtq \o <<e>>
  PROVE  ConfigInv'
<1>1. CommandsInOrder'
  BY DEF ConfigInv, CommandsInOrder
<1> DEFINE T == {x \in Events : Succeeded(x) => Earlier(x.op) \cup {x.op} \subseteq done'}
<1>2. <<e>> \in Seq(T)
  <2>1. e \in T
    OBVIOUS
  <2> HIDE DEF T
  <2> QED
    BY <2>1, SingletonSeq
<1>3. CompletionsInOrder'
  BY <1>2, SentInOrder
<1>4. TablesConfigured' /\ ReadyMeansConfigured'
  BY StillConfigured
<1> QED
  BY <1>1, <1>3, <1>4 DEF ConfigInv

LEMMA EventSentConfigInv == ConfigInv /\ EventSent => ConfigInv'
<1> SUFFICES ASSUME ConfigInv, EventSent PROVE ConfigInv'
  OBVIOUS
<1>0. TypeOK' /\ TypeOK /\ UNCHANGED hostVars
  BY NextTypeOK DEF ConfigInv, Next, EventSent
<1>1. ASSUME NEW e, e.code # "cmd_complete", Report(e)
      PROVE  ConfigInv'
  <2>1. UNCHANGED <<cmdq, done>> /\ evtq' = evtq \o <<e>>
    BY <1>1 DEF Report, Send
  <2>2. e \in Events
    <3>1. /\ Len(evtq') = Len(evtq) + 1 /\ evtq'[Len(evtq) + 1] = e /\ Len(evtq) \in Nat
      <4> DEFINE S == Events \cup {e}
      <4>1. evtq \in Seq(S) /\ e \in S
        BY <1>0, SeqMonotonic DEF TypeOK, TransportTypeOK
      <4> HIDE DEF S
      <4>2. <<e>> \in Seq(S) /\ Len(<<e>>) = 1 /\ <<e>>[1] = e
        BY <4>1, SingletonSeq
      <4> QED
        BY <2>1, <4>1, <4>2, ConcatProperties
    <3> QED
      BY <1>0, <3>1, ElementOfSeq DEF TypeOK, TransportTypeOK
  <2> QED
    BY <1>0, <1>1, <2>1, <2>2, PlainEventConfigInv DEF Succeeded
<1>2. PICK e : e.code # "cmd_complete" /\ Report(e)
  BY <1>0 DEF EventSent, Spontaneous, FindDevice, InquiryResult, EndInquiry, InquiryComplete, LinkUp,
         LinkFails, ConnComplete, LinkDown, Closed, RemoteLeaves, CloseFails, DisconnComplete,
         CallTimesOut, RemoteCalls, ConnRequest, AskKey, KeyRequest, ReportOther, OtherEvent
<1> QED
  BY <1>1, <1>2

LEMMA BootConfigInv == ConfigInv /\ Boot => ConfigInv'
<1> SUFFICES ASSUME ConfigInv, Boot PROVE ConfigInv'
  OBVIOUS
<1>1. TypeOK' /\ cmdq' = cmdq /\ done' = done /\ evtq \in Seq(Events)
  BY NextTypeOK DEF ConfigInv, Next, Boot, ctlVars, TypeOK, TransportTypeOK
<1>2. PICK k \in 0..Len(evtq) : evtq' = SubSeq(evtq, k + 1, Len(evtq))
  BY DEF Boot, Reopened
<1>3. CommandsInOrder'
  BY <1>1 DEF ConfigInv, CommandsInOrder
<1>4. CompletionsInOrder'
  <2>1. \A i \in 1..Len(evtq') : k + i \in 1..Len(evtq) /\ evtq'[i] = evtq[k + i]
    <3>1. Len(evtq) \in Nat /\ \A i \in (k + 1)..Len(evtq) : evtq[i] \in Events
      BY <1>1
    <3>2. /\ Len(evtq') = IF k + 1 <= Len(evtq) THEN Len(evtq) - (k + 1) + 1 ELSE 0
          /\ \A i \in 1..Len(evtq) - (k + 1) + 1 : evtq'[i] = evtq[(k + 1) + i - 1]
      BY <1>2, <3>1, SubSeqProperties
    <3>3. /\ k \in Int /\ \A i \in 1..Len(evtq') : /\ i \in 1..Len(evtq) - (k + 1) + 1
                                                /\ k + i \in 1..Len(evtq) /\ (k + 1) + i - 1 = k + i
      BY <3>1, <3>2
    <3> QED
      BY <3>2, <3>3
  <2> QED
    BY <1>1, <2>1 DEF ConfigInv, CompletionsInOrder, Succeeded
<1>5. TablesConfigured' /\ ReadyMeansConfigured'
  BY DEF Boot, dev_init, EmptyPeers, EmptyAcls, TablesConfigured, ReadyMeansConfigured
<1> QED
  BY <1>1, <1>3, <1>4, <1>5 DEF ConfigInv

LEMMA InitConfigInv == Init => ConfigInv
<1> SUFFICES ASSUME Init PROVE ConfigInv
  OBVIOUS
<1>1. CommandsInOrder /\ CompletionsInOrder
  BY DEF Init, TransportInit, CommandsInOrder, CompletionsInOrder
<1> QED
  BY <1>1, InitTypeOK DEF Init, DevInit, EmptyPeers, EmptyAcls, ConfigInv, TablesConfigured, ReadyMeansConfigured

LEMMA NextConfigInv == ConfigInv /\ [Next]_vars => ConfigInv'
<1> SUFFICES ASSUME ConfigInv, [Next]_vars PROVE ConfigInv'
  OBVIOUS
<1>0. TypeOK'
  BY NextTypeOK DEF ConfigInv
<1>1. CASE CreditGranted
  <2>1. PICK e \in Events : evtq' = evtq \o <<e>> /\ e.code = "cmd_status"
    BY <1>1, EventType DEF CreditGranted, CtlGrant, Send, CmdStatus
  <2> QED
    BY <1>0, <1>1, <2>1, PlainEventConfigInv DEF CreditGranted, CtlGrant, Succeeded
<1>2. CASE LineLost \/ UNCHANGED vars
  <2>1. UNCHANGED <<hostVars, cmdq, evtq, done>>
    BY <1>2 DEF LineLost, Hangup, vars, transportVars, ctlVars
  <2> QED
    BY <1>0, <2>1, StillConfigured DEF ConfigInv, CommandsInOrder, CompletionsInOrder, Succeeded
<1> QED
  BY <1>1, <1>2, HostConfigInv, CommandTakenConfigInv, EventSentConfigInv, BootConfigInv DEF Next

\* The initialisation is in step in every reachable state, across restarts of the
\* host: commands and completions come in order, and what the host knows is known
\* of a configured device.
THEOREM ConfigInvHolds == Spec => []ConfigInv
<1> QED
  BY InitConfigInv, NextConfigInv, PTL DEF Spec

\* The device is READY or in INQUIRY only when the controller has carried out the
\* whole initialisation.
THEOREM ReadyOnlyWhenConfigured == Spec => []ReadyMeansConfigured
<1>1. ConfigInv => ReadyMeansConfigured
  BY DEF ConfigInv
<1> QED
  BY <1>1, ConfigInvHolds, PTL

=============================================================================
