------------------------------- MODULE BtHci --------------------------------
(***************************************************************************)
(* bt_hci.c: the main loop bt_hci_main() and the handlers of the events it *)
(* reads, with the callbacks of the program on top of them (test.c, or a   *)
(* client that installs more of bt_callbacks_t).                           *)
(*                                                                         *)
(* The host is one thread.  Between two reads it runs without              *)
(* interruption, so an action is the top of the loop (from `while' to the  *)
(* blocking read) or what one received packet makes the code do (from the  *)
(* read to the end of the loop body).  pc says which comes next.           *)
(***************************************************************************)
EXTENDS BtDev

CONSTANT Installed   \* the fields of bt_callbacks_t that are not NULL

ASSUME CallbackAssumption ==
  Installed \subseteq {"cb_ready", "cb_peer_found", "cb_conn_req",
                       "cb_pincode_req", "cb_link_key_req", "cb_idle"}

VARIABLE pc   \* where bt_hci_main is; "returned" and "crashed" are final

hostVars == <<dev_state, ncmds, peers, acls, pc>>

HciTypeOK == DevTypeOK /\ pc \in {"top", "read", "returned", "crashed"}

Running == pc \in {"top", "read"}

-----------------------------------------------------------------------------
(* The top of the loop *)

\* A client may put a device it looks for in the peer table when it is called
\* as cb_idle: the state SHOULD_CONNECT is what the loop looks for next.
Register(p, a) == [peers EXCEPT ![p] = [state |-> "SHOULD_CONNECT", bd_addr |-> a]]

cb_idle ==
  {peers} \cup {Register(p, a) : p \in IF "cb_idle" \in Installed THEN get_free_peer ELSE {},
                                a \in {a \in Addrs : get_peer_by_bd_addr(a) = {}}}

LoopReset ==
  /\ pc = "top" /\ ncmds > 0 /\ dev_state = "RESET"
  /\ dev_state' = "INITIALIZING"
  /\ flush_hci(1, Cmd("set_event_flt"))
  /\ pc' = "read"
  /\ UNCHANGED <<peers, acls, evtq, line>>

LoopReady ==
  /\ pc = "top" /\ ncmds > 0 /\ dev_state = "READY"
  /\ \E table \in cb_idle :
       LET wanted == First({p \in Peers : table[p].state = "SHOULD_CONNECT"}) IN
         /\ peers' = table
         /\ IF wanted = {}
              THEN UNCHANGED <<ncmds, cmdq>>
              ELSE \E p \in wanted : flush_hci(ncmds, CmdTo("create_conn", table[p].bd_addr))
  /\ pc' = "read"
  /\ UNCHANGED <<dev_state, acls, evtq, line>>

\* No credit, or a state in which the loop has nothing to send.
LoopWait ==
  /\ pc = "top"
  /\ ncmds = 0 \/ dev_state \notin {"RESET", "READY"}
  /\ pc' = "read"
  /\ UNCHANGED <<devVars, transportVars>>

\* read() fails: dev_evt_timeout, and the loop goes round again.
ReadFails ==
  /\ pc = "read" /\ ~line
  /\ pc' = "top"
  /\ UNCHANGED <<devVars, transportVars>>

Incoming == IF evtq = <<>> THEN {} ELSE {Head(evtq)}

\* The packet e is read and dispatched on its code.
Got(e, codes) == pc = "read" /\ e.code \in codes /\ Receive

-----------------------------------------------------------------------------
(* Credits and the initialisation *)

\* A handler that overlooks the reports that come without a command.
CmdStatusKeepsCredits(e) ==
  /\ Got(e, {"cmd_status"})
  /\ ncmds' = IF e.op = "none" THEN ncmds ELSE e.n
  /\ pc' = "top"
  /\ UNCHANGED <<dev_state, peers, acls, cmdq>>

\* A handler that takes a report of credits in INITIALIZING for a reason to try again.
CmdStatusTriesAgain(e) ==
  /\ Got(e, {"cmd_status"})
  /\ IF dev_state = "INITIALIZING" THEN flush_hci(e.n, Cmd("set_event_flt"))
                                   ELSE ncmds' = e.n /\ UNCHANGED cmdq
  /\ pc' = "top"
  /\ UNCHANGED <<dev_state, peers, acls>>

\* The status byte is read and dropped.
OnCmdStatus(e) ==
  /\ Got(e, {"cmd_status"})
  /\ ncmds' = e.n
  /\ pc' = "top"
  /\ UNCHANGED <<dev_state, peers, acls, cmdq>>

\* A loop in which one step of the initialisation was lost.
NextConfigSkippingAuth(op) ==
  CASE op = "set_event_flt" -> "change_local_name"
    [] op = "change_local_name" -> "write_scan_enable"
    [] op = "write_auth_enable" -> "write_scan_enable"

\* What the loop sends when the given command of the initialisation succeeded.
NextConfig(op) ==
  CASE op = "set_event_flt" -> "change_local_name"
    [] op = "change_local_name" -> "write_auth_enable"
    [] op = "write_auth_enable" -> "write_scan_enable"

\* A completion of the initialisation counts in INITIALIZING only.
Configuring(e) == dev_state = "INITIALIZING" /\ e.op \in ConfigOps

OnCompleteIgnored(e) ==
  /\ Got(e, {"cmd_complete"}) /\ ~Configuring(e)
  /\ ncmds' = e.n
  /\ pc' = "top"
  /\ UNCHANGED <<dev_state, peers, acls, cmdq>>

OnConfigFailed(e) ==
  /\ Got(e, {"cmd_complete"}) /\ Configuring(e) /\ ~e.ok
  /\ ncmds' = e.n
  /\ pc' = "returned"
  /\ UNCHANGED <<dev_state, peers, acls, cmdq>>

OnConfigStep(e) ==
  /\ Got(e, {"cmd_complete"}) /\ Configuring(e) /\ e.ok /\ e.op # "write_scan_enable"
  /\ flush_hci(e.n, Cmd(NextConfig(e.op)))
  /\ pc' = "top"
  /\ UNCHANGED <<dev_state, peers, acls>>

\* READY, or what unix_cb_ready() makes of it: an inquiry at once.
OnConfigured(e) ==
  /\ Got(e, {"cmd_complete"}) /\ Configuring(e) /\ e.ok /\ e.op = "write_scan_enable"
  /\ IF "cb_ready" \in Installed
       THEN dev_state' = "INQUIRY" /\ flush_hci(e.n, Cmd("inquiry"))
       ELSE dev_state' = "READY" /\ ncmds' = e.n /\ UNCHANGED cmdq
  /\ pc' = "top"
  /\ UNCHANGED <<peers, acls>>

-----------------------------------------------------------------------------
(* Inquiry *)

\* The result is stored in the first EMPTY entry, which stays EMPTY.
OnInquiryResult(e) ==
  /\ Got(e, {"inquiry_result"})
  /\ peers' = [p \in Peers |-> IF p \in get_free_peer THEN [peers[p] EXCEPT !.bd_addr = e.addr]
                                                      ELSE peers[p]]
  /\ pc' = "top"
  /\ UNCHANGED <<dev_state, ncmds, acls, cmdq>>

OnInquiryIgnored(e) ==
  /\ Got(e, {"inquiry_complete"}) /\ dev_state # "INQUIRY"
  /\ pc' = "top"
  /\ UNCHANGED <<devVars, cmdq>>

\* unix_cb_peer_found() connects to every peer that was found, and asks for
\* another inquiry when it is called without one.
OnInquiryComplete(e) ==
  LET found == {p \in Peers : peers[p].state = "FOUND"} IN
    /\ Got(e, {"inquiry_complete"}) /\ dev_state = "INQUIRY" /\ e.ok
    /\ IF "cb_peer_found" \in Installed
         THEN /\ peers' = [p \in Peers |-> IF p \in found THEN [peers[p] EXCEPT !.state = "SHOULD_CONNECT"]
                                                          ELSE peers[p]]
              /\ IF found = {} THEN dev_state' = "INQUIRY" /\ flush_hci(ncmds, Cmd("inquiry"))
                               ELSE dev_state' = "READY" /\ UNCHANGED <<ncmds, cmdq>>
         ELSE dev_state' = "READY" /\ UNCHANGED <<ncmds, peers, cmdq>>
    /\ pc' = "top"
    /\ UNCHANGED acls

\* The callback runs first: the INQUIRY it sets is overwritten with READY.
OnInquiryFailed(e) ==
  /\ Got(e, {"inquiry_complete"}) /\ dev_state = "INQUIRY" /\ ~e.ok
  /\ IF "cb_peer_found" \in Installed THEN flush_hci(ncmds, Cmd("inquiry"))
                                      ELSE UNCHANGED <<ncmds, cmdq>>
  /\ dev_state' = "READY"
  /\ pc' = "top"
  /\ UNCHANGED <<peers, acls>>

-----------------------------------------------------------------------------
(* Connections *)

\* The entry of the requester, or a free one; a free one is wiped and never
\* given the requester's address.
RequestPeer(a) == IF get_peer_by_bd_addr(a) # {} THEN get_peer_by_bd_addr(a) ELSE get_free_peer
RequestTable(a) == IF get_peer_by_bd_addr(a) # {} THEN peers ELSE WipePeer(get_free_peer)

OnConnRequestAccepted(e) ==
  LET table == RequestTable(e.addr) IN
    /\ Got(e, {"conn_request"})
    /\ "cb_conn_req" \in Installed
    /\ \E p \in RequestPeer(e.addr) :
         /\ flush_hci(ncmds, CmdTo("accept_conn_req", table[p].bd_addr))
         /\ peers' = [table EXCEPT ![p].state = "CONNECTING"]
    /\ dev_state' = "CONNECTING"
    /\ pc' = "top"
    /\ UNCHANGED acls

\* Without an entry or a callback the address is read once more, from the
\* bytes that follow it.
OnConnRequestRejected(e) ==
  LET table == RequestTable(e.addr)
      asked == IF "cb_conn_req" \in Installed THEN RequestPeer(e.addr) ELSE {}
  IN /\ Got(e, {"conn_request"})
     /\ IF asked = {}
          THEN flush_hci(ncmds, CmdTo("reject_conn_req", JunkAddr))
          ELSE \E p \in asked : flush_hci(ncmds, CmdTo("reject_conn_req", table[p].bd_addr))
     /\ peers' = table
     /\ pc' = "top"
     /\ UNCHANGED <<dev_state, acls>>

\* Another link of a device that is not in the table, or not an ACL link, is
\* closed again, whatever the status of the event.
OnUnwantedConnection(e) ==
  /\ Got(e, {"conn_complete"})
  /\ get_peer_by_bd_addr(e.addr) = {} \/ e.link # "ACL"
  /\ flush_hci(ncmds, Disconnect(e.handle))
  /\ dev_state' = "DISCONNECTING"
  /\ pc' = "top"
  /\ UNCHANGED <<peers, acls>>

\* The state of the peer entry is left as it was.
OnConnected(e) ==
  /\ Got(e, {"conn_complete"}) /\ e.ok /\ e.link = "ACL"
  /\ \E p \in get_peer_by_bd_addr(e.addr), i \in get_free_acl :
       acls' = [acls EXCEPT ![i] = [state |-> "CONNECTED", handle |-> e.handle, peer |-> p]]
  /\ dev_state' = "READY"
  /\ pc' = "top"
  /\ UNCHANGED <<ncmds, peers, cmdq>>

OnNoFreeAcl(e) ==
  /\ Got(e, {"conn_complete"}) /\ e.ok /\ e.link = "ACL"
  /\ get_peer_by_bd_addr(e.addr) # {} /\ get_free_acl = {}
  /\ flush_hci(ncmds, Disconnect(e.handle))
  /\ pc' = "top"
  /\ UNCHANGED <<dev_state, peers, acls>>

OnConnectFailed(e) ==
  /\ Got(e, {"conn_complete"}) /\ ~e.ok /\ e.link = "ACL"
  /\ get_peer_by_bd_addr(e.addr) # {}
  /\ dev_state' = "READY"
  /\ pc' = "top"
  /\ UNCHANGED <<ncmds, peers, acls, cmdq>>

\* A handler that forgets to release the entry.
FreeAclKeepingEntry(e) == UNCHANGED acls

\* The entry of the handle is released.
FreeAcl(e) == \E i \in get_acl_by_handle(e.handle) : acls' = [acls EXCEPT ![i].state = "EMPTY"]

\* A handler that takes a failed disconnection for an end.
OnDisconnectedAtAnyRate(e) ==
  /\ Got(e, {"disconn_complete"})
  /\ get_acl_by_handle(e.handle) # {}
  /\ FreeAcl(e)
  /\ dev_state' = "READY"
  /\ pc' = "top"
  /\ UNCHANGED <<ncmds, peers, cmdq>>

OnDisconnected(e) ==
  /\ Got(e, {"disconn_complete"}) /\ e.ok
  /\ get_acl_by_handle(e.handle) # {}
  /\ FreeAcl(e)
  /\ dev_state' = "READY"
  /\ pc' = "top"
  /\ UNCHANGED <<ncmds, peers, cmdq>>

\* acl is NULL and acl->state is assigned: the process dies.
OnDisconnectedUnknown(e) ==
  /\ Got(e, {"disconn_complete"}) /\ e.ok
  /\ get_acl_by_handle(e.handle) = {}
  /\ pc' = "crashed"
  /\ UNCHANGED <<devVars, cmdq>>

OnDisconnectFailed(e) ==
  /\ Got(e, {"disconn_complete"}) /\ ~e.ok
  /\ flush_hci(ncmds, Disconnect(e.handle))
  /\ dev_state' = "DISCONNECTING"
  /\ pc' = "top"
  /\ UNCHANGED <<peers, acls>>

-----------------------------------------------------------------------------
(* Keys *)

KeyCallback(code) == IF code = "pincode_req" THEN "cb_pincode_req" ELSE "cb_link_key_req"
KeyReply(code) == IF code = "pincode_req" THEN "pincode_reply" ELSE "link_key_reply"
KeyReplyNeg(code) == IF code = "pincode_req" THEN "pincode_reply_neg" ELSE "link_key_reply_neg"

\* A known peer gets what the callback returns, which may be NULL.
OnKeyRequest(e) ==
  LET asked == get_peer_by_bd_addr(e.addr) # {} /\ KeyCallback(e.code) \in Installed IN
    /\ Got(e, {"pincode_req", "link_key_req"})
    /\ \/ /\ asked
          /\ flush_hci(ncmds, CmdTo(KeyReply(e.code), e.addr))
       \/ flush_hci(ncmds, CmdTo(KeyReplyNeg(e.code), e.addr))
    /\ pc' = "top"
    /\ UNCHANGED <<dev_state, peers, acls>>

\* Every other packet: parsed, and nothing changes.
OnOther(e) ==
  /\ Got(e, {"other"})
  /\ pc' = "top"
  /\ UNCHANGED <<devVars, cmdq>>

-----------------------------------------------------------------------------
LoopTop == LoopReset \/ LoopReady \/ LoopWait

OnCmdEvent(e) == OnCmdStatus(e) \/ OnCompleteIgnored(e) \/ OnConfigFailed(e)
                 \/ OnConfigStep(e) \/ OnConfigured(e)

OnInquiryEvent(e) == OnInquiryResult(e) \/ OnInquiryIgnored(e)
                     \/ OnInquiryComplete(e) \/ OnInquiryFailed(e)

OnConnEvent(e) == OnConnRequestAccepted(e) \/ OnConnRequestRejected(e)
                  \/ OnUnwantedConnection(e) \/ OnConnected(e) \/ OnNoFreeAcl(e)
                  \/ OnConnectFailed(e) \/ OnDisconnected(e)
                  \/ OnDisconnectedUnknown(e) \/ OnDisconnectFailed(e)

unpack_hci == \E e \in Incoming :
                OnCmdEvent(e) \/ OnInquiryEvent(e) \/ OnConnEvent(e) \/ OnKeyRequest(e) \/ OnOther(e)

bt_hci_main == LoopTop \/ ReadFails \/ unpack_hci
=============================================================================
