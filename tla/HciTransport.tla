---------------------------- MODULE HciTransport ----------------------------
(***************************************************************************)
(* The HCI packets that cross the serial line between the host stack and   *)
(* the Bluetooth controller, and the line itself (serial_unix.c).          *)
(*                                                                         *)
(* A packet is one element of a FIFO queue: the line neither loses nor     *)
(* reorders bytes while it is up (HCI UART transport, RTS/CTS).  What a    *)
(* packet carries is cut down to what a handler branches on: addresses and *)
(* handles are model values, a status is a Boolean (HCI_SUCCESS or not).   *)
(***************************************************************************)
EXTENDS Integers, Sequences

CONSTANTS
  Addrs,      \* BD_ADDRs of the remote devices
  ZeroAddr,   \* 00:00:00:00:00:00, what a cleared peer entry holds
  JunkAddr,   \* six bytes read past the address of an event: no device's
  Handles,    \* connection handles the controller hands out
  NoHandle    \* a handle field no connection has

ASSUME TransportAssumption ==
  /\ ZeroAddr \notin Addrs /\ JunkAddr \notin Addrs /\ ZeroAddr # JunkAddr
  /\ NoHandle \notin Handles

VARIABLES
  cmdq,   \* commands written by the host, not yet taken by the controller
  evtq,   \* events sent by the controller, not yet read by the host
  line    \* FALSE when the tty was not opened or has hung up: read() and write() fail

transportVars == <<cmdq, evtq, line>>

-----------------------------------------------------------------------------
(* Commands: the bt_dev_pack_*() the library and test.c send *)

\* The four commands of the initialisation, in the order bt_hci_main sends them.
ConfigOps == {"set_event_flt", "change_local_name",
              "write_auth_enable", "write_scan_enable"}

KeyOps == {"pincode_reply", "pincode_reply_neg",
           "link_key_reply", "link_key_reply_neg"}

Ops == ConfigOps \cup KeyOps \cup
       {"inquiry", "create_conn", "disconnect", "accept_conn_req", "reject_conn_req"}

Commands == [op : Ops, addr : Addrs \cup {ZeroAddr, JunkAddr},
             handle : Handles \cup {NoHandle}]

\* A command without an address or a handle among its parameters.
Cmd(op) == [op |-> op, addr |-> ZeroAddr, handle |-> NoHandle]
CmdTo(op, a) == [op |-> op, addr |-> a, handle |-> NoHandle]
Disconnect(h) == [op |-> "disconnect", addr |-> ZeroAddr, handle |-> h]

-----------------------------------------------------------------------------
(* Events: the BTEVT_* codes bt_hci_unpack_evt() acts on *)

LinkTypes == {"SCO", "ACL"}

\* op = "none" is opcode 0: the event only reports credits.
CmdEvents == [code : {"cmd_status", "cmd_complete"}, op : Ops \cup {"none"},
              ok : BOOLEAN, n : 0..255]
InquiryResults == [code : {"inquiry_result"}, addr : Addrs]
InquiryCompletes == [code : {"inquiry_complete"}, ok : BOOLEAN]
ConnRequests == [code : {"conn_request"}, addr : Addrs, link : LinkTypes]
ConnCompletes == [code : {"conn_complete"}, ok : BOOLEAN, addr : Addrs,
                  handle : Handles \cup {NoHandle}, link : LinkTypes]
DisconnCompletes == [code : {"disconn_complete"}, ok : BOOLEAN,
                     handle : Handles \cup {NoHandle}]
KeyRequests == [code : {"pincode_req", "link_key_req"}, addr : Addrs]
OtherEvents == [code : {"other"}]

Events == CmdEvents \cup InquiryResults \cup InquiryCompletes \cup ConnRequests
          \cup ConnCompletes \cup DisconnCompletes \cup KeyRequests \cup OtherEvents

CmdStatus(op, ok, n) == [code |-> "cmd_status", op |-> op, ok |-> ok, n |-> n]
CmdComplete(op, ok, n) == [code |-> "cmd_complete", op |-> op, ok |-> ok, n |-> n]
InquiryResult(a) == [code |-> "inquiry_result", addr |-> a]
InquiryComplete(ok) == [code |-> "inquiry_complete", ok |-> ok]
ConnRequest(a, l) == [code |-> "conn_request", addr |-> a, link |-> l]
ConnComplete(ok, h, a, l) ==
  [code |-> "conn_complete", ok |-> ok, addr |-> a, handle |-> h, link |-> l]
DisconnComplete(ok, h) == [code |-> "disconn_complete", ok |-> ok, handle |-> h]
KeyRequest(code, a) == [code |-> code, addr |-> a]
OtherEvent == [code |-> "other"]

IsCmdEvent(e) == e.code \in {"cmd_status", "cmd_complete"}

-----------------------------------------------------------------------------
TransportTypeOK ==
  /\ cmdq \in Seq(Commands)
  /\ evtq \in Seq(Events)
  /\ line \in BOOLEAN

\* bt_serial_init() opens the tty, or fails: the file is not there, or is no tty.
TransportInit == cmdq = <<>> /\ evtq = <<>> /\ line \in BOOLEAN

\* bt_serial_send(): the bytes of one packet, or an error when the tty is gone.
\* Nobody looks at its result.
bt_serial_send(c) == cmdq' = IF line THEN Append(cmdq, c) ELSE cmdq

\* A read that delivers the next packet whole.
Receive == line /\ evtq # <<>> /\ evtq' = Tail(evtq) /\ UNCHANGED line

\* A restarted host finds the commands of its predecessor sent, and of the
\* events only those that come in after tcsetattr(TCSAFLUSH) threw the input away.
Reopened == \E k \in 0..Len(evtq) : evtq' = SubSeq(evtq, k + 1, Len(evtq))

Hangup == line /\ line' = FALSE /\ UNCHANGED <<cmdq, evtq>>
=============================================================================
