---------------------------- MODULE BtController ----------------------------
(***************************************************************************)
(* The Bluetooth controller at the other end of the line, with the remote  *)
(* devices behind it.  It is not part of the repository: this is what      *)
(* bt_hci.c takes for granted about it.  Commands are taken one at a time, *)
(* in order, each answered at once by a command status or completion that  *)
(* says how many more the controller takes; links, inquiries and requests  *)
(* live on in the controller whatever becomes of the host.                 *)
(***************************************************************************)
EXTENDS HciTransport, FiniteSets

CONSTANTS
  Grants,      \* what Num_HCI_Command_Packets may say
  Outcomes,    \* {TRUE} for a controller on which nothing fails
  FailHandle,  \* the handle a failed connection completion carries
  MaxEvents,   \* bound on the packets in flight when an event comes by itself
  MaxRemote    \* bound on what remote devices do

ASSUME ControllerAssumption ==
  /\ Grants \subseteq 0..255 /\ Grants \ {0} # {}
  /\ Outcomes \in (SUBSET BOOLEAN) \ {{}}
  /\ FailHandle \in Handles \cup {NoHandle}
  /\ MaxEvents \in Nat /\ MaxRemote \in Nat

VARIABLES
  done,       \* commands of the initialisation that were carried out
  links,      \* the device a handle stands for; ZeroAddr: the handle is free
  asking,     \* remote devices waiting for accept or reject, with their link type
  setup,      \* links being set up, with their type
  closing,    \* handles the host has asked to disconnect
  inquiring,  \* an inquiry is going on
  owed,       \* the last credit report said 0: another one must follow
  remote      \* what remote devices have done so far

ctlVars == <<done, links, asking, setup, closing, inquiring, owed, remote>>

Live == {h \in Handles : links[h] # ZeroAddr}
Linked == {links[h] : h \in Live}
Calls == Addrs \X LinkTypes

CtlTypeOK ==
  /\ done \subseteq ConfigOps
  /\ links \in [Handles -> Addrs \cup {ZeroAddr}]
  /\ asking \subseteq Calls /\ setup \subseteq Calls
  /\ closing \subseteq Handles
  /\ inquiring \in BOOLEAN /\ owed \in BOOLEAN
  /\ remote \in 0..MaxRemote

CtlInit ==
  /\ done = {} /\ links = [h \in Handles |-> ZeroAddr]
  /\ asking = {} /\ setup = {} /\ closing = {}
  /\ inquiring = FALSE /\ owed = FALSE /\ remote = 0

-----------------------------------------------------------------------------
(* Commands *)

Send(s) == evtq' = evtq \o s

\* The next command is taken: a command event with a new number of credits,
\* and the events in more right behind it.
Take(code, op, ok, more) ==
  /\ line /\ cmdq' = Tail(cmdq) /\ UNCHANGED line
  /\ \E n \in Grants : /\ Send(<<[code |-> code, op |-> op, ok |-> ok, n |-> n]>> \o more)
                       /\ owed' = (n = 0)
  /\ UNCHANGED remote

Configure(c) ==
  /\ c.op \in ConfigOps
  /\ \E ok \in Outcomes :
       /\ Take("cmd_complete", c.op, ok, <<>>)
       /\ done' = IF ok THEN done \cup {c.op} ELSE done
  /\ UNCHANGED <<links, asking, setup, closing, inquiring>>

TakeKey(c) ==
  /\ c.op \in KeyOps
  /\ Take("cmd_complete", c.op, TRUE, <<>>)
  /\ UNCHANGED <<done, links, asking, setup, closing, inquiring>>

\* A command that is refused: its status says so and nothing else happens.
Disallowed(c) ==
  CASE c.op = "inquiry" -> inquiring
    [] c.op = "create_conn" -> c.addr \notin Addrs \ (Linked \cup {s[1] : s \in setup \cup asking})
    [] c.op = "disconnect" -> c.handle \notin Live \ closing
    [] c.op \in {"accept_conn_req", "reject_conn_req"} -> c.addr \notin {r[1] : r \in asking}
    [] OTHER -> FALSE

Refuse(c) ==
  /\ c.op \notin ConfigOps \cup KeyOps
  /\ Disallowed(c) \/ FALSE \in Outcomes
  /\ Take("cmd_status", c.op, FALSE, <<>>)
  /\ UNCHANGED <<done, links, asking, setup, closing, inquiring>>

Begin(c) ==
  /\ c.op \in {"inquiry", "create_conn", "disconnect"} /\ ~Disallowed(c)
  /\ Take("cmd_status", c.op, TRUE, <<>>)
  /\ inquiring' = (inquiring \/ c.op = "inquiry")
  /\ setup' = IF c.op = "create_conn" THEN setup \cup {<<c.addr, "ACL">>} ELSE setup
  /\ closing' = IF c.op = "disconnect" THEN closing \cup {c.handle} ELSE closing
  /\ UNCHANGED <<done, links, asking>>

Answer(c) ==
  /\ c.op \in {"accept_conn_req", "reject_conn_req"} /\ ~Disallowed(c)
  /\ \E r \in asking :
       /\ r[1] = c.addr
       /\ asking' = asking \ {r}
       /\ IF c.op = "accept_conn_req"
            THEN /\ setup' = setup \cup {r}
                 /\ Take("cmd_status", c.op, TRUE, <<>>)
            ELSE /\ Take("cmd_status", c.op, TRUE,
                         <<ConnComplete(FALSE, FailHandle, r[1], r[2])>>)
                 /\ UNCHANGED setup
  /\ UNCHANGED <<done, links, closing, inquiring>>

Waiting == IF cmdq = <<>> THEN {} ELSE {Head(cmdq)}

TakeCommand == \E c \in Waiting : Configure(c) \/ TakeKey(c) \/ Refuse(c) \/ Begin(c) \/ Answer(c)

\* A command status for opcode 0, when there is room again.
CtlGrant ==
  /\ line /\ owed
  /\ \E n \in Grants \ {0} : Send(<<CmdStatus("none", TRUE, n)>>)
  /\ owed' = FALSE
  /\ UNCHANGED <<cmdq, line, done, links, asking, setup, closing, inquiring, remote>>

-----------------------------------------------------------------------------
(* Events that come by themselves *)

Report(e) ==
  /\ line /\ Len(evtq) + Len(cmdq) < MaxEvents
  /\ Send(<<e>>)
  /\ UNCHANGED <<cmdq, line, done, owed>>

FindDevice(a) ==
  /\ inquiring /\ Report(InquiryResult(a))
  /\ UNCHANGED <<links, asking, setup, closing, inquiring, remote>>

EndInquiry ==
  /\ inquiring /\ inquiring' = FALSE
  /\ \E ok \in Outcomes : Report(InquiryComplete(ok))
  /\ UNCHANGED <<links, asking, setup, closing, remote>>

LinkUp(s, h) ==
  /\ s \in setup /\ setup' = setup \ {s}
  /\ h \notin Live /\ links' = [links EXCEPT ![h] = s[1]]
  /\ Report(ConnComplete(TRUE, h, s[1], s[2]))
  /\ UNCHANGED <<asking, closing, inquiring, remote>>

LinkFails(s) ==
  /\ FALSE \in Outcomes
  /\ s \in setup /\ setup' = setup \ {s}
  /\ Report(ConnComplete(FALSE, FailHandle, s[1], s[2]))
  /\ UNCHANGED <<links, asking, closing, inquiring, remote>>

LinkDown(h) ==
  /\ links' = [links EXCEPT ![h] = ZeroAddr] /\ closing' = closing \ {h}
  /\ Report(DisconnComplete(TRUE, h))
  /\ UNCHANGED <<asking, setup, inquiring>>

Closed(h) == h \in closing /\ LinkDown(h) /\ UNCHANGED remote

CloseFails(h) ==
  /\ FALSE \in Outcomes
  /\ h \in closing /\ closing' = closing \ {h}
  /\ Report(DisconnComplete(FALSE, h))
  /\ UNCHANGED <<links, asking, setup, inquiring, remote>>

\* Nobody answered the request in time (or the answer named another device).
CallTimesOut(r) ==
  /\ r \in asking /\ asking' = asking \ {r}
  /\ Report(ConnComplete(FALSE, FailHandle, r[1], r[2]))
  /\ UNCHANGED <<links, setup, closing, inquiring, remote>>

RemoteActs == remote < MaxRemote /\ remote' = remote + 1

\* A device is reached by others only while page scan is enabled; a voice link
\* comes on top of a data link.
RemoteCalls(r) ==
  /\ "write_scan_enable" \in done
  /\ r[1] \notin {s[1] : s \in setup \cup asking}
  /\ (r[2] = "SCO") <=> (r[1] \in Linked)
  /\ RemoteActs /\ asking' = asking \cup {r}
  /\ Report(ConnRequest(r[1], r[2]))
  /\ UNCHANGED <<links, setup, closing, inquiring>>

RemoteLeaves(h) == h \in Live /\ LinkDown(h) /\ RemoteActs

\* Authentication asks for a key before a link is up, or while it is.
AskKey(code, a) ==
  /\ a \in Linked \cup {s[1] : s \in setup}
  /\ RemoteActs /\ Report(KeyRequest(code, a))
  /\ UNCHANGED <<links, asking, setup, closing, inquiring>>

ReportOther ==
  /\ RemoteActs /\ Report(OtherEvent)
  /\ UNCHANGED <<links, asking, setup, closing, inquiring>>

Spontaneous ==
  \/ \E a \in Addrs : FindDevice(a)
  \/ EndInquiry
  \/ \E s \in setup : LinkFails(s) \/ \E h \in Handles : LinkUp(s, h)
  \/ \E h \in Handles : Closed(h) \/ CloseFails(h) \/ RemoteLeaves(h)
  \/ \E r \in asking : CallTimesOut(r)
  \/ \E r \in Calls : RemoteCalls(r)
  \/ \E code \in {"pincode_req", "link_key_req"}, a \in Addrs : AskKey(code, a)
  \/ ReportOther

Controller == TakeCommand \/ CtlGrant \/ Spontaneous
=============================================================================
