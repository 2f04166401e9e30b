--------------------------- MODULE OlderPrograms ---------------------------
(***************************************************************************)
(* The two programs written for an earlier interface of the stack, in      *)
(* which the program calls bt_dev_read_hci(dev) and looks at the event it  *)
(* returns: bt-mouse.c, which finds a device and connects to it, and       *)
(* stack-avr.c up to its main loop.  Both send the commands of a script    *)
(* and wait after each for its completion; neither looks at the credits.   *)
(* Neither compiles against the present bt_dev.h; of the earlier interface *)
(* only what the two programs use is modelled.                             *)
(***************************************************************************)
EXTENDS BtController

CONSTANTS
  NumPeers,   \* NUM_PEERS
  Programs,   \* the programs looked at: "mouse", "avr"
  MaxStarts   \* bound on the calls of bt_serial_init

ASSUME OlderAssumption ==
  NumPeers \in Nat \ {0} /\ Programs \subseteq {"mouse", "avr"} /\ MaxStarts \in Nat

VARIABLES
  program,   \* the program at this end of the line
  pc,        \* the function it is in; "failed" is between two attempts of the AVR program
  step,      \* the command of the script whose completion it waits for
  peers,     \* peers[0 .. num_peers - 1]
  opened,    \* bt_serial_init() succeeded
  starts,    \* calls of bt_serial_init()
  refused    \* the mouse was told that its inquiry was refused, and passed over it

programVars == <<program, pc, step, peers, opened, starts, refused>>
olderVars == <<transportVars, ctlVars, programVars>>

OlderOps == {"reset", "set_baudrate", "read_local_features"}

\* A command, and the command of whose success the event it waits for tells.
Step(op) == [op |-> op, awaits |-> op]

MouseScript == <<Step("set_event_flt"), Step("change_local_name"), Step("read_local_features"),
                 Step("write_auth_enable"), Step("write_scan_enable")>>

\* After write_auth_enable it waits for the completion of write_scan_enable.
AvrScript == <<Step("set_baudrate"), Step("set_event_flt"), Step("change_local_name"),
               [op |-> "write_auth_enable", awaits |-> "write_scan_enable"],
               Step("write_scan_enable")>>

Script == IF program = "mouse" THEN MouseScript ELSE AvrScript

OlderInit ==
  /\ TransportInit /\ CtlInit
  /\ program \in Programs /\ pc = "off" /\ step = 1
  /\ program = "avr" => line
  /\ peers = <<>> /\ opened = FALSE /\ starts = 0 /\ refused = FALSE

-----------------------------------------------------------------------------
(* The controller takes three more commands than those of bt_hci_main *)

TakeOlder(c) ==
  /\ c.op \in OlderOps
  /\ \E ok \in Outcomes :
       /\ Take("cmd_complete", c.op, ok, <<>>)
       /\ IF c.op = "reset" /\ ok
            THEN /\ done' = {} /\ links' = [h \in Handles |-> ZeroAddr]
                 /\ asking' = {} /\ setup' = {} /\ closing' = {} /\ inquiring' = FALSE
            ELSE /\ done' = IF ok THEN done \cup {c.op} ELSE done
                 /\ UNCHANGED <<links, asking, setup, closing, inquiring>>

CommandAnswered == (TakeCommand \/ \E c \in Waiting : TakeOlder(c)) /\ UNCHANGED programVars

EventComes == (CtlGrant \/ Spontaneous) /\ UNCHANGED programVars

\* The UART of the AVR is always there.
LineDown == program = "mouse" /\ Hangup /\ UNCHANGED <<ctlVars, programVars>>

-----------------------------------------------------------------------------
(* unix_init_dev() and avr_init_dev() *)

SendStepUnflushed(i) == pc' = "init" /\ step' = i /\ UNCHANGED cmdq

SendStep(i) == pc' = "init" /\ step' = i /\ bt_serial_send(Cmd(Script[i].op))

BeginInquiry ==
  /\ pc' = "inquiry" /\ peers' = <<>> /\ refused' = FALSE
  /\ bt_serial_send(Cmd("inquiry"))

\* The program is started, or killed and started again; or the AVR program begins
\* its next attempt.  unix_init_dev() returns EXIT_FAILURE, which is not 0, when the
\* tty cannot be opened: main goes on as if all had been sent.
Start ==
  /\ starts < MaxStarts /\ starts' = starts + 1
  /\ opened' = line
  /\ IF line THEN Reopened /\ SendStep(1) /\ peers' = <<>> /\ refused' = FALSE
             ELSE BeginInquiry /\ UNCHANGED <<evtq, step>>
  /\ UNCHANGED <<line, program>>

AwaitedWhateverStatus(e) == e.code = "cmd_complete" /\ e.op = Script[step].awaits

Awaited(e) == e.code = "cmd_complete" /\ e.op = Script[step].awaits /\ e.ok

StepSucceeds ==
  /\ pc = "init" /\ Receive /\ Awaited(Head(evtq))
  /\ \/ step < Len(Script) /\ SendStep(step + 1) /\ UNCHANGED <<peers, refused>>
     \/ step = Len(Script) /\ program = "mouse" /\ BeginInquiry /\ UNCHANGED step
     \/ /\ step = Len(Script) /\ program = "avr" /\ pc' = "main"
        /\ UNCHANGED <<cmdq, step, peers, refused>>
  /\ UNCHANGED <<program, opened, starts>>

\* Any other event ends the initialisation; the AVR program asks for a reset, does
\* not wait for its completion and begins again.
StepFails ==
  /\ pc = "init" /\ Receive /\ ~Awaited(Head(evtq))
  /\ \/ program = "mouse" /\ pc' = "exit" /\ UNCHANGED cmdq
     \/ program = "avr" /\ pc' = "failed" /\ bt_serial_send(Cmd("reset"))
  /\ UNCHANGED <<program, step, peers, opened, starts, refused>>

\* avr_read_hci() passes over garbage.
GarbageSkipped ==
  /\ program = "avr" /\ pc = "init" /\ Receive
  /\ Head(evtq) = OtherEvent
  /\ UNCHANGED <<cmdq, programVars>>

-----------------------------------------------------------------------------
(* unix_inquiry_dev(), called until it has found a device *)

InquiryRead == pc = "inquiry" /\ Receive /\ UNCHANGED <<program, step, opened, starts>>

StorePeer ==
  /\ InquiryRead /\ Head(evtq).code = "inquiry_result"
  /\ peers' = IF Len(peers) < NumPeers THEN Append(peers, Head(evtq).addr) ELSE peers
  /\ UNCHANGED <<cmdq, pc, refused>>

\* A failure that only empties the table, without finished = 1.
InquiryFailedWaits ==
  /\ InquiryRead /\ Head(evtq) = InquiryComplete(FALSE)
  /\ peers' = <<>> /\ UNCHANGED <<cmdq, pc, refused>>

InquiryFailed == InquiryRead /\ Head(evtq) = InquiryComplete(FALSE) /\ BeginInquiry

InquiryFinished ==
  /\ InquiryRead /\ Head(evtq) = InquiryComplete(TRUE)
  /\ \/ peers = <<>> /\ BeginInquiry
     \/ /\ peers # <<>> /\ pc' = "connect"
        /\ bt_serial_send(CmdTo("create_conn", peers[1]))
        /\ UNCHANGED <<peers, refused>>

InquiryPassedOver ==
  /\ InquiryRead /\ Head(evtq).code \notin {"inquiry_result", "inquiry_complete"}
  /\ refused' = (refused \/ (Head(evtq).code = "cmd_status" /\ Head(evtq).op = "inquiry" /\ ~Head(evtq).ok))
  /\ UNCHANGED <<cmdq, pc, peers>>

-----------------------------------------------------------------------------
(* unix_connect_acl() *)

ConnectRead == pc = "connect" /\ Receive /\ UNCHANGED <<program, step, peers, opened, starts, refused>>

KeyAnswer(code) == IF code = "pincode_req" THEN "pincode_reply" ELSE "link_key_reply_neg"

AnswerKeyRequest ==
  /\ ConnectRead /\ Head(evtq).code \in {"pincode_req", "link_key_req"}
  /\ IF Head(evtq).addr = peers[1]
       THEN bt_serial_send(CmdTo(KeyAnswer(Head(evtq).code), peers[1]))
       ELSE UNCHANGED cmdq
  /\ UNCHANGED pc

\* The events its switch names; dev_evt_none is what a command status comes to.
Listed(e) ==
  \/ e.code \in {"cmd_status", "disconn_complete", "other"}
  \/ e.code = "conn_complete" /\ e.ok
  \/ e.code = "cmd_complete" /\ e.op \in KeyOps \cup {"none", "reset"}

ConnectPassedOver == ConnectRead /\ Listed(Head(evtq)) /\ UNCHANGED <<cmdq, pc>>

\* A failed connection, or any event not named: also a call from another device.
ConnectEnds ==
  /\ ConnectRead
  /\ \/ Head(evtq) = OtherEvent
     \/ ~Listed(Head(evtq)) /\ Head(evtq).code \notin {"pincode_req", "link_key_req"}
  /\ pc' = "exit" /\ UNCHANGED cmdq

\* A read on a dead line is a timeout: passed over by the inquiry, the end elsewhere.
ReadTimesOut ==
  /\ ~line /\ pc \in {"init", "connect"} /\ pc' = "exit"
  /\ UNCHANGED <<transportVars, program, step, peers, opened, starts, refused>>

-----------------------------------------------------------------------------
Program ==
  \/ StepSucceeds \/ StepFails \/ GarbageSkipped
  \/ StorePeer \/ InquiryFailed \/ InquiryFinished \/ InquiryPassedOver
  \/ AnswerKeyRequest \/ ConnectPassedOver \/ ConnectEnds \/ ReadTimesOut

OlderNext ==
  \/ (Program \/ Start) /\ UNCHANGED ctlVars
  \/ CommandAnswered \/ EventComes \/ LineDown

\* A program that reads, and a controller that answers the commands it is sent.
OlderSpec ==
  /\ OlderInit /\ [][OlderNext]_olderVars
  /\ WF_olderVars(Program /\ UNCHANGED ctlVars) /\ WF_olderVars(CommandAnswered)

-----------------------------------------------------------------------------
(* Properties *)

OlderCommands == [op : Ops \cup OlderOps, addr : Addrs \cup {ZeroAddr, JunkAddr},
                  handle : Handles \cup {NoHandle}]
OlderEvents == Events \cup [code : {"cmd_status", "cmd_complete"}, op : OlderOps,
                            ok : BOOLEAN, n : 0..255]

OlderTypeOK ==
  /\ cmdq \in Seq(OlderCommands) /\ evtq \in Seq(OlderEvents) /\ line \in BOOLEAN
  /\ asking \subseteq Calls /\ setup \subseteq Calls /\ closing \subseteq Handles
  /\ links \in [Handles -> Addrs \cup {ZeroAddr}] /\ inquiring \in BOOLEAN /\ owed \in BOOLEAN
  /\ program \in Programs
  /\ pc \in {"off", "init", "failed", "main", "inquiry", "connect", "exit"}
  /\ step \in 1..Len(Script) /\ starts \in 0..MaxStarts
  /\ opened \in BOOLEAN /\ refused \in BOOLEAN
  /\ peers \in Seq(Addrs) /\ Len(peers) <= NumPeers
  /\ done \subseteq ConfigOps \cup OlderOps

Queued(op) == \E i \in DOMAIN cmdq : cmdq[i].op = op

\* A completion that the mouse may read tells the truth, whoever it was meant for: the
\* controller has carried the command out, and nobody resets it.
AnswersHold ==
  /\ ~Queued("reset")
  /\ \A i \in DOMAIN evtq :
       evtq[i].code = "cmd_complete" /\ evtq[i].ok /\ evtq[i].op \in ConfigOps \cup OlderOps =>
         evtq[i].op \in done
  /\ pc = "init" => \A i \in 1..(step - 1) : Script[i].op \in done

\* Once past its initialisation on a line it has opened, a program talks to a
\* controller that has carried out all of its script (bt-mouse.c:21-69), also when
\* what it read were answers to a predecessor; and it connects to a device it found.
PastInitMeansConfigured ==
  /\ OlderTypeOK
  /\ pc \in {"inquiry", "connect", "main"} /\ opened =>
       {Script[i].op : i \in DOMAIN Script} \subseteq done
  /\ pc = "connect" => peers # <<>>
  /\ program = "mouse" => AnswersHold

\* The mouse never waits for the end of an inquiry that nobody holds, unless it
\* passed over the refusal: also when the inquiry going on is a predecessor's.
InquiryUnderWay ==
  pc = "inquiry" /\ line /\ ~refused =>
    \/ Queued("inquiry") \/ inquiring
    \/ \E i \in DOMAIN evtq : \/ evtq[i].code = "inquiry_complete"
                              \/ evtq[i] \in [code : {"cmd_status"}, op : {"inquiry"}, ok : {FALSE}, n : Grants]

\* The AVR program is in its initialisation, and neither the command whose completion
\* it waits for at stack-avr.c:130 nor that completion is on the line.
AvrWaitsForNothing ==
  /\ line /\ pc \in {"off", "init", "failed"} /\ step <= 4
  /\ ~Queued("write_scan_enable")
  /\ \A i \in DOMAIN evtq : evtq[i].code = "cmd_complete" => evtq[i].op # "write_scan_enable"

\* For the induction, and why no more of stack-avr.c is modelled than its start-up: nobody
\* sends what it waits for at stack-avr.c:130, in this attempt or an earlier one.
AvrNeverStarts == pc # "main" /\ (program = "avr" => AvrWaitsForNothing)

\* No step of the programs or the controller disturbs them together.
OlderInv == PastInitMeansConfigured /\ InquiryUnderWay /\ AvrNeverStarts

\* The initialisation, or the attempt at it, ends: a wrong answer or one that was meant
\* for an attempt before ends it too (bt-mouse.c:26-69, stack-avr.c:95-140), as does a
\* lost line.
InitEnds == pc = "init" ~> pc # "init"

-----------------------------------------------------------------------------
(* What the repository says and the code does not do *)

\* stack-avr.c:126-130 enables authentication and then looks at what became of it, as
\* with every other command of the start-up, and as bt-mouse.c:56 does: an attempt is
\* not given up on the success of the command it has just sent.
Success(e, op) == e.code = "cmd_complete" /\ e.op = op /\ e.ok

SuccessGoesOn ==
  [][pc = "init" /\ pc' = "failed" => ~Success(Head(evtq), Script[step].op)]_olderVars
=============================================================================
