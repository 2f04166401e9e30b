------------------------------ MODULE BtStack -------------------------------
(***************************************************************************)
(* The whole: the host process (BtHci on BtDev), the serial line and the   *)
(* controller.  The host may be started again at any moment, after it      *)
(* returned, died or was killed; the controller is not reset by that.      *)
(***************************************************************************)
EXTENDS BtHci, BtController

CONSTANTS
  MaxBoots,      \* bound on the starts of the host process
  AllowHangup    \* whether the tty may go away, or fail to open

ASSUME StackAssumption == MaxBoots \in Nat \ {0} /\ AllowHangup \in BOOLEAN

VARIABLE boots   \* starts of the host process

vars == <<hostVars, transportVars, ctlVars, boots>>

TypeOK == HciTypeOK /\ TransportTypeOK /\ CtlTypeOK /\ boots \in 1..MaxBoots

\* bt_dev_init() drops the result of bt_serial_init() (bt_dev.c:7): the loop begins
\* whether there is a line or not.
Init ==
  /\ DevInit /\ pc = "top" /\ CtlInit /\ boots = 1
  /\ TransportInit /\ (line \/ AllowHangup)

Host == bt_hci_main /\ UNCHANGED <<ctlVars, boots>>
CommandTaken == TakeCommand /\ UNCHANGED <<hostVars, boots>>
CreditGranted == CtlGrant /\ UNCHANGED <<hostVars, boots>>
EventSent == Spontaneous /\ UNCHANGED <<hostVars, boots>>

\* main(): bt_dev_init() and bt_hci_main(), in a new process.
Boot ==
  /\ boots < MaxBoots /\ boots' = boots + 1
  /\ dev_init /\ pc' = "top"
  /\ Reopened
  /\ UNCHANGED <<cmdq, line, ctlVars>>

LineLost == AllowHangup /\ Hangup /\ UNCHANGED <<hostVars, ctlVars, boots>>

Next == Host \/ CommandTaken \/ CreditGranted \/ EventSent \/ Boot \/ LineLost

Spec == Init /\ [][Next]_vars

\* The process runs on, the controller answers commands and credits it owes.
FairSpec == Spec /\ WF_vars(Host) /\ WF_vars(CommandTaken) /\ WF_vars(CreditGranted)

-----------------------------------------------------------------------------
(* Properties *)

\* The handshake never loses its place: while the loop waits in INITIALIZING
\* a command of the initialisation, or the completion of one, is under way.
\* The loop itself does nothing in that state (bt_hci.c:701), so without one
\* it would wait for ever.
ConfigInFlight ==
  \/ \E k \in 1..Len(cmdq) : cmdq[k].op \in ConfigOps
  \/ \E k \in 1..Len(evtq) : evtq[k].code = "cmd_complete" /\ evtq[k].op \in ConfigOps

HandshakeNeverStalls == Running /\ line /\ dev_state = "INITIALIZING" => ConfigInFlight

\* A host that starts again hears its predecessor's completions and goes on with
\* that handshake besides its own.  Each start adds one, and no step of the loop
\* another: commands of the initialisation do not multiply on the line.
ConfigCommands == {k \in 1..Len(cmdq) : cmdq[k].op \in ConfigOps}
ConfigCompletions == {k \in 1..Len(evtq) : evtq[k].code = "cmd_complete" /\ evtq[k].op \in ConfigOps}

HandshakesConserved == Cardinality(ConfigCommands) + Cardinality(ConfigCompletions) <= boots

\* A host in RESET has yet to add the handshake of its own start.  With this
\* HandshakesConserved is inductive.
OwnHandshakeToCome ==
  dev_state = "RESET" => Cardinality(ConfigCommands) + Cardinality(ConfigCompletions) < boots

HandshakeCountInv == TypeOK /\ HandshakesConserved /\ OwnHandshakeToCome

\* The device is READY, or inquires, only when the controller has carried out
\* every command of the initialisation: filter, name, authentication, scans.
Configured == ConfigOps \subseteq done

ReadyMeansConfigured == dev_state \in {"READY", "INQUIRY"} => Configured

\* The initialisation is never out of step, not even when a host that starts
\* again hears the completions of its predecessor: a command of it is under way
\* only after the ones before it were carried out, and a completion that reports
\* success was preceded by the command and all before it.
Earlier(op) == CASE op = "set_event_flt" -> {}
                 [] op = "change_local_name" -> {"set_event_flt"}
                 [] op = "write_auth_enable" -> {"set_event_flt", "change_local_name"}
                 [] op = "write_scan_enable" -> ConfigOps \ {"write_scan_enable"}

Succeeded(e) == e.code = "cmd_complete" /\ e.ok /\ e.op \in ConfigOps

CommandsInOrder ==
  \A k \in 1..Len(cmdq) : cmdq[k].op \in ConfigOps => Earlier(cmdq[k].op) \subseteq done

CompletionsInOrder ==
  \A k \in 1..Len(evtq) : Succeeded(evtq[k]) => Earlier(evtq[k].op) \cup {evtq[k].op} \subseteq done

\* The peers and the connections the host knows are those of a configured device.
TablesConfigured ==
  /\ \A p \in Peers : peers[p].state # "EMPTY" /\ peers[p].bd_addr \in Addrs => Configured
  /\ \A i \in Acls : acls[i].state = "CONNECTED" => Configured

\* All of this together is inductive.
ConfigInv == /\ TypeOK
             /\ CommandsInOrder
             /\ CompletionsInOrder
             /\ TablesConfigured
             /\ ReadyMeansConfigured

\* The host is never left without credits for good: when it has none, a
\* command waits to be answered, a report is on its way or one is owed.
CreditReportComing ==
  cmdq # <<>> \/ owed \/ \E k \in 1..Len(evtq) : IsCmdEvent(evtq[k])

NoCreditStarvation == Running /\ line /\ ncmds = 0 => CreditReportComing

\* A report of no credits in the queue is not the last word: another one is
\* behind it, or owed.  With this NoCreditStarvation is inductive.
ZeroFollowed ==
  \A k \in 1..Len(evtq) : IsCmdEvent(evtq[k]) /\ evtq[k].n = 0 =>
    owed \/ \E j \in (k + 1)..Len(evtq) : IsCmdEvent(evtq[j])

CreditInv == TypeOK /\ ZeroFollowed /\ NoCreditStarvation

\* A connected entry of the ACL table is a connection: its peer entry is in use,
\* and the controller has the link, with that device, or its end is reported
\* by an event not yet read.
Connected == {i \in Acls : acls[i].state = "CONNECTED"}
DisconnReported(h) ==
  \E k \in 1..Len(evtq) : evtq[k].code = "disconn_complete" /\ evtq[k].ok /\ evtq[k].handle = h

AclTracksLink ==
  \A i \in Connected :
    /\ acls[i].peer \in Peers /\ peers[acls[i].peer].state # "EMPTY"
    /\ \/ acls[i].handle \in Live /\ links[acls[i].handle] = peers[acls[i].peer].bd_addr
       \/ DisconnReported(acls[i].handle)

\* A lookup by handle has one answer (bt_dev_get_acl_by_handle takes the first).
HandlesUnique == \A i, j \in Connected : acls[i].handle = acls[j].handle => i = j

\* The events not yet read that open, and that end, the connection of a handle.
OpenedAt(h) ==
  {k \in 1..Len(evtq) : evtq[k].code = "conn_complete" /\ evtq[k].ok /\ evtq[k].handle = h}
EndedAt(h) ==
  {k \in 1..Len(evtq) : evtq[k].code = "disconn_complete" /\ evtq[k].ok /\ evtq[k].handle = h}

\* A handle given out again is a new connection: the host reads the end of the one
\* before ahead of its opening, and an opening it reads is that of the link the
\* controller has, unless its end follows.
OpensAndEndsAlternate ==
  \A h \in Handles : \A k \in OpenedAt(h) :
    /\ links[h] = evtq[k].addr \/ \E m \in EndedAt(h) : k < m
    /\ \A j \in OpenedAt(h) : j < k => \E m \in EndedAt(h) : j < m /\ m < k
    /\ \A i \in Connected : acls[i].handle = h => \E m \in EndedAt(h) : m < k

HandlesGivenOut == OpenedAt(NoHandle) = {} /\ \A i \in Connected : acls[i].handle # NoHandle

\* All of this together is inductive.
ConnInv == /\ TypeOK
           /\ AclTracksLink
           /\ HandlesUnique
           /\ OpensAndEndsAlternate
           /\ HandlesGivenOut

\* The last news of a handle with a link is not an end.
LinksOutliveEnds ==
  \A h \in Live : EndedAt(h) # {} => \E k \in OpenedAt(h) : \A m \in EndedAt(h) : m < k

KeptInv == ConnInv /\ LinksOutliveEnds

\* A running host gives up no connection that lasts and changes none: as long as the
\* controller has the link of an entry (and no newer one, which the host is yet to read
\* of), no event makes the handlers release or overwrite the entry, or wipe or rename
\* the peer entry it points to (bt_hci.c:312-323,390-405; bt_dev.c:20-34).
LinkLasts(i) == acls[i].handle \in Live /\ OpenedAt(acls[i].handle) = {}

ConnectionsKept ==
  [][boots' = boots =>
       \A i \in Connected : LinkLasts(i) =>
         acls'[i] = acls[i] /\ peers'[acls[i].peer].bd_addr = peers[acls[i].peer].bd_addr]_vars

\* The ACL table implements a table of connections.
Conns == {<<acls[i].handle, peers[acls[i].peer].bd_addr>> : i \in Connected}
CT == INSTANCE ConnTable WITH conns <- Conns, Devices <- Addrs, ConnHandles <- Handles,
                              Capacity <- NUM_ACLS
ImplementsConnTable == CT!CTSpec

\* The initialisation ends: with READY or INQUIRY, with another state because an
\* event came in between, or with a host that stopped.  Only without a line does it
\* stay in INITIALIZING.
InitTerminates ==
  [](dev_state = "INITIALIZING" => <>(dev_state # "INITIALIZING" \/ ~Running \/ ~line))

\* A host without credits gets some: the main loop, which sends nothing while
\* ncmds is 0 (bt_hci.c:692), is never shut out for good.
CreditRefreshed == [](ncmds = 0 => <>(ncmds > 0 \/ ~Running \/ ~line))

-----------------------------------------------------------------------------
(* What the repository says and the code does not do *)

\* bt_serial.h:38,51: the stack aborts when a transfer on the line fails, because the
\* line was lost or because it was never opened (bt_dev.c:7).
SerialFailureAborts == [](~line => <>(~Running))

\* bt_hci.c:313 allows for a disconnection of a handle without an ACL entry.
NoNullAcl == pc # "crashed"

\* stack-avr.c:214-222: a call is accepted or rejected at the address the request
\* came with.  So an answer under way names a device.
AnswersNameDevices ==
  \A k \in 1..Len(cmdq) :
    cmdq[k].op \in {"accept_conn_req", "reject_conn_req"} => cmdq[k].addr \in Addrs

\* test.c:95,104: "No Peer found" is for an inquiry that found none; a peer that
\* was found is offered for connection.  So a completion that comes when a result
\* is stored does not make the callback ask for another inquiry.
ResultStored == \E p \in Peers : peers[p].bd_addr \in Addrs

FoundPeersReported ==
  [][ResultStored /\ dev_state = "INQUIRY" /\ evtq # <<>> /\ evtq' = Tail(evtq)
       /\ Head(evtq) = InquiryComplete(TRUE) => dev_state' # "INQUIRY"]_vars

\* test.c:96: an inquiry the program asks for is one it waits for, in INQUIRY;
\* in any other state its completion is dropped (bt_hci.c:776,799).
InquiryTracked == inquiring => dev_state = "INQUIRY"
=============================================================================
