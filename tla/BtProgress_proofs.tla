-------------------------- MODULE BtProgress_proofs -------------------------
(***************************************************************************)
(* Theorems about BtStack, for every value of its constants: the host is   *)
(* never left waiting for a packet that nobody is going to send, neither   *)
(* in the initialisation nor without credits; and commands of the          *)
(* initialisation do not multiply on the line.                             *)
(***************************************************************************)
EXTENDS BtStack_proofs, FiniteSetTheorems

-----------------------------------------------------------------------------
(* What a step does to the queue of events *)

\* The events in s are sent behind those in the queue.
LEMMA SentBehind ==
  ASSUME TypeOK, NEW s \in Seq(Events), evtq' = evtq \o s
  PROVE  /\ Len(evtq) \in Nat /\ Len(s) \in Nat /\ Len(evtq') = Len(evtq) + Len(s)
         /\ \A k \in 1..Len(evtq) : k \in 1..Len(evtq') /\ evtq'[k] = evtq[k]
         /\ \A k \in 1..Len(s) : /\ Len(evtq) + k \in 1..Len(evtq')
                                 /\ evtq'[Len(evtq) + k] = s[k]
<1>1. evtq \in Seq(Events)
  BY DEF TypeOK, TransportTypeOK
<1>2. /\ Len(evtq) \in Nat /\ Len(s) \in Nat /\ Len(evtq') = Len(evtq) + Len(s)
      /\ \A k \in 1..Len(evtq') : evtq'[k] = IF k <= Len(evtq) THEN evtq[k] ELSE s[k - Len(evtq)]
  BY <1>1, ConcatProperties
<1>3. \A k \in 1..Len(evtq) : k \in 1..Len(evtq') /\ k <= Len(evtq)
  BY <1>2
<1>4. \A k \in 1..Len(s) : /\ Len(evtq) + k \in 1..Len(evtq') /\ ~(Len(evtq) + k <= Len(evtq))
                           /\ (Len(evtq) + k) - Len(evtq) = k
  BY <1>2
<1> QED
  BY <1>2, <1>3, <1>4

\* One event is sent.
LEMMA OneSent ==
  ASSUME TypeOK, NEW e \in Events, evtq' = evtq \o <<e>>
  PROVE  /\ Len(evtq) \in Nat /\ Len(evtq') = Len(evtq) + 1 /\ evtq'[Len(evtq) + 1] = e
         /\ \A k \in 1..Len(evtq) : k \in 1..Len(evtq') /\ evtq'[k] = evtq[k]
<1>1. <<e>> \in Seq(Events) /\ Len(<<e>>) = 1 /\ <<e>>[1] = e
  BY SingletonSeq
<1> QED
  BY <1>1, SentBehind

\* The first event is read.
LEMMA OneRead ==
  ASSUME TypeOK, evtq # <<>>, evtq' = Tail(evtq)
  PROVE  /\ Len(evtq) \in Nat /\ Len(evtq') = Len(evtq) - 1
         /\ \A k \in 1..Len(evtq') : k + 1 \in 1..Len(evtq) /\ evtq'[k] = evtq[k + 1]
         /\ \A k \in 1..Len(evtq) : k = 1 \/ (k - 1 \in 1..Len(evtq') /\ evtq'[k - 1] = evtq[k])
<1>1. evtq \in Seq(Events) /\ Len(evtq) \in Nat
  BY DEF TypeOK, TransportTypeOK
<1>2. /\ Len(evtq') = Len(evtq) - 1
      /\ \A k \in 1..Len(evtq') : evtq'[k] = evtq[k + 1]
  BY <1>1, HeadTailProperties
<1>3. \A k \in 1..Len(evtq) : k = 1 \/ (k - 1 \in 1..Len(evtq') /\ (k - 1) + 1 = k)
  BY <1>1, <1>2
<1>4. \A k \in 1..Len(evtq') : k + 1 \in 1..Len(evtq)
  BY <1>1, <1>2
<1> QED
  BY <1>1, <1>2, <1>3, <1>4

\* A restarted host finds a suffix of the queue.
LEMMA SuffixLeft ==
  ASSUME TypeOK, Reopened
  PROVE  \E m \in Nat : /\ Len(evtq) = m + Len(evtq')
                        /\ \A k \in 1..Len(evtq') : m + k \in 1..Len(evtq) /\ evtq'[k] = evtq[m + k]
<1>1. Len(evtq) \in Nat /\ \A i \in 1..Len(evtq) : evtq[i] \in Events
  BY DEF TypeOK, TransportTypeOK
<1>2. PICK m \in 0..Len(evtq) : evtq' = SubSeq(evtq, m + 1, Len(evtq))
  BY DEF Reopened
<1>3. \A i \in (m + 1)..Len(evtq) : evtq[i] \in Events
  BY <1>1
<1>4. /\ Len(evtq') = IF m + 1 <= Len(evtq) THEN Len(evtq) - (m + 1) + 1 ELSE 0
      /\ \A k \in 1..Len(evtq) - (m + 1) + 1 : evtq'[k] = evtq[(m + 1) + k - 1]
  BY <1>1, <1>2, <1>3, SubSeqProperties
<1>5. m \in Nat /\ Len(evtq) = m + Len(evtq')
  BY <1>1, <1>4
<1>6. \A k \in 1..Len(evtq') : /\ k \in 1..Len(evtq) - (m + 1) + 1 /\ (m + 1) + k - 1 = m + k
                               /\ m + k \in 1..Len(evtq)
  BY <1>1, <1>4, <1>5
<1> QED
  BY <1>4, <1>5, <1>6

\* A report of credits goes out behind the queue for the command op, for one of
\* the initialisation as its completion, with events of other kinds behind it.
Reported(op) ==
  \E r \in CmdEvents, more \in Seq(Events) :
    /\ cmdq' = Tail(cmdq) /\ UNCHANGED line
    /\ evtq' = evtq \o (<<r>> \o more)
    /\ r.op = op /\ (op \in ConfigOps => r.code = "cmd_complete")
    /\ owed' = (r.n = 0)
    /\ \A k \in 1..Len(more) : ~IsCmdEvent(more[k])

\* That is what happens when the controller takes a command.
LEMMA CommandReported ==
  ASSUME TypeOK, CommandTaken
  PROVE  cmdq # <<>> /\ Reported(cmdq[1].op) /\ UNCHANGED hostVars
<1> SUFFICES ASSUME UNCHANGED hostVars, NEW c \in Waiting,
                    Configure(c) \/ TakeKey(c) \/ Refuse(c) \/ Begin(c) \/ Answer(c)
             PROVE  cmdq # <<>> /\ Reported(cmdq[1].op)
  BY DEF CommandTaken, TakeCommand
<1>1. cmdq # <<>> /\ c = cmdq[1] /\ c.op \in Ops
  <2>1. cmdq \in Seq(Commands) /\ cmdq # <<>> /\ c = cmdq[1] /\ c \in Commands
    BY HeadTailProperties DEF Waiting, TypeOK, TransportTypeOK
  <2> QED
    BY <2>1 DEF Commands
<1>2. <<>> \in Seq(Events) /\ \A k \in 1..Len(<<>>) : ~IsCmdEvent(<<>>[k])
  <2>1. <<>> \in Seq(Events) /\ Len(<<>>) = 0
    BY EmptySeq
  <2>2. 1..Len(<<>>) = {}
    BY <2>1
  <2> QED
    BY <2>1, <2>2
<1>3. ASSUME NEW code \in {"cmd_status", "cmd_complete"}, NEW ok \in BOOLEAN, NEW more \in Seq(Events),
             Take(code, c.op, ok, more), c.op \in ConfigOps => code = "cmd_complete",
             \A k \in 1..Len(more) : ~IsCmdEvent(more[k])
      PROVE  Reported(c.op)
  <2>1. PICK n \in Grants :
          /\ evtq' = evtq \o (<<[code |-> code, op |-> c.op, ok |-> ok, n |-> n]>> \o more)
          /\ owed' = (n = 0)
    BY <1>3 DEF Take, Send
  <2> DEFINE r == [code |-> code, op |-> c.op, ok |-> ok, n |-> n]
  <2>2. r \in CmdEvents /\ r.op = c.op /\ r.code = code /\ r.n = n
    BY <1>1, ControllerAssumption DEF CmdEvents
  <2>3. evtq' = evtq \o (<<r>> \o more) /\ cmdq' = Tail(cmdq) /\ UNCHANGED line
    BY <1>3, <2>1 DEF Take
  <2> HIDE DEF r
  <2> QED
    BY <1>3, <2>1, <2>2, <2>3 DEF Reported
<1>4. CASE Configure(c)
  <2>1. PICK ok \in BOOLEAN : Take("cmd_complete", c.op, ok, <<>>)
    BY <1>4, ControllerAssumption DEF Configure
  <2> QED
    BY <1>1, <1>2, <1>3, <2>1
<1>5. CASE TakeKey(c)
  <2>1. Take("cmd_complete", c.op, TRUE, <<>>)
    BY <1>5 DEF TakeKey
  <2> QED
    BY <1>1, <1>2, <1>3, <2>1
<1>6. CASE Refuse(c) \/ Begin(c)
  <2>1. c.op \notin ConfigOps
    BY <1>6 DEF Refuse, Begin, ConfigOps
  <2>2. PICK ok \in BOOLEAN : Take("cmd_status", c.op, ok, <<>>)
    BY <1>6 DEF Refuse, Begin
  <2> QED
    BY <1>1, <1>2, <1>3, <2>1, <2>2
<1>7. CASE Answer(c)
  <2>1. c.op \notin ConfigOps
    BY <1>7 DEF Answer, ConfigOps
  <2>2. PICK r \in asking :
          \/ Take("cmd_status", c.op, TRUE, <<>>)
          \/ Take("cmd_status", c.op, TRUE, <<ConnComplete(FALSE, FailHandle, r[1], r[2])>>)
    BY <1>7 DEF Answer
  <2> DEFINE e == ConnComplete(FALSE, FailHandle, r[1], r[2])
  <2>3. e \in Events
    BY EventType, ControllerAssumption DEF TypeOK, CtlTypeOK
  <2>4. ~IsCmdEvent(e)
    BY DEF ConnComplete, IsCmdEvent
  <2> HIDE DEF e
  <2>5. <<e>> \in Seq(Events) /\ \A k \in 1..Len(<<e>>) : ~IsCmdEvent(<<e>>[k])
    BY <2>3, <2>4, SingletonSeq
  <2>6. Take("cmd_status", c.op, TRUE, <<>>) \/ Take("cmd_status", c.op, TRUE, <<e>>)
    BY <2>2 DEF e
  <2> QED
    BY <1>1, <1>2, <1>3, <2>1, <2>5, <2>6
<1> QED
  BY <1>1, <1>4, <1>5, <1>6, <1>7

\* The queue with what the controller reported: the events in it are still there,
\* the report is behind them, and no other report behind that.
LEMMA ReportedBehind ==
  ASSUME TypeOK, NEW op, Reported(op)
  PROVE  \E r \in CmdEvents :
           /\ Len(evtq) \in Nat /\ Len(evtq) + 1 \in 1..Len(evtq') /\ evtq'[Len(evtq) + 1] = r
           /\ \A k \in 1..Len(evtq) : k \in 1..Len(evtq') /\ evtq'[k] = evtq[k]
           /\ \A k \in 1..Len(evtq') : k > Len(evtq) + 1 => ~IsCmdEvent(evtq'[k])
           /\ r.op = op /\ (op \in ConfigOps => r.code = "cmd_complete")
           /\ owed' = (r.n = 0)
<1>1. PICK r \in CmdEvents, more \in Seq(Events) :
        /\ evtq' = evtq \o (<<r>> \o more)
        /\ r.op = op /\ (op \in ConfigOps => r.code = "cmd_complete")
        /\ owed' = (r.n = 0)
        /\ \A k \in 1..Len(more) : ~IsCmdEvent(more[k])
  BY DEF Reported
<1>2. r \in Events
  BY DEF Events
<1> DEFINE s == <<r>> \o more
<1>3. /\ s \in Seq(Events) /\ Len(more) \in Nat /\ Len(s) = Len(more) + 1 /\ s[1] = r
      /\ \A k \in 1..Len(s) : k > 1 => k - 1 \in 1..Len(more) /\ s[k] = more[k - 1]
  <2>1. <<r>> \in Seq(Events) /\ Len(<<r>>) = 1 /\ <<r>>[1] = r
    BY <1>2, SingletonSeq
  <2>2. /\ s \in Seq(Events) /\ Len(more) \in Nat /\ Len(s) = 1 + Len(more)
        /\ \A k \in 1..Len(s) : s[k] = IF k <= 1 THEN <<r>>[k] ELSE more[k - 1]
    BY <2>1, ConcatProperties
  <2> QED
    BY <2>1, <2>2
<1> HIDE DEF s
<1>4. /\ Len(evtq) \in Nat /\ Len(s) \in Nat /\ Len(evtq') = Len(evtq) + Len(s)
      /\ \A k \in 1..Len(evtq) : k \in 1..Len(evtq') /\ evtq'[k] = evtq[k]
      /\ \A k \in 1..Len(s) : /\ Len(evtq) + k \in 1..Len(evtq')
                              /\ evtq'[Len(evtq) + k] = s[k]
  BY <1>1, <1>3, SentBehind DEF s
<1>5. Len(evtq) + 1 \in 1..Len(evtq') /\ evtq'[Len(evtq) + 1] = r
  BY <1>3, <1>4
<1>6. ASSUME NEW k \in 1..Len(evtq'), k > Len(evtq) + 1
      PROVE  ~IsCmdEvent(evtq'[k])
  <2> DEFINE i == k - Len(evtq)
  <2>1. i \in 1..Len(s) /\ i > 1 /\ Len(evtq) + i = k
    BY <1>4, <1>6
  <2> HIDE DEF i
  <2>2. evtq'[k] = s[i] /\ i - 1 \in 1..Len(more) /\ s[i] = more[i - 1]
    BY <1>3, <1>4, <2>1
  <2> QED
    BY <1>1, <2>2
<1> QED
  BY <1>1, <1>4, <1>5, <1>6

\* An event that comes by itself is no report of credits.
LEMMA EventReported ==
  ASSUME TypeOK, EventSent
  PROVE  /\ UNCHANGED <<hostVars, cmdq, line, owed>>
         /\ \E e \in Events : ~IsCmdEvent(e) /\ evtq' = evtq \o <<e>>
<1>1. TypeOK'
  BY NextTypeOK DEF Next
<1>2. PICK e : ~IsCmdEvent(e) /\ Report(e)
  BY DEF IsCmdEvent, EventSent, Spontaneous, FindDevice, InquiryResult, EndInquiry, InquiryComplete,
         LinkUp, LinkFails, ConnComplete, LinkDown, Closed, RemoteLeaves, CloseFails, DisconnComplete,
         CallTimesOut, RemoteCalls, ConnRequest, AskKey, KeyRequest, ReportOther, OtherEvent
<1>3. UNCHANGED <<cmdq, line, owed>> /\ evtq' = evtq \o <<e>>
  BY <1>2 DEF Report, Send
<1>4. e \in Events
  <2> DEFINE S == Events \cup {e}
  <2>1. evtq \in Seq(S) /\ e \in S
    BY SeqMonotonic DEF TypeOK, TransportTypeOK
  <2> HIDE DEF S
  <2>2. <<e>> \in Seq(S) /\ Len(<<e>>) = 1 /\ <<e>>[1] = e
    BY <2>1, SingletonSeq
  <2>3. Len(evtq') = Len(evtq) + 1 /\ evtq'[Len(evtq) + 1] = e /\ Len(evtq) \in Nat
    BY <1>3, <2>1, <2>2, ConcatProperties
  <2> QED
    BY <1>1, <2>3, ElementOfSeq DEF TypeOK, TransportTypeOK
<1> QED
  BY <1>2, <1>3, <1>4 DEF EventSent

-----------------------------------------------------------------------------
(* What a step of the host does to the queues *)

\* A command is sent while the line is up.
LEMMA LineSends ==
  ASSUME TypeOK, line, NEW credits, NEW c, flush_hci(credits, c)
  PROVE  /\ cmdq' = Append(cmdq, c) /\ cmdq' # <<>>
         /\ Len(cmdq) \in Nat /\ Len(cmdq') = Len(cmdq) + 1 /\ cmdq'[Len(cmdq) + 1] = c
         /\ \A k \in 1..Len(cmdq) : k \in 1..Len(cmdq') /\ cmdq'[k] = cmdq[k]
<1>1. cmdq' = Append(cmdq, c)
  BY DEF flush_hci, bt_serial_send
<1>2. cmdq \in Seq(Commands) /\ Len(cmdq) \in Nat
  BY DEF TypeOK, TransportTypeOK
<1>3. /\ Len(cmdq') = Len(cmdq) + 1 /\ cmdq'[Len(cmdq) + 1] = c
      /\ \A k \in 1..Len(cmdq) : cmdq'[k] = cmdq[k]
  BY <1>1, <1>2, AppendAny
<1>4. \A k \in 1..Len(cmdq) : k \in 1..Len(cmdq')
  BY <1>2, <1>3
<1>5. cmdq' # <<>>
  BY <1>2, <1>3
<1> QED
  BY <1>1, <1>2, <1>3, <1>4, <1>5

LEMMA LineSendsPlain ==
  ASSUME TypeOK, line, SendsPlain
  PROVE  \A k \in 1..Len(cmdq) : k \in 1..Len(cmdq') /\ cmdq'[k] = cmdq[k]
<1>1. CASE cmdq' = cmdq
  BY <1>1
<1>2. ASSUME NEW c, bt_serial_send(c)
      PROVE  \A k \in 1..Len(cmdq) : k \in 1..Len(cmdq') /\ cmdq'[k] = cmdq[k]
  <2>1. cmdq' = Append(cmdq, c)
    BY <1>2 DEF bt_serial_send
  <2>2. cmdq \in Seq(Commands) /\ Len(cmdq) \in Nat
    BY DEF TypeOK, TransportTypeOK
  <2>3. /\ Len(cmdq') = Len(cmdq) + 1
        /\ \A k \in 1..Len(cmdq) : cmdq'[k] = cmdq[k]
    BY <2>1, <2>2, AppendAny
  <2> QED
    BY <2>2, <2>3
<1> QED
  BY <1>1, <1>2 DEF SendsPlain

-----------------------------------------------------------------------------
(* The handshake *)

HandshakeInv == TypeOK /\ HandshakeNeverStalls

ConfigCompletion(e) == e.code = "cmd_complete" /\ e.op \in ConfigOps

\* The host: it puts a command of the initialisation in the queue when it enters
\* INITIALIZING and when it reads a completion there; any other step that stays
\* in INITIALIZING leaves both queues what they had of the initialisation.
LEMMA HostHandshake ==
  ASSUME HandshakeInv, bt_hci_main, Running', line', dev_state' = "INITIALIZING"
  PROVE  ConfigInFlight'
<1>0. TypeOK /\ line /\ Running
  <2>1. line' = line
    BY DEF bt_hci_main, LoopTop, LoopReset, LoopReady, LoopWait, ReadFails, unpack_hci, transportVars,
       OnCmdEvent, OnCmdStatus, OnCompleteIgnored, OnConfigFailed, OnConfigStep, OnConfigured,
       OnInquiryEvent, OnInquiryResult, OnInquiryIgnored, OnInquiryComplete, OnInquiryFailed,
       OnConnEvent, OnConnRequestAccepted, OnConnRequestRejected, OnUnwantedConnection,
       OnConnected, OnNoFreeAcl, OnConnectFailed, OnDisconnected, OnDisconnectedUnknown,
       OnDisconnectFailed, OnKeyRequest, OnOther, Got, Receive
  <2>2. Running
    BY DEF bt_hci_main, LoopTop, LoopReset, LoopReady, LoopWait, ReadFails, unpack_hci, Running,
       OnCmdEvent, OnCmdStatus, OnCompleteIgnored, OnConfigFailed, OnConfigStep, OnConfigured,
       OnInquiryEvent, OnInquiryResult, OnInquiryIgnored, OnInquiryComplete, OnInquiryFailed,
       OnConnEvent, OnConnRequestAccepted, OnConnRequestRejected, OnUnwantedConnection,
       OnConnected, OnNoFreeAcl, OnConnectFailed, OnDisconnected, OnDisconnectedUnknown,
       OnDisconnectFailed, OnKeyRequest, OnOther, Got
  <2> QED
    BY <2>1, <2>2 DEF HandshakeInv
<1>1. ASSUME NEW op \in ConfigOps, NEW credits, flush_hci(credits, Cmd(op))
      PROVE  ConfigInFlight'
  <2>1. Cmd(op).op = op /\ Len(cmdq) + 1 \in 1..Len(cmdq') /\ cmdq'[Len(cmdq) + 1] = Cmd(op)
    BY <1>0, <1>1, LineSends DEF Cmd
  <2> QED
    BY <2>1 DEF ConfigInFlight
<1>2. CASE LoopReset
  BY <1>1, <1>2 DEF LoopReset, ConfigOps
<1>3. ASSUME NEW e \in Incoming, OnConfigStep(e)
      PROVE  ConfigInFlight'
  <2>1. NextConfig(e.op) \in ConfigOps
    BY <1>3 DEF OnConfigStep, Configuring, ConfigOps, NextConfig
  <2> QED
    BY <1>1, <1>3, <2>1 DEF OnConfigStep
<1>4. ASSUME SendsPlain, dev_state = "INITIALIZING",
             evtq' = evtq \/ (evtq # <<>> /\ evtq' = Tail(evtq) /\ ~ConfigCompletion(evtq[1]))
      PROVE  ConfigInFlight'
  <2>1. ConfigInFlight
    BY <1>0, <1>4 DEF HandshakeInv, HandshakeNeverStalls
  <2>2. ASSUME NEW k \in 1..Len(cmdq), cmdq[k].op \in ConfigOps
        PROVE  ConfigInFlight'
    <3>1. k \in 1..Len(cmdq') /\ cmdq'[k] = cmdq[k]
      BY <1>0, <1>4, LineSendsPlain
    <3> QED
      BY <2>2, <3>1 DEF ConfigInFlight
  <2>3. ASSUME NEW k \in 1..Len(evtq), ConfigCompletion(evtq[k])
        PROVE  ConfigInFlight'
    <3>1. CASE evtq' = evtq
      BY <2>3, <3>1 DEF ConfigInFlight, ConfigCompletion
    <3>2. CASE evtq # <<>> /\ evtq' = Tail(evtq) /\ ~ConfigCompletion(evtq[1])
      <4>1. k - 1 \in 1..Len(evtq') /\ evtq'[k - 1] = evtq[k]
        BY <1>0, <2>3, <3>2, OneRead
      <4> QED
        BY <2>3, <4>1 DEF ConfigInFlight, ConfigCompletion
    <3> QED
      BY <1>4, <3>1, <3>2
  <2> QED
    BY <2>1, <2>2, <2>3 DEF ConfigInFlight, ConfigCompletion
<1>5. CASE SendsPlain
  <2>1. CASE LoopTop \/ ReadFails
    <3>1. CASE LoopReset
      BY <1>2, <3>1
    <3>2. CASE LoopReady \/ LoopWait \/ ReadFails
      <4>1. dev_state = "INITIALIZING" /\ evtq' = evtq
        BY <3>2 DEF LoopReady, LoopWait, ReadFails, devVars, transportVars
      <4> QED
        BY <1>4, <1>5, <4>1
    <3> QED
      BY <2>1, <3>1, <3>2 DEF LoopTop
  <2>2. ASSUME NEW e \in Incoming,
               OnCmdEvent(e) \/ OnInquiryEvent(e) \/ OnConnEvent(e) \/ OnKeyRequest(e) \/ OnOther(e)
        PROVE  ConfigInFlight'
    <3>1. evtq # <<>> /\ e = evtq[1]
      BY <1>0, IncomingFirst DEF Incoming
    <3>2. CASE OnConfigStep(e)
      BY <1>3, <3>2
    <3>3. CASE OnCmdEvent(e) /\ ~OnConfigStep(e)
      <4>1. dev_state = "INITIALIZING" /\ ~ConfigCompletion(e) /\ evtq' = Tail(evtq)
        BY <3>3 DEF OnCmdEvent, OnCmdStatus, OnCompleteIgnored, OnConfigFailed, OnConfigured, Configuring,
             ConfigCompletion, Got, Receive, Running
      <4> QED
        BY <1>4, <1>5, <3>1, <4>1
    <3>4. CASE OnInquiryEvent(e)
      <4>1. dev_state = "INITIALIZING" /\ ~ConfigCompletion(e) /\ evtq' = Tail(evtq)
        BY <3>4 DEF OnInquiryEvent, OnInquiryResult, OnInquiryIgnored, OnInquiryComplete, OnInquiryFailed,
             devVars, ConfigCompletion, Got, Receive
      <4> QED
        BY <1>4, <1>5, <3>1, <4>1
    <3>5. CASE OnConnEvent(e)
      <4>1. dev_state = "INITIALIZING" /\ ~ConfigCompletion(e) /\ evtq' = Tail(evtq)
        BY <3>5 DEF OnConnEvent, OnConnRequestAccepted, OnConnRequestRejected, OnUnwantedConnection,
             OnConnected, OnNoFreeAcl, OnConnectFailed, OnDisconnected, OnDisconnectedUnknown,
             OnDisconnectFailed, devVars, ConfigCompletion, Got, Receive
      <4> QED
        BY <1>4, <1>5, <3>1, <4>1
    <3>6. CASE OnKeyRequest(e) \/ OnOther(e)
      <4>1. dev_state = "INITIALIZING" /\ ~ConfigCompletion(e) /\ evtq' = Tail(evtq)
        BY <3>6 DEF OnKeyRequest, OnOther, devVars, ConfigCompletion, Got, Receive
      <4> QED
        BY <1>4, <1>5, <3>1, <4>1
    <3> QED
      BY <2>2, <3>2, <3>3, <3>4, <3>5, <3>6
  <2> QED
    BY <2>1, <2>2 DEF bt_hci_main, unpack_hci
<1> QED
  BY <1>2, <1>3, <1>5, HostSends

LEMMA CommandHandshake == HandshakeInv /\ CommandTaken => HandshakeNeverStalls'
<1> SUFFICES ASSUME HandshakeInv, CommandTaken, Running', line', dev_state' = "INITIALIZING"
             PROVE  ConfigInFlight'
  BY DEF HandshakeNeverStalls
<1>0. TypeOK /\ cmdq # <<>> /\ Reported(cmdq[1].op) /\ UNCHANGED hostVars
  BY CommandReported DEF HandshakeInv
<1>1. ConfigInFlight
  <2>1. line' = line /\ pc' = pc /\ dev_state' = dev_state
    BY <1>0 DEF Reported, hostVars
  <2> QED
    BY <2>1 DEF HandshakeInv, HandshakeNeverStalls, Running
<1>2. PICK r \in CmdEvents :
        /\ Len(evtq) + 1 \in 1..Len(evtq') /\ evtq'[Len(evtq) + 1] = r
        /\ \A k \in 1..Len(evtq) : k \in 1..Len(evtq') /\ evtq'[k] = evtq[k]
        /\ r.op = cmdq[1].op /\ (cmdq[1].op \in ConfigOps => r.code = "cmd_complete")
  BY <1>0, ReportedBehind
<1>3. CASE cmdq[1].op \in ConfigOps
  BY <1>2, <1>3 DEF ConfigInFlight
<1>4. ASSUME NEW k \in 1..Len(cmdq), k # 1, cmdq[k].op \in ConfigOps
      PROVE  ConfigInFlight'
  <2>1. cmdq \in Seq(Commands) /\ cmdq' = Tail(cmdq)
    BY <1>0 DEF Reported, TypeOK, TransportTypeOK
  <2>2. Len(cmdq) \in Nat /\ Len(cmdq') = Len(cmdq) - 1 /\ \A i \in 1..Len(cmdq') : cmdq'[i] = cmdq[i + 1]
    BY <1>0, <2>1, HeadTailProperties
  <2>3. k - 1 \in 1..Len(cmdq') /\ (k - 1) + 1 = k
    BY <1>4, <2>2
  <2>4. cmdq'[k - 1] = cmdq[k]
    BY <2>2, <2>3
  <2> QED
    BY <1>4, <2>3, <2>4 DEF ConfigInFlight
<1>5. ASSUME NEW k \in 1..Len(evtq), ConfigCompletion(evtq[k])
      PROVE  ConfigInFlight'
  BY <1>2, <1>5 DEF ConfigInFlight, ConfigCompletion
<1> QED
  BY <1>1, <1>3, <1>4, <1>5 DEF ConfigInFlight, ConfigCompletion

\* An event sent behind the others leaves the handshake where it is.
LEMMA EventHandshake ==
  ASSUME HandshakeInv, UNCHANGED <<hostVars, cmdq, line>>, NEW e \in Events, evtq' = evtq \o <<e>>
  PROVE  HandshakeNeverStalls'
<1>1. TypeOK /\ HandshakeNeverStalls
  BY DEF HandshakeInv
<1>2. \A k \in 1..Len(evtq) : k \in 1..Len(evtq') /\ evtq'[k] = evtq[k]
  BY <1>1, OneSent
<1>3. ConfigInFlight => ConfigInFlight'
  BY <1>2 DEF ConfigInFlight
<1> QED
  BY <1>1, <1>3 DEF HandshakeNeverStalls, Running, hostVars

LEMMA NextHandshake == HandshakeInv /\ [Next]_vars => HandshakeInv'
<1> SUFFICES ASSUME HandshakeInv, [Next]_vars PROVE HandshakeNeverStalls'
  BY NextTypeOK DEF HandshakeInv
<1>0. TypeOK
  BY DEF HandshakeInv
<1>1. CASE Host
  BY <1>1, HostHandshake DEF Host, HandshakeNeverStalls
<1>2. CASE CommandTaken
  BY <1>2, CommandHandshake
<1>3. CASE CreditGranted
  <2>1. PICK e \in Events : evtq' = evtq \o <<e>>
    BY <1>3, EventType DEF CreditGranted, CtlGrant, Send
  <2> QED
    BY <1>3, <2>1, EventHandshake DEF CreditGranted, CtlGrant
<1>4. CASE EventSent
  BY <1>0, <1>4, EventReported, EventHandshake
<1>5. CASE Boot
  BY <1>5 DEF Boot, dev_init, HandshakeNeverStalls
<1>6. CASE LineLost
  BY <1>6 DEF LineLost, Hangup, HandshakeNeverStalls
<1>7. CASE UNCHANGED vars
  BY <1>7 DEF HandshakeInv, HandshakeNeverStalls, ConfigInFlight, Running, vars, hostVars, transportVars
<1> QED
  BY <1>1, <1>2, <1>3, <1>4, <1>5, <1>6, <1>7 DEF Next

\* A running host in INITIALIZING always has a command of the initialisation, or the
\* completion of one, under way: neither credits of 0, nor other events in between,
\* nor a restart make the main loop wait for a packet that is not coming.
THEOREM HandshakeGoesOn == Spec => []HandshakeNeverStalls
<1>1. Init => HandshakeInv
  BY InitTypeOK DEF Init, DevInit, HandshakeInv, HandshakeNeverStalls
<1>2. HandshakeInv => HandshakeNeverStalls
  BY DEF HandshakeInv
<1> QED
  BY <1>1, <1>2, NextHandshake, PTL DEF Spec

-----------------------------------------------------------------------------
(* Credits *)

\* What a step of the host does to the credits: nothing, or it sends a command, or
\* it takes over the number of the report it reads.
CreditStep ==
  \/ evtq' = evtq /\ UNCHANGED <<ncmds, cmdq>>
  \/ \E credits, c : flush_hci(credits, c)
  \/ \E e \in Incoming : evtq' = Tail(evtq) /\ IsCmdEvent(e) /\ ncmds' = e.n /\ cmdq' = cmdq
  \/ \E e \in Incoming : evtq' = Tail(evtq) /\ ~IsCmdEvent(e) /\ UNCHANGED <<ncmds, cmdq>>

LEMMA HostCredits ==
  ASSUME bt_hci_main
  PROVE  line' = line /\ Running /\ CreditStep
<1>1. CASE LoopTop \/ ReadFails
  BY <1>1 DEF LoopTop, LoopReset, LoopReady, LoopWait, ReadFails, Running, CreditStep, devVars, transportVars
<1>2. ASSUME NEW e \in Incoming, OnCmdEvent(e)
      PROVE  /\ line' = line /\ Running /\ evtq' = Tail(evtq) /\ IsCmdEvent(e)
             /\ (ncmds' = e.n /\ cmdq' = cmdq) \/ \E credits, c : flush_hci(credits, c)
  BY <1>2 DEF OnCmdEvent, OnCmdStatus, OnCompleteIgnored, OnConfigFailed, OnConfigStep, OnConfigured,
       Got, Receive, Running, IsCmdEvent
<1>3. ASSUME NEW e \in Incoming, OnInquiryEvent(e) \/ OnKeyRequest(e) \/ OnOther(e)
      PROVE  /\ line' = line /\ Running /\ evtq' = Tail(evtq) /\ ~IsCmdEvent(e)
             /\ UNCHANGED <<ncmds, cmdq>> \/ \E credits, c : flush_hci(credits, c)
  BY <1>3 DEF OnInquiryEvent, OnInquiryResult, OnInquiryIgnored, OnInquiryComplete, OnInquiryFailed,
       OnKeyRequest, OnOther, Got, Receive, Running, IsCmdEvent, devVars
<1>4. ASSUME NEW e \in Incoming, OnConnEvent(e)
      PROVE  /\ line' = line /\ Running /\ evtq' = Tail(evtq) /\ ~IsCmdEvent(e)
             /\ UNCHANGED <<ncmds, cmdq>> \/ \E credits, c : flush_hci(credits, c)
  BY <1>4 DEF OnConnEvent, OnConnRequestAccepted, OnConnRequestRejected, OnUnwantedConnection,
       OnConnected, OnNoFreeAcl, OnConnectFailed, OnDisconnected, OnDisconnectedUnknown,
       OnDisconnectFailed, Got, Receive, Running, IsCmdEvent, devVars
<1> QED
  BY <1>1, <1>2, <1>3, <1>4 DEF bt_hci_main, unpack_hci, CreditStep

LEMMA HostCreditInv ==
  ASSUME CreditInv, bt_hci_main, UNCHANGED owed, TypeOK'
  PROVE  CreditInv'
<1>0. TypeOK /\ ZeroFollowed /\ NoCreditStarvation /\ line' = line /\ Running /\ CreditStep
  BY HostCredits DEF CreditInv
<1>1. Len(evtq) \in Nat
  BY <1>0 DEF TypeOK, TransportTypeOK
<1>2. ZeroFollowed'
  <2>1. CASE evtq' = evtq
    BY <1>0, <2>1 DEF ZeroFollowed, IsCmdEvent
  <2>2. CASE evtq # <<>> /\ evtq' = Tail(evtq)
    <3> SUFFICES ASSUME NEW k \in 1..Len(evtq'), IsCmdEvent(evtq'[k]), evtq'[k].n = 0, ~owed
                 PROVE  \E j \in (k + 1)..Len(evtq') : IsCmdEvent(evtq'[j])
      BY DEF ZeroFollowed, IsCmdEvent
    <3>1. k + 1 \in 1..Len(evtq) /\ evtq'[k] = evtq[k + 1]
      BY <1>0, <2>2, OneRead
    <3>2. PICK j \in ((k + 1) + 1)..Len(evtq) : IsCmdEvent(evtq[j])
      BY <1>0, <3>1 DEF ZeroFollowed
    <3>3. j \in 1..Len(evtq) /\ j # 1 /\ j - 1 \in Int /\ j - 1 >= k + 1
      BY <1>1, <3>1, <3>2
    <3>4. j - 1 \in 1..Len(evtq') /\ evtq'[j - 1] = evtq[j]
      BY <1>0, <2>2, <3>3, OneRead
    <3>5. j - 1 \in (k + 1)..Len(evtq')
      BY <3>3, <3>4
    <3> QED
      BY <3>2, <3>4, <3>5
  <2> QED
    BY <2>1, <2>2, HostReads
<1>3. ASSUME Running', line', ncmds' = 0
      PROVE  CreditReportComing'
  <2>1. CASE evtq' = evtq /\ UNCHANGED <<ncmds, cmdq>>
    BY <1>0, <1>3, <2>1 DEF NoCreditStarvation, CreditReportComing, IsCmdEvent
  <2>2. CASE \E credits, c : flush_hci(credits, c)
    BY <1>0, <1>3, <2>2, LineSends DEF CreditReportComing
  <2>3. ASSUME NEW e \in Incoming, evtq' = Tail(evtq), cmdq' = cmdq,
               \/ IsCmdEvent(e) /\ ncmds' = e.n
               \/ ~IsCmdEvent(e) /\ UNCHANGED ncmds
        PROVE  CreditReportComing'
    <3>1. evtq # <<>> /\ 1 \in 1..Len(evtq) /\ e = evtq[1]
      BY <1>0, IncomingFirst DEF Incoming
    <3>2. SUFFICES ASSUME ~owed, cmdq = <<>> PROVE \E k \in 1..Len(evtq') : IsCmdEvent(evtq'[k])
      BY <2>3 DEF CreditReportComing, IsCmdEvent
    <3>3. \E k \in 1..Len(evtq) : k # 1 /\ IsCmdEvent(evtq[k])
      <4>1. CASE IsCmdEvent(e) /\ ncmds' = e.n
        <5>1. PICK j \in (1 + 1)..Len(evtq) : IsCmdEvent(evtq[j])
          BY <1>0, <1>3, <3>1, <3>2, <4>1 DEF ZeroFollowed
        <5>2. j \in 1..Len(evtq) /\ j # 1
          BY <1>1, <5>1
        <5> QED
          BY <5>1, <5>2
      <4>2. CASE ~IsCmdEvent(e) /\ UNCHANGED ncmds
        BY <1>0, <1>3, <3>1, <3>2, <4>2 DEF NoCreditStarvation, CreditReportComing
      <4> QED
        BY <2>3, <4>1, <4>2
    <3> QED
      BY <1>0, <2>3, <3>1, <3>3, OneRead
  <2> QED
    BY <1>0, <2>1, <2>2, <2>3 DEF CreditStep
<1> QED
  BY <1>2, <1>3 DEF CreditInv, NoCreditStarvation

LEMMA CommandCreditInv ==
  ASSUME CreditInv, CommandTaken, TypeOK'
  PROVE  CreditInv'
<1>0. TypeOK /\ ZeroFollowed /\ Reported(cmdq[1].op)
  BY CommandReported DEF CreditInv
<1>1. PICK r \in CmdEvents :
        /\ Len(evtq) \in Nat /\ Len(evtq) + 1 \in 1..Len(evtq') /\ evtq'[Len(evtq) + 1] = r
        /\ \A k \in 1..Len(evtq) : k \in 1..Len(evtq') /\ evtq'[k] = evtq[k]
        /\ \A k \in 1..Len(evtq') : k > Len(evtq) + 1 => ~IsCmdEvent(evtq'[k])
        /\ owed' = (r.n = 0)
  BY <1>0, ReportedBehind
<1>2. IsCmdEvent(r)
  BY DEF CmdEvents, IsCmdEvent
<1>3. ZeroFollowed'
  <2> SUFFICES ASSUME NEW k \in 1..Len(evtq'), IsCmdEvent(evtq'[k]), evtq'[k].n = 0
               PROVE  owed' \/ \E j \in (k + 1)..Len(evtq') : IsCmdEvent(evtq'[j])
    BY DEF ZeroFollowed, IsCmdEvent
  <2>1. CASE k = Len(evtq) + 1
    BY <1>1, <2>1
  <2>2. CASE k < Len(evtq) + 1
    <3>1. Len(evtq) + 1 \in (k + 1)..Len(evtq')
      BY <1>1, <2>2
    <3> QED
      BY <1>1, <1>2, <3>1
  <2>3. k = Len(evtq) + 1 \/ k < Len(evtq) + 1
    BY <1>1
  <2> QED
    BY <2>1, <2>2, <2>3
<1>4. NoCreditStarvation'
  BY <1>1, <1>2 DEF NoCreditStarvation, CreditReportComing, IsCmdEvent
<1> QED
  BY <1>3, <1>4 DEF CreditInv

\* An event sent behind the others, that is no report or a report of credits.
LEMMA EventCreditInv ==
  ASSUME CreditInv, TypeOK', UNCHANGED <<hostVars, cmdq, line>>,
         NEW e \in Events, evtq' = evtq \o <<e>>,
         IF IsCmdEvent(e) THEN e.n # 0 ELSE owed' = owed
  PROVE  CreditInv'
<1>0. TypeOK /\ ZeroFollowed /\ NoCreditStarvation
  BY DEF CreditInv
<1>1. /\ Len(evtq) \in Nat /\ Len(evtq') = Len(evtq) + 1 /\ evtq'[Len(evtq) + 1] = e
      /\ \A k \in 1..Len(evtq) : k \in 1..Len(evtq') /\ evtq'[k] = evtq[k]
  BY <1>0, OneSent
<1>2. ZeroFollowed'
  <2> SUFFICES ASSUME NEW k \in 1..Len(evtq'), IsCmdEvent(evtq'[k]), evtq'[k].n = 0
               PROVE  owed' \/ \E j \in (k + 1)..Len(evtq') : IsCmdEvent(evtq'[j])
    BY DEF ZeroFollowed, IsCmdEvent
  <2>1. k \in 1..Len(evtq) /\ evtq'[k] = evtq[k]
    <3>1. k # Len(evtq) + 1
      BY <1>1
    <3> QED
      BY <1>1, <3>1
  <2>2. CASE IsCmdEvent(e)
    <3>1. Len(evtq) + 1 \in (k + 1)..Len(evtq')
      BY <1>1, <2>1
    <3> QED
      BY <1>1, <2>2, <3>1
  <2>3. CASE ~IsCmdEvent(e)
    <3>1. owed' = owed /\ (owed \/ \E j \in (k + 1)..Len(evtq) : IsCmdEvent(evtq[j]))
      BY <1>0, <2>1, <2>3 DEF ZeroFollowed
    <3>2. ASSUME NEW j \in (k + 1)..Len(evtq)
          PROVE  j \in (k + 1)..Len(evtq') /\ evtq'[j] = evtq[j]
      BY <1>1, <2>1
    <3> QED
      BY <3>1, <3>2
  <2> QED
    BY <2>2, <2>3
<1>3. NoCreditStarvation'
  <2>1. \A k \in 1..Len(evtq) : IsCmdEvent(evtq[k]) => IsCmdEvent(evtq'[k])
    BY <1>1
  <2>2. Len(evtq) + 1 \in 1..Len(evtq')
    BY <1>1
  <2>3. CreditReportComing => CreditReportComing'
    BY <1>1, <2>1, <2>2 DEF CreditReportComing, IsCmdEvent
  <2> QED
    BY <1>0, <2>3 DEF NoCreditStarvation, Running, hostVars, devVars
<1> QED
  BY <1>2, <1>3 DEF CreditInv

\* A host that starts again has its one credit, and what is left of the queue ends
\* as the queue did.
LEMMA BootCreditInv ==
  ASSUME CreditInv, Boot, TypeOK'
  PROVE  CreditInv'
<1>0. TypeOK /\ ZeroFollowed /\ Reopened /\ owed' = owed
  BY DEF CreditInv, Boot, ctlVars
<1>1. PICK m \in Nat : /\ Len(evtq) = m + Len(evtq')
                       /\ \A k \in 1..Len(evtq') : m + k \in 1..Len(evtq) /\ evtq'[k] = evtq[m + k]
  BY <1>0, SuffixLeft
<1>2. Len(evtq') \in Nat
  BY DEF TypeOK, TransportTypeOK
<1>3. ZeroFollowed'
  <2> SUFFICES ASSUME NEW k \in 1..Len(evtq'), IsCmdEvent(evtq'[k]), evtq'[k].n = 0, ~owed
               PROVE  \E j \in (k + 1)..Len(evtq') : IsCmdEvent(evtq'[j])
    BY <1>0 DEF ZeroFollowed, IsCmdEvent
  <2>1. PICK j \in (m + k + 1)..Len(evtq) : IsCmdEvent(evtq[j])
    BY <1>0, <1>1 DEF ZeroFollowed
  <2>2. j - m \in (k + 1)..Len(evtq') /\ j - m \in 1..Len(evtq') /\ m + (j - m) = j
    BY <1>1, <1>2, <2>1
  <2>3. evtq'[j - m] = evtq[j]
    BY <1>1, <2>2
  <2> QED
    BY <2>1, <2>2, <2>3
<1>4. NoCreditStarvation'
  BY DEF Boot, dev_init, NoCreditStarvation
<1> QED
  BY <1>3, <1>4 DEF CreditInv

LEMMA NextCreditInv == CreditInv /\ [Next]_vars => CreditInv'
<1> SUFFICES ASSUME CreditInv, [Next]_vars PROVE CreditInv'
  OBVIOUS
<1>0. TypeOK /\ TypeOK'
  BY NextTypeOK DEF CreditInv
<1>1. CASE Host
  BY <1>0, <1>1, HostCreditInv DEF Host, ctlVars
<1>2. CASE CommandTaken
  BY <1>0, <1>2, CommandCreditInv
<1>3. CASE CreditGranted
  <2>1. PICK n \in Grants \ {0} : evtq' = evtq \o <<CmdStatus("none", TRUE, n)>>
    BY <1>3 DEF CreditGranted, CtlGrant, Send
  <2> DEFINE e == CmdStatus("none", TRUE, n)
  <2>2. e \in Events
    BY EventType
  <2>3. IsCmdEvent(e) /\ e.n # 0
    BY DEF CmdStatus, IsCmdEvent
  <2> HIDE DEF e
  <2>4. evtq' = evtq \o <<e>>
    BY <2>1 DEF e
  <2>5. UNCHANGED <<hostVars, cmdq, line>>
    BY <1>3 DEF CreditGranted, CtlGrant
  <2> QED
    BY <1>0, <2>2, <2>3, <2>4, <2>5, EventCreditInv
<1>4. CASE EventSent
  BY <1>0, <1>4, EventReported, EventCreditInv
<1>5. CASE Boot
  BY <1>0, <1>5, BootCreditInv
<1>6. CASE LineLost
  <2>1. line' = FALSE /\ UNCHANGED <<evtq, owed>>
    BY <1>6 DEF LineLost, Hangup, ctlVars
  <2>2. ZeroFollowed'
    BY <2>1 DEF CreditInv, ZeroFollowed, IsCmdEvent
  <2>3. NoCreditStarvation'
    BY <2>1 DEF NoCreditStarvation
  <2> QED
    BY <1>0, <2>2, <2>3 DEF CreditInv
<1>7. CASE UNCHANGED vars
  <2>1. UNCHANGED <<pc, ncmds, cmdq, evtq, line, owed>>
    BY <1>7 DEF vars, hostVars, transportVars, ctlVars
  <2> QED
    BY <1>0, <2>1 DEF CreditInv, ZeroFollowed, NoCreditStarvation, CreditReportComing, Running, IsCmdEvent
<1> QED
  BY <1>1, <1>2, <1>3, <1>4, <1>5, <1>6, <1>7 DEF Next

\* A running host without credits is told of new ones: a command of its own waits
\* to be answered, a report is in the queue, or the controller owes one.  Its
\* main loop, which sends nothing while ncmds is 0 (bt_hci.c:692), is not shut out,
\* in whatever order reports and other events come and wherever it starts again.
THEOREM CreditsComeBack == Spec => []NoCreditStarvation
<1>1. Init => CreditInv
  <2> SUFFICES ASSUME Init PROVE CreditInv
    OBVIOUS
  <2>1. evtq = <<>> /\ Len(evtq) = 0 /\ ncmds = 1
    BY EmptySeq DEF Init, TransportInit, DevInit
  <2>2. 1..Len(evtq) = {}
    BY <2>1
  <2> QED
    BY <2>1, <2>2, InitTypeOK DEF CreditInv, ZeroFollowed, NoCreditStarvation
<1>2. CreditInv => NoCreditStarvation
  BY DEF CreditInv
<1> QED
  BY <1>1, <1>2, NextCreditInv, PTL DEF Spec

-----------------------------------------------------------------------------
(* Counting the elements of a queue that belong to a set *)

Marked(q, S) == {k \in 1..Len(q) : q[k] \in S}

LEMMA MarkedFinite ==
  ASSUME NEW T, NEW q \in Seq(T), NEW S
  PROVE  IsFiniteSet(Marked(q, S)) /\ Cardinality(Marked(q, S)) \in Nat
<1>1. Len(q) \in Int /\ 1 \in Int
  OBVIOUS
<1>2. IsFiniteSet(1..Len(q))
  BY <1>1, FS_Interval
<1>3. Marked(q, S) \in SUBSET (1..Len(q))
  BY DEF Marked
<1> QED
  BY <1>2, <1>3, FS_Subset, FS_CardinalityType

\* When more stands behind a queue, and only the first of it may be marked.
LEMMA MarkedBehind ==
  ASSUME NEW T, NEW q \in Seq(T), NEW p \in Seq(T), NEW S,
         Len(q) <= Len(p), \A k \in 1..Len(q) : p[k] = q[k],
         \A k \in 1..Len(p) : k > Len(q) + 1 => p[k] \notin S
  PROVE  Cardinality(Marked(p, S)) =
           IF Len(q) < Len(p) /\ p[Len(q) + 1] \in S THEN Cardinality(Marked(q, S)) + 1
                                                     ELSE Cardinality(Marked(q, S))
<1>1. Len(q) \in Nat /\ Len(p) \in Nat
  OBVIOUS
<1>2. Len(q) + 1 \notin Marked(q, S)
  BY <1>1 DEF Marked
<1>3. \A k \in 1..Len(p) : k \in 1..Len(q) \/ (k = Len(q) + 1 /\ Len(q) < Len(p)) \/ k > Len(q) + 1
  BY <1>1
<1>4. \A k \in 1..Len(q) : k \in 1..Len(p)
  BY <1>1
<1>5. CASE Len(q) < Len(p) /\ p[Len(q) + 1] \in S
  <2>1. Len(q) + 1 \in 1..Len(p)
    BY <1>1, <1>5
  <2>2. Marked(p, S) = Marked(q, S) \cup {Len(q) + 1}
    BY <1>3, <1>4, <1>5, <2>1 DEF Marked
  <2> QED
    BY <1>2, <1>5, <2>2, MarkedFinite, FS_AddElement
<1>6. CASE ~(Len(q) < Len(p) /\ p[Len(q) + 1] \in S)
  <2>1. Marked(p, S) = Marked(q, S)
    BY <1>3, <1>4, <1>6 DEF Marked
  <2> QED
    BY <1>6, <2>1
<1> QED
  BY <1>5, <1>6

\* When the queue is cut to what stands behind its first m elements.
LEMMA MarkedLeft ==
  ASSUME NEW T, NEW q \in Seq(T), NEW p \in Seq(T), NEW S, NEW m \in Nat,
         Len(q) = m + Len(p), \A k \in 1..Len(p) : p[k] = q[m + k]
  PROVE  Cardinality(Marked(p, S)) <= Cardinality(Marked(q, S) \ (1..m))
<1> DEFINE f == [k \in Marked(p, S) |-> m + k]
<1>1. Len(q) \in Nat /\ Len(p) \in Nat
  OBVIOUS
<1>2. \A k \in 1..Len(p) : m + k \in 1..Len(q) /\ m + k \notin 1..m
  BY <1>1
<1>3. \A k \in Marked(p, S) : f[k] \in Marked(q, S) \ (1..m)
  BY <1>2 DEF Marked
<1>4. f \in Injection(Marked(p, S), Marked(q, S) \ (1..m))
  <2>1. \A a, b \in Marked(p, S) : m + a = m + b => a = b
    BY <1>1 DEF Marked
  <2> QED
    BY <1>3, <2>1 DEF Injection, IsInjective
<1>5. IsFiniteSet(Marked(q, S) \ (1..m))
  <2>1. IsFiniteSet(Marked(q, S)) /\ Marked(q, S) \ (1..m) \in SUBSET Marked(q, S)
    BY MarkedFinite
  <2> QED
    BY <2>1, FS_Subset
<1> HIDE DEF f
<1> QED
  BY <1>4, <1>5, FS_Injection

LEMMA MarkedSuffix ==
  ASSUME NEW T, NEW q \in Seq(T), NEW p \in Seq(T), NEW S, NEW m \in Nat,
         Len(q) = m + Len(p), \A k \in 1..Len(p) : p[k] = q[m + k]
  PROVE  Cardinality(Marked(p, S)) <= Cardinality(Marked(q, S))
<1> DEFINE R == Marked(q, S) \ (1..m)
<1>1. Cardinality(Marked(p, S)) <= Cardinality(R)
  BY MarkedLeft
<1>2. IsFiniteSet(Marked(q, S)) /\ R \in SUBSET Marked(q, S)
  BY MarkedFinite
<1>3. Cardinality(Marked(p, S)) \in Nat /\ Cardinality(Marked(q, S)) \in Nat
  BY MarkedFinite
<1> HIDE DEF R
<1>4. IsFiniteSet(R) /\ Cardinality(R) <= Cardinality(Marked(q, S))
  BY <1>2, FS_Subset
<1>5. Cardinality(R) \in Nat
  BY <1>4, FS_CardinalityType
<1> QED
  BY <1>1, <1>3, <1>4, <1>5

\* When the head is taken.
LEMMA MarkedTail ==
  ASSUME NEW T, NEW q \in Seq(T), NEW p \in Seq(T), NEW S,
         Len(q) = 1 + Len(p), \A k \in 1..Len(p) : p[k] = q[1 + k], q[1] \in S
  PROVE  Cardinality(Marked(p, S)) < Cardinality(Marked(q, S))
<1>1. Len(q) \in Nat /\ Len(p) \in Nat /\ 1 \in 1..Len(q)
  OBVIOUS
<1>2. 1 \in Marked(q, S)
  BY <1>1 DEF Marked
<1>3. Cardinality(Marked(p, S)) <= Cardinality(Marked(q, S) \ (1..1))
  BY MarkedLeft
<1>4. 1..1 = {1}
  OBVIOUS
<1>5. Cardinality(Marked(q, S) \ {1}) = Cardinality(Marked(q, S)) - 1
  BY <1>2, MarkedFinite, FS_RemoveElement
<1>6. Cardinality(Marked(p, S)) \in Nat /\ Cardinality(Marked(q, S)) \in Nat
  BY MarkedFinite
<1> QED
  BY <1>3, <1>4, <1>5, <1>6

-----------------------------------------------------------------------------
(* The commands and completions of the initialisation under way *)

HandshakeCommands == {c \in Commands : c.op \in ConfigOps}
HandshakeCompletions == {e \in Events : e.code = "cmd_complete" /\ e.op \in ConfigOps}

CommandCount == Cardinality(ConfigCommands)
CompletionCount == Cardinality(ConfigCompletions)

\* Sums of the two counts, for the counts of a step.
LEMMA Sums ==
  ASSUME NEW a \in Nat, NEW b \in Nat, NEW c \in Nat, NEW d \in Nat
  PROVE  /\ a <= c /\ b <= d => a + b <= c + d
         /\ a <= c + 1 /\ b <= d => a + b <= c + d + 1
         /\ a <= c + 1 /\ b < d => a + b <= c + d
         /\ a < c /\ b <= d + 1 => a + b <= c + d
         /\ a = c => a <= c
         /\ a + b \in Nat
OBVIOUS

LEMMA Below ==
  ASSUME NEW x \in Nat, NEW y \in Nat, NEW s \in Nat
  PROVE  (x <= y /\ y <= s => x <= s) /\ (x <= y /\ y < s => x < s)
OBVIOUS

LEMMA BoundedSums ==
  ASSUME NEW a \in Nat, NEW b \in Nat, NEW c \in Nat, NEW d \in Nat, NEW s \in Nat
  PROVE  /\ a + b <= c + d + 1 /\ c + d < s => a + b <= s
         /\ a = c /\ b <= d /\ c + d <= s => a + b < s + 1 /\ a + b <= s + 1
OBVIOUS

LEMMA Counts ==
  ASSUME TypeOK
  PROVE  /\ CommandCount = Cardinality(Marked(cmdq, HandshakeCommands)) /\ CommandCount \in Nat
         /\ CompletionCount = Cardinality(Marked(evtq, HandshakeCompletions)) /\ CompletionCount \in Nat
<1>1. cmdq \in Seq(Commands) /\ evtq \in Seq(Events)
  BY DEF TypeOK, TransportTypeOK
<1>2. ConfigCommands = Marked(cmdq, HandshakeCommands)
  BY <1>1, ElementOfSeq DEF ConfigCommands, Marked, HandshakeCommands
<1>3. ConfigCompletions = Marked(evtq, HandshakeCompletions)
  BY <1>1, ElementOfSeq DEF ConfigCompletions, Marked, HandshakeCompletions
<1> QED
  BY <1>1, <1>2, <1>3, MarkedFinite DEF CommandCount, CompletionCount

LEMMA PrimedCounts ==
  ASSUME TypeOK'
  PROVE  /\ CommandCount' = Cardinality(Marked(cmdq', HandshakeCommands)) /\ CommandCount' \in Nat
         /\ CompletionCount' = Cardinality(Marked(evtq', HandshakeCompletions)) /\ CompletionCount' \in Nat
<1>1. cmdq' \in Seq(Commands) /\ evtq' \in Seq(Events)
  BY DEF TypeOK, TransportTypeOK
<1>2. ConfigCommands' = Marked(cmdq', HandshakeCommands)
  BY <1>1, ElementOfSeq DEF ConfigCommands, Marked, HandshakeCommands
<1>3. ConfigCompletions' = Marked(evtq', HandshakeCompletions)
  BY <1>1, ElementOfSeq DEF ConfigCompletions, Marked, HandshakeCompletions
<1> QED
  BY <1>1, <1>2, <1>3, MarkedFinite DEF CommandCount, CompletionCount

\* A command that is sent adds itself, when it is one of the initialisation and the
\* line is up.
LEMMA SendCounts ==
  ASSUME TypeOK, TypeOK', NEW c, bt_serial_send(c)
  PROVE  CommandCount' <= CommandCount + 1 /\ (c.op \notin ConfigOps => CommandCount' = CommandCount)
<1>0. cmdq \in Seq(Commands) /\ cmdq' \in Seq(Commands)
  BY DEF TypeOK, TransportTypeOK
<1>1. CASE cmdq' = cmdq
  BY <1>1, Counts, PrimedCounts
<1>2. CASE cmdq' = Append(cmdq, c)
  <2>1. Len(cmdq') = Len(cmdq) + 1 /\ cmdq'[Len(cmdq) + 1] = c /\ \A k \in 1..Len(cmdq) : cmdq'[k] = cmdq[k]
    BY <1>0, <1>2, AppendAny
  <2>2. Len(cmdq) \in Nat
    BY <1>0
  <2>3. Len(cmdq) <= Len(cmdq') /\ \A k \in 1..Len(cmdq') : ~(k > Len(cmdq) + 1)
    BY <2>1, <2>2
  <2>4. Cardinality(Marked(cmdq', HandshakeCommands)) =
          IF Len(cmdq) < Len(cmdq') /\ cmdq'[Len(cmdq) + 1] \in HandshakeCommands
            THEN Cardinality(Marked(cmdq, HandshakeCommands)) + 1
            ELSE Cardinality(Marked(cmdq, HandshakeCommands))
    BY <1>0, <2>1, <2>3, MarkedBehind
  <2>5. c \in HandshakeCommands => c.op \in ConfigOps
    BY DEF HandshakeCommands
  <2> QED
    BY <2>1, <2>4, <2>5, Counts, PrimedCounts
<1> QED
  BY <1>1, <1>2 DEF bt_serial_send

\* An event that is read takes itself away.
LEMMA ReadCounts ==
  ASSUME TypeOK, TypeOK', evtq # <<>>, evtq' = Tail(evtq)
  PROVE  /\ CompletionCount' <= CompletionCount
         /\ evtq[1] \in HandshakeCompletions => CompletionCount' < CompletionCount
<1>0. evtq \in Seq(Events) /\ evtq' \in Seq(Events)
  BY DEF TypeOK, TransportTypeOK
<1>1. /\ Len(evtq) \in Nat /\ Len(evtq') = Len(evtq) - 1
      /\ \A k \in 1..Len(evtq') : evtq'[k] = evtq[k + 1]
  BY OneRead
<1>2. Len(evtq) = 1 + Len(evtq') /\ \A k \in 1..Len(evtq') : evtq'[k] = evtq[1 + k]
  <2>1. \A k \in 1..Len(evtq') : 1 + k = k + 1
    OBVIOUS
  <2> QED
    BY <1>1, <2>1
<1>3. Cardinality(Marked(evtq', HandshakeCompletions)) <= Cardinality(Marked(evtq, HandshakeCompletions))
  BY <1>0, <1>2, MarkedSuffix
<1>4. evtq[1] \in HandshakeCompletions =>
        Cardinality(Marked(evtq', HandshakeCompletions)) < Cardinality(Marked(evtq, HandshakeCompletions))
  BY <1>0, <1>2, MarkedTail
<1> QED
  BY <1>3, <1>4, Counts, PrimedCounts

\* A step of the host adds a command when it starts its own handshake, and otherwise
\* at most the one it reads the completion of the one before for.
LEMMA HostCounts ==
  ASSUME TypeOK, TypeOK', bt_hci_main
  PROVE  \/ /\ CommandCount' + CompletionCount' <= CommandCount + CompletionCount
            /\ dev_state' = "RESET" => dev_state = "RESET"
         \/ /\ CommandCount' + CompletionCount' <= CommandCount + CompletionCount + 1
            /\ dev_state = "RESET" /\ dev_state' # "RESET"
<1>0. /\ CommandCount \in Nat /\ CommandCount' \in Nat
      /\ CompletionCount \in Nat /\ CompletionCount' \in Nat
  BY Counts, PrimedCounts
<1>1. CompletionCount' <= CompletionCount
  <2>1. CASE evtq' = evtq
    BY <1>0, <2>1, Counts, PrimedCounts
  <2> QED
    BY <2>1, HostReads, ReadCounts
<1>2. CASE SendsPlain
  <2>1. CommandCount' = CommandCount
    <3>1. CASE cmdq' = cmdq
      BY <3>1, Counts, PrimedCounts
    <3> QED
      BY <1>2, <3>1, SendCounts DEF SendsPlain
  <2>2. dev_state' = "RESET" => dev_state = "RESET"
    BY DEF bt_hci_main, LoopTop, LoopReset, LoopReady, LoopWait, ReadFails, unpack_hci, devVars,
       OnCmdEvent, OnCmdStatus, OnCompleteIgnored, OnConfigFailed, OnConfigStep, OnConfigured,
       OnInquiryEvent, OnInquiryResult, OnInquiryIgnored, OnInquiryComplete, OnInquiryFailed,
       OnConnEvent, OnConnRequestAccepted, OnConnRequestRejected, OnUnwantedConnection,
       OnConnected, OnNoFreeAcl, OnConnectFailed, OnDisconnected, OnDisconnectedUnknown,
       OnDisconnectFailed, OnKeyRequest, OnOther
  <2>3. CommandCount' + CompletionCount' <= CommandCount + CompletionCount
    BY <1>0, <1>1, <2>1, Sums
  <2> QED
    BY <2>2, <2>3
<1>3. CASE LoopReset
  <2>1. CommandCount' <= CommandCount + 1
    BY <1>3, SendCounts DEF LoopReset, flush_hci
  <2>2. CommandCount' + CompletionCount' <= CommandCount + CompletionCount + 1
    BY <1>0, <1>1, <2>1, Sums
  <2>3. dev_state = "RESET" /\ dev_state' # "RESET"
    BY <1>3 DEF LoopReset
  <2> QED
    BY <2>2, <2>3
<1>4. ASSUME NEW e \in Incoming, OnConfigStep(e)
      PROVE  CommandCount' + CompletionCount' <= CommandCount + CompletionCount /\ dev_state' = dev_state
  <2>1. CommandCount' <= CommandCount + 1
    BY <1>4, SendCounts DEF OnConfigStep, flush_hci
  <2>2. evtq # <<>> /\ evtq' = Tail(evtq) /\ evtq[1] = e /\ e \in Events
    BY <1>4, HeadTailProperties DEF OnConfigStep, Got, Receive, Incoming, TypeOK, TransportTypeOK
  <2>3. e \in HandshakeCompletions
    BY <1>4, <2>2 DEF OnConfigStep, Got, Configuring, HandshakeCompletions
  <2>4. CompletionCount' < CompletionCount
    BY <2>2, <2>3, ReadCounts
  <2>5. CommandCount' + CompletionCount' <= CommandCount + CompletionCount
    BY <1>0, <2>1, <2>4, Sums
  <2>6. dev_state' = dev_state
    BY <1>4 DEF OnConfigStep
  <2> QED
    BY <2>5, <2>6
<1> QED
  BY <1>2, <1>3, <1>4, HostSends

\* A command the controller takes leaves its completion in its place.
LEMMA CommandTakenCounts ==
  ASSUME TypeOK, TypeOK', CommandTaken
  PROVE  CommandCount' + CompletionCount' <= CommandCount + CompletionCount
<1>0. /\ CommandCount \in Nat /\ CommandCount' \in Nat
      /\ CompletionCount \in Nat /\ CompletionCount' \in Nat
  BY Counts, PrimedCounts
<1>1. /\ cmdq \in Seq(Commands) /\ cmdq' \in Seq(Commands)
      /\ evtq \in Seq(Events) /\ evtq' \in Seq(Events)
  BY DEF TypeOK, TransportTypeOK
<1>2. cmdq # <<>> /\ Reported(cmdq[1].op) /\ cmdq' = Tail(cmdq) /\ cmdq[1] \in Commands
  <2>1. cmdq # <<>> /\ Reported(cmdq[1].op)
    BY CommandReported
  <2>2. cmdq' = Tail(cmdq)
    BY <2>1 DEF Reported
  <2>3. cmdq[1] \in Commands
    BY <1>1, <2>1, ElementOfSeq, HeadTailProperties
  <2> QED
    BY <2>1, <2>2, <2>3
<1>3. PICK r \in CmdEvents :
        /\ Len(evtq) \in Nat /\ Len(evtq) + 1 \in 1..Len(evtq') /\ evtq'[Len(evtq) + 1] = r
        /\ \A k \in 1..Len(evtq) : k \in 1..Len(evtq') /\ evtq'[k] = evtq[k]
        /\ \A k \in 1..Len(evtq') : k > Len(evtq) + 1 => ~IsCmdEvent(evtq'[k])
        /\ r.op = cmdq[1].op
  BY <1>2, ReportedBehind
<1>4. /\ CompletionCount' <= CompletionCount + 1
      /\ cmdq[1].op \notin ConfigOps => CompletionCount' = CompletionCount
  <2>1. \A k \in 1..Len(evtq') : k > Len(evtq) + 1 => evtq'[k] \notin HandshakeCompletions
    BY <1>3 DEF HandshakeCompletions, IsCmdEvent
  <2>2. Len(evtq) <= Len(evtq')
    BY <1>1, <1>3
  <2>3. Cardinality(Marked(evtq', HandshakeCompletions)) =
          IF Len(evtq) < Len(evtq') /\ evtq'[Len(evtq) + 1] \in HandshakeCompletions
            THEN Cardinality(Marked(evtq, HandshakeCompletions)) + 1
            ELSE Cardinality(Marked(evtq, HandshakeCompletions))
    BY <1>1, <1>3, <2>1, <2>2, MarkedBehind
  <2>4. r \in HandshakeCompletions => cmdq[1].op \in ConfigOps
    BY <1>3 DEF HandshakeCompletions
  <2> QED
    BY <1>0, <1>3, <2>3, <2>4, Counts, PrimedCounts
<1>5. /\ CommandCount' <= CommandCount
      /\ cmdq[1].op \in ConfigOps => CommandCount' < CommandCount
  <2>1. Len(cmdq) = 1 + Len(cmdq') /\ \A k \in 1..Len(cmdq') : cmdq'[k] = cmdq[1 + k]
    <3>1. Len(cmdq') = Len(cmdq) - 1 /\ \A k \in 1..Len(cmdq') : cmdq'[k] = cmdq[k + 1]
      BY <1>1, <1>2, HeadTailProperties
    <3>2. Len(cmdq) \in Nat /\ \A k \in 1..Len(cmdq') : 1 + k = k + 1
      BY <1>1
    <3> QED
      BY <3>1, <3>2
  <2>2. Cardinality(Marked(cmdq', HandshakeCommands)) <= Cardinality(Marked(cmdq, HandshakeCommands))
    BY <1>1, <2>1, MarkedSuffix
  <2>3. cmdq[1] \in HandshakeCommands =>
          Cardinality(Marked(cmdq', HandshakeCommands)) < Cardinality(Marked(cmdq, HandshakeCommands))
    BY <1>1, <2>1, MarkedTail
  <2>4. cmdq[1].op \in ConfigOps => cmdq[1] \in HandshakeCommands
    BY <1>2 DEF HandshakeCommands
  <2> QED
    BY <2>2, <2>3, <2>4, Counts, PrimedCounts
<1>6. CASE cmdq[1].op \in ConfigOps
  BY <1>0, <1>4, <1>5, <1>6, Sums
<1>7. CASE cmdq[1].op \notin ConfigOps
  BY <1>0, <1>4, <1>5, <1>7, Sums
<1> QED
  BY <1>6, <1>7

\* An event that is no completion of the initialisation changes no count.
LEMMA EventCounts ==
  ASSUME TypeOK, TypeOK', cmdq' = cmdq, NEW e \in Events, e.code # "cmd_complete",
         Len(evtq') = Len(evtq) + 1, evtq'[Len(evtq) + 1] = e,
         \A k \in 1..Len(evtq) : evtq'[k] = evtq[k]
  PROVE  CommandCount' = CommandCount /\ CompletionCount' = CompletionCount
<1>1. evtq \in Seq(Events) /\ evtq' \in Seq(Events)
  BY DEF TypeOK, TransportTypeOK
<1>2. Len(evtq) \in Nat
  BY <1>1
<1>3. Len(evtq) <= Len(evtq') /\ \A k \in 1..Len(evtq') : ~(k > Len(evtq) + 1)
  BY <1>2
<1>3a. \A k \in 1..Len(evtq') : k > Len(evtq) + 1 => evtq'[k] \notin HandshakeCompletions
  BY <1>3
<1>4. Cardinality(Marked(evtq', HandshakeCompletions)) =
        IF Len(evtq) < Len(evtq') /\ evtq'[Len(evtq) + 1] \in HandshakeCompletions
          THEN Cardinality(Marked(evtq, HandshakeCompletions)) + 1
          ELSE Cardinality(Marked(evtq, HandshakeCompletions))
  BY <1>1, <1>3, <1>3a, MarkedBehind
<1>5. evtq'[Len(evtq) + 1] \notin HandshakeCompletions
  BY DEF HandshakeCompletions
<1> QED
  BY <1>4, <1>5, Counts, PrimedCounts

-----------------------------------------------------------------------------
(* Handshakes do not multiply *)

LEMMA NextHandshakeCount == HandshakeCountInv /\ [Next]_vars => HandshakeCountInv'
<1> SUFFICES ASSUME HandshakeCountInv, [Next]_vars PROVE HandshakeCountInv'
  OBVIOUS
<1>0. TypeOK /\ TypeOK' /\ boots \in Nat /\ boots' \in Nat
  BY NextTypeOK, StackAssumption DEF HandshakeCountInv, TypeOK
<1>1. /\ CommandCount \in Nat /\ CommandCount' \in Nat
      /\ CompletionCount \in Nat /\ CompletionCount' \in Nat
      /\ CommandCount + CompletionCount <= boots
      /\ dev_state = "RESET" => CommandCount + CompletionCount < boots
  BY <1>0, Counts, PrimedCounts
     DEF HandshakeCountInv, HandshakesConserved, OwnHandshakeToCome, CommandCount, CompletionCount
<1> SUFFICES /\ CommandCount' + CompletionCount' <= boots'
             /\ dev_state' = "RESET" => CommandCount' + CompletionCount' < boots'
  BY <1>0 DEF HandshakeCountInv, HandshakesConserved, OwnHandshakeToCome, CommandCount, CompletionCount
<1>1a. CommandCount + CompletionCount \in Nat /\ CommandCount' + CompletionCount' \in Nat
  BY <1>1, Sums
<1>2. CASE Host
  <2>1. boots' = boots /\ bt_hci_main
    BY <1>2 DEF Host
  <2>2. CASE /\ CommandCount' + CompletionCount' <= CommandCount + CompletionCount
             /\ dev_state' = "RESET" => dev_state = "RESET"
    BY <1>0, <1>1, <1>1a, <2>1, <2>2, Below
  <2>3. CASE /\ CommandCount' + CompletionCount' <= CommandCount + CompletionCount + 1
             /\ dev_state = "RESET" /\ dev_state' # "RESET"
    BY <1>0, <1>1, <2>1, <2>3, BoundedSums
  <2> QED
    BY <1>0, <2>1, <2>2, <2>3, HostCounts
<1>3. CASE CommandTaken
  <2>1. boots' = boots /\ dev_state' = dev_state
    BY <1>3 DEF CommandTaken, hostVars
  <2>2. CommandCount' + CompletionCount' <= CommandCount + CompletionCount
    BY <1>0, <1>3, CommandTakenCounts
  <2> QED
    BY <1>0, <1>1, <1>1a, <2>1, <2>2, Below
<1>4. CASE CreditGranted \/ EventSent
  <2>1. cmdq' = cmdq /\ \E e \in Events : e.code # "cmd_complete" /\ evtq' = evtq \o <<e>>
    <3>1. CASE CreditGranted
      BY <3>1, EventType DEF CreditGranted, CtlGrant, Send, CmdStatus
    <3>2. CASE EventSent
      BY <1>0, <3>2, EventReported DEF IsCmdEvent
    <3> QED
      BY <1>4, <3>1, <3>2
  <2>2. CommandCount' = CommandCount /\ CompletionCount' = CompletionCount
    <3>1. PICK e \in Events : e.code # "cmd_complete" /\ evtq' = evtq \o <<e>>
      BY <2>1
    <3>2. /\ Len(evtq') = Len(evtq) + 1 /\ evtq'[Len(evtq) + 1] = e
          /\ \A k \in 1..Len(evtq) : evtq'[k] = evtq[k]
      BY <1>0, <3>1, OneSent
    <3> QED
      BY <1>0, <2>1, <3>1, <3>2, EventCounts
  <2>3. boots' = boots /\ dev_state' = dev_state
    BY <1>4 DEF CreditGranted, EventSent, hostVars
  <2> QED
    BY <1>1, <2>2, <2>3
<1>5. CASE Boot
  <2>0. evtq \in Seq(Events) /\ evtq' \in Seq(Events) /\ cmdq' = cmdq /\ Reopened /\ boots' = boots + 1
    BY <1>0, <1>5 DEF Boot, TypeOK, TransportTypeOK
  <2>1. CompletionCount' <= CompletionCount
    <3>1. PICK m \in Nat : /\ Len(evtq) = m + Len(evtq')
                           /\ \A k \in 1..Len(evtq') : evtq'[k] = evtq[m + k]
      BY <1>0, <2>0, SuffixLeft
    <3>2. Cardinality(Marked(evtq', HandshakeCompletions)) <= Cardinality(Marked(evtq, HandshakeCompletions))
      BY <2>0, <3>1, MarkedSuffix
    <3> QED
      BY <1>0, <3>2, Counts, PrimedCounts
  <2>2. CommandCount' = CommandCount
    BY <1>0, <2>0, Counts, PrimedCounts
  <2> QED
    BY <1>0, <1>1, <2>0, <2>1, <2>2, BoundedSums
<1>6. CASE LineLost \/ UNCHANGED vars
  <2>1. UNCHANGED <<cmdq, evtq, dev_state, boots>>
    BY <1>6 DEF LineLost, Hangup, vars, hostVars, transportVars
  <2>2. CommandCount' = CommandCount /\ CompletionCount' = CompletionCount
    BY <1>0, <2>1, Counts, PrimedCounts
  <2> QED
    BY <1>1, <2>1, <2>2
<1> QED
  BY <1>2, <1>3, <1>4, <1>5, <1>6 DEF Next

LEMMA InitHandshakeCount == Init => HandshakeCountInv
<1> SUFFICES ASSUME Init PROVE HandshakeCountInv
  OBVIOUS
<1>1. ConfigCommands = {} /\ ConfigCompletions = {}
  <2>1. Len(cmdq) = 0 /\ Len(evtq) = 0
    BY EmptySeq DEF Init, TransportInit
  <2>2. 1..Len(cmdq) = {} /\ 1..Len(evtq) = {}
    BY <2>1
  <2> QED
    BY <2>2 DEF ConfigCommands, ConfigCompletions
<1>2. Cardinality(ConfigCommands) = 0 /\ Cardinality(ConfigCompletions) = 0
  BY <1>1, FS_EmptySet
<1>3. boots = 1
  BY DEF Init
<1> QED
  BY <1>2, <1>3, InitTypeOK DEF HandshakeCountInv, HandshakesConserved, OwnHandshakeToCome

\* However often the host is started again, each start has at most one handshake under
\* way: commands of the initialisation and their completions are never more than starts.
THEOREM HandshakesDoNotMultiply == Spec => []HandshakesConserved
<1>1. HandshakeCountInv => HandshakesConserved
  BY DEF HandshakeCountInv
<1> QED
  BY <1>1, InitHandshakeCount, NextHandshakeCount, PTL DEF Spec

=============================================================================
