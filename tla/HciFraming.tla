----------------------------- MODULE HciFraming -----------------------------
(***************************************************************************)
(* bt_dev_read_hci(), bt_hci_unpack_hci() and the head of                  *)
(* bt_hci_unpack_evt(): how the host cuts the bytes it reads one by one    *)
(* from the line into packets.  Of an ACL or SCO packet, as of a byte that *)
(* is no packet type, one byte is read and the round is over.              *)
(*                                                                         *)
(* The controller sends packets, sequences of bytes; the host does not see *)
(* where they begin.                                                       *)
(***************************************************************************)
EXTENDS Integers, Sequences

CONSTANTS
  BufSize,      \* sizeof(dev->buf)
  EventCodes,   \* the second byte of an event
  ParamBytes,   \* values of the parameters of events
  MaxParams,    \* bound on their number; the length byte says how many
  DataBytes,    \* values of the bytes of data packets behind their type
  MaxData,      \* bound on their number
  MaxSent,      \* bound on the packets the controller sends
  MaxStarts     \* bound on the starts of the host

\* The code has no test for it: an event must fit into dev->buf.
ASSUME FramingAssumption ==
  /\ MaxParams \in Nat /\ BufSize \in Nat /\ MaxParams + 3 <= BufSize
  /\ EventCodes \subseteq Nat /\ ParamBytes \subseteq Nat /\ DataBytes \subseteq Nat
  /\ MaxData \in Nat \ {0} /\ MaxSent \in Nat /\ MaxStarts \in Nat \ {0}

VARIABLES
  wire,       \* packets sent and not read to their end
  off,        \* how many bytes of the first of them have been read
  buf,        \* dev->buf, as far as the round has filled it
  phase,      \* what is read: "type", "header" or "params"
  line,       \* FALSE when the tty is gone
  handed,     \* the events that reached their handlers
  sent,       \* packets sent so far
  starts,     \* starts of the host
  ambiguous   \* a byte that looks like an event's type was left for the host to find

framingVars == <<wire, off, buf, phase, line, handed, sent, starts, ambiguous>>

ACL == 2
SCO == 3
EVT == 4

Params == UNION {[1..n -> ParamBytes] : n \in 0..MaxParams}
EventPacket(code, ps) == <<EVT, code, Len(ps)>> \o ps
EventPackets == {EventPacket(code, ps) : code \in EventCodes, ps \in Params}
DataPackets == {<<t>> \o bs : t \in {ACL, SCO}, bs \in UNION {[1..n -> DataBytes] : n \in 1..MaxData}}

FramingTypeOK ==
  /\ wire \in Seq(EventPackets \cup DataPackets)
  /\ off \in Nat /\ (wire = <<>> => off = 0) /\ (wire # <<>> => off < Len(Head(wire)))
  /\ buf \in Seq(Nat) /\ phase \in {"type", "header", "params"}
  /\ line \in BOOLEAN /\ handed \in Seq(Seq(Nat))
  /\ sent \in 0..MaxSent /\ starts \in 1..MaxStarts /\ ambiguous \in BOOLEAN

FramingInit ==
  /\ wire = <<>> /\ off = 0 /\ buf = <<>> /\ phase = "type"
  /\ line = TRUE /\ handed = <<>> /\ sent = 0 /\ starts = 1 /\ ambiguous = FALSE

-----------------------------------------------------------------------------
(* The controller *)

\* The packet p holds a byte like an event's type behind its first k bytes.
Misleading(p, k) == \E i \in (k + 1)..Len(p) : p[i] = EVT

SendPacket(p) ==
  /\ line /\ sent < MaxSent /\ sent' = sent + 1
  /\ wire' = Append(wire, p)
  /\ ambiguous' = (ambiguous \/ (p \in DataPackets /\ Misleading(p, 1)))
  /\ UNCHANGED <<off, buf, phase, line, handed, starts>>

-----------------------------------------------------------------------------
(* A round of the host: one bt_dev_read_hci() *)

Byte == Head(wire)[off + 1]

\* read() of one byte.
ReadByte ==
  /\ line /\ wire # <<>>
  /\ IF off + 1 = Len(Head(wire)) THEN wire' = Tail(wire) /\ off' = 0
                                  ELSE wire' = wire /\ off' = off + 1
  /\ UNCHANGED <<line, sent, starts, ambiguous>>

\* A round that starts where the last one ended.
NextRoundBehind == phase' = "type" /\ UNCHANGED buf

\* dev->ptr = dev->buf: the next round starts with a type, at the start of buf.
NextRound == phase' = "type" /\ buf' = <<>>

\* dev_evt_acl, dev_evt_sco, or garbage: the rest of the packet stays on the line.
NotAnEvent ==
  /\ phase = "type" /\ ReadByte
  /\ Byte # EVT
  /\ NextRound
  /\ UNCHANGED handed

EventBegins ==
  /\ phase = "type" /\ ReadByte
  /\ Byte = EVT
  /\ phase' = "header" /\ buf' = Append(buf, Byte)
  /\ UNCHANGED handed

\* A loop that reads one byte too many.
CompleteLate(b) == Len(b) >= 3 /\ Len(b) = 4 + b[3]

\* HCI_EVT_SIZE bytes and as many as the last of them says.
Complete(b) == Len(b) >= 3 /\ Len(b) = 3 + b[3]

EventGoesOn ==
  /\ phase # "type" /\ ReadByte
  /\ LET b == Append(buf, Byte)
     IN  \/ Complete(b) /\ handed' = Append(handed, b) /\ NextRound
         \/ /\ ~Complete(b) /\ buf' = b /\ UNCHANGED handed
            /\ phase' = IF Len(b) < 3 THEN "header" ELSE "params"

\* dev_evt_timeout before the type, dev_evt_garbage behind it: what was read is dropped.
ReadFails ==
  /\ ~line
  /\ NextRound
  /\ UNCHANGED <<wire, off, line, handed, sent, starts, ambiguous>>

bt_dev_read_hci == NotAnEvent \/ EventBegins \/ EventGoesOn \/ ReadFails

-----------------------------------------------------------------------------
(* The host is killed and started again; the tty goes away *)

\* TCSAFLUSH drops the bytes that have come in, to any point: also in a packet.
Skip(k, j) ==
  /\ wire' = SubSeq(wire, k + 1, Len(wire))
  /\ off' = j
  /\ ambiguous' = (ambiguous \/ (j > 0 /\ Misleading(wire[k + 1], j)))

bt_serial_init ==
  /\ starts < MaxStarts /\ starts' = starts + 1
  /\ \/ Skip(Len(wire), 0)
     \/ \E k \in 0..(Len(wire) - 1) :
          \E j \in (IF k = 0 THEN off ELSE 0)..(Len(wire[k + 1]) - 1) : Skip(k, j)
  /\ NextRound
  /\ UNCHANGED <<line, handed, sent>>

Hangup ==
  /\ line /\ line' = FALSE
  /\ wire' = <<>> /\ off' = 0
  /\ UNCHANGED <<buf, phase, handed, sent, starts, ambiguous>>

-----------------------------------------------------------------------------
FramingNext ==
  \/ \E p \in EventPackets \cup DataPackets : SendPacket(p)
  \/ bt_dev_read_hci \/ bt_serial_init \/ Hangup

\* The loop calls bt_dev_read_hci() again and again.
FramingSpec == FramingInit /\ [][FramingNext]_framingVars /\ WF_framingVars(bt_dev_read_hci)

-----------------------------------------------------------------------------
(* Properties *)

\* The host is in step: where it looks for a type it is at the start of a packet
\* or skips the rest of one in which nothing looks like an event; and an event it
\* reads is the one that was sent, at the start of dev->buf and within it.
InStep ==
  IF phase = "type"
    THEN buf = <<>> /\ (off > 0 => ~Misleading(Head(wire), off))
    ELSE line => /\ wire # <<>> /\ off = Len(buf) /\ buf = SubSeq(Head(wire), 1, off)
                 /\ Head(wire) \in EventPackets /\ Len(Head(wire)) <= BufSize

\* It stays so: of the data packets on the line none holds such a byte, and nothing
\* is on a line that is gone.
NoneMisleads == \A i \in 1..Len(wire) : wire[i] \in DataPackets => ~Misleading(wire[i], 1)

FramingInv ==
  /\ FramingTypeOK
  /\ ~ambiguous => InStep /\ NoneMisleads
  /\ ~line => wire = <<>>

\* What the handlers see is a line of packets.  A packet of which the host skips
\* the rest is over.
PL == INSTANCE PacketLine WITH
        queue <- IF phase = "type" /\ off > 0 THEN Tail(wire) ELSE wire, up <- line
ImplementsPacketLine == PL!PLSpec

\* While it is in step the host does not wait for bytes that are not to come: what
\* was sent is handed over, whatever comes behind it.
EventsGetThrough ==
  []((wire # <<>> => <>(wire = <<>> \/ ~line)) /\
     (phase # "type" => <>(phase = "type" \/ ambiguous)))
=============================================================================
