----------------------------- MODULE PacketLine -----------------------------
(***************************************************************************)
(* What the line and the framing promise the event handlers: every event   *)
(* the controller sends is handed over once, whole and in order, while the *)
(* host runs and the line is up.  Data packets are passed over.  A restart *)
(* of the host loses what came before some point, the end of the line all  *)
(* that was still to come.  Nothing is promised once the host cannot tell  *)
(* where packets begin.                                                    *)
(***************************************************************************)
EXTENDS Integers, Sequences

CONSTANTS EventPackets, DataPackets

VARIABLES
  queue,      \* packets to be handed over
  handed,     \* events handed over, in their order
  starts,     \* starts of the host
  up,         \* the line is up
  ambiguous   \* the host may mistake a byte inside a packet for its beginning

Send(p) == queue' = Append(queue, p) /\ UNCHANGED <<handed, starts, up>>

HandOver ==
  /\ queue # <<>> /\ Head(queue) \in EventPackets
  /\ handed' = Append(handed, Head(queue)) /\ queue' = Tail(queue)
  /\ UNCHANGED <<starts, up>>

PassOver ==
  /\ queue # <<>> /\ Head(queue) \in DataPackets
  /\ queue' = Tail(queue)
  /\ UNCHANGED <<handed, starts, up>>

Restart ==
  /\ starts' = starts + 1
  /\ \E k \in 0..Len(queue) : queue' = SubSeq(queue, k + 1, Len(queue))
  /\ UNCHANGED <<handed, up>>

Break == up /\ up' = FALSE /\ queue' = <<>> /\ UNCHANGED <<handed, starts>>

Confuse == ambiguous'

PLInit == queue = <<>> /\ handed = <<>> /\ starts = 1 /\ up = TRUE /\ ambiguous = FALSE

PLNext ==
  /\ ambiguous => ambiguous'
  /\ \/ \E p \in EventPackets \cup DataPackets : Send(p)
     \/ up /\ (HandOver \/ PassOver)
     \/ Restart \/ Break \/ Confuse

PLSpec == PLInit /\ [][PLNext]_<<queue, handed, starts, up, ambiguous>>
=============================================================================
