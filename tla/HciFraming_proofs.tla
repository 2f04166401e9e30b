-------------------------- MODULE HciFraming_proofs --------------------------
(***************************************************************************)
(* The host and the controller stay in step on the line, for every size of *)
(* dev->buf, every kind of packet and every number of them: FramingInv is  *)
(* an invariant, and what the handlers see is a line of packets.           *)
(***************************************************************************)
EXTENDS HciFraming, SequenceTheorems, TLAPS

-----------------------------------------------------------------------------
(* Packets *)

Packets == EventPackets \cup DataPackets

LEMMA FiniteSeq ==
  ASSUME NEW S, NEW n \in Nat, NEW ps \in [1..n -> S], S \subseteq Nat
  PROVE  ps \in Seq(Nat) /\ Len(ps) = n
<1>1. ps \in [1..n -> Nat]
  OBVIOUS
<1>2. ps \in Seq(Nat)
  BY <1>1, SeqDef
<1>3. DOMAIN ps = 1..n /\ DOMAIN ps = 1..Len(ps) /\ Len(ps) \in Nat
  BY <1>1, <1>2, LenProperties
<1>4. \A m \in Nat : 1..m = 1..n => m = n
  <2> SUFFICES ASSUME NEW m \in Nat, 1..m = 1..n PROVE m = n
    OBVIOUS
  <2>1. \A k \in Nat \ {0} : (k <= m) <=> (k <= n)
    <3>1. \A k \in Nat \ {0} : (k \in 1..m <=> k <= m) /\ (k \in 1..n <=> k <= n)
      OBVIOUS
    <3> QED
      BY <3>1
  <2>2. m # 0 => m <= n
    BY <2>1
  <2>3. n # 0 => n <= m
    BY <2>1
  <2> QED
    BY <2>2, <2>3
<1> QED
  BY <1>2, <1>3, <1>4

\* What stands behind a header.
LEMMA HeaderAndRest ==
  ASSUME NEW h \in Seq(Nat), NEW ps \in Seq(Nat), NEW m \in Nat, Len(h) = m
  PROVE  /\ h \o ps \in Seq(Nat) /\ Len(h \o ps) = m + Len(ps)
         /\ \A i \in Nat : 1 <= i /\ i <= m => (h \o ps)[i] = h[i]
<1>1. /\ h \o ps \in Seq(Nat) /\ Len(h \o ps) = Len(h) + Len(ps)
      /\ \A i \in 1..Len(h) + Len(ps) : (h \o ps)[i] = IF i <= Len(h) THEN h[i] ELSE ps[i - Len(h)]
  BY ConcatProperties
<1>2. Len(ps) \in Nat
  OBVIOUS
<1>3. \A i \in Nat : 1 <= i /\ i <= m => i \in 1..Len(h) + Len(ps)
  BY <1>2
<1> QED
  BY <1>1, <1>3

\* An event says how long it is, and fits into dev->buf.
LEMMA EventShape ==
  ASSUME NEW p \in EventPackets
  PROVE  /\ p \in Seq(Nat) /\ p[1] = EVT
         /\ Len(p) \in Nat /\ Len(p) >= 3 /\ Len(p) = 3 + p[3] /\ Len(p) <= BufSize
<1>0. PICK code \in EventCodes, ps \in Params : p = EventPacket(code, ps)
  BY DEF EventPackets
<1>1. p = <<EVT, code, Len(ps)>> \o ps
  BY <1>0 DEF EventPacket
<1>2. PICK n \in 0..MaxParams : ps \in [1..n -> ParamBytes]
  BY DEF Params
<1>3. n \in Nat /\ n <= MaxParams
  BY <1>2, FramingAssumption
<1>4. ps \in Seq(Nat) /\ Len(ps) = n
  BY <1>2, <1>3, FiniteSeq, FramingAssumption
<1> DEFINE h == <<EVT, code, Len(ps)>>
<1>5. h \in Seq(Nat) /\ Len(h) = 3 /\ h[1] = EVT /\ h[3] = n
  BY <1>3, <1>4, FramingAssumption DEF EVT
<1> HIDE DEF h
<1>6. /\ h \o ps \in Seq(Nat) /\ Len(h \o ps) = 3 + Len(ps)
      /\ \A i \in Nat : 1 <= i /\ i <= 3 => (h \o ps)[i] = h[i]
  BY <1>4, <1>5, HeaderAndRest
<1>8. (h \o ps)[1] = EVT /\ (h \o ps)[3] = n
  BY <1>5, <1>6
<1>9. p = h \o ps
  BY <1>1 DEF h
<1> QED
  BY <1>3, <1>4, <1>6, <1>8, <1>9, FramingAssumption

LEMMA DataShape ==
  ASSUME NEW p \in DataPackets
  PROVE  p \in Seq(Nat) /\ p[1] # EVT /\ Len(p) \in Nat /\ Len(p) >= 2
<1>1. PICK t \in {ACL, SCO}, bs \in UNION {[1..n -> DataBytes] : n \in 1..MaxData} : p = <<t>> \o bs
  BY DEF DataPackets
<1>2. PICK n \in 1..MaxData : bs \in [1..n -> DataBytes]
  BY <1>1
<1>3. n \in Nat /\ n >= 1
  BY <1>2, FramingAssumption
<1>4. bs \in Seq(Nat) /\ Len(bs) = n
  BY <1>2, <1>3, FiniteSeq, FramingAssumption
<1> DEFINE h == <<t>>
<1>5. h \in Seq(Nat) /\ Len(h) = 1 /\ h[1] = t
  BY DEF ACL, SCO
<1> HIDE DEF h
<1>6. /\ h \o bs \in Seq(Nat) /\ Len(h \o bs) = 1 + Len(bs)
      /\ \A i \in Nat : 1 <= i /\ i <= 1 => (h \o bs)[i] = h[i]
  BY <1>4, <1>5, HeaderAndRest
<1>7. (h \o bs)[1] = t
  BY <1>5, <1>6
<1>8. t # EVT
  BY DEF ACL, SCO, EVT
<1>9. p = h \o bs
  BY <1>1 DEF h
<1> QED
  BY <1>3, <1>4, <1>6, <1>7, <1>8, <1>9

LEMMA PacketShape ==
  ASSUME NEW p \in Packets
  PROVE  p \in Seq(Nat) /\ Len(p) \in Nat /\ Len(p) >= 2
BY EventShape, DataShape DEF Packets

-----------------------------------------------------------------------------
(* What reading a byte does *)

LEMMA WireHead ==
  ASSUME FramingTypeOK, wire # <<>>
  PROVE  /\ wire \in Seq(Packets) /\ Len(wire) \in Nat /\ Len(wire) >= 1
         /\ Head(wire) \in Packets /\ Head(wire) = wire[1]
         /\ off \in Nat /\ Len(Head(wire)) \in Nat /\ off < Len(Head(wire))
<1>1. wire \in Seq(Packets) /\ off \in Nat /\ off < Len(Head(wire))
  BY DEF FramingTypeOK, Packets
<1>2. Head(wire) \in Packets /\ Len(wire) \in Nat /\ Len(wire) >= 1
  BY <1>1, HeadTailProperties, EmptySeq
<1>3. Head(wire) = wire[1]
  BY <1>1
<1> QED
  BY <1>1, <1>2, <1>3, PacketShape

LEMMA Reading ==
  ASSUME FramingTypeOK, ReadByte
  PROVE  /\ line /\ wire # <<>>
         /\ Byte = Head(wire)[off + 1] /\ Byte \in Nat
         /\ \/ off + 1 = Len(Head(wire)) /\ wire' = Tail(wire) /\ off' = 0
            \/ off + 1 < Len(Head(wire)) /\ wire' = wire /\ off' = off + 1
         /\ UNCHANGED <<line, sent, starts, ambiguous>>
<1>1. line /\ wire # <<>> /\ UNCHANGED <<line, sent, starts, ambiguous>>
  BY DEF ReadByte
<1>2. off + 1 = Len(Head(wire)) \/ off + 1 < Len(Head(wire))
  BY <1>1, WireHead
<1>3. Byte \in Nat
  <2>1. Head(wire) \in Seq(Nat) /\ off + 1 \in 1..Len(Head(wire))
    BY <1>1, WireHead, PacketShape
  <2> QED
    BY <2>1, ElementOfSeq DEF Byte
<1> QED
  BY <1>1, <1>2, <1>3 DEF ReadByte, Byte

\* The line and the place in it keep their type.
LEMMA ReadingType ==
  ASSUME FramingTypeOK, ReadByte
  PROVE  /\ wire' \in Seq(Packets) /\ off' \in Nat
         /\ wire' = <<>> => off' = 0
         /\ wire' # <<>> => off' < Len(Head(wire'))
<1>1. line /\ wire # <<>>
  BY Reading
<1>2. CASE off + 1 = Len(Head(wire)) /\ wire' = Tail(wire) /\ off' = 0
  <2>1. Tail(wire) \in Seq(Packets)
    BY <1>1, WireHead, HeadTailProperties
  <2>2. Tail(wire) # <<>> => 0 < Len(Head(Tail(wire)))
    <3>1. ASSUME Tail(wire) # <<>> PROVE Head(Tail(wire)) \in Packets
      BY <2>1, <3>1, HeadTailProperties
    <3>2. \A p \in Packets : 0 < Len(p)
      BY PacketShape
    <3> QED
      BY <3>1, <3>2
  <2> QED
    BY <1>2, <2>1, <2>2
<1>3. CASE off + 1 < Len(Head(wire)) /\ wire' = wire /\ off' = off + 1
  BY <1>1, <1>3, WireHead
<1> QED
  BY <1>2, <1>3, Reading

\* Nothing new that misleads comes onto the line.
LEMMA ReadingMisleads ==
  ASSUME FramingTypeOK, ReadByte, NoneMisleads
  PROVE  NoneMisleads'
<1>1. line /\ wire # <<>> /\ wire \in Seq(Packets)
  BY Reading, WireHead
<1>2. CASE wire' = wire
  BY <1>2 DEF NoneMisleads
<1>3. CASE wire' = Tail(wire)
  <2>1. Len(wire) \in Nat /\ Len(Tail(wire)) = Len(wire) - 1
        /\ \A i \in 1..Len(Tail(wire)) : Tail(wire)[i] = wire[i + 1]
    BY <1>1, HeadTailProperties, LenProperties
  <2>2. \A i \in 1..Len(Tail(wire)) : i + 1 \in 1..Len(wire)
    BY <2>1
  <2>3. \A i \in 1..Len(Tail(wire)) : Tail(wire)[i] \in DataPackets => ~Misleading(Tail(wire)[i], 1)
    BY <2>1, <2>2 DEF NoneMisleads
  <2> QED
    BY <1>3, <2>3 DEF NoneMisleads
<1> QED
  BY <1>2, <1>3, Reading

\* What does not mislead behind a byte does not mislead behind a later one.
LEMMA LessMisleads ==
  ASSUME NEW p, Len(p) \in Nat, NEW j \in Nat, NEW k \in Nat, j <= k, ~Misleading(p, j)
  PROVE  ~Misleading(p, k)
<1>1. \A i \in (k + 1)..Len(p) : i \in (j + 1)..Len(p)
  OBVIOUS
<1> QED
  BY <1>1 DEF Misleading

-----------------------------------------------------------------------------
(* A round of the host *)

LEMMA NotAnEventInv ==
  ASSUME FramingInv, NotAnEvent
  PROVE  FramingInv'
<1>0. FramingTypeOK /\ ReadByte /\ phase = "type" /\ Byte # EVT
      /\ phase' = "type" /\ buf' = <<>> /\ handed' = handed
  BY DEF FramingInv, NotAnEvent, NextRound
<1>1. FramingTypeOK'
  <2>1. buf' \in Seq(Nat)
    BY <1>0, EmptySeq
  <2> QED
    BY <1>0, <2>1, Reading, ReadingType DEF FramingTypeOK, Packets
<1>2. ASSUME ~ambiguous PROVE InStep' /\ NoneMisleads'
  <2>0. InStep /\ NoneMisleads
    BY <1>2 DEF FramingInv
  <2>1. /\ wire # <<>> /\ wire \in Seq(Packets) /\ Len(wire) \in Nat /\ 1 \in 1..Len(wire)
        /\ Head(wire) = wire[1] /\ Head(wire) \in Packets
        /\ Len(Head(wire)) \in Nat /\ off \in Nat
    BY <1>0, Reading, WireHead
  <2>2. ~Misleading(Head(wire), off + 1)
    <3>1. CASE off = 0
      <4>1. Head(wire) \notin EventPackets
        BY <1>0, <3>1, EventShape, Reading
      <4>2. ~Misleading(wire[1], 1)
        BY <2>0, <2>1, <4>1 DEF NoneMisleads, Packets
      <4> QED
        BY <2>1, <3>1, <4>2
    <3>2. CASE off > 0
      <4>1. ~Misleading(Head(wire), off)
        BY <1>0, <2>0, <3>2 DEF InStep
      <4> QED
        BY <2>1, <4>1, LessMisleads
    <3> QED
      BY <2>1, <3>1, <3>2
  <2>3. off' > 0 => off' = off + 1 /\ wire' = wire
    BY <1>0, Reading
  <2>4. InStep'
    BY <1>0, <2>2, <2>3 DEF InStep
  <2> QED
    BY <1>0, <2>0, <2>4, ReadingMisleads
<1>3. line' /\ ambiguous' = ambiguous
  BY <1>0, Reading
<1> QED
  BY <1>1, <1>2, <1>3 DEF FramingInv

\* One byte more of a packet is one byte more of its beginning.
LEMMA PrefixGrows ==
  ASSUME NEW p \in Seq(Nat), NEW k \in Nat, k < Len(p)
  PROVE  /\ Append(SubSeq(p, 1, k), p[k + 1]) = SubSeq(p, 1, k + 1)
         /\ SubSeq(p, 1, k) \in Seq(Nat) /\ Len(SubSeq(p, 1, k)) = k
<1>0. Len(p) \in Nat /\ \A i \in 1..Len(p) : p[i] \in Nat
  BY ElementOfSeq, LenProperties
<1>1. ASSUME NEW m \in Nat, m <= Len(p)
      PROVE  /\ SubSeq(p, 1, m) \in Seq(Nat) /\ Len(SubSeq(p, 1, m)) = m
             /\ \A i \in 1..m : SubSeq(p, 1, m)[i] = p[i]
  <2>1. \A i \in 1..m : i \in 1..Len(p)
    BY <1>0, <1>1
  <2>2. \A i \in 1..m : p[i] \in Nat
    BY <1>0, <2>1
  <2>3. /\ SubSeq(p, 1, m) \in Seq(Nat)
        /\ Len(SubSeq(p, 1, m)) = IF 1 <= m THEN m - 1 + 1 ELSE 0
        /\ \A i \in 1..m - 1 + 1 : SubSeq(p, 1, m)[i] = p[1 + i - 1]
    BY <2>2, SubSeqProperties
  <2>4. \A i \in 1..m : i \in 1..m - 1 + 1 /\ 1 + i - 1 = i
    OBVIOUS
  <2> QED
    BY <2>3, <2>4
<1> DEFINE s == SubSeq(p, 1, k)
           t == SubSeq(p, 1, k + 1)
           u == Append(s, p[k + 1])
<1>2. s \in Seq(Nat) /\ Len(s) = k /\ \A i \in 1..k : s[i] = p[i]
  BY <1>1
<1>3. k + 1 \in Nat /\ k + 1 <= Len(p) /\ k + 1 \in 1..Len(p) /\ p[k + 1] \in Nat
  BY <1>0
<1>4. t \in Seq(Nat) /\ Len(t) = k + 1 /\ \A i \in 1..(k + 1) : t[i] = p[i]
  BY <1>1, <1>3
<1> HIDE DEF s, t
<1>5. u \in Seq(Nat) /\ Len(u) = k + 1 /\ u[k + 1] = p[k + 1] /\ \A i \in 1..k : u[i] = s[i]
  BY <1>2, <1>3
<1> HIDE DEF u
<1>6. \A i \in 1..(k + 1) : u[i] = t[i]
  <2>1. \A i \in 1..(k + 1) : i \in 1..k \/ i = k + 1
    OBVIOUS
  <2> QED
    BY <1>2, <1>4, <1>5, <2>1
<1>7. u = t
  BY <1>4, <1>5, <1>6, SeqEqual
<1> QED
  BY <1>2, <1>7 DEF s, t, u

LEMMA EventBeginsInv ==
  ASSUME FramingInv, EventBegins
  PROVE  FramingInv' /\ (~ambiguous => off = 0 /\ off' = 1 /\ wire' = wire)
<1>0. FramingTypeOK /\ ReadByte /\ phase = "type" /\ Byte = EVT
      /\ phase' = "header" /\ buf' = Append(buf, Byte) /\ handed' = handed
  BY DEF FramingInv, EventBegins
<1>1. FramingTypeOK'
  <2>1. buf' \in Seq(Nat)
    BY <1>0, Reading DEF FramingTypeOK
  <2> QED
    BY <1>0, <2>1, Reading, ReadingType DEF FramingTypeOK, Packets
<1>2. ASSUME ~ambiguous PROVE InStep' /\ NoneMisleads' /\ off = 0 /\ off' = 1 /\ wire' = wire
  <2>0. InStep /\ NoneMisleads
    BY <1>2 DEF FramingInv
  <2>1. /\ wire # <<>> /\ Head(wire) \in Packets
        /\ Len(Head(wire)) \in Nat /\ off \in Nat /\ off + 1 \in (off + 1)..Len(Head(wire))
    BY <1>0, Reading, WireHead
  <2>2. off = 0
    <3>1. Misleading(Head(wire), off)
      BY <1>0, <2>1, Reading DEF Misleading
    <3> QED
      BY <1>0, <2>0, <2>1, <3>1 DEF InStep
  <2>3. Head(wire) \in EventPackets
    BY <1>0, <2>1, <2>2, DataShape, Reading DEF Packets
  <2>4. off' = 1 /\ wire' = wire
    BY <1>0, <2>1, <2>2, <2>3, EventShape, Reading
  <2>5. /\ buf = <<>> /\ SubSeq(Head(wire), 1, 0) = <<>>
        /\ Append(SubSeq(Head(wire), 1, 0), Head(wire)[1]) = SubSeq(Head(wire), 1, 1)
        /\ Len(SubSeq(Head(wire), 1, 1)) = 1
    <3>1. Head(wire) \in Seq(Nat) /\ 0 < Len(Head(wire)) /\ 1 < Len(Head(wire))
      BY <2>3, EventShape
    <3>2. 0 + 1 = 1
      OBVIOUS
    <3>3. Append(SubSeq(Head(wire), 1, 0), Head(wire)[0 + 1]) = SubSeq(Head(wire), 1, 0 + 1)
      BY <3>1, PrefixGrows
    <3> QED
      BY <1>0, <2>0, <3>1, <3>2, <3>3, PrefixGrows, SubSeqEmpty DEF InStep
  <2>6. buf' = SubSeq(Head(wire), 1, 1) /\ Len(buf') = 1
    BY <1>0, <2>2, <2>5, Reading
  <2>7. InStep'
    <3>1. Len(Head(wire)) <= BufSize
      BY <2>3, EventShape
    <3> QED
      BY <1>0, <2>1, <2>3, <2>4, <2>6, <3>1 DEF InStep
  <2> QED
    BY <1>0, <2>0, <2>2, <2>4, <2>7, ReadingMisleads
<1>3. line' /\ ambiguous' = ambiguous
  BY <1>0, Reading
<1> QED
  BY <1>1, <1>2, <1>3 DEF FramingInv

\* In step, what has been read is an event when it is all of the one sent.
LEMMA EventRead ==
  ASSUME FramingInv, ~ambiguous, EventGoesOn, NEW b, b = Append(buf, Byte)
  PROVE  /\ Head(wire) \in EventPackets
         /\ b = SubSeq(Head(wire), 1, off + 1) /\ Len(b) = off + 1
         /\ Complete(b) <=> off + 1 = Len(Head(wire))
         /\ Complete(b) => b = Head(wire)
<1>0. FramingTypeOK /\ ReadByte /\ phase # "type" /\ InStep
  BY DEF FramingInv, EventGoesOn
<1>1. /\ wire # <<>> /\ off = Len(buf) /\ buf = SubSeq(Head(wire), 1, off)
      /\ Head(wire) \in EventPackets
  BY <1>0, Reading DEF InStep
<1> DEFINE p == Head(wire)
<1>2. /\ p \in Seq(Nat) /\ Len(p) \in Nat /\ Len(p) >= 3 /\ Len(p) = 3 + p[3]
      /\ off \in Nat /\ off < Len(p) /\ Byte = p[off + 1]
  BY <1>0, <1>1, EventShape, WireHead DEF Byte
<1> HIDE DEF p
<1>3. b = SubSeq(p, 1, off + 1)
  BY <1>1, <1>2, PrefixGrows DEF p
<1>4. /\ \A i \in 1..(off + 1) : p[i] \in Nat
      /\ 1 \in Int /\ off + 1 \in Int
  <2>1. \A i \in 1..(off + 1) : i \in 1..Len(p)
    BY <1>2
  <2> QED
    BY <1>2, <2>1, ElementOfSeq
<1>5. /\ Len(b) = off + 1
      /\ off + 1 >= 3 => b[3] = p[3]
  <2> DEFINE t == SubSeq(p, 1, off + 1)
  <2>1. /\ Len(t) = IF 1 <= off + 1 THEN (off + 1) - 1 + 1 ELSE 0
        /\ \A i \in 1..(off + 1) - 1 + 1 : t[i] = p[1 + i - 1]
    BY <1>4, SubSeqProperties
  <2> HIDE DEF t
  <2>2. 1 <= off + 1 /\ (off + 1) - 1 + 1 = off + 1 /\ (off + 1 >= 3 => 3 \in 1..(off + 1) - 1 + 1)
    BY <1>2
  <2>3. 1 + 3 - 1 = 3
    OBVIOUS
  <2>4. Len(t) = off + 1
    BY <2>1, <2>2
  <2>5. off + 1 >= 3 => t[3] = p[3]
    BY <2>1, <2>2, <2>3
  <2> QED
    BY <1>3, <2>4, <2>5 DEF t
<1>6. Complete(b) <=> off + 1 = Len(p)
  BY <1>2, <1>5 DEF Complete
<1>7. Complete(b) => b = p
  BY <1>2, <1>3, <1>6, SubSeqFull
<1> QED
  BY <1>1, <1>3, <1>5, <1>6, <1>7 DEF p

LEMMA EventGoesOnInv ==
  ASSUME FramingInv, EventGoesOn
  PROVE  FramingInv'
<1>0. FramingTypeOK /\ ReadByte /\ phase # "type"
  BY DEF FramingInv, EventGoesOn
<1> DEFINE b == Append(buf, Byte)
<1>a. b \in Seq(Nat)
  BY <1>0, Reading DEF FramingTypeOK
<1>b. \/ Complete(b) /\ handed' = Append(handed, b) /\ phase' = "type" /\ buf' = <<>>
      \/ /\ ~Complete(b) /\ buf' = b /\ handed' = handed
         /\ phase' = IF Len(b) < 3 THEN "header" ELSE "params"
  BY DEF EventGoesOn, NextRound
<1> HIDE DEF b
<1>1. FramingTypeOK'
  <2>1. buf' \in Seq(Nat) /\ phase' \in {"type", "header", "params"}
    BY <1>a, <1>b, EmptySeq
  <2>2. handed' \in Seq(Seq(Nat))
    <3>1. handed \in Seq(Seq(Nat))
      BY <1>0 DEF FramingTypeOK
    <3>2. Append(handed, b) \in Seq(Seq(Nat))
      BY <1>a, <3>1
    <3> QED
      BY <1>b, <3>1, <3>2
  <2> QED
    BY <1>0, <2>1, <2>2, Reading, ReadingType DEF FramingTypeOK, Packets
<1>2. ASSUME ~ambiguous PROVE InStep' /\ NoneMisleads'
  <2>0. InStep /\ NoneMisleads
    BY <1>2 DEF FramingInv
  <2>1. /\ Head(wire) \in EventPackets /\ b = SubSeq(Head(wire), 1, off + 1) /\ Len(b) = off + 1
        /\ Complete(b) <=> off + 1 = Len(Head(wire))
    BY <1>2, EventRead DEF b
  <2>2. CASE Complete(b)
    <3>1. off' = 0 /\ phase' = "type" /\ buf' = <<>>
      BY <1>0, <1>b, <2>1, <2>2, Reading, EventShape
    <3> QED
      BY <1>0, <2>0, <3>1, ReadingMisleads DEF InStep
  <2>3. CASE ~Complete(b)
    <3>1. wire' = wire /\ off' = off + 1 /\ buf' = b /\ phase' # "type"
      BY <1>0, <1>b, <2>1, <2>3, Reading, EventShape
    <3>2. Len(Head(wire)) <= BufSize /\ wire # <<>>
      BY <1>0, <2>1, EventShape, Reading
    <3>3. InStep'
      BY <2>1, <3>1, <3>2 DEF InStep
    <3> QED
      BY <1>0, <2>0, <3>3, ReadingMisleads
  <2> QED
    BY <2>2, <2>3
<1>3. line' /\ ambiguous' = ambiguous
  BY <1>0, Reading
<1> QED
  BY <1>1, <1>2, <1>3 DEF FramingInv

LEMMA ReadFailsInv ==
  ASSUME FramingInv, ReadFails
  PROVE  FramingInv'
<1>0. FramingTypeOK /\ wire = <<>> /\ off = 0 /\ phase' = "type" /\ buf' = <<>>
      /\ UNCHANGED <<wire, off, line, handed, sent, starts, ambiguous>>
  BY DEF FramingInv, FramingTypeOK, ReadFails, NextRound
<1>1. FramingTypeOK'
  BY <1>0, EmptySeq DEF FramingTypeOK
<1>2. ~ambiguous => InStep' /\ NoneMisleads'
  BY <1>0 DEF FramingInv, InStep, NoneMisleads
<1> QED
  BY <1>0, <1>1, <1>2 DEF FramingInv

-----------------------------------------------------------------------------
(* The other steps *)

LEMMA Appended ==
  ASSUME NEW S, NEW q \in Seq(S), NEW e \in S
  PROVE  /\ Append(q, e) \in Seq(S) /\ Append(q, e) # <<>>
         /\ Len(q) \in Nat /\ Len(Append(q, e)) = Len(q) + 1 /\ Append(q, e)[Len(q) + 1] = e
         /\ \A i \in 1..Len(q) : Append(q, e)[i] = q[i]
         /\ Head(Append(q, e)) = IF q = <<>> THEN e ELSE Head(q)
<1>1. /\ Append(q, e) \in Seq(S)
      /\ Len(q) \in Nat /\ Len(Append(q, e)) = Len(q) + 1 /\ Append(q, e)[Len(q) + 1] = e
      /\ \A i \in 1..Len(q) : Append(q, e)[i] = q[i]
  OBVIOUS
<1>2. Append(q, e) # <<>>
  <2>1. Len(Append(q, e)) # 0 /\ Len(<<>>) = 0
    BY <1>1
  <2> QED
    BY <2>1
<1>3. Head(Append(q, e)) = Append(q, e)[1] /\ (q # <<>> => Head(q) = q[1])
  BY <1>1, <1>2
<1>4. q = <<>> => Len(q) + 1 = 1
  OBVIOUS
<1>5. q # <<>> => 1 \in 1..Len(q)
  BY EmptySeq
<1> QED
  BY <1>1, <1>2, <1>3, <1>4, <1>5

LEMMA SendPacketInv ==
  ASSUME FramingInv, NEW p \in EventPackets \cup DataPackets, SendPacket(p)
  PROVE  FramingInv'
<1>0. /\ FramingTypeOK /\ line /\ sent < MaxSent /\ sent' = sent + 1 /\ wire' = Append(wire, p)
      /\ ambiguous' = (ambiguous \/ (p \in DataPackets /\ Misleading(p, 1)))
      /\ UNCHANGED <<off, buf, phase, line, handed, starts>>
  BY DEF FramingInv, SendPacket
<1>a. wire \in Seq(Packets) /\ p \in Packets /\ off \in Nat /\ (wire = <<>> => off = 0)
  BY <1>0 DEF FramingTypeOK, Packets
<1>b. /\ wire' \in Seq(Packets) /\ wire' # <<>>
      /\ Len(wire) \in Nat /\ Len(wire') = Len(wire) + 1 /\ wire'[Len(wire) + 1] = p
      /\ \A i \in 1..Len(wire) : wire'[i] = wire[i]
      /\ Head(wire') = IF wire = <<>> THEN p ELSE Head(wire)
  BY <1>0, <1>a, Appended
<1>1. FramingTypeOK'
  <2>1. off' < Len(Head(wire'))
    BY <1>0, <1>a, <1>b, PacketShape, WireHead
  <2>2. sent' \in 0..MaxSent
    BY <1>0, FramingAssumption DEF FramingTypeOK
  <2>3. ambiguous' \in BOOLEAN
    <3>1. ambiguous \in BOOLEAN
      BY <1>0 DEF FramingTypeOK
    <3> QED
      BY <1>0, <3>1
  <2> QED
    BY <1>0, <1>b, <2>1, <2>2, <2>3 DEF FramingTypeOK, Packets
<1>2. ASSUME ~ambiguous' PROVE InStep' /\ NoneMisleads'
  <2>0. ~ambiguous /\ (p \in DataPackets => ~Misleading(p, 1)) /\ InStep /\ NoneMisleads
    BY <1>0, <1>2 DEF FramingInv
  <2>1. wire # <<>> => Head(wire') = Head(wire)
    BY <1>b
  <2>2. InStep'
    <3>1. CASE phase = "type"
      <4>1. off > 0 => wire # <<>>
        BY <1>a
      <4> QED
        BY <1>0, <2>0, <2>1, <3>1, <4>1 DEF InStep
    <3>2. CASE phase # "type"
      <4>1. /\ wire # <<>> /\ off = Len(buf) /\ buf = SubSeq(Head(wire), 1, off)
            /\ Head(wire) \in EventPackets /\ Len(Head(wire)) <= BufSize
        BY <1>0, <2>0, <3>2 DEF InStep
      <4> QED
        BY <1>0, <1>b, <2>1, <3>2, <4>1 DEF InStep
    <3> QED
      BY <3>1, <3>2
  <2>3. \A i \in 1..Len(wire') : i \in 1..Len(wire) \/ i = Len(wire) + 1
    BY <1>b
  <2>4. NoneMisleads'
    BY <1>b, <2>0, <2>3 DEF NoneMisleads
  <2> QED
    BY <2>2, <2>4
<1> QED
  BY <1>0, <1>1, <1>2 DEF FramingInv

LEMMA HangupInv ==
  ASSUME FramingInv, Hangup
  PROVE  FramingInv'
<1>0. /\ FramingTypeOK /\ line' = FALSE /\ wire' = <<>> /\ off' = 0
      /\ UNCHANGED <<buf, phase, handed, sent, starts, ambiguous>>
  BY DEF FramingInv, Hangup
<1>1. FramingTypeOK'
  BY <1>0, EmptySeq DEF FramingTypeOK
<1>2. ASSUME ~ambiguous PROVE InStep' /\ NoneMisleads'
  <2>1. InStep
    BY <1>2 DEF FramingInv
  <2>2. InStep'
    BY <1>0, <2>1 DEF InStep
  <2>3. 1..Len(wire') = {}
    <3>1. Len(wire') = 0
      BY <1>0
    <3> QED
      BY <3>1
  <2> QED
    BY <2>2, <2>3 DEF NoneMisleads
<1> QED
  BY <1>0, <1>1, <1>2 DEF FramingInv

\* What is left when k packets are dropped.
LEMMA Dropped ==
  ASSUME NEW S, NEW q \in Seq(S), NEW k \in Nat, k <= Len(q)
  PROVE  \A r : r = SubSeq(q, k + 1, Len(q)) =>
         /\ r \in Seq(S) /\ Len(r) \in Nat /\ Len(q) \in Nat /\ Len(r) = Len(q) - k
         /\ \A i \in 1..Len(r) : k + i \in 1..Len(q) /\ r[i] = q[k + i]
         /\ k < Len(q) => Head(r) = q[k + 1] /\ k + 1 \in 1..Len(q)
<1> SUFFICES ASSUME NEW r, r = SubSeq(q, k + 1, Len(q))
    PROVE  /\ r \in Seq(S) /\ Len(r) \in Nat /\ Len(q) \in Nat /\ Len(r) = Len(q) - k
           /\ \A i \in 1..Len(r) : k + i \in 1..Len(q) /\ r[i] = q[k + i]
           /\ k < Len(q) => Head(r) = q[k + 1] /\ k + 1 \in 1..Len(q)
  OBVIOUS
<1>1. Len(q) \in Nat /\ \A i \in 1..Len(q) : q[i] \in S
  BY ElementOfSeq, LenProperties
<1>2. \A i \in (k + 1)..Len(q) : i \in 1..Len(q)
  BY <1>1
<1>3. \A i \in (k + 1)..Len(q) : q[i] \in S
  BY <1>1, <1>2
<1>4. /\ r \in Seq(S)
      /\ Len(r) = IF k + 1 <= Len(q) THEN Len(q) - (k + 1) + 1 ELSE 0
      /\ \A i \in 1..Len(q) - (k + 1) + 1 : r[i] = q[(k + 1) + i - 1]
  <2>1. k + 1 \in Int /\ Len(q) \in Int
    BY <1>1
  <2> QED
    BY <1>3, <2>1, SubSeqProperties
<1>5. Len(r) = Len(q) - k /\ Len(r) \in Nat
  BY <1>1, <1>4
<1>6. \A i \in 1..Len(r) : k + i \in 1..Len(q) /\ r[i] = q[k + i]
  <2>1. \A i \in 1..Len(r) : /\ k + i \in 1..Len(q) /\ i \in 1..Len(q) - (k + 1) + 1
                             /\ (k + 1) + i - 1 = k + i
    BY <1>1, <1>5
  <2> QED
    BY <1>4, <2>1
<1>7. r = <<>> <=> Len(r) = 0
  BY <1>4, EmptySeq
<1>8. k < Len(q) => r # <<>> /\ 1 \in 1..Len(r) /\ k + 1 \in 1..Len(q)
  BY <1>1, <1>5, <1>7
<1>9. r # <<>> => Head(r) = r[1]
  BY <1>4
<1> QED
  BY <1>1, <1>4, <1>5, <1>6, <1>7, <1>8, <1>9

LEMMA SkipInv ==
  ASSUME FramingInv, UNCHANGED <<line, handed, sent>>, NextRound, starts' \in 1..MaxStarts,
         NEW k \in Nat, NEW j \in Nat, Skip(k, j),
         (k = Len(wire) /\ j = 0) \/ (k < Len(wire) /\ j < Len(wire[k + 1]))
  PROVE  FramingInv'
<1>0. /\ FramingTypeOK /\ phase' = "type" /\ buf' = <<>>
      /\ wire' = SubSeq(wire, k + 1, Len(wire)) /\ off' = j
      /\ ambiguous' = (ambiguous \/ (j > 0 /\ Misleading(wire[k + 1], j)))
      /\ UNCHANGED <<line, handed, sent>>
  BY DEF FramingInv, NextRound, Skip
<1>a. wire \in Seq(Packets)
  BY <1>0 DEF FramingTypeOK, Packets
<1>b. Len(wire) \in Nat /\ k <= Len(wire)
  BY <1>a
<1>c. /\ wire' \in Seq(Packets) /\ Len(wire') \in Nat
      /\ \A i \in 1..Len(wire') : k + i \in 1..Len(wire) /\ wire'[i] = wire[k + i]
      /\ (wire' = <<>> => k = Len(wire)) /\ (k = Len(wire) => wire' = <<>>)
      /\ k < Len(wire) => Head(wire') = wire[k + 1]
  <2>0. PICK r : r = SubSeq(wire, k + 1, Len(wire))
    OBVIOUS
  <2>1. r \in Seq(Packets) /\ Len(r) \in Nat
    BY <1>a, <1>b, <2>0, Dropped
  <2>2. \A i \in 1..Len(r) : k + i \in 1..Len(wire) /\ r[i] = wire[k + i]
    BY <1>a, <1>b, <2>0, Dropped
  <2>3. (r = <<>> => k = Len(wire)) /\ (k = Len(wire) => r = <<>>)
    <3>1. Len(r) = Len(wire) - k
      BY <1>a, <1>b, <2>0, Dropped
    <3>2. r = <<>> => Len(r) = 0
      OBVIOUS
    <3>3. r # <<>> => Len(r) # 0
      BY <2>1, EmptySeq
    <3> QED
      BY <1>b, <2>1, <3>1, <3>2, <3>3
  <2>4. k < Len(wire) => Head(r) = wire[k + 1]
    BY <1>a, <1>b, <2>0, Dropped
  <2>5. wire' = r
    BY <1>0, <2>0
  <2> QED
    BY <2>1, <2>2, <2>3, <2>4, <2>5
<1>1. FramingTypeOK'
  <2>1. wire' = <<>> => off' = 0
    BY <1>0, <1>b, <1>c
  <2>2. wire' # <<>> => off' < Len(Head(wire'))
    BY <1>0, <1>b, <1>c
  <2>3. ambiguous' \in BOOLEAN
    <3>1. ambiguous \in BOOLEAN
      BY <1>0 DEF FramingTypeOK
    <3> QED
      BY <1>0, <3>1
  <2>4. buf' \in Seq(Nat)
    BY <1>0, EmptySeq
  <2> QED
    BY <1>0, <1>c, <2>1, <2>2, <2>3, <2>4 DEF FramingTypeOK, Packets
<1>2. ASSUME ~ambiguous' PROVE InStep' /\ NoneMisleads'
  <2>0. NoneMisleads /\ (j > 0 => ~Misleading(wire[k + 1], j))
    BY <1>0, <1>2 DEF FramingInv
  <2>1. j > 0 => Head(wire') = wire[k + 1]
    BY <1>b, <1>c
  <2>2. InStep'
    BY <1>0, <2>0, <2>1 DEF InStep
  <2>3. NoneMisleads'
    BY <1>c, <2>0 DEF NoneMisleads
  <2> QED
    BY <2>2, <2>3
<1>3. ~line' => wire' = <<>>
  <2>1. ASSUME ~line PROVE wire' = <<>>
    <3>1. Len(wire) = 0
      BY <2>1 DEF FramingInv
    <3> QED
      BY <1>b, <1>c, <3>1
  <2> QED
    BY <1>0, <2>1
<1> QED
  BY <1>1, <1>2, <1>3 DEF FramingInv

\* A start of the host drops packets, and bytes of the one behind them.
LEMMA Starting ==
  ASSUME FramingInv, bt_serial_init
  PROVE  \E k, j \in Nat : /\ Skip(k, j)
                           /\ (k = Len(wire) /\ j = 0) \/ (k < Len(wire) /\ j < Len(wire[k + 1]))
                           /\ k = 0 /\ Len(wire) # 0 => j >= off
<1>1. /\ wire \in Seq(Packets) /\ Len(wire) \in Nat /\ off \in Nat
      /\ \A i \in 1..Len(wire) : wire[i] \in Packets
  BY ElementOfSeq DEF FramingInv, FramingTypeOK, Packets
<1>2. CASE Skip(Len(wire), 0)
  <2>1. PICK n \in Nat : n = Len(wire)
    BY <1>1
  <2>2. Skip(n, 0) /\ 0 \in Nat
    BY <1>2, <2>1
  <2>3. n = 0 /\ n # 0 => 0 >= off
    OBVIOUS
  <2> QED
    BY <2>1, <2>2, <2>3
<1>3. CASE \E k \in 0..(Len(wire) - 1) :
             \E j \in (IF k = 0 THEN off ELSE 0)..(Len(wire[k + 1]) - 1) : Skip(k, j)
  <2>1. PICK k \in 0..(Len(wire) - 1) :
          \E j \in (IF k = 0 THEN off ELSE 0)..(Len(wire[k + 1]) - 1) : Skip(k, j)
    BY <1>3
  <2>2. k \in Nat /\ k < Len(wire) /\ k + 1 \in 1..Len(wire)
    BY <1>1
  <2>3. Len(wire[k + 1]) \in Nat
    BY <1>1, <2>2, PacketShape
  <2>4. PICK j \in (IF k = 0 THEN off ELSE 0)..(Len(wire[k + 1]) - 1) : Skip(k, j)
    BY <2>1
  <2>5. j \in Nat /\ j < Len(wire[k + 1]) /\ (k = 0 => j >= off)
    BY <1>1, <2>3
  <2> QED
    BY <2>2, <2>4, <2>5
<1> QED
  BY <1>2, <1>3 DEF bt_serial_init

LEMMA StartInv ==
  ASSUME FramingInv, bt_serial_init
  PROVE  FramingInv'
<1>1. UNCHANGED <<line, handed, sent>> /\ NextRound
  BY DEF bt_serial_init
<1>2. starts' \in 1..MaxStarts
  BY FramingAssumption DEF bt_serial_init, FramingInv, FramingTypeOK
<1>3. PICK k, j \in Nat : /\ Skip(k, j)
                          /\ (k = Len(wire) /\ j = 0) \/ (k < Len(wire) /\ j < Len(wire[k + 1]))
  BY Starting
<1> QED
  BY <1>1, <1>2, <1>3, SkipInv

-----------------------------------------------------------------------------
(* The invariant *)

LEMMA InitFramingInv == FramingInit => FramingInv
<1> SUFFICES ASSUME FramingInit PROVE FramingInv
  OBVIOUS
<1>1. wire \in Seq(EventPackets \cup DataPackets) /\ buf \in Seq(Nat) /\ handed \in Seq(Seq(Nat))
  BY EmptySeq DEF FramingInit
<1>2. FramingTypeOK
  <2>1. sent \in 0..MaxSent /\ starts \in 1..MaxStarts /\ off \in Nat
    BY FramingAssumption DEF FramingInit
  <2> QED
    BY <1>1, <2>1 DEF FramingInit, FramingTypeOK
<1>3. 1..Len(wire) = {}
  <2>1. Len(wire) = 0
    BY DEF FramingInit
  <2> QED
    BY <2>1
<1>4. InStep /\ NoneMisleads
  BY <1>3 DEF FramingInit, InStep, NoneMisleads
<1> QED
  BY <1>2, <1>4 DEF FramingInv, FramingInit

LEMMA NextFramingInv == FramingInv /\ [FramingNext]_framingVars => FramingInv'
<1> SUFFICES ASSUME FramingInv, [FramingNext]_framingVars PROVE FramingInv'
  OBVIOUS
<1>1. CASE bt_dev_read_hci
  BY <1>1, NotAnEventInv, EventBeginsInv, EventGoesOnInv, ReadFailsInv DEF bt_dev_read_hci
<1>2. CASE UNCHANGED framingVars
  BY <1>2 DEF framingVars, FramingInv, FramingTypeOK, InStep, NoneMisleads
<1> QED
  BY <1>1, <1>2, SendPacketInv, StartInv, HangupInv DEF FramingNext

\* While nothing on the line can be mistaken for the beginning of an event the host is in
\* step with the controller, and an event it reads is within dev->buf.
THEOREM HostStaysInStep == FramingSpec => []FramingInv
BY InitFramingInv, NextFramingInv, PTL DEF FramingSpec

-----------------------------------------------------------------------------
(* The line of packets *)

\* What PL has for its queue.
Queue == IF phase = "type" /\ off > 0 THEN Tail(wire) ELSE wire

\* In step, a byte of a packet that is no event passes the packet over with its first
\* byte; the others are nothing to the handlers.
LEMMA PassesOver ==
  ASSUME FramingInv, ~ambiguous, NotAnEvent
  PROVE  PL!PassOver \/ (Queue' = Queue /\ UNCHANGED <<handed, starts, line>>)
<1>0. FramingTypeOK /\ ReadByte /\ phase = "type" /\ phase' = "type" /\ Byte # EVT /\ handed' = handed
  BY DEF FramingInv, NotAnEvent, NextRound
<1>1. /\ line /\ wire # <<>> /\ Byte = Head(wire)[off + 1]
      /\ \/ off + 1 = Len(Head(wire)) /\ wire' = Tail(wire) /\ off' = 0
         \/ off + 1 < Len(Head(wire)) /\ wire' = wire /\ off' = off + 1
      /\ UNCHANGED <<line, starts>>
  BY <1>0, Reading
<1>2. Head(wire) \in Packets /\ off \in Nat /\ Len(Head(wire)) >= 2 /\ Len(Head(wire)) \in Nat
  BY <1>0, <1>1, PacketShape, WireHead
<1>3. CASE off = 0
  <2>1. Head(wire) \in DataPackets
    BY <1>0, <1>1, <1>2, <1>3, EventShape DEF Packets
  <2>2. Queue = wire /\ Queue' = Tail(wire)
    BY <1>0, <1>1, <1>2, <1>3 DEF Queue
  <2> QED
    BY <1>0, <1>1, <2>1, <2>2 DEF PL!PassOver, Queue
<1>4. CASE off > 0
  <2>1. Queue = Tail(wire) /\ Queue' = Tail(wire)
    BY <1>0, <1>1, <1>2, <1>4 DEF Queue
  <2> QED
    BY <1>0, <1>1, <2>1
<1> QED
  BY <1>2, <1>3, <1>4

\* In step, the last byte of an event hands it over, and no other byte does anything.
LEMMA HandsOver ==
  ASSUME FramingInv, ~ambiguous, EventBegins \/ EventGoesOn
  PROVE  PL!HandOver \/ (Queue' = Queue /\ UNCHANGED <<handed, starts, line>>)
<1>0. FramingTypeOK /\ ReadByte /\ line /\ wire # <<>> /\ UNCHANGED <<line, starts>>
  BY Reading DEF FramingInv, EventBegins, EventGoesOn
<1>1. CASE EventBegins
  <2>1. off = 0 /\ wire' = wire /\ phase' = "header" /\ handed' = handed
    BY <1>1, EventBeginsInv DEF EventBegins
  <2>2. Queue' = Queue
    BY <2>1 DEF Queue
  <2> QED
    BY <1>0, <2>1, <2>2
<1>2. CASE EventGoesOn
  <2> DEFINE b == Append(buf, Byte)
  <2>1. /\ phase # "type"
        /\ \/ Complete(b) /\ handed' = Append(handed, b) /\ phase' = "type"
           \/ ~Complete(b) /\ handed' = handed /\ phase' # "type"
    BY <1>2 DEF EventGoesOn, NextRound
  <2>2. /\ Head(wire) \in EventPackets
        /\ Complete(b) <=> off + 1 = Len(Head(wire))
        /\ Complete(b) => b = Head(wire)
    BY <1>2, EventRead
  <2>3. /\ \/ off + 1 = Len(Head(wire)) /\ wire' = Tail(wire) /\ off' = 0
           \/ off + 1 < Len(Head(wire)) /\ wire' = wire /\ off' = off + 1
    BY <1>0, Reading
  <2>4. Queue = wire
    BY <2>1 DEF Queue
  <2> HIDE DEF b
  <2>5. off \in Nat /\ Len(Head(wire)) \in Nat
    BY <1>0, WireHead
  <2>6. CASE Complete(b)
    <3>1. wire' = Tail(wire) /\ off' = 0 /\ handed' = Append(handed, Head(wire)) /\ phase' = "type"
      BY <2>1, <2>2, <2>3, <2>5, <2>6
    <3>2. Queue' = Tail(wire)
      BY <3>1 DEF Queue
    <3> QED
      BY <1>0, <2>2, <2>4, <3>1, <3>2 DEF PL!HandOver, Queue
  <2>7. CASE ~Complete(b)
    <3>1. wire' = wire /\ handed' = handed /\ phase' # "type"
      BY <2>1, <2>2, <2>3, <2>5, <2>7
    <3> QED
      BY <1>0, <2>4, <3>1 DEF Queue
  <2> QED
    BY <2>6, <2>7
<1> QED
  BY <1>1, <1>2

LEMMA TailOfAppended ==
  ASSUME NEW S, NEW q \in Seq(S), NEW e \in S, q # <<>>
  PROVE  Tail(Append(q, e)) = Append(Tail(q), e)
<1> DEFINE a == Append(q, e)
           t == Tail(q)
           u == Tail(a)
           v == Append(t, e)
<1>1. /\ a \in Seq(S) /\ a # <<>> /\ Len(q) \in Nat /\ Len(a) = Len(q) + 1
      /\ a[Len(q) + 1] = e /\ \A i \in 1..Len(q) : a[i] = q[i]
  BY Appended
<1>2. /\ t \in Seq(S) /\ Len(t) = Len(q) - 1 /\ Len(t) \in Nat /\ \A i \in 1..Len(t) : t[i] = q[i + 1]
  BY HeadTailProperties, LenProperties
<1> HIDE DEF a, t
<1>3. /\ u \in Seq(S) /\ Len(u) = Len(a) - 1 /\ \A i \in 1..Len(u) : u[i] = a[i + 1]
  BY <1>1, HeadTailProperties
<1>4. /\ v \in Seq(S) /\ Len(v) = Len(t) + 1 /\ v[Len(t) + 1] = e /\ \A i \in 1..Len(t) : v[i] = t[i]
  BY <1>2, Appended
<1> HIDE DEF u, v
<1>5. Len(u) = Len(v)
  BY <1>1, <1>2, <1>3, <1>4
<1>6. ASSUME NEW i \in 1..Len(u) PROVE u[i] = v[i]
  <2>1. CASE i \in 1..Len(t)
    <3>1. i + 1 \in 1..Len(q)
      BY <1>1, <1>2, <2>1
    <3> QED
      BY <1>1, <1>2, <1>3, <1>4, <2>1, <3>1
  <2>2. CASE i = Len(t) + 1
    <3>1. i + 1 = Len(q) + 1
      BY <1>1, <1>2, <2>2
    <3> QED
      BY <1>1, <1>3, <1>4, <2>2, <3>1
  <2>3. i \in 1..Len(t) \/ i = Len(t) + 1
    BY <1>2, <1>4, <1>5
  <2> QED
    BY <2>1, <2>2, <2>3
<1>7. u = v
  BY <1>3, <1>4, <1>5, <1>6, SeqEqual
<1> QED
  BY <1>7 DEF a, t, u, v

LEMMA DroppedTwice ==
  ASSUME NEW S, NEW q \in Seq(S), NEW d \in Nat, NEW c \in Nat, d <= c, c <= Len(q),
         NEW r, r = SubSeq(q, d + 1, Len(q)), NEW s, s = SubSeq(q, c + 1, Len(q))
  PROVE  /\ Len(r) \in Nat /\ Len(r) = Len(q) - d
         /\ s = SubSeq(r, (c - d) + 1, Len(r))
<1>0. Len(q) \in Nat /\ d <= Len(q)
  OBVIOUS
<1>1. /\ r \in Seq(S) /\ Len(r) \in Nat /\ Len(r) = Len(q) - d
      /\ \A i \in 1..Len(r) : d + i \in 1..Len(q) /\ r[i] = q[d + i]
  BY <1>0, Dropped
<1>2. /\ s \in Seq(S) /\ Len(s) \in Nat /\ Len(s) = Len(q) - c
      /\ \A i \in 1..Len(s) : c + i \in 1..Len(q) /\ s[i] = q[c + i]
  BY <1>0, Dropped
<1>3. c - d \in Nat /\ c - d <= Len(r)
  BY <1>0, <1>1
<1>4. PICK t : t = SubSeq(r, (c - d) + 1, Len(r))
  OBVIOUS
<1>5. /\ t \in Seq(S) /\ Len(t) = Len(r) - (c - d)
      /\ \A i \in 1..Len(t) : (c - d) + i \in 1..Len(r) /\ t[i] = r[(c - d) + i]
  BY <1>1, <1>3, <1>4, Dropped
<1>6. Len(s) = Len(t)
  BY <1>0, <1>1, <1>2, <1>5
<1>7. ASSUME NEW i \in 1..Len(s) PROVE s[i] = t[i]
  <2>1. (c - d) + i \in 1..Len(r) /\ t[i] = r[(c - d) + i]
    BY <1>5, <1>6
  <2>2. r[(c - d) + i] = q[d + ((c - d) + i)]
    BY <1>1, <2>1
  <2>3. d + ((c - d) + i) = c + i
    BY <1>2
  <2>4. s[i] = q[c + i]
    BY <1>2
  <2> QED
    BY <2>1, <2>2, <2>3, <2>4
<1>8. s = t
  BY <1>2, <1>5, <1>6, <1>7, SeqEqual
<1> QED
  BY <1>1, <1>4, <1>8

\* A packet that is sent comes behind those to be handed over.
LEMMA Sends ==
  ASSUME FramingInv, NEW p \in EventPackets \cup DataPackets, SendPacket(p)
  PROVE  PL!Send(p)
<1>0. /\ wire' = Append(wire, p) /\ UNCHANGED <<off, phase, line, handed, starts>>
      /\ FramingTypeOK
  BY DEF FramingInv, SendPacket
<1>1. wire \in Seq(Packets) /\ p \in Packets /\ (wire = <<>> => off = 0) /\ off \in Nat
  BY <1>0 DEF FramingTypeOK, Packets
<1>2. Queue' = Append(Queue, p)
  <2>1. CASE phase = "type" /\ off > 0
    <3>1. wire # <<>>
      BY <1>1, <2>1
    <3>2. Tail(Append(wire, p)) = Append(Tail(wire), p)
      BY <1>1, <3>1, TailOfAppended
    <3> QED
      BY <1>0, <2>1, <3>2 DEF Queue
  <2>2. CASE ~(phase = "type" /\ off > 0)
    BY <1>0, <2>2 DEF Queue
  <2> QED
    BY <2>1, <2>2
<1> QED
  BY <1>0, <1>2 DEF PL!Send, Queue

\* A packet of which bytes are dropped is over; those before it are dropped.
LEMMA Restarts ==
  ASSUME FramingInv, bt_serial_init
  PROVE  PL!Restart
<1>0. starts' = starts + 1 /\ phase' = "type" /\ handed' = handed /\ line' = line
  BY DEF bt_serial_init, NextRound
<1>1. /\ wire \in Seq(Packets) /\ Len(wire) \in Nat /\ off \in Nat /\ (wire = <<>> => off = 0)
  BY DEF FramingInv, FramingTypeOK, Packets
<1>2. PICK k, j \in Nat : /\ Skip(k, j)
                          /\ (k = Len(wire) /\ j = 0) \/ (k < Len(wire) /\ j < Len(wire[k + 1]))
                          /\ k = 0 /\ Len(wire) # 0 => j >= off
  BY Starting
<1>3. wire' = SubSeq(wire, k + 1, Len(wire)) /\ off' = j
  BY <1>2 DEF Skip
<1>4. ASSUME NEW m \in Nat, m <= Len(Queue), Queue' = SubSeq(Queue, m + 1, Len(Queue)), Len(Queue) \in Nat
      PROVE  PL!Restart
  <2>1. m \in 0..Len(Queue)
    BY <1>4
  <2>2. \E n \in 0..Len(Queue) : Queue' = SubSeq(Queue, n + 1, Len(Queue))
    BY <1>4, <2>1
  <2> QED
    BY <1>0, <2>2 DEF PL!Restart, Queue
<1> DEFINE d == IF phase = "type" /\ off > 0 THEN 1 ELSE 0
           c == IF j > 0 THEN k + 1 ELSE k
<1>5. d \in Nat /\ c \in Nat /\ d <= Len(wire) /\ c <= Len(wire) /\ d <= c
  <2>1. wire # <<>> => Len(wire) # 0
    BY <1>1, EmptySeq
  <2> QED
    BY <1>1, <1>2, <2>1
<1>6. Queue = SubSeq(wire, d + 1, Len(wire))
  <2>1. CASE phase = "type" /\ off > 0
    <3>1. wire # <<>>
      BY <1>1, <2>1
    <3>2. Queue = Tail(wire) /\ d + 1 = 2
      BY <2>1 DEF Queue
    <3> QED
      BY <1>1, <3>1, <3>2, TailIsSubSeq
  <2>2. CASE ~(phase = "type" /\ off > 0)
    <3>1. Queue = wire /\ d + 1 = 1
      BY <2>2 DEF Queue
    <3> QED
      BY <1>1, <3>1, SubSeqFull
  <2> QED
    BY <2>1, <2>2
<1>7. Queue' = SubSeq(wire, c + 1, Len(wire))
  <2>1. CASE j > 0
    <3>1. k + 1 \in 1..Len(wire) /\ Len(wire) \in (k + 1)..Len(wire) /\ c + 1 = (k + 1) + 1
      BY <1>1, <1>2, <2>1
    <3>2. Tail(SubSeq(wire, k + 1, Len(wire))) = SubSeq(wire, (k + 1) + 1, Len(wire))
      BY <1>1, <3>1, HeadTailOfSubSeq
    <3> QED
      BY <1>0, <1>3, <2>1, <3>1, <3>2 DEF Queue
  <2>2. CASE ~(j > 0)
    BY <1>0, <1>3, <2>2 DEF Queue
  <2> QED
    BY <2>1, <2>2
<1> HIDE DEF c, d
<1>8. /\ Len(Queue) \in Nat /\ Len(Queue) = Len(wire) - d
      /\ Queue' = SubSeq(Queue, (c - d) + 1, Len(Queue))
  BY <1>1, <1>5, <1>6, <1>7, DroppedTwice
<1>9. c - d \in Nat /\ c - d <= Len(Queue)
  BY <1>1, <1>5, <1>8
<1> QED
  BY <1>4, <1>8, <1>9

LEMMA StepOfPacketLine ==
  FramingInv /\ FramingInv' /\ [FramingNext]_framingVars
    => [PL!PLNext]_<<Queue, handed, starts, line, ambiguous>>
<1> SUFFICES ASSUME FramingInv, FramingInv', [FramingNext]_framingVars
    PROVE  PL!PLNext \/ UNCHANGED <<Queue, handed, starts, line, ambiguous>>
  OBVIOUS
<1>1. CASE ambiguous'
  BY <1>1 DEF PL!PLNext, PL!Confuse
<1>2. CASE ~ambiguous'
  <2>1. ~ambiguous
    BY <1>2, Reading DEF FramingNext, bt_dev_read_hci, NotAnEvent, EventBegins, EventGoesOn,
       ReadFails, ReadByte, bt_serial_init, Skip, Hangup, SendPacket, framingVars
  <2>2. CASE bt_dev_read_hci
    <3>1. CASE NotAnEvent \/ EventBegins \/ EventGoesOn
      <4>1. line /\ ambiguous' = ambiguous
        BY <3>1 DEF NotAnEvent, EventBegins, EventGoesOn, ReadByte
      <4>2. \/ PL!PassOver \/ PL!HandOver
            \/ Queue' = Queue /\ UNCHANGED <<handed, starts, line>>
        BY <2>1, <3>1, PassesOver, HandsOver
      <4>3. CASE PL!PassOver \/ PL!HandOver
        BY <2>1, <4>1, <4>3 DEF PL!PLNext
      <4>4. CASE Queue' = Queue /\ UNCHANGED <<handed, starts, line>>
        BY <4>1, <4>4
      <4> QED
        BY <4>2, <4>3, <4>4
    <3>2. CASE ReadFails
      <4>1. wire = <<>> /\ off = 0 /\ UNCHANGED <<wire, off, line, handed, starts, ambiguous>>
        BY <3>2 DEF FramingInv, FramingTypeOK, ReadFails
      <4> QED
        BY <4>1 DEF Queue
    <3> QED
      BY <2>2, <3>1, <3>2 DEF bt_dev_read_hci
  <2>3. ASSUME NEW p \in EventPackets \cup DataPackets, SendPacket(p) PROVE PL!PLNext
    BY <1>2, <2>1, <2>3, Sends DEF PL!PLNext
  <2>4. CASE bt_serial_init
    BY <1>2, <2>1, <2>4, Restarts DEF PL!PLNext
  <2>5. CASE Hangup
    <3>1. Queue' = <<>>
      BY <2>5 DEF Hangup, Queue
    <3> QED
      BY <1>2, <2>1, <2>5, <3>1 DEF PL!PLNext, PL!Break, Hangup, Queue
  <2>6. CASE UNCHANGED framingVars
    BY <2>6 DEF framingVars, Queue
  <2> QED
    BY <2>2, <2>3, <2>4, <2>5, <2>6 DEF FramingNext
<1> QED
  BY <1>1, <1>2

\* What the handlers see is a line of packets: every event is handed over once, whole and
\* in order, except for what a start of the host or the end of the line drops, until a
\* byte that can be mistaken for the beginning of an event is left to the host.
THEOREM HandlersSeePackets == FramingSpec => ImplementsPacketLine
<1>1. FramingInit => PL!PLInit
  BY DEF FramingInit, PL!PLInit
<1> QED
  BY <1>1, StepOfPacketLine, HostStaysInStep, PTL DEF FramingSpec, ImplementsPacketLine, PL!PLSpec, Queue

=============================================================================
