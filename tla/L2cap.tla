------------------------------- MODULE L2cap -------------------------------
(***************************************************************************)
(* bt_l2cap.c: L2CAP signalling commands and the parser that tells them    *)
(* apart, with the ACL packets around them (bt_dev_pack_l2cap,             *)
(* bt_hci_pack_acl) and the one function that hands received data to the   *)
(* parser (unix_handle_acl of test.c).  The state is what dev->buf holds;  *)
(* packing and parsing are operators on sequences of bytes.                *)
(***************************************************************************)
EXTENDS Integers, Sequences

CONSTANTS
  Lengths,      \* lengths of commands looked at
  Sizes,        \* sizes of data looked at
  AclHandles    \* connection handles looked at

VARIABLES
  packet,   \* the bytes of dev->buf before dev->ptr
  packed    \* what they were packed for

l2capVars == <<packet, packed>>

ASSUME L2capAssumption ==
  /\ \A n \in Lengths \cup Sizes : n \in Nat /\ n < 65536
  /\ \A h \in AclHandles : h \in Nat /\ h < 4096   \* 12 bits: ACL_HANDLE()

BufBytes == 256   \* sizeof(dev->buf)

Byte8(n) == <<n % 256>>
Byte16(n) == <<n % 256, (n \div 256) % 256>>
Word(b, i) == b[i] + 256 * b[i + 1]

CMD_REJ == 1
ECHO_REQ == 8
ECHO_RSP == 9

-----------------------------------------------------------------------------
(* Packing *)

pack_hdr(len, cid) == Byte16(len) \o Byte16(cid)

\* The length of the command is written, not that of the packet.
pack_cmd_bare(code, id, len) == pack_hdr(len, 1) \o Byte8(code) \o Byte8(id) \o Byte16(len)

\* len + 4 is cut to an unsigned short.
pack_cmd(code, id, len) == pack_hdr(len + 4, 1) \o Byte8(code) \o Byte8(id) \o Byte16(len)

pack_cmd_not_understood == pack_cmd(CMD_REJ, 0, 0)

START == 2
HandleField(handle, pb, bc) == (handle % 4096) + 4096 * pb + 16384 * bc

\* len is an unsigned char.
pack_acl(handle, pb, bc, len) == <<2>> \o Byte16(HandleField(handle, pb, bc)) \o Byte16(len % 256)

\* The length announced is that of the data, without the L2CAP header.
pack_l2cap_short(handle, data) ==
  pack_acl(handle, START, 0, Len(data)) \o pack_hdr(Len(data), 64) \o data

pack_l2cap(handle, data) ==
  pack_acl(handle, START, 0, Len(data) + 4) \o pack_hdr(Len(data), 64) \o data

-----------------------------------------------------------------------------
(* Parsing *)

\* The parameters a command must have, but for CMD_REJ, by its code.
LeastLength == <<0, 4, 8, 4, 8, 4, 4, 0, 0, 2, 4>>
CommandEvent == <<"cmd_rej", "conn_req", "conn_rsp", "conf_req", "conf_rsp", "disconn_req",
                  "disconn_rsp", "echo_req", "echo_rsp", "info_req", "info_rsp">>

\* What is rejected, and the parameters that must come with it, by the identifier.
RejectEvent == [id \in 0..2 |->
  CASE id = 0 -> "cmd_rej_not_understood"
    [] id = 1 -> "cmd_rej_mtu_exceeded"
    [] id = 2 -> "cmd_rej_cid_invalid"]

Classify(code, id, len) ==
  IF code = CMD_REJ
    THEN IF id \in 0..2 /\ len >= 2 * id THEN RejectEvent[id] ELSE "garbage"
    ELSE IF code \in DOMAIN CommandEvent /\ len >= LeastLength[code]
           THEN CommandEvent[code] ELSE "garbage"

unpack_cmd(b) == Classify(b[1], b[2], Word(b, 3))

unpack(b) ==
  CASE Word(b, 3) = 0 -> "garbage"
    [] Word(b, 3) = 1 -> IF Word(b, 1) < 4 THEN "garbage" ELSE unpack_cmd(SubSeq(b, 5, Len(b)))
    [] Word(b, 3) = 2 -> "connless_data"
    [] OTHER -> "conn_data"

\* The handle is compared with the whole field, flags included.
handle_acl(b, handle) ==
  IF Word(b, 1) = handle /\ (Word(b, 1) \div 4096) % 4 = START
    THEN unpack(SubSeq(b, 5, Len(b))) ELSE "none"

\* What goes out on an echo request in dev->buf: the request up to the pointer, which
\* is behind the header of the command, and the reply where its data were.
echo_reply(request) == SubSeq(request, 1, 13) \o pack_cmd(ECHO_RSP, request[11], 0)

-----------------------------------------------------------------------------
(* dev->buf is filled and flushed *)

Idle == [kind |-> "none"]

L2capInit == packet = <<>> /\ packed = Idle

PackCommand(code, id, len) ==
  /\ packet = <<>> /\ packet' = pack_cmd(code, id, len)
  /\ packed' = [kind |-> "command", code |-> code, id |-> id, len |-> len]

PackNotUnderstood ==
  /\ packet = <<>> /\ packet' = pack_cmd_not_understood
  /\ packed' = [kind |-> "command", code |-> CMD_REJ, id |-> 0, len |-> 0]

PackData(handle, n) ==
  /\ packet = <<>> /\ packet' = pack_l2cap(handle, [i \in 1..n |-> 0])
  /\ packed' = [kind |-> "data", handle |-> handle, size |-> n]

\* An ACL packet with an echo request, in dev->buf as a whole.
EchoRequest(handle, id, n) ==
  pack_acl(handle, START, 0, n + 8) \o pack_cmd(ECHO_REQ, id, n) \o [i \in 1..n |-> 0]

AnswerEcho(handle, id, n) ==
  /\ packet = <<>> /\ Len(EchoRequest(handle, id, n)) <= BufBytes
  /\ packet' = echo_reply(EchoRequest(handle, id, n))
  /\ packed' = [kind |-> "echo", id |-> id]

\* bt_dev_flush_hci(): the bytes go out, and the next pack begins at dev->buf.
Flush == packet # <<>> /\ packet' = <<>> /\ packed' = Idle

L2capNext ==
  \/ \E code \in 0..12, id \in 0..3, len \in Lengths : PackCommand(code, id, len)
  \/ PackNotUnderstood
  \/ \E h \in AclHandles, n \in Sizes :
       PackData(h, n) \/ \E id \in 0..3 : AnswerEcho(h, id, n)
  \/ Flush

L2capSpec == L2capInit /\ [][L2capNext]_l2capVars

-----------------------------------------------------------------------------
(* Properties *)

\* What the parser makes of a command is what was packed, whatever the number of its
\* parameters, the library's own replies included; from 65532 on the length wraps
\* around and the command is garbage.  What is put over the data of an echo request is
\* an echo response with its identifier.
SignallingInv ==
  /\ packed.kind = "command" =>
       unpack(packet) = IF packed.len <= 65531 THEN Classify(packed.code, packed.id, packed.len)
                                                ELSE "garbage"
  /\ packed.kind = "echo" =>
       unpack(SubSeq(packet, 14, 21)) = "echo_rsp" /\ packet[19] = packed.id

\* The ACL header announces the bytes that follow it, and the L2CAP header the data.
Framed(p) == Word(p, 4) = Len(p) - 5 /\ Word(p, 6) = Len(p) - 9

\* A packet is announced with its length whenever it fits into dev->buf: the length
\* that bt_hci_pack_acl cuts to eight bits is wrong for larger ones only.
FitsMeansFramed ==
  packed.kind = "data" /\ Len(packet) <= BufBytes => Framed(packet)

-----------------------------------------------------------------------------
(* What the repository says and the code does not do *)

\* test.c:21,31-33: the handle is taken out of its field, and data that start an L2CAP
\* packet on the connection are handed to the parser, whatever flags come with it.
DataReachParser ==
  packed.kind = "data" => handle_acl(Tail(packet), packed.handle) # "none"
=============================================================================
