---------------------------- MODULE L2cap_proofs ----------------------------
(***************************************************************************)
(* What L2cap.tla states of packed packets, for every length, size and     *)
(* handle.  The headers are first written out byte by byte; the properties *)
(* are then arithmetic on the bytes that the parser and the announced      *)
(* lengths look at.                                                        *)
(***************************************************************************)
EXTENDS L2cap, SequenceTheorems, TLAPS

-----------------------------------------------------------------------------
(* Concatenations of bytes *)

LEMMA FiveBytes ==
  ASSUME NEW a \in Int, NEW b \in Int, NEW c \in Int, NEW d \in Int, NEW e \in Int
  PROVE  (<<a>> \o <<b, c>>) \o <<d, e>> = <<a, b, c, d, e>>
<1> DEFINE s == (<<a>> \o <<b, c>>) \o <<d, e>>
           t == <<a, b, c, d, e>>
<1>1. s \in Seq(Int) /\ t \in Seq(Int) /\ Len(s) = 5 /\ Len(t) = 5
  OBVIOUS
<1>2. s[1] = t[1] /\ s[2] = t[2] /\ s[3] = t[3] /\ s[4] = t[4] /\ s[5] = t[5]
  OBVIOUS
<1> HIDE DEF s, t
<1>3. \A i \in 1..5 : s[i] = t[i]
  BY <1>2
<1>4. s = t
  BY <1>1, <1>3, SeqEqual
<1> QED BY <1>4 DEF s, t

LEMMA FourBytes ==
  ASSUME NEW a \in Int, NEW b \in Int, NEW c \in Int, NEW d \in Int
  PROVE  <<a, b>> \o <<c, d>> = <<a, b, c, d>>
<1> DEFINE s == <<a, b>> \o <<c, d>>
           t == <<a, b, c, d>>
<1>1. s \in Seq(Int) /\ t \in Seq(Int) /\ Len(s) = 4 /\ Len(t) = 4
  OBVIOUS
<1>2. s[1] = t[1] /\ s[2] = t[2] /\ s[3] = t[3] /\ s[4] = t[4]
  OBVIOUS
<1> HIDE DEF s, t
<1>3. \A i \in 1..4 : s[i] = t[i]
  BY <1>2
<1>4. s = t
  BY <1>1, <1>3, SeqEqual
<1> QED BY <1>4 DEF s, t

LEMMA EightBytes ==
  ASSUME NEW a \in Int, NEW b \in Int, NEW c \in Int, NEW d \in Int,
         NEW e \in Int, NEW f \in Int, NEW g \in Int, NEW h \in Int
  PROVE  (((<<a, b>> \o <<c, d>>) \o <<e>>) \o <<f>>) \o <<g, h>>
           = <<a, b, c, d, e, f, g, h>>
<1> DEFINE s == (((<<a, b>> \o <<c, d>>) \o <<e>>) \o <<f>>) \o <<g, h>>
           t == <<a, b, c, d, e, f, g, h>>
<1>1. s \in Seq(Int) /\ t \in Seq(Int) /\ Len(s) = 8 /\ Len(t) = 8
  OBVIOUS
<1>2. /\ s[1] = t[1] /\ s[2] = t[2] /\ s[3] = t[3] /\ s[4] = t[4]
      /\ s[5] = t[5] /\ s[6] = t[6] /\ s[7] = t[7] /\ s[8] = t[8]
  OBVIOUS
<1> HIDE DEF s, t
<1>3. \A i \in 1..8 : s[i] = t[i]
  BY <1>2
<1>4. s = t
  BY <1>1, <1>3, SeqEqual
<1> QED BY <1>4 DEF s, t

LEMMA NineBytes ==
  ASSUME NEW b \in Int, NEW c \in Int, NEW e \in Int, NEW x \in Int, NEW y \in Int
  PROVE  <<2, b, c, e, 0>> \o <<x, y, 64, 0>> = <<2, b, c, e, 0, x, y, 64, 0>>
<1> DEFINE s == <<2, b, c, e, 0>> \o <<x, y, 64, 0>>
           t == <<2, b, c, e, 0, x, y, 64, 0>>
<1>1. s \in Seq(Int) /\ t \in Seq(Int) /\ Len(s) = 9 /\ Len(t) = 9
  OBVIOUS
<1>2. /\ s[1] = t[1] /\ s[2] = t[2] /\ s[3] = t[3] /\ s[4] = t[4] /\ s[5] = t[5]
      /\ s[6] = t[6] /\ s[7] = t[7] /\ s[8] = t[8] /\ s[9] = t[9]
  OBVIOUS
<1> HIDE DEF s, t
<1>3. \A k \in 1..9 : s[k] = t[k]
  BY <1>2
<1>4. s = t
  BY <1>1, <1>3, SeqEqual
<1> QED BY <1>4 DEF s, t

\* The front and the rest of a concatenation, and the front of a sequence.
LEMMA Concatenation ==
  ASSUME NEW s \in Seq(Int), NEW t \in Seq(Int)
  PROVE  /\ s \o t \in Seq(Int) /\ Len(s \o t) = Len(s) + Len(t)
         /\ \A i \in Nat : 0 < i /\ i <= Len(s) => (s \o t)[i] = s[i]
         /\ \A i \in Nat : 0 < i /\ i <= Len(t) => (s \o t)[Len(s) + i] = t[i]
  OBVIOUS

LEMMA EleventhByte ==
  ASSUME NEW s \in Seq(Int), Len(s) = 13, NEW t \in Seq(Int)
  PROVE  s \o t \in Seq(Int) /\ Len(s \o t) = 13 + Len(t) /\ (s \o t)[11] = s[11]
<1>1. s \o t \in Seq(Int)
  BY Concatenation
<1>2. Len(s \o t) = Len(s) + Len(t)
  BY Concatenation
<1>3. \A i \in Nat : 0 < i /\ i <= Len(s) => (s \o t)[i] = s[i]
  BY Concatenation
<1>4. \A i \in {11} : i \in Nat /\ 0 < i /\ i <= Len(s)
  OBVIOUS
<1>5. \A i \in {11} : (s \o t)[i] = s[i]
  BY <1>3, <1>4
<1> QED BY <1>1, <1>2, <1>5

LEMMA FirstThirteen ==
  ASSUME NEW s \in Seq(Int), Len(s) >= 13
  PROVE  LET t == SubSeq(s, 1, 13)
         IN  t \in Seq(Int) /\ Len(t) = 13
<1>1. \A i \in 1..13 : s[i] \in Int
  OBVIOUS
<1> QED BY <1>1, SubSeqProperties

\* What is put behind thirteen bytes is found there again.
LEMMA BehindThirteen ==
  ASSUME NEW s \in Seq(Int), Len(s) = 13, NEW t \in Seq(Int), Len(t) = 8
  PROVE  SubSeq(s \o t, 14, 21) = t /\ (s \o t)[19] = t[6]
<1> DEFINE p == s \o t
           q == SubSeq(p, 14, 21)
<1>1. p \in Seq(Int) /\ Len(p) = 21
  <2>1. Len(p) = Len(s) + Len(t)
    BY Concatenation
  <2>2. p \in Seq(Int)
    BY Concatenation
  <2> HIDE DEF p
  <2> QED BY <2>1, <2>2
<1>2. \A i \in 1..8 : p[13 + i] = t[i]
  <2>1. \A i \in Nat : 0 < i /\ i <= Len(t) => p[Len(s) + i] = t[i]
    BY Concatenation
  <2>2. \A i \in 1..8 : i \in Nat /\ 0 < i /\ i <= Len(t)
    OBVIOUS
  <2> HIDE DEF p
  <2> QED BY <2>1, <2>2
<1> HIDE DEF p
<1>3. \A i \in 14..21 : p[i] \in Int
  <2>1. \A i \in 1..Len(p) : p[i] \in Int
    BY <1>1, ElementOfSeq
  <2>2. \A i \in 14..21 : i \in 1..Len(p)
    BY <1>1
  <2> QED BY <2>1, <2>2
<1>4. q \in Seq(Int) /\ Len(q) = 21 - 14 + 1 /\ \A i \in 1..(21 - 14 + 1) : q[i] = p[14 + i - 1]
  BY <1>3, SubSeqProperties
<1> HIDE DEF q
<1>5. Len(q) = 8 /\ \A i \in 1..8 : q[i] = p[13 + i]
  BY <1>4
<1>6. q = t
  <2>1. \A i \in 1..8 : q[i] = t[i]
    BY <1>2, <1>5
  <2> QED BY <1>4, <1>5, <2>1, SeqEqual
<1>7. p[19] = t[6]
  <2>1. p[13 + 6] = t[6]
    BY <1>2
  <2> QED BY <2>1
<1> QED BY <1>6, <1>7 DEF p, q

\* The low and the high byte of a number of 16 bits.
Low(n) == n % 256
High(n) == (n \div 256) % 256

LEMMA TwoBytes ==
  ASSUME NEW n \in Nat
  PROVE  /\ Byte16(n) = <<Low(n), High(n)>> /\ Low(n) \in Int /\ High(n) \in Int
         /\ Low(n) + 256 * High(n) = n % 65536
<1>1. (n % 256) + 256 * ((n \div 256) % 256) = n % 65536
  BY SMTT(60)
<1> QED BY <1>1 DEF Byte16, Low, High

LEMMA SmallNumber ==
  ASSUME NEW n \in Nat, n < 256
  PROVE  Byte16(n) = <<n, 0>>
  BY DEF Byte16

-----------------------------------------------------------------------------
(* The bytes of headers *)

LEMMA CommandBytes ==
  ASSUME NEW code \in Nat, code < 256, NEW id \in Nat, id < 256, NEW len \in Nat
  PROVE  pack_cmd(code, id, len) =
           <<Low(len + 4), High(len + 4), 1, 0, code, id, Low(len), High(len)>>
<1> DEFINE m == len + 4
<1>1. m \in Nat
  OBVIOUS
<1>2. Byte8(code) = <<code>> /\ Byte8(id) = <<id>>
  BY DEF Byte8
<1>3. Byte16(1) = <<1, 0>>
  BY DEF Byte16
<1>4. pack_cmd(code, id, len)
        = (((Byte16(m) \o Byte16(1)) \o Byte8(code)) \o Byte8(id)) \o Byte16(len)
  BY DEF pack_cmd, pack_hdr
<1> HIDE DEF m
<1>5. (((<<Low(m), High(m)>> \o <<1, 0>>) \o <<code>>) \o <<id>>) \o <<Low(len), High(len)>>
        = <<Low(m), High(m), 1, 0, code, id, Low(len), High(len)>>
  <2>1. /\ Low(m) \in Int /\ High(m) \in Int
        /\ Low(len) \in Int /\ High(len) \in Int
    BY <1>1, TwoBytes
  <2> QED BY <2>1, EightBytes
<1>6. /\ Byte16(m) = <<Low(m), High(m)>> /\ Byte16(len) = <<Low(len), High(len)>>
  BY <1>1, TwoBytes
<1> QED BY <1>2, <1>3, <1>4, <1>5, <1>6 DEF m

\* The headers of a first packet on a handle, and of data.
FirstField(handle) == HandleField(handle, START, 0)
FirstAcl(handle, len) == pack_acl(handle, START, 0, len)
DataHdr(n) == pack_hdr(n, 64)

\* An ACL header carries the flag of a first packet above the handle's 12 bits, and
\* the length's low eight bits.
LEMMA AclBytes ==
  ASSUME NEW handle \in Nat, handle < 4096, NEW len \in Nat
  PROVE  LET f == FirstField(handle)
         IN  /\ FirstAcl(handle, len) = <<2, Low(f), High(f), Low(len), 0>>
             /\ Low(f) \in Int /\ High(f) \in Int /\ Low(f) + 256 * High(f) = handle + 8192
<1> DEFINE f == FirstField(handle)
           d == len % 256
<1>1. f = handle + 8192 /\ f \in Nat /\ f % 65536 = handle + 8192
  BY DEF FirstField, HandleField, START
<1>2. d \in Nat /\ d < 256 /\ d = Low(len)
  BY DEF Low
<1>3. FirstAcl(handle, len) = (<<2>> \o Byte16(f)) \o Byte16(d)
  BY DEF FirstAcl, FirstField, pack_acl
<1> HIDE DEF f, d
<1>4. /\ Byte16(f) = <<Low(f), High(f)>> /\ Low(f) \in Int /\ High(f) \in Int
      /\ Low(f) + 256 * High(f) = handle + 8192
  BY <1>1, TwoBytes
<1>5. Byte16(d) = <<d, 0>>
  BY <1>2, SmallNumber
<1>6. (<<2>> \o <<Low(f), High(f)>>) \o <<d, 0>> = <<2, Low(f), High(f), d, 0>>
  BY <1>2, <1>4, FiveBytes
<1>7. FirstAcl(handle, len) = <<2, Low(f), High(f), Low(len), 0>>
  BY <1>2, <1>3, <1>4, <1>5, <1>6
<1> QED BY <1>4, <1>7 DEF f

\* What the properties look at in a packet of n bytes of data.
LEMMA DataPacketBytes ==
  ASSUME NEW handle \in Nat, handle < 4096, NEW n \in Nat
  PROVE  LET p == pack_l2cap(handle, [i \in 1..n |-> 0])
         IN  /\ p \in Seq(Int) /\ Len(p) = n + 9
             /\ Word(p, 4) = (n + 4) % 256
             /\ Word(p, 6) = n % 65536
<1> DEFINE data == [i \in 1..n |-> 0]
           m == n + 4
           f == FirstField(handle)
           b == Low(f)
           c == High(f)
           e == Low(m)
           x == Low(n)
           y == High(n)
           p == pack_l2cap(handle, data)
<1>1. data \in Seq(Int) /\ Len(data) = n /\ Len(data) + 4 = m
  OBVIOUS
<1>4. m \in Nat
  OBVIOUS
<1>2. p = (FirstAcl(handle, Len(data) + 4) \o DataHdr(Len(data))) \o data
  BY DEF pack_l2cap, FirstAcl, DataHdr
<1>3. e = (n + 4) % 256
  BY DEF Low
<1> HIDE DEF data, m, p
<1>5. FirstAcl(handle, m) = <<2, b, c, e, 0>>
  BY <1>4, AclBytes
<1>6. b \in Int /\ c \in Int /\ b + 256 * c = handle + 8192
  BY <1>4, AclBytes
<1>7. e \in Int /\ x \in Int /\ y \in Int /\ x + 256 * y = n % 65536
  BY <1>4, TwoBytes
<1> HIDE DEF f, b, c, e
<1> DEFINE acl == <<2, b, c, e, 0>>
           hdr == <<x, y, 64, 0>>
           nine == <<2, b, c, e, 0, x, y, 64, 0>>
<1>8. DataHdr(n) = hdr
  <2> DEFINE s == <<x, y>>
             t == <<64, 0>>
  <2>1. s \o t = hdr
    BY <1>7, FourBytes
  <2>2. Byte16(n) = s /\ Byte16(64) = t
    BY TwoBytes, SmallNumber
  <2>3. DataHdr(n) = Byte16(n) \o Byte16(64)
    BY DEF DataHdr, pack_hdr
  <2> HIDE DEF s, t, hdr
  <2> QED BY <2>1, <2>2, <2>3
<1> HIDE DEF x, y
<1>9. p = nine \o data
  <2>1. acl \o hdr = nine
    BY <1>6, <1>7, NineBytes
  <2> DEFINE s == FirstAcl(handle, Len(data) + 4)
             t == DataHdr(Len(data))
             u == s \o t
  <2>2. p = u \o data
    BY <1>2
  <2> HIDE DEF acl, hdr, nine
  <2>3. s = acl
    BY <1>1, <1>5 DEF acl
  <2>4. t = hdr
    BY <1>1, <1>8
  <2> HIDE DEF s, t
  <2>5. u = nine
    BY <2>1, <2>3, <2>4
  <2> HIDE DEF u
  <2> QED BY <2>2, <2>5
<1>10. /\ p \in Seq(Int) /\ Len(p) = n + 9
       /\ p[2] = b /\ p[3] = c /\ p[4] = e /\ p[5] = 0 /\ p[6] = x /\ p[7] = y
  <2> DEFINE q == nine \o data
  <2>1. /\ q \in Seq(Int) /\ Len(q) = n + 9
        /\ q[2] = b /\ q[3] = c /\ q[4] = e /\ q[5] = 0 /\ q[6] = x /\ q[7] = y
    BY <1>1, <1>6, <1>7
  <2>2. p = q
    BY <1>9
  <2> HIDE DEF q
  <2> QED BY <2>1, <2>2
<1>11. /\ Word(p, 4) = p[4] + 256 * p[5]
       /\ Word(p, 6) = p[6] + 256 * p[7]
  BY DEF Word
<1>12. Word(p, 4) = e /\ Word(p, 6) = n % 65536
  <2>1. p[4] + 256 * p[5] = e
    BY <1>7, <1>10
  <2>2. p[6] + 256 * p[7] = n % 65536
    BY <1>7, <1>10
  <2> QED BY <1>11, <2>1, <2>2
<1> QED BY <1>3, <1>10, <1>12 DEF p, data

\* The headers are there, and the eleventh byte is the identifier.
HasHeaders(request, id) == request \in Seq(Int) /\ Len(request) >= 13 /\ request[11] = id

LEMMA RequestBytes ==
  ASSUME NEW handle \in Nat, handle < 4096, NEW id \in Nat, id < 256, NEW n \in Nat
  PROVE  HasHeaders(EchoRequest(handle, id, n), id)
<1> DEFINE data == [i \in 1..n |-> 0]
           m == n + 8
           k == n + 4
           f == FirstField(handle)
           b == Low(f)
           c == High(f)
           e == Low(m)
           x == Low(k)
           y == High(k)
           g == Low(n)
           h == High(n)
           acl == <<2, b, c, e, 0>>
           cmd == <<x, y, 1, 0, 8, id, g, h>>
           headers == acl \o cmd
           request == EchoRequest(handle, id, n)
<1>1. data \in Seq(Int) /\ Len(data) = n
  OBVIOUS
<1>2. m \in Nat /\ k \in Nat
  OBVIOUS
<1>3. pack_cmd(ECHO_REQ, id, n) = cmd
  BY CommandBytes DEF ECHO_REQ
<1>4. request = (FirstAcl(handle, m) \o pack_cmd(ECHO_REQ, id, n)) \o data
  BY DEF EchoRequest, FirstAcl
<1> HIDE DEF m
<1>5. FirstAcl(handle, m) = acl
  BY <1>2, AclBytes
<1>6. b \in Int /\ c \in Int /\ e \in Int
  BY <1>2, AclBytes, TwoBytes
<1> HIDE DEF k
<1>7. g \in Int /\ h \in Int /\ x \in Int /\ y \in Int
  BY <1>2, TwoBytes
<1> HIDE DEF data, f, b, c, e, x, y, g, h, request
<1>8. headers \in Seq(Int) /\ Len(headers) = 13 /\ headers[11] = id
  BY <1>6, <1>7
<1>9. request = headers \o data
  <2> DEFINE s == FirstAcl(handle, m)
             t == pack_cmd(ECHO_REQ, id, n)
             u == s \o t
  <2>1. request = u \o data
    BY <1>4
  <2>2. headers = acl \o cmd
    OBVIOUS
  <2> HIDE DEF acl, cmd, headers
  <2>3. s = acl /\ t = cmd
    BY <1>3, <1>5
  <2> HIDE DEF s, t
  <2>4. u = headers
    BY <2>2, <2>3
  <2> HIDE DEF u
  <2> QED BY <2>1, <2>4
<1> HIDE DEF headers
<1>10. /\ headers \o data \in Seq(Int) /\ Len(headers \o data) = 13 + n
       /\ (headers \o data)[11] = headers[11]
  BY <1>1, <1>8, EleventhByte
<1>11. HasHeaders(request, id)
  <2> DEFINE q == headers \o data
  <2>1. q \in Seq(Int) /\ Len(q) >= 13 /\ q[11] = id
    BY <1>8, <1>10
  <2> HIDE DEF q
  <2> QED BY <1>9, <2>1 DEF q, HasHeaders
<1> QED BY <1>11 DEF request

-----------------------------------------------------------------------------
(* The properties *)

\* The parser reads a packed command back, up to the length that wraps around.
LEMMA CommandReadBack ==
  ASSUME NEW code \in Nat, code < 256, NEW id \in Nat, id < 256, NEW len \in Nat, len < 65536
  PROVE  unpack(pack_cmd(code, id, len)) =
           IF len <= 65531 THEN Classify(code, id, len) ELSE "garbage"
<1> DEFINE m == len + 4
           a == Low(m)
           b == High(m)
           g == Low(len)
           h == High(len)
           p == <<a, b, 1, 0, code, id, g, h>>
           r == SubSeq(p, 5, Len(p))
<1>1. pack_cmd(code, id, len) = p
  BY CommandBytes
<1>2. m \in Nat /\ len % 65536 = len
  OBVIOUS
<1>3. (m % 65536 < 4) <=> ~(len <= 65531)
  OBVIOUS
<1> HIDE DEF m
<1>4. /\ a \in Int /\ b \in Int /\ a + 256 * b = m % 65536
      /\ g \in Int /\ h \in Int /\ g + 256 * h = len
  BY <1>2, TwoBytes
<1> HIDE DEF a, b, g, h
<1>5. Word(p, 1) = m % 65536 /\ Word(p, 3) = 1
  BY <1>4 DEF Word
<1>6. r[1] = code /\ r[2] = id /\ r[3] = g /\ r[4] = h
  BY <1>4
<1> HIDE DEF p, r
<1>7. unpack_cmd(r) = Classify(code, id, len)
  <2>1. Word(r, 3) = len
    BY <1>4, <1>6 DEF Word
  <2> QED BY <1>6, <2>1 DEF unpack_cmd
<1>8. unpack(p) = IF Word(p, 1) < 4 THEN "garbage" ELSE unpack_cmd(r)
  BY <1>5 DEF unpack, r
<1> QED BY <1>1, <1>3, <1>5, <1>7, <1>8

\* A command behind thirteen bytes is read there.
LEMMA CommandBehind ==
  ASSUME NEW s \in Seq(Int), Len(s) = 13, NEW t \in Seq(Int), Len(t) = 8
  PROVE  unpack(SubSeq(s \o t, 14, 21)) = unpack(t) /\ (s \o t)[19] = t[6]
<1>1. SubSeq(s \o t, 14, 21) = t /\ (s \o t)[19] = t[6]
  BY BehindThirteen
<1> DEFINE q == SubSeq(s \o t, 14, 21)
<1>2. q = t
  BY <1>1
<1> HIDE DEF q
<1>3. unpack(q) = unpack(t)
  BY <1>2
<1> QED BY <1>1, <1>3 DEF q

\* What is put over the data of an echo request is an echo response with its identifier.
LEMMA EchoAnswered ==
  ASSUME NEW request, NEW id \in Nat, id < 256, HasHeaders(request, id)
  PROVE  /\ unpack(SubSeq(echo_reply(request), 14, 21)) = "echo_rsp"
         /\ echo_reply(request)[19] = id
<1> SUFFICES ASSUME NEW s, s = SubSeq(request, 1, 13),
                    NEW t, t = pack_cmd(ECHO_RSP, id, 0)
             PROVE  unpack(SubSeq(s \o t, 14, 21)) = "echo_rsp" /\ (s \o t)[19] = id
  BY DEF echo_reply, HasHeaders
<1>1. s \in Seq(Int) /\ Len(s) = 13
  BY FirstThirteen DEF HasHeaders
<1>2. t = <<4, 0, 1, 0, 9, id, 0, 0>>
  BY CommandBytes DEF ECHO_RSP, Low, High
<1>3. t \in Seq(Int) /\ Len(t) = 8 /\ t[6] = id
  <2> DEFINE r == <<4, 0, 1, 0, 9, id, 0, 0>>
  <2>1. r \in Seq(Int) /\ Len(r) = 8 /\ r[6] = id
    OBVIOUS
  <2>2. t = r
    BY <1>2
  <2> HIDE DEF r
  <2> QED BY <2>1, <2>2
<1>4. unpack(t) = Classify(9, id, 0)
  BY CommandReadBack DEF ECHO_RSP
<1>5. Classify(9, id, 0) = "echo_rsp"
  BY DEF Classify, CMD_REJ, CommandEvent, LeastLength
<1>6. unpack(t) = "echo_rsp"
  BY <1>4, <1>5
<1>7. unpack(SubSeq(s \o t, 14, 21)) = unpack(t) /\ (s \o t)[19] = t[6]
  BY <1>1, <1>3, CommandBehind
<1> QED BY <1>3, <1>6, <1>7

\* bt_l2cap_unpack (bt_l2cap.c) makes of every command that bt_l2cap_pack_cmd packs
\* what was packed, garbage of one whose length wraps around, and an echo response of
\* what answers an echo request.
THEOREM Signalling == L2capSpec => []SignallingInv
<1>1. L2capInit => SignallingInv
  BY DEF L2capInit, Idle, SignallingInv
<1>2. SignallingInv /\ [L2capNext]_l2capVars => SignallingInv'
  <2> SUFFICES ASSUME SignallingInv, [L2capNext]_l2capVars
               PROVE  SignallingInv'
    OBVIOUS
  <2>1. ASSUME NEW code \in 0..12, NEW id \in 0..3, NEW len \in Lengths,
               PackCommand(code, id, len)
        PROVE  SignallingInv'
    <3>1. code \in Nat /\ code < 256 /\ id \in Nat /\ id < 256
      OBVIOUS
    <3>2. len \in Nat /\ len < 65536
      BY L2capAssumption
    <3>3. unpack(pack_cmd(code, id, len)) =
            IF len <= 65531 THEN Classify(code, id, len) ELSE "garbage"
      BY <3>1, <3>2, CommandReadBack
    <3> QED BY <2>1, <3>3 DEF PackCommand, SignallingInv
  <2>2. CASE PackNotUnderstood
    <3>1. unpack(pack_cmd(CMD_REJ, 0, 0)) = Classify(CMD_REJ, 0, 0)
      BY CommandReadBack DEF CMD_REJ
    <3> QED BY <2>2, <3>1 DEF PackNotUnderstood, pack_cmd_not_understood, SignallingInv
  <2>3. ASSUME NEW h \in AclHandles, NEW n \in Sizes, PackData(h, n)
        PROVE  SignallingInv'
    BY <2>3 DEF PackData, SignallingInv
  <2>4. ASSUME NEW h \in AclHandles, NEW n \in Sizes, NEW id \in 0..3, AnswerEcho(h, id, n)
        PROVE  SignallingInv'
    <3>0. id \in Nat /\ id < 256
      OBVIOUS
    <3>1. h \in Nat /\ h < 4096 /\ n \in Nat
      BY L2capAssumption
    <3>2. PICK request : request = EchoRequest(h, id, n)
      OBVIOUS
    <3>3. /\ unpack(SubSeq(echo_reply(request), 14, 21)) = "echo_rsp"
          /\ echo_reply(request)[19] = id
      BY <3>0, <3>1, <3>2, RequestBytes, EchoAnswered
    <3>4. packet' = echo_reply(request) /\ packed' = [kind |-> "echo", id |-> id]
      BY <2>4, <3>2 DEF AnswerEcho
    <3> QED BY <3>3, <3>4 DEF SignallingInv
  <2>5. CASE Flush
    BY <2>5 DEF Flush, Idle, SignallingInv
  <2>6. CASE UNCHANGED l2capVars
    BY <2>6 DEF l2capVars, SignallingInv
  <2> QED BY <2>1, <2>2, <2>3, <2>4, <2>5, <2>6 DEF L2capNext
<1> QED BY <1>1, <1>2, PTL DEF L2capSpec

\* A packet that fits into dev->buf is announced with its length: the eight bits that
\* bt_hci_pack_acl (bt_hci.c) keeps of the length are too few for larger ones only.
THEOREM DataFraming == L2capSpec => []FitsMeansFramed
<1>1. L2capInit => FitsMeansFramed
  BY DEF L2capInit, Idle, FitsMeansFramed
<1>2. FitsMeansFramed /\ [L2capNext]_l2capVars => FitsMeansFramed'
  <2> SUFFICES ASSUME FitsMeansFramed, [L2capNext]_l2capVars
               PROVE  FitsMeansFramed'
    OBVIOUS
  <2>1. ASSUME NEW code \in 0..12, NEW id \in 0..3, NEW len \in Lengths,
               PackCommand(code, id, len)
        PROVE  FitsMeansFramed'
    BY <2>1 DEF PackCommand, FitsMeansFramed
  <2>2. CASE PackNotUnderstood
    BY <2>2 DEF PackNotUnderstood, FitsMeansFramed
  <2>3. ASSUME NEW h \in AclHandles, NEW n \in Sizes, PackData(h, n)
        PROVE  FitsMeansFramed'
    <3> DEFINE p == pack_l2cap(h, [i \in 1..n |-> 0])
    <3>1. h \in Nat /\ h < 4096 /\ n \in Nat /\ n < 65536
      BY L2capAssumption
    <3>2. /\ p \in Seq(Int) /\ Len(p) = n + 9
          /\ Word(p, 4) = (n + 4) % 256 /\ Word(p, 6) = n % 65536
      BY <3>1, DataPacketBytes
    <3>3. packet' = p /\ packed' = [kind |-> "data", handle |-> h, size |-> n]
      BY <2>3 DEF PackData
    <3> HIDE DEF p
    <3>4. Len(p) <= 256 => Framed(p)
      <4>1. n % 65536 = n /\ (n + 9 <= 256 => (n + 4) % 256 = n + 4)
        BY <3>1
      <4>2. SUFFICES ASSUME n + 9 <= 256
                     PROVE  Word(p, 4) = n + 4 /\ Word(p, 6) = n
        BY <3>1, <3>2 DEF Framed
      <4> QED BY <3>2, <4>1, <4>2
    <3> QED BY <3>3, <3>4 DEF FitsMeansFramed, BufBytes
  <2>4. ASSUME NEW h \in AclHandles, NEW n \in Sizes, NEW id \in 0..3, AnswerEcho(h, id, n)
        PROVE  FitsMeansFramed'
    BY <2>4 DEF AnswerEcho, FitsMeansFramed
  <2>5. CASE Flush
    BY <2>5 DEF Flush, Idle, FitsMeansFramed
  <2>6. CASE UNCHANGED l2capVars
    BY <2>6 DEF l2capVars, FitsMeansFramed
  <2> QED BY <2>1, <2>2, <2>3, <2>4, <2>5, <2>6 DEF L2capNext
<1> QED BY <1>1, <1>2, PTL DEF L2capSpec
=============================================================================
