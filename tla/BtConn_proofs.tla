---------------------------- MODULE BtConn_proofs ----------------------------
(***************************************************************************)
(* The ACL table follows the links of the controller, and implements the   *)
(* abstract table of connections, for every value of the constants.        *)
(***************************************************************************)
EXTENDS BtProgress_proofs

-----------------------------------------------------------------------------
(* The scans of the tables *)

\* A scan of a table finds an entry when there is one that matches.
LEMMA FirstFinds ==
  ASSUME NEW n \in Nat, NEW S \in SUBSET (1..n), S # {}
  PROVE  First(S) # {}
<1>1. IsWellFoundedOn({p \in Nat \X Nat : p[1] < p[2]}, Nat)
  BY NatLessThanWellFounded DEF OpToRel
<1>2. S \subseteq Nat
  OBVIOUS
<1> DEFINE R == {p \in Nat \X Nat : p[1] < p[2]}
<1>3. PICK x \in S : \A y \in S : ~ (<<y, x>> \in R)
  <2>1. IsWellFoundedOn(R, Nat)
    BY <1>1
  <2> HIDE DEF R
  <2> QED
    BY <1>2, <2>1, WFMin
<1>4. ASSUME NEW y \in S PROVE x <= y
  <2>1. ~ (<<y, x>> \in R) /\ x \in Nat /\ y \in Nat
    BY <1>2, <1>3
  <2>2. <<y, x>>[1] = y /\ <<y, x>>[2] = x
    OBVIOUS
  <2>3. ~ (y < x)
    BY <2>1, <2>2
  <2> QED
    BY <2>1, <2>3
<1> QED
  BY <1>4 DEF First

\* The entry a handle finds is connected; when it finds none, none has that handle.
LEMMA AclFound ==
  ASSUME TypeOK, NEW h
  PROVE  /\ get_acl_by_handle(h) \subseteq {i \in Connected : acls[i].handle = h}
         /\ get_acl_by_handle(h) = {} => \A i \in Connected : acls[i].handle # h
<1> DEFINE S == {i \in Acls : acls[i].state # "EMPTY" /\ acls[i].handle = h}
<1>1. S = {i \in Connected : acls[i].handle = h}
  BY DEF TypeOK, HciTypeOK, DevTypeOK, AclTables, Connected
<1>2. NUM_ACLS \in Nat /\ S \in SUBSET (1..NUM_ACLS)
  BY TableAssumption DEF Acls
<1>3. get_acl_by_handle(h) = First(S) /\ First(S) \subseteq S
  BY DEF get_acl_by_handle, First
<1>4. S # {} => First(S) # {}
  <2> HIDE DEF S
  <2> QED
    BY <1>2, FirstFinds
<1> QED
  BY <1>1, <1>3, <1>4

-----------------------------------------------------------------------------
(* What a step of the host does to the tables *)

\* An entry of the peer table that is in use stays in use, and names its device.
PeersKept ==
  \A p \in Peers : peers[p].state # "EMPTY" =>
    peers'[p].state # "EMPTY" /\ peers'[p].bd_addr = peers[p].bd_addr

LEMMA WipeKeepsPeers ==
  ASSUME TypeOK, NEW a
  PROVE  /\ RequestTable(a) \in PeerTables
         /\ \A p \in Peers : peers[p].state # "EMPTY" => RequestTable(a)[p] = peers[p]
         /\ RequestPeer(a) \subseteq Peers
<1>1. \A p \in get_free_peer : peers[p].state = "EMPTY"
  BY DEF get_free_peer, First
<1>2. \A p \in Peers : peers[p].state # "EMPTY" => RequestTable(a)[p] = peers[p]
  BY <1>1 DEF RequestTable, WipePeer
<1> QED
  BY <1>2, TableLookup DEF TypeOK, HciTypeOK

LEMMA HostKeepsPeers == TypeOK /\ bt_hci_main => PeersKept
<1> SUFFICES ASSUME TypeOK, bt_hci_main PROVE PeersKept
  OBVIOUS
<1>0. peers \in PeerTables
  BY DEF TypeOK, HciTypeOK, DevTypeOK
<1>1. CASE peers' = peers
  BY <1>1 DEF PeersKept
<1>2. CASE LoopReady
  <2>1. peers' \in cb_idle
    BY <1>2 DEF LoopReady
  <2>2. \A p \in get_free_peer : peers[p].state = "EMPTY"
    BY DEF get_free_peer, First
  <2>3. peers' = peers \/ \E p \in Peers, a \in Addrs : peers[p].state = "EMPTY" /\ peers' = Register(p, a)
    BY <2>1, <2>2 DEF cb_idle, get_free_peer, First
  <2> QED
    BY <1>0, <2>3 DEF Register, PeersKept, PeerTables
<1>3. ASSUME NEW e \in Incoming, OnInquiryResult(e) PROVE PeersKept
  BY <1>0, <1>3 DEF OnInquiryResult, get_free_peer, First, PeersKept, PeerTables
<1>4. ASSUME NEW e \in Incoming, OnInquiryComplete(e) PROVE PeersKept
  <2>1. peers' = peers \/ peers' = [p \in Peers |-> IF peers[p].state = "FOUND"
                                                     THEN [peers[p] EXCEPT !.state = "SHOULD_CONNECT"]
                                                     ELSE peers[p]]
    BY <1>4 DEF OnInquiryComplete
  <2> QED
    BY <1>0, <2>1 DEF PeersKept, PeerTables
<1>5. ASSUME NEW e \in Incoming, OnConnRequestAccepted(e) PROVE PeersKept
  <2>1. PICK q \in Peers : peers' = [RequestTable(e.addr) EXCEPT ![q].state = "CONNECTING"]
    BY <1>5, WipeKeepsPeers DEF OnConnRequestAccepted
  <2> QED
    BY <2>1, WipeKeepsPeers DEF PeersKept, PeerTables
<1>6. ASSUME NEW e \in Incoming, OnConnRequestRejected(e) PROVE PeersKept
  BY <1>6, WipeKeepsPeers DEF OnConnRequestRejected, PeersKept
<1>7. \/ peers' = peers \/ LoopReady
      \/ \E e \in Incoming : OnInquiryResult(e) \/ OnInquiryComplete(e) \/ OnConnRequestAccepted(e)
                             \/ OnConnRequestRejected(e)
  BY DEF bt_hci_main, LoopTop, LoopReset, LoopWait, ReadFails, unpack_hci, devVars,
         OnCmdEvent, OnCmdStatus, OnCompleteIgnored, OnConfigFailed, OnConfigStep, OnConfigured,
         OnInquiryEvent, OnInquiryIgnored, OnInquiryFailed,
         OnConnEvent, OnUnwantedConnection, OnConnected, OnNoFreeAcl, OnConnectFailed, OnDisconnected,
         OnDisconnectedUnknown, OnDisconnectFailed, OnKeyRequest, OnOther
<1> QED
  BY <1>1, <1>2, <1>3, <1>4, <1>5, <1>6, <1>7

\* What the host does to the ACL table with the event it reads: nothing, or it opens
\* a connection, or ends one.  It passes over the end of a connection only when it has
\* no entry for it.
PassesOver(e) ==
  /\ acls' = acls
  /\ e.code = "disconn_complete" /\ e.ok => \A i \in Connected : acls[i].handle # e.handle

HostAclStep ==
  \/ evtq' = evtq /\ acls' = acls
  \/ \E e \in Incoming : Receive /\ (PassesOver(e) \/ OnConnected(e) \/ OnDisconnected(e))

LEMMA HostAcls == TypeOK /\ bt_hci_main => HostAclStep
<1> SUFFICES ASSUME TypeOK, bt_hci_main PROVE HostAclStep
  OBVIOUS
<1>1. CASE LoopTop \/ ReadFails
  BY <1>1 DEF LoopTop, LoopReset, LoopReady, LoopWait, ReadFails, devVars, transportVars, HostAclStep
<1>2. ASSUME NEW e \in Incoming, OnCmdEvent(e) \/ OnInquiryEvent(e) \/ OnKeyRequest(e) \/ OnOther(e)
      PROVE  Receive /\ PassesOver(e)
  BY <1>2 DEF OnCmdEvent, OnCmdStatus, OnCompleteIgnored, OnConfigFailed, OnConfigStep, OnConfigured,
              OnInquiryEvent, OnInquiryResult, OnInquiryIgnored, OnInquiryComplete, OnInquiryFailed,
              OnKeyRequest, OnOther, Got, devVars, PassesOver
<1>3. ASSUME NEW e \in Incoming, OnDisconnectedUnknown(e)
      PROVE  Receive /\ PassesOver(e)
  BY <1>3, AclFound DEF OnDisconnectedUnknown, Got, devVars, PassesOver
<1>4. ASSUME NEW e \in Incoming, OnConnEvent(e)
      PROVE  Receive /\ (PassesOver(e) \/ OnConnected(e) \/ OnDisconnected(e))
  BY <1>3, <1>4 DEF OnConnEvent, OnConnRequestAccepted, OnConnRequestRejected, OnUnwantedConnection,
                    OnConnected, OnNoFreeAcl, OnConnectFailed, OnDisconnected, OnDisconnectFailed,
                    Got, PassesOver
<1> QED
  BY <1>1, <1>2, <1>4 DEF bt_hci_main, unpack_hci, HostAclStep

-----------------------------------------------------------------------------
(* Openings and ends in the queue of events *)

LEMMA EndReported == \A h : DisconnReported(h) <=> EndedAt(h) # {}
BY DEF DisconnReported, EndedAt

LEMMA PlacesInQueue ==
  ASSUME TypeOK, NEW h
  PROVE  OpenedAt(h) \subseteq Nat /\ EndedAt(h) \subseteq Nat
BY DEF OpenedAt, EndedAt

\* Reading moves every opening and every end one place up.
LEMMA ReadMovesUp ==
  ASSUME TypeOK, evtq # <<>>, evtq' = Tail(evtq), NEW h
  PROVE  /\ \A k \in OpenedAt(h)' : k + 1 \in OpenedAt(h) /\ evtq'[k] = evtq[k + 1]
         /\ \A k \in EndedAt(h) : k = 1 \/ k - 1 \in EndedAt(h)'
<1>1. /\ Len(evtq) \in Nat /\ Len(evtq') = Len(evtq) - 1
      /\ \A k \in 1..Len(evtq') : k + 1 \in 1..Len(evtq) /\ evtq'[k] = evtq[k + 1]
      /\ \A k \in 1..Len(evtq) : k = 1 \/ (k - 1 \in 1..Len(evtq') /\ evtq'[k - 1] = evtq[k])
  BY OneRead
<1>2. \A k \in OpenedAt(h)' : k + 1 \in OpenedAt(h) /\ evtq'[k] = evtq[k + 1]
  BY <1>1 DEF OpenedAt
<1>3. \A k \in EndedAt(h) : k = 1 \/ k - 1 \in EndedAt(h)'
  BY <1>1 DEF EndedAt
<1> QED
  BY <1>2, <1>3

\* An event sent stands behind those that were there.
LEMMA SentStandsBehind ==
  ASSUME TypeOK, NEW e \in Events, evtq' = evtq \o <<e>>, NEW h
  PROVE  /\ \A k \in OpenedAt(h) : k \in OpenedAt(h)' /\ evtq'[k] = evtq[k] /\ k < Len(evtq')
         /\ \A k \in EndedAt(h) : k \in EndedAt(h)' /\ k < Len(evtq')
         /\ \A k \in OpenedAt(h)' : k \in OpenedAt(h) \/ (k = Len(evtq') /\ evtq'[k] = e)
         /\ Len(evtq') \in 1..Len(evtq') /\ evtq'[Len(evtq')] = e
<1>1. /\ Len(evtq) \in Nat /\ Len(evtq') = Len(evtq) + 1 /\ evtq'[Len(evtq) + 1] = e
      /\ \A k \in 1..Len(evtq) : k \in 1..Len(evtq') /\ evtq'[k] = evtq[k]
  BY OneSent
<1>2. \A k \in OpenedAt(h) : k \in OpenedAt(h)' /\ evtq'[k] = evtq[k] /\ k < Len(evtq')
  BY <1>1 DEF OpenedAt
<1>3. \A k \in EndedAt(h) : k \in EndedAt(h)' /\ k < Len(evtq')
  BY <1>1 DEF EndedAt
<1>4. \A k \in OpenedAt(h)' : k \in OpenedAt(h) \/ (k = Len(evtq') /\ evtq'[k] = e)
  <2>1. \A k \in 1..Len(evtq') : k = Len(evtq') \/ k \in 1..Len(evtq)
    BY <1>1
  <2> QED
    BY <1>1, <2>1 DEF OpenedAt
<1>5. Len(evtq') \in 1..Len(evtq') /\ evtq'[Len(evtq')] = e
  BY <1>1
<1> QED
  BY <1>2, <1>3, <1>4, <1>5

\* Events that neither open nor end a connection.
QuietEvents == {e \in Events : ~(e.code \in {"conn_complete", "disconn_complete"} /\ e.ok)}

LEMMA QuietSent ==
  ASSUME TypeOK, NEW s \in Seq(QuietEvents), evtq' = evtq \o s
  PROVE  \A h : /\ OpenedAt(h)' = OpenedAt(h) /\ EndedAt(h)' = EndedAt(h)
                /\ \A k \in OpenedAt(h) : evtq'[k] = evtq[k]
<1>1. s \in Seq(Events)
  BY SeqMonotonic DEF QuietEvents
<1>2. /\ Len(evtq) \in Nat /\ Len(s) \in Nat /\ Len(evtq') = Len(evtq) + Len(s)
      /\ \A k \in 1..Len(evtq) : k \in 1..Len(evtq') /\ evtq'[k] = evtq[k]
      /\ \A k \in 1..Len(s) : evtq'[Len(evtq) + k] = s[k]
  BY <1>1, SentBehind
<1>3. \A k \in 1..Len(s) : s[k] \in QuietEvents
  BY ElementOfSeq
<1>4. \A k \in 1..Len(evtq') : k \in 1..Len(evtq) \/ evtq'[k] \in QuietEvents
  <2>1. \A k \in 1..Len(evtq') : k \in 1..Len(evtq) \/ k - Len(evtq) \in 1..Len(s)
    BY <1>2
  <2>2. \A k \in 1..Len(evtq') : Len(evtq) + (k - Len(evtq)) = k
    BY <1>2
  <2> QED
    BY <1>2, <1>3, <2>1, <2>2
<1> QED
  BY <1>2, <1>4 DEF OpenedAt, EndedAt, QuietEvents

-----------------------------------------------------------------------------
(* The inductive invariant *)

LEMMA InitConnInv == Init => ConnInv
<1> SUFFICES ASSUME Init PROVE ConnInv
  OBVIOUS
<1>1. Connected = {}
  BY DEF Init, DevInit, EmptyAcls, Connected
<1>2. \A h : OpenedAt(h) = {}
  <2>1. Len(evtq) = 0
    BY EmptySeq DEF Init, TransportInit
  <2>2. 1..Len(evtq) = {}
    BY <2>1
  <2> QED
    BY <2>2 DEF OpenedAt
<1> QED
  BY <1>1, <1>2, InitTypeOK DEF ConnInv, AclTracksLink, HandlesUnique, OpensAndEndsAlternate, HandlesGivenOut

\* Nothing about a connection was sent or read, and the peer table kept.
LEMMA QuietConnInv ==
  ASSUME ConnInv, TypeOK', UNCHANGED <<acls, links>>, PeersKept,
         \A h : /\ OpenedAt(h)' = OpenedAt(h) /\ EndedAt(h)' = EndedAt(h)
                /\ \A k \in OpenedAt(h) : evtq'[k] = evtq[k]
  PROVE  ConnInv'
<1>1. /\ Connected' = Connected /\ Live' = Live
      /\ \A h : DisconnReported(h)' <=> DisconnReported(h)
  <2>1. \A h : DisconnReported(h)' <=> EndedAt(h)' # {}
    BY DEF DisconnReported, EndedAt
  <2> QED
    BY <2>1, EndReported DEF Connected, Live
<1>2. AclTracksLink'
  BY <1>1 DEF ConnInv, AclTracksLink, PeersKept
<1>3. HandlesUnique' /\ HandlesGivenOut'
  BY <1>1 DEF ConnInv, HandlesUnique, HandlesGivenOut
<1>4. OpensAndEndsAlternate'
  BY <1>1 DEF ConnInv, OpensAndEndsAlternate
<1> QED
  BY <1>2, <1>3, <1>4 DEF ConnInv

\* A link comes up on a handle that is free: all that was opened on it has ended.
LEMMA LinkUpConnInv ==
  ASSUME ConnInv, TypeOK', UNCHANGED <<acls, peers>>,
         NEW h \in Handles, h \notin Live, NEW a \in Addrs, links' = [links EXCEPT ![h] = a],
         NEW e \in Events, e.code = "conn_complete", e.handle = h, e.addr = a,
         evtq' = evtq \o <<e>>
  PROVE  ConnInv'
<1>0. TypeOK /\ AclTracksLink /\ OpensAndEndsAlternate
  BY DEF ConnInv
<1>1. Connected' = Connected /\ links \in [Handles -> Addrs \cup {ZeroAddr}] /\ a # ZeroAddr
  BY <1>0, TransportAssumption DEF Connected, TypeOK, CtlTypeOK
<1>2. /\ links[h] = ZeroAddr /\ links'[h] = a
      /\ \A g \in Handles : g # h => links'[g] = links[g]
      /\ \A g \in Live : g \in Live' /\ links'[g] = links[g]
  BY <1>1 DEF Live
<1>3. \A g : /\ \A k \in OpenedAt(g) : k \in OpenedAt(g)' /\ evtq'[k] = evtq[k] /\ k < Len(evtq')
             /\ \A k \in EndedAt(g) : k \in EndedAt(g)' /\ k < Len(evtq')
             /\ \A k \in OpenedAt(g)' : k \in OpenedAt(g) \/ (k = Len(evtq') /\ evtq'[k] = e)
  BY <1>0, SentStandsBehind
<1>4. \A g, k : k \in OpenedAt(g)' => k \in OpenedAt(g) \/ (g = h /\ k = Len(evtq') /\ evtq'[k] = e)
  BY <1>0, <1>3 DEF OpenedAt
<1>5. AclTracksLink'
  <2>1. \A g : EndedAt(g) # {} => EndedAt(g)' # {}
    BY <1>3
  <2>2. \A g : DisconnReported(g) => DisconnReported(g)'
    BY <2>1 DEF DisconnReported, EndedAt
  <2> QED
    BY <1>0, <1>1, <1>2, <2>2 DEF AclTracksLink
<1>6. HandlesUnique' /\ HandlesGivenOut'
  <2>1. h # NoHandle
    BY TransportAssumption
  <2> QED
    BY <1>1, <1>4, <2>1 DEF ConnInv, HandlesUnique, HandlesGivenOut
<1>7. OpensAndEndsAlternate'
  <2> SUFFICES ASSUME NEW g \in Handles, NEW k \in OpenedAt(g)'
               PROVE  /\ links'[g] = evtq'[k].addr \/ \E m \in EndedAt(g)' : k < m
                      /\ \A j \in OpenedAt(g)' : j < k => \E m \in EndedAt(g)' : j < m /\ m < k
                      /\ \A i \in Connected' : acls'[i].handle = g => \E m \in EndedAt(g)' : m < k
    BY DEF OpensAndEndsAlternate
  <2>1. CASE k \in OpenedAt(g)
    <3>1. \A j \in OpenedAt(g)' : j < k => j \in OpenedAt(g)
      <4>1. k < Len(evtq')
        BY <1>3, <2>1
      <4>2. Len(evtq') \in Nat /\ k \in Nat
        BY <1>0, <2>1, PlacesInQueue DEF TypeOK, TransportTypeOK
      <4> QED
        BY <1>3, <4>1, <4>2
    <3>2. /\ \A j \in OpenedAt(g) : j < k => \E m \in EndedAt(g) : j < m /\ m < k
          /\ \A i \in Connected : acls[i].handle = g => \E m \in EndedAt(g) : m < k
      BY <1>0, <2>1 DEF OpensAndEndsAlternate
    <3>3. links'[g] = evtq'[k].addr \/ \E m \in EndedAt(g)' : k < m
      <4>1. links[g] = evtq[k].addr \/ \E m \in EndedAt(g) : k < m
        BY <1>0, <2>1 DEF OpensAndEndsAlternate
      <4>2. evtq[k].addr # ZeroAddr
        <5>1. evtq[k] \in Events /\ evtq[k].code = "conn_complete"
          BY <1>0, <2>1, ElementOfSeq DEF OpenedAt, TypeOK, TransportTypeOK
        <5> QED
          BY <5>1, EventFields, TransportAssumption
      <4> QED
        BY <1>2, <1>3, <2>1, <4>1, <4>2
    <3> QED
      BY <1>1, <1>3, <3>1, <3>2, <3>3
  <2>2. CASE g = h /\ k = Len(evtq') /\ evtq'[k] = e
    <3>1. links'[g] = evtq'[k].addr
      BY <1>0, <1>2, <2>2
    <3>2. ASSUME NEW j \in OpenedAt(h), j < k
          PROVE  \E m \in EndedAt(h)' : j < m /\ m < k
      <4>1. evtq[j].addr # ZeroAddr
        <5>1. evtq[j] \in Events /\ evtq[j].code = "conn_complete"
          BY <1>0, ElementOfSeq DEF OpenedAt, TypeOK, TransportTypeOK
        <5> QED
          BY <5>1, EventFields, TransportAssumption
      <4>2. PICK m \in EndedAt(h) : j < m
        BY <1>0, <1>2, <4>1 DEF OpensAndEndsAlternate
      <4> QED
        BY <1>3, <2>2, <4>2
    <3>3. \A j \in OpenedAt(h)' : j < k => j \in OpenedAt(h)
      <4>1. k \in Nat
        BY <2>2 DEF TypeOK, TransportTypeOK
      <4> QED
        BY <1>3, <2>2, <4>1
    <3>4. ASSUME NEW i \in Connected, acls[i].handle = h
          PROVE  \E m \in EndedAt(h)' : m < k
      <4>1. PICK m \in EndedAt(h) : TRUE
        BY <1>0, <3>4, EndReported DEF AclTracksLink
      <4> QED
        BY <1>3, <2>2, <4>1
    <3> QED
      BY <1>1, <2>2, <3>1, <3>2, <3>3, <3>4
  <2> QED
    BY <1>4, <2>1, <2>2
<1> QED
  BY <1>5, <1>6, <1>7 DEF ConnInv

\* A link goes down, or is said to: whatever was opened on its handle ends.
LEMMA LinkDownConnInv ==
  ASSUME ConnInv, TypeOK', UNCHANGED <<acls, peers>>, NEW h \in Handles,
         links' = [links EXCEPT ![h] = ZeroAddr],
         NEW e \in Events, e.code = "disconn_complete", e.ok, e.handle = h,
         evtq' = evtq \o <<e>>
  PROVE  ConnInv'
<1>0. TypeOK /\ AclTracksLink /\ OpensAndEndsAlternate
  BY DEF ConnInv
<1>1. Connected' = Connected /\ links \in [Handles -> Addrs \cup {ZeroAddr}]
  BY <1>0 DEF Connected, TypeOK, CtlTypeOK
<1>2. /\ \A g \in Handles : g # h => links'[g] = links[g]
      /\ \A g \in Live : g # h => g \in Live'
  BY <1>1 DEF Live
<1>3. \A g : /\ \A k \in OpenedAt(g) : k \in OpenedAt(g)' /\ evtq'[k] = evtq[k] /\ k < Len(evtq')
             /\ \A k \in EndedAt(g) : k \in EndedAt(g)' /\ k < Len(evtq')
             /\ \A k \in OpenedAt(g)' : k \in OpenedAt(g) \/ (k = Len(evtq') /\ evtq'[k] = e)
             /\ Len(evtq') \in 1..Len(evtq') /\ evtq'[Len(evtq')] = e
  BY <1>0, SentStandsBehind
<1>4. \A g : OpenedAt(g)' = OpenedAt(g)
  <2>1. \A g : \A k \in OpenedAt(g)' : evtq'[k].code = "conn_complete"
    BY DEF OpenedAt
  <2>2. \A g : \A k \in OpenedAt(g)' : k \in OpenedAt(g)
    BY <1>3, <2>1
  <2>3. \A g : \A k \in OpenedAt(g) : k \in OpenedAt(g)'
    BY <1>3
  <2>4. \A S, T : (\A k \in S : k \in T) /\ (\A k \in T : k \in S) => S = T
    OBVIOUS
  <2>5. ASSUME NEW g PROVE OpenedAt(g)' = OpenedAt(g)
    <3>1. (\A k \in OpenedAt(g)' : k \in OpenedAt(g)) /\ (\A k \in OpenedAt(g) : k \in OpenedAt(g)')
      BY <2>2, <2>3
    <3> QED
      BY <2>4, <3>1
  <2> QED
    BY <2>5
<1>5. Len(evtq') \in EndedAt(h)'
  BY <1>0, <1>3 DEF EndedAt
<1>6. AclTracksLink'
  <2>1. \A g : EndedAt(g) # {} => EndedAt(g)' # {}
    BY <1>3
  <2>2. \A g : DisconnReported(g) => DisconnReported(g)'
    BY <2>1 DEF DisconnReported, EndedAt
  <2>3. DisconnReported(h)'
    BY <1>5 DEF DisconnReported, EndedAt
  <2> QED
    BY <1>0, <1>1, <1>2, <2>2, <2>3 DEF AclTracksLink, Live
<1>7. HandlesUnique' /\ HandlesGivenOut'
  BY <1>1, <1>4 DEF ConnInv, HandlesUnique, HandlesGivenOut
<1>8. OpensAndEndsAlternate'
  <2> SUFFICES ASSUME NEW g \in Handles, NEW k \in OpenedAt(g)
               PROVE  /\ links'[g] = evtq'[k].addr \/ \E m \in EndedAt(g)' : k < m
                      /\ \A j \in OpenedAt(g) : j < k => \E m \in EndedAt(g)' : j < m /\ m < k
                      /\ \A i \in Connected : acls[i].handle = g => \E m \in EndedAt(g)' : m < k
    BY <1>1, <1>4 DEF OpensAndEndsAlternate
  <2>1. /\ links[g] = evtq[k].addr \/ \E m \in EndedAt(g) : k < m
        /\ \A j \in OpenedAt(g) : j < k => \E m \in EndedAt(g) : j < m /\ m < k
        /\ \A i \in Connected : acls[i].handle = g => \E m \in EndedAt(g) : m < k
    BY <1>0 DEF OpensAndEndsAlternate
  <2>2. links'[g] = evtq'[k].addr \/ \E m \in EndedAt(g)' : k < m
    BY <1>2, <1>3, <1>5, <2>1
  <2> QED
    BY <1>3, <2>1, <2>2
<1> QED
  BY <1>6, <1>7, <1>8 DEF ConnInv

-----------------------------------------------------------------------------
(* The host reads *)

\* Reading takes nothing away but the event at the head: the ends an opening waits
\* for stand behind it.  What is left is the case of the handle that was read.
LEMMA ReadAlternates ==
  ASSUME ConnInv, TypeOK', evtq # <<>>, evtq' = Tail(evtq), UNCHANGED links,
         NEW g \in Handles, NEW k \in OpenedAt(g)'
  PROVE  /\ links'[g] = evtq'[k].addr \/ \E m \in EndedAt(g)' : k < m
         /\ \A j \in OpenedAt(g)' : j < k => \E m \in EndedAt(g)' : j < m /\ m < k
         /\ 1 \in OpenedAt(g) => \E m \in EndedAt(g)' : m < k
         /\ 1 \notin EndedAt(g) =>
              \A i \in Connected : acls[i].handle = g => \E m \in EndedAt(g)' : m < k
<1>0. TypeOK /\ OpensAndEndsAlternate
  BY DEF ConnInv
<1>1. /\ \A j \in OpenedAt(g)' : j + 1 \in OpenedAt(g) /\ evtq'[j] = evtq[j + 1]
      /\ \A m \in EndedAt(g) : m = 1 \/ m - 1 \in EndedAt(g)'
  BY <1>0, ReadMovesUp
<1>2. OpenedAt(g)' \subseteq Nat \ {0} /\ OpenedAt(g) \subseteq Nat /\ EndedAt(g) \subseteq Nat \ {0}
  BY DEF OpenedAt, EndedAt
<1>3. /\ links[g] = evtq[k + 1].addr \/ \E m \in EndedAt(g) : k + 1 < m
      /\ \A j \in OpenedAt(g) : j < k + 1 => \E m \in EndedAt(g) : j < m /\ m < k + 1
      /\ \A i \in Connected : acls[i].handle = g => \E m \in EndedAt(g) : m < k + 1
  BY <1>0, <1>1 DEF OpensAndEndsAlternate
<1>4. links'[g] = evtq'[k].addr \/ \E m \in EndedAt(g)' : k < m
  <2>1. ASSUME NEW m \in EndedAt(g), k + 1 < m PROVE \E n \in EndedAt(g)' : k < n
    <3>1. m # 1 /\ m - 1 > k
      BY <1>2, <2>1
    <3> QED
      BY <1>1, <3>1
  <2> QED
    BY <1>1, <1>3, <2>1
<1>5. ASSUME NEW j \in OpenedAt(g)', j < k
      PROVE  \E m \in EndedAt(g)' : j < m /\ m < k
  <2>1. j + 1 < k + 1 /\ j + 1 \in OpenedAt(g)
    BY <1>1, <1>2, <1>5
  <2>2. PICK m \in EndedAt(g) : j + 1 < m /\ m < k + 1
    BY <1>3, <2>1
  <2>3. m # 1 /\ j < m - 1 /\ m - 1 < k
    BY <1>2, <2>2
  <2> QED
    BY <1>1, <2>3
<1>6. ASSUME 1 \in OpenedAt(g) PROVE \E m \in EndedAt(g)' : m < k
  <2>1. 1 < k + 1
    BY <1>2
  <2>2. PICK m \in EndedAt(g) : 1 < m /\ m < k + 1
    BY <1>3, <1>6, <2>1
  <2>3. m # 1 /\ m - 1 < k
    BY <1>2, <2>2
  <2> QED
    BY <1>1, <2>3
<1>7. ASSUME 1 \notin EndedAt(g), NEW i \in Connected, acls[i].handle = g
      PROVE  \E m \in EndedAt(g)' : m < k
  <2>1. PICK m \in EndedAt(g) : m < k + 1
    BY <1>3, <1>7
  <2>2. m # 1 /\ m - 1 < k
    BY <1>2, <1>7, <2>1
  <2> QED
    BY <1>1, <2>2
<1> QED
  BY <1>4, <1>5, <1>6, <1>7

\* A connection whose end is not the event read is tracked as before.
LEMMA ReadTracks ==
  ASSUME ConnInv, evtq # <<>>, evtq' = Tail(evtq), UNCHANGED links,
         NEW h, 1 \notin EndedAt(h), NEW a, NEW b, b = a
  PROVE  (h \in Live /\ links[h] = a) \/ DisconnReported(h) =>
           (h \in Live' /\ links'[h] = b) \/ DisconnReported(h)'
<1>1. TypeOK
  BY DEF ConnInv
<1>2. ASSUME DisconnReported(h) PROVE DisconnReported(h)'
  <2>1. PICK m \in EndedAt(h) : m # 1
    BY <1>2, EndReported
  <2>2. m - 1 \in EndedAt(h)'
    BY <1>1, <2>1, ReadMovesUp
  <2> QED
    BY <2>2 DEF DisconnReported, EndedAt
<1> QED
  BY <1>2 DEF Live

LEMMA HeadIsFirst ==
  ASSUME TypeOK, NEW e \in Incoming
  PROVE  /\ evtq # <<>> /\ evtq[1] = e /\ e \in Events /\ 1 \in 1..Len(evtq)
         /\ \A h : 1 \in OpenedAt(h) <=> e.code = "conn_complete" /\ e.ok /\ e.handle = h
         /\ \A h : 1 \in EndedAt(h) <=> e.code = "disconn_complete" /\ e.ok /\ e.handle = h
<1>1. evtq # <<>> /\ evtq[1] = e /\ e \in Events /\ 1 \in 1..Len(evtq)
  BY HeadTailProperties DEF TypeOK, TransportTypeOK, Incoming
<1> QED
  BY <1>1 DEF OpenedAt, EndedAt

LEMMA ReadNotNoHandle ==
  ASSUME ConnInv, evtq # <<>>, evtq' = Tail(evtq)
  PROVE  OpenedAt(NoHandle)' = {}
<1>1. TypeOK /\ OpenedAt(NoHandle) = {}
  BY DEF ConnInv, HandlesGivenOut
<1>2. \A k \in OpenedAt(NoHandle)' : k + 1 \in OpenedAt(NoHandle)
  BY <1>1, ReadMovesUp
<1> QED
  BY <1>1, <1>2

LEMMA PassedConnInv ==
  ASSUME ConnInv, TypeOK', NEW e \in Incoming, evtq' = Tail(evtq), PassesOver(e),
         UNCHANGED links, PeersKept
  PROVE  ConnInv'
<1>0. TypeOK /\ acls' = acls /\ Connected' = Connected
  BY DEF ConnInv, PassesOver, Connected
<1>1. evtq # <<>> /\ \A i \in Connected : 1 \notin EndedAt(acls[i].handle)
  BY <1>0, HeadIsFirst DEF PassesOver
<1>2. AclTracksLink'
  <2> SUFFICES ASSUME NEW i \in Connected
               PROVE  /\ acls[i].peer \in Peers /\ peers'[acls[i].peer].state # "EMPTY"
                      /\ \/ acls[i].handle \in Live' /\ links'[acls[i].handle] = peers'[acls[i].peer].bd_addr
                         \/ DisconnReported(acls[i].handle)'
    BY <1>0 DEF AclTracksLink, DisconnReported
  <2>1. /\ acls[i].peer \in Peers /\ peers[acls[i].peer].state # "EMPTY"
        /\ \/ acls[i].handle \in Live /\ links[acls[i].handle] = peers[acls[i].peer].bd_addr
           \/ DisconnReported(acls[i].handle)
    BY DEF ConnInv, AclTracksLink
  <2>2. peers'[acls[i].peer].state # "EMPTY" /\ peers'[acls[i].peer].bd_addr = peers[acls[i].peer].bd_addr
    BY <2>1 DEF PeersKept
  <2>3. PICK h, a : h = acls[i].handle /\ a = peers[acls[i].peer].bd_addr
    OBVIOUS
  <2>4. (h \in Live' /\ links'[h] = a) \/ DisconnReported(h)'
    BY <1>1, <2>1, <2>3, ReadTracks
  <2> QED
    BY <1>0, <2>1, <2>2, <2>3, <2>4 DEF DisconnReported
<1>3. HandlesUnique' /\ HandlesGivenOut'
  BY <1>0, <1>1, ReadNotNoHandle DEF ConnInv, HandlesUnique, HandlesGivenOut
<1>4. OpensAndEndsAlternate'
  <2> SUFFICES ASSUME NEW g \in Handles, NEW k \in OpenedAt(g)',
                      NEW i \in Connected, acls[i].handle = g
               PROVE  \E m \in EndedAt(g)' : m < k
    BY <1>0, <1>1, ReadAlternates DEF OpensAndEndsAlternate
  <2> QED
    BY <1>1, ReadAlternates
<1> QED
  BY <1>2, <1>3, <1>4 DEF ConnInv

\* What a lookup by address finds is in use and has that address.
LEMMA PeerFound ==
  ASSUME NEW a, NEW p \in get_peer_by_bd_addr(a)
  PROVE  p \in Peers /\ peers[p].state # "EMPTY" /\ peers[p].bd_addr = a
BY DEF get_peer_by_bd_addr, First

\* The entry a connection is given, and what becomes of the others.
LEMMA OpenedEntry ==
  ASSUME TypeOK, NEW e \in Incoming, OnConnected(e)
  PROVE  \E p \in Peers, n \in Acls :
           /\ peers[p].state # "EMPTY" /\ peers[p].bd_addr = e.addr
           /\ n \notin Connected
           /\ Connected' = Connected \cup {n}
           /\ acls'[n].handle = e.handle /\ acls'[n].peer = p
           /\ \A i \in Connected : acls'[i] = acls[i]
           /\ peers' = peers
<1>1. PICK p \in get_peer_by_bd_addr(e.addr), n \in get_free_acl :
        acls' = [acls EXCEPT ![n] = [state |-> "CONNECTED", handle |-> e.handle, peer |-> p]]
  BY DEF OnConnected
<1>2. n \in Acls /\ acls[n].state = "EMPTY"
  BY <1>1 DEF get_free_acl, First
<1>3. acls \in AclTables
  BY DEF TypeOK, HciTypeOK, DevTypeOK
<1>4. /\ acls'[n] = [state |-> "CONNECTED", handle |-> e.handle, peer |-> p]
      /\ \A i \in Acls : i # n => acls'[i] = acls[i]
  BY <1>1, <1>2, <1>3 DEF AclTables
<1>5. n \notin Connected /\ Connected' = Connected \cup {n} /\ \A i \in Connected : acls'[i] = acls[i]
  BY <1>2, <1>4 DEF Connected
<1> QED
  BY <1>1, <1>2, <1>4, <1>5, PeerFound DEF OnConnected

\* The connection a host opens is with a device, on a handle no entry has.
LEMMA OpensNewHandle ==
  ASSUME ConnInv, NEW e \in Incoming, OnConnected(e)
  PROVE  /\ evtq # <<>> /\ evtq[1] = e /\ e.addr \in Addrs
         /\ 1 \in OpenedAt(e.handle) /\ \A h : 1 \notin EndedAt(h)
         /\ e.handle # NoHandle /\ e.handle \in Handles
         /\ \A i \in Connected : acls[i].handle # e.handle
<1>0. TypeOK /\ AclTracksLink /\ HandlesUnique /\ OpensAndEndsAlternate /\ HandlesGivenOut
  BY DEF ConnInv
<1>2. /\ evtq # <<>> /\ evtq[1] = e /\ e.addr \in Addrs
      /\ 1 \in OpenedAt(e.handle) /\ \A h : 1 \notin EndedAt(h)
  <2>1. e.code = "conn_complete" /\ e.ok
    BY DEF OnConnected, Got
  <2>2. e \in Events /\ evtq # <<>> /\ evtq[1] = e
    BY <1>0, HeadIsFirst
  <2>3. e.addr \in Addrs
    BY <2>1, <2>2, EventFields
  <2> QED
    BY <1>0, <2>1, <2>2, <2>3, HeadIsFirst
<1>3. e.handle # NoHandle /\ e.handle \in Handles
  <2>1. e \in Events /\ e.code = "conn_complete"
    BY <1>0, HeadIsFirst DEF OnConnected, Got
  <2>2. e.handle \in Handles \cup {NoHandle}
    BY <2>1, EventFields
  <2> QED
    BY <1>0, <1>2, <2>2 DEF HandlesGivenOut
<1>4. \A i \in Connected : acls[i].handle # e.handle
  <2> SUFFICES ASSUME NEW i \in Connected, acls[i].handle = e.handle PROVE FALSE
    OBVIOUS
  <2>1. PICK m \in EndedAt(e.handle) : m < 1
    BY <1>0, <1>2, <1>3 DEF OpensAndEndsAlternate
  <2>2. m \in 1..Len(evtq) /\ Len(evtq) \in Nat
    BY <1>0 DEF EndedAt, TypeOK, TransportTypeOK
  <2> QED
    BY <2>1, <2>2
<1> QED
  BY <1>2, <1>3, <1>4

LEMMA ConnectedConnInv ==
  ASSUME ConnInv, TypeOK', NEW e \in Incoming, evtq' = Tail(evtq), OnConnected(e), UNCHANGED links
  PROVE  ConnInv'
<1>0. TypeOK /\ AclTracksLink /\ HandlesUnique /\ OpensAndEndsAlternate /\ HandlesGivenOut
  BY DEF ConnInv
<1>1. PICK p \in Peers, n \in Acls :
        /\ peers[p].state # "EMPTY" /\ peers[p].bd_addr = e.addr
        /\ n \notin Connected
        /\ Connected' = Connected \cup {n}
        /\ acls'[n].handle = e.handle /\ acls'[n].peer = p
        /\ \A i \in Connected : acls'[i] = acls[i]
        /\ peers' = peers
  BY <1>0, OpenedEntry
<1>2. /\ evtq # <<>> /\ evtq[1] = e /\ e.addr \in Addrs
      /\ 1 \in OpenedAt(e.handle) /\ \A h : 1 \notin EndedAt(h)
  BY OpensNewHandle
<1>3. e.handle # NoHandle /\ e.handle \in Handles
  BY OpensNewHandle
<1>4. \A i \in Connected : acls[i].handle # e.handle
  BY OpensNewHandle
<1>5. AclTracksLink'
  <2>1. ASSUME NEW i \in Connected
        PROVE  \/ acls[i].handle \in Live' /\ links'[acls[i].handle] = peers[acls[i].peer].bd_addr
               \/ DisconnReported(acls[i].handle)'
    <3>1. \/ acls[i].handle \in Live /\ links[acls[i].handle] = peers[acls[i].peer].bd_addr
          \/ DisconnReported(acls[i].handle)
      BY <1>0 DEF AclTracksLink
    <3>2. PICK h, a : h = acls[i].handle /\ a = peers[acls[i].peer].bd_addr
      OBVIOUS
    <3>3. (h \in Live' /\ links'[h] = a) \/ DisconnReported(h)'
      BY <1>2, <3>1, <3>2, ReadTracks
    <3>4. acls'[i].handle = h
      BY <1>1, <3>2
    <3> QED
      BY <3>2, <3>3, <3>4 DEF DisconnReported
  <2>2. (e.handle \in Live' /\ links'[e.handle] = e.addr) \/ DisconnReported(e.handle)'
    <3>1. links[e.handle] = e.addr \/ \E m \in EndedAt(e.handle) : 1 < m
      BY <1>0, <1>2, <1>3 DEF OpensAndEndsAlternate
    <3>2. ASSUME NEW m \in EndedAt(e.handle), 1 < m PROVE DisconnReported(e.handle)'
      <4>1. m - 1 \in EndedAt(e.handle)'
        BY <1>0, <1>2, <3>2, ReadMovesUp
      <4> QED
        BY <4>1 DEF EndedAt, DisconnReported
    <3>3. e.addr # ZeroAddr
      BY <1>2, TransportAssumption
    <3> QED
      BY <1>3, <3>1, <3>2, <3>3 DEF Live
  <2>3. ASSUME NEW i \in Connected
        PROVE  acls'[i].peer \in Peers /\ peers'[acls'[i].peer].state # "EMPTY"
    BY <1>0, <1>1 DEF AclTracksLink
  <2> QED
    BY <1>1, <2>1, <2>2, <2>3 DEF AclTracksLink, DisconnReported
<1>6. HandlesUnique' /\ HandlesGivenOut'
  BY <1>0, <1>1, <1>2, <1>3, <1>4, ReadNotNoHandle DEF HandlesUnique, HandlesGivenOut
<1>7. OpensAndEndsAlternate'
  <2> SUFFICES ASSUME NEW g \in Handles, NEW k \in OpenedAt(g)',
                      NEW i \in Connected', acls'[i].handle = g
               PROVE  \E m \in EndedAt(g)' : m < k
    BY <1>2, ReadAlternates DEF OpensAndEndsAlternate
  <2>1. CASE i \in Connected
    BY <1>1, <1>2, <2>1, ReadAlternates
  <2>2. CASE i = n
    BY <1>1, <1>2, <2>2, ReadAlternates
  <2> QED
    BY <1>1, <2>1, <2>2
<1> QED
  BY <1>5, <1>6, <1>7 DEF ConnInv

\* The one entry with the handle of a connection that ended is released.
LEMMA ReleasedEntry ==
  ASSUME ConnInv, NEW e \in Incoming, OnDisconnected(e)
  PROVE  /\ Connected' = {i \in Connected : acls[i].handle # e.handle}
         /\ \A i \in Connected : acls'[i].handle = acls[i].handle /\ acls'[i].peer = acls[i].peer
         /\ \A i \in Connected : acls[i].handle # e.handle => acls'[i] = acls[i]
         /\ \E i \in Connected : acls[i].handle = e.handle
         /\ peers' = peers
<1>0. TypeOK /\ HandlesUnique
  BY DEF ConnInv
<1>1. PICK n \in get_acl_by_handle(e.handle) : acls' = [acls EXCEPT ![n].state = "EMPTY"]
  BY DEF OnDisconnected, FreeAcl
<1>2. n \in Connected /\ n \in Acls /\ acls[n].handle = e.handle
  <2>1. n \in {i \in Connected : acls[i].handle = e.handle}
    BY <1>0, <1>1, AclFound
  <2> QED
    BY <2>1 DEF Connected
<1>3. \A i \in Connected : acls[i].handle = e.handle => i = n
  BY <1>0, <1>2 DEF HandlesUnique
<1>4. acls \in AclTables
  BY <1>0 DEF TypeOK, HciTypeOK, DevTypeOK
<1>5. /\ acls'[n].state = "EMPTY" /\ acls'[n].handle = acls[n].handle /\ acls'[n].peer = acls[n].peer
      /\ \A i \in Acls : i # n => acls'[i] = acls[i]
  BY <1>1, <1>2, <1>4 DEF AclTables
<1>6. Connected' = {i \in Connected : acls[i].handle # e.handle}
  BY <1>2, <1>3, <1>5 DEF Connected
<1>7. /\ \A i \in Connected : acls'[i].handle = acls[i].handle /\ acls'[i].peer = acls[i].peer
      /\ \A i \in Connected : acls[i].handle # e.handle => acls'[i] = acls[i]
  BY <1>2, <1>5 DEF Connected
<1> QED
  BY <1>2, <1>6, <1>7 DEF OnDisconnected

LEMMA DisconnectedConnInv ==
  ASSUME ConnInv, TypeOK', NEW e \in Incoming, evtq' = Tail(evtq), OnDisconnected(e), UNCHANGED links
  PROVE  ConnInv'
<1>0. TypeOK /\ AclTracksLink /\ HandlesUnique /\ OpensAndEndsAlternate /\ HandlesGivenOut
  BY DEF ConnInv
<1>1. /\ Connected' = {i \in Connected : acls[i].handle # e.handle}
      /\ \A i \in Connected : acls'[i].handle = acls[i].handle /\ acls'[i].peer = acls[i].peer
      /\ peers' = peers
  BY ReleasedEntry
<1>2. evtq # <<>> /\ \A h : h # e.handle => 1 \notin EndedAt(h)
  BY <1>0, HeadIsFirst
<1>3. AclTracksLink'
  <2> SUFFICES ASSUME NEW i \in Connected, acls[i].handle # e.handle
               PROVE  /\ acls[i].peer \in Peers /\ peers[acls[i].peer].state # "EMPTY"
                      /\ \/ acls[i].handle \in Live' /\ links'[acls[i].handle] = peers[acls[i].peer].bd_addr
                         \/ DisconnReported(acls[i].handle)'
    BY <1>1 DEF AclTracksLink, DisconnReported
  <2>1. /\ acls[i].peer \in Peers /\ peers[acls[i].peer].state # "EMPTY"
        /\ \/ acls[i].handle \in Live /\ links[acls[i].handle] = peers[acls[i].peer].bd_addr
           \/ DisconnReported(acls[i].handle)
    BY <1>0 DEF AclTracksLink
  <2>2. PICK h, a : h = acls[i].handle /\ a = peers[acls[i].peer].bd_addr
    OBVIOUS
  <2>3. (h \in Live' /\ links'[h] = a) \/ DisconnReported(h)'
    BY <1>2, <2>1, <2>2, ReadTracks
  <2> QED
    BY <1>1, <2>1, <2>2, <2>3 DEF DisconnReported
<1>4. HandlesUnique' /\ HandlesGivenOut'
  BY <1>0, <1>1, <1>2, ReadNotNoHandle DEF HandlesUnique, HandlesGivenOut
<1>5. OpensAndEndsAlternate'
  <2> SUFFICES ASSUME NEW g \in Handles, NEW k \in OpenedAt(g)',
                      NEW i \in Connected', acls'[i].handle = g
               PROVE  \E m \in EndedAt(g)' : m < k
    BY <1>2, ReadAlternates DEF OpensAndEndsAlternate
  <2>1. i \in Connected /\ acls[i].handle = g /\ g # e.handle
    BY <1>1
  <2> QED
    BY <1>2, <2>1, ReadAlternates
<1> QED
  BY <1>3, <1>4, <1>5 DEF ConnInv

-----------------------------------------------------------------------------
(* Every step keeps the invariant *)

LEMMA HostConnInv == ConnInv /\ Host => ConnInv'
<1> SUFFICES ASSUME ConnInv, Host PROVE ConnInv'
  OBVIOUS
<1>0. TypeOK /\ TypeOK' /\ PeersKept /\ HostAclStep /\ links' = links
  BY NextTypeOK, HostKeepsPeers, HostAcls DEF ConnInv, Next, Host, ctlVars
<1>1. CASE evtq' = evtq /\ acls' = acls
  <2>1. \A h : /\ OpenedAt(h)' = OpenedAt(h) /\ EndedAt(h)' = EndedAt(h)
               /\ \A k \in OpenedAt(h) : evtq'[k] = evtq[k]
    BY <1>1 DEF OpenedAt, EndedAt
  <2> QED
    BY <1>0, <1>1, <2>1, QuietConnInv
<1>2. ASSUME NEW e \in Incoming, Receive, PassesOver(e) \/ OnConnected(e) \/ OnDisconnected(e)
      PROVE  ConnInv'
  BY <1>0, <1>2, PassedConnInv, ConnectedConnInv, DisconnectedConnInv DEF Receive
<1> QED
  BY <1>0, <1>1, <1>2 DEF HostAclStep

\* The answer to a command says nothing of a connection but that it failed.
LEMMA CommandQuiet ==
  ASSUME TypeOK, CommandTaken
  PROVE  /\ UNCHANGED <<hostVars, links>>
         /\ \E s \in Seq(QuietEvents) : evtq' = evtq \o s
<1> SUFFICES ASSUME UNCHANGED hostVars, NEW c \in Waiting,
                    Configure(c) \/ TakeKey(c) \/ Refuse(c) \/ Begin(c) \/ Answer(c)
             PROVE  links' = links /\ \E s \in Seq(QuietEvents) : evtq' = evtq \o s
  BY DEF CommandTaken, TakeCommand
<1>1. c.op \in Ops
  <2>1. c \in Commands
    BY HeadTailProperties DEF Waiting, TypeOK, TransportTypeOK
  <2> QED
    BY <2>1 DEF Commands
<1>2. \A op \in Ops, ok \in BOOLEAN, n \in Grants :
        /\ [code |-> "cmd_status", op |-> op, ok |-> ok, n |-> n] \in QuietEvents
        /\ [code |-> "cmd_complete", op |-> op, ok |-> ok, n |-> n] \in QuietEvents
  BY EventType DEF QuietEvents
<1>3. ASSUME NEW code \in {"cmd_status", "cmd_complete"}, NEW ok \in BOOLEAN,
             NEW more \in Seq(QuietEvents), Take(code, c.op, ok, more)
      PROVE  \E s \in Seq(QuietEvents) : evtq' = evtq \o s
  <2>1. PICK n \in Grants : evtq' = evtq \o (<<[code |-> code, op |-> c.op, ok |-> ok, n |-> n]>> \o more)
    BY <1>3 DEF Take, Send
  <2>2. <<[code |-> code, op |-> c.op, ok |-> ok, n |-> n]>> \in Seq(QuietEvents)
    BY <1>1, <1>2, SingletonSeq
  <2>3. \A x, y \in Seq(QuietEvents) : x \o y \in Seq(QuietEvents)
    OBVIOUS
  <2>4. <<[code |-> code, op |-> c.op, ok |-> ok, n |-> n]>> \o more \in Seq(QuietEvents)
    BY <1>3, <2>2, <2>3
  <2> QED
    BY <2>1, <2>4
<1>4. <<>> \in Seq(QuietEvents)
  BY EmptySeq
<1>5. ASSUME NEW r \in asking
      PROVE  <<ConnComplete(FALSE, FailHandle, r[1], r[2])>> \in Seq(QuietEvents)
  <2>1. ConnComplete(FALSE, FailHandle, r[1], r[2]) \in Events
    BY EventType, ControllerAssumption DEF TypeOK, CtlTypeOK
  <2>2. ConnComplete(FALSE, FailHandle, r[1], r[2]) \in QuietEvents
    BY <2>1 DEF ConnComplete, QuietEvents
  <2> QED
    BY <2>2, SingletonSeq
<1>6. \E code \in {"cmd_status", "cmd_complete"}, ok \in BOOLEAN, more \in Seq(QuietEvents) :
        Take(code, c.op, ok, more)
  BY <1>4, <1>5, ControllerAssumption DEF Configure, TakeKey, Refuse, Begin, Answer
<1>7. links' = links
  BY DEF Configure, TakeKey, Refuse, Begin, Answer
<1> QED
  BY <1>3, <1>6, <1>7

\* An event that comes by itself: a link that comes up or goes down, or nothing of a
\* connection but that it failed.
LEMMA SpontaneousLinks ==
  ASSUME TypeOK, Spontaneous
  PROVE  \/ links' = links /\ \E e \in QuietEvents : evtq' = evtq \o <<e>>
         \/ \E s \in setup, h \in Handles : LinkUp(s, h)
         \/ \E h \in Handles : LinkDown(h)
<1>0. FailHandle \in Handles \cup {NoHandle} /\ Outcomes \subseteq BOOLEAN
  BY ControllerAssumption
<1>1. \A s \in setup \cup asking : s \in Calls
  BY DEF TypeOK, CtlTypeOK
<1>2. /\ \A a \in Addrs : InquiryResult(a) \in QuietEvents
      /\ \A ok \in BOOLEAN : InquiryComplete(ok) \in QuietEvents
      /\ \A r \in Calls : ConnRequest(r[1], r[2]) \in QuietEvents
      /\ \A code \in {"pincode_req", "link_key_req"}, a \in Addrs : KeyRequest(code, a) \in QuietEvents
      /\ OtherEvent \in QuietEvents
  BY EventType DEF QuietEvents, InquiryResult, InquiryComplete, ConnRequest, KeyRequest, OtherEvent
<1>3. /\ \A r \in Calls : ConnComplete(FALSE, FailHandle, r[1], r[2]) \in QuietEvents
      /\ \A h \in Handles : DisconnComplete(FALSE, h) \in QuietEvents
  <2>1. /\ \A r \in Calls : ConnComplete(FALSE, FailHandle, r[1], r[2]) \in Events
        /\ \A h \in Handles : DisconnComplete(FALSE, h) \in Events
    BY <1>0, EventType
  <2> QED
    BY <2>1 DEF QuietEvents, ConnComplete, DisconnComplete
<1>4. \A e : Report(e) => evtq' = evtq \o <<e>>
  BY DEF Report, Send
<1>5. ASSUME NEW a \in Addrs, FindDevice(a)
      PROVE  links' = links /\ \E e \in QuietEvents : evtq' = evtq \o <<e>>
  BY <1>2, <1>4, <1>5 DEF FindDevice
<1>6. ASSUME EndInquiry
      PROVE  links' = links /\ \E e \in QuietEvents : evtq' = evtq \o <<e>>
  BY <1>0, <1>2, <1>4, <1>6 DEF EndInquiry
<1>7. ASSUME NEW s \in setup, LinkFails(s)
      PROVE  links' = links /\ \E e \in QuietEvents : evtq' = evtq \o <<e>>
  BY <1>1, <1>3, <1>4, <1>7 DEF LinkFails
<1>8. ASSUME NEW h \in Handles, CloseFails(h)
      PROVE  links' = links /\ \E e \in QuietEvents : evtq' = evtq \o <<e>>
  BY <1>3, <1>4, <1>8 DEF CloseFails
<1>9. ASSUME NEW r \in asking, CallTimesOut(r)
      PROVE  links' = links /\ \E e \in QuietEvents : evtq' = evtq \o <<e>>
  BY <1>1, <1>3, <1>4, <1>9 DEF CallTimesOut
<1>10. ASSUME NEW r \in Calls, RemoteCalls(r)
       PROVE  links' = links /\ \E e \in QuietEvents : evtq' = evtq \o <<e>>
  BY <1>2, <1>4, <1>10 DEF RemoteCalls
<1>11. ASSUME NEW code \in {"pincode_req", "link_key_req"}, NEW a \in Addrs, AskKey(code, a)
       PROVE  links' = links /\ \E e \in QuietEvents : evtq' = evtq \o <<e>>
  BY <1>2, <1>4, <1>11 DEF AskKey
<1>12. ASSUME ReportOther
       PROVE  links' = links /\ \E e \in QuietEvents : evtq' = evtq \o <<e>>
  BY <1>2, <1>4, <1>12 DEF ReportOther
<1> QED
  BY <1>5, <1>6, <1>7, <1>8, <1>9, <1>10, <1>11, <1>12 DEF Spontaneous, Closed, RemoteLeaves

LEMMA ControllerConnInv == ConnInv /\ (CommandTaken \/ CreditGranted \/ EventSent) => ConnInv'
<1> SUFFICES ASSUME ConnInv, CommandTaken \/ CreditGranted \/ EventSent PROVE ConnInv'
  OBVIOUS
<1>0. TypeOK /\ TypeOK' /\ UNCHANGED <<acls, peers>> /\ PeersKept
  BY NextTypeOK DEF ConnInv, Next, CommandTaken, CreditGranted, EventSent, hostVars, PeersKept
<1>1. ASSUME NEW s \in Seq(QuietEvents), evtq' = evtq \o s, links' = links PROVE ConnInv'
  BY <1>0, <1>1, QuietSent, QuietConnInv
<1>2. CASE CommandTaken
  BY <1>0, <1>1, <1>2, CommandQuiet
<1>3. CASE CreditGranted
  <2>1. PICK n \in Grants : evtq' = evtq \o <<CmdStatus("none", TRUE, n)>> /\ links' = links
    BY <1>3 DEF CreditGranted, CtlGrant, Send
  <2>2. CmdStatus("none", TRUE, n) \in QuietEvents
    BY EventType DEF QuietEvents, CmdStatus
  <2>3. <<CmdStatus("none", TRUE, n)>> \in Seq(QuietEvents)
    BY <2>2, SingletonSeq
  <2> QED
    BY <1>1, <2>1, <2>3
<1>4. CASE EventSent
  <2>0. Spontaneous
    BY <1>4 DEF EventSent
  <2>1. ASSUME NEW e \in QuietEvents, evtq' = evtq \o <<e>>, links' = links PROVE ConnInv'
    BY <1>1, <2>1, SingletonSeq
  <2>2. ASSUME NEW s \in setup, NEW h \in Handles, LinkUp(s, h) PROVE ConnInv'
    <3>1. s \in Calls /\ s[1] \in Addrs
      BY <1>0 DEF TypeOK, CtlTypeOK, Calls
    <3>2. PICK e : e = ConnComplete(TRUE, h, s[1], s[2])
      OBVIOUS
    <3>3. e \in Events /\ e.code = "conn_complete" /\ e.handle = h /\ e.addr = s[1]
      BY <3>1, <3>2, EventType DEF ConnComplete
    <3>4. h \notin Live /\ links' = [links EXCEPT ![h] = s[1]] /\ evtq' = evtq \o <<e>>
      BY <2>2, <3>2 DEF LinkUp, Report, Send
    <3> QED
      BY <1>0, <3>1, <3>3, <3>4, LinkUpConnInv
  <2>3. ASSUME NEW h \in Handles, LinkDown(h) PROVE ConnInv'
    <3>1. PICK e : e = DisconnComplete(TRUE, h)
      OBVIOUS
    <3>2. e \in Events /\ e.code = "disconn_complete" /\ e.ok /\ e.handle = h
      BY <3>1, EventType DEF DisconnComplete
    <3>3. links' = [links EXCEPT ![h] = ZeroAddr] /\ evtq' = evtq \o <<e>>
      BY <2>3, <3>1 DEF LinkDown, Report, Send
    <3> QED
      BY <1>0, <3>2, <3>3, LinkDownConnInv
  <2> QED
    BY <1>0, <2>0, <2>1, <2>2, <2>3, SpontaneousLinks
<1> QED
  BY <1>2, <1>3, <1>4

\* A new host knows of no connection, and the events it will read are a suffix of
\* those that were there.
LEMMA BootConnInv == ConnInv /\ Boot => ConnInv'
<1> SUFFICES ASSUME ConnInv, Boot PROVE ConnInv'
  OBVIOUS
<1>0. TypeOK /\ TypeOK' /\ OpensAndEndsAlternate /\ OpenedAt(NoHandle) = {} /\ links' = links
  BY NextTypeOK DEF ConnInv, HandlesGivenOut, Next, Boot, ctlVars
<1>1. Connected' = {}
  BY DEF Boot, dev_init, EmptyAcls, Connected
<1>2. PICK m \in Nat : /\ Len(evtq) = m + Len(evtq')
                       /\ \A k \in 1..Len(evtq') : m + k \in 1..Len(evtq) /\ evtq'[k] = evtq[m + k]
  BY <1>0, SuffixLeft DEF Boot
<1>3. \A h : \A k \in OpenedAt(h)' : m + k \in OpenedAt(h) /\ evtq'[k] = evtq[m + k]
  BY <1>2 DEF OpenedAt
<1>4. Len(evtq') \in Nat
  BY <1>0 DEF TypeOK, TransportTypeOK
<1>5. \A h : \A k \in EndedAt(h) : k <= m \/ k - m \in EndedAt(h)'
  <2>1. \A k \in 1..Len(evtq) : k <= m \/ (k - m \in 1..Len(evtq') /\ m + (k - m) = k)
    BY <1>2, <1>4
  <2> QED
    BY <1>2, <2>1 DEF EndedAt
<1>6. OpensAndEndsAlternate'
  <2> SUFFICES ASSUME NEW g \in Handles, NEW k \in OpenedAt(g)'
               PROVE  /\ links'[g] = evtq'[k].addr \/ \E n \in EndedAt(g)' : k < n
                      /\ \A j \in OpenedAt(g)' : j < k => \E n \in EndedAt(g)' : j < n /\ n < k
    BY <1>1 DEF OpensAndEndsAlternate
  <2>0. k \in Nat \ {0} /\ EndedAt(g) \subseteq Nat /\ OpenedAt(g)' \subseteq Nat \ {0}
    BY DEF OpenedAt, EndedAt
  <2>1. /\ links[g] = evtq[m + k].addr \/ \E n \in EndedAt(g) : m + k < n
        /\ \A j \in OpenedAt(g) : j < m + k => \E n \in EndedAt(g) : j < n /\ n < m + k
    BY <1>0, <1>3 DEF OpensAndEndsAlternate
  <2>2. links'[g] = evtq'[k].addr \/ \E n \in EndedAt(g)' : k < n
    <3>1. ASSUME NEW n \in EndedAt(g), m + k < n PROVE n - m \in EndedAt(g)' /\ k < n - m
      BY <1>2, <1>5, <2>0, <3>1
    <3> QED
      BY <1>0, <1>3, <2>1, <3>1
  <2>3. ASSUME NEW j \in OpenedAt(g)', j < k
        PROVE  \E n \in EndedAt(g)' : j < n /\ n < k
    <3>1. m + j < m + k /\ m + j \in OpenedAt(g)
      BY <1>2, <1>3, <2>0, <2>3
    <3>2. PICK n \in EndedAt(g) : m + j < n /\ n < m + k
      BY <2>1, <3>1
    <3>3. n - m \in EndedAt(g)' /\ j < n - m /\ n - m < k
      BY <1>2, <1>5, <2>0, <3>2
    <3> QED
      BY <3>3
  <2> QED
    BY <2>2, <2>3
<1>7. AclTracksLink' /\ HandlesUnique' /\ HandlesGivenOut'
  BY <1>0, <1>1, <1>3 DEF AclTracksLink, HandlesUnique, HandlesGivenOut
<1> QED
  BY <1>0, <1>6, <1>7 DEF ConnInv

LEMMA NextConnInv == ConnInv /\ [Next]_vars => ConnInv'
<1> SUFFICES ASSUME ConnInv, [Next]_vars PROVE ConnInv'
  OBVIOUS
<1>1. CASE LineLost \/ UNCHANGED vars
  <2>0. TypeOK' /\ UNCHANGED <<hostVars, evtq, links>>
    BY <1>1, NextTypeOK DEF ConnInv, LineLost, Hangup, vars, transportVars, ctlVars
  <2>1. UNCHANGED <<acls, links>> /\ PeersKept
    BY <2>0 DEF hostVars, PeersKept
  <2>2. \A h : /\ OpenedAt(h)' = OpenedAt(h) /\ EndedAt(h)' = EndedAt(h)
               /\ \A k \in OpenedAt(h) : evtq'[k] = evtq[k]
    BY <2>0 DEF OpenedAt, EndedAt
  <2> QED
    BY <2>0, <2>1, <2>2, QuietConnInv
<1> QED
  BY <1>1, HostConnInv, ControllerConnInv, BootConnInv DEF Next

\* In every reachable state the openings and ends of each handle alternate on their
\* way to the host, and the ACL table is in step with them.
THEOREM ConnInvHolds == Spec => []ConnInv
<1> QED
  BY InitConnInv, NextConnInv, PTL DEF Spec

\* A connected entry of the ACL table stands for a link the controller has with the
\* device of its peer entry, or for one whose end is reported.
THEOREM EntriesFollowLinks == Spec => []AclTracksLink
<1>1. ConnInv => AclTracksLink
  BY DEF ConnInv
<1> QED
  BY <1>1, ConnInvHolds, PTL

\* No two connected entries share a handle: bt_dev_get_acl_by_handle has one answer.
THEOREM OneEntryPerHandle == Spec => []HandlesUnique
<1>1. ConnInv => HandlesUnique
  BY DEF ConnInv
<1> QED
  BY <1>1, ConnInvHolds, PTL

-----------------------------------------------------------------------------
(* The ACL table implements a table of connections *)

Conn(i) == <<acls[i].handle, peers[acls[i].peer].bd_addr>>

\* With an entry that is free the table holds fewer connections than it has room for.
LEMMA RoomInTable ==
  ASSUME NEW n \in Acls \ Connected
  PROVE  Cardinality(Conns) < NUM_ACLS
<1>1. IsFiniteSet(Acls) /\ Cardinality(Acls) = NUM_ACLS /\ NUM_ACLS \in Nat \ {0}
  <2>1. 1 \in Int /\ NUM_ACLS \in Int /\ NUM_ACLS \in Nat \ {0}
    BY TableAssumption
  <2>2. IsFiniteSet(1..NUM_ACLS) /\ Cardinality(1..NUM_ACLS) = IF 1 > NUM_ACLS THEN 0 ELSE NUM_ACLS - 1 + 1
    BY <2>1, FS_Interval
  <2> QED
    BY <2>1, <2>2 DEF Acls
<1>2. IsFiniteSet(Acls \ {n}) /\ Cardinality(Acls \ {n}) = NUM_ACLS - 1
  BY <1>1, FS_RemoveElement
<1>3. Connected \in SUBSET (Acls \ {n})
  BY DEF Connected
<1>4. IsFiniteSet(Connected) /\ Cardinality(Connected) <= NUM_ACLS - 1 /\ Cardinality(Connected) \in Nat
  BY <1>2, <1>3, FS_Subset, FS_CardinalityType
<1>5. IsFiniteSet(Conns) /\ Cardinality(Conns) <= Cardinality(Connected)
  <2> DEFINE f == [i \in Connected |-> Conn(i)]
  <2>1. f \in Surjection(Connected, Conns)
    BY DEF Conns, Conn, Surjection
  <2> HIDE DEF f
  <2> QED
    BY <1>4, <2>1, FS_Surjection
<1>6. Cardinality(Conns) \in Nat
  BY <1>5, FS_CardinalityType
<1> QED
  BY <1>1, <1>4, <1>5, <1>6

LEMMA QuietConns ==
  ASSUME AclTracksLink, acls' = acls, PeersKept
  PROVE  Conns' = Conns
<1>1. \A i \in Connected : peers'[acls[i].peer].bd_addr = peers[acls[i].peer].bd_addr
  BY DEF AclTracksLink, PeersKept
<1> QED
  BY <1>1 DEF Conns, Connected

LEMMA OpensConnection ==
  ASSUME ConnInv, NEW e \in Incoming, OnConnected(e)
  PROVE  CT!Open(e.handle, e.addr)
<1>0. TypeOK
  BY DEF ConnInv
<1>1. PICK p \in Peers, n \in Acls :
        /\ peers[p].state # "EMPTY" /\ peers[p].bd_addr = e.addr
        /\ n \notin Connected
        /\ Connected' = Connected \cup {n}
        /\ acls'[n].handle = e.handle /\ acls'[n].peer = p
        /\ \A i \in Connected : acls'[i] = acls[i]
        /\ peers' = peers
  BY <1>0, OpenedEntry
<1>2. Conns' = Conns \cup {<<e.handle, e.addr>>}
  BY <1>1 DEF Conns
<1>3. e.handle \notin CT!InUse
  <2>1. \A c \in Conns : c[1] # e.handle
    BY OpensNewHandle DEF Conns
  <2> QED
    BY <2>1 DEF CT!InUse
<1>4. CT!Cardinality(Conns) < NUM_ACLS
  <2>1. CT!Cardinality(Conns) = Cardinality(Conns)
    BY DEF CT!Cardinality, Cardinality
  <2> QED
    BY <1>1, <2>1, RoomInTable
<1> QED
  BY <1>2, <1>3, <1>4 DEF CT!Open

LEMMA ClosesConnection ==
  ASSUME ConnInv, NEW e \in Incoming, OnDisconnected(e)
  PROVE  CT!Close(e.handle) /\ e.handle \in Handles
<1>1. /\ Connected' = {i \in Connected : acls[i].handle # e.handle}
      /\ \A i \in Connected : acls'[i].handle = acls[i].handle /\ acls'[i].peer = acls[i].peer
      /\ peers' = peers
  BY ReleasedEntry
<1>2. PICK n \in Connected : acls[n].handle = e.handle
  BY ReleasedEntry
<1>3. Conns' = {c \in Conns : c[1] # e.handle}
  BY <1>1 DEF Conns
<1>4. e.handle \in CT!InUse
  <2>1. <<acls[n].handle, peers[acls[n].peer].bd_addr>> \in Conns
    BY DEF Conns
  <2> QED
    BY <1>2, <2>1 DEF CT!InUse
<1>5. e.handle \in Handles
  BY <1>2 DEF ConnInv, HandlesGivenOut, TypeOK, HciTypeOK, DevTypeOK, AclTables, Connected
<1> QED
  BY <1>3, <1>4, <1>5 DEF CT!Close

LEMMA StepOfTable == ConnInv /\ [Next]_vars => [CT!CTNext]_Conns
<1> SUFFICES ASSUME ConnInv, [Next]_vars PROVE CT!CTNext \/ Conns' = Conns
  OBVIOUS
<1>0. TypeOK /\ AclTracksLink
  BY DEF ConnInv
<1>1. CASE Host
  <2>0. PeersKept /\ HostAclStep
    BY <1>0, <1>1, HostKeepsPeers, HostAcls DEF Host
  <2>1. CASE acls' = acls
    BY <1>0, <2>0, <2>1, QuietConns
  <2>2. ASSUME NEW e \in Incoming, OnConnected(e) PROVE CT!CTNext
    <3>1. e.handle \in Handles /\ e.addr \in Addrs
      BY <2>2, OpensNewHandle
    <3> QED
      BY <2>2, <3>1, OpensConnection DEF CT!CTNext
  <2>3. ASSUME NEW e \in Incoming, OnDisconnected(e) PROVE CT!CTNext
    BY <2>3, ClosesConnection DEF CT!CTNext
  <2> QED
    BY <2>0, <2>1, <2>2, <2>3 DEF HostAclStep, PassesOver
<1>2. CASE Boot
  <2>1. Connected' = {}
    BY <1>2 DEF Boot, dev_init, EmptyAcls, Connected
  <2>2. Conns' = {}
    BY <2>1 DEF Conns
  <2> QED
    BY <2>2 DEF CT!CTNext, CT!Restart
<1>3. CASE CommandTaken \/ CreditGranted \/ EventSent \/ LineLost \/ UNCHANGED vars
  <2>1. acls' = acls /\ peers' = peers
    BY <1>3 DEF CommandTaken, CreditGranted, EventSent, LineLost, vars, hostVars
  <2> QED
    BY <2>1 DEF Conns, Connected
<1> QED
  BY <1>1, <1>2, <1>3 DEF Next

\* The ACL table is a table of connections: whatever the events, the lost line and the
\* restarts, an entry appears on a handle no other one has, while there is room, keeps its
\* device, and goes when its connection is reported ended.
THEOREM TableImplemented == Spec => ImplementsConnTable
<1>1. Init => CT!CTInit
  BY DEF Init, DevInit, EmptyAcls, Connected, Conns, CT!CTInit
<1> QED
  BY <1>1, StepOfTable, ConnInvHolds, PTL DEF Spec, ImplementsConnTable, CT!CTSpec

-----------------------------------------------------------------------------
(* No connection that lasts is given up *)

\* When a prefix of the events is read or thrown away, what stands behind the ends of
\* a handle still does.
LEMMA SuffixOutlivesEnds ==
  ASSUME TypeOK, TypeOK', LinksOutliveEnds, links' = links, NEW m \in Nat,
         Len(evtq) = m + Len(evtq'),
         \A k \in 1..Len(evtq') : m + k \in 1..Len(evtq) /\ evtq'[k] = evtq[m + k]
  PROVE  LinksOutliveEnds'
<1>0. Len(evtq) \in Nat /\ Len(evtq') \in Nat
  BY DEF TypeOK, TransportTypeOK
<1>1. \A h : \A n \in EndedAt(h)' : n \in 1..Len(evtq') /\ m + n \in EndedAt(h)
  BY DEF EndedAt
<1>2. \A h : \A k \in OpenedAt(h) : k \in 1..Len(evtq) /\ (m < k => k - m \in OpenedAt(h)')
  <2>1. \A k \in 1..Len(evtq) : m < k => k - m \in 1..Len(evtq') /\ m + (k - m) = k
    BY <1>0
  <2> QED
    BY <2>1 DEF OpenedAt
<1> SUFFICES ASSUME NEW h \in Live, NEW n \in EndedAt(h)'
             PROVE  \E k \in OpenedAt(h)' : \A j \in EndedAt(h)' : j < k
  BY DEF LinksOutliveEnds, Live
<1>3. PICK k \in OpenedAt(h) : \A j \in EndedAt(h) : j < k
  BY <1>1 DEF LinksOutliveEnds
<1>4. \A j \in EndedAt(h)' : m + j < k
  BY <1>1, <1>3
<1>5. m < k
  BY <1>0, <1>1, <1>2, <1>4
<1>6. \A j \in EndedAt(h)' : j < k - m
  BY <1>0, <1>1, <1>2, <1>4
<1> QED
  BY <1>2, <1>5, <1>6

\* A new link is the last news of its handle; that of the others stays as it was.
LEMMA LinkUpOutlivesEnds ==
  ASSUME TypeOK, LinksOutliveEnds,
         NEW h \in Handles, NEW a \in Addrs, links' = [links EXCEPT ![h] = a],
         NEW e \in Events, e.code = "conn_complete", e.ok, e.handle = h,
         evtq' = evtq \o <<e>>
  PROVE  LinksOutliveEnds'
<1>1. \A g \in Handles : g # h => links'[g] = links[g]
  BY DEF TypeOK, CtlTypeOK
<1>2. \A g : /\ \A k \in OpenedAt(g) : k \in OpenedAt(g)'
             /\ \A k \in EndedAt(g) : k < Len(evtq')
             /\ Len(evtq') \in 1..Len(evtq') /\ evtq'[Len(evtq')] = e
  BY SentStandsBehind
<1>3. \A g : \A k \in EndedAt(g)' : k \in EndedAt(g)
  <2>1. \A k \in 1..Len(evtq') : k \in 1..Len(evtq) \/ evtq'[k] = e
    BY OneSent
  <2> QED
    BY <2>1, OneSent DEF EndedAt
<1>4. Len(evtq') \in OpenedAt(h)'
  BY <1>2 DEF OpenedAt
<1>5. \A g \in Live' : g # h => g \in Live
  BY <1>1 DEF Live
<1> SUFFICES ASSUME NEW g \in Live', EndedAt(g)' # {}
             PROVE  \E k \in OpenedAt(g)' : \A m \in EndedAt(g)' : m < k
  BY DEF LinksOutliveEnds
<1>6. CASE g = h
  BY <1>2, <1>3, <1>4, <1>6
<1>7. CASE g # h
  <2>1. EndedAt(g) # {} /\ g \in Live
    BY <1>3, <1>5, <1>7
  <2>2. PICK k \in OpenedAt(g) : \A m \in EndedAt(g) : m < k
    BY <2>1 DEF LinksOutliveEnds
  <2> QED
    BY <1>2, <1>3, <2>2
<1> QED
  BY <1>6, <1>7

\* A link that goes down needs no news any more.
LEMMA LinkDownOutlivesEnds ==
  ASSUME TypeOK, LinksOutliveEnds,
         NEW h \in Handles, links' = [links EXCEPT ![h] = ZeroAddr],
         NEW e \in Events, e.handle = h, e.code = "disconn_complete", evtq' = evtq \o <<e>>
  PROVE  LinksOutliveEnds'
<1>1. links'[h] = ZeroAddr /\ \A g \in Handles : g # h => links'[g] = links[g]
  BY DEF TypeOK, CtlTypeOK
<1>2. \A g \in Live' : g # h /\ g \in Live
  BY <1>1 DEF Live
<1>3. \A g : \A k \in OpenedAt(g) : k \in OpenedAt(g)'
  BY SentStandsBehind
<1>4. \A g : g # h => \A k \in EndedAt(g)' : k \in EndedAt(g)
  <2>1. \A k \in 1..Len(evtq') : k \in 1..Len(evtq) \/ evtq'[k] = e
    BY OneSent
  <2> QED
    BY <2>1, OneSent DEF EndedAt
<1> QED
  BY <1>2, <1>3, <1>4 DEF LinksOutliveEnds

LEMMA QuietOutlivesEnds ==
  ASSUME LinksOutliveEnds, links' = links,
         \A h : OpenedAt(h)' = OpenedAt(h) /\ EndedAt(h)' = EndedAt(h)
  PROVE  LinksOutliveEnds'
BY DEF LinksOutliveEnds, Live

LEMMA ControllerOutlivesEnds ==
  ASSUME TypeOK, LinksOutliveEnds, CommandTaken \/ CreditGranted \/ EventSent
  PROVE  LinksOutliveEnds'
<1>1. ASSUME NEW s \in Seq(QuietEvents), evtq' = evtq \o s, links' = links PROVE LinksOutliveEnds'
  BY <1>1, QuietSent, QuietOutlivesEnds
<1>2. CASE CommandTaken
  BY <1>1, <1>2, CommandQuiet
<1>3. CASE CreditGranted
  <2>1. PICK n \in Grants : evtq' = evtq \o <<CmdStatus("none", TRUE, n)>> /\ links' = links
    BY <1>3 DEF CreditGranted, CtlGrant, Send
  <2>2. CmdStatus("none", TRUE, n) \in QuietEvents
    BY EventType DEF QuietEvents, CmdStatus
  <2> QED
    BY <1>1, <2>1, <2>2, SingletonSeq
<1>4. CASE EventSent
  <2>1. ASSUME NEW e \in QuietEvents, evtq' = evtq \o <<e>>, links' = links PROVE LinksOutliveEnds'
    BY <1>1, <2>1, SingletonSeq
  <2>2. ASSUME NEW s \in setup, NEW h \in Handles, LinkUp(s, h) PROVE LinksOutliveEnds'
    <3>1. s \in Calls /\ s[1] \in Addrs
      BY DEF TypeOK, CtlTypeOK, Calls
    <3>2. PICK e : e = ConnComplete(TRUE, h, s[1], s[2])
      OBVIOUS
    <3>3. e \in Events /\ e.code = "conn_complete" /\ e.ok /\ e.handle = h
      BY <3>1, <3>2, EventType DEF ConnComplete
    <3>4. links' = [links EXCEPT ![h] = s[1]] /\ evtq' = evtq \o <<e>>
      BY <2>2, <3>2 DEF LinkUp, Report, Send
    <3> QED
      BY <3>1, <3>3, <3>4, LinkUpOutlivesEnds
  <2>3. ASSUME NEW h \in Handles, LinkDown(h) PROVE LinksOutliveEnds'
    <3>1. PICK e : e = DisconnComplete(TRUE, h)
      OBVIOUS
    <3>2. e \in Events /\ e.handle = h /\ e.code = "disconn_complete"
      BY <3>1, EventType DEF DisconnComplete
    <3>3. links' = [links EXCEPT ![h] = ZeroAddr] /\ evtq' = evtq \o <<e>>
      BY <2>3, <3>1 DEF LinkDown, Report, Send
    <3> QED
      BY <3>2, <3>3, LinkDownOutlivesEnds
  <2> QED
    BY <1>4, <2>1, <2>2, <2>3, SpontaneousLinks DEF EventSent
<1> QED
  BY <1>2, <1>3, <1>4

LEMMA NextKeptInv == KeptInv /\ [Next]_vars => KeptInv'
<1> SUFFICES ASSUME KeptInv, [Next]_vars PROVE LinksOutliveEnds'
  BY NextConnInv DEF KeptInv
<1>0. TypeOK /\ TypeOK' /\ LinksOutliveEnds
  BY NextTypeOK DEF KeptInv, ConnInv
<1>1. CASE evtq' = evtq /\ links' = links
  <2>1. \A h : OpenedAt(h)' = OpenedAt(h) /\ EndedAt(h)' = EndedAt(h)
    BY <1>1 DEF OpenedAt, EndedAt
  <2> QED
    BY <1>0, <1>1, <2>1, QuietOutlivesEnds
<1>2. CASE Host
  <2>1. links' = links /\ HostAclStep
    BY <1>0, <1>2, HostAcls DEF Host, ctlVars
  <2>2. CASE Receive
    <3>1. /\ Len(evtq) = 1 + Len(evtq')
          /\ \A k \in 1..Len(evtq') : 1 + k \in 1..Len(evtq) /\ evtq'[k] = evtq[1 + k]
      BY <1>0, <2>2, OneRead DEF Receive
    <3> QED
      BY <1>0, <2>1, <3>1, SuffixOutlivesEnds
  <2> QED
    BY <1>1, <2>1, <2>2 DEF HostAclStep
<1>3. CASE Boot
  <2>1. links' = links /\ Reopened
    BY <1>3 DEF Boot, ctlVars
  <2>2. PICK m \in Nat : /\ Len(evtq) = m + Len(evtq')
                         /\ \A k \in 1..Len(evtq') : m + k \in 1..Len(evtq) /\ evtq'[k] = evtq[m + k]
    BY <1>0, <2>1, SuffixLeft
  <2> QED
    BY <1>0, <2>1, <2>2, SuffixOutlivesEnds
<1>4. CASE LineLost \/ UNCHANGED vars
  BY <1>1, <1>4 DEF LineLost, Hangup, vars, transportVars, ctlVars
<1> QED
  BY <1>0, <1>2, <1>3, <1>4, ControllerOutlivesEnds DEF Next

\* Of the events the host may read none ends a connection that lasts.
LEMMA HostKeepsLasting ==
  ASSUME KeptInv, Host, NEW i \in Connected, LinkLasts(i)
  PROVE  acls'[i] = acls[i] /\ peers'[acls[i].peer].bd_addr = peers[acls[i].peer].bd_addr
<1>0. ConnInv /\ TypeOK /\ AclTracksLink /\ LinksOutliveEnds /\ PeersKept /\ HostAclStep
  BY HostKeepsPeers, HostAcls DEF KeptInv, ConnInv, Host
<1>1. peers'[acls[i].peer].bd_addr = peers[acls[i].peer].bd_addr
  BY <1>0 DEF AclTracksLink, PeersKept
<1>2. EndedAt(acls[i].handle) = {}
  BY <1>0 DEF LinkLasts, LinksOutliveEnds
<1>3. ASSUME NEW e \in Incoming, OnConnected(e) PROVE acls'[i] = acls[i]
  BY <1>0, <1>3, OpenedEntry
<1>4. ASSUME NEW e \in Incoming, OnDisconnected(e) PROVE acls'[i] = acls[i]
  <2>1. 1 \in EndedAt(e.handle)
    BY <1>0, <1>4, HeadIsFirst DEF OnDisconnected, Got
  <2>2. acls[i].handle # e.handle
    BY <1>2, <2>1
  <2> QED
    BY <1>0, <1>4, <2>2, ReleasedEntry
<1>5. acls'[i] = acls[i]
  BY <1>0, <1>3, <1>4 DEF HostAclStep, PassesOver
<1> QED
  BY <1>1, <1>5

\* As long as the controller has the link of an entry, and no newer one the host is yet
\* to read of, a running host leaves the entry and the device it stands for alone.
THEOREM LastingConnectionsKept == Spec => ConnectionsKept
<1>1. Init => KeptInv
  BY InitConnInv DEF KeptInv, LinksOutliveEnds, Live, Init, CtlInit
<1>2. ASSUME KeptInv, [Next]_vars, boots' = boots, NEW i \in Connected, LinkLasts(i)
      PROVE  acls'[i] = acls[i] /\ peers'[acls[i].peer].bd_addr = peers[acls[i].peer].bd_addr
  <2>1. CASE Host
    BY <1>2, <2>1, HostKeepsLasting
  <2>2. ~Boot
    <3>1. boots \in Nat
      BY <1>2, StackAssumption DEF KeptInv, ConnInv, TypeOK
    <3> QED
      BY <1>2, <3>1 DEF Boot
  <2>3. CASE CommandTaken \/ CreditGranted \/ EventSent \/ LineLost \/ UNCHANGED vars
    BY <2>3 DEF CommandTaken, CreditGranted, EventSent, LineLost, vars, hostVars
  <2> QED
    BY <1>2, <2>1, <2>2, <2>3 DEF Next
<1> DEFINE Keeps == boots' = boots =>
       \A i \in Connected : LinkLasts(i) =>
         acls'[i] = acls[i] /\ peers'[acls[i].peer].bd_addr = peers[acls[i].peer].bd_addr
<1>3. KeptInv /\ [Next]_vars => Keeps
  BY <1>2
<1>4. KeptInv /\ [Next]_vars => [Keeps]_vars
  BY <1>3
<1> QED
  BY <1>1, <1>4, NextKeptInv, PTL DEF Spec, ConnectionsKept

=============================================================================
