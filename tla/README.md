# A verification of avr-bt-stack

TLA+ models of the Bluetooth HCI host stack in `src/`, the TLC runs that check
them on small instances, and TLAPS proofs of what holds for every instance.

## 1. The system

The stack is a single-threaded program at one end of a serial line. At the other
end is a Bluetooth controller, which takes HCI commands and sends HCI events.
`bt_hci_main()` alternates between a look at the device's state (which may send
a command) and a blocking read of one event (which a handler acts on, and which
may send commands and call back into the program).

| Component | Code | State it keeps | Operations |
|---|---|---|---|
| Main loop, event handlers | `bt_hci.c`, `bt_hci.h` | none of its own; works on `bt_dev_t` | `bt_hci_main`, `bt_hci_unpack_*`, `bt_hci_pack_*` |
| Device structure | `bt_dev.c`, `bt_dev.h` | `state`, `ncmds`, `peers[]`, `acls[]`, the packet buffer | `bt_dev_init`, table lookups, `bt_dev_flush_hci`, `bt_dev_read_hci`, `bt_dev_pack_*` |
| Serial line | `serial_unix.c`, `serial_avr.c`, `bt_serial.h` | the tty | init, close, send, read |
| Program on top | `test.c` | none that matters | `cb_ready`, `cb_peer_found`, `cb_conn_succ`, ..., `main` |
| Controller, remote devices | not in the repository | links, requests, inquiry, credits | takes commands, sends events |
| L2CAP signalling | `bt_l2cap.c`, `bt_l2cap.h` | none | `bt_l2cap_unpack*`, `bt_l2cap_pack_*` |
| Packet framing | `bt_dev_read_hci`, `bt_hci_unpack_hci`, head of `bt_hci_unpack_evt` | `dev->buf`, `dev->ptr` | read a type, a header, parameters |
| Linked list | `bt_list.c`, `bt_list.h` | cells, `list`, `end`, `num` | insert, take, search, map, destroy |
| Older programs | `bt-mouse.c`, `stack-avr.c` | peers found, connection, L2CAP channels | a start-up and main loop each |
| Debug output | `io_stdio.c`, `io_avr.c`, `bt_io.h` | none | print |

How they interact: `bt_dev_pack_*` writes a command into `dev->buf`, `bt_dev_flush_hci`
sends it and takes one credit from `dev->ncmds`; `bt_dev_read_hci` reads an event
and calls its handler; `cmd_status` and `cmd_complete` events set `ncmds`. The
callbacks run inside the handlers and assign `dev->state` themselves.

What is hard about it, with what each part has to keep right:

- **Initialisation.** Four commands, each sent by the handling of the completion of
  the one before. It must never lose its place, never skip a command, and must
  end. The controller is *not* reset first, so a restarted host hears completions
  of commands its predecessor sent.
- **Credits.** Only the top of the loop looks at `ncmds`; handlers send regardless,
  and `ncmds` is an `unsigned char`. The loop must not be shut out for good.
- **Connections.** Links come and go in the controller while commands and events
  about them are in the queues, and handles are used again. The ACL table must
  stay in step with them, one entry a handle, without losing a connection when it
  is full.
- **Peers and inquiry.** What was found must survive until the callback is asked.
- **Failure.** A line that fails, a command that is refused, a link that does not
  come up.
- **Framing.** The line has no packets, only bytes; of an ACL or SCO packet the host
  reads one and then looks for the next type among the rest. A restart flushes the
  input at any byte. What was sent as an event must be handed over whole.
- **The list.** It must hold each cell once and lose none, whatever `end` points to.
- **The older programs** read one event per command, or retry with answers of the
  attempt before still on the line.

The list, L2CAP and the older programs are used by no program that builds: the list
is in no Makefile, `unix_handle_acl` in `test.c` has no caller, and `bt-mouse.c` and
`stack-avr.c` call `bt_dev_read_hci(dev)`, a signature that is gone.

The hazards are listed one by one, at their lines, in `PROJECT.json`.

## 2. The modules

| Module | Models | Correspondence |
|---|---|---|
| `HciTransport` | the packets, the line (`serial_unix.c`) | `cmdq`, `evtq`: packets written and not yet read; `line`: FALSE when the tty was not opened or has hung up |
| `BtDev` | `bt_dev.c` | `dev_state`, `ncmds`, `peers`, `acls` are the fields of `bt_dev_t`; a pointer result is a set of at most one index |
| `BtHci` | `bt_hci.c`, callbacks of `test.c` | `pc` tells the top of the loop from the read; one action per branch of a handler |
| `BtController` | what `bt_hci.c` expects of the controller (external) | see section 3 |
| `ConnTable` | the abstract specification of the ACL table | a set of pairs of a handle and a device |
| `BtStack` | the whole, restarts, the properties | `Boot` is `main()` in a new process |
| `HciFraming` | `bt_dev_read_hci` byte by byte | `wire`, `off`: packets sent, and how far the first was read; `buf`, `phase`: the round under way |
| `PacketLine` | the abstract specification of the framing | a queue of packets, and the events handed over |
| `L2cap` | `bt_l2cap.c`, `bt_dev_pack_l2cap`, `unix_handle_acl` | packing and parsing as operators on bytes; `packet` is `dev->buf` up to `dev->ptr` |
| `BtList` | `bt_list.c` and the rule of its client | `list`, `end`, `num`, `next` are the fields; `heap` and `held` say who owns a cell |
| `OrderedBag` | the abstract specification of the list | a sequence and a count |
| `OlderPrograms` | `bt-mouse.c`, start-up of `stack-avr.c`, on `BtController` | `pc` names the function, `step` the command of its script that is awaited |
| `MCBtStack` | constants for TLC | `TestApp`, `Client`: the installed callbacks |
| `BtController_proofs` | lemmas on queues and on what the controller sends | used by the proofs of the stack and of the older programs |
| `BtStack_proofs` | theorems: types, initialisation in order | section 5 |
| `BtProgress_proofs` | theorems: handshake, its count, credits | section 5 |
| `BtConn_proofs` | theorems: the ACL table and the links; it implements `ConnTable` | section 5 |
| `HciFraming_proofs` | theorems: the host is in step; it implements `PacketLine` | section 5 |
| `BtList_proofs` | theorems: the list invariant; it implements `OrderedBag` | section 5 |
| `L2cap_proofs` | theorems: commands and packets, for every length | section 5 |
| `OlderPrograms_proofs` | theorems: the mouse is configured and awaits an inquiry | section 5 |
| `MCHciFraming`, `MCOlderPrograms` | constants for TLC; the first has `HciFraming`, `L2cap` and `BtList` in it | section 4 |

**Grain.** The host is one thread which shares nothing but the line, so an action
is everything from a read to the end of the loop body, or from the top of the
loop to the read. All that a handler calls is part of its action: the wiping of
a peer entry by `bt_dev_get_free_peer`, the decrement in `bt_dev_flush_hci`, what
the callback does. `flush_hci(credits, c)` has the credits at the call as a
parameter because a `cmd_complete` handler sets `ncmds` and then sends.

**Data.** A packet keeps what a handler branches on: operation, address, handle,
status as a Boolean, number of credits, link type. `ZeroAddr` is the address of a
wiped entry and `JunkAddr` the six bytes read past the address of a request
(`bt_hci.c:286-289`). Results of an inquiry come one an event: the handler stores
each in the same first EMPTY entry, so an event with several has the effect of
its last. Class of device, clock offsets, packet types, PINs, keys and names are
left out. An event's length is always right.

**Bytes.** `HciTransport` takes packets as given; `HciFraming` is what that rests on, and
shows where it fails. Its round is one read at a time: a type; if it says an event, a
header of two bytes and as many more as the second of them says; if not, the round is
over and the rest of the packet is still on the line. `ambiguous` becomes TRUE when a
byte that looks like an event's type is left for the host to find, in a data packet or
in an event that a flush cut. `FramingInv` says that until then the host is in step, and
`PacketLine` promises nothing after. `FramingAssumption` has events fit into
`dev->buf`, which the code does not test.

**The list.** A client may call anything on any cell it owns, with one rule of its own:
it inserts a cell only where `next` is overwritten, or is NULL. The functions do not test it, and so
`bt_list_insl_end` and `bt_list_insl_front` do not either: the rule is `FitForEnd` and `FitForFront`, in
the client's step `Insertion`. Insertion at the end and into an empty list leave `next`
alone, and a cell taken out keeps its own, so a client that breaks the rule makes a cycle, or a list of more cells than `num`.
What is checked and proved of the list is for clients that keep it. `bt_list_destroy` leaves `head->list` pointing to freed memory,
so the client calls `bt_list_init` before it goes on. The functions that only walk
(`bt_list_search`, `bt_list_map`) are the operators `From` and `InList`; a `cmp()` is the
set of cells it accepts.

**The older programs.** The result of the one-argument `bt_dev_read_hci` is taken to be
the event the present handlers return, with one exception: the present handler of
`write_scan_enable` returns its success only in INITIALIZING (`bt_hci.c:563`), a state neither
program sets, so with it neither would get through. Credits are left out: neither
program looks at them. `uart_receive(dev->buf, 256)`, which waits for the module to reset
itself, is taken to drop whatever has come in. `starts` counts calls of `bt_serial_init`: starts of the
process, and attempts of the AVR program.

**Callbacks.** `Installed` is the set of callbacks that are not NULL. With `TestApp`
they are those of `test.c` that change anything. `Client` stands for a program with
the others of `bt_callbacks_t`: it takes or refuses a call, has or has not a key, and
in `cb_idle` may put a device it looks for in the table. That last one is the only way a peer
entry gets an address in this code, since `FOUND` is never set; no program of the
repository does it, and the state `SHOULD_CONNECT` shows that it is meant.
A client answers a pincode or key request either way, also where `unix_cb_pincode_req`
always has a PIN: more behaviour than `test.c` has.

## 3. The environment

`BtController` takes commands in order and answers each at once with a completion
or a status carrying a number of credits from `Grants`; after a report of 0 it owes
another. A refused command only gets its status. Links are set up, end or fail
later, by themselves, by the host's command or by the remote device; a closed handle is used
again; a failed completion carries `FailHandle`, which may be a live one. Calls come
only once page scan is enabled, and run out. Nothing in the controller is lost
when the host restarts.

A restart is possible at any moment, also while the host runs (it is killed) and
after it returned or died. Opening the tty flushes the input (`serial_unix.c:83`):
a new host sees some suffix of the events that were in flight, and every command
written is sent.

`LineLost` is a hang-up for good, after which `read` and `write` fail. With `AllowHangup` the
tty may also fail to open, which `bt_dev_init` does not notice (`bt_dev.c:7`): then there is no line from the
beginning. The mouse may start on an unopened tty too; the AVR's UART is always there.

The host never waits on anything but the read, so a state without a successor is
one in which it waits for an event nobody is going to send, or is dead; the configurations
set `CHECK_DEADLOCK FALSE`, because with the bounds on remote activity, and after
a return or a crash, that is legitimate. What must not stop is stated by
`HandshakeNeverStalls` and `NoCreditStarvation` and, with fairness, `InitTerminates` and `CreditRefreshed`.

**Fairness** (`FairSpec`): weak fairness of `Host`, the process is scheduled; of
`CommandTaken`, the controller answers commands; of `CreditGranted`, it grants what it owes.
All three are single-threaded and blocked by nobody else, so weak fairness is
enough. Nothing is assumed of inquiries, links, remote devices, restarts or the line.

## 4. The runs

| Run | Callbacks, bounds | Checks |
|---|---|---|
| `test_app` | `FairSpec`, `TestApp`; 1 device, 1 handle, 2 peers, 1 ACL, credits 0 or 1, failures, 3 packets, 1 remote act, 2 starts, the line may be missing or go | `TypeOK`, `HandshakeNeverStalls`, `HandshakesConserved`, `ReadyMeansConfigured`, `NoCreditStarvation`, `InitTerminates`, `CreditRefreshed` |
| `client` | `Client`; 2 devices, 2 handles, 2 peers, 2 ACLs, credit 1, failures that carry a live handle, 3 packets, 2 remote acts, 1 start | `AclTracksLink`, `HandlesUnique`, `ConnectionsKept`, `ImplementsConnTable` |
| `client_restarts` | as `client` with 1 ACL, 2 packets, 1 remote act, 2 starts | `ConfigInv`, `ConnInv`, `ImplementsConnTable` |
| `line` | a buffer of 5 bytes, events of up to 2 parameters, data packets of up to 2 bytes, 3 packets, 2 starts; commands of 0 to 65535 bytes and data of 0 to 260 at their boundaries; a list of 4 cells | `FramingInv`, `ImplementsPacketLine`, `EventsGetThrough`, `SignallingInv`, `FitsMeansFramed`, `ListInv`, `ImplementsBag` |
| `older_programs` | both programs; 2 devices, 1 handle, 2 peers, credits 0 or 1, failures, 2 packets, 1 remote act, 2 starts or attempts | `PastInitMeansConfigured`, `InquiryUnderWay`, `InitEnds` |

- `HandshakeNeverStalls`: a running host in INITIALIZING always has a command of the
  initialisation, or a completion, under way. It holds because the handlers send
  without looking at the credits: with a check in `bt_dev_flush_hci` (its mutant) a
  controller that reports 0 stops the initialisation for good.
- `HandshakesConserved`: each start adds one command of the initialisation, or its
  completion, to the line, and nothing multiplies them, although a new host goes on with the
  handshake of its predecessor besides its own. (A handler that tries again on a bare
  report of credits, its mutant, does multiply them.)
- `ReadyMeansConfigured`: READY or INQUIRY implies that all four commands were carried out,
  also when stale completions drive a new host's initialisation.
- `NoCreditStarvation`: with no credit there is a report to come. That the host keeps to the credits
  is not claimed: handlers send without any, `ncmds` wraps to 255, and the loop goes on sending.
- `InitTerminates`, `CreditRefreshed`: with fairness, INITIALIZING ends, by whatever event, and a host without
  credits gets some, unless there is no line.
- `AclTracksLink`: a connected entry names a link the controller has, with that
  device, or the event that ends it is on its way.
- `HandlesUnique`: one connected entry per handle, although handles are used again.
- `ConnectionsKept`: as long as the link of an entry lasts, no step of a running host releases or
  overwrites the entry, or changes the device it points to. (A handler that takes a failed disconnection
  for an end, its mutant, gives up a link that is there.)
- `ImplementsConnTable`: the table, with the addresses its entries point to, behaves
  as `ConnTable`: opened on an unused handle while there is room, unchanged until closed.
- `ConfigInv`, `ConnInv`: inductive invariants of section 5. `ConnInv` has `AclTracksLink` and
  `HandlesUnique` in it, here with restarts.
- `ListInv`: the list is a chain of `num` distinct cells that ends, and every allocated cell
  is in it or the client's. `ImplementsBag`: insertion and removal do to the list what they
  do to a sequence, when the client keeps its rule of insertion. `end` is a hint: after `bt_list_get_search` it may name a cell that is
  gone, or one allocated again elsewhere, so `bt_list_get_end` takes no cell or not the
  last, but never breaks the list.
- `FramingInv`, `ImplementsPacketLine`: events are handed over once, whole and in order,
  as long as no data packet holds a byte 4 and no flush cuts an event before one.
  `EventsGetThrough`: a sent packet is read to its end, and a round that has begun ends.
- `SignallingInv`: the parser makes of a packed command what it says, up to 65531
  parameters, and of what answers an echo request an echo response with its identifier. (The answer goes out behind the headers of
  the request, which announce the request's length; nothing is claimed of that framing.)
  `FitsMeansFramed`: the 8 bits of `bt_hci_pack_acl` are wrong only for packets that do
  not fit the buffer.
- `PastInitMeansConfigured`: with its line open, the mouse inquires only when the controller
  has carried out its script, also if the answers were to a predecessor. `InquiryUnderWay`:
  it waits for the end of an inquiry only while there is one, a command for one or its
  end on the way, unless it was refused. `InitEnds`: every answer, also a wrong one or one
  that was meant for the attempt before, and a lost line end the initialisation or the attempt.

Bounds. Two handles and two devices are what a reused or confused handle needs, one
or two ACL entries let the table fill, two peer entries let one be wiped while
another is in use. Credits of 0 and 1 meet every test of `ncmds > 0` and the wrap from 0
to 255. `MaxEvents` limits packets in flight only for events that come by
themselves: answers are never held back. Two starts give a host stale completions,
events and links. `MaxRemote` 2, in `client`, lets a device call and leave, or a key be asked
for during a call; `TestApp` takes no calls, and one is a call while it inquires, or while a
new host initialises. The devices are
symmetric in `client*`; handles are not, because of `FailHandle`. No temporal property of liveness is checked with symmetry.

Four cells give a list with a first, a last and two in between, of which one can be
freed, allocated again and put elsewhere while `end` still names it. The line's bytes are
those that matter: the type of an event, another type, a length. Its buffer is as small
as its packets, so that a round which does not begin at its start runs over. The
L2CAP lengths are all the thresholds of the parser and both sides of 8 and 16 bits. In
`line` the framing, L2CAP and the list run beside each other, each in behaviours of its own: the code has no call
from one to another. Two starts of the older programs leave answers, an inquiry and links to the
second, or a reset to the second attempt. `older_programs` may stop (the mouse exits); the list
and the line always go on, and there the deadlock check is on. Fairness: in `line` that the loop calls
`bt_dev_read_hci` again; in
`older_programs` that the program reads and the controller answers commands.

Seven runs show where code and repository disagree (`findings` in `PROJECT.json`):

- `found_peers`, `FoundPeersReported`: a peer an inquiry found is not marked, and the callback is told of nobody.
- `inquiry_failure`, `InquiryTracked`: the state a callback sets is overwritten.
- `unknown_link`, `NoNullAcl`: the end of a link without an ACL entry.
- `serial_failure`, `SerialFailureAborts`: the stack does not abort without a line, whether it was lost or
  never opened.
- `misaddressed_answer`, `AnswersNameDevices`: calls answered at the wrong address.
- `l2cap_data`, `DataReachParser`: `test.c:25` compares a handle with a field that has the flags in it, so
  data that start an L2CAP packet are not handed to the parser.
- `avr_start`, `SuccessGoesOn`: `stack-avr.c:130` awaits the completion of `write_scan_enable`
  after `write_auth_enable`, so every attempt is given up on a success.

## 5. The proofs

Every invariant, action property and refinement that a passing run checks is also a theorem, for all
values of the constants; in section 4 they hold for those of a configuration.

**Assumptions.** The `ASSUME`s of the modules alone: the special addresses and `NoHandle` are no
device's and no link's, tables are not empty, credits fit a byte, an L2CAP length 16 bits and a
handle 12; events fit `dev->buf` (`FramingAssumption`); the memory of the list is finite and
NULL is no cell of it (`CellAssumption`). Nothing is assumed of the number of devices, handles, entries,
packets, starts or attempts.

### The stack (`BtStack_proofs`, `BtProgress_proofs`, `BtConn_proofs`)

- `TypeCorrect`: `Spec => []TypeOK`. `TypeOK` is inductive as it stands. Its substance
  is that credits wrap within a byte, that a suffix of the queues is a queue, and
  that what the controller hands out is what the handlers store.
- `ConfigInvHolds`: `Spec => []ConfigInv`. `ReadyMeansConfigured` alone is not inductive: a
  completion of `write_scan_enable` in the queue makes the host READY. `ConfigInv` adds
  that a command of the initialisation is in the queue only after those before it
  were carried out (`CommandsInOrder`), that a successful completion was preceded by
  its command and all before it (`CompletionsInOrder`), and that nobody is known in
  the tables before then (`TablesConfigured`): a connection event sets READY in
  every state (`bt_hci.c:316,408,415`), so an entry must not exist earlier. The lemmas
  go by the packets a step sends and reads: `HostSends` and `HostReads` say what
  the host may do to the queues, `NextConfig` gives the next command, and `Boot` keeps
  a suffix of the events, which keeps `CompletionsInOrder`.
- `ReadyOnlyWhenConfigured`: `Spec => []ReadyMeansConfigured`, from it.
- `HandshakeGoesOn`: `Spec => []HandshakeNeverStalls`. With `TypeOK` it is inductive. The
  host puts a command of the initialisation in the queue when it enters INITIALIZING and
  each time it reads a completion there (`HostHandshake`); the controller answers it
  with its completion behind all other events (`CommandReported`, `ReportedBehind`);
  everything else leaves both where they are. A new host is in RESET, so it does
  not depend on what its predecessor left.
- `HandshakesDoNotMultiply`: `Spec => []HandshakesConserved`. A start raises `boots` before the new
  host has sent anything, so a host in RESET has its own handshake still to add
  (`OwnHandshakeToCome`), and only a start sets RESET; with that
  `HandshakeCountInv` is inductive. The two cardinalities are carried over a read, a send and a dropped
  prefix by shifting places in the queues.
- `CreditsComeBack`: `Spec => []NoCreditStarvation`. By itself this is not inductive: the
  host may read a report of 0 that is the last in the queue. `ZeroFollowed` rules that
  out unless the controller owes another, and `CreditInv` is the two with `TypeOK`.
  A restart drops a prefix of the events, which keeps `ZeroFollowed` (`BootCreditInv`).
- `ConnInvHolds`: `Spec => []ConnInv`, of which `EntriesFollowLinks` (`AclTracksLink`) and
  `OneEntryPerHandle` (`HandlesUnique`) are parts. Alone neither is inductive: the host might read the
  opening of a handle that an entry still has, or of one whose link is long gone. `ConnInv` adds that
  on the line the openings and ends of a handle alternate, beginning with an end if an
  entry has it, and that the last opening is that of the link the controller has, unless an end
  follows (`OpensAndEndsAlternate`); and that no handle is `NoHandle` (`HandlesGivenOut`), which a failed
  completion carries. The host keeps it because it opens an entry only on a successful completion,
  releases every entry when it reads the end of its handle, and never wipes a
  peer entry that is not EMPTY (`HostKeepsPeers`, `HostAcls`); the controller because it gives out only a handle
  without a link (`LinkUpConnInv`) and reports each end (`LinkDownConnInv`). After a restart the
  tables are empty and the events left are a suffix of those before (`BootConnInv`).
- `TableImplemented`: `Spec => ImplementsConnTable`. Under `ConnInv` each step of the stack is one of
  `ConnTable` or leaves `Conns` alone (`StepOfTable`): an opening finds an entry that is not CONNECTED, so
  there is room (`RoomInTable`), and a handle not in use (`OpensConnection`); an end removes just
  its handle (`ClosesConnection`); a connection's peer entry keeps its address.

- `LastingConnectionsKept`: `Spec => ConnectionsKept`, a property of steps. `ConnTable` lets a connection
  close at any time; this says that it does not while the link lasts (`LinkLasts`). Needed is
  that the last news of a handle with a link is never an end (`LinksOutliveEnds`), which with `ConnInv` is
  inductive (`KeptInv`): an end the host reads of a handle with a link has the opening of that link behind it.

### The line (`HciFraming_proofs`)

- `HostStaysInStep`: `FramingSpec => []FramingInv`, for every set of events and data packets. That the host
  is in step (`InStep`) is not inductive alone, for the next packet may be a data packet with a
  byte 4: `NoneMisleads` has every such packet set `ambiguous` when it is sent, and the last
  part of `FramingInv` says that a line that is gone has nothing on it. One lemma for each way a read may end: in
  a byte that is no event's type (`NotAnEventInv`), in the first or a further part of an event
  (`EventBeginsInv`, `EventGoesOnInv`), in failure; and one each for what is sent and for a restart, which
  leaves a suffix of the packets and perhaps a cut one (`SkipInv`, `StartInv`).
- `HandlersSeePackets`: `FramingSpec => ImplementsPacketLine`. A packet counts as delivered when the round that
  read it is over, or, of a data packet, when its first byte was read (`PassesOver`, `HandsOver`).

### The list (`BtList_proofs`)

- `ListHolds`: `ListSpec => []ListInv`, for a client that keeps its rule. `ListInv` is inductive. A list is given
  by a sequence; each insertion or removal has a lemma that says which sequence the new
  list is, and that the walk `From(list)`, the cells every closed set with
  the first one holds, is the range of that sequence. Ownership then follows from what
  each operation does to `heap` and `held`.
- `BagImplemented`: `ListSpec => ImplementsBag`. The mapping chooses a sequence whose chain the list is;
  `ChainUnique` shows that there is one only, by the least place in which two would differ, so that it
  is the sequence the lemmas of `ListHolds` give (`OrderIs`). What is left is that `Appended`, `Prepended` and
  `Without` are the bag's `Append`, concatenation and `RemoveAt`.

### L2CAP (`L2cap_proofs`)

- `Signalling`, `DataFraming`: `L2capSpec` keeps `SignallingInv` and `FitsMeansFramed`, for every
  length, size and handle (the run has those at the boundaries). There is nothing to strengthen: every packet is built
  in one step. The work is in the lemmas of `L2cap_proofs`, which write a command
  (`CommandBytes`), an ACL header (`AclBytes`), a packet of data (`DataPacketBytes`) and an echo
  request (`RequestBytes`) out byte by byte, and say where in its answer the command lies (`CommandBehind`, `EchoAnswered`); `CommandReadBack` is the parser
  after the packer, and `TwoBytes` the arithmetic of 16 bits.

### The older programs (`OlderPrograms_proofs`)

- `ConfiguredPastInit`, `InquiryIsHeld`: `OlderSpec` keeps `PastInitMeansConfigured` and
  `InquiryUnderWay`, both from `OlderInv`, which is inductive. It has a third part, `AvrNeverStarts`: with its
  wait at `stack-avr.c:130` the AVR program does not get past its start-up. What
  makes them inductive is stated with them: a completion on the line tells what the controller did
  (`AnswersHold`), so that it does not matter to whom it was an answer; and on the AVR's line is
  neither `write_scan_enable` nor its completion (`AvrWaitsForNothing`). None of it depends on the order of the
  queues, so the proof turns them into the sets of what is on them (`Pending`, `OnLine`; `InvInSets` and its
  converse), and each step is described by what it adds to the sets and takes away.

### Only model-checked

The four liveness properties, `InitTerminates`, `CreditRefreshed`, `EventsGetThrough` and
`InitEnds`: temporal properties under fairness, which need ENABLED, are out of the prover's reach.
`HandshakeGoesOn` and `CreditsComeBack` say for every instance that a packet to read is there or owed; that
it is read is what the first two add. The seven properties of the `violation` runs are false of the code.
Induction over the length of a list or a queue is not available in general (the theorems for it take
an operator); where a proof needs it, it takes a least counterexample of a set of numbers
(`LeastNumber` in `BtList_proofs`, `FirstFinds` in `BtConn_proofs`), from the well-foundedness of `<`.

## 6. Not modelled

- What a `READ_FEATURES` event stores (the packet types of a peer): no code sends the
  command, and the event is one without effect (`OnOther`).
- Events whose length is wrong for their code, counts in them, and what lies in the
  buffer then; an event too long for the buffer.
- What the host does once it takes a byte of a data packet for an event: from there on
  `HciFraming` only checks types, and nothing in the repository says what should happen.
- A write that fails in the middle of a packet (no caller looks), `bt_serial_close`
  (never called), what a write through NULL does on an AVR, voice links beyond their
  set-up and end.
- `bt_l2cap_unpack_conf_option` and `bt_l2cap_ch_t`: used nowhere.
- The main loop of `stack-avr.c` and what it calls: it is not reached (run `avr_start`; the
  lemma `AvrIsStuck` says so for every instance) and
  uses `handle`, `sensor_data` and `avr_handle_l2cap`, which are declared nowhere. The change
  of the line's speed after `set_baudrate`.
- `libavr`'s UART, whose source is not here. The debug output.

## 7. Plan

1. Done: transport, device, loop, controller, composition, abstract connection table; the
   framing, L2CAP, the list and the older programs.
2. Done: theorems for all invariants the runs check, the action property and the three
   refinements.
3. Next: further properties of steps, such as what a handshake may do to one that is under way; what
   the hazards without a property would need.
