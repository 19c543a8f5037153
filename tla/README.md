# A verification project for the RDMA file-transfer prototype

The repository is a work-in-progress prototype of file service over RDMA. Clients
push, pull and read files over unreliable-connected (UC) queue pairs, directly or
through a proxy; a programmable switch can rewrite the file server's writes to the
proxy into writes to the client. The only prose in the repository is a README of
three lines, so everything below is read from the code.

Contents: [the system](#1-the-system), [the modules and the code](#2-the-modules-and-the-code),
[what is checked](#3-what-is-checked), [fairness](#4-fairness), [what is proved](#5-what-is-proved),
[what the checks found](#6-what-the-checks-found), [what is left out](#7-what-is-left-out),
[the plan](#8-the-plan).

To repeat the checks: `tlc -config <run>.cfg <MC module>` for each run of
`PROJECT.json`, `tlapm <module>.tla` for each `*_proofs` module.

## 1. The system

The code that runs is `src/temp/*.py`, `src/temp/modify-header.p4` with
`src/temp/header.p4`, and `src/create_connection/utils/connection.py`. The
packages `src.common.*` and `p4runtime_lib` that it imports are not part of the
repository; they are modelled from how they are called and marked external.

| Component | State it keeps | Operations |
|---|---|---|
| RDMA primitives (`socket_node.py` 1-150, 533-560, `config.py`) | three memory regions `msg_mr`, `recv_mr`, `file_mr`; send, receive and completion queues; the peer's key | `post_recv`, `post_send`, `post_write`, `post_read`, `poll_cq`, `qp2rtr`/`qp2rts`, `close` |
| Push (`client.py` `push_file`, `socket_node.py` `c_push_file`, `s_save_file`, `server.py` PUSH) | `file_attr` (name, descriptor, stream, done) on both sides | BEGIN, name, READY/chunk, empty write, DONE |
| Pull (`pull_file`, `c_pull_file`, `s_push_file`, PULL) | the same, roles swapped | BEGIN, name, chunk/READY, empty write, DONE |
| Proxied read, control plane (`new_pull_file`, `c_init_send`, `proxy-switch.py` and its draft `proxy.py`, `p_receive_client`, `send_for_meta`, `send_for_file`, `p_return_write`, `s_receive_meta_send`, `s_receive_file_send`) | the request, `file_stream_pool`, three queue pairs | request, metadata round, chunk/NEXT, relay of the pool |
| Data plane, rules (`proxy-server1.py`, `modify-header.p4`) | the global `threading_index`; tables `record_port`, `ipv4_lpm`, `rdma_translate`; register `switch_src_port` | one handler thread per session installs three rules; the switch redirects and rewrites |
| Data plane, relay (`p_receive_send`, `p_trans_write`) | the request, `file_stream_pool`, chunks that reach the client past the proxy | BEGIN through the switch, request passed on; on the control plane the chunks, which are kept and not returned |
| Read without a proxy (`server.py` SEND_FILE, `c_init_send` against `s_receive_file_send`) | `file_attr` | request, chunk, empty write |
| Session set-up (`SocketClient`, the TCP loops of the five handlers) | the connection, the node of the session, the connections to the servers | BEGIN, READY, attributes, command, DONE, the `except` branch |
| Connection library (`connection.py`) | a socket or an RDMA connection; between calls only how many rounds have been made | `SKT.handshake`, `CM.handshake` |
| Demonstration (`SocketClient.request`) | two strings | set-up without a command, write, read back |
| Drafts and scripts | | see `PROJECT.json` |

How they interact. A client talks TCP to a server or proxy to set up a session:
BEGIN, READY, then the attributes of both queue pairs, after which both are in RTS
and a command (PUSH, PULL, SEND_FILE, DONE) selects a method. That method then runs
over RDMA alone: a SEND fills the region that the oldest posted receive names, a write
with immediate fills the peer's `file_mr` and consumes a posted receive for its
completion. A handler is one Python thread per TCP connection; its method busy-polls
the completion queue. Threads share only `threading_index` and, through it and through
the queue-pair numbers, the tables of the switch.

What is hard about it:

- *Races with the adapter.* A region is read after its receive is reposted
  (`s_save_file` 212), a region is written again without its send having been
  polled (186), a receive is posted after the message that provokes its answer (248/252,
  677/680, 722/724, 445/456), and a node is closed behind a send that may still be queued
  (687, 615).
- *Old bytes in a region.* A push and a pull read as many bytes as the message says were written. The reads do not: `c_init_send` (261), `send_for_file` (392) and
  `p_trans_write` (461) read FILE_SIZE bytes whatever the write was long, so that behind a last chunk that is shorter they find the end of the chunk before it.
- *UC.* Nothing is retransmitted, and a message that finds no receive is dropped
  silently. No method has a timeout.
- *One completion queue for sends and receives.* Where the code polls once "for the
  send" and once "for the receive" the two can come the other way round.
- *Concurrency of the handlers.* `threading_index=threading_index+1` and the later
  reads of it interleave between threads.
- *TCP has no framing.* Handlers compare what one `recv` returns with a whole message, and `handshake`
  keeps two rounds apart with a sleep.
- *Every way out of a handler.* DONE, the `except` branch, an error before the node exists, a client that goes
  away between two messages: the node must be closed in each.
- *Reuse and exhaustion.* Queue-pair numbers are handed out again while rules are never
  deleted; the index into a register of 16 cells only grows; nobody counts what a queue of 4 work requests holds.

What makes each part correct:

- a transfer saves the chunks of the file, in order, none twice, skipped or torn,
  whatever is lost; it tells the sender it is done only when the copy is whole (of a read, read *blocks* for chunks: [what a read copies](#what-a-read-copies));
- no message lands in a region that is about to be read, no send is overwritten in a region
  before it leaves, every message finds its receive;
- a transfer ends, on both sides, when nothing is lost;
- a method runs on connected queue pairs only; a handler that ends leaves no open node, and one that is sent
  DONE ends; each command reaches a branch of its handler; whoever waits in the set-up notices that the other side has gone;
- a handshake is a barrier, and each round returns what the peer sent in that round;
- a packet that the switch redirects reaches the client of its own session or is
  refused (a BEGIN, which needs no key, may reach another, and then only one that has no rules), carries that session's source port, and keeps its payload;
- a chunk has one destination, the proxy or the client.

## 2. The modules and the code

| Module | What it models |
|---|---|
| `Verbs` | the calls of a `SocketNode`, and the UC service under them |
| `Channels` | how the invariants speak of a message for an end point, wherever `Verbs` keeps it |
| `Verbs_proofs` | what the verbs, the adapters and the network do to such a message |
| `FileTransfer` | the abstract promise of any transfer of one file |
| `PushFile` | push, both sides; refines `FileTransfer` |
| `PushInTurn` | push, with the order in which a completion queue returns what it holds: any, or in turn |
| `PushFile_proofs` | its inductive invariant and the proofs |
| `PullFile` | pull, both sides; refines `FileTransfer` |
| `PullFile_proofs` | its inductive invariant and the proofs |
| `ReadEnds` | the two ends of a read, `c_init_send` and `s_receive_file_send` |
| `ProxyHandler` | what the handlers of all proxies do alike between them |
| `ReadDirect` | read without a proxy: the two ends on one pair of queue pairs; refines `FileTransfer` but for one block |
| `ReadDirect_proofs` | its inductive invariant and the proofs |
| `ReadProxy` | proxied read of the control plane, the two ends with the proxy and the metadata server between them, six end points; refines `FileTransfer` |
| `ReadProxy_proofs` | its inductive invariant and the proofs |
| `SwitchedRead` | the read through `proxy-server1.py` and the switch, both planes, four end points |
| `SwitchedRead_proofs` | its inductive invariant and the proofs |
| `SwitchRules` | handler threads, tables, register and packets of the data plane, with the invariant |
| `SwitchRules_proofs` | its proof and what follows from it |
| `Session` | the TCP side: opener and handler of a session, with a proxy's sessions to its servers |
| `Handshake` | the rounds of the connection library, over TCP and over an RDMA connection |
| `Connection_proofs` | the inductive invariants of `Session` and of `Handshake`, and the proofs |
| `MCPushFile`, `MCPullFile`, `MCReadDirect`, `MCReadProxy`, `MCSwitchedRead`, `MCSwitchRules`, `MCSession`, `MCHandshake` | constants and symmetry for TLC |

`PROJECT.json` ("map") gives the source lines of every definition.

**Verbs.** The variables are per end point: `sq`, `rq` (work requests), `scq`, `rcq`
(completions), `mem` (regions), `wire` (messages towards it), `up` (the queue pair exists).
`PostRecv`, `PostSend`, `PostWrite`, `PollRecv`, `CloseNode` are conjuncts, so that an action of
a protocol reads like the calls of its method; `Moves`, `AwaitRecv` and `Welcome` are the turns that the methods share. `Execute`, `Deliver`, `Drop`, `Lose`
are the adapter and the network: `Execute` reads the region *when the send is transmitted*, not
when it is posted; `Drop` is UC's silent drop of a message without a receive; `Lose` loses a
message, of a write possibly after some packets are already in `file_mr` ("torn").
`Transmit` is `Execute` with the destination and the message left open, for a switch that changes both. Choices:

- A payload is a record naming what the bytes are. Data is put at the beginning of a region, as the adapter and `mr.write` put it: a chunk of FILE_SIZE bytes
  fills `file_mr`, a shorter one leaves its end as it was (`Holding`). Two things are therefore told of `file_mr`: what it holds at its beginning (`mem[n]["file_mr"]`) and which chunk its
  end belongs to (`mem[n]["file_end"]`). `FileBlock` is what `file_mr.read(FILE_SIZE)` makes of them. An immediate value is 0 or 1, a length empty
  or not: the code tests nothing else.
- Completions of sends and of receives are two streams, and a poll returns the head of
  either: their relative order is not determined by anything the code does.
- Order between messages of one direction is kept, as a UC connection does; a packet of an
  older message is not delivered later.
- The queues have no limit in the model: a post always succeeds, where the real one raises when
  `max_send_wr` or `max_recv_wr` requests are outstanding. `QueuesFit` says that this does not happen. A place in the send queue is only
  given back when the completion of its send is polled, and no method counts them: they are met on the way, by a loop that waits for a receive. So
  `QueuesFit` depends on the order in which a completion queue returns what it holds, which the previous choice leaves open: if polls kept returning
  receives first, one completion would be left behind every chunk, and the fifth post would raise. `InTurn` is the order that a completion queue
  has, but that the completion of a send may come after the answer to that send: a poll that returns a receive leaves at most one send's completion behind.
  `PushInTurn` has both kinds of queue: `inTurn`, chosen at the start, says whether `InTurn` holds of every step.
  Everything but `QueuesFit` is checked and proved without it.

**The transfer modules.** `pcC`, `pcS` (and `pcP`, `pcM`, `pcF` in the reads) name the place
in a method where it waits, or where the adapter can act between two statements. So the poll of a
message, the repost of its receive and the read of its region are one action exactly where nothing
could come between that matters, and several where the code leaves a window. Each
starts from the result of the session set-up: queue pairs in RTS, command sent.
A definition preceded by "Altered form" is not part of the specification: it is the bug
that a property is tested against.

**The file that is not there.** `canOpen` (push, pull, reads) is whether `open` succeeds. A server that fails sends FILE_ERR_MSG, which
only the pulling client knows; a client that fails sends the text of the exception, which nobody knows.

**ReadEnds** chooses five things at the start and keeps them: `canOpen`; `size`, the length of the file, 0
included; `pause`, which is `config.is_pause_time`; and `signals`, which client is run. With the
pause the code calls `time.sleep` in a module that does not import `time`, and the handler
closes the node after the first chunk: what has arrived by then is in order, and the read never
completes. (Importing `time` would not be enough: pausing *instead of* waiting for NEXT lets a chunk
overwrite `file_mr` before the previous one has left, which is the altered form `FileWriteOn`.)
`short`, whether the last chunk has less than FILE_SIZE bytes, is a fifth choice: `Piece(i)` is the chunk as the file server writes it, `Block(i)` what
a reader of the whole region makes of it. `signals` is FALSE for the client as it is; TRUE restores the `FILE_NEXT` that is commented
out at `socket_node.py:275`, where it stands: before the `post_recv` of 276, so that the next chunk can come between the two (`ClientSave`, `ClientRepost`). That client is hypothetical: it separates the omission from the rest
of the transfer, whose handling of several chunks nothing else would reach.

**ReadDirect** and **ReadProxy** compose these ends with what lies between, and with the two branches of `server.py`: SEND_FILE keeps
the node until the client's DONE, SEND_FILE_OP closes it as soon as the method has returned. In the direct read the client
sees the empty write that marks the end, which the proxy keeps to itself. It leaves `file_mr` as it is, and the client
saves the region at every write: the copy is the blocks of the file with the last one repeated (`OneBlockMore`).

<a id="what-a-read-copies"></a>**What a read copies.** It consists of *blocks* of FILE_SIZE bytes, one for each chunk the file server writes. If the length of the
file is no multiple of FILE_SIZE, the last block is the last chunk followed by the end of the chunk before it, or, if it is the only one, by what the region held when it was
made. The proxy keeps such a block as it finds it (392, 461) and writes it to the client at full length (500), where it fills the region again. The copy is
then longer than the file. So the reads implement `FileTransfer` of `Blocks`, not of the chunks of the file; the two are the same for a file whose length is a multiple of FILE_SIZE.
A push and a pull implement it of the chunks. What `RelayedWhole`, `OneBlockMore` and `OneDestination` say of content, they say of these blocks, whose old bytes they name
(`Padded`): that those are the bytes of the chunk before, and not of some other message, is part of what is checked and proved.

**ProxyHandler** has the steps that `p_receive_client` shares with `p_receive_send`, and `send_for_file` with
`p_trans_write`; **ReadProxy** and **SwitchedRead** put their own around them.

**SwitchedRead** chooses four things more: `control`, which is `config.is_control_plane`; `shortBegin`, whether BEGIN is too
short to be taken for a RETH (its text is in `src.common.msg`, which the repository lacks); `lowBuffer`, whether the client's
`file_mr` lies in the first 4 GiB; and `last`, the shape of the last chunk (one that is not of long packets only is shorter than FILE_SIZE). The switch works on packets; the module states what
it makes of a message. `modify-header.p4` redirects the opcodes WRITE_FIRST, WRITE_MIDDLE and WRITE_LAST of `header.p4`, which only a write of several
packets has, so a write of one packet, such as the empty one that ends a file, goes to the proxy. It writes address and key
into every packet long enough to be taken for one with a RETH: into the text of BEGIN, into the content of a middle
packet, and in the last packet, which carries the immediate, over that value, so that the client reads the high half of
its own address as `imm_data`. Three things are taken from outside the source: the session's packets find its own three rules
(what `SwitchRules` proves of `Isolation` and `RulesOwn`), the adapters take packets whose content was changed,
and the client's adapter, which has its own sequence of packets from the proxy, takes a first packet as the start of a message.

**SwitchRules** models the data plane with `proxy-server1.py`, whose rules fit
`modify-header.p4`. (`proxy-switch.py` writes its `ipv4_lpm` rule with the key `dst_addr`, while
the P4 program matches on the source address: its data-plane branch has no switch program here,
which is why it is only modelled in control-plane mode.) A table is a function from
the queue-pair number in its key, because in the code all clients share one IP address, and so
do proxy and server. `WriteTableEntry` inserts and raises for a key that exists (external:
that is what a P4Runtime INSERT does). The number of the client's queue pair is free once the
client closes; the number of the upstream pair once the handler ends. Remote keys are unique.
A client's queue pair is open from the moment it has the session's attributes (188), before the rules of its session are written.
An open queue pair accepts a SEND by its number alone, and a packet of a write by number and key (`Accepts`). Whether BEGIN is long enough to be parsed as having a RETH is left open here too. A packet is recorded
as it leaves the switch (`packet`), with the session it belongs to; what happens to its content is the subject of `SwitchedRead`.

**Session** is what the transfer modules start from and return to. A connection is named by its opener: the client, or
a proxy's handler towards its first (`up1`) and second (`up2`) server. The client connects to one of four programs (`program`):
`server.py`, `proxy-switch.py`, its draft `proxy.py` (both with the metadata server of `no-proxy-server1.py`
and the file server of `server.py`), or `proxy-server1.py` (one server, `server.py`), on either plane (`is_control_plane`). On the data plane the
proxies write rules while they answer the attributes: the insertion may be refused, and `proxy.py` calls names it does not
define, so there it always raises. Each end is a record of its place and the state of its queue pair. A method is a
rendezvous: the handler's BEGIN, the opener's answer (`rdma`), the return of each side; `cmd` "NONE" is
`SocketClient.request`, which uses the connected queue pair without a command. The modules of
the transfers say when a method returns; here it does, or raises. `Init` pairs each program with the commands its handler has a branch for:
no client of the repository names another. One `recv` returns any non-empty
prefix of what is unread (`Received`), so two messages run together are "mixed", which no branch of a handler knows.
Nothing in the code closes a proxy's connections to its servers; they go when the interpreter releases the handler
object (`Released`, external, and not fair).

**Handshake** represents a byte by the round it was sent in, and lengths in units of the length of the word. Four choices are
made at the start of a behaviour and kept: the transport; `whole`, whether TCP delivers one `send` in one piece;
`timely`, whether each end reads a message within the half second for which the sender sleeps; and `infoLen`, the length of the strings of
each end, which depends on the numbers in them. The properties name the choices under which they hold. The class `CM` neither sleeps nor
needs to, for its messages are units.

## 3. What is checked

Deadlock checking is off in every configuration because every protocol ends, and because a lost
message leaves both sides polling for ever, which is what the code does.

| Run | Instance | Shows |
|---|---|---|
| `push` | 4 chunks or no file, 2 losses | `SavedIsPrefix`; `ReceivesPosted`; `BufferStable`; `SendBuffersHeld`; refinement of `FileTransfer`; `PushOutcome`, where a push ends; `QueuesFitInTurn`: when completion queues return what they hold in turn (half of the behaviours, `inTurn`), no queue is asked to hold more than it was made for |
| `pull` | 4 chunks or no file, 2 losses | `DropsOnlyAtStart`: a message can find no receive in the two opening windows and nowhere else; `BuffersSafe`: no region changes under its reader or under a queued send; refinement; `PullOutcome`: where both sides end when none of the races it names is lost |
| `read` | 0 to 3 chunks or no file, 1 loss, with and without the pause, both clients | on all six end points `DropsOnlyAtClient` (a message finds no receive in the client's opening window, or between the NEXT of the restored client and its receive, and nowhere else) and `BuffersSafe`; `RelayedWhole`: nothing reaches the client before the proxy has all the blocks; refinement for the file's blocks, a short last one included; `ReadOutcome`: each of the places a read ends at, the ones where it waits for ever included |
| `read_direct` | the same | `OneBlockMore`: a finished copy has one block more than the file, which is the last one again; refinement but for that block, for the file's blocks; `ReadOutcome` |
| `read_stalls` | 2 chunks, the client as it is | *violated*: the signal the proxy waits for never comes |
| `read_switched` | 0 to 3 chunks or no file, 1 loss, both planes, each shape of the last chunk, of BEGIN and of the buffer | `OneDestination`: no chunk reaches both the proxy and the client, what the proxy keeps is a beginning of the file's blocks, and in the data plane the client never saves a second block; `ReadOutcome` |
| `switched_torn` | 2 chunks, no loss | *violated*: the block that the client saves is one of the file |
| `rules_threads` | 3 sessions, 3 at once, 2 numbers on each side, 2 cells | `Isolation`: no packet of a chunk is accepted by another session's client, and a late BEGIN only by one whose first rule is still to be refused or has been; `RulesOwn`, `FailsBeforeRedirect`; `PortKept`: a session that has a cell to itself keeps its port; the invariant of the proof, types included |
| `rules_race` | 2 sessions at once, 2 cells | *violated*: a redirected packet carries another session's port, or none |
| `session` | the four programs on both planes, one client, processes that stop, methods that raise, refused connections and rules | `OneUnread`: no two messages are unread in one direction, which is what the missing framing relies on; `NodeLifetime`: methods run on connected queue pairs, none is used after its close, and no handler ends with its node open; `SessionEnds`, `AbandonedSetupEnds`, `CommandTaken`; `GoneUnnoticed`: a handler between two commands never notices that its opener has gone |
| `handshake` | 5 rounds (word, info, word, info, word), lengths 2 to 4, 1 reserved, both transports | `Barrier`, with and without the sleep; `Exact` and `AllRounds` when the sleep does its work |
| `handshake_cm` | the same, the RDMA transport | *violated*: a message within the reserve does not fit the posted receive |

Why the bounds are enough. A transfer treats all chunks alike but the first (it answers the name)
and the last (it is followed by the end): three have one of each kind and one between two
others, four two in the middle. One loss reaches every loss of a transfer in lock-step, since the side that waits for the lost message sends
nothing more; push and pull allow a second all the same (the DONE of a push is sent twice). The proofs
have no bound on either. What a read does with a chunk depends on whether there is one, whether it is the last and whether one follows: 0 to 3. What lies behind a short last chunk depends on whether there is one before it: 1 and 2.
Three sessions over two numbers are the least in which a number is handed out again while another
session is open, and in which a session fails at the first rule while one with the same number and one with
another are live; two cells are one too few for them, so that an index beyond the register occurs. `MaxOpen` bounds how many handlers run at once and is part of the
workload, not of the code. Symmetry is used for the rules only, where every property is an
invariant and sessions and numbers are interchangeable.

The sessions of different clients share nothing on the TCP side (the rules are `SwitchRules`' subject), so one client is
enough for `Session`; its state space is finite without a bound. Five rounds have two of each kind, one of each between two of
the other, and lengths 2 to 4 with a reserve of 1 contain a difference of nothing, of exactly the reserve, and of
more than the reserve, each way.

Every property is paired in `PROJECT.json` with an altered form of the code that breaks it.

## 4. Fairness

`FairSpec` asks for weak fairness of each process, of each adapter's transmission, and of the
arrival of what is on the wire. The processes are operating-system threads or processes that
busy-poll (`while True: wc = poll_cq(...)`), so one that can go on does; none waits for a lock
another may hold for ever. Nothing is asked of `Lose`.
`TurnFairSpec` is `FairSpec` with both kinds of completion queue; where `InTurn` forbids a poll to return a receive, the same poll may return a send's completion, so
it keeps no process from going on. Liveness is only
claimed without loss, because the code has no timeout and no retry, and for pull and read only for
the behaviours in which the races of the source are not lost. Those are the conjuncts of the state predicate
`InTime` of each module (`SwitchInTime` in `SwitchedRead`), each the condition of one line of the code, and behaviours that meet it exist (the
altered forms break the properties, so they are not vacuous).
The outcome properties say where a transfer *stays*, so that one that waits for ever is stated and not left out.
`Session` asks it of each client, each handler and each opener of a proxy, hence also of the methods they are in, but only of those that
can return: `Served` names the programs and planes on which anybody writes the file to the client (`proxy-server1.py` does not call
`p_return_write`, and there is no switch program for the rules of `proxy-switch.py`), `Relayed` those on which the proxy itself gets what it asked for. The
properties without faults therefore read "if the methods return". That is a premise, which the outcome
properties of the transfers qualify: behind a proxy it holds for one chunk on the control plane, and on the data plane for a buffer in low memory. `Handshake` asks it of each end. Crashes,
refusals, exceptions and the release of an object are never fair.
In short: a pull *can* hang in this code even on a perfect network, and the properties say exactly
when it cannot.

## 5. What is proved

Checked with TLAPS for every value of the constants. Each inductive invariant was checked by TLC, on the instances of
section 3, before it was proved; it stands at the top of its `*_proofs` module.

**The push** (`PushFile_proofs`, from `VerbsAssumption` and `PushAssumption`: `NumChunks` and `MaxLoss`
are naturals, the two nodes are peers). `SavedIsPrefix` is not inductive: that the saved chunk is the next one
depends on what is in `file_mr`, hence on what was on the wire, hence on which READY the client
was answering. The invariant `IInv` follows the message:

- `Token`: until the server has seen the end of the file, at most one message exists anywhere, in a
  send queue, on a wire, as an unpolled completion or in a process's hands;
- `ClientMessages`, `ServerMessages`: what that message can be, wherever it is, given how
  far the two sides are: the name before anything is saved, chunk `pos` when
  `pos = Len(dst) + 1`, an empty write only when everything is saved, READY only when
  `Len(dst) = pos`;
- `Progress`, `Regions`: how far the sides are, and which regions receives name.

One lemma shows that it holds initially, lemmas per action that each action preserves it, and `Invariance`
combines them. From it: `TypeCorrect`, `SavedCorrect` (`SavedIsPrefix`), `BuffersCorrect`
(`BufferStable`: while a process holds a message there is no other that could
overwrite it) and `Implements` (every step is a `Save`, an `Acknowledge` or a stutter of `FileTransfer`).

For the other two properties the invariant counts. `ReceivesCorrect` (`ReceivesPosted`) needs `ReceiveInv`: how many receives each side has
posted for where it is, against how many messages are on their way to it (`Transit`). The count alone is not inductive at the end of a push,
where the server sends two texts and the client may send the text of an exception at any moment: `ErrorLast`, `EndsLater` and
`LastTexts` say which message can still come there. `SendBuffersCorrect` (`SendBuffersHeld`) is an action property: the step that writes a
region is one at which the token is in hand, so the send queue of that region is empty.

**One message at a time** (`Channels`, `Verbs_proofs`). The other transfers are lock-step in the same sense, each between its own
pairs of end points, and their invariants are written with the same two words: `Idle(n)`, nothing is on its way to n, and `InFlight(n, r, l)`,
the message l is, and is the only thing: queued by the peer (its content is then that of the region it names), on the wire, or received and not
polled (its content is in the region it filled). `Verbs_proofs` shows once what each of `Execute`, `Deliver`, `Drop`, `Lose` and each call makes of
the two, for any number of end points; the proofs of the protocols cite it and never look into a queue. `EndsHeld` and `EndKept` speak of the end of `file_mr`, for the reads: a region that begins with a whole chunk ends with it, and of a file whose last chunk is short, the end at a
receiver is that of the last chunk it has kept or of one after it, and never that of the short one. `Coming(n, l)` is `InFlight` whatever the region: enough where no property counts receives.

**The pull** (`PullFile_proofs`, from `VerbsAssumption` and `PullAssumption`). `IInv` has `OneMessage` (which message, and in which of the two
directions), `InHand` (what a process holds while it has none), `Progress` and `Posted`. The last is needed for
`DropsCorrect`: that a message finds its receive everywhere but at the start depends on the place of *both* sides. `Implements` and `BuffersCorrect`
(an action property: no region changes between poll and read, or while a send from it is queued) follow from the same invariant.

**The relayed read** (`ReadProxy_proofs`, from `VerbsAssumption`, `ReadAssumption` and `EndsAssumption`), for any length of the file and any loss, both
clients, with and without pause, file and exception. Three pairs of end points share one process, the proxy, so `IInv` is a conjunct for each
(`ClientPair`, `MetaPair`, `FilePair`): which message can be between the two, how many receives are posted, and the places of the two
processes. A step of the proxy touches one pair and must leave the other two what they say of `pcP`; a step of the adapters touches one direction.
What links them is `Returning` (the pool is whole before the first chunk goes back: `RelayedCorrect`), `Looking` (the file server is asked only when the
metadata server has answered) and `Fetching` (the pool is a beginning of the file's blocks). `Ended` is what the padding of a short last
chunk needs: it is kept when all others have been, so the end that `EndKept` leaves is that of the chunk before it. From `IInv`: `TypeCorrect`, `DropsCorrect`, `RelayedCorrect`, `BuffersCorrect` for all six end
points, and `Implements`.

**The direct read** (`ReadDirect_proofs`, from `VerbsAssumption`, `DirectAssumption` and `EndsAssumption`). The copy is not the file, and the
invariant says how: `Fresh`, between two writes the client's `file_mr` still begins with the chunk that it has saved last, `Ended`, it still ends as it did then, and `Saved`, the copy
is the blocks of the file, and one block more when it is done. From them `OneBlockCorrect`: the block too many is the last one again; and
`Implements`: without it, the read implements `FileTransfer`.

**The switched read** (`SwitchedRead_proofs`, from `VerbsAssumption`, `SwitchedAssumption` and `EndsAssumption`), for any length of the file, both
clients, both planes, every shape of BEGIN, of the last chunk and of the buffer's address, and any loss. `OneDestination` is about what the client and the proxy have saved, so `IInv` says which message
can be on its way to each of the four end points by the places of the processes (`Mail`, with one predicate for each: `ForClient`, `ForProxy`, `ForUp1`, `ForFile`); of the
receives it says nothing. `OneWay` is what lets the switch move a message from one pair of end points to the other: nothing is on its way to the
proxy's upstream node, or nothing to the client. `Asking`, `Sending` and `Saving` relate the processes: the file server has the request once the proxy
has asked, the pool is a beginning of the file's blocks, and in the data plane sending stops after the first chunk. The switch's step has three cases. A message that passes is an ordinary
step of the adapter; one from the proxy that is spoiled is still one its receiver may expect, since only the text differs; a chunk
that is redirected leaves one pair and arrives in the other, where nothing is on its way. These parts are `Flow`; `Ended`,
the other part of `IInv`, says how `file_mr` ends: at the proxy's node with the last whole chunk that came to it, at the client with nothing, since no whole chunk comes there. From `IInv` `TypeCorrect` and `OneDestinationCorrect`.

**The places in the queues** (`QueuesFitCorrect` of the five transfers, from the assumptions of each, and for the behaviours in which `InTurn` holds at every step: of the push, those with `inTurn`): no send
queue, receive queue or completion queue is ever asked to hold more than `config.py` makes it for, whatever the number of chunks and losses. The
receives are those of `IInv` and, for a push, of `ReceiveInv`; a switched read, whose `IInv` does not speak of them, has tables of its own (`ClientReceives`, `FileReceives`,
`ProxyReceives`). For the sends `IInv` gives `Answered`: when a receive
waits to be polled, its node has nothing left in its send queue, since the other side answers what has reached it. So a poll that returns a message leaves at most one
place taken, and every post until the next poll takes one more. The tables `ClientPlaces`, `ServerPlaces`, `FilePlaces`, `MetaPlaces` and `ProxyPlaces` say how many
that makes at each place of a method: three at most in a push, whose server sends DONE twice, two in the others. `Verbs_proofs` has what each call does to the
count. The premise is on the adapter, not on the code; TLC finds `QueuesFit` violated without it.

**The session** (`Connection_proofs`), from `SessionAssumption`: the programs are among the four. `SessionIInv` says of each connection
what is unread in it (`InTransit`: one message at most, in one direction, and a command only when the handler's queue pair is connected) and which places and
queue pairs of the two ends go with it (`OpenerFits`, `HandlerFits`); `Asked`, that only a client can come without a command and only a proxy with
SEND_FILE_OP, after which the node is closed. This is needed because neither end sees the other: that the attributes are the answer to READY, or a command the next thing a handler reads, is a fact about what both have sent so far.
From it: `SessionTypeCorrect`, `OneUnreadCorrect`, `NodeLifetimeCorrect` and, as an action property, `GoneUnnoticedCorrect`.

**The handshake** (`Connection_proofs`, from `HandshakeAssumption`: the script is not empty, lengths are positive), for every script and all lengths of
the two ends' strings. The properties hold under choices they name, and so do the parts of `IInv`: `InSequence` is for TCP in whole messages, `InOrder` adds
that each receive is in time, or that the transport is `CM`. In order, the stream to an end is exactly the messages of the rounds it has yet to read, at most two
(`Separate`), hence `ExactCorrect`. Otherwise rounds can run together, but a receive takes all that is left of the earliest of them, so
what is left is later and ascends (`Ascending`); that is enough for `BarrierCorrect`.

**The rules** (`SwitchRules_proofs`, from `SwitchAssumption`), for any number of sessions, numbers and cells. `Isolation` says
nothing about the tables, so it needs `RulesInv`. Of a packet of a chunk it says that its key keeps it from any other client; of a BEGIN, which has no key, that a session
whose client could take it has not got past its first rule. For the first: every entry names a session that has written it and still has the
numbers of the entry (`EntriesOwned`), a session has the rules it has gone past (`RulesWritten`), and a
packet only ever gets the key of its own session (`KeyOwn`). For the second: open clients have different numbers (`ClientsApart`), and a BEGIN carries the number of a session that has all its rules
(`BeginOwn`); so a client that takes another's BEGIN has a number that `record_port` has an entry for, by another session, and the rule of its own for that number is refused. The point of the argument is
that `record_port` and `rdma_translate` have the same key and are never cleared: a session that got its
first entry cannot be refused the third, so it never leaves a redirection without its translation.
`Isolated`, `OwnRules`, `CleanFailure` follow. The protection is therefore an accident of
the insertion order and of entries being permanent: a version that deletes rules would have to
delete `ipv4_lpm` before the other two.

`PortsKept` is what is true of the register. `PortOwn` fails (`rules_race`), because the counter is shared; but a session whose
two rules name one cell, inside the register, that no other rule names (`CellOwn`) has its port in every redirected packet. The
invariant `PortInv` adds to `RulesInv` that such a cell holds the session's port from BEGIN on. The steps: entries are never removed or changed
(`EntriesKept`), so a session that has a cell to itself after a step of others had it before (`CellOlder`); only the BEGIN of a session whose entry names the
cell writes it (`CellStep`); and a packet of a chunk only leaves for a session whose BEGIN has passed (`PacketStep`).

**Only model-checked**: the liveness properties (`PushOutcome`, `PullOutcome`, the three `ReadOutcome`, `AllRounds`, and `SessionEnds`, `AbandonedSetupEnds` and
`CommandTaken` of the session), since liveness under fairness and ENABLED are beyond the installed provers; and the properties that the code violates. Every other property
of a run has a theorem.

## 6. What the checks found

Each is in `PROJECT.json` ("findings") with the line it contradicts.

1. `read_stalls`: the client's `FILE_NEXT` is commented out (`socket_node.py:275`) while
   `p_return_write` waits for it (503-513): a relayed file of more than one chunk never arrives.
2. `rules_race`: the rules are written with the global `threading_index` as it is then
   (`proxy-server1.py:206`, `209`), so with two sessions a redirected packet carries a wrong source port.
3. `switched_torn`: egress rewrites every packet (`modify-header.p4:154`), while the pseudo-code it realises rewrites the first
   (`modify-header-nocrc.p4:113`), so an address and a key are written over the content of a middle packet and over the immediate value
   of the last: the block that the client saves is no block of the file.
4. `handshake_cm`: `CM.handshake` posts a receive of the length of its own message, although `connection.py:12` says that
   space is reserved because the lengths may differ; `SKT.handshake` does reserve it (112).

Seen while modelling, and not claimed as a violation because nothing in the repository says
otherwise; where a property states it, it is named:

- `threading_index` is never given back (`proxy-server1.py:158`), so the seventeenth session, even the
  seventeenth in turn, is beyond the register (`PortKept` excludes it by `CellOwn`);
- a read of a file whose length is no multiple of FILE_SIZE gives a copy that is longer than the file: its last block ends with old bytes of the region (261, 392, 461; see
  [what a read copies](#what-a-read-copies));
- a copy read without a proxy has one block too many (`OneBlockMore`);
- restoring the `FILE_NEXT` of 275 where it stands would open a new race: the receive for the chunk that it asks for is posted after it (276; `DropsOnlyAtClient`), while the proxy (399) and `c_pull_file` (689-691) do
  it in the safe order;
- the BEGIN of a handler that is late, sent to a number whose client has gone, is accepted by the next client that gets the number, which is connected before it has rules (188; `Isolation` bounds it);
- a file the client cannot open leaves the server polling for ever (168, 225; `PushOutcome`), one the server
  cannot open leaves the proxy or the direct client polling for ever (605; `ReadOutcome`); an empty file relayed by the proxy sends nothing (494; `ReadOutcome`);
- in the data plane no read gives the client its file, whatever the file: BEGIN rewritten is not recognised, or the first chunk is the only one that
  is saved, since its NEXT is never sent; and a buffer in low memory makes it look like the last (`ReadOutcome` of `SwitchedRead`). On the control plane
  `proxy-server1.py` fetches the file and does not return it (224);
- the opening and closing races of section 1: `DropsOnlyAtStart` and `DropsOnlyAtClient` name the windows of a pull and of a relayed read, and say that there is no other; that of `p_trans_write` (456) is in
  `SwitchedRead`, where no property forbids it. The outcome properties exclude all of them by their premise;
- a handler whose client goes away without DONE, after
  its attributes, reads b'' for ever, with its node open and a processor busy (every loop without a branch for it; `GoneUnnoticed`), and the servers of a
  proxy are never sent DONE, so their handlers end that way after every session;
- `proxy.py` raises at every BEGIN of the data plane (168-171);
- no method counts the sends it has outstanding or polls for them, so the limits of `config.py` (4 sends, 4 receives, 8 completions) hold because of the order
  in which completions are returned and for no other reason (`QueuesFitInTurn`);
- the b'' of a peer that failed passes the check of the handshake word, which only prints.

## 7. What is left out

- `post_read` and plain writes, used only by the demonstration: `Session` has them as the one step of a client between the set-up and DONE.
  A client that sends several commands in one session: none does.
- A switched read of several sessions at once. `SwitchRules` has the sessions and the packets, `SwitchedRead` the messages of one; what
  connects them is `RulesOwn` and `Isolation`.
- MAC and IP rewriting (one constant address per role in the code), PSN and checksums (not touched by
  `modify-header.p4`).
- The second command of a session after SEND_FILE_OP, which would find a closed node (`server.py:67`): no client sends one. A message of the handshake that is longer than the own by more than RESERVED_LEN: it
  occurs in the run, and the properties exclude it by their premise.
- Drafts without a behaviour: `trigger_control.py` (line 228), `ssconnc.py` (line 61) and `proxy_connc.py` (line 228) stop with an indentation error
  when they are compiled, `parse_rpcordma.py` with a syntax error (line 97); `param_parser.py` reads options with
  names it does not define; `modify-header-nocrc.p4` and
  `simple-version-modify-header.p4` are pseudo-code. Benchmark and
  set-up scripts and static configuration do nothing that has states.

## 8. The plan

Done: `Verbs`, `FileTransfer`, `PushFile`, `PullFile`, `ReadEnds` with `ReadDirect`, `ProxyHandler` with `ReadProxy` and
`SwitchedRead`, `SwitchRules`, `Session`, `Handshake`. All code of the repository that runs is modelled, and every safety
property that a run checks and that holds has a proof, and so has `QueuesFit` of the four transfers that no run checks it of. What is only model-checked, and why, is at the end of
section 5.
