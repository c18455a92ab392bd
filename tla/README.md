# Verification of ReInk

ReInk is a maintenance tool for Epson printers: it opens a printer's USB
interface, enters IEEE 1284.4 ("D4") mode, and reads, backs up and changes
EEPROM bytes over a control channel. A wrong write can leave a printer
unusable, so the questions asked here are about what the program does to the
printer, and what it says it did, when replies are late, lost, garbled or false,
when the printer acts of its own accord, when writes and reads of the transport
fail and when the host dies.

The modules are translated from the Rust sources under `src/`; `PROJECT.json`
maps each definition to the lines it models.

## The system

| Part | Source | State it keeps | Operations |
| --- | --- | --- | --- |
| D4 link | `reink-d4/src/link.rs` | conversation state, channel table with credit, packets received and not handled, `exit_requested` | `initialize`, `open_service`, `service_name`, `request` (through `D4ControlChannel`), `close_channel`, `exit`; the handling of every command of the printer |
| D4 packets and messages | `reink-d4/src/packet.rs`, `transaction.rs` | the decoder's buffer | reassembly of packets, codec of messages |
| Epson controller | `reink-core/src/controller.rs`, `command.rs` | none of its own | read and write a byte, write a list with read-back and rollback |
| Model database, identity | `reink-core/src/epson.rs`, `identity.rs` | parsed models | load and check, look up, resolve resets, parse an identity |
| Application | `reink-app/src/lib.rs` | D4 session, write plan | connect with recovery, dump, prepare, durable backup, apply, shutdown, cleanup report |
| USB transport | `reink-usb/src/adapter.rs` | interface claimed, driver detached | open with handoff, bulk I/O, close, drop |
| Windows USBPRINT transport | `reink-usb/src/windows_native.rs`, `native.rs` | handle, pending overlapped operation and its memory | list and select interfaces, open, bounded I/O with cancellation and abandonment, close, drop |
| Platform contracts | `reink-platform/src` | recorded events | `ByteTransport`, `ControlChannel`, `RecordingTransport` |
| SNMP channel | `reink-snmp/src/lib.rs` | library session | configure from the environment, one GET per request |
| Discovery | `reink-discovery/src` | none | list device files |
| Command line | `reink-cli/src` | none | one operation per process |
| Graphical interface | `reink-gui/src` | candidates, selection, dialog, image, report; a scan thread and an operation worker; the debug trace | scan, select, confirm, run, poll |
| Terminal interface | `reink-tui/src` | page and selection | offline viewer |
| Hardware evidence | `reink-hardware-test/src` | stages of a reversible write | captures, boundary probes, write evidence, reports |

They interact by plain calls, each part owning the one below it: an operation
of an interface opens a USB transport, wraps it in a recording transport, runs
`connect_recoverable` to get an `EpsonD4Session` over a `D4Link`, runs its
callback, shuts D4 down and closes USB. The only threads are the workers of the
graphical interface, which send one result over a channel. What makes the
system hard is the other end: the printer runs concurrently with every call, the
link has no request identifiers, timeouts leave replies behind, and persistent
changes are made one byte at a time.

What makes each part correct:

- D4 link: the host never spends credit it was not granted, loses none, agrees
  with the printer on conversation and channels, returns the reply of the
  request it sent, never panics, returns from every call once the printer stops sending of its
  own accord, and is silent when terminated.
- EEPROM operation: the backup is durable before the first write; every report
  is true of the printer; a failed rollback names every byte in doubt.
- Sessions and USB: a driver that was detached is attached again or the failure
  is reported, on every path; the cleanup record says what happened.
- Windows transport: memory is the driver's until the driver is done with it; a write
  reported as done was done whole; every call returns; the opened interface is the only one
  that was meant. Packets come out of the stream as the printer put them in, and the trace
  loses no byte.
- Graphical interface: one operation at a time, on the printer and the model that were
  confirmed; panes and dialogs are about what is selected; every operation whose D4 calls return
  is reported, and its report is true.
- Command line and evidence: nothing is opened before every check that needs no printer, and nothing is
  written before identity, range and backup; evidence puts its byte back; no failure is
  hidden behind another; no file is overwritten.
- SNMP: a session is never protected less than its environment asks.

## The modules

### `D4Link`, `D4Conversation`: the link and its printer

`D4Link.tla` is `D4Link<T>`. `conversation`, `revision`, `exitRequested`,
`received` are the fields of the struct; `chan` and `credit` are the table
`channels`, with `pending` and `shut` for an entry whose `open` is false. The
host is one thread: `pc` says which reply the running call waits for and
`target` the channel it works on. `Start...` actions are the public methods up
to their first read, `Receive` is one iteration of the loop in `transaction` or
`request`, and `ReadFails` is a read that times out, reports an error, or returns
nothing for the seventh time. In one `Receive` step a packet goes through
everything the code does with it: `next_packet` (which may get several packets
from one read), `apply_credit`, decoding, `handle_peer_transaction` with the
reply it writes, or the rest of the call with the next command it writes.

Every write may fail (`WriteMayFail`). `send` charges a packet after `write_all` returned, so
the host takes a packet whose write failed for not sent; but a write that timed out may have reached the
printer (`UsbprintIo` shows how). The packet is therefore kept in `doubtful` until the
next call starts, and `Arrives` of `D4Conversation` may put it on its way: the printer then charges a packet that the
host has not paid for, counted in `unpaid`, and answers it, so that later calls find a reply
that nobody waits for. It arrives whole and before whatever the host writes next, or not at
all. A part of a packet that stays in the printer, so that what follows is misread, is not modelled: the printer's
framing is its own.

A packet is a record: the channel it travels on, its credit, its kind, and what
the message carries. Payloads, names and sizes are left out, except that a packet may be
`Oversize` or `Malformed`, and that `id` tells which request a data packet
answers. Service names and sockets correspond one to one.

`D4Conversation.tla` adds the printer, which is no code of the repository: it is
modelled from what the link sends it and accepts from it. It answers the packets
of one channel in order, may refuse, grants only what it enters in its `ledger`,
and may send any command of its own at any moment, except that it does not leave while an
Init of its own is unanswered or the answer to it on its way. A packet that it had granted no credit for
is charged, its ledger falls below zero, and it is answered like any other; how printers
treat such a packet is not known from this repository. With `LateAnswers` it goes
on answering commands after its own Exit.

### `EepromWrite`, `AtomicUpdate`: the persistent operation

`EepromWrite.tla` is one operation: `validate_eeprom_updates`, `dump_eeprom`,
`write_new_binary_file`, `apply_eeprom_write` and, below it,
`write_eeprom_with_originals` with `write_eeprom_address` and
`read_eeprom_address`. Both interfaces and all their commands that change EEPROM (write,
restore, reset) run this sequence and differ in the list of updates only.
`phase`, `index` and `op` are the place in that code; `image` is the backup being
read, `file` how much of it would survive a crash, `errors` the `rollback_errors`.

The channel is two queues, `requests` and `replies`, because that is what the
link offers: a request that fails leaves its reply behind. The printer executes
requests in order; it may refuse a write it made, acknowledge one it did not
make, garble a reply or send none. When it does report a byte it reports
it truly. The host may crash anywhere.

The options of the write are the ones its only caller passes, `verify_read_back`
and `atomic`. `write_eeprom` with `atomic` unset has no caller in the program.

`AtomicUpdate.tla` is the promise: bytes move between their old and wanted value
only while the operation runs, and the report (`ok`, `rolled back`, `refused`,
`uncertain` with the bytes in doubt) is true and stays true.
`EepromWrite` implements it under the mapping at its end.

### `UsbTransport`, `UsbSession`: driver, interface and printer handed back

`UsbTransport.tla` is `ReadOnlyUsbTransport` on Linux, in any number of
processes; a query that the system answers with "not supported" goes on to the claim, as in
the code. The fields `claimed` and `detached_kernel_driver` are `claimed[p]` and
`detached[p]`; every libusb call is a step of its own, named by `step[p]`, because the
kernel serves the processes one call at a time: another process may act between a query and
the detach it leads to, or between a release and the reattachment. `owner` is what the
kernel knows. It is external, as is what it does when a handle is closed: it gives up claims
and attaches nothing. `StartClose` and `StartDrop` are the two entries into `close`.

`UsbSession.tla` puts a session on top of it: `with_selected_usb_epson_session` (the
graphical interface) and `with_usb_epson_session` (the command line), which run the
same steps, and the bounded probes. `phase[p]` is the place in that code and in
`connect_recoverable` and `shutdown`; `d4_shutdown` is the field of the cleanup record, and
`usb_close` is whether `failures[p]` is empty. The calls of the D4 link are single steps
with the outcomes `D4Link` gives them: success, an error before the printer did anything, an
error after it, and the printer ending the conversation by itself. A panic in any of
them unwinds to Drop, and a kill ends the process at any step.

`warned` is what a caller was told: the driver, when an error names a failed
reattachment; the printer, when a session ends without a successful D4 shutdown.
macOS, where the capture is of the whole device, is not modelled, nor is an unplugged device
that comes back. On Windows no driver is detached; that transport is `UsbprintIo`.

### `UsbprintIo`, `UsbprintDiscovery`, `PacketFraming`, `PacketStream`: bytes on Windows

`UsbprintIo.tla` is `WindowsNativeTransport`: `overlapped_io` step by step (`step`), the
operation at the driver (`io`) and who owns its memory (`buffer`: held by the call, free again,
or leaked on purpose by `abandon_stalled_io`). The driver and the printer are external: at any
moment an operation may end with any part of it done, fail, or acknowledge or ignore its
cancellation, and a completion may come between the timeout and the cancellation.

`UsbprintDiscovery.tla` is the choice of the interface as pure operators: enumeration, the correlation of
interfaces and devices by container, and `select_native_candidate`. `PacketFraming.tla` is the two
decoders, `PacketDecoder` of the link and `DebugTrafficDecoder` of the graphical interface,
over bytes with headers of two bytes; `length` counts the header, as in the code.

`PacketStream.tla` composes the three with their callers: the open, `connect_recoverable`'s entry
command and `wait_for_entry_reply`, the reads of `D4Link::next_packet`, writes of packets, the recorded events
and the debug trace with its limit of entries. `saying` is everything the printer will say, and reads
cut it anywhere. It is written as what the first entry reply ends, the whole packets behind it, and a rest that
begins with no whole packet; any bytes can be taken apart so, and `FramesExact` compares with these packets. `aligned`,
`taken`, `broken`, and the fields `shed`, `seen` and `framed` of `trace` are history.

### `Gui`, `GuiOperation`: the graphical interface and its worker

`Gui.tla` is `ReinkGui`: the fields are the variables (`pending` is `pending_usb_operation`, `loaded` is
`loaded_eeprom`, `report` is `usb_operation_result`), and each click and each of the two polls is
an action; the guards are the conditions under which the code enables the widget, and `Start` is
`start_selected_usb_operation` with its early returns. `GuiOperation.tla` is the thread it starts,
`run_selected_usb_operation`: open, identity, work, backup, write, shutdown, close, message. The
steps of a session have the outcomes that `UsbSession` and `EepromWrite` establish. Printers are unplugged
and replugged at any time and share one USB identity, so that only the identity read through D4 tells models apart.
Both threads may die. `Spin` is a D4 call of the worker that never returns, which `D4_hang` shows to
be possible wherever such a call is made; nothing follows it, and the interface stays busy.

### `Command`, `ModelDatabase`, `SnmpChannel`: the two command-line programs

`Command.tla` is one process of `reink-cli` or of `reink-hardware-test`, for every command
that opens a printer (over libusb, the Windows driver or SNMP) and the ones that only convert or probe.
`run.phase` is where it is; `run.failed` collects the steps that failed, `run.told` is the error of the
process, `run.reported` what its report file says. Files have the states that `create_new`, a write and a sync
can leave; other programs create files at the same paths at any moment, the printer changes
bytes by itself (`Drift`), and the process can be killed.

`ModelDatabase.tla` is what these commands compute from a database and an identity: the checks of `from_toml`,
aliases and replacement by later groups, `merge` of declared resets over counter families, expansion of a
restore image, and the address checks of reads, writes and displays. `SnmpChannel.tla` is
`SnmpConfig::from_environment` and the outcome of a request. A variable whose value is not Unicode is
one of its inputs; the code's `.ok()` takes it for unset.

### Model checking modules

`MCEeprom` lists the update lists, `MCStream` the machines, the selectors and the printer's
sayings, `MCCommand` the databases, identities, environments and requests.

## The runs

| Run | Question | Bounds |
| --- | --- | --- |
| `D4_link` | Is credit exact and backed, do both ends agree, can an assertion fire? | one service, 3 calls, 3 unsolicited packets, 2 packets on the wire, failing reads, failing writes whose packet arrives or not |
| `D4_progress` | Does a request get its own reply when packets of two channels mix, does every call end when the printer stops sending, can the host always leave? | two services, 4 calls, 1 unsolicited packet, failing reads and writes, a printer that returns one credit with each packet |
| `D4_stale_reply` | violation: is the reply always the request's own? | one service, 4 calls |
| `D4_panic` | violation: can a printer that answers after Exit make the host panic? | one service, 3 calls |
| `D4_hang` | violation: does every call end, a packet put back included? | one service, 4 calls, no unsolicited packet |
| `Usb_sessions` | Are driver and printer left as found, or somebody told? Is the interface used by its owner only? | 2 processes, 3 opens, both handoff policies, with and without a driver |
| `Usb_cleanup_attempted` | violation: is D4 cleanup always attempted? | 1 process, 1 open |
| `Usb_short_write` | violation: does `write_all` write all? | 1 process, 1 open |
| `Eeprom` | Is every report true, does the backup come first, is the operation atomic? | 3 bytes of 2 values, lists of up to 3 updates |
| `Gui` | Is what was confirmed what is written, are panes, dialogs and reports true, is every operation reported, unless a D4 call never returns? | 2 places, one of them of the Windows driver, 2 models, one with a product hint and resets |
| `Commands` | Is every read and write authorised, does evidence restore, is every failure told, is no file lost? | 3 databases, 4 identities, 11 environments, one with values that are not Unicode, 4 update and address lists, 3 addresses, 1 drift |
| `Stream` | Is memory the driver's, are packets and trace exact, is the interface the one asked for, does every call return? | 5 calls, 5 sayings, 24 machines, 3 selectors, limits of 2 reads, 2 empty reads and 3 entries |

Why the bounds are enough.

- D4: three calls are `initialize`, `open_service` and one more; in `D4_link` it runs on an open
  channel, and three unsolicited packets are enough for the printer to begin, act and leave, or
  for two commands to cross a call and the answer of one to be lost. In `D4_progress` a fourth call works on
  what a request left behind, or on the second service, with one command of the printer arriving anywhere in
  it. Two packets on the wire let one read bring a packet the call waits for and one it does not.
  `CreditLimit` 3 stands for 65535 and is reached.
- `Eeprom`: three bytes have a first, a middle and a last one, and the lists leave one byte
  alone, write in both orders, repeat a value, and break every rule of
  `validate_eeprom_updates`. The queues are not bounded: each byte adds a bounded number of
  requests.
- `Usb_sessions`: three opens of two processes let one process come back after a session
  that failed while the other is anywhere in its own.
- `Gui`: two places can swap their printers, and a scan can shift the index of one; one
  model is enough to be wrong. There is no bound on clicks, scans or operations.
- `Commands`: a process ends within eighteen steps; the databases
  have a replaced entry, a malformed group, a reset that names an address twice, one out of
  range and one without bytes; the drift makes a byte change between any two steps.
- `Stream`: five calls are the entry command and its reply, and three more reads, or a write
  between two. The sayings have noise that begins like the reply, a packet without payload,
  a second entry reply, with and without noise before the first, a header with reserved bits, one that is too short, and silence. Every
  limit is reached.

The proofs then lift the bounds where there is one.

Deadlock is checked in `Eeprom`, whose only final states are those of `Over`, and in `Gui`,
which has none. Elsewhere bounds on calls, packets and opens, or the end of a process, end a behaviour.

Fairness:

- `D4_progress` and `D4_hang` assume it of the running call only (`Receive \/ ReadFails`): it
  is a thread that loops, and both transports end every read after their timeout. The printer
  is under no fairness: it may fall silent at any moment. But it sends at most `MaxPeer` packets of its own accord, and
  `CallsReturn` needs that they are finitely many: the loops of `transaction` and `request` have no
  deadline of their own, and a printer that goes on sending commands keeps a call going. The
  code bounds the reads that bring nothing, not those that bring something.
- `Gui` assumes it of the scan thread, of the worker and of the two polls: a frame is asked for
  while anything runs (`request_repaint_after`), and each wait of a thread has a timeout. This is not
  enough for the worker: a D4 call under it can take the same packet again and again without a read. `Spin`
  makes any of its calls one that never returns, so that fairness forces no report then, and `OutcomesShown` says
  so. Nothing is assumed of the user.
- `Stream` assumes it of the transport's own steps only: each wait is given a limit, and
  `CancelIoEx` does not wait. Nothing is assumed of the driver or the printer.

## What the violations show

- `D4_hang`: `next_packet` takes a packet that was put back on `received` before
  it reads the transport. A call that put back a packet of another channel, or
  any call after a late data reply, spins on it and never returns. The credit of
  the packet is applied at each turn.
- `D4_stale_reply`: `request` takes the first packet of its channel, and after a timeout
  that is the reply to the request before. `EepromWrite` shows why the persistent operation
  survives it: replies name an address, and the read-back follows the write.
- `D4_panic`: the two `expect`s on a channel's entry hold for a printer that
  falls silent with its Exit (`NoPanic` in `D4_link`), and not for one that
  still answers.
- `Usb_cleanup_attempted`: `connect_recoverable` leaves D4 when `open_service` fails, not
  when `initialize` does, where the reply to an accepted Init may only be late.
- `Usb_short_write`: `write_all` of the libusb transport drops the count of bytes
  that were transferred. The Windows transport compares it (`WrittenWhole`).

The passing properties that the D4 violations would break carry the exception in their
statement: `deferred` (a packet was put back), `clean` (no call has failed), or a worker that is "spinning".

## What else the models show of the code

- A write that fails after the printer got its packet leaves the two sides' books apart by one
  credit, for good: the host may then write a packet that the printer granted nothing for.
  `CreditBacked` bounds the difference by the number of such packets (`unpaid`), and no code brings the
  books together again before the conversation or the channel begins anew.
- An answer to a packet of a failed write meets a later call. An unexpected reply ends that call with an
  error; one of the expected kind is taken for its own, as in `D4_stale_reply`.
- `open_service` does not compare the sockets of an OpenChannelReply with the channel it asked for.
  After a failed `open_service`, its late reply is taken by the next one, and that one's reply, still to
  come, begins the printer's books anew: the host then holds credit the printer does not know of. The
  proof of `CreditBacked` found this (no run has two such calls in a row on so few packets), and the property
  excepts it by the history variable `abandoned`, which an OpenChannel that arrives though its write failed sets too.
- A dialog whose request is dispatched while another operation runs is closed and its
  request dropped without a message (`main.rs`, `start_selected_usb_operation`). The Cancel button of a
  dialog does not close it; the window's own button does.
- After a worker died the report says that cleanup was not attempted. `ReportTrue` therefore
  exempts a stopped worker.
- `finish_write_evidence_report` (`main.rs:1584`) reports an unwritable private report by that error
  alone, and says "write-evidence cleanup completed" in it, also when the restoration or the cleanup failed
  before. This disagrees with `docs/ARCHITECTURE.md:79` ("report both operation and cleanup failures").
  `FailuresTold` and its theorem exempt exactly that case (`ReportLost`); they hold of every other command, and
  of evidence whose report is written.
- A privacy protocol and password of SNMP that are not Unicode count as unset, so that a session the user meant to be
  encrypted is only authenticated. `NeverDowngraded` is about the readable variables.
- The captures of the evidence tool over libusb verify no identity. The report and the trace may be given the same path: the second creation fails.
- Bytes of a read that completed after its timeout are lost to the link, and so are bytes
  read together with the entry reply (`gap` notes both). A late second entry reply is decoded as the first packet
  of the link. A header that does not decode stays in the buffer, and every later read fails on it.
- The debug trace recognises the entry reply only at the beginning of what it has pending, while
  `wait_for_entry_reply` finds it anywhere. Noise before the reply can therefore hide it from the trace, which then
  shows the session's packets as raw bytes, or begins at a second entry reply that is a packet to the link. The
  proof of `SameFraming` found the latter: the property was stated for every session that lost no bytes at the
  entry, no saying of the run had noise and a second reply, and with one that has both TLC refuted it. It is
  now stated for a trace that had seen the reply when the link had (`aligned`), and the saying is among those of the run.
- An interface whose hardware ID names no number is never selected by a number.

## The proofs

`D4Proofs` proves for any number of services, calls and packets and any credit limit:

- `TypeCorrect`: `Spec => []TypeOK`; it includes that no credit exceeds its
  limit, which is where the checked additions of the link matter.
- `TerminationSilent`: `Spec => HostSilentAfterTermination`, by cases over the steps of
  the host: it writes nothing and tries to write nothing. It needs no invariant: `send` checks the
  conversation itself.

Its second part is about the order of what is on its way. The lemmas say how one step changes the two
queues: a request goes behind the others (`Longer`), an answer takes one out (`Shorter`), an iteration takes the
first packet and may put it back (`Advanced`, `Rotated`, `Moves`). `LinkInvariant` follows from them, for every
printer: packets are well formed (`Wellformed`), an Init is unanswered only behind nothing but Inits (`InitsFirst`), the
printer's Exit comes before any Init and ends its conversation (`Leaving`), before the host's conversation
nothing is pending but what begins one (`Beginning`), and a doubtful packet is one that could still arrive without
breaking these (`Lost`). On it rest

- `NeverPanics`: `~LateAnswers` implies `Spec => []NoPanic`. Behind an Exit comes no reply but the
  ExitReply until a new conversation begins (`Farewell`), so a call that takes its channel's entry for
  granted finds it or never gets its reply (`Assured`). Without the hypothesis `D4_panic` is a counterexample;
- `RepliesInStep`: `Spec => []RepliesMatch`. `InStep` says that while no call failed at most one
  request and its reply are under way, and which; it is what a unit test of one exchange assumes;
- `AgreeInStep`: `Spec => []PeersAgree`, with the news on the wire as part of the invariant
  (`TerminationAgreed`, `Agreed`).

`D4CreditProofs` keeps the books. `Account(t, c)` says that `t[i]` is what the printer's
ledger for `c` will have been when the host has read the first `i` packets on their way, had it been charged only what
the host paid for (`Books`, the ledger plus `unpaid`: a packet that arrives though its write failed leaves them as they
are); it is a function over the places of the queue, so that a step that takes, adds or moves a packet changes it place by place. The invariant says that such an
account exists, that credit is within it (`TransactionAccount`, `ServiceAccounts`), and that entries
and calls of open_service match it (`Entries`, `Outstanding`):

- `CreditIsBacked`: `Spec => []CreditBacked`. `CreditBacked` alone is not inductive: it says nothing of
  the credit that is still on the wire;
- `CreditIsExact`: `Spec => []CreditExact`: the same accounts with equality while no call failed, since until
  then nothing is unpaid (`Paid`). That the
  account's end is the sum `Promised` computes recursively is an induction over the places of the queue;
- `ExitIsPossible`: `MinGrant >= 1` implies `Spec => []ExitPossible`; credit is short only while a
  request or reply that returns it is under way (`Solvent`).

Two of these statements had to be changed to be true or provable. `CreditBacked` is false for a printer that answers a
given-up OpenChannel late (above), and without `unpaid` for one that gets the packet of a failed write. `CreditExact` spoke only of channels the printer still holds open with nothing put
back; the proof showed that while no call failed neither restriction is needed, and both are gone. No hypothesis but
the two named ones was added.

`EepromProofs` proves for every range, every set of values and every list of updates:
`TypeCorrect`, `BackupDurable`, `OkIsExact`, `RollbackIsTrue` and
`FailureIsPrecise`, all from one inductive invariant `IInv`. Its parts beyond the
type: until the backup is durable nothing was written (`BackupFirst`); during the
write phase each request is followed by exactly one reply, so replies are in
step (`InStep`), the bytes up to the cursor hold what was asked for and the others
the original (`WrittenSoFar`); during rollback they are not in step any more, and what saves
the operation is that a read-back that is accepted while a read is in flight or answered
was answered after the write (`NoStaleReadBack`), so that each byte passed is either noted
or restored and out of reach of any request under way (`RestoredSoFar`). The properties are not
inductive by themselves: a report is a statement about all the bytes that were passed before it.
`OperationImplements` is the refinement `Spec => Implements`, step by step: every action maps to an
action of `AtomicUpdate` or to a stutter. It needs, beyond `IInv`, that every byte of the device and every
write under way is between its old and its wanted value.

`UsbProofs` proves for any number of processes and opens: `TypeCorrect`,
`UseIsExclusive`, `DriverIsRestored`, `DriverIsOwn` and `PrinterIsLeft`, from an
inductive `IInv` that says of each process what the others rely on. A remembered claim is
one the kernel knows (`ClaimHeld`); only the latest detacher has a driver to give back, and
it is away as long as that is so (`SoleDetacher`); a driver still away after close was named
by its error (`DriverTold`); a process beyond its entry command is the only one there
(`LastUser`, which needs the exclusive claim); and a shutdown that succeeded stays true
while its session closes (`ShutdownTrue`). `DriverRestored` is not inductive by itself, since it
does not say that a second process cannot detach or attach what the first one is to restore.

`StreamProofs` proves for any machines, sayings, limits and calls: `MemoryIsHeld`, `WritesAreWhole` and
`OpensAsAsked`. The invariant says what a call has at the driver (`CallHolds`: between calls
only an abandoned operation whose memory was leaked), that memory is leaked only with the handle (`LeakCloses`), and how
far the printer is ahead of what was reported (`SentSoFar`). `WrittenWhole` is not inductive: it
speaks of the time between calls, and a timeout that races a completion must be followed through
the cancellation. `OpensAsAsked` needs that a listed interface carries the only device and
the only number of its container (lemma on `Candidate`), and that interfaces are finitely many with distinct paths.

Its other four theorems are about the bytes, for any bytes of the printer and any cut of them into transfers:

- `TypeCorrect`. The limits hold by sharper types than `TypeOK` states: in the phase "entry" another read
  is left, and in "next" another empty one (`Typed`).
- `TraceIsWhole`. What the trace's loop gives from a position of its buffer follows from what it gives from
  the positions behind it (`DownwardInduction`): the transfers it makes and what stays pending are the buffer (`ScanLosesNoByte`).
- `FramingAgrees`. While both decoders hold the same bytes, a push into each gives the same packets and leaves the
  same bytes, unless a header does not decode. The invariant says when they hold the same: from `aligned` on, between calls
  and during a write, which moves nothing of the other direction (`FInv`).
- `FramingIsExact`. The invariant (`GInv`) says where in the saying the link is: before its reply the bytes kept are
  the beginning of what is said (`Opening`); after it the link has the first k packets, holds a beginning of the
  next ones, and what is on its way is what follows (`Linked`); behind a bad header nothing comes out any more. A push
  that is given the next bytes moves k over exactly the packets they complete (`PushFrames`), and k is `PacketsRead`
  because a packet is read whole when what was read is as long as what is said up to its end.

`GuiProofs` proves for any models, places and fixtures: `ScanAndWorkApart`, `WritesConfirmed`,
`PanesAreCurrent`, `ReportsAreTrue` and `TypeCorrect`. The worker's part of the invariant says what it has verified
(`TargetVerified`), what precedes a write (`MutationPrepared`) and what its record is worth (`CleanupTrue`);
the interface's part that no scan runs beside it (`ScanApart`), that its place and model stay selected while it
runs, which the locked controls ensure (`Locked`), and that dialog and image follow the selection
(`DialogCurrent`, `ImageOfCandidate`). The types rest on it: a worker opens a place that exists because it is the
candidate, and what a scan finds is places, whatever is plugged in (`FindsPorts`, an induction over the places).

`CommandProofs` proves for any databases, identities, environments and requests: `FailuresAreTold` (with
the exemption of `ReportLost`), `EvidenceIsRestored`, `ProtectionIsKept`, `FilesAreKept`, `TypeCorrect`, `WritesAreAuthorised` and `ReadsAreAuthorised`.
The first invariant says that until the interface
is closed nothing is said, and that what is said afterwards is what failed (`Telling`); that a failed
operation of the evidence tool leaves a stage undone and a tried write is followed by a tried
restoration (`Staged`); and that a stage that is done is true of the printer (`Verifies`), which is
what makes the summary that replaces the errors of evidence (`Completed`) as good as the list of them.
The last three theorems rest on a second one (`AInv`): what is checked before the interface is opened stays true of the
command (`Offered`), what the session has asked the printer is what it was answered (`Checked`), the backup is the printer's image
but for what drifted (`Backed`), and every address read was allowed (`ReadsAuthorised`). Under it lie facts about the data, proved with
`NaturalSets` for databases of any size: that a later group replaces an earlier one (`EntryOfModel`), that merging keeps the
types (`MergedRange`), and that what `merged_operation` computes byte by byte, with the position of the first occurrence and the
value of the last, is the set that `DeclaredReset` describes without positions (`ResetIsDeclared`).

The assumptions are the named ones of the modules: the transaction channel is
no service, bounds are naturals, no process is called "driver" or "nobody", the range is not
empty, lists are sequences of an address and a value, an update list of a command is not empty,
a list of addresses has one at least (the command line requires it), the fields of a database entry have the types
that the TOML reader gives them, SetupAPI tells of finitely many interfaces each with its own path, a saying is taken apart as described above
(which restricts no printer), the models that
share a product id are models, and no model is `None`.

Only model-checked:

- liveness (`CallsReturn` and the temporal properties of `Gui` and `Stream`), and with it ENABLED;
- that what is violated is violated: the five violations are counterexamples of a small instance.

Every invariant and action property of a passing run is stated by a theorem (`NoPanic` and `ExitPossible` under the
hypotheses named above), and so is the refinement.

Several of these are about recursive functions over data. The library's induction theorems take an operator as a
parameter, which the provers cannot instantiate. `NaturalSets` is the way round: a set of naturals with a first
element that fails (`SetInduction`, and `DownwardInduction` for a scan that depends on what lies behind), one set
per statement, and a recursion over numbers that has a solution (`Recursion`). Folds and filters of the libraries
(`FoldLeft`, `SelectSeq`) are known to no prover, and so the models write those they prove about as recursive
functions; of `FlattenSeq` it proves what is used.

The models take one thing on trust of the Windows driver: a wait that fails for another reason than its
timeout reports the operation's own error.

## Not modelled

- Parts of a D4 packet that a failed write leaves in the printer, and what a printer does with a packet it granted no
  credit for, beyond charging and answering it.
- Addresses of a model's range at the end of 16 bits: ranges are of any naturals.
- The byte formats of messages and commands, the full header of a packet (sockets and credit decide
  nothing in the framing) and the negotiated packet sizes: data that no control depends on
  beyond the kinds the models keep.
- The library entry points of the controller that no part of the program calls.
- The exchange of SNMP on the network, which belongs to a library; its requests are reads with one outcome.
- macOS's capture of the whole device, and the choice among libusb descriptors, which is a filter over a list.
- Discovery (one directory listing) and the terminal viewer (offline, a page and an index).
- The test doubles, the fixture session and the offline listings.
- Layout, wording, filters and pages of the interfaces; TOML syntax and the decoding of display fields.

## Plan

1. Proofs: an abstract specification of the session over the byte stream (packets instead of bytes), which
   `PacketStream` implements under `FramingIsExact`, so that `D4Link` can be composed with it.
2. The codec of D4 messages against a reference over bounded payloads, and the negotiated sizes.
3. The selection of libusb descriptors with the interface's alternates, and the re-enumeration of a
   device under an open handle.
4. A command line and a graphical interface on one printer: composing `Command` and `Gui` over the
   interface ownership of `UsbTransport`.
