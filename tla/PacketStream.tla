----------------------------- MODULE PacketStream -----------------------------
(***************************************************************************)
(* The byte stream of one session over the Windows USBPRINT transport, from*)
(* the choice of the interface to its close: the entry into D4, the reads  *)
(* of D4Link::next_packet with the decoder behind them, writes between     *)
(* them, and the debug trace that is given every transfer that succeeded.  *)
(* What the packets mean is D4Link's business.                             *)
(***************************************************************************)
EXTENDS UsbprintIo, UsbprintDiscovery, PacketFraming

CONSTANTS
  Machines,      \* what SetupAPI may tell
  Selectors,     \* what may be asked for
  Sayings,       \* what the printer may say: noise, entry reply, packets, rest
  Command,       \* a packet of the host
  ReadLimit,     \* ENTRY_REPLY_READ_LIMIT
  MaxEmpty,      \* MAX_CONSECUTIVE_EMPTY_READS
  MaxEntries,    \* DEBUG_TRAFFIC_MAX_ENTRIES
  MaxCalls       \* bound: calls of the transport

ASSUME BoundsAssumption ==
  /\ ReadLimit \in Nat \ {0} /\ MaxEmpty \in Nat \ {0} /\ MaxEntries \in Nat \ {0}
  /\ MaxCalls \in Nat

\* SetupAPI tells of finitely many interfaces, each with a path of its own, and
\* of finitely many hardware IDs.
ASSUME MachinesAssumption ==
  \A m \in Machines :
    /\ IsFiniteSet(m.interfaces)
    /\ IsFiniteSet(UNION {d.ids : d \in m.devices})
    /\ \A i, j \in m.interfaces : i.path = j.path => i = j

VARIABLES
  session,     \* the caller: its phase, reads and empty reads so far, its calls
  chosen,      \* machine and selector, then the path of what was opened
  saying,      \* what the printer says in all
  decoder,     \* bytes kept: the reply while D4 is entered, then PacketDecoder's
  received,    \* D4Link: packets that wait to be taken
  taken,       \* history: packets next_packet returned
  broken,      \* history: a header did not decode
  aligned,     \* history: link and trace began behind the same byte
  trace        \* DebugTrafficTrace: decoders and entries, and their history

callerVars == <<session, chosen, saying, decoder, received, taken, broken, aligned, trace>>
vars == <<ioVars, callerVars>>

\* What the printer says in all, in order.
Said(s) == s.noise \o s.reply \o FlattenSeq(s.packets) \o s.rest

\* What is left of the choice once an interface was opened, or none was.
Opened(path) == [machine |-> {}, selector |-> {}, path |-> path]

\* DebugTrafficTrace::begin_operation on an empty trace.
NewTrace ==
  [tx |-> NewTraceDecoder, rx |-> NewTraceDecoder, entries |-> <<>>,
   shed |-> [tx |-> <<>>, rx |-> <<>>], seen |-> [tx |-> <<>>, rx |-> <<>>],
   framed |-> <<>>]

\* A candidate is to be chosen, and the trace is empty.
Init ==
  /\ saying \in Sayings
  /\ IoInit(Said(saying))
  /\ session = [phase |-> "listed", reads |-> 0, empty |-> 0, calls |-> 0]
  /\ chosen \in [machine : Machines, selector : Selectors, path : {"none"}]
  /\ decoder = <<>> /\ received = <<>> /\ taken = <<>>
  /\ broken = FALSE /\ aligned = FALSE
  /\ trace = NewTrace

-----------------------------------------------------------------------------
\* The bytes of the entries of one direction, one after the other.
BytesOf(entries, dir) ==
  FlattenSeq([i \in DOMAIN entries |-> IF entries[i].dir = dir THEN entries[i].bytes ELSE <<>>])

\* The packets among some transfers.
PacketsOf(s) ==
  FlattenSeq([i \in DOMAIN s |-> IF s[i].kind = "packet" THEN <<s[i].bytes>> ELSE <<>>])

\* Mutant: old entries are kept.
NoExcess(all) == 0

\* append_transfer: how many of the oldest entries make room.
Excess(all) == IF Len(all) > MaxEntries THEN Len(all) - MaxEntries ELSE 0

\* append_captured: a transfer goes through the decoder of its direction, and
\* each of what comes out becomes an entry.
Traced(dir, bytes) ==
  LET push == TracePush(trace[dir], bytes, IF dir = "tx" THEN EntryCommand ELSE EntryReply)
      all == trace.entries \o
               [i \in DOMAIN push.transfers |-> [dir |-> dir, bytes |-> push.transfers[i].bytes]]
      old == SubSeq(all, 1, Excess(all))
  IN [trace EXCEPT ![dir] = push.decoder,
                   !.entries = SubSeq(all, Excess(all) + 1, Len(all)),
                   !.shed = [d \in {"tx", "rx"} |-> @[d] \o BytesOf(old, d)],
                   !.seen[dir] = @ \o bytes,
                   !.framed = @ \o IF dir = "rx" THEN PacketsOf(push.transfers) ELSE <<>>]

\* RecordingTransport keeps what succeeded, and the trace is given it.
Recorded ==
  IF result.outcome # "ok" THEN trace
  ELSE Traced(IF result.op = "write" THEN "tx" ELSE "rx", result.bytes)

-----------------------------------------------------------------------------
\* The caller takes the outcome of its call.
Take(phase) ==
  /\ session.phase = phase /\ result # NoResult /\ result' = NoResult
  /\ trace' = Recorded
  /\ UNCHANGED <<handle, step, io, buffer, line, arrived, told, doubt, chosen, saying>>

\* The caller calls the transport, which may refuse.
Calls(op, data) ==
  /\ session.calls < MaxCalls
  /\ Begin(op, data) \/ Refuse(op)
  /\ UNCHANGED <<chosen, saying, decoder, received, taken, broken, aligned, trace>>

\* The session goes on in a phase.
Phase(phase) == session' = [session EXCEPT !.phase = phase]

\* WindowsNativeTransport::open of the one candidate that was asked for.
Open ==
  /\ session.phase = "listed"
  /\ LET m == chosen.machine s == chosen.selector IN
     \/ /\ Selects(m, s) /\ handle' = "open"
        /\ chosen' = Opened(Selected(m, s).path)
        /\ Phase("command")
     \/ /\ UNCHANGED handle
        /\ chosen' = Opened("none")
        /\ Phase("closed")
  /\ UNCHANGED <<step, io, buffer, result, line, arrived, told, doubt, gap,
                 saying, decoder, received, taken, broken, aligned, trace>>

\* connect_recoverable writes the entry command.
WriteEntryCommand ==
  /\ session.phase = "command" /\ Calls("write", EntryCommand)
  /\ session' = [session EXCEPT !.calls = @ + 1]

\* The entry command was written, or the session is over.
EntryCommandWritten ==
  /\ Take("command")
  /\ Phase(IF result.outcome = "ok" THEN "entry" ELSE "closing")
  /\ UNCHANGED <<gap, decoder, received, taken, broken, aligned>>

\* wait_for_entry_reply reads.
ReadEntryReply ==
  /\ session.phase = "entry" /\ Calls("read", <<>>)
  /\ session' = [session EXCEPT !.calls = @ + 1]

\* Where the first entry reply in b ends, 0 if there is none.
EndOfReply(b) ==
  LET ends == {i \in Len(EntryReply) .. Len(b) :
                 SubSeq(b, i - Len(EntryReply) + 1, i) = EntryReply}
  IN IF ends = {} THEN 0 ELSE Min(ends)

\* A packet from its header to its end.
Whole(p) == HasHeader(p, 1) /\ Decodes(p, 1) /\ EndOfPacket(p, 1) = Len(p) + 1

\* How a saying is taken apart, which can be done with any bytes: its noise ends
\* with the first entry reply, behind which come packets as long as they do.
ASSUME SayingsAssumption ==
  /\ Command \in Seq(Nat)
  /\ Sayings \subseteq [noise : Seq(Nat), reply : Seq(Nat), packets : Seq(Seq(Nat)),
                       rest : Seq(Nat)]
  /\ \A s \in Sayings :
       /\ EndOfReply(Said(s)) \in {0, Len(s.noise \o s.reply)}
       /\ \A k \in DOMAIN s.packets : Whole(s.packets[k])
       /\ ~(HasHeader(s.rest, 1) /\ Decodes(s.rest, 1) /\ Complete(s.rest, 1))

\* wait_for_entry_reply looks for the reply anywhere in what it has read, and
\* drops what was read behind it with its own buffer.
EntryReplyRead ==
  /\ Take("entry")
  /\ LET reply == decoder \o result.bytes
         end == EndOfReply(reply)
         found == result.bytes # <<>> /\ end # 0
     IN /\ session' = [session EXCEPT !.reads = @ + 1,
                          !.phase = IF result.outcome # "ok" THEN "closing"
                                    ELSE IF found THEN "linked"
                                    ELSE IF session.reads + 1 = ReadLimit THEN "closing" ELSE @]
        /\ decoder' = IF found THEN <<>> ELSE reply
        /\ gap' = (gap \/ (found /\ end < Len(reply)))
        /\ aligned' = (found /\ end = Len(reply) /\ trace'.rx.active)
  /\ UNCHANGED <<received, taken, broken>>

\* D4Link::send.
Send ==
  /\ session.phase = "linked" /\ Calls("write", Command)
  /\ session' = [session EXCEPT !.phase = "sending", !.calls = @ + 1]

\* The packet was written, or the call failed; the link lives on in both cases.
Sent ==
  /\ Take("sending") /\ Phase("linked")
  /\ UNCHANGED <<gap, decoder, received, taken, broken, aligned>>

\* D4Link::next_packet finds a packet that waits.
TakeReceived ==
  /\ session.phase = "linked" /\ received # <<>>
  /\ taken' = Append(taken, Head(received)) /\ received' = Tail(received)
  /\ UNCHANGED <<ioVars, session, chosen, saying, decoder, broken, aligned, trace>>

\* D4Link::next_packet reads, at first and again until it has a packet.
Read ==
  /\ session.phase = "next" \/ (session.phase = "linked" /\ received = <<>>)
  /\ Calls("read", <<>>)
  /\ session' = [session EXCEPT !.phase = "next", !.calls = @ + 1,
                    !.empty = IF session.phase = "linked" THEN 0 ELSE @]

\* The read of next_packet failed.
ReadFailed ==
  /\ Take("next") /\ result.outcome # "ok" /\ Phase("linked")
  /\ UNCHANGED <<gap, decoder, received, taken, broken, aligned>>

\* The read of next_packet returned nothing: one time too many is an error.
ReadNothing ==
  /\ Take("next") /\ result.outcome = "ok" /\ result.bytes = <<>>
  /\ session' = [session EXCEPT !.empty = @ + 1,
                    !.phase = IF session.empty + 1 = MaxEmpty THEN "linked" ELSE @]
  /\ UNCHANGED <<gap, decoder, received, taken, broken, aligned>>

\* The read of next_packet returned bytes, and the decoder is given them: the
\* first packet is returned, none lets it read on, a bad header is an error.
ReadBytes ==
  /\ Take("next") /\ result.outcome = "ok" /\ result.bytes # <<>>
  /\ LET push == Push(decoder, result.bytes) IN
     /\ decoder' = push.buffer
     /\ broken' = (broken \/ ~push.ok)
     /\ IF push.packets = <<>> THEN UNCHANGED <<received, taken>>
        ELSE received' = Tail(push.packets) /\ taken' = Append(taken, Head(push.packets))
     /\ session' = [session EXCEPT !.empty = 0,
                       !.phase = IF push.ok /\ push.packets = <<>> THEN @ ELSE "linked"]
  /\ UNCHANGED <<gap, aligned>>

\* The session ends between two calls of the link.
Shutdown ==
  /\ session.phase = "linked" /\ Phase("closing")
  /\ UNCHANGED <<ioVars, chosen, saying, decoder, received, taken, broken, aligned, trace>>

\* close, or Drop: a handle that was abandoned is not closed again.
Close ==
  /\ session.phase = "closing" /\ Phase("closed")
  /\ CloseHandle \/ (handle = "closed" /\ UNCHANGED ioVars)
  /\ UNCHANGED <<chosen, saying, decoder, received, taken, broken, aligned, trace>>

\* The transport, in the middle of a call.
Transport == TransportStep /\ UNCHANGED callerVars

\* The driver and the printer.
Driver == DriverEnds /\ UNCHANGED callerVars

\* A step of the session.
Next ==
  \/ Open \/ WriteEntryCommand \/ EntryCommandWritten \/ ReadEntryReply \/ EntryReplyRead
  \/ Send \/ Sent \/ TakeReceived \/ Read \/ ReadFailed \/ ReadNothing \/ ReadBytes
  \/ Shutdown \/ Close \/ Transport \/ Driver

\* The waits of the transport end: GetOverlappedResultEx is given a limit each
\* time and CancelIoEx does not wait.  Nothing is assumed of the driver.
Spec == Init /\ [][Next]_vars /\ WF_vars(Transport)

-----------------------------------------------------------------------------
\* Types; the reads of the entry, the empty reads of a call and the entries of
\* the trace keep to their limits, whatever the transport returns.
TypeOK ==
  /\ handle \in {"none", "open", "closed"}
  /\ step \in {"idle", "waiting", "cancelling", "cleaning"}
  /\ io.state \in {"none", "pending", "cancelled", "done", "aborted", "failed"}
  /\ io.op \in {"none", "read", "write"}
  /\ buffer \in {"free", "held", "leaked"}
  /\ result.outcome \in {"none", "ok", "timeout", "failed", "unavailable"}
  /\ {doubt, gap, broken, aligned} \subseteq BOOLEAN
  /\ session.phase \in {"listed", "command", "entry", "linked", "sending", "next",
                        "closing", "closed"}
  /\ session.reads \in 0 .. ReadLimit /\ session.empty \in 0 .. MaxEmpty
  /\ session.calls \in 0 .. MaxCalls
  /\ Len(trace.entries) <= MaxEntries

\* The driver never holds memory that was given back, and once an operation was
\* abandoned with its memory no other is started.
MemoryHeld ==
  /\ io.state \in {"pending", "cancelled"} => buffer # "free"
  /\ buffer = "leaked" => handle = "closed" /\ step = "idle"

\* As long as every write was reported as done, the printer was sent exactly
\* what was written, in spite of writes the driver completes in part and of
\* timeouts that race a completion.
WrittenWhole == step = "idle" /\ ~doubt => arrived = told

\* Nothing is under way and the caller knows how its last call ended.
Settled == step = "idle" /\ result = NoResult

\* How many of the printer's packets are complete in what was read.
PacketsRead ==
  Cardinality({k \in DOMAIN saying.packets :
    LET upTo == [saying EXCEPT !.packets = SubSeq(@, 1, k), !.rest = <<>>] IN
    Len(Said(upTo)) <= Len(Said(saying)) - Len(line)})

\* However reads cut the stream, the link has the printer's packets, whole, in
\* order and none missing, unless bytes were lost to a timed out read or behind
\* the entry reply; a header that does not decode may cost packets read with
\* it, and nothing is taken for a packet after it.
FramesExact ==
  Settled /\ ~gap /\ session.phase \in {"linked", "next"} =>
    LET out == taken \o received IN
    IF broken THEN IsPrefix(out, SubSeq(saying.packets, 1, PacketsRead))
    ELSE out = SubSeq(saying.packets, 1, PacketsRead)

\* The trace of the interface and the link agree on what the packets are, also
\* when bytes were lost between two reads, until a header does not decode; if
\* the trace had seen the entry reply by the time the link had.
SameFraming ==
  Settled /\ aligned /\ ~broken /\ session.phase \in {"linked", "next", "sending"} =>
    taken \o received = trace.framed

\* No byte of a transfer that succeeded is missing in the trace: it is in an
\* entry, waits in a decoder, or was in one of the oldest entries.
TraceLosesNoByte ==
  \A dir \in {"tx", "rx"} :
    trace.shed[dir] \o BytesOf(trace.entries, dir) \o trace[dir].bytes
      = trace.seen[dir]

\* An interface is of the device asked for, alone in its container, and of the
\* interface number asked for.
Meant(m, s, i) ==
  LET ids == IdsOf(m, i.container) IN
  /\ \A id \in ids : id.device = s.device
  /\ s.interface # NoInterface => Explicit(ids) = {s.interface}

\* The interface that is opened is one that was asked for, and no other that is
\* present could be meant by the same request.
OpenedAsAsked ==
  [][handle = "none" /\ handle' = "open" =>
       LET m == chosen.machine
           s == chosen.selector
       IN \E i \in m.interfaces :
            /\ i.path = chosen'.path /\ Meant(m, s, i)
            /\ \A j \in m.interfaces : Meant(m, s, j) => j = i]_vars

\* A call of the transport returns, whatever the driver does.
IoReturns == step # "idle" ~> step = "idle"
=============================================================================
