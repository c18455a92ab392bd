---------------------------- MODULE PacketFraming ----------------------------
(***************************************************************************)
(* How bytes become packets, twice: in the D4 link (PacketDecoder) and in  *)
(* the debug trace of the graphical interface (DebugTrafficDecoder).       *)
(*                                                                         *)
(* A byte is a small number and a header is two bytes, control and length  *)
(* (the sockets and the credit decide nothing here).  As in the code, the  *)
(* length counts the header, a length below the header's is refused, and   *)
(* so is a control byte with reserved bits, here ReservedBits.             *)
(***************************************************************************)
EXTENDS Naturals, Sequences, SequencesExt, FiniteSetsExt

\* HEADER_LENGTH, of both decoders.
HeaderLength == 2

\* A control byte outside CONTROL_MASK.
ReservedBits == 3

\* EPSON_D4_ENTRY_COMMAND, which does not decode as a packet.
EntryCommand == <<ReservedBits, 2>>

\* EPSON_D4_ENTRY_REPLY, which is itself a well-formed packet.
EntryReply == <<0, 3, 2>>

\* A complete header stands at position i of b.
HasHeader(b, i) == i + HeaderLength - 1 <= Len(b)

\* The header at position i of b decodes.
Decodes(b, i) == b[i] # ReservedBits /\ b[i + 1] >= HeaderLength

\* The first position after the packet at position i of b.
EndOfPacket(b, i) == i + b[i + 1]

\* Mutant: a packet that ends with what is buffered waits for one byte more.
CompleteLate(b, i) == EndOfPacket(b, i) <= Len(b)

\* The packet at position i of b is there as a whole.
Complete(b, i) == EndOfPacket(b, i) <= Len(b) + 1

\* Mutant: what is left of a read after its last whole packet is dropped.
PushWholeOnly(buffer, bytes) ==
  LET b == buffer \o bytes
      from[i \in 1 .. Len(b) + 1] ==
        IF ~HasHeader(b, i) \/ ~Decodes(b, i) \/ ~Complete(b, i) THEN <<>>
        ELSE LET end == EndOfPacket(b, i) IN <<SubSeq(b, i, end - 1)>> \o from[end]
  IN [ok |-> TRUE, packets |-> from[1], buffer |-> <<>>]

\* PacketDecoder::push: the packets completed by bytes and what stays in the
\* buffer.  A header that does not decode ends the call with an error: the
\* packets drained before it are gone, and it stays in front.
Push(buffer, bytes) ==
  LET b == buffer \o bytes
      from[i \in 1 .. Len(b) + 1] ==
        IF ~HasHeader(b, i) THEN [ok |-> TRUE, packets |-> <<>>, at |-> i]
        ELSE IF ~Decodes(b, i) THEN [ok |-> FALSE, packets |-> <<>>, at |-> i]
        ELSE IF ~Complete(b, i) THEN [ok |-> TRUE, packets |-> <<>>, at |-> i]
        ELSE LET end == EndOfPacket(b, i) IN
             [from[end] EXCEPT !.packets = <<SubSeq(b, i, end - 1)>> \o @]
  IN [ok      |-> from[1].ok,
      packets |-> IF from[1].ok THEN from[1].packets ELSE <<>>,
      buffer  |-> SubSeq(b, from[1].at, Len(b))]

-----------------------------------------------------------------------------
\* A line of the trace before it is put in words.
Transfer(kind, bytes) == [kind |-> kind, bytes |-> bytes]

\* A decoder of one direction that has seen nothing.
NewTraceDecoder == [bytes |-> <<>>, active |-> FALSE]

\* What b may still become: entry starts with it, or it starts with entry.
MayBeEntry(b, entry) == IsPrefix(b, entry) \/ IsPrefix(entry, b)

\* DebugTrafficDecoder::next_packet_start: the next position where a header
\* decodes, or the end of what is buffered.
NextPacketStart(b, i) ==
  Min({s \in i + 1 .. Len(b) : HasHeader(b, s) /\ Decodes(b, s)} \cup {Len(b) + 1})

\* The transfers of b from position i on, once the entry has been seen: packets,
\* and as raw bytes what lies before the next header that decodes.
ActiveTransfers(b, i) ==
  LET from[k \in 1 .. Len(b) + 1] ==
        IF ~HasHeader(b, k) THEN [transfers |-> <<>>, at |-> k]
        ELSE IF ~Decodes(b, k)
             THEN LET next == NextPacketStart(b, k) IN
                  [from[next] EXCEPT !.transfers =
                     <<Transfer("raw", SubSeq(b, k, next - 1))>> \o @]
        ELSE IF ~Complete(b, k) THEN [transfers |-> <<>>, at |-> k]
        ELSE LET end == EndOfPacket(b, k) IN
             [from[end] EXCEPT !.transfers =
                <<Transfer("packet", SubSeq(b, k, end - 1))>> \o @]
  IN [transfers |-> from[i].transfers,
      decoder   |-> [bytes |-> SubSeq(b, from[i].at, Len(b)), active |-> TRUE]]

\* The loop of DebugTrafficDecoder::push over what is buffered.
Transfers(b, active, entry) ==
  IF active THEN ActiveTransfers(b, 1)
  ELSE IF IsPrefix(entry, b)
       THEN LET rest == ActiveTransfers(b, Len(entry) + 1) IN
            [rest EXCEPT !.transfers = <<Transfer("entry", entry)>> \o @]
  ELSE IF IsPrefix(b, entry)
       THEN [transfers |-> <<>>, decoder |-> [bytes |-> b, active |-> FALSE]]
  ELSE [transfers |-> <<Transfer("raw", b)>>, decoder |-> NewTraceDecoder]

\* Mutant: pending bytes that do not become the entry are forgotten.
TracePushForgets(d, bytes, entry) ==
  IF bytes = <<>> THEN [transfers |-> <<Transfer("empty", <<>>)>>, decoder |-> d]
  ELSE IF ~d.active /\ ~MayBeEntry(d.bytes \o bytes, entry) THEN Transfers(bytes, FALSE, entry)
  ELSE Transfers(d.bytes \o bytes, d.active, entry)

\* DebugTrafficDecoder::push.  Pending bytes that the new ones do not continue
\* towards the entry are given up as raw bytes first.
TracePush(d, bytes, entry) ==
  IF bytes = <<>> THEN [transfers |-> <<Transfer("empty", <<>>)>>, decoder |-> d]
  ELSE IF ~d.active /\ d.bytes # <<>> /\ ~MayBeEntry(d.bytes \o bytes, entry)
       THEN LET rest == Transfers(bytes, FALSE, entry) IN
            [rest EXCEPT !.transfers = <<Transfer("raw", d.bytes)>> \o @]
  ELSE Transfers(d.bytes \o bytes, d.active, entry)
=============================================================================
