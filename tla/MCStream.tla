------------------------------- MODULE MCStream -------------------------------
(***************************************************************************)
(* The machines, the selectors and the sayings of the printer that         *)
(* PacketStream is checked with.                                           *)
(***************************************************************************)
EXTENDS PacketStream

\* A device and its hardware IDs in a container.
Device(container, ids) == [container |-> container, ids |-> ids]

\* An interface of a machine.
Interface(path, container) == [path |-> path, container |-> container]

\* A printer of one function; one of two, named or not; two alike; two devices
\* in one container; a container with no USB device; properties that cannot be
\* had.
MCMachines ==
  {[interfaces |-> {Interface("p1", "c1")}, devices |-> {Device("c1", ids)}] :
     ids \in {{HardwareId("a", NoInterface)},
             {HardwareId("a", NoInterface), HardwareId("a", "0")},
             {HardwareId("a", "0"), HardwareId("a", "1")},
             {HardwareId("a", "0"), HardwareId("b", "0")}, {}}}
  \cup
  {[interfaces |-> {Interface("p1", "c1"), Interface("p2", c)},
    devices |-> {Device("c1", {HardwareId("a", "0")}), Device("c2", {HardwareId(d, i)})}] :
     c \in {"c1", "c2", NoContainer}, d \in {"a", "b"},
     i \in {NoInterface, "0", "1"}}
  \cup
  {[interfaces |-> {}, devices |-> {Device(Unreadable, {})}]}

\* The device alone, and with each of its interfaces.
MCSelectors == {[device |-> "a", interface |-> i] : i \in {NoInterface, "0", "1"}}

\* What the printer says: nothing before its reply, or a byte of noise that
\* begins like it; two packets, one of them without payload, or a second entry
\* reply, with and without noise before the first; behind them a header with
\* reserved bits or one that is too short; no reply at all.
MCSayings ==
  {[noise |-> <<>>, reply |-> EntryReply, packets |-> <<<<1, 2>>, <<0, 3, 3>>>>, rest |-> <<3, 2>>],
   [noise |-> <<0>>, reply |-> EntryReply, packets |-> <<<<2, 2>>>>, rest |-> <<1, 1, 0, 2>>],
   [noise |-> <<>>, reply |-> EntryReply, packets |-> <<EntryReply>>, rest |-> <<>>],
   [noise |-> <<0>>, reply |-> EntryReply, packets |-> <<EntryReply>>, rest |-> <<>>],
   [noise |-> <<1, 2>>, reply |-> <<>>, packets |-> <<>>, rest |-> <<>>]}

\* A packet of the host.
MCCommand == <<1, 2>>
=============================================================================
