-------------------------- MODULE UsbprintDiscovery --------------------------
(***************************************************************************)
(* How the USBPRINT interface to open is found on Windows: the interfaces  *)
(* that are present are listed, each is given the USB identity of the      *)
(* devices in its container, and exactly one may match what was asked for. *)
(*                                                                         *)
(* A machine is what SetupAPI tells: the interfaces, each with its path    *)
(* and its container, and the devices, each with its container and the     *)
(* USB hardware IDs among its own.  NoContainer is a device without one,   *)
(* Unreadable one whose properties cannot be queried.                      *)
(***************************************************************************)
EXTENDS Naturals, FiniteSets

CONSTANTS NoContainer, Unreadable, NoInterface

\* A USB hardware ID: the device, and the interface of it when the ID names one.
HardwareId(device, interface) == [device |-> device, interface |-> interface]

\* enumerate_usb_device_identities can read every device.
DevicesReadable(m) == \A d \in m.devices : d.container # Unreadable

\* enumerate_usb_device_identities: the USB hardware IDs of a container.
IdsOf(m, container) ==
  UNION {d.ids : d \in {e \in m.devices : e.container = container}}

\* The interfaces that hardware IDs name.
Explicit(ids) == {id.interface : id \in ids} \ {NoInterface}

\* Mutant: of several interfaces of one container one is taken.
FirstInterface(ids) ==
  IF Explicit(ids) = {} THEN NoInterface ELSE CHOOSE i \in Explicit(ids) : TRUE

\* correlate_hardware_ids: the interface is known only when it is the one named.
InterfaceOf(ids) ==
  IF Cardinality(Explicit(ids)) = 1 THEN CHOOSE i \in Explicit(ids) : TRUE
  ELSE NoInterface

\* correlate_hardware_ids: a container with IDs of several devices is nobody's.
Correlates(ids) == Cardinality({id.device : id \in ids}) = 1

\* list_windows_native_printer_candidates fails as a whole when one interface
\* has no container, or no single device is found in it.
Lists(m) ==
  /\ DevicesReadable(m)
  /\ \A i \in m.interfaces :
       /\ i.container \notin {NoContainer, Unreadable}
       /\ Correlates(IdsOf(m, i.container))

\* One element of the list.
Candidate(m, i) ==
  LET ids == IdsOf(m, i.container) IN
  [path      |-> i.path,
   device    |-> CHOOSE d \in {id.device : id \in ids} : TRUE,
   interface |-> InterfaceOf(ids)]

\* list_windows_native_printer_candidates: the list.
Candidates(m) == {Candidate(m, i) : i \in m.interfaces}

\* select_native_candidate: those the selector may mean.
Matches(m, s) ==
  {c \in Candidates(m) : c.device = s.device /\ s.interface \in {NoInterface, c.interface}}

\* select_native_candidate never chooses among several.
Selects(m, s) == Lists(m) /\ Cardinality(Matches(m, s)) = 1

\* select_native_candidate: the one that matches.
Selected(m, s) == CHOOSE c \in Matches(m, s) : TRUE
=============================================================================
