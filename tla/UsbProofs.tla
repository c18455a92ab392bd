------------------------------ MODULE UsbProofs ------------------------------
(***************************************************************************)
(* What UsbSession.tla keeps for any set of processes, any number of opens *)
(* and both handoff policies: the driver and the printer are left as they  *)
(* were found, or somebody was told.                                       *)
(***************************************************************************)
EXTENDS UsbSession, TLAPS

-----------------------------------------------------------------------------
(* The inductive invariant.                                                *)

\* What is true of one process at a time.
\* A claim that the transport remembers is a claim the kernel knows of.
ClaimHeld(p) == claimed[p] => owner = p

\* Only the latest detacher has a driver to reattach, and it is still away.
SoleDetacher(p) ==
    detached[p] => detacher = p /\ owner # "driver" /\ home = "driver"

\* A driver still away after close was named by its error, and during Drop
\* its caller knows.
DriverTold(p) ==
    /\ detached[p] /\ step[p] = "closed" => "reattach" \in failures[p]
    /\ detached[p] /\ phase[p] = "dropping" => "driver" \in warned[p]

\* Only one process at a time is beyond its entry command.
InD4 == InLink \cup {"reply"}
LastUser(p) ==
    /\ phase[p] \in InD4 => user = p
    /\ phase[p] \in InD4 \cup {"entry"} => kind[p] = "session"

\* A D4 shutdown that succeeded is still true while its session closes.
ShutdownTrue(p) ==
    d4_shutdown[p] = "Succeeded" =>
        /\ phase[p] \in {"closing", "dropping"}
        /\ phase[p] = "closing" /\ user = p => mode # "conversation"

Local(p) ==
    ClaimHeld(p) /\ SoleDetacher(p) /\ DriverTold(p) /\ LastUser(p) /\ ShutdownTrue(p)

OwnerHome == owner = "driver" => home = "driver"

\* PrinterLeft, with the phases in which a caller has yet to be told.
PrinterTold ==
    mode = "conversation" =>
        \/ "printer" \in warned[user]
        \/ /\ phase[user] \in InD4 \cup {"closing"} /\ kind[user] = "session"
           /\ d4_shutdown[user] # "Succeeded"

IInv ==
    /\ TypeOK
    /\ \A p \in Processes : Local(p)
    /\ OwnerHome /\ DriverRestored /\ PrinterTold

-----------------------------------------------------------------------------
(* Every step of a process keeps it.  A step changes values of its own     *)
(* process only, and owner, detacher, mode and user.                       *)

\* A close that begins has not touched the driver yet.
LEMMA StartCloseRestores ==
    ASSUME IInv, NEW p \in Processes, StartClose(p), step[p] = "open", UNCHANGED warned
    PROVE  OwnerHome' /\ DriverRestored'
<1>1. UNCHANGED <<home, owner, detached, detacher, failures, warned>>
  BY DEF StartClose
<1>2. step[detacher] = "failed" => step'[detacher] = "failed"
  BY DEF StartClose, Goes, IInv, TypeOK, UsbTypeOK
<1> QED
  BY <1>1, <1>2 DEF IInv, OwnerHome, DriverRestored

-----------------------------------------------------------------------------
(* The transport's steps.                                                  *)

LEMMA BeginStep ==
    ASSUME IInv, NEW p \in Processes, NEW handoff \in Policies, NEW what \in {"session", "probe"}, Begin(p, handoff, what)
    PROVE  IInv'
<1> USE DEF Begin, Open, Goes, Tells, Enters, Fails, Warns
<1>1. UsbTypeOK'
  BY OpensAssumption DEF IInv, TypeOK, UsbTypeOK, Steps, Owners, Failures
<1>2. SessionTypeOK'
  BY DEF IInv, TypeOK, SessionTypeOK, Phases, Shutdowns, Modes, InLink
<1>3. \A q \in Processes : Agreement(q)'
  BY DEF IInv, TypeOK, UsbTypeOK, SessionTypeOK, Agreement, Steps, UsesInterface, InLink
<1>4. \A q \in Processes : Local(q)'
  BY ProcessAssumption DEF IInv, TypeOK, UsbTypeOK, SessionTypeOK, Agreement, Local, ClaimHeld,
     SoleDetacher, DriverTold, LastUser, ShutdownTrue, InD4, InLink, UsesInterface, OwnerHome
<1>5. OwnerHome' /\ DriverRestored'
  BY DEF IInv, TypeOK, UsbTypeOK, SessionTypeOK, Agreement, Local, SoleDetacher, DriverTold,
     OwnerHome, DriverRestored, InLink
<1>6. PrinterTold'
  BY DEF IInv, TypeOK, UsbTypeOK, SessionTypeOK, Local, LastUser, ShutdownTrue, InD4, InLink,
     PrinterTold
<1> QED
  BY <1>1, <1>2, <1>3, <1>4, <1>5, <1>6 DEF IInv, TypeOK

LEMMA QueryStep ==
    ASSUME IInv, NEW p \in Processes, Query(p), UNCHANGED session
    PROVE  IInv'
<1> USE DEF Query, session, Goes, Tells, Enters, Fails, Warns
<1>1. UsbTypeOK'
  BY OpensAssumption DEF IInv, TypeOK, UsbTypeOK, Steps, Owners, Failures
<1>2. SessionTypeOK'
  BY DEF IInv, TypeOK, SessionTypeOK, Phases, Shutdowns, Modes, InLink
<1>3. \A q \in Processes : Agreement(q)'
  BY DEF IInv, TypeOK, UsbTypeOK, SessionTypeOK, Agreement, Steps, UsesInterface, InLink
<1>4. \A q \in Processes : Local(q)'
  BY ProcessAssumption DEF IInv, TypeOK, UsbTypeOK, SessionTypeOK, Agreement, Local, ClaimHeld,
     SoleDetacher, DriverTold, LastUser, ShutdownTrue, InD4, InLink, UsesInterface, OwnerHome
<1>5. OwnerHome' /\ DriverRestored'
  BY DEF IInv, TypeOK, UsbTypeOK, SessionTypeOK, Agreement, Local, SoleDetacher, DriverTold,
     OwnerHome, DriverRestored, InLink
<1>6. PrinterTold'
  BY DEF IInv, TypeOK, UsbTypeOK, SessionTypeOK, Local, LastUser, ShutdownTrue, InD4, InLink,
     PrinterTold
<1> QED
  BY <1>1, <1>2, <1>3, <1>4, <1>5, <1>6 DEF IInv, TypeOK

LEMMA DetachStep ==
    ASSUME IInv, NEW p \in Processes, Detach(p), UNCHANGED session
    PROVE  IInv'
<1> USE DEF Detach, session, Goes, Tells, Enters, Fails, Warns
<1>1. UsbTypeOK'
  <2>1. owner' \in Owners /\ detacher' \in Processes
    BY DEF IInv, TypeOK, UsbTypeOK, Owners
  <2>2. step' \in [Processes -> Steps]
    BY DEF IInv, TypeOK, UsbTypeOK, Steps
  <2>3. claimed' \in [Processes -> BOOLEAN] /\ detached' \in [Processes -> BOOLEAN]
    BY DEF IInv, TypeOK, UsbTypeOK
  <2>4. failures' \in [Processes -> SUBSET Failures]
    <3>1. failures \in [Processes -> SUBSET Failures] /\ {"open", "claim"} \subseteq Failures
      BY DEF IInv, TypeOK, UsbTypeOK, Failures
    <3> QED
      BY <3>1
  <2> QED
    BY <2>1, <2>2, <2>3, <2>4 DEF IInv, TypeOK, UsbTypeOK
<1>2. SessionTypeOK'
  BY DEF IInv, TypeOK, SessionTypeOK, Phases, Shutdowns, Modes, InLink
<1>3. \A q \in Processes : Agreement(q)'
  BY DEF IInv, TypeOK, UsbTypeOK, SessionTypeOK, Agreement, Steps, UsesInterface, InLink
<1>4. \A q \in Processes : Local(q)'
  BY ProcessAssumption DEF IInv, TypeOK, UsbTypeOK, SessionTypeOK, Agreement, Local, ClaimHeld,
     SoleDetacher, DriverTold, LastUser, ShutdownTrue, InD4, InLink, UsesInterface, OwnerHome
<1>5. OwnerHome' /\ DriverRestored'
  BY DEF IInv, TypeOK, UsbTypeOK, SessionTypeOK, Agreement, Local, SoleDetacher, DriverTold,
     OwnerHome, DriverRestored, InLink
<1>6. PrinterTold'
  BY DEF IInv, TypeOK, UsbTypeOK, SessionTypeOK, Local, LastUser, ShutdownTrue, InD4, InLink,
     PrinterTold
<1> QED
  BY <1>1, <1>2, <1>3, <1>4, <1>5, <1>6 DEF IInv, TypeOK

LEMMA ClaimStep ==
    ASSUME IInv, NEW p \in Processes, Claim(p), UNCHANGED session
    PROVE  IInv'
<1> USE DEF Claim, AfterClaimError, session, Goes, Tells, Enters, Fails, Warns
<1>1. UsbTypeOK'
  <2>1. owner' \in Owners /\ detacher' \in Processes
    BY DEF IInv, TypeOK, UsbTypeOK, Owners
  <2>2. step' \in [Processes -> Steps]
    BY DEF IInv, TypeOK, UsbTypeOK, Steps
  <2>3. claimed' \in [Processes -> BOOLEAN] /\ detached' \in [Processes -> BOOLEAN]
    BY DEF IInv, TypeOK, UsbTypeOK
  <2>4. failures' \in [Processes -> SUBSET Failures]
    <3>1. failures \in [Processes -> SUBSET Failures] /\ {"open", "claim"} \subseteq Failures
      BY DEF IInv, TypeOK, UsbTypeOK, Failures
    <3> QED
      BY <3>1
  <2> QED
    BY <2>1, <2>2, <2>3, <2>4 DEF IInv, TypeOK, UsbTypeOK
<1>2. SessionTypeOK'
  BY DEF IInv, TypeOK, SessionTypeOK, Phases, Shutdowns, Modes, InLink
<1>3. \A q \in Processes : Agreement(q)'
  BY DEF IInv, TypeOK, UsbTypeOK, SessionTypeOK, Agreement, Steps, UsesInterface, InLink
<1>4. \A q \in Processes : Local(q)'
  BY ProcessAssumption DEF IInv, TypeOK, UsbTypeOK, SessionTypeOK, Agreement, Local, ClaimHeld,
     SoleDetacher, DriverTold, LastUser, ShutdownTrue, InD4, InLink, UsesInterface, OwnerHome
<1>5. OwnerHome' /\ DriverRestored'
  <2>1. OwnerHome'
    BY ProcessAssumption DEF IInv, TypeOK, UsbTypeOK, Local, SoleDetacher, OwnerHome
  <2>2. CASE detacher # p
    BY <2>1, <2>2, ProcessAssumption DEF IInv, TypeOK, UsbTypeOK, SessionTypeOK, Agreement, Local,
       SoleDetacher, ClaimHeld, DriverRestored, OwnerHome
  <2>3. CASE detacher = p
    BY <2>1, <2>3, ProcessAssumption DEF IInv, TypeOK, UsbTypeOK, SessionTypeOK, Agreement, Local,
       SoleDetacher, ClaimHeld, DriverTold, DriverRestored, InLink, OwnerHome
  <2> QED
    BY <2>1, <2>2, <2>3
<1>6. PrinterTold'
  BY DEF IInv, TypeOK, UsbTypeOK, SessionTypeOK, Local, LastUser, ShutdownTrue, InD4, InLink,
     PrinterTold
<1> QED
  BY <1>1, <1>2, <1>3, <1>4, <1>5, <1>6 DEF IInv, TypeOK

LEMMA UndoStep ==
    ASSUME IInv, NEW p \in Processes, Undo(p), UNCHANGED session
    PROVE  IInv'
<1> USE DEF Undo, Attach, session, Goes, Tells, Enters, Fails, Warns
<1>1. UsbTypeOK'
  BY OpensAssumption DEF IInv, TypeOK, UsbTypeOK, Steps, Owners, Failures
<1>2. SessionTypeOK'
  BY DEF IInv, TypeOK, SessionTypeOK, Phases, Shutdowns, Modes, InLink
<1>3. \A q \in Processes : Agreement(q)'
  BY DEF IInv, TypeOK, UsbTypeOK, SessionTypeOK, Agreement, Steps, UsesInterface, InLink
<1>4. \A q \in Processes : Local(q)'
  BY ProcessAssumption DEF IInv, TypeOK, UsbTypeOK, SessionTypeOK, Agreement, Local, ClaimHeld,
     SoleDetacher, DriverTold, LastUser, ShutdownTrue, InD4, InLink, UsesInterface, OwnerHome
<1>5. OwnerHome' /\ DriverRestored'
  BY DEF IInv, TypeOK, UsbTypeOK, SessionTypeOK, Agreement, Local, SoleDetacher, DriverTold,
     OwnerHome, DriverRestored, InLink
<1>6. PrinterTold'
  BY DEF IInv, TypeOK, UsbTypeOK, SessionTypeOK, Local, LastUser, ShutdownTrue, InD4, InLink,
     PrinterTold
<1> QED
  BY <1>1, <1>2, <1>3, <1>4, <1>5, <1>6 DEF IInv, TypeOK

LEMMA ReleaseStep ==
    ASSUME IInv, NEW p \in Processes, Release(p), UNCHANGED session
    PROVE  IInv'
<1> USE DEF Release, AfterRelease, Last, session, Goes, Tells, Enters, Fails, Warns
<1>1. UsbTypeOK'
  BY OpensAssumption DEF IInv, TypeOK, UsbTypeOK, Steps, Owners, Failures
<1>2. SessionTypeOK'
  BY DEF IInv, TypeOK, SessionTypeOK, Phases, Shutdowns, Modes, InLink
<1>3. \A q \in Processes : Agreement(q)'
  BY DEF IInv, TypeOK, UsbTypeOK, SessionTypeOK, Agreement, Steps, UsesInterface, InLink
<1>4. \A q \in Processes : Local(q)'
  BY ProcessAssumption DEF IInv, TypeOK, UsbTypeOK, SessionTypeOK, Agreement, Local, ClaimHeld,
     SoleDetacher, DriverTold, LastUser, ShutdownTrue, InD4, InLink, UsesInterface, OwnerHome
<1>5. OwnerHome' /\ DriverRestored'
  <2>1. OwnerHome'
    BY ProcessAssumption DEF IInv, TypeOK, UsbTypeOK, Local, SoleDetacher, OwnerHome
  <2>2. CASE detacher # p
    BY <2>1, <2>2, ProcessAssumption DEF IInv, TypeOK, UsbTypeOK, SessionTypeOK, Agreement, Local,
       SoleDetacher, ClaimHeld, DriverRestored, OwnerHome
  <2>3. CASE detacher = p
    BY <2>1, <2>3, ProcessAssumption DEF IInv, TypeOK, UsbTypeOK, SessionTypeOK, Agreement, Local,
       SoleDetacher, ClaimHeld, DriverTold, DriverRestored, InLink, OwnerHome
  <2> QED
    BY <2>1, <2>2, <2>3
<1>6. PrinterTold'
  BY DEF IInv, TypeOK, UsbTypeOK, SessionTypeOK, Local, LastUser, ShutdownTrue, InD4, InLink,
     PrinterTold
<1> QED
  BY <1>1, <1>2, <1>3, <1>4, <1>5, <1>6 DEF IInv, TypeOK

LEMMA ReattachStep ==
    ASSUME IInv, NEW p \in Processes, Reattach(p), UNCHANGED session
    PROVE  IInv'
<1> USE DEF Reattach, Attach, Last, session, Goes, Tells, Enters, Fails, Warns
<1>1. UsbTypeOK'
  BY OpensAssumption DEF IInv, TypeOK, UsbTypeOK, Steps, Owners, Failures
<1>2. SessionTypeOK'
  BY DEF IInv, TypeOK, SessionTypeOK, Phases, Shutdowns, Modes, InLink
<1>3. \A q \in Processes : Agreement(q)'
  BY DEF IInv, TypeOK, UsbTypeOK, SessionTypeOK, Agreement, Steps, UsesInterface, InLink
<1>4. \A q \in Processes : Local(q)'
  BY ProcessAssumption DEF IInv, TypeOK, UsbTypeOK, SessionTypeOK, Agreement, Local, ClaimHeld,
     SoleDetacher, DriverTold, LastUser, ShutdownTrue, InD4, InLink, UsesInterface, OwnerHome
<1>5. OwnerHome' /\ DriverRestored'
  BY DEF IInv, TypeOK, UsbTypeOK, SessionTypeOK, Agreement, Local, SoleDetacher, DriverTold,
     OwnerHome, DriverRestored, InLink
<1>6. PrinterTold'
  BY DEF IInv, TypeOK, UsbTypeOK, SessionTypeOK, Local, LastUser, ShutdownTrue, InD4, InLink,
     PrinterTold
<1> QED
  BY <1>1, <1>2, <1>3, <1>4, <1>5, <1>6 DEF IInv, TypeOK

-----------------------------------------------------------------------------
(* The session's steps.                                                    *)

LEMMA OpenFailedStep ==
    ASSUME IInv, NEW p \in Processes, OpenFailed(p)
    PROVE  IInv'
<1> USE DEF OpenFailed, Ends, Vanish, Released, DriverWarning, Goes, Tells, Enters, Fails, Warns
<1>1. UsbTypeOK'
  BY OpensAssumption DEF IInv, TypeOK, UsbTypeOK, Steps, Owners, Failures
<1>2. SessionTypeOK'
  BY DEF IInv, TypeOK, SessionTypeOK, Phases, Shutdowns, Modes, InLink
<1>3. \A q \in Processes : Agreement(q)'
  BY DEF IInv, TypeOK, UsbTypeOK, SessionTypeOK, Agreement, Steps, UsesInterface, InLink
<1>4. \A q \in Processes : Local(q)'
  BY ProcessAssumption DEF IInv, TypeOK, UsbTypeOK, SessionTypeOK, Agreement, Local, ClaimHeld,
     SoleDetacher, DriverTold, LastUser, ShutdownTrue, InD4, InLink, UsesInterface, OwnerHome
<1>5. OwnerHome' /\ DriverRestored'
  <2>1. OwnerHome'
    BY ProcessAssumption DEF IInv, TypeOK, UsbTypeOK, Local, SoleDetacher, OwnerHome
  <2>2. CASE detacher # p
    BY <2>1, <2>2, ProcessAssumption DEF IInv, TypeOK, UsbTypeOK, SessionTypeOK, Agreement, Local,
       SoleDetacher, ClaimHeld, DriverRestored, OwnerHome
  <2>3. CASE detacher = p
    BY <2>1, <2>3, ProcessAssumption DEF IInv, TypeOK, UsbTypeOK, SessionTypeOK, Agreement, Local,
       SoleDetacher, ClaimHeld, DriverTold, DriverRestored, InLink, OwnerHome
  <2> QED
    BY <2>1, <2>2, <2>3
<1>6. PrinterTold'
  BY DEF IInv, TypeOK, UsbTypeOK, SessionTypeOK, Local, LastUser, ShutdownTrue, InD4, InLink,
     PrinterTold
<1> QED
  BY <1>1, <1>2, <1>3, <1>4, <1>5, <1>6 DEF IInv, TypeOK

LEMMA OpenedStep ==
    ASSUME IInv, NEW p \in Processes, Opened(p)
    PROVE  IInv'
<1> USE DEF Opened, Onward, usb, Goes, Tells, Enters, Fails, Warns
<1>1. UsbTypeOK'
  BY OpensAssumption DEF IInv, TypeOK, UsbTypeOK, Steps, Owners, Failures
<1>2. SessionTypeOK'
  BY DEF IInv, TypeOK, SessionTypeOK, Phases, Shutdowns, Modes, InLink
<1>3. \A q \in Processes : Agreement(q)'
  BY DEF IInv, TypeOK, UsbTypeOK, SessionTypeOK, Agreement, Steps, UsesInterface, InLink
<1>4. \A q \in Processes : Local(q)'
  BY ProcessAssumption DEF IInv, TypeOK, UsbTypeOK, SessionTypeOK, Agreement, Local, ClaimHeld,
     SoleDetacher, DriverTold, LastUser, ShutdownTrue, InD4, InLink, UsesInterface, OwnerHome
<1>5. OwnerHome' /\ DriverRestored'
  BY DEF IInv, TypeOK, UsbTypeOK, SessionTypeOK, Agreement, Local, SoleDetacher, DriverTold,
     OwnerHome, DriverRestored, InLink
<1>6. PrinterTold'
  BY DEF IInv, TypeOK, UsbTypeOK, SessionTypeOK, Local, LastUser, ShutdownTrue, InD4, InLink,
     PrinterTold
<1> QED
  BY <1>1, <1>2, <1>3, <1>4, <1>5, <1>6 DEF IInv, TypeOK

LEMMA ProbeStep ==
    ASSUME IInv, NEW p \in Processes, Probe(p)
    PROVE  IInv'
<1> USE DEF Probe, BeginClose, StartClose, FirstCall, Goes, Tells, Enters, Fails, Warns
<1>1. UsbTypeOK'
  BY OpensAssumption DEF IInv, TypeOK, UsbTypeOK, Steps, Owners, Failures
<1>2. SessionTypeOK'
  BY DEF IInv, TypeOK, SessionTypeOK, Phases, Shutdowns, Modes, InLink
<1>3. \A q \in Processes : Agreement(q)'
  BY DEF IInv, TypeOK, UsbTypeOK, SessionTypeOK, Agreement, Steps, UsesInterface, InLink
<1>4. \A q \in Processes : Local(q)'
  BY ProcessAssumption DEF IInv, TypeOK, UsbTypeOK, SessionTypeOK, Agreement, Local, ClaimHeld,
     SoleDetacher, DriverTold, LastUser, ShutdownTrue, InD4, InLink, UsesInterface, OwnerHome
<1>5. OwnerHome' /\ DriverRestored'
  <2>1. step[p] = "open"
    BY DEF IInv, TypeOK, Agreement, UsesInterface, InLink
  <2> QED
    BY <2>1, StartCloseRestores
<1>6. PrinterTold'
  BY DEF IInv, TypeOK, UsbTypeOK, SessionTypeOK, Local, LastUser, ShutdownTrue, InD4, InLink,
     PrinterTold
<1> QED
  BY <1>1, <1>2, <1>3, <1>4, <1>5, <1>6 DEF IInv, TypeOK

LEMMA EntryWrittenStep ==
    ASSUME IInv, NEW p \in Processes, EntryWritten(p)
    PROVE  IInv'
<1> USE DEF EntryWritten, Onward, BeginClose, StartClose, FirstCall, usb, Goes, Tells, Enters, Fails, Warns
<1>1. UsbTypeOK'
  BY OpensAssumption DEF IInv, TypeOK, UsbTypeOK, Steps, Owners, Failures
<1>2. SessionTypeOK'
  BY DEF IInv, TypeOK, SessionTypeOK, Phases, Shutdowns, Modes, InLink
<1>3. \A q \in Processes : Agreement(q)'
  BY DEF IInv, TypeOK, UsbTypeOK, SessionTypeOK, Agreement, Steps, UsesInterface, InLink
<1>4. \A q \in Processes : Local(q)'
  BY ProcessAssumption DEF IInv, TypeOK, UsbTypeOK, SessionTypeOK, Agreement, Local, ClaimHeld,
     SoleDetacher, DriverTold, LastUser, ShutdownTrue, InD4, InLink, UsesInterface, OwnerHome
<1>5. OwnerHome' /\ DriverRestored'
  <2>1. step[p] = "open"
    BY DEF IInv, TypeOK, Agreement, UsesInterface, InLink
  <2>2. CASE StartClose(p)
    BY <2>1, <2>2, StartCloseRestores
  <2>3. CASE UNCHANGED usb
    BY <2>3 DEF IInv, OwnerHome, DriverRestored
  <2> QED
    BY <2>2, <2>3
<1>6. PrinterTold'
  BY DEF IInv, TypeOK, UsbTypeOK, SessionTypeOK, Local, LastUser, ShutdownTrue, InD4, InLink,
     PrinterTold
<1> QED
  BY <1>1, <1>2, <1>3, <1>4, <1>5, <1>6 DEF IInv, TypeOK

LEMMA EntryRepliedStep ==
    ASSUME IInv, NEW p \in Processes, EntryReplied(p)
    PROVE  IInv'
<1> USE DEF EntryReplied, Onward, BeginClose, StartClose, FirstCall, usb, Goes, Tells, Enters, Fails, Warns
<1>1. UsbTypeOK'
  BY OpensAssumption DEF IInv, TypeOK, UsbTypeOK, Steps, Owners, Failures
<1>2. SessionTypeOK'
  BY DEF IInv, TypeOK, SessionTypeOK, Phases, Shutdowns, Modes, InLink
<1>3. \A q \in Processes : Agreement(q)'
  BY DEF IInv, TypeOK, UsbTypeOK, SessionTypeOK, Agreement, Steps, UsesInterface, InLink
<1>4. \A q \in Processes : Local(q)'
  BY ProcessAssumption DEF IInv, TypeOK, UsbTypeOK, SessionTypeOK, Agreement, Local, ClaimHeld,
     SoleDetacher, DriverTold, LastUser, ShutdownTrue, InD4, InLink, UsesInterface, OwnerHome
<1>5. OwnerHome' /\ DriverRestored'
  <2>1. step[p] = "open"
    BY DEF IInv, TypeOK, Agreement, UsesInterface, InLink
  <2>2. CASE StartClose(p)
    BY <2>1, <2>2, StartCloseRestores
  <2>3. CASE UNCHANGED usb
    BY <2>3 DEF IInv, OwnerHome, DriverRestored
  <2> QED
    BY <2>2, <2>3
<1>6. PrinterTold'
  BY DEF IInv, TypeOK, UsbTypeOK, SessionTypeOK, Local, LastUser, ShutdownTrue, InD4, InLink,
     PrinterTold
<1> QED
  BY <1>1, <1>2, <1>3, <1>4, <1>5, <1>6 DEF IInv, TypeOK

LEMMA InitializedStep ==
    ASSUME IInv, NEW p \in Processes, Initialized(p)
    PROVE  IInv'
<1> USE DEF Initialized, Onward, BeginClose, StartClose, FirstCall, usb, Goes, Tells, Enters, Fails, Warns
<1>1. UsbTypeOK'
  BY OpensAssumption DEF IInv, TypeOK, UsbTypeOK, Steps, Owners, Failures
<1>2. SessionTypeOK'
  BY DEF IInv, TypeOK, SessionTypeOK, Phases, Shutdowns, Modes, InLink
<1>3. \A q \in Processes : Agreement(q)'
  BY DEF IInv, TypeOK, UsbTypeOK, SessionTypeOK, Agreement, Steps, UsesInterface, InLink
<1>4. \A q \in Processes : Local(q)'
  BY ProcessAssumption DEF IInv, TypeOK, UsbTypeOK, SessionTypeOK, Agreement, Local, ClaimHeld,
     SoleDetacher, DriverTold, LastUser, ShutdownTrue, InD4, InLink, UsesInterface, OwnerHome
<1>5. OwnerHome' /\ DriverRestored'
  <2>1. step[p] = "open"
    BY DEF IInv, TypeOK, Agreement, UsesInterface, InLink
  <2>2. CASE StartClose(p)
    BY <2>1, <2>2, StartCloseRestores
  <2>3. CASE UNCHANGED usb
    BY <2>3 DEF IInv, OwnerHome, DriverRestored
  <2> QED
    BY <2>2, <2>3
<1>6. PrinterTold'
  BY DEF IInv, TypeOK, UsbTypeOK, SessionTypeOK, Local, LastUser, ShutdownTrue, InD4, InLink,
     PrinterTold
<1> QED
  BY <1>1, <1>2, <1>3, <1>4, <1>5, <1>6 DEF IInv, TypeOK

LEMMA ServiceOpenedStep ==
    ASSUME IInv, NEW p \in Processes, ServiceOpened(p)
    PROVE  IInv'
<1> USE DEF ServiceOpened, PrinterMayLeave, Onward, usb, Goes, Tells, Enters, Fails, Warns
<1>1. UsbTypeOK'
  BY OpensAssumption DEF IInv, TypeOK, UsbTypeOK, Steps, Owners, Failures
<1>2. SessionTypeOK'
  BY DEF IInv, TypeOK, SessionTypeOK, Phases, Shutdowns, Modes, InLink
<1>3. \A q \in Processes : Agreement(q)'
  BY DEF IInv, TypeOK, UsbTypeOK, SessionTypeOK, Agreement, Steps, UsesInterface, InLink
<1>4. \A q \in Processes : Local(q)'
  BY ProcessAssumption DEF IInv, TypeOK, UsbTypeOK, SessionTypeOK, Agreement, Local, ClaimHeld,
     SoleDetacher, DriverTold, LastUser, ShutdownTrue, InD4, InLink, UsesInterface, OwnerHome
<1>5. OwnerHome' /\ DriverRestored'
  BY DEF IInv, TypeOK, UsbTypeOK, SessionTypeOK, Agreement, Local, SoleDetacher, DriverTold,
     OwnerHome, DriverRestored, InLink
<1>6. PrinterTold'
  BY DEF IInv, TypeOK, UsbTypeOK, SessionTypeOK, Local, LastUser, ShutdownTrue, InD4, InLink,
     PrinterTold
<1> QED
  BY <1>1, <1>2, <1>3, <1>4, <1>5, <1>6 DEF IInv, TypeOK

LEMMA SetupExitedStep ==
    ASSUME IInv, NEW p \in Processes, SetupExited(p)
    PROVE  IInv'
<1> USE DEF SetupExited, ExitWorks, ExitErrs, ShutDown, BeginClose, StartClose, FirstCall, Goes, Tells, Enters, Fails, Warns
<1>1. UsbTypeOK'
  BY OpensAssumption DEF IInv, TypeOK, UsbTypeOK, Steps, Owners, Failures
<1>2. SessionTypeOK'
  BY DEF IInv, TypeOK, SessionTypeOK, Phases, Shutdowns, Modes, InLink
<1>3. \A q \in Processes : Agreement(q)'
  BY DEF IInv, TypeOK, UsbTypeOK, SessionTypeOK, Agreement, Steps, UsesInterface, InLink
<1>4. \A q \in Processes : Local(q)'
  BY ProcessAssumption DEF IInv, TypeOK, UsbTypeOK, SessionTypeOK, Agreement, Local, ClaimHeld,
     SoleDetacher, DriverTold, LastUser, ShutdownTrue, InD4, InLink, UsesInterface, OwnerHome
<1>5. OwnerHome' /\ DriverRestored'
  <2>1. step[p] = "open"
    BY DEF IInv, TypeOK, Agreement, UsesInterface, InLink
  <2> QED
    BY <2>1, StartCloseRestores
<1>6. PrinterTold'
  BY DEF IInv, TypeOK, UsbTypeOK, SessionTypeOK, Local, LastUser, ShutdownTrue, InD4, InLink,
     PrinterTold
<1> QED
  BY <1>1, <1>2, <1>3, <1>4, <1>5, <1>6 DEF IInv, TypeOK

LEMMA OperatedStep ==
    ASSUME IInv, NEW p \in Processes, Operated(p)
    PROVE  IInv'
<1> USE DEF Operated, PrinterMayLeave, Onward, usb, Goes, Tells, Enters, Fails, Warns
<1>1. UsbTypeOK'
  BY OpensAssumption DEF IInv, TypeOK, UsbTypeOK, Steps, Owners, Failures
<1>2. SessionTypeOK'
  BY DEF IInv, TypeOK, SessionTypeOK, Phases, Shutdowns, Modes, InLink
<1>3. \A q \in Processes : Agreement(q)'
  BY DEF IInv, TypeOK, UsbTypeOK, SessionTypeOK, Agreement, Steps, UsesInterface, InLink
<1>4. \A q \in Processes : Local(q)'
  BY ProcessAssumption DEF IInv, TypeOK, UsbTypeOK, SessionTypeOK, Agreement, Local, ClaimHeld,
     SoleDetacher, DriverTold, LastUser, ShutdownTrue, InD4, InLink, UsesInterface, OwnerHome
<1>5. OwnerHome' /\ DriverRestored'
  BY DEF IInv, TypeOK, UsbTypeOK, SessionTypeOK, Agreement, Local, SoleDetacher, DriverTold,
     OwnerHome, DriverRestored, InLink
<1>6. PrinterTold'
  BY DEF IInv, TypeOK, UsbTypeOK, SessionTypeOK, Local, LastUser, ShutdownTrue, InD4, InLink,
     PrinterTold
<1> QED
  BY <1>1, <1>2, <1>3, <1>4, <1>5, <1>6 DEF IInv, TypeOK

LEMMA ChannelClosedStep ==
    ASSUME IInv, NEW p \in Processes, ChannelClosed(p)
    PROVE  IInv'
<1> USE DEF ChannelClosed, PrinterMayLeave, Onward, usb, Goes, Tells, Enters, Fails, Warns
<1>1. UsbTypeOK'
  BY OpensAssumption DEF IInv, TypeOK, UsbTypeOK, Steps, Owners, Failures
<1>2. SessionTypeOK'
  BY DEF IInv, TypeOK, SessionTypeOK, Phases, Shutdowns, Modes, InLink
<1>3. \A q \in Processes : Agreement(q)'
  BY DEF IInv, TypeOK, UsbTypeOK, SessionTypeOK, Agreement, Steps, UsesInterface, InLink
<1>4. \A q \in Processes : Local(q)'
  BY ProcessAssumption DEF IInv, TypeOK, UsbTypeOK, SessionTypeOK, Agreement, Local, ClaimHeld,
     SoleDetacher, DriverTold, LastUser, ShutdownTrue, InD4, InLink, UsesInterface, OwnerHome
<1>5. OwnerHome' /\ DriverRestored'
  BY DEF IInv, TypeOK, UsbTypeOK, SessionTypeOK, Agreement, Local, SoleDetacher, DriverTold,
     OwnerHome, DriverRestored, InLink
<1>6. PrinterTold'
  BY DEF IInv, TypeOK, UsbTypeOK, SessionTypeOK, Local, LastUser, ShutdownTrue, InD4, InLink,
     PrinterTold
<1> QED
  BY <1>1, <1>2, <1>3, <1>4, <1>5, <1>6 DEF IInv, TypeOK

LEMMA ExitedStep ==
    ASSUME IInv, NEW p \in Processes, Exited(p)
    PROVE  IInv'
<1> USE DEF Exited, ExitWorks, ExitErrs, ShutDown, ShutdownStatus, BeginClose, StartClose, FirstCall, Goes, Tells, Enters, Fails, Warns
<1>1. UsbTypeOK'
  BY OpensAssumption DEF IInv, TypeOK, UsbTypeOK, Steps, Owners, Failures
<1>2. SessionTypeOK'
  BY DEF IInv, TypeOK, SessionTypeOK, Phases, Shutdowns, Modes, InLink
<1>3. \A q \in Processes : Agreement(q)'
  BY DEF IInv, TypeOK, UsbTypeOK, SessionTypeOK, Agreement, Steps, UsesInterface, InLink
<1>4. \A q \in Processes : Local(q)'
  BY ProcessAssumption DEF IInv, TypeOK, UsbTypeOK, SessionTypeOK, Agreement, Local, ClaimHeld,
     SoleDetacher, DriverTold, LastUser, ShutdownTrue, InD4, InLink, UsesInterface, OwnerHome
<1>5. OwnerHome' /\ DriverRestored'
  <2>1. step[p] = "open"
    BY DEF IInv, TypeOK, Agreement, UsesInterface, InLink
  <2> QED
    BY <2>1, StartCloseRestores
<1>6. PrinterTold'
  BY DEF IInv, TypeOK, UsbTypeOK, SessionTypeOK, Local, LastUser, ShutdownTrue, InD4, InLink,
     PrinterTold
<1> QED
  BY <1>1, <1>2, <1>3, <1>4, <1>5, <1>6 DEF IInv, TypeOK

-----------------------------------------------------------------------------
(* The report, and the ways a session ends without one.                    *)

LEMMA ClosedStep ==
    ASSUME IInv, NEW p \in Processes, Closed(p)
    PROVE  IInv'
<1> USE DEF Closed, StartDrop, FirstCall, DriverWarning, PrinterWarning, Goes, Tells, Enters, Fails, Warns
<1>1. UsbTypeOK'
  BY OpensAssumption DEF IInv, TypeOK, UsbTypeOK, Steps, Owners, Failures
<1>2. SessionTypeOK'
  BY DEF IInv, TypeOK, SessionTypeOK, Phases, Shutdowns, Modes, InLink
<1>3. \A q \in Processes : Agreement(q)'
  BY DEF IInv, TypeOK, UsbTypeOK, SessionTypeOK, Agreement, Steps, UsesInterface, InLink
<1>4. \A q \in Processes : Local(q)'
  BY ProcessAssumption DEF IInv, TypeOK, UsbTypeOK, SessionTypeOK, Agreement, Local, ClaimHeld,
     SoleDetacher, DriverTold, LastUser, ShutdownTrue, InD4, InLink, UsesInterface, OwnerHome
<1>5. OwnerHome' /\ DriverRestored'
  BY DEF IInv, TypeOK, UsbTypeOK, SessionTypeOK, Agreement, Local, SoleDetacher, DriverTold,
     OwnerHome, DriverRestored, InLink
<1>6. PrinterTold'
  BY DEF IInv, TypeOK, UsbTypeOK, SessionTypeOK, Local, LastUser, ShutdownTrue, InD4, InLink,
     PrinterTold
<1> QED
  BY <1>1, <1>2, <1>3, <1>4, <1>5, <1>6 DEF IInv, TypeOK

LEMMA DroppedStep ==
    ASSUME IInv, NEW p \in Processes, Dropped(p)
    PROVE  IInv'
<1> USE DEF Dropped, Ends, Vanish, Released, Goes, Tells, Enters, Fails, Warns
<1>1. UsbTypeOK'
  BY OpensAssumption DEF IInv, TypeOK, UsbTypeOK, Steps, Owners, Failures
<1>2. SessionTypeOK'
  BY DEF IInv, TypeOK, SessionTypeOK, Phases, Shutdowns, Modes, InLink
<1>3. \A q \in Processes : Agreement(q)'
  BY DEF IInv, TypeOK, UsbTypeOK, SessionTypeOK, Agreement, Steps, UsesInterface, InLink
<1>4. \A q \in Processes : Local(q)'
  BY ProcessAssumption DEF IInv, TypeOK, UsbTypeOK, SessionTypeOK, Agreement, Local, ClaimHeld,
     SoleDetacher, DriverTold, LastUser, ShutdownTrue, InD4, InLink, UsesInterface, OwnerHome
<1>5. OwnerHome' /\ DriverRestored'
  <2>1. OwnerHome'
    BY ProcessAssumption DEF IInv, TypeOK, UsbTypeOK, Local, SoleDetacher, OwnerHome
  <2>2. CASE detacher # p
    BY <2>1, <2>2, ProcessAssumption DEF IInv, TypeOK, UsbTypeOK, SessionTypeOK, Agreement, Local,
       SoleDetacher, ClaimHeld, DriverRestored, OwnerHome
  <2>3. CASE detacher = p
    BY <2>1, <2>3, ProcessAssumption DEF IInv, TypeOK, UsbTypeOK, SessionTypeOK, Agreement, Local,
       SoleDetacher, ClaimHeld, DriverTold, DriverRestored, InLink, OwnerHome
  <2> QED
    BY <2>1, <2>2, <2>3
<1>6. PrinterTold'
  BY DEF IInv, TypeOK, UsbTypeOK, SessionTypeOK, Local, LastUser, ShutdownTrue, InD4, InLink,
     PrinterTold
<1> QED
  BY <1>1, <1>2, <1>3, <1>4, <1>5, <1>6 DEF IInv, TypeOK

LEMMA PanicStep ==
    ASSUME IInv, NEW p \in Processes, Panic(p)
    PROVE  IInv'
<1> USE DEF Panic, StartDrop, FirstCall, Goes, Tells, Enters, Fails, Warns
<1>1. UsbTypeOK'
  BY OpensAssumption DEF IInv, TypeOK, UsbTypeOK, Steps, Owners, Failures
<1>2. SessionTypeOK'
  BY DEF IInv, TypeOK, SessionTypeOK, Phases, Shutdowns, Modes, InLink
<1>3. \A q \in Processes : Agreement(q)'
  BY DEF IInv, TypeOK, UsbTypeOK, SessionTypeOK, Agreement, Steps, UsesInterface, InLink
<1>4. \A q \in Processes : Local(q)'
  BY ProcessAssumption DEF IInv, TypeOK, UsbTypeOK, SessionTypeOK, Agreement, Local, ClaimHeld,
     SoleDetacher, DriverTold, LastUser, ShutdownTrue, InD4, InLink, UsesInterface, OwnerHome
<1>5. OwnerHome' /\ DriverRestored'
  BY DEF IInv, TypeOK, UsbTypeOK, SessionTypeOK, Agreement, Local, SoleDetacher, DriverTold,
     OwnerHome, DriverRestored, InLink
<1>6. PrinterTold'
  BY DEF IInv, TypeOK, UsbTypeOK, SessionTypeOK, Local, LastUser, ShutdownTrue, InD4, InLink,
     PrinterTold
<1> QED
  BY <1>1, <1>2, <1>3, <1>4, <1>5, <1>6 DEF IInv, TypeOK

LEMMA KillStep ==
    ASSUME IInv, NEW p \in Processes, Kill(p)
    PROVE  IInv'
<1> USE DEF Kill, Ends, Vanish, Released, Goes, Tells, Enters, Fails, Warns
<1>1. UsbTypeOK'
  BY OpensAssumption DEF IInv, TypeOK, UsbTypeOK, Steps, Owners, Failures
<1>2. SessionTypeOK'
  BY DEF IInv, TypeOK, SessionTypeOK, Phases, Shutdowns, Modes, InLink
<1>3. \A q \in Processes : Agreement(q)'
  BY DEF IInv, TypeOK, UsbTypeOK, SessionTypeOK, Agreement, Steps, UsesInterface, InLink
<1>4. \A q \in Processes : Local(q)'
  BY ProcessAssumption DEF IInv, TypeOK, UsbTypeOK, SessionTypeOK, Agreement, Local, ClaimHeld,
     SoleDetacher, DriverTold, LastUser, ShutdownTrue, InD4, InLink, UsesInterface, OwnerHome
<1>5. OwnerHome' /\ DriverRestored'
  <2>1. OwnerHome'
    BY ProcessAssumption DEF IInv, TypeOK, UsbTypeOK, Local, SoleDetacher, OwnerHome
  <2>2. CASE detacher # p
    BY <2>1, <2>2, ProcessAssumption DEF IInv, TypeOK, UsbTypeOK, SessionTypeOK, Agreement, Local,
       SoleDetacher, ClaimHeld, DriverRestored, OwnerHome
  <2>3. CASE detacher = p
    BY <2>1, <2>3, ProcessAssumption DEF IInv, TypeOK, UsbTypeOK, SessionTypeOK, Agreement, Local,
       SoleDetacher, ClaimHeld, DriverTold, DriverRestored, InLink, OwnerHome
  <2> QED
    BY <2>1, <2>2, <2>3
<1>6. PrinterTold'
  BY DEF IInv, TypeOK, UsbTypeOK, SessionTypeOK, Local, LastUser, ShutdownTrue, InD4, InLink,
     PrinterTold
<1> QED
  BY <1>1, <1>2, <1>3, <1>4, <1>5, <1>6 DEF IInv, TypeOK

-----------------------------------------------------------------------------
(* The theorems.                                                           *)

LEMMA Initially == Init => IInv
<1> SUFFICES ASSUME Init PROVE IInv
  OBVIOUS
<1> USE DEF Init, UsbInit
<1>1. UsbTypeOK /\ SessionTypeOK
  BY OpensAssumption DEF UsbTypeOK, SessionTypeOK, Steps, Owners, Phases, Shutdowns, Modes
<1>2. \A p \in Processes : Agreement(p)
  BY DEF Agreement, Steps, UsesInterface, InLink
<1>3. \A p \in Processes : Local(p)
  BY DEF Local, ClaimHeld, SoleDetacher, DriverTold, LastUser, ShutdownTrue, InD4, InLink
<1>4. OwnerHome /\ DriverRestored /\ PrinterTold
  BY DEF OwnerHome, DriverRestored, PrinterTold
<1> QED
  BY <1>1, <1>2, <1>3, <1>4 DEF IInv, TypeOK

LEMMA Inductive == IInv /\ [Next]_vars => IInv'
<1> SUFFICES ASSUME IInv, [Next]_vars PROVE IInv'
  OBVIOUS
<1>1. CASE UNCHANGED vars
  BY <1>1 DEF IInv, vars, usb, session, TypeOK, UsbTypeOK, SessionTypeOK, Agreement, Local,
     ClaimHeld, SoleDetacher, DriverTold, LastUser, ShutdownTrue, OwnerHome, DriverRestored,
     PrinterTold
<1>2. CASE Next
  <2>1. PICK p \in Processes :
          \/ \E handoff \in Policies, what \in {"session", "probe"} : Begin(p, handoff, what)
          \/ (Opening(p) \/ Closing(p)) /\ UNCHANGED session
          \/ OpenFailed(p) \/ Opened(p) \/ Probe(p)
          \/ EntryWritten(p) \/ EntryReplied(p) \/ Initialized(p)
          \/ ServiceOpened(p) \/ SetupExited(p)
          \/ Operated(p) \/ ChannelClosed(p) \/ Exited(p)
          \/ Closed(p) \/ Dropped(p) \/ Panic(p) \/ Kill(p)
    BY <1>2 DEF Next
  <2>2. CASE Opening(p) /\ UNCHANGED session
    BY <2>2, QueryStep, DetachStep, ClaimStep, UndoStep DEF Opening
  <2>3. CASE Closing(p) /\ UNCHANGED session
    BY <2>3, ReleaseStep, ReattachStep DEF Closing
  <2>4. CASE OpenFailed(p) \/ Opened(p) \/ Probe(p)
    BY <2>4, OpenFailedStep, OpenedStep, ProbeStep
  <2>5. CASE EntryWritten(p) \/ EntryReplied(p) \/ Initialized(p)
    BY <2>5, EntryWrittenStep, EntryRepliedStep, InitializedStep
  <2>6. CASE ServiceOpened(p) \/ SetupExited(p)
    BY <2>6, ServiceOpenedStep, SetupExitedStep
  <2>7. CASE Operated(p) \/ ChannelClosed(p) \/ Exited(p)
    BY <2>7, OperatedStep, ChannelClosedStep, ExitedStep
  <2>8. CASE Closed(p) \/ Dropped(p) \/ Panic(p) \/ Kill(p)
    BY <2>8, ClosedStep, DroppedStep, PanicStep, KillStep
  <2> QED
    BY <2>1, <2>2, <2>3, <2>4, <2>5, <2>6, <2>7, <2>8, BeginStep
<1> QED
  BY <1>1, <1>2

LEMMA Invariant == Spec => []IInv
  BY Initially, Inductive, PTL DEF Spec

\* The sessions and their transports keep their types, and each process's
\* session and transport agree on where they are.
THEOREM TypeCorrect == Spec => []TypeOK
<1>1. IInv => TypeOK
  BY DEF IInv
<1> QED
  BY <1>1, Invariant, PTL

\* However many processes contend for the interface, each one uses it only
\* while the kernel grants it the claim (claim_interface_with_policy, close).
THEOREM UseIsExclusive == Spec => []ExclusiveUse
<1>1. IInv => ExclusiveUse
  BY DEF IInv, TypeOK, Agreement, Local, ClaimHeld, ExclusiveUse
<1> QED
  BY <1>1, Invariant, PTL

\* A kernel driver that was detached is reattached, or its detacher's caller
\* has been told (the errors of open and close, and Drop's second attempt).
THEOREM DriverIsRestored == Spec => []DriverRestored
<1>1. IInv => DriverRestored
  BY DEF IInv
<1> QED
  BY <1>1, Invariant, PTL

\* A printer is left in a conversation only with a record that says so
\* (connect_recoverable, shutdown, the cleanup record).
THEOREM PrinterIsLeft == Spec => []PrinterLeft
<1>1. IInv => PrinterLeft
  BY DEF IInv, PrinterTold, PrinterLeft, InD4, InLink
<1> QED
  BY <1>1, Invariant, PTL

\* Only a transport that detached a driver attaches one (the contract of
\* ByteTransport); the invariant says which steps hold a detached driver.
THEOREM DriverIsOwn == Spec => OnlyOwnDriver
<1> DEFINE Own == \E p \in Processes : detached[p] /\ ~detached'[p]
<1>1. ASSUME IInv, [Next]_vars, owner # "driver", owner' = "driver"
      PROVE  Own
  <2>1. PICK p \in Processes : Undo(p) \/ Reattach(p)
    <3>1. owner' # owner
      BY <1>1
    <3>2. PICK p \in Processes :
            Undo(p) \/ Reattach(p) \/ Detach(p) \/ Claim(p) \/ Release(p) \/ Vanish(p)
      BY <1>1, <3>1 DEF Next, vars, usb, Begin, Open, Opening, Query, Closing, OpenFailed, Opened,
         Probe, EntryWritten, EntryReplied, Initialized, ServiceOpened, SetupExited, Operated,
         ChannelClosed, Exited, Closed, Dropped, Panic, Kill, Ends, Onward, BeginClose,
         StartClose, StartDrop
    <3> QED
      BY <1>1, <3>2, ProcessAssumption DEF Detach, Claim, Release, Vanish, Released
  <2>2. detached[p] /\ detached \in [Processes -> BOOLEAN]
    BY <1>1, <2>1 DEF IInv, TypeOK, UsbTypeOK, Agreement, Undo, Reattach
  <2>3. ~detached'[p]
    BY <1>1, <2>1, <2>2 DEF Undo, Reattach
  <2> QED
    BY <2>2, <2>3
<1>2. IInv /\ [Next]_vars => [owner # "driver" /\ owner' = "driver" => Own]_vars
  BY <1>1
<1> QED
  BY <1>2, Invariant, PTL DEF Spec, OnlyOwnDriver

=============================================================================
