------------------------------ MODULE GuiProofs ------------------------------
(***************************************************************************)
(* What Gui.tla keeps for any models and any number of places, however     *)
(* printers are plugged and unplugged: the scan and the worker never meet, *)
(* a write goes where its dialog said, what is shown is about what is      *)
(* selected, and the report is true.                                       *)
(***************************************************************************)
EXTENDS Gui, NaturalSets, FiniteSetTheorems, TLAPS

-----------------------------------------------------------------------------
(* The inductive invariant: the worker.                                    *)

WorkRecord ==
    work = [phase |-> work.phase, port |-> work.port, model |-> work.model,
            request |-> work.request, acknowledged |-> work.acknowledged,
            image |-> work.image, shown |-> work.shown, printer |-> work.printer,
            reached |-> work.reached, ok |-> work.ok, backup |-> work.backup,
            owed |-> work.owed, conversing |-> work.conversing,
            shutdown |-> work.shutdown, close |-> work.close]

Connected == {"identity", "act", "backup", "apply", "shutdown"}
Verifying == {"act", "backup", "apply"}

\* Beyond read_identity the session talks to a printer of the confirmed model,
\* if it is still there, and nothing else was read or written.
TargetVerified ==
    /\ work.phase \in Verifying => work.printer \in {work.model, None}
    /\ work.phase \in {"backup", "apply"} => work.reached = work.model
    /\ work.ok => work.reached = work.model

\* Only an acknowledged mutation comes to its backup, and then to its write.
MutationPrepared ==
    /\ work.phase \in {"backup", "apply"} => work.request \in Mutations
    /\ work.phase = "apply" => work.backup
    /\ /\ work.phase \in {"open"} \cup Connected
       /\ work.request \in Mutations /\ work.port \in Native
       => work.acknowledged

\* The cleanup is recorded once, after the session, and truly.
CleanupTrue ==
    /\ work.phase \in {"prepare", "open"} \cup Connected => work.shutdown = "not_attempted"
    /\ work.shutdown = "succeeded" => ~work.conversing
    /\ work.owed => work.phase \in {"apply", "spinning", "stopped"}

WInv == WorkRecord /\ TargetVerified /\ MutationPrepared /\ CleanupTrue

\* What the closure captured does not change while it runs.
Captured == <<work.port, work.model, work.request, work.shown>>

\* Every step of the worker and every replug keeps it.
LEMMA WorkKeeps ==
    ASSUME WInv, \/ Work \/ Stop \/ Spin
                 \/ \E port \in Ports, printer \in Models \cup {None} : Replug(port, printer)
    PROVE  WInv' /\ UNCHANGED Captured /\ (Busy => Busy') /\ (Running' => Running)
                 /\ (Busy' => Busy)
<1> USE DEF WInv, WorkRecord, TargetVerified, MutationPrepared, CleanupTrue, Captured,
            Connected, Verifying, Busy, Running, Refused, Proceeds, Errs, Mutations
<1>1. CASE Prepare
  BY <1>1 DEF Prepare, Acknowledged
<1>2. CASE Connect
  <2>1. CASE Refused
    BY <1>2, <2>1 DEF Connect
  <2>2. CASE work' = [work EXCEPT !.phase = "identity", !.conversing = TRUE,
                                  !.printer = plugged[work.port]]
    BY <1>2, <2>2 DEF Connect
  <2>3. CASE \E shutdown \in Cleanups, left \in BOOLEAN :
               /\ shutdown = "succeeded" => left
               /\ work' = [work EXCEPT !.phase = "close", !.conversing = ~left,
                                       !.shutdown = shutdown]
    <3> PICK shutdown \in Cleanups, left \in BOOLEAN :
               /\ shutdown = "succeeded" => left
               /\ work' = [work EXCEPT !.phase = "close", !.conversing = ~left,
                                       !.shutdown = shutdown]
      BY <2>3
    <3> QED
      BY <1>2 DEF Connect
  <2> QED
    BY <1>2, <2>1, <2>2, <2>3 DEF Connect
<1>3. CASE Identify
  BY <1>3 DEF Identify, Verified
<1>4. CASE Read
  BY <1>4, ZenonT(40) DEF Read
<1>5. CASE SaveBackup
  BY <1>5 DEF SaveBackup
<1>6. CASE Write
  BY <1>6 DEF Write
<1>7. CASE Apply
  BY <1>7 DEF Apply
<1>8. CASE Shutdown
  BY <1>8, ZenonT(40) DEF Shutdown
<1>9. CASE Close
  BY <1>9, ZenonT(40) DEF Close
<1>10. CASE Stop
  BY <1>10 DEF Stop
<1>11. CASE Spin
  BY <1>11 DEF Spin
<1>12. CASE \E port \in Ports, printer \in Models \cup {None} : Replug(port, printer)
  BY <1>12 DEF Replug
<1> QED
  BY <1>1, <1>2, <1>3, <1>4, <1>5, <1>6, <1>7, <1>8, <1>9, <1>10, <1>11, <1>12 DEF Work

-----------------------------------------------------------------------------
(* The inductive invariant: the interface.                                 *)

\* The scan's channel is open exactly while the status line says so, and no
\* operation runs then.
ScanApart ==
    /\ (scan.state # "none") = (scanStatus = "Scanning")
    /\ Busy => scanStatus # "Scanning"

\* While an operation runs its place stays selected, and a mutation is what its
\* dialog showed.
Locked ==
    Busy =>
      /\ Candidate # 0 /\ work.port = Candidate
      /\ work.request \in Mutations => work.shown = <<work.port, work.model>>

Records ==
    /\ scan = [state |-> scan.state, found |-> scan.found]
    /\ loaded = [kind |-> loaded.kind, port |-> loaded.port, model |-> loaded.model,
                 printer |-> loaded.printer]
    /\ pending = [kind |-> pending.kind, given |-> pending.given,
                  image |-> pending.image, shown |-> pending.shown]

IInv == WInv /\ ScanApart /\ Locked /\ Records /\ DialogCurrent /\ ImageOfCandidate

\* What Candidate and Model are read from.
Selecting == <<candidates, selected, model>>

LEMMA SelectionStays ==
    ASSUME UNCHANGED Selecting
    PROVE  Candidate' = Candidate /\ Model' = Model
BY DEF Selecting, Candidate, Model

LEMMA NothingSelected ==
    ASSUME selected' = 0
    PROVE  Candidate' = 0 /\ Model' = None
BY DEF Candidate, Model

\* An operation is started, is refused with a report, or nothing happens.
LEMMA StartKeeps ==
    ASSUME IInv, NEW request, NEW dialog, Start(request, dialog),
           request \in Mutations => dialog.shown = <<Candidate, Model>>,
           UNCHANGED <<scan, scanStatus>>, UNCHANGED Selecting
    PROVE  WInv' /\ ScanApart' /\ Locked'
<1>1. Candidate' = Candidate
  BY SelectionStays
<1>2. CASE UNCHANGED work
  BY <1>1, <1>2 DEF IInv, WInv, WorkRecord, TargetVerified, MutationPrepared, CleanupTrue,
                    ScanApart, Locked, Busy
<1>3. CASE /\ ~Busy /\ scanStatus # "Scanning" /\ Candidate # 0
           /\ work' = Job(request, dialog)
  <2>1. WInv'
    BY <1>3 DEF Job, Idle, WInv, WorkRecord, TargetVerified, MutationPrepared,
                CleanupTrue, Connected, Verifying
  <2>2. ScanApart' /\ Locked'
    BY <1>1, <1>3 DEF IInv, Job, Idle, ScanApart, Locked, Busy
  <2> QED
    BY <2>1, <2>2
<1> QED
  BY <1>2, <1>3 DEF Start, Block

\* Steps that leave the worker, the scan and the selection alone.
LEMMA PanesKeep ==
    ASSUME IInv, UNCHANGED <<work, scan, scanStatus>>, UNCHANGED Selecting
    PROVE  WInv' /\ ScanApart' /\ Locked'
BY SelectionStays DEF IInv, WInv, WorkRecord, TargetVerified, MutationPrepared, CleanupTrue,
                      ScanApart, Locked, Busy

\* Steps that change the selection while nothing runs, and clear the panes.
LEMMA SelectionKeeps ==
    ASSUME IInv, ~Busy, UNCHANGED <<work, scan, scanStatus>>, Cleared,
           Unloaded \/ (selected' = 0 /\ Records')
    PROVE  IInv'
<1> ~Busy'
  BY DEF Busy
<1> WInv' /\ ScanApart' /\ Locked'
  BY DEF IInv, WInv, WorkRecord, TargetVerified, MutationPrepared, CleanupTrue,
         ScanApart, Locked
<1> Records' /\ DialogCurrent'
  BY DEF IInv, Records, Cleared, Unloaded, NoDialog, NoImage, DialogCurrent
<1> ImageOfCandidate'
  BY NothingSelected DEF Unloaded, NoImage, ImageOfCandidate
<1> QED
  BY DEF IInv

-----------------------------------------------------------------------------
(* Every step keeps it.                                                    *)

LEMMA ScanKeeps ==
    ASSUME IInv, Enumerate \/ EnumerateFails \/ PollScan \/ Refresh
    PROVE  IInv'
<1> USE DEF IInv, ScanApart, Records, printers, source, panes
<1>1. CASE Enumerate \/ EnumerateFails
  <2> UNCHANGED <<work, scanStatus, loaded, pending>> /\ UNCHANGED Selecting
    BY <1>1 DEF Enumerate, EnumerateFails, Selecting
  <2>1. ScanApart' /\ Records'
    BY <1>1 DEF Enumerate, EnumerateFails, Busy
  <2> QED
    BY <2>1, SelectionStays DEF WInv, WorkRecord, TargetVerified, MutationPrepared,
       CleanupTrue, Locked, Busy, DialogCurrent, ImageOfCandidate
<1>2. CASE PollScan
  <2> UNCHANGED <<work, loaded, pending>>
    BY <1>2 DEF PollScan
  <2>1. ~Busy /\ ~Busy'
    BY <1>2 DEF PollScan, Busy
  <2>2. ScanApart' /\ Records' /\ Locked' /\ WInv'
    BY <1>2, <2>1 DEF PollScan, Locked, WInv, WorkRecord, TargetVerified,
       MutationPrepared, CleanupTrue
  <2>3. CASE scan.state = "found"
    BY <1>2, <2>2, <2>3, NothingSelected DEF PollScan, Selection, DialogCurrent, ImageOfCandidate
  <2>4. CASE scan.state # "found"
    BY <1>2, <2>2, <2>4, SelectionStays
    DEF PollScan, Selecting, DialogCurrent, ImageOfCandidate
  <2> QED
    BY <2>3, <2>4
<1>3. CASE Refresh
  <2> UNCHANGED <<work, loaded, pending>> /\ UNCHANGED Selecting
    BY <1>3 DEF Refresh, Selecting
  <2>1. ScanApart' /\ Records'
    BY <1>3 DEF Refresh, MayRefresh, Busy
  <2> QED
    BY <2>1, SelectionStays DEF WInv, WorkRecord, TargetVerified, MutationPrepared,
       CleanupTrue, Locked, Busy, DialogCurrent, ImageOfCandidate
<1> QED
  BY <1>1, <1>2, <1>3

LEMMA PollKeeps ==
    ASSUME IInv, PollOperation
    PROVE  IInv'
<1>1. UNCHANGED Selecting /\ UNCHANGED <<scan, scanStatus, pending>> /\ work' = Idle
  BY DEF PollOperation, scanner, Selecting
<1>2. Candidate' = Candidate /\ Model' = Model
  BY <1>1, SelectionStays
<1>3. ~Busy' /\ WInv'
  BY <1>1 DEF Busy, Idle, WInv, WorkRecord, TargetVerified, MutationPrepared, CleanupTrue,
              Connected, Verifying
<1>4. ScanApart' /\ Locked' /\ DialogCurrent'
  BY <1>1, <1>2, <1>3 DEF IInv, ScanApart, Locked, DialogCurrent
<1>5. Records'
  BY <1>1 DEF PollOperation, IInv, Records
<1>6. ImageOfCandidate'
  <2>1. CASE Displayed
    <3>1. work.port = Candidate /\ work.reached = work.model
      BY <2>1 DEF PollOperation, Ended, Busy, IInv, Locked, WInv, TargetVerified, Displayed
    <3> QED
      BY <1>2, <2>1, <3>1 DEF PollOperation, ImageOfCandidate
  <2>2. CASE ~Displayed
    BY <1>2, <2>2 DEF PollOperation, IInv, ImageOfCandidate
  <2> QED
    BY <2>1, <2>2
<1> QED
  BY <1>3, <1>4, <1>5, <1>6 DEF IInv
\* The controls that choose what is shown.
LEMMA ChoosingKeeps ==
    ASSUME IInv, \/ SelectFixture \/ OpenFile
                 \/ \E i \in Ports : SelectCandidate(i)
                 \/ \E m \in Models : ChooseModel(m) \/ ChooseImageModel(m)
    PROVE  IInv'
<1> USE DEF printers, scanner, source, Unlocked
<1>1. CASE SelectFixture
  <2> ~Busy /\ UNCHANGED <<work, scan, scanStatus>> /\ Cleared /\ Unloaded
    BY <1>1 DEF SelectFixture
  <2> QED
    BY SelectionKeeps
<1>2. CASE OpenFile
  <2>1. Records'
    BY <1>2 DEF OpenFile, Cleared, NoImage, NoDialog, IInv, Records
  <2> QED
    BY <1>2, <2>1, SelectionKeeps DEF OpenFile
<1>3. CASE \E i \in Ports : SelectCandidate(i)
  <2> PICK i \in Ports : SelectCandidate(i)
    BY <1>3
  <2> ~Busy /\ UNCHANGED <<work, scan, scanStatus>> /\ Cleared /\ Unloaded
    BY DEF SelectCandidate
  <2> QED
    BY SelectionKeeps
<1>4. CASE \E m \in Models : ChooseModel(m)
  <2> PICK m \in Models : ChooseModel(m)
    BY <1>4
  <2>1. Candidate' = Candidate /\ ~Busy /\ ~Busy'
    BY DEF ChooseModel, Candidate, Busy
  <2>2. WInv' /\ ScanApart' /\ Locked' /\ Records' /\ DialogCurrent'
    BY <2>1 DEF ChooseModel, IInv, WInv, WorkRecord, TargetVerified, MutationPrepared,
       CleanupTrue, ScanApart, Locked, Records, Cleared, NoDialog, DialogCurrent
  <2>3. ImageOfCandidate'
    BY <2>1 DEF ChooseModel, IInv, ImageOfCandidate
  <2> QED
    BY <2>2, <2>3 DEF IInv
<1>5. CASE \E m \in Models : ChooseImageModel(m)
  <2> PICK m \in Models : ChooseImageModel(m)
    BY <1>5
  <2>1. UNCHANGED <<work, scan, scanStatus, pending>> /\ UNCHANGED Selecting
    BY DEF ChooseImageModel, Selecting
  <2>2. Candidate' = Candidate /\ Model' = Model /\ Candidate = 0
    BY <2>1, SelectionStays DEF ChooseImageModel
  <2>3. Records'
    BY <2>1 DEF ChooseImageModel, IInv, Records
  <2> QED
    BY <2>1, <2>2, <2>3, PanesKeep DEF IInv, DialogCurrent, ImageOfCandidate
<1> QED
  BY <1>1, <1>2, <1>3, <1>4, <1>5

\* The buttons and the dialogs.
LEMMA DialogKeeps ==
    ASSUME IInv, \/ Confirm \/ CloseDialog
                 \/ \E request \in {"status", "dump"} : Press(request)
                 \/ \E kind \in Mutations, input \in {{}, {"input"}} : OpenDialog(kind, input)
                 \/ \E given \in BOOLEAN : \/ EditUpdate(given) \/ ChooseImage(given)
                                            \/ Assent(given) \/ Acknowledge(given)
    PROVE  IInv'
<1> USE DEF printers, scanner, source
<1>1. UNCHANGED <<scan, scanStatus, loaded>> /\ UNCHANGED Selecting
  BY DEF Confirm, CloseDialog, Press, OpenDialog, EditUpdate, Edit, ChooseImage, Assent,
         Acknowledge, Selecting
<1>2. Candidate' = Candidate /\ Model' = Model
  BY <1>1, SelectionStays
<1>3. ImageOfCandidate'
  BY <1>1, <1>2 DEF IInv, ImageOfCandidate
<1>4. CASE Confirm
  <2>1. pending.kind # "none" /\ Start(pending.kind, pending) /\ pending' = NoDialog
    BY <1>4 DEF Confirm, Editable
  <2>2. WInv' /\ ScanApart' /\ Locked'
    <3>1. CASE Candidate # 0
      BY <1>1, <2>1, <3>1, StartKeeps DEF IInv, DialogCurrent
    <3>2. CASE Candidate = 0
      <4> UNCHANGED work
        BY <2>1, <3>2 DEF Start, Block
      <4> QED
        BY <1>1, PanesKeep
    <3> QED
      BY <3>1, <3>2
  <2>3. Records' /\ DialogCurrent'
    BY <1>1, <2>1 DEF IInv, Records, NoDialog, DialogCurrent
  <2> QED
    BY <1>3, <2>2, <2>3 DEF IInv
<1>5. CASE \E request \in {"status", "dump"} : Press(request)
  <2> PICK request \in {"status", "dump"} : Press(request)
    BY <1>5
  <2>1. Start(request, NoDialog) /\ pending' = pending /\ request \notin Mutations
    BY DEF Press, Mutations
  <2>2. WInv' /\ ScanApart' /\ Locked'
    BY <1>1, <2>1, StartKeeps
  <2>3. Records' /\ DialogCurrent'
    BY <1>1, <1>2, <2>1 DEF IInv, Records, DialogCurrent
  <2> QED
    BY <1>3, <2>2, <2>3 DEF IInv
<1>6. CASE \E kind \in Mutations, input \in {{}, {"input"}} : OpenDialog(kind, input)
  <2>1. work' = work /\ pending'.shown = <<Candidate, Model>> /\ pending'.image = None
        /\ Records'
    BY <1>1, <1>6 DEF OpenDialog, IInv, Records
  <2>2. WInv' /\ ScanApart' /\ Locked'
    BY <1>1, <2>1, PanesKeep
  <2> QED
    BY <1>2, <1>3, <2>1, <2>2 DEF IInv, DialogCurrent
<1>7. CASE CloseDialog \/ \E given \in BOOLEAN : \/ EditUpdate(given) \/ ChooseImage(given)
                                                 \/ Assent(given) \/ Acknowledge(given)
  <2>1. work' = work
    BY <1>7 DEF CloseDialog, EditUpdate, Edit, ChooseImage, Assent, Acknowledge
  <2>2. \/ pending' = NoDialog
        \/ \E given, image :
             /\ pending' = [pending EXCEPT !.given = given, !.image = image]
             /\ image \in {None, Model, pending.image} /\ pending.kind # "none"
    <3>1. CASE CloseDialog
      BY <3>1 DEF CloseDialog
    <3>2. CASE \E given \in BOOLEAN : ChooseImage(given)
      BY <3>2 DEF ChooseImage, Editable
    <3>3. CASE \E given \in BOOLEAN : EditUpdate(given) \/ Assent(given) \/ Acknowledge(given)
      <4> PICK what \in Given, given \in BOOLEAN : Edit(what, given)
        BY <3>3 DEF EditUpdate, Assent, Acknowledge, Given
      <4> DEFINE now == IF given THEN pending.given \cup {what} ELSE pending.given \ {what}
      <4>1. pending' = [pending EXCEPT !.given = now] /\ pending.kind # "none"
        BY DEF Edit, Editable
      <4>2. pending' = [pending EXCEPT !.given = now, !.image = pending.image]
        BY <4>1 DEF IInv, Records
      <4> QED
        BY <4>1, <4>2
    <3> QED
      BY <1>7, <3>1, <3>2, <3>3
  <2>3. Records' /\ DialogCurrent'
    <3>1. CASE pending' = NoDialog
      BY <1>1, <3>1 DEF IInv, Records, NoDialog, DialogCurrent
    <3>2. ASSUME NEW given, NEW image, image \in {None, Model, pending.image},
                 pending.kind # "none",
                 pending' = [pending EXCEPT !.given = given, !.image = image]
          PROVE  Records' /\ DialogCurrent'
      <4>1. Records' /\ pending'.shown = pending.shown /\ pending'.image = image
        BY <1>1, <3>2 DEF IInv, Records
      <4> QED
        BY <1>2, <3>2, <4>1 DEF IInv, DialogCurrent
    <3> QED
      BY <2>2, <3>1, <3>2
  <2>4. WInv' /\ ScanApart' /\ Locked'
    BY <1>1, <2>1, PanesKeep
  <2> QED
    BY <1>3, <2>3, <2>4 DEF IInv
<1> QED
  BY <1>4, <1>5, <1>6, <1>7

LEMMA StepKeeps ==
    ASSUME IInv, [Next]_vars
    PROVE  IInv'
<1>1. CASE User
  BY <1>1, ScanKeeps, ChoosingKeeps, DialogKeeps DEF User
<1>2. CASE Enumerate \/ EnumerateFails \/ PollScan
  BY <1>2, ScanKeeps
<1>3. CASE PollOperation
  BY <1>3, PollKeeps
<1>4. CASE /\ UNCHANGED interface
           /\ \/ Work \/ Stop \/ Spin
              \/ \E port \in Ports, printer \in Models \cup {None} : Replug(port, printer)
  <2>1. WInv' /\ UNCHANGED Captured /\ (Busy' => Busy)
    BY <1>4, WorkKeeps DEF IInv
  <2>2. UNCHANGED <<scan, scanStatus, loaded, pending>> /\ UNCHANGED Selecting
    BY <1>4 DEF interface, scanner, source, panes, Selecting
  <2>3. Candidate' = Candidate /\ Model' = Model
    BY <2>2, SelectionStays
  <2>4. ScanApart' /\ Locked'
    BY <2>1, <2>2, <2>3 DEF IInv, ScanApart, Locked, Captured
  <2>5. Records' /\ DialogCurrent' /\ ImageOfCandidate'
    BY <2>2, <2>3 DEF IInv, Records, DialogCurrent, ImageOfCandidate
  <2> QED
    BY <2>1, <2>4, <2>5 DEF IInv
<1>5. CASE UNCHANGED vars
  <2>1. UNCHANGED <<work, scan, scanStatus, loaded, pending>> /\ UNCHANGED Selecting
    BY <1>5 DEF vars, Selecting
  <2>2. WInv' /\ ScanApart' /\ Locked'
    BY <2>1, PanesKeep
  <2> QED
    BY <2>1, <2>2, SelectionStays DEF IInv, Records, DialogCurrent, ImageOfCandidate
<1> QED
  BY <1>1, <1>2, <1>3, <1>4, <1>5 DEF Next

LEMMA InitHolds == Init => IInv
BY DEF Init, IInv, WInv, WorkRecord, TargetVerified, MutationPrepared, CleanupTrue, Connected,
       Verifying, ScanApart, Locked, Records, DialogCurrent, ImageOfCandidate, Busy, Idle,
       NoImage, NoDialog

LEMMA AlwaysIInv == Spec => []IInv
<1>1. IInv /\ [Next]_vars => IInv'
  BY StepKeeps
<1> QED
  BY <1>1, InitHolds, PTL DEF Spec

-----------------------------------------------------------------------------
(* The theorems.                                                           *)

\* The scan thread and the worker never use the printers' interfaces at the same
\* time: the guards of start_usb_scan and start_selected_usb_operation.
THEOREM ScanAndWorkApart == Spec => []OneAtATime
<1>1. IInv => OneAtATime
  BY DEF IInv, ScanApart, OneAtATime, Running
<1> QED
  BY <1>1, AlwaysIInv, PTL

\* A write goes to the place and the model that its dialog showed, verified on
\* the printer itself, after the backup and the acknowledgement: from the
\* dialogs of main.rs to the worker's run_selected_usb_operation.
THEOREM WritesConfirmed == Spec => []WritesAsConfirmed
<1>1. IInv => WritesAsConfirmed
  <2> SUFFICES ASSUME IInv, work.phase = "apply" PROVE
        /\ work.shown = <<work.port, work.model>> /\ work.reached = work.model
        /\ work.backup /\ (work.port \in Native => work.acknowledged)
    BY DEF WritesAsConfirmed
  <2>1. work.request \in Mutations /\ work.backup
    BY DEF IInv, WInv, MutationPrepared
  <2>2. work.shown = <<work.port, work.model>>
    BY <2>1 DEF IInv, Locked, Busy
  <2>3. work.reached = work.model
    BY DEF IInv, WInv, TargetVerified
  <2>4. work.port \in Native => work.acknowledged
    BY <2>1 DEF IInv, WInv, MutationPrepared, Connected
  <2> QED
    BY <2>1, <2>2, <2>3, <2>4
<1> QED
  BY <1>1, AlwaysIInv, PTL

\* An open dialog and the image in the panes are about what is selected,
\* whatever was scanned, selected and reported since they were opened.
THEOREM PanesAreCurrent == Spec => []PanesCurrent
<1>1. IInv => PanesCurrent
  BY DEF IInv, PanesCurrent
<1> QED
  BY <1>1, AlwaysIInv, PTL

\* A report in green is of a printer that has left its conversation, and a
\* failure that is reported with its rollback has tried it: the outcome of
\* run_selected_usb_operation and cleanup_is_successful.
THEOREM ReportsAreTrue == Spec => []ReportTrue
<1>1. IInv => ReportTrue
  BY DEF IInv, WInv, CleanupTrue, ReportTrue, Ended, Outcome, CleanedUp
<1> QED
  BY <1>1, AlwaysIInv, PTL

-----------------------------------------------------------------------------
(* Types.                                                                  *)

\* A scan finds places, in their order.
LEMMA FindsPorts ==
    ASSUME PortCount \in Nat
    PROVE  PluggedIn \in Seq(Ports)
<1> DEFINE N == PortCount
           X == Seq(Ports)
           Next1(p, x) == IF plugged[p] # None THEN Append(x, p) ELSE x
           step == [p \in 1..N |-> [x \in X |-> Next1(p, x)]]
<1>0. N \in Nat /\ <<>> \in X
  OBVIOUS
<1>10. ASSUME NEW p \in 1..N, NEW x \in X PROVE Next1(p, x) \in X
  <2>1. p \in Ports
    BY DEF Ports
  <2>2. Append(x, p) \in Seq(Ports)
    BY <2>1
  <2> QED
    BY <2>2
<1>1. step \in [1..N -> [X -> X]]
  <2> HIDE DEF X, Next1
  <2> QED
    BY <1>10
<1>2. PICK f : Solves(f, N, X, <<>>, step)
  <2> HIDE DEF X, step, N
  <2>1. \E f : Solves(f, N, X, <<>>, step)
    BY <1>0, <1>1, Recursion
  <2> QED
    BY <2>1
<1>3. /\ f \in [0..N -> X] /\ f[0] = <<>>
      /\ \A p \in 1..N : f[p] = Next1(p, f[p - 1])
  <2>1. f \in [0..N -> X] /\ f[0] = <<>> /\ \A p \in 1..N : f[p] = step[p][f[p - 1]]
    <3> HIDE DEF N, X, step
    <3> QED
      BY <1>2 DEF Solves
  <2>2. ASSUME NEW p \in 1..N PROVE step[p][f[p - 1]] = Next1(p, f[p - 1])
    <3>1. p - 1 \in 0..N
      BY <1>0
    <3>2. f[p - 1] \in X
      BY <2>1, <3>1
    <3> HIDE DEF X, Next1
    <3> QED
      BY <3>2
  <2> HIDE DEF X, Next1, step
  <2> QED
    BY <2>1, <2>2
<1> DEFINE IsFound(g) == g = [p \in 0..N |->
             IF p = 0 THEN <<>>
             ELSE IF plugged[p] # None THEN Append(g[p - 1], p) ELSE g[p - 1]]
<1>4. IsFound(f)
  <2>1. \A p \in 0..N : f[p] = IF p = 0 THEN <<>> ELSE Next1(p, f[p - 1])
    <3>1. \A p \in 0..N : p = 0 \/ p \in 1..N
      BY <1>0
    <3> HIDE DEF X, Next1
    <3> QED
      BY <1>3, <3>1
  <2>2. f = [p \in 0..N |-> f[p]]
    BY <1>3
  <2> QED
    BY <2>1, <2>2
<1> DEFINE found == CHOOSE g : IsFound(g)
<1>5. IsFound(found)
  <2> HIDE DEF IsFound
  <2> QED
    BY <1>4
<1>6. PluggedIn = found[N]
  BY DEF PluggedIn
<1> HIDE DEF found
<1> DEFINE S == {p \in 0..N : found[p] \in X}
<1>7. 0 \in S
  BY <1>0, <1>5
<1>8. ASSUME NEW p \in 0..(N - 1), p \in S PROVE p + 1 \in S
  <2>1. p + 1 \in 1..N /\ p + 1 \in 0..N /\ (p + 1) - 1 = p /\ p + 1 # 0
    BY <1>0
  <2>2. found[p + 1] = Next1(p + 1, found[p])
    BY <1>5, <2>1
  <2>3. found[p] \in X
    BY <1>8
  <2>4. Next1(p + 1, found[p]) \in X
    <3> HIDE DEF X, Next1
    <3> QED
      BY <1>10, <2>1, <2>3
  <2> QED
    BY <2>1, <2>2, <2>4
<1>9. 0..N \subseteq S
  <2> HIDE DEF S, N
  <2> QED
    BY <1>0, <1>7, <1>8, SetInduction
<1> QED
  BY <1>0, <1>6, <1>9

PrintersTyped == plugged \in [Ports -> Models \cup {None}] /\ work \in Works

\* What is selected has a type, and a candidate is a place.
LEMMA SelectionTyped ==
    ASSUME TypeOK
    PROVE  /\ Candidate \in 0..PortCount /\ Model \in Models \cup {None}
           /\ <<Candidate, Model>> \in Targets
           /\ Candidate # 0 => Candidate \in Ports
<1>1. Candidate # 0 => Candidate \in Ports
  <2> SUFFICES ASSUME selected # 0, selected \in DOMAIN candidates
               PROVE  candidates[selected] \in Ports
    BY DEF Candidate
  <2> QED
    BY DEF TypeOK
<1>2. Candidate \in 0..PortCount
  BY <1>1, PortAssumption DEF Ports
<1>3. Model \in Models \cup {None}
  BY DEF Model, TypeOK
<1> QED
  BY <1>1, <1>2, <1>3 DEF Targets

LEMMA IdleTyped == Idle \in Works
<1>1. 0 \in 0..PortCount
  BY PortAssumption
<1> QED
  BY <1>1 DEF Idle, Works, Phases, Requests, Cleanups, Targets

\* Every step of the worker and every replug keeps the types of the printers.
LEMMA WorkTypes ==
    ASSUME PrintersTyped, Busy => work.port \in Ports,
           \/ Work \/ Stop \/ Spin
           \/ \E port \in Ports, printer \in Models \cup {None} : Replug(port, printer)
    PROVE  PrintersTyped'
<1> USE DEF PrintersTyped, Works, Refused, Proceeds, Errs, Phases, Cleanups
<1>1. CASE Prepare
  BY <1>1 DEF Prepare
<1>2. CASE Connect
  <2>0. work.port \in Ports /\ plugged[work.port] \in Models \cup {None} /\ plugged' = plugged
    BY <1>2 DEF Connect, Busy
  <2>1. CASE Refused
    BY <2>0, <2>1
  <2>2. CASE work' = [work EXCEPT !.phase = "identity", !.conversing = TRUE,
                                  !.printer = plugged[work.port]]
    BY <2>0, <2>2
  <2>3. CASE \E shutdown \in Cleanups, left \in BOOLEAN :
               /\ shutdown = "succeeded" => left
               /\ work' = [work EXCEPT !.phase = "close", !.conversing = ~left,
                                       !.shutdown = shutdown]
    <3> PICK shutdown \in Cleanups, still \in BOOLEAN :
               work' = [work EXCEPT !.phase = "close", !.conversing = still,
                                       !.shutdown = shutdown]
      BY <2>3
    <3> QED
      BY <2>0, ZenonT(40)
  <2> QED
    BY <1>2, <2>1, <2>2, <2>3 DEF Connect
<1>3. CASE Identify
  BY <1>3 DEF Identify
<1>4. CASE Read
  <2>1. CASE Errs
    BY <1>4, <2>1 DEF Read
  <2>2. CASE work' = [work EXCEPT !.phase = "backup", !.reached = work.printer]
    BY <1>4, <2>2 DEF Read
  <2>3. CASE work' = [work EXCEPT !.phase = "shutdown", !.ok = TRUE, !.reached = work.printer]
    BY <1>4, <2>3 DEF Read
  <2> QED
    BY <1>4, <2>1, <2>2, <2>3 DEF Read
<1>5. CASE SaveBackup
  BY <1>5, ZenonT(40) DEF SaveBackup
<1>6. CASE Write
  BY <1>6 DEF Write
<1>7. CASE Apply
  BY <1>7, ZenonT(40) DEF Apply
<1>8. CASE Shutdown
  BY <1>8, ZenonT(40) DEF Shutdown
<1>9. CASE Close
  BY <1>9 DEF Close
<1>10. CASE Stop
  BY <1>10 DEF Stop
<1>11. CASE Spin
  BY <1>11 DEF Spin
<1>12. CASE \E port \in Ports, printer \in Models \cup {None} : Replug(port, printer)
  BY <1>12 DEF Replug
<1> QED
  BY <1>1, <1>2, <1>3, <1>4, <1>5, <1>6, <1>7, <1>8, <1>9, <1>10, <1>11, <1>12 DEF Work

\* The job that a click starts.
LEMMA JobTyped ==
    ASSUME TypeOK, NEW request \in Requests, NEW dialog \in Dialogs
    PROVE  Job(request, dialog) \in Works
<1>1. Idle \in Works
  BY IdleTyped
<1>2. dialog.image \in Models \cup {None} /\ dialog.shown \in Targets
  BY DEF Dialogs
<1> DEFINE sure == \/ Candidate \notin Native \/ "acknowledgement" \in dialog.given
<1>3. sure \in BOOLEAN
  OBVIOUS
<1>4. /\ Candidate \in 0..PortCount /\ Model \in Models \cup {None}
  BY SelectionTyped
<1>5. Job(request, dialog) =
        [Idle EXCEPT !.phase = "prepare", !.port = Candidate, !.model = Model,
                     !.request = request, !.image = dialog.image, !.shown = dialog.shown,
                     !.acknowledged = sure]
  BY DEF Job
<1> HIDE DEF sure
<1> QED
  BY <1>1, <1>2, <1>3, <1>4, <1>5, ZenonT(40) DEF Works, Phases

LEMMA StartTypes ==
    ASSUME TypeOK, NEW request \in Requests, NEW dialog \in Dialogs, Start(request, dialog)
    PROVE  work' \in Works /\ report' \in ReportKinds
<1>1. Blocked \in ReportKinds /\ NoReport \in ReportKinds
  BY DEF Blocked, NoReport, ReportKinds
<1>2. work \in Works /\ report \in ReportKinds
  BY DEF TypeOK
<1> QED
  BY <1>1, <1>2, JobTyped DEF Start, Block

LEMMA NothingTyped == NoImage \in Images /\ NoDialog \in Dialogs /\ NoReport \in ReportKinds
<1>1. 0 \in 0..PortCount
  BY PortAssumption
<1> QED
  BY <1>1 DEF NoImage, NoDialog, NoReport, Images, Dialogs, ReportKinds, Targets

LEMMA ScanTypes ==
    ASSUME TypeOK, Enumerate \/ EnumerateFails \/ PollScan \/ Refresh
    PROVE  TypeOK'
<1> USE DEF TypeOK, printers, source, panes, Scans
<1>0. <<>> \in Seq(Ports)
  OBVIOUS
<1>1. CASE Enumerate
  <2>1. PluggedIn \in Seq(Ports)
    BY FindsPorts, PortAssumption
  <2>2. scan' = [state |-> "found", found |-> PluggedIn]
    BY <1>1 DEF Enumerate
  <2>3. scan' \in [state : Scans, found : Seq(Ports)] /\ scan'.state = "found"
    BY <2>1, <2>2
  <2> QED
    BY <1>1, <2>3 DEF Enumerate
<1>2. CASE EnumerateFails
  BY <1>2 DEF EnumerateFails
<1>3. CASE PollScan
  BY <1>0, <1>3 DEF PollScan, Selection
<1>4. CASE Refresh
  BY <1>0, <1>4 DEF Refresh, MayRefresh
<1> QED
  BY <1>1, <1>2, <1>3, <1>4

LEMMA PollTypes ==
    ASSUME TypeOK, PollOperation
    PROVE  TypeOK'
<1>1. work' \in Works
  BY IdleTyped DEF PollOperation
<1>2. report' \in ReportKinds
  <2> DEFINE green == work.ok /\ CleanedUp
  <2>1. green \in BOOLEAN
    BY DEF TypeOK, Works, CleanedUp
  <2>2. report' = [kind |-> IF work.ok THEN "done" ELSE "failed", success |-> green]
    BY DEF PollOperation, Outcome
  <2> HIDE DEF green
  <2> QED
    BY <2>1, <2>2 DEF ReportKinds
<1>3. loaded' \in Images /\ fixture' \in BOOLEAN
  <2>1. /\ work.port \in 0..PortCount /\ work.model \in Models \cup {None}
        /\ work.reached \in Models \cup {None}
    BY DEF TypeOK, Works
  <2>2. loaded \in Images /\ fixture \in BOOLEAN
    BY DEF TypeOK
  <2>3. CASE Displayed
    <3>1. fixture' = FALSE
          /\ loaded' = [kind |-> "dump", port |-> work.port, model |-> work.model,
                        printer |-> work.reached]
      BY <2>3 DEF PollOperation
    <3> QED
      BY <2>1, <3>1 DEF Images
  <2>4. CASE ~Displayed
    BY <2>2, <2>4 DEF PollOperation
  <2> QED
    BY <2>3, <2>4
<1> QED
  BY <1>1, <1>2, <1>3 DEF PollOperation, TypeOK, scanner

LEMMA ChoosingTypes ==
    ASSUME TypeOK, \/ SelectFixture \/ OpenFile
                   \/ \E i \in Ports : SelectCandidate(i)
                   \/ \E m \in Models : ChooseModel(m) \/ ChooseImageModel(m)
    PROVE  TypeOK'
<1> USE NothingTyped DEF TypeOK, printers, scanner, source, Cleared, Unloaded
<1>1. CASE SelectFixture
  BY <1>1 DEF SelectFixture
<1>2. CASE OpenFile
  <2>1. [NoImage EXCEPT !.kind = "file"] \in Images
    BY DEF Images
  <2>2. loaded' \in Images
    BY <1>2, <2>1 DEF OpenFile
  <2>3. selected' \in 0..Len(candidates')
    BY <1>2 DEF OpenFile
  <2> HIDE DEF Unloaded
  <2> QED
    BY <1>2, <2>2, <2>3 DEF OpenFile
<1>3. CASE \E i \in Ports : SelectCandidate(i)
  <2> PICK i \in Ports : SelectCandidate(i)
    BY <1>3
  <2>1. selected' \in 0..Len(candidates)
    BY DEF SelectCandidate
  <2>2. model' \in Models \cup {None}
    <3>1. CASE Cardinality(Hinting) = 1
      <4>1. Hinting # {}
        <5> SUFFICES ASSUME Hinting = {} PROVE FALSE
          OBVIOUS
        <5>1. Cardinality({}) = 0
          BY FS_EmptySet
        <5> QED
          BY <3>1, <5>1
      <4>2. (CHOOSE m \in Hinting : TRUE) \in Hinting
        BY <4>1
      <4> QED
        BY <3>1, <4>2, HintAssumption DEF SelectCandidate
    <3>2. CASE Cardinality(Hinting) # 1
      BY <3>2 DEF SelectCandidate
    <3> QED
      BY <3>1, <3>2
  <2> QED
    BY <2>1, <2>2 DEF SelectCandidate
<1>4. CASE \E m \in Models : ChooseModel(m)
  BY <1>4 DEF ChooseModel
<1>5. CASE \E m \in Models : ChooseImageModel(m)
  BY <1>5 DEF ChooseImageModel, Images
<1> QED
  BY <1>1, <1>2, <1>3, <1>4, <1>5

\* The buttons and the dialogs.
LEMMA DialogTypes ==
    ASSUME TypeOK, \/ Confirm \/ CloseDialog
                   \/ \E request \in {"status", "dump"} : Press(request)
                   \/ \E kind \in Mutations, input \in {{}, {"input"}} : OpenDialog(kind, input)
                   \/ \E given \in BOOLEAN : \/ EditUpdate(given) \/ ChooseImage(given)
                                              \/ Assent(given) \/ Acknowledge(given)
    PROVE  TypeOK'
<1>1. UNCHANGED <<plugged, scan, scanStatus, candidates, selected, model, fixture, loaded>>
  BY DEF Confirm, CloseDialog, Press, OpenDialog, EditUpdate, Edit, ChooseImage, Assent,
         Acknowledge, printers, scanner, source
<1> SUFFICES work' \in Works /\ pending' \in Dialogs /\ report' \in ReportKinds
  BY <1>1 DEF TypeOK
<1>0. work \in Works /\ pending \in Dialogs /\ report \in ReportKinds
  BY DEF TypeOK
<1>2. CASE Confirm
  <2>1. pending.kind \in Requests
    BY <1>2, <1>0 DEF Confirm, Editable, Dialogs, Requests
  <2>2. pending' = NoDialog /\ Start(pending.kind, pending)
    BY <1>2 DEF Confirm
  <2> QED
    BY <1>0, <2>1, <2>2, StartTypes, NothingTyped
<1>3. CASE CloseDialog
  BY <1>0, <1>3, NothingTyped DEF CloseDialog, printers
<1>4. CASE \E request \in {"status", "dump"} : Press(request)
  <2> PICK request \in {"status", "dump"} : Press(request)
    BY <1>4
  <2>1. request \in Requests /\ Start(request, NoDialog) /\ pending' = pending
    BY DEF Press, Requests
  <2> QED
    BY <1>0, <2>1, StartTypes, NothingTyped
<1>5. CASE \E kind \in Mutations, input \in {{}, {"input"}} : OpenDialog(kind, input)
  <2> PICK kind \in Mutations, input \in {{}, {"input"}} : OpenDialog(kind, input)
    BY <1>5
  <2>1. <<Candidate, Model>> \in Targets
    BY SelectionTyped
  <2>2. input \in SUBSET Given
    BY DEF Given
  <2> QED
    BY <1>0, <2>1, <2>2 DEF OpenDialog, printers, Dialogs
<1>6. CASE \E given \in BOOLEAN : ChooseImage(given)
  <2>1. Model \in Models \cup {None}
    BY SelectionTyped
  <2> PICK valid \in BOOLEAN : ChooseImage(valid)
    BY <1>6
  <2> DEFINE given == IF valid THEN pending.given \cup {"input"} ELSE pending.given \ {"input"}
             image == IF valid THEN Model ELSE None
  <2>2. given \in SUBSET Given /\ image \in Models \cup {None}
    BY <1>0, <2>1 DEF Dialogs, Given
  <2>3. pending' = [pending EXCEPT !.given = given, !.image = image]
    BY DEF ChooseImage
  <2>4. UNCHANGED <<work, report>>
    BY DEF ChooseImage, printers
  <2> HIDE DEF given, image
  <2> QED
    BY <1>0, <2>2, <2>3, <2>4 DEF Dialogs
<1>7. CASE \E given \in BOOLEAN : EditUpdate(given) \/ Assent(given) \/ Acknowledge(given)
  <2> PICK what \in Given, given \in BOOLEAN : Edit(what, given)
    BY <1>7 DEF EditUpdate, Assent, Acknowledge, Given
  <2> QED
    BY <1>0 DEF Edit, printers, Dialogs
<1> QED
  BY <1>2, <1>3, <1>4, <1>5, <1>6, <1>7

LEMMA StepTypes ==
    ASSUME IInv, TypeOK, [Next]_vars
    PROVE  TypeOK'
<1>1. CASE User
  BY <1>1, ScanTypes, ChoosingTypes, DialogTypes DEF User
<1>2. CASE Enumerate \/ EnumerateFails \/ PollScan
  BY <1>2, ScanTypes
<1>3. CASE PollOperation
  BY <1>3, PollTypes
<1>4. CASE /\ UNCHANGED interface
           /\ \/ Work \/ Stop \/ Spin
              \/ \E port \in Ports, printer \in Models \cup {None} : Replug(port, printer)
  <2>1. Busy => work.port \in Ports
    BY SelectionTyped DEF IInv, Locked
  <2>2. PrintersTyped'
    BY <1>4, <2>1, WorkTypes DEF PrintersTyped, TypeOK
  <2> QED
    BY <1>4, <2>2 DEF PrintersTyped, TypeOK, interface, scanner, source, panes
<1>5. CASE UNCHANGED vars
  BY <1>5 DEF vars, TypeOK
<1> QED
  BY <1>1, <1>2, <1>3, <1>4, <1>5 DEF Next

\* Every variable of ReinkGui keeps its type: what a scan found is places, the
\* index names a candidate, and what a click starts is an operation on it.
THEOREM TypeCorrect == Spec => []TypeOK
<1>1. Init => TypeOK
  <2> SUFFICES ASSUME Init PROVE TypeOK
    OBVIOUS
  <2>1. <<>> \in Seq(Ports) /\ selected \in 0..Len(candidates)
    BY DEF Init
  <2> QED
    BY <2>1, IdleTyped, NothingTyped, HintAssumption DEF Init, TypeOK, Scans
<1>2. IInv /\ TypeOK /\ [Next]_vars => TypeOK'
  BY StepTypes
<1> QED
  BY <1>1, <1>2, AlwaysIInv, PTL DEF Spec
=============================================================================
