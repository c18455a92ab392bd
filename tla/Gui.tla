-------------------------------- MODULE Gui --------------------------------
(***************************************************************************)
(* The graphical interface: ReinkGui of reink-gui, its background scan,    *)
(* its worker (GuiOperation.tla) and its user.                             *)
(*                                                                         *)
(* A frame polls the two channels and then draws; a click while it draws   *)
(* is one action here, and so is each poll: a message that a frame did not *)
(* yet see is one that came after it.  Widgets are disabled by the guards  *)
(* of the code; a file dialog blocks the frame, and choosing a file is     *)
(* part of the click.  The page, the filters, the selected byte and the    *)
(* debug pane (PacketStream.tla) are left out: no guard here reads them.    *)
(***************************************************************************)
EXTENDS GuiOperation

CONSTANTS
    Hinting,    \* models whose database entry names the printers' product id
    Fixtures    \* was the interface started with --fixtures?

ASSUME HintAssumption == Hinting \subseteq Models /\ Fixtures \in BOOLEAN

VARIABLES
    scan,        \* the scan thread behind usb_scan_receiver
    scanStatus,  \* usb_scan_status
    candidates,  \* usb_candidates, each by its place
    selected,    \* selected_usb_candidate, an index that counts from 1, or 0
    model,       \* selected_usb_model
    fixture,     \* is selected_fixture Some?
    loaded,      \* loaded_eeprom
    pending,     \* pending_usb_operation, an open dialog
    report       \* usb_operation_result

vars == <<plugged, work, scan, scanStatus, candidates, selected, model,
          fixture, loaded, pending, report>>

Scans == {"none", "running", "found", "error"}
\* What a dialog asks for; assent is a backup path chosen and the phrase typed,
\* which every dialog asks for together.
Given == {"input", "assent", "acknowledgement"}

\* An image from a file or from a dump: where and of what printer (history).
NoImage == [kind |-> "none", port |-> 0, model |-> None, printer |-> None]
\* A dialog: what has been filled in, the model its restore image was checked
\* for, and what it showed as its target when it was opened (history).
NoDialog == [kind |-> "none", given |-> {}, image |-> None, shown |-> <<0, None>>]
NoReport == [kind |-> "none", success |-> FALSE]
Blocked == [NoReport EXCEPT !.kind = "blocked"]

\* selected_usb_candidate(): a place, or 0 without an index or beyond the list.
Candidate ==
    IF selected # 0 /\ selected \in DOMAIN candidates THEN candidates[selected] ELSE 0
\* selected_usb_model(): nothing without a candidate.
Model == IF Candidate = 0 THEN None ELSE model

Init ==
    /\ plugged \in [Ports -> Models \cup {None}]
    /\ work = Idle
    /\ scan = [state |-> "running", found |-> <<>>] /\ scanStatus = "Scanning"
    /\ candidates = <<>> /\ selected = 0 /\ model = None
    /\ fixture = Fixtures
    /\ loaded = NoImage /\ pending = NoDialog /\ report = NoReport

printers == <<plugged, work>>
scanner == <<scan, scanStatus>>
source == <<candidates, selected, model, fixture>>
panes == <<loaded, pending, report>>

-----------------------------------------------------------------------------
(* The scan.                                                               *)

\* scan_descriptor_candidates: what is plugged in now, in the order of places.
PluggedIn ==
    LET found[p \in 0 .. PortCount] ==
          IF p = 0 THEN <<>>
          ELSE IF plugged[p] # None THEN Append(found[p - 1], p) ELSE found[p - 1]
    IN found[PortCount]

Enumerate ==
    /\ scan.state = "running"
    /\ scan' = [state |-> "found", found |-> PluggedIn]
    /\ UNCHANGED <<printers, scanStatus, source, panes>>

\* The enumeration fails, or its thread dies: both are an error of the scan.
EnumerateFails ==
    /\ scan.state = "running"
    /\ scan' = [scan EXCEPT !.state = "error"]
    /\ UNCHANGED <<printers, scanStatus, source, panes>>

\* poll_usb_candidates: new candidates are nobody's choice; a failed scan
\* leaves the old ones.
StaleSelection(found) ==   \* Mutant: the index outlives its list.
    candidates' = found /\ UNCHANGED <<selected, model>>
Selection(found) == candidates' = found /\ selected' = 0 /\ model' = None

PollScan ==
    /\ scan.state \in {"found", "error"}
    /\ scan' = [state |-> "none", found |-> <<>>]
    /\ IF scan.state = "found"
         THEN Selection(scan.found) /\ scanStatus' = "Ready"
         ELSE scanStatus' = "Failed" /\ UNCHANGED <<candidates, selected, model>>
    /\ UNCHANGED <<printers, fixture, panes>>

\* The button is disabled while a scan or an operation runs.
RefreshAnyTime == scanStatus # "Scanning"   \* Mutant: operations are not asked.
MayRefresh == scanStatus # "Scanning" /\ ~Busy

Refresh ==
    /\ MayRefresh
    /\ scan' = [state |-> "running", found |-> <<>>] /\ scanStatus' = "Scanning"
    /\ UNCHANGED <<printers, source, panes>>

-----------------------------------------------------------------------------
(* The outcome of an operation.                                            *)

\* cleanup_is_successful.
ClosedUp == work.close = "succeeded"   \* Mutant: USB alone.
CleanedUp == work.shutdown = "succeeded" /\ work.close = "succeeded"

Outcome == [kind |-> IF work.ok THEN "done" ELSE "failed",
            success |-> work.ok /\ CleanedUp]

\* A dump over libusb is shown; a native one is not.
Displayed == work.ok /\ work.request = "dump" /\ work.port \notin Native

\* A message in the channel, or a channel that is disconnected.
SentOnly == work.phase = "sent"   \* Mutant: a dead worker is waited for.
Ended == work.phase \in {"sent", "stopped"}

\* poll_usb_operation.
PollOperation ==
    /\ Ended
    /\ work' = Idle
    /\ report' = Outcome
    /\ IF Displayed
         THEN /\ loaded' = [kind |-> "dump", port |-> work.port,
                            model |-> work.model, printer |-> work.reached]
              /\ fixture' = FALSE
         ELSE UNCHANGED <<loaded, fixture>>
    /\ UNCHANGED <<plugged, scanner, candidates, selected, model, pending>>

-----------------------------------------------------------------------------
(* The source of the panes: everything here is locked while an operation   *)
(* runs, and closes the dialog and the report.                             *)

\* The controls that choose are enabled only while no operation runs.
Unlocked == ~Busy
Cleared == pending' = NoDialog /\ report' = NoReport
ImageKept == loaded' = loaded   \* Mutant: the panes keep the last dump.
Unloaded == loaded' = NoImage

SelectCandidate(i) ==
    /\ Unlocked /\ i \in DOMAIN candidates
    /\ selected' = i
    /\ model' = IF Cardinality(Hinting) = 1 THEN CHOOSE m \in Hinting : TRUE ELSE None
    /\ fixture' = FALSE /\ Unloaded /\ Cleared
    /\ UNCHANGED <<printers, scanner, candidates>>

SelectFixture ==
    /\ Unlocked /\ Fixtures
    /\ selected' = 0 /\ model' = None
    /\ fixture' = TRUE /\ Unloaded /\ Cleared
    /\ UNCHANGED <<printers, scanner, candidates>>

\* open_eeprom_file: only a file that was read and is not empty changes more
\* than the error line.
OpenFile ==
    /\ Unlocked
    /\ selected' = 0 /\ model' = None
    /\ fixture' = FALSE /\ loaded' = [NoImage EXCEPT !.kind = "file"] /\ Cleared
    /\ UNCHANGED <<printers, scanner, candidates>>

ChooseModel(m) ==
    /\ Unlocked /\ Candidate # 0
    /\ model' = m /\ Cleared
    /\ UNCHANGED <<printers, scanner, candidates, selected, fixture, loaded>>

\* The model of the image in the panes, which only a candidate fixes.
ChooseImageModel(m) ==
    /\ loaded.kind # "none" /\ Candidate = 0
    /\ loaded' = [loaded EXCEPT !.model = m]
    /\ UNCHANGED <<printers, scanner, source, pending, report>>

-----------------------------------------------------------------------------
(* Operations and their dialogs.                                           *)

\* start_selected_usb_operation.
Job(request, dialog) ==
    [Idle EXCEPT !.phase = "prepare", !.port = Candidate, !.model = Model,
                 !.request = request, !.image = dialog.image, !.shown = dialog.shown,
                 !.acknowledged = \/ Candidate \notin Native
                                  \/ "acknowledgement" \in dialog.given]

Block == report' = Blocked /\ UNCHANGED work

Start(request, dialog) ==
    IF Busy THEN UNCHANGED <<work, report>>
    ELSE IF scanStatus = "Scanning" THEN Block
    ELSE IF Candidate = 0 THEN UNCHANGED <<work, report>>
    ELSE IF Model = None THEN Block
    ELSE work' = Job(request, dialog) /\ report' = NoReport

\* The buttons of the Status and Tools pages.
Press(request) ==
    /\ Model # None /\ ~Busy
    /\ Start(request, NoDialog)
    /\ UNCHANGED <<plugged, scanner, source, loaded, pending>>

\* A Prepare button: a new dialog with nothing filled in, or with the byte that
\* the EEPROM page selected.
OpenDialog(kind, input) ==
    /\ Model # None /\ ~Busy
    /\ input # {} => kind = "write" /\ loaded.kind # "none"
    /\ pending' = [kind |-> kind, given |-> input, image |-> None,
                   shown |-> <<Candidate, Model>>]
    /\ UNCHANGED <<printers, scanner, source, loaded, report>>

\* What the dialog draws: without a model it draws no inputs.
Editable == pending.kind # "none" /\ Model # None

\* Something the dialog asks for is given, or taken back.
Edit(what, given) ==
    /\ Editable
    /\ pending' = [pending EXCEPT !.given = IF given THEN @ \cup {what} ELSE @ \ {what}]
    /\ UNCHANGED <<printers, scanner, source, loaded, report>>

\* The address and the value of a write, parsed and compared with the range of
\* the model that is selected now.
EditUpdate(valid) == pending.kind = "write" /\ Edit("input", valid)

\* The image of a restore: preflight_restore_image compares it with the model
\* that is selected now, and its result is kept.
ChooseImage(valid) ==
    /\ pending.kind = "restore" /\ Editable
    /\ pending' = [pending EXCEPT
                     !.given = IF valid THEN @ \cup {"input"} ELSE @ \ {"input"},
                     !.image = IF valid THEN Model ELSE None]
    /\ UNCHANGED <<printers, scanner, source, loaded, report>>

\* The backup path and the typed phrase; the second phrase of a native place.
Assent(given) == Edit("assent", given)
Acknowledge(given) == Candidate \in Native /\ Edit("acknowledgement", given)

\* When the Run button of each dialog is enabled.
Assented ==
    /\ "assent" \in pending.given
    /\ Candidate \in Native => "acknowledgement" \in pending.given
WriteReady == pending.kind = "write" /\ "input" \in pending.given /\ Assented
RestoreReady == pending.kind = "restore" /\ "input" \in pending.given /\ Assented
ResetReady == pending.kind = "reset" /\ Model \in Resettable /\ Assented
Ready == WriteReady \/ RestoreReady \/ ResetReady

\* The dialog is gone once its request was dispatched, whether or not an
\* operation could start.
Confirm ==
    /\ Editable /\ Ready
    /\ Start(pending.kind, pending)
    /\ pending' = NoDialog
    /\ UNCHANGED <<plugged, scanner, source, loaded>>

\* The window's own button closes it.  (Cancel does not: dialog_actions sets
\* the flag that asks for closing to FALSE, which it already is.)
CloseDialog ==
    /\ pending.kind # "none"
    /\ pending' = NoDialog
    /\ UNCHANGED <<printers, scanner, source, loaded, report>>

User ==
    \/ Refresh \/ SelectFixture \/ OpenFile \/ Confirm \/ CloseDialog
    \/ \E i \in Ports : SelectCandidate(i)
    \/ \E m \in Models : ChooseModel(m) \/ ChooseImageModel(m)
    \/ \E request \in {"status", "dump"} : Press(request)
    \/ \E kind \in Mutations, input \in {{}, {"input"}} : OpenDialog(kind, input)
    \/ \E given \in BOOLEAN : \/ EditUpdate(given) \/ ChooseImage(given)
                               \/ Assent(given) \/ Acknowledge(given)

interface == <<scanner, source, panes>>

Next ==
    \/ User
    \/ Enumerate \/ EnumerateFails \/ PollScan \/ PollOperation
    \/ (Work \/ Stop \/ Spin) /\ UNCHANGED interface
    \/ \E port \in Ports, printer \in Models \cup {None} :
         Replug(port, printer) /\ UNCHANGED interface

Spec == Init /\ [][Next]_vars

\* Frames are drawn while anything runs (request_repaint_after), and no step of
\* a thread waits without a timeout, unless a D4 call of the worker spins: Spin
\* may happen wherever such a call is made, and nothing ends it.
FairSpec ==
    /\ Spec
    /\ WF_vars(Enumerate \/ EnumerateFails) /\ WF_vars(PollScan)
    /\ WF_vars(Work /\ UNCHANGED interface) /\ WF_vars(PollOperation)

-----------------------------------------------------------------------------
(* Properties.                                                             *)

Images == [kind : {"none", "file", "dump"}, port : 0 .. PortCount,
           model : Models \cup {None}, printer : Models \cup {None}]
Targets == (0 .. PortCount) \X (Models \cup {None})
Dialogs == [kind : {"none"} \cup Mutations, given : SUBSET Given,
            image : Models \cup {None}, shown : Targets]
ReportKinds == [kind : {"none", "blocked", "done", "failed"}, success : BOOLEAN]
Works == [phase : Phases, port : 0 .. PortCount, model : Models \cup {None},
          request : Requests, acknowledged : BOOLEAN, image : Models \cup {None},
          shown : Targets, printer : Models \cup {None},
          reached : Models \cup {None}, ok : BOOLEAN, backup : BOOLEAN,
          owed : BOOLEAN, conversing : BOOLEAN, shutdown : Cleanups, close : Cleanups]

\* Every variable keeps its type; the selected index names a candidate, and the
\* status line says that a scan runs exactly while its channel is open.
TypeOK ==
    /\ plugged \in [Ports -> Models \cup {None}] /\ work \in Works
    /\ scan \in [state : Scans, found : Seq(Ports)]
    /\ scanStatus \in {"Scanning", "Ready", "Failed"}
    /\ candidates \in Seq(Ports) /\ selected \in 0 .. Len(candidates)
    /\ model \in Models \cup {None} /\ fixture \in BOOLEAN
    /\ loaded \in Images /\ pending \in Dialogs /\ report \in ReportKinds
    /\ (scan.state # "none") = (scanStatus = "Scanning")

\* The scan thread enumerates devices only while no worker has one open.
OneAtATime == ~(scan.state = "running" /\ Running)

\* What a worker writes goes to the place and the model that its dialog showed
\* when it was opened, whatever was plugged, scanned and selected since; the
\* complete backup is on disk, and a native place has been acknowledged.
WritesAsConfirmed ==
    work.phase = "apply" =>
      /\ work.shown = <<work.port, work.model>>
      /\ work.reached = work.model
      /\ work.backup
      /\ work.port \in Native => work.acknowledged

\* An open dialog is about the candidate and the model that are selected, and so
\* is the image it was given; or nothing is selected, and it offers nothing.
DialogCurrent ==
    pending.kind # "none" /\ Candidate # 0 =>
      /\ pending.shown = <<Candidate, Model>>
      /\ pending.image \in {None, Model}

\* The image beside a selected candidate is the dump of the printer found at
\* that candidate's place, and its label, the confirmed model, is true of it.
ImageOfCandidate ==
    loaded.kind # "none" /\ Candidate # 0 =>
      loaded.kind = "dump" /\ loaded.port = Candidate /\ loaded.model = loaded.printer

\* What is shown is about what is selected: the dialog and the image pane.
PanesCurrent == DialogCurrent /\ ImageOfCandidate

\* A report in green means that the printer has left its conversation.  A report
\* of a failure says that a write that reached the printer was verified and
\* rolled back: so it was, unless the worker stopped unexpectedly.
ReportTrue ==
    Ended =>
      /\ Outcome.success => ~work.conversing
      /\ Outcome.kind = "failed" /\ work.owed => work.phase = "stopped"

\* Every scan ends, and every operation, its worker's death included, is
\* reported, unless a D4 call of the worker never returns: then the interface
\* stays busy for good.
OutcomesShown ==
    /\ scanStatus = "Scanning" ~> scanStatus # "Scanning"
    /\ Busy ~> report.kind \in {"done", "failed"} \/ work.phase = "spinning"

=============================================================================
