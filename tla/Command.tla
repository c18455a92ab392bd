------------------------------- MODULE Command -------------------------------
(***************************************************************************)
(* One command of the two command-line programs, reink-cli and             *)
(* reink-hardware-test (the evidence tool), from its arguments to its      *)
(* exit: what it checks before it opens a printer, what it reads and       *)
(* writes there, which files it creates, how it cleans up and what it says *)
(* of it all.                                                              *)
(*                                                                         *)
(* The steps of a session are those of UsbSession.tla and EepromWrite.tla, *)
(* here with the outcomes those modules give them: apply_eeprom_write      *)
(* succeeds with exactly the requested bytes in the printer, or fails with *)
(* any of them changed.  The printer changes bytes of its own, other       *)
(* programs create files, and the command can be killed at any time.       *)
(***************************************************************************)
EXTENDS ModelDatabase, SnmpChannel

CONSTANTS
    Databases,    \* model databases, each a sequence of groups
    Identities,   \* identifiers of printers, each a sequence of entries
    Names,        \* model names that a user asks for
    Environments, \* environments of an SNMP session
    UpdateLists, AddressLists, Images,   \* what a user asks to write and read
    MaxAddress,   \* bound: the addresses of a printer are 0 .. MaxAddress
    MaxDrift      \* bound: how many bytes the printer changes of its own

ASSUME BoundAssumption == MaxAddress \in Nat /\ MaxDrift \in Nat

Addresses == 0 .. MaxAddress
Bytes == {0, 1}

\* The addresses that a model's entry or a list names are the printer's, and a
\* list names at least one.
ASSUME AddressAssumption ==
    /\ \A addresses \in AddressLists : addresses \in Seq(Addresses) /\ addresses # <<>>
    /\ \A image \in Images : image \in Seq(Bytes)
    /\ \A groups \in Databases :
         /\ groups \in Seq(Range(groups))
         /\ \A i \in DOMAIN groups :
              /\ {groups[i].low, groups[i].high} \subseteq Addresses
              /\ groups[i].mem \in Seq(Range(groups[i].mem))
              /\ \A k \in DOMAIN groups[i].mem :
                   /\ groups[i].mem[k].addr \in Seq(Addresses)
                   /\ groups[i].mem[k].reset \in Seq(Bytes)
              /\ \A k \in DOMAIN groups[i].fields :
                   {groups[i].fields[k].first, groups[i].fields[k].last} \subseteq Nat

\* A write is given at least one address and value.
ASSUME UpdateAssumption ==
    \A updates \in UpdateLists : updates \in Seq(Addresses \X Bytes) /\ updates # <<>>
Files == {"output", "report", "trace"}   \* the backup or image, and two more

Mutations == {"write", "restore", "reset"}
CommandSet ==
    [program : {"cli"}, backend : {"usb"},
     request : {"probe", "device_id", "status", "dump"} \cup Mutations]
      \cup [program : {"cli"}, backend : {"native"},
            request : {"identity", "status", "read", "dump"} \cup Mutations]
      \cup [program : {"cli"}, backend : {"snmp"},
            request : {"identity", "status", "read", "dump"}]
      \cup [program : {"evidence"}, backend : {"usb"},
            request : {"sequence", "identity", "read", "dump", "boundary", "write"}]
      \cup [program : {"evidence"}, backend : {"native"},
            request : {"identity", "status", "read", "dump", "boundary", "write"}]
      \cup [program : {"evidence"}, backend : {"none"}, request : {"transcript"}]

Phases == {"arguments", "open", "connect", "identity", "act", "backup", "apply", "readback",
           "restoration", "restoration_readback", "shutdown", "close", "trace", "output",
           "report", "exit", "killed"}
Stages == {"identity", "pre_read", "backup", "test_write", "test_readback",
           "restoration", "restoration_readback"}
Steps == {"arguments", "open", "setup", "operation", "shutdown", "close", "trace",
          "output", "report", "evidence"}

VARIABLES
    c,          \* the command and what it was given, which does not change
    memory,     \* the printer's EEPROM
    drifts,     \* history: the bytes it changed of its own since the backup
    conversing, \* is the printer in a D4 conversation with the command?
    files,      \* what is at the paths the command names
    run         \* the command's progress

vars == <<c, memory, drifts, conversing, files, run>>

-----------------------------------------------------------------------------
(* Commands.                                                               *)

Is(program, backend, request) ==
    c.program = program /\ c.backend = backend /\ c.request = request

Mutates == c.request \in Mutations
Evidence == c.program = "evidence" /\ c.request = "write"
\* Over libusb the evidence tool's reads verify no identity; they write a trace
\* and a report where they are told to.
Captures == /\ c.program = "evidence" /\ c.backend = "usb"
            /\ c.request \notin {"sequence", "write"}
Saves == c.program = "cli" /\ c.request = "dump"
\* Without a session: the requests of UsbTransport.tla, a conversion of files.
Sessionless == c.request \in {"probe", "device_id", "sequence", "transcript"}
\* Commands that take no model from the user.
Modelless == Sessionless \/ (c.backend = "snmp" /\ c.request \in {"identity", "status"})

Spec0 == SelectedModel(c.database, c.model)
Range0 == {a \in Addresses : InRange(Spec0, a)}

\* The updates of a mutation: listed, expanded from an image, or declared.
Updates == CASE c.request = "restore" -> RestoreUpdates(Spec0, c.image)
             [] c.request = "reset" -> ResetUpdates(Spec0, "waste")
             [] OTHER -> c.updates
AddressesOf(updates) == {updates[i][1] : i \in DOMAIN updates}

\* The phrases that a command has to be given exactly.
Phrases(cmd) ==
    (IF cmd.request \in Mutations \cup {"boundary", "transcript"} THEN {"confirmation"} ELSE {})
      \cup (IF cmd.program = "evidence" /\ cmd.request = "write" THEN {"restoration"} ELSE {})
      \cup (IF cmd.backend = "native" /\ cmd.request \in Mutations THEN {"acknowledgement"} ELSE {})

\* The files it may be told to create, and the ones it is told to.
PathSets(cmd) ==
    IF cmd.program = "evidence" /\ cmd.request = "write" THEN {{"output", "report"}}
    ELSE CASE cmd.program = "evidence" /\ cmd.backend = "usb" /\ cmd.request # "sequence" ->
           SUBSET {"trace", "report"}
      [] cmd.request \in Mutations \cup {"transcript"}
           \/ (cmd.program = "cli" /\ cmd.request = "dump") -> {{"output"}}
      [] OTHER -> {{}}
\* The report's path may be that of the backup or of the trace.
PathOf(file) == IF file = "report" THEN c.report ELSE file

-----------------------------------------------------------------------------
Fresh == [phase |-> "arguments", failed |-> {}, told |-> {}, reported |-> {},
          backup |-> <<>>, read |-> {}, original |-> 0, level |-> "none",
          done |-> {}, tried |-> {}]

\* What matters to a command is enumerated, the rest is fixed.
If(used, set, otherwise) == IF used THEN set ELSE {otherwise}

\* The evidence tool's dump over libusb takes a first and a last address.
Ranged(cmd) == cmd.program = "evidence" /\ cmd.backend = "usb" /\ cmd.request = "dump"
\* The evidence tool writes one byte, and a boundary probe reads one.
One(s) == IF s = <<>> THEN s ELSE <<Head(s)>>

Init ==
    /\ \E cmd \in CommandSet, database \in Databases, identity \in Identities, m \in Names :
         \E updates \in If(cmd.request = "write", UpdateLists, <<>>),
            image \in If(cmd.request = "restore", Images, <<>>),
            addresses \in If(cmd.request \in {"read", "boundary"} \/ Ranged(cmd), AddressLists, <<>>),
            env \in If(cmd.backend = "snmp", Environments, CHOOSE e \in Environments : TRUE),
            missing \in {{}} \cup {{p} : p \in Phrases(cmd)},
            paths \in PathSets(cmd) :
           \E report \in If("report" \in paths, paths, "report") :
             c = [program |-> cmd.program, backend |-> cmd.backend, request |-> cmd.request,
                  database |-> database, identity |-> identity, model |-> m,
                  updates |-> IF cmd.program = "evidence" THEN One(updates) ELSE updates,
                  image |-> image, env |-> env,
                  addresses |-> IF cmd.request = "boundary" THEN One(addresses) ELSE addresses,
                  given |-> Phrases(cmd) \ missing,
                  paths |-> paths, report |-> report]
    /\ memory \in If(Mutates, {[a \in Addresses |-> 0], [a \in Addresses |-> a % 2]},
                              [a \in Addresses |-> 0])
    /\ drifts = {} /\ conversing = FALSE
    /\ files = [f \in Files |-> "absent"]
    /\ run = Fresh

Goes(next) == run' = [run EXCEPT !.phase = next]

\* A step fails, and the command goes on at another phase; or it ends at once
\* and says which step it was.
Fails(step, next) == run' = [run EXCEPT !.phase = next, !.failed = @ \cup {step}]
Ends(step) == run' = [run EXCEPT !.phase = "exit", !.failed = @ \cup {step}, !.told = {step}]

-----------------------------------------------------------------------------
(* Before a printer is opened.                                             *)

\* validate_new_file_path, validate_private_new_file_path.
NewPaths == \A f \in c.paths : files[PathOf(f)] = "absent"

\* The addresses of a read, of a boundary probe and of a dump in part.
GoodRead ==
    /\ IF c.program = "cli" THEN GoodAddresses(Spec0, c.addresses)
                            ELSE EvidenceAddresses(Spec0, c.addresses)
    /\ c.backend = "native" => Displayable(Spec0, c.addresses)
GoodBoundary == ~InRange(Spec0, c.addresses[1])
First == Head(c.addresses)
Final == Last(c.addresses)
GoodDump == First <= Final /\ Spec0.low <= First /\ Final <= Spec0.high

GoodRequest ==
    CASE c.request = "read" -> GoodRead
      [] c.request = "boundary" -> GoodBoundary
      [] Ranged(c) -> GoodDump
      [] Mutates -> Updates # Error /\ GoodUpdates(Spec0, Updates)
      [] OTHER -> TRUE

\* validate_write_evidence_gates: two files, as far as paths tell.
Apart == Evidence => c.report # "output"

Accepted ==
    /\ Phrases(c) \subseteq c.given
    /\ NewPaths /\ Apart
    /\ Modelless \/ (Spec0 # Error /\ GoodRequest)

CheckArguments ==
    /\ run.phase = "arguments"
    /\ IF Accepted THEN Goes(IF Sessionless THEN "act" ELSE "open") ELSE Ends("arguments")
    /\ UNCHANGED <<c, memory, drifts, conversing, files>>

-----------------------------------------------------------------------------
(* The session.                                                            *)

\* The transport is opened.  A failure of the evidence tool is reported, of the
\* others it ends the command.
Opens(next) ==
    /\ run.phase = "open"
    /\ \/ IF Captures \/ Evidence
            THEN run' = [run EXCEPT !.phase = "report", !.failed = {"open"}, !.told = {"open"}]
            ELSE Ends("open")
       \/ run' = next
    /\ UNCHANGED <<c, memory, drifts, conversing, files>>
OpenUsb == c.backend = "usb" /\ Opens([run EXCEPT !.phase = "connect"])
OpenNative == c.backend = "native" /\ Opens([run EXCEPT !.phase = "connect"])
\* An SNMP session, whose protection the environment decides.
OpenSnmp ==
    /\ c.backend = "snmp"
    /\ Opens(IF Configured(c.env) = "error"
               THEN [run EXCEPT !.phase = "exit", !.failed = {"open"}, !.told = {"open"}]
               ELSE [run EXCEPT !.phase = "identity", !.level = Configured(c.env)])
Open == OpenUsb \/ OpenNative \/ OpenSnmp

\* connect_recoverable: a setup that fails may leave the printer in D4.
Connect ==
    /\ run.phase = "connect"
    /\ \/ Goes(IF Captures /\ c.request # "identity" THEN "act" ELSE "identity") /\ conversing' = TRUE
       \/ Fails("setup", "close") /\ conversing' \in BOOLEAN
    /\ UNCHANGED <<c, memory, drifts, files>>

\* What follows an operation, whatever came of it: the session's cleanup, which
\* SNMP does not have.
Errs == IF c.backend = "snmp" THEN Ends("operation") ELSE Fails("operation", "shutdown")
Succeeds == IF c.backend = "snmp" THEN (IF Saves THEN "output" ELSE "exit") ELSE "shutdown"

\* A request over SNMP is one GET or two; over D4 its failures are those of the
\* link.  (The result of a failure is Errs.)
Answered == \E first, second \in Gets : c.backend = "snmp" => GetOctets(first, second)

\* verify_requested_model, verify_exact_model; resolve_identity for a status
\* over SNMP.  The other two show what they read.
AnyModel == DetectedModel(c.identity) # Error   \* Mutant: any printer will do.
Verified ==
    LET detected == DetectedModel(c.identity)
    IN IF c.request = "identity" /\ (c.backend = "snmp" \/ Captures)
         THEN Parsed(c.identity) # Error
       ELSE IF Modelless THEN SelectedModel(c.database, detected) # Error
       ELSE detected = c.model

Identify ==
    /\ run.phase = "identity"
    /\ \/ Errs
       \/ /\ Answered /\ Verified
          /\ run' = [run EXCEPT !.phase = IF c.request = "identity" THEN Succeeds ELSE "act",
                                !.done = @ \cup {"identity"}]
    /\ UNCHANGED <<c, memory, drifts, conversing, files>>

\* A request that needs no session succeeds or fails by itself.
Asks(good, next) ==
    /\ run.phase = "act"
    /\ Ends("operation") \/ (good /\ Goes(next))
    /\ UNCHANGED <<c, memory, drifts, conversing, files>>
UsbD4Probe == Is("cli", "usb", "probe") /\ Asks(TRUE, "exit")
UsbIdentity == Is("cli", "usb", "device_id") /\ Asks(Parsed(c.identity) # Error, "exit")
ReadSequence == Is("evidence", "usb", "sequence") /\ Asks(Parsed(c.identity) # Error, "exit")
TraceToTranscript == Is("evidence", "none", "transcript") /\ Asks(TRUE, "output")
Ask == UsbD4Probe \/ UsbIdentity \/ ReadSequence \/ TraceToTranscript

\* The status, or bytes of the EEPROM.
Reads(addresses) ==
    /\ run.phase = "act"
    /\ \/ Errs
       \/ Answered /\ run' = [run EXCEPT !.read = Range(addresses), !.phase = Succeeds]
    /\ UNCHANGED <<c, memory, drifts, conversing, files>>
UsbStatus == Is("cli", "usb", "status") /\ Reads(<<>>)
NativeStatus == Is("cli", "native", "status") /\ Reads(<<>>)
SnmpStatus == Is("cli", "snmp", "status") /\ Reads(<<>>)
NativeRead == Is("cli", "native", "read") /\ Reads(c.addresses)
SnmpRead == Is("cli", "snmp", "read") /\ Reads(c.addresses)
UsbDump == Is("cli", "usb", "dump") /\ Reads(DumpAddresses(Spec0))
NativeDump == Is("cli", "native", "dump") /\ Reads(DumpAddresses(Spec0))
SnmpDump == Is("cli", "snmp", "dump") /\ Reads(DumpAddresses(Spec0))
EvidenceRead == Is("evidence", "usb", "read") /\ Reads(c.addresses)
EvidenceDump ==
    /\ Is("evidence", "usb", "dump")
    /\ Reads([i \in 1 .. Final - First + 1 |-> First + i - 1])
BoundaryProbe == Is("evidence", "usb", "boundary") /\ Reads(c.addresses)
NativeEvidenceStatus == Is("evidence", "native", "status") /\ Reads(<<>>)
NativeEvidenceRead == Is("evidence", "native", "read") /\ Reads(c.addresses)
NativeEvidenceDump == Is("evidence", "native", "dump") /\ Reads(DumpAddresses(Spec0))
NativeBoundaryProbe == Is("evidence", "native", "boundary") /\ Reads(c.addresses)
Read ==
    \/ UsbStatus \/ NativeStatus \/ SnmpStatus \/ NativeRead \/ SnmpRead
    \/ UsbDump \/ NativeDump \/ SnmpDump \/ EvidenceRead \/ EvidenceDump \/ BoundaryProbe
    \/ NativeEvidenceStatus \/ NativeEvidenceRead \/ NativeEvidenceDump \/ NativeBoundaryProbe

\* The evidence tool reads the byte first, and refuses to write its own value.
PreRead ==
    /\ run.phase = "act" /\ Evidence /\ "pre_read" \notin run.done
    /\ LET value == memory[Updates[1][1]]
       IN \/ Errs
          \/ value = Updates[1][2] /\ Errs
          \/ /\ value # Updates[1][2]
             /\ run' = [run EXCEPT !.done = @ \cup {"pre_read"}, !.original = value]
    /\ UNCHANGED <<c, memory, drifts, conversing, files>>

\* prepare_eeprom_write reads the complete range, which must agree with the
\* byte the evidence tool has read.
Prepares ==
    /\ run.phase = "act"
    /\ \/ Errs
       \/ run' = [run EXCEPT !.phase = "backup", !.read = Range0, !.backup = memory]
    /\ drifts' = {}
    /\ UNCHANGED <<c, memory, conversing, files>>
UsbWrite == Is("cli", "usb", "write") /\ Prepares
UsbRestore == Is("cli", "usb", "restore") /\ Prepares
UsbReset == Is("cli", "usb", "reset") /\ Prepares
NativeMutation == c.program = "cli" /\ c.backend = "native" /\ Mutates /\ Prepares
EvidenceWrite ==
    /\ Evidence /\ "pre_read" \in run.done /\ Prepares
    /\ run'.phase = "backup" => memory[Updates[1][1]] = run.original
Prepare == UsbWrite \/ UsbRestore \/ UsbReset \/ NativeMutation \/ EvidenceWrite

-----------------------------------------------------------------------------
(* Files.                                                                  *)

\* create_new, the bytes, and the syncs: what is then at the path, and whether
\* it was reported as written.
Truncate(path) == {<<"written", TRUE>>, <<"partial", FALSE>>}   \* Mutant: not create_new.
Create(path) ==
    IF files[path] # "absent" THEN {<<files[path], FALSE>>}
    ELSE {<<"written", TRUE>>, <<"written", FALSE>>, <<"partial", FALSE>>, <<"absent", FALSE>>}

SaveBackup ==
    /\ run.phase = "backup"
    /\ \E new \in Create("output") :
         /\ files' = [files EXCEPT !["output"] = new[1]]
         /\ IF new[2] THEN run' = [run EXCEPT !.phase = "apply", !.done = @ \cup {"backup"}]
                      ELSE Errs
    /\ UNCHANGED <<c, memory, drifts, conversing>>

-----------------------------------------------------------------------------
(* Mutations.                                                              *)

Holding(m, updates) ==
    [a \in Addresses |-> IF a \in AddressesOf(updates)
                           THEN updates[CHOOSE i \in DOMAIN updates : updates[i][1] = a][2]
                           ELSE m[a]]

\* apply_eeprom_write (EepromWrite.tla).
Applies(updates, ok) ==
    \E m \in [Addresses -> Bytes] :
      /\ \A a \in Addresses \ AddressesOf(updates) : m[a] = memory[a]
      /\ ok => m = Holding(memory, updates)
      /\ memory' = m

\* The evidence tool goes on to its restoration whatever came of its write.
AfterFailedTestGivesUp == "shutdown"   \* Mutant: a failed write ends it.
AfterFailedTest == "restoration"

Apply ==
    /\ run.phase = "apply"
    /\ \E ok \in BOOLEAN :
         /\ Applies(Updates, ok)
         /\ run' = [run EXCEPT
              !.phase = IF ~Evidence THEN "shutdown" ELSE IF ok THEN "readback" ELSE AfterFailedTest,
              !.tried = @ \cup {"test_write"},
              !.done = IF ok THEN @ \cup {"test_write"} ELSE @,
              !.failed = IF ok THEN @ ELSE @ \cup {"operation"}]
    /\ UNCHANGED <<c, drifts, conversing, files>>

\* An independent read-back: no reply, or the byte.
ReadBack(stage, expected, next) ==
    \E ok \in BOOLEAN :
      /\ ok => memory[Updates[1][1]] = expected
      /\ run' = [run EXCEPT !.phase = next, !.done = IF ok THEN @ \cup {stage} ELSE @,
                            !.failed = IF ok THEN @ ELSE @ \cup {"operation"}]

TestReadBack ==
    /\ run.phase = "readback"
    /\ ReadBack("test_readback", Updates[1][2], "restoration")
    /\ UNCHANGED <<c, memory, drifts, conversing, files>>

Restore ==
    /\ run.phase = "restoration"
    /\ \E ok \in BOOLEAN :
         /\ Applies(<<<<Updates[1][1], run.original>>>>, ok)
         /\ run' = [run EXCEPT
              !.phase = IF ok THEN "restoration_readback" ELSE "shutdown",
              !.tried = @ \cup {"restoration"},
              !.done = IF ok THEN @ \cup {"restoration"} ELSE @,
              !.failed = IF ok THEN @ ELSE @ \cup {"operation"}]
    /\ UNCHANGED <<c, drifts, conversing, files>>

RestorationReadBack ==
    /\ run.phase = "restoration_readback"
    /\ ReadBack("restoration_readback", run.original, "shutdown")
    /\ UNCHANGED <<c, memory, drifts, conversing, files>>

-----------------------------------------------------------------------------
(* Cleanup and what is said.                                               *)

\* session.shutdown, which fails with the printer gone from D4 or still in it.
Shutdown ==
    /\ run.phase = "shutdown"
    /\ \/ Goes("close") /\ conversing' = FALSE
       \/ Fails("shutdown", "close") /\ conversing' \in {FALSE, conversing}
    /\ UNCHANGED <<c, memory, drifts, files>>

\* with_usb_epson_session, finish_windows_native_operation, finish_d4_operation:
\* every failure is in the error.
Blamed(failed) ==         \* Mutant: whatever failed, the operation is blamed.
    IF failed = {} THEN {} ELSE {"operation"}
FirstFailure(failed) ==   \* Mutant: a failed operation hides the cleanup.
    IF "operation" \in failed THEN {"operation"} ELSE failed
Collected(failed) == failed

\* The interface is closed, whatever came before; the evidence tool tries it
\* twice over libusb, and says what came of the first time.
Closes(clean, otherwise) ==
    /\ run.phase = "close"
    /\ \E step \in {{}, {"close"}} :
         LET failed == run.failed \cup step
         IN run' = [run EXCEPT !.phase = IF failed = {} THEN clean ELSE otherwise,
                               !.failed = failed, !.told = Collected(failed)]
    /\ UNCHANGED <<c, memory, drifts, conversing, files>>
Ending == IF Saves THEN "output" ELSE "exit"
CloseUsb == c.program = "cli" /\ c.backend = "usb" /\ Closes(Ending, "exit")
CloseNative == c.program = "cli" /\ c.backend = "native" /\ Closes(Ending, "exit")
CloseNativeEvidence ==
    c.program = "evidence" /\ c.backend = "native" /\ ~Evidence /\ Closes(Ending, "exit")
CloseCapture == Captures /\ Closes("trace", "trace")
CloseEvidence == Evidence /\ Closes("report", "report")
Close == CloseUsb \/ CloseNative \/ CloseNativeEvidence \/ CloseCapture \/ CloseEvidence

\* finish_trace: whatever came of the operation, and its failure is added.
WriteTrace ==
    /\ run.phase = "trace"
    /\ IF "trace" \notin c.paths THEN Goes("report") /\ UNCHANGED files
       ELSE \E new \in Create("trace") :
              /\ files' = [files EXCEPT !["trace"] = new[1]]
              /\ IF new[2] THEN Goes("report")
                 ELSE run' = [run EXCEPT !.phase = "report", !.failed = @ \cup {"trace"},
                                         !.told = @ \cup {"trace"}]
    /\ UNCHANGED <<c, memory, drifts, conversing>>

\* The image of a dump, and a transcript.
WriteOutput ==
    /\ run.phase = "output"
    /\ \E new \in Create("output") :
         /\ files' = [files EXCEPT !["output"] = new[1]]
         /\ IF new[2] THEN Goes("exit") ELSE Ends("output")
    /\ UNCHANGED <<c, memory, drifts, conversing>>

\* completed_safely, of the outcome and of the cleanup.
CompletedSafely == Stages \subseteq run.done
Completed == CompletedSafely /\ run.failed \cap {"open", "setup", "shutdown", "close"} = {}

\* emit_report, fail_with_report.
WriteReport ==
    /\ run.phase = "report" /\ ~Evidence
    /\ IF "report" \notin c.paths THEN Goes("exit") /\ UNCHANGED files
       ELSE \E new \in Create(c.report) :
              /\ files' = [files EXCEPT ![c.report] = new[1]]
              /\ IF new[2] THEN run' = [run EXCEPT !.phase = "exit", !.reported = run.failed]
                 ELSE run' = [run EXCEPT !.phase = "exit", !.failed = @ \cup {"report"},
                                         !.told = @ \cup {"report"}]
    /\ UNCHANGED <<c, memory, drifts, conversing>>

\* finish_write_evidence_report: the error is a summary, the report has it all.
WriteEvidenceReport ==
    /\ run.phase = "report" /\ Evidence
    /\ \E new \in Create(c.report) :
         /\ files' = [files EXCEPT ![c.report] = new[1]]
         /\ IF new[2]
              THEN run' = [run EXCEPT !.phase = "exit", !.reported = run.failed,
                                      !.told = IF Completed THEN {} ELSE {"evidence"}]
              ELSE run' = [run EXCEPT !.phase = "exit", !.failed = @ \cup {"report"},
                                      !.told = {"report"}]
    /\ UNCHANGED <<c, memory, drifts, conversing>>

-----------------------------------------------------------------------------
(* The world around it.                                                    *)

Alive == run.phase \notin {"arguments", "exit", "killed"}

\* External: the printer changes a byte of its own.
Drift(a) ==
    /\ Alive /\ Mutates /\ Cardinality(drifts) < MaxDrift
    /\ memory' = [memory EXCEPT ![a] = 1 - @] /\ drifts' = drifts \cup {a}
    /\ UNCHANGED <<c, conversing, files, run>>

\* External: another program creates a file at one of the paths, before the
\* command or while it runs.
Foreign(f) ==
    /\ run.phase \notin {"exit", "killed"} /\ f \in c.paths /\ files[f] = "absent"
    /\ files' = [files EXCEPT ![f] = "foreign"]
    /\ UNCHANGED <<c, memory, drifts, conversing, run>>

\* External: the command is killed.
Kill ==
    /\ Alive
    /\ Goes("killed")
    /\ UNCHANGED <<c, memory, drifts, conversing, files>>

Host == \/ CheckArguments \/ Open \/ Connect \/ Identify \/ Ask \/ Read \/ PreRead \/ Prepare
        \/ SaveBackup \/ Apply \/ TestReadBack \/ Restore \/ RestorationReadBack
        \/ Shutdown \/ Close \/ WriteTrace \/ WriteOutput \/ WriteReport
        \/ WriteEvidenceReport

Next == \/ Host \/ Kill
        \/ \E a \in Addresses : Drift(a)
        \/ \E f \in Files : Foreign(f)

Spec == Init /\ [][Next]_vars

-----------------------------------------------------------------------------
(* Properties.                                                             *)

\* Every variable keeps its type; what is told is what failed, or a summary.
TypeOK ==
    /\ memory \in [Addresses -> Bytes] /\ drifts \subseteq Addresses
    /\ conversing \in BOOLEAN
    /\ files \in [Files -> {"absent", "foreign", "partial", "written"}]
    /\ run.phase \in Phases /\ run.done \subseteq Stages /\ run.tried \subseteq Stages
    /\ run.failed \subseteq Steps /\ run.reported \subseteq run.failed
    /\ run.told \subseteq run.failed \cup {"evidence"}
    /\ run.original \in Bytes /\ run.read \subseteq Addresses
    /\ run.backup \in {<<>>} \cup [Addresses -> Bytes]
    /\ run.level \in {"none", "Community", "NoAuthNoPriv", "AuthNoPriv", "AuthPriv"}

\* When bytes are about to be written, every phrase was given, the printer said
\* that it is the model asked for, the bytes are of that model's range, those of
\* a reset the declared ones, and the file at the backup's path is the command's
\* own and holds the range as it is, but for what the printer has changed since.
WritesAuthorised ==
    run.phase = "apply" =>
      /\ Phrases(c) \subseteq c.given
      /\ DetectedModel(c.identity) = c.model
      /\ AddressesOf(Updates) \subseteq Range0
      /\ c.request = "reset" => Range(Updates) = DeclaredReset(Spec0, "waste")
      /\ files["output"] = "written"
      /\ \A a \in Range0 \ drifts : run.backup[a] = memory[a]

\* A read leaves the model's range only as a boundary probe, of one address that
\* was confirmed; a native command shows no byte of a sensitive field.
ReadsAuthorised ==
    run.read # {} =>
      /\ \/ run.read \subseteq Range0
         \/ "confirmation" \in c.given /\ Cardinality(run.read) = 1
      /\ c.backend = "native" /\ c.request = "read" =>
           \A j \in DOMAIN Spec0.fields :
             Spec0.fields[j].sensitive =>
               run.read \cap (Spec0.fields[j].first .. Spec0.fields[j].last) = {}

\* Once the evidence tool has tried its write it tries to restore the byte
\* before it cleans up, and evidence that is called complete has the original
\* byte in the printer and the printer out of D4.
EvidenceRestores ==
    Evidence =>
      /\ run.phase \in {"shutdown", "close", "report", "exit"} /\ "test_write" \in run.tried
           => "restoration" \in run.tried
      /\ run.phase = "exit" /\ run.told = {} =>
           /\ memory[Updates[1][1]] = run.original \/ Updates[1][1] \in drifts
           /\ ~conversing

\* Evidence whose private report could not be written: its error says that
\* "cleanup completed", whatever failed before (finish_write_evidence_report).
ReportLost == Evidence /\ "report" \in run.failed

\* A command that ends well has done everything, and one that fails names every
\* step that failed in its error or in its report, unless its report is lost:
\* a restoration or a cleanup that failed before is then named nowhere.
FailuresTold ==
    run.phase = "exit" =>
      /\ run.told = {} => run.failed = {}
      /\ ~ReportLost => run.failed \subseteq run.told \cup run.reported

\* A file that is there is never changed, whoever created it in the meantime.
FilesKept == [][\A f \in Files : files[f] # "absent" => files'[f] = files[f]]_vars

\* A session of version 3 uses every protection that a readable variable of its
\* environment names.
NeverDowngraded ==
    run.level # "none" /\ c.env["VERSION"] = "3" =>
      /\ Asked(c.env) # {} => run.level \in {"AuthNoPriv", "AuthPriv"}
      /\ Asked(c.env) \ AuthPair # {} => run.level = "AuthPriv"

=============================================================================
