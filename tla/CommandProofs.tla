----------------------------- MODULE CommandProofs -----------------------------
(***************************************************************************)
(* What a command of Command.tla keeps for any database, printer, lists of *)
(* updates and files: nothing is written before everything that authorises *)
(* it was checked, and nothing read that is not to be, no file that is     *)
(* there is touched, every failure is told, the evidence tool puts back    *)
(* the byte that it has changed, and an SNMP session is protected as its   *)
(* environment asks.                                                       *)
(*                                                                         *)
(* The invariant is in two parts: IInv is what a command keeps by itself,  *)
(* AInv what it has checked before it reads and writes; the second needs   *)
(* the first, and lemmas on the model database, whose resets are           *)
(* recursions.                                                             *)
(***************************************************************************)
EXTENDS Command, NaturalSets, SequenceTheorems, FiniteSetTheorems, TLAPS

-----------------------------------------------------------------------------
(* The inductive invariant.                                                *)

RunRecord ==
    run = [phase |-> run.phase, failed |-> run.failed, told |-> run.told,
           reported |-> run.reported, backup |-> run.backup, read |-> run.read,
           original |-> run.original, level |-> run.level, done |-> run.done,
           tried |-> run.tried]

\* What was given stays: the paths are among the three, and the evidence tool
\* writes at an address of the printer.
Given ==
    /\ c.report \in Files
    /\ Evidence => Updates[1][1] \in Addresses /\ c.backend # "snmp"

Stored ==
    /\ memory \in [Addresses -> Bytes]
    /\ files = [f \in Files |-> files[f]]

\* Phases before anything was written.
Early == {"arguments", "open", "connect", "identity", "act", "backup", "apply"}
\* Phases in which what is to be said is not collected yet.
Silent == Early \cup {"readback", "restoration", "restoration_readback", "shutdown", "close"}
Cleaning == {"open", "setup", "operation", "shutdown", "close"}

\* Until the interface is closed nothing is said; then what failed is said.
Telling ==
    /\ run.phase \in Early => run.failed = {}
    /\ run.phase \in Silent => run.told = {} /\ run.reported = {}
    /\ run.phase \in {"trace", "output", "report"} => run.told = run.failed
    /\ run.phase = "output" => run.failed = {} /\ ~Evidence
    /\ run.phase \notin {"exit", "killed"} => run.failed \subseteq Cleaning \cup {"trace"}
    /\ run.phase = "trace" => Captures
    /\ "trace" \in run.failed => Captures

\* A failed operation of the evidence tool leaves a stage undone, and once the
\* test write was tried so is the restoration.
Staged ==
    Evidence =>
      /\ run.phase \in Early =>
           "test_write" \notin run.done /\ "test_write" \notin run.tried
      /\ run.phase \in Early \cup {"readback"} =>
           "test_readback" \notin run.done /\ "operation" \notin run.failed
      /\ run.phase \in Early \cup {"readback", "restoration", "restoration_readback"} =>
           "restoration_readback" \notin run.done
      /\ run.phase \in {"restoration", "restoration_readback"} /\ "operation" \in run.failed =>
           "test_write" \notin run.done \/ "test_readback" \notin run.done
      /\ "operation" \in run.failed => ~(Stages \subseteq run.done)
      /\ run.phase \notin {"readback", "restoration", "killed"} /\ "test_write" \in run.tried
           => "restoration" \in run.tried

\* What a stage has verified is true, and a clean end has left D4.
Verifies ==
    Evidence =>
      /\ "restoration_readback" \in run.done =>
           memory[Updates[1][1]] = run.original \/ Updates[1][1] \in drifts
      /\ run.phase \in {"close", "report"} /\ run.failed \cap {"open", "setup", "shutdown"} = {}
           => ~conversing
      /\ run.phase = "exit" /\ run.told = {} =>
           /\ "restoration_readback" \in run.done
           /\ ~conversing

Protected == run.level # "none" => run.level = Configured(c.env) /\ run.level # "error"

IInv ==
    /\ RunRecord /\ Given /\ Stored /\ Telling /\ Staged /\ Verifies /\ Protected
    /\ FailuresTold

\* The kinds of command exclude each other, and c does not change.
LEMMA Kinds ==
    /\ Evidence => c.program = "evidence" /\ c.request = "write" /\ ~Captures /\ ~Saves
    /\ Captures => ~Saves
BY DEF Evidence, Captures, Saves

LEMMA CommandStays ==
    ASSUME Given, UNCHANGED c
    PROVE  /\ Given' /\ Updates' = Updates /\ Evidence' = Evidence /\ Captures' = Captures
           /\ Configured(c.env)' = Configured(c.env)
<1>1. Spec0' = Spec0
  BY DEF Spec0
<1>2. Updates' = Updates /\ Evidence' = Evidence /\ Captures' = Captures
  BY <1>1 DEF Updates, Evidence, Captures
<1> QED
  BY <1>2 DEF Given

-----------------------------------------------------------------------------
(* Every step keeps it.                                                    *)

\* A step that fails before anything was said, and ends the command.
LEMMA EndsKeeps ==
    ASSUME IInv, UNCHANGED <<c, memory, conversing>>, Stored',
           NEW step \in {"arguments", "open", "operation"}, Ends(step),
           run.phase \in Early,
           UNCHANGED drifts
    PROVE  IInv'
<1> USE DEF IInv, RunRecord, Stored, Telling, Staged, Verifies, Protected, FailuresTold, ReportLost,
            Early, Silent, Cleaning, Stages
<1> Given' /\ Updates' = Updates /\ Evidence' = Evidence /\ Captures' = Captures
    /\ Configured(c.env)' = Configured(c.env)
  BY CommandStays
<1>1. run'.phase = "exit" /\ run'.failed = {step} /\ run'.told = {step}
      /\ run'.reported = {} /\ run'.level = run.level /\ run'.done = run.done
      /\ run'.tried = run.tried /\ RunRecord'
  BY DEF Ends
<1>2. Telling' /\ FailuresTold'
  BY <1>1
<1>3. Staged'
  <2> SUFFICES ASSUME Evidence PROVE Staged'
    BY DEF Staged
  <2>1. "restoration_readback" \notin run.done /\ "test_write" \notin run.tried
    OBVIOUS
  <2>2. ~(Stages \subseteq run'.done) /\ "test_write" \notin run'.tried
    BY <1>1, <2>1
  <2>3. run'.phase = "exit"
    BY <1>1
  <2> QED
    BY <2>2, <2>3
<1>4. Verifies' /\ Protected' /\ Stored'
  BY <1>1
<1> QED
  BY <1>1, <1>2, <1>3, <1>4

\* Before anything is written: the command goes on, with what it has read, to a
\* phase that is early too, to its cleanup, or to its end over SNMP.
LEMMA EarlyKeeps ==
    ASSUME IInv, run.phase \in Early, RunRecord',
           UNCHANGED <<c, memory>>, Stored', UNCHANGED drifts \/ run.phase = "act",
           run'.phase \in Early \cup {"shutdown", "output", "exit"},
           run'.phase \in {"output", "exit"} => ~Evidence,
           run'.failed = {} \/ (run'.phase = "shutdown" /\ run'.failed = {"operation"}),
           run'.told = {}, run'.reported = {}, run'.tried = run.tried,
           run'.level = run.level \/ (run'.level = Configured(c.env) /\ run'.level # "error"),
           run'.done \subseteq run.done \cup {"identity", "pre_read", "backup"}
    PROVE  IInv'
<1> USE DEF IInv, Stored, Early, Silent, Cleaning
<1> Given' /\ Updates' = Updates /\ Evidence' = Evidence /\ Captures' = Captures
    /\ Configured(c.env)' = Configured(c.env)
  BY CommandStays
<1>1. Telling' /\ FailuresTold'
  BY DEF Telling, FailuresTold, ReportLost
<1>2. Staged'
  BY DEF Staged, Stages
<1>3. Verifies' /\ Protected' /\ Stored'
  BY DEF Staged, Verifies, Protected
<1> QED
  BY <1>1, <1>2, <1>3
\* An operation that fails before anything is written.
LEMMA ErrsKeeps ==
    ASSUME IInv, run.phase \in Early, Errs, UNCHANGED <<c, memory, conversing>>, Stored',
           UNCHANGED drifts \/ (run.phase = "act" /\ c.backend # "snmp")
    PROVE  IInv'
<1>1. CASE c.backend = "snmp"
  BY <1>1, EndsKeeps DEF Errs
<1>2. CASE c.backend # "snmp"
  <2>1. Fails("operation", "shutdown")
    BY <1>2 DEF Errs
  <2>2. /\ run'.phase = "shutdown" /\ run'.failed = run.failed \cup {"operation"}
        /\ run'.told = run.told /\ run'.reported = run.reported /\ run'.level = run.level
        /\ run'.done = run.done /\ run'.tried = run.tried /\ RunRecord'
    BY <2>1 DEF Fails, IInv, RunRecord
  <2>3. run.failed = {} /\ run.told = {} /\ run.reported = {}
    BY DEF IInv, Telling, Early, Silent
  <2> QED
    BY <1>2, <2>2, <2>3, EarlyKeeps
<1> QED
  BY <1>1, <1>2

\* An early step that succeeds changes the phase, and perhaps what it records.
LEMMA GoesOnKeeps ==
    ASSUME IInv, run.phase \in Early, UNCHANGED <<c, memory>>, Stored',
           UNCHANGED drifts \/ run.phase = "act",
           NEW next, next \in Early \cup {"shutdown", "output", "exit"},
           next \in {"output", "exit"} => ~Evidence,
           NEW done, done \subseteq {"identity", "pre_read", "backup"},
           NEW read, NEW backup, NEW original, NEW level,
           level = run.level \/ (level = Configured(c.env) /\ level # "error"),
           run' = [run EXCEPT !.phase = next, !.done = @ \cup done, !.read = read,
                              !.backup = backup, !.original = original, !.level = level]
    PROVE  IInv'
<1>1. /\ run'.phase = next /\ run'.failed = run.failed
      /\ run'.told = run.told /\ run'.reported = run.reported /\ run'.level = level
      /\ run'.done = run.done \cup done /\ run'.tried = run.tried /\ RunRecord'
  BY DEF IInv, RunRecord
<1>2. run.failed = {} /\ run.told = {} /\ run.reported = {}
  BY DEF IInv, Telling, Early, Silent
<1> QED
  BY <1>1, <1>2, EarlyKeeps

\* Arguments, the transport and the session's setup.
LEMMA SetupKeeps ==
    ASSUME IInv, CheckArguments \/ Open \/ Connect
    PROVE  IInv'
<1> USE DEF Early
<1>1. CASE CheckArguments
  <2>1. Stored' /\ UNCHANGED <<c, memory, conversing, drifts>> /\ run.phase \in Early
    BY <1>1 DEF CheckArguments, IInv, Stored
  <2>2. CASE Ends("arguments")
    BY <2>1, <2>2, EndsKeeps
  <2>3. CASE \E next \in {"act", "open"} : Goes(next)
    <3> PICK next \in {"act", "open"} : Goes(next)
      BY <2>3
    <3> run' = [run EXCEPT !.phase = next, !.done = @ \cup {}, !.read = run.read,
                 !.backup = run.backup, !.original = run.original, !.level = run.level]
      BY DEF Goes, IInv, RunRecord
    <3> QED
      BY <2>1, GoesOnKeeps
  <2> QED
    BY <1>1, <2>2, <2>3 DEF CheckArguments
<1>2. CASE Open
  <2>1. Stored' /\ UNCHANGED <<c, memory, conversing, drifts>> /\ run.phase = "open"
    BY <1>2 DEF Open, OpenUsb, OpenNative, OpenSnmp, Opens, IInv, Stored
  <2>2. run.failed = {} /\ run.told = {} /\ run.reported = {}
    BY <2>1 DEF IInv, Telling, Silent
  <2>3. CASE run' = [run EXCEPT !.phase = "report", !.failed = {"open"}, !.told = {"open"}]
    <3> Given' /\ Updates' = Updates /\ Evidence' = Evidence /\ Captures' = Captures
        /\ Configured(c.env)' = Configured(c.env)
      BY <2>1, CommandStays DEF IInv
    <3>1. /\ run'.phase = "report" /\ run'.failed = {"open"} /\ run'.told = {"open"}
          /\ run'.reported = {} /\ run'.level = run.level /\ run'.done = run.done
          /\ run'.original = run.original /\ run'.tried = run.tried /\ RunRecord'
      BY <2>2, <2>3 DEF IInv, RunRecord
    <3>2. Telling' /\ FailuresTold'
      BY <3>1 DEF Telling, FailuresTold, ReportLost, Silent, Cleaning
    <3>3. Staged' /\ Verifies' /\ Protected'
      BY <2>1, <3>1 DEF IInv, Staged, Verifies, Protected
    <3> QED
      BY <2>1, <3>1, <3>2, <3>3 DEF IInv
  <2>4. CASE Ends("open")
    BY <2>1, <2>4, EndsKeeps
  <2>5. CASE run' = [run EXCEPT !.phase = "exit", !.failed = {"open"}, !.told = {"open"}]
    <3> Ends("open")
      BY <2>2, <2>5 DEF Ends
    <3> QED
      BY <2>1, EndsKeeps
  <2>6. CASE run' = [run EXCEPT !.phase = "connect"]
    <3> run' = [run EXCEPT !.phase = "connect", !.done = @ \cup {}, !.read = run.read,
                 !.backup = run.backup, !.original = run.original, !.level = run.level]
      BY <2>6 DEF IInv, RunRecord
    <3> QED
      BY <2>1, GoesOnKeeps
  <2>7. CASE /\ Configured(c.env) # "error"
             /\ run' = [run EXCEPT !.phase = "identity", !.level = Configured(c.env)]
    <3> DEFINE level == Configured(c.env)
    <3>1. run' = [run EXCEPT !.phase = "identity", !.done = @ \cup {}, !.read = run.read,
                 !.backup = run.backup, !.original = run.original, !.level = level]
      BY <2>7 DEF IInv, RunRecord
    <3>2. level = Configured(c.env) /\ level # "error"
      BY <2>7
    <3> HIDE DEF level
    <3> QED
      BY <2>1, <3>1, <3>2, GoesOnKeeps
  <2> QED
    BY <1>2, <2>3, <2>4, <2>5, <2>6, <2>7 DEF Open, OpenUsb, OpenNative, OpenSnmp, Opens
<1>3. CASE Connect
  <2>1. Stored' /\ UNCHANGED <<c, memory, drifts>> /\ run.phase = "connect"
    BY <1>3 DEF Connect, IInv, Stored
  <2>2. CASE \E next \in {"act", "identity"} : Goes(next)
    <3> PICK next \in {"act", "identity"} : Goes(next)
      BY <2>2
    <3> run' = [run EXCEPT !.phase = next, !.done = @ \cup {}, !.read = run.read,
                 !.backup = run.backup, !.original = run.original, !.level = run.level]
      BY DEF Goes, IInv, RunRecord
    <3> QED
      BY <2>1, GoesOnKeeps
  <2>3. CASE Fails("setup", "close")
    <3> Given' /\ Updates' = Updates /\ Evidence' = Evidence /\ Captures' = Captures
        /\ Configured(c.env)' = Configured(c.env)
      BY <2>1, CommandStays DEF IInv
    <3>1. /\ run'.phase = "close" /\ run'.failed = {"setup"} /\ run'.told = {}
          /\ run'.reported = {} /\ run'.level = run.level /\ run'.done = run.done
          /\ run'.original = run.original /\ run'.tried = run.tried /\ RunRecord'
      BY <2>1, <2>3 DEF Fails, IInv, RunRecord, Telling, Silent
    <3>2. Telling' /\ FailuresTold'
      BY <3>1 DEF Telling, FailuresTold, ReportLost, Silent, Cleaning
    <3>3. Staged' /\ Verifies' /\ Protected'
      BY <2>1, <3>1 DEF IInv, Staged, Verifies, Protected
    <3> QED
      BY <2>1, <3>1, <3>2, <3>3 DEF IInv
  <2> QED
    BY <1>3, <2>2, <2>3 DEF Connect
<1> QED
  BY <1>1, <1>2, <1>3
\* Identity, and requests that need no session or only read.
LEMMA ReadingKeeps ==
    ASSUME IInv, Identify \/ Ask \/ Read \/ PreRead
    PROVE  IInv'
<1> USE DEF Early
<1>1. /\ run.phase \in {"identity", "act"} /\ Stored'
      /\ UNCHANGED <<c, memory, conversing, drifts>>
  BY DEF Identify, Ask, UsbD4Probe, UsbIdentity, ReadSequence, TraceToTranscript, Asks, Read,
         UsbStatus, NativeStatus, SnmpStatus, NativeRead, SnmpRead, UsbDump, NativeDump, SnmpDump,
         EvidenceRead, EvidenceDump, BoundaryProbe, NativeEvidenceStatus, NativeEvidenceRead,
         NativeEvidenceDump, NativeBoundaryProbe, Reads, PreRead, IInv, Stored
<1>2. CASE Errs
  BY <1>1, <1>2, ErrsKeeps
<1>3. c.request # "write" => ~Evidence
  BY Kinds
<1>4. Succeeds \in {"shutdown", "output", "exit"}
  BY DEF Succeeds
<1>5. CASE Identify /\ ~Errs
  <2> DEFINE next == IF c.request = "identity" THEN Succeeds ELSE "act"
  <2>1. run' = [run EXCEPT !.phase = next, !.done = @ \cup {"identity"}, !.read = run.read,
                 !.backup = run.backup, !.original = run.original, !.level = run.level]
    BY <1>5 DEF Identify, IInv, RunRecord
  <2>2. next \in Early \cup {"shutdown", "output", "exit"}
        /\ (next \in {"output", "exit"} => ~Evidence)
    BY <1>3, <1>4
  <2> HIDE DEF next
  <2> QED
    BY <1>1, <2>1, <2>2, GoesOnKeeps
<1>6. CASE Ask
  <2>1. ~Evidence
    BY <1>6, <1>3 DEF Ask, UsbD4Probe, UsbIdentity, ReadSequence, TraceToTranscript, Is
  <2>2. CASE Ends("operation")
    BY <1>1, <2>2, EndsKeeps
  <2>3. CASE \E next \in {"exit", "output"} : Goes(next)
    <3> PICK next \in {"exit", "output"} : Goes(next)
      BY <2>3
    <3> run' = [run EXCEPT !.phase = next, !.done = @ \cup {}, !.read = run.read,
                 !.backup = run.backup, !.original = run.original, !.level = run.level]
      BY DEF Goes, IInv, RunRecord
    <3> QED
      BY <1>1, <2>1, GoesOnKeeps
  <2> QED
    BY <1>6, <2>2, <2>3
    DEF Ask, UsbD4Probe, UsbIdentity, ReadSequence, TraceToTranscript, Asks
<1>7. CASE Read /\ ~Errs
  <2>1. ~Evidence
    BY <1>7, <1>3 DEF Read, Is,
         UsbStatus, NativeStatus, SnmpStatus, NativeRead, SnmpRead, UsbDump, NativeDump, SnmpDump,
         EvidenceRead, EvidenceDump, BoundaryProbe, NativeEvidenceStatus, NativeEvidenceRead,
         NativeEvidenceDump, NativeBoundaryProbe
  <2>2. PICK addresses : Reads(addresses)
    BY <1>7 DEF Read,
         UsbStatus, NativeStatus, SnmpStatus, NativeRead, SnmpRead, UsbDump, NativeDump, SnmpDump,
         EvidenceRead, EvidenceDump, BoundaryProbe, NativeEvidenceStatus, NativeEvidenceRead,
         NativeEvidenceDump, NativeBoundaryProbe
  <2> DEFINE read == Range(addresses)
  <2>3. run' = [run EXCEPT !.phase = Succeeds, !.done = @ \cup {}, !.read = read,
                 !.backup = run.backup, !.original = run.original, !.level = run.level]
    BY <1>7, <2>2 DEF Reads, IInv, RunRecord
  <2> HIDE DEF read
  <2> QED
    BY <1>1, <1>4, <2>1, <2>3, GoesOnKeeps
<1>8. CASE PreRead /\ ~Errs
  <2> DEFINE value == memory[Updates[1][1]]
  <2>1. run' = [run EXCEPT !.phase = "act", !.done = @ \cup {"pre_read"}, !.read = run.read,
                 !.backup = run.backup, !.original = value, !.level = run.level]
    BY <1>8 DEF PreRead, IInv, RunRecord
  <2> HIDE DEF value
  <2> QED
    BY <1>1, <2>1, GoesOnKeeps
<1> QED
  BY <1>2, <1>5, <1>6, <1>7, <1>8

\* The plan and its backup.
LEMMA BackupKeeps ==
    ASSUME IInv, Prepare \/ SaveBackup
    PROVE  IInv'
<1> USE DEF Early
<1>1. CASE Prepare
  <2>1. Prepares /\ c.backend # "snmp"
    BY <1>1 DEF Prepare, UsbWrite, UsbRestore, UsbReset, NativeMutation, EvidenceWrite, Is,
                Evidence, IInv, Given
  <2>2. /\ run.phase = "act" /\ Stored' /\ UNCHANGED <<c, memory, conversing>>
    BY <2>1 DEF Prepares, IInv, Stored
  <2>3. CASE Errs
    BY <2>1, <2>2, <2>3, ErrsKeeps
  <2>4. CASE run' = [run EXCEPT !.phase = "backup", !.read = Range0, !.backup = memory]
    <3> DEFINE read == Range0
    <3>1. run' = [run EXCEPT !.phase = "backup", !.done = @ \cup {}, !.read = read,
                   !.backup = memory, !.original = run.original, !.level = run.level]
      BY <2>4 DEF IInv, RunRecord
    <3> HIDE DEF read
    <3> QED
      BY <2>2, <3>1, GoesOnKeeps
  <2> QED
    BY <2>1, <2>3, <2>4 DEF Prepares
<1>2. CASE SaveBackup
  <2>1. run.phase = "backup" /\ UNCHANGED <<c, memory, conversing, drifts>>
    BY <1>2 DEF SaveBackup
  <2>2. Stored'
    BY <1>2 DEF SaveBackup, IInv, Stored
  <2>3. CASE Errs
    BY <2>1, <2>2, <2>3, ErrsKeeps
  <2>4. CASE run' = [run EXCEPT !.phase = "apply", !.done = @ \cup {"backup"}]
    <3>1. run' = [run EXCEPT !.phase = "apply", !.done = @ \cup {"backup"}, !.read = run.read,
                   !.backup = run.backup, !.original = run.original, !.level = run.level]
      BY <2>4 DEF IInv, RunRecord
    <3> QED
      BY <2>1, <2>2, <3>1, GoesOnKeeps
  <2> QED
    BY <1>2, <2>3, <2>4 DEF SaveBackup
<1> QED
  BY <1>1, <1>2
\* The writes, what the evidence tool reads back, and the session's shutdown.
LEMMA WritingKeeps ==
    ASSUME IInv, Apply \/ TestReadBack \/ Restore \/ RestorationReadBack \/ Shutdown
    PROVE  IInv'
<1> USE DEF Early, Silent, Cleaning
<1>1. UNCHANGED <<c, drifts, files>>
  BY DEF Apply, TestReadBack, Restore, RestorationReadBack, Shutdown
<1>2. Given' /\ Updates' = Updates /\ Evidence' = Evidence /\ Captures' = Captures
      /\ Configured(c.env)' = Configured(c.env)
  BY <1>1, CommandStays DEF IInv
<1>3. run.told = {} /\ run.reported = {}
  BY DEF Apply, TestReadBack, Restore, RestorationReadBack, Shutdown, IInv, Telling
<1>4. CASE Apply
  <2> PICK ok \in BOOLEAN :
        /\ Applies(Updates, ok)
        /\ run' = [run EXCEPT
             !.phase = IF ~Evidence THEN "shutdown" ELSE IF ok THEN "readback" ELSE AfterFailedTest,
             !.tried = @ \cup {"test_write"},
             !.done = IF ok THEN @ \cup {"test_write"} ELSE @,
             !.failed = IF ok THEN @ ELSE @ \cup {"operation"}]
    BY <1>4 DEF Apply
  <2>1. run.phase = "apply" /\ run.failed = {} /\ conversing' = conversing
    BY <1>4 DEF Apply, IInv, Telling
  <2>2. /\ run'.phase = IF ~Evidence THEN "shutdown" ELSE IF ok THEN "readback" ELSE "restoration"
        /\ run'.tried = run.tried \cup {"test_write"}
        /\ run'.done = IF ok THEN run.done \cup {"test_write"} ELSE run.done
        /\ run'.failed = IF ok THEN {} ELSE {"operation"}
        /\ run'.told = {} /\ run'.reported = {} /\ run'.level = run.level /\ RunRecord'
    BY <1>3, <2>1 DEF IInv, RunRecord, AfterFailedTest
  <2>3. Telling' /\ FailuresTold'
    BY <2>2 DEF Telling, FailuresTold, ReportLost
  <2>4. Staged'
    BY <1>2, <2>1, <2>2 DEF IInv, Staged, Stages
  <2>5. Verifies' /\ Protected'
    BY <1>2, <2>1, <2>2 DEF IInv, Staged, Verifies, Protected
  <2>6. Stored'
    BY <1>1 DEF IInv, Stored, Applies
  <2> QED
    BY <1>2, <2>2, <2>3, <2>4, <2>5, <2>6 DEF IInv
<1>5. CASE TestReadBack
  <2> PICK ok \in BOOLEAN :
        run' = [run EXCEPT !.phase = "restoration",
                           !.done = IF ok THEN @ \cup {"test_readback"} ELSE @,
                           !.failed = IF ok THEN @ ELSE @ \cup {"operation"}]
    BY <1>5 DEF TestReadBack, ReadBack
  <2>1. run.phase = "readback" /\ UNCHANGED <<conversing, memory>>
    BY <1>5 DEF TestReadBack
  <2>2. /\ run'.phase = "restoration" /\ run'.tried = run.tried
        /\ run'.done = IF ok THEN run.done \cup {"test_readback"} ELSE run.done
        /\ run'.failed = IF ok THEN run.failed ELSE run.failed \cup {"operation"}
        /\ run'.told = {} /\ run'.reported = {} /\ run'.level = run.level /\ RunRecord'
        /\ run'.original = run.original
    BY <1>3 DEF IInv, RunRecord
  <2>3. Telling' /\ FailuresTold'
    BY <1>2, <2>1, <2>2 DEF IInv, Telling, FailuresTold, ReportLost
  <2>4. Staged'
    BY <1>2, <2>1, <2>2 DEF IInv, Staged, Stages
  <2>5. Verifies' /\ Protected' /\ Stored'
    BY <1>1, <1>2, <2>1, <2>2 DEF IInv, Staged, Verifies, Protected, Stored
  <2> QED
    BY <1>2, <2>2, <2>3, <2>4, <2>5 DEF IInv
<1>6. CASE Restore
  <2> PICK ok \in BOOLEAN :
        /\ Applies(<<<<Updates[1][1], run.original>>>>, ok)
        /\ run' = [run EXCEPT
             !.phase = IF ok THEN "restoration_readback" ELSE "shutdown",
             !.tried = @ \cup {"restoration"},
             !.done = IF ok THEN @ \cup {"restoration"} ELSE @,
             !.failed = IF ok THEN @ ELSE @ \cup {"operation"}]
    BY <1>6 DEF Restore
  <2>1. run.phase = "restoration" /\ conversing' = conversing
    BY <1>6 DEF Restore
  <2>2. /\ run'.phase = IF ok THEN "restoration_readback" ELSE "shutdown"
        /\ run'.tried = run.tried \cup {"restoration"}
        /\ run'.done = IF ok THEN run.done \cup {"restoration"} ELSE run.done
        /\ run'.failed = IF ok THEN run.failed ELSE run.failed \cup {"operation"}
        /\ run'.told = {} /\ run'.reported = {} /\ run'.level = run.level /\ RunRecord'
    BY <1>3 DEF IInv, RunRecord
  <2>3. Telling' /\ FailuresTold'
    BY <1>2, <2>1, <2>2 DEF IInv, Telling, FailuresTold, ReportLost
  <2>4. Staged'
    BY <1>2, <2>1, <2>2 DEF IInv, Staged, Stages
  <2>5. Verifies' /\ Protected'
    BY <1>2, <2>1, <2>2 DEF IInv, Staged, Verifies, Protected
  <2>6. Stored'
    BY <1>1 DEF IInv, Stored, Applies
  <2> QED
    BY <1>2, <2>2, <2>3, <2>4, <2>5, <2>6 DEF IInv
<1>7. CASE RestorationReadBack
  <2> PICK ok \in BOOLEAN :
        /\ ok => memory[Updates[1][1]] = run.original
        /\ run' = [run EXCEPT !.phase = "shutdown",
                              !.done = IF ok THEN @ \cup {"restoration_readback"} ELSE @,
                              !.failed = IF ok THEN @ ELSE @ \cup {"operation"}]
    BY <1>7 DEF RestorationReadBack, ReadBack
  <2>1. run.phase = "restoration_readback" /\ UNCHANGED <<conversing, memory>>
    BY <1>7 DEF RestorationReadBack
  <2>2. /\ run'.phase = "shutdown" /\ run'.tried = run.tried
        /\ run'.done = IF ok THEN run.done \cup {"restoration_readback"} ELSE run.done
        /\ run'.failed = IF ok THEN run.failed ELSE run.failed \cup {"operation"}
        /\ run'.told = {} /\ run'.reported = {} /\ run'.level = run.level /\ RunRecord'
        /\ run'.original = run.original
    BY <1>3 DEF IInv, RunRecord
  <2>3. Telling' /\ FailuresTold'
    BY <1>2, <2>1, <2>2 DEF IInv, Telling, FailuresTold, ReportLost
  <2>4. Staged'
    <3> SUFFICES ASSUME Evidence PROVE Staged'
      BY <1>2 DEF Staged
    <3>1. "operation" \in run'.failed => ~(Stages \subseteq run'.done)
      <4>1. CASE ok
        BY <2>1, <2>2, <4>1 DEF IInv, Staged, Stages
      <4>2. CASE ~ok
        BY <2>1, <2>2, <4>2 DEF IInv, Staged, Stages
      <4> QED
        BY <4>1, <4>2
    <3>2. "test_write" \in run'.tried => "restoration" \in run'.tried
      BY <2>1, <2>2 DEF IInv, Staged
    <3> QED
      BY <2>2, <3>1, <3>2 DEF Staged
  <2>5. Verifies' /\ Protected' /\ Stored'
    BY <1>1, <1>2, <2>1, <2>2 DEF IInv, Staged, Verifies, Protected, Stored
  <2> QED
    BY <1>2, <2>2, <2>3, <2>4, <2>5 DEF IInv
<1>8. CASE Shutdown
  <2>1. run.phase = "shutdown" /\ UNCHANGED memory
    BY <1>8 DEF Shutdown
  <2>2. /\ run'.phase = "close" /\ run'.tried = run.tried /\ run'.done = run.done
        /\ \/ run'.failed = run.failed /\ conversing' = FALSE
           \/ run'.failed = run.failed \cup {"shutdown"}
        /\ run'.told = {} /\ run'.reported = {} /\ run'.level = run.level /\ RunRecord'
        /\ run'.original = run.original
    BY <1>3, <1>8 DEF Shutdown, Goes, Fails, IInv, RunRecord
  <2>3. Telling' /\ FailuresTold'
    BY <1>2, <2>1, <2>2 DEF IInv, Telling, FailuresTold, ReportLost
  <2>4. Staged'
    BY <1>2, <2>1, <2>2 DEF IInv, Staged, Stages
  <2>5. Verifies' /\ Protected' /\ Stored'
    BY <1>1, <1>2, <2>1, <2>2 DEF IInv, Staged, Verifies, Protected, Stored
  <2> QED
    BY <1>2, <2>2, <2>3, <2>4, <2>5 DEF IInv
<1> QED
  BY <1>4, <1>5, <1>6, <1>7, <1>8
\* Closing, and what is said of it all.
LEMMA SayingKeeps ==
    ASSUME IInv, Close \/ WriteTrace \/ WriteOutput \/ WriteReport \/ WriteEvidenceReport
    PROVE  IInv'
<1> USE DEF Early, Silent, Cleaning
<1>1. UNCHANGED <<c, drifts, memory, conversing>>
  BY DEF Close, CloseUsb, CloseNative, CloseNativeEvidence, CloseCapture, CloseEvidence, Closes,
         WriteTrace, WriteOutput, WriteReport, WriteEvidenceReport
<1>2. Given' /\ Updates' = Updates /\ Evidence' = Evidence /\ Captures' = Captures
      /\ Configured(c.env)' = Configured(c.env)
  BY <1>1, CommandStays DEF IInv
<1>3. Stored'
  BY <1>1 DEF Close, CloseUsb, CloseNative, CloseNativeEvidence, CloseCapture, CloseEvidence,
         Closes, WriteTrace, WriteOutput, WriteReport, WriteEvidenceReport, IInv, Stored
<1>4. CASE Close
  <2>1. \E clean, otherwise :
          /\ Closes(clean, otherwise)
          /\ \/ clean \in {"output", "exit"} /\ otherwise = "exit" /\ ~Evidence
             \/ clean = "trace" /\ otherwise = "trace" /\ Captures
             \/ clean = "report" /\ otherwise = "report" /\ Evidence
    <3>1. CASE CloseUsb \/ CloseNative \/ CloseNativeEvidence
      <4>1. Closes(Ending, "exit") /\ ~Evidence
        BY <3>1 DEF CloseUsb, CloseNative, CloseNativeEvidence, Evidence
      <4>2. Ending \in {"output", "exit"}
        BY DEF Ending
      <4> HIDE DEF Early, Silent, Cleaning
      <4> QED
        BY <4>1, <4>2, Zenon
    <3>2. CASE CloseCapture
      BY <3>2, Zenon DEF CloseCapture
    <3>3. CASE CloseEvidence
      BY <3>3, Zenon DEF CloseEvidence
    <3> QED
      BY <1>4, <3>1, <3>2, <3>3 DEF Close
  <2> PICK clean, otherwise :
          /\ Closes(clean, otherwise)
          /\ \/ clean \in {"output", "exit"} /\ otherwise = "exit" /\ ~Evidence
             \/ clean = "trace" /\ otherwise = "trace" /\ Captures
             \/ clean = "report" /\ otherwise = "report" /\ Evidence
    BY <2>1
  <2> PICK step \in {{}, {"close"}} :
          run' = [run EXCEPT !.phase = IF run.failed \cup step = {} THEN clean ELSE otherwise,
                             !.failed = run.failed \cup step,
                             !.told = run.failed \cup step]
    BY DEF Closes, Collected
  <2> DEFINE failed == run.failed \cup step
             phase == IF failed = {} THEN clean ELSE otherwise
  <2>2. /\ run'.phase = phase /\ run'.failed = failed /\ run'.told = failed
        /\ run'.reported = {} /\ run'.done = run.done /\ run'.tried = run.tried
        /\ run'.level = run.level /\ run'.original = run.original /\ RunRecord'
    BY <1>4 DEF IInv, RunRecord, Telling, Close, CloseUsb, CloseNative, CloseNativeEvidence,
                CloseCapture, CloseEvidence, Closes
  <2>3. /\ phase \in {"output", "exit", "trace", "report"}
        /\ phase \in {"output", "exit"} => ~Evidence
        /\ phase = "output" => failed = {}
        /\ phase = "trace" => Captures
        /\ failed \subseteq Cleaning \cup {"trace"}
        /\ "trace" \in failed => Captures
        /\ "operation" \in failed => "operation" \in run.failed
        /\ {"open", "setup", "shutdown"} \cap failed = {"open", "setup", "shutdown"} \cap run.failed
    BY <1>4, Kinds DEF IInv, Telling, Close, CloseUsb, CloseNative, CloseNativeEvidence,
                CloseCapture, CloseEvidence, Closes
  <2> HIDE DEF failed, phase
  <2>4. Telling' /\ FailuresTold'
    BY <1>2, <2>2, <2>3 DEF Telling, FailuresTold, ReportLost
  <2> run.phase = "close"
    BY DEF Closes
  <2>5. Staged'
    BY <1>2, <2>2, <2>3 DEF IInv, Staged
  <2>6. Verifies' /\ Protected'
    BY <1>1, <1>2, <2>2, <2>3 DEF IInv, Verifies, Protected
  <2> QED
    BY <1>2, <1>3, <2>2, <2>4, <2>5, <2>6 DEF IInv
<1>5. CASE WriteTrace
  <2>1. /\ run.phase = "trace" /\ Captures /\ ~Evidence
        /\ \/ Goes("report")
           \/ run' = [run EXCEPT !.phase = "report", !.failed = @ \cup {"trace"},
                                 !.told = @ \cup {"trace"}]
    BY <1>5, Kinds DEF WriteTrace, IInv, Telling
  <2>2. /\ run'.phase = "report" /\ run'.told = run'.failed /\ run'.level = run.level
        /\ run'.failed \in {run.failed, run.failed \cup {"trace"}} /\ RunRecord'
    <3>1. run.told = run.failed
      BY <2>1 DEF IInv, Telling
    <3>2. CASE Goes("report")
      BY <3>1, <3>2 DEF IInv, RunRecord, Goes
    <3>3. CASE run' = [run EXCEPT !.phase = "report", !.failed = @ \cup {"trace"},
                                  !.told = @ \cup {"trace"}]
      BY <3>1, <3>3 DEF IInv, RunRecord
    <3> QED
      BY <2>1, <3>2, <3>3
  <2>3. Telling' /\ FailuresTold'
    BY <1>2, <2>1, <2>2 DEF IInv, Telling, FailuresTold, ReportLost
  <2> QED
    BY <1>2, <1>3, <2>1, <2>2, <2>3 DEF IInv, Staged, Verifies, Protected
<1>6. CASE WriteOutput
  <2>1. /\ run.phase = "output" /\ ~Evidence /\ run.failed = {} /\ run.told = {}
        /\ Goes("exit") \/ Ends("output")
    BY <1>6 DEF WriteOutput, IInv, Telling
  <2>2. /\ run'.phase = "exit" /\ run'.told = run'.failed /\ run'.level = run.level
        /\ run'.failed \in {{}, {"output"}} /\ run'.done = run.done /\ run'.tried = run.tried
        /\ run'.original = run.original /\ RunRecord'
    <3>1. CASE Goes("exit")
      BY <2>1, <3>1 DEF IInv, RunRecord, Goes
    <3>2. CASE Ends("output")
      BY <2>1, <3>2 DEF IInv, RunRecord, Ends
    <3> QED
      BY <2>1, <3>1, <3>2
  <2>3. Telling' /\ FailuresTold'
    BY <2>2 DEF Telling, FailuresTold, ReportLost
  <2>4. Staged' /\ Protected'
    BY <1>2, <2>1, <2>2 DEF IInv, Staged, Protected
  <2> QED
    BY <1>2, <1>3, <2>1, <2>2, <2>3, <2>4 DEF IInv, Verifies
<1>7. CASE WriteReport
  <2>1. /\ run.phase = "report" /\ ~Evidence /\ run.told = run.failed
        /\ \/ Goes("exit")
           \/ run' = [run EXCEPT !.phase = "exit", !.reported = run.failed]
           \/ run' = [run EXCEPT !.phase = "exit", !.failed = @ \cup {"report"},
                                 !.told = @ \cup {"report"}]
    BY <1>7 DEF WriteReport, IInv, Telling
  <2>2. /\ run'.phase = "exit" /\ run'.told = run'.failed /\ run'.level = run.level
        /\ run'.failed \in {run.failed, run.failed \cup {"report"}} /\ RunRecord'
    <3>1. CASE Goes("exit")
      BY <2>1, <3>1 DEF IInv, RunRecord, Goes
    <3>2. CASE run' = [run EXCEPT !.phase = "exit", !.reported = run.failed]
      BY <2>1, <3>2 DEF IInv, RunRecord
    <3>3. CASE run' = [run EXCEPT !.phase = "exit", !.failed = @ \cup {"report"},
                                  !.told = @ \cup {"report"}]
      BY <2>1, <3>3 DEF IInv, RunRecord
    <3> QED
      BY <2>1, <3>1, <3>2, <3>3
  <2>3. Telling' /\ FailuresTold'
    BY <1>2, <2>1, <2>2 DEF IInv, Telling, FailuresTold, ReportLost
  <2> QED
    BY <1>2, <1>3, <2>1, <2>2, <2>3 DEF IInv, Staged, Verifies, Protected
<1>8. CASE WriteEvidenceReport
  <2>1. run.phase = "report" /\ Evidence /\ run.told = run.failed
    BY <1>8 DEF WriteEvidenceReport, IInv, Telling
  <2>2. CASE run' = [run EXCEPT !.phase = "exit", !.reported = run.failed,
                                !.told = IF Completed THEN {} ELSE {"evidence"}]
    <3>1. /\ run'.phase = "exit" /\ run'.told = IF Completed THEN {} ELSE {"evidence"}
          /\ run'.failed = run.failed /\ run'.reported = run.failed /\ RunRecord'
          /\ run'.done = run.done /\ run'.tried = run.tried /\ run'.level = run.level
          /\ run'.original = run.original
      BY <2>2 DEF IInv, RunRecord
    <3>2. run'.told = {} => Completed
      BY <3>1
    <3>3. ASSUME Completed
          PROVE  run.failed = {} /\ "restoration_readback" \in run.done /\ ~conversing
      <4>1. Stages \subseteq run.done /\ run.failed \cap {"open", "setup", "shutdown", "close"} = {}
        BY <3>3 DEF Completed, CompletedSafely
      <4>2. "operation" \notin run.failed /\ "trace" \notin run.failed
        BY <2>1, <4>1, Kinds DEF IInv, Staged, Telling
      <4>3. run.failed = {}
        BY <2>1, <4>1, <4>2 DEF IInv, Telling
      <4>4. "restoration_readback" \in run.done
        BY <4>1 DEF Stages
      <4> QED
        BY <2>1, <4>3, <4>4 DEF IInv, Verifies
    <3>4. Telling' /\ FailuresTold'
      BY <1>2, <2>1, <3>1, <3>2, <3>3 DEF IInv, Telling, FailuresTold, ReportLost
    <3>5. Staged' /\ Protected'
      BY <1>2, <2>1, <3>1 DEF IInv, Staged, Protected
    <3>6. Verifies'
      BY <1>1, <1>2, <2>1, <3>1, <3>2, <3>3 DEF IInv, Verifies
    <3> QED
      BY <1>2, <1>3, <3>1, <3>4, <3>5, <3>6 DEF IInv
  <2>3. CASE run' = [run EXCEPT !.phase = "exit", !.failed = @ \cup {"report"},
                                !.told = {"report"}]
    <3>1. /\ run'.phase = "exit" /\ run'.told = {"report"}
          /\ run'.failed = run.failed \cup {"report"} /\ RunRecord'
          /\ run'.done = run.done /\ run'.tried = run.tried /\ run'.level = run.level
          /\ run'.original = run.original
      BY <2>3 DEF IInv, RunRecord
    <3>2. Telling' /\ FailuresTold'
      BY <1>2, <2>1, <3>1 DEF IInv, Telling, FailuresTold, ReportLost
    <3>3. Staged' /\ Protected'
      BY <1>2, <2>1, <3>1 DEF IInv, Staged, Protected
    <3>4. Verifies'
      BY <1>1, <1>2, <2>1, <3>1 DEF IInv, Verifies
    <3> QED
      BY <1>2, <1>3, <3>1, <3>2, <3>3, <3>4 DEF IInv
  <2> QED
    BY <1>8, <2>2, <2>3 DEF WriteEvidenceReport
<1> QED
  BY <1>4, <1>5, <1>6, <1>7, <1>8

\* The printer's own changes, other programs' files and the end of the command.
LEMMA WorldKeeps ==
    ASSUME IInv,
           Kill \/ (\E a \in Addresses : Drift(a)) \/ (\E f \in Files : Foreign(f))
             \/ UNCHANGED vars
    PROVE  IInv'
<1>1. UNCHANGED <<c, conversing>>
  BY DEF Kill, Drift, Foreign, vars
<1>2. Given' /\ Updates' = Updates /\ Evidence' = Evidence /\ Captures' = Captures
      /\ Configured(c.env)' = Configured(c.env)
  BY <1>1, CommandStays DEF IInv
<1>3. CASE Kill
  <2>1. /\ run'.phase = "killed" /\ run'.failed = run.failed /\ run'.told = run.told
        /\ run'.reported = run.reported /\ run'.done = run.done /\ run'.tried = run.tried
        /\ run'.level = run.level /\ run'.original = run.original /\ RunRecord'
    BY <1>3 DEF Kill, Goes, IInv, RunRecord
  <2>2. Stored' /\ UNCHANGED <<memory, drifts>>
    BY <1>3 DEF Kill, IInv, Stored
  <2>3. Telling' /\ FailuresTold'
    BY <1>2, <2>1 DEF IInv, Telling, FailuresTold, ReportLost, Early, Silent, Cleaning
  <2>4. Staged' /\ Verifies' /\ Protected'
    BY <1>1, <1>2, <2>1, <2>2 DEF IInv, Staged, Verifies, Protected, Early
  <2> QED
    BY <1>2, <2>1, <2>2, <2>3, <2>4 DEF IInv
<1>4. CASE \E a \in Addresses : Drift(a)
  <2> PICK a \in Addresses : Drift(a)
    BY <1>4
  <2>1. /\ memory' = [memory EXCEPT ![a] = 1 - @] /\ drifts' = drifts \cup {a}
        /\ run' = run /\ files' = files
    BY DEF Drift
  <2>2. memory[a] \in Bytes
    BY DEF IInv, Stored
  <2>3. 1 - memory[a] \in Bytes
    BY <2>2 DEF Bytes
  <2>4. Stored'
    BY <2>1, <2>3 DEF IInv, Stored
  <2>5. Verifies'
    <3> SUFFICES ASSUME Evidence PROVE Verifies'
      BY <1>2 DEF Verifies
    <3>1. Updates[1][1] \in Addresses
      BY DEF IInv, Given
    <3>2. memory'[Updates[1][1]] = memory[Updates[1][1]] \/ Updates[1][1] \in drifts'
      BY <2>1, <3>1 DEF IInv, Stored
    <3>3. Updates[1][1] \in drifts => Updates[1][1] \in drifts'
      BY <2>1
    <3> QED
      BY <1>1, <1>2, <2>1, <3>2, <3>3 DEF IInv, Verifies
  <2>6. RunRecord' /\ Telling' /\ FailuresTold' /\ Staged' /\ Protected'
    BY <1>1, <1>2, <2>1 DEF IInv, RunRecord, Telling, FailuresTold, ReportLost, Staged, Protected
  <2> QED
    BY <1>2, <2>4, <2>5, <2>6 DEF IInv
<1>5. CASE (\E f \in Files : Foreign(f)) \/ UNCHANGED vars
  <2>1. UNCHANGED <<run, memory, drifts>> /\ Stored'
    BY <1>5 DEF Foreign, vars, IInv, Stored
  <2>2. RunRecord' /\ Telling' /\ FailuresTold' /\ Staged' /\ Verifies' /\ Protected'
    BY <1>1, <1>2, <2>1
    DEF IInv, RunRecord, Telling, FailuresTold, ReportLost, Staged, Verifies, Protected
  <2> QED
    BY <1>2, <2>1, <2>2 DEF IInv
<1> QED
  BY <1>3, <1>4, <1>5

LEMMA StepKeeps == IInv /\ [Next]_vars => IInv'
<1> SUFFICES ASSUME IInv, [Next]_vars PROVE IInv'
  OBVIOUS
<1>1. CASE Host
  BY <1>1, SetupKeeps, ReadingKeeps, BackupKeeps, WritingKeeps, SayingKeeps DEF Host
<1>2. CASE ~Host
  BY <1>2, WorldKeeps DEF Next
<1> QED
  BY <1>1, <1>2

\* The command's arguments are such as Given says.
LEMMA InitGiven == Init => Given
<1> SUFFICES ASSUME Init PROVE Given
  OBVIOUS
<1> PICK cmd \in CommandSet, database \in Databases, identity \in Identities, m \in Names :
      \E updates \in If(cmd.request = "write", UpdateLists, <<>>),
         image \in If(cmd.request = "restore", Images, <<>>),
         addresses \in If(cmd.request \in {"read", "boundary"} \/ Ranged(cmd), AddressLists, <<>>),
         env \in If(cmd.backend = "snmp", Environments, CHOOSE e \in Environments : TRUE),
         missing \in {{}} \cup {{p} : p \in Phrases(cmd)},
         paths \in PathSets(cmd) :
        \E report \in If("report" \in paths, paths, "report") :
          c = [program |-> cmd.program, backend |-> cmd.backend, request |-> cmd.request,
               database |-> database, identity |-> identity, model |-> m,
               updates |-> IF cmd.program = "evidence" THEN One(updates) ELSE updates,
               image |-> image, env |-> env,
               addresses |-> IF cmd.request = "boundary" THEN One(addresses) ELSE addresses,
               given |-> Phrases(cmd) \ missing,
               paths |-> paths, report |-> report]
  BY DEF Init
<1> PICK updates \in If(cmd.request = "write", UpdateLists, <<>>), paths \in PathSets(cmd) :
      \E report \in If("report" \in paths, paths, "report") :
        /\ c.program = cmd.program /\ c.backend = cmd.backend /\ c.request = cmd.request
        /\ c.updates = IF cmd.program = "evidence" THEN One(updates) ELSE updates
        /\ c.report = report
  OBVIOUS
<1>1. c.report \in Files
  <2>1. paths \subseteq Files
    BY DEF PathSets, Files
  <2>2. c.report \in paths \/ c.report = "report"
    BY DEF If
  <2> QED
    BY <2>1, <2>2 DEF Files
<1>2. ASSUME Evidence PROVE Updates[1][1] \in Addresses /\ c.backend # "snmp"
  <2>1. c.program = "evidence" /\ c.request = "write"
    BY <1>2 DEF Evidence
  <2>2. c.backend # "snmp"
    BY <2>1 DEF CommandSet
  <2>3. Updates = One(updates)
    BY <2>1 DEF Updates
  <2>4. updates \in UpdateLists
    BY <2>1 DEF If
  <2>5. updates \in Seq(Addresses \X Bytes) /\ updates # <<>>
    BY <2>4, UpdateAssumption
  <2>6. Head(updates) \in Addresses \X Bytes
    BY <2>5
  <2>7. Updates[1] = Head(updates)
    BY <2>3, <2>5 DEF One
  <2> QED
    BY <2>2, <2>6, <2>7
<1> QED
  BY <1>1, <1>2 DEF Given

LEMMA InitHolds == Init => IInv
<1> SUFFICES ASSUME Init PROVE IInv
  OBVIOUS
<1>1. Given
  BY InitGiven
<1>2. run = Fresh
  BY DEF Init
<1>3. /\ run.phase = "arguments" /\ run.failed = {} /\ run.told = {} /\ run.reported = {}
      /\ run.done = {} /\ run.tried = {} /\ run.level = "none" /\ RunRecord
  BY <1>2 DEF Fresh, RunRecord
<1>4. Stored
  <2>1. memory \in {[a \in Addresses |-> 0], [a \in Addresses |-> a % 2]}
    BY DEF Init, If
  <2>2. \A a \in Addresses : a % 2 \in Bytes
    BY BoundAssumption DEF Addresses, Bytes
  <2>3. memory \in [Addresses -> Bytes]
    BY <2>1, <2>2 DEF Bytes
  <2> QED
    BY <2>3 DEF Init, Stored
<1>5. Telling /\ FailuresTold
  BY <1>3 DEF Telling, FailuresTold, ReportLost, Early, Silent, Cleaning
<1>6. Staged /\ Verifies /\ Protected
  BY <1>3 DEF Staged, Verifies, Protected, Early, Stages
<1> QED
  BY <1>1, <1>3, <1>4, <1>5, <1>6 DEF IInv

THEOREM AlwaysIInv == Spec => []IInv
BY InitHolds, StepKeeps, PTL DEF Spec

-----------------------------------------------------------------------------
(* Theorems.                                                               *)

\* Whatever fails and whenever, a command that ends without an error has failed
\* nowhere, and one that ends with an error names every step that failed in it or
\* in its report (with_usb_epson_session, finish_windows_native_operation,
\* finish_trace), with one exception: evidence whose private report cannot be
\* written names only that (finish_write_evidence_report).
THEOREM FailuresAreTold == Spec => []FailuresTold
<1>1. IInv => FailuresTold
  BY DEF IInv
<1> QED
  BY <1>1, AlwaysIInv, PTL

\* A tried write of the evidence tool is followed by a tried restoration, and
\* evidence that is called complete has the byte back and D4 left
\* (write_evidence_with_session, completed_safely).
THEOREM EvidenceIsRestored == Spec => []EvidenceRestores
<1>1. IInv => EvidenceRestores
  BY DEF IInv, EvidenceRestores, Staged, Verifies
<1> QED
  BY <1>1, AlwaysIInv, PTL

\* An SNMP session of version 3 is never opened below the protection that its
\* environment names in readable variables (SnmpConfig::from_environment).
THEOREM ProtectionIsKept == Spec => []NeverDowngraded
<1>1. IInv => NeverDowngraded
  BY DEF IInv, Protected, NeverDowngraded, Configured, Level
<1> QED
  BY <1>1, AlwaysIInv, PTL

\* No command changes a file that is there, its own or another program's,
\* whoever wins the race to create it (write_new_file: create_new).
THEOREM FilesAreKept == Spec => FilesKept
<1> DEFINE Kept == \A f \in Files : files[f] # "absent" => files'[f] = files[f]
<1>1. IInv /\ [Next]_vars => [Kept]_vars
  <2> SUFFICES ASSUME IInv, Next PROVE Kept
    BY DEF vars
  <2>1. ASSUME NEW path \in Files, NEW new \in Create(path),
               files' = [files EXCEPT ![path] = new[1]]
        PROVE  Kept
    <3>1. files[path] # "absent" => new[1] = files[path]
      BY <2>1 DEF Create
    <3> QED
      BY <2>1, <3>1 DEF IInv, Stored
  <2>2. CASE SaveBackup \/ WriteTrace \/ WriteOutput \/ WriteReport \/ WriteEvidenceReport
    <3>1. files' = files \/ \E path \in Files : \E new \in Create(path) :
            files' = [files EXCEPT ![path] = new[1]]
      <4>1. "output" \in Files /\ "trace" \in Files /\ c.report \in Files
        BY DEF IInv, Given, Files
      <4> QED
        BY <2>2, <4>1 DEF SaveBackup, WriteTrace, WriteOutput, WriteReport, WriteEvidenceReport
    <3> QED
      BY <2>1, <3>1
  <2>3. CASE \E f \in Files : Foreign(f)
    BY <2>3 DEF Foreign, IInv, Stored
  <2>4. CASE \/ CheckArguments \/ Open \/ Connect \/ Identify \/ Ask \/ Read \/ PreRead
             \/ Prepare \/ Apply \/ TestReadBack \/ Restore \/ RestorationReadBack
             \/ Shutdown \/ Close \/ Kill \/ \E a \in Addresses : Drift(a)
    <3>1. files' = files
      BY <2>4 DEF CheckArguments, Open, OpenUsb, OpenNative, OpenSnmp, Opens, Connect, Identify,
         Ask, UsbD4Probe, UsbIdentity, ReadSequence, TraceToTranscript, Asks, Read,
         UsbStatus, NativeStatus, SnmpStatus, NativeRead, SnmpRead, UsbDump, NativeDump, SnmpDump,
         EvidenceRead, EvidenceDump, BoundaryProbe, NativeEvidenceStatus, NativeEvidenceRead,
         NativeEvidenceDump, NativeBoundaryProbe, Reads, PreRead, Prepare, UsbWrite, UsbRestore,
         UsbReset, NativeMutation, EvidenceWrite, Prepares, Apply, TestReadBack, Restore,
         RestorationReadBack, Shutdown, Close, CloseUsb, CloseNative, CloseNativeEvidence,
         CloseCapture, CloseEvidence, Closes, Kill, Drift
    <3> QED
      BY <3>1
  <2> QED
    BY <2>2, <2>3, <2>4 DEF Next, Host
<1> QED
  BY <1>1, AlwaysIInv, PTL DEF Spec, FilesKept

-----------------------------------------------------------------------------
(* The updates of a reset.                                                 *)

\* Put replaces what an address had, or adds it.
LEMMA PutRange ==
    ASSUME NEW T, NEW updates \in Seq(T), NEW x \in T
    PROVE  /\ Put(updates, x) \in Seq(T)
           /\ \A y : y \in Range(Put(updates, x)) <=> y = x \/ (y \in Range(updates) /\ y[1] # x[1])
<1>1. CASE \E i \in DOMAIN updates : updates[i][1] = x[1]
  <2> DEFINE new == [i \in DOMAIN updates |-> IF updates[i][1] = x[1] THEN x ELSE updates[i]]
  <2>1. Put(updates, x) = new
    BY <1>1 DEF Put
  <2>2. new \in Seq(T)
    BY SeqDef
  <2>3. \A y : y \in Range(new) <=> y = x \/ (y \in Range(updates) /\ y[1] # x[1])
    BY <1>1 DEF Range
  <2> QED
    BY <2>1, <2>2, <2>3
<1>2. CASE ~ \E i \in DOMAIN updates : updates[i][1] = x[1]
  <2>1. Put(updates, x) = Append(updates, x)
    BY <1>2 DEF Put
  <2>2. /\ Append(updates, x) \in Seq(T) /\ Len(Append(updates, x)) = Len(updates) + 1
        /\ \A i \in 1..Len(updates) : Append(updates, x)[i] = updates[i]
        /\ Append(updates, x)[Len(updates) + 1] = x
    BY AppendProperties
  <2>3. DOMAIN updates = 1..Len(updates) /\ Len(updates) \in Nat
        /\ DOMAIN Append(updates, x) = 1..(Len(updates) + 1)
    BY <2>2, LenProperties
  <2>4. \A y : y \in Range(Append(updates, x)) <=> y = x \/ y \in Range(updates)
    BY <2>2, <2>3 DEF Range
  <2>5. \A y \in Range(updates) : y[1] # x[1]
    BY <1>2 DEF Range
  <2> QED
    BY <2>1, <2>2, <2>4, <2>5
<1> QED
  BY <1>1, <1>2
\* What PutOperation computes, address by address.
PutSteps(f, T, updates, op) ==
    /\ f \in [0..Len(op.addr) -> Seq(T)]
    /\ f[0] = updates /\ PutOperation(updates, op) = f[Len(op.addr)]
    /\ \A k \in 1..Len(op.addr) : f[k] = Put(f[k - 1], <<op.addr[k], op.reset[k]>>)

LEMMA PutOperationSteps ==
    ASSUME NEW T, NEW updates \in Seq(T), NEW op, Len(op.addr) \in Nat,
           \A k \in 1..Len(op.addr) : <<op.addr[k], op.reset[k]>> \in T
    PROVE  \E f : PutSteps(f, T, updates, op)
<1> DEFINE N == Len(op.addr)
           step == [k \in 1..N |-> [x \in Seq(T) |-> Put(x, <<op.addr[k], op.reset[k]>>)]]
<1>0. N \in Nat
  OBVIOUS
<1>1. step \in [1..N -> [Seq(T) -> Seq(T)]]
  BY PutRange
<1>2. ASSUME NEW f \in [0..N -> Seq(T)], NEW k \in 1..N
      PROVE  step[k][f[k - 1]] = Put(f[k - 1], <<op.addr[k], op.reset[k]>>)
  <2>1. k - 1 \in 0..N /\ f[k - 1] \in Seq(T)
    BY <1>0
  <2> QED
    BY <2>1
<1> HIDE DEF step, N
<1>3. PICK f \in [0..N -> Seq(T)] : f[0] = updates /\ \A k \in 1..N : f[k] = step[k][f[k - 1]]
  <2> DEFINE X == Seq(T)
  <2>1. updates \in X /\ step \in [1..N -> [X -> X]]
    BY <1>1
  <2> HIDE DEF X
  <2>2. \E f : Solves(f, N, X, updates, step)
    BY <1>0, <2>1, Recursion
  <2> QED
    BY <2>2 DEF X, Solves
<1> DEFINE IsPut(g) == g = [k \in 0..N |-> IF k = 0 THEN updates
                                            ELSE Put(g[k - 1], <<op.addr[k], op.reset[k]>>)]
<1>4. IsPut(f)
  <2>1. \A k \in 0..N : f[k] = IF k = 0 THEN updates ELSE Put(f[k - 1], <<op.addr[k], op.reset[k]>>)
    <3>1. \A k \in 1..N : f[k] = Put(f[k - 1], <<op.addr[k], op.reset[k]>>)
      BY <1>2, <1>3
    <3> QED
      BY <1>0, <1>3, <3>1
  <2>2. f = [k \in 0..N |-> f[k]]
    OBVIOUS
  <2> QED
    BY <2>1, <2>2
<1> DEFINE put == CHOOSE g : IsPut(g)
<1>5. IsPut(put)
  <2> HIDE DEF IsPut
  <2> QED
    BY <1>4
<1>6. PutOperation(updates, op) = put[N]
  BY DEF PutOperation, N
<1> HIDE DEF put
<1>7. ASSUME NEW k \in 0..N PROVE put[k] = f[k]
  <2> DEFINE S == {m \in 0..N : put[m] = f[m]}
  <2>1. 0 \in S /\ \A m \in 0..(N - 1) : m \in S => m + 1 \in S
    BY <1>0, <1>4, <1>5
  <2>2. 0..N \subseteq S
    <3> HIDE DEF S
    <3> QED
      BY <1>0, <2>1, SetInduction
  <2> QED
    BY <2>2
<1>8. /\ f[0] = updates /\ f[N] = put[N]
      /\ \A k \in 1..N : f[k] = Put(f[k - 1], <<op.addr[k], op.reset[k]>>)
  BY <1>0, <1>4, <1>7
<1> QED
  BY <1>6, <1>8 DEF N, PutSteps

\* Position l holds the last of the addresses of op that are its own.
Latest(op, l) == \A m \in l + 1 .. Len(op.addr) : op.addr[m] # op.addr[l]

\* An operation replaces what its addresses had by its own bytes, the last one
\* of each address.
LEMMA PutOperationRange ==
    ASSUME NEW T, NEW updates \in Seq(T), NEW op, Len(op.addr) \in Nat,
           \A k \in 1..Len(op.addr) : <<op.addr[k], op.reset[k]>> \in T
    PROVE  /\ PutOperation(updates, op) \in Seq(T)
           /\ \A y : y \in Range(PutOperation(updates, op)) <=>
                \/ y \in Range(updates) /\ \A k \in 1..Len(op.addr) : op.addr[k] # y[1]
                \/ \E l \in 1..Len(op.addr) : Latest(op, l) /\ y = <<op.addr[l], op.reset[l]>>
<1> DEFINE N == Len(op.addr)
           Pair(k) == <<op.addr[k], op.reset[k]>>
<1>1. PICK f \in [0..N -> Seq(T)] :
        /\ f[0] = updates /\ PutOperation(updates, op) = f[N]
        /\ \A k \in 1..N : f[k] = Put(f[k - 1], Pair(k))
  <2>1. \E f : PutSteps(f, T, updates, op)
    BY PutOperationSteps
  <2> QED
    BY <2>1 DEF PutSteps
<1> DEFINE Kept(y, n) == y \in Range(updates) /\ \A k \in 1..n : op.addr[k] # y[1]
           Brought(y, n) == \E l \in 1..n :
             (\A m \in l + 1 .. n : op.addr[m] # op.addr[l]) /\ y = Pair(l)
           S == {n \in 0..N : \A y : y \in Range(f[n]) <=> Kept(y, n) \/ Brought(y, n)}
<1>2. N \in Nat
  OBVIOUS
<1>3. 0 \in S
  <2>1. \A y : y \in Range(f[0]) <=> Kept(y, 0) \/ Brought(y, 0)
    BY <1>1
  <2> QED
    BY <1>2, <2>1
<1>4. ASSUME NEW n \in 0..(N - 1), n \in S PROVE n + 1 \in S
  <2>1. n + 1 \in 1..N /\ n \in 0..N /\ (n + 1) - 1 = n
    BY <1>2
  <2>2. f[n + 1] = Put(f[n], Pair(n + 1)) /\ f[n] \in Seq(T) /\ Pair(n + 1) \in T
    BY <1>1, <2>1
  <2>3. Pair(n + 1)[1] = op.addr[n + 1]
    OBVIOUS
  <2>4. ASSUME NEW y
        PROVE  y \in Range(f[n + 1]) <=>
                 y = Pair(n + 1) \/ (y \in Range(f[n]) /\ y[1] # op.addr[n + 1])
    <3> HIDE DEF Pair
    <3> QED
      BY <2>2, <2>3, PutRange
  <2>5. ASSUME NEW y
        PROVE  Kept(y, n + 1) <=> Kept(y, n) /\ y[1] # op.addr[n + 1]
    <3>1. \A k : k \in 1..(n + 1) <=> k \in 1..n \/ k = n + 1
      OBVIOUS
    <3> QED
      BY <3>1, Zenon
  <2>6. ASSUME NEW y
        PROVE  Brought(y, n + 1) <=> y = Pair(n + 1) \/ (Brought(y, n) /\ y[1] # op.addr[n + 1])
    <3>1. ASSUME NEW l \in 1..n
          PROVE  (\A m \in l + 1 .. n + 1 : op.addr[m] # op.addr[l])
                   <=> (\A m \in l + 1 .. n : op.addr[m] # op.addr[l]) /\ op.addr[n + 1] # op.addr[l]
      <4>1. \A m \in l + 1 .. n + 1 : m \in l + 1 .. n \/ m = n + 1
        OBVIOUS
      <4>2. n + 1 \in l + 1 .. n + 1 /\ \A m \in l + 1 .. n : m \in l + 1 .. n + 1
        OBVIOUS
      <4> QED
        BY <4>1, <4>2
    <3>2. \A m \in (n + 1) + 1 .. n + 1 : FALSE
      OBVIOUS
    <3>3. \A l : l \in 1..(n + 1) <=> l \in 1..n \/ l = n + 1
      OBVIOUS
    <3>4. \A l : Pair(l)[1] = op.addr[l]
      OBVIOUS
    <3> HIDE DEF Pair
    <3> QED
      BY <3>1, <3>2, <3>3, <3>4
  <2>7. \A y : y \in Range(f[n + 1]) <=> Kept(y, n + 1) \/ Brought(y, n + 1)
    <3>1. \A y : y \in Range(f[n]) <=> Kept(y, n) \/ Brought(y, n)
      BY <1>4
    <3> HIDE DEF Kept, Brought, Pair
    <3> QED
      BY <2>4, <2>5, <2>6, <3>1
  <2> HIDE DEF Kept, Brought
  <2> QED
    BY <2>1, <2>7
<1>5. N \in S
  <2> HIDE DEF S, N
  <2>1. 0..N \subseteq S
    BY <1>2, <1>3, <1>4, SetInduction
  <2> QED
    BY <1>2, <2>1
<1>6. \A y : y \in Range(f[N]) <=> Kept(y, N) \/ Brought(y, N)
  <2> HIDE DEF Kept, Brought
  <2> QED
    BY <1>5
<1>7. PutOperation(updates, op) = f[N] /\ f[N] \in Seq(T)
  BY <1>1, <1>2
<1> QED
  BY <1>6, <1>7 DEF Latest

-----------------------------------------------------------------------------
(* A model's entry of the database, and what its resets declare.           *)

\* What loading and the assumption on addresses make of an entry.
LoadedEntry(spec) ==
    /\ {spec.low, spec.high} \subseteq Addresses
    /\ Len(spec.mem) \in Nat /\ DOMAIN spec.mem = 1..Len(spec.mem)
    /\ \A i \in 1..Len(spec.mem) :
         /\ GoodOperation(spec.mem[i])
         /\ spec.mem[i].addr \in Seq(Addresses) /\ spec.mem[i].reset \in Seq(Bytes)
    /\ \A j \in DOMAIN spec.fields : {spec.fields[j].first, spec.fields[j].last} \subseteq Nat

Update == Addresses \X Bytes

NamedBy(op, family, a) ==
    Resets(op, family) /\ \E k \in 1..Len(op.addr) : op.addr[k] = a

\* An operation that resets has a byte for each of its addresses.
LEMMA OperationPairs ==
    ASSUME NEW spec, LoadedEntry(spec), NEW i \in 1..Len(spec.mem), NEW family
    PROVE  /\ Len(spec.mem[i].addr) \in Nat
           /\ Resets(spec.mem[i], family) =>
                /\ DOMAIN spec.mem[i].reset = 1..Len(spec.mem[i].addr)
                /\ \A k \in 1..Len(spec.mem[i].addr) :
                     <<spec.mem[i].addr[k], spec.mem[i].reset[k]>> \in Update
           /\ \A a : Declares(spec.mem[i], family, a) <=> NamedBy(spec.mem[i], family, a)
<1> DEFINE op == spec.mem[i]
<1>1. op.addr \in Seq(Addresses) /\ op.reset \in Seq(Bytes) /\ GoodOperation(op)
  BY DEF LoadedEntry
<1> HIDE DEF op
<1>2. /\ Len(op.addr) \in Nat
      /\ \A k \in 1..Len(op.addr) : op.addr[k] \in Addresses
      /\ DOMAIN op.reset = 1..Len(op.reset)
      /\ \A k \in 1..Len(op.reset) : op.reset[k] \in Bytes
  BY <1>1
<1>3. op.reset # <<>> => Len(op.reset) = Len(op.addr)
  BY <1>1 DEF GoodOperation
<1>4. op.reset = <<>> => DOMAIN op.reset = {}
  OBVIOUS
<1>5. Resets(op, family) =>
        /\ DOMAIN op.reset = 1..Len(op.addr)
        /\ \A k \in 1..Len(op.addr) : <<op.addr[k], op.reset[k]>> \in Update
  BY <1>2, <1>3 DEF Resets, Update
<1>6. \A a : Declares(op, family, a) <=>
        Resets(op, family) /\ \E k \in 1..Len(op.addr) : op.addr[k] = a
  BY <1>2, <1>3, <1>4 DEF Declares, Resets
<1> QED
  BY <1>2, <1>5, <1>6 DEF op, NamedBy

\* What MergedOperation computes, operation by operation.
MergeSteps(f, spec, family) ==
    /\ f \in [0..Len(spec.mem) -> Seq(Update)]
    /\ f[0] = <<>> /\ MergedOperation(spec, family) = f[Len(spec.mem)]
    /\ \A n \in 1..Len(spec.mem) :
         f[n] = IF Resets(spec.mem[n], family) THEN PutOperation(f[n - 1], spec.mem[n]) ELSE f[n - 1]

LEMMA MergedSteps ==
    ASSUME NEW spec, LoadedEntry(spec), NEW family
    PROVE  \E f : MergeSteps(f, spec, family)
<1> DEFINE N == Len(spec.mem)
           X == Seq(Update)
           Next1(n, x) == IF Resets(spec.mem[n], family) THEN PutOperation(x, spec.mem[n]) ELSE x
           step == [n \in 1..N |-> [x \in X |-> Next1(n, x)]]
<1>0. N \in Nat /\ <<>> \in X
  BY DEF LoadedEntry
<1>1. step \in [1..N -> [X -> X]]
  <2>1. ASSUME NEW n \in 1..N, NEW x \in X PROVE Next1(n, x) \in X
    <3>1. CASE Resets(spec.mem[n], family)
      <4>1. PutOperation(x, spec.mem[n]) \in X
        <5>1. \A k \in 1..Len(spec.mem[n].addr) :
                <<spec.mem[n].addr[k], spec.mem[n].reset[k]>> \in Update
          BY <3>1, OperationPairs
        <5>2. Len(spec.mem[n].addr) \in Nat
          BY OperationPairs
        <5> QED
          BY <5>1, <5>2, PutOperationRange
      <4> QED
        BY <3>1, <4>1
    <3> QED
      BY <3>1
  <2> HIDE DEF X, Next1
  <2> QED
    BY <2>1
<1>2. PICK f : Solves(f, N, X, <<>>, step)
  <2> HIDE DEF X, step, N
  <2>1. \E f : Solves(f, N, X, <<>>, step)
    BY <1>0, <1>1, Recursion
  <2> QED
    BY <2>1
<1>3. /\ f \in [0..N -> X] /\ f[0] = <<>>
      /\ \A n \in 1..N : f[n] = Next1(n, f[n - 1])
  <2>1. f \in [0..N -> X] /\ f[0] = <<>> /\ \A n \in 1..N : f[n] = step[n][f[n - 1]]
    <3> HIDE DEF N, X, step
    <3> QED
      BY <1>2 DEF Solves
  <2>2. ASSUME NEW n \in 1..N PROVE step[n][f[n - 1]] = Next1(n, f[n - 1])
    <3>1. n - 1 \in 0..N
      BY <1>0
    <3>2. f[n - 1] \in X
      BY <2>1, <3>1
    <3> HIDE DEF X, Next1
    <3> QED
      BY <3>2
  <2> HIDE DEF X, Next1, step
  <2> QED
    BY <2>1, <2>2
<1> DEFINE IsMerged(g) == g = [n \in 0..N |-> IF n = 0 THEN <<>>
                  ELSE IF Resets(spec.mem[n], family) THEN PutOperation(g[n - 1], spec.mem[n])
                  ELSE g[n - 1]]
<1>4. IsMerged(f)
  <2>1. \A n \in 0..N : f[n] = IF n = 0 THEN <<>> ELSE Next1(n, f[n - 1])
    <3>1. \A n \in 0..N : n = 0 \/ n \in 1..N
      BY <1>0
    <3> HIDE DEF X, Next1
    <3> QED
      BY <1>3, <3>1
  <2>2. f = [n \in 0..N |-> f[n]]
    BY <1>3
  <2> QED
    BY <2>1, <2>2
<1> DEFINE merged == CHOOSE g : IsMerged(g)
<1>5. IsMerged(merged)
  <2> HIDE DEF IsMerged
  <2> QED
    BY <1>4
<1>6. MergedOperation(spec, family) = merged[N]
  BY DEF MergedOperation
<1> HIDE DEF merged
<1>7. ASSUME NEW n \in 0..N PROVE merged[n] = f[n]
  <2> DEFINE S == {m \in 0..N : merged[m] = f[m]}
  <2>1. 0 \in S
    BY <1>0, <1>3, <1>5
  <2>2. ASSUME NEW m \in 0..(N - 1), m \in S PROVE m + 1 \in S
    <3>1. m + 1 \in 1..N /\ m + 1 \in 0..N /\ (m + 1) - 1 = m /\ m + 1 # 0
      BY <1>0
    <3>2. merged[m + 1] = Next1(m + 1, merged[m])
      BY <1>5, <3>1
    <3>3. merged[m] = f[m] /\ f[m + 1] = Next1(m + 1, f[m])
      BY <1>3, <2>2, <3>1
    <3> QED
      BY <3>1, <3>2, <3>3
  <2>3. 0..N \subseteq S
    <3> HIDE DEF S, N
    <3> QED
      BY <1>0, <2>1, <2>2, SetInduction
  <2> QED
    BY <2>3
<1> QED
  BY <1>0, <1>3, <1>6, <1>7 DEF MergeSteps

\* A merged reset has, for every address that an operation of the family
\* declares, the last byte of the last one that does.
LEMMA MergedRange ==
    ASSUME NEW spec, LoadedEntry(spec), NEW family
    PROVE  /\ MergedOperation(spec, family) \in Seq(Update)
           /\ \A y : y \in Range(MergedOperation(spec, family)) <=>
                \E i \in 1..Len(spec.mem) :
                  /\ Resets(spec.mem[i], family)
                  /\ \E l \in 1..Len(spec.mem[i].addr) :
                       Latest(spec.mem[i], l) /\ y = <<spec.mem[i].addr[l], spec.mem[i].reset[l]>>
                  /\ \A j \in i + 1 .. Len(spec.mem) : ~Declares(spec.mem[j], family, y[1])
<1> DEFINE N == Len(spec.mem)
           Own(i, y) == \E l \in 1..Len(spec.mem[i].addr) :
             Latest(spec.mem[i], l) /\ y = <<spec.mem[i].addr[l], spec.mem[i].reset[l]>>
           Told(y, n) == \E i \in 1..n :
             /\ Resets(spec.mem[i], family) /\ Own(i, y)
             /\ \A j \in i + 1 .. n : ~Declares(spec.mem[j], family, y[1])
<1>1. PICK f : MergeSteps(f, spec, family)
  BY MergedSteps
<1>2. N \in Nat
  BY DEF LoadedEntry
<1>3. /\ f \in [0..N -> Seq(Update)]
      /\ f[0] = <<>> /\ MergedOperation(spec, family) = f[N]
      /\ \A n \in 1..N : f[n] = IF Resets(spec.mem[n], family)
                                  THEN PutOperation(f[n - 1], spec.mem[n]) ELSE f[n - 1]
  BY <1>1 DEF MergeSteps
<1> DEFINE S == {n \in 0..N : \A y : y \in Range(f[n]) <=> Told(y, n)}
<1>4. 0 \in S
  <2>1. Range(f[0]) = {}
    BY <1>3 DEF Range
  <2> QED
    BY <1>2, <2>1
<1>5. ASSUME NEW n \in 0..(N - 1), n \in S PROVE n + 1 \in S
  <2>1. n + 1 \in 1..N /\ n \in 0..N /\ (n + 1) - 1 = n /\ n + 1 \in 0..N /\ n \in Nat
    BY <1>2
  <2>2. \A y : y \in Range(f[n]) <=> Told(y, n)
    BY <1>5
  <2> DEFINE op == spec.mem[n + 1]
  <2>3. \A y : \A i \in 1..n :
          (\A j \in i + 1 .. n + 1 : ~Declares(spec.mem[j], family, y[1]))
            <=> (\A j \in i + 1 .. n : ~Declares(spec.mem[j], family, y[1]))
                  /\ ~Declares(op, family, y[1])
    <3>1. ASSUME NEW i \in 1..n
          PROVE  \A j : j \in i + 1 .. n + 1 <=> j \in i + 1 .. n \/ j = n + 1
      BY <2>1
    <3> QED
      BY <3>1
  <2>4. \A y : Told(y, n + 1) <=>
          \/ Resets(op, family) /\ Own(n + 1, y)
          \/ Told(y, n) /\ ~Declares(op, family, y[1])
    <3>1. \A i : i \in 1..(n + 1) <=> i \in 1..n \/ i = n + 1
      BY <2>1
    <3>2. \A j \in (n + 1) + 1 .. n + 1 : FALSE
      BY <2>1
    <3> HIDE DEF Own
    <3> QED
      BY <2>3, <3>1, <3>2
  <2>5. \A y : y \in Range(f[n + 1]) <=> Told(y, n + 1)
    <3>1. CASE Resets(op, family)
      <4>1. f[n + 1] = PutOperation(f[n], op) /\ f[n] \in Seq(Update)
        BY <1>3, <2>1, <3>1
      <4>2. /\ Len(op.addr) \in Nat
            /\ \A k \in 1..Len(op.addr) : <<op.addr[k], op.reset[k]>> \in Update
            /\ \A a : Declares(op, family, a) <=> \E k \in 1..Len(op.addr) : op.addr[k] = a
        <5> DEFINE i == n + 1
        <5>1. i \in 1..Len(spec.mem) /\ Resets(spec.mem[i], family)
          BY <2>1, <3>1
        <5> HIDE DEF i
        <5>2. /\ Len(spec.mem[i].addr) \in Nat
              /\ \A k \in 1..Len(spec.mem[i].addr) :
                   <<spec.mem[i].addr[k], spec.mem[i].reset[k]>> \in Update
          BY <5>1, OperationPairs
        <5>3. \A a : Declares(spec.mem[i], family, a)
                       <=> \E k \in 1..Len(spec.mem[i].addr) : spec.mem[i].addr[k] = a
          <6>1. \A a : Declares(spec.mem[i], family, a) <=> NamedBy(spec.mem[i], family, a)
            BY <5>1, OperationPairs
          <6> QED
            BY <5>1, <6>1 DEF NamedBy
        <5> QED
          BY <5>2, <5>3 DEF i
      <4> HIDE DEF op
      <4>3. \A y : y \in Range(f[n + 1]) <=>
              \/ y \in Range(f[n]) /\ \A k \in 1..Len(op.addr) : op.addr[k] # y[1]
              \/ \E l \in 1..Len(op.addr) : Latest(op, l) /\ y = <<op.addr[l], op.reset[l]>>
        BY <4>1, <4>2, PutOperationRange
      <4>4. \A y : Own(n + 1, y) <=>
              \E l \in 1..Len(op.addr) : Latest(op, l) /\ y = <<op.addr[l], op.reset[l]>>
        BY DEF op
      <4> HIDE DEF Own, Told
      <4> QED
        BY <2>2, <2>4, <3>1, <4>2, <4>3, <4>4
    <3>2. CASE ~Resets(op, family)
      <4>1. f[n + 1] = f[n]
        BY <1>3, <2>1, <3>2
      <4>2. \A a : ~Declares(op, family, a)
        BY <2>1, <3>2, OperationPairs DEF NamedBy
      <4> HIDE DEF Own, Told, op
      <4> QED
        BY <2>2, <2>4, <3>2, <4>1, <4>2
    <3> QED
      BY <3>1, <3>2
  <2> HIDE DEF Told
  <2> QED
    BY <2>1, <2>5
<1>6. N \in S
  <2> HIDE DEF S, N
  <2>1. 0..N \subseteq S
    BY <1>2, <1>4, <1>5, SetInduction
  <2> QED
    BY <1>2, <2>1
<1>7. \A y : y \in Range(f[N]) <=> Told(y, N)
  <2> HIDE DEF Told
  <2> QED
    BY <1>6
<1>8. MergedOperation(spec, family) = f[N] /\ f[N] \in Seq(Update)
  BY <1>2, <1>3
<1> QED
  BY <1>7, <1>8

\* Where a sequence has a thing, it has a last place of it.
LEMMA LastPlace ==
    ASSUME NEW k \in Nat, NEW S, NEW i \in 1..k, i \in S
    PROVE  \E x \in 1..k : x \in S /\ \A j \in x + 1 .. k : j \notin S
<1> DEFINE T == {n \in 1..k : n \in S}
<1>1. T \subseteq 0..k /\ T # {}
  <2>1. i \in T
    OBVIOUS
  <2> QED
    BY <2>1
<1>2. PICK x \in T : \A y \in T : y <= x
  <2> HIDE DEF T
  <2> QED
    BY <1>1, GreatestNumber
<1>3. x \in 1..k /\ x \in S
  BY <1>2
<1>4. ASSUME NEW j \in x + 1 .. k, j \in S PROVE FALSE
  <2>1. j \in 1..k
    BY <1>3
  <2>2. j \in T
    BY <1>4, <2>1
  <2>3. j <= x
    BY <1>2, <2>2
  <2> QED
    BY <1>3, <2>3
<1> QED
  BY <1>3, <1>4

\* A reset writes what the entry declares for its family, and no other byte.
LEMMA ResetIsDeclared ==
    ASSUME NEW spec, LoadedEntry(spec), NEW family, ResetUpdates(spec, family) # Error
    PROVE  /\ ResetUpdates(spec, family) \in Seq(Update)
           /\ Range(ResetUpdates(spec, family)) = DeclaredReset(spec, family)
<1> DEFINE merged == MergedOperation(spec, family)
           N == Len(spec.mem)
           Addr(i) == spec.mem[i].addr
           Byte(i) == spec.mem[i].reset
           Names1(i, a) == Declares(spec.mem[i], family, a)
           IsLast(i, a) == Names1(i, a) /\ \A j \in i + 1 .. N : ~Names1(j, a)
           IsIndex(i, k, a) == Addr(i)[k] = a /\ \A l \in k + 1 .. Len(Addr(i)) : Addr(i)[l] # a
           last(a) == CHOOSE i \in DOMAIN spec.mem : IsLast(i, a)
           index(a) == CHOOSE k \in DOMAIN Addr(last(a)) : IsIndex(last(a), k, a)
           named == {a \in spec.low .. spec.high : \E i \in DOMAIN spec.mem : Names1(i, a)}
<1>1. ResetUpdates(spec, family) = merged /\ GoodUpdates(spec, merged)
  BY DEF ResetUpdates
<1>2. /\ merged \in Seq(Update)
      /\ N \in Nat /\ DOMAIN spec.mem = 1..N
      /\ \A i \in 1..N : Len(Addr(i)) \in Nat /\ DOMAIN Addr(i) = 1..Len(Addr(i))
  <2>1. merged \in Seq(Update)
    BY MergedRange
  <2> QED
    BY <2>1 DEF LoadedEntry
<1>3. \A i \in 1..N : \A a : Names1(i, a) <=> NamedBy(spec.mem[i], family, a)
  BY OperationPairs
<1>4. DeclaredReset(spec, family) = {<<a, Byte(last(a))[index(a)]>> : a \in named}
  BY DEF DeclaredReset
<1>5. ASSUME NEW a, NEW i \in 1..N, IsLast(i, a)
      PROVE  last(a) = i
  <2>1. \A j \in 1..N : IsLast(j, a) => j = i
    <3> SUFFICES ASSUME NEW j \in 1..N, IsLast(j, a), j # i PROVE FALSE
      OBVIOUS
    <3>1. j \in i + 1 .. N \/ i \in j + 1 .. N
      BY <1>2
    <3> QED
      BY <1>5, <3>1
  <2> HIDE DEF IsLast, N
  <2> QED
    BY <1>2, <1>5, <2>1
<1>6. ASSUME NEW a, NEW i \in 1..N, last(a) = i, NEW k \in 1..Len(Addr(i)), IsIndex(i, k, a)
      PROVE  index(a) = k
  <2>1. \A l \in 1..Len(Addr(i)) : IsIndex(i, l, a) => l = k
    <3> SUFFICES ASSUME NEW l \in 1..Len(Addr(i)), IsIndex(i, l, a), l # k PROVE FALSE
      OBVIOUS
    <3>1. l \in k + 1 .. Len(Addr(i)) \/ k \in l + 1 .. Len(Addr(i))
      BY <1>2
    <3> QED
      BY <1>6, <3>1
  <2>2. DOMAIN Addr(last(a)) = 1..Len(Addr(i))
    BY <1>2, <1>6
  <2> HIDE DEF IsIndex, last, Addr
  <2> QED
    BY <1>6, <2>1, <2>2
<1> DEFINE Own(i, l) == <<Addr(i)[l], Byte(i)[l]>>
           From(i, l, y) == /\ Resets(spec.mem[i], family)
                            /\ Latest(spec.mem[i], l) /\ y = Own(i, l)
                            /\ \A j \in i + 1 .. N : ~Names1(j, y[1])
<1>7. \A y : y \in Range(merged) <=> \E i \in 1..N : \E l \in 1..Len(Addr(i)) : From(i, l, y)
  BY MergedRange
<1>8. ASSUME NEW i \in 1..N, NEW l \in 1..Len(Addr(i)), NEW y, From(i, l, y)
      PROVE  /\ y[1] = Addr(i)[l] /\ IsLast(i, y[1]) /\ IsIndex(i, l, y[1])
             /\ y = <<y[1], Byte(last(y[1]))[index(y[1])]>>
  <2>1. y[1] = Addr(i)[l] /\ y = <<y[1], Byte(i)[l]>>
    BY <1>8
  <2>2. Names1(i, y[1])
    BY <1>3, <1>8, <2>1 DEF NamedBy
  <2>3. IsLast(i, y[1]) /\ IsIndex(i, l, y[1])
    BY <1>8, <2>1, <2>2 DEF Latest
  <2>4. last(y[1]) = i
    <3> HIDE DEF IsLast, last
    <3> QED
      BY <1>5, <2>3
  <2>5. index(y[1]) = l
    <3> HIDE DEF IsIndex, index, last
    <3> QED
      BY <1>6, <2>3, <2>4
  <2> QED
    BY <2>1, <2>3, <2>4, <2>5
<1>9. ASSUME NEW y \in Range(merged) PROVE y[1] \in spec.low .. spec.high
  <2>1. PICK p \in DOMAIN merged : y = merged[p]
    BY DEF Range
  <2>2. InRange(spec, merged[p][1])
    BY <1>1, <2>1 DEF GoodUpdates, GoodAddresses
  <2>3. merged[p] \in Update
    BY <1>2, <2>1
  <2>4. y[1] \in Nat /\ spec.low \in Nat /\ spec.high \in Nat
    BY <2>1, <2>3, BoundAssumption DEF Update, Addresses, LoadedEntry
  <2> QED
    BY <2>1, <2>2, <2>4 DEF InRange
<1>10. ASSUME NEW y \in Range(merged) PROVE y \in DeclaredReset(spec, family)
  <2>1. PICK i \in 1..N : \E l \in 1..Len(Addr(i)) : From(i, l, y)
    <3> HIDE DEF From, merged
    <3> QED
      BY <1>7
  <2> PICK l \in 1..Len(Addr(i)) : From(i, l, y)
    <3> HIDE DEF From
    <3> QED
      BY <2>1
  <2>2. y = <<y[1], Byte(last(y[1]))[index(y[1])]>> /\ Names1(i, y[1])
    <3>1. IsLast(i, y[1]) /\ y = <<y[1], Byte(last(y[1]))[index(y[1])]>>
      <4> HIDE DEF From, IsLast, last, index, Byte, Addr
      <4> QED
        BY <1>8, <2>1
    <3> QED
      BY <3>1
  <2>3. y[1] \in named
    <3> HIDE DEF merged
    <3> QED
      BY <1>2, <1>9, <2>2
  <2> HIDE DEF named, last, index, Byte
  <2> QED
    BY <1>4, <2>2, <2>3
<1>11. ASSUME NEW a \in named PROVE <<a, Byte(last(a))[index(a)]>> \in Range(merged)
  <2>1. PICK x \in 1..N : IsLast(x, a)
    <3>1. PICK i \in 1..N : Names1(i, a)
      BY <1>2
    <3> DEFINE S == {j \in 1..N : Names1(j, a)}
    <3>2. \E x \in 1..N : x \in S /\ \A j \in x + 1 .. N : j \notin S
      <4>1. i \in S
        BY <3>1
      <4> HIDE DEF S, N
      <4> QED
        BY <1>2, <4>1, LastPlace
    <3> QED
      BY <3>2
  <2>2. last(a) = x
    <3> HIDE DEF IsLast, last
    <3> QED
      BY <1>5, <2>1
  <2>3. Resets(spec.mem[x], family) /\ \E k \in 1..Len(Addr(x)) : Addr(x)[k] = a
    BY <1>3, <2>1 DEF NamedBy
  <2>4. PICK k \in 1..Len(Addr(x)) : IsIndex(x, k, a)
    <3> DEFINE S == {k \in 1..Len(Addr(x)) : Addr(x)[k] = a}
               M == Len(Addr(x))
    <3>1. \E k \in 1..M : k \in S /\ \A l \in k + 1 .. M : l \notin S
      <4>1. PICK k \in 1..M : k \in S
        BY <2>3
      <4>2. M \in Nat
        BY <1>2
      <4> HIDE DEF S, M
      <4> QED
        BY <4>1, <4>2, LastPlace
    <3> PICK k \in 1..M : k \in S /\ \A l \in k + 1 .. M : l \notin S
      BY <3>1
    <3>2. Addr(x)[k] = a /\ \A l \in k + 1 .. M : l \in 1..M
      OBVIOUS
    <3>3. IsIndex(x, k, a)
      BY <3>2
    <3> QED
      BY <3>3
  <2>5. index(a) = k
    <3> HIDE DEF IsIndex, index, last
    <3> QED
      BY <1>6, <2>2, <2>4
  <2> DEFINE y == Own(x, k)
  <2>6. y = <<a, Byte(last(a))[index(a)]>> /\ y[1] = a
    <3>1. Addr(x)[k] = a
      BY <2>4
    <3> HIDE DEF last, index, Byte, Addr
    <3> QED
      BY <2>2, <2>5, <3>1
  <2>7. From(x, k, y)
    BY <2>1, <2>3, <2>4, <2>6 DEF Latest
  <2>8. y \in Range(merged)
    <3> HIDE DEF From, merged, y
    <3> QED
      BY <1>7, <2>7
  <2> HIDE DEF y
  <2> QED
    BY <2>6, <2>8
<1>12. Range(merged) = {<<a, Byte(last(a))[index(a)]>> : a \in named}
  <2> HIDE DEF merged, Byte, last, index, named
  <2> QED
    BY <1>4, <1>10, <1>11
<1> QED
  BY <1>1, <1>2, <1>4, <1>12

\* A model's entry is one of the groups, which loaded.
LEMMA EntryOfModel ==
    ASSUME NEW groups \in Databases, NEW m, SelectedModel(groups, m) # Error
    PROVE  LoadedEntry(SelectedModel(groups, m))
<1> DEFINE models == FromToml(groups)
           all == UNION {groups[i].names : i \in DOMAIN groups}
<1>1. models # Error /\ m \in DOMAIN models /\ SelectedModel(groups, m) = models[m]
  BY DEF SelectedModel
<1>2. /\ \A i \in DOMAIN groups : GoodGroup(groups[i])
      /\ models = [n \in all |-> groups[GroupOf(groups, n)]]
  BY <1>1 DEF FromToml
<1>3. m \in all /\ models[m] = groups[GroupOf(groups, m)]
  BY <1>1, <1>2
<1>4. Len(groups) \in Nat /\ DOMAIN groups = 1..Len(groups)
  BY AddressAssumption
<1>5. GroupOf(groups, m) \in DOMAIN groups
  <2> DEFINE k == Len(groups)
             S == {i \in 1..k : m \in groups[i].names}
  <2>1. PICK i \in 1..k : i \in S
    BY <1>3, <1>4
  <2>2. \E x \in 1..k : x \in S /\ \A j \in x + 1 .. k : j \notin S
    <3> HIDE DEF S, k
    <3>1. k \in Nat
      BY <1>4 DEF k
    <3> QED
      BY <2>1, <3>1, LastPlace
  <2>3. \E x \in DOMAIN groups :
          m \in groups[x].names /\ \A j \in x + 1 .. Len(groups) : m \notin groups[j].names
    <3>1. PICK x \in 1..k : x \in S /\ \A j \in x + 1 .. k : j \notin S
      BY <2>2
    <3>2. \A j \in x + 1 .. k : j \in 1..k
      OBVIOUS
    <3> QED
      BY <1>4, <3>1, <3>2
  <2> QED
    BY <2>3 DEF GroupOf
<1> DEFINE spec == groups[GroupOf(groups, m)]
<1>6. GoodGroup(spec)
  BY <1>2, <1>5
<1>7. /\ {spec.low, spec.high} \subseteq Addresses /\ spec.mem \in Seq(Range(spec.mem))
      /\ \A k \in DOMAIN spec.mem :
           spec.mem[k].addr \in Seq(Addresses) /\ spec.mem[k].reset \in Seq(Bytes)
      /\ \A k \in DOMAIN spec.fields : {spec.fields[k].first, spec.fields[k].last} \subseteq Nat
  BY <1>5, AddressAssumption
<1> HIDE DEF spec
<1>8. LoadedEntry(spec)
  BY <1>6, <1>7 DEF LoadedEntry, GoodGroup
<1> QED
  BY <1>1, <1>3, <1>8 DEF spec

-----------------------------------------------------------------------------
(* What a command may read and write.                                      *)

\* What a command was given is what it can be given.
Offered ==
    /\ c.database \in Databases
    /\ [program |-> c.program, backend |-> c.backend, request |-> c.request] \in CommandSet
    /\ c.request = "write" => c.updates \in Seq(Update)
    /\ c.request = "restore" => c.image \in Seq(Bytes)
    /\ c.request \in {"read", "boundary"} \/ Ranged(c) =>
         c.addresses \in Seq(Addresses) /\ c.addresses # <<>>
    /\ c.request = "boundary" => Len(c.addresses) = 1

\* Once a command goes on, its arguments have been accepted.
Checked ==
    run.phase \notin {"arguments", "exit", "killed"} =>
      /\ Phrases(c) \subseteq c.given
      /\ Modelless \/ (Spec0 # Error /\ GoodRequest)

\* A mutation goes on from its identity when the printer is the model, and its
\* backup is the memory but for what the printer changes of its own.
Backed ==
    /\ run.phase \in {"act", "backup", "apply"} /\ Mutates => DetectedModel(c.identity) = c.model
    /\ run.phase \in {"backup", "apply"} =>
         Mutates /\ \A a \in Addresses \ drifts : run.backup[a] = memory[a]
    /\ run.phase = "apply" => files["output"] = "written"

AInv == Offered /\ Checked /\ Backed /\ ReadsAuthorised /\ TypeOK

\* The kinds of command as far as their requests go.
LEMMA RequestKinds ==
    ASSUME Offered
    PROVE  /\ Mutates => /\ ~Modelless /\ ~Captures /\ c.backend # "snmp" /\ ~Saves
                         /\ c.program = "evidence" => Evidence
           /\ c.request \in {"read", "dump", "boundary"} => ~Modelless
BY DEF Offered, CommandSet, Mutates, Mutations, Modelless, Sessionless, Captures, Saves, Evidence

\* What the reading requests read.
ReadsOf(addresses) ==
    \/ addresses = <<>>
    \/ c.request = "read" /\ addresses = c.addresses
    \/ c.request = "boundary" /\ addresses = c.addresses
    \/ c.request = "dump" /\ ~Ranged(c) /\ addresses = DumpAddresses(Spec0)
    \/ Ranged(c) /\ addresses = [i \in 1 .. Final - First + 1 |-> First + i - 1]

LEMMA ReadsKind ==
    ASSUME Read
    PROVE  \E addresses : Reads(addresses) /\ ReadsOf(addresses)
<1>1. CASE UsbStatus \/ NativeStatus \/ SnmpStatus \/ NativeEvidenceStatus
  BY <1>1 DEF UsbStatus, NativeStatus, SnmpStatus, NativeEvidenceStatus, ReadsOf
<1>2. CASE \/ NativeRead \/ SnmpRead \/ EvidenceRead \/ NativeEvidenceRead
           \/ BoundaryProbe \/ NativeBoundaryProbe
  BY <1>2 DEF NativeRead, SnmpRead, EvidenceRead, NativeEvidenceRead, BoundaryProbe,
              NativeBoundaryProbe, Is, ReadsOf
<1>3. CASE UsbDump \/ NativeDump \/ SnmpDump \/ NativeEvidenceDump
  <2>1. Reads(DumpAddresses(Spec0)) /\ c.request = "dump" /\ ~Ranged(c)
    BY <1>3 DEF UsbDump, NativeDump, SnmpDump, NativeEvidenceDump, Is, Ranged
  <2> QED
    BY <2>1 DEF ReadsOf
<1>4. CASE EvidenceDump
  <2> DEFINE addresses == [i \in 1 .. Final - First + 1 |-> First + i - 1]
  <2>1. Reads(addresses) /\ Ranged(c)
    BY <1>4 DEF EvidenceDump, Is, Ranged
  <2>2. ReadsOf(addresses)
    BY <2>1 DEF ReadsOf
  <2> QED
    BY <2>1, <2>2
<1> QED
  BY <1>1, <1>2, <1>3, <1>4 DEF Read

\* What is read is the printer's, and what a read may see.
ReadAllowed(read) ==
    read # {} =>
      /\ \/ read \subseteq Range0
         \/ "confirmation" \in c.given /\ Cardinality(read) = 1
      /\ c.backend = "native" /\ c.request = "read" =>
           \A j \in DOMAIN Spec0.fields :
             Spec0.fields[j].sensitive =>
               read \cap (Spec0.fields[j].first .. Spec0.fields[j].last) = {}

LEMMA ReadsAreAllowed ==
    ASSUME Offered, Checked, run.phase = "act", NEW addresses, ReadsOf(addresses)
    PROVE  Range(addresses) \subseteq Addresses /\ ReadAllowed(Range(addresses))
<1> DEFINE read == Range(addresses)
<1>1. CASE addresses = <<>>
  <2>1. read = {}
    BY <1>1 DEF Range
  <2> QED
    BY <2>1 DEF ReadAllowed
<1> SUFFICES ASSUME addresses # <<>> PROVE read \subseteq Addresses /\ ReadAllowed(read)
  BY <1>1
<1>2. c.request \in {"read", "dump", "boundary"}
  BY DEF ReadsOf, Ranged
<1>3. Spec0 # Error /\ GoodRequest /\ Phrases(c) \subseteq c.given
  BY <1>2, RequestKinds DEF Checked
<1>4. LoadedEntry(Spec0)
  BY <1>3, EntryOfModel DEF Spec0, Offered
<1>5. Spec0.low \in Addresses /\ Spec0.high \in Addresses
  BY <1>4 DEF LoadedEntry
<1>6. CASE c.request = "read" /\ addresses = c.addresses
  <2>1. addresses \in Seq(Addresses)
    BY <1>6 DEF Offered
  <2>2. read \subseteq Addresses
    BY <2>1 DEF Range
  <2>3. GoodRead
    <3>1. ~Ranged(c) /\ ~Mutates /\ c.request # "boundary"
      BY <1>6 DEF Ranged, Mutates, Mutations
    <3> QED
      BY <1>3, <1>6, <3>1 DEF GoodRequest
  <2>4. read \subseteq Range0
    BY <1>6, <2>2, <2>3 DEF GoodRead, GoodAddresses, EvidenceAddresses, Range, Range0
  <2>5. ASSUME c.backend = "native", NEW j \in DOMAIN Spec0.fields, Spec0.fields[j].sensitive
        PROVE  read \cap (Spec0.fields[j].first .. Spec0.fields[j].last) = {}
    <3>1. \A i \in DOMAIN addresses :
            ~(Spec0.fields[j].first <= addresses[i] /\ addresses[i] <= Spec0.fields[j].last)
      BY <1>6, <2>3, <2>5 DEF GoodRead, Displayable
    <3>2. Spec0.fields[j].first \in Nat /\ Spec0.fields[j].last \in Nat
      BY <1>4 DEF LoadedEntry
    <3> QED
      BY <3>1, <3>2 DEF Range
  <2> QED
    BY <2>2, <2>4, <2>5 DEF ReadAllowed
<1>7. CASE c.request = "boundary" /\ addresses = c.addresses
  <2>1. addresses \in Seq(Addresses) /\ Len(addresses) = 1
    BY <1>7 DEF Offered
  <2>2. read = {addresses[1]} /\ addresses[1] \in Addresses
    BY <2>1 DEF Range
  <2>3. Cardinality(read) = 1
    BY <2>2, FS_Singleton
  <2>4. "confirmation" \in c.given
    BY <1>3, <1>7 DEF Phrases
  <2> QED
    BY <1>7, <2>2, <2>3, <2>4 DEF ReadAllowed
<1>8. CASE c.request = "dump" /\ ~Ranged(c) /\ addresses = DumpAddresses(Spec0)
  <2>1. read \subseteq Spec0.low .. Spec0.high
    BY <1>5, <1>8, BoundAssumption DEF DumpAddresses, Range, Addresses
  <2>2. read \subseteq Range0 /\ Range0 \subseteq Addresses
    BY <1>5, <2>1, BoundAssumption DEF Range0, InRange, Addresses
  <2> QED
    BY <1>8, <2>2 DEF ReadAllowed
<1>9. CASE Ranged(c) /\ addresses = [i \in 1 .. Final - First + 1 |-> First + i - 1]
  <2>1. GoodDump /\ c.request = "dump"
    <3>1. c.request = "dump" /\ ~Mutates
      BY <1>9 DEF Ranged, Mutates, Mutations
    <3> QED
      BY <1>3, <1>9, <3>1 DEF GoodRequest
  <2>2. c.addresses \in Seq(Addresses) /\ c.addresses # <<>>
    BY <1>9 DEF Offered
  <2>3. First \in Addresses /\ Final \in Addresses
    BY <2>2 DEF First, Final, Last
  <2>4. \A i \in 1 .. Final - First + 1 : First + i - 1 \in Spec0.low .. Spec0.high
    BY <1>5, <2>1, <2>3, BoundAssumption DEF GoodDump, Addresses
  <2>5. read \subseteq Spec0.low .. Spec0.high
    BY <1>9, <2>4 DEF Range
  <2>6. read \subseteq Range0 /\ Range0 \subseteq Addresses
    BY <1>5, <2>5, BoundAssumption DEF Range0, InRange, Addresses
  <2> QED
    BY <2>1, <2>6 DEF ReadAllowed
<1> QED
  BY <1>6, <1>7, <1>8, <1>9 DEF ReadsOf

\* The updates of an accepted mutation are of the model's range, and those of a
\* reset are the declared ones.
LEMMA UpdatesAreAllowed ==
    ASSUME Offered, Mutates, Spec0 # Error, GoodRequest
    PROVE  /\ AddressesOf(Updates) \subseteq Range0
           /\ c.request = "reset" => Range(Updates) = DeclaredReset(Spec0, "waste")
<1>1. Updates # Error /\ GoodUpdates(Spec0, Updates)
  <2>1. c.request \notin {"read", "boundary"} /\ ~Ranged(c)
    BY DEF Mutates, Mutations, Ranged
  <2> QED
    BY <2>1 DEF GoodRequest
<1>2. LoadedEntry(Spec0)
  BY EntryOfModel DEF Spec0, Offered
<1>3. Updates \in Seq(Update)
  <2>1. CASE c.request = "restore"
    <3>1. Updates = RestoreUpdates(Spec0, c.image)
      BY <2>1 DEF Updates
    <3>2. c.image \in Seq(Bytes) /\ Len(c.image) = Spec0.high - Spec0.low + 1
      BY <1>1, <2>1, <3>1 DEF RestoreUpdates, Offered
    <3>3. Updates = [i \in 1..Len(c.image) |-> <<Spec0.low + i - 1, c.image[i]>>]
      BY <3>1, <3>2 DEF RestoreUpdates
    <3>4. ASSUME NEW i \in 1..Len(c.image)
          PROVE  <<Spec0.low + i - 1, c.image[i]>> \in Update
      <4>1. c.image[i] \in Bytes
        BY <3>2
      <4>2. Spec0.low + i - 1 \in Addresses
        BY <1>2, <3>2, BoundAssumption DEF LoadedEntry, Addresses
      <4> QED
        BY <4>1, <4>2 DEF Update
    <3>5. Len(c.image) \in Nat
      BY <3>2
    <3> QED
      BY <3>3, <3>4, <3>5
  <2>2. CASE c.request = "reset"
    <3>1. Updates = ResetUpdates(Spec0, "waste")
      BY <2>2 DEF Updates
    <3> QED
      BY <1>1, <1>2, <3>1, ResetIsDeclared
  <2>3. CASE c.request = "write"
    BY <2>3 DEF Updates, Offered
  <2> QED
    BY <2>1, <2>2, <2>3 DEF Mutates, Mutations
<1>4. AddressesOf(Updates) \subseteq Range0
  <2>1. \A i \in DOMAIN Updates : InRange(Spec0, Updates[i][1]) /\ Updates[i][1] \in Addresses
    BY <1>1, <1>3 DEF GoodUpdates, GoodAddresses, Update
  <2> QED
    BY <2>1 DEF AddressesOf, Range0
<1>5. c.request = "reset" => Range(Updates) = DeclaredReset(Spec0, "waste")
  <2> SUFFICES ASSUME c.request = "reset" PROVE Range(Updates) = DeclaredReset(Spec0, "waste")
    OBVIOUS
  <2>1. Updates = ResetUpdates(Spec0, "waste")
    BY DEF Updates
  <2> QED
    BY <1>1, <1>2, <2>1, ResetIsDeclared
<1> QED
  BY <1>4, <1>5

LEMMA AInvWrites == AInv => WritesAuthorised
<1> SUFFICES ASSUME AInv, run.phase = "apply" PROVE WritesAuthorised
  BY DEF WritesAuthorised
<1>1. Mutates /\ DetectedModel(c.identity) = c.model /\ files["output"] = "written"
      /\ \A a \in Addresses \ drifts : run.backup[a] = memory[a]
  BY DEF AInv, Backed
<1>2. Phrases(c) \subseteq c.given /\ Spec0 # Error /\ GoodRequest
  BY <1>1, RequestKinds DEF AInv, Checked
<1>3. /\ AddressesOf(Updates) \subseteq Range0
      /\ c.request = "reset" => Range(Updates) = DeclaredReset(Spec0, "waste")
  BY <1>1, <1>2, UpdatesAreAllowed DEF AInv
<1>4. Range0 \subseteq Addresses
  BY DEF Range0
<1> QED
  BY <1>1, <1>2, <1>3, <1>4 DEF WritesAuthorised

-----------------------------------------------------------------------------
(* Every step keeps it.                                                    *)

\* What was given stays, and with it all that follows from it.
LEMMA GivenStays ==
    ASSUME UNCHANGED c
    PROVE  /\ Offered => Offered'
           /\ Spec0' = Spec0 /\ Range0' = Range0 /\ Updates' = Updates
           /\ Mutates' = Mutates /\ Modelless' = Modelless /\ GoodRequest' = GoodRequest
<1>1. Spec0' = Spec0
  BY DEF Spec0
<1>2. Range0' = Range0 /\ Updates' = Updates
  BY <1>1 DEF Range0, Updates
<1>3. Mutates' = Mutates /\ Modelless' = Modelless
  BY DEF Mutates, Modelless, Sessionless
<1>4. GoodRequest' = GoodRequest
  BY <1>1, <1>2, <1>3 DEF GoodRequest, GoodRead, GoodBoundary, GoodDump, First, Final
<1>5. Offered => Offered'
  BY DEF Offered
<1> QED
  BY <1>1, <1>2, <1>3, <1>4, <1>5

\* The types of the command's progress.
RunTyped ==
    /\ run.phase \in Phases /\ run.done \subseteq Stages /\ run.tried \subseteq Stages
    /\ run.failed \subseteq Steps /\ run.reported \subseteq run.failed
    /\ run.told \subseteq run.failed \cup {"evidence"}
    /\ run.original \in Bytes /\ run.read \subseteq Addresses
    /\ run.backup \in {<<>>} \cup [Addresses -> Bytes]
    /\ run.level \in {"none", "Community", "NoAuthNoPriv", "AuthNoPriv", "AuthPriv"}

\* A command goes on, or one of its steps fails.
LEMMA GoesTyped ==
    ASSUME RunRecord, RunTyped, NEW next \in Phases, NEW step \in Steps,
           Goes(next) \/ Fails(step, next) \/ (Ends(step) /\ next = "exit" /\ run.reported = {})
    PROVE  RunTyped' /\ run'.phase = next /\ run'.read = run.read /\ run'.backup = run.backup
<1>1. CASE Goes(next)
  BY <1>1 DEF Goes, RunRecord, RunTyped
<1>2. CASE Fails(step, next)
  BY <1>2 DEF Fails, RunRecord, RunTyped
<1>3. CASE Ends(step) /\ next = "exit" /\ run.reported = {}
  BY <1>3 DEF Ends, RunRecord, RunTyped
<1> QED
  BY <1>1, <1>2, <1>3

Contents == {"absent", "foreign", "partial", "written"}

\* What is left to show of a step that leaves what it was given.
LEMMA Carries ==
    ASSUME AInv, IInv', UNCHANGED c, RunTyped', Backed',
           conversing' \in BOOLEAN, drifts' \subseteq Addresses, files' \in [Files -> Contents],
           \/ run.phase \notin {"arguments", "exit", "killed"}
           \/ run'.phase \in {"arguments", "exit", "killed"},
           run'.read = run.read \/ ReadAllowed(run'.read)
    PROVE  AInv'
<1>1. /\ Offered' /\ Spec0' = Spec0 /\ Range0' = Range0
      /\ Modelless' = Modelless /\ GoodRequest' = GoodRequest
  BY GivenStays DEF AInv
<1>2. Checked'
  BY <1>1 DEF AInv, Checked
<1>3. ReadsAuthorised'
  <2>1. ReadAllowed(run'.read)
    BY DEF AInv, ReadsAuthorised, ReadAllowed
  <2> QED
    BY <1>1, <2>1 DEF ReadAllowed, ReadsAuthorised
<1>4. TypeOK'
  BY DEF TypeOK, RunTyped, Contents, IInv, Stored
<1> QED
  BY <1>1, <1>2, <1>3, <1>4 DEF AInv

\* A step to a phase in which nothing is read or written in the printer any more.
LEMMA CarriesOn ==
    ASSUME AInv, IInv', UNCHANGED c, RunTyped',
           conversing' \in BOOLEAN, drifts' \subseteq Addresses, files' \in [Files -> Contents],
           run.phase \notin {"arguments", "exit", "killed"} \/ run'.phase \in {"exit", "killed"},
           run'.phase \notin {"act", "backup", "apply"},
           run'.read = run.read \/ ReadAllowed(run'.read)
    PROVE  AInv'
<1>1. Backed'
  BY DEF Backed
<1> QED
  BY <1>1, Carries

\* What a created file leaves at its path.
LEMMA CreatesTyped ==
    ASSUME files \in [Files -> Contents], NEW path \in Files, NEW new \in Create(path),
           files' = [files EXCEPT ![path] = new[1]]
    PROVE  /\ files' \in [Files -> Contents]
           /\ new[2] => files'[path] = "written"
<1>1. new[1] \in Contents /\ (new[2] => new[1] = "written")
  <2>1. files[path] \in Contents
    OBVIOUS
  <2>2. \/ new = <<files[path], FALSE>> \/ new = <<"written", TRUE>>
        \/ new = <<"written", FALSE>> \/ new = <<"partial", FALSE>> \/ new = <<"absent", FALSE>>
    BY Zenon DEF Create
  <2>3. ASSUME NEW x \in Contents, new = <<x, FALSE>> PROVE new[1] \in Contents /\ ~new[2]
    BY <2>3
  <2>4. "written" \in Contents /\ "partial" \in Contents /\ "absent" \in Contents
    BY DEF Contents
  <2>5. ASSUME new = <<"written", TRUE>> PROVE new[1] = "written"
    BY <2>5
  <2> QED
    BY <2>1, <2>2, <2>3, <2>4, <2>5
<1> QED
  BY <1>1

\* The protection of a session is a level.
LEMMA LevelTyped ==
    Configured(c.env) # "error" =>
      Configured(c.env) \in {"none", "Community", "NoAuthNoPriv", "AuthNoPriv", "AuthPriv"}
BY DEF Configured, Level

\* An operation that fails goes to its cleanup or ends the command.
LEMMA ErrsTyped ==
    ASSUME RunRecord, RunTyped, Errs, run.reported = {}
    PROVE  RunTyped' /\ run'.phase \in {"shutdown", "exit"} /\ run'.read = run.read
<1>1. "operation" \in Steps /\ "shutdown" \in Phases /\ "exit" \in Phases
  BY DEF Steps, Phases
<1> QED
  BY <1>1, GoesTyped DEF Errs

\* Arguments, the transport and the session's setup.
LEMMA SetupAuthorised ==
    ASSUME AInv, IInv, IInv', CheckArguments \/ Open \/ Connect
    PROVE  AInv'
<1> RunTyped /\ RunRecord /\ conversing \in BOOLEAN /\ drifts \subseteq Addresses
    /\ files \in [Files -> Contents]
  BY DEF AInv, IInv, TypeOK, RunTyped, Contents
<1>1. run.reported = {} /\ run.failed = {} /\ run.told = {}
  BY DEF CheckArguments, Open, OpenUsb, OpenNative, OpenSnmp, Opens, Connect, IInv, Telling,
         Silent, Early
<1>2. UNCHANGED <<c, drifts, files, memory>>
  BY DEF CheckArguments, Open, OpenUsb, OpenNative, OpenSnmp, Opens, Connect
<1>3. /\ {"act", "open", "exit", "close", "identity", "connect", "report"} \subseteq Phases
      /\ {"arguments", "setup", "open"} \subseteq Steps
  BY DEF Phases, Steps
<1>4. CASE CheckArguments
  <2>1. conversing' = conversing
    BY <1>4 DEF CheckArguments
  <2>2. CASE Ends("arguments")
    <3>1. RunTyped' /\ run'.phase = "exit" /\ run'.read = run.read
      BY <1>1, <1>3, <2>2, GoesTyped
    <3> QED
      BY <1>2, <2>1, <3>1, CarriesOn
  <2>3. CASE Accepted /\ Goes(IF Sessionless THEN "act" ELSE "open")
    <3>1. PICK next \in {"act", "open"} : Goes(next) /\ (next = "act" => Sessionless)
      BY <2>3
    <3>2. RunTyped' /\ run'.phase = next /\ run'.read = run.read
      <4>1. next \in Phases
        BY <1>3
      <4> QED
        BY <1>3, <3>1, <4>1, GoesTyped
    <3>3. /\ Offered' /\ Spec0' = Spec0 /\ Range0' = Range0 /\ Mutates' = Mutates
          /\ Modelless' = Modelless /\ GoodRequest' = GoodRequest
      BY <1>2, GivenStays DEF AInv
    <3>4. Checked'
      BY <1>2, <2>3, <3>3 DEF Checked, Accepted
    <3>5. Backed'
      <4>1. next = "act" => ~Mutates
        BY <3>1, RequestKinds DEF Modelless, AInv
      <4> QED
        BY <3>2, <3>3, <4>1 DEF Backed
    <3>6. ReadsAuthorised'
      BY <1>2, <3>2, <3>3 DEF AInv, ReadsAuthorised
    <3>7. TypeOK'
      BY <1>2, <2>1, <3>2 DEF TypeOK, RunTyped, Contents, IInv, Stored
    <3> QED
      BY <3>3, <3>4, <3>5, <3>6, <3>7 DEF AInv
  <2> QED
    BY <1>4, <2>2, <2>3 DEF CheckArguments
<1>5. CASE Open
  <2>1. conversing' = conversing /\ run.phase = "open"
    BY <1>5 DEF Open, OpenUsb, OpenNative, OpenSnmp, Opens
  <2>2. RunTyped' /\ run'.phase \in {"exit", "report", "connect", "identity"}
        /\ run'.read = run.read
    <3>1. CASE Ends("open")
      BY <1>1, <1>3, <3>1, GoesTyped
    <3>2. CASE \E phase \in {"report", "exit"} :
                 run' = [run EXCEPT !.phase = phase, !.failed = {"open"}, !.told = {"open"}]
      BY <1>1, <1>3, <3>2 DEF RunRecord, RunTyped
    <3>3. CASE run' = [run EXCEPT !.phase = "connect"]
      BY <1>3, <3>3 DEF RunRecord, RunTyped
    <3>4. CASE /\ Configured(c.env) # "error"
               /\ run' = [run EXCEPT !.phase = "identity", !.level = Configured(c.env)]
      <4> DEFINE level == Configured(c.env)
      <4>1. /\ level \in {"none", "Community", "NoAuthNoPriv", "AuthNoPriv", "AuthPriv"}
            /\ run' = [run EXCEPT !.phase = "identity", !.level = level]
        BY <3>4, LevelTyped
      <4> HIDE DEF level
      <4> QED
        BY <1>3, <4>1 DEF RunRecord, RunTyped
    <3> QED
      BY <1>5, <3>1, <3>2, <3>3, <3>4 DEF Open, OpenUsb, OpenNative, OpenSnmp, Opens
  <2> QED
    BY <1>2, <2>1, <2>2, CarriesOn
<1>6. CASE Connect
  <2>1. run.phase = "connect" /\ conversing' \in BOOLEAN
    BY <1>6 DEF Connect
  <2>2. CASE Fails("setup", "close")
    <3>1. RunTyped' /\ run'.phase = "close" /\ run'.read = run.read
      BY <1>3, <2>2, GoesTyped
    <3> QED
      BY <1>2, <2>1, <3>1, CarriesOn
  <2>3. CASE Goes(IF Captures /\ c.request # "identity" THEN "act" ELSE "identity")
    <3>1. PICK next \in {"act", "identity"} : Goes(next) /\ (next = "act" => Captures)
      BY <2>3
    <3>2. RunTyped' /\ run'.phase = next /\ run'.read = run.read
      <4>1. next \in Phases
        BY <1>3
      <4> QED
        BY <1>3, <3>1, <4>1, GoesTyped
    <3>3. Backed'
      <4>1. next = "act" => ~Mutates
        BY <3>1, RequestKinds DEF AInv
      <4>2. Mutates' = Mutates
        BY <1>2, GivenStays
      <4> QED
        BY <3>2, <4>1, <4>2 DEF Backed
    <3> QED
      BY <1>2, <2>1, <3>2, <3>3, Carries
  <2> QED
    BY <1>6, <2>2, <2>3 DEF Connect
<1> QED
  BY <1>4, <1>5, <1>6

\* Identity, and requests that need no session or only read.
LEMMA ReadingAuthorised ==
    ASSUME AInv, IInv, IInv', Identify \/ Ask \/ Read \/ PreRead
    PROVE  AInv'
<1> RunTyped /\ RunRecord /\ conversing \in BOOLEAN /\ drifts \subseteq Addresses
    /\ files \in [Files -> Contents]
  BY DEF AInv, IInv, TypeOK, RunTyped, Contents
<1>1. /\ run.phase \in {"identity", "act"}
      /\ UNCHANGED <<c, memory, conversing, drifts, files>>
  BY DEF Identify, Ask, UsbD4Probe, UsbIdentity, ReadSequence, TraceToTranscript, Asks, Read,
         UsbStatus, NativeStatus, SnmpStatus, NativeRead, SnmpRead, UsbDump, NativeDump, SnmpDump,
         EvidenceRead, EvidenceDump, BoundaryProbe, NativeEvidenceStatus, NativeEvidenceRead,
         NativeEvidenceDump, NativeBoundaryProbe, Reads, PreRead
<1>2. run.reported = {} /\ run.failed = {} /\ run.told = {}
  BY <1>1 DEF IInv, Telling, Silent, Early
<1>3. /\ {"act", "exit", "output", "shutdown"} \subseteq Phases /\ "operation" \in Steps
      /\ {"identity", "pre_read"} \subseteq Stages
      /\ Succeeds \in {"shutdown", "output", "exit"}
  BY DEF Phases, Steps, Stages, Succeeds
<1>4. CASE Errs
  <2>1. RunTyped' /\ run'.phase \in {"shutdown", "exit"} /\ run'.read = run.read
    BY <1>2, <1>4, ErrsTyped
  <2> QED
    BY <1>1, <2>1, CarriesOn
<1>5. CASE Identify /\ ~Errs
  <2>1. PICK next \in {"shutdown", "output", "exit", "act"} :
          /\ run' = [run EXCEPT !.phase = next, !.done = @ \cup {"identity"}]
          /\ next = "act" => c.request # "identity"
    BY <1>3, <1>5 DEF Identify
  <2>2. RunTyped' /\ run'.phase = next /\ run'.read = run.read
    BY <1>3, <2>1 DEF RunTyped, RunRecord
  <2>3. Backed'
    <3>1. Mutates => DetectedModel(c.identity) = c.model
      <4>1. Verified
        BY <1>5 DEF Identify
      <4>2. Mutates => ~Modelless /\ c.request # "identity"
        BY RequestKinds DEF AInv, Mutates, Mutations
      <4> QED
        BY <4>1, <4>2 DEF Verified
    <3>2. Mutates' = Mutates
      BY <1>1, GivenStays
    <3>3. c' = c
      BY <1>1
    <3> QED
      BY <2>2, <3>1, <3>2, <3>3 DEF Backed
  <2> QED
    BY <1>1, <2>2, <2>3, Carries
<1>6. CASE Ask
  <2>1. PICK next \in {"exit", "output"} : Goes(next) \/ (Ends("operation") /\ next = "exit")
    BY <1>6 DEF Ask, UsbD4Probe, UsbIdentity, ReadSequence, TraceToTranscript, Asks
  <2>2. RunTyped' /\ run'.phase = next /\ run'.read = run.read
    <3>1. next \in Phases
      BY <1>3
    <3> QED
      BY <1>2, <1>3, <2>1, <3>1, GoesTyped
  <2> QED
    BY <1>1, <2>2, CarriesOn
<1>7. CASE Read /\ ~Errs
  <2>1. PICK addresses : Reads(addresses) /\ ReadsOf(addresses)
    BY <1>7, ReadsKind
  <2> DEFINE read == Range(addresses)
  <2>2. run.phase = "act" /\ run' = [run EXCEPT !.read = read, !.phase = Succeeds]
    BY <1>7, <2>1 DEF Reads
  <2>3. read \subseteq Addresses /\ ReadAllowed(read)
    BY <2>1, <2>2, ReadsAreAllowed DEF AInv
  <2> HIDE DEF read
  <2>4. RunTyped' /\ run'.phase = Succeeds /\ run'.read = read
    BY <1>3, <2>2, <2>3 DEF RunTyped, RunRecord
  <2> QED
    BY <1>1, <1>3, <2>3, <2>4, CarriesOn
<1>8. CASE PreRead /\ ~Errs
  <2> DEFINE value == memory[Updates[1][1]]
  <2>1. run.phase = "act" /\ run' = [run EXCEPT !.done = @ \cup {"pre_read"}, !.original = value]
        /\ Evidence
    BY <1>8 DEF PreRead
  <2>2. value \in Bytes
    BY <2>1 DEF IInv, Given, Stored
  <2> HIDE DEF value
  <2>3. RunTyped' /\ run'.phase = "act" /\ run'.read = run.read
    BY <1>3, <2>1, <2>2 DEF RunTyped, RunRecord
  <2>4. Backed'
    <3>1. Mutates' = Mutates /\ c' = c
      BY <1>1, GivenStays
    <3> QED
      BY <2>1, <2>3, <3>1 DEF Backed, AInv
  <2> QED
    BY <1>1, <2>3, <2>4, Carries
<1> QED
  BY <1>4, <1>5, <1>6, <1>7, <1>8

\* The plan and its backup.
LEMMA BackupAuthorised ==
    ASSUME AInv, IInv, IInv', Prepare \/ SaveBackup
    PROVE  AInv'
<1> RunTyped /\ RunRecord /\ conversing \in BOOLEAN /\ drifts \subseteq Addresses
    /\ files \in [Files -> Contents] /\ memory \in [Addresses -> Bytes]
  BY DEF AInv, IInv, TypeOK, RunTyped, Contents
<1>1. run.phase \in {"act", "backup"} /\ UNCHANGED <<c, memory, conversing>>
  BY DEF Prepare, UsbWrite, UsbRestore, UsbReset, NativeMutation, EvidenceWrite, Prepares,
         SaveBackup
<1>2. run.reported = {} /\ run.failed = {} /\ run.told = {}
  BY <1>1 DEF IInv, Telling, Silent, Early
<1>3. Mutates' = Mutates /\ c' = c
  BY <1>1, GivenStays
<1>4. CASE Prepare
  <2>1. Prepares /\ Mutates
    BY <1>4 DEF Prepare, UsbWrite, UsbRestore, UsbReset, NativeMutation, EvidenceWrite, Is,
                Evidence, Mutates, Mutations
  <2>2. run.phase = "act" /\ drifts' = {} /\ files' = files
    BY <2>1 DEF Prepares
  <2>3. CASE Errs
    <3>1. RunTyped' /\ run'.phase \in {"shutdown", "exit"} /\ run'.read = run.read
      BY <1>2, <2>3, ErrsTyped
    <3> QED
      BY <1>1, <2>2, <3>1, CarriesOn
  <2>4. CASE run' = [run EXCEPT !.phase = "backup", !.read = Range0, !.backup = memory]
    <3>1. Range0 \subseteq Addresses /\ "backup" \in Phases
      BY DEF Range0, Phases
    <3>2. ReadAllowed(Range0)
      BY <2>1 DEF ReadAllowed, Mutates, Mutations
    <3> DEFINE read == Range0
    <3> HIDE DEF read
    <3>3. run' = [run EXCEPT !.phase = "backup", !.read = read, !.backup = memory]
          /\ read \subseteq Addresses /\ ReadAllowed(read)
      BY <2>4, <3>1, <3>2 DEF read
    <3>4. RunTyped' /\ run'.phase = "backup" /\ run'.read = read /\ run'.backup = memory
      BY <3>1, <3>3 DEF RunTyped, RunRecord
    <3>5. Backed'
      BY <1>1, <1>3, <2>1, <2>2, <3>4 DEF Backed, AInv
    <3> QED
      BY <1>1, <2>2, <3>3, <3>4, <3>5, Carries
  <2> QED
    BY <2>1, <2>3, <2>4 DEF Prepares
<1>5. CASE SaveBackup
  <2>1. run.phase = "backup" /\ drifts' = drifts
    BY <1>5 DEF SaveBackup
  <2>2. PICK new \in Create("output") :
          /\ files' = [files EXCEPT !["output"] = new[1]]
          /\ IF new[2] THEN run' = [run EXCEPT !.phase = "apply", !.done = @ \cup {"backup"}]
                       ELSE Errs
    BY <1>5 DEF SaveBackup
  <2>3. files' \in [Files -> Contents] /\ (new[2] => files'["output"] = "written")
    <3>1. "output" \in Files
      BY DEF Files
    <3> QED
      BY <2>2, <3>1, CreatesTyped
  <2>4. CASE Errs
    <3>1. RunTyped' /\ run'.phase \in {"shutdown", "exit"} /\ run'.read = run.read
      BY <1>2, <2>4, ErrsTyped
    <3> QED
      BY <1>1, <2>1, <2>3, <3>1, CarriesOn
  <2>5. CASE ~Errs
    <3>1. run' = [run EXCEPT !.phase = "apply", !.done = @ \cup {"backup"}]
          /\ files'["output"] = "written"
      BY <2>2, <2>3, <2>5
    <3>2. RunTyped' /\ run'.phase = "apply" /\ run'.read = run.read /\ run'.backup = run.backup
      BY <3>1 DEF RunTyped, RunRecord, Phases, Stages
    <3>3. Backed'
      BY <1>1, <1>3, <2>1, <3>1, <3>2 DEF Backed, AInv
    <3> QED
      BY <1>1, <2>1, <2>3, <3>2, <3>3, Carries
  <2> QED
    BY <2>4, <2>5
<1> QED
  BY <1>4, <1>5

\* The writes, what the evidence tool reads back, and the session's shutdown.
LEMMA WritingAuthorised ==
    ASSUME AInv, IInv, IInv', Apply \/ TestReadBack \/ Restore \/ RestorationReadBack \/ Shutdown
    PROVE  AInv'
<1> RunTyped /\ RunRecord /\ conversing \in BOOLEAN /\ drifts \subseteq Addresses
    /\ files \in [Files -> Contents]
  BY DEF AInv, IInv, TypeOK, RunTyped, Contents
<1>1. /\ run.phase \in {"apply", "readback", "restoration", "restoration_readback", "shutdown"}
      /\ UNCHANGED <<c, drifts, files>> /\ conversing' \in BOOLEAN
  BY DEF Apply, TestReadBack, Restore, RestorationReadBack, Shutdown
<1>2. /\ {"readback", "restoration", "restoration_readback", "shutdown", "close"} \subseteq Phases
      /\ {"test_write", "test_readback", "restoration", "restoration_readback"} \subseteq Stages
      /\ {"operation", "shutdown"} \subseteq Steps
  BY DEF Phases, Stages, Steps
<1> DEFINE Later == {"readback", "restoration", "restoration_readback", "shutdown", "close"}
<1>3. CASE \E next \in Later, ok \in BOOLEAN, stage \in Stages :
             run' = [run EXCEPT !.phase = next, !.tried = @ \cup {stage},
                                !.done = IF ok THEN @ \cup {stage} ELSE @,
                                !.failed = IF ok THEN @ ELSE @ \cup {"operation"}]
  <2> PICK next \in Later, ok \in BOOLEAN, stage \in Stages :
             run' = [run EXCEPT !.phase = next, !.tried = @ \cup {stage},
                                !.done = IF ok THEN @ \cup {stage} ELSE @,
                                !.failed = IF ok THEN @ ELSE @ \cup {"operation"}]
    BY <1>3
  <2>1. RunTyped' /\ run'.phase = next /\ run'.read = run.read
    BY <1>2 DEF RunTyped, RunRecord
  <2> QED
    BY <1>1, <2>1, CarriesOn
<1>4. CASE \E next \in Later, ok \in BOOLEAN, stage \in Stages :
             run' = [run EXCEPT !.phase = next, !.done = IF ok THEN @ \cup {stage} ELSE @,
                                !.failed = IF ok THEN @ ELSE @ \cup {"operation"}]
  <2> PICK next \in Later, ok \in BOOLEAN, stage \in Stages :
             run' = [run EXCEPT !.phase = next, !.done = IF ok THEN @ \cup {stage} ELSE @,
                                !.failed = IF ok THEN @ ELSE @ \cup {"operation"}]
    BY <1>4
  <2>1. RunTyped' /\ run'.phase = next /\ run'.read = run.read
    BY <1>2 DEF RunTyped, RunRecord
  <2> QED
    BY <1>1, <2>1, CarriesOn
<1>5. CASE Goes("close") \/ Fails("shutdown", "close")
  <2>1. RunTyped' /\ run'.phase = "close" /\ run'.read = run.read
    BY <1>2, <1>5, GoesTyped
  <2> QED
    BY <1>1, <2>1, CarriesOn
<1>6. CASE Apply
  <2>1. \E next \in Later, ok \in BOOLEAN :
          run' = [run EXCEPT !.phase = next, !.tried = @ \cup {"test_write"},
                             !.done = IF ok THEN @ \cup {"test_write"} ELSE @,
                             !.failed = IF ok THEN @ ELSE @ \cup {"operation"}]
    BY <1>6 DEF Apply, AfterFailedTest
  <2> QED
    BY <1>2, <1>3, <2>1
<1>7. CASE Restore
  <2>1. \E next \in Later, ok \in BOOLEAN :
          run' = [run EXCEPT !.phase = next, !.tried = @ \cup {"restoration"},
                             !.done = IF ok THEN @ \cup {"restoration"} ELSE @,
                             !.failed = IF ok THEN @ ELSE @ \cup {"operation"}]
    BY <1>7 DEF Restore
  <2> QED
    BY <1>2, <1>3, <2>1
<1>8. CASE TestReadBack \/ RestorationReadBack
  <2>1. PICK stage \in {"test_readback", "restoration_readback"}, next \in Later :
          \E expected : ReadBack(stage, expected, next)
    BY <1>8 DEF TestReadBack, RestorationReadBack
  <2>2. \E ok \in BOOLEAN :
          run' = [run EXCEPT !.phase = next, !.done = IF ok THEN @ \cup {stage} ELSE @,
                             !.failed = IF ok THEN @ ELSE @ \cup {"operation"}]
    BY <2>1 DEF ReadBack
  <2> QED
    BY <1>2, <1>4, <2>2
<1> QED
  BY <1>5, <1>6, <1>7, <1>8 DEF Shutdown

\* Closing, and what is said of it all.
LEMMA SayingAuthorised ==
    ASSUME AInv, IInv, IInv', Close \/ WriteTrace \/ WriteOutput \/ WriteReport \/ WriteEvidenceReport
    PROVE  AInv'
<1> RunTyped /\ RunRecord /\ conversing \in BOOLEAN /\ drifts \subseteq Addresses
    /\ files \in [Files -> Contents]
  BY DEF AInv, IInv, TypeOK, RunTyped, Contents
<1>1. /\ run.phase \in {"close", "trace", "output", "report"}
      /\ UNCHANGED <<c, drifts, memory, conversing>>
  BY DEF Close, CloseUsb, CloseNative, CloseNativeEvidence, CloseCapture, CloseEvidence, Closes,
         WriteTrace, WriteOutput, WriteReport, WriteEvidenceReport
<1>2. /\ {"exit", "output", "trace", "report"} \subseteq Phases
      /\ {"close", "trace", "output", "report"} \subseteq Steps
  BY DEF Phases, Steps
<1>3. run.told \subseteq run.failed /\ (run.phase = "output" => run.reported = {})
  BY <1>1 DEF IInv, Telling, Silent, RunTyped
<1>4. files' \in [Files -> Contents]
  <2>1. CASE Close
    BY <2>1 DEF Close, CloseUsb, CloseNative, CloseNativeEvidence, CloseCapture, CloseEvidence,
                Closes
  <2>2. CASE ~Close
    <3>1. files' = files \/ \E path \in Files : \E new \in Create(path) :
            files' = [files EXCEPT ![path] = new[1]]
      <4>1. "output" \in Files /\ "trace" \in Files /\ c.report \in Files
        BY DEF IInv, Given, Files
      <4> QED
        BY <2>2, <4>1 DEF WriteTrace, WriteOutput, WriteReport, WriteEvidenceReport
    <3> QED
      BY <3>1, CreatesTyped
  <2> QED
    BY <2>1, <2>2
<1> SUFFICES RunTyped' /\ run'.phase \in {"exit", "output", "trace", "report"}
             /\ run'.read = run.read
  BY <1>1, <1>4, CarriesOn
<1>5. CASE Close
  <2>1. Ending \in {"output", "exit"}
    BY DEF Ending
  <2>2. \E clean, otherwise \in {"exit", "output", "trace", "report"} : Closes(clean, otherwise)
    BY <1>5, <2>1 DEF Close, CloseUsb, CloseNative, CloseNativeEvidence, CloseCapture,
                      CloseEvidence
  <2>3. PICK phase \in {"exit", "output", "trace", "report"}, step \in {{}, {"close"}} :
          run' = [run EXCEPT !.phase = phase, !.failed = run.failed \cup step,
                             !.told = run.failed \cup step]
    <3> PICK clean \in {"exit", "output", "trace", "report"},
             otherwise \in {"exit", "output", "trace", "report"} : Closes(clean, otherwise)
      BY <2>2
    <3> PICK step \in {{}, {"close"}} :
          run' = [run EXCEPT !.phase = IF run.failed \cup step = {} THEN clean ELSE otherwise,
                             !.failed = run.failed \cup step, !.told = run.failed \cup step]
      BY DEF Closes, Collected
    <3> QED
      OBVIOUS
  <2> QED
    BY <1>2, <2>3 DEF RunTyped, RunRecord
<1>6. CASE \E next \in {"report", "exit"} : Goes(next)
  <2> PICK next \in {"report", "exit"} : Goes(next)
    BY <1>6
  <2>1. next \in Phases
    BY <1>2
  <2> QED
    BY <1>2, <2>1, GoesTyped
<1>7. CASE Ends("output") /\ run.phase = "output"
  BY <1>2, <1>3, <1>7, GoesTyped
<1>8. CASE \E step \in {"trace", "report"}, next \in {"report", "exit"} :
             run' = [run EXCEPT !.phase = next, !.failed = @ \cup {step},
                                !.told = @ \cup {step}]
  BY <1>2, <1>8 DEF RunTyped, RunRecord
<1>9. CASE run' = [run EXCEPT !.phase = "exit", !.reported = run.failed]
  BY <1>2, <1>9 DEF RunTyped, RunRecord
<1>10. CASE \E told \in {{}, {"evidence"}} :
              run' = [run EXCEPT !.phase = "exit", !.reported = run.failed, !.told = told]
  BY <1>2, <1>10 DEF RunTyped, RunRecord
<1>11. CASE run' = [run EXCEPT !.phase = "exit", !.failed = @ \cup {"report"},
                               !.told = {"report"}]
  BY <1>2, <1>11 DEF RunTyped, RunRecord
<1>12. CASE WriteTrace
  BY <1>6, <1>8, <1>12 DEF WriteTrace
<1>13. CASE WriteOutput
  BY <1>6, <1>7, <1>13 DEF WriteOutput
<1>14. CASE WriteReport
  BY <1>6, <1>8, <1>9, <1>14 DEF WriteReport
<1>15. CASE WriteEvidenceReport
  BY <1>10, <1>11, <1>15 DEF WriteEvidenceReport
<1> QED
  BY <1>5, <1>12, <1>13, <1>14, <1>15

\* The printer's own changes, other programs' files and the end of the command.
LEMMA WorldAuthorised ==
    ASSUME AInv, IInv, IInv',
           Kill \/ (\E a \in Addresses : Drift(a)) \/ (\E f \in Files : Foreign(f))
             \/ UNCHANGED vars
    PROVE  AInv'
<1> RunTyped /\ RunRecord /\ conversing \in BOOLEAN /\ drifts \subseteq Addresses
    /\ files \in [Files -> Contents] /\ memory \in [Addresses -> Bytes]
  BY DEF AInv, IInv, TypeOK, RunTyped, Contents
<1>1. UNCHANGED <<c, conversing>>
  BY DEF Kill, Drift, Foreign, vars
<1>2. Mutates' = Mutates
  BY <1>1, GivenStays
<1>3. CASE Kill
  <2>1. RunTyped' /\ run'.phase = "killed" /\ run'.read = run.read
    <3>1. "killed" \in Phases /\ "close" \in Steps
      BY DEF Phases, Steps
    <3> QED
      BY <1>3, <3>1, GoesTyped DEF Kill
  <2> QED
    BY <1>1, <1>3, <2>1, CarriesOn DEF Kill
<1>4. CASE (\E a \in Addresses : Drift(a)) \/ (\E f \in Files : Foreign(f)) \/ UNCHANGED vars
  <2>1. run' = run /\ drifts \subseteq drifts'
        /\ \A a \in Addresses \ drifts' : memory'[a] = memory[a]
    BY <1>4 DEF Drift, Foreign, vars
  <2>2. /\ drifts' \subseteq Addresses /\ files' \in [Files -> Contents]
        /\ \A f \in Files : files[f] # "absent" => files'[f] = files[f]
    BY <1>4 DEF Drift, Foreign, vars, Contents
  <2>3. RunTyped'
    BY <2>1 DEF RunTyped
  <2>4. Backed'
    <3>1. "output" \in Files
      BY DEF Files
    <3>2. c' = c
      BY <1>1
    <3> QED
      BY <1>2, <2>1, <2>2, <3>1, <3>2 DEF AInv, Backed
  <2>5. CASE run.phase \notin {"arguments", "exit", "killed"} \/ run'.phase \in {"exit", "killed"}
    BY <1>1, <2>1, <2>2, <2>3, <2>4, <2>5, Carries
  <2>6. CASE run'.phase = "arguments"
    BY <1>1, <2>1, <2>2, <2>3, <2>4, <2>6, Carries
  <2> QED
    BY <2>1, <2>5, <2>6
<1> QED
  BY <1>3, <1>4

LEMMA StepAuthorised == AInv /\ IInv /\ IInv' /\ [Next]_vars => AInv'
<1> SUFFICES ASSUME AInv, IInv, IInv', [Next]_vars PROVE AInv'
  OBVIOUS
<1>1. CASE Host
  BY <1>1, SetupAuthorised, ReadingAuthorised, BackupAuthorised, WritingAuthorised,
     SayingAuthorised DEF Host
<1>2. CASE ~Host
  BY <1>2, WorldAuthorised DEF Next
<1> QED
  BY <1>1, <1>2

\* What a command may be given is what Init chooses from.
LEMMA InitOffered == Init => Offered
<1> SUFFICES ASSUME Init PROVE Offered
  OBVIOUS
<1> PICK cmd \in CommandSet, database \in Databases, identity \in Identities, m \in Names :
      \E updates \in If(cmd.request = "write", UpdateLists, <<>>),
         image \in If(cmd.request = "restore", Images, <<>>),
         addresses \in If(cmd.request \in {"read", "boundary"} \/ Ranged(cmd), AddressLists, <<>>),
         env \in If(cmd.backend = "snmp", Environments, CHOOSE e \in Environments : TRUE),
         missing \in {{}} \cup {{p} : p \in Phrases(cmd)},
         paths \in PathSets(cmd) :
        \E report \in If("report" \in paths, paths, "report") :
          c = [program |-> cmd.program, backend |-> cmd.backend, request |-> cmd.request,
               database |-> database, identity |-> identity, model |-> m,
               updates |-> IF cmd.program = "evidence" THEN One(updates) ELSE updates,
               image |-> image, env |-> env,
               addresses |-> IF cmd.request = "boundary" THEN One(addresses) ELSE addresses,
               given |-> Phrases(cmd) \ missing,
               paths |-> paths, report |-> report]
  BY DEF Init
<1> PICK updates \in If(cmd.request = "write", UpdateLists, <<>>),
         image \in If(cmd.request = "restore", Images, <<>>),
         addresses \in If(cmd.request \in {"read", "boundary"} \/ Ranged(cmd), AddressLists, <<>>) :
        /\ c.program = cmd.program /\ c.backend = cmd.backend /\ c.request = cmd.request
        /\ c.database = database /\ c.image = image
        /\ c.updates = IF cmd.program = "evidence" THEN One(updates) ELSE updates
        /\ c.addresses = IF cmd.request = "boundary" THEN One(addresses) ELSE addresses
  OBVIOUS
<1>1. cmd = [program |-> c.program, backend |-> c.backend, request |-> c.request]
  BY DEF CommandSet
<1>2. ASSUME NEW S, NEW s \in Seq(S), s # <<>>
      PROVE  One(s) \in Seq(S) /\ One(s) # <<>> /\ Len(One(s)) = 1
  <2>1. Head(s) \in S
    BY <1>2
  <2> QED
    BY <1>2, <2>1 DEF One
<1>3. c.request = "write" => c.updates \in Seq(Update)
  <2> SUFFICES ASSUME c.request = "write" PROVE c.updates \in Seq(Update)
    OBVIOUS
  <2>1. updates \in UpdateLists
    BY DEF If
  <2>2. updates \in Seq(Update) /\ updates # <<>>
    BY <2>1, UpdateAssumption DEF Update
  <2> QED
    BY <1>2, <2>2
<1>4. c.request = "restore" => c.image \in Seq(Bytes)
  <2> SUFFICES ASSUME c.request = "restore" PROVE c.image \in Seq(Bytes)
    OBVIOUS
  <2>1. image \in Images
    BY DEF If
  <2> QED
    BY <2>1, AddressAssumption
<1>5. ASSUME c.request \in {"read", "boundary"} \/ Ranged(c)
      PROVE  /\ c.addresses \in Seq(Addresses) /\ c.addresses # <<>>
             /\ c.request = "boundary" => Len(c.addresses) = 1
  <2>1. addresses \in AddressLists
    BY <1>5 DEF If, Ranged
  <2>2. addresses \in Seq(Addresses) /\ addresses # <<>>
    BY <2>1, AddressAssumption
  <2> QED
    BY <1>2, <2>2
<1> QED
  BY <1>1, <1>3, <1>4, <1>5 DEF Offered

LEMMA InitAuthorised == Init => AInv
<1> SUFFICES ASSUME Init PROVE AInv
  OBVIOUS
<1>1. Offered
  BY InitOffered
<1>2. run = Fresh
  BY DEF Init
<1>3. /\ run.phase = "arguments" /\ run.failed = {} /\ run.told = {} /\ run.reported = {}
      /\ run.done = {} /\ run.tried = {} /\ run.level = "none" /\ run.read = {}
      /\ run.backup = <<>> /\ run.original = 0
  BY <1>2 DEF Fresh
<1>4. Checked /\ Backed /\ ReadsAuthorised
  BY <1>3 DEF Checked, Backed, ReadsAuthorised
<1>5. TypeOK
  <2>1. memory \in [Addresses -> Bytes]
    BY InitHolds DEF IInv, Stored
  <2>2. files = [f \in Files |-> "absent"] /\ drifts = {} /\ conversing = FALSE
    BY DEF Init
  <2> QED
    BY <1>3, <2>1, <2>2 DEF TypeOK, Phases, Bytes
<1> QED
  BY <1>1, <1>4, <1>5 DEF AInv

THEOREM AlwaysAInv == Spec => []AInv
BY InitAuthorised, StepAuthorised, AlwaysIInv, PTL DEF Spec

\* Every variable of a command keeps its type (reink-cli and reink-hardware-test).
THEOREM TypeCorrect == Spec => []TypeOK
<1>1. AInv => TypeOK
  BY DEF AInv
<1> QED
  BY <1>1, AlwaysAInv, PTL

\* No byte of a printer is written before every phrase was given, the printer
\* said that it is the model asked for, the bytes are known to be of its range
\* and of its declared resets, and the backup is on disk and agrees with the
\* printer (require_confirmation, verify_exact_model, declared_counter_reset_updates,
\* prepare_eeprom_write, write_new_file).
THEOREM WritesAreAuthorised == Spec => []WritesAuthorised
BY AInvWrites, AlwaysAInv, PTL

\* No read leaves the model's range but for a confirmed boundary probe of one
\* address, and no native command shows a byte of a sensitive field
\* (validate_eeprom_read_addresses, validate_native_sensitive_addresses).
THEOREM ReadsAreAuthorised == Spec => []ReadsAuthorised
<1>1. AInv => ReadsAuthorised
  BY DEF AInv
<1> QED
  BY <1>1, AlwaysAInv, PTL
=============================================================================
