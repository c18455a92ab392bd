----------------------------- MODULE UsbSession -----------------------------
(***************************************************************************)
(* One D4 operation on a selected USB interface, from open to the report   *)
(* of its cleanup: with_selected_usb_epson_session of reink-app and        *)
(* with_usb_epson_session of reink-cli, over EpsonD4Session and over the   *)
(* transport of UsbTransport.tla; and the bounded probes of adapter.rs.    *)
(*                                                                         *)
(* Any number of processes run sessions and probes on the same interface,  *)
(* any call may fail with or without its effect on the printer, the code   *)
(* of an operation may panic, and a process may be killed at any step.     *)
(* The calls of the D4 link are single steps here, with the outcomes that  *)
(* D4Link.tla gives them.                                                  *)
(***************************************************************************)
EXTENDS UsbTransport

Phases == {"idle", "opening", "probe", "entry", "reply", "initialize",
           "openService", "setupExit", "operation", "closeChannel", "exit",
           "closing", "dropping"}
InLink == {"initialize", "openService", "setupExit", "operation",
           "closeChannel", "exit"}
UsesInterface == InLink \cup {"probe", "entry", "reply"}
Shutdowns == {"NotAttempted", "Succeeded", "Failed"}
Modes == {"printing", "d4", "conversation"}

VARIABLES
    phase,        \* where each process's session is
    kind,         \* a whole session or a probe
    conversation, \* ConversationState of its link
    failed,       \* has the operation failed?
    closeError,   \* has close_channel failed in shutdown?
    d4_shutdown,  \* field of UsbSessionCleanup
    short,        \* has write_all returned Ok for a part of its bytes?
    mode,         \* external: the mode the printer is in
    user,         \* history: the process that last sent the entry command
    warned        \* history: what each process was told may be left behind

session == <<phase, kind, conversation, failed, closeError, d4_shutdown,
             short, mode, user, warned>>
vars == <<usb, session>>

Init ==
    /\ UsbInit
    /\ phase = [p \in Processes |-> "idle"]
    /\ kind = [p \in Processes |-> "session"]
    /\ conversation = [p \in Processes |-> "Inactive"]
    /\ failed = [p \in Processes |-> FALSE]
    /\ closeError = [p \in Processes |-> FALSE]
    /\ d4_shutdown = [p \in Processes |-> "NotAttempted"]
    /\ short = [p \in Processes |-> FALSE]
    /\ mode = "printing" /\ user \in Processes
    /\ warned = [p \in Processes |-> {}]

Enters(p, what) == phase' = [phase EXCEPT ![p] = what]
Fails(p) == failed' = [failed EXCEPT ![p] = TRUE]
Warns(p, what) == warned' = [warned EXCEPT ![p] = what]

\* A step of the session that leaves the transport as it is, and one that
\* ends the use of the transport.
Onward(p, next) == Enters(p, next) /\ UNCHANGED usb
BeginClose(p) == Enters(p, "closing") /\ StartClose(p)

-----------------------------------------------------------------------------
(* Open, and the probes.                                                   *)

Begin(p, handoff, what) ==
    /\ phase[p] = "idle" /\ Open(p, handoff) /\ Enters(p, "opening")
    /\ kind' = [kind EXCEPT ![p] = what]
    /\ UNCHANGED <<conversation, failed, closeError, d4_shutdown, short, mode,
                   user, warned>>

\* The session's values end with it, and the transport's with them.
Ends(p) ==
    /\ Vanish(p) /\ Enters(p, "idle")
    /\ kind' = [kind EXCEPT ![p] = "session"]
    /\ conversation' = [conversation EXCEPT ![p] = "Inactive"]
    /\ failed' = [failed EXCEPT ![p] = FALSE]
    /\ closeError' = [closeError EXCEPT ![p] = FALSE]
    /\ d4_shutdown' = [d4_shutdown EXCEPT ![p] = "NotAttempted"]
    /\ short' = [short EXCEPT ![p] = FALSE]
    /\ UNCHANGED <<mode, user>>

\* The error of an open names a driver that could not be given back.
DriverWarning(p) == IF "reattach" \in failures[p] THEN {"driver"} ELSE {}

OpenFailed(p) ==
    /\ phase[p] = "opening" /\ step[p] = "failed"
    /\ Ends(p) /\ Warns(p, warned[p] \cup DriverWarning(p))

Opened(p) ==
    /\ phase[p] = "opening" /\ step[p] = "open"
    /\ Onward(p, IF kind[p] = "probe" THEN "probe" ELSE "entry")
    /\ UNCHANGED <<kind, conversation, failed, closeError, d4_shutdown, short,
                   mode, user, warned>>

\* probe_epson_d4_entry sends the entry command; read_printer_device_id
\* leaves the mode alone.
Probe(p) ==
    /\ phase[p] = "probe" /\ BeginClose(p)
    /\ mode' \in {mode, IF mode = "printing" THEN "d4" ELSE mode}
    /\ failed' \in {failed, [failed EXCEPT ![p] = TRUE]}
    /\ UNCHANGED <<kind, conversation, closeError, d4_shutdown, short, user, warned>>

-----------------------------------------------------------------------------
(* EpsonD4Session::connect_recoverable.                                    *)

\* libusb reports a bulk write that was cut short as a success.
EntryWritten(p) ==
    /\ phase[p] = "entry" /\ user' = p
    /\ \/ /\ Onward(p, "reply") /\ mode' \in {mode, "d4"}
          /\ UNCHANGED <<failed, short>>
       \/ /\ Onward(p, "reply") /\ short' = [short EXCEPT ![p] = TRUE]
          /\ UNCHANGED <<failed, mode>>
       \/ /\ BeginClose(p) /\ Fails(p) /\ mode' \in {mode, "d4"}
          /\ UNCHANGED short
    /\ UNCHANGED <<kind, conversation, closeError, d4_shutdown, warned>>

EntryReplied(p) ==
    /\ phase[p] = "reply"
    /\ \/ /\ mode # "printing" /\ ~short[p]
          /\ Onward(p, "initialize") /\ UNCHANGED failed
       \/ BeginClose(p) /\ Fails(p)
    /\ UNCHANGED <<kind, conversation, closeError, d4_shutdown, short, mode,
                   user, warned>>

\* The printer may have accepted the Init of a failed initialize.
Initialized(p) ==
    /\ phase[p] = "initialize"
    /\ \/ /\ mode' = "conversation" /\ Onward(p, "openService")
          /\ conversation' = [conversation EXCEPT ![p] = "Active"]
          /\ UNCHANGED failed
       \/ /\ mode' \in {mode, "conversation"} /\ BeginClose(p) /\ Fails(p)
          /\ UNCHANGED conversation
    /\ UNCHANGED <<kind, closeError, d4_shutdown, short, user, warned>>

\* While a call waits for its reply, the printer may end the conversation.
PrinterMayLeave(p) ==
    \/ UNCHANGED <<conversation, mode>>
    \/ /\ conversation[p] = "Active" /\ mode' = "printing"
       /\ conversation' = [conversation EXCEPT ![p] = "Terminated"]

ServiceOpened(p) ==
    /\ phase[p] = "openService" /\ PrinterMayLeave(p)
    /\ \/ /\ conversation'[p] = "Active" /\ Onward(p, "operation")
          /\ UNCHANGED failed
       \/ Onward(p, "setupExit") /\ Fails(p)
    /\ UNCHANGED <<kind, closeError, d4_shutdown, short, user, warned>>

\* D4Link::exit needs an active conversation; a failed one may have reached
\* the printer.
ExitWorks(p) ==
    /\ conversation[p] = "Active" /\ mode' = "printing"
    /\ conversation' = [conversation EXCEPT ![p] = "Terminated"]
ExitErrs(p) ==
    /\ IF conversation[p] = "Active" THEN mode' \in {mode, "printing"} ELSE UNCHANGED mode
    /\ UNCHANGED conversation
ShutDown(p, how) == d4_shutdown' = [d4_shutdown EXCEPT ![p] = how]

\* SetupRecovered, or SetupRecovery with the error of exit.
SetupExited(p) ==
    /\ phase[p] = "setupExit" /\ BeginClose(p)
    /\ \/ ExitWorks(p) /\ ShutDown(p, "Succeeded")
       \/ ExitErrs(p) /\ ShutDown(p, "Failed")
    /\ UNCHANGED <<kind, failed, closeError, short, user, warned>>

-----------------------------------------------------------------------------
(* The operation, EpsonD4Session::shutdown and the record.                 *)

Operated(p) ==
    /\ phase[p] = "operation" /\ Onward(p, "closeChannel")
    /\ PrinterMayLeave(p)
    /\ (conversation'[p] = "Active" /\ UNCHANGED failed) \/ Fails(p)
    /\ UNCHANGED <<kind, closeError, d4_shutdown, short, user, warned>>

ChannelClosed(p) ==
    /\ phase[p] = "closeChannel" /\ Onward(p, "exit")
    /\ PrinterMayLeave(p)
    /\ \/ conversation'[p] = "Active" /\ UNCHANGED closeError
       \/ closeError' = [closeError EXCEPT ![p] = TRUE]
    /\ UNCHANGED <<kind, failed, d4_shutdown, short, user, warned>>

\* shutdown fails when either of its two calls has.
ShutdownStatusMutant(close, exit) == IF close THEN "Succeeded" ELSE "Failed"  \* Mutant: exit's error is lost.
ShutdownStatus(close, exit) == IF close /\ exit THEN "Succeeded" ELSE "Failed"

Exited(p) ==
    /\ phase[p] = "exit" /\ BeginClose(p)
    /\ \/ ExitWorks(p) /\ ShutDown(p, ShutdownStatus(~closeError[p], TRUE))
       \/ ExitErrs(p) /\ ShutDown(p, ShutdownStatus(~closeError[p], FALSE))
    /\ UNCHANGED <<kind, failed, closeError, short, user, warned>>

\* What a record says may be left behind; one that says the D4 shutdown
\* succeeded takes back the warnings of earlier ones.
PrinterWarning(p) ==
    IF kind[p] = "session" /\ d4_shutdown[p] = "Succeeded" THEN {}
    ELSE IF kind[p] = "session" THEN {"printer"}
    ELSE warned[p] \cap {"printer"}

\* The transport, closed, goes out of scope with the session.
Closed(p) ==
    /\ phase[p] = "closing" /\ step[p] = "closed"
    /\ Enters(p, "dropping") /\ StartDrop(p)
    /\ Warns(p, (warned[p] \cap {"driver"}) \cup DriverWarning(p) \cup PrinterWarning(p))
    /\ UNCHANGED <<kind, conversation, failed, closeError, d4_shutdown, short, mode, user>>

Dropped(p) ==
    /\ phase[p] = "dropping" /\ step[p] = "handle"
    /\ Ends(p) /\ UNCHANGED warned

\* A panic unwinds the session, and all that is left is Drop.
Panic(p) ==
    /\ phase[p] \in InLink
    /\ Enters(p, "dropping") /\ StartDrop(p) /\ Fails(p)
    /\ Warns(p, {"driver", "printer"})
    /\ UNCHANGED <<kind, conversation, closeError, d4_shutdown, short, mode, user>>

\* The process is killed and reports nothing.
Kill(p) ==
    /\ phase[p] # "idle"
    /\ Ends(p) /\ Warns(p, {"driver", "printer"})

Next ==
    \E p \in Processes :
        \/ \E handoff \in Policies, what \in {"session", "probe"} : Begin(p, handoff, what)
        \/ (Opening(p) \/ Closing(p)) /\ UNCHANGED session
        \/ OpenFailed(p) \/ Opened(p) \/ Probe(p)
        \/ EntryWritten(p) \/ EntryReplied(p) \/ Initialized(p)
        \/ ServiceOpened(p) \/ SetupExited(p)
        \/ Operated(p) \/ ChannelClosed(p) \/ Exited(p)
        \/ Closed(p) \/ Dropped(p) \/ Panic(p) \/ Kill(p)

Spec == Init /\ [][Next]_vars

-----------------------------------------------------------------------------
\* The session of a process and its transport agree on where they are, and
\* the transport's flags on what is left to clean up.
Agreement(p) ==
    /\ phase[p] = "idle" <=> step[p] = "none"
    /\ phase[p] = "opening" => step[p] \in {"query", "detach", "claim", "undo", "failed", "open"}
    /\ phase[p] \in UsesInterface => step[p] = "open"
    /\ phase[p] = "closing" => step[p] \in {"release", "reattach", "closed"}
    /\ phase[p] = "dropping" => step[p] \in {"release", "reattach", "handle"}
    /\ claimed[p] <=> step[p] \in {"open", "release"}
    /\ step[p] \in {"undo", "reattach"} => detached[p]
    /\ detached[p] => step[p] \in Steps \ {"none", "query", "detach", "failed"}
    /\ dropping[p] <=> phase[p] = "dropping"

SessionTypeOK ==
    /\ phase \in [Processes -> Phases]
    /\ kind \in [Processes -> {"session", "probe"}]
    /\ conversation \in [Processes -> {"Inactive", "Active", "Terminated"}]
    /\ failed \in [Processes -> BOOLEAN] /\ closeError \in [Processes -> BOOLEAN]
    /\ d4_shutdown \in [Processes -> Shutdowns]
    /\ short \in [Processes -> BOOLEAN]
    /\ mode \in Modes /\ user \in Processes
    /\ warned \in [Processes -> SUBSET {"driver", "printer"}]

\* Types, and the agreement of every session with its transport: a close
\* releases what is claimed and reattaches what is detached, once.
TypeOK == UsbTypeOK /\ SessionTypeOK /\ \A p \in Processes : Agreement(p)

\* Whatever other processes do to the interface in between, no process sends
\* or reads a byte on it while another one, or the driver, holds it.
ExclusiveUse ==
    \A p \in Processes : phase[p] \in UsesInterface => owner = p

\* A driver that was there is still there, or the process that detached it
\* is on its way to reattach it, or has told its caller that it could not,
\* or was killed or panicked (claim_interface_with_policy, close, Drop).
DriverRestored ==
    home = "driver" /\ owner # "driver" =>
        \/ detached[detacher]
        \/ "driver" \in warned[detacher]
        \/ step[detacher] = "failed" /\ "reattach" \in failures[detacher]

\* A driver is attached only by an instance that detached one, so that a
\* device that had none keeps none.
OnlyOwnDriver ==
    [][owner # "driver" /\ owner' = "driver" =>
          \E p \in Processes : detached[p] /\ ~detached'[p]]_vars

\* A printer is left in a D4 conversation only by a session that is not over,
\* or that has told its caller so: no record says that the D4 shutdown
\* succeeded while the conversation it is about goes on.
PrinterLeft ==
    mode = "conversation" =>
        \/ "printer" \in warned[user]
        \/ phase[user] \notin {"idle", "dropping"} /\ d4_shutdown[user] # "Succeeded"

\* The session of a process whose code did not panic "always attempts
\* orderly D4 and USB cleanup".
D4CleanupAttempted ==
    mode = "conversation" /\ phase[user] = "closing" => d4_shutdown[user] # "NotAttempted"

\* write_all "Writes every byte in `data` or returns a contextual transport
\* error".
WritesWhole == \A p \in Processes : short[p] => failed[p]
=============================================================================
