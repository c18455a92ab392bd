---------------------------- MODULE GuiOperation ----------------------------
(***************************************************************************)
(* One operation on a selected printer, as the worker thread of the        *)
(* graphical interface runs it: run_selected_usb_operation of reink-gui.   *)
(* It opens the interface at the place the candidate was found, reads the  *)
(* identity, and only then does what was asked for; it ends with the       *)
(* session's cleanup and sends its outcome over a channel.                 *)
(*                                                                         *)
(* Printers are plugged and unplugged at any time.  All of them answer to  *)
(* the same VID/PID, so that a place says nothing of the model in it.  The *)
(* steps inside a session are those of UsbSession.tla and EepromWrite.tla, *)
(* here with the outcomes that those modules give them.                    *)
(***************************************************************************)
EXTENDS Naturals, Sequences, FiniteSets

CONSTANTS
    Models,      \* models of the bundled database
    Resettable,  \* those that declare counter-reset bytes
    PortCount,   \* bound: places a printer can be plugged into
    Native,      \* the places that the Windows USBPRINT backend lists
    None         \* a model value: no model, no printer

Ports == 1 .. PortCount

ASSUME ModelAssumption == None \notin Models /\ Resettable \subseteq Models
ASSUME PortAssumption == PortCount \in Nat /\ Native \subseteq Ports

Mutations == {"write", "restore", "reset"}
Requests == {"status", "dump"} \cup Mutations
Cleanups == {"not_attempted", "succeeded", "failed"}
Phases == {"idle", "prepare", "open", "identity", "act", "backup", "apply",
           "shutdown", "close", "spinning", "sent", "stopped"}

VARIABLES
    plugged,  \* external: the model of the printer in each place, or None
    work      \* the worker: usb_operation_receiver and what is behind it

\* phase: where the worker is; idle is no receiver, spinning a D4 call that
\* never returns, sent and stopped are a channel that holds an outcome or has
\* lost its sender.  port, model, request,
\* acknowledged: what the closure captured, with the model that the updates
\* were computed for (image).  shown: history, the place and model that the
\* confirmed dialog was opened for.  printer: the printer that the session
\* talks to, None when it is unplugged.  reached: history, the printer whose
\* status or memory was read or written.  ok, shutdown, close: the outcome.
\* owed: history, has a write reached the printer that is neither verified nor
\* followed by an attempt to roll it back?  conversing: history, is the printer
\* left in the D4 conversation?
Idle == [phase |-> "idle", port |-> 0, model |-> None, request |-> "status",
         acknowledged |-> FALSE, image |-> None, shown |-> <<0, None>>,
         printer |-> None, reached |-> None, ok |-> FALSE, backup |-> FALSE, owed |-> FALSE,
         conversing |-> FALSE,
         shutdown |-> "not_attempted", close |-> "not_attempted"]

Busy == work.phase # "idle"
Running == Busy /\ work.phase \notin {"sent", "stopped"}

\* The session is over before it began: nothing was opened.
Refused == work' = [work EXCEPT !.phase = "sent"]

\* A step of the session that ends well, and one that fails: whatever failed,
\* the session is shut down.
Proceeds(next) == work' = [work EXCEPT !.phase = next]
Errs == work' = [work EXCEPT !.phase = "shutdown"]

\* What the dialog validated for this model is valid for it now: the length of
\* an image, the bytes that the model declares for a reset.
Valid ==
    /\ work.request = "restore" => work.image = work.model
    /\ work.request = "reset" => work.model \in Resettable

\* The experimental write over USBPRINT needs its own acknowledgement.
Acknowledged ==
    work.request \in Mutations /\ work.port \in Native => work.acknowledged

Prepare ==
    /\ work.phase = "prepare"
    /\ IF Valid /\ Acknowledged THEN Proceeds("open") ELSE Refused
    /\ UNCHANGED plugged

\* The interface at the candidate's place is opened, whatever printer is in it
\* by now, and the D4 session is set up.  A setup that fails leaves the printer
\* when its Exit was answered; it has not tried when initialize failed.
Connect ==
    /\ work.phase = "open"
    /\ \/ Refused
       \/ /\ plugged[work.port] # None
          /\ \/ work' = [work EXCEPT !.phase = "identity", !.conversing = TRUE,
                                     !.printer = plugged[work.port]]
             \/ \E shutdown \in Cleanups, left \in BOOLEAN :
                  /\ shutdown = "succeeded" => left
                  /\ work' = [work EXCEPT !.phase = "close", !.conversing = ~left,
                                          !.shutdown = shutdown]
    /\ UNCHANGED plugged

\* read_identity and verify_exact_model.
VerifiedByPlace == work.printer # None   \* Mutant: any printer in that place.
Verified == work.printer = work.model

Identify ==
    /\ work.phase = "identity"
    /\ \/ Errs
       \/ Verified /\ Proceeds("act")
    /\ UNCHANGED plugged

\* Status and dump: the reply, or the image and its file.  A mutation reads the
\* complete backup and prepares its plan.
Read ==
    /\ work.phase = "act"
    /\ \/ Errs
       \/ /\ work.printer # None
          /\ IF work.request \in Mutations
               THEN work' = [work EXCEPT !.phase = "backup", !.reached = work.printer]
               ELSE work' = [work EXCEPT !.phase = "shutdown", !.ok = TRUE,
                                         !.reached = work.printer]
    /\ UNCHANGED plugged

\* The backup file, which needs no printer.
SaveBackup ==
    /\ work.phase = "backup"
    /\ \/ Errs
       \/ work' = [work EXCEPT !.phase = "apply", !.backup = TRUE]
    /\ UNCHANGED plugged

\* apply_eeprom_write: bytes reach the printer, and are then verified or rolled
\* back as far as the printer answers.
Write ==
    /\ work.phase = "apply" /\ ~work.owed /\ work.printer # None
    /\ work' = [work EXCEPT !.owed = TRUE, !.reached = work.printer]
    /\ UNCHANGED plugged

Apply ==
    /\ work.phase = "apply"
    /\ \E ok \in BOOLEAN :
         /\ ok => work.owed /\ work.printer # None
         /\ work' = [work EXCEPT !.phase = "shutdown", !.ok = ok, !.owed = FALSE]
    /\ UNCHANGED plugged

\* session.shutdown: an Exit whose reply was read has ended the conversation,
\* one whose reply is lost may have.
Shutdown ==
    /\ work.phase = "shutdown"
    /\ \/ /\ work.printer # None
          /\ work' = [work EXCEPT !.phase = "close", !.conversing = FALSE,
                                  !.shutdown = "succeeded"]
       \/ \E still \in BOOLEAN :
            /\ still => work.conversing
            /\ work' = [work EXCEPT !.phase = "close", !.conversing = still,
                                    !.shutdown = "failed"]
    /\ UNCHANGED plugged

Close ==
    /\ work.phase = "close"
    /\ \E close \in {"succeeded", "failed"} :
         work' = [work EXCEPT !.phase = "sent", !.close = close, !.printer = None]
    /\ UNCHANGED plugged

\* The worker thread panics: the session is dropped, which closes USB, and then
\* the sender, which the interface sees as a channel that is disconnected: an
\* error, and nothing known of the cleanup.
Stop ==
    /\ Running /\ work.phase # "spinning"
    /\ work' = [work EXCEPT !.phase = "stopped", !.ok = FALSE, !.printer = None,
                            !.shutdown = "not_attempted", !.close = "not_attempted"]
    /\ UNCHANGED plugged

\* A D4 call of the session never returns: it takes the same packet from
\* `received` and puts it back for ever, without a read that could time out, or
\* its printer goes on sending (D4Conversation: CallsAlwaysReturn).
Spin ==
    /\ work.phase \in {"open", "identity", "act", "apply", "shutdown"}
    /\ work.phase = "open" => plugged[work.port] # None
    /\ Proceeds("spinning")
    /\ UNCHANGED plugged

Work == \/ Prepare \/ Connect \/ Identify \/ Read \/ SaveBackup
        \/ Write \/ Apply \/ Shutdown \/ Close

\* External: a printer is unplugged, which ends any session with it, or another
\* one is plugged in.  An unplugged printer is powered by itself and may stay
\* in its conversation.
Replug(port, printer) ==
    /\ printer # plugged[port]
    /\ printer = None \/ plugged[port] = None
    /\ plugged' = [plugged EXCEPT ![port] = printer]
    /\ work' = IF Running /\ work.port = port THEN [work EXCEPT !.printer = None]
                                            ELSE work
=============================================================================
