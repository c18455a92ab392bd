------------------------------ MODULE UsbprintIo ------------------------------
(***************************************************************************)
(* The Windows USBPRINT transport: one overlapped operation at a time,     *)
(* waited for, cancelled when it takes too long, and abandoned with its    *)
(* memory when even the cancellation does not end.  The installed driver   *)
(* and the printer behind it are the environment: they may end an          *)
(* operation at any moment with any part of it done, fail it, acknowledge  *)
(* or ignore its cancellation.                                             *)
(*                                                                         *)
(* A call of the transport ends by leaving its outcome in `result`, which  *)
(* the caller takes before it makes another.                               *)
(***************************************************************************)
EXTENDS Naturals, Sequences

VARIABLES
  handle,    \* the interface handle: "none", "open", "closed"
  step,      \* overlapped_io: "idle", "waiting", "cancelling", "cleaning"
  io,        \* the operation at the driver, and the bytes it has moved
  buffer,    \* the memory given to the driver: "free", "held", "leaked"
  result,    \* outcome of the last call, until the caller takes it
  line,      \* what the printer has yet to say
  arrived,   \* history: all the printer was sent
  told,      \* history: the bytes of the writes reported as done
  doubt,     \* history: a write was reported as failed
  gap        \* history: bytes the printer said that no read returned

ioVars == <<handle, step, io, buffer, result, line, arrived, told, doubt, gap>>

\* No operation at the driver.
NoIo == [state |-> "none", op |-> "none", data |-> <<>>, bytes |-> <<>>]

\* Nothing to take.
NoResult == [op |-> "none", outcome |-> "none", bytes |-> <<>>]

\* Before the interface is opened; said is all the printer will say.
IoInit(said) ==
  /\ handle = "none" /\ step = "idle" /\ io = NoIo /\ buffer = "free" /\ result = NoResult
  /\ line = said /\ arrived = <<>> /\ told = <<>> /\ doubt = FALSE /\ gap = FALSE

\* The first parts of s, nothing and all of it included.
Beginnings(s) == {SubSeq(s, 1, n) : n \in 0 .. Len(s)}

\* Mutant: the count of a write that completed is not looked at.
AnyCount == "ok"

\* write_all refuses a write that moved fewer bytes than it was given.
Counted == IF io.op = "write" /\ io.bytes # io.data THEN "failed" ELSE "ok"

\* A call returns its outcome, and the bytes that were moved if it is a success.
Return(outcome) ==
  /\ step' = "idle"
  /\ result' = [op |-> io.op, outcome |-> outcome,
                bytes |-> IF outcome = "ok" THEN io.bytes ELSE <<>>]
  /\ told' = IF io.op = "write" /\ outcome = "ok" THEN told \o io.data ELSE told
  /\ doubt' = (doubt \/ (io.op = "write" /\ outcome # "ok"))
  /\ UNCHANGED <<line, arrived>>

\* The operation is over, and so is the driver's use of its memory.
Release == io' = NoIo /\ buffer' = "free" /\ UNCHANGED handle

\* overlapped_io starts an operation on an open handle.
Begin(op, data) ==
  /\ step = "idle" /\ result = NoResult /\ handle = "open"
  /\ step' = "waiting" /\ buffer' = "held"
  /\ io' = [state |-> "pending", op |-> op, data |-> data, bytes |-> <<>>]
  /\ UNCHANGED <<handle, result, line, arrived, told, doubt, gap>>

\* overlapped_io gives up at once: the handle is gone, the event cannot be
\* had, or the operation is refused.
Refuse(op) ==
  /\ step = "idle" /\ result = NoResult
  /\ result' = [op |-> op, outcome |-> IF handle = "open" THEN "failed" ELSE "unavailable",
                bytes |-> <<>>]
  /\ doubt' = (doubt \/ op = "write")
  /\ UNCHANGED <<handle, step, io, buffer, line, arrived, told, gap>>

\* The driver ends the operation: done, failed, or aborted when it was asked to
\* cancel or the handle was closed.  Any first part of the bytes has moved.
DriverEnds ==
  /\ io.state \in {"pending", "cancelled"}
  /\ \E state \in {"done", "failed"} \cup IF io.state = "cancelled" THEN {"aborted"} ELSE {},
        moved \in Beginnings(IF io.op = "write" THEN io.data ELSE line) :
       /\ io' = IF step = "idle" THEN NoIo ELSE [io EXCEPT !.state = state, !.bytes = moved]
       /\ IF io.op = "write"
          THEN arrived' = arrived \o moved /\ UNCHANGED <<line, gap>>
          ELSE /\ line' = SubSeq(line, Len(moved) + 1, Len(line))
               /\ gap' = (gap \/ (moved # <<>> /\ (state # "done" \/ step = "idle")))
               /\ UNCHANGED arrived
  /\ UNCHANGED <<handle, step, buffer, result, told, doubt>>

\* GetOverlappedResultEx returns within the timeout: an error of the wait is
\* the operation's own.
WaitEnds ==
  /\ step = "waiting" /\ io.state \in {"done", "failed"}
  /\ Return(IF io.state = "done" THEN Counted ELSE "failed")
  /\ Release /\ UNCHANGED gap

\* GetOverlappedResultEx times out.
WaitTimesOut ==
  /\ step = "waiting" /\ io.state = "pending"
  /\ step' = "cancelling"
  /\ UNCHANGED <<handle, io, buffer, result, line, arrived, told, doubt, gap>>

\* Mutant: the pending operation is dropped with its memory.
FreeStalledIo == handle' = "closed" /\ buffer' = "free" /\ io' = [io EXCEPT !.state = "cancelled"]

\* abandon_stalled_io: the handle is closed, which asks for cancellation once
\* more, and the memory is never given back.
AbandonStalledIo ==
  handle' = "closed" /\ buffer' = "leaked" /\ io' = [io EXCEPT !.state = "cancelled"]

\* CancelIoEx: the driver is asked, or completion has won the race
\* (ERROR_NOT_FOUND), and a bounded wait for the end follows.
Cancel ==
  /\ step = "cancelling" /\ step' = "cleaning"
  /\ io' = IF io.state = "pending" THEN [io EXCEPT !.state = "cancelled"] ELSE io
  /\ UNCHANGED <<handle, buffer, result, line, arrived, told, doubt, gap>>

\* CancelIoEx fails for another reason.
CancelFails ==
  /\ step = "cancelling" /\ io.state = "pending"
  /\ Return("failed") /\ AbandonStalledIo /\ UNCHANGED gap

\* The cancelled operation has ended within the cleanup wait.  Even one that
\* completed is reported as timed out, and what it read is dropped.
CleanupEnds ==
  /\ step = "cleaning" /\ io.state \in {"done", "aborted", "failed"}
  /\ Return(IF io.state = "failed" THEN "failed" ELSE "timeout")
  /\ gap' = (gap \/ (io.op = "read" /\ io.bytes # <<>>))
  /\ Release

\* Mutant: the wait for a cancelled operation has no limit.
WaitForever == FALSE

\* The cleanup wait times out too: the operation is abandoned.
CleanupTimesOut ==
  /\ step = "cleaning" /\ io.state = "cancelled"
  /\ Return("timeout") /\ AbandonStalledIo /\ UNCHANGED gap

\* What the transport does by itself in a call.
TransportStep ==
  WaitEnds \/ WaitTimesOut \/ Cancel \/ CancelFails \/ CleanupEnds \/ CleanupTimesOut

\* close and Drop: the handle is taken whether or not closing it succeeds.
CloseHandle ==
  /\ step = "idle" /\ result = NoResult /\ handle = "open" /\ handle' = "closed"
  /\ UNCHANGED <<step, io, buffer, result, line, arrived, told, doubt, gap>>
=============================================================================
