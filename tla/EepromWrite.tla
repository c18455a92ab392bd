---------------------------- MODULE EepromWrite ----------------------------
(***************************************************************************)
(* One persistent EEPROM operation, from the caller's list of updates to   *)
(* the report (reink-app prepare_eeprom_write, write_new_binary_file and   *)
(* apply_eeprom_write over reink-core write_eeprom_with_originals), and    *)
(* the printer it talks to.                                                *)
(*                                                                         *)
(* The control channel is first-in first-out both ways and keeps no        *)
(* request identifiers: a request that timed out leaves its reply behind   *)
(* for the next request to take.  The printer may refuse a write it made,  *)
(* acknowledge one it did not make, garble a reply or never send it; when  *)
(* it does report a byte, the byte is right.  The host may crash anywhere. *)
(*                                                                         *)
(* The options are those apply_eeprom_write passes, the only caller:       *)
(* verify_read_back and atomic are both set.                               *)
(***************************************************************************)
EXTENDS Integers, Sequences, FiniteSets

CONSTANTS
    MemoryLow, MemoryHigh,   \* the model's EEPROM range
    Values,                  \* values of a byte
    UpdateLists              \* the lists a caller may pass

ASSUME RangeAssumption ==
    MemoryLow \in Nat /\ MemoryHigh \in Nat /\ MemoryLow <= MemoryHigh
ASSUME UpdatesAssumption == UpdateLists \subseteq Seq(Nat \X Values)

Addresses == MemoryLow..MemoryHigh
Images == [Addresses -> Values]

Requests == [op : {"read", "write"}, addr : Addresses, value : Values]
Replies == [kind : {"OK", "EE", "bad"}, addr : Addresses, value : Values]
Persisting == {"absent", "created", "written", "synced"}
Talking == {"dump", "write", "rollback"}
Phases == Talking \cup {"validate", "persist", "done", "crashed"}
Reports == {"none", "ok", "rolled back", "rollback failed", "refused"}

VARIABLES
    eeprom,     \* the printer's bytes
    requests,   \* on their way to the printer
    replies,    \* on their way to the host
    updates,    \* the caller's list of <<address, value>>
    phase,      \* where the operation stands
    image,      \* EepromImage.bytes read so far
    file,       \* the backup file: how much of it would survive a crash
    index,      \* position in updates
    op,         \* the request the running byte needs next
    waiting,    \* is that request sent?
    errors,     \* rollback_errors: addresses whose restoration failed
    report,     \* what the caller is told
    original    \* history: the bytes before the operation

printer == <<eeprom, requests, replies>>
host == <<updates, phase, image, file, index, op, waiting, errors, report>>
vars == <<printer, host, original>>

Init ==
    /\ eeprom \in Images /\ original = eeprom
    /\ requests = <<>> /\ replies = <<>>
    /\ updates \in UpdateLists
    /\ phase = "validate" /\ image = <<>>
    /\ file \in {"absent", "foreign"}   \* foreign: the path is taken
    /\ index = 1 /\ op = "write" /\ waiting = FALSE
    /\ errors = {} /\ report = "none"

-----------------------------------------------------------------------------
(* Preparing: validate, read the whole range.                              *)

\* validate_eeprom_updates.
ValidMutant(list) == list # <<>>   \* Mutant: addresses are not compared with the range.
Valid(list) ==
    /\ list # <<>>
    /\ \A i \in DOMAIN list : list[i][1] \in Addresses
    /\ \A i, j \in DOMAIN list : list[i][1] = list[j][1] => i = j

Finish(what) == phase' = "done" /\ report' = what /\ waiting' = FALSE

Prepare ==
    /\ phase = "validate"
    /\ IF Valid(updates)
       THEN phase' = "dump" /\ op' = "read" /\ UNCHANGED <<report, waiting>>
       ELSE Finish("refused") /\ UNCHANGED op
    /\ UNCHANGED <<printer, updates, image, file, index, errors, original>>

\* Value of the backup at an address.
Saved(a) == image[a - MemoryLow + 1]

-----------------------------------------------------------------------------
(* write_new_binary_file: create_new, write_all, sync_all, and the sync of *)
(* the parent directory.  A failure leaves the file as it is.              *)

AfterFile(f) == CASE f = "absent" -> "created" [] f = "created" -> "written"
                  [] f = "written" -> "synced" [] f = "synced" -> "durable"

PersistedMutant(f) == f = "synced"   \* Mutant: the directory is not synced.
Persisted(f) == f = "durable"

Persist ==
    /\ phase = "persist" /\ file \in Persisting
    /\ file' = AfterFile(file)
    /\ IF Persisted(file') THEN phase' = "write" /\ op' = "write"
                           ELSE UNCHANGED <<phase, op>>
    /\ UNCHANGED <<printer, updates, image, index, waiting, errors, report, original>>

PersistFails ==
    /\ phase = "persist"
    /\ Finish("refused")
    /\ UNCHANGED <<printer, updates, image, file, index, op, errors, original>>

-----------------------------------------------------------------------------
(* One request and its reply.                                              *)

\* The byte the operation works on, and what a write of it writes.
Cursor == IF phase = "dump" THEN MemoryLow + Len(image) ELSE updates[index][1]
WrittenMutant == updates[index][2]   \* Mutant: the update's value is written back.
Written == IF phase = "rollback" THEN Saved(Cursor) ELSE updates[index][2]

AnyValue == CHOOSE v \in Values : TRUE   \* a read carries no value

Send ==
    /\ phase \in Talking /\ ~waiting
    /\ requests' = Append(requests,
          [op |-> op, addr |-> Cursor,
           value |-> IF op = "write" THEN Written ELSE AnyValue])
    /\ waiting' = TRUE
    /\ UNCHANGED <<eeprom, replies, updates, phase, image, file, index, op,
                   errors, report, original>>

\* The byte is done: the next one of the list, or the end.
Advance ==
    /\ op' = "write" /\ waiting' = FALSE
    /\ \/ /\ phase = "write" /\ index < Len(updates)
          /\ index' = index + 1 /\ UNCHANGED <<phase, report>>
       \/ /\ phase = "write" /\ index = Len(updates)
          /\ phase' = "done" /\ report' = "ok" /\ UNCHANGED index
       \/ /\ phase = "rollback" /\ index > 1
          /\ index' = index - 1 /\ UNCHANGED <<phase, report>>
       \/ /\ phase = "rollback" /\ index = 1
          /\ phase' = "done" /\ UNCHANGED index
          /\ report' = IF errors' = {} THEN "rolled back" ELSE "rollback failed"

\* A byte whose restoration failed is noted, and restoration goes on.
NotedMutant == errors   \* Mutant: the failure is swallowed.
Noted == errors \cup {Cursor}

\* The attempted bytes are those up to and including the failing one.
AttemptedMutant == IF index > 1 THEN index - 1 ELSE index   \* Mutant: excluding it.
Attempted == index

\* The request failed: not sent, not answered in time, answered badly.
Fail ==
    \/ phase = "dump" /\ Finish("refused") /\ UNCHANGED <<index, op, errors>>
    \/ /\ phase = "write"
       /\ phase' = "rollback" /\ op' = "write" /\ waiting' = FALSE
       /\ index' = Attempted
       /\ UNCHANGED <<errors, report>>
    \/ phase = "rollback" /\ errors' = Noted /\ Advance

RequestFails ==
    /\ phase \in Talking
    /\ Fail
    /\ UNCHANGED <<printer, updates, image, file, original>>

\* The reply the request expects: ":OK;" to a write, which names no address;
\* "EE:" with the address to a read; in a read-back the value as well.
AcceptsMutant(r) ==   \* Mutant: the value read back is not compared.
    IF op = "write" THEN r.kind = "OK" ELSE r.kind = "EE" /\ r.addr = Cursor
Accepts(r) ==
    IF op = "write" THEN r.kind = "OK"
    ELSE /\ r.kind = "EE" /\ r.addr = Cursor
         /\ phase # "dump" => r.value = Written

Accept(r) ==
    \/ /\ phase = "dump"
       /\ image' = Append(image, r.value) /\ waiting' = FALSE
       /\ phase' = IF Cursor = MemoryHigh THEN "persist" ELSE "dump"
       /\ UNCHANGED <<index, op, report>>
    \/ /\ phase # "dump" /\ op = "write"
       /\ op' = "read" /\ waiting' = FALSE
       /\ UNCHANGED <<phase, image, index, report>>
    \/ /\ phase # "dump" /\ op = "read"
       /\ Advance /\ UNCHANGED image

Receive ==
    /\ phase \in Talking /\ waiting /\ replies # <<>>
    /\ replies' = Tail(replies)
    /\ IF Accepts(Head(replies))
       THEN UNCHANGED errors /\ Accept(Head(replies))
       ELSE Fail /\ UNCHANGED image
    /\ UNCHANGED <<eeprom, requests, updates, file, original>>

-----------------------------------------------------------------------------
(* The printer, and crashes of the host.                                   *)

Reply(kind, r, v) == [kind |-> kind, addr |-> r.addr, value |-> v]

\* A write may be refused, made or both; a read reports the byte or nothing.
Answers(r) ==
    IF r.op = "write" THEN {Reply("OK", r, r.value), Reply("bad", r, r.value)}
    ELSE {Reply("EE", r, eeprom[r.addr]), Reply("bad", r, eeprom[r.addr])}

Execute ==
    LET r == Head(requests) IN
    /\ requests # <<>>
    /\ requests' = Tail(requests)
    /\ eeprom' \in IF r.op = "write" THEN {eeprom, [eeprom EXCEPT ![r.addr] = r.value]}
                   ELSE {eeprom}
    /\ \/ UNCHANGED replies
       \/ \E answer \in Answers(r) : replies' = Append(replies, answer)
    /\ UNCHANGED <<host, original>>

\* What a crash leaves of a file: the part that is not synced may be lost.
Survivors(f) == CASE f = "created" -> {"absent", "created"}
                  [] f = "written" -> {"absent", "created", "written"}
                  [] f = "synced" -> {"absent", "synced"}
                  [] OTHER -> {f}

Crash ==
    /\ phase \notin {"done", "crashed"}
    /\ phase' = "crashed" /\ waiting' = FALSE
    /\ file' \in Survivors(file)
    /\ UNCHANGED <<printer, updates, image, index, op, errors, report, original>>

Host == Prepare \/ Persist \/ PersistFails \/ Send \/ RequestFails \/ Receive

Over == phase \in {"done", "crashed"} /\ requests = <<>> /\ UNCHANGED vars

Next == Host \/ Execute \/ Crash \/ Over

Spec == Init /\ [][Next]_vars

-----------------------------------------------------------------------------
(* Properties.                                                             *)

\* The program's variables range over what the code's types and control
\* allow: the image never outgrows the model's range, the index stays in the
\* list, only rollback has errors, only a finished operation has a report.
TypeOK ==
    /\ eeprom \in Images /\ original \in Images
    /\ requests \in Seq(Requests) /\ replies \in Seq(Replies)
    /\ updates \in UpdateLists
    /\ phase \in Phases
    /\ image \in Seq(Values) /\ Len(image) <= MemoryHigh - MemoryLow + 1
    /\ file \in Persisting \cup {"durable", "foreign"}
    /\ index \in Nat \ {0} /\ index <= Len(updates) + 1
    /\ op \in {"read", "write"} /\ waiting \in BOOLEAN
    /\ errors \subseteq Addresses
    /\ report \in Reports /\ (report # "none" <=> phase = "done")

\* The image a list of updates asks for.
Target ==
    [a \in Addresses |->
        IF \E i \in DOMAIN updates : updates[i][1] = a
        THEN updates[CHOOSE i \in DOMAIN updates : updates[i][1] = a][2]
        ELSE original[a]]

\* Nothing on its way to the printer can still change a byte.
Settled == requests = <<>>

\* apply_eeprom_write returns Ok only when the printer holds exactly the
\* requested image, and nothing in flight can change it any more.
AppliedExactly == report = "ok" => eeprom = Target /\ Settled

\* "rollback completed for all attempted bytes" is reported only when the
\* printer holds what it held before the operation and no write is in
\* flight, whatever replies came late, were lost or belonged to another
\* request.
RollbackReportTrue == report = "rolled back" => eeprom = original /\ Settled

\* A rollback that failed names every byte that may be wrong: a byte it does
\* not name is as it was, and no write in flight reaches it.
ReportedPrecisely ==
    report = "rollback failed" =>
        \A a \in Addresses \ errors :
            /\ eeprom[a] = original[a]
            /\ \A i \in DOMAIN requests :
                  requests[i].op = "write" => requests[i].addr # a

\* Whenever a byte of the printer differs from what it was, or a write that
\* could change one is under way, a complete and true backup is durably on
\* disk: a crash at any moment loses nothing.
BackupCoversChange ==
    (eeprom # original \/ \E i \in DOMAIN requests : requests[i].op = "write")
        => /\ file = "durable"
           /\ Len(image) = MemoryHigh - MemoryLow + 1
           /\ \A a \in Addresses : Saved(a) = original[a]

\* The operation implements the abstract one: until the report bytes move
\* only between their old and their wanted value, and every report is true
\* and stays true.
Wanted == IF Valid(updates) THEN Target ELSE original
Suspect == IF phase = "crashed" THEN Addresses ELSE errors
Told ==
    IF phase = "crashed" THEN "crashed"
    ELSE CASE report = "none" -> "running"
           [] report = "rollback failed" -> "uncertain"
           [] OTHER -> report
Abstract == INSTANCE AtomicUpdate
            WITH wanted <- Wanted, report <- Told,
                 suspect <- IF Told \in {"crashed", "uncertain"} THEN Suspect ELSE {}
Implements == Abstract!Spec
=============================================================================
