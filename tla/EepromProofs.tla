---------------------------- MODULE EepromProofs ----------------------------
(* Theorems about the EEPROM operation, for every range, every set of      *)
(* values and every list of updates.                                       *)
EXTENDS EepromWrite, SequenceTheorems, TLAPS

Size == MemoryHigh - MemoryLow + 1

\* No byte has changed and no write is under way.
Untouched ==
    /\ eeprom = original
    /\ \A i \in DOMAIN requests : requests[i].op # "write"

\* A complete and true backup is durably on disk.
Covered ==
    /\ file = "durable"
    /\ Len(image) = Size
    /\ \A a \in Addresses : Saved(a) = original[a]

\* The backup comes before the first write.
BackupFirst ==
    /\ Untouched \/ Covered
    /\ phase \in {"validate", "dump", "persist"} => Untouched
    /\ phase \in {"write", "rollback"} => Covered
    /\ \A i \in DOMAIN image : image[i] = original[MemoryLow + i - 1]
    /\ phase \in {"validate", "dump"} => Len(image) < Size
    /\ phase = "persist" => Len(image) = Size
    /\ phase = "dump" =>
          \A i \in DOMAIN replies :
             replies[i].kind = "EE" => replies[i].value = original[replies[i].addr]

\* Only a good list is worked on, and within its bounds.
ListChecked ==
    /\ phase \in Talking \cup {"persist"} => Valid(updates) /\ index <= Len(updates)
    /\ phase \in {"validate", "dump", "persist"} => index = 1
    /\ phase = "dump" => op = "read"

\* Addresses of the first n updates.
Reached(n) == {updates[j][1] : j \in 1..n}

\* A byte that is as it was and that nothing under way will change.
Quiet(a) ==
    /\ eeprom[a] = original[a]
    /\ \A i \in DOMAIN requests : requests[i].op = "write" => requests[i].addr # a

\* Up to the first failure at most one request is under way, the running one.
InStep ==
    /\ phase \in {"validate", "persist"} =>
          ~waiting /\ requests = <<>> /\ replies = <<>>
    /\ phase \in {"dump", "write"} =>
        /\ ~waiting => requests = <<>> /\ replies = <<>>
        /\ requests = <<>> \/ replies = <<>>
        /\ Len(requests) <= 1 /\ Len(replies) <= 1
        /\ \A i \in DOMAIN requests : requests[i].op = op /\ requests[i].addr = Cursor
        /\ \A i \in DOMAIN replies : /\ replies[i].addr = Cursor
                                     /\ replies[i].kind # "bad" => (replies[i].kind = "EE" <=> op = "read")
                                     /\ replies[i].kind = "EE" => replies[i].value = eeprom[Cursor]

\* Forward, the bytes before the running one are written, those after it
\* are as they were.
WrittenSoFar ==
    phase = "write" =>
        /\ \A j \in 1..(index - 1) : eeprom[updates[j][1]] = updates[j][2]
        /\ \A a \in Addresses \ Reached(index) : eeprom[a] = original[a]

\* Reads of an address that are under way.
ReadsIn(a) == {i \in DOMAIN requests : requests[i].op = "read" /\ requests[i].addr = a}
ReadFrom(a) == {i \in DOMAIN replies : replies[i].kind = "EE" /\ replies[i].addr = a}

\* Why a late reply never passes for a fresh one.  Bytes still to be restored
\* have no read under way; the running byte's only old read is the first in
\* the queue, where the write's acknowledgement is expected and it is refused;
\* once a write of it is acknowledged none is left, and the read-back that
\* follows is the last request of all.
StaleFree(a) ==
    /\ a \in Reached(index - 1) => ReadsIn(a) = {} /\ ReadFrom(a) = {}
    /\ a = Cursor /\ op = "write" =>
          /\ ReadFrom(a) \subseteq {1} /\ ReadsIn(a) \subseteq {1}
          /\ ReadsIn(a) # {} => replies = <<>>
    /\ a = Cursor /\ op = "read" /\ ~waiting => ReadsIn(a) = {} /\ ReadFrom(a) = {}
    /\ a = Cursor /\ op = "read" /\ waiting =>
          /\ ReadsIn(a) \subseteq {Len(requests)}
          /\ \A i \in ReadFrom(a) : requests = <<>> /\ replies[i].value = eeprom[a]

NoStaleReadBack == phase = "rollback" => \A a \in Addresses : StaleFree(a)

\* Backward, every byte that restoration has passed or never had to reach is
\* quiet, or noted.
RestoredSoFar ==
    phase = "rollback" => \A a \in Addresses \ (errors \cup Reached(index)) : Quiet(a)

\* What the reports say.
Reported ==
    /\ phase \in {"validate", "dump", "persist", "write"} => errors = {}
    /\ AppliedExactly /\ RollbackReportTrue /\ ReportedPrecisely

IInv ==
    /\ TypeOK /\ ListChecked /\ BackupFirst
    /\ InStep /\ WrittenSoFar /\ NoStaleReadBack /\ RestoredSoFar /\ Reported

-----------------------------------------------------------------------------
(* Lemmas about the definitions.                                           *)

\* Append adds one index.
LEMMA AppendDomain ==
    ASSUME NEW S, NEW s \in Seq(S), NEW e \in S
    PROVE  /\ Append(s, e) \in Seq(S) /\ Len(Append(s, e)) = Len(s) + 1
           /\ Append(s, e) # <<>>
           /\ \A i \in DOMAIN Append(s, e) :
                 \/ i \in DOMAIN s /\ Append(s, e)[i] = s[i]
                 \/ i = Len(s) + 1 /\ Append(s, e)[i] = e
  OBVIOUS

\* Tail takes one index away.
LEMMA TailDomain ==
    ASSUME NEW S, NEW s \in Seq(S), s # <<>>
    PROVE  /\ Head(s) \in S /\ Head(s) = s[1] /\ 1 \in DOMAIN s
           /\ Tail(s) \in Seq(S) /\ Len(Tail(s)) = Len(s) - 1 /\ Len(s) \in Nat \ {0}
           /\ \A i \in DOMAIN Tail(s) : i \in Nat \ {0} /\ i + 1 \in DOMAIN s /\ Tail(s)[i] = s[i + 1]
  OBVIOUS

\* A sequence of length one has one index.
LEMMA LengthOne ==
    ASSUME NEW S, NEW s \in Seq(S)
    PROVE  /\ Len(s) \in Nat /\ DOMAIN s = 1..Len(s)
           /\ s = <<>> <=> Len(s) = 0
           /\ Len(s) <= 1 => DOMAIN s \subseteq {1}
  OBVIOUS

\* A member of a list of updates.
LEMMA UpdateType ==
    ASSUME TypeOK
    PROVE  /\ updates \in Seq(Nat \X Values) /\ Len(updates) \in Nat
           /\ \A j \in 1..Len(updates) : updates[j][1] \in Nat /\ updates[j][2] \in Values
           /\ Valid(updates) => \A j \in 1..Len(updates) : updates[j][1] \in Addresses
<1>1. updates \in Seq(Nat \X Values)
  BY UpdatesAssumption DEF TypeOK
<1>2. \A j \in 1..Len(updates) : updates[j] \in Nat \X Values
  BY <1>1, ElementOfSeq
<1> QED
  BY <1>1, <1>2 DEF Valid

\* The range is not empty, so there is a value to send with a read.
LEMMA Bounds ==
    /\ Size \in Nat \ {0} /\ MemoryLow \in Addresses
    /\ \A n \in 0..(Size - 1) : MemoryLow + n \in Addresses
    /\ \A a \in Addresses : a - MemoryLow + 1 \in 1..Size
<1>1. Size \in Nat \ {0}
  BY RangeAssumption DEF Size
<1>2. MemoryLow \in Addresses
  BY RangeAssumption DEF Addresses
<1>3. ASSUME NEW n \in 0..(Size - 1)
      PROVE  MemoryLow + n \in Addresses
  BY RangeAssumption DEF Addresses, Size
<1>4. ASSUME NEW a \in Addresses
      PROVE  a - MemoryLow + 1 \in 1..Size
  BY RangeAssumption DEF Addresses, Size
<1> QED
  BY <1>1, <1>2, <1>3, <1>4

\* Whatever a byte is overwritten with is a value.
LEMMA AnyValueType == TypeOK => AnyValue \in Values
<1> SUFFICES ASSUME TypeOK
             PROVE  AnyValue \in Values
  OBVIOUS
<1>1. eeprom[MemoryLow] \in Values
  BY Bounds DEF TypeOK, Images
<1> QED
  BY <1>1 DEF AnyValue

\* The running byte is in the range.
LEMMA CursorType ==
    ASSUME IInv, phase \in Talking
    PROVE  Cursor \in Addresses
<1>1. CASE phase = "dump"
  <2>1. Len(image) \in Nat /\ Len(image) < Size
    BY <1>1 DEF IInv, TypeOK, BackupFirst
  <2>2. Len(image) \in 0..(Size - 1)
    BY <2>1, Bounds
  <2> QED
    BY <1>1, <2>2, Bounds DEF Cursor
<1>2. CASE phase # "dump"
  <2>1. Valid(updates) /\ index \in 1..Len(updates)
    BY <1>2, UpdateType DEF IInv, ListChecked, TypeOK
  <2> QED
    BY <1>2, <2>1, UpdateType DEF Cursor, IInv
<1> QED
  BY <1>1, <1>2

\* No address is updated twice.
LEMMA CursorUnreached ==
    ASSUME TypeOK, ListChecked, phase \in {"write", "rollback"}
    PROVE  /\ Cursor \notin Reached(index - 1)
           /\ Reached(index) = Reached(index - 1) \cup {Cursor}
           /\ index \in 1..Len(updates) /\ Cursor = updates[index][1]
<1>1. Valid(updates) /\ index \in 1..Len(updates) /\ Cursor = updates[index][1]
  BY UpdateType DEF ListChecked, TypeOK, Talking, Cursor
<1>2. DOMAIN updates = 1..Len(updates) /\ Len(updates) \in Nat
  BY UpdateType
<1>3. \A j \in 1..(index - 1) : j \in DOMAIN updates /\ j # index
  BY <1>1, <1>2
<1>4. Cursor \notin Reached(index - 1)
  BY <1>1, <1>2, <1>3 DEF Valid, Reached
<1>5. 1..index = 1..(index - 1) \cup {index}
  BY <1>1, <1>2
<1> QED
  BY <1>1, <1>4, <1>5 DEF Reached

\* The value written is a byte, and in a rollback it is the original one.
LEMMA WrittenType ==
    ASSUME IInv, phase \in {"write", "rollback"}
    PROVE  /\ Written \in Values
           /\ phase = "rollback" => Written = original[Cursor]
           /\ phase = "write" => Written = updates[index][2]
<1>1. Cursor \in Addresses
  BY CursorType DEF Talking
<1>2. index \in 1..Len(updates)
  BY UpdateType DEF IInv, ListChecked, TypeOK, Talking
<1>3. Saved(Cursor) = original[Cursor] /\ original[Cursor] \in Values
  BY <1>1 DEF IInv, BackupFirst, Covered, TypeOK, Images
<1> QED
  BY <1>2, <1>3, UpdateType DEF Written, IInv

-----------------------------------------------------------------------------
(* The initial states and the steps that leave the queues alone.           *)

\* A new session satisfies the invariant.
LEMMA InitInv == Init => IInv
<1> SUFFICES ASSUME Init
             PROVE  IInv
  OBVIOUS
<1>1. TypeOK
  <2>1. updates \in Seq(Nat \X Values) /\ Len(updates) \in Nat
    BY UpdatesAssumption DEF Init
  <2>2. Len(image) <= MemoryHigh - MemoryLow + 1 /\ image \in Seq(Values)
    BY Bounds DEF Init, Size
  <2>3. requests \in Seq(Requests) /\ replies \in Seq(Replies)
    BY DEF Init
  <2>4. index \in Nat \ {0} /\ index <= Len(updates) + 1
    BY <2>1 DEF Init
  <2>5. phase \in Phases /\ report \in Reports /\ (report # "none" <=> phase = "done")
    BY DEF Init, Phases, Reports
  <2>6. file \in Persisting \cup {"durable", "foreign"}
    BY DEF Init, Persisting
  <2> QED
    BY <2>2, <2>3, <2>4, <2>5, <2>6 DEF Init, TypeOK
<1>2. BackupFirst
  <2>1. Untouched
    BY DEF Init, Untouched
  <2>2. DOMAIN image = {} /\ Len(image) < Size
    BY Bounds DEF Init
  <2> QED
    BY <2>1, <2>2 DEF Init, BackupFirst
<1> QED
  BY <1>1, <1>2 DEF Init, IInv, ListChecked, InStep, WrittenSoFar, NoStaleReadBack,
     RestoredSoFar, Reported, AppliedExactly, RollbackReportTrue, ReportedPrecisely, Talking

\* Reading the originals keeps the invariant.
LEMMA PrepareInv == IInv /\ Prepare => IInv'
<1> SUFFICES ASSUME IInv, Prepare
             PROVE  IInv'
  OBVIOUS
<1>1. /\ phase = "validate" /\ report = "none" /\ errors = {}
      /\ UNCHANGED <<eeprom, requests, replies, updates, image, file, index, errors, original>>
      /\ \/ phase' = "dump" /\ op' = "read" /\ UNCHANGED <<report, waiting>> /\ Valid(updates)
         \/ phase' = "done" /\ report' = "refused" /\ waiting' = FALSE /\ UNCHANGED op
  BY DEF Prepare, Finish, IInv, TypeOK, Reported, printer, Phases, Talking, Reports
<1>2. TypeOK'
  BY <1>1 DEF IInv, TypeOK, Phases, Talking, Reports
<1>3. BackupFirst'
  <2>1. replies = <<>> /\ Untouched
    BY <1>1 DEF IInv, InStep, BackupFirst
  <2> QED
    BY <1>1, <2>1 DEF IInv, BackupFirst, Untouched
<1>4. ListChecked'
  <2>1. updates # <<>> /\ Len(updates) \in Nat /\ updates \in Seq(Nat \X Values) => 1 <= Len(updates)
    OBVIOUS
  <2> QED
    BY <1>1, <2>1, UpdateType DEF IInv, ListChecked, Valid, Talking
<1>5. InStep'
  BY <1>1 DEF IInv, InStep
<1> QED
  BY <1>1, <1>2, <1>3, <1>4, <1>5
     DEF IInv, WrittenSoFar, NoStaleReadBack, RestoredSoFar, Reported, AppliedExactly,
         RollbackReportTrue, ReportedPrecisely

\* Persisting the backup keeps the invariant.
LEMMA PersistInv == IInv /\ Persist => IInv'
<1> SUFFICES ASSUME IInv, Persist
             PROVE  IInv'
  OBVIOUS
<1>1. /\ phase = "persist" /\ report = "none" /\ errors = {} /\ index = 1
      /\ UNCHANGED <<eeprom, requests, replies, updates, image, index, waiting,
                     errors, report, original>>
      /\ file' \in Persisting \cup {"durable"}
      /\ \/ file' = "durable" /\ phase' = "write" /\ op' = "write"
         \/ UNCHANGED <<phase, op>>
  BY DEF Persist, Persisted, AfterFile, Persisting, IInv, TypeOK, Reported, ListChecked,
         printer, Phases, Talking, Reports
<1>2. TypeOK'
  BY <1>1 DEF IInv, TypeOK, Phases, Talking, Reports
<1>3. ListChecked'
  BY <1>1 DEF IInv, ListChecked, Talking
<1>4. Untouched' /\ Len(image) = Size
  BY <1>1 DEF IInv, BackupFirst, Untouched
<1>5. BackupFirst'
  <2>1. ASSUME NEW a \in Addresses
        PROVE  Saved(a) = original[a]
    <3>1. a - MemoryLow + 1 \in DOMAIN image
      BY <1>4, Bounds DEF IInv, TypeOK
    <3>2. MemoryLow + (a - MemoryLow + 1) - 1 = a
      BY RangeAssumption DEF Addresses
    <3> QED
      BY <3>1, <3>2 DEF IInv, BackupFirst, Saved
  <2>2. file' = "durable" => Covered'
    BY <1>1, <1>4, <2>1 DEF Covered, Saved
  <2> QED
    BY <1>1, <1>4, <2>2 DEF IInv, BackupFirst
<1>6. InStep'
  BY <1>1 DEF IInv, InStep
<1>7. WrittenSoFar'
  BY <1>1, <1>4 DEF WrittenSoFar, Untouched
<1> QED
  BY <1>1, <1>2, <1>3, <1>5, <1>6, <1>7
     DEF IInv, NoStaleReadBack, RestoredSoFar, Reported, AppliedExactly,
         RollbackReportTrue, ReportedPrecisely

\* An operation that ends before the first write, or by a crash.
LEMMA StoppedInv ==
    ASSUME IInv,
           UNCHANGED <<eeprom, requests, updates, image, index, op, errors, original>>,
           replies' \in Seq(Replies), waiting' = FALSE,
           \/ phase' = "crashed" /\ report' = report /\ phase \notin {"done", "crashed"}
              /\ file' \in Survivors(file)
           \/ phase' = "done" /\ report' = "refused" /\ file' = file
    PROVE  IInv'
<1>1. file' \in Persisting \cup {"durable", "foreign"} /\ (file = "durable" => file' = "durable")
  BY DEF Survivors, Persisting, IInv, TypeOK
<1>2. TypeOK'
  BY <1>1 DEF IInv, TypeOK, Phases, Reports
<1>3. BackupFirst'
  BY <1>1 DEF IInv, BackupFirst, Untouched, Covered, Saved
<1>4. report' = "none" \/ report' = "refused"
  BY DEF IInv, TypeOK
<1> QED
  BY <1>2, <1>3, <1>4
     DEF IInv, ListChecked, InStep, WrittenSoFar, NoStaleReadBack, RestoredSoFar, Reported,
         AppliedExactly, RollbackReportTrue, ReportedPrecisely, Talking

\* A backup that cannot be persisted keeps the invariant.
LEMMA PersistFailsInv == IInv /\ PersistFails => IInv'
  BY StoppedInv DEF PersistFails, Finish, printer, IInv, TypeOK

\* A crash keeps the invariant.
LEMMA CrashInv == IInv /\ Crash => IInv'
  BY StoppedInv DEF Crash, printer, IInv, TypeOK

-----------------------------------------------------------------------------
(* Sending a request.                                                      *)

\* Sending a request keeps the invariant.
LEMMA SendInv == IInv /\ Send => IInv'
<1> SUFFICES ASSUME IInv, Send
             PROVE  IInv'
  OBVIOUS
<1> DEFINE r == [op |-> op, addr |-> Cursor,
                 value |-> IF op = "write" THEN Written ELSE AnyValue]
<1>1. /\ phase \in Talking /\ waiting = FALSE /\ waiting' = TRUE
      /\ requests' = Append(requests, r)
      /\ UNCHANGED <<eeprom, replies, updates, phase, image, file, index, op,
                     errors, report, original>>
  BY DEF Send, IInv, TypeOK
<1>2. phase = "dump" => op = "read"
  BY DEF IInv, ListChecked
<1>3. r \in Requests
  <2>1. Cursor \in Addresses
    BY <1>1, CursorType
  <2>2. op = "write" => Written \in Values
    BY <1>1, <1>2, WrittenType DEF Talking
  <2>3. AnyValue \in Values
    BY AnyValueType DEF IInv
  <2> QED
    BY <2>1, <2>2, <2>3 DEF Requests, IInv, TypeOK
<1>4. requests \in Seq(Requests) /\ replies \in Seq(Replies)
  BY DEF IInv, TypeOK
<1>5. r.op = op /\ r.addr = Cursor
  OBVIOUS
<1> HIDE DEF r
<1>6. /\ requests' \in Seq(Requests) /\ Len(requests') = Len(requests) + 1 /\ requests' # <<>>
      /\ \A i \in DOMAIN requests' : \/ i \in DOMAIN requests /\ requests'[i] = requests[i]
                                     \/ i = Len(requests) + 1 /\ requests'[i] = r
  BY <1>1, <1>3, <1>4, AppendDomain
<1>7. TypeOK'
  BY <1>1, <1>6 DEF IInv, TypeOK
<1>8. ListChecked' /\ WrittenSoFar'
  BY <1>1 DEF IInv, ListChecked, WrittenSoFar, Reached
<1>9. Cursor' = Cursor
  BY <1>1 DEF Cursor
<1>10. BackupFirst'
  <2>1. phase = "dump" => Untouched'
    BY <1>1, <1>2, <1>5, <1>6 DEF IInv, BackupFirst, Untouched
  <2>2. Covered => Covered'
    BY <1>1 DEF Covered, Saved
  <2> QED
    BY <1>1, <2>1, <2>2 DEF IInv, BackupFirst, Talking
<1>11. InStep'
  BY <1>1, <1>4, <1>5, <1>6, <1>9, LengthOne DEF IInv, InStep, Talking
<1>12. NoStaleReadBack'
  <2> SUFFICES ASSUME phase = "rollback", NEW a \in Addresses
               PROVE  StaleFree(a)'
    BY <1>1 DEF NoStaleReadBack
  <2>1. StaleFree(a)
    BY DEF IInv, NoStaleReadBack
  <2>2. ReadFrom(a)' = ReadFrom(a)
    BY <1>1 DEF ReadFrom
  <2>3. a # Cursor => ReadsIn(a)' \subseteq ReadsIn(a)
    BY <1>5, <1>6 DEF ReadsIn
  <2>4. op = "write" => ReadsIn(a)' \subseteq ReadsIn(a)
    BY <1>5, <1>6 DEF ReadsIn
  <2>5. ReadsIn(a) = {} => ReadsIn(a)' \subseteq {Len(requests')}
    BY <1>6 DEF ReadsIn
  <2>6. a \in Reached(index - 1) => a # Cursor
    BY CursorUnreached DEF IInv
  <2>7. Reached(index - 1)' = Reached(index - 1)
    BY <1>1 DEF Reached
  <2> QED
    BY <1>1, <1>9, <2>1, <2>2, <2>3, <2>4, <2>5, <2>6, <2>7 DEF StaleFree
<1>13. RestoredSoFar'
  <2> SUFFICES ASSUME phase = "rollback", NEW a \in Addresses \ (errors \cup Reached(index))
               PROVE  Quiet(a)'
    BY <1>1 DEF RestoredSoFar, Reached
  <2>1. Cursor # a
    BY UpdateType DEF Cursor, Reached, IInv, ListChecked, TypeOK, Talking
  <2>2. Quiet(a)
    BY DEF IInv, RestoredSoFar
  <2> QED
    BY <1>1, <1>5, <1>6, <2>1, <2>2 DEF Quiet
<1>14. Reported'
  <2>1. report = "none"
    BY <1>1 DEF IInv, TypeOK, Talking
  <2> QED
    BY <1>1, <2>1 DEF IInv, Reported, AppliedExactly, RollbackReportTrue, ReportedPrecisely
<1> QED
  BY <1>7, <1>8, <1>10, <1>11, <1>12, <1>13, <1>14 DEF IInv

-----------------------------------------------------------------------------
(* The printer executes a request.                                         *)

\* What the printer does with the request at the head of the queue.
Executed(r) ==
    /\ r \in Requests /\ requests # <<>> /\ r = requests[1] /\ 1 \in DOMAIN requests
    /\ requests' \in Seq(Requests) /\ Len(requests') = Len(requests) - 1
    /\ \A i \in DOMAIN requests' :
          i \in Nat \ {0} /\ i + 1 \in DOMAIN requests /\ requests'[i] = requests[i + 1]
    /\ replies' \in Seq(Replies)
    /\ \/ replies' = replies
       \/ /\ Len(replies') = Len(replies) + 1
          /\ \A i \in DOMAIN replies' :
                \/ i \in DOMAIN replies /\ replies'[i] = replies[i]
                \/ /\ i = Len(replies) + 1 /\ replies'[i].addr = r.addr
                   /\ replies'[i].kind # "bad" => (replies'[i].kind = "EE" <=> r.op = "read")
                   /\ replies'[i].kind = "EE" => replies'[i].value = eeprom[r.addr]
    /\ eeprom' \in Images
    /\ r.op = "read" => eeprom' = eeprom
    /\ \A a \in Addresses : eeprom'[a] # eeprom[a] => r.op = "write" /\ a = r.addr
    /\ UNCHANGED <<host, original>>

\* What a request the printer executes changes.
LEMMA ExecuteEffect ==
    ASSUME TypeOK, Execute
    PROVE  \E r : Executed(r)
<1> DEFINE r == Head(requests)
<1>1. requests # <<>> /\ requests \in Seq(Requests) /\ replies \in Seq(Replies) /\ eeprom \in Images
  BY DEF Execute, TypeOK
<1>2. /\ r \in Requests /\ r = requests[1] /\ 1 \in DOMAIN requests
      /\ Tail(requests) \in Seq(Requests) /\ Len(Tail(requests)) = Len(requests) - 1
      /\ \A i \in DOMAIN Tail(requests) : i \in Nat \ {0} /\ i + 1 \in DOMAIN requests
                                          /\ Tail(requests)[i] = requests[i + 1]
  BY <1>1, TailDomain
<1>3. requests' = Tail(requests) /\ UNCHANGED <<host, original>>
  BY DEF Execute
<1> HIDE DEF r
<1>5. r.addr \in Addresses /\ r.value \in Values /\ eeprom[r.addr] \in Values
  BY <1>1, <1>2 DEF Requests, Images
<1>6. /\ eeprom' \in Images /\ (r.op = "read" => eeprom' = eeprom)
      /\ \A a \in Addresses : eeprom'[a] # eeprom[a] => r.op = "write" /\ a = r.addr
  <2>1. eeprom' \in IF r.op = "write" THEN {eeprom, [eeprom EXCEPT ![r.addr] = r.value]} ELSE {eeprom}
    BY DEF Execute, r
  <2> QED
    BY <1>1, <1>5, <2>1 DEF Images
<1>7. CASE replies' = replies
  BY <1>1, <1>2, <1>3, <1>6, <1>7 DEF Executed
<1>8. CASE \E answer \in Answers(r) : replies' = Append(replies, answer)
  <2>1. PICK answer \in Answers(r) : replies' = Append(replies, answer)
    BY <1>8
  <2>2. /\ answer \in Replies /\ answer.addr = r.addr
        /\ answer.kind # "bad" => (answer.kind = "EE" <=> r.op = "read")
        /\ answer.kind = "EE" => answer.value = eeprom[r.addr]
    BY <1>5, <2>1, <1>2 DEF Answers, Reply, Replies, Requests
  <2>3. /\ replies' \in Seq(Replies) /\ Len(replies') = Len(replies) + 1
        /\ \A i \in DOMAIN replies' :
              \/ i \in DOMAIN replies /\ replies'[i] = replies[i]
              \/ i = Len(replies) + 1 /\ replies'[i] = answer
    BY <1>1, <2>1, <2>2, AppendDomain
  <2> QED
    BY <1>1, <1>2, <1>3, <1>6, <2>2, <2>3 DEF Executed
<1> QED
  BY <1>7, <1>8 DEF Execute, r

\* Executing a request keeps the invariant.
LEMMA ExecuteInv == IInv /\ Execute => IInv'
<1> SUFFICES ASSUME IInv, Execute
             PROVE  IInv'
  OBVIOUS
<1>1. PICK r : Executed(r)
  BY ExecuteEffect DEF IInv
<1>2. /\ requests \in Seq(Requests) /\ replies \in Seq(Replies) /\ Len(replies) \in Nat
      /\ Len(requests) \in Nat \ {0} /\ DOMAIN replies = 1..Len(replies)
      /\ DOMAIN requests = 1..Len(requests) /\ eeprom \in Images /\ original \in Images
  BY <1>1, LengthOne DEF IInv, TypeOK, Executed
<1>3. /\ UNCHANGED <<updates, phase, image, file, index, op, waiting, errors, report, original>>
      /\ Cursor' = Cursor /\ \A n : Reached(n)' = Reached(n)
  BY <1>1 DEF Executed, host, Cursor, Reached
<1>4. \A a \in Addresses : Quiet(a) => Quiet(a)'
  BY <1>1 DEF Executed, Quiet
<1>5. TypeOK' /\ ListChecked'
  BY <1>1, <1>3 DEF IInv, TypeOK, ListChecked, Executed
<1>6. BackupFirst'
  <2>1. Untouched => Untouched'
    BY <1>1, <1>2 DEF Untouched, Executed, Images
  <2>2. Covered => Covered'
    BY <1>3 DEF Covered, Saved
  <2>3. phase = "dump" => \A i \in DOMAIN replies' :
                             replies'[i].kind = "EE" => replies'[i].value = original[replies'[i].addr]
    BY <1>1 DEF Executed, IInv, BackupFirst, Untouched
  <2> QED
    BY <1>3, <2>1, <2>2, <2>3 DEF IInv, BackupFirst
<1>7. InStep'
  <2> SUFFICES ASSUME phase \in {"dump", "write"}
               PROVE  InStep'
    BY <1>1, <1>3 DEF IInv, InStep, Executed
  <2>1. requests' = <<>> /\ replies = <<>> /\ Len(replies) = 0 /\ r.op = op /\ r.addr = Cursor
    <3>1. Len(requests) <= 1 /\ replies = <<>> /\ r.op = op /\ r.addr = Cursor
      BY <1>1, <1>2 DEF IInv, InStep, Executed
    <3>2. Len(requests') = 0 /\ requests' \in Seq(Requests)
      BY <1>1, <1>2, <3>1 DEF Executed
    <3> QED
      BY <3>1, <3>2, EmptySeq
  <2>2. waiting
    BY <1>1 DEF IInv, InStep, Executed
  <2>3. op = "read" => eeprom' = eeprom
    BY <1>1, <2>1 DEF Executed
  <2>4. /\ Len(replies') <= 1
        /\ \A i \in DOMAIN replies' :
              /\ replies'[i].addr = Cursor
              /\ replies'[i].kind # "bad" => (replies'[i].kind = "EE" <=> op = "read")
              /\ replies'[i].kind = "EE" => replies'[i].value = eeprom[Cursor]
    BY <1>1, <2>1 DEF Executed
  <2>5. op = "read" \/ \A i \in DOMAIN replies' : replies'[i].kind # "EE"
    BY <2>4
  <2>6. DOMAIN requests' = {} /\ Len(requests') <= 1
    BY <2>1
  <2> QED
    BY <1>3, <2>1, <2>2, <2>3, <2>4, <2>5, <2>6 DEF InStep
<1>8. WrittenSoFar'
  <2> SUFFICES ASSUME phase = "write"
               PROVE  WrittenSoFar'
    BY <1>3 DEF WrittenSoFar
  <2>1. \A a \in Addresses \ {Cursor} : eeprom'[a] = eeprom[a]
    BY <1>1, <1>2 DEF IInv, InStep, Executed
  <2>2. /\ Cursor \notin Reached(index - 1) /\ index \in 1..Len(updates)
        /\ Reached(index) = Reached(index - 1) \cup {Cursor}
    BY CursorUnreached DEF IInv
  <2>3. \A j \in 1..(index - 1) : updates[j][1] \in Addresses \ {Cursor}
    BY <2>2, UpdateType DEF Reached, IInv, ListChecked, Talking
  <2> QED
    BY <1>3, <2>1, <2>2, <2>3 DEF IInv, WrittenSoFar
<1>9. NoStaleReadBack'
  <2> SUFFICES ASSUME phase = "rollback", NEW a \in Addresses
               PROVE  StaleFree(a)'
    BY <1>3 DEF NoStaleReadBack
  <2>1. StaleFree(a)
    BY DEF IInv, NoStaleReadBack
  <2>2. \A i \in ReadsIn(a)' : i \in Nat \ {0} /\ i + 1 \in ReadsIn(a)
    BY <1>1 DEF ReadsIn, Executed
  <2>3. r.op = "read" /\ r.addr = a => 1 \in ReadsIn(a)
    BY <1>1 DEF ReadsIn, Executed
  <2>4. ASSUME NEW i \in ReadFrom(a)'
        PROVE  \/ i \in ReadFrom(a) /\ replies'[i] = replies[i]
               \/ /\ i = Len(replies) + 1 /\ 1 \in ReadsIn(a)
                  /\ replies'[i].value = eeprom[a] /\ eeprom' = eeprom
    BY <1>1, <2>3, <2>4 DEF ReadFrom, Executed
  <2>5. a \in Reached(index - 1) => ReadsIn(a)' = {} /\ ReadFrom(a)' = {}
    BY <2>1, <2>2, <2>4 DEF StaleFree
  <2>6. a = Cursor /\ op = "read" /\ ~waiting => ReadsIn(a)' = {} /\ ReadFrom(a)' = {}
    BY <2>1, <2>2, <2>4 DEF StaleFree
  <2>7. a = Cursor /\ op = "write" => ReadsIn(a)' = {} /\ ReadFrom(a)' \subseteq {1}
    <3> SUFFICES ASSUME a = Cursor, op = "write"
                 PROVE  ReadsIn(a)' = {} /\ ReadFrom(a)' \subseteq {1}
      OBVIOUS
    <3>1. ReadFrom(a) \subseteq {1} /\ ReadsIn(a) \subseteq {1} /\ (ReadsIn(a) # {} => replies = <<>>)
      BY <2>1 DEF StaleFree
    <3>2. ReadsIn(a)' = {}
      BY <2>2, <3>1
    <3>3. 1 \in ReadsIn(a) => Len(replies) + 1 = 1
      BY <1>2, <3>1, LengthOne
    <3> QED
      BY <2>4, <3>1, <3>2, <3>3
  <2>8. a = Cursor /\ op = "read" /\ waiting =>
           /\ ReadsIn(a)' \subseteq {Len(requests')}
           /\ \A i \in ReadFrom(a)' : requests' = <<>> /\ replies'[i].value = eeprom'[a]
    <3> SUFFICES ASSUME a = Cursor, op = "read", waiting
                 PROVE  /\ ReadsIn(a)' \subseteq {Len(requests')}
                        /\ \A i \in ReadFrom(a)' : requests' = <<>> /\ replies'[i].value = eeprom'[a]
      OBVIOUS
    <3>1. ReadsIn(a) \subseteq {Len(requests)} /\ ReadFrom(a) = {}
      BY <1>1, <2>1 DEF StaleFree, Executed
    <3>2. ReadsIn(a)' \subseteq {Len(requests')}
      BY <1>1, <1>2, <2>2, <3>1 DEF Executed
    <3>3. 1 \in ReadsIn(a) => requests' = <<>>
      <4>1. 1 \in ReadsIn(a) => Len(requests') = 0 /\ requests' \in Seq(Requests)
        BY <1>1, <1>2, <3>1 DEF Executed
      <4> QED
        BY <4>1, EmptySeq
    <3> QED
      BY <2>4, <3>1, <3>2, <3>3
  <2> QED
    BY <1>3, <2>5, <2>6, <2>7, <2>8 DEF StaleFree
<1>10. RestoredSoFar'
  BY <1>3, <1>4 DEF IInv, RestoredSoFar
<1>11. Reported'
  <2>1. report \in {"ok", "rolled back"} => requests = <<>>
    BY DEF IInv, Reported, AppliedExactly, RollbackReportTrue, Settled
  <2>2. report \notin {"ok", "rolled back"}
    BY <1>1, <2>1 DEF Executed
  <2>3. report = "rollback failed" => \A a \in Addresses \ errors : Quiet(a)
    BY DEF IInv, Reported, ReportedPrecisely, Quiet
  <2>4. report = "rollback failed" => \A a \in Addresses \ errors : Quiet(a)'
    BY <1>4, <2>3
  <2>5. ReportedPrecisely'
    BY <1>3, <2>4 DEF ReportedPrecisely, Quiet
  <2> QED
    BY <1>3, <2>2, <2>5 DEF IInv, Reported, AppliedExactly, RollbackReportTrue
<1> QED
  BY <1>5, <1>6, <1>7, <1>8, <1>9, <1>10, <1>11 DEF IInv

-----------------------------------------------------------------------------
(* The end of a request.                                                   *)

\* The request consumed the first reply, or none.
Consumed ==
    /\ replies' \in Seq(Replies)
    /\ \/ replies' = replies
       \/ /\ replies # <<>> /\ Len(replies') = Len(replies) - 1
          /\ \A i \in DOMAIN replies' :
                i \in Nat \ {0} /\ i + 1 \in DOMAIN replies /\ replies'[i] = replies[i + 1]

\* Restoration passes a byte: it is noted, or nothing is under way and it is
\* as it was.
LEMMA RestorationAdvances ==
    ASSUME IInv, phase = "rollback", Advance, Consumed,
           UNCHANGED <<eeprom, requests, updates, file, original, image>>,
           \/ errors' = errors \cup {Cursor}
           \/ errors' = errors /\ requests = <<>> /\ eeprom[Cursor] = original[Cursor]
    PROVE  IInv'
<1>1. /\ Cursor \in Addresses /\ Cursor \notin Reached(index - 1) /\ index \in 1..Len(updates)
      /\ Reached(index) = Reached(index - 1) \cup {Cursor} /\ Cursor = updates[index][1]
      /\ Len(updates) \in Nat /\ index \in Nat \ {0}
  BY CursorType, CursorUnreached, UpdateType DEF IInv, Talking, TypeOK
<1>2. /\ op' = "write" /\ waiting' = FALSE
      /\ \/ /\ index > 1 /\ index' = index - 1 /\ phase' = "rollback" /\ UNCHANGED report
         \/ /\ index = 1 /\ index' = 1 /\ phase' = "done"
            /\ report' = IF errors' = {} THEN "rolled back" ELSE "rollback failed"
  BY DEF Advance
<1>3. report = "none" /\ Valid(updates) /\ Covered
  BY DEF IInv, TypeOK, ListChecked, BackupFirst, Talking
<1>4. errors' \subseteq Addresses
  BY <1>1 DEF IInv, TypeOK
<1>13. index' \in 1..Len(updates)
  <2>1. index \in 1..Len(updates) /\ Len(updates) \in Nat
    BY <1>1
  <2>2. (index' = index - 1 /\ index > 1) \/ index' = 1
    BY <1>2
  <2> QED
    BY <2>1, <2>2
<1>14. index' \in Nat \ {0} /\ index' <= Len(updates) + 1 /\ index' <= Len(updates)
  <2>1. Len(updates) \in Nat
    BY <1>1
  <2> QED
    BY <1>13, <2>1
<1>5. TypeOK'
  <2>1. phase' \in Phases /\ report' \in Reports /\ (report' # "none" <=> phase' = "done")
    BY <1>2, <1>3 DEF Phases, Talking, Reports
  <2> QED
    BY <1>2, <1>4, <1>14, <2>1 DEF IInv, TypeOK, Consumed
<1>6. ListChecked'
  BY <1>2, <1>3, <1>14 DEF ListChecked
<1>7. BackupFirst'
  BY <1>2, <1>3 DEF IInv, BackupFirst, Covered, Saved
<1>8. InStep' /\ WrittenSoFar'
  BY <1>2 DEF InStep, WrittenSoFar
<1>9. NoStaleReadBack'
  <2> SUFFICES ASSUME phase' = "rollback", NEW a \in Addresses
               PROVE  StaleFree(a)'
    BY DEF NoStaleReadBack
  <2>1. index' = index - 1 /\ index - 1 \in 1..Len(updates)
    BY <1>1, <1>2
  <2>2. Cursor' = updates[index - 1][1]
    BY <2>1 DEF Cursor
  <2>3. Cursor' \in Reached(index - 1) /\ Reached(index - 1)' \subseteq Reached(index - 1)
    BY <1>1, <2>1, <2>2 DEF Reached
  <2>4. a \in Reached(index - 1) => ReadsIn(a)' = {} /\ ReadFrom(a)' = {}
    BY DEF IInv, NoStaleReadBack, StaleFree, Consumed, ReadsIn, ReadFrom
  <2> QED
    BY <1>2, <2>3, <2>4 DEF StaleFree
<1>10. \A a \in Addresses \ (errors' \cup Reached(index - 1)) : Quiet(a)'
  <2> SUFFICES ASSUME NEW a \in Addresses \ (errors' \cup Reached(index - 1))
               PROVE  Quiet(a)
    BY DEF Quiet
  <2>1. CASE a = Cursor
    <3>1. errors' = errors /\ requests = <<>> /\ eeprom[a] = original[a]
      BY <2>1
    <3> QED
      BY <3>1 DEF Quiet
  <2>2. CASE a # Cursor
    BY <1>1, <2>2 DEF IInv, RestoredSoFar
  <2> QED
    BY <2>1, <2>2
<1>11. RestoredSoFar'
  <2>1. phase' = "rollback" => index' = index - 1
    BY <1>2
  <2>2. phase' = "rollback" => Reached(index)' = Reached(index - 1)
    BY <2>1 DEF Reached
  <2> QED
    BY <1>10, <2>2 DEF RestoredSoFar
<1>12. Reported'
  <2>1. phase' # "done" => report' = "none"
    BY <1>2, <1>3
  <2>2. CASE phase' = "done"
    <3>1. report' = IF errors' = {} THEN "rolled back" ELSE "rollback failed"
      BY <1>2, <2>2
    <3>2. index = 1
      BY <1>2, <2>2
    <3>3. Reached(index - 1) = {}
      <4>1. \A j \in 1..(index - 1) : FALSE
        BY <3>2
      <4>2. \A a \in Reached(index - 1) : FALSE
        BY <4>1 DEF Reached
      <4> QED
        BY <4>2
    <3>4. \A a \in Addresses \ errors' : Quiet(a)'
      BY <1>10, <3>3
    <3>5. errors' = {} => requests' = <<>> /\ eeprom' = original'
      BY <3>4 DEF Quiet, IInv, TypeOK, Images
    <3> QED
      BY <2>2, <3>1, <3>4, <3>5 DEF Reported, AppliedExactly, RollbackReportTrue,
         ReportedPrecisely, Settled, Quiet
  <2> QED
    BY <1>2, <2>1, <2>2 DEF Reported, AppliedExactly, RollbackReportTrue, ReportedPrecisely
<1> QED
  BY <1>5, <1>6, <1>7, <1>8, <1>9, <1>11, <1>12 DEF IInv

\* A failed request ends the dump, begins restoration, or is noted by it.
LEMMA FailInv ==
    ASSUME IInv, phase \in Talking, Fail, Consumed,
           UNCHANGED <<eeprom, requests, updates, file, original, image>>
    PROVE  IInv'
<1>1. CASE phase = "dump"
  BY <1>1, StoppedInv DEF Fail, Finish, Consumed, IInv, ListChecked
<1>2. CASE phase = "rollback"
  BY <1>2, RestorationAdvances DEF Fail, Noted
<1>3. CASE phase = "write"
  <2>1. /\ phase' = "rollback" /\ op' = "write" /\ waiting' = FALSE
        /\ UNCHANGED <<index, errors, report>>
    BY <1>3 DEF Fail, Attempted
  <2>2. /\ Cursor \in Addresses /\ index \in 1..Len(updates) /\ Cursor = updates[index][1]
        /\ Cursor \notin Reached(index - 1) /\ Reached(index) = Reached(index - 1) \cup {Cursor}
    BY <1>3, CursorType, CursorUnreached DEF IInv, Talking
  <2>3. Cursor' = Cursor
    BY <1>3, <2>1 DEF Cursor
  <2>4. /\ requests = <<>> \/ replies = <<>>
        /\ DOMAIN requests \subseteq {1} /\ DOMAIN replies \subseteq {1}
        /\ \A i \in DOMAIN requests : requests[i].addr = Cursor
        /\ \A i \in DOMAIN replies : replies[i].addr = Cursor
        /\ requests \in Seq(Requests) /\ replies \in Seq(Replies)
    BY <1>3, LengthOne DEF IInv, InStep, TypeOK
  <2>5. DOMAIN replies' \subseteq {1} /\ \A i \in DOMAIN replies' : replies'[i].addr = Cursor
    BY <2>4, LengthOne DEF Consumed
  <2>6. requests # <<>> => replies' = <<>>
    <3>1. requests # <<>> => replies = <<>>
      BY <2>4
    <3> QED
      BY <3>1 DEF Consumed
  <2>7. TypeOK'
    BY <1>3, <2>1 DEF IInv, TypeOK, Consumed, Phases, Talking
  <2>8. ListChecked' /\ BackupFirst' /\ InStep' /\ WrittenSoFar'
    BY <1>3, <2>1 DEF IInv, ListChecked, BackupFirst, Untouched, Covered, Saved, InStep,
                      WrittenSoFar, Talking
  <2>9. NoStaleReadBack'
    <3> SUFFICES ASSUME NEW a \in Addresses
                 PROVE  StaleFree(a)'
      BY DEF NoStaleReadBack
    <3>1. a # Cursor => ReadsIn(a)' = {} /\ ReadFrom(a)' = {}
      BY <2>4, <2>5 DEF ReadsIn, ReadFrom
    <3>2. /\ ReadsIn(a)' \subseteq {1} /\ ReadFrom(a)' \subseteq {1}
          /\ ReadsIn(a)' # {} => replies' = <<>>
      BY <2>4, <2>5, <2>6 DEF ReadsIn, ReadFrom
    <3>3. Reached(index - 1)' = Reached(index - 1)
      BY <2>1 DEF Reached
    <3> QED
      BY <2>1, <2>2, <2>3, <3>1, <3>2, <3>3 DEF StaleFree
  <2>10. RestoredSoFar'
    <3>1. \A a \in Addresses \ Reached(index) : Quiet(a)'
      BY <1>3, <2>2, <2>4 DEF IInv, WrittenSoFar, Quiet
    <3>2. Reached(index)' = Reached(index)
      BY <2>1 DEF Reached
    <3> QED
      BY <3>1, <3>2 DEF RestoredSoFar
  <2>11. Reported'
    <3>1. report = "none"
      BY <1>3 DEF IInv, TypeOK
    <3> QED
      BY <2>1, <3>1 DEF Reported, AppliedExactly, RollbackReportTrue, ReportedPrecisely
  <2> QED
    BY <2>7, <2>8, <2>9, <2>10, <2>11 DEF IInv
<1> QED
  BY <1>1, <1>2, <1>3 DEF Talking

\* An accepted reply.
Taken(r) ==
    /\ phase \in Talking /\ waiting
    /\ replies # <<>> /\ 1 \in DOMAIN replies /\ r = replies[1] /\ r \in Replies
    /\ Consumed /\ Len(replies') = Len(replies) - 1
    /\ Accepts(r) /\ Accept(r)
    /\ UNCHANGED <<eeprom, requests, updates, file, errors, original>>

\* Up to the first failure, the reply was all there was under way.
LEMMA TakenInStep ==
    ASSUME IInv, phase \in {"dump", "write"}, NEW r, Taken(r)
    PROVE  /\ requests = <<>> /\ replies' = <<>> /\ r.addr = Cursor
           /\ r.kind = "EE" => r.value = eeprom[Cursor]
<1>1. /\ requests = <<>> /\ Len(replies) <= 1 /\ r.addr = Cursor
      /\ r.kind = "EE" => r.value = eeprom[Cursor]
  BY DEF Taken, IInv, InStep
<1>2. Len(replies) \in Nat /\ replies' \in Seq(Replies) /\ Len(replies') = Len(replies) - 1
  BY LengthOne DEF Taken, Consumed, IInv, TypeOK
<1>3. replies' = <<>>
  BY <1>1, <1>2
<1> QED
  BY <1>1, <1>3

\* A reply to a dump keeps the invariant.
LEMMA DumpedInv ==
    ASSUME IInv, phase = "dump", NEW r, Taken(r)
    PROVE  IInv'
<1>1. /\ image' = Append(image, r.value) /\ waiting' = FALSE
      /\ phase' = IF Cursor = MemoryHigh THEN "persist" ELSE "dump"
      /\ UNCHANGED <<index, op, report, eeprom, requests, updates, file, errors, original>>
  BY DEF Taken, Accept
<1>2. op = "read" /\ r.kind = "EE" /\ r.value \in Values
  BY DEF Taken, Accepts, Replies, IInv, ListChecked
<1>3. requests = <<>> /\ replies' = <<>> /\ r.value = eeprom[Cursor]
  BY <1>2, TakenInStep
<1>4. Untouched /\ Untouched'
  BY <1>1 DEF IInv, BackupFirst, Untouched
<1>5. Cursor = MemoryLow + Len(image) /\ r.value = original[Cursor]
  BY <1>3, <1>4 DEF Cursor, Untouched
<1>6. /\ image \in Seq(Values) /\ Len(image) \in Nat /\ Len(image) < Size
  BY DEF IInv, TypeOK, BackupFirst
<1>7. /\ image' \in Seq(Values) /\ Len(image') = Len(image) + 1
      /\ \A i \in DOMAIN image' : \/ i \in DOMAIN image /\ image'[i] = image[i]
                                  \/ i = Len(image) + 1 /\ image'[i] = r.value
  BY <1>1, <1>2, <1>6, AppendDomain
<1>8. \A i \in DOMAIN image' : image'[i] = original[MemoryLow + i - 1]
  <2>1. MemoryLow + (Len(image) + 1) - 1 = Cursor
    BY <1>5, <1>6, RangeAssumption
  <2> QED
    BY <1>5, <1>7, <2>1 DEF IInv, BackupFirst
<1>9. /\ Len(image') <= Size
      /\ phase' = "persist" => Len(image') = Size
      /\ phase' = "dump" => Len(image') < Size
  <2>1. CASE Cursor = MemoryHigh
    <3>1. Len(image') = Size
      BY <1>5, <1>6, <1>7, <2>1, RangeAssumption DEF Size
    <3> QED
      BY <1>1, <2>1, <3>1, Bounds
  <2>2. CASE Cursor # MemoryHigh
    <3>1. Len(image') < Size
      BY <1>5, <1>6, <1>7, <2>2, RangeAssumption DEF Size
    <3> QED
      BY <1>1, <1>6, <1>7, <2>2, <3>1, Bounds
  <2> QED
    BY <2>1, <2>2
<1>10. phase' \in {"dump", "persist"} /\ report = "none"
  BY <1>1 DEF IInv, TypeOK
<1>11. TypeOK'
  <2>1. phase' \in Phases /\ report' \in Reports /\ (report' # "none" <=> phase' = "done")
    BY <1>1, <1>10 DEF Phases, Talking, Reports
  <2>2. image' \in Seq(Values) /\ Len(image') <= MemoryHigh - MemoryLow + 1
    BY <1>7, <1>9 DEF Size
  <2>3. replies' \in Seq(Replies)
    BY DEF Taken, Consumed
  <2> QED
    BY <1>1, <2>1, <2>2, <2>3 DEF IInv, TypeOK
<1>12. BackupFirst'
  BY <1>1, <1>3, <1>4, <1>8, <1>9, <1>10 DEF BackupFirst
<1>13. ListChecked' /\ InStep'
  BY <1>1, <1>3, <1>10 DEF IInv, ListChecked, InStep, Talking
<1> QED
  BY <1>1, <1>10, <1>11, <1>12, <1>13
     DEF IInv, WrittenSoFar, NoStaleReadBack, RestoredSoFar, Reported, AppliedExactly,
         RollbackReportTrue, ReportedPrecisely

\* A write is acknowledged: the read-back is next, and no read of the byte is
\* under way.
LEMMA AcknowledgedInv ==
    ASSUME IInv, phase \in {"write", "rollback"}, op = "write", NEW r, Taken(r)
    PROVE  IInv'
<1>1. /\ op' = "read" /\ waiting' = FALSE
      /\ UNCHANGED <<phase, image, index, report, eeprom, requests, updates, file, errors, original>>
  BY DEF Taken, Accept
<1>2. r.kind = "OK"
  BY DEF Taken, Accepts
<1>3. /\ Cursor' = Cursor /\ \A n : Reached(n)' = Reached(n)
      /\ \A a \in Addresses : Quiet(a) => Quiet(a)'
  BY <1>1 DEF Cursor, Reached, Quiet
<1>4. report = "none"
  BY DEF IInv, TypeOK
<1>5. TypeOK'
  BY <1>1 DEF IInv, TypeOK, Taken, Consumed
<1>6. ListChecked' /\ BackupFirst'
  BY <1>1 DEF IInv, ListChecked, BackupFirst, Untouched, Covered, Saved
<1>7. InStep'
  BY <1>1, TakenInStep DEF IInv, InStep
<1>8. WrittenSoFar' /\ RestoredSoFar' /\ Reported'
  <2>1. WrittenSoFar'
    BY <1>1, <1>3 DEF IInv, WrittenSoFar
  <2>2. RestoredSoFar'
    BY <1>1, <1>3 DEF IInv, RestoredSoFar
  <2>3. Reported'
    BY <1>1, <1>4 DEF IInv, Reported, AppliedExactly, RollbackReportTrue, ReportedPrecisely
  <2> QED
    BY <2>1, <2>2, <2>3
<1>9. NoStaleReadBack'
  <2> SUFFICES ASSUME phase = "rollback", NEW a \in Addresses
               PROVE  StaleFree(a)'
    BY <1>1 DEF NoStaleReadBack
  <2>1. StaleFree(a)
    BY DEF IInv, NoStaleReadBack
  <2>2. a \in Reached(index - 1) => ReadsIn(a) = {} /\ ReadFrom(a) = {}
    BY <2>1 DEF StaleFree
  <2>3. 1 \notin ReadFrom(a)
    BY <1>2 DEF ReadFrom, Taken
  <2>4. a = Cursor => ReadsIn(a) = {} /\ ReadFrom(a) = {}
    BY <2>1, <2>3 DEF StaleFree, Taken
  <2>5. ReadsIn(a)' = ReadsIn(a)
    BY <1>1 DEF ReadsIn
  <2>6. ReadFrom(a) = {} => ReadFrom(a)' = {}
    BY DEF ReadFrom, Taken, Consumed
  <2> QED
    BY <1>1, <1>3, <2>2, <2>4, <2>5, <2>6 DEF StaleFree
<1> QED
  BY <1>5, <1>6, <1>7, <1>8, <1>9 DEF IInv

\* A forward byte is verified: it is written, and nothing is under way.
LEMMA VerifiedInv ==
    ASSUME IInv, phase = "write", op = "read", NEW r, Taken(r)
    PROVE  IInv'
<1>1. /\ op' = "write" /\ waiting' = FALSE
      /\ UNCHANGED <<image, eeprom, requests, updates, file, errors, original>>
      /\ \/ index < Len(updates) /\ index' = index + 1 /\ phase' = "write" /\ report' = report
         \/ index = Len(updates) /\ phase' = "done" /\ report' = "ok" /\ index' = index
  BY DEF Taken, Accept, Advance
<1>2. r.kind = "EE" /\ r.value = Written
  BY DEF Taken, Accepts
<1>3. requests = <<>> /\ replies' = <<>> /\ eeprom[Cursor] = Written
  BY <1>2, TakenInStep
<1>4. /\ Cursor \notin Reached(index - 1) /\ Reached(index) = Reached(index - 1) \cup {Cursor}
      /\ index \in 1..Len(updates) /\ Cursor = updates[index][1] /\ Written = updates[index][2]
  BY CursorUnreached, WrittenType DEF IInv
<1>5. Len(updates) \in Nat /\ index \in Nat \ {0} /\ report = "none" /\ DOMAIN updates = 1..Len(updates)
  BY <1>4, UpdateType DEF IInv, TypeOK
<1>6. \A j \in 1..index : eeprom[updates[j][1]] = updates[j][2]
  <2> SUFFICES ASSUME NEW j \in 1..index
               PROVE  eeprom[updates[j][1]] = updates[j][2]
    OBVIOUS
  <2>1. j = index \/ j \in 1..(index - 1)
    BY <1>5
  <2> QED
    BY <1>3, <1>4, <2>1 DEF IInv, WrittenSoFar
<1>7. \A a \in Addresses \ Reached(index) : eeprom[a] = original[a]
  BY DEF IInv, WrittenSoFar
<1>14. index' \in Nat \ {0} /\ index' <= Len(updates) + 1 /\ index' <= Len(updates)
  <2>1. index \in 1..Len(updates) /\ Len(updates) \in Nat
    BY <1>4, <1>5
  <2>2. (index' = index + 1 /\ index < Len(updates)) \/ index' = index
    BY <1>1
  <2>3. index' \in 1..Len(updates)
    BY <2>1, <2>2
  <2> QED
    BY <2>1, <2>3
<1>8. TypeOK'
  <2>2. phase' \in Phases /\ report' \in Reports /\ (report' # "none" <=> phase' = "done")
    BY <1>1, <1>5 DEF Phases, Talking, Reports
  <2>3. replies' \in Seq(Replies)
    BY DEF Taken, Consumed
  <2> QED
    BY <1>1, <1>14, <2>2, <2>3 DEF IInv, TypeOK
<1>9. ListChecked'
  BY <1>1, <1>14 DEF IInv, ListChecked, Talking
<1>10. BackupFirst' /\ InStep'
  BY <1>1, <1>3 DEF IInv, BackupFirst, Untouched, Covered, Saved, InStep
<1>11. WrittenSoFar'
  <2> SUFFICES ASSUME phase' = "write"
               PROVE  WrittenSoFar'
    BY DEF WrittenSoFar
  <2>1. index' = index + 1 /\ (index + 1) - 1 = index
    BY <1>1, <1>5
  <2>2. 1..index \subseteq 1..(index + 1)
    BY <1>5
  <2>3. Reached(index) \subseteq Reached(index)'
    BY <1>1, <2>1, <2>2 DEF Reached
  <2> QED
    BY <1>1, <1>6, <1>7, <2>1, <2>3 DEF WrittenSoFar
<1>12. phase' = "done" => eeprom = Target
  <2> SUFFICES ASSUME phase' = "done"
               PROVE  eeprom = Target
    OBVIOUS
  <2>1. index = Len(updates)
    BY <1>1
  <2>2. ASSUME NEW a \in Addresses
        PROVE  eeprom[a] = Target[a]
    <3>1. CASE \E i \in DOMAIN updates : updates[i][1] = a
      <4> DEFINE k == CHOOSE i \in DOMAIN updates : updates[i][1] = a
      <4>1. k \in DOMAIN updates /\ updates[k][1] = a
        BY <3>1
      <4>2. eeprom[a] = updates[k][2]
        BY <1>5, <1>6, <2>1, <4>1
      <4> QED
        BY <3>1, <4>2 DEF Target
    <3>2. CASE ~\E i \in DOMAIN updates : updates[i][1] = a
      <4>1. a \notin Reached(index)
        BY <1>5, <2>1, <3>2 DEF Reached
      <4> QED
        BY <1>7, <3>2, <4>1 DEF Target
    <3> QED
      BY <3>1, <3>2
  <2> QED
    BY <2>2 DEF IInv, TypeOK, Images, Target
<1>13. Reported'
  <2>1. Target' = Target
    BY <1>1 DEF Target
  <2>2. AppliedExactly'
    BY <1>1, <1>3, <1>5, <1>12, <2>1 DEF AppliedExactly, Settled
  <2> QED
    BY <1>1, <1>5, <2>2 DEF IInv, Reported, RollbackReportTrue, ReportedPrecisely
<1> QED
  BY <1>1, <1>8, <1>9, <1>10, <1>11, <1>13 DEF IInv, NoStaleReadBack, RestoredSoFar

\* A restored byte is verified: the reply is that of the last request of all.
LEMMA RestoredInv ==
    ASSUME IInv, phase = "rollback", op = "read", NEW r, Taken(r)
    PROVE  IInv'
<1>1. r.kind = "EE" /\ r.addr = Cursor /\ r.value = original[Cursor]
  BY WrittenType DEF Taken, Accepts
<1>2. 1 \in ReadFrom(Cursor)
  BY <1>1 DEF ReadFrom, Taken
<1>3. Cursor \in Addresses
  BY CursorType DEF Talking
<1>4. requests = <<>> /\ r.value = eeprom[Cursor]
  BY <1>2, <1>3 DEF IInv, NoStaleReadBack, StaleFree, Taken
<1>5. Advance /\ UNCHANGED image
  BY DEF Taken, Accept
<1> QED
  BY <1>1, <1>4, <1>5, RestorationAdvances DEF Taken

\* Receiving a reply keeps the invariant.
LEMMA ReceiveInv == IInv /\ Receive => IInv'
<1> SUFFICES ASSUME IInv, Receive
             PROVE  IInv'
  OBVIOUS
<1>1. /\ phase \in Talking /\ waiting /\ replies # <<>> /\ replies' = Tail(replies)
      /\ UNCHANGED <<eeprom, requests, updates, file, original>>
      /\ replies \in Seq(Replies)
  BY DEF Receive, IInv, TypeOK
<1>2. /\ Consumed /\ Len(replies') = Len(replies) - 1
      /\ Head(replies) \in Replies /\ Head(replies) = replies[1] /\ 1 \in DOMAIN replies
  BY <1>1, TailDomain DEF Consumed
<1> DEFINE r == Head(replies)
<1>3. CASE Accepts(r)
  <2>1. Taken(r)
    BY <1>1, <1>2, <1>3 DEF Receive, Taken
  <2>2. op \in {"read", "write"}
    BY DEF IInv, TypeOK
  <2> QED
    BY <1>1, <2>1, <2>2, DumpedInv, AcknowledgedInv, VerifiedInv, RestoredInv DEF Talking
<1>4. CASE ~Accepts(r)
  BY <1>1, <1>2, <1>4, FailInv DEF Receive
<1> QED
  BY <1>3, <1>4

\* A request that fails keeps the invariant.
LEMMA RequestFailsInv == IInv /\ RequestFails => IInv'
  BY FailInv DEF RequestFails, Consumed, printer, IInv, TypeOK

-----------------------------------------------------------------------------
(* The theorems.                                                           *)

\* Stuttering keeps the invariant.
LEMMA StutterInv == IInv /\ UNCHANGED vars => IInv'
<1> SUFFICES ASSUME IInv, UNCHANGED vars
             PROVE  IInv'
  OBVIOUS
<1> USE DEF vars, printer, host
<1>1. TypeOK' /\ ListChecked'
  BY DEF IInv, TypeOK, ListChecked
<1>2. BackupFirst'
  BY DEF IInv, BackupFirst, Untouched, Covered, Saved
<1>3. /\ Cursor' = Cursor /\ Target' = Target /\ \A n : Reached(n)' = Reached(n)
      /\ \A a : ReadsIn(a)' = ReadsIn(a) /\ ReadFrom(a)' = ReadFrom(a)
  BY DEF Cursor, Reached, ReadsIn, ReadFrom, Target
<1>4. InStep'
  BY <1>3 DEF IInv, InStep
<1>5. WrittenSoFar'
  BY <1>3 DEF IInv, WrittenSoFar
<1>6. NoStaleReadBack'
  <2>1. \A a \in Addresses : StaleFree(a) => StaleFree(a)'
    BY <1>3 DEF StaleFree
  <2> QED
    BY <2>1 DEF IInv, NoStaleReadBack
<1>7. RestoredSoFar'
  <2>1. \A a \in Addresses : Quiet(a) => Quiet(a)'
    BY DEF Quiet
  <2> QED
    BY <1>3, <2>1 DEF IInv, RestoredSoFar
<1>8. Reported'
  BY <1>3 DEF IInv, Reported, AppliedExactly, RollbackReportTrue, ReportedPrecisely, Settled
<1> QED
  BY <1>1, <1>2, <1>4, <1>5, <1>6, <1>7, <1>8 DEF IInv

\* Every step keeps the invariant.
LEMMA IInvInductive == IInv /\ [Next]_vars => IInv'
  BY PrepareInv, PersistInv, PersistFailsInv, SendInv, RequestFailsInv, ReceiveInv,
     ExecuteInv, CrashInv, StutterInv DEF Next, Host, Over

\* The invariant holds always.
LEMMA Invariance == Spec => []IInv
<1>1. Init => IInv
  BY InitInv
<1>2. IInv /\ [Next]_vars => IInv'
  BY IInvInductive
<1> QED
  BY <1>1, <1>2, PTL DEF Spec

\* Every variable of the operation stays in its type, the image
\* and the list position in their bounds.
THEOREM TypeCorrect == Spec => []TypeOK
<1>1. IInv => TypeOK
  BY DEF IInv
<1> QED
  BY <1>1, Invariance, PTL

\* Whenever a byte has changed or may change, a complete and true backup is
\* durable: prepare, write_new_binary_file and apply are in the order that
\* survives a crash at any step.
THEOREM BackupDurable == Spec => []BackupCoversChange
<1>1. IInv => BackupCoversChange
  BY DEF IInv, BackupFirst, Untouched, Covered, BackupCoversChange, Size
<1> QED
  BY <1>1, Invariance, PTL

\* Ok means the requested image, exactly and finally.
THEOREM OkIsExact == Spec => []AppliedExactly
<1>1. IInv => AppliedExactly
  BY DEF IInv, Reported
<1> QED
  BY <1>1, Invariance, PTL

\* "rollback completed for all attempted bytes" means the original image,
\* whatever the printer stored, refused, answered late or never.
THEOREM RollbackIsTrue == Spec => []RollbackReportTrue
<1>1. IInv => RollbackReportTrue
  BY DEF IInv, Reported
<1> QED
  BY <1>1, Invariance, PTL

\* A rollback that failed names every byte that may be wrong.
THEOREM FailureIsPrecise == Spec => []ReportedPrecisely
<1>1. IInv => ReportedPrecisely
  BY DEF IInv, Reported
<1> QED
  BY <1>1, Invariance, PTL

\* Every byte, and every byte a write under way would make, is the old or the
\* wanted one.
OldOrWanted(a, v) == v = original[a] \/ v = Wanted[a]
Between ==
    /\ \A a \in Addresses : OldOrWanted(a, eeprom[a])
    /\ \A i \in DOMAIN requests :
          requests[i].op = "write" => OldOrWanted(requests[i].addr, requests[i].value)

\* What the reports rest on, besides Reported: a refused operation has sent no
\* write, only a good list is reported written, and a failed rollback names a byte.
Grounded ==
    /\ report = "refused" => Untouched
    /\ report = "ok" => Valid(updates)
    /\ report = "rollback failed" => errors # {}

RInv == IInv /\ Between /\ Grounded

-----------------------------------------------------------------------------
(* The extra invariant.                                                    *)

\* The list and the bytes found never change, so the wanted image does not.
LEMMA WantedFixed ==
    ASSUME UNCHANGED <<updates, original>>
    PROVE  /\ UNCHANGED Wanted /\ Valid(updates)' = Valid(updates)
           /\ \A a, v : OldOrWanted(a, v)' = OldOrWanted(a, v)
<1>1. UNCHANGED Target
  BY DEF Target
<1>2. Valid(updates)' = Valid(updates)
  OBVIOUS
<1> QED
  BY <1>1, <1>2 DEF Wanted, OldOrWanted

\* No step of a session changes the list of writes.
LEMMA ListFixed == [Next]_vars => UNCHANGED <<updates, original>>
  BY DEF Next, vars, printer, host, Host, Over, Prepare, Persist, PersistFails, Send,
         RequestFails, Receive, Execute, Crash

\* The wanted image is an image, and has the value of each update.
LEMMA WantedType ==
    ASSUME TypeOK
    PROVE  /\ Wanted \in Images
           /\ Valid(updates) => \A j \in 1..Len(updates) : Wanted[updates[j][1]] = updates[j][2]
<1>1. DOMAIN updates = 1..Len(updates)
  BY UpdateType
<1>2. ASSUME NEW a \in Addresses
      PROVE  Target[a] \in Values
  <2>1. CASE \E i \in DOMAIN updates : updates[i][1] = a
    <3> DEFINE k == CHOOSE i \in DOMAIN updates : updates[i][1] = a
    <3>1. k \in DOMAIN updates /\ Target[a] = updates[k][2]
      BY <2>1 DEF Target
    <3> QED
      BY <1>1, <3>1, UpdateType
  <2>2. CASE ~\E i \in DOMAIN updates : updates[i][1] = a
    <3>1. Target[a] = original[a]
      BY <2>2 DEF Target
    <3> QED
      BY <3>1 DEF TypeOK, Images
  <2> QED
    BY <2>1, <2>2
<1>3. Target \in Images
  BY <1>2 DEF Target, Images
<1>4. ASSUME Valid(updates), NEW j \in 1..Len(updates)
      PROVE  Target[updates[j][1]] = updates[j][2]
  <2> DEFINE a == updates[j][1]
             k == CHOOSE i \in DOMAIN updates : updates[i][1] = a
  <2>1. a \in Addresses /\ \E i \in DOMAIN updates : updates[i][1] = a
    BY <1>1, <1>4, UpdateType
  <2>2. k \in DOMAIN updates /\ updates[k][1] = a
    BY <2>1
  <2>3. k = j
    BY <1>1, <1>4, <2>2 DEF Valid
  <2> QED
    BY <2>1, <2>3 DEF Target
<1> QED
  BY <1>3, <1>4 DEF Wanted, TypeOK

\* What is written is the wanted byte on the way forward, the old one in a rollback.
LEMMA WrittenBetween ==
    ASSUME IInv, phase \in {"write", "rollback"}
    PROVE  OldOrWanted(Cursor, Written)
<1>1. CASE phase = "rollback"
  BY <1>1, WrittenType DEF OldOrWanted
<1>2. CASE phase = "write"
  <2>1. Valid(updates) /\ index \in 1..Len(updates) /\ Cursor = updates[index][1]
    BY <1>2, CursorUnreached DEF IInv, ListChecked, Talking
  <2>2. Written = updates[index][2]
    BY <1>2, WrittenType
  <2> QED
    BY <2>1, <2>2, WantedType DEF OldOrWanted, IInv
<1> QED
  BY <1>1, <1>2

\* A new session has changed nothing yet.
LEMMA InitBetween == Init => Between /\ Grounded
  BY DEF Init, Between, OldOrWanted, Grounded

\* Sending changes nothing at the printer.
LEMMA SendBetween == IInv /\ Between /\ Send => Between'
<1> SUFFICES ASSUME IInv, Between, Send
             PROVE  Between'
  OBVIOUS
<1> DEFINE r == [op |-> op, addr |-> Cursor,
                 value |-> IF op = "write" THEN Written ELSE AnyValue]
<1>1. /\ phase \in Talking /\ requests' = Append(requests, r)
      /\ UNCHANGED <<eeprom, updates, original>>
  BY DEF Send
<1>2. requests \in Seq(Requests) /\ requests' \in Seq(Requests)
  BY SendInv DEF IInv, TypeOK
<1>3. \A i \in DOMAIN requests' : \/ i \in DOMAIN requests /\ requests'[i] = requests[i]
                                  \/ requests'[i] = r
  BY <1>1, <1>2
<1>4. op = "write" => OldOrWanted(Cursor, Written)
  BY <1>1, WrittenBetween DEF IInv, ListChecked, Talking
<1>5. \A a, v : OldOrWanted(a, v)' = OldOrWanted(a, v)
  BY <1>1, WantedFixed
<1> HIDE DEF r
<1>6. r.op = "write" => OldOrWanted(r.addr, r.value)
  BY <1>4 DEF r
<1>7. ASSUME NEW i \in DOMAIN requests', requests'[i].op = "write"
      PROVE  OldOrWanted(requests'[i].addr, requests'[i].value)
  BY <1>3, <1>6, <1>7 DEF Between
<1>8. \A a \in Addresses : OldOrWanted(a, eeprom'[a])
  BY <1>1 DEF Between
<1> QED
  BY <1>5, <1>7, <1>8 DEF Between, OldOrWanted

\* A write the printer executes changes one byte, from original to requested
\* or back.
LEMMA ExecuteBetween == IInv /\ Between /\ Execute => Between'
<1> SUFFICES ASSUME IInv, Between, Execute
             PROVE  Between'
  OBVIOUS
<1> DEFINE r == Head(requests)
<1>1. /\ requests # <<>> /\ requests' = Tail(requests) /\ UNCHANGED <<updates, original>>
      /\ \/ eeprom' = eeprom
         \/ r.op = "write" /\ eeprom' = [eeprom EXCEPT ![r.addr] = r.value]
  BY DEF Execute, host
<1>2. requests \in Seq(Requests) /\ eeprom \in Images
  BY DEF IInv, TypeOK
<1>3. /\ r \in Requests /\ r = requests[1] /\ 1 \in DOMAIN requests
      /\ \A i \in DOMAIN requests' : i + 1 \in DOMAIN requests /\ requests'[i] = requests[i + 1]
  BY <1>1, <1>2, TailDomain
<1> HIDE DEF r
<1>4. r.op = "write" => OldOrWanted(r.addr, r.value)
  BY <1>3 DEF Between
<1>5. \A a \in Addresses : OldOrWanted(a, eeprom'[a])
  <2>1. CASE eeprom' = eeprom
    BY <2>1 DEF Between
  <2>2. CASE r.op = "write" /\ eeprom' = [eeprom EXCEPT ![r.addr] = r.value]
    <3> SUFFICES ASSUME NEW a \in Addresses
                 PROVE  OldOrWanted(a, eeprom'[a])
      OBVIOUS
    <3>1. CASE a = r.addr
      <4>1. eeprom'[a] = r.value
        BY <1>2, <2>2, <3>1 DEF Images
      <4> QED
        BY <1>4, <2>2, <3>1, <4>1
    <3>2. CASE a # r.addr
      <4>1. eeprom'[a] = eeprom[a]
        BY <1>2, <2>2, <3>2 DEF Images
      <4> QED
        BY <4>1 DEF Between
    <3> QED
      BY <3>1, <3>2
  <2> QED
    BY <1>1, <2>1, <2>2
<1>6. \A i \in DOMAIN requests' :
         requests'[i].op = "write" => OldOrWanted(requests'[i].addr, requests'[i].value)
  BY <1>3 DEF Between
<1>7. \A a, v : OldOrWanted(a, v)' = OldOrWanted(a, v)
  BY <1>1, WantedFixed
<1> QED
  BY <1>5, <1>6, <1>7 DEF Between, OldOrWanted

\* The other steps leave the printer's bytes and the writes alone.
LEMMA BetweenInductive == IInv /\ Between /\ [Next]_vars => Between'
<1> SUFFICES ASSUME IInv, Between, [Next]_vars
             PROVE  Between'
  OBVIOUS
<1>1. ASSUME UNCHANGED <<eeprom, requests>>
      PROVE  Between'
  <2>1. \A a, v : OldOrWanted(a, v)' = OldOrWanted(a, v)
    BY ListFixed, WantedFixed
  <2> QED
    BY <1>1, <2>1 DEF Between, OldOrWanted
<1>2. CASE Prepare \/ Persist \/ PersistFails \/ RequestFails \/ Receive \/ Crash \/ Over
           \/ UNCHANGED vars
  BY <1>1, <1>2 DEF Prepare, Persist, PersistFails, RequestFails, Receive, Crash, Over,
                    vars, printer
<1> QED
  BY <1>2, SendBetween, ExecuteBetween DEF Next, Host

\* Only the step that ends the operation makes a report, and after it only
\* the printer moves: a refused operation has left it no write.
LEMMA GroundedInductive == IInv /\ Grounded /\ [Next]_vars => Grounded'
<1> SUFFICES ASSUME IInv, Grounded, [Next]_vars
             PROVE  Grounded'
  OBVIOUS
<1>1. ASSUME UNCHANGED <<eeprom, requests, updates, original, errors, report>>
      PROVE  Grounded'
  BY <1>1 DEF Grounded, Untouched
<1>2. ASSUME report' = "none"
      PROVE  Grounded'
  BY <1>2 DEF Grounded
<1>3. ASSUME report' = "refused", phase \in {"validate", "dump", "persist"},
             UNCHANGED <<eeprom, requests, original>>
      PROVE  Grounded'
  BY <1>3 DEF Grounded, IInv, BackupFirst, Untouched
<1>4. phase # "done" <=> report = "none"
  BY DEF IInv, TypeOK
<1>5. CASE Prepare
  <2>1. phase = "validate" /\ UNCHANGED <<eeprom, requests, original>>
    BY <1>5 DEF Prepare, printer
  <2>2. report' = "refused" \/ report' = report
    BY <1>5 DEF Prepare, Finish
  <2> QED
    BY <1>2, <1>3, <1>4, <2>1, <2>2
<1>6. CASE PersistFails
  BY <1>3, <1>6 DEF PersistFails, Finish, printer
<1>7. ASSUME Fail \/ (Accept(Head(replies)) /\ UNCHANGED errors), phase \in Talking,
             UNCHANGED <<eeprom, requests, updates, original>>
      PROVE  Grounded'
  <2>1. CASE phase = "dump"
    <3>1. report' = "refused" \/ report' = report
      BY <1>7, <2>1 DEF Fail, Accept, Finish
    <3> QED
      BY <1>2, <1>3, <1>4, <1>7, <2>1, <3>1
  <2>2. CASE phase # "dump"
    <3>1. report = "none" /\ Valid(updates)
      BY <1>4, <1>7 DEF IInv, ListChecked, Talking
    <3>2. \/ report' = report
          \/ report' = "ok"
          \/ report' = "rolled back"
          \/ report' = "rollback failed" /\ errors' # {}
      BY <1>7, <2>2 DEF Fail, Accept, Advance
    <3>3. Valid(updates)' = Valid(updates)
      BY <1>7, WantedFixed
    <3> QED
      BY <3>1, <3>2, <3>3 DEF Grounded
  <2> QED
    BY <2>1, <2>2
<1>8. CASE RequestFails
  <2>1. phase \in Talking /\ Fail /\ UNCHANGED <<eeprom, requests, updates, original>>
    BY <1>8 DEF RequestFails, printer
  <2> QED
    BY <1>7, <2>1
<1>9. CASE Receive
  <2>1. /\ phase \in Talking /\ UNCHANGED <<eeprom, requests, updates, original>>
        /\ Fail \/ (Accept(Head(replies)) /\ UNCHANGED errors)
    BY <1>9 DEF Receive
  <2> QED
    BY <1>7, <2>1
<1>10. CASE Execute
  <2>1. UNCHANGED <<report, errors, updates, original>>
    BY <1>10 DEF Execute, host
  <2>2. ASSUME Untouched
        PROVE  Untouched'
    <3> DEFINE r == Head(requests)
    <3>1. /\ requests # <<>> /\ requests' = Tail(requests)
          /\ r.op # "write" => eeprom' = eeprom
      BY <1>10 DEF Execute
    <3>2. requests \in Seq(Requests)
      BY DEF IInv, TypeOK
    <3>3. /\ r = requests[1] /\ 1 \in DOMAIN requests
          /\ \A i \in DOMAIN requests' : i + 1 \in DOMAIN requests /\ requests'[i] = requests[i + 1]
      BY <3>1, <3>2, TailDomain
    <3> QED
      BY <2>1, <2>2, <3>1, <3>3 DEF Untouched
  <2> QED
    BY <2>1, <2>2 DEF Grounded
<1>11. CASE Persist \/ Send \/ Crash \/ Over \/ UNCHANGED vars
  <2>1. CASE Send
    BY <2>1 DEF Send, Grounded, Untouched, IInv, TypeOK, Talking
  <2>2. CASE Persist \/ Crash \/ Over \/ UNCHANGED vars
    BY <1>1, <2>2 DEF Persist, Crash, Over, vars, printer, host
  <2> QED
    BY <1>11, <2>1, <2>2
<1> QED
  BY <1>5, <1>6, <1>8, <1>9, <1>10, <1>11 DEF Next, Host

\* The refinement's invariant holds always.
LEMMA RInvariance == Spec => []RInv
<1>1. Init => RInv
  BY InitInv, InitBetween DEF RInv
<1>2. RInv /\ [Next]_vars => RInv'
  BY IInvInductive, BetweenInductive, GroundedInductive DEF RInv
<1> QED
  BY <1>1, <1>2, PTL DEF Spec

-----------------------------------------------------------------------------
(* The refinement.                                                         *)

\* The addresses AtomicUpdate calls suspect.
Suspected == IF Told \in {"crashed", "uncertain"} THEN Suspect ELSE {}

\* What Told says of the phase and the report.
ToldMeaning ==
    /\ Told = "crashed" <=> phase = "crashed"
    /\ Told = "running" <=> phase \notin {"done", "crashed"}
    /\ Told = "uncertain" <=> report = "rollback failed"
    /\ Told \in {"ok", "rolled back", "refused"} => report = Told
    /\ Told \in {"running", "ok", "rolled back", "uncertain", "refused", "crashed"}

\* What the session reports fits what it found.
LEMMA ToldMeans == TypeOK => ToldMeaning
<1> SUFFICES ASSUME TypeOK
             PROVE  ToldMeaning
  OBVIOUS
<1>1. /\ report \in {"none", "ok", "rolled back", "rollback failed", "refused"}
      /\ report # "none" <=> phase = "done"
  BY DEF TypeOK, Reports
<1>2. CASE phase = "crashed"
  <2>1. Told = "crashed"
    BY <1>2 DEF Told
  <2> QED
    BY <1>1, <1>2, <2>1 DEF ToldMeaning
<1>3. CASE phase # "crashed" /\ report = "none"
  <2>1. Told = "running"
    BY <1>3 DEF Told
  <2> QED
    BY <1>1, <1>3, <2>1 DEF ToldMeaning
<1>4. CASE report = "rollback failed"
  <2>1. Told = "uncertain"
    BY <1>1, <1>4 DEF Told
  <2> QED
    BY <1>1, <1>4, <2>1 DEF ToldMeaning
<1>5. CASE report \in {"ok", "rolled back", "refused"}
  <2>1. Told = report
    BY <1>1, <1>5 DEF Told
  <2> QED
    BY <1>1, <1>5, <2>1 DEF ToldMeaning
<1> QED
  BY <1>1, <1>2, <1>3, <1>4, <1>5

\* The operation starts where AtomicUpdate does.
LEMMA InitMaps == Init /\ RInv => Abstract!Init
<1> SUFFICES ASSUME Init, RInv
             PROVE  Abstract!Init
  OBVIOUS
<1>1. Told = "running"
  BY DEF Init, Told
<1>2. Wanted \in Images
  BY WantedType DEF RInv, IInv
<1> QED
  BY <1>1, <1>2 DEF Init, Abstract!Init, Abstract!Images, Images

\* A step of the host that leaves the caller waiting is a stutter; one that
\* ends the operation tells the caller something true.
LEMMA HostMaps ==
    ASSUME RInv, RInv', UNCHANGED <<eeprom, requests, updates, original>>,
           phase \notin {"done", "crashed"}
    PROVE  Abstract!Next \/ UNCHANGED Abstract!vars
<1>1. TypeOK /\ TypeOK' /\ UNCHANGED Wanted
  BY WantedFixed DEF RInv, IInv
<1>2. Told = "running" /\ Suspected = {}
  BY <1>1, ToldMeans DEF ToldMeaning, Suspected
<1>3. ToldMeaning'
  BY <1>1, ToldMeans, PTL
<1>4. \A what, S : Told' = what /\ Suspected' = S => Abstract!Tell(what, S)
  BY <1>1, <1>2 DEF Abstract!Tell, Suspected
<1>5. CASE Told' = "running"
  BY <1>1, <1>2, <1>5 DEF Abstract!vars, Suspected
<1>6. CASE Told' = "ok"
  <2>1. eeprom = Wanted
    BY <1>1, <1>3, <1>6 DEF ToldMeaning, RInv, IInv, Reported, AppliedExactly, Grounded, Wanted
  <2> QED
    BY <1>4, <1>6, <2>1 DEF Abstract!Next, Abstract!Succeed, Suspected
<1>7. CASE Told' = "rolled back"
  <2>1. eeprom = original
    BY <1>3, <1>7 DEF ToldMeaning, RInv, IInv, Reported, RollbackReportTrue
  <2> QED
    BY <1>4, <1>7, <2>1 DEF Abstract!Next, Abstract!RollBack, Suspected
<1>8. CASE Told' = "refused"
  <2>1. eeprom = original
    BY <1>3, <1>8 DEF ToldMeaning, RInv, Grounded, Untouched
  <2> QED
    BY <1>4, <1>8, <2>1 DEF Abstract!Next, Abstract!Refuse, Suspected
<1>9. CASE Told' = "uncertain"
  <2>1. Suspected' = errors' /\ errors' \in SUBSET Addresses /\ errors' # {}
    BY <1>1, <1>3, <1>9 DEF ToldMeaning, Suspected, Suspect, RInv, Grounded, TypeOK
  <2>2. \A a \in Addresses \ errors' : eeprom[a] = original[a]
    BY <1>3, <1>9 DEF ToldMeaning, RInv, IInv, Reported, ReportedPrecisely
  <2> QED
    BY <1>4, <1>9, <2>1, <2>2 DEF Abstract!Next, Abstract!GiveUp, Abstract!Agrees
<1>10. CASE Told' = "crashed"
  <2>1. Suspected' = Addresses
    BY <1>3, <1>10 DEF ToldMeaning, Suspected, Suspect
  <2> QED
    BY <1>4, <1>10, <2>1 DEF Abstract!Next, Abstract!Crash
<1> QED
  BY <1>3, <1>5, <1>6, <1>7, <1>8, <1>9, <1>10 DEF ToldMeaning

\* A request the printer executes is work while the operation runs, reaches
\* suspect bytes only after a failure, and changes nothing after any other report.
LEMMA ExecuteMaps == RInv /\ RInv' /\ Execute => Abstract!Next \/ UNCHANGED Abstract!vars
<1> SUFFICES ASSUME RInv, RInv', Execute
             PROVE  Abstract!Next \/ UNCHANGED Abstract!vars
  OBVIOUS
<1>1. TypeOK /\ TypeOK' /\ UNCHANGED <<updates, original, phase, errors, report>> /\ requests # <<>>
  BY DEF RInv, IInv, Execute, host
<1>2. UNCHANGED <<Wanted, Told, Suspect, Suspected>>
  BY <1>1, WantedFixed DEF Told, Suspect, Suspected
<1>3. eeprom' \in Images /\ \A a \in Addresses : eeprom'[a] \in {original[a], Wanted[a]}
  BY <1>1, <1>2 DEF TypeOK, RInv, Between, OldOrWanted
<1>4. CASE Told = "running"
  BY <1>1, <1>2, <1>3, <1>4
     DEF Abstract!Next, Abstract!Work, Abstract!Images, Images, Suspected
<1>5. CASE Told \in {"uncertain", "crashed"}
  <2>1. ASSUME NEW a \in Addresses, a \notin Suspected
        PROVE  eeprom'[a] = eeprom[a]
    <3>1. report = "rollback failed" /\ a \in Addresses \ errors
      BY <1>1, <1>5, <2>1, ToldMeans DEF ToldMeaning, Suspected, Suspect
    <3>2. eeprom[a] = original[a]
      BY <3>1 DEF RInv, IInv, Reported, ReportedPrecisely
    <3>3. eeprom'[a] = original[a]
      BY <1>1, <3>1 DEF RInv, IInv, Reported, ReportedPrecisely
    <3> QED
      BY <3>2, <3>3
  <2>2. \A a \in Addresses : /\ eeprom'[a] \in {original[a], Wanted[a]}
                             /\ a \notin Suspected => eeprom'[a] = eeprom[a]
    BY <1>3, <2>1
  <2> QED
    BY <1>1, <1>2, <1>3, <1>5, <2>2
       DEF Abstract!Next, Abstract!Aftermath, Abstract!Images, Images, Suspected
<1>6. CASE Told \in {"ok", "rolled back"}
  BY <1>1, <1>6, ToldMeans
     DEF ToldMeaning, RInv, IInv, Reported, AppliedExactly, RollbackReportTrue, Settled
<1>7. CASE Told = "refused"
  <2>1. Untouched /\ Untouched'
    BY <1>1, <1>7, ToldMeans DEF ToldMeaning, RInv, Grounded
  <2> QED
    BY <1>1, <1>2, <2>1 DEF Untouched, Abstract!vars, Suspected
<1> QED
  BY <1>1, <1>4, <1>5, <1>6, <1>7, ToldMeans DEF ToldMeaning

\* Stuttering is a stutter of the abstract update.
LEMMA StutterMaps == UNCHANGED vars => UNCHANGED Abstract!vars
<1> SUFFICES ASSUME UNCHANGED vars
             PROVE  UNCHANGED Abstract!vars
  OBVIOUS
<1>1. UNCHANGED <<eeprom, updates, original, phase, errors, report>>
  BY DEF vars, printer, host
<1>2. UNCHANGED <<Wanted, Told, Suspect>>
  BY <1>1, WantedFixed DEF Told, Suspect
<1> QED
  BY <1>1, <1>2 DEF Abstract!vars

\* Every step is a step of the abstract update or a stutter of it.
LEMMA StepMaps == RInv /\ RInv' /\ [Next]_vars => [Abstract!Next]_(Abstract!vars)
<1> SUFFICES ASSUME RInv, RInv', [Next]_vars
             PROVE  Abstract!Next \/ UNCHANGED Abstract!vars
  OBVIOUS
<1>1. CASE Prepare \/ Persist \/ PersistFails \/ RequestFails \/ Receive \/ Crash
  <2>1. UNCHANGED <<eeprom, requests, updates, original>> /\ phase \notin {"done", "crashed"}
    BY <1>1 DEF Prepare, Persist, PersistFails, RequestFails, Receive, Crash, printer, Talking
  <2> QED
    BY <2>1, HostMaps
<1>2. CASE Send
  <2>1. UNCHANGED <<eeprom, updates, original, phase, errors, report>>
    BY <1>2 DEF Send
  <2>2. UNCHANGED <<Wanted, Told, Suspect>>
    BY <2>1, WantedFixed DEF Told, Suspect
  <2> QED
    BY <2>1, <2>2 DEF Abstract!vars
<1> QED
  BY <1>1, <1>2, ExecuteMaps, StutterMaps DEF Next, Host, Over

\* The operation implements the abstract one (apply_eeprom_write over
\* write_eeprom_with_originals against its reports): the device's bytes move
\* only between their old and their wanted value, every report is true when
\* it is made, and late requests reach no byte it vouches for.
THEOREM OperationImplements == Spec => Implements
<1>1. RInv /\ Init => Abstract!Init
  BY InitMaps
<1>2. RInv /\ RInv' /\ [Next]_vars => [Abstract!Next]_(Abstract!vars)
  BY StepMaps
<1> QED
  BY <1>1, <1>2, RInvariance, PTL DEF Spec, Implements, Abstract!Spec
=============================================================================
