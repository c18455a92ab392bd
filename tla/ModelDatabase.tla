---------------------------- MODULE ModelDatabase ----------------------------
(***************************************************************************)
(* The bundled model database and the identity of a printer, as functions: *)
(* EpsonSpec and ModelDatabase of epson.rs, PrinterIdentity of identity.rs *)
(* and the functions of reink-app and of the programs that turn them into  *)
(* addresses to read and updates to write.                                 *)
(*                                                                         *)
(* A text is abstracted to what is compared: a model name is a record of a *)
(* base and the number of " Series" at its end, a description is the set   *)
(* of the counter families whose fragment it contains.                     *)
(***************************************************************************)
EXTENDS Integers, SequencesExt

CONSTANT Error   \* a model value: an error of a function that returns a value

-----------------------------------------------------------------------------
(* Loading.                                                                *)

\* MemoryOperation::try_from: the reset bytes are absent or one per address.
GoodOperation(op) ==
    op.addr # <<>> /\ (op.reset = <<>> \/ Len(op.reset) = Len(op.addr))

\* The length that an encoding fixes.
FixedLength == [u8 |-> 1, u16le |-> 2, u32le |-> 4]

\* RawEepromField::into_eeprom_field.
GoodField(f, low, high) ==
    /\ low <= f.first /\ f.first <= f.last /\ f.last <= high
    /\ f.encoding \in DOMAIN FixedLength \cup {"ascii", "raw"}
    /\ f.encoding \in DOMAIN FixedLength => f.last - f.first + 1 = FixedLength[f.encoding]

Overlap(f, g) == f.first <= g.last /\ g.first <= f.last

\* One [[EPSON]] group: its lengths of an address, its range, its write key (0
\* bytes for none), its operations and its display fields.
GoodGroup(raw) ==
    /\ raw.widths \subseteq {1, 2} /\ raw.low <= raw.high /\ raw.key \in {0, 8}
    /\ \A i \in DOMAIN raw.mem : GoodOperation(raw.mem[i])
    /\ \A i \in DOMAIN raw.fields :
         /\ GoodField(raw.fields[i], raw.low, raw.high)
         /\ \A j \in 1 .. i - 1 : ~Overlap(raw.fields[i], raw.fields[j])

\* A later group replaces the entry of a name that an earlier one has given.
GroupOf(groups, m) ==
    CHOOSE i \in DOMAIN groups :
      m \in groups[i].names /\ \A j \in i + 1 .. Len(groups) : m \notin groups[j].names

\* ModelDatabase::from_toml.
FromToml(groups) ==
    IF \A i \in DOMAIN groups : GoodGroup(groups[i])
      THEN [m \in UNION {groups[i].names : i \in DOMAIN groups} |-> groups[GroupOf(groups, m)]]
      ELSE Error

\* selected_model, ModelDatabase::get.
SelectedModel(groups, m) ==
    LET models == FromToml(groups)
    IN IF models = Error THEN Error
       ELSE IF m \in DOMAIN models THEN models[m] ELSE Error

-----------------------------------------------------------------------------
(* Identities.                                                             *)

\* One entry of an identifier: every entry needs a key, and one that comes
\* again replaces the one before it.
Field(identity, key) ==
    LET named == SelectSeq(identity, LAMBDA e : e.key = key)
    IN IF named = <<>> THEN Error ELSE Last(named).value

\* PrinterIdentity::parse: the long name of a field replaces the short one.
Parsed(identity) ==
    IF \E i \in DOMAIN identity : identity[i].key = "" THEN Error
    ELSE [model |-> IF Field(identity, "MODEL") # Error THEN Field(identity, "MODEL")
                                                       ELSE Field(identity, "MDL")]

\* PrinterIdentity::detected_model: one " Series" is dropped.
DetectedModel(identity) ==
    LET parsed == Parsed(identity)
    IN IF parsed = Error THEN Error
       ELSE IF parsed.model = Error THEN Error
       ELSE [parsed.model EXCEPT !.series = IF @ = 0 THEN 0 ELSE @ - 1]

-----------------------------------------------------------------------------
(* Addresses and updates.                                                  *)

InRange(spec, a) == spec.low <= a /\ a <= spec.high

\* validate_eeprom_read_addresses of the command line, and of the evidence tool.
GoodAddresses(spec, addresses) ==
    /\ addresses # <<>> /\ IsInjective(addresses)
    /\ \A i \in DOMAIN addresses : InRange(spec, addresses[i])

EvidenceAddresses(spec, addresses) == \A i \in DOMAIN addresses : InRange(spec, addresses[i])

\* validate_eeprom_updates: a list of <<address, value>>.
GoodUpdates(spec, updates) ==
    GoodAddresses(spec, [i \in DOMAIN updates |-> updates[i][1]])

\* eeprom_dump_addresses, dump_eeprom: the range, inclusive at both ends.
DumpPastEnd(spec) ==      \* Mutant: one byte too many.
    [i \in 1 .. spec.high - spec.low + 2 |-> spec.low + i - 1]
DumpAddresses(spec) == [i \in 1 .. spec.high - spec.low + 1 |-> spec.low + i - 1]

\* validate_native_sensitive_addresses.
Displayable(spec, addresses) ==
    \A i \in DOMAIN addresses, j \in DOMAIN spec.fields :
      spec.fields[j].sensitive =>
        ~(spec.fields[j].first <= addresses[i] /\ addresses[i] <= spec.fields[j].last)

\* restore_eeprom_updates: an image of exactly the model's range.
RestoreUpdates(spec, image) ==
    IF Len(image) # spec.high - spec.low + 1 THEN Error
    ELSE [i \in DOMAIN image |-> <<spec.low + i - 1, image[i]>>]

\* merged_operation: the first occurrence of an address gives its position, the
\* last one its value; an operation without declared bytes is left out.
Put(updates, update) ==
    IF \E i \in DOMAIN updates : updates[i][1] = update[1]
      THEN [i \in DOMAIN updates |-> IF updates[i][1] = update[1] THEN update ELSE updates[i]]
      ELSE Append(updates, update)
PutOperation(updates, op) ==
    LET put[k \in 0 .. Len(op.addr)] ==
          IF k = 0 THEN updates ELSE Put(put[k - 1], <<op.addr[k], op.reset[k]>>)
    IN put[Len(op.addr)]
Resets(op, family) == family \in op.families /\ op.reset # <<>>
MergedOperation(spec, family) ==
    LET merged[n \in 0 .. Len(spec.mem)] ==
          IF n = 0 THEN <<>>
          ELSE IF Resets(spec.mem[n], family) THEN PutOperation(merged[n - 1], spec.mem[n])
          ELSE merged[n - 1]
    IN merged[Len(spec.mem)]

\* declared_counter_reset_updates.
ResetUpdates(spec, family) ==
    LET merged == MergedOperation(spec, family)
    IN IF merged # <<>> /\ GoodUpdates(spec, merged) THEN merged ELSE Error

\* What a reset may write, said without positions: every byte that some
\* declared operation of the family names, with the value of the last one.
Declares(op, family, a) == family \in op.families /\ \E k \in DOMAIN op.reset : op.addr[k] = a
DeclaredReset(spec, family) ==
    LET last(a) == CHOOSE i \in DOMAIN spec.mem :
                     /\ Declares(spec.mem[i], family, a)
                     /\ \A j \in i + 1 .. Len(spec.mem) : ~Declares(spec.mem[j], family, a)
        addresses == {a \in spec.low .. spec.high :
                        \E i \in DOMAIN spec.mem : Declares(spec.mem[i], family, a)}
        index(a) == CHOOSE k \in DOMAIN spec.mem[last(a)].addr :
                      /\ spec.mem[last(a)].addr[k] = a
                      /\ \A l \in k + 1 .. Len(spec.mem[last(a)].addr) :
                           spec.mem[last(a)].addr[l] # a
    IN {<<a, spec.mem[last(a)].reset[index(a)]>> : a \in addresses}
=============================================================================
