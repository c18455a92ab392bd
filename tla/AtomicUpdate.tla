---------------------------- MODULE AtomicUpdate ----------------------------
(***************************************************************************)
(* What a persistent EEPROM operation promises its caller: while it runs   *)
(* the device's bytes may change, and when it reports, the report is true  *)
(* of the device and stays true.  "ok": exactly the requested bytes are    *)
(* written.  "rolled back" and "refused": the device is as it was found.   *)
(* "uncertain": the bytes in suspect may be wrong, no other byte is.       *)
(***************************************************************************)
CONSTANTS Addresses, Values

VARIABLES eeprom,    \* the device's bytes
          original,  \* the bytes before the operation
          wanted,    \* the bytes the operation asks for
          suspect,   \* addresses reported as not restored
          report     \* what the caller has been told

vars == <<eeprom, original, wanted, suspect, report>>

Images == [Addresses -> Values]
Reports == {"running", "ok", "rolled back", "uncertain", "refused", "crashed"}

Agrees(a) == eeprom[a] = original[a]

Init ==
    /\ eeprom \in Images /\ original = eeprom /\ wanted \in Images
    /\ suspect = {} /\ report = "running"

\* Bytes to be changed may hold the old or the new value until the end.
Work ==
    /\ report = "running"
    /\ eeprom' \in Images
    /\ \A a \in Addresses : eeprom'[a] \in {original[a], wanted[a]}
    /\ UNCHANGED <<original, wanted, suspect, report>>

Tell(what, addresses) ==
    /\ report = "running"
    /\ report' = what /\ suspect' = addresses
    /\ UNCHANGED <<eeprom, original, wanted>>

Succeed == eeprom = wanted /\ Tell("ok", {})
RollBack == eeprom = original /\ Tell("rolled back", {})
Refuse == eeprom = original /\ Tell("refused", {})
GiveUp == \E S \in SUBSET Addresses :
             /\ S # {} /\ \A a \in Addresses \ S : Agrees(a)
             /\ Tell("uncertain", S)
Crash == Tell("crashed", Addresses)

\* What is still on its way to the device can reach suspect bytes only.
Aftermath ==
    /\ report \in {"uncertain", "crashed"}
    /\ eeprom' \in Images
    /\ \A a \in Addresses : /\ eeprom'[a] \in {original[a], wanted[a]}
                            /\ a \notin suspect => eeprom'[a] = eeprom[a]
    /\ UNCHANGED <<original, wanted, suspect, report>>

Next == Work \/ Succeed \/ RollBack \/ Refuse \/ GiveUp \/ Crash \/ Aftermath

Spec == Init /\ [][Next]_vars
=============================================================================
