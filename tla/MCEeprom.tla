------------------------------ MODULE MCEeprom ------------------------------
(* The EEPROM operation on a memory of a few bytes.                        *)
EXTENDS EepromWrite

\* The lists of the callers, good and bad: empty, out of range, duplicated,
\* one byte, two or three bytes in an order of their own, a byte rewritten
\* with a value it may already have.
MCUpdateLists ==
    {<<>>, <<<<MemoryHigh + 1, 1>>>>, <<<<MemoryLow, 0>>, <<MemoryLow, 1>>>>,
     <<<<MemoryLow, 1>>>>,
     <<<<MemoryLow, 1>>, <<MemoryLow + 1, 1>>>>,
     <<<<MemoryLow + 1, 1>>, <<MemoryLow, 0>>>>,
     <<<<MemoryHigh, 1>>, <<MemoryLow, 1>>, <<MemoryLow + 1, 0>>>>}
=============================================================================
