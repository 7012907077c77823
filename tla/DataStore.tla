------------------------------ MODULE DataStore ------------------------------
(***************************************************************************)
(* src/src/net/DataStore.h: reading a packet's fields from its read        *)
(* cursor.  A packet is the sequence of its fields; a read past the end    *)
(* gives 0 and leaves the packet overrun.                                  *)
(***************************************************************************)
EXTENDS Integers, Sequences

\* ReadU8, ReadU32, ReadPackedGuid: the n-th read after the cursor.
Read(msg, cursor, n) ==
    IF cursor + n - 1 \in DOMAIN msg THEN msg[cursor + n - 1] ELSE 0

\* Overrun, after n reads.
Overrun(msg, cursor, n) == cursor + n - 1 > Len(msg)
=============================================================================
