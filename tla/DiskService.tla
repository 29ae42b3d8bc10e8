----------------------------- MODULE DiskService -----------------------------
(***************************************************************************)
(* What diskRead and diskWrite promise one caller: while a call is under   *)
(* way the disk may touch the caller's buffer, or the sector that is       *)
(* written, and nothing else; a call that returns true has moved the       *)
(* sector.                                                                 *)
(***************************************************************************)
CONSTANTS Sectors, Buffers, Values

VARIABLES
    disk,       \* what each sector holds
    memory,     \* what each buffer holds
    call        \* [op, sector, buffer, ok]; op "none" between calls

vars == <<disk, memory, call>>

Init == disk \in [Sectors -> Values] /\ memory \in [Buffers -> Values] /\ call.op = "none"

\* The caller fills its buffer and calls.
Call ==
    /\ call.op = "none"
    /\ call'.op \in {"read", "write"} /\ call'.sector \in Sectors /\ call'.buffer \in Buffers
    /\ \E v \in Values : memory' = [memory EXCEPT ![call'.buffer] = v]
    /\ UNCHANGED disk

Read ==
    /\ call.op = "read"
    /\ \E v \in Values : memory' = [memory EXCEPT ![call.buffer] = v]
    /\ UNCHANGED <<disk, call>>

Write ==
    /\ call.op = "write"
    /\ disk' = [disk EXCEPT ![call.sector] = memory[call.buffer]]
    /\ UNCHANGED <<memory, call>>

Succeed ==
    /\ call.op # "none"
    /\ disk[call.sector] = memory[call.buffer]
    /\ call'.op = "none" /\ call'.ok
    /\ UNCHANGED <<disk, memory>>

\* A call that fails may leave anything in the buffer.
Fail ==
    /\ call.op # "none"
    /\ call'.op = "none" /\ ~call'.ok
    /\ \E v \in Values : memory' = [memory EXCEPT ![call.buffer] = v]
    /\ UNCHANGED disk

Next == Call \/ Read \/ Write \/ Succeed \/ Fail

Spec == Init /\ [][Next]_vars
=============================================================================
