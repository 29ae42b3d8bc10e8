----------------------------- MODULE ByteStream -----------------------------
(***************************************************************************)
(* What a file handle promises: an opened file is a position in it.  A     *)
(* read delivers the file's next bytes, possibly fewer than were asked     *)
(* for, and a seek changes the position alone.                             *)
(***************************************************************************)
EXTENDS Integers, Sequences

CONSTANTS
    Files,      \* records with a field size
    None

VARIABLES
    file,       \* the open file
    pos,
    given       \* the bytes the read delivered so far, by their place in the file

vars == <<file, pos, given>>

Init == file = None /\ pos = 0 /\ given = <<>>

Open(f) == file = None /\ file' = f /\ pos' = 0 /\ given' = <<>>

Begin == file # None /\ given' = <<>> /\ UNCHANGED <<file, pos>>

Deliver(n) ==
    /\ file # None
    /\ given' = given \o [i \in 1 .. n |-> pos + i - 1]
    /\ pos' = pos + n
    /\ UNCHANGED file

Seek(to) == file # None /\ pos' = to /\ UNCHANGED <<file, given>>

Close == file # None /\ file' = None /\ pos' = 0 /\ given' = <<>>

Next ==
    \/ \E f \in Files : Open(f)
    \/ Begin \/ Close
    \/ file # None /\ \E n \in 1 .. (file.size - pos) : Deliver(n)
    \/ file # None /\ \E to \in 0 .. file.size : Seek(to)

Spec == Init /\ [][Next]_vars
=============================================================================
