------------------------------- MODULE MCPMM -------------------------------
(***************************************************************************)
(* Instances of PMM for TLC.  Each map has usable memory below and above   *)
(* the kernel, and the bitmap has two bytes with free pages in both.       *)
(***************************************************************************)
EXTENDS PMM_proofs

\* 14 pages: bit 15 of the bitmap is clear, and a reserved page is behind it.
MapOf14 ==
    << [base |-> 0, length |-> 3, type |-> "usable"],
       [base |-> 3, length |-> 7, type |-> "kernel"],
       [base |-> 10, length |-> 4, type |-> "usable"],
       [base |-> 14, length |-> 9, type |-> "reserved"] >>

\* 15 pages: the last bit of the bitmap is that of the page after them.
MapOf15 ==
    << [base |-> 0, length |-> 3, type |-> "usable"],
       [base |-> 3, length |-> 8, type |-> "kernel"],
       [base |-> 11, length |-> 4, type |-> "usable"],
       [base |-> 15, length |-> 9, type |-> "reserved"] >>
=============================================================================
