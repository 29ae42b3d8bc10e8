------------------------------- MODULE MCAHCI -------------------------------
(***************************************************************************)
(* Machines for AHCI: one with a bridge and two devices before a controller*)
(* that has a drive on its second port, one with a CD drive and a port that*)
(* is not implemented, one whose only controller has no drive, and one     *)
(* without a controller.                                                   *)
(***************************************************************************)
EXTENDS AHCI

OnPort(link, sig) == [link |-> link, sig |-> sig]

Device(kind) == [kind |-> kind, implemented |-> {},
                 port |-> [p \in Ports |-> OnPort(FALSE, "none")]]

Controller(implemented, first, second) ==
    [kind |-> "ahci", implemented |-> implemented,
     port |-> [p \in Ports |-> IF p = 0 THEN first ELSE second]]

Drive == OnPort(TRUE, "ata")

Computers ==
    {<<Device("bridge"), Device("other"), Controller({0, 1}, OnPort(FALSE, "ata"), Drive)>>,
     <<Controller({0}, OnPort(TRUE, "ata"), Drive), Device("absent")>>,
     <<Controller({0, 1}, OnPort(TRUE, "atapi"), OnPort(FALSE, "none"))>>,
     <<Device("other")>>}
=============================================================================
