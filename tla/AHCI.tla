-------------------------------- MODULE AHCI --------------------------------
(***************************************************************************)
(* The disk driver: the scan of the PCI functions (pci.c) that finds AHCI  *)
(* controllers, their initialisation (ahci.c, ahci_port.c, ahci_util.c),   *)
(* and diskRead and diskWrite (disk.c), which issue one command and poll   *)
(* for it.  Only the kernel task calls them.                               *)
(*                                                                         *)
(* The firmware and the controllers act on their own: see External.        *)
(* Registers are records; a command table is what its FIS and its one PRDT *)
(* entry say.                                                              *)
(***************************************************************************)
EXTENDS Integers, Sequences, FiniteSets, FiniteSetsExt

CONSTANTS
    Machines,   \* what PCI_FilterDevice may find: each a sequence of functions (a bound)
    Ports,      \* the ports of a controller: 0 .. 31
    Slots,      \* the command slots of a port: 0 .. 31
    Sectors,
    Buffers,
    Values,
    MaxCalls    \* a bound

\* A PCI function: what answers there and, if it is a controller, its ports
\* and what is plugged into each.
PCIFunctions ==
    [kind : {"absent", "bridge", "ahci", "other"}, implemented : SUBSET Ports,
     port : [Ports -> [link : BOOLEAN, sig : {"ata", "atapi", "none"}]]]

ASSUME RangesAssumption ==
    /\ Machines \subseteq Seq(PCIFunctions)
    /\ Ports \subseteq Nat /\ Slots \subseteq Nat
    /\ Sectors # {} /\ Buffers # {} /\ Values # {}

VARIABLES
    machine,    \* the PCI functions there are
    firstPCI,   \* the list of devices
    hba,        \* the registers of each function that is a controller, and its ahci
    boot,       \* where initialisation is: its step, function and port
    call,       \* the diskRead or diskWrite under way, or the last one's result
    disk, memory,
    calls,
    spoiled     \* a port has stopped after an error (auxiliary)

vars == <<machine, firstPCI, hba, boot, call, disk, memory, calls, spoiled>>

NoTable == [write |-> FALSE, sector |-> CHOOSE s \in Sectors : TRUE, buffer |-> CHOOSE b \in Buffers : TRUE]

\* A port as the firmware leaves it: it may be running and may be busy.
FirmwarePort(running, busy) ==
    [fre |-> running, st |-> running, fr |-> running, cr |-> running, busy |-> busy,
     rebased |-> FALSE, ci |-> {}, done |-> {}, tfes |-> FALSE, halted |-> FALSE,
     table |-> [s \in Slots |-> NoTable]]

NoCall == [op |-> "none", step |-> "none", ok |-> FALSE, sector |-> NoTable.sector,
           buffer |-> NoTable.buffer, port |-> <<0, 0>>, slot |-> -1]

HBAs == {f \in DOMAIN machine : machine[f].kind = "ahci"}

Init ==
    /\ machine \in Machines
    /\ firstPCI = <<>>
    /\ \E running, busy, owned \in BOOLEAN :
         hba = [f \in HBAs |-> [owned |-> owned, sata |-> {},
                    port |-> [p \in Ports |-> FirmwarePort(running, busy /\ machine[f].port[p].link)]]]
    /\ boot = [step |-> "scan", f |-> 1, p |-> 0]
    /\ call = NoCall
    /\ disk \in [Sectors -> Values]
    /\ memory = [b \in Buffers |-> CHOOSE v \in Values : TRUE]
    /\ calls = 0
    /\ spoiled = FALSE

-----------------------------------------------------------------------------
(* Initialisation *)

NoCallYet == UNCHANGED <<call, disk, memory, calls, spoiled>>

\* The step after a function: the scan goes on with the next one.
NextFunction == [step |-> "scan", f |-> boot.f + 1, p |-> 0]

\* PCI_FilterDevice: a vendor answers.
FilterDevice(f) == machine[f].kind # "absent"

\* What PCI_GetDevice reads of it: the header type, and the class below.
GeneralDevice(f) == machine[f].kind # "bridge"

\* InitializePCI looks at one function.
ScanFunction ==
    LET f == boot.f
    IN  /\ boot.step = "scan"
        /\ f \in DOMAIN machine
        /\ IF ~FilterDevice(f) \/ ~GeneralDevice(f)
           THEN boot' = NextFunction /\ UNCHANGED firstPCI
           ELSE /\ firstPCI' = Append(firstPCI, [f |-> f, driver |-> machine[f].kind])
                /\ boot' = IF machine[f].kind = "ahci" THEN [boot EXCEPT !.step = "handoff"]
                           ELSE NextFunction
        /\ UNCHANGED <<machine, hba>>
        /\ NoCallYet

EndOfScan ==
    /\ boot.step = "scan"
    /\ boot.f \notin DOMAIN machine
    /\ boot' = [boot EXCEPT !.step = "booted"]
    /\ UNCHANGED <<machine, firstPCI, hba>>
    /\ NoCallYet

\* InitializeAHCI waits for the firmware to let the controller go.
Handoff ==
    /\ boot.step = "handoff"
    /\ ~hba[boot.f].owned
    /\ boot' = [boot EXCEPT !.step = "probe"]
    /\ UNCHANGED <<machine, firstPCI, hba>>
    /\ NoCallYet

\* AHCI_CheckPortType.
PortTypeUnchecked(f, p) == machine[f].port[p].sig       \* mutant: the link is not looked at

PortType(f, p) == IF machine[f].port[p].link THEN machine[f].port[p].sig ELSE "none"

Implemented(f) == machine[f].implemented

NextPort == [boot EXCEPT !.step = "probe", !.p = @ + 1]

StoppedHalf(port) == [port EXCEPT !.st = FALSE]     \* mutant: FIS reception goes on

Stopped(port) == [port EXCEPT !.fre = FALSE, !.st = FALSE]

\* AHCI_PortProbe: a SATA drive's port is stopped first (AHCI_StopCommand).
ProbePort ==
    LET f == boot.f
        p == boot.p
    IN  /\ boot.step = "probe"
        /\ p \in Ports
        /\ IF p \in Implemented(f) /\ PortType(f, p) = "ata"
           THEN /\ hba' = [hba EXCEPT ![f].port[p] = Stopped(@)]
                /\ boot' = [boot EXCEPT !.step = "rebase"]
           ELSE boot' = NextPort /\ UNCHANGED hba
        /\ UNCHANGED <<machine, firstPCI>>
        /\ NoCallYet

WaitsForBoth(port) == ~port.fr /\ ~port.cr

Started(port) == [port EXCEPT !.rebased = TRUE, !.fre = TRUE, !.st = TRUE]

\* AHCI_PortRebase, when neither engine runs: new command lists and tables, then
\* AHCI_StartCommand.
Rebase ==
    LET f == boot.f
        p == boot.p
    IN  /\ boot.step = "rebase"
        /\ WaitsForBoth(hba[f].port[p])
        /\ hba' = [hba EXCEPT ![f].port[p] = Started(@), ![f].sata = @ \cup {p}]
        /\ boot' = NextPort
        /\ UNCHANGED <<machine, firstPCI>>
        /\ NoCallYet

\* The end of InitializeAHCI looks for the first SATA drive, for ever if there is none.
EndOfProbe ==
    /\ boot.step = "probe"
    /\ boot.p \notin Ports
    /\ boot' = IF hba[boot.f].sata = {} THEN [boot EXCEPT !.step = "hung"] ELSE NextFunction
    /\ UNCHANGED <<machine, firstPCI, hba>>
    /\ NoCallYet

-----------------------------------------------------------------------------
(* diskRead and diskWrite *)

Booted == UNCHANGED <<machine, firstPCI, boot>>

Controllers == {i \in DOMAIN firstPCI : firstPCI[i].driver = "ahci"}

FirstDriveAny(f) == Min(Implemented(f))      \* mutant: whether it is a drive is not looked at

FirstDrive(f) == Min(hba[f].sata)

\* diskBytes: the first controller of the list, and its first drive.  Pending
\* interrupt bits are cleared.  The caller of a write has filled its buffer.
StartCall(op, sector, buffer) ==
    /\ boot.step = "booted"
    /\ call.op = "none"
    /\ calls < MaxCalls
    /\ calls' = calls + 1
    /\ call' = [NoCall EXCEPT !.op = op, !.sector = sector, !.buffer = buffer,
                              !.step = IF Controllers = {} THEN "absent" ELSE "find",
                              !.port = IF Controllers = {} THEN <<0, 0>>
                                       ELSE LET f == firstPCI[Min(Controllers)].f
                                            IN  <<f, FirstDrive(f)>>]
    /\ hba' = IF Controllers = {} THEN hba
              ELSE LET f == firstPCI[Min(Controllers)].f
                   IN  [hba EXCEPT ![f].port[FirstDrive(f)].tfes = FALSE]
    /\ IF op = "write" THEN \E v \in Values : memory' = [memory EXCEPT ![buffer] = v]
       ELSE UNCHANGED memory
    /\ UNCHANGED <<disk, spoiled>>
    /\ Booted

Port == hba[call.port[1]].port[call.port[2]]

Return(ok) == call' = [NoCall EXCEPT !.ok = ok]

\* Without a controller the buffer is cleared.
NoController ==
    /\ call.step = "absent"
    /\ Return(FALSE)
    /\ memory' = [memory EXCEPT ![call.buffer] = CHOOSE v \in Values : TRUE]
    /\ UNCHANGED <<hba, disk, calls, spoiled>>
    /\ Booted

FreeSlotsAny == Slots       \* mutant: commands that are still issued are not looked at

FreeSlots == Slots \ Port.ci

FindCmdSlot ==
    /\ call.step = "find"
    /\ IF FreeSlots = {} THEN Return(FALSE)
       ELSE call' = [call EXCEPT !.step = "setup", !.slot = Min(FreeSlots)]
    /\ UNCHANGED <<hba, disk, memory, calls, spoiled>>
    /\ Booted

TableForRead(op, sector, buffer) == [write |-> FALSE, sector |-> sector, buffer |-> buffer]  \* mutant

Table(op, sector, buffer) == [write |-> op = "write", sector |-> sector, buffer |-> buffer]

\* AHCI_SetupCMD and the FIS.
SetupCMD ==
    /\ call.step = "setup"
    /\ hba' = [hba EXCEPT ![call.port[1]].port[call.port[2]].table[call.slot] =
                            Table(call.op, call.sector, call.buffer)]
    /\ call' = [call EXCEPT !.step = "ready"]
    /\ UNCHANGED <<disk, memory, calls, spoiled>>
    /\ Booted

\* AHCI_PortReady gives up after 1000 ticks of a busy port; else AHCI_CMDIssue.
PortReady ==
    /\ call.step = "ready"
    /\ IF Port.busy THEN Return(FALSE) /\ UNCHANGED hba
       ELSE /\ hba' = [hba EXCEPT ![call.port[1]].port[call.port[2]].ci = @ \cup {call.slot}]
            /\ call' = [call EXCEPT !.step = "poll"]
    /\ UNCHANGED <<disk, memory, calls, spoiled>>
    /\ Booted

PollIssued ==
    /\ call.step = "poll"
    /\ IF call.slot \in Port.ci THEN call' = [call EXCEPT !.step = "error"]
       ELSE Return(TRUE)
    /\ UNCHANGED <<hba, disk, memory, calls, spoiled>>
    /\ Booted

ErrorSeenNever == FALSE     \* mutant: the wait looks at the slot only

ErrorSeen == Port.tfes

PollError ==
    /\ call.step = "error"
    /\ IF ErrorSeen THEN Return(FALSE) ELSE call' = [call EXCEPT !.step = "poll"]
    /\ UNCHANGED <<hba, disk, memory, calls, spoiled>>
    /\ Booted

-----------------------------------------------------------------------------
(* External: the firmware and the controllers.  An error stops the port, or *)
(* leaves it running; either way the slot stays issued, as ahci.c expects.   *)

LetGo(f) ==
    /\ hba[f].owned
    /\ boot.step = "handoff" /\ boot.f = f
    /\ hba' = [hba EXCEPT ![f].owned = FALSE]
    /\ UNCHANGED <<machine, firstPCI, boot>>
    /\ NoCallYet

\* The engines follow the driver's bits.
Engine(f, p) ==
    /\ <<hba[f].port[p].fr, hba[f].port[p].cr>> # <<hba[f].port[p].fre, hba[f].port[p].st>>
    /\ hba' = [hba EXCEPT ![f].port[p].fr = hba[f].port[p].fre, ![f].port[p].cr = hba[f].port[p].st]
    /\ UNCHANGED <<machine, firstPCI, boot>>
    /\ NoCallYet

Ready(f, p) ==
    /\ hba[f].port[p].busy
    /\ hba' = [hba EXCEPT ![f].port[p].busy = FALSE]
    /\ UNCHANGED <<machine, firstPCI, boot>>
    /\ NoCallYet

Pending(f, p) ==
    IF hba[f].port[p].cr /\ ~hba[f].port[p].halted
    THEN hba[f].port[p].ci \ hba[f].port[p].done ELSE {}

Transfer(t) ==
    IF t.write
    THEN disk' = [disk EXCEPT ![t.sector] = memory[t.buffer]] /\ UNCHANGED memory
    ELSE memory' = [memory EXCEPT ![t.buffer] = disk[t.sector]] /\ UNCHANGED disk

Complete(f, p) ==
    \E s \in Pending(f, p) :
        /\ Transfer(hba[f].port[p].table[s])
        /\ hba' = [hba EXCEPT ![f].port[p].ci = @ \ {s}]
        /\ UNCHANGED <<call, calls, spoiled>>
        /\ Booted

\* The data may have moved all the same.
FailCommand(f, p) ==
    \E s \in Pending(f, p), halts \in BOOLEAN :
        /\ Transfer(hba[f].port[p].table[s]) \/ UNCHANGED <<disk, memory>>
        /\ hba' = [hba EXCEPT ![f].port[p].tfes = TRUE, ![f].port[p].done = @ \cup {s},
                              ![f].port[p].halted = halts]
        /\ spoiled' = (spoiled \/ halts)
        /\ UNCHANGED <<call, calls>>
        /\ Booted

External ==
    \E f \in HBAs :
        \/ LetGo(f)
        \/ \E p \in Ports : Engine(f, p) \/ Ready(f, p) \/ Complete(f, p) \/ FailCommand(f, p)

-----------------------------------------------------------------------------
Boot == ScanFunction \/ EndOfScan \/ Handoff \/ ProbePort \/ Rebase \/ EndOfProbe

CallStep ==
    NoController \/ FindCmdSlot \/ SetupCMD \/ PortReady \/ PollIssued \/ PollError

Next ==
    \/ Boot \/ CallStep \/ External
    \/ \E op \in {"read", "write"}, s \in Sectors, b \in Buffers : StartCall(op, s, b)

Spec == Init /\ [][Next]_vars

\* The kernel task goes on, the firmware lets go, engines follow their bits, and
\* a command that was issued is completed or fails.
FairSpec ==
    /\ Spec
    /\ WF_vars(Boot) /\ WF_vars(CallStep)
    /\ \A f \in 1 .. Max({Len(m) : m \in Machines}) :
        /\ WF_vars(f \in HBAs /\ LetGo(f))
        /\ \A p \in Ports :
            /\ WF_vars(f \in HBAs /\ Engine(f, p))
            /\ WF_vars(f \in HBAs /\ (Complete(f, p) \/ FailCommand(f, p)))

-----------------------------------------------------------------------------
(* Properties *)

TypeOK ==
    /\ boot.step \in {"scan", "handoff", "probe", "rebase", "hung", "booted"}
    /\ boot.f \in 1 .. (Len(machine) + 1)
    /\ \A f \in HBAs : \A p \in Ports :
         LET port == hba[f].port[p]
         IN  /\ port.done \subseteq port.ci /\ port.ci \subseteq Slots
             /\ port.ci # {} => p \in hba[f].sata
             /\ \A s \in Slots : port.table[s].sector \in Sectors /\ port.table[s].buffer \in Buffers
    /\ call.op \in {"none", "read", "write"}
    /\ call.step \in {"none", "absent", "find", "setup", "ready", "poll", "error"}
    /\ call.slot \in Slots \cup {-1}
    /\ disk \in [Sectors -> Values]
    /\ memory \in [Buffers -> Values]

\* Through errors that leave slots issued for good, busy ports and a machine
\* without a controller, a call moves its sector or says that it did not, and
\* touches nothing else.
Service == INSTANCE DiskService WITH
    call <- [op |-> call.op, sector |-> call.sector, buffer |-> call.buffer, ok |-> call.ok]

IsDiskService == Service!Spec

\* The command list of a slot that is still issued is not written again: the
\* controller may be at it.
IssuedTablesAreLeft ==
    [][\A f \in HBAs : \A p \in Ports : \A s \in hba[f].port[p].ci :
         hba'[f].port[p].table[s] = hba[f].port[p].table[s]]_vars

\* Commands go to drives only, and to ports whose engines have been stopped,
\* given their own lists and started again.
CommandsReachDrives ==
    call.step \in {"find", "setup", "ready", "poll", "error"} =>
        LET f == call.port[1]
            p == call.port[2]
        IN  /\ machine[f].kind = "ahci"
            /\ p \in machine[f].implemented
            /\ machine[f].port[p].link
            /\ Port.rebased /\ Port.st

\* Every call returns, unless the port stopped at an earlier error.
EveryCallReturns == call.op # "none" ~> call.op = "none" \/ spoiled

\* Initialisation ends if every controller has a drive.
BootEnds ==
    (\A f \in HBAs : \E p \in machine[f].implemented :
        machine[f].port[p].link /\ machine[f].port[p].sig = "ata")
    ~> boot.step = "booted"
=============================================================================
