----------------------------- MODULE AHCI_proofs -----------------------------
(***************************************************************************)
(* Theorems about AHCI for any machine, any number of ports, slots and     *)
(* calls: commands reach prepared drives only, the table of a command that *)
(* is still issued is left alone, and the driver implements DiskService.   *)
(***************************************************************************)
EXTENDS AHCI, Induction

PortRecords ==
    [fre : BOOLEAN, st : BOOLEAN, fr : BOOLEAN, cr : BOOLEAN, busy : BOOLEAN, rebased : BOOLEAN,
     ci : SUBSET Slots, done : SUBSET Slots, tfes : BOOLEAN, halted : BOOLEAN,
     table : [Slots -> [write : BOOLEAN, sector : Sectors, buffer : Buffers]]]

HBARecords == [owned : BOOLEAN, sata : SUBSET Ports, port : [Ports -> PortRecords]]

Handling == {"handoff", "probe", "rebase", "hung"}      \* InitializeAHCI is at work
Working  == {"find", "setup", "ready", "poll", "error"}     \* a command is under way
Issued   == {"poll", "error"}

CallRecords ==
    [op : {"none", "read", "write"}, step : {"none", "absent"} \cup Working, ok : BOOLEAN,
     sector : Sectors, buffer : Buffers, port : Nat \X Nat, slot : Slots \cup {-1}]

BootRecords == [step : {"scan", "booted"} \cup Handling, f : Nat, p : Nat]

TypeInv ==
    /\ machine \in Seq(PCIFunctions)
    /\ firstPCI \in Seq([f : Nat, driver : {"absent", "bridge", "ahci", "other"}])
    /\ hba \in [HBAs -> HBARecords]
    /\ boot \in BootRecords
    /\ call \in CallRecords
    /\ disk \in [Sectors -> Values]
    /\ memory \in [Buffers -> Values]

\* The drives found so far have been prepared, and are behind the scan.
DriveInv ==
    \A f \in HBAs : \A p \in hba[f].sata :
        /\ p \in Implemented(f) /\ machine[f].port[p].link
        /\ hba[f].port[p].rebased /\ hba[f].port[p].st
        /\ f < boot.f \/ (f = boot.f /\ p < boot.p)

\* Every controller in the list that InitializeAHCI has finished has a drive.
ScanInv ==
    /\ boot.f \in 1 .. Len(machine) + 1
    /\ boot.step \in Handling => boot.f \in HBAs
    /\ boot.step = "rebase" => boot.p \in Implemented(boot.f) /\ PortType(boot.f, boot.p) = "ata"
    /\ boot.step = "booted" => boot.f \notin DOMAIN machine
    /\ \A i \in Controllers :
         LET f == firstPCI[i].f
         IN  /\ f \in HBAs
             /\ \/ f < boot.f /\ hba[f].sata # {}
                \/ f = boot.f /\ boot.step \in Handling

\* Only drives have commands issued, and only the call's own can still move data.
CommandInv ==
    \A f \in HBAs : \A p \in Ports :
        /\ hba[f].port[p].done \subseteq hba[f].port[p].ci
        /\ hba[f].port[p].ci # {} => p \in hba[f].sata
        /\ \A s \in hba[f].port[p].ci \ hba[f].port[p].done :
             call.step \in Issued /\ call.port = <<f, p>> /\ call.slot = s

\* The command is the caller's, an error is its own, and one that is no longer
\* issued has moved its sector.
CallInv ==
    /\ call.op = "none" <=> call.step = "none"
    /\ call.step # "none" => boot.step = "booted"
    /\ call.step \in Working =>
         \E f \in HBAs : \E p \in hba[f].sata : call.port = <<f, p>>
    /\ call.step \in {"find", "setup", "ready"} => ~Port.tfes
    /\ call.step \in {"setup", "ready"} => call.slot \in Slots \ Port.ci
    /\ call.step \in {"ready"} \cup Issued =>
         call.slot \in Slots /\ Port.table[call.slot] = Table(call.op, call.sector, call.buffer)
    /\ call.step \in Issued =>
         /\ Port.tfes => call.slot \in Port.done
         /\ call.slot \notin Port.ci => disk[call.sector] = memory[call.buffer]

IInv == TypeInv /\ DriveInv /\ ScanInv /\ CommandInv /\ CallInv

-----------------------------------------------------------------------------
(* The registers of one port change, and no others. *)

WithPort(f, p, r) == [hba EXCEPT ![f].port[p] = r]

LEMMA SetPort ==
    ASSUME TypeInv, NEW f \in HBAs, NEW p \in Ports, NEW r \in PortRecords
    PROVE  LET h == WithPort(f, p, r) IN
           /\ h \in [HBAs -> HBARecords]
           /\ h[f].port[p] = r
           /\ \A g \in HBAs : h[g].sata = hba[g].sata /\ h[g].owned = hba[g].owned
           /\ \A g \in HBAs : \A q \in Ports :
                 g # f \/ q # p => h[g].port[q] = hba[g].port[q]
  <1> DEFINE R == [hba[f] EXCEPT !.port[p] = r]
             h == WithPort(f, p, r)
  <1>1. hba \in [HBAs -> HBARecords] /\ hba[f] \in HBARecords
    BY DEF TypeInv
  <1>2. /\ R \in HBARecords /\ R.sata = hba[f].sata /\ R.owned = hba[f].owned
        /\ R.port = [hba[f].port EXCEPT ![p] = r]
    BY <1>1 DEF HBARecords
  <1>3. h = [hba EXCEPT ![f] = R]
    BY DEF WithPort
  <1>4. hba[f].port \in [Ports -> PortRecords]
    BY <1>1 DEF HBARecords
  <1> HIDE DEF R, h
  <1>5. /\ h \in [HBAs -> HBARecords]
        /\ h[f].port[p] = r
        /\ \A g \in HBAs : h[g].sata = hba[g].sata /\ h[g].owned = hba[g].owned
        /\ \A g \in HBAs : \A q \in Ports :
              g # f \/ q # p => h[g].port[q] = hba[g].port[q]
    BY <1>1, <1>2, <1>3, <1>4
  <1> QED
    BY <1>5 DEF h

\* Ports and controllers are numbers, and those of a call are a drive's.
LEMMA Facts ==
    ASSUME IInv
    PROVE  /\ Ports \subseteq Nat /\ HBAs \subseteq Nat /\ Slots \subseteq Nat
           /\ \A f \in HBAs : hba[f].sata \subseteq Ports
           /\ \A f \in HBAs : \A p \in Ports : hba[f].port[p] \in PortRecords
           /\ HBAs = {f \in 1 .. Len(machine) : machine[f].kind = "ahci"} /\ Len(machine) \in Nat
  BY RangesAssumption DEF IInv, TypeInv, HBAs, HBARecords

LEMMA WorkingPort ==
    ASSUME IInv, call.step \in Working
    PROVE  \E f \in HBAs : \E p \in Ports :
             /\ p \in hba[f].sata /\ call.port = <<f, p>> /\ call.port[1] = f /\ call.port[2] = p
             /\ Port = hba[f].port[p] /\ boot.step = "booted"
             /\ call.op \in {"read", "write"} /\ call.step # "none"
  <1>1. PICK f \in HBAs : \E p \in hba[f].sata : call.port = <<f, p>>
    BY DEF IInv, CallInv
  <1>2. PICK p \in hba[f].sata : call.port = <<f, p>>
    BY <1>1
  <1>3. call.step # "none" /\ call.op \in {"read", "write"} /\ boot.step = "booted"
    BY DEF IInv, CallInv, TypeInv, CallRecords, Working
  <1>4. p \in Ports
    BY Facts
  <1> QED
    BY <1>2, <1>3, <1>4 DEF Port

\* No command is pending between calls.
LEMMA NothingPending ==
    ASSUME IInv, call.step \notin Issued, NEW f \in HBAs, NEW p \in Ports
    PROVE  hba[f].port[p].ci \subseteq hba[f].port[p].done
  BY DEF IInv, CommandInv

-----------------------------------------------------------------------------
(* The invariant holds at the start, and every step keeps it. *)

LEMMA NoCallTyped ==
    /\ NoTable \in [write : BOOLEAN, sector : Sectors, buffer : Buffers]
    /\ NoCall \in CallRecords /\ NoCall.op = "none" /\ NoCall.step = "none"
  <1>1. NoTable \in [write : BOOLEAN, sector : Sectors, buffer : Buffers]
    BY RangesAssumption DEF NoTable
  <1>2. NoTable.sector \in Sectors /\ NoTable.buffer \in Buffers
    BY <1>1
  <1> QED
    BY <1>1, <1>2 DEF NoCall, CallRecords

LEMMA IInvInit == Init => IInv
  <1> SUFFICES ASSUME Init PROVE IInv
    OBVIOUS
  <1>1. PICK running \in BOOLEAN, busy \in BOOLEAN, owned \in BOOLEAN :
          hba = [f \in HBAs |-> [owned |-> owned, sata |-> {},
                  port |-> [p \in Ports |-> FirmwarePort(running, busy /\ machine[f].port[p].link)]]]
    BY DEF Init
  <1>2. machine \in Seq(PCIFunctions) /\ HBAs \subseteq DOMAIN machine
    BY RangesAssumption DEF Init, HBAs
  <1>3. \A f \in HBAs : \A p \in Ports :
          FirmwarePort(running, busy /\ machine[f].port[p].link) \in PortRecords
    <2>1. \A b \in BOOLEAN : FirmwarePort(running, b) \in PortRecords
      BY NoCallTyped DEF FirmwarePort, PortRecords
    <2> QED
      BY <1>2, <2>1 DEF PCIFunctions
  <1>4. hba \in [HBAs -> HBARecords] /\ \A f \in HBAs : hba[f].sata = {}
    BY <1>1, <1>3 DEF HBARecords
  <1>5. \A f \in HBAs : \A p \in Ports : hba[f].port[p].ci = {} /\ hba[f].port[p].done = {}
    BY <1>1 DEF FirmwarePort
  <1>6. call = NoCall
    BY DEF Init
  <1>7. TypeInv
    <2>1. call \in CallRecords /\ boot \in BootRecords
      BY <1>6, NoCallTyped DEF Init, BootRecords
    <2>2. disk \in [Sectors -> Values] /\ memory \in [Buffers -> Values]
      BY RangesAssumption DEF Init
    <2>3. firstPCI \in Seq([f : Nat, driver : {"absent", "bridge", "ahci", "other"}])
      BY DEF Init
    <2> QED
      BY <1>2, <1>4, <2>1, <2>2, <2>3 DEF TypeInv
  <1>8. DriveInv /\ CommandInv
    BY <1>4, <1>5 DEF DriveInv, CommandInv
  <1>9. ScanInv
    BY <1>2 DEF Init, ScanInv, Handling, Controllers
  <1>10. CallInv
    BY <1>6, NoCallTyped DEF CallInv, Working, Issued
  <1> QED
    BY <1>7, <1>8, <1>9, <1>10 DEF IInv

\* Initialisation makes no call, and a step of the firmware moves no data.
LEMMA BootStep ==
    ASSUME IInv, Boot
    PROVE  /\ machine' = machine /\ HBAs' = HBAs /\ call' = call /\ disk' = disk /\ memory' = memory
           /\ boot.step # "booted" /\ call.step = "none"
  <1>1. machine' = machine /\ NoCallYet /\ boot.step # "booted"
    BY DEF Boot, ScanFunction, EndOfScan, Handoff, ProbePort, Rebase, EndOfProbe
  <1> QED
    BY <1>1 DEF NoCallYet, HBAs, IInv, CallInv

LEMMA ScanFunctionStep == ASSUME IInv, ScanFunction PROVE IInv'
  <1> DEFINE f == boot.f
  <1>1. /\ machine' = machine /\ HBAs' = HBAs /\ call' = call /\ disk' = disk /\ memory' = memory
        /\ call.step = "none" /\ hba' = hba
    BY BootStep DEF Boot, ScanFunction
  <1>2. /\ TypeInv /\ DriveInv /\ ScanInv /\ CommandInv /\ CallInv
        /\ f \in DOMAIN machine /\ f \in 1 .. Len(machine) /\ boot.step = "scan" /\ f \in Nat
        /\ boot \in BootRecords /\ machine[f].kind \in {"absent", "bridge", "ahci", "other"}
    <2>1. machine \in Seq(PCIFunctions) /\ boot \in BootRecords
      BY DEF IInv, TypeInv
    <2>2. f \in DOMAIN machine /\ f \in 1 .. Len(machine) /\ machine[f] \in PCIFunctions
      BY <2>1 DEF ScanFunction
    <2> QED
      BY <2>1, <2>2 DEF IInv, ScanFunction, BootRecords, PCIFunctions
  <1>3. CASE firstPCI' = firstPCI /\ boot' = NextFunction
    <2>1. boot' \in BootRecords /\ boot'.f = f + 1 /\ boot'.step = "scan"
      BY <1>2, <1>3 DEF NextFunction, BootRecords
    <2>2. TypeInv'
      BY <1>1, <1>2, <1>3, <2>1 DEF TypeInv
    <2>3. DriveInv'
      BY <1>1, <1>2, <2>1, Facts DEF DriveInv, Implemented
    <2>4. ScanInv'
      BY <1>1, <1>2, <1>3, <2>1, Facts DEF ScanInv, Handling, Controllers
    <2>5. CommandInv' /\ CallInv'
      BY <1>1, <1>2 DEF CommandInv, CallInv, Working, Issued
    <2> QED
      BY <2>2, <2>3, <2>4, <2>5 DEF IInv
  <1>4. CASE /\ firstPCI' = Append(firstPCI, [f |-> f, driver |-> machine[f].kind])
             /\ boot' = IF machine[f].kind = "ahci" THEN [boot EXCEPT !.step = "handoff"]
                        ELSE NextFunction
    <2>1. /\ boot' \in BootRecords /\ boot'.f \in 1 .. Len(machine) + 1 /\ boot'.f >= f
          /\ machine[f].kind = "ahci" => boot'.f = f /\ boot'.step = "handoff" /\ boot'.p = boot.p
          /\ machine[f].kind # "ahci" => boot'.f = f + 1 /\ boot'.step = "scan"
      BY <1>2, <1>4 DEF NextFunction, BootRecords, Handling
    <2> DEFINE new == [f |-> f, driver |-> machine[f].kind]
               Devices == [f : Nat, driver : {"absent", "bridge", "ahci", "other"}]
    <2>2. new \in Devices /\ firstPCI \in Seq(Devices)
      BY <1>2 DEF TypeInv
    <2>3. /\ firstPCI' \in Seq(Devices) /\ Len(firstPCI') = Len(firstPCI) + 1
          /\ firstPCI'[Len(firstPCI) + 1] = new
          /\ \A i \in 1 .. Len(firstPCI) : firstPCI'[i] = firstPCI[i]
          /\ DOMAIN firstPCI' = 1 .. Len(firstPCI) + 1 /\ DOMAIN firstPCI = 1 .. Len(firstPCI)
      BY <1>4, <2>2
    <2>4. TypeInv'
      BY <1>1, <1>2, <2>1, <2>3 DEF TypeInv
    <2>5. DriveInv'
      BY <1>1, <1>2, <2>1, Facts DEF DriveInv, Implemented
    <2>6. ScanInv'
      <3>1. boot'.step \in Handling => boot'.f \in HBAs
        BY <1>2, <2>1 DEF Handling, HBAs
      <3>2. boot'.step \notin {"rebase", "booted"}
        BY <2>1
      <3>3. ASSUME NEW i \in Controllers'
            PROVE  /\ firstPCI'[i].f \in HBAs
                   /\ \/ firstPCI'[i].f < boot'.f /\ hba[firstPCI'[i].f].sata # {}
                      \/ firstPCI'[i].f = boot'.f /\ boot'.step \in Handling
        <4>1. CASE i = Len(firstPCI) + 1
          <5>1. firstPCI'[i].f = f /\ machine[f].kind = "ahci"
            BY <2>3, <4>1 DEF Controllers
          <5> QED
            BY <1>2, <2>1, <5>1 DEF HBAs, Handling
        <4>2. CASE i # Len(firstPCI) + 1
          <5>1. i \in Controllers /\ firstPCI'[i].f = firstPCI[i].f
            BY <2>3, <4>2 DEF Controllers
          <5>2. firstPCI[i].f \in HBAs /\ firstPCI[i].f < f /\ hba[firstPCI[i].f].sata # {}
            BY <1>2, <5>1 DEF ScanInv, Handling
          <5> QED
            BY <1>2, <2>1, <5>1, <5>2, Facts
        <4> QED
          BY <4>1, <4>2
      <3> QED
        BY <1>1, <2>1, <3>1, <3>2, <3>3 DEF ScanInv
    <2>7. CommandInv' /\ CallInv'
      BY <1>1, <1>2 DEF CommandInv, CallInv, Working, Issued
    <2> QED
      BY <2>4, <2>5, <2>6, <2>7 DEF IInv
  <1> QED
    BY <1>3, <1>4 DEF ScanFunction

LEMMA NextPortIs ==
    ASSUME IInv
    PROVE  /\ NextPort \in BootRecords /\ NextPort.step = "probe"
           /\ NextPort.f = boot.f /\ NextPort.p = boot.p + 1
  <1>1. boot \in BootRecords /\ boot.p \in Nat
    BY DEF IInv, TypeInv, BootRecords
  <1> DEFINE b == [boot EXCEPT !.step = "probe"]
  <1>2. b \in BootRecords /\ b.f = boot.f /\ b.p = boot.p /\ b.step = "probe"
    BY <1>1 DEF BootRecords, Handling
  <1>3. boot.p + 1 \in Nat /\ NextPort = [b EXCEPT !.p = boot.p + 1]
    BY <1>1 DEF NextPort, BootRecords
  <1> HIDE DEF b
  <1> QED
    BY <1>2, <1>3 DEF BootRecords

\* The steps of initialisation that change neither a register nor the list.
LEMMA BootOnlyStep ==
    ASSUME IInv, EndOfScan \/ Handoff \/ EndOfProbe \/ (ProbePort /\ boot' = NextPort)
    PROVE  IInv'
  <1>1. /\ machine' = machine /\ HBAs' = HBAs /\ call' = call /\ disk' = disk /\ memory' = memory
        /\ call.step = "none" /\ hba' = hba /\ firstPCI' = firstPCI
    <2>1. NextPort.step = "probe"
      BY DEF NextPort, IInv, TypeInv, BootRecords
    <2>2. [boot EXCEPT !.step = "rebase"].step = "rebase"
      BY DEF IInv, TypeInv, BootRecords
    <2> QED
      BY <2>1, <2>2, BootStep DEF Boot, EndOfScan, Handoff, EndOfProbe, ProbePort
  <1>2. TypeInv /\ DriveInv /\ ScanInv /\ CommandInv /\ CallInv /\ boot \in BootRecords
    BY DEF IInv, TypeInv
  <1>3. CASE EndOfScan
    <2>1. boot' \in BootRecords /\ boot'.f = boot.f /\ boot'.p = boot.p /\ boot'.step = "booted"
          /\ boot.step = "scan" /\ boot.f \notin DOMAIN machine
      BY <1>2, <1>3 DEF EndOfScan, BootRecords
    <2>2. TypeInv' /\ DriveInv' /\ ScanInv'
      BY <1>1, <1>2, <2>1 DEF TypeInv, DriveInv, ScanInv, Implemented, Controllers, Handling
    <2>3. CommandInv' /\ CallInv'
      BY <1>1, <1>2 DEF CommandInv, CallInv, Working, Issued
    <2> QED
      BY <2>2, <2>3 DEF IInv
  <1>4. CASE Handoff
    <2>1. boot' \in BootRecords /\ boot'.f = boot.f /\ boot'.p = boot.p /\ boot'.step = "probe"
          /\ boot.step = "handoff"
      BY <1>2, <1>4 DEF Handoff, BootRecords, Handling
    <2>2. TypeInv' /\ DriveInv' /\ ScanInv'
      BY <1>1, <1>2, <2>1 DEF TypeInv, DriveInv, ScanInv, Implemented, Controllers, Handling
    <2>3. CommandInv' /\ CallInv'
      BY <1>1, <1>2 DEF CommandInv, CallInv, Working, Issued
    <2> QED
      BY <2>2, <2>3 DEF IInv
  <1>5. CASE EndOfProbe
    <2>1. boot.step = "probe" /\ boot.f \in HBAs /\ boot.f \in 1 .. Len(machine)
      BY <1>2, <1>5, Facts DEF EndOfProbe, ScanInv, Handling
    <2>2. CASE hba[boot.f].sata = {}
      <3>1. boot' \in BootRecords /\ boot'.f = boot.f /\ boot'.p = boot.p /\ boot'.step = "hung"
        BY <1>2, <1>5, <2>2 DEF EndOfProbe, BootRecords, Handling
      <3>2. TypeInv' /\ DriveInv' /\ ScanInv'
        BY <1>1, <1>2, <2>1, <3>1 DEF TypeInv, DriveInv, ScanInv, Implemented, Controllers, Handling
      <3>3. CommandInv' /\ CallInv'
        BY <1>1, <1>2 DEF CommandInv, CallInv, Working, Issued
      <3> QED
        BY <3>2, <3>3 DEF IInv
    <2>3. CASE hba[boot.f].sata # {}
      <3>1. boot' \in BootRecords /\ boot'.f = boot.f + 1 /\ boot'.step = "scan"
        BY <1>2, <1>5, <2>3 DEF EndOfProbe, NextFunction, BootRecords
      <3>2. TypeInv'
        BY <1>1, <1>2, <3>1 DEF TypeInv
      <3>3. DriveInv'
        BY <1>1, <1>2, <2>1, <3>1, Facts DEF DriveInv, Implemented
      <3>4. ScanInv'
        BY <1>1, <1>2, <2>1, <2>3, <3>1, Facts DEF ScanInv, Handling, Controllers
      <3>5. CommandInv' /\ CallInv'
        BY <1>1, <1>2 DEF CommandInv, CallInv, Working, Issued
      <3> QED
        BY <3>2, <3>3, <3>4, <3>5 DEF IInv
    <2> QED
      BY <2>2, <2>3
  <1>6. CASE ProbePort /\ boot' = NextPort
    <2>1. boot.step = "probe" /\ boot.p \in Nat
      BY <1>2, <1>6 DEF ProbePort, BootRecords
    <2>2. boot' \in BootRecords /\ boot'.f = boot.f /\ boot'.p = boot.p + 1 /\ boot'.step = "probe"
      BY <1>6, NextPortIs
    <2>3. DriveInv'
      BY <1>1, <1>2, <2>1, <2>2, Facts DEF DriveInv, Implemented
    <2>4. TypeInv' /\ ScanInv'
      BY <1>1, <1>2, <2>1, <2>2 DEF TypeInv, ScanInv, Controllers, Handling
    <2>5. CommandInv' /\ CallInv'
      BY <1>1, <1>2 DEF CommandInv, CallInv, Working, Issued
    <2> QED
      BY <2>3, <2>4, <2>5 DEF IInv
  <1> QED
    BY <1>3, <1>4, <1>5, <1>6

\* A step that changes nothing of a port that its commands depend on.
LEMMA QuietPort ==
    ASSUME IInv, NEW f \in HBAs, NEW p \in Ports, NEW r \in PortRecords,
           hba' = WithPort(f, p, r),
           r.ci = hba[f].port[p].ci, r.done = hba[f].port[p].done,
           r.tfes = hba[f].port[p].tfes, r.table = hba[f].port[p].table,
           p \in hba[f].sata => r.rebased /\ r.st,
           UNCHANGED <<machine, call, disk, memory>>
    PROVE  /\ HBAs' = HBAs /\ hba' \in [HBAs -> HBARecords]
           /\ \A g \in HBAs :
                /\ hba'[g].sata = hba[g].sata
                /\ \A q \in hba[g].sata : hba'[g].port[q].rebased /\ hba'[g].port[q].st
           /\ CommandInv'
           /\ boot'.step = boot.step \/ call.step = "none" => CallInv'
  <1>1. TypeInv /\ DriveInv /\ CommandInv /\ CallInv
    BY DEF IInv
  <1>2. HBAs' = HBAs
    BY DEF HBAs
  <1>3. /\ hba' \in [HBAs -> HBARecords]
        /\ \A g \in HBAs : hba'[g].sata = hba[g].sata
        /\ hba'[f].port[p] = r
        /\ \A g \in HBAs : \A q \in Ports : g # f \/ q # p => hba'[g].port[q] = hba[g].port[q]
    BY <1>1, SetPort
  <1>4. ASSUME NEW g \in HBAs, NEW q \in Ports
        PROVE  /\ hba'[g].port[q].ci = hba[g].port[q].ci /\ hba'[g].port[q].done = hba[g].port[q].done
               /\ hba'[g].port[q].tfes = hba[g].port[q].tfes
               /\ hba'[g].port[q].table = hba[g].port[q].table
    BY <1>3
  <1>5. ASSUME NEW g \in HBAs, NEW q \in hba[g].sata
        PROVE  hba'[g].port[q].rebased /\ hba'[g].port[q].st
    <2>1. q \in Ports /\ hba[g].port[q].rebased /\ hba[g].port[q].st
      BY <1>1, Facts DEF DriveInv
    <2> QED
      BY <1>3, <2>1
  <1>6. CommandInv'
    BY SMTT(30), <1>1, <1>2, <1>3, <1>4 DEF CommandInv
  <1>7. ASSUME boot'.step = boot.step \/ call.step = "none" PROVE CallInv'
    <2>1. CASE call.step \in Working
      <3>1. PICK g \in HBAs, q \in Ports :
              /\ q \in hba[g].sata /\ call.port = <<g, q>> /\ call.port[1] = g /\ call.port[2] = q
              /\ Port = hba[g].port[q]
        BY <2>1, WorkingPort
      <3>2. Port' = hba'[g].port[q]
        BY <3>1 DEF Port
      <3>3. /\ Port'.ci = Port.ci /\ Port'.done = Port.done /\ Port'.tfes = Port.tfes
            /\ Port'.table = Port.table
        BY <1>4, <3>1, <3>2
      <3>4. boot'.step = boot.step
        BY <1>7, <2>1 DEF Working
      <3>5. \E h \in HBAs' : \E k \in hba'[h].sata : call'.port = <<h, k>>
        BY <1>2, <1>3, <3>1
      <3> QED
        BY <1>1, <3>3, <3>4, <3>5 DEF CallInv
    <2>2. CASE call.step \notin Working
      BY <1>1, <1>7, <2>2 DEF CallInv, Working, Issued
    <2> QED
      BY <2>1, <2>2
  <1> QED
    BY <1>2, <1>3, <1>5, <1>6, <1>7

LEMMA ProbeDriveStep ==
    ASSUME IInv, ProbePort, boot' # NextPort PROVE IInv'
  <1> DEFINE f == boot.f
             p == boot.p
             r == Stopped(hba[f].port[p])
  <1>1. /\ machine' = machine /\ call' = call /\ disk' = disk /\ memory' = memory
        /\ call.step = "none" /\ firstPCI' = firstPCI /\ boot.step = "probe"
        /\ p \in Ports /\ p \in Implemented(f) /\ PortType(f, p) = "ata"
        /\ hba' = WithPort(f, p, r)
        /\ boot' = [boot EXCEPT !.step = "rebase"]
    BY BootStep DEF Boot, ProbePort, WithPort
  <1>2. TypeInv /\ DriveInv /\ ScanInv /\ boot \in BootRecords /\ f \in HBAs /\ f \in Nat /\ p \in Nat
    BY <1>1 DEF IInv, TypeInv, ScanInv, Handling, BootRecords
  <1>3. boot' \in BootRecords /\ boot'.f = f /\ boot'.p = p /\ boot'.step = "rebase"
    BY <1>1, <1>2 DEF BootRecords, Handling
  <1>4. /\ r \in PortRecords /\ r.ci = hba[f].port[p].ci /\ r.done = hba[f].port[p].done
        /\ r.tfes = hba[f].port[p].tfes /\ r.table = hba[f].port[p].table
    <2> DEFINE old == hba[f].port[p]
    <2>1. old \in PortRecords
      BY <1>1, <1>2, Facts
    <2> HIDE DEF old
    <2>2. Stopped(old) \in PortRecords /\ Stopped(old).ci = old.ci /\ Stopped(old).done = old.done
          /\ Stopped(old).tfes = old.tfes /\ Stopped(old).table = old.table
      BY <2>1 DEF Stopped, PortRecords
    <2> QED
      BY <2>2 DEF old
  <1>5. p \notin hba[f].sata
    BY <1>2 DEF DriveInv
  <1> HIDE DEF f, p, r
  <1>6. /\ HBAs' = HBAs /\ hba' \in [HBAs -> HBARecords]
        /\ \A g \in HBAs :
             /\ hba'[g].sata = hba[g].sata
             /\ \A q \in hba[g].sata : hba'[g].port[q].rebased /\ hba'[g].port[q].st
        /\ CommandInv' /\ CallInv'
    BY <1>1, <1>2, <1>4, <1>5, QuietPort
  <1>7. TypeInv'
    BY <1>1, <1>2, <1>3, <1>6 DEF TypeInv
  <1>8. DriveInv'
    BY <1>1, <1>2, <1>3, <1>6 DEF DriveInv, Implemented, f, p
  <1>9. ScanInv'
    BY <1>1, <1>2, <1>3, <1>6 DEF ScanInv, Implemented, PortType, Controllers, Handling, f, p
  <1> QED
    BY <1>6, <1>7, <1>8, <1>9 DEF IInv

LEMMA RebaseStep == ASSUME IInv, Rebase PROVE IInv'
  <1> DEFINE f == boot.f
             p == boot.p
             r == Started(hba[f].port[p])
             h == WithPort(f, p, r)
  <1>1. /\ machine' = machine /\ call' = call /\ disk' = disk /\ memory' = memory /\ HBAs' = HBAs
        /\ call.step = "none" /\ firstPCI' = firstPCI /\ boot.step = "rebase" /\ boot' = NextPort
    BY BootStep DEF Boot, Rebase
  <1>2. /\ TypeInv /\ DriveInv /\ ScanInv /\ CommandInv /\ CallInv
        /\ f \in HBAs /\ f \in Nat /\ p \in Nat /\ p \in Implemented(f) /\ PortType(f, p) = "ata"
    BY <1>1 DEF IInv, TypeInv, ScanInv, Handling, BootRecords
  <1>3. p \in Ports /\ hba[f] \in HBARecords /\ hba[f].port[p] \in PortRecords
    <2>1. machine \in Seq(PCIFunctions) /\ f \in DOMAIN machine
      BY <1>2 DEF TypeInv, HBAs
    <2>2. machine[f] \in PCIFunctions
      BY <2>1
    <2> QED
      BY <1>2, <2>2, Facts DEF Implemented, PCIFunctions, TypeInv
  <1>4. boot' \in BootRecords /\ boot'.f = f /\ boot'.p = p + 1 /\ boot'.step = "probe"
    BY <1>1, NextPortIs
  <1>5. /\ r \in PortRecords /\ r.ci = hba[f].port[p].ci /\ r.done = hba[f].port[p].done
        /\ r.tfes = hba[f].port[p].tfes /\ r.table = hba[f].port[p].table /\ r.rebased /\ r.st
    BY <1>3 DEF Started, PortRecords
  <1>6. hba' = [h EXCEPT ![f].sata = @ \cup {p}]
    BY DEF Rebase, WithPort
  <1> HIDE DEF f, p, r
  <1>7. /\ h \in [HBAs -> HBARecords]
        /\ h[f].port[p] = r
        /\ \A g \in HBAs : h[g].sata = hba[g].sata
        /\ \A g \in HBAs : \A q \in Ports : g # f \/ q # p => h[g].port[q] = hba[g].port[q]
    BY <1>2, <1>3, <1>5, SetPort
  <1> HIDE DEF h
  <1>8. /\ hba' \in [HBAs -> HBARecords]
        /\ \A g \in HBAs : hba'[g].port = h[g].port
        /\ \A g \in HBAs : hba'[g].sata = hba[g].sata \cup IF g = f THEN {p} ELSE {}
    BY <1>2, <1>3, <1>6, <1>7 DEF HBARecords
  <1>9. TypeInv'
    BY <1>1, <1>2, <1>4, <1>8 DEF TypeInv
  <1>10. DriveInv'
    <2> SUFFICES ASSUME NEW g \in HBAs, NEW q \in hba'[g].sata
                 PROVE  /\ q \in Implemented(g) /\ machine[g].port[q].link
                        /\ hba'[g].port[q].rebased /\ hba'[g].port[q].st
                        /\ g < boot'.f \/ (g = boot'.f /\ q < boot'.p)
      BY <1>1 DEF DriveInv, Implemented
    <2>1. CASE g = f /\ q = p
      <3>1. machine[g].port[q].link
        BY <1>2, <2>1 DEF PortType
      <3> QED
        BY <1>2, <1>3, <1>4, <1>5, <1>7, <1>8, <2>1, <3>1
    <2>2. CASE ~(g = f /\ q = p)
      <3>1. q \in hba[g].sata /\ q \in Ports /\ hba'[g].port[q] = hba[g].port[q] /\ g \in Nat /\ q \in Nat
        BY <1>7, <1>8, <2>2, Facts
      <3> QED
        BY <1>2, <1>4, <3>1 DEF DriveInv, f, p
    <2> QED
      BY <2>1, <2>2
  <1>11. ScanInv'
    BY <1>1, <1>2, <1>4, <1>8 DEF ScanInv, Controllers, Handling, f
  <1>12. CommandInv'
    <2>1. \A g \in HBAs : \A q \in Ports :
            hba'[g].port[q].ci = hba[g].port[q].ci /\ hba'[g].port[q].done = hba[g].port[q].done
      BY <1>5, <1>7, <1>8
    <2> QED
      BY <1>1, <1>2, <1>8, <2>1 DEF CommandInv
  <1>13. CallInv'
    BY <1>1, <1>2 DEF CallInv, Working, Issued
  <1> QED
    BY <1>9, <1>10, <1>11, <1>12, <1>13 DEF IInv

\* What a step after initialisation leaves alone, if it changes one port's
\* command registers at most.
LEMMA DrivesStay ==
    ASSUME IInv, UNCHANGED <<machine, firstPCI, boot>>,
           \/ hba' = hba
           \/ \E f \in HBAs : \E p \in Ports : \E r \in PortRecords :
                /\ hba' = WithPort(f, p, r)
                /\ r.rebased = hba[f].port[p].rebased /\ r.st = hba[f].port[p].st
    PROVE  HBAs' = HBAs /\ hba' \in [HBAs -> HBARecords] /\ DriveInv' /\ ScanInv'
  <1>1. TypeInv /\ DriveInv /\ ScanInv /\ HBAs' = HBAs
    BY DEF IInv, HBAs
  <1>2. /\ hba' \in [HBAs -> HBARecords]
        /\ \A g \in HBAs : /\ hba'[g].sata = hba[g].sata
                            /\ \A q \in Ports : /\ hba'[g].port[q].rebased = hba[g].port[q].rebased
                                                 /\ hba'[g].port[q].st = hba[g].port[q].st
    <2>1. CASE hba' = hba
      BY <1>1, <2>1 DEF TypeInv
    <2>2. ASSUME NEW f \in HBAs, NEW p \in Ports, NEW r \in PortRecords, hba' = WithPort(f, p, r),
                 r.rebased = hba[f].port[p].rebased, r.st = hba[f].port[p].st
          PROVE  /\ hba' \in [HBAs -> HBARecords]
                 /\ \A g \in HBAs :
                      /\ hba'[g].sata = hba[g].sata
                      /\ \A q \in Ports : /\ hba'[g].port[q].rebased = hba[g].port[q].rebased
                                           /\ hba'[g].port[q].st = hba[g].port[q].st
      <3>1. /\ hba' \in [HBAs -> HBARecords]
            /\ hba'[f].port[p] = r
            /\ \A g \in HBAs : hba'[g].sata = hba[g].sata
            /\ \A g \in HBAs : \A q \in Ports :
                  g # f \/ q # p => hba'[g].port[q] = hba[g].port[q]
        BY <1>1, <2>2, SetPort
      <3> QED
        BY <2>2, <3>1
    <2> QED
      BY <2>1, <2>2
  <1>3. DriveInv'
    BY <1>1, <1>2, Facts DEF DriveInv, Implemented
  <1>4. ScanInv'
    BY <1>1, <1>2 DEF ScanInv, Controllers, Implemented, PortType
  <1> QED
    BY <1>1, <1>2, <1>3, <1>4

\* A call that returns leaves no obligation.
LEMMA Returned ==
    ASSUME IInv, NEW ok \in BOOLEAN, Return(ok)
    PROVE  call' \in CallRecords /\ call'.op = "none" /\ call'.step = "none" /\ call'.ok = ok /\ CallInv'
  <1>1. call' \in CallRecords /\ call'.op = "none" /\ call'.step = "none" /\ call'.ok = ok
    BY NoCallTyped DEF Return, CallRecords
  <1> QED
    BY <1>1 DEF CallInv, Working, Issued

LEMMA LetGoStep == ASSUME IInv, NEW f \in HBAs, LetGo(f) PROVE IInv'
  <1>1. /\ machine' = machine /\ call' = call /\ disk' = disk /\ memory' = memory /\ boot' = boot
        /\ firstPCI' = firstPCI /\ HBAs' = HBAs /\ hba' = [hba EXCEPT ![f].owned = FALSE]
        /\ boot.step = "handoff"
    BY DEF LetGo, NoCallYet, HBAs
  <1>2. TypeInv /\ DriveInv /\ ScanInv /\ CommandInv /\ CallInv
    BY DEF IInv
  <1>3. hba \in [HBAs -> HBARecords] /\ hba[f] \in HBARecords
    BY <1>2 DEF TypeInv
  <1>4. /\ [hba[f] EXCEPT !.owned = FALSE] \in HBARecords
        /\ [hba[f] EXCEPT !.owned = FALSE].sata = hba[f].sata
        /\ [hba[f] EXCEPT !.owned = FALSE].port = hba[f].port
    BY <1>3 DEF HBARecords
  <1>5. /\ hba' \in [HBAs -> HBARecords]
        /\ \A g \in HBAs : hba'[g].sata = hba[g].sata /\ hba'[g].port = hba[g].port
    BY <1>1, <1>3, <1>4
  <1>6. TypeInv' /\ DriveInv' /\ ScanInv'
    <2>1. TypeInv'
      BY <1>1, <1>2, <1>5 DEF TypeInv
    <2>2. DriveInv'
      BY <1>1, <1>2, <1>5 DEF DriveInv, Implemented
    <2>3. ScanInv'
      BY <1>1, <1>2, <1>5 DEF ScanInv, Controllers, Implemented, PortType
    <2> QED
      BY <2>1, <2>2, <2>3
  <1>7. CommandInv'
    BY <1>1, <1>2, <1>5 DEF CommandInv
  <1>8. CallInv'
    BY <1>1, <1>2 DEF CallInv, Working, Issued
  <1> QED
    BY <1>6, <1>7, <1>8 DEF IInv

LEMMA EngineStep ==
    ASSUME IInv, NEW f \in HBAs, NEW p \in Ports, Engine(f, p) \/ Ready(f, p)
    PROVE  /\ IInv'
           /\ \A g \in HBAs : \A q \in Ports : hba'[g].port[q].table = hba[g].port[q].table
  <1> DEFINE old == hba[f].port[p]
             engines == [old EXCEPT !.fr = old.fre, !.cr = old.st]
             ready == [old EXCEPT !.busy = FALSE]
  <1>1. /\ machine' = machine /\ call' = call /\ disk' = disk /\ memory' = memory /\ boot' = boot
        /\ firstPCI' = firstPCI
    BY DEF Engine, Ready, NoCallYet
  <1>2. TypeInv /\ DriveInv /\ old \in PortRecords
    BY Facts DEF IInv
  <1>3. \E r \in PortRecords :
          /\ hba' = WithPort(f, p, r) /\ r.rebased = old.rebased /\ r.st = old.st
          /\ r.ci = old.ci /\ r.done = old.done /\ r.tfes = old.tfes /\ r.table = old.table
    <2>1. CASE Engine(f, p)
      <3>1. hba' = WithPort(f, p, engines)
        <4>1. hba' = [hba EXCEPT ![f].port[p] = [[old EXCEPT !.fr = old.fre] EXCEPT !.cr = old.st]]
          BY <1>2, <2>1 DEF Engine, TypeInv, HBARecords
        <4> QED
          BY <4>1 DEF WithPort
      <3>2. /\ engines \in PortRecords /\ engines.rebased = old.rebased /\ engines.st = old.st
            /\ engines.ci = old.ci /\ engines.done = old.done /\ engines.tfes = old.tfes
            /\ engines.table = old.table
        BY <1>2 DEF PortRecords
      <3> HIDE DEF engines
      <3> QED
        BY <3>1, <3>2
    <2>2. CASE Ready(f, p)
      <3>1. hba' = WithPort(f, p, ready)
        BY <2>2 DEF Ready, WithPort
      <3>2. /\ ready \in PortRecords /\ ready.rebased = old.rebased /\ ready.st = old.st
            /\ ready.ci = old.ci /\ ready.done = old.done /\ ready.tfes = old.tfes
            /\ ready.table = old.table
        BY <1>2 DEF PortRecords
      <3> HIDE DEF ready
      <3> QED
        BY <3>1, <3>2
    <2> QED
      BY <2>1, <2>2
  <1>4. PICK r \in PortRecords :
          /\ hba' = WithPort(f, p, r) /\ r.rebased = old.rebased /\ r.st = old.st
          /\ r.ci = old.ci /\ r.done = old.done /\ r.tfes = old.tfes /\ r.table = old.table
    BY <1>3
  <1>5. HBAs' = HBAs /\ hba' \in [HBAs -> HBARecords] /\ DriveInv' /\ ScanInv'
    BY <1>1, <1>4, DrivesStay
  <1>6. p \in hba[f].sata => r.rebased /\ r.st
    BY <1>2, <1>4 DEF DriveInv
  <1>7. CommandInv' /\ CallInv'
    BY <1>1, <1>4, <1>6, QuietPort
  <1>8. TypeInv'
    BY <1>1, <1>2, <1>5 DEF TypeInv
  <1>9. \A g \in HBAs : \A q \in Ports : hba'[g].port[q].table = hba[g].port[q].table
    <2>1. /\ hba'[f].port[p] = r
          /\ \A g \in HBAs : \A q \in Ports : g # f \/ q # p => hba'[g].port[q] = hba[g].port[q]
      BY <1>2, <1>4, SetPort
    <2> QED
      BY <1>4, <2>1
  <1> QED
    BY <1>5, <1>7, <1>8, <1>9 DEF IInv

LEMMA NoControllerStep == ASSUME IInv, NoController PROVE IInv'
  <1>1. /\ UNCHANGED <<machine, firstPCI, boot, hba, disk>> /\ Return(FALSE) /\ call.step \notin Issued
        /\ memory' = [memory EXCEPT ![call.buffer] = CHOOSE v \in Values : TRUE]
    BY DEF NoController, Booted, Issued
  <1>2. call' \in CallRecords /\ CallInv'
    BY <1>1, Returned
  <1>3. HBAs' = HBAs /\ hba' \in [HBAs -> HBARecords] /\ DriveInv' /\ ScanInv'
    BY <1>1, DrivesStay
  <1>4. TypeInv'
    <2>1. (CHOOSE v \in Values : TRUE) \in Values
      BY RangesAssumption
    <2>2. memory' \in [Buffers -> Values]
      BY <1>1, <2>1 DEF IInv, TypeInv
    <2> QED
      BY <1>1, <1>2, <1>3, <2>2 DEF IInv, TypeInv
  <1>5. CommandInv'
    BY <1>1, <1>3, NothingPending DEF IInv, CommandInv
  <1> QED
    BY <1>2, <1>3, <1>4, <1>5 DEF IInv

LEMMA StartCallStep ==
    ASSUME IInv, NEW op \in {"read", "write"}, NEW sector \in Sectors, NEW buffer \in Buffers,
           StartCall(op, sector, buffer)
    PROVE  /\ IInv'
           /\ call.op = "none" /\ call'.op = op /\ call'.sector = sector /\ call'.buffer = buffer
           /\ disk' = disk /\ \E v \in Values : memory' = [memory EXCEPT ![buffer] = v]
           /\ \A g \in HBAs : \A q \in Ports : hba'[g].port[q].table = hba[g].port[q].table
  <1> DEFINE f == firstPCI[Min(Controllers)].f
             p == FirstDrive(f)
             r == [hba[f].port[p] EXCEPT !.tfes = FALSE]
  <1>1. /\ UNCHANGED <<machine, firstPCI, boot, disk>> /\ call.op = "none" /\ boot.step = "booted"
        /\ call.step = "none"
        /\ TypeInv /\ ScanInv /\ DriveInv /\ CommandInv
    BY DEF StartCall, Booted, IInv, CallInv
  <1>2. \E v \in Values : memory' = [memory EXCEPT ![buffer] = v]
    <2>1. memory \in [Buffers -> Values]
      BY <1>1 DEF TypeInv
    <2>2. CASE op = "write"
      BY <2>2 DEF StartCall
    <2>3. CASE op # "write"
      <3>1. memory' = [memory EXCEPT ![buffer] = memory[buffer]] /\ memory[buffer] \in Values
        BY <2>1, <2>3 DEF StartCall
      <3> QED
        BY <3>1
    <2> QED
      BY <2>2, <2>3
  <1>3. memory' \in [Buffers -> Values]
    BY <1>1, <1>2 DEF TypeInv
  <1>4. Controllers # {} =>
          f \in HBAs /\ p \in hba[f].sata /\ p \in Ports /\ f \in Nat /\ p \in Nat
    <2> SUFFICES ASSUME Controllers # {}
                 PROVE  f \in HBAs /\ p \in hba[f].sata /\ p \in Ports /\ f \in Nat /\ p \in Nat
      OBVIOUS
    <2>1. Controllers \in SUBSET Nat
      BY <1>1 DEF Controllers, TypeInv
    <2>2. Min(Controllers) \in Controllers
      BY <2>1, MinIsLeast
    <2>3. f \in HBAs /\ hba[f].sata # {}
      BY <1>1, <2>2 DEF ScanInv, Handling
    <2>4. hba[f].sata \in SUBSET Nat
      BY <2>3, Facts
    <2>5. p \in hba[f].sata
      BY <2>3, <2>4, MinIsLeast DEF FirstDrive
    <2> QED
      BY <2>3, <2>4, <2>5, Facts
  <1>5. /\ call' \in CallRecords /\ call'.op = op /\ call'.sector = sector /\ call'.buffer = buffer
        /\ call'.step = IF Controllers = {} THEN "absent" ELSE "find"
        /\ Controllers # {} => call'.port = <<f, p>>
    <2> DEFINE step == IF Controllers = {} THEN "absent" ELSE "find"
               port == IF Controllers = {} THEN <<0, 0>> ELSE <<f, p>>
    <2>1. port \in Nat \X Nat /\ step \in {"none", "absent"} \cup Working
      BY <1>4 DEF Working
    <2>2. call' = [NoCall EXCEPT !.op = op, !.sector = sector, !.buffer = buffer,
                                 !.step = step, !.port = port]
      BY DEF StartCall
    <2>3. Controllers # {} => port = <<f, p>>
      OBVIOUS
    <2> HIDE DEF port, step
    <2>4. /\ call' \in CallRecords /\ call'.op = op /\ call'.sector = sector /\ call'.buffer = buffer
          /\ call'.step = step /\ call'.port = port
      BY <2>1, <2>2, NoCallTyped DEF CallRecords
    <2> QED
      BY <2>3, <2>4 DEF step
  <1>6. CASE Controllers = {}
    <2>1. hba' = hba /\ call'.step = "absent"
      BY <1>5, <1>6 DEF StartCall
    <2>2. HBAs' = HBAs /\ hba' \in [HBAs -> HBARecords] /\ DriveInv' /\ ScanInv'
      BY <1>1, <2>1, DrivesStay
    <2>3. TypeInv'
      BY <1>1, <1>3, <1>5, <2>2 DEF TypeInv
    <2>4. CommandInv' /\ CallInv'
      BY <1>1, <1>5, <2>1, <2>2 DEF CommandInv, CallInv, Working, Issued
    <2> QED
      BY <1>1, <1>2, <1>5, <2>1, <2>2, <2>3, <2>4 DEF IInv
  <1>7. CASE Controllers # {}
    <2>1. /\ f \in HBAs /\ p \in hba[f].sata /\ p \in Ports /\ call'.step = "find"
          /\ call'.port = <<f, p>> /\ hba[f].port[p] \in PortRecords
      BY <1>4, <1>5, <1>7, Facts
    <2>2. hba' = WithPort(f, p, r)
      BY <1>7 DEF StartCall, WithPort
    <2>3. /\ r \in PortRecords /\ r.rebased = hba[f].port[p].rebased /\ r.st = hba[f].port[p].st
          /\ r.ci = hba[f].port[p].ci /\ r.done = hba[f].port[p].done /\ ~r.tfes
          /\ r.table = hba[f].port[p].table
      BY <2>1 DEF PortRecords
    <2> HIDE DEF f, p, r
    <2>4. HBAs' = HBAs /\ hba' \in [HBAs -> HBARecords] /\ DriveInv' /\ ScanInv'
      BY <1>1, <2>1, <2>2, <2>3, DrivesStay
    <2>5. /\ hba'[f].port[p] = r
          /\ \A g \in HBAs : hba'[g].sata = hba[g].sata
          /\ \A g \in HBAs : \A q \in Ports : g # f \/ q # p => hba'[g].port[q] = hba[g].port[q]
      BY <1>1, <2>1, <2>2, <2>3, SetPort
    <2>6. TypeInv'
      BY <1>1, <1>3, <1>5, <2>4 DEF TypeInv
    <2>7. CommandInv'
      <3>1. \A g \in HBAs : \A q \in Ports :
              hba'[g].port[q].ci = hba[g].port[q].ci /\ hba'[g].port[q].done = hba[g].port[q].done
        BY <2>3, <2>5
      <3>2. \A g \in HBAs : \A q \in Ports : hba[g].port[q].ci \subseteq hba[g].port[q].done
        BY <1>1, NothingPending DEF Issued
      <3> QED
        BY <1>1, <2>4, <2>5, <3>1, <3>2 DEF CommandInv
    <2>8. CallInv'
      <3>1. Port' = r
        BY <2>1, <2>5 DEF Port
      <3>2. \E g \in HBAs' : \E q \in hba'[g].sata : call'.port = <<g, q>>
        BY <2>1, <2>4, <2>5
      <3> QED
        BY <1>1, <1>5, <2>1, <2>3, <3>1, <3>2 DEF CallInv, Issued
    <2>9. \A g \in HBAs : \A q \in Ports : hba'[g].port[q].table = hba[g].port[q].table
      BY <2>3, <2>5
    <2> QED
      BY <1>1, <1>2, <1>5, <2>4, <2>6, <2>7, <2>8, <2>9 DEF IInv
  <1> QED
    BY <1>6, <1>7

LEMMA FindCmdSlotStep ==
    ASSUME IInv, FindCmdSlot
    PROVE  /\ IInv' /\ UNCHANGED <<disk, memory>> /\ call.op \in {"read", "write"}
           /\ \/ Return(FALSE)
              \/ /\ call'.op = call.op /\ call'.sector = call.sector /\ call'.buffer = call.buffer
                 /\ call'.ok = call.ok
  <1>1. UNCHANGED <<machine, firstPCI, boot, hba, disk, memory>> /\ call.step = "find"
    BY DEF FindCmdSlot, Booted
  <1>2. PICK f \in HBAs, p \in Ports :
          /\ p \in hba[f].sata /\ call.port = <<f, p>> /\ call.port[1] = f /\ call.port[2] = p
          /\ Port = hba[f].port[p] /\ boot.step = "booted"
          /\ call.op \in {"read", "write"} /\ call.step # "none"
    BY <1>1, WorkingPort DEF Working
  <1>3. TypeInv /\ CallInv /\ CommandInv /\ call \in CallRecords /\ ~Port.tfes
    BY <1>1 DEF IInv, TypeInv, CallInv
  <1>4. HBAs' = HBAs /\ hba' \in [HBAs -> HBARecords] /\ DriveInv' /\ ScanInv'
    BY <1>1, DrivesStay
  <1>5. \A g \in HBAs : \A q \in Ports : hba[g].port[q].ci \subseteq hba[g].port[q].done
    BY <1>1, NothingPending DEF Issued
  <1>6. CommandInv'
    BY <1>1, <1>3, <1>4, <1>5 DEF CommandInv
  <1>7. CASE FreeSlots = {}
    <2>1. Return(FALSE)
      BY <1>7 DEF FindCmdSlot
    <2>2. call' \in CallRecords /\ CallInv'
      BY <2>1, Returned
    <2>3. TypeInv'
      BY <1>1, <1>3, <1>4, <2>2 DEF TypeInv
    <2> QED
      BY <1>1, <1>2, <1>4, <1>6, <2>1, <2>2, <2>3 DEF IInv
  <1>8. CASE FreeSlots # {}
    <2> DEFINE s == Min(FreeSlots)
    <2>1. s \in FreeSlots
      <3>1. FreeSlots \in SUBSET Nat
        BY Facts DEF FreeSlots
      <3> QED
        BY <1>8, <3>1, MinIsLeast
    <2>2. s \in Slots \ Port.ci
      BY <2>1 DEF FreeSlots
    <2>3. call' = [call EXCEPT !.step = "setup", !.slot = s]
      BY <1>8 DEF FindCmdSlot
    <2> HIDE DEF s
    <2>4. /\ call' \in CallRecords /\ call'.step = "setup" /\ call'.slot = s
          /\ call'.op = call.op /\ call'.sector = call.sector /\ call'.buffer = call.buffer
          /\ call'.ok = call.ok /\ call'.port = call.port
      BY <1>3, <2>2, <2>3 DEF CallRecords, Working
    <2>5. TypeInv'
      BY <1>1, <1>3, <1>4, <2>4 DEF TypeInv
    <2>6. CallInv'
      <3>1. Port' = Port
        BY <1>1, <2>4 DEF Port
      <3>2. \E g \in HBAs' : \E q \in hba'[g].sata : call'.port = <<g, q>>
        BY <1>1, <1>2, <1>4, <2>4
      <3> QED
        BY <1>1, <1>2, <1>3, <2>2, <2>4, <3>1, <3>2 DEF CallInv, Issued
    <2> QED
      BY <1>1, <1>2, <1>4, <1>6, <2>4, <2>5, <2>6 DEF IInv
  <1> QED
    BY <1>7, <1>8

LEMMA SetupCMDStep ==
    ASSUME IInv, SetupCMD
    PROVE  /\ IInv' /\ UNCHANGED <<disk, memory>>
           /\ call'.op = call.op /\ call'.sector = call.sector /\ call'.buffer = call.buffer
           /\ call'.ok = call.ok
           /\ \A g \in HBAs : \A q \in Ports : \A s \in hba[g].port[q].ci :
                hba'[g].port[q].table[s] = hba[g].port[q].table[s]
  <1>1. UNCHANGED <<machine, firstPCI, boot, disk, memory>> /\ call.step = "setup"
    BY DEF SetupCMD, Booted
  <1>2. PICK f \in HBAs, p \in Ports :
          /\ p \in hba[f].sata /\ call.port = <<f, p>> /\ call.port[1] = f /\ call.port[2] = p
          /\ Port = hba[f].port[p] /\ boot.step = "booted"
          /\ call.op \in {"read", "write"} /\ call.step # "none"
    BY <1>1, WorkingPort DEF Working
  <1> DEFINE old == hba[f].port[p]
             t == Table(call.op, call.sector, call.buffer)
             r == [old EXCEPT !.table[call.slot] = t]
  <1>3. TypeInv /\ CallInv /\ CommandInv /\ call \in CallRecords /\ old \in PortRecords
        /\ ~old.tfes /\ call.slot \in Slots \ old.ci
    BY <1>1, <1>2, Facts DEF IInv, TypeInv, CallInv
  <1>4. t \in [write : BOOLEAN, sector : Sectors, buffer : Buffers]
    BY <1>3 DEF Table, CallRecords
  <1>5. hba' = WithPort(f, p, r)
    BY <1>2 DEF SetupCMD, WithPort
  <1> HIDE DEF t
  <1>6. /\ r \in PortRecords /\ r.rebased = old.rebased /\ r.st = old.st /\ r.ci = old.ci
        /\ r.done = old.done /\ r.tfes = old.tfes /\ r.table[call.slot] = t
        /\ \A s \in Slots : s # call.slot => r.table[s] = old.table[s]
    BY <1>3, <1>4 DEF PortRecords
  <1> HIDE DEF r, old
  <1>7. HBAs' = HBAs /\ hba' \in [HBAs -> HBARecords] /\ DriveInv' /\ ScanInv'
    BY <1>1, <1>5, <1>6, DrivesStay DEF old
  <1>8. /\ hba'[f].port[p] = r
        /\ \A g \in HBAs : hba'[g].sata = hba[g].sata
        /\ \A g \in HBAs : \A q \in Ports : g # f \/ q # p => hba'[g].port[q] = hba[g].port[q]
    BY <1>3, <1>5, <1>6, SetPort
  <1>9. /\ call' \in CallRecords /\ call'.step = "ready" /\ call'.slot = call.slot
        /\ call'.op = call.op /\ call'.sector = call.sector /\ call'.buffer = call.buffer
        /\ call'.ok = call.ok /\ call'.port = call.port
    BY <1>3 DEF SetupCMD, CallRecords, Working
  <1>10. TypeInv'
    BY <1>1, <1>3, <1>7, <1>9 DEF TypeInv
  <1>11. CommandInv'
    <2>1. \A g \in HBAs : \A q \in Ports :
            hba'[g].port[q].ci = hba[g].port[q].ci /\ hba'[g].port[q].done = hba[g].port[q].done
      BY <1>6, <1>8 DEF old
    <2>2. \A g \in HBAs : \A q \in Ports : hba[g].port[q].ci \subseteq hba[g].port[q].done
      BY <1>1, NothingPending DEF Issued
    <2> QED
      BY <1>3, <1>7, <1>8, <2>1, <2>2 DEF CommandInv
  <1>12. CallInv'
    <2>1. Port' = r
      BY <1>2, <1>8, <1>9 DEF Port
    <2>2. \E g \in HBAs' : \E q \in hba'[g].sata : call'.port = <<g, q>>
      BY <1>2, <1>7, <1>8, <1>9
    <2> QED
      BY <1>1, <1>2, <1>3, <1>6, <1>9, <2>1, <2>2 DEF CallInv, Issued, t
  <1>13. ASSUME NEW g \in HBAs, NEW q \in Ports, NEW s \in hba[g].port[q].ci
         PROVE  hba'[g].port[q].table[s] = hba[g].port[q].table[s]
    <2>1. CASE g = f /\ q = p
      <3>1. s \in Slots /\ s # call.slot
        BY <1>3, <2>1, Facts DEF old, PortRecords
      <3> QED
        BY <1>6, <1>8, <2>1, <3>1 DEF old
    <2>2. CASE ~(g = f /\ q = p)
      BY <1>8, <2>2
    <2> QED
      BY <2>1, <2>2
  <1> QED
    BY <1>1, <1>7, <1>9, <1>10, <1>11, <1>12, <1>13 DEF IInv

LEMMA PortReadyStep ==
    ASSUME IInv, PortReady
    PROVE  /\ IInv' /\ UNCHANGED <<disk, memory>> /\ call.op \in {"read", "write"}
           /\ \/ Return(FALSE)
              \/ /\ call'.op = call.op /\ call'.sector = call.sector /\ call'.buffer = call.buffer
                 /\ call'.ok = call.ok
           /\ \A g \in HBAs : \A q \in Ports : hba'[g].port[q].table = hba[g].port[q].table
  <1>1. UNCHANGED <<machine, firstPCI, boot, disk, memory>> /\ call.step = "ready"
    BY DEF PortReady, Booted
  <1>2. PICK f \in HBAs, p \in Ports :
          /\ p \in hba[f].sata /\ call.port = <<f, p>> /\ call.port[1] = f /\ call.port[2] = p
          /\ Port = hba[f].port[p] /\ boot.step = "booted"
          /\ call.op \in {"read", "write"} /\ call.step # "none"
    BY <1>1, WorkingPort DEF Working
  <1> DEFINE old == hba[f].port[p]
             r == [old EXCEPT !.ci = @ \cup {call.slot}]
  <1>3. /\ TypeInv /\ CallInv /\ CommandInv /\ call \in CallRecords /\ old \in PortRecords
        /\ ~old.tfes /\ call.slot \in Slots \ old.ci
        /\ old.table[call.slot] = Table(call.op, call.sector, call.buffer)
    BY <1>1, <1>2, Facts DEF IInv, TypeInv, CallInv
  <1>4. \A g \in HBAs : \A q \in Ports : hba[g].port[q].ci \subseteq hba[g].port[q].done
    BY <1>1, NothingPending DEF Issued
  <1>5. CASE Return(FALSE) /\ hba' = hba
    <2>1. call' \in CallRecords /\ CallInv'
      BY <1>5, Returned
    <2>2. HBAs' = HBAs /\ hba' \in [HBAs -> HBARecords] /\ DriveInv' /\ ScanInv'
      BY <1>1, <1>5, DrivesStay
    <2>3. TypeInv'
      BY <1>1, <1>3, <2>1, <2>2 DEF TypeInv
    <2>4. CommandInv'
      BY <1>3, <1>4, <1>5, <2>2 DEF CommandInv
    <2> QED
      BY <1>1, <1>2, <1>5, <2>1, <2>2, <2>3, <2>4 DEF IInv
  <1>6. CASE hba' = WithPort(f, p, r) /\ call' = [call EXCEPT !.step = "poll"]
    <2>1. /\ r \in PortRecords /\ r.rebased = old.rebased /\ r.st = old.st
          /\ r.ci = old.ci \cup {call.slot}
          /\ r.done = old.done /\ r.tfes = old.tfes /\ r.table = old.table
      BY <1>3 DEF PortRecords
    <2> HIDE DEF r, old
    <2>2. HBAs' = HBAs /\ hba' \in [HBAs -> HBARecords] /\ DriveInv' /\ ScanInv'
      BY <1>1, <1>6, <2>1, DrivesStay DEF old
    <2>3. /\ hba'[f].port[p] = r
          /\ \A g \in HBAs : hba'[g].sata = hba[g].sata
          /\ \A g \in HBAs : \A q \in Ports : g # f \/ q # p => hba'[g].port[q] = hba[g].port[q]
      BY <1>3, <1>6, <2>1, SetPort
    <2>4. /\ call' \in CallRecords /\ call'.step = "poll" /\ call'.slot = call.slot
          /\ call'.op = call.op /\ call'.sector = call.sector /\ call'.buffer = call.buffer
          /\ call'.ok = call.ok /\ call'.port = call.port
      BY <1>3, <1>6 DEF CallRecords, Working
    <2>5. TypeInv'
      BY <1>1, <1>3, <2>2, <2>4 DEF TypeInv
    <2>6. CommandInv'
      <3> SUFFICES ASSUME NEW g \in HBAs, NEW q \in Ports
                   PROVE  /\ hba'[g].port[q].done \subseteq hba'[g].port[q].ci
                          /\ hba'[g].port[q].ci # {} => q \in hba'[g].sata
                          /\ \A s \in hba'[g].port[q].ci \ hba'[g].port[q].done :
                               call'.step \in Issued /\ call'.port = <<g, q>> /\ call'.slot = s
        BY <2>2 DEF CommandInv
      <3>1. CASE g = f /\ q = p
        <4>1. old.done \subseteq old.ci /\ old.ci \subseteq old.done
          BY <1>3, <1>4 DEF CommandInv, old
        <4> QED
          BY <1>2, <2>1, <2>3, <2>4, <3>1, <4>1 DEF Issued
      <3>2. CASE ~(g = f /\ q = p)
        BY <1>3, <1>4, <2>3, <3>2 DEF CommandInv
      <3> QED
        BY <3>1, <3>2
    <2>7. CallInv'
      <3>1. Port' = r
        BY <1>2, <2>3, <2>4 DEF Port
      <3>2. \E g \in HBAs' : \E q \in hba'[g].sata : call'.port = <<g, q>>
        BY <1>2, <2>2, <2>3, <2>4
      <3> QED
        BY <1>1, <1>2, <1>3, <2>1, <2>4, <3>1, <3>2 DEF CallInv, Issued
    <2>8. \A g \in HBAs : \A q \in Ports : hba'[g].port[q].table = hba[g].port[q].table
      BY <2>1, <2>3 DEF old
    <2> QED
      BY <1>1, <1>2, <2>2, <2>4, <2>5, <2>6, <2>7, <2>8 DEF IInv
  <1> QED
    BY <1>2, <1>5, <1>6 DEF PortReady, WithPort

LEMMA PollStep ==
    ASSUME IInv, PollIssued \/ PollError
    PROVE  /\ IInv' /\ UNCHANGED <<disk, memory, hba>> /\ call.op \in {"read", "write"}
           /\ \/ Return(FALSE)
              \/ Return(TRUE) /\ disk[call.sector] = memory[call.buffer]
              \/ /\ call'.op = call.op /\ call'.sector = call.sector /\ call'.buffer = call.buffer
                 /\ call'.ok = call.ok
  <1>1. UNCHANGED <<machine, firstPCI, boot, disk, memory, hba>> /\ call.step \in Issued
    BY DEF PollIssued, PollError, Booted, Issued
  <1>2. PICK f \in HBAs, p \in Ports :
          /\ p \in hba[f].sata /\ call.port = <<f, p>> /\ call.port[1] = f /\ call.port[2] = p
          /\ Port = hba[f].port[p] /\ boot.step = "booted"
          /\ call.op \in {"read", "write"} /\ call.step # "none"
    BY <1>1, WorkingPort DEF Working, Issued
  <1>3. /\ TypeInv /\ CallInv /\ CommandInv /\ call \in CallRecords
        /\ Port.tfes => call.slot \in Port.done
        /\ call.slot \notin Port.ci => disk[call.sector] = memory[call.buffer]
    BY <1>1 DEF IInv, TypeInv, CallInv
  <1>4. HBAs' = HBAs /\ hba' \in [HBAs -> HBARecords] /\ DriveInv' /\ ScanInv'
    BY <1>1, DrivesStay
  <1>5. CASE \/ Return(FALSE) /\ Port.tfes
             \/ Return(TRUE) /\ call.slot \notin Port.ci
    <2>1. call' \in CallRecords /\ CallInv'
      BY <1>5, Returned
    <2>2. TypeInv'
      BY <1>1, <1>3, <1>4, <2>1 DEF TypeInv
    <2>3. CommandInv'
      <3>1. ASSUME NEW g \in HBAs, NEW q \in Ports, NEW s \in hba[g].port[q].ci \ hba[g].port[q].done
            PROVE  FALSE
        <4>1. call.port = <<g, q>> /\ call.slot = s
          BY <1>3, <3>1 DEF CommandInv
        <4>2. g = f /\ q = p
          BY <1>2, <4>1
        <4> QED
          BY <1>2, <1>3, <1>5, <3>1, <4>1, <4>2
      <3> QED
        BY <1>1, <1>3, <1>4, <3>1 DEF CommandInv
    <2> QED
      BY <1>1, <1>2, <1>3, <1>4, <1>5, <2>1, <2>2, <2>3 DEF IInv
  <1>6. ASSUME NEW step \in Issued, call' = [call EXCEPT !.step = step] PROVE IInv' /\
          /\ call'.op = call.op /\ call'.sector = call.sector /\ call'.buffer = call.buffer
          /\ call'.ok = call.ok
    <2>1. /\ call' \in CallRecords /\ call'.step = step /\ call'.slot = call.slot
          /\ call'.op = call.op /\ call'.sector = call.sector /\ call'.buffer = call.buffer
          /\ call'.ok = call.ok /\ call'.port = call.port
      BY <1>3, <1>6 DEF CallRecords, Working, Issued
    <2>2. TypeInv'
      BY <1>1, <1>3, <1>4, <2>1 DEF TypeInv
    <2>3. CommandInv'
      BY <1>1, <1>3, <1>4, <2>1 DEF CommandInv
    <2>4. CallInv'
      <3>1. Port' = Port
        BY <1>1, <2>1 DEF Port
      <3> QED
        BY <1>1, <1>2, <1>3, <1>4, <2>1, <3>1 DEF CallInv, Issued, Working
    <2> QED
      BY <1>4, <2>1, <2>2, <2>3, <2>4 DEF IInv
  <1>7. \/ Return(FALSE) /\ Port.tfes
        \/ Return(TRUE) /\ call.slot \notin Port.ci
        \/ \E step \in Issued : call' = [call EXCEPT !.step = step]
    BY DEF PollIssued, PollError, ErrorSeen, Issued
  <1> QED
    BY <1>1, <1>2, <1>5, <1>6, <1>7

\* A command a controller can complete is the one of the call under way.
LEMMA PendingIsTheCalls ==
    ASSUME IInv, NEW f \in HBAs, NEW p \in Ports, NEW s \in Pending(f, p)
    PROVE  /\ s \in hba[f].port[p].ci \ hba[f].port[p].done /\ s \in Slots
           /\ call.step \in Issued /\ call.port = <<f, p>> /\ s = call.slot
           /\ call.op \in {"read", "write"} /\ boot.step = "booted"
           /\ p \in hba[f].sata /\ Port = hba[f].port[p]
           /\ hba[f].port[p].table[s] = Table(call.op, call.sector, call.buffer)
  <1>1. s \in hba[f].port[p].ci \ hba[f].port[p].done
    BY DEF Pending
  <1>2. call.step \in Issued /\ call.port = <<f, p>> /\ s = call.slot
    BY <1>1 DEF IInv, CommandInv
  <1>3. PICK g \in HBAs, q \in Ports :
          /\ q \in hba[g].sata /\ call.port = <<g, q>> /\ call.port[1] = g /\ call.port[2] = q
          /\ Port = hba[g].port[q] /\ boot.step = "booted"
          /\ call.op \in {"read", "write"} /\ call.step # "none"
    BY <1>2, WorkingPort DEF Working, Issued
  <1>4. g = f /\ q = p
    BY <1>2, <1>3
  <1> QED
    BY <1>1, <1>2, <1>3, <1>4 DEF IInv, CallInv

\* The data moves between the caller's sector and the caller's buffer.
LEMMA TransferMoves ==
    ASSUME IInv, call.op \in {"read", "write"}, Transfer(Table(call.op, call.sector, call.buffer))
    PROVE  /\ disk' \in [Sectors -> Values] /\ memory' \in [Buffers -> Values]
           /\ disk'[call.sector] = memory'[call.buffer]
           /\ \/ call.op = "write" /\ memory' = memory
                 /\ disk' = [disk EXCEPT ![call.sector] = memory[call.buffer]]
              \/ call.op = "read" /\ disk' = disk
                 /\ \E v \in Values : memory' = [memory EXCEPT ![call.buffer] = v]
  <1>1. /\ disk \in [Sectors -> Values] /\ memory \in [Buffers -> Values]
        /\ call.sector \in Sectors /\ call.buffer \in Buffers
    BY DEF IInv, TypeInv, CallRecords
  <1>2. disk[call.sector] \in Values /\ memory[call.buffer] \in Values
    BY <1>1
  <1>3. CASE call.op = "write"
    BY <1>1, <1>2, <1>3 DEF Transfer, Table
  <1>4. CASE call.op = "read"
    <2>1. disk' = disk /\ memory' = [memory EXCEPT ![call.buffer] = disk[call.sector]]
      BY <1>4 DEF Transfer, Table
    <2> QED
      BY <1>1, <1>2, <1>4, <2>1
  <1> QED
    BY <1>3, <1>4

LEMMA CompleteStep ==
    ASSUME IInv, NEW f \in HBAs, NEW p \in Ports, Complete(f, p) \/ FailCommand(f, p)
    PROVE  /\ IInv' /\ call' = call
           /\ \/ UNCHANGED <<disk, memory>>
              \/ call.op = "write" /\ memory' = memory
                 /\ disk' = [disk EXCEPT ![call.sector] = memory[call.buffer]]
              \/ call.op = "read" /\ disk' = disk
                 /\ \E v \in Values : memory' = [memory EXCEPT ![call.buffer] = v]
           /\ \A g \in HBAs : \A q \in Ports : hba'[g].port[q].table = hba[g].port[q].table
  <1>1. UNCHANGED <<machine, firstPCI, boot, call>>
    BY DEF Complete, FailCommand, Booted
  <1> DEFINE old == hba[f].port[p]
             completed(s) == [old EXCEPT !.ci = @ \ {s}]
             failed(s, halts) == [old EXCEPT !.tfes = TRUE, !.done = @ \cup {s}, !.halted = halts]
  <1>2. TypeInv /\ CallInv /\ CommandInv /\ old \in PortRecords
    BY Facts DEF IInv
  <1>3. PICK s \in Pending(f, p) :
          \/ /\ Transfer(hba[f].port[p].table[s])
             /\ hba' = WithPort(f, p, completed(s))
          \/ \E halts \in BOOLEAN :
               /\ Transfer(hba[f].port[p].table[s]) \/ UNCHANGED <<disk, memory>>
               /\ hba' = WithPort(f, p, failed(s, halts))
    <2>1. CASE Complete(f, p)
      BY <2>1 DEF Complete, WithPort
    <2>2. CASE FailCommand(f, p)
      <3>1. PICK s \in Pending(f, p) : \E halts \in BOOLEAN :
              /\ Transfer(hba[f].port[p].table[s]) \/ UNCHANGED <<disk, memory>>
              /\ hba' = [hba EXCEPT ![f].port[p].tfes = TRUE, ![f].port[p].done = @ \cup {s},
                                    ![f].port[p].halted = halts]
        BY <2>2 DEF FailCommand
      <3>2. PICK halts \in BOOLEAN :
              /\ Transfer(hba[f].port[p].table[s]) \/ UNCHANGED <<disk, memory>>
              /\ hba' = [hba EXCEPT ![f].port[p].tfes = TRUE, ![f].port[p].done = @ \cup {s},
                                    ![f].port[p].halted = halts]
        BY <3>1
      <3>3. hba' = WithPort(f, p, failed(s, halts))
        BY ZenonT(60), <1>2, <3>2 DEF WithPort, TypeInv, HBARecords
      <3> QED
        BY <3>2, <3>3
    <2> QED
      BY <2>1, <2>2
  <1>4. /\ s \in old.ci \ old.done /\ s \in Slots
        /\ call.step \in Issued /\ call.port = <<f, p>> /\ s = call.slot
        /\ call.op \in {"read", "write"} /\ boot.step = "booted"
        /\ p \in hba[f].sata /\ Port = old
        /\ old.table[s] = Table(call.op, call.sector, call.buffer)
    BY PendingIsTheCalls
  <1>5. /\ disk' \in [Sectors -> Values] /\ memory' \in [Buffers -> Values]
        /\ \/ UNCHANGED <<disk, memory>>
           \/ call.op = "write" /\ memory' = memory
              /\ disk' = [disk EXCEPT ![call.sector] = memory[call.buffer]]
           \/ call.op = "read" /\ disk' = disk
              /\ \E v \in Values : memory' = [memory EXCEPT ![call.buffer] = v]
    <2>1. CASE UNCHANGED <<disk, memory>>
      BY <1>2, <2>1 DEF TypeInv
    <2>2. CASE Transfer(Table(call.op, call.sector, call.buffer))
      BY <1>4, <2>2, TransferMoves
    <2> QED
      BY <1>3, <1>4, <2>1, <2>2
  <1>6. \E r \in PortRecords :
          /\ hba' = WithPort(f, p, r)
          /\ r.rebased = old.rebased /\ r.st = old.st /\ r.table = old.table
          /\ r.done \subseteq r.ci /\ r.ci \subseteq r.done \cup (old.ci \ {s})
          /\ r.ci \ r.done \subseteq old.ci \ old.done
          /\ r.tfes => old.tfes \/ s \in r.done
          /\ old.done \subseteq r.done
          /\ s \notin r.ci => disk'[call.sector] = memory'[call.buffer]
    <2>0. old.done \subseteq old.ci
      BY <1>2 DEF CommandInv
    <2>1. CASE Transfer(hba[f].port[p].table[s]) /\ hba' = WithPort(f, p, completed(s))
      <3>1. /\ completed(s) \in PortRecords /\ completed(s).rebased = old.rebased
            /\ completed(s).st = old.st /\ completed(s).table = old.table
            /\ completed(s).ci = old.ci \ {s} /\ completed(s).done = old.done
            /\ completed(s).tfes = old.tfes
        BY <1>2 DEF PortRecords
      <3>2. disk'[call.sector] = memory'[call.buffer]
        BY <1>4, <2>1, TransferMoves
      <3> DEFINE r == completed(s)
      <3> HIDE DEF completed, old
      <3> QED
        BY <1>4, <2>0, <2>1, <3>1, <3>2
    <2>2. ASSUME NEW halts \in BOOLEAN, hba' = WithPort(f, p, failed(s, halts))
          PROVE  <1>6
      <3> DEFINE r == failed(s, halts)
      <3>1. /\ r \in PortRecords /\ r.rebased = old.rebased
            /\ r.st = old.st /\ r.table = old.table
            /\ r.ci = old.ci /\ r.done = old.done \cup {s} /\ r.tfes
        BY <1>2, <1>4 DEF PortRecords
      <3>2. hba' = WithPort(f, p, r)
        BY <2>2
      <3> HIDE DEF r, old
      <3> QED
        BY <1>4, <2>0, <3>1, <3>2
    <2> QED
      BY <1>3, <2>1, <2>2
  <1> HIDE DEF old
  <1>7. PICK r \in PortRecords :
          /\ hba' = WithPort(f, p, r)
          /\ r.rebased = old.rebased /\ r.st = old.st /\ r.table = old.table
          /\ r.done \subseteq r.ci /\ r.ci \subseteq r.done \cup (old.ci \ {s})
          /\ r.ci \ r.done \subseteq old.ci \ old.done
          /\ r.tfes => old.tfes \/ s \in r.done
          /\ old.done \subseteq r.done
          /\ s \notin r.ci => disk'[call.sector] = memory'[call.buffer]
    BY <1>6
  <1>8. HBAs' = HBAs /\ hba' \in [HBAs -> HBARecords] /\ DriveInv' /\ ScanInv'
    BY <1>1, <1>7, DrivesStay DEF old
  <1>9. /\ hba'[f].port[p] = r
        /\ \A g \in HBAs : hba'[g].sata = hba[g].sata
        /\ \A g \in HBAs : \A q \in Ports : g # f \/ q # p => hba'[g].port[q] = hba[g].port[q]
    BY <1>2, <1>7, SetPort
  <1>10. TypeInv'
    BY <1>1, <1>2, <1>5, <1>8 DEF TypeInv
  <1>11. CommandInv'
    <2> SUFFICES ASSUME NEW g \in HBAs, NEW q \in Ports
                 PROVE  /\ hba'[g].port[q].done \subseteq hba'[g].port[q].ci
                        /\ hba'[g].port[q].ci # {} => q \in hba'[g].sata
                        /\ \A k \in hba'[g].port[q].ci \ hba'[g].port[q].done :
                             call.step \in Issued /\ call.port = <<g, q>> /\ call.slot = k
      BY <1>1, <1>8 DEF CommandInv
    <2>1. CASE g = f /\ q = p
      <3>1. hba'[g].port[q] = r /\ hba'[g].sata = hba[f].sata
        BY <1>9, <2>1
      <3>2. /\ old.ci \ old.done = {s} \/ old.ci \ old.done = {}
            /\ call.step \in Issued /\ call.port = <<g, q>> /\ call.slot = s /\ q \in hba[f].sata
        BY <1>2, <1>4, <2>1 DEF CommandInv, old
      <3> QED
        BY <1>7, <3>1, <3>2
    <2>2. CASE ~(g = f /\ q = p)
      BY <1>2, <1>9, <2>2 DEF CommandInv
    <2> QED
      BY <2>1, <2>2
  <1>12. CallInv'
    <2>1. Port' = r
      BY <1>1, <1>4, <1>9 DEF Port
    <2>2. \E g \in HBAs' : \E q \in hba'[g].sata : call'.port = <<g, q>>
      BY <1>1, <1>4, <1>8, <1>9
    <2>3. old.tfes => s \in old.done
      BY <1>2, <1>4 DEF CallInv
    <2> QED
      BY <1>1, <1>2, <1>4, <1>7, <2>1, <2>2, <2>3 DEF CallInv, Issued
  <1>13. \A g \in HBAs : \A q \in Ports : hba'[g].port[q].table = hba[g].port[q].table
    BY <1>7, <1>9 DEF old
  <1> QED
    BY <1>1, <1>5, <1>8, <1>10, <1>11, <1>12, <1>13 DEF IInv

LEMMA IInvInductive == IInv /\ [Next]_vars => IInv'
  <1> SUFFICES ASSUME IInv, [Next]_vars PROVE IInv'
    OBVIOUS
  <1>1. CASE Boot
    <2>1. CASE ProbePort
      BY <2>1, BootOnlyStep, ProbeDriveStep
    <2> QED
      BY <1>1, <2>1, ScanFunctionStep, BootOnlyStep, RebaseStep DEF Boot
  <1>2. CASE CallStep
    BY <1>2, NoControllerStep, FindCmdSlotStep, SetupCMDStep, PortReadyStep, PollStep DEF CallStep
  <1>3. CASE External
    BY <1>3, LetGoStep, EngineStep, CompleteStep DEF External
  <1>4. CASE \E op \in {"read", "write"}, s \in Sectors, b \in Buffers : StartCall(op, s, b)
    BY <1>4, StartCallStep
  <1>5. CASE UNCHANGED vars
    <2>1. UNCHANGED <<machine, firstPCI, hba, boot, call, disk, memory>> /\ HBAs' = HBAs
      BY <1>5 DEF vars, HBAs
    <2>2. TypeInv' /\ DriveInv' /\ ScanInv' /\ CommandInv'
      BY SMTT(30), <2>1 DEF IInv, TypeInv, DriveInv, ScanInv, CommandInv, Controllers, Implemented, PortType
    <2>3. CallInv'
      BY <2>1 DEF IInv, CallInv, Port
    <2> QED
      BY <2>2, <2>3 DEF IInv
  <1> QED
    BY <1>1, <1>2, <1>3, <1>4, <1>5 DEF Next

LEMMA Invariance == Spec => []IInv
  BY IInvInit, IInvInductive, PTL DEF Spec

-----------------------------------------------------------------------------
(* The theorems. *)

\* On any machine: the scan stays within it, commands that have failed are
\* among those issued, commands are issued on the ports of drives only, and every table,
\* sector and buffer has its type.
THEOREM TypeCorrect == Spec => []TypeOK
  <1>1. ASSUME IInv PROVE TypeOK
    <2>1. TypeInv /\ ScanInv /\ CommandInv
      BY <1>1 DEF IInv
    <2>2. /\ boot.step \in {"scan", "handoff", "probe", "rebase", "hung", "booted"}
          /\ boot.f \in 1 .. (Len(machine) + 1)
      BY <2>1 DEF TypeInv, ScanInv, BootRecords, Handling
    <2>3. ASSUME NEW f \in HBAs, NEW p \in Ports
          PROVE  LET port == hba[f].port[p]
                 IN  /\ port.done \subseteq port.ci /\ port.ci \subseteq Slots
                     /\ port.ci # {} => p \in hba[f].sata
                     /\ \A s \in Slots : port.table[s].sector \in Sectors /\ port.table[s].buffer \in Buffers
      <3>1. hba[f].port[p] \in PortRecords
        BY <1>1, Facts
      <3> QED
        BY <2>1, <3>1 DEF CommandInv, PortRecords
    <2>4. /\ call.op \in {"none", "read", "write"}
          /\ call.step \in {"none", "absent", "find", "setup", "ready", "poll", "error"}
          /\ call.slot \in Slots \cup {-1}
      BY <2>1 DEF TypeInv, CallRecords, Working
    <2> QED
      BY <2>1, <2>2, <2>3, <2>4 DEF TypeOK, TypeInv
  <1> QED
    BY <1>1, Invariance, PTL

\* A command goes only to a drive: to an implemented port of an AHCI controller
\* with a link, that has been stopped, given its lists and started again.
THEOREM CommandsReachDrivesAlways == Spec => []CommandsReachDrives
  <1>1. ASSUME IInv PROVE CommandsReachDrives
    <2> SUFFICES ASSUME call.step \in Working
                 PROVE  /\ machine[call.port[1]].kind = "ahci"
                        /\ call.port[2] \in machine[call.port[1]].implemented
                        /\ machine[call.port[1]].port[call.port[2]].link
                        /\ Port.rebased /\ Port.st
      BY DEF CommandsReachDrives, Working
    <2>1. PICK f \in HBAs, p \in Ports :
            /\ p \in hba[f].sata /\ call.port[1] = f /\ call.port[2] = p /\ Port = hba[f].port[p]
      BY <1>1, WorkingPort
    <2> QED
      BY <1>1, <2>1 DEF IInv, DriveInv, HBAs, Implemented
  <1> QED
    BY <1>1, Invariance, PTL

\* Initialisation, the firmware and the engines write no command table.
LEMMA BootTables ==
    ASSUME IInv, Boot, NEW g \in HBAs, NEW q \in Ports
    PROVE  hba'[g].port[q].table = hba[g].port[q].table
  <1>1. TypeInv /\ ScanInv /\ hba \in [HBAs -> HBARecords]
    BY DEF IInv, TypeInv
  <1>2. CASE hba' = hba
    BY <1>2
  <1> DEFINE f == boot.f
             p == boot.p
             old == hba[f].port[p]
  <1>3. ASSUME f \in HBAs, p \in Ports, NEW r \in PortRecords, r.table = old.table,
               hba' = WithPort(f, p, r) \/ hba' = [WithPort(f, p, r) EXCEPT ![f].sata = @ \cup {p}]
        PROVE  hba'[g].port[q].table = hba[g].port[q].table
    <2> DEFINE h == WithPort(f, p, r)
    <2>1. /\ h \in [HBAs -> HBARecords] /\ h[f].port[p] = r
          /\ \A k \in HBAs : \A i \in Ports : k # f \/ i # p => h[k].port[i] = hba[k].port[i]
      BY <1>1, <1>3, SetPort
    <2>2. h[g].port[q].table = hba[g].port[q].table
      BY <1>3, <2>1
    <2> HIDE DEF h, f, p
    <2>3. hba'[g].port = h[g].port
      BY SMTT(30), <1>3, <2>1 DEF HBARecords, h
    <2> QED
      BY <2>2, <2>3
  <1>4. CASE ProbePort /\ hba' # hba
    <2>1. boot.step = "probe" /\ p \in Ports /\ hba' = WithPort(f, p, Stopped(old))
      BY <1>4 DEF ProbePort, WithPort
    <2>2. f \in HBAs /\ old \in PortRecords
      BY <1>1, <2>1, Facts DEF ScanInv, Handling
    <2>3. Stopped(old) \in PortRecords /\ Stopped(old).table = old.table
      BY <2>2 DEF Stopped, PortRecords
    <2> QED
      BY <1>3, <2>1, <2>2, <2>3
  <1>5. CASE Rebase
    <2>1. /\ boot.step = "rebase"
          /\ hba' = [WithPort(f, p, Started(old)) EXCEPT ![f].sata = @ \cup {p}]
      BY <1>5 DEF Rebase, WithPort
    <2>2. f \in HBAs /\ p \in Implemented(f)
      BY <1>1, <2>1 DEF ScanInv, Handling
    <2>3. machine \in Seq(PCIFunctions) /\ f \in DOMAIN machine
      BY <1>1, <2>2 DEF TypeInv, HBAs
    <2>4. machine[f] \in PCIFunctions
      BY <2>3
    <2>5. p \in Ports /\ old \in PortRecords
      BY <2>2, <2>4, Facts DEF Implemented, PCIFunctions
    <2>6. Started(old) \in PortRecords /\ Started(old).table = old.table
      BY <2>5 DEF Started, PortRecords
    <2> QED
      BY <1>3, <2>1, <2>2, <2>5, <2>6
  <1> QED
    BY <1>2, <1>4, <1>5 DEF Boot, ScanFunction, EndOfScan, Handoff, EndOfProbe

LEMMA ExternalTables ==
    ASSUME IInv, External, NEW g \in HBAs, NEW q \in Ports
    PROVE  hba'[g].port[q].table = hba[g].port[q].table
  <1>1. hba \in [HBAs -> HBARecords] /\ TypeInv
    BY DEF IInv, TypeInv
  <1>2. ASSUME NEW f \in HBAs, LetGo(f) PROVE hba'[g].port[q].table = hba[g].port[q].table
    BY <1>1, <1>2 DEF LetGo, HBARecords
  <1>3. ASSUME NEW f \in HBAs, NEW p \in Ports, Engine(f, p) \/ Ready(f, p)
        PROVE  hba'[g].port[q].table = hba[g].port[q].table
    BY <1>3, EngineStep
  <1>4. ASSUME NEW f \in HBAs, NEW p \in Ports, Complete(f, p) \/ FailCommand(f, p)
        PROVE  hba'[g].port[q].table = hba[g].port[q].table
    BY <1>4, CompleteStep
  <1> QED
    BY <1>2, <1>3, <1>4 DEF External

\* The table of a slot that is still issued is not written again, though errors
\* leave slots issued for good and the driver keeps no record of them.
THEOREM IssuedTablesAreLeftAlways == Spec => IssuedTablesAreLeft
  <1>1. IInv /\ [Next]_vars =>
          [\A f \in HBAs : \A p \in Ports : \A s \in hba[f].port[p].ci :
             hba'[f].port[p].table[s] = hba[f].port[p].table[s]]_vars
    <2> SUFFICES ASSUME IInv, Next, NEW f \in HBAs, NEW p \in Ports, NEW s \in hba[f].port[p].ci
                 PROVE  hba'[f].port[p].table[s] = hba[f].port[p].table[s]
      OBVIOUS
    <2>1. CASE Boot
      BY <2>1, BootTables
    <2>2. CASE CallStep
      BY <2>2, SetupCMDStep, PortReadyStep, PollStep DEF CallStep, NoController, FindCmdSlot
    <2>3. CASE External
      BY <2>3, ExternalTables
    <2>4. CASE \E op \in {"read", "write"}, k \in Sectors, b \in Buffers : StartCall(op, k, b)
      BY <2>4, StartCallStep
    <2> QED
      BY <2>1, <2>2, <2>3, <2>4 DEF Next
  <1> QED
    BY <1>1, Invariance, PTL DEF Spec, IssuedTablesAreLeft

\* diskRead and diskWrite keep the promise of DiskService: while a call is under
\* way nothing but its buffer, or the sector it writes, changes, and a call
\* that returns true has moved the sector.
THEOREM IsDiskServiceAlways == Spec => IsDiskService
  <1>1. Init => Service!Init
    <2> SUFFICES ASSUME Init PROVE Service!Init
      OBVIOUS
    <2>1. TypeInv /\ call = NoCall
      BY IInvInit DEF IInv, Init
    <2> QED
      BY <2>1, NoCallTyped DEF Service!Init, TypeInv
  <1>2. IInv /\ [Next]_vars => [Service!Next]_(Service!vars)
    <2> SUFFICES ASSUME IInv, [Next]_vars
                 PROVE  Service!Next \/ UNCHANGED (Service!vars)
      OBVIOUS
    <2>0. /\ memory \in [Buffers -> Values] /\ call \in CallRecords
          /\ \E v \in Values : memory = [memory EXCEPT ![call.buffer] = v]
      <3>1. memory \in [Buffers -> Values] /\ call \in CallRecords /\ call.buffer \in Buffers
        BY DEF IInv, TypeInv, CallRecords
      <3>2. memory[call.buffer] \in Values /\ memory = [memory EXCEPT ![call.buffer] = memory[call.buffer]]
        BY <3>1
      <3> QED
        BY <3>1, <3>2
    <2>1. CASE Boot
      BY <2>1, BootStep DEF Service!vars
    <2>2. CASE External
      <3>1. CASE \E f \in HBAs : LetGo(f) \/ \E p \in Ports : Engine(f, p) \/ Ready(f, p)
        <4>1. ASSUME NEW f \in HBAs, NEW p \in Ports, LetGo(f) \/ Engine(f, p) \/ Ready(f, p)
              PROVE  NoCallYet
          BY <4>1 DEF LetGo, Engine, Ready
        <4>2. NoCallYet
          <5>1. ASSUME NEW f \in HBAs, LetGo(f) PROVE NoCallYet
            BY <5>1 DEF LetGo
          <5> QED
            BY <3>1, <4>1, <5>1
        <4> QED
          BY <4>2 DEF NoCallYet, Service!vars
      <3>2. ASSUME NEW f \in HBAs, NEW p \in Ports, Complete(f, p) \/ FailCommand(f, p)
            PROVE  Service!Next \/ UNCHANGED (Service!vars)
        BY <3>2, CompleteStep DEF Service!Next, Service!Read, Service!Write, Service!vars
      <3> QED
        BY <2>2, <3>1, <3>2 DEF External
    <2>3. CASE \E op \in {"read", "write"}, s \in Sectors, b \in Buffers : StartCall(op, s, b)
      BY <2>3, StartCallStep DEF Service!Next, Service!Call
    <2>4. CASE NoController
      <3>1. /\ Return(FALSE) /\ disk' = disk
            /\ memory' = [memory EXCEPT ![call.buffer] = CHOOSE v \in Values : TRUE]
            /\ call.op # "none"
        BY <2>4 DEF NoController, IInv, CallInv
      <3>2. (CHOOSE v \in Values : TRUE) \in Values
        BY RangesAssumption
      <3>3. call'.op = "none" /\ ~call'.ok
        BY <3>1, Returned
      <3> QED
        BY <3>1, <3>2, <3>3 DEF Service!Next, Service!Fail
    <2>5. ASSUME UNCHANGED <<disk, memory>>, call.op \in {"read", "write"}, Return(FALSE)
          PROVE  Service!Next
      <3>1. call'.op = "none" /\ ~call'.ok
        BY <2>5, Returned
      <3> QED
        BY <2>0, <2>5, <3>1 DEF Service!Next, Service!Fail
    <2>6. ASSUME UNCHANGED <<disk, memory>>, call.op \in {"read", "write"}, Return(TRUE),
                 disk[call.sector] = memory[call.buffer]
          PROVE  Service!Next
      <3>1. call'.op = "none" /\ call'.ok
        BY <2>6, Returned
      <3> QED
        BY <2>6, <3>1 DEF Service!Next, Service!Succeed
    <2>7. ASSUME UNCHANGED <<disk, memory>>, call'.op = call.op, call'.sector = call.sector,
                 call'.buffer = call.buffer, call'.ok = call.ok
          PROVE  UNCHANGED (Service!vars)
      BY <2>7 DEF Service!vars
    <2>8. CASE FindCmdSlot
      BY <2>5, <2>7, <2>8, FindCmdSlotStep
    <2>9. CASE SetupCMD
      BY <2>7, <2>9, SetupCMDStep
    <2>10. CASE PortReady
      BY <2>5, <2>7, <2>10, PortReadyStep
    <2>11. CASE PollIssued \/ PollError
      BY <2>5, <2>6, <2>7, <2>11, PollStep
    <2>12. CASE UNCHANGED vars
      BY <2>12 DEF vars, Service!vars
    <2> QED
      BY <2>1, <2>2, <2>3, <2>4, <2>8, <2>9, <2>10, <2>11, <2>12 DEF Next, CallStep
  <1> QED
    BY <1>1, <1>2, Invariance, PTL DEF Spec, IsDiskService, Service!Spec
=============================================================================
