-------------------------------- MODULE Pci --------------------------------
(***************************************************************************)
(* PeripheralComponentInterconnectController::SelectDrivers: the walk over *)
(* every bus, device and function of the configuration space, one read of  *)
(* a function or of a base address register at a time.                     *)
(*                                                                         *)
(* A uint32_t is the sequence of its four bytes, low byte first, so that a *)
(* shift by whole bytes drops some and a narrower field keeps the first.   *)
(* What is in a slot is external: it is found out when the walk gets there *)
(* and does not change while it is looked at.                              *)
(*                                                                         *)
(* A definition introduced as a fault is the next definition with a slip   *)
(* in it: the checks of the project must notice when it takes its place.   *)
(***************************************************************************)
EXTENDS Drivers, SequencesExt

CONSTANTS
  Buses,      \* how many buses are looked at, 8 in the code
  Devices,    \* how many devices on each, 32 in the code
  Slot,       \* what there can be in the place of a device
  Vacant,     \* one of them: nothing
  Config,     \* Slot -> function -> the bytes of its configuration space
  Function,   \* Slot -> the functions the device really has
  Garbage     \* what may be in the stack words of a BaseAddressRegister

(* Configuration space as PCI has it: a device with more than one function *)
(* says so in bit 7 of the header type of function 0, one with a single    *)
(* function may answer for it under all eight numbers, and where nobody    *)
(* answers all bits are 1, which is so of function 0 where it is missing.  *)
ASSUME PciAssumption ==
  /\ Buses \in 1 .. 256 /\ Devices \in 1 .. 32
  /\ Vacant \in Slot
  /\ \A s \in Slot : Function[s] \subseteq 0 .. 7
  /\ \A s \in Slot, f \in 0 .. 7, r \in 0 .. 63 : Config[s][f][r] \in 0 .. 255
  /\ \A s \in Slot : \A f \in Function[s] :
       \A id \in {<<0, 0>>, <<255, 255>>} :
         <<Config[s][f][0], Config[s][f][1]>> # id
  /\ \A s \in Slot :
       \/ Function[s] = {0} /\ Config[s][0][14] < 128
       \/ /\ Config[s][0][14] >= 128
          /\ \A f \in (0 .. 7) \ Function[s] :
               <<Config[s][f][0], Config[s][f][1]>> \in {<<0, 0>>, <<255, 255>>}
  /\ Garbage # {}
  /\ Garbage \subseteq [type : {"InputOutput", "MemoryMapping"},
                         address : [1 .. 4 -> 0 .. 255]]

VARIABLES
  scan,       \* where SelectDrivers is, its loop variables and portBase
  listed      \* the functions of this device it has printed

pciVars == <<scan, listed>>

Unset == <<"unset">>
Outset(bus, device) ==
  [at |-> "device", slot |-> Vacant, bus |-> bus, device |-> device,
   function |-> 0, numFunctions |-> 0, barNum |-> 0, portBase |-> Unset]

PciInit == scan = Outset(0, 0) /\ listed = << >>
-----------------------------------------------------------------------------
(* The id written to CONFIG_ADDRESS, without bit 31, which is always set.  *)
ConfigAddress(bus, device, function, registeroffset) ==
  (bus % 256) * 65536 + (device % 32) * 2048 + (function % 8) * 256
    + (registeroffset % 256) - (registeroffset % 4)

(* What the slot at that bus and device answers: a whole doubleword.       *)
RegisterField(id) == id % 256
FunctionField(id) == (id \div 256) % 8
ConfigData(slot, id) ==
  [i \in 1 .. 4 |-> Config[slot][FunctionField(id)][RegisterField(id) + i - 1]]

(* The doubleword is shifted so that the register asked for comes first.   *)
ReadConfig(slot, function, registeroffset) ==
  SubSeq(ConfigData(slot, ConfigAddress(scan.bus, scan.device,
                                        function, registeroffset)),
         (registeroffset % 4) + 1, 4)

(* Fault: bit 7 of the header type is not looked at.                       *)
DeviceHasFunctionsAlways(slot) == TRUE

DeviceHasFunctions(slot) == ReadConfig(slot, 0, 14)[1] >= 128

Vendor(slot, function) == SubSeq(ReadConfig(slot, function, 0), 1, 2)
HeaderType(slot, function) == ReadConfig(slot, function, 14)[1] % 128

(* How many base address registers the header type has: of the two a PCI   *)
(* has, a device six and a bridge two.                                     *)
MaxBARs(slot, function) == 6 - 4 * HeaderType(slot, function)

(* A base address without the bits that say what it is the base of.        *)
BaseOf(value) == [value EXCEPT ![1] = @ - (@ % 4)]

(* Fault: the type of a memory mapped register is not written.             *)
GetBaseAddressRegisterHalf(slot, function, bar, garbage) ==
  LET value == ReadConfig(slot, function, 16 + 4 * bar)
  IN  IF bar < MaxBARs(slot, function) /\ value[1] % 2 = 1
      THEN [type |-> "InputOutput", address |-> BaseOf(value)]
      ELSE garbage

(* The result is a local variable that is written in part: not at all for  *)
(* a register that the header type does not have, and without an address   *)
(* for memory.  Bit 0 is 1 for I/O and 0 for memory, as in the enum of     *)
(* pci.h:31-35 and in PCI; the diagram above that enum, pci.h:23-28, has a *)
(* 1 there for memory too.                                                 *)
GetBaseAddressRegister(slot, function, bar, garbage) ==
  LET value == ReadConfig(slot, function, 16 + 4 * bar)
  IN  IF bar >= MaxBARs(slot, function) THEN garbage
      ELSE IF value[1] % 2 = 1
      THEN [type |-> "InputOutput", address |-> BaseOf(value)]
      ELSE [garbage EXCEPT !.type = "MemoryMapping"]

(* GetDriver prints the vendor and knows no driver for any device yet.     *)
GetDriver(slot, function) == NoDriver
-----------------------------------------------------------------------------
ExamineDevice(slot) ==
  /\ scan.at = "device"
  /\ scan' = [scan EXCEPT !.at = "function", !.slot = slot, !.function = 0,
                !.numFunctions = IF DeviceHasFunctions(slot) THEN 8 ELSE 1]
  /\ listed' = << >>
  /\ UNCHANGED drivers

(* GetDeviceDescriptor; a function with no vendor is passed over.  (The    *)
(* comment of pci.cpp:91 says "break" of it; the code says continue, and   *)
(* has to, for the functions above a gap.)                                 *)
GetDeviceDescriptor ==
  /\ scan.at = "function" /\ scan.function < scan.numFunctions
  /\ scan' = IF Vendor(scan.slot, scan.function) \in {<<0, 0>>, <<255, 255>>}
             THEN [scan EXCEPT !.function = @ + 1]
             ELSE [scan EXCEPT !.at = "bar", !.barNum = 0, !.portBase = Unset]
  /\ UNCHANGED <<listed, drivers>>

(* A turn of the loop over the base address registers, which asks for the  *)
(* driver each time.                                                       *)
ExamineBar(garbage) ==
  /\ scan.at = "bar" /\ scan.barNum < 6
  /\ LET bar == GetBaseAddressRegister(scan.slot, scan.function,
                                       scan.barNum, garbage)
         driver == GetDriver(scan.slot, scan.function)
     IN  /\ scan' = [scan EXCEPT
                       !.barNum = @ + 1,
                       !.portBase = IF /\ bar.address # <<0, 0, 0, 0>>
                                       /\ bar.type = "InputOutput"
                                    THEN bar.address ELSE @]
         /\ IF driver # NoDriver THEN AddDriver(driver) ELSE UNCHANGED drivers
  /\ UNCHANGED listed

PrintFunction ==
  /\ scan.at = "bar" /\ scan.barNum = 6
  /\ listed' = Append(listed, scan.function)
  /\ scan' = [scan EXCEPT !.at = "function", !.function = @ + 1]
  /\ UNCHANGED drivers

FunctionsDone == scan.at = "function" /\ scan.function >= scan.numFunctions

(* On to the next device, the next bus, or out.                            *)
NextDevice ==
  /\ FunctionsDone
  /\ scan' = IF scan.device + 1 < Devices
             THEN Outset(scan.bus, scan.device + 1)
             ELSE IF scan.bus + 1 < Buses THEN Outset(scan.bus + 1, 0)
             ELSE [Outset(0, 0) EXCEPT !.at = "over"]
  /\ listed' = << >>
  /\ UNCHANGED drivers

SelectDrivers ==
  \/ \E slot \in Slot : ExamineDevice(slot)
  \/ GetDeviceDescriptor
  \/ \E garbage \in Garbage : ExamineBar(garbage)
  \/ PrintFunction
  \/ NextDevice
-----------------------------------------------------------------------------
(* Every function a device has is listed, once: not again under the other  *)
(* numbers it answers to, not overlooked because function 0 or those below *)
(* it are missing.                                                         *)
FunctionsListedOnce ==
  FunctionsDone =>
    /\ {listed[i] : i \in DOMAIN listed} = Function[scan.slot]
    /\ \A i, j \in DOMAIN listed : i < j => listed[i] < listed[j]

(* For as long as the registers looked at are ones its header type has,    *)
(* the port of a function comes from one of them, the last that is an I/O  *)
(* range in use: what was on the stack when a register for memory was      *)
(* described never gets there.  (After them, for a bridge, anything may.)  *)
PortBaseIsOwn ==
  scan.at = "bar" /\ scan.barNum <= MaxBARs(scan.slot, scan.function) =>
    LET value(bar) == ReadConfig(scan.slot, scan.function, 16 + 4 * bar)
        used == {bar \in 0 .. scan.barNum - 1 :
                   value(bar)[1] % 2 = 1 /\ BaseOf(value(bar)) # <<0, 0, 0, 0>>}
    IN  scan.portBase = IF used = {} THEN Unset ELSE BaseOf(value(Max(used)))
=============================================================================
