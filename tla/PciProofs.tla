----------------------------- MODULE PciProofs -----------------------------
(***************************************************************************)
(* Proofs about the walk over the PCI configuration space, as a part of    *)
(* Boot: for every number of buses and devices and whatever is in the      *)
(* slots, as long as it obeys PciAssumption, the walk lists each function  *)
(* of each device once, and a function's port is read from its own base    *)
(* address registers.                                                      *)
(***************************************************************************)
EXTENDS Boot, SequenceTheorems, TLAPS

Numbers(slot) == IF Config[slot][0][14] >= 128 THEN 8 ELSE 1

ScanOK ==
  /\ scan = [at |-> scan.at, slot |-> scan.slot, bus |-> scan.bus,
             device |-> scan.device, function |-> scan.function,
             numFunctions |-> scan.numFunctions, barNum |-> scan.barNum,
             portBase |-> scan.portBase]
  /\ scan.slot \in Slot
  /\ scan.bus \in Nat /\ scan.device \in Nat

(* What has been listed is what there is below the function looked at.     *)
ListedOK ==
  /\ listed \in Seq(Nat)
  /\ {listed[i] : i \in DOMAIN listed}
       = {f \in Function[scan.slot] : f < scan.function}
  /\ \A i, j \in DOMAIN listed : i < j => listed[i] < listed[j]

WalkOK ==
  scan.at \in {"function", "bar"} =>
    /\ scan.numFunctions = Numbers(scan.slot)
    /\ scan.function \in 0 .. scan.numFunctions
    /\ ListedOK
    /\ scan.at = "bar" =>
         /\ scan.function < scan.numFunctions
         /\ scan.function \in Function[scan.slot]
         /\ scan.barNum \in 0 .. 6
         /\ PortBaseIsOwn

PciInv == ScanOK /\ WalkOK
-----------------------------------------------------------------------------
(* Like the other two fields of an id, for which bus and device listen.    *)
DeviceField(id) == ((id \div 256) \div 8) % 32
BusField(id) == ((id \div 256) \div 8) \div 32

Number == 0 .. 7
Register == 0 .. 255
Doubleword(register) == register - (register % 4)

(* The id written to CONFIG_ADDRESS gives back what it was made of.        *)
LEMMA FieldsRecovered ==
  \A bus \in Nat, device \in Nat, function \in Number, register \in Register :
    /\ RegisterField(ConfigAddress(bus, device, function, register))
         = Doubleword(register)
    /\ FunctionField(ConfigAddress(bus, device, function, register)) = function
    /\ DeviceField(ConfigAddress(bus, device, function, register)) = device % 32
    /\ BusField(ConfigAddress(bus, device, function, register)) = bus % 256
<1> TAKE bus \in Nat, device \in Nat, function \in Number, register \in Register
<1> DEFINE b == bus % 256
           d == device % 32
           r == Doubleword(register)
           n == b * 32 + d
           m == n * 8 + function
           id == m * 256 + r
<1>1. b \in 0 .. 255 /\ d \in 0 .. 31 /\ r \in 0 .. 255 /\ function \in 0 .. 7
  BY SMT DEF Number, Register, Doubleword
<1>2. ConfigAddress(bus, device, function, register) = id
  <2>1. ConfigAddress(bus, device, function, register)
          = b * 65536 + d * 2048 + function * 256 + r
    BY SMT DEF ConfigAddress, Number, Register, Doubleword
  <2> HIDE DEF b, d, r
  <2>2. \A w \in 0 .. 255, x \in 0 .. 31, y \in 0 .. 7, z \in 0 .. 255 :
          w * 65536 + x * 2048 + y * 256 + z
            = ((w * 32 + x) * 8 + y) * 256 + z
    BY SMT
  <2> QED
    BY <1>1, <2>1, <2>2
<1> HIDE DEF b, d, r
<1>3. n \in Nat
  BY <1>1, SMT
<1>4. n % 32 = d /\ n \div 32 = b
  BY <1>1, SMT
<1> HIDE DEF n
<1>5. m \in Nat /\ m % 8 = function /\ m \div 8 = n
  BY <1>1, <1>3, SMT
<1> HIDE DEF m
<1>6. id % 256 = r /\ id \div 256 = m
  BY <1>1, <1>5, SMT
<1> HIDE DEF id
<1> QED
  BY <1>2, <1>4, <1>5, <1>6
  DEF b, d, r, RegisterField, FunctionField, DeviceField, BusField

(* Two functions of the configuration space never have the same address.   *)
THEOREM AddressesDiffer ==
  ASSUME NEW b \in 0 .. 255, NEW d \in 0 .. 31, NEW f \in Number,
         NEW c \in 0 .. 255, NEW e \in 0 .. 31, NEW g \in Number,
         NEW r \in Register, NEW q \in Register,
         ConfigAddress(b, d, f, r) = ConfigAddress(c, e, g, q)
  PROVE  b = c /\ d = e /\ f = g /\ Doubleword(r) = Doubleword(q)
<1>1. b \in Nat /\ d \in Nat /\ c \in Nat /\ e \in Nat
  OBVIOUS
<1>2. b % 256 = b /\ c % 256 = c /\ d % 32 = d /\ e % 32 = e
  BY SMT
<1> DEFINE id == ConfigAddress(b, d, f, r)
<1>3. /\ RegisterField(id) = Doubleword(r) /\ FunctionField(id) = f
      /\ DeviceField(id) = d /\ BusField(id) = b
  BY <1>1, <1>2, FieldsRecovered
<1>4. /\ RegisterField(id) = Doubleword(q) /\ FunctionField(id) = g
      /\ DeviceField(id) = e /\ BusField(id) = c
  BY <1>1, <1>2, FieldsRecovered
<1> HIDE DEF id
<1> QED
  BY <1>3, <1>4, Zenon

LEMMA Bytes ==
  \A s \in Slot, f \in 0 .. 7, r \in 0 .. 63 : Config[s][f][r] \in 0 .. 255
BY PciAssumption, Zenon

(* What the bytes shifted down and narrowed to 16 bits are.                *)
LEMMA FourBytes ==
  ASSUME NEW S, NEW c \in [1 .. 4 -> S]
  PROVE  /\ c \in Seq(S) /\ Len(c) = 4
         /\ SubSeq(c, 3, 4)[1] = c[3]
         /\ SubSeq(SubSeq(c, 1, 4), 1, 2) = <<c[1], c[2]>>
<1>1. c \in Seq(S)
  BY SeqDef, 4 \in Nat
<1>2. Len(c) = 4
  <2>1. Len(c) \in Nat /\ 1 .. Len(c) = 1 .. 4
    BY <1>1, LenProperties
  <2> QED
    BY <2>1
<1>3. SubSeq(c, 3, 4)[1] = c[3]
  BY <1>1, <1>2
<1>4. SubSeq(c, 1, 4) = c
  BY <1>1, <1>2
<1>5. SubSeq(c, 1, 2) = <<c[1], c[2]>>
  <2>1. \A i \in 1 .. 2 : c[i] \in S
    OBVIOUS
  <2>2. /\ SubSeq(c, 1, 2) \in Seq(S) /\ Len(SubSeq(c, 1, 2)) = 2
        /\ \A i \in 1 .. 2 : SubSeq(c, 1, 2)[i] = c[i]
    BY <2>1, SubSeqProperties
  <2> DEFINE t == SubSeq(c, 1, 2)
             p == <<c[1], c[2]>>
  <2>3. p \in Seq(S) /\ Len(p) = 2 /\ p[1] = c[1] /\ p[2] = c[2]
    BY <2>1, 1 \in 1 .. 2, 2 \in 1 .. 2
  <2>4. \A i \in 1 .. Len(t) : t[i] = p[i]
    <3>1. t[1] = p[1] /\ t[2] = p[2]
      BY <2>2, <2>3
    <3>2. 1 .. Len(t) = {1, 2}
      BY <2>2
    <3> QED
      BY <3>1, <3>2
  <2> QED
    BY <2>2, <2>3, <2>4, SeqEqual
<1>6. SubSeq(SubSeq(c, 1, 4), 1, 2) = <<c[1], c[2]>>
  BY <1>4, <1>5
<1> QED
  BY <1>1, <1>2, <1>3, <1>6

(* A register read through CONFIG_ADDRESS is that register.                *)
LEMMA ReadFacts ==
  ASSUME ScanOK, NEW s \in Slot, NEW f \in 0 .. 7
  PROVE  /\ Vendor(s, f) = <<Config[s][f][0], Config[s][f][1]>>
         /\ ReadConfig(s, f, 14)[1] = Config[s][f][14]
         /\ Config[s][f][14] \in 0 .. 255
<1> DEFINE id(r) == ConfigAddress(scan.bus, scan.device, f, r)
<1>1. f \in Number /\ 0 \in Register /\ 14 \in Register
  BY SMT DEF Number, Register
<1>2. Doubleword(0) = 0 /\ Doubleword(14) = 12
  BY SMT DEF Doubleword
<1>3. /\ RegisterField(id(0)) = 0 /\ FunctionField(id(0)) = f
      /\ RegisterField(id(14)) = 12 /\ FunctionField(id(14)) = f
  BY <1>1, <1>2, FieldsRecovered DEF ScanOK
<1> DEFINE a == ConfigData(s, id(0))
           b == ConfigData(s, id(14))
<1>4. a = [i \in 1 .. 4 |-> Config[s][f][0 + i - 1]]
  BY <1>3, Zenon DEF ConfigData
<1>5. b = [i \in 1 .. 4 |-> Config[s][f][12 + i - 1]]
  BY <1>3, Zenon DEF ConfigData
<1> HIDE DEF a, b
<1>6. ReadConfig(s, f, 0) = SubSeq(a, 1, 4)
  <2>1. 0 % 4 = 0 /\ 0 + 1 = 1
    BY SMT
  <2> QED
    BY <2>1, Zenon DEF ReadConfig, a
<1>7. ReadConfig(s, f, 14) = SubSeq(b, 3, 4)
  <2>1. (14 % 4) + 1 = 3
    BY SMT
  <2> QED
    BY <2>1, Zenon DEF ReadConfig, b
<1>8. \A r \in 0 .. 63 : Config[s][f][r] \in 0 .. 255
  BY Bytes
<1>9. a \in [1 .. 4 -> 0 .. 255] /\ b \in [1 .. 4 -> 0 .. 255]
  <2>1. \A i \in 1 .. 4 : 0 + i - 1 \in 0 .. 63 /\ 12 + i - 1 \in 0 .. 63
    BY SMT
  <2>2. \A i \in 1 .. 4 : a[i] \in 0 .. 255 /\ b[i] \in 0 .. 255
    BY <2>1, <1>4, <1>5, <1>8, Zenon
  <2> QED
    BY <1>4, <1>5, <2>2
<1>10. ReadConfig(s, f, 14)[1] = Config[s][f][14]
  <2>1. b[3] = Config[s][f][14]
    BY <1>5, SMT
  <2> QED
    BY <1>7, <1>9, <2>1, FourBytes
<1>11. Vendor(s, f) = <<Config[s][f][0], Config[s][f][1]>>
  <2>1. a[1] = Config[s][f][0] /\ a[2] = Config[s][f][1]
    BY <1>4, SMT
  <2> QED
    BY <1>6, <1>9, <2>1, FourBytes DEF Vendor
<1>12. Config[s][f][14] \in 0 .. 255
  <2>1. 14 \in 0 .. 63
    BY SMT
  <2> QED
    BY <1>8, <2>1, Zenon
<1> QED
  BY <1>10, <1>11, <1>12
-----------------------------------------------------------------------------
LEMMA PciFacts ==
  /\ Vacant \in Slot
  /\ \A s \in Slot : Function[s] \subseteq 0 .. 7
  /\ \A s \in Slot : \A f \in Function[s] :
       \A id \in {<<0, 0>>, <<255, 255>>} :
         <<Config[s][f][0], Config[s][f][1]>> # id
  /\ \A s \in Slot :
       \/ Function[s] = {0} /\ Config[s][0][14] < 128
       \/ /\ Config[s][0][14] >= 128
          /\ \A f \in (0 .. 7) \ Function[s] :
               <<Config[s][f][0], Config[s][f][1]>> \in {<<0, 0>>, <<255, 255>>}
  /\ Garbage \subseteq [type : {"InputOutput", "MemoryMapping"},
                         address : [1 .. 4 -> 0 .. 255]]
BY PciAssumption, Zenon

LEMMA InitHolds == PciInit => PciInv
<1> SUFFICES ASSUME PciInit PROVE PciInv
  OBVIOUS
<1>1. scan = [at |-> "device", slot |-> Vacant, bus |-> 0, device |-> 0,
              function |-> 0, numFunctions |-> 0, barNum |-> 0,
              portBase |-> Unset]
  BY DEF PciInit, Outset
<1>2. ScanOK
  BY <1>1, PciFacts DEF ScanOK
<1>3. scan.at \notin {"function", "bar"}
  BY <1>1
<1> QED
  BY <1>2, <1>3 DEF PciInv, WalkOK

LEMMA ExamineDevicePreserves ==
  ASSUME PciInv, NEW slot \in Slot, ExamineDevice(slot)
  PROVE  PciInv'
<1>1. DeviceHasFunctions(slot) <=> Config[slot][0][14] >= 128
  <2>1. 0 \in 0 .. 7
    BY SMT
  <2> QED
    BY <2>1, ReadFacts DEF DeviceHasFunctions, PciInv
<1>2. /\ scan'.at = "function" /\ scan'.slot = slot /\ scan'.function = 0
      /\ scan'.numFunctions = Numbers(slot)
      /\ scan'.bus = scan.bus /\ scan'.device = scan.device
      /\ ScanOK'
  BY <1>1 DEF ExamineDevice, PciInv, ScanOK, Numbers
<1>3. Numbers(slot) \in {1, 8} /\ Function[slot] \subseteq Nat
  BY PciFacts, SMT DEF Numbers
<1>4. listed' = << >>
  BY DEF ExamineDevice
<1>5. {f \in Function[slot] : f < 0} = {}
  BY <1>3
<1>6. ListedOK'
  BY <1>2, <1>4, <1>5 DEF ListedOK
<1>7. scan'.function \in 0 .. scan'.numFunctions
  BY <1>2, <1>3
<1> QED
  BY <1>2, <1>6, <1>7 DEF PciInv, WalkOK, Numbers

(* Whether a number below numFunctions is one of a function.               *)
LEMMA VendorTells ==
  ASSUME PciInv, scan.at = "function", scan.function < scan.numFunctions
  PROVE  /\ scan.function \in 0 .. 7
         /\ Vendor(scan.slot, scan.function) \in {<<0, 0>>, <<255, 255>>}
              <=> scan.function \notin Function[scan.slot]
<1> DEFINE s == scan.slot
           f == scan.function
<1>1. s \in Slot /\ f \in 0 .. 7 /\ (Config[s][0][14] >= 128 \/ f = 0)
  BY SMT DEF PciInv, ScanOK, WalkOK, Numbers
<1>2. Vendor(s, f) = <<Config[s][f][0], Config[s][f][1]>>
  BY <1>1, ReadFacts DEF PciInv
<1>3. Config[s][0][14] \in 0 .. 255
  <2>1. 0 \in 0 .. 7
    BY SMT
  <2> QED
    BY <1>1, <2>1, ReadFacts DEF PciInv
<1> HIDE DEF s, f
<1>4. ASSUME f \in Function[s]
      PROVE  Vendor(s, f) \notin {<<0, 0>>, <<255, 255>>}
  <2>1. \A id \in {<<0, 0>>, <<255, 255>>} :
          <<Config[s][f][0], Config[s][f][1]>> # id
    <3>1. \A t \in Slot : \A g \in Function[t] :
            \A id \in {<<0, 0>>, <<255, 255>>} :
              <<Config[t][g][0], Config[t][g][1]>> # id
      BY PciFacts, Zenon
    <3> QED
      BY <1>1, <1>4, <3>1
  <2> QED
    BY <1>2, <2>1, Zenon
<1>5. ASSUME f \notin Function[s]
      PROVE  Vendor(s, f) \in {<<0, 0>>, <<255, 255>>}
  <2>1. CASE Function[s] = {0} /\ Config[s][0][14] < 128
    <3>1. ~(Config[s][0][14] >= 128)
      BY <2>1, <1>3, SMT
    <3> QED
      BY <2>1, <3>1, <1>1, <1>5, Zenon
  <2>2. CASE \A g \in (0 .. 7) \ Function[s] :
               <<Config[s][g][0], Config[s][g][1]>> \in {<<0, 0>>, <<255, 255>>}
    BY <2>2, <1>1, <1>2, <1>5, Zenon
  <2>3. \/ Function[s] = {0} /\ Config[s][0][14] < 128
        \/ \A g \in (0 .. 7) \ Function[s] :
             <<Config[s][g][0], Config[s][g][1]>> \in {<<0, 0>>, <<255, 255>>}
    <3> HIDE DEF s, f
    <3> QED
      BY <1>1, PciFacts, Zenon
  <2> QED
    BY <2>1, <2>2, <2>3, Zenon
<1> QED
  BY <1>1, <1>4, <1>5, Zenon DEF s, f

LEMMA GetDeviceDescriptorPreserves ==
  ASSUME PciInv, GetDeviceDescriptor
  PROVE  PciInv'
<1>1. /\ scan.at = "function" /\ scan.function < scan.numFunctions
      /\ scan.numFunctions = Numbers(scan.slot) /\ Numbers(scan.slot) \in {1, 8}
      /\ scan.function \in 0 .. 7 /\ scan.slot \in Slot
      /\ ListedOK /\ listed' = listed
  BY VendorTells DEF GetDeviceDescriptor, PciInv, ScanOK, WalkOK, Numbers
<1>2. CASE Vendor(scan.slot, scan.function) \in {<<0, 0>>, <<255, 255>>}
  <2>1. scan' = [scan EXCEPT !.function = @ + 1]
    BY <1>2 DEF GetDeviceDescriptor
  <2>2. /\ ScanOK' /\ scan'.at = "function" /\ scan'.slot = scan.slot
        /\ scan'.function = scan.function + 1
        /\ scan'.numFunctions = scan.numFunctions
    BY <2>1, <1>1 DEF PciInv, ScanOK
  <2>3. scan.function \notin Function[scan.slot]
    BY <1>1, <1>2, VendorTells
  <2>4. {f \in Function[scan.slot] : f < scan.function + 1}
          = {f \in Function[scan.slot] : f < scan.function}
    <3>1. \A f \in Function[scan.slot] : f \in Nat /\ f # scan.function
      BY <1>1, <2>3, PciFacts, SMT
    <3> QED
      BY <3>1, <1>1, SMT
  <2>5. ListedOK'
    BY <1>1, <2>2, <2>4 DEF ListedOK
  <2>6. scan'.function \in 0 .. scan'.numFunctions
    BY <1>1, <2>2, SMT
  <2> QED
    BY <1>1, <2>2, <2>5, <2>6 DEF PciInv, WalkOK, Numbers
<1>3. CASE Vendor(scan.slot, scan.function) \notin {<<0, 0>>, <<255, 255>>}
  <2>1. scan' = [scan EXCEPT !.at = "bar", !.barNum = 0, !.portBase = Unset]
    BY <1>3 DEF GetDeviceDescriptor
  <2>2. /\ ScanOK' /\ scan'.at = "bar" /\ scan'.slot = scan.slot
        /\ scan'.function = scan.function /\ scan'.barNum = 0
        /\ scan'.numFunctions = scan.numFunctions /\ scan'.portBase = Unset
    BY <2>1 DEF PciInv, ScanOK
  <2>3. scan.function \in Function[scan.slot]
    BY <1>1, <1>3, VendorTells
  <2>4. ListedOK'
    BY <1>1, <2>2 DEF ListedOK
  <2>5. PortBaseIsOwn'
    <3>1. 0 .. scan'.barNum - 1 = {}
      BY <2>2, SMT
    <3> QED
      BY <2>2, <3>1 DEF PortBaseIsOwn
  <2>6. scan'.function \in 0 .. scan'.numFunctions /\ scan'.barNum \in 0 .. 6
    BY <1>1, <2>2, SMT
  <2> QED
    BY <1>1, <2>2, <2>3, <2>4, <2>5, <2>6 DEF PciInv, WalkOK, Numbers
<1> QED
  BY <1>2, <1>3

(* A base address register with a port replaces what portBase was; another *)
(* one leaves it, whatever is left over in the result.                     *)
LEMMA BarFacts ==
  ASSUME NEW s \in Slot, NEW f, NEW n \in 0 .. 5, NEW garbage \in Garbage,
         ~(n >= MaxBARs(s, f))
  PROVE  LET value == ReadConfig(s, f, 16 + 4 * n)
             bar == GetBaseAddressRegister(s, f, n, garbage)
         IN  /\ bar.type = "InputOutput" <=> value[1] % 2 = 1
             /\ bar.type = "InputOutput" => bar.address = BaseOf(value)
<1> DEFINE value == ReadConfig(s, f, 16 + 4 * n)
           bar == GetBaseAddressRegister(s, f, n, garbage)
<1> HIDE DEF value
<1>2. bar = IF value[1] % 2 = 1
            THEN [type |-> "InputOutput", address |-> BaseOf(value)]
            ELSE [garbage EXCEPT !.type = "MemoryMapping"]
  BY Zenon DEF GetBaseAddressRegister, value
<1>3. garbage \in [type : {"InputOutput", "MemoryMapping"},
                   address : [1 .. 4 -> 0 .. 255]]
  <2>1. Garbage \subseteq [type : {"InputOutput", "MemoryMapping"},
                            address : [1 .. 4 -> 0 .. 255]]
    BY PciFacts, Zenon
  <2> QED
    BY <2>1
<1> HIDE DEF bar
<1>4. CASE value[1] % 2 = 1
  <2>1. bar.type = "InputOutput" /\ bar.address = BaseOf(value)
    BY <1>2, <1>4
  <2> QED
    BY <2>1, <1>4 DEF value, bar
<1>5. CASE ~(value[1] % 2 = 1)
  <2>1. bar.type = "MemoryMapping"
    BY <1>2, <1>3, <1>5
  <2> QED
    BY <2>1, <1>5 DEF value, bar
<1> QED
  BY <1>4, <1>5

LEMMA ExamineBarPreserves ==
  ASSUME PciInv, NEW garbage \in Garbage, ExamineBar(garbage)
  PROVE  PciInv'
<1> DEFINE s == scan.slot
           f == scan.function
           n == scan.barNum
           value(b) == ReadConfig(s, f, 16 + 4 * b)
           inUse(b) == value(b)[1] % 2 = 1 /\ BaseOf(value(b)) # <<0, 0, 0, 0>>
           used(m) == {b \in 0 .. m - 1 : inUse(b)}
           port(m) == IF used(m) = {} THEN Unset ELSE BaseOf(value(Max(used(m))))
           bar == GetBaseAddressRegister(s, f, n, garbage)
<1>1. /\ scan.at = "bar" /\ n \in 0 .. 5 /\ s \in Slot /\ listed' = listed
      /\ ListedOK /\ PortBaseIsOwn
      /\ scan' = [scan EXCEPT
                    !.barNum = @ + 1,
                    !.portBase = IF /\ bar.address # <<0, 0, 0, 0>>
                                    /\ bar.type = "InputOutput"
                                 THEN bar.address ELSE @]
  BY DEF ExamineBar, PciInv, ScanOK, WalkOK
<1> HIDE DEF bar
<1>2. /\ scan'.at = "bar" /\ scan'.slot = s /\ scan'.function = f
      /\ scan'.numFunctions = scan.numFunctions /\ scan'.barNum = n + 1
      /\ scan'.bus = scan.bus /\ scan'.device = scan.device
      /\ scan'.portBase = IF bar.address # <<0, 0, 0, 0>> /\ bar.type = "InputOutput"
                          THEN bar.address ELSE scan.portBase
      /\ ScanOK'
  BY <1>1 DEF PciInv, ScanOK
<1>3. ListedOK'
  BY <1>1, <1>2 DEF ListedOK
<1>4. \A g, r : ReadConfig(s, g, r)' = ReadConfig(s, g, r)
  BY <1>2, Zenon DEF ReadConfig, ConfigData
<1>5. ASSUME n + 1 <= MaxBARs(s, f)
      PROVE  scan'.portBase = port(n + 1)
  <2>1. scan.portBase = port(n) /\ ~(n >= MaxBARs(s, f))
    <3>1. MaxBARs(s, f) \in Int
      <4>1. f \in 0 .. 7
        BY PciFacts, <1>1 DEF PciInv, WalkOK
      <4>2. ReadConfig(s, f, 14)[1] \in 0 .. 255
        <5>1. ScanOK /\ s \in Slot
          BY <1>1 DEF PciInv
        <5> HIDE DEF s, f
        <5>2. /\ ReadConfig(s, f, 14)[1] = Config[s][f][14]
              /\ Config[s][f][14] \in 0 .. 255
          BY <4>1, <5>1, ReadFacts, Zenon
        <5> QED
          BY <5>2
      <4> QED
        BY <4>2, SMT DEF MaxBARs, HeaderType
    <3>2. n <= MaxBARs(s, f) /\ ~(n >= MaxBARs(s, f))
      BY <1>1, <1>5, <3>1, SMT
    <3> QED
      BY <1>1, <3>2 DEF PortBaseIsOwn
  <2>2. /\ bar.type = "InputOutput" <=> value(n)[1] % 2 = 1
        /\ bar.type = "InputOutput" => bar.address = BaseOf(value(n))
    BY <1>1, <2>1, BarFacts DEF bar
  <2> HIDE DEF value
  <2>3. scan'.portBase = IF inUse(n) THEN BaseOf(value(n)) ELSE port(n)
    BY <1>2, <2>1, <2>2
  <2> HIDE DEF inUse
  <2>4. used(n + 1) = IF inUse(n) THEN used(n) \cup {n} ELSE used(n)
    <3>1. 0 .. (n + 1) - 1 = (0 .. n - 1) \cup {n} /\ n \notin 0 .. n - 1
      BY <1>1, SMT
    <3> QED
      BY <3>1
  <2>5. CASE inUse(n)
    <3>1. \A b \in used(n) : b \in Int /\ b <= n
      BY <1>1, SMT
    <3>2. n \in used(n + 1) /\ \A b \in used(n + 1) : b \in Int /\ b <= n
      BY <1>1, <2>4, <2>5, <3>1, SMT
    <3>3. Max(used(n + 1)) = n
      <4> HIDE DEF used
      <4> QED
        BY <1>1, <3>2, SMT DEF Max
    <3> QED
      BY <2>3, <2>5, <3>2, <3>3, Zenon
  <2>6. CASE ~inUse(n)
    BY <2>3, <2>4, <2>6, Zenon
  <2> QED
    BY <2>5, <2>6
<1>6. PortBaseIsOwn'
  <2>1. MaxBARs(scan.slot, scan.function)' = MaxBARs(s, f)
    BY <1>2, <1>4 DEF MaxBARs, HeaderType
  <2>2. \A b : ReadConfig(scan.slot, scan.function, 16 + 4 * b)' = value(b)
    BY <1>2, <1>4
  <2> HIDE DEF value
  <2>3. PortBaseIsOwn' =
          (/\ scan'.at = "bar"
           /\ scan'.barNum <= MaxBARs(scan.slot, scan.function)'
           => scan'.portBase = port(scan'.barNum))
    BY <2>2, Zenon DEF PortBaseIsOwn
  <2> QED
    BY <1>2, <1>5, <2>1, <2>3, Zenon
<1> HIDE DEF s, f, n
<1>7. n + 1 \in 0 .. 6
  BY <1>1, SMT
<1> QED
  BY <1>1, <1>2, <1>3, <1>6, <1>7 DEF PciInv, WalkOK, Numbers, s, f, n

LEMMA PrintFunctionPreserves ==
  ASSUME PciInv, PrintFunction
  PROVE  PciInv'
<1> DEFINE s == scan.slot
           f == scan.function
           below(n) == {g \in Function[s] : g < n}
<1>1. /\ scan.at = "bar" /\ listed' = Append(listed, f)
      /\ scan' = [scan EXCEPT !.at = "function", !.function = f + 1]
      /\ ListedOK /\ s \in Slot /\ f \in Function[s]
      /\ scan.numFunctions = Numbers(s)
      /\ f \in 0 .. scan.numFunctions /\ f < scan.numFunctions
  BY DEF PrintFunction, PciInv, ScanOK, WalkOK
<1>2. /\ scan'.at = "function" /\ scan'.slot = s /\ scan'.function = f + 1
      /\ scan'.numFunctions = scan.numFunctions /\ ScanOK'
  BY <1>1 DEF PciInv, ScanOK
<1>3. f \in Nat /\ Function[s] \subseteq Nat
  <2>1. Function[s] \subseteq 0 .. 7
    BY <1>1, PciFacts, Zenon
  <2> QED
    BY <2>1, <1>1
<1> DEFINE n == Len(listed)
<1>4. /\ listed \in Seq(Nat) /\ n \in Nat /\ DOMAIN listed = 1 .. n
      /\ listed' \in Seq(Nat) /\ Len(listed') = n + 1 /\ DOMAIN listed' = 1 .. n + 1
      /\ \A i \in 1 .. n : listed'[i] = listed[i]
      /\ listed'[n + 1] = f
  <2>1. listed \in Seq(Nat)
    BY <1>1 DEF ListedOK
  <2>2. n \in Nat /\ DOMAIN listed = 1 .. n
    BY <2>1
  <2>3. listed' \in Seq(Nat) /\ Len(listed') = n + 1
    BY <2>1, <1>1, <1>3
  <2>4. DOMAIN listed' = 1 .. n + 1
    BY <2>3
  <2>5. (\A i \in 1 .. n : listed'[i] = listed[i]) /\ listed'[n + 1] = f
    BY <2>1, <2>2, <1>1, <1>3
  <2> QED
    BY <2>1, <2>2, <2>3, <2>4, <2>5
<1> HIDE DEF n, s, f
<1>5. /\ {listed[i] : i \in 1 .. n} = below(f)
      /\ \A i, j \in 1 .. n : i < j => listed[i] < listed[j]
  BY <1>1, <1>4, Zenon DEF ListedOK, s, f
<1>6. below(f + 1) = below(f) \cup {f}
  <2>1. \A g \in Nat : g < f + 1 <=> g < f \/ g = f
    BY <1>3, SMT
  <2>2. f \in Function[s]
    BY <1>1 DEF s, f
  <2> QED
    BY <2>1, <2>2, <1>3
<1>7. 1 .. n + 1 = (1 .. n) \cup {n + 1}
  BY <1>4, SMT
<1>8. {listed'[i] : i \in 1 .. n + 1} = below(f + 1)
  <2>1. {listed'[i] : i \in 1 .. n + 1} = {listed'[i] : i \in 1 .. n} \cup {f}
    BY <1>4, <1>7
  <2>2. {listed'[i] : i \in 1 .. n} = {listed[i] : i \in 1 .. n}
    BY <1>4
  <2> QED
    BY <2>1, <2>2, <1>5, <1>6
<1>9. ASSUME NEW i \in 1 .. n + 1, NEW j \in 1 .. n + 1, i < j
      PROVE  listed'[i] < listed'[j]
  <2>1. i \in 1 .. n
    BY <1>4, <1>9, SMT
  <2>2. CASE j \in 1 .. n
    BY <2>1, <2>2, <1>4, <1>5, <1>9
  <2>3. CASE j = n + 1
    <3>1. listed[i] \in below(f)
      BY <2>1, <1>5
    <3> QED
      BY <2>1, <2>3, <3>1, <1>4
  <2> QED
    BY <1>7, <2>2, <2>3
<1>10. ListedOK'
  BY <1>2, <1>4, <1>8, <1>9 DEF ListedOK
<1>11. scan'.function \in 0 .. scan'.numFunctions
  BY <1>1, <1>2, SMT DEF Numbers, f
<1> QED
  BY <1>1, <1>2, <1>10, <1>11 DEF PciInv, WalkOK, Numbers, s

LEMMA NextDevicePreserves ==
  ASSUME PciInv, NextDevice
  PROVE  PciInv'
<1>1. scan.bus \in Nat /\ scan.device \in Nat
  BY DEF PciInv, ScanOK
<1>2. PICK b \in Nat, d \in Nat, at1 \in {"device", "over"} :
        scan' = [Outset(b, d) EXCEPT !.at = at1]
  <2>1. CASE scan.device + 1 < Devices
    <3>1. scan' = [Outset(scan.bus, scan.device + 1) EXCEPT !.at = "device"]
      BY <2>1 DEF NextDevice, Outset
    <3>2. scan.device + 1 \in Nat
      BY <1>1
    <3> QED
      BY <3>1, <3>2, <1>1, Zenon
  <2>2. CASE ~(scan.device + 1 < Devices) /\ scan.bus + 1 < Buses
    <3>1. scan' = [Outset(scan.bus + 1, 0) EXCEPT !.at = "device"]
      BY <2>2 DEF NextDevice, Outset
    <3>2. scan.bus + 1 \in Nat /\ 0 \in Nat
      BY <1>1
    <3> QED
      BY <3>1, <3>2, Zenon
  <2>3. CASE ~(scan.device + 1 < Devices) /\ ~(scan.bus + 1 < Buses)
    BY <2>3 DEF NextDevice
  <2> QED
    BY <2>1, <2>2, <2>3
<1>3. scan' = [at |-> at1, slot |-> Vacant, bus |-> b, device |-> d,
               function |-> 0, numFunctions |-> 0, barNum |-> 0,
               portBase |-> Unset]
  BY <1>2 DEF Outset
<1>4. ScanOK'
  BY <1>3, PciFacts DEF ScanOK
<1>5. scan'.at \notin {"function", "bar"}
  BY <1>3
<1> QED
  BY <1>4, <1>5 DEF PciInv, WalkOK

LEMMA StepPreserves == PciInv /\ [Next]_vars => PciInv'
<1> SUFFICES ASSUME PciInv, [Next]_vars PROVE PciInv'
  OBVIOUS
<1>1. CASE SelectDrivers
  BY <1>1, ExamineDevicePreserves, GetDeviceDescriptorPreserves,
     ExamineBarPreserves, PrintFunctionPreserves, NextDevicePreserves, Zenon
  DEF SelectDrivers
<1>2. CASE UNCHANGED pciVars
  <2>1. scan' = scan /\ listed' = listed
    BY <1>2 DEF pciVars
  <2> QED
    BY <2>1, Zenon DEF PciInv, ScanOK, WalkOK, ListedOK, PortBaseIsOwn,
       MaxBARs, HeaderType, ReadConfig
<1>3. SelectDrivers \/ UNCHANGED pciVars
  BY DEF Next, KernelMain, Construct, Scan, ActivateAll, StartInterrupts,
         vars, pciVars
<1> QED
  BY <1>1, <1>2, <1>3

LEMMA Invariant == Spec => []PciInv
<1>1. Init => PciInv
  BY InitHolds DEF Init
<1> QED
  BY <1>1, StepPreserves, PTL DEF Spec

(* Every function a device has is listed, once, whatever the slots hold    *)
(* that keeps to the rules of PCI: however it answers under the numbers of *)
(* functions it does not have.                                             *)
THEOREM ListsOnce == Spec => []FunctionsListedOnce
<1>1. ASSUME PciInv, FunctionsDone
      PROVE  {f \in Function[scan.slot] : f < scan.function} = Function[scan.slot]
  <2>1. /\ scan.slot \in Slot /\ scan.function = Numbers(scan.slot)
    BY <1>1, SMT DEF PciInv, ScanOK, WalkOK, FunctionsDone, Numbers
  <2>2. Function[scan.slot] \subseteq 0 .. 7
    BY <2>1, PciFacts, Zenon
  <2>3. Config[scan.slot][0][14] >= 128 \/ Function[scan.slot] = {0}
    BY <2>1, PciFacts, Zenon
  <2>4. CASE Config[scan.slot][0][14] >= 128
    BY <2>1, <2>2, <2>4, SMT DEF Numbers
  <2>5. CASE ~(Config[scan.slot][0][14] >= 128)
    BY <2>1, <2>3, <2>5 DEF Numbers
  <2> QED
    BY <2>4, <2>5
<1>2. PciInv => FunctionsListedOnce
  BY <1>1 DEF PciInv, WalkOK, ListedOK, FunctionsListedOnce, FunctionsDone
<1> QED
  BY <1>2, Invariant, PTL

(* While the registers looked at are ones the function has, its port is    *)
(* one of theirs: all six of a device, the first two of a bridge.          *)
THEOREM PortIsOwn == Spec => []PortBaseIsOwn
<1>1. PciInv => PortBaseIsOwn
  BY DEF PciInv, WalkOK, PortBaseIsOwn
<1> QED
  BY <1>1, Invariant, PTL
=============================================================================
