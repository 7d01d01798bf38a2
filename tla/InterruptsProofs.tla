-------------------------- MODULE InterruptsProofs --------------------------
(***************************************************************************)
(* Proofs about the interrupt descriptor table and about Interrupts.       *)
(***************************************************************************)
EXTENDS Interrupts, SequenceTheorems, TLAPS

(* With the offset kernelMain passes, 0x20, the vectors that are handled   *)
(* are the exceptions 0x00 - 0x13 and sixteen hardware interrupts, and     *)
(* each of their stubs passes on the number of its own vector.             *)
THEOREM StubsPassTheirVector ==
  \A v \in 0 .. 255 :
    /\ StubOf(hardwareInterruptOffset, v).kind # "ignore"
         <=> v \in (0 .. 19) \cup (32 .. 47)
    /\ StubOf(hardwareInterruptOffset, v).kind = "request"
         <=> v \in 32 .. 47
    /\ v \in (0 .. 19) \cup (32 .. 47)
         => Passed(StubOf(hardwareInterruptOffset, v)) = v
<1> SUFFICES ASSUME NEW v \in 0 .. 255
    PROVE  LET stub == StubOf(32, v)
           IN  /\ stub.kind # "ignore" <=> v \in (0 .. 19) \cup (32 .. 47)
               /\ stub.kind = "request" <=> v \in 32 .. 47
               /\ v \in (0 .. 19) \cup (32 .. 47) => Passed(stub) = v
  BY DEF hardwareInterruptOffset
<1>1. CASE v \in 32 .. 47
  <2>1. (v - 32) % 256 = v - 32 /\ v - 32 < 16 /\ (v - 32 + 32) % 256 = v
    BY <1>1, SMT
  <2>2. StubOf(32, v) = [kind |-> "request", num |-> v - 32]
    BY <2>1 DEF StubOf
  <2>3. Passed(StubOf(32, v)) = v
    BY <2>1, <2>2 DEF Passed, IRQ_BASE
  <2> QED
    BY <1>1, <2>2, <2>3
<1>2. CASE v \notin 32 .. 47
  <2>1. ~((v - 32) % 256 < 16) /\ (v < 20 <=> v \in 0 .. 19)
    BY <1>2, SMT
  <2>2. StubOf(32, v) = IF v < 20 THEN [kind |-> "exception", num |-> v]
                        ELSE [kind |-> "ignore", num |-> 0]
    BY <2>1 DEF StubOf
  <2> QED
    BY <1>2, <2>1, <2>2 DEF Passed
<1> QED
  BY <1>1, <1>2

(* No other offset would do: the stubs know only IRQ_BASE, and with a      *)
(* different one each of the sixteen requests would be taken for another.  *)
THEOREM OffsetIsTheBase ==
  ASSUME NEW offset \in 0 .. 255, NEW l \in 0 .. 15
  PROVE  Passed(StubOf(offset, (offset + l) % 256)) = (offset + l) % 256
           <=> offset = IRQ_BASE
<1>1. (((offset + l) % 256) - offset) % 256 = l
  BY SMT
<1>2. StubOf(offset, (offset + l) % 256) = [kind |-> "request", num |-> l]
  BY <1>1, SMT DEF StubOf
<1>3. Passed(StubOf(offset, (offset + l) % 256)) = (l + 32) % 256
  BY <1>2 DEF Passed, IRQ_BASE
<1>4. (l + 32) % 256 = (offset + l) % 256 <=> offset = 32
  BY SMT
<1> QED
  BY <1>3, <1>4 DEF IRQ_BASE

(* The two halves of a gate lead to the handler they were made of, and the *)
(* access byte says what it was told: present, an interrupt gate.          *)
THEOREM GateLeadsToHandler ==
  ASSUME NEW high \in Nat, NEW low \in Nat, high < 65536, low < 65536,
         NEW codeSegment, NEW level \in 0 .. 3
  PROVE  LET handler == high * 65536 + low
             gate == GateDescriptor(handler, codeSegment, level,
                                    IDT_INTERRUPT_GATE)
         IN  /\ HandlerOf(gate) = handler
             /\ Present(gate) /\ TypeOf(gate) = IDT_INTERRUPT_GATE
             /\ gate.access \in 0 .. 255
<1> DEFINE handler == high * 65536 + low
           gate == GateDescriptor(handler, codeSegment, level, 14)
<1>1. handler % 65536 = low /\ (handler \div 65536) % 65536 = high
  <2>1. handler % 65536 = low /\ handler \div 65536 = high
    BY SMT
  <2>2. high % 65536 = high
    BY SMT
  <2> QED
    BY <2>1, <2>2, SMT
<1> DEFINE access == 128 + (level % 4) * 32 + 14
<1>2. access >= 128 /\ access % 32 = 14 /\ access \in 0 .. 255
  <2>1. level = 0 \/ level = 1 \/ level = 2 \/ level = 3
    BY SMT
  <2> QED
    BY <2>1, SMT
<1> HIDE DEF handler, access
<1>3. /\ gate.handlerAddressLowBits = low
      /\ gate.handlerAddressHighBits = high
      /\ gate.access = access
  BY <1>1, SMT DEF GateDescriptor, access
<1> HIDE DEF gate
<1>4. HandlerOf(gate) = handler
  BY <1>3, SMT DEF HandlerOf, handler
<1>5. Present(gate) /\ TypeOf(gate) = 14 /\ gate.access \in 0 .. 255
  BY <1>2, <1>3, SMT DEF Present, TypeOf
<1> QED
  BY <1>4, <1>5, SMT DEF handler, gate, IDT_INTERRUPT_GATE
-----------------------------------------------------------------------------
(* The interrupt controllers.                                              *)
Pics == [irr : SUBSET Line, isr : SUBSET (Line \cup {Cascade})]

LEMMA Lines ==
  /\ Line \subseteq (0 .. 15) \ {2} /\ Cascade = 2
  /\ Master = 0 .. 7 /\ Slave = 8 .. 15
  /\ Line \cup {Cascade} \subseteq 0 .. 15
BY InterruptAssumption DEF Master, Slave, Cascade

LEMMA MinFacts ==
  ASSUME NEW S, S \subseteq 0 .. 15, S # {}
  PROVE  Min(S) \in S /\ \A s \in S : Min(S) <= s
<1>1. \E k \in S : \A s \in S : k <= s
  <2> SUFFICES ASSUME \A k \in S : \E s \in S : s < k
      PROVE  FALSE
    BY SMT
  <2>1. S \cap 0 .. 3 = {}
    BY SMT
  <2>2. S \cap 4 .. 7 = {}
    BY <2>1, SMT
  <2>3. S \cap 8 .. 11 = {}
    BY <2>1, <2>2, SMT
  <2>4. S \cap 12 .. 15 = {}
    BY <2>1, <2>2, <2>3, SMT
  <2>5. PICK n \in S : n \in 0 .. 15
    OBVIOUS
  <2>6. n \in 0 .. 3 \/ n \in 4 .. 7 \/ n \in 8 .. 11 \/ n \in 12 .. 15
    BY <2>5, SMT
  <2> QED
    BY <2>1, <2>2, <2>3, <2>4, <2>6
<1> QED
  BY <1>1 DEF Min

(* The line selected asks for service, and stands above every line in      *)
(* service on its chip; one on the slave also above those on the master.   *)
LEMMA SelectedFacts ==
  ASSUME pic \in Pics, Interrupting(pic)
  PROVE  /\ Selected(pic) \in pic.irr
         /\ Selected(pic) \in Master =>
              \A s \in pic.isr \cap Master : Selected(pic) < s
         /\ Selected(pic) \in Slave =>
              /\ \A s \in pic.isr \cap Slave : Selected(pic) < s
              /\ \A s \in pic.isr \cap Master : Cascade < s
<1> DEFINE m == Min(MasterAsks(pic))
           l == Min(SlaveAsks(pic))
<1>1. pic.irr \subseteq Line /\ pic.isr \subseteq Line \cup {Cascade}
  BY DEF Pics
<1>2. MasterAsks(pic) # {}
  BY DEF Interrupting
<1>3. SlaveAsks(pic) \subseteq 0 .. 15 /\ MasterAsks(pic) \subseteq 0 .. 15
  BY <1>1, Lines DEF SlaveAsks, MasterAsks
<1>4. m \in MasterAsks(pic)
  BY <1>2, <1>3, MinFacts
<1> HIDE DEF m
<1>5. /\ m \in pic.irr \cap Master \/ (SlaveAsks(pic) # {} /\ m = Cascade)
      /\ \A s \in pic.isr \cap Master : m < s
  BY <1>4 DEF MasterAsks, Above
<1>6. CASE m = Cascade
  <2>1. SlaveAsks(pic) # {}
    BY <1>1, <1>5, <1>6, Lines
  <2>2. l \in SlaveAsks(pic)
    BY <1>3, <2>1, MinFacts
  <2>3. l \in pic.irr \cap Slave /\ \A s \in pic.isr \cap Slave : l < s
    BY <2>2 DEF SlaveAsks, Above
  <2>4. Selected(pic) = l
    BY <1>6 DEF Selected, m
  <2> HIDE DEF l
  <2>5. l \notin Master
    BY <2>3, Lines
  <2> QED
    BY <1>5, <1>6, <2>3, <2>4, <2>5
<1>7. CASE m # Cascade
  <2>1. Selected(pic) = m
    BY <1>7 DEF Selected, m
  <2>2. m \in pic.irr \cap Master /\ m \notin Slave
    BY <1>5, <1>7, Lines
  <2> QED
    BY <1>5, <2>1, <2>2
<1> QED
  BY <1>6, <1>7
-----------------------------------------------------------------------------
(* An exception for which the processor pushes no error code ends in a     *)
(* frame that is one word short, which is what the run for them shows; the *)
(* theorems below are about threads that cause none of these.              *)
FaultsPushErrorCode == \A v \in Fault : HasErrorCode(v)

LEMMA Constants ==
  /\ Length \in Nat /\ Length > 0 /\ MaxTasks \in Nat /\ MaxTasks > 0
  /\ Main \notin Task /\ None \notin Manager /\ Fault \subseteq 0 .. 19
  /\ Glitchy \subseteq Line
BY InterruptAssumption, TaskAssumption

(* The words of stacks and registers are words.                            *)
LEMMA Words ==
  ASSUME NEW t \in Thread
  PROVE  /\ \A n \in 0 .. Length : /\ Registers(t, n) \in Word
                                  /\ Place(t, n) \in Word
                                  /\ Local(t, n) \in Word
         /\ \A n \in {0, 1} : Flags(t, n) \in Word /\ Flags(t, n).n = n
         /\ Plain(t, "error") \in Word /\ Plain(t, "cs") \in Word
         /\ Plain(t, "ss") \in Word /\ Plain(t, "esp") \in Word
BY Constants DEF Registers, Place, Local, Flags, Plain, Word, StackWord

(* A list of words told by its places is a sequence of them.               *)
LEMMA Listed ==
  ASSUME NEW k \in Nat, NEW s, s \in [1 .. k -> Word]
  PROVE  s \in Seq(Word) /\ Len(s) = k
<1>1. s \in Seq(Word)
  BY SeqDef
<1>2. Len(s) \in Nat /\ 1 .. Len(s) = 1 .. k
  BY <1>1, LenProperties
<1>3. \A a, b \in Nat : 1 .. a = 1 .. b => a = b
  <2> SUFFICES ASSUME NEW a \in Nat, NEW b \in Nat, 1 .. a = 1 .. b
      PROVE  a = b
    OBVIOUS
  <2>1. (b \in 1 .. b => b \in 1 .. a) /\ (a \in 1 .. a => a \in 1 .. b)
    OBVIOUS
  <2>2. (b > 0 => b <= a) /\ (a > 0 => a <= b)
    BY <2>1, SMT
  <2> QED
    BY <2>2, SMT
<1> QED
  BY <1>1, <1>2, <1>3

(* Two lists of words one after the other.                                 *)
LEMMA Joined ==
  ASSUME NEW s \in Seq(Word), NEW u \in Seq(Word), NEW k \in Nat, NEW l \in Nat,
         Len(s) = k, Len(u) = l
  PROVE  /\ s \o u \in Seq(Word) /\ Len(s \o u) = k + l
         /\ \A i \in 1 .. k + l : (s \o u)[i] = IF i <= k THEN s[i] ELSE u[i - k]
BY ConcatProperties

(* A thread that has executed n instructions of its loop has on its stack  *)
(* what it found there and the n words it pushed; where it is stopped, the *)
(* five words of a frame lie on top of them.                               *)
Rest(t) == IF t = Main THEN 0 ELSE 2

OwnWord(t, i) ==
  IF i > Rest(t) THEN Local(t, i - Rest(t))
  ELSE IF i = 1 THEN Plain(t, "ss") ELSE Plain(t, "esp")

FrameWord(t, n, k) ==
  CASE k = 1 -> Flags(t, 1) [] k = 2 -> Plain(t, "cs") [] k = 3 -> Place(t, n)
    [] k = 4 -> Plain(t, "error") [] OTHER -> Registers(t, n)

Own(t, n) == [i \in 1 .. Rest(t) + n |-> OwnWord(t, i)]

Framed(t, n) ==
  [i \in 1 .. Rest(t) + n + 5 |->
     IF i <= Rest(t) + n THEN OwnWord(t, i)
     ELSE FrameWord(t, n, i - (Rest(t) + n))]

LEMMA RestFacts ==
  ASSUME NEW t
  PROVE  Rest(t) \in {0, 2}
BY DEF Rest

LEMMA OwnWordIs ==
  ASSUME NEW t, NEW i, NEW j \in Nat, i = Rest(t) + j, j > 0
  PROVE  OwnWord(t, i) = Local(t, j)
<1>1. i > Rest(t) /\ i - Rest(t) = j
  BY RestFacts
<1> QED
  BY <1>1 DEF OwnWord

LEMMA OwnSeq ==
  ASSUME NEW t \in Thread, NEW n \in 0 .. Length
  PROVE  /\ Own(t, n) \in Seq(Word) /\ Len(Own(t, n)) = Rest(t) + n
         /\ \A i \in 1 .. Rest(t) + n :
              Own(t, n)[i] = OwnWord(t, i) /\ OwnWord(t, i) \in Word
<1>1. \A i \in 1 .. Rest(t) + n : OwnWord(t, i) \in Word
  <2> SUFFICES ASSUME NEW i \in 1 .. Rest(t) + n PROVE OwnWord(t, i) \in Word
    OBVIOUS
  <2>1. i > Rest(t) => i - Rest(t) \in 0 .. Length
    BY RestFacts, Constants
  <2> QED
    BY <2>1, Words DEF OwnWord
<1>2. Rest(t) + n \in Nat
  BY RestFacts, Constants
<1>3. Own(t, n) \in [1 .. Rest(t) + n -> Word]
  BY <1>1 DEF Own
<1> QED
  BY <1>1, <1>2, <1>3, Listed DEF Own

LEMMA FramedSeq ==
  ASSUME NEW t \in Thread, NEW n \in 0 .. Length
  PROVE  /\ Framed(t, n) \in Seq(Word)
         /\ Len(Framed(t, n)) = Rest(t) + n + 5
         /\ \A i \in 1 .. Rest(t) + n : Framed(t, n)[i] = OwnWord(t, i)
         /\ \A k \in 1 .. 5 :
              Framed(t, n)[Rest(t) + n + k] = FrameWord(t, n, k)
<1> DEFINE d == Rest(t) + n
<1>1. d \in Nat /\ d + 5 \in Nat
  BY RestFacts, Constants
<1>2. \A k : FrameWord(t, n, k) \in Word
  BY Words, Constants DEF FrameWord
<1>3. \A i \in 1 .. d : OwnWord(t, i) \in Word
  BY OwnSeq
<1>4. Framed(t, n) = [i \in 1 .. d + 5 |-> IF i <= d THEN OwnWord(t, i)
                                           ELSE FrameWord(t, n, i - d)]
  BY DEF Framed
<1> HIDE DEF d
<1>5. \A i \in 1 .. d + 5 : i <= d => i \in 1 .. d
  BY <1>1
<1>6. Framed(t, n) \in [1 .. d + 5 -> Word]
  BY <1>2, <1>3, <1>4, <1>5
<1>7. Framed(t, n) \in Seq(Word) /\ Len(Framed(t, n)) = d + 5
  BY <1>1, <1>6, Listed
<1>8. \A i \in 1 .. d : Framed(t, n)[i] = OwnWord(t, i)
  <2>1. \A i \in 1 .. d : i \in 1 .. d + 5 /\ i <= d
    BY <1>1
  <2> QED
    BY <1>4, <2>1
<1>9. \A k \in 1 .. 5 : Framed(t, n)[d + k] = FrameWord(t, n, k)
  <2> SUFFICES ASSUME NEW k \in 1 .. 5
      PROVE  Framed(t, n)[d + k] = FrameWord(t, n, k)
    OBVIOUS
  <2>1. d + k \in 1 .. d + 5 /\ ~(d + k <= d) /\ d + k - d = k
    BY <1>1
  <2>2. PICK i : i = d + k
    OBVIOUS
  <2>3. Framed(t, n)[i] = FrameWord(t, n, i - d)
    BY <1>4, <2>1, <2>2
  <2>4. i - d = k
    BY <1>1, <2>2
  <2> QED
    BY <2>2, <2>3, <2>4
<1> QED
  BY <1>7, <1>8, <1>9 DEF d

(* What a thread starts with: its frame lies on the words it finds.        *)
LEMMA FreshFramed ==
  ASSUME NEW t \in Task
  PROVE  FreshFrame(t) = Framed(t, 0) /\ Found[t] = Own(t, 0)
<1>1. t \in Thread /\ t # Main /\ Rest(t) = 2 /\ 0 \in 0 .. Length
  BY Constants DEF Thread, Rest
<1>2. Unset(t) \in Seq(Word) /\ Len(Unset(t)) = 2
      /\ Unset(t)[1] = OwnWord(t, 1) /\ Unset(t)[2] = OwnWord(t, 2)
  BY <1>1, Words DEF Unset, OwnWord
<1> DEFINE five == <<Flags(t, 1), Plain(t, "cs"), Place(t, 0),
                     Plain(t, "error"), Registers(t, 0)>>
<1>3. five \in Seq(Word) /\ Len(five) = 5
      /\ \A k \in 1 .. 5 : five[k] = FrameWord(t, 0, k)
  BY <1>1, Words, Constants DEF FrameWord
<1> HIDE DEF five
<1>4. /\ Unset(t) \o five \in Seq(Word) /\ Len(Unset(t) \o five) = 7
      /\ \A i \in 1 .. 7 : (Unset(t) \o five)[i] =
           IF i <= 2 THEN Unset(t)[i] ELSE five[i - 2]
  <2> DEFINE unset == Unset(t)
  <2>1. unset \in Seq(Word) /\ Len(unset) = 2
    BY <1>2
  <2>2. five \in Seq(Word) /\ Len(five) = 5
    BY <1>3
  <2> HIDE DEF unset
  <2>3. /\ unset \o five \in Seq(Word)
        /\ Len(unset \o five) = Len(unset) + Len(five)
        /\ \A i \in 1 .. Len(unset) + Len(five) : (unset \o five)[i] =
             IF i <= Len(unset) THEN unset[i] ELSE five[i - Len(unset)]
    BY <2>1, <2>2, ConcatProperties
  <2>4. /\ unset \o five \in Seq(Word) /\ Len(unset \o five) = 2 + 5
        /\ \A i \in 1 .. 2 + 5 : (unset \o five)[i] =
             IF i <= 2 THEN unset[i] ELSE five[i - 2]
    BY <2>1, <2>2, <2>3
  <2> QED
    BY <2>4 DEF unset
<1>5. /\ Framed(t, 0) \in Seq(Word) /\ Len(Framed(t, 0)) = 7
      /\ \A i \in 1 .. 2 : Framed(t, 0)[i] = OwnWord(t, i)
      /\ \A k \in 1 .. 5 : Framed(t, 0)[2 + k] = FrameWord(t, 0, k)
  <2>1. /\ Framed(t, 0) \in Seq(Word) /\ Len(Framed(t, 0)) = Rest(t) + 0 + 5
        /\ \A i \in 1 .. Rest(t) + 0 : Framed(t, 0)[i] = OwnWord(t, i)
        /\ \A k \in 1 .. 5 :
             Framed(t, 0)[Rest(t) + 0 + k] = FrameWord(t, 0, k)
    BY <1>1, FramedSeq
  <2>2. Rest(t) + 0 = 2 /\ Rest(t) + 0 + 5 = 7
    BY <1>1
  <2> QED
    BY <2>1, <2>2
<1>6. \A i \in 1 .. 7 : (Unset(t) \o five)[i] = Framed(t, 0)[i]
  <2> SUFFICES ASSUME NEW i \in 1 .. 7
      PROVE  (Unset(t) \o five)[i] = Framed(t, 0)[i]
    OBVIOUS
  <2>1. CASE i <= 2
    <3>1. i = 1 \/ i = 2
      BY <2>1
    <3> QED
      BY <1>2, <1>4, <1>5, <3>1
  <2>2. CASE ~(i <= 2)
    <3>1. PICK k \in 1 .. 5 : i = 2 + k /\ i - 2 = k
      BY <2>2
    <3> QED
      BY <1>3, <1>4, <1>5, <2>2, <3>1
  <2> QED
    BY <2>1, <2>2
<1>7. FreshFrame(t) = Framed(t, 0)
  <2>1. Unset(t) \o five = Framed(t, 0)
    BY <1>4, <1>5, <1>6, SeqEqual
  <2> QED
    BY <2>1 DEF FreshFrame, five
<1>8. Unset(t) = Own(t, 0)
  <2>1. /\ Own(t, 0) \in Seq(Word) /\ Len(Own(t, 0)) = 2
        /\ \A i \in 1 .. 2 : Own(t, 0)[i] = OwnWord(t, i)
    <3>1. /\ Own(t, 0) \in Seq(Word) /\ Len(Own(t, 0)) = Rest(t) + 0
          /\ \A i \in 1 .. Rest(t) + 0 : Own(t, 0)[i] = OwnWord(t, i)
      BY <1>1, OwnSeq
    <3> QED
      BY <1>1, <3>1
  <2>2. \A i \in 1 .. 2 : i = 1 \/ i = 2
    OBVIOUS
  <2> QED
    BY <1>2, <2>1, <2>2, SeqEqual
<1> QED
  BY <1>1, <1>7, <1>8 DEF Found

LEMMA FoundIs ==
  ASSUME NEW t \in Thread
  PROVE  Found[t] = Own(t, 0) /\ Len(Found[t]) = Rest(t)
<1>1. CASE t = Main
  <2>1. Own(t, 0) \in Seq(Word) /\ Len(Own(t, 0)) = 0
    BY <1>1, OwnSeq, Constants DEF Rest
  <2>2. Own(t, 0) = << >> /\ Found[t] = << >> /\ Rest(t) = 0
    BY <1>1, <2>1, EmptySeq DEF Found, Rest
  <2> QED
    BY <2>2
<1>2. CASE t # Main
  <2>1. t \in Task /\ 0 \in 0 .. Length /\ Rest(t) + 0 = Rest(t)
    BY <1>2, RestFacts, Constants DEF Thread
  <2>2. Found[t] = Own(t, 0)
    BY <2>1, FreshFramed
  <2>3. Len(Own(t, 0)) = Rest(t) + 0
    BY <2>1, OwnSeq
  <2> QED
    BY <2>1, <2>2, <2>3
<1> QED
  BY <1>1, <1>2

(* The instructions of a loop push a word each and the last one returns.   *)
LEMMA Pushing ==
  ASSUME NEW t \in Thread, NEW n \in 0 .. Length - 1
  PROVE  Append(Own(t, n), Local(t, n + 1)) = Own(t, n + 1)
<1> DEFINE d == Rest(t) + n
           a == Append(Own(t, n), Local(t, n + 1))
<1>1. /\ d \in Nat /\ d + 1 - Rest(t) = n + 1 /\ d + 1 > Rest(t)
      /\ n \in 0 .. Length /\ n + 1 \in 0 .. Length /\ Rest(t) + (n + 1) = d + 1
  BY RestFacts, Constants
<1>2. /\ Own(t, n) \in Seq(Word) /\ Len(Own(t, n)) = d
      /\ \A i \in 1 .. d : Own(t, n)[i] = OwnWord(t, i)
  BY <1>1, OwnSeq
<1>3. /\ Own(t, n + 1) \in Seq(Word) /\ Len(Own(t, n + 1)) = d + 1
      /\ \A i \in 1 .. d + 1 : Own(t, n + 1)[i] = OwnWord(t, i)
  BY <1>1, OwnSeq
<1> HIDE DEF d
<1>4. Local(t, n + 1) = OwnWord(t, d + 1) /\ Local(t, n + 1) \in Word
  <2>1. OwnWord(t, d + 1) = Local(t, n + 1)
    <3>1. d + 1 = Rest(t) + (n + 1) /\ n + 1 > 0 /\ n + 1 \in Nat
      BY <1>1
    <3> QED
      BY <3>1, OwnWordIs
  <2> QED
    BY <1>1, <2>1, Words
<1>5. /\ a \in Seq(Word) /\ Len(a) = d + 1
      /\ \A i \in 1 .. d : a[i] = Own(t, n)[i]
      /\ a[d + 1] = Local(t, n + 1)
  BY <1>1, <1>2, <1>4, AppendProperties
<1> HIDE DEF a
<1>6. \A i \in 1 .. d + 1 : a[i] = Own(t, n + 1)[i]
  <2>1. \A i \in 1 .. d + 1 : i \in 1 .. d \/ i = d + 1
    BY <1>1
  <2> QED
    BY <1>2, <1>3, <1>4, <1>5, <2>1
<1>7. a = Own(t, n + 1)
  BY <1>3, <1>5, <1>6, SeqEqual
<1> QED
  BY <1>7 DEF a

LEMMA Returning ==
  ASSUME NEW t \in Thread, NEW n \in 0 .. Length - 1
  PROVE  SubSeq(Own(t, n), 1, Len(Own(t, n)) - n) = Own(t, 0)
<1>1. /\ n \in 0 .. Length /\ 0 \in 0 .. Length
      /\ Rest(t) \in Nat /\ Rest(t) + n - n = Rest(t) /\ Rest(t) + 0 = Rest(t)
      /\ \A i \in 1 .. Rest(t) : i \in 1 .. Rest(t) + n
  BY RestFacts, Constants
<1>2. /\ Own(t, n) \in Seq(Word) /\ Len(Own(t, n)) - n = Rest(t)
      /\ \A i \in 1 .. Rest(t) : /\ Own(t, n)[i] = OwnWord(t, i)
                                 /\ OwnWord(t, i) \in Word
  BY <1>1, OwnSeq
<1>3. /\ Own(t, 0) \in Seq(Word) /\ Len(Own(t, 0)) = Rest(t)
      /\ \A i \in 1 .. Rest(t) : Own(t, 0)[i] = OwnWord(t, i)
  BY <1>1, OwnSeq
<1> DEFINE s == SubSeq(Own(t, n), 1, Rest(t))
<1>4. /\ s \in Seq(Word) /\ Len(s) = Rest(t)
      /\ \A i \in 1 .. Rest(t) : s[i] = Own(t, n)[i]
  <2>1. Rest(t) \in Int /\ (IF 1 <= Rest(t) THEN Rest(t) - 1 + 1 ELSE 0) = Rest(t)
        /\ Rest(t) - 1 + 1 = Rest(t) /\ \A i \in 1 .. Rest(t) : 1 + i - 1 = i
    BY <1>1
  <2>2. /\ s \in Seq(Word)
        /\ Len(s) = IF 1 <= Rest(t) THEN Rest(t) - 1 + 1 ELSE 0
        /\ \A i \in 1 .. Rest(t) - 1 + 1 : s[i] = Own(t, n)[1 + i - 1]
    BY <1>2, <2>1, SubSeqProperties
  <2> QED
    BY <2>1, <2>2
<1> HIDE DEF s
<1>5. s = Own(t, 0)
  BY <1>2, <1>3, <1>4, SeqEqual
<1> QED
  BY <1>2, <1>5 DEF s

(* What the processor and the stub push makes a frame.                     *)
LEMMA Framing ==
  ASSUME NEW t \in Thread, NEW n \in 0 .. Length - 1
  PROVE  Own(t, n) \o <<Flags(t, 1), Plain(t, "cs"), Place(t, n)>>
           \o <<Plain(t, "error")>> \o <<Registers(t, n)>> = Framed(t, n)
<1> DEFINE d == Rest(t) + n
           three == <<Flags(t, 1), Plain(t, "cs"), Place(t, n)>>
           s3 == Own(t, n) \o three
           s4 == s3 \o <<Plain(t, "error")>>
           s5 == s4 \o <<Registers(t, n)>>
<1>1. d \in Nat /\ n \in 0 .. Length
  BY RestFacts, Constants
<1>2. /\ Own(t, n) \in Seq(Word) /\ Len(Own(t, n)) = d
      /\ \A i \in 1 .. d : Own(t, n)[i] = OwnWord(t, i)
  BY <1>1, OwnSeq
<1>3. /\ three \in Seq(Word) /\ Len(three) = 3
      /\ \A k \in 1 .. 3 : three[k] = FrameWord(t, n, k)
  BY <1>1, Words DEF FrameWord
<1>4. /\ <<Plain(t, "error")>> \in Seq(Word) /\ Len(<<Plain(t, "error")>>) = 1
      /\ <<Plain(t, "error")>>[1] = FrameWord(t, n, 4)
      /\ <<Registers(t, n)>> \in Seq(Word) /\ Len(<<Registers(t, n)>>) = 1
      /\ <<Registers(t, n)>>[1] = FrameWord(t, n, 5)
  BY <1>1, Words DEF FrameWord
<1>5. /\ Framed(t, n) \in Seq(Word) /\ Len(Framed(t, n)) = d + 5
      /\ \A i \in 1 .. d : Framed(t, n)[i] = OwnWord(t, i)
      /\ \A k \in 1 .. 5 : Framed(t, n)[d + k] = FrameWord(t, n, k)
  BY <1>1, FramedSeq
<1> HIDE DEF d, three
<1>6. /\ s3 \in Seq(Word) /\ Len(s3) = d + 3
      /\ \A i \in 1 .. d + 3 : s3[i] =
           IF i <= d THEN Own(t, n)[i] ELSE three[i - d]
  <2> DEFINE own == Own(t, n)
  <2>1. own \in Seq(Word) /\ Len(own) = d /\ d \in Nat
    BY <1>1, <1>2
  <2>2. three \in Seq(Word) /\ Len(three) = 3
    BY <1>3
  <2> HIDE DEF own
  <2>3. /\ own \o three \in Seq(Word)
        /\ Len(own \o three) = Len(own) + Len(three)
        /\ \A i \in 1 .. Len(own) + Len(three) : (own \o three)[i] =
             IF i <= Len(own) THEN own[i] ELSE three[i - Len(own)]
    BY <2>1, <2>2, ConcatProperties
  <2>4. /\ own \o three \in Seq(Word) /\ Len(own \o three) = d + 3
        /\ \A i \in 1 .. d + 3 : (own \o three)[i] =
             IF i <= d THEN own[i] ELSE three[i - d]
    BY <2>1, <2>2, <2>3
  <2> QED
    BY <2>4 DEF s3, own
<1> HIDE DEF s3
<1>7. /\ s4 \in Seq(Word) /\ Len(s4) = d + 3 + 1
      /\ \A i \in 1 .. d + 3 + 1 : s4[i] =
           IF i <= d + 3 THEN s3[i] ELSE <<Plain(t, "error")>>[i - (d + 3)]
  BY <1>1, <1>4, <1>6, Joined
<1> HIDE DEF s4
<1>8. /\ s5 \in Seq(Word) /\ Len(s5) = d + 3 + 1 + 1
      /\ \A i \in 1 .. d + 3 + 1 + 1 : s5[i] =
           IF i <= d + 3 + 1 THEN s4[i] ELSE <<Registers(t, n)>>[i - (d + 3 + 1)]
  BY <1>1, <1>4, <1>7, Joined
<1> HIDE DEF s5
<1>9. ASSUME NEW i \in 1 .. d + 5 PROVE s5[i] = Framed(t, n)[i]
  <2>1. CASE i <= d
    <3>1. /\ i \in 1 .. d /\ i \in 1 .. d + 3 /\ i \in 1 .. d + 3 + 1
          /\ i \in 1 .. d + 3 + 1 + 1 /\ i <= d + 3 /\ i <= d + 3 + 1
      BY <1>1, <2>1
    <3> QED
      BY <1>2, <1>5, <1>6, <1>7, <1>8, <2>1, <3>1
  <2>2. CASE i \in {d + 1, d + 2, d + 3}
    <3>1. PICK k \in 1 .. 3 : i = d + k
      BY <1>1, <2>2
    <3>2. /\ ~(i <= d) /\ i - d = k /\ k \in 1 .. 5 /\ i \in 1 .. d + 3
          /\ i \in 1 .. d + 3 + 1 /\ i \in 1 .. d + 3 + 1 + 1
          /\ i <= d + 3 /\ i <= d + 3 + 1
      BY <1>1, <3>1
    <3>3. s5[i] = s3[i]
      BY <1>7, <1>8, <3>2
    <3>4. s3[i] = FrameWord(t, n, k)
      BY <1>3, <1>6, <3>2
    <3> QED
      BY <1>5, <3>1, <3>2, <3>3, <3>4
  <2>3. CASE i = d + 4
    <3>1. /\ ~(i <= d + 3) /\ i - (d + 3) = 1 /\ i \in 1 .. d + 3 + 1
          /\ i \in 1 .. d + 3 + 1 + 1 /\ i <= d + 3 + 1
      BY <1>1, <2>3
    <3>2. s5[i] = FrameWord(t, n, 4)
      BY <1>4, <1>7, <1>8, <3>1
    <3> QED
      BY <1>5, <2>3, <3>2
  <2>4. CASE i = d + 5
    <3>1. ~(i <= d + 3 + 1) /\ i - (d + 3 + 1) = 1 /\ i \in 1 .. d + 3 + 1 + 1
      BY <1>1, <2>4
    <3>2. s5[i] = FrameWord(t, n, 5)
      BY <1>4, <1>8, <3>1
    <3> QED
      BY <1>5, <2>4, <3>2
  <2>5. i <= d \/ i \in {d + 1, d + 2, d + 3} \/ i = d + 4 \/ i = d + 5
    BY <1>1
  <2> QED
    BY <2>1, <2>2, <2>3, <2>4, <2>5
<1>10. s5 = Framed(t, n)
  <2>1. d + 3 + 1 + 1 = d + 5
    BY <1>1
  <2> QED
    BY <1>5, <1>8, <1>9, <2>1, SeqEqual
<1> QED
  BY <1>10 DEF s5, s4, s3, three

(* And what the promise says of the stack is what lies under the frame.    *)
LEMMA OwnIsPromised ==
  ASSUME NEW t \in Thread, NEW n \in 0 .. Length - 1
  PROVE  Found[t] \o Promise!Pushed(t, n) = Own(t, n)
<1> DEFINE p == Promise!Pushed(t, n)
<1>0. n \in 0 .. Length /\ n \in Nat /\ Rest(t) \in Nat /\ 0 \in 0 .. Length
      /\ Rest(t) + 0 = Rest(t)
  BY RestFacts, Constants
<1>1. p = [i \in 1 .. n |-> Local(t, i)]
  BY DEF Promise!Pushed, Local
<1> HIDE DEF p
<1>2. \A i \in 1 .. n : Local(t, i) \in Word
  <2>1. \A i \in 1 .. n : i \in 0 .. Length
    BY <1>0, Constants
  <2> QED
    BY <2>1, Words
<1>3. p \in Seq(Word) /\ Len(p) = n
  <2>1. p \in [1 .. n -> Word]
    BY <1>1, <1>2
  <2> QED
    BY <1>0, <2>1, Listed
<1>4. /\ Found[t] \in Seq(Word) /\ Len(Found[t]) = Rest(t)
      /\ \A i \in 1 .. Rest(t) : Found[t][i] = OwnWord(t, i)
  BY <1>0, FoundIs, OwnSeq
<1>5. /\ Own(t, n) \in Seq(Word) /\ Len(Own(t, n)) = Rest(t) + n
      /\ \A i \in 1 .. Rest(t) + n : Own(t, n)[i] = OwnWord(t, i)
  BY <1>0, OwnSeq
<1>6. /\ Found[t] \o p \in Seq(Word) /\ Len(Found[t] \o p) = Rest(t) + n
      /\ \A i \in 1 .. Rest(t) + n : (Found[t] \o p)[i] =
           IF i <= Rest(t) THEN Found[t][i] ELSE p[i - Rest(t)]
  <2> DEFINE found == Found[t]
  <2>1. found \in Seq(Word) /\ Len(found) = Rest(t)
    BY <1>4
  <2> HIDE DEF found
  <2>2. /\ found \o p \in Seq(Word) /\ Len(found \o p) = Len(found) + Len(p)
        /\ \A i \in 1 .. Len(found) + Len(p) : (found \o p)[i] =
             IF i <= Len(found) THEN found[i] ELSE p[i - Len(found)]
    BY <1>3, <2>1, ConcatProperties
  <2>3. /\ found \o p \in Seq(Word) /\ Len(found \o p) = Rest(t) + n
        /\ \A i \in 1 .. Rest(t) + n : (found \o p)[i] =
             IF i <= Rest(t) THEN found[i] ELSE p[i - Rest(t)]
    BY <1>0, <1>3, <2>1, <2>2
  <2> QED
    BY <2>3 DEF found
<1>7. ASSUME NEW i \in 1 .. Rest(t) + n
      PROVE  (Found[t] \o p)[i] = Own(t, n)[i]
  <2>1. CASE i <= Rest(t)
    <3>1. i \in 1 .. Rest(t)
      BY <1>0, <2>1
    <3> QED
      BY <1>4, <1>5, <1>6, <2>1, <3>1
  <2>2. CASE ~(i <= Rest(t))
    <3>1. i - Rest(t) \in 1 .. n /\ i > Rest(t)
      BY <1>0, <2>2
    <3>2. p[i - Rest(t)] = Local(t, i - Rest(t))
      BY <1>1, <3>1
    <3> QED
      BY <1>5, <1>6, <2>2, <3>1, <3>2 DEF OwnWord
  <2> QED
    BY <2>1, <2>2
<1>8. Found[t] \o p = Own(t, n)
  BY <1>5, <1>6, <1>7, SeqEqual
<1> QED
  BY <1>8 DEF p

-----------------------------------------------------------------------------
(* Where a thread is when its own instructions have brought it to n: its   *)
(* registers and its place in the processor and its own words on its       *)
(* stack, or all of it on the stack, under the pointer kept for it, with   *)
(* interrupts on in the frame.                                             *)
At(t, n) ==
  IF Stopped(t)
  THEN stack[t] = Framed(t, n) /\ FrameOf(t) = Top(t)
  ELSE /\ cpu.registers = Registers(t, n) /\ cpu.eip = Place(t, n)
       /\ cpu.flags = Flags(t, cpu.flags.n) /\ stack[t] = Own(t, n)

Placed == \A t \in Thread : \E n \in 0 .. Length - 1 : At(t, n)

(* The thread whose stack the stub will return to, or that runs, is the    *)
(* one the scheduler takes for the current one.                            *)
Current ==
  (IF Handling THEN service.esp.of ELSE cpu.esp) =
    IF currentTask < 0 THEN Main ELSE TaskAt(currentTask)

(* Interrupts are only ever off in a handler and, for kernelMain, before   *)
(* and inside Activate.                                                    *)
FlagsKept ==
  /\ ~Handling /\ (cpu.esp # Main \/ main.at \in {"loop", "deactivate", "cli"})
       => cpu.flags.n = 1
  /\ main.at = "boot" => active = None

Base == TypeOK /\ Placed /\ Current /\ FlagsKept

(* What the end of the stub makes of a frame.                              *)
LEMMA Unframing ==
  ASSUME NEW t \in Thread, NEW n \in 0 .. Length - 1, NEW p,
         stack[t] = Framed(t, n), p = Top(t)
  PROVE  /\ p.of = t
         /\ Restored(p) = [registers |-> Registers(t, n), eip |-> Place(t, n),
                           flags |-> Flags(t, 1)]
         /\ Left(p) = Own(t, n)
<1> DEFINE d == Rest(t) + n
<1>1. d \in Nat /\ n \in 0 .. Length
  BY RestFacts, Constants
<1>2. /\ Len(stack[t]) = d + 5
      /\ \A i \in 1 .. d : stack[t][i] = OwnWord(t, i)
      /\ \A k \in 1 .. 5 : stack[t][d + k] = FrameWord(t, n, k)
  BY <1>1, FramedSeq
<1>3. Own(t, n) = [i \in 1 .. d |-> OwnWord(t, i)]
  BY DEF Own
<1> HIDE DEF d
<1>4. p.of = t /\ p.height = d + 5
  BY <1>2 DEF Top
<1>5. \A k \in 1 .. 5 : WordAt(t, d + k) = FrameWord(t, n, k)
  <2> SUFFICES ASSUME NEW k \in 1 .. 5
      PROVE  WordAt(t, d + k) = FrameWord(t, n, k)
    OBVIOUS
  <2>1. d + k \in 1 .. d + 5
    BY <1>1
  <2>2. d + k \in 1 .. Len(stack[t])
    BY <1>2, <2>1
  <2>3. WordAt(t, d + k) = stack[t][d + k]
    BY <2>2 DEF WordAt
  <2> QED
    BY <1>2, <2>3
<1>6. p.height = d + 5 /\ p.height - 2 = d + 3 /\ p.height - 4 = d + 1
      /\ p.height - 5 = d
  BY <1>1, <1>4
<1>7. Restored(p) = [registers |-> Registers(t, n), eip |-> Place(t, n),
                     flags |-> Flags(t, 1)]
  <2>1. /\ WordAt(t, d + 5) = Registers(t, n) /\ WordAt(t, d + 3) = Place(t, n)
        /\ WordAt(t, d + 1) = Flags(t, 1)
    BY <1>5 DEF FrameWord
  <2> QED
    BY <1>4, <1>6, <2>1 DEF Restored
<1>8. Left(p) = Own(t, n)
  <2>1. \A i \in 1 .. d : WordAt(t, i) = OwnWord(t, i)
    <3>1. \A i \in 1 .. d : i \in 1 .. Len(stack[t])
      BY <1>1, <1>2
    <3> QED
      BY <1>2, <3>1 DEF WordAt
  <2>2. Left(p) = [i \in 1 .. d |-> WordAt(t, i)]
    BY <1>4, <1>6 DEF Left, Taken
  <2> QED
    BY <1>3, <2>1, <2>2
<1> QED
  BY <1>4, <1>7, <1>8

(* So the abstract view of a thread follows from where it is.              *)
LEMMA ContextIs ==
  ASSUME NEW t \in Thread, NEW n \in 0 .. Length - 1
  PROVE  /\ At(t, n) => Context(t) = Promise!After(t, n)
         /\ At(t, n)' => Context(t)' = Promise!After(t, n)
<1> DEFINE view == [registers |-> Registers(t, n), eip |-> Place(t, n),
                    stack |-> Own(t, n)]
<1>1. Promise!After(t, n) = view
  BY OwnIsPromised DEF Promise!After, Promise!Registers, Promise!Place,
                       Registers, Place
<1>2. ASSUME At(t, n) PROVE Context(t) = view
  <2>1. CASE Stopped(t)
    <3>1. stack[t] = Framed(t, n) /\ FrameOf(t) = Top(t)
      BY <1>2, <2>1 DEF At
    <3>2. /\ Restored(FrameOf(t)).registers = Registers(t, n)
          /\ Restored(FrameOf(t)).eip = Place(t, n)
          /\ Left(FrameOf(t)) = Own(t, n)
      BY <3>1, Unframing
    <3> QED
      BY <2>1, <3>2 DEF Context
  <2>2. CASE ~Stopped(t)
    BY <1>2, <2>2 DEF At, Context
  <2> QED
    BY <2>1, <2>2
<1> HIDE DEF view
<1>3. At(t, n) => Context(t) = view
  BY <1>2
<1>4. (At(t, n) => Context(t) = view)'
  BY <1>3, PTL
<1> QED
  BY <1>1, <1>3, <1>4

-----------------------------------------------------------------------------

(* A step that leaves every thread where it is.                            *)
Stays == \A t \in Thread, n \in 0 .. Length - 1 : At(t, n) => At(t, n)'

LEMMA StaysPlaced == Placed /\ Stays => Placed'
BY DEF Placed, Stays

(* So does one that touches neither stacks nor the pointers to them, and   *)
(* of the processor no more than the interrupt flag.                       *)
LEMMA Undisturbed ==
  ASSUME UNCHANGED <<stack, cpustate>>, service'.esp = service.esp,
         Handling' <=> Handling, cpu'.esp = cpu.esp,
         cpu'.registers = cpu.registers, cpu'.eip = cpu.eip,
         cpu'.flags = cpu.flags
           \/ \E k : cpu'.flags = [cpu.flags EXCEPT !.n = k]
  PROVE  Stays
<1> SUFFICES ASSUME NEW t \in Thread, NEW n \in 0 .. Length - 1, At(t, n)
    PROVE  At(t, n)'
  BY DEF Stays
<1>1. (Stopped(t)' <=> Stopped(t)) /\ FrameOf(t)' = FrameOf(t) /\ Top(t)' = Top(t)
  BY DEF Stopped, FrameOf, Top
<1>2. CASE Stopped(t)
  BY <1>1, <1>2 DEF At
<1>3. CASE ~Stopped(t)
  <2>1. /\ cpu.registers = Registers(t, n) /\ cpu.eip = Place(t, n)
        /\ cpu.flags = Flags(t, cpu.flags.n) /\ stack[t] = Own(t, n)
    BY <1>3 DEF At
  <2>2. cpu'.flags = Flags(t, cpu'.flags.n)
    <3>1. CASE cpu'.flags = cpu.flags
      BY <2>1, <3>1
    <3>2. CASE \E k : cpu'.flags = [cpu.flags EXCEPT !.n = k]
      <4>1. PICK k : cpu'.flags = [cpu.flags EXCEPT !.n = k]
        BY <3>2
      <4>2. [Flags(t, cpu.flags.n) EXCEPT !.n = k] = Flags(t, k)
            /\ Flags(t, k).n = k
        BY DEF Flags
      <4> QED
        BY <2>1, <4>1, <4>2
    <3> QED
      BY <3>1, <3>2
  <2> QED
    BY <1>1, <1>3, <2>1, <2>2 DEF At
<1> QED
  BY <1>2, <1>3

(* The vectors the processor enters a stub for.                            *)
Entered == (32 .. 47) \cup Fault

(* What the stub of such a vector pushes and passes on.                    *)
LEMMA Entering ==
  ASSUME FaultsPushErrorCode, NEW v \in Entered, Enter(v)
  PROVE  /\ v \in 0 .. 255
         /\ stack' = [stack EXCEPT ![cpu.esp] =
                        @ \o <<cpu.flags, Plain(cpu.esp, "cs"), cpu.eip>>
                          \o <<Plain(cpu.esp, "error")>> \o <<cpu.registers>>]
         /\ service' = [at |-> "dispatch", vector |-> v,
                        esp |-> [of |-> cpu.esp,
                                 height |-> Len(stack'[cpu.esp])]]
         /\ cpu' = [cpu EXCEPT !.flags.n = 0]
<1>1. v \in 0 .. 255 /\ v \in (0 .. 19) \cup (32 .. 47)
  BY Constants DEF Entered
<1>2. Passed(StubOf(hardwareInterruptOffset, v)) = v
  BY <1>1, StubsPassTheirVector
<1>3. HasErrorCode(v) \/ StubOf(hardwareInterruptOffset, v).kind = "request"
  BY <1>1, StubsPassTheirVector DEF Entered, FaultsPushErrorCode
<1>4. ErrorWord(v) = <<Plain(cpu.esp, "error")>>
  BY <1>3 DEF ErrorWord
<1> QED
  BY <1>1, <1>2, <1>4 DEF Enter

Processor == [esp : Thread, registers : Word, eip : Word, flags : Word]
Services == [at : {"none", "dispatch", "master", "slave", "return"},
             vector : 0 .. 255, esp : Pointer]

LEMMA FlagsSet ==
  ASSUME TypeOK, NEW k \in {0, 1}, cpu' = [cpu EXCEPT !.flags.n = k]
  PROVE  /\ cpu' \in Processor /\ cpu'.flags.n = k
         /\ cpu'.esp = cpu.esp /\ cpu'.registers = cpu.registers
         /\ cpu'.eip = cpu.eip /\ cpu'.flags = [cpu.flags EXCEPT !.n = k]
<1>1. cpu \in Processor
  BY DEF TypeOK, Processor
<1>2. [cpu.flags EXCEPT !.n = k] \in Word /\ [cpu.flags EXCEPT !.n = k].n = k
  BY <1>1, Constants DEF Word, Processor
<1> QED
  BY <1>1, <1>2 DEF Processor

(* Taking an interrupt or an exception moves a thread onto its stack.      *)
LEMMA EnterKeeps ==
  ASSUME Base, FaultsPushErrorCode, NEW v \in Entered, Enter(v),
         ~Handling, cpu.flags.n = 1, pic' \in Pics,
         UNCHANGED <<taskVars, active, main, missed>>
  PROVE  TypeOK' /\ Stays /\ Current' /\ FlagsKept'
<1>1. TypeOK /\ Placed /\ Current /\ FlagsKept
  BY DEF Base
<1> DEFINE e == cpu.esp
<1>2. PICK n \in 0 .. Length - 1 : At(e, n)
  BY <1>1 DEF Placed, TypeOK
<1>3. e \in Thread /\ ~Stopped(e) /\ n \in 0 .. Length
  BY <1>1, Constants DEF Stopped, TypeOK
<1>4. /\ cpu.registers = Registers(e, n) /\ cpu.eip = Place(e, n)
      /\ cpu.flags = Flags(e, 1) /\ stack[e] = Own(e, n)
  BY <1>2, <1>3 DEF At
<1>5. stack \in [Thread -> Seq(Word)] /\ cpu \in Processor
  BY <1>1 DEF TypeOK, Processor
<1>6. /\ v \in 0 .. 255
      /\ stack' = [stack EXCEPT ![e] =
                     @ \o <<cpu.flags, Plain(e, "cs"), cpu.eip>>
                       \o <<Plain(e, "error")>> \o <<cpu.registers>>]
      /\ service' = [at |-> "dispatch", vector |-> v,
                     esp |-> [of |-> e, height |-> Len(stack'[e])]]
      /\ cpu' = [cpu EXCEPT !.flags.n = 0]
  BY Entering
<1>7. stack'[e] = Framed(e, n) /\ \A t \in Thread \ {e} : stack'[t] = stack[t]
  <2>1. stack'[e] = Own(e, n) \o <<Flags(e, 1), Plain(e, "cs"), Place(e, n)>>
                      \o <<Plain(e, "error")>> \o <<Registers(e, n)>>
    BY <1>3, <1>4, <1>5, <1>6
  <2>2. stack'[e] = Framed(e, n)
    BY <1>3, <2>1, Framing
  <2> QED
    BY <1>3, <1>5, <1>6, <2>2
<1>8. Framed(e, n) \in Seq(Word) /\ Len(Framed(e, n)) \in Nat
  BY <1>3, FramedSeq, LenProperties
<1>9. /\ cpu' \in Processor /\ cpu'.esp = e /\ Handling' /\ service'.esp.of = e
      /\ service'.esp = [of |-> e, height |-> Len(stack'[e])]
  BY <1>1, <1>6, FlagsSet DEF Handling
<1> HIDE DEF e
<1>10. TypeOK'
  <2>1. stack' \in [Thread -> Seq(Word)]
    <3>1. stack' = [stack EXCEPT ![e] = Framed(e, n)]
      BY <1>3, <1>5, <1>6, <1>7
    <3> QED
      BY <1>5, <1>8, <3>1
  <2>2. service' \in Services
    <3>1. Len(stack'[e]) \in Nat
      BY <1>7, <1>8
    <3>2. [of |-> e, height |-> Len(stack'[e])] \in Pointer
      BY <1>3, <3>1 DEF Pointer
    <3> QED
      BY <1>6, <3>2 DEF Services
  <2> QED
    BY <1>1, <1>9, <2>1, <2>2
       DEF TypeOK, taskVars, Pics, numTasks, Processor, Services
<1>11. Stays
  <2> SUFFICES ASSUME NEW t \in Thread, NEW k \in 0 .. Length - 1, At(t, k)
      PROVE  At(t, k)'
    BY DEF Stays
  <2>0. Stopped(t)'
    BY <1>9 DEF Stopped
  <2>1. CASE t = e
    <3>1. cpu.eip = Place(e, k)
      BY <1>3, <2>1 DEF At
    <3>2. k = n
      BY <1>4, <3>1 DEF Place
    <3>3. FrameOf(t)' = Top(t)'
      BY <1>9, <2>1 DEF FrameOf, Top
    <3> QED
      BY <1>7, <2>0, <2>1, <3>2, <3>3 DEF At
  <2>2. CASE t # e
    <3>1. Stopped(t) /\ stack'[t] = stack[t]
      BY <1>7, <2>2 DEF Stopped, e
    <3>2. FrameOf(t)' = FrameOf(t)
      <4>1. Top(Main)' = Top(Main) \/ t # Main
        BY <2>2, <1>7 DEF Top, Thread
      <4> QED
        BY <1>9, <2>2, <4>1 DEF FrameOf, taskVars
    <3>3. Top(t)' = Top(t)
      BY <3>1 DEF Top
    <3> QED
      BY <2>0, <3>1, <3>2, <3>3 DEF At
  <2> QED
    BY <2>1, <2>2
<1>12. Current'
  BY <1>1, <1>9 DEF Current, TaskAt, taskVars, e
<1>13. FlagsKept'
  BY <1>1, <1>9 DEF FlagsKept
<1> QED
  BY <1>10, <1>11, <1>12, <1>13

(* The scheduler files the pointer it is given where it belongs, and what  *)
(* it returns is the pointer kept for the next task.                       *)
LEMMA ScheduleKeeps ==
  ASSUME TypeOK, Placed, Current, service.at = "dispatch",
         Schedule(service.esp), UNCHANGED stack,
         service'.at # "none", service'.esp = Scheduled(service.esp)
  PROVE  /\ cpustate' \in [Task -> Pointer]
         /\ currentTask' \in -1 .. numTasks - 1
         /\ tasks' = tasks /\ service'.esp \in Pointer
         /\ \A t \in Thread : FrameOf(t)' = Top(t)'
         /\ Current'
<1> DEFINE p == service.esp
<1>1. /\ tasks \in Seq(Task) /\ numTasks \in Nat /\ numTasks = Len(tasks)
      /\ currentTask \in -1 .. numTasks - 1
      /\ cpustate \in [Task -> Pointer] /\ p \in Pointer
  BY DEF TypeOK, numTasks
<1>2. Handling /\ Handling'
  BY DEF Handling
<1>3. ASSUME NEW t \in Thread
      PROVE  FrameOf(t) = Top(t) /\ Top(t)' = Top(t) /\ Top(t).of = t
  <2>1. PICK n \in 0 .. Length - 1 : At(t, n)
    BY DEF Placed
  <2> QED
    BY <1>2, <2>1 DEF At, Stopped, Top
<1>4. tasks' = tasks
  BY DEF Schedule
<1>5. p.of = IF currentTask < 0 THEN Main ELSE TaskAt(currentTask)
  BY <1>2 DEF Current
<1>6. CASE numTasks = 0
  <2>1. currentTask' = currentTask /\ cpustate' = cpustate /\ service'.esp = p
    BY <1>6 DEF Schedule, Scheduled
  <2>2. \A t \in Thread : FrameOf(t)' = FrameOf(t)
    BY <1>2, <1>3, <2>1, Constants DEF FrameOf, Thread
  <2>3. Current'
    BY <1>2, <1>4, <1>5, <2>1 DEF Current, TaskAt
  <2> QED
    BY <1>1, <1>3, <1>4, <2>1, <2>2, <2>3
<1>7. CASE numTasks # 0
  <2> DEFINE s == Successor(currentTask)
             u == TaskAt(s)
  <2>1. s \in 0 .. numTasks - 1
    BY <1>1, <1>7, SMT DEF Successor
  <2>2. u \in Task /\ u \in Thread /\ u # Main
    <3>1. s + 1 \in 1 .. Len(tasks)
      BY <1>1, <2>1
    <3> QED
      BY <1>1, <3>1, ElementOfSeq, Constants DEF TaskAt, Thread
  <2>3. /\ currentTask' = s /\ cpustate' = File(p)
        /\ service'.esp = File(p)[u]
    BY <1>7 DEF Schedule, Scheduled
  <2>4. currentTask >= 0 => TaskAt(currentTask) \in Task
    <3>1. currentTask >= 0 => currentTask + 1 \in 1 .. Len(tasks)
      BY <1>1
    <3> QED
      BY <1>1, <3>1, ElementOfSeq DEF TaskAt
  <2>5. ASSUME NEW t \in Task PROVE File(p)[t] = Top(t)
    <3>1. t \in Thread /\ t # Main
      BY Constants DEF Thread
    <3>2. CASE p.of = t
      <4>1. currentTask >= 0 /\ TaskAt(currentTask) = t
        BY <1>1, <1>5, <3>1, <3>2
      <4>2. File(p)[t] = p
        BY <1>1, <4>1 DEF File
      <4>3. FrameOf(t) = p
        BY <1>2, <3>2 DEF FrameOf
      <4> QED
        BY <1>3, <3>1, <4>2, <4>3
    <3>3. CASE p.of # t
      <4>1. ~(currentTask >= 0 /\ TaskAt(currentTask) = t)
        BY <1>1, <1>5, <3>3
      <4>2. File(p)[t] = cpustate[t]
        BY <1>1, <4>1 DEF File
      <4>3. FrameOf(t) = cpustate[t]
        BY <1>2, <3>1, <3>3 DEF FrameOf
      <4> QED
        BY <1>3, <3>1, <4>2, <4>3
    <3> QED
      BY <3>2, <3>3
  <2>6. cpustate' \in [Task -> Pointer]
    BY <1>1, <2>3, <2>4 DEF File
  <2> HIDE DEF s, u
  <2>7. service'.esp = Top(u) /\ service'.esp.of = u /\ service'.esp \in Pointer
    <3>1. service'.esp = Top(u)
      BY <2>2, <2>3, <2>5
    <3>2. service'.esp \in Pointer
      BY <2>2, <2>3, <2>6
    <3> QED
      BY <1>3, <2>2, <3>1, <3>2
  <2>8. ASSUME NEW t \in Thread PROVE FrameOf(t)' = Top(t)'
    <3>1. CASE t = u
      BY <1>2, <1>3, <2>7, <3>1 DEF FrameOf
    <3>2. CASE t = Main /\ t # u
      BY <1>2, <2>7, <3>2 DEF FrameOf
    <3>3. CASE t # Main /\ t # u
      <4>1. t \in Task /\ cpustate'[t] = Top(t)
        BY <2>3, <2>5, <3>3 DEF Thread
      <4> QED
        BY <1>2, <1>3, <2>7, <3>3, <4>1 DEF FrameOf
    <3> QED
      BY <3>1, <3>2, <3>3
  <2>9. Current'
    <3>1. u = TaskAt(currentTask)' /\ ~(currentTask' < 0)
      BY <1>1, <1>4, <2>1, <2>3 DEF u, TaskAt
    <3> QED
      BY <1>2, <2>7, <3>1 DEF Current
  <2>10. currentTask' \in -1 .. numTasks - 1
    BY <1>1, <2>1, <2>3
  <2> QED
    BY <1>4, <2>6, <2>7, <2>8, <2>9, <2>10
<1> QED
  BY <1>6, <1>7

(* The lines the processor is given are lines, and so are their vectors.   *)
LEMMA AcceptedVector ==
  ASSUME pic \in Pics, Interrupting(pic)
  PROVE  /\ Selected(pic) \in Line
         /\ VectorOf(Selected(pic)) \in Entered
         /\ VectorOf(SpuriousLine(Selected(pic))) \in Entered
         /\ TakeLine(pic, Selected(pic)) \in Pics
         /\ DropLine(pic, Selected(pic)) \in Pics
<1>1. Selected(pic) \in Line
  BY SelectedFacts DEF Pics
<1>2. Selected(pic) \in 0 .. 15
  BY <1>1, Lines
<1>3. SpuriousLine(Selected(pic)) \in 0 .. 15
  BY DEF SpuriousLine
<1>4. ServiceBits(Selected(pic)) \subseteq Line \cup {Cascade}
  BY <1>1 DEF ServiceBits
<1> QED
  BY <1>1, <1>2, <1>3, <1>4
     DEF Entered, VectorOf, hardwareInterruptOffset, TakeLine, DropLine, Pics

LEMMA EndOfInterruptTyped ==
  ASSUME pic \in Pics, NEW lines
  PROVE  /\ EndOfInterrupt(pic, lines) \in Pics
         /\ EndOfInterrupt(pic, lines).isr \subseteq pic.isr
BY DEF Pics, EndOfInterrupt

(* A thread that is at n executes an instruction of its loop.              *)
Moves ==
  \E t \in Thread, n \in 0 .. Length - 1 :
    /\ At(t, n) /\ At(t, (n + 1) % Length)'
    /\ \A u \in Thread \ {t}, k \in 0 .. Length - 1 : At(u, k) => At(u, k)'

LEMMA MovesPlaced ==
  ASSUME Placed, Moves
  PROVE  Placed'
<1>1. PICK t \in Thread, n \in 0 .. Length - 1 :
        /\ At(t, (n + 1) % Length)'
        /\ \A u \in Thread \ {t}, k \in 0 .. Length - 1 : At(u, k) => At(u, k)'
  BY DEF Moves
<1>2. (n + 1) % Length \in 0 .. Length - 1
  BY Constants, SMT
<1> SUFFICES ASSUME NEW u \in Thread
    PROVE  \E k \in 0 .. Length - 1 : At(u, k)'
  BY DEF Placed
<1>3. CASE u = t
  BY <1>1, <1>2, <1>3
<1>4. CASE u # t
  BY <1>1, <1>4 DEF Placed
<1> QED
  BY <1>3, <1>4

LEMMA RunKeeps ==
  ASSUME Base, Run
  PROVE  TypeOK' /\ Moves /\ Current' /\ FlagsKept'
<1>1. TypeOK /\ Placed /\ Current /\ FlagsKept
  BY DEF Base
<1> DEFINE e == cpu.esp
<1>2. PICK n \in 0 .. Length - 1 : At(e, n)
  BY <1>1 DEF Placed, TypeOK
<1>3. e \in Thread /\ ~Handling /\ ~Stopped(e)
  BY <1>1 DEF Run, InLoop, Stopped, TypeOK
<1>4. /\ cpu.registers = Registers(e, n) /\ cpu.eip = Place(e, n)
      /\ cpu.flags = Flags(e, cpu.flags.n) /\ stack[e] = Own(e, n)
  BY <1>2, <1>3 DEF At
<1>5. /\ stack \in [Thread -> Seq(Word)] /\ cpu \in Processor
      /\ cpu.eip.n = n
  BY <1>1, <1>4 DEF TypeOK, Processor, Place
<1> DEFINE next == (n + 1) % Length
<1>6. /\ cpu' = [cpu EXCEPT !.registers.n = next, !.eip.n = next]
      /\ stack' = [stack EXCEPT ![e] =
                     IF next = 0 THEN SubSeq(@, 1, Len(@) - n)
                     ELSE Append(@, Local(e, next))]
      /\ UNCHANGED <<taskVars, pic, active, main, service, missed>>
  BY <1>5 DEF Run
<1>7. next \in 0 .. Length - 1 /\ next \in 0 .. Length
      /\ (next # 0 => next = n + 1)
  <2>1. \A l, i \in Nat : l > 0 /\ i < l =>
          /\ (i + 1) % l \in 0 .. l - 1 /\ (i + 1) % l \in 0 .. l
          /\ ((i + 1) % l # 0 => (i + 1) % l = i + 1)
    <3> SUFFICES ASSUME NEW l \in Nat, NEW i \in Nat, l > 0, i < l
        PROVE  /\ (i + 1) % l \in 0 .. l - 1 /\ (i + 1) % l \in 0 .. l
               /\ ((i + 1) % l # 0 => (i + 1) % l = i + 1)
      OBVIOUS
    <3>1. CASE i + 1 = l
      BY <3>1, SMT
    <3>2. CASE i + 1 < l
      BY <3>2, SMT
    <3> QED
      BY <3>1, <3>2
  <2> QED
    BY <2>1, Constants
<1> HIDE DEF next
<1>8. /\ cpu' \in Processor /\ cpu'.esp = e /\ cpu'.flags = cpu.flags
      /\ cpu'.registers = Registers(e, next) /\ cpu'.eip = Place(e, next)
  <2>1. /\ cpu'.esp = cpu.esp /\ cpu'.flags = cpu.flags
        /\ cpu'.registers = [cpu.registers EXCEPT !.n = next]
        /\ cpu'.eip = [cpu.eip EXCEPT !.n = next]
        /\ cpu' = [esp |-> cpu'.esp, registers |-> cpu'.registers,
                   eip |-> cpu'.eip, flags |-> cpu'.flags]
    BY <1>5, <1>6 DEF Processor
  <2>2. /\ [Registers(e, n) EXCEPT !.n = next] = Registers(e, next)
        /\ [Place(e, n) EXCEPT !.n = next] = Place(e, next)
    BY DEF Registers, Place
  <2>3. cpu'.registers = Registers(e, next) /\ cpu'.eip = Place(e, next)
    BY <1>4, <2>1, <2>2
  <2>4. Registers(e, next) \in Word /\ Place(e, next) \in Word
    BY <1>3, <1>7, Words
  <2>5. cpu.esp \in Thread /\ cpu.flags \in Word
    BY <1>5 DEF Processor
  <2> QED
    BY <2>1, <2>3, <2>4, <2>5 DEF Processor
<1>9. stack'[e] = Own(e, next) /\ \A t \in Thread \ {e} : stack'[t] = stack[t]
  <2>1. CASE next = 0
    <3>1. stack'[e] = SubSeq(Own(e, n), 1, Len(Own(e, n)) - n)
      BY <1>3, <1>4, <1>5, <1>6, <2>1
    <3>2. stack'[e] = Own(e, 0)
      BY <1>3, <3>1, Returning
    <3> QED
      BY <1>3, <1>5, <1>6, <2>1, <3>2
  <2>2. CASE next # 0
    <3>1. stack'[e] = Append(Own(e, n), Local(e, n + 1))
      BY <1>3, <1>4, <1>5, <1>6, <1>7, <2>2
    <3>2. stack'[e] = Own(e, n + 1)
      BY <1>3, <3>1, Pushing
    <3> QED
      BY <1>3, <1>5, <1>6, <1>7, <2>2, <3>2
  <2> QED
    BY <2>1, <2>2
<1>10. TypeOK'
  <2>1. Own(e, next) \in Seq(Word)
    BY <1>3, <1>7, OwnSeq
  <2>2. stack' = [stack EXCEPT ![e] = Own(e, next)]
    BY <1>3, <1>5, <1>6, <1>9
  <2>3. stack' \in [Thread -> Seq(Word)]
    BY <1>3, <1>5, <2>1, <2>2
  <2> QED
    BY <1>1, <1>6, <1>8, <2>3 DEF TypeOK, taskVars, numTasks, Processor
<1>11. Moves
  <2>1. At(e, n)
    BY <1>2
  <2>2. ASSUME NEW t \in Thread, t = e PROVE At(t, next)'
    <3>1. ~Stopped(t)'
      BY <1>3, <1>6, <1>8, <2>2 DEF Stopped, Handling
    <3> QED
      BY <1>4, <1>8, <1>9, <2>2, <3>1 DEF At
  <2>3. ASSUME NEW u \in Thread, u # e, NEW k \in 0 .. Length - 1, At(u, k)
        PROVE  At(u, k)'
    <3>1. Stopped(u) /\ Stopped(u)' /\ stack'[u] = stack[u]
      BY <1>8, <1>9, <2>3 DEF Stopped, e
    <3>2. FrameOf(u)' = FrameOf(u) /\ Top(u)' = Top(u)
      BY <1>3, <1>6, <3>1, Constants DEF FrameOf, Top, Handling, taskVars, Thread
    <3> QED
      BY <2>3, <3>1, <3>2 DEF At
  <2>4. PICK t \in Thread : t = e
    BY <1>3
  <2> QED
    BY <2>1, <2>2, <2>3, <2>4 DEF Moves, next
<1>12. Current'
  BY <1>1, <1>3, <1>6, <1>8 DEF Current, Handling, TaskAt, taskVars, e
<1>13. FlagsKept'
  BY <1>1, <1>6, <1>8 DEF FlagsKept, Handling, e
<1> QED
  BY <1>10, <1>11, <1>12, <1>13

(* The end of the stub moves a thread off its stack.                       *)
LEMMA ReturnKeeps ==
  ASSUME Base, Return
  PROVE  TypeOK' /\ Stays /\ Current' /\ FlagsKept'
<1>1. TypeOK /\ Placed /\ Current /\ FlagsKept
  BY DEF Base
<1> DEFINE p == service.esp
           u == p.of
<1>2. /\ Handling /\ ~Handling' /\ u \in Thread
      /\ stack \in [Thread -> Seq(Word)]
      /\ UNCHANGED <<taskVars, pic, active, main, missed>>
      /\ service' = Quiet
  BY <1>1 DEF Return, Handling, Quiet, TypeOK, Pointer
<1>3. PICK n \in 0 .. Length - 1 : At(u, n)
  BY <1>1, <1>2 DEF Placed
<1>4. stack[u] = Framed(u, n) /\ p = Top(u) /\ n \in 0 .. Length
  <2>1. FrameOf(u) = p
    BY <1>2 DEF FrameOf
  <2> QED
    BY <1>2, <1>3, <2>1, Constants DEF At, Stopped
<1>5. /\ Restored(p) = [registers |-> Registers(u, n), eip |-> Place(u, n),
                        flags |-> Flags(u, 1)]
      /\ Left(p) = Own(u, n)
  BY <1>2, <1>4, Unframing
<1>6. /\ cpu' = [esp |-> u, registers |-> Registers(u, n),
                 eip |-> Place(u, n), flags |-> Flags(u, 1)]
      /\ stack' = [stack EXCEPT ![u] = Own(u, n)]
  BY <1>5 DEF Return
<1> HIDE DEF p, u
<1>7. TypeOK'
  <2>1. Own(u, n) \in Seq(Word)
    BY <1>2, <1>4, OwnSeq
  <2>2. cpu' \in Processor
    BY <1>2, <1>4, <1>6, Words DEF Processor
  <2>3. service' \in Services
    BY <1>2 DEF Quiet, Services, Pointer, Thread
  <2> QED
    BY <1>1, <1>2, <1>6, <2>1, <2>2, <2>3
       DEF TypeOK, taskVars, numTasks, Processor, Services
<1>8. Stays
  <2> SUFFICES ASSUME NEW t \in Thread, NEW k \in 0 .. Length - 1, At(t, k)
      PROVE  At(t, k)'
    BY DEF Stays
  <2>1. stack[t] = Framed(t, k) /\ FrameOf(t) = Top(t) /\ k \in 0 .. Length
    BY <1>2, Constants DEF At, Stopped
  <2>2. CASE t = u
    <3>1. Framed(u, k) = Framed(u, n)
      BY <1>4, <2>1, <2>2
    <3>2. Rest(u) + n + 5 = Rest(u) + k + 5
      BY <1>2, <1>4, <2>1, <3>1, FramedSeq
    <3>3. k = n
      BY <1>4, <2>1, <3>2, RestFacts, Constants
    <3>4. /\ ~Stopped(t)' /\ stack'[t] = Own(t, k)
          /\ cpu'.registers = Registers(t, k) /\ cpu'.eip = Place(t, k)
          /\ cpu'.flags = Flags(t, 1)
      BY <1>2, <1>6, <2>2, <3>3 DEF Stopped
    <3>5. Flags(t, 1).n = 1
      BY DEF Flags
    <3> QED
      BY <3>4, <3>5 DEF At
  <2>3. CASE t # u
    <3>1. Stopped(t)' /\ stack'[t] = stack[t]
      BY <1>2, <1>6, <2>3 DEF Stopped
    <3>2. FrameOf(t)' = FrameOf(t) /\ Top(t)' = Top(t)
      BY <1>2, <2>3, <3>1 DEF FrameOf, Top, p, u, taskVars
    <3> QED
      BY <2>1, <3>1, <3>2 DEF At
  <2> QED
    BY <2>2, <2>3
<1>9. Current'
  BY <1>1, <1>2, <1>6 DEF Current, TaskAt, taskVars, u, p
<1>10. FlagsKept'
  BY <1>1, <1>2, <1>6 DEF FlagsKept, Flags
<1> QED
  BY <1>7, <1>8, <1>9, <1>10

LEMMA DispatchKeeps ==
  ASSUME Base, Dispatch
  PROVE  TypeOK' /\ Stays /\ Current' /\ FlagsKept'
<1>1. TypeOK /\ Placed /\ Current /\ FlagsKept
  BY DEF Base
<1>2. /\ UNCHANGED <<pic, active, main, cpu, stack, missed>>
      /\ service.at = "dispatch" /\ service'.vector = service.vector
      /\ service'.at = AfterDispatch(service.vector)
      /\ service'.esp = IF service.vector = hardwareInterruptOffset
                        THEN Scheduled(service.esp) ELSE service.esp
      /\ service' = [at |-> service'.at, vector |-> service'.vector,
                     esp |-> service'.esp]
  BY <1>1 DEF Dispatch, TypeOK
<1>3. Handling /\ Handling' /\ service'.at \in {"master", "return"}
  BY <1>2 DEF Handling, AfterDispatch
<1>4. /\ cpustate' \in [Task -> Pointer] /\ tasks' = tasks
      /\ currentTask' \in -1 .. numTasks - 1 /\ service'.esp \in Pointer
      /\ \A t \in Thread : FrameOf(t)' = Top(t)'
      /\ Current'
  <2>1. CASE service.vector = hardwareInterruptOffset
    <3>1. Schedule(service.esp) /\ service'.esp = Scheduled(service.esp)
      BY <1>2, <2>1 DEF Dispatch
    <3>2. service'.at # "none"
      BY <1>3
    <3> QED
      BY <1>1, <1>2, <3>1, <3>2, ScheduleKeeps
  <2>2. CASE service.vector # hardwareInterruptOffset
    <3>1. UNCHANGED taskVars /\ service'.esp = service.esp
      BY <1>2, <2>2 DEF Dispatch
    <3>2. ASSUME NEW t \in Thread PROVE FrameOf(t)' = Top(t)'
      <4>1. PICK n \in 0 .. Length - 1 : At(t, n)
        BY <1>1 DEF Placed
      <4>2. FrameOf(t) = Top(t)
        BY <1>3, <4>1 DEF At, Stopped
      <4>3. FrameOf(t)' = FrameOf(t) /\ Top(t)' = Top(t)
        BY <1>2, <1>3, <3>1 DEF FrameOf, Top, taskVars
      <4> QED
        BY <4>2, <4>3
    <3>3. Current'
      BY <1>1, <1>3, <3>1 DEF Current, TaskAt, taskVars
    <3> QED
      BY <1>1, <3>1, <3>2, <3>3 DEF TypeOK, taskVars
  <2> QED
    BY <2>1, <2>2
<1>5. TypeOK'
  <2>1. service' \in Services
    BY <1>1, <1>2, <1>3, <1>4 DEF TypeOK, Services
  <2> QED
    BY <1>1, <1>2, <1>4, <2>1 DEF TypeOK, numTasks, Services
<1>6. Stays
  <2> SUFFICES ASSUME NEW t \in Thread, NEW k \in 0 .. Length - 1, At(t, k)
      PROVE  At(t, k)'
    BY DEF Stays
  <2>1. Stopped(t) /\ Stopped(t)' /\ stack'[t] = stack[t]
    BY <1>2, <1>3 DEF Stopped
  <2> QED
    BY <1>4, <2>1 DEF At
<1>7. FlagsKept'
  BY <1>1, <1>2, <1>3 DEF FlagsKept
<1> QED
  BY <1>4, <1>5, <1>6, <1>7

LEMMA BaseInit ==
  ASSUME Init
  PROVE  Base /\ \A t \in Thread : At(t, 0)
<1> USE DEF Init
<1>1. Main \in Thread /\ Task \subseteq Thread /\ 0 \in 0 .. Length
      /\ 0 \in 0 .. Length - 1
  BY Constants DEF Thread
<1>2. \A t \in Task : stack[t] = Framed(t, 0) /\ Len(Framed(t, 0)) = 7
  <2> SUFFICES ASSUME NEW t \in Task
      PROVE  stack[t] = Framed(t, 0) /\ Len(Framed(t, 0)) = 7
    OBVIOUS
  <2>1. t \in Thread /\ t # Main
    BY <1>1, Constants
  <2>2. Len(Framed(t, 0)) = Rest(t) + 0 + 5 /\ Rest(t) = 2
    BY <1>1, <2>1, FramedSeq DEF Rest
  <2> QED
    BY <2>1, <2>2, FreshFramed
<1>3. stack[Main] = Own(Main, 0)
  BY <1>1, FoundIs DEF Found
<1>4. \A t \in Thread : stack[t] \in Seq(Word)
  <2> SUFFICES ASSUME NEW t \in Thread PROVE stack[t] \in Seq(Word)
    OBVIOUS
  <2>1. stack[t] = Own(t, 0) \/ stack[t] = Framed(t, 0)
    BY <1>2, <1>3 DEF Thread
  <2> QED
    BY <1>1, <2>1, OwnSeq, FramedSeq
<1>5. TypeOK
  <2>1. cpu \in [esp : Thread, registers : Word, eip : Word, flags : Word]
    BY <1>1, Words
  <2>2. stack \in [Thread -> Seq(Word)]
    BY <1>4
  <2>3. service \in [at : {"none", "dispatch", "master", "slave", "return"},
                     vector : 0 .. 255, esp : Pointer]
    BY <1>1 DEF Quiet, Pointer
  <2>4. /\ tasks \in Seq(Task) /\ numTasks <= MaxTasks
        /\ currentTask \in -1 .. numTasks - 1
        /\ cpustate \in [Task -> Pointer]
    BY <1>1, Constants DEF TaskInit, numTasks, Pointer, CPUStateWords
  <2>5. pic \in [irr : SUBSET Line, isr : SUBSET (Line \cup {Cascade})]
    BY DEF PicReset
  <2>6. main \in [at : {"boot", "loop", "deactivate", "cli", "set", "sti"},
                  target : Manager \cup {None}]
    OBVIOUS
  <2> QED
    BY <2>1, <2>2, <2>3, <2>4, <2>5, <2>6 DEF TypeOK
<1>6. ASSUME NEW t \in Thread PROVE At(t, 0)
  <2>1. ~Handling /\ cpu.esp = Main
    BY DEF Handling, Quiet
  <2>2. CASE t = Main
    <3>1. ~Stopped(t)
      BY <2>1, <2>2 DEF Stopped
    <3> QED
      BY <1>3, <2>2, <3>1 DEF At, Flags
  <2>3. CASE t # Main
    <3>1. Stopped(t) /\ t \in Task
      BY <2>1, <2>3 DEF Stopped, Thread
    <3>2. FrameOf(t) = [of |-> t, height |-> 7]
      BY <2>1, <2>3, <3>1 DEF FrameOf, TaskInit, CPUStateWords
    <3> QED
      BY <1>2, <3>1, <3>2 DEF At, Top
  <2> QED
    BY <2>2, <2>3
<1>7. Placed
  BY <1>1, <1>6 DEF Placed
<1>8. Current /\ FlagsKept
  BY DEF Current, FlagsKept, TaskInit, Handling, Quiet
<1> QED
  BY <1>5, <1>6, <1>7, <1>8 DEF Base

LEMMA BaseStep ==
  ASSUME Base, FaultsPushErrorCode, [Next]_vars
  PROVE  Base' /\ (Stays \/ Moves)
<1>0. TypeOK /\ Placed /\ Current /\ FlagsKept /\ pic \in Pics
  BY DEF Base, TypeOK, Pics
<1> SUFFICES TypeOK' /\ (Stays \/ Moves) /\ Current' /\ FlagsKept'
  BY <1>0, StaysPlaced, MovesPlaced DEF Base
<1>1. ASSUME UNCHANGED <<stack, tasks, currentTask, cpustate>>,
             service'.esp = service.esp, Handling' <=> Handling,
             cpu'.esp = cpu.esp, cpu'.registers = cpu.registers,
             cpu'.eip = cpu.eip,
             cpu'.flags = cpu.flags
               \/ \E k : cpu'.flags = [cpu.flags EXCEPT !.n = k]
      PROVE  Stays /\ Current'
  BY <1>0, <1>1, Undisturbed DEF Current, TaskAt
<1>2. ASSUME NEW t \in Task, BootAddTask(t)
      PROVE  TypeOK' /\ Stays /\ Current' /\ FlagsKept'
  <2>1. UNCHANGED <<pic, active, main, cpu, stack, service, missed>>
    BY <1>2 DEF BootAddTask
  <2>2. /\ tasks' \in Seq(Task) /\ numTasks' <= MaxTasks
        /\ currentTask' \in -1 .. numTasks' - 1
        /\ UNCHANGED <<cpustate, currentTask>>
        /\ currentTask >= 0 => TaskAt(currentTask)' = TaskAt(currentTask)
    <3>0. tasks \in Seq(Task) /\ currentTask \in -1 .. Len(tasks) - 1
          /\ Len(tasks) <= MaxTasks /\ Len(tasks) \in Nat
      BY <1>0 DEF TypeOK, numTasks
    <3>1. CASE Full
      BY <1>2, <3>0, <3>1 DEF BootAddTask, AddTask, numTasks, TaskAt
    <3>2. CASE ~Full
      <4>1. tasks' = Append(tasks, t) /\ UNCHANGED <<cpustate, currentTask>>
        BY <1>2, <3>2 DEF BootAddTask, AddTask
      <4>2. /\ tasks' \in Seq(Task) /\ Len(tasks') = Len(tasks) + 1
            /\ \A i \in 1 .. Len(tasks) : tasks'[i] = tasks[i]
        BY <3>0, <4>1, AppendProperties
      <4>3. currentTask >= 0 => currentTask + 1 \in 1 .. Len(tasks)
        BY <3>0
      <4> QED
        BY <3>0, <3>2, <4>1, <4>2, <4>3, Constants DEF Full, numTasks, TaskAt
    <3> QED
      BY <3>1, <3>2
  <2>3. Stays
    BY <2>1, <2>2, Undisturbed DEF Handling
  <2>4. Current'
    <3>1. currentTask < 0 \/ currentTask >= 0
      BY <1>0 DEF TypeOK, numTasks
    <3> QED
      BY <1>0, <2>1, <2>2, <3>1 DEF Current, Handling
  <2>5. TypeOK' /\ FlagsKept'
    BY <1>0, <2>1, <2>2 DEF TypeOK, FlagsKept, Handling
  <2> QED
    BY <2>3, <2>4, <2>5
<1>3. ASSUME NEW m \in Manager, Activate(m)
      PROVE  TypeOK' /\ Stays /\ Current' /\ FlagsKept'
  <2>1. Stays /\ Current'
    BY <1>1, <1>3 DEF Activate, taskVars, Handling
  <2>2. TypeOK'
    BY <1>0, <1>3 DEF Activate, TypeOK, taskVars, numTasks
  <2>3. FlagsKept'
    BY <1>0, <1>3 DEF Activate, AtMain, FlagsKept, Handling
  <2> QED
    BY <2>1, <2>2, <2>3
<1>4. CASE Deactivate
  <2>1. Stays /\ Current'
    BY <1>1, <1>4 DEF Deactivate, taskVars, Handling
  <2>2. TypeOK'
    BY <1>0, <1>4 DEF Deactivate, TypeOK, taskVars, numTasks
  <2>3. FlagsKept'
    BY <1>0, <1>4 DEF Deactivate, AtMain, FlagsKept, Handling, TypeOK
  <2> QED
    BY <2>1, <2>2, <2>3
<1>5. CASE Cli
  <2>1. cpu' = [cpu EXCEPT !.flags.n = 0]
    BY <1>5 DEF Cli
  <2>2. /\ cpu' \in Processor /\ cpu'.flags.n = 0
        /\ cpu'.esp = cpu.esp /\ cpu'.registers = cpu.registers
        /\ cpu'.eip = cpu.eip /\ cpu'.flags = [cpu.flags EXCEPT !.n = 0]
    BY <1>0, <2>1, FlagsSet
  <2>3. Stays /\ Current'
    BY <1>1, <1>5, <2>2 DEF Cli, taskVars, Handling
  <2>4. TypeOK'
    BY <1>0, <1>5, <2>2 DEF Cli, TypeOK, taskVars, numTasks, Processor
  <2>5. FlagsKept'
    BY <1>0, <1>5, <2>2 DEF Cli, AtMain, FlagsKept, Handling, TypeOK
  <2> QED
    BY <2>3, <2>4, <2>5
<1>6. CASE SetActive
  <2>1. Stays /\ Current'
    BY <1>1, <1>6 DEF SetActive, taskVars, Handling
  <2>2. TypeOK'
    BY <1>0, <1>6 DEF SetActive, TypeOK, taskVars, numTasks
  <2>3. FlagsKept'
    BY <1>0, <1>6 DEF SetActive, AtMain, FlagsKept, Handling, TypeOK
  <2> QED
    BY <2>1, <2>2, <2>3
<1>7. CASE Sti
  <2>1. cpu' = [cpu EXCEPT !.flags.n = 1]
    BY <1>7 DEF Sti
  <2>2. /\ cpu' \in Processor /\ cpu'.flags.n = 1
        /\ cpu'.esp = cpu.esp /\ cpu'.registers = cpu.registers
        /\ cpu'.eip = cpu.eip /\ cpu'.flags = [cpu.flags EXCEPT !.n = 1]
    BY <1>0, <2>1, FlagsSet
  <2>3. Stays /\ Current'
    BY <1>1, <1>7, <2>2 DEF Sti, taskVars, Handling
  <2>4. TypeOK'
    BY <1>0, <1>7, <2>2 DEF Sti, TypeOK, taskVars, numTasks, Processor
  <2>5. FlagsKept'
    BY <1>0, <1>7, <2>2 DEF Sti, AtMain, FlagsKept, Handling, TypeOK
  <2> QED
    BY <2>3, <2>4, <2>5
<1>8. CASE Run
  BY <1>8, RunKeeps
<1>9. ASSUME NEW l \in Line, Raise(l)
      PROVE  TypeOK' /\ Stays /\ Current' /\ FlagsKept'
  <2>1. Stays /\ Current'
    BY <1>1, <1>9 DEF Raise, taskVars, Handling
  <2>2. pic' \in Pics
    BY <1>0, <1>9 DEF Raise, RaiseLine, Pics
  <2>3. TypeOK' /\ FlagsKept'
    BY <1>0, <1>9, <2>2
       DEF Raise, TypeOK, taskVars, numTasks, Pics, FlagsKept, Handling
  <2> QED
    BY <2>1, <2>3
<1>10. CASE Accept
  BY <1>0, <1>10, AcceptedVector, EnterKeeps DEF Accept, InterruptsOn
<1>11. CASE AcceptSpurious
  BY <1>0, <1>11, AcceptedVector, EnterKeeps DEF AcceptSpurious, InterruptsOn
<1>12. ASSUME NEW v \in Fault, Except(v)
       PROVE  TypeOK' /\ Stays /\ Current' /\ FlagsKept'
  <2>1. ~Handling /\ cpu.flags.n = 1
    BY <1>0, <1>12 DEF Except, InLoop, FlagsKept
  <2>2. v \in Entered /\ pic' \in Pics
    BY <1>0, <1>12 DEF Entered, Except
  <2> QED
    BY <1>12, <2>1, <2>2, EnterKeeps DEF Except
<1>13. CASE Ignore \/ AckMaster \/ AckSlave
  <2>1. /\ UNCHANGED <<taskVars, active, main, cpu, stack>>
        /\ service' \in Services /\ service'.esp = service.esp
        /\ Handling /\ Handling'
    BY <1>0, <1>13
       DEF Ignore, AckMaster, AckSlave, AfterMaster, TypeOK, Services, Handling
  <2>2. Stays /\ Current'
    BY <1>1, <2>1 DEF taskVars
  <2>3. pic' \in Pics
    BY <1>0, <1>13, EndOfInterruptTyped DEF Ignore, AckMaster, AckSlave
  <2>4. missed' \subseteq Line \cup {Cascade}
    BY <1>0, <1>13 DEF Ignore, AckMaster, AckSlave, TypeOK, Pics
  <2>5. TypeOK' /\ FlagsKept'
    BY <1>0, <2>1, <2>3, <2>4
       DEF TypeOK, taskVars, numTasks, Pics, Services, FlagsKept
  <2> QED
    BY <2>2, <2>5
<1>14. CASE Dispatch
  BY <1>14, DispatchKeeps
<1>15. CASE Return
  BY <1>15, ReturnKeeps
<1>16. CASE UNCHANGED vars
  <2>1. Stays /\ Current'
    BY <1>1, <1>16 DEF vars, taskVars, Handling
  <2>2. TypeOK' /\ FlagsKept'
    BY <1>0, <1>16 DEF vars, TypeOK, taskVars, numTasks, FlagsKept, Handling
  <2> QED
    BY <2>1, <2>2
<1> QED
  BY <1>2, <1>3, <1>4, <1>5, <1>6, <1>7, <1>8, <1>9, <1>10, <1>11, <1>12,
     <1>13, <1>14, <1>15, <1>16
     DEF Next, MainStep, StubStep

LEMMA BaseInvariant ==
  ASSUME FaultsPushErrorCode
  PROVE  Spec => []Base
BY BaseInit, BaseStep, PTL DEF Spec

(* The variables keep to their types, and no tick, acknowledgement or      *)
(* change of manager takes them out of them.                               *)
THEOREM TypesHold ==
  ASSUME FaultsPushErrorCode
  PROVE  Spec => []TypeOK
<1>1. Base => TypeOK
  BY DEF Base
<1> QED
  BY <1>1, BaseInvariant, PTL

(* However many tasks there are, whatever lines rise and whichever thread  *)
(* is switched to, the pointer kept for a stopped thread is to the one     *)
(* frame on its stack, and a stack is as deep as its thread's own calls.   *)
THEOREM StacksStayBalanced ==
  ASSUME FaultsPushErrorCode
  PROVE  Spec => []StacksBalance
<1>1. ASSUME Base PROVE StacksBalance
  <2> SUFFICES ASSUME NEW t \in Thread
      PROVE  LET own == Len(Found[t]) + Context(t).eip.n
             IN  IF Stopped(t)
                 THEN FrameOf(t) = Top(t) /\ Len(stack[t]) = own + 5
                 ELSE Len(stack[t]) = own
    BY DEF StacksBalance
  <2>1. PICK n \in 0 .. Length - 1 : At(t, n)
    BY <1>1 DEF Base, Placed
  <2>2. Context(t) = Promise!After(t, n)
    BY <2>1, ContextIs
  <2>3. Context(t).eip.n = n
    BY <2>2 DEF Promise!After, Promise!Place
  <2>4. Len(Found[t]) = Rest(t) /\ n \in 0 .. Length
    BY FoundIs, Constants
  <2>5. CASE Stopped(t)
    <3>1. Len(Framed(t, n)) = Rest(t) + n + 5
      BY <2>4, FramedSeq
    <3> QED
      BY <2>1, <2>3, <2>4, <2>5, <3>1 DEF At
  <2>6. CASE ~Stopped(t)
    <3>1. Len(Own(t, n)) = Rest(t) + n
      BY <2>4, OwnSeq
    <3> QED
      BY <2>1, <2>3, <2>4, <2>6, <3>1 DEF At
  <2> QED
    BY <2>5, <2>6
<1>2. Base => StacksBalance
  BY <1>1
<1> QED
  BY <1>2, BaseInvariant, PTL

(* No thread is ever left running with interrupts off.                     *)
THEOREM InterruptsStayOn ==
  ASSUME FaultsPushErrorCode
  PROVE  Spec => []InterruptsComeBack
<1>1. Base => InterruptsComeBack
  BY DEF Base, FlagsKept, InterruptsComeBack, InLoop, InterruptsOn
<1> QED
  BY <1>1, BaseInvariant, PTL
-----------------------------------------------------------------------------
(* Multitasking: however many tasks the table has, however deep in its     *)
(* calls each is when it is interrupted and whatever interrupts it, each   *)
(* has a processor of its own.                                             *)
THEOREM TasksHaveProcessors ==
  ASSUME FaultsPushErrorCode
  PROVE  Spec => ImplementsProcessors
<1> DEFINE context == [t \in Thread |-> Context(t)]
<1>1. ASSUME Init PROVE Promise!Init
  <2>1. ASSUME NEW t \in Thread PROVE Context(t) = Promise!After(t, 0)
    <3>1. At(t, 0) /\ 0 \in 0 .. Length - 1
      BY <1>1, BaseInit, Constants
    <3> QED
      BY <3>1, ContextIs
  <2> QED
    BY <2>1 DEF Promise!Init
<1>2. ASSUME Base, [Next]_vars PROVE [Promise!Next]_context
  <2>0. Placed /\ (Stays \/ Moves)
    BY <1>2, BaseStep DEF Base
  <2>1. ASSUME NEW t \in Thread, NEW n \in 0 .. Length - 1, At(t, n), At(t, n)'
        PROVE  Context(t)' = Context(t)
    BY <2>1, ContextIs
  <2>2. CASE Stays
    <3>1. \A t \in Thread : Context(t)' = Context(t)
      BY <2>0, <2>1, <2>2 DEF Placed, Stays
    <3> QED
      BY <3>1
  <2>3. CASE Moves
    <3>1. PICK t \in Thread, n \in 0 .. Length - 1 :
            /\ At(t, n) /\ At(t, (n + 1) % Length)'
            /\ \A u \in Thread \ {t}, k \in 0 .. Length - 1 :
                 At(u, k) => At(u, k)'
      BY <2>3 DEF Moves
    <3>2. (n + 1) % Length \in 0 .. Length - 1
      BY Constants, SMT
    <3>3. Context(t) = Promise!After(t, n)
      BY <3>1, ContextIs
    <3>4. Context(t)' = Promise!After(t, (n + 1) % Length)
      BY <3>1, <3>2, ContextIs
    <3>5. \A u \in Thread \ {t} : Context(u)' = Context(u)
      BY <2>0, <2>1, <3>1 DEF Placed
    <3>6. context' = [context EXCEPT ![t] = Promise!After(t, (n + 1) % Length)]
      <4>1. context' = [u \in Thread |-> Context(u)']
        OBVIOUS
      <4> QED
        BY <3>4, <3>5, <4>1
    <3>7. context[t] = Promise!After(t, n)
      BY <3>3
    <3>8. Promise!Step(t)
      BY <3>6, <3>7 DEF Promise!Step
    <3> QED
      BY <3>8 DEF Promise!Next
  <2> QED
    BY <2>0, <2>2, <2>3
<1> QED
  BY <1>1, <1>2, BaseInvariant, PTL
     DEF Spec, ImplementsProcessors, Promise!Spec
-----------------------------------------------------------------------------
(* What is in service and was not lost to Deactivate stands above all that *)
(* is in service on its chip: the non-specific command takes exactly it.   *)
Nested ==
  \A s \in pic.isr \ missed, t \in pic.isr :
    (s \in Master <=> t \in Master) => s <= t

(* The slave is only acknowledged for one of its lines.                    *)
SlaveServed ==
  service.at = "slave" /\ IsHardware(service.vector)
    => LineOf(service.vector) \in Slave

Served == ServiceMatches /\ Nested /\ SlaveServed

(* Before an interrupt is taken nothing is in service but what was lost.   *)
LEMMA NothingServed ==
  ASSUME ServiceMatches, ~Handling
  PROVE  pic.isr \subseteq missed
BY DEF ServiceMatches, Handling

LEMMA TakeServes ==
  ASSUME Base, Served, FaultsPushErrorCode, NEW v \in 32 .. 47, Enter(v),
         ~Handling, UNCHANGED missed, pic' \in Pics,
         pic'.isr \subseteq pic.isr \cup ServiceBits(LineOf(v)),
         \A s \in pic'.isr \ pic.isr, t \in pic'.isr :
           (s \in Master <=> t \in Master) => s <= t
  PROVE  Served'
<1>1. pic.isr \subseteq missed
  BY NothingServed DEF Served
<1>2. service'.at = "dispatch" /\ service'.vector = v
  BY Entering DEF Entered
<1>3. IsHardware(v)
  BY DEF IsHardware, hardwareInterruptOffset
<1>4. ServiceMatches'
  BY <1>1, <1>2, <1>3 DEF ServiceMatches
<1>5. Nested'
  BY <1>1 DEF Nested
<1>6. SlaveServed'
  BY <1>2 DEF SlaveServed
<1> QED
  BY <1>4, <1>5, <1>6 DEF Served

(* The line taken, and 2 for a line of the slave, stand above the others.  *)
LEMMA TakenOnTop ==
  ASSUME pic \in Pics, Interrupting(pic), NEW isr,
         isr \subseteq pic.isr \cup ServiceBits(Selected(pic)),
         NEW s \in isr \ pic.isr, NEW t \in isr,
         s \in Master <=> t \in Master
  PROVE  s <= t
<1> DEFINE l == Selected(pic)
<1>1. pic.isr \subseteq Line \cup {Cascade} /\ l \in Line
  BY AcceptedVector DEF Pics
<1>2. /\ l \in 0 .. 15 /\ t \in 0 .. 15
      /\ s \in ServiceBits(l) /\ t \in pic.isr \cup ServiceBits(l)
  BY <1>1, Lines DEF ServiceBits
<1>3. /\ l \in Master => \A r \in pic.isr \cap Master : l < r
      /\ l \in Slave => /\ \A r \in pic.isr \cap Slave : l < r
                       /\ \A r \in pic.isr \cap Master : Cascade < r
  BY SelectedFacts
<1> HIDE DEF l
<1>4. CASE l \in Slave
  <2>1. l \notin Master /\ Cascade \in Master
    BY <1>4, Lines
  <2>2. s = l \/ s = Cascade
    BY <1>2, <1>4 DEF ServiceBits
  <2>3. t \in pic.isr \/ t = l \/ t = Cascade
    BY <1>2, <1>4 DEF ServiceBits
  <2>4. CASE s = l
    BY <1>2, <1>3, <1>4, <2>1, <2>3, <2>4, Lines
  <2>5. CASE s = Cascade
    BY <1>2, <1>3, <1>4, <2>1, <2>3, <2>5, Lines
  <2> QED
    BY <2>2, <2>4, <2>5
<1>5. CASE l \notin Slave
  <2>1. s = l /\ l \in Master /\ (t = l \/ t \in pic.isr)
    BY <1>2, <1>5, Lines DEF ServiceBits
  <2> QED
    BY <1>2, <1>3, <2>1, Lines
<1> QED
  BY <1>4, <1>5

(* The end of an interrupt takes the line that stands above the others.    *)
LEMMA EndTakes ==
  ASSUME pic \in Pics, Nested, NEW lines \in {Master, Slave},
         NEW s \in lines, s \in pic.isr \ missed
  PROVE  s \notin EndOfInterrupt(pic, lines).isr
<1> DEFINE served == pic.isr \cap lines
<1>1. served \subseteq 0 .. 15 /\ s \in served
  BY Lines DEF Pics
<1>2. Min(served) \in served /\ Min(served) <= s
  BY <1>1, MinFacts
<1>3. s <= Min(served)
  BY <1>2, Lines DEF Nested
<1>4. Min(served) = s
  BY <1>1, <1>2, <1>3
<1> QED
  BY <1>1, <1>4 DEF EndOfInterrupt

LEMMA ServedStep ==
  ASSUME Base, Served, FaultsPushErrorCode, [Next]_vars
  PROVE  Served'
<1> USE DEF Served
<1>0. TypeOK /\ pic \in Pics /\ ServiceMatches /\ Nested /\ SlaveServed
  BY DEF Base, TypeOK, Pics
<1>1. ASSUME UNCHANGED <<service, missed>>, pic'.isr = pic.isr PROVE Served'
  BY <1>0, <1>1 DEF ServiceMatches, Nested, SlaveServed
<1>2. ASSUME NEW t \in Task, BootAddTask(t) PROVE Served'
  BY <1>1, <1>2 DEF BootAddTask
<1>3. ASSUME NEW m \in Manager, Activate(m) PROVE Served'
  BY <1>1, <1>3 DEF Activate
<1>4. CASE MainStep
  BY <1>1, <1>4 DEF MainStep, Deactivate, Cli, SetActive, Sti
<1>5. CASE Run
  BY <1>1, <1>5 DEF Run
<1>6. ASSUME NEW l \in Line, Raise(l) PROVE Served'
  BY <1>0, <1>1, <1>6 DEF Raise, RaiseLine, Pics
<1>7. CASE Accept
  <2> DEFINE v == VectorOf(Selected(pic))
  <2>1. /\ Interrupting(pic) /\ ~Handling /\ Enter(v)
        /\ UNCHANGED missed /\ pic' = TakeLine(pic, Selected(pic))
    BY <1>7 DEF Accept
  <2>2. Selected(pic) \in 0 .. 15
    BY <1>0, <2>1, AcceptedVector, Lines
  <2>3. v \in 32 .. 47 /\ LineOf(v) = Selected(pic)
    BY <2>2 DEF VectorOf, LineOf, hardwareInterruptOffset
  <2>4. pic'.isr = pic.isr \cup ServiceBits(Selected(pic)) /\ pic' \in Pics
    BY <1>0, <2>1, AcceptedVector DEF TakeLine
  <2> HIDE DEF v
  <2>5. \A s \in pic'.isr \ pic.isr, t \in pic'.isr :
          (s \in Master <=> t \in Master) => s <= t
    BY <1>0, <2>1, <2>4, TakenOnTop
  <2> QED
    BY <2>1, <2>3, <2>4, <2>5, TakeServes
<1>8. CASE AcceptSpurious
  <2> DEFINE v == VectorOf(SpuriousLine(Selected(pic)))
  <2>1. /\ Interrupting(pic) /\ ~Handling /\ Enter(v)
        /\ UNCHANGED missed /\ pic' = DropLine(pic, Selected(pic))
    BY <1>8 DEF AcceptSpurious
  <2>2. /\ v \in 32 .. 47 /\ LineOf(v) = SpuriousLine(Selected(pic))
    BY DEF VectorOf, LineOf, SpuriousLine, hardwareInterruptOffset
  <2>3. /\ pic'.isr \subseteq pic.isr \cup ServiceBits(Selected(pic))
        /\ pic'.isr \subseteq pic.isr \cup ServiceBits(SpuriousLine(Selected(pic)))
        /\ pic' \in Pics
    BY <1>0, <2>1, AcceptedVector, Lines DEF DropLine, ServiceBits, SpuriousLine
  <2> HIDE DEF v
  <2>4. \A s \in pic'.isr \ pic.isr, t \in pic'.isr :
          (s \in Master <=> t \in Master) => s <= t
    BY <1>0, <2>1, <2>3, TakenOnTop
  <2> QED
    BY <2>1, <2>2, <2>3, <2>4, TakeServes
<1>9. ASSUME NEW v \in Fault, Except(v) PROVE Served'
  <2>1. ~Handling /\ Enter(v) /\ UNCHANGED <<pic, missed>>
    BY <1>9 DEF Except, InLoop
  <2>2. service'.at = "dispatch" /\ service'.vector = v
    BY <1>0, <2>1, Entering DEF Entered
  <2>3. pic'.isr \subseteq missed'
    BY <1>0, <2>1, NothingServed
  <2> QED
    BY <2>2, <2>3 DEF ServiceMatches, Nested, SlaveServed
<1>10. CASE Ignore
  <2>1. /\ pic' = pic /\ missed \subseteq missed'
        /\ service'.at = "return" /\ service'.vector = service.vector
    BY <1>0, <1>10 DEF Ignore, TypeOK
  <2>2. pic'.isr \subseteq missed'
    BY <1>0, <1>10 DEF Ignore, ServiceMatches
  <2> QED
    BY <2>1, <2>2 DEF ServiceMatches, Nested, SlaveServed
<1>11. CASE Dispatch
  <2>1. /\ UNCHANGED <<pic, missed>> /\ service.at = "dispatch"
        /\ service'.at = AfterDispatch(service.vector)
        /\ service'.vector = service.vector
    BY <1>0, <1>11 DEF Dispatch, TypeOK
  <2>2. ServiceMatches'
    BY <1>0, <2>1 DEF ServiceMatches, AfterDispatch
  <2> QED
    BY <1>0, <2>1, <2>2 DEF Nested, SlaveServed, AfterDispatch
<1>12. CASE AckMaster
  <2>1. /\ UNCHANGED missed /\ service.at = "master"
        /\ pic' = EndOfInterrupt(pic, Master)
        /\ service'.at = AfterMaster(service.vector)
        /\ service'.vector = service.vector
        /\ service.vector \in 0 .. 255
    BY <1>0, <1>12 DEF AckMaster, TypeOK
  <2>2. pic'.isr \subseteq pic.isr
    BY <1>0, <2>1, EndOfInterruptTyped
  <2>3. \A s \in pic'.isr \ missed' : s \notin Master
    BY <1>0, <2>1, <2>2, EndTakes
  <2>4. ServiceMatches'
    <3>1. CASE ~IsHardware(service.vector)
      BY <1>0, <2>1, <2>2, <3>1 DEF ServiceMatches
    <3>2. CASE IsHardware(service.vector)
      <4>1. /\ LineOf(service.vector) \in 0 .. 15
            /\ pic.isr \ missed \subseteq ServiceBits(LineOf(service.vector))
        BY <1>0, <2>1, <3>2
           DEF ServiceMatches, IsHardware, LineOf, hardwareInterruptOffset
      <4>2. CASE LineOf(service.vector) >= 8
        <5>1. pic'.isr \ missed' \subseteq {LineOf(service.vector)}
          BY <2>1, <2>2, <2>3, <4>1, Lines DEF ServiceBits
        <5> QED
          BY <2>1, <3>2, <4>2, <5>1 DEF ServiceMatches, AfterMaster
      <4>3. CASE ~(LineOf(service.vector) >= 8)
        <5>1. LineOf(service.vector) \in Master \ Slave
          BY <4>1, <4>3, Lines
        <5>2. pic'.isr \ missed' = {}
          BY <2>1, <2>2, <2>3, <4>1, <5>1 DEF ServiceBits
        <5> QED
          BY <5>2 DEF ServiceMatches
      <4> QED
        BY <4>2, <4>3
    <3> QED
      BY <3>1, <3>2
  <2>5. Nested'
    BY <1>0, <2>1, <2>2 DEF Nested
  <2>6. SlaveServed'
    BY <2>1, Lines DEF SlaveServed, AfterMaster, IsHardware, LineOf,
                       hardwareInterruptOffset
  <2> QED
    BY <2>4, <2>5, <2>6
<1>13. CASE AckSlave
  <2>1. /\ UNCHANGED missed /\ service.at = "slave"
        /\ pic' = EndOfInterrupt(pic, Slave)
        /\ service'.at = "return"
        /\ service'.vector = service.vector
    BY <1>0, <1>13 DEF AckSlave, TypeOK
  <2>2. pic'.isr \subseteq pic.isr
    BY <1>0, <2>1, EndOfInterruptTyped
  <2>3. \A s \in pic'.isr \ missed' : s \notin Slave
    BY <1>0, <2>1, <2>2, EndTakes
  <2>4. pic'.isr \ missed' = {}
    BY <1>0, <2>1, <2>2, <2>3 DEF ServiceMatches, SlaveServed
  <2> QED
    BY <1>0, <2>1, <2>2, <2>4 DEF ServiceMatches, Nested, SlaveServed
<1>14. CASE Return
  <2>1. /\ UNCHANGED <<pic, missed>> /\ service.at = "return"
        /\ service'.at = "none"
    BY <1>14 DEF Return, Quiet
  <2>2. pic'.isr \subseteq missed'
    BY <1>0, <2>1 DEF ServiceMatches
  <2> QED
    BY <1>0, <2>1, <2>2 DEF ServiceMatches, Nested, SlaveServed
<1>15. CASE UNCHANGED vars
  BY <1>1, <1>15 DEF vars
<1> QED
  BY <1>2, <1>3, <1>4, <1>5, <1>6, <1>7, <1>8, <1>9, <1>10, <1>11, <1>12,
     <1>13, <1>14, <1>15 DEF Next, StubStep

(* Whatever rises, drops or is switched, nothing is left in service behind *)
(* its handler but what came inside Deactivate.                            *)
THEOREM NothingLeftInService ==
  ASSUME FaultsPushErrorCode
  PROVE  Spec => []ServiceMatches
<1>1. Init => Served
  BY DEF Init, PicReset, Served, ServiceMatches, Nested, SlaveServed, Quiet
<1>2. Base /\ Served /\ [Next]_vars => Served'
  BY ServedStep
<1>3. Served => ServiceMatches
  BY DEF Served
<1> QED
  BY <1>1, <1>2, <1>3, BaseInvariant, PTL DEF Spec
=============================================================================
