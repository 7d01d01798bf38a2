----------------------------- MODULE BootProofs -----------------------------
(***************************************************************************)
(* Proofs about the drivers, as part of Boot: for any keys, struck before  *)
(* or pressed later, and any packets, both devices are on once kernelMain  *)
(* has activated them, every packet reaches its handler whole, and the     *)
(* keys with a character reach theirs in order.                            *)
(*                                                                         *)
(* The devices have to answer before the next port access (Prompt): with   *)
(* a late answer packets are torn.                                         *)
(***************************************************************************)
EXTENDS Boot, FiniteSetTheorems, SequenceTheorems, TLAPS

(* kernelMain is in function f, at one of the steps.                       *)
In(f, steps) == at[1] = f /\ at[2] \in steps

Steps == {"drain", "enable", "ask", "read", "set", "start"}

(* The variables are records and functions with the fields they have.      *)
Shape ==
  /\ at = <<at[1], at[2]>>
  /\ ctl = [command |-> ctl.command, full |-> ctl.full,
            out |-> ctl.out, from |-> ctl.from]
  /\ ctl.full \in BOOLEAN /\ ctl.from \in Source
  /\ queue = [s \in Source |-> queue[s]]
  /\ mouse = [buffer |-> mouse.buffer, offset |-> mouse.offset,
              buttons |-> mouse.buttons]
  /\ mouse.buffer = [i \in 0 .. 2 |-> mouse.buffer[i]]
  /\ mouse.buttons \in SUBSET (0 .. 7)
  /\ status \in SUBSET (0 .. 7)
  /\ typed \in Seq(Key) /\ seen \in Seq(Known)

(* Where kernelMain is, and which drivers are there by then.               *)
Progress ==
  /\ \/ In("kernelMain", {"construct", "scan", "activate", "sti", "run"})
     \/ In("keyboard", Steps)
     \/ In("mouse", Steps \cup {"ack"})
  /\ IF In("kernelMain", {"construct"})
     THEN drivers \in {<< >>, <<"keyboard">>} ELSE drivers = Built
  /\ activated \in 0 .. 2
  /\ In("kernelMain", {"construct", "scan"}) => activated = 0
  /\ at[1] = "keyboard" => activated = 1
  /\ at[1] = "mouse" => activated = 2
  /\ handlers = [v \in Vector |-> handlers[v]]
  /\ handlers[44] \in {NoDriver, "mouse"}

(* Both drivers have been activated; interrupts are off, or already on.    *)
AllActive ==
  In("kernelMain", {"sti"}) \/ (In("kernelMain", {"activate"}) /\ activated = 2)
InLoop == In("kernelMain", {"run"})

(* The command byte is known at every step: nothing but the answer of the  *)
(* controller is ever taken for it.                                        *)
CommandByte ==
  IF In("mouse", {"ask", "read", "set"}) THEN {0, 6}
  ELSE IF AllActive \/ InLoop \/ In("mouse", {"start", "ack"}) THEN {0, 1, 6}
  ELSE {0, 5, 6}

CommandIsKnown ==
  /\ ctl.command = CommandByte
  /\ In("keyboard", {"set"}) => status = {0, 5, 6}
  /\ In("mouse", {"set"}) => status = {0, 1, 6}

(* Nothing of s is on its way.                                             *)
Silent(s) == queue[s] = << >> /\ (ctl.full => ctl.from # s)

(* One byte of s is, and no other.                                         *)
Sent(s, byte) ==
  \/ queue[s] = <<byte>> /\ ~ctl.full
  \/ queue[s] = << >> /\ ctl.full /\ ctl.from = s /\ ctl.out = byte

Answers ==
  /\ IF In("keyboard", {"read"}) \/ In("mouse", {"read"})
     THEN Sent("controller", Byte(ctl.command, "command"))
     ELSE Silent("controller")
  /\ \/ In("keyboard", Steps \ {"drain"})
     \/ In("mouse", (Steps \cup {"ack"}) \ {"drain"})
     \/ AllActive
     => Silent("keyboard")
  /\ IF In("mouse", {"ack"}) THEN Sent("mouse", Ack)
     ELSE ~InLoop => Silent("mouse")

(* The mouse driver waits for the first byte of the first packet.          *)
Fresh ==
  /\ at[1] = "mouse" \/ AllActive => mouse.offset = 0 /\ mouse.buttons = {}
  /\ ~InLoop => /\ reports = << >> /\ events = << >>
                /\ typed = << >> /\ seen = << >>

Activation == Shape /\ Progress /\ CommandIsKnown /\ Answers /\ Fresh
-----------------------------------------------------------------------------
LEMMA ActivationInit == Init => Activation
<1> SUFFICES ASSUME Init PROVE Activation
  OBVIOUS
<1> USE DEF Init, Ps2Init, DriversInit
<1>1. at[1] = "kernelMain" /\ at[2] = "construct" /\ at = <<at[1], at[2]>>
  OBVIOUS
<1>2. Shape
  BY <1>1 DEF Shape, Source, KeyboardInterrupts, MouseOff
<1>3. Progress
  BY <1>1 DEF Progress, In, Vector
<1>4. CommandIsKnown
  BY <1>1 DEF CommandIsKnown, CommandByte, In, AllActive, InLoop, KeyboardInterrupts,
     MouseOff
<1>5. Answers
  BY <1>1 DEF Answers, Silent, In, AllActive, InLoop, Source
<1>6. Fresh
  BY <1>1 DEF Fresh, In, AllActive, InLoop
<1> QED
  BY <1>2, <1>3, <1>4, <1>5, <1>6 DEF Activation

(* With prompt devices nothing waits at a port access for an empty buffer. *)
LEMMA NothingWaits ==
  ASSUME Shape, Prompt, Ready
  PROVE  /\ ctl.full \/ queue["controller"] = << >>
         /\ ctl.full \/ queue["keyboard"] = << >> \/ KeyboardOff \in ctl.command
         /\ ctl.full \/ queue["mouse"] = << >> \/ MouseOff \in ctl.command
BY DEF Ready, CanSend, Source

(* A byte sent where there was none is the only one.                       *)
LEMMA AnswerAlone ==
  ASSUME Shape, NEW s \in Source, NEW byte, queue[s] = << >>
  PROVE  Answer(s, byte) = [r \in Source |-> IF r = s THEN <<byte>> ELSE queue[r]]
<1>1. Append(<< >>, byte) = <<byte>>
  OBVIOUS
<1> QED
  BY <1>1 DEF Answer, Shape

(* With prompt devices a byte sent is there to be read.                    *)
LEMMA SentIsThere ==
  ASSUME NEW s \in Source, NEW byte, Shape, Prompt, Ready, Sent(s, byte),
         s = "keyboard" => KeyboardOff \notin ctl.command,
         s = "mouse" => MouseOff \notin ctl.command
  PROVE  ctl.full /\ ctl.out = byte /\ queue[s] = << >>
<1>1. <<byte>> # << >>
  OBVIOUS
<1> QED
  BY <1>1, NothingWaits DEF Sent, Source

LEMMA DrainPreserves ==
  ASSUME Activation, Prompt, NEW d \in {"keyboard", "mouse"}, Drain(d),
         UNCHANGED <<driverVars, pciVars>>
  PROVE  Activation'
<1> USE DEF Activation, Drain
<1>1. /\ at = <<d, "drain">> /\ at[1] = d /\ at[2] = "drain"
      /\ UNCHANGED <<status, queue, mouse, typed, reports, seen, events,
                     drivers, handlers, activated>>
  BY DEF driverVars
<1>2. CASE ctl.full
  <2>1. at' = at /\ ctl' = [ctl EXCEPT !.full = FALSE]
    BY <1>2 DEF Empty
  <2>2. Shape'
    BY <1>1, <2>1 DEF Shape
  <2>3. /\ ctl'.command = ctl.command /\ ctl'.full = FALSE
    BY <2>1 DEF Shape
  <2>4. Progress' /\ CommandIsKnown' /\ Fresh'
    BY <1>1, <2>1, <2>3 DEF Progress, In, CommandIsKnown, CommandByte, AllActive,
       InLoop, Fresh
  <2>5. Answers'
    BY <1>1, <2>1, <2>3 DEF Answers, Silent, In, AllActive, InLoop
  <2> QED
    BY <2>2, <2>4, <2>5
<1>3. CASE ~ctl.full
  <2>1. at' = <<d, "enable">> /\ at'[1] = d /\ at'[2] = "enable" /\ ctl' = ctl
    BY <1>3
  <2>2. Shape'
    BY <1>1, <2>1 DEF Shape
  <2>3. Progress' /\ CommandIsKnown' /\ Fresh'
    BY <1>1, <2>1 DEF Progress, Steps, In, CommandIsKnown, CommandByte, AllActive,
       InLoop, Fresh
  <2>4. ctl.command = {0, 5, 6}
    BY <1>1 DEF CommandIsKnown, CommandByte, In, AllActive, InLoop
  <2>5. queue["keyboard"] = << >>
    BY <1>3, <2>4, NothingWaits DEF KeyboardOff
  <2>6. Answers'
    BY <1>1, <1>3, <2>1, <2>5 DEF Answers, Silent, In, AllActive, InLoop
  <2> QED
    BY <2>2, <2>3, <2>6
<1> QED
  BY <1>2, <1>3 DEF Shape

LEMMA EnablePreserves ==
  ASSUME Activation, Prompt, NEW d \in {"keyboard", "mouse"}, Enable(d),
         UNCHANGED <<driverVars, pciVars>>
  PROVE  Activation'
<1> USE DEF Activation, Enable, Goto
<1>1. /\ at = <<d, "enable">> /\ at[1] = d /\ at[2] = "enable"
      /\ at' = <<d, "ask">> /\ at'[1] = d /\ at'[2] = "ask"
      /\ UNCHANGED <<status, queue, mouse, typed, reports, seen, events,
                     drivers, handlers, activated>>
  BY DEF driverVars
<1>2. ctl.command = {0, 5, 6}
  BY <1>1 DEF CommandIsKnown, CommandByte, In, AllActive, InLoop
<1>3. /\ ctl' = [ctl EXCEPT !.command = ctl'.command]
      /\ ctl'.command = IF d = "keyboard" THEN {0, 5, 6} ELSE {0, 6}
  BY <1>2 DEF Shape, KeyboardOff, MouseOff
<1>4. Shape'
  BY <1>1, <1>3 DEF Shape
<1>5. Progress' /\ CommandIsKnown'
  BY <1>1, <1>3 DEF Progress, Steps, In, CommandIsKnown, CommandByte, AllActive, InLoop
<1>6. Answers' /\ Fresh'
  BY <1>1, <1>3 DEF Answers, Silent, Steps, In, AllActive, InLoop, Fresh, Shape
<1> QED
  BY <1>4, <1>5, <1>6

LEMMA AskPreserves ==
  ASSUME Activation, Prompt, NEW d \in {"keyboard", "mouse"}, Ask(d),
         UNCHANGED <<driverVars, pciVars>>
  PROVE  Activation'
<1> USE DEF Activation, Ask, Goto
<1>1. /\ at = <<d, "ask">> /\ at[1] = d /\ at[2] = "ask"
      /\ at' = <<d, "read">> /\ at'[1] = d /\ at'[2] = "read"
      /\ UNCHANGED <<status, ctl, mouse, typed, reports, seen, events,
                     drivers, handlers, activated>>
  BY DEF driverVars
<1>2. /\ queue' = [s \in Source |-> queue'[s]]
      /\ queue'["controller"] = <<Byte(ctl.command, "command")>>
      /\ queue'["keyboard"] = queue["keyboard"]
      /\ queue'["mouse"] = queue["mouse"]
  <2>1. queue["controller"] = << >>
    BY <1>1 DEF Answers, Silent, In
  <2>2. queue' = Answer("controller", Byte(ctl.command, "command"))
    OBVIOUS
  <2>3. queue' = [s \in Source |-> IF s = "controller"
                                   THEN <<Byte(ctl.command, "command")>> ELSE queue[s]]
    BY <2>1, <2>2, AnswerAlone DEF Source
  <2> QED
    BY <2>3 DEF Source
<1>3. ~ctl.full
  BY <1>1 DEF Answers, Silent, In, Steps, Shape, Source, InLoop
<1>4. Shape'
  BY <1>1, <1>2 DEF Shape
<1>5. Progress' /\ CommandIsKnown'
  BY <1>1 DEF Progress, Steps, In, CommandIsKnown, CommandByte, AllActive, InLoop
<1>6. Answers' /\ Fresh'
  BY <1>1, <1>2, <1>3 DEF Answers, Silent, Sent, Steps, In, AllActive, InLoop, Fresh,
     Shape
<1> QED
  BY <1>4, <1>5, <1>6

LEMMA ReadPreserves ==
  ASSUME Activation, Prompt, NEW d \in {"keyboard", "mouse"}, Read(d),
         UNCHANGED <<driverVars, pciVars>>
  PROVE  Activation'
<1> USE DEF Activation, Read, Goto
<1>1. /\ at = <<d, "read">> /\ at[1] = d /\ at[2] = "read"
      /\ at' = <<d, "set">> /\ at'[1] = d /\ at'[2] = "set"
      /\ UNCHANGED <<queue, mouse, typed, reports, seen, events,
                     drivers, handlers, activated>>
  BY DEF driverVars
<1>2. Sent("controller", Byte(ctl.command, "command"))
  BY <1>1 DEF Answers, In
<1>3. queue["controller"] = << >> /\ ctl.out = Byte(ctl.command, "command")
  BY <1>2, SentIsThere DEF Source
<1>4. ctl'.command = ctl.command /\ ctl'.full = FALSE
  BY DEF Shape, Empty
<1>5. ctl.command = IF d = "keyboard" THEN {0, 5, 6} ELSE {0, 6}
  BY <1>1 DEF CommandIsKnown, CommandByte, In, AllActive, InLoop
<1>6. status' = IF d = "keyboard" THEN {0, 5, 6} ELSE {0, 1, 6}
  <2>1. ctl.out.bits = ctl.command
    BY <1>3 DEF Byte
  <2>2. CASE d = "keyboard"
    BY <1>5, <2>1, <2>2 DEF KeyboardInterrupts, KeyboardOff
  <2>3. CASE d = "mouse"
    BY <1>5, <2>1, <2>3 DEF MouseInterrupts
  <2> QED
    BY <2>2, <2>3
<1>7. Shape'
  <2>1. status' \in SUBSET (0 .. 7)
    BY <1>6
  <2> QED
    BY <1>1, <2>1 DEF Shape, Empty
<1>8. Progress' /\ CommandIsKnown'
  BY <1>1, <1>4, <1>6 DEF Progress, Steps, In, CommandIsKnown, CommandByte, AllActive,
     InLoop
<1>9. Answers' /\ Fresh'
  BY <1>1, <1>3, <1>4 DEF Answers, Silent, Steps, In, AllActive, InLoop, Fresh
<1> QED
  BY <1>7, <1>8, <1>9

LEMMA SetPreserves ==
  ASSUME Activation, Prompt, NEW d \in {"keyboard", "mouse"}, Set(d),
         UNCHANGED <<driverVars, pciVars>>
  PROVE  Activation'
<1> USE DEF Activation, Set, Goto
<1>1. /\ at = <<d, "set">> /\ at[1] = d /\ at[2] = "set"
      /\ at' = <<d, "start">> /\ at'[1] = d /\ at'[2] = "start"
      /\ UNCHANGED <<status, queue, mouse, typed, reports, seen, events,
                     drivers, handlers, activated>>
  BY DEF driverVars
<1>2. /\ ctl' = [ctl EXCEPT !.command = ctl'.command]
      /\ ctl'.command = IF d = "keyboard" THEN {0, 5, 6} ELSE {0, 1, 6}
  BY <1>1 DEF Shape, CommandIsKnown, In
<1>3. Shape'
  BY <1>1, <1>2 DEF Shape
<1>4. Progress' /\ CommandIsKnown'
  BY <1>1, <1>2 DEF Progress, Steps, In, CommandIsKnown, CommandByte, AllActive, InLoop
<1>5. Answers' /\ Fresh'
  BY <1>1, <1>2 DEF Answers, Silent, Steps, In, AllActive, InLoop, Fresh, Shape
<1> QED
  BY <1>3, <1>4, <1>5

LEMMA StartDevicePreserves ==
  ASSUME Activation, Prompt, NEW d \in {"keyboard", "mouse"}, StartDevice(d),
         UNCHANGED <<driverVars, pciVars>>
  PROVE  Activation'
<1> USE DEF Activation, StartDevice, Goto
<1>1. /\ at = <<d, "start">> /\ at[1] = d /\ at[2] = "start"
      /\ at' = <<IF d = "keyboard" THEN "kernelMain" ELSE "mouse", at'[2]>>
      /\ at'[1] = IF d = "keyboard" THEN "kernelMain" ELSE "mouse"
      /\ at'[2] = IF d = "keyboard" THEN "activate" ELSE "ack"
      /\ UNCHANGED <<status, ctl, mouse, typed, reports, seen, events,
                     drivers, handlers, activated>>
  BY DEF driverVars, Returned
<1>2. /\ queue' = [s \in Source |-> queue'[s]]
      /\ queue'[d] = <<Ack>>
      /\ \A s \in Source \ {d} : queue'[s] = queue[s]
  <2>1. queue[d] = << >>
    BY <1>1 DEF Answers, Silent, In, Steps, InLoop
  <2>2. queue' = Answer(d, Ack)
    OBVIOUS
  <2>3. queue' = [s \in Source |-> IF s = d THEN <<Ack>> ELSE queue[s]]
    BY <2>1, <2>2, AnswerAlone DEF Source
  <2> QED
    BY <2>3 DEF Source
<1>3. ~ctl.full
  BY <1>1 DEF Answers, Silent, In, Steps, Shape, Source, InLoop
<1>4. Shape'
  BY <1>1, <1>2 DEF Shape
<1>5. Progress' /\ CommandIsKnown'
  BY <1>1 DEF Progress, Steps, In, CommandIsKnown, CommandByte, AllActive, InLoop
<1>6. Answers'
  <2>1. CASE d = "keyboard"
    <3>1. activated' = 1
      BY <1>1, <2>1 DEF Progress
    <3> QED
      BY <1>1, <1>2, <1>3, <2>1, <3>1 DEF Answers, Silent, Steps, In, AllActive,
         InLoop, Source
  <2>2. CASE d = "mouse"
    BY <1>1, <1>2, <1>3, <2>2 DEF Answers, Silent, Sent, Steps, In, AllActive,
       InLoop, Source
  <2> QED
    BY <2>1, <2>2
<1>7. Fresh'
  BY <1>1 DEF Fresh, In, AllActive, InLoop, Progress
<1> QED
  BY <1>4, <1>5, <1>6, <1>7

LEMMA ReadAckPreserves ==
  ASSUME Activation, Prompt, ReadAck, UNCHANGED <<driverVars, pciVars>>
  PROVE  Activation'
<1> USE DEF Activation, ReadAck, Goto
<1>1. /\ at = <<"mouse", "ack">> /\ at[1] = "mouse" /\ at[2] = "ack"
      /\ at' = <<"kernelMain", "activate">>
      /\ at'[1] = "kernelMain" /\ at'[2] = "activate"
      /\ UNCHANGED <<status, queue, mouse, typed, reports, seen, events,
                     drivers, handlers, activated>>
  BY DEF driverVars, Returned
<1>2. ctl.command = {0, 1, 6}
  BY <1>1 DEF CommandIsKnown, CommandByte, In
<1>3. queue["mouse"] = << >>
  <2>1. Sent("mouse", Ack)
    BY <1>1 DEF Answers, In
  <2> QED
    BY <1>2, <2>1, SentIsThere DEF Source, MouseOff
<1>4. ctl'.command = ctl.command /\ ctl'.full = FALSE
  BY DEF Shape, Empty
<1>5. Shape'
  BY <1>1, <1>4 DEF Shape, Empty
<1>6. Progress' /\ CommandIsKnown'
  BY <1>1, <1>2, <1>4 DEF Progress, Steps, In, CommandIsKnown, CommandByte, AllActive,
     InLoop
<1>7. Answers' /\ Fresh'
  BY <1>1, <1>3, <1>4 DEF Answers, Silent, Steps, In, AllActive, InLoop, Fresh
<1> QED
  BY <1>5, <1>6, <1>7

LEMMA HandlersEntered ==
  ASSUME handlers = [v \in Vector |-> handlers[v]], NEW w \in {33, 44}, NEW d,
         handlers' = [handlers EXCEPT ![w] = d]
  PROVE  /\ handlers' = [v \in Vector |-> handlers'[v]]
         /\ handlers'[44] = IF w = 44 THEN d ELSE handlers[44]
<1>1. w \in Vector /\ 44 \in Vector
  BY DEF Vector
<1> QED
  BY <1>1

LEMMA PairAppended ==
  ASSUME NEW a, NEW b
  PROVE  Append(<<a>>, b) = <<a, b>>
<1> DEFINE S == {a, b}
<1>1. <<a>> \in Seq(S) /\ <<a, b>> \in Seq(S)
  OBVIOUS
<1>2. Append(<<a>>, b) \in Seq(S) /\ Len(Append(<<a>>, b)) = 2
  BY <1>1, AppendProperties
<1>3. Append(<<a>>, b)[1] = a /\ Append(<<a>>, b)[2] = b
  BY <1>1, AppendProperties
<1>4. Len(<<a, b>>) = 2 /\ <<a, b>>[1] = a /\ <<a, b>>[2] = b
  OBVIOUS
<1>5. \A i \in 1 .. Len(<<a, b>>) : Append(<<a>>, b)[i] = <<a, b>>[i]
  BY <1>3, <1>4
<1> HIDE DEF S
<1> QED
  BY <1>1, <1>2, <1>4, <1>5, SeqEqual

LEMMA ConstructPreserves ==
  ASSUME Activation, Construct
  PROVE  Activation'
<1> USE DEF Activation, Construct
<1>1. /\ at = <<"kernelMain", "construct">>
      /\ at[1] = "kernelMain" /\ at[2] = "construct"
      /\ UNCHANGED <<status, ctl, queue, mouse, typed, reports, seen, events,
                     activated>>
  OBVIOUS
<1>2. drivers \in {<< >>, <<"keyboard">>} /\ activated = 0
  BY <1>1 DEF Progress, In
<1>3. CASE drivers = << >>
  <2>1. /\ drivers' = <<"keyboard">>
        /\ handlers' = [handlers EXCEPT ![33] = "keyboard"]
        /\ at' = at
    <3>1. Built[numDrivers + 1] = "keyboard" /\ numDrivers + 1 # Len(Built)
      BY <1>3 DEF numDrivers, Built
    <3>2. Append(<< >>, "keyboard") = <<"keyboard">>
      OBVIOUS
    <3> QED
      BY <1>3, <3>1, <3>2 DEF AddDriver, InterruptHandler, VectorOf
  <2>2. handlers' = [v \in Vector |-> handlers'[v]] /\ handlers'[44] = handlers[44]
    BY <2>1, HandlersEntered DEF Progress
  <2>3. Progress'
    BY <1>1, <1>2, <2>1, <2>2 DEF Progress, In
  <2> QED
    BY <1>1, <2>1, <2>3 DEF Shape, CommandIsKnown, CommandByte, Answers, Silent, Sent,
       Fresh, In, AllActive, InLoop
<1>4. CASE drivers = <<"keyboard">>
  <2>1. /\ drivers' = <<"keyboard", "mouse">>
        /\ handlers' = [handlers EXCEPT ![44] = "mouse"]
        /\ at' = <<"kernelMain", "scan">>
    <3>1. Built[numDrivers + 1] = "mouse" /\ numDrivers + 1 = Len(Built)
      BY <1>4 DEF numDrivers, Built
    <3>2. Append(<<"keyboard">>, "mouse") = <<"keyboard", "mouse">>
      BY PairAppended
    <3> QED
      BY <1>4, <3>1, <3>2 DEF AddDriver, InterruptHandler, VectorOf
  <2>2. at'[1] = "kernelMain" /\ at'[2] = "scan" /\ at' = <<at'[1], at'[2]>>
    BY <2>1
  <2>3. handlers' = [v \in Vector |-> handlers'[v]] /\ handlers'[44] = "mouse"
    BY <2>1, HandlersEntered DEF Progress
  <2>4. Progress'
    BY <1>1, <1>2, <2>1, <2>2, <2>3 DEF Progress, In, Built
  <2> QED
    BY <1>1, <1>2, <2>2, <2>4 DEF Shape, CommandIsKnown, CommandByte, Answers, Silent,
       Sent, Fresh, In, AllActive, InLoop
<1> QED
  BY <1>2, <1>3, <1>4

(* GetDriver has no driver to give, so the scan adds none.                 *)
LEMMA ScanPreserves ==
  ASSUME Activation, Scan
  PROVE  Activation'
<1> USE DEF Activation, Scan
<1>1. UNCHANGED drivers
  BY DEF SelectDrivers, ExamineDevice, GetDeviceDescriptor, ExamineBar, PrintFunction,
     NextDevice, GetDriver
<1>2. /\ at = <<"kernelMain", "scan">>
      /\ at[1] = "kernelMain" /\ at[2] = "scan"
      /\ at'[1] = "kernelMain" /\ at'[2] \in {"scan", "activate"}
      /\ at' = <<at'[1], at'[2]>>
      /\ UNCHANGED <<handlers, activated, status, ctl, queue, mouse, typed,
                     reports, seen, events>>
  BY DEF Returned
<1>3. activated = 0
  BY <1>2 DEF Progress, In
<1>4. Shape' /\ Progress'
  BY <1>1, <1>2, <1>3 DEF Shape, Progress, In
<1>5. CommandIsKnown'
  BY <1>2, <1>3 DEF CommandIsKnown, CommandByte, In, AllActive, InLoop
<1>6. Fresh'
  BY <1>2, <1>3 DEF Fresh, In, AllActive, InLoop
<1>7. Answers'
  BY <1>2, <1>3 DEF Answers, Silent, In, AllActive, InLoop
<1> QED
  BY <1>4, <1>5, <1>6, <1>7

LEMMA ActivateAllPreserves ==
  ASSUME Activation, ActivateAll
  PROVE  Activation'
<1> USE DEF Activation, ActivateAll
<1>1. /\ at = <<"kernelMain", "activate">>
      /\ at[1] = "kernelMain" /\ at[2] = "activate"
      /\ drivers = <<"keyboard", "mouse">> /\ numDrivers = 2
      /\ activated \in 0 .. 2
      /\ UNCHANGED <<drivers, handlers, status, ctl, queue, typed, reports, seen,
                     events>>
  BY DEF Returned, Progress, In, Built, numDrivers, EnterActivate
<1>2. CASE activated = 2
  <2>1. at' = <<"kernelMain", "sti">> /\ UNCHANGED <<activated, mouse>>
    BY <1>1, <1>2 DEF Remaining
  <2>2. at'[1] = "kernelMain" /\ at'[2] = "sti" /\ at' = <<at'[1], at'[2]>>
    BY <2>1
  <2> QED
    BY <1>1, <1>2, <2>1, <2>2 DEF Shape, Progress, CommandIsKnown, CommandByte,
       Answers, Silent, Sent, Fresh, In, AllActive, InLoop
<1>3. CASE activated # 2
  <2> DEFINE d == NextDriver
  <2>1. /\ d = IF activated = 0 THEN "keyboard" ELSE "mouse"
        /\ activated' = activated + 1
        /\ EnterActivate(d)
    BY <1>1, <1>3 DEF Remaining, NextDriver
  <2> HIDE DEF d
  <2>2. at' = <<d, "drain">> /\ at'[1] = d /\ at'[2] = "drain"
    BY <2>1 DEF EnterActivate
  <2>3. /\ mouse' = [buffer |-> mouse.buffer, offset |-> mouse'.offset,
                     buttons |-> mouse'.buttons]
        /\ d = "mouse" => mouse'.offset = 0 /\ mouse'.buttons = {}
        /\ mouse'.buttons \in SUBSET (0 .. 7)
    BY <2>1 DEF EnterActivate, Shape
  <2>4. Shape'
    BY <1>1, <2>2, <2>3 DEF Shape
  <2>5. Progress'
    BY <1>1, <1>3, <2>1, <2>2 DEF Progress, In, Steps
  <2>6. CommandIsKnown' /\ Answers' /\ Fresh'
    BY <1>1, <1>3, <2>1, <2>2, <2>3 DEF CommandIsKnown, CommandByte, Answers, Silent,
       Sent, Fresh, In, AllActive, InLoop, Steps
  <2> QED
    BY <2>4, <2>5, <2>6
<1> QED
  BY <1>2, <1>3

LEMMA StartInterruptsPreserves ==
  ASSUME Activation, StartInterrupts
  PROVE  Activation'
<1> USE DEF Activation, StartInterrupts
<1>1. /\ at = <<"kernelMain", "sti">>
      /\ at[1] = "kernelMain" /\ at[2] = "sti"
      /\ at' = <<"kernelMain", "run">>
      /\ at'[1] = "kernelMain" /\ at'[2] = "run"
      /\ UNCHANGED <<drivers, handlers, activated, status, ctl, queue, mouse, typed,
                     reports, seen, events>>
  BY DEF Running, driverVars
<1>2. Shape' /\ Progress'
  BY <1>1 DEF Shape, Progress, In
<1> QED
  BY <1>1, <1>2 DEF CommandIsKnown, CommandByte, Answers, Silent, Sent, Fresh, In,
     AllActive, InLoop

(* A byte goes to the buffer; nothing but its place has changed.           *)
LEMMA SendPreserves ==
  ASSUME Activation, NEW s \in Source, Send(s),
         UNCHANGED <<driverVars, pciVars>>
  PROVE  Activation'
<1> USE DEF Activation, Send
<1>1. /\ UNCHANGED <<at, status, mouse, typed, reports, seen, events, drivers,
                     handlers, activated>>
      /\ ~ctl.full /\ queue[s] # << >>
  BY DEF driverVars, CanSend
<1>2. /\ ctl' = [command |-> ctl.command, full |-> TRUE, out |-> Head(queue[s]),
                 from |-> s]
      /\ queue' = [r \in Source |-> IF r = s THEN Tail(queue[s]) ELSE queue[r]]
  BY DEF Shape
<1>3. Shape'
  BY <1>1, <1>2 DEF Shape
<1>4. Progress' /\ CommandIsKnown' /\ Fresh'
  BY <1>1, <1>2 DEF Progress, CommandIsKnown, CommandByte, Fresh, In, AllActive, InLoop
<1>5. ASSUME NEW r \in Source, Silent(r)  PROVE Silent(r)'
  BY <1>1, <1>2, <1>5 DEF Silent
<1>6. ASSUME NEW r \in Source, NEW byte, Sent(r, byte),
             \A q \in Source : Silent(q) \/ q = r
      PROVE  Sent(r, byte)'
  <2>1. s = r
    BY <1>1, <1>6 DEF Silent
  <2>2. queue[s] = <<byte>>
    BY <1>1, <1>6, <2>1 DEF Sent
  <2>3. Head(<<byte>>) = byte /\ Tail(<<byte>>) = << >>
    OBVIOUS
  <2> QED
    BY <1>2, <2>1, <2>2, <2>3 DEF Sent
<1>7. Answers'
  <2>1. CASE In("keyboard", {"read"}) \/ In("mouse", {"read"})
    <3>1. \A q \in Source : Silent(q) \/ q = "controller"
      BY <2>1 DEF Answers, In, Steps, InLoop, Source
    <3>2. Sent("controller", Byte(ctl.command, "command"))'
      BY <1>6, <2>1, <3>1, <1>2 DEF Answers, Source
    <3> QED
      BY <1>1, <1>5, <2>1, <3>1, <3>2 DEF Answers, In, AllActive, InLoop, Source
  <2>2. CASE In("mouse", {"ack"})
    <3>1. \A q \in Source : Silent(q) \/ q = "mouse"
      BY <2>2 DEF Answers, In, Steps, InLoop, Source
    <3>2. Sent("mouse", Ack)'
      BY <1>6, <2>2, <3>1 DEF Answers, Source
    <3> QED
      BY <1>1, <1>5, <2>2, <3>1, <3>2 DEF Answers, In, AllActive, InLoop, Source
  <2> QED
    BY <1>1, <1>5, <2>1, <2>2 DEF Answers, In, AllActive, InLoop, Source
<1> QED
  BY <1>3, <1>4, <1>7
-----------------------------------------------------------------------------
(* The bytes the mouse has sent, counted from 0.                           *)
Packet == [x : {{}, {0}}, y : {{}, {0}}, down : SUBSET (0 .. 1)]
ByteOf(packet, part) ==
  IF part = 0 THEN Byte(packet.down \cup {3}, "buttons")
  ELSE IF part = 1 THEN Byte(packet.x, "x") ELSE Byte(packet.y, "y")
MouseByte(packets, j) == ByteOf(packets[(j \div 3) + 1], j % 3)

(* Of those the driver has taken, and the one that may be in the buffer.   *)
Taken == 3 * Len(events) + mouse.offset
Offered == IF ctl.full /\ ctl.from = "mouse" THEN 1 ELSE 0

Data == [bits : SUBSET (0 .. 7), as : {"buttons", "x", "y"}]
EventType ==
  [moved : [x : Data, y : Data], up : SUBSET (0 .. 2), down : SUBSET (0 .. 2)]

Counted ==
  /\ reports \in Seq(Packet) /\ events \in Seq(EventType)
  /\ queue["mouse"] \in Seq(Data)
  /\ mouse.offset \in 0 .. 2
  /\ Taken + Offered + Len(queue["mouse"]) = 3 * Len(reports)

(* Each byte on its way, and each byte of the packet being read, is the    *)
(* one sent at its place.                                                  *)
Stream ==
  /\ Counted
  /\ Offered = 1 => ctl.out = MouseByte(reports, Taken)
  /\ \A i \in 1 .. Len(queue["mouse"]) :
       queue["mouse"][i] = MouseByte(reports, Taken + Offered + i - 1)
  /\ \A i \in 0 .. mouse.offset - 1 :
       mouse.buffer[i] = MouseByte(reports, 3 * Len(events) + i)
  /\ mouse.buttons = IF events = << >> THEN {}
                     ELSE reports[Len(events)].down \cup {3}
  /\ PacketsInOrder

-----------------------------------------------------------------------------
LEMMA ByteOfPacket ==
  ASSUME NEW packets, NEW n \in Nat, NEW part \in 0 .. 2
  PROVE  MouseByte(packets, 3 * n + part) = ByteOf(packets[n + 1], part)
<1>1. (3 * n + part) \div 3 = n /\ (3 * n + part) % 3 = part
  OBVIOUS
<1> QED
  BY <1>1 DEF MouseByte

LEMMA ByteType ==
  ASSUME NEW packet \in Packet, NEW part \in 0 .. 2
  PROVE  ByteOf(packet, part) \in Data
BY DEF Packet, ByteOf, Byte, Data

LEMMA StreamBegins ==
  ASSUME Activation, StartInterrupts
  PROVE  Stream'
<1>1. /\ at = <<"kernelMain", "sti">>
      /\ at[1] = "kernelMain" /\ at[2] = "sti"
      /\ UNCHANGED <<ctl, queue, mouse, reports, events>>
  BY DEF StartInterrupts
<1>2. /\ queue["mouse"] = << >> /\ reports = << >> /\ events = << >>
      /\ mouse.offset = 0 /\ mouse.buttons = {}
      /\ Offered = 0
  BY <1>1 DEF Activation, Answers, Silent, Fresh, In, AllActive, InLoop, Offered
<1>3. PacketsInOrder'
  BY <1>1, <1>2 DEF PacketsInOrder
<1>4. Offered' = 0 /\ Taken' = 0
  BY <1>1, <1>2 DEF Offered, Taken
<1>5. Counted'
  BY <1>1, <1>2, <1>4 DEF Counted
<1> QED
  BY <1>1, <1>2, <1>3, <1>4, <1>5 DEF Stream

LEMMA CountsAreNumbers ==
  ASSUME Counted
  PROVE  /\ Len(events) \in Nat /\ Len(reports) \in Nat
         /\ Len(queue["mouse"]) \in Nat
         /\ Taken \in Nat /\ Offered \in 0 .. 1
BY LenProperties DEF Counted, Taken, Offered

LEMMA SendKeepsStream ==
  ASSUME Activation, Stream, NEW s \in Source, Send(s)
  PROVE  Stream'
<1>0. /\ Len(events) \in Nat /\ Len(reports) \in Nat /\ Len(queue["mouse"]) \in Nat
      /\ Taken \in Nat
  BY CountsAreNumbers DEF Stream
<1>1. /\ UNCHANGED <<mouse, reports, events>>
      /\ ~ctl.full /\ queue[s] # << >>
      /\ ctl'.full = TRUE /\ ctl'.from = s /\ ctl'.out = Head(queue[s])
      /\ queue' = [r \in Source |-> IF r = s THEN Tail(queue[s]) ELSE queue[r]]
  BY DEF Send, CanSend, Activation, Shape
<1>2. Taken' = Taken /\ Offered = 0
  BY <1>1 DEF Taken, Offered
<1>3. PacketsInOrder'
  BY <1>1 DEF Stream, PacketsInOrder, Held
<1>4. CASE s = "mouse"
  <2> DEFINE q == queue["mouse"]
  <2>1. q \in Seq(Data) /\ q # << >>
    BY <1>1, <1>4 DEF Stream, Counted
  <2>2. /\ Head(q) = q[1] /\ Tail(q) \in Seq(Data) /\ Len(Tail(q)) = Len(q) - 1
        /\ \A i \in 1 .. Len(Tail(q)) : Tail(q)[i] = q[i + 1]
        /\ Len(q) \in Nat \ {0}
    BY <2>1, HeadTailProperties, EmptySeq
  <2>3. queue'["mouse"] = Tail(q) /\ Offered' = 1 /\ ctl'.out = q[1]
    BY <1>1, <1>4, <2>2 DEF Offered, Source
  <2>4. Counted'
    <3>1. Taken + 0 + Len(q) = 3 * Len(reports)
      BY <1>2 DEF Stream, Counted
    <3>2. Len(q) \in Nat /\ Len(Tail(q)) = Len(q) - 1
      BY <2>2
    <3> HIDE DEF q
    <3>3. Taken' + Offered' + Len(Tail(q)) = 3 * Len(reports)
      <4>1. \A t, n \in Nat : t + 1 + (n - 1) = t + 0 + n
        OBVIOUS
      <4>2. Taken' + Offered' + Len(Tail(q)) = Taken + 1 + (Len(q) - 1)
        BY <1>2, <2>3, <3>2
      <4> QED
        BY <1>0, <3>1, <3>2, <4>1, <4>2
    <3> QED
      BY <1>1, <2>2, <2>3, <3>3 DEF Stream, Counted
  <2>5. ctl'.out = MouseByte(reports', Taken')
    <3>1. q[1] = MouseByte(reports, Taken + 0 + 1 - 1)
      BY <1>2, <2>2 DEF Stream
    <3> QED
      BY <1>0, <1>1, <1>2, <2>3, <3>1
  <2>6. ASSUME NEW i \in 1 .. Len(Tail(q))
        PROVE  Tail(q)[i] = MouseByte(reports', Taken' + Offered' + i - 1)
    <3>1. q[i + 1] = MouseByte(reports, Taken + 0 + (i + 1) - 1)
      BY <1>2, <2>2 DEF Stream
    <3>2. Taken' + Offered' + i - 1 = Taken + 0 + (i + 1) - 1
      BY <1>0, <1>2, <2>2, <2>3
    <3> QED
      BY <1>1, <2>2, <3>1, <3>2
  <2> HIDE DEF q
  <2> QED
    BY <1>1, <1>3, <2>3, <2>4, <2>5, <2>6 DEF Stream
<1>5. CASE s # "mouse"
  <2>1. queue'["mouse"] = queue["mouse"] /\ Offered' = 0
    BY <1>1, <1>5 DEF Offered, Source
  <2>2. Counted'
    BY <1>1, <1>2, <2>1 DEF Stream, Counted
  <2>3. \A i \in 1 .. Len(queue'["mouse"]) :
          queue'["mouse"][i] = MouseByte(reports', Taken' + Offered' + i - 1)
    BY <1>1, <1>2, <2>1 DEF Stream
  <2>4. Offered' # 1
    BY <2>1
  <2> QED
    BY <1>1, <1>3, <2>2, <2>3, <2>4 DEF Stream
<1> QED
  BY <1>4, <1>5

LEMMA PressKeyKeepsStream ==
  ASSUME Activation, Stream, NEW k \in Key, PressKey(k)
  PROVE  Stream'
<1>1. /\ UNCHANGED <<mouse, ctl, reports, events>>
      /\ queue'["mouse"] = queue["mouse"]
  BY DEF PressKey, Activation, Shape, Source
<1> QED
  BY <1>1 DEF Stream, Counted, Taken, Offered, PacketsInOrder, Held

(* A new packet leaves the bytes of the earlier ones as they were.         *)
LEMMA EarlierBytes ==
  ASSUME NEW packets \in Seq(Packet), NEW packet \in Packet,
         NEW j \in 0 .. (3 * Len(packets) - 1)
  PROVE  MouseByte(Append(packets, packet), j) = MouseByte(packets, j)
<1>1. Len(packets) \in Nat
  BY LenProperties
<1>2. (j \div 3) + 1 \in 1 .. Len(packets)
  BY <1>1
<1>3. Append(packets, packet)[(j \div 3) + 1] = packets[(j \div 3) + 1]
  BY <1>2, AppendProperties
<1> QED
  BY <1>3 DEF MouseByte

LEMMA NewBytes ==
  ASSUME NEW packets \in Seq(Packet), NEW packet \in Packet, NEW part \in 0 .. 2
  PROVE  MouseByte(Append(packets, packet), 3 * Len(packets) + part)
           = ByteOf(packet, part)
<1>1. Len(packets) \in Nat
  BY LenProperties
<1>2. Append(packets, packet)[Len(packets) + 1] = packet
  BY AppendProperties
<1> QED
  BY <1>1, <1>2, ByteOfPacket

LEMMA PlacesOfBytes ==
  ASSUME NEW taken \in Nat, NEW offered \in 0 .. 1, NEW queued \in Nat,
         NEW sent \in Nat, taken + offered + queued = 3 * sent
  PROVE  /\ taken + offered + (queued + 3) = 3 * (sent + 1)
         /\ offered = 1 => taken \in 0 .. (3 * sent - 1)
         /\ \A i \in 1 .. queued : taken + offered + i - 1 \in 0 .. (3 * sent - 1)
         /\ \A i \in 1 .. queued + 3 :
              \/ i \in 1 .. queued
              \/ /\ ~(i <= queued) /\ i - queued - 1 \in 0 .. 2
                 /\ i - queued = (i - queued - 1) + 1
                 /\ taken + offered + i - 1 = 3 * sent + (i - queued - 1)
OBVIOUS

LEMMA ReportKeepsStream ==
  ASSUME Activation, Stream, NEW x \in {{}, {0}}, NEW y \in {{}, {0}},
         NEW down \in SUBSET (0 .. 1), Report(x, y, down)
  PROVE  Stream'
<1> DEFINE packet == [x |-> x, y |-> y, down |-> down]
           q == queue["mouse"]
           new == <<ByteOf(packet, 0), ByteOf(packet, 1), ByteOf(packet, 2)>>
           joined == q \o new
<1>1. /\ UNCHANGED <<mouse, ctl, events>>
      /\ reports' = Append(reports, packet)
      /\ queue'["mouse"] = joined
  BY DEF Report, Activation, Shape, Source, ByteOf
<1>2. packet \in Packet /\ reports \in Seq(Packet) /\ q \in Seq(Data)
  BY DEF Packet, Stream, Counted
<1>3. reports' \in Seq(Packet) /\ \A i \in 1 .. Len(reports) : reports'[i] = reports[i]
  BY <1>1, <1>2, AppendProperties
<1>4. new \in Seq(Data) /\ Len(new) = 3
  <2>1. /\ ByteOf(packet, 0) \in Data /\ ByteOf(packet, 1) \in Data
        /\ ByteOf(packet, 2) \in Data
    BY <1>2, ByteType
  <2> QED
    BY <2>1
<1>5. new[1] = ByteOf(packet, 0) /\ new[2] = ByteOf(packet, 1) /\ new[3] = ByteOf(packet, 2)
  OBVIOUS
<1> HIDE DEF new
<1>6. /\ joined \in Seq(Data)
      /\ \A i \in 1 .. Len(q) + 3 :
           joined[i] = IF i <= Len(q) THEN q[i] ELSE new[i - Len(q)]
  <2>1. /\ joined \in Seq(Data)
        /\ \A i \in 1 .. Len(q) + Len(new) :
             joined[i] = IF i <= Len(q) THEN q[i] ELSE new[i - Len(q)]
    BY <1>2, <1>4, ConcatProperties
  <2> QED
    BY <1>4, <2>1
<1>7. /\ Len(joined) = Len(q) + 3 /\ Len(reports') = Len(reports) + 1
      /\ Taken' = Taken /\ Offered' = Offered
  <2>1. Len(joined) = Len(q) + Len(new)
    BY <1>2, <1>4, ConcatProperties
  <2>2. Len(reports') = Len(reports) + 1
    BY <1>1, <1>2, AppendProperties
  <2>3. Taken' = Taken /\ Offered' = Offered
    BY <1>1 DEF Taken, Offered
  <2> QED
    BY <1>4, <2>1, <2>2, <2>3
<1> HIDE DEF q, joined, packet
<1>8. /\ Len(q) \in Nat /\ Len(reports) \in Nat /\ Len(events) \in Nat
      /\ Taken \in Nat /\ Offered \in 0 .. 1 /\ mouse.offset \in 0 .. 2
      /\ Taken + Offered + Len(q) = 3 * Len(reports)
      /\ Len(events) <= Len(reports)
  BY CountsAreNumbers DEF Stream, Counted, q, PacketsInOrder
<1>9. \A j \in 0 .. (3 * Len(reports) - 1) :
        MouseByte(reports', j) = MouseByte(reports, j)
  BY <1>1, <1>2, EarlierBytes
<1>10. Counted'
  <2>1. Taken + Offered + (Len(q) + 3) = 3 * (Len(reports) + 1)
    BY <1>8, PlacesOfBytes
  <2>2. Taken' + Offered' + Len(joined) = 3 * Len(reports')
    BY <1>7, <2>1
  <2> QED
    BY <1>1, <1>3, <1>6, <2>2 DEF Stream, Counted
<1>11. Offered' = 1 => ctl'.out = MouseByte(reports', Taken')
  <2> SUFFICES ASSUME Offered' = 1  PROVE ctl.out = MouseByte(reports', Taken)
    BY <1>1, <1>7
  <2>1. Offered = 1
    BY <1>7
  <2>2. Taken \in 0 .. (3 * Len(reports) - 1)
    BY <1>8, <2>1, PlacesOfBytes
  <2>3. ctl.out = MouseByte(reports, Taken)
    BY <2>1 DEF Stream
  <2> QED
    BY <1>9, <2>2, <2>3
<1>12. ASSUME NEW i \in 1 .. Len(joined)
       PROVE  joined[i] = MouseByte(reports', Taken' + Offered' + i - 1)
  <2> DEFINE part == i - Len(q) - 1
  <2>1. i \in 1 .. Len(q) + 3
    BY <1>7
  <2>2. \/ i \in 1 .. Len(q)
        \/ /\ ~(i <= Len(q)) /\ part \in 0 .. 2
           /\ i - Len(q) = part + 1
           /\ Taken + Offered + i - 1 = 3 * Len(reports) + part
    BY <1>8, <2>1, PlacesOfBytes
  <2> HIDE DEF part
  <2>3. CASE i \in 1 .. Len(q)
    <3>1. q[i] = MouseByte(reports, Taken + Offered + i - 1)
      BY <2>3 DEF Stream, q
    <3>2. Taken + Offered + i - 1 \in 0 .. (3 * Len(reports) - 1)
      BY <1>8, <2>3, PlacesOfBytes
    <3>3. joined[i] = q[i]
      BY <1>6, <2>1, <2>3
    <3> QED
      BY <3>1, <3>2, <3>3, <1>7, <1>9
  <2>4. CASE /\ ~(i <= Len(q)) /\ part \in 0 .. 2
             /\ i - Len(q) = part + 1
             /\ Taken + Offered + i - 1 = 3 * Len(reports) + part
    <3>1. MouseByte(reports', 3 * Len(reports) + part) = ByteOf(packet, part)
      BY <1>1, <1>2, <2>4, NewBytes
    <3>2. new[part + 1] = ByteOf(packet, part)
      BY <2>4, <1>5
    <3>3. joined[i] = new[part + 1]
      BY <1>6, <2>1, <2>4
    <3> QED
      BY <3>1, <3>2, <3>3, <2>4, <1>7
  <2> QED
    BY <2>2, <2>3, <2>4
<1>13. ASSUME NEW i \in 0 .. mouse.offset - 1
       PROVE  mouse.buffer[i] = MouseByte(reports', 3 * Len(events) + i)
  <2>1. 3 * Len(events) + mouse.offset <= 3 * Len(reports)
    <3>1. \A t, n, r \in Nat : \A o \in 0 .. 1 : t + o + n = 3 * r => t <= 3 * r
      OBVIOUS
    <3> QED
      BY <1>8, <3>1 DEF Taken
  <2>2. 3 * Len(events) + i \in 0 .. (3 * Len(reports) - 1)
    <3>1. \A e, r \in Nat, o \in 0 .. 2 : \A k \in 0 .. o - 1 :
            3 * e + o <= 3 * r => 3 * e + k \in 0 .. (3 * r - 1)
      OBVIOUS
    <3> QED
      BY <1>8, <2>1, <3>1
  <2>3. mouse.buffer[i] = MouseByte(reports, 3 * Len(events) + i)
    BY DEF Stream
  <2> QED
    BY <1>9, <2>2, <2>3
<1>14. mouse'.buttons = IF events' = << >> THEN {}
                        ELSE reports'[Len(events')].down \cup {3}
  <2>1. events # << >> => Len(events) \in 1 .. Len(reports)
    BY <1>8, EmptySeq DEF Stream, Counted
  <2> QED
    BY <1>1, <1>3, <2>1 DEF Stream
<1>15. PacketsInOrder'
  <2>1. DOMAIN events = 1 .. Len(events)
    BY LenProperties DEF Stream, Counted
  <2>2. \A i \in DOMAIN events :
          i \in 1 .. Len(reports) /\ (i - 1 = 0 \/ i - 1 \in 1 .. Len(reports))
    BY <1>8, <2>1
  <2>3. Len(events) <= Len(reports')
    BY <1>7, <1>8
  <2> QED
    BY <1>1, <1>3, <2>2, <2>3 DEF Stream, PacketsInOrder, Held
<1> QED
  BY <1>1, <1>10, <1>11, <1>12, <1>13, <1>14, <1>15 DEF Stream

LEMMA KeyboardInterruptKeepsStream ==
  ASSUME Activation, Stream, KeyboardInterrupt
  PROVE  Stream'
<1>1. UNCHANGED <<queue, mouse, reports, events>> /\ ctl'.full = FALSE
  BY DEF KeyboardInterrupt, Empty, Activation, Shape
<1>2. ~(ctl.full /\ ctl.from = "mouse")
  BY BootAssumption DEF KeyboardInterrupt, Interrupted, Requested, VectorOf,
     Activation, Progress
<1>3. Offered = 0 /\ Offered' = 0
  BY <1>1, <1>2 DEF Offered
<1> QED
  BY <1>1, <1>3 DEF Stream, Counted, Taken, PacketsInOrder, Held

(* The byte that is taken is the one the driver's offset says it is, of    *)
(* the packet after those reported.                                        *)
LEMMA ByteTaken ==
  ASSUME Activation, Stream, MouseInterrupt
  PROVE  /\ Offered = 1 /\ Offered' = 0
         /\ Len(events) + 1 \in 1 .. Len(reports)
         /\ ctl.out = ByteOf(reports[Len(events) + 1], mouse.offset)
<1>1. Offered = 1 /\ Offered' = 0
  BY DEF MouseInterrupt, Interrupted, Requested, Offered, Empty, Activation, Shape
<1>2. /\ Len(events) \in Nat /\ Len(reports) \in Nat /\ Len(queue["mouse"]) \in Nat
      /\ mouse.offset \in 0 .. 2
      /\ 3 * Len(events) + mouse.offset + 1 + Len(queue["mouse"]) = 3 * Len(reports)
  BY <1>1, CountsAreNumbers DEF Stream, Counted, Taken
<1>3. Len(events) + 1 \in 1 .. Len(reports)
  <2>1. \A e, r, n \in Nat, o \in 0 .. 2 :
          3 * e + o + 1 + n = 3 * r => e + 1 \in 1 .. r
    OBVIOUS
  <2> QED
    BY <1>2, <2>1
<1>4. ctl.out = MouseByte(reports, 3 * Len(events) + mouse.offset)
  BY <1>1 DEF Stream, Taken
<1> QED
  BY <1>1, <1>2, <1>3, <1>4, ByteOfPacket

(* The driver's buffer with that byte in it.                               *)
Filled == [mouse.buffer EXCEPT ![mouse.offset] = ctl.out]

LEMMA BytesFilled ==
  ASSUME Activation, Stream, MouseInterrupt
  PROVE  \A i \in 0 .. mouse.offset :
           Filled[i] = ByteOf(reports[Len(events) + 1], i)
<1>1. mouse.offset \in 0 .. 2 /\ Len(events) \in Nat
  BY CountsAreNumbers DEF Stream, Counted
<1>2. mouse.buffer = [i \in 0 .. 2 |-> mouse.buffer[i]]
  BY DEF Activation, Shape
<1>3. Filled = [i \in 0 .. 2 |-> IF i = mouse.offset THEN ctl.out ELSE mouse.buffer[i]]
  BY <1>2 DEF Filled
<1> TAKE i \in 0 .. mouse.offset
<1>4. i \in 0 .. 2
  BY <1>1
<1>5. CASE i = mouse.offset
  BY <1>3, <1>4, <1>5, ByteTaken
<1>6. CASE i # mouse.offset
  <2>1. i \in 0 .. mouse.offset - 1
    BY <1>1, <1>6
  <2>2. mouse.buffer[i] = MouseByte(reports, 3 * Len(events) + i)
    BY <2>1 DEF Stream
  <2> QED
    BY <1>1, <1>3, <1>4, <1>6, <2>2, ByteOfPacket
<1> QED
  BY <1>5, <1>6

LEMMA MouseInterruptKeepsStream ==
  ASSUME Activation, Stream, MouseInterrupt
  PROVE  Stream'
<1> DEFINE n == Len(events)
           packet == reports[n + 1]
<1>1. /\ UNCHANGED <<queue, reports>>
      /\ mouse' = [buffer |-> Filled, offset |-> NextOffset(mouse.offset),
                   buttons |-> IF LastByte(mouse.offset)
                               THEN Filled[0].bits ELSE mouse.buttons]
      /\ events' = IF LastByte(mouse.offset)
                   THEN Append(events, Told(Filled)) ELSE events
  BY DEF MouseInterrupt, Filled
<1>2. /\ Offered = 1 /\ Offered' = 0 /\ n + 1 \in 1 .. Len(reports)
      /\ \A i \in 0 .. mouse.offset : Filled[i] = ByteOf(packet, i)
  BY ByteTaken, BytesFilled
<1>3. /\ Len(reports) \in Nat /\ n \in Nat /\ Len(queue["mouse"]) \in Nat
      /\ Taken \in Nat /\ mouse.offset \in 0 .. 2
      /\ Taken = 3 * n + mouse.offset
      /\ reports \in Seq(Packet) /\ events \in Seq(EventType)
      /\ queue["mouse"] \in Seq(Data)
      /\ Taken + Offered + Len(queue["mouse"]) = 3 * Len(reports)
  BY CountsAreNumbers DEF Stream, Counted, Taken
<1>4. packet \in Packet
  BY <1>2, <1>3, ElementOfSeq
<1>5. CASE ~LastByte(mouse.offset)
  <2>1. /\ events' = events /\ mouse'.offset = mouse.offset + 1
        /\ mouse.offset \in 0 .. 1
        /\ mouse'.buffer = Filled /\ mouse'.buttons = mouse.buttons
    BY <1>1, <1>3, <1>5 DEF NextOffset, LastByte
  <2>2. Taken' = Taken + 1
    BY <1>3, <2>1 DEF Taken
  <2>3. Taken' + Offered' = Taken + Offered
    BY <1>2, <1>3, <2>2
  <2>4. Counted'
    BY <1>1, <1>3, <2>1, <2>3 DEF Counted
  <2>5. \A i \in 0 .. mouse'.offset - 1 :
          mouse'.buffer[i] = MouseByte(reports', 3 * Len(events') + i)
    <3> TAKE i \in 0 .. mouse'.offset - 1
    <3>1. i \in 0 .. mouse.offset /\ i \in 0 .. 2
      BY <1>3, <2>1
    <3>2. mouse'.buffer[i] = Filled[i]
      BY <2>1
    <3>3. Filled[i] = ByteOf(packet, i)
      BY <1>2, <3>1
    <3>4. MouseByte(reports, 3 * n + i) = ByteOf(packet, i)
      BY <1>3, <3>1, ByteOfPacket
    <3>5. reports' = reports /\ Len(events') = n
      BY <1>1, <2>1
    <3> QED
      BY <3>2, <3>3, <3>4, <3>5, Zenon
  <2>6. PacketsInOrder'
    BY <1>1, <2>1 DEF Stream, PacketsInOrder, Held
  <2>7. \A i \in 1 .. Len(queue'["mouse"]) :
          queue'["mouse"][i] = MouseByte(reports', Taken' + Offered' + i - 1)
    BY <1>1, <2>3 DEF Stream
  <2>8. Offered' # 1
    BY <1>2
  <2> QED
    BY <1>1, <2>1, <2>4, <2>5, <2>6, <2>7, <2>8 DEF Stream
<1>6. CASE LastByte(mouse.offset)
  <2> DEFINE told == Told(Filled)
  <2>1. /\ mouse.offset = 2 /\ mouse'.offset = 0
        /\ events' = Append(events, told)
        /\ mouse'.buttons = Filled[0].bits
    BY <1>1, <1>6 DEF NextOffset, LastByte
  <2>2. /\ Filled[0] = Byte(packet.down \cup {3}, "buttons")
        /\ Filled[1] = Byte(packet.x, "x") /\ Filled[2] = Byte(packet.y, "y")
    <3>1. 0 \in 0 .. 2 /\ 1 \in 0 .. 2 /\ 2 \in 0 .. 2
      OBVIOUS
    <3> QED
      BY <1>2, <2>1, <3>1 DEF ByteOf
  <2>3. /\ told.moved.x = Byte(packet.x, "x") /\ told.moved.y = Byte(packet.y, "y")
        /\ told.up = (mouse.buttons \ (packet.down \cup {3})) \cap (0 .. 2)
        /\ told.down = ((packet.down \cup {3}) \ mouse.buttons) \cap (0 .. 2)
        /\ told = [moved |-> [x |-> Byte(packet.x, "x"), y |-> Byte(packet.y, "y")],
                   up |-> told.up, down |-> told.down]
    BY <2>2 DEF Told, Byte
  <2>4. told \in EventType
    BY <1>4, <2>3 DEF EventType, Data, Byte, Packet
  <2> HIDE DEF told
  <2>5. /\ events' \in Seq(EventType) /\ Len(events') = n + 1
        /\ \A i \in 1 .. n : events'[i] = events[i]
        /\ events'[n + 1] = told
    BY <1>3, <2>1, <2>4, AppendProperties
  <2>6. Taken' = Taken + 1
    BY <1>3, <2>1, <2>5 DEF Taken
  <2>7. Taken' + Offered' = Taken + Offered
    BY <1>2, <1>3, <2>6
  <2>8. Counted'
    BY <1>1, <1>3, <2>1, <2>5, <2>7 DEF Counted
  <2>9. mouse'.buttons = packet.down \cup {3}
    BY <2>1, <2>2 DEF Byte
  <2>10. events' # << >>
    BY <1>3, <2>5, EmptySeq
  <2>11. mouse.buttons \cap (0 .. 2) = Held(n) /\ Held(n) \subseteq 0 .. 1
    <3>1. CASE events = << >>
      BY <3>1 DEF Stream, Held
    <3>2. CASE events # << >>
      <4>1. n \in 1 .. Len(reports)
        BY <1>2, <1>3, <3>2, EmptySeq
      <4>2. reports[n] \in Packet
        BY <1>3, <4>1, ElementOfSeq
      <4>3. mouse.buttons = reports[n].down \cup {3} /\ Held(n) = reports[n].down
        BY <3>2, <4>1 DEF Stream, Held
      <4>4. reports[n].down \subseteq 0 .. 1
        BY <4>2 DEF Packet
      <4> QED
        BY <4>3, <4>4
    <3> QED
      BY <3>1, <3>2
  <2>12. packet.down \subseteq 0 .. 1 /\ Held(n + 1) = packet.down
    BY <1>3, <1>4 DEF Packet, Held
  <2>13. told.up = Held(n) \ Held(n + 1) /\ told.down = Held(n + 1) \ Held(n)
    BY <2>3, <2>11, <2>12
  <2>14. PacketsInOrder'
    <3>1. DOMAIN events' = 1 .. n + 1 /\ DOMAIN events = 1 .. n
      BY <1>3, <2>5, LenProperties
    <3>2. Len(events') <= Len(reports')
      BY <1>1, <1>2, <1>3, <2>5
    <3> SUFFICES ASSUME NEW i \in 1 .. n + 1
                 PROVE  /\ events'[i].moved.x.bits = reports[i].x
                        /\ events'[i].moved.y.bits = reports[i].y
                        /\ events'[i].up = Held(i - 1) \ Held(i)
                        /\ events'[i].down = Held(i) \ Held(i - 1)
      BY <1>1, <3>1, <3>2 DEF PacketsInOrder, Held
    <3>3. CASE i = n + 1
      <4>1. i - 1 = n
        BY <1>3, <3>3
      <4> QED
        BY <2>3, <2>5, <2>13, <3>3, <4>1 DEF Byte
    <3>4. CASE i \in 1 .. n
      BY <2>5, <3>1, <3>4 DEF Stream, PacketsInOrder
    <3> QED
      BY <1>3, <3>3, <3>4
  <2>15. \A i \in 1 .. Len(queue'["mouse"]) :
           queue'["mouse"][i] = MouseByte(reports', Taken' + Offered' + i - 1)
    BY <1>1, <2>7 DEF Stream
  <2> QED
    BY <1>1, <1>2, <2>1, <2>5, <2>8, <2>9, <2>10, <2>14, <2>15 DEF Stream
<1> QED
  BY <1>5, <1>6
-----------------------------------------------------------------------------
(* The bytes of the keyboard, counted from 0: two for every key, and bit 7 *)
(* tells a release.                                                        *)
StrokeByte(keys, j) ==
  IF j % 2 = 0 THEN keys[(j \div 2) + 1] ELSE keys[(j \div 2) + 1] \cup {7}

(* The one that may be in the buffer, and those the driver has taken.      *)
KeyOffered == IF ctl.full /\ ctl.from = "keyboard" THEN 1 ELSE 0
KeysTaken == (2 * Len(typed)) - (KeyOffered + Len(queue["keyboard"]))

KeyData == [bits : SUBSET (0 .. 7), as : {"pressed", "released"}]

(* Each byte on its way is the one sent at its place, and the handler has  *)
(* been told of as many keys as there are known ones among those whose     *)
(* press was taken.                                                        *)
KeyStream ==
  /\ queue["keyboard"] \in Seq(KeyData)
  /\ KeysTaken \in Nat
  /\ KeyOffered = 1 => ctl.out.bits = StrokeByte(typed, KeysTaken)
  /\ \A i \in 1 .. Len(queue["keyboard"]) :
       queue["keyboard"][i].bits
         = StrokeByte(typed, KeysTaken + KeyOffered + i - 1)
  /\ Len(seen) = KnownAmong(typed, (KeysTaken + 1) \div 2)
  /\ KeysInOrder

LEMMA NoneKnown ==
  ASSUME NEW keys
  PROVE  KnownAmong(keys, 0) = 0
<1>1. {j \in 1 .. 0 : keys[j] \in Known} = {}
  OBVIOUS
<1> QED
  BY <1>1, FS_EmptySet DEF KnownAmong

(* One key more.                                                           *)
LEMMA KnownGrows ==
  ASSUME NEW keys, NEW n \in Nat
  PROVE  /\ KnownAmong(keys, n) \in Nat
         /\ KnownAmong(keys, n + 1)
              = IF keys[n + 1] \in Known THEN KnownAmong(keys, n) + 1
                                        ELSE KnownAmong(keys, n)
<1> DEFINE S(m) == {j \in 1 .. m : keys[j] \in Known}
<1>1. IsFiniteSet(S(n)) /\ Cardinality(S(n)) \in Nat
  <2>1. IsFiniteSet(1 .. n)
    BY FS_Interval
  <2>2. S(n) \subseteq 1 .. n
    OBVIOUS
  <2>3. IsFiniteSet(S(n))
    BY <2>1, <2>2, FS_Subset
  <2> QED
    BY <2>3, FS_CardinalityType
<1>2. S(n + 1) = IF keys[n + 1] \in Known THEN S(n) \cup {n + 1} ELSE S(n)
  OBVIOUS
<1>3. n + 1 \notin S(n)
  OBVIOUS
<1>4. Cardinality(S(n) \cup {n + 1}) = Cardinality(S(n)) + 1
  BY <1>1, <1>3, FS_AddElement
<1>5. /\ KnownAmong(keys, n) = Cardinality(S(n))
      /\ KnownAmong(keys, n + 1) = Cardinality(S(n + 1))
  BY DEF KnownAmong
<1> HIDE DEF S
<1> QED
  BY <1>1, <1>2, <1>4, <1>5

(* The presses among the bytes taken.                                      *)
LEMMA HalfOfBytes ==
  ASSUME NEW n \in Nat
  PROVE  /\ (n + 1) \div 2 \in Nat
         /\ n % 2 = 0 => /\ (n + 1) \div 2 = n \div 2
                         /\ ((n + 1) + 1) \div 2 = (n \div 2) + 1
         /\ n % 2 # 0 => ((n + 1) + 1) \div 2 = (n + 1) \div 2
OBVIOUS

LEMMA KeyNumbers ==
  ASSUME Activation, KeyStream
  PROVE  /\ Len(typed) \in Nat /\ Len(seen) \in Nat
         /\ Len(queue["keyboard"]) \in Nat /\ KeysTaken \in Nat
         /\ KeyOffered \in 0 .. 1
         /\ KeysTaken + KeyOffered + Len(queue["keyboard"]) = 2 * Len(typed)
<1>1. /\ Len(typed) \in Nat /\ Len(seen) \in Nat
      /\ Len(queue["keyboard"]) \in Nat /\ KeysTaken \in Nat
      /\ KeyOffered \in 0 .. 1
  BY LenProperties DEF Activation, Shape, KeyStream, KeyOffered
<1>2. \A t, k, o, q \in Nat : t = (2 * k) - (o + q) => t + o + q = 2 * k
  OBVIOUS
<1> QED
  BY <1>1, <1>2 DEF KeysTaken

(* Before interrupts are turned on, nothing of the keyboard is left.       *)
LEMMA KeyStreamBegins ==
  ASSUME Activation, StartInterrupts
  PROVE  KeyStream'
<1>1. /\ at = <<"kernelMain", "sti">>
      /\ at[1] = "kernelMain" /\ at[2] = "sti"
      /\ UNCHANGED <<ctl, queue, typed, seen>>
  BY DEF StartInterrupts
<1>2. /\ queue["keyboard"] = << >> /\ typed = << >> /\ seen = << >>
      /\ KeyOffered = 0
  BY <1>1 DEF Activation, Answers, Silent, Fresh, In, AllActive, InLoop, KeyOffered
<1>3. KeyOffered' = 0 /\ KeysTaken' = 0
  BY <1>1, <1>2 DEF KeyOffered, KeysTaken
<1>4. (0 + 1) \div 2 = 0
  OBVIOUS
<1>5. Len(seen') = KnownAmong(typed', (KeysTaken' + 1) \div 2)
  BY <1>1, <1>2, <1>3, <1>4, NoneKnown
<1>6. KeysInOrder'
  BY <1>1, <1>2 DEF KeysInOrder
<1> QED
  BY <1>1, <1>2, <1>3, <1>5, <1>6 DEF KeyStream

(* Nothing that leaves the bytes of the keyboard alone matters.            *)
LEMMA OthersKeepKeys ==
  ASSUME KeyStream, UNCHANGED <<typed, seen>>, queue'["keyboard"] = queue["keyboard"],
         KeyOffered = 0, KeyOffered' = 0
  PROVE  KeyStream'
<1>1. KeysTaken' = KeysTaken
  BY DEF KeysTaken
<1>2. KeysInOrder' = KeysInOrder
  BY DEF KeysInOrder
<1> QED
  BY <1>1, <1>2 DEF KeyStream

LEMMA SendKeepsKeys ==
  ASSUME Activation, KeyStream, NEW s \in Source, Send(s)
  PROVE  KeyStream'
<1> DEFINE q == queue["keyboard"]
<1>1. /\ UNCHANGED <<typed, seen>>
      /\ ~ctl.full /\ queue[s] # << >>
      /\ ctl'.full = TRUE /\ ctl'.from = s /\ ctl'.out = Head(queue[s])
      /\ queue' = [r \in Source |-> IF r = s THEN Tail(queue[s]) ELSE queue[r]]
  BY DEF Send, CanSend, Activation, Shape
<1>2. KeyOffered = 0
  BY <1>1 DEF KeyOffered
<1>3. CASE s = "keyboard"
  <2>1. q \in Seq(KeyData) /\ q # << >>
    BY <1>1, <1>3 DEF KeyStream
  <2>2. /\ Head(q) = q[1] /\ Tail(q) \in Seq(KeyData) /\ Len(Tail(q)) = Len(q) - 1
        /\ \A i \in 1 .. Len(Tail(q)) : Tail(q)[i] = q[i + 1]
        /\ Len(q) \in Nat \ {0}
    BY <2>1, HeadTailProperties, EmptySeq
  <2>3. queue'["keyboard"] = Tail(q) /\ KeyOffered' = 1 /\ ctl'.out = q[1]
    BY <1>1, <1>3, <2>2 DEF KeyOffered, Source
  <2>4. KeysTaken' = KeysTaken
    <3>1. \A k, n \in Nat : k - (1 + (n - 1)) = k - (0 + n)
      OBVIOUS
    <3>2. 2 * Len(typed) \in Nat
      BY KeyNumbers
    <3> HIDE DEF q
    <3>3. KeysTaken' = (2 * Len(typed)) - (1 + (Len(q) - 1))
      BY <1>1, <2>2, <2>3 DEF KeysTaken
    <3>4. KeysTaken = (2 * Len(typed)) - (0 + Len(q))
      BY <1>2 DEF KeysTaken, q
    <3> QED
      BY <2>2, <3>1, <3>2, <3>3, <3>4
  <2>5. KeysTaken \in Nat
    BY DEF KeyStream
  <2>6. ctl'.out.bits = StrokeByte(typed', KeysTaken')
    <3>1. q[1].bits = StrokeByte(typed, KeysTaken + 0 + 1 - 1)
      BY <1>2, <2>2 DEF KeyStream
    <3> QED
      BY <1>1, <2>3, <2>4, <2>5, <3>1
  <2>7. ASSUME NEW i \in 1 .. Len(Tail(q))
        PROVE  Tail(q)[i].bits = StrokeByte(typed', KeysTaken' + KeyOffered' + i - 1)
    <3>1. q[i + 1].bits = StrokeByte(typed, KeysTaken + 0 + (i + 1) - 1)
      BY <1>2, <2>2 DEF KeyStream
    <3>2. KeysTaken' + KeyOffered' + i - 1 = KeysTaken + 0 + (i + 1) - 1
      BY <2>2, <2>3, <2>4, <2>5
    <3> QED
      BY <1>1, <2>2, <3>1, <3>2
  <2>8. KeysInOrder' = KeysInOrder
    BY <1>1 DEF KeysInOrder
  <2> HIDE DEF q
  <2> QED
    BY <1>1, <2>2, <2>3, <2>4, <2>6, <2>7, <2>8 DEF KeyStream
<1>4. CASE s # "keyboard"
  <2>1. queue'["keyboard"] = queue["keyboard"] /\ KeyOffered' = 0
    BY <1>1, <1>4 DEF KeyOffered, Source
  <2> QED
    BY <1>1, <1>2, <2>1, OthersKeepKeys
<1> QED
  BY <1>3, <1>4

LEMMA ReportKeepsKeys ==
  ASSUME Activation, KeyStream, NEW x \in {{}, {0}}, NEW y \in {{}, {0}},
         NEW down \in SUBSET (0 .. 1), Report(x, y, down)
  PROVE  KeyStream'
<1>1. /\ UNCHANGED <<typed, seen, ctl>>
      /\ queue'["keyboard"] = queue["keyboard"]
  BY DEF Report, Activation, Shape, Source
<1>2. KeysTaken' = KeysTaken /\ KeyOffered' = KeyOffered
  BY <1>1 DEF KeysTaken, KeyOffered
<1>3. KeysInOrder' = KeysInOrder
  BY <1>1 DEF KeysInOrder
<1> QED
  BY <1>1, <1>2, <1>3 DEF KeyStream

LEMMA MouseInterruptKeepsKeys ==
  ASSUME Activation, KeyStream, MouseInterrupt
  PROVE  KeyStream'
<1>1. /\ UNCHANGED <<queue, typed, seen>>
      /\ ctl.from = "mouse" /\ ctl'.full = FALSE
  BY DEF MouseInterrupt, Empty, Activation, Shape
<1>2. KeyOffered = 0 /\ KeyOffered' = 0
  BY <1>1 DEF KeyOffered
<1> QED
  BY <1>1, <1>2, OthersKeepKeys

(* A key more leaves the bytes of the earlier ones, and what is known of   *)
(* them, as they were.                                                     *)
LEMMA EarlierStrokes ==
  ASSUME NEW keys \in Seq(Key), NEW k \in Key
  PROVE  /\ \A j \in 0 .. (2 * Len(keys)) - 1 :
              StrokeByte(Append(keys, k), j) = StrokeByte(keys, j)
         /\ StrokeByte(Append(keys, k), 2 * Len(keys)) = k
         /\ StrokeByte(Append(keys, k), (2 * Len(keys)) + 1) = k \cup {7}
         /\ \A n \in 0 .. Len(keys) :
              KnownAmong(Append(keys, k), n) = KnownAmong(keys, n)
<1> DEFINE more == Append(keys, k)
           l == Len(keys)
<1>1. /\ l \in Nat /\ more[l + 1] = k
      /\ \A n \in 1 .. l : more[n] = keys[n]
  BY LenProperties, AppendProperties
<1> HIDE DEF more, l
<1>2. /\ \A j \in 0 .. (2 * l) - 1 : (j \div 2) + 1 \in 1 .. l
      /\ (2 * l) \div 2 = l /\ (2 * l) % 2 = 0
      /\ ((2 * l) + 1) \div 2 = l /\ ((2 * l) + 1) % 2 = 1
  BY <1>1
<1>3. \A j \in 0 .. (2 * l) - 1 : StrokeByte(more, j) = StrokeByte(keys, j)
  BY <1>1, <1>2 DEF StrokeByte
<1>4. StrokeByte(more, 2 * l) = k /\ StrokeByte(more, (2 * l) + 1) = k \cup {7}
  BY <1>1, <1>2 DEF StrokeByte
<1>5. ASSUME NEW n \in 0 .. l
      PROVE  KnownAmong(more, n) = KnownAmong(keys, n)
  <2>1. {j \in 1 .. n : more[j] \in Known} = {j \in 1 .. n : keys[j] \in Known}
    BY <1>1
  <2> QED
    BY <2>1 DEF KnownAmong
<1> QED
  BY <1>3, <1>4, <1>5 DEF more, l

LEMMA TwoMore ==
  ASSUME NEW S, NEW s \in Seq(S), NEW t \in Seq(S), Len(t) = 2
  PROVE  /\ s \o t \in Seq(S) /\ Len(s \o t) = Len(s) + 2
         /\ \A i \in 1 .. Len(s) + 2 :
              (s \o t)[i] = IF i <= Len(s) THEN s[i] ELSE t[i - Len(s)]
<1>1. \A i \in 1 .. Len(s) + Len(t) :
        (s \o t)[i] = IF i <= Len(s) THEN s[i] ELSE t[i - Len(s)]
  BY ConcatProperties, Zenon
<1>2. s \o t \in Seq(S) /\ Len(s \o t) = Len(s) + Len(t)
  BY ConcatProperties, Zenon
<1> QED
  BY <1>1, <1>2, Zenon

LEMMA PressKeyKeepsKeys ==
  ASSUME Activation, KeyStream, NEW k \in Key, PressKey(k)
  PROVE  KeyStream'
<1> DEFINE q == queue["keyboard"]
           new == Stroke(k)
           l == Len(typed)
<1>1. /\ UNCHANGED <<ctl, seen>>
      /\ typed' = Append(typed, k)
      /\ queue'["keyboard"] = q \o new
  BY DEF PressKey, Activation, Shape, Source
<1>2. /\ typed \in Seq(Key) /\ q \in Seq(KeyData)
      /\ Len(typed') = l + 1
      /\ \A n \in 1 .. l : typed'[n] = typed[n]
  BY <1>1, AppendProperties DEF Activation, Shape, KeyStream
<1>3. /\ new \in Seq(KeyData) /\ Len(new) = 2
      /\ new[1].bits = k /\ new[2].bits = k \cup {7}
  <2>1. Byte(k, "pressed") \in KeyData /\ Byte(k \cup {7}, "released") \in KeyData
    <3>1. k \in SUBSET (0 .. 7) /\ k \cup {7} \in SUBSET (0 .. 7)
      BY Ps2Assumption
    <3> QED
      BY <3>1 DEF Byte, KeyData
  <2> QED
    BY <2>1 DEF Stroke, Byte
<1>4. /\ l \in Nat /\ Len(q) \in Nat /\ KeysTaken \in Nat /\ KeyOffered \in 0 .. 1
      /\ KeysTaken + KeyOffered + Len(q) = 2 * l
  BY KeyNumbers
<1>5. /\ q \o new \in Seq(KeyData) /\ Len(q \o new) = Len(q) + 2
      /\ \A i \in 1 .. Len(q) + 2 :
           (q \o new)[i] = IF i <= Len(q) THEN q[i] ELSE new[i - Len(q)]
  <2> HIDE DEF q, new
  <2> QED
    BY <1>2, <1>3, TwoMore
<1>6. KeyOffered' = KeyOffered
  BY <1>1 DEF KeyOffered
<1> HIDE DEF q, new, l
<1>7. KeysTaken' = KeysTaken
  <2>1. \A a, o, b \in Nat : (2 * (a + 1)) - (o + (b + 2)) = (2 * a) - (o + b)
    OBVIOUS
  <2>2. KeysTaken' = (2 * (l + 1)) - (KeyOffered + (Len(q) + 2))
    BY <1>1, <1>2, <1>5, <1>6 DEF KeysTaken
  <2>3. KeysTaken = (2 * l) - (KeyOffered + Len(q))
    BY DEF KeysTaken, q, l
  <2> QED
    BY <1>4, <2>1, <2>2, <2>3
<1>8. /\ \A j \in 0 .. (2 * l) - 1 : StrokeByte(typed', j) = StrokeByte(typed, j)
      /\ StrokeByte(typed', 2 * l) = k
      /\ StrokeByte(typed', (2 * l) + 1) = k \cup {7}
      /\ \A n \in 0 .. l : KnownAmong(typed', n) = KnownAmong(typed, n)
  <2> DEFINE more == Append(typed, k)
  <2>1. /\ \A j \in 0 .. (2 * l) - 1 : StrokeByte(more, j) = StrokeByte(typed, j)
        /\ StrokeByte(more, 2 * l) = k
        /\ StrokeByte(more, (2 * l) + 1) = k \cup {7}
        /\ \A n \in 0 .. l : KnownAmong(more, n) = KnownAmong(typed, n)
    BY <1>2, EarlierStrokes DEF l
  <2>2. typed' = more
    BY <1>1
  <2> HIDE DEF more
  <2> QED
    BY <2>1, <2>2
<1>9. ASSUME NEW t \in Nat, NEW o \in 0 .. 1, NEW b \in Nat, t + o + b = 2 * l
      PROVE  /\ o = 1 => t \in 0 .. (2 * l) - 1
             /\ (t + 1) \div 2 \in 0 .. l
             /\ \A i \in 1 .. b : t + o + i - 1 \in 0 .. (2 * l) - 1
             /\ \A i \in 1 .. b + 2 :
                  \/ i \in 1 .. b
                  \/ i = b + 1 /\ t + o + i - 1 = 2 * l /\ i - b = 1 /\ ~(i <= b)
                  \/ /\ i = b + 2 /\ t + o + i - 1 = (2 * l) + 1
                     /\ i - b = 2 /\ ~(i <= b)
  <2>1. (t + 1) \div 2 \in 0 .. l
    <3>1. t <= 2 * l
      BY <1>4, <1>9
    <3> QED
      BY <3>1, <1>4
  <2> QED
    BY <1>4, <1>9, <2>1
<1>10. /\ KeyOffered = 1 => KeysTaken \in 0 .. (2 * l) - 1
       /\ (KeysTaken + 1) \div 2 \in 0 .. l
       /\ \A i \in 1 .. Len(q) : KeysTaken + KeyOffered + i - 1 \in 0 .. (2 * l) - 1
       /\ \A i \in 1 .. Len(q) + 2 :
            \/ i \in 1 .. Len(q)
            \/ /\ i = Len(q) + 1 /\ KeysTaken + KeyOffered + i - 1 = 2 * l
               /\ i - Len(q) = 1 /\ ~(i <= Len(q))
            \/ /\ i = Len(q) + 2 /\ KeysTaken + KeyOffered + i - 1 = (2 * l) + 1
               /\ i - Len(q) = 2 /\ ~(i <= Len(q))
  BY <1>4, <1>9
<1>11. KeyOffered' = 1 => ctl'.out.bits = StrokeByte(typed', KeysTaken')
  BY <1>1, <1>6, <1>7, <1>8, <1>10 DEF KeyStream
<1>12. ASSUME NEW i \in 1 .. Len(q) + 2
       PROVE  (q \o new)[i].bits = StrokeByte(typed', KeysTaken + KeyOffered + i - 1)
  <2>1. CASE i \in 1 .. Len(q)
    <3>1. (q \o new)[i] = q[i]
      BY <2>1, <1>5
    <3>2. q[i].bits = StrokeByte(typed, KeysTaken + KeyOffered + i - 1)
      BY <2>1 DEF KeyStream, q
    <3> QED
      BY <2>1, <3>1, <3>2, <1>8, <1>10
  <2>2. CASE i = Len(q) + 1
    BY <2>2, <1>3, <1>4, <1>5, <1>8, <1>10
  <2>3. CASE i = Len(q) + 2
    <3>1. (q \o new)[i] = new[2] /\ i \notin 1 .. Len(q) /\ i # Len(q) + 1
      BY <2>3, <1>4, <1>5, <1>10
    <3>2. KeysTaken + KeyOffered + i - 1 = (2 * l) + 1
      BY <3>1, <1>10
    <3> QED
      BY <3>1, <3>2, <1>3, <1>8
  <2> QED
    BY <2>1, <2>2, <2>3, <1>10
<1>13. Len(seen') = KnownAmong(typed', (KeysTaken' + 1) \div 2)
  BY <1>1, <1>7, <1>8, <1>10 DEF KeyStream
<1>14. KeysInOrder'
  <2>1. DOMAIN typed = 1 .. l /\ DOMAIN typed' = 1 .. l + 1
    BY <1>1, <1>2, AppendProperties, LenProperties DEF l
  <2> SUFFICES ASSUME NEW i \in DOMAIN seen
               PROVE  \E n \in DOMAIN typed' :
                        /\ typed'[n] \in Known /\ KnownAmong(typed', n) = i
                        /\ seen[i] = typed'[n]
    BY <1>1 DEF KeysInOrder
  <2>2. PICK n \in DOMAIN typed :
          typed[n] \in Known /\ KnownAmong(typed, n) = i /\ seen[i] = typed[n]
    BY DEF KeyStream, KeysInOrder
  <2>3. n \in DOMAIN typed' /\ n \in 0 .. l /\ typed'[n] = typed[n]
    BY <1>2, <1>4, <2>1
  <2> QED
    BY <1>8, <2>2, <2>3
<1> QED
  BY <1>1, <1>4, <1>5, <1>6, <1>7, <1>11, <1>12, <1>13, <1>14 DEF KeyStream

LEMMA NothingFromController ==
  ASSUME Activation, InLoop
  PROVE  Silent("controller")
BY DEF Activation, Answers, InLoop, In

(* The byte in the buffer is the next of the keyboard, and the handler is  *)
(* told of it if it is the press of a key that is known.                   *)
LEMMA KeyboardInterruptKeepsKeys ==
  ASSUME Activation, InLoop, KeyStream, KeyboardInterrupt
  PROVE  KeyStream'
<1> DEFINE q == queue["keyboard"]
           l == Len(typed)
           n == KeysTaken
<1>1. /\ UNCHANGED <<queue, typed>> /\ ctl'.full = FALSE
      /\ seen' = OnScanCode(ctl.out.bits)
  BY DEF KeyboardInterrupt, Empty, Activation, Shape
<1>2. ctl.full /\ ctl.from = "keyboard"
  <2>1. ctl.full /\ ctl.from # "mouse"
    BY BootAssumption DEF KeyboardInterrupt, Interrupted, Requested, VectorOf,
       Activation, Progress
  <2>2. ctl.from # "controller"
    <3>1. Silent("controller")
      BY NothingFromController
    <3> QED
      BY <2>1, <3>1 DEF Silent
  <2> QED
    BY <2>1, <2>2 DEF Activation, Shape, Source
<1>3. KeyOffered = 1 /\ KeyOffered' = 0
  BY <1>1, <1>2 DEF KeyOffered
<1>4. /\ l \in Nat /\ Len(q) \in Nat /\ n \in Nat /\ Len(seen) \in Nat
      /\ n + 1 + Len(q) = 2 * l
  BY <1>3, KeyNumbers
<1>5. KeysTaken' = n + 1
  <2>1. \A a, b \in Nat : (2 * a) - (0 + b) = ((2 * a) - (1 + b)) + 1
    OBVIOUS
  <2>2. n = (2 * l) - (1 + Len(q)) /\ KeysTaken' = (2 * l) - (0 + Len(q))
    BY <1>1, <1>3 DEF KeysTaken
  <2> HIDE DEF n, l, q
  <2> QED
    BY <1>4, <2>1, <2>2
<1>6. ctl.out.bits = StrokeByte(typed, n)
  BY <1>3 DEF KeyStream
<1>7. \A i \in 1 .. Len(q) : q[i].bits = StrokeByte(typed, (n + 1) + 0 + i - 1)
  <2>1. \A i \in 1 .. Len(q) : q[i].bits = StrokeByte(typed, n + 1 + i - 1)
    BY <1>3 DEF KeyStream
  <2> HIDE DEF n, q
  <2>2. \A i \in 1 .. Len(q) : n + 1 + i - 1 = (n + 1) + 0 + i - 1
    BY <1>4
  <2> QED
    BY <2>1, <2>2
<1>8. Len(seen) = KnownAmong(typed, (n + 1) \div 2)
  BY DEF KeyStream
<1>9. /\ typed \in Seq(Key) /\ seen \in Seq(Known) /\ DOMAIN typed = 1 .. l
      /\ DOMAIN seen = 1 .. Len(seen)
  BY LenProperties DEF Activation, Shape
<1>10. ASSUME NEW t \in Nat, NEW b \in Nat, t + 1 + b = 2 * l
       PROVE  t \div 2 \in Nat /\ (t \div 2) + 1 \in 1 .. l
  BY <1>4, <1>10
<1>11. n \div 2 \in Nat /\ (n \div 2) + 1 \in 1 .. l
  BY <1>4, <1>10
<1> HIDE DEF q, l, n
<1>12. CASE n % 2 = 0 /\ typed[(n \div 2) + 1] \in Known
  <2>1. ctl.out.bits = typed[(n \div 2) + 1]
    BY <1>6, <1>12 DEF StrokeByte
  <2>2. seen' = Append(seen, typed[(n \div 2) + 1])
    BY <1>1, <1>12, <2>1 DEF OnScanCode
  <2>3. /\ Len(seen') = Len(seen) + 1 /\ seen'[Len(seen) + 1] = typed[(n \div 2) + 1]
        /\ DOMAIN seen' = 1 .. Len(seen) + 1
        /\ \A i \in 1 .. Len(seen) : seen'[i] = seen[i]
    BY <1>9, <1>12, <2>2, AppendProperties
  <2>4. (n + 1) \div 2 = n \div 2 /\ ((n + 1) + 1) \div 2 = (n \div 2) + 1
    BY <1>4, <1>12, HalfOfBytes
  <2>5. KnownAmong(typed, (n \div 2) + 1) = Len(seen) + 1
    BY <1>8, <1>11, <1>12, <2>4, KnownGrows
  <2>6. Len(seen') = KnownAmong(typed', (KeysTaken' + 1) \div 2)
    BY <1>1, <1>5, <2>3, <2>4, <2>5
  <2>7. ASSUME NEW i \in DOMAIN seen'
        PROVE  \E j \in DOMAIN typed :
                 typed[j] \in Known /\ KnownAmong(typed, j) = i /\ seen'[i] = typed[j]
    <3>1. CASE i = Len(seen) + 1
      BY <3>1, <1>9, <1>11, <1>12, <2>3, <2>5
    <3>2. CASE i \in 1 .. Len(seen)
      <4>1. seen'[i] = seen[i] /\ i \in DOMAIN seen
        BY <3>2, <1>9, <2>3
      <4> QED
        BY <4>1 DEF KeyStream, KeysInOrder
    <3> QED
      BY <3>1, <3>2, <1>4, <2>3
  <2>8. KeysInOrder'
    BY <1>1, <2>7 DEF KeysInOrder
  <2> QED
    BY <1>1, <1>3, <1>4, <1>5, <1>7, <2>6, <2>8 DEF KeyStream, q
<1>13. CASE ~(n % 2 = 0 /\ typed[(n \div 2) + 1] \in Known)
  <2>1. ctl.out.bits \notin Known
    <3>1. CASE n % 2 = 0
      BY <3>1, <1>6, <1>13 DEF StrokeByte
    <3>2. CASE n % 2 # 0
      <4>1. 7 \in ctl.out.bits
        BY <3>2, <1>6 DEF StrokeByte
      <4>2. 7 \notin 0 .. 6
        OBVIOUS
      <4> QED
        BY <4>1, <4>2, Ps2Assumption
    <3> QED
      BY <3>1, <3>2
  <2>2. seen' = seen
    BY <1>1, <2>1 DEF OnScanCode
  <2>3. KnownAmong(typed, ((n + 1) + 1) \div 2) = KnownAmong(typed, (n + 1) \div 2)
    <3>1. CASE n % 2 = 0
      <4>1. typed[(n \div 2) + 1] \notin Known
        BY <3>1, <1>13
      <4>2. KnownAmong(typed, (n \div 2) + 1) = KnownAmong(typed, n \div 2)
        BY <4>1, <1>11, KnownGrows
      <4> QED
        BY <3>1, <4>2, <1>4, HalfOfBytes
    <3>2. CASE n % 2 # 0
      BY <3>2, <1>4, HalfOfBytes
    <3> QED
      BY <3>1, <3>2
  <2>4. Len(seen') = KnownAmong(typed', (KeysTaken' + 1) \div 2)
    BY <1>1, <1>5, <1>8, <2>2, <2>3
  <2>5. KeysInOrder'
    BY <1>1, <2>2 DEF KeyStream, KeysInOrder
  <2> QED
    BY <1>1, <1>3, <1>4, <1>5, <1>7, <2>4, <2>5 DEF KeyStream, q
<1> QED
  BY <1>12, <1>13

-----------------------------------------------------------------------------
IInv == Activation /\ (InLoop => Stream /\ KeyStream)

(* In the loop of kernelMain little of Activation is left to be kept.      *)
LEMMA LoopPreserves ==
  ASSUME Activation, InLoop, UNCHANGED <<at, status, driverVars>>, Shape',
         ctl'.command = ctl.command, Silent("controller")'
  PROVE  Activation'
<1>1. at[1] = "kernelMain" /\ at[2] = "run" /\ UNCHANGED <<drivers, handlers, activated>>
  BY DEF InLoop, In, driverVars
<1>2. Progress' /\ CommandIsKnown'
  BY <1>1 DEF Activation, Progress, CommandIsKnown, CommandByte, In, AllActive, InLoop
<1>3. Answers' /\ Fresh'
  BY <1>1 DEF Activation, Answers, Fresh, In, AllActive, InLoop
<1> QED
  BY <1>2, <1>3 DEF Activation

LEMMA RunningIsInLoop ==
  ASSUME at = Running
  PROVE  InLoop
BY DEF Running, InLoop, In

LEMMA PressKeyPreserves ==
  ASSUME Activation, NEW k \in Key, PressKey(k), UNCHANGED <<driverVars, pciVars>>
  PROVE  Activation'
<1>1. /\ at = Running /\ UNCHANGED <<at, status, ctl, mouse, reports, seen, events>>
      /\ typed' = Append(typed, k)
      /\ queue' = [queue EXCEPT !["keyboard"] = @ \o Stroke(k)]
  BY DEF PressKey
<1>2. typed' \in Seq(Key)
  BY <1>1, AppendProperties DEF Activation, Shape
<1>3. Shape' /\ queue'["controller"] = queue["controller"]
  BY <1>1, <1>2 DEF Activation, Shape, Source
<1> QED
  BY <1>1, <1>3, RunningIsInLoop, NothingFromController, LoopPreserves DEF Silent

LEMMA ReportPreserves ==
  ASSUME Activation, NEW x \in {{}, {0}}, NEW y \in {{}, {0}},
         NEW down \in SUBSET (0 .. 1), Report(x, y, down),
         UNCHANGED <<driverVars, pciVars>>
  PROVE  Activation'
<1> DEFINE bytes == <<Byte(down \cup {3}, "buttons"), Byte(x, "x"), Byte(y, "y")>>
<1>1. /\ at = Running /\ UNCHANGED <<at, status, ctl, mouse, typed, seen, events>>
      /\ queue' = [queue EXCEPT !["mouse"] = @ \o bytes]
  BY DEF Report
<1> HIDE DEF bytes
<1>2. Shape' /\ queue'["controller"] = queue["controller"]
  BY <1>1 DEF Activation, Shape, Source
<1> QED
  BY <1>1, <1>2, RunningIsInLoop, NothingFromController, LoopPreserves DEF Silent

LEMMA KeyboardInterruptPreserves ==
  ASSUME Activation, KeyboardInterrupt, UNCHANGED <<driverVars, pciVars>>
  PROVE  Activation'
<1>1. /\ at = Running /\ UNCHANGED <<at, status, queue, mouse, typed, reports, events>>
      /\ seen' = OnScanCode(ctl.out.bits) /\ ctl' = [ctl EXCEPT !.full = FALSE]
  BY DEF KeyboardInterrupt, Interrupted, Empty
<1>2. seen' \in Seq(Known)
  <2>1. seen \in Seq(Known)
    BY DEF Activation, Shape
  <2>2. CASE ctl.out.bits \in Known
    BY <1>1, <2>1, <2>2, AppendProperties DEF OnScanCode
  <2>3. CASE ctl.out.bits \notin Known
    BY <1>1, <2>1, <2>3 DEF OnScanCode
  <2> QED
    BY <2>2, <2>3
<1>3. Shape' /\ ctl'.command = ctl.command /\ ctl'.full = FALSE
  BY <1>1, <1>2 DEF Activation, Shape
<1> QED
  BY <1>1, <1>3, RunningIsInLoop, NothingFromController, LoopPreserves DEF Silent

LEMMA MouseInterruptPreserves ==
  ASSUME Activation, Stream, MouseInterrupt, UNCHANGED <<driverVars, pciVars>>
  PROVE  Activation'
<1>1. /\ at = Running /\ UNCHANGED <<at, status, queue, typed, reports, seen>>
      /\ mouse' = [buffer |-> Filled, offset |-> NextOffset(mouse.offset),
                   buttons |-> IF LastByte(mouse.offset)
                               THEN Filled[0].bits ELSE mouse.buttons]
      /\ ctl' = [ctl EXCEPT !.full = FALSE]
  BY DEF MouseInterrupt, Interrupted, Empty, Filled
<1>2. Filled = [i \in 0 .. 2 |-> Filled[i]]
  BY DEF Filled, Activation, Shape
<1>3. Filled[0].bits \in SUBSET (0 .. 7)
  <2>1. mouse.offset \in 0 .. 2 /\ reports \in Seq(Packet)
    BY DEF Stream, Counted
  <2>2. 0 \in 0 .. mouse.offset
    BY <2>1
  <2>3. reports[Len(events) + 1] \in Packet
    BY <2>1, ByteTaken, ElementOfSeq
  <2>4. Filled[0] = Byte(reports[Len(events) + 1].down \cup {3}, "buttons")
    BY <2>2, BytesFilled DEF ByteOf
  <2> QED
    BY <2>3, <2>4 DEF Packet, Byte
<1>4. Shape' /\ ctl'.command = ctl.command /\ ctl'.full = FALSE
  BY <1>1, <1>2, <1>3 DEF Activation, Shape
<1> QED
  BY <1>1, <1>4, RunningIsInLoop, NothingFromController, LoopPreserves DEF Silent
-----------------------------------------------------------------------------
LEMMA InitHolds == Init => IInv
<1> SUFFICES ASSUME Init  PROVE IInv
  OBVIOUS
<1>1. ~InLoop
  <2>1. at = <<"kernelMain", "construct">>
    BY DEF Init, Ps2Init
  <2>2. at[2] = "construct"
    BY <2>1
  <2> QED
    BY <2>2 DEF InLoop, In
<1> QED
  BY <1>1, ActivationInit DEF IInv

LEMMA TrafficPreserves ==
  ASSUME IInv, Traffic, UNCHANGED <<driverVars, pciVars>>
  PROVE  IInv'
<1>1. Activation /\ (InLoop => Stream /\ KeyStream)
  BY DEF IInv
<1>2. ASSUME NEW s \in Source, Send(s)  PROVE IInv'
  <2>1. InLoop' = InLoop
    BY <1>2 DEF Send, InLoop, In
  <2> QED
    BY <1>1, <1>2, <2>1, SendPreserves, SendKeepsStream, SendKeepsKeys DEF IInv
<1>3. ASSUME NEW k \in Key, PressKey(k)  PROVE IInv'
  <2>1. InLoop /\ Stream /\ KeyStream
    BY <1>1, <1>3, RunningIsInLoop DEF PressKey
  <2> QED
    BY <1>1, <1>3, <2>1, PressKeyPreserves, PressKeyKeepsStream,
       PressKeyKeepsKeys DEF IInv
<1>4. ASSUME NEW x \in {{}, {0}}, NEW y \in {{}, {0}}, NEW down \in SUBSET (0 .. 1),
             Report(x, y, down)
      PROVE  IInv'
  <2>1. InLoop /\ Stream /\ KeyStream
    BY <1>1, <1>4, RunningIsInLoop DEF Report
  <2> QED
    BY <1>1, <1>4, <2>1, ReportPreserves, ReportKeepsStream,
       ReportKeepsKeys DEF IInv
<1>5. CASE KeyboardInterrupt
  <2>1. InLoop /\ Stream /\ KeyStream
    BY <1>1, <1>5, RunningIsInLoop DEF KeyboardInterrupt, Interrupted
  <2> QED
    BY <1>1, <1>5, <2>1, KeyboardInterruptPreserves,
       KeyboardInterruptKeepsStream, KeyboardInterruptKeepsKeys DEF IInv
<1>6. CASE MouseInterrupt
  <2>1. InLoop /\ Stream /\ KeyStream
    BY <1>1, <1>6, RunningIsInLoop DEF MouseInterrupt, Interrupted
  <2> QED
    BY <1>1, <1>6, <2>1, MouseInterruptPreserves,
       MouseInterruptKeepsStream, MouseInterruptKeepsKeys DEF IInv
<1> QED
  BY <1>2, <1>3, <1>4, <1>5, <1>6 DEF Traffic

LEMMA KernelMainPreserves ==
  ASSUME IInv, Prompt, KernelMain
  PROVE  IInv'
<1>1. Activation
  BY DEF IInv
<1>2. CASE StartInterrupts
  BY <1>1, <1>2, StartInterruptsPreserves, StreamBegins, KeyStreamBegins DEF IInv
<1>3. CASE Construct
  <2>1. at' \in {<<"kernelMain", "scan">>, <<"kernelMain", "construct">>}
    BY <1>3 DEF Construct
  <2>2. ~InLoop'
    BY <2>1 DEF InLoop, In
  <2> QED
    BY <1>1, <1>3, <2>2, ConstructPreserves DEF IInv
<1>4. CASE Scan
  <2>1. at' \in {<<"kernelMain", "scan">>, <<"kernelMain", "activate">>}
    BY <1>4 DEF Scan, Returned
  <2>2. ~InLoop'
    BY <2>1 DEF InLoop, In
  <2> QED
    BY <1>1, <1>4, <2>2, ScanPreserves DEF IInv
<1>5. CASE ActivateAll
  <2>1. \/ at' = <<"kernelMain", "sti">>
        \/ \E d : at' = <<d, "drain">>
    BY <1>5 DEF ActivateAll, EnterActivate
  <2>2. ~InLoop'
    BY <2>1 DEF InLoop, In
  <2> QED
    BY <1>1, <1>5, <2>2, ActivateAllPreserves DEF IInv
<1>6. CASE Activate /\ UNCHANGED <<driverVars, pciVars>>
  <2> SUFFICES Activation' /\ ~InLoop'
    BY DEF IInv
  <2>1. ASSUME NEW d \in {"keyboard", "mouse"}, Drain(d)
        PROVE  Activation' /\ ~InLoop'
    <3>1. at'[2] \in {"drain", "enable"}
      BY <2>1 DEF Drain
    <3> QED
      BY <1>1, <1>6, <2>1, <3>1, DrainPreserves DEF InLoop, In
  <2>2. ASSUME NEW d \in {"keyboard", "mouse"}, Enable(d)
        PROVE  Activation' /\ ~InLoop'
    <3>1. at'[2] = "ask"
      BY <2>2 DEF Enable, Goto
    <3> QED
      BY <1>1, <1>6, <2>2, <3>1, EnablePreserves DEF InLoop, In
  <2>3. ASSUME NEW d \in {"keyboard", "mouse"}, Ask(d)
        PROVE  Activation' /\ ~InLoop'
    <3>1. at'[2] = "read"
      BY <2>3 DEF Ask, Goto
    <3> QED
      BY <1>1, <1>6, <2>3, <3>1, AskPreserves DEF InLoop, In
  <2>4. ASSUME NEW d \in {"keyboard", "mouse"}, Read(d)
        PROVE  Activation' /\ ~InLoop'
    <3>1. at'[2] = "set"
      BY <2>4 DEF Read, Goto
    <3> QED
      BY <1>1, <1>6, <2>4, <3>1, ReadPreserves DEF InLoop, In
  <2>5. ASSUME NEW d \in {"keyboard", "mouse"}, Set(d)
        PROVE  Activation' /\ ~InLoop'
    <3>1. at'[2] = "start"
      BY <2>5 DEF Set, Goto
    <3> QED
      BY <1>1, <1>6, <2>5, <3>1, SetPreserves DEF InLoop, In
  <2>6. ASSUME NEW d \in {"keyboard", "mouse"}, StartDevice(d)
        PROVE  Activation' /\ ~InLoop'
    <3>1. at'[2] \in {"activate", "ack"}
      BY <2>6 DEF StartDevice, Goto, Returned
    <3> QED
      BY <1>1, <1>6, <2>6, <3>1, StartDevicePreserves DEF InLoop, In
  <2>7. ASSUME ReadAck
        PROVE  Activation' /\ ~InLoop'
    <3>1. at'[2] = "activate"
      BY <2>7 DEF ReadAck, Goto, Returned
    <3> QED
      BY <1>1, <1>6, <2>7, <3>1, ReadAckPreserves DEF InLoop, In
  <2> QED
    BY <1>6, <2>1, <2>2, <2>3, <2>4, <2>5, <2>6, <2>7 DEF Activate
<1> QED
  BY <1>2, <1>3, <1>4, <1>5, <1>6 DEF KernelMain

LEMMA StepPreserves ==
  ASSUME IInv, Prompt, [Next]_vars
  PROVE  IInv'
<1>1. CASE KernelMain
  BY <1>1, KernelMainPreserves
<1>2. CASE Traffic /\ UNCHANGED <<driverVars, pciVars>>
  BY <1>2, TrafficPreserves
<1>3. CASE UNCHANGED vars
  <2>1. UNCHANGED <<at, status, ctl, queue, mouse, typed, reports, seen, events,
                    drivers, handlers, activated>>
    BY <1>3 DEF vars, ps2Vars, driverVars
  <2>2. Shape' = Shape
    BY <2>1 DEF Shape
  <2>3. Progress' = Progress
    BY <2>1 DEF Progress, In
  <2>4. CommandIsKnown' = CommandIsKnown
    BY <2>1 DEF CommandIsKnown, CommandByte, In, AllActive, InLoop
  <2>5. Answers' = Answers /\ Fresh' = Fresh
    BY <2>1 DEF Answers, Silent, Sent, Fresh, In, AllActive, InLoop
  <2>6. Stream' = Stream
    BY <2>1 DEF Stream, Counted, Taken, Offered, PacketsInOrder, Held
  <2>7. KeyStream' = KeyStream
    BY <2>1 DEF KeyStream, KeysTaken, KeyOffered, KeysInOrder
  <2>8. InLoop' = InLoop
    BY <2>1 DEF InLoop, In
  <2> QED
    BY <2>2, <2>3, <2>4, <2>5, <2>6, <2>7, <2>8 DEF IInv, Activation
<1> QED
  BY <1>1, <1>2, <1>3 DEF Next
-----------------------------------------------------------------------------
LEMMA Invariance ==
  ASSUME Prompt
  PROVE  Spec => []IInv
<1>1. IInv /\ [Next]_vars => IInv'
  BY StepPreserves
<1> QED
  BY <1>1, InitHolds, PTL DEF Spec

(* The status byte, the buttons and the offset in the driver's buffer keep *)
(* to their types from the moment interrupts are on, whatever was on the   *)
(* stack before.                                                           *)
THEOREM TypeCorrect ==
  ASSUME Prompt
  PROVE  Spec => []TypeOK
<1>1. IInv => TypeOK
  <2> SUFFICES ASSUME IInv  PROVE TypeOK
    OBVIOUS
  <2>1. ctl.command \in SUBSET (0 .. 7)
    BY DEF IInv, Activation, CommandIsKnown, CommandByte
  <2>2. at = Running => mouse.offset \in 0 .. 2
    BY RunningIsInLoop DEF IInv, Stream, Counted
  <2> QED
    BY <2>1, <2>2 DEF IInv, Activation, Shape, TypeOK
<1> QED
  BY <1>1, Invariance, PTL

(* Once both drivers are active both devices are on and may interrupt,     *)
(* whatever keys were struck before: no key is taken for a command byte.   *)
THEOREM BothDevicesOn ==
  ASSUME Prompt
  PROVE  Spec => []DevicesOn
<1>1. IInv => DevicesOn
  <2> SUFFICES ASSUME IInv, at = Running
               PROVE  /\ {KeyboardInterrupts, MouseInterrupts} \subseteq ctl.command
                      /\ {KeyboardOff, MouseOff} \cap ctl.command = {}
    BY DEF DevicesOn
  <2>1. ctl.command = {0, 1, 6}
    BY DEF IInv, Activation, CommandIsKnown, CommandByte, Running, InLoop, In
  <2> QED
    BY <2>1 DEF KeyboardInterrupts, MouseInterrupts, KeyboardOff, MouseOff
<1> QED
  BY <1>1, Invariance, PTL

(* However many packets the mouse sends, with keys in between, the handler *)
(* is told of each of them whole, in order, and of the buttons that        *)
(* changed from the one before.                                            *)
THEOREM PacketsArriveWhole ==
  ASSUME Prompt
  PROVE  Spec => []PacketsInOrder
<1>1. IInv => PacketsInOrder
  <2> SUFFICES ASSUME IInv  PROVE PacketsInOrder
    OBVIOUS
  <2>1. CASE InLoop
    BY <2>1 DEF IInv, Stream
  <2>2. CASE ~InLoop
    BY <2>2 DEF IInv, Activation, Fresh, PacketsInOrder
  <2> QED
    BY <2>1, <2>2
<1> QED
  BY <1>1, Invariance, PTL

(* However keys and packets mix, the handler is told of the known keys in  *)
(* the order they are pressed in, of each once, and of nothing else: bit 7 *)
(* tells the releases apart (keyboard.cpp:51-92), and no byte of the mouse *)
(* gets to the keyboard driver.                                            *)
THEOREM KeysArrive ==
  ASSUME Prompt
  PROVE  Spec => []KeysInOrder
<1>1. IInv => KeysInOrder
  <2> SUFFICES ASSUME IInv  PROVE KeysInOrder
    OBVIOUS
  <2>1. CASE InLoop
    BY <2>1 DEF IInv, KeyStream
  <2>2. CASE ~InLoop
    BY <2>2 DEF IInv, Activation, Fresh, KeysInOrder
  <2> QED
    BY <2>1, <2>2
<1> QED
  BY <1>1, Invariance, PTL
=============================================================================
