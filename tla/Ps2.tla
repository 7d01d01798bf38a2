-------------------------------- MODULE Ps2 --------------------------------
(***************************************************************************)
(* The drivers of the keyboard and of the mouse, which share the one byte  *)
(* of output buffer of the i8042 controller: their activation, with        *)
(* interrupts off, and then their interrupts, which reach a driver through *)
(* the table of handlers.  In an activation the steps are the port         *)
(* accesses, but that two are one step where what the devices do between   *)
(* them could as well be done before: a full buffer is tested and read,    *)
(* and a command is written with the byte that belongs to it.              *)
(*                                                                         *)
(* A byte is the set of the bits that are 1, so that `| 2' adds bit 1 and  *)
(* `& ~0x10' removes bit 4; beside its bits it carries what it was sent    *)
(* as, which the drivers cannot see.  The controller and the two devices   *)
(* are external and modelled as far as the drivers use them.               *)
(*                                                                         *)
(* A definition introduced as a fault is the next definition with a slip   *)
(* in it: the checks of the project must notice when it takes its place.   *)
(***************************************************************************)
EXTENDS Drivers, SequencesExt

CONSTANTS
  Key,          \* the keys: the scan codes of their being pressed
  Known,        \* those the keyboard driver has a character for
  Stale,        \* the keys that may have been struck before the kernel ran
  MaxKeys,      \* bound: keys pressed or released
  MaxReports,   \* bound: packets the mouse sends
  Prompt        \* the devices answer before the next port access

ASSUME Ps2Assumption ==
  /\ Key \subseteq SUBSET (0 .. 6)
  /\ Known \subseteq Key
  /\ Stale \subseteq Seq(Key)
  /\ MaxKeys \in Nat /\ MaxReports \in Nat
  /\ Prompt \in BOOLEAN

VARIABLES
  at,         \* where kernelMain is: a function it is in, and the step
  status,     \* the local variable `status' of Activate
  ctl,        \* i8042: the bits of its command byte and its output buffer
  queue,      \* what the controller and the devices have yet to send
  mouse,      \* MouseDriver: buffer, offset and buttons
  typed,      \* the keys pressed on the keyboard, in order
  reports,    \* the packets sent by the mouse, in order
  seen,       \* the keys the drivers' handler was told of
  events      \* the packets it was told of: movement, buttons down

ps2Vars == <<at, status, ctl, queue, mouse, typed, reports, seen, events>>

Source == {"controller", "keyboard", "mouse"}

(* Interrupts are on and kernelMain is in its loop.                        *)
Running == <<"kernelMain", "run">>

Byte(bits, as) == [bits |-> bits, as |-> as]
Ack == Byte({1, 3, 4, 5, 6, 7}, "ack")

(* Bits of the command byte.                                               *)
KeyboardInterrupts == 0
MouseInterrupts == 1
KeyboardOff == 4
MouseOff == 5

(* The vectors the drivers register for, kernel.cpp:200 and the lines the  *)
(* devices are on.                                                         *)
VectorOf(d) == IF d = "keyboard" THEN 33 ELSE 44

(* What the keyboard sends for a key that is pressed and released.         *)
Stroke(k) == <<Byte(k, "pressed"), Byte(k \cup {7}, "released")>>
-----------------------------------------------------------------------------
(* The BIOS leaves the keyboard on, translated, and the mouse off.  Keys   *)
(* may have been struck since, and before it is activated the mouse driver *)
(* holds what was on the stack.                                            *)
Ps2Init ==
  /\ at = <<"kernelMain", "construct">>
  /\ status = {}
  /\ ctl = [command |-> {KeyboardInterrupts, MouseOff, 6},
            full |-> FALSE, out |-> Byte({}, "nothing"), from |-> "controller"]
  /\ \E keys \in Stale :
       queue = [s \in Source |->
                  IF s = "keyboard"
                  THEN FlattenSeq([i \in DOMAIN keys |-> Stroke(keys[i])])
                  ELSE << >>]
  /\ \E offset \in {0, 3}, buttons \in {{}, {0}} :
       mouse = [buffer |-> [i \in 0 .. 2 |-> Byte({}, "nothing")],
                offset |-> offset, buttons |-> buttons]
  /\ typed = << >> /\ reports = << >>
  /\ seen = << >> /\ events = << >>

(* The next byte of s moves to the output buffer when that is empty and    *)
(* the line of the device is not switched off.                             *)
CanSend(s) ==
  /\ ~ctl.full
  /\ queue[s] # << >>
  /\ s = "keyboard" => KeyboardOff \notin ctl.command
  /\ s = "mouse" => MouseOff \notin ctl.command

Send(s) ==
  /\ CanSend(s)
  /\ ctl' = [ctl EXCEPT !.full = TRUE, !.out = Head(queue[s]), !.from = s]
  /\ queue' = [queue EXCEPT ![s] = Tail(@)]
  /\ UNCHANGED <<at, status, mouse, typed, reports, seen, events>>

(* Somebody presses a key and releases it.  (One that is held repeats its  *)
(* code before the release: that is left out, as are keys struck while the *)
(* drivers are being activated.)                                           *)
PressKey(k) ==
  /\ at = Running
  /\ Len(typed) < MaxKeys
  /\ typed' = Append(typed, k)
  /\ queue' = [queue EXCEPT !["keyboard"] = @ \o Stroke(k)]
  /\ UNCHANGED <<at, status, ctl, mouse, reports, seen, events>>

(* The mouse reports a movement and the buttons that are down.             *)
Report(x, y, down) ==
  /\ at = Running
  /\ Len(reports) < MaxReports
  /\ reports' = Append(reports, [x |-> x, y |-> y, down |-> down])
  /\ queue' = [queue EXCEPT !["mouse"] =
                 @ \o <<Byte(down \cup {3}, "buttons"),
                        Byte(x, "x"), Byte(y, "y")>>]
  /\ UNCHANGED <<at, status, ctl, mouse, typed, seen, events>>

(* With prompt devices the processor finds their answers ready.            *)
Ready == Prompt => \A s \in Source : ~CanSend(s)

(* Port accesses: the data port returns the last byte again when there is  *)
(* no new one, and a command writes the command byte or has it sent.       *)
Empty == [ctl EXCEPT !.full = FALSE]
Answer(s, byte) == [queue EXCEPT ![s] = Append(@, byte)]
-----------------------------------------------------------------------------
Goto(from, to) == at = from /\ Ready /\ at' = to

(* ActivateAll is called, and a driver's Activate returns to it.           *)
Returned == <<"kernelMain", "activate">>

(* Fault: the mouse driver starts with the offset it finds.                *)
EnterActivateAsIs(d) ==
  /\ at' = <<d, "drain">>
  /\ UNCHANGED <<status, ctl, queue, mouse, typed, reports, seen, events>>

(* Activate of driver d is called; the mouse driver's clears its state.    *)
EnterActivate(d) ==
  /\ at' = <<d, "drain">>
  /\ mouse' = IF d = "mouse"
              THEN [mouse EXCEPT !.offset = 0, !.buttons = {}] ELSE mouse
  /\ UNCHANGED <<status, ctl, queue, typed, reports, seen, events>>

(* Fault: the mouse driver leaves what is in the buffer.                   *)
DrainKeyboardOnly(d) ==
  /\ at = <<d, "drain">> /\ Ready
  /\ IF ctl.full /\ d = "keyboard" THEN ctl' = Empty /\ UNCHANGED at
                                   ELSE at' = <<d, "enable">> /\ UNCHANGED ctl
  /\ UNCHANGED <<status, queue, mouse, typed, reports, seen, events>>

(* Both begin with a loop that reads the buffer until it is empty.  (What  *)
(* is in a full one, nobody but the driver can change.)                    *)
Drain(d) ==
  /\ at = <<d, "drain">> /\ Ready
  /\ IF ctl.full THEN ctl' = Empty /\ UNCHANGED at
                 ELSE at' = <<d, "enable">> /\ UNCHANGED ctl
  /\ UNCHANGED <<status, queue, mouse, typed, reports, seen, events>>

(* 0xAE, 0xA8                                                              *)
Enable(d) ==
  /\ Goto(<<d, "enable">>, <<d, "ask">>)
  /\ ctl' = [ctl EXCEPT !.command =
               @ \ {IF d = "keyboard" THEN KeyboardOff ELSE MouseOff}]
  /\ UNCHANGED <<status, queue, mouse, typed, reports, seen, events>>

(* 0x20: the controller is asked for its command byte ...                  *)
Ask(d) ==
  /\ Goto(<<d, "ask">>, <<d, "read">>)
  /\ queue' = Answer("controller", Byte(ctl.command, "command"))
  /\ UNCHANGED <<status, ctl, mouse, typed, reports, seen, events>>

(* ... and what is in the buffer is taken for it.                          *)
Read(d) ==
  /\ Goto(<<d, "read">>, <<d, "set">>)
  /\ status' = IF d = "keyboard"
               THEN (ctl.out.bits \cup {KeyboardInterrupts}) \ {KeyboardOff}
               ELSE ctl.out.bits \cup {MouseInterrupts}
  /\ ctl' = Empty
  /\ UNCHANGED <<queue, mouse, typed, reports, seen, events>>

(* 0x60 and the new command byte                                           *)
Set(d) ==
  /\ Goto(<<d, "set">>, <<d, "start">>)
  /\ ctl' = [ctl EXCEPT !.command = status]
  /\ UNCHANGED <<status, queue, mouse, typed, reports, seen, events>>

(* 0xF4 for the device, which acknowledges it.                             *)
StartDevice(d) ==
  /\ Goto(<<d, "start">>,
          IF d = "keyboard" THEN Returned ELSE <<"mouse", "ack">>)
  /\ queue' = Answer(d, Ack)
  /\ UNCHANGED <<status, ctl, mouse, typed, reports, seen, events>>

(* Fault: the mouse driver does not read the acknowledgement.              *)
ReadAckForgotten ==
  /\ Goto(<<"mouse", "ack">>, Returned)
  /\ UNCHANGED <<status, ctl, queue, mouse, typed, reports, seen, events>>

(* The mouse driver reads the acknowledgement; the keyboard's is left to   *)
(* the drain of the mouse driver.                                          *)
ReadAck ==
  /\ Goto(<<"mouse", "ack">>, Returned)
  /\ ctl' = Empty
  /\ UNCHANGED <<status, queue, mouse, typed, reports, seen, events>>

Activate ==
  \/ \E d \in {"keyboard", "mouse"} :
       Drain(d) \/ Enable(d) \/ Ask(d) \/ Read(d) \/ Set(d) \/ StartDevice(d)
  \/ ReadAck
-----------------------------------------------------------------------------
(* The vector the byte in the buffer interrupts with, if its device may.   *)
Requested ==
  IF ~ctl.full THEN {}
  ELSE IF ctl.from = "mouse"
  THEN IF MouseInterrupts \in ctl.command THEN {VectorOf("mouse")} ELSE {}
  ELSE IF KeyboardInterrupts \in ctl.command THEN {VectorOf("keyboard")} ELSE {}

(* With interrupts on, DoHandleInterrupt calls the handler of the vector.  *)
Interrupted(d) == at = Running /\ \E v \in Requested : handlers[v] = d

(* Fault: releases are not told from presses.                              *)
OnScanCodeAnyway(code) == Append(seen, code \ {7})

(* KeyboardDriver::HandleInterrupt: a key that is pressed and known goes   *)
(* to the handler; the others are printed, releases are dropped.           *)
OnScanCode(code) == IF code \in Known THEN Append(seen, code) ELSE seen

KeyboardInterrupt ==
  /\ Interrupted("keyboard")
  /\ seen' = OnScanCode(ctl.out.bits)
  /\ ctl' = Empty
  /\ UNCHANGED <<at, status, queue, mouse, typed, reports, events>>

LastByte(offset) == offset = 2

(* Fault: the offset is not taken back to 0.                               *)
NextOffsetRunsOn(offset) == offset + 1

(* if(++offset == 3) offset = 0;                                           *)
NextOffset(offset) == (offset + 1) % 3

(* What the handler is told of a packet: a movement, if there is one, and  *)
(* the buttons whose bit differs from that in `buttons', up or down.       *)
Told(buffer) ==
  [moved |-> [x |-> buffer[1], y |-> buffer[2]],
   up    |-> (mouse.buttons \ buffer[0].bits) \cap (0 .. 2),
   down  |-> (buffer[0].bits \ mouse.buttons) \cap (0 .. 2)]

(* MouseDriver::HandleInterrupt, which looks whether the byte is one of    *)
(* the mouse and otherwise does nothing.                                   *)
MouseInterrupt ==
  /\ Interrupted("mouse") /\ ctl.from = "mouse"
  /\ LET buffer == [mouse.buffer EXCEPT ![mouse.offset] = ctl.out]
     IN  /\ mouse' = [buffer |-> buffer,
                      offset |-> NextOffset(mouse.offset),
                      buttons |-> IF LastByte(mouse.offset)
                                  THEN buffer[0].bits ELSE mouse.buttons]
         /\ events' = IF LastByte(mouse.offset)
                      THEN Append(events, Told(buffer)) ELSE events
  /\ ctl' = Empty
  /\ UNCHANGED <<at, status, queue, typed, reports, seen>>

(* What is in the buffer when nobody is to be interrupted stays there.     *)
Traffic ==
  \/ \E s \in Source : Send(s)
  \/ \E k \in Key : PressKey(k)
  \/ \E x, y \in {{}, {0}} : \E down \in SUBSET (0 .. 1) : Report(x, y, down)
  \/ KeyboardInterrupt
  \/ MouseInterrupt

-----------------------------------------------------------------------------
TypeOK ==
  /\ status \in SUBSET (0 .. 7) /\ ctl.command \in SUBSET (0 .. 7)
  /\ ctl.full \in BOOLEAN /\ ctl.from \in Source
  /\ at = Running => mouse.offset \in 0 .. 2
  /\ mouse.buttons \in SUBSET (0 .. 7)
  /\ typed \in Seq(Key) /\ seen \in Seq(Known)

(* Once both drivers are active both devices are on and interrupt.         *)
DevicesOn ==
  at = Running =>
    /\ {KeyboardInterrupts, MouseInterrupts} \subseteq ctl.command
    /\ {KeyboardOff, MouseOff} \cap ctl.command = {}

(* mouse.cpp:77: "buffer[1] is the movement on the  x-axis and buffer[2]   *)
(* is the movement on the y-axis", whenever the driver reports a packet.   *)
BufferHoldsPacket ==
  \A i \in DOMAIN events :
    events[i].moved.x.as = "x" /\ events[i].moved.y.as = "y"

(* The buttons down in the n-th packet; none before the first.             *)
Held(n) == IF n = 0 THEN {} ELSE reports[n].down

(* The handler is told of the packets the mouse sent, none lost, repeated  *)
(* or cut in two, with the keys pressed in between; and of every button    *)
(* that went down or up from one packet to the next, and of no other.      *)
PacketsInOrder ==
  /\ Len(events) <= Len(reports)
  /\ \A i \in DOMAIN events :
       /\ events[i].moved.x.bits = reports[i].x
       /\ events[i].moved.y.bits = reports[i].y
       /\ events[i].up = Held(i - 1) \ Held(i)
       /\ events[i].down = Held(i) \ Held(i - 1)

(* How many of the first n keys the driver has a character for.            *)
KnownAmong(keys, n) == Cardinality({j \in 1 .. n : keys[j] \in Known})

(* The i-th key the handler is told of is the i-th known key pressed: none *)
(* is left out or told twice, and no byte of the mouse, no answer of a     *)
(* device and no release is taken for one.                                 *)
KeysInOrder ==
  \A i \in DOMAIN seen : \E n \in DOMAIN typed :
    typed[n] \in Known /\ KnownAmong(typed, n) = i /\ seen[i] = typed[n]

(* Every packet and every key arrives, and no packet is left half read: no *)
(* byte stays in the buffer with nobody to fetch it, where it would keep   *)
(* all others out.                                                         *)
EverythingArrives ==
  <>[](/\ Len(events) = Len(reports) /\ mouse.offset = 0
       /\ seen = SelectSeq(typed, LAMBDA k : k \in Known))
=============================================================================
