----------------------------- MODULE Interrupts -----------------------------
(***************************************************************************)
(* InterruptManager with its assembler stubs, between the processor, the   *)
(* interrupt controllers and the TaskManager: kernelMain fills the task    *)
(* table and activates a manager; from then on lines rise at any moment,   *)
(* the processor takes an interrupt between two instructions of whatever   *)
(* thread runs, the stub saves a frame on that thread's stack, the manager *)
(* dispatches, lets the scheduler choose a stack on a tick, acknowledges,  *)
(* and the stub returns into the frame on the stack chosen.                *)
(*                                                                         *)
(* All gates are interrupt gates, so the interrupt flag is off from the    *)
(* entry of a stub to its iret and there is one interrupt at a time.       *)
(*                                                                         *)
(* A definition introduced as a fault is the next definition with a slip   *)
(* in it: the checks of the project must notice when it takes its place.   *)
(***************************************************************************)
EXTENDS Pic, Idt, TaskManager

CONSTANTS
  Manager,    \* the InterruptManager objects
  Line,       \* the lines devices are on
  Glitchy,    \* the lines that may drop before they are acknowledged
  Fault,      \* the exceptions threads run into: vectors 0x00 - 0x13
  Length,     \* instructions in the loop of a thread
  Main,       \* the thread of kernelMain
  None        \* the null InterruptManager*

ASSUME InterruptAssumption ==
  /\ Line \subseteq (Master \cup Slave) \ {Cascade}
  /\ Glitchy \subseteq Line \ {Timer}
  /\ Fault \subseteq 0 .. 19
  /\ Length \in Nat \ {0}
  /\ Main \notin Task
  /\ None \notin Manager

VARIABLES
  pic,        \* the interrupt controllers
  active,     \* InterruptManager::ActiveInterruptManager
  main,       \* where kernelMain is, and the manager it activates
  cpu,        \* the registers, eip and flags, and whose stack esp is on
  stack,      \* the words on each thread's stack, from its end to esp
  service,    \* where the stub and the manager are with an interrupt
  missed      \* lines whose interrupt found no active manager (a record of
              \* the past that nothing reads)

vars == <<taskVars, pic, active, main, cpu, stack, service, missed>>

Thread == Task \cup {Main}

(* kernel.cpp:200                                                          *)
hardwareInterruptOffset == 32
VectorOf(l) == hardwareInterruptOffset + l
LineOf(v) == v - hardwareInterruptOffset
IsHardware(v) ==
  hardwareInterruptOffset <= v /\ v < hardwareInterruptOffset + 16

(* Words of a frame.                                                       *)
Registers(t, n) == [word |-> "registers", of |-> t, n |-> n]
Place(t, n) == [word |-> "eip", of |-> t, n |-> n]
Flags(t, interruptFlag) == [word |-> "eflags", of |-> t, n |-> interruptFlag]
Local(t, i) == [word |-> "local", of |-> t, n |-> i]
Plain(t, w) == [word |-> w, of |-> t, n |-> 0]

(* esp on a thread's stack, and the word a number of words from its end:   *)
(* what lies beyond esp is lost to the next interrupt.                     *)
Top(t) == [of |-> t, height |-> Len(stack[t])]
WordAt(t, i) ==
  IF i \in 1 .. Len(stack[t]) THEN stack[t][i] ELSE Plain(t, "lost")

Quiet == [at |-> "none", vector |-> 0, esp |-> [of |-> Main, height |-> 0]]

Handling == service.at # "none"
InterruptsOn == cpu.flags.n = 1
-----------------------------------------------------------------------------
(* The last two words of a CPUState, which the constructor leaves alone    *)
(* and an iret to the same ring does not take: they stay on the stack.     *)
Unset(t) == <<Plain(t, "ss"), Plain(t, "esp")>>

(* Fault: eflags 0x002, the interrupt flag is forgotten.                   *)
FreshFrameMasked(t) ==
  Unset(t) \o <<Flags(t, 0), Plain(t, "cs"), Place(t, 0),
                Plain(t, "error"), Registers(t, 0)>>

(* A Task is born with a frame that a stub can return into: registers 0,   *)
(* the error word left as it was, eip at the entry, eflags 0x202.          *)
FreshFrame(t) ==
  Unset(t) \o <<Flags(t, 1), Plain(t, "cs"), Place(t, 0),
                Plain(t, "error"), Registers(t, 0)>>

(* kernelMain starts with interrupts off; its managers have been built and *)
(* have programmed the controllers.                                        *)
Init ==
  /\ TaskInit
  /\ pic = PicReset
  /\ active = None
  /\ main = [at |-> "boot", target |-> None]
  /\ cpu = [esp |-> Main, registers |-> Registers(Main, 0),
            eip |-> Place(Main, 0), flags |-> Flags(Main, 0)]
  /\ stack = [t \in Thread |-> IF t = Main THEN << >> ELSE FreshFrame(t)]
  /\ service = Quiet
  /\ missed = {}

(* kernelMain is what the processor executes.                              *)
AtMain(at) == cpu.esp = Main /\ ~Handling /\ main.at = at

(* kernelMain fills the table before it activates anything; a task that    *)
(* does not fit is refused.                                                *)
BootAddTask(t) ==
  /\ AtMain("boot")
  /\ AddTask(t)
  /\ UNCHANGED <<pic, active, main, cpu, stack, service, missed>>

(* manager.Activate(), from kernelMain and, for a second manager, from its *)
(* loop.  Instruction by instruction, because interrupts may be on.        *)
Activate(m) ==
  /\ AtMain("boot") \/ AtMain("loop")
  /\ main' = [at |-> IF active # None THEN "deactivate" ELSE "set",
              target |-> m]
  /\ UNCHANGED <<taskVars, pic, active, cpu, stack, service, missed>>

(* Deactivate of the old manager forgets it ...                            *)
Deactivate ==
  /\ AtMain("deactivate")
  /\ active' = None
  /\ main' = [main EXCEPT !.at = "cli"]
  /\ UNCHANGED <<taskVars, pic, cpu, stack, service, missed>>

(* ... and only then turns interrupts off.                                 *)
Cli ==
  /\ AtMain("cli")
  /\ cpu' = [cpu EXCEPT !.flags.n = 0]
  /\ main' = [main EXCEPT !.at = "set"]
  /\ UNCHANGED <<taskVars, pic, active, stack, service, missed>>

SetActive ==
  /\ AtMain("set")
  /\ active' = main.target
  /\ main' = [main EXCEPT !.at = "sti"]
  /\ UNCHANGED <<taskVars, pic, cpu, stack, service, missed>>

Sti ==
  /\ AtMain("sti")
  /\ cpu' = [cpu EXCEPT !.flags.n = 1]
  /\ main' = [main EXCEPT !.at = "loop"]
  /\ UNCHANGED <<taskVars, pic, active, stack, service, missed>>

MainStep == Deactivate \/ Cli \/ SetActive \/ Sti

(* The processor is at an instruction of some thread's own loop.           *)
InLoop == ~Handling /\ (cpu.esp # Main \/ main.at = "loop")

(* The thread that runs executes an instruction of its loop: the next word *)
(* of the call it is in, or the return that drops them all.                *)
Run ==
  LET n == cpu.eip.n
      next == (n + 1) % Length
  IN  /\ InLoop
      /\ cpu' = [cpu EXCEPT !.registers.n = next, !.eip.n = next]
      /\ stack' = [stack EXCEPT ![cpu.esp] =
                     IF next = 0 THEN SubSeq(@, 1, Len(@) - n)
                     ELSE Append(@, Local(cpu.esp, next))]
      /\ UNCHANGED <<taskVars, pic, active, main, service, missed>>
-----------------------------------------------------------------------------
(* A device asks for service.                                              *)
Raise(l) ==
  /\ l \notin pic.irr
  /\ pic' = RaiseLine(pic, l)
  /\ UNCHANGED <<taskVars, active, main, cpu, stack, service, missed>>

(* The exceptions for which the processor pushes an error code itself.     *)
HasErrorCode(v) == v \in {8, 10, 11, 12, 13, 14, 17}

(* Fault: the stub of a hardware interrupt pushes no word.                 *)
ErrorWordByCpu(v) ==
  IF HasErrorCode(v) THEN <<Plain(cpu.esp, "error")>> ELSE << >>

(* The word between the registers and eip: pushed by the processor, or by  *)
(* the stub of a hardware interrupt; the stub of an exception pushes none. *)
ErrorWord(v) ==
  IF HasErrorCode(v) \/ StubOf(hardwareInterruptOffset, v).kind = "request"
  THEN <<Plain(cpu.esp, "error")>> ELSE << >>

(* The processor pushes eflags, cs and eip and turns interrupts off, the   *)
(* stub of the vector pushes the rest and calls HandleInterrupt with its   *)
(* number and esp.                                                         *)
Enter(v) ==
  /\ stack' = [stack EXCEPT ![cpu.esp] =
                 @ \o <<cpu.flags, Plain(cpu.esp, "cs"), cpu.eip>> \o
                 ErrorWord(v) \o <<cpu.registers>>]
  /\ service' = [at |-> "dispatch",
                  vector |-> Passed(StubOf(hardwareInterruptOffset, v)),
                  esp |-> [of |-> cpu.esp,
                          height |-> Len(stack'[cpu.esp])]]
  /\ cpu' = [cpu EXCEPT !.flags.n = 0]

(* The processor takes an interrupt between two instructions.              *)
Accept ==
  /\ ~Handling /\ InterruptsOn /\ Interrupting(pic)
  /\ pic' = TakeLine(pic, Selected(pic))
  /\ Enter(VectorOf(Selected(pic)))
  /\ UNCHANGED <<taskVars, active, main, missed>>

(* The line drops while the processor acknowledges it.                     *)
AcceptSpurious ==
  /\ ~Handling /\ InterruptsOn /\ Interrupting(pic)
  /\ Selected(pic) \in Glitchy
  /\ pic' = DropLine(pic, Selected(pic))
  /\ Enter(VectorOf(SpuriousLine(Selected(pic))))
  /\ UNCHANGED <<taskVars, active, main, missed>>

(* An instruction of a loop causes an exception.                           *)
Except(v) ==
  /\ InLoop
  /\ Enter(v)
  /\ UNCHANGED <<taskVars, pic, active, main, missed>>
-----------------------------------------------------------------------------
(* HandleInterrupt with no active manager goes straight back.              *)
Ignore ==
  /\ service.at = "dispatch"
  /\ active = None
  /\ service' = [service EXCEPT !.at = "return"]
  /\ missed' = IF IsHardware(service.vector)
               THEN missed \cup pic.isr ELSE missed
  /\ UNCHANGED <<taskVars, pic, active, main, cpu, stack>>

(* Fault: the timer is left out of the acknowledged range.                 *)
AfterDispatchButTimer(v) ==
  IF IsHardware(v) /\ v # hardwareInterruptOffset THEN "master" ELSE "return"

(* What remains to be done with a vector after its handler.                *)
AfterDispatch(v) == IF IsHardware(v) THEN "master" ELSE "return"

(* DoHandleInterrupt calls the driver or prints, which leaves esp alone,   *)
(* and on a tick lets the scheduler choose the stack.                      *)
Dispatch ==
  LET tick == service.vector = hardwareInterruptOffset
  IN  /\ service.at = "dispatch"
      /\ active # None
      /\ IF tick THEN Schedule(service.esp) ELSE UNCHANGED taskVars
      /\ service' = [service EXCEPT
                       !.at = AfterDispatch(service.vector),
                       !.esp = IF tick THEN Scheduled(@) ELSE @]
      /\ UNCHANGED <<pic, active, main, cpu, stack, missed>>

(* Fault: the acknowledgement stops with the master.                       *)
AfterMasterDone(v) == "return"

AfterMaster(v) == IF LineOf(v) >= 8 THEN "slave" ELSE "return"

(* The acknowledgement: the master first, then the slave if it asked.      *)
AckMaster ==
  /\ service.at = "master"
  /\ pic' = EndOfInterrupt(pic, Master)
  /\ service' = [service EXCEPT !.at = AfterMaster(service.vector)]
  /\ UNCHANGED <<taskVars, active, main, cpu, stack, missed>>

AckSlave ==
  /\ service.at = "slave"
  /\ pic' = EndOfInterrupt(pic, Slave)
  /\ service' = [service EXCEPT !.at = "return"]
  /\ UNCHANGED <<taskVars, active, main, cpu, stack, missed>>

(* Fault: the end of the stub takes a whole CPUState off the stack.        *)
TakenAll == CPUStateWords

(* The words the end of the stub takes: registers, one word skipped, and   *)
(* iret's three.                                                           *)
Taken == 5

(* What it makes of the words at its esp, and what it leaves there.        *)
Restored(p) ==
  [registers |-> WordAt(p.of, p.height), eip |-> WordAt(p.of, p.height - 2),
   flags |-> WordAt(p.of, p.height - 4)]
Left(p) == [i \in 1 .. p.height - Taken |-> WordAt(p.of, i)]

Return ==
  LET p == service.esp
      next == Restored(p)
  IN  /\ service.at = "return"
      /\ cpu' = [esp |-> p.of, registers |-> next.registers,
                 eip |-> next.eip, flags |-> next.flags]
      /\ stack' = [stack EXCEPT ![p.of] = Left(p)]
      /\ service' = Quiet
      /\ UNCHANGED <<taskVars, pic, active, main, missed>>

StubStep == Ignore \/ Dispatch \/ AckMaster \/ AckSlave \/ Return

Next ==
  \/ \E t \in Task : BootAddTask(t)
  \/ \E m \in Manager : Activate(m)
  \/ MainStep
  \/ Run
  \/ \E l \in Line : Raise(l)
  \/ Accept
  \/ AcceptSpurious
  \/ \E v \in Fault : Except(v)
  \/ StubStep

(* The processor executes; it looks for interrupts after every instruction *)
(* it completes, so one that stays raised is not overlooked for ever; and  *)
(* the timer ticks for ever.                                               *)
Fairness ==
  /\ WF_vars(MainStep)
  /\ WF_vars(StubStep)
  /\ SF_vars(Accept)
  /\ WF_vars(Raise(Timer))

Spec == Init /\ [][Next]_vars /\ Fairness
-----------------------------------------------------------------------------
StackWord ==
  {"registers", "error", "eip", "cs", "eflags", "esp", "ss", "local", "lost"}
Pointer == [of : Thread, height : Nat]
Word == [word : StackWord, of : Thread, n : 0 .. Length]

TypeOK ==
  /\ tasks \in Seq(Task) /\ numTasks <= MaxTasks
  /\ currentTask \in -1 .. numTasks - 1
  /\ cpustate \in [Task -> Pointer]
  /\ pic \in [irr : SUBSET Line, isr : SUBSET (Line \cup {Cascade})]
  /\ active \in Manager \cup {None}
  /\ main \in [at : {"boot", "loop", "deactivate", "cli", "set", "sti"},
               target : Manager \cup {None}]
  /\ cpu \in [esp : Thread, registers : Word, eip : Word, flags : Word]
  /\ stack \in [Thread -> Seq(Word)]
  /\ service \in [at : {"none", "dispatch", "master", "slave", "return"},
                  vector : 0 .. 255, esp : Pointer]
  /\ missed \subseteq Line \cup {Cascade}

(* A line is in service exactly for the interrupt the manager is busy      *)
(* with, whatever rose, dropped or was switched meanwhile: none is left in *)
(* service behind its handler, where it would keep every line below it     *)
(* silent for ever.  Interrupts that came between the two instructions of  *)
(* Deactivate are the exception.                                           *)
ServiceMatches ==
  pic.isr \ missed \subseteq
    IF ~IsHardware(service.vector) THEN {}
    ELSE CASE service.at \in {"dispatch", "master"} ->
                ServiceBits(LineOf(service.vector))
           [] service.at = "slave" -> {LineOf(service.vector)}
           [] OTHER -> {}

(* Once kernelMain has turned interrupts on, no thread finds itself        *)
(* running with interrupts off: neither iret into a frame nor the first    *)
(* start of a task loses them.                                             *)
InterruptsComeBack ==
  InLoop => InterruptsOn

(* Where a stopped thread can be found again: at the esp the stub will     *)
(* return with, or at the pointer filed in its Task.  Nobody keeps a       *)
(* pointer to kernelMain; its frame is what its stack ends with.           *)
Stopped(t) == Handling \/ cpu.esp # t
FrameOf(t) ==
  IF Handling /\ service.esp.of = t THEN service.esp
  ELSE IF t = Main THEN Top(Main) ELSE cpustate[t]
Context(t) ==
  IF Stopped(t)
  THEN LET p == FrameOf(t)
       IN  [registers |-> Restored(p).registers, eip |-> Restored(p).eip,
            stack |-> Left(p)]
  ELSE [registers |-> cpu.registers, eip |-> cpu.eip, stack |-> stack[t]]

(* The words a thread finds on its stack: those its first iret leaves.     *)
Found == [t \in Thread |-> IF t = Main THEN << >> ELSE Unset(t)]

(* The stacks are balanced: a thread that is stopped has one frame on its  *)
(* stack, where the scheduler's pointer is, and every interrupt it lived   *)
(* through has left its stack as deep as its own calls make it.            *)
StacksBalance ==
  \A t \in Thread :
    LET own == Len(Found[t]) + Context(t).eip.n
    IN  IF Stopped(t)
        THEN FrameOf(t) = Top(t) /\ Len(stack[t]) = own + 5
        ELSE Len(stack[t]) = own

(* Every thread has a processor of its own: seen through the scheduler's   *)
(* pointer to its frame, a thread only ever moves on by its own            *)
(* instructions, whatever interrupts and switches come between, and its    *)
(* stack is the words it has pushed itself.                                *)
Promise == INSTANCE Processors WITH
  context <- [t \in Thread |-> Context(t)]
ImplementsProcessors == Promise!Spec

(* Every task gets its turn, again and again, as long as the ticks are not *)
(* lost: the scheduler starves nobody.                                     *)
TurnsComeRound ==
  \A i \in 1 .. MaxTasks :
    (i <= numTasks /\ main.at # "boot" /\ missed = {})
      ~> (i <= numTasks /\ cpu.esp = tasks[i]) \/ missed # {}

(* Every interrupt taken is acknowledged in the end, so its line can rise  *)
(* again, except for those that came inside Deactivate.                    *)
LinesAreReleased ==
  \A l \in Line \cup {Cascade} :
    l \in pic.isr ~> l \notin pic.isr \/ l \in missed

(* interrupts.cpp:212: "Hardware interrupts must be acknowledged".         *)
EveryInterruptAcknowledged ==
  ~Handling => pic.isr = {}

(* multitasking.h:46-51 and interruptstubs.s:20: a frame is a CPUState,    *)
(* with an error word between the registers and eip.                       *)
FrameIsCPUState ==
  Handling => LET p == service.esp
              IN  /\ WordAt(p.of, p.height - 1).word = "error"
                  /\ WordAt(p.of, p.height - 2).word = "eip"
=============================================================================
