---------------------------- MODULE MCInterrupts ----------------------------
(***************************************************************************)
(* Two instances.  One for the interrupt controllers: the timer and the    *)
(* keyboard on the master, the mouse on the slave, two managers and a      *)
(* table of one task.  One for multitasking: the timer and the mouse, two  *)
(* tasks and a table that takes one of them twice.                         *)
(***************************************************************************)
EXTENDS Interrupts

CONSTANTS taskA, taskB, first, second

MCOneTask == {taskA}
MCTwoTasks == {taskA, taskB}
MCOneManager == {first}
MCTwoManagers == {first, second}
MCThreeLines == {0, 1, 12}
MCTwoLines == {0, 12}
MCGlitchy == {1, 12}
MCMouseLine == {12}
MCNone == {}

(* A protection fault, for which the processor pushes an error code, and a *)
(* division by zero, for which it pushes none.                             *)
MCProtectionFault == {13}
MCDivideError == {0}
=============================================================================
