---------------------------- MODULE TaskManager ----------------------------
(***************************************************************************)
(* nilos::TaskManager: the table of tasks and the round-robin scheduler.   *)
(* A CPUState* points into a stack: it says whose stack that is, and how   *)
(* many words there are from the end of that stack to the frame's lowest.  *)
(***************************************************************************)
EXTENDS Integers, Sequences

CONSTANTS
  Task,       \* the Task objects
  MaxTasks    \* the length of the table, 256 in the code

ASSUME TaskAssumption == MaxTasks \in Nat \ {0}

VARIABLES
  tasks,         \* the tasks added, in order: tasks[0 .. numTasks - 1]
  currentTask,   \* index of the task that was scheduled last, or -1
  cpustate       \* Task -> Task::cpustate

(* sizeof(CPUState): the seven registers pushed together count as one      *)
(* word, then error, eip, cs, eflags, esp and ss.                          *)
CPUStateWords == 7

taskVars == <<tasks, currentTask, cpustate>>

numTasks == Len(tasks)

(* The task at an index of the C++ table.                                  *)
TaskAt(i) == tasks[i + 1]

(* A Task keeps its first CPUState at the very end of its stack.           *)
TaskInit ==
  /\ tasks = << >>
  /\ currentTask = -1
  /\ cpustate = [t \in Task |-> [of |-> t, height |-> CPUStateWords]]

(* Fault: the table is taken to have one entry more than it has.           *)
FullLate == numTasks > MaxTasks

Full == numTasks >= MaxTasks

(* AddTask returns false, and does nothing, when the table is full.        *)
AddTask(t) ==
  /\ tasks' = IF Full THEN tasks ELSE Append(tasks, t)
  /\ UNCHANGED <<currentTask, cpustate>>

(* Fault: the index is incremented twice.                                  *)
SuccessorSkips(i) == (i + 2) % numTasks

(* ++currentTask, taken round at the end of the table.                     *)
Successor(i) == IF i + 1 >= numTasks THEN (i + 1) % numTasks ELSE i + 1

(* Faults: the old task's pointer is never filed; it is filed under the    *)
(* new task.                                                               *)
FileNothing(esp) == cpustate
FileUnderNew(esp) ==
  IF currentTask >= 0
  THEN [cpustate EXCEPT ![TaskAt(Successor(currentTask))] = esp]
  ELSE cpustate

(* The first call has no old task to file the pointer under: the thread it *)
(* interrupts, kernelMain, is not in the table.                            *)
File(esp) ==
  IF currentTask >= 0
  THEN [cpustate EXCEPT ![TaskAt(currentTask)] = esp]
  ELSE cpustate

(* Schedule(esp) returns the frame to go on with.                          *)
Scheduled(esp) ==
  IF numTasks = 0 THEN esp ELSE File(esp)[TaskAt(Successor(currentTask))]

Schedule(esp) ==
  /\ cpustate' = IF numTasks = 0 THEN cpustate ELSE File(esp)
  /\ currentTask' = IF numTasks = 0
                    THEN currentTask ELSE Successor(currentTask)
  /\ UNCHANGED tasks
=============================================================================
