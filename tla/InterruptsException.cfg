CONSTANTS
  taskA = taskA
  taskB = taskB
  first = first
  second = second
  Main = kernelMain
  None = None
  Task <- MCOneTask
  MaxTasks = 1
  Manager <- MCOneManager
  Line <- MCTwoLines
  Glitchy <- MCNone
  Fault <- MCDivideError
  Length = 2
SPECIFICATION Spec
INVARIANT FrameIsCPUState
