CONSTANTS
  taskA = taskA
  taskB = taskB
  first = first
  second = second
  Main = kernelMain
  None = None
  Task <- MCTwoTasks
  MaxTasks = 3
  Manager <- MCOneManager
  Line <- MCTwoLines
  Glitchy <- MCMouseLine
  Fault <- MCProtectionFault
  Length = 2
SPECIFICATION Spec
PROPERTIES
  ImplementsProcessors
  TurnsComeRound
