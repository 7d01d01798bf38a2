CONSTANTS
  taskA = taskA
  taskB = taskB
  first = first
  second = second
  Main = kernelMain
  None = None
  Task <- MCOneTask
  MaxTasks = 1
  Manager <- MCTwoManagers
  Line <- MCThreeLines
  Glitchy <- MCGlitchy
  Fault <- MCProtectionFault
  Length = 2
SPECIFICATION Spec
INVARIANTS
  TypeOK
  StacksBalance
  ServiceMatches
  InterruptsComeBack
PROPERTY LinesAreReleased
