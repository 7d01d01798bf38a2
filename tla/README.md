# NilOS in TLA+

NilOS is a small x86 kernel in C++ with assembler stubs: a boot sequence, a
heap, interrupts and preemptive multitasking, drivers for the PS/2 keyboard and
mouse, and two front ends, a text console and a graphical desktop with windows.
This directory holds TLA+ modules translated from that source, the TLC
configurations that check them on small instances, and proofs for TLAPS.
`PROJECT.json` is the index: components, runs, the source lines each definition
stands for, hazards, findings and theorems.

Everything is run in this directory:

    tlc -workers 2 -config Heap.cfg MCHeap      # a run, see the table below
    tlapm HeapProofs.tla                        # the proofs

## The system

| Part | State it keeps | Operations | Works with |
|---|---|---|---|
| Memory manager (`memorymanagement.cpp`) | list of chunk headers inside the heap | constructor, `malloc`, `free` | `kernelMain`, `operator new` |
| Tasks (`multitasking.cpp`) | `tasks`, `numTasks`, `currentTask`, the frame of each task | `Task`, `AddTask`, `Schedule` | called on every tick by the interrupt manager |
| Interrupts (`interrupts.cpp`, `interruptstubs.s`) | `ActiveInterruptManager`, `handlers`, the descriptor table, the controllers | constructor, `Activate`, `Deactivate`, `HandleInterrupt`, stubs | processor, two 8259, `TaskManager`, drivers |
| Driver manager (`driver.cpp`) | `drivers`, `numDrivers` | `AddDriver`, `ActivateAll` | filled by `kernelMain` and the PCI scan |
| PCI (`pci.cpp`) | loop variables and `BaseAddressRegister` on the stack | `SelectDrivers`, `GetBaseAddressRegister`, `GetDeviceDescriptor` | configuration space of the devices |
| Keyboard, mouse (`keyboard.cpp`, `mouse.cpp`) | `offset`, `buffer`, `buttons` | `Activate`, `HandleInterrupt` | i8042 controller; event handlers (console or desktop) |
| Widgets (`widget.cpp`, `window.cpp`, `desktop.cpp`) | places, children, focus, `Dragging`, pointer | `OnMouseDown/Up/Move`, `GetFocus`, `Draw`, `OnKeyDown` | called from the mouse interrupt and, for drawing, from `kernelMain` |
| Console (`kernel.cpp`) | video memory, cursor of `printf`, mouse cell | `printf`, `OnMouseMove` | called from `kernelMain` and interrupt handlers |
| GDT (`gdt.cpp`) | four descriptors | encode, `Base`, `Limit`, selectors | read by the processor |
| VGA (`vga.cpp`) | the registers of the chip | `SetMode`, `PutPixel`, `FillRectangle` | `kernelMain`, widgets that draw |
| Boot (`kernel.cpp`) | the objects above | `kernelMain` | all |
| Ports, loader, linker script | none of their own | `in`, `out`, `lgdt`, start-up | all |

Two tables lead to a driver: its constructor enters it in `handlers`, through
which its interrupts reach it, and `kernelMain` adds it to the driver manager,
through which it is activated. Nothing keeps the two together.

What is hard here is not sequential code. An interrupt comes between any two
instructions; a tick switches stacks inside a stub that has saved half of a
thread; the controllers remember an interrupt until they are told it is over;
two devices share one byte of buffer and answer when they please; a graphics
chip of unknown state ignores what is written in the wrong order; and the
desktop is painted while packets of the mouse move what is painted. The heap is
sequential but its list is changed by pointer surgery in every call, where only
a long sequence of calls shows a mistake. The `hazards` of `PROJECT.json` list
these places line by line, with the properties that watch them.

What makes each part correct:

- heap: the list covers the heap, blocks are disjoint, neighbours merge, a
  search misses nothing and returns;
- tasks: a thread runs as on a processor of its own, and its turn comes round;
- interrupts: a stack is afterwards as deep as before, every line served is
  released, interrupts are on again;
- boot: every driver added is activated, and its interrupts reach it and no
  other, before interrupts are on;
- PCI: every function of every device is listed once, and the port given for it
  is one of its own as long as only registers it has were asked for it;
- drivers: devices are on, packets and keys arrive whole, once, in order;
- widgets: only dragged windows move, and only with the pointer; keys reach the
  field pressed last;
- VGA: the mode is reached whatever was in the chip's registers;
- drawing: what is seen is what a press reaches, left and upper edge excepted;
- console: one cell is swapped, and the text shown is the text printed.

## Modules

| Module | Models | State and actions against the code |
|---|---|---|
| `Heap` | `MemoryManager` | `chunk` maps the address of a header to its `next`, `prev`, `size`; the flags are the set `allocated`; all sums go through `Wrap` (mod 2^32). `Malloc` enters the loop, `Skip` is one turn of it, `Found` is everything after the loop (split, mark, return), `Fail` returns 0; `Free` is the whole of `free`. `held` is what the callers have. |
| `Allocator` | what the heap promises | blocks handed out, disjoint, inside the region |
| `HeapProofs` | proofs about `Heap` | |
| `TaskManager` | the table and `Schedule` | operators and actions used by `Interrupts`; a `CPUState*` is a record of whose stack it points into and how many words it is from the end of that stack (`height`) |
| `Pic` | two 8259 controllers (hardware) | records of requested and in-service lines; the commands the code sends |
| `Idt` | the descriptor table and the stubs it leads to | `StubOf` is what the constructor's writes leave at a vector, `Passed` the number the stub there stores, `GateDescriptor` the bytes of an entry |
| `Interrupts` | stubs, `InterruptManager`, `kernelMain`, composed with `Pic`, `Idt` and `TaskManager` | `Accept`, `AcceptSpurious`, `Except`: the processor and the first half of a stub, up to the call; `Ignore`, `Dispatch`, `AckMaster`, `AckSlave`: `HandleInterrupt`; `Return`: the second half, which takes five words off whatever stack it is given. `stack` has the words of each thread's stack, from its end to `esp`. `Activate`, `Deactivate`, `Cli`, `SetActive`, `Sti` are the statements of the handover, because interrupts are on there. `Run` is an instruction of a thread: a word of the call it is in, or the return that drops them. |
| `Processors` | what multitasking promises | every thread has a processor of its own: its registers, place and stack are what its own instructions made them |
| `InterruptsProofs` | proofs about `Interrupts` | |
| `Drivers` | driver manager and handler table | `AddDriver`, `InterruptHandler` (the constructor) and the loop of `ActivateAll` |
| `Pci` | `SelectDrivers` | `scan` holds its loop variables and `portBase`; `ExamineDevice`, `GetDeviceDescriptor`, `ExamineBar`, `PrintFunction`, `NextDevice` are the turns of its loops; a `uint32_t` is four bytes |
| `PciProofs` | proofs about `Pci` | |
| `Ps2` | both drivers, with the i8042 and its devices | `Drain` ... `ReadAck` are the port accesses of `Activate`, some of them two at a time; `KeyboardInterrupt` and `MouseInterrupt` are the handlers, found in `handlers`; the keyboard holds keys struck before, the mouse driver what was on the stack |
| `Boot` | `kernelMain` from its drivers to its interrupts, composing `Ps2` and `Pci` over `Drivers` | `Construct`, `Scan`, `ActivateAll`, the steps of `Ps2`'s `Activate`, `StartInterrupts`; holds the specification of the two; `at` is the function `kernelMain` is in and the step there |
| `BootProofs` | proofs about `Ps2` inside `Boot` | |
| `Desktop` | widgets under the mouse | handlers are operators from state to state, `Packet` is the interrupt that calls them, in the order of the driver; `OnKeyDown` is the way of a key to a field |
| `DesktopProofs` | proofs about `Desktop` | |
| `Vga` | the chip's registers, `SetMode`, pixels and colours | each register write of `SetMode` is a turn of `WriteRegister`; protected timing registers, the locked palette and the one port of the attributes are the chip's, and `Left` is the states it may be found in |
| `VgaProofs` | proofs about `Vga` inside `Screen` | |
| `Screen` | the graphical `kernelMain`, on top of `Desktop` and `Vga` | `Prepare` is `SetMode`; then `DrawBackground`, `ReadAcross` (the x of a widget), `DrawWidget` (its y, and the rectangle) alternate with `Interrupt` |
| `Console` | `printf` and `MouseToConsole` | `PrintChar` is a turn of `printf`'s loop, with wrapping and clearing; `OnMouseMove` the handler |
| `ConsoleProofs` | proofs about `Console` | |
| `Gdt` | descriptors, heap region | arithmetic only, proved |
| `MC...` | small instances for TLC | |

A definition whose comment begins with "Fault" is a copy of the definition
below it with a plausible slip. No specification uses it; it is there to be put
in place of the right one, whereupon the property that `mutants` of
`PROJECT.json` names must fail. This is how we know that a property says
something about the code.

Variables and fields described as "nothing reads" (`missed`, `past`, `text`,
`typed`, ...) record the past for properties and influence no step.

### Choices of grain

- All gates are interrupt gates, so a handler runs with interrupts off and is
  one step unless something outside the processor can happen meanwhile. The
  lines of the controllers can rise at any moment, which is why the
  acknowledgement is two steps.
- The instructions between saving a frame and calling `HandleInterrupt` touch
  only the stack of the thread that runs, so they are one step. What the handler
  itself has on that stack is gone when `mov %eax, %esp` sets `esp` to what it
  returned, and is not modelled. (`; add %esp, 6` above that is no comment to the
  assembler, which takes `;` for the end of a statement; the instruction adds
  `esp` to the word at address 6 and leaves `esp` alone.)
- A stack is a sequence of words from its end. The seven general registers are
  one word; error, `eip`, `cs` and `eflags` are one each, and so are the `esp`
  and `ss` at the end of a `CPUState`. The constructor of `Task` reserves those
  last two, an `iret` to the same ring does not take them, and so they stay under
  everything a task pushes. The tasks of `kernel.cpp:135-144` call `printf`, so
  that the frame of a tick lies now higher, now lower: `Run` goes through a call
  of `Length` instructions, one word each.
- In `Ps2` interrupts are off during activation, but devices are not: its port
  accesses are steps of their own, with two exceptions. The test of the status
  bit and the read that follows it (`keyboard.cpp:42-43`) are one step, because a
  full buffer changes only when the driver reads it; one found empty ends the
  loop, and a byte may come right after. A command and the byte that belongs to
  it (0x60 at `keyboard.cpp:47-48`, 0xD4 at `mouse.cpp:59-60`) are one step,
  because the controller does nothing for a command that lacks its byte, so that
  what a device sends between the two it could as well have sent before.
- `SelectDrivers` and `SetMode` run alone, but their loops are where their
  mistakes would be: a turn of a loop is a step. What is in a PCI slot is found
  out when the walk gets there, so that every run of slots is covered.
- `Draw` reads the coordinates of a widget, x and then y of parent and widget,
  and then fills a rectangle with them. An interrupt can come between two widgets
  and between the two coordinates, so that a place may be made of an old x and a
  new y. A field's own coordinates, read after its window's, never change, and
  the loop of `FillRectangle` reads nothing a packet changes.

## Runs

| Run | Question | Bounds, and why they are enough |
|---|---|---|
| `heap` | Is the list in order after any calls? Does the heap implement `Allocator`? | 14 bytes, headers of 2, address space of 17: three blocks fit side by side, so free meets all four combinations of neighbours; the heap ends with the address space and requests go up to the largest `size_t`, so every sum that can wrap does |
| `heap_exact_fit` | Is a request refused only when nothing is big enough? *No.* | the same |
| `interrupts` | Balanced stacks, lines in service, interrupts on | timer, keyboard (master), mouse (slave): all three cases of acknowledgement, spurious 7 and 15; one task, a second one refused, and `kernelMain`; two managers, so that one can take over from the other; a fault with error code; loops of two instructions, so that a frame lies at two heights (63,504 states) |
| `multitasking` | Refinement of `Processors`; round robin | two tasks, a table of three entries, so one task may be in it twice and a fourth is refused; loops of two instructions, so that a pointer filed at the last switch is stale at the next; timer and mouse, whose interrupts may be spurious; the timer is the top line, so that no other is taken before it (92,812 states) |
| `interrupts_handover` | Is every interrupt acknowledged? *No.* | two managers |
| `interrupts_exception` | Is every frame a `CPUState`? *No.* | a division by zero |
| `ps2` | Is every PCI function listed once? Are devices on; do keys and packets arrive? | two buses of two devices, so that both loops end and go on; five kinds of slot: nothing, one function that answers under all eight numbers, functions with a gap, a device without function 0, a bridge with two registers; records that hold garbage of either type; two keys (one without a character), one struck before; two packets, so that buttons go down and up; devices that answer before the next port access (165,300 states) |
| `ps2_late_answer` | Does the buffer hold a packet? *Not if an answer is late.* | one key, two packets |
| `desktop` | Drag and focus | two overlapping windows, a field in each, a 3 by 2 screen, movements below a pixel, of one, and beyond the edge |
| `desktop_drag` | Does only the left button drag? *No.* | the same |
| `screen` | Is the mode reached; is seen what is reached? | a chip in 32 states: all registers at 26 or at 154, two bytes that no entry of the table has, so that a write lost to any register shows; the two timing registers the protection depends on vary on their own, and so do the picture and what the attribute port expects; a row of three pixels, two windows, one field, one button, each widget in a colour of its own (90,685 states) |
| `console` | One cell swapped; the text is shown | a 3 by 3 screen, an `int8_t` of 3 bits so that movements overflow it |

Runs marked *No* look for a counterexample to what a comment of the source says;
`findings` quotes the comment and explains the execution.

- *Exact fit* (`memorymanagement.cpp:42`): `>` where the comment says big enough.
- *Handover* (`interrupts.cpp:177`): the manager is forgotten before `cli`.
  `ServiceMatches` and `LinesAreReleased` hold when such interrupts are set aside
  (`missed`), so this is the only way to lose an acknowledgement.
- *Exceptions* (`interruptstubs.s:12`): no dummy error word, yet one is skipped.
  The passing runs have only exceptions whose error code the processor pushes.
- *Drag* (`window.cpp:28`): the release goes to the front-most window under the
  pointer. `FrontDragHolds` shows that the front window itself is safe.
- *Late answer* (`mouse.cpp:61`): the acknowledgement is read without waiting.
  `ps2` assumes devices that answer in time, and then all is well.

Two texts on PCI contradict properties that hold of the code, and are wrong.
`pci.cpp:91` says "If there is no device then break", but the statement is
`continue`; `FunctionsListedOnce` needs it to be, since a break would overlook the
functions above a gap. The diagram at `pci.h:23-28` ends both kinds of base
address register in a 1; the enum under it (`pci.h:31-35`), the code
(`pci.cpp:147`) and PCI itself have 0 for memory, and so has `PortBaseIsOwn`.

`TypeOK` is the one type invariant of a module. `Desktop`'s pointer and
`Console`'s cursor and mouse are bounded there: they index video memory without
a further test. `Console` allows the overflow of `x += xoffset`
(`kernel.cpp:115`): a fast movement to the right lands at the left edge, but
never off the screen and without a trail.

### Fairness

- `Heap`: the processor keeps executing a call of `malloc` (weak fairness of the
  steps of a call). Nobody has to call or free anything.
- `Interrupts`: the processor executes the stub and `kernelMain`'s statements
  (weak). `Accept` is strongly fair: the processor looks for interrupts after
  every instruction, and a line that is edge triggered stays requested. The
  timer ticks for ever (weak fairness of `Raise(Timer)`), which is what the
  hardware does; other devices owe nothing.
- `Boot`: `kernelMain` goes on, interrupts are taken, devices send what they have.
  Nobody has to press keys or move the mouse. Their number is bounded by
  `MaxKeys` and `MaxReports`, after which the system rests: hence
  `CHECK_DEADLOCK FALSE` there, and only there.
- `Screen`: `kernelMain` goes on, first in `SetMode`, then in its drawing loop
  (weak).

## Proofs

`HeapProofs` proves, for every start address, heap size, header size, word size
and set of requests that `HeapAssumption` allows (the heap does not begin at
address 0 and ends within the address space):

| Theorem | Says |
|---|---|
| `TypeCorrect` | `[]TypeOK` |
| `TilesHeap` | `[]ListTilesHeap` |
| `Coalesced` | `[]NoAdjacentFree` |
| `FlagsAgree` | `[]HeldMatchesFlags` |
| `FirstFit` | `[]SearchMissesNothing` |
| `Disjointness` | `[]BlocksAreDisjoint` |
| `NoFragmentation` | `[]FreedHeapIsWhole` |
| `BlocksStay` | `AllocatedChunksStay` |
| `Refinement` | the heap implements `Allocator` |

The inductive invariant `IInv` is the conjunction of `TypeOK`, `ListTilesHeap`,
`NoAdjacentFree`, `HeldMatchesFlags` and `SearchMissesNothing`. None of them is
inductive alone: sizes stay in range only because the chunks tile the heap; the
tiling survives `free` only because the pointer freed leads to a chunk of the
list; merging with one chunk on each side is enough only because no two
neighbours were free before; and the block `malloc` marks is free of others'
bytes because flags and callers agree. The proof first shows what `Absorb` (a
merge) and `Split` do to a well-formed list, whatever heap it belongs to, then
has one lemma for each operation. `NoOverflow` shows that none of the sums
modulo 2^32 in `malloc` wraps for a chunk that passed the test for size. The
disjointness of blocks and the wholeness of the freed heap follow from `IInv`
without another induction.

`Gdt` proves that a base survives its encoding (`BaseIsKept`), that a limit is
never exceeded and falls short by 4095 bytes at most (`LimitIsTight`, which is
what the comment at `gdt.cpp:48-52` promises), and that the region `kernelMain`
computes satisfies what `Heap` assumes when there are 10,250 KiB or more above
the first MiB (`HeapIsInMemory`).

`ConsoleProofs` proves, for every width and height up to 2^7 (or whatever `Half`
is) and every movement, that the cursor of `printf` and the mouse stay inside
the screen (`TypeCorrect`), that exactly the cell under the mouse is swapped
(`NoTrail`), and that the screen shows the text printed since it was cleared,
every character at its line and column and nothing else (`TextOnScreen`). The
invariant begins with the conjunction of the first two: a swap undoes the
earlier one only because the cell the mouse left is the one that was swapped,
and writes a cell at all only because the mouse is inside the screen. For the
text it also needs `Printed`: the cursor is where the text leads to, and every
character lies in a cell before it, so that the next one overwrites none. A row
is counted, as the number of line ends before a place, rather than added up
along the text; this lets a step compare the text with one more character to the
text before it, with lemmas about the cardinality of finite sets and no
induction. What one character adds to rows and columns is stated in `NextRow` and
`NextStretch`.

`InterruptsProofs` proves, for any tasks, table size, lines, managers and
length of a thread's loop:

| Theorem | Says |
|---|---|
| `TypesHold` | `[]TypeOK` |
| `StacksStayBalanced` | `[]StacksBalance` |
| `InterruptsStayOn` | `[]InterruptsComeBack` |
| `NothingLeftInService` | `[]ServiceMatches` |
| `TasksHaveProcessors` | interrupts and scheduler implement `Processors` |
| `StubsPassTheirVector`, `OffsetIsTheBase`, `GateLeadsToHandler` | a vector reaches the stub that passes it on, for the offset 0x20 and no other |

The first five assume `FaultsPushErrorCode`: the exceptions that occur are those
for which the processor pushes an error code. Without it they are false, which
is what `interrupts_exception` shows. The invariant is in two parts. `Base` is
`TypeOK` with three more conjuncts, of which none is inductive without the
others. `Placed` says of every thread that it is at one of its instructions:
either the processor has its registers and its stack holds the words it has
pushed itself over those its first `iret` left, or all of it is on the stack, a
frame with interrupts on above the same words, *and* the pointer the stub or the
table has for it is the end of that stack. `Current` says that the thread on the
processor, or the one the stub will return to, is the one the scheduler takes
for the current task (or `kernelMain`, before the first tick): without it
`Schedule` might file a pointer under the wrong task. `FlagsKept` says where
interrupts may be off. From `Base` follow `StacksBalance` and
`InterruptsComeBack`, and that each step either leaves the context of every
thread as it was or is a step of one thread in `Processors`; `ScheduleKeeps` is
the lemma about filing pointers, and `Unframing` the one about what the end of
the stub takes from a stack and leaves on it. `Served` adds to `ServiceMatches`
that lines in service are nested: the one being handled ranks above all others
of its chip, so that a non-specific end of interrupt ends that one, and that the
slave is only acknowledged for a line of its own.

`PciProofs` proves, for any number of buses and devices and any configuration
space that keeps to the rules `PciAssumption` writes down, that every function is
listed once (`ListsOnce`) and that its port is its own for as long as the
registers looked at are ones its header type has (`PortIsOwn`): all six of a
device, the first two of a bridge. What a bridge's `portBase` is after the other
four, `PortIsOwn` leaves open, as the code does. The
invariant `PciInv` says what has been listed after each function number and what
`portBase` is after each register. It needs that a register address decodes to
the function and the register it was made of, for every bus, device and function;
`AddressesDiffer` states the same of whole addresses.

`VgaProofs` proves, of `Screen`:

| Theorem | Says |
|---|---|
| `ModeReached` | `[]ModeIsSet`, from any byte in any register (`Left` is any subset of `Chip`), with drawing loop and mouse running afterwards |
| `PixelsHaveBytes` | in that mode every pixel has a byte of its own in the 64 KiB of video memory |
| `DrawingIsUnseen` | `Screen` implements `Desktop`, whose theorems therefore hold while the screen is drawn |
| `PictureIsReached` | `[]SeenIsReached`, for any screen, windows, fields and movements: at every pixel but those where the widget reached begins left of or above the screen, and without the cross of the pointer |

The invariant for the mode has a part for each loop: groups already written hold
their values, the group being written holds them up to the loop variable, the
timing registers stay unprotected from `Unlock` on, also while register 17 is
written, and the picture is off while the palette is written.

The invariant for the picture, `Picture`, says that fields stay where they are in
their window, whatever the mouse does, and that a pass has painted the beginning
of `DrawOrder`, each widget where it is now unless something has moved.
`HalfRead` says the same of the x that has been read and not yet used. The rest
is about one pixel. `DrawnBackToFront` describes the order of drawing: after a
window come only its fields and what belongs to windows in front of it, after a
field only fields in front of it and, again, windows in front. `FirstFound`
describes the search, which has asked and passed over just these when it ends at
a widget. `CoveredPixels` joins the two: what covers a pixel, in the coordinates
of the screen and with the mixed signs of `FillRectangle`, contains it in the
coordinates of the search, and the other way round when the widget does not
begin left of or above the screen. `Colours` adds that the palette takes an
index back to its colour.

`PictureAssumption`, in `Screen`, is what this needs of the widgets: a widget has
one place; a field lies inside its window, because nothing clips, and one that
sticks out is painted where no press reaches it; places fit a word; and the
colours are those `GetColorIndex` knows, as all others come out black. The
windows of `kernelMain` satisfy it: they have no fields, and their colours are
`0xA8` red and green on the desktop's blue.

`BootProofs` proves, for any keys, struck before or pressed later, any number of
packets and any PCI slots:

| Theorem | Says |
|---|---|
| `BothDevicesOn` | `[]DevicesOn` |
| `PacketsArriveWhole` | `[]PacketsInOrder` |
| `KeysArrive` | `[]KeysInOrder` |
| `TypeCorrect` | `[]TypeOK` |

All four assume `Prompt`, devices that answer before the next port access, and
the run `ps2_late_answer` shows how packets are torn without it. Keys are struck
before the drivers are constructed or once interrupts are on, not in between.
The invariant has three parts. `Activation` says at each step of `kernelMain` which
bits the command byte has and which bytes are on their way: after the drain the
keyboard is silent, because a prompt keyboard leaves nothing behind an empty
buffer, so what is read is the controller's answer, and the acknowledgement the
keyboard driver never reads is the one the mouse driver drains. It also knows
that vector 44 is not the keyboard's, without which the keyboard driver could
eat a byte of the mouse. `Stream` holds from then on. It counts: bytes taken,
plus the one in the buffer if it is the mouse's, plus those queued are three for
each packet; and every byte on its way, and every byte of the packet half read,
is the one sent at its place. From this a packet is whole when its last byte is
taken, and the buttons remembered are those of the packet before. `KeyStream`
does the same for the keyboard, with two bytes for each key: the handler has been
told of as many keys as there are keys with a character among those whose first
byte was taken, so the next one it is told of is the next of these. Keys struck
before the drivers are constructed were drained; they are not among them.

`DesktopProofs` proves, for any screen, windows, fields and movements:

| Theorem | Says |
|---|---|
| `WindowsFollowMouse` | `WindowsMoveWithMouse`: only dragged windows move, as far as the pointer and once; the dragged one under the pointer does |
| `FrontIsDragged` | `[]FrontDragHolds`, when there is a window |
| `KeysFollowPresses` | `[]KeysReachLastPressed` |
| `TypeCorrect` | `[]TypeOK` |

The invariant is that the state of the widgets is of its type and that the chain
of focussed children ends at the field pressed last; a press replaces the chain
from the desktop down, everything else leaves it. A mouse event searches the
children for the first that contains the point, once for the old and once for
the new point. `ChildAtFound` shows that what a search finds contains the
point, and that the front window, which comes first, is found wherever it lies
as long as it is under the pointer; it follows from `FirstFound`, which rests on
the least element of a set of numbers, by well-foundedness. `Searches` adds that
the places of the children are all a search depends on. `MovedAlong` is why a
window moved with the pointer is still under it, also where the edge of the
screen stopped the pointer.

Every invariant and every action property of the passing runs has a theorem.
Only model-checked is liveness (`MallocReturns`, `LinesAreReleased`,
`TurnsComeRound`, `EverythingArrives`, `ScreenCatchesUp`), which rests on
fairness and `ENABLED`; the prover does not handle these.

Two properties were put into a form the prover can reason about: `ShowsText` and
`KeysInOrder` count places with `Cardinality` where a fold or a filter, both
recursive in the library, would build a sequence. `DrawOrder` still joins
sequences with the library's recursive function; what it holds of sequences of
every length is proved by contradiction from the first length at which it fails.

## What is not modelled

- The destructor of `InterruptHandler`, which no object of `kernelMain` reaches
  while interrupts are on, and a driver with a null event handler.
- The controller's `Write` for configuration space, which nothing calls;
  `GetDriver` returns no driver in this version of the code, so no driver found
  by the scan is ever added. `portBase` of a bridge may be garbage of the stack
  once the registers it lacks have been looked at: `Pci` has that behaviour,
  `PortBaseIsOwn` says nothing of it, no code reads it.
- `operator new` and `delete`: they forward to `malloc` and `free`; no code of
  the program calls them yet.
- `free` of a pointer that `malloc` did not return: the code does not defend
  itself, so its behaviour is undefined and the guard of `Free` excludes it.
- The allocator or `printf` preempted by a task: the tasks are commented out in
  `kernelMain`, and it allocates before interrupts are on.
- Keys struck while the drivers are being activated, between the loop that
  empties the buffer and the read of the command byte: nothing in the code keeps
  them out, and one taken for the command byte could leave a device off. Those
  struck before are modelled. A key that is held repeats its code; the keyboard
  of the model sends it once.
- Where a widget that begins left of or above the screen should be painted, and
  where the mouse of the console should be after an overflow: the code has its
  way, the models have it too, and no text says whether that is meant.
- `AddChild`: the children are constants, as they are added before interrupts
  are on. The bound of a composite's and of the driver manager's array.
- The descriptors of `Gdt` and the bytes of a gate in `Idt` are arithmetic: only
  theorems are about them, and no run reads them, but that `Interrupts` takes the
  stub of a vector from `Idt`.
- Ports, the loader, the `lgdt` instruction, the cross of the pointer, and all
  wording of messages.
- The processor itself beyond what the stubs rely on: no nested faults, one
  privilege level.

## Plan

Done, in the order of importance: heap; scheduler, controllers and interrupts
with their composition; PS/2 drivers; boot with handler table, driver manager
and PCI scan; desktop; VGA and drawing loop; console; descriptors. All of them
have proofs.

Next, in this order:

1. Devices that speak during activation: which of `BothDevicesOn` and
   `PacketsArriveWhole` survives a key struck between the drain and the read.
2. `printf` and `malloc` under preemption, and `AddTask` while the timer runs, as
   soon as tasks use them.
