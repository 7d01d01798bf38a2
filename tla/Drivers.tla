------------------------------ MODULE Drivers ------------------------------
(***************************************************************************)
(* The two tables that lead to a driver: DriverManager's array, through    *)
(* which kernelMain activates drivers, and InterruptManager's handlers,    *)
(* through which their interrupts reach them.  Nothing in the code keeps   *)
(* the two together: a driver enters one in its constructor and the other  *)
(* because kernelMain adds it.                                             *)
(***************************************************************************)
EXTENDS Integers, Sequences

CONSTANT NoDriver   \* the null Driver* and the null InterruptHandler*

VARIABLES
  drivers,    \* DriverManager::drivers [0 .. numDrivers - 1]
  handlers,   \* InterruptManager::handlers, of the hardware vectors
  activated   \* the loop variable of ActivateAll

driverVars == <<drivers, handlers, activated>>

Vector == 32 .. 47
numDrivers == Len(drivers)

DriversInit ==
  /\ drivers = << >>
  /\ handlers = [v \in Vector |-> NoDriver]
  /\ activated = 0

(* The constructor of InterruptHandler puts the object in the table, over  *)
(* whatever was there.                                                     *)
InterruptHandler(d, v) == handlers' = [handlers EXCEPT ![v] = d]

(* The array has 265 entries and AddDriver does not count them.            *)
AddDriver(d) == drivers' = Append(drivers, d)

(* The loop of ActivateAll: the next driver to be activated.               *)
Remaining == activated < numDrivers
NextDriver == drivers[activated + 1]
=============================================================================
