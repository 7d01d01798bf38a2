-------------------------------- MODULE Boot --------------------------------
(***************************************************************************)
(* kernelMain from its drivers to its interrupts: the two drivers are      *)
(* constructed and added, the PCI bus is searched for more, all drivers    *)
(* added are activated in their order, and interrupts are turned on.       *)
(* Interrupts are off until then, but devices are not: the keyboard goes   *)
(* on sending what was struck before.                                      *)
(***************************************************************************)
EXTENDS Ps2, Pci

(* The null pointer is no driver.                                          *)
ASSUME BootAssumption == NoDriver \notin {"keyboard", "mouse"}

vars == <<ps2Vars, driverVars, pciVars>>

(* The order of kernelMain.                                                *)
Built == <<"keyboard", "mouse">>

Init == Ps2Init /\ PciInit /\ DriversInit

(* A driver's constructor enters it in the table of handlers; kernelMain   *)
(* adds it to the DriverManager.                                           *)
Construct ==
  /\ at = <<"kernelMain", "construct">>
  /\ LET d == Built[numDrivers + 1]
     IN  InterruptHandler(d, VectorOf(d)) /\ AddDriver(d)
  /\ at' = IF numDrivers + 1 = Len(Built) THEN <<"kernelMain", "scan">> ELSE at
  /\ UNCHANGED <<activated, status, ctl, queue, mouse, typed, reports,
                 seen, events, pciVars>>

Scan ==
  /\ at = <<"kernelMain", "scan">>
  /\ SelectDrivers
  /\ at' = IF scan'.at = "over" THEN Returned ELSE at
  /\ UNCHANGED <<handlers, activated, status, ctl, queue, mouse, typed,
                 reports, seen, events>>

(* A turn of the loop of ActivateAll, or what comes after it.              *)
ActivateAll ==
  /\ at = Returned
  /\ IF Remaining
     THEN EnterActivate(NextDriver) /\ activated' = activated + 1
     ELSE /\ at' = <<"kernelMain", "sti">>
          /\ UNCHANGED <<activated, status, ctl, queue, mouse, typed, reports,
                         seen, events>>
  /\ UNCHANGED <<drivers, handlers, pciVars>>

(* interrupts.Activate()                                                   *)
StartInterrupts ==
  /\ at = <<"kernelMain", "sti">> /\ at' = Running
  /\ UNCHANGED <<status, ctl, queue, mouse, typed, reports, seen, events,
                 driverVars, pciVars>>

KernelMain ==
  \/ Construct
  \/ Scan
  \/ ActivateAll
  \/ Activate /\ UNCHANGED <<driverVars, pciVars>>
  \/ StartInterrupts

Next ==
  \/ KernelMain
  \/ Traffic /\ UNCHANGED <<driverVars, pciVars>>

(* The processor executes, interrupts are taken, devices send what they    *)
(* have when they can; a key is not pressed and a mouse not moved for ever.*)
Fairness ==
  /\ WF_vars(KernelMain)
  /\ WF_vars(KeyboardInterrupt /\ UNCHANGED <<driverVars, pciVars>>)
  /\ WF_vars(MouseInterrupt /\ UNCHANGED <<driverVars, pciVars>>)
  /\ \A s \in Source : WF_vars(Send(s) /\ UNCHANGED <<driverVars, pciVars>>)

Spec == Init /\ [][Next]_vars /\ Fairness
=============================================================================
