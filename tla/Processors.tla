---------------------------- MODULE Processors ----------------------------
(***************************************************************************)
(* What multitasking promises a thread: a processor of its own.  Between   *)
(* two of its instructions nothing changes its registers, its place or     *)
(* its stack, however often it is interrupted or switched away from.       *)
(***************************************************************************)
EXTENDS Integers, Sequences

CONSTANTS
  Thread,
  Length,   \* a thread is a loop of Length instructions
  Found     \* the words each thread finds on its stack when it starts

VARIABLE context   \* Thread -> its registers, its place and its stack

(* A thread's registers hold what its first n instructions left there, its *)
(* instruction pointer is at the next one, and its stack has the words     *)
(* they pushed, for the last instruction of the loop returns.              *)
Registers(t, n) == [word |-> "registers", of |-> t, n |-> n]
Place(t, n) == [word |-> "eip", of |-> t, n |-> n]
Pushed(t, n) == [i \in 1 .. n |-> [word |-> "local", of |-> t, n |-> i]]
After(t, n) == [registers |-> Registers(t, n), eip |-> Place(t, n),
                stack |-> Found[t] \o Pushed(t, n)]

Init == context = [t \in Thread |-> After(t, 0)]

Step(t) ==
  \E n \in 0 .. Length - 1 :
    /\ context[t] = After(t, n)
    /\ context' = [context EXCEPT ![t] = After(t, (n + 1) % Length)]

Next == \E t \in Thread : Step(t)

Spec == Init /\ [][Next]_context
=============================================================================
