----------------------------- MODULE AtomicBus -----------------------------
(***************************************************************************)
(* What xI2C_semaphore promises its users: a task owns the bus from its    *)
(* take to its give, every register access of the owner is one message to  *)
(* its own device, nobody else's message falls between two of them, and    *)
(* the bus is given back when all the accesses of the section are made.    *)
(***************************************************************************)
EXTENDS Naturals

CONSTANTS Tasks, NoTask, Address, Xfers

VARIABLES owner, due, delivered

busVars == <<owner, due, delivered>>

BusInit ==
    /\ owner = NoTask
    /\ due = 0
    /\ delivered.from = NoTask

Acquire(t) ==
    /\ owner = NoTask
    /\ owner' = t
    /\ due' \in Xfers[t]
    /\ delivered' = delivered

\* One access of the owner.  What it reads may make some of those that were
\* due, or all of them, needless; it never adds any.
Access(t) ==
    /\ owner = t
    /\ due > 0
    /\ owner' = t
    /\ due' \in 0..(due - 1)
    /\ delivered' = [to |-> Address[t], from |-> t]

Release(t) ==
    /\ owner = t
    /\ due = 0
    /\ owner' = NoTask
    /\ due' = 0
    /\ delivered' = delivered

BusNext == \E t \in Tasks : Acquire(t) \/ Access(t) \/ Release(t)

BusSpec == BusInit /\ [][BusNext]_busVars

=============================================================================
