---------------------------- MODULE I2CBusProofs ----------------------------
(***************************************************************************)
(* Proofs about I2CBus, for any set of tasks, addresses and access counts. *)
(***************************************************************************)
EXTENDS I2CBus, TLAPS

\* An access is in progress only while the task still has accesses to make.
AccessCounted ==
    \A t \in Tasks : pc[t] \in {"begun", "loaded"} => left[t] > 0

\* Without i2cdetect the Wire object belongs to the task in the middle of an
\* access, and is closed when there is none.
WireOwned ==
    /\ console.step = "idle"
    /\ wire.open => \E t \in Tasks : pc[t] \in {"begun", "loaded"}
    /\ \A t \in Tasks :
        /\ pc[t] = "begun" => wire = [open |-> TRUE, to |-> Address[t], load |-> NoTask]
        /\ pc[t] = "loaded" => wire = [open |-> TRUE, to |-> Address[t], load |-> t]

LockInv == TypeOK /\ AccessCounted /\ MutualExclusion /\ OnlyBaroLeaks

WireInv == WireOwned /\ Routed

-----------------------------------------------------------------------------
(* The lock: type correctness, mutual exclusion, who may lose the mutex.   *)

\* Init satisfies the lock invariant.
LEMMA LockInit == Init => LockInv
  BY BusAssumption
     DEF Init, LockInv, TypeOK, AccessCounted, MutualExclusion, OnlyBaroLeaks,
         Leaked, InCritical, Critical, Message

\* What endTransmission puts on the bus is a message.
LEMMA SentType == ASSUME TypeOK PROVE Sent \in Message /\ Closed \in [open : BOOLEAN, to : Nat, load : Tasks \cup {NoTask}]
  BY DEF TypeOK, Sent, Closed, Message

\* An access, and what it makes needless, brings the end of the section nearer.
LEMMA LeftFalls ==
  ASSUME LockInv, NEW t \in Tasks, pc[t] = "loaded"
  PROVE  LeftAfter(t) \in Nat /\ LeftAfter(t) < left[t]
<1>1. left[t] \in Nat /\ left[t] > 0
  BY DEF LockInv, TypeOK, AccessCounted
<1>2. MeasureXfers \in Nat \ {0, 1} /\ ValueXfers \in Nat \ {0}
  BY BusAssumption
<1> QED
  BY <1>1, <1>2 DEF LeftAfter, ReadsMode, ReadsStatus

\* An access keeps the types of what is known about the BMP280.
LEMMA BmpType ==
  ASSUME LockInv, NEW t \in Tasks, BmpAccess(t)
  PROVE  bmp' \in {"sleep", "measuring"} /\ hasValue' \in BOOLEAN
  BY DEF LockInv, BmpAccess, TypeOK

\* Every step of a task keeps the lock invariant.
LEMMA LockTask ==
  ASSUME LockInv, NEW t \in Tasks, TaskStep(t)
  PROVE  LockInv'
<1> USE BusAssumption DEF LockInv, AccessCounted, MutualExclusion,
        OnlyBaroLeaks, Leaked, InCritical, Critical
<1>1. CASE Wake(t)
  BY <1>1 DEF Wake, TypeOK
<1>2. CASE TakeSemaphore(t)
  BY <1>2 DEF TakeSemaphore, SemaphoreAvailable, TypeOK
<1>3. CASE TakeTimeout(t)
  BY <1>3 DEF TakeTimeout, AfterTimeout, TypeOK
<1>4. CASE GiveSemaphore(t)
  BY <1>4 DEF GiveSemaphore, AccessesDone, GivenTo, TypeOK
<1>5. CASE BeginTransmission(t)
  BY <1>5 DEF BeginTransmission, HasAccess, Opened, TypeOK
<1>6. CASE WriteBytes(t)
  BY <1>6 DEF WriteBytes, Loaded, TypeOK
<1>7. CASE EndTransmission(t)
  <2>1. Sent \in Message /\ Closed \in [open : BOOLEAN, to : Nat, load : Tasks \cup {NoTask}]
    BY SentType
  <2>2. LeftAfter(t) \in Nat
    BY <1>7, LeftFalls DEF EndTransmission
  <2>3. bmp' \in {"sleep", "measuring"} /\ hasValue' \in BOOLEAN
    BY <1>7, BmpType DEF EndTransmission
  <2>4. TypeOK'
    BY <1>7, <2>1, <2>2, <2>3 DEF EndTransmission, TypeOK
  <2> QED
    BY <1>7, <2>4 DEF EndTransmission, TypeOK
<1>8. CASE MeasureFailed(t)
  <2>1. Sent \in Message /\ Closed \in [open : BOOLEAN, to : Nat, load : Tasks \cup {NoTask}]
    BY SentType
  <2>2. bmp' \in {"sleep", "measuring"} /\ hasValue' \in BOOLEAN
    BY <1>8, BmpType DEF MeasureFailed
  <2>3. TypeOK'
    BY <1>8, <2>1, <2>2 DEF MeasureFailed, TypeOK
  <2> QED
    BY <1>8, <2>3 DEF MeasureFailed, MeasureReturns, InMeasure, TypeOK
<1> QED
  BY <1>1, <1>2, <1>3, <1>4, <1>5, <1>6, <1>7, <1>8 DEF TaskStep

\* The console and the sensor leave the lock alone.
LEMMA LockOther ==
  ASSUME LockInv, ConsoleStep \/ ConversionEnds
  PROVE  LockInv'
<1> USE BusAssumption DEF LockInv, AccessCounted, MutualExclusion,
        OnlyBaroLeaks, Leaked, InCritical, Critical
<1>0. Sent \in Message /\ Closed \in [open : BOOLEAN, to : Nat, load : Tasks \cup {NoTask}]
  BY SentType
<1>1. CASE ScanCommand
  BY <1>1 DEF ScanCommand, TypeOK
<1>2. CASE ProbeBegin
  <2>1. PICK a \in console.rest :
             /\ wire' = [open |-> TRUE, to |-> a, load |-> NoTask]
             /\ console' = [step |-> "begun", at |-> a, rest |-> console.rest \ {a}]
    BY <1>2 DEF ProbeBegin, Opened
  <2>2. console.rest \subseteq Nat
    BY DEF TypeOK
  <2>3. TypeOK'
    BY <1>2, <2>1, <2>2 DEF ProbeBegin, TypeOK
  <2> QED
    BY <1>2, <2>3 DEF ProbeBegin, TypeOK
<1>3. CASE ProbeEnd
  BY <1>0, <1>3 DEF ProbeEnd, TypeOK
<1>4. CASE ScanDone
  BY <1>4 DEF ScanDone, TypeOK
<1>5. CASE ConversionEnds
  BY <1>5 DEF ConversionEnds, TypeOK
<1> QED
  BY <1>1, <1>2, <1>3, <1>4, <1>5 DEF ConsoleStep

\* The lock invariant is inductive.
LEMMA LockStep == LockInv /\ [Next]_vars => LockInv'
<1> SUFFICES ASSUME LockInv, [Next]_vars PROVE LockInv'
  OBVIOUS
<1>1. CASE UNCHANGED vars
  BY <1>1 DEF vars, LockInv, TypeOK, AccessCounted, MutualExclusion,
              OnlyBaroLeaks, Leaked, InCritical
<1>2. CASE \E t \in Tasks : TaskStep(t)
  BY <1>2, LockTask
<1>3. CASE ConsoleStep \/ ConversionEnds
  BY <1>3, LockOther
<1> QED
  BY <1>1, <1>2, <1>3 DEF Next

\* In every behaviour every state satisfies the lock invariant.
LEMMA LockAlways == Spec => []LockInv
  BY LockInit, LockStep, PTL DEF Spec

\* The variables of the bus model keep their types.
THEOREM TypeCorrect == Spec => []TypeOK
<1>1. LockInv => TypeOK
  BY DEF LockInv
<1> QED
  BY <1>1, LockAlways, PTL

\* Only the owner of xI2C_semaphore is between take and give, with i2cdetect,
\* timeouts and failing measurements included.
THEOREM BusMutualExclusion == Spec => []MutualExclusion
<1>1. LockInv => MutualExclusion
  BY DEF LockInv
<1> QED
  BY <1>1, LockAlways, PTL

\* The only way to lose the mutex is the `continue` of BaroTask.
THEOREM LeakOrigin == Spec => []OnlyBaroLeaks
<1>1. LockInv => OnlyBaroLeaks
  BY DEF LockInv
<1> QED
  BY <1>1, LockAlways, PTL

-----------------------------------------------------------------------------
(* The wire: without i2cdetect, no task's access mixes with another's.     *)

\* Init satisfies the wire invariant.
LEMMA WireInit == Init => WireInv
  BY BusAssumption DEF Init, WireInv, WireOwned, Routed

\* Every step of a task keeps the wire invariant.
LEMMA WireTask ==
  ASSUME LockInv, WireInv, NEW t \in Tasks, TaskStep(t)
  PROVE  WireInv'
<1> USE BusAssumption DEF WireInv, WireOwned
<1>0. \A u \in Tasks : u # t /\ InCritical(t) => ~InCritical(u)
  BY DEF LockInv, MutualExclusion
<1>a. LockInv => TypeOK
  BY DEF LockInv
<1>1. CASE Wake(t)
  BY <1>1, <1>a DEF Wake, TypeOK, Routed
<1>2. CASE TakeSemaphore(t)
  BY <1>2, <1>a DEF TakeSemaphore, TypeOK, Routed
<1>3. CASE TakeTimeout(t)
  BY <1>3, <1>a DEF TakeTimeout, AfterTimeout, TypeOK, Routed
<1>4. CASE GiveSemaphore(t)
  BY <1>4, <1>a DEF GiveSemaphore, AccessesDone, TypeOK, Routed
<1>5. CASE BeginTransmission(t)
  <2>1. \A u \in Tasks : u # t => pc[u] \notin {"begun", "loaded"}
    BY <1>0, <1>5 DEF BeginTransmission, InCritical, Critical
  <2>2. pc'[t] = "begun" /\ \A u \in Tasks : u # t => pc'[u] = pc[u]
    BY <1>5, <1>a DEF BeginTransmission, TypeOK
  <2>3. wire' = [open |-> TRUE, to |-> Address[t], load |-> NoTask]
    BY <1>5 DEF BeginTransmission, Opened
  <2>4. UNCHANGED <<console, delivered>>
    BY <1>5 DEF BeginTransmission
  <2>5. Routed'
    BY <2>4 DEF Routed
  <2> QED
    BY <2>1, <2>2, <2>3, <2>4, <2>5
<1>6. CASE WriteBytes(t)
  <2>1. \A u \in Tasks : u # t => pc[u] \notin {"begun", "loaded"}
    BY <1>0, <1>6 DEF WriteBytes, InCritical, Critical
  <2>2. pc'[t] = "loaded" /\ \A u \in Tasks : u # t => pc'[u] = pc[u]
    BY <1>6, <1>a DEF WriteBytes, TypeOK
  <2>3. wire' = [open |-> TRUE, to |-> Address[t], load |-> t]
    <3>1. wire = [open |-> TRUE, to |-> Address[t], load |-> NoTask]
      BY <1>6 DEF WriteBytes
    <3>2. wire' = [wire EXCEPT !.load = t]
      BY <1>6, <3>1 DEF WriteBytes, Loaded
    <3> HIDE DEF WireInv, WireOwned
    <3> QED
      BY ONLY <3>1, <3>2
  <2>4. UNCHANGED <<console, delivered>>
    BY <1>6 DEF WriteBytes
  <2>5. Routed'
    BY <2>4 DEF Routed
  <2> QED
    BY <2>1, <2>2, <2>3, <2>4, <2>5
<1>7. CASE pc[t] = "loaded" /\ delivered' = Sent /\ wire' = Closed
           /\ (\E l \in {"held", "take"} : pc' = [pc EXCEPT ![t] = l])
           /\ UNCHANGED console
  <2>1. delivered' = [to |-> Address[t], from |-> t]
    BY <1>7 DEF Sent
  <2>2. Routed'
    BY <2>1 DEF Routed
  <2>3. ~wire'.open
    BY <1>7, <1>a DEF Closed, TypeOK
  <2>4. \A u \in Tasks : pc'[u] \notin {"begun", "loaded"}
    BY <1>0, <1>7, <1>a DEF TypeOK, InCritical, Critical
  <2> QED
    BY <1>7, <2>2, <2>3, <2>4
<1>8. CASE EndTransmission(t)
  BY <1>7, <1>8 DEF EndTransmission
<1>9. CASE MeasureFailed(t)
  BY <1>7, <1>9 DEF MeasureFailed
<1> QED
  BY <1>1, <1>2, <1>3, <1>4, <1>5, <1>6, <1>8, <1>9 DEF TaskStep

\* The wire invariant is inductive while i2cdetect is never typed.
LEMMA WireStep ==
  ASSUME ~ConsoleScans
  PROVE  LockInv /\ WireInv /\ [Next]_vars => WireInv'
<1> SUFFICES ASSUME LockInv, WireInv, [Next]_vars PROVE WireInv'
  OBVIOUS
<1>1. CASE UNCHANGED vars
  BY <1>1 DEF vars, WireInv, WireOwned, Routed
<1>2. CASE \E t \in Tasks : TaskStep(t)
  BY <1>2, WireTask
<1>3. CASE ConsoleStep
  BY <1>3 DEF ConsoleStep, ScanCommand, ProbeBegin, ProbeEnd, ScanDone,
              WireInv, WireOwned
<1>4. CASE ConversionEnds
  BY <1>4 DEF ConversionEnds, WireInv, WireOwned, Routed
<1> QED
  BY <1>1, <1>2, <1>3, <1>4 DEF Next

\* Without i2cdetect every state satisfies the wire invariant.
LEMMA WireAlways ==
  ASSUME ~ConsoleScans
  PROVE  Spec => []WireInv
<1>1. LockInv /\ WireInv /\ [Next]_vars => WireInv'
  BY WireStep
<1> QED
  BY <1>1, LockAlways, WireInit, PTL DEF Spec

\* Without i2cdetect every message reaches the device of the task that wrote
\* it, for any number of tasks.
THEOREM MessagesRouted ==
  ASSUME ~ConsoleScans
  PROVE  Spec => []Routed
<1>1. WireInv => Routed
  BY DEF WireInv
<1>2. Spec => []WireInv
  BY WireAlways
<1> QED
  BY <1>1, <1>2, PTL

\* Without i2cdetect the bus is quiet whenever the mutex is free.
THEOREM BusQuietWhenFree ==
  ASSUME ~ConsoleScans
  PROVE  Spec => []QuietWhenFree
<1>1. LockInv /\ WireInv => QuietWhenFree
  BY BusAssumption DEF LockInv, WireInv, WireOwned, QuietWhenFree,
     MutualExclusion, InCritical, Critical
<1>2. Spec => []WireInv
  BY WireAlways
<1> QED
  BY <1>1, <1>2, LockAlways, PTL

-----------------------------------------------------------------------------
(* The abstract bus: accesses in three steps are atomic messages.          *)

\* An access that ends puts its own task's message on the bus: nobody has
\* touched the buffer since beginTransmission.
LEMMA AccessIsMessage ==
  ASSUME LockInv, WireInv, NEW t \in Tasks, pc[t] = "loaded"
  PROVE  holder = t /\ left[t] > 0 /\ Sent = [to |-> Address[t], from |-> t]
<1>1. holder = t /\ left[t] > 0
  BY DEF LockInv, AccessCounted, MutualExclusion, InCritical, Critical
<1>2. wire = [open |-> TRUE, to |-> Address[t], load |-> t]
  BY DEF WireInv, WireOwned
<1>3. Sent = [to |-> Address[t], from |-> t]
  BY <1>2 DEF Sent
<1> QED
  BY <1>1, <1>3

\* Every step of a task is a step of the abstract bus or stutters.
LEMMA TaskIsBusStep ==
  ASSUME LockInv, WireInv, NEW t \in Tasks, TaskStep(t)
  PROVE  [Bus!BusNext]_(Bus!busVars)
<1> USE BusAssumption DEF Bus!busVars
<1>a. TypeOK
  BY DEF LockInv
<1>1. CASE Wake(t) \/ TakeTimeout(t)
  BY <1>1 DEF Wake, TakeTimeout
<1>2. CASE BeginTransmission(t) \/ WriteBytes(t)
  BY <1>2 DEF BeginTransmission, WriteBytes
<1>3. CASE TakeSemaphore(t)
  <2>1. /\ holder = NoTask /\ holder' = t /\ delivered' = delivered
        /\ left'[t] \in Xfers[t]
    BY <1>3, <1>a DEF TakeSemaphore, SemaphoreAvailable, TypeOK
  <2>2. Bus!Acquire(t)
    BY <2>1 DEF Bus!Acquire
  <2> QED
    BY <2>2 DEF Bus!BusNext
<1>4. CASE GiveSemaphore(t)
  <2>1. pc[t] = "held" /\ left[t] = 0
    BY <1>4 DEF GiveSemaphore, AccessesDone
  <2>2. holder = t
    BY <2>1 DEF LockInv, MutualExclusion, InCritical, Critical
  <2>3. holder' = NoTask /\ delivered' = delivered
    BY <1>4 DEF GiveSemaphore, GivenTo
  <2>4. Bus!Release(t)
    BY <2>1, <2>2, <2>3 DEF Bus!Release
  <2> QED
    BY <2>4 DEF Bus!BusNext
<1>5. CASE EndTransmission(t) \/ MeasureFailed(t)
  <2>1. /\ pc[t] = "loaded" /\ holder' = holder /\ delivered' = Sent
        /\ left'[t] \in {LeftAfter(t), 0}
    BY <1>5, <1>a DEF EndTransmission, MeasureFailed, TypeOK
  <2>2. holder = t /\ left[t] > 0 /\ Sent = [to |-> Address[t], from |-> t]
    BY <2>1, AccessIsMessage
  <2>a. left'[t] \in 0..(left[t] - 1)
    BY <2>1, <2>2, <1>a, LeftFalls DEF TypeOK
  <2>3. Bus!Access(t)
    BY <2>1, <2>2, <2>a DEF Bus!Access
  <2> QED
    BY <2>3 DEF Bus!BusNext
<1> QED
  BY <1>1, <1>2, <1>3, <1>4, <1>5 DEF TaskStep

\* Without i2cdetect the tasks, their timed takes and the shared Wire buffer
\* implement the abstract bus: what a task does between take and give is a
\* sequence of messages of its own, and nobody else's is among them.
THEOREM ImplementsAtomicBus ==
  ASSUME ~ConsoleScans
  PROVE  Spec => ImplementsBus
<1>1. Init => Bus!BusInit
  BY DEF Init, Bus!BusInit
<1>2. LockInv /\ WireInv /\ [Next]_vars => [Bus!BusNext]_(Bus!busVars)
  <2> SUFFICES ASSUME LockInv, WireInv, [Next]_vars
               PROVE  [Bus!BusNext]_(Bus!busVars)
    OBVIOUS
  <2>1. CASE UNCHANGED vars
    BY <2>1 DEF vars, Bus!busVars
  <2>2. CASE \E t \in Tasks : TaskStep(t)
    BY <2>2, TaskIsBusStep
  <2>3. CASE ConsoleStep
    BY <2>3 DEF ConsoleStep, ScanCommand, ProbeBegin, ProbeEnd, ScanDone,
       WireInv, WireOwned
  <2>4. CASE ConversionEnds
    BY <2>4 DEF ConversionEnds, Bus!busVars
  <2> QED
    BY <2>1, <2>2, <2>3, <2>4 DEF Next
<1>3. Spec => []WireInv
  BY WireAlways
<1> QED
  BY <1>1, <1>2, <1>3, LockAlways, PTL DEF Spec, ImplementsBus, Bus!BusSpec

-----------------------------------------------------------------------------
(* A lost mutex, with i2cdetect on the bus or not.                         *)

\* Bytes in the buffer belong to a task that is about to send them.
LoadOwned == \A t \in Tasks : wire.load = t => pc[t] = "loaded"

\* Every step of a task keeps it.
LEMMA LoadTask ==
  ASSUME LockInv, LoadOwned, NEW t \in Tasks, TaskStep(t)
  PROVE  LoadOwned'
<1> USE BusAssumption DEF LoadOwned
<1>a. TypeOK
  BY DEF LockInv
<1>0. \A u \in Tasks : u # t /\ InCritical(t) => ~InCritical(u)
  BY DEF LockInv, MutualExclusion
<1>1. CASE Wake(t) \/ TakeTimeout(t) \/ TakeSemaphore(t) \/ GiveSemaphore(t)
  BY <1>1, <1>a DEF Wake, TakeTimeout, AfterTimeout, TakeSemaphore,
     GiveSemaphore, AccessesDone, TypeOK
<1>2. CASE BeginTransmission(t)
  BY <1>2, <1>a DEF BeginTransmission, Opened, TypeOK
<1>3. CASE WriteBytes(t)
  <2>1. \A u \in Tasks : u # t => wire.load # u
    BY <1>0, <1>3 DEF WriteBytes, InCritical, Critical
  <2>2. \A u \in Tasks : u # t => wire'.load # u
    BY <1>3, <1>a, <2>1 DEF WriteBytes, Loaded, TypeOK
  <2>3. pc'[t] = "loaded"
    BY <1>3, <1>a DEF WriteBytes, TypeOK
  <2> QED
    BY <2>2, <2>3
<1>4. CASE EndTransmission(t) \/ MeasureFailed(t)
  <2>1. wire' = Closed
    BY <1>4 DEF EndTransmission, MeasureFailed
  <2>2. wire'.load = NoTask
    BY <2>1, <1>a DEF Closed, TypeOK
  <2> QED
    BY <2>2
<1> QED
  BY <1>1, <1>2, <1>3, <1>4 DEF TaskStep

\* Every step keeps it.
LEMMA LoadStep == LockInv /\ LoadOwned /\ [Next]_vars => LoadOwned'
<1> SUFFICES ASSUME LockInv, LoadOwned, [Next]_vars PROVE LoadOwned'
  OBVIOUS
<1>1. CASE UNCHANGED vars
  BY <1>1 DEF vars, LoadOwned
<1>2. CASE \E t \in Tasks : TaskStep(t)
  BY <1>2, LoadTask
<1>3. CASE ConsoleStep \/ ConversionEnds
  <2>1. wire' = wire \/ wire'.load = NoTask
    <3>1. CASE ProbeBegin
      BY <3>1 DEF ProbeBegin, Opened
    <3>2. CASE ProbeEnd
      BY <3>2 DEF ProbeEnd, Closed, LockInv, TypeOK
    <3>3. CASE ScanCommand \/ ScanDone \/ ConversionEnds
      BY <3>3 DEF ScanCommand, ScanDone, ConversionEnds
    <3> QED
      BY <1>3, <3>1, <3>2, <3>3 DEF ConsoleStep
  <2>2. pc' = pc
    BY <1>3 DEF ConsoleStep, ScanCommand, ProbeBegin, ProbeEnd, ScanDone,
       ConversionEnds
  <2> QED
    BY <2>1, <2>2, BusAssumption DEF LoadOwned
<1> QED
  BY <1>1, <1>2, <1>3 DEF Next

\* In every behaviour bytes in the buffer have such an owner.
LEMMA LoadAlways == Spec => []LoadOwned
<1>1. Init => LoadOwned
  BY BusAssumption DEF Init, LoadOwned
<1> QED
  BY <1>1, LockAlways, LoadStep, PTL DEF Spec

\* Once BaroTask has left with the mutex, no step gives it to anybody and no
\* task puts a byte on the bus, whether or not i2cdetect runs.
THEOREM LostMutexIsForever == Spec => LeakIsForever
<1> DEFINE Silent == /\ UNCHANGED <<holder, left>>
                     /\ delivered' = delivered \/ delivered'.from = NoTask
<1>1. LockInv /\ LoadOwned /\ [Next]_vars => [Leaked => Silent]_vars
  <2> SUFFICES ASSUME LockInv, LoadOwned, Next, Leaked
               PROVE  Silent
    BY DEF vars
  <2>1. \A t \in Tasks : ~InCritical(t)
    BY DEF LockInv, MutualExclusion, Leaked
  <2>2. CASE \E t \in Tasks : TaskStep(t)
    <3>1. PICK t \in Tasks : TaskStep(t)
      BY <2>2
    <3>2. pc[t] \notin {"held", "begun", "loaded"}
      BY <2>1 DEF InCritical, Critical
    <3> QED
      BY <3>1, <3>2 DEF TaskStep, Wake, TakeSemaphore, SemaphoreAvailable,
         Leaked, TakeTimeout, GiveSemaphore, AccessesDone, BeginTransmission,
         WriteBytes, EndTransmission, MeasureFailed
  <2>3. CASE ConsoleStep
    <3>1. wire.load = NoTask
      BY <2>1 DEF LoadOwned, InCritical, Critical, LockInv, TypeOK
    <3> QED
      BY <2>3, <3>1 DEF ConsoleStep, ScanCommand, ProbeBegin, ProbeEnd, Sent,
         ScanDone
  <2>4. CASE ConversionEnds
    BY <2>4 DEF ConversionEnds
  <2> QED
    BY <2>2, <2>3, <2>4 DEF Next
<1> QED
  BY <1>1, LockAlways, LoadAlways, PTL DEF Spec, LeakIsForever

-----------------------------------------------------------------------------
(* i2cdetect on the bus: where a task's bytes can go astray.               *)

\* An open transmission goes to the device of the task that is in an access, or
\* to the address whose probe is in progress.
Confined ==
    \A t \in Tasks :
        pc[t] \in {"begun", "loaded"} /\ wire.open =>
            \/ wire.to = Address[t]
            \/ console.step = "begun" /\ wire.to = console.at

\* Every step of a task keeps that.
LEMMA ConfinedTask ==
  ASSUME LockInv, Confined, NEW t \in Tasks, TaskStep(t)
  PROVE  Confined'
<1> USE BusAssumption DEF Confined
<1>a. TypeOK
  BY DEF LockInv
<1>b. console' = console
  BY DEF TaskStep, Wake, TakeSemaphore, TakeTimeout, GiveSemaphore,
     BeginTransmission, WriteBytes, EndTransmission, MeasureFailed
<1>0. \A u \in Tasks : u # t /\ InCritical(t) => pc[u] \notin {"begun", "loaded"}
  BY DEF LockInv, MutualExclusion, InCritical, Critical
<1>1. CASE Wake(t) \/ TakeTimeout(t) \/ TakeSemaphore(t) \/ GiveSemaphore(t)
  BY <1>1, <1>a, <1>b DEF Wake, TakeTimeout, AfterTimeout, TakeSemaphore,
     GiveSemaphore, AccessesDone, TypeOK
<1>2. CASE BeginTransmission(t)
  <2>1. \A u \in Tasks : u # t => pc'[u] \notin {"begun", "loaded"}
    BY <1>0, <1>2, <1>a DEF BeginTransmission, InCritical, Critical, TypeOK
  <2>2. wire'.to = Address[t]
    BY <1>2 DEF BeginTransmission, Opened
  <2> QED
    BY <2>1, <2>2, <1>b
<1>3. CASE WriteBytes(t)
  <2>1. \A u \in Tasks : u # t => pc'[u] \notin {"begun", "loaded"}
    BY <1>0, <1>3, <1>a DEF WriteBytes, InCritical, Critical, TypeOK
  <2>2. pc[t] = "begun"
    BY <1>3 DEF WriteBytes
  <2>3. wire'.open = wire.open /\ wire'.to = wire.to
    BY <1>3, <1>a DEF WriteBytes, Loaded, TypeOK
  <2> QED
    BY <2>1, <2>2, <2>3, <1>b
<1>4. CASE EndTransmission(t) \/ MeasureFailed(t)
  <2>1. wire' = Closed
    BY <1>4 DEF EndTransmission, MeasureFailed
  <2>2. ~wire'.open
    BY <2>1, <1>a DEF Closed, TypeOK
  <2> QED
    BY <2>2
<1> QED
  BY <1>1, <1>2, <1>3, <1>4 DEF TaskStep

\* So does every step of the console and of the sensor: a probe opens the
\* buffer for its own address and closes it before the next one.
LEMMA ConfinedOther ==
  ASSUME LockInv, Confined, ConsoleStep \/ ConversionEnds
  PROVE  Confined'
<1> USE DEF Confined
<1>0. pc' = pc
  BY DEF ConsoleStep, ScanCommand, ProbeBegin, ProbeEnd, ScanDone, ConversionEnds
<1>1. CASE ScanCommand \/ ScanDone \/ ConversionEnds
  <2>1. wire' = wire /\ (console' = console \/ console.step # "begun")
    BY <1>1 DEF ScanCommand, ScanDone, ConversionEnds
  <2> QED
    BY <1>0, <2>1
<1>2. CASE ProbeBegin
  <2>1. PICK a \in console.rest :
             /\ wire' = [open |-> TRUE, to |-> a, load |-> NoTask]
             /\ console' = [step |-> "begun", at |-> a, rest |-> console.rest \ {a}]
    BY <1>2 DEF ProbeBegin, Opened
  <2>2. wire'.to = a /\ console'.step = "begun" /\ console'.at = a
    BY <2>1
  <2> QED
    BY <2>2
<1>3. CASE ProbeEnd
  <2>1. ~wire'.open
    BY <1>3 DEF ProbeEnd, Closed, LockInv, TypeOK
  <2> QED
    BY <2>1
<1> QED
  BY <1>1, <1>2, <1>3, <1>0 DEF ConsoleStep

\* With i2cdetect running at any time, bytes in the buffer are bound for the
\* device of their writer or for the one address that is being probed.
THEOREM ScanDamageConfined == Spec => []ScanConfinesDamage
<1>1. Init => Confined
  BY DEF Init, Confined
<1>2. LockInv /\ Confined /\ [Next]_vars => Confined'
  <2> SUFFICES ASSUME LockInv, Confined, [Next]_vars
               PROVE  Confined'
    OBVIOUS
  <2>1. CASE UNCHANGED vars
    BY <2>1 DEF vars, Confined
  <2>2. CASE Next
    BY <2>2, ConfinedTask, ConfinedOther DEF Next
  <2> QED
    BY <2>1, <2>2
<1>3. LockInv /\ LoadOwned /\ Confined => ScanConfinesDamage
  BY DEF LockInv, TypeOK, LoadOwned, Confined, ScanConfinesDamage
<1> QED
  BY <1>1, <1>2, <1>3, LockAlways, LoadAlways, PTL DEF Spec

-----------------------------------------------------------------------------
(* Critical sections come to an end: the ranking of TasksKeepSampling.     *)

\* Where a task is in its critical section is a number.
LEMMA StepsLeftType ==
  ASSUME LockInv, NEW t \in Tasks
  PROVE  StepsLeft(t) \in Nat /\ (InCritical(t) => StepsLeft(t) > 0)
  BY DEF LockInv, TypeOK, AccessCounted, StepsLeft, InCritical, Critical

\* A task's own step in its critical section brings it nearer to the end.
LEMMA OwnStepNearer ==
  ASSUME LockInv, NEW t \in Tasks, InCritical(t), TaskStep(t)
  PROVE  StepsLeft(t)' < StepsLeft(t)
<1>0. t \in Tasks /\ left[t] \in Nat /\ DOMAIN pc = Tasks /\ DOMAIN left = Tasks
  BY DEF LockInv, TypeOK
<1>1. CASE BeginTransmission(t)
  <2>1. pc[t] = "held" /\ pc'[t] = "begun" /\ left'[t] = left[t]
    BY <1>0, <1>1 DEF BeginTransmission
  <2> QED
    BY <2>1, <1>0 DEF StepsLeft
<1>2. CASE WriteBytes(t)
  <2>1. pc[t] = "begun" /\ pc'[t] = "loaded" /\ left'[t] = left[t]
    BY <1>0, <1>2 DEF WriteBytes
  <2> QED
    BY <2>1, <1>0 DEF StepsLeft
<1>3. CASE EndTransmission(t)
  <2>1. pc[t] = "loaded" /\ pc'[t] = "held" /\ left'[t] = LeftAfter(t)
    BY <1>0, <1>3 DEF EndTransmission
  <2>2. LeftAfter(t) \in Nat /\ LeftAfter(t) < left[t]
    BY <2>1, LeftFalls
  <2> QED
    BY <2>1, <2>2, <1>0 DEF StepsLeft
<1>4. CASE MeasureFailed(t)
  <2>1. pc[t] = "loaded" /\ pc'[t] = "take" /\ left[t] > 0
    BY <1>0, <1>4 DEF MeasureFailed, LockInv, AccessCounted
  <2> QED
    BY <2>1, <1>0 DEF StepsLeft
<1>5. CASE GiveSemaphore(t)
  <2>1. pc[t] = "held" /\ pc'[t] = "delay"
    BY <1>0, <1>5 DEF GiveSemaphore, AccessesDone
  <2> QED
    BY <2>1, <1>0 DEF StepsLeft
<1>6. ~(Wake(t) \/ TakeSemaphore(t) \/ TakeTimeout(t))
  BY DEF Wake, TakeSemaphore, TakeTimeout, InCritical, Critical
<1> QED
  BY <1>1, <1>2, <1>3, <1>4, <1>5, <1>6 DEF TaskStep

\* A step of anybody else leaves a task where it is in its critical section.
LEMMA OthersLeaveSteps ==
  ASSUME LockInv, NEW t \in Tasks,
         \/ \E u \in Tasks \ {t} : TaskStep(u)
         \/ ConsoleStep \/ ConversionEnds \/ UNCHANGED vars
  PROVE  pc'[t] = pc[t] /\ left'[t] = left[t]
<1>1. CASE \E u \in Tasks \ {t} : TaskStep(u)
  BY <1>1 DEF LockInv, TypeOK, TaskStep, Wake, TakeSemaphore, TakeTimeout,
     GiveSemaphore, BeginTransmission, WriteBytes, EndTransmission, MeasureFailed
<1>2. CASE ConsoleStep \/ ConversionEnds \/ UNCHANGED vars
  BY <1>2 DEF ConsoleStep, ScanCommand, ProbeBegin, ProbeEnd, ScanDone,
     ConversionEnds, vars
<1> QED
  BY <1>1, <1>2

\* From the take on, every step of the owner brings the give nearer and no step
\* of anybody else delays it, whatever i2cdetect and failing measurements do:
\* what TasksKeepSampling needs besides fairness.
THEOREM CriticalSectionsAreFinite == Spec => CriticalSectionsEnd
<1>1. LockInv /\ LockInv' /\ [Next]_vars =>
        \A t \in Tasks : InCritical(t) =>
          /\ StepsLeft(t)' <= StepsLeft(t)
          /\ TaskStep(t) => StepsLeft(t)' < StepsLeft(t)
  <2> SUFFICES ASSUME LockInv, LockInv', [Next]_vars,
                      NEW t \in Tasks, InCritical(t)
               PROVE  /\ StepsLeft(t)' <= StepsLeft(t)
                      /\ TaskStep(t) => StepsLeft(t)' < StepsLeft(t)
    OBVIOUS
  <2>1. StepsLeft(t) \in Nat /\ StepsLeft(t)' \in Nat
    <3>1. StepsLeft(t) \in Nat
      BY StepsLeftType
    <3>2. StepsLeft(t)' \in Nat
      BY DEF LockInv, TypeOK, AccessCounted, StepsLeft
    <3> QED
      BY <3>1, <3>2
  <2>2. CASE TaskStep(t)
    BY <2>1, <2>2, OwnStepNearer
  <2>3. CASE ~TaskStep(t)
    <3>1. \/ \E u \in Tasks \ {t} : TaskStep(u)
          \/ ConsoleStep \/ ConversionEnds \/ UNCHANGED vars
      BY <2>3 DEF Next
    <3>2. pc'[t] = pc[t] /\ left'[t] = left[t]
      BY <3>1, OthersLeaveSteps
    <3>3. StepsLeft(t)' = StepsLeft(t)
      BY <3>2 DEF StepsLeft
    <3> QED
      BY <2>1, <2>3, <3>3
  <2> QED
    BY <2>2, <2>3
<1> QED
  BY <1>1, LockAlways, PTL DEF Spec, CriticalSectionsEnd

=============================================================================
