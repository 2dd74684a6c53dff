------------------------------- MODULE I2CBus -------------------------------
(***************************************************************************)
(* The I2C bus of the satellite and the tasks that share it.               *)
(*                                                                         *)
(* Every sensor task of PION_Sensors.cpp and the RGB task of task.cpp has  *)
(* the same shape: wait, xSemaphoreTake(System::xI2C_semaphore, 500), a    *)
(* few register accesses on the global Wire object, xSemaphoreGive.  A     *)
(* register access is Wire.beginTransmission / Wire.write /                *)
(* Wire.endTransmission on ONE shared buffer, so it is three steps that    *)
(* another task may interleave with: only the mutex keeps them together.   *)
(* The serial console's i2cdetect command uses Wire without the mutex.     *)
(*                                                                         *)
(* The module starts where Sensors::init has created the tasks.            *)
(***************************************************************************)
EXTENDS Naturals

CONSTANTS
    Tasks,            \* the tasks that take the mutex
    Baro,             \* the one of them that is BaroTask
    NoTask,           \* no task: the mutex is free, the buffer is empty
    Address,          \* Address[t]: the I2C address of the device of task t
    Xfers,            \* Xfers[t]: how many register accesses t's critical
                      \*   section may make
    MeasureXfers,     \* at most how many of BaroTask's are of bmp.measure()
    ValueXfers,       \* at most how many are of bmp.hasValue()
    ScanRange,        \* the addresses i2cdetect probes, first..last
    ConsoleScans,     \* TRUE: the operator may type i2cdetect
    MeasureOutcomes   \* what bmp.measure() may return

ASSUME BusAssumption ==
    /\ Baro \in Tasks
    /\ NoTask \notin Tasks
    /\ Address \in [Tasks -> Nat]
    /\ Xfers \in [Tasks -> SUBSET Nat]
    /\ MeasureXfers \in Nat \ {0, 1}
    /\ ValueXfers \in Nat \ {0}
    /\ Xfers[Baro] = {MeasureXfers + ValueXfers}
    /\ ScanRange \subseteq Nat
    /\ ConsoleScans \in BOOLEAN
    /\ MeasureOutcomes \subseteq BOOLEAN

VARIABLES
    pc,         \* pc[t]: where task t is in its loop
    holder,     \* owner of System::xI2C_semaphore
    left,       \* left[t]: register accesses t has still to make
    wire,       \* the TwoWire object: transmitting, txAddress, txBuffer
    delivered,  \* history: the last message put on the bus
    bmp,        \* the BMP280: asleep or converting
    hasValue,   \* result of the last bmp.hasValue() of BaroTask
    console     \* i2cdetect: its step, the address it is at, those to come

vars == <<pc, holder, left, wire, delivered, bmp, hasValue, console>>

Critical == {"held", "begun", "loaded"}
InCritical(t) == pc[t] \in Critical

\* The mutex is held by a task that is not in its critical section: nobody
\* will ever give it back.
Leaked == holder # NoTask /\ ~InCritical(holder)

Message == [to : Nat, from : Tasks \cup {NoTask}]

TypeOK ==
    /\ pc \in [Tasks -> {"delay", "take"} \cup Critical]
    /\ holder \in Tasks \cup {NoTask}
    /\ left \in [Tasks -> Nat]
    /\ wire \in [open : BOOLEAN, to : Nat, load : Tasks \cup {NoTask}]
    /\ delivered \in Message
    /\ bmp \in {"sleep", "measuring"}
    /\ hasValue \in BOOLEAN
    /\ console \in [step : {"idle", "probe", "begun"}, at : Nat, rest : SUBSET Nat]

Init ==
    /\ pc = [t \in Tasks |-> "delay"]
    /\ holder = NoTask
    /\ left = [t \in Tasks |-> 0]
    /\ wire = [open |-> FALSE, to |-> 0, load |-> NoTask]
    /\ delivered = [to |-> 0, from |-> NoTask]
    /\ bmp = "sleep"
    /\ hasValue = TRUE
    /\ console = [step |-> "idle", at |-> 0, rest |-> {}]

-----------------------------------------------------------------------------
(* The mutex.                                                              *)

\* vTaskDelay ends and the loop calls xSemaphoreTake.
Wake(t) ==
    /\ pc[t] = "delay"
    /\ pc' = [pc EXCEPT ![t] = "take"]
    /\ UNCHANGED <<holder, left, wire, delivered, bmp, hasValue, console>>

\* Mutants: a counting semaphore; a recursive mutex.
CountingSemaphore(t) == TRUE
RecursiveMutex(t) == holder \in {NoTask, t}

\* xSemaphoreCreateMutex: taken at most once, by its owner too.
SemaphoreAvailable(t) == holder = NoTask

\* xSemaphoreTake returns pdTRUE.
TakeSemaphore(t) ==
    /\ pc[t] = "take"
    /\ SemaphoreAvailable(t)
    /\ holder' = t
    /\ pc' = [pc EXCEPT ![t] = "held"]
    /\ \E n \in Xfers[t] : left' = [left EXCEPT ![t] = n]
    /\ UNCHANGED <<wire, delivered, bmp, hasValue, console>>

\* Mutant: the take waits portMAX_DELAY.
WaitsForEver == FALSE

\* TIME_TO_SEMAPHORE ticks pass with the mutex in use.
TicksExpire == holder # NoTask

\* Mutant: the result of xSemaphoreTake is ignored.
TimeoutIgnored == "held"

\* The else branch of the take: log, then vTaskDelay.
AfterTimeout == "delay"

\* xSemaphoreTake returns pdFALSE.
TakeTimeout(t) ==
    /\ pc[t] = "take"
    /\ TicksExpire
    /\ pc' = [pc EXCEPT ![t] = AfterTimeout]
    /\ UNCHANGED <<holder, left, wire, delivered, bmp, hasValue, console>>

\* Mutants: the give is inside `if (bmp.hasValue())`; a task without a reading
\* skips it.
GivenIfValue(t) == IF t = Baro /\ ~hasValue THEN {holder} ELSE {NoTask}
GivenSometimes(t) == IF t = Baro THEN {NoTask} ELSE {holder, NoTask}

\* The last access of the critical section has been made.
AccessesDone(t) == pc[t] = "held" /\ left[t] = 0

\* What xSemaphoreGive leaves as the owner.
GivenTo(t) == {NoTask}

\* The critical section is over: xSemaphoreGive, then vTaskDelay.
GiveSemaphore(t) ==
    /\ AccessesDone(t)
    /\ holder' \in GivenTo(t)
    /\ pc' = [pc EXCEPT ![t] = "delay"]
    /\ UNCHANGED <<left, wire, delivered, bmp, hasValue, console>>

-----------------------------------------------------------------------------
(* A register access on the shared TwoWire object.                         *)

\* beginTransmission: address and empty buffer, whatever was there before.
Opened(address) == [open |-> TRUE, to |-> address, load |-> NoTask]

\* write: the bytes are dropped when no transmission is open.
Loaded(t) == IF wire.open THEN [wire EXCEPT !.load = t] ELSE wire

\* endTransmission: the buffer goes to the address it holds NOW; without an
\* open transmission (I2C_ERROR_NO_BEGIN) nothing is sent.
Closed == [wire EXCEPT !.open = FALSE, !.load = NoTask]
Sent == IF wire.open THEN [to |-> wire.to, from |-> wire.load] ELSE delivered

\* Mutant: one access too many.
OneMoreAccess(t) == TRUE

HasAccess(t) == left[t] > 0

BeginTransmission(t) ==
    /\ pc[t] = "held"
    /\ HasAccess(t)
    /\ wire' = Opened(Address[t])
    /\ pc' = [pc EXCEPT ![t] = "begun"]
    /\ UNCHANGED <<holder, left, delivered, bmp, hasValue, console>>

WriteBytes(t) ==
    /\ pc[t] = "begun"
    /\ wire' = Loaded(t)
    /\ pc' = [pc EXCEPT ![t] = "loaded"]
    /\ UNCHANGED <<holder, left, delivered, bmp, hasValue, console>>

InMeasure(t) == t = Baro /\ left[t] > ValueXfers

\* The first access of measure() reads the mode, the last one starts a
\* conversion; the first access of hasValue(), asked once, reads the status.
ReadsMode(t) == t = Baro /\ left[t] = MeasureXfers + ValueXfers
StartsConversion(t) == t = Baro /\ left[t] = ValueXfers + 1
ReadsStatus(t) == t = Baro /\ left[t] = ValueXfers

\* What is left to do after an access: a converting sensor is not started
\* again, and without a value there is nothing to read.
LeftAfter(t) ==
    IF bmp = "measuring" /\ ReadsMode(t) THEN ValueXfers
    ELSE IF bmp = "measuring" /\ ReadsStatus(t) THEN 0
    ELSE left[t] - 1

\* With this access measure() is over.
MeasureReturns(t) == InMeasure(t) /\ LeftAfter(t) = ValueXfers

BmpAccess(t) ==
    /\ bmp' = IF StartsConversion(t) THEN "measuring" ELSE bmp
    /\ hasValue' = IF ReadsStatus(t) THEN bmp = "sleep" ELSE hasValue

EndTransmission(t) ==
    /\ pc[t] = "loaded"
    /\ MeasureReturns(t) => TRUE \in MeasureOutcomes
    /\ delivered' = Sent
    /\ wire' = Closed
    /\ left' = [left EXCEPT ![t] = LeftAfter(t)]
    /\ pc' = [pc EXCEPT ![t] = "held"]
    /\ BmpAccess(t)
    /\ UNCHANGED <<holder, console>>

\* measure() returned FALSE: BaroTask logs and continues its loop, from
\* inside the critical section and without xSemaphoreGive.
MeasureFailed(t) ==
    /\ pc[t] = "loaded"
    /\ MeasureReturns(t)
    /\ FALSE \in MeasureOutcomes
    /\ delivered' = Sent
    /\ wire' = Closed
    /\ left' = [left EXCEPT ![t] = 0]
    /\ pc' = [pc EXCEPT ![t] = "take"]
    /\ BmpAccess(t)
    /\ UNCHANGED <<holder, console>>

\* The BMP280 finishes a forced conversion and goes back to sleep.
ConversionEnds ==
    /\ bmp = "measuring"
    /\ bmp' = "sleep"
    /\ UNCHANGED <<pc, holder, left, wire, delivered, hasValue, console>>

-----------------------------------------------------------------------------
(* The console's i2cdetect: Wire without the mutex.                        *)

ScanCommand ==
    /\ ConsoleScans
    /\ console.step = "idle"
    /\ console' = [step |-> "probe", at |-> 0, rest |-> ScanRange]
    /\ UNCHANGED <<pc, holder, left, wire, delivered, bmp, hasValue>>

\* The loop goes through the addresses in increasing order.
ProbeBegin ==
    /\ console.step = "probe"
    /\ \E a \in console.rest :
        /\ \A b \in console.rest : a <= b
        /\ wire' = Opened(a)
        /\ console' = [step |-> "begun", at |-> a, rest |-> console.rest \ {a}]
    /\ UNCHANGED <<pc, holder, left, delivered, bmp, hasValue>>

\* endTransmission returns whether or not a transmission is open.
ProbeReturns == TRUE

ProbeEnd ==
    /\ console.step = "begun"
    /\ ProbeReturns
    /\ delivered' = Sent
    /\ wire' = Closed
    /\ console' = [console EXCEPT !.step = "probe"]
    /\ UNCHANGED <<pc, holder, left, bmp, hasValue>>

ScanDone ==
    /\ console.step = "probe"
    /\ console.rest = {}
    /\ console' = [console EXCEPT !.step = "idle"]
    /\ UNCHANGED <<pc, holder, left, wire, delivered, bmp, hasValue>>

-----------------------------------------------------------------------------

TaskStep(t) ==
    \/ Wake(t) \/ TakeSemaphore(t) \/ TakeTimeout(t) \/ GiveSemaphore(t)
    \/ BeginTransmission(t) \/ WriteBytes(t)
    \/ EndTransmission(t) \/ MeasureFailed(t)

ConsoleStep == ScanCommand \/ ProbeBegin \/ ProbeEnd \/ ScanDone

Next == (\E t \in Tasks : TaskStep(t)) \/ ConsoleStep \/ ConversionEnds

Spec == Init /\ [][Next]_vars

\* FreeRTOS runs every ready task, and its queue of waiters makes a task that
\* keeps waiting for the mutex get it; a conversion ends by itself.  Nobody
\* promises that the operator types a command.
Fairness ==
    /\ \A t \in Tasks : WF_vars(TaskStep(t)) /\ SF_vars(TakeSemaphore(t))
    /\ WF_vars(ConversionEnds)
    /\ WF_vars(ProbeBegin \/ ProbeEnd \/ ScanDone)

FairSpec == Spec /\ Fairness

-----------------------------------------------------------------------------
(* Properties.                                                             *)

\* Only the owner of xI2C_semaphore is between take and give, so no two tasks
\* are on the bus at once, however takes, timeouts and failed measurements
\* interleave.
MutualExclusion ==
    \A t \in Tasks : InCritical(t) => holder = t

\* A message on the bus goes to the device of the task that wrote it: the
\* shared txAddress/txBuffer of Wire never mixes two tasks' accesses.
Routed ==
    delivered.from # NoTask => delivered.to = Address[delivered.from]

\* The bus is quiet whenever the mutex is free: no task gives the mutex back
\* with its transmission still open.
QuietWhenFree ==
    holder = NoTask => ~wire.open

\* When the mutex is held from outside a critical section it was BaroTask that
\* left by `continue`; no other path of any task forgets xSemaphoreGive.
OnlyBaroLeaks ==
    Leaked => holder = Baro /\ FALSE \in MeasureOutcomes

\* After that `continue` the mutex never changes hands and no task puts a byte
\* on the bus again: the early exit of one task silences all of them.  Only
\* the probes of i2cdetect, which take no mutex, still get through.
LeakIsForever ==
    [][Leaked => /\ UNCHANGED <<holder, left>>
                 /\ delivered' = delivered \/ delivered'.from = NoTask]_vars

\* Because every take is timed, no task stays blocked on the mutex: each one
\* comes back to its vTaskDelay for ever, even after the mutex is lost.
TasksKeepCycling ==
    \A t \in Tasks : []<>(pc[t] = "delay")

\* While critical sections are shorter than TIME_TO_SEMAPHORE, so that a take
\* could only time out on a mutex nobody gives back, every task gets the bus
\* again and again.
TasksKeepSampling ==
    <>[][\A t \in Tasks : TakeTimeout(t) => Leaked]_vars
        => \A t \in Tasks : []<>(holder = t)

\* Steps a task that holds the bus has still to make before it leaves its
\* critical section: three for each access, and the give.
StepsLeft(t) ==
    IF pc[t] = "held" THEN 3 * left[t] + 1
    ELSE IF pc[t] = "begun" THEN 3 * left[t]
    ELSE IF pc[t] = "loaded" THEN 3 * left[t] - 1
    ELSE 0

\* Nothing can stretch a critical section: once a task has the bus, each of its
\* own steps brings the give (or the early exit) nearer, and no step of another
\* task, of i2cdetect or of the sensor takes it further away.
CriticalSectionsEnd ==
    [][\A t \in Tasks : InCritical(t) =>
        /\ StepsLeft(t)' <= StepsLeft(t)
        /\ TaskStep(t) => StepsLeft(t)' < StepsLeft(t)]_vars

\* i2cdetect damages only the access it cuts into: bytes that wait in the
\* shared buffer, and that the next endTransmission of anybody will send, are
\* bound for the device of the task that wrote them or for the one address
\* whose probe is in progress at this moment, and for no other address that is
\* still to come or already done.
ScanConfinesDamage ==
    wire.open /\ wire.load # NoTask =>
        \/ wire.to = Address[wire.load]
        \/ console.step = "begun" /\ wire.to = console.at

\* The abstract bus: its owner holds the mutex, and what is due are the
\* accesses the owner has still to make.
Bus == INSTANCE AtomicBus WITH
    owner <- holder,
    due <- IF holder = NoTask THEN 0 ELSE left[holder]

\* With i2cdetect left alone, three interleavable steps on a shared buffer, timed
\* takes and the early exit of BaroTask together behave as a bus on which the
\* accesses of a critical section are atomic messages of its owner.
ImplementsBus == Bus!BusSpec

=============================================================================
