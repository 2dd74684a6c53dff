------------------------------ MODULE GpsTask -------------------------------
(***************************************************************************)
(* The deadline of GPSTask: a pass every tenth of a second, and every      *)
(* TASK_SERIAL_RATE the position is copied to Sensors::gps.  The deadline  *)
(* nextSerialTaskTs is a uint32_t like millis(), so it wraps with it, but  *)
(* `nextSerialTaskTs < millis()' is a plain comparison.                    *)
(*                                                                         *)
(* The task is created by Sensors::init, which may have waited for a       *)
(* sensor for any time.  A pass reads millis() twice when it copies: for   *)
(* the comparison, and after the copy and its print for the new deadline.  *)
(* age is history: how long ago the position was copied, up to AgeCap.     *)
(***************************************************************************)
EXTENDS Naturals

CONSTANTS
    Wrap,       \* millis() counts modulo Wrap
    Rate,       \* TASK_SERIAL_RATE
    PassTimes,  \* how long it may take to the comparison: vTaskDelay(100), preemption
    CopyTimes   \* how long the copy and its print may take

\* The longest pass and the longest copy.
MaxPass == CHOOSE d \in PassTimes : \A e \in PassTimes : e <= d
MaxCopy == CHOOSE c \in CopyTimes : \A e \in CopyTimes : e <= c

GpsConstants ==
    /\ Wrap \in Nat /\ Rate \in Nat
    /\ PassTimes \subseteq 1..(Wrap - 1)
    /\ CopyTimes \subseteq Nat
    /\ MaxPass \in PassTimes /\ MaxCopy \in CopyTimes
    /\ \A d \in PassTimes : d <= MaxPass /\ d <= Rate
    /\ \A c \in CopyTimes : c <= MaxCopy
    /\ Rate + MaxCopy + MaxPass < Wrap

VARIABLES
    clock,              \* millis()
    nextSerialTaskTs,
    age

vars == <<clock, nextSerialTaskTs, age>>

AgeCap == Wrap

TypeOK ==
    /\ clock \in 0..(Wrap - 1)
    /\ nextSerialTaskTs \in 0..(Wrap - 1)
    /\ age \in 0..AgeCap

Init == clock \in 0..(Wrap - 1) /\ nextSerialTaskTs = 0 /\ age = 0

After(d) == (clock + d) % Wrap

\* Mutant: the time since the deadline is compared.
SinceDeadline(now) == (now + Wrap - nextSerialTaskTs) % Wrap > Rate

\* millis() + TASK_SERIAL_RATE, a uint32_t.
Deadline(now) == (now + Rate) % Wrap

\* nextSerialTaskTs < millis().
DeadlinePassed(now) == nextSerialTaskTs < now

\* The position is copied and printed, then the deadline renewed.
Publish(d, c) ==
    /\ DeadlinePassed(After(d))
    /\ clock' = After(d + c)
    /\ nextSerialTaskTs' = Deadline(After(d + c))
    /\ age' = c

Skip(d) ==
    /\ ~DeadlinePassed(After(d))
    /\ clock' = After(d)
    /\ age' = IF age + d < AgeCap THEN age + d ELSE AgeCap
    /\ UNCHANGED nextSerialTaskTs

Next ==
    \E d \in PassTimes :
        \/ \E c \in CopyTimes : Publish(d, c)
        \/ Skip(d)

Spec == Init /\ [][Next]_vars

-----------------------------------------------------------------------------
(* Properties.                                                             *)

\* The deadline lies in the last pass before the wrap of millis().
DeadlineAtWrap == nextSerialTaskTs + MaxPass >= Wrap

\* Sensors::gps is renewed for as long as the satellite runs, across every wrap
\* of millis(): no pass leaves a position behind that is older than
\* TASK_SERIAL_RATE and the copy before it, so that until the next one it is
\* never older than these and one pass; unless a deadline falls in the last pass
\* before a wrap: then no pass may see it passed, and the position posted stays
\* the same for a whole cycle of 49.7 days or longer.
PositionFresh == age > Rate + MaxCopy => DeadlineAtWrap

=============================================================================
