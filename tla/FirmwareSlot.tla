---------------------------- MODULE FirmwareSlot ----------------------------
(***************************************************************************)
(* What an over-the-air update promises: the firmware that the next reset  *)
(* will start changes in one step, to an image announced as newer than the *)
(* running one, and a reset starts exactly that firmware.                  *)
(***************************************************************************)
EXTENDS Naturals

CONSTANTS Images, Reports

VARIABLES running, installed

slotVars == <<running, installed>>

SlotInit == installed \in Images /\ running = installed

Install == \E v \in Images :
    /\ v > Reports[running]
    /\ installed' = v
    /\ running' = running

Restart ==
    /\ running' = installed
    /\ installed' = installed

SlotSpec == SlotInit /\ [][Install \/ Restart]_slotVars

\* A reset that starts another image starts one announced as newer than what
\* the image it leaves reports, however many images were installed and
\* replaced before.
OnlyNewerStarts == [][running' # running => running' > Reports[running]]_slotVars

=============================================================================
