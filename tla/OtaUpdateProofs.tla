-------------------------- MODULE OtaUpdateProofs ---------------------------
(***************************************************************************)
(* Proofs about OtaUpdate, for any images, image sizes and partition size, *)
(* and any number of crashes and failing calls.                            *)
(***************************************************************************)
EXTENDS OtaUpdate, TLAPS

\* Except between set_boot_partition and the restart, the selected firmware is
\* the one that runs; both are bootable.
Selected ==
    /\ stage # "restart" => bootPart = runPart
    /\ flash[runPart].head # Blank
    /\ flash[bootPart].head # Blank

\* An update under way is to an image that was announced as newer.
Offered ==
    stage \in {"found", "stream", "erased", "end", "enabled"}
        => offer \in Images /\ offer > Reports[Running]

\* UpdateClass has a size exactly while an image is being written; then the
\* first sectors are the image's, and the header is away once sector 1 was
\* erased.
Written ==
    /\ stage \in {"idle", "found", "restart"} => upd.size = 0
    /\ stage = "stream" => upd.size > 0
    /\ stage = "erased" => upd.progress < upd.size /\ flash[Target].head = Blank
    /\ stage \in {"stream", "erased", "end"} /\ upd.size > 0 =>
        /\ upd.size = Size[offer]
        /\ upd.progress <= upd.size
        /\ upd.progress > 0 => flash[Target].head = Blank
        /\ \A i \in 1..upd.progress : flash[Target].body[i] = offer

\* The header that makes the new image bootable is its own.
Enabled == stage = "enabled" => flash[Target].head = offer

OtaInv ==
    TypeOK /\ Selected /\ Offered /\ Written /\ Enabled /\ BootableIsWhole

Cells == Images \cup {Blank}
Contents == [head : Cells, body : [Sectors -> Cells]]

-----------------------------------------------------------------------------
(* Partitions.                                                             *)

\* The image is written to the partition that does not run.
LEMMA TargetIsOther ==
  ASSUME TypeOK
  PROVE  /\ Target \in Partitions /\ Target # runPart
         /\ \A p \in Partitions : p # Target => p = runPart
  BY DEF TypeOK, Target, Other, Partitions

\* The invariant holds as the satellite was flashed.
LEMMA OtaInit == Init => OtaInv
<1> SUFFICES ASSUME Init PROVE OtaInv
  OBVIOUS
<1> DEFINE full == [head |-> Factory,
                    body |-> [i \in Sectors |-> IF i <= Size[Factory] THEN Factory ELSE Blank]]
           void == [head |-> Blank, body |-> [i \in Sectors |-> Blank]]
<1>1. full \in Contents /\ void \in Contents
  BY OtaAssumption DEF Contents, Cells
<1>2. flash \in [Partitions -> Contents] /\ flash["app0"] = full /\ flash["app1"] = void
  BY <1>1 DEF Init, Partitions
<1>3. TypeOK
  BY <1>2, OtaAssumption DEF Init, TypeOK, Partitions, Idle, Contents, Cells
<1>4. BootableIsWhole
  <2>1. Whole("app0", Factory)
    BY <1>2, OtaAssumption DEF Whole, Sectors
  <2>2. flash["app0"].head = Factory /\ flash["app1"].head = Blank
    BY <1>2
  <2> QED
    BY <2>1, <2>2 DEF BootableIsWhole, Partitions
<1>5. Selected
  BY <1>2, OtaAssumption DEF Init, Selected, Blank
<1>6. Offered /\ Written /\ Enabled
  BY DEF Init, Offered, Written, Enabled, Idle
<1> QED
  BY <1>3, <1>4, <1>5, <1>6 DEF OtaInv

-----------------------------------------------------------------------------
(* Steps that leave the flash and the partitions alone.                    *)

\* Steps of execHTTPcheck, execOTA and UpdateClass that touch no partition.
RamStep ==
    \/ CheckManifest \/ GetFails \/ Begin \/ BeginRefused \/ BeginOutOfMemory
    \/ StreamAborts \/ StashFails \/ StreamEnds \/ EndRefuses \/ VerifyEndFails
    \/ Publish

\* What is in the flash stays as good as it was when nothing is written.
LEMMA FlashKept ==
  ASSUME BootableIsWhole, flash' = flash
  PROVE  BootableIsWhole'
  BY DEF BootableIsWhole, Whole

\* Every image has sectors.
LEMMA SizePositive ==
  ASSUME NEW v \in Images
  PROVE  Size[v] \in Nat /\ Size[v] > 0
<1>1. Size[v] \in Nat \ {0}
  BY OtaAssumption
<1> QED
  BY <1>1

\* Whatever the server answers, an offer is an image newer than the running one.
LEMMA ManifestOffers ==
  ASSUME OtaInv, CheckManifest
  PROVE  offer' \in Images /\ offer' > Reports[Running]
<1>1. PICK i \in 1..Len(served) : Accepts(served[i]) /\ offer' = served[i].version
  BY DEF CheckManifest
<1>2. served \in Seq(Entry)
  BY OtaAssumption DEF OtaInv, TypeOK
<1>3. served[i] \in Entry
  BY <1>1, <1>2
<1>4. offer' \in Images \cup {Blank} /\ offer' > Reports[Running]
  BY <1>1, <1>3 DEF Entry, Accepts, Newer
<1>5. Running \in Images
  BY DEF Running, OtaInv, Selected, TypeOK
<1>6. Reports[Running] \in Nat
  BY <1>5, OtaAssumption
<1>7. ~(0 > Reports[Running])
  BY <1>6
<1> QED
  BY <1>4, <1>7 DEF Blank

\* The size that begin accepts fits the partition.
LEMMA RamStepTypes ==
  ASSUME OtaInv, RamStep
  PROVE  TypeOK' /\ UNCHANGED <<flash, bootPart, runPart>>
<1>1. UNCHANGED <<flash, bootPart, runPart>>
  BY DEF RamStep, CheckManifest, GetFails, Begin, BeginRefused, BeginOutOfMemory,
         StreamAborts, StashFails, StreamEnds, EndRefuses, VerifyEndFails, Publish
<1>2. upd' \in [size : 0..Capacity, progress : 0..Capacity, error : BOOLEAN]
  <2>1. CASE Begin
    <3>1. offer \in Images /\ Size[offer] <= Capacity
      BY <2>1 DEF Begin, CanBegin, OtaInv, Offered
    <3>2. Size[offer] \in 0..Capacity /\ 0 \in 0..Capacity
      BY <3>1, SizePositive, OtaAssumption
    <3>3. upd' = [size |-> Size[offer], progress |-> 0, error |-> FALSE]
      BY <2>1 DEF Begin
    <3> QED
      BY <3>2, <3>3
  <2>2. CASE ~Begin
    <3>1. upd' \in {Idle, Failed, upd}
      BY <2>2
         DEF RamStep, CheckManifest, GetFails, BeginRefused, BeginOutOfMemory,
             StreamAborts, StashFails, StreamEnds, EndRefuses, VerifyEndFails, Publish,
             AfterRefusal
    <3>2. 0 \in 0..Capacity
      BY OtaAssumption
    <3> QED
      <4>1. upd \in [size : 0..Capacity, progress : 0..Capacity, error : BOOLEAN]
        BY DEF OtaInv, TypeOK
      <4>2. Idle \in [size : 0..Capacity, progress : 0..Capacity, error : BOOLEAN]
        BY <3>2 DEF Idle
      <4>3. Failed \in [size : 0..Capacity, progress : 0..Capacity, error : BOOLEAN]
        BY <3>2 DEF Failed
      <4> QED
        BY <3>1, <4>1, <4>2, <4>3
  <2> QED
    BY <2>1, <2>2
<1>3. faults' \in 0..MaxFaults
  BY OtaAssumption
     DEF RamStep, CheckManifest, GetFails, Begin, BeginRefused, BeginOutOfMemory,
         StreamAborts, StashFails, StreamEnds, EndRefuses, VerifyEndFails, Publish,
         Fault, OtaInv, TypeOK
<1>4. /\ stage' \in {"idle", "found", "stream", "erased", "end", "enabled", "restart"}
      /\ offer' \in Images \cup {Blank} /\ served' \in Manifests
  BY ManifestOffers
     DEF RamStep, CheckManifest, GetFails, Begin, BeginRefused, BeginOutOfMemory,
         StreamAborts, StashFails, StreamEnds, EndRefuses, VerifyEndFails, Publish,
         OtaInv, TypeOK
<1> QED
  BY <1>1, <1>2, <1>3, <1>4 DEF OtaInv, TypeOK

\* Checking, beginning, ending and failing keep the invariant.
LEMMA RamStepKeeps ==
  ASSUME OtaInv, RamStep
  PROVE  OtaInv'
<1>1. TypeOK' /\ UNCHANGED <<flash, bootPart, runPart>>
  BY RamStepTypes
<1>2. BootableIsWhole'
  BY <1>1, FlashKept DEF OtaInv
<1>3. Selected'
  BY <1>1
     DEF RamStep, CheckManifest, GetFails, Begin, BeginRefused, BeginOutOfMemory,
         StreamAborts, StashFails, StreamEnds, EndRefuses, VerifyEndFails, Publish,
         OtaInv, Selected
<1>4. Offered'
  <2>1. CASE CheckManifest
    BY <1>1, <2>1, ManifestOffers DEF Offered, Running
  <2>2. CASE ~CheckManifest
    BY <1>1, <2>2
       DEF RamStep, GetFails, Begin, BeginRefused, BeginOutOfMemory,
           StreamAborts, StashFails, StreamEnds, EndRefuses, VerifyEndFails, Publish,
           Running, OtaInv, Offered
  <2> QED
    BY <2>1, <2>2
<1>5. Enabled'
  BY <1>1
     DEF RamStep, CheckManifest, GetFails, Begin, BeginRefused, BeginOutOfMemory,
         StreamAborts, StashFails, StreamEnds, EndRefuses, VerifyEndFails, Publish,
         Target, OtaInv, Enabled
<1>6. Written'
  <2>1. CASE Begin
    <3>1. offer \in Images
      BY <2>1 DEF Begin, OtaInv, Offered
    <3>2. stage' = "stream" /\ upd'.size = Size[offer'] /\ upd'.progress = 0
      BY <2>1 DEF Begin
    <3>3. offer' = offer
      BY <2>1 DEF Begin
    <3> QED
      BY <3>1, <3>2, <3>3, SizePositive DEF Written
  <2>2. CASE CheckManifest \/ GetFails \/ BeginRefused \/ BeginOutOfMemory
    BY <1>1, <2>2
       DEF CheckManifest, GetFails, BeginRefused, BeginOutOfMemory, OtaInv, Written,
           Idle, Failed
  <2>3. CASE StreamAborts \/ EndRefuses \/ VerifyEndFails
    BY <1>1, <2>3
       DEF StreamAborts, EndRefuses, VerifyEndFails, Written, Failed, AfterRefusal
  <2>4. CASE StashFails \/ StreamEnds \/ Publish
    BY <1>1, <2>4 DEF StashFails, StreamEnds, Publish, OtaInv, Written, Target
  <2> QED
    BY <2>1, <2>2, <2>3, <2>4 DEF RamStep
<1> QED
  BY <1>1, <1>2, <1>3, <1>4, <1>5, <1>6 DEF OtaInv

-----------------------------------------------------------------------------
(* Steps that write the partition that does not run.                       *)

\* A new content of the target partition, whose header is away or whose image
\* is whole, keeps the flash as good as it was.
LEMMA TargetWritten ==
  ASSUME OtaInv, NEW c \in Contents,
         flash' = [flash EXCEPT ![Target] = c],
         c.head # Blank => \A i \in 1..Size[c.head] : c.body[i] = c.head
  PROVE  /\ flash' \in [Partitions -> Contents]
         /\ flash'[Target] = c /\ flash'[runPart] = flash[runPart]
         /\ BootableIsWhole'
<1>1. /\ Target \in Partitions /\ Target # runPart
      /\ \A p \in Partitions : p # Target => p = runPart
  BY TargetIsOther DEF OtaInv
<1>2. flash \in [Partitions -> Contents] /\ runPart \in Partitions
  BY DEF OtaInv, TypeOK, Contents, Cells
<1>3. /\ flash' \in [Partitions -> Contents]
      /\ flash'[Target] = c /\ flash'[runPart] = flash[runPart]
  BY <1>1, <1>2
<1>4. ASSUME NEW p \in Partitions, flash'[p].head # Blank
      PROVE  \A i \in 1..Size[flash'[p].head] : flash'[p].body[i] = flash'[p].head
  BY <1>1, <1>3, <1>4 DEF OtaInv, BootableIsWhole, Whole
<1> QED
  BY <1>3, <1>4 DEF BootableIsWhole, Whole

\* The sector under way is a sector of the partition.
LEMMA SectorInRange ==
  ASSUME OtaInv, stage \in {"stream", "erased"}, upd.progress < upd.size
  PROVE  /\ Sector \in Sectors /\ upd.progress \in Nat /\ upd.size \in Nat
         /\ Sector = upd.progress + 1 /\ upd.size <= Capacity
  BY OtaAssumption DEF OtaInv, TypeOK, Sectors, Sector

\* Erasing a sector keeps the invariant: with the first one goes the header.
LEMMA EraseKeeps ==
  ASSUME OtaInv, EraseSector
  PROVE  OtaInv'
<1> DEFINE c == [head |-> HeadAfterErase,
                 body |-> [flash[Target].body EXCEPT ![Sector] = Blank]]
<1>1. /\ Sector \in Sectors /\ upd.progress \in Nat /\ upd.size \in Nat
      /\ Sector = upd.progress + 1 /\ upd.size <= Capacity
  BY SectorInRange DEF EraseSector
<1>2. Target \in Partitions /\ Target # runPart
  BY TargetIsOther DEF OtaInv
<1>3. flash[Target] \in Contents /\ Blank \in Cells /\ DOMAIN flash = Partitions
  BY <1>2 DEF OtaInv, TypeOK, Contents, Cells
<1>4. HeadAfterErase = Blank
  BY <1>1 DEF HeadAfterErase, EraseSector, OtaInv, Written
<1>5. c \in Contents /\ c.head = Blank
  BY <1>1, <1>3, <1>4 DEF Contents
<1>6. flash' = [flash EXCEPT ![Target] = c]
  BY DEF EraseSector
<1>7. /\ flash' \in [Partitions -> Contents]
      /\ flash'[Target] = c /\ flash'[runPart] = flash[runPart]
      /\ BootableIsWhole'
  BY <1>5, <1>6, TargetWritten
<1>8. UNCHANGED <<bootPart, runPart, upd, offer, served, faults>> /\ stage' = "erased"
      /\ Target' = Target
  BY DEF EraseSector, Target
<1>9. TypeOK'
  BY <1>7, <1>8 DEF OtaInv, TypeOK, Contents, Cells
<1>10. Selected' /\ Offered' /\ Enabled'
  BY <1>7, <1>8
     DEF EraseSector, OtaInv, Selected, Offered, Enabled, Running
<1>11. Written'
  <2>1. \A i \in 1..upd.progress : flash[Target].body[i] = offer
    BY <1>1 DEF EraseSector, OtaInv, Written
  <2>2. ASSUME NEW i \in 1..upd.progress
        PROVE  c.body[i] = offer
    <3>1. i # Sector
      BY <1>1
    <3>2. i \in Sectors
      BY <1>1, OtaAssumption DEF Sectors
    <3> QED
      BY <1>3, <2>1, <3>1, <3>2 DEF Contents
  <2>3. upd.size = Size[offer] /\ upd.progress < upd.size
    BY <1>1 DEF EraseSector, OtaInv, Written
  <2>4. flash'[Target].head = Blank /\ \A i \in 1..upd.progress : flash'[Target].body[i] = offer
    BY <1>5, <1>7, <2>2
  <2> HIDE DEF c
  <2> QED
    BY <1>1, <1>8, <2>3, <2>4 DEF Written
<1> QED
  BY <1>7, <1>9, <1>10, <1>11 DEF OtaInv

\* Writing the erased sector keeps the invariant.
LEMMA WriteKeeps ==
  ASSUME OtaInv, WriteSector
  PROVE  OtaInv'
<1> DEFINE c == [head |-> flash[Target].head,
                 body |-> [flash[Target].body EXCEPT ![Sector] = offer]]
<1>0. upd.progress < upd.size /\ flash[Target].head = Blank
  BY DEF OtaInv, Written, WriteSector
<1>1. /\ Sector \in Sectors /\ upd.progress \in Nat /\ upd.size \in Nat
      /\ Sector = upd.progress + 1 /\ upd.size <= Capacity
  BY <1>0, SectorInRange DEF WriteSector
<1>2. Target \in Partitions /\ Target # runPart
  BY TargetIsOther DEF OtaInv
<1>3. flash[Target] \in Contents /\ offer \in Cells /\ offer \in Images
  BY <1>2 DEF OtaInv, TypeOK, Contents, Cells, Offered, WriteSector
<1>4. c \in Contents /\ c.head = Blank
  BY <1>0, <1>1, <1>3 DEF Contents
<1>5. flash' = [flash EXCEPT ![Target] = c]
  BY DEF WriteSector
<1>6. /\ flash' \in [Partitions -> Contents]
      /\ flash'[Target] = c /\ flash'[runPart] = flash[runPart]
      /\ BootableIsWhole'
  BY <1>4, <1>5, TargetWritten
<1>7. /\ UNCHANGED <<bootPart, runPart, offer, served, faults>> /\ stage' = "stream"
      /\ Target' = Target
  BY DEF WriteSector, Target
<1>8. /\ upd' = [upd EXCEPT !.progress = upd.progress + 1]
      /\ upd \in [size : 0..Capacity, progress : 0..Capacity, error : BOOLEAN]
  BY DEF WriteSector, OtaInv, TypeOK
<1>9. upd'.size = upd.size /\ upd'.progress = upd.progress + 1
  BY <1>8
<1>10. upd.progress + 1 \in 0..Capacity
  BY <1>0, <1>1, OtaAssumption
<1>11. upd' \in [size : 0..Capacity, progress : 0..Capacity, error : BOOLEAN]
  BY <1>8, <1>10
<1>12. TypeOK'
  BY <1>6, <1>7, <1>11 DEF OtaInv, TypeOK, Contents, Cells
<1>13. Selected' /\ Offered' /\ Enabled'
  BY <1>6, <1>7
     DEF WriteSector, OtaInv, Selected, Offered, Enabled, Running
<1>14. Written'
  <2>1. \A i \in 1..upd.progress : flash[Target].body[i] = offer
    BY <1>0, <1>1 DEF WriteSector, OtaInv, Written
  <2>2. ASSUME NEW i \in 1..upd'.progress
        PROVE  c.body[i] = offer
    <3>1. i \in Sectors /\ (i = Sector \/ i \in 1..upd.progress)
      BY <1>0, <1>1, <1>9, OtaAssumption DEF Sectors
    <3> QED
      BY <1>3, <2>1, <3>1 DEF Contents
  <2>3. upd.size = Size[offer]
    BY <1>0, <1>1 DEF WriteSector, OtaInv, Written
  <2>4. flash'[Target].head = Blank /\ \A i \in 1..upd'.progress : flash'[Target].body[i] = offer
    BY <1>4, <1>6, <2>2
  <2> HIDE DEF c
  <2> QED
    BY <1>0, <1>1, <1>7, <1>9, <2>3, <2>4 DEF Written
<1> QED
  BY <1>6, <1>12, <1>13, <1>14 DEF OtaInv

\* The header is written only over a whole image.
LEMMA EnableKeeps ==
  ASSUME OtaInv, EnablePartition
  PROVE  OtaInv'
<1> DEFINE c == [head |-> offer, body |-> flash[Target].body]
<1>1. offer \in Images /\ offer \in Cells
  BY DEF OtaInv, Offered, EnablePartition, Cells
<1>2. Target \in Partitions /\ Target # runPart
  BY TargetIsOther DEF OtaInv
<1>3. flash[Target] \in Contents
  BY <1>2 DEF OtaInv, TypeOK, Contents, Cells
<1>4. \A i \in 1..Size[offer] : flash[Target].body[i] = offer
  BY DEF EnablePartition, EndAccepts, OtaInv, Written
<1>5. c \in Contents /\ \A i \in 1..Size[c.head] : c.body[i] = c.head
  BY <1>1, <1>3, <1>4 DEF Contents
<1>6. flash' = [flash EXCEPT ![Target] = c]
  BY DEF EnablePartition
<1>7. /\ flash' \in [Partitions -> Contents]
      /\ flash'[Target] = c /\ flash'[runPart] = flash[runPart]
      /\ BootableIsWhole'
  BY <1>5, <1>6, TargetWritten
<1>8. /\ UNCHANGED <<bootPart, runPart, upd, offer, served, faults>>
      /\ stage = "end" /\ stage' = "enabled" /\ Target' = Target
  BY DEF EnablePartition, Target
<1>9. TypeOK'
  BY <1>7, <1>8 DEF OtaInv, TypeOK, Contents, Cells
<1>10. Selected' /\ Offered' /\ Enabled'
  BY <1>7, <1>8 DEF OtaInv, Selected, Offered, Enabled, Running
<1>11. Written'
  BY <1>8 DEF Written
<1> QED
  BY <1>7, <1>9, <1>10, <1>11 DEF OtaInv

-----------------------------------------------------------------------------
(* The boot pointer and the restart.                                       *)

\* The boot pointer moves only to the partition whose header was written.
LEMMA SetBootKeeps ==
  ASSUME OtaInv, SetBootPartition
  PROVE  OtaInv' /\ flash[Target].head = offer /\ offer \in Images
<1>1. flash[Target].head = offer /\ offer \in Images /\ offer # Blank
  BY OtaAssumption DEF OtaInv, Offered, Enabled, SetBootPartition
<1>2. Target \in Partitions
  BY TargetIsOther DEF OtaInv
<1>3. Idle \in [size : 0..Capacity, progress : 0..Capacity, error : BOOLEAN]
  <2>1. 0 \in 0..Capacity
    BY OtaAssumption
  <2> QED
    BY <2>1 DEF Idle
<1>4. TypeOK'
  BY <1>2, <1>3 DEF SetBootPartition, OtaInv, TypeOK
<1>5. BootableIsWhole'
  BY FlashKept DEF SetBootPartition, OtaInv
<1>6. Selected'
  BY <1>1 DEF SetBootPartition, OtaInv, Selected
<1>7. Offered' /\ Written' /\ Enabled'
  BY DEF SetBootPartition, Offered, Written, Enabled, Idle
<1> QED
  BY <1>1, <1>4, <1>5, <1>6, <1>7 DEF OtaInv

\* A restart, wherever it happens, starts from a bootable partition.
LEMMA RebootKeeps ==
  ASSUME OtaInv, Crash \/ RestartIntoUpdate
  PROVE  OtaInv' /\ Reboot
<1>1. Reboot
  BY DEF Crash, RestartIntoUpdate
<1>2. faults' \in 0..MaxFaults
  BY OtaAssumption DEF Crash, Fault, RestartIntoUpdate, OtaInv, TypeOK
<1>3. Idle \in [size : 0..Capacity, progress : 0..Capacity, error : BOOLEAN]
  <2>1. 0 \in 0..Capacity
    BY OtaAssumption
  <2> QED
    BY <2>1 DEF Idle
<1>4. TypeOK'
  BY <1>1, <1>2, <1>3 DEF Reboot, OtaInv, TypeOK
<1>5. BootableIsWhole'
  BY <1>1, FlashKept DEF Reboot, OtaInv
<1>6. Selected' /\ Offered' /\ Written' /\ Enabled'
  BY <1>1 DEF Reboot, OtaInv, Selected, Offered, Written, Enabled, Idle
<1> QED
  BY <1>1, <1>4, <1>5, <1>6 DEF OtaInv

-----------------------------------------------------------------------------
(* The theorems.                                                           *)

\* Every step touches no partition, writes the target, moves the boot pointer
\* or restarts.
LEMMA StepKinds ==
  ASSUME Next
  PROVE  \/ RamStep
         \/ EraseSector \/ WriteSector \/ EnablePartition
         \/ SetBootPartition
         \/ Crash \/ RestartIntoUpdate
  BY DEF Next, UpdateStep, FaultStep, RamStep

\* The invariant is inductive.
LEMMA OtaStep == OtaInv /\ [Next]_vars => OtaInv'
<1> SUFFICES ASSUME OtaInv, [Next]_vars PROVE OtaInv'
  OBVIOUS
<1>1. CASE Next
  BY <1>1, StepKinds, RamStepKeeps, EraseKeeps, WriteKeeps, EnableKeeps,
     SetBootKeeps, RebootKeeps
<1>2. CASE UNCHANGED vars
  BY <1>2
     DEF vars, OtaInv, TypeOK, Selected, Offered, Written, Enabled, BootableIsWhole,
         Whole, Target, Running
<1> QED
  BY <1>1, <1>2

\* The invariant holds in every reachable state.
LEMMA OtaAlways == Spec => []OtaInv
  BY OtaInit, OtaStep, PTL DEF Spec

\* UpdateClass never counts beyond the partition, and the sectors, boot pointer
\* and stages keep their types.
THEOREM OtaTypeCorrect == Spec => []TypeOK
  BY OtaAlways, PTL DEF OtaInv

\* A partition with a header holds its whole image, whenever the power fails.
THEOREM OtaBootableIsWhole == Spec => []BootableIsWhole
  BY OtaAlways, PTL DEF OtaInv

\* The partition that otadata selects always holds a bootable image.
THEOREM OtaBootPartBootable == Spec => []BootPartBootable
<1>1. OtaInv => BootPartBootable
  BY DEF OtaInv, Selected, BootPartBootable
<1> QED
  BY <1>1, OtaAlways, PTL

\* After any attempt, however it failed, UpdateClass accepts the next one.
THEOREM OtaUpdaterReady == Spec => []UpdaterReady
<1>1. OtaInv => UpdaterReady
  BY DEF OtaInv, Written, UpdaterReady
<1> QED
  BY <1>1, OtaAlways, PTL

\* No step writes the partition it runs from.
LEMMA RunningPartKept ==
  ASSUME OtaInv, [Next]_vars
  PROVE  flash'[runPart] = flash[runPart]
<1>1. flash \in [Partitions -> Contents] /\ runPart \in Partitions /\ Target # runPart
  BY TargetIsOther DEF OtaInv, TypeOK, Contents, Cells
<1>2. CASE RamStep
  BY <1>2, RamStepTypes
<1>3. CASE EraseSector
  BY <1>1, <1>3 DEF EraseSector
<1>4. CASE WriteSector
  BY <1>1, <1>4 DEF WriteSector
<1>5. CASE EnablePartition
  BY <1>1, <1>5 DEF EnablePartition
<1>6. CASE SetBootPartition \/ Crash \/ RestartIntoUpdate
  BY <1>6 DEF SetBootPartition, Crash, RestartIntoUpdate, Reboot
<1>7. CASE UNCHANGED vars
  BY <1>7 DEF vars
<1> QED
  BY <1>2, <1>3, <1>4, <1>5, <1>6, <1>7, StepKinds

\* The running firmware is never erased or overwritten under its own feet.
THEOREM OtaRunningUntouched == Spec => RunningUntouched
<1>1. OtaInv /\ [Next]_vars => [flash'[runPart] = flash[runPart]]_vars
  BY RunningPartKept
<1> QED
  BY <1>1, OtaAlways, PTL DEF Spec, RunningUntouched

\* Seen from outside, every step installs an announced newer image at once,
\* starts what is installed, or changes nothing.
LEMMA StepIsSlotStep ==
  ASSUME OtaInv, [Next]_vars
  PROVE  [Slot!Install \/ Slot!Restart]_(Slot!slotVars)
<1> USE DEF Running, Slot!slotVars
<1>1. flash'[runPart] = flash[runPart]
  BY RunningPartKept
<1>2. CASE RamStep \/ UNCHANGED vars
  BY <1>2, RamStepTypes DEF vars
<1>3. CASE EraseSector \/ WriteSector \/ EnablePartition
  <2>1. UNCHANGED <<runPart, bootPart>> /\ bootPart = runPart
    BY <1>3 DEF EraseSector, WriteSector, EnablePartition, OtaInv, Selected
  <2> QED
    BY <1>1, <2>1
<1>4. CASE SetBootPartition
  <2>1. flash[Target].head = offer /\ offer \in Images /\ offer > Reports[Running]
    BY <1>4, SetBootKeeps DEF SetBootPartition, OtaInv, Offered
  <2>2. flash' = flash /\ runPart' = runPart /\ bootPart' = Target
    BY <1>4 DEF SetBootPartition
  <2>3. Slot!Install
    BY <2>1, <2>2 DEF Slot!Install
  <2> QED
    BY <2>3
<1>5. CASE Crash \/ RestartIntoUpdate
  <2>1. flash' = flash /\ runPart' = bootPart /\ bootPart' = bootPart
    BY <1>5 DEF Crash, RestartIntoUpdate, Reboot
  <2>2. Slot!Restart
    BY <2>1 DEF Slot!Restart
  <2> QED
    BY <2>2
<1> QED
  BY <1>2, <1>3, <1>4, <1>5, StepKinds

\* The sector by sector update with its crashes and failures implements the
\* firmware slot that changes atomically.
THEOREM OtaImplementsSlot == Spec => ImplementsSlot
<1>1. Init => Slot!SlotInit
  BY OtaAssumption DEF Init, Slot!SlotInit, Running, Partitions
<1>2. OtaInv /\ [Next]_vars => [Slot!Install \/ Slot!Restart]_(Slot!slotVars)
  BY StepIsSlotStep
<1> QED
  BY <1>1, <1>2, OtaAlways, PTL DEF Spec, ImplementsSlot, Slot!SlotSpec

-----------------------------------------------------------------------------
(* An attempt has an end.                                                  *)

\* The steps to go at every stage.
LEMMA StepsToGoIs ==
    /\ stage = "found"   => StepsToGo = 5 + 2 * Size[offer]
    /\ stage = "stream"  => StepsToGo = 4 + 2 * (upd.size - upd.progress)
    /\ stage = "erased"  => StepsToGo = 3 + 2 * (upd.size - upd.progress)
    /\ stage = "end"     => StepsToGo = 3
    /\ stage = "enabled" => StepsToGo = 2
    /\ stage = "restart" => StepsToGo = 1
    /\ stage = "idle"    => StepsToGo = 0
<1>1. /\ stage = "found"   => StageSteps[stage] = 5 /\ SectorsToGo = Size[offer]
      /\ stage = "stream"  => StageSteps[stage] = 4 /\ SectorsToGo = upd.size - upd.progress
      /\ stage = "erased"  => StageSteps[stage] = 3 /\ SectorsToGo = upd.size - upd.progress
      /\ stage = "end"     => StageSteps[stage] = 3 /\ SectorsToGo = 0
      /\ stage = "enabled" => StageSteps[stage] = 2 /\ SectorsToGo = 0
      /\ stage = "restart" => StageSteps[stage] = 1 /\ SectorsToGo = 0
      /\ stage = "idle"    => StageSteps[stage] = 0 /\ SectorsToGo = 0
  BY DEF StageSteps, SectorsToGo
<1>2. /\ stage = "end"     => StepsToGo = 3 + 2 * 0
      /\ stage = "enabled" => StepsToGo = 2 + 2 * 0
      /\ stage = "restart" => StepsToGo = 1 + 2 * 0
      /\ stage = "idle"    => StepsToGo = 0 + 2 * 0
  BY <1>1 DEF StepsToGo
<1> QED
  BY <1>1, <1>2 DEF StepsToGo

\* Off the idle stage there are steps to go, and no more sectors than the image
\* has.
LEMMA StepsLeft ==
  ASSUME OtaInv
  PROVE  /\ stage # "idle" => StepsToGo > 0
         /\ stage = "found" => Size[offer] \in Nat /\ StepsToGo >= 5
         /\ stage \in {"stream", "erased"} =>
               upd.size \in Nat /\ upd.progress \in Nat /\ upd.progress <= upd.size
         /\ stage = "stream" => StepsToGo >= 4
         /\ stage = "erased" => StepsToGo >= 5
<1>1. stage = "found" => Size[offer] \in Nat
  BY SizePositive DEF OtaInv, Offered
<1>2. upd.size \in Nat /\ upd.progress \in Nat
  BY OtaAssumption DEF OtaInv, TypeOK
<1>3. /\ stage \in {"stream", "erased"} => upd.progress <= upd.size
      /\ stage = "erased" => upd.progress < upd.size
  BY <1>2 DEF OtaInv, Written
<1>4. stage = "found" => StepsToGo >= 5
  BY <1>1, StepsToGoIs
<1>5. stage = "stream" => StepsToGo >= 4
  BY <1>2, <1>3, StepsToGoIs
<1>6. stage = "erased" => StepsToGo >= 5
  BY <1>2, <1>3, StepsToGoIs
<1>7. stage # "idle" => StepsToGo > 0
  <2>1. \/ stage \in {"found", "stream", "erased"}
        \/ stage = "end" \/ stage = "enabled" \/ stage = "restart" \/ stage = "idle"
    BY DEF OtaInv, TypeOK
  <2>2. stage \in {"found", "stream", "erased"} => StepsToGo >= 4
    BY <1>4, <1>5, <1>6, <1>1, <1>2, <1>3, StepsToGoIs
  <2>3. stage \in {"end", "enabled", "restart"} => StepsToGo > 0
    BY StepsToGoIs
  <2>4. stage \in {"found", "stream", "erased"} => StepsToGo > 0
    BY <2>2, <1>1, <1>2, <1>3, StepsToGoIs
  <2> QED
    BY <2>1, <2>3, <2>4
<1> QED
  BY <1>1, <1>2, <1>3, <1>4, <1>5, <1>6, <1>7

\* Going on to the next sector, to the end and to the restart takes a step.
LEMMA StepAdvances ==
  ASSUME OtaInv, Next, ~Publish, stage # "idle"
  PROVE  StepsToGo' < StepsToGo
<1>1. CASE stage' = "idle"
  <2>1. StepsToGo' = 0
    BY <1>1 DEF StepsToGo, StageSteps, SectorsToGo
  <2> QED
    BY <2>1, StepsLeft
<1>2. CASE Begin
  <2>1. /\ stage = "found" /\ stage' = "stream"
        /\ upd'.size = Size[offer] /\ upd'.progress = 0
    BY <1>2 DEF Begin
  <2>2. StepsToGo' = 4 + 2 * (Size[offer] - 0)
    BY <2>1 DEF StepsToGo, StageSteps, SectorsToGo
  <2> QED
    BY <2>1, <2>2, StepsToGoIs, StepsLeft
<1>3. CASE EraseSector
  <2>1. stage = "stream" /\ stage' = "erased" /\ upd' = upd
    BY <1>3 DEF EraseSector
  <2>2. StepsToGo' = 3 + 2 * (upd.size - upd.progress)
    BY <2>1 DEF StepsToGo, StageSteps, SectorsToGo
  <2> QED
    BY <2>1, <2>2, StepsToGoIs, StepsLeft
<1>4. CASE WriteSector
  <2>1. stage = "erased" /\ stage' = "stream" /\ upd' = [upd EXCEPT !.progress = @ + 1]
    BY <1>4 DEF WriteSector
  <2>2. upd'.size = upd.size /\ upd'.progress = upd.progress + 1
    BY <2>1 DEF OtaInv, TypeOK
  <2>3. StepsToGo' = 4 + 2 * (upd.size - (upd.progress + 1))
    BY <2>1, <2>2 DEF StepsToGo, StageSteps, SectorsToGo
  <2> QED
    BY <2>1, <2>3, StepsToGoIs, StepsLeft
<1>5. CASE StreamAborts \/ StashFails \/ StreamEnds
  <2>1. stage \in {"stream", "erased"} /\ stage' = "end"
    BY <1>5 DEF StreamAborts, StashFails, StreamEnds
  <2>2. StepsToGo' = 3
    BY <2>1 DEF StepsToGo, StageSteps, SectorsToGo
  <2> QED
    BY <2>1, <2>2, StepsToGoIs, StepsLeft
<1>6. CASE EnablePartition \/ SetBootPartition
  <2>1. \/ stage = "end" /\ stage' = "enabled"
        \/ stage = "enabled" /\ stage' = "restart"
    BY <1>6 DEF EnablePartition, SetBootPartition
  <2>2. \/ stage = "end" /\ StepsToGo' = 2
        \/ stage = "enabled" /\ StepsToGo' = 1
    BY <2>1 DEF StepsToGo, StageSteps, SectorsToGo
  <2> QED
    BY <2>2, StepsToGoIs
<1>7. \/ stage' = "idle"
      \/ Begin \/ EraseSector \/ WriteSector
      \/ StreamAborts \/ StashFails \/ StreamEnds
      \/ EnablePartition \/ SetBootPartition
  BY DEF Next, UpdateStep, FaultStep, CheckManifest, BeginRefused, EndRefuses,
         RestartIntoUpdate, Crash, Reboot, GetFails, BeginOutOfMemory, VerifyEndFails
<1> QED
  BY <1>1, <1>2, <1>3, <1>4, <1>5, <1>6, <1>7

\* No attempt goes on for ever: of the steps it has to go, a number, every one
\* taken leaves fewer, whatever fails.  With the fairness of the main loop this
\* is why UpdateCompletes holds.
THEOREM OtaAttemptAdvances == Spec => AttemptAdvances
<1>1. OtaInv /\ [Next]_vars
        => [stage # "idle" /\ ~Publish => StepsToGo' < StepsToGo]_vars
  BY StepAdvances
<1> QED
  BY <1>1, OtaAlways, PTL DEF Spec, AttemptAdvances

-----------------------------------------------------------------------------
(* What every implementation of the firmware slot promises.                *)

\* What is installed runs, or is newer than what runs.
Ahead == flash[bootPart].head = Running \/ flash[bootPart].head > Reports[Running]

\* Installing an announced newer image and starting it keep the slot ahead.
LEMMA SlotStepAhead ==
  ASSUME Ahead, [Slot!Install \/ Slot!Restart]_(Slot!slotVars)
  PROVE  Ahead' /\ (Running' # Running => Running' > Reports[Running])
  BY DEF Ahead, Slot!Install, Slot!Restart, Slot!slotVars

\* A firmware slot that changes atomically never goes back to an older image.
LEMMA SlotOnlyNewerStarts == Slot!SlotSpec => Slot!OnlyNewerStarts
<1>1. Slot!SlotInit => Ahead
  BY DEF Slot!SlotInit, Ahead
<1>2. Ahead /\ [Slot!Install \/ Slot!Restart]_(Slot!slotVars) => Ahead'
  BY SlotStepAhead
<1>3. Ahead /\ [Slot!Install \/ Slot!Restart]_(Slot!slotVars)
        => [Running' # Running => Running' > Reports[Running]]_(Slot!slotVars)
  BY SlotStepAhead
<1> QED
  BY <1>1, <1>2, <1>3, PTL DEF Slot!SlotSpec, Slot!OnlyNewerStarts

\* No restart puts the satellite back to an older image: the promise of the
\* slot, inherited through the refinement.
THEOREM OtaOnlyNewerStarts == Spec => OnlyNewerStarts
  BY OtaImplementsSlot, SlotOnlyNewerStarts, PTL DEF ImplementsSlot, OnlyNewerStarts

=============================================================================
