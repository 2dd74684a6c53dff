----------------------------- MODULE OtaUpdate ------------------------------
(***************************************************************************)
(* The over-the-air update: esp32FOTA::execHTTPcheck and execOTA on top of *)
(* UpdateClass (Updater.cpp), two application partitions and the boot      *)
(* pointer in the otadata partition.                                       *)
(*                                                                         *)
(* The image arrives sector by sector: each sector of the partition that   *)
(* is not running is erased, then written.  The first 16 bytes, which make *)
(* an image bootable, are held back until every sector is written.  The    *)
(* power may fail and the console may restart the chip between any two of  *)
(* these steps.                                                            *)
(*                                                                         *)
(* A manifest is an array of entries, or one entry: each has a firmware    *)
(* type, a version and, if it is not malformed, an address to fetch it     *)
(* from.  An image is the version its manifest announces; Reports[v] is    *)
(* the version compiled into it, which it compares manifests with.  It is  *)
(* assumed that the address names the image announced with it: the code    *)
(* cannot check that.  Signatures are not checked in this configuration    *)
(* (validate = false).                                                     *)
(***************************************************************************)
EXTENDS Naturals, Sequences

CONSTANTS
    Images,       \* versions the server may announce
    Size,         \* Size[v]: sectors of image v
    Reports,      \* Reports[v]: the version image v believes to be
    Capacity,     \* sectors of an application partition
    Factory,      \* the image the satellite was flashed with
    Manifests,    \* what the server may answer; <<>> is not a manifest
    FirmwareType, \* the type the satellite looks for: "esp32-fota-http"
    MaxFaults     \* bound on crashes and failing calls of one behaviour

Blank == 0

\* An entry of a manifest: a version that is missing or malformed counts as 0,
\* and located says that it has a url, or a host, port and bin.
Entry == [type : STRING, version : Images \cup {Blank}, located : BOOLEAN]

ASSUME OtaAssumption ==
    /\ Images \subseteq Nat \ {Blank}
    /\ Size \in [Images -> Nat \ {0}]
    /\ Reports \in [Images -> Nat]
    /\ Capacity \in Nat /\ MaxFaults \in Nat
    /\ Factory \in Images /\ Size[Factory] <= Capacity
    /\ Manifests \subseteq Seq(Entry)

Partitions == {"app0", "app1"}
Other(p) == IF p = "app0" THEN "app1" ELSE "app0"
Sectors == 1..Capacity

VARIABLES
    flash,     \* flash[p]: head (the 16 bytes) and body (the sectors)
    bootPart,  \* the partition otadata selects
    runPart,   \* the partition this boot runs from
    upd,       \* UpdateClass: _size, _progress, _error
    stage,     \* where execHTTPcheck/execOTA are
    offer,     \* the image the accepted manifest announced
    served,    \* the manifest on the server
    faults     \* crashes and failures so far

vars == <<flash, bootPart, runPart, upd, stage, offer, served, faults>>

Running == flash[runPart].head

\* Mutant: the image is written over the firmware that runs.
TargetIsRunning == runPart

\* esp_ota_get_next_update_partition(NULL).
Target == Other(runPart)

Idle == [size |-> 0, progress |-> 0, error |-> FALSE]
Failed == [size |-> 0, progress |-> 0, error |-> TRUE]

TypeOK ==
    /\ flash \in [Partitions ->
                    [head : Images \cup {Blank}, body : [Sectors -> Images \cup {Blank}]]]
    /\ bootPart \in Partitions /\ runPart \in Partitions
    /\ upd \in [size : 0..Capacity, progress : 0..Capacity, error : BOOLEAN]
    /\ stage \in {"idle", "found", "stream", "erased", "end", "enabled", "restart"}
    /\ offer \in Images \cup {Blank} /\ served \in Manifests
    /\ faults \in 0..MaxFaults

\* All the sectors of image v are in partition p.
Whole(p, v) == \A i \in 1..Size[v] : flash[p].body[i] = v

Init ==
    /\ flash = [p \in Partitions |->
                  IF p = "app0"
                  THEN [head |-> Factory,
                        body |-> [i \in Sectors |-> IF i <= Size[Factory] THEN Factory ELSE Blank]]
                  ELSE [head |-> Blank, body |-> [i \in Sectors |-> Blank]]]
    /\ bootPart = "app0" /\ runPart = "app0"
    /\ upd = Idle /\ stage = "idle" /\ offer = Blank
    /\ served \in Manifests /\ faults = 0

-----------------------------------------------------------------------------
(* The server and the power.                                               *)

\* Another manifest is put on the server, perhaps with older images.
Publish ==
    /\ served' \in Manifests \ {served}
    /\ UNCHANGED <<flash, bootPart, runPart, upd, stage, offer, faults>>

\* The bootloader starts what otadata selects; RAM is lost.
Reboot ==
    /\ runPart' = bootPart
    /\ upd' = Idle /\ stage' = "idle" /\ offer' = Blank
    /\ UNCHANGED <<flash, bootPart, served>>

Fault == faults < MaxFaults /\ faults' = faults + 1

Crash == Fault /\ Reboot

\* ESP.restart() at the end of execOTA.
RestartIntoUpdate == stage = "restart" /\ Reboot /\ UNCHANGED faults

-----------------------------------------------------------------------------
(* execHTTPcheck, and execOTA up to Update.begin.                          *)

\* Mutant: any version of the right type is accepted.
AnyVersion(v) == v # Blank

\* checkJSONManifest: semver_compare(payload, firmware) == 1.
Newer(v) == v > Reports[Running]

\* An entry for this firmware that is not malformed...
Meant(e) == e.type = FirmwareType /\ e.located

\* ... and newer: checkJSONManifest returns true.
Accepts(e) == Meant(e) /\ Newer(e.version)

\* The first entry that is accepted counts, a manifest without one does not.
CheckManifest ==
    /\ stage = "idle"
    /\ \E i \in 1..Len(served) :
        /\ Accepts(served[i])
        /\ \A j \in 1..(i - 1) : ~Accepts(served[j])
        /\ offer' = served[i].version
    /\ stage' = "found"
    /\ UNCHANGED <<flash, bootPart, runPart, upd, served, faults>>

\* The GET fails, or its answer has no length or another content type.
GetFails ==
    /\ stage = "found"
    /\ Fault
    /\ stage' = "idle"
    /\ UNCHANGED <<flash, bootPart, runPart, upd, offer, served>>

\* Mutant: a partition's last sector is not used.
CanBeginSmaller == upd.size = 0 /\ Size[offer] < Capacity

CanBegin == upd.size = 0 /\ Size[offer] <= Capacity

Begin ==
    /\ stage = "found"
    /\ CanBegin
    /\ upd' = [size |-> Size[offer], progress |-> 0, error |-> FALSE]
    /\ stage' = "stream"
    /\ UNCHANGED <<flash, bootPart, runPart, offer, served, faults>>

\* "already running" leaves everything; an image larger than the partition
\* leaves the error behind.
BeginRefused ==
    /\ stage = "found"
    /\ ~CanBegin
    /\ upd' = IF upd.size = 0 THEN Failed ELSE upd
    /\ stage' = "idle"
    /\ UNCHANGED <<flash, bootPart, runPart, offer, served, faults>>

\* No memory for the sector buffer: begin returns false without an error.
BeginOutOfMemory ==
    /\ stage = "found"
    /\ CanBegin
    /\ Fault
    /\ upd' = Idle
    /\ stage' = "idle"
    /\ UNCHANGED <<flash, bootPart, runPart, offer, served>>

-----------------------------------------------------------------------------
(* writeStream: one erase and one write per sector.                        *)

Sector == upd.progress + 1

\* Mutant: the first sector keeps its header when it is erased and rewritten.
HeadKept == flash[Target].head

\* Sector 0 is erased with the 16 bytes of its header.
HeadAfterErase == IF Sector = 1 THEN Blank ELSE flash[Target].head

EraseSector ==
    /\ stage = "stream"
    /\ upd.progress < upd.size
    /\ flash' = [flash EXCEPT ![Target] =
                    [head |-> HeadAfterErase, body |-> [@.body EXCEPT ![Sector] = Blank]]]
    /\ stage' = "erased"
    /\ UNCHANGED <<bootPart, runPart, upd, offer, served, faults>>

WriteSector ==
    /\ stage = "erased"
    /\ flash' = [flash EXCEPT ![Target] =
                    [head |-> @.head, body |-> [@.body EXCEPT ![Sector] = offer]]]
    /\ upd' = [upd EXCEPT !.progress = @ + 1]
    /\ stage' = "stream"
    /\ UNCHANGED <<bootPart, runPart, offer, served, faults>>

\* The stream times out, the first byte is not the magic, or the flash fails.
StreamAborts ==
    /\ stage \in {"stream", "erased"}
    /\ Fault
    /\ upd' = Failed
    /\ stage' = "end"
    /\ UNCHANGED <<flash, bootPart, runPart, offer, served>>

\* No memory to stash the header: _writeBuffer fails without _abort.
StashFails ==
    /\ stage = "stream"
    /\ upd.progress = 0
    /\ Fault
    /\ stage' = "end"
    /\ UNCHANGED <<flash, bootPart, runPart, upd, offer, served>>

StreamEnds ==
    /\ stage = "stream"
    /\ upd.progress = upd.size
    /\ stage' = "end"
    /\ UNCHANGED <<flash, bootPart, runPart, upd, offer, served, faults>>

-----------------------------------------------------------------------------
(* Update.end.                                                             *)

\* Mutant: a premature end is not aborted.
PrematureEndKept == upd

\* hasError, _size = 0 or a premature end make end() return false.
EndAccepts == ~upd.error /\ upd.size > 0 /\ upd.progress = upd.size

\* end() calls _abort on a premature end; otherwise it was aborted before.
AfterRefusal == Failed

EndRefuses ==
    /\ stage = "end"
    /\ ~EndAccepts
    /\ upd' = AfterRefusal
    /\ stage' = "idle"
    /\ UNCHANGED <<flash, bootPart, runPart, offer, served, faults>>

\* _enablePartition: the 16 bytes are written.
EnablePartition ==
    /\ stage = "end"
    /\ EndAccepts
    /\ flash' = [flash EXCEPT ![Target] = [head |-> offer, body |-> @.body]]
    /\ stage' = "enabled"
    /\ UNCHANGED <<bootPart, runPart, upd, offer, served, faults>>

\* The header cannot be written, or the boot pointer cannot be set: _abort.
VerifyEndFails ==
    /\ stage = "enabled" \/ (stage = "end" /\ EndAccepts)
    /\ Fault
    /\ upd' = Failed
    /\ stage' = "idle"
    /\ UNCHANGED <<flash, bootPart, runPart, offer, served>>

\* esp_ota_set_boot_partition, then _reset.
SetBootPartition ==
    /\ stage = "enabled"
    /\ bootPart' = Target
    /\ upd' = Idle
    /\ stage' = "restart"
    /\ UNCHANGED <<flash, runPart, offer, served, faults>>

-----------------------------------------------------------------------------

UpdateStep ==
    \/ CheckManifest \/ Begin \/ BeginRefused
    \/ EraseSector \/ WriteSector \/ StreamEnds
    \/ EndRefuses \/ EnablePartition \/ SetBootPartition \/ RestartIntoUpdate

FaultStep ==
    \/ Crash \/ GetFails \/ BeginOutOfMemory
    \/ StreamAborts \/ StashFails \/ VerifyEndFails

Next == UpdateStep \/ FaultStep \/ Publish

Spec == Init /\ [][Next]_vars

\* The main loop comes back to the check after every attempt.
FairSpec == Spec /\ WF_vars(UpdateStep)

-----------------------------------------------------------------------------
(* Properties.                                                             *)

\* A partition with its header has every sector of that image: a partially
\* written firmware is not bootable, whenever the power fails.
BootableIsWhole ==
    \A p \in Partitions :
        flash[p].head # Blank => Whole(p, flash[p].head)

\* The selected partition always holds a bootable image: no reset can leave
\* the satellite without firmware.
BootPartBootable == flash[bootPart].head # Blank

\* The running firmware is never erased or overwritten under its own feet.
RunningUntouched == [][flash'[runPart] = flash[runPart]]_vars

\* Between two attempts UpdateClass is ready: no failed attempt leaves it
\* "already running", which would refuse every later update.
UpdaterReady == stage = "idle" => upd.size = 0

\* Everything above seen from outside: the firmware slot changes atomically.
Slot == INSTANCE FirmwareSlot WITH
    running <- Running, installed <- flash[bootPart].head

ImplementsSlot == Slot!SlotSpec

\* No restart, planned or forced at any step of an update, puts the satellite
\* back to an older image, whatever the server announced meanwhile.
OnlyNewerStarts == Slot!OnlyNewerStarts

\* The sectors and the steps to go of an attempt: a sector takes two of them.
SectorsToGo ==
    IF stage = "found" THEN Size[offer]
    ELSE IF stage \in {"stream", "erased"} THEN upd.size - upd.progress ELSE 0
StageSteps ==
    [found |-> 5, stream |-> 4, erased |-> 3, end |-> 3, enabled |-> 2, restart |-> 1,
     idle |-> 0]
StepsToGo == StageSteps[stage] + 2 * SectorsToGo

\* Whatever fails in it, an attempt has an end: every step of it, crashes and
\* failing calls included, leaves fewer to go.
AttemptAdvances ==
    [][stage # "idle" /\ ~Publish => StepsToGo' < StepsToGo]_vars

\* Once no more faults happen, the newest of the images that a manifest which
\* stays on the server announces for this firmware ends up running, or a newer
\* one, as long as they all fit: the first one too large for a partition would
\* be tried for ever, and keep those after it from being installed.
MeantVersions(m) ==
    {m[i].version : i \in {j \in 1..Len(m) : Meant(m[j])}} \ {Blank}
UpdateCompletes ==
    \A m \in Manifests :
        served = m /\ (\A v \in MeantVersions(m) : Size[v] <= Capacity)
            ~> served # m \/ \A v \in MeantVersions(m) : v <= Reports[Running]

=============================================================================
