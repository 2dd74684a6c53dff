------------------------------- MODULE SdLog --------------------------------
(***************************************************************************)
(* The log on the SD card (PION_Storage.cpp): at every boot configuraPortas *)
(* mounts the card and createLogOnSD looks for an unused name /DadosTU.csv,*)
(* T and U being digits; obtemJSON then appends a row per packet.          *)
(*                                                                         *)
(* The name is in RAM and starts at 00 at every boot; the files stay.  Any *)
(* access to the card may fail, and the satellite may be reset between any *)
(* two of them.  A file is abstracted to who wrote in it.  SDTask and      *)
(* toggleSD are not started by the flight configuration.                   *)
(***************************************************************************)
EXTENDS Naturals

CONSTANTS
    Base,       \* digits of a position of the name: 10
    MaxBoots,   \* bound on the boots of one behaviour
    MaxRows,    \* rows of a file are counted up to here
    MaxFaults   \* bound on the failing accesses of one behaviour

ASSUME SdAssumption ==
    /\ {Base, MaxBoots, MaxRows, MaxFaults} \subseteq Nat
    /\ 0 < Base /\ 0 < MaxBoots

Digits == 0..(Base - 1)
Names == [tens : Digits, units : Digits]
First == [tens |-> 0, units |-> 0]

\* n comes before m in the order of the search.
Before(n, m) == n.tens < m.tens \/ (n.tens = m.tens /\ n.units < m.units)

Boots == 1..MaxBoots

\* A file that does not exist has no writers.
Absent == [writers |-> {}, header |-> FALSE, rows |-> 0]

VARIABLES
    files,      \* the card
    fileName,   \* the global fileName
    sdStatus,   \* Storage::sdStatus
    step,       \* where the main task is
    boot,       \* number of this boot
    misread,    \* history: SD.exists answered wrongly in this boot
    faults      \* failing accesses so far

vars == <<files, fileName, sdStatus, step, boot, misread, faults>>

TypeOK ==
    /\ files \in [Names -> [writers : SUBSET Boots, header : BOOLEAN, rows : 0..MaxRows]]
    /\ fileName \in Names
    /\ sdStatus \in {"NO_SD", "SD_CONNECTED", "SD_RECORDING"}
    /\ step \in {"mount", "search", "create", "firstLine", "run"}
    /\ boot \in Boots
    /\ misread \in BOOLEAN
    /\ faults \in 0..MaxFaults

Exists(n) == files[n].writers # {}

Init ==
    /\ files = [n \in Names |-> Absent]
    /\ fileName = First
    /\ sdStatus = "NO_SD"
    /\ step = "mount"
    /\ boot = 1
    /\ misread = FALSE
    /\ faults = 0

\* A reset at any point: the console's ESP.restart, an update, the power.
Reset ==
    /\ boot < MaxBoots
    /\ boot' = boot + 1
    /\ fileName' = First
    /\ sdStatus' = "NO_SD"
    /\ step' = "mount"
    /\ misread' = FALSE
    /\ UNCHANGED <<files, faults>>

Fault == faults < MaxFaults /\ faults' = faults + 1

-----------------------------------------------------------------------------
(* Storage::init.                                                          *)

Mount ==
    /\ step = "mount"
    /\ sdStatus' = "SD_CONNECTED"
    /\ step' = "search"
    /\ UNCHANGED <<files, fileName, boot, misread, faults>>

\* CARD_NONE: createLogOnSD does nothing, and neither does logOnSDFile.
NoCard ==
    /\ step = "mount"
    /\ Fault
    /\ step' = "run"
    /\ UNCHANGED <<files, fileName, sdStatus, boot, misread>>

-----------------------------------------------------------------------------
(* createLogOnSD.                                                          *)

\* Mutant: the units are not set back to '0'.
UnitsKept(n) ==
    IF n.units # Base - 1 THEN [n EXCEPT !.units = @ + 1]
    ELSE IF n.tens # Base - 1 THEN [n EXCEPT !.tens = @ + 1]
    ELSE n

\* The body of the loop: at the last name nothing changes.
NextName(n) ==
    IF n.units # Base - 1 THEN [n EXCEPT !.units = @ + 1]
    ELSE IF n.tens # Base - 1 THEN [tens |-> n.tens + 1, units |-> 0]
    ELSE n

TryNextName ==
    /\ step = "search"
    /\ Exists(fileName)
    /\ fileName' = NextName(fileName)
    /\ UNCHANGED <<files, sdStatus, step, boot, misread, faults>>

\* Mutant: the search does not ask whether the name is in use.
AnyName == TRUE

NameUnused == ~Exists(fileName)

EndSearch ==
    /\ step = "search"
    /\ NameUnused
    /\ step' = "create"
    /\ UNCHANGED <<files, fileName, sdStatus, boot, misread, faults>>

\* SD.exists is "can be opened for reading": a failing access looks like an
\* unused name.
Misread ==
    /\ step = "search"
    /\ Exists(fileName)
    /\ Fault
    /\ misread' = TRUE
    /\ step' = "create"
    /\ UNCHANGED <<files, fileName, sdStatus, boot>>

\* fs.open(path, FILE_WRITE): an existing file is emptied.
CreateFile ==
    /\ step = "create"
    /\ files' = [files EXCEPT ![fileName] =
                    [writers |-> {boot}, header |-> FALSE, rows |-> 0]]
    /\ step' = "firstLine"
    /\ UNCHANGED <<fileName, sdStatus, boot, misread, faults>>

\* The file cannot be opened: recording starts all the same.
CreateFails ==
    /\ step = "create"
    /\ Fault
    /\ sdStatus' = "SD_RECORDING"
    /\ step' = "run"
    /\ UNCHANGED <<files, fileName, boot, misread>>

\* The header, if it can be written.
FirstLine ==
    /\ step = "firstLine"
    /\ \/ files' = [files EXCEPT ![fileName].header = TRUE] /\ UNCHANGED faults
       \/ Fault /\ UNCHANGED files
    /\ sdStatus' = "SD_RECORDING"
    /\ step' = "run"
    /\ UNCHANGED <<fileName, boot, misread>>

-----------------------------------------------------------------------------
(* logOnSDFile.                                                            *)

\* fs.open(path, FILE_APPEND) creates a file that is missing.  A row that
\* cannot be appended changes nothing.
AppendFile ==
    /\ step = "run"
    /\ sdStatus = "SD_RECORDING"
    /\ files' = [files EXCEPT ![fileName].writers = @ \cup {boot},
                              ![fileName].rows = IF @ < MaxRows THEN @ + 1 ELSE @]
    /\ UNCHANGED <<fileName, sdStatus, step, boot, misread, faults>>

\* logOnSDFile without a card: a message on the console, nothing else.
LogRefused ==
    /\ step = "run"
    /\ sdStatus # "SD_RECORDING"
    /\ UNCHANGED vars

-----------------------------------------------------------------------------

MainStep ==
    \/ Mount \/ NoCard
    \/ TryNextName \/ EndSearch \/ Misread
    \/ CreateFile \/ CreateFails \/ FirstLine
    \/ AppendFile \/ LogRefused

Next == MainStep \/ Reset

Spec == Init /\ [][Next]_vars

\* The main task runs; nobody has to reset it.
FairSpec == Spec /\ WF_vars(MainStep)

-----------------------------------------------------------------------------
(* Properties.                                                             *)

\* A boot never changes a file that earlier boots wrote, unless the card
\* failed while it looked for an unused name.
EarlierLogsKept ==
    [][\A n \in Names :
        Exists(n) /\ boot \notin files[n].writers /\ ~misread
            => files'[n] = files[n]]_vars

\* Names are used in order, without gaps, whatever fails and whenever the
\* satellite is reset: the search from 00 meets every earlier log.
NamesInOrder ==
    \A n, m \in Names : Exists(m) /\ Before(n, m) => Exists(n)

\* A boot writes in one file, whether or not it could create it at the first
\* attempt and even if it emptied somebody else's.
OneFilePerBoot ==
    \A n, m \in Names : files[n].writers \cap files[m].writers # {} => n = m

\* Unless SD.exists failed, that file has the last name of the card.
NewestIsLast ==
    ~misread => \A n, m \in Names :
        boot \in files[n].writers /\ Exists(m) => m = n \/ Before(m, n)

\* The names of the logs tell the boots apart and tell their order: a boot has
\* one log, and it comes after those of all earlier boots.
NamesTellBoots == OneFilePerBoot /\ NewestIsLast

\* While a name is unused every pass of the search loop goes on to a later name:
\* the loop cannot stand still before the card is full.
SearchAdvances ==
    [][TryNextName /\ (\E n \in Names : ~Exists(n)) => Before(fileName, fileName')]_vars

\* While a name is unused the search comes to its end.
SearchEndsWhileNamesRemain ==
    step = "search" /\ (\E n \in Names : ~Exists(n)) ~> step # "search"

\* Every boot finds a name and goes on to start the rest of the satellite.
SearchEnds == step = "search" ~> step = "run"

=============================================================================
