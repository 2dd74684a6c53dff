---------------------------- MODULE SdLogProofs -----------------------------
(***************************************************************************)
(* Proofs about SdLog, for any number base, any number of boots and any    *)
(* number of failing accesses.                                             *)
(***************************************************************************)
EXTENDS SdLog, TLAPS

\* Every name the search has passed is in use.
PassedInUse == \A n \in Names : Before(n, fileName) => Exists(n)

\* Recording starts when the search is over.  Unless SD.exists failed, the name
\* a boot settled on is nobody's or its own.
NameIsOwn ==
    /\ sdStatus = "SD_RECORDING" => step = "run"
    /\ step = "create" /\ ~misread => ~Exists(fileName)
    /\ step = "firstLine" => boot \in files[fileName].writers
    /\ step = "run" /\ sdStatus = "SD_RECORDING" /\ ~misread
        => ~Exists(fileName) \/ boot \in files[fileName].writers

LogInv == TypeOK /\ PassedInUse /\ NamesInOrder /\ NameIsOwn

File == [writers : SUBSET Boots, header : BOOLEAN, rows : 0..MaxRows]

-----------------------------------------------------------------------------
(* Names.                                                                  *)

\* The body of the search loop leads from a name to a name.
LEMMA NextNameType == ASSUME NEW n \in Names PROVE NextName(n) \in Names
  BY SdAssumption DEF Names, Digits, NextName

\* Nothing lies between a name and the next one.
LEMMA NextNameAdjacent ==
  ASSUME NEW n \in Names, NEW m \in Names, Before(m, NextName(n))
  PROVE  Before(m, n) \/ m = n
<1>0. /\ n.tens \in 0..(Base - 1) /\ n.units \in 0..(Base - 1)
      /\ m.tens \in 0..(Base - 1) /\ m.units \in 0..(Base - 1)
      /\ n = [tens |-> n.tens, units |-> n.units]
      /\ m = [tens |-> m.tens, units |-> m.units]
      /\ Base \in Nat
  BY SdAssumption DEF Names, Digits
<1>1. CASE n.units # Base - 1
  <2>1. NextName(n).tens = n.tens /\ NextName(n).units = n.units + 1
    BY <1>1, <1>0 DEF NextName, Names
  <2>2. m.tens < n.tens \/ (m.tens = n.tens /\ m.units <= n.units)
    BY <2>1, <1>0 DEF Before
  <2> QED
    BY <2>2, <1>0 DEF Before
<1>2. CASE n.units = Base - 1 /\ n.tens # Base - 1
  <2>1. NextName(n).tens = n.tens + 1 /\ NextName(n).units = 0
    BY <1>2 DEF NextName
  <2>2. m.tens <= n.tens /\ m.units <= n.units
    BY <2>1, <1>2, <1>0 DEF Before
  <2> QED
    BY <2>2, <1>0 DEF Before
<1>3. CASE n.units = Base - 1 /\ n.tens = Base - 1
  BY <1>3 DEF NextName
<1> QED
  BY <1>1, <1>2, <1>3

\* The body of the loop leads to a later name, unless it has come to the last.
LEMMA NextNameLater ==
  ASSUME NEW n \in Names
  PROVE  Before(n, NextName(n)) \/ \A m \in Names : m = n \/ Before(m, n)
<1>0. /\ n.tens \in 0..(Base - 1) /\ n.units \in 0..(Base - 1) /\ Base \in Nat
      /\ n = [tens |-> n.tens, units |-> n.units]
  BY SdAssumption DEF Names, Digits
<1>1. CASE n.units # Base - 1
  <2>1. NextName(n).tens = n.tens /\ NextName(n).units = n.units + 1
    BY <1>1, <1>0 DEF NextName, Names
  <2> QED
    BY <2>1, <1>0 DEF Before
<1>2. CASE n.units = Base - 1 /\ n.tens # Base - 1
  <2>1. NextName(n).tens = n.tens + 1
    BY <1>2 DEF NextName
  <2> QED
    BY <2>1, <1>0 DEF Before
<1>3. CASE n.units = Base - 1 /\ n.tens = Base - 1
  <2> SUFFICES ASSUME NEW m \in Names PROVE m = n \/ Before(m, n)
    OBVIOUS
  <2>1. /\ m.tens \in 0..(Base - 1) /\ m.units \in 0..(Base - 1)
        /\ m = [tens |-> m.tens, units |-> m.units]
    BY DEF Names, Digits
  <2>2. m.tens = n.tens /\ m.units = n.units => m = n
    BY <2>1, <1>0
  <2> QED
    BY <2>1, <2>2, <1>0, <1>3 DEF Before
<1> QED
  BY <1>1, <1>2, <1>3

\* 00 is the first name.
LEMMA FirstIsFirst == First \in Names /\ \A n \in Names : ~Before(n, First)
  BY SdAssumption DEF Names, Digits, First, Before

-----------------------------------------------------------------------------
(* The invariant.                                                          *)

\* The invariant holds at the first boot.
LEMMA LogInit == Init => LogInv
<1> SUFFICES ASSUME Init PROVE LogInv
  OBVIOUS
<1>1. TypeOK
  <2>1. Absent \in File
    BY SdAssumption DEF Absent, File
  <2> QED
    <3>1. files \in [Names -> File]
      BY <2>1 DEF Init
    <3>2. boot \in Boots /\ faults \in 0..MaxFaults
      BY SdAssumption DEF Init, Boots
    <3> QED
      BY <3>1, <3>2, FirstIsFirst DEF Init, TypeOK, File
<1>2. \A n \in Names : ~Exists(n)
  BY DEF Init, Exists, Absent
<1>3. PassedInUse /\ NamesInOrder
  BY <1>2, FirstIsFirst DEF Init, PassedInUse, NamesInOrder
<1>4. NameIsOwn
  BY DEF Init, NameIsOwn
<1> QED
  BY <1>1, <1>3, <1>4 DEF LogInv

\* Steps that leave the card alone.
LEMMA LogSearch ==
  ASSUME LogInv,
         Mount \/ NoCard \/ TryNextName \/ EndSearch \/ Misread \/ CreateFails
         \/ LogRefused \/ Reset
  PROVE  LogInv'
<1> USE DEF LogInv
<1>0. files' = files
  BY DEF Mount, NoCard, TryNextName, EndSearch, Misread, CreateFails,
         LogRefused, Reset, vars
<1>1. \A n \in Names : Exists(n)' = Exists(n)
  BY <1>0 DEF Exists
<1>2. NamesInOrder'
  BY <1>1 DEF NamesInOrder
<1>3. CASE TryNextName
  <2>1. fileName' \in Names
    BY <1>3, NextNameType DEF TryNextName, TypeOK
  <2>2. TypeOK'
    BY <1>3, <2>1 DEF TryNextName, TypeOK
  <2>3. PassedInUse'
    BY <1>1, <1>3, NextNameAdjacent DEF TryNextName, PassedInUse, TypeOK
  <2>4. NameIsOwn'
    BY <1>3 DEF TryNextName, NameIsOwn
  <2> QED
    BY <1>2, <2>2, <2>3, <2>4
<1>4. CASE Reset
  <2>1. TypeOK'
    <3>1. boot' \in Boots
      BY <1>4, SdAssumption DEF Reset, TypeOK, Boots
    <3> QED
      BY <1>4, <3>1, FirstIsFirst DEF Reset, TypeOK
  <2>2. PassedInUse'
    BY <1>4, FirstIsFirst DEF Reset, PassedInUse
  <2>3. NameIsOwn'
    BY <1>4 DEF Reset, NameIsOwn
  <2> QED
    BY <1>2, <2>1, <2>2, <2>3
<1>5. CASE Mount \/ NoCard \/ EndSearch \/ Misread \/ CreateFails \/ LogRefused
  <2>0. fileName' = fileName /\ boot' = boot
    BY <1>5 DEF Mount, NoCard, EndSearch, Misread, CreateFails, LogRefused, vars
  <2>1. TypeOK'
    <3>1. faults' \in 0..MaxFaults
      BY <1>5, SdAssumption DEF Mount, NoCard, EndSearch, Misread, CreateFails,
         LogRefused, Fault, TypeOK, vars
    <3> QED
      BY <1>5, <1>0, <2>0, <3>1 DEF Mount, NoCard, EndSearch, Misread,
         CreateFails, LogRefused, TypeOK, vars
  <2>2. PassedInUse'
    BY <1>1, <2>0 DEF PassedInUse
  <2>3. NameIsOwn'
    <3>1. CASE EndSearch
      BY <1>0, <2>0, <3>1 DEF EndSearch, NameUnused, NameIsOwn, Exists
    <3>2. CASE Mount \/ NoCard \/ Misread \/ LogRefused
      BY <1>0, <2>0, <3>2 DEF Mount, NoCard, Misread, LogRefused, NameIsOwn,
         Exists, TypeOK, vars
    <3>3. CASE CreateFails
      BY <1>0, <2>0, <3>3 DEF CreateFails, NameIsOwn, Exists
    <3> QED
      BY <1>5, <3>1, <3>2, <3>3
  <2> QED
    BY <1>2, <2>1, <2>2, <2>3
<1> QED
  BY <1>3, <1>4, <1>5

\* Steps that write in the file fileName names: they keep what is in use in
\* use, and put at most one new name in use, the one after all the others.
LEMMA LogWrite ==
  ASSUME LogInv, CreateFile \/ FirstLine \/ AppendFile
  PROVE  LogInv'
<1> USE DEF LogInv
<1>0. /\ fileName' = fileName /\ fileName \in Names
      /\ boot' = boot /\ boot \in Boots /\ misread' = misread
  BY DEF CreateFile, FirstLine, AppendFile, TypeOK
<1>1. /\ files' \in [Names -> File]
      /\ \A n \in Names : n # fileName => files'[n] = files[n]
      /\ boot \in files'[fileName].writers
  <2>0. files \in [Names -> File] /\ files[fileName] \in File
    BY <1>0 DEF TypeOK, File
  <2>1. CASE CreateFile
    <3>1. {boot} \in SUBSET Boots /\ 0 \in 0..MaxRows
      BY <1>0, SdAssumption
    <3>2. [writers |-> {boot}, header |-> FALSE, rows |-> 0] \in File
      BY <3>1 DEF File
    <3> QED
      BY <1>0, <2>0, <2>1, <3>2 DEF CreateFile
  <2>2. CASE FirstLine
    <3>1. CASE files' = files
      BY <1>0, <2>0, <2>2, <3>1 DEF FirstLine, NameIsOwn
    <3>2. CASE files' = [files EXCEPT ![fileName].header = TRUE]
      <4> DEFINE f == [files[fileName] EXCEPT !.header = TRUE]
      <4>1. f \in File /\ f.writers = files[fileName].writers
        BY <2>0 DEF File
      <4>2. files' = [files EXCEPT ![fileName] = f]
        BY <3>2
      <4>3. boot \in files[fileName].writers
        BY <2>2 DEF FirstLine, NameIsOwn
      <4> HIDE DEF f
      <4> QED
        BY <1>0, <2>0, <4>1, <4>2, <4>3
    <3> QED
      BY <2>2, <3>1, <3>2 DEF FirstLine
  <2>3. CASE AppendFile
    <3>1. (IF files[fileName].rows < MaxRows THEN files[fileName].rows + 1
           ELSE files[fileName].rows) \in 0..MaxRows
      BY <2>0, SdAssumption DEF File
    <3> QED
      BY <1>0, <2>0, <2>3, <3>1 DEF AppendFile, File
  <2> QED
    BY <2>1, <2>2, <2>3
<1>2. TypeOK'
  <2>1. faults' \in 0..MaxFaults
    BY SdAssumption DEF CreateFile, FirstLine, AppendFile, Fault, TypeOK
  <2> QED
    BY <1>0, <1>1, <2>1 DEF CreateFile, FirstLine, AppendFile, TypeOK, File
<1>3. \A n \in Names : Exists(n)' <=> Exists(n) \/ n = fileName
  BY <1>0, <1>1 DEF Exists
<1>4. PassedInUse'
  BY <1>0, <1>3 DEF PassedInUse
<1>5. NamesInOrder'
  BY <1>0, <1>3 DEF PassedInUse, NamesInOrder
<1>6. NameIsOwn'
  BY <1>0, <1>1 DEF CreateFile, FirstLine, AppendFile, NameIsOwn
<1> QED
  BY <1>2, <1>4, <1>5, <1>6

\* The invariant is inductive.
LEMMA LogStep == LogInv /\ [Next]_vars => LogInv'
<1> SUFFICES ASSUME LogInv, [Next]_vars PROVE LogInv'
  OBVIOUS
<1>1. CASE UNCHANGED vars
  BY <1>1 DEF vars, LogInv, TypeOK, PassedInUse, NamesInOrder, NameIsOwn, Exists
<1>2. CASE Next
  BY <1>2, LogSearch, LogWrite DEF Next, MainStep
<1> QED
  BY <1>1, <1>2

\* In every behaviour every state satisfies the invariant.
LEMMA LogAlways == Spec => []LogInv
  BY LogInit, LogStep, PTL DEF Spec

-----------------------------------------------------------------------------
(* Whose log has which name.                                               *)

\* Boots to come have written nothing; this one has written in the file that
\* fileName names, after its search.
ThisBootOnly ==
    /\ \A n \in Names : \A b \in files[n].writers : b <= boot
    /\ \A n \in Names :
        boot \in files[n].writers
            => /\ n = fileName
               /\ step = "firstLine" \/ (step = "run" /\ sdStatus = "SD_RECORDING")

\* Once the search is over, and unless SD.exists failed, no name after fileName
\* is in use.
NothingBehind ==
    step \in {"create", "firstLine"} \/ (step = "run" /\ sdStatus = "SD_RECORDING") =>
        misread \/ \A m \in Names : Exists(m) => m = fileName \/ Before(m, fileName)

OwnInv == ThisBootOnly /\ NothingBehind /\ OneFilePerBoot

\* Any two names are equal or one comes before the other.
LEMMA BeforeTotal ==
  ASSUME NEW n \in Names, NEW m \in Names
  PROVE  n = m \/ Before(n, m) \/ Before(m, n)
<1>1. /\ n.tens \in Nat /\ n.units \in Nat /\ m.tens \in Nat /\ m.units \in Nat
      /\ n = [tens |-> n.tens, units |-> n.units]
      /\ m = [tens |-> m.tens, units |-> m.units]
  BY SdAssumption DEF Names, Digits
<1>2. n.tens = m.tens /\ n.units = m.units => n = m
  BY <1>1
<1> QED
  BY <1>1, <1>2 DEF Before

\* An unused name that is reached has no name in use behind it.
LEMMA UnusedIsLast ==
  ASSUME NamesInOrder, NEW n \in Names, ~Exists(n), NEW m \in Names, Exists(m)
  PROVE  Before(m, n)
  BY BeforeTotal DEF NamesInOrder

\* Steps that leave the card alone keep the owners of its files.
LEMMA OwnSearch ==
  ASSUME LogInv, OwnInv,
         Mount \/ NoCard \/ TryNextName \/ EndSearch \/ Misread \/ CreateFails
         \/ LogRefused \/ Reset
  PROVE  OwnInv'
<1> USE DEF LogInv
<1>0. files' = files
  BY DEF Mount, NoCard, TryNextName, EndSearch, Misread, CreateFails,
         LogRefused, Reset, vars
<1>1. OneFilePerBoot' /\ \A n \in Names : Exists(n)' = Exists(n)
  BY <1>0 DEF OwnInv, OneFilePerBoot, Exists
<1>2. boot \in Nat /\ fileName \in Names
  BY DEF TypeOK, Boots
<1>3. \A n \in Names : \A b \in files[n].writers : b \in Nat
  BY DEF TypeOK, Boots
<1>4. CASE Reset
  <2>1. \A n \in Names : \A b \in files[n].writers : b <= boot + 1 /\ b # boot + 1
    BY <1>2, <1>3 DEF OwnInv, ThisBootOnly
  <2>2. ThisBootOnly'
    BY <1>0, <1>4, <2>1 DEF Reset, ThisBootOnly
  <2>3. NothingBehind'
    BY <1>4 DEF Reset, NothingBehind
  <2> QED
    BY <1>1, <2>2, <2>3 DEF OwnInv
<1>5. CASE EndSearch \/ Misread
  <2>1. UNCHANGED <<boot, fileName>> /\ step = "search" /\ step' = "create"
    BY <1>5 DEF EndSearch, Misread
  <2>2. ThisBootOnly'
    BY <1>0, <2>1 DEF OwnInv, ThisBootOnly
  <2>3. NothingBehind'
    <3>1. CASE EndSearch
      BY <3>1, <1>1, <1>2, <2>1, UnusedIsLast DEF EndSearch, NameUnused, NothingBehind
    <3>2. CASE Misread
      BY <3>2 DEF Misread, NothingBehind
    <3> QED
      BY <1>5, <3>1, <3>2
  <2> QED
    BY <1>1, <2>2, <2>3 DEF OwnInv
<1>6. CASE TryNextName
  <2>1. boot' = boot /\ step = "search" /\ step' = step
    BY <1>6 DEF TryNextName
  <2>2. ThisBootOnly'
    BY <1>0, <2>1 DEF OwnInv, ThisBootOnly
  <2>3. NothingBehind'
    BY <2>1 DEF NothingBehind
  <2> QED
    BY <1>1, <2>2, <2>3 DEF OwnInv
<1>7. CASE CreateFails
  <2>1. UNCHANGED <<boot, fileName, misread>> /\ step = "create" /\ step' = "run"
    BY <1>7 DEF CreateFails
  <2>2. ThisBootOnly'
    BY <1>0, <2>1 DEF OwnInv, ThisBootOnly
  <2>3. NothingBehind'
    BY <1>1, <2>1 DEF OwnInv, NothingBehind
  <2> QED
    BY <1>1, <2>2, <2>3 DEF OwnInv
<1>8. CASE Mount \/ NoCard \/ LogRefused
  <2>1. /\ UNCHANGED <<boot, fileName, misread>>
        /\ step \in {"firstLine", "run"} => step' = step /\ sdStatus' = sdStatus
        /\ step' = step \/ step' = "search" \/ (step' = "run" /\ sdStatus' = sdStatus)
    BY <1>8 DEF Mount, NoCard, LogRefused, vars
  <2>2. ThisBootOnly'
    BY <1>0, <2>1 DEF OwnInv, ThisBootOnly
  <2>3. NothingBehind'
    <3>1. CASE step' = "run" /\ sdStatus' = "SD_RECORDING"
      BY <3>1, <1>1, <1>8, <2>1 DEF OwnInv, NothingBehind, Mount, NoCard,
         LogRefused, vars, NameIsOwn
    <3>2. CASE ~(step' = "run" /\ sdStatus' = "SD_RECORDING")
      BY <3>2, <1>1, <1>8, <2>1 DEF OwnInv, NothingBehind, Mount, NoCard,
         LogRefused, vars
    <3> QED
      BY <3>1, <3>2
  <2> QED
    BY <1>1, <2>2, <2>3 DEF OwnInv
<1> QED
  BY <1>4, <1>5, <1>6, <1>7, <1>8

\* Writing adds this boot, and nobody else, to the file fileName names.
LEMMA OwnWrite ==
  ASSUME LogInv, OwnInv, CreateFile \/ FirstLine \/ AppendFile
  PROVE  OwnInv'
<1> USE DEF LogInv
<1>0. /\ UNCHANGED <<fileName, boot, misread>> /\ fileName \in Names /\ boot \in Nat
      /\ step \in {"create", "firstLine"} \/ (step = "run" /\ sdStatus = "SD_RECORDING")
      /\ step' = "firstLine" \/ (step' = "run" /\ sdStatus' = "SD_RECORDING")
  BY DEF CreateFile, FirstLine, AppendFile, TypeOK, Boots
<1>1. /\ \A n \in Names : n # fileName => files'[n] = files[n]
      /\ files'[fileName].writers \subseteq files[fileName].writers \cup {boot}
  <2>0. files \in [Names -> File] /\ files[fileName] \in File
    BY <1>0 DEF TypeOK, File
  <2>1. CASE CreateFile
    BY <1>0, <2>0, <2>1 DEF CreateFile
  <2>2. CASE FirstLine
    BY <1>0, <2>0, <2>2 DEF FirstLine, File
  <2>3. CASE AppendFile
    BY <1>0, <2>0, <2>3 DEF AppendFile, File
  <2> QED
    BY <2>1, <2>2, <2>3
<1>2. ThisBootOnly'
  <2>1. \A n \in Names : \A b \in files'[n].writers : b \in files[n].writers \/ b = boot
    BY <1>0, <1>1
  <2>2. boot <= boot
    BY <1>0
  <2>3. \A n \in Names : boot \in files'[n].writers => n = fileName
    BY <1>0, <1>1 DEF OwnInv, ThisBootOnly
  <2> QED
    BY <1>0, <2>1, <2>2, <2>3 DEF OwnInv, ThisBootOnly
<1>3. OneFilePerBoot'
  <2> SUFFICES ASSUME NEW n \in Names, NEW m \in Names, NEW b,
                      b \in files'[n].writers, b \in files'[m].writers
               PROVE  n = m
    BY DEF OneFilePerBoot
  <2>1. CASE b = boot
    BY <1>0, <1>1, <2>1 DEF OwnInv, ThisBootOnly
  <2>2. CASE b # boot
    <3>1. b \in files[n].writers /\ b \in files[m].writers
      BY <1>0, <1>1, <2>2
    <3> QED
      BY <3>1 DEF OwnInv, OneFilePerBoot
  <2> QED
    BY <2>1, <2>2
<1>4. NothingBehind'
  <2>1. \A m \in Names : Exists(m)' => Exists(m) \/ m = fileName
    BY <1>0, <1>1 DEF Exists
  <2> QED
    BY <1>0, <2>1 DEF OwnInv, NothingBehind
<1> QED
  BY <1>2, <1>3, <1>4 DEF OwnInv

\* In every behaviour every state satisfies the invariant about owners.
LEMMA OwnAlways == Spec => []OwnInv
<1>1. Init => OwnInv
  BY SdAssumption DEF Init, OwnInv, ThisBootOnly, NothingBehind, OneFilePerBoot, Absent
<1>2. LogInv /\ OwnInv /\ [Next]_vars => OwnInv'
  <2> SUFFICES ASSUME LogInv, OwnInv, [Next]_vars PROVE OwnInv'
    OBVIOUS
  <2>1. CASE UNCHANGED vars
    BY <2>1 DEF vars, OwnInv, ThisBootOnly, NothingBehind, OneFilePerBoot, Exists
  <2>2. CASE Next
    BY <2>2, OwnSearch, OwnWrite DEF Next, MainStep
  <2> QED
    BY <2>1, <2>2
<1> QED
  BY <1>1, <1>2, LogAlways, PTL DEF Spec

-----------------------------------------------------------------------------
(* The theorems.                                                           *)

\* A boot has one log whatever fails, and unless SD.exists failed it is the
\* last one on the card, for any base and any number of boots and faults.
THEOREM LogNamesTellBoots == Spec => []NamesTellBoots
<1>1. LogInv /\ OwnInv => NamesTellBoots
  <2> SUFFICES ASSUME LogInv, OwnInv, ~misread, NEW n \in Names, NEW m \in Names,
                      boot \in files[n].writers, Exists(m)
               PROVE  m = n \/ Before(m, n)
    BY DEF NamesTellBoots, NewestIsLast, OwnInv
  <2>1. /\ n = fileName
        /\ step = "firstLine" \/ (step = "run" /\ sdStatus = "SD_RECORDING")
    BY DEF OwnInv, ThisBootOnly
  <2> QED
    BY <2>1 DEF OwnInv, NothingBehind
<1> QED
  BY <1>1, LogAlways, OwnAlways, PTL

\* The variables of the log keep their types: fileName is always a name.
THEOREM LogTypeCorrect == Spec => []TypeOK
  BY LogAlways, PTL DEF LogInv

\* createLogOnSD uses the names of the card in order and without gaps, whatever
\* fails and whenever the satellite is reset.
THEOREM LogNamesInOrder == Spec => []NamesInOrder
  BY LogAlways, PTL DEF LogInv

\* The search of createLogOnSD advances with every pass while a name is unused.
THEOREM SearchMakesProgress == Spec => SearchAdvances
<1>1. LogInv => [TryNextName /\ (\E n \in Names : ~Exists(n))
                   => Before(fileName, fileName')]_vars
  <2> SUFFICES ASSUME LogInv, TryNextName, NEW n \in Names, ~Exists(n)
               PROVE  Before(fileName, fileName')
    OBVIOUS
  <2>1. fileName \in Names /\ fileName' = NextName(fileName) /\ Exists(fileName)
    BY DEF LogInv, TypeOK, TryNextName
  <2>2. ~(n = fileName \/ Before(n, fileName))
    BY <2>1 DEF LogInv, PassedInUse
  <2> QED
    BY <2>1, <2>2, NextNameLater
<1> QED
  BY <1>1, LogAlways, PTL DEF SearchAdvances

\* No boot changes the log of an earlier one, unless SD.exists failed.
THEOREM LogsKept == Spec => EarlierLogsKept
<1> DEFINE Kept(n) == Exists(n) /\ boot \notin files[n].writers /\ ~misread
                        => files'[n] = files[n]
<1>1. LogInv /\ [Next]_vars => [\A n \in Names : Kept(n)]_vars
  <2> SUFFICES ASSUME LogInv, Next, NEW n \in Names,
                      Exists(n), boot \notin files[n].writers, ~misread
               PROVE  files'[n] = files[n]
    BY DEF vars
  <2>0. files \in [Names -> File] /\ fileName \in Names
    BY DEF LogInv, TypeOK, File
  <2>1. CASE CreateFile \/ AppendFile \/ FirstLine
    <3>1. n # fileName
      BY <2>1 DEF LogInv, NameIsOwn, CreateFile, AppendFile, FirstLine
    <3> QED
      BY <2>0, <2>1, <3>1 DEF CreateFile, AppendFile, FirstLine
  <2>2. CASE ~(CreateFile \/ AppendFile \/ FirstLine)
    BY <2>2 DEF Next, MainStep, Mount, NoCard, TryNextName, EndSearch, Misread,
       CreateFails, LogRefused, Reset, vars
  <2> QED
    BY <2>1, <2>2
<1> QED
  BY <1>1, LogAlways, PTL DEF Spec, EarlierLogsKept

=============================================================================
