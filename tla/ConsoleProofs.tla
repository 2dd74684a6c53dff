---------------------------- MODULE ConsoleProofs ---------------------------
(***************************************************************************)
(* Proofs about Console, for any digits, number of keys and faults.        *)
(***************************************************************************)
EXTENDS Console, FiniteSetTheorems, SequenceTheorems, WellFoundedInduction, TLAPS

-----------------------------------------------------------------------------
(* The settings in force are the stored ones.                              *)

\* The steps that read the settings at boot.
Boots == ObtemValoresMemoria \/ GetStringFails \/ BeginReformats \/ BeginFails

\* Init satisfies IdInForce: nothing listens before the settings are read.
LEMMA InitInForce == Init => IdInForce
  BY DEF Init, IdInForce

\* Every step keeps it.
LEMMA NextInForce == IdInForce /\ [Next]_vars => IdInForce'
<1> SUFFICES ASSUME IdInForce, [Next]_vars PROVE IdInForce'
  OBVIOUS
<1>1. CASE Boots
  <2>1. PICK failed : ReadsSettings(failed)
    BY <1>1 DEF Boots, ObtemValoresMemoria, GetStringFails, BeginReformats, BeginFails
  <2>2. \A s \in Settings :
           ram'[s] = IF s \in lost' THEN 0 ELSE ToInt(nvs'[s]) % IdValues
    BY <2>1 DEF ReadsSettings, AsByte
  <2> QED
    BY <2>2 DEF IdInForce
<1>2. CASE SaveValue \/ SaveFails \/ ReiniciaMilleniumSAT \/ Reset
  BY <1>2 DEF SaveValue, SaveFails, ReiniciaMilleniumSAT, AfterSaving, Reset,
     IdInForce
<1>3. CASE UNCHANGED <<nvs, ram, lost>> /\ (step' = step \/ step = "command")
  BY <1>3 DEF IdInForce
<1>4. CASE ReadCommand \/ ReadNothing \/ OperatorStep \/ UNCHANGED vars
  BY <1>3, <1>4 DEF ReadCommand, ReadNothing, OperatorStep, PressEnter, Type,
     vars
<1> QED
  BY <1>1, <1>2, <1>4 DEF Next, SatelliteStep, Boots

\* Whatever is typed, however accesses to flash fail and resets come, the console
\* only listens while the settings in use are the stored ones, or 0 for those
\* that could not be read at this boot.
THEOREM StoredIdInForce == Spec => []IdInForce
  BY InitInForce, NextInForce, PTL DEF Spec

-----------------------------------------------------------------------------
(* What is stored was typed.                                               *)

\* A proper part of a set of numbers stands before it in the library's order.
LEMMA StrictlyOrdered ==
  ASSUME NEW A \in SUBSET Nat, NEW B \in SUBSET Nat, A \subseteq B, A # B
  PROVE  <<A, B>> \in StrictSubsetOrdering(Nat)
  BY DEF StrictSubsetOrdering

\* A non-empty set of numbers has a least element: Min is it.
LEMMA MinIs ==
  ASSUME NEW I, I \subseteq Nat, I # {}
  PROVE  Min(I) \in I /\ \A i \in I : Min(I) <= i
<1> DEFINE T == {0..i : i \in I}
<1>1. T \subseteq FiniteSubsetsOf(Nat) /\ T # {}
  <2>1. \A i \in I : 0..i \in SUBSET Nat /\ IsFiniteSet(0..i)
    BY FS_Interval
  <2>2. \A i \in I : 0..i \in FiniteSubsetsOf(Nat)
    BY <2>1 DEF FiniteSubsetsOf
  <2> QED
    BY <2>2
<1>2. \E x \in T : \A y \in T : ~(<<y, x>> \in StrictSubsetOrdering(Nat))
  BY <1>1, FS_StrictSubsetOrderingWellFounded, WFMin
<1>3. PICK m \in I : \A i \in I : ~(<<0..i, 0..m>> \in StrictSubsetOrdering(Nat))
  BY <1>2
<1>4. \A i \in I : ~(0..i \subseteq 0..m /\ 0..i # 0..m)
  <2> TAKE i \in I
  <2>1. 0..i \in SUBSET Nat /\ 0..m \in SUBSET Nat
    OBVIOUS
  <2>2. <<0..i, 0..m>> \notin StrictSubsetOrdering(Nat)
    BY <1>3
  <2> QED
    BY <2>1, <2>2, StrictlyOrdered
<1>5. \A i \in I : m <= i
  <2> SUFFICES ASSUME NEW i \in I, i < m PROVE FALSE
    OBVIOUS
  <2>1. i \in Nat /\ m \in Nat
    OBVIOUS
  <2>2. 0..i \subseteq 0..m /\ m \in 0..m /\ m \notin 0..i
    BY <2>1
  <2> QED
    BY <1>4, <2>2
<1> QED
  BY <1>5 DEF Min

\* EndOfLine is the first CR of what has been received, 0 without one.
LEMMA EndOfLineIs ==
  ASSUME NEW S, serial \in Seq(S)
  PROVE  /\ EndOfLine \in 0..Len(serial)
         /\ EndOfLine # 0 => /\ serial[EndOfLine] = "CR"
                             /\ \A i \in 1..(EndOfLine - 1) : serial[i] # "CR"
         /\ EndOfLine = 0 => \A i \in 1..Len(serial) : serial[i] # "CR"
<1> DEFINE I == {i \in 1..Len(serial) : serial[i] = "CR"}
<1>1. EndOfLine = IF I # {} THEN Min(I) ELSE 0
  BY DEF EndOfLine, SelectInSeq
<1>2. I \subseteq Nat /\ Len(serial) \in Nat
  OBVIOUS
<1>3. CASE I = {}
  BY <1>1, <1>2, <1>3
<1>4. CASE I # {}
  <2>1. Min(I) \in I /\ \A i \in I : Min(I) <= i
    BY <1>2, <1>4, MinIs
  <2> HIDE DEF I
  <2>2. EndOfLine = Min(I)
    BY <1>1, <1>4
  <2>3. EndOfLine \in 1..Len(serial) /\ serial[EndOfLine] = "CR"
    BY <2>1, <2>2 DEF I
  <2>4. \A i \in 1..(EndOfLine - 1) : serial[i] # "CR"
    <3> SUFFICES ASSUME NEW i \in 1..(EndOfLine - 1), serial[i] = "CR"
                 PROVE  FALSE
      OBVIOUS
    <3>1. i \in I /\ i < EndOfLine
      BY <1>2, <2>3 DEF I
    <3> QED
      BY <2>1, <2>2, <2>3, <3>1, <1>2
  <2> QED
    BY <1>2, <2>3, <2>4
<1> QED
  BY <1>3, <1>4

\* A line holds what came before the CR, the rest stays to be read.
LEMMA LineIs ==
  ASSUME NEW S, serial \in Seq(S \cup {"CR"})
  PROVE  Line \in Seq(S) /\ Unread \in Seq(S \cup {"CR"})
<1>1. /\ EndOfLine \in 0..Len(serial)
      /\ EndOfLine # 0 => /\ serial[EndOfLine] = "CR"
                          /\ \A i \in 1..(EndOfLine - 1) : serial[i] # "CR"
      /\ EndOfLine = 0 => \A i \in 1..Len(serial) : serial[i] # "CR"
  BY EndOfLineIs
<1>2. CASE EndOfLine = 0
  <2>1. Line = serial /\ Unread = <<>>
    BY <1>2 DEF Line, Unread
  <2>2. \A i \in 1..Len(serial) : serial[i] \in S
    BY <1>1, <1>2
  <2> QED
    BY <2>1, <2>2
<1>3. CASE EndOfLine # 0
  <2>1. Line = SubSeq(serial, 1, EndOfLine - 1)
    BY <1>3 DEF Line
  <2>2. Unread = SubSeq(serial, EndOfLine + 1, Len(serial))
    BY <1>3 DEF Unread
  <2>3. \A i \in 1..(EndOfLine - 1) : serial[i] \in S
    BY <1>1, <1>3
  <2> QED
    BY <1>1, <1>3, <2>1, <2>2, <2>3
<1> QED
  BY <1>2, <1>3

\* What Serial holds, and what has been stored: only a CRLF terminal sends a
\* line feed, and no stored value contains the end of its line.
Received ==
    /\ serial \in Seq((Keys \cup {"LF"}) \cup {"CR"})
    /\ ~crlf => serial \in Seq(Keys \cup {"CR"})
Stored ==
    /\ key \in Settings
    /\ nvs \in [Settings -> Seq(Keys \cup {"LF"})]

\* Init satisfies both.
LEMMA InitTyped == Init => Received /\ Stored
  BY DEF Init, Received, Stored, Settings

\* Every step keeps what Serial holds.
LEMMA NextReceived == Received /\ [Next]_vars => Received'
<1> SUFFICES ASSUME Received, [Next]_vars PROVE Received'
  OBVIOUS
<1>0. crlf' = crlf
  BY DEF Next, SatelliteStep, OperatorStep, ObtemValoresMemoria, GetStringFails,
     BeginReformats, BeginFails, ReadsSettings, ReadCommand,
     ReadNothing, SaveValue, SaveFails, ReiniciaMilleniumSAT, Type, PressEnter,
     Reset, vars
<1>1. CASE serial' = serial \/ serial' = <<>>
  <2>1. <<>> \in Seq((Keys \cup {"LF"}) \cup {"CR"}) /\ <<>> \in Seq(Keys \cup {"CR"})
    OBVIOUS
  <2>2. CASE serial' = serial
    BY <1>0, <2>2 DEF Received
  <2>3. CASE serial' = <<>>
    BY <2>1, <2>3, Zenon DEF Received
  <2> QED
    BY <1>1, <2>2, <2>3
<1>2. CASE serial' = Unread
  BY <1>0, <1>2, LineIs DEF Received
<1>3. CASE \E k \in Keys : Type(k)
  <2>1. PICK k \in Keys : serial' = Append(serial, k)
    BY <1>3 DEF Type
  <2> QED
    BY <1>0, <2>1 DEF Received
<1>4. CASE PressEnter
  <2>1. CASE crlf
    <3>1. serial' = serial \o <<"CR", "LF">>
      BY <1>4, <2>1 DEF PressEnter
    <3>2. <<"CR", "LF">> \in Seq((Keys \cup {"LF"}) \cup {"CR"})
      OBVIOUS
    <3> QED
      BY <1>0, <2>1, <3>1, <3>2 DEF Received
  <2>2. CASE ~crlf
    <3>1. serial' = serial \o <<"CR">>
      BY <1>4, <2>2 DEF PressEnter
    <3>2. <<"CR">> \in Seq(Keys \cup {"CR"})
      OBVIOUS
    <3>3. serial' \in Seq(Keys \cup {"CR"})
      BY <2>2, <3>1, <3>2 DEF Received
    <3>4. serial' \in Seq((Keys \cup {"LF"}) \cup {"CR"})
      BY <3>3
    <3> QED
      BY <3>3, <3>4 DEF Received
  <2> QED
    BY <2>1, <2>2
<1> QED
  BY <1>1, <1>2, <1>3, <1>4
     DEF Next, SatelliteStep, OperatorStep, ObtemValoresMemoria, GetStringFails,
     BeginReformats, BeginFails, ReadsSettings, ReadCommand,
     ReadNothing, SaveValue, SaveFails, ReiniciaMilleniumSAT, Reset, vars

\* Every step keeps what has been stored.
LEMMA NextStored == Received /\ Stored /\ [Next]_vars => Stored'
<1> SUFFICES ASSUME Received, Stored, [Next]_vars PROVE Stored'
  OBVIOUS
<1>1. CASE SaveValue
  <2>1. Line \in Seq(Keys \cup {"LF"})
    BY LineIs DEF Received
  <2> QED
    BY <1>1, <2>1 DEF SaveValue, Stored
<1>2. CASE ReadCommand
  BY <1>2 DEF ReadCommand, Stored, Settings
<1>3. CASE Boots
  <2>1. key' = key /\ nvs' \in {nvs, Erased}
    BY <1>3 DEF Boots, ObtemValoresMemoria, GetStringFails, BeginReformats,
       BeginFails, ReadsSettings
  <2>2. Erased \in [Settings -> Seq(Keys \cup {"LF"})]
    BY DEF Erased
  <2> QED
    BY <2>1, <2>2 DEF Stored
<1> QED
  BY <1>1, <1>2, <1>3
     DEF Boots, Next, SatelliteStep, OperatorStep, ReadNothing, SaveFails, ReiniciaMilleniumSAT, Type, PressEnter, Reset, vars, Stored

\* In every behaviour both hold.
LEMMA TypedAlways == Spec => [](Received /\ Stored)
  BY InitTyped, NextReceived, NextStored, PTL DEF Spec

\* The types of what is typed, stored and counted.  The range of ram is that of
\* toInt() modulo a byte, and what a fold returns is induction over data.
THEOREM ConsoleInputTyped == Spec => []InputTyped
<1> DEFINE Counted == /\ step \in {"boot", "command", "value", "saved"}
                      /\ crlf \in BOOLEAN /\ opened \in BOOLEAN
                      /\ lost \subseteq Settings
                      /\ keys \in 0..MaxKeys
                      /\ faults \in 0..MaxFaults
<1>1. Init => Counted
  <2> SUFFICES ASSUME Init PROVE Counted
    OBVIOUS
  <2>1. opened \in BOOLEAN
    BY Zenon DEF Init
  <2>2. keys \in 0..MaxKeys /\ faults \in 0..MaxFaults
    BY ConsoleAssumption DEF Init
  <2>3. /\ step \in {"boot", "command", "value", "saved"}
        /\ crlf \in BOOLEAN /\ lost \subseteq Settings
    BY DEF Init
  <2> QED
    BY <2>1, <2>2, <2>3
<1>2. Counted /\ [Next]_vars => Counted'
  <2> SUFFICES ASSUME Counted, [Next]_vars PROVE Counted'
    OBVIOUS
  <2>1. CASE Boots
    <3>1. faults' = faults \/ Fault
      BY <2>1 DEF Boots, ObtemValoresMemoria, GetStringFails, BeginReformats, BeginFails
    <3>2. PICK failed \in SUBSET Settings : ReadsSettings(failed)
      BY <2>1 DEF Boots, ObtemValoresMemoria, GetStringFails, BeginReformats, BeginFails
    <3>3. opened' \in BOOLEAN
      BY <2>1 DEF Boots, ObtemValoresMemoria, GetStringFails, BeginReformats, BeginFails
    <3>4. faults' \in 0..MaxFaults
      BY <3>1, ConsoleAssumption DEF Fault
    <3> QED
      BY <3>2, <3>3, <3>4 DEF ReadsSettings
  <2>2. CASE ~Boots
    <3>1. UNCHANGED <<opened, lost>>
      BY <2>2 DEF Boots, Next, SatelliteStep, OperatorStep, ReadCommand, ReadNothing,
         SaveValue, SaveFails, ReiniciaMilleniumSAT, Type, PressEnter, Reset, vars
    <3>2. faults' = faults \/ Fault
      BY <2>2 DEF Boots, Next, SatelliteStep, OperatorStep, ReadCommand, ReadNothing,
         SaveValue, SaveFails, ReiniciaMilleniumSAT, Type, PressEnter, Reset, vars
    <3>3. faults' \in 0..MaxFaults
      BY <3>2, ConsoleAssumption DEF Fault
    <3>4. /\ step' \in {"boot", "command", "value", "saved"}
          /\ crlf' \in BOOLEAN /\ keys' \in 0..MaxKeys
      BY <2>2, ConsoleAssumption
         DEF Boots, Next, SatelliteStep, OperatorStep, ReadCommand, ReadNothing,
         SaveValue, SaveFails, ReiniciaMilleniumSAT, AfterSaving, Type,
         PressEnter, Reset, vars
    <3> QED
      BY <3>1, <3>3, <3>4
  <2> QED
    BY <2>1, <2>2
<1>3. Counted /\ Received /\ Stored => InputTyped
  <2>1. (Keys \cup {"LF"}) \cup {"CR"} = Keys \cup {"CR", "LF"}
    OBVIOUS
  <2> QED
    BY <2>1 DEF InputTyped, Received, Stored
<1> HIDE DEF Counted
<1> QED
  BY <1>1, <1>2, <1>3, TypedAlways, PTL DEF Spec

\* With a terminal that ends its lines with CR the value stored in flash starts
\* with something that was typed for it, however lines are cut by the timeout
\* of Serial and wherever resets and failing writes fall.
THEOREM TypedValueSaved == Spec => NothingBlankSaved
<1>1. Received /\ Stored /\ [Next]_vars
        => [nvs' # nvs /\ step # "boot" /\ ~crlf => \E i \in DOMAIN nvs'[key] : nvs'[key][i] \in Keys]_vars
  <2> SUFFICES ASSUME Received, Stored, Next, nvs' # nvs, step # "boot", ~crlf
               PROVE  \E i \in DOMAIN nvs'[key] : nvs'[key][i] \in Keys
    OBVIOUS
  <2>1. SaveValue
    BY DEF Next, SatelliteStep, OperatorStep, ObtemValoresMemoria, GetStringFails,
     BeginReformats, BeginFails, ReadsSettings, ReadCommand,
       ReadNothing, SaveFails, ReiniciaMilleniumSAT, Type, PressEnter, Reset
  <2>2. nvs'[key] = Line /\ Line # <<>>
    BY <2>1 DEF SaveValue, ValueRead, Stored
  <2>3. Line \in Seq(Keys)
    BY LineIs DEF Received
  <2>4. 1 \in DOMAIN Line /\ Line[1] \in Keys
    BY <2>2, <2>3
  <2> QED
    BY <2>2, <2>4
<1> QED
  BY <1>1, TypedAlways, PTL DEF Spec, NothingBlankSaved

-----------------------------------------------------------------------------
(* A typed value is not lost between two reads: the ranking of ValueIsTaken. *)

\* A key is no end of a line.
LEMMA KeysAreVisible == Keys \cap {"CR", "LF"} = {}
  BY ConsoleAssumption DEF Keys, Words

\* An empty line in front of a key is one CR, and reading it leaves the key.
LEMMA EmptyLineKeepsKeys ==
  ASSUME Received, KeyWaiting, ReadNothing
  PROVE  KeyWaiting' /\ Len(serial') < Len(serial)
<1> DEFINE S == (Keys \cup {"LF"}) \cup {"CR"}
<1>1. serial \in Seq(S) /\ Line = <<>> /\ serial' = Unread
  BY DEF Received, ReadNothing, ValueRead
<1>2. PICK i \in 1..Len(serial) : serial[i] \in Keys
  BY <1>1 DEF KeyWaiting
<1>3. serial[i] # "CR"
  BY <1>2, KeysAreVisible
<1> HIDE DEF S
<1>4. EndOfLine = 1
  <2>1. /\ EndOfLine \in 0..Len(serial)
        /\ EndOfLine # 0 => /\ serial[EndOfLine] = "CR"
                            /\ \A j \in 1..(EndOfLine - 1) : serial[j] # "CR"
    BY <1>1, EndOfLineIs
  <2>2. EndOfLine # 0
    <3> SUFFICES ASSUME EndOfLine = 0 PROVE FALSE
      OBVIOUS
    <3>1. serial = <<>>
      BY <1>1 DEF Line
    <3> QED
      BY <3>1, <1>2
  <2>3. Line = SubSeq(serial, 1, EndOfLine - 1)
    BY <2>2 DEF Line
  <2>4. Len(Line) = EndOfLine - 1
    BY <1>1, <2>1, <2>2, <2>3
  <2>5. Len(Line) = 0
    BY <1>1
  <2> QED
    BY <2>1, <2>2, <2>4, <2>5
<1>5. serial[1] = "CR"
  BY <1>1, <1>4, EndOfLineIs
<1>6. i # 1 /\ Len(serial) \in Nat /\ i \in 2..Len(serial)
  BY <1>1, <1>2, <1>3, <1>5
<1>7. serial' = SubSeq(serial, 2, Len(serial))
  BY <1>1, <1>4 DEF Unread
<1>8. Len(serial') = Len(serial) - 1 /\ serial'[i - 1] = serial[i]
  BY <1>1, <1>6, <1>7
<1>9. i - 1 \in 1..Len(serial') /\ serial' \in Seq(S)
  BY <1>1, <1>6, <1>7, <1>8
<1>10. i - 1 \in DOMAIN serial' /\ serial'[i - 1] \in Keys
  BY <1>2, <1>8, <1>9
<1> QED
  BY <1>6, <1>8, <1>10 DEF KeyWaiting

\* More input behind a key leaves the key.
LEMMA InputKeepsKeys ==
  ASSUME Received, KeyWaiting, OperatorStep
  PROVE  KeyWaiting'
<1> DEFINE S == (Keys \cup {"LF"}) \cup {"CR"}
<1>1. serial \in Seq(S)
  BY DEF Received
<1>2. PICK i \in 1..Len(serial) : serial[i] \in Keys
  BY <1>1 DEF KeyWaiting
<1>3. \E t \in Seq(S) : serial' = serial \o t
  <2>1. CASE PressEnter
    <3>1. <<"CR", "LF">> \in Seq(S) /\ <<"CR">> \in Seq(S)
      OBVIOUS
    <3>2. serial' = serial \o <<"CR", "LF">> \/ serial' = serial \o <<"CR">>
      BY <2>1 DEF PressEnter
    <3> QED
      BY <3>1, <3>2
  <2>2. CASE \E k \in Keys : Type(k)
    <3>1. PICK k \in Keys : serial' = Append(serial, k)
      BY <2>2 DEF Type
    <3>2. serial' = serial \o <<k>> /\ <<k>> \in Seq(S)
      BY <1>1, <3>1
    <3> QED
      BY <3>2
  <2> QED
    BY <2>1, <2>2 DEF OperatorStep
<1>4. PICK t \in Seq(S) : serial' = serial \o t
  BY <1>3
<1>5. i \in DOMAIN serial' /\ serial'[i] = serial[i]
  BY <1>1, <1>2, <1>4
<1> QED
  BY <1>2, <1>5 DEF KeyWaiting

\* Once the console waits for a value, what is typed stays until it is stored,
\* and every read of an empty line leaves less before it: what ValueIsTaken
\* needs besides fairness, on CR and CRLF terminals.
THEOREM TypedValueNotDropped == Spec => TypedValueKept
<1>1. Received /\ [Next]_vars
        => [step = "value" /\ KeyWaiting =>
              \/ step' \in {"saved", "boot"}
              \/ /\ step' = "value" /\ KeyWaiting'
                 /\ SatelliteStep => Len(serial') < Len(serial)]_vars
  <2> SUFFICES ASSUME Received, Next, step = "value", KeyWaiting
               PROVE  \/ step' \in {"saved", "boot"}
                      \/ /\ step' = "value" /\ KeyWaiting'
                         /\ SatelliteStep => Len(serial') < Len(serial)
    OBVIOUS
  <2>1. CASE ReadNothing
    BY <2>1, EmptyLineKeepsKeys DEF ReadNothing
  <2>2. CASE SaveValue \/ SaveFails \/ Reset
    BY <2>2 DEF SaveValue, SaveFails, Reset
  <2>3. CASE OperatorStep
    <3>1. step' = "value"
      BY <2>3 DEF OperatorStep, PressEnter, Type
    <3>2. CASE SatelliteStep
      BY <2>1, <2>2, <3>2 DEF SatelliteStep, ObtemValoresMemoria, GetStringFails,
         BeginReformats, BeginFails, ReadsSettings, ReadCommand,
         ReiniciaMilleniumSAT
    <3> QED
      BY <2>3, <3>1, <3>2, InputKeepsKeys
  <2>4. ~(Boots \/ ReadCommand \/ ReiniciaMilleniumSAT)
    BY DEF Boots, ObtemValoresMemoria, GetStringFails, BeginReformats,
       BeginFails, ReadsSettings, ReadCommand, ReiniciaMilleniumSAT
  <2> QED
    BY <2>1, <2>2, <2>3, <2>4 DEF Next, SatelliteStep, Boots
<1> QED
  BY <1>1, TypedAlways, PTL DEF Spec, TypedValueKept

=============================================================================
