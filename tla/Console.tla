------------------------------ MODULE Console -------------------------------
(***************************************************************************)
(* The serial console (vLowSerial) and the settings it keeps in flash.     *)
(* setid and wifi ask for a value, store it with NVS.setString and restart *)
(* the satellite; obtemValoresMemoria reads the settings at boot into      *)
(* one-byte globals.  It looks at no result: when the flash cannot be      *)
(* opened or a setting cannot be read, the setting is 0 for this boot.     *)
(*                                                                         *)
(* Serial.readStringUntil('\r') ends at a CR or, after a second without    *)
(* input, with whatever has come: a digit may be the last of a value or    *)
(* not.  Command words come whole.  A terminal ends a line with CR or CRLF.*)
(***************************************************************************)
EXTENDS Naturals, Sequences, SequencesExt

CONSTANTS
    Digit,       \* Digit[d]: the value of the digit d
    IdValues,    \* a uint8_t has 256 values
    MaxKeys,     \* bound on what the operator types
    MaxFaults    \* bound on resets and failing accesses to flash

Digits == DOMAIN Digit
Words == {"setid", "wifi", "help"}
Keys == Digits \cup Words

ASSUME ConsoleAssumption ==
    /\ \A d \in Digits : Digit[d] \in 0..9
    /\ IdValues \in Nat \ {0} /\ MaxKeys \in Nat /\ MaxFaults \in Nat
    /\ Digits \cap (Words \cup {"CR", "LF"}) = {}

Settings == {"id", "wifi"}

VARIABLES
    serial,     \* what Serial has received and nobody has read
    step,       \* where vLowSerial is
    key,        \* the setting salvaConteudoPersonalizadoNVS is storing
    nvs,        \* flash: the stored strings, <<>> when there is none
    ram,        \* MILLENIUMSAT_ID and CONFIG_WIFI
    opened,     \* NVS has a valid handle: NVS.begin() succeeded
    lost,       \* history: the settings this boot could not read
    crlf,       \* the terminal ends lines with CRLF
    keys,       \* keys pressed so far
    faults      \* resets and failed accesses so far

vars == <<serial, step, key, nvs, ram, opened, lost, crlf, keys, faults>>

\* What is typed, stored and counted...
InputTyped ==
    /\ serial \in Seq(Keys \cup {"CR", "LF"})
    /\ step \in {"boot", "command", "value", "saved"}
    /\ key \in Settings
    /\ nvs \in [Settings -> Seq(Keys \cup {"LF"})]
    /\ opened \in BOOLEAN /\ lost \subseteq Settings
    /\ crlf \in BOOLEAN
    /\ keys \in 0..MaxKeys
    /\ faults \in 0..MaxFaults

\* ... and what the satellite makes of it: an id fits in its byte.
TypeOK == InputTyped /\ ram \in [Settings -> 0..(IdValues - 1)]

Init ==
    /\ serial = <<>>
    /\ step = "boot"
    /\ key = "id"
    /\ nvs = [s \in Settings |-> <<>>]
    /\ ram = [s \in Settings |-> 0]
    /\ opened = FALSE /\ lost = {}
    /\ crlf \in BOOLEAN
    /\ keys = 0
    /\ faults = 0

-----------------------------------------------------------------------------
(* Strings.                                                                *)

\* String.toInt(): leading white space, then digits up to anything else.
ToInt(s) ==
    LET text == SelectSeq(s, LAMBDA c : c # "LF")
        stop == SelectInSeq(text, LAMBDA c : c \notin Digits)
        number == IF stop = 0 THEN text ELSE SubSeq(text, 1, stop - 1)
    IN  FoldLeft(LAMBDA n, d : 10 * n + Digit[d], 0, number)

EndOfLine == SelectInSeq(serial, LAMBDA c : c = "CR")

\* What readStringUntil('\r') returns, and what it leaves unread.
Line == IF EndOfLine = 0 THEN serial ELSE SubSeq(serial, 1, EndOfLine - 1)
Unread ==
    IF EndOfLine = 0 THEN <<>>
    ELSE SubSeq(serial, EndOfLine + 1, Len(serial))

-----------------------------------------------------------------------------
(* The satellite.                                                          *)

\* The conversion of toInt() to uint8_t.
AsByte(s) == ToInt(s) % IdValues

Fault == faults < MaxFaults /\ faults' = faults + 1

\* The two getString and toInt, then configuraTasks starts vLowSerial.  What
\* cannot be read is an empty string, and as a number 0.
ReadsSettings(failed) ==
    /\ step = "boot"
    /\ ram' = [s \in Settings |-> IF s \in failed THEN 0 ELSE AsByte(nvs'[s])]
    /\ lost' = failed
    /\ step' = "command"
    /\ UNCHANGED <<serial, key, crlf, keys>>

\* obtemValoresMemoria.
ObtemValoresMemoria ==
    /\ UNCHANGED <<nvs, faults>>
    /\ opened' = TRUE
    /\ ReadsSettings({})

\* getString returns an empty string for some setting.
GetStringFails ==
    /\ Fault
    /\ UNCHANGED nvs
    /\ opened' = TRUE
    /\ \E failed \in SUBSET Settings \ {{}} : ReadsSettings(failed)

Erased == [s \in Settings |-> <<>>]

\* nvs_flash_init finds no free page: the partition is erased, and initialised
\* anew if that works.
BeginReformats ==
    /\ Fault
    /\ nvs' = Erased
    /\ opened' \in BOOLEAN
    /\ ReadsSettings(IF opened' THEN {} ELSE Settings)

\* The flash cannot be initialised or opened: begin returns false.
BeginFails ==
    /\ Fault
    /\ UNCHANGED nvs
    /\ opened' = FALSE
    /\ ReadsSettings(Settings)

\* Serial.available(): a line is read and compared with the commands.  help
\* and i2cdetect change nothing here.
ReadCommand ==
    /\ step = "command"
    /\ serial # <<>>
    /\ serial' = Unread
    /\ \/ Line = <<"setid">> /\ step' = "value" /\ key' = "id"
       \/ Line = <<"wifi">> /\ step' = "value" /\ key' = "wifi"
       \/ Line \notin {<<"setid">>, <<"wifi">>} /\ UNCHANGED <<step, key>>
    /\ UNCHANGED <<nvs, ram, opened, lost, crlf, keys, faults>>

\* Mutants: the value is read once, empty or not; a line that is only read
\* when it has ended.
ReadOnce == TRUE
WholeLines == EndOfLine # 0 /\ Line # <<>> /\ "LF" \notin {Line[i] : i \in DOMAIN Line}

\* while (task.input.equals("")) has come to its end.
ValueRead == Line # <<>>

\* An empty line: read again.
ReadNothing ==
    /\ step = "value"
    /\ serial # <<>>
    /\ ~ValueRead
    /\ serial' = Unread
    /\ UNCHANGED <<step, key, nvs, ram, opened, lost, crlf, keys, faults>>

\* NVS.setString, committed.
SaveValue ==
    /\ step = "value"
    /\ ValueRead
    /\ opened
    /\ nvs' = [nvs EXCEPT ![key] = Line]
    /\ serial' = Unread
    /\ step' = "saved"
    /\ UNCHANGED <<key, ram, opened, lost, crlf, keys, faults>>

\* NVS.setString returns false, always so without a handle, and nobody looks.
SaveFails ==
    /\ step = "value"
    /\ ValueRead
    /\ IF opened THEN Fault ELSE UNCHANGED faults
    /\ serial' = Unread
    /\ step' = "saved"
    /\ UNCHANGED <<key, nvs, ram, opened, lost, crlf, keys>>

\* Mutant: salvaConteudoPersonalizadoNVS returns to the command loop.
NoRestart == "command"

\* ESP.restart().
AfterSaving == "boot"

ReiniciaMilleniumSAT ==
    /\ step = "saved"
    /\ step' = AfterSaving
    /\ serial' = <<>>
    /\ UNCHANGED <<key, nvs, ram, opened, lost, crlf, keys, faults>>

-----------------------------------------------------------------------------
(* The world.                                                              *)

Type(k) ==
    /\ keys < MaxKeys
    /\ keys' = keys + 1
    /\ serial' = Append(serial, k)
    /\ UNCHANGED <<step, key, nvs, ram, opened, lost, crlf, faults>>

PressEnter ==
    /\ keys < MaxKeys
    /\ keys' = keys + 1
    /\ serial' = serial \o IF crlf THEN <<"CR", "LF">> ELSE <<"CR">>
    /\ UNCHANGED <<step, key, nvs, ram, opened, lost, crlf, faults>>

\* An update, a brownout: any time.
Reset ==
    /\ Fault
    /\ step' = "boot"
    /\ serial' = <<>>
    /\ UNCHANGED <<key, nvs, ram, opened, lost, crlf, keys>>

SatelliteStep ==
    \/ ObtemValoresMemoria \/ GetStringFails \/ BeginReformats \/ BeginFails
    \/ ReadCommand
    \/ ReadNothing \/ SaveValue \/ SaveFails \/ ReiniciaMilleniumSAT

OperatorStep == PressEnter \/ \E k \in Keys : Type(k)

Next == SatelliteStep \/ OperatorStep \/ Reset

Spec == Init /\ [][Next]_vars

\* vLowSerial keeps running; the operator and the resets need not come.
FairSpec == Spec /\ WF_vars(SatelliteStep)

-----------------------------------------------------------------------------
(* Properties.                                                             *)

\* Whenever the console listens, the id the packets carry is the one in flash:
\* a stored value is never waiting for somebody else's restart, and a reset
\* between setString and restart makes no difference.  The one exception is a
\* setting this boot could not read: it is 0, whatever flash holds, and stays
\* 0 until the next boot, whatever is typed meanwhile.
IdInForce ==
    step \in {"command", "value"} =>
        \A s \in Settings :
            ram[s] = IF s \in lost THEN 0 ELSE ToInt(nvs[s]) % IdValues

\* With a terminal that ends lines with CR, no setting is overwritten by the
\* end of the command's own line: something visible was typed for it.  Only a
\* boot that finds the partition full erases settings.
NothingBlankSaved ==
    [][nvs' # nvs /\ step # "boot" /\ ~crlf => \E i \in DOMAIN nvs'[key] : nvs'[key][i] \in Keys]_vars

\* Something other than the end of a line has been typed and not been read.
KeyWaiting == \E i \in DOMAIN serial : serial[i] \in Keys

\* A value that is typed after setid is answered by a restart, also when no
\* line end follows it.
ValueIsTaken ==
    step = "value" /\ KeyWaiting ~> step = "boot"

\* ... because reading the empty lines before it never drops a key of the value
\* and leaves less to be read each time, until the value is stored or a reset
\* takes it away.
TypedValueKept ==
    [][step = "value" /\ KeyWaiting =>
        \/ step' \in {"saved", "boot"}
        \/ /\ step' = "value" /\ KeyWaiting'
           /\ SatelliteStep => Len(serial') < Len(serial)]_vars

=============================================================================
