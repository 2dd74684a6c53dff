------------------------------ MODULE Mission -------------------------------
(***************************************************************************)
(* The main loop: inicializaMilleniumSAT once, then processaEstadoMaquina   *)
(* for ever (STATE_0 build a packet, STATE_1 post it, STATE_2 look for an   *)
(* update), on top of the radio and of WiFiManager's autoConnect.  The     *)
(* blocking portal of autoConnect is ConfigPortal, on the same millis():   *)
(* its actions are steps of the main task here.                            *)
(*                                                                         *)
(* millis() is a 32-bit counter; here it counts modulo Wrap, in a unit     *)
(* coarse enough to keep the loop's few time constants apart.  What a call *)
(* takes is chosen from CallTimes, a pass of the portal's loop from Polls. *)
(* The access point, the operator and resets (the console's ESP.restart,   *)
(* the portal's reset page, brownouts, the undefined return of autoConnect *)
(* after its portal) act at any time.                                      *)
(*                                                                         *)
(* STATE_3 (deep sleep) is not modelled: no assignment reaches it.         *)
(***************************************************************************)
EXTENDS Naturals

CONSTANTS
    Wrap,         \* millis() counts modulo Wrap
    Interval,     \* postingInterval, and the initial lastConnectionTime
    WaitDelay,    \* delay(30000) of STATE_0
    Timeout,      \* _configPortalTimeout
    Polls,        \* how long one pass of the portal's loop may take
    OtaWait,      \* TIMETOUT_OTA seconds after a failed execOTA
    CallTimes,    \* how long any other call may take
    BootTimes,    \* how long iniciaProcessos may take
    MaxRetries,   \* TIMEOUT_CONEXAO_WIFI
    MaxResets     \* bound on the resets of one behaviour

MaxCall == CHOOSE d \in CallTimes : \A e \in CallTimes : e <= d


VARIABLES
    state_s1,            \* 0, 1, 2: STATE_0, STATE_1, STATE_2
    stage,               \* where in setup() or loop() the main task is
    clock,               \* millis()
    lastConnectionTime,
    radio,               \* the ESP32 radio as WiFi.status()/getMode() show it
    saved,               \* flash: credentials of an access point are stored
    apUp,                \* the access point answers
    retries,             \* TIMEOUT_CONEXAO_WIFI in verificaConexao
    checked,             \* what the last verificaAtualizacoes returned
    age,                 \* history: time since the last post, up to AgeCap
    posted,              \* history: this boot has posted
    resets,              \* resets so far
    configPortalStart, webPortalAccessed, openFor, stale,
    wrapped              \* these five: see ConfigPortal

portalTimer == <<configPortalStart, webPortalAccessed, openFor, stale>>
time == <<clock, age, wrapped>>
vars == <<state_s1, stage, lastConnectionTime, radio, saved, apUp,
          retries, checked, posted, resets, time, portalTimer>>

\* Whatever takes time while no portal is open.
Pauses == (CallTimes \cup BootTimes \cup {OtaWait} \cup {d + WaitDelay : d \in CallTimes}) \ {0}

Portal == INSTANCE ConfigPortal WITH millis <- clock, configPortalActive <- (stage = "portal")

\* Nothing the loop does once lasts as long as the millis() cycle.
ASSUME MissionAssumption ==
    /\ {Wrap, Interval, WaitDelay, OtaWait, MaxRetries, MaxResets} \subseteq Nat
    /\ CallTimes \subseteq Nat /\ BootTimes \subseteq Nat
    /\ MaxCall \in CallTimes /\ \A d \in CallTimes : d <= MaxCall
    /\ 0 < WaitDelay /\ 0 < Interval /\ 2 * Interval + WaitDelay + MaxCall < Wrap
    /\ Interval + WaitDelay + 2 * MaxCall + 1 < Wrap
    /\ Portal!PortalConstants

AgeCap == Interval + WaitDelay + MaxCall + 1

Stages == {"setup", "auto", "portal", "loop", "send", "check", "ota"}

TypeOK ==
    /\ state_s1 \in 0..2
    /\ stage \in Stages
    /\ clock \in 0..(Wrap - 1)
    /\ lastConnectionTime \in 0..(Wrap - 1)
    /\ radio \in {"off", "sta", "ap", "connected"}
    /\ saved \in BOOLEAN /\ apUp \in BOOLEAN
    /\ retries \in 0..MaxRetries
    /\ checked \in {"none", "SUCESSO", "ERRO"}
    /\ age \in 0..AgeCap
    /\ posted \in BOOLEAN
    /\ resets \in 0..MaxResets
    /\ Portal!TypeOK

-----------------------------------------------------------------------------
(* Time.                                                                   *)

\* millis() d time units after it read t.
After(d) == Portal!After(d)
Aged(d) == IF age + d < AgeCap THEN age + d ELSE AgeCap
Elapse(d) == Portal!Elapse(d) /\ age' = Aged(d)

\* Mutants: the timer is compared without wrapping; as signed numbers.
TimerComparesSums(now) == now > (lastConnectionTime + Interval) % Wrap
TimerSigned(now) == now > lastConnectionTime + Interval

\* millis() - lastConnectionTime > postingInterval, on unsigned longs.
TimerExpired(now) == (now + Wrap - lastConnectionTime) % Wrap > Interval

-----------------------------------------------------------------------------
(* Booting: everything in RAM is set anew, the flash is kept.              *)

Boot ==
    /\ state_s1' = 0 /\ stage' = "setup"
    /\ Portal!Restart /\ lastConnectionTime' = Interval
    /\ radio' = "off"
    /\ retries' = 0
    /\ checked' = "none"
    /\ age' = 0 /\ posted' = FALSE

Init ==
    /\ state_s1 = 0 /\ stage = "setup"
    /\ Portal!Init /\ lastConnectionTime = Interval
    /\ radio = "off"
    /\ saved \in BOOLEAN /\ apUp \in BOOLEAN
    /\ retries = 0
    /\ checked = "none"
    /\ age = 0 /\ posted = FALSE /\ resets = 0

\* The console's restart, a brownout, the watchdog: any time.
Reset ==
    /\ resets < MaxResets
    /\ resets' = resets + 1
    /\ Boot
    /\ UNCHANGED <<saved, apUp>>

\* inicializaMilleniumSAT up to the call of autoConnect in iniciaConexao.
Setup ==
    /\ stage = "setup"
    /\ stage' = "auto"
    /\ radio' = "sta"
    /\ \E d \in BootTimes : Elapse(d)
    /\ UNCHANGED <<state_s1, lastConnectionTime, saved, apUp, retries, checked,
                   posted, resets, portalTimer>>

-----------------------------------------------------------------------------
(* WiFiManager::autoConnect, called from iniciaConexao and requisicaoPOST. *)

\* Its callers ignore the result: setup() ends, or the post goes on.
AfterAutoConnect == IF state_s1 = 1 THEN "send" ELSE "loop"

\* Saved credentials and an access point that answers.
AutoConnectSucceeds ==
    /\ stage = "auto"
    /\ saved /\ apUp
    /\ radio' = "connected"
    /\ stage' = AfterAutoConnect
    /\ \E d \in CallTimes : Elapse(d)
    /\ UNCHANGED <<state_s1, lastConnectionTime, saved, apUp, retries, checked,
                   posted, resets, portalTimer>>

\* Mutant: the portal opens with the timestamps of the one before.
TimerNotStarted(d, s) == Portal!Elapse(d + s) /\ UNCHANGED portalTimer

\* startConfigPortal, after an attempt to connect.
OpensPortal(d, s) == Portal!StartConfigPortal(d, s)

\* No credentials, or no connection with them: the blocking portal opens.
AutoConnectFails ==
    /\ stage = "auto"
    /\ ~(saved /\ radio = "connected")
    /\ radio' = "ap"
    /\ stage' = "portal"
    /\ \E d \in CallTimes, s \in {0} \cup Polls : OpensPortal(d, s) /\ age' = Aged(d + s)
    /\ UNCHANGED <<state_s1, lastConnectionTime, saved, apUp, retries, checked,
                   posted, resets>>

\* WiFi.enableSTA fails: autoConnect returns false at once.
AutoConnectNoRadio ==
    /\ stage = "auto"
    /\ saved
    /\ stage' = AfterAutoConnect
    /\ UNCHANGED <<state_s1, lastConnectionTime, radio, saved, apUp, retries,
                   checked, posted, resets, time, portalTimer>>

\* One pass of the loop in startConfigPortal.
PortalWaits ==
    /\ stage' = stage
    /\ \E d \in Polls : Portal!Waits(d) /\ age' = Aged(d)
    /\ UNCHANGED <<state_s1, lastConnectionTime, radio, saved, apUp, retries,
                   checked, posted, resets>>

\* The portal times out and the station mode is restored.
PortalTimeout ==
    /\ radio' = "sta"
    /\ stage' = AfterAutoConnect
    /\ Portal!TimesOut
    /\ UNCHANGED <<state_s1, lastConnectionTime, saved, apUp, retries, checked,
                   posted, resets, age>>

\* A visitor opens a page of the portal.
PortalVisited ==
    /\ stage' = stage
    /\ \E d \in Polls : \E e \in 0..d : Portal!HandleRequest(d, e) /\ age' = Aged(d)
    /\ UNCHANGED <<state_s1, lastConnectionTime, radio, saved, apUp, retries,
                   checked, posted, resets>>

\* A visitor leaves by the exit page: the portal is aborted.
PortalExited ==
    /\ radio' = "sta"
    /\ stage' = AfterAutoConnect
    /\ \E d \in Polls : Portal!Exits(d) /\ age' = Aged(d)
    /\ UNCHANGED <<state_s1, lastConnectionTime, saved, apUp, retries, checked,
                   posted, resets>>

\* Somebody submits the form: with a name, it is stored and one connection is
\* tried; setBreakAfterConfig ends the portal either way.
PortalConfigured ==
    /\ \/ saved' = TRUE /\ radio' \in IF apUp THEN {"connected", "sta"} ELSE {"sta"}
       \/ saved' = saved /\ radio' = "sta"
    /\ stage' = AfterAutoConnect
    /\ \E d \in Polls, c \in CallTimes : Portal!Configured(d, c) /\ age' = Aged(d + c)
    /\ UNCHANGED <<state_s1, lastConnectionTime, apUp, retries, checked,
                   posted, resets>>

\* A visitor erases the stored credentials: the satellite restarts.
PortalErased ==
    /\ stage = "portal"
    /\ resets < MaxResets
    /\ resets' = resets + 1
    /\ saved' = FALSE
    /\ Boot
    /\ UNCHANGED apUp

-----------------------------------------------------------------------------
(* processaEstadoMaquina.                                                  *)

\* STATE_0: obtemJSON, then post if the timer has expired.  The two readings
\* of millis(), for the test and for lastConnectionTime, fall in one time unit.
State0Posts ==
    /\ stage = "loop" /\ state_s1 = 0
    /\ \E d \in CallTimes :
        /\ TimerExpired(After(d))
        /\ Portal!Elapse(d)
        /\ lastConnectionTime' = After(d)
    /\ state_s1' = 1
    /\ age' = 0 /\ posted' = TRUE
    /\ UNCHANGED <<stage, radio, saved, apUp, retries, checked, resets,
                   portalTimer>>

\* STATE_0, the timer has not expired: delay(30000) and again.
State0Waits ==
    /\ stage = "loop" /\ state_s1 = 0
    /\ \E d \in CallTimes :
        /\ ~TimerExpired(After(d))
        /\ Elapse(d + WaitDelay)
    /\ UNCHANGED <<state_s1, stage, lastConnectionTime, radio, saved, apUp,
                   retries, checked, posted, resets, portalTimer>>

\* Mutant: a post without connection does not try to connect.
NoReconnection == "send"

\* requisicaoPOST: WiFi.status() != WL_CONNECTED leads to autoConnect.
PostEntry == IF radio = "connected" THEN "send" ELSE "auto"

\* STATE_1 through enviaMensagem(POST_DEBUG) into requisicaoPOST.
State1 ==
    /\ stage = "loop" /\ state_s1 = 1
    /\ stage' = PostEntry
    /\ UNCHANGED <<state_s1, lastConnectionTime, radio, saved, apUp, retries,
                   checked, posted, resets, time, portalTimer>>

\* The rest of requisicaoPOST: the request if the radio is connected.  STATE_1
\* ignores its result: an unanswered packet is not sent again.
Send ==
    /\ stage = "send"
    /\ stage' = "loop"
    /\ state_s1' = 2
    /\ \E d \in CallTimes : Elapse(d)
    /\ UNCHANGED <<lastConnectionTime, radio, saved, apUp, retries, checked,
                   posted, resets, portalTimer>>

\* STATE_2 through executaVerificacoes into verificaAtualizacoes.
State2 ==
    /\ stage = "loop" /\ state_s1 = 2
    /\ stage' = "check"
    /\ retries' = MaxRetries
    /\ UNCHANGED <<state_s1, lastConnectionTime, radio, saved, apUp, checked,
                   posted, resets, time, portalTimer>>

\* TIMEOUT_CONEXAO_WIFI has not run out.
MayRetry == retries > 0

\* Mutant: the retries are not counted.
RetriesNotUsed == retries

\* TIMEOUT_CONEXAO_WIFI--.
RetriesLeft == retries - 1

\* verificaConexao: reconectaConexao; the radio may or may not be associated
\* when the status is read again.
Reconnect ==
    /\ stage = "check"
    /\ radio # "connected" /\ MayRetry
    /\ retries' = RetriesLeft
    /\ \/ radio' = radio
       \/ radio = "sta" /\ saved /\ apUp /\ radio' = "connected"
    /\ UNCHANGED <<state_s1, stage, lastConnectionTime, saved, apUp, checked,
                   posted, resets, time, portalTimer>>

\* verificaConexao gives up: verificaAtualizacoes returns ERRO at once.
CheckGivesUp ==
    /\ stage = "check"
    /\ radio # "connected" /\ ~MayRetry
    /\ checked' = "ERRO"
    /\ stage' = "loop" /\ state_s1' = 0
    /\ \E d \in CallTimes : Elapse(d)
    /\ UNCHANGED <<lastConnectionTime, radio, saved, apUp, retries, posted,
                   resets, portalTimer>>

\* WiFi.disconnect(true), WiFi.mode(WIFI_OFF).
RadioAfterCheck == "off"

\* execHTTPcheck finds no newer firmware: the radio is switched off.
CheckFindsNothing ==
    /\ stage = "check"
    /\ radio = "connected"
    /\ radio' = RadioAfterCheck
    /\ checked' = "SUCESSO"
    /\ stage' = "loop" /\ state_s1' = 0
    /\ \E d \in CallTimes : Elapse(d)
    /\ UNCHANGED <<lastConnectionTime, saved, apUp, retries, posted, resets,
                   portalTimer>>

\* execHTTPcheck finds one: execOTA.
CheckFindsUpdate ==
    /\ stage = "check"
    /\ radio = "connected"
    /\ stage' = "ota"
    /\ UNCHANGED <<state_s1, lastConnectionTime, radio, saved, apUp, retries,
                   checked, posted, resets, time, portalTimer>>

\* execOTA restarts into the new firmware.
OtaInstalls ==
    /\ stage = "ota"
    /\ resets < MaxResets
    /\ resets' = resets + 1
    /\ Boot
    /\ UNCHANGED <<saved, apUp>>

\* execOTA returns: the loop waits, then switches the radio off.
OtaFails ==
    /\ stage = "ota"
    /\ radio' = "off"
    /\ checked' = "SUCESSO"
    /\ stage' = "loop" /\ state_s1' = 0
    /\ Elapse(OtaWait)
    /\ UNCHANGED <<lastConnectionTime, saved, apUp, retries, posted, resets,
                   portalTimer>>

-----------------------------------------------------------------------------
(* The world.                                                              *)

LinkDown ==
    /\ apUp
    /\ apUp' = FALSE
    /\ radio' = IF radio = "connected" THEN "sta" ELSE radio
    /\ UNCHANGED <<state_s1, stage, lastConnectionTime, saved, retries,
                   checked, posted, resets, time, portalTimer>>

LinkUp ==
    /\ ~apUp
    /\ apUp' = TRUE
    /\ UNCHANGED <<state_s1, stage, lastConnectionTime, radio, saved, retries,
                   checked, posted, resets, time, portalTimer>>

\* WiFi.setAutoReconnect: a station that lost its link associates by itself.
AutoReconnect ==
    /\ radio = "sta" /\ saved /\ apUp
    /\ stage # "setup"
    /\ radio' = "connected"
    /\ UNCHANGED <<state_s1, stage, lastConnectionTime, saved, apUp, retries,
                   checked, posted, resets, time, portalTimer>>

-----------------------------------------------------------------------------

MainStep ==
    \/ Setup
    \/ AutoConnectSucceeds \/ AutoConnectFails \/ AutoConnectNoRadio
    \/ PortalWaits \/ PortalTimeout
    \/ State0Posts \/ State0Waits \/ State1 \/ Send
    \/ State2 \/ Reconnect \/ CheckGivesUp
    \/ CheckFindsNothing \/ CheckFindsUpdate \/ OtaInstalls \/ OtaFails

WorldStep ==
    \/ LinkDown \/ LinkUp \/ AutoReconnect
    \/ PortalVisited \/ PortalExited \/ PortalConfigured \/ PortalErased
    \/ Reset

Next == MainStep \/ WorldStep

Spec == Init /\ [][Next]_vars

\* The main task keeps running and the radio does not fail for ever.  Nobody
\* has to configure a portal, to restore the access point or to reset.
Fairness ==
    /\ WF_vars(MainStep)
    /\ SF_vars(AutoConnectSucceeds)

FairSpec == Spec /\ Fairness

-----------------------------------------------------------------------------
(* Properties.                                                             *)

\* Within one boot two posts start more than postingInterval apart, also
\* across the wrap of millis() and whatever the calls in between take.
PostSpacing ==
    [][state_s1 = 0 /\ state_s1' = 1 /\ posted
        => \E d \in CallTimes : Aged(d) > Interval /\ clock' = After(d)]_vars

\* The loop never lets a post wait more than one pass beyond the interval: when
\* STATE_0 goes to sleep, the last post is at most that old, unless a portal
\* held the loop for so long that millis() wrapped.
PostNotOverdue ==
    [][state_s1 = 0 /\ stage = "loop" /\ posted /\ clock' # clock /\ state_s1' = 0 /\ stage' = "loop"
        => age' <= Interval + WaitDelay \/ (wrapped' /\ age = AgeCap)]_vars

\* A boot that is quicker than the interval posts its first packet at once
\* (the difference to the initial lastConnectionTime wraps); a slower one
\* waits at most until twice the interval.
FirstPost ==
    [][stage = "loop" /\ state_s1 = 0 /\ ~posted /\ state_s1' = 0 /\ stage' = "loop" /\ clock' # clock
        => clock' \in (Interval + WaitDelay)..(2 * Interval + WaitDelay)]_vars

\* A portal opened before the wrap of millis() may miss its deadline after it.
PortalLate == stage = "portal" /\ wrapped /\ openFor = Portal!Late

\* The loop keeps trying to post, with or without an access point: neither the
\* portal nor the reconnections block it for ever, unless visitors keep the
\* portal open or millis() wrapped behind it.
KeepsPosting ==
    <>[][~PortalVisited]_vars => []<>(stage = "send" \/ PortalLate)

\* How far the loop is from the next post: the steps before it...
Phase ==
    IF state_s1 = 1 THEN [send |-> 0, portal |-> 1, auto |-> 2, loop |-> 3][stage]
    ELSE IF state_s1 = 0 THEN [loop |-> 4, portal |-> 5, auto |-> 6, setup |-> 7][stage]
    ELSE [ota |-> 5, check |-> 6, loop |-> 7][stage]

TimeLeft == (Interval + WaitDelay + lastConnectionTime + Wrap - clock) % Wrap

\* ... and what a step that comes again has left: the polls of a portal, the
\* retries of a connection, the time to the end of the interval.
Rest ==
    IF stage = "portal" THEN Portal!Late - openFor
    ELSE IF stage = "check" THEN retries
    ELSE IF stage = "loop" /\ state_s1 = 0 THEN TimeLeft ELSE 0

Nearer == Phase' < Phase \/ (Phase' = Phase /\ Rest' < Rest)

\* Every step of the main task brings it nearer to the next post, but for the
\* two exceptions of KeepsPosting and a restart; the access point and the
\* operator never take it farther away.
LoopAdvances ==
    [][stage # "send" /\ ~PortalLate /\ ~PortalVisited /\ resets' = resets
        => \/ Nearer
           \/ ~MainStep /\ Phase' = Phase /\ Rest' = Rest]_vars

\* Once the access point answers for good, posts are made over a connected
\* radio again and again, although every update check switches the radio off.
RecoversAfterOutage ==
    <>[](apUp /\ saved) /\ <>[][~PortalVisited]_vars
        => []<>((stage = "send" /\ radio = "connected") \/ PortalLate)

\* The portals of the main loop close on time too, except when a pass at the end
\* of a cycle of millis() may jump over their deadline or they begin with the
\* visit of an earlier one.
PortalOnTimeUnlessMissed == Portal!OnTimeUnlessMissed

\* The portal the loop blocks on is ConfigPortal: whatever happens between two
\* portals, of a boot or of two, is a pause or a restart to it.
ImplementsPortal == Portal!Spec

=============================================================================
