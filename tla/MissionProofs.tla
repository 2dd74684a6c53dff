--------------------------- MODULE MissionProofs ----------------------------
(***************************************************************************)
(* Proofs about Mission, for any cycle of millis(), any interval and any   *)
(* lengths of its calls that MissionAssumption allows.                     *)
(*                                                                         *)
(* The argument is about clocks.  AgeOnClock ties the age of the last post *)
(* to the two timestamps the code compares.  Every step of Mission lets    *)
(* time pass, posts, boots or leaves both alone (StepKinds).  What is true *)
(* of the portal is proved of ConfigPortal, which Mission implements.      *)
(***************************************************************************)
EXTENDS Mission, TLAPS

\* What is proved of the portal, on the clock of the main loop.
Timer == INSTANCE ConfigPortalProofs WITH
    millis <- clock, configPortalActive <- (stage = "portal")

\* lastConnectionTime is age units ago, until the age is out of count.
AgeOnClock ==
    /\ posted /\ age < AgeCap
         => clock = lastConnectionTime + age \/ clock + Wrap = lastConnectionTime + age
    /\ posted /\ ~wrapped => lastConnectionTime + age <= clock
    /\ ~posted => lastConnectionTime = Interval

IInv == TypeOK /\ AgeOnClock

-----------------------------------------------------------------------------
(* Numbers.                                                                *)

\* What MissionAssumption says of the constants, as numbers.
LEMMA Numbers ==
    /\ Wrap \in Nat /\ Interval \in Nat /\ WaitDelay \in Nat /\ MaxCall \in Nat
    /\ OtaWait \in Nat /\ MaxRetries \in Nat /\ MaxResets \in Nat /\ Timeout \in Nat
    /\ 0 < WaitDelay /\ 0 < Interval /\ Interval < Wrap /\ 2 * Interval + WaitDelay + MaxCall < Wrap
    /\ Interval + WaitDelay + 2 * MaxCall + 1 < Wrap
    /\ AgeCap = Interval + WaitDelay + MaxCall + 1
    /\ AgeCap \in Nat /\ AgeCap < Wrap
    /\ 0 < Timeout /\ Portal!MaxPoll \in Nat
    /\ Portal!Late = Timeout + Portal!MaxPoll + 1
  <1>1. /\ Wrap \in Nat /\ Interval \in Nat /\ WaitDelay \in Nat /\ MaxCall \in Nat
        /\ OtaWait \in Nat /\ MaxRetries \in Nat /\ MaxResets \in Nat
        /\ 0 < WaitDelay /\ 0 < Interval /\ 2 * Interval + WaitDelay + MaxCall < Wrap
        /\ Interval + WaitDelay + 2 * MaxCall + 1 < Wrap
    BY MissionAssumption
  <1>2. Timeout \in Nat /\ 0 < Timeout /\ Portal!MaxPoll \in Nat
    BY MissionAssumption DEF Portal!PortalConstants
  <1> QED BY <1>1, <1>2 DEF AgeCap, Portal!Late

\* Every duration of the model is shorter than the cycle of millis().
LEMMA Durations ==
    /\ \A d \in CallTimes :
          /\ d \in Nat /\ d <= MaxCall /\ d \in {0} \cup Pauses
          /\ d + WaitDelay \in {0} \cup Pauses
    /\ \A d \in BootTimes : d \in {0} \cup Pauses
    /\ OtaWait \in {0} \cup Pauses
    /\ {0} \cup Pauses \subseteq 0..(Wrap - 1)
    /\ \A d \in Polls : /\ d \in 1..(Wrap - 1)
                        /\ \A e \in 0..d : e \in 0..(Wrap - 1) /\ d - e \in 0..Portal!MaxPoll
    /\ \A d \in {0} \cup Pauses, s \in {0} \cup Polls :
          d + s \in 0..(Wrap - 1) /\ s + d \in 0..(Wrap - 1)
    /\ \A s \in {0} \cup Polls : s \in 0..Portal!MaxPoll
  <1>0. Wrap \in Nat /\ Portal!MaxPoll \in Nat /\ 0 < Wrap /\ Portal!MaxPoll < Wrap
    BY MissionAssumption DEF Portal!PortalConstants
  <1>1. \A d \in {0} \cup Pauses : d \in Nat /\ d + Portal!MaxPoll < Wrap
    BY <1>0, MissionAssumption DEF Portal!PortalConstants
  <1>2. \A s \in {0} \cup Polls : s \in Nat /\ s <= Portal!MaxPoll
    BY <1>0, MissionAssumption DEF Portal!PortalConstants
  <1>3. \A d \in Polls : d \in Nat /\ 0 < d
    BY MissionAssumption DEF Portal!PortalConstants
  <1>4. \A d \in CallTimes : d \in Nat /\ d <= MaxCall
    BY MissionAssumption
  <1>5. {0} \cup Pauses \subseteq 0..(Wrap - 1)
    <2>1. \A d \in {0} \cup Pauses : d \in 0..(Wrap - 1)
      BY <1>0, <1>1
    <2> QED BY <2>1, Zenon
  <1>6. \A d \in Polls : /\ d \in 1..(Wrap - 1)
                         /\ \A e \in 0..d : e \in 0..(Wrap - 1) /\ d - e \in 0..Portal!MaxPoll
    BY <1>0, <1>2, <1>3
  <1>7. \A d \in {0} \cup Pauses, s \in {0} \cup Polls :
          d + s \in 0..(Wrap - 1) /\ s + d \in 0..(Wrap - 1)
    BY <1>0, <1>1, <1>2
  <1>8. \A s \in {0} \cup Polls : s \in 0..Portal!MaxPoll
    BY <1>0, <1>2
  <1>9. /\ \A d \in CallTimes : d \in {0} \cup Pauses /\ d + WaitDelay \in {0} \cup Pauses
        /\ \A d \in BootTimes : d \in {0} \cup Pauses
        /\ OtaWait \in {0} \cup Pauses
    BY DEF Pauses
  <1> QED BY <1>4, <1>5, <1>6, <1>7, <1>8, <1>9

\* Addition on an unsigned counter.
LEMMA WrappedSum ==
  ASSUME NEW a \in Nat, NEW b \in Nat, a < Wrap, b < Wrap
  PROVE  /\ (a + b) % Wrap \in 0..(Wrap - 1)
         /\ a + b < Wrap => (a + b) % Wrap = a + b
         /\ a + b >= Wrap => (a + b) % Wrap = a + b - Wrap
  BY Numbers

\* A sum below two cycles wraps at most once.
LEMMA WrappedOnce ==
  ASSUME NEW n \in Nat, n < 2 * Wrap
  PROVE  /\ n < Wrap => n % Wrap = n
         /\ n >= Wrap => n % Wrap = n - Wrap
  BY Numbers

\* millis() after a call is a value of the cycle, the sum or the sum less a cycle.
LEMMA AfterIs ==
  ASSUME TypeOK, NEW d \in Nat, d < Wrap
  PROVE  /\ After(d) \in 0..(Wrap - 1)
         /\ clock + d < Wrap => After(d) = clock + d
         /\ clock + d >= Wrap => After(d) = clock + d - Wrap
  <1>1. clock \in Nat /\ clock < Wrap
    BY Numbers DEF TypeOK
  <1> QED BY <1>1, WrappedSum DEF After, Portal!After

\* The unsigned difference of the posting timer.
LEMMA TimerIs ==
  ASSUME TypeOK, NEW now \in 0..(Wrap - 1)
  PROVE  /\ now >= lastConnectionTime
               => (TimerExpired(now) <=> now - lastConnectionTime > Interval)
         /\ now < lastConnectionTime
               => (TimerExpired(now) <=> now + Wrap - lastConnectionTime > Interval)
  <1> DEFINE last == lastConnectionTime
  <1>1. last \in Nat /\ last < Wrap /\ now \in Nat /\ now < Wrap /\ Wrap \in Nat
    BY Numbers DEF TypeOK
  <1>2. CASE now >= last
    <2>0. now + Wrap - last \in Nat /\ now + Wrap - last < 2 * Wrap
          /\ now + Wrap - last >= Wrap /\ now + Wrap - last - Wrap = now - last
      BY <1>1, <1>2
    <2>1. (now + Wrap - last) % Wrap = now - last
      BY <2>0, <1>1, WrappedOnce
    <2> QED BY <2>1, <1>1, <1>2, Numbers DEF TimerExpired
  <1>3. CASE now < last
    <2>0. now + Wrap - last \in Nat /\ now + Wrap - last < Wrap
      BY <1>1, <1>3
    <2>1. (now + Wrap - last) % Wrap = now + Wrap - last
      BY <2>0, <1>1, WrappedOnce
    <2> QED BY <2>1, <1>1, <1>3, Numbers DEF TimerExpired
  <1> QED BY <1>1, <1>2, <1>3

-----------------------------------------------------------------------------
(* What a step does to the clock, the age and the timer.                   *)

TimeStays == UNCHANGED <<clock, wrapped, age, lastConnectionTime, posted>>

TimePasses(d) ==
    /\ Portal!Elapse(d) /\ age' = Aged(d)
    /\ UNCHANGED <<lastConnectionTime, posted>>

\* A step lets no time pass, lets the time of a call or of a pass go by, posts,
\* or boots.
LEMMA StepKinds ==
  ASSUME Next
  PROVE  \/ TimeStays
         \/ \E d \in 0..(Wrap - 1) : TimePasses(d)
         \/ State0Posts
         \/ Boot
  <1>1. CASE Setup
    BY <1>1, Durations DEF Setup, Elapse, TimePasses
  <1>2. CASE AutoConnectSucceeds
    BY <1>2, Durations DEF AutoConnectSucceeds, Elapse, TimePasses
  <1>3. CASE AutoConnectFails
    <2>1. PICK d \in CallTimes, s \in {0} \cup Polls :
            Portal!StartConfigPortal(d, s) /\ age' = Aged(d + s)
      BY <1>3 DEF AutoConnectFails, OpensPortal
    <2>2. d + s \in 0..(Wrap - 1)
      BY Durations
    <2>3. TimePasses(d + s)
      BY <1>3, <2>1 DEF AutoConnectFails, Portal!StartConfigPortal, TimePasses
    <2> QED BY <2>2, <2>3
  <1>4. CASE AutoConnectNoRadio \/ State1 \/ State2 \/ Reconnect \/ CheckFindsUpdate
    BY <1>4 DEF AutoConnectNoRadio, State1, State2, Reconnect, CheckFindsUpdate,
                TimeStays, time
  <1>5. CASE PortalWaits \/ PortalVisited \/ PortalExited
    <2>1. PICK d \in Polls : Portal!Elapse(d) /\ age' = Aged(d)
      BY <1>5 DEF PortalWaits, PortalVisited, PortalExited, Portal!Waits,
                  Portal!HandleRequest, Portal!Polling, Portal!Exits
    <2>2. TimePasses(d)
      BY <1>5, <2>1 DEF PortalWaits, PortalVisited, PortalExited, TimePasses
    <2>3. d \in 0..(Wrap - 1)
      BY Durations
    <2> QED BY <2>2, <2>3
  <1>6. CASE PortalTimeout
    BY <1>6 DEF PortalTimeout, Portal!TimesOut, TimeStays
  <1>7. CASE State0Waits
    BY <1>7, Durations DEF State0Waits, Elapse, TimePasses
  <1>8. CASE Send
    BY <1>8, Durations DEF Send, Elapse, TimePasses
  <1>9. CASE CheckGivesUp
    BY <1>9, Durations DEF CheckGivesUp, Elapse, TimePasses
  <1>10. CASE CheckFindsNothing
    BY <1>10, Durations DEF CheckFindsNothing, Elapse, TimePasses
  <1>11. CASE OtaFails
    BY <1>11, Durations DEF OtaFails, Elapse, TimePasses
  <1>12. CASE OtaInstalls \/ Reset \/ PortalErased
    BY <1>12 DEF OtaInstalls, Reset, PortalErased
  <1>13. CASE PortalConfigured
    <2>1. PICK d \in Polls, c \in CallTimes : Portal!Configured(d, c) /\ age' = Aged(d + c)
      BY <1>13 DEF PortalConfigured
    <2>2. d + c \in 0..(Wrap - 1)
      BY Durations
    <2>3. TimePasses(d + c)
      BY <1>13, <2>1 DEF PortalConfigured, Portal!Configured, TimePasses
    <2> QED BY <2>2, <2>3
  <1>14. CASE LinkDown \/ LinkUp \/ AutoReconnect
    BY <1>14 DEF LinkDown, LinkUp, AutoReconnect, TimeStays, time
  <1> QED BY <1>1, <1>2, <1>3, <1>4, <1>5, <1>6, <1>7, <1>8, <1>9, <1>10, <1>11,
             <1>12, <1>13, <1>14 DEF Next, MainStep, WorldStep

-----------------------------------------------------------------------------
(* Types.                                                                  *)

\* The satellite boots with well-typed variables.
LEMMA InitTypeOK == Init => TypeOK
  <1> SUFFICES ASSUME Init PROVE TypeOK
    OBVIOUS
  <1>0. /\ clock = 0 /\ configPortalStart = 0 /\ webPortalAccessed = 0
        /\ openFor = 0 /\ wrapped = FALSE /\ lastConnectionTime = Interval
        /\ age = 0 /\ retries = 0 /\ resets = 0
    BY DEF Init, Portal!Init
  <1>1. /\ 0 \in 0..(Wrap - 1) /\ Interval \in 0..(Wrap - 1) /\ 0 \in 0..AgeCap
        /\ 0 \in 0..MaxRetries /\ 0 \in 0..MaxResets /\ 0 \in 0..Portal!Late
    BY Numbers
  <1>2. Portal!TypeOK
    <2>1. stale = FALSE
      BY DEF Init, Portal!Init
    <2>2. stale \in BOOLEAN /\ wrapped \in BOOLEAN /\ (stage = "portal") \in BOOLEAN
      BY <2>1, <1>0
    <2> QED BY <2>2, <1>0, <1>1 DEF Portal!TypeOK
  <1>3. /\ state_s1 \in 0..2 /\ stage \in Stages
        /\ radio \in {"off", "sta", "ap", "connected"}
        /\ saved \in BOOLEAN /\ apUp \in BOOLEAN
        /\ checked \in {"none", "SUCESSO", "ERRO"} /\ posted \in BOOLEAN
    <2>1. state_s1 = 0 /\ stage = "setup" /\ radio = "off" /\ checked = "none"
          /\ posted = FALSE /\ saved \in BOOLEAN /\ apUp \in BOOLEAN
      BY DEF Init
    <2>2. state_s1 \in 0..2
      BY <2>1
    <2>3. posted \in BOOLEAN
      BY <2>1
    <2> QED BY <2>1, <2>2, <2>3 DEF Stages
  <1>4. /\ clock \in 0..(Wrap - 1) /\ lastConnectionTime \in 0..(Wrap - 1)
        /\ age \in 0..AgeCap /\ retries \in 0..MaxRetries /\ resets \in 0..MaxResets
    BY <1>0, <1>1
  <1> QED BY <1>2, <1>3, <1>4 DEF TypeOK

\* The clock, the age and the timer.
ClockTypes ==
    /\ clock \in 0..(Wrap - 1) /\ lastConnectionTime \in 0..(Wrap - 1)
    /\ age \in 0..AgeCap /\ posted \in BOOLEAN /\ wrapped \in BOOLEAN

\* Every step keeps the clock, its history and the timer well-typed.
LEMMA NextClockTypes == TypeOK /\ Next => ClockTypes'
  <1> SUFFICES ASSUME TypeOK, Next PROVE ClockTypes'
    OBVIOUS
  <1>0. ClockTypes
    BY DEF TypeOK, ClockTypes, Portal!TypeOK
  <1>1. CASE TimeStays
    BY <1>0, <1>1 DEF TimeStays, ClockTypes
  <1>2. ASSUME NEW d \in 0..(Wrap - 1), TimePasses(d) PROVE ClockTypes'
    <2>1. d \in Nat /\ d < Wrap
      BY Numbers
    <2>2. clock' = After(d) /\ age' = Aged(d) /\ wrapped' \in BOOLEAN
      BY <1>2 DEF TimePasses, Portal!Elapse, After
    <2>3. Aged(d) \in 0..AgeCap
      BY <2>1, <1>0, Numbers DEF Aged, ClockTypes
    <2> QED BY <2>1, <2>2, <2>3, <1>0, <1>2, AfterIs DEF TimePasses, ClockTypes
  <1>3. CASE State0Posts
    <2>1. PICK d \in CallTimes : Portal!Elapse(d) /\ lastConnectionTime' = After(d)
      BY <1>3 DEF State0Posts
    <2>2. d \in Nat /\ d < Wrap
      BY Durations, Numbers
    <2>3. clock' = After(d) /\ wrapped' \in BOOLEAN
      BY <2>1 DEF Portal!Elapse, After
    <2>4. age' = 0 /\ posted' = TRUE /\ 0 \in 0..AgeCap
      BY <1>3, Numbers DEF State0Posts
    <2> QED BY <2>1, <2>2, <2>3, <2>4, AfterIs DEF ClockTypes
  <1>4. CASE Boot
    <2>1. clock' = 0 /\ wrapped' = FALSE /\ lastConnectionTime' = Interval
          /\ age' = 0 /\ posted' = FALSE
      BY <1>4 DEF Boot, Portal!Restart
    <2>2. 0 \in 0..(Wrap - 1) /\ Interval \in 0..(Wrap - 1) /\ 0 \in 0..AgeCap
      BY Numbers
    <2> QED BY <2>1, <2>2 DEF ClockTypes
  <1> QED BY <1>1, <1>2, <1>3, <1>4, StepKinds

\* The timer of the portal.
PortalTypes ==
    /\ configPortalStart \in 0..(Wrap - 1) /\ webPortalAccessed \in 0..(Wrap - 1)
    /\ openFor \in 0..Portal!Late

\* Whether the portal began stale is kept, decided when it opens, or forgotten.
LEMMA NextStale == TypeOK /\ Next => stale' \in BOOLEAN
  <1> SUFFICES ASSUME TypeOK, Next PROVE stale' \in BOOLEAN
    OBVIOUS
  <1>1. stale' = stale \/ stale' = FALSE
        \/ \E d \in CallTimes : stale' = (webPortalAccessed > Portal!After(d))
    BY DEF Next, MainStep, WorldStep, portalTimer, Setup, AutoConnectSucceeds,
           AutoConnectFails, OpensPortal, Portal!StartConfigPortal, AutoConnectNoRadio,
           PortalWaits, Portal!Waits, PortalTimeout, Portal!TimesOut, PortalVisited,
           Portal!HandleRequest, PortalConfigured, Portal!Configured, PortalExited,
           Portal!Exits, Portal!Shutdown, PortalErased, State0Posts,
           State0Waits, State1, Send, State2, Reconnect, CheckGivesUp, CheckFindsNothing,
           CheckFindsUpdate, OtaInstalls, OtaFails, LinkDown, LinkUp, AutoReconnect,
           Reset, Boot, Portal!Restart
  <1>2. stale \in BOOLEAN
    BY DEF TypeOK, Portal!TypeOK
  <1>3. \A d \in CallTimes : (webPortalAccessed > Portal!After(d)) \in BOOLEAN
    OBVIOUS
  <1> QED BY <1>1, <1>2, <1>3, Zenon

\* Every step keeps the portal's timestamps well-typed.
LEMMA NextPortalTypes == TypeOK /\ Next => PortalTypes'
  <1> SUFFICES ASSUME TypeOK, Next PROVE PortalTypes'
    OBVIOUS
  <1>0. PortalTypes /\ clock \in 0..(Wrap - 1)
    BY DEF TypeOK, PortalTypes, Portal!TypeOK
  <1>1. CASE UNCHANGED portalTimer
    BY <1>0, <1>1 DEF portalTimer, PortalTypes
  <1>2. ASSUME NEW d \in CallTimes, NEW s \in {0} \cup Polls, Portal!StartConfigPortal(d, s)
        PROVE  PortalTypes'
    <2>1. After(d) \in 0..(Wrap - 1)
      <3>1. d \in 0..(Wrap - 1)
        BY Durations
      <3> QED BY <3>1, Numbers, AfterIs
    <2>2. s \in 0..Portal!Late
      BY Durations, Numbers
    <2> QED BY <2>1, <2>2, <1>0, <1>2 DEF PortalTypes, Portal!StartConfigPortal, After
  <1>3. Portal!Prolonged \in 0..(Wrap - 1)
    BY <1>0 DEF PortalTypes, Portal!Prolonged
  <1>4. ASSUME NEW d \in Polls, Portal!Waits(d) PROVE PortalTypes'
    <2>1. d \in Nat
      BY Durations
    <2>2. openFor' \in 0..Portal!Late
      BY <2>1, <1>0, <1>4, Numbers DEF PortalTypes, Portal!Waits
    <2> QED BY <2>2, <1>0, <1>3, <1>4 DEF PortalTypes, Portal!Waits, Portal!Polling
  <1>5. ASSUME NEW last \in 0..(Wrap - 1), Portal!Shutdown(last),
               clock' \in 0..(Wrap - 1), configPortalStart' \in 0..(Wrap - 1)
        PROVE  PortalTypes'
    BY <1>5, Numbers DEF Portal!Shutdown, PortalTypes
  <1>6. ASSUME NEW d \in Polls, NEW e \in 0..d, Portal!HandleRequest(d, e) PROVE PortalTypes'
    <2>1. e \in 0..(Wrap - 1) /\ d - e \in 0..Portal!Late
      BY Durations, Numbers
    <2>2. After(e) \in 0..(Wrap - 1)
      BY <2>1, Numbers, AfterIs
    <2> QED BY <2>1, <2>2, <1>3, <1>6
            DEF PortalTypes, Portal!HandleRequest, Portal!Polling, After
  <1>7. clock' \in 0..(Wrap - 1)
    BY NextClockTypes DEF ClockTypes
  <1>8. \A d \in Polls : After(d) \in 0..(Wrap - 1)
    <2>1. \A d \in Polls : d \in Nat /\ d < Wrap
      BY Durations, Numbers
    <2> QED BY <2>1, AfterIs
  <1>9. CASE Portal!TimesOut
    <2>1. Portal!Shutdown(webPortalAccessed) /\ configPortalStart' = Portal!Prolonged
      BY <1>9 DEF Portal!TimesOut
    <2>2. webPortalAccessed \in 0..(Wrap - 1)
      BY <1>0 DEF PortalTypes
    <2> QED BY <2>1, <2>2, <1>3, <1>5, <1>7
  <1>10. ASSUME NEW d \in Polls, Portal!Exits(d) PROVE PortalTypes'
    <2>1. /\ Portal!Shutdown(After(d))
          /\ configPortalStart' \in {After(d), Portal!Prolonged}
      BY <1>10 DEF Portal!Exits, After
    <2>2. configPortalStart' \in 0..(Wrap - 1)
      BY <2>1, <1>3, <1>8
    <2> QED BY <2>1, <2>2, <1>5, <1>7, <1>8
  <1>11. ASSUME NEW d \in Polls, NEW c \in CallTimes, Portal!Configured(d, c) PROVE PortalTypes'
    <2>1. Portal!Shutdown(After(d)) /\ configPortalStart' = Portal!Prolonged
      BY <1>11 DEF Portal!Configured, After
    <2> QED BY <2>1, <1>3, <1>5, <1>7, <1>8
  <1>12. CASE Boot
    BY <1>12, Numbers DEF Boot, Portal!Restart, PortalTypes
  <1>13. CASE MainStep
    BY <1>1, <1>2, <1>4, <1>9, <1>12, <1>13
       DEF MainStep, Setup, AutoConnectSucceeds, AutoConnectFails, OpensPortal, AutoConnectNoRadio,
           PortalWaits, PortalTimeout, State0Posts, State0Waits, State1, Send, State2,
           Reconnect, CheckGivesUp, CheckFindsNothing, CheckFindsUpdate, OtaInstalls,
           OtaFails
  <1>14. CASE WorldStep
    BY <1>1, <1>6, <1>10, <1>11, <1>12, <1>14
       DEF WorldStep, LinkDown, LinkUp, AutoReconnect, PortalVisited, PortalConfigured,
           PortalExited, PortalErased, Reset
  <1> QED BY <1>13, <1>14 DEF Next

\* The rest: what the loop and the radio are doing.
LoopTypes ==
    /\ state_s1 \in 0..2 /\ stage \in Stages
    /\ radio \in {"off", "sta", "ap", "connected"}
    /\ saved \in BOOLEAN /\ apUp \in BOOLEAN
    /\ retries \in 0..MaxRetries
    /\ checked \in {"none", "SUCESSO", "ERRO"}
    /\ resets \in 0..MaxResets

\* Every step keeps the variables of the loop and of the radio well-typed.
LEMMA NextLoopTypes == TypeOK /\ Next => LoopTypes'
  <1> SUFFICES ASSUME TypeOK, Next PROVE LoopTypes'
    OBVIOUS
  <1> USE DEF LoopTypes, Stages
  <1>0. LoopTypes
    BY DEF TypeOK
  <1>1. AfterAutoConnect \in {"send", "loop"} /\ PostEntry \in {"send", "auto"}
    BY DEF AfterAutoConnect, PostEntry
  <1>2. CASE Setup
    BY <1>0, <1>2 DEF Setup
  <1>3. CASE AutoConnectSucceeds \/ AutoConnectFails \/ AutoConnectNoRadio
    BY <1>0, <1>1, <1>3 DEF AutoConnectSucceeds, AutoConnectFails, OpensPortal, AutoConnectNoRadio
  <1>4. CASE PortalWaits \/ PortalTimeout \/ PortalVisited \/ PortalExited \/ PortalConfigured
    BY <1>0, <1>1, <1>4 DEF PortalWaits, PortalTimeout, PortalVisited, PortalExited,
                            PortalConfigured
  <1>5. CASE State0Posts \/ State0Waits \/ State1 \/ Send
    BY <1>0, <1>1, <1>5 DEF State0Posts, State0Waits, State1, Send
  <1>6. CASE State2
    BY <1>0, <1>6, Numbers DEF State2
  <1>7. CASE Reconnect
    <2>1. retries' \in 0..MaxRetries
      BY <1>0, <1>7, Numbers DEF Reconnect, MayRetry, RetriesLeft
    <2> QED BY <2>1, <1>0, <1>7 DEF Reconnect
  <1>8. CASE CheckGivesUp \/ CheckFindsNothing \/ CheckFindsUpdate \/ OtaFails
    BY <1>0, <1>8 DEF CheckGivesUp, CheckFindsNothing, CheckFindsUpdate, OtaFails,
                      RadioAfterCheck
  <1>9. CASE OtaInstalls \/ Reset \/ PortalErased
    <2>1. /\ Boot /\ resets < MaxResets /\ resets' = resets + 1
          /\ saved' \in {saved, FALSE} /\ apUp' = apUp
      BY <1>9 DEF OtaInstalls, Reset, PortalErased
    <2>2. resets' \in 0..MaxResets
      BY <2>1, <1>0, Numbers
    <2>3. saved' \in BOOLEAN
      BY <2>1, <1>0
    <2>4. retries' \in 0..MaxRetries /\ state_s1' \in 0..2
      BY <2>1, Numbers DEF Boot
    <2> QED BY <2>1, <2>2, <2>3, <2>4, <1>0 DEF Boot
  <1>10. CASE LinkDown \/ LinkUp \/ AutoReconnect
    BY <1>0, <1>10 DEF LinkDown, LinkUp, AutoReconnect
  <1> QED BY <1>2, <1>3, <1>4, <1>5, <1>6, <1>7, <1>8, <1>9, <1>10
          DEF Next, MainStep, WorldStep

\* Every step keeps the types.
LEMMA NextTypeOK == TypeOK /\ Next => TypeOK'
  BY NextClockTypes, NextPortalTypes, NextStale, NextLoopTypes
     DEF ClockTypes, PortalTypes, LoopTypes, TypeOK, Portal!TypeOK

-----------------------------------------------------------------------------
(* The main loop implements the portal.                                    *)

\* The loop does something else for a while, or for no time at all.
LEMMA PauseImplements ==
  ASSUME TypeOK, NEW d \in {0} \cup Pauses,
         stage # "portal", stage' # "portal",
         Portal!Elapse(d), UNCHANGED portalTimer
  PROVE  Portal!Next \/ UNCHANGED Portal!vars
  <1>1. CASE d \in Pauses
    BY <1>1 DEF Portal!Next, Portal!Elsewhere, portalTimer
  <1>2. CASE d = 0
    <2>1. clock' = clock
      <3>1. After(0) = clock
        BY Numbers, AfterIs DEF TypeOK
      <3> QED BY <3>1, <1>2 DEF Portal!Elapse, After
    <2>2. wrapped' = wrapped
      <3>1. wrapped' = (wrapped \/ clock + 0 >= Wrap)
        BY <1>2 DEF Portal!Elapse
      <3>2. ~(clock + 0 >= Wrap)
        BY Numbers DEF TypeOK
      <3>3. wrapped \in BOOLEAN
        BY DEF TypeOK, Portal!TypeOK
      <3> QED BY <3>1, <3>2, <3>3
    <2> QED BY <2>1, <2>2 DEF Portal!vars, portalTimer
  <1> QED BY <1>1, <1>2

\* The loop does something that takes no time.
LEMMA StutterImplements ==
  ASSUME UNCHANGED <<clock, wrapped, portalTimer>>, stage' = "portal" <=> stage = "portal"
  PROVE  UNCHANGED Portal!vars
  BY DEF Portal!vars, portalTimer

\* A step of the main loop is a step of ConfigPortal or leaves it alone.
LEMMA NextImplements == TypeOK /\ Next => Portal!Next \/ UNCHANGED Portal!vars
  <1> SUFFICES ASSUME TypeOK, Next PROVE Portal!Next \/ UNCHANGED Portal!vars
    OBVIOUS
  <1>0. AfterAutoConnect # "portal" /\ PostEntry # "portal"
    BY DEF AfterAutoConnect, PostEntry
  <1>1. CASE Setup
    BY <1>1, Durations, PauseImplements DEF Setup, Elapse
  <1>2. CASE AutoConnectSucceeds
    BY <1>0, <1>2, Durations, PauseImplements DEF AutoConnectSucceeds, Elapse
  <1>3. CASE AutoConnectFails
    BY <1>3, Durations DEF AutoConnectFails, OpensPortal, Portal!Next
  <1>4. CASE AutoConnectNoRadio \/ State1 \/ State2 \/ Reconnect \/ CheckFindsUpdate
    BY <1>0, <1>4, StutterImplements
       DEF AutoConnectNoRadio, State1, State2, Reconnect, CheckFindsUpdate, time
  <1>5. CASE PortalWaits \/ PortalTimeout \/ PortalVisited \/ PortalExited
    BY <1>5 DEF PortalWaits, PortalTimeout, PortalVisited, PortalExited, Portal!Next
  <1>6. CASE PortalConfigured
    BY <1>6, Durations DEF PortalConfigured, Portal!Next
  <1>7. CASE State0Posts
    <2>1. PICK d \in CallTimes : Portal!Elapse(d)
      BY <1>7 DEF State0Posts
    <2> QED BY <2>1, <1>7, Durations, PauseImplements DEF State0Posts
  <1>8. CASE State0Waits
    <2>1. PICK d \in CallTimes : Portal!Elapse(d + WaitDelay)
      BY <1>8 DEF State0Waits, Elapse
    <2> QED BY <2>1, <1>8, Durations, PauseImplements DEF State0Waits
  <1>9. CASE Send
    BY <1>9, Durations, PauseImplements DEF Send, Elapse
  <1>10. CASE CheckGivesUp
    BY <1>10, Durations, PauseImplements DEF CheckGivesUp, Elapse
  <1>11. CASE CheckFindsNothing
    BY <1>11, Durations, PauseImplements DEF CheckFindsNothing, Elapse
  <1>12. CASE OtaFails
    BY <1>12, Durations, PauseImplements DEF OtaFails, Elapse
  <1>13. CASE OtaInstalls \/ Reset \/ PortalErased
    BY <1>13 DEF OtaInstalls, Reset, PortalErased, Boot, Portal!Next
  <1>14. CASE LinkDown \/ LinkUp \/ AutoReconnect
    BY <1>14, StutterImplements DEF LinkDown, LinkUp, AutoReconnect, time
  <1> QED BY <1>1, <1>2, <1>3, <1>4, <1>5, <1>6, <1>7, <1>8, <1>9, <1>10, <1>11,
             <1>12, <1>13, <1>14 DEF Next, MainStep, WorldStep

-----------------------------------------------------------------------------
(* The age of the last post on the clock.                                  *)

\* Without a wrap the clock has advanced by what has elapsed.
LEMMA ElapseIs ==
  ASSUME TypeOK, NEW d \in Nat, d < Wrap, Portal!Elapse(d)
  PROVE  /\ clock \in Nat /\ clock < Wrap /\ clock' \in Nat /\ clock' < Wrap
         /\ clock + d < Wrap => clock' = clock + d
         /\ clock + d >= Wrap => clock' = clock + d - Wrap
         /\ ~wrapped' => ~wrapped /\ clock + d < Wrap
  <1>1. clock' = After(d) /\ (~wrapped' => ~wrapped /\ ~(clock + d >= Wrap))
    BY DEF Portal!Elapse, After
  <1>2. clock \in Nat /\ clock < Wrap
    BY Numbers DEF TypeOK
  <1> QED BY <1>1, <1>2, AfterIs, Numbers

\* Every step keeps the age of the last post on the clock.
LEMMA NextAgeOnClock == TypeOK /\ AgeOnClock /\ Next => AgeOnClock'
  <1> SUFFICES ASSUME TypeOK, AgeOnClock, Next PROVE AgeOnClock'
    OBVIOUS
  <1> USE Numbers
  <1>0. lastConnectionTime \in Nat /\ lastConnectionTime < Wrap /\ age \in Nat /\ age <= AgeCap
    BY DEF TypeOK
  <1>1. CASE TimeStays
    BY <1>1 DEF TimeStays, AgeOnClock
  <1>2. ASSUME NEW d \in 0..(Wrap - 1), TimePasses(d) PROVE AgeOnClock'
    <2>1. d \in Nat /\ d < Wrap
      OBVIOUS
    <2>2. /\ clock \in Nat /\ clock < Wrap /\ clock' \in Nat /\ clock' < Wrap
          /\ clock + d < Wrap => clock' = clock + d
          /\ clock + d >= Wrap => clock' = clock + d - Wrap
      BY <1>2, <2>1, ElapseIs DEF TimePasses
    <2>3. age' = (IF age + d < AgeCap THEN age + d ELSE AgeCap)
          /\ lastConnectionTime' = lastConnectionTime /\ posted' = posted
      BY <1>2 DEF TimePasses, Aged
    <2>4. ASSUME posted, age' < AgeCap
          PROVE clock' = lastConnectionTime + age' \/ clock' + Wrap = lastConnectionTime + age'
      <3>1. age < AgeCap /\ age' = age + d
        BY <2>1, <2>3, <2>4, <1>0
      <3>2. clock = lastConnectionTime + age \/ clock + Wrap = lastConnectionTime + age
        BY <2>4, <3>1 DEF AgeOnClock
      <3>3. CASE clock + d < Wrap
        BY <3>1, <3>2, <3>3, <2>1, <2>2, <1>0
      <3>4. CASE clock + d >= Wrap
        <4>1. lastConnectionTime + age + d < 2 * Wrap
          BY <3>1, <2>1, <2>4, <1>0
        <4> QED BY <3>1, <3>2, <3>4, <4>1, <2>1, <2>2, <1>0
      <3> QED BY <3>3, <3>4, <2>1, <2>2
    <2>5. ASSUME posted, ~wrapped' PROVE lastConnectionTime + age' <= clock'
      <3>0. ~wrapped /\ clock + d < Wrap
        BY <1>2, <2>1, <2>5, ElapseIs DEF TimePasses
      <3>1. lastConnectionTime + age <= clock /\ clock' = clock + d
        BY <2>2, <2>5, <3>0 DEF AgeOnClock
      <3>2. age' <= age + d /\ age' \in Nat
        BY <2>1, <2>3, <1>0
      <3>3. \A l, c, a, b, e \in Nat : l + a <= c /\ b <= a + e => l + b <= c + e
        OBVIOUS
      <3>4. clock \in Nat
        BY <2>2
      <3>5. lastConnectionTime + age' <= clock + d
        BY <3>1, <3>2, <3>3, <3>4, <2>1, <1>0
      <3> QED BY <3>1, <3>5
    <2> QED BY <2>3, <2>4, <2>5 DEF AgeOnClock
  <1>3. CASE State0Posts
    <2>1. PICK d \in CallTimes : Portal!Elapse(d) /\ lastConnectionTime' = After(d)
      BY <1>3 DEF State0Posts
    <2>2. clock' = lastConnectionTime' /\ age' = 0 /\ posted' = TRUE
      BY <1>3, <2>1 DEF State0Posts, Portal!Elapse, After
    <2>3. clock' \in Nat
      BY NextClockTypes DEF ClockTypes
    <2>4. clock' = lastConnectionTime' + age' /\ lastConnectionTime' + age' <= clock'
      <3>1. clock' = lastConnectionTime' /\ age' = 0
        BY <2>2
      <3>2. \A c, l, a \in Nat : c = l /\ a = 0 => c = l + a /\ l + a <= c
        OBVIOUS
      <3> QED BY <2>3, <3>1, <3>2
    <2> QED BY <2>2, <2>4 DEF AgeOnClock
  <1>4. CASE Boot
    BY <1>4 DEF Boot, AgeOnClock
  <1> QED BY <1>1, <1>2, <1>3, <1>4, StepKinds

\* Init satisfies the invariant.
LEMMA InitInv == Init => IInv
  <1> SUFFICES ASSUME Init PROVE IInv
    OBVIOUS
  <1>1. posted = FALSE /\ lastConnectionTime = Interval
    BY DEF Init
  <1> QED BY <1>1, InitTypeOK DEF IInv, AgeOnClock

\* The invariant is inductive.
LEMMA NextInv == IInv /\ [Next]_vars => IInv'
  <1>1. IInv /\ Next => IInv'
    BY NextTypeOK, NextAgeOnClock DEF IInv
  <1>2. ASSUME IInv, UNCHANGED vars PROVE IInv'
    <2> USE <1>2 DEF vars, time, portalTimer, IInv
    <2>1. TypeOK'
      BY DEF TypeOK, Portal!TypeOK
    <2> QED BY <2>1 DEF AgeOnClock
  <1> QED BY <1>1, <1>2

\* In every behaviour every state satisfies the invariant.
THEOREM Invariance == Spec => []IInv
  BY InitInv, NextInv, PTL DEF Spec

-----------------------------------------------------------------------------
(* The theorems.                                                           *)

\* The state of the loop, of the radio and of the portal keeps its types: the
\* retries never run below zero and no timestamp leaves the unsigned range.
THEOREM MissionTypeCorrect == Spec => []TypeOK
  <1>1. IInv => TypeOK
    BY DEF IInv
  <1> QED BY <1>1, Invariance, PTL

\* Whatever the loop does, its portals are those of ConfigPortal: the timer of
\* the portal sees nothing but pauses, portals and restarts.
THEOREM MissionImplementsPortal == Spec => ImplementsPortal
  <1>1. Init => Portal!Init
    BY DEF Init
  <1>2. IInv /\ [Next]_vars => [Portal!Next]_(Portal!vars)
    <2> SUFFICES ASSUME IInv, [Next]_vars PROVE Portal!Next \/ UNCHANGED Portal!vars
      OBVIOUS
    <2>1. CASE Next
      BY <2>1, NextImplements DEF IInv
    <2>2. CASE UNCHANGED vars
      BY <2>2 DEF vars, time, portalTimer, Portal!vars
    <2> QED BY <2>1, <2>2
  <1> QED BY <1>1, <1>2, Invariance, PTL DEF Spec, ImplementsPortal, Portal!Spec

\* What is proved of ConfigPortal is proved of the portals of Mission.
LEMMA MissionIsTimer == Spec => Timer!Spec
  <1>1. Portal!Init => Timer!Init
    BY DEF Portal!Init, Timer!Init
  <1>2. [Portal!Next]_(Portal!vars) => [Timer!Next]_(Timer!vars)
    BY DEF Portal!Next, Timer!Next, Portal!vars, Timer!vars,
       Portal!Elsewhere, Timer!Elsewhere, Portal!StartConfigPortal, Timer!StartConfigPortal,
       Portal!HandleRequest, Timer!HandleRequest, Portal!TimesOut, Timer!TimesOut,
       Portal!Waits, Timer!Waits, Portal!Configured, Timer!Configured,
       Portal!Polling, Timer!Polling, Portal!Exits, Timer!Exits,
       Portal!Shutdown, Timer!Shutdown, Portal!MaxPoll, Timer!MaxPoll,
       Portal!Restart, Timer!Restart, Portal!Elapse, Timer!Elapse, Portal!After, Timer!After,
       Portal!Expired, Timer!Expired, Portal!Prolonged, Timer!Prolonged, Portal!Late, Timer!Late
  <1> QED BY <1>1, <1>2, MissionImplementsPortal, PTL
          DEF ImplementsPortal, Portal!Spec, Timer!Spec

\* The portals of the main loop close one pass after their timeout, through any
\* number of wraps, posts, outages and boots, with the two exceptions that
\* ConfigPortal names.
THEOREM PortalClosesOnTime == Spec => []PortalOnTimeUnlessMissed
  <1>1. Timer!Spec => []Timer!OnTimeUnlessMissed
    <2>1. Timer!PortalConstants
      BY MissionAssumption DEF Timer!PortalConstants, Portal!PortalConstants,
         Timer!MaxPoll, Portal!MaxPoll
    <2> QED BY <2>1, Timer!PortalOnTimeUnlessWrapHit
  <1>2. Timer!OnTimeUnlessMissed => PortalOnTimeUnlessMissed
    BY DEF Timer!OnTimeUnlessMissed, Timer!MayMissDeadline, Timer!Prolonged,
       PortalOnTimeUnlessMissed, Portal!OnTimeUnlessMissed, Portal!MayMissDeadline,
       Portal!Prolonged, Timer!MaxPoll, Portal!MaxPoll
  <1> QED BY <1>1, <1>2, MissionIsTimer, PTL

\* How long the last post is ago when STATE_0 compares the timer.
LEMMA TimerAge ==
  ASSUME IInv, posted, NEW d \in CallTimes, age < AgeCap
  PROVE  TimerExpired(After(d)) <=> age + d > Interval
  <1> USE Numbers
  <1>1. d \in Nat /\ d <= MaxCall /\ d < Wrap
    BY Durations
  <1>2. /\ lastConnectionTime \in Nat /\ lastConnectionTime < Wrap
        /\ age \in Nat /\ clock \in Nat /\ clock < Wrap
    BY DEF IInv, TypeOK
  <1>3. clock = lastConnectionTime + age \/ clock + Wrap = lastConnectionTime + age
    BY DEF IInv, AgeOnClock
  <1>4. age + d < Wrap
    BY <1>1, <1>2
  <1>5. /\ After(d) \in 0..(Wrap - 1)
        /\ clock + d < Wrap => After(d) = clock + d
        /\ clock + d >= Wrap => After(d) = clock + d - Wrap
    BY <1>1, AfterIs DEF IInv
  <1>6. /\ After(d) >= lastConnectionTime => After(d) - lastConnectionTime = age + d
        /\ After(d) < lastConnectionTime => After(d) + Wrap - lastConnectionTime = age + d
    BY <1>1, <1>2, <1>3, <1>4, <1>5
  <1>7. CASE After(d) >= lastConnectionTime
    BY <1>5, <1>6, <1>7, TimerIs DEF IInv
  <1>8. CASE After(d) < lastConnectionTime
    BY <1>5, <1>6, <1>8, TimerIs DEF IInv
  <1> QED BY <1>2, <1>5, <1>7, <1>8

\* Two posts of one boot are more than the interval apart, for any interval and
\* any durations that fit in the cycle of millis() together.
THEOREM PostsSpaced == Spec => PostSpacing
  <1>1. ASSUME IInv, Next, state_s1 = 0, state_s1' = 1, posted
        PROVE  \E d \in CallTimes : Aged(d) > Interval /\ clock' = After(d)
    <2>1. State0Posts
      BY <1>1 DEF Next, MainStep, WorldStep, Setup, AutoConnectSucceeds, AutoConnectFails, OpensPortal,
                  AutoConnectNoRadio, PortalWaits, PortalTimeout, State0Waits, State1,
                  Send, State2, Reconnect, CheckGivesUp, CheckFindsNothing,
                  CheckFindsUpdate, OtaInstalls, OtaFails, LinkDown, LinkUp,
                  AutoReconnect, PortalVisited, PortalConfigured, PortalExited,
                  PortalErased, Reset, Boot
    <2>2. PICK d \in CallTimes : TimerExpired(After(d)) /\ clock' = After(d)
      BY <2>1 DEF State0Posts, Portal!Elapse, After
    <2>3. age \in Nat /\ age <= AgeCap /\ d \in Nat
      BY <1>1, Numbers, Durations DEF IInv, TypeOK
    <2>4. Aged(d) > Interval
      <3>1. CASE age < AgeCap
        <4>1. age + d > Interval
          BY <3>1, <1>1, <2>2, TimerAge
        <4> QED BY <4>1, <2>3, Numbers DEF Aged
      <3>2. CASE age = AgeCap
        BY <3>2, <2>3, Numbers DEF Aged
      <3> QED BY <3>1, <3>2, <2>3, Numbers
    <2> QED BY <2>2, <2>4
  <1>2. IInv /\ [Next]_vars
          => [state_s1 = 0 /\ state_s1' = 1 /\ posted
                => \E d \in CallTimes : Aged(d) > Interval /\ clock' = After(d)]_vars
    BY <1>1
  <1> QED BY <1>2, Invariance, PTL DEF Spec, PostSpacing

\* The only step of STATE_0 that stays in STATE_0.
LEMMA WaitingStep ==
  ASSUME Next, stage = "loop", state_s1 = 0, stage' = "loop", state_s1' = 0, clock' # clock
  PROVE  State0Waits
  BY DEF Next, MainStep, WorldStep, Setup, AutoConnectSucceeds, AutoConnectFails, OpensPortal,
         AutoConnectNoRadio, PortalWaits, Portal!Waits, PortalTimeout, Portal!TimesOut,
         State0Posts, State1, Send, State2, Reconnect, CheckGivesUp, CheckFindsNothing,
         CheckFindsUpdate, OtaInstalls, OtaFails, LinkDown, LinkUp, AutoReconnect,
         PortalVisited, Portal!HandleRequest, Portal!Polling, PortalConfigured,
         Portal!Configured, PortalExited, Portal!Exits, PortalErased, Reset, Boot, time

\* STATE_0 never goes to sleep with a post overdue by more than its own delay,
\* unless millis() wrapped while the age was out of count.
THEOREM PostsNotOverdue == Spec => PostNotOverdue
  <1> USE Numbers
  <1>1. ASSUME IInv, Next, state_s1 = 0, stage = "loop", posted, clock' # clock,
               state_s1' = 0, stage' = "loop", ~(wrapped' /\ age = AgeCap)
        PROVE  age' <= Interval + WaitDelay
    <2>1. PICK d \in CallTimes : ~TimerExpired(After(d)) /\ Elapse(d + WaitDelay)
      BY <1>1, WaitingStep DEF State0Waits
    <2>2. d \in Nat /\ d <= MaxCall /\ d + WaitDelay \in Nat /\ d + WaitDelay < Wrap
      BY Durations
    <2>3. age \in Nat /\ age <= AgeCap
      BY <1>1 DEF IInv, TypeOK
    <2>4. CASE age < AgeCap
      <3>1. ~(age + d > Interval)
        BY <2>1, <2>4, <1>1, TimerAge
      <3>2. age + (d + WaitDelay) < AgeCap /\ age + (d + WaitDelay) <= Interval + WaitDelay
        BY <3>1, <2>2, <2>3
      <3> QED BY <3>2, <2>1, <2>3 DEF Elapse, Aged
    <2>5. CASE age = AgeCap
      <3>1. ~wrapped /\ clock + (d + WaitDelay) < Wrap
        BY <2>1, <2>2, <2>5, <1>1, ElapseIs DEF Elapse, IInv
      <3>2. clock \in Nat /\ lastConnectionTime \in Nat
        BY <1>1 DEF IInv, TypeOK
      <3>3. lastConnectionTime + AgeCap <= clock
        BY <3>1, <2>5, <1>1 DEF IInv, AgeOnClock
      <3>4. After(d) = clock + d /\ After(d) \in 0..(Wrap - 1)
        <4>1. clock + d < Wrap /\ d < Wrap
          BY <3>1, <3>2, <2>2
        <4> QED BY <4>1, <2>2, <1>1, AfterIs DEF IInv
      <3>5. After(d) >= lastConnectionTime /\ After(d) - lastConnectionTime > Interval
        BY <3>2, <3>3, <3>4, <2>2
      <3>6. TimerExpired(After(d))
        BY <3>4, <3>5, <1>1, TimerIs DEF IInv
      <3> QED BY <3>6, <2>1
    <2> QED BY <2>3, <2>4, <2>5
  <1>2. IInv /\ [Next]_vars
          => [state_s1 = 0 /\ stage = "loop" /\ posted /\ clock' # clock
                /\ state_s1' = 0 /\ stage' = "loop"
                => age' <= Interval + WaitDelay \/ (wrapped' /\ age = AgeCap)]_vars
    BY <1>1
  <1> QED BY <1>2, Invariance, PTL DEF Spec, PostNotOverdue

\* While nothing was posted, the loop only sleeps between one and two intervals
\* after the boot: before that the initial lastConnectionTime lies ahead.
THEOREM FirstPostInTime == Spec => FirstPost
  <1> USE Numbers
  <1>1. ASSUME IInv, Next, stage = "loop", state_s1 = 0, ~posted, state_s1' = 0,
               stage' = "loop", clock' # clock
        PROVE  clock' \in (Interval + WaitDelay)..(2 * Interval + WaitDelay)
    <2>1. PICK d \in CallTimes : ~TimerExpired(After(d)) /\ Elapse(d + WaitDelay)
      BY <1>1, WaitingStep DEF State0Waits
    <2>2. d \in Nat /\ d < Wrap /\ d + WaitDelay \in Nat /\ d + WaitDelay < Wrap
      BY Durations
    <2>3. lastConnectionTime = Interval /\ clock \in Nat /\ clock < Wrap
      BY <1>1 DEF IInv, AgeOnClock, TypeOK
    <2>4. /\ After(d) \in 0..(Wrap - 1)
          /\ clock + d < Wrap => After(d) = clock + d
          /\ clock + d >= Wrap => After(d) = clock + d - Wrap
      BY <2>2, <1>1, AfterIs DEF IInv
    <2>5. After(d) >= Interval /\ After(d) <= 2 * Interval
      <3>1. CASE After(d) >= Interval
        <4>1. ~(After(d) - Interval > Interval)
          BY <3>1, <2>1, <2>3, <2>4, <1>1, TimerIs DEF IInv
        <4> QED BY <4>1, <3>1, <2>4
      <3>2. CASE After(d) < Interval
        <4>1. ~(After(d) + Wrap - Interval > Interval)
          BY <3>2, <2>1, <2>3, <2>4, <1>1, TimerIs DEF IInv
        <4> QED BY <4>1, <2>4
      <3> QED BY <3>1, <3>2, <2>4
    <2>6. /\ clock + (d + WaitDelay) < Wrap => clock' = clock + (d + WaitDelay)
          /\ clock + (d + WaitDelay) >= Wrap => clock' = clock + (d + WaitDelay) - Wrap
      BY <2>1, <2>2, <1>1, ElapseIs DEF Elapse, IInv
    <2>7. clock' = After(d) + WaitDelay
      BY <2>2, <2>3, <2>4, <2>5, <2>6
    <2> QED BY <2>4, <2>5, <2>7
  <1>2. IInv /\ [Next]_vars
          => [stage = "loop" /\ state_s1 = 0 /\ ~posted /\ state_s1' = 0 /\ stage' = "loop"
                /\ clock' # clock
                => clock' \in (Interval + WaitDelay)..(2 * Interval + WaitDelay)]_vars
    BY <1>1
  <1> QED BY <1>2, Invariance, PTL DEF Spec, FirstPost

-----------------------------------------------------------------------------
(* Every step of the main task leads to a post.                            *)

\* Where the main task can be in each state of the loop.
OnItsWay ==
    /\ state_s1 = 0 => stage \in {"setup", "auto", "portal", "loop"}
    /\ state_s1 = 1 => stage \in {"loop", "auto", "portal", "send"}
    /\ state_s1 = 2 => stage \in {"loop", "check", "ota"}
    /\ state_s1 \in 0..2

\* The steps that lead from one step of the loop to another one.
GoesOn ==
    \/ Setup \/ AutoConnectSucceeds \/ AutoConnectFails \/ AutoConnectNoRadio
    \/ PortalTimeout \/ PortalExited \/ PortalConfigured
    \/ State0Posts \/ State1 \/ Send \/ State2
    \/ CheckGivesUp \/ CheckFindsNothing \/ CheckFindsUpdate \/ OtaFails

\* A step of the loop leads to the next one, and no other way.
LEMMA WayOn ==
  ASSUME OnItsWay, GoesOn
  PROVE  \/ state_s1 = 0 /\ state_s1' = 0 /\ stage = "setup" /\ stage' = "auto"
         \/ state_s1 = 0 /\ state_s1' = 0 /\ stage = "auto" /\ stage' \in {"portal", "loop"}
         \/ state_s1 = 0 /\ state_s1' = 0 /\ stage = "portal" /\ stage' = "loop"
         \/ state_s1 = 0 /\ state_s1' = 1 /\ stage = "loop" /\ stage' = "loop"
         \/ state_s1 = 1 /\ state_s1' = 1 /\ stage = "loop" /\ stage' \in {"auto", "send"}
         \/ state_s1 = 1 /\ state_s1' = 1 /\ stage = "auto" /\ stage' \in {"portal", "send"}
         \/ state_s1 = 1 /\ state_s1' = 1 /\ stage = "portal" /\ stage' = "send"
         \/ state_s1 = 1 /\ state_s1' = 2 /\ stage = "send" /\ stage' = "loop"
         \/ state_s1 = 2 /\ state_s1' = 2 /\ stage = "loop" /\ stage' = "check"
         \/ state_s1 = 2 /\ state_s1' = 2 /\ stage = "check" /\ stage' = "ota"
         \/ state_s1 = 2 /\ state_s1' = 0 /\ stage \in {"check", "ota"} /\ stage' = "loop"
  <1> USE DEF OnItsWay
  <1>1. CASE Setup
    BY <1>1 DEF Setup
  <1>2. CASE AutoConnectSucceeds \/ AutoConnectNoRadio
    BY <1>2 DEF AutoConnectSucceeds, AutoConnectNoRadio, AfterAutoConnect
  <1>3. CASE AutoConnectFails
    BY <1>3 DEF AutoConnectFails
  <1>4. CASE PortalTimeout \/ PortalExited \/ PortalConfigured
    <2>1. stage = "portal" /\ stage' = AfterAutoConnect /\ state_s1' = state_s1
      BY <1>4 DEF PortalTimeout, PortalExited, PortalConfigured, Portal!TimesOut,
                  Portal!Exits, Portal!Configured
    <2> QED BY <2>1 DEF AfterAutoConnect
  <1>5. CASE State0Posts \/ State2
    BY <1>5 DEF State0Posts, State2
  <1>6. CASE State1
    BY <1>6 DEF State1, PostEntry
  <1>7. CASE Send
    BY <1>7 DEF Send
  <1>8. CASE CheckGivesUp \/ CheckFindsNothing \/ CheckFindsUpdate
    BY <1>8 DEF CheckGivesUp, CheckFindsNothing, CheckFindsUpdate
  <1>9. CASE OtaFails
    BY <1>9 DEF OtaFails
  <1> QED BY <1>1, <1>2, <1>3, <1>4, <1>5, <1>6, <1>7, <1>8, <1>9 DEF GoesOn

\* All the steps that stay where they are, or boot.
LEMMA StaysOrGoes ==
  ASSUME Next
  PROVE  \/ GoesOn
         \/ PortalWaits \/ State0Waits \/ Reconnect
         \/ LinkDown \/ LinkUp \/ AutoReconnect \/ PortalVisited
         \/ OtaInstalls \/ Reset \/ PortalErased
  BY DEF Next, MainStep, WorldStep, GoesOn

\* The main task never gets off its way.
LEMMA NextOnItsWay == OnItsWay /\ [Next]_vars => OnItsWay'
  <1> SUFFICES ASSUME OnItsWay, [Next]_vars PROVE OnItsWay'
    OBVIOUS
  <1>1. CASE GoesOn
    BY <1>1, WayOn DEF OnItsWay
  <1>2. CASE OtaInstalls \/ Reset \/ PortalErased
    BY <1>2 DEF OtaInstalls, Reset, PortalErased, Boot, OnItsWay
  <1>3. CASE UNCHANGED <<state_s1, stage>>
    BY <1>3 DEF OnItsWay
  <1>4. CASE \/ PortalWaits \/ State0Waits \/ Reconnect
             \/ LinkDown \/ LinkUp \/ AutoReconnect \/ PortalVisited
             \/ UNCHANGED vars
    BY <1>3, <1>4 DEF PortalWaits, State0Waits, Reconnect, LinkDown, LinkUp,
       AutoReconnect, PortalVisited, vars
  <1> QED BY <1>1, <1>2, <1>4, StaysOrGoes

\* The phase in every state of the loop.
PhaseTable ==
    /\ state_s1 = 1 => /\ stage = "send" => Phase = 0
                       /\ stage = "portal" => Phase = 1
                       /\ stage = "auto" => Phase = 2
                       /\ stage = "loop" => Phase = 3
    /\ state_s1 = 0 => /\ stage = "loop" => Phase = 4
                       /\ stage = "portal" => Phase = 5
                       /\ stage = "auto" => Phase = 6
                       /\ stage = "setup" => Phase = 7
    /\ state_s1 = 2 => /\ stage = "ota" => Phase = 5
                       /\ stage = "check" => Phase = 6
                       /\ stage = "loop" => Phase = 7

\* Only after the post does the next one move away.
LEMMA GoesOnNearer ==
  ASSUME OnItsWay, GoesOn, stage # "send"
  PROVE  Phase' < Phase
  <1>1. PhaseTable /\ PhaseTable'
    BY DEF PhaseTable, Phase
  <1>2. PICK p, q \in 0..7 : Phase = p /\ Phase' = q /\ q < p
    BY <1>1, WayOn DEF PhaseTable
  <1> QED BY <1>2

\* The wrapped difference of two sums below three cycles.
LEMMA RemainderIs ==
  ASSUME NEW n \in Nat, NEW r \in Nat, r < Wrap,
         n = r \/ n = r + Wrap \/ n = r + 2 * Wrap
  PROVE  n % Wrap = r
  BY Numbers

\* A pass of STATE_0 that does not post takes its time off what is left.
LEMMA WaitNearer ==
  ASSUME TypeOK, State0Waits
  PROVE  TimeLeft' < TimeLeft
  <1> USE Numbers
  <1> DEFINE last == lastConnectionTime
  <1>1. PICK d \in CallTimes : ~TimerExpired(After(d)) /\ Elapse(d + WaitDelay)
    BY DEF State0Waits
  <1>2. /\ d \in Nat /\ d <= MaxCall /\ d + WaitDelay < Wrap
        /\ last \in Nat /\ last < Wrap /\ clock \in Nat /\ clock < Wrap
    BY <1>1, Durations DEF TypeOK
  <1> DEFINE now == After(d)
             then == After(d + WaitDelay)
  <1>3. /\ now \in 0..(Wrap - 1)
        /\ now = clock + d \/ now = clock + d - Wrap
    BY <1>2, AfterIs
  <1>4. /\ then \in 0..(Wrap - 1)
        /\ then = clock + d + WaitDelay \/ then = clock + d + WaitDelay - Wrap
    BY <1>2, AfterIs
  <1>5. clock' = then /\ lastConnectionTime' = last
    BY <1>1 DEF Elapse, Portal!Elapse, After, State0Waits
  <1>6. /\ now >= last => now - last <= Interval
        /\ now < last => now + Wrap - last <= Interval
    <2>1. ~TimerExpired(now)
      BY <1>1
    <2>2. now \in Nat
      BY <1>3
    <2> HIDE DEF now
    <2> QED BY <2>1, <2>2, <1>2, <1>3, TimerIs
  <1> HIDE DEF now, then
  <1> DEFINE e == IF now >= last THEN now - last ELSE now + Wrap - last
             r == Interval - e
  <1>7. /\ e \in Nat /\ e <= Interval /\ r \in Nat /\ r <= Interval
        /\ e = now - last \/ e = now + Wrap - last
    BY <1>2, <1>3, <1>6
  <1>8. r = Interval - e
    OBVIOUS
  <1> HIDE DEF e, r
  <1> DEFINE before == Interval + WaitDelay + last + Wrap - clock
             after == Interval + WaitDelay + last + Wrap - then
             more == r + WaitDelay + d
  <1>9. more \in Nat /\ more < Wrap /\ r < Wrap /\ r < more
    BY <1>2, <1>7
  <1>10. /\ before \in Nat
         /\ before = more \/ before = more + Wrap \/ before = more + 2 * Wrap
    BY <1>2, <1>3, <1>7, <1>8
  <1>11. /\ after \in Nat
         /\ after = r \/ after = r + Wrap \/ after = r + 2 * Wrap
    BY <1>2, <1>3, <1>4, <1>7, <1>8
  <1>12. TimeLeft = before % Wrap /\ TimeLeft' = after % Wrap
    BY <1>5 DEF TimeLeft
  <1> HIDE DEF before, after, more
  <1>13. before % Wrap = more
    BY <1>9, <1>10, RemainderIs
  <1>14. after % Wrap = r
    BY <1>7, <1>9, <1>11, RemainderIs
  <1> QED BY <1>9, <1>12, <1>13, <1>14

\* A pass of a portal that is not late takes its time off what the portal has left.
LEMMA PollNearer ==
  ASSUME TypeOK, PortalOnTimeUnlessMissed, ~PortalLate, PortalWaits
  PROVE  stage = "portal" /\ Portal!Late - openFor' < Portal!Late - openFor
  <1>1. PICK d \in Polls : Portal!Waits(d)
    BY DEF PortalWaits
  <1>2. stage = "portal" /\ openFor' = IF openFor + d < Portal!Late THEN openFor + d ELSE Portal!Late
    BY <1>1 DEF Portal!Waits, Portal!Polling
  <1>3. /\ openFor \in 0..Portal!Late /\ Portal!Late = Timeout + Portal!MaxPoll + 1
        /\ Timeout \in Nat /\ Portal!MaxPoll \in Nat /\ d \in Nat /\ 0 < d
    BY Numbers, Durations DEF TypeOK, Portal!TypeOK
  <1>4. openFor # Portal!Late
    <2> SUFFICES ASSUME openFor = Portal!Late PROVE FALSE
      OBVIOUS
    <2>1. ~wrapped
      BY <1>2 DEF PortalLate
    <2>2. openFor <= Timeout + Portal!MaxPoll
      BY <1>2, <2>1 DEF PortalOnTimeUnlessMissed, Portal!OnTimeUnlessMissed,
         Portal!MayMissDeadline
    <2> QED BY <1>3, <2>2
  <1> QED BY <1>2, <1>3, <1>4

\* A step that stays where it is takes something off what is left of it.
LEMMA StaysNearer ==
  ASSUME TypeOK, OnItsWay, PortalOnTimeUnlessMissed, ~PortalLate,
         PortalWaits \/ State0Waits \/ Reconnect
  PROVE  Phase' = Phase /\ Rest' < Rest
  <1>1. state_s1' = state_s1 /\ stage' = stage
    BY DEF PortalWaits, State0Waits, Reconnect
  <1>2. Phase' = Phase
    BY <1>1 DEF Phase
  <1>3. CASE PortalWaits
    <2>1. stage = "portal" /\ Portal!Late - openFor' < Portal!Late - openFor
      BY <1>3, PollNearer
    <2>2. Rest' = Portal!Late - openFor' /\ Rest = Portal!Late - openFor
      BY <1>1, <2>1 DEF Rest, Portal!Late
    <2> QED BY <1>2, <2>1, <2>2
  <1>4. CASE State0Waits
    <2>1. stage = "loop" /\ state_s1 = 0 /\ TimeLeft' < TimeLeft
      BY <1>4, WaitNearer DEF State0Waits
    <2>2. Rest' = TimeLeft' /\ Rest = TimeLeft
      BY <1>1, <2>1 DEF Rest
    <2> QED BY <1>2, <2>1, <2>2
  <1>5. CASE Reconnect
    <2>1. stage = "check" /\ retries' = retries - 1 /\ retries > 0
      BY <1>5 DEF Reconnect, MayRetry, RetriesLeft
    <2>2. Rest' = retries' /\ Rest = retries
      BY <1>1, <2>1 DEF Rest
    <2>3. retries \in Nat
      BY Numbers DEF TypeOK
    <2> QED BY <1>2, <2>1, <2>2, <2>3
  <1> QED BY <1>3, <1>4, <1>5

\* The access point and the radio do not move the main task.
LEMMA WorldStays ==
  ASSUME LinkDown \/ LinkUp \/ AutoReconnect
  PROVE  Phase' = Phase /\ Rest' = Rest
  <1>1. UNCHANGED <<state_s1, stage, lastConnectionTime, retries, time, portalTimer>>
    BY DEF LinkDown, LinkUp, AutoReconnect
  <1> QED BY <1>1 DEF Phase, Rest, TimeLeft, Portal!Late, time, portalTimer

\* A step of the main task that is no boot is not one of the world's.
LEMMA MainIsNear ==
  ASSUME MainStep, resets' = resets, resets \in Nat
  PROVE  GoesOn \/ PortalWaits \/ State0Waits \/ Reconnect
  <1>1. ~OtaInstalls
    BY DEF OtaInstalls
  <1> QED BY <1>1 DEF MainStep, GoesOn

\* Whatever the access point, the radio and the update server do, the loop cannot
\* go round without a post: every step of the main task brings it nearer, in the
\* order of the phases and, within one, in what is left of it.  With the fairness
\* of the main task this is why KeepsPosting holds.
THEOREM LoopReachesPost == Spec => LoopAdvances
  <1>1. ASSUME TypeOK, OnItsWay, PortalOnTimeUnlessMissed, Next,
               stage # "send", ~PortalLate, ~PortalVisited, resets' = resets
        PROVE  Nearer \/ (~MainStep /\ Phase' = Phase /\ Rest' = Rest)
    <2>1. resets \in Nat
      BY <1>1, Numbers DEF TypeOK
    <2>2. ~OtaInstalls /\ ~Reset /\ ~PortalErased
      BY <2>1, <1>1 DEF OtaInstalls, Reset, PortalErased
    <2>3. CASE GoesOn
      BY <2>3, <1>1, GoesOnNearer DEF Nearer
    <2>4. CASE PortalWaits \/ State0Waits \/ Reconnect
      BY <2>4, <1>1, StaysNearer DEF Nearer
    <2>5. CASE LinkDown \/ LinkUp \/ AutoReconnect
      BY <2>1, <2>3, <2>4, <2>5, <1>1, WorldStays, MainIsNear
    <2> QED BY <2>2, <2>3, <2>4, <2>5, <1>1, StaysOrGoes
  <1>2. TypeOK /\ OnItsWay /\ PortalOnTimeUnlessMissed /\ [Next]_vars
          => [stage # "send" /\ ~PortalLate /\ ~PortalVisited /\ resets' = resets
                => \/ Nearer
                   \/ ~MainStep /\ Phase' = Phase /\ Rest' = Rest]_vars
    BY <1>1
  <1>3. Init => OnItsWay
    BY DEF Init, OnItsWay
  <1>4. Spec => []OnItsWay
    BY <1>3, NextOnItsWay, PTL DEF Spec
  <1> QED BY <1>2, <1>4, MissionTypeCorrect, PortalClosesOnTime, PTL
          DEF Spec, LoopAdvances

-----------------------------------------------------------------------------
(* What else the portals of the loop inherit.                              *)

\* A visitor of any portal of the main loop has the whole timeout, but for the
\* last moments of a cycle of millis().
THEOREM VisitorsHaveFullTimeout == Spec => Portal!FullTimeout
  <1>1. Timer!Spec => Timer!FullTimeout
    <2>1. Timer!PortalConstants
      BY MissionAssumption DEF Timer!PortalConstants, Portal!PortalConstants,
         Timer!MaxPoll, Portal!MaxPoll
    <2> QED BY <2>1, Timer!PortalGivesFullTimeout
  <1>2. [Timer!TimesOut => openFor > Timeout \/ Timer!Prolonged + Timeout >= Wrap]_(Timer!vars)
          => [Portal!TimesOut
                => openFor > Timeout \/ Portal!Prolonged + Timeout >= Wrap]_(Portal!vars)
    BY DEF Timer!TimesOut, Portal!TimesOut, Timer!Shutdown, Portal!Shutdown, Timer!Expired, Portal!Expired,
       Timer!Prolonged, Portal!Prolonged, Timer!vars, Portal!vars
  <1> QED BY <1>1, <1>2, MissionIsTimer, PTL DEF Timer!FullTimeout, Portal!FullTimeout


=============================================================================
