------------------------- MODULE ConfigPortalProofs -------------------------
(***************************************************************************)
(* Proofs about ConfigPortal, for any cycle of millis(), any timeout,      *)
(* passes of any lengths and any pauses that PortalConstants allows.       *)
(*                                                                         *)
(* The argument: while no access of an earlier portal lies ahead of the    *)
(* clock, one of three things holds.  The time a portal has been open is   *)
(* on the clock (TimedByClock), so its deadline is seen to pass; or the    *)
(* deadline is so near the end of the cycle that a pass has jumped over it *)
(* (LastDeadline), and stays so until a visitor moves it; or the portal    *)
(* and its deadline lie on two sides of a wrap the clock has passed        *)
(* (WrappedOver), and the deadline will be seen after it.  Before the      *)
(* first wrap no access can lie ahead (NothingAhead).                      *)
(*                                                                         *)
(* Nor is the timer ever armed with a time longer ago than the portal, or  *)
(* the last page of it, is old (Patient): by itself it never closes early. *)
(***************************************************************************)
EXTENDS ConfigPortal, TLAPS

NothingAhead ==
    ~wrapped => configPortalStart <= millis /\ webPortalAccessed <= millis /\ ~stale

TimedByClock ==
    /\ Prolonged + openFor <= millis
    /\ openFor <= Timeout + MaxPoll

LastDeadline ==
    /\ wrapped
    /\ Prolonged + Timeout \in (Wrap - MaxPoll)..(Wrap - 1)

WrappedOver ==
    /\ Prolonged + Timeout >= Wrap
    /\ Prolonged + openFor <= millis + Wrap
    /\ millis <= Prolonged + Timeout + MaxPoll - Wrap
    /\ openFor <= Timeout + MaxPoll

\* The clock is not further from the timestamp that arms the timer than the
\* portal has been open, until that is out of count.
Patient ==
    configPortalActive /\ openFor < Late => millis <= Prolonged + openFor

PortalInv ==
    /\ TypeOK
    /\ NothingAhead
    /\ configPortalActive /\ ~stale => TimedByClock \/ LastDeadline \/ WrappedOver

-----------------------------------------------------------------------------
(* The clock.                                                              *)

\* What PortalConstants says, as numbers.
LEMMA Numbers ==
  ASSUME PortalConstants
  PROVE  /\ Wrap \in Nat /\ Timeout \in Nat /\ MaxPoll \in Nat
         /\ 0 < Timeout /\ Timeout + MaxPoll < Wrap
         /\ Late = Timeout + MaxPoll + 1
         /\ \A d \in Polls : d \in Nat /\ 0 < d /\ d <= MaxPoll
         /\ \A d \in {0} \cup Pauses, s \in {0} \cup Polls :
                d \in Nat /\ s \in Nat /\ s <= MaxPoll /\ d + s < Wrap
  <1>1. \A d \in Polls : d \in Nat /\ 0 < d /\ d <= MaxPoll
    BY DEF PortalConstants
  <1>2. MaxPoll \in Nat /\ Timeout \in Nat /\ Wrap \in Nat /\ Timeout + MaxPoll < Wrap
    BY DEF PortalConstants
  <1>3. \A d \in {0} \cup Pauses : d \in Nat /\ d + MaxPoll < Wrap
    BY <1>2 DEF PortalConstants
  <1>4. \A s \in {0} \cup Polls : s \in Nat /\ s <= MaxPoll
    BY <1>1, <1>2
  <1> QED BY <1>1, <1>2, <1>3, <1>4 DEF PortalConstants, Late

\* A sum on an unsigned counter of which each part fits in the cycle.
LEMMA WrappedSum ==
  ASSUME NEW w \in Nat, NEW a \in Nat, NEW b \in Nat, a < w, b < w
  PROVE  /\ (a + b) % w \in 0..(w - 1)
         /\ a + b < w => (a + b) % w = a + b
         /\ a + b >= w => (a + b) % w = a + b - w
  OBVIOUS

\* What millis() shows after a time shorter than its cycle.
LEMMA AfterIs ==
  ASSUME PortalConstants, TypeOK, NEW d \in Nat, d < Wrap
  PROVE  /\ After(d) \in 0..(Wrap - 1)
         /\ millis + d < Wrap => After(d) = millis + d
         /\ millis + d >= Wrap => After(d) = millis + d - Wrap
  <1>1. millis \in Nat /\ millis < Wrap /\ Wrap \in Nat
    BY Numbers DEF TypeOK
  <1> QED BY <1>1, WrappedSum DEF After

\* Time passes: the clock and what is known of its wraps.
LEMMA ElapseIs ==
  ASSUME PortalConstants, TypeOK, NEW d \in Nat, d < Wrap, Elapse(d)
  PROVE  /\ millis' \in 0..(Wrap - 1) /\ After(d) = millis'
         /\ wrapped' \in BOOLEAN
         /\ millis + d < Wrap => millis' = millis + d
         /\ millis + d >= Wrap => wrapped' /\ millis' = millis + d - Wrap
         /\ wrapped => wrapped'
  <1>1. millis' = After(d) /\ wrapped' = (wrapped \/ millis + d >= Wrap)
    BY DEF Elapse
  <1>2. wrapped \in BOOLEAN
    BY DEF TypeOK
  <1>3. /\ millis' \in 0..(Wrap - 1)
        /\ millis + d < Wrap => millis' = millis + d
        /\ millis + d >= Wrap => millis' = millis + d - Wrap
    BY <1>1, AfterIs
  <1>4. wrapped' \in BOOLEAN /\ (wrapped => wrapped') /\ (millis + d >= Wrap => wrapped')
    BY <1>1, <1>2
  <1> QED BY <1>1, <1>3, <1>4

\* The timer is armed with one of the two timestamps, the later one.
LEMMA ProlongedIs ==
  ASSUME TypeOK
  PROVE  /\ Prolonged \in 0..(Wrap - 1)
         /\ Prolonged >= configPortalStart /\ Prolonged >= webPortalAccessed
         /\ Prolonged \in {configPortalStart, webPortalAccessed}
  BY DEF TypeOK, Prolonged

\* A portal that was last visited, or opened, at p, t before the clock shows m:
\* before the wrap it is timed by the clock, after it the deadline was near the
\* end of the cycle or lies beyond it.
LEMMA FreshPortal ==
  ASSUME PortalConstants, TypeOK', NEW t \in Nat, t <= MaxPoll, openFor' = t,
         \/ Prolonged' + t = millis'
         \/ wrapped' /\ Prolonged' + t = millis' + Wrap
  PROVE  (TimedByClock \/ LastDeadline \/ WrappedOver)'
  <1> USE Numbers
  <1>1. Prolonged' \in Nat /\ millis' \in Nat
    <2>1. TypeOK' => Prolonged' \in 0..(Wrap - 1) /\ millis' \in 0..(Wrap - 1)
      BY DEF TypeOK, Prolonged
    <2> QED BY <2>1
  <1>2. t <= Timeout + MaxPoll
    OBVIOUS
  <1>3. CASE Prolonged' + t = millis'
    <2>1. millis' <= millis'
      BY <1>1
    <2> QED BY <2>1, <1>2, <1>3 DEF TimedByClock
  <1>4. CASE wrapped' /\ Prolonged' + t = millis' + Wrap
    <2>1. Prolonged' + t = millis' + Wrap
      BY <1>4
    <2>2. Prolonged' + Timeout >= Wrap - MaxPoll
      BY <2>1, <1>1
    <2>3. CASE Prolonged' + Timeout < Wrap
      <3>1. Prolonged' + Timeout \in (Wrap - MaxPoll)..(Wrap - 1)
        BY <2>2, <2>3, <1>1
      <3> QED BY <3>1, <1>4 DEF LastDeadline
    <2>4. CASE Prolonged' + Timeout >= Wrap
      <3>1. /\ Prolonged' + t <= millis' + Wrap
            /\ millis' <= Prolonged' + Timeout + MaxPoll - Wrap
        BY <2>1, <2>4, <1>1
      <3> QED BY <3>1, <2>4, <1>2 DEF WrappedOver
    <2> QED BY <2>3, <2>4, <1>1
  <1> QED BY <1>3, <1>4

-----------------------------------------------------------------------------
(* Each step keeps the invariant.                                          *)

\* The timer starts.
LEMMA StartKeeps ==
  ASSUME PortalConstants, PortalInv, NEW d \in {0} \cup Pauses, NEW s \in {0} \cup Polls,
         StartConfigPortal(d, s)
  PROVE  PortalInv'
  <1> USE Numbers
  <1>0. /\ TypeOK /\ Elapse(d + s) /\ d \in Nat /\ s \in Nat /\ s <= MaxPoll
        /\ d + s \in Nat /\ d + s < Wrap /\ d < Wrap
    BY DEF PortalInv, StartConfigPortal
  <1>1. /\ millis' \in 0..(Wrap - 1) /\ wrapped' \in BOOLEAN
        /\ millis + (d + s) < Wrap => millis' = millis + (d + s)
        /\ millis + (d + s) >= Wrap => wrapped' /\ millis' = millis + (d + s) - Wrap
        /\ wrapped => wrapped'
    BY <1>0, ElapseIs
  <1>2. /\ configPortalActive' = TRUE /\ configPortalStart' = After(d) /\ openFor' = s
        /\ webPortalAccessed' = webPortalAccessed
        /\ stale' = (webPortalAccessed > After(d))
    BY DEF StartConfigPortal
  <1>3. webPortalAccessed \in 0..(Wrap - 1) /\ millis \in 0..(Wrap - 1)
    BY <1>0 DEF TypeOK
  <1>4. /\ After(d) \in 0..(Wrap - 1)
        /\ millis + d < Wrap => After(d) = millis + d
        /\ millis + d >= Wrap => After(d) = millis + d - Wrap
    BY <1>0, AfterIs
  <1>5. openFor' \in 0..Late
    BY <1>0, <1>2
  <1>6. TypeOK'
    BY <1>1, <1>2, <1>3, <1>4, <1>5 DEF TypeOK
  <1>7. NothingAhead'
    <2>1. ASSUME ~wrapped' PROVE /\ webPortalAccessed <= After(d) /\ After(d) <= millis'
                                 /\ ~(webPortalAccessed > After(d))
      <3>1. ~wrapped /\ millis' = millis + (d + s)
        BY <1>1, <1>0, <1>3, <2>1
      <3>2. webPortalAccessed <= millis
        BY <3>1 DEF PortalInv, NothingAhead
      <3> QED BY <3>1, <3>2, <1>0, <1>1, <1>3, <1>4
    <2>2. webPortalAccessed <= After(d) /\ After(d) <= millis' => webPortalAccessed <= millis'
      BY <1>1, <1>3, <1>4
    <2> QED BY <1>2, <2>1, <2>2 DEF NothingAhead
  <1>8. ASSUME ~stale' PROVE (TimedByClock \/ LastDeadline \/ WrappedOver)'
    <2>1. Prolonged' = After(d)
      <3>1. ~(webPortalAccessed' > configPortalStart')
        BY <1>2, <1>8
      <3> QED BY <3>1, <1>2 DEF Prolonged
    <2>2. CASE millis + (d + s) < Wrap
      <3>1. Prolonged' + s = millis'
        BY <2>1, <2>2, <1>0, <1>1, <1>3, <1>4
      <3> QED BY <3>1, <1>0, <1>2, <1>6, FreshPortal
    <2>3. CASE millis + (d + s) >= Wrap
      <3>1. Prolonged' + s = millis' \/ Prolonged' + s = millis' + Wrap
        BY <2>1, <2>3, <1>0, <1>1, <1>3, <1>4
      <3>2. wrapped'
        BY <2>3, <1>1
      <3> QED BY <3>1, <3>2, <1>0, <1>2, <1>6, FreshPortal
    <2> QED BY <2>2, <2>3, <1>0, <1>3
  <1> QED BY <1>6, <1>7, <1>8 DEF PortalInv

\* A look at the clock that finds the deadline ahead, in a portal that is timed
\* by the clock: less than the timeout has passed.
LEMMA PollInTime ==
  ASSUME PortalConstants, TypeOK, TimedByClock, ~Expired(Prolonged)
  PROVE  openFor <= Timeout /\ millis <= Prolonged + Timeout /\ Prolonged + Timeout < Wrap
  <1> USE Numbers
  <1>1. /\ Prolonged \in Nat /\ Prolonged < Wrap /\ millis \in Nat /\ millis < Wrap
        /\ openFor \in Nat
    BY ProlongedIs DEF TypeOK
  <1>2. Prolonged + openFor <= millis
    BY DEF TimedByClock
  <1>3. /\ (Prolonged + Timeout) % Wrap \in 0..(Wrap - 1)
        /\ Prolonged + Timeout < Wrap => (Prolonged + Timeout) % Wrap = Prolonged + Timeout
        /\ Prolonged + Timeout >= Wrap
             => (Prolonged + Timeout) % Wrap = Prolonged + Timeout - Wrap
    <2>1. Timeout \in Nat /\ Timeout < Wrap
      OBVIOUS
    <2> QED BY <1>1, <2>1, WrappedSum
  <1>4. millis <= (Prolonged + Timeout) % Wrap
    BY <1>1, <1>3 DEF Expired
  <1>5. Prolonged + Timeout < Wrap /\ millis <= Prolonged + Timeout
    BY <1>1, <1>2, <1>3, <1>4
  <1> QED BY <1>1, <1>2, <1>5

\* The same in a portal whose deadline lies beyond a wrap: the clock is not yet
\* there.
LEMMA PollAfterWrap ==
  ASSUME PortalConstants, TypeOK, WrappedOver, ~Expired(Prolonged)
  PROVE  openFor <= Timeout /\ millis + Wrap <= Prolonged + Timeout
  <1> USE Numbers
  <1>1. /\ Prolonged \in Nat /\ Prolonged < Wrap /\ millis \in Nat /\ millis < Wrap
        /\ openFor \in Nat
    BY ProlongedIs DEF TypeOK
  <1>2. (Prolonged + Timeout) % Wrap = Prolonged + Timeout - Wrap
    <2>1. Timeout \in Nat /\ Timeout < Wrap /\ Prolonged + Timeout >= Wrap
      BY DEF WrappedOver
    <2> QED BY <1>1, <2>1, WrappedSum
  <1>3. Prolonged + Timeout >= Wrap /\ Prolonged + openFor <= millis + Wrap
    BY DEF WrappedOver
  <1>4. millis + Wrap <= Prolonged + Timeout
    BY <1>1, <1>2, <1>3 DEF Expired
  <1> QED BY <1>1, <1>3, <1>4

\* One pass of the open portal, with or without a request in it.
LEMMA PassKeeps ==
  ASSUME PortalConstants, PortalInv, NEW d \in Polls,
         Waits(d) \/ \E e \in 0..d : HandleRequest(d, e)
  PROVE  PortalInv'
  <1> USE Numbers
  <1>0. /\ TypeOK /\ Elapse(d) /\ d \in Nat /\ 0 < d /\ d <= MaxPoll /\ d < Wrap
        /\ configPortalActive' = configPortalActive /\ configPortalStart' = Prolonged
        /\ stale' = stale /\ ~Expired(Prolonged) /\ configPortalActive
    <2>1. d \in Nat /\ 0 < d /\ d <= MaxPoll /\ d < Wrap
      OBVIOUS
    <2> QED BY <2>1 DEF PortalInv, Waits, HandleRequest, Polling
  <1>1. /\ millis' \in 0..(Wrap - 1) /\ wrapped' \in BOOLEAN
        /\ millis + d < Wrap => millis' = millis + d
        /\ millis + d >= Wrap => wrapped' /\ millis' = millis + d - Wrap
        /\ wrapped => wrapped'
    BY <1>0, ElapseIs
  <1>2. /\ webPortalAccessed \in 0..(Wrap - 1) /\ configPortalStart \in 0..(Wrap - 1)
        /\ millis \in 0..(Wrap - 1) /\ openFor \in 0..Late
    BY <1>0 DEF TypeOK
  <1>3. /\ Prolonged \in 0..(Wrap - 1)
        /\ Prolonged >= webPortalAccessed /\ Prolonged >= configPortalStart
        /\ Prolonged \in {configPortalStart, webPortalAccessed}
    BY <1>0, ProlongedIs
  <1>4. ASSUME ~wrapped' PROVE /\ Prolonged <= millis /\ Prolonged <= millis'
                               /\ millis' = millis + d /\ ~stale
    <2>1. ~wrapped /\ millis' = millis + d
      BY <1>0, <1>1, <1>2, <1>4
    <2>2. configPortalStart <= millis /\ webPortalAccessed <= millis /\ ~stale
      BY <2>1 DEF PortalInv, NothingAhead
    <2>3. Prolonged <= millis
      BY <2>2, <1>3
    <2> QED BY <2>1, <2>2, <2>3, <1>0, <1>2, <1>3
  <1>5. ASSUME ~stale PROVE TimedByClock \/ LastDeadline \/ WrappedOver
    BY <1>0, <1>5 DEF PortalInv
  <1>6. CASE Waits(d)
    <2>1. /\ openFor' = (IF openFor + d < Late THEN openFor + d ELSE Late)
          /\ webPortalAccessed' = webPortalAccessed
      BY <1>6 DEF Waits
    <2>2. openFor' \in 0..Late
      BY <2>1, <1>0, <1>2
    <2>3. TypeOK'
      BY <1>0, <1>1, <1>2, <1>3, <2>1, <2>2 DEF TypeOK
    <2>4. NothingAhead'
      <3>1. ~wrapped' => webPortalAccessed <= millis'
        BY <1>1, <1>2, <1>3, <1>4
      <3> QED BY <3>1, <2>1, <1>0, <1>4 DEF NothingAhead
    <2>5. Prolonged' = Prolonged
      <3>1. ~(webPortalAccessed > Prolonged)
        BY <1>2, <1>3
      <3> QED BY <3>1, <2>1, <1>0 DEF Prolonged
    <2>6. ASSUME ~stale PROVE (TimedByClock \/ LastDeadline \/ WrappedOver)'
      <3>1. CASE TimedByClock
        <4>1. openFor <= Timeout /\ millis <= Prolonged + Timeout /\ Prolonged + Timeout < Wrap
          BY <3>1, <1>0, PollInTime
        <4>2. openFor' = openFor + d /\ openFor + d <= Timeout + MaxPoll
          BY <4>1, <2>1, <1>0, <1>2
        <4>3. CASE millis + d < Wrap
          <5>1. Prolonged + (openFor + d) <= millis + d
            BY <3>1, <1>0, <1>2, <1>3 DEF TimedByClock
          <5>2. millis' = millis + d
            BY <4>3, <1>1
          <5> QED BY <5>1, <5>2, <4>2, <2>5 DEF TimedByClock
        <4>4. CASE millis + d >= Wrap
          <5>1. Prolonged + Timeout \in (Wrap - MaxPoll)..(Wrap - 1)
            BY <4>1, <4>4, <1>0, <1>2, <1>3
          <5>2. wrapped'
            BY <4>4, <1>1
          <5> QED BY <5>1, <5>2, <2>5 DEF LastDeadline
        <4> QED BY <4>3, <4>4, <1>0, <1>2
      <3>2. CASE LastDeadline
        BY <3>2, <2>5, <1>1 DEF LastDeadline
      <3>3. CASE WrappedOver
        <4>1. openFor <= Timeout /\ millis + Wrap <= Prolonged + Timeout
          BY <3>3, <1>0, PollAfterWrap
        <4>2. openFor' = openFor + d /\ openFor + d <= Timeout + MaxPoll
          BY <4>1, <2>1, <1>0, <1>2
        <4>3. millis' = millis + d
          BY <4>1, <1>0, <1>1, <1>2, <1>3
        <4>4. /\ Prolonged + Timeout >= Wrap
              /\ Prolonged + (openFor + d) <= millis + d + Wrap
              /\ millis + d <= Prolonged + Timeout + MaxPoll - Wrap
          BY <3>3, <4>1, <1>0, <1>2, <1>3 DEF WrappedOver
        <4> QED BY <4>2, <4>3, <4>4, <2>5 DEF WrappedOver
      <3> QED BY <3>1, <3>2, <3>3, <1>5, <2>6
    <2> QED BY <2>3, <2>4, <2>6, <1>0 DEF PortalInv
  <1>7. ASSUME NEW e \in 0..d, HandleRequest(d, e) PROVE PortalInv'
    <2>1. webPortalAccessed' = After(e) /\ openFor' = d - e
      BY <1>7 DEF HandleRequest
    <2>2. /\ e \in Nat /\ e <= d /\ e < Wrap
          /\ d - e \in Nat /\ d - e <= MaxPoll
      BY <1>0, <1>7
    <2>3. /\ After(e) \in 0..(Wrap - 1)
          /\ millis + e < Wrap => After(e) = millis + e
          /\ millis + e >= Wrap => After(e) = millis + e - Wrap
      BY <1>0, <2>2, AfterIs
    <2>4. openFor' \in 0..Late
      BY <2>1, <2>2
    <2>5. TypeOK'
      BY <1>0, <1>1, <1>3, <2>1, <2>3, <2>4 DEF TypeOK
    <2>6. NothingAhead'
      <3>1. ~wrapped' => After(e) <= millis'
        BY <1>1, <1>0, <1>2, <1>4, <2>2, <2>3
      <3> QED BY <3>1, <2>1, <1>0, <1>4 DEF NothingAhead
    <2>7. Prolonged' = IF After(e) > Prolonged THEN After(e) ELSE Prolonged
      BY <2>1, <1>0 DEF Prolonged
    <2>8. ASSUME After(e) >= Prolonged
          PROVE  (TimedByClock \/ LastDeadline \/ WrappedOver)'
      <3>1. Prolonged' = After(e)
        BY <2>7, <2>8, <1>3, <2>3
      <3>2. \/ Prolonged' + (d - e) = millis'
            \/ millis + d >= Wrap /\ Prolonged' + (d - e) = millis' + Wrap
        BY <3>1, <1>0, <1>1, <1>2, <2>2, <2>3
      <3>3. \/ Prolonged' + (d - e) = millis'
            \/ wrapped' /\ Prolonged' + (d - e) = millis' + Wrap
        BY <3>2, <1>1
      <3> QED BY <3>3, <2>1, <2>2, <2>5, FreshPortal
    <2>9. ASSUME ~stale, After(e) < Prolonged
          PROVE  (TimedByClock \/ LastDeadline \/ WrappedOver)'
      <3>1. Prolonged' = Prolonged
        BY <2>7, <2>9, <1>3, <2>3
      <3>2. CASE TimedByClock
        <4>1. openFor <= Timeout /\ millis <= Prolonged + Timeout /\ Prolonged + Timeout < Wrap
          BY <3>2, <1>0, PollInTime
        <4>2. Prolonged <= millis
          BY <3>2, <1>2, <1>3 DEF TimedByClock
        <4>3. millis + e >= Wrap
          BY <4>2, <2>9, <2>2, <2>3, <1>2, <1>3
        <4>4. millis + d >= Wrap
          BY <4>3, <2>2, <1>0, <1>2
        <4>5. Prolonged + Timeout \in (Wrap - MaxPoll)..(Wrap - 1)
          BY <4>1, <4>4, <1>0, <1>2, <1>3
        <4>6. wrapped'
          BY <4>4, <1>1
        <4> QED BY <4>5, <4>6, <3>1 DEF LastDeadline
      <3>3. CASE LastDeadline
        BY <3>3, <3>1, <1>1 DEF LastDeadline
      <3>4. CASE WrappedOver
        <4>1. millis + Wrap <= Prolonged + Timeout
          BY <3>4, <1>0, PollAfterWrap
        <4>2. millis' = millis + d
          BY <4>1, <1>0, <1>1, <1>2, <1>3
        <4>3. /\ Prolonged + Timeout >= Wrap
              /\ Prolonged + (d - e) <= millis + d + Wrap
              /\ millis + d <= Prolonged + Timeout + MaxPoll - Wrap
              /\ d - e <= Timeout + MaxPoll
          BY <3>4, <4>1, <2>2, <1>0, <1>2, <1>3 DEF WrappedOver
        <4> QED BY <4>2, <4>3, <3>1, <2>1 DEF WrappedOver
      <3> QED BY <3>2, <3>3, <3>4, <1>5, <2>9
    <2>10. After(e) >= Prolonged \/ After(e) < Prolonged
      BY <2>3, <1>3
    <2> QED BY <2>5, <2>6, <2>8, <2>9, <2>10, <1>0 DEF PortalInv
  <1> QED BY <1>6, <1>7

\* A portal that has closed keeps the types and the clock's order.
LEMMA ShutdownKeeps ==
  ASSUME PortalConstants, NEW last \in 0..(Wrap - 1), Shutdown(last),
         millis' \in 0..(Wrap - 1), wrapped' \in BOOLEAN,
         configPortalStart' \in 0..(Wrap - 1),
         ~wrapped' => configPortalStart' <= millis' /\ last <= millis'
  PROVE  PortalInv'
  <1>1. /\ configPortalActive' = FALSE /\ webPortalAccessed' \in {last, millis'}
        /\ openFor' = 0 /\ stale' = FALSE
    BY DEF Shutdown
  <1>2. 0 \in 0..Late /\ millis' <= millis'
    BY Numbers
  <1>3. TypeOK'
    BY <1>1, <1>2 DEF TypeOK
  <1>4. NothingAhead'
    BY <1>1, <1>2 DEF NothingAhead
  <1> QED BY <1>1, <1>3, <1>4 DEF PortalInv

\* The portal closes: by its timer, by the exit page, by a form.
LEMMA ClosedKeeps ==
  ASSUME PortalConstants, PortalInv,
         \/ TimesOut
         \/ \E d \in Polls : Exits(d) \/ \E c \in {0} \cup Pauses : Configured(d, c)
  PROVE  PortalInv'
  <1> USE Numbers
  <1>0. TypeOK
    BY DEF PortalInv
  <1>1. /\ webPortalAccessed \in 0..(Wrap - 1) /\ configPortalStart \in 0..(Wrap - 1)
        /\ millis \in 0..(Wrap - 1) /\ wrapped \in BOOLEAN
    BY <1>0 DEF TypeOK
  <1>2. /\ Prolonged \in 0..(Wrap - 1)
        /\ Prolonged \in {configPortalStart, webPortalAccessed}
    BY <1>0, ProlongedIs
  <1>3. CASE TimesOut
    <2>1. /\ configPortalStart' = Prolonged /\ Shutdown(webPortalAccessed)
          /\ millis' = millis /\ wrapped' = wrapped
      BY <1>3 DEF TimesOut
    <2>2. ~wrapped => Prolonged <= millis /\ webPortalAccessed <= millis
      BY <1>2 DEF PortalInv, NothingAhead
    <2> QED BY <2>1, <2>2, <1>1, <1>2, ShutdownKeeps
  <1>4. ASSUME NEW d \in Polls, Exits(d) PROVE PortalInv'
    <2>1. d \in Nat /\ d < Wrap
      OBVIOUS
    <2>2. /\ Elapse(d) /\ Shutdown(After(d))
          /\ configPortalStart' = IF After(d) > Prolonged THEN After(d) ELSE Prolonged
      BY <1>4 DEF Exits
    <2>3. /\ millis' \in 0..(Wrap - 1) /\ After(d) = millis' /\ wrapped' \in BOOLEAN
          /\ millis + d < Wrap => millis' = millis + d
          /\ millis + d >= Wrap => wrapped'
          /\ wrapped => wrapped'
      BY <1>0, <2>1, <2>2, ElapseIs
    <2>4. configPortalStart' \in 0..(Wrap - 1)
      BY <2>2, <2>3, <1>2
    <2>5. ASSUME ~wrapped' PROVE configPortalStart' <= millis'
      <3>1. ~wrapped /\ millis' = millis + d
        BY <2>1, <2>3, <2>5, <1>1
      <3>2. Prolonged <= millis
        BY <3>1, <1>2 DEF PortalInv, NothingAhead
      <3>3. Prolonged <= millis'
        BY <3>1, <3>2, <2>1, <1>1, <1>2
      <3> QED BY <3>3, <2>2, <2>3, <1>2
    <2>6. After(d) <= millis' /\ After(d) \in 0..(Wrap - 1)
      BY <2>3
    <2> QED BY <2>2, <2>3, <2>4, <2>5, <2>6, ShutdownKeeps
  <1>5. ASSUME NEW d \in Polls, NEW c \in {0} \cup Pauses, Configured(d, c) PROVE PortalInv'
    <2>1. /\ d \in Nat /\ d < Wrap /\ d \in {0} \cup Polls /\ c \in Nat
          /\ d + c \in Nat /\ d + c < Wrap
      OBVIOUS
    <2>2. Elapse(d + c) /\ Shutdown(After(d)) /\ configPortalStart' = Prolonged
      BY <1>5 DEF Configured
    <2>3. /\ millis' \in 0..(Wrap - 1) /\ wrapped' \in BOOLEAN
          /\ millis + (d + c) < Wrap => millis' = millis + (d + c)
          /\ millis + (d + c) >= Wrap => wrapped'
          /\ wrapped => wrapped'
      BY <1>0, <2>1, <2>2, ElapseIs
    <2>4. /\ After(d) \in 0..(Wrap - 1)
          /\ millis + d < Wrap => After(d) = millis + d
      BY <1>0, <2>1, AfterIs
    <2>5. ASSUME ~wrapped' PROVE configPortalStart' <= millis' /\ After(d) <= millis'
      <3>1. ~wrapped /\ millis' = millis + (d + c) /\ millis + (d + c) < Wrap
        BY <2>1, <2>3, <2>5, <1>1
      <3>2. Prolonged <= millis
        BY <3>1, <1>2 DEF PortalInv, NothingAhead
      <3>3. Prolonged <= millis' /\ After(d) <= millis'
        BY <3>1, <3>2, <2>1, <2>4, <1>1, <1>2
      <3> QED BY <3>3, <2>2
    <2> QED BY <2>2, <2>3, <2>4, <2>5, <1>2, ShutdownKeeps
  <1> QED BY <1>3, <1>4, <1>5

\* Time passes outside a portal.
LEMMA ElsewhereKeeps ==
  ASSUME PortalConstants, PortalInv, Elsewhere
  PROVE  PortalInv'
  <1> USE Numbers
  <1>0. TypeOK
    BY DEF PortalInv
  <1>1. /\ configPortalActive' = FALSE /\ configPortalStart' = configPortalStart
        /\ webPortalAccessed' = webPortalAccessed /\ openFor' = openFor /\ stale' = stale
    BY <1>0 DEF Elsewhere, TypeOK
  <1>2. PICK d \in Pauses : Elapse(d)
    BY DEF Elsewhere
  <1>3. d \in Nat /\ d < Wrap
    <2>1. d \in {0} \cup Pauses /\ 0 \in {0} \cup Polls
      OBVIOUS
    <2>2. d \in Nat /\ d + 0 < Wrap
      BY <2>1
    <2> QED BY <2>2
  <1>4. /\ millis' \in 0..(Wrap - 1) /\ wrapped' \in BOOLEAN
        /\ millis + d < Wrap => millis' = millis + d
        /\ millis + d >= Wrap => wrapped'
        /\ wrapped => wrapped'
    BY <1>0, <1>2, <1>3, ElapseIs
  <1>5. TypeOK'
    BY <1>0, <1>1, <1>4 DEF TypeOK
  <1>6. ASSUME ~wrapped'
        PROVE  configPortalStart <= millis' /\ webPortalAccessed <= millis' /\ ~stale
    <2>1. /\ webPortalAccessed \in 0..(Wrap - 1) /\ configPortalStart \in 0..(Wrap - 1)
          /\ millis \in 0..(Wrap - 1)
      BY <1>0 DEF TypeOK
    <2>2. ~wrapped /\ millis' = millis + d
      BY <2>1, <1>3, <1>4, <1>6
    <2>3. configPortalStart <= millis /\ webPortalAccessed <= millis /\ ~stale
      BY <2>2 DEF PortalInv, NothingAhead
    <2>4. configPortalStart <= millis' /\ webPortalAccessed <= millis'
      BY <2>1, <2>2, <2>3, <1>3
    <2> QED BY <2>3, <2>4
  <1>7. NothingAhead'
    BY <1>1, <1>6 DEF NothingAhead
  <1> QED BY <1>1, <1>5, <1>7 DEF PortalInv

\* The satellite boots with a portal that satisfies the invariant.
LEMMA BootKeeps ==
  ASSUME PortalConstants
  PROVE  (Init => PortalInv) /\ (Restart => PortalInv')
  <1>1. 0 \in 0..(Wrap - 1) /\ 0 \in 0..Late /\ 0 <= 0
    BY Numbers
  <1>2. Init => PortalInv
    BY <1>1 DEF Init, PortalInv, TypeOK, NothingAhead
  <1>3. Restart => PortalInv'
    BY <1>1 DEF Restart, PortalInv, TypeOK, NothingAhead
  <1> QED BY <1>2, <1>3

\* The invariant is inductive.
LEMMA PortalStep ==
  ASSUME PortalConstants, PortalInv, [Next]_vars
  PROVE  PortalInv'
  <1>1. CASE UNCHANGED vars
    BY <1>1 DEF vars, PortalInv, TypeOK, NothingAhead, TimedByClock, LastDeadline,
                WrappedOver, Prolonged
  <1>2. CASE \E d \in {0} \cup Pauses, s \in {0} \cup Polls : StartConfigPortal(d, s)
    BY <1>2, StartKeeps
  <1>3. CASE \E d \in Polls : Waits(d) \/ \E e \in 0..d : HandleRequest(d, e)
    BY <1>3, PassKeeps
  <1>4. CASE \/ TimesOut
             \/ \E d \in Polls : Exits(d) \/ \E c \in {0} \cup Pauses : Configured(d, c)
    BY <1>4, ClosedKeeps
  <1>5. CASE Elsewhere
    BY <1>5, ElsewhereKeeps
  <1>6. CASE Restart
    BY <1>6, BootKeeps
  <1> QED BY <1>1, <1>2, <1>3, <1>4, <1>5, <1>6 DEF Next

-----------------------------------------------------------------------------
(* The theorems.                                                           *)

\* In every behaviour every state satisfies the invariant.
LEMMA PortalAlways ==
  ASSUME PortalConstants
  PROVE  Spec => []PortalInv
  <1>1. PortalInv /\ [Next]_vars => PortalInv'
    BY PortalStep
  <1>2. Init => PortalInv
    BY BootKeeps
  <1> QED BY <1>1, <1>2, PTL DEF Spec

\* In a state of the invariant an open portal is on time or may miss its end.
LEMMA InvOnTime == PortalInv => OnTimeUnlessMissed
  <1> SUFFICES ASSUME PortalInv, configPortalActive, ~MayMissDeadline
               PROVE  openFor <= Timeout + MaxPoll
    BY DEF OnTimeUnlessMissed
  <1>1. ~stale
    BY DEF PortalInv, NothingAhead, MayMissDeadline
  <1>2. TimedByClock \/ LastDeadline \/ WrappedOver
    BY <1>1 DEF PortalInv
  <1>3. ~LastDeadline
    BY DEF LastDeadline, MayMissDeadline
  <1> QED BY <1>2, <1>3 DEF TimedByClock, WrappedOver

\* The clock is never further on than the time passed since it was read.
LEMMA ClockIsBehind ==
  ASSUME PortalConstants, TypeOK, NEW d \in Nat, NEW e \in Nat, e <= d, d < Wrap
  PROVE  /\ After(d) <= After(e) + (d - e)
         /\ After(d) <= millis + d
  <1>1. millis \in Nat /\ Wrap \in Nat /\ millis < Wrap /\ e < Wrap
    BY Numbers DEF TypeOK
  <1>2. /\ After(d) \in 0..(Wrap - 1)
        /\ millis + d < Wrap => After(d) = millis + d
        /\ millis + d >= Wrap => After(d) = millis + d - Wrap
    BY AfterIs
  <1>3. /\ After(e) \in 0..(Wrap - 1)
        /\ millis + e < Wrap => After(e) = millis + e
        /\ millis + e >= Wrap => After(e) = millis + e - Wrap
    BY <1>1, AfterIs
  <1> QED BY <1>1, <1>2, <1>3

\* Every step keeps the portal patient.
LEMMA PatientStep ==
  ASSUME PortalConstants, TypeOK, TypeOK', Patient, [Next]_vars
  PROVE  Patient'
  <1> USE Numbers
  <1> SUFFICES ASSUME configPortalActive', openFor' < Late
               PROVE  millis' <= Prolonged' + openFor'
    BY DEF Patient
  <1>0. /\ millis \in Nat /\ openFor \in 0..Late /\ millis' \in Nat /\ openFor' \in 0..Late
        /\ Prolonged \in Nat
    BY ProlongedIs DEF TypeOK
  <1>1. /\ Prolonged' \in Nat /\ configPortalStart' \in Nat /\ webPortalAccessed' \in Nat
        /\ Prolonged' >= configPortalStart' /\ Prolonged' >= webPortalAccessed'
    <2>1. /\ configPortalStart' \in Nat /\ webPortalAccessed' \in Nat
          /\ Prolonged' = IF webPortalAccessed' > configPortalStart'
                          THEN webPortalAccessed' ELSE configPortalStart'
      BY DEF TypeOK, Prolonged
    <2> QED BY <2>1
  <1>2. CASE UNCHANGED vars
    BY <1>2 DEF vars, Patient, Prolonged
  <1>3. ASSUME NEW d \in {0} \cup Pauses, NEW s \in {0} \cup Polls, StartConfigPortal(d, s)
        PROVE  millis' <= Prolonged' + openFor'
    <2>1. millis' = After(d + s) /\ configPortalStart' = After(d) /\ openFor' = s
      BY <1>3 DEF StartConfigPortal, Elapse
    <2>2. d \in Nat /\ s \in Nat /\ d + s \in Nat /\ d <= d + s /\ d + s < Wrap
      OBVIOUS
    <2>3. After(d + s) <= After(d) + ((d + s) - d)
      BY <2>2, ClockIsBehind
    <2>4. millis' <= configPortalStart' + s
      BY <2>1, <2>2, <2>3, <1>1
    <2> QED BY <2>1, <2>2, <2>4, <1>0, <1>1
  <1>4. ASSUME NEW d \in Polls, NEW e \in 0..d, HandleRequest(d, e)
        PROVE  millis' <= Prolonged' + openFor'
    <2>1. millis' = After(d) /\ webPortalAccessed' = After(e) /\ openFor' = d - e
      BY <1>4 DEF HandleRequest, Polling, Elapse
    <2>2. d \in Nat /\ e \in Nat /\ e <= d /\ d < Wrap /\ d - e \in Nat
      OBVIOUS
    <2>3. After(d) <= After(e) + (d - e)
      BY <2>2, ClockIsBehind
    <2> QED BY <2>1, <2>2, <2>3, <1>0, <1>1
  <1>5. ASSUME NEW d \in Polls, Waits(d) PROVE millis' <= Prolonged' + openFor'
    <2>1. /\ configPortalActive /\ configPortalStart' = Prolonged /\ millis' = After(d)
          /\ openFor' = (IF openFor + d < Late THEN openFor + d ELSE Late)
      BY <1>5 DEF Waits, Polling, Elapse
    <2>2. d \in Nat /\ 0 < d /\ d < Wrap /\ 0 <= d
      OBVIOUS
    <2>3. openFor < Late /\ openFor' = openFor + d
      BY <2>1, <2>2, <1>0
    <2>4. millis <= Prolonged + openFor
      BY <2>1, <2>3 DEF Patient
    <2>5. millis' <= millis + d
      BY <2>1, <2>2, ClockIsBehind
    <2>6. Prolonged' >= Prolonged
      BY <2>1, <1>1
    <2>7. \A m, n, p, q, o, x \in Nat : m <= p + o /\ n <= m + x /\ q >= p => n <= q + (o + x)
      OBVIOUS
    <2>8. openFor \in Nat
      BY <1>0
    <2>9. millis' <= Prolonged' + (openFor + d)
      BY <2>2, <2>4, <2>5, <2>6, <2>7, <2>8, <1>0, <1>1
    <2> QED BY <2>3, <2>9
  <1>6. CASE \/ TimesOut \/ Restart \/ Elsewhere
             \/ \E d \in Polls : Exits(d) \/ \E c \in {0} \cup Pauses : Configured(d, c)
    BY <1>6 DEF TimesOut, Elsewhere, Restart, Configured, Exits, Shutdown
  <1> QED BY <1>2, <1>3, <1>4, <1>5, <1>6 DEF Next

\* The timer closes a portal early only if the sum of its deadline overflows,
\* whatever visits, wraps and earlier portals there were.
THEOREM PortalGivesFullTimeout ==
  ASSUME PortalConstants
  PROVE  Spec => FullTimeout
  <1>1. Init => Patient
    BY DEF Init, Patient
  <1>2. PortalInv /\ PortalInv' /\ Patient /\ [Next]_vars => Patient'
    BY PatientStep DEF PortalInv
  <1>3. PortalInv /\ Patient
          => [TimesOut => openFor > Timeout \/ Prolonged + Timeout >= Wrap]_vars
    <2> SUFFICES ASSUME PortalInv, Patient, TimesOut, Prolonged + Timeout < Wrap
                 PROVE  openFor > Timeout
      <3>1. PortalInv => Prolonged + Timeout \in Nat /\ Wrap \in Nat
        BY ProlongedIs, Numbers DEF PortalInv
      <3> QED BY <3>1
    <2> USE Numbers
    <2>1. /\ Prolonged \in Nat /\ Prolonged < Wrap /\ millis \in Nat /\ openFor \in Nat
          /\ openFor <= Late
      BY ProlongedIs DEF PortalInv, TypeOK
    <2>2. (Prolonged + Timeout) % Wrap = Prolonged + Timeout
      <3>1. Timeout \in Nat /\ Timeout < Wrap
        OBVIOUS
      <3> QED BY <2>1, <3>1, WrappedSum
    <2>3. millis > Prolonged + Timeout
      BY <2>2 DEF TimesOut, Expired
    <2>4. CASE openFor < Late
      <3>1. millis <= Prolonged + openFor
        BY <2>4 DEF TimesOut, Patient
      <3> QED BY <3>1, <2>1, <2>3
    <2>5. CASE openFor = Late
      BY <2>5
    <2> QED BY <2>1, <2>4, <2>5
  <1> QED BY <1>1, <1>2, <1>3, PortalAlways, PTL DEF Spec, FullTimeout

\* A portal that nobody visits closes one pass of its loop after its timeout,
\* through any number of wraps of millis(), portals and visits and for passes of
\* any lengths, unless a pass at the end of a cycle may have jumped over its
\* deadline or it began with an access that lay ahead of the clock.
THEOREM PortalOnTimeUnlessWrapHit ==
  ASSUME PortalConstants
  PROVE  Spec => []OnTimeUnlessMissed
  BY PortalAlways, InvOnTime, PTL

=============================================================================
