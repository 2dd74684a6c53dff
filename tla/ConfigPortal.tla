---------------------------- MODULE ConfigPortal ----------------------------
(***************************************************************************)
(* The blocking configuration portal of WiFiManager: startConfigPortal,    *)
(* its loop over configPortalHasTimeout and processConfigPortal, and the   *)
(* timestamps they compare.  millis() is unsigned and counts modulo Wrap;  *)
(* the sum _configPortalStart + _configPortalTimeout wraps in the same way *)
(* but the comparisons are plain ones.  The loop only looks at the clock   *)
(* once per pass, and a pass may take any of the times in Polls.           *)
(*                                                                         *)
(* wrapped, stale and openFor are history: whether millis() has wrapped    *)
(* since the boot, whether the open portal began with an access that lies  *)
(* ahead of the clock, and how long the open portal has had neither a      *)
(* visitor nor an end.                                                     *)
(* Mission implements this specification: its portal steps are these       *)
(* actions, everything else it does is a pause or a restart.               *)
(***************************************************************************)
EXTENDS Naturals

CONSTANTS
    Wrap,      \* millis() counts modulo Wrap
    Timeout,   \* _configPortalTimeout
    Polls,     \* how long one pass of the loop may take
    Pauses     \* how long the satellite may do something else (0 apart)

MaxPoll == CHOOSE d \in Polls : \A e \in Polls : e <= d

\* The timeout and a pass fit in the cycle, and so do a pause and a pass.
PortalConstants ==
    /\ Wrap \in Nat /\ Timeout \in Nat /\ 0 < Timeout
    /\ Polls \subseteq Nat \ {0}
    /\ MaxPoll \in Polls /\ \A d \in Polls : d <= MaxPoll
    /\ Timeout + MaxPoll < Wrap
    /\ Pauses \subseteq Nat \ {0} /\ \A d \in Pauses : d + MaxPoll < Wrap

VARIABLES
    millis,
    configPortalActive,
    configPortalStart,   \* _configPortalStart
    webPortalAccessed,   \* _webPortalAccessed: kept when a portal closes
    openFor,
    wrapped,
    stale

vars == <<millis, configPortalActive, configPortalStart, webPortalAccessed,
          openFor, wrapped, stale>>

\* A portal that has been open this long is late.
Late == Timeout + MaxPoll + 1

TypeOK ==
    /\ millis \in 0..(Wrap - 1)
    /\ configPortalActive \in BOOLEAN
    /\ configPortalStart \in 0..(Wrap - 1)
    /\ webPortalAccessed \in 0..(Wrap - 1)
    /\ openFor \in 0..Late
    /\ wrapped \in BOOLEAN /\ stale \in BOOLEAN

Init ==
    /\ millis = 0
    /\ configPortalActive = FALSE
    /\ configPortalStart = 0 /\ webPortalAccessed = 0
    /\ openFor = 0
    /\ wrapped = FALSE /\ stale = FALSE

\* millis() d time units from now.
After(d) == (millis + d) % Wrap

Elapse(d) ==
    /\ millis' = After(d)
    /\ wrapped' = (wrapped \/ millis + d >= Wrap)

-----------------------------------------------------------------------------

\* The satellite does something else.
Elsewhere ==
    /\ ~configPortalActive
    /\ \E d \in Pauses : Elapse(d)
    /\ UNCHANGED <<configPortalActive, configPortalStart, webPortalAccessed,
                   openFor, stale>>

\* startConfigPortal, d after the attempt to connect began: the timer starts.
\* The loop first looks at it when startAP and the servers are up, s later.
StartConfigPortal(d, s) ==
    /\ ~configPortalActive
    /\ configPortalActive' = TRUE
    /\ Elapse(d + s)
    /\ configPortalStart' = After(d)
    /\ openFor' = s
    /\ stale' = (webPortalAccessed > After(d))
    /\ UNCHANGED webPortalAccessed

\* Mutant: every poll prolongs the portal.
AlwaysProlonged == millis

\* _webClientCheck: the last access prolongs the portal.
Prolonged ==
    IF webPortalAccessed > configPortalStart
    THEN webPortalAccessed ELSE configPortalStart

\* millis() > _configPortalStart + _configPortalTimeout, the sum modulo Wrap.
Expired(start) == millis > (start + Timeout) % Wrap

\* shutdownConfigPortal answers one request more, if there is one.
Shutdown(last) ==
    /\ configPortalActive' = FALSE
    /\ webPortalAccessed' \in {last, millis'}
    /\ openFor' = 0 /\ stale' = FALSE

\* configPortalHasTimeout is true: the loop ends.
TimesOut ==
    /\ configPortalActive
    /\ Expired(Prolonged)
    /\ configPortalStart' = Prolonged
    /\ UNCHANGED <<millis, wrapped>>
    /\ Shutdown(webPortalAccessed)

\* It is false: processConfigPortal looks for a request, for a pass of d.
Polling(d) ==
    /\ configPortalActive
    /\ ~Expired(Prolonged)
    /\ configPortalStart' = Prolonged
    /\ Elapse(d)

\* There is none, the loop goes on.
Waits(d) ==
    /\ Polling(d)
    /\ openFor' = IF openFor + d < Late THEN openFor + d ELSE Late
    /\ UNCHANGED <<configPortalActive, webPortalAccessed, stale>>

\* A page is requested e into the pass: handleRequest notes the time.
HandleRequest(d, e) ==
    /\ Polling(d)
    /\ webPortalAccessed' = After(e)
    /\ openFor' = d - e
    /\ UNCHANGED <<configPortalActive, stale>>

\* The page is the exit: the next look at the clock ends the loop either way.
Exits(d) ==
    /\ configPortalActive
    /\ ~Expired(Prolonged)
    /\ Elapse(d)
    /\ configPortalStart' = IF After(d) > Prolonged THEN After(d) ELSE Prolonged
    /\ Shutdown(After(d))

\* The form is submitted, d into the pass: the loop ends after an attempt of
\* length c to connect (0: with no name there is none).
Configured(d, c) ==
    /\ configPortalActive
    /\ ~Expired(Prolonged)
    /\ configPortalStart' = Prolonged
    /\ Elapse(d + c)
    /\ Shutdown(After(d))

\* The satellite restarts: millis() and the object wifiManager start anew.
Restart ==
    /\ millis' = 0
    /\ configPortalActive' = FALSE
    /\ configPortalStart' = 0 /\ webPortalAccessed' = 0
    /\ openFor' = 0
    /\ wrapped' = FALSE /\ stale' = FALSE

Next ==
    \/ Elsewhere
    \/ \E d \in {0} \cup Pauses, s \in {0} \cup Polls : StartConfigPortal(d, s)
    \/ \E d \in Polls :
        \/ Waits(d) \/ Exits(d)
        \/ \E e \in 0..d : HandleRequest(d, e)
        \/ \E c \in {0} \cup Pauses : Configured(d, c)
    \/ TimesOut
    \/ Restart

Spec == Init /\ [][Next]_vars

-----------------------------------------------------------------------------
(* Properties.                                                             *)

\* After a wrap of millis() the timer may miss the end of a portal: when the
\* last visit of an earlier portal lies ahead of the clock, or when the deadline
\* is so near the end of the cycle that one pass of the loop may jump over it.
MayMissDeadline ==
    wrapped /\ (stale \/ Prolonged + Timeout \in (Wrap - MaxPoll)..(Wrap - 1))

\* A portal without visitors closes one pass of the loop after its timeout,
\* however often millis() has wrapped and portals were opened and visited
\* before, and however long the passes are: these two are the only ways to miss
\* the deadline, and neither exists before the first wrap, 49.7 days after the
\* boot.
OnTimeUnlessMissed ==
    configPortalActive /\ ~MayMissDeadline => openFor <= Timeout + MaxPoll

\* A visitor who opens the portal, or a page of it, has the whole timeout: the
\* loop only closes it sooner when the sum of start and timeout overflows, in
\* the last Timeout units of a cycle of millis().
FullTimeout ==
    [][TimesOut => openFor > Timeout \/ Prolonged + Timeout >= Wrap]_vars

\* setConfigPortalTimeout: the loop ends although nobody sets anything up.
PortalOnTime == configPortalActive => openFor <= Timeout + MaxPoll

=============================================================================
