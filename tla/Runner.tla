------------------------------- MODULE Runner --------------------------------
(***************************************************************************)
(* The daemon's event loop (src/internal/controller/runner.go): one        *)
(* goroutine that selects over Herdr's event stream, three timers and the  *)
(* context, and between two selects runs one reconciliation or blocks in   *)
(* reconnect.                                                              *)
(*                                                                         *)
(* Time is counted in units and passes whatever the goroutine is doing.  A *)
(* timer is the units it has left and the one-place channel its firing     *)
(* fills.  go.mod asks for Go 1.22, whose Stop and Reset do not empty that *)
(* channel.                                                                *)
(***************************************************************************)
EXTENDS Naturals

CONSTANTS
    Configurations,  \* the intervals a configuration may ask for
    Stopped,         \* a timer that is not armed
    MaxQueue,        \* bound: events sent and not yet received
    HerdrComesBack,  \* whether only MaxFailures resubscriptions may fail
    MaxFailures      \* bound on failing resubscriptions, if HerdrComesBack

ASSUME ConstantsAssumption ==
    /\ Configurations \subseteq [poll : Nat \ {0}, debounce : Nat]
    /\ Configurations # {}
    /\ Stopped \notin Nat
    /\ MaxQueue \in Nat \ {0}
    /\ HerdrComesBack \in BOOLEAN
    /\ MaxFailures \in Nat

VARIABLES
    pc,          \* where the goroutine is
    reason,      \* why the current or latest refresh was asked for
    open,        \* whether events is a stream (nil otherwise)
    queue,       \* events Herdr sent on it that the loop has not received
    hungUp,      \* whether Herdr closed it
    warmingUp,   \* the loop's flag
    dirty,       \* the loop's flag
    settle,      \* the replay warm-up timer
    debounce,    \* the event debounce timer
    ticker,      \* the poll ticker
    intervals,   \* the loop's poll interval and refresh debounce
    configured,  \* those of the current configuration
    cancelled,   \* whether the context is done
    failures     \* counts failed resubscriptions

loop   == <<warmingUp, dirty>>
timers == <<settle, debounce, ticker>>
stream == <<open, queue, hungUp>>
vars   == <<pc, reason, loop, timers, stream, intervals, configured, cancelled, failures>>

Reasons == {"none", "subscribed", "reconnected", "event", "poll"}

\* No timer runs longer than the longest of these.
Units == {u \in Nat : \E c \in Configurations : u <= c.poll \/ u <= c.debounce}

Timer == [left : (Units \ {0}) \cup {Stopped}, fired : BOOLEAN]

TypeOK ==
    /\ pc \in {"subscribe", "refresh", "select", "backoff", "resubscribe", "returned"}
    /\ reason \in Reasons
    /\ open \in BOOLEAN
    /\ queue \in 0..MaxQueue
    /\ hungUp \in BOOLEAN
    /\ warmingUp \in BOOLEAN
    /\ dirty \in BOOLEAN
    /\ settle \in Timer
    /\ debounce \in Timer
    /\ ticker \in Timer
    /\ intervals \in Configurations
    /\ configured \in Configurations
    /\ cancelled \in BOOLEAN
    /\ failures \in 0..MaxFailures

(***************************************************************************)
(* Timers.  A timer of zero units fires as it is set.                      *)
(***************************************************************************)
Reset(timer, units) ==
    IF units = 0 THEN [left |-> Stopped, fired |-> TRUE]
                 ELSE [timer EXCEPT !.left = units]

Stop(timer) == [timer EXCEPT !.left = Stopped]

Drained(timer) == [timer EXCEPT !.fired = FALSE]

\* One unit later; a timer that runs out is set to again.
Later(timer, again) ==
    CASE timer.left = Stopped -> timer
      [] timer.left = 1       -> [left |-> again, fired |-> TRUE]
      [] OTHER                -> [timer EXCEPT !.left = @ - 1]

Pending(timer) == timer.fired \/ timer.left # Stopped

(***************************************************************************)
(* Run has made its timers, settle counting from here, and is about to     *)
(* subscribe.  The debounce timer is made and at once stopped; one of zero *)
(* units may have fired in between.                                        *)
(***************************************************************************)
Init ==
    /\ pc = "subscribe"
    /\ reason = "none"
    /\ open = FALSE
    /\ queue = 0
    /\ hungUp = FALSE
    /\ warmingUp = FALSE
    /\ dirty = FALSE
    /\ configured \in Configurations
    /\ intervals = configured
    /\ settle = [left |-> intervals.poll, fired |-> FALSE]
    /\ debounce \in [left : {Stopped}, fired : {f \in BOOLEAN : f => intervals.debounce = 0}]
    /\ ticker = [left |-> intervals.poll, fired |-> FALSE]
    /\ cancelled = FALSE
    /\ failures = 0

-----------------------------------------------------------------------------
(* Time, the user and Herdr.                                               *)

PassTime ==
    /\ settle' = Later(settle, Stopped)
    /\ debounce' = Later(debounce, Stopped)
    /\ ticker' = Later(ticker, intervals.poll)
    /\ UNCHANGED <<pc, reason, loop, stream, intervals, configured, cancelled, failures>>

Cancel ==
    /\ ~cancelled
    /\ cancelled' = TRUE
    /\ UNCHANGED <<pc, reason, loop, timers, stream, intervals, configured, failures>>

SendEvent ==
    /\ open
    /\ ~hungUp
    /\ queue < MaxQueue
    /\ queue' = queue + 1
    /\ UNCHANGED <<pc, reason, loop, timers, open, hungUp, intervals, configured, cancelled, failures>>

\* Herdr goes away, or the client gives the stream up once the context is done.
HangUp ==
    /\ open
    /\ ~hungUp
    /\ hungUp' = TRUE
    /\ UNCHANGED <<pc, reason, loop, timers, open, queue, intervals, configured, cancelled, failures>>

-----------------------------------------------------------------------------
(* Subscribing.                                                            *)

NewStream ==
    /\ open' = TRUE
    /\ queue' = 0
    /\ hungUp' = FALSE
    /\ warmingUp' = TRUE

Refresh(why) == pc' = "refresh" /\ reason' = why

Subscribe ==
    /\ pc = "subscribe"
    /\ ~cancelled
    /\ NewStream
    /\ Refresh("subscribed")
    /\ UNCHANGED <<dirty, timers, intervals, configured, cancelled, failures>>

\* Poll-only: events stays nil for the rest of the run.
SubscribeFails ==
    /\ pc = "subscribe"
    /\ pc' = "select"
    /\ UNCHANGED <<reason, loop, timers, stream, intervals, configured, cancelled, failures>>

\* A plausible mistake: carry the old stream's pending refresh over.
ResubscribeStillDirty ==
    /\ pc = "resubscribe"
    /\ ~cancelled
    /\ NewStream
    /\ Refresh("reconnected")
    /\ UNCHANGED <<dirty, timers, intervals, configured, cancelled, failures>>

Resubscribe ==
    /\ pc = "resubscribe"
    /\ ~cancelled
    /\ NewStream
    /\ dirty' = FALSE
    /\ debounce' = Stop(debounce)
    /\ Refresh("reconnected")
    /\ UNCHANGED <<settle, ticker, intervals, configured, cancelled, failures>>

ResubscribeFails ==
    /\ pc = "resubscribe"
    /\ ~cancelled
    /\ HerdrComesBack => failures < MaxFailures
    /\ failures' = IF HerdrComesBack THEN failures + 1 ELSE failures
    /\ pc' = "backoff"
    /\ UNCHANGED <<reason, loop, timers, stream, intervals, configured, cancelled>>

\* The sleeper's timer fires; the schedule of delays is left out.
BackoffOver ==
    /\ pc = "backoff"
    /\ ~cancelled
    /\ pc' = "resubscribe"
    /\ UNCHANGED <<reason, loop, timers, stream, intervals, configured, cancelled, failures>>

\* A plausible mistake: sleep on although the context is done.
SleepsOn ==
    /\ pc \in {"backoff", "resubscribe"}
    /\ cancelled
    /\ pc' = "backoff"
    /\ UNCHANGED <<reason, loop, timers, stream, intervals, configured, cancelled, failures>>

ReconnectCancelled ==
    /\ pc \in {"backoff", "resubscribe"}
    /\ cancelled
    /\ pc' = "returned"
    /\ UNCHANGED <<reason, loop, timers, stream, intervals, configured, cancelled, failures>>

-----------------------------------------------------------------------------
(* Refreshing.  Reconcile re-reads the configuration file, so the current  *)
(* configuration may be another one when it returns.                       *)

Retimed(timer, c) == IF c.poll # intervals.poll THEN Reset(timer, c.poll) ELSE timer

\* A plausible mistake: compare and retime the poll interval only.
NoteIntervals(c) ==
    /\ intervals' = [intervals EXCEPT !.poll = c.poll]
    /\ ticker' = Retimed(ticker, c)
    /\ settle' = Retimed(settle, c)

\* A new debounce serves the next event; one under way keeps its time.
ApplyIntervals(c) ==
    /\ intervals' = c
    /\ ticker' = Retimed(ticker, c)
    /\ settle' = Retimed(settle, c)

\* A plausible mistake: forget to start the warm-up timer.
RefreshWithoutSettle ==
    /\ pc = "refresh"
    /\ reason = "subscribed"
    /\ configured' \in Configurations
    /\ settle' = Stop(settle)
    /\ pc' = "select"
    /\ UNCHANGED <<reason, loop, debounce, ticker, stream, intervals, cancelled, failures>>

RefreshSubscribed ==
    /\ pc = "refresh"
    /\ reason = "subscribed"
    /\ configured' \in Configurations
    /\ settle' = Reset(settle, intervals.poll)
    /\ pc' = "select"
    /\ UNCHANGED <<reason, loop, debounce, ticker, stream, intervals, cancelled, failures>>

RefreshReconnected ==
    /\ pc = "refresh"
    /\ reason = "reconnected"
    /\ configured' \in Configurations
    /\ intervals' = configured'
    /\ ticker' = Retimed(ticker, configured')
    /\ settle' = Reset(settle, configured'.poll)
    /\ pc' = "select"
    /\ UNCHANGED <<reason, loop, debounce, stream, cancelled, failures>>

RefreshDone ==
    /\ pc = "refresh"
    /\ reason \in {"event", "poll"}
    /\ configured' \in Configurations
    /\ ApplyIntervals(configured')
    /\ pc' = "select"
    /\ UNCHANGED <<reason, loop, debounce, stream, cancelled, failures>>

-----------------------------------------------------------------------------
(* The cases of the select, each taken only when its channel is ready.     *)

ContextDone ==
    /\ pc = "select"
    /\ cancelled
    /\ pc' = "returned"
    /\ UNCHANGED <<reason, loop, timers, stream, intervals, configured, cancelled, failures>>

Receive ==
    /\ pc = "select"
    /\ open
    /\ queue > 0
    /\ queue' = queue - 1

ReplayedEvent ==
    /\ Receive
    /\ warmingUp
    /\ settle' = Reset(settle, intervals.poll)
    /\ UNCHANGED <<pc, reason, loop, debounce, ticker, open, hungUp, intervals, configured, cancelled, failures>>

\* A plausible mistake: mark the session dirty but leave the timer alone.
LiveEventUnarmed ==
    /\ Receive
    /\ ~warmingUp
    /\ dirty' = TRUE
    /\ UNCHANGED <<pc, reason, warmingUp, timers, open, hungUp, intervals, configured, cancelled, failures>>

LiveEvent ==
    /\ Receive
    /\ ~warmingUp
    /\ dirty' = TRUE
    /\ debounce' = Reset(debounce, intervals.debounce)
    /\ UNCHANGED <<pc, reason, warmingUp, settle, ticker, open, hungUp, intervals, configured, cancelled, failures>>

StreamClosed ==
    /\ pc = "select"
    /\ open
    /\ queue = 0
    /\ hungUp
    /\ open' = FALSE
    /\ hungUp' = FALSE
    /\ pc' = "backoff"
    /\ UNCHANGED <<reason, loop, timers, queue, intervals, configured, cancelled, failures>>

SettleFires ==
    /\ pc = "select"
    /\ settle.fired
    /\ settle' = Drained(settle)
    /\ warmingUp' = FALSE
    /\ UNCHANGED <<pc, reason, dirty, debounce, ticker, stream, intervals, configured, cancelled, failures>>

DebounceFires ==
    /\ pc = "select"
    /\ debounce.fired
    /\ debounce' = Drained(debounce)
    /\ dirty' = FALSE
    /\ IF dirty THEN Refresh("event") ELSE UNCHANGED <<pc, reason>>
    /\ UNCHANGED <<warmingUp, settle, ticker, stream, intervals, configured, cancelled, failures>>

\* A plausible mistake: poll only while there is no event stream.
TickerFiresUnlessOpen ==
    /\ pc = "select"
    /\ ticker.fired
    /\ ticker' = Drained(ticker)
    /\ IF open THEN UNCHANGED <<pc, reason>> ELSE Refresh("poll")
    /\ UNCHANGED <<loop, settle, debounce, stream, intervals, configured, cancelled, failures>>

TickerFires ==
    /\ pc = "select"
    /\ ticker.fired
    /\ ticker' = Drained(ticker)
    /\ Refresh("poll")
    /\ UNCHANGED <<loop, settle, debounce, stream, intervals, configured, cancelled, failures>>

-----------------------------------------------------------------------------

\* The goroutine's steps outside the select.
Proceed ==
    \/ Subscribe \/ SubscribeFails
    \/ RefreshSubscribed \/ RefreshReconnected \/ RefreshDone
    \/ BackoffOver \/ Resubscribe \/ ResubscribeFails \/ ReconnectCancelled

Select ==
    \/ ContextDone
    \/ ReplayedEvent \/ LiveEvent \/ StreamClosed
    \/ SettleFires \/ DebounceFires \/ TickerFires

Next == PassTime \/ Cancel \/ SendEvent \/ HangUp \/ Proceed \/ Select

(***************************************************************************)
(* Time passes and the goroutine is scheduled; Herdr answers or drops      *)
(* every call it accepts (no call has a deadline of its own).  A select    *)
(* chooses at random among its ready cases, so a case that is ready again  *)
(* and again is taken in the end; the properties need that of the context, *)
(* the settle timer and the ticker.  Nothing is assumed of Herdr's events. *)
(***************************************************************************)
Fairness ==
    /\ WF_vars(PassTime)
    /\ WF_vars(Proceed)
    /\ SF_vars(ContextDone)
    /\ SF_vars(SettleFires)
    /\ SF_vars(TickerFires)

Spec == Init /\ [][Next]_vars /\ Fairness

-----------------------------------------------------------------------------
(* Properties.                                                             *)

(***************************************************************************)
(* Nothing the loop waits for is forgotten: a dirty session has a debounce *)
(* that will fire, and a warm-up a settle timer that will end it, however  *)
(* timers fired, were reset or were stopped meanwhile.                     *)
(***************************************************************************)
WakeupsPending ==
    pc = "select" => /\ dirty => Pending(debounce)
                     /\ warmingUp => Pending(settle)

(***************************************************************************)
(* During a replay warm-up nothing event-driven may run, even if an event  *)
(* of the previous stream was still waiting for its debounce (comment on   *)
(* TestRunnerReplayBurstResetsSettleWithoutRefreshing).                    *)
(***************************************************************************)
NoEventDuringWarmUp == warmingUp => ~dirty

(***************************************************************************)
(* README: "Polling runs normally throughout".  Whatever events come and   *)
(* however often Herdr hangs up, the loop refreshes again and again until  *)
(* it is cancelled.                                                        *)
(***************************************************************************)
RefreshesForever == []<>(cancelled \/ pc = "refresh")

(***************************************************************************)
(* A cancelled Run returns, whichever of its waits it is in.               *)
(***************************************************************************)
ReturnsOnCancel == cancelled ~> pc = "returned"

(***************************************************************************)
(* A stream that stays open and falls silent ends its warm-up, so events   *)
(* are listened to again.                                                  *)
(***************************************************************************)
WarmUpEnds == <>[][~SendEvent /\ ~HangUp /\ ~Cancel]_vars => <>[](~warmingUp \/ cancelled)

(***************************************************************************)
(* README: a changed poll_interval or refresh_debounce takes effect on the *)
(* next pass: if the configuration stays at c, so in the end does the      *)
(* loop.                                                                   *)
(***************************************************************************)
IntervalApplied ==
    \A c \in Configurations : <>[](configured = c) => <>[](intervals = c \/ cancelled)

=============================================================================
