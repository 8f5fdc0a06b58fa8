----------------------------- MODULE RunnerProofs -----------------------------
(***************************************************************************)
(* Type correctness of the event loop and its two safety promises, for     *)
(* every set of configurations.                                            *)
(*                                                                         *)
(* WakeupsPending speaks of the select only; what makes it inductive is    *)
(* that a dirty session has its debounce pending wherever the goroutine    *)
(* is, and a warm-up its settle timer except in the one refresh that       *)
(* follows a subscription, whose end sets it.                              *)
(***************************************************************************)
EXTENDS Runner, TLAPS

AboutToSettle == pc = "refresh" /\ reason \in {"subscribed", "reconnected"}

DirtyWaits   == dirty => Pending(debounce)
WarmUpWaits  == warmingUp /\ ~AboutToSettle => Pending(settle)
StartsClean  == pc = "subscribe" => ~dirty

Inv ==
    /\ TypeOK
    /\ DirtyWaits
    /\ WarmUpWaits
    /\ StartsClean
    /\ NoEventDuringWarmUp

-----------------------------------------------------------------------------
(* Timers.                                                                 *)

LEMMA IntervalsAreUnits ==
    /\ \A c \in Configurations : c.poll \in Units \ {0} /\ c.debounce \in Units
    /\ 0 \in Units
BY ConstantsAssumption DEF Units

(***************************************************************************)
(* A timer that is reset is pending, whatever it was doing (Reset in       *)
(* systemTimer and systemTicker).                                          *)
(***************************************************************************)
LEMMA ResetIsPending ==
    ASSUME NEW t \in Timer, NEW u \in Units
    PROVE  Reset(t, u) \in Timer /\ Pending(Reset(t, u))
<1>1. CASE u = 0
  BY <1>1 DEF Timer, Reset, Pending
<1>2. CASE u # 0
  <2>1. Reset(t, u) = [t EXCEPT !.left = u]
    BY <1>2 DEF Reset
  <2>2. u # Stopped
    BY ConstantsAssumption DEF Units
  <2> QED
    BY <1>2, <2>1, <2>2 DEF Timer, Pending
<1> QED
  BY <1>1, <1>2

(***************************************************************************)
(* The passing of time loses no firing: a pending timer stays pending.     *)
(***************************************************************************)
LEMMA LaterKeepsPending ==
    ASSUME NEW t \in Timer, NEW again \in (Units \ {0}) \cup {Stopped}
    PROVE  Later(t, again) \in Timer /\ (Pending(t) => Pending(Later(t, again)))
<1>1. CASE t.left = Stopped
  <2>1. t.left # 1
    BY <1>1, ConstantsAssumption
  <2> QED
    BY <1>1, <2>1 DEF Later
<1>2. CASE t.left # Stopped /\ t.left = 1
  <2>1. Later(t, again) = [left |-> again, fired |-> TRUE]
    BY <1>2 DEF Later
  <2> QED
    BY <2>1 DEF Timer, Pending
<1>3. CASE t.left # Stopped /\ t.left # 1
  <2>1. Later(t, again) = [t EXCEPT !.left = t.left - 1]
    BY <1>3 DEF Later
  <2>2. t.left \in Units \ {0}
    BY <1>3 DEF Timer
  <2>3. t.left - 1 \in Units \ {0}
    BY <1>3, <2>2, ConstantsAssumption DEF Units
  <2>4. t.left - 1 # Stopped
    BY <2>3, ConstantsAssumption DEF Units
  <2> QED
    BY <2>1, <2>3, <2>4 DEF Timer, Pending
<1> QED
  BY <1>1, <1>2, <1>3

LEMMA StoppedAndDrainedTimers ==
    ASSUME NEW t \in Timer
    PROVE  Stop(t) \in Timer /\ Drained(t) \in Timer
BY DEF Timer, Stop, Drained

-----------------------------------------------------------------------------
(* The invariant.                                                          *)

LEMMA InvInit == Init => Inv
<1> SUFFICES ASSUME Init PROVE Inv
  OBVIOUS
<1>1. intervals.poll \in Units \ {0} /\ 0 \in Units
  BY IntervalsAreUnits DEF Init
<1>2. settle \in Timer /\ ticker \in Timer
  BY <1>1 DEF Init, Timer
<1>3. debounce \in Timer
  BY DEF Init, Timer
<1>4. TypeOK
  <2>1. 0 \in 0..MaxQueue /\ 0 \in 0..MaxFailures
    BY ConstantsAssumption
  <2> QED
    BY <1>1, <1>2, <1>3, <2>1 DEF Init, TypeOK, Reasons
<1>5. Pending(settle)
  BY <1>1, ConstantsAssumption DEF Init, Pending, Units
<1> QED
  BY <1>4, <1>5 DEF Init, Inv, DirtyWaits, WarmUpWaits, StartsClean, NoEventDuringWarmUp

-----------------------------------------------------------------------------
(* Every step keeps it.                                                    *)

LEMMA OutsideKeepsInv ==
    Inv /\ (PassTime \/ Cancel \/ SendEvent \/ HangUp) => Inv'
<1> SUFFICES ASSUME Inv, PassTime \/ Cancel \/ SendEvent \/ HangUp
             PROVE  Inv'
  OBVIOUS
<1> USE DEF Inv, DirtyWaits, WarmUpWaits, AboutToSettle, StartsClean, NoEventDuringWarmUp
<1>1. CASE PassTime
  <2>1. intervals.poll \in Units \ {0} /\ settle \in Timer /\ debounce \in Timer /\ ticker \in Timer
    BY IntervalsAreUnits DEF TypeOK
  <2>2. /\ settle' \in Timer /\ (Pending(settle) => Pending(settle'))
        /\ debounce' \in Timer /\ (Pending(debounce) => Pending(debounce'))
        /\ ticker' \in Timer
    BY <1>1, <2>1, LaterKeepsPending DEF PassTime
  <2> QED
    BY <1>1, <2>2 DEF PassTime, TypeOK, loop, stream
<1>2. CASE Cancel
  BY <1>2 DEF Cancel, TypeOK, loop, timers, stream
<1>3. CASE SendEvent
  <2>1. queue' \in 0..MaxQueue
    BY <1>3, ConstantsAssumption DEF SendEvent, TypeOK
  <2> QED
    BY <1>3, <2>1 DEF SendEvent, TypeOK, loop, timers
<1>4. CASE HangUp
  BY <1>4 DEF HangUp, TypeOK, loop, timers
<1> QED
  BY <1>1, <1>2, <1>3, <1>4

LEMMA ProceedKeepsInv == Inv /\ Proceed => Inv'
<1> SUFFICES ASSUME Inv, Proceed
             PROVE  Inv'
  OBVIOUS
<1> USE DEF Inv, DirtyWaits, WarmUpWaits, AboutToSettle, StartsClean, NoEventDuringWarmUp
<1>1. /\ TypeOK /\ intervals.poll \in Units /\ intervals.debounce \in Units
      /\ settle \in Timer /\ debounce \in Timer /\ ticker \in Timer
  BY IntervalsAreUnits DEF TypeOK
<1>2. CASE Subscribe
  <2>1. queue' \in 0..MaxQueue
    BY <1>2, ConstantsAssumption DEF Subscribe, NewStream
  <2> QED
    BY <1>1, <1>2, <2>1 DEF Subscribe, NewStream, Refresh, TypeOK, Reasons, timers
<1>3. CASE SubscribeFails
  BY <1>1, <1>3 DEF SubscribeFails, TypeOK, loop, timers, stream
<1>4. CASE RefreshSubscribed
  <2>1. settle' \in Timer /\ Pending(settle')
    BY <1>1, <1>4, ResetIsPending DEF RefreshSubscribed
  <2> QED
    BY <1>1, <1>4, <2>1 DEF RefreshSubscribed, TypeOK, loop, stream
<1>5. CASE RefreshReconnected
  <2>1. intervals' \in Configurations /\ configured' \in Configurations /\ configured'.poll \in Units
    BY <1>5, IntervalsAreUnits DEF RefreshReconnected
  <2>2. settle' \in Timer /\ Pending(settle')
    BY <1>1, <1>5, <2>1, ResetIsPending DEF RefreshReconnected, Retimed
  <2>3. ticker' \in Timer
    BY <1>1, <1>5, <2>1, ResetIsPending DEF RefreshReconnected, Retimed
  <2> QED
    BY <1>1, <1>5, <2>1, <2>2, <2>3 DEF RefreshReconnected, TypeOK, loop, stream
<1>6. CASE RefreshDone
  <2>1. intervals' \in Configurations /\ configured' \in Configurations /\ configured'.poll \in Units
    BY <1>6, IntervalsAreUnits DEF RefreshDone, ApplyIntervals
  <2>2. settle' \in Timer /\ (Pending(settle) => Pending(settle'))
    BY <1>1, <1>6, <2>1, ResetIsPending DEF RefreshDone, ApplyIntervals, Retimed
  <2>3. ticker' \in Timer
    BY <1>1, <1>6, <2>1, ResetIsPending DEF RefreshDone, ApplyIntervals, Retimed
  <2> QED
    BY <1>1, <1>6, <2>1, <2>2, <2>3 DEF RefreshDone, TypeOK, loop, stream
<1>7. CASE BackoffOver
  BY <1>1, <1>7 DEF BackoffOver, TypeOK, loop, timers, stream
<1>8. CASE Resubscribe
  <2>1. debounce' \in Timer
    BY <1>1, <1>8, StoppedAndDrainedTimers DEF Resubscribe
  <2>2. queue' \in 0..MaxQueue
    BY <1>8, ConstantsAssumption DEF Resubscribe, NewStream
  <2> QED
    BY <1>1, <1>8, <2>1, <2>2 DEF Resubscribe, NewStream, Refresh, TypeOK, Reasons
<1>9. CASE ResubscribeFails
  <2>1. failures' \in 0..MaxFailures
    BY <1>1, <1>9, ConstantsAssumption DEF ResubscribeFails, TypeOK
  <2> QED
    BY <1>1, <1>9, <2>1 DEF ResubscribeFails, TypeOK, loop, timers, stream
<1>10. CASE ReconnectCancelled
  BY <1>1, <1>10 DEF ReconnectCancelled, TypeOK, loop, timers, stream
<1> QED
  BY <1>2, <1>3, <1>4, <1>5, <1>6, <1>7, <1>8, <1>9, <1>10 DEF Proceed

LEMMA SelectKeepsInv == Inv /\ Select => Inv'
<1> SUFFICES ASSUME Inv, Select
             PROVE  Inv'
  OBVIOUS
<1> USE DEF Inv, DirtyWaits, WarmUpWaits, AboutToSettle, StartsClean, NoEventDuringWarmUp
<1>1. /\ TypeOK /\ intervals.poll \in Units /\ intervals.debounce \in Units
      /\ settle \in Timer /\ debounce \in Timer /\ ticker \in Timer
  BY IntervalsAreUnits DEF TypeOK
<1>2. CASE ContextDone
  BY <1>1, <1>2 DEF ContextDone, TypeOK, loop, timers, stream
<1>3. CASE ReplayedEvent
  <2>1. settle' \in Timer /\ Pending(settle')
    BY <1>1, <1>3, ResetIsPending DEF ReplayedEvent
  <2>2. queue' \in 0..MaxQueue
    BY <1>1, <1>3, ConstantsAssumption DEF ReplayedEvent, Receive, TypeOK
  <2> QED
    BY <1>1, <1>3, <2>1, <2>2 DEF ReplayedEvent, Receive, TypeOK, loop
<1>4. CASE LiveEvent
  <2>1. debounce' \in Timer /\ Pending(debounce')
    BY <1>1, <1>4, IntervalsAreUnits, ResetIsPending DEF LiveEvent
  <2>2. queue' \in 0..MaxQueue
    BY <1>1, <1>4, ConstantsAssumption DEF LiveEvent, Receive, TypeOK
  <2> QED
    BY <1>1, <1>4, <2>1, <2>2 DEF LiveEvent, Receive, TypeOK
<1>5. CASE StreamClosed
  BY <1>1, <1>5 DEF StreamClosed, TypeOK, loop, timers
<1>6. CASE SettleFires
  <2>1. settle' \in Timer
    BY <1>1, <1>6, StoppedAndDrainedTimers DEF SettleFires
  <2> QED
    BY <1>1, <1>6, <2>1 DEF SettleFires, TypeOK, stream
<1>7. CASE DebounceFires
  <2>1. debounce' \in Timer
    BY <1>1, <1>7, StoppedAndDrainedTimers DEF DebounceFires
  <2> QED
    BY <1>1, <1>7, <2>1 DEF DebounceFires, Refresh, TypeOK, Reasons, stream
<1>8. CASE TickerFires
  <2>1. ticker' \in Timer
    BY <1>1, <1>8, StoppedAndDrainedTimers DEF TickerFires
  <2> QED
    BY <1>1, <1>8, <2>1 DEF TickerFires, Refresh, TypeOK, Reasons, loop, stream
<1> QED
  BY <1>2, <1>3, <1>4, <1>5, <1>6, <1>7, <1>8 DEF Select

LEMMA InvStep == Inv /\ [Next]_vars => Inv'
<1> SUFFICES ASSUME Inv, [Next]_vars
             PROVE  Inv'
  OBVIOUS
<1>1. CASE Next
  BY <1>1, OutsideKeepsInv, ProceedKeepsInv, SelectKeepsInv DEF Next
<1>2. CASE UNCHANGED vars
  BY <1>2 DEF vars, loop, timers, stream, Inv, TypeOK, DirtyWaits, WarmUpWaits,
              AboutToSettle, StartsClean, NoEventDuringWarmUp, Pending
<1> QED
  BY <1>1, <1>2

(***************************************************************************)
(* The variables of the loop keep their types: every timer counts down     *)
(* from a configured interval and the event buffer stays bounded.          *)
(***************************************************************************)
THEOREM TypeCorrect == Spec => []TypeOK
<1>1. Inv => TypeOK
  BY DEF Inv
<1> QED
  BY <1>1, InvInit, InvStep, PTL DEF Spec

(***************************************************************************)
(* Whatever events, hang-ups and edits of the intervals come in whatever   *)
(* order, a dirty session has its refresh coming and a warm-up its end.    *)
(***************************************************************************)
THEOREM WakeupsNeverLost == Spec => []WakeupsPending
<1>1. Inv => WakeupsPending
  BY DEF Inv, DirtyWaits, WarmUpWaits, AboutToSettle, WakeupsPending
<1> QED
  BY <1>1, InvInit, InvStep, PTL DEF Spec

(***************************************************************************)
(* No event-driven refresh is pending while a stream may be replaying.     *)
(***************************************************************************)
THEOREM WarmUpIsQuiet == Spec => []NoEventDuringWarmUp
<1>1. Inv => NoEventDuringWarmUp
  BY DEF Inv
<1> QED
  BY <1>1, InvInit, InvStep, PTL DEF Spec

=============================================================================
