------------------------------ MODULE HerdrClient ------------------------------
(***************************************************************************)
(* The client of Herdr's socket (src/internal/herdrapi/client_unix.go):    *)
(* calls on connections of their own, one goroutine per subscription, and  *)
(* a Close that waits for all of them.                                     *)
(*                                                                         *)
(* An operation is a call or a subscription; its context is cancelled by   *)
(* its caller or, a moment later, by Close, and a cancelled context shuts  *)
(* the connection, again a moment later (context.AfterFunc runs either in  *)
(* a goroutine of its own).  A deadline that expires is a cancellation.    *)
(* Herdr may stay silent, answer anything and hang up at any time.         *)
(***************************************************************************)
EXTENDS Naturals, FiniteSets

CONSTANTS
    Callers,         \* goroutines that make one call each
    Streams,         \* goroutines that subscribe once each
    Closers,         \* goroutines that call Close
    Impatient,       \* operations whose caller may cancel: the commands' never do
    MaxConnections,  \* maxOrdinaryConnections
    MaxEvents        \* bound: events a stream holds that nobody has read yet

Operations == Callers \cup Streams

ASSUME ConstantsAssumption ==
    /\ IsFiniteSet(Callers) /\ IsFiniteSet(Streams)
    /\ Impatient \subseteq Operations
    /\ Callers \cap Streams = {} /\ Operations \cap Closers = {}
    /\ MaxConnections \in Nat \ {0}
    /\ MaxEvents \in Nat \ {0}

VARIABLES
    closed,     \* c.closed; c.closeCtx is cancelled with it
    closeDone,  \* c.closeDone is closed
    wg,         \* the count of c.wg
    slots,      \* the values in c.slots
    pc,         \* pc[p]: what p does next
    cancelled,  \* cancelled[o]: its context is done
    conn,       \* conn[o]: our end of its connection: "none", "open" or "shut"
    up,         \* up[o]: Herdr's end of it is open
    reply,      \* reply[o]: what Herdr has for it besides events
    applied,    \* applied[o]: Herdr did what was asked
    outcome,    \* outcome[o]: what the call returns: "none", "ok" or "error"
    events,     \* events[s]: the channel: "none", "open" or "closed"
    frames      \* frames[s]: events sent and not yet read

herdrVars  == <<up, reply, applied, frames>>
clientVars == <<closed, closeDone, wg, slots>>
vars == <<closed, closeDone, wg, slots, pc, cancelled, conn, up, reply, applied,
          outcome, events, frames>>

\* The response to the request, with one outcome or the other; a "foreign"
\* frame is to another request, or malformed, unterminated or too large.
Replies == {"result", "failure", "foreign"}

Init ==
    /\ closed = FALSE /\ closeDone = FALSE
    /\ wg = 0 /\ slots = 0
    /\ pc = [p \in Operations \cup Closers |-> "idle"]
    /\ cancelled = [o \in Operations |-> FALSE]
    /\ conn = [o \in Operations |-> "none"]
    /\ up = [o \in Operations |-> FALSE]
    /\ reply = [o \in Operations |-> "none"]
    /\ applied = [o \in Operations |-> FALSE]
    /\ outcome = [o \in Operations |-> "none"]
    /\ events = [s \in Streams |-> "none"]
    /\ frames = [s \in Streams |-> 0]

Goto(p, step) == pc' = [pc EXCEPT ![p] = step]

\* What Herdr still does with the connection is of no consequence.
Disregard(o) ==
    /\ up' = [up EXCEPT ![o] = FALSE]
    /\ reply' = [reply EXCEPT ![o] = "none"]
    /\ UNCHANGED applied

Shut(o) ==
    /\ conn' = [conn EXCEPT ![o] = "shut"]
    /\ Disregard(o)

\* Returns an error, once what was acquired is released from step on.
Fail(o, step) ==
    /\ outcome' = [outcome EXCEPT ![o] = "error"]
    /\ Goto(o, step)

-----------------------------------------------------------------------------
(* What calls and subscriptions have in common.                            *)

\* A plausible mistake: look at c.closed without c.mu, before the Add.
BeginUnchecked(o) ==
    /\ pc[o] = "idle"
    /\ wg' = wg + 1
    /\ Goto(o, IF o \in Callers THEN "slot" ELSE "dial")
    /\ UNCHANGED <<closed, closeDone, slots, cancelled, conn, herdrVars, outcome, events>>

Begin(o) ==
    /\ pc[o] = "idle"
    /\ ~closed
    /\ wg' = wg + 1
    /\ Goto(o, IF o \in Callers THEN "slot" ELSE "dial")
    /\ UNCHANGED <<closed, closeDone, slots, cancelled, conn, herdrVars, outcome, events>>

BeginRefused(o) ==
    /\ pc[o] = "idle"
    /\ closed
    /\ Fail(o, "returned")
    /\ UNCHANGED <<clientVars, cancelled, conn, herdrVars, events>>

\* Connects and writes the request.  A write that fails is left by the way of
\* the read that would fail next.
Dial(o) ==
    /\ pc[o] = "dial"
    /\ ~cancelled[o]
    /\ conn' = [conn EXCEPT ![o] = "open"]
    /\ up' = [up EXCEPT ![o] = TRUE]
    /\ reply' = [reply EXCEPT ![o] = "asked"]
    /\ Goto(o, "read")
    /\ UNCHANGED <<clientVars, cancelled, applied, outcome, events, frames>>

\* Herdr is away, or the context is done.
DialFails(o) ==
    /\ pc[o] = "dial"
    /\ Fail(o, IF o \in Callers THEN "release" ELSE "finish")
    /\ UNCHANGED <<clientVars, cancelled, conn, herdrVars, events>>

\* A plausible mistake: take a response for any request.
AcceptableForAnybody(o) == reply[o] \in Replies

\* decodeResponse.
Acceptable(o) == reply[o] \in {"result", "failure"}

\* The connection was shut, or hung up before a frame came.
ReadFails(o) ==
    /\ pc[o] = "read"
    /\ \/ conn[o] = "shut"
       \/ reply[o] = "asked" /\ ~up[o]
       \/ reply[o] \in Replies /\ ~Acceptable(o)
    /\ Fail(o, "hangup")
    /\ Disregard(o)
    /\ UNCHANGED <<clientVars, cancelled, conn, events, frames>>

\* A plausible mistake: leave the connection to the cancellation in Finish.
HangupLater(o) ==
    /\ pc[o] = "hangup"
    /\ Goto(o, IF o \in Callers THEN "release" ELSE "finish")
    /\ UNCHANGED <<clientVars, cancelled, conn, herdrVars, outcome, events>>

\* stopClose and conn.Close.
Hangup(o) ==
    /\ pc[o] = "hangup"
    /\ Shut(o)
    /\ Goto(o, IF o \in Callers THEN "release" ELSE "finish")
    /\ UNCHANGED <<clientVars, cancelled, frames, outcome, events>>

\* cancel and wg.Done, the last of the deferred calls.
Finish(o) ==
    /\ pc[o] = "finish"
    /\ wg' = wg - 1
    /\ cancelled' = [cancelled EXCEPT ![o] = TRUE]
    /\ Goto(o, "returned")
    /\ UNCHANGED <<closed, closeDone, slots, conn, herdrVars, outcome, events>>

-----------------------------------------------------------------------------
(* call.                                                                   *)

TakeSlot(c) ==
    /\ pc[c] = "slot"
    /\ slots < MaxConnections
    /\ slots' = slots + 1
    /\ Goto(c, "dial")
    /\ UNCHANGED <<closed, closeDone, wg, cancelled, conn, herdrVars, outcome, events>>

SlotCancelled(c) ==
    /\ pc[c] = "slot"
    /\ cancelled[c]
    /\ Fail(c, "finish")
    /\ UNCHANGED <<clientVars, cancelled, conn, herdrVars, events>>

ReadResponse(c) ==
    /\ pc[c] = "read"
    /\ conn[c] = "open"
    /\ Acceptable(c)
    /\ Goto(c, "end")
    /\ UNCHANGED <<clientVars, cancelled, conn, herdrVars, outcome, events>>

\* requireConnectionEnd: Herdr hung up after its one response.
ConnectionEnds(c) ==
    /\ pc[c] = "end"
    /\ conn[c] = "open" /\ ~up[c]
    /\ Acceptable(c)
    /\ outcome' = [outcome EXCEPT ![c] = IF reply[c] = "failure" THEN "error" ELSE "ok"]
    /\ Goto(c, "hangup")
    /\ Disregard(c)
    /\ UNCHANGED <<clientVars, cancelled, conn, events, frames>>

\* Shut by a cancellation, or another frame came: an error, applied or not.
EndFails(c) ==
    /\ pc[c] = "end"
    /\ conn[c] = "shut" \/ reply[c] = "foreign"
    /\ Fail(c, "hangup")
    /\ Disregard(c)
    /\ UNCHANGED <<clientVars, cancelled, conn, events, frames>>

\* A plausible mistake: release no slot on the way out.
ReleaseNothing(c) ==
    /\ pc[c] = "release"
    /\ Goto(c, "finish")
    /\ UNCHANGED <<clientVars, cancelled, conn, herdrVars, outcome, events>>

ReleaseSlot(c) ==
    /\ pc[c] = "release"
    /\ slots' = slots - 1
    /\ Goto(c, "finish")
    /\ UNCHANGED <<closed, closeDone, wg, cancelled, conn, herdrVars, outcome, events>>

-----------------------------------------------------------------------------
(* Subscribe and its goroutine.                                            *)

\* The acknowledgement: from here on the goroutine owns what Begin counted.
Subscribed(s) ==
    /\ pc[s] = "read"
    /\ conn[s] = "open"
    /\ Acceptable(s) /\ reply[s] # "failure"
    /\ reply' = [reply EXCEPT ![s] = "none"]
    /\ outcome' = [outcome EXCEPT ![s] = "ok"]
    /\ events' = [events EXCEPT ![s] = "open"]
    /\ Goto(s, "receive")
    /\ UNCHANGED <<clientVars, cancelled, conn, up, applied, frames>>

SubscriptionRefused(s) ==
    /\ pc[s] = "read"
    /\ conn[s] = "open"
    /\ reply[s] = "failure"
    /\ Fail(s, "hangup")
    /\ Disregard(s)
    /\ UNCHANGED <<clientVars, cancelled, conn, events, frames>>

\* What is buffered can be read from a connection that was shut meanwhile.
ReadEvent(s) ==
    /\ pc[s] = "receive"
    /\ frames[s] > 0
    /\ frames' = [frames EXCEPT ![s] = @ - 1]
    /\ Goto(s, "send")
    /\ UNCHANGED <<clientVars, cancelled, conn, up, reply, applied, outcome, events>>

\* A plausible mistake: go on reading after the end of the stream.
StreamEndsOnShut(s) ==
    /\ pc[s] = "receive"
    /\ conn[s] = "shut"
    /\ Goto(s, "unwind")
    /\ UNCHANGED <<clientVars, cancelled, conn, herdrVars, outcome, events>>

\* The connection is shut or hung up, or a frame is no event.
StreamEnds(s) ==
    /\ pc[s] = "receive"
    /\ \/ conn[s] = "shut"
       \/ frames[s] = 0 /\ (reply[s] = "foreign" \/ ~up[s])
    /\ Goto(s, "unwind")
    /\ UNCHANGED <<clientVars, cancelled, conn, herdrVars, outcome, events>>

\* The runner receives from the channel.
Deliver(s) ==
    /\ pc[s] = "send"
    /\ Goto(s, "receive")
    /\ UNCHANGED <<clientVars, cancelled, conn, herdrVars, outcome, events>>

\* A plausible mistake: give up an event only when the runner takes it.
SendWaits(s) == FALSE /\ UNCHANGED vars

SendCancelled(s) ==
    /\ pc[s] = "send"
    /\ cancelled[s]
    /\ Goto(s, "unwind")
    /\ UNCHANGED <<clientVars, cancelled, conn, herdrVars, outcome, events>>

StreamHangup(s) ==
    /\ pc[s] = "unwind"
    /\ Shut(s)
    /\ frames' = [frames EXCEPT ![s] = 0]
    /\ Goto(s, "close")
    /\ UNCHANGED <<clientVars, cancelled, outcome, events>>

CloseEvents(s) ==
    /\ pc[s] = "close"
    /\ cancelled' = [cancelled EXCEPT ![s] = TRUE]
    /\ events' = [events EXCEPT ![s] = "closed"]
    /\ Goto(s, "finish")
    /\ UNCHANGED <<clientVars, conn, herdrVars, outcome>>

-----------------------------------------------------------------------------
(* Cancellation and Close.                                                 *)

InFlight(o) == pc[o] \notin {"idle", "returned"}

Cancel(o) ==
    /\ cancelled' = [cancelled EXCEPT ![o] = TRUE]
    /\ UNCHANGED <<clientVars, pc, conn, herdrVars, outcome, events>>

\* The steps a cancellation changes; an operation on its way out ignores it.
Cancellable(o) ==
    /\ pc[o] \in {"slot", "dial", "read", "end", "receive", "send"}
    /\ ~cancelled[o]

CallerCancels(o) == o \in Impatient /\ Cancellable(o) /\ Cancel(o)

\* context.AfterFunc(c.closeCtx, cancel).
CloseCancels(o) == closed /\ Cancellable(o) /\ Cancel(o)

\* context.AfterFunc(opCtx, conn.Close).
ShutConnection(o) ==
    /\ cancelled[o]
    /\ conn[o] = "open"
    /\ Shut(o)
    /\ UNCHANGED <<clientVars, pc, cancelled, frames, outcome, events>>

Close(k) ==
    /\ pc[k] \in {"idle", "returned"}
    /\ closed' = TRUE
    /\ Goto(k, IF closed THEN "await closeDone" ELSE "await wg")
    /\ UNCHANGED <<closeDone, wg, slots, cancelled, conn, herdrVars, outcome, events>>

CloseCompletes(k) ==
    /\ pc[k] = "await wg"
    /\ wg = 0
    /\ closeDone' = TRUE
    /\ Goto(k, "returned")
    /\ UNCHANGED <<closed, wg, slots, cancelled, conn, herdrVars, outcome, events>>

CloseAgain(k) ==
    /\ pc[k] = "await closeDone"
    /\ closeDone
    /\ Goto(k, "returned")
    /\ UNCHANGED <<clientVars, cancelled, conn, herdrVars, outcome, events>>

-----------------------------------------------------------------------------
(* Herdr, for as long as the client can notice.  (A request may be applied *)
(* later still; no call that could succeed is waiting for it by then.)     *)

HerdrAnswers(o) ==
    /\ up[o] /\ reply[o] = "asked"
    /\ \E answer \in Replies :
          /\ reply' = [reply EXCEPT ![o] = answer]
          /\ applied' = [applied EXCEPT ![o] = answer = "result"]
    /\ UNCHANGED <<clientVars, pc, cancelled, conn, up, outcome, events, frames>>

\* A second frame after a response, or a frame that is no event.
HerdrRambles(o) ==
    /\ up[o]
    /\ \/ o \in Callers /\ reply[o] \in {"result", "failure"}
       \/ o \in Streams /\ pc[o] \in {"receive", "send"} /\ reply[o] = "none"
    /\ reply' = [reply EXCEPT ![o] = "foreign"]
    /\ UNCHANGED <<clientVars, pc, cancelled, conn, up, applied, outcome, events, frames>>

HerdrSendsEvent(s) ==
    /\ up[s] /\ applied[s]
    /\ reply[s] \in {"result", "none"}
    /\ frames[s] < MaxEvents
    /\ frames' = [frames EXCEPT ![s] = @ + 1]
    /\ UNCHANGED <<clientVars, pc, cancelled, conn, up, reply, applied, outcome, events>>

HerdrHangsUp(o) ==
    /\ up[o]
    /\ up' = [up EXCEPT ![o] = FALSE]
    /\ UNCHANGED <<clientVars, pc, cancelled, conn, reply, applied, outcome, events, frames>>

-----------------------------------------------------------------------------

Call(c) ==
    \/ TakeSlot(c) \/ SlotCancelled(c)
    \/ Dial(c) \/ DialFails(c)
    \/ ReadResponse(c) \/ ReadFails(c)
    \/ ConnectionEnds(c) \/ EndFails(c)
    \/ Hangup(c) \/ ReleaseSlot(c) \/ Finish(c)

Subscribe(s) ==
    \/ Dial(s) \/ DialFails(s)
    \/ Subscribed(s) \/ SubscriptionRefused(s) \/ ReadFails(s) \/ Hangup(s)
    \/ ReadEvent(s) \/ StreamEnds(s)
    \/ SendCancelled(s) \/ StreamHangup(s) \/ CloseEvents(s) \/ Finish(s)

CloseReturn(k) == CloseCompletes(k) \/ CloseAgain(k)

Next ==
    \/ \E o \in Operations :
          \/ Begin(o) \/ BeginRefused(o)
          \/ CallerCancels(o) \/ CloseCancels(o) \/ ShutConnection(o)
          \/ HerdrAnswers(o) \/ HerdrRambles(o) \/ HerdrHangsUp(o)
    \/ \E c \in Callers : Call(c)
    \/ \E s \in Streams : Subscribe(s) \/ Deliver(s) \/ HerdrSendsEvent(s)
    \/ \E k \in Closers : Close(k) \/ CloseReturn(k)

\* Goroutines run, those of AfterFunc included.  Nothing is expected of Herdr,
\* of whoever may cancel, and of the receiver of the events.
Fairness ==
    /\ \A o \in Operations : WF_vars(CloseCancels(o)) /\ WF_vars(ShutConnection(o))
    /\ \A c \in Callers : WF_vars(Call(c))
    /\ \A s \in Streams : WF_vars(Subscribe(s))
    /\ \A k \in Closers : WF_vars(CloseReturn(k))

Spec == Init /\ [][Next]_vars /\ Fairness

-----------------------------------------------------------------------------
(* Properties.                                                             *)

Steps ==
    {"idle", "slot", "dial", "read", "end", "hangup", "release", "finish",
     "receive", "send", "unwind", "close", "await wg", "await closeDone", "returned"}

TypeOK ==
    /\ closed \in BOOLEAN /\ closeDone \in BOOLEAN
    /\ wg \in Nat /\ slots \in Nat
    /\ pc \in [Operations \cup Closers -> Steps]
    /\ cancelled \in [Operations -> BOOLEAN]
    /\ conn \in [Operations -> {"none", "open", "shut"}]
    /\ up \in [Operations -> BOOLEAN]
    /\ reply \in [Operations -> Replies \cup {"none", "asked"}]
    /\ applied \in [Operations -> BOOLEAN]
    /\ outcome \in [Operations -> {"none", "ok", "error"}]
    /\ events \in [Streams -> {"none", "open", "closed"}]
    /\ frames \in [Streams -> Nat]

(***************************************************************************)
(* What Close promises when it returns, to the daemon that then gives up   *)
(* its lock: no operation is under way, none will begin, no connection and *)
(* no event channel is open.                                               *)
(***************************************************************************)
CloseIsFinal ==
    closeDone =>
        /\ \A o \in Operations : ~InFlight(o) /\ conn[o] # "open"
        /\ \A s \in Streams : events[s] # "open"

(***************************************************************************)
(* Herdr never has more than maxOrdinaryConnections connections of         *)
(* ordinary calls open at once, those on their way out included.           *)
(***************************************************************************)
ConnectionsLimited ==
    Cardinality({c \in Callers : conn[c] = "open"}) <= MaxConnections

(***************************************************************************)
(* A rename that returns without error was applied by Herdr: Reconcile     *)
(* records it on this word alone.                                          *)
(***************************************************************************)
SuccessMeansApplied ==
    \A o \in Operations : outcome[o] = "ok" => applied[o]

(***************************************************************************)
(* Close returns, whatever an operation waits for: a slot, Herdr, or a     *)
(* runner that no longer receives.                                         *)
(***************************************************************************)
CloseReturns ==
    \A k \in Closers : pc[k] \in {"await wg", "await closeDone"} ~> pc[k] = "returned"

(***************************************************************************)
(* A call whose context is cancelled returns although Herdr is silent, and *)
(* while Herdr deals with the calls that reach it, no call waits for a     *)
(* slot for ever.  (Each caller makes one call: there comes a time when    *)
(* none is under way just if all that were made return.)                   *)
(***************************************************************************)
HerdrDealsWith(c) == []<>(pc[c] \notin {"read", "end"})

CallsReturn ==
    /\ []<>(\A c \in Callers : cancelled[c] => pc[c] = "returned")
    /\ (\A c \in Callers : HerdrDealsWith(c)) => []<>(\A c \in Callers : ~InFlight(c))

(***************************************************************************)
(* Once Herdr hung up, the event channel is closed, which is what makes    *)
(* the runner resubscribe, unless an event is left that nobody takes.      *)
(***************************************************************************)
HangupIsSeen ==
    \A s \in Streams :
        []<>(pc[s] # "send") => (events[s] = "open" /\ ~up[s] ~> events[s] = "closed")

=============================================================================
