-------------------------- MODULE HerdrClientProofs ---------------------------
(***************************************************************************)
(* Theorems about HerdrClient, for any finite sets of operations and any   *)
(* number of connections.                                                  *)
(***************************************************************************)
EXTENDS HerdrClient, FiniteSetTheorems, TLAPS

CallSteps ==
    {"idle", "slot", "dial", "read", "end", "hangup", "release", "finish", "returned"}
StreamSteps ==
    {"idle", "dial", "read", "hangup", "receive", "send", "unwind", "close",
     "finish", "returned"}

(***************************************************************************)
(* Who can be where.                                                       *)
(***************************************************************************)
Places ==
    /\ \A c \in Callers : pc[c] \in CallSteps
    /\ \A s \in Streams : pc[s] \in StreamSteps

(***************************************************************************)
(* What is open is in the hands of an operation that will close it.        *)
(***************************************************************************)
Owned ==
    /\ \A o \in Operations :
          conn[o] = "open" =>
              pc[o] \in {"read", "end", "hangup", "receive", "send", "unwind"}
    /\ \A s \in Streams :
          events[s] = "open" => pc[s] \in {"receive", "send", "unwind", "close"}

(***************************************************************************)
(* An outcome is known once the response was read, not before.             *)
(***************************************************************************)
Answered ==
    \A o \in Operations :
        /\ reply[o] = "asked" => pc[o] = "read"
        /\ reply[o] = "result" => applied[o]
        /\ outcome[o] = "ok" =>
               applied[o] /\ pc[o] \notin {"idle", "slot", "dial", "read", "end"}

(***************************************************************************)
(* The types of everything that is not a count.                            *)
(***************************************************************************)
Typed ==
    /\ closed \in BOOLEAN /\ closeDone \in BOOLEAN
    /\ pc \in [Operations \cup Closers -> Steps]
    /\ cancelled \in [Operations -> BOOLEAN]
    /\ conn \in [Operations -> {"none", "open", "shut"}]
    /\ up \in [Operations -> BOOLEAN]
    /\ reply \in [Operations -> Replies \cup {"none", "asked"}]
    /\ applied \in [Operations -> BOOLEAN]
    /\ outcome \in [Operations -> {"none", "ok", "error"}]
    /\ events \in [Streams -> {"none", "open", "closed"}]
    /\ frames \in [Streams -> Nat]

LocalInv == Typed /\ Places /\ Owned /\ Answered

LEMMA LocalInvInit == Init => LocalInv
  <1> SUFFICES ASSUME Init PROVE LocalInv
    OBVIOUS
  <1> USE DEF Init, Operations
  <1>1. Typed
    BY DEF Typed, Steps, Replies
  <1>2. Places
    BY DEF Places, CallSteps, StreamSteps
  <1>3. Owned
    BY DEF Owned
  <1>4. Answered
    BY DEF Answered
  <1> QED
    BY <1>1, <1>2, <1>3, <1>4 DEF LocalInv

(***************************************************************************)
(* A step that calls and subscriptions have in common.                     *)
(***************************************************************************)
LEMMA CommonStep ==
  ASSUME LocalInv, NEW o \in Operations,
         Begin(o) \/ BeginRefused(o) \/ Dial(o) \/ DialFails(o) \/
         ReadFails(o) \/ Hangup(o) \/ Finish(o)
  PROVE  LocalInv'
  <1>0. Callers \subseteq Operations /\ Streams \subseteq Operations
    BY DEF Operations
  <1> USE <1>0, ConstantsAssumption
      DEF LocalInv, Typed, clientVars, herdrVars, Goto, Fail, Disregard,
          Shut, Cancel, Acceptable, Replies
  <1>1. CASE Begin(o) \/ BeginRefused(o)
    <2> USE <1>1 DEF Begin, BeginRefused
    <2>1. Typed'
      <3>1. CASE Begin(o)
        BY <3>1 DEF Steps
      <3>2. CASE BeginRefused(o)
        BY <3>2 DEF Steps
      <3> QED
        BY <3>1, <3>2
    <2>2. Places'
      BY DEF Places, CallSteps, StreamSteps
    <2>3. Owned'
      BY DEF Owned, Places, CallSteps, StreamSteps
    <2>4. Answered'
      BY DEF Answered, Places, CallSteps, StreamSteps
    <2> QED
      BY <2>1, <2>2, <2>3, <2>4
  <1>2. CASE Dial(o) \/ DialFails(o)
    <2> USE <1>2 DEF Dial, DialFails
    <2>1. Typed'
      <3>1. CASE Dial(o)
        BY <3>1 DEF Steps
      <3>2. CASE DialFails(o)
        BY <3>2 DEF Steps
      <3> QED
        BY <3>1, <3>2
    <2>2. Places'
      BY DEF Places, CallSteps, StreamSteps
    <2>3. Owned'
      BY DEF Owned, Places, CallSteps, StreamSteps
    <2>4. Answered'
      BY DEF Answered, Places, CallSteps, StreamSteps
    <2> QED
      BY <2>1, <2>2, <2>3, <2>4
  <1>3. CASE ReadFails(o) \/ Hangup(o)
    <2> USE <1>3 DEF ReadFails, Hangup
    <2>1. Typed'
      <3>1. CASE ReadFails(o)
        BY <3>1 DEF Steps
      <3>2. CASE Hangup(o)
        BY <3>2 DEF Steps
      <3> QED
        BY <3>1, <3>2
    <2>2. Places'
      BY DEF Places, CallSteps, StreamSteps
    <2>3. Owned'
      BY DEF Owned, Places, CallSteps, StreamSteps
    <2>4. Answered'
      BY DEF Answered, Places, CallSteps, StreamSteps
    <2> QED
      BY <2>1, <2>2, <2>3, <2>4
  <1>4. CASE Finish(o)
    <2> USE <1>4 DEF Finish
    <2>1. Typed'
      BY DEF Steps
    <2>2. Places'
      BY DEF Places, CallSteps, StreamSteps
    <2>3. Owned'
      BY DEF Owned, Places, CallSteps, StreamSteps
    <2>4. Answered'
      BY DEF Answered, Places, CallSteps, StreamSteps
    <2> QED
      BY <2>1, <2>2, <2>3, <2>4
  <1> QED
    BY <1>1, <1>2, <1>3, <1>4

(***************************************************************************)
(* A step of a call.                                                       *)
(***************************************************************************)
LEMMA CallStep ==
  ASSUME LocalInv, NEW c \in Callers,
         TakeSlot(c) \/ SlotCancelled(c) \/ ReadResponse(c) \/ ConnectionEnds(c) \/
         EndFails(c) \/ ReleaseSlot(c)
  PROVE  LocalInv'
  <1>0. Callers \subseteq Operations /\ Streams \subseteq Operations
    BY DEF Operations
  <1> USE <1>0, ConstantsAssumption
      DEF LocalInv, Typed, clientVars, herdrVars, Goto, Fail, Disregard,
          Shut, Cancel, Acceptable, Replies
  <1>1. CASE TakeSlot(c) \/ SlotCancelled(c)
    <2> USE <1>1 DEF TakeSlot, SlotCancelled
    <2>1. Typed'
      <3>1. CASE TakeSlot(c)
        BY <3>1 DEF Steps
      <3>2. CASE SlotCancelled(c)
        BY <3>2 DEF Steps
      <3> QED
        BY <3>1, <3>2
    <2>2. Places'
      BY DEF Places, CallSteps, StreamSteps
    <2>3. Owned'
      BY DEF Owned, Places, CallSteps, StreamSteps
    <2>4. Answered'
      BY DEF Answered, Places, CallSteps, StreamSteps
    <2> QED
      BY <2>1, <2>2, <2>3, <2>4
  <1>2. CASE ReadResponse(c) \/ ConnectionEnds(c)
    <2> USE <1>2 DEF ReadResponse, ConnectionEnds
    <2>1. Typed'
      <3>1. CASE ReadResponse(c)
        BY <3>1 DEF Steps
      <3>2. CASE ConnectionEnds(c)
        BY <3>2 DEF Steps
      <3> QED
        BY <3>1, <3>2
    <2>2. Places'
      BY DEF Places, CallSteps, StreamSteps
    <2>3. Owned'
      BY DEF Owned, Places, CallSteps, StreamSteps
    <2>4. Answered'
      BY DEF Answered, Places, CallSteps, StreamSteps
    <2> QED
      BY <2>1, <2>2, <2>3, <2>4
  <1>3. CASE EndFails(c) \/ ReleaseSlot(c)
    <2> USE <1>3 DEF EndFails, ReleaseSlot
    <2>1. Typed'
      <3>1. CASE EndFails(c)
        BY <3>1 DEF Steps
      <3>2. CASE ReleaseSlot(c)
        BY <3>2 DEF Steps
      <3> QED
        BY <3>1, <3>2
    <2>2. Places'
      BY DEF Places, CallSteps, StreamSteps
    <2>3. Owned'
      BY DEF Owned, Places, CallSteps, StreamSteps
    <2>4. Answered'
      BY DEF Answered, Places, CallSteps, StreamSteps
    <2> QED
      BY <2>1, <2>2, <2>3, <2>4
  <1> QED
    BY <1>1, <1>2, <1>3

(***************************************************************************)
(* A step of a subscription, or of the receiver of its events.             *)
(***************************************************************************)
LEMMA SubscribeStep ==
  ASSUME LocalInv, NEW s \in Streams,
         Subscribed(s) \/ SubscriptionRefused(s) \/ ReadEvent(s) \/ StreamEnds(s) \/
         Deliver(s) \/ SendCancelled(s) \/ StreamHangup(s) \/ CloseEvents(s)
  PROVE  LocalInv'
  <1>0. Callers \subseteq Operations /\ Streams \subseteq Operations
    BY DEF Operations
  <1> USE <1>0, ConstantsAssumption
      DEF LocalInv, Typed, clientVars, herdrVars, Goto, Fail, Disregard,
          Shut, Cancel, Acceptable, Replies
  <1>1. CASE Subscribed(s) \/ SubscriptionRefused(s)
    <2> USE <1>1 DEF Subscribed, SubscriptionRefused
    <2>1. Typed'
      <3>1. CASE Subscribed(s)
        BY <3>1 DEF Steps
      <3>2. CASE SubscriptionRefused(s)
        BY <3>2 DEF Steps
      <3> QED
        BY <3>1, <3>2
    <2>2. Places'
      BY DEF Places, CallSteps, StreamSteps
    <2>3. Owned'
      BY DEF Owned, Places, CallSteps, StreamSteps
    <2>4. Answered'
      BY DEF Answered, Places, CallSteps, StreamSteps
    <2> QED
      BY <2>1, <2>2, <2>3, <2>4
  <1>2. CASE ReadEvent(s)
    <2> USE <1>2 DEF ReadEvent
    <2>1. Typed'
      <3>1. frames[s] - 1 \in Nat
        OBVIOUS
      <3> QED
        BY <3>1 DEF Steps
    <2>2. Places'
      BY DEF Places, CallSteps, StreamSteps
    <2>3. Owned'
      BY DEF Owned, Places, CallSteps, StreamSteps
    <2>4. Answered'
      BY DEF Answered, Places, CallSteps, StreamSteps
    <2> QED
      BY <2>1, <2>2, <2>3, <2>4
  <1>3. CASE StreamEnds(s)
    <2> USE <1>3 DEF StreamEnds
    <2>1. Typed'
      BY DEF Steps
    <2>2. Places'
      BY DEF Places, CallSteps, StreamSteps
    <2>3. Owned'
      BY DEF Owned, Places, CallSteps, StreamSteps
    <2>4. Answered'
      BY DEF Answered, Places, CallSteps, StreamSteps
    <2> QED
      BY <2>1, <2>2, <2>3, <2>4
  <1>4. CASE Deliver(s) \/ SendCancelled(s)
    <2> USE <1>4 DEF Deliver, SendCancelled
    <2>1. Typed'
      <3>1. CASE Deliver(s)
        BY <3>1 DEF Steps
      <3>2. CASE SendCancelled(s)
        BY <3>2 DEF Steps
      <3> QED
        BY <3>1, <3>2
    <2>2. Places'
      BY DEF Places, CallSteps, StreamSteps
    <2>3. Owned'
      BY DEF Owned, Places, CallSteps, StreamSteps
    <2>4. Answered'
      BY DEF Answered, Places, CallSteps, StreamSteps
    <2> QED
      BY <2>1, <2>2, <2>3, <2>4
  <1>5. CASE StreamHangup(s) \/ CloseEvents(s)
    <2> USE <1>5 DEF StreamHangup, CloseEvents
    <2>1. Typed'
      <3>1. CASE StreamHangup(s)
        BY <3>1 DEF Steps
      <3>2. CASE CloseEvents(s)
        BY <3>2 DEF Steps
      <3> QED
        BY <3>1, <3>2
    <2>2. Places'
      BY DEF Places, CallSteps, StreamSteps
    <2>3. Owned'
      BY DEF Owned, Places, CallSteps, StreamSteps
    <2>4. Answered'
      BY DEF Answered, Places, CallSteps, StreamSteps
    <2> QED
      BY <2>1, <2>2, <2>3, <2>4
  <1> QED
    BY <1>1, <1>2, <1>3, <1>4, <1>5

(***************************************************************************)
(* A cancellation.                                                         *)
(***************************************************************************)
LEMMA CancelStep ==
  ASSUME LocalInv, NEW o \in Operations,
         CallerCancels(o) \/ CloseCancels(o) \/ ShutConnection(o)
  PROVE  LocalInv'
  <1>0. Callers \subseteq Operations /\ Streams \subseteq Operations
    BY DEF Operations
  <1> USE <1>0, ConstantsAssumption
      DEF LocalInv, Typed, clientVars, herdrVars, Goto, Fail, Disregard,
          Shut, Cancel, Acceptable, Replies
  <1>1. CASE CallerCancels(o) \/ CloseCancels(o)
    <2> USE <1>1 DEF CallerCancels, CloseCancels, Cancellable
    <2>1. Typed'
      <3>1. CASE CallerCancels(o)
        BY <3>1 DEF Steps
      <3>2. CASE CloseCancels(o)
        BY <3>2 DEF Steps
      <3> QED
        BY <3>1, <3>2
    <2>2. Places'
      BY DEF Places, CallSteps, StreamSteps
    <2>3. Owned'
      BY DEF Owned, Places, CallSteps, StreamSteps
    <2>4. Answered'
      BY DEF Answered, Places, CallSteps, StreamSteps
    <2> QED
      BY <2>1, <2>2, <2>3, <2>4
  <1>2. CASE ShutConnection(o)
    <2> USE <1>2 DEF ShutConnection
    <2>1. Typed'
      BY DEF Steps
    <2>2. Places'
      BY DEF Places, CallSteps, StreamSteps
    <2>3. Owned'
      BY DEF Owned, Places, CallSteps, StreamSteps
    <2>4. Answered'
      BY DEF Answered, Places, CallSteps, StreamSteps
    <2> QED
      BY <2>1, <2>2, <2>3, <2>4
  <1> QED
    BY <1>1, <1>2

(***************************************************************************)
(* A step of Close.                                                        *)
(***************************************************************************)
LEMMA CloseStep ==
  ASSUME LocalInv, NEW k \in Closers,
         Close(k) \/ CloseCompletes(k) \/ CloseAgain(k)
  PROVE  LocalInv'
  <1>0. Callers \subseteq Operations /\ Streams \subseteq Operations
    BY DEF Operations
  <1> USE <1>0, ConstantsAssumption
      DEF LocalInv, Typed, clientVars, herdrVars, Goto, Fail, Disregard,
          Shut, Cancel, Acceptable, Replies
  <1>1. CASE Close(k)
    <2> USE <1>1 DEF Close
    <2>1. Typed'
      BY DEF Steps
    <2>2. Places'
      BY DEF Places, CallSteps, StreamSteps
    <2>3. Owned'
      BY DEF Owned, Places, CallSteps, StreamSteps
    <2>4. Answered'
      BY DEF Answered, Places, CallSteps, StreamSteps
    <2> QED
      BY <2>1, <2>2, <2>3, <2>4
  <1>2. CASE CloseCompletes(k)
    <2> USE <1>2 DEF CloseCompletes
    <2>1. Typed'
      BY DEF Steps
    <2>2. Places'
      BY DEF Places, CallSteps, StreamSteps
    <2>3. Owned'
      BY DEF Owned, Places, CallSteps, StreamSteps
    <2>4. Answered'
      BY DEF Answered, Places, CallSteps, StreamSteps
    <2> QED
      BY <2>1, <2>2, <2>3, <2>4
  <1>3. CASE CloseAgain(k)
    <2> USE <1>3 DEF CloseAgain
    <2>1. Typed'
      BY DEF Steps
    <2>2. Places'
      BY DEF Places, CallSteps, StreamSteps
    <2>3. Owned'
      BY DEF Owned, Places, CallSteps, StreamSteps
    <2>4. Answered'
      BY DEF Answered, Places, CallSteps, StreamSteps
    <2> QED
      BY <2>1, <2>2, <2>3, <2>4
  <1> QED
    BY <1>1, <1>2, <1>3

(***************************************************************************)
(* A step of Herdr.                                                        *)
(***************************************************************************)
LEMMA HerdrStep ==
  ASSUME LocalInv, NEW o \in Operations,
         HerdrAnswers(o) \/ HerdrRambles(o) \/ HerdrHangsUp(o)
  PROVE  LocalInv'
  <1>0. Callers \subseteq Operations /\ Streams \subseteq Operations
    BY DEF Operations
  <1> USE <1>0, ConstantsAssumption
      DEF LocalInv, Typed, clientVars, herdrVars, Goto, Fail, Disregard,
          Shut, Cancel, Acceptable, Replies
  <1>1. CASE HerdrAnswers(o) \/ HerdrRambles(o)
    <2> USE <1>1 DEF HerdrAnswers, HerdrRambles
    <2>1. Typed'
      <3>1. CASE HerdrAnswers(o)
        BY <3>1 DEF Steps
      <3>2. CASE HerdrRambles(o)
        BY <3>2 DEF Steps
      <3> QED
        BY <3>1, <3>2
    <2>2. Places'
      BY DEF Places, CallSteps, StreamSteps
    <2>3. Owned'
      BY DEF Owned, Places, CallSteps, StreamSteps
    <2>4. Answered'
      BY DEF Answered, Places, CallSteps, StreamSteps
    <2> QED
      BY <2>1, <2>2, <2>3, <2>4
  <1>2. CASE HerdrHangsUp(o)
    <2> USE <1>2 DEF HerdrHangsUp
    <2>1. Typed'
      BY DEF Steps
    <2>2. Places'
      BY DEF Places, CallSteps, StreamSteps
    <2>3. Owned'
      BY DEF Owned, Places, CallSteps, StreamSteps
    <2>4. Answered'
      BY DEF Answered, Places, CallSteps, StreamSteps
    <2> QED
      BY <2>1, <2>2, <2>3, <2>4
  <1> QED
    BY <1>1, <1>2

(***************************************************************************)
(* An event comes.                                                         *)
(***************************************************************************)
LEMMA EventStep ==
  ASSUME LocalInv, NEW s \in Streams,
         HerdrSendsEvent(s)
  PROVE  LocalInv'
  <1>0. Callers \subseteq Operations /\ Streams \subseteq Operations
    BY DEF Operations
  <1> USE <1>0, ConstantsAssumption
      DEF LocalInv, Typed, clientVars, herdrVars, Goto, Fail, Disregard,
          Shut, Cancel, Acceptable, Replies
  <1>1. CASE HerdrSendsEvent(s)
    <2> USE <1>1 DEF HerdrSendsEvent
    <2>1. Typed'
      <3>1. frames[s] + 1 \in Nat
        OBVIOUS
      <3> QED
        BY <3>1 DEF Steps
    <2>2. Places'
      BY DEF Places, CallSteps, StreamSteps
    <2>3. Owned'
      BY DEF Owned, Places, CallSteps, StreamSteps
    <2>4. Answered'
      BY DEF Answered, Places, CallSteps, StreamSteps
    <2> QED
      BY <2>1, <2>2, <2>3, <2>4
  <1> QED
    BY <1>1

(***************************************************************************)
(* Next, sorted by what moves.                                             *)
(***************************************************************************)
Common(o) ==
    \/ Begin(o) \/ BeginRefused(o) \/ Dial(o) \/ DialFails(o)
    \/ ReadFails(o) \/ Hangup(o) \/ Finish(o)

OfCall(c) ==
    \/ TakeSlot(c) \/ SlotCancelled(c) \/ ReadResponse(c) \/ ConnectionEnds(c)
    \/ EndFails(c) \/ ReleaseSlot(c)

OfStream(s) ==
    \/ Subscribed(s) \/ SubscriptionRefused(s) \/ ReadEvent(s) \/ StreamEnds(s)
    \/ Deliver(s) \/ SendCancelled(s) \/ StreamHangup(s) \/ CloseEvents(s)

Elsewhere(o) ==
    \/ CallerCancels(o) \/ CloseCancels(o) \/ ShutConnection(o)
    \/ HerdrAnswers(o) \/ HerdrRambles(o) \/ HerdrHangsUp(o)

LEMMA NextSorted ==
  ASSUME Next
  PROVE  \/ \E o \in Operations : Common(o) \/ Elsewhere(o)
         \/ \E c \in Callers : OfCall(c)
         \/ \E s \in Streams : OfStream(s) \/ HerdrSendsEvent(s)
         \/ \E k \in Closers : Close(k) \/ CloseCompletes(k) \/ CloseAgain(k)
  <1>1. ASSUME NEW c \in Callers, Call(c)
        PROVE  Common(c) \/ OfCall(c)
    BY <1>1 DEF Call, Common, OfCall
  <1>2. ASSUME NEW s \in Streams, Subscribe(s) \/ Deliver(s)
        PROVE  Common(s) \/ OfStream(s)
    BY <1>2 DEF Subscribe, Common, OfStream
  <1>3. ASSUME NEW o \in Operations,
               \/ Begin(o) \/ BeginRefused(o)
               \/ CallerCancels(o) \/ CloseCancels(o) \/ ShutConnection(o)
               \/ HerdrAnswers(o) \/ HerdrRambles(o) \/ HerdrHangsUp(o)
        PROVE  Common(o) \/ Elsewhere(o)
    BY <1>3 DEF Common, Elsewhere
  <1>4. Callers \subseteq Operations /\ Streams \subseteq Operations
    BY DEF Operations
  <1> QED
    BY <1>1, <1>2, <1>3, <1>4 DEF Next, CloseReturn

LEMMA LocalInvStep == LocalInv /\ [Next]_vars => LocalInv'
  <1> SUFFICES ASSUME LocalInv, [Next]_vars
               PROVE  LocalInv'
    OBVIOUS
  <1>1. CASE Next
    <2>1. ASSUME NEW o \in Operations, Common(o) \/ Elsewhere(o)
          PROVE  LocalInv'
      BY <2>1, CommonStep, CancelStep, HerdrStep DEF Common, Elsewhere
    <2>2. ASSUME NEW c \in Callers, OfCall(c)
          PROVE  LocalInv'
      BY <2>2, CallStep DEF OfCall
    <2>3. ASSUME NEW s \in Streams, OfStream(s) \/ HerdrSendsEvent(s)
          PROVE  LocalInv'
      BY <2>3, SubscribeStep, EventStep DEF OfStream
    <2> QED
      BY <1>1, <2>1, <2>2, <2>3, NextSorted, CloseStep
  <1>2. CASE UNCHANGED vars
    BY <1>2 DEF vars, LocalInv, Typed, Places, Owned, Answered
  <1> QED
    BY <1>1, <1>2

(***************************************************************************)
(* A call that returns without error was applied.                          *)
(***************************************************************************)
THEOREM SuccessIsReal == Spec => []SuccessMeansApplied
  <1>1. LocalInv => SuccessMeansApplied
    BY DEF LocalInv, Answered, SuccessMeansApplied
  <1> QED
    BY LocalInvInit, LocalInvStep, <1>1, PTL DEF Spec

-----------------------------------------------------------------------------
(* The counts.                                                             *)

Under == {o \in Operations : InFlight(o)}
Holders == {c \in Callers : pc[c] \in {"dial", "read", "end", "hangup", "release"}}

(***************************************************************************)
(* The wait group counts the operations under way and the slots the calls  *)
(* between acquiring one and releasing it.                                 *)
(***************************************************************************)
Counts ==
    /\ wg = Cardinality(Under)
    /\ slots = Cardinality(Holders)
    /\ slots <= MaxConnections

LEMMA SetsFinite == IsFiniteSet(Under) /\ IsFiniteSet(Holders)
  <1>1. IsFiniteSet(Operations)
    BY ConstantsAssumption, FS_Union DEF Operations
  <1>2. Under \subseteq Operations /\ Holders \subseteq Callers
    BY DEF Under, Holders
  <1> QED
    BY <1>1, <1>2, ConstantsAssumption, FS_Subset

LEMMA CountsInit == Init => Counts
  <1> SUFFICES ASSUME Init PROVE Counts
    OBVIOUS
  <1>1. Under = {} /\ Holders = {}
    BY DEF Init, Under, Holders, InFlight, Operations
  <1> QED
    BY <1>1, FS_EmptySet, ConstantsAssumption DEF Init, Counts

(***************************************************************************)
(* Only Begin, Finish, TakeSlot and ReleaseSlot change who is counted.     *)
(***************************************************************************)
LEMMA CountedKept ==
  ASSUME LocalInv, [Next]_vars,
         ~ \E o \in Operations : Begin(o) \/ Finish(o),
         ~ \E c \in Callers : TakeSlot(c) \/ ReleaseSlot(c)
  PROVE  Under' = Under /\ Holders' = Holders /\ UNCHANGED <<wg, slots>>
  <1>0. Callers \subseteq Operations /\ Streams \subseteq Operations
    BY DEF Operations
  <1> USE <1>0, ConstantsAssumption
      DEF LocalInv, Typed, clientVars, herdrVars, Goto, Fail, Disregard, Shut, Cancel,
          Under, Holders, InFlight
  <1>1. ASSUME NEW o \in Operations, Common(o)
        PROVE  Under' = Under /\ Holders' = Holders /\ UNCHANGED <<wg, slots>>
    <2>1. CASE BeginRefused(o)
      BY <2>1 DEF BeginRefused
    <2>2. CASE Dial(o)
      BY <2>2 DEF Dial
    <2>3. CASE DialFails(o)
      BY <2>3 DEF DialFails
    <2>4. CASE ReadFails(o)
      BY <2>4 DEF ReadFails
    <2>5. CASE Hangup(o)
      BY <2>5 DEF Hangup
    <2> QED
      BY <1>1, <2>1, <2>2, <2>3, <2>4, <2>5 DEF Common
  <1>2. ASSUME NEW c \in Callers, OfCall(c)
        PROVE  Under' = Under /\ Holders' = Holders /\ UNCHANGED <<wg, slots>>
    <2>1. CASE SlotCancelled(c)
      BY <2>1 DEF SlotCancelled
    <2>2. CASE ReadResponse(c)
      BY <2>2 DEF ReadResponse
    <2>3. CASE ConnectionEnds(c) \/ EndFails(c)
      BY <2>3 DEF ConnectionEnds, EndFails
    <2> QED
      BY <1>2, <2>1, <2>2, <2>3 DEF OfCall
  <1>3. ASSUME NEW s \in Streams, OfStream(s) \/ HerdrSendsEvent(s)
        PROVE  Under' = Under /\ Holders' = Holders /\ UNCHANGED <<wg, slots>>
    <2>1. CASE Subscribed(s) \/ SubscriptionRefused(s)
      BY <2>1 DEF Subscribed, SubscriptionRefused
    <2>2. CASE ReadEvent(s) \/ StreamEnds(s)
      BY <2>2 DEF ReadEvent, StreamEnds
    <2>3. CASE Deliver(s) \/ SendCancelled(s)
      BY <2>3 DEF Deliver, SendCancelled
    <2>4. CASE StreamHangup(s) \/ CloseEvents(s)
      BY <2>4 DEF StreamHangup, CloseEvents
    <2>5. CASE HerdrSendsEvent(s)
      BY <2>5 DEF HerdrSendsEvent
    <2> QED
      BY <1>3, <2>1, <2>2, <2>3, <2>4, <2>5 DEF OfStream
  <1>4. ASSUME NEW o \in Operations, Elsewhere(o)
        PROVE  Under' = Under /\ Holders' = Holders /\ UNCHANGED <<wg, slots>>
    BY <1>4 DEF Elsewhere, CallerCancels, CloseCancels, ShutConnection, HerdrAnswers,
                HerdrRambles, HerdrHangsUp
  <1>5. ASSUME NEW k \in Closers, Close(k) \/ CloseCompletes(k) \/ CloseAgain(k)
        PROVE  Under' = Under /\ Holders' = Holders /\ UNCHANGED <<wg, slots>>
    BY <1>5 DEF Close, CloseCompletes, CloseAgain
  <1>6. CASE UNCHANGED vars
    BY <1>6 DEF vars
  <1> QED
    BY <1>1, <1>2, <1>3, <1>4, <1>5, <1>6, NextSorted

LEMMA CountsStep ==
  ASSUME LocalInv, Counts, [Next]_vars
  PROVE  Counts'
  <1>0. Callers \subseteq Operations
    BY DEF Operations
  <1> USE <1>0, ConstantsAssumption DEF LocalInv, Typed, Goto, Counts, InFlight
  <1>1. ASSUME NEW o \in Operations, Begin(o)
        PROVE  Counts'
    <2>1. Under' = Under \cup {o} /\ o \notin Under
      BY <1>1 DEF Under, Begin
    <2>2. Holders' = Holders
      BY <1>1 DEF Holders, Begin
    <2> QED
      BY <1>1, <2>1, <2>2, SetsFinite, FS_AddElement DEF Begin
  <1>2. ASSUME NEW o \in Operations, Finish(o)
        PROVE  Counts'
    <2>1. Under' = Under \ {o} /\ o \in Under
      BY <1>2 DEF Under, Finish
    <2>2. Holders' = Holders
      BY <1>2 DEF Holders, Finish
    <2> QED
      BY <1>2, <2>1, <2>2, SetsFinite, FS_RemoveElement DEF Finish
  <1>3. ASSUME NEW c \in Callers, TakeSlot(c)
        PROVE  Counts'
    <2>1. Holders' = Holders \cup {c} /\ c \notin Holders
      BY <1>3 DEF Holders, TakeSlot
    <2>2. Under' = Under
      BY <1>3 DEF Under, TakeSlot
    <2>3. wg' = wg /\ slots' = slots + 1 /\ slots < MaxConnections
      BY <1>3 DEF TakeSlot
    <2>4. Cardinality(Holders \cup {c}) = Cardinality(Holders) + 1
      BY <2>1, SetsFinite, FS_AddElement
    <2>5. Cardinality(Holders) \in Nat
      BY SetsFinite, FS_CardinalityType
    <2> QED
      BY <2>1, <2>2, <2>3, <2>4, <2>5
  <1>4. ASSUME NEW c \in Callers, ReleaseSlot(c)
        PROVE  Counts'
    <2>1. Holders' = Holders \ {c} /\ c \in Holders
      BY <1>4 DEF Holders, ReleaseSlot
    <2>2. Under' = Under
      BY <1>4 DEF Under, ReleaseSlot
    <2>3. wg' = wg /\ slots' = slots - 1
      BY <1>4 DEF ReleaseSlot
    <2>4. Cardinality(Holders \ {c}) = Cardinality(Holders) - 1
      BY <2>1, SetsFinite, FS_RemoveElement
    <2>5. Cardinality(Holders) \in Nat
      BY SetsFinite, FS_CardinalityType
    <2> QED
      BY <2>1, <2>2, <2>3, <2>4, <2>5
  <1>5. CASE /\ ~ \E o \in Operations : Begin(o) \/ Finish(o)
             /\ ~ \E c \in Callers : TakeSlot(c) \/ ReleaseSlot(c)
    BY <1>5, CountedKept
  <1> QED
    BY <1>1, <1>2, <1>3, <1>4, <1>5

(***************************************************************************)
(* Every variable keeps its type: no count is ever negative.               *)
(***************************************************************************)
THEOREM TypeCorrect == Spec => []TypeOK
  <1>1. LocalInv /\ Counts => TypeOK
    BY SetsFinite, FS_CardinalityType DEF LocalInv, Typed, Counts, TypeOK
  <1>2. LocalInv /\ Counts /\ [Next]_vars => LocalInv' /\ Counts'
    BY LocalInvStep, CountsStep
  <1> QED
    BY LocalInvInit, CountsInit, <1>1, <1>2, PTL DEF Spec

(***************************************************************************)
(* No more connections of calls are open than there are slots.             *)
(***************************************************************************)
THEOREM ConnectionsAreLimited == Spec => []ConnectionsLimited
  <1>1. LocalInv /\ Counts => ConnectionsLimited
    <2> SUFFICES ASSUME LocalInv, Counts PROVE ConnectionsLimited
      OBVIOUS
    <2> DEFINE Connected == {c \in Callers : conn[c] = "open"}
    <2>1. Connected \subseteq Holders
      BY DEF LocalInv, Owned, Places, CallSteps, Holders, Operations
    <2>2. Cardinality(Connected) <= Cardinality(Holders)
      BY <2>1, SetsFinite, FS_Subset
    <2>3. Cardinality(Connected) \in Nat /\ Cardinality(Holders) \in Nat
      BY <2>1, SetsFinite, FS_Subset, FS_CardinalityType
    <2> QED
      BY <2>2, <2>3, ConstantsAssumption DEF Counts, ConnectionsLimited
  <1>2. LocalInv /\ Counts /\ [Next]_vars => LocalInv' /\ Counts'
    BY LocalInvStep, CountsStep
  <1> QED
    BY LocalInvInit, CountsInit, <1>1, <1>2, PTL DEF Spec

-----------------------------------------------------------------------------
(* Close.                                                                  *)

(***************************************************************************)
(* Whoever waits has closed the client, and once the wait is over nothing  *)
(* is under way, which no later operation changes.                         *)
(***************************************************************************)
Closing ==
    /\ \A k \in Closers : pc[k] = "await wg" => closed
    /\ closeDone => closed /\ Under = {}

ClientInv == LocalInv /\ Counts /\ Closing

LEMMA ClosingStep ==
  ASSUME ClientInv, [Next]_vars
  PROVE  Closing'
  <1> USE ConstantsAssumption DEF ClientInv, LocalInv, Typed, Goto, Closing
  <1>1. ASSUME NEW o \in Operations, Common(o) \/ Elsewhere(o)
        PROVE  /\ UNCHANGED <<closed, closeDone>>
               /\ \A k \in Closers : pc'[k] = pc[k]
    BY <1>1 DEF Common, Elsewhere, Begin, BeginRefused, Dial, DialFails, ReadFails, Hangup,
                Finish, CallerCancels, CloseCancels, ShutConnection, HerdrAnswers,
                HerdrRambles, HerdrHangsUp, Fail, Cancel, clientVars
  <1>2. ASSUME NEW c \in Callers, OfCall(c)
        PROVE  /\ UNCHANGED <<closed, closeDone>>
               /\ \A k \in Closers : pc'[k] = pc[k]
    BY <1>2 DEF OfCall, TakeSlot, SlotCancelled, ReadResponse, ConnectionEnds, EndFails,
                ReleaseSlot, Fail, clientVars, Operations
  <1>3. ASSUME NEW s \in Streams, OfStream(s) \/ HerdrSendsEvent(s)
        PROVE  /\ UNCHANGED <<closed, closeDone>>
               /\ \A k \in Closers : pc'[k] = pc[k]
    BY <1>3 DEF OfStream, Subscribed, SubscriptionRefused, ReadEvent, StreamEnds, Deliver,
                SendCancelled, StreamHangup, CloseEvents, HerdrSendsEvent, Fail, clientVars,
                Operations
  <1>4. ASSUME NEW k \in Closers, Close(k) \/ CloseAgain(k)
        PROVE  Closing'
    <2>1. Under' = Under
      BY <1>4 DEF Close, CloseAgain, Under, InFlight
    <2>2. CASE Close(k)
      BY <2>1, <2>2 DEF Close
    <2>3. CASE CloseAgain(k)
      BY <2>1, <2>3 DEF CloseAgain, clientVars
    <2> QED
      BY <1>4, <2>2, <2>3
  <1>5. ASSUME NEW k \in Closers, CloseCompletes(k)
        PROVE  Closing'
    <2>1. Under' = Under
      BY <1>5 DEF CloseCompletes, Under, InFlight
    <2>2. Under = {}
      BY <1>5, SetsFinite, FS_EmptySet DEF CloseCompletes, Counts
    <2> QED
      BY <1>5, <2>1, <2>2 DEF CloseCompletes
  <1>6. ASSUME closeDone, UNCHANGED <<closed, closeDone>>
        PROVE  Under' = {}
    <2>1. ~ \E o \in Operations : Begin(o) \/ Finish(o)
      BY <1>6 DEF Begin, Finish, Under, InFlight
    <2>2. ~ \E c \in Callers : TakeSlot(c) \/ ReleaseSlot(c)
      BY <1>6 DEF TakeSlot, ReleaseSlot, Under, InFlight, Operations
    <2> QED
      BY <1>6, <2>1, <2>2, CountedKept
  <1>7. ASSUME UNCHANGED <<closed, closeDone>>,
               \A k \in Closers : pc'[k] = pc[k]
        PROVE  Closing'
    BY <1>6, <1>7
  <1>8. CASE UNCHANGED vars
    BY <1>7, <1>8 DEF vars
  <1> HIDE DEF Closing
  <1> QED
    BY <1>1, <1>2, <1>3, <1>4, <1>5, <1>7, <1>8, NextSorted

(***************************************************************************)
(* When Close returns nothing is under way or open, and nothing will be.   *)
(***************************************************************************)
THEOREM CloseLeavesNothing == Spec => []CloseIsFinal
  <1>1. Init => ClientInv
    BY LocalInvInit, CountsInit, ConstantsAssumption DEF Init, ClientInv, Closing
  <1>2. ClientInv /\ [Next]_vars => ClientInv'
    BY LocalInvStep, CountsStep, ClosingStep DEF ClientInv
  <1>3. ClientInv => CloseIsFinal
    BY DEF ClientInv, Closing, LocalInv, Owned, Under, InFlight, CloseIsFinal, Operations
  <1> QED
    BY <1>1, <1>2, <1>3, PTL DEF Spec

=============================================================================
