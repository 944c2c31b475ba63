----------------------- MODULE PlaybackPipelineProof -----------------------
(***************************************************************************)
(* What PlaybackPipeline promises, for every budget of calls, stalls and   *)
(* faults and for both kinds of buffer.                                    *)
(*                                                                         *)
(* A state change of the pipeline that could not be done at once is left   *)
(* to a sink's preroll or to a continuation on the pool.  A new call       *)
(* changes the target of a change under way and may cancel its             *)
(* continuation; yet, while nothing fails, no change is left that nobody   *)
(* would complete.                                                         *)
(***************************************************************************)
EXTENDS PlaybackPipeline, TLAPS

(***************************************************************************)
(* What the functions of the bin return.                                   *)
(***************************************************************************)

(* The pipeline posts its changes of state and the end of the stream;      *)
(* errors come from its elements.                                          *)
Spoken == {m \in Message : m.type \in {"state", "eos"}}
Harmless == {m \in Message : m.type \notin {"error", "lost", "failed"}}

(* A bin and the messages it posts.                                        *)
Posted(r) == r.bin \in BinType /\ r.msgs \in Seq(Spoken)

LEMMA States == GstState = {VOID, NULL, READY, PAUSED, PLAYING}
BY SMT DEF GstState, VOID, NULL, READY, PAUSED, PLAYING

LEMMA NextIsState ==
    ASSUME NEW s \in GstState, NEW t \in GstState
    PROVE  GetNext(s, t) \in GstState
BY SMT DEF GetNext, GstState, VOID, PLAYING

LEMMA ChangedIsSpoken ==
    ASSUME NEW s \in GstState, NEW t \in GstState, NEW u \in GstState
    PROVE  Changed(s, t, u) \in Spoken
BY DEF Changed, Message, Spoken

LEMMA SequencesOf ==
    ASSUME NEW S
    PROVE  /\ <<>> \in Seq(S)
           /\ \A m \in S : <<m>> \in Seq(S)
           /\ \A m, n \in S : <<m, n>> \in Seq(S)
           /\ \A s, t \in Seq(S) : s \o t \in Seq(S)
           /\ \A s \in Seq(S) : s # <<>> => Head(s) \in S /\ Tail(s) \in Seq(S)
OBVIOUS

LEMMA SequencesOfSpoken ==
    /\ <<>> \in Seq(Spoken)
    /\ \A m \in Spoken : <<m>> \in Seq(Spoken)
    /\ \A s, t \in Seq(Spoken) : s \o t \in Seq(Spoken)
BY SequencesOf

LEMMA SequencesOfMessages ==
    /\ <<>> \in Seq(Message)
    /\ \A m \in Message : <<m>> \in Seq(Message)
    /\ \A m, n \in Message : <<m, n>> \in Seq(Message)
    /\ \A s, t \in Seq(Message) : s \o t \in Seq(Message)
    /\ \A s \in Seq(Message) : s # <<>> => Head(s) \in Message /\ Tail(s) \in Seq(Message)
    /\ Seq(Spoken) \subseteq Seq(Message) /\ Seq(Spoken) \subseteq Seq(Harmless)
<1>1. Spoken \subseteq Message /\ Spoken \subseteq Harmless
  BY DEF Spoken, Harmless
<1>2. \A S, T : S \subseteq T => Seq(S) \subseteq Seq(T)
  OBVIOUS
<1> QED
  BY <1>1, <1>2, SequencesOf

LEMMA ContinueStateTyped ==
    ASSUME NEW b \in BinType
    PROVE  Posted(continue_state(b))
<1>1. continue_state(b).bin \in BinType
  BY States DEF continue_state, BinType
<1>2. b.state \in GstState /\ b.next \in GstState /\ VOID \in GstState
  BY States DEF BinType
<1>3. Changed(b.state, b.next, VOID) \in Spoken
  BY <1>2, ChangedIsSpoken
<1> QED
  BY <1>1, <1>3, SequencesOfSpoken DEF Posted, continue_state

LEMMA ChangeStateTyped ==
    ASSUME NEW b \in BinType, NEW r
    PROVE  Posted(change_state(b, r))
<1>1. [type |-> "eos"] \in Spoken
  BY DEF Message, Spoken
<1>2. [b EXCEPT !.async = TRUE] \in BinType
  BY DEF BinType
<1>3. Posted(continue_state(b))
  BY ContinueStateTyped
<1> QED
  BY <1>1, <1>2, <1>3, SequencesOfSpoken DEF Posted, change_state

LEMMA ForgetTyped ==
    ASSUME NEW b \in BinType
    PROVE  Forget(b) \in BinType
BY States DEF Forget, BinType

LEMMA SetStateTyped ==
    ASSUME NEW b \in BinType, NEW s \in GstState, NEW r \in set_state(b, s)
    PROVE  Posted(r)
<1> DEFINE b0 == Forget(b)
           b1 == [b0 EXCEPT !.target = s, !.pending = s, !.cont = IF b.target # s THEN VOID ELSE @]
           current == IF b0.pending # VOID /\ b0.next > s /\ b0.ret = "async" THEN b0.next ELSE b0.state
           b2 == [b1 EXCEPT !.next = s, !.ret = IF current # s THEN "async" ELSE @]
<1>1. b0 \in BinType
  BY ForgetTyped
<1>2. b1 \in BinType
  <2> HIDE DEF b0
  <2> QED
    BY <1>1, States DEF BinType
<1>3. b2 \in BinType
  <2> HIDE DEF b1, current
  <2> QED
    BY <1>2 DEF BinType
<1>4. CASE b0.state = NULL
  <2>1. r = [bin |-> [b1 EXCEPT !.state = READY, !.next = PAUSED, !.ret = "async", !.async = TRUE],
             msgs |-> <<Changed(NULL, READY, s)>>]
    BY <1>4 DEF set_state
  <2>2. Changed(NULL, READY, s) \in Spoken
    BY States, ChangedIsSpoken
  <2> HIDE DEF b1
  <2>3. r.bin \in BinType
    BY <1>2, <2>1, States DEF BinType
  <2> QED
    BY <2>1, <2>2, <2>3, SequencesOfSpoken DEF Posted
<1>5. CASE b0.state # NULL /\ WasBusy(b0, s)
  <2>1. r = [bin |-> [b1 EXCEPT !.ret = "async"], msgs |-> <<>>]
    BY <1>5 DEF set_state
  <2> HIDE DEF b1
  <2>2. r.bin \in BinType
    BY <1>2, <2>1 DEF BinType
  <2> QED
    BY <2>1, <2>2, SequencesOfSpoken DEF Posted
<1>6. CASE b0.state # NULL /\ ~WasBusy(b0, s)
  <2>1. r \in {change_state(b2, x) : x \in SinkReturn(b)}
    BY <1>6 DEF set_state
  <2> HIDE DEF b2
  <2> QED
    BY <1>3, <2>1, ChangeStateTyped
<1> QED
  BY <1>4, <1>5, <1>6

LEMMA SetStateFailedTyped ==
    ASSUME NEW b \in BinType, NEW s \in GstState
    PROVE  set_state_failed(b, s) \in BinType
BY States DEF set_state_failed, BinType

LEMMA LostStateTyped ==
    ASSUME NEW b \in BinType
    PROVE  Posted(lost_state(b))
<1> DEFINE new == IF b.state = PLAYING THEN PAUSED ELSE b.state
           f == [b EXCEPT !.async = TRUE, !.eos = FALSE]
<1>1. new \in GstState /\ f \in BinType
  BY States DEF BinType
<1>2. Changed(new, new, new) \in Spoken
  BY <1>1, ChangedIsSpoken
<1> HIDE DEF new
<1>3. [f EXCEPT !.state = new, !.next = new, !.pending = new, !.ret = "async"] \in BinType
  BY <1>1 DEF BinType
<1> QED
  BY <1>1, <1>2, <1>3, SequencesOfSpoken DEF Posted, lost_state, new

LEMMA AsyncDoneTyped ==
    ASSUME NEW b \in BinType, NEW atEnd \in BOOLEAN
    PROVE  Posted(async_done(b, atEnd))
<1> DEFINE f == [b EXCEPT !.async = FALSE, !.eos = atEnd]
           current == IF b.next = PLAYING THEN b.state ELSE b.next
           done == b.target = current
           pending == IF done THEN VOID ELSE b.target
           next == IF done THEN VOID ELSE GetNext(b.state, b.target)
           ret == IF done THEN "success" ELSE "async"
<1>1. f \in BinType
  BY DEF BinType
<1>2. b.state \in GstState /\ b.next \in GstState /\ b.target \in GstState
  BY DEF BinType
<1>3. current \in GstState /\ pending \in GstState /\ next \in GstState
  BY <1>2, NextIsState, States
<1>4. Changed(b.state, b.next, pending) \in Spoken
  BY <1>2, <1>3, ChangedIsSpoken
<1>5. ret \in {"success", "async", "failure"}
  OBVIOUS
<1>6. async_done(b, atEnd) =
        IF b.ret = "failure" \/ b.pending = VOID THEN [bin |-> f, msgs |-> <<>>]
        ELSE [bin |-> [f EXCEPT !.state = current, !.pending = pending, !.ret = ret,
                                !.next = next, !.cont = pending],
              msgs |-> IF b.next # PLAYING /\ (b.state # b.next \/ b.ret = "async")
                       THEN <<Changed(b.state, b.next, pending)>> ELSE <<>>]
  BY DEF async_done
<1> HIDE DEF current, pending, next, ret
<1>7. [f EXCEPT !.state = current, !.pending = pending, !.ret = ret,
                !.next = next, !.cont = pending] \in BinType
  BY <1>1, <1>3, <1>5 DEF BinType
<1> QED
  BY <1>1, <1>4, <1>6, <1>7, SequencesOfSpoken DEF Posted

LEMMA ContinueTyped ==
    ASSUME NEW b \in BinType, NEW r \in continue_func(b)
    PROVE  Posted(r)
<1> DEFINE f == [b EXCEPT !.next = GetNext(b.state, b.cont), !.pending = b.cont,
                          !.ret = "async", !.cont = VOID]
<1>1. GetNext(b.state, b.cont) \in GstState
  BY NextIsState DEF BinType
<1>2. f \in BinType
  BY <1>1, States DEF BinType
<1>3. r \in {change_state(f, x) : x \in SinkReturn(b)}
  BY DEF continue_func
<1> HIDE DEF f
<1> QED
  BY <1>2, <1>3, ChangeStateTyped

(***************************************************************************)
(* Type correctness.                                                       *)
(***************************************************************************)

PlayerTypes ==
    p \in [state: PlayerState, pending: {"Unknown", "Paused", "Stopped"},
           seek: BOOLEAN, stall: BOOLEAN, rate: {0, 1}, resume: BOOLEAN,
           eos: BOOLEAN, full: BOOLEAN, buf: BOOLEAN, ignore: BOOLEAN,
           mode: {"pb", "hls"}]

PipelineTypes == bin \in BinType /\ bus \in Seq(Message)

PlaceTypes ==
    /\ pc \in [Thread -> AppPlace \cup BusPlace] /\ pc["app"] \in AppPlace /\ pc["bus"] \in BusPlace
    /\ loc \in [Thread -> Locals]
    /\ loc["app"].ret # "update" /\ loc["bus"].ret \in {"idle", "update"}

OutsideTypes ==
    /\ net \in {"ok", "low", "full", "done"}
    /\ env \in [calls: Nat, stalls: Nat, faults: Nat, rush: Nat,
                rushed: BOOLEAN, stalled: BOOLEAN, crowded: BOOLEAN, faulted: BOOLEAN]
    /\ hist \in [asked: Calls \cup {"none"}, finish: BOOLEAN, left: BOOLEAN]

LEMMA TypeParts ==
    /\ TypeOK <=> PlayerTypes /\ PipelineTypes /\ PlaceTypes /\ OutsideTypes
    /\ TypeOK' <=> PlayerTypes' /\ PipelineTypes' /\ PlaceTypes' /\ OutsideTypes'
BY DEF TypeOK, PlayerTypes, PipelineTypes, PlaceTypes, OutsideTypes

LEMMA InitTypes == Init => TypeOK
<1> SUFFICES ASSUME Init PROVE TypeOK
  OBVIOUS
<1>1. PlayerTypes
  BY PipelineAssumption DEF Init, PlayerTypes, PlayerState
<1>2. PipelineTypes
  <2>1. bin \in BinType
    BY States DEF Init, NullBin, BinType
  <2>2. Buffering(FALSE, FALSE) \in Message
    BY DEF Buffering, Message
  <2> QED
    BY <2>1, <2>2, SequencesOfMessages DEF Init, PipelineTypes
<1>3. PlaceTypes
  <2>1. Idle \in Locals
    BY DEF Idle, Locals, Message
  <2>2. loc \in [Thread -> Locals] /\ \A t \in Thread : loc[t].ret = "idle"
    BY <2>1 DEF Init, Idle
  <2>3. pc \in [Thread -> AppPlace \cup BusPlace] /\ \A t \in Thread : pc[t] = "idle"
    <3>1. pc = [t \in Thread |-> "idle"]
      BY DEF Init
    <3>2. "idle" \in AppPlace \cup BusPlace
      BY DEF AppPlace
    <3> QED
      BY <3>1, <3>2
  <2> QED
    BY <2>2, <2>3 DEF PlaceTypes, Thread, AppPlace, BusPlace
<1>4. OutsideTypes
  <2>1. PICK b \in Budgets :
           env = [calls |-> b.calls, stalls |-> b.stalls, faults |-> b.faults, rush |-> b.rush,
                  rushed |-> FALSE, stalled |-> FALSE, crowded |-> FALSE, faulted |-> FALSE]
    BY DEF Init
  <2>2. b \in [calls: Nat, stalls: Nat, faults: Nat, rush: Nat]
    BY PipelineAssumption
  <2> QED
    BY <2>1, <2>2 DEF Init, OutsideTypes
<1> QED
  BY <1>1, <1>2, <1>3, <1>4, TypeParts

(* A state change asked for by a thread.                                   *)
LEMMA SetStateKeeps ==
    ASSUME PipelineTypes, PlaceTypes, OutsideTypes,
           NEW t \in Thread, NEW s \in {PAUSED, PLAYING}, SetState(t, s)
    PROVE  /\ PipelineTypes'
           /\ loc' \in [Thread -> Locals]
           /\ \A u \in Thread : loc'[u].ret = loc[u].ret /\ loc'[u].then = loc[u].then
           /\ env' \in [calls: Nat, stalls: Nat, faults: Nat, rush: Nat,
                        rushed: BOOLEAN, stalled: BOOLEAN, crowded: BOOLEAN, faulted: BOOLEAN]
<1>1. s \in GstState
  BY States
<1>2. CASE /\ \E r \in set_state(bin, s) : bin' = r.bin /\ bus' = bus \o r.msgs
           /\ loc' = [loc EXCEPT ![t].ok = TRUE]
           /\ UNCHANGED env
  <2>1. PICK r \in set_state(bin, s) : bin' = r.bin /\ bus' = bus \o r.msgs
    BY <1>2
  <2>2. Posted(r)
    BY <1>1, SetStateTyped DEF PipelineTypes
  <2>3. PipelineTypes'
    BY <2>1, <2>2, SequencesOfMessages DEF PipelineTypes, Posted
  <2>4. /\ loc' \in [Thread -> Locals]
        /\ \A u \in Thread : loc'[u].ret = loc[u].ret /\ loc'[u].then = loc[u].then
    BY <1>2 DEF PlaceTypes, Locals
  <2> QED
    BY <1>2, <2>3, <2>4 DEF OutsideTypes
<1>3. CASE /\ env.faults > 0 /\ ~WasBusy(Forget(bin), s)
           /\ env' = [env EXCEPT !.faults = @ - 1, !.faulted = TRUE]
           /\ bin' = set_state_failed(bin, s)
           /\ loc' = [loc EXCEPT ![t].ok = FALSE]
           /\ UNCHANGED bus
  <2>1. PipelineTypes'
    BY <1>1, <1>3, SetStateFailedTyped DEF PipelineTypes
  <2>2. env' \in [calls: Nat, stalls: Nat, faults: Nat, rush: Nat,
                 rushed: BOOLEAN, stalled: BOOLEAN, crowded: BOOLEAN, faulted: BOOLEAN]
    <3>1. env.faults - 1 \in Nat
      BY <1>3 DEF OutsideTypes
    <3> QED
      BY <1>3, <3>1 DEF OutsideTypes
  <2>3. /\ loc' \in [Thread -> Locals]
        /\ \A u \in Thread : loc'[u].ret = loc[u].ret /\ loc'[u].then = loc[u].then
    BY <1>3 DEF PlaceTypes, Locals
  <2> QED
    BY <2>1, <2>2, <2>3
<1> QED
  BY <1>2, <1>3 DEF SetState

(* A call of the application.                                              *)
LEMMA CallTypes ==
    ASSUME TypeOK, NEW c, NEW l \in AppPlace, NEW locals \in Locals,
           locals.ret # "update", Call(c, l, locals)
    PROVE  TypeOK'
<1> USE TypeParts
<1>1. PlayerTypes' /\ PipelineTypes'
  BY DEF Call, PlayerTypes, PipelineTypes
<1>2. PlaceTypes'
  BY DEF Call, Go, PlaceTypes, Thread, AppPlace, BusPlace
<1>3. OutsideTypes'
  <2>1. env.calls - 1 \in Nat /\ (~Settled => env.rush - 1 \in Nat)
    BY DEF Call, OutsideTypes
  <2>2. env' \in [calls: Nat, stalls: Nat, faults: Nat, rush: Nat,
                 rushed: BOOLEAN, stalled: BOOLEAN, crowded: BOOLEAN, faulted: BOOLEAN]
    <3> DEFINE rush == IF Settled THEN env.rush ELSE env.rush - 1
               rushed == env.rushed \/ ~Settled
    <3>1. rush \in Nat /\ rushed \in BOOLEAN
      BY <2>1 DEF OutsideTypes
    <3>2. env' = [env EXCEPT !.calls = env.calls - 1, !.rush = rush, !.rushed = rushed]
      BY DEF Call
    <3> HIDE DEF rush, rushed
    <3> QED
      BY <2>1, <3>1, <3>2 DEF OutsideTypes
  <2>3. hist' \in [asked: Calls \cup {"none"}, finish: BOOLEAN, left: BOOLEAN]
    BY DEF Call, OutsideTypes
  <2> QED
    BY <2>2, <2>3 DEF Call, OutsideTypes
<1> QED
  BY <1>1, <1>2, <1>3

LEMMA CallsTypes ==
    ASSUME TypeOK, PlayCall \/ PauseCall \/ StopCall \/ SeekCall \/ FinishCall
                     \/ SetRateZeroCall \/ SetRateCall
    PROVE  TypeOK'
<1>1. Idle \in Locals /\ Idle.ret = "idle"
  BY DEF Idle, Locals, Message
<1>2. {"play", "pause1", "stop1", "seek1", "ipause", "rate1"} \subseteq AppPlace
  BY DEF AppPlace
<1>3. CASE SetRateZeroCall
  <2>1. PICK flag \in BOOLEAN : Call("rate0", "pause1", [Idle EXCEPT !.then = "rate0", !.flag = flag])
    BY <1>3 DEF SetRateZeroCall
  <2>2. /\ [Idle EXCEPT !.then = "rate0", !.flag = flag] \in Locals
        /\ [Idle EXCEPT !.then = "rate0", !.flag = flag].ret # "update"
    BY <1>1 DEF Locals
  <2> QED
    BY <1>2, <2>1, <2>2, CallTypes
<1>4. CASE PlayCall \/ PauseCall \/ StopCall \/ SeekCall \/ FinishCall \/ SetRateCall
  BY <1>1, <1>2, <1>4, CallTypes DEF PlayCall, PauseCall, StopCall, SeekCall, FinishCall, SetRateCall
<1> QED
  BY <1>3, <1>4

(* What both threads do: Play() and InternalPause().                       *)
LEMMA ThreadTypes ==
    ASSUME TypeOK, NEW t \in Thread,
           PlayLock(t) \/ PlaySet(t) \/ InternalPauseLock(t) \/ InternalPauseSet(t)
    PROVE  TypeOK'
<1> USE TypeParts
<1>1. CASE PlayLock(t)
  <2>1. PlayerTypes'
    BY <1>1 DEF PlayLock, PlayReady, PlayerTypes, PlayerState
  <2>2. PipelineTypes'
    BY <1>1 DEF PlayLock, PlayReady, PipelineTypes
  <2>3. PlaceTypes'
    BY <1>1 DEF PlayLock, PlayReady, Go, PlaceTypes, Thread, AppPlace, BusPlace, Locals
  <2>4. OutsideTypes'
    BY <1>1 DEF PlayLock, PlayReady, OutsideTypes
  <2> QED
    BY <2>1, <2>2, <2>3, <2>4, TypeParts
<1>2. CASE PlaySet(t)
  <2>1. \/ UNCHANGED <<bin, bus, env, loc>>
        \/ SetState(t, PLAYING) /\ UNCHANGED p
    BY <1>2 DEF PlaySet
  <2>2. PLAYING \in {PAUSED, PLAYING} /\ PAUSED \in {PAUSED, PLAYING}
    OBVIOUS
  <2>3. /\ PipelineTypes'
        /\ loc' \in [Thread -> Locals]
        /\ \A u \in Thread : loc'[u].ret = loc[u].ret
        /\ env' \in [calls: Nat, stalls: Nat, faults: Nat, rush: Nat,
                     rushed: BOOLEAN, stalled: BOOLEAN, crowded: BOOLEAN, faulted: BOOLEAN]
    <3>1. CASE UNCHANGED <<bin, bus, env, loc>>
      BY <3>1 DEF PipelineTypes, PlaceTypes, OutsideTypes
    <3>2. CASE SetState(t, PLAYING)
      BY <3>2, <2>2, SetStateKeeps
    <3> QED
      BY <2>1, <3>1, <3>2
  <2>4. PlayerTypes'
    BY <1>2 DEF PlaySet, PlayerTypes
  <2>5. PipelineTypes'
    BY <1>2, <2>3
  <2>6. PlaceTypes'
    BY <1>2, <2>3 DEF PlaySet, Go, PlaceTypes, Thread, AppPlace, BusPlace, Locals
  <2>7. OutsideTypes'
    BY <1>2, <2>3 DEF PlaySet, OutsideTypes
  <2> QED
    BY <2>4, <2>5, <2>6, <2>7, TypeParts
<1>3. CASE InternalPauseLock(t)
  <2>1. PlayerTypes'
    BY <1>3 DEF InternalPauseLock, PlayerTypes, PlayerState
  <2>2. PipelineTypes'
    BY <1>3 DEF InternalPauseLock, PipelineTypes
  <2>3. PlaceTypes'
    BY <1>3 DEF InternalPauseLock, Go, PlaceTypes, Thread, AppPlace, BusPlace, Locals
  <2>4. OutsideTypes'
    BY <1>3 DEF InternalPauseLock, OutsideTypes
  <2> QED
    BY <2>1, <2>2, <2>3, <2>4, TypeParts
<1>4. CASE InternalPauseSet(t)
  <2>1. \/ UNCHANGED <<bin, bus, env, loc>>
        \/ SetState(t, PAUSED) /\ UNCHANGED p
    BY <1>4 DEF InternalPauseSet
  <2>2. PLAYING \in {PAUSED, PLAYING} /\ PAUSED \in {PAUSED, PLAYING}
    OBVIOUS
  <2>3. /\ PipelineTypes'
        /\ loc' \in [Thread -> Locals]
        /\ \A u \in Thread : loc'[u].ret = loc[u].ret
        /\ env' \in [calls: Nat, stalls: Nat, faults: Nat, rush: Nat,
                     rushed: BOOLEAN, stalled: BOOLEAN, crowded: BOOLEAN, faulted: BOOLEAN]
    <3>1. CASE UNCHANGED <<bin, bus, env, loc>>
      BY <3>1 DEF PipelineTypes, PlaceTypes, OutsideTypes
    <3>2. CASE SetState(t, PAUSED)
      BY <3>2, <2>2, SetStateKeeps
    <3> QED
      BY <2>1, <3>1, <3>2
  <2>4. PlayerTypes'
    BY <1>4 DEF InternalPauseSet, PlayerTypes
  <2>5. PipelineTypes'
    BY <1>4, <2>3
  <2>6. PlaceTypes'
    BY <1>4, <2>3 DEF InternalPauseSet, Go, PlaceTypes, Thread, AppPlace, BusPlace, Locals
  <2>7. OutsideTypes'
    BY <1>4, <2>3 DEF InternalPauseSet, OutsideTypes
  <2> QED
    BY <2>4, <2>5, <2>6, <2>7, TypeParts
<1> QED
  BY <1>1, <1>2, <1>3, <1>4

(* The application's calls, step by step.                                  *)
LEMMA AppTypes ==
    ASSUME TypeOK, \/ PauseCheck \/ PauseLock \/ PauseEnd \/ StopCheck \/ StopLock \/ StopEnd
                   \/ SeekLock \/ SeekResume \/ SetRateZero \/ SetRate
    PROVE  TypeOK'
<1> USE TypeParts
<1>1. CASE PauseCheck
  <2>1. PlayerTypes'
    BY <1>1 DEF PauseCheck, PlayerTypes, PlayerState
  <2>2. PipelineTypes'
    BY <1>1 DEF PauseCheck, PipelineTypes
  <2>3. PlaceTypes'
    BY <1>1 DEF PauseCheck, Go, PlaceTypes, Thread, AppPlace, BusPlace, Locals
  <2>4. OutsideTypes'
    BY <1>1 DEF PauseCheck, OutsideTypes
  <2> QED
    BY <2>1, <2>2, <2>3, <2>4, TypeParts
<1>2. CASE PauseLock
  <2>1. PlayerTypes'
    BY <1>2 DEF PauseLock, PlayerTypes, PlayerState
  <2>2. PipelineTypes'
    BY <1>2 DEF PauseLock, PipelineTypes
  <2>3. PlaceTypes'
    BY <1>2 DEF PauseLock, Go, PlaceTypes, Thread, AppPlace, BusPlace, Locals
  <2>4. OutsideTypes'
    BY <1>2 DEF PauseLock, OutsideTypes
  <2> QED
    BY <2>1, <2>2, <2>3, <2>4, TypeParts
<1>3. CASE PauseEnd
  <2>1. PlayerTypes'
    BY <1>3 DEF PauseEnd, PlayerTypes, PlayerState
  <2>2. PipelineTypes'
    BY <1>3 DEF PauseEnd, PipelineTypes
  <2>3. PlaceTypes'
    BY <1>3 DEF PauseEnd, Go, PlaceTypes, Thread, AppPlace, BusPlace, Locals
  <2>4. OutsideTypes'
    BY <1>3 DEF PauseEnd, OutsideTypes
  <2> QED
    BY <2>1, <2>2, <2>3, <2>4, TypeParts
<1>4. CASE StopCheck
  <2>1. PlayerTypes'
    BY <1>4 DEF StopCheck, PlayerTypes, PlayerState
  <2>2. PipelineTypes'
    BY <1>4 DEF StopCheck, PipelineTypes
  <2>3. PlaceTypes'
    BY <1>4 DEF StopCheck, Go, PlaceTypes, Thread, AppPlace, BusPlace, Locals
  <2>4. OutsideTypes'
    BY <1>4 DEF StopCheck, OutsideTypes
  <2> QED
    BY <2>1, <2>2, <2>3, <2>4, TypeParts
<1>5. CASE StopLock
  <2>1. PlayerTypes'
    BY <1>5 DEF StopLock, PlayerTypes, PlayerState
  <2>2. PipelineTypes'
    BY <1>5 DEF StopLock, PipelineTypes
  <2>3. PlaceTypes'
    BY <1>5 DEF StopLock, Go, PlaceTypes, Thread, AppPlace, BusPlace, Locals
  <2>4. OutsideTypes'
    BY <1>5 DEF StopLock, OutsideTypes
  <2> QED
    BY <2>1, <2>2, <2>3, <2>4, TypeParts
<1>6. CASE StopEnd
  <2>1. PlayerTypes'
    BY <1>6 DEF StopEnd, PlayerTypes, PlayerState
  <2>2. PipelineTypes'
    BY <1>6 DEF StopEnd, PipelineTypes
  <2>3. PlaceTypes'
    BY <1>6 DEF StopEnd, Go, PlaceTypes, Thread, AppPlace, BusPlace, Locals
  <2>4. OutsideTypes'
    BY <1>6 DEF StopEnd, OutsideTypes
  <2> QED
    BY <2>1, <2>2, <2>3, <2>4, TypeParts
<1>7. CASE SeekLock
  <2>1. PlayerTypes'
    BY <1>7 DEF SeekLock, PlayerTypes, PlayerState
  <2>2. PipelineTypes'
    BY <1>7 DEF SeekLock, PipelineTypes
  <2>3. PlaceTypes'
    BY <1>7 DEF SeekLock, Go, PlaceTypes, Thread, AppPlace, BusPlace, Locals
  <2>4. OutsideTypes'
    BY <1>7 DEF SeekLock, OutsideTypes
  <2> QED
    BY <2>1, <2>2, <2>3, <2>4, TypeParts
<1>8. CASE SeekResume
  <2>1. PlayerTypes'
    BY <1>8 DEF SeekResume, PlayerTypes, PlayerState
  <2>2. PipelineTypes'
    BY <1>8 DEF SeekResume, PipelineTypes
  <2>3. PlaceTypes'
    BY <1>8 DEF SeekResume, Go, PlaceTypes, Thread, AppPlace, BusPlace, Locals
  <2>4. OutsideTypes'
    BY <1>8 DEF SeekResume, OutsideTypes
  <2> QED
    BY <2>1, <2>2, <2>3, <2>4, TypeParts
<1>9. CASE SetRateZero
  <2>1. PlayerTypes'
    BY <1>9 DEF SetRateZero, PlayerTypes, PlaceTypes, Thread, Locals
  <2>2. PipelineTypes'
    BY <1>9 DEF SetRateZero, PipelineTypes
  <2>3. PlaceTypes'
    BY <1>9 DEF SetRateZero, Go, PlaceTypes, Thread, AppPlace, BusPlace, Locals
  <2>4. OutsideTypes'
    BY <1>9 DEF SetRateZero, OutsideTypes
  <2> QED
    BY <2>1, <2>2, <2>3, <2>4, TypeParts
<1>10. CASE SetRate
  <2>1. PlayerTypes'
    BY <1>10 DEF SetRate, PlayerTypes, PlayerState
  <2>2. PipelineTypes'
    BY <1>10 DEF SetRate, PipelineTypes
  <2>3. PlaceTypes'
    BY <1>10 DEF SetRate, Go, PlaceTypes, Thread, AppPlace, BusPlace, Locals
  <2>4. OutsideTypes'
    BY <1>10 DEF SetRate, OutsideTypes
  <2> QED
    BY <2>1, <2>2, <2>3, <2>4, TypeParts
<1> QED
  BY <1>1, <1>2, <1>3, <1>4, <1>5, <1>6, <1>7, <1>8, <1>9, <1>10

(* A seek of the pipeline.                                                 *)
LEMMA SeekKeeps ==
    ASSUME PipelineTypes, PlaceTypes, OutsideTypes, NEW t \in Thread, SeekPipeline(t)
    PROVE  /\ PipelineTypes'
           /\ loc' \in [Thread -> Locals]
           /\ \A u \in Thread : loc'[u].ret = loc[u].ret
           /\ hist' \in [asked: Calls \cup {"none"}, finish: BOOLEAN, left: BOOLEAN]
<1>1. PipelineTypes'
  <2>1. CASE bin' = lost_state(bin).bin /\ bus' = bus \o lost_state(bin).msgs
    <3>1. Posted(lost_state(bin))
      BY LostStateTyped DEF PipelineTypes
    <3> QED
      BY <2>1, <3>1, SequencesOfMessages DEF Posted, PipelineTypes
  <2>2. CASE UNCHANGED <<bin, bus>>
    BY <2>2 DEF PipelineTypes
  <2> QED
    BY <2>1, <2>2 DEF SeekPipeline
<1>2. /\ loc' \in [Thread -> Locals]
      /\ \A u \in Thread : loc'[u].ret = loc[u].ret
  <2>1. PICK ok \in BOOLEAN : loc' = [loc EXCEPT ![t].ok = ok]
    BY DEF SeekPipeline
  <2> QED
    BY <2>1 DEF PlaceTypes, Locals
<1>3. hist' \in [asked: Calls \cup {"none"}, finish: BOOLEAN, left: BOOLEAN]
  BY DEF SeekPipeline, OutsideTypes
<1> QED
  BY <1>1, <1>2, <1>3

LEMMA SeekTypes ==
    ASSUME TypeOK, SeekFlush \/ SeekSet \/ SetRateSeek
    PROVE  TypeOK'
<1> USE TypeParts
<1>1. CASE SeekFlush
  <2>1. /\ PipelineTypes'
        /\ loc' \in [Thread -> Locals]
        /\ \A u \in Thread : loc'[u].ret = loc[u].ret
        /\ hist' \in [asked: Calls \cup {"none"}, finish: BOOLEAN, left: BOOLEAN]
    BY <1>1, SeekKeeps DEF SeekFlush, Thread
  <2>2. PlayerTypes'
    BY <1>1 DEF SeekFlush, PlayerTypes, PlayerState
  <2>3. PipelineTypes'
    BY <1>1, <2>1
  <2>4. PlaceTypes'
    BY <1>1, <2>1 DEF SeekFlush, Go, PlaceTypes, Thread, AppPlace, BusPlace
  <2>5. OutsideTypes'
    BY <1>1, <2>1 DEF SeekFlush, OutsideTypes
  <2> QED
    BY <2>2, <2>3, <2>4, <2>5, TypeParts
<1>2. CASE SeekSet
  <2>1. SetState("app", PLAYING) /\ "app" \in Thread /\ PLAYING \in {PAUSED, PLAYING}
    BY <1>2 DEF SeekSet, Thread
  <2>2. /\ PipelineTypes'
        /\ loc' \in [Thread -> Locals]
        /\ \A u \in Thread : loc'[u].ret = loc[u].ret
        /\ env' \in [calls: Nat, stalls: Nat, faults: Nat, rush: Nat,
                     rushed: BOOLEAN, stalled: BOOLEAN, crowded: BOOLEAN, faulted: BOOLEAN]
    BY <2>1, SetStateKeeps
  <2>3. PlayerTypes'
    BY <1>2 DEF SeekSet, PlayerTypes, PlayerState
  <2>4. PipelineTypes'
    BY <1>2, <2>2
  <2>5. PlaceTypes'
    BY <1>2, <2>2 DEF SeekSet, Go, PlaceTypes, Thread, AppPlace, BusPlace
  <2>6. OutsideTypes'
    BY <1>2, <2>2 DEF SeekSet, OutsideTypes
  <2> QED
    BY <2>3, <2>4, <2>5, <2>6, TypeParts
<1>3. CASE SetRateSeek
  <2>1. /\ PipelineTypes'
        /\ loc' \in [Thread -> Locals]
        /\ \A u \in Thread : loc'[u].ret = loc[u].ret
        /\ hist' \in [asked: Calls \cup {"none"}, finish: BOOLEAN, left: BOOLEAN]
    BY <1>3, SeekKeeps DEF SetRateSeek, Thread
  <2>2. PlayerTypes'
    BY <1>3 DEF SetRateSeek, PlayerTypes, PlayerState
  <2>3. PipelineTypes'
    BY <1>3, <2>1
  <2>4. PlaceTypes'
    BY <1>3, <2>1 DEF SetRateSeek, Go, PlaceTypes, Thread, AppPlace, BusPlace
  <2>5. OutsideTypes'
    BY <1>3, <2>1 DEF SetRateSeek, OutsideTypes
  <2> QED
    BY <2>2, <2>3, <2>4, <2>5, TypeParts
<1> QED
  BY <1>1, <1>2, <1>3

(* The messages of the bus.                                                *)
LEMMA BusTypes ==
    ASSUME TypeOK, \/ BusEos \/ BusLost \/ BusFailedIgnored \/ BusInvalid \/ BusError
                   \/ BusErrorState \/ BusStateDropped \/ BusStateHeeded
                   \/ BusBuffering \/ BusUnderrun \/ BusStall \/ BusResume \/ BusHlsEos
                   \/ BusFull \/ BusNotFull
    PROVE  TypeOK'
<1> USE TypeParts
<1>1. CASE BusEos
  <2>1. PlayerTypes'
    BY <1>1 DEF BusEos, Take, SetPlayerState, PlayerTypes, PlayerState
  <2>2. PipelineTypes'
    BY <1>1, SequencesOfMessages DEF BusEos, Take, SetPlayerState, PipelineTypes
  <2>3. PlaceTypes'
    BY <1>1 DEF BusEos, Take, SetPlayerState, Go, PlaceTypes, Thread, AppPlace, BusPlace, Locals
  <2>4. OutsideTypes'
    BY <1>1 DEF BusEos, Take, SetPlayerState, OutsideTypes
  <2> QED
    BY <2>1, <2>2, <2>3, <2>4, TypeParts
<1>2. CASE BusLost
  <2>1. PlayerTypes'
    BY <1>2 DEF BusLost, Take, PlayerTypes, PlayerState
  <2>2. PipelineTypes'
    BY <1>2, SequencesOfMessages DEF BusLost, Take, PipelineTypes
  <2>3. PlaceTypes'
    BY <1>2 DEF BusLost, Take, Go, PlaceTypes, Thread, AppPlace, BusPlace, Locals
  <2>4. OutsideTypes'
    BY <1>2 DEF BusLost, Take, OutsideTypes
  <2> QED
    BY <2>1, <2>2, <2>3, <2>4, TypeParts
<1>3. CASE BusFailedIgnored
  <2>1. PlayerTypes'
    BY <1>3 DEF BusFailedIgnored, Take, PlayerTypes, PlayerState
  <2>2. PipelineTypes'
    BY <1>3, SequencesOfMessages DEF BusFailedIgnored, Take, PipelineTypes
  <2>3. PlaceTypes'
    BY <1>3 DEF BusFailedIgnored, Take, Go, PlaceTypes, Thread, AppPlace, BusPlace, Locals
  <2>4. OutsideTypes'
    BY <1>3 DEF BusFailedIgnored, Take, OutsideTypes
  <2> QED
    BY <2>1, <2>2, <2>3, <2>4, TypeParts
<1>4. CASE BusInvalid
  <2>1. PlayerTypes'
    BY <1>4 DEF BusInvalid, Take, PlayerTypes, PlayerState
  <2>2. PipelineTypes'
    BY <1>4, SequencesOfMessages DEF BusInvalid, Take, PipelineTypes
  <2>3. PlaceTypes'
    BY <1>4 DEF BusInvalid, Take, Go, PlaceTypes, Thread, AppPlace, BusPlace, Locals
  <2>4. OutsideTypes'
    BY <1>4 DEF BusInvalid, Take, OutsideTypes
  <2> QED
    BY <2>1, <2>2, <2>3, <2>4, TypeParts
<1>5. CASE BusError
  <2>1. NullBin \in BinType
    BY States DEF NullBin, BinType
  <2>2. PlayerTypes'
    BY <1>5 DEF BusError, NullBin, PlayerTypes, PlayerState
  <2>3. PipelineTypes'
    BY <1>5, <2>1, SequencesOfMessages DEF BusError, PipelineTypes
  <2>4. PlaceTypes'
    BY <1>5 DEF BusError, NullBin, Go, PlaceTypes, Thread, AppPlace, BusPlace, Locals
  <2>5. OutsideTypes'
    BY <1>5 DEF BusError, NullBin, OutsideTypes
  <2> QED
    BY <2>2, <2>3, <2>4, <2>5, TypeParts
<1>6. CASE BusErrorState
  <2>1. PlayerTypes'
    BY <1>6 DEF BusErrorState, SetPlayerState, PlayerTypes, PlayerState
  <2>2. PipelineTypes'
    BY <1>6 DEF BusErrorState, SetPlayerState, PipelineTypes
  <2>3. PlaceTypes'
    BY <1>6 DEF BusErrorState, SetPlayerState, Go, PlaceTypes, Thread, AppPlace, BusPlace, Locals
  <2>4. OutsideTypes'
    BY <1>6 DEF BusErrorState, SetPlayerState, OutsideTypes
  <2> QED
    BY <2>1, <2>2, <2>3, <2>4, TypeParts
<1>7. CASE BusStateDropped
  <2>1. PlayerTypes'
    BY <1>7 DEF BusStateDropped, Take, PlayerTypes, PlayerState
  <2>2. PipelineTypes'
    BY <1>7, SequencesOfMessages DEF BusStateDropped, Take, PipelineTypes
  <2>3. PlaceTypes'
    BY <1>7 DEF BusStateDropped, Take, Go, PlaceTypes, Thread, AppPlace, BusPlace, Locals
  <2>4. OutsideTypes'
    BY <1>7 DEF BusStateDropped, Take, OutsideTypes
  <2> QED
    BY <2>1, <2>2, <2>3, <2>4, TypeParts
<1>8. CASE BusStateHeeded
  <2>1. Head(bus) \in Message
    BY <1>8, SequencesOfMessages DEF BusStateHeeded, Take, PipelineTypes
  <2>2. PlayerTypes'
    BY <1>8 DEF BusStateHeeded, Take, PlayerTypes, PlayerState
  <2>3. PipelineTypes'
    BY <1>8, SequencesOfMessages DEF BusStateHeeded, Take, PipelineTypes
  <2>4. PlaceTypes'
    BY <1>8, <2>1 DEF BusStateHeeded, Go, PlaceTypes, Thread, AppPlace, BusPlace, Locals
  <2>5. OutsideTypes'
    BY <1>8 DEF BusStateHeeded, Take, OutsideTypes
  <2> QED
    BY <2>2, <2>3, <2>4, <2>5, TypeParts
<1>9. CASE BusBuffering
  <2>1. Head(bus).eos \in BOOLEAN
    BY <1>9, SequencesOfMessages DEF BusBuffering, Take, PipelineTypes, Message
  <2>2. PlayerTypes'
    BY <1>9, <2>1 DEF BusBuffering, PlayerTypes
  <2>3. PipelineTypes'
    BY <1>9, SequencesOfMessages DEF BusBuffering, Take, PipelineTypes
  <2>4. PlaceTypes'
    BY <1>9 DEF BusBuffering, Take, Go, PlaceTypes, Thread, AppPlace, BusPlace, Locals
  <2>5. OutsideTypes'
    BY <1>9 DEF BusBuffering, Take, OutsideTypes
  <2> QED
    BY <2>2, <2>3, <2>4, <2>5, TypeParts
<1>10. CASE BusUnderrun
  <2>1. PlayerTypes'
    BY <1>10 DEF BusUnderrun, Take, PlayerTypes, PlayerState
  <2>2. PipelineTypes'
    BY <1>10, SequencesOfMessages DEF BusUnderrun, Take, PipelineTypes
  <2>3. PlaceTypes'
    BY <1>10 DEF BusUnderrun, Take, Go, PlaceTypes, Thread, AppPlace, BusPlace, Locals
  <2>4. OutsideTypes'
    BY <1>10 DEF BusUnderrun, Take, OutsideTypes
  <2> QED
    BY <2>1, <2>2, <2>3, <2>4, TypeParts
<1>11. CASE BusStall
  <2>1. PlayerTypes'
    BY <1>11 DEF BusStall, Take, PlayerTypes, PlayerState
  <2>2. PipelineTypes'
    BY <1>11, SequencesOfMessages DEF BusStall, Take, PipelineTypes
  <2>3. PlaceTypes'
    BY <1>11 DEF BusStall, Take, Go, PlaceTypes, Thread, AppPlace, BusPlace, Locals
  <2>4. OutsideTypes'
    BY <1>11 DEF BusStall, Take, OutsideTypes
  <2> QED
    BY <2>1, <2>2, <2>3, <2>4, TypeParts
<1>12. CASE BusResume
  <2>1. PlayerTypes'
    BY <1>12 DEF BusResume, Take, HLSBufferResume, PlayerTypes, PlayerState
  <2>2. PipelineTypes'
    BY <1>12, SequencesOfMessages DEF BusResume, Take, HLSBufferResume, PipelineTypes
  <2>3. PlaceTypes'
    BY <1>12 DEF BusResume, Take, HLSBufferResume, Go, PlaceTypes, Thread, AppPlace, BusPlace, Locals
  <2>4. OutsideTypes'
    BY <1>12 DEF BusResume, Take, HLSBufferResume, OutsideTypes
  <2> QED
    BY <2>1, <2>2, <2>3, <2>4, TypeParts
<1>13. CASE BusHlsEos
  <2>1. PlayerTypes'
    BY <1>13 DEF BusHlsEos, Take, HLSBufferResume, PlayerTypes, PlayerState
  <2>2. PipelineTypes'
    BY <1>13, SequencesOfMessages DEF BusHlsEos, Take, HLSBufferResume, PipelineTypes
  <2>3. PlaceTypes'
    BY <1>13 DEF BusHlsEos, Take, HLSBufferResume, Go, PlaceTypes, Thread, AppPlace, BusPlace, Locals
  <2>4. OutsideTypes'
    BY <1>13 DEF BusHlsEos, Take, HLSBufferResume, OutsideTypes
  <2> QED
    BY <2>1, <2>2, <2>3, <2>4, TypeParts
<1>14. CASE BusFull
  <2>1. PlayerTypes'
    BY <1>14 DEF BusFull, Take, HLSBufferResume, PlayerTypes, PlayerState
  <2>2. PipelineTypes'
    BY <1>14, SequencesOfMessages DEF BusFull, Take, HLSBufferResume, PipelineTypes
  <2>3. PlaceTypes'
    BY <1>14 DEF BusFull, Take, HLSBufferResume, Go, PlaceTypes, Thread, AppPlace, BusPlace, Locals
  <2>4. OutsideTypes'
    BY <1>14 DEF BusFull, Take, HLSBufferResume, OutsideTypes
  <2> QED
    BY <2>1, <2>2, <2>3, <2>4, TypeParts
<1>15. CASE BusNotFull
  <2>1. PlayerTypes'
    BY <1>15 DEF BusNotFull, Take, PlayerTypes, PlayerState
  <2>2. PipelineTypes'
    BY <1>15, SequencesOfMessages DEF BusNotFull, Take, PipelineTypes
  <2>3. PlaceTypes'
    BY <1>15 DEF BusNotFull, Take, Go, PlaceTypes, Thread, AppPlace, BusPlace, Locals
  <2>4. OutsideTypes'
    BY <1>15 DEF BusNotFull, Take, OutsideTypes
  <2> QED
    BY <2>1, <2>2, <2>3, <2>4, TypeParts
<1> QED
  BY <1>1, <1>2, <1>3, <1>4, <1>5, <1>6, <1>7, <1>8, <1>9, <1>10, <1>11, <1>12, <1>13, <1>14, <1>15

(* A message of the player's own pipeline moves the player's state.        *)
LEMMA UpdatedTyped ==
    ASSUME PlayerTypes, NEW old, NEW new
    PROVE  Updated(old, new) \in [state: PlayerState, pending: {"Unknown", "Paused", "Stopped"},
                                  seek: BOOLEAN, stall: BOOLEAN, rate: {0, 1}, resume: BOOLEAN,
                                  eos: BOOLEAN, full: BOOLEAN, buf: BOOLEAN, ignore: BOOLEAN,
                                  mode: {"pb", "hls"}]
<1> DEFINE Player == [state: PlayerState, pending: {"Unknown", "Paused", "Stopped"},
                      seek: BOOLEAN, stall: BOOLEAN, rate: {0, 1}, resume: BOOLEAN,
                      eos: BOOLEAN, full: BOOLEAN, buf: BOOLEAN, ignore: BOOLEAN,
                      mode: {"pb", "hls"}]
<1>1. p \in Player /\ p.pending \in PlayerState
  BY DEF PlayerTypes, PlayerState
<1>2. ASSUME NEW s \in PlayerState
      PROVE  /\ [p EXCEPT !.state = s] \in Player
             /\ [p EXCEPT !.state = s, !.pending = "Unknown"] \in Player
             /\ [p EXCEPT !.state = s, !.pending = "Unknown", !.stall = FALSE] \in Player
             /\ [p EXCEPT !.state = s, !.pending = "Unknown", !.seek = FALSE] \in Player
             /\ [p EXCEPT !.state = s, !.seek = FALSE] \in Player
             /\ [p EXCEPT !.stall = FALSE, !.state = s] \in Player
  BY <1>1
<1>3. {"Ready", "Playing", "Paused", "Stopped", "Stalled", "Finished"} \subseteq PlayerState
  BY DEF PlayerState
<1> HIDE DEF Player
<1>4. PausedWhilePlaying(old) \in Player
  BY <1>1, <1>2, <1>3 DEF PausedWhilePlaying, Settle
<1>5. Updated(old, new) \in Player
  BY <1>1, <1>2, <1>3, <1>4 DEF Updated
<1> QED
  BY <1>5 DEF Player

LEMMA UpdateTypes ==
    ASSUME TypeOK, BusUpdate
    PROVE  TypeOK'
<1> USE TypeParts
<1> DEFINE q == Updated(loc["bus"].msg.old, loc["bus"].msg.new)
<1>1. q \in [state: PlayerState, pending: {"Unknown", "Paused", "Stopped"},
             seek: BOOLEAN, stall: BOOLEAN, rate: {0, 1}, resume: BOOLEAN,
             eos: BOOLEAN, full: BOOLEAN, buf: BOOLEAN, ignore: BOOLEAN,
             mode: {"pb", "hls"}]
  BY UpdatedTyped
<1> HIDE DEF q
<1>2. /\ p' = q \/ p' = [q EXCEPT !.resume = TRUE]
      /\ SetState("bus", PLAYING) \/ UNCHANGED <<bin, bus, env, loc>>
      /\ Go("bus", "idle")
      /\ UNCHANGED <<net, hist>>
  BY DEF BusUpdate, q
<1>3. PlayerTypes'
  BY <1>1, <1>2 DEF PlayerTypes
<1>4. /\ PipelineTypes'
      /\ loc' \in [Thread -> Locals]
      /\ \A u \in Thread : loc'[u].ret = loc[u].ret
      /\ env' \in [calls: Nat, stalls: Nat, faults: Nat, rush: Nat,
                   rushed: BOOLEAN, stalled: BOOLEAN, crowded: BOOLEAN, faulted: BOOLEAN]
  <2>1. CASE UNCHANGED <<bin, bus, env, loc>>
    BY <2>1 DEF PipelineTypes, PlaceTypes, OutsideTypes
  <2>2. CASE SetState("bus", PLAYING)
    <3>1. "bus" \in Thread /\ PLAYING \in {PAUSED, PLAYING}
      BY DEF Thread
    <3> QED
      BY <2>2, <3>1, SetStateKeeps
  <2> QED
    BY <1>2, <2>1, <2>2
<1>5. PlaceTypes'
  BY <1>2, <1>4 DEF Go, PlaceTypes, Thread, AppPlace, BusPlace
<1>6. OutsideTypes'
  BY <1>2, <1>4 DEF OutsideTypes
<1> QED
  BY <1>3, <1>4, <1>5, <1>6

(* What the pipeline does on its own threads.                              *)
LEMMA PipelineStepTypes ==
    ASSUME TypeOK, Preroll \/ Continue \/ StreamEnds
    PROVE  TypeOK'
<1> USE TypeParts
<1>1. CASE Preroll
  <2>1. PICK atEnd \in BOOLEAN : Result(async_done(bin, atEnd))
    BY <1>1 DEF Preroll
  <2>2. Posted(async_done(bin, atEnd))
    BY AsyncDoneTyped DEF PipelineTypes
  <2>3. PipelineTypes'
    BY <2>1, <2>2, SequencesOfMessages DEF Result, Post, Posted, PipelineTypes
  <2> QED
    BY <1>1, <2>3 DEF Preroll, PlayerTypes, PlaceTypes, OutsideTypes
<1>2. CASE Continue
  <2>1. PICK r \in continue_func(bin) : Result(r)
    BY <1>2 DEF Continue
  <2>2. Posted(r)
    BY ContinueTyped DEF PipelineTypes
  <2>3. PipelineTypes'
    BY <2>1, <2>2, SequencesOfMessages DEF Result, Post, Posted, PipelineTypes
  <2> QED
    BY <1>2, <2>3 DEF Continue, PlayerTypes, PlaceTypes, OutsideTypes
<1>3. CASE StreamEnds
  <2>1. bin' \in BinType
    BY <1>3 DEF StreamEnds, PipelineTypes, BinType
  <2>2. [type |-> "eos"] \in Message
    BY DEF Message
  <2>3. PipelineTypes'
    BY <1>3, <2>1, <2>2, SequencesOfMessages DEF StreamEnds, Post, PipelineTypes
  <2> QED
    BY <1>3, <2>3 DEF StreamEnds, PlayerTypes, PlaceTypes, OutsideTypes
<1> QED
  BY <1>1, <1>2, <1>3

(* The progress buffer's messages.                                         *)
LEMMA NetTypes ==
    ASSUME TypeOK, NEW from, NEW to \in {"ok", "low", "full", "done"}, NEW m \in Message,
           Net(from, to, m), UNCHANGED env \/ Stalls
    PROVE  TypeOK'
<1> USE TypeParts
<1>1. PipelineTypes'
  BY SequencesOfMessages DEF Net, Post, PipelineTypes
<1>2. env' \in [calls: Nat, stalls: Nat, faults: Nat, rush: Nat,
                rushed: BOOLEAN, stalled: BOOLEAN, crowded: BOOLEAN, faulted: BOOLEAN]
  <2>1. CASE UNCHANGED env
    BY <2>1 DEF OutsideTypes
  <2>2. CASE Stalls
    <3> DEFINE crowded == env.crowded \/ (~Settled /\ (env.stalled \/ hist.left))
    <3>1. env.stalls - 1 \in Nat /\ crowded \in BOOLEAN
      BY <2>2 DEF Stalls, OutsideTypes
    <3>2. env' = [env EXCEPT !.stalls = env.stalls - 1, !.stalled = TRUE, !.crowded = crowded]
      BY <2>2 DEF Stalls
    <3> HIDE DEF crowded
    <3> QED
      BY <3>1, <3>2 DEF OutsideTypes
  <2> QED
    BY <2>1, <2>2
<1> QED
  BY <1>1, <1>2 DEF Net, PlayerTypes, PlaceTypes, OutsideTypes

LEMMA BufferTypes ==
    ASSUME TypeOK, RunLow \/ Recover \/ Fill \/ Drain \/ Complete
    PROVE  TypeOK'
<1>1. /\ \A enough, eos \in BOOLEAN : Buffering(enough, eos) \in Message
      /\ \A type \in {"underrun", "stall", "resume", "full", "notfull", "hlseos"} :
            [type |-> type] \in Message
  BY DEF Buffering, Message
<1> QED
  BY <1>1, NetTypes DEF RunLow, Recover, Fill, Drain, Complete

(* An element's error.                                                     *)
LEMMA FaultTypes ==
    ASSUME TypeOK, FatalError \/ BadData \/ ConnectionLost
    PROVE  TypeOK'
<1> USE TypeParts
<1>1. PICK msgs \in Seq(Message) : Fault(msgs)
  <2>1. \A type \in {"error", "invalid", "lost", "failed"} : [type |-> type] \in Message
    BY DEF Message
  <2> QED
    BY <2>1, SequencesOfMessages DEF FatalError, BadData, ConnectionLost
<1>2. PipelineTypes'
  <2>1. bin' \in BinType
    BY <1>1 DEF Fault, PipelineTypes, BinType
  <2> QED
    BY <1>1, <2>1, SequencesOfMessages DEF Fault, Post, PipelineTypes
<1>3. env' \in [calls: Nat, stalls: Nat, faults: Nat, rush: Nat,
                rushed: BOOLEAN, stalled: BOOLEAN, crowded: BOOLEAN, faulted: BOOLEAN]
  <2>1. env.faults - 1 \in Nat
    BY <1>1 DEF Fault, OutsideTypes
  <2> QED
    BY <1>1, <2>1 DEF Fault, OutsideTypes
<1> QED
  BY <1>1, <1>2, <1>3 DEF Fault, PlayerTypes, PlaceTypes, OutsideTypes

(* Every step keeps the types.                                             *)
LEMMA StepTypes == TypeOK /\ [Next]_vars => TypeOK'
<1> SUFFICES ASSUME TypeOK, [Next]_vars PROVE TypeOK'
  OBVIOUS
<1>1. CASE UNCHANGED vars
  BY <1>1 DEF vars, TypeOK
<1>2. CASE AppStep
  <2>1. "app" \in Thread
    BY DEF Thread
  <2> QED
    BY <1>2, <2>1, ThreadTypes, AppTypes, SeekTypes DEF AppStep
<1>3. CASE BusStep
  <2>1. "bus" \in Thread
    BY DEF Thread
  <2> QED
    BY <1>3, <2>1, ThreadTypes, BusTypes, UpdateTypes DEF BusStep
<1>4. CASE Preroll \/ Continue \/ StreamEnds
  BY <1>4, PipelineStepTypes
<1>5. CASE Drain \/ Complete \/ EnvStep
  BY <1>5, CallsTypes, BufferTypes, FaultTypes DEF EnvStep
<1> QED
  BY <1>1, <1>2, <1>3, <1>4, <1>5 DEF Next

(* The state of the player, of the pipeline and of its messages, and the   *)
(* places and locals of both threads, are what they are declared to be,    *)
(* for every budget: no change of the pipeline (GetNext, a cancelled       *)
(* continuation, an error's teardown) leaves its states.                   *)
THEOREM PlaybackTypes == Spec => []TypeOK
BY InitTypes, StepTypes, PTL DEF Spec

(***************************************************************************)
(* No change of the pipeline is left that nobody would complete.           *)
(***************************************************************************)

(* A bin that has reached PAUSED and whose elements have not failed: a     *)
(* change that is pending waits for a preroll or for a continuation, and   *)
(* a continuation is scheduled only from PAUSED to PLAYING.                *)
Answered(b) ==
    /\ b.state \in {PAUSED, PLAYING} /\ b.target \in {PAUSED, PLAYING}
    /\ b.ret # "failure"
    /\ b.pending \in {VOID, PAUSED, PLAYING}
    /\ b.next \in {VOID, PAUSED, PLAYING} /\ (b.pending = VOID <=> b.next = VOID)
    /\ b.next = PLAYING => b.pending = PLAYING /\ b.target = PLAYING
    /\ b.cont # VOID => b.cont = PLAYING /\ b.state = PAUSED /\ b.next = PLAYING
    /\ b.pending # VOID => b.async \/ b.cont # VOID

(* Before that: the preroll that Init asked for, no call yet, and nothing  *)
(* on the bus but what the progress buffer posts.                          *)
BufferMessage == Harmless \ Spoken

Booting ==
    /\ bin = [NullBin EXCEPT !.state = READY, !.next = PAUSED, !.pending = PAUSED,
                             !.target = PAUSED, !.ret = "async", !.async = TRUE]
    /\ p.state = "Unknown"
    /\ \A t \in Thread : pc[t] = "idle"
    /\ bus \in Seq(BufferMessage)

(* The invariant: until something fails, one of the two.                   *)
ChangeInv == ~env.faulted => Booting \/ (Answered(bin) /\ bus \in Seq(Harmless))

LEMMA Numbers == VOID = 0 /\ NULL = 1 /\ READY = 2 /\ PAUSED = 3 /\ PLAYING = 4
BY DEF VOID, NULL, READY, PAUSED, PLAYING

LEMMA ChangeStateAnswered ==
    ASSUME NEW b \in BinType, NEW r \in {"success", "async"},
           b.state \in {PAUSED, PLAYING}, b.target \in {PAUSED, PLAYING},
           b.ret # "failure", b.cont = VOID,
           b.next \in {PAUSED, PLAYING}, b.pending \in {PAUSED, PLAYING},
           b.next = PLAYING => b.pending = PLAYING /\ b.target = PLAYING
    PROVE  Answered(change_state(b, r).bin)
<1>1. CASE r = "async"
  <2>1. change_state(b, r).bin = [b EXCEPT !.async = TRUE]
    BY <1>1 DEF change_state
  <2> QED
    BY <2>1, Numbers DEF Answered, BinType
<1>2. CASE r = "success"
  <2>1. change_state(b, r).bin =
          [b EXCEPT !.state = b.next, !.pending = VOID, !.next = VOID, !.ret = "success"]
    BY <1>2 DEF change_state, continue_state
  <2> QED
    BY <2>1, Numbers DEF Answered, BinType
<1> QED
  BY <1>1, <1>2

(* A new target: a change under way goes on, and its continuation is       *)
(* cancelled only when the new change is done at once or prerolls.         *)
LEMMA SetStateAnswered ==
    ASSUME NEW b \in BinType, NEW s \in {PAUSED, PLAYING}, NEW r \in set_state(b, s), Answered(b)
    PROVE  Answered(r.bin)
<1> DEFINE b1 == [b EXCEPT !.target = s, !.pending = s, !.cont = IF b.target # s THEN VOID ELSE @]
           current == IF b.pending # VOID /\ b.next > s /\ b.ret = "async" THEN b.next ELSE b.state
           b2 == [b1 EXCEPT !.next = s, !.ret = IF current # s THEN "async" ELSE @]
<1>1. Forget(b) = b /\ b.state # NULL
  BY Numbers DEF Forget, Answered
<1>2. CASE WasBusy(b, s)
  <2>1. r.bin = [b1 EXCEPT !.ret = "async"]
    BY <1>1, <1>2 DEF set_state
  <2>2. b.cont # VOID => b.target = s
    BY <1>2, Numbers DEF WasBusy, Answered
  <2>3. b.pending # VOID /\ b.next # VOID /\ (b.next = PLAYING => s = PLAYING)
    BY <1>2, Numbers DEF WasBusy, Answered
  <2>4. /\ r.bin.state = b.state /\ r.bin.next = b.next /\ r.bin.async = b.async
        /\ r.bin.target = s /\ r.bin.pending = s /\ r.bin.ret = "async"
        /\ r.bin.cont = IF b.target # s THEN VOID ELSE b.cont
    BY <2>1 DEF BinType
  <2>5. r.bin.cont = b.cont
    BY <2>2, <2>4
  <2> QED
    BY <2>3, <2>4, <2>5, Numbers DEF Answered
<1>3. CASE ~WasBusy(b, s)
  <2>1. r \in {change_state(b2, x) : x \in SinkReturn(b)}
    BY <1>1, <1>3 DEF set_state
  <2>2. PICK x \in SinkReturn(b) : r = change_state(b2, x)
    BY <2>1
  <2>3. x \in {"success", "async"}
    BY DEF SinkReturn
  <2>4. b.cont # VOID => b.target # s
    BY <1>3, Numbers DEF WasBusy, Answered
  <2>5. b2 \in BinType
    BY States DEF BinType
  <2>6. /\ b2.state \in {PAUSED, PLAYING} /\ b2.target \in {PAUSED, PLAYING}
        /\ b2.ret # "failure" /\ b2.cont = VOID
        /\ b2.next \in {PAUSED, PLAYING} /\ b2.pending \in {PAUSED, PLAYING}
        /\ b2.next = PLAYING => b2.pending = PLAYING /\ b2.target = PLAYING
    BY <2>4 DEF Answered, BinType
  <2> HIDE DEF b2
  <2> QED
    BY <2>2, <2>3, <2>5, <2>6, ChangeStateAnswered
<1> QED
  BY <1>2, <1>3

LEMMA LostStateAnswered ==
    ASSUME NEW b \in BinType, Answered(b)
    PROVE  Answered(lost_state(b).bin)
<1>1. CASE b.pending # VOID
  <2>1. lost_state(b).bin = [b EXCEPT !.async = TRUE, !.eos = FALSE]
    BY <1>1 DEF lost_state
  <2> QED
    BY <2>1 DEF Answered, BinType
<1>2. CASE b.pending = VOID
  <2>1. lost_state(b).bin = [b EXCEPT !.async = TRUE, !.eos = FALSE, !.state = PAUSED,
                                      !.next = PAUSED, !.pending = PAUSED, !.ret = "async"]
    BY <1>2 DEF lost_state, Answered, BinType
  <2> QED
    BY <1>2, <2>1, Numbers DEF Answered, BinType
<1> QED
  BY <1>1, <1>2

LEMMA AsyncDoneAnswered ==
    ASSUME NEW b \in BinType, NEW atEnd \in BOOLEAN, Answered(b)
    PROVE  Answered(async_done(b, atEnd).bin)
<1>1. CASE b.pending = VOID
  <2>1. async_done(b, atEnd).bin = [b EXCEPT !.async = FALSE, !.eos = atEnd]
    BY <1>1 DEF async_done
  <2> QED
    BY <1>1, <2>1 DEF Answered, BinType
<1>2. CASE b.pending # VOID
  <2> DEFINE current == IF b.next = PLAYING THEN b.state ELSE b.next
  <2>1. b.next \in {PAUSED, PLAYING}
    BY <1>2, Numbers DEF Answered
  <2>2. CASE b.target = current
    <3>1. async_done(b, atEnd).bin =
            [b EXCEPT !.async = FALSE, !.eos = atEnd, !.state = current, !.pending = VOID,
                      !.ret = "success", !.next = VOID, !.cont = VOID]
      BY <1>2, <2>2 DEF async_done, Answered, BinType
    <3> QED
      BY <2>1, <2>2, <3>1, Numbers DEF Answered, BinType
  <2>3. CASE b.target # current
    <3>1. async_done(b, atEnd).bin =
            [b EXCEPT !.async = FALSE, !.eos = atEnd, !.state = current, !.pending = b.target,
                      !.ret = "async", !.next = GetNext(b.state, b.target), !.cont = b.target]
      BY <1>2, <2>3 DEF async_done, Answered, BinType
    <3>2. b.target = PLAYING /\ current = PAUSED
      BY <2>1, <2>3 DEF Answered
    <3>3. GetNext(b.state, b.target) = PLAYING
      BY <3>2, Numbers DEF GetNext, Answered
    <3> QED
      BY <2>1, <3>1, <3>2, <3>3, Numbers DEF Answered, BinType
  <2> QED
    BY <2>2, <2>3
<1> QED
  BY <1>1, <1>2

LEMMA ContinueAnswered ==
    ASSUME NEW b \in BinType, NEW r \in continue_func(b), Answered(b), b.cont # VOID
    PROVE  Answered(r.bin)
<1> DEFINE f == [b EXCEPT !.next = GetNext(b.state, b.cont), !.pending = b.cont,
                          !.ret = "async", !.cont = VOID]
<1>1. PICK x \in SinkReturn(b) : r = change_state(f, x)
  BY DEF continue_func
<1>2. x \in {"success", "async"}
  BY DEF SinkReturn
<1>3. GetNext(b.state, b.cont) = PLAYING
  BY Numbers DEF GetNext, Answered
<1>4. f \in BinType
  BY <1>3, States DEF BinType
<1>5. /\ f.state \in {PAUSED, PLAYING} /\ f.target = PLAYING /\ f.ret # "failure"
      /\ f.cont = VOID /\ f.next = PLAYING /\ f.pending = PLAYING
  BY <1>3 DEF Answered, BinType
<1> HIDE DEF f
<1> QED
  BY <1>1, <1>2, <1>4, <1>5, ChangeStateAnswered

(* What the buffer posts does not matter to a player that is not ready.    *)
LEMMA HarmlessMessages ==
    /\ Seq(BufferMessage) \subseteq Seq(Harmless)
    /\ \A m \in BufferMessage : m.type \notin {"state", "eos", "error", "lost", "failed"}
    /\ \A enough, eos \in BOOLEAN : Buffering(enough, eos) \in BufferMessage
    /\ \A type \in {"underrun", "stall", "resume", "full", "notfull", "hlseos"} :
          [type |-> type] \in BufferMessage
<1>1. BufferMessage \subseteq Harmless
  BY DEF BufferMessage
<1>2. \A S, T : S \subseteq T => Seq(S) \subseteq Seq(T)
  OBVIOUS
<1>3. \A m \in BufferMessage : m.type \notin {"state", "eos", "error", "lost", "failed"}
  BY DEF BufferMessage, Spoken, Harmless
<1>4. /\ \A enough, eos \in BOOLEAN : Buffering(enough, eos) \in BufferMessage
      /\ \A type \in {"underrun", "stall", "resume", "full", "notfull", "hlseos"} :
            [type |-> type] \in BufferMessage
  BY DEF BufferMessage, Buffering, Spoken, Harmless, Message
<1> QED
  BY <1>1, <1>2, <1>3, <1>4

LEMMA ChangeInit == Init => ChangeInv
<1> SUFFICES ASSUME Init PROVE Booting
  BY DEF ChangeInv
<1>1. bus \in Seq(BufferMessage)
  <2>1. <<Buffering(FALSE, FALSE)>> \in Seq(BufferMessage) /\ <<>> \in Seq(BufferMessage)
    BY HarmlessMessages, SequencesOf
  <2> QED
    BY <2>1 DEF Init
<1>2. \A t \in Thread : pc[t] = "idle"
  <2>1. pc = [t \in Thread |-> "idle"]
    BY DEF Init
  <2> QED
    BY <2>1
<1>3. p.state = "Unknown"
  BY DEF Init
<1> QED
  BY <1>1, <1>2, <1>3 DEF Init, Booting

(* What a thread asks the pipeline for, once it has reached PAUSED.        *)
LEMMA AskedAnswered ==
    ASSUME TypeOK, Answered(bin), bus \in Seq(Harmless),
           NEW t \in Thread, NEW s \in {PAUSED, PLAYING},
           SetState(t, s) \/ SeekPipeline(t), ~env'.faulted
    PROVE  Answered(bin') /\ bus' \in Seq(Harmless)
<1> USE TypeParts
<1>1. bin \in BinType /\ s \in GstState
  BY States DEF PipelineTypes
<1>2. CASE SetState(t, s)
  <2>1. ~(env' = [env EXCEPT !.faults = @ - 1, !.faulted = TRUE])
    BY DEF OutsideTypes
  <2>2. PICK r \in set_state(bin, s) : bin' = r.bin /\ bus' = bus \o r.msgs
    BY <1>2, <2>1 DEF SetState
  <2>3. Answered(r.bin) /\ Posted(r)
    BY <1>1, SetStateAnswered, SetStateTyped
  <2> QED
    BY <2>2, <2>3, SequencesOfMessages, SequencesOf DEF Posted
<1>3. CASE SeekPipeline(t)
  <2>1. Answered(lost_state(bin).bin) /\ Posted(lost_state(bin))
    BY <1>1, LostStateAnswered, LostStateTyped
  <2>2. \/ bin' = lost_state(bin).bin /\ bus' = bus \o lost_state(bin).msgs
        \/ UNCHANGED <<bin, bus>>
    BY <1>3 DEF SeekPipeline
  <2> QED
    BY <2>1, <2>2, SequencesOfMessages, SequencesOf DEF Posted
<1> QED
  BY <1>2, <1>3

(* A step of a thread that is not idle, or a call: the player has booted.  *)
LEMMA ThreadChange ==
    ASSUME TypeOK, ChangeInv, AppStep \/ PlayLock("bus") \/ PlaySet("bus")
              \/ InternalPauseLock("bus") \/ InternalPauseSet("bus") \/ BusErrorState \/ BusUpdate
    PROVE  ChangeInv'
<1> USE TypeParts
<1> SUFFICES ASSUME ~env'.faulted PROVE Answered(bin') /\ bus' \in Seq(Harmless)
  BY DEF ChangeInv
<1>1. "app" \in Thread /\ "bus" \in Thread /\ PAUSED \in {PAUSED, PLAYING} /\ PLAYING \in {PAUSED, PLAYING}
  BY DEF Thread
<1>2. \E t \in Thread : pc[t] # "idle"
  BY <1>1 DEF AppStep, PlayLock, PlaySet, InternalPauseLock, InternalPauseSet, BusErrorState, BusUpdate,
       PauseCheck, PauseLock, PauseEnd, StopCheck, StopLock, StopEnd, SeekLock, SeekFlush, SeekResume,
       SeekSet, SetRateZero, SetRate, SetRateSeek
<1>3. \/ UNCHANGED <<bin, bus, env>>
      \/ \E t \in Thread : SetState(t, PLAYING) \/ SetState(t, PAUSED)
      \/ SeekPipeline("app") /\ UNCHANGED env
  BY <1>1 DEF AppStep, PlayLock, PlaySet, InternalPauseLock, InternalPauseSet, BusErrorState, BusUpdate,
       PauseCheck, PauseLock, PauseEnd, StopCheck, StopLock, StopEnd, SeekLock, SeekFlush, SeekResume,
       SeekSet, SetRateZero, SetRate, SetRateSeek
<1>4. ~env.faulted
  <2>1. \A t, s : SetState(t, s) => UNCHANGED env \/ env' = [env EXCEPT !.faults = @ - 1, !.faulted = TRUE]
    BY DEF SetState
  <2>2. ~(env' = [env EXCEPT !.faults = @ - 1, !.faulted = TRUE])
    BY DEF OutsideTypes
  <2> QED
    BY <1>3, <2>1, <2>2
<1>5. Answered(bin) /\ bus \in Seq(Harmless)
  BY <1>2, <1>4 DEF ChangeInv, Booting
<1>6. CASE UNCHANGED <<bin, bus, env>>
  BY <1>5, <1>6
<1>7. CASE \E t \in Thread : SetState(t, PLAYING) \/ SetState(t, PAUSED)
  BY <1>1, <1>5, <1>7, AskedAnswered
<1>8. CASE SeekPipeline("app")
  BY <1>1, <1>5, <1>8, AskedAnswered
<1> QED
  BY <1>3, <1>6, <1>7, <1>8

LEMMA CallChange ==
    ASSUME TypeOK, ChangeInv, PlayCall \/ PauseCall \/ StopCall \/ SeekCall \/ FinishCall
              \/ SetRateZeroCall \/ SetRateCall
    PROVE  ChangeInv'
<1> USE TypeParts
<1>1. PICK c, l, locals : Call(c, l, locals)
  BY DEF PlayCall, PauseCall, StopCall, SeekCall, FinishCall, SetRateZeroCall, SetRateCall
<1>2. p.state # "Unknown" /\ UNCHANGED <<p, bin, bus>> /\ env'.faulted = env.faulted
  BY <1>1 DEF Call, OutsideTypes
<1> QED
  BY <1>2 DEF ChangeInv, Booting

(* A message: a player that is not ready takes none that matters.          *)
LEMMA MessageChange ==
    ASSUME TypeOK, ChangeInv, \/ BusEos \/ BusLost \/ BusFailedIgnored \/ BusInvalid \/ BusError
                   \/ BusStateDropped \/ BusStateHeeded
                   \/ BusBuffering \/ BusUnderrun \/ BusStall \/ BusResume \/ BusHlsEos
                   \/ BusFull \/ BusNotFull
    PROVE  ChangeInv'
<1> USE TypeParts
<1> SUFFICES ASSUME ~env'.faulted PROVE Booting' \/ (Answered(bin') /\ bus' \in Seq(Harmless))
  BY DEF ChangeInv
<1>1. bus # <<>> /\ UNCHANGED env
  BY DEF BusEos, BusLost, BusFailedIgnored, BusInvalid, BusError, BusStateDropped, BusStateHeeded,
       BusBuffering, BusUnderrun, BusStall, BusResume, BusHlsEos, BusFull, BusNotFull, Take, HLSBufferResume
<1>2. CASE Answered(bin) /\ bus \in Seq(Harmless)
  <2>1. Head(bus) \in Harmless /\ Tail(bus) \in Seq(Harmless)
    BY <1>1, <1>2, SequencesOf
  <2>2. ~BusError
    BY <2>1 DEF BusError, Harmless
  <2>3. UNCHANGED bin /\ bus' = Tail(bus)
    BY <2>2 DEF BusEos, BusLost, BusFailedIgnored, BusInvalid, BusStateDropped, BusStateHeeded,
         BusBuffering, BusUnderrun, BusStall, BusResume, BusHlsEos, BusFull, BusNotFull, Take,
         HLSBufferResume
  <2> QED
    BY <1>2, <2>1, <2>3
<1>3. CASE Booting
  <2>1. Head(bus) \in BufferMessage /\ Tail(bus) \in Seq(BufferMessage)
    BY <1>1, <1>3, SequencesOf DEF Booting
  <2>2. Head(bus).type \notin {"state", "eos", "error", "lost", "failed"}
    BY <2>1, HarmlessMessages
  <2>3. \/ BusInvalid \/ BusBuffering \/ BusUnderrun \/ BusStall \/ BusResume \/ BusHlsEos
        \/ BusFull \/ BusNotFull
    BY <2>2 DEF BusEos, BusLost, BusFailedIgnored, BusError, BusStateDropped, BusStateHeeded, Take
  <2>4. UNCHANGED bin /\ bus' = Tail(bus)
    BY <2>3 DEF BusInvalid, BusBuffering, BusUnderrun, BusStall, BusResume, BusHlsEos, BusFull,
         BusNotFull, Take, HLSBufferResume
  <2>5. p.state = "Unknown" /\ bin.state = READY /\ \A t \in Thread : pc[t] = "idle"
    BY <1>3 DEF Booting, NullBin
  <2>6. p'.state = "Unknown"
    BY <2>3, <2>5 DEF BusInvalid, BusBuffering, BusUnderrun, BusStall, BusResume, BusHlsEos, BusFull,
         BusNotFull, HLSBufferResume, PlayerTypes
  <2>7. Go("bus", "idle") \/ UNCHANGED pc
    BY <2>3, <2>5, Numbers DEF BusInvalid, BusBuffering, BusUnderrun, BusStall, BusResume, BusHlsEos,
         BusFull, BusNotFull, HLSBufferResume, MayResume, PlayerTypes
  <2>8. \A t \in Thread : pc'[t] = "idle"
    BY <2>5, <2>7 DEF Go, PlaceTypes, Thread
  <2> QED
    BY <1>3, <2>1, <2>4, <2>6, <2>8 DEF Booting
<1> QED
  BY <1>1, <1>2, <1>3 DEF ChangeInv

(* The pipeline's own steps: the first preroll ends the booting.           *)
LEMMA PipelineChange ==
    ASSUME TypeOK, ChangeInv, Preroll \/ Continue \/ StreamEnds
    PROVE  ChangeInv'
<1> USE TypeParts
<1> SUFFICES ASSUME ~env'.faulted PROVE Answered(bin') /\ bus' \in Seq(Harmless)
  BY DEF ChangeInv
<1>1. ~env.faulted /\ bin \in BinType
  BY DEF Preroll, Continue, StreamEnds, PipelineTypes
<1>2. Booting \/ (Answered(bin) /\ bus \in Seq(Harmless))
  BY <1>1 DEF ChangeInv
<1>3. bus \in Seq(Harmless)
  BY <1>2, HarmlessMessages DEF Booting
<1>4. CASE Preroll
  <2>1. PICK atEnd \in BOOLEAN : Result(async_done(bin, atEnd))
    BY <1>4 DEF Preroll
  <2>2. Posted(async_done(bin, atEnd))
    BY <1>1, AsyncDoneTyped
  <2>3. Answered(async_done(bin, atEnd).bin)
    <3>1. CASE Answered(bin)
      BY <1>1, <3>1, AsyncDoneAnswered
    <3>2. CASE Booting
      <4>1. /\ bin.state = READY /\ bin.next = PAUSED /\ bin.pending = PAUSED /\ bin.target = PAUSED
            /\ bin.ret = "async" /\ bin.cont = VOID
        BY <3>2 DEF Booting, NullBin
      <4>2. async_done(bin, atEnd).bin =
              [bin EXCEPT !.async = FALSE, !.eos = atEnd, !.state = PAUSED, !.pending = VOID,
                          !.ret = "success", !.next = VOID, !.cont = VOID]
        BY <4>1, Numbers DEF async_done
      <4> QED
        BY <1>1, <4>1, <4>2, Numbers DEF Answered, BinType
    <3> QED
      BY <1>2, <3>1, <3>2
  <2> QED
    BY <1>3, <2>1, <2>2, <2>3, SequencesOfMessages, SequencesOf DEF Result, Post, Posted
<1>5. CASE Continue
  <2>1. PICK r \in continue_func(bin) : Result(r)
    BY <1>5 DEF Continue
  <2>2. ~Booting
    BY <1>5 DEF Continue, Booting, NullBin
  <2>3. Posted(r) /\ Answered(r.bin)
    BY <1>1, <1>2, <1>5, <2>2, ContinueTyped, ContinueAnswered DEF Continue
  <2> QED
    BY <1>3, <2>1, <2>3, SequencesOfMessages, SequencesOf DEF Result, Post, Posted
<1>6. CASE StreamEnds
  <2>1. ~Booting
    BY <1>6, Numbers DEF StreamEnds, Booting, NullBin
  <2>2. Answered(bin')
    BY <1>1, <1>2, <1>6, <2>1 DEF StreamEnds, Answered, BinType
  <2>3. [type |-> "eos"] \in Harmless
    BY DEF Harmless, Message
  <2> QED
    BY <1>3, <1>6, <2>2, <2>3, SequencesOf DEF StreamEnds, Post
<1> QED
  BY <1>4, <1>5, <1>6

LEMMA NetChange ==
    ASSUME TypeOK, ChangeInv, RunLow \/ Recover \/ Fill \/ Drain \/ Complete
    PROVE  ChangeInv'
<1> USE TypeParts
<1>1. PICK m \in BufferMessage : \E from, to : Net(from, to, m)
  <2>1. CASE RunLow
    <3>1. [type |-> IF p.mode = "pb" THEN "underrun" ELSE "stall"] \in BufferMessage
      BY HarmlessMessages
    <3> QED
      BY <2>1, <3>1 DEF RunLow
  <2>2. CASE Recover
    <3>1. (IF p.mode = "pb" THEN Buffering(TRUE, FALSE) ELSE [type |-> "resume"]) \in BufferMessage
      BY HarmlessMessages
    <3> QED
      BY <2>2, <3>1 DEF Recover
  <2>3. CASE Fill
    BY <2>3, HarmlessMessages DEF Fill
  <2>4. CASE Drain
    BY <2>4, HarmlessMessages DEF Drain
  <2>5. CASE Complete
    <3>1. (IF p.mode = "pb" THEN Buffering(TRUE, TRUE) ELSE [type |-> "hlseos"]) \in BufferMessage
      BY HarmlessMessages
    <3> QED
      BY <2>5, <3>1 DEF Complete
  <2> QED
    BY <2>1, <2>2, <2>3, <2>4, <2>5
<1>2. env'.faulted = env.faulted
  <2>1. UNCHANGED env \/ Stalls
    BY DEF RunLow, Recover, Fill, Drain, Complete
  <2> QED
    BY <2>1 DEF Stalls, OutsideTypes
<1>3. UNCHANGED <<p, bin, pc>> /\ bus' = bus \o <<m>>
  BY <1>1 DEF Net, Post
<1>4. m \in Harmless
  BY <1>1 DEF BufferMessage
<1>5. /\ bus \in Seq(BufferMessage) => bus' \in Seq(BufferMessage)
      /\ bus \in Seq(Harmless) => bus' \in Seq(Harmless)
  BY <1>1, <1>3, <1>4, SequencesOf
<1> QED
  BY <1>2, <1>3, <1>5 DEF ChangeInv, Booting

LEMMA ChangeKept == TypeOK /\ ChangeInv /\ [Next]_vars => ChangeInv'
<1> SUFFICES ASSUME TypeOK, ChangeInv, [Next]_vars PROVE ChangeInv'
  OBVIOUS
<1>1. CASE UNCHANGED vars
  BY <1>1 DEF vars, ChangeInv, Booting
<1>2. CASE FatalError \/ BadData \/ ConnectionLost
  <2>1. env'.faulted
    BY <1>2, TypeParts DEF FatalError, BadData, ConnectionLost, Fault, OutsideTypes
  <2> QED
    BY <2>1 DEF ChangeInv
<1>3. CASE AppStep \/ BusStep
  BY <1>3, ThreadChange, MessageChange DEF BusStep
<1>4. CASE Preroll \/ Continue \/ StreamEnds
  BY <1>4, PipelineChange
<1>5. CASE Drain \/ Complete \/ EnvStep
  BY <1>2, <1>5, CallChange, NetChange DEF EnvStep
<1> QED
  BY <1>1, <1>3, <1>4, <1>5 DEF Next

(* While nothing fails, no change of the pipeline is lost: one that is     *)
(* pending waits for a preroll or for a continuation, however many calls,  *)
(* underruns and messages have changed its target or cancelled its         *)
(* continuation since.  This is the safety that SettlesAgain rests on.     *)
ChangeIsAnswered == ~env.faulted /\ bin.pending # VOID => bin.async \/ bin.cont # VOID

THEOREM ChangesAnswered == Spec => []ChangeIsAnswered
<1>1. ChangeInv => ChangeIsAnswered
  BY DEF ChangeInv, Booting, Answered, ChangeIsAnswered, NullBin
<1> QED
  BY <1>1, PlaybackTypes, ChangeInit, ChangeKept, PTL DEF Spec

=============================================================================
