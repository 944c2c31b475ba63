-------------------------- MODULE PlaybackPipeline --------------------------
(***************************************************************************)
(* CGstAudioPlaybackPipeline: how the calls of the player and the messages *)
(* of the GStreamer bus move the player's state.                           *)
(*                                                                         *)
(* Two threads call into it.  "app" is the thread that uses the Java       *)
(* player (play, pause, stop, seek, setRate, finish); "bus" is the main    *)
(* loop's thread, which takes the messages one by one (BusCallback).  A    *)
(* region under m_StateLock is one step, and so is a state change of the   *)
(* GStreamer pipeline; the two threads interleave between them.  The       *)
(* pipeline itself (module GstBin) completes changes on threads of its     *)
(* own and posts what it did at the end of the bus.                        *)
(*                                                                         *)
(* The player's calls set a pending state and ask GStreamer to pause; it   *)
(* is the message that tells of the change which later decides, from the   *)
(* pending state it finds, what the change meant.                          *)
(*                                                                         *)
(* Positions and rates are abstracted: the rate is zero or not; a buffer   *)
(* position is enough to resume when the message says so.  The elements of *)
(* the dynamic pipeline are ready, and there is an event dispatcher.       *)
(***************************************************************************)
EXTENDS GstBin

CONSTANTS
    Modes,      \* the kinds of progress buffer: a subset of {"pb", "hls"}
    Calls,      \* the calls the application makes
    Budgets     \* bounds on the environment: how many calls, stalls and faults
                \* there are, and how many calls do not wait for the one before

ASSUME PipelineAssumption ==
    /\ Modes \subseteq {"pb", "hls"}
    /\ Calls \subseteq {"play", "pause", "stop", "seek", "finish", "rate0", "rate1"}
    /\ Budgets \subseteq [calls: Nat, stalls: Nat, faults: Nat, rush: Nat]

PlayerState == {"Unknown", "Ready", "Playing", "Paused", "Stopped", "Stalled", "Finished", "Error"}

VARIABLES
    p,      \* the pipeline object's fields
    bin,    \* the GStreamer pipeline
    bus,    \* its messages, in order
    pc,     \* where each thread is
    loc,    \* each thread's locals
    net,    \* the progress buffer: "ok", "low", "full" or "done"
    env,    \* what the environment may still do, and whether it has done any
    hist    \* history: the last call, whether finish() was called after the
            \* last seek, and whether a call found another's pending state

vars == <<p, bin, bus, pc, loc, net, env, hist>>

Thread == {"app", "bus"}

Message ==
    [type: {"state"}, old: GstState, new: GstState, pending: GstState]
        \cup [type: {"eos", "error", "lost", "failed", "invalid", "underrun", "stall", "resume",
                     "hlseos", "full", "notfull"}]
        \cup [type: {"buffering"}, enough: BOOLEAN, eos: BOOLEAN]

Buffering(enough, eos) == [type |-> "buffering", enough |-> enough, eos |-> eos]

(* a thread's locals: the decision it took under the lock, the result of   *)
(* its last call, where it returns to and goes from there, whether the     *)
(* player was to resume, and the message it handles                        *)
Locals == [ready: BOOLEAN, ok: BOOLEAN, ret: {"idle", "pauseend", "stopend", "update"},
           then: {"idle", "rate0"}, flag: BOOLEAN, msg: Message]

Idle == [ready |-> FALSE, ok |-> TRUE, ret |-> "idle", then |-> "idle", flag |-> FALSE,
         msg |-> [type |-> "eos"]]

AppPlace == {"idle", "play", "playset", "pause1", "pause2", "ipause", "ipset", "pauseend",
             "stop1", "stop2", "stopend", "seek1", "seek2", "seek3", "seekset",
             "rate0", "rate1", "rate2"}
BusPlace == {"idle", "play", "playset", "ipause", "ipset", "update", "dead"}

TypeOK ==
    /\ p \in [state: PlayerState, pending: {"Unknown", "Paused", "Stopped"},
              seek: BOOLEAN, stall: BOOLEAN, rate: {0, 1}, resume: BOOLEAN,
              eos: BOOLEAN, full: BOOLEAN, buf: BOOLEAN, ignore: BOOLEAN,
              mode: {"pb", "hls"}]
    /\ bin \in BinType
    /\ bus \in Seq(Message)
    /\ pc \in [Thread -> AppPlace \cup BusPlace] /\ pc["app"] \in AppPlace /\ pc["bus"] \in BusPlace
    /\ loc \in [Thread -> Locals]
    /\ loc["app"].ret # "update" /\ loc["bus"].ret \in {"idle", "update"}
    /\ net \in {"ok", "low", "full", "done"}
    /\ env \in [calls: Nat, stalls: Nat, faults: Nat, rush: Nat,
                rushed: BOOLEAN, stalled: BOOLEAN, crowded: BOOLEAN, faulted: BOOLEAN]
    /\ hist \in [asked: Calls \cup {"none"}, finish: BOOLEAN, left: BOOLEAN]

(* Init() has asked the pipeline for PAUSED.  m_bResumePlayOnNonzeroRate,  *)
(* which the constructor leaves unset, is never read before SetRate sets   *)
(* it.                                                                     *)
Init ==
    /\ \E m \in Modes :
         p = [state |-> "Unknown", pending |-> "Unknown", seek |-> FALSE, stall |-> FALSE,
              rate |-> 1, resume |-> FALSE, eos |-> FALSE, full |-> FALSE, buf |-> FALSE,
              ignore |-> FALSE, mode |-> m]
    /\ bin = [NullBin EXCEPT !.state = READY, !.next = PAUSED, !.pending = PAUSED,
                             !.target = PAUSED, !.ret = "async", !.async = TRUE]
    /\ bus = IF p.mode = "pb" THEN <<Buffering(FALSE, FALSE)>> ELSE <<>>
    /\ pc = [t \in Thread |-> "idle"]
    /\ loc = [t \in Thread |-> Idle]
    /\ net = "ok"
    /\ \E b \in Budgets :
         env = [calls |-> b.calls, stalls |-> b.stalls, faults |-> b.faults, rush |-> b.rush,
                rushed |-> FALSE, stalled |-> FALSE, crowded |-> FALSE, faulted |-> FALSE]
    /\ hist = [asked |-> "none", finish |-> FALSE, left |-> FALSE]

(* no message is on its way, and no change under way                      *)
Settled == /\ \A t \in Thread : pc[t] = "idle"
           /\ bus = <<>> /\ bin.pending = VOID /\ bin.cont = VOID /\ ~bin.async

Go(t, l) == pc' = [pc EXCEPT ![t] = l]

(* a state change of the pipeline, or its failure                          *)
SetState(t, s) ==
    \/ /\ \E r \in set_state(bin, s) : bin' = r.bin /\ bus' = bus \o r.msgs
       /\ loc' = [loc EXCEPT ![t].ok = TRUE]
       /\ UNCHANGED env
    \/ /\ env.faults > 0 /\ ~WasBusy(Forget(bin), s)
       /\ env' = [env EXCEPT !.faults = @ - 1, !.faulted = TRUE]
       /\ bin' = set_state_failed(bin, s)
       /\ loc' = [loc EXCEPT ![t].ok = FALSE]
       /\ UNCHANGED bus

(***************************************************************************)
(* Play(): whether the player is ready is decided under the lock, the      *)
(* pipeline is asked after it.                                             *)
(***************************************************************************)
PlayReady(q, b) ==
    \/ q.state \notin {"Finished", "Error", "Playing"}
    \/ q.state = "Playing" /\ b.ret # "failure" /\ (b.state = PAUSED \/ b.pending = PAUSED)

PlayLock(t) ==
    /\ pc[t] = "play"
    /\ loc' = [loc EXCEPT ![t].ready = PlayReady(p, bin)]
    /\ Go(t, "playset")
    /\ UNCHANGED <<p, bin, bus, net, env, hist>>

PlaySet(t) ==
    /\ pc[t] = "playset"
    /\ \/ ~loc[t].ready /\ UNCHANGED <<p, bin, bus, env, loc>>
       \/ /\ loc[t].ready /\ p.rate = 0
          /\ p' = [p EXCEPT !.resume = TRUE] /\ UNCHANGED <<bin, bus, env, loc>>
       \/ loc[t].ready /\ p.rate # 0 /\ SetState(t, PLAYING) /\ UNCHANGED p
    /\ Go(t, loc[t].ret)
    /\ UNCHANGED <<net, hist>>

(***************************************************************************)
(* InternalPause()                                                         *)
(***************************************************************************)
InternalPauseLock(t) ==
    /\ pc[t] = "ipause"
    /\ loc' = [loc EXCEPT ![t].ok = TRUE, ![t].ready =
                  (p.state # "Finished" \/ p.seek \/ p.pending = "Stopped") /\ p.state # "Error"]
    /\ p' = [p EXCEPT !.seek = FALSE]
    /\ Go(t, "ipset")
    /\ UNCHANGED <<bin, bus, net, env, hist>>

InternalPauseSet(t) ==
    /\ pc[t] = "ipset"
    /\ \/ ~loc[t].ready /\ UNCHANGED <<p, bin, bus, env, loc>>
       \/ /\ loc[t].ready /\ p.rate = 0
          /\ p' = [p EXCEPT !.resume = FALSE] /\ UNCHANGED <<bin, bus, env, loc>>
       \/ loc[t].ready /\ p.rate # 0 /\ SetState(t, PAUSED) /\ UNCHANGED p
    /\ Go(t, loc[t].ret)
    /\ UNCHANGED <<net, hist>>

(***************************************************************************)
(* The application's calls.  The Java player makes none before it has seen *)
(* Ready; its stop() stops and then seeks to the start.                    *)
(***************************************************************************)
Call(c, l, locals) ==
    /\ pc["app"] = "idle" /\ c \in Calls /\ env.calls > 0 /\ p.state # "Unknown"
    /\ Settled \/ env.rush > 0
    /\ env' = [env EXCEPT !.calls = @ - 1, !.rush = IF Settled THEN @ ELSE @ - 1,
                          !.rushed = @ \/ ~Settled]
    /\ hist' = [hist EXCEPT !.asked = c, !.finish = @ \/ c = "finish",
                           !.left = @ \/ p.pending # "Unknown"]
    /\ loc' = [loc EXCEPT !["app"] = locals]
    /\ Go("app", l)
    /\ UNCHANGED <<p, bin, bus, net>>

PlayCall == Call("play", "play", Idle)
PauseCall == Call("pause", "pause1", Idle)
StopCall == Call("stop", "stop1", Idle)
SeekCall == Call("seek", "seek1", Idle)
FinishCall == p.state = "Playing" /\ Call("finish", "ipause", Idle)

(* Pause(): nothing to do; or done at once, in a player that is stopped or *)
(* stalled; or left pending                                                *)
PauseCheck ==
    /\ pc["app"] = "pause1"
    /\ Go("app", IF p.state \in {"Paused", "Error"} THEN loc["app"].then ELSE "pause2")
    /\ UNCHANGED <<p, bin, bus, loc, net, env, hist>>

PauseLock ==
    /\ pc["app"] = "pause2"
    /\ \/ /\ p.state \in {"Stopped", "Stalled"}
          /\ p' = [p EXCEPT !.state = "Paused"]
          /\ Go("app", loc["app"].then) /\ UNCHANGED loc
       \/ /\ p.state \notin {"Stopped", "Stalled"}
          /\ p' = [p EXCEPT !.pending = "Paused"]
          /\ loc' = [loc EXCEPT !["app"].ret = "pauseend"] /\ Go("app", "ipause")
    /\ UNCHANGED <<bin, bus, net, env, hist>>

PauseEnd ==
    /\ pc["app"] = "pauseend"
    /\ p' = IF loc["app"].ok THEN p ELSE [p EXCEPT !.pending = "Unknown"]
    /\ Go("app", loc["app"].then)
    /\ UNCHANGED <<bin, bus, loc, net, env, hist>>

(* Stop()                                                                  *)
StopCheck ==
    /\ pc["app"] = "stop1"
    /\ \/ p.state \in {"Stopped", "Error"} /\ Go("app", "seek1") /\ UNCHANGED p
       \/ /\ p.state \notin {"Stopped", "Error"} /\ p.rate = 0
          /\ p' = [p EXCEPT !.resume = FALSE] /\ Go("app", "seek1")
       \/ /\ p.state \notin {"Stopped", "Error"} /\ p.rate # 0
          /\ Go("app", "stop2") /\ UNCHANGED p
    /\ UNCHANGED <<bin, bus, loc, net, env, hist>>

StopLock ==
    /\ pc["app"] = "stop2"
    /\ p' = [p EXCEPT !.pending = "Stopped"]
    /\ loc' = [loc EXCEPT !["app"].ret = "stopend"]
    /\ Go("app", "ipause")
    /\ UNCHANGED <<bin, bus, net, env, hist>>

StopEnd ==
    /\ pc["app"] = "stopend"
    /\ p' = IF loc["app"].ok THEN p ELSE [p EXCEPT !.pending = "Unknown"]
    /\ Go("app", IF loc["app"].ok THEN "seek1" ELSE "idle")
    /\ UNCHANGED <<bin, bus, loc, net, env, hist>>

(* Seek(): a finished player plays again, unless it is to stop             *)
SeekLock ==
    /\ pc["app"] = "seek1"
    /\ p' = IF p.state = "Finished" THEN [p EXCEPT !.seek = TRUE] ELSE p
    /\ Go("app", IF p.state \in {"Unknown", "Error"} THEN "idle" ELSE "seek2")
    /\ UNCHANGED <<bin, bus, loc, net, env, hist>>

(* SeekPipeline(): there is no seek event with rate zero, and no seek      *)
(* before the pipeline has reached PAUSED                                  *)
SeekPipeline(t) ==
    \/ /\ p.rate # 0 /\ bin.state \in {PAUSED, PLAYING}
       /\ LET r == lost_state(bin) IN bin' = r.bin /\ bus' = bus \o r.msgs
       /\ loc' = [loc EXCEPT ![t].ok = TRUE]
       /\ hist' = [hist EXCEPT !.finish = FALSE]
    \/ /\ p.rate = 0 \/ bin.state \notin {PAUSED, PLAYING}
       /\ loc' = [loc EXCEPT ![t].ok = FALSE]
       /\ UNCHANGED <<bin, bus, hist>>

SeekFlush ==
    /\ pc["app"] = "seek2"
    /\ SeekPipeline("app")
    /\ Go("app", "seek3")
    /\ UNCHANGED <<p, net, env>>

(* Mutant: a finished player that is to stop plays too. *)
SeekResumeAlways ==
    /\ pc["app"] = "seek3"
    /\ Go("app", IF loc["app"].ok /\ p.state = "Finished" THEN "seekset" ELSE "idle")
    /\ UNCHANGED <<p, bin, bus, loc, net, env, hist>>

SeekResume ==
    /\ pc["app"] = "seek3"
    /\ Go("app", IF loc["app"].ok /\ p.state = "Finished" /\ p.pending # "Stopped"
                 THEN "seekset" ELSE "idle")
    /\ UNCHANGED <<p, bin, bus, loc, net, env, hist>>

SeekSet ==
    /\ pc["app"] = "seekset"
    /\ SetState("app", PLAYING)
    /\ Go("app", "idle")
    /\ UNCHANGED <<p, net, hist>>

(* SetRate(0): pauses, and remembers whether to resume                     *)
SetRateZeroCall ==
    /\ p.state # "Error" /\ p.rate # 0
    /\ Call("rate0", "pause1", [Idle EXCEPT !.then = "rate0",
                                  !.flag = bin.state = PLAYING \/ p.state = "Stalled"])

SetRateZero ==
    /\ pc["app"] = "rate0"
    /\ p' = IF loc["app"].ok THEN [p EXCEPT !.rate = 0, !.resume = loc["app"].flag] ELSE p
    /\ Go("app", "idle")
    /\ UNCHANGED <<bin, bus, loc, net, env, hist>>

(* SetRate(nonzero): m_fRate is assigned before the test whether it was    *)
(* zero                                                                    *)
SetRateCall ==
    /\ p.state # "Error" /\ p.rate = 0
    /\ Call("rate1", "rate1", Idle)

SetRate ==
    /\ pc["app"] = "rate1"
    /\ p' = [p EXCEPT !.rate = 1]
    /\ Go("app", "rate2")
    /\ UNCHANGED <<bin, bus, loc, net, env, hist>>

SetRateSeek ==
    /\ pc["app"] = "rate2"
    /\ SeekPipeline("app")
    /\ LET rateWasZero == p.rate = 0 IN
       Go("app", IF loc'["app"].ok /\ rateWasZero /\ p.resume THEN "play" ELSE "idle")
    /\ UNCHANGED <<p, net, env>>

AppStep == \/ PlayLock("app") \/ PlaySet("app")
           \/ InternalPauseLock("app") \/ InternalPauseSet("app")
           \/ PauseCheck \/ PauseLock \/ PauseEnd \/ StopCheck \/ StopLock \/ StopEnd
           \/ SeekLock \/ SeekFlush \/ SeekResume \/ SeekSet
           \/ SetRateZero \/ SetRate \/ SetRateSeek

(***************************************************************************)
(* BusCallback: the messages of the bus, first in first out.               *)
(***************************************************************************)
Take(type) ==
    /\ pc["bus"] = "idle" /\ bus # <<>> /\ Head(bus).type = type
    /\ bus' = Tail(bus)

(* SetPlayerState, without the resume of a stalled player                  *)
SetPlayerState(s) == [p EXCEPT !.state = s]

(* GST_MESSAGE_EOS                                                         *)
BusEos ==
    /\ Take("eos")
    /\ p' = IF p.state = "Finished" THEN p
            ELSE [SetPlayerState("Finished") EXCEPT !.eos = IF p.mode = "hls" THEN FALSE ELSE @]
    /\ UNCHANGED <<bin, pc, loc, net, env, hist>>

(* GST_MESSAGE_ERROR: a lost connection is only reported, and so are the   *)
(* failure that follows it and data that cannot be decoded; any other      *)
(* error tears the pipeline down                                           *)
BusLost ==
    /\ Take("lost")
    /\ p' = [p EXCEPT !.ignore = TRUE]
    /\ UNCHANGED <<bin, pc, loc, net, env, hist>>

BusFailedIgnored ==
    /\ Take("failed") /\ p.ignore
    /\ p' = [p EXCEPT !.ignore = FALSE]
    /\ UNCHANGED <<bin, pc, loc, net, env, hist>>

BusInvalid ==
    /\ Take("invalid")
    /\ UNCHANGED <<p, bin, pc, loc, net, env, hist>>

BusError ==
    /\ pc["bus"] = "idle" /\ bus # <<>>
    /\ Head(bus).type = "error" \/ (Head(bus).type = "failed" /\ ~p.ignore)
    /\ p' = [p EXCEPT !.ignore = FALSE]
    /\ \/ p.state # "Error" /\ bin' = NullBin /\ bus' = <<>>
       \/ p.state = "Error" /\ bus' = Tail(bus) /\ UNCHANGED bin
    /\ Go("bus", "dead")
    /\ UNCHANGED <<loc, net, env, hist>>

BusErrorState ==
    /\ pc["bus"] = "dead"
    /\ p' = SetPlayerState("Error")
    /\ Go("bus", "idle")
    /\ UNCHANGED <<bin, bus, loc, net, env, hist>>

(* GST_MESSAGE_STATE_CHANGED of the pipeline: which messages are heeded    *)
(* Mutant: only a change of state counts. *)
HeededChanges(m) == m.pending = VOID /\ m.new # m.old

Heeded(m) ==
    /\ m.pending = VOID
    /\ \/ m.new # m.old /\ p.state # "Unknown"
       \/ m.new = PAUSED /\ m.old = PAUSED /\ (p.pending # "Unknown" \/ p.stall)
       \/ p.state = "Unknown" /\ m.new = PAUSED /\ m.old \in {READY, PAUSED}

BusStateDropped ==
    /\ Take("state") /\ ~Heeded(Head(bus))
    /\ UNCHANGED <<p, bin, pc, loc, net, env, hist>>

(* UpdateBufferPosition: whether a stalled player may go on                *)
MayResume(enough) == p.state = "Stalled" /\ enough /\ p.pending = "Unknown"

(* ... a paused pipeline whose buffer is complete looks at the buffer      *)
(* position first                                                          *)
BusStateHeeded ==
    /\ Take("state") /\ Heeded(Head(bus))
    /\ loc' = [loc EXCEPT !["bus"].msg = Head(bus), !["bus"].ret = "update"]
    /\ Go("bus", IF Head(bus).new = PAUSED /\ p.eos /\ p.buf /\ MayResume(TRUE)
                 THEN "play" ELSE "update")
    /\ UNCHANGED <<p, bin, net, env, hist>>

(***************************************************************************)
(* UpdatePlayerState(newState, oldState): the pending state a message      *)
(* finds decides what a pause of the pipeline meant.                       *)
(***************************************************************************)
(* Stopped or Paused, if that is pending                                   *)
Settle == [p EXCEPT !.state = p.pending, !.pending = "Unknown", !.stall = FALSE]

(* Mutant: a pause that was asked for is taken for the end. *)
PausedWhilePlayingFinished(old) ==
    CASE p.pending = "Stopped" -> Settle
      [] p.stall /\ p.pending # "Paused" -> [p EXCEPT !.stall = FALSE, !.state = "Stalled"]
      [] OTHER -> IF old = PLAYING THEN [p EXCEPT !.state = "Finished"] ELSE p

PausedWhilePlaying(old) ==
    CASE p.pending = "Stopped" -> Settle
      [] p.stall /\ p.pending # "Paused" -> [p EXCEPT !.stall = FALSE, !.state = "Stalled"]
      [] p.pending = "Paused" -> Settle
      [] OTHER -> IF old = PLAYING THEN [p EXCEPT !.state = "Finished"] ELSE p

Updated(old, new) ==
    CASE p.state = "Unknown" /\ old \in {READY, PAUSED} /\ new = PAUSED ->
            [p EXCEPT !.state = "Ready"]
      [] p.state = "Ready" /\ old = PAUSED /\ new = PLAYING -> [p EXCEPT !.state = "Playing"]
      [] p.state = "Playing" /\ old \in {PAUSED, PLAYING} /\ new = PAUSED -> PausedWhilePlaying(old)
      [] p.state = "Paused" /\ old = PAUSED /\ p.pending = "Stopped" ->
            [p EXCEPT !.state = "Stopped", !.pending = "Unknown"]
      [] p.state = "Paused" /\ old = PAUSED /\ p.pending # "Stopped" /\ new = PLAYING ->
            [p EXCEPT !.state = "Playing"]
      [] p.state = "Stopped" /\ old = PAUSED /\ p.pending = "Paused" /\ new = PAUSED ->
            [p EXCEPT !.state = "Paused", !.pending = "Unknown"]
      [] p.state \in {"Stopped", "Stalled"} /\ old = PAUSED /\ new = PLAYING ->
            [p EXCEPT !.state = "Playing"]
      [] p.state = "Stalled" /\ old = PAUSED /\ new = PAUSED /\ p.pending # "Unknown" ->
            [p EXCEPT !.state = p.pending, !.pending = "Unknown"]
      [] p.state = "Finished" /\ old \in {PAUSED, PLAYING} /\ new = PAUSED /\ p.pending = "Stopped" ->
            [p EXCEPT !.state = "Stopped", !.pending = "Unknown", !.seek = FALSE]
      [] p.state = "Finished" /\ old = PAUSED /\ new = PLAYING ->
            [p EXCEPT !.state = "Playing", !.seek = FALSE]
      [] p.state = "Finished" /\ old = PAUSED /\ new = PAUSED /\ p.pending # "Stopped" ->
            [p EXCEPT !.state = "Paused", !.seek = FALSE]
      [] OTHER -> p

(* Mutant: SetPlayerState does not play again. *)
BusUpdateOnce ==
    /\ pc["bus"] = "update"
    /\ p' = Updated(loc["bus"].msg.old, loc["bus"].msg.new)
    /\ Go("bus", "idle")
    /\ UNCHANGED <<bin, bus, loc, net, env, hist>>

(* A player that has just stalled plays again at once if the buffer is     *)
(* complete or full (SetPlayerState calls Play with the lock held).        *)
BusUpdate ==
    /\ pc["bus"] = "update"
    /\ LET q == Updated(loc["bus"].msg.old, loc["bus"].msg.new)
           again == p.state # "Stalled" /\ q.state = "Stalled" /\ (q.eos \/ q.full)
       IN  \/ again /\ q.rate # 0 /\ p' = q /\ SetState("bus", PLAYING)
           \/ again /\ q.rate = 0 /\ p' = [q EXCEPT !.resume = TRUE] /\ UNCHANGED <<bin, bus, env, loc>>
           \/ ~again /\ p' = q /\ UNCHANGED <<bin, bus, env, loc>>
    /\ Go("bus", "idle")
    /\ UNCHANGED <<net, hist>>

(* GST_MESSAGE_APPLICATION, from the progress buffer                       *)
BusBuffering ==
    /\ Take("buffering")
    /\ LET m == Head(bus) IN
       /\ p' = [p EXCEPT !.eos = m.eos, !.buf = TRUE]
       /\ Go("bus", IF MayResume(m.enough \/ m.eos) THEN "play" ELSE "idle")
    /\ loc' = [loc EXCEPT !["bus"].ret = "idle"]
    /\ UNCHANGED <<bin, net, env, hist>>

(* BufferUnderrun: m_StallOnPause is set before the pause is asked for     *)
BusUnderrun ==
    /\ Take("underrun")
    /\ LET suspend == /\ p.state \notin {"Stalled", "Ready", "Error", "Finished"}
                      /\ p.buf /\ ~p.eos
                      /\ bin.state = PLAYING /\ bin.pending # PAUSED
       IN  /\ p' = IF suspend THEN [p EXCEPT !.stall = TRUE] ELSE p
           /\ Go("bus", IF suspend THEN "ipause" ELSE "idle")
    /\ loc' = [loc EXCEPT !["bus"].ret = "idle"]
    /\ UNCHANGED <<bin, net, env, hist>>

(* HLSBufferStall                                                          *)
BusStall ==
    /\ Take("stall")
    /\ LET suspend == /\ p.state = "Playing" /\ ~p.eos /\ ~p.full
                      /\ bin.state = PLAYING /\ bin.pending = VOID
       IN  /\ p' = IF suspend THEN [p EXCEPT !.stall = TRUE] ELSE p
           /\ Go("bus", IF suspend THEN "ipause" ELSE "idle")
    /\ loc' = [loc EXCEPT !["bus"].ret = "idle"]
    /\ UNCHANGED <<bin, net, env, hist>>

(* HLSBufferResume, for RESUME, EOS and FULL                               *)
HLSBufferResume(q) ==
    /\ p' = q
    /\ Go("bus", IF q.pending = "Unknown" /\ (q.state = "Stalled" \/ (q.eos /\ q.state = "Playing"))
                 THEN "play" ELSE "idle")
    /\ loc' = [loc EXCEPT !["bus"].ret = "idle"]
    /\ UNCHANGED <<bin, net, env, hist>>

BusResume == Take("resume") /\ HLSBufferResume(p)
BusHlsEos == Take("hlseos") /\ HLSBufferResume([p EXCEPT !.eos = TRUE])
BusFull == Take("full") /\ HLSBufferResume([p EXCEPT !.full = TRUE])

BusNotFull ==
    /\ Take("notfull")
    /\ p' = [p EXCEPT !.full = FALSE]
    /\ UNCHANGED <<bin, pc, loc, net, env, hist>>

BusStep == \/ PlayLock("bus") \/ PlaySet("bus")
           \/ InternalPauseLock("bus") \/ InternalPauseSet("bus")
           \/ BusEos \/ BusLost \/ BusFailedIgnored \/ BusInvalid \/ BusError
           \/ BusErrorState
           \/ BusStateDropped \/ BusStateHeeded \/ BusUpdate
           \/ BusBuffering \/ BusUnderrun \/ BusStall \/ BusResume \/ BusHlsEos
           \/ BusFull \/ BusNotFull

(***************************************************************************)
(* The pipeline's own threads.                                             *)
(***************************************************************************)
Post(m) == bus' = bus \o m
Result(r) == bin' = r.bin /\ Post(r.msgs)

Preroll ==
    /\ bin.async
    /\ \E atEnd \in (IF net = "done" THEN BOOLEAN ELSE {FALSE}) : Result(async_done(bin, atEnd))
    /\ UNCHANGED <<p, pc, loc, net, env, hist>>

Continue ==
    /\ bin.cont # VOID
    /\ \E r \in continue_func(bin) : Result(r)
    /\ UNCHANGED <<p, pc, loc, net, env, hist>>

(* the sinks play to the end of the stream                                 *)
StreamEnds ==
    /\ bin.state = PLAYING /\ ~bin.async /\ ~bin.eos /\ net = "done"
    /\ bin' = [bin EXCEPT !.eos = TRUE]
    /\ Post(<<[type |-> "eos"]>>)
    /\ UNCHANGED <<p, pc, loc, net, env, hist>>

(* the progress buffers' messages                                          *)
Net(from, to, m) ==
    /\ net \in from /\ bin.state # NULL
    /\ net' = to
    /\ Post(<<m>>)
    /\ UNCHANGED <<p, bin, pc, loc, hist>>

(* another stall: crowded if it comes before the player has settled, on    *)
(* top of an earlier stall or of a pending state that a call had left      *)
Stalls ==
    /\ env.stalls > 0
    /\ env' = [env EXCEPT !.stalls = @ - 1, !.stalled = TRUE,
                          !.crowded = @ \/ (~Settled /\ (env.stalled \/ hist.left))]

RunLow ==
    /\ Stalls
    /\ Net({"ok"}, "low", [type |-> IF p.mode = "pb" THEN "underrun" ELSE "stall"])

Recover ==
    /\ UNCHANGED env
    /\ Net({"low"}, "ok", IF p.mode = "pb" THEN Buffering(TRUE, FALSE) ELSE [type |-> "resume"])

Fill ==
    /\ Stalls /\ p.mode = "hls"
    /\ Net({"ok"}, "full", [type |-> "full"])

Drain ==
    /\ UNCHANGED env
    /\ Net({"full"}, "ok", [type |-> "notfull"])

Complete ==
    /\ UNCHANGED env
    /\ Net({"ok", "low"}, "done", IF p.mode = "pb" THEN Buffering(TRUE, TRUE) ELSE [type |-> "hlseos"])

(* an element posts an error: gst_bin_handle_message_func flags it         *)
Fault(msgs) ==
    /\ env.faults > 0 /\ env' = [env EXCEPT !.faults = @ - 1, !.faulted = TRUE]
    /\ bin.state \in {PAUSED, PLAYING}
    /\ bin' = [bin EXCEPT !.ret = "failure"]
    /\ Post(msgs)
    /\ UNCHANGED <<p, pc, loc, net, hist>>

FatalError == Fault(<<[type |-> "error"]>>)
BadData == Fault(<<[type |-> "invalid"]>>)
ConnectionLost == Fault(<<[type |-> "lost"], [type |-> "failed"]>>)

EnvStep == \/ PlayCall \/ PauseCall \/ StopCall \/ SeekCall \/ FinishCall
           \/ SetRateZeroCall \/ SetRateCall
           \/ RunLow \/ Fill \/ Recover \/ FatalError \/ BadData \/ ConnectionLost

Next == AppStep \/ BusStep \/ Preroll \/ Continue \/ StreamEnds \/ Drain \/ Complete \/ EnvStep

(* The threads of the process are scheduled; a sink prerolls unless its    *)
(* data has run out, and the download ends, but no data need come before.  *)
Spec == /\ Init /\ [][Next]_vars
        /\ WF_vars(AppStep) /\ WF_vars(BusStep) /\ WF_vars(Continue)
        /\ WF_vars(Preroll /\ net # "low") /\ WF_vars(StreamEnds)
        /\ WF_vars(Drain \/ Complete)

(***************************************************************************)
(* Properties.                                                             *)
(***************************************************************************)

(* Calm: every call waited for the one before, and nothing failed.         *)
Calm == ~env.rushed /\ ~env.faulted

(* Uncrowded: a stall in the middle of a call met no other stall, and no   *)
(* pending state that a call before had left.                              *)
Uncrowded == ~env.crowded

(* When no message is on its way and no change under way, the state the    *)
(* player shows agrees with the pipeline's: UpdatePlayerState has made     *)
(* the right thing of every message, in whatever state and with whatever   *)
(* pending state the message found the player.  (Not so when stalls crowd: *)
(* settling a stop() clears the m_StallOnPause of a later underrun, whose  *)
(* pause is then dropped, and the player shows Playing.  And a stop() that *)
(* a Ready player leaves pending takes the pause of an underrun, so that   *)
(* the next stop() stays pending: after pause() and play() the player      *)
(* shows Stopped and plays.)                                               *)
SettledAgrees ==
    Settled /\ Calm /\ Uncrowded =>
        /\ p.state = "Playing" => bin.state = PLAYING
        /\ p.state \in {"Ready", "Paused", "Stopped", "Stalled"} => bin.state = PAUSED

(* What the last call asked for holds once the player settles, while the   *)
(* progress buffer had no reason to pause or resume by itself: no stale    *)
(* message, pending state or end of stream can turn a pause into play or a *)
(* stop into something else.                                               *)
CallHolds ==
    Settled /\ Calm /\ ~env.stalled /\ p.rate # 0 /\ p.mode = "pb" =>
        /\ hist.asked = "play" => p.state \in {"Playing", "Finished"}
        /\ hist.asked = "pause" => p.state \in {"Ready", "Paused", "Finished"}
        /\ hist.asked = "stop" => p.state \in {"Ready", "Stopped"}

(* The player always settles again, also when calls are made before the    *)
(* one before has taken effect: no state change waits for ever.            *)
SettlesAgain == []<>(Settled \/ env.faulted)

(* A player that was told to play and stalls plays on: the message that    *)
(* would resume it may come before it has stalled, and no other would      *)
(* follow.  (After another call it may hang: m_StallOnPause is left from a *)
(* stall that was resumed before it paused the pipeline, and the next      *)
(* pause, whoever asked for it, stalls the player; so may the pauses of    *)
(* stalls that crowd.)                                                     *)
StallEnds == (p.state = "Stalled" /\ hist.asked = "play")
                ~> (\/ p.state # "Stalled" \/ p.rate = 0 \/ hist.asked # "play"
                    \/ ~Calm \/ ~Uncrowded)

(* MediaPlayer.stop() is documented to stop playing the media: once the    *)
(* player has settled after it, it does not play.                          *)
StopStops == Settled /\ Calm /\ p.rate # 0 /\ hist.asked = "stop" => p.state # "Playing"

(* The player finishes at the end of the stream, or when finish() asks: no *)
(* pause that a call or an underrun asked for is taken for the end, though *)
(* UpdatePlayerState finds it out from what is pending.  (Not so for HLS:  *)
(* HLSBufferResume may ask to play what a call is about to pause, and the  *)
(* pause that comes back finds nothing pending.  Nor when stalls crowd: of *)
(* two pauses the first clears m_StallOnPause.)                            *)
FinishedOnlyAtEnd ==
    [][p.state # "Finished" /\ p'.state = "Finished" /\ Calm /\ Uncrowded /\ p.mode = "pb" =>
          (bus # <<>> /\ Head(bus).type = "eos") \/ bin.eos \/ hist.finish]_vars
=============================================================================
