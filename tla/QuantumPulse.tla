---------------------------- MODULE QuantumPulse -----------------------------
(***************************************************************************)
(* The pulse of the Quantum toolkit (QuantumToolkit, PaintCollector,       *)
(* GlassScene, ViewScene, PresentingPainter): how a change of a scene      *)
(* reaches the screen.                                                     *)
(*                                                                         *)
(* A timer thread posts a pulse to the application thread when there is    *)
(* something to do.  The pulse synchronizes each changed scene with its    *)
(* render tree and hands the dirty ones to the render thread, which paints *)
(* them one after the other.  The application thread changes a render tree *)
(* only when the latch of the collector is open and the render lock free.  *)
(*                                                                         *)
(* What a scene shows is abstracted to a version number: model is that of  *)
(* the scene graph, peer that of the render tree, drawn that on screen.    *)
(* The first version of a scene is 1, and 0 is nothing at all.             *)
(***************************************************************************)
EXTENDS Naturals, Sequences, FiniteSets

CONSTANTS
  Scenes,    \* the scenes
  Flaky,     \* those whose windows lose their contents, or whose painting fails
  MaxEvents  \* bound on the calls of user code, the events and the failures

(* The runnable that is a pulse; the others are named by their scenes. *)
Pulse == "pulse"

ASSUME PulseAssumption ==
  /\ IsFiniteSet(Scenes) /\ Pulse \notin Scenes
  /\ Flaky \subseteq Scenes
  /\ MaxEvents \in Nat

VARIABLES
  life,              \* a scene is new, shown in a window, or closed
  model, peer, drawn,
  painting,          \* GlassScene.painting
  dirtyScenes, hasDirty,
  latch,             \* the count of allWorkCompletedLatch
  fx,                \* what the application thread does
  todo,              \* the scenes which that is still to be done for
  queue,             \* the runnables of the application thread: a pulse, or
                     \* the repaint that the render thread asks for a scene
  nextPulseRequested, animationRunning, pulseRunning, toolkitRunning,
  animation,         \* animationRunnable is not null
  timer,             \* where the timer thread is in postPulse
  jobs,              \* the paint jobs of the render thread, the current one first
  render,            \* where the render thread is in the current job
  events             \* how many calls and events there were

sceneVars == <<life, model, peer, drawn>>
collectorVars == <<dirtyScenes, hasDirty, latch>>
fxVars == <<fx, todo, queue>>
flags == <<nextPulseRequested, animationRunning, pulseRunning, toolkitRunning, animation>>
renderVars == <<painting, jobs, render>>
vars == <<sceneVars, collectorVars, fxVars, flags, timer, renderVars, events>>

-----------------------------------------------------------------------------
(* PaintCollector.addDirtyScene, removeDirtyScene and GlassScene.sceneChanged. *)

AddDirtyScene(s) ==
  /\ dirtyScenes' = dirtyScenes \union {s}
  /\ hasDirty' = (hasDirty \/ s \notin dirtyScenes)

RemoveDirtyScene(s) ==
  /\ dirtyScenes' = dirtyScenes \ {s}
  /\ hasDirty' = (dirtyScenes' # {})

SceneChanged(s) == IF life[s] = "shown" THEN AddDirtyScene(s) ELSE RemoveDirtyScene(s)

(* The painter holds renderLock until it has cleared painting. *)
RenderLocked == render \in {"locked", "painted", "cleared"}

-----------------------------------------------------------------------------
(* User code and events, on the application thread: between two runnables, *)
(* or in the animations, listeners, CSS and layout that a pulse calls.     *)

Count ==
  /\ events < MaxEvents
  /\ events' = events + 1

Event == fx \in {"idle", "pulse"} /\ Count

(* The window is shown: the peer is created and attached to its stage, and *)
(* a pulse is requested.                                                   *)
Show(s) ==
  /\ Event
  /\ life[s] = "new"
  /\ life' = [life EXCEPT ![s] = "shown"]
  /\ AddDirtyScene(s)
  /\ nextPulseRequested' = TRUE
  /\ UNCHANGED <<model, peer, drawn, latch, fxVars, timer, renderVars>>
  /\ UNCHANGED <<animationRunning, pulseRunning, toolkitRunning, animation>>

(* The window is closed: setStage(null), then dispose, which needs the     *)
(* render lock.                                                            *)
Close(s) ==
  /\ Event
  /\ life[s] = "shown" /\ ~RenderLocked
  /\ life' = [life EXCEPT ![s] = "closed"]
  /\ RemoveDirtyScene(s)
  /\ UNCHANGED <<model, peer, drawn, latch, fxVars, flags, timer, renderVars>>

(* Mutant: no pulse is requested for a change made during a pulse. *)
RequestNextPulseOutside(s) ==
  nextPulseRequested' = (nextPulseRequested \/ (model[s] = peer[s] /\ fx = "idle"))

(* addToDirtyList: the first node that becomes dirty requests a pulse, and *)
(* so does every node of a scene that was never synchronized.              *)
RequestNextPulse(s) ==
  nextPulseRequested' = (nextPulseRequested \/ model[s] = peer[s] \/ peer[s] = 0)

(* A node of the scene is changed. *)
Change(s) ==
  /\ Event
  /\ life[s] = "shown"
  /\ model' = [model EXCEPT ![s] = @ + 1]
  /\ RequestNextPulse(s)
  /\ UNCHANGED <<life, peer, drawn, collectorVars, fxVars, timer, renderVars>>
  /\ UNCHANGED <<animationRunning, pulseRunning, toolkitRunning, animation>>

(* setAnimationRunnable. *)
SetAnimationRunnable ==
  /\ Event
  /\ animation' = ~animation
  /\ animationRunning' = (animationRunning \/ animation')
  /\ UNCHANGED <<sceneVars, collectorVars, fxVars, timer, renderVars>>
  /\ UNCHANGED <<nextPulseRequested, pulseRunning, toolkitRunning>>

(* The window has lost what it showed: handleViewEvent(REPAINT). *)
Expose(s) ==
  /\ fx = "idle" /\ Event
  /\ s \in Flaky /\ life[s] = "shown"
  /\ drawn' = [drawn EXCEPT ![s] = 0]
  /\ SceneChanged(s)
  /\ UNCHANGED <<life, model, peer, latch, fxVars, flags, timer, renderVars>>

-----------------------------------------------------------------------------
(* The pulse timer and the hint of the render thread.                      *)

PulseNeeded ==
  toolkitRunning /\ (animationRunning \/ nextPulseRequested \/ hasDirty)

(* Mutant: the flag is not tested. *)
PostPulseAlways ==
  /\ pulseRunning' = TRUE
  /\ queue' = Append(queue, Pulse)

(* postPulse after its tests: !setPulseRunning(), then invokeLater. *)
PostPulse ==
  /\ pulseRunning' = TRUE
  /\ queue' = IF pulseRunning THEN queue ELSE Append(queue, Pulse)

TimerTicks ==
  /\ timer = "idle" /\ fx \notin {"exiting", "stopped"}
  /\ PulseNeeded
  /\ timer' = "posting"
  /\ UNCHANGED <<sceneVars, collectorVars, fxVars, flags, renderVars, events>>

TimerPosts ==
  /\ timer = "posting"
  /\ timer' = "idle"
  /\ PostPulse
  /\ UNCHANGED <<sceneVars, collectorVars, fx, todo, renderVars, events>>
  /\ UNCHANGED <<nextPulseRequested, animationRunning, toolkitRunning, animation>>

-----------------------------------------------------------------------------
(* pulse() on the application thread.                                      *)

(* The flags, the animations and the copy of the listeners. *)
PulseStarts ==
  /\ fx = "idle" /\ queue # <<>> /\ Head(queue) = Pulse
  /\ queue' = Tail(queue)
  /\ \/ /\ toolkitRunning
        /\ nextPulseRequested' = FALSE
        /\ animationRunning' = animation
        /\ fx' = "pulse"
        /\ todo' = {s \in Scenes : life[s] = "shown"}
        /\ UNCHANGED pulseRunning
     \/ /\ ~toolkitRunning
        /\ pulseRunning' = FALSE
        /\ UNCHANGED <<nextPulseRequested, animationRunning, fx, todo>>
  /\ UNCHANGED <<sceneVars, collectorVars, toolkitRunning, animation, timer, renderVars, events>>

(* ScenePulseListener.pulse for a scene that has no changes. *)
SkipScene(s) ==
  /\ fx = "pulse" /\ s \in todo
  /\ model[s] = peer[s]
  /\ todo' = todo \ {s}
  /\ UNCHANGED <<sceneVars, collectorVars, fx, queue, flags, timer, renderVars, events>>

(* peer.markDirty(), unless the scene has no peer any more. *)
MarkDirty(s) ==
  IF life[s] = "shown" THEN SceneChanged(s) ELSE UNCHANGED <<dirtyScenes, hasDirty>>

(* The same for a scene that has: waitForRenderingToComplete and           *)
(* waitForSynchronization, if it still has a peer, then the copying.       *)
SyncScene(s) ==
  /\ fx = "pulse" /\ s \in todo
  /\ model[s] # peer[s]
  /\ life[s] = "shown" => latch = 0 /\ ~RenderLocked
  /\ peer' = [peer EXCEPT ![s] = model[s]]
  /\ MarkDirty(s)
  /\ todo' = todo \ {s}
  /\ UNCHANGED <<life, model, drawn, latch, fx, queue, flags, timer, renderVars, events>>

(* renderAll up to the loop. *)
RenderAll ==
  /\ fx = "pulse" /\ todo = {}
  /\ fx' = "repaint"
  /\ IF hasDirty
     THEN /\ hasDirty' = FALSE
          /\ latch' = Cardinality(dirtyScenes)
          /\ todo' = dirtyScenes
     ELSE UNCHANGED <<hasDirty, latch, todo>>
  /\ UNCHANGED <<sceneVars, dirtyScenes, queue, flags, timer, renderVars, events>>

(* if (!setPainting(true)) addRenderJob: the scene that waits to be painted *)
(* is not submitted again, and a renderer that was shut down refuses.      *)
Submits(s) == ~painting[s] /\ toolkitRunning

(* gs.repaint() in the loop of renderAll; a dirty scene has a view. *)
Repaint(s) ==
  /\ fx = "repaint" /\ s \in todo
  /\ painting' = [painting EXCEPT ![s] = TRUE]
  /\ jobs' = IF Submits(s) THEN Append(jobs, s) ELSE jobs
  /\ todo' = todo \ {s}
  /\ UNCHANGED <<sceneVars, collectorVars, fx, queue, flags, timer, render, events>>

(* The end of renderAll and of pulse(). *)
PulseEnds ==
  /\ fx = "repaint" /\ todo = {}
  /\ dirtyScenes' = {}
  /\ fx' = "idle"
  /\ pulseRunning' = FALSE
  /\ UNCHANGED <<sceneVars, hasDirty, latch, todo, queue, timer, renderVars, events>>
  /\ UNCHANGED <<nextPulseRequested, animationRunning, toolkitRunning, animation>>

(* The runnable of entireSceneNeedsRepaint. *)
RepaintAsked ==
  /\ fx = "idle" /\ queue # <<>> /\ Head(queue) # Pulse
  /\ queue' = Tail(queue)
  /\ SceneChanged(Head(queue))
  /\ UNCHANGED <<sceneVars, latch, fx, todo, flags, timer, renderVars, events>>

-----------------------------------------------------------------------------
(* exit() stops the timer and waits for the render thread; the shutdown    *)
(* hook calls dispose() on a thread of its own, at any time.               *)

ExitStarts ==
  /\ fx = "idle" /\ toolkitRunning
  /\ Count
  /\ fx' = "exiting"
  /\ UNCHANGED <<sceneVars, collectorVars, todo, queue, flags, timer, renderVars>>

Dispose ==
  /\ toolkitRunning' = FALSE
  /\ UNCHANGED <<sceneVars, collectorVars, todo, queue, timer, renderVars>>
  /\ UNCHANGED <<nextPulseRequested, animationRunning, pulseRunning, animation>>

ExitEnds ==
  /\ fx = "exiting" /\ latch = 0 /\ ~RenderLocked
  /\ fx' = "stopped"
  /\ Dispose
  /\ UNCHANGED events

ShutdownHook ==
  /\ toolkitRunning
  /\ Count
  /\ Dispose
  /\ UNCHANGED fx

-----------------------------------------------------------------------------
(* The render thread: PresentingPainter.run, then PaintCollector.done.     *)

RenderStep(from, to) ==
  /\ jobs # <<>> /\ render = from
  /\ render' = to

JobStarts ==
  /\ RenderStep("idle", "locked")
  /\ UNCHANGED <<sceneVars, collectorVars, fxVars, flags, timer, painting, jobs, events>>

(* The scene is painted and presented; nothing is, when it was disposed.   *)
Paint ==
  /\ RenderStep("locked", "painted")
  /\ LET s == Head(jobs)
     IN drawn' = IF life[s] = "shown" THEN [drawn EXCEPT ![s] = peer[s]] ELSE drawn
  /\ UNCHANGED <<life, model, peer, collectorVars, fxVars, flags, timer, painting, jobs, events>>

(* The device is not ready or the buffer is lost: entireSceneNeedsRepaint  *)
(* posts a runnable. *)
PaintFails ==
  /\ RenderStep("locked", "painted")
  /\ Head(jobs) \in Flaky
  /\ Count
  /\ queue' = Append(queue, Head(jobs))
  /\ UNCHANGED <<sceneVars, collectorVars, fx, todo, flags, timer, painting, jobs>>

(* Mutant: the lock is released first. *)
PaintingEndsUnlocked ==
  /\ \/ RenderStep("painted", "unlocked") /\ UNCHANGED painting
     \/ RenderStep("unlocked", "done") /\ painting' = [painting EXCEPT ![Head(jobs)] = FALSE]
  /\ UNCHANGED <<sceneVars, collectorVars, fxVars, flags, timer, jobs, events>>

(* finally: setPainting(false), then renderLock.unlock(). *)
PaintingEnds ==
  /\ \/ RenderStep("painted", "cleared") /\ painting' = [painting EXCEPT ![Head(jobs)] = FALSE]
     \/ RenderStep("cleared", "done") /\ UNCHANGED painting
  /\ UNCHANGED <<sceneVars, collectorVars, fxVars, flags, timer, jobs, events>>

(* done() before countDown: the last scene may hint at a pulse, which is   *)
(* posted if postPulse finds it needed.  Whether there is a hint depends   *)
(* on vsync and on the kind of the scenes.                                 *)
Done ==
  /\ \/ RenderStep("done", "counting")
     \/ latch = 1 /\ PulseNeeded /\ RenderStep("done", "hinting")
  /\ UNCHANGED <<sceneVars, collectorVars, fxVars, flags, timer, painting, jobs, events>>

VsyncHint ==
  /\ RenderStep("hinting", "counting")
  /\ PostPulse
  /\ UNCHANGED <<sceneVars, collectorVars, fx, todo, timer, painting, jobs, events>>
  /\ UNCHANGED <<nextPulseRequested, animationRunning, toolkitRunning, animation>>

(* Mutants: the latch is not counted down for a closed scene, or it does   *)
(* not stop at zero.                                                       *)
CountDownShown ==
  /\ RenderStep("counting", "idle")
  /\ latch' = IF latch = 0 \/ life[Head(jobs)] = "closed" THEN latch ELSE latch - 1
  /\ jobs' = Tail(jobs)
  /\ UNCHANGED <<sceneVars, dirtyScenes, hasDirty, fxVars, flags, timer, painting, events>>

CountDownBelowZero ==
  /\ RenderStep("counting", "idle")
  /\ latch' = latch - 1
  /\ jobs' = Tail(jobs)
  /\ UNCHANGED <<sceneVars, dirtyScenes, hasDirty, fxVars, flags, timer, painting, events>>

(* allWorkCompletedLatch.countDown(), whichever latch that is by now. *)
CountDown ==
  /\ RenderStep("counting", "idle")
  /\ latch' = IF latch = 0 THEN 0 ELSE latch - 1
  /\ jobs' = Tail(jobs)
  /\ UNCHANGED <<sceneVars, dirtyScenes, hasDirty, fxVars, flags, timer, painting, events>>

-----------------------------------------------------------------------------
Init ==
  /\ life = [s \in Scenes |-> "new"]
  /\ model = [s \in Scenes |-> 1]
  /\ peer = [s \in Scenes |-> 0] /\ drawn = [s \in Scenes |-> 0]
  /\ painting = [s \in Scenes |-> FALSE]
  /\ dirtyScenes = {} /\ hasDirty = FALSE /\ latch = 0
  /\ fx = "idle" /\ todo = {} /\ queue = <<>>
  /\ nextPulseRequested = FALSE /\ animationRunning = FALSE
  /\ pulseRunning = FALSE /\ toolkitRunning = TRUE /\ animation = FALSE
  /\ timer = "idle"
  /\ jobs = <<>> /\ render = "idle"
  /\ events = 0

UserThread ==
  \/ \E s \in Scenes : Show(s) \/ Close(s) \/ Change(s) \/ Expose(s)
  \/ SetAnimationRunnable \/ ExitStarts

TimerThread == TimerTicks \/ TimerPosts

FxThread ==
  \/ PulseStarts \/ RenderAll \/ PulseEnds \/ RepaintAsked \/ ExitEnds
  \/ \E s \in Scenes : SkipScene(s) \/ SyncScene(s) \/ Repaint(s)

RenderThread ==
  JobStarts \/ Paint \/ PaintFails \/ PaintingEnds \/ Done \/ VsyncHint \/ CountDown

Next == UserThread \/ TimerThread \/ FxThread \/ RenderThread \/ ShutdownHook

Spec == Init /\ [][Next]_vars

(* The timer ticks, and the event loop and the render thread keep going. *)
FairSpec == Spec /\ WF_vars(TimerThread) /\ WF_vars(FxThread) /\ WF_vars(RenderThread)

-----------------------------------------------------------------------------
Versions == 0..(MaxEvents + 1)

(* Every variable has the type the code gives it. *)
TypeOK ==
  /\ life \in [Scenes -> {"new", "shown", "closed"}]
  /\ model \in [Scenes -> Versions]
  /\ peer \in [Scenes -> Versions] /\ drawn \in [Scenes -> Versions]
  /\ painting \in [Scenes -> BOOLEAN]
  /\ dirtyScenes \subseteq Scenes /\ hasDirty \in BOOLEAN
  /\ latch \in 0..Cardinality(Scenes)
  /\ fx \in {"idle", "pulse", "repaint", "exiting", "stopped"}
  /\ todo \subseteq Scenes
  /\ queue \in Seq({Pulse} \union Scenes)
  /\ nextPulseRequested \in BOOLEAN /\ animationRunning \in BOOLEAN
  /\ pulseRunning \in BOOLEAN /\ toolkitRunning \in BOOLEAN /\ animation \in BOOLEAN
  /\ timer \in {"idle", "posting"}
  /\ jobs \in Seq(Scenes)
  /\ render \in {"idle", "locked", "painted", "cleared", "unlocked", "done", "hinting", "counting"}
  /\ events \in 0..MaxEvents

(* Two threads post pulses, but never more than one waits or runs, so the  *)
(* application thread is not flooded by a timer that is faster than it;    *)
(* and pulseRunning is set only while there is one, or none would come     *)
(* after it.                                                               *)
OnePulse ==
  LET waiting == {i \in DOMAIN queue : queue[i] = Pulse}
      inPulse == IF fx \in {"pulse", "repaint"} THEN 1 ELSE 0
  IN Cardinality(waiting) + inPulse = IF pulseRunning THEN 1 ELSE 0

(* The latch is never waited for in vain: each of the scenes it counts is  *)
(* still to be handed to the render thread, or has a job that will count   *)
(* it down, although renderAll counts scenes and not the jobs it submits.  *)
LatchIsCovered ==
  toolkitRunning =>
    latch <= Len(jobs) + Cardinality({s \in todo : fx = "repaint" /\ ~painting[s]})

(* s has a job that will paint its render tree as it is now. *)
WillBePainted(s) ==
  \E i \in DOMAIN jobs : jobs[i] = s /\ (i = 1 => render \in {"idle", "locked"})

(* A scene whose render tree is not what is on screen is about to be       *)
(* painted: its job was not skipped for an earlier one that had painted    *)
(* the previous render tree.                                               *)
NotForgotten(s) ==
  toolkitRunning /\ life[s] = "shown" /\ drawn[s] # peer[s] =>
    \/ s \in dirtyScenes /\ (fx = "repaint" => s \in todo)
    \/ WillBePainted(s)
    \/ \E i \in DOMAIN queue : queue[i] = s

NoLostChange == \A s \in Scenes \ Flaky : NotForgotten(s)

(* renderAll is documented "to render whatever dirty scenes we have", also *)
(* those that the platform or the painter asked to repaint.                *)
NoLostRepaint == \A s \in Scenes : NotForgotten(s)

(* What is changed is shown in the end, whatever other scenes do, unless   *)
(* the window is closed or the toolkit stops.                              *)
ChangeIsDrawn ==
  \A s \in Scenes \ Flaky, v \in 1..(MaxEvents + 1) :
    life[s] = "shown" /\ model[s] = v ~>
      (drawn[s] >= v \/ life[s] = "closed" \/ ~toolkitRunning \/ fx = "exiting")
=============================================================================
