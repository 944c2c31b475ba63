------------------------- MODULE QuantumPulseProof --------------------------
(***************************************************************************)
(* Theorems about QuantumPulse, for every finite set of scenes and every   *)
(* number of events: the latch of the PaintCollector is covered, pulses    *)
(* neither pile up nor stop, and no change of a dependable scene is lost.  *)
(*                                                                         *)
(* For the latch: renderAll counts dirty scenes, but submits a job only    *)
(* for those that are not painting, so the argument is that a scene that   *)
(* is painting has a job of an earlier renderAll which has not been        *)
(* counted down, and that these jobs are different for different scenes.   *)
(***************************************************************************)
EXTENDS QuantumPulse, FiniteSetTheorems, SequenceTheorems, TLAPS

(* The scenes that renderAll will still submit. *)
ToSubmit == {s \in todo : fx = "repaint" /\ ~painting[s]}

(* The types that the argument needs. *)
Types ==
  /\ jobs \in Seq(Scenes)
  /\ painting \in [Scenes -> BOOLEAN]
  /\ dirtyScenes \subseteq Scenes
  /\ todo \subseteq Scenes
  /\ queue \in Seq({Pulse} \union Scenes)
  /\ latch \in Nat

(* Between two jobs the render thread is idle. *)
IdleWithoutJobs == jobs = <<>> => render = "idle"

(* s has a job that will clear painting. *)
HasJob(s) ==
  \E i \in DOMAIN jobs : jobs[i] = s /\ (i = 1 => render \in {"idle", "locked", "painted"})

PaintingHasJob == toolkitRunning => \A s \in Scenes : painting[s] => HasJob(s)

IInv == Types /\ IdleWithoutJobs /\ PaintingHasJob /\ LatchIsCovered

-----------------------------------------------------------------------------
(* What is still to be submitted has a cardinality. *)
LEMMA ToSubmitFinite ==
  ASSUME Types
  PROVE  IsFiniteSet(ToSubmit) /\ Cardinality(ToSubmit) \in Nat
<1>1. ToSubmit \in SUBSET Scenes
  BY DEF Types, ToSubmit
<1>2. IsFiniteSet(ToSubmit)
  BY <1>1, PulseAssumption, FS_Subset
<1> QED
  BY <1>2, FS_CardinalityType

(* The positions of a sequence of length n. *)
LEMMA IntervalSize ==
  ASSUME NEW n \in Nat
  PROVE  IsFiniteSet(1..n) /\ Cardinality(1..n) = n
<1>1. IsFiniteSet(1..n) /\ Cardinality(1..n) = IF 1 > n THEN 0 ELSE n - 1 + 1
  BY FS_Interval, 1 \in Int, n \in Int, Zenon
<1> QED
  BY <1>1

(* No more scenes than jobs are painting. *)
LEMMA PaintingBounded ==
  ASSUME Types, PaintingHasJob, toolkitRunning, NEW D \in SUBSET Scenes
  PROVE  Cardinality({s \in D : painting[s]}) <= Len(jobs)
<1> DEFINE P == {s \in D : painting[s]}
           R == {jobs[i] : i \in 1..Len(jobs)}
           f == [i \in 1..Len(jobs) |-> jobs[i]]
<1>1. Len(jobs) \in Nat /\ DOMAIN jobs = 1..Len(jobs)
  BY LenProperties DEF Types
<1>2. P \subseteq R
  BY <1>1 DEF PaintingHasJob, HasJob
<1>3. f \in Surjection(1..Len(jobs), R)
  BY <1>1 DEF Surjection
<1>4. IsFiniteSet(1..Len(jobs)) /\ Cardinality(1..Len(jobs)) = Len(jobs)
  BY <1>1, IntervalSize
<1>5. IsFiniteSet(R) /\ Cardinality(R) <= Len(jobs)
  <2> HIDE DEF f, R
  <2> QED
    BY <1>3, <1>4, FS_Surjection
<1>6. IsFiniteSet(P) /\ Cardinality(P) <= Cardinality(R)
  <2> HIDE DEF P, R
  <2> QED
    BY <1>2, <1>5, FS_Subset
<1>7. Cardinality(P) \in Nat /\ Cardinality(R) \in Nat
  BY <1>5, <1>6, FS_CardinalityType
<1> QED
  BY <1>1, <1>5, <1>6, <1>7

(* Of the dirty scenes, those that are painting have a job already and the *)
(* others are still to be submitted.                                       *)
LEMMA DirtyCovered ==
  ASSUME Types, PaintingHasJob, toolkitRunning, NEW D \in SUBSET Scenes
  PROVE  /\ Cardinality(D) \in Nat
         /\ Cardinality(D) <= Len(jobs) + Cardinality({s \in D : ~painting[s]})
<1> DEFINE P == {s \in D : painting[s]}
           N == {s \in D : ~painting[s]}
<1>1. IsFiniteSet(D) /\ IsFiniteSet(P) /\ IsFiniteSet(N)
  BY PulseAssumption, FS_Subset, P \in SUBSET Scenes, N \in SUBSET Scenes
<1>2. Cardinality(D) \in Nat /\ Cardinality(P) \in Nat /\ Cardinality(N) \in Nat
  BY <1>1, FS_CardinalityType
<1>3. D = P \union N /\ P \intersect N = {}
  BY DEF Types
<1>4. Cardinality(P \intersect N) = 0
  BY <1>3, FS_EmptySet
<1>5. Cardinality(P \union N) = Cardinality(P) + Cardinality(N) - Cardinality(P \intersect N)
  <2> HIDE DEF P, N
  <2> QED
    BY <1>1, FS_Union
<1>6. Cardinality(P) <= Len(jobs)
  BY PaintingBounded
<1>7. Len(jobs) \in Nat
  BY LenProperties DEF Types
<1>8. Cardinality(D) = Cardinality(P) + Cardinality(N)
  <2> HIDE DEF P, N
  <2> QED
    BY <1>2, <1>3, <1>4, <1>5
<1> HIDE DEF P, N
<1>9. Cardinality(D) <= Len(jobs) + Cardinality(N)
  BY <1>2, <1>6, <1>7, <1>8
<1> QED
  BY <1>2, <1>9 DEF N

-----------------------------------------------------------------------------
(* Posting and taking a runnable keep the type of a queue. *)
LEMMA QueueType ==
  ASSUME NEW S, NEW q \in Seq(S)
  PROVE  /\ \A e \in S : Append(q, e) \in Seq(S)
         /\ q # <<>> => Tail(q) \in Seq(S)
  OBVIOUS

(* Every step keeps the types. *)
LEMMA TypesStep ==
  ASSUME IInv, Next
  PROVE  Types'
<1> USE DEF IInv, Types
<1>1. ASSUME NEW s \in Scenes, Show(s) \/ Close(s) \/ Change(s) \/ Expose(s)
      PROVE  Types'
  <2>1. UNCHANGED <<jobs, painting, todo, queue, latch>>
    BY <1>1 DEF Show, Close, Change, Expose, collectorVars, fxVars, renderVars
  <2>2. dirtyScenes' \subseteq Scenes
    BY <1>1 DEF Show, Close, Change, Expose, AddDirtyScene, RemoveDirtyScene, SceneChanged, collectorVars
  <2> QED
    BY <2>1, <2>2
<1>2. CASE SetAnimationRunnable \/ ExitStarts
  BY <1>2 DEF SetAnimationRunnable, ExitStarts, collectorVars, fxVars, renderVars
<1>3. CASE TimerThread
  <2>1. UNCHANGED <<jobs, painting, dirtyScenes, todo, latch>>
    BY <1>3 DEF TimerThread, TimerTicks, TimerPosts, collectorVars, fxVars, renderVars
  <2>2. queue' = queue \/ queue' = Append(queue, Pulse)
    BY <1>3 DEF TimerThread, TimerTicks, TimerPosts, PostPulse, fxVars
  <2> QED
    BY <2>1, <2>2
<1>4. CASE PulseStarts \/ PulseEnds
  <2>1. UNCHANGED <<jobs, painting, latch>> /\ dirtyScenes' \subseteq Scenes /\ todo' \subseteq Scenes
    BY <1>4 DEF PulseStarts, PulseEnds, collectorVars, renderVars
  <2>2. queue' = queue \/ (queue # <<>> /\ queue' = Tail(queue))
    BY <1>4 DEF PulseStarts, PulseEnds
  <2>3. queue' \in Seq({Pulse} \union Scenes)
    BY <2>2, QueueType
  <2> QED
    BY <2>1, <2>3
<1>5. CASE RepaintAsked
  <2>1. Head(queue) \in Scenes /\ Tail(queue) \in Seq({Pulse} \union Scenes)
    BY <1>5 DEF RepaintAsked
  <2> QED
    BY <1>5, <2>1 DEF RepaintAsked, SceneChanged, AddDirtyScene, RemoveDirtyScene, renderVars
<1>6. CASE ExitEnds \/ ShutdownHook
  BY <1>6 DEF ExitEnds, ShutdownHook, Dispose, collectorVars, fxVars, renderVars
<1>7. CASE RenderAll
  <2>1. Cardinality(dirtyScenes) \in Nat
    BY PulseAssumption, FS_Subset, FS_CardinalityType
  <2> QED
    BY <1>7, <2>1 DEF RenderAll, renderVars
<1>8. ASSUME NEW s \in Scenes, SkipScene(s) \/ SyncScene(s) \/ Repaint(s)
      PROVE  Types'
  <2>1. UNCHANGED <<queue, latch>> /\ todo' \subseteq Scenes
    BY <1>8 DEF SkipScene, SyncScene, Repaint, collectorVars
  <2>2. jobs' = jobs \/ jobs' = Append(jobs, s)
    BY <1>8 DEF SkipScene, SyncScene, Repaint, renderVars
  <2>3. painting' \in [Scenes -> BOOLEAN]
    BY <1>8 DEF SkipScene, SyncScene, Repaint, renderVars
  <2>4. dirtyScenes' \subseteq Scenes
    BY <1>8 DEF SkipScene, SyncScene, Repaint, MarkDirty, SceneChanged, AddDirtyScene, RemoveDirtyScene, collectorVars
  <2> QED
    BY <2>1, <2>2, <2>3, <2>4
<1>9. CASE RenderThread
  <2> USE DEF RenderThread, JobStarts, Paint, PaintFails, PaintingEnds, Done, VsyncHint, CountDown,
              RenderStep, collectorVars, fxVars
  <2>1. UNCHANGED <<dirtyScenes, todo>>
    BY <1>9
  <2>2. /\ jobs' = jobs \/ (jobs # <<>> /\ jobs' = Tail(jobs))
        /\ latch' = latch \/ latch' = IF latch = 0 THEN 0 ELSE latch - 1
    BY <1>9
  <2>3. painting' \in [Scenes -> BOOLEAN]
    BY <1>9
  <2>4. jobs # <<>> => Head(jobs) \in Scenes /\ Tail(jobs) \in Seq(Scenes)
    OBVIOUS
  <2>5. \/ queue' \in {queue, Append(queue, Pulse)}
        \/ jobs # <<>> /\ queue' = Append(queue, Head(jobs))
    BY <1>9 DEF PostPulse
  <2>6. jobs' \in Seq(Scenes) /\ latch' \in Nat
    BY <2>2, <2>4
  <2>7. queue' \in Seq({Pulse} \union Scenes)
    BY <2>4, <2>5, QueueType, Pulse \in {Pulse} \union Scenes
  <2> QED
    BY <2>1, <2>3, <2>6, <2>7
<1> QED
  BY <1>1, <1>2, <1>3, <1>4, <1>5, <1>6, <1>7, <1>8, <1>9 DEF Next, UserThread, FxThread

(* A step of another thread that leaves jobs and painting alone. *)
LEMMA JobsFrame ==
  ASSUME IInv, UNCHANGED <<jobs, painting, render>>, toolkitRunning' => toolkitRunning
  PROVE  IdleWithoutJobs' /\ PaintingHasJob'
  BY DEF IInv, IdleWithoutJobs, PaintingHasJob, HasJob

(* Every step keeps a job for each scene that is painting: Repaint sets the *)
(* flag and appends the job, PaintingEnds clears the flag before CountDown *)
(* removes the job.                                                        *)
LEMMA JobsStep ==
  ASSUME IInv, Next
  PROVE  IdleWithoutJobs' /\ PaintingHasJob'
<1> USE DEF IInv, Types
<1>1. CASE UserThread
  BY <1>1, JobsFrame DEF UserThread, Show, Close, Change, Expose, SetAnimationRunnable, ExitStarts, renderVars, flags
<1>2. CASE TimerThread
  BY <1>2, JobsFrame DEF TimerThread, TimerTicks, TimerPosts, renderVars, flags
<1>3. CASE PulseStarts \/ RenderAll \/ PulseEnds \/ RepaintAsked \/ ExitEnds \/ ShutdownHook
  BY <1>3, JobsFrame DEF PulseStarts, RenderAll, PulseEnds, RepaintAsked, ExitEnds, ShutdownHook, Dispose, renderVars, flags
<1>4. ASSUME NEW s \in Scenes, SkipScene(s) \/ SyncScene(s)
      PROVE  IdleWithoutJobs' /\ PaintingHasJob'
  BY <1>4, JobsFrame DEF SkipScene, SyncScene, renderVars, flags
<1>5. ASSUME NEW s \in Scenes, Repaint(s)
      PROVE  IdleWithoutJobs' /\ PaintingHasJob'
  <2>1. CASE ~Submits(s)
    BY <1>5, <2>1 DEF Repaint, Submits, IdleWithoutJobs, PaintingHasJob, HasJob, flags
  <2>2. CASE Submits(s)
    <3>1. jobs' = Append(jobs, s) /\ painting' = [painting EXCEPT ![s] = TRUE] /\ render' = render
      BY <1>5, <2>2 DEF Repaint
    <3>2. /\ DOMAIN jobs' = 1..(Len(jobs) + 1) /\ DOMAIN jobs = 1..Len(jobs) /\ Len(jobs) \in Nat
          /\ \A i \in 1..Len(jobs) : jobs'[i] = jobs[i]
          /\ jobs'[Len(jobs) + 1] = s
      BY <3>1
    <3>3. Len(jobs) + 1 = 1 => render = "idle"
      BY <3>2 DEF IdleWithoutJobs
    <3>4. HasJob(s)'
      <4>1. Len(jobs) + 1 \in DOMAIN jobs'
        BY <3>2
      <4>2. Len(jobs) + 1 = 1 => render' \in {"idle", "locked", "painted"}
        BY <3>1, <3>3
      <4> QED
        BY <4>1, <4>2, <3>2 DEF HasJob
    <3>5. \A x \in Scenes : HasJob(x) => HasJob(x)'
      BY <3>1, <3>2 DEF HasJob
    <3>6. toolkitRunning
      BY <2>2 DEF Submits
    <3> QED
      BY <3>1, <3>2, <3>4, <3>5, <3>6 DEF IdleWithoutJobs, PaintingHasJob
  <2> QED
    BY <2>1, <2>2
<1>6. CASE JobStarts \/ Paint \/ PaintFails \/ Done \/ VsyncHint
  BY <1>6 DEF JobStarts, Paint, PaintFails, Done, VsyncHint, RenderStep, IdleWithoutJobs, PaintingHasJob, HasJob, flags
<1>7. CASE PaintingEnds
  BY <1>7 DEF PaintingEnds, RenderStep, IdleWithoutJobs, PaintingHasJob, HasJob, flags
<1>8. CASE CountDown
  <2>1. /\ jobs # <<>> /\ render = "counting" /\ render' = "idle"
        /\ jobs' = Tail(jobs) /\ UNCHANGED <<painting, toolkitRunning>>
    BY <1>8 DEF CountDown, RenderStep, flags
  <2>2. ASSUME NEW x \in Scenes, HasJob(x)
        PROVE  HasJob(x)'
    <3>1. PICK i \in DOMAIN jobs : jobs[i] = x /\ i # 1
      BY <2>1, <2>2 DEF HasJob
    <3>2. i - 1 \in DOMAIN jobs' /\ jobs'[i - 1] = x
      BY <2>1, <3>1
    <3> QED
      BY <2>1, <3>2 DEF HasJob
  <2> QED
    BY <2>1, <2>2 DEF IdleWithoutJobs, PaintingHasJob
<1> QED
  BY <1>1, <1>2, <1>3, <1>4, <1>5, <1>6, <1>7, <1>8 DEF Next, FxThread, RenderThread

-----------------------------------------------------------------------------
(* A step that leaves the latch and the jobs alone, and may add to what is *)
(* still to be submitted.                                                  *)
LEMMA LatchFrame ==
  ASSUME IInv, Types', UNCHANGED <<jobs, latch>>, toolkitRunning' => toolkitRunning,
         ToSubmit \subseteq ToSubmit'
  PROVE  LatchIsCovered'
<1>1. IsFiniteSet(ToSubmit') /\ Cardinality(ToSubmit') \in Nat
  <2>1. ToSubmit' \in SUBSET Scenes
    BY DEF Types, ToSubmit
  <2> QED
    BY <2>1, PulseAssumption, FS_Subset, FS_CardinalityType
<1>2. Cardinality(ToSubmit) \in Nat
  BY ToSubmitFinite DEF IInv
<1>3. Cardinality(ToSubmit) <= Cardinality(ToSubmit')
  BY <1>1, FS_Subset
<1>4. Len(jobs) \in Nat /\ latch \in Nat
  BY DEF IInv, Types
<1>5. toolkitRunning => latch <= Len(jobs) + Cardinality(ToSubmit)
  BY DEF IInv, LatchIsCovered, ToSubmit
<1>6. toolkitRunning' => latch' <= Len(jobs') + Cardinality(ToSubmit')
  BY <1>1, <1>2, <1>3, <1>4, <1>5
<1> QED
  BY <1>6 DEF LatchIsCovered, ToSubmit

(* Every step keeps the latch covered. *)
LEMMA LatchStep ==
  ASSUME IInv, Next, Types'
  PROVE  LatchIsCovered'
<1>1. CASE UserThread
  BY <1>1, LatchFrame DEF UserThread, Show, Close, Change, Expose, Event, SetAnimationRunnable, ExitStarts,
     ToSubmit, collectorVars, fxVars, renderVars, flags
<1>2. CASE TimerThread
  BY <1>2, LatchFrame DEF TimerThread, TimerTicks, TimerPosts, ToSubmit, collectorVars, fxVars, renderVars, flags
<1>3. CASE PulseStarts \/ PulseEnds \/ RepaintAsked \/ ExitEnds \/ ShutdownHook
  BY <1>3, LatchFrame DEF PulseStarts, PulseEnds, RepaintAsked, ExitEnds, ShutdownHook, Dispose,
     ToSubmit, collectorVars, fxVars, renderVars, flags
<1>4. ASSUME NEW s \in Scenes, SkipScene(s) \/ SyncScene(s)
      PROVE  LatchIsCovered'
  BY <1>4, LatchFrame DEF SkipScene, SyncScene, ToSubmit, collectorVars, renderVars, flags
<1>5. CASE RenderAll
  <2>1. UNCHANGED <<jobs, painting, toolkitRunning>> /\ fx = "pulse" /\ fx' = "repaint" /\ todo = {}
    BY <1>5 DEF RenderAll, renderVars, flags
  <2>2. CASE hasDirty
    <3>1. latch' = Cardinality(dirtyScenes) /\ todo' = dirtyScenes
      BY <1>5, <2>2 DEF RenderAll
    <3>2. ToSubmit' = {s \in dirtyScenes : ~painting[s]}
      BY <2>1, <3>1 DEF ToSubmit
    <3>3. toolkitRunning => Cardinality(dirtyScenes) <= Len(jobs) + Cardinality({s \in dirtyScenes : ~painting[s]})
      BY DirtyCovered DEF IInv, Types
    <3>4. toolkitRunning' => latch' <= Len(jobs') + Cardinality(ToSubmit')
      BY <2>1, <3>1, <3>2, <3>3
    <3> QED
      BY <3>4 DEF LatchIsCovered, ToSubmit
  <2>3. CASE ~hasDirty
    BY <1>5, <2>1, <2>3, LatchFrame DEF RenderAll, ToSubmit
  <2> QED
    BY <2>2, <2>3
<1>6. ASSUME NEW s \in Scenes, Repaint(s)
      PROVE  LatchIsCovered'
  <2>1. /\ UNCHANGED <<latch, toolkitRunning, fx>> /\ fx = "repaint" /\ s \in todo
        /\ todo' = todo \ {s} /\ painting' = [painting EXCEPT ![s] = TRUE]
        /\ jobs' = IF Submits(s) THEN Append(jobs, s) ELSE jobs
    BY <1>6 DEF Repaint, collectorVars, flags
  <2>2. ToSubmit' = ToSubmit \ {s}
    BY <2>1 DEF ToSubmit, IInv, Types
  <2>3. CASE ~Submits(s)
    BY <2>1, <2>2, <2>3, LatchFrame DEF Submits, ToSubmit, LatchIsCovered
  <2>4. CASE Submits(s)
    <3>1. Len(jobs) \in Nat /\ latch \in Nat /\ Len(jobs') = Len(jobs) + 1
      BY <2>1, <2>4 DEF IInv, Types
    <3>2. s \in ToSubmit
      BY <2>1, <2>4 DEF Submits, ToSubmit
    <3>3. Cardinality(ToSubmit) \in Nat /\ Cardinality(ToSubmit') = Cardinality(ToSubmit) - 1
      BY <2>2, <3>2, ToSubmitFinite, FS_RemoveElement DEF IInv
    <3>4. latch <= Len(jobs) + Cardinality(ToSubmit)
      BY <2>4 DEF Submits, IInv, LatchIsCovered, ToSubmit
    <3>5. latch' <= Len(jobs') + Cardinality(ToSubmit')
      BY <2>1, <3>1, <3>3, <3>4
    <3> QED
      BY <3>5 DEF LatchIsCovered, ToSubmit
  <2> QED
    BY <2>3, <2>4
<1>7. CASE JobStarts \/ Paint \/ PaintFails \/ Done \/ VsyncHint
  BY <1>7, LatchFrame DEF JobStarts, Paint, PaintFails, Done, VsyncHint, ToSubmit, collectorVars, fxVars, flags
<1>8. CASE PaintingEnds
  <2>1. UNCHANGED <<latch, jobs, fx, todo, toolkitRunning>>
    BY <1>8 DEF PaintingEnds, collectorVars, fxVars, flags
  <2>2. painting' = painting \/ painting' = [painting EXCEPT ![Head(jobs)] = FALSE]
    BY <1>8 DEF PaintingEnds
  <2>3. ToSubmit \subseteq ToSubmit'
    BY <2>1, <2>2 DEF ToSubmit, IInv, Types
  <2> QED
    BY <2>1, <2>3, LatchFrame
<1>9. CASE CountDown
  <2>1. /\ jobs # <<>> /\ jobs' = Tail(jobs)
        /\ latch' = IF latch = 0 THEN 0 ELSE latch - 1
        /\ UNCHANGED <<painting, fx, todo, toolkitRunning>>
    BY <1>9 DEF CountDown, RenderStep, fxVars, flags
  <2>2. ToSubmit' = ToSubmit
    BY <2>1 DEF ToSubmit
  <2>3. Len(jobs') = Len(jobs) - 1 /\ Len(jobs) \in Nat /\ Len(jobs) > 0 /\ latch \in Nat
    BY <2>1 DEF IInv, Types
  <2>4. Cardinality(ToSubmit) \in Nat
    BY ToSubmitFinite DEF IInv
  <2>5. toolkitRunning => latch <= Len(jobs) + Cardinality(ToSubmit)
    BY DEF IInv, LatchIsCovered, ToSubmit
  <2>6. toolkitRunning' => latch' <= Len(jobs') + Cardinality(ToSubmit')
    BY <2>1, <2>2, <2>3, <2>4, <2>5
  <2> QED
    BY <2>6 DEF LatchIsCovered, ToSubmit
<1> QED
  BY <1>1, <1>2, <1>3, <1>4, <1>5, <1>6, <1>7, <1>8, <1>9 DEF Next, FxThread, RenderThread

-----------------------------------------------------------------------------
LEMMA InitInv == Init => IInv
<1> SUFFICES ASSUME Init PROVE IInv
  OBVIOUS
<1>1. Types /\ IdleWithoutJobs /\ PaintingHasJob
  BY DEF Init, Types, IdleWithoutJobs, PaintingHasJob
<1>2. LatchIsCovered
  <2>1. latch = 0 /\ Len(jobs) = 0
    BY DEF Init
  <2>2. Cardinality(ToSubmit) \in Nat
    BY <1>1, ToSubmitFinite
  <2>3. latch <= Len(jobs) + Cardinality(ToSubmit)
    BY <2>1, <2>2
  <2> QED
    BY <2>3 DEF LatchIsCovered, ToSubmit
<1> QED
  BY <1>1, <1>2 DEF IInv

LEMMA StepInv == IInv /\ [Next]_vars => IInv'
<1>1. CASE IInv /\ Next
  BY <1>1, TypesStep, JobsStep, LatchStep DEF IInv
<1>2. CASE IInv /\ UNCHANGED vars
  BY <1>2 DEF IInv, Types, IdleWithoutJobs, PaintingHasJob, HasJob, LatchIsCovered,
              vars, collectorVars, fxVars, flags, renderVars
<1> QED
  BY <1>1, <1>2

(* LatchIsCovered for every finite set of scenes: whenever the application *)
(* thread waits for allWorkCompletedLatch, at least as many jobs as the    *)
(* latch counts are queued or about to be, although renderAll sets it to   *)
(* the number of dirty scenes and submits nothing for those still painting, *)
(* and although jobs of an earlier renderAll count down the new latch.     *)
THEOREM LatchCovered == Spec => []LatchIsCovered
<1>1. IInv => LatchIsCovered
  BY DEF IInv
<1> QED
  BY InitInv, StepInv, <1>1, PTL DEF Spec

-----------------------------------------------------------------------------
(* TypeOK.  A version is at most the number of events plus one: every      *)
(* change of a scene is an event, and render tree and screen only copy.    *)

VersionsCounted ==
  \A s \in Scenes : model[s] <= events + 1 /\ peer[s] <= events + 1 /\ drawn[s] <= events + 1

(* Assignments to the scenes' versions. *)
SceneTypes ==
  /\ life \in [Scenes -> {"new", "shown", "closed"}]
  /\ model \in [Scenes -> Versions]
  /\ peer \in [Scenes -> Versions] /\ drawn \in [Scenes -> Versions]
  /\ events \in 0..MaxEvents

FlagTypes ==
  /\ hasDirty \in BOOLEAN
  /\ nextPulseRequested \in BOOLEAN /\ animationRunning \in BOOLEAN
  /\ pulseRunning \in BOOLEAN /\ toolkitRunning \in BOOLEAN /\ animation \in BOOLEAN

PlaceTypes ==
  /\ fx \in {"idle", "pulse", "repaint", "exiting", "stopped"}
  /\ timer \in {"idle", "posting"}
  /\ render \in {"idle", "locked", "painted", "cleared", "unlocked", "done", "hinting", "counting"}

LatchType == latch \in 0..Cardinality(Scenes)

LEMMA TypeParts ==
  TypeOK <=> Types /\ SceneTypes /\ FlagTypes /\ PlaceTypes /\ LatchType
<1>1. Cardinality(Scenes) \in Nat
  BY PulseAssumption, FS_CardinalityType
<1>2. LatchType => latch \in Nat
  BY <1>1 DEF LatchType
<1> QED
  BY <1>2, Zenon DEF TypeOK, Types, SceneTypes, FlagTypes, PlaceTypes, LatchType

LEMMA SceneTypesStep ==
  ASSUME Types, SceneTypes, VersionsCounted, Next
  PROVE  SceneTypes' /\ VersionsCounted'
<1> USE PulseAssumption DEF Types, SceneTypes, VersionsCounted, Versions, Count, Event, sceneVars
<1>1. ASSUME NEW s \in Scenes, Show(s) \/ Close(s) \/ Change(s) \/ Expose(s)
      PROVE  SceneTypes' /\ VersionsCounted'
  <2>1. CASE Show(s) \/ Close(s)
    <3>1. UNCHANGED <<model, peer, drawn>> /\ events < MaxEvents /\ events' = events + 1
      BY <2>1 DEF Show, Close
    <3>2. life' \in [Scenes -> {"new", "shown", "closed"}]
      BY <2>1 DEF Show, Close
    <3> QED
      BY <3>1, <3>2
  <2>2. CASE Change(s)
    BY <2>2 DEF Change
  <2>3. CASE Expose(s)
    BY <2>3 DEF Expose
  <2> QED
    BY <1>1, <2>1, <2>2, <2>3
<1>2. CASE SetAnimationRunnable \/ ExitStarts \/ ShutdownHook
  BY <1>2 DEF SetAnimationRunnable, ExitStarts, ShutdownHook, Dispose
<1>3. CASE TimerThread
  BY <1>3 DEF TimerThread, TimerTicks, TimerPosts
<1>4. CASE PulseStarts \/ RenderAll \/ PulseEnds \/ RepaintAsked \/ ExitEnds
  BY <1>4 DEF PulseStarts, RenderAll, PulseEnds, RepaintAsked, ExitEnds, Dispose
<1>5. ASSUME NEW s \in Scenes, SkipScene(s) \/ Repaint(s)
      PROVE  SceneTypes' /\ VersionsCounted'
  BY <1>5 DEF SkipScene, Repaint
<1>6. ASSUME NEW s \in Scenes, SyncScene(s)
      PROVE  SceneTypes' /\ VersionsCounted'
  BY <1>6 DEF SyncScene
<1>7. CASE Paint
  <2>1. Head(jobs) \in Scenes
    BY <1>7 DEF Paint, RenderStep
  <2> QED
    BY <1>7, <2>1 DEF Paint
<1>8. CASE JobStarts \/ PaintFails \/ PaintingEnds \/ Done \/ VsyncHint \/ CountDown
  BY <1>8 DEF JobStarts, PaintFails, PaintingEnds, Done, VsyncHint, CountDown
<1> QED
  BY <1>1, <1>2, <1>3, <1>4, <1>5, <1>6, <1>7, <1>8 DEF Next, UserThread, FxThread, RenderThread

LEMMA FlagTypesStep ==
  ASSUME FlagTypes, Next
  PROVE  FlagTypes'
<1> USE DEF FlagTypes, flags, collectorVars
<1>1. ASSUME NEW s \in Scenes, Show(s) \/ Close(s) \/ Change(s) \/ Expose(s)
      PROVE  FlagTypes'
  BY <1>1, Zenon DEF Show, Close, Change, Expose, RequestNextPulse, SceneChanged, AddDirtyScene, RemoveDirtyScene
<1>2. CASE SetAnimationRunnable \/ ExitStarts \/ ShutdownHook \/ ExitEnds
  BY <1>2, Zenon DEF SetAnimationRunnable, ExitStarts, ShutdownHook, ExitEnds, Dispose
<1>3. CASE TimerThread
  BY <1>3, Zenon DEF TimerThread, TimerTicks, TimerPosts, PostPulse
<1>4. CASE PulseStarts \/ RenderAll \/ PulseEnds \/ RepaintAsked
  BY <1>4, Zenon DEF PulseStarts, RenderAll, PulseEnds, RepaintAsked, SceneChanged, AddDirtyScene, RemoveDirtyScene
<1>5. ASSUME NEW s \in Scenes, SkipScene(s) \/ SyncScene(s) \/ Repaint(s)
      PROVE  FlagTypes'
  BY <1>5, Zenon DEF SkipScene, SyncScene, Repaint, MarkDirty, SceneChanged, AddDirtyScene, RemoveDirtyScene
<1>6. CASE RenderThread
  BY <1>6, Zenon DEF RenderThread, JobStarts, Paint, PaintFails, PaintingEnds, Done, VsyncHint, CountDown, PostPulse
<1> QED
  BY <1>1, <1>2, <1>3, <1>4, <1>5, <1>6 DEF Next, UserThread, FxThread

LEMMA PlaceTypesStep ==
  ASSUME Types, PlaceTypes, LatchType, Next
  PROVE  PlaceTypes' /\ LatchType'
<1> USE DEF Types, PlaceTypes, LatchType, collectorVars, fxVars, renderVars
<1>0. Cardinality(Scenes) \in Nat
  BY PulseAssumption, FS_CardinalityType
<1>1. CASE UserThread
  BY <1>1 DEF UserThread, Show, Close, Change, Expose, SetAnimationRunnable, ExitStarts
<1>2. CASE TimerThread
  BY <1>2 DEF TimerThread, TimerTicks, TimerPosts
<1>3. CASE PulseStarts \/ PulseEnds \/ RepaintAsked \/ ExitEnds \/ ShutdownHook
  BY <1>3 DEF PulseStarts, PulseEnds, RepaintAsked, ExitEnds, ShutdownHook, Dispose
<1>4. CASE RenderAll
  <2>1. Cardinality(dirtyScenes) \in Nat /\ Cardinality(dirtyScenes) <= Cardinality(Scenes)
    BY PulseAssumption, FS_Subset, FS_CardinalityType
  <2> QED
    BY <1>0, <1>4, <2>1 DEF RenderAll
<1>5. ASSUME NEW s \in Scenes, SkipScene(s) \/ SyncScene(s) \/ Repaint(s)
      PROVE  PlaceTypes' /\ LatchType'
  BY <1>5 DEF SkipScene, SyncScene, Repaint
<1>6. CASE JobStarts \/ Paint \/ PaintFails \/ PaintingEnds \/ Done \/ VsyncHint
  BY <1>6 DEF JobStarts, Paint, PaintFails, PaintingEnds, Done, VsyncHint, RenderStep
<1>7. CASE CountDown
  BY <1>0, <1>7 DEF CountDown, RenderStep
<1> QED
  BY <1>1, <1>2, <1>3, <1>4, <1>5, <1>6, <1>7 DEF Next, FxThread, RenderThread

(* Every variable keeps its type, for every finite set of scenes and every *)
(* number of events: in particular no version outruns the events, and the  *)
(* latch of renderAll counts no more than the scenes there are.            *)
THEOREM TypeCorrect == Spec => []TypeOK
<1> DEFINE Inv == IInv /\ SceneTypes /\ VersionsCounted /\ FlagTypes /\ PlaceTypes /\ LatchType
<1>1. Init => Inv
  <2> SUFFICES ASSUME Init PROVE Inv
    OBVIOUS
  <2>1. Cardinality(Scenes) \in Nat
    BY PulseAssumption, FS_CardinalityType
  <2>2. SceneTypes /\ VersionsCounted /\ LatchType
    BY <2>1, PulseAssumption DEF Init, SceneTypes, VersionsCounted, Versions, LatchType
  <2>3. FlagTypes /\ PlaceTypes
    BY Zenon DEF Init, FlagTypes, PlaceTypes
  <2> QED
    BY <2>2, <2>3, InitInv
<1>2. Inv /\ [Next]_vars => Inv'
  <2>1. CASE Inv /\ Next
    BY <2>1, StepInv, SceneTypesStep, FlagTypesStep, PlaceTypesStep DEF IInv
  <2>2. CASE Inv /\ UNCHANGED vars
    BY <2>2, StepInv DEF SceneTypes, VersionsCounted, FlagTypes, PlaceTypes, LatchType,
       vars, sceneVars, collectorVars, fxVars, flags, renderVars
  <2> QED
    BY <2>1, <2>2
<1>3. Inv => TypeOK
  BY TypeParts DEF IInv
<1> QED
  BY <1>1, <1>2, <1>3, PTL DEF Spec

-----------------------------------------------------------------------------
(* OnePulse.  Cardinalities are replaced by positions: pulseRunning is set *)
(* exactly if a pulse runs or waits, and one that waits is the only one.   *)

LEMMA AppendFacts ==
  ASSUME NEW S, NEW q \in Seq(S), NEW e \in S
  PROVE  /\ Len(q) \in Nat /\ DOMAIN q = 1..Len(q) /\ DOMAIN Append(q, e) = 1..(Len(q) + 1)
         /\ \A i \in 1..Len(q) : Append(q, e)[i] = q[i]
         /\ Append(q, e)[Len(q) + 1] = e
  OBVIOUS

LEMMA TailFacts ==
  ASSUME NEW S, NEW q \in Seq(S), q # <<>>
  PROVE  /\ Len(q) \in Nat \ {0} /\ DOMAIN q = 1..Len(q) /\ DOMAIN Tail(q) = 1..(Len(q) - 1)
         /\ \A i \in 1..(Len(q) - 1) : Tail(q)[i] = q[i + 1]
         /\ Head(q) = q[1]
  OBVIOUS

InPulse == fx \in {"pulse", "repaint"}
Waits(i) == i \in DOMAIN queue /\ queue[i] = Pulse

PulseInv ==
  /\ pulseRunning <=> (InPulse \/ \E i \in Nat : Waits(i))
  /\ \A i \in Nat : Waits(i) => ~InPulse /\ \A j \in Nat : Waits(j) => j = i

(* postPulse, whichever thread calls it. *)
LEMMA PostPulseStep ==
  ASSUME Types, PulseInv, PostPulse, UNCHANGED fx
  PROVE  PulseInv'
<1>1. CASE pulseRunning
  BY <1>1 DEF PostPulse, PulseInv, InPulse, Waits
<1>2. CASE ~pulseRunning
  <2>1. queue' = Append(queue, Pulse) /\ pulseRunning'
    BY <1>2 DEF PostPulse
  <2>2. \A i \in Nat : Waits(i)' <=> i = Len(queue) + 1
    BY <1>2, <2>1, AppendFacts DEF Types, PulseInv, Waits
  <2>3. Len(queue) + 1 \in Nat
    BY DEF Types
  <2>4. ~InPulse'
    BY <1>2 DEF PulseInv, InPulse
  <2> QED
    BY <2>1, <2>2, <2>3, <2>4 DEF PulseInv
<1> QED
  BY <1>1, <1>2

LEMMA PulseStep ==
  ASSUME Types, PulseInv, [Next]_vars
  PROVE  PulseInv'
<1>1. CASE UNCHANGED <<queue, pulseRunning>> /\ (InPulse' <=> InPulse)
  BY <1>1 DEF PulseInv, Waits
<1>2. CASE TimerPosts \/ VsyncHint
  BY <1>2, PostPulseStep DEF TimerPosts, VsyncHint
<1>3. CASE PulseStarts
  <2>1. queue # <<>> /\ queue' = Tail(queue) /\ Head(queue) = Pulse
    BY <1>3 DEF PulseStarts
  <2>2. Waits(1)
    BY <2>1, TailFacts DEF Types, Waits
  <2>3. \A i \in Nat : ~Waits(i)'
    <3> SUFFICES ASSUME NEW i \in Nat, Waits(i)' PROVE FALSE
      OBVIOUS
    <3>1. Waits(i + 1) /\ i + 1 # 1
      BY <2>1, TailFacts DEF Types, Waits
    <3> QED
      BY <2>2, <3>1 DEF PulseInv
  <2>4. pulseRunning' <=> InPulse'
    <3>1. CASE toolkitRunning
      <4>1. pulseRunning' = pulseRunning /\ fx' = "pulse"
        BY <1>3, <3>1 DEF PulseStarts
      <4>2. pulseRunning
        BY <2>2 DEF PulseInv
      <4> QED
        BY <4>1, <4>2 DEF InPulse
    <3>2. CASE ~toolkitRunning
      BY <1>3, <3>2 DEF PulseStarts, InPulse
    <3> QED
      BY <3>1, <3>2
  <2> QED
    BY <2>3, <2>4 DEF PulseInv
<1>4. CASE PulseEnds
  <2>1. UNCHANGED queue /\ ~pulseRunning' /\ fx = "repaint" /\ fx' = "idle"
    BY <1>4 DEF PulseEnds
  <2>2. \A i \in Nat : ~Waits(i)'
    BY <2>1 DEF PulseInv, InPulse, Waits
  <2> QED
    BY <2>1, <2>2 DEF PulseInv, InPulse
<1>5. CASE RepaintAsked
  <2>1. /\ queue # <<>> /\ queue' = Tail(queue) /\ Head(queue) # Pulse
        /\ UNCHANGED <<fx, pulseRunning>>
    BY <1>5 DEF RepaintAsked, flags
  <2>2. \A i \in Nat : Waits(i)' <=> Waits(i + 1)
    BY <2>1, TailFacts DEF Types, Waits
  <2>3. \A i \in Nat : Waits(i) => i - 1 \in Nat /\ Waits(i - 1)'
    BY <2>1, TailFacts DEF Types, Waits
  <2>4. \A i \in Nat : i + 1 \in Nat
    OBVIOUS
  <2>5. (\E i \in Nat : Waits(i))' <=> \E i \in Nat : Waits(i)
    BY <2>2, <2>3, <2>4
  <2>6. ASSUME NEW i \in Nat, Waits(i)', NEW j \in Nat, Waits(j)'
        PROVE  j = i
    BY <2>2, <2>4, <2>6, i + 1 = j + 1 => i = j DEF PulseInv
  <2>7. \A i \in Nat : Waits(i)' => ~InPulse'
    BY <2>1, <2>2, <2>4 DEF PulseInv, InPulse
  <2> QED
    BY <2>1, <2>5, <2>6, <2>7 DEF PulseInv, InPulse
<1>6. CASE PaintFails
  <2>1. /\ queue' = Append(queue, Head(jobs)) /\ Head(jobs) \in Scenes
        /\ UNCHANGED <<fx, pulseRunning>>
    BY <1>6 DEF PaintFails, RenderStep, Types, flags
  <2>2. \A i \in Nat : Waits(i)' <=> Waits(i)
    BY <2>1, AppendFacts, PulseAssumption DEF Types, Waits
  <2> QED
    BY <2>1, <2>2 DEF PulseInv, InPulse
<1>7. CASE UserThread \/ TimerTicks \/ RenderAll \/ ExitEnds \/ ShutdownHook
  <2>1. UNCHANGED <<queue, pulseRunning>>
    BY <1>7 DEF UserThread, Show, Close, Change, Expose, SetAnimationRunnable, ExitStarts,
       TimerTicks, RenderAll, ExitEnds, ShutdownHook, Dispose, fxVars, flags
  <2>2. InPulse' <=> InPulse
    BY <1>7 DEF UserThread, Show, Close, Change, Expose, SetAnimationRunnable, ExitStarts,
       TimerTicks, RenderAll, ExitEnds, ShutdownHook, Dispose, fxVars, InPulse
  <2> QED
    BY <1>1, <2>1, <2>2
<1>8. ASSUME NEW s \in Scenes, SkipScene(s) \/ SyncScene(s) \/ Repaint(s)
      PROVE  PulseInv'
  BY <1>1, <1>8 DEF SkipScene, SyncScene, Repaint, flags, InPulse
<1>9. CASE JobStarts \/ Paint \/ PaintingEnds \/ Done \/ CountDown
  BY <1>1, <1>9 DEF JobStarts, Paint, PaintingEnds, Done, CountDown, fxVars, flags, InPulse
<1>10. CASE UNCHANGED vars
  BY <1>1, <1>10 DEF vars, fxVars, flags, InPulse
<1> QED
  BY <1>2, <1>3, <1>4, <1>5, <1>6, <1>7, <1>8, <1>9, <1>10
  DEF Next, TimerThread, FxThread, RenderThread

(* With the flag typed, what PulseInv says of positions is what OnePulse   *)
(* says of their number.                                                   *)
LEMMA PulseCounted ==
  ASSUME Types, PulseInv
  PROVE  OnePulse
<1> DEFINE waiting == {i \in DOMAIN queue : queue[i] = Pulse}
<1>0. DOMAIN queue \subseteq Nat
  BY DEF Types
<1>1. CASE waiting = {}
  <2>1. Cardinality(waiting) = 0
    BY <1>1, FS_EmptySet
  <2>2. pulseRunning <=> InPulse
    BY <1>0, <1>1 DEF PulseInv, Waits
  <2> HIDE DEF waiting
  <2>3. Cardinality(waiting) + (IF InPulse THEN 1 ELSE 0) = IF pulseRunning THEN 1 ELSE 0
    BY <2>1, <2>2
  <2> QED
    BY <2>3 DEF OnePulse, InPulse, waiting
<1>2. CASE waiting # {}
  <2>1. PICK i \in Nat : Waits(i)
    BY <1>0, <1>2 DEF Waits
  <2>2. waiting = {i} /\ ~InPulse /\ pulseRunning
    BY <1>0, <2>1 DEF PulseInv, Waits
  <2>3. Cardinality(waiting) = 1
    BY <2>2, FS_Singleton
  <2> HIDE DEF waiting
  <2>4. Cardinality(waiting) + (IF InPulse THEN 1 ELSE 0) = IF pulseRunning THEN 1 ELSE 0
    BY <2>2, <2>3
  <2> QED
    BY <2>4 DEF OnePulse, InPulse, waiting
<1> QED
  BY <1>1, <1>2

(* For any number of scenes and events, however the timer thread, the      *)
(* render thread's hints and the application thread interleave: at most    *)
(* one pulse waits or runs, and pulseRunning is set exactly while it does. *)
THEOREM SinglePulse == Spec => []OnePulse
<1>1. Init => PulseInv
  BY DEF Init, PulseInv, InPulse, Waits
<1>2. IInv /\ PulseInv /\ [Next]_vars => PulseInv'
  BY PulseStep DEF IInv
<1>3. IInv /\ PulseInv => OnePulse
  BY PulseCounted DEF IInv
<1> QED
  BY InitInv, StepInv, <1>1, <1>2, <1>3, PTL DEF Spec

-----------------------------------------------------------------------------
(* NoLostChange.  A repaint is skipped for a scene whose painting flag is  *)
(* set.  That the job which set it will still paint the render tree as it  *)
(* is now follows from the render lock: between the painting of a scene    *)
(* and the clearing of its flag nobody changes its render tree.            *)

DirtyKnown == fx # "repaint" /\ dirtyScenes # {} => hasDirty

DirtyInTodo == fx = "repaint" => todo \subseteq dirtyScenes

NotNew ==
  /\ \A i \in DOMAIN jobs : life[jobs[i]] # "new"
  /\ \A s \in dirtyScenes : life[s] # "new"

PaintedIsDrawn ==
  \A s \in Scenes \ Flaky :
    jobs # <<>> /\ jobs[1] = s /\ render = "painted" /\ life[s] = "shown" => drawn[s] = peer[s]

ScreenInv == DirtyKnown /\ DirtyInTodo /\ NotNew /\ PaintedIsDrawn

(* The dirty list and hasDirty agree after every change of the list. *)
LEMMA DirtyChanged ==
  ASSUME DirtyKnown, NEW s, AddDirtyScene(s) \/ RemoveDirtyScene(s), fx # "repaint"
  PROVE  DirtyKnown'
  BY DEF DirtyKnown, AddDirtyScene, RemoveDirtyScene

LEMMA DirtyStep ==
  ASSUME Types, DirtyKnown, DirtyInTodo, Next
  PROVE  DirtyKnown' /\ DirtyInTodo'
<1>1. ASSUME NEW s \in Scenes, Show(s) \/ Close(s) \/ Change(s) \/ Expose(s)
      PROVE  DirtyKnown' /\ DirtyInTodo'
  <2>1. fx' = fx /\ fx # "repaint"
    BY <1>1 DEF Show, Close, Change, Expose, Event, fxVars
  <2>2. CASE Change(s)
    BY <2>1, <2>2 DEF Change, collectorVars, DirtyKnown, DirtyInTodo
  <2>3. CASE ~Change(s)
    <3>1. AddDirtyScene(s) \/ RemoveDirtyScene(s)
      BY <1>1, <2>3 DEF Show, Close, Expose, SceneChanged
    <3> QED
      BY <2>1, <3>1, DirtyChanged DEF DirtyInTodo
  <2> QED
    BY <2>2, <2>3
<1>2. CASE SetAnimationRunnable \/ ExitStarts \/ ExitEnds \/ ShutdownHook
  BY <1>2 DEF SetAnimationRunnable, ExitStarts, ExitEnds, ShutdownHook, Dispose, collectorVars, fxVars,
     DirtyKnown, DirtyInTodo
<1>3. CASE TimerThread \/ PulseStarts \/ RenderAll \/ PulseEnds
  BY <1>3 DEF TimerThread, TimerTicks, TimerPosts, PulseStarts, RenderAll, PulseEnds, collectorVars, fxVars,
     DirtyKnown, DirtyInTodo, Types
<1>4. CASE RepaintAsked
  <2>1. fx' = fx /\ fx # "repaint" /\ (AddDirtyScene(Head(queue)) \/ RemoveDirtyScene(Head(queue)))
    BY <1>4 DEF RepaintAsked, SceneChanged
  <2> QED
    BY <2>1, DirtyChanged DEF DirtyInTodo
<1>5. ASSUME NEW s \in Scenes, SkipScene(s) \/ Repaint(s)
      PROVE  DirtyKnown' /\ DirtyInTodo'
  BY <1>5 DEF SkipScene, Repaint, collectorVars, DirtyKnown, DirtyInTodo
<1>6. ASSUME NEW s \in Scenes, SyncScene(s)
      PROVE  DirtyKnown' /\ DirtyInTodo'
  <2>1. fx' = fx /\ fx # "repaint" /\ MarkDirty(s)
    BY <1>6 DEF SyncScene
  <2>2. CASE life[s] = "shown"
    BY <2>1, <2>2, DirtyChanged DEF MarkDirty, SceneChanged, DirtyInTodo
  <2>3. CASE life[s] # "shown"
    BY <2>1, <2>3 DEF MarkDirty, DirtyKnown, DirtyInTodo
  <2> QED
    BY <2>2, <2>3
<1>7. CASE RenderThread
  BY <1>7 DEF RenderThread, JobStarts, Paint, PaintFails, PaintingEnds, Done, VsyncHint, CountDown,
     collectorVars, fxVars, DirtyKnown, DirtyInTodo
<1> QED
  BY <1>1, <1>2, <1>3, <1>4, <1>5, <1>6, <1>7 DEF Next, UserThread, FxThread

(* Only scenes that were shown are dirty or have a job. *)
LEMMA NotNewStep ==
  ASSUME Types, SceneTypes, DirtyInTodo, NotNew, Next
  PROVE  NotNew'
<1> USE DEF Types, SceneTypes, NotNew
<1>1. ASSUME NEW s \in Scenes, Show(s) \/ Close(s) \/ Change(s) \/ Expose(s)
      PROVE  NotNew'
  <2>1. jobs' = jobs /\ \A x \in Scenes : life[x] # "new" => life'[x] # "new"
    BY <1>1 DEF Show, Close, Change, Expose, renderVars
  <2>2. dirtyScenes' \subseteq dirtyScenes \union {x \in Scenes : life'[x] # "new"}
    BY <1>1 DEF Show, Close, Change, Expose, AddDirtyScene, RemoveDirtyScene, SceneChanged, collectorVars
  <2>3. \A i \in DOMAIN jobs : jobs[i] \in Scenes
    OBVIOUS
  <2> QED
    BY <2>1, <2>2, <2>3
<1>2. CASE SetAnimationRunnable \/ ExitStarts \/ ExitEnds \/ ShutdownHook \/ TimerThread
  BY <1>2 DEF SetAnimationRunnable, ExitStarts, ExitEnds, ShutdownHook, Dispose, TimerThread, TimerTicks, TimerPosts,
     sceneVars, collectorVars, renderVars
<1>3. CASE PulseStarts \/ RenderAll \/ PulseEnds
  BY <1>3 DEF PulseStarts, RenderAll, PulseEnds, sceneVars, collectorVars, renderVars
<1>4. CASE RepaintAsked
  BY <1>4 DEF RepaintAsked, SceneChanged, AddDirtyScene, RemoveDirtyScene, sceneVars, renderVars
<1>5. ASSUME NEW s \in Scenes, SkipScene(s) \/ SyncScene(s)
      PROVE  NotNew'
  BY <1>5 DEF SkipScene, SyncScene, MarkDirty, SceneChanged, AddDirtyScene, RemoveDirtyScene,
     sceneVars, collectorVars, renderVars
<1>6. ASSUME NEW s \in Scenes, Repaint(s)
      PROVE  NotNew'
  <2>1. /\ UNCHANGED <<life, dirtyScenes>> /\ life[s] # "new"
        /\ jobs' = jobs \/ jobs' = Append(jobs, s)
    BY <1>6 DEF Repaint, sceneVars, collectorVars, DirtyInTodo
  <2>2. CASE jobs' = jobs
    BY <2>1, <2>2
  <2>3. CASE jobs' = Append(jobs, s)
    BY <2>1, <2>3, AppendFacts
  <2> QED
    BY <2>1, <2>2, <2>3
<1>7. CASE JobStarts \/ Paint \/ PaintFails \/ PaintingEnds \/ Done \/ VsyncHint
  BY <1>7 DEF JobStarts, Paint, PaintFails, PaintingEnds, Done, VsyncHint, sceneVars, collectorVars
<1>8. CASE CountDown
  BY <1>8, TailFacts DEF CountDown, RenderStep, sceneVars
<1> QED
  BY <1>1, <1>2, <1>3, <1>4, <1>5, <1>6, <1>7, <1>8 DEF Next, UserThread, FxThread, RenderThread

(* What was painted stays what is on screen while the render lock is held: *)
(* SyncScene waits for the lock, and a window that is shown after its      *)
(* scene was painted does not exist.                                       *)
LEMMA PaintedStep ==
  ASSUME IInv, SceneTypes, NotNew, PaintedIsDrawn, Next
  PROVE  PaintedIsDrawn'
<1> USE DEF IInv, Types, SceneTypes
<1> SUFFICES ASSUME NEW x \in Scenes \ Flaky, jobs' # <<>>, jobs'[1] = x, render' = "painted", life'[x] = "shown"
             PROVE  drawn'[x] = peer'[x]
  BY DEF PaintedIsDrawn
<1>1. ASSUME NEW s \in Scenes, Show(s) \/ Close(s) \/ Change(s) \/ Expose(s)
      PROVE  drawn'[x] = peer'[x]
  <2>1. jobs' = jobs /\ render' = render /\ peer' = peer /\ drawn'[x] = drawn[x]
    BY <1>1 DEF Show, Close, Change, Expose, renderVars
  <2>2. 1 \in DOMAIN jobs
    BY <2>1
  <2>3. life[x] = "shown"
    BY <1>1, <2>1, <2>2 DEF Show, Close, Change, Expose, NotNew
  <2> QED
    BY <2>1, <2>3 DEF PaintedIsDrawn
<1>2. CASE SetAnimationRunnable \/ ExitStarts \/ ExitEnds \/ ShutdownHook \/ TimerThread
  BY <1>2 DEF SetAnimationRunnable, ExitStarts, ExitEnds, ShutdownHook, Dispose, TimerThread, TimerTicks, TimerPosts,
     sceneVars, renderVars, PaintedIsDrawn
<1>3. CASE PulseStarts \/ RenderAll \/ PulseEnds \/ RepaintAsked
  BY <1>3 DEF PulseStarts, RenderAll, PulseEnds, RepaintAsked, sceneVars, renderVars, PaintedIsDrawn
<1>4. ASSUME NEW s \in Scenes, SkipScene(s)
      PROVE  drawn'[x] = peer'[x]
  BY <1>4 DEF SkipScene, sceneVars, renderVars, PaintedIsDrawn
<1>5. ASSUME NEW s \in Scenes, SyncScene(s)
      PROVE  drawn'[x] = peer'[x]
  <2>1. UNCHANGED <<jobs, render, life, drawn>>
    BY <1>5 DEF SyncScene, renderVars
  <2>2. x # s
    BY <1>5, <2>1 DEF SyncScene, RenderLocked
  <2> QED
    BY <1>5, <2>1, <2>2 DEF SyncScene, PaintedIsDrawn
<1>6. ASSUME NEW s \in Scenes, Repaint(s)
      PROVE  drawn'[x] = peer'[x]
  <2>1. UNCHANGED <<render, life, peer, drawn>> /\ (jobs' = jobs \/ jobs' = Append(jobs, s))
    BY <1>6 DEF Repaint, sceneVars
  <2>2. jobs # <<>>
    BY <2>1 DEF IdleWithoutJobs
  <2>3. jobs[1] = jobs'[1]
    BY <2>1, <2>2, AppendFacts
  <2> QED
    BY <2>1, <2>2, <2>3 DEF PaintedIsDrawn
<1>7. CASE Paint
  <2>1. jobs # <<>> /\ jobs' = jobs /\ Head(jobs) = x /\ life' = life /\ peer' = peer
    BY <1>7 DEF Paint, RenderStep
  <2> QED
    BY <1>7, <2>1 DEF Paint
<1>8. CASE PaintFails
  <2>1. jobs # <<>> /\ jobs' = jobs /\ Head(jobs) \in Flaky
    BY <1>8 DEF PaintFails, RenderStep
  <2> QED
    BY <2>1
<1>9. CASE JobStarts \/ PaintingEnds \/ Done \/ VsyncHint \/ CountDown
  BY <1>9 DEF JobStarts, PaintingEnds, Done, VsyncHint, CountDown, RenderStep
<1> QED
  BY <1>1, <1>2, <1>3, <1>4, <1>5, <1>6, <1>7, <1>8, <1>9 DEF Next, UserThread, FxThread, RenderThread

-----------------------------------------------------------------------------
(* The step of NoLostChange for one scene. *)

Queued(s) == \E i \in DOMAIN queue : queue[i] = s
Listed(s) == s \in dirtyScenes /\ (fx = "repaint" => s \in todo)

(* A step that does not touch what is drawn and what will be painted. *)
LEMMA ForgetFrame ==
  ASSUME NEW x, NotForgotten(x), toolkitRunning' => toolkitRunning,
         life'[x] = "shown" => life[x] = "shown", UNCHANGED <<drawn, peer>>,
         Listed(x) => Listed(x)', WillBePainted(x) => WillBePainted(x)', Queued(x) => Queued(x)'
  PROVE  NotForgotten(x)'
  BY DEF NotForgotten, Queued, Listed

LEMMA ForgetStep ==
  ASSUME IInv, SceneTypes, ScreenInv, NEW x \in Scenes \ Flaky, NotForgotten(x), Next
  PROVE  NotForgotten(x)'
<1> USE DEF IInv, Types, SceneTypes
<1>0. x \in Scenes /\ x # Pulse
  BY PulseAssumption
<1>1. ASSUME NEW s \in Scenes, Show(s) \/ Close(s) \/ Change(s) \/ Expose(s)
      PROVE  NotForgotten(x)'
  <2>1. /\ UNCHANGED <<jobs, render, peer, queue, toolkitRunning, fx>> /\ drawn'[x] = drawn[x]
        /\ fx # "repaint"
    BY <1>1 DEF Show, Close, Change, Expose, Event, renderVars, fxVars, flags
  <2>2. CASE x = s /\ Show(s)
    BY <2>1, <2>2 DEF Show, AddDirtyScene, NotForgotten
  <2>3. CASE x = s /\ ~Show(s) /\ life'[x] = "shown"
    <3>1. life[x] = "shown" /\ dirtyScenes \subseteq dirtyScenes'
      BY <1>1, <2>3 DEF Close, Change, Expose, SceneChanged, AddDirtyScene, collectorVars
    <3> QED
      BY <2>1, <3>1 DEF NotForgotten, WillBePainted
  <2>4. CASE x # s
    <3>1. life'[x] = life[x] /\ (x \in dirtyScenes => x \in dirtyScenes')
      BY <1>1, <2>4 DEF Show, Close, Change, Expose, SceneChanged, AddDirtyScene, RemoveDirtyScene, collectorVars
    <3> QED
      BY <2>1, <3>1 DEF NotForgotten, WillBePainted
  <2>5. CASE life'[x] # "shown"
    BY <2>5 DEF NotForgotten
  <2> QED
    BY <1>1, <2>2, <2>3, <2>4, <2>5
<1>2. CASE SetAnimationRunnable \/ ExitStarts \/ ExitEnds \/ ShutdownHook
  BY <1>2 DEF SetAnimationRunnable, ExitStarts, ExitEnds, ShutdownHook, Dispose, sceneVars, collectorVars, fxVars,
     renderVars, flags, NotForgotten, WillBePainted
<1>3. CASE TimerThread \/ VsyncHint
  <2>1. /\ UNCHANGED <<jobs, life, drawn, peer, dirtyScenes, fx, todo, toolkitRunning>>
        /\ queue' = queue \/ queue' = Append(queue, Pulse)
        /\ render' = render \/ (render = "hinting" /\ render' = "counting")
    BY <1>3 DEF TimerThread, TimerTicks, TimerPosts, VsyncHint, PostPulse, RenderStep, sceneVars, collectorVars,
       fxVars, renderVars, flags
  <2>2. \A i \in DOMAIN queue : i \in DOMAIN queue' /\ queue'[i] = queue[i]
    <3>1. CASE queue' = Append(queue, Pulse)
      BY <3>1, AppendFacts, Pulse \in {Pulse} \union Scenes
    <3> QED
      BY <2>1, <3>1
  <2>3. Queued(x) => Queued(x)'
    BY <2>2 DEF Queued
  <2>4. WillBePainted(x) => WillBePainted(x)'
    BY <2>1 DEF WillBePainted
  <2> QED
    BY <2>1, <2>3, <2>4, ForgetFrame DEF Listed
<1>4. CASE PulseStarts
  <2>1. /\ UNCHANGED <<jobs, render, life, drawn, peer, dirtyScenes, toolkitRunning>>
        /\ queue # <<>> /\ Head(queue) = Pulse /\ queue' = Tail(queue) /\ fx' # "repaint"
    BY <1>4 DEF PulseStarts, sceneVars, collectorVars, renderVars
  <2>2. ASSUME NEW i \in DOMAIN queue, queue[i] = x PROVE Queued(x)'
    <3>1. i # 1 /\ i - 1 \in 1..(Len(queue) - 1)
      BY <1>0, <2>1, <2>2, TailFacts
    <3>2. queue'[i - 1] = x /\ i - 1 \in DOMAIN queue'
      BY <2>1, <2>2, <3>1, TailFacts
    <3> QED
      BY <3>2 DEF Queued
  <2>3. Queued(x) => Queued(x)'
    BY <2>2 DEF Queued
  <2> QED
    BY <2>1, <2>3, ForgetFrame DEF Listed, WillBePainted
<1>5. CASE RepaintAsked
  <2>1. /\ UNCHANGED <<jobs, render, life, drawn, peer, fx, toolkitRunning>> /\ fx = "idle"
        /\ queue # <<>> /\ queue' = Tail(queue) /\ SceneChanged(Head(queue))
    BY <1>5 DEF RepaintAsked, sceneVars, renderVars, flags
  <2>2. life[x] = "shown" => (x \in dirtyScenes => x \in dirtyScenes')
    BY <2>1 DEF SceneChanged, AddDirtyScene, RemoveDirtyScene
  <2>3. CASE Head(queue) = x
    BY <2>1, <2>3 DEF SceneChanged, AddDirtyScene, NotForgotten
  <2>4. CASE Head(queue) # x
    <3>1. ASSUME NEW i \in DOMAIN queue, queue[i] = x PROVE Queued(x)'
      <4>1. i # 1 /\ i - 1 \in 1..(Len(queue) - 1)
        BY <2>1, <2>4, <3>1, TailFacts
      <4>2. queue'[i - 1] = x /\ i - 1 \in DOMAIN queue'
        BY <2>1, <3>1, <4>1, TailFacts
      <4> QED
        BY <4>2 DEF Queued
    <3>2. Queued(x) => Queued(x)'
      BY <3>1 DEF Queued
    <3> QED
      BY <2>1, <2>2, <3>2 DEF NotForgotten, WillBePainted, Queued
  <2> QED
    BY <2>3, <2>4
<1>6. CASE RenderAll
  <2>1. /\ UNCHANGED <<jobs, render, life, drawn, peer, queue, dirtyScenes, toolkitRunning>>
        /\ fx = "pulse" /\ (hasDirty => todo' = dirtyScenes)
    BY <1>6 DEF RenderAll, sceneVars, renderVars, flags
  <2>2. x \in dirtyScenes => hasDirty
    BY <2>1 DEF ScreenInv, DirtyKnown
  <2> QED
    BY <2>1, <2>2, ForgetFrame DEF Listed, WillBePainted, Queued
<1>7. CASE PulseEnds
  BY <1>7, ForgetFrame DEF PulseEnds, sceneVars, renderVars, Listed, WillBePainted, Queued
<1>8. ASSUME NEW s \in Scenes, SkipScene(s)
      PROVE  NotForgotten(x)'
  BY <1>8, ForgetFrame DEF SkipScene, sceneVars, collectorVars, renderVars, flags, Listed, WillBePainted, Queued
<1>9. ASSUME NEW s \in Scenes, SyncScene(s)
      PROVE  NotForgotten(x)'
  <2>1. /\ UNCHANGED <<jobs, render, life, drawn, queue, toolkitRunning, fx>> /\ fx = "pulse" /\ MarkDirty(s)
        /\ peer' = [peer EXCEPT ![s] = model[s]]
    BY <1>9 DEF SyncScene, renderVars, flags
  <2>2. CASE x = s
    BY <2>1, <2>2 DEF MarkDirty, SceneChanged, AddDirtyScene, NotForgotten
  <2>3. CASE x # s
    <3>1. peer'[x] = peer[x] /\ (x \in dirtyScenes => x \in dirtyScenes')
      BY <2>1, <2>3 DEF MarkDirty, SceneChanged, AddDirtyScene, RemoveDirtyScene
    <3> QED
      BY <2>1, <3>1 DEF NotForgotten, WillBePainted
  <2> QED
    BY <2>2, <2>3
<1>10. ASSUME NEW s \in Scenes, Repaint(s)
      PROVE  NotForgotten(x)'
  <2>1. /\ UNCHANGED <<render, life, drawn, peer, dirtyScenes, queue, toolkitRunning, fx>>
        /\ todo' = todo \ {s} /\ jobs' = IF Submits(s) THEN Append(jobs, s) ELSE jobs
    BY <1>10 DEF Repaint, sceneVars, collectorVars, flags
  <2>2. CASE x # s
    <3>1. Listed(x) => Listed(x)'
      BY <2>1, <2>2 DEF Listed
    <3>2. \A i \in DOMAIN jobs : i \in DOMAIN jobs' /\ jobs'[i] = jobs[i]
      BY <2>1, AppendFacts
    <3>3. WillBePainted(x) => WillBePainted(x)'
      BY <2>1, <3>2 DEF WillBePainted
    <3> QED
      BY <2>1, <3>1, <3>3, ForgetFrame DEF Queued
  <2>3. CASE x = s /\ Submits(s)
    <3>1. /\ DOMAIN jobs' = 1..(Len(jobs) + 1) /\ Len(jobs) \in Nat
          /\ jobs'[Len(jobs) + 1] = x
      BY <2>1, <2>3, AppendFacts
    <3>2. Len(jobs) + 1 = 1 => render' = "idle"
      BY <2>1, <3>1 DEF IdleWithoutJobs
    <3>3. WillBePainted(x)'
      BY <3>1, <3>2 DEF WillBePainted
    <3> QED
      BY <3>3 DEF NotForgotten
  <2>4. CASE x = s /\ ~Submits(s) /\ toolkitRunning /\ life[x] = "shown" /\ drawn[x] # peer[x]
    <3>1. HasJob(x) /\ jobs' = jobs
      BY <2>1, <2>4 DEF Submits, PaintingHasJob
    <3>2. PICK i \in DOMAIN jobs : jobs[i] = x /\ (i = 1 => render \in {"idle", "locked", "painted"})
      BY <3>1 DEF HasJob
    <3>3. i = 1 => render # "painted"
      BY <2>4, <3>2 DEF ScreenInv, PaintedIsDrawn
    <3>4. WillBePainted(x)'
      BY <2>1, <3>1, <3>2, <3>3 DEF WillBePainted
    <3> QED
      BY <3>4 DEF NotForgotten
  <2>5. CASE ~(toolkitRunning /\ life[x] = "shown" /\ drawn[x] # peer[x])
    BY <2>1, <2>5 DEF NotForgotten
  <2> QED
    BY <2>2, <2>3, <2>4, <2>5
<1>11. CASE JobStarts \/ PaintingEnds \/ Done
  <2>1. UNCHANGED <<jobs, life, drawn, peer, dirtyScenes, fx, todo, queue, toolkitRunning>>
    BY <1>11 DEF JobStarts, PaintingEnds, Done, sceneVars, collectorVars, fxVars, flags
  <2>2. WillBePainted(x) => WillBePainted(x)'
    BY <1>11, <2>1 DEF JobStarts, PaintingEnds, Done, RenderStep, WillBePainted
  <2> QED
    BY <2>1, <2>2, ForgetFrame DEF Listed, Queued
<1>12. CASE Paint
  <2>1. /\ jobs # <<>> /\ UNCHANGED <<jobs, life, peer, dirtyScenes, fx, todo, queue, toolkitRunning>>
        /\ drawn' = IF life[jobs[1]] = "shown" THEN [drawn EXCEPT ![jobs[1]] = peer[jobs[1]]] ELSE drawn
        /\ jobs[1] \in Scenes
    BY <1>12 DEF Paint, RenderStep, collectorVars, fxVars, flags
  <2>2. CASE jobs[1] = x
    BY <2>1, <2>2 DEF NotForgotten
  <2>3. CASE jobs[1] # x
    <3>1. drawn'[x] = drawn[x]
      BY <2>1, <2>3
    <3>2. WillBePainted(x) => WillBePainted(x)'
      BY <2>1, <2>3 DEF WillBePainted
    <3> QED
      BY <2>1, <3>1, <3>2 DEF NotForgotten
  <2> QED
    BY <2>2, <2>3
<1>13. CASE PaintFails
  <2>1. /\ jobs # <<>> /\ UNCHANGED <<jobs, life, drawn, peer, dirtyScenes, fx, todo, toolkitRunning>>
        /\ Head(jobs) \in Flaky /\ Head(jobs) = jobs[1] /\ Head(jobs) \in Scenes
        /\ queue' = Append(queue, Head(jobs))
    BY <1>13 DEF PaintFails, RenderStep, sceneVars, collectorVars, flags
  <2>2. Queued(x) => Queued(x)'
    BY <2>1, AppendFacts DEF Queued
  <2>3. WillBePainted(x) => WillBePainted(x)'
    BY <2>1 DEF WillBePainted
  <2> QED
    BY <2>1, <2>2, <2>3, ForgetFrame DEF Listed
<1>14. CASE CountDown
  <2>1. /\ jobs # <<>> /\ jobs' = Tail(jobs) /\ render = "counting" /\ render' = "idle"
        /\ UNCHANGED <<life, drawn, peer, dirtyScenes, fx, todo, queue, toolkitRunning>>
    BY <1>14 DEF CountDown, RenderStep, sceneVars, fxVars, flags
  <2>2. ASSUME NEW i \in DOMAIN jobs, jobs[i] = x, i = 1 => render \in {"idle", "locked"}
        PROVE  WillBePainted(x)'
    <3>1. i - 1 \in 1..(Len(jobs) - 1) /\ (i - 1) + 1 = i
      BY <2>1, <2>2, TailFacts
    <3>2. jobs'[i - 1] = x /\ i - 1 \in DOMAIN jobs'
      BY <2>1, <2>2, <3>1, TailFacts
    <3> QED
      BY <2>1, <3>2 DEF WillBePainted
  <2>3. WillBePainted(x) => WillBePainted(x)'
    BY <2>2 DEF WillBePainted
  <2> QED
    BY <2>1, <2>3, ForgetFrame DEF Listed, Queued
<1> QED
  BY <1>1, <1>2, <1>3, <1>4, <1>5, <1>6, <1>7, <1>8, <1>9, <1>10, <1>11, <1>12, <1>13, <1>14
  DEF Next, UserThread, FxThread, RenderThread

(* NoLostChange for any number of scenes and events: a scene that keeps    *)
(* its contents and whose render tree is not what is on screen is in the   *)
(* dirty list, waits to be submitted, or has a job that has not painted,   *)
(* although a repaint is skipped while an earlier job of the scene runs.   *)
THEOREM ChangeKept == Spec => []NoLostChange
<1> DEFINE Inv == IInv /\ SceneTypes /\ VersionsCounted /\ ScreenInv /\ NoLostChange
<1>1. Init => Inv
  <2> SUFFICES ASSUME Init PROVE Inv
    OBVIOUS
  <2>1. SceneTypes /\ VersionsCounted
    BY PulseAssumption DEF Init, SceneTypes, VersionsCounted, Versions
  <2>2. ScreenInv /\ NoLostChange
    BY DEF Init, ScreenInv, DirtyKnown, DirtyInTodo, NotNew, PaintedIsDrawn, NoLostChange, NotForgotten
  <2> QED
    BY <2>1, <2>2, InitInv
<1>2. Inv /\ [Next]_vars => Inv'
  <2>1. CASE Inv /\ Next
    <3>1. IInv' /\ SceneTypes' /\ VersionsCounted'
      BY <2>1, StepInv, SceneTypesStep DEF IInv
    <3>2. ScreenInv'
      BY <2>1, DirtyStep, NotNewStep, PaintedStep DEF ScreenInv, IInv
    <3>3. NoLostChange'
      BY <2>1, ForgetStep DEF NoLostChange
    <3> QED
      BY <3>1, <3>2, <3>3
  <2>2. CASE Inv /\ UNCHANGED vars
    BY <2>2, StepInv DEF SceneTypes, VersionsCounted, ScreenInv, DirtyKnown, DirtyInTodo, NotNew, PaintedIsDrawn,
       NoLostChange, NotForgotten, WillBePainted, vars, sceneVars, collectorVars, fxVars, flags, renderVars
  <2> QED
    BY <2>1, <2>2
<1>3. Inv => NoLostChange
  OBVIOUS
<1> QED
  BY <1>1, <1>2, <1>3, PTL DEF Spec
=============================================================================
