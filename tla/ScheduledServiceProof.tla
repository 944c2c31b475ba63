----------------------- MODULE ScheduledServiceProof -----------------------
(***************************************************************************)
(* Theorems about ScheduledService, for every set of tasks and every       *)
(* number of calls: its types and the bound of its count of failures, and, *)
(* with handlers that call at most cancel(), that no delayed task is       *)
(* forgotten and that cancel() stops the iteration.                        *)
(***************************************************************************)
EXTENDS ScheduledService, ServiceProof, FiniteSetTheorems

-----------------------------------------------------------------------------
(* The types of all the variables.                                         *)

SchedOps == {SvcOp(name) : name \in SchedOpNames}
DelayedOps == {Op("delayed", t, "READY") : t \in Tasks}
EveryOp == Ops \union SchedOps \union DelayedOps
Delayed == {Runnable("delayed", t) : t \in Tasks}
EveryRunnable == AllRunnables \union Delayed

TimerTypes ==
  /\ delayTask \in created \union {NoTask}
  /\ timer \in [Tasks -> {"none", "armed", "cancelled", "fired"}]
  /\ stop \in BOOLEAN /\ freshStart \in BOOLEAN
  /\ failures \in Nat
  /\ restartOnFailure \in BOOLEAN

QueueTypes == queue \in Seq(EveryRunnable)
StackTypes == stack \in Seq(EveryOp) /\ callback \in BOOLEAN

SchedTypes ==
  /\ fut \in [Tasks -> Futures]
  /\ pc \in [Tasks -> Places]
  /\ posting \in [Tasks -> BOOLEAN]
  /\ QueueTypes
  /\ StackTypes
  /\ state \in [Tasks -> State]
  /\ own \in {"READY", "SCHEDULED", "CANCELLED"}
  /\ SvcTypeOK
  /\ TimerTypes

LEMMA EveryOpTyped ==
  /\ \A name \in SchedOpNames : SvcOp(name) \in EveryOp
  /\ \A name \in OpNames, t \in Tasks, s \in State \ {"READY"} :
       Op(name, t, s) \in Ops /\ Op(name, t, s) \in EveryOp
  /\ \A t \in Tasks : Op("delayed", t, "READY") \in EveryOp
  /\ \A t \in Tasks, s \in State \ {"READY"} : SetState(t, s) \in Ops /\ SetState(t, s) \in EveryOp
<1>1. \A name \in OpNames, t \in Tasks, s \in State \ {"READY"} : Op(name, t, s) \in Ops
  BY OpInOps
<1> QED
  BY <1>1 DEF SchedOps, DelayedOps, EveryOp, SetState, OpNames

(* The name of an operation tells which it is. *)
LEMMA EveryOpApart ==
  ASSUME NEW o \in EveryOp
  PROVE  /\ o.op \in OpNames => o \in Ops
         /\ \A name \in SchedOpNames : o.op = name => o = SvcOp(name)
         /\ o.op = "delayed" => \E t \in Tasks : o = Op("delayed", t, "READY")
         /\ o.op \in OpNames \union SchedOpNames \union {"delayed"}
<1>1. /\ OpNames \intersect SchedOpNames = {} /\ "delayed" \notin OpNames
      /\ "delayed" \notin SchedOpNames
  BY DEF OpNames, SchedOpNames, SvcOpNames
<1>2. \A x \in SchedOps : x.op \in SchedOpNames /\ x = SvcOp(x.op)
  BY DEF SchedOps, SvcOp, Op
<1>3. \A x \in Ops : x.op \in OpNames
  BY DEF Ops
<1>4. \A x \in DelayedOps : x.op = "delayed"
  BY DEF DelayedOps, Op
<1> QED
  BY <1>1, <1>2, <1>3, <1>4 DEF EveryOp, DelayedOps

LEMMA SchedHead ==
  ASSUME SchedTypes, stack # <<>>
  PROVE  /\ Head(stack) \in EveryOp /\ Tail(stack) \in Seq(EveryOp)
         /\ Elems(stack) = {Head(stack)} \union Elems(Tail(stack))
         /\ Head(stack).op \in OpNames =>
              /\ Head(stack) \in Ops
              /\ Head(stack).task \in Tasks /\ Head(stack).st \in State \ {"READY"}
<1>1. /\ Head(stack) \in EveryOp /\ Tail(stack) \in Seq(EveryOp)
      /\ Elems(stack) = {Head(stack)} \union Elems(Tail(stack))
  BY ElemsTail DEF SchedTypes, StackTypes
<1>2. Head(stack).op \in OpNames => Head(stack) \in Ops
  BY <1>1, EveryOpApart
<1> QED
  BY <1>1, <1>2 DEF Ops

(* What is left after the innermost operation was replaced by ops. *)
LEMMA SchedPop ==
  ASSUME SchedTypes, stack # <<>>, NEW ops \in Seq(EveryOp), NEW b \in BOOLEAN, Pop(ops, b)
  PROVE  StackTypes' /\ Elems(stack') = Elems(ops) \union Elems(Tail(stack))
<1>1. Tail(stack) \in Seq(EveryOp)
  BY SchedHead
<1>2. Elems(ops \o Tail(stack)) = Elems(ops) \union Elems(Tail(stack))
  BY <1>1, ElemsConcat
<1> QED
  BY <1>1, <1>2 DEF Pop, StackTypes

LEMMA SchedBodyTyped ==
  ASSUME NEW r \in EveryRunnable
  PROVE  /\ SchedBody(r) \in Seq(EveryOp)
         /\ r.kind = "delayed" =>
              \E t \in Tasks : /\ r = Runnable("delayed", t)
                               /\ SchedBody(r) = <<Op("delayed", t, "READY")>>
         /\ r.kind = "scheduled" =>
              r = PostedStart /\ SchedBody(r) = <<SvcOp("scheduled"), SvcOp("execute")>>
         /\ r.kind \in Kinds =>
              r \in Runnables /\ SchedBody(r) = Body(r) /\ Body(r) \in Seq(Ops)
         /\ r.kind \in Kinds \union {"delayed", "scheduled"}
<1>1. CASE r \in Delayed
  <2>1. PICK t \in Tasks : r = Runnable("delayed", t)
    BY <1>1 DEF Delayed
  <2>2. r.kind = "delayed" /\ r.task = t
    BY <2>1 DEF Runnable
  <2>3. <<Op("delayed", t, "READY")>> \in Seq(EveryOp)
    BY EveryOpTyped
  <2> QED
    BY <2>1, <2>2, <2>3 DEF SchedBody, Kinds
<1>2. CASE r = PostedStart
  <2>1. r.kind = "scheduled"
    BY <1>2 DEF PostedStart, Runnable
  <2>2. <<SvcOp("scheduled"), SvcOp("execute")>> \in Seq(EveryOp)
    BY EveryOpTyped DEF SchedOpNames, SvcOpNames
  <2> QED
    BY <1>2, <2>1, <2>2 DEF SchedBody, SvcBody, Kinds
<1>3. CASE r \in Runnables
  <2>1. r.kind \in Kinds
    BY <1>3 DEF Runnables
  <2>2. Body(r) \in Seq(Ops)
    BY <1>3, BodyInOps
  <2>3. Body(r) \in Seq(EveryOp)
    BY <2>2 DEF EveryOp
  <2> QED
    BY <1>3, <2>1, <2>2, <2>3 DEF SchedBody, SvcBody, Kinds
<1> QED
  BY <1>1, <1>2, <1>3 DEF EveryRunnable, AllRunnables

LEMMA SchedHeadNamed ==
  ASSUME SchedTypes, NEW name \in SchedOpNames, Top(name)
  PROVE  /\ stack # <<>> /\ Head(stack) = SvcOp(name)
         /\ Elems(stack) = {SvcOp(name)} \union Elems(Tail(stack))
  BY SchedHead, EveryOpApart DEF Top

(* A step of a task's threads changes nothing of the service. *)
LEMMA SchedThreadTypes ==
  ASSUME SchedTypes, TaskThreads, UNCHANGED schedVars
  PROVE  SchedTypes'
<1> USE DEF threadVars, fxVars, propVars
<1>1. PICK t \in created :
        WorkerThread(t) \/ Return(t) \/ Throw(t) \/ CancelOffFx(t) \/ PostCancelled(t)
  BY DEF TaskThreads
<1>2. t \in Tasks /\ UNCHANGED svcVars
  BY <1>1 DEF SchedTypes, SvcTypeOK, TaskThreads
<1>3. SvcTypeOK' /\ own' = own
  BY <1>2 DEF SchedTypes, SvcTypeOK, svcVars
<1>4. stack' = stack /\ callback' = callback /\ state' = state
  BY <1>1 DEF WorkerThread, Run, Call, Return, Throw, TestCancelled, PostSucceeded, PostFailed,
    Set, SetException, Complete, CancelOffFx, PostCancelled
<1>5. fut' \in [Tasks -> Futures] /\ pc' \in [Tasks -> Places] /\ posting' \in [Tasks -> BOOLEAN]
  <2>1. CASE Run(t) \/ Return(t) \/ Throw(t) \/ TestCancelled(t)
    BY <1>2, <2>1 DEF Run, Return, Throw, TestCancelled, At, SchedTypes, Places
  <2>2. CASE Call(t) \/ PostSucceeded(t) \/ PostFailed(t)
    BY <1>2, <2>2 DEF Call, PostSucceeded, PostFailed, At, SchedTypes, Places
  <2>3. CASE Set(t) \/ SetException(t)
    BY <1>2, <2>3 DEF Set, SetException, Complete, At, SchedTypes, Places, Futures
  <2>4. CASE CancelOffFx(t) \/ PostCancelled(t)
    BY <1>2, <2>4 DEF CancelOffFx, FutureCancel, PostCancelled, SchedTypes, Futures
  <2> QED
    BY <1>1, <2>1, <2>2, <2>3, <2>4 DEF WorkerThread
<1>6. queue' \in Seq(EveryRunnable)
  <2>1. \A k \in Kinds : Runnable(k, t) \in EveryRunnable
    BY <1>2 DEF EveryRunnable, AllRunnables, Runnables, Runnable
  <2>2. queue' = queue \/ \E k \in Kinds : queue' = Append(queue, Runnable(k, t))
    BY <1>1 DEF WorkerThread, Run, Call, Return, Throw, TestCancelled, PostSucceeded, PostFailed,
      Set, SetException, Complete, CancelOffFx, PostCancelled, RunLater, Kinds
  <2>3. queue \in Seq(EveryRunnable)
    BY DEF SchedTypes, QueueTypes
  <2>4. \A k \in Kinds : Append(queue, Runnable(k, t)) \in Seq(EveryRunnable)
    BY <2>1, <2>3
  <2> QED
    BY <2>2, <2>3, <2>4
<1>7. TimerTypes'
  BY <1>2 DEF SchedTypes, TimerTypes, schedVars, svcVars
<1> QED
  BY <1>3, <1>4, <1>5, <1>6, <1>7 DEF SchedTypes, QueueTypes, StackTypes

(* What a call of user code puts on the stack. *)
SchedPushed(ops) ==
  \/ ops \in {<<SvcOp("start")>>, <<SvcOp("reset")>>, <<SvcOp("resetStart")>>,
              <<SvcOp("drop"), SvcOp("resetStart")>>, <<SvcOp("stop")>>}
  \/ /\ cur # NoTask /\ fut[cur] = "NEW" /\ fut'[cur] = "CANCELLED"
     /\ ops \in {<<SetState(cur, "CANCELLED"), SvcOp("drop"), SvcOp("resetStart")>>,
                 <<SetState(cur, "CANCELLED"), SvcOp("stop")>>}

LEMMA SchedPushedTyped ==
  ASSUME SchedTypes, NEW ops, SchedPushed(ops)
  PROVE  ops \in Seq(EveryOp)
<1>1. /\ SvcOp("start") \in EveryOp /\ SvcOp("reset") \in EveryOp /\ SvcOp("stop") \in EveryOp
      /\ SvcOp("drop") \in EveryOp /\ SvcOp("resetStart") \in EveryOp
  BY EveryOpTyped DEF SvcOpNames, SchedOpNames
<1>2. cur # NoTask => SetState(cur, "CANCELLED") \in EveryOp
  BY EveryOpTyped DEF State, SchedTypes, SvcTypeOK
<1>3. /\ <<SvcOp("start")>> \in Seq(EveryOp) /\ <<SvcOp("reset")>> \in Seq(EveryOp)
      /\ <<SvcOp("resetStart")>> \in Seq(EveryOp) /\ <<SvcOp("stop")>> \in Seq(EveryOp)
      /\ <<SvcOp("drop"), SvcOp("resetStart")>> \in Seq(EveryOp)
  BY <1>1
<1>4. cur # NoTask =>
        /\ <<SetState(cur, "CANCELLED"), SvcOp("drop"), SvcOp("resetStart")>> \in Seq(EveryOp)
        /\ <<SetState(cur, "CANCELLED"), SvcOp("stop")>> \in Seq(EveryOp)
  BY <1>1, <1>2
<1> QED
  BY <1>3, <1>4 DEF SchedPushed

LEMMA SchedCalls ==
  ASSUME SchedTypes, Start \/ Reset \/ Restart \/ CancelAnd(<<SvcOp("stop")>>)
  PROVE  /\ UNCHANGED <<pc, posting, queue, propVars, cur, wired, startedOnce, starting, created>>
         /\ calls < MaxCalls /\ calls' = calls + 1 /\ callback' \in BOOLEAN
         /\ own' \in {own, "CANCELLED"}
         /\ fut' = fut \/ (cur # NoTask /\ FutureCancel(cur))
         /\ \E ops \in Seq(EveryOp) : SchedPushed(ops) /\ stack' = ops \o stack
<1> USE DEF threadVars, fxVars, propVars
<1>1. UNCHANGED <<pc, posting, queue, propVars, cur, wired, startedOnce, starting, created>>
  BY DEF Start, Reset, Restart, CancelAnd
<1>2. calls < MaxCalls /\ calls' = calls + 1 /\ callback' \in BOOLEAN
  BY DEF Start, Reset, Restart, CancelAnd, MayRenew, MayCall, Invoke, Count
<1>3. own' \in {own, "CANCELLED"}
  BY DEF Start, Reset, Restart, CancelAnd
<1>4. fut' = fut \/ (cur # NoTask /\ FutureCancel(cur))
  BY DEF Start, Reset, Restart, CancelAnd
<1>5. \E ops : SchedPushed(ops) /\ stack' = ops \o stack
  <2>1. <<SetState(cur, "CANCELLED")>> \o <<SvcOp("stop")>>
          = <<SetState(cur, "CANCELLED"), SvcOp("stop")>>
    BY PairConcat
  <2>2. cur # NoTask /\ FutureCancel(cur) => fut[cur] = "NEW" /\ fut'[cur] = "CANCELLED"
    BY DEF FutureCancel, SchedTypes, SvcTypeOK
  <2>3. CASE Start
    BY <2>3 DEF Start, Invoke, SchedPushed
  <2>4. CASE Reset
    BY <2>4 DEF Reset, Invoke, SchedPushed
  <2>5. CASE Restart
    BY <2>2, <2>5 DEF Restart, Invoke, SchedPushed
  <2>6. CASE CancelAnd(<<SvcOp("stop")>>)
    BY <2>1, <2>2, <2>6 DEF CancelAnd, Invoke, SchedPushed
  <2> QED
    BY <2>3, <2>4, <2>5, <2>6
<1> QED
  BY <1>1, <1>2, <1>3, <1>4, <1>5, SchedPushedTyped

LEMMA SchedCallTypes ==
  ASSUME SchedTypes, Start \/ Reset \/ Restart \/ CancelAnd(<<SvcOp("stop")>>),
         UNCHANGED schedVars
  PROVE  SchedTypes'
<1>1. /\ UNCHANGED <<pc, posting, queue, state, cur, wired, startedOnce, starting, created>>
      /\ calls < MaxCalls /\ calls' = calls + 1 /\ callback' \in BOOLEAN
      /\ own' \in {own, "CANCELLED"}
  BY SchedCalls DEF propVars
<1>2. fut' \in [Tasks -> Futures]
  BY SchedCalls DEF FutureCancel, SchedTypes, Futures
<1>3. stack' \in Seq(EveryOp)
  <2>1. PICK ops \in Seq(EveryOp) : stack' = ops \o stack
    BY SchedCalls
  <2> QED
    BY <2>1 DEF SchedTypes, StackTypes
<1>4. calls' \in 0..MaxCalls
  BY <1>1, ServiceAssumption DEF SchedTypes, SvcTypeOK
<1> QED
  BY <1>1, <1>2, <1>3, <1>4
  DEF SchedTypes, SvcTypeOK, QueueTypes, StackTypes, TimerTypes, schedVars

LEMMA SchedOffFxTypes ==
  ASSUME SchedTypes, StartOffFx \/ PostScheduled, UNCHANGED schedVars
  PROVE  SchedTypes'
<1> USE DEF threadVars, fxVars, propVars
<1>1. CASE StartOffFx
  <2>1. PICK t \in Tasks : Wire(t)
    BY <1>1 DEF StartOffFx
  <2>2. calls' \in 0..MaxCalls
    BY <1>1, ServiceAssumption DEF StartOffFx, Count, SchedTypes, SvcTypeOK
  <2>3. SvcTypeOK' /\ own' = own
    BY <1>1, <2>1, <2>2 DEF StartOffFx, Wire, SchedTypes, SvcTypeOK
  <2>4. TimerTypes'
    BY <2>1 DEF Wire, SchedTypes, TimerTypes, schedVars
  <2> QED
    BY <1>1, <2>3, <2>4 DEF StartOffFx, taskVars, SchedTypes, QueueTypes, StackTypes
<1>2. CASE PostScheduled
  <2>1. queue' \in Seq(EveryRunnable)
    BY <1>2 DEF PostScheduled, RunLater, SchedTypes, QueueTypes, EveryRunnable, AllRunnables,
      PostedStart
  <2> QED
    BY <1>2, <2>1
    DEF PostScheduled, SchedTypes, SvcTypeOK, QueueTypes, StackTypes, TimerTypes, schedVars
<1> QED
  BY <1>1, <1>2

LEMMA SchedResetTypes ==
  ASSUME SchedTypes, stack # <<>>, NEW then \in Seq(EveryOp), ResetThen(then)
  PROVE  /\ StackTypes'
         /\ UNCHANGED <<wired, startedOnce, starting, created, calls>>
         /\ cur' \in {cur, NoTask} /\ own' \in {own, "READY"}
<1>1. CASE ResetRefused
  <2>1. Pop(<<>>, TRUE) /\ UNCHANGED svcVars
    BY <1>1 DEF ResetThen
  <2>2. <<>> \in Seq(EveryOp)
    OBVIOUS
  <2> QED
    BY <2>1, <2>2, SchedPop DEF svcVars
<1>2. CASE ~ResetRefused
  <2>1. <<SvcOp("unwire")>> \in Seq(EveryOp)
    BY EveryOpTyped DEF SchedOpNames, SvcOpNames
  <2>2. <<SvcOp("unwire")>> \o then \in Seq(EveryOp)
    BY <2>1
  <2>3. Pop(<<SvcOp("unwire")>> \o then, SvcState # "READY")
    BY <1>2 DEF ResetThen
  <2>4. StackTypes'
    BY <2>2, <2>3, SchedPop
  <2> QED
    BY <1>2, <2>4 DEF ResetThen, Detach
<1> QED
  BY <1>1, <1>2

(* The parts that every service has. *)
LEMMA SchedPartTypes ==
  ASSUME SchedTypes, UNCHANGED schedVars,
         DoResetAnd(<<SvcOp("freshen")>>) \/ DoUnwire \/ DoStart \/ DoDrop \/ DoScheduled
  PROVE  SchedTypes'
<1> USE DEF threadVars, fxVars, propVars
<1>1. stack # <<>> /\ <<>> \in Seq(EveryOp)
  <2>1. stack # <<>>
    BY DEF DoResetAnd, DoUnwire, DoStart, DoDrop, DoScheduled, Top
  <2> QED
    BY <2>1
<1>2. \A name \in SchedOpNames : SvcOp(name) \in EveryOp
  BY EveryOpTyped
<1>3. \A t \in Tasks : SetState(t, "SCHEDULED") \in EveryOp
  BY EveryOpTyped DEF State
<1>4. CASE DoResetAnd(<<SvcOp("freshen")>>)
  <2>1. <<SvcOp("freshen")>> \in Seq(EveryOp)
    BY <1>2 DEF SchedOpNames
  <2>2. <<SvcOp("freshen")>> \o <<SvcOp("start")>> \in Seq(EveryOp)
    BY <1>2, <2>1 DEF SchedOpNames, SvcOpNames
  <2>3. \E then \in Seq(EveryOp) : ResetThen(then)
    BY <1>4, <2>1, <2>2 DEF DoResetAnd
  <2>4. /\ StackTypes'
        /\ UNCHANGED <<wired, startedOnce, starting, created, calls>>
        /\ cur' \in {cur, NoTask} /\ own' \in {own, "READY"}
    BY <1>1, <2>3, SchedResetTypes
  <2> QED
    BY <1>4, <2>4
    DEF DoResetAnd, SchedTypes, SvcTypeOK, QueueTypes, TimerTypes, schedVars
<1>5. CASE DoUnwire
  <2>1. StackTypes'
    BY <1>1, <1>5, SchedPop DEF DoUnwire
  <2> QED
    BY <1>5, <2>1 DEF DoUnwire, SchedTypes, SvcTypeOK, QueueTypes, TimerTypes, schedVars
<1>6. CASE DoStart
  <2>1. CASE SvcState # "READY"
    <3>1. StackTypes'
      BY <1>1, <1>6, <2>1, SchedPop DEF DoStart
    <3> QED
      BY <1>6, <2>1, <3>1
      DEF DoStart, SchedTypes, SvcTypeOK, svcVars, QueueTypes, TimerTypes, schedVars
  <2>2. CASE SvcState = "READY"
    <3>1. PICK t \in Tasks : Wire(t) /\ Pop(<<SetState(t, "SCHEDULED"), SvcOp("execute")>>, FALSE)
      BY <1>6, <2>2 DEF DoStart
    <3>2. <<SetState(t, "SCHEDULED"), SvcOp("execute")>> \in Seq(EveryOp)
      BY <1>2, <1>3 DEF SchedOpNames, SvcOpNames
    <3>3. StackTypes'
      BY <1>1, <3>1, <3>2, SchedPop
    <3> QED
      BY <1>6, <2>2, <3>1, <3>3
      DEF DoStart, Wire, SchedTypes, SvcTypeOK, QueueTypes, TimerTypes, schedVars
  <2> QED
    BY <2>1, <2>2
<1>7. CASE DoDrop
  <2>1. (SvcState # "CANCELLED") \in BOOLEAN
    OBVIOUS
  <2>2. StackTypes'
    BY <1>1, <1>7, <2>1, SchedPop DEF DoDrop
  <2> QED
    BY <1>7, <2>2
    DEF DoDrop, Detach, SchedTypes, SvcTypeOK, QueueTypes, TimerTypes, schedVars
<1>8. CASE DoScheduled
  <2>1. cur # NoTask => SetState(cur, "SCHEDULED") \in EveryOp
    BY <1>3 DEF SchedTypes, SvcTypeOK
  <2>2. stack' \in Seq(EveryOp) /\ callback' = FALSE
    <3>1. Tail(stack) \in Seq(EveryOp)
      BY <1>1, SchedHead
    <3>2. CASE cur = NoTask
      BY <1>1, <1>8, <3>2 DEF DoScheduled
    <3>3. CASE cur # NoTask
      <4>1. <<SetState(cur, "SCHEDULED")>> \in Seq(EveryOp)
        BY <2>1, <3>3
      <4> QED
        BY <1>8, <3>1, <3>3, <4>1 DEF DoScheduled
    <3> QED
      BY <3>2, <3>3
  <2> QED
    BY <1>8, <2>2
    DEF DoScheduled, SchedTypes, SvcTypeOK, svcVars, QueueTypes, StackTypes, TimerTypes, schedVars
<1> QED
  BY <1>4, <1>5, <1>6, <1>7, <1>8

LEMMA ExecuteTaskNowTypes ==
  ASSUME SchedTypes, NEW t, ExecuteTaskNow(t)
  PROVE  pc' \in [Tasks -> Places] /\ freshStart' \in BOOLEAN
  BY DEF ExecuteTaskNow, SchedTypes, Places

(* The parts that a scheduled service adds. *)
LEMMA SchedOwnPartTypes ==
  ASSUME SchedTypes,
         \/ DoExecuteTask \/ DoDelayed \/ DoSucceeded \/ DoFailed \/ DoCancelFromReady
         \/ DoFreshen \/ DoStop
  PROVE  SchedTypes'
<1> USE DEF threadVars, fxVars, propVars
<1>1. stack # <<>> /\ <<>> \in Seq(EveryOp)
  <2>1. stack # <<>>
    BY DEF DoExecuteTask, DoDelayed, DoSucceeded, DoFailed, DoCancelFromReady, DoFreshen,
      DoStop, Top
  <2> QED
    BY <2>1
<1>2. \A name \in SchedOpNames : SvcOp(name) \in EveryOp
  BY EveryOpTyped
<1>3. CASE DoExecuteTask
  <2>1. StackTypes'
    BY <1>1, <1>3, SchedPop DEF DoExecuteTask
  <2>2. pc' \in [Tasks -> Places] /\ TimerTypes'
    <3>1. CASE ExecuteTaskNow(cur) /\ UNCHANGED <<delayTask, timer>>
      BY <1>3, <3>1, ExecuteTaskNowTypes DEF DoExecuteTask, SchedTypes, TimerTypes, svcVars
    <3>2. CASE /\ cur # NoTask /\ delayTask' = cur
               /\ timer' = [timer EXCEPT ![cur] = "armed"]
               /\ UNCHANGED <<pc, freshStart>>
      BY <1>3, <3>2 DEF DoExecuteTask, SchedTypes, TimerTypes, SvcTypeOK, svcVars
    <3> QED
      BY <1>3, <3>1, <3>2 DEF DoExecuteTask
  <2> QED
    BY <1>3, <2>1, <2>2 DEF DoExecuteTask, SchedTypes, SvcTypeOK, svcVars, QueueTypes
<1>4. CASE DoDelayed
  <2>1. StackTypes'
    BY <1>1, <1>4, SchedPop DEF DoDelayed
  <2>2. pc' \in [Tasks -> Places] /\ freshStart' \in BOOLEAN
    BY <1>4, ExecuteTaskNowTypes DEF DoDelayed
  <2> QED
    BY <1>4, <2>1, <2>2 DEF DoDelayed, SchedTypes, SvcTypeOK, svcVars, QueueTypes, TimerTypes
<1>5. CASE DoSucceeded
  <2>1. SucceededThen \in Seq(EveryOp)
    <3>1. <<SvcOp("cancelFromReady"), SvcOp("cancelled")>> \in Seq(EveryOp)
      BY <1>2 DEF SchedOpNames
    <3>2. <<SvcOp("start")>> \in Seq(EveryOp)
      BY <1>2 DEF SchedOpNames, SvcOpNames
    <3> QED
      BY <3>1, <3>2 DEF SucceededThen
  <2>2. /\ StackTypes'
        /\ UNCHANGED <<wired, startedOnce, starting, created, calls>>
        /\ cur' \in {cur, NoTask} /\ own' \in {own, "READY"}
    BY <1>1, <1>5, <2>1, SchedResetTypes DEF DoSucceeded
  <2> QED
    BY <1>5, <2>2 DEF DoSucceeded, SchedTypes, SvcTypeOK, QueueTypes, TimerTypes, schedVars
<1>6. CASE DoFailed
  <2>1. <<SvcOp("start")>> \in Seq(EveryOp)
    BY <1>2 DEF SchedOpNames, SvcOpNames
  <2>2. /\ StackTypes'
        /\ UNCHANGED <<wired, startedOnce, starting, created, calls>>
        /\ cur' \in {cur, NoTask} /\ own' \in {own, "READY"}
    <3>1. CASE ResetThen(<<SvcOp("start")>>)
      BY <1>1, <2>1, <3>1, SchedResetTypes
    <3>2. CASE Pop(<<>>, TRUE) /\ UNCHANGED svcVars
      BY <1>1, <3>2, SchedPop DEF svcVars
    <3> QED
      BY <1>6, <3>1, <3>2 DEF DoFailed
  <2> QED
    BY <1>6, <2>2 DEF DoFailed, SchedTypes, SvcTypeOK, QueueTypes, TimerTypes
<1>7. CASE DoCancelFromReady
  <2>1. StackTypes'
    BY <1>1, <1>7, SchedPop DEF DoCancelFromReady
  <2> QED
    BY <1>7, <2>1 DEF DoCancelFromReady, SchedTypes, SvcTypeOK, QueueTypes, TimerTypes, schedVars
<1>8. CASE DoFreshen
  <2>1. StackTypes'
    BY <1>1, <1>8, SchedPop DEF DoFreshen
  <2> QED
    BY <1>8, <2>1 DEF DoFreshen, SchedTypes, SvcTypeOK, QueueTypes, TimerTypes, svcVars
<1>9. CASE DoStop
  <2>1. StackTypes'
    BY <1>1, <1>9, SchedPop DEF DoStop
  <2>2. timer' \in [Tasks -> {"none", "armed", "cancelled", "fired"}]
    BY <1>9 DEF DoStop, SchedTypes, TimerTypes
  <2> QED
    BY <1>9, <2>1, <2>2 DEF DoStop, SchedTypes, SvcTypeOK, QueueTypes, TimerTypes, svcVars
<1> QED
  BY <1>3, <1>4, <1>5, <1>6, <1>7, <1>8, <1>9

(* The operations of a task, with the hooks of its states. *)
LEMMA SchedTaskOpTypes ==
  ASSUME SchedTypes, UNCHANGED <<svcVars, schedVars>>,
         \/ DispatchAs(SchedBody(Head(queue)))
         \/ DoSetStateAndHook \/ DoSetRunning \/ DoFire \/ DoSetValue \/ DoSetException
  PROVE  SchedTypes'
<1> USE DEF threadVars, fxVars, propVars
<1>1. SvcTypeOK' /\ own' = own /\ TimerTypes'
  BY DEF SchedTypes, SvcTypeOK, svcVars, TimerTypes, schedVars
<1>2. UNCHANGED <<fut, pc, posting>>
  BY DEF DispatchAs, DoSetStateAndHook, DoSetStateThen, DoSetRunning, DoFire, DoSetValue,
    DoSetException
<1>3. CASE DispatchAs(SchedBody(Head(queue)))
  <2>1. Head(queue) \in EveryRunnable /\ Tail(queue) \in Seq(EveryRunnable)
    BY <1>3 DEF DispatchAs, SchedTypes, QueueTypes
  <2>2. SchedBody(Head(queue)) \in Seq(EveryOp)
    BY <2>1, SchedBodyTyped
  <2> QED
    BY <1>1, <1>2, <1>3, <2>1, <2>2 DEF DispatchAs, SchedTypes, QueueTypes, StackTypes
<1>4. CASE DoSetStateAndHook
  <2> DEFINE t == Head(stack).task
             s == Head(stack).st
             ops == Hook(t, s)
             rest == <<Op("running", t, s), Op("fire", t, s)>>
  <2>1. stack # <<>> /\ t \in Tasks /\ s \in State \ {"READY"}
    BY <1>4, SchedHead DEF DoSetStateAndHook, DoSetStateThen, Top, OpNames
  <2>2. rest \in Seq(EveryOp) /\ ops \in Seq(EveryOp) /\ <<>> \in Seq(EveryOp)
    <3>1. rest \in Seq(EveryOp)
      BY <2>1, EveryOpTyped DEF OpNames
    <3>2. /\ <<SvcOp("succeeded")>> \in Seq(EveryOp) /\ <<SvcOp("failed")>> \in Seq(EveryOp)
          /\ <<>> \in Seq(EveryOp)
      BY EveryOpTyped DEF SchedOpNames
    <3> QED
      BY <3>1, <3>2 DEF Hook
  <2>3. ops \o rest \in Seq(EveryOp)
    BY <2>2
  <2>4. StackTypes'
    BY <1>4, <2>1, <2>2, <2>3, SchedPop DEF DoSetStateAndHook, DoSetStateThen
  <2>5. state' \in [Tasks -> State] /\ queue' = queue
    BY <1>4, <2>1 DEF DoSetStateAndHook, DoSetStateThen, SchedTypes
  <2> QED
    BY <1>1, <1>2, <2>4, <2>5 DEF SchedTypes, QueueTypes
<1>5. CASE DoSetRunning \/ DoFire \/ DoSetValue \/ DoSetException
  <2>1. stack # <<>> /\ UNCHANGED <<queue, state>>
    BY <1>5 DEF DoSetRunning, DoFire, DoSetValue, DoSetException, Top
  <2>2. \E b \in BOOLEAN : Pop(<<>>, b)
    BY <1>5 DEF DoSetRunning, DoFire, DoSetValue, DoSetException
  <2>3. <<>> \in Seq(EveryOp)
    OBVIOUS
  <2>4. StackTypes'
    BY <2>1, <2>2, <2>3, SchedPop
  <2> QED
    BY <1>1, <1>2, <2>1, <2>4 DEF SchedTypes, QueueTypes
<1> QED
  BY <1>3, <1>4, <1>5

LEMMA TimerFiresTypes ==
  ASSUME SchedTypes, NEW t \in Tasks, TimerFires(t)
  PROVE  SchedTypes'
<1>1. queue' \in Seq(EveryRunnable)
  BY DEF TimerFires, RunLater, SchedTypes, QueueTypes, EveryRunnable, Delayed
<1> QED
  BY <1>1 DEF TimerFires, SchedTypes, SvcTypeOK, QueueTypes, StackTypes, TimerTypes, svcVars,
    threadVars, propVars

LEMMA SchedTypesInit == SchedInit => SchedTypes
<1> SUFFICES ASSUME SchedInit PROVE SchedTypes
  OBVIOUS
<1>1. SvcTypeOK
  <2>1. calls \in 0..MaxCalls
    BY ServiceAssumption DEF SchedInit, SvcInit
  <2> QED
    BY <2>1 DEF SchedInit, SvcInit, SvcTypeOK
<1>2. QueueTypes /\ StackTypes
  <2>1. queue = <<>> /\ stack = <<>> /\ callback = FALSE
    BY DEF SchedInit, SvcInit, Init
  <2>2. <<>> \in Seq(EveryOp) /\ <<>> \in Seq(EveryRunnable)
    OBVIOUS
  <2> QED
    BY <2>1, <2>2 DEF QueueTypes, StackTypes
<1>3. TimerTypes
  BY DEF SchedInit, TimerTypes
<1> QED
  BY <1>1, <1>2, <1>3 DEF SchedInit, SvcInit, Init, SchedTypes, Futures, Places, State

LEMMA SchedTypesStep ==
  ASSUME SchedTypes, [SchedNext]_allVars
  PROVE  SchedTypes'
<1>1. CASE UNCHANGED allVars
  BY <1>1 DEF allVars, vars, schedVars, svcVars, taskVars, threadVars, fxVars, propVars,
    SchedTypes, SvcTypeOK, QueueTypes, StackTypes, TimerTypes
<1>2. CASE SchedFxThread
  <2>1. CASE \/ DoExecuteTask \/ DoDelayed \/ DoSucceeded \/ DoFailed \/ DoCancelFromReady
             \/ DoFreshen \/ DoStop
    BY <2>1, SchedOwnPartTypes
  <2>2. CASE CommonFxThread /\ UNCHANGED schedVars
    BY <2>2, SchedPartTypes, SchedTaskOpTypes DEF CommonFxThread
  <2>3. CASE DoResetAnd(<<SvcOp("freshen")>>) /\ UNCHANGED schedVars
    BY <2>3, SchedPartTypes
  <2>4. CASE /\ DispatchAs(SchedBody(Head(queue))) \/ DoSetStateAndHook
             /\ UNCHANGED <<svcVars, schedVars>>
    BY <2>4, SchedTaskOpTypes
  <2> QED
    BY <1>2, <2>1, <2>2, <2>3, <2>4 DEF SchedFxThread
<1> QED
  BY <1>1, <1>2, TimerFiresTypes, SchedThreadTypes, SchedCallTypes, SchedOffFxTypes
  DEF SchedNext

LEMMA SchedTyped == SchedSpec => []SchedTypes
<1>1. SchedTypes /\ [SchedNext]_allVars => SchedTypes'
  BY SchedTypesStep
<1> QED
  BY SchedTypesInit, <1>1, PTL DEF SchedSpec

-----------------------------------------------------------------------------
(* Every task fails at most once, which bounds the count of failures.      *)

(* No two positions of s hold members of T. *)
Single(s, T) == \A i, j \in 1..Len(s) : s[i] \in T /\ s[j] \in T => i = j

LEMMA SingleTail ==
  ASSUME NEW S, NEW s \in Seq(S), s # <<>>, NEW T, Single(s, T)
  PROVE  /\ Single(Tail(s), T)
         /\ Head(s) \in T => Elems(Tail(s)) \intersect T = {}
<1>1. /\ Len(s) \in Nat \ {0} /\ Len(Tail(s)) = Len(s) - 1 /\ Head(s) = s[1]
      /\ \A i \in 1..Len(Tail(s)) : Tail(s)[i] = s[i + 1] /\ i + 1 \in 2..Len(s)
  BY TailIndex
<1>2. Single(Tail(s), T)
  <2> SUFFICES ASSUME NEW i \in 1..Len(Tail(s)), NEW j \in 1..Len(Tail(s)),
                      Tail(s)[i] \in T, Tail(s)[j] \in T
               PROVE  i = j
    BY DEF Single
  <2>1. i + 1 \in 1..Len(s) /\ j + 1 \in 1..Len(s) /\ s[i + 1] \in T /\ s[j + 1] \in T
    BY <1>1
  <2>2. i + 1 = j + 1
    BY <2>1 DEF Single
  <2> QED
    BY <2>2
<1>3. ASSUME Head(s) \in T, NEW i \in 1..Len(Tail(s)), Tail(s)[i] \in T
      PROVE  FALSE
  <2>1. 1 \in 1..Len(s) /\ i + 1 \in 1..Len(s) /\ i + 1 # 1 /\ s[1] \in T /\ s[i + 1] \in T
    BY <1>1, <1>3
  <2> QED
    BY <2>1 DEF Single
<1> QED
  BY <1>2, <1>3 DEF Elems

LEMMA SingleConcat ==
  ASSUME NEW S, NEW a \in Seq(S), NEW b \in Seq(S), NEW T, Single(a, T), Single(b, T),
         Elems(a) \intersect T = {} \/ Elems(b) \intersect T = {}
  PROVE  Single(a \o b, T)
<1> DEFINE r == a \o b
<1>1. /\ Len(a) \in Nat /\ Len(b) \in Nat /\ Len(r) = Len(a) + Len(b)
      /\ \A i \in 1..Len(a) : r[i] = a[i]
      /\ \A i \in 1..Len(r) : i > Len(a) => i - Len(a) \in 1..Len(b) /\ r[i] = b[i - Len(a)]
  OBVIOUS
<1> HIDE DEF r
<1> SUFFICES ASSUME NEW i \in 1..Len(r), NEW j \in 1..Len(r), r[i] \in T, r[j] \in T
             PROVE  i = j
  BY DEF Single, r
<1>2. CASE i <= Len(a) /\ j <= Len(a)
  <2>1. i \in 1..Len(a) /\ j \in 1..Len(a)
    BY <1>1, <1>2
  <2> QED
    BY <1>1, <2>1 DEF Single
<1>3. CASE i > Len(a) /\ j > Len(a)
  <2>1. i - Len(a) \in 1..Len(b) /\ j - Len(a) \in 1..Len(b)
        /\ b[i - Len(a)] \in T /\ b[j - Len(a)] \in T
    BY <1>1, <1>3
  <2>2. i - Len(a) = j - Len(a)
    BY <2>1 DEF Single
  <2> QED
    BY <1>1, <2>2
<1>4. \A k \in 1..Len(r) : k <= Len(a) /\ r[k] \in T => Elems(a) \intersect T # {}
  <2> SUFFICES ASSUME NEW k \in 1..Len(r), k <= Len(a), r[k] \in T
               PROVE  Elems(a) \intersect T # {}
    OBVIOUS
  <2>1. k \in 1..Len(a) /\ r[k] = a[k]
    BY <1>1
  <2> QED
    BY <2>1 DEF Elems
<1>5. \A k \in 1..Len(r) : k > Len(a) /\ r[k] \in T => Elems(b) \intersect T # {}
  BY <1>1 DEF Elems
<1> QED
  BY <1>1, <1>2, <1>3, <1>4, <1>5

LEMMA SingleNone ==
  ASSUME NEW s, NEW T, Elems(s) \intersect T = {}
  PROVE  Single(s, T)
  BY DEF Single, Elems

LEMMA SingleAppend ==
  ASSUME NEW S, NEW s \in Seq(S), NEW e \in S, NEW T, Single(s, T),
         e \notin T \/ Elems(s) \intersect T = {}
  PROVE  Single(Append(s, e), T)
<1>1. /\ Append(s, e) = s \o <<e>> /\ <<e>> \in Seq(S) /\ Elems(<<e>>) = {e}
  BY ElemsOne
<1>2. Single(<<e>>, T)
  <2>1. 1..Len(<<e>>) = {1}
    OBVIOUS
  <2> QED
    BY <2>1 DEF Single
<1> QED
  BY <1>1, <1>2, SingleConcat

LEMMA ElemsThree ==
  ASSUME NEW a, NEW b, NEW c
  PROVE  Elems(<<a, b, c>>) = {a, b, c}
<1>1. Len(<<a, b, c>>) = 3 /\ <<a, b, c>>[1] = a /\ <<a, b, c>>[2] = b /\ <<a, b, c>>[3] = c
  OBVIOUS
<1>2. 1..3 = {1, 2, 3}
  OBVIOUS
<1> QED
  BY <1>1, <1>2 DEF Elems

(* A failure on its way to be counted. *)
FailTokens == {o \in EveryOp : o.op = "failed" \/ (o.op = "setState" /\ o.st = "FAILED")}

FailPosted(t) == Runnable("fail", t) \in Elems(queue)
FailPending(t) == SetState(t, "FAILED") \in Elems(stack)
HasThrown(t) == pc[t] \in {"throwing", "done"}

(* The tasks that may have been counted. *)
FailedTasks == {t \in Tasks : HasThrown(t) /\ ~FailPosted(t) /\ ~FailPending(t)}

FailOnce ==
  /\ Single(stack, FailTokens)
  /\ \A t \in Tasks :
       /\ Single(queue, {Runnable("fail", t)})
       /\ FailPosted(t) => ~FailPending(t)
       /\ FailPosted(t) \/ FailPending(t) => HasThrown(t)
  /\ failures + (IF On("failed") THEN 1 ELSE 0) <= Cardinality(FailedTasks)

LEMMA FailTokensFacts ==
  /\ SvcOp("failed") \in FailTokens
  /\ \A t \in Tasks : SetState(t, "FAILED") \in FailTokens
  /\ \A name \in SchedOpNames \ {"failed"} : SvcOp(name) \notin FailTokens
  /\ \A t \in Tasks : \A s : s # "FAILED" => SetState(t, s) \notin FailTokens
  /\ \A t, s : \A name \in OpNames \ {"setState"} : Op(name, t, s) \notin FailTokens
  /\ \A t : Op("delayed", t, "READY") \notin FailTokens
<1>1. SvcOp("failed") \in EveryOp /\ \A t \in Tasks : SetState(t, "FAILED") \in EveryOp
  BY EveryOpTyped DEF SchedOpNames, State
<1>2. /\ \A name : SvcOp(name).op = name
      /\ \A t, s : SetState(t, s).op = "setState" /\ SetState(t, s).st = s
      /\ \A name, t, s : Op(name, t, s).op = name
  BY DEF SvcOp, SetState, Op
<1>3. "setState" \notin SchedOpNames /\ "failed" \notin OpNames
  BY DEF SchedOpNames, SvcOpNames, OpNames
<1> QED
  BY <1>1, <1>2, <1>3 DEF FailTokens

LEMMA FailedFinite ==
  /\ IsFiniteSet(FailedTasks) /\ Cardinality(FailedTasks) \in Nat
  /\ Cardinality(FailedTasks) <= Cardinality(Tasks)
<1>1. FailedTasks \subseteq Tasks
  BY DEF FailedTasks
<1> QED
  BY <1>1, ScheduledAssumption, FS_Subset, FS_CardinalityType

(* Steps that neither post a failure nor count one. *)
LEMMA FailQuiet ==
  ASSUME SchedTypes, SchedTypes', FailOnce, failures' \in {failures, 0},
         \A t \in Tasks : HasThrown(t) => HasThrown(t)',
         \A t \in Tasks : FailPosted(t)' => FailPosted(t),
         \A t \in Tasks : Single(queue', {Runnable("fail", t)}),
         Single(stack', FailTokens), Elems(stack') \intersect FailTokens \subseteq Elems(stack)
  PROVE  FailOnce'
<1>1. \A t \in Tasks : FailPending(t)' => FailPending(t)
  BY FailTokensFacts DEF FailPending
<1>2. On("failed")' => On("failed")
  BY FailTokensFacts DEF On
<1>3. FailedTasks \subseteq FailedTasks'
  BY <1>1 DEF FailedTasks
<1>4. /\ IsFiniteSet(FailedTasks') /\ Cardinality(FailedTasks') \in Nat
      /\ Cardinality(FailedTasks) \in Nat
  <2>1. FailedTasks' \subseteq Tasks
    BY DEF FailedTasks
  <2> QED
    BY <2>1, FailedFinite, ScheduledAssumption, FS_Subset, FS_CardinalityType
<1>5. Cardinality(FailedTasks) <= Cardinality(FailedTasks')
  BY <1>3, <1>4, FS_Subset
<1>6. failures \in Nat /\ failures' <= failures
  BY DEF SchedTypes, TimerTypes
<1>7. (failures + (IF On("failed") THEN 1 ELSE 0) <= Cardinality(FailedTasks))'
  BY <1>2, <1>4, <1>5, <1>6 DEF FailOnce
<1> QED
  BY <1>1, <1>7 DEF FailOnce

(* The innermost operation is replaced by some that are no failures. *)
LEMMA FailPop ==
  ASSUME SchedTypes, FailOnce, stack # <<>>, NEW ops \in Seq(EveryOp),
         Elems(ops) \intersect FailTokens = {}, stack' = ops \o Tail(stack)
  PROVE  /\ Single(stack', FailTokens)
         /\ Elems(stack') \intersect FailTokens \subseteq Elems(stack)
         /\ Head(stack) \in FailTokens => Elems(stack') \intersect FailTokens = {}
<1>1. stack \in Seq(EveryOp) /\ Tail(stack) \in Seq(EveryOp)
      /\ Elems(stack) = {Head(stack)} \union Elems(Tail(stack))
  BY SchedHead DEF SchedTypes, StackTypes
<1>2. Single(Tail(stack), FailTokens)
      /\ (Head(stack) \in FailTokens => Elems(Tail(stack)) \intersect FailTokens = {})
  BY <1>1, SingleTail DEF FailOnce
<1>3. Elems(ops \o Tail(stack)) = Elems(ops) \union Elems(Tail(stack))
  BY <1>1, ElemsConcat
<1>4. Single(ops, FailTokens)
  BY SingleNone
<1>5. Single(ops \o Tail(stack), FailTokens)
  BY <1>1, <1>2, <1>4, SingleConcat
<1> QED
  BY <1>1, <1>2, <1>3, <1>5

LEMMA FailPush ==
  ASSUME SchedTypes, FailOnce, NEW ops \in Seq(EveryOp),
         Elems(ops) \intersect FailTokens = {}, stack' = ops \o stack
  PROVE  /\ Single(stack', FailTokens)
         /\ Elems(stack') \intersect FailTokens \subseteq Elems(stack)
<1>1. stack \in Seq(EveryOp)
  BY DEF SchedTypes, StackTypes
<1>2. Elems(ops \o stack) = Elems(ops) \union Elems(stack)
  BY <1>1, ElemsConcat
<1>3. Single(ops, FailTokens)
  BY SingleNone
<1>4. Single(ops \o stack, FailTokens)
  BY <1>1, <1>3, SingleConcat DEF FailOnce
<1> QED
  BY <1>2, <1>4

LEMMA FailThread ==
  ASSUME SchedTypes, SchedTypes', FailOnce, TaskThreads, UNCHANGED schedVars
  PROVE  FailOnce'
<1> USE DEF threadVars, fxVars, propVars
<1>1. PICK u \in created :
        WorkerThread(u) \/ Return(u) \/ Throw(u) \/ CancelOffFx(u) \/ PostCancelled(u)
  BY DEF TaskThreads
<1>2. /\ u \in Tasks /\ UNCHANGED svcVars /\ failures' = failures
      /\ queue \in Seq(EveryRunnable)
      /\ \A k \in Kinds : Runnable(k, u) \in EveryRunnable
  <2>1. u \in Tasks
    BY DEF SchedTypes, SvcTypeOK
  <2> QED
    BY <2>1 DEF TaskThreads, schedVars, SchedTypes, QueueTypes, EveryRunnable, AllRunnables,
      Runnables, Runnable
<1>3. stack' = stack
  BY <1>1 DEF WorkerThread, Run, Call, Return, Throw, TestCancelled, PostSucceeded, PostFailed,
    Set, SetException, Complete, CancelOffFx, PostCancelled
<1>4. \A t \in Tasks : HasThrown(t) => HasThrown(t)'
  BY <1>1, <1>2 DEF WorkerThread, Run, Call, Return, Throw, TestCancelled, PostSucceeded,
    PostFailed, Set, SetException, Complete, CancelOffFx, PostCancelled, At, HasThrown,
    SchedTypes
<1>5. CASE PostFailed(u)
  <2>1. /\ queue' = Append(queue, Runnable("fail", u)) /\ ~HasThrown(u) /\ HasThrown(u)'
        /\ \A t \in Tasks \ {u} : HasThrown(t)' <=> HasThrown(t)
    BY <1>2, <1>5 DEF PostFailed, At, RunLater, HasThrown, SchedTypes
  <2>2. \A x, y : Runnable("fail", x) = Runnable("fail", y) => x = y
    BY DEF Runnable
  <2>3. Elems(queue') = Elems(queue) \union {Runnable("fail", u)}
    BY <1>2, <2>1, ElemsAppend DEF Kinds
  <2>4. \A t \in Tasks : /\ FailPosted(t)' <=> FailPosted(t) \/ t = u
                         /\ FailPending(t)' <=> FailPending(t)
    BY <1>3, <2>2, <2>3 DEF FailPosted, FailPending
  <2>5. ~FailPosted(u) /\ ~FailPending(u)
    BY <1>2, <2>1 DEF FailOnce
  <2>6. FailedTasks' = FailedTasks
    BY <1>2, <2>1, <2>4 DEF FailedTasks
  <2>7. ASSUME NEW t \in Tasks PROVE Single(queue', {Runnable("fail", t)})
    <3>1. \/ Runnable("fail", u) \notin {Runnable("fail", t)}
          \/ Elems(queue) \intersect {Runnable("fail", t)} = {}
      BY <2>5 DEF FailPosted
    <3> QED
      BY <1>2, <2>1, <3>1, SingleAppend DEF FailOnce, Kinds
  <2> QED
    BY <1>2, <1>3, <1>4, <2>1, <2>4, <2>5, <2>6, <2>7 DEF FailOnce, On
<1>6. CASE ~PostFailed(u)
  <2>1. \/ queue' = queue
        \/ \E k \in Kinds \ {"fail"} : queue' = Append(queue, Runnable(k, u))
    BY <1>1, <1>6 DEF WorkerThread, Run, Call, Return, Throw, TestCancelled, PostSucceeded,
      Set, SetException, Complete, CancelOffFx, PostCancelled, RunLater, Kinds
  <2>2. /\ \A t \in Tasks : FailPosted(t)' => FailPosted(t)
        /\ \A t \in Tasks : Single(queue', {Runnable("fail", t)})
    <3>1. CASE queue' = queue
      BY <3>1 DEF FailPosted, FailOnce
    <3>2. ASSUME NEW k \in Kinds \ {"fail"}, queue' = Append(queue, Runnable(k, u))
          PROVE  /\ \A t \in Tasks : FailPosted(t)' => FailPosted(t)
                 /\ \A t \in Tasks : Single(queue', {Runnable("fail", t)})
      <4>1. Elems(queue') = Elems(queue) \union {Runnable(k, u)}
        BY <1>2, <3>2, ElemsAppend
      <4>2. \A t : Runnable(k, u) # Runnable("fail", t)
        BY DEF Runnable
      <4>3. ASSUME NEW t \in Tasks PROVE Single(queue', {Runnable("fail", t)})
        <5>1. Single(queue, {Runnable("fail", t)})
          BY DEF FailOnce
        <5> QED
          BY <1>2, <3>2, <4>2, <5>1, SingleAppend
      <4> QED
        BY <4>1, <4>2, <4>3 DEF FailPosted
    <3> QED
      BY <2>1, <3>1, <3>2
  <2>3. Single(stack', FailTokens) /\ Elems(stack') \intersect FailTokens \subseteq Elems(stack)
    BY <1>3 DEF FailOnce
  <2> QED
    BY <1>2, <1>4, <2>2, <2>3, FailQuiet
<1> QED
  BY <1>5, <1>6

LEMMA FailCalls ==
  ASSUME SchedTypes, SchedTypes', FailOnce, UNCHANGED schedVars,
         Start \/ Reset \/ Restart \/ CancelAnd(<<SvcOp("stop")>>)
  PROVE  FailOnce'
<1>1. pc' = pc /\ queue' = queue /\ failures' = failures
  BY SchedCalls DEF schedVars
<1>2. PICK ops \in Seq(EveryOp) : SchedPushed(ops) /\ stack' = ops \o stack
  BY SchedCalls
<1>3. Elems(ops) \intersect FailTokens = {}
  <2>1. /\ \A a : Elems(<<a>>) = {a}
        /\ \A a, b : Elems(<<a, b>>) = {a, b}
        /\ \A a, b, c : Elems(<<a, b, c>>) = {a, b, c}
    <3>1. \A a : Elems(<<a>>) = {a}
      BY ElemsOne
    <3>2. \A a, b : Elems(<<a, b>>) = {a, b}
      BY ElemsTwo
    <3>3. \A a, b, c : Elems(<<a, b, c>>) = {a, b, c}
      BY ElemsThree
    <3> QED
      BY <3>1, <3>2, <3>3
  <2>2. cur # NoTask => cur \in Tasks
    BY DEF SchedTypes, SvcTypeOK
  <2> QED
    BY <1>2, <2>1, <2>2, FailTokensFacts DEF SchedPushed, SchedOpNames, SvcOpNames
<1>4. Single(stack', FailTokens) /\ Elems(stack') \intersect FailTokens \subseteq Elems(stack)
  BY <1>2, <1>3, FailPush
<1>5. \A t \in Tasks : /\ HasThrown(t) => HasThrown(t)'
                       /\ FailPosted(t)' => FailPosted(t)
                       /\ Single(queue', {Runnable("fail", t)})
  BY <1>1 DEF HasThrown, FailPosted, FailOnce
<1> QED
  BY <1>1, <1>4, <1>5, FailQuiet

(* What the parts of the methods put on the stack. *)
NextParts ==
  {SvcOp(name) : name \in {"unwire", "freshen", "start", "execute", "cancelFromReady", "cancelled"}}
    \union {SetState(t, "SCHEDULED") : t \in Tasks}

LEMMA NextPartsFacts ==
  /\ NextParts \subseteq EveryOp
  /\ NextParts \intersect FailTokens = {}
<1>1. NextParts \subseteq EveryOp
  BY EveryOpTyped DEF NextParts, SchedOpNames, SvcOpNames, State
<1>2. NextParts \intersect FailTokens = {}
  BY FailTokensFacts DEF NextParts, SchedOpNames, SvcOpNames
<1> QED
  BY <1>1, <1>2

LEMMA ResetOps ==
  ASSUME NEW then \in Seq(NextParts), ResetThen(then)
  PROVE  \E ops \in Seq(NextParts) : stack' = ops \o Tail(stack)
<1>1. SvcOp("unwire") \in NextParts
  BY DEF NextParts
<1>2. <<>> \in Seq(NextParts) /\ <<SvcOp("unwire")>> \o then \in Seq(NextParts)
  BY <1>1
<1> QED
  BY <1>2 DEF ResetThen, Pop

LEMMA PartOps ==
  ASSUME SchedTypes,
         \/ DoResetAnd(<<SvcOp("freshen")>>) \/ DoUnwire \/ DoStart \/ DoDrop \/ DoScheduled
         \/ DoExecuteTask \/ DoDelayed \/ DoSucceeded \/ DoFailed \/ DoCancelFromReady
         \/ DoFreshen \/ DoStop
  PROVE  \/ stack # <<>> /\ stack' = <<>> /\ DoScheduled /\ cur = NoTask
         \/ stack # <<>> /\ \E ops \in Seq(NextParts) : stack' = ops \o Tail(stack)
<1>1. /\ \A name \in {"unwire", "freshen", "start", "execute", "cancelFromReady", "cancelled"} :
           SvcOp(name) \in NextParts
      /\ \A t \in Tasks : SetState(t, "SCHEDULED") \in NextParts
  BY DEF NextParts
<1>2. /\ <<>> \in Seq(NextParts) /\ <<SvcOp("start")>> \in Seq(NextParts)
      /\ <<SvcOp("freshen")>> \in Seq(NextParts)
      /\ <<SvcOp("freshen")>> \o <<SvcOp("start")>> \in Seq(NextParts)
      /\ <<SvcOp("cancelFromReady"), SvcOp("cancelled")>> \in Seq(NextParts)
      /\ \A t \in Tasks : /\ <<SetState(t, "SCHEDULED"), SvcOp("execute")>> \in Seq(NextParts)
                          /\ <<SetState(t, "SCHEDULED")>> \in Seq(NextParts)
  BY <1>1
<1>3. stack # <<>>
  BY DEF DoResetAnd, DoUnwire, DoStart, DoDrop, DoScheduled, DoExecuteTask, DoDelayed,
    DoSucceeded, DoFailed, DoCancelFromReady, DoFreshen, DoStop, Top
<1>4. CASE DoResetAnd(<<SvcOp("freshen")>>)
  BY <1>2, <1>3, <1>4, ResetOps DEF DoResetAnd
<1>5. CASE DoSucceeded
  BY <1>2, <1>3, <1>5, ResetOps DEF DoSucceeded, SucceededThen
<1>6. CASE DoFailed
  BY <1>2, <1>3, <1>6, ResetOps DEF DoFailed, Pop
<1>7. CASE DoScheduled
  <2>1. cur # NoTask => cur \in Tasks
    BY DEF SchedTypes, SvcTypeOK
  <2> QED
    BY <1>2, <1>3, <1>7, <2>1 DEF DoScheduled
<1>8. CASE DoStart
  BY <1>2, <1>3, <1>8 DEF DoStart, Pop
<1>9. CASE \/ DoUnwire \/ DoDrop \/ DoExecuteTask \/ DoDelayed \/ DoCancelFromReady \/ DoFreshen
           \/ DoStop
  BY <1>2, <1>3, <1>9
  DEF DoUnwire, DoDrop, DoExecuteTask, DoDelayed, DoCancelFromReady, DoFreshen, DoStop, Pop
<1> QED
  BY <1>4, <1>5, <1>6, <1>7, <1>8, <1>9

LEMMA FailParts ==
  ASSUME SchedTypes, SchedTypes', FailOnce,
         \/ /\ \/ DoResetAnd(<<SvcOp("freshen")>>) \/ DoUnwire \/ DoStart \/ DoDrop \/ DoScheduled
            /\ UNCHANGED schedVars
         \/ DoExecuteTask \/ DoDelayed \/ DoSucceeded \/ DoFailed \/ DoCancelFromReady
         \/ DoFreshen \/ DoStop
  PROVE  FailOnce'
<1> USE DEF threadVars, fxVars, propVars
<1>1. /\ stack # <<>>
      /\ Single(stack', FailTokens)
      /\ Elems(stack') \intersect FailTokens \subseteq Elems(stack)
      /\ Head(stack) \in FailTokens => Elems(stack') \intersect FailTokens = {}
  <2>1. CASE stack # <<>> /\ stack' = <<>>
    <3>1. Elems(stack') = {}
      BY <2>1, ElemsOne
    <3> QED
      BY <2>1, <3>1, SingleNone
  <2>2. ASSUME stack # <<>>, NEW ops \in Seq(NextParts), stack' = ops \o Tail(stack)
        PROVE  /\ stack # <<>>
               /\ Single(stack', FailTokens)
               /\ Elems(stack') \intersect FailTokens \subseteq Elems(stack)
               /\ Head(stack) \in FailTokens => Elems(stack') \intersect FailTokens = {}
    <3>1. ops \in Seq(EveryOp)
      BY NextPartsFacts
    <3>2. Elems(ops) \subseteq NextParts
      BY DEF Elems
    <3> QED
      BY <2>2, <3>1, <3>2, NextPartsFacts, FailPop
  <2> QED
    BY <2>1, <2>2, PartOps
<1>2. UNCHANGED queue /\ \A t \in Tasks : HasThrown(t)' <=> HasThrown(t)
  <2>1. queue' = queue
    BY DEF DoResetAnd, DoUnwire, DoStart, DoDrop, DoScheduled, DoExecuteTask, DoDelayed,
      DoSucceeded, DoFailed, DoCancelFromReady, DoFreshen, DoStop
  <2>2. \/ pc' = pc \/ (\E t : Executable(t) /\ pc' = [pc EXCEPT ![t] = "submitted"])
    BY DEF DoResetAnd, DoUnwire, DoStart, DoDrop, DoScheduled, DoExecuteTask, DoDelayed,
      DoSucceeded, DoFailed, DoCancelFromReady, DoFreshen, DoStop, ExecuteTaskNow
  <2> QED
    BY <2>1, <2>2 DEF HasThrown, Executable, SchedTypes
<1>3. \A t \in Tasks : FailPosted(t)' <=> FailPosted(t)
  BY <1>2 DEF FailPosted
<1>4. \A t \in Tasks : Single(queue', {Runnable("fail", t)})
  BY <1>2 DEF FailOnce
<1>5. CASE DoFailed
  <2>1. Head(stack) = SvcOp("failed") /\ SvcOp("failed") \in Elems(stack) /\ failures' = failures + 1
    BY <1>5, SchedHeadNamed DEF DoFailed, SchedOpNames
  <2>2. On("failed") /\ ~On("failed")'
    BY <1>1, <2>1, FailTokensFacts DEF On
  <2>3. \A t \in Tasks : ~FailPending(t)' /\ ~FailPending(t)
    <3>1. Elems(stack') \intersect FailTokens = {}
      BY <1>1, <2>1, FailTokensFacts
    <3>2. ASSUME NEW t \in Tasks, FailPending(t) PROVE FALSE
      <4>1. SetState(t, "FAILED") # SvcOp("failed")
        BY DEF SetState, SvcOp, Op
      <4>2. PICK i \in 1..Len(stack), j \in 1..Len(stack) :
              stack[i] = SvcOp("failed") /\ stack[j] = SetState(t, "FAILED")
        BY <2>1, <3>2 DEF FailPending, Elems
      <4> QED
        BY <4>1, <4>2, FailTokensFacts DEF FailOnce, Single
    <3> QED
      BY <3>1, <3>2, FailTokensFacts DEF FailPending
  <2>4. FailedTasks' = FailedTasks
    BY <1>2, <1>3, <2>3 DEF FailedTasks
  <2>5. failures' + 0 <= Cardinality(FailedTasks')
    BY <2>1, <2>2, <2>4 DEF FailOnce, SchedTypes, TimerTypes
  <2> QED
    BY <1>1, <1>2, <1>3, <1>4, <2>2, <2>3, <2>5 DEF FailOnce
<1>6. CASE ~DoFailed
  <2>1. failures' \in {failures, 0}
    BY <1>6 DEF DoExecuteTask, DoDelayed, DoSucceeded, DoCancelFromReady, DoFreshen, DoStop,
      schedVars
  <2> QED
    BY <1>1, <1>2, <1>3, <1>4, <2>1, FailQuiet
<1> QED
  BY <1>5, <1>6

(* Dispatching r takes the failure of r.task from the queue to the stack. *)
LEMMA FailDispatch ==
  ASSUME SchedTypes, SchedTypes', FailOnce, UNCHANGED schedVars,
         DispatchAs(SchedBody(Head(queue)))
  PROVE  FailOnce'
<1> USE DEF threadVars, fxVars, propVars
<1> DEFINE r == Head(queue)
<1>1. /\ queue # <<>> /\ stack = <<>> /\ stack' = SchedBody(r) /\ queue' = Tail(queue)
      /\ pc' = pc /\ failures' = failures
  BY DEF DispatchAs, schedVars
<1>2. /\ queue \in Seq(EveryRunnable) /\ r \in EveryRunnable
      /\ Elems(queue) = {r} \union Elems(Tail(queue))
      /\ SchedBody(r) \in Seq(EveryOp)
  <2>1. queue \in Seq(EveryRunnable)
    BY DEF SchedTypes, QueueTypes
  <2> QED
    BY <1>1, <2>1, ElemsTail, SchedBodyTyped
<1>3. /\ \A t \in Tasks : Single(queue', {Runnable("fail", t)})
      /\ \A t \in Tasks : r = Runnable("fail", t) => Runnable("fail", t) \notin Elems(queue')
  <2> SUFFICES ASSUME NEW t \in Tasks
               PROVE  /\ Single(queue', {Runnable("fail", t)})
                      /\ r = Runnable("fail", t) => Runnable("fail", t) \notin Elems(queue')
    OBVIOUS
  <2>1. Single(queue, {Runnable("fail", t)})
    BY DEF FailOnce
  <2> QED
    BY <1>1, <1>2, <2>1, SingleTail
<1>4. \A t \in Tasks : FailPosted(t)' => FailPosted(t)
  BY <1>1, <1>2 DEF FailPosted
<1>5. Elems(stack) = {}
  BY <1>1, ElemsOne
<1>6. CASE r.kind # "fail"
  <2>1. Elems(stack') \intersect FailTokens = {}
    <3>1. CASE r.kind = "delayed"
      BY <1>1, <1>2, <3>1, SchedBodyTyped, ElemsOne, FailTokensFacts
    <3>2. CASE r.kind = "scheduled"
      BY <1>1, <1>2, <3>2, SchedBodyTyped, ElemsTwo, FailTokensFacts DEF SchedOpNames, SvcOpNames
    <3>3. CASE r.kind \in Kinds
      <4>1. stack' = Body(r) /\ r.task \in Tasks
        BY <1>1, <1>2, <3>3, SchedBodyTyped DEF Runnables
      <4>2. CASE r.kind = "start"
        BY <4>1, <4>2, ElemsTwo, FailTokensFacts DEF Body, StartBody
      <4>3. CASE r.kind = "succeed"
        BY <4>1, <4>3, ElemsTwo, FailTokensFacts DEF Body, SucceedBody, OpNames
      <4>4. CASE r.kind = "cancel"
        BY <4>1, <4>4, ElemsOne, FailTokensFacts DEF Body, CancelBody
      <4> QED
        BY <1>6, <3>3, <4>2, <4>3, <4>4 DEF Kinds
    <3> QED
      BY <1>2, <3>1, <3>2, <3>3, SchedBodyTyped
  <2>2. Single(stack', FailTokens)
    BY <2>1, SingleNone
  <2> QED
    BY <1>1, <1>3, <1>4, <2>1, <2>2, FailQuiet DEF HasThrown
<1>7. CASE r.kind = "fail"
  <2>1. PICK u \in Tasks :
          /\ r = Runnable("fail", u)
          /\ stack' = <<Op("exception", u, "FAILED"), SetState(u, "FAILED")>>
    <3>1. r \in Runnables /\ stack' = Body(r)
      BY <1>1, <1>2, <1>7, SchedBodyTyped DEF Kinds
    <3> QED
      BY <1>7, <3>1 DEF Runnables, Runnable, Body, FailBody
  <2>2. Elems(stack') = {Op("exception", u, "FAILED"), SetState(u, "FAILED")}
    BY <2>1, ElemsTwo
  <2>3. Single(stack', FailTokens)
    <3>1. /\ Len(stack') = 2 /\ stack'[1] = Op("exception", u, "FAILED")
          /\ stack'[1] \notin FailTokens
      BY <2>1, FailTokensFacts DEF OpNames
    <3>2. \A i \in 1..Len(stack') : stack'[i] \in FailTokens => i = 2
      BY <3>1
    <3> QED
      BY <3>2 DEF Single
  <2>4. \A t \in Tasks : FailPending(t)' <=> t = u
    <3>1. \A t \in Tasks : SetState(t, "FAILED") \in Elems(stack') <=> t = u
      BY <2>1, <2>2 DEF SetState, Op
    <3> QED
      BY <3>1 DEF FailPending
  <2>5. ~On("failed")' /\ ~On("failed")
    <3>1. SvcOp("failed") \notin Elems(stack')
      BY <2>2 DEF SvcOp, SetState, Op
    <3> QED
      BY <1>5, <3>1 DEF On
  <2>6. FailPosted(u) /\ HasThrown(u)
    BY <1>2, <2>1 DEF FailOnce, FailPosted
  <2>7. \A t \in Tasks \ {u} : FailPosted(t)' <=> FailPosted(t)
    BY <1>1, <1>2, <2>1 DEF FailPosted, Runnable
  <2>8. ~FailPosted(u)' /\ \A t \in Tasks : ~FailPending(t)
    BY <1>3, <1>5, <2>1 DEF FailPosted, FailPending
  <2>9. FailedTasks' = FailedTasks
    BY <1>1, <2>1, <2>4, <2>6, <2>7, <2>8 DEF FailedTasks, HasThrown
  <2>10. \A t \in Tasks : /\ FailPosted(t)' => ~FailPending(t)'
                          /\ FailPosted(t)' \/ FailPending(t)' => HasThrown(t)'
    BY <1>1, <1>4, <2>4, <2>6, <2>8 DEF FailOnce, HasThrown
  <2> QED
    BY <1>1, <1>3, <2>3, <2>5, <2>9, <2>10 DEF FailOnce
<1> QED
  BY <1>6, <1>7

(* The hook of FAILED takes the place of the setState. *)
LEMMA FailSetState ==
  ASSUME SchedTypes, SchedTypes', FailOnce, UNCHANGED schedVars, DoSetStateAndHook
  PROVE  FailOnce'
<1> USE DEF threadVars, fxVars, propVars
<1> DEFINE t == Head(stack).task
           s == Head(stack).st
           rest == <<Op("running", t, s), Op("fire", t, s)>>
           hook == Hook(t, s)
<1>1. /\ stack # <<>> /\ t \in Tasks /\ s \in State \ {"READY"} /\ Head(stack) = SetState(t, s)
      /\ pc' = pc /\ queue' = queue /\ failures' = failures
  <2>1. /\ stack # <<>> /\ Head(stack).op = "setState"
        /\ pc' = pc /\ queue' = queue /\ failures' = failures
    BY DEF DoSetStateAndHook, DoSetStateThen, Top, schedVars
  <2>2. Head(stack) \in Ops /\ t \in Tasks /\ s \in State \ {"READY"}
    BY <2>1, SchedHead DEF OpNames
  <2> QED
    BY <2>1, <2>2 DEF Ops, SetState, Op
<1>2. stack' \in {<<>> \o Tail(stack), rest \o Tail(stack), (hook \o rest) \o Tail(stack)}
  BY DEF DoSetStateAndHook, DoSetStateThen, Pop
<1>3. /\ rest \in Seq(EveryOp) /\ <<>> \in Seq(EveryOp) /\ Tail(stack) \in Seq(EveryOp)
      /\ Elems(rest) \intersect FailTokens = {} /\ Elems(<<>>) \intersect FailTokens = {}
      /\ Elems(stack) = {Head(stack)} \union Elems(Tail(stack))
      /\ stack \in Seq(EveryOp)
  <2>1. rest \in Seq(EveryOp) /\ <<>> \in Seq(EveryOp)
    BY <1>1, EveryOpTyped DEF OpNames
  <2>2. Elems(rest) \intersect FailTokens = {}
    BY ElemsTwo, FailTokensFacts DEF OpNames
  <2> QED
    BY <1>1, <2>1, <2>2, ElemsOne, SchedHead DEF SchedTypes, StackTypes
<1>4. /\ hook = <<>> \/ hook = <<SvcOp("succeeded")>> \/ (s = "FAILED" /\ hook = <<SvcOp("failed")>>)
      /\ hook = <<SvcOp("failed")>> => s = "FAILED"
  <2>1. <<SvcOp("failed")>> # <<SvcOp("succeeded")>> /\ <<SvcOp("failed")>> # <<>>
    <3>1. SvcOp("failed") # SvcOp("succeeded")
      BY DEF SvcOp, Op
    <3>2. <<SvcOp("failed")>>[1] = SvcOp("failed") /\ <<SvcOp("succeeded")>>[1] = SvcOp("succeeded")
      OBVIOUS
    <3> QED
      BY <3>1, <3>2
  <2> QED
    BY <2>1 DEF Hook
<1> HIDE DEF hook, rest
<1>5. \A x \in Tasks : /\ HasThrown(x)' <=> HasThrown(x)
                       /\ FailPosted(x)' <=> FailPosted(x)
                       /\ Single(queue', {Runnable("fail", x)})
  BY <1>1 DEF HasThrown, FailPosted, FailOnce
<1>6. CASE \/ stack' = <<>> \o Tail(stack) \/ stack' = rest \o Tail(stack)
           \/ hook # <<SvcOp("failed")>>
  <2>1. \E ops \in Seq(EveryOp) : stack' = ops \o Tail(stack) /\ Elems(ops) \intersect FailTokens = {}
    <3>1. CASE stack' = <<>> \o Tail(stack) \/ stack' = rest \o Tail(stack)
      BY <1>3, <3>1
    <3>2. CASE hook # <<SvcOp("failed")>> /\ stack' = (hook \o rest) \o Tail(stack)
      <4>1. hook \in Seq(EveryOp) /\ Elems(hook) \intersect FailTokens = {}
        <5>1. CASE hook = <<>>
          BY <1>3, <5>1
        <5>2. CASE hook = <<SvcOp("succeeded")>>
          <6>1. SvcOp("succeeded") \in EveryOp /\ SvcOp("succeeded") \notin FailTokens
            BY EveryOpTyped, FailTokensFacts DEF SchedOpNames
          <6>2. <<SvcOp("succeeded")>> \in Seq(EveryOp)
            BY <6>1
          <6> QED
            BY <5>2, <6>1, <6>2, ElemsOne
        <5> QED
          BY <1>4, <3>2, <5>1, <5>2
      <4>2. hook \o rest \in Seq(EveryOp) /\ Elems(hook \o rest) = Elems(hook) \union Elems(rest)
        BY <1>3, <4>1, ElemsConcat
      <4> QED
        BY <1>3, <3>2, <4>1, <4>2
    <3> QED
      BY <1>2, <1>6, <3>1, <3>2
  <2>2. Single(stack', FailTokens) /\ Elems(stack') \intersect FailTokens \subseteq Elems(stack)
    BY <1>1, <2>1, FailPop
  <2> QED
    BY <1>1, <1>5, <2>2, FailQuiet
<1>7. CASE s = "FAILED" /\ hook = <<SvcOp("failed")>> /\ stack' = (hook \o rest) \o Tail(stack)
  <2>1. hook \in Seq(EveryOp) /\ Elems(hook) = {SvcOp("failed")} /\ Len(hook) = 1
    BY <1>7, ElemsOne, EveryOpTyped DEF SchedOpNames
  <2>2. hook \o rest \in Seq(EveryOp) /\ Elems(hook \o rest) = {SvcOp("failed")} \union Elems(rest)
    BY <1>3, <2>1, ElemsConcat
  <2>3. Elems(stack') = {SvcOp("failed")} \union Elems(rest) \union Elems(Tail(stack))
    <3> DEFINE ops == hook \o rest
    <3>1. ops \in Seq(EveryOp) /\ Elems(ops) = {SvcOp("failed")} \union Elems(rest)
          /\ stack' = ops \o Tail(stack)
      BY <1>7, <2>2
    <3> HIDE DEF ops
    <3>2. Elems(ops \o Tail(stack)) = Elems(ops) \union Elems(Tail(stack))
      <4>1. ops \in Seq(EveryOp) /\ Tail(stack) \in Seq(EveryOp)
        BY <1>3, <3>1
      <4> QED
        BY <4>1, ElemsConcat
    <3> QED
      BY <3>1, <3>2
  <2>4. /\ Single(Tail(stack), FailTokens)
        /\ Elems(Tail(stack)) \intersect FailTokens = {}
    BY <1>1, <1>3, <1>7, SingleTail, FailTokensFacts DEF FailOnce
  <2>5. Single(stack', FailTokens)
    <3>1. Single(hook, FailTokens)
      BY <2>1 DEF Single
    <3>2. Single(rest, FailTokens)
      BY <1>3, SingleNone
    <3>3. Single(hook \o rest, FailTokens)
      BY <1>3, <2>1, <3>1, <3>2, SingleConcat
    <3> QED
      BY <1>3, <1>7, <2>2, <2>4, <3>3, SingleConcat
  <2>6. /\ FailPending(t) /\ On("failed")' /\ ~On("failed")
        /\ \A x \in Tasks : ~FailPending(x)' /\ (FailPending(x) => x = t)
    <3>1. /\ SvcOp("failed") \in FailTokens /\ \A x \in Tasks : SetState(x, "FAILED") \in FailTokens
          /\ \A x \in Tasks : SetState(x, "FAILED") # SvcOp("failed")
          /\ \A x, y \in Tasks : SetState(x, "FAILED") = SetState(y, "FAILED") => x = y
      BY FailTokensFacts DEF SetState, SvcOp, Op
    <3>2. \A x \in Tasks : SetState(x, "FAILED") \notin Elems(stack')
      BY <1>3, <2>3, <2>4, <3>1
    <3>3. SvcOp("failed") \notin Elems(stack) /\ SetState(t, "FAILED") \in Elems(stack)
      BY <1>1, <1>3, <1>7, <2>4, <3>1
    <3> QED
      BY <1>1, <1>3, <1>7, <2>3, <2>4, <3>1, <3>2, <3>3 DEF On, FailPending
  <2>7. HasThrown(t) /\ ~FailPosted(t)
    BY <1>1, <2>6 DEF FailOnce
  <2>8. FailedTasks' = FailedTasks \union {t} /\ t \notin FailedTasks
    BY <1>1, <1>5, <2>6, <2>7 DEF FailedTasks
  <2>9. Cardinality(FailedTasks') = Cardinality(FailedTasks) + 1
    BY <2>8, FailedFinite, FS_AddElement
  <2>10. failures' + 1 <= Cardinality(FailedTasks')
    BY <1>1, <2>6, <2>9, FailedFinite DEF FailOnce, SchedTypes, TimerTypes
  <2>11. \A x \in Tasks : /\ FailPosted(x)' => ~FailPending(x)'
                          /\ FailPosted(x)' \/ FailPending(x)' => HasThrown(x)'
    BY <1>5, <2>6 DEF FailOnce
  <2> QED
    BY <1>5, <2>5, <2>6, <2>10, <2>11 DEF FailOnce
<1> QED
  BY <1>2, <1>4, <1>6, <1>7

LEMMA FailInit == SchedInit => FailOnce
<1> SUFFICES ASSUME SchedInit PROVE FailOnce
  OBVIOUS
<1>1. queue = <<>> /\ stack = <<>> /\ failures = 0
  BY DEF SchedInit, SvcInit, Init
<1>2. Elems(queue) = {} /\ Elems(stack) = {}
  BY <1>1, ElemsOne
<1>3. 0 <= Cardinality(FailedTasks)
  BY FailedFinite
<1> QED
  BY <1>1, <1>2, <1>3, SingleNone DEF FailOnce, FailPosted, FailPending, On

LEMMA FailStep ==
  ASSUME SchedTypes, FailOnce, [SchedNext]_allVars
  PROVE  FailOnce'
<1>1. SchedTypes'
  BY SchedTypesStep
<1>2. CASE UNCHANGED allVars
  BY <1>2 DEF allVars, vars, schedVars, taskVars, threadVars, fxVars, FailOnce, FailPosted,
    FailPending, HasThrown, FailedTasks, On
<1>3. CASE \/ StartOffFx /\ UNCHANGED schedVars
           \/ PostScheduled /\ UNCHANGED schedVars
           \/ \E t \in Tasks : TimerFires(t)
  <2>1. pc' = pc /\ stack' = stack /\ failures' = failures
    BY <1>3 DEF StartOffFx, PostScheduled, TimerFires, taskVars, threadVars, fxVars, schedVars
  <2>2. queue' = queue \/ \E t \in Tasks \union {NoTask}, k \in {"delayed", "scheduled"} :
                            /\ Runnable(k, t) \in EveryRunnable
                            /\ queue' = Append(queue, Runnable(k, t))
    <3>1. CASE StartOffFx
      BY <3>1 DEF StartOffFx, taskVars, fxVars
    <3>2. CASE PostScheduled
      BY <3>2 DEF PostScheduled, RunLater, EveryRunnable, AllRunnables, PostedStart
    <3>3. CASE \E t \in Tasks : TimerFires(t)
      BY <3>3 DEF TimerFires, RunLater, EveryRunnable, Delayed
    <3> QED
      BY <1>3, <3>1, <3>2, <3>3
  <2>3. /\ \A t \in Tasks : FailPosted(t)' => FailPosted(t)
        /\ \A t \in Tasks : Single(queue', {Runnable("fail", t)})
    <3>1. CASE queue' = queue
      BY <3>1 DEF FailPosted, FailOnce
    <3>2. ASSUME NEW r \in EveryRunnable, r.kind # "fail", queue' = Append(queue, r)
          PROVE  /\ \A t \in Tasks : FailPosted(t)' => FailPosted(t)
                 /\ \A t \in Tasks : Single(queue', {Runnable("fail", t)})
      <4>1. queue \in Seq(EveryRunnable) /\ Elems(queue') = Elems(queue) \union {r}
        BY <3>2, ElemsAppend DEF SchedTypes, QueueTypes
      <4>2. \A t : Runnable("fail", t) # r
        BY <3>2 DEF Runnable
      <4>3. ASSUME NEW t \in Tasks PROVE Single(queue', {Runnable("fail", t)})
        <5>1. Single(queue, {Runnable("fail", t)})
          BY DEF FailOnce
        <5> QED
          BY <3>2, <4>1, <4>2, <5>1, SingleAppend
      <4> QED
        BY <4>1, <4>2, <4>3 DEF FailPosted
    <3>3. \A t, k : Runnable(k, t).kind = k
      BY DEF Runnable
    <3> QED
      BY <2>2, <3>1, <3>2, <3>3
  <2> QED
    BY <1>1, <2>1, <2>3, FailQuiet DEF HasThrown, FailOnce
<1>4. CASE SchedFxThread
  <2>1. CASE CommonFxThread /\ UNCHANGED schedVars
    <3>1. CASE DoSetRunning \/ DoFire \/ DoSetValue \/ DoSetException
      <4>1. /\ stack # <<>> /\ stack' = <<>> \o Tail(stack) /\ pc' = pc /\ queue' = queue
            /\ failures' = failures
        BY <2>1, <3>1
        DEF DoSetRunning, DoFire, DoSetValue, DoSetException, Top, Pop, threadVars, schedVars
      <4>2. <<>> \in Seq(EveryOp) /\ Elems(<<>>) = {}
        <5>1. <<>> \in Seq(EveryOp)
          OBVIOUS
        <5> QED
          BY <5>1, ElemsOne
      <4>3. /\ Single(stack', FailTokens)
            /\ Elems(stack') \intersect FailTokens \subseteq Elems(stack)
        BY <4>1, <4>2, FailPop
      <4>4. \A x \in Tasks : /\ FailPosted(x)' => FailPosted(x)
                             /\ Single(queue', {Runnable("fail", x)})
        BY <4>1 DEF FailPosted, FailOnce
      <4> QED
        BY <1>1, <4>1, <4>3, <4>4, FailQuiet DEF HasThrown
    <3> QED
      BY <1>1, <2>1, <3>1, FailParts DEF CommonFxThread
  <2>2. CASE /\ DispatchAs(SchedBody(Head(queue))) \/ DoSetStateAndHook
             /\ UNCHANGED <<svcVars, schedVars>>
    BY <1>1, <2>2, FailDispatch, FailSetState
  <2> QED
    BY <1>1, <1>4, <2>1, <2>2, FailParts DEF SchedFxThread
<1> QED
  BY <1>1, <1>2, <1>3, <1>4, FailThread, FailCalls DEF SchedNext

(* The fields of a scheduled service have the types the code gives them,   *)
(* whatever user code calls when; the count of failures is at most the     *)
(* number of tasks, no task is counted twice.                              *)
THEOREM SchedTypeCorrect == SchedSpec => []SchedTypeOK
<1>1. SchedTypes /\ FailOnce => SchedTypeOK
  <2> SUFFICES ASSUME SchedTypes, FailOnce PROVE SchedTypeOK
    OBVIOUS
  <2>1. failures \in 0..Cardinality(Tasks)
    <3>1. failures <= Cardinality(FailedTasks)
      BY FailedFinite DEF FailOnce, SchedTypes, TimerTypes
    <3> QED
      BY <3>1, FailedFinite, ScheduledAssumption, FS_CardinalityType DEF SchedTypes, TimerTypes
  <2> QED
    BY <2>1 DEF SchedTypes, TimerTypes, StackTypes, SchedTypeOK, EveryOp, SchedOps, DelayedOps
<1>2. FailOnce /\ SchedTypes /\ [SchedNext]_allVars => FailOnce'
  BY FailStep
<1> QED
  BY <1>1, <1>2, FailInit, SchedTyped, PTL DEF SchedSpec

-----------------------------------------------------------------------------
(* A task that waits for its delay.                                        *)

(* Above a member of B there are only members of A. *)
Ordered(s, A, B) == \A i, j \in 1..Len(s) : i < j /\ s[j] \in B => s[i] \in A

LEMMA OrderedTail ==
  ASSUME NEW S, NEW s \in Seq(S), s # <<>>, NEW A, NEW B, Ordered(s, A, B)
  PROVE  /\ Ordered(Tail(s), A, B)
         /\ Head(s) \notin A => Elems(Tail(s)) \intersect B = {}
<1>1. /\ Len(s) \in Nat \ {0} /\ Head(s) = s[1]
      /\ \A i \in 1..Len(Tail(s)) : Tail(s)[i] = s[i + 1] /\ i + 1 \in 2..Len(s)
      /\ Len(Tail(s)) \in Nat
  BY TailIndex
<1>2. Ordered(Tail(s), A, B)
  <2> SUFFICES ASSUME NEW i \in 1..Len(Tail(s)), NEW j \in 1..Len(Tail(s)), i < j,
                      Tail(s)[j] \in B
               PROVE  Tail(s)[i] \in A
    BY DEF Ordered
  <2>1. i + 1 \in 1..Len(s) /\ j + 1 \in 1..Len(s) /\ i + 1 < j + 1 /\ s[j + 1] \in B
    BY <1>1
  <2>2. s[i + 1] \in A
    BY <2>1 DEF Ordered
  <2> QED
    BY <1>1, <2>2
<1>3. ASSUME NEW i \in 1..Len(Tail(s)), Tail(s)[i] \in B
      PROVE  Head(s) \in A
  <2>1. 1 \in 1..Len(s) /\ i + 1 \in 1..Len(s) /\ 1 < i + 1 /\ s[i + 1] \in B
    BY <1>1, <1>3
  <2> QED
    BY <1>1, <2>1 DEF Ordered
<1> QED
  BY <1>2, <1>3 DEF Elems

LEMMA OrderedConcat ==
  ASSUME NEW S, NEW a \in Seq(S), NEW b \in Seq(S), NEW A, NEW B,
         Ordered(a, A, B), Ordered(b, A, B),
         Elems(a) \subseteq A \/ Elems(b) \intersect B = {}
  PROVE  Ordered(a \o b, A, B)
<1> DEFINE r == a \o b
<1>1. /\ Len(a) \in Nat /\ Len(b) \in Nat /\ Len(r) = Len(a) + Len(b)
      /\ \A i \in 1..Len(a) : r[i] = a[i]
      /\ \A i \in 1..Len(r) : i > Len(a) => i - Len(a) \in 1..Len(b) /\ r[i] = b[i - Len(a)]
  OBVIOUS
<1> HIDE DEF r
<1> SUFFICES ASSUME NEW i \in 1..Len(r), NEW j \in 1..Len(r), i < j, r[j] \in B
             PROVE  r[i] \in A
  BY DEF Ordered, r
<1>2. CASE j <= Len(a)
  <2>1. i \in 1..Len(a) /\ j \in 1..Len(a) /\ a[j] \in B
    BY <1>1, <1>2
  <2>2. a[i] \in A
    BY <2>1 DEF Ordered
  <2> QED
    BY <1>1, <2>1, <2>2
<1>3. CASE i > Len(a)
  <2>1. i - Len(a) \in 1..Len(b) /\ j - Len(a) \in 1..Len(b)
        /\ i - Len(a) < j - Len(a) /\ b[j - Len(a)] \in B
    BY <1>1, <1>3
  <2>2. b[i - Len(a)] \in A
    BY <2>1 DEF Ordered
  <2> QED
    BY <1>1, <1>3, <2>2
<1>4. CASE i <= Len(a) /\ j > Len(a)
  <2>1. i \in 1..Len(a) /\ r[i] = a[i]
    BY <1>1, <1>4
  <2>2. j - Len(a) \in 1..Len(b) /\ b[j - Len(a)] \in B
    BY <1>1, <1>4
  <2> QED
    BY <2>1, <2>2 DEF Elems
<1> QED
  BY <1>1, <1>2, <1>3, <1>4

LEMMA OrderedTrivial ==
  ASSUME NEW s, NEW A, NEW B, Elems(s) \subseteq A \/ Elems(s) \intersect B = {}
  PROVE  Ordered(s, A, B)
  BY DEF Ordered, Elems

(* What a cancel() may still be doing: the task is told, then the service. *)
StopOp == SvcOp("stop")
QuietOps ==
  {o \in Ops : o.op \in {"running", "fire"} \/ (o.op = "setState" /\ o.st = "CANCELLED")}
    \union {StopOp}

StopAbove == Ordered(stack, QuietOps, {StopOp})

(* cancel() has dealt with the current task before it stops the service. *)
StopDone == On("stop") => cur = NoTask \/ fut[cur] # "NEW"

(* The current task that was not executed yet is going to be. *)
Armed ==
  cur # NoTask /\ fut[cur] = "NEW" /\ pc[cur] = "new" =>
    \/ starting \/ PostedStart \in Elems(queue)
    \/ On("execute")
    \/ Op("delayed", cur, "READY") \in Elems(stack)
    \/ timer[cur] = "armed"
    \/ Runnable("delayed", cur) \in Elems(queue)

StopInv == StopAbove /\ StopDone /\ Armed

LEMMA SchedPending ==
  ASSUME SchedTypes
  PROVE  StartPending <=> starting \/ PostedStart \in Elems(queue)
<1>1. queue \in Seq(EveryRunnable) /\ DOMAIN queue = 1..Len(queue)
  BY DEF SchedTypes, QueueTypes
<1>2. \A i \in 1..Len(queue) : queue[i].kind = "scheduled" <=> queue[i] = PostedStart
  <2> TAKE i \in 1..Len(queue)
  <2>1. queue[i] \in EveryRunnable
    BY <1>1
  <2>2. PostedStart.kind = "scheduled"
    BY DEF PostedStart, Runnable
  <2>3. \A r \in EveryRunnable : r.kind = "scheduled" => r = PostedStart
    BY SchedBodyTyped
  <2> QED
    BY <2>1, <2>2, <2>3
<1> QED
  BY <1>1, <1>2 DEF StartPending, Elems

LEMMA QuietFacts ==
  /\ StopOp \in QuietOps /\ QuietOps \subseteq EveryOp
  /\ \A t \in Tasks, s \in State \ {"READY"} :
       /\ Op("running", t, s) \in QuietOps /\ Op("fire", t, s) \in QuietOps
       /\ SetState(t, "CANCELLED") \in QuietOps
  /\ \A name \in SchedOpNames \ {"stop"} : SvcOp(name) \notin QuietOps
  /\ \A t : Op("delayed", t, "READY") \notin QuietOps
  /\ \A o \in QuietOps : o.op \in {"running", "fire", "setState", "stop"}
  /\ \A o \in QuietOps : o.op = "setState" => o.st = "CANCELLED"
<1>1. /\ \A name : SvcOp(name).op = name
      /\ \A name, t, s : Op(name, t, s).op = name /\ Op(name, t, s).st = s
      /\ \A t, s : SetState(t, s) = Op("setState", t, s)
  BY DEF SvcOp, SetState, Op
<1>2. /\ \A o \in QuietOps : o.op \in {"running", "fire", "setState", "stop"}
      /\ \A o \in QuietOps : o.op = "setState" => o.st = "CANCELLED"
  BY <1>1 DEF QuietOps, StopOp
<1>3. StopOp \in QuietOps /\ QuietOps \subseteq EveryOp
  BY EveryOpTyped DEF QuietOps, StopOp, EveryOp, SchedOpNames
<1>4. \A t \in Tasks, s \in State \ {"READY"} :
        /\ Op("running", t, s) \in QuietOps /\ Op("fire", t, s) \in QuietOps
        /\ SetState(t, "CANCELLED") \in QuietOps
  BY <1>1, EveryOpTyped DEF QuietOps, OpNames, State
<1>5. {"running", "fire", "setState", "stop"} \intersect (SchedOpNames \ {"stop"}) = {}
  BY DEF SchedOpNames, SvcOpNames
<1> QED
  BY <1>1, <1>2, <1>3, <1>4, <1>5

(* The innermost operation gives way to ops: what is above a stop is quiet *)
(* if ops is quiet or there was nothing to stop below it.                  *)
LEMMA StopPop ==
  ASSUME SchedTypes, StopAbove, stack # <<>>, NEW ops \in Seq(EveryOp),
         StopOp \notin Elems(ops), Elems(ops) \subseteq QuietOps \/ Head(stack) \notin QuietOps,
         stack' = ops \o Tail(stack)
  PROVE  /\ StopAbove'
         /\ StopOp \in Elems(stack') => StopOp \in Elems(stack) /\ Head(stack) \in QuietOps
<1>1. stack \in Seq(EveryOp) /\ Tail(stack) \in Seq(EveryOp)
      /\ Elems(stack) = {Head(stack)} \union Elems(Tail(stack))
  BY SchedHead DEF SchedTypes, StackTypes
<1>2. /\ Ordered(Tail(stack), QuietOps, {StopOp})
      /\ Head(stack) \notin QuietOps => Elems(Tail(stack)) \intersect {StopOp} = {}
  BY <1>1, OrderedTail DEF StopAbove
<1>3. Ordered(ops, QuietOps, {StopOp})
  BY OrderedTrivial
<1>4. Ordered(ops \o Tail(stack), QuietOps, {StopOp})
  BY <1>1, <1>2, <1>3, OrderedConcat
<1>5. Elems(ops \o Tail(stack)) = Elems(ops) \union Elems(Tail(stack))
  BY <1>1, ElemsConcat
<1> QED
  BY <1>1, <1>2, <1>4, <1>5 DEF StopAbove

(* Steps that neither replace the current task nor finish an operation     *)
(* that is to execute it.                                                  *)
LEMMA StopFrame ==
  ASSUME SchedTypes, SchedTypes', StopDone, Armed, cur' = cur,
         cur # NoTask /\ fut[cur] # "NEW" => fut'[cur] # "NEW",
         cur # NoTask /\ pc[cur] # "new" => pc'[cur] # "new",
         On("stop")' => On("stop") \/ cur = NoTask \/ fut'[cur] # "NEW",
         starting \/ PostedStart \in Elems(queue) =>
           (starting \/ PostedStart \in Elems(queue))' \/ On("execute")',
         On("execute") => On("execute")',
         cur # NoTask =>
           /\ Op("delayed", cur, "READY") \in Elems(stack) =>
                Op("delayed", cur, "READY") \in Elems(stack') \/ pc'[cur] # "new"
           /\ timer[cur] = "armed" =>
                \/ timer'[cur] = "armed" \/ Runnable("delayed", cur) \in Elems(queue')
                \/ fut'[cur] # "NEW"
           /\ Runnable("delayed", cur) \in Elems(queue) =>
                \/ Runnable("delayed", cur) \in Elems(queue')
                \/ Op("delayed", cur, "READY") \in Elems(stack')
  PROVE  StopDone' /\ Armed'
<1>1. StopDone'
  BY DEF StopDone
<1>2. ASSUME cur # NoTask, fut'[cur] = "NEW", pc'[cur] = "new"
      PROVE  Armed'
  <2>1. \/ starting \/ PostedStart \in Elems(queue)
        \/ On("execute")
        \/ Op("delayed", cur, "READY") \in Elems(stack)
        \/ timer[cur] = "armed"
        \/ Runnable("delayed", cur) \in Elems(queue)
    BY <1>2 DEF Armed
  <2> QED
    BY <1>2, <2>1 DEF Armed
<1>3. Armed' \/ (cur # NoTask /\ fut'[cur] = "NEW" /\ pc'[cur] = "new")
  BY DEF Armed
<1> QED
  BY <1>1, <1>2, <1>3

LEMMA StopThreads ==
  ASSUME SchedTypes, SchedTypes', StopInv, TaskThreads, UNCHANGED schedVars
  PROVE  StopInv'
<1> USE DEF threadVars, fxVars, propVars
<1>1. PICK u \in created :
        WorkerThread(u) \/ Return(u) \/ Throw(u) \/ CancelOffFx(u) \/ PostCancelled(u)
  BY DEF TaskThreads
<1>2. /\ u \in Tasks /\ cur' = cur /\ starting' = starting /\ timer' = timer
      /\ queue \in Seq(EveryRunnable)
      /\ \A k \in Kinds : Runnable(k, u) \in EveryRunnable
  <2>1. u \in Tasks
    BY DEF SchedTypes, SvcTypeOK
  <2> QED
    BY <2>1 DEF TaskThreads, schedVars, svcVars, SchedTypes, QueueTypes, EveryRunnable,
      AllRunnables, Runnables, Runnable
<1>3. stack' = stack
  BY <1>1 DEF WorkerThread, Run, Call, Return, Throw, TestCancelled, PostSucceeded, PostFailed,
    Set, SetException, Complete, CancelOffFx, PostCancelled
<1>4. \A t \in Tasks : /\ fut[t] # "NEW" => fut'[t] # "NEW"
                       /\ pc[t] # "new" => pc'[t] # "new"
  BY <1>1, <1>2 DEF WorkerThread, Run, Call, Return, Throw, TestCancelled, PostSucceeded,
    PostFailed, Set, SetException, Complete, CancelOffFx, PostCancelled, At, FutureCancel,
    SchedTypes
<1>5. Elems(queue) \subseteq Elems(queue')
  <2>1. queue' = queue \/ \E k \in Kinds : queue' = Append(queue, Runnable(k, u))
    BY <1>1 DEF WorkerThread, Run, Call, Return, Throw, TestCancelled, PostSucceeded, PostFailed,
      Set, SetException, Complete, CancelOffFx, PostCancelled, RunLater, Kinds
  <2>2. \A k \in Kinds : Elems(Append(queue, Runnable(k, u))) = Elems(queue) \union {Runnable(k, u)}
    BY <1>2, ElemsAppend
  <2> QED
    BY <2>1, <2>2
<1>6. cur # NoTask => cur \in Tasks
  BY DEF SchedTypes, SvcTypeOK
<1>7. StopAbove'
  BY <1>3 DEF StopInv, StopAbove
<1>8. StopDone' /\ Armed'
  BY <1>2, <1>3, <1>4, <1>5, <1>6, StopFrame DEF StopInv, On
<1> QED
  BY <1>7, <1>8 DEF StopInv

LEMMA CancelOps ==
  ASSUME SchedTypes, CancelAnd(<<StopOp>>)
  PROVE  /\ \E ops \in Seq(QuietOps) : stack' = ops \o stack
         /\ cur = NoTask \/ fut'[cur] # "NEW"
         /\ UNCHANGED <<pc, queue, cur, starting>>
<1>1. <<SetState(cur, "CANCELLED")>> \o <<StopOp>> = <<SetState(cur, "CANCELLED"), StopOp>>
  BY PairConcat
<1>2. cur # NoTask => cur \in Tasks
  BY DEF SchedTypes, SvcTypeOK
<1>3. <<StopOp>> \in Seq(QuietOps)
  BY QuietFacts
<1>4. cur # NoTask => <<SetState(cur, "CANCELLED"), StopOp>> \in Seq(QuietOps)
  BY <1>2, QuietFacts DEF State
<1>5. cur # NoTask /\ FutureCancel(cur) => fut'[cur] # "NEW"
  BY <1>2 DEF FutureCancel, SchedTypes
<1> QED
  BY <1>1, <1>3, <1>4, <1>5 DEF CancelAnd, Invoke, threadVars, propVars

LEMMA StopCalls ==
  ASSUME Reentrant \subseteq {"cancel"}, SchedTypes, SchedTypes', StopInv, UNCHANGED schedVars,
         Start \/ Reset \/ Restart \/ CancelAnd(<<SvcOp("stop")>>)
  PROVE  StopInv'
<1>1. /\ pc' = pc /\ queue' = queue /\ cur' = cur /\ starting' = starting /\ timer' = timer
      /\ cur # NoTask => cur \in Tasks
      /\ stack \in Seq(EveryOp)
  BY SchedCalls DEF schedVars, SchedTypes, SvcTypeOK, StackTypes
<1>2. cur # NoTask /\ fut[cur] # "NEW" => fut'[cur] # "NEW"
  BY <1>1, SchedCalls DEF FutureCancel, SchedTypes
<1>3. CASE CancelAnd(<<StopOp>>)
  <2>1. PICK ops \in Seq(QuietOps) : stack' = ops \o stack
    BY <1>3, CancelOps
  <2>2. ops \in Seq(EveryOp) /\ Elems(ops) \subseteq QuietOps
    BY QuietFacts DEF Elems
  <2>3. Elems(stack') = Elems(ops) \union Elems(stack)
    BY <1>1, <2>1, <2>2, ElemsConcat
  <2>4. Ordered(ops, QuietOps, {StopOp})
    BY <2>2, OrderedTrivial
  <2>5. StopAbove'
    BY <1>1, <2>1, <2>2, <2>4, OrderedConcat DEF StopInv, StopAbove
  <2>6. StopDone' /\ Armed'
    BY <1>1, <1>2, <1>3, <2>3, CancelOps, StopFrame DEF StopInv, On
  <2> QED
    BY <2>5, <2>6 DEF StopInv
<1>4. CASE ~CancelAnd(<<StopOp>>)
  <2>1. stack = <<>>
    BY <1>4 DEF Start, Reset, Restart, MayRenew, MayCall, StopOp
  <2>2. PICK ops : /\ stack' = ops \o stack
                   /\ ops \in {<<SvcOp("start")>>, <<SvcOp("reset")>>, <<SvcOp("resetStart")>>,
                               <<SvcOp("drop"), SvcOp("resetStart")>>,
                               <<SetState(cur, "CANCELLED"), SvcOp("drop"), SvcOp("resetStart")>>}
    BY <1>4 DEF Start, Reset, Restart, Invoke, StopOp
  <2>3. StopOp \notin Elems(ops)
    <3>1. \A a : Elems(<<a>>) = {a}
      BY ElemsOne
    <3>2. \A a, b : Elems(<<a, b>>) = {a, b}
      BY ElemsTwo
    <3>3. \A a, b, c : Elems(<<a, b, c>>) = {a, b, c}
      BY ElemsThree
    <3>4. /\ \A name \in SchedOpNames \ {"stop"} : StopOp # SvcOp(name)
          /\ StopOp # SetState(cur, "CANCELLED")
      BY DEF StopOp, SvcOp, SetState, Op
    <3> QED
      BY <2>2, <3>1, <3>2, <3>3, <3>4 DEF SchedOpNames, SvcOpNames
  <2>4. stack' = ops
    <3>1. \A a : <<a>> \o <<>> = <<a>>
      OBVIOUS
    <3>2. \A a, b : <<a, b>> \o <<>> = <<a, b>>
      OBVIOUS
    <3>3. \A a, b, c : <<a, b, c>> \o <<>> = <<a, b, c>>
      OBVIOUS
    <3> QED
      BY <2>1, <2>2, <3>1, <3>2, <3>3
  <2>5. Elems(stack) = {}
    BY <2>1, ElemsOne
  <2>6. StopAbove'
    BY <2>3, <2>4, OrderedTrivial DEF StopAbove
  <2>7. StopDone' /\ Armed'
    <3>1. ~On("stop")' /\ ~On("execute") /\ \A t : Op("delayed", t, "READY") \notin Elems(stack)
      BY <2>3, <2>4, <2>5 DEF On, StopOp
    <3> QED
      BY <1>1, <1>2, <3>1, StopFrame DEF StopInv
  <2> QED
    BY <2>6, <2>7 DEF StopInv
<1> QED
  BY <1>3, <1>4

(* The parts but stop and the two that execute a task. *)
LEMMA StopParts ==
  ASSUME SchedTypes, SchedTypes', StopInv,
         \/ /\ \/ DoResetAnd(<<SvcOp("freshen")>>) \/ DoUnwire \/ DoStart \/ DoDrop \/ DoScheduled
            /\ UNCHANGED schedVars
         \/ DoSucceeded \/ DoFailed \/ DoCancelFromReady \/ DoFreshen
  PROVE  StopInv'
<1> USE DEF threadVars, fxVars, propVars
<1>1. /\ stack # <<>> /\ Head(stack) \notin QuietOps /\ SvcOp("execute") # Head(stack)
      /\ \A t : Op("delayed", t, "READY") # Head(stack)
  <2>1. PICK name \in SchedOpNames \ {"stop", "execute"} : Top(name)
    BY DEF DoResetAnd, DoUnwire, DoStart, DoDrop, DoScheduled, DoSucceeded, DoFailed,
      DoCancelFromReady, DoFreshen, SchedOpNames, SvcOpNames
  <2>2. stack # <<>> /\ Head(stack) = SvcOp(name)
    BY <2>1, SchedHeadNamed
  <2>3. name # "delayed"
    BY DEF SchedOpNames, SvcOpNames
  <2> QED
    BY <2>2, <2>3, QuietFacts DEF SvcOp, Op
<1>2. UNCHANGED <<fut, pc, queue, timer, starting>>
  BY DEF DoResetAnd, DoUnwire, DoStart, DoDrop, DoScheduled, DoSucceeded, DoFailed,
    DoCancelFromReady, DoFreshen, ResetThen, svcVars, schedVars
<1>3. Elems(stack) = {Head(stack)} \union Elems(Tail(stack))
  BY <1>1, SchedHead
<1>4. /\ StopAbove' /\ ~On("stop")'
      /\ Elems(Tail(stack)) \subseteq Elems(stack') \/ (stack' = <<>> /\ cur = NoTask /\ cur' = cur)
  <2>1. CASE stack' = <<>> /\ DoScheduled /\ cur = NoTask
    <3>1. Elems(stack') = {}
      BY <2>1, ElemsOne
    <3>2. cur' = cur
      BY <2>1 DEF DoScheduled, svcVars
    <3> QED
      BY <2>1, <3>1, <3>2, OrderedTrivial DEF StopAbove, On
  <2>2. ASSUME NEW ops \in Seq(NextParts), stack' = ops \o Tail(stack)
        PROVE  /\ StopAbove' /\ ~On("stop")' /\ Elems(Tail(stack)) \subseteq Elems(stack')
    <3>1. ops \in Seq(EveryOp) /\ Elems(ops) \subseteq NextParts /\ StopOp \notin NextParts
      <4>1. StopOp \notin NextParts
        BY DEF NextParts, StopOp, SvcOp, SetState, Op
      <4> QED
        BY <4>1, NextPartsFacts DEF Elems
    <3>2. Tail(stack) \in Seq(EveryOp)
      BY <1>1, SchedHead
    <3>3. Elems(ops \o Tail(stack)) = Elems(ops) \union Elems(Tail(stack))
      BY <3>1, <3>2, ElemsConcat
    <3> QED
      BY <1>1, <2>2, <3>1, <3>3, StopPop DEF StopInv, On, StopOp
  <2> QED
    BY <2>1, <2>2, PartOps
<1>5. CASE cur' = cur /\ cur # NoTask
  <2>1. Elems(Tail(stack)) \subseteq Elems(stack') /\ cur \in Tasks /\ ~On("stop")'
    BY <1>4, <1>5 DEF SchedTypes, SvcTypeOK
  <2>2. On("execute") => On("execute")'
    BY <1>1, <1>3, <2>1 DEF On
  <2>3. \A t : Op("delayed", t, "READY") \in Elems(stack) => Op("delayed", t, "READY") \in Elems(stack')
    BY <1>1, <1>3, <2>1
  <2>4. /\ Op("delayed", cur, "READY") \in Elems(stack) =>
             Op("delayed", cur, "READY") \in Elems(stack') \/ pc'[cur] # "new"
        /\ timer[cur] = "armed" =>
             \/ timer'[cur] = "armed" \/ Runnable("delayed", cur) \in Elems(queue')
             \/ fut'[cur] # "NEW"
        /\ Runnable("delayed", cur) \in Elems(queue) =>
             \/ Runnable("delayed", cur) \in Elems(queue')
             \/ Op("delayed", cur, "READY") \in Elems(stack')
    BY <1>2, <2>3
  <2>5. /\ StopDone /\ Armed /\ cur' = cur
        /\ cur # NoTask /\ fut[cur] # "NEW" => fut'[cur] # "NEW"
        /\ cur # NoTask /\ pc[cur] # "new" => pc'[cur] # "new"
    BY <1>2, <1>5 DEF StopInv
  <2>6. On("stop")' => On("stop") \/ cur = NoTask \/ fut'[cur] # "NEW"
    BY <2>1
  <2>7. starting \/ PostedStart \in Elems(queue) =>
           (starting \/ PostedStart \in Elems(queue))' \/ On("execute")'
    BY <1>2
  <2> QED
    BY <1>4, <2>2, <2>4, <2>5, <2>6, <2>7, StopFrame DEF StopInv
<1>6. CASE cur' = NoTask
  BY <1>4, <1>6 DEF StopInv, StopDone, Armed
<1>7. CASE cur' # cur /\ cur' # NoTask
  <2>1. PICK t \in Tasks : cur' = t /\ stack' = <<SetState(t, "SCHEDULED"), SvcOp("execute")>> \o Tail(stack)
    BY <1>7 DEF DoResetAnd, DoUnwire, DoStart, DoDrop, DoScheduled, DoSucceeded, DoFailed,
      DoCancelFromReady, DoFreshen, ResetThen, Detach, Wire, Pop, svcVars
  <2>2. On("execute")'
    <3>1. <<SetState(t, "SCHEDULED"), SvcOp("execute")>> \in Seq(EveryOp)
      BY EveryOpTyped DEF State, SchedOpNames, SvcOpNames
    <3>2. Tail(stack) \in Seq(EveryOp)
      BY <1>1, SchedHead
    <3>3. Elems(stack') = {SetState(t, "SCHEDULED"), SvcOp("execute")} \union Elems(Tail(stack))
      <4> DEFINE ops == <<SetState(t, "SCHEDULED"), SvcOp("execute")>>
      <4>1. ops \in Seq(EveryOp) /\ stack' = ops \o Tail(stack)
        BY <2>1, <3>1
      <4>2. Elems(ops) = {SetState(t, "SCHEDULED"), SvcOp("execute")}
        BY ElemsTwo
      <4> HIDE DEF ops
      <4>3. Elems(ops \o Tail(stack)) = Elems(ops) \union Elems(Tail(stack))
        BY <3>2, <4>1, ElemsConcat
      <4> QED
        BY <4>1, <4>2, <4>3
    <3> QED
      BY <3>3 DEF On
  <2> QED
    BY <1>4, <2>2 DEF StopInv, StopDone, Armed
<1> QED
  BY <1>4, <1>5, <1>6, <1>7 DEF StopInv

(* The innermost operation is popped. *)
LEMMA PlainPop ==
  ASSUME SchedTypes, stack # <<>>, stack' = <<>> \o Tail(stack)
  PROVE  stack' = Tail(stack) /\ Elems(stack) = {Head(stack)} \union Elems(stack')
  BY SchedHead

LEMMA StopPlainPop ==
  ASSUME SchedTypes, StopAbove, stack # <<>>, stack' = <<>> \o Tail(stack)
  PROVE  /\ StopAbove'
         /\ On("stop")' => On("stop") /\ Head(stack) \in QuietOps
<1>1. <<>> \in Seq(EveryOp) /\ Elems(<<>>) = {}
  <2>1. <<>> \in Seq(EveryOp)
    OBVIOUS
  <2> QED
    BY <2>1, ElemsOne
<1> QED
  BY <1>1, StopPop DEF On, StopOp

LEMMA StopExecute ==
  ASSUME SchedTypes, SchedTypes', StopInv, DoExecuteTask
  PROVE  StopInv'
<1>1. /\ stack # <<>> /\ Head(stack) = SvcOp("execute") /\ Head(stack) \notin QuietOps
      /\ stack' = <<>> \o Tail(stack) /\ cur' = cur /\ fut' = fut
  BY SchedHeadNamed, QuietFacts DEF DoExecuteTask, Pop, svcVars, SchedOpNames, SvcOpNames
<1>2. StopAbove' /\ ~On("stop")'
  BY <1>1, StopPlainPop DEF StopInv
<1>3. Armed'
  <2>1. cur # NoTask => cur \in Tasks
    BY DEF SchedTypes, SvcTypeOK
  <2>2. cur # NoTask => pc'[cur] # "new" \/ timer'[cur] = "armed"
    BY <2>1 DEF DoExecuteTask, ExecuteTaskNow, Executable, SchedTypes, TimerTypes
  <2> QED
    BY <1>1, <2>2 DEF Armed
<1> QED
  BY <1>2, <1>3 DEF StopInv, StopDone

LEMMA StopDelayed ==
  ASSUME SchedTypes, SchedTypes', StopInv, DoDelayed
  PROVE  StopInv'
<1>1. /\ stack # <<>> /\ stack' = <<>> \o Tail(stack) /\ Head(stack).op = "delayed"
      /\ UNCHANGED <<fut, queue, cur, starting, timer>>
  BY DEF DoDelayed, Top, Pop, svcVars
<1>2. PICK t \in Tasks : Head(stack) = Op("delayed", t, "READY")
  BY <1>1, SchedHead, EveryOpApart
<1>3. StopAbove' /\ ~On("stop")' /\ Elems(stack) = {Head(stack)} \union Elems(stack')
  BY <1>1, <1>2, StopPlainPop, PlainPop, QuietFacts DEF StopInv
<1>4. /\ pc'[t] # "new" /\ \A u \in Tasks : pc[u] # "new" => pc'[u] # "new"
  <2>1. Head(stack).task = t /\ t # NoTask
    BY <1>2, ServiceAssumption DEF Op
  <2> QED
    BY <2>1 DEF DoDelayed, ExecuteTaskNow, Executable, SchedTypes
<1>5. On("execute") => On("execute")'
  BY <1>2, <1>3 DEF On, SvcOp, Op
<1>6. cur # NoTask =>
        /\ cur \in Tasks
        /\ Op("delayed", cur, "READY") \in Elems(stack) =>
             Op("delayed", cur, "READY") \in Elems(stack') \/ pc'[cur] # "new"
  <2>1. cur # NoTask => cur \in Tasks
    BY DEF SchedTypes, SvcTypeOK
  <2>2. Op("delayed", cur, "READY") = Op("delayed", t, "READY") => cur = t
    BY DEF Op
  <2> QED
    BY <1>2, <1>3, <1>4, <2>1, <2>2
<1>7. StopDone' /\ Armed'
  BY <1>1, <1>3, <1>4, <1>5, <1>6, StopFrame DEF StopInv
<1> QED
  BY <1>3, <1>7 DEF StopInv

LEMMA StopStop ==
  ASSUME SchedTypes, SchedTypes', StopInv, DoStop
  PROVE  StopInv'
<1>1. /\ stack # <<>> /\ Head(stack) = StopOp /\ stack' = <<>> \o Tail(stack)
      /\ cur' = cur /\ fut' = fut /\ On("stop")
  BY SchedHeadNamed DEF DoStop, Pop, threadVars, svcVars, SchedOpNames, StopOp, On
<1>2. cur = NoTask \/ fut[cur] # "NEW"
  BY <1>1 DEF StopInv, StopDone
<1> QED
  BY <1>1, <1>2, StopPlainPop DEF StopInv, StopDone, Armed

(* The operations of a task neither stop the service nor execute a task. *)
LEMMA StopTaskOps ==
  ASSUME SchedTypes, SchedTypes', StopInv, UNCHANGED <<svcVars, schedVars>>,
         DoSetStateAndHook \/ DoSetRunning \/ DoFire \/ DoSetValue \/ DoSetException
  PROVE  StopInv'
<1> USE DEF threadVars, fxVars, propVars
<1> DEFINE t == Head(stack).task
           s == Head(stack).st
           rest == <<Op("running", t, s), Op("fire", t, s)>>
           hook == Hook(t, s)
<1>1. /\ stack # <<>> /\ Head(stack).op \in OpNames
      /\ UNCHANGED <<fut, pc, queue, cur, starting, timer>>
  BY DEF DoSetStateAndHook, DoSetStateThen, DoSetRunning, DoFire, DoSetValue, DoSetException,
    Top, svcVars, schedVars, OpNames
<1>2. /\ Head(stack) \in Ops /\ t \in Tasks /\ s \in State \ {"READY"}
      /\ Elems(stack) = {Head(stack)} \union Elems(Tail(stack)) /\ Tail(stack) \in Seq(EveryOp)
  BY <1>1, SchedHead
<1>3. SvcOp("execute") # Head(stack) /\ \A u : Op("delayed", u, "READY") # Head(stack)
  BY <1>1 DEF SvcOp, Op, OpNames
<1>4. \/ stack' = <<>> \o Tail(stack)
      \/ /\ Head(stack).op = "setState"
         /\ stack' = rest \o Tail(stack) \/ stack' = (hook \o rest) \o Tail(stack)
  BY DEF DoSetStateAndHook, DoSetStateThen, DoSetRunning, DoFire, DoSetValue, DoSetException,
    Pop, Top
<1>5. /\ rest \in Seq(EveryOp) /\ Elems(rest) \subseteq QuietOps /\ StopOp \notin Elems(rest)
  <2>1. rest \in Seq(EveryOp)
    BY <1>2, EveryOpTyped DEF OpNames
  <2>2. Elems(rest) = {Op("running", t, s), Op("fire", t, s)}
    BY ElemsTwo
  <2>3. StopOp # Op("running", t, s) /\ StopOp # Op("fire", t, s)
    BY DEF StopOp, SvcOp, Op
  <2> QED
    BY <1>2, <2>1, <2>2, <2>3, QuietFacts
<1>6. /\ hook \in Seq(EveryOp) /\ StopOp \notin Elems(hook)
      /\ s = "CANCELLED" => hook = <<>>
  <2>1. /\ SvcOp("succeeded") \in EveryOp /\ SvcOp("failed") \in EveryOp
        /\ SvcOp("succeeded") # StopOp /\ SvcOp("failed") # StopOp
    BY EveryOpTyped DEF SchedOpNames, StopOp, SvcOp, Op
  <2>2. /\ <<SvcOp("succeeded")>> \in Seq(EveryOp) /\ <<SvcOp("failed")>> \in Seq(EveryOp)
        /\ <<>> \in Seq(EveryOp)
    BY <2>1
  <2>3. Elems(<<>>) = {} /\ \A a : Elems(<<a>>) = {a}
    BY ElemsOne
  <2>4. hook \in {<<SvcOp("succeeded")>>, <<SvcOp("failed")>>, <<>>}
        /\ (s = "CANCELLED" => hook = <<>>)
    BY DEF Hook
  <2> QED
    BY <2>1, <2>2, <2>3, <2>4
<1> HIDE DEF hook, rest
<1>7. hook \o rest \in Seq(EveryOp) /\ Elems(hook \o rest) = Elems(hook) \union Elems(rest)
  BY <1>5, <1>6, ElemsConcat
<1>8. Head(stack).op = "setState" /\ Head(stack) \in QuietOps => hook = <<>>
  BY <1>6, QuietFacts
<1>9. \E ops \in Seq(EveryOp) :
        /\ stack' = ops \o Tail(stack) /\ StopOp \notin Elems(ops)
        /\ Elems(ops) \subseteq QuietOps \/ Head(stack) \notin QuietOps
  <2>1. <<>> \in Seq(EveryOp) /\ Elems(<<>>) = {}
    <3>1. <<>> \in Seq(EveryOp)
      OBVIOUS
    <3> QED
      BY <3>1, ElemsOne
  <2>2. CASE stack' = <<>> \o Tail(stack)
    BY <2>1, <2>2
  <2>3. CASE stack' = rest \o Tail(stack)
    BY <1>5, <2>3
  <2>4. CASE Head(stack).op = "setState" /\ stack' = (hook \o rest) \o Tail(stack)
    <3>1. Elems(hook \o rest) \subseteq QuietOps \/ Head(stack) \notin QuietOps
      BY <1>5, <1>7, <1>8, <2>1, <2>4
    <3> QED
      BY <1>5, <1>6, <1>7, <2>4, <3>1
  <2> QED
    BY <1>4, <2>2, <2>3, <2>4
<1>10. PICK ops \in Seq(EveryOp) :
         /\ stack' = ops \o Tail(stack) /\ StopOp \notin Elems(ops)
         /\ Elems(ops) \subseteq QuietOps \/ Head(stack) \notin QuietOps
  BY <1>9
<1>11. StopAbove' /\ (On("stop")' => On("stop"))
  BY <1>1, <1>10, StopPop DEF StopInv, On, StopOp
<1>12. Elems(Tail(stack)) \subseteq Elems(stack')
  <2>1. Elems(ops \o Tail(stack)) = Elems(ops) \union Elems(Tail(stack))
    BY <1>2, ElemsConcat
  <2> QED
    BY <1>10, <2>1
<1>13. StopDone' /\ Armed'
  <2>1. On("execute") => On("execute")'
    BY <1>2, <1>3, <1>12 DEF On
  <2>2. Op("delayed", cur, "READY") \in Elems(stack) => Op("delayed", cur, "READY") \in Elems(stack')
    BY <1>2, <1>3, <1>12
  <2> QED
    BY <1>1, <1>11, <2>1, <2>2, StopFrame DEF StopInv
<1> QED
  BY <1>11, <1>13 DEF StopInv

LEMMA StopDispatch ==
  ASSUME SchedTypes, SchedTypes', StopInv, UNCHANGED <<svcVars, schedVars>>,
         DispatchAs(SchedBody(Head(queue)))
  PROVE  StopInv'
<1> USE DEF threadVars, fxVars, propVars
<1>1. PICK r \in EveryRunnable :
        /\ r = Head(queue) /\ stack = <<>> /\ stack' = SchedBody(r)
        /\ Elems(queue) = {r} \union Elems(queue')
        /\ UNCHANGED <<fut, pc, cur, starting, timer>>
  <2>1. queue \in Seq(EveryRunnable) /\ queue # <<>>
    BY DEF SchedTypes, QueueTypes, DispatchAs
  <2> QED
    BY <2>1, ElemsTail DEF DispatchAs, svcVars, schedVars
<1>2. Elems(stack) = {}
  BY <1>1, ElemsOne
<1>3. StopOp \notin Elems(stack')
  <2>1. CASE r.kind = "delayed"
    <3>1. PICK t \in Tasks : stack' = <<Op("delayed", t, "READY")>>
      BY <1>1, <2>1, SchedBodyTyped
    <3>2. StopOp # Op("delayed", t, "READY")
      BY DEF StopOp, SvcOp, Op
    <3> QED
      BY <3>1, <3>2, ElemsOne
  <2>2. CASE r.kind = "scheduled"
    <3>1. StopOp # SvcOp("scheduled") /\ StopOp # SvcOp("execute")
      BY DEF StopOp, SvcOp, Op
    <3>2. stack' = <<SvcOp("scheduled"), SvcOp("execute")>>
      BY <1>1, <2>2, SchedBodyTyped
    <3> QED
      BY <3>1, <3>2, ElemsTwo
  <2>3. CASE r.kind \in Kinds
    <3>1. stack' \in Seq(Ops)
      BY <1>1, <2>3, SchedBodyTyped
    <3>2. Elems(stack') \subseteq Ops
      BY <3>1 DEF Elems
    <3>3. StopOp.op \notin OpNames
      BY DEF StopOp, SvcOp, Op, OpNames
    <3> QED
      BY <3>2, <3>3 DEF Ops
  <2> QED
    BY <2>1, <2>2, <2>3, SchedBodyTyped
<1>4. StopAbove' /\ ~On("stop")'
  BY <1>3, OrderedTrivial DEF StopAbove, On, StopOp
<1>5. r = PostedStart => On("execute")'
  <2>1. PostedStart.kind = "scheduled"
    BY DEF PostedStart, Runnable
  <2>2. r = PostedStart => stack' = <<SvcOp("scheduled"), SvcOp("execute")>>
    BY <1>1, <2>1, SchedBodyTyped
  <2> QED
    BY <2>2, ElemsTwo DEF On
<1>6. r = Runnable("delayed", cur) => Op("delayed", cur, "READY") \in Elems(stack')
  <2>1. ASSUME r = Runnable("delayed", cur)
        PROVE  Op("delayed", cur, "READY") \in Elems(stack')
    <3>1. r.kind = "delayed" /\ r.task = cur
      BY <2>1 DEF Runnable
    <3>2. PICK t \in Tasks : r = Runnable("delayed", t) /\ stack' = <<Op("delayed", t, "READY")>>
      BY <1>1, <3>1, SchedBodyTyped
    <3>3. t = cur
      BY <3>1, <3>2 DEF Runnable
    <3> QED
      BY <3>2, <3>3, ElemsOne
  <2> QED
    BY <2>1
<1>7. StopDone' /\ Armed'
  <2>1. ~On("execute") /\ Op("delayed", cur, "READY") \notin Elems(stack)
    BY <1>2 DEF On
  <2>2. PostedStart \in Elems(queue) => PostedStart \in Elems(queue') \/ On("execute")'
    BY <1>1, <1>5
  <2>3. Runnable("delayed", cur) \in Elems(queue) =>
          Runnable("delayed", cur) \in Elems(queue') \/ Op("delayed", cur, "READY") \in Elems(stack')
    BY <1>1, <1>6
  <2> QED
    BY <1>1, <1>4, <2>1, <2>2, <2>3, StopFrame DEF StopInv
<1> QED
  BY <1>4, <1>7 DEF StopInv

LEMMA StopOffFx ==
  ASSUME SchedTypes, SchedTypes', StopInv,
         \/ (StartOffFx \/ PostScheduled) /\ UNCHANGED schedVars
         \/ \E t \in Tasks : TimerFires(t)
  PROVE  StopInv'
<1> USE DEF threadVars, fxVars, propVars
<1>1. CASE StartOffFx /\ UNCHANGED schedVars
  <2>1. stack' = stack /\ Elems(stack) = {} /\ starting' = TRUE
    BY <1>1, ElemsOne DEF StartOffFx, taskVars
  <2> QED
    BY <2>1 DEF StopInv, StopAbove, StopDone, Armed, On
<1>2. CASE PostScheduled /\ UNCHANGED schedVars
  <2>1. /\ queue' = Append(queue, PostedStart) /\ PostedStart \in EveryRunnable
        /\ queue \in Seq(EveryRunnable)
        /\ UNCHANGED <<fut, pc, stack, cur, timer>>
    BY <1>2 DEF PostScheduled, RunLater, PostedStart, EveryRunnable, AllRunnables, schedVars,
      SchedTypes, QueueTypes
  <2>2. Elems(queue') = Elems(queue) \union {PostedStart}
    BY <2>1, ElemsAppend
  <2> QED
    BY <2>1, <2>2 DEF StopInv, StopAbove, StopDone, Armed, On
<1>3. ASSUME NEW t \in Tasks, TimerFires(t)
      PROVE  StopInv'
  <2>1. /\ queue' = Append(queue, Runnable("delayed", t))
        /\ Runnable("delayed", t) \in EveryRunnable /\ queue \in Seq(EveryRunnable)
        /\ timer' = [timer EXCEPT ![t] = "fired"]
        /\ UNCHANGED <<fut, pc, stack, cur, starting>>
    BY <1>3 DEF TimerFires, RunLater, EveryRunnable, Delayed, svcVars, SchedTypes, QueueTypes
  <2>2. Elems(queue') = Elems(queue) \union {Runnable("delayed", t)}
    BY <2>1, ElemsAppend
  <2>3. cur # NoTask /\ cur # t => timer'[cur] = timer[cur]
    BY <2>1 DEF SchedTypes, TimerTypes, SvcTypeOK
  <2> QED
    BY <2>1, <2>2, <2>3 DEF StopInv, StopAbove, StopDone, Armed, On
<1> QED
  BY <1>1, <1>2, <1>3

LEMMA StopInvInit == SchedInit => StopInv
<1> SUFFICES ASSUME SchedInit PROVE StopInv
  OBVIOUS
<1>1. stack = <<>> /\ cur = NoTask
  BY DEF SchedInit, SvcInit, Init
<1>2. Elems(stack) = {}
  BY <1>1, ElemsOne
<1> QED
  BY <1>1, <1>2, OrderedTrivial DEF StopInv, StopAbove, StopDone, Armed

LEMMA StopInvStep ==
  ASSUME Reentrant \subseteq {"cancel"}, SchedTypes, StopInv, [SchedNext]_allVars
  PROVE  StopInv'
<1>1. SchedTypes'
  BY SchedTypesStep
<1>2. CASE UNCHANGED allVars
  BY <1>2 DEF allVars, vars, schedVars, svcVars, taskVars, threadVars, fxVars, StopInv,
    StopAbove, StopDone, Armed, On
<1>3. CASE SchedFxThread
  <2>1. CASE CommonFxThread /\ UNCHANGED schedVars
    BY <1>1, <2>1, StopParts, StopTaskOps DEF CommonFxThread
  <2>2. CASE /\ DispatchAs(SchedBody(Head(queue))) \/ DoSetStateAndHook
             /\ UNCHANGED <<svcVars, schedVars>>
    BY <1>1, <2>2, StopDispatch, StopTaskOps
  <2> QED
    BY <1>1, <1>3, <2>1, <2>2, StopParts, StopExecute, StopDelayed, StopStop DEF SchedFxThread
<1> QED
  BY <1>1, <1>2, <1>3, StopThreads, StopCalls, StopOffFx DEF SchedNext

(* With handlers that call at most cancel(), the current task that was     *)
(* neither cancelled nor executed has a timer or a runnable whenever the   *)
(* application thread is at rest: no timer that an earlier task left       *)
(* behind, and no order of cancel(), reset() and start(), makes the        *)
(* service forget it.                                                      *)
THEOREM DelayKept ==
  ASSUME Reentrant \subseteq {"cancel"}
  PROVE  SchedSpec => []DelayIsArmed
<1>1. SchedTypes /\ StopInv => DelayIsArmed
  <2> SUFFICES ASSUME SchedTypes, StopInv, stack = <<>>, cur # NoTask, ~StartPending,
                      fut[cur] = "NEW", pc[cur] = "new"
               PROVE  \/ timer[cur] = "armed"
                      \/ \E i \in DOMAIN queue : queue[i] = Runnable("delayed", cur)
    BY DEF DelayIsArmed
  <2>1. ~starting /\ PostedStart \notin Elems(queue)
    BY SchedPending
  <2>2. Elems(stack) = {}
    BY ElemsOne
  <2>3. timer[cur] = "armed" \/ Runnable("delayed", cur) \in Elems(queue)
    BY <2>1, <2>2 DEF StopInv, Armed, On
  <2>4. DOMAIN queue = 1..Len(queue)
    BY DEF SchedTypes, QueueTypes
  <2> QED
    BY <2>3, <2>4 DEF Elems
<1>2. StopInv /\ SchedTypes /\ [SchedNext]_allVars => StopInv'
  BY StopInvStep
<1> QED
  BY <1>1, <1>2, StopInvInit, SchedTyped, PTL DEF SchedSpec

-----------------------------------------------------------------------------
(* cancel() ends the iteration of a service that does not restart on       *)
(* failure.                                                                *)

(* A member of A comes before every member of B. *)
Before(s, A, B) == \E i \in 1..Len(s) : s[i] \in A /\ \A j \in 1..(i - 1) : s[j] \notin B

LEMMA BeforeTail ==
  ASSUME NEW S, NEW s \in Seq(S), s # <<>>, NEW A, NEW B, Before(s, A, B), Head(s) \notin A
  PROVE  Before(Tail(s), A, B) /\ Head(s) \notin B
<1>1. /\ Len(s) \in Nat \ {0} /\ Head(s) = s[1] /\ Len(Tail(s)) \in Nat
      /\ \A i \in 1..Len(Tail(s)) : Tail(s)[i] = s[i + 1] /\ i + 1 \in 2..Len(s)
      /\ \A i \in 2..Len(s) : i - 1 \in 1..Len(Tail(s)) /\ Tail(s)[i - 1] = s[i]
  BY TailIndex
<1>2. PICK i \in 1..Len(s) : s[i] \in A /\ \A j \in 1..(i - 1) : s[j] \notin B
  BY DEF Before
<1>3. i \in 2..Len(s) /\ 1 \in 1..(i - 1)
  BY <1>1, <1>2
<1>4. ASSUME NEW j \in 1..((i - 1) - 1)
      PROVE  Tail(s)[j] \notin B
  <2>1. j + 1 \in 1..(i - 1) /\ j \in 1..Len(Tail(s))
    BY <1>1, <1>3
  <2> QED
    BY <1>1, <1>2, <2>1
<1>5. i - 1 \in 1..Len(Tail(s)) /\ Tail(s)[i - 1] \in A
  BY <1>1, <1>2, <1>3
<1> QED
  BY <1>1, <1>2, <1>3, <1>4, <1>5 DEF Before

LEMMA BeforePush ==
  ASSUME NEW S, NEW a \in Seq(S), NEW s \in Seq(S), NEW A, NEW B, Before(s, A, B),
         Elems(a) \intersect B = {}
  PROVE  Before(a \o s, A, B)
<1> DEFINE r == a \o s
<1>1. /\ Len(a) \in Nat /\ Len(s) \in Nat /\ Len(r) = Len(a) + Len(s)
      /\ \A i \in 1..Len(a) : r[i] = a[i]
      /\ \A i \in 1..Len(s) : r[Len(a) + i] = s[i]
  OBVIOUS
<1> HIDE DEF r
<1>2. PICK i \in 1..Len(s) : s[i] \in A /\ \A j \in 1..(i - 1) : s[j] \notin B
  BY DEF Before
<1>3. Len(a) + i \in 1..Len(r) /\ r[Len(a) + i] \in A
  BY <1>1, <1>2
<1>4. ASSUME NEW j \in 1..((Len(a) + i) - 1)
      PROVE  r[j] \notin B
  <2>1. CASE j <= Len(a)
    <3>1. j \in 1..Len(a)
      BY <1>1, <2>1
    <3> QED
      BY <1>1, <3>1 DEF Elems
  <2>2. CASE j > Len(a)
    <3>1. j - Len(a) \in 1..(i - 1) /\ j - Len(a) \in 1..Len(s) /\ j = Len(a) + (j - Len(a))
      BY <1>1, <2>2
    <3> QED
      BY <1>1, <1>2, <3>1
  <2> QED
    BY <1>1, <2>1, <2>2
<1>5. Before(r, A, B)
  BY <1>3, <1>4 DEF Before
<1> QED
  BY <1>5 DEF r

LEMMA BeforeHere ==
  ASSUME NEW S, NEW a \in Seq(S), NEW s \in Seq(S), NEW A, NEW B, Before(a, A, B)
  PROVE  Before(a \o s, A, B)
<1> DEFINE r == a \o s
<1>1. /\ Len(a) \in Nat /\ Len(s) \in Nat /\ Len(r) = Len(a) + Len(s)
      /\ \A i \in 1..Len(a) : r[i] = a[i]
  OBVIOUS
<1> HIDE DEF r
<1>2. PICK i \in 1..Len(a) : a[i] \in A /\ \A j \in 1..(i - 1) : a[j] \notin B
  BY DEF Before
<1>3. i \in 1..Len(r) /\ r[i] \in A /\ \A j \in 1..(i - 1) : r[j] \notin B
  BY <1>1, <1>2
<1> QED
  BY <1>3 DEF Before, r

LEMMA BeforeIn ==
  ASSUME NEW s, NEW A, NEW B, Before(s, A, B)
  PROVE  Elems(s) \intersect A # {}
  BY DEF Before, Elems

(* The start() of another thread has not reached the application thread. *)
Coming == starting \/ PostedStart \in Elems(queue)

(* That is the first start(), there is one, and nothing else begins before *)
(* it arrives: of a task that was not executed there is only a             *)
(* cancellation to hear.                                                   *)
FirstStart ==
  /\ Single(queue, {PostedStart})
  /\ starting => PostedStart \notin Elems(queue)
  /\ ~startedOnce =>
       /\ created = {} /\ cur = NoTask /\ queue = <<>> /\ ~starting
       /\ \A t \in Tasks : timer[t] # "armed"
  /\ Coming =>
       /\ Elems(stack) \subseteq QuietOps
       /\ \A t \in created : pc[t] = "new"
       /\ \A t \in Tasks : timer[t] # "armed"
       /\ \A r \in Elems(queue) : r.kind \in {"scheduled", "cancel"}

NotCreated ==
  \A t \in Tasks \ created :
    /\ pc[t] = "new" /\ timer[t] # "armed"
    /\ Runnable("delayed", t) \notin Elems(queue)
    /\ Op("delayed", t, "READY") \notin Elems(stack)

(* It arrives when nothing else is underway. *)
ArrivesAlone ==
  On("scheduled") => stack = <<SvcOp("scheduled"), SvcOp("execute")>> /\ ~callback

(* A current task that is READY is about to be SCHEDULED. *)
MovesOn ==
  cur # NoTask /\ state[cur] = "READY" =>
    \/ Coming
    \/ /\ stack # <<>> /\ ~callback
       /\ Head(stack) \in {SetState(cur, "SCHEDULED"), SvcOp("scheduled")}

(* A service that is READY again after cancel() forgets that before it     *)
(* starts, or becomes CANCELLED.                                           *)
Renewals == {SvcOp("freshen"), SvcOp("cancelFromReady")}
StoppedReady ==
  stop /\ SvcState = "READY" /\ ~restartOnFailure =>
    IF cur # NoTask THEN ~On("start") ELSE Before(stack, Renewals, {SvcOp("start")})

(* cancel() takes a service without a task out of READY before it stops it. *)
StopsLater == On("stop") /\ cur = NoTask => own # "READY"

IterInv ==
  /\ FirstStart /\ NotCreated /\ ArrivesAlone /\ MovesOn /\ StoppedReady /\ StopsLater

LEMMA SchedConcat ==
  ASSUME SchedTypes, stack # <<>>, NEW ops \in Seq(EveryOp)
  PROVE  Elems(ops \o Tail(stack)) = Elems(ops) \union Elems(Tail(stack))
<1>1. Tail(stack) \in Seq(EveryOp)
  BY SchedHead
<1> QED
  BY <1>1, ElemsConcat

(* The innermost operation gives way to others that do not start.          *)
LEMMA StoppedPop ==
  ASSUME SchedTypes, StoppedReady, stack # <<>>, NEW ops \in Seq(EveryOp),
         stack' = ops \o Tail(stack), SvcOp("start") \notin Elems(ops),
         Head(stack) \notin Renewals \/ cur # NoTask,
         cur' = cur, SvcState' = SvcState, stop' => stop, restartOnFailure' = restartOnFailure
  PROVE  StoppedReady'
<1>1. /\ stack \in Seq(EveryOp) /\ Tail(stack) \in Seq(EveryOp)
      /\ Elems(stack) = {Head(stack)} \union Elems(Tail(stack))
  BY SchedHead DEF SchedTypes, StackTypes
<1>2. Elems(ops \o Tail(stack)) = Elems(ops) \union Elems(Tail(stack))
  BY SchedConcat, Zenon
<1>3. SUFFICES ASSUME stop, SvcState = "READY", ~restartOnFailure
               PROVE  IF cur # NoTask THEN ~On("start")'
                      ELSE Before(stack', Renewals, {SvcOp("start")})
  BY DEF StoppedReady
<1>4. CASE cur # NoTask
  BY <1>1, <1>2, <1>3, <1>4 DEF StoppedReady, On
<1>5. CASE cur = NoTask
  <2>1. Before(stack, Renewals, {SvcOp("start")})
    BY <1>3, <1>5 DEF StoppedReady
  <2>2. Before(Tail(stack), Renewals, {SvcOp("start")})
    BY <1>1, <1>5, <2>1, BeforeTail
  <2>3. Before(ops \o Tail(stack), Renewals, {SvcOp("start")})
    BY <1>1, <2>2, BeforePush
  <2> QED
    BY <1>5, <2>3
<1> QED
  BY <1>4, <1>5

(* A part of a method: it is not quiet, and it starts nothing but what     *)
(* start() wires.                                                          *)
Part ==
  \/ /\ DoResetAnd(<<SvcOp("freshen")>>) \/ DoUnwire \/ DoStart \/ DoDrop \/ DoScheduled
     /\ UNCHANGED schedVars
  \/ DoExecuteTask \/ DoDelayed \/ DoSucceeded \/ DoFailed \/ DoCancelFromReady \/ DoFreshen

LEMMA PartHead ==
  ASSUME SchedTypes, Part
  PROVE  /\ stack # <<>> /\ Head(stack) \in Elems(stack) \ QuietOps
         /\ \A t, s : Head(stack) # SetState(t, s)
         /\ DoScheduled \/ Head(stack) # SvcOp("scheduled")
<1>1. CASE DoDelayed
  <2>1. stack # <<>> /\ Head(stack).op = "delayed"
    BY <1>1 DEF DoDelayed, Top
  <2>2. Head(stack) \notin QuietOps
    BY <2>1, QuietFacts
  <2> QED
    BY <2>1, <2>2, SchedHead DEF SetState, SvcOp, Op
<1>2. CASE ~DoDelayed
  <2>1. PICK name \in SchedOpNames \ {"stop"} : Top(name) /\ (DoScheduled \/ name # "scheduled")
    <3>1. \/ Top("reset") \/ Top("resetStart") \/ Top("unwire") \/ Top("start") \/ Top("drop")
          \/ Top("scheduled") /\ DoScheduled
          \/ Top("execute") \/ Top("succeeded") \/ Top("failed") \/ Top("cancelFromReady")
          \/ Top("cancelled") \/ Top("freshen")
      BY <1>2, Zenon DEF Part, DoResetAnd, DoUnwire, DoStart, DoDrop, DoScheduled, DoExecuteTask,
        DoSucceeded, DoFailed, DoCancelFromReady, DoFreshen
    <3>2. {"reset", "resetStart", "unwire", "start", "drop", "scheduled", "execute", "succeeded",
           "failed", "cancelFromReady", "cancelled", "freshen"} \subseteq SchedOpNames \ {"stop"}
      BY DEF SchedOpNames, SvcOpNames
    <3> QED
      BY <3>1, <3>2
  <2>2. stack # <<>> /\ Head(stack) = SvcOp(name) /\ Head(stack) \in Elems(stack)
    BY <2>1, SchedHeadNamed
  <2>3. name # "setState"
    BY DEF SchedOpNames, SvcOpNames
  <2> QED
    BY <2>1, <2>2, <2>3, QuietFacts DEF SetState, SvcOp, Op
<1> QED
  BY <1>1, <1>2

LEMMA PartFacts ==
  ASSUME SchedTypes, StopAbove, Part
  PROVE  /\ ~On("stop")'
         /\ On("scheduled")' => SvcOp("scheduled") \in Elems(Tail(stack))
         /\ \A t : Op("delayed", t, "READY") \in Elems(stack') => Op("delayed", t, "READY") \in Elems(stack)
         /\ UNCHANGED <<queue, state, starting, restartOnFailure>>
         /\ \/ DoStart
            \/ UNCHANGED <<created, startedOnce>> /\ cur' \in {cur, NoTask}
         /\ created \subseteq created'
         /\ startedOnce' \/ (UNCHANGED <<created, startedOnce>> /\ cur' \in {cur, NoTask})
         /\ \A t \in Tasks : timer'[t] = "armed" => timer[t] = "armed" \/ t = cur
         /\ \A t \in Tasks :
              pc'[t] = pc[t] \/ t = cur \/ Op("delayed", t, "READY") \in Elems(stack)
<1> USE DEF threadVars, fxVars, propVars
<1>1. /\ stack # <<>> /\ Head(stack) \notin QuietOps
      /\ Tail(stack) \in Seq(EveryOp)
      /\ Elems(stack) = {Head(stack)} \union Elems(Tail(stack))
  BY PartHead, SchedHead
<1>2. /\ ~On("stop")'
      /\ On("scheduled")' => SvcOp("scheduled") \in Elems(Tail(stack))
      /\ \A t : Op("delayed", t, "READY") \in Elems(stack') => Op("delayed", t, "READY") \in Elems(stack)
  <2>1. CASE stack' = <<>>
    <3>1. Elems(stack') = {}
      BY <2>1, ElemsOne
    <3> QED
      BY <3>1 DEF On
  <2>2. ASSUME NEW ops \in Seq(NextParts), stack' = ops \o Tail(stack)
        PROVE  /\ ~On("stop")'
               /\ On("scheduled")' => SvcOp("scheduled") \in Elems(Tail(stack))
               /\ \A t : Op("delayed", t, "READY") \in Elems(stack') =>
                           Op("delayed", t, "READY") \in Elems(stack)
    <3>1. /\ StopOp \notin NextParts /\ SvcOp("scheduled") \notin NextParts
          /\ \A t : Op("delayed", t, "READY") \notin NextParts
      BY DEF NextParts, StopOp, SvcOp, SetState, Op
    <3>2. ops \in Seq(EveryOp) /\ Elems(ops) \subseteq NextParts
      BY NextPartsFacts DEF Elems
    <3>3. Elems(ops \o Tail(stack)) = Elems(ops) \union Elems(Tail(stack))
      BY <1>1, <3>2, SchedConcat, Zenon
    <3>4. ~On("stop")'
      BY <1>1, <2>2, <3>1, <3>2, StopPop DEF On, StopOp
    <3> QED
      BY <1>1, <2>2, <3>1, <3>2, <3>3, <3>4 DEF On
  <2> QED
    BY <2>1, <2>2, PartOps DEF Part
<1>3. /\ UNCHANGED <<queue, state, starting, restartOnFailure>>
      /\ \/ DoStart
         \/ UNCHANGED <<created, startedOnce>> /\ cur' \in {cur, NoTask}
  BY DEF Part, DoResetAnd, DoUnwire, DoStart, DoDrop, DoScheduled, DoExecuteTask, DoDelayed,
    DoSucceeded, DoFailed, DoCancelFromReady, DoFreshen, ResetThen, Detach, Wire, svcVars,
    schedVars
<1>4. /\ created \subseteq created'
      /\ startedOnce' \/ (UNCHANGED <<created, startedOnce>> /\ cur' \in {cur, NoTask})
  <2>1. CASE DoStart
    <3>1. UNCHANGED svcVars \/ \E t \in Tasks : Wire(t)
      BY <2>1, Zenon DEF DoStart
    <3>2. CASE UNCHANGED svcVars
      BY <3>2, <1>3, Zenon DEF svcVars
    <3>3. CASE \E t \in Tasks : Wire(t)
      <4>1. created \subseteq created'
        BY <3>3 DEF Wire
      <4>2. startedOnce'
        BY <3>3, Zenon DEF Wire
      <4> QED
        BY <4>1, <4>2
    <3> QED
      BY <3>1, <3>2, <3>3
  <2> QED
    BY <1>3, <2>1
<1>5. \A t \in Tasks : timer'[t] = "armed" => timer[t] = "armed" \/ t = cur
  BY DEF Part, DoExecuteTask, DoDelayed,
    DoSucceeded, DoFailed, DoCancelFromReady, DoFreshen, schedVars, SchedTypes, TimerTypes
<1>6. \A t \in Tasks : pc'[t] = pc[t] \/ t = cur \/ Op("delayed", t, "READY") \in Elems(stack)
  <2>1. CASE DoExecuteTask
    BY <2>1 DEF DoExecuteTask, ExecuteTaskNow, SchedTypes
  <2>2. CASE DoDelayed
    <3>1. PICK t \in Tasks : Head(stack) = Op("delayed", t, "READY")
      BY <1>1, <2>2, EveryOpApart, SchedHead DEF DoDelayed, Top
    <3>2. Head(stack).task = t
      BY <3>1 DEF Op
    <3>3. \A u \in Tasks \ {t} : pc'[u] = pc[u]
      BY <2>2, <3>2 DEF DoDelayed, ExecuteTaskNow, SchedTypes
    <3> QED
      BY <1>1, <3>1, <3>3
  <2>3. CASE ~(DoExecuteTask \/ DoDelayed)
    BY <2>3 DEF Part, DoResetAnd, DoUnwire, DoStart, DoDrop, DoScheduled, DoSucceeded, DoFailed,
      DoCancelFromReady, DoFreshen
  <2> QED
    BY <2>1, <2>2, <2>3
<1> QED
  BY <1>2, <1>3, <1>4, <1>5, <1>6

LEMMA IterPartFirst ==
  ASSUME SchedTypes, SchedTypes', StopAbove, IterInv, Part
  PROVE  FirstStart' /\ NotCreated' /\ ArrivesAlone' /\ MovesOn'
<1> USE DEF threadVars, fxVars, propVars
<1>1. /\ stack # <<>> /\ Head(stack) \in Elems(stack) \ QuietOps /\ Tail(stack) \in Seq(EveryOp)
      /\ cur \in created \union {NoTask} /\ NoTask \notin Tasks
  BY PartHead, SchedHead, ServiceAssumption DEF SchedTypes, SvcTypeOK
<1>2. ~Coming /\ ~Coming'
  BY <1>1, PartFacts DEF IterInv, FirstStart, Coming
<1>3. FirstStart'
  <2>1. /\ Single(queue', {PostedStart})
        /\ starting' => PostedStart \notin Elems(queue')
    BY PartFacts DEF IterInv, FirstStart
  <2>2. ASSUME ~startedOnce'
        PROVE  /\ created' = {} /\ cur' = NoTask /\ queue' = <<>> /\ ~starting'
               /\ \A t \in Tasks : timer'[t] # "armed"
    <3>1. UNCHANGED <<created, startedOnce>> /\ cur' \in {cur, NoTask}
      BY <2>2, PartFacts
    <3>2. /\ created = {} /\ cur = NoTask /\ queue = <<>> /\ ~starting
          /\ \A t \in Tasks : timer[t] # "armed"
      BY <2>2, <3>1 DEF IterInv, FirstStart
    <3> QED
      BY <1>1, <3>1, <3>2, PartFacts
  <2> QED
    BY <1>2, <2>1, <2>2 DEF FirstStart
<1>4. NotCreated'
  <2> SUFFICES ASSUME NEW t \in Tasks \ created'
               PROVE  /\ pc'[t] = "new" /\ timer'[t] # "armed"
                      /\ Runnable("delayed", t) \notin Elems(queue')
                      /\ Op("delayed", t, "READY") \notin Elems(stack')
    BY DEF NotCreated
  <2>1. t \in Tasks \ created /\ t # cur
    BY <1>1, PartFacts
  <2>2. /\ pc[t] = "new" /\ timer[t] # "armed"
        /\ Runnable("delayed", t) \notin Elems(queue)
        /\ Op("delayed", t, "READY") \notin Elems(stack)
    BY <2>1 DEF IterInv, NotCreated
  <2> QED
    BY <2>1, <2>2, PartFacts
<1>5. ArrivesAlone'
  <2>1. ASSUME On("scheduled")' PROVE FALSE
    <3>1. SvcOp("scheduled") \in Elems(Tail(stack))
      BY <2>1, PartFacts
    <3>2. stack = <<SvcOp("scheduled"), SvcOp("execute")>>
      BY <1>1, <3>1, SchedHead DEF IterInv, ArrivesAlone, On
    <3>3. Tail(stack) = <<SvcOp("execute")>>
      BY <3>2
    <3>4. SvcOp("scheduled") # SvcOp("execute")
      BY DEF SvcOp, Op
    <3> QED
      <4>1. Elems(<<SvcOp("execute")>>) = {SvcOp("execute")}
        BY ElemsOne, Zenon
      <4> QED
        BY <3>1, <3>3, <3>4, <4>1
  <2> QED
    BY <2>1 DEF ArrivesAlone
<1>6. MovesOn'
  <2>1. CASE DoStart /\ cur' # cur
    <3>1. PICK t \in Tasks : /\ Wire(t)
                             /\ Pop(<<SetState(t, "SCHEDULED"), SvcOp("execute")>>, FALSE)
      BY <2>1 DEF DoStart, svcVars
    <3>2. /\ stack' = <<SetState(t, "SCHEDULED"), SvcOp("execute")>> \o Tail(stack)
          /\ ~callback' /\ cur' = t
      BY <3>1 DEF Pop, Wire
    <3>3. /\ <<SetState(t, "SCHEDULED"), SvcOp("execute")>> \in Seq(EveryOp)
      BY EveryOpTyped DEF State, SchedOpNames, SvcOpNames
    <3>4. stack' # <<>> /\ Head(stack') = SetState(t, "SCHEDULED")
      BY <1>1, <3>2, <3>3
    <3> QED
      BY <3>2, <3>4 DEF MovesOn
  <2>2. CASE DoScheduled
    <3>1. CASE cur = NoTask
      BY <2>2, <3>1 DEF DoScheduled, MovesOn, svcVars
    <3>2. CASE cur # NoTask
      <4>1. stack' = <<SetState(cur, "SCHEDULED")>> \o Tail(stack) /\ ~callback' /\ cur' = cur
        BY <2>2, <3>2 DEF DoScheduled, svcVars
      <4>2. <<SetState(cur, "SCHEDULED")>> \in Seq(EveryOp)
        BY <1>1, <3>2, EveryOpTyped DEF State, SchedTypes, SvcTypeOK
      <4>3. stack' # <<>> /\ Head(stack') = SetState(cur, "SCHEDULED")
        BY <1>1, <4>1, <4>2
      <4> QED
        BY <4>1, <4>3 DEF MovesOn
    <3> QED
      BY <3>1, <3>2
  <2>3. CASE ~DoScheduled /\ cur' \in {cur, NoTask}
    <3>1. Head(stack) \notin {SetState(cur, "SCHEDULED"), SvcOp("scheduled")}
      BY <2>3, PartHead
    <3>2. cur = NoTask \/ state[cur] # "READY"
      BY <1>2, <3>1 DEF IterInv, MovesOn
    <3> QED
      BY <2>3, <3>2, PartFacts DEF MovesOn
  <2> QED
    BY <2>1, <2>2, <2>3, PartFacts
<1> QED
  BY <1>3, <1>4, <1>5, <1>6

(* reset() forgets the cancellation before it starts again, and succeeded() *)
(* turns into CANCELLED what was stopped.                                  *)
LEMMA RenewalFirst ==
  ASSUME SchedTypes, stack # <<>>, NEW then \in Seq(EveryOp), then # <<>>, Head(then) \in Renewals,
         stack' = (<<SvcOp("unwire")>> \o then) \o Tail(stack)
  PROVE  Before(stack', Renewals, {SvcOp("start")})
<1>1. Tail(stack) \in Seq(EveryOp)
  BY SchedHead
<1>2. /\ <<SvcOp("unwire")>> \in Seq(EveryOp) /\ SvcOp("unwire") # SvcOp("start")
      /\ Elems(<<SvcOp("unwire")>>) = {SvcOp("unwire")}
  BY EveryOpTyped, ElemsOne DEF SchedOpNames, SvcOpNames, SvcOp, Op
<1>3. Before(then, Renewals, {SvcOp("start")})
  <2>1. 1 \in 1..Len(then) /\ then[1] \in Renewals /\ 1..(1 - 1) = {}
    OBVIOUS
  <2> QED
    BY <2>1 DEF Before
<1>4. Before(<<SvcOp("unwire")>> \o then, Renewals, {SvcOp("start")})
  <2>1. Elems(<<SvcOp("unwire")>>) \intersect {SvcOp("start")} = {}
    BY <1>2
  <2> QED
    BY <1>2, <1>3, <2>1, BeforePush, Zenon
<1>5. <<SvcOp("unwire")>> \o then \in Seq(EveryOp)
  BY <1>2
<1> QED
  BY <1>1, <1>4, <1>5, BeforeHere

LEMMA IterPartStopped ==
  ASSUME SchedTypes, SchedTypes', StopAbove, IterInv, Part
  PROVE  StoppedReady' /\ StopsLater'
<1> USE DEF threadVars, fxVars, propVars
<1>1. /\ stack # <<>> /\ Tail(stack) \in Seq(EveryOp)
      /\ Elems(stack) = {Head(stack)} \union Elems(Tail(stack))
      /\ UNCHANGED <<queue, state, starting, restartOnFailure>>
  BY PartHead, SchedHead, PartFacts
<1>2. StopsLater'
  BY PartFacts DEF StopsLater
<1> SUFFICES StoppedReady'
  BY <1>2
<1>3. <<>> \in Seq(EveryOp) /\ Elems(<<>>) = {}
  <2>1. <<>> \in Seq(EveryOp)
    OBVIOUS
  <2> QED
    BY <2>1, ElemsOne
<1>4. ASSUME stack' = <<>> \o Tail(stack), UNCHANGED <<cur, own>>, stop' => stop,
             Head(stack) \notin Renewals \/ cur # NoTask
      PROVE  StoppedReady'
  <2>1. SvcState' = SvcState
    BY <1>1, <1>4 DEF SvcState
  <2> QED
    BY <1>1, <1>3, <1>4, <2>1, StoppedPop DEF IterInv
<1>5. \A name, other : SvcOp(name) = SvcOp(other) => name = other
  BY DEF SvcOp, Op
<1>6. ASSUME NEW name \in SchedOpNames \ {"freshen", "cancelFromReady"}, Top(name)
      PROVE  Head(stack) \notin Renewals /\ Head(stack) = SvcOp(name)
  BY <1>5, <1>6, SchedHeadNamed DEF Renewals
<1>7. CASE DoResetAnd(<<SvcOp("freshen")>>) /\ UNCHANGED schedVars
  <2>1. PICK then \in {<<SvcOp("freshen")>>, <<SvcOp("freshen")>> \o <<SvcOp("start")>>} :
          ResetThen(then)
    BY <1>7 DEF DoResetAnd
  <2>2. Head(stack) \notin Renewals
    BY <1>6, <1>7 DEF DoResetAnd, SchedOpNames, SvcOpNames
  <2>3. CASE ResetRefused
    <3>1. stack' = <<>> \o Tail(stack) /\ cur' = cur /\ own' = own /\ stop' = stop
      BY <1>7, <2>1, <2>3 DEF ResetThen, Pop, svcVars, schedVars
    <3> QED
      BY <1>4, <2>2, <3>1, Zenon
  <2>4. CASE ~ResetRefused
    <3>1. cur' = NoTask /\ stack' = (<<SvcOp("unwire")>> \o then) \o Tail(stack)
      BY <2>1, <2>4 DEF ResetThen, Detach, Pop
    <3>2. SvcOp("freshen") \in EveryOp /\ SvcOp("start") \in EveryOp
      BY EveryOpTyped DEF SchedOpNames, SvcOpNames
    <3>3. then \in Seq(EveryOp) /\ then # <<>> /\ Head(then) = SvcOp("freshen")
      <4> HIDE <1>4, <1>5, <1>6
      <4>1. CASE then = <<SvcOp("freshen")>>
        BY <3>2, <4>1
      <4>2. CASE then = <<SvcOp("freshen")>> \o <<SvcOp("start")>>
        BY <3>2, <4>2
      <4> QED
        BY <2>1, <4>1, <4>2
    <3>4. Before(stack', Renewals, {SvcOp("start")})
      BY <1>1, <3>1, <3>3, RenewalFirst DEF Renewals
    <3> QED
      BY <3>1, <3>4 DEF StoppedReady
  <2> QED
    BY <2>3, <2>4
<1>8. CASE DoUnwire /\ UNCHANGED schedVars
  <2>1. stack' = <<>> \o Tail(stack) /\ cur' = cur /\ own' = own /\ stop' = stop /\ Top("unwire")
    BY <1>8 DEF DoUnwire, Pop, schedVars
  <2>2. Head(stack) \notin Renewals
    BY <1>6, <2>1 DEF SchedOpNames, SvcOpNames
  <2> QED
    BY <1>4, <2>1, <2>2, Zenon
<1>9. CASE DoStart /\ UNCHANGED schedVars
  <2>1. Head(stack) \notin Renewals /\ Head(stack) = SvcOp("start")
    BY <1>6, <1>9 DEF DoStart, SchedOpNames, SvcOpNames
  <2>2. CASE SvcState # "READY"
    <3>1. stack' = <<>> \o Tail(stack) /\ cur' = cur /\ own' = own /\ stop' = stop
      BY <1>9, <2>2 DEF DoStart, Pop, svcVars, schedVars
    <3> QED
      BY <1>4, <2>1, <3>1, Zenon
  <2>3. CASE SvcState = "READY"
    <3>1. ASSUME stop, ~restartOnFailure PROVE FALSE
      <4>1. On("start")
        BY <1>1, <2>1 DEF On
      <4>2. Before(stack, Renewals, {SvcOp("start")})
        BY <2>3, <3>1, <4>1 DEF IterInv, StoppedReady
      <4> QED
        BY <1>1, <2>1, <4>2, BeforeTail DEF SchedTypes, StackTypes
    <3> QED
      BY <1>1, <1>9, <3>1 DEF StoppedReady, schedVars
  <2> QED
    BY <2>2, <2>3
<1>10. CASE DoDrop /\ UNCHANGED schedVars
  BY <1>10 DEF DoDrop, Detach, StoppedReady, SvcState
<1>11. CASE DoScheduled /\ UNCHANGED schedVars
  <2>1. Head(stack) \notin Renewals /\ Head(stack) = SvcOp("scheduled")
    BY <1>6, <1>11 DEF DoScheduled, SchedOpNames, SvcOpNames
  <2>2. UNCHANGED <<cur, own, stop>> /\ SvcState' = SvcState
    BY <1>1, <1>11 DEF DoScheduled, svcVars, schedVars, SvcState
  <2>3. CASE cur = NoTask
    <3>1. stack = <<SvcOp("scheduled"), SvcOp("execute")>>
      BY <1>1, <2>1 DEF IterInv, ArrivesAlone, On
    <3>2. Elems(stack) \intersect Renewals = {}
      BY <1>5, <3>1, ElemsTwo DEF Renewals
    <3>3. ~Before(stack, Renewals, {SvcOp("start")})
      BY <3>2, BeforeIn
    <3> QED
      BY <1>1, <2>2, <2>3, <3>3 DEF IterInv, StoppedReady
  <2>4. CASE cur # NoTask
    <3>1. <<SetState(cur, "SCHEDULED")>> \in Seq(EveryOp)
      BY <2>4, EveryOpTyped DEF State, SchedTypes, SvcTypeOK
    <3>2. SvcOp("start") \notin Elems(<<SetState(cur, "SCHEDULED")>>)
      BY ElemsOne DEF SvcOp, SetState, Op
    <3>3. stack' = <<SetState(cur, "SCHEDULED")>> \o Tail(stack)
      BY <1>11, <2>4 DEF DoScheduled
    <3> QED
      BY <1>1, <2>1, <2>2, <3>1, <3>2, <3>3, StoppedPop DEF IterInv
  <2> QED
    BY <2>3, <2>4
<1>12. CASE DoExecuteTask
  <2>1. stack' = <<>> \o Tail(stack) /\ cur' = cur /\ own' = own /\ stop' = stop /\ Top("execute")
    BY <1>12 DEF DoExecuteTask, Pop, svcVars
  <2>2. Head(stack) \notin Renewals
    BY <1>6, <2>1 DEF SchedOpNames, SvcOpNames
  <2> QED
    BY <1>4, <2>1, <2>2, Zenon
<1>13. CASE DoDelayed
  <2>1. Head(stack) \notin Renewals
    BY <1>13 DEF DoDelayed, Top, Renewals, SvcOp, Op
  <2>2. stack' = <<>> \o Tail(stack) /\ cur' = cur /\ own' = own /\ stop' = stop
    BY <1>13 DEF DoDelayed, Pop, svcVars
  <2> QED
    BY <1>4, <2>1, <2>2, Zenon
<1>14. CASE DoSucceeded
  <2>1. Head(stack) \notin Renewals /\ ResetThen(SucceededThen) /\ stop' = stop
    BY <1>6, <1>14 DEF DoSucceeded, SchedOpNames, schedVars
  <2>2. CASE ResetRefused
    <3>1. stack' = <<>> \o Tail(stack) /\ cur' = cur /\ own' = own
      BY <2>1, <2>2 DEF ResetThen, Pop, svcVars
    <3> QED
      BY <1>4, <2>1, <3>1, Zenon
  <2>3. CASE ~ResetRefused /\ stop
    <3>1. /\ cur' = NoTask
          /\ stack' = (<<SvcOp("unwire")>> \o <<SvcOp("cancelFromReady"), SvcOp("cancelled")>>) \o Tail(stack)
      BY <2>1, <2>3 DEF ResetThen, Detach, Pop, SucceededThen
    <3>2. <<SvcOp("cancelFromReady"), SvcOp("cancelled")>> \in Seq(EveryOp)
      BY EveryOpTyped DEF SchedOpNames
    <3>3. Before(stack', Renewals, {SvcOp("start")})
      <4> DEFINE then == <<SvcOp("cancelFromReady"), SvcOp("cancelled")>>
      <4>1. then # <<>> /\ Head(then) \in Renewals
        BY DEF Renewals
      <4> HIDE DEF then
      <4> QED
        BY <1>1, <3>1, <3>2, <4>1, RenewalFirst, Zenon DEF then
    <3> QED
      BY <3>1, <3>3 DEF StoppedReady
  <2> QED
    BY <2>1, <2>2, <2>3 DEF StoppedReady
<1>15. CASE DoFailed
  <2>1. Head(stack) \notin Renewals
    BY <1>6, <1>15 DEF DoFailed, SchedOpNames
  <2>2. CASE restartOnFailure
    BY <1>1, <2>2 DEF StoppedReady
  <2>3. CASE ~restartOnFailure
    BY <1>4, <1>15, <2>1, <2>3 DEF DoFailed, Pop, svcVars
  <2> QED
    BY <2>2, <2>3
<1>16. CASE DoCancelFromReady
  <2>1. /\ own' # "READY" /\ UNCHANGED <<cur, stop>> /\ stack' = <<>> \o Tail(stack)
    BY <1>16 DEF DoCancelFromReady, Pop, schedVars
  <2>2. CASE cur = NoTask
    BY <2>1, <2>2 DEF StoppedReady, SvcState
  <2>3. CASE cur # NoTask
    <3>1. SvcState' = SvcState
      BY <1>1, <2>1, <2>3 DEF SvcState
    <3> QED
      BY <1>1, <1>3, <2>1, <2>3, <3>1, StoppedPop DEF IterInv
  <2> QED
    BY <2>2, <2>3
<1>17. CASE DoFreshen
  BY <1>17 DEF DoFreshen, StoppedReady
<1> QED
  BY <1>2, <1>7, <1>8, <1>9, <1>10, <1>11, <1>12, <1>13, <1>14, <1>15, <1>16, <1>17 DEF Part

(* Nothing of the service has changed, and the stack holds no new          *)
(* operation but some of more, which neither start nor stop.               *)
LEMMA IterFrame ==
  ASSUME SchedTypes, IterInv,
         UNCHANGED <<pc, queue, created, cur, starting, startedOnce>>,
         \A t \in Tasks : timer'[t] = "armed" => timer[t] = "armed",
         NEW more, Elems(stack') \subseteq more \union Elems(stack),
         Coming => more \subseteq QuietOps,
         SvcOp("scheduled") \notin more, \A t : Op("delayed", t, "READY") \notin more,
         ~On("scheduled")'
  PROVE  FirstStart' /\ NotCreated' /\ ArrivesAlone'
<1>1. Coming' = Coming
  BY DEF Coming
<1>2. Coming => Elems(stack') \subseteq QuietOps
  BY DEF IterInv, FirstStart
<1>3. FirstStart'
  BY <1>1, <1>2 DEF IterInv, FirstStart
<1>4. NotCreated'
  BY DEF IterInv, NotCreated
<1> QED
  BY <1>3, <1>4 DEF ArrivesAlone

(* An operation that changes no state is finished. *)
LEMMA IterPops ==
  ASSUME SchedTypes, IterInv, stack # <<>>, stack' = <<>> \o Tail(stack),
         Head(stack).op \in {"running", "fire", "value", "exception", "stop"},
         UNCHANGED <<pc, queue, state, cur, own, starting, startedOnce, created, restartOnFailure>>,
         \A t \in Tasks : timer'[t] = "armed" => timer[t] = "armed",
         stop' = stop \/ Head(stack) = StopOp
  PROVE  IterInv'
<1>1. /\ Elems(stack) = {Head(stack)} \union Elems(stack') /\ stack' = Tail(stack)
      /\ stack \in Seq(EveryOp) /\ Tail(stack) \in Seq(EveryOp)
  BY PlainPop, SchedHead DEF SchedTypes, StackTypes
<1>2. /\ Head(stack) \notin Renewals
      /\ \A t, s : Head(stack) # SetState(t, s)
      /\ Head(stack) # SvcOp("scheduled")
  BY DEF Renewals, SvcOp, SetState, Op
<1>3. ~On("scheduled")'
  <2>1. ASSUME On("scheduled") PROVE FALSE
    <3>1. stack = <<SvcOp("scheduled"), SvcOp("execute")>>
      BY <2>1 DEF IterInv, ArrivesAlone
    <3>2. Head(stack) = SvcOp("scheduled")
      BY <3>1
    <3> QED
      BY <1>2, <3>2
  <2> QED
    BY <1>1, <2>1 DEF On
<1>4. FirstStart' /\ NotCreated' /\ ArrivesAlone'
  <2> DEFINE more == {}
  <2>1. /\ Elems(stack') \subseteq more \union Elems(stack) /\ more \subseteq QuietOps
        /\ SvcOp("scheduled") \notin more /\ \A t : Op("delayed", t, "READY") \notin more
    BY <1>1
  <2> HIDE DEF more
  <2> QED
    BY <1>3, <2>1, IterFrame
<1>5. MovesOn'
  <2>1. Head(stack) \notin {SetState(cur, "SCHEDULED"), SvcOp("scheduled")}
    BY <1>2
  <2>2. Coming' = Coming
    BY DEF Coming
  <2> QED
    BY <2>1, <2>2 DEF IterInv, MovesOn
<1>6. StopsLater'
  BY <1>1 DEF IterInv, StopsLater, On
<1>7. SvcState' = SvcState
  BY DEF SvcState
<1>8. StoppedReady'
  <2>1. CASE stop' = stop
    <3>1. <<>> \in Seq(EveryOp)
      OBVIOUS
    <3>2. SvcOp("start") \notin Elems(<<>>)
      BY ElemsOne
    <3> QED
      BY <1>2, <1>7, <2>1, <3>1, <3>2, StoppedPop DEF IterInv
  <2>2. CASE Head(stack) = StopOp
    <3>1. On("stop")
      BY <1>1, <2>2 DEF On, StopOp
    <3>2. cur = NoTask => own # "READY"
      BY <3>1 DEF IterInv, StopsLater
    <3>3. cur # NoTask /\ state[cur] = "READY" => Coming
      BY <1>2 DEF IterInv, MovesOn
    <3>4. Coming => ~On("start")
      <4>1. SvcOp("start") \notin QuietOps
        BY QuietFacts DEF SchedOpNames, SvcOpNames
      <4> QED
        BY <4>1 DEF IterInv, FirstStart, On
    <3> QED
      BY <1>1, <3>2, <3>3, <3>4 DEF StoppedReady, SvcState, On
  <2> QED
    BY <2>1, <2>2
<1> QED
  BY <1>4, <1>5, <1>6, <1>8 DEF IterInv

(* A task's state changes, and the hook of the service is called. *)
LEMMA IterSetState ==
  ASSUME SchedTypes, IterInv, UNCHANGED <<svcVars, schedVars>>, DoSetStateAndHook
  PROVE  IterInv'
<1> USE DEF threadVars, fxVars, propVars
<1> DEFINE t == Head(stack).task
           s == Head(stack).st
           rest == <<Op("running", t, s), Op("fire", t, s)>>
           hook == Hook(t, s)
<1>1. /\ stack # <<>> /\ Head(stack).op = "setState"
      /\ UNCHANGED <<pc, queue, cur, own, created, starting, startedOnce, timer, stop, restartOnFailure>>
  BY DEF DoSetStateAndHook, DoSetStateThen, Top, svcVars, schedVars
<1>2. /\ Head(stack) \in Ops /\ t \in Tasks /\ s \in State \ {"READY"} /\ t # NoTask
      /\ Elems(stack) = {Head(stack)} \union Elems(Tail(stack)) /\ Tail(stack) \in Seq(EveryOp)
  BY <1>1, SchedHead, ServiceAssumption DEF OpNames
<1>3. /\ Head(stack) = SetState(t, s) /\ Head(stack) # SvcOp("scheduled")
      /\ Head(stack) \notin Renewals
  BY <1>1, <1>2 DEF Ops, SetState, Op, SvcOp, Renewals
<1>4. \/ /\ state' = state /\ (state[t] = "CANCELLED" \/ state[t] = s)
         /\ stack' = <<>> \o Tail(stack) \/ stack' = rest \o Tail(stack)
      \/ state' = [state EXCEPT ![t] = s] /\ stack' = (hook \o rest) \o Tail(stack)
  <2>1. state \in [Tasks -> State]
    BY DEF SchedTypes
  <2> QED
    BY <1>2, <2>1 DEF DoSetStateAndHook, DoSetStateThen, IgnoresSetState, Pop
<1>5. /\ state' \in [Tasks -> State]
      /\ state'[t] # "READY"
      /\ \A u \in Tasks \ {t} : state'[u] = state[u]
  BY <1>2, <1>4 DEF SchedTypes
<1>6. /\ rest \in Seq(EveryOp) /\ Elems(rest) = {Op("running", t, s), Op("fire", t, s)}
      /\ Elems(rest) \subseteq QuietOps
  <2>1. rest \in Seq(EveryOp)
    BY <1>2, EveryOpTyped DEF OpNames
  <2>2. Elems(rest) = {Op("running", t, s), Op("fire", t, s)}
    BY ElemsTwo
  <2> QED
    BY <1>2, <2>1, <2>2, QuietFacts
<1>7. /\ hook \in Seq(EveryOp) /\ Elems(hook) \subseteq {SvcOp("succeeded"), SvcOp("failed")}
      /\ s = "CANCELLED" \/ t # cur => hook = <<>>
  <2>1. /\ <<SvcOp("succeeded")>> \in Seq(EveryOp) /\ <<SvcOp("failed")>> \in Seq(EveryOp)
        /\ <<>> \in Seq(EveryOp)
    BY EveryOpTyped DEF SchedOpNames
  <2>2. Elems(<<>>) = {} /\ \A a : Elems(<<a>>) = {a}
    BY ElemsOne
  <2>3. /\ hook \in {<<SvcOp("succeeded")>>, <<SvcOp("failed")>>, <<>>}
        /\ (s = "CANCELLED" \/ t # cur => hook = <<>>)
    BY DEF Hook
  <2> QED
    BY <2>1, <2>2, <2>3
<1> HIDE DEF hook, rest
<1>8. /\ hook \o rest \in Seq(EveryOp)
      /\ Elems(hook \o rest) = Elems(hook) \union Elems(rest)
      /\ <<>> \in Seq(EveryOp) /\ Elems(<<>>) = {}
  <2>1. <<>> \in Seq(EveryOp) /\ hook \o rest \in Seq(EveryOp)
    BY <1>6, <1>7
  <2>2. Elems(<<>>) = {}
    BY ElemsOne, Zenon
  <2>3. Elems(hook \o rest) = Elems(hook) \union Elems(rest)
    <3>1. hook \in Seq(EveryOp) /\ rest \in Seq(EveryOp)
      BY <1>6, <1>7
    <3> QED
      BY <3>1, ElemsConcat, Zenon
  <2> QED
    BY <2>1, <2>2, <2>3
<1>9. PICK ops \in {<<>>, rest, hook \o rest} : stack' = ops \o Tail(stack)
  BY <1>4
<1>10. /\ ops \in Seq(EveryOp) /\ Elems(stack') = Elems(ops) \union Elems(Tail(stack))
       /\ Elems(ops) \subseteq Elems(rest) \union Elems(hook)
  <2>1. ops \in Seq(EveryOp) /\ Elems(ops) \subseteq Elems(rest) \union Elems(hook)
    BY <1>6, <1>8, <1>9
  <2>2. Elems(ops \o Tail(stack)) = Elems(ops) \union Elems(Tail(stack))
    BY <1>1, <2>1, SchedConcat, Zenon
  <2> QED
    BY <1>9, <2>1, <2>2
<1>11. /\ \A name \in {"scheduled", "stop", "start"} : SvcOp(name) \notin Elems(ops)
       /\ \A u : Op("delayed", u, "READY") \notin Elems(ops)
  <2>1. \A o \in Elems(ops) : o.op \in {"running", "fire", "succeeded", "failed"}
    BY <1>6, <1>7, <1>10 DEF SvcOp, Op
  <2> QED
    BY <2>1 DEF SvcOp, Op
<1>12. Coming => Elems(ops) \subseteq QuietOps
  <2>1. ASSUME Coming PROVE s = "CANCELLED"
    <3>1. Head(stack) \in QuietOps
      BY <1>2, <2>1 DEF IterInv, FirstStart
    <3> QED
      BY <1>1, <3>1, QuietFacts
  <2> QED
    BY <1>6, <1>7, <1>8, <1>10, <2>1
<1>13. ~On("scheduled")'
  <2>1. ASSUME On("scheduled") PROVE FALSE
    <3>1. stack = <<SvcOp("scheduled"), SvcOp("execute")>>
      BY <2>1 DEF IterInv, ArrivesAlone
    <3>2. Head(stack) = SvcOp("scheduled")
      BY <3>1
    <3> QED
      BY <1>3, <3>2
  <2> QED
    BY <1>2, <1>10, <1>11, <2>1 DEF On
<1>14. FirstStart' /\ NotCreated' /\ ArrivesAlone'
  <2>1. Elems(stack') \subseteq Elems(ops) \union Elems(stack)
    BY <1>2, <1>10
  <2> QED
    BY <1>1, <1>11, <1>12, <1>13, <2>1, IterFrame
<1>15. cur # NoTask => cur \in Tasks
  BY DEF SchedTypes, SvcTypeOK
<1>16. MovesOn'
  <2> SUFFICES ASSUME cur # NoTask, state'[cur] = "READY"
               PROVE  Coming'
    BY <1>1 DEF MovesOn
  <2>1. t # cur /\ state[cur] = "READY"
    BY <1>5, <1>15
  <2>2. Head(stack) # SetState(cur, "SCHEDULED")
    BY <1>2, <1>3, <2>1 DEF SetState, Op
  <2> QED
    BY <1>1, <1>3, <2>1, <2>2 DEF IterInv, MovesOn, Coming
<1>17. StopsLater'
  BY <1>1, <1>2, <1>10, <1>11 DEF IterInv, StopsLater, On
<1>18. StoppedReady'
  <2>1. CASE t = cur
    BY <1>1, <1>2, <1>5, <2>1 DEF StoppedReady, SvcState
  <2>2. CASE t # cur
    <3>1. SvcState' = SvcState
      BY <1>1, <1>5, <1>15, <2>2 DEF SvcState
    <3> QED
      BY <1>1, <1>3, <1>9, <1>10, <1>11, <3>1, StoppedPop DEF IterInv
  <2> QED
    BY <2>1, <2>2
<1> QED
  BY <1>14, <1>16, <1>17, <1>18 DEF IterInv

LEMMA IterDispatch ==
  ASSUME SchedTypes, IterInv, UNCHANGED <<svcVars, schedVars>>,
         DispatchAs(SchedBody(Head(queue)))
  PROVE  IterInv'
<1> USE DEF threadVars, fxVars, propVars
<1>1. /\ stack = <<>> /\ callback' = FALSE /\ queue # <<>> /\ queue \in Seq(EveryRunnable)
      /\ queue' = Tail(queue) /\ Elems(stack) = {}
      /\ UNCHANGED <<pc, state, cur, own, created, starting, startedOnce, timer, stop, restartOnFailure>>
  BY ElemsOne DEF DispatchAs, svcVars, schedVars, SchedTypes, QueueTypes
<1>2. PICK r \in EveryRunnable :
        /\ r = Head(queue) /\ stack' = SchedBody(r)
        /\ Elems(queue) = {r} \union Elems(queue')
  BY <1>1, ElemsTail DEF DispatchAs
<1>3. r.kind = "scheduled" => r = PostedStart /\ stack' = <<SvcOp("scheduled"), SvcOp("execute")>>
  BY <1>2, SchedBodyTyped
<1>4. /\ ~On("stop")' /\ ~On("start")'
      /\ On("scheduled")' => r.kind = "scheduled"
      /\ \A t : Op("delayed", t, "READY") \in Elems(stack') => r = Runnable("delayed", t)
      /\ r.kind = "cancel" => Elems(stack') \subseteq QuietOps
  <2>1. CASE r.kind = "delayed"
    <3>1. PICK t \in Tasks : r = Runnable("delayed", t) /\ stack' = <<Op("delayed", t, "READY")>>
      BY <1>2, <2>1, SchedBodyTyped
    <3>2. Elems(stack') = {Op("delayed", t, "READY")}
      BY <3>1, ElemsOne
    <3>3. \A u : Op("delayed", u, "READY") = Op("delayed", t, "READY") => u = t
      BY DEF Op
    <3>4. \A name \in {"stop", "start", "scheduled"} : SvcOp(name) # Op("delayed", t, "READY")
      BY DEF SvcOp, Op
    <3> QED
      BY <2>1, <3>1, <3>2, <3>3, <3>4 DEF On
  <2>2. CASE r.kind = "scheduled"
    <3>1. Elems(stack') = {SvcOp("scheduled"), SvcOp("execute")}
      BY <1>3, <2>2, ElemsTwo
    <3> QED
      BY <2>2, <3>1 DEF On, SvcOp, Op
  <2>3. CASE r.kind \in Kinds
    <3>1. stack' \in Seq(Ops) /\ r \in Runnables /\ stack' = Body(r)
      BY <1>2, <2>3, SchedBodyTyped
    <3>2. \A o \in Elems(stack') : o.op \in OpNames
      <4>1. \A o \in Ops : o.op \in OpNames
        BY DEF Ops
      <4>2. Elems(stack') \subseteq Ops
        BY <3>1 DEF Elems
      <4> QED
        BY <4>1, <4>2
    <3>3. /\ \A name \in {"stop", "start", "scheduled"} : SvcOp(name).op \notin OpNames
          /\ \A t : Op("delayed", t, "READY").op \notin OpNames
      BY DEF SvcOp, Op, OpNames
    <3>4. r.kind = "cancel" => stack' = <<SetState(r.task, "CANCELLED")>> /\ r.task \in Tasks
      BY <3>1 DEF Body, CancelBody, Runnables
    <3>5. r.kind = "cancel" => Elems(stack') = {SetState(r.task, "CANCELLED")}
      BY <3>4, ElemsOne
    <3> QED
      BY <3>2, <3>3, <3>4, <3>5, QuietFacts DEF On, State
  <2> QED
    BY <2>1, <2>2, <2>3, SchedBodyTyped
<1>5. /\ Single(queue', {PostedStart})
      /\ r = PostedStart => PostedStart \notin Elems(queue')
  <2>1. queue # <<>> /\ Single(queue, {PostedStart})
    BY <1>1 DEF IterInv, FirstStart
  <2> QED
    BY <1>1, <1>2, <2>1, SingleTail
<1>6. /\ Coming' => Coming /\ r # PostedStart
      /\ Coming => Coming' \/ r = PostedStart
  <2>1. r = PostedStart => ~Coming'
    BY <1>1, <1>2, <1>5 DEF IterInv, FirstStart, Coming
  <2> QED
    BY <1>1, <1>2, <2>1 DEF Coming
<1>7. FirstStart'
  <2>1. ASSUME Coming' PROVE Elems(stack') \subseteq QuietOps
    <3>1. r.kind \in {"scheduled", "cancel"} /\ r # PostedStart
      BY <1>2, <1>6, <2>1 DEF IterInv, FirstStart
    <3> QED
      BY <1>3, <1>4, <3>1
  <2>2. ASSUME Coming'
        PROVE  /\ \A t \in created' : pc'[t] = "new"
               /\ \A t \in Tasks : timer'[t] # "armed"
               /\ \A x \in Elems(queue') : x.kind \in {"scheduled", "cancel"}
    BY <1>1, <1>2, <1>6, <2>2 DEF IterInv, FirstStart
  <2>3. startedOnce
    BY <1>1 DEF IterInv, FirstStart
  <2>4. starting' => PostedStart \notin Elems(queue')
    BY <1>1, <1>2 DEF IterInv, FirstStart
  <2> QED
    BY <1>1, <1>5, <2>1, <2>2, <2>3, <2>4 DEF FirstStart
<1>8. NotCreated'
  BY <1>1, <1>2, <1>4 DEF IterInv, NotCreated
<1>9. ArrivesAlone'
  BY <1>1, <1>3, <1>4 DEF ArrivesAlone
<1>10. MovesOn'
  <2> SUFFICES ASSUME cur # NoTask, state[cur] = "READY", ~Coming'
               PROVE  stack' # <<>> /\ Head(stack') = SvcOp("scheduled")
    BY <1>1 DEF MovesOn
  <2>1. Coming
    BY <1>1 DEF IterInv, MovesOn
  <2>2. r.kind = "scheduled"
    BY <1>6, <2>1 DEF PostedStart, Runnable
  <2> QED
    BY <1>3, <2>2
<1>11. StopsLater'
  BY <1>4 DEF StopsLater
<1>12. StoppedReady'
  <2>1. ~Before(stack, Renewals, {SvcOp("start")})
    BY <1>1, BeforeIn
  <2> QED
    BY <1>1, <1>4, <2>1 DEF IterInv, StoppedReady, SvcState
<1> QED
  BY <1>7, <1>8, <1>9, <1>10, <1>11, <1>12 DEF IterInv

(* User code calls start(), reset() or restart() of a service at rest. *)
LEMMA IterCalls ==
  ASSUME OrderlyUse, SchedTypes, IterInv, UNCHANGED schedVars, Start \/ Reset \/ Restart
  PROVE  IterInv'
<1>1. /\ UNCHANGED <<pc, queue, state, cur, startedOnce, starting, created>>
      /\ UNCHANGED <<timer, stop, restartOnFailure>>
  BY SchedCalls DEF propVars, schedVars
<1>2. stack = <<>> /\ ~StartPending /\ own' = own
  BY DEF OrderlyUse, Start, Reset, Restart, MayRenew, MayCall
<1>3. ~Coming /\ ~Coming'
  BY <1>1, <1>2, SchedPending DEF Coming
<1>4. PICK ops : /\ stack' = ops \o stack
                 /\ ops \in {<<SvcOp("start")>>, <<SvcOp("reset")>>, <<SvcOp("resetStart")>>,
                             <<SvcOp("drop"), SvcOp("resetStart")>>,
                             <<SetState(cur, "CANCELLED"), SvcOp("drop"), SvcOp("resetStart")>>}
  BY DEF Start, Reset, Restart, Invoke
<1>5. stack' = ops
  <2>1. \A a : <<a>> \o <<>> = <<a>>
    OBVIOUS
  <2>2. \A a, b : <<a, b>> \o <<>> = <<a, b>>
    OBVIOUS
  <2>3. \A a, b, c : <<a, b, c>> \o <<>> = <<a, b, c>>
    OBVIOUS
  <2> QED
    BY <1>2, <1>4, <2>1, <2>2, <2>3
<1>6. Elems(ops) \subseteq {SvcOp("start"), SvcOp("reset"), SvcOp("resetStart"), SvcOp("drop"),
                            SetState(cur, "CANCELLED")}
  <2>1. \A a : Elems(<<a>>) = {a}
    BY ElemsOne
  <2>2. \A a, b : Elems(<<a, b>>) = {a, b}
    BY ElemsTwo
  <2>3. \A a, b, c : Elems(<<a, b, c>>) = {a, b, c}
    BY ElemsThree
  <2> QED
    BY <1>4, <2>1, <2>2, <2>3
<1>7. /\ ~On("stop")' /\ ~On("scheduled")' /\ SvcOp("scheduled") \notin Elems(ops)
      /\ \A t : Op("delayed", t, "READY") \notin Elems(ops)
  BY <1>5, <1>6 DEF On, SvcOp, SetState, Op
<1>8. FirstStart' /\ NotCreated' /\ ArrivesAlone'
  <2>1. Elems(stack') \subseteq Elems(ops) \union Elems(stack)
    BY <1>5
  <2> QED
    BY <1>1, <1>3, <1>7, <2>1, IterFrame
<1>9. cur = NoTask \/ state[cur] # "READY"
  BY <1>2, <1>3 DEF IterInv, MovesOn
<1>10. MovesOn' /\ StopsLater'
  BY <1>1, <1>7, <1>9 DEF MovesOn, StopsLater
<1>11. StoppedReady'
  <2>1. ~Before(stack, Renewals, {SvcOp("start")})
    BY <1>2, BeforeIn, ElemsOne
  <2> QED
    BY <1>1, <1>2, <1>9, <2>1 DEF IterInv, StoppedReady, SvcState
<1> QED
  BY <1>8, <1>10, <1>11 DEF IterInv

(* cancel(), also out of a handler. *)
LEMMA IterCancel ==
  ASSUME SchedTypes, IterInv, UNCHANGED schedVars, CancelAnd(<<StopOp>>)
  PROVE  IterInv'
<1>1. /\ UNCHANGED <<pc, queue, state, cur, startedOnce, starting, created>>
      /\ UNCHANGED <<timer, stop, restartOnFailure>>
  BY DEF CancelAnd, Invoke, propVars, schedVars
<1>2. PICK ops \in Seq(QuietOps) : stack' = ops \o stack
  BY CancelOps
<1>3. /\ Elems(ops) \subseteq QuietOps /\ Elems(stack') = Elems(ops) \union Elems(stack)
  <2>1. ops \in Seq(EveryOp) /\ stack \in Seq(EveryOp)
    BY QuietFacts DEF SchedTypes, StackTypes
  <2>2. Elems(ops \o stack) = Elems(ops) \union Elems(stack)
    BY <2>1, ElemsConcat, Zenon
  <2>3. Elems(ops) \subseteq QuietOps
    BY DEF Elems
  <2> QED
    BY <1>2, <2>2, <2>3
<1>4. stack = <<>> \/ callback
  BY DEF CancelAnd, MayCall
<1>5. /\ SvcOp("scheduled") \notin Elems(ops) /\ SvcOp("start") \notin Elems(ops)
      /\ \A t : Op("delayed", t, "READY") \notin Elems(ops)
  BY <1>3, QuietFacts DEF SchedOpNames, SvcOpNames
<1>6. ~On("scheduled")'
  <2>1. Elems(<<>>) = {}
    BY ElemsOne
  <2>2. ~On("scheduled")
    BY <1>4, <2>1 DEF IterInv, ArrivesAlone, On
  <2> QED
    BY <1>3, <1>5, <2>2 DEF On
<1>7. FirstStart' /\ NotCreated' /\ ArrivesAlone'
  BY <1>1, <1>3, <1>5, <1>6, IterFrame
<1>8. Coming' = Coming
  BY <1>1 DEF Coming
<1>9. cur # NoTask /\ state[cur] = "READY" => Coming
  BY <1>4 DEF IterInv, MovesOn
<1>10. MovesOn'
  BY <1>1, <1>8, <1>9 DEF MovesOn
<1>11. cur = NoTask => own' # "READY"
  BY DEF CancelAnd
<1>12. StopsLater'
  BY <1>1, <1>11 DEF StopsLater
<1>13. StoppedReady'
  <2>1. Coming => ~On("start")
    <3>1. SvcOp("start") \notin QuietOps
      BY QuietFacts DEF SchedOpNames, SvcOpNames
    <3> QED
      BY <3>1 DEF IterInv, FirstStart, On
  <2> QED
    BY <1>1, <1>3, <1>5, <1>9, <1>11, <2>1 DEF StoppedReady, SvcState, On
<1> QED
  BY <1>7, <1>10, <1>12, <1>13 DEF IterInv

LEMMA IterOffFx ==
  ASSUME SchedTypes, IterInv,
         \/ (StartOffFx \/ PostScheduled) /\ UNCHANGED schedVars
         \/ \E t \in Tasks : TimerFires(t)
  PROVE  IterInv'
<1> USE DEF threadVars, fxVars, propVars
<1>1. CASE StartOffFx /\ UNCHANGED schedVars
  <2>1. /\ ~startedOnce /\ stack = <<>> /\ Elems(stack) = {} /\ starting'
        /\ UNCHANGED <<stack, pc, queue, timer>>
    BY <1>1, ElemsOne DEF StartOffFx, taskVars, schedVars
  <2>2. PICK t \in Tasks : Wire(t)
    BY <1>1 DEF StartOffFx
  <2>3. /\ cur' = t /\ created' = created \union {t} /\ t \notin created /\ startedOnce'
        /\ t # NoTask
    BY <2>2, ServiceAssumption DEF Wire
  <2>4. /\ created = {} /\ queue = <<>> /\ Elems(queue) = {}
        /\ \A u \in Tasks : timer[u] # "armed"
    BY <2>1, ElemsOne DEF IterInv, FirstStart
  <2>5. pc[t] = "new"
    BY <2>3 DEF IterInv, NotCreated
  <2>6. FirstStart'
    BY <2>1, <2>3, <2>4, <2>5, SingleNone DEF FirstStart
  <2>7. NotCreated'
    BY <2>1, <2>3 DEF IterInv, NotCreated
  <2>8. MovesOn'
    BY <2>1 DEF MovesOn, Coming
  <2> QED
    BY <2>1, <2>3, <2>6, <2>7, <2>8 DEF IterInv, ArrivesAlone, StoppedReady, StopsLater, On
<1>2. CASE PostScheduled /\ UNCHANGED schedVars
  <2>1. /\ starting /\ ~starting' /\ queue' = Append(queue, PostedStart)
        /\ PostedStart \in EveryRunnable /\ queue \in Seq(EveryRunnable)
        /\ UNCHANGED <<pc, stack, callback, state, cur, own, startedOnce, created>>
        /\ UNCHANGED <<timer, stop, restartOnFailure>>
    BY <1>2 DEF PostScheduled, RunLater, PostedStart, EveryRunnable, AllRunnables, schedVars,
      SchedTypes, QueueTypes
  <2>2. Elems(queue') = Elems(queue) \union {PostedStart}
    BY <2>1, ElemsAppend
  <2>3. /\ PostedStart \notin Elems(queue) /\ startedOnce /\ Single(queue, {PostedStart})
    BY <2>1 DEF IterInv, FirstStart
  <2>4. Single(queue', {PostedStart})
    BY <2>1, <2>3, SingleAppend
  <2>5. PostedStart.kind = "scheduled" /\ \A t : PostedStart # Runnable("delayed", t)
    BY DEF PostedStart, Runnable
  <2>6. Coming /\ Coming'
    BY <2>1, <2>2 DEF Coming
  <2>7. FirstStart'
    BY <2>1, <2>2, <2>3, <2>4, <2>5, <2>6 DEF IterInv, FirstStart
  <2>8. NotCreated'
    BY <2>1, <2>2, <2>5 DEF IterInv, NotCreated
  <2>9. MovesOn'
    BY <2>6 DEF MovesOn
  <2> QED
    BY <2>1, <2>7, <2>8, <2>9 DEF IterInv, ArrivesAlone, StoppedReady, StopsLater, SvcState, On
<1>3. ASSUME NEW t \in Tasks, TimerFires(t)
      PROVE  IterInv'
  <2>1. /\ timer[t] = "armed" /\ queue' = Append(queue, Runnable("delayed", t))
        /\ Runnable("delayed", t) \in EveryRunnable /\ queue \in Seq(EveryRunnable)
        /\ \A u \in Tasks : timer'[u] = "armed" => timer[u] = "armed"
        /\ UNCHANGED <<pc, stack, callback, state, cur, own, starting, startedOnce, created>>
        /\ UNCHANGED <<stop, restartOnFailure>>
    BY <1>3 DEF TimerFires, RunLater, EveryRunnable, Delayed, svcVars, SchedTypes, QueueTypes,
      TimerTypes
  <2>2. Elems(queue') = Elems(queue) \union {Runnable("delayed", t)}
    BY <2>1, ElemsAppend
  <2>3. /\ PostedStart # Runnable("delayed", t)
        /\ \A u : Runnable("delayed", u) = Runnable("delayed", t) => u = t
    BY DEF PostedStart, Runnable
  <2>4. ~Coming /\ ~Coming' /\ startedOnce
    BY <2>1, <2>2, <2>3 DEF IterInv, FirstStart, Coming
  <2>5. Single(queue', {PostedStart})
    BY <2>1, <2>3, SingleAppend DEF IterInv, FirstStart
  <2>6. FirstStart'
    BY <2>1, <2>2, <2>3, <2>4, <2>5 DEF IterInv, FirstStart
  <2>7. t \in created
    BY <2>1 DEF IterInv, NotCreated
  <2>8. NotCreated'
    BY <2>1, <2>2, <2>3, <2>7 DEF IterInv, NotCreated
  <2>9. MovesOn'
    BY <2>1, <2>4 DEF IterInv, MovesOn
  <2> QED
    BY <2>1, <2>6, <2>8, <2>9 DEF IterInv, ArrivesAlone, StoppedReady, StopsLater, SvcState, On
<1> QED
  BY <1>1, <1>2, <1>3

LEMMA IterThreads ==
  ASSUME SchedTypes, IterInv, TaskThreads, UNCHANGED schedVars
  PROVE  IterInv'
<1> USE DEF threadVars, fxVars, propVars
<1>1. PICK u \in created :
        WorkerThread(u) \/ Return(u) \/ Throw(u) \/ CancelOffFx(u) \/ PostCancelled(u)
  BY DEF TaskThreads
<1>2. /\ u \in Tasks /\ queue \in Seq(EveryRunnable)
      /\ UNCHANGED <<cur, own, starting, startedOnce, created, timer, stop, restartOnFailure>>
  BY DEF TaskThreads, schedVars, svcVars, SchedTypes, QueueTypes, SvcTypeOK
<1>3. UNCHANGED <<stack, callback, state>>
  BY <1>1 DEF WorkerThread, Run, Call, Return, Throw, TestCancelled, PostSucceeded, PostFailed,
    Set, SetException, Complete, CancelOffFx, PostCancelled
<1>4. \A t \in Tasks \ {u} : pc'[t] = pc[t]
  BY <1>1, <1>2 DEF WorkerThread, Run, Call, Return, Throw, TestCancelled, PostSucceeded,
    PostFailed, Set, SetException, Complete, CancelOffFx, PostCancelled, At, SchedTypes
<1>5. startedOnce
  BY <1>1 DEF IterInv, FirstStart
<1>6. Coming => (CancelOffFx(u) \/ PostCancelled(u)) /\ pc' = pc
  <2>1. Coming => pc[u] = "new"
    BY <1>1 DEF IterInv, FirstStart
  <2> QED
    BY <1>1, <2>1 DEF WorkerThread, Run, Call, Return, Throw, TestCancelled, PostSucceeded,
      PostFailed, Set, SetException, Complete, CancelOffFx, PostCancelled, At
<1>7. PICK k \in Kinds : /\ queue' = queue \/ queue' = Append(queue, Runnable(k, u))
                         /\ CancelOffFx(u) \/ PostCancelled(u) => k = "cancel"
  BY <1>1 DEF WorkerThread, Run, Call, Return, Throw, TestCancelled, PostSucceeded, PostFailed,
    Set, SetException, Complete, CancelOffFx, PostCancelled, RunLater, Kinds
<1>8. /\ Runnable(k, u) \in EveryRunnable /\ Runnable(k, u) # PostedStart
      /\ Runnable(k, u).kind = k
      /\ \A t : Runnable(k, u) # Runnable("delayed", t)
  BY <1>2, <1>7 DEF EveryRunnable, AllRunnables, Runnables, Runnable, PostedStart, Kinds
<1>9. /\ Elems(queue) \subseteq Elems(queue')
      /\ Elems(queue') \subseteq Elems(queue) \union {Runnable(k, u)}
  <2>1. Elems(Append(queue, Runnable(k, u))) = Elems(queue) \union {Runnable(k, u)}
    BY <1>2, <1>8, ElemsAppend
  <2> QED
    BY <1>7, <2>1
<1>10. Coming' = Coming
  BY <1>2, <1>8, <1>9 DEF Coming
<1>11. Single(queue', {PostedStart})
  <2>1. Single(queue, {PostedStart})
    BY DEF IterInv, FirstStart
  <2>2. Single(Append(queue, Runnable(k, u)), {PostedStart})
    BY <1>2, <1>8, <2>1, SingleAppend
  <2> QED
    BY <1>7, <2>1, <2>2
<1>12. FirstStart'
  <2>1. starting' => PostedStart \notin Elems(queue')
    BY <1>2, <1>8, <1>9 DEF IterInv, FirstStart
  <2>2. ASSUME Coming'
        PROVE  /\ Elems(stack') \subseteq QuietOps
               /\ \A t \in created' : pc'[t] = "new"
               /\ \A t \in Tasks : timer'[t] # "armed"
               /\ \A r \in Elems(queue') : r.kind \in {"scheduled", "cancel"}
    BY <1>2, <1>3, <1>6, <1>7, <1>8, <1>9, <1>10, <2>2 DEF IterInv, FirstStart
  <2> QED
    BY <1>2, <1>5, <1>11, <2>1, <2>2 DEF FirstStart
<1>13. NotCreated'
  BY <1>1, <1>2, <1>3, <1>4, <1>8, <1>9 DEF IterInv, NotCreated
<1>14. MovesOn'
  BY <1>2, <1>3, <1>10 DEF IterInv, MovesOn
<1>15. ArrivesAlone' /\ StoppedReady' /\ StopsLater'
  BY <1>2, <1>3 DEF IterInv, ArrivesAlone, StoppedReady, StopsLater, SvcState, On
<1> QED
  BY <1>12, <1>13, <1>14, <1>15 DEF IterInv

LEMMA IterInit == SchedInit => IterInv
<1> SUFFICES ASSUME SchedInit PROVE IterInv
  OBVIOUS
<1>1. /\ queue = <<>> /\ stack = <<>> /\ cur = NoTask /\ ~starting /\ ~startedOnce
      /\ created = {} /\ ~stop
      /\ \A t \in Tasks : pc[t] = "new" /\ timer[t] # "armed"
  BY DEF SchedInit, SvcInit, Init
<1>2. Elems(queue) = {} /\ Elems(stack) = {}
  BY <1>1, ElemsOne
<1> QED
  BY <1>1, <1>2, SingleNone DEF IterInv, FirstStart, NotCreated, ArrivesAlone, MovesOn,
    StoppedReady, StopsLater, Coming, On

LEMMA IterInvStep ==
  ASSUME OrderlyUse, SchedTypes, StopInv, IterInv, [SchedNext]_allVars
  PROVE  IterInv'
<1>1. SchedTypes' /\ StopAbove
  BY SchedTypesStep DEF StopInv
<1>2. CASE UNCHANGED allVars
  BY <1>2 DEF allVars, vars, schedVars, svcVars, taskVars, threadVars, fxVars, propVars, IterInv,
    FirstStart, NotCreated, ArrivesAlone, MovesOn, StoppedReady, StopsLater, Coming, SvcState, On
<1>3. CASE SchedFxThread
  <2>1. CASE Part
    BY <1>1, <2>1, IterPartFirst, IterPartStopped DEF IterInv
  <2>2. CASE DoSetRunning \/ DoFire \/ DoSetValue \/ DoSetException
    <3>1. UNCHANGED <<svcVars, schedVars>> \/ Part \/ DoStop
      BY <1>3, <2>2 DEF SchedFxThread, CommonFxThread, Part, DoSetRunning, DoFire, DoSetValue,
        DoSetException, DoSetStateAndHook, DoSetStateThen, DispatchAs, Top
    <3>2. CASE UNCHANGED <<svcVars, schedVars>>
      <4>1. /\ stack # <<>> /\ stack' = <<>> \o Tail(stack)
            /\ Head(stack).op \in {"running", "fire", "value", "exception", "stop"}
            /\ UNCHANGED <<pc, queue, state>>
        BY <2>2 DEF DoSetRunning, DoFire, DoSetValue, DoSetException, Top, Pop, threadVars
      <4>2. UNCHANGED <<cur, own, starting, startedOnce, created, timer, stop, restartOnFailure>>
        BY <3>2 DEF svcVars, schedVars
      <4> QED
        BY <4>1, <4>2, IterPops
    <3>3. CASE DoStop
      BY <2>2, <3>3 DEF DoStop, DoSetRunning, DoFire, DoSetValue, DoSetException, Top
    <3> QED
      BY <2>1, <3>1, <3>2, <3>3
  <2>3. CASE DoStop
    <3>1. /\ stack # <<>> /\ stack' = <<>> \o Tail(stack) /\ Head(stack) = StopOp
          /\ UNCHANGED <<pc, queue, state>>
          /\ UNCHANGED <<cur, own, starting, startedOnce, created, restartOnFailure>>
          /\ \A t \in Tasks : timer'[t] = "armed" => timer[t] = "armed"
      BY <2>3, SchedHeadNamed DEF DoStop, Pop, threadVars, propVars, svcVars, SchedOpNames, StopOp
    <3>2. Head(stack).op = "stop"
      BY <3>1 DEF StopOp, SvcOp, Op
    <3> QED
      BY <3>1, <3>2, IterPops
  <2>4. CASE /\ DispatchAs(SchedBody(Head(queue))) \/ DoSetStateAndHook
             /\ UNCHANGED <<svcVars, schedVars>>
    BY <2>4, IterDispatch, IterSetState
  <2> QED
    BY <1>3, <2>1, <2>2, <2>3, <2>4 DEF SchedFxThread, CommonFxThread, Part
<1>4. CASE (Start \/ Reset \/ Restart \/ CancelAnd(<<SvcOp("stop")>>)) /\ UNCHANGED schedVars
  BY <1>4, IterCalls, IterCancel DEF StopOp
<1> QED
  BY <1>2, <1>3, <1>4, IterOffFx, IterThreads DEF SchedNext

(* With handlers that call at most cancel(), after cancel() no further     *)
(* task is created until the service is reset, unless it restarts on       *)
(* failure: whenever the cancellation came, between any two steps of the   *)
(* task's threads, the timer and the hooks that start the service again.   *)
THEOREM CancelStops ==
  ASSUME OrderlyUse
  PROVE  SchedSpec => CancelStopsSuccesses
<1>1. ASSUME SchedTypes, StopAbove, IterInv, SchedNext, created' # created
      PROVE  ~stop \/ restartOnFailure
  <2>1. CASE DoStart
    <3>1. /\ stack # <<>> /\ Head(stack) = SvcOp("start") /\ SvcState = "READY"
      BY <1>1, <2>1, SchedHeadNamed DEF DoStart, svcVars, SchedOpNames, SvcOpNames
    <3>2. Head(stack) \notin Renewals
      BY <3>1 DEF Renewals, SvcOp, Op
    <3>3. ASSUME stop, ~restartOnFailure PROVE FALSE
      <4>1. On("start")
        BY <1>1, <3>1, SchedHead DEF On
      <4>2. Before(stack, Renewals, {SvcOp("start")})
        BY <1>1, <3>1, <3>3, <4>1 DEF IterInv, StoppedReady
      <4> QED
        BY <1>1, <3>1, <3>2, <4>2, BeforeTail DEF SchedTypes, StackTypes
    <3> QED
      BY <3>3
  <2>2. CASE StartOffFx
    <3>1. /\ ~startedOnce /\ stack = <<>> /\ SvcState = "READY"
      BY <2>2 DEF StartOffFx
    <3>2. cur = NoTask /\ ~Before(stack, Renewals, {SvcOp("start")})
      BY <1>1, <3>1, BeforeIn, ElemsOne DEF IterInv, FirstStart
    <3> QED
      BY <1>1, <3>1, <3>2 DEF IterInv, StoppedReady
  <2>3. DoStart \/ StartOffFx
    <3>1. CASE Start \/ Reset \/ Restart \/ CancelAnd(<<SvcOp("stop")>>)
      BY <1>1, <3>1, SchedCalls
    <3>2. CASE Part
      BY <1>1, <3>2, PartFacts
    <3>3. CASE PostScheduled \/ TaskThreads \/ DoStop \/ \E t \in Tasks : TimerFires(t)
      BY <1>1, <3>3 DEF PostScheduled, TaskThreads, DoStop, TimerFires, svcVars
    <3>4. CASE SchedFxThread /\ ~Part /\ ~DoStop
      BY <1>1, <3>4 DEF SchedFxThread, CommonFxThread, Part, svcVars
    <3> QED
      BY <1>1, <3>1, <3>2, <3>3, <3>4 DEF SchedNext
  <2> QED
    BY <2>1, <2>2, <2>3
<1>2. SchedTypes /\ StopInv /\ IterInv /\ [SchedNext]_allVars
        => [created' # created => ~stop \/ restartOnFailure]_allVars
  BY <1>1 DEF StopInv
<1>3. StopInv /\ SchedTypes /\ [SchedNext]_allVars => StopInv'
  BY StopInvStep DEF OrderlyUse
<1>4. IterInv /\ StopInv /\ SchedTypes /\ [SchedNext]_allVars => IterInv'
  BY IterInvStep
<1> QED
  BY <1>2, <1>3, <1>4, StopInvInit, IterInit, SchedTyped, PTL DEF SchedSpec, CancelStopsSuccesses
=============================================================================
