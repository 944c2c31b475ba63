---------------------------- MODULE ServiceProof ----------------------------
(***************************************************************************)
(* Theorems about Service, for every set of tasks and every number of      *)
(* calls: its types, and, with handlers that call at most cancel(), that   *)
(* no task is orphaned, the properties follow the current task, the        *)
(* executor is never given null, and observers see a reusable Worker.      *)
(***************************************************************************)
EXTENDS Service, TaskProof

-----------------------------------------------------------------------------
(* The types of all the variables.                                         *)

SvcOps == {SvcOp(name) : name \in SvcOpNames}
AllOps == Ops \union SvcOps
PostedStart == Runnable("scheduled", NoTask)
AllRunnables == Runnables \union {PostedStart}

SvcTypes ==
  /\ fut \in [Tasks -> Futures]
  /\ pc \in [Tasks -> Places]
  /\ posting \in [Tasks -> BOOLEAN]
  /\ queue \in Seq(AllRunnables)
  /\ stack \in Seq(AllOps)
  /\ callback \in BOOLEAN
  /\ state \in [Tasks -> State]
  /\ own \in {"READY", "CANCELLED"}
  /\ SvcTypeOK

-----------------------------------------------------------------------------
(* What the methods of the service that are underway leave to be done.     *)

On(name) == SvcOp(name) \in Elems(stack)

(* One method of the service is underway at a time, in at most two parts,  *)
(* below what handlers have called since.                                  *)
Follows(a, b) ==
  \/ a = SvcOp("unwire") /\ b = SvcOp("start")
  \/ a = SvcOp("drop") /\ b = SvcOp("resetStart")
  \/ a = SvcOp("scheduled") /\ b = SvcOp("execute")

OneMethod(s) ==
  \A i, j \in 1..Len(s) :
    i < j /\ s[i] \in SvcOps => Follows(s[i], s[j])

(* What the parts that are still to come say of the fields. *)
Fields ==
  /\ On("unwire") => cur = NoTask
  /\ On("execute") => On("scheduled") \/ cur # NoTask
  /\ On("drop") => cur # NoTask /\ fut[cur] # "NEW" /\ On("resetStart")
  /\ wired # cur => On("unwire") \/ (On("resetStart") /\ cur = NoTask /\ own = "CANCELLED")
  /\ ~startedOnce => created = {} /\ cur = NoTask

(* Until the start() of another thread arrives nothing else begins. *)
StartAlone ==
  StartPending => \A name \in {"start", "reset", "resetStart", "drop", "unwire"} : ~On(name)

(* A current task that is READY is about to be SCHEDULED. *)
ReadyMoves ==
  cur # NoTask /\ state[cur] = "READY" =>
    \/ StartPending
    \/ /\ stack # <<>> /\ ~callback
       /\ Head(stack) \in {SetState(cur, "SCHEDULED"), SvcOp("scheduled")}

(* The worker thread has done what an outcome stands for. *)
Warranted(place, future, s) ==
  /\ s = "SUCCEEDED" => place \in {"setting", "done"}
  /\ s = "FAILED" => place \in {"throwing", "done"}
  /\ s = "CANCELLED" => future = "CANCELLED"

Leads(kind) ==
  CASE kind = "succeed" -> "SUCCEEDED"
    [] kind = "fail"    -> "FAILED"
    [] kind = "cancel"  -> "CANCELLED"
    [] OTHER            -> "RUNNING"

OutcomeKnown(t) ==
  /\ pc[t] = "done" => fut[t] # "NEW"
  /\ Warranted(pc[t], fut[t], state[t])
  /\ \A o \in Elems(stack) : o.task = t => Warranted(pc[t], fut[t], o.st)
  /\ \A r \in Elems(queue) : r.task = t => Warranted(pc[t], fut[t], Leads(r.kind))
  /\ posting[t] => fut[t] = "CANCELLED"

SvcInv ==
  /\ OneMethod(stack)
  /\ Fields
  /\ StartAlone
  /\ ReadyMoves
  /\ \A t \in Tasks : OutcomeKnown(t)
  /\ NoOrphan

LEMMA OpsTyped ==
  /\ \A name \in SvcOpNames : SvcOp(name) \in SvcOps /\ SvcOp(name) \in AllOps
  /\ \A name \in OpNames, t \in Tasks, s \in State \ {"READY"} :
       Op(name, t, s) \in Ops /\ Op(name, t, s) \in AllOps
<1>1. \A name \in OpNames, t \in Tasks, s \in State \ {"READY"} : Op(name, t, s) \in Ops
  BY OpInOps
<1> QED
  BY <1>1 DEF SvcOps, AllOps

(* An operation is the task's or the service's, and its name tells which. *)
LEMMA OpsApart ==
  ASSUME NEW o \in AllOps
  PROVE  /\ o.op \in OpNames => o \in Ops /\ o \notin SvcOps
         /\ \A name \in SvcOpNames : o.op = name <=> o = SvcOp(name)
         /\ o \in Ops => o \notin SvcOps
         /\ \A a, b \in SvcOpNames : SvcOp(a) = SvcOp(b) => a = b
<1>1. OpNames \intersect SvcOpNames = {}
  BY DEF OpNames, SvcOpNames
<1>2. \A x \in SvcOps : x.op \in SvcOpNames /\ x = SvcOp(x.op)
  BY DEF SvcOps, SvcOp, Op
<1>3. \A x \in Ops : x.op \in OpNames
  BY DEF Ops
<1>4. \A name : SvcOp(name).op = name
  BY DEF SvcOp, Op
<1> QED
  BY <1>1, <1>2, <1>3, <1>4 DEF AllOps

LEMMA HeadTyped ==
  ASSUME SvcTypes, stack # <<>>
  PROVE  /\ Head(stack) \in AllOps /\ Tail(stack) \in Seq(AllOps)
         /\ Elems(stack) = {Head(stack)} \union Elems(Tail(stack))
         /\ Head(stack).op \in OpNames =>
              /\ Head(stack) \in Ops
              /\ Head(stack).task \in Tasks /\ Head(stack).st \in State \ {"READY"}
<1>1. /\ Head(stack) \in AllOps /\ Tail(stack) \in Seq(AllOps)
      /\ Elems(stack) = {Head(stack)} \union Elems(Tail(stack))
  BY ElemsTail DEF SvcTypes
<1>2. Head(stack).op \in OpNames => Head(stack) \in Ops
  BY <1>1, OpsApart
<1> QED
  BY <1>1, <1>2 DEF Ops

LEMMA BodyTyped ==
  ASSUME NEW r \in AllRunnables
  PROVE  /\ SvcBody(r) \in Seq(AllOps)
         /\ r = PostedStart => SvcBody(r) = <<SvcOp("scheduled"), SvcOp("execute")>>
         /\ r # PostedStart => r \in Runnables /\ SvcBody(r) = Body(r) /\ Body(r) \in Seq(Ops)
<1>1. CASE r = PostedStart
  BY <1>1, OpsTyped DEF SvcBody, PostedStart, Runnable, SvcOpNames
<1>2. CASE r # PostedStart
  <2>1. r \in Runnables /\ r.kind # "scheduled"
    BY <1>2 DEF AllRunnables, Runnables, Kinds
  <2>2. Body(r) \in Seq(Ops)
    BY <2>1, BodyInOps
  <2>3. Body(r) \in Seq(AllOps)
    BY <2>2 DEF AllOps
  <2> QED
    BY <1>2, <2>1, <2>2, <2>3 DEF SvcBody
<1> QED
  BY <1>1, <1>2

(* The start() of another thread, told from the runnables of a task. *)
LEMMA PendingElems ==
  ASSUME NEW q \in Seq(AllRunnables)
  PROVE  (\E i \in DOMAIN q : q[i].kind = "scheduled") <=> PostedStart \in Elems(q)
<1>1. \A i \in 1..Len(q) : q[i].kind = "scheduled" <=> q[i] = PostedStart
  <2> TAKE i \in 1..Len(q)
  <2>1. q[i] \in AllRunnables
    OBVIOUS
  <2> QED
    BY <2>1 DEF AllRunnables, Runnables, Kinds, PostedStart, Runnable
<1>2. DOMAIN q = 1..Len(q)
  OBVIOUS
<1> QED
  BY <1>1, <1>2 DEF Elems

(* A step of a task's threads changes nothing of the service. *)
LEMMA ThreadTypes ==
  ASSUME SvcTypes, TaskThreads
  PROVE  SvcTypes'
<1> USE DEF threadVars, fxVars, propVars
<1>1. PICK t \in created :
        WorkerThread(t) \/ Return(t) \/ Throw(t) \/ CancelOffFx(t) \/ PostCancelled(t)
  BY DEF TaskThreads
<1>2. t \in Tasks /\ UNCHANGED svcVars
  BY <1>1 DEF SvcTypes, SvcTypeOK, TaskThreads
<1>3. SvcTypeOK' /\ own' \in {"READY", "CANCELLED"}
  BY <1>2 DEF SvcTypes, SvcTypeOK, svcVars
<1>4. stack' = stack /\ callback' = callback /\ state' = state
  BY <1>1 DEF WorkerThread, Run, Call, Return, Throw, TestCancelled, PostSucceeded, PostFailed,
    Set, SetException, Complete, CancelOffFx, PostCancelled
<1>5. fut' \in [Tasks -> Futures] /\ pc' \in [Tasks -> Places] /\ posting' \in [Tasks -> BOOLEAN]
  <2>1. CASE Run(t) \/ Return(t) \/ Throw(t) \/ TestCancelled(t)
    BY <1>2, <2>1 DEF Run, Return, Throw, TestCancelled, At, SvcTypes, Places
  <2>2. CASE Call(t) \/ PostSucceeded(t) \/ PostFailed(t)
    BY <1>2, <2>2 DEF Call, PostSucceeded, PostFailed, At, SvcTypes, Places
  <2>3. CASE Set(t) \/ SetException(t)
    BY <1>2, <2>3 DEF Set, SetException, Complete, At, SvcTypes, Places, Futures
  <2>4. CASE CancelOffFx(t) \/ PostCancelled(t)
    BY <1>2, <2>4 DEF CancelOffFx, FutureCancel, PostCancelled, SvcTypes, Futures
  <2> QED
    BY <1>1, <2>1, <2>2, <2>3, <2>4 DEF WorkerThread
<1>6. queue' \in Seq(AllRunnables)
  <2>1. \A k \in Kinds : Runnable(k, t) \in AllRunnables
    BY <1>2 DEF AllRunnables, Runnables, Runnable
  <2>2. queue' = queue \/ \E k \in Kinds : queue' = Append(queue, Runnable(k, t))
    BY <1>1 DEF WorkerThread, Run, Call, Return, Throw, TestCancelled, PostSucceeded, PostFailed,
      Set, SetException, Complete, CancelOffFx, PostCancelled, RunLater, Kinds
  <2>3. queue \in Seq(AllRunnables)
    BY DEF SvcTypes
  <2>4. \A k \in Kinds : Append(queue, Runnable(k, t)) \in Seq(AllRunnables)
    BY <2>1, <2>3
  <2> QED
    BY <2>2, <2>3, <2>4
<1> QED
  BY <1>3, <1>4, <1>5, <1>6 DEF SvcTypes

(* What user code calls is put on the stack. *)
LEMMA CallTypes ==
  ASSUME SvcTypes, Start \/ Reset \/ Restart \/ Cancel
  PROVE  SvcTypes'
<1> USE DEF threadVars, fxVars, propVars
<1>1. UNCHANGED <<pc, posting, queue, state, cur, wired, startedOnce, starting, created>>
  BY DEF Start, Reset, Restart, Cancel, CancelAnd
<1>2. callback' \in BOOLEAN /\ calls' \in 0..MaxCalls
  <2>1. callback' \in BOOLEAN
    BY DEF Start, Reset, Restart, Cancel, CancelAnd, Invoke
  <2>2. calls < MaxCalls /\ calls' = calls + 1
    BY DEF Start, Reset, Restart, Cancel, CancelAnd, MayRenew, MayCall, Invoke, Count
  <2>3. calls \in 0..MaxCalls
    BY DEF SvcTypes, SvcTypeOK
  <2> QED
    BY <2>1, <2>2, <2>3, ServiceAssumption
<1>3. fut' \in [Tasks -> Futures] /\ own' \in {"READY", "CANCELLED"}
  BY DEF Start, Reset, Restart, Cancel, CancelAnd, FutureCancel, SvcTypes, Futures
<1>4. \E ops \in Seq(AllOps) : stack' = ops \o stack
  <2>1. /\ SvcOp("start") \in AllOps /\ SvcOp("reset") \in AllOps
        /\ SvcOp("drop") \in AllOps /\ SvcOp("resetStart") \in AllOps
    BY OpsTyped DEF SvcOpNames
  <2>2. cur # NoTask => SetState(cur, "CANCELLED") \in AllOps
    BY OpsTyped DEF SetState, OpNames, State, SvcTypes, SvcTypeOK
  <2>3. CASE Start \/ Reset
    <3>1. <<SvcOp("start")>> \in Seq(AllOps) /\ <<SvcOp("reset")>> \in Seq(AllOps)
      BY <2>1
    <3> QED
      BY <2>3, <3>1 DEF Start, Reset, Invoke
  <2>4. CASE Restart
    <3>1. /\ <<SvcOp("resetStart")>> \in Seq(AllOps)
          /\ <<SvcOp("drop"), SvcOp("resetStart")>> \in Seq(AllOps)
      BY <2>1
    <3>2. cur # NoTask =>
            <<SetState(cur, "CANCELLED"), SvcOp("drop"), SvcOp("resetStart")>> \in Seq(AllOps)
      BY <2>1, <2>2
    <3> QED
      BY <2>4, <3>1, <3>2 DEF Restart, Invoke
  <2>5. CASE Cancel
    <3>1. <<>> \in Seq(AllOps)
      OBVIOUS
    <3>2. cur # NoTask =>
            /\ <<SetState(cur, "CANCELLED")>> \in Seq(AllOps)
            /\ <<SetState(cur, "CANCELLED")>> \o <<>> = <<SetState(cur, "CANCELLED")>>
      BY <2>2
    <3> QED
      BY <2>5, <3>1, <3>2 DEF Cancel, CancelAnd, Invoke
  <2> QED
    BY <2>3, <2>4, <2>5
<1>5. stack' \in Seq(AllOps)
  BY <1>4 DEF SvcTypes
<1> QED
  BY <1>1, <1>2, <1>3, <1>5 DEF SvcTypes, SvcTypeOK

LEMMA PopTyped ==
  ASSUME SvcTypes, stack # <<>>, NEW ops \in Seq(AllOps), NEW b \in BOOLEAN, Pop(ops, b)
  PROVE  stack' \in Seq(AllOps) /\ callback' \in BOOLEAN
  BY HeadTyped DEF Pop

(* The parts of the service's methods. *)
LEMMA PartTypes ==
  ASSUME SvcTypes, DoReset \/ DoUnwire \/ DoStart \/ DoExecute \/ DoDrop \/ DoScheduled
  PROVE  SvcTypes'
<1> USE DEF threadVars, fxVars, propVars
<1>1. stack # <<>> /\ <<>> \in Seq(AllOps)
  <2>1. stack # <<>>
    BY DEF DoReset, DoResetAnd, DoUnwire, DoStart, DoExecute, DoDrop, DoScheduled, Top
  <2> QED
    BY <2>1
<1>2. \A name \in SvcOpNames : SvcOp(name) \in AllOps
  BY OpsTyped
<1>3. \A t \in Tasks : SetState(t, "SCHEDULED") \in AllOps
  BY OpsTyped DEF SetState, OpNames, State
<1>4. CASE DoReset
  <2>1. <<SvcOp("unwire")>> \o <<>> \in Seq(AllOps)
    BY <1>2 DEF SvcOpNames
  <2>2. <<SvcOp("unwire")>> \o (<<>> \o <<SvcOp("start")>>) \in Seq(AllOps)
    BY <1>2 DEF SvcOpNames
  <2>3. stack' \in Seq(AllOps) /\ callback' \in BOOLEAN
    BY <1>1, <1>4, <2>1, <2>2, PopTyped DEF DoReset, DoResetAnd, ResetThen
  <2>4. UNCHANGED <<fut, pc, posting, queue, state, wired, startedOnce, starting, created, calls>>
    BY <1>4 DEF DoReset, DoResetAnd, ResetThen, svcVars
  <2>5. cur' \in created \union {NoTask} /\ own' \in {"READY", "CANCELLED"}
    BY <1>4 DEF DoReset, DoResetAnd, ResetThen, svcVars, Detach, SvcTypes, SvcTypeOK
  <2> QED
    BY <2>3, <2>4, <2>5 DEF SvcTypes, SvcTypeOK
<1>5. CASE DoUnwire
  <2>1. stack' \in Seq(AllOps) /\ callback' \in BOOLEAN
    BY <1>1, <1>5, PopTyped DEF DoUnwire
  <2> QED
    BY <1>5, <2>1 DEF DoUnwire, SvcTypes, SvcTypeOK
<1>6. CASE DoStart
  <2>1. CASE SvcState # "READY"
    <3>1. stack' \in Seq(AllOps) /\ callback' \in BOOLEAN
      BY <1>1, <1>6, <2>1, PopTyped DEF DoStart
    <3> QED
      BY <1>6, <2>1, <3>1 DEF DoStart, SvcTypes, SvcTypeOK, svcVars
  <2>2. CASE SvcState = "READY"
    <3>1. PICK t \in Tasks : Wire(t) /\ Pop(<<SetState(t, "SCHEDULED"), SvcOp("execute")>>, FALSE)
      BY <1>6, <2>2 DEF DoStart
    <3>2. <<SetState(t, "SCHEDULED"), SvcOp("execute")>> \in Seq(AllOps)
      BY <1>2, <1>3 DEF SvcOpNames
    <3>3. stack' \in Seq(AllOps) /\ callback' \in BOOLEAN
      BY <1>1, <3>1, <3>2, PopTyped
    <3> QED
      BY <1>6, <2>2, <3>1, <3>3 DEF DoStart, Wire, SvcTypes, SvcTypeOK
  <2> QED
    BY <2>1, <2>2
<1>7. CASE DoExecute
  <2>1. stack' \in Seq(AllOps) /\ callback' \in BOOLEAN
    BY <1>1, <1>7, PopTyped DEF DoExecute
  <2>2. pc' \in [Tasks -> Places]
    BY <1>7 DEF DoExecute, SvcTypes, SvcTypeOK, Places
  <2> QED
    BY <1>7, <2>1, <2>2 DEF DoExecute, SvcTypes, SvcTypeOK, svcVars
<1>8. CASE DoDrop
  <2>1. (SvcState # "CANCELLED") \in BOOLEAN
    OBVIOUS
  <2>2. stack' \in Seq(AllOps) /\ callback' \in BOOLEAN
    BY <1>1, <1>8, <2>1, PopTyped DEF DoDrop
  <2> QED
    BY <1>8, <2>2 DEF DoDrop, Detach, SvcTypes, SvcTypeOK
<1>9. CASE DoScheduled
  <2>1. cur # NoTask => SetState(cur, "SCHEDULED") \in AllOps
    BY <1>3 DEF SvcTypes, SvcTypeOK
  <2>2. stack' \in Seq(AllOps)
    BY <1>1, <1>9, <2>1, HeadTyped DEF DoScheduled
  <2> QED
    BY <1>9, <2>2 DEF DoScheduled, SvcTypes, SvcTypeOK, svcVars
<1> QED
  BY <1>4, <1>5, <1>6, <1>7, <1>8, <1>9

(* The operations of a task. *)
LEMMA TaskOpTypes ==
  ASSUME SvcTypes, UNCHANGED svcVars,
         \/ DispatchAs(SvcBody(Head(queue)))
         \/ DoSetState \/ DoSetRunning \/ DoFire \/ DoSetValue \/ DoSetException
  PROVE  SvcTypes'
<1> USE DEF threadVars, fxVars, propVars
<1>1. SvcTypeOK' /\ own' \in {"READY", "CANCELLED"}
  BY DEF SvcTypes, SvcTypeOK, svcVars
<1>2. UNCHANGED <<fut, pc, posting>>
  BY DEF DispatchAs, DoSetState, DoSetStateThen, DoSetRunning, DoFire, DoSetValue, DoSetException
<1>3. CASE DispatchAs(SvcBody(Head(queue)))
  <2>1. Head(queue) \in AllRunnables /\ Tail(queue) \in Seq(AllRunnables)
    BY <1>3 DEF DispatchAs, SvcTypes
  <2> QED
    BY <1>1, <1>2, <1>3, <2>1, BodyTyped DEF DispatchAs, SvcTypes
<1>4. CASE DoSetState
  <2> DEFINE t == Head(stack).task
             s == Head(stack).st
             rest == <<Op("running", t, s), Op("fire", t, s)>>
  <2>1. stack # <<>> /\ t \in Tasks /\ s \in State \ {"READY"}
    BY <1>4, HeadTyped DEF DoSetState, DoSetStateThen, Top, OpNames
  <2>2. rest \in Seq(AllOps) /\ <<>> \o rest = rest /\ <<>> \in Seq(AllOps)
    BY <2>1, OpsTyped DEF OpNames
  <2>3. stack' \in Seq(AllOps) /\ callback' \in BOOLEAN
    BY <1>4, <2>1, <2>2, PopTyped DEF DoSetState, DoSetStateThen
  <2>4. state' \in [Tasks -> State] /\ queue' = queue
    BY <1>4, <2>1 DEF DoSetState, DoSetStateThen, SvcTypes
  <2> QED
    BY <1>1, <1>2, <2>3, <2>4 DEF SvcTypes
<1>5. CASE DoSetRunning \/ DoFire \/ DoSetValue \/ DoSetException
  <2>1. stack # <<>> /\ UNCHANGED <<queue, state>>
    BY <1>5 DEF DoSetRunning, DoFire, DoSetValue, DoSetException, Top
  <2>2. \E b \in BOOLEAN : Pop(<<>>, b)
    BY <1>5 DEF DoSetRunning, DoFire, DoSetValue, DoSetException
  <2>3. <<>> \in Seq(AllOps)
    OBVIOUS
  <2>4. stack' \in Seq(AllOps) /\ callback' \in BOOLEAN
    BY <2>1, <2>2, <2>3, PopTyped
  <2> QED
    BY <1>1, <1>2, <2>1, <2>4 DEF SvcTypes
<1> QED
  BY <1>3, <1>4, <1>5

LEMMA OffFxTypes ==
  ASSUME SvcTypes, StartOffFx \/ PostScheduled
  PROVE  SvcTypes'
<1> USE DEF threadVars, fxVars, propVars
<1>1. CASE StartOffFx
  BY <1>1, ServiceAssumption DEF StartOffFx, Wire, Count, taskVars, SvcTypes, SvcTypeOK
<1>2. CASE PostScheduled
  <2>1. queue' \in Seq(AllRunnables)
    BY <1>2 DEF PostScheduled, RunLater, SvcTypes, AllRunnables, PostedStart
  <2> QED
    BY <1>2, <2>1 DEF PostScheduled, SvcTypes, SvcTypeOK
<1> QED
  BY <1>1, <1>2

LEMMA SvcTypesInit == SvcInit => SvcTypes
<1> SUFFICES ASSUME SvcInit PROVE SvcTypes
  OBVIOUS
<1>1. SvcTypeOK
  <2>1. calls \in 0..MaxCalls
    BY ServiceAssumption DEF SvcInit
  <2> QED
    BY <2>1 DEF SvcInit, SvcTypeOK
<1>2. queue \in Seq(AllRunnables) /\ stack \in Seq(AllOps)
  <2>1. queue = <<>> /\ stack = <<>>
    BY DEF SvcInit, Init
  <2> QED
    BY <2>1
<1> QED
  BY <1>1, <1>2 DEF SvcInit, Init, SvcTypes, Futures, Places, State

LEMMA SvcTypesStep ==
  ASSUME SvcTypes, [SvcNext]_vars
  PROVE  SvcTypes'
<1>1. CASE UNCHANGED vars
  BY <1>1 DEF vars, svcVars, taskVars, threadVars, fxVars, propVars, SvcTypes, SvcTypeOK
<1>2. CASE SvcFxThread
  BY <1>2, PartTypes, TaskOpTypes DEF SvcFxThread, CommonFxThread
<1> QED
  BY <1>1, <1>2, ThreadTypes, CallTypes, OffFxTypes DEF SvcNext

LEMMA SvcTyped == SvcSpec => []SvcTypes
<1>1. SvcTypes /\ [SvcNext]_vars => SvcTypes'
  BY SvcTypesStep
<1> QED
  BY SvcTypesInit, <1>1, PTL DEF SvcSpec

(* The fields of a service have the types the code gives them, and it is   *)
(* bound to no task but one it created, whatever user code calls when.     *)
THEOREM SvcTypeCorrect == SvcSpec => []SvcTypeOK
<1>1. SvcTypes => SvcTypeOK
  BY DEF SvcTypes
<1> QED
  BY SvcTyped, <1>1, PTL

-----------------------------------------------------------------------------
(* The order of the parts on the stack.                                    *)

LEMMA SameSequence ==
  ASSUME NEW S, NEW s \in Seq(S), NEW r \in Seq(S), Len(s) = Len(r),
         \A i \in 1..Len(s) : s[i] = r[i]
  PROVE  s = r
  OBVIOUS

LEMMA PairConcat ==
  ASSUME NEW a, NEW b
  PROVE  <<a>> \o <<b>> = <<a, b>>
<1> DEFINE S == {a, b}
           s == <<a>> \o <<b>>
<1>1. <<a>> \in Seq(S) /\ <<b>> \in Seq(S) /\ <<a, b>> \in Seq(S)
  OBVIOUS
<1>2. s \in Seq(S) /\ Len(s) = 2 /\ s[1] = a /\ s[2] = b
  BY <1>1
<1>3. \A i \in 1..2 : s[i] = <<a, b>>[i]
  BY <1>2
<1> QED
  BY <1>1, <1>2, <1>3, SameSequence

LEMMA TripleConcat ==
  ASSUME NEW S, NEW a \in S, NEW b \in S, NEW c \in S
  PROVE  <<a>> \o <<b, c>> = <<a, b, c>>
<1> DEFINE s == <<a>> \o <<b, c>>
<1>1. <<a>> \in Seq(S) /\ <<b, c>> \in Seq(S) /\ <<a, b, c>> \in Seq(S)
  OBVIOUS
<1>2. s \in Seq(S) /\ Len(s) = 3 /\ s[1] = a /\ s[2] = b /\ s[3] = c
  BY <1>1
<1>3. \A i \in 1..3 : s[i] = <<a, b, c>>[i]
  BY <1>2
<1> QED
  BY <1>1, <1>2, <1>3, SameSequence

LEMMA ElemsPush ==
  ASSUME NEW S, NEW s \in Seq(S), NEW a \in S
  PROVE  Elems(<<a>> \o s) = {a} \union Elems(s) /\ <<a>> \o s \in Seq(S)
<1>1. <<a>> \in Seq(S)
  OBVIOUS
<1>2. Elems(<<a>> \o s) = Elems(<<a>>) \union Elems(s)
  BY <1>1, ElemsConcat
<1>3. Elems(<<a>>) = {a}
  BY ElemsOne
<1> QED
  BY <1>2, <1>3

LEMMA ElemsPushTwo ==
  ASSUME NEW S, NEW s \in Seq(S), NEW a \in S, NEW b \in S
  PROVE  Elems(<<a, b>> \o s) = {a, b} \union Elems(s) /\ <<a, b>> \o s \in Seq(S)
<1>1. <<a, b>> \in Seq(S)
  OBVIOUS
<1>2. Elems(<<a, b>> \o s) = Elems(<<a, b>>) \union Elems(s)
  BY <1>1, ElemsConcat
<1>3. Elems(<<a, b>>) = {a, b}
  BY ElemsTwo
<1> QED
  BY <1>2, <1>3

LEMMA OneMethodTail ==
  ASSUME NEW s \in Seq(AllOps), s # <<>>, OneMethod(s)
  PROVE  /\ OneMethod(Tail(s))
         /\ \A o \in Elems(Tail(s)) : Head(s) \in SvcOps => Follows(Head(s), o)
<1> DEFINE r == Tail(s)
<1>1. /\ Len(s) \in Nat \ {0} /\ Head(s) = s[1]
      /\ \A i \in 1..Len(r) : r[i] = s[i + 1] /\ i + 1 \in 2..Len(s)
  BY TailIndex
<1>2. OneMethod(r)
  <2> SUFFICES ASSUME NEW i \in 1..Len(r), NEW j \in 1..Len(r), i < j, r[i] \in SvcOps
               PROVE  Follows(r[i], r[j])
    BY DEF OneMethod
  <2>1. i + 1 \in 1..Len(s) /\ j + 1 \in 1..Len(s) /\ i + 1 < j + 1
    BY <1>1
  <2> QED
    BY <1>1, <2>1 DEF OneMethod
<1>3. ASSUME NEW o \in Elems(r), s[1] \in SvcOps
      PROVE  Follows(s[1], o)
  <2>1. PICK i \in 1..Len(r) : o = r[i]
    BY DEF Elems
  <2>2. i + 1 \in 1..Len(s) /\ 1 < i + 1 /\ 1 \in 1..Len(s) /\ o = s[i + 1]
    BY <1>1, <2>1
  <2> QED
    BY <1>3, <2>2 DEF OneMethod
<1> QED
  BY <1>1, <1>2, <1>3

LEMMA OneMethodPush ==
  ASSUME NEW s \in Seq(AllOps), NEW a \in AllOps, OneMethod(s),
         \A o \in Elems(s) : a \in SvcOps => Follows(a, o)
  PROVE  OneMethod(<<a>> \o s)
<1> DEFINE r == <<a>> \o s
<1>1. /\ Len(s) \in Nat /\ Len(r) = Len(s) + 1 /\ r[1] = a
      /\ \A i \in 1..Len(s) : r[i + 1] = s[i]
  OBVIOUS
<1> HIDE DEF r
<1> SUFFICES ASSUME NEW i \in 1..Len(r), NEW j \in 1..Len(r), i < j, r[i] \in SvcOps
             PROVE  Follows(r[i], r[j])
  BY DEF OneMethod, r
<1>2. j - 1 \in 1..Len(s) /\ (j - 1) + 1 = j
  BY <1>1
<1>3. r[j] = s[j - 1] /\ s[j - 1] \in Elems(s)
  BY <1>1, <1>2 DEF Elems
<1>4. CASE i = 1
  BY <1>1, <1>3, <1>4
<1>5. CASE i # 1
  <2>1. i - 1 \in 1..Len(s) /\ (i - 1) + 1 = i /\ i - 1 < j - 1
    BY <1>1, <1>2, <1>5
  <2>2. r[i] = s[i - 1]
    BY <1>1, <2>1
  <2> QED
    BY <1>2, <1>3, <2>1, <2>2 DEF OneMethod
<1> QED
  BY <1>4, <1>5

LEMMA OneMethodPushTwo ==
  ASSUME NEW s \in Seq(AllOps), NEW a \in AllOps, NEW b \in AllOps, OneMethod(s),
         a \in SvcOps => Follows(a, b),
         \A o \in Elems(s) :
           (a \in SvcOps => Follows(a, o)) /\ (b \in SvcOps => Follows(b, o))
  PROVE  OneMethod(<<a, b>> \o s)
<1>1. OneMethod(<<b>> \o s) /\ <<b>> \o s \in Seq(AllOps)
  BY OneMethodPush
<1>2. Elems(<<b>> \o s) = {b} \union Elems(s)
  <2>1. <<b>> \in Seq(AllOps)
    OBVIOUS
  <2>2. Elems(<<b>> \o s) = Elems(<<b>>) \union Elems(s)
    BY <2>1, ElemsConcat
  <2>3. Elems(<<b>>) = {b}
    BY ElemsOne
  <2> QED
    BY <2>2, <2>3
<1>3. OneMethod(<<a>> \o (<<b>> \o s))
  BY <1>1, <1>2, OneMethodPush
<1>4. /\ Len(<<a, b>> \o s) = Len(<<a>> \o (<<b>> \o s))
      /\ \A i \in 1..Len(<<a, b>> \o s) : (<<a, b>> \o s)[i] = (<<a>> \o (<<b>> \o s))[i]
  OBVIOUS
<1> QED
  BY <1>3, <1>4 DEF OneMethod

(* Operations of tasks alone are in order. *)
LEMMA OneMethodNone ==
  ASSUME NEW s \in Seq(AllOps), \A o \in Elems(s) : o \notin SvcOps
  PROVE  OneMethod(s)
<1>1. \A i \in 1..Len(s) : s[i] \in Elems(s)
  BY DEF Elems
<1> QED
  BY <1>1 DEF OneMethod

(* A part of a method is the innermost operation: what may be below it. *)
LEMMA HeadPart ==
  ASSUME SvcTypes, OneMethod(stack), NEW name \in SvcOpNames, Top(name)
  PROVE  /\ stack # <<>> /\ Head(stack) = SvcOp(name) /\ On(name)
         /\ OneMethod(Tail(stack)) /\ Tail(stack) \in Seq(AllOps)
         /\ Elems(stack) = {SvcOp(name)} \union Elems(Tail(stack))
         /\ \A o \in Elems(Tail(stack)) : Follows(SvcOp(name), o)
<1>1. stack # <<>> /\ stack \in Seq(AllOps)
  BY DEF Top, SvcTypes
<1>2. /\ Head(stack) \in AllOps /\ Tail(stack) \in Seq(AllOps)
      /\ Elems(stack) = {Head(stack)} \union Elems(Tail(stack))
  BY <1>1, HeadTyped
<1>3. Head(stack) = SvcOp(name)
  BY <1>2, OpsApart DEF Top
<1>4. SvcOp(name) \in SvcOps
  BY OpsTyped
<1> QED
  BY <1>1, <1>2, <1>3, <1>4, OneMethodTail DEF On

(* Pop, as sets of operations. *)
LEMMA PopElems ==
  ASSUME SvcTypes, stack # <<>>, NEW ops \in Seq(AllOps), NEW b, Pop(ops, b)
  PROVE  Elems(stack') = Elems(ops) \union Elems(Tail(stack))
<1>1. Tail(stack) \in Seq(AllOps)
  BY HeadTyped
<1> QED
  BY <1>1, ElemsConcat DEF Pop

-----------------------------------------------------------------------------
(* The facts about tasks.                                                  *)

LEMMA OutcomeFrame ==
  ASSUME NEW t \in Tasks, OutcomeKnown(t),
         pc'[t] = "done" => fut'[t] # "NEW",
         fut[t] = "CANCELLED" => fut'[t] = "CANCELLED",
         \A s : Warranted(pc[t], fut[t], s) => Warranted(pc'[t], fut'[t], s),
         state'[t] = state[t] \/ Warranted(pc'[t], fut'[t], state'[t]),
         \A o \in Elems(stack') :
           o.task = t => o \in Elems(stack) \/ Warranted(pc'[t], fut'[t], o.st),
         \A r \in Elems(queue') :
           r.task = t => r \in Elems(queue) \/ Warranted(pc'[t], fut'[t], Leads(r.kind)),
         posting'[t] => posting[t] \/ fut'[t] = "CANCELLED"
  PROVE  OutcomeKnown(t)'
  BY DEF OutcomeKnown

(* Steps that leave the threads alone and put nothing new on the stack but *)
(* what is warranted. *)
LEMMA OutcomeSame ==
  ASSUME SvcInv, UNCHANGED <<pc, posting, queue, state>>,
         \A t \in Tasks : fut'[t] = fut[t] \/ (fut[t] = "NEW" /\ fut'[t] = "CANCELLED"),
         \A o \in Elems(stack') : o \in Elems(stack) \/ o \in SvcOps \/ 
           (o.st = "SCHEDULED") \/ (o.st = "CANCELLED" /\ fut'[o.task] = "CANCELLED")
  PROVE  \A t \in Tasks : OutcomeKnown(t)'
<1> TAKE t \in Tasks
<1>1. OutcomeKnown(t)
  BY DEF SvcInv
<1>2. \A o \in SvcOps : o.st = "READY"
  BY DEF SvcOps, SvcOp, Op
<1>3. \A o \in Elems(stack') :
        o.task = t => o \in Elems(stack) \/ Warranted(pc'[t], fut'[t], o.st)
  BY <1>2 DEF Warranted
<1>4. \A s : Warranted(pc[t], fut[t], s) => Warranted(pc'[t], fut'[t], s)
  BY DEF Warranted
<1>5. pc'[t] = "done" => fut'[t] # "NEW"
  BY <1>1 DEF OutcomeKnown
<1> QED
  BY <1>1, <1>3, <1>4, <1>5, OutcomeFrame

LEMMA ThreadInv ==
  ASSUME SvcTypes, SvcInv, TaskThreads
  PROVE  SvcInv'
<1> USE DEF threadVars, fxVars, propVars
<1>1. PICK u \in created :
        WorkerThread(u) \/ Return(u) \/ Throw(u) \/ CancelOffFx(u) \/ PostCancelled(u)
  BY DEF TaskThreads
<1>2. u \in Tasks /\ UNCHANGED svcVars
  BY <1>1 DEF SvcTypes, SvcTypeOK, TaskThreads
<1>3. /\ stack' = stack /\ callback' = callback /\ state' = state
      /\ \A t \in Tasks \ {u} : fut'[t] = fut[t] /\ pc'[t] = pc[t] /\ posting'[t] = posting[t]
  BY <1>1 DEF WorkerThread, Run, Call, Return, Throw, TestCancelled, PostSucceeded, PostFailed,
    Set, SetException, Complete, CancelOffFx, PostCancelled, At, FutureCancel, SvcTypes
<1>4. /\ fut'[u] # "NEW" \/ fut'[u] = fut[u]
      /\ fut[u] = "CANCELLED" => fut'[u] = "CANCELLED"
      /\ fut[u] # "NEW" => fut'[u] = fut[u]
      /\ \A s : Warranted(pc[u], fut[u], s) => Warranted(pc'[u], fut'[u], s)
      /\ posting'[u] => posting[u] \/ fut'[u] = "CANCELLED"
      /\ pc'[u] = "done" => pc[u] = "done" \/ fut'[u] # "NEW"
      /\ pc[u] = "done" => pc'[u] = "done"
      /\ pc[u] \in {"setting", "throwing"} => pc'[u] = pc[u] \/ fut'[u] # "NEW"
  <2>1. CASE Run(u) \/ Return(u) \/ Throw(u) \/ TestCancelled(u)
    BY <1>2, <2>1 DEF Run, Return, Throw, TestCancelled, At, SvcTypes, Warranted
  <2>2. CASE Call(u) \/ PostSucceeded(u) \/ PostFailed(u)
    BY <1>2, <2>2 DEF Call, PostSucceeded, PostFailed, At, SvcTypes, Warranted
  <2>3. CASE Set(u) \/ SetException(u)
    BY <1>2, <2>3 DEF Set, SetException, Complete, At, SvcTypes, Warranted
  <2>4. CASE CancelOffFx(u) \/ PostCancelled(u)
    BY <1>2, <2>4 DEF CancelOffFx, FutureCancel, PostCancelled, SvcTypes, Warranted
  <2> QED
    BY <1>1, <2>1, <2>2, <2>3, <2>4 DEF WorkerThread
<1>5. \/ queue' = queue
      \/ \E k \in Kinds :
           queue' = Append(queue, Runnable(k, u)) /\ Warranted(pc'[u], fut'[u], Leads(k))
  <2>1. CASE Run(u) \/ Return(u) \/ Throw(u) \/ TestCancelled(u) \/ Set(u) \/ SetException(u)
             \/ CancelOffFx(u)
    BY <2>1 DEF Run, Return, Throw, TestCancelled, Set, SetException, Complete, CancelOffFx
  <2>2. CASE Call(u)
    BY <2>2 DEF Call, RunLater, Kinds, Leads, Warranted
  <2>3. CASE PostSucceeded(u)
    BY <1>2, <2>3 DEF PostSucceeded, At, RunLater, Kinds, Leads, Warranted, SvcTypes
  <2>4. CASE PostFailed(u)
    BY <1>2, <2>4 DEF PostFailed, At, RunLater, Kinds, Leads, Warranted, SvcTypes
  <2>5. CASE PostCancelled(u)
    <3>1. fut[u] = "CANCELLED"
      BY <1>2, <2>5 DEF PostCancelled, SvcInv, OutcomeKnown
    <3> QED
      BY <2>5, <3>1 DEF PostCancelled, RunLater, Kinds, Leads, Warranted
  <2> QED
    BY <1>1, <2>1, <2>2, <2>3, <2>4, <2>5 DEF WorkerThread
<1>6. \A r \in Elems(queue') :
        \/ r \in Elems(queue)
        \/ \E k \in Kinds : r = Runnable(k, u) /\ Warranted(pc'[u], fut'[u], Leads(k))
  <2>1. CASE queue' = queue
    BY <2>1
  <2>2. ASSUME NEW k \in Kinds, queue' = Append(queue, Runnable(k, u)),
               Warranted(pc'[u], fut'[u], Leads(k))
        PROVE  \A r \in Elems(queue') : r \in Elems(queue) \/ r = Runnable(k, u)
    <3>1. Runnable(k, u) \in AllRunnables /\ queue \in Seq(AllRunnables)
      BY <1>2 DEF Runnable, AllRunnables, Runnables, SvcTypes
    <3> QED
      BY <2>2, <3>1, ElemsAppend
  <2> QED
    BY <1>5, <2>1, <2>2
<1>7. StartPending' <=> StartPending
  <2>1. queue \in Seq(AllRunnables) /\ queue' \in Seq(AllRunnables)
    BY ThreadTypes DEF SvcTypes
  <2>2. \A k \in Kinds : Runnable(k, u) # PostedStart
    BY DEF Kinds, Runnable, PostedStart
  <2>3. Elems(queue) \subseteq Elems(queue')
    <3>1. CASE queue' = queue
      BY <3>1
    <3>2. ASSUME NEW k \in Kinds, queue' = Append(queue, Runnable(k, u))
          PROVE  Elems(queue) \subseteq Elems(queue')
      <4>1. Runnable(k, u) \in AllRunnables
        BY <1>2 DEF Runnable, AllRunnables, Runnables
      <4> QED
        BY <2>1, <3>2, <4>1, ElemsAppend
    <3> QED
      BY <1>5, <3>1, <3>2
  <2>4. StartPending <=> starting \/ PostedStart \in Elems(queue)
    BY <2>1, PendingElems DEF StartPending
  <2>5. StartPending' <=> starting' \/ PostedStart \in Elems(queue')
    BY <2>1, PendingElems DEF StartPending
  <2> QED
    BY <1>2, <1>6, <2>2, <2>3, <2>4, <2>5 DEF svcVars
<1>8. \A t \in Tasks : OutcomeKnown(t)'
  <2> TAKE t \in Tasks
  <2>1. OutcomeKnown(t)
    BY DEF SvcInv
  <2>2. CASE t # u
    <3>1. \A r \in Elems(queue') : r.task = t => r \in Elems(queue)
      BY <1>6, <2>2 DEF Runnable
    <3> QED
      BY <1>3, <2>1, <2>2, <3>1 DEF OutcomeKnown
  <2>3. CASE t = u
    <3>1. \A r \in Elems(queue') :
            r \in Elems(queue) \/ Warranted(pc'[t], fut'[t], Leads(r.kind))
      BY <1>6, <2>3 DEF Runnable
    <3>2. pc'[t] = "done" => fut'[t] # "NEW"
      BY <1>4, <2>1, <2>3 DEF OutcomeKnown
    <3> QED
      BY <1>3, <1>4, <2>1, <2>3, <3>1, <3>2, OutcomeFrame
  <2> QED
    BY <2>2, <2>3
<1>9. NoOrphan'
  BY <1>2, <1>3, <1>4 DEF SvcInv, NoOrphan, svcVars, SvcTypes, SvcTypeOK
<1>10. Fields'
  <2>1. cur # NoTask /\ fut[cur] # "NEW" => fut'[cur] # "NEW"
    BY <1>3, <1>4 DEF SvcTypes, SvcTypeOK
  <2> QED
    BY <1>2, <1>3, <2>1 DEF SvcInv, Fields, On, svcVars
<1>11. OneMethod(stack)' /\ StartAlone' /\ ReadyMoves'
  BY <1>2, <1>3, <1>7 DEF SvcInv, StartAlone, ReadyMoves, On, svcVars
<1> QED
  BY <1>8, <1>9, <1>10, <1>11 DEF SvcInv

(* An operation of a task: what replaces it belongs to the same move. *)
LEMMA TaskOpInv ==
  ASSUME SvcTypes, SvcInv, UNCHANGED svcVars,
         DoSetState \/ DoSetRunning \/ DoFire \/ DoSetValue \/ DoSetException
  PROVE  SvcInv'
<1> USE DEF threadVars, fxVars, propVars
<1> DEFINE h == Head(stack)
<1>1. stack # <<>> /\ h.op \in OpNames
  BY DEF DoSetState, DoSetStateThen, DoSetRunning, DoFire, DoSetValue, DoSetException, Top, OpNames
<1>2. /\ h \in Ops /\ h \notin SvcOps /\ h.task \in Tasks /\ h.st \in State \ {"READY"}
      /\ Tail(stack) \in Seq(AllOps) /\ Elems(stack) = {h} \union Elems(Tail(stack))
  BY <1>1, HeadTyped, OpsApart
<1>3. UNCHANGED <<fut, pc, posting, queue>>
  BY DEF DoSetState, DoSetStateThen, DoSetRunning, DoFire, DoSetValue, DoSetException
<1>4. \/ state' = state
      \/ h.op = "setState" /\ state' = [state EXCEPT ![h.task] = h.st]
  BY DEF DoSetState, DoSetStateThen, DoSetRunning, DoFire, DoSetValue, DoSetException, Top
<1>5. \E ops \in {<<>>, <<Op("running", h.task, h.st), Op("fire", h.task, h.st)>>} :
        stack' = ops \o Tail(stack)
  <2>1. CASE DoSetState
    <3>1. <<>> \o <<Op("running", h.task, h.st), Op("fire", h.task, h.st)>> =
            <<Op("running", h.task, h.st), Op("fire", h.task, h.st)>>
      OBVIOUS
    <3> QED
      BY <2>1, <3>1 DEF DoSetState, DoSetStateThen, Pop
  <2>2. CASE DoSetRunning \/ DoFire \/ DoSetValue \/ DoSetException
    BY <2>2 DEF DoSetRunning, DoFire, DoSetValue, DoSetException, Pop
  <2> QED
    BY <2>1, <2>2
<1>6. /\ OneMethod(stack')
      /\ \A o \in Elems(stack') :
           o \in Elems(stack) \/ (o \in Ops /\ o.task = h.task /\ o.st = h.st)
      /\ Elems(Tail(stack)) \subseteq Elems(stack')
  <2> DEFINE a == Op("running", h.task, h.st)
             b == Op("fire", h.task, h.st)
  <2>1. a \in Ops /\ b \in Ops /\ a \in AllOps /\ b \in AllOps
    BY <1>2, OpsTyped DEF OpNames
  <2>2. /\ a \notin SvcOps /\ a.task = h.task /\ a.st = h.st
        /\ b \notin SvcOps /\ b.task = h.task /\ b.st = h.st
    BY <2>1, OpsApart DEF Op
  <2>3. OneMethod(Tail(stack))
    BY <1>1, OneMethodTail DEF SvcInv, SvcTypes
  <2>4. CASE stack' = <<>> \o Tail(stack)
    <3>1. stack' = Tail(stack)
      BY <1>2, <2>4
    <3> QED
      BY <1>2, <2>3, <3>1
  <2> HIDE DEF a, b
  <2>5. CASE stack' = <<a, b>> \o Tail(stack)
    <3> DEFINE tl == Tail(stack)
    <3> tl \in Seq(AllOps)
      BY <1>2
    <3> HIDE DEF tl
    <3>1. OneMethod(stack')
      BY <1>2, <2>1, <2>2, <2>3, <2>5, OneMethodPushTwo DEF tl
    <3>2. Elems(<<a, b>> \o tl) = {a, b} \union Elems(tl)
      BY <2>1, ElemsPushTwo
    <3> QED
      BY <1>2, <2>1, <2>2, <2>5, <3>1, <3>2 DEF tl
  <2> QED
    BY <1>5, <2>4, <2>5 DEF a, b
<1>7. \A name \in SvcOpNames : On(name)' <=> On(name)
  <2>1. \A name \in SvcOpNames : SvcOp(name) \in SvcOps
    BY OpsTyped
  <2>2. \A o \in SvcOps : o \notin Ops
    BY OpsApart DEF AllOps
  <2> QED
    BY <1>2, <1>6, <2>1, <2>2 DEF On
<1>8. Fields' /\ StartAlone'
  BY <1>3, <1>7 DEF SvcInv, Fields, StartAlone, StartPending, svcVars, SvcOpNames
<1>9. ReadyMoves'
  <2> SUFFICES ASSUME cur # NoTask, state'[cur] = "READY", ~StartPending
               PROVE  FALSE
    BY <1>3 DEF ReadyMoves, StartPending, svcVars
  <2>1. cur \in Tasks /\ state \in [Tasks -> State]
    BY DEF SvcTypes, SvcTypeOK
  <2>2. state[cur] = "READY"
    BY <1>2, <1>4, <2>1
  <2>3. h \in {SetState(cur, "SCHEDULED"), SvcOp("scheduled")}
    BY <2>2 DEF SvcInv, ReadyMoves
  <2>4. h = SetState(cur, "SCHEDULED")
    BY <1>2, <2>3, OpsTyped DEF SvcOpNames
  <2>5. h.op = "setState" /\ h.task = cur /\ h.st = "SCHEDULED" /\ DoSetState
    <3>1. h.op = "setState" /\ h.task = cur /\ h.st = "SCHEDULED"
      BY <2>4 DEF SetState, Op
    <3> QED
      BY <3>1 DEF DoSetRunning, DoFire, DoSetValue, DoSetException, Top
  <2>6. state'[cur] = "SCHEDULED"
    BY <2>1, <2>2, <2>5 DEF DoSetState, DoSetStateThen, IgnoresSetState
  <2> QED
    BY <2>6
<1>10. \A t \in Tasks : OutcomeKnown(t)'
  <2> TAKE t \in Tasks
  <2>1. OutcomeKnown(t) /\ OutcomeKnown(h.task)
    BY <1>2 DEF SvcInv
  <2>2. Warranted(pc[h.task], fut[h.task], h.st)
    BY <1>2, <2>1 DEF OutcomeKnown
  <2>3. state'[t] = state[t] \/ Warranted(pc[t], fut[t], state'[t])
    BY <1>4, <2>2 DEF SvcTypes
  <2>4. \A o \in Elems(stack') : o.task = t => Warranted(pc[t], fut[t], o.st)
    BY <1>6, <2>1, <2>2 DEF OutcomeKnown
  <2> QED
    BY <1>3, <2>1, <2>3, <2>4 DEF OutcomeKnown
<1>11. NoOrphan'
  BY <1>3 DEF SvcInv, NoOrphan, svcVars
<1> QED
  BY <1>6, <1>8, <1>9, <1>10, <1>11 DEF SvcInv

(* What a runnable of a task is made of. *)
LEMMA BodyElems ==
  ASSUME NEW r \in Runnables
  PROVE  \A o \in Elems(Body(r)) :
           /\ o \in Ops /\ o.task = r.task
           /\ o.st = Leads(r.kind) \/ o.st \in Active
<1> DEFINE t == r.task
<1>1. t \in Tasks /\ r.kind \in Kinds
  BY DEF Runnables
<1>2. \A name \in OpNames, s \in State \ {"READY"} :
        Op(name, t, s) \in Ops /\ Op(name, t, s).task = t /\ Op(name, t, s).st = s
  BY <1>1, OpsTyped DEF Op
<1>3. CASE r.kind = "start"
  <2>1. Elems(Body(r)) = {SetState(t, "SCHEDULED"), SetState(t, "RUNNING")}
    BY <1>3, ElemsTwo DEF Body, StartBody
  <2> QED
    BY <1>2, <2>1 DEF SetState, OpNames, State, Active
<1>4. CASE r.kind = "succeed"
  <2>1. Elems(Body(r)) = {Op("value", t, "SUCCEEDED"), SetState(t, "SUCCEEDED")}
    BY <1>4, ElemsTwo DEF Body, SucceedBody
  <2> QED
    BY <1>2, <1>4, <2>1 DEF SetState, OpNames, State, Leads
<1>5. CASE r.kind = "fail"
  <2>1. Elems(Body(r)) = {Op("exception", t, "FAILED"), SetState(t, "FAILED")}
    BY <1>5, ElemsTwo DEF Body, FailBody
  <2> QED
    BY <1>2, <1>5, <2>1 DEF SetState, OpNames, State, Leads
<1>6. CASE r.kind = "cancel"
  <2>1. Elems(Body(r)) = {SetState(t, "CANCELLED")}
    BY <1>6, ElemsOne DEF Body, CancelBody
  <2> QED
    BY <1>2, <1>6, <2>1 DEF SetState, OpNames, State, Leads
<1> QED
  BY <1>1, <1>3, <1>4, <1>5, <1>6 DEF Kinds

LEMMA DispatchInv ==
  ASSUME SvcTypes, SvcInv, UNCHANGED svcVars, DispatchAs(SvcBody(Head(queue)))
  PROVE  SvcInv'
<1> USE DEF threadVars, fxVars, propVars
<1> DEFINE r == Head(queue)
<1>1. /\ stack = <<>> /\ queue # <<>> /\ stack' = SvcBody(r) /\ queue' = Tail(queue)
      /\ callback' = FALSE /\ UNCHANGED <<fut, pc, posting, state>>
  BY DEF DispatchAs
<1>2. /\ r \in AllRunnables /\ Tail(queue) \in Seq(AllRunnables)
      /\ Elems(queue) = {r} \union Elems(Tail(queue))
  BY <1>1, ElemsTail DEF SvcTypes
<1>3. StartPending <=> starting \/ PostedStart \in Elems(queue)
  BY PendingElems DEF StartPending, SvcTypes
<1>4. StartPending' <=> starting \/ PostedStart \in Elems(queue')
  BY <1>1, <1>2, PendingElems DEF StartPending, svcVars
<1>5. \A name : ~On(name)
  BY <1>1, ElemsOne DEF On
<1>6. NoOrphan'
  BY <1>1 DEF SvcInv, NoOrphan, svcVars
<1>7. CASE r = PostedStart
  <2>1. stack' = <<SvcOp("scheduled"), SvcOp("execute")>>
    BY <1>1, <1>2, <1>7, BodyTyped
  <2>2. Elems(stack') = {SvcOp("scheduled"), SvcOp("execute")}
    BY <2>1, ElemsTwo
  <2>3. \A name \in SvcOpNames : On(name)' => name \in {"scheduled", "execute"}
    BY <2>2 DEF On, SvcOp, Op
  <2>4. On("scheduled")'
    BY <2>2 DEF On
  <2>5. Fields' /\ StartAlone'
    BY <1>1, <1>5, <2>3, <2>4 DEF SvcInv, Fields, StartAlone, svcVars, SvcOpNames
  <2>6. OneMethod(stack')
    <3>1. /\ SvcOp("scheduled") \in AllOps /\ SvcOp("execute") \in AllOps
      BY OpsTyped DEF SvcOpNames
    <3>2. <<>> \in Seq(AllOps) /\ Elems(<<>>) = {} /\ OneMethod(<<>>)
      <4>1. <<>> \in Seq(AllOps)
        OBVIOUS
      <4>2. Elems(<<>>) = {}
        BY ElemsOne
      <4> QED
        BY <4>1, <4>2, OneMethodNone
    <3>3. Follows(SvcOp("scheduled"), SvcOp("execute"))
      BY DEF Follows
    <3>4. OneMethod(<<SvcOp("scheduled"), SvcOp("execute")>> \o <<>>)
      BY <3>1, <3>2, <3>3, OneMethodPushTwo
    <3> QED
      BY <2>1, <3>4
  <2>7. ReadyMoves'
    BY <1>1, <2>1 DEF ReadyMoves
  <2>8. \A t \in Tasks : OutcomeKnown(t)'
    <3> TAKE t \in Tasks
    <3>1. OutcomeKnown(t)
      BY DEF SvcInv
    <3>2. \A o \in Elems(stack') : o.task # t
      BY <2>2, ServiceAssumption DEF SvcOp, Op
    <3> QED
      BY <1>1, <1>2, <3>1, <3>2 DEF OutcomeKnown
  <2> QED
    BY <1>6, <2>5, <2>6, <2>7, <2>8 DEF SvcInv
<1>8. CASE r # PostedStart
  <2>1. r \in Runnables /\ stack' = Body(r) /\ Body(r) \in Seq(Ops) /\ stack' \in Seq(AllOps)
    BY <1>1, <1>2, <1>8, BodyTyped
  <2>2. \A o \in Elems(stack') :
          /\ o \in Ops /\ o \notin SvcOps /\ o.task = r.task
          /\ o.st = Leads(r.kind) \/ o.st \in Active
    BY <2>1, BodyElems, OpsApart DEF AllOps
  <2>3. \A name \in SvcOpNames : ~On(name)'
    BY <2>2, OpsTyped DEF On
  <2>4. Fields' /\ StartAlone'
    BY <1>1, <1>5, <2>3 DEF SvcInv, Fields, StartAlone, svcVars, SvcOpNames
  <2>5. OneMethod(stack')
    BY <2>1, <2>2, OneMethodNone
  <2>6. ReadyMoves'
    BY <1>1, <1>2, <1>3, <1>4, <1>8 DEF SvcInv, ReadyMoves, svcVars
  <2>7. \A t \in Tasks : OutcomeKnown(t)'
    <3> TAKE t \in Tasks
    <3>1. OutcomeKnown(t)
      BY DEF SvcInv
    <3>2. \A o \in Elems(stack') : o.task = t => Warranted(pc[t], fut[t], o.st)
      BY <1>2, <2>2, <3>1 DEF OutcomeKnown, Warranted, Active
    <3> QED
      BY <1>1, <1>2, <3>1, <3>2 DEF OutcomeKnown
  <2> QED
    BY <1>6, <2>4, <2>5, <2>6, <2>7 DEF SvcInv
<1> QED
  BY <1>7, <1>8

-----------------------------------------------------------------------------
(* The parts of the service's methods.                                     *)

LEMMA FollowsNames ==
  ASSUME NEW a \in SvcOpNames, NEW b \in SvcOpNames, Follows(SvcOp(a), SvcOp(b))
  PROVE  <<a, b>> \in {<<"unwire", "start">>, <<"drop", "resetStart">>, <<"scheduled", "execute">>}
  BY DEF Follows, SvcOp, Op

(* What may be below a part of a method, by name. *)
LEMMA Below ==
  ASSUME SvcTypes, OneMethod(stack), NEW name \in SvcOpNames, Top(name),
         NEW b \in SvcOpNames, SvcOp(b) \in Elems(Tail(stack))
  PROVE  <<name, b>> \in {<<"unwire", "start">>, <<"drop", "resetStart">>, <<"scheduled", "execute">>}
<1>1. Follows(SvcOp(name), SvcOp(b))
  BY HeadPart, OpsTyped
<1> QED
  BY <1>1, FollowsNames

(* Below most parts there is nothing. *)
LEMMA BelowNone ==
  ASSUME SvcTypes, OneMethod(stack), NEW name \in {"reset", "resetStart", "start", "execute"},
         Top(name)
  PROVE  Elems(Tail(stack)) = {}
<1>1. name \in SvcOpNames
  BY DEF SvcOpNames
<1>2. \A o \in Elems(Tail(stack)) : Follows(SvcOp(name), o)
  BY <1>1, HeadPart
<1>3. \A o : ~Follows(SvcOp(name), o)
  BY DEF Follows, SvcOp, Op
<1> QED
  BY <1>2, <1>3

LEMMA UnwireInv ==
  ASSUME SvcTypes, SvcInv, DoUnwire
  PROVE  SvcInv'
<1> USE DEF threadVars, fxVars, propVars
<1>1. Top("unwire") /\ OneMethod(stack) /\ "unwire" \in SvcOpNames
  BY DEF DoUnwire, SvcInv, SvcOpNames
<1>2. stack' = Tail(stack)
  <2>1. Tail(stack) \in Seq(AllOps)
    BY <1>1, HeadPart
  <2>2. stack' = <<>> \o Tail(stack)
    BY DEF DoUnwire, Pop
  <2> QED
    BY <2>1, <2>2
<1>3. Elems(stack') \subseteq Elems(stack) /\ OneMethod(stack') /\ On("unwire")
  BY <1>1, <1>2, HeadPart
<1>4. \A name \in SvcOpNames : On(name)' => On(name) /\ name = "start"
  BY <1>1, <1>2, <1>3, Below DEF On
<1>5. cur = NoTask /\ wired' = NoTask
  BY <1>3 DEF SvcInv, Fields, DoUnwire
<1>6. UNCHANGED <<fut, pc, posting, queue, state, cur, own, startedOnce, starting, created>>
  BY DEF DoUnwire
<1>7. Fields' /\ StartAlone'
  BY <1>4, <1>5, <1>6 DEF SvcInv, Fields, StartAlone, StartPending, SvcOpNames
<1>8. ReadyMoves' /\ NoOrphan'
  BY <1>5, <1>6 DEF SvcInv, ReadyMoves, NoOrphan
<1>9. \A t \in Tasks : OutcomeKnown(t)'
  BY <1>3, <1>6, OutcomeSame
<1> QED
  BY <1>3, <1>7, <1>8, <1>9 DEF SvcInv

LEMMA StartInv ==
  ASSUME SvcTypes, SvcInv, DoStart
  PROVE  SvcInv'
<1> USE DEF threadVars, fxVars, propVars
<1>1. Top("start") /\ OneMethod(stack) /\ "start" \in SvcOpNames
  BY DEF DoStart, SvcInv, SvcOpNames
<1>2. /\ stack # <<>> /\ Head(stack) = SvcOp("start") /\ On("start")
      /\ OneMethod(Tail(stack)) /\ Tail(stack) \in Seq(AllOps)
      /\ Elems(stack) = {SvcOp("start")} \union Elems(Tail(stack))
  BY <1>1, HeadPart
<1>3. \A name \in SvcOpNames : SvcOp(name) \notin Elems(Tail(stack))
  BY <1>1, Below
<1>4. Elems(Tail(stack)) = {}
  BY <1>1, BelowNone
<1>5. \A name \in SvcOpNames : On(name) => name = "start"
  BY <1>2, <1>3 DEF On, SvcOp, Op
<1>6. wired = cur /\ ~StartPending
  BY <1>2, <1>5 DEF SvcInv, Fields, StartAlone, SvcOpNames
<1>7. UNCHANGED <<fut, pc, posting, queue, state, starting>>
  BY DEF DoStart, svcVars
<1>8. ~StartPending'
  BY <1>6, <1>7 DEF StartPending
<1>9. cur # NoTask => state[cur] # "READY"
  <2>1. /\ SvcOp("start") # SvcOp("scheduled")
        /\ SvcOp("start") # SetState(cur, "SCHEDULED")
    BY DEF SvcOp, SetState, Op
  <2> QED
    BY <1>2, <1>6, <2>1 DEF SvcInv, ReadyMoves
<1>10. CASE SvcState # "READY"
  <2>1. stack' = Tail(stack) /\ UNCHANGED svcVars
    BY <1>2, <1>10 DEF DoStart, Pop
  <2>2. \A name \in SvcOpNames : ~On(name)'
    BY <1>3, <2>1 DEF On
  <2>3. Fields' /\ StartAlone'
    BY <1>6, <1>8, <2>1, <2>2 DEF SvcInv, Fields, StartAlone, SvcOpNames, svcVars
  <2>4. ReadyMoves' /\ NoOrphan'
    BY <1>7, <1>9, <2>1 DEF SvcInv, ReadyMoves, NoOrphan, svcVars
  <2>5. \A t \in Tasks : OutcomeKnown(t)'
    BY <1>2, <1>7, <2>1, OutcomeSame
  <2> QED
    BY <1>2, <2>1, <2>3, <2>4, <2>5 DEF SvcInv
<1>11. CASE SvcState = "READY"
  <2>1. cur = NoTask
    BY <1>9, <1>11 DEF SvcState
  <2>2. PICK t \in Tasks : Wire(t) /\ Pop(<<SetState(t, "SCHEDULED"), SvcOp("execute")>>, FALSE)
    BY <1>11 DEF DoStart
  <2>3. /\ stack' = <<SetState(t, "SCHEDULED"), SvcOp("execute")>> \o Tail(stack)
        /\ callback' = FALSE /\ cur' = t /\ wired' = t /\ startedOnce' = TRUE
        /\ created' = created \union {t} /\ t # NoTask
    BY <2>2, ServiceAssumption DEF Wire, Pop
  <2>4. /\ SetState(t, "SCHEDULED") \in AllOps /\ SetState(t, "SCHEDULED") \notin SvcOps
        /\ SvcOp("execute") \in AllOps
    <3>1. SetState(t, "SCHEDULED") \in Ops /\ SetState(t, "SCHEDULED") \in AllOps
      BY OpsTyped DEF SetState, OpNames, State
    <3> QED
      BY <3>1, OpsTyped, OpsApart DEF SvcOpNames
  <2>5. OneMethod(stack')
    BY <1>2, <1>4, <2>3, <2>4, OneMethodPushTwo
  <2>6. Elems(stack') = {SetState(t, "SCHEDULED"), SvcOp("execute")} \union Elems(Tail(stack))
    <3> DEFINE a == SetState(t, "SCHEDULED")
               tl == Tail(stack)
    <3>1. a \in AllOps /\ tl \in Seq(AllOps) /\ SvcOp("execute") \in AllOps
      BY <1>2, <2>4
    <3> HIDE DEF a, tl
    <3>2. Elems(<<a, SvcOp("execute")>> \o tl) = {a, SvcOp("execute")} \union Elems(tl)
      BY <3>1, ElemsPushTwo
    <3> QED
      BY <2>3, <3>2 DEF a, tl
  <2>7. \A name \in SvcOpNames : On(name)' => name = "execute"
    BY <1>3, <2>4, <2>6, OpsTyped DEF On, SvcOp, Op
  <2>8. Fields' /\ StartAlone'
    BY <1>8, <2>3, <2>7 DEF Fields, StartAlone, SvcOpNames
  <2>9. ReadyMoves'
    <3>1. stack' # <<>> /\ Head(stack') = SetState(t, "SCHEDULED")
      BY <1>2, <2>3
    <3> QED
      BY <2>3, <3>1 DEF ReadyMoves
  <2>10. NoOrphan'
    BY <1>7, <2>1, <2>3, ServiceAssumption DEF SvcInv, NoOrphan, SvcTypes, SvcTypeOK
  <2>11. \A u \in Tasks : OutcomeKnown(u)'
    <3>1. SvcOp("execute") \in SvcOps /\ SetState(t, "SCHEDULED").st = "SCHEDULED"
      BY OpsTyped DEF SetState, Op, SvcOpNames
    <3> QED
      BY <1>2, <1>7, <2>6, <3>1, OutcomeSame
  <2> QED
    BY <2>5, <2>8, <2>9, <2>10, <2>11 DEF SvcInv
<1> QED
  BY <1>10, <1>11

LEMMA ExecuteInv ==
  ASSUME SvcTypes, SvcInv, DoExecute
  PROVE  SvcInv'
<1> USE DEF threadVars, fxVars, propVars
<1>1. Top("execute") /\ OneMethod(stack) /\ "execute" \in SvcOpNames
  BY DEF DoExecute, SvcInv, SvcOpNames
<1>2. /\ stack # <<>> /\ Head(stack) = SvcOp("execute") /\ On("execute")
      /\ OneMethod(Tail(stack)) /\ Tail(stack) \in Seq(AllOps)
      /\ Elems(stack) = {SvcOp("execute")} \union Elems(Tail(stack))
  BY <1>1, HeadPart
<1>3. \A name \in SvcOpNames : SvcOp(name) \notin Elems(Tail(stack))
  BY <1>1, Below
<1>4. \A name \in SvcOpNames : On(name) => name = "execute"
  BY <1>2, <1>3 DEF On, SvcOp, Op
<1>5. cur # NoTask /\ cur \in Tasks /\ wired = cur
  BY <1>2, <1>4 DEF SvcInv, Fields, SvcOpNames, SvcTypes, SvcTypeOK
<1>6. /\ UNCHANGED <<fut, posting, queue, state>> /\ UNCHANGED svcVars
      /\ stack' = Tail(stack)
      /\ pc' = pc \/ (pc[cur] = "new" /\ pc' = [pc EXCEPT ![cur] = "submitted"])
  BY <1>2 DEF DoExecute, Pop, Executable
<1>7. \A name \in SvcOpNames : ~On(name)'
  BY <1>3, <1>6 DEF On
<1>8. Fields' /\ StartAlone'
  BY <1>5, <1>6, <1>7 DEF SvcInv, Fields, StartAlone, SvcOpNames, svcVars
<1>9. ReadyMoves'
  <2>1. /\ SvcOp("execute") # SvcOp("scheduled")
        /\ SvcOp("execute") # SetState(cur, "SCHEDULED")
    BY DEF SvcOp, SetState, Op
  <2> QED
    BY <1>2, <1>6, <2>1 DEF SvcInv, ReadyMoves, StartPending, svcVars
<1>10. NoOrphan'
  <2>1. \A t \in created \ {cur} : pc'[t] = pc[t]
    BY <1>6 DEF SvcTypes, SvcTypeOK
  <2> QED
    BY <1>6, <2>1 DEF SvcInv, NoOrphan, svcVars
<1>11. \A t \in Tasks : OutcomeKnown(t)'
  <2> TAKE t \in Tasks
  <2>1. OutcomeKnown(t)
    BY DEF SvcInv
  <2>2. pc'[t] = pc[t] \/ (pc[t] = "new" /\ pc'[t] = "submitted")
    BY <1>5, <1>6 DEF SvcTypes
  <2>3. \A s : Warranted(pc[t], fut[t], s) => Warranted(pc'[t], fut'[t], s)
    BY <1>6, <2>2 DEF Warranted
  <2>4. pc'[t] = "done" => fut'[t] # "NEW"
    BY <1>6, <2>1, <2>2 DEF OutcomeKnown
  <2>5. Elems(stack') \subseteq Elems(stack)
    BY <1>2, <1>6
  <2> QED
    BY <1>6, <2>1, <2>3, <2>4, <2>5, OutcomeFrame
<1> QED
  BY <1>2, <1>6, <1>8, <1>9, <1>10, <1>11 DEF SvcInv

LEMMA DropInv ==
  ASSUME SvcTypes, SvcInv, DoDrop
  PROVE  SvcInv'
<1> USE DEF threadVars, fxVars, propVars
<1>1. Top("drop") /\ OneMethod(stack) /\ "drop" \in SvcOpNames
  BY DEF DoDrop, SvcInv, SvcOpNames
<1>2. /\ stack # <<>> /\ Head(stack) = SvcOp("drop") /\ On("drop")
      /\ OneMethod(Tail(stack)) /\ Tail(stack) \in Seq(AllOps)
      /\ Elems(stack) = {SvcOp("drop")} \union Elems(Tail(stack))
  BY <1>1, HeadPart
<1>3. cur # NoTask /\ fut[cur] # "NEW" /\ On("resetStart")
  BY <1>2 DEF SvcInv, Fields
<1>4. /\ UNCHANGED <<fut, pc, posting, queue, state, wired, startedOnce, starting, created>>
      /\ stack' = Tail(stack) /\ cur' = NoTask /\ own' = "CANCELLED"
  BY <1>2 DEF DoDrop, Pop, Detach
<1>5. /\ On("resetStart")'
      /\ \A name \in SvcOpNames : On(name)' => name = "resetStart" /\ On(name)
  <2>1. SvcOp("resetStart") # SvcOp("drop")
    BY DEF SvcOp, Op
  <2>2. On("resetStart")'
    BY <1>2, <1>3, <1>4, <2>1 DEF On
  <2>3. \A name \in SvcOpNames : On(name)' => name = "resetStart" /\ On(name)
    BY <1>1, <1>2, <1>4, Below DEF On
  <2> QED
    BY <2>2, <2>3
<1>6. Fields' /\ StartAlone'
  BY <1>3, <1>4, <1>5 DEF SvcInv, Fields, StartAlone, StartPending, SvcOpNames
<1>7. ReadyMoves' /\ NoOrphan'
  BY <1>3, <1>4 DEF SvcInv, ReadyMoves, NoOrphan
<1>8. \A t \in Tasks : OutcomeKnown(t)'
  BY <1>2, <1>4, OutcomeSame
<1> QED
  BY <1>2, <1>4, <1>6, <1>7, <1>8 DEF SvcInv

LEMMA ScheduledInv ==
  ASSUME SvcTypes, SvcInv, DoScheduled
  PROVE  SvcInv'
<1> USE DEF threadVars, fxVars, propVars
<1>1. Top("scheduled") /\ OneMethod(stack) /\ "scheduled" \in SvcOpNames
  BY DEF DoScheduled, SvcInv, SvcOpNames
<1>2. /\ stack # <<>> /\ Head(stack) = SvcOp("scheduled") /\ On("scheduled")
      /\ OneMethod(Tail(stack)) /\ Tail(stack) \in Seq(AllOps)
      /\ Elems(stack) = {SvcOp("scheduled")} \union Elems(Tail(stack))
  BY <1>1, HeadPart
<1>3. \A name \in SvcOpNames : SvcOp(name) \in Elems(Tail(stack)) => name = "execute"
  BY <1>1, Below
<1>4. \A name \in SvcOpNames : On(name) => name \in {"scheduled", "execute"}
  BY <1>2, <1>3 DEF On, SvcOp, Op
<1>5. UNCHANGED <<fut, pc, posting, queue, state>> /\ UNCHANGED svcVars /\ callback' = FALSE
  BY DEF DoScheduled
<1>6. wired = cur
  BY <1>4 DEF SvcInv, Fields, SvcOpNames
<1>7. NoOrphan'
  BY <1>5 DEF SvcInv, NoOrphan, svcVars
<1>8. CASE cur = NoTask
  <2>1. stack' = <<>> /\ Elems(stack') = {} /\ <<>> \in Seq(AllOps)
    <3>1. stack' = <<>>
      BY <1>8 DEF DoScheduled
    <3>2. <<>> \in Seq(AllOps)
      OBVIOUS
    <3> QED
      BY <3>1, <3>2, ElemsOne
  <2>2. OneMethod(stack')
    BY <2>1, OneMethodNone
  <2>3. \A name : ~On(name)'
    BY <2>1 DEF On
  <2>4. Fields' /\ StartAlone' /\ ReadyMoves'
    BY <1>5, <1>6, <1>8, <2>3 DEF SvcInv, Fields, StartAlone, ReadyMoves, svcVars
  <2>5. \A t \in Tasks : OutcomeKnown(t)'
    BY <1>5, <2>1, OutcomeSame
  <2> QED
    BY <1>7, <2>2, <2>4, <2>5 DEF SvcInv
<1>9. CASE cur # NoTask
  <2> DEFINE o == SetState(cur, "SCHEDULED")
             tl == Tail(stack)
  <2>1. cur \in Tasks /\ stack' = <<o>> \o tl
    BY <1>9 DEF DoScheduled, SvcTypes, SvcTypeOK
  <2>2. o \in AllOps /\ o \notin SvcOps /\ o.st = "SCHEDULED"
    <3>1. o \in Ops /\ o \in AllOps
      BY <2>1, OpsTyped DEF SetState, OpNames, State
    <3> QED
      BY <3>1, OpsApart DEF SetState, Op
  <2>3. tl \in Seq(AllOps) /\ OneMethod(tl)
    BY <1>2
  <2>4. OneMethod(<<o>> \o tl)
    BY <2>2, <2>3, OneMethodPush
  <2>5. Elems(<<o>> \o tl) = {o} \union Elems(tl)
    <3> HIDE DEF o, tl
    <3> QED
      BY <2>2, <2>3, ElemsPush
  <2>6. \A name \in SvcOpNames : On(name)' => name = "execute"
    BY <1>3, <2>1, <2>2, <2>5, OpsTyped DEF On
  <2>7. Fields' /\ StartAlone'
    BY <1>5, <1>6, <1>9, <2>6 DEF SvcInv, Fields, StartAlone, SvcOpNames, svcVars
  <2>8. ReadyMoves'
    <3>1. stack' # <<>> /\ Head(stack') = o
      BY <2>1, <2>3
    <3> QED
      BY <1>5, <3>1 DEF ReadyMoves, svcVars
  <2>9. \A t \in Tasks : OutcomeKnown(t)'
    BY <1>2, <1>5, <2>1, <2>2, <2>5, OutcomeSame
  <2> QED
    BY <1>7, <2>1, <2>4, <2>7, <2>8, <2>9 DEF SvcInv
<1> QED
  BY <1>8, <1>9

LEMMA ResetInv ==
  ASSUME SvcTypes, SvcInv, DoReset
  PROVE  SvcInv'
<1> USE DEF threadVars, fxVars, propVars
<1>1. PICK name \in {"reset", "resetStart"} :
        /\ Top(name)
        /\ ResetThen(IF name = "reset" THEN <<>> ELSE <<SvcOp("start")>>)
  <2>1. CASE Top("reset") /\ ResetThen(<<>>)
    BY <2>1
  <2>2. CASE Top("resetStart") /\ ResetThen(<<>> \o <<SvcOp("start")>>)
    <3>1. <<>> \o <<SvcOp("start")>> = <<SvcOp("start")>>
      OBVIOUS
    <3>2. ResetThen(<<SvcOp("start")>>)
      BY <2>2, <3>1
    <3> QED
      BY <2>2, <3>2
  <2> QED
    BY <2>1, <2>2 DEF DoReset, DoResetAnd
<1>2. name \in SvcOpNames /\ OneMethod(stack)
  BY DEF SvcInv, SvcOpNames
<1>3. /\ stack # <<>> /\ Head(stack) = SvcOp(name) /\ On(name)
      /\ OneMethod(Tail(stack)) /\ Tail(stack) \in Seq(AllOps)
      /\ Elems(stack) = {SvcOp(name)} \union Elems(Tail(stack))
  BY <1>1, <1>2, HeadPart
<1>4. \A b \in SvcOpNames : SvcOp(b) \notin Elems(Tail(stack))
  BY <1>1, <1>2, Below
<1>5. \A b \in SvcOpNames : On(b) => b = name
  BY <1>3, <1>4 DEF On, SvcOp, Op
<1>6. ~StartPending
  BY <1>3, <1>5 DEF SvcInv, StartAlone
<1>7. UNCHANGED <<fut, pc, posting, queue, state, starting, wired, startedOnce, created>>
  BY <1>1 DEF DoReset, DoResetAnd, ResetThen, svcVars
<1>8. ~StartPending'
  BY <1>6, <1>7 DEF StartPending
<1>9. cur # NoTask => state[cur] # "READY"
  <2>1. SvcOp(name) # SvcOp("scheduled") /\ SvcOp(name) # SetState(cur, "SCHEDULED")
    BY <1>2 DEF SvcOp, SetState, Op, SvcOpNames
  <2> QED
    BY <1>3, <1>6, <2>1 DEF SvcInv, ReadyMoves
<1>10. CASE ResetRefused
  <2>1. stack' = Tail(stack) /\ UNCHANGED svcVars
    <3>1. stack' = <<>> \o Tail(stack) /\ UNCHANGED svcVars
      BY <1>1, <1>10 DEF ResetThen, Pop
    <3> QED
      BY <1>3, <3>1
  <2>2. \A b \in SvcOpNames : ~On(b)'
    BY <1>4, <2>1 DEF On
  <2>3. wired = cur
    <3>1. cur = NoTask => own # "CANCELLED"
      BY <1>10 DEF ResetRefused, SvcState, Active
    <3> QED
      BY <1>5, <3>1 DEF SvcInv, Fields, SvcOpNames
  <2>4. Fields' /\ StartAlone'
    BY <1>8, <2>1, <2>2, <2>3 DEF SvcInv, Fields, StartAlone, SvcOpNames, svcVars
  <2>5. ReadyMoves' /\ NoOrphan'
    BY <1>7, <1>9, <2>1 DEF SvcInv, ReadyMoves, NoOrphan, svcVars
  <2>6. \A t \in Tasks : OutcomeKnown(t)'
    BY <1>3, <1>7, <2>1, OutcomeSame
  <2> QED
    BY <1>3, <2>1, <2>4, <2>5, <2>6 DEF SvcInv
<1>11. CASE ~ResetRefused
  <2>1. cur' = NoTask /\ own' = "READY"
    BY <1>1, <1>11 DEF ResetThen, Detach
  <2>2. /\ OneMethod(stack')
        /\ Elems(stack') \subseteq {SvcOp("unwire"), SvcOp("start")} \union Elems(Tail(stack))
        /\ On("unwire")'
    <3> DEFINE tl == Tail(stack)
    <3>1. /\ SvcOp("unwire") \in AllOps /\ SvcOp("start") \in AllOps
          /\ Follows(SvcOp("unwire"), SvcOp("start"))
      BY OpsTyped DEF SvcOpNames, Follows
    <3>2. tl \in Seq(AllOps) /\ OneMethod(tl) /\ Elems(tl) = {}
      BY <1>1, <1>2, <1>3, BelowNone
    <3>3. stack' = <<SvcOp("unwire")>> \o tl \/ stack' = <<SvcOp("unwire"), SvcOp("start")>> \o tl
      <4>1. /\ <<SvcOp("unwire")>> \o <<>> = <<SvcOp("unwire")>>
            /\ <<SvcOp("unwire")>> \o <<SvcOp("start")>> = <<SvcOp("unwire"), SvcOp("start")>>
        BY PairConcat
      <4> QED
        BY <1>1, <1>11, <4>1 DEF ResetThen, Pop
    <3> HIDE DEF tl
    <3>4. CASE stack' = <<SvcOp("unwire")>> \o tl
      <4>1. OneMethod(stack') /\ Elems(stack') = {SvcOp("unwire")} \union Elems(tl)
        BY <3>1, <3>2, <3>4, OneMethodPush, ElemsPush
      <4> QED
        BY <4>1 DEF On, tl
    <3>5. CASE stack' = <<SvcOp("unwire"), SvcOp("start")>> \o tl
      <4>1. OneMethod(stack')
        BY <3>1, <3>2, <3>5, OneMethodPushTwo
      <4>2. Elems(stack') = {SvcOp("unwire"), SvcOp("start")} \union Elems(tl)
        BY <3>1, <3>2, <3>5, ElemsPushTwo
      <4> QED
        BY <4>1, <4>2 DEF On, tl
    <3> QED
      BY <3>3, <3>4, <3>5
  <2>3. \A b \in SvcOpNames : On(b)' => b \in {"unwire", "start"}
    BY <1>4, <2>2 DEF On, SvcOp, Op
  <2>4. Fields' /\ StartAlone'
    BY <1>7, <1>8, <2>1, <2>2, <2>3 DEF SvcInv, Fields, StartAlone, SvcOpNames
  <2>5. ReadyMoves'
    BY <2>1 DEF ReadyMoves
  <2>6. NoOrphan'
    <3>1. cur \in created /\ fut[cur] = "NEW" => pc[cur] \in {"setting", "throwing"}
      <4> SUFFICES ASSUME cur \in created, fut[cur] = "NEW"
                   PROVE  pc[cur] \in {"setting", "throwing"}
        OBVIOUS
      <4>1. cur \in Tasks /\ cur # NoTask /\ state[cur] \in State
        BY ServiceAssumption DEF SvcTypes, SvcTypeOK
      <4>2. state[cur] \in {"SUCCEEDED", "FAILED", "CANCELLED"}
        BY <1>9, <1>11, <4>1 DEF ResetRefused, SvcState, Active, State
      <4>3. OutcomeKnown(cur)
        BY <4>1 DEF SvcInv
      <4> QED
        BY <4>2, <4>3 DEF OutcomeKnown, Warranted
    <3> QED
      BY <1>7, <3>1 DEF SvcInv, NoOrphan
  <2>7. \A t \in Tasks : OutcomeKnown(t)'
    <3>1. SvcOp("unwire") \in SvcOps /\ SvcOp("start") \in SvcOps
      BY OpsTyped DEF SvcOpNames
    <3> QED
      BY <1>3, <1>7, <2>2, <3>1, OutcomeSame
  <2> QED
    BY <2>2, <2>4, <2>5, <2>6, <2>7 DEF SvcInv
<1> QED
  BY <1>10, <1>11

-----------------------------------------------------------------------------
(* The calls.                                                              *)

(* The use of a service that the theorems below are about: handlers and    *)
(* listeners call nothing but cancel(), and while a first start() is on    *)
(* its way from another thread the service is not started, restarted or    *)
(* reset.                                                                  *)
OrderlyUse == Reentrant \subseteq {"cancel"} /\ ~EarlyUse

LEMMA EmptyStack ==
  ASSUME stack = <<>>
  PROVE  /\ Elems(stack) = {} /\ stack \in Seq(AllOps) /\ OneMethod(stack)
         /\ \A name : ~On(name)
<1>1. <<>> \in Seq(AllOps) /\ \A s : <<>> \o s = <<>> \o s
  OBVIOUS
<1>2. Elems(<<>>) = {}
  BY ElemsOne
<1> QED
  BY <1>1, <1>2, OneMethodNone DEF On

(* User code calls start() or reset(). *)
LEMMA StartResetInv ==
  ASSUME OrderlyUse, SvcTypes, SvcInv, Start \/ Reset
  PROVE  SvcInv'
<1> USE DEF threadVars, fxVars, propVars
<1>1. PICK name \in {"start", "reset"} : MayRenew(name) /\ Invoke(<<SvcOp(name)>>)
  BY DEF Start, Reset
<1>2. stack = <<>> /\ ~StartPending
  BY <1>1 DEF MayRenew, MayCall, OrderlyUse
<1>3. UNCHANGED <<fut, pc, posting, queue, state, cur, own, wired, startedOnce, starting, created>>
  BY DEF Start, Reset
<1>4. ~StartPending'
  BY <1>2, <1>3 DEF StartPending
<1>5. Elems(stack) = {} /\ stack \in Seq(AllOps) /\ OneMethod(stack) /\ \A n : ~On(n)
  BY <1>2, EmptyStack
<1>6. SvcOp(name) \in SvcOps /\ SvcOp(name) \in AllOps
  BY OpsTyped DEF SvcOpNames
<1>7. stack' = <<SvcOp(name)>> \o stack
  BY <1>1 DEF Invoke
<1>8. OneMethod(stack') /\ Elems(stack') = {SvcOp(name)}
  BY <1>5, <1>6, <1>7, OneMethodPush, ElemsPush
<1>9. \A n \in SvcOpNames : On(n)' => n = name
  BY <1>8 DEF On, SvcOp, Op
<1>10. Fields' /\ StartAlone'
  BY <1>3, <1>4, <1>5, <1>9 DEF SvcInv, Fields, StartAlone, SvcOpNames
<1>11. ReadyMoves' /\ NoOrphan'
  BY <1>2, <1>3 DEF SvcInv, ReadyMoves, NoOrphan
<1>12. \A t \in Tasks : OutcomeKnown(t)'
  BY <1>3, <1>6, <1>8, OutcomeSame
<1> QED
  BY <1>8, <1>10, <1>11, <1>12 DEF SvcInv

(* User code calls restart(). *)
LEMMA RestartInv ==
  ASSUME OrderlyUse, SvcTypes, SvcInv, Restart
  PROVE  SvcInv'
<1> USE DEF threadVars, fxVars, propVars
<1>1. stack = <<>> /\ ~StartPending
  BY DEF Restart, MayRenew, MayCall, OrderlyUse
<1>2. UNCHANGED <<pc, posting, queue, state, cur, own, wired, startedOnce, starting, created>>
  BY DEF Restart
<1>3. ~StartPending'
  BY <1>1, <1>2 DEF StartPending
<1>4. Elems(<<>>) = {} /\ <<>> \in Seq(AllOps) /\ OneMethod(<<>>) /\ \A n : ~On(n)
  BY <1>1, EmptyStack
<1>5. wired = cur /\ (cur # NoTask => state[cur] # "READY")
  BY <1>1, <1>4 DEF SvcInv, Fields, ReadyMoves
<1> DEFINE dr == SvcOp("drop")
           rs == SvcOp("resetStart")
           ca == SetState(cur, "CANCELLED")
<1>6. /\ dr \in SvcOps /\ dr \in AllOps /\ rs \in SvcOps /\ rs \in AllOps /\ Follows(dr, rs)
      /\ cur # NoTask => ca \in AllOps /\ ca \notin SvcOps /\ ca.st = "CANCELLED" /\ ca.task = cur
  <2>1. dr \in SvcOps /\ dr \in AllOps /\ rs \in SvcOps /\ rs \in AllOps /\ Follows(dr, rs)
    BY OpsTyped DEF SvcOpNames, Follows
  <2>2. cur # NoTask => ca \in AllOps /\ ca \in Ops
    BY OpsTyped DEF SetState, OpNames, State, SvcTypes, SvcTypeOK
  <2>3. ca.st = "CANCELLED" /\ ca.task = cur /\ ca.op = "setState"
    BY DEF SetState, Op
  <2> QED
    BY <2>1, <2>2, <2>3, OpsApart DEF OpNames
<1>7. /\ fut' = fut \/ (cur # NoTask /\ fut[cur] = "NEW" /\ fut' = [fut EXCEPT ![cur] = "CANCELLED"])
      /\ \/ cur = NoTask /\ stack' = <<rs>>
         \/ cur # NoTask /\ fut'[cur] # "NEW" /\ stack' = <<dr, rs>>
         \/ cur # NoTask /\ fut'[cur] = "CANCELLED" /\ stack' = <<ca, dr, rs>>
  <2>1. cur # NoTask => cur \in Tasks
    BY DEF SvcTypes, SvcTypeOK
  <2>2. /\ <<rs>> \o <<>> = <<rs>> /\ <<dr, rs>> \o <<>> = <<dr, rs>>
        /\ <<ca, dr, rs>> \o <<>> = <<ca, dr, rs>>
    OBVIOUS
  <2>3. CASE cur = NoTask /\ Invoke(<<SvcOp("resetStart")>>) /\ UNCHANGED fut
    BY <1>1, <2>2, <2>3 DEF Invoke
  <2>4. CASE TaskIsDone /\ Invoke(<<SvcOp("drop"), SvcOp("resetStart")>>) /\ UNCHANGED fut
    BY <1>1, <2>2, <2>4 DEF Invoke, TaskIsDone
  <2>5. CASE /\ cur # NoTask /\ FutureCancel(cur)
             /\ Invoke(<<SetState(cur, "CANCELLED"), SvcOp("drop"), SvcOp("resetStart")>>)
    BY <1>1, <2>1, <2>2, <2>5 DEF Invoke, FutureCancel, SvcTypes
  <2> QED
    BY <2>3, <2>4, <2>5 DEF Restart
<1> HIDE DEF dr, rs, ca
<1>8. /\ OneMethod(stack')
      /\ rs \in Elems(stack')
      /\ dr \in Elems(stack') => cur # NoTask /\ fut'[cur] # "NEW"
      /\ \A o \in Elems(stack') :
           o \in {dr, rs} \/ (o = ca /\ cur # NoTask /\ fut'[cur] = "CANCELLED")
  <2>1. OneMethod(<<rs>>) /\ Elems(<<rs>>) = {rs} /\ <<rs>> \in Seq(AllOps)
    <3>1. OneMethod(<<rs>> \o <<>>)
      BY <1>4, <1>6, OneMethodPush
    <3>2. <<rs>> \o <<>> = <<rs>> /\ <<rs>> \in Seq(AllOps)
      BY <1>6
    <3> QED
      BY <3>1, <3>2, ElemsOne
  <2>2. OneMethod(<<dr, rs>>) /\ Elems(<<dr, rs>>) = {dr, rs} /\ <<dr, rs>> \in Seq(AllOps)
    <3>1. OneMethod(<<dr>> \o <<rs>>)
      BY <1>6, <2>1, OneMethodPush
    <3>2. <<dr>> \o <<rs>> = <<dr, rs>>
      BY PairConcat
    <3>3. <<dr, rs>> \in Seq(AllOps)
      BY <1>6
    <3> QED
      BY <3>1, <3>2, <3>3, ElemsTwo
  <2>3. CASE cur = NoTask /\ stack' = <<rs>>
    <3>1. dr # rs
      BY DEF dr, rs, SvcOp, Op
    <3> QED
      BY <2>1, <2>3, <3>1
  <2>4. CASE cur # NoTask /\ fut'[cur] # "NEW" /\ stack' = <<dr, rs>>
    BY <2>2, <2>4
  <2>5. CASE cur # NoTask /\ fut'[cur] = "CANCELLED" /\ stack' = <<ca, dr, rs>>
    <3>1. ca \in AllOps /\ ca \notin SvcOps
      BY <1>6, <2>5
    <3>2. OneMethod(<<ca>> \o <<dr, rs>>)
      BY <2>2, <3>1, OneMethodPush
    <3>3. Elems(<<ca>> \o <<dr, rs>>) = {ca} \union Elems(<<dr, rs>>)
      BY <2>2, <3>1, ElemsPush
    <3>4. <<ca>> \o <<dr, rs>> = <<ca, dr, rs>>
      BY <1>6, <3>1, TripleConcat
    <3> QED
      BY <2>2, <2>5, <3>2, <3>3, <3>4
  <2> QED
    BY <1>7, <2>3, <2>4, <2>5
<1>9. /\ \A n \in SvcOpNames : On(n)' => n \in {"drop", "resetStart"}
      /\ On("resetStart")' /\ (On("drop")' => cur # NoTask /\ fut'[cur] # "NEW")
  <2>1. \A n \in SvcOpNames : SvcOp(n) \in SvcOps
    BY OpsTyped
  <2>2. \A n \in SvcOpNames : SvcOp(n) \in {dr, rs} => n \in {"drop", "resetStart"}
    BY DEF dr, rs, SvcOp, Op
  <2>3. \A n \in SvcOpNames : On(n)' => SvcOp(n) \in {dr, rs}
    BY <1>6, <1>8, <2>1 DEF On
  <2>4. On("resetStart")' /\ (On("drop")' => cur # NoTask /\ fut'[cur] # "NEW")
    BY <1>8 DEF On, dr, rs
  <2> QED
    BY <2>2, <2>3, <2>4
<1>10. Fields' /\ StartAlone'
  BY <1>2, <1>3, <1>5, <1>9 DEF SvcInv, Fields, StartAlone, SvcOpNames
<1>11. ReadyMoves' /\ NoOrphan'
  BY <1>2, <1>5, <1>7 DEF SvcInv, ReadyMoves, NoOrphan, SvcTypes, SvcTypeOK
<1>12. \A t \in Tasks : OutcomeKnown(t)'
  <2>1. \A t \in Tasks : fut'[t] = fut[t] \/ (fut[t] = "NEW" /\ fut'[t] = "CANCELLED")
    BY <1>7 DEF SvcTypes
  <2>2. \A o \in Elems(stack') :
          o \in SvcOps \/ (o.st = "CANCELLED" /\ fut'[o.task] = "CANCELLED")
    BY <1>6, <1>8
  <2> QED
    BY <1>2, <2>1, <2>2, OutcomeSame
<1> QED
  BY <1>8, <1>10, <1>11, <1>12 DEF SvcInv

(* User code calls cancel(), also from a handler. *)
LEMMA CancelInv ==
  ASSUME SvcTypes, SvcInv, Cancel
  PROVE  SvcInv'
<1> USE DEF threadVars, fxVars, propVars
<1>1. UNCHANGED <<pc, posting, queue, state, cur, wired, startedOnce, starting, created>>
  BY DEF Cancel, CancelAnd
<1>2. StartPending' <=> StartPending
  BY <1>1 DEF StartPending
<1>3. stack = <<>> \/ callback
  BY DEF Cancel, CancelAnd, MayCall
<1>4. ReadyMoves'
  BY <1>1, <1>2, <1>3 DEF SvcInv, ReadyMoves
<1>5. stack \in Seq(AllOps)
  BY DEF SvcTypes
<1>6. CASE cur = NoTask
  <2>1. stack' = stack /\ fut' = fut /\ own' = "CANCELLED"
    <3>1. <<>> \o stack = stack
      BY <1>5
    <3> QED
      BY <1>6, <3>1 DEF Cancel, CancelAnd
  <2>2. Fields' /\ StartAlone' /\ OneMethod(stack)'
    BY <1>1, <1>2, <1>6, <2>1 DEF SvcInv, Fields, StartAlone, On
  <2>3. NoOrphan' /\ \A t \in Tasks : OutcomeKnown(t)'
    BY <1>1, <2>1 DEF SvcInv, NoOrphan, OutcomeKnown
  <2> QED
    BY <1>4, <2>2, <2>3 DEF SvcInv
<1>7. CASE cur # NoTask
  <2> DEFINE ca == SetState(cur, "CANCELLED")
  <2>1. /\ cur \in Tasks /\ fut[cur] = "NEW" /\ fut' = [fut EXCEPT ![cur] = "CANCELLED"]
        /\ stack' = <<ca>> \o stack /\ own' = own
    <3>1. <<ca>> \o <<>> = <<ca>>
      OBVIOUS
    <3> QED
      BY <1>7, <3>1 DEF Cancel, CancelAnd, FutureCancel, Invoke, SvcTypes, SvcTypeOK
  <2>2. ca \in AllOps /\ ca \notin SvcOps /\ ca.st = "CANCELLED" /\ ca.task = cur
    <3>1. ca \in Ops /\ ca \in AllOps
      BY <2>1, OpsTyped DEF SetState, OpNames, State
    <3> QED
      BY <3>1, OpsApart DEF SetState, Op
  <2> HIDE DEF ca
  <2>3. OneMethod(stack') /\ Elems(stack') = {ca} \union Elems(stack)
    BY <1>5, <2>1, <2>2, OneMethodPush, ElemsPush DEF SvcInv
  <2>4. \A name \in SvcOpNames : On(name)' <=> On(name)
    BY <2>2, <2>3, OpsTyped DEF On
  <2>5. \A t \in Tasks : fut'[t] = fut[t] \/ (fut[t] = "NEW" /\ fut'[t] = "CANCELLED")
    BY <2>1 DEF SvcTypes
  <2>6. fut'[cur] = "CANCELLED"
    BY <2>1 DEF SvcTypes
  <2>7. Fields' /\ StartAlone'
    BY <1>1, <1>2, <2>1, <2>4, <2>6 DEF SvcInv, Fields, StartAlone, SvcOpNames
  <2>8. NoOrphan'
    BY <1>1, <2>5 DEF SvcInv, NoOrphan, SvcTypes, SvcTypeOK
  <2>9. \A t \in Tasks : OutcomeKnown(t)'
    BY <1>1, <2>2, <2>3, <2>5, <2>6, OutcomeSame
  <2> QED
    BY <1>4, <2>3, <2>7, <2>8, <2>9 DEF SvcInv
<1> QED
  BY <1>6, <1>7

(* The start() of another thread. *)
LEMMA OffFxInv ==
  ASSUME SvcTypes, SvcInv, StartOffFx \/ PostScheduled
  PROVE  SvcInv'
<1> USE DEF threadVars, fxVars, propVars
<1>1. CASE StartOffFx
  <2>1. /\ stack = <<>> /\ UNCHANGED taskVars /\ starting' = TRUE
        /\ created = {} /\ cur = NoTask
    BY <1>1 DEF StartOffFx, SvcInv, Fields
  <2>2. PICK t \in Tasks : Wire(t)
    BY <1>1 DEF StartOffFx
  <2>3. cur' = t /\ wired' = t /\ created' = {t} /\ startedOnce' = TRUE
    BY <2>1, <2>2 DEF Wire
  <2>4. \A name : ~On(name)'
    BY <2>1, EmptyStack DEF taskVars, On
  <2>5. Fields' /\ StartAlone' /\ ReadyMoves' /\ NoOrphan'
    BY <2>1, <2>3, <2>4 DEF Fields, StartAlone, ReadyMoves, StartPending, NoOrphan
  <2>6. OneMethod(stack)' /\ \A u \in Tasks : OutcomeKnown(u)'
    BY <2>1 DEF SvcInv, OutcomeKnown, taskVars
  <2> QED
    BY <2>5, <2>6 DEF SvcInv
<1>2. CASE PostScheduled
  <2>1. /\ UNCHANGED <<fut, pc, posting, stack, callback, state, cur, own, wired, startedOnce, created>>
        /\ starting /\ queue' = Append(queue, PostedStart)
    BY <1>2 DEF PostScheduled, RunLater, PostedStart
  <2>2. PostedStart \in AllRunnables /\ queue \in Seq(AllRunnables)
    BY DEF AllRunnables, SvcTypes
  <2>3. Elems(queue') = Elems(queue) \union {PostedStart} /\ queue' \in Seq(AllRunnables)
    BY <2>1, <2>2, ElemsAppend
  <2>4. StartPending /\ StartPending'
    BY <2>1, <2>3, PendingElems DEF StartPending
  <2>5. Fields' /\ StartAlone' /\ ReadyMoves' /\ NoOrphan' /\ OneMethod(stack)'
    BY <2>1, <2>4 DEF SvcInv, Fields, StartAlone, ReadyMoves, NoOrphan, On
  <2>6. \A t \in Tasks : OutcomeKnown(t)'
    <3> TAKE t \in Tasks
    <3>1. OutcomeKnown(t)
      BY DEF SvcInv
    <3>2. PostedStart.task # t
      BY ServiceAssumption DEF PostedStart, Runnable
    <3> QED
      BY <2>1, <2>3, <3>1, <3>2 DEF OutcomeKnown
  <2> QED
    BY <2>5, <2>6 DEF SvcInv
<1> QED
  BY <1>1, <1>2

-----------------------------------------------------------------------------
LEMMA SvcInvInit == SvcInit => SvcInv
<1> SUFFICES ASSUME SvcInit PROVE SvcInv
  OBVIOUS
<1>1. stack = <<>> /\ queue = <<>>
  BY DEF SvcInit, Init
<1>2. Elems(stack) = {} /\ Elems(queue) = {} /\ OneMethod(stack) /\ \A name : ~On(name)
  BY <1>1, EmptyStack
<1>3. \A t \in Tasks : OutcomeKnown(t)
  BY <1>2 DEF SvcInit, Init, OutcomeKnown, Warranted
<1>4. Fields /\ StartAlone /\ ReadyMoves /\ NoOrphan
  BY <1>2 DEF SvcInit, Fields, StartAlone, ReadyMoves, NoOrphan
<1> QED
  BY <1>2, <1>3, <1>4 DEF SvcInv

LEMMA SvcInvStep ==
  ASSUME OrderlyUse, SvcTypes, SvcInv, [SvcNext]_vars
  PROVE  SvcInv'
<1>1. CASE UNCHANGED vars
  BY <1>1 DEF vars, svcVars, taskVars, threadVars, fxVars, propVars, SvcInv, Fields, StartAlone,
    StartPending, ReadyMoves, OutcomeKnown, NoOrphan, On
<1>2. CASE SvcFxThread
  BY <1>2, UnwireInv, StartInv, DropInv, ScheduledInv, TaskOpInv, ResetInv, ExecuteInv, DispatchInv
    DEF SvcFxThread, CommonFxThread
<1> QED
  BY <1>1, <1>2, StartResetInv, RestartInv, CancelInv, OffFxInv, ThreadInv DEF SvcNext

LEMMA SvcCorrect ==
  ASSUME OrderlyUse
  PROVE  SvcSpec => [](SvcTypes /\ SvcInv)
<1>1. SvcInit => SvcTypes /\ SvcInv
  BY SvcTypesInit, SvcInvInit
<1>2. SvcTypes /\ SvcInv /\ [SvcNext]_vars => (SvcTypes /\ SvcInv)'
  BY SvcTypesStep, SvcInvStep
<1> QED
  BY <1>1, <1>2, PTL DEF SvcSpec

(* A task that the service let go of was cancelled, or its call() has      *)
(* ended: reset() and restart() leave none running.                        *)
THEOREM NoneOrphaned ==
  ASSUME OrderlyUse
  PROVE  SvcSpec => []NoOrphan
<1>1. SvcInv => NoOrphan
  BY DEF SvcInv
<1> QED
  BY SvcCorrect, <1>1, PTL

(* At rest, the properties of the service are those of the task its state  *)
(* belongs to.                                                             *)
THEOREM WiredWhenAtRest ==
  ASSUME OrderlyUse
  PROVE  SvcSpec => []WiredToCurrent
<1>1. SvcInv => WiredToCurrent
  <2> SUFFICES ASSUME SvcInv, stack = <<>> PROVE wired = cur
    BY DEF WiredToCurrent
  <2>1. \A name : ~On(name)
    BY EmptyStack
  <2> QED
    BY <2>1 DEF SvcInv, Fields
<1> QED
  BY SvcCorrect, <1>1, PTL

(* The executor is given a task, never null. *)
THEOREM TaskExecuted ==
  ASSUME OrderlyUse
  PROVE  SvcSpec => []ExecutesTask
<1>1. SvcTypes /\ SvcInv => ExecutesTask
  <2> SUFFICES ASSUME SvcTypes, SvcInv, Top("execute") PROVE cur # NoTask
    BY DEF ExecutesTask
  <2>1. OneMethod(stack) /\ "execute" \in SvcOpNames /\ "scheduled" \in SvcOpNames
    BY DEF SvcInv, SvcOpNames
  <2>2. On("execute") /\ Elems(stack) = {SvcOp("execute")} \union Elems(Tail(stack))
    BY <2>1, HeadPart
  <2>3. ~On("scheduled")
    <3>1. SvcOp("scheduled") \notin Elems(Tail(stack))
      BY <2>1, Below
    <3>2. SvcOp("scheduled") # SvcOp("execute")
      BY DEF SvcOp, Op
    <3> QED
      BY <2>2, <3>1, <3>2 DEF On
  <2> QED
    BY <2>2, <2>3 DEF SvcInv, Fields
<1> QED
  BY SvcCorrect, <1>1, PTL

-----------------------------------------------------------------------------
(* The state of a service makes only the moves of a reusable Worker: where *)
(* the next moves of a task are, as for a task alone (TaskProof),          *)
(* except that the service moves it to SCHEDULED before it is executed.    *)

(* A task that was not created has not begun. *)
Untouched(t) ==
  t \notin created =>
    /\ state[t] = "READY" /\ pc[t] = "new" /\ ~posting[t]
    /\ \A o \in Elems(stack) : o.task # t
    /\ \A r \in Elems(queue) : r.task # t

BeforeStart(t) ==
  pc[t] \in {"new", "submitted", "calling"} =>
    /\ state[t] \in {"READY", "SCHEDULED", "CANCELLED"}
    /\ ~Posted(queue, "start", t) /\ ~OutcomePosted(queue, t)
    /\ ~Pending(stack, t, "RUNNING") /\ ~OutcomePending(stack, t)

BeforeOutcome(t) ==
  pc[t] \in {"body", "returned", "succeeding", "threw"} =>
    Started(t) /\ ~OutcomePosted(queue, t) /\ ~OutcomePending(stack, t)

InQueue(t) ==
  /\ Posted(queue, "start", t) =>
       state[t] \in {"READY", "SCHEDULED", "CANCELLED"} /\ ~MovePending(stack, t)
  /\ OutcomePosted(queue, t) => Started(t) /\ ~OutcomePending(stack, t)

OnStack(t) ==
  /\ Pending(stack, t, "SCHEDULED") =>
       /\ state[t] \in {"READY", "SCHEDULED", "CANCELLED"}
       /\ pc[t] = "new" \/ Pending(stack, t, "RUNNING")
  /\ Pending(stack, t, "RUNNING") =>
       \/ state[t] \in {"SCHEDULED", "CANCELLED"}
       \/ state[t] = "READY" /\ Pending(stack, t, "SCHEDULED")
  /\ OutcomePending(stack, t) => state[t] \in {"RUNNING", "CANCELLED"}

TaskMoves(t) == BeforeStart(t) /\ BeforeOutcome(t) /\ InQueue(t) /\ OnStack(t)

(* There is one start() off the application thread, and until the service  *)
(* executes its task no thread has it.                                     *)
NotExecuted ==
  /\ StartPending \/ On("execute") => cur = NoTask \/ pc[cur] = "new"
  /\ On("scheduled") => On("execute")
  /\ On("execute") \/ ~startedOnce => ~StartPending
  /\ starting => PostedStart \notin Elems(queue)

MoveInv ==
  /\ \A t \in Tasks : Untouched(t) /\ TaskMoves(t)
  /\ QueueOrder(queue)
  /\ Pairs(stack)
  /\ NotExecuted

LEMMA PairsNone ==
  ASSUME NEW S, NEW s \in Seq(S), \A o \in Elems(s) : ~Regular(o)
  PROVE  Pairs(s)
<1>1. \A i \in 1..Len(s) : s[i] \in Elems(s)
  BY DEF Elems
<1> QED
  BY <1>1 DEF Pairs

(* A task that a step is not about keeps its moves. *)
LEMMA MovesFrame ==
  ASSUME NEW t \in Tasks, TaskMoves(t), pc'[t] = pc[t], state'[t] = state[t],
         \A k : k # "cancel" => (Posted(queue', k, t) <=> Posted(queue, k, t)),
         \A st : st # "CANCELLED" => (Pending(stack', t, st) <=> Pending(stack, t, st))
  PROVE  TaskMoves(t)'
<1>1. /\ OutcomePosted(queue', t) <=> OutcomePosted(queue, t)
      /\ OutcomePending(stack', t) <=> OutcomePending(stack, t)
      /\ MovePending(stack', t) <=> MovePending(stack, t)
  BY DEF OutcomePosted, OutcomePending, MovePending
<1>2. Started(t)' <=> Started(t)
  BY DEF Started
<1>3. BeforeStart(t)' /\ BeforeOutcome(t)'
  BY <1>1, <1>2 DEF TaskMoves, BeforeStart, BeforeOutcome
<1>4. InQueue(t)' /\ OnStack(t)'
  BY <1>1, <1>2 DEF TaskMoves, InQueue, OnStack
<1> QED
  BY <1>3, <1>4 DEF TaskMoves

(* Nor does a task that was not created, while operations of others come. *)
LEMMA UntouchedFrame ==
  ASSUME NEW t \in Tasks, Untouched(t), created \subseteq created',
         pc'[t] = pc[t] \/ t \in created', state'[t] = state[t] \/ t \in created',
         posting'[t] => posting[t] \/ t \in created',
         \A o \in Elems(stack') : o.task = t => o \in Elems(stack) \/ t \in created',
         \A r \in Elems(queue') : r.task = t => r \in Elems(queue) \/ t \in created'
  PROVE  Untouched(t)'
  BY DEF Untouched

(* Steps of the application thread that move no task. *)
LEMMA QuietMoves ==
  ASSUME SvcTypes, MoveInv,
         UNCHANGED <<pc, posting, queue, state, startedOnce, starting, created>>,
         cur' \in {cur, NoTask}, Pairs(stack'),
         \A o \in Elems(stack') :
           o \in Elems(stack) \/ (~Regular(o) /\ o.task \in created \union {NoTask}),
         \A o \in Elems(stack) : Regular(o) => o \in Elems(stack'),
         On("execute")' => On("execute"), On("scheduled")' => On("execute")'
  PROVE  MoveInv'
<1>1. \A t, st : st # "CANCELLED" => (Pending(stack', t, st) <=> Pending(stack, t, st))
  BY DEF Pending, Regular, SetState, Op
<1>2. \A t \in Tasks : TaskMoves(t)'
  BY <1>1, MovesFrame DEF MoveInv
<1>3. \A t \in Tasks : Untouched(t)'
  BY UntouchedFrame, ServiceAssumption DEF MoveInv
<1>4. StartPending' <=> StartPending
  BY DEF StartPending
<1>5. NotExecuted'
  BY <1>4 DEF MoveInv, NotExecuted
<1> QED
  BY <1>2, <1>3, <1>5 DEF MoveInv

(* Below a part of a method there is no operation of a task. *)
LEMMA PartAlone ==
  ASSUME SvcTypes, OneMethod(stack), NEW name \in SvcOpNames, Top(name)
  PROVE  /\ \A o \in Elems(stack) : o \in SvcOps /\ ~Regular(o) /\ o.task = NoTask
         /\ \A t \in Tasks : \A st : ~Pending(stack, t, st)
<1>1. \A o \in Elems(Tail(stack)) : Follows(SvcOp(name), o)
  BY HeadPart
<1>2. \A a, b : Follows(a, b) => b \in SvcOps
  BY OpsTyped DEF Follows, SvcOpNames
<1>3. \A o \in Elems(stack) : o \in SvcOps
  BY <1>1, <1>2, HeadPart, OpsTyped
<1>4. \A o \in SvcOps : ~Regular(o) /\ o.task = NoTask
  BY DEF SvcOps, SvcOp, Op, Regular, SvcOpNames
<1> QED
  BY <1>3, <1>4, ServiceAssumption DEF Pending, SetState, Op

(* The parts of a method, except where a task is started. *)
LEMMA PartMoves ==
  ASSUME SvcTypes, SvcInv, MoveInv,
         DoUnwire \/ DoDrop \/ DoReset \/ (DoStart /\ SvcState # "READY")
  PROVE  MoveInv'
<1> USE DEF threadVars, fxVars, propVars
<1>1. PICK name \in {"unwire", "drop", "reset", "resetStart", "start"} : Top(name)
  BY DEF DoUnwire, DoDrop, DoReset, DoResetAnd, DoStart
<1>2. name \in SvcOpNames /\ OneMethod(stack)
  BY DEF SvcInv, SvcOpNames
<1>3. /\ UNCHANGED <<pc, posting, queue, state, startedOnce, starting, created>>
      /\ cur' \in {cur, NoTask}
  BY DEF DoUnwire, DoDrop, DoReset, DoResetAnd, ResetThen, DoStart, Detach, svcVars
<1>4. /\ stack # <<>> /\ Tail(stack) \in Seq(AllOps) /\ Elems(stack) = {SvcOp(name)} \union Elems(Tail(stack))
  BY <1>1, <1>2, HeadPart
<1>5. \E ops \in {<<>>, <<SvcOp("unwire")>>, <<SvcOp("unwire"), SvcOp("start")>>} :
        stack' = ops \o Tail(stack)
  <2>1. /\ <<SvcOp("unwire")>> \o <<>> = <<SvcOp("unwire")>>
        /\ <<>> \o <<SvcOp("start")>> = <<SvcOp("start")>>
        /\ <<SvcOp("unwire")>> \o <<SvcOp("start")>> = <<SvcOp("unwire"), SvcOp("start")>>
    BY PairConcat
  <2>2. CASE DoUnwire \/ DoDrop \/ (DoStart /\ SvcState # "READY")
    BY <2>2 DEF DoUnwire, DoDrop, DoStart, Pop
  <2>3. CASE DoReset
    BY <2>1, <2>3 DEF DoReset, DoResetAnd, ResetThen, Pop
  <2> QED
    BY <2>2, <2>3
<1>6. Elems(stack') \subseteq {SvcOp("unwire"), SvcOp("start")} \union Elems(Tail(stack))
  <2> DEFINE tl == Tail(stack)
             un == SvcOp("unwire")
             so == SvcOp("start")
  <2>1. un \in AllOps /\ so \in AllOps /\ tl \in Seq(AllOps) /\ <<>> \o tl = tl
    BY <1>4, OpsTyped DEF SvcOpNames
  <2> HIDE DEF tl, un, so
  <2>2. Elems(<<un>> \o tl) = {un} \union Elems(tl)
    BY <2>1, ElemsPush
  <2>3. Elems(<<un, so>> \o tl) = {un, so} \union Elems(tl)
    BY <2>1, ElemsPushTwo
  <2> QED
    BY <1>5, <2>1, <2>2, <2>3 DEF tl, un, so
<1>7. \A o \in Elems(stack) \union {SvcOp("unwire"), SvcOp("start")} :
        ~Regular(o) /\ o.task = NoTask
  <2>1. \A n \in SvcOpNames : ~Regular(SvcOp(n)) /\ SvcOp(n).task = NoTask
    BY DEF SvcOp, Op, Regular, SvcOpNames
  <2> QED
    BY <1>1, <1>2, <2>1, PartAlone DEF SvcOpNames
<1>8. stack' \in Seq(AllOps)
  BY PartTypes DEF SvcTypes
<1>9. Pairs(stack')
  BY <1>4, <1>6, <1>7, <1>8, PairsNone
<1>10. ~On("execute")' /\ ~On("scheduled")'
  <2>1. SvcOp("execute") \notin Elems(Tail(stack)) /\ SvcOp("scheduled") \notin Elems(Tail(stack))
    BY <1>1, <1>2, Below DEF SvcOpNames
  <2>2. /\ SvcOp("execute") \notin {SvcOp("unwire"), SvcOp("start")}
        /\ SvcOp("scheduled") \notin {SvcOp("unwire"), SvcOp("start")}
    BY DEF SvcOp, Op
  <2> QED
    BY <1>6, <2>1, <2>2 DEF On
<1>11. \A o \in Elems(stack') :
         o \in Elems(stack) \/ (~Regular(o) /\ o.task \in created \union {NoTask})
  BY <1>4, <1>6, <1>7
<1>12. \A o \in Elems(stack) : Regular(o) => o \in Elems(stack')
  BY <1>7
<1> QED
  BY <1>3, <1>9, <1>10, <1>11, <1>12, QuietMoves

(* The calls of user code. *)
LEMMA CallMoves ==
  ASSUME OrderlyUse, SvcTypes, SvcInv, MoveInv, Start \/ Reset \/ Restart \/ Cancel
  PROVE  MoveInv'
<1> USE DEF threadVars, fxVars, propVars
<1> DEFINE ca == SetState(cur, "CANCELLED")
           new == {<<>>, <<SvcOp("start")>>, <<SvcOp("reset")>>, <<SvcOp("resetStart")>>,
                   <<SvcOp("drop"), SvcOp("resetStart")>>}
<1>1. UNCHANGED <<pc, posting, queue, state, startedOnce, starting, created, cur>>
  BY DEF Start, Reset, Restart, Cancel, CancelAnd
<1>2. \/ \E ops \in new : stack' = ops \o stack
      \/ cur # NoTask /\ (stack' = <<ca>> \o stack
                          \/ stack' = <<ca, SvcOp("drop"), SvcOp("resetStart")>> \o stack)
  <2>1. <<ca>> \o <<>> = <<ca>> /\ <<>> \o stack = stack
    BY DEF SvcTypes
  <2>2. CASE Start \/ Reset
    BY <2>2 DEF Start, Reset, Invoke
  <2>3. CASE Restart
    BY <2>3 DEF Restart, Invoke, TaskIsDone
  <2>4. CASE Cancel
    BY <2>1, <2>4 DEF Cancel, CancelAnd, Invoke
  <2> QED
    BY <2>2, <2>3, <2>4
<1> DEFINE svc == {SvcOp("start"), SvcOp("reset"), SvcOp("resetStart"), SvcOp("drop")}
<1>3. /\ svc \subseteq AllOps /\ (cur # NoTask => ca \in AllOps)
      /\ \A o \in svc : ~Regular(o) /\ o.task = NoTask
      /\ ~Regular(ca) /\ ca.task = cur
      /\ SvcOp("execute") \notin svc \union {ca} /\ SvcOp("scheduled") \notin svc \union {ca}
  <2>1. svc \subseteq AllOps
    BY OpsTyped DEF SvcOpNames
  <2>2. cur # NoTask => ca \in AllOps
    BY OpsTyped DEF SetState, OpNames, State, SvcTypes, SvcTypeOK
  <2>3. \A o \in svc : ~Regular(o) /\ o.task = NoTask
    BY DEF SvcOp, Op, Regular
  <2>4. ~Regular(ca) /\ ca.task = cur
    BY DEF SetState, Op, Regular
  <2>5. SvcOp("execute") \notin svc \union {ca} /\ SvcOp("scheduled") \notin svc \union {ca}
    BY DEF SvcOp, SetState, Op
  <2> QED
    BY <2>1, <2>2, <2>3, <2>4, <2>5
<1>4. \E ops \in Seq(AllOps) :
        /\ stack' = ops \o stack
        /\ Elems(ops) \subseteq svc \union (IF cur = NoTask THEN {} ELSE {ca})
  <2> DEFINE rs == SvcOp("resetStart")
             dr == SvcOp("drop")
  <2>1. \A o \in svc : <<o>> \in Seq(AllOps) /\ Elems(<<o>>) = {o}
    BY <1>3, ElemsOne
  <2>2. <<>> \in Seq(AllOps) /\ Elems(<<>>) = {}
    <3>1. <<>> \in Seq(AllOps)
      OBVIOUS
    <3> QED
      BY <3>1, ElemsOne
  <2>3. rs \in svc /\ dr \in svc /\ rs \in AllOps /\ dr \in AllOps
    BY <1>3
  <2>4. <<dr, rs>> \in Seq(AllOps) /\ Elems(<<dr, rs>>) = {dr, rs}
    <3> HIDE DEF dr, rs
    <3>1. <<dr, rs>> \in Seq(AllOps)
      BY <2>3
    <3> QED
      BY <3>1, ElemsTwo
  <2>5. cur # NoTask => <<ca>> \in Seq(AllOps) /\ Elems(<<ca>>) = {ca}
    BY <1>3, ElemsOne
  <2>6. cur # NoTask => <<ca, dr, rs>> \in Seq(AllOps) /\ Elems(<<ca, dr, rs>>) = {ca, dr, rs}
    <3> SUFFICES ASSUME cur # NoTask
                 PROVE  <<ca, dr, rs>> \in Seq(AllOps) /\ Elems(<<ca, dr, rs>>) = {ca, dr, rs}
      OBVIOUS
    <3>0. ca \in AllOps
      BY <1>3
    <3> HIDE DEF ca, dr, rs
    <3>1. <<ca>> \o <<dr, rs>> = <<ca, dr, rs>>
      BY <2>3, <3>0, TripleConcat
    <3>2. Elems(<<ca>> \o <<dr, rs>>) = {ca} \union {dr, rs} /\ <<ca>> \o <<dr, rs>> \in Seq(AllOps)
      BY <2>4, <3>0, ElemsPush
    <3> QED
      BY <3>1, <3>2
  <2>7. CASE \E ops \in new : stack' = ops \o stack
    <3>1. \A ops \in new : ops \in Seq(AllOps) /\ Elems(ops) \subseteq svc
      BY <2>1, <2>2, <2>3, <2>4
    <3> QED
      BY <2>7, <3>1
  <2>8. CASE cur # NoTask /\ stack' = <<ca>> \o stack
    BY <2>5, <2>8
  <2>9. CASE cur # NoTask /\ stack' = <<ca, dr, rs>> \o stack
    BY <2>3, <2>6, <2>9
  <2> QED
    BY <1>2, <2>7, <2>8, <2>9
<1>5. PICK ops \in Seq(AllOps) :
        /\ stack' = ops \o stack
        /\ Elems(ops) \subseteq svc \union (IF cur = NoTask THEN {} ELSE {ca})
  BY <1>4
<1>6. stack \in Seq(AllOps) /\ cur \in created \union {NoTask}
  BY DEF SvcTypes, SvcTypeOK
<1> HIDE DEF ca, svc
<1>7. Elems(stack') = Elems(ops) \union Elems(stack)
  <2>1. Elems(ops \o stack) = Elems(ops) \union Elems(stack)
    BY <1>6, ElemsConcat
  <2> QED
    BY <1>5, <2>1
<1>8. \A o \in Elems(ops) : ~Regular(o) /\ o.task \in created \union {NoTask}
  BY <1>3, <1>5, <1>6
<1>9. Pairs(stack')
  <2>1. Pairs(ops \o stack)
    BY <1>6, <1>8, PairsPush DEF MoveInv
  <2> QED
    BY <1>5, <2>1
<1>10. (On("execute")' <=> On("execute")) /\ (On("scheduled")' <=> On("scheduled"))
  BY <1>3, <1>5, <1>7 DEF On
<1>11. On("scheduled")' => On("execute")'
  BY <1>10 DEF MoveInv, NotExecuted
<1> QED
  BY <1>1, <1>7, <1>8, <1>9, <1>10, <1>11, QuietMoves

(* A step of the worker thread that posts nothing, or of a cancel() on      *)
(* another thread.                                                         *)
LEMMA WorkerMoves ==
  ASSUME SvcTypes, MoveInv, UNCHANGED svcVars, NEW u \in created,
         \/ Run(u) \/ Return(u) \/ Throw(u) \/ TestCancelled(u)
         \/ Set(u) \/ SetException(u) \/ CancelOffFx(u)
  PROVE  MoveInv'
<1> USE DEF threadVars, fxVars, propVars
<1>1. /\ u \in Tasks /\ cur \in created \union {NoTask} /\ pc \in [Tasks -> Places]
      /\ posting \in [Tasks -> BOOLEAN] /\ created \subseteq Tasks
  BY DEF SvcTypes, SvcTypeOK
<1>2. /\ queue' = queue /\ stack' = stack /\ state' = state /\ created' = created
      /\ \A t \in Tasks \ {u} : pc'[t] = pc[t] /\ posting'[t] = posting[t]
  BY <1>1 DEF Run, Return, Throw, TestCancelled, Set, SetException, CancelOffFx, Complete,
    At, FutureCancel, svcVars
<1>3. TaskMoves(u)'
  <2>1. TaskMoves(u)
    BY <1>1 DEF MoveInv
  <2>2. CASE Run(u)
    BY <1>1, <1>2, <2>1, <2>2 DEF Run, At, TaskMoves, BeforeStart, BeforeOutcome, InQueue, OnStack,
      Started
  <2>3. CASE Return(u) \/ Throw(u) \/ TestCancelled(u)
    BY <1>1, <1>2, <2>1, <2>3 DEF Return, Throw, TestCancelled, At, TaskMoves, BeforeStart,
      BeforeOutcome, InQueue, OnStack, Started
  <2>4. CASE Set(u) \/ SetException(u)
    BY <1>1, <1>2, <2>1, <2>4 DEF Set, SetException, Complete, At, TaskMoves, BeforeStart,
      BeforeOutcome, InQueue, OnStack, Started
  <2>5. CASE CancelOffFx(u)
    BY <1>1, <1>2, <2>1, <2>5 DEF CancelOffFx, TaskMoves, BeforeStart, BeforeOutcome, InQueue,
      OnStack, Started
  <2> QED
    BY <2>2, <2>3, <2>4, <2>5
<1>4. \A t \in Tasks : TaskMoves(t)'
  BY <1>2, <1>3, MovesFrame DEF MoveInv
<1>5. \A t \in Tasks : Untouched(t)'
  BY <1>2, UntouchedFrame DEF MoveInv
<1>6. \A t \in Tasks : pc[t] = "new" => pc'[t] = "new"
  BY <1>1, <1>2 DEF Run, Return, Throw, TestCancelled, Set, SetException, CancelOffFx, Complete, At
<1>7. NotExecuted'
  BY <1>1, <1>2, <1>6 DEF MoveInv, NotExecuted, StartPending, On, svcVars
<1> QED
  BY <1>2, <1>4, <1>5, <1>7 DEF MoveInv

(* A step that posts a runnable of a task. *)
LEMMA PostMoves ==
  ASSUME SvcTypes, MoveInv, UNCHANGED svcVars, NEW u \in created,
         Call(u) \/ PostSucceeded(u) \/ PostFailed(u) \/ PostCancelled(u)
  PROVE  MoveInv'
<1> USE DEF threadVars, fxVars, propVars
<1>1. /\ u \in Tasks /\ cur \in created \union {NoTask} /\ pc \in [Tasks -> Places]
      /\ posting \in [Tasks -> BOOLEAN] /\ created \subseteq Tasks /\ queue \in Seq(AllRunnables)
  BY DEF SvcTypes, SvcTypeOK
<1>2. PICK k \in Kinds :
        /\ RunLater(k, u)
        /\ \/ k = "start" /\ Call(u)
           \/ k = "succeed" /\ PostSucceeded(u)
           \/ k = "fail" /\ PostFailed(u)
           \/ k = "cancel" /\ PostCancelled(u)
  BY DEF Call, PostSucceeded, PostFailed, PostCancelled, Kinds
<1> DEFINE e == Runnable(k, u)
<1>3. /\ stack' = stack /\ state' = state /\ created' = created
      /\ \A t \in Tasks \ {u} : pc'[t] = pc[t] /\ posting'[t] = posting[t]
  BY <1>1, <1>2 DEF Call, PostSucceeded, PostFailed, PostCancelled, At, svcVars
<1>4. /\ e \in AllRunnables /\ e # PostedStart /\ e.kind = k /\ e.task = u
      /\ queue' = Append(queue, e)
  BY <1>1, <1>2, ServiceAssumption DEF Runnable, Runnables, AllRunnables, PostedStart, RunLater
<1> HIDE DEF e
<1>5. Elems(queue') = Elems(queue) \union {e} /\ queue' \in Seq(AllRunnables)
  BY <1>1, <1>4, ElemsAppend
<1>6. \A k2, t : Posted(queue', k2, t) <=> Posted(queue, k2, t) \/ (k2 = k /\ t = u)
  <2>1. \A k2, t : Runnable(k2, t) = e <=> k2 = k /\ t = u
    BY DEF Runnable, e
  <2> QED
    BY <1>5, <2>1 DEF Posted
<1>7. TaskMoves(u)
  BY <1>1 DEF MoveInv
<1>8. TaskMoves(u)'
  <2>1. CASE k = "start" /\ Call(u)
    BY <1>1, <1>3, <1>6, <1>7, <2>1 DEF Call, At, TaskMoves, BeforeStart, BeforeOutcome, InQueue,
      OnStack, Started, OutcomePosted, MovePending
  <2>2. CASE k = "succeed" /\ PostSucceeded(u)
    BY <1>1, <1>3, <1>6, <1>7, <2>2 DEF PostSucceeded, At, TaskMoves, BeforeStart, BeforeOutcome,
      InQueue, OnStack, Started, OutcomePosted
  <2>3. CASE k = "fail" /\ PostFailed(u)
    BY <1>1, <1>3, <1>6, <1>7, <2>3 DEF PostFailed, At, TaskMoves, BeforeStart, BeforeOutcome,
      InQueue, OnStack, Started, OutcomePosted
  <2>4. CASE k = "cancel" /\ PostCancelled(u)
    BY <1>1, <1>3, <1>6, <1>7, <2>4 DEF PostCancelled, TaskMoves, BeforeStart, BeforeOutcome,
      InQueue, OnStack, Started, OutcomePosted
  <2> QED
    BY <1>2, <2>1, <2>2, <2>3, <2>4
<1>9. \A t \in Tasks : TaskMoves(t)'
  BY <1>3, <1>6, <1>8, MovesFrame DEF MoveInv
<1>10. \A t \in Tasks : Untouched(t)'
  BY <1>3, <1>4, <1>5, UntouchedFrame DEF MoveInv
<1>11. QueueOrder(queue')
  <2>1. Elems(queue) \subseteq AllRunnables
    BY <1>1 DEF Elems
  <2>2. ASSUME NEW r \in Elems(queue), r.task = u, Main(r), Main(e)
        PROVE  r.kind = "start" /\ k \in Finish
    <3>1. r \in Runnables
      BY <1>1, <2>1, <2>2, ServiceAssumption DEF AllRunnables, PostedStart, Runnable
    <3>2. r = Runnable(r.kind, u) /\ r.kind \in {"start", "succeed", "fail"}
      BY <2>2, <3>1 DEF Runnables, Runnable, Kinds, Main
    <3>3. Posted(queue, r.kind, u)
      BY <2>2, <3>2 DEF Posted
    <3> QED
      BY <1>2, <1>4, <1>7, <2>2, <3>2, <3>3 DEF Call, PostSucceeded, PostFailed, At, Main,
        Finish, TaskMoves, BeforeStart, BeforeOutcome, OutcomePosted
  <2> QED
    BY <1>1, <1>4, <2>2, QueueAppend DEF MoveInv
<1>12. NotExecuted'
  <2>1. \A t \in Tasks : pc[t] = "new" => pc'[t] = "new"
    BY <1>1, <1>2, <1>3 DEF Call, PostSucceeded, PostFailed, PostCancelled, At
  <2>2. PostedStart \in Elems(queue') <=> PostedStart \in Elems(queue)
    BY <1>4, <1>5
  <2>3. StartPending' <=> StartPending
    <3>1. StartPending <=> starting \/ PostedStart \in Elems(queue)
      BY <1>1, PendingElems DEF StartPending
    <3>2. StartPending' <=> starting' \/ PostedStart \in Elems(queue')
      BY <1>5, PendingElems DEF StartPending
    <3> QED
      BY <2>2, <3>1, <3>2 DEF svcVars
  <2> QED
    BY <1>1, <1>3, <2>1, <2>2, <2>3 DEF MoveInv, NotExecuted, On, svcVars
<1> QED
  BY <1>3, <1>9, <1>10, <1>11, <1>12 DEF MoveInv

LEMMA ThreadMoves ==
  ASSUME SvcTypes, MoveInv, TaskThreads
  PROVE  MoveInv'
  BY WorkerMoves, PostMoves DEF TaskThreads, WorkerThread

(* Setting running, the value or the exception and firing move no state. *)
LEMMA PlainMoves ==
  ASSUME SvcTypes, SvcInv, MoveInv, UNCHANGED svcVars,
         DoSetRunning \/ DoFire \/ DoSetValue \/ DoSetException
  PROVE  MoveInv'
<1> USE DEF threadVars, fxVars, propVars
<1>1. /\ stack # <<>> /\ Head(stack).op \in {"running", "fire", "value", "exception"}
      /\ UNCHANGED <<pc, posting, queue, state>> /\ stack' = <<>> \o Tail(stack)
  BY DEF DoSetRunning, DoFire, DoSetValue, DoSetException, Top, Pop
<1>2. /\ Tail(stack) \in Seq(AllOps) /\ Elems(stack) = {Head(stack)} \union Elems(Tail(stack))
  BY <1>1, HeadTyped
<1>3. stack' = Tail(stack)
  BY <1>1, <1>2
<1>4. ~Regular(Head(stack)) /\ Head(stack) \notin {SvcOp("execute"), SvcOp("scheduled")}
  BY <1>1 DEF Regular, SvcOp, Op
<1>5. Pairs(stack')
  BY <1>1, <1>3, PairsTail DEF MoveInv, SvcTypes
<1>6. (On("execute")' <=> On("execute")) /\ (On("scheduled")' <=> On("scheduled"))
  BY <1>2, <1>3, <1>4 DEF On
<1>7. On("scheduled")' => On("execute")'
  BY <1>6 DEF MoveInv, NotExecuted
<1>8. /\ \A o \in Elems(stack') : o \in Elems(stack)
      /\ \A o \in Elems(stack) : Regular(o) => o \in Elems(stack')
  BY <1>2, <1>3, <1>4
<1>9. UNCHANGED <<startedOnce, starting, created, cur>>
  BY DEF svcVars
<1> QED
  BY <1>1, <1>5, <1>6, <1>7, <1>8, <1>9, QuietMoves

(* Every setState that is not ignored, and that changes the state, is a     *)
(* move that Worker allows.                                                *)
LEMMA HeadMove ==
  ASSUME SvcTypes, MoveInv, Top("setState")
  PROVE  \E u \in created, s \in State \ {"READY"} :
           /\ stack # <<>> /\ Head(stack) = SetState(u, s) /\ u \in Tasks
           /\ \A t, st : Pending(stack, t, st) <=> Pending(Tail(stack), t, st) \/ (t = u /\ st = s)
           /\ Pairs(Tail(stack))
           /\ \A t, st : Pending(Tail(stack), t, st) /\ s # "CANCELLED" /\ st # "CANCELLED" =>
                           s = "SCHEDULED" /\ t = u /\ st = "RUNNING"
           /\ state[u] # "CANCELLED" /\ state[u] # s => SvcLifecycle!LegalMove(state[u], s)
<1> DEFINE h == Head(stack)
           r == Tail(stack)
           u == h.task
           s == h.st
<1>1. /\ stack # <<>> /\ h.op = "setState" /\ h \in Ops /\ u \in Tasks /\ s \in State \ {"READY"}
      /\ r \in Seq(AllOps) /\ Elems(stack) = {h} \union Elems(r)
  BY HeadTyped DEF Top, OpNames
<1>2. h = SetState(u, s)
  BY <1>1 DEF Ops, SetState, Op
<1>3. \A t, st : SetState(t, st) = h <=> t = u /\ st = s
  BY <1>2 DEF SetState, Op
<1> HIDE DEF h, r, u, s
<1>4. u \in created
  BY <1>1 DEF MoveInv, Untouched, u
<1>5. \A t, st : Pending(stack, t, st) <=> Pending(r, t, st) \/ (t = u /\ st = s)
  BY <1>1, <1>3 DEF Pending
<1>6. /\ Pairs(r)
      /\ \A o \in Elems(r) : Regular(h) /\ Regular(o) =>
                               h.st = "SCHEDULED" /\ o = SetState(h.task, "RUNNING")
  BY <1>1, PairsTail DEF MoveInv, SvcTypes, h, r
<1>7. \A t, st : Pending(r, t, st) /\ s # "CANCELLED" /\ st # "CANCELLED" =>
                   s = "SCHEDULED" /\ t = u /\ st = "RUNNING"
  <2> SUFFICES ASSUME NEW t, NEW st, Pending(r, t, st), s # "CANCELLED", st # "CANCELLED"
               PROVE  s = "SCHEDULED" /\ t = u /\ st = "RUNNING"
    OBVIOUS
  <2>1. Regular(h) /\ Regular(SetState(t, st)) /\ SetState(t, st) \in Elems(r)
    BY <1>1 DEF Regular, SetState, Op, Pending, s
  <2>2. s = "SCHEDULED" /\ SetState(t, st) = SetState(u, "RUNNING")
    BY <1>6, <2>1 DEF s, u
  <2> QED
    BY <2>2 DEF SetState, Op
<1>8. ASSUME state[u] # "CANCELLED", state[u] # s
      PROVE  SvcLifecycle!LegalMove(state[u], s)
  <2>1. TaskMoves(u) /\ Pending(stack, u, s) /\ state[u] \in State
    BY <1>1, <1>5 DEF MoveInv, SvcTypes
  <2>2. CASE s = "SCHEDULED"
    BY <1>8, <2>1, <2>2 DEF TaskMoves, OnStack, SvcLifecycle!LegalMove
  <2>3. CASE s = "RUNNING"
    <3>1. ~Pending(stack, u, "SCHEDULED")
      BY <1>5, <1>7, <2>3
    <3> QED
      BY <1>8, <2>1, <2>3, <3>1 DEF TaskMoves, OnStack, SvcLifecycle!LegalMove
  <2>4. CASE s \in Concluded
    BY <1>8, <2>1, <2>4 DEF TaskMoves, OnStack, OutcomePending, Concluded,
      SvcLifecycle!LegalMove, SvcLifecycle!Concluded
  <2>5. CASE s = "CANCELLED"
    BY <1>8, <2>1, <2>5 DEF State, SvcLifecycle!LegalMove, SvcLifecycle!Concluded
  <2> QED
    BY <1>1, <2>2, <2>3, <2>4, <2>5 DEF State, Concluded
<1>9. stack # <<>> /\ Head(stack) = SetState(u, s) /\ s \in State \ {"READY"}
  BY <1>1, <1>2 DEF h
<1> QED
  BY <1>1, <1>4, <1>5, <1>6, <1>7, <1>8, <1>9 DEF r

LEMMA SetStateMoves ==
  ASSUME SvcTypes, SvcInv, MoveInv, UNCHANGED svcVars, DoSetState
  PROVE  MoveInv'
<1> USE DEF threadVars, fxVars, propVars
<1>1. Top("setState")
  BY DEF DoSetState, DoSetStateThen
<1>2. PICK u \in created, s \in State \ {"READY"} :
        /\ stack # <<>> /\ Head(stack) = SetState(u, s) /\ u \in Tasks
        /\ \A t, st : Pending(stack, t, st) <=> Pending(Tail(stack), t, st) \/ (t = u /\ st = s)
        /\ Pairs(Tail(stack))
        /\ \A t, st : Pending(Tail(stack), t, st) /\ s # "CANCELLED" /\ st # "CANCELLED" =>
                        s = "SCHEDULED" /\ t = u /\ st = "RUNNING"
        /\ state[u] # "CANCELLED" /\ state[u] # s => SvcLifecycle!LegalMove(state[u], s)
  BY <1>1, HeadMove
<1> DEFINE a == Op("running", u, s)
           b == Op("fire", u, s)
           r == Tail(stack)
<1>3. /\ UNCHANGED <<pc, posting, queue>> /\ UNCHANGED <<cur, startedOnce, starting, created>>
  BY DEF DoSetState, DoSetStateThen, svcVars
<1>4. /\ r \in Seq(AllOps) /\ Elems(stack) = {SetState(u, s)} \union Elems(r)
      /\ a \in AllOps /\ b \in AllOps /\ state \in [Tasks -> State]
  BY <1>2, HeadTyped, OpsTyped DEF OpNames, SvcTypes
<1>5. \/ state[u] = "CANCELLED" /\ state' = state /\ stack' = r
      \/ /\ state[u] # "CANCELLED" /\ state' = [state EXCEPT ![u] = s]
         /\ stack' = <<a, b>> \o r
  <2>1. <<>> \o <<a, b>> = <<a, b>> /\ <<>> \o r = r
    BY <1>4
  <2>2. Head(stack).task = u /\ Head(stack).st = s
    BY <1>2 DEF SetState, Op
  <2> QED
    BY <2>1, <2>2 DEF DoSetState, DoSetStateThen, IgnoresSetState, Pop
<1>6. /\ Elems(r) \subseteq Elems(stack') /\ Elems(stack') \subseteq {a, b} \union Elems(r)
      /\ Pairs(stack')
  <2>1. ~Regular(a) /\ ~Regular(b)
    BY DEF Regular, Op
  <2> DEFINE tl == r
  <2>2. tl \in Seq(AllOps) /\ Pairs(tl)
    BY <1>2, <1>4
  <2> HIDE DEF a, b, tl
  <2>3. Elems(<<a, b>> \o tl) = {a, b} \union Elems(tl)
    BY <1>4, <2>2, ElemsPushTwo
  <2>4. Pairs(<<a, b>> \o tl)
    <3>1. <<a, b>> \in Seq(AllOps)
      BY <1>4
    <3>2. \A o \in Elems(<<a, b>>) : ~Regular(o)
      BY <2>1, ElemsTwo
    <3> QED
      BY <2>2, <3>1, <3>2, PairsPush
  <2> QED
    BY <1>5, <2>2, <2>3, <2>4 DEF tl
<1>7. \A t, st : Pending(stack', t, st) <=> Pending(r, t, st)
  BY <1>6 DEF Pending, SetState, Op
<1>8. state'[u] \in {state[u], s} /\ \A t \in Tasks \ {u} : state'[t] = state[t]
  BY <1>2, <1>4, <1>5
<1> HIDE DEF r
<1>9. TaskMoves(u)'
  <2>1. TaskMoves(u) /\ state[u] \in State
    BY <1>2, <1>4 DEF MoveInv
  <2>2. CASE state[u] = "CANCELLED" /\ state' = state
    BY <1>2, <1>3, <1>7, <2>1, <2>2 DEF TaskMoves, BeforeStart, BeforeOutcome, InQueue, OnStack,
      Started, OutcomePending, MovePending, r
  <2>3. CASE state[u] # "CANCELLED" /\ state'[u] = s
    <3>1. CASE s = "SCHEDULED"
      BY <1>2, <1>3, <1>7, <2>1, <2>3, <3>1 DEF TaskMoves, BeforeStart, BeforeOutcome, InQueue,
        OnStack, Started, OutcomePending, MovePending, r
    <3>2. CASE s = "RUNNING"
      BY <1>2, <1>3, <1>7, <2>1, <2>3, <3>2 DEF TaskMoves, BeforeStart, BeforeOutcome, InQueue,
        OnStack, Started, OutcomePending, MovePending, r
    <3>3. CASE s \in Concluded
      BY <1>2, <1>3, <1>7, <2>1, <2>3, <3>3 DEF TaskMoves, BeforeStart, BeforeOutcome, InQueue,
        OnStack, Started, OutcomePending, MovePending, Concluded, r
    <3>4. CASE s = "CANCELLED"
      BY <1>2, <1>3, <1>7, <2>1, <2>3, <3>4 DEF TaskMoves, BeforeStart, BeforeOutcome, InQueue,
        OnStack, Started, OutcomePending, MovePending, r
    <3> QED
      BY <1>2, <3>1, <3>2, <3>3, <3>4 DEF State, Concluded
  <2>4. state' = [state EXCEPT ![u] = s] => state'[u] = s
    BY <1>2, <1>4
  <2> QED
    BY <1>5, <2>2, <2>3, <2>4
<1>10. \A t \in Tasks \ {u} : TaskMoves(t)'
  <2>1. \A t \in Tasks \ {u} : \A st : Pending(stack', t, st) <=> Pending(stack, t, st)
    BY <1>2, <1>7 DEF r
  <2> QED
    BY <1>3, <1>8, <2>1, MovesFrame DEF MoveInv
<1>11. \A t \in Tasks : Untouched(t)'
  <2>1. \A o \in Elems(stack') : o \in Elems(stack) \/ o.task = u
    BY <1>4, <1>6 DEF Op, r
  <2>2. \A t \in Tasks : state'[t] = state[t] \/ t \in created'
    BY <1>3, <1>8
  <2> QED
    BY <1>3, <2>1, <2>2, UntouchedFrame DEF MoveInv
<1>12. NotExecuted'
  <2>1. \A name \in {"execute", "scheduled"} : SvcOp(name) \notin {a, b, SetState(u, s)}
    BY DEF SvcOp, SetState, Op
  <2>2. (On("execute")' <=> On("execute")) /\ (On("scheduled")' <=> On("scheduled"))
    BY <1>4, <1>6, <2>1 DEF On, r
  <2> QED
    BY <1>3, <2>2 DEF MoveInv, NotExecuted, StartPending
<1>13. \A t \in Tasks : TaskMoves(t)'
  BY <1>9, <1>10
<1> QED
  BY <1>3, <1>6, <1>11, <1>12, <1>13 DEF MoveInv

(* The task is handed to the executor. *)
LEMMA ExecuteMoves ==
  ASSUME SvcTypes, SvcInv, MoveInv, DoExecute
  PROVE  MoveInv'
<1> USE DEF threadVars, fxVars, propVars
<1>1. Top("execute") /\ "execute" \in SvcOpNames /\ OneMethod(stack) /\ Elems(Tail(stack)) = {}
  BY BelowNone DEF DoExecute, SvcInv, SvcOpNames
<1>2. /\ \A o \in Elems(stack) : ~Regular(o) /\ o.task = NoTask
      /\ \A t \in Tasks : \A st : ~Pending(stack, t, st)
  BY <1>1, PartAlone
<1>3. /\ stack # <<>> /\ stack' = <<>> \o Tail(stack) /\ Tail(stack) \in Seq(AllOps)
      /\ UNCHANGED <<posting, queue, state, cur, startedOnce, starting, created>>
      /\ cur \in created \union {NoTask} /\ created \subseteq Tasks /\ pc \in [Tasks -> Places]
  BY <1>1, HeadPart DEF DoExecute, Pop, svcVars, SvcTypes, SvcTypeOK
<1>4. stack' = Tail(stack) /\ Elems(stack') = {}
  BY <1>1, <1>3
<1>5. \A t \in Tasks : pc'[t] = pc[t] \/ (t = cur /\ pc[t] = "new" /\ pc'[t] = "submitted")
  BY <1>3 DEF DoExecute, Executable
<1>6. \A t \in Tasks : \A st : Pending(stack', t, st) <=> Pending(stack, t, st)
  BY <1>2, <1>4 DEF Pending
<1>7. ASSUME NEW t \in Tasks PROVE TaskMoves(t)'
  <2>1. TaskMoves(t)
    BY DEF MoveInv
  <2>2. CASE pc'[t] = pc[t]
    BY <1>3, <1>6, <2>1, <2>2, MovesFrame
  <2>3. CASE pc[t] = "new" /\ pc'[t] = "submitted"
    BY <1>2, <1>3, <1>6, <2>1, <2>3 DEF TaskMoves, BeforeStart, BeforeOutcome, InQueue, OnStack,
      Started, OutcomePending, MovePending
  <2> QED
    BY <1>5, <2>2, <2>3
<1>8. ASSUME NEW t \in Tasks PROVE Untouched(t)'
  <2>1. pc'[t] = pc[t] \/ t \in created'
    BY <1>3, <1>5, ServiceAssumption
  <2> QED
    BY <1>3, <1>4, <2>1, UntouchedFrame DEF MoveInv
<1>9. NotExecuted'
  <2>1. ~On("execute")' /\ ~On("scheduled")' /\ On("execute")
    BY <1>1, <1>4, HeadPart DEF On
  <2> QED
    BY <1>3, <2>1 DEF MoveInv, NotExecuted, StartPending
<1>10. Pairs(stack')
  BY <1>3, <1>4, PairsNone
<1> QED
  BY <1>3, <1>7, <1>8, <1>9, <1>10 DEF MoveInv

LEMMA PairsFirst ==
  ASSUME NEW S, NEW s \in Seq(S), NEW a \in S, \A o \in Elems(s) : ~Regular(o)
  PROVE  Pairs(<<a>> \o s)
<1> DEFINE r == <<a>> \o s
<1>1. /\ Len(s) \in Nat /\ Len(r) = Len(s) + 1
      /\ \A i \in 1..Len(s) : r[i + 1] = s[i] /\ s[i] \in Elems(s)
  BY DEF Elems
<1> HIDE DEF r
<1> SUFFICES ASSUME NEW i \in 1..Len(r), NEW j \in 1..Len(r), i < j
             PROVE  ~Regular(r[j])
  BY DEF Pairs, r
<1>2. j - 1 \in 1..Len(s) /\ (j - 1) + 1 = j
  BY <1>1
<1> QED
  BY <1>1, <1>2

LEMMA PairsFirstTwo ==
  ASSUME NEW S, NEW s \in Seq(S), NEW a \in S, NEW b \in S, ~Regular(b),
         \A o \in Elems(s) : ~Regular(o)
  PROVE  Pairs(<<a, b>> \o s)
<1> DEFINE r == <<a, b>> \o s
<1>1. /\ Len(s) \in Nat /\ Len(r) = Len(s) + 2 /\ r[2] = b
      /\ \A i \in 1..Len(s) : r[i + 2] = s[i] /\ s[i] \in Elems(s)
  BY DEF Elems
<1> HIDE DEF r
<1> SUFFICES ASSUME NEW i \in 1..Len(r), NEW j \in 1..Len(r), i < j
             PROVE  ~Regular(r[j])
  BY DEF Pairs, r
<1>2. j = 2 \/ (j - 2 \in 1..Len(s) /\ (j - 2) + 2 = j)
  BY <1>1
<1> QED
  BY <1>1, <1>2

(* The first part of a start(): a task that was not created before. *)
LEMMA StartMoves ==
  ASSUME SvcTypes, SvcInv, MoveInv, DoStart, SvcState = "READY"
  PROVE  MoveInv'
<1> USE DEF threadVars, fxVars, propVars
<1>1. PICK t \in Tasks :
        Wire(t) /\ stack' = <<SetState(t, "SCHEDULED"), SvcOp("execute")>> \o Tail(stack)
  BY DEF DoStart, Pop
<1> DEFINE a == SetState(t, "SCHEDULED")
           b == SvcOp("execute")
           r == Tail(stack)
<1>2. Top("start") /\ "start" \in SvcOpNames /\ OneMethod(stack) /\ Elems(r) = {} /\ On("start")
  BY BelowNone, HeadPart DEF DoStart, SvcInv, SvcOpNames
<1>3. /\ UNCHANGED <<pc, posting, queue, state, starting>>
      /\ cur' = t /\ created' = created \union {t} /\ startedOnce' = TRUE /\ t \notin created
  BY <1>1 DEF DoStart, Wire
<1>4. a \in AllOps /\ b \in AllOps /\ r \in Seq(AllOps) /\ stack # <<>>
  BY <1>2, HeadPart, OpsTyped DEF SetState, OpNames, State, SvcOpNames
<1>5. /\ \A st : SetState(t, st) = a <=> st = "SCHEDULED"
      /\ \A u, st : SetState(u, st) # b /\ (SetState(u, st) = a => u = t)
      /\ a.task = t /\ b.task = NoTask /\ ~Regular(b) /\ a # b
      /\ SvcOp("scheduled") \notin {a, b}
  BY DEF SetState, SvcOp, Op, Regular
<1> HIDE DEF a, b, r
<1>6. Elems(stack') = {a, b} /\ Pairs(stack')
  <2>1. Elems(<<a, b>> \o r) = {a, b} \union Elems(r)
    BY <1>4, ElemsPushTwo
  <2>2. Pairs(<<a, b>> \o r)
    BY <1>2, <1>4, <1>5, PairsFirstTwo
  <2> QED
    BY <1>1, <1>2, <2>1, <2>2 DEF a, b, r
<1>7. \A u \in Tasks : \A st : ~Pending(stack, u, st)
  BY <1>2, PartAlone
<1>8. \A u \in Tasks : \A st : Pending(stack', u, st) <=> u = t /\ st = "SCHEDULED"
  BY <1>5, <1>6 DEF Pending
<1>9. TaskMoves(t)'
  <2>1. state[t] = "READY" /\ pc[t] = "new" /\ TaskMoves(t)
    BY <1>3 DEF MoveInv, Untouched
  <2> QED
    BY <1>3, <1>7, <1>8, <2>1 DEF TaskMoves, BeforeStart, BeforeOutcome, InQueue, OnStack,
      Started, OutcomePending, MovePending
<1>10. \A u \in Tasks \ {t} : TaskMoves(u)'
  BY <1>3, <1>7, <1>8, MovesFrame DEF MoveInv
<1>11. \A u \in Tasks : Untouched(u)'
  <2> SUFFICES ASSUME NEW u \in Tasks PROVE Untouched(u)'
    OBVIOUS
  <2>1. \A o \in Elems(stack') : o.task = u => u \in created'
    BY <1>3, <1>5, <1>6, ServiceAssumption
  <2> QED
    BY <1>3, <2>1, UntouchedFrame DEF MoveInv
<1>12. NotExecuted'
  <2>1. ~StartPending
    BY <1>2 DEF SvcInv, StartAlone
  <2>2. ~StartPending'
    BY <1>3, <2>1 DEF StartPending
  <2>3. pc[t] = "new"
    BY <1>3 DEF MoveInv, Untouched
  <2>4. On("execute")' /\ ~On("scheduled")'
    BY <1>5, <1>6 DEF On, b
  <2> QED
    BY <1>3, <2>2, <2>3, <2>4 DEF MoveInv, NotExecuted
<1>13. \A u \in Tasks : TaskMoves(u)'
  BY <1>9, <1>10
<1> QED
  BY <1>3, <1>6, <1>11, <1>12, <1>13 DEF MoveInv

(* The runnable of a start() off the application thread. *)
LEMMA ScheduledMoves ==
  ASSUME SvcTypes, SvcInv, MoveInv, DoScheduled
  PROVE  MoveInv'
<1> USE DEF threadVars, fxVars, propVars
<1> DEFINE a == SetState(cur, "SCHEDULED")
           r == Tail(stack)
<1>1. Top("scheduled") /\ "scheduled" \in SvcOpNames /\ OneMethod(stack)
  BY DEF DoScheduled, SvcInv, SvcOpNames
<1>2. /\ r \in Seq(AllOps) /\ Elems(stack) = {SvcOp("scheduled")} \union Elems(r)
      /\ On("scheduled") /\ SvcOp("scheduled") \notin Elems(r)
  BY <1>1, HeadPart, Below
<1>3. /\ \A o \in Elems(stack) : ~Regular(o) /\ o.task = NoTask
      /\ \A t \in Tasks : \A st : ~Pending(stack, t, st)
  BY <1>1, PartAlone
<1>4. UNCHANGED <<pc, posting, queue, state, cur, starting, created, startedOnce>>
  BY DEF DoScheduled, svcVars
<1>5. On("execute") /\ (cur = NoTask \/ pc[cur] = "new") /\ ~StartPending
  BY <1>2 DEF MoveInv, NotExecuted
<1>6. CASE cur = NoTask
  <2>1. stack' = <<>> /\ stack' \in Seq(AllOps)
    <3>1. stack' = <<>>
      BY <1>6 DEF DoScheduled
    <3> QED
      BY <3>1
  <2>2. Elems(stack') = {}
    BY <2>1, ElemsOne
  <2>3. Pairs(stack')
    BY <2>1, <2>2, PairsNone
  <2> QED
    BY <1>3, <1>4, <2>2, <2>3, QuietMoves DEF On
<1>7. CASE cur # NoTask
  <2>1. /\ a \in AllOps /\ cur \in created /\ cur \in Tasks /\ a.task = cur
        /\ stack' = <<a>> \o r
    BY <1>7, OpsTyped DEF SetState, Op, OpNames, State, SvcTypes, SvcTypeOK, DoScheduled
  <2>2. /\ \A t, st : SetState(t, st) = a <=> t = cur /\ st = "SCHEDULED"
        /\ a \notin {SvcOp("execute"), SvcOp("scheduled")}
        /\ SvcOp("scheduled") # SvcOp("execute")
    BY DEF SetState, SvcOp, Op
  <2> HIDE DEF a, r
  <2>3. Elems(stack') = {a} \union Elems(r)
    BY <1>2, <2>1, ElemsPush
  <2>4. \A o \in Elems(r) : ~Regular(o)
    BY <1>2, <1>3
  <2>5. Pairs(stack')
    BY <1>2, <2>1, <2>4, PairsFirst
  <2>6. \A t \in Tasks : \A st : Pending(stack', t, st) <=> t = cur /\ st = "SCHEDULED"
    BY <1>2, <1>3, <2>2, <2>3 DEF Pending
  <2>7. TaskMoves(cur)'
    <3>1. TaskMoves(cur) /\ pc[cur] = "new"
      BY <1>5, <1>7, <2>1 DEF MoveInv
    <3> QED
      BY <1>3, <1>4, <2>1, <2>6, <3>1 DEF TaskMoves, BeforeStart, BeforeOutcome, InQueue, OnStack,
        Started, OutcomePending, MovePending
  <2>8. \A t \in Tasks \ {cur} : TaskMoves(t)'
    BY <1>3, <1>4, <2>6, MovesFrame DEF MoveInv
  <2>9. \A t \in Tasks : Untouched(t)'
    <3>1. \A o \in Elems(stack') : o \in Elems(stack) \/ o.task = cur
      BY <1>2, <2>1, <2>3
    <3> QED
      BY <1>4, <2>1, <3>1, UntouchedFrame DEF MoveInv
  <2>10. NotExecuted'
    <3>1. On("execute")' /\ ~On("scheduled")'
      BY <1>2, <1>5, <2>2, <2>3 DEF On
    <3> QED
      BY <1>4, <1>5, <3>1 DEF MoveInv, NotExecuted, StartPending
  <2>11. \A t \in Tasks : TaskMoves(t)'
    BY <1>4, <2>7, <2>8
  <2> QED
    BY <1>4, <2>5, <2>9, <2>10, <2>11 DEF MoveInv
<1> QED
  BY <1>6, <1>7

(* A start() off the application thread. *)
LEMMA OffFxMoves ==
  ASSUME SvcTypes, SvcInv, MoveInv, StartOffFx \/ PostScheduled
  PROVE  MoveInv'
<1> USE DEF threadVars, fxVars, propVars, taskVars
<1>1. /\ UNCHANGED <<pc, posting, state, stack>> /\ created \subseteq created'
      /\ queue \in Seq(AllRunnables) /\ Elems(queue) \subseteq AllRunnables
  BY DEF StartOffFx, PostScheduled, Wire, SvcTypes, Elems
<1>2. StartPending <=> starting \/ PostedStart \in Elems(queue)
  BY <1>1, PendingElems DEF StartPending
<1>3. CASE StartOffFx
  <2>1. PICK t \in Tasks : Wire(t)
    BY <1>3 DEF StartOffFx
  <2>2. /\ UNCHANGED queue /\ cur' = t /\ startedOnce' = TRUE /\ ~startedOnce /\ t \notin created
        /\ stack = <<>>
    BY <1>3, <2>1 DEF StartOffFx, Wire
  <2>3. ~StartPending /\ pc[t] = "new" /\ \A name : ~On(name)
    BY <2>2, EmptyStack DEF MoveInv, NotExecuted, Untouched
  <2>4. NotExecuted'
    BY <1>1, <1>2, <2>2, <2>3 DEF NotExecuted, On
  <2>5. \A u \in Tasks : TaskMoves(u)'
    BY <1>1, <2>2, MovesFrame DEF MoveInv
  <2>6. \A u \in Tasks : Untouched(u)'
    BY <1>1, <2>2, UntouchedFrame DEF MoveInv
  <2> QED
    BY <1>1, <2>2, <2>4, <2>5, <2>6 DEF MoveInv
<1>4. CASE PostScheduled
  <2>1. /\ starting /\ ~starting' /\ queue' = Append(queue, PostedStart)
        /\ UNCHANGED <<cur, startedOnce, created>>
    BY <1>4 DEF PostScheduled, RunLater, PostedStart
  <2>2. PostedStart \in AllRunnables /\ PostedStart.task = NoTask /\ PostedStart \notin Elems(queue)
    BY <2>1 DEF AllRunnables, PostedStart, Runnable, MoveInv, NotExecuted
  <2>3. Elems(queue') = Elems(queue) \union {PostedStart} /\ queue' \in Seq(AllRunnables)
    BY <1>1, <2>1, <2>2, ElemsAppend
  <2>4. \A r \in Elems(queue) : r.task # NoTask
    BY <1>1, <2>2, ServiceAssumption DEF AllRunnables, Runnables
  <2>5. QueueOrder(queue')
    BY <1>1, <2>1, <2>2, <2>4, QueueAppend DEF MoveInv
  <2>6. NotExecuted'
    <3>1. StartPending
      BY <1>2, <2>1
    <3> QED
      BY <1>1, <2>1, <3>1 DEF MoveInv, NotExecuted, On
  <2>7. \A u \in Tasks : TaskMoves(u)'
    <3>1. \A k, u : Runnable(k, u).task = u
      BY DEF Runnable
    <3>2. \A u \in Tasks : \A k : Posted(queue', k, u) <=> Posted(queue, k, u)
      BY <2>2, <2>3, <3>1, ServiceAssumption DEF Posted
    <3> QED
      BY <1>1, <2>1, <3>2, MovesFrame DEF MoveInv
  <2>8. \A u \in Tasks : Untouched(u)'
    <3>1. \A u \in Tasks : \A r \in Elems(queue') : r.task = u => r \in Elems(queue)
      BY <2>2, <2>3, ServiceAssumption
    <3> QED
      BY <1>1, <2>1, <3>1, UntouchedFrame DEF MoveInv
  <2> QED
    BY <1>1, <2>5, <2>6, <2>7, <2>8 DEF MoveInv
<1> QED
  BY <1>3, <1>4

LEMMA DispatchMoves ==
  ASSUME SvcTypes, SvcInv, MoveInv, UNCHANGED svcVars, DispatchAs(SvcBody(Head(queue)))
  PROVE  MoveInv'
<1> USE DEF threadVars, fxVars, propVars
<1> DEFINE q == Tail(queue)
<1>0. PICK r, u : r = Head(queue) /\ u = r.task
  OBVIOUS
<1>1. /\ queue \in Seq(AllRunnables) /\ queue # <<>> /\ stack = <<>> /\ queue' = q
      /\ stack' = SvcBody(r) /\ UNCHANGED <<pc, posting, state>>
      /\ UNCHANGED <<cur, startedOnce, starting, created>>
  BY <1>0 DEF DispatchAs, SvcTypes, svcVars
<1>2. /\ Elems(queue) = {r} \union Elems(q) /\ q \in Seq(AllRunnables)
      /\ r \in AllRunnables /\ Elems(queue) \subseteq AllRunnables
  BY <1>0, <1>1, ElemsTail
<1>3. /\ QueueOrder(q)
      /\ \A e \in Elems(q) : e.task = u /\ Main(r) /\ Main(e) =>
           r.kind = "start" /\ e.kind \in Finish
  BY <1>0, <1>1, QueueTail DEF MoveInv
<1>4. \A t : (\A st : ~Pending(stack, t, st)) /\ \A name : ~On(name)
  BY <1>1, ElemsOne DEF Pending, On
<1>5. /\ StartPending <=> starting \/ PostedStart \in Elems(queue)
      /\ StartPending' <=> starting \/ PostedStart \in Elems(q)
  BY <1>1, <1>2, PendingElems DEF StartPending
<1> HIDE DEF q
<1>6. CASE r = PostedStart
  <2>1. stack' = <<SvcOp("scheduled"), SvcOp("execute")>>
    BY <1>1, <1>2, <1>6, BodyTyped
  <2>2. Elems(stack') = {SvcOp("scheduled"), SvcOp("execute")}
    BY <2>1, ElemsTwo
  <2>3. u = NoTask /\ r.kind = "scheduled"
    BY <1>0, <1>6 DEF PostedStart, Runnable
  <2>4. \A o \in Elems(stack') : ~Regular(o) /\ o.task = NoTask
    BY <2>2 DEF SvcOp, Op, Regular
  <2>5. stack' \in Seq(AllOps)
    BY <1>1, <1>2, BodyTyped
  <2>6. Pairs(stack')
    BY <2>4, <2>5, PairsNone
  <2>7. PostedStart \notin Elems(q)
    <3>1. PostedStart.task = u /\ Main(r) /\ Main(PostedStart)
      BY <1>0, <1>6, <2>3 DEF Main
    <3>2. r.kind # "start"
      BY <2>3
    <3> QED
      BY <1>3, <3>1, <3>2
  <2>8. StartPending /\ ~starting /\ ~StartPending'
    BY <1>2, <1>5, <1>6, <2>7 DEF MoveInv, NotExecuted
  <2>9. NotExecuted'
    <3>1. On("execute")'
      BY <2>2 DEF On
    <3> QED
      BY <1>1, <2>7, <2>8, <3>1 DEF MoveInv, NotExecuted
  <2>10. \A t \in Tasks : TaskMoves(t)'
    <3>1. \A t \in Tasks : \A k : Posted(queue', k, t) <=> Posted(queue, k, t)
      BY <1>1, <1>2, <1>6, <2>3, ServiceAssumption DEF Posted, Runnable, PostedStart
    <3>2. \A t \in Tasks : \A st : ~Pending(stack', t, st)
      BY <2>4, ServiceAssumption DEF Pending, SetState, Op
    <3> QED
      BY <1>1, <1>4, <3>1, <3>2, MovesFrame DEF MoveInv
  <2>11. \A t \in Tasks : Untouched(t)'
    BY <1>1, <1>2, <2>4, UntouchedFrame, ServiceAssumption DEF MoveInv
  <2> QED
    BY <1>1, <1>3, <2>6, <2>9, <2>10, <2>11 DEF MoveInv
<1>7. CASE r # PostedStart
  <2>1. /\ r \in Runnables /\ stack' = Body(r) /\ stack' \in Seq(AllOps)
        /\ r.kind \in Kinds /\ u \in Tasks /\ r = Runnable(r.kind, u) /\ u \in created
    <3>1. r \in Runnables /\ stack' = Body(r) /\ stack' \in Seq(AllOps)
      BY <1>1, <1>2, <1>7, BodyTyped
    <3>2. r.kind \in Kinds /\ u \in Tasks /\ r = Runnable(r.kind, u)
      BY <1>0, <3>1 DEF Runnables, Runnable
    <3>3. u \in created
      BY <1>0, <1>2, <3>2 DEF MoveInv, Untouched
    <3> QED
      BY <3>1, <3>2, <3>3
  <2>2. \A k, t : Posted(queue, k, t) <=> Posted(q, k, t) \/ (k = r.kind /\ t = u)
    <3>1. \A k, t : Runnable(k, t) = r <=> k = r.kind /\ t = u
      BY <2>1 DEF Runnable
    <3> QED
      BY <1>2, <3>1 DEF Posted
  <2>3. \A k : Posted(q, k, u) /\ k # "cancel" /\ r.kind # "cancel" =>
          r.kind = "start" /\ k \in Finish
    <3>1. \A k : Runnable(k, u).task = u /\ Runnable(k, u).kind = k
      BY DEF Runnable
    <3> QED
      BY <1>3, <3>1 DEF Posted, Main
  <2> DEFINE Moves == CASE r.kind = "start"   -> {"SCHEDULED", "RUNNING"}
                        [] r.kind = "succeed" -> {"SUCCEEDED"}
                        [] r.kind = "fail"    -> {"FAILED"}
                        [] r.kind = "cancel"  -> {"CANCELLED"}
  <2>4. \A t, st : Pending(stack', t, st) <=> t = u /\ st \in Moves
    <3>1. CASE r.kind = "start"
      <4>1. Elems(stack') = {SetState(u, "SCHEDULED"), SetState(u, "RUNNING")}
        BY <1>0, <2>1, <3>1, ElemsTwo DEF Body, StartBody
      <4> QED
        BY <3>1, <4>1 DEF Pending, SetState, Op
    <3>2. CASE r.kind = "succeed"
      <4>1. Elems(stack') = {Op("value", u, "SUCCEEDED"), SetState(u, "SUCCEEDED")}
        BY <1>0, <2>1, <3>2, ElemsTwo DEF Body, SucceedBody
      <4> QED
        BY <3>2, <4>1 DEF Pending, SetState, Op
    <3>3. CASE r.kind = "fail"
      <4>1. Elems(stack') = {Op("exception", u, "FAILED"), SetState(u, "FAILED")}
        BY <1>0, <2>1, <3>3, ElemsTwo DEF Body, FailBody
      <4> QED
        BY <3>3, <4>1 DEF Pending, SetState, Op
    <3>4. CASE r.kind = "cancel"
      <4>1. Elems(stack') = {SetState(u, "CANCELLED")}
        BY <1>0, <2>1, <3>4, ElemsOne DEF Body, CancelBody
      <4> QED
        BY <3>4, <4>1 DEF Pending, SetState, Op
    <3> QED
      BY <2>1, <3>1, <3>2, <3>3, <3>4 DEF Kinds
  <2>5. TaskMoves(u)'
    <3>1. TaskMoves(u)
      BY <2>1 DEF MoveInv
    <3>2. CASE r.kind = "start"
      BY <1>1, <1>4, <2>2, <2>3, <2>4, <3>1, <3>2 DEF TaskMoves, BeforeStart, BeforeOutcome,
        InQueue, OnStack, Started, OutcomePosted, OutcomePending, MovePending, Finish
    <3>3. CASE r.kind = "succeed"
      BY <1>1, <1>4, <2>2, <2>3, <2>4, <3>1, <3>3 DEF TaskMoves, BeforeStart, BeforeOutcome,
        InQueue, OnStack, Started, OutcomePosted, OutcomePending, MovePending, Finish
    <3>4. CASE r.kind = "fail"
      BY <1>1, <1>4, <2>2, <2>3, <2>4, <3>1, <3>4 DEF TaskMoves, BeforeStart, BeforeOutcome,
        InQueue, OnStack, Started, OutcomePosted, OutcomePending, MovePending, Finish
    <3>5. CASE r.kind = "cancel"
      BY <1>1, <1>4, <2>2, <2>3, <2>4, <3>1, <3>5 DEF TaskMoves, BeforeStart, BeforeOutcome,
        InQueue, OnStack, Started, OutcomePosted, OutcomePending, MovePending, Finish
    <3> QED
      BY <2>1, <3>2, <3>3, <3>4, <3>5 DEF Kinds
  <2>6. \A t \in Tasks \ {u} : TaskMoves(t)'
    <3> HIDE DEF Moves
    <3> QED
      BY <1>1, <1>4, <2>2, <2>4, MovesFrame DEF MoveInv
  <2>7. \A t \in Tasks : Untouched(t)'
    <3>1. \A o \in Elems(stack') : o.task = u
      BY <1>0, <2>1, BodyElems
    <3> QED
      BY <1>1, <1>2, <2>1, <3>1, UntouchedFrame DEF MoveInv
  <2>8. Pairs(stack')
    <3>1. CASE r.kind = "start"
      <4>1. stack' = <<SetState(u, "SCHEDULED"), SetState(u, "RUNNING")>>
        BY <1>0, <2>1, <3>1 DEF Body, StartBody
      <4>2. /\ Len(stack') = 2 /\ stack'[1] = SetState(u, "SCHEDULED")
            /\ stack'[2] = SetState(u, "RUNNING")
        BY <4>1
      <4> QED
        BY <4>2 DEF Pairs, SetState, Op
    <3>2. CASE r.kind \in {"succeed", "fail"}
      <4>1. PICK o, c : stack' = <<o, SetState(u, c)>> /\ o.op # "setState"
        BY <1>0, <2>1, <3>2 DEF Body, SucceedBody, FailBody, Op
      <4>2. Len(stack') = 2 /\ stack'[1] = o
        BY <4>1
      <4> QED
        BY <4>1, <4>2 DEF Pairs, Regular
    <3>3. CASE r.kind = "cancel"
      <4>1. stack' = <<SetState(u, "CANCELLED")>>
        BY <1>0, <2>1, <3>3 DEF Body, CancelBody
      <4>2. Len(stack') = 1
        BY <4>1
      <4> QED
        BY <4>2 DEF Pairs
    <3> QED
      BY <2>1, <3>1, <3>2, <3>3 DEF Kinds
  <2>9. NotExecuted'
    <3>1. StartPending' <=> StartPending
      BY <1>2, <1>5, <1>7
    <3>2. \A o \in Elems(stack') : o.task # NoTask
      BY <1>0, <2>1, BodyElems, ServiceAssumption
    <3>3. ~On("execute")' /\ ~On("scheduled")'
      BY <3>2 DEF On, SvcOp, Op
    <3> QED
      BY <1>1, <1>2, <3>1, <3>3 DEF MoveInv, NotExecuted
  <2>10. \A t \in Tasks : TaskMoves(t)'
    BY <2>5, <2>6
  <2> QED
    BY <1>1, <1>3, <2>7, <2>8, <2>9, <2>10 DEF MoveInv
<1> QED
  BY <1>6, <1>7

LEMMA MoveInit == SvcInit => MoveInv
<1> SUFFICES ASSUME SvcInit PROVE MoveInv
  OBVIOUS
<1>1. Elems(queue) = {} /\ Elems(stack) = {} /\ Len(queue) = 0 /\ Len(stack) = 0
  BY ElemsOne DEF SvcInit, Init
<1>2. \A t \in Tasks : Untouched(t)
  BY <1>1 DEF SvcInit, Init, Untouched
<1>3. \A t \in Tasks : TaskMoves(t)
  BY <1>1 DEF SvcInit, Init, TaskMoves, BeforeStart, BeforeOutcome, InQueue, OnStack, Posted,
    OutcomePosted, Pending, OutcomePending
<1>4. QueueOrder(queue) /\ Pairs(stack)
  BY <1>1 DEF QueueOrder, Pairs
<1>5. ~StartPending
  BY DEF StartPending, SvcInit, Init
<1>6. NotExecuted
  BY <1>1, <1>5 DEF NotExecuted, On, SvcInit
<1> QED
  BY <1>2, <1>3, <1>4, <1>6 DEF MoveInv

LEMMA MoveStep ==
  ASSUME OrderlyUse, SvcTypes, SvcInv, MoveInv, [SvcNext]_vars
  PROVE  MoveInv'
<1>1. CASE UNCHANGED vars
  <2>1. UNCHANGED <<pc, posting, queue, state, startedOnce, starting, created, cur, stack>>
    BY <1>1 DEF vars, taskVars, svcVars, threadVars, fxVars, propVars
  <2>2. \A t \in Tasks : TaskMoves(t)' /\ Untouched(t)'
    BY <2>1, MovesFrame, UntouchedFrame DEF MoveInv
  <2> QED
    BY <2>1, <2>2 DEF MoveInv, NotExecuted, StartPending, On
<1>2. CASE Start \/ Reset \/ Restart \/ Cancel
  BY <1>2, CallMoves
<1>3. CASE StartOffFx \/ PostScheduled
  BY <1>3, OffFxMoves
<1>4. CASE SvcFxThread
  <2>1. CASE CommonFxThread
    BY <2>1, PartMoves, StartMoves, ScheduledMoves, PlainMoves DEF CommonFxThread
  <2>2. CASE DoReset \/ DoExecute
    BY <2>2, PartMoves, ExecuteMoves
  <2>3. CASE (DispatchAs(SvcBody(Head(queue))) \/ DoSetState) /\ UNCHANGED svcVars
    BY <2>3, DispatchMoves, SetStateMoves
  <2> QED
    BY <1>4, <2>1, <2>2, <2>3 DEF SvcFxThread
<1>5. CASE TaskThreads
  BY <1>5, ThreadMoves
<1> QED
  BY <1>1, <1>2, <1>3, <1>4, <1>5 DEF SvcNext

LEMMA MovesCorrect ==
  ASSUME OrderlyUse
  PROVE  SvcSpec => [](SvcTypes /\ SvcInv /\ MoveInv)
<1>1. SvcInit => MoveInv
  BY MoveInit
<1>2. SvcTypes /\ SvcInv /\ MoveInv /\ [SvcNext]_vars => MoveInv'
  BY MoveStep
<1> QED
  BY <1>1, <1>2, SvcCorrect, PTL DEF SvcSpec

-----------------------------------------------------------------------------
(* The refinement.                                                         *)

Shown == [w \in {"service"} |-> SvcState]

(* The state of the service stays or makes a legal move. *)
LEMMA MappedMove ==
  ASSUME \/ SvcState' = SvcState
         \/ SvcState' \in State /\ SvcLifecycle!LegalMove(SvcState, SvcState')
  PROVE  [SvcLifecycle!Next]_Shown
<1>1. CASE SvcState' = SvcState
  BY <1>1 DEF Shown
<1>2. CASE SvcState' \in State /\ SvcLifecycle!LegalMove(SvcState, SvcState')
  <2>1. SvcLifecycle!Move("service", SvcState')
    BY <1>2 DEF SvcLifecycle!Move
  <2>2. SvcState' \in SvcLifecycle!State
    BY <1>2 DEF State, SvcLifecycle!State
  <2> QED
    BY <2>1, <2>2 DEF SvcLifecycle!Next
<1> QED
  BY <1>1, <1>2

LEMMA ShownType ==
  ASSUME SvcTypes
  PROVE  /\ SvcState \in State /\ cur \in created \union {NoTask} /\ created \subseteq Tasks
         /\ state \in [Tasks -> State] /\ NoTask \notin Tasks
<1>1. /\ cur \in created \union {NoTask} /\ created \subseteq Tasks /\ own \in State
      /\ state \in [Tasks -> State]
  BY DEF SvcTypes, SvcTypeOK, State
<1> QED
  BY <1>1, ServiceAssumption DEF SvcState

(* reset(), and restart() after the task was cancelled. *)
LEMMA DetachMove ==
  ASSUME SvcTypes, NEW s \in {"READY", "CANCELLED"}, Detach(s), s = "READY" => ~ResetRefused
  PROVE  \/ SvcState' = SvcState
         \/ SvcState' \in State /\ SvcLifecycle!LegalMove(SvcState, SvcState')
<1>1. SvcState' = s /\ SvcState \in State
  BY ShownType DEF Detach, SvcState
<1> QED
  BY <1>1 DEF ResetRefused, Active, State, SvcLifecycle!LegalMove, SvcLifecycle!Concluded,
    SvcLifecycle!Ended

(* A new task is READY, as the service is. *)
LEMMA WireMove ==
  ASSUME SvcTypes, MoveInv, NEW t \in Tasks, Wire(t), SvcState = "READY", UNCHANGED state
  PROVE  SvcState' = SvcState
<1>1. state[t] = "READY" /\ cur' = t /\ t # NoTask
  BY ServiceAssumption DEF Wire, MoveInv, Untouched
<1> QED
  BY <1>1 DEF SvcState

LEMMA ServiceMove ==
  ASSUME OrderlyUse, SvcTypes, SvcInv, MoveInv, [SvcNext]_vars
  PROVE  \/ SvcState' = SvcState
         \/ SvcState' \in State /\ SvcLifecycle!LegalMove(SvcState, SvcState')
<1> USE DEF threadVars, fxVars, propVars, taskVars
<1>1. CASE UNCHANGED <<cur, own, state>>
  BY <1>1 DEF SvcState
<1>2. CASE UNCHANGED vars
  BY <1>1, <1>2 DEF vars, svcVars
<1>3. CASE Start \/ Reset \/ Restart \/ PostScheduled \/ TaskThreads
  <2>1. UNCHANGED <<cur, own>>
    BY <1>3 DEF Start, Reset, Restart, PostScheduled, TaskThreads, svcVars
  <2>2. UNCHANGED state
    BY <1>3 DEF Start, Reset, Restart, PostScheduled, TaskThreads, WorkerThread, Run, Call,
      TestCancelled, PostSucceeded, PostFailed, Set, SetException, Complete, Return, Throw,
      CancelOffFx, PostCancelled
  <2> QED
    BY <1>1, <2>1, <2>2
<1>4. CASE Cancel
  <2>1. UNCHANGED <<cur, state>> /\ (own' = own \/ (cur = NoTask /\ own' = "CANCELLED"))
    BY <1>4 DEF Cancel, CancelAnd
  <2>2. CASE cur = NoTask /\ own' = "CANCELLED"
    <3>1. own \in {"READY", "CANCELLED"} /\ SvcState = own /\ SvcState' = "CANCELLED"
      BY <2>1, <2>2 DEF SvcTypes, SvcState
    <3> QED
      BY <3>1 DEF State, SvcLifecycle!LegalMove
  <2> QED
    BY <1>1, <2>1, <2>2
<1>5. CASE StartOffFx
  BY <1>5, WireMove DEF StartOffFx
<1>6. CASE DoUnwire \/ DoExecute \/ DoScheduled
  BY <1>1, <1>6 DEF DoUnwire, DoExecute, DoScheduled, svcVars
<1>7. CASE DoStart
  <2>1. CASE UNCHANGED svcVars
    BY <1>1, <1>7, <2>1 DEF DoStart, svcVars
  <2>2. CASE SvcState = "READY" /\ \E t \in Tasks : Wire(t)
    BY <1>7, <2>2, WireMove DEF DoStart
  <2> QED
    BY <1>7, <2>1, <2>2 DEF DoStart
<1>8. CASE DoDrop
  BY <1>8, DetachMove DEF DoDrop
<1>9. CASE DoReset
  <2>1. UNCHANGED state /\ (UNCHANGED svcVars \/ (~ResetRefused /\ Detach("READY")))
    BY <1>9 DEF DoReset, DoResetAnd, ResetThen
  <2> QED
    BY <1>1, <2>1, DetachMove DEF svcVars
<1>10. CASE /\ UNCHANGED svcVars
            /\ \/ DispatchAs(SvcBody(Head(queue)))
               \/ DoSetRunning \/ DoFire \/ DoSetValue \/ DoSetException
  BY <1>1, <1>10 DEF DispatchAs, DoSetRunning, DoFire, DoSetValue, DoSetException, svcVars
<1>11. CASE UNCHANGED svcVars /\ DoSetState
  <2>1. Top("setState")
    BY <1>11 DEF DoSetState, DoSetStateThen
  <2>2. PICK u \in created, s \in State \ {"READY"} :
          /\ Head(stack) = SetState(u, s) /\ u \in Tasks
          /\ state[u] # "CANCELLED" /\ state[u] # s => SvcLifecycle!LegalMove(state[u], s)
    BY <2>1, HeadMove
  <2>3. Head(stack).task = u /\ Head(stack).st = s
    BY <2>2 DEF SetState, Op
  <2>4. UNCHANGED <<cur, own>>
        /\ (state' = state \/ (state[u] # "CANCELLED" /\ state' = [state EXCEPT ![u] = s]))
    BY <1>11, <2>3 DEF DoSetState, DoSetStateThen, IgnoresSetState, svcVars
  <2>5. CASE state[u] # "CANCELLED" /\ state' = [state EXCEPT ![u] = s] /\ cur = u
    <3>1. SvcState = state[u] /\ SvcState' = s
      BY <2>2, <2>4, <2>5, ShownType DEF SvcState
    <3> QED
      BY <2>2, <2>5, <3>1
  <2>6. CASE state' = [state EXCEPT ![u] = s] /\ cur # u
    BY <2>4, <2>6, ShownType DEF SvcState
  <2> QED
    BY <1>1, <2>4, <2>5, <2>6
<1>12. CASE SvcFxThread
  BY <1>6, <1>7, <1>8, <1>9, <1>10, <1>11, <1>12 DEF SvcFxThread, CommonFxThread
<1> QED
  BY <1>2, <1>3, <1>4, <1>5, <1>12 DEF SvcNext

(* For any number of tasks and calls, with handlers that call at most       *)
(* cancel() and no call between a first start() on another thread and its  *)
(* runnable: whichever task is current, the state that getState() returns  *)
(* makes only the moves of a reusable Worker, or is cancelled after its    *)
(* end.                                                                    *)
THEOREM SvcImplements ==
  ASSUME OrderlyUse
  PROVE  SvcSpec => RefinesReusableWorker
<1>1. SvcInit => SvcLifecycle!Init
  BY DEF SvcInit, SvcState, SvcLifecycle!Init
<1>2. SvcTypes /\ SvcInv /\ MoveInv /\ [SvcNext]_vars => [SvcLifecycle!Next]_Shown
  BY ServiceMove, MappedMove
<1> QED
  BY <1>1, <1>2, MovesCorrect, PTL DEF SvcSpec, RefinesReusableWorker, SvcLifecycle!Spec, Shown
=============================================================================
