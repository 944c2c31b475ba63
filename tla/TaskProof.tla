----------------------------- MODULE TaskProof ------------------------------
(***************************************************************************)
(* Theorems about Task, for every set of tasks: its types, the order of    *)
(* outcome and state, the agreement of state and Future, the events that   *)
(* handlers see, and that Task implements Worker.                          *)
(***************************************************************************)
EXTENDS Task, TLAPS

LEMMA OpInOps ==
  ASSUME NEW name \in OpNames, NEW t \in Tasks, NEW s \in State \ {"READY"}
  PROVE  Op(name, t, s) \in Ops
  BY DEF Op, Ops

LEMMA BodyInOps ==
  ASSUME NEW r \in Runnables
  PROVE  Body(r) \in Seq(Ops)
<1> DEFINE t == r.task
<1>1. t \in Tasks /\ r.kind \in Kinds
  BY DEF Runnables
<1>2. StartBody(t) \in Seq(Ops)
  BY <1>1, OpInOps DEF StartBody, SetState, OpNames, State
<1>3. SucceedBody(t) \in Seq(Ops)
  BY <1>1, OpInOps DEF SucceedBody, SetState, OpNames, State
<1>4. FailBody(t) \in Seq(Ops)
  BY <1>1, OpInOps DEF FailBody, SetState, OpNames, State
<1>5. CancelBody(t) \in Seq(Ops)
  BY <1>1, OpInOps DEF CancelBody, SetState, OpNames, State
<1> QED
  BY <1>1, <1>2, <1>3, <1>4, <1>5 DEF Body, Kinds

(* A step that posts a runnable keeps the type of the queue. *)
LEMMA RunLaterType ==
  ASSUME TypeOK, NEW k \in Kinds, NEW t \in Tasks, RunLater(k, t)
  PROVE  queue' \in Seq(Runnables)
<1>1. Runnable(k, t) \in Runnables
  BY DEF Runnable, Runnables
<1> QED
  BY <1>1 DEF RunLater, TypeOK

(* A step that finishes the innermost operation keeps the type of the stack. *)
LEMMA PopType ==
  ASSUME TypeOK, stack # <<>>, NEW ops \in Seq(Ops), NEW b \in BOOLEAN, Pop(ops, b)
  PROVE  stack' \in Seq(Ops) /\ callback' \in BOOLEAN
  BY DEF Pop, TypeOK

(* A step that calls into the stack keeps its type. *)
LEMMA PushType ==
  ASSUME NEW ops \in Seq(Ops), NEW s \in Seq(Ops)
  PROVE  ops \o s \in Seq(Ops)
  OBVIOUS

LEMMA HeadType ==
  ASSUME TypeOK, stack # <<>>
  PROVE  Head(stack) \in Ops
  BY DEF TypeOK

LEMMA TypeStep ==
  ASSUME TypeOK, [Next]_taskVars
  PROVE  TypeOK'
<1> USE DEF threadVars, fxVars, propVars
<1>1. CASE UNCHANGED taskVars
  BY <1>1 DEF TypeOK, taskVars
<1>2. CASE Dispatch
  <2>1. Head(queue) \in Runnables /\ Tail(queue) \in Seq(Runnables)
    BY <1>2 DEF Dispatch, DispatchAs, TypeOK
  <2> QED
    BY <1>2, <2>1, BodyInOps DEF Dispatch, DispatchAs, TypeOK
<1>3. CASE DoSetState
  <2> DEFINE t == Head(stack).task
             s == Head(stack).st
             rest == <<Op("running", t, s), Op("fire", t, s)>>
  <2>1. t \in Tasks /\ s \in State \ {"READY"} /\ stack # <<>>
    BY <1>3, HeadType DEF DoSetState, DoSetStateThen, Top, Ops
  <2>2. rest \in Seq(Ops)
    BY <2>1, OpInOps DEF OpNames
  <2>3. <<>> \o rest = rest /\ <<>> \in Seq(Ops)
    BY <2>2
  <2>4. stack' \in Seq(Ops) /\ callback' \in BOOLEAN
    BY <1>3, <2>1, <2>2, <2>3, PopType DEF DoSetState, DoSetStateThen
  <2>5. state' \in [Tasks -> State]
    BY <1>3, <2>1 DEF DoSetState, DoSetStateThen, TypeOK
  <2> QED
    BY <1>3, <2>4, <2>5 DEF DoSetState, DoSetStateThen, TypeOK
<1>4. CASE DoSetRunning
  <2>1. Head(stack).task \in Tasks /\ stack # <<>>
    BY <1>4, HeadType DEF DoSetRunning, Top, Ops
  <2>2. stack' \in Seq(Ops) /\ callback' \in BOOLEAN
    BY <1>4, <2>1 DEF DoSetRunning, Pop, TypeOK
  <2> QED
    BY <1>4, <2>1, <2>2 DEF DoSetRunning, TypeOK
<1>5. CASE DoFire
  <2>1. Head(stack).task \in Tasks /\ stack # <<>>
    BY <1>5, HeadType DEF DoFire, Top, Ops
  <2>2. stack' \in Seq(Ops) /\ callback' \in BOOLEAN
    BY <1>5, <2>1 DEF DoFire, Pop, TypeOK
  <2> QED
    BY <1>5, <2>1, <2>2 DEF DoFire, TypeOK
<1>6. CASE DoSetValue
  <2>1. Head(stack).task \in Tasks /\ stack # <<>>
    BY <1>6, HeadType DEF DoSetValue, Top, Ops
  <2>2. stack' \in Seq(Ops) /\ callback' \in BOOLEAN
    BY <1>6, <2>1 DEF DoSetValue, Pop, TypeOK
  <2> QED
    BY <1>6, <2>1, <2>2 DEF DoSetValue, TypeOK
<1>7. CASE DoSetException
  <2>1. Head(stack).task \in Tasks /\ stack # <<>>
    BY <1>7, HeadType DEF DoSetException, Top, Ops
  <2>2. stack' \in Seq(Ops) /\ callback' \in BOOLEAN
    BY <1>7, <2>1 DEF DoSetException, Pop, TypeOK
  <2> QED
    BY <1>7, <2>1, <2>2 DEF DoSetException, TypeOK
<1>8. ASSUME NEW t \in Tasks,
             \/ Submit(t) \/ WorkerThread(t) \/ Return(t) \/ Throw(t)
             \/ CancelOnFx(t) \/ CancelOffFx(t) \/ PostCancelled(t)
      PROVE  TypeOK'
  <2>1. CASE Submit(t) \/ Run(t) \/ Return(t) \/ Throw(t) \/ TestCancelled(t)
    BY <2>1 DEF Submit, Run, Return, Throw, TestCancelled, At, TypeOK, Places
  <2>2. CASE Call(t) \/ PostSucceeded(t) \/ PostFailed(t)
    <3>1. queue' \in Seq(Runnables)
      BY <2>2, RunLaterType DEF Call, PostSucceeded, PostFailed, Kinds
    <3> QED
      BY <2>2, <3>1 DEF Call, PostSucceeded, PostFailed, At, TypeOK, Places
  <2>3. CASE Set(t) \/ SetException(t)
    BY <2>3 DEF Set, SetException, Complete, At, TypeOK, Places, Futures
  <2>4. CASE CancelOnFx(t)
    <3>1. <<SetState(t, "CANCELLED")>> \in Seq(Ops)
      BY OpInOps DEF SetState, OpNames, State
    <3>2. stack' \in Seq(Ops) /\ callback' \in BOOLEAN
      BY <2>4, <3>1, PushType DEF CancelOnFx, TypeOK
    <3> QED
      BY <2>4, <3>2 DEF CancelOnFx, FutureCancel, TypeOK, Futures
  <2>5. CASE CancelOffFx(t)
    BY <2>5 DEF CancelOffFx, FutureCancel, TypeOK, Futures
  <2>6. CASE PostCancelled(t)
    <3>1. queue' \in Seq(Runnables)
      BY <2>6, RunLaterType DEF PostCancelled, Kinds
    <3> QED
      BY <2>6, <3>1 DEF PostCancelled, TypeOK
  <2> QED
    BY <1>8, <2>1, <2>2, <2>3, <2>4, <2>5, <2>6 DEF WorkerThread
<1> QED
  BY <1>1, <1>2, <1>3, <1>4, <1>5, <1>6, <1>7, <1>8 DEF Next, FxThread

LEMMA TypeInit == Init => TypeOK
<1> SUFFICES ASSUME Init PROVE TypeOK
  OBVIOUS
<1>1. /\ fut \in [Tasks -> Futures] /\ pc \in [Tasks -> Places]
      /\ state \in [Tasks -> State] /\ fired \in [Tasks -> SUBSET State]
  BY DEF Init, Futures, Places, State
<1>2. /\ posting \in [Tasks -> BOOLEAN] /\ running \in [Tasks -> BOOLEAN]
      /\ value \in [Tasks -> BOOLEAN] /\ exception \in [Tasks -> BOOLEAN]
      /\ callback \in BOOLEAN
  BY DEF Init
<1>3. queue \in Seq(Runnables) /\ stack \in Seq(Ops)
  BY DEF Init
<1> QED
  BY <1>1, <1>2, <1>3 DEF TypeOK

(* Every variable keeps the type the code gives it, in every behaviour. *)
THEOREM TypeCorrect == Spec => []TypeOK
  BY TypeInit, TypeStep, PTL DEF Spec

-----------------------------------------------------------------------------
(* The outcome is there before the state that announces it.                *)
(*                                                                         *)
(* OutcomeBeforeState is not inductive: setState(SUCCEEDED) may wait in    *)
(* the stack while handlers run and cancel.  What has to be kept is that   *)
(* every such setState has its outcome already, or the operation that sets *)
(* it further in, whatever else is pushed and popped meanwhile.            *)

Preceded(s, name, st, done) ==
  \A i \in 1..Len(s) :
    s[i].op = "setState" /\ s[i].st = st =>
      \/ done[s[i].task]
      \/ \E j \in 1..(i - 1) : s[j].op = name /\ s[j].task = s[i].task

OutcomeInv ==
  /\ Preceded(stack, "value", "SUCCEEDED", value)
  /\ Preceded(stack, "exception", "FAILED", exception)
  /\ OutcomeBeforeState

(* Operations pushed on the stack leave what is below them as it was. *)
LEMMA PushPreceded ==
  ASSUME NEW s \in Seq(Ops), NEW ops \in Seq(Ops), NEW name, NEW st, NEW done,
         Preceded(s, name, st, done), Preceded(ops, name, st, done)
  PROVE  Preceded(ops \o s, name, st, done)
<1> DEFINE n == Len(ops)
           r == ops \o s
<1>0. n \in Nat /\ Len(s) \in Nat /\ Len(r) = n + Len(s)
  OBVIOUS
<1>1. /\ \A i \in 1..n : r[i] = ops[i]
      /\ \A i \in 1..Len(s) : r[i + n] = s[i]
  OBVIOUS
<1> HIDE DEF r, n
<1> SUFFICES ASSUME NEW i \in 1..Len(r), r[i].op = "setState", r[i].st = st
             PROVE  \/ done[r[i].task]
                    \/ \E j \in 1..(i - 1) : r[j].op = name /\ r[j].task = r[i].task
  BY DEF Preceded, r
<1>2. CASE i <= n
  <2>1. i \in 1..Len(ops) /\ r[i] = ops[i]
    BY <1>0, <1>1, <1>2 DEF n
  <2>2. CASE done[ops[i].task]
    BY <2>1, <2>2
  <2>3. CASE ~done[ops[i].task]
    <3>1. PICK j \in 1..(i - 1) : ops[j].op = name /\ ops[j].task = ops[i].task
      BY <2>1, <2>3 DEF Preceded
    <3>2. r[j] = ops[j]
      BY <1>0, <1>1, <1>2, <3>1
    <3> QED BY <2>1, <3>1, <3>2
  <2> QED BY <2>2, <2>3
<1>3. CASE ~(i <= n)
  <2>1. i - n \in 1..Len(s) /\ r[i] = s[i - n]
    <3>1. i - n \in 1..Len(s) /\ (i - n) + n = i
      BY <1>0, <1>3
    <3> QED BY <1>1, <3>1
  <2>2. CASE done[s[i - n].task]
    BY <2>1, <2>2
  <2>3. CASE ~done[s[i - n].task]
    <3>1. PICK j \in 1..((i - n) - 1) : s[j].op = name /\ s[j].task = s[i - n].task
      BY <2>1, <2>3 DEF Preceded
    <3>2. j \in 1..Len(s) /\ j + n \in 1..(i - 1)
      BY <1>0, <2>1, <3>1
    <3>3. r[j + n] = s[j]
      BY <1>1, <3>2
    <3> QED BY <2>1, <3>1, <3>2, <3>3
  <2> QED BY <2>2, <2>3
<1> QED BY <1>2, <1>3

(* The innermost operation may go once it was done. *)
LEMMA TailPreceded ==
  ASSUME NEW s \in Seq(Ops), s # <<>>, NEW name, NEW st, NEW done, NEW done2,
         Preceded(s, name, st, done),
         \A t \in Tasks : done[t] => done2[t],
         Head(s).op = name => done2[Head(s).task]
  PROVE  Preceded(Tail(s), name, st, done2)
<1> DEFINE r == Tail(s)
<1>0. Len(s) \in Nat /\ Len(r) = Len(s) - 1 /\ Head(s) = s[1]
  OBVIOUS
<1>1. \A i \in 1..Len(r) : r[i] = s[i + 1] /\ i + 1 \in 1..Len(s)
  OBVIOUS
<1>2. \A i \in 1..Len(s) : s[i].task \in Tasks
  <2>1. \A i \in 1..Len(s) : s[i] \in Ops
    OBVIOUS
  <2>2. \A o \in Ops : o.task \in Tasks
    BY DEF Ops
  <2> QED BY <2>1, <2>2
<1> HIDE DEF r
<1> SUFFICES ASSUME NEW i \in 1..Len(r), r[i].op = "setState", r[i].st = st
             PROVE  \/ done2[r[i].task]
                    \/ \E j \in 1..(i - 1) : r[j].op = name /\ r[j].task = r[i].task
  BY DEF Preceded, r
<1>3. i + 1 \in 1..Len(s) /\ r[i] = s[i + 1] /\ s[i + 1].task \in Tasks
  BY <1>1, <1>2
<1>4. CASE done[s[i + 1].task]
  BY <1>3, <1>4
<1>5. CASE ~done[s[i + 1].task]
  <2>1. PICK j \in 1..((i + 1) - 1) : s[j].op = name /\ s[j].task = s[i + 1].task
    BY <1>3, <1>5 DEF Preceded
  <2>2. CASE j = 1
    BY <1>0, <1>3, <2>1, <2>2
  <2>3. CASE j # 1
    <3>1. j - 1 \in 1..(i - 1) /\ j - 1 \in 1..Len(r) /\ (j - 1) + 1 = j
      BY <1>0, <2>1, <2>3
    <3>2. r[j - 1] = s[j]
      BY <1>1, <3>1
    <3> QED BY <1>3, <2>1, <3>1, <3>2
  <2> QED BY <2>2, <2>3
<1> QED BY <1>4, <1>5

(* The operations of a runnable set the outcome first. *)
LEMMA BodyPreceded ==
  ASSUME NEW r \in Runnables, NEW done
  PROVE  /\ Preceded(Body(r), "value", "SUCCEEDED", done)
         /\ Preceded(Body(r), "exception", "FAILED", done)
<1> DEFINE t == r.task
<1>1. r.kind \in Kinds
  BY DEF Runnables
<1>2. /\ Preceded(StartBody(t), "value", "SUCCEEDED", done)
      /\ Preceded(StartBody(t), "exception", "FAILED", done)
  BY DEF Preceded, StartBody, SetState, Op
<1>3. /\ Preceded(SucceedBody(t), "value", "SUCCEEDED", done)
      /\ Preceded(SucceedBody(t), "exception", "FAILED", done)
  BY DEF Preceded, SucceedBody, SetState, Op
<1>4. /\ Preceded(FailBody(t), "value", "SUCCEEDED", done)
      /\ Preceded(FailBody(t), "exception", "FAILED", done)
  BY DEF Preceded, FailBody, SetState, Op
<1>5. /\ Preceded(CancelBody(t), "value", "SUCCEEDED", done)
      /\ Preceded(CancelBody(t), "exception", "FAILED", done)
  BY DEF Preceded, CancelBody, SetState, Op
<1> QED
  BY <1>1, <1>2, <1>3, <1>4, <1>5 DEF Body, Kinds

(* Operations that announce no outcome. *)
LEMMA PlainPreceded ==
  ASSUME NEW t, NEW s, NEW done
  PROVE  /\ Preceded(<<>>, "value", "SUCCEEDED", done)
         /\ Preceded(<<>>, "exception", "FAILED", done)
         /\ Preceded(<<SetState(t, "CANCELLED")>>, "value", "SUCCEEDED", done)
         /\ Preceded(<<SetState(t, "CANCELLED")>>, "exception", "FAILED", done)
         /\ Preceded(<<Op("running", t, s), Op("fire", t, s)>>, "value", "SUCCEEDED", done)
         /\ Preceded(<<Op("running", t, s), Op("fire", t, s)>>, "exception", "FAILED", done)
  BY DEF Preceded, SetState, Op

LEMMA OutcomeStep ==
  ASSUME TypeOK, OutcomeInv, [Next]_taskVars
  PROVE  OutcomeInv'
<1> USE DEF threadVars, fxVars, propVars
<1>0. stack \in Seq(Ops)
  BY DEF TypeOK
<1> DEFINE V(s, done) == Preceded(s, "value", "SUCCEEDED", done)
           X(s, done) == Preceded(s, "exception", "FAILED", done)
<1>1. CASE UNCHANGED <<stack, state, value, exception>>
  BY <1>1 DEF OutcomeInv, OutcomeBeforeState
<1>2. CASE Dispatch
  <2>1. Head(queue) \in Runnables
    BY <1>2 DEF Dispatch, DispatchAs, TypeOK
  <2>2. V(stack', value) /\ X(stack', exception)
    BY <1>2, <2>1, BodyPreceded DEF Dispatch, DispatchAs
  <2> QED
    BY <1>2, <2>2 DEF Dispatch, DispatchAs, OutcomeInv, OutcomeBeforeState
<1>3. CASE DoSetState
  <2> DEFINE t == Head(stack).task
             s == Head(stack).st
             rest == <<Op("running", t, s), Op("fire", t, s)>>
  <2>1. stack # <<>> /\ Head(stack).op = "setState"
    BY <1>3 DEF DoSetState, DoSetStateThen, Top
  <2>2. t \in Tasks /\ s \in State \ {"READY"} /\ Head(stack) = stack[1] /\ 1 \in 1..Len(stack)
    BY <1>0, <2>1, HeadType DEF Ops
  <2>3. V(Tail(stack), value) /\ X(Tail(stack), exception) /\ Tail(stack) \in Seq(Ops)
    BY <1>0, <2>1, TailPreceded DEF OutcomeInv
  <2>4. rest \in Seq(Ops) /\ <<>> \in Seq(Ops) /\ <<>> \o rest = rest
    BY <2>2, OpInOps DEF OpNames
  <2>5. V(rest \o Tail(stack), value) /\ X(rest \o Tail(stack), exception)
    BY <2>3, <2>4, PlainPreceded, PushPreceded
  <2>6. V(<<>> \o Tail(stack), value) /\ X(<<>> \o Tail(stack), exception)
    BY <2>3
  <2>7. stack' = <<>> \o Tail(stack) \/ stack' = rest \o Tail(stack)
    BY <1>3, <2>4 DEF DoSetState, DoSetStateThen, Pop
  <2>8. V(stack, value)' /\ X(stack, exception)'
    BY <1>3, <2>5, <2>6, <2>7 DEF DoSetState, DoSetStateThen
  <2>9. (s = "SUCCEEDED" => value[t]) /\ (s = "FAILED" => exception[t])
    BY <2>1, <2>2 DEF OutcomeInv, Preceded
  <2>10. OutcomeBeforeState'
    BY <1>3, <2>2, <2>9 DEF DoSetState, DoSetStateThen, OutcomeInv, OutcomeBeforeState, TypeOK
  <2> QED BY <2>8, <2>10 DEF OutcomeInv
<1>4. CASE DoSetRunning \/ DoFire
  <2>1. /\ stack # <<>> /\ Head(stack).op \in {"running", "fire"}
        /\ stack' = <<>> \o Tail(stack)
        /\ UNCHANGED <<state, value, exception>>
    BY <1>4 DEF DoSetRunning, DoFire, Top, Pop
  <2>2. V(Tail(stack), value) /\ X(Tail(stack), exception)
    BY <1>0, <2>1, TailPreceded DEF OutcomeInv
  <2>3. stack' = Tail(stack)
    BY <1>0, <2>1
  <2> QED BY <2>1, <2>2, <2>3 DEF OutcomeInv, OutcomeBeforeState
<1>5. CASE DoSetValue
  <2>1. /\ stack # <<>> /\ Head(stack).op = "value" /\ Head(stack).task \in Tasks
        /\ stack' = <<>> \o Tail(stack)
        /\ UNCHANGED <<state, exception>>
    BY <1>5, HeadType DEF DoSetValue, Top, Pop, Ops
  <2>2. (\A t \in Tasks : value[t] => value'[t]) /\ value'[Head(stack).task]
    BY <1>5, <2>1 DEF DoSetValue, TypeOK
  <2>3. V(Tail(stack), value')
    BY <1>0, <2>1, <2>2, TailPreceded DEF OutcomeInv
  <2>4. X(Tail(stack), exception)
    BY <1>0, <2>1, TailPreceded DEF OutcomeInv
  <2>5. stack' = Tail(stack)
    BY <1>0, <2>1
  <2> QED BY <2>1, <2>2, <2>3, <2>4, <2>5 DEF OutcomeInv, OutcomeBeforeState
<1>6. CASE DoSetException
  <2>1. /\ stack # <<>> /\ Head(stack).op = "exception" /\ Head(stack).task \in Tasks
        /\ stack' = <<>> \o Tail(stack)
        /\ UNCHANGED <<state, value>>
    BY <1>6, HeadType DEF DoSetException, Top, Pop, Ops
  <2>2. (\A t \in Tasks : exception[t] => exception'[t]) /\ exception'[Head(stack).task]
    BY <1>6, <2>1 DEF DoSetException, TypeOK
  <2>3. X(Tail(stack), exception')
    BY <1>0, <2>1, <2>2, TailPreceded DEF OutcomeInv
  <2>4. V(Tail(stack), value)
    BY <1>0, <2>1, TailPreceded DEF OutcomeInv
  <2>5. stack' = Tail(stack)
    BY <1>0, <2>1
  <2> QED BY <2>1, <2>2, <2>3, <2>4, <2>5 DEF OutcomeInv, OutcomeBeforeState
<1>7. ASSUME NEW t \in Tasks, CancelOnFx(t) PROVE OutcomeInv'
  <2>1. <<SetState(t, "CANCELLED")>> \in Seq(Ops)
    BY OpInOps DEF SetState, OpNames, State
  <2>2. V(stack', value) /\ X(stack', exception)
    BY <1>0, <1>7, <2>1, PlainPreceded, PushPreceded DEF CancelOnFx, OutcomeInv
  <2> QED BY <1>7, <2>2 DEF CancelOnFx, OutcomeInv, OutcomeBeforeState
<1>8. ASSUME NEW t \in Tasks,
             \/ Submit(t) \/ WorkerThread(t) \/ Return(t) \/ Throw(t)
             \/ CancelOffFx(t) \/ PostCancelled(t)
      PROVE  UNCHANGED <<stack, state, value, exception>>
  BY <1>8 DEF Submit, WorkerThread, Return, Throw, CancelOffFx, PostCancelled, Run, Call,
    TestCancelled, PostSucceeded, PostFailed, Set, SetException, Complete
<1> QED
  BY <1>1, <1>2, <1>3, <1>4, <1>5, <1>6, <1>7, <1>8 DEF Next, FxThread, taskVars

(* An observer that sees SUCCEEDED finds the value, one that sees FAILED   *)
(* the exception, in every behaviour of any number of tasks.               *)
THEOREM OutcomeFirst == Spec => []OutcomeBeforeState
<1>1. Init => OutcomeInv
  BY DEF Init, OutcomeInv, OutcomeBeforeState, Preceded
<1>2. TypeOK /\ OutcomeInv /\ [Next]_taskVars => OutcomeInv'
  BY OutcomeStep
<1>3. OutcomeInv => OutcomeBeforeState
  BY DEF OutcomeInv
<1> QED BY <1>1, <1>2, <1>3, TypeCorrect, PTL DEF Spec

-----------------------------------------------------------------------------
(***************************************************************************)
(* The life cycle of a task.                                               *)
(*                                                                         *)
(* The three theorems that follow rest on one invariant that says where    *)
(* the next moves of a task are: still to be posted by the worker thread,  *)
(* in the queue, or on the stack of the application thread.  Most of it    *)
(* does not depend on the order of queue and stack, which are therefore    *)
(* sets here; the order that matters is in QueueOrder, Pairs and Ready.    *)
(***************************************************************************)
Elems(s) == {s[i] : i \in 1..Len(s)}

LEMMA ElemsTail ==
  ASSUME NEW S, NEW s \in Seq(S), s # <<>>
  PROVE  /\ Elems(s) = {Head(s)} \union Elems(Tail(s))
         /\ Tail(s) \in Seq(S) /\ Head(s) \in S /\ Elems(s) \subseteq S
<1>1. Len(s) \in Nat \ {0} /\ Len(Tail(s)) = Len(s) - 1 /\ Head(s) = s[1]
  OBVIOUS
<1>2. \A i \in 1..Len(Tail(s)) : Tail(s)[i] = s[i + 1] /\ i + 1 \in 1..Len(s)
  OBVIOUS
<1>3. \A i \in 1..Len(s) : i = 1 \/ (i - 1 \in 1..Len(Tail(s)) /\ Tail(s)[i - 1] = s[i])
  BY <1>1
<1>4. \A i \in 1..Len(s) : s[i] \in S
  OBVIOUS
<1> QED
  BY <1>1, <1>2, <1>3, <1>4 DEF Elems

LEMMA ElemsConcat ==
  ASSUME NEW S, NEW a \in Seq(S), NEW b \in Seq(S)
  PROVE  Elems(a \o b) = Elems(a) \union Elems(b)
<1>1. Len(a) \in Nat /\ Len(b) \in Nat /\ Len(a \o b) = Len(a) + Len(b)
  OBVIOUS
<1>2. \A i \in 1..Len(a) : (a \o b)[i] = a[i] /\ i \in 1..Len(a \o b)
  BY <1>1
<1>3. \A i \in 1..Len(b) : (a \o b)[i + Len(a)] = b[i] /\ i + Len(a) \in 1..Len(a \o b)
  BY <1>1
<1>4. \A i \in 1..Len(a \o b) : i \in 1..Len(a) \/ (i - Len(a) \in 1..Len(b) /\ (i - Len(a)) + Len(a) = i)
  BY <1>1
<1>5. \A i \in 1..Len(a \o b) : (a \o b)[i] \in Elems(a) \union Elems(b)
  BY <1>2, <1>3, <1>4 DEF Elems
<1>6. Elems(a) \subseteq Elems(a \o b)
  <2> SUFFICES ASSUME NEW i \in 1..Len(a) PROVE a[i] \in Elems(a \o b)
    BY DEF Elems
  <2> QED
    BY <1>2 DEF Elems
<1>7. Elems(b) \subseteq Elems(a \o b)
  <2> SUFFICES ASSUME NEW i \in 1..Len(b) PROVE b[i] \in Elems(a \o b)
    BY DEF Elems
  <2> QED
    BY <1>3 DEF Elems
<1>8. Elems(a \o b) \subseteq Elems(a) \union Elems(b)
  BY <1>5 DEF Elems
<1> QED
  BY <1>6, <1>7, <1>8

LEMMA ElemsAppend ==
  ASSUME NEW S, NEW s \in Seq(S), NEW e \in S
  PROVE  Elems(Append(s, e)) = Elems(s) \union {e}
<1>1. /\ Len(s) \in Nat /\ Len(Append(s, e)) = Len(s) + 1
      /\ \A i \in 1..Len(s) : Append(s, e)[i] = s[i]
      /\ Append(s, e)[Len(s) + 1] = e
  OBVIOUS
<1>2. \A i \in 1..(Len(s) + 1) : i \in 1..Len(s) \/ i = Len(s) + 1
  BY <1>1
<1>3. 1..Len(s) \subseteq 1..(Len(s) + 1) /\ Len(s) + 1 \in 1..(Len(s) + 1)
  BY <1>1
<1> QED
  BY <1>1, <1>2, <1>3 DEF Elems

LEMMA ElemsOne ==
  ASSUME NEW a
  PROVE  Elems(<<>>) = {} /\ Elems(<<a>>) = {a}
<1>1. Len(<<>>) = 0 /\ Len(<<a>>) = 1 /\ <<a>>[1] = a
  OBVIOUS
<1>2. 1..0 = {} /\ 1..1 = {1}
  OBVIOUS
<1> QED
  BY <1>1, <1>2 DEF Elems

LEMMA ElemsTwo ==
  ASSUME NEW a, NEW b
  PROVE  Elems(<<a, b>>) = {a, b}
<1>1. Len(<<a, b>>) = 2 /\ <<a, b>>[1] = a /\ <<a, b>>[2] = b
  OBVIOUS
<1>2. 1..2 = {1, 2}
  OBVIOUS
<1> QED
  BY <1>1, <1>2 DEF Elems

-----------------------------------------------------------------------------
(* The order on the stack.  Two regular moves are on it together only as   *)
(* the two of a start; and before a move to RUNNING the application has    *)
(* seen SCHEDULED, or will.                                                *)

Regular(o) == o.op = "setState" /\ o.st # "CANCELLED"

Pairs(s) ==
  \A i, j \in 1..Len(s) :
    i < j /\ Regular(s[i]) /\ Regular(s[j]) =>
      s[i].st = "SCHEDULED" /\ s[j] = SetState(s[i].task, "RUNNING")

(* SCHEDULED was set and its event fired, or the task is cancelled. *)
Scheduled(t, st, fd) == st[t] = "CANCELLED" \/ (st[t] = "SCHEDULED" /\ "SCHEDULED" \in fd[t])

Announces(o) == o.op = "fire" \/ (o.op = "setState" /\ o.st = "SCHEDULED")

Runs(o) == o.op = "setState" /\ o.st = "RUNNING"

Ready(s, st, fd) ==
  \A i \in 1..Len(s) :
    Runs(s[i]) =>
      \/ Scheduled(s[i].task, st, fd)
      \/ \E j \in 1..(i - 1) : s[j].task = s[i].task /\ Announces(s[j])

LEMMA TailIndex ==
  ASSUME NEW S, NEW s \in Seq(S), s # <<>>
  PROVE  /\ Len(s) \in Nat \ {0} /\ Len(Tail(s)) = Len(s) - 1 /\ Head(s) = s[1]
         /\ \A i \in 1..Len(Tail(s)) : Tail(s)[i] = s[i + 1] /\ i + 1 \in 2..Len(s)
         /\ \A i \in 2..Len(s) : i - 1 \in 1..Len(Tail(s)) /\ Tail(s)[i - 1] = s[i]
  OBVIOUS

LEMMA PairsTail ==
  ASSUME NEW S, NEW s \in Seq(S), s # <<>>, Pairs(s)
  PROVE  /\ Pairs(Tail(s))
         /\ \A o \in Elems(Tail(s)) :
              Regular(Head(s)) /\ Regular(o) =>
                Head(s).st = "SCHEDULED" /\ o = SetState(Head(s).task, "RUNNING")
<1> DEFINE r == Tail(s)
<1>1. /\ Len(s) \in Nat \ {0} /\ Head(s) = s[1]
      /\ \A i \in 1..Len(r) : r[i] = s[i + 1] /\ i + 1 \in 2..Len(s)
  BY TailIndex
<1>2. Pairs(r)
  <2> SUFFICES ASSUME NEW i \in 1..Len(r), NEW j \in 1..Len(r), i < j, Regular(r[i]), Regular(r[j])
               PROVE  r[i].st = "SCHEDULED" /\ r[j] = SetState(r[i].task, "RUNNING")
    BY DEF Pairs
  <2>1. i + 1 \in 1..Len(s) /\ j + 1 \in 1..Len(s) /\ i + 1 < j + 1
    BY <1>1
  <2> QED
    BY <1>1, <2>1 DEF Pairs
<1>3. ASSUME NEW o \in Elems(r), Regular(s[1]), Regular(o)
      PROVE  s[1].st = "SCHEDULED" /\ o = SetState(s[1].task, "RUNNING")
  <2>1. PICK i \in 1..Len(r) : o = r[i]
    BY DEF Elems
  <2>2. i + 1 \in 1..Len(s) /\ 1 < i + 1 /\ 1 \in 1..Len(s) /\ o = s[i + 1]
    BY <1>1, <2>1
  <2> QED
    BY <1>3, <2>2 DEF Pairs
<1> QED
  BY <1>1, <1>2, <1>3

(* Operations that are not regular moves may be put in front. *)
LEMMA PairsPush ==
  ASSUME NEW S, NEW s \in Seq(S), NEW ops \in Seq(S), Pairs(s),
         \A o \in Elems(ops) : ~Regular(o)
  PROVE  Pairs(ops \o s)
<1> DEFINE n == Len(ops)
           r == ops \o s
<1>1. /\ n \in Nat /\ Len(s) \in Nat /\ Len(r) = n + Len(s)
      /\ \A i \in 1..n : r[i] = ops[i]
      /\ \A i \in 1..Len(s) : r[i + n] = s[i]
  OBVIOUS
<1>2. \A i \in 1..n : ~Regular(r[i])
  BY <1>1 DEF Elems
<1> HIDE DEF r, n
<1> SUFFICES ASSUME NEW i \in 1..Len(r), NEW j \in 1..Len(r), i < j, Regular(r[i]), Regular(r[j])
             PROVE  r[i].st = "SCHEDULED" /\ r[j] = SetState(r[i].task, "RUNNING")
  BY DEF Pairs, r
<1>3. /\ i - n \in 1..Len(s) /\ j - n \in 1..Len(s) /\ i - n < j - n
      /\ (i - n) + n = i /\ (j - n) + n = j
  BY <1>1, <1>2
<1>4. r[i] = s[i - n] /\ r[j] = s[j - n]
  BY <1>1, <1>3
<1> QED
  BY <1>3, <1>4 DEF Pairs

(* The innermost operation goes: what it announced has happened. *)
LEMMA ReadyTail ==
  ASSUME NEW s \in Seq(Ops), s # <<>>, NEW st, NEW fd, NEW st2, NEW fd2, Ready(s, st, fd),
         \A o \in Elems(Tail(s)) :
           Runs(o) /\ (Scheduled(o.task, st, fd) \/ (o.task = Head(s).task /\ Announces(Head(s))))
             => Scheduled(o.task, st2, fd2)
  PROVE  Ready(Tail(s), st2, fd2)
<1> DEFINE r == Tail(s)
<1>1. /\ Len(s) \in Nat \ {0} /\ Head(s) = s[1] /\ Len(r) = Len(s) - 1
      /\ \A i \in 1..Len(r) : r[i] = s[i + 1] /\ i + 1 \in 2..Len(s)
  BY TailIndex
<1>2. \A i \in 1..Len(r) : r[i] \in Elems(r)
  BY DEF Elems
<1> SUFFICES ASSUME NEW i \in 1..Len(r), Runs(r[i]), ~Scheduled(r[i].task, st2, fd2)
             PROVE  \E j \in 1..(i - 1) : r[j].task = r[i].task /\ Announces(r[j])
  BY DEF Ready
<1>3. i + 1 \in 1..Len(s) /\ r[i] = s[i + 1] /\ ~Scheduled(s[i + 1].task, st, fd)
      /\ ~(s[i + 1].task = s[1].task /\ Announces(s[1]))
  BY <1>1, <1>2
<1>4. PICK j \in 1..((i + 1) - 1) : s[j].task = s[i + 1].task /\ Announces(s[j])
  BY <1>3 DEF Ready
<1>5. j # 1
  BY <1>3, <1>4
<1>6. j - 1 \in 1..(i - 1) /\ j - 1 \in 1..Len(r) /\ (j - 1) + 1 = j
  BY <1>1, <1>4, <1>5
<1>7. r[j - 1] = s[j]
  BY <1>1, <1>6
<1> QED
  BY <1>3, <1>4, <1>6, <1>7

(* setState leaves the firing of the event in its place. *)
LEMMA ReadyReplace ==
  ASSUME NEW s \in Seq(Ops), s # <<>>, NEW a \in Ops, NEW b \in Ops,
         NEW st, NEW fd, NEW st2, Ready(s, st, fd),
         ~Runs(a), b.op = "fire", b.task = Head(s).task,
         \A o \in Elems(Tail(s)) :
           Runs(o) /\ Scheduled(o.task, st, fd) => Scheduled(o.task, st2, fd)
  PROVE  Ready(<<a, b>> \o Tail(s), st2, fd)
<1> DEFINE tl == Tail(s)
           r == <<a, b>> \o tl
<1>1. /\ Len(s) \in Nat \ {0} /\ Head(s) = s[1] /\ Len(tl) = Len(s) - 1 /\ tl \in Seq(Ops)
      /\ \A i \in 2..Len(s) : i - 1 \in 1..Len(tl) /\ tl[i - 1] = s[i]
  BY TailIndex
<1>2. /\ Len(r) = Len(s) + 1 /\ r[1] = a /\ r[2] = b
      /\ \A i \in 1..Len(tl) : r[i + 2] = tl[i]
  BY <1>1
<1>3. \A i \in 2..Len(s) : r[i + 1] = s[i]
  <2> TAKE i \in 2..Len(s)
  <2>1. i - 1 \in 1..Len(tl) /\ tl[i - 1] = s[i]
    BY <1>1
  <2>2. r[(i - 1) + 2] = tl[i - 1] /\ (i - 1) + 2 = i + 1
    BY <1>2, <2>1
  <2> QED
    BY <2>1, <2>2
<1>4. \A i \in 2..Len(s) : s[i] \in Elems(tl)
  BY <1>1 DEF Elems
<1> HIDE DEF r, tl
<1> SUFFICES ASSUME NEW i \in 1..Len(r), Runs(r[i]), ~Scheduled(r[i].task, st2, fd)
             PROVE  \E j \in 1..(i - 1) : r[j].task = r[i].task /\ Announces(r[j])
  BY DEF Ready, r, tl
<1>5. i - 1 \in 2..Len(s) /\ (i - 1) + 1 = i
  <2>1. i # 1 /\ i # 2
    BY <1>2 DEF Runs
  <2> QED
    BY <1>1, <1>2, <2>1
<1>6. r[i] = s[i - 1] /\ ~Scheduled(s[i - 1].task, st, fd)
  BY <1>3, <1>4, <1>5 DEF tl
<1>7. PICK j \in 1..((i - 1) - 1) : s[j].task = s[i - 1].task /\ Announces(s[j])
  BY <1>1, <1>5, <1>6 DEF Ready
<1>8. CASE j = 1
  <2>1. 2 \in 1..(i - 1)
    BY <1>5
  <2> QED
    BY <1>1, <1>2, <1>6, <1>7, <1>8, <2>1 DEF Announces
<1>9. CASE j # 1
  <2>1. j + 1 \in 1..(i - 1) /\ j \in 2..Len(s)
    BY <1>1, <1>5, <1>7, <1>9
  <2> QED
    BY <1>3, <1>6, <1>7, <2>1
<1> QED
  BY <1>8, <1>9

(* Operations that are no move to RUNNING may be put in front. *)
LEMMA ReadyPush ==
  ASSUME NEW s \in Seq(Ops), NEW a \in Ops, NEW st, NEW fd, Ready(s, st, fd), ~Runs(a)
  PROVE  Ready(<<a>> \o s, st, fd)
<1> DEFINE r == <<a>> \o s
<1>1. /\ Len(s) \in Nat /\ Len(r) = Len(s) + 1 /\ r[1] = a
      /\ \A i \in 1..Len(s) : r[i + 1] = s[i]
  OBVIOUS
<1> HIDE DEF r
<1> SUFFICES ASSUME NEW i \in 1..Len(r), Runs(r[i]), ~Scheduled(r[i].task, st, fd)
             PROVE  \E j \in 1..(i - 1) : r[j].task = r[i].task /\ Announces(r[j])
  BY DEF Ready, r
<1>2. i - 1 \in 1..Len(s) /\ (i - 1) + 1 = i
  BY <1>1
<1>3. r[i] = s[i - 1]
  BY <1>1, <1>2
<1>4. PICK j \in 1..((i - 1) - 1) : s[j].task = s[i - 1].task /\ Announces(s[j])
  BY <1>2, <1>3 DEF Ready
<1>5. j + 1 \in 1..(i - 1) /\ j \in 1..Len(s)
  BY <1>1, <1>2, <1>4
<1> QED
  BY <1>1, <1>3, <1>4, <1>5

-----------------------------------------------------------------------------
(* The order in the queue: of the runnables TaskCallable.call posts for a  *)
(* task there are at most two, the start and an outcome, in this order.    *)

Finish == {"succeed", "fail"}
Main(r) == r.kind # "cancel"

QueueOrder(q) ==
  \A i, j \in 1..Len(q) :
    i < j /\ q[i].task = q[j].task /\ Main(q[i]) /\ Main(q[j]) =>
      q[i].kind = "start" /\ q[j].kind \in Finish

LEMMA QueueTail ==
  ASSUME NEW S, NEW q \in Seq(S), q # <<>>, QueueOrder(q)
  PROVE  /\ QueueOrder(Tail(q))
         /\ \A r \in Elems(Tail(q)) :
              r.task = Head(q).task /\ Main(Head(q)) /\ Main(r) =>
                Head(q).kind = "start" /\ r.kind \in Finish
<1> DEFINE r == Tail(q)
<1>1. /\ Len(q) \in Nat \ {0} /\ Head(q) = q[1]
      /\ \A i \in 1..Len(r) : r[i] = q[i + 1] /\ i + 1 \in 2..Len(q)
  BY TailIndex
<1>2. QueueOrder(r)
  <2> SUFFICES ASSUME NEW i \in 1..Len(r), NEW j \in 1..Len(r), i < j,
                      r[i].task = r[j].task, Main(r[i]), Main(r[j])
               PROVE  r[i].kind = "start" /\ r[j].kind \in Finish
    BY DEF QueueOrder
  <2>1. i + 1 \in 1..Len(q) /\ j + 1 \in 1..Len(q) /\ i + 1 < j + 1
    BY <1>1
  <2> QED
    BY <1>1, <2>1 DEF QueueOrder
<1>3. ASSUME NEW e \in Elems(r), e.task = q[1].task, Main(q[1]), Main(e)
      PROVE  q[1].kind = "start" /\ e.kind \in Finish
  <2>1. PICK i \in 1..Len(r) : e = r[i]
    BY DEF Elems
  <2>2. i + 1 \in 1..Len(q) /\ 1 < i + 1 /\ 1 \in 1..Len(q) /\ e = q[i + 1]
    BY <1>1, <2>1
  <2> QED
    BY <1>3, <2>2 DEF QueueOrder
<1> QED
  BY <1>1, <1>2, <1>3

LEMMA QueueAppend ==
  ASSUME NEW S, NEW q \in Seq(S), NEW e \in S, QueueOrder(q),
         \A r \in Elems(q) :
           r.task = e.task /\ Main(r) /\ Main(e) => r.kind = "start" /\ e.kind \in Finish
  PROVE  QueueOrder(Append(q, e))
<1> DEFINE n == Len(q)
           r == Append(q, e)
<1>1. /\ n \in Nat /\ Len(r) = n + 1 /\ r[n + 1] = e
      /\ \A i \in 1..n : r[i] = q[i]
  OBVIOUS
<1>2. \A i \in 1..n : q[i] \in Elems(q)
  BY DEF Elems
<1> HIDE DEF r
<1> SUFFICES ASSUME NEW i \in 1..Len(r), NEW j \in 1..Len(r), i < j,
                    r[i].task = r[j].task, Main(r[i]), Main(r[j])
             PROVE  r[i].kind = "start" /\ r[j].kind \in Finish
  BY DEF QueueOrder, r
<1>3. i \in 1..n /\ r[i] = q[i]
  BY <1>1
<1>4. CASE j = n + 1
  BY <1>1, <1>2, <1>3, <1>4
<1>5. CASE j # n + 1
  <2>1. j \in 1..n /\ r[j] = q[j]
    BY <1>1, <1>5
  <2> QED
    BY <1>3, <2>1 DEF QueueOrder
<1> QED
  BY <1>4, <1>5

-----------------------------------------------------------------------------
(* Where the next moves of a task are.                                     *)

Posted(q, k, t) == Runnable(k, t) \in Elems(q)
OutcomePosted(q, t) == Posted(q, "succeed", t) \/ Posted(q, "fail", t)

Pending(s, t, st) == SetState(t, st) \in Elems(s)
OutcomePending(s, t) == Pending(s, t, "SUCCEEDED") \/ Pending(s, t, "FAILED")
MovePending(s, t) ==
  Pending(s, t, "SCHEDULED") \/ Pending(s, t, "RUNNING") \/ OutcomePending(s, t)
FirePending(s, t) == \E o \in Elems(s) : o.op = "fire" /\ o.task = t

(* The task runs, or will as soon as what was posted for it is done. *)
Started(t) ==
  \/ state[t] \in {"RUNNING", "CANCELLED"}
  \/ Posted(queue, "start", t) \/ Pending(stack, t, "RUNNING")

(* Before the start is posted nothing happens, and before the outcome is *)
(* posted no outcome is on its way.                                      *)
WorkerPart(t) ==
  /\ pc[t] \in {"new", "submitted", "calling"} =>
       /\ state[t] \in {"READY", "CANCELLED"}
       /\ ~Posted(queue, "start", t) /\ ~OutcomePosted(queue, t) /\ ~MovePending(stack, t)
  /\ pc[t] \in {"body", "returned", "succeeding", "threw"} =>
       Started(t) /\ ~OutcomePosted(queue, t) /\ ~OutcomePending(stack, t)
  /\ fut[t] \in {"NORMAL", "EXCEPTIONAL"} => pc[t] = "done"
  /\ pc[t] = "done" => fut[t] # "NEW"

(* An outcome that was posted arrives, unless the task is cancelled. *)
OutcomePart(t) ==
  /\ pc[t] = "setting" \/ fut[t] = "NORMAL" =>
       \/ Posted(queue, "succeed", t) \/ Pending(stack, t, "SUCCEEDED")
       \/ state[t] \in {"SUCCEEDED", "CANCELLED"}
  /\ pc[t] = "throwing" \/ fut[t] = "EXCEPTIONAL" =>
       \/ Posted(queue, "fail", t) \/ Pending(stack, t, "FAILED")
       \/ state[t] \in {"FAILED", "CANCELLED"}

(* What the queue holds of a task has not begun. *)
QueuePart(t) ==
  /\ Posted(queue, "start", t) => state[t] \in {"READY", "CANCELLED"} /\ ~MovePending(stack, t)
  /\ OutcomePosted(queue, t) => Started(t) /\ ~OutcomePending(stack, t)

(* Every setState on the stack finds the state it may move. *)
StackPart(t) ==
  /\ Pending(stack, t, "SCHEDULED") => state[t] \in {"READY", "CANCELLED"}
  /\ Pending(stack, t, "RUNNING") => state[t] \in {"READY", "SCHEDULED", "CANCELLED"}
  /\ OutcomePending(stack, t) =>
       \/ state[t] = "CANCELLED"
       \/ state[t] = "RUNNING" /\ "SCHEDULED" \in fired[t] /\ "RUNNING" \in fired[t]

(* The Future is cancelled exactly if the move to CANCELLED is somewhere. *)
CancelPart(t) ==
  \/ Posted(queue, "cancel", t) \/ posting[t]
  \/ Pending(stack, t, "CANCELLED") \/ state[t] = "CANCELLED"
  <=> fut[t] = "CANCELLED"

(* The event of the present state was fired or will be. *)
FiredPart(t) ==
  /\ state[t] # "READY" => state[t] \in fired[t] \/ FirePending(stack, t)
  /\ FirePending(stack, t) => state[t] # "READY"
  /\ state[t] = "RUNNING" => "SCHEDULED" \in fired[t]
  /\ state[t] \in Concluded \/ "SUCCEEDED" \in fired[t] \/ "FAILED" \in fired[t] =>
       "SCHEDULED" \in fired[t] /\ "RUNNING" \in fired[t]

TaskInv(t) ==
  /\ WorkerPart(t) /\ OutcomePart(t) /\ QueuePart(t)
  /\ StackPart(t) /\ CancelPart(t) /\ FiredPart(t)

LifeInv ==
  /\ \A t \in Tasks : TaskInv(t)
  /\ QueueOrder(queue)
  /\ Pairs(stack)
  /\ Ready(stack, state, fired)

(* A task is not affected by a step that is about other tasks. *)
LEMMA Frame ==
  ASSUME NEW t \in Tasks, TaskInv(t),
         fut'[t] = fut[t], pc'[t] = pc[t], posting'[t] = posting[t],
         state'[t] = state[t], fired'[t] = fired[t],
         \A k : Posted(queue', k, t) <=> Posted(queue, k, t),
         \A st : Pending(stack', t, st) <=> Pending(stack, t, st),
         FirePending(stack', t) <=> FirePending(stack, t)
  PROVE  TaskInv(t)'
<1>1. /\ OutcomePosted(queue', t) <=> OutcomePosted(queue, t)
      /\ OutcomePending(stack', t) <=> OutcomePending(stack, t)
      /\ MovePending(stack', t) <=> MovePending(stack, t)
  BY DEF OutcomePosted, OutcomePending, MovePending
<1>2. Started(t)' <=> Started(t)
  BY DEF Started
<1>3. WorkerPart(t)'
  BY <1>1, <1>2 DEF TaskInv, WorkerPart
<1>4. OutcomePart(t)'
  BY DEF TaskInv, OutcomePart
<1>5. QueuePart(t)'
  BY <1>1, <1>2 DEF TaskInv, QueuePart
<1>6. StackPart(t)'
  BY <1>1 DEF TaskInv, StackPart
<1>7. CancelPart(t)'
  BY DEF TaskInv, CancelPart
<1>8. FiredPart(t)'
  BY DEF TaskInv, FiredPart
<1> QED
  BY <1>3, <1>4, <1>5, <1>6, <1>7, <1>8 DEF TaskInv

-----------------------------------------------------------------------------
(* What the steps do to queue and stack.                                   *)

LEMMA PostFacts ==
  ASSUME TypeOK, NEW k \in Kinds, NEW u \in Tasks, RunLater(k, u)
  PROVE  \A k2, t : Posted(queue', k2, t) <=> Posted(queue, k2, t) \/ (k2 = k /\ t = u)
<1>1. Runnable(k, u) \in Runnables /\ queue \in Seq(Runnables)
  BY DEF Runnable, Runnables, TypeOK
<1>2. Elems(queue') = Elems(queue) \union {Runnable(k, u)}
  BY <1>1, ElemsAppend DEF RunLater
<1>3. \A k2, t : Runnable(k2, t) = Runnable(k, u) <=> k2 = k /\ t = u
  BY DEF Runnable
<1> QED
  BY <1>2, <1>3 DEF Posted

LEMMA PopFacts ==
  ASSUME TypeOK, stack # <<>>
  PROVE  LET h == Head(stack)
             r == Tail(stack)
         IN /\ \A t, st : Pending(stack, t, st) <=> Pending(r, t, st) \/ h = SetState(t, st)
            /\ \A t : FirePending(stack, t) <=>
                        FirePending(r, t) \/ (h.op = "fire" /\ h.task = t)
            /\ r \in Seq(Ops) /\ Elems(r) \subseteq Ops /\ h \in Ops
<1>1. stack \in Seq(Ops)
  BY DEF TypeOK
<1>2. /\ Elems(stack) = {Head(stack)} \union Elems(Tail(stack))
      /\ Tail(stack) \in Seq(Ops) /\ Head(stack) \in Ops /\ Elems(stack) \subseteq Ops
  BY <1>1, ElemsTail
<1> QED
  BY <1>2 DEF Pending, FirePending

-----------------------------------------------------------------------------
(* The steps of the worker thread and of cancel(): LifeInv is kept.        *)

LEMMA WorkerStep ==
  ASSUME TypeOK, LifeInv, NEW u \in Tasks,
         \/ Submit(u) \/ Run(u) \/ Return(u) \/ Throw(u) \/ TestCancelled(u)
         \/ Set(u) \/ SetException(u) \/ CancelOffFx(u)
  PROVE  LifeInv'
<1> USE DEF threadVars, fxVars, propVars
<1>1. /\ queue' = queue /\ stack' = stack /\ state' = state /\ fired' = fired
      /\ \A t \in Tasks \ {u} : fut'[t] = fut[t] /\ pc'[t] = pc[t] /\ posting'[t] = posting[t]
  BY DEF Submit, Run, Return, Throw, TestCancelled, Set, SetException, CancelOffFx, Complete,
    At, FutureCancel, TypeOK
<1>2. TaskInv(u)'
  <2>1. TaskInv(u)
    BY DEF LifeInv
  <2>2. CASE Submit(u)
    BY <1>1, <2>1, <2>2 DEF Submit, At, TypeOK, TaskInv, WorkerPart, OutcomePart, QueuePart,
      StackPart, CancelPart, FiredPart, Started
  <2>3. CASE Run(u)
    BY <1>1, <2>1, <2>3 DEF Run, At, TypeOK, TaskInv, WorkerPart, OutcomePart, QueuePart,
      StackPart, CancelPart, FiredPart, Started
  <2>4. CASE Return(u) \/ Throw(u) \/ TestCancelled(u)
    BY <1>1, <2>1, <2>4 DEF Return, Throw, TestCancelled, At, TypeOK, TaskInv, WorkerPart,
      OutcomePart, QueuePart, StackPart, CancelPart, FiredPart, Started
  <2>5. CASE Set(u) \/ SetException(u)
    <3>1. fut[u] \in Futures
      BY DEF TypeOK
    <3> QED
      BY <1>1, <2>1, <2>5, <3>1 DEF Set, SetException, Complete, At, TypeOK, Futures, TaskInv,
        WorkerPart, OutcomePart, QueuePart, StackPart, CancelPart, FiredPart, Started
  <2>6. CASE CancelOffFx(u)
    BY <1>1, <2>1, <2>6 DEF CancelOffFx, FutureCancel, TypeOK, TaskInv, WorkerPart,
      OutcomePart, QueuePart, StackPart, CancelPart, FiredPart, Started
  <2> QED
    BY <2>2, <2>3, <2>4, <2>5, <2>6
<1>3. \A t \in Tasks \ {u} : TaskInv(t)'
  BY <1>1, Frame DEF LifeInv
<1> QED
  BY <1>1, <1>2, <1>3 DEF LifeInv

LEMMA PostStep ==
  ASSUME TypeOK, LifeInv, NEW u \in Tasks,
         Call(u) \/ PostSucceeded(u) \/ PostFailed(u) \/ PostCancelled(u)
  PROVE  LifeInv'
<1> USE DEF threadVars, fxVars, propVars
<1>1. PICK k \in Kinds :
        /\ RunLater(k, u)
        /\ \/ k = "start" /\ Call(u)
           \/ k = "succeed" /\ PostSucceeded(u)
           \/ k = "fail" /\ PostFailed(u)
           \/ k = "cancel" /\ PostCancelled(u)
  BY DEF Call, PostSucceeded, PostFailed, PostCancelled, Kinds
<1>2. /\ stack' = stack /\ state' = state /\ fired' = fired /\ fut' = fut
      /\ \A t \in Tasks \ {u} : pc'[t] = pc[t] /\ posting'[t] = posting[t]
  BY <1>1 DEF Call, PostSucceeded, PostFailed, PostCancelled, At, TypeOK
<1>3. \A k2, t : Posted(queue', k2, t) <=> Posted(queue, k2, t) \/ (k2 = k /\ t = u)
  BY <1>1, PostFacts
<1>4. TaskInv(u) /\ fut[u] \in Futures
  BY DEF LifeInv, TypeOK
<1>5. TaskInv(u)'
  <2>1. CASE k = "start" /\ Call(u)
    BY <1>2, <1>3, <1>4, <2>1 DEF Call, At, TypeOK, TaskInv, WorkerPart, OutcomePart,
      QueuePart, StackPart, CancelPart, FiredPart, Started, OutcomePosted, MovePending
  <2>2. CASE k = "succeed" /\ PostSucceeded(u)
    BY <1>2, <1>3, <1>4, <2>2 DEF PostSucceeded, At, TypeOK, TaskInv, WorkerPart,
      OutcomePart, QueuePart, StackPart, CancelPart, FiredPart, Started, OutcomePosted
  <2>3. CASE k = "fail" /\ PostFailed(u)
    BY <1>2, <1>3, <1>4, <2>3 DEF PostFailed, At, TypeOK, TaskInv, WorkerPart,
      OutcomePart, QueuePart, StackPart, CancelPart, FiredPart, Started, OutcomePosted
  <2>4. CASE k = "cancel" /\ PostCancelled(u)
    BY <1>2, <1>3, <1>4, <2>4 DEF PostCancelled, TypeOK, TaskInv, WorkerPart,
      OutcomePart, QueuePart, StackPart, CancelPart, FiredPart, Started, OutcomePosted
  <2> QED
    BY <1>1, <2>1, <2>2, <2>3, <2>4
<1>6. \A t \in Tasks \ {u} : TaskInv(t)'
  BY <1>2, <1>3, Frame DEF LifeInv
<1>7. QueueOrder(queue')
  <2> DEFINE e == Runnable(k, u)
  <2>1. /\ queue \in Seq(Runnables) /\ e \in Runnables /\ queue' = Append(queue, e)
        /\ e.kind = k /\ e.task = u
    BY <1>1 DEF TypeOK, RunLater, Runnable, Runnables
  <2>2. Elems(queue) \subseteq Runnables
    BY <2>1 DEF Elems
  <2>3. ASSUME NEW r \in Elems(queue), r.task = u, Main(r), Main(e)
        PROVE  r.kind = "start" /\ k \in Finish
    <3>1. r = Runnable(r.kind, u) /\ r.kind \in {"start", "succeed", "fail"}
      BY <2>2, <2>3 DEF Runnables, Runnable, Kinds, Main
    <3>2. Posted(queue, r.kind, u)
      BY <3>1 DEF Posted
    <3> QED
      BY <1>1, <1>4, <2>1, <2>3, <3>1, <3>2 DEF Call, PostSucceeded, PostFailed, At, Main,
        Finish, TaskInv, WorkerPart, OutcomePosted
  <2> QED
    BY <2>1, <2>3, QueueAppend DEF LifeInv
<1> QED
  BY <1>2, <1>5, <1>6, <1>7 DEF LifeInv

LEMMA CancelOnFxStep ==
  ASSUME TypeOK, LifeInv, NEW u \in Tasks, CancelOnFx(u)
  PROVE  LifeInv'
<1> USE DEF threadVars, fxVars, propVars
<1> DEFINE a == SetState(u, "CANCELLED")
<1>1. a \in Ops /\ stack \in Seq(Ops) /\ stack' = <<a>> \o stack /\ <<a>> \in Seq(Ops)
  BY OpInOps DEF CancelOnFx, SetState, OpNames, State, TypeOK
<1>2. Elems(stack') = {a} \union Elems(stack)
  <2>1. Elems(<<a>> \o stack) = Elems(<<a>>) \union Elems(stack)
    BY <1>1, ElemsConcat
  <2>2. Elems(<<a>>) = {a}
    BY ElemsOne
  <2> QED
    BY <1>1, <2>1, <2>2
<1>3. /\ queue' = queue /\ state' = state /\ fired' = fired /\ pc' = pc /\ posting' = posting
      /\ fut[u] = "NEW" /\ fut'[u] = "CANCELLED" /\ \A t \in Tasks \ {u} : fut'[t] = fut[t]
  BY DEF CancelOnFx, FutureCancel, TypeOK
<1>4. \A t, st : SetState(t, st) = a <=> t = u /\ st = "CANCELLED"
  BY DEF SetState, Op
<1>5. /\ \A t, st : Pending(stack', t, st) <=> Pending(stack, t, st) \/ (t = u /\ st = "CANCELLED")
      /\ \A t : FirePending(stack', t) <=> FirePending(stack, t)
  BY <1>2, <1>4 DEF Pending, FirePending, SetState, Op
<1>6. TaskInv(u)'
  <2>1. TaskInv(u)
    BY DEF LifeInv
  <2> QED
    BY <1>3, <1>5, <2>1 DEF TaskInv, WorkerPart, OutcomePart, QueuePart, StackPart,
      CancelPart, FiredPart, Started, OutcomePending, MovePending
<1>7. \A t \in Tasks \ {u} : TaskInv(t)'
  BY <1>3, <1>5, Frame DEF LifeInv
<1>8. Pairs(stack')
  <2>1. \A o \in Elems(<<a>>) : ~Regular(o)
    BY ElemsOne DEF Regular, SetState, Op
  <2> QED
    BY <1>1, <2>1, PairsPush DEF LifeInv
<1>9. Ready(stack', state', fired')
  <2>1. ~Runs(a)
    BY DEF Runs, SetState, Op
  <2> QED
    BY <1>1, <1>3, <2>1, ReadyPush DEF LifeInv
<1> QED
  BY <1>3, <1>6, <1>7, <1>8, <1>9 DEF LifeInv

-----------------------------------------------------------------------------
(* The steps of the application thread: LifeInv is kept.                   *)

LEMMA DispatchStep ==
  ASSUME TypeOK, LifeInv, Dispatch
  PROVE  LifeInv'
<1> USE DEF threadVars, fxVars, propVars
<1> DEFINE q == Tail(queue)
<1>0. PICK r, u : r = Head(queue) /\ u = r.task
  OBVIOUS
<1>1. /\ queue \in Seq(Runnables) /\ queue # <<>> /\ stack = <<>> /\ queue' = q
      /\ stack' = Body(r) /\ state' = state /\ fired' = fired /\ pc' = pc /\ posting' = posting
      /\ fut' = fut
  BY <1>0 DEF Dispatch, DispatchAs, TypeOK
<1>2. /\ Elems(queue) = {r} \union Elems(q) /\ q \in Seq(Runnables)
      /\ r \in Runnables /\ Elems(queue) \subseteq Runnables
  BY <1>0, <1>1, ElemsTail
<1>3. r.kind \in Kinds /\ u \in Tasks /\ r = Runnable(r.kind, u)
  BY <1>0, <1>2 DEF Runnables, Runnable
<1>4. \A k, t : Posted(queue, k, t) <=> Posted(q, k, t) \/ (k = r.kind /\ t = u)
  <2>1. \A k, t : Runnable(k, t) = r <=> k = r.kind /\ t = u
    BY <1>3 DEF Runnable
  <2> QED
    BY <1>2, <2>1 DEF Posted
<1>5. /\ QueueOrder(q)
      /\ \A k : Posted(q, k, u) /\ k # "cancel" /\ r.kind # "cancel" =>
           r.kind = "start" /\ k \in Finish
  <2>1. /\ QueueOrder(q)
        /\ \A e \in Elems(q) : e.task = u /\ Main(r) /\ Main(e) =>
             r.kind = "start" /\ e.kind \in Finish
    BY <1>0, <1>1, QueueTail DEF LifeInv
  <2>2. \A k : Runnable(k, u).task = u /\ Runnable(k, u).kind = k
    BY DEF Runnable
  <2> QED
    BY <2>1, <2>2 DEF Posted, Main
<1>6. \A t : ~FirePending(stack, t) /\ \A st : ~Pending(stack, t, st)
  BY <1>1, ElemsOne DEF FirePending, Pending
<1> DEFINE Moves == CASE r.kind = "start"   -> {"SCHEDULED", "RUNNING"}
                      [] r.kind = "succeed" -> {"SUCCEEDED"}
                      [] r.kind = "fail"    -> {"FAILED"}
                      [] r.kind = "cancel"  -> {"CANCELLED"}
<1>7. /\ \A t, st : Pending(stack', t, st) <=> t = u /\ st \in Moves
      /\ \A t : ~FirePending(stack', t)
  <2>1. CASE r.kind = "start"
    <3>1. Elems(stack') = {SetState(u, "SCHEDULED"), SetState(u, "RUNNING")}
      BY <1>0, <1>1, <2>1, ElemsTwo DEF Body, StartBody
    <3> QED
      BY <2>1, <3>1 DEF Pending, FirePending, SetState, Op
  <2>2. CASE r.kind = "succeed"
    <3>1. Elems(stack') = {Op("value", u, "SUCCEEDED"), SetState(u, "SUCCEEDED")}
      BY <1>0, <1>1, <2>2, ElemsTwo DEF Body, SucceedBody
    <3> QED
      BY <2>2, <3>1 DEF Pending, FirePending, SetState, Op
  <2>3. CASE r.kind = "fail"
    <3>1. Elems(stack') = {Op("exception", u, "FAILED"), SetState(u, "FAILED")}
      BY <1>0, <1>1, <2>3, ElemsTwo DEF Body, FailBody
    <3> QED
      BY <2>3, <3>1 DEF Pending, FirePending, SetState, Op
  <2>4. CASE r.kind = "cancel"
    <3>1. Elems(stack') = {SetState(u, "CANCELLED")}
      BY <1>0, <1>1, <2>4, ElemsOne DEF Body, CancelBody
    <3> QED
      BY <2>4, <3>1 DEF Pending, FirePending, SetState, Op
  <2> QED
    BY <1>3, <2>1, <2>2, <2>3, <2>4 DEF Kinds
<1>8. TaskInv(u)'
  <2>1. TaskInv(u)
    BY <1>3 DEF LifeInv
  <2> HIDE DEF q
  <2>2. CASE r.kind = "start"
    BY <1>1, <1>4, <1>5, <1>6, <1>7, <2>1, <2>2 DEF TaskInv, WorkerPart, OutcomePart,
      QueuePart, StackPart, CancelPart, FiredPart, Started, OutcomePosted, OutcomePending,
      MovePending, Concluded, Finish
  <2>3. CASE r.kind = "succeed"
    BY <1>1, <1>4, <1>5, <1>6, <1>7, <2>1, <2>3 DEF TaskInv, WorkerPart, OutcomePart,
      QueuePart, StackPart, CancelPart, FiredPart, Started, OutcomePosted, OutcomePending,
      MovePending, Concluded, Finish
  <2>4. CASE r.kind = "fail"
    BY <1>1, <1>4, <1>5, <1>6, <1>7, <2>1, <2>4 DEF TaskInv, WorkerPart, OutcomePart,
      QueuePart, StackPart, CancelPart, FiredPart, Started, OutcomePosted, OutcomePending,
      MovePending, Concluded, Finish
  <2>5. CASE r.kind = "cancel"
    BY <1>1, <1>4, <1>5, <1>6, <1>7, <2>1, <2>5 DEF TaskInv, WorkerPart, OutcomePart,
      QueuePart, StackPart, CancelPart, FiredPart, Started, OutcomePosted, OutcomePending,
      MovePending, Concluded, Finish
  <2> QED
    BY <1>3, <2>2, <2>3, <2>4, <2>5 DEF Kinds
<1>9. \A t \in Tasks \ {u} : TaskInv(t)'
  <2> HIDE DEF q, Moves
  <2> QED
    BY <1>1, <1>4, <1>6, <1>7, Frame DEF LifeInv
<1>10. Pairs(stack') /\ Ready(stack', state', fired')
  <2>1. CASE r.kind = "start"
    <3>1. stack' = <<SetState(u, "SCHEDULED"), SetState(u, "RUNNING")>>
      BY <1>0, <1>1, <2>1 DEF Body, StartBody
    <3>2. /\ Len(stack') = 2 /\ stack'[1] = SetState(u, "SCHEDULED")
          /\ stack'[2] = SetState(u, "RUNNING")
      BY <3>1
    <3> HIDE DEF q
    <3>3. Pairs(stack')
      BY <3>2 DEF Pairs, SetState, Op
    <3>4. 1..2 = {1, 2} /\ 1 \in 1..(2 - 1)
      OBVIOUS
    <3>5. Announces(stack'[1]) /\ ~Runs(stack'[1]) /\ stack'[1].task = stack'[2].task
      BY <3>2 DEF Announces, Runs, SetState, Op
    <3>6. Ready(stack', state', fired')
      BY <3>2, <3>4, <3>5 DEF Ready
    <3> QED
      BY <3>3, <3>6
  <2>2. CASE r.kind \in {"succeed", "fail"}
    <3>1. PICK o, c : stack' = <<o, SetState(u, c)>> /\ o.op # "setState" /\ c \in Concluded
      BY <1>0, <1>1, <2>2 DEF Body, SucceedBody, FailBody, Op, Concluded
    <3>2. /\ Len(stack') = 2 /\ stack'[1] = o /\ stack'[2] = SetState(u, c)
      BY <3>1
    <3> HIDE DEF q
    <3>3. Pairs(stack')
      BY <3>1, <3>2 DEF Pairs, Regular, SetState, Op
    <3>4. ~Runs(stack'[1]) /\ ~Runs(stack'[2])
      BY <3>1, <3>2 DEF Runs, SetState, Op, Concluded
    <3>5. Ready(stack', state', fired')
      BY <3>2, <3>4 DEF Ready
    <3> QED
      BY <3>3, <3>5
  <2>3. CASE r.kind = "cancel"
    <3>1. stack' = <<SetState(u, "CANCELLED")>>
      BY <1>0, <1>1, <2>3 DEF Body, CancelBody
    <3>2. Len(stack') = 1 /\ stack'[1] = SetState(u, "CANCELLED")
      BY <3>1
    <3> QED
      BY <3>2 DEF Pairs, Ready, Runs, Regular, SetState, Op
  <2> QED
    BY <1>3, <2>1, <2>2, <2>3 DEF Kinds
<1>11. \A t \in Tasks : TaskInv(t)'
  BY <1>8, <1>9
<1> QED
  BY <1>1, <1>5, <1>10, <1>11 DEF LifeInv

(* Setting running, the value or the exception moves no state. *)
LEMMA PlainStep ==
  ASSUME TypeOK, LifeInv, DoSetRunning \/ DoSetValue \/ DoSetException
  PROVE  LifeInv'
<1> USE DEF threadVars, fxVars, propVars
<1>1. /\ stack # <<>> /\ stack \in Seq(Ops) /\ Head(stack).op \in {"running", "value", "exception"}
      /\ queue' = queue /\ state' = state /\ fired' = fired /\ pc' = pc /\ posting' = posting
      /\ fut' = fut /\ stack' = <<>> \o Tail(stack)
  BY DEF DoSetRunning, DoSetValue, DoSetException, Top, Pop, TypeOK
<1>2. stack' = Tail(stack)
  BY <1>1
<1>3. /\ \A t, st : Pending(stack', t, st) <=> Pending(stack, t, st)
      /\ \A t : FirePending(stack', t) <=> FirePending(stack, t)
  BY <1>1, <1>2, PopFacts DEF SetState, Op
<1>4. \A t \in Tasks : TaskInv(t)'
  BY <1>1, <1>3, Frame DEF LifeInv
<1>5. Pairs(stack')
  BY <1>1, <1>2, PairsTail DEF LifeInv
<1>6. Ready(stack', state', fired')
  BY <1>1, <1>2, ReadyTail DEF LifeInv, Announces
<1> QED
  BY <1>1, <1>4, <1>5, <1>6 DEF LifeInv

LEMMA FireStep ==
  ASSUME TypeOK, LifeInv, DoFire
  PROVE  LifeInv'
<1> USE DEF threadVars, fxVars, propVars
<1>0. PICK u : u = Head(stack).task
  OBVIOUS
<1>1. /\ stack # <<>> /\ stack \in Seq(Ops) /\ Head(stack).op = "fire"
      /\ queue' = queue /\ state' = state /\ pc' = pc /\ posting' = posting
      /\ fut' = fut /\ stack' = <<>> \o Tail(stack)
      /\ fired' = [fired EXCEPT ![u] = @ \union {state[u]}]
  BY <1>0 DEF DoFire, Top, Pop, TypeOK
<1>2. stack' = Tail(stack)
  BY <1>1
<1>3. u \in Tasks
  BY <1>0, <1>1, HeadType DEF Ops
<1>4. fired'[u] = fired[u] \union {state[u]} /\ \A t \in Tasks \ {u} : fired'[t] = fired[t]
  BY <1>1, <1>3 DEF TypeOK
<1>5. /\ \A t, st : Pending(stack', t, st) <=> Pending(stack, t, st)
      /\ \A t : FirePending(stack, t) <=> FirePending(stack', t) \/ t = u
  BY <1>0, <1>1, <1>2, PopFacts DEF SetState, Op
<1>6. TaskInv(u)
  BY <1>3 DEF LifeInv
<1>7. TaskInv(u)'
  BY <1>1, <1>4, <1>5, <1>6 DEF TaskInv, WorkerPart, OutcomePart, QueuePart, StackPart,
    CancelPart, FiredPart, Started, OutcomePending, MovePending, Concluded
<1>8. \A t \in Tasks \ {u} : TaskInv(t)'
  BY <1>1, <1>4, <1>5, Frame DEF LifeInv
<1>9. Pairs(stack')
  BY <1>1, <1>2, PairsTail DEF LifeInv
<1>10. Ready(stack', state', fired')
  <2>1. ASSUME NEW o \in Elems(Tail(stack)), Runs(o),
               Scheduled(o.task, state, fired) \/ o.task = u
        PROVE  Scheduled(o.task, state', fired')
    <3>1. o \in Ops
      BY <1>1, PopFacts
    <3>2. Pending(stack', o.task, "RUNNING") /\ o.task \in Tasks
      BY <1>2, <2>1, <3>1 DEF Runs, Ops, Pending, SetState, Op
    <3>3. CASE o.task = u
      BY <1>1, <1>4, <1>5, <1>6, <3>2, <3>3 DEF TaskInv, StackPart, FiredPart, Scheduled
    <3>4. CASE o.task # u
      BY <1>1, <1>4, <2>1, <3>2, <3>4 DEF Scheduled
    <3> QED
      BY <3>3, <3>4
  <2>2. \A o \in Elems(Tail(stack)) :
          Runs(o) /\ (Scheduled(o.task, state, fired) \/
                      (o.task = Head(stack).task /\ Announces(Head(stack))))
            => Scheduled(o.task, state', fired')
    BY <1>0, <2>1
  <2>3. Ready(stack, state, fired)
    BY DEF LifeInv
  <2>4. stack \in Seq(Ops) /\ stack # <<>>
    BY <1>1
  <2>5. Ready(Tail(stack), state', fired')
    BY <2>2, <2>3, <2>4, ReadyTail
  <2> QED
    BY <1>2, <2>5
<1>11. \A t \in Tasks : TaskInv(t)'
  BY <1>7, <1>8
<1> QED
  BY <1>1, <1>9, <1>10, <1>11 DEF LifeInv

(* Every setState that is not ignored is a move that Worker allows. *)
LEMMA EffectiveMove ==
  ASSUME TypeOK, LifeInv, NEW u, NEW s, stack # <<>>, Head(stack) = SetState(u, s),
         state[u] # "CANCELLED"
  PROVE  Lifecycle!LegalMove(state[u], s)
<1>1. u \in Tasks /\ s \in State \ {"READY"} /\ state[u] \in State
  BY HeadType DEF Ops, SetState, Op, TypeOK
<1>2. Pending(stack, u, s) /\ TaskInv(u)
  BY <1>1, PopFacts DEF LifeInv
<1>3. ASSUME s = "RUNNING" PROVE state[u] = "SCHEDULED"
  <2>1. Runs(stack[1]) /\ stack[1].task = u /\ 1 \in 1..Len(stack) /\ ~\E j \in 1..(1 - 1) : TRUE
    BY <1>3 DEF TypeOK, Runs, SetState, Op
  <2> QED
    BY <2>1 DEF LifeInv, Ready, Scheduled
<1>4. CASE s = "SCHEDULED"
  BY <1>1, <1>2, <1>4 DEF TaskInv, StackPart, Lifecycle!LegalMove
<1>5. CASE s \in Concluded
  BY <1>1, <1>2, <1>5 DEF TaskInv, StackPart, OutcomePending, Concluded,
    Lifecycle!LegalMove, Lifecycle!Concluded
<1>6. CASE s = "CANCELLED"
  BY <1>1, <1>6 DEF State, Lifecycle!LegalMove, Lifecycle!Concluded
<1>7. CASE s = "RUNNING"
  BY <1>3, <1>7 DEF Lifecycle!LegalMove
<1> QED
  BY <1>1, <1>4, <1>5, <1>6, <1>7 DEF State, Concluded

LEMMA SetStateFacts ==
  ASSUME TypeOK, LifeInv, DoSetState
  PROVE  \E u \in Tasks, s \in State \ {"READY"} :
           /\ stack # <<>> /\ Head(stack) = SetState(u, s) /\ stack \in Seq(Ops)
           /\ queue' = queue /\ fired' = fired /\ pc' = pc /\ posting' = posting /\ fut' = fut
           /\ \/ state[u] = "CANCELLED" /\ state' = state /\ stack' = Tail(stack)
              \/ /\ state[u] # "CANCELLED" /\ Lifecycle!LegalMove(state[u], s)
                 /\ state' = [state EXCEPT ![u] = s]
                 /\ stack' = <<Op("running", u, s), Op("fire", u, s)>> \o Tail(stack)
<1> USE DEF threadVars, fxVars, propVars
<1>1. stack # <<>> /\ Head(stack) \in Ops /\ Head(stack).op = "setState" /\ stack \in Seq(Ops)
  BY HeadType DEF DoSetState, DoSetStateThen, Top, TypeOK
<1>2. PICK u \in Tasks, s \in State \ {"READY"} : Head(stack) = SetState(u, s)
  BY <1>1 DEF Ops, SetState, Op
<1> DEFINE rest == <<Op("running", u, s), Op("fire", u, s)>>
<1>3. <<>> \o rest = rest /\ <<>> \o Tail(stack) = Tail(stack)
  <2>1. rest \in Seq(Ops)
    BY <1>2, OpInOps DEF OpNames
  <2> QED
    BY <1>1, <2>1
<1>4. Head(stack).task = u /\ Head(stack).st = s
  BY <1>2 DEF SetState, Op
<1>5. state[u] # "CANCELLED" => Lifecycle!LegalMove(state[u], s)
  BY <1>1, <1>2, EffectiveMove
<1>6. \/ state[u] = "CANCELLED" /\ state' = state /\ stack' = Tail(stack)
      \/ /\ state[u] # "CANCELLED" /\ state' = [state EXCEPT ![u] = s]
         /\ stack' = rest \o Tail(stack)
  BY <1>3, <1>4 DEF DoSetState, DoSetStateThen, IgnoresSetState, Pop
<1>7. queue' = queue /\ fired' = fired /\ pc' = pc /\ posting' = posting /\ fut' = fut
  BY DEF DoSetState, DoSetStateThen
<1> QED
  BY <1>1, <1>2, <1>5, <1>6, <1>7

LEMMA SetStateStep ==
  ASSUME TypeOK, LifeInv, DoSetState
  PROVE  LifeInv'
<1>1. PICK u \in Tasks, s \in State \ {"READY"} :
        /\ stack # <<>> /\ Head(stack) = SetState(u, s) /\ stack \in Seq(Ops)
        /\ queue' = queue /\ fired' = fired /\ pc' = pc /\ posting' = posting /\ fut' = fut
        /\ \/ state[u] = "CANCELLED" /\ state' = state /\ stack' = Tail(stack)
           \/ /\ state[u] # "CANCELLED" /\ Lifecycle!LegalMove(state[u], s)
              /\ state' = [state EXCEPT ![u] = s]
              /\ stack' = <<Op("running", u, s), Op("fire", u, s)>> \o Tail(stack)
  BY SetStateFacts
<1> DEFINE a == Op("running", u, s)
           b == Op("fire", u, s)
           r == Tail(stack)
<1>2. /\ \A t, st : Pending(stack, t, st) <=> Pending(r, t, st) \/ (t = u /\ st = s)
      /\ \A t : FirePending(stack, t) <=> FirePending(r, t)
      /\ r \in Seq(Ops) /\ Elems(r) \subseteq Ops
  BY <1>1, PopFacts DEF SetState, Op
<1>3. Pairs(r) /\ \A o \in Elems(r) : Regular(SetState(u, s)) /\ Regular(o) =>
                                        s = "SCHEDULED" /\ o = SetState(u, "RUNNING")
  BY <1>1, PairsTail DEF LifeInv, SetState, Op
<1>4. TaskInv(u)
  BY DEF LifeInv
<1>5. CASE state[u] = "CANCELLED" /\ state' = state /\ stack' = r
  <2>1. TaskInv(u)'
    BY <1>1, <1>2, <1>4, <1>5 DEF TaskInv, WorkerPart, OutcomePart, QueuePart, StackPart,
      CancelPart, FiredPart, Started, OutcomePending, MovePending
  <2>2. \A t \in Tasks \ {u} : TaskInv(t)'
    BY <1>1, <1>2, <1>5, Frame DEF LifeInv
  <2>3. Ready(stack', state', fired')
    <3>1. \A o \in Elems(r) :
            Runs(o) /\ (Scheduled(o.task, state, fired) \/ (o.task = u /\ Announces(Head(stack))))
              => Scheduled(o.task, state, fired)
      BY <1>5 DEF Scheduled
    <3>2. Ready(stack, state, fired) /\ Head(stack).task = u
      BY <1>1 DEF LifeInv, SetState, Op
    <3>3. Ready(r, state, fired)
      BY <1>1, <3>1, <3>2, ReadyTail
    <3> QED
      BY <1>1, <1>5, <3>3
  <2> QED
    BY <1>1, <1>3, <1>5, <2>1, <2>2, <2>3 DEF LifeInv
<1>6. CASE /\ state[u] # "CANCELLED" /\ Lifecycle!LegalMove(state[u], s)
           /\ state' = [state EXCEPT ![u] = s]
           /\ stack' = <<a, b>> \o r
  <2>1. a \in Ops /\ b \in Ops
    BY OpInOps DEF OpNames
  <2>2. Elems(stack') = {a, b} \union Elems(r)
    <3>1. Elems(<<a, b>> \o r) = Elems(<<a, b>>) \union Elems(r)
      <4>1. <<a, b>> \in Seq(Ops)
        BY <2>1
      <4> QED
        BY <1>2, <4>1, ElemsConcat
    <3>2. Elems(<<a, b>>) = {a, b}
      BY ElemsTwo
    <3> QED
      BY <1>6, <3>1, <3>2
  <2>3. /\ \A t, st : Pending(stack', t, st) <=> Pending(r, t, st)
        /\ \A t : FirePending(stack', t) <=> FirePending(r, t) \/ t = u
    BY <2>2 DEF Pending, FirePending, SetState, Op
  <2>4. state'[u] = s /\ \A t \in Tasks \ {u} : state'[t] = state[t]
    BY <1>6 DEF TypeOK
  <2>5. \A st \in Concluded \union Active :
          s # "CANCELLED" /\ Pending(r, u, st) => s = "SCHEDULED" /\ st = "RUNNING"
    BY <1>3 DEF Pending, Regular, SetState, Op, Concluded, Active
  <2>6. state[u] \in State
    BY DEF TypeOK
  <2>7. s = "RUNNING" => state[u] = "SCHEDULED" /\ "SCHEDULED" \in fired[u]
    <3>1. ASSUME s = "RUNNING"
          PROVE  Runs(stack[1]) /\ stack[1].task = u /\ 1 \in 1..Len(stack)
                 /\ ~\E j \in 1..(1 - 1) : TRUE
      BY <1>1, <3>1 DEF Runs, SetState, Op
    <3> QED
      BY <1>6, <3>1 DEF LifeInv, Ready, Scheduled
  <2>8. TaskInv(u)'
    <3>1. CASE s = "SCHEDULED"
      BY <1>1, <1>2, <1>4, <1>6, <2>3, <2>4, <2>5, <2>6, <3>1 DEF TaskInv, WorkerPart,
        OutcomePart, QueuePart, StackPart, CancelPart, FiredPart, Started, OutcomePending,
        MovePending, Concluded, Active
    <3>2. CASE s = "RUNNING"
      BY <1>1, <1>2, <1>4, <1>6, <2>3, <2>4, <2>5, <2>6, <2>7, <3>2 DEF TaskInv, WorkerPart,
        OutcomePart, QueuePart, StackPart, CancelPart, FiredPart, Started, OutcomePending,
        MovePending, Concluded, Active
    <3>3. CASE s \in Concluded
      BY <1>1, <1>2, <1>4, <1>6, <2>3, <2>4, <2>5, <2>6, <3>3 DEF TaskInv, WorkerPart,
        OutcomePart, QueuePart, StackPart, CancelPart, FiredPart, Started, OutcomePending,
        MovePending, Concluded, Active
    <3>4. CASE s = "CANCELLED"
      BY <1>1, <1>2, <1>4, <1>6, <2>3, <2>4, <2>5, <2>6, <3>4 DEF TaskInv, WorkerPart,
        OutcomePart, QueuePart, StackPart, CancelPart, FiredPart, Started, OutcomePending,
        MovePending, Concluded, Active
    <3> QED
      BY <1>1, <3>1, <3>2, <3>3, <3>4 DEF State, Concluded
  <2>9. \A t \in Tasks \ {u} : TaskInv(t)'
    BY <1>1, <1>2, <2>3, <2>4, Frame DEF LifeInv
  <2>10. Pairs(stack')
    <3>1. \A o \in Elems(<<a, b>>) : ~Regular(o)
      BY ElemsTwo DEF Regular, Op
    <3>2. <<a, b>> \in Seq(Ops)
      BY <2>1
    <3> QED
      BY <1>2, <1>3, <1>6, <3>1, <3>2, PairsPush
  <2>11. Ready(stack', state', fired')
    <3>1. \A o \in Elems(r) :
            Runs(o) /\ Scheduled(o.task, state, fired) => Scheduled(o.task, state', fired)
      <4> SUFFICES ASSUME NEW o \in Elems(r), Runs(o), Scheduled(o.task, state, fired)
                   PROVE  Scheduled(o.task, state', fired)
        OBVIOUS
      <4>1. o \in Ops /\ o.task \in Tasks
        BY <1>2 DEF Ops
      <4>2. CASE o.task # u
        BY <2>4, <4>1, <4>2 DEF Scheduled
      <4>3. CASE o.task = u
        <5>1. Pending(r, u, "RUNNING")
          BY <4>1, <4>3 DEF Pending, Runs, Ops, SetState, Op
        <5>2. s \in {"CANCELLED", "SCHEDULED"}
          BY <2>5, <5>1 DEF Concluded, Active
        <5>3. s = "SCHEDULED" => state[u] = "READY"
          BY <1>6 DEF Lifecycle!LegalMove, Lifecycle!Concluded, Lifecycle!Ended
        <5> QED
          BY <1>6, <2>4, <4>3, <5>2, <5>3 DEF Scheduled
      <4> QED
        BY <4>2, <4>3
    <3>2. Ready(stack, state, fired) /\ ~Runs(a) /\ b.op = "fire" /\ b.task = Head(stack).task
      BY <1>1 DEF LifeInv, Runs, SetState, Op
    <3>3. Ready(<<a, b>> \o r, state', fired)
      BY <1>1, <2>1, <3>1, <3>2, ReadyReplace
    <3> QED
      BY <1>1, <1>6, <3>3
  <2> QED
    <3>1. \A t \in Tasks : TaskInv(t)'
      BY <2>8, <2>9
    <3> QED
      BY <1>1, <2>10, <2>11, <3>1 DEF LifeInv
<1> QED
  BY <1>1, <1>5, <1>6

-----------------------------------------------------------------------------
LEMMA LifeInit == Init => LifeInv
<1> SUFFICES ASSUME Init PROVE LifeInv
  OBVIOUS
<1>1. Elems(queue) = {} /\ Elems(stack) = {} /\ Len(queue) = 0 /\ Len(stack) = 0
  BY ElemsOne DEF Init
<1>2. \A t \in Tasks : TaskInv(t)
  BY <1>1 DEF Init, TaskInv, WorkerPart, OutcomePart, QueuePart, StackPart, CancelPart,
    FiredPart, Started, Posted, OutcomePosted, Pending, OutcomePending, MovePending,
    FirePending, Concluded
<1>3. QueueOrder(queue) /\ Pairs(stack) /\ Ready(stack, state, fired)
  BY <1>1 DEF QueueOrder, Pairs, Ready
<1> QED
  BY <1>2, <1>3 DEF LifeInv

LEMMA LifeStep ==
  ASSUME TypeOK, LifeInv, [Next]_taskVars
  PROVE  LifeInv'
<1>1. CASE UNCHANGED taskVars
  <2>1. /\ fut' = fut /\ pc' = pc /\ posting' = posting /\ queue' = queue /\ stack' = stack
        /\ state' = state /\ fired' = fired
    BY <1>1 DEF taskVars, threadVars, fxVars, propVars
  <2>2. \A t \in Tasks : TaskInv(t)'
    BY <2>1, Frame DEF LifeInv
  <2> QED
    BY <2>1, <2>2 DEF LifeInv
<1>2. CASE FxThread
  BY <1>2, DispatchStep, SetStateStep, PlainStep, FireStep DEF FxThread
<1>3. ASSUME NEW t \in Tasks,
             \/ Submit(t) \/ WorkerThread(t) \/ Return(t) \/ Throw(t)
             \/ CancelOnFx(t) \/ CancelOffFx(t) \/ PostCancelled(t)
      PROVE  LifeInv'
  BY <1>3, WorkerStep, PostStep, CancelOnFxStep DEF WorkerThread
<1> QED
  BY <1>1, <1>2, <1>3 DEF Next

LEMMA LifeCorrect == Spec => [](TypeOK /\ LifeInv)
  BY LifeInit, LifeStep, TypeInit, TypeStep, PTL DEF Spec

(* Nothing of a quiescent task is in queue or stack. *)
LEMMA QuiescentFacts ==
  ASSUME NEW t, Quiescent(t)
  PROVE  /\ \A k : ~Posted(queue, k, t)
         /\ \A st : ~Pending(stack, t, st)
         /\ ~FirePending(stack, t)
<1>1. \A e \in Elems(queue) : e.task # t
  <2> SUFFICES ASSUME NEW i \in 1..Len(queue) PROVE queue[i].task # t
    BY DEF Elems
  <2> QED
    BY DEF Quiescent
<1>2. \A o \in Elems(stack) : o.task # t
  BY DEF Quiescent, Elems
<1> QED
  BY <1>1, <1>2 DEF Posted, Pending, FirePending, Runnable, SetState, Op

(* Whatever order cancel(), the worker thread and the application thread   *)
(* were interleaved in, a task of which nothing is in flight shows in its  *)
(* state what its Future says.                                             *)
THEOREM FutureAgreed == Spec => []FutureAgrees
<1>1. ASSUME TypeOK, LifeInv PROVE FutureAgrees
  <2> SUFFICES ASSUME NEW t \in Tasks, Quiescent(t)
               PROVE  state[t] = CASE fut[t] = "NEW" -> "READY"
                                   [] fut[t] = "NORMAL" -> "SUCCEEDED"
                                   [] fut[t] = "EXCEPTIONAL" -> "FAILED"
                                   [] fut[t] = "CANCELLED" -> "CANCELLED"
    BY DEF FutureAgrees
  <2>1. TaskInv(t) /\ fut[t] \in Futures
    BY <1>1 DEF LifeInv, TypeOK
  <2> QED
    BY <2>1, QuiescentFacts DEF Quiescent, Futures, TaskInv, WorkerPart, OutcomePart, CancelPart
<1> QED
  BY <1>1, LifeCorrect, PTL

(* A handler of an outcome runs after those of SCHEDULED and RUNNING, and  *)
(* a task comes to rest only after the event of its state was fired.       *)
THEOREM EventsSeen == Spec => []EventsDelivered
<1>1. ASSUME TypeOK, LifeInv PROVE EventsDelivered
  <2> SUFFICES ASSUME NEW t \in Tasks
               PROVE  /\ fired[t] \intersect Concluded # {} => Active \subseteq fired[t]
                      /\ Quiescent(t) /\ state[t] # "READY" => state[t] \in fired[t]
    BY DEF EventsDelivered
  <2>1. FiredPart(t)
    BY <1>1 DEF LifeInv, TaskInv
  <2>2. fired[t] \intersect Concluded # {} => Active \subseteq fired[t]
    BY <2>1 DEF FiredPart, Concluded, Active
  <2>3. Quiescent(t) /\ state[t] # "READY" => state[t] \in fired[t]
    BY <2>1, QuiescentFacts DEF FiredPart
  <2> QED
    BY <2>2, <2>3
<1> QED
  BY <1>1, LifeCorrect, PTL

(* Task implements Worker: its state makes only the moves Worker allows    *)
(* (with a concluded task that may still be cancelled), although they are  *)
(* posted by one thread, run by another and overtaken by a third.          *)
THEOREM Implements == Spec => RefinesWorker
<1>1. Init => Lifecycle!Init
  BY DEF Init, Lifecycle!Init
<1>2. ASSUME TypeOK, LifeInv, [Next]_taskVars PROVE [Lifecycle!Next]_state
  <2>1. CASE DoSetState
    <3>1. PICK u \in Tasks, s \in State \ {"READY"} :
            \/ state' = state
            \/ Lifecycle!LegalMove(state[u], s) /\ state' = [state EXCEPT ![u] = s]
      BY <1>2, <2>1, SetStateFacts
    <3>2. s \in Lifecycle!State
      BY DEF State, Lifecycle!State
    <3> QED
      BY <3>1, <3>2 DEF Lifecycle!Next, Lifecycle!Move
  <2>2. CASE ~DoSetState
    BY <1>2, <2>2 DEF Next, FxThread, Dispatch, DispatchAs, DoSetRunning, DoFire, DoSetValue,
      DoSetException, Submit, WorkerThread, Return, Throw, CancelOnFx, CancelOffFx,
      PostCancelled, Run, Call, TestCancelled, PostSucceeded, PostFailed, Set, SetException,
      Complete, taskVars, propVars
  <2> QED
    BY <2>1, <2>2
<1> QED
  BY <1>1, <1>2, LifeCorrect, PTL DEF Spec, RefinesWorker, Lifecycle!Spec
=============================================================================
