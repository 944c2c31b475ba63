-------------------------------- MODULE Task --------------------------------
(***************************************************************************)
(* javafx.concurrent.Task: a FutureTask whose life cycle is observable on  *)
(* the JavaFX application thread.                                          *)
(*                                                                         *)
(* Three kinds of thread act on a task.  The worker thread executes        *)
(* FutureTask.run, which calls TaskCallable.call, which posts runnables to *)
(* the application thread.  The application thread runs those runnables,   *)
(* and the user code (listeners, event handlers, the protected hooks) they *)
(* call back into.  Any other thread may call cancel().                    *)
(*                                                                         *)
(* The application thread is single, so a Java method that runs on it is   *)
(* atomic except where it calls user code: user code may call cancel()     *)
(* from inside setState().  The method calls still to be finished are      *)
(* therefore kept as a stack of operations, and callback says that user    *)
(* code is executing on top of it.                                         *)
(***************************************************************************)
EXTENDS Naturals, Sequences

CONSTANT Tasks            \* the Task objects of the application

VARIABLES
  fut,       \* FutureTask's own state, the one cancel() and isCancelled() use
  pc,        \* where the worker thread is in FutureTask.run / TaskCallable.call
  posting,   \* an off-thread cancel() is between super.cancel() and runLater()
  queue,     \* the runnables posted with Platform.runLater, oldest first
  stack,     \* what the application thread still has to do, innermost first
  callback,  \* the application thread is in user code called by the last step
  state,     \* the property state
  running,   \* the property running
  value,     \* the property value holds the result of call()
  exception, \* the property exception holds what call() threw
  fired      \* the states whose WorkerStateEvent was fired

threadVars == <<fut, pc, posting>>
fxVars == <<queue, stack, callback>>
propVars == <<state, running, value, exception, fired>>
taskVars == <<threadVars, fxVars, propVars>>

State == {"READY", "SCHEDULED", "RUNNING", "SUCCEEDED", "CANCELLED", "FAILED"}
Concluded == {"SUCCEEDED", "FAILED"}
Active == {"SCHEDULED", "RUNNING"}

-----------------------------------------------------------------------------
(* Operations of the application thread, and the runnables made of them.   *)

Op(name, t, s) == [op |-> name, task |-> t, st |-> s]
SetState(t, s) == Op("setState", t, s)

Runnable(kind, t) == [kind |-> kind, task |-> t]

(* Mutants of the bodies below: a state is skipped, the state is set before *)
(* the value, a cancelled task is made ready again.                        *)
StartBodyRunningOnly(t) == <<SetState(t, "RUNNING")>>
SucceedBodyStateFirst(t) == <<SetState(t, "SUCCEEDED"), Op("value", t, "SUCCEEDED")>>
CancelBodyReset(t) == <<SetState(t, "READY")>>

(* What the lambdas passed to runLater do.  TaskCallable.call posts start, *)
(* succeed and fail, an off-thread cancel() posts cancel.  The result and  *)
(* the exception are set before the state.                                 *)
StartBody(t) == <<SetState(t, "SCHEDULED"), SetState(t, "RUNNING")>>
SucceedBody(t) == <<Op("value", t, "SUCCEEDED"), SetState(t, "SUCCEEDED")>>
FailBody(t) == <<Op("exception", t, "FAILED"), SetState(t, "FAILED")>>
CancelBody(t) == <<SetState(t, "CANCELLED")>>

Body(r) ==
  CASE r.kind = "start"   -> StartBody(r.task)
    [] r.kind = "succeed" -> SucceedBody(r.task)
    [] r.kind = "fail"    -> FailBody(r.task)
    [] r.kind = "cancel"  -> CancelBody(r.task)

(* Platform.runLater: the application thread's queue is first in first out. *)
RunLater(kind, t) == queue' = Append(queue, Runnable(kind, t))

(* The innermost operation is finished; it was replaced by ops, and it left *)
(* user code running when inUserCode holds.                                 *)
Pop(ops, inUserCode) ==
  /\ stack' = ops \o Tail(stack)
  /\ callback' = inUserCode

Top(name) == stack # <<>> /\ Head(stack).op = name

(* User code is executing on the application thread: between two runnables *)
(* (an input event, say), or called by the step that was just made.        *)
UserCode == stack = <<>> \/ callback

-----------------------------------------------------------------------------
(* The worker thread.                                                      *)

At(t, from, to) ==
  /\ pc[t] = from
  /\ pc' = [pc EXCEPT ![t] = to]

(* A thread or an executor is given the task. *)
Submit(t) ==
  /\ At(t, "new", "submitted")
  /\ UNCHANGED <<fut, posting, fxVars, propVars>>

(* FutureTask.run: a task that is cancelled by now does nothing at all. *)
Run(t) ==
  /\ At(t, "submitted", IF fut[t] = "NEW" THEN "calling" ELSE "done")
  /\ UNCHANGED <<fut, posting, fxVars, propVars>>

(* Mutant: the start is not posted. *)
CallWithoutStart(t) ==
  /\ At(t, "calling", "body")
  /\ UNCHANGED <<fut, posting, fxVars, propVars>>

(* TaskCallable.call sets started and posts the move to RUNNING. *)
Call(t) ==
  /\ At(t, "calling", "body")
  /\ RunLater("start", t)
  /\ UNCHANGED <<fut, posting, stack, callback, propVars>>

(* The user's call() returns, or throws. *)
Return(t) ==
  /\ At(t, "body", "returned")
  /\ UNCHANGED <<fut, posting, fxVars, propVars>>

Throw(t) ==
  /\ At(t, "body", "threw")
  /\ UNCHANGED <<fut, posting, fxVars, propVars>>

(* if (!task.isCancelled()): the result of a cancelled task is dropped. *)
TestCancelled(t) ==
  /\ At(t, "returned", IF fut[t] = "CANCELLED" THEN "done" ELSE "succeeding")
  /\ UNCHANGED <<fut, posting, fxVars, propVars>>

(* The test was made before this step: a cancel() may have come in between. *)
PostSucceeded(t) ==
  /\ At(t, "succeeding", "setting")
  /\ RunLater("succeed", t)
  /\ UNCHANGED <<fut, posting, stack, callback, propVars>>

(* An exception is posted without looking at isCancelled(). *)
PostFailed(t) ==
  /\ At(t, "threw", "throwing")
  /\ RunLater("fail", t)
  /\ UNCHANGED <<fut, posting, stack, callback, propVars>>

(* FutureTask.set and FutureTask.setException: nothing if already cancelled. *)
Complete(t, from, outcome) ==
  /\ At(t, from, "done")
  /\ fut' = [fut EXCEPT ![t] = IF @ = "NEW" THEN outcome ELSE @]
  /\ UNCHANGED <<posting, fxVars, propVars>>

Set(t) == Complete(t, "setting", "NORMAL")
SetException(t) == Complete(t, "throwing", "EXCEPTIONAL")

WorkerThread(t) ==
  \/ Run(t) \/ Call(t) \/ TestCancelled(t) \/ PostSucceeded(t) \/ PostFailed(t)
  \/ Set(t) \/ SetException(t)

-----------------------------------------------------------------------------
(* Task.cancel.  FutureTask.cancel succeeds only on a task that is NEW.    *)

FutureCancel(t) ==
  /\ fut[t] = "NEW"
  /\ fut' = [fut EXCEPT ![t] = "CANCELLED"]

(* On the application thread the state is changed before cancel() returns. *)
CancelOnFx(t) ==
  /\ UserCode
  /\ FutureCancel(t)
  /\ stack' = <<SetState(t, "CANCELLED")>> \o stack
  /\ callback' = FALSE
  /\ UNCHANGED <<pc, posting, queue, propVars>>

(* Mutant: nothing is posted for a task that runs already. *)
CancelOffFxUnposted(t) ==
  /\ FutureCancel(t)
  /\ posting' = [posting EXCEPT ![t] = pc[t] = "new"]
  /\ UNCHANGED <<pc, fxVars, propVars>>

(* On any other thread the change is posted, in a second step. *)
CancelOffFx(t) ==
  /\ FutureCancel(t)
  /\ posting' = [posting EXCEPT ![t] = TRUE]
  /\ UNCHANGED <<pc, fxVars, propVars>>

PostCancelled(t) ==
  /\ posting[t]
  /\ posting' = [posting EXCEPT ![t] = FALSE]
  /\ RunLater("cancel", t)
  /\ UNCHANGED <<fut, pc, stack, callback, propVars>>

-----------------------------------------------------------------------------
(* The application thread.                                                 *)

(* The event loop takes the oldest runnable, which is made of ops. *)
DispatchAs(ops) ==
  /\ stack = <<>> /\ queue # <<>>
  /\ stack' = ops
  /\ queue' = Tail(queue)
  /\ callback' = FALSE
  /\ UNCHANGED <<threadVars, propVars>>

Dispatch == DispatchAs(Body(Head(queue)))

(* Mutant: the guard is missing. *)
NeverIgnoresSetState(t) == FALSE

(* if (s != State.CANCELLED): a cancelled task ignores every setState. *)
IgnoresSetState(t) == state[t] = "CANCELLED"

(* setState up to and including state.set(value).  The listeners of state  *)
(* are user code, and ops if the state changed; what is left to do after   *)
(* them is to set running and to fire the event.                           *)
DoSetStateThen(ops) ==
  /\ Top("setState")
  /\ LET t == Head(stack).task
         s == Head(stack).st
         rest == <<Op("running", t, s), Op("fire", t, s)>>
     IN \/ /\ IgnoresSetState(t)
           /\ Pop(<<>>, FALSE)
           /\ UNCHANGED state
        \/ /\ ~IgnoresSetState(t)
           /\ IF state[t] = s THEN Pop(rest, FALSE) ELSE Pop(ops \o rest, TRUE)
           /\ state' = [state EXCEPT ![t] = s]
  /\ UNCHANGED <<threadVars, queue, running, value, exception, fired>>

DoSetState == DoSetStateThen(<<>>)

(* setRunning(value == SCHEDULED || value == RUNNING): the argument of     *)
(* setState decides, not the state as the listeners left it.               *)
DoSetRunning ==
  /\ Top("running")
  /\ LET t == Head(stack).task
         on == Head(stack).st \in Active
     IN /\ running' = [running EXCEPT ![t] = on]
        /\ Pop(<<>>, running[t] # on)
  /\ UNCHANGED <<threadVars, queue, state, value, exception, fired>>

(* switch (state.get()): the event and the protected hook are those of the *)
(* state as the listeners left it, not of the argument of setState.        *)
DoFire ==
  /\ Top("fire")
  /\ LET t == Head(stack).task
     IN fired' = [fired EXCEPT ![t] = @ \union {state[t]}]
  /\ Pop(<<>>, TRUE)
  /\ UNCHANGED <<threadVars, queue, state, running, value, exception>>

(* updateValue(result) on the application thread. *)
DoSetValue ==
  /\ Top("value")
  /\ value' = [value EXCEPT ![Head(stack).task] = TRUE]
  /\ Pop(<<>>, TRUE)
  /\ UNCHANGED <<threadVars, queue, state, running, exception, fired>>

(* _setException(th). *)
DoSetException ==
  /\ Top("exception")
  /\ exception' = [exception EXCEPT ![Head(stack).task] = TRUE]
  /\ Pop(<<>>, TRUE)
  /\ UNCHANGED <<threadVars, queue, state, running, value, fired>>

FxThread ==
  \/ Dispatch
  \/ DoSetState \/ DoSetRunning \/ DoFire \/ DoSetValue \/ DoSetException

-----------------------------------------------------------------------------
Init ==
  /\ fut = [t \in Tasks |-> "NEW"]
  /\ pc = [t \in Tasks |-> "new"]
  /\ posting = [t \in Tasks |-> FALSE]
  /\ queue = <<>> /\ stack = <<>> /\ callback = FALSE
  /\ state = [t \in Tasks |-> "READY"]
  /\ running = [t \in Tasks |-> FALSE]
  /\ value = [t \in Tasks |-> FALSE]
  /\ exception = [t \in Tasks |-> FALSE]
  /\ fired = [t \in Tasks |-> {}]

Next ==
  \/ FxThread
  \/ \E t \in Tasks :
       \/ Submit(t) \/ WorkerThread(t) \/ Return(t) \/ Throw(t)
       \/ CancelOnFx(t) \/ CancelOffFx(t) \/ PostCancelled(t)

Spec == Init /\ [][Next]_taskVars

(* The event loop, the worker threads and a cancelling thread keep going.  *)
(* Nothing obliges the application to submit or cancel a task, or the      *)
(* user's call() to return.                                                *)
Fairness ==
  /\ WF_taskVars(FxThread)
  /\ \A t \in Tasks : WF_taskVars(WorkerThread(t)) /\ WF_taskVars(PostCancelled(t))

FairSpec == Spec /\ Fairness

-----------------------------------------------------------------------------
OpNames == {"setState", "running", "fire", "value", "exception"}
Kinds == {"start", "succeed", "fail", "cancel"}
Futures == {"NEW", "NORMAL", "EXCEPTIONAL", "CANCELLED"}
Places == {"new", "submitted", "calling", "body", "returned", "succeeding",
           "setting", "threw", "throwing", "done"}
Ops == [op : OpNames, task : Tasks, st : State \ {"READY"}]
Runnables == [kind : Kinds, task : Tasks]

(* Every variable has the type the code gives it, and no setState is ever  *)
(* given READY: "can never meaningfully occur", says the code.             *)
TypeOK ==
  /\ fut \in [Tasks -> Futures]
  /\ pc \in [Tasks -> Places]
  /\ posting \in [Tasks -> BOOLEAN]
  /\ queue \in Seq(Runnables)
  /\ stack \in Seq(Ops)
  /\ callback \in BOOLEAN
  /\ state \in [Tasks -> State]
  /\ running \in [Tasks -> BOOLEAN]
  /\ value \in [Tasks -> BOOLEAN]
  /\ exception \in [Tasks -> BOOLEAN]
  /\ fired \in [Tasks -> SUBSET State]

(* Nothing about t is on its way to the application thread. *)
Quiescent(t) ==
  /\ pc[t] \in {"new", "submitted", "done"} /\ ~posting[t]
  /\ \A i \in DOMAIN queue : queue[i].task # t
  /\ \A i \in DOMAIN stack : stack[i].task # t

(* The two views of a task agree in the end: whatever order cancel(), the  *)
(* worker thread and the application thread were interleaved in, once      *)
(* nothing is in flight the property state says what the Future says, so   *)
(* isCancelled() and CANCELLED, isDone() and a concluded state coincide.   *)
FutureAgrees ==
  \A t \in Tasks :
    Quiescent(t) =>
      state[t] = CASE fut[t] = "NEW" -> "READY"
                   [] fut[t] = "NORMAL" -> "SUCCEEDED"
                   [] fut[t] = "EXCEPTIONAL" -> "FAILED"
                   [] fut[t] = "CANCELLED" -> "CANCELLED"

(* "when the SUCCEEDED flag is set, the value will be available", and the  *)
(* same for FAILED and the exception: an observer of the state finds the   *)
(* outcome already there, in handlers and listeners too.                   *)
OutcomeBeforeState ==
  \A t \in Tasks :
    /\ state[t] = "SUCCEEDED" => value[t]
    /\ state[t] = "FAILED" => exception[t]

(* Handlers see every stage: a handler of an outcome runs after those of   *)
(* SCHEDULED and RUNNING, and no task comes to rest in a state whose event *)
(* was not fired, wherever cancel() cut into a setState().                 *)
EventsDelivered ==
  \A t \in Tasks :
    /\ fired[t] \intersect Concluded # {} => Active \subseteq fired[t]
    /\ Quiescent(t) /\ state[t] # "READY" => state[t] \in fired[t]

(* The life cycle an observer sees is the one Worker allows, except that a *)
(* concluded task may still be cancelled: no state is skipped, revisited   *)
(* or left for a wrong one, although the moves are posted by one thread,   *)
(* run by another and may be overtaken by a third.                         *)
Lifecycle == INSTANCE Worker WITH Workers <- Tasks, LateCancel <- TRUE, Reusable <- FALSE
RefinesWorker == Lifecycle!Spec

(* What was decided is published: a cancel() that was accepted makes the   *)
(* state CANCELLED and keeps it so, whatever the worker thread still       *)
(* posts, and a task whose call() has ended reaches an ending state.       *)
OutcomeIsPublished ==
  \A t \in Tasks :
    /\ fut[t] = "CANCELLED" ~> [](state[t] = "CANCELLED")
    /\ pc[t] \in {"returned", "threw"} ~> state[t] \in Concluded \union {"CANCELLED"}
=============================================================================
