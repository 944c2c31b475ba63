------------------------------ MODULE Service -------------------------------
(***************************************************************************)
(* javafx.concurrent.Service: a reusable Worker that runs one Task after   *)
(* another.  The service's properties are bound to those of the task it    *)
(* currently runs, so its state is the task's until reset() or restart()   *)
(* unbinds them.                                                           *)
(*                                                                         *)
(* All of it happens on the application thread except the first start(),   *)
(* which any thread may call.  The handlers of the service are called from *)
(* inside the property changes that its own methods make, so the methods   *)
(* are split at each place where user code can call the service again;     *)
(* Reentrant is the set of methods that user code calls from there.        *)
(***************************************************************************)
EXTENDS Task, FiniteSets

CONSTANTS
  NoTask,      \* the field task is null
  Reentrant,   \* the methods that handlers and listeners call
  OffFxStart,  \* whether the first start() may come from another thread
  EarlyUse,    \* whether the application thread may start, restart or reset
               \* the service before that start() reached it
  MaxCalls     \* bound on the calls of the service's methods

ASSUME ServiceAssumption ==
  /\ NoTask \notin Tasks
  /\ Reentrant \subseteq {"start", "cancel", "restart", "reset"}
  /\ OffFxStart \in BOOLEAN /\ EarlyUse \in BOOLEAN
  /\ MaxCalls \in Nat

VARIABLES
  cur,          \* the field task; the state property is bound to its state
  own,          \* the value of the state property while it is not bound
  wired,        \* the task that value, exception, running... are bound to
  startedOnce,  \* the field startedOnce
  starting,     \* a start() off the application thread has not posted yet
  created,      \* the tasks that createTask() returned
  calls         \* how many calls user code made

svcVars == <<cur, own, wired, startedOnce, starting, created, calls>>
vars == <<taskVars, svcVars>>

(* getState(). *)
SvcState == IF cur = NoTask THEN own ELSE state[cur]

SvcOp(name) == Op(name, NoTask, "READY")

-----------------------------------------------------------------------------
(* The parts that the methods are made of.                                 *)

(* state.unbind(); state.set(s) with task = null: the listener fires if    *)
(* the state changed.                                                      *)
Detach(s) ==
  /\ cur' = NoTask
  /\ own' = s

(* Mutant: reset() does not look at the state. *)
NeverRefuses == FALSE

(* if (s == State.SCHEDULED || s == State.RUNNING) throw: reset() refuses. *)
ResetRefused == SvcState \in Active

(* reset() up to the change of state; then is what the caller does after   *)
(* it returns.  While the service is active it throws instead, also out of *)
(* its caller.                                                             *)
ResetThen(then) ==
  \/ /\ ResetRefused
     /\ Pop(<<>>, TRUE)
     /\ UNCHANGED svcVars
  \/ /\ ~ResetRefused
     /\ Detach("READY")
     /\ Pop(<<SvcOp("unwire")>> \o then, SvcState # "READY")
     /\ UNCHANGED <<wired, startedOnce, starting, created, calls>>

(* reset(), called by user code or by restart(); more is what a subclass   *)
(* adds to it.                                                             *)
DoResetAnd(more) ==
  /\ \/ Top("reset") /\ ResetThen(more)
     \/ Top("resetStart") /\ ResetThen(more \o <<SvcOp("start")>>)
  /\ UNCHANGED <<threadVars, queue, propVars>>

DoReset == DoResetAnd(<<>>)

(* Mutant: the properties stay bound. *)
DoUnwireNothing ==
  /\ Top("unwire")
  /\ Pop(<<>>, TRUE)
  /\ UNCHANGED <<threadVars, queue, propVars, svcVars>>

(* The rest of reset(): the other properties are unbound. *)
DoUnwire ==
  /\ Top("unwire")
  /\ wired' = NoTask
  /\ Pop(<<>>, TRUE)
  /\ UNCHANGED <<threadVars, queue, propVars, cur, own, startedOnce, starting, created, calls>>

(* Mutants: the task is not counted as created, or the field is not set. *)
WireUncounted(t) ==
  /\ t \notin created
  /\ cur' = t /\ wired' = t
  /\ startedOnce' = TRUE
  /\ UNCHANGED <<own, created>>

WireUnassigned(t) ==
  /\ t \notin created
  /\ created' = created \union {t}
  /\ wired' = t
  /\ startedOnce' = TRUE
  /\ UNCHANGED <<cur, own>>

(* task = createTask(), and all the properties bound to it. *)
Wire(t) ==
  /\ t \notin created
  /\ created' = created \union {t}
  /\ cur' = t /\ wired' = t
  /\ startedOnce' = TRUE
  /\ UNCHANGED own

(* start() on the application thread. *)
DoStart ==
  /\ Top("start")
  /\ \/ /\ SvcState # "READY"
        /\ Pop(<<>>, TRUE)
        /\ UNCHANGED svcVars
     \/ /\ SvcState = "READY"
        /\ \E t \in Tasks :
             /\ Wire(t)
             /\ Pop(<<SetState(t, "SCHEDULED"), SvcOp("execute")>>, FALSE)
        /\ UNCHANGED <<starting, calls>>
  /\ UNCHANGED <<threadVars, queue, propVars>>

(* Mutant: only a task that is still READY is executed. *)
ExecutableWhenReady(t) == t # NoTask /\ pc[t] = "new" /\ state[t] = "READY"

(* FutureTask.run has no effect on a task that was already run, and a null *)
(* task ends with an exception in the executor's thread.                   *)
Executable(t) == t # NoTask /\ pc[t] = "new"

(* executeTask(task): the field is read after the handlers of SCHEDULED    *)
(* ran.                                                                    *)
DoExecute ==
  /\ Top("execute")
  /\ pc' = IF Executable(cur) THEN [pc EXCEPT ![cur] = "submitted"] ELSE pc
  /\ Pop(<<>>, TRUE)
  /\ UNCHANGED <<fut, posting, queue, propVars, svcVars>>

(* restart() after the current task was cancelled. *)
DoDrop ==
  /\ Top("drop")
  /\ Detach("CANCELLED")
  /\ Pop(<<>>, SvcState # "CANCELLED")
  /\ UNCHANGED <<threadVars, queue, propVars, wired, startedOnce, starting, created, calls>>

(* The runnable that a start() off the application thread posted.  It too  *)
(* reads the field task when it runs; null is an exception that ends it.   *)
DoScheduled ==
  /\ Top("scheduled")
  /\ stack' = IF cur = NoTask THEN <<>> ELSE <<SetState(cur, "SCHEDULED")>> \o Tail(stack)
  /\ callback' = FALSE
  /\ UNCHANGED <<threadVars, queue, propVars, svcVars>>

-----------------------------------------------------------------------------
(* The calls of user code.                                                 *)

MayCall(method) ==
  /\ calls < MaxCalls
  /\ stack = <<>> \/ (callback /\ method \in Reentrant)

(* A start() from another thread has not reached the application thread. *)
StartPending ==
  starting \/ \E i \in DOMAIN queue : queue[i].kind = "scheduled"

MayRenew(method) == MayCall(method) /\ (StartPending => EarlyUse)

Count == calls' = calls + 1

(* Bound: every start() that is still to come finds a task to create. *)
CanCreate ==
  LET starts == {i \in DOMAIN stack : stack[i].op \in {"start", "resetStart"}}
  IN Cardinality(created) + Cardinality(starts) < Cardinality(Tasks)

(* User code on the application thread calls a method made of ops. *)
Invoke(ops) ==
  /\ stack' = ops \o stack
  /\ callback' = FALSE
  /\ Count

Start ==
  /\ MayRenew("start") /\ CanCreate
  /\ Invoke(<<SvcOp("start")>>)
  /\ UNCHANGED <<threadVars, queue, propVars, cur, own, wired, startedOnce, starting, created>>

Reset ==
  /\ MayRenew("reset")
  /\ Invoke(<<SvcOp("reset")>>)
  /\ UNCHANGED <<threadVars, queue, propVars, cur, own, wired, startedOnce, starting, created>>

(* Mutant: restart() drops the task without cancelling it. *)
DropsTask == cur # NoTask

(* task.cancel() in restart() has no effect, the task is done already. *)
TaskIsDone == cur # NoTask /\ fut[cur] # "NEW"

(* restart(): task.cancel() first, if there is a task. *)
Restart ==
  /\ MayRenew("restart") /\ CanCreate
  /\ \/ /\ cur = NoTask
        /\ Invoke(<<SvcOp("resetStart")>>)
        /\ UNCHANGED fut
     \/ /\ TaskIsDone
        /\ Invoke(<<SvcOp("drop"), SvcOp("resetStart")>>)
        /\ UNCHANGED fut
     \/ /\ cur # NoTask /\ FutureCancel(cur)
        /\ Invoke(<<SetState(cur, "CANCELLED"), SvcOp("drop"), SvcOp("resetStart")>>)
  /\ UNCHANGED <<pc, posting, queue, propVars, cur, own, wired, startedOnce, starting, created>>

(* cancel(): without a task the service itself becomes CANCELLED; more is  *)
(* what a subclass adds to it.  A cancel() that fails changes nothing here. *)
CancelAnd(more) ==
  /\ MayCall("cancel")
  /\ \/ /\ cur = NoTask /\ own \notin {"CANCELLED", "SUCCEEDED"}
        /\ own' = "CANCELLED"
        /\ stack' = more \o stack /\ callback' = TRUE
        /\ Count
        /\ UNCHANGED fut
     \/ /\ IF cur = NoTask THEN own \in {"CANCELLED", "SUCCEEDED"} ELSE fut[cur] # "NEW"
        /\ more # <<>>
        /\ Invoke(more)
        /\ UNCHANGED <<fut, own>>
     \/ /\ cur # NoTask /\ FutureCancel(cur)
        /\ Invoke(<<SetState(cur, "CANCELLED")>> \o more)
        /\ UNCHANGED own
  /\ UNCHANGED <<pc, posting, queue, propVars, cur, wired, startedOnce, starting, created>>

Cancel == CancelAnd(<<>>)

(* The first start() on another thread, while no method of the service is  *)
(* underway on the application thread: the task is created and wired, the  *)
(* rest is posted to the application thread.                               *)
StartOffFx ==
  /\ OffFxStart /\ ~startedOnce /\ calls < MaxCalls /\ CanCreate
  /\ stack = <<>> /\ SvcState = "READY"
  /\ \E t \in Tasks : Wire(t)
  /\ starting' = TRUE
  /\ Count
  /\ UNCHANGED taskVars

PostScheduled ==
  /\ starting
  /\ starting' = FALSE
  /\ RunLater("scheduled", NoTask)
  /\ UNCHANGED <<threadVars, stack, callback, propVars, cur, own, wired, startedOnce, created, calls>>

-----------------------------------------------------------------------------
SvcBody(r) ==
  IF r.kind = "scheduled" THEN <<SvcOp("scheduled"), SvcOp("execute")>> ELSE Body(r)

(* The operations that a subclass leaves as they are. *)
CommonFxThread ==
  \/ DoUnwire \/ DoStart \/ DoDrop \/ DoScheduled
  \/ /\ DoSetRunning \/ DoFire \/ DoSetValue \/ DoSetException
     /\ UNCHANGED svcVars

SvcFxThread ==
  \/ CommonFxThread \/ DoReset \/ DoExecute
  \/ /\ DispatchAs(SvcBody(Head(queue))) \/ DoSetState
     /\ UNCHANGED svcVars

(* The executor's threads, and user code that cancels the task it created  *)
(* from the background.                                                    *)
TaskThreads ==
  /\ \E t \in created :
       WorkerThread(t) \/ Return(t) \/ Throw(t) \/ CancelOffFx(t) \/ PostCancelled(t)
  /\ UNCHANGED svcVars

SvcInit ==
  /\ Init
  /\ cur = NoTask /\ wired = NoTask
  /\ own = "READY"
  /\ startedOnce = FALSE /\ starting = FALSE
  /\ created = {}
  /\ calls = 0

SvcNext ==
  \/ Start \/ Reset \/ Restart \/ Cancel
  \/ StartOffFx \/ PostScheduled \/ SvcFxThread \/ TaskThreads

SvcSpec == SvcInit /\ [][SvcNext]_vars

(* As in Task, and call() ends: a service whose task never returns stays   *)
(* RUNNING forever.                                                        *)
SvcFairSpec ==
  /\ SvcSpec
  /\ WF_vars(SvcFxThread) /\ WF_vars(PostScheduled)
  /\ \A t \in Tasks :
       /\ WF_vars(t \in created /\ WorkerThread(t) /\ UNCHANGED svcVars)
       /\ WF_vars(t \in created /\ PostCancelled(t) /\ UNCHANGED svcVars)
       /\ WF_vars(t \in created /\ (Return(t) \/ Throw(t)) /\ UNCHANGED svcVars)

-----------------------------------------------------------------------------
SvcOpNames == {"reset", "resetStart", "unwire", "start", "execute", "drop", "scheduled"}

(* The fields of every service, scheduled or not, have the types the code  *)
(* gives them, and a service is bound only to a task it created.           *)
SvcTypeOK ==
  /\ cur \in created \union {NoTask}
  /\ wired \in created \union {NoTask}
  /\ startedOnce \in BOOLEAN /\ starting \in BOOLEAN
  /\ created \subseteq Tasks
  /\ calls \in 0..MaxCalls

(* "Cancels any currently running Task": a task that the service no longer *)
(* refers to does no more work for it, it was cancelled or its call() has  *)
(* ended.                                                                  *)
NoOrphan ==
  \A t \in created \ {cur} : fut[t] = "NEW" => pc[t] \in {"setting", "throwing"}

(* While the service is at rest its properties belong to the task that its *)
(* state belongs to: SUCCEEDED comes with the value of the task that       *)
(* succeeded.                                                              *)
WiredToCurrent == stack = <<>> => wired = cur

(* Observers of the service see the life cycle of a reusable Worker,       *)
(* whichever task is current, except for a cancellation after the end.     *)
SvcLifecycle == INSTANCE Worker WITH
  Workers <- {"service"}, state <- [w \in {"service"} |-> SvcState],
  LateCancel <- TRUE, Reusable <- TRUE
RefinesReusableWorker == SvcLifecycle!Spec

(* executeTask is documented to take "a non-null task to execute". *)
ExecutesTask == Top("execute") => cur # NoTask

(* A service that was started comes to an end or is reset: it never hangs  *)
(* in READY or SCHEDULED with a task that nothing will run.                *)
StartedEnds == cur # NoTask ~> (cur = NoTask \/ SvcState \notin Active \union {"READY"})
=============================================================================
