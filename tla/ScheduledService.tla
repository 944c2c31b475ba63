-------------------------- MODULE ScheduledService ---------------------------
(***************************************************************************)
(* javafx.concurrent.ScheduledService: a Service that starts itself again  *)
(* when its task succeeded or failed, after a delay counted by a timer     *)
(* thread.                                                                 *)
(*                                                                         *)
(* The hooks succeeded() and failed() are called by the service's state    *)
(* listener, inside the task's setState().  Time is abstracted: whenever a *)
(* task is to be executed its delay may be zero or not, as the period, the *)
(* cumulative period and the clock decide.                                 *)
(***************************************************************************)
EXTENDS Service

CONSTANT MaximumFailureCount   \* the property of that name

ASSUME ScheduledAssumption == MaximumFailureCount \in Nat /\ IsFiniteSet(Tasks)

VARIABLES
  delayTask,        \* the field delayTask, as the task that its timer task is for
  timer,            \* for each task, the state of its timer task
  stop,             \* the field stop
  freshStart,       \* the field freshStart
  failures,         \* the property currentFailureCount
  restartOnFailure  \* the property restartOnFailure, which the application chose

schedVars == <<delayTask, timer, stop, freshStart, failures, restartOnFailure>>
allVars == <<vars, schedVars>>

-----------------------------------------------------------------------------
(* executeTaskNow(t): freshStart is cleared, the executor gets the task. *)
ExecuteTaskNow(t) ==
  /\ pc' = IF Executable(t) THEN [pc EXCEPT ![t] = "submitted"] ELSE pc
  /\ freshStart' = FALSE

(* executeTask(task), at once or later. *)
DoExecuteTask ==
  /\ Top("execute")
  /\ Pop(<<>>, TRUE)
  /\ \/ /\ ExecuteTaskNow(cur)
        /\ UNCHANGED <<delayTask, timer>>
     \/ /\ cur # NoTask
        /\ delayTask' = cur
        /\ timer' = [timer EXCEPT ![cur] = "armed"]
        /\ UNCHANGED <<pc, freshStart>>
  /\ UNCHANGED <<fut, posting, queue, propVars, svcVars, stop, failures, restartOnFailure>>

(* The timer thread runs the timer task, which posts a runnable. *)
TimerFires(t) ==
  /\ timer[t] = "armed"
  /\ timer' = [timer EXCEPT ![t] = "fired"]
  /\ RunLater("delayed", t)
  /\ UNCHANGED <<threadVars, stack, callback, propVars, svcVars>>
  /\ UNCHANGED <<delayTask, stop, freshStart, failures, restartOnFailure>>

(* Mutant: a timer task that is not the current one is ignored. *)
DoDelayedCurrentOnly ==
  /\ Top("delayed")
  /\ IF Head(stack).task = delayTask THEN ExecuteTaskNow(delayTask) ELSE UNCHANGED <<pc, freshStart>>
  /\ delayTask' = NoTask
  /\ Pop(<<>>, FALSE)
  /\ UNCHANGED <<fut, posting, queue, propVars, svcVars, timer, stop, failures, restartOnFailure>>

(* That runnable: executeTaskNow(task); delayTask = null, whichever timer  *)
(* task the field refers to by now.                                        *)
DoDelayed ==
  /\ Top("delayed")
  /\ ExecuteTaskNow(Head(stack).task)
  /\ delayTask' = NoTask
  /\ Pop(<<>>, FALSE)
  /\ UNCHANGED <<fut, posting, queue, propVars, svcVars, timer, stop, failures, restartOnFailure>>

(* Mutant: succeeded() does not remember that the service was stopped. *)
SucceededThenStart == <<SvcOp("start")>>

(* What succeeded() does after superReset(): wasCancelled was read before. *)
SucceededThen ==
  IF stop THEN <<SvcOp("cancelFromReady"), SvcOp("cancelled")>> ELSE <<SvcOp("start")>>

(* succeeded(), after the SUCCEEDED handlers. *)
DoSucceeded ==
  /\ Top("succeeded")
  /\ ResetThen(SucceededThen)
  /\ UNCHANGED <<threadVars, queue, propVars, schedVars>>

(* failed(), after the FAILED handlers. *)
DoFailed ==
  /\ Top("failed")
  /\ failures' = failures + 1
  /\ \/ /\ restartOnFailure /\ MaximumFailureCount > failures + 1
        /\ ResetThen(<<SvcOp("start")>>)
     \/ /\ ~(restartOnFailure /\ MaximumFailureCount > failures + 1)
        /\ Pop(<<>>, TRUE)
        /\ UNCHANGED svcVars
  /\ UNCHANGED <<threadVars, queue, propVars, delayTask, timer, stop, freshStart, restartOnFailure>>

(* cancelFromReadyState(): SCHEDULED, then CANCELLED. *)
DoCancelFromReady ==
  /\ \/ Top("cancelFromReady") /\ own' = "SCHEDULED"
     \/ Top("cancelled") /\ own' = "CANCELLED"
  /\ Pop(<<>>, TRUE)
  /\ UNCHANGED <<threadVars, queue, propVars, schedVars>>
  /\ UNCHANGED <<cur, wired, startedOnce, starting, created, calls>>

(* reset() after super.reset(). *)
DoFreshen ==
  /\ Top("freshen")
  /\ stop' = FALSE /\ failures' = 0 /\ freshStart' = TRUE
  /\ Pop(<<>>, TRUE)
  /\ UNCHANGED <<threadVars, queue, propVars, svcVars, delayTask, timer, restartOnFailure>>

(* cancel() after super.cancel(). *)
DoStop ==
  /\ Top("stop")
  /\ stop' = TRUE
  /\ timer' = [t \in Tasks |-> IF t = delayTask /\ timer[t] = "armed" THEN "cancelled" ELSE timer[t]]
  /\ delayTask' = NoTask
  /\ Pop(<<>>, TRUE)
  /\ UNCHANGED <<threadVars, queue, propVars, svcVars, freshStart, failures, restartOnFailure>>

-----------------------------------------------------------------------------
(* The hook that the service's listener calls for a change of its state. *)
Hook(t, s) ==
  IF t # cur THEN <<>>
  ELSE CASE s = "SUCCEEDED" -> <<SvcOp("succeeded")>>
         [] s = "FAILED"    -> <<SvcOp("failed")>>
         [] OTHER           -> <<>>

DoSetStateAndHook ==
  stack # <<>> /\ DoSetStateThen(Hook(Head(stack).task, Head(stack).st))

SchedBody(r) ==
  IF r.kind = "delayed" THEN <<Op("delayed", r.task, "READY")>> ELSE SvcBody(r)

SchedFxThread ==
  \/ DoExecuteTask \/ DoDelayed \/ DoSucceeded \/ DoFailed \/ DoCancelFromReady
  \/ DoFreshen \/ DoStop
  \/ CommonFxThread /\ UNCHANGED schedVars
  \/ DoResetAnd(<<SvcOp("freshen")>>) /\ UNCHANGED schedVars
  \/ /\ DispatchAs(SchedBody(Head(queue))) \/ DoSetStateAndHook
     /\ UNCHANGED <<svcVars, schedVars>>

SchedInit ==
  /\ SvcInit
  /\ delayTask = NoTask
  /\ timer = [t \in Tasks |-> "none"]
  /\ stop = FALSE
  /\ freshStart = TRUE
  /\ failures = 0
  /\ restartOnFailure \in BOOLEAN

SchedNext ==
  \/ SchedFxThread
  \/ \E t \in Tasks : TimerFires(t)
  \/ /\ \/ Start \/ Reset \/ Restart \/ CancelAnd(<<SvcOp("stop")>>)
        \/ StartOffFx \/ PostScheduled \/ TaskThreads
     /\ UNCHANGED schedVars

SchedSpec == SchedInit /\ [][SchedNext]_allVars

-----------------------------------------------------------------------------
SchedOpNames == SvcOpNames \union
  {"succeeded", "failed", "cancelFromReady", "cancelled", "freshen", "stop"}

(* Every variable has the type the code gives it. *)
SchedTypeOK ==
  /\ SvcTypeOK
  /\ stack \in Seq(Ops \union {SvcOp(name) : name \in SchedOpNames}
                       \union {Op("delayed", t, "READY") : t \in Tasks})
  /\ own \in {"READY", "SCHEDULED", "CANCELLED"}
  /\ delayTask \in created \union {NoTask}
  /\ timer \in [Tasks -> {"none", "armed", "cancelled", "fired"}]
  /\ stop \in BOOLEAN /\ freshStart \in BOOLEAN
  /\ failures \in 0..Cardinality(Tasks)

(* "the ScheduledService will stop iterating": after cancel(), whenever it *)
(* came, no further task is created until the service is reset.            *)
CancelStopsIteration == [][created' # created => ~stop]_allVars

(* The same for a service that does not restart on failure. *)
CancelStopsSuccesses == [][created' # created => ~stop \/ restartOnFailure]_allVars

(* A task that waits for its delay is never forgotten: the current task    *)
(* that was not cancelled and not yet executed has a timer or a runnable,  *)
(* whatever earlier timers that were not cancelled still do.               *)
DelayIsArmed ==
  stack = <<>> /\ cur # NoTask /\ ~StartPending =>
    (fut[cur] = "NEW" /\ pc[cur] = "new" =>
       \/ timer[cur] = "armed"
       \/ \E i \in DOMAIN queue : queue[i] = Runnable("delayed", cur))
=============================================================================
