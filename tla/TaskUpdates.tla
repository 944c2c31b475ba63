---------------------------- MODULE TaskUpdates -----------------------------
(***************************************************************************)
(* The coalescing updates of javafx.concurrent.Task: updateMessage,        *)
(* updateTitle, updateValue and updateProgress.  Each of them hands the    *)
(* latest update to the application thread through an AtomicReference, and *)
(* posts a runnable only when the reference was null.  The module has one  *)
(* such channel, the one of updateProgress: the others are the same but    *)
(* for the adjustment of the numbers.                                      *)
(*                                                                         *)
(* Updates are numbered in the order in which the threads made them, that  *)
(* is, in the order of their getAndSet or, on the application thread, of   *)
(* their assignment to the properties.                                     *)
(***************************************************************************)
EXTENDS Integers

CONSTANTS
  Threads,     \* the threads that call the update method, but for the application thread
  Works,       \* the values passed as workDone
  Totals,      \* the values passed as max
  NonFinite,   \* the doubles among them that are infinite or not a number
  MaxUpdates   \* bound on the number of calls

ASSUME UpdatesAssumption ==
  /\ (Works \union Totals) \ NonFinite \subseteq Int
  /\ MaxUpdates \in Nat

VARIABLES
  slot,     \* the AtomicReference
  pc,       \* "posting": the thread found the reference null and will post
  posted,   \* how many runnables wait for the application thread
  shown,    \* the update that the properties workDone, totalWork show
  fx,       \* that update was made on the application thread
  updates   \* how many calls were made

vars == <<slot, pc, posted, shown, fx, updates>>

(* An update: its number, and the adjusted workDone and totalWork. *)
Update(n, w, m) == [n |-> n, workDone |-> w, totalWork |-> m]

(* A reference that is null. *)
Null == Update(0, -1, -1)

-----------------------------------------------------------------------------
(* Infinity, NaN and negative numbers are treated as -1. *)
Known(x) == IF x \in NonFinite THEN -1 ELSE IF x < 0 THEN -1 ELSE x

(* Mutant: the clamp is missing. *)
AdjustUnclamped(n, w, m) == Update(n, Known(w), Known(m))

(* The beginning of updateProgress: workDone is clamped at max. *)
Adjust(n, w, m) ==
  Update(n, IF Known(w) > Known(m) THEN Known(m) ELSE Known(w), Known(m))

Called ==
  /\ updates < MaxUpdates
  /\ updates' = updates + 1

(* Mutants: the thread posts when it finds an update, or always. *)
FoundNothingInverted == slot # Null
FoundNothingIgnored == TRUE

(* getAndSet(...) == null *)
FoundNothing == slot = Null

(* A call off the application thread, up to and including getAndSet. *)
UpdateProgress(th, w, m) ==
  /\ pc[th] = "idle"
  /\ Called
  /\ slot' = Adjust(updates', w, m)
  /\ pc' = [pc EXCEPT ![th] = IF FoundNothing THEN "posting" ELSE "idle"]
  /\ UNCHANGED <<posted, shown, fx>>

(* runLater. *)
Post(th) ==
  /\ pc[th] = "posting"
  /\ pc' = [pc EXCEPT ![th] = "idle"]
  /\ posted' = posted + 1
  /\ UNCHANGED <<slot, shown, fx, updates>>

(* A call on the application thread assigns the properties at once. *)
UpdateProgressOnFx(w, m) ==
  /\ Called
  /\ shown' = Adjust(updates', w, m)
  /\ fx' = TRUE
  /\ UNCHANGED <<slot, pc, posted>>

(* Mutant: the reference is read and not cleared. *)
DeliverUncleared ==
  /\ posted > 0
  /\ posted' = posted - 1
  /\ shown' = slot
  /\ fx' = FALSE
  /\ UNCHANGED <<slot, pc, updates>>

(* The runnable: getAndSet(null), then _updateProgress. *)
Deliver ==
  /\ posted > 0
  /\ posted' = posted - 1
  /\ shown' = slot
  /\ fx' = FALSE
  /\ slot' = Null
  /\ UNCHANGED <<pc, updates>>

(* The property progress, as the fraction that _updateProgress divides. *)
Progress ==
  IF shown.workDone = -1 THEN [num |-> -1, den |-> 1]
  ELSE [num |-> shown.workDone, den |-> shown.totalWork]

-----------------------------------------------------------------------------
Init ==
  /\ slot = Null
  /\ pc = [th \in Threads |-> "idle"]
  /\ posted = 0
  /\ shown = Null
  /\ fx = FALSE
  /\ updates = 0

Next ==
  \/ \E th \in Threads : Post(th) \/ \E w \in Works, m \in Totals : UpdateProgress(th, w, m)
  \/ \E w \in Works, m \in Totals : UpdateProgressOnFx(w, m)
  \/ Deliver

Spec == Init /\ [][Next]_vars

(* The event loop goes on, and a call that was begun ends. *)
FairSpec == Spec /\ WF_vars(Deliver) /\ \A th \in Threads : WF_vars(Post(th))

-----------------------------------------------------------------------------
Numbers == {Known(x) : x \in Works \union Totals} \union {-1}
Updates == [n : 0..MaxUpdates, workDone : Numbers, totalWork : Numbers]

(* Every variable has the type the code gives it, and the event queue is   *)
(* not flooded: one runnable at most waits.                                *)
TypeOK ==
  /\ slot \in Updates
  /\ pc \in [Threads -> {"idle", "posting"}]
  /\ posted \in 0..1
  /\ shown \in Updates
  /\ fx \in BOOLEAN
  /\ updates \in 0..MaxUpdates

(* The handshake: an update waits in the reference exactly if one runnable *)
(* waits, or is about to be posted, to fetch it.  So no update is left     *)
(* behind, and a runnable never finds null (that of updateProgress would   *)
(* throw a NullPointerException).                                          *)
OneRunnable ==
  \/ /\ slot = Null /\ posted = 0
     /\ \A th \in Threads : pc[th] = "idle"
  \/ /\ slot # Null /\ posted = 1
     /\ \A th \in Threads : pc[th] = "idle"
  \/ /\ slot # Null /\ posted = 0
     /\ \E th \in Threads :
          pc[th] = "posting" /\ \A other \in Threads \ {th} : pc[other] = "idle"

(* workDone is "a number between -1 (meaning indeterminate progress) and   *)
(* totalWork", whatever was passed, and so the fraction that progress is   *)
(* computed from is -1 or at most 1.  (With a max of 0 it is 0/0, NaN.)    *)
WorkDoneInRange ==
  /\ -1 <= shown.workDone /\ shown.workDone <= shown.totalWork
  /\ Progress.num <= Progress.den

(* "intermediate workDone values may be coalesced", and no more: what a    *)
(* background thread made visible is never replaced by an earlier update.  *)
(* What the application thread itself assigned may be: it does not pass    *)
(* through the reference, and an update that waits there overwrites it.    *)
NeverGoesBack == [][shown'.n < shown.n => fx]_vars

(* An update that was handed over is shown, or a later one is, and the     *)
(* reference is free again.                                                *)
UpdateIsShown ==
  \A n \in 1..MaxUpdates : slot.n = n ~> (slot = Null /\ shown.n >= n)
=============================================================================
