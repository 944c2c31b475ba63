-------------------------- MODULE TaskUpdatesProof ---------------------------
(***************************************************************************)
(* Proofs about TaskUpdates: for any number of threads, any arguments and  *)
(* any number of calls, the hand-over through the AtomicReference loses    *)
(* nothing, floods nothing and never goes back.                            *)
(*                                                                         *)
(* The inductive invariant adds to the type and to the handshake that the  *)
(* numbers in the reference are adjusted, and that an update waiting there *)
(* is later than what the application thread shows, unless the application *)
(* thread itself made what it shows.                                       *)
(***************************************************************************)
EXTENDS TaskUpdates, TLAPS

Clamped(u) == -1 <= u.workDone /\ u.workDone <= u.totalWork

Later ==
  /\ slot # Null => slot.n \in 1..updates
  /\ shown.n \in 0..updates
  /\ ~fx /\ slot # Null => shown.n < slot.n

IInv == TypeOK /\ OneRunnable /\ Clamped(slot) /\ Clamped(shown) /\ Later

-----------------------------------------------------------------------------
(* The adjustment of updateProgress always yields a pair of numbers in     *)
(* range: infinities, NaN and negative numbers have become -1.             *)
LEMMA AdjustClamps ==
  ASSUME NEW w \in Works, NEW m \in Totals, NEW n \in 1..MaxUpdates
  PROVE  /\ Adjust(n, w, m) \in Updates
         /\ Clamped(Adjust(n, w, m))
         /\ Adjust(n, w, m).n = n
         /\ Adjust(n, w, m) # Null
<1>1. Known(w) \in Int /\ Known(w) >= -1 /\ Known(m) \in Int /\ Known(m) >= -1
  BY UpdatesAssumption DEF Known
<1>2. Known(w) \in Numbers /\ Known(m) \in Numbers
  BY DEF Numbers
<1>3. n \in 0..MaxUpdates /\ n # 0
  BY UpdatesAssumption
<1>4. Adjust(n, w, m) \in Updates
  BY <1>2, <1>3 DEF Adjust, Update, Updates
<1>5. Adjust(n, w, m).n = n
  BY DEF Adjust, Update
<1>6. Clamped(Adjust(n, w, m))
  BY <1>1 DEF Clamped, Adjust, Update
<1>7. Adjust(n, w, m) # Null
  BY <1>3, <1>5 DEF Null, Update
<1> QED BY <1>4, <1>5, <1>6, <1>7

LEMMA InitInv == Init => IInv
<1> SUFFICES ASSUME Init PROVE IInv
  OBVIOUS
<1>1. Null \in Updates /\ Null.n = 0 /\ Clamped(Null)
  BY UpdatesAssumption DEF Null, Update, Updates, Numbers, Clamped
<1>2. TypeOK
  <2>1. fx \in BOOLEAN
    BY DEF Init
  <2> QED BY <1>1, <2>1, UpdatesAssumption DEF Init, TypeOK
<1>3. OneRunnable
  BY DEF Init, OneRunnable
<1> QED BY <1>1, <1>2, <1>3 DEF Init, IInv, Later

(* Every step of the threads keeps the invariant. *)
LEMMA StepInv == IInv /\ [Next]_vars => IInv'
<1> SUFFICES ASSUME IInv, [Next]_vars PROVE IInv'
  OBVIOUS
<1> USE UpdatesAssumption
<1>0. /\ updates \in Nat /\ slot.n \in Nat /\ shown.n \in Nat /\ posted \in {0, 1}
      /\ Null.n = 0 /\ Null \in Updates /\ Clamped(Null)
  BY DEF IInv, TypeOK, Updates, Null, Update, Numbers, Clamped
<1>1. ASSUME NEW th \in Threads, NEW w \in Works, NEW m \in Totals, UpdateProgress(th, w, m)
      PROVE  IInv'
  <2>1. updates' = updates + 1 /\ updates' \in 1..MaxUpdates
    BY <1>0, <1>1 DEF UpdateProgress, Called
  <2>2. /\ slot' \in Updates /\ Clamped(slot') /\ slot'.n = updates' /\ slot' # Null
    BY <1>1, <2>1, AdjustClamps DEF UpdateProgress
  <2>3. TypeOK'
    BY <1>1, <2>1, <2>2 DEF UpdateProgress, IInv, TypeOK
  <2>4. OneRunnable'
    BY <1>1, <2>2 DEF UpdateProgress, FoundNothing, IInv, TypeOK, OneRunnable
  <2>5. Later'
    BY <1>0, <1>1, <2>1, <2>2 DEF UpdateProgress, IInv, Later
  <2>6. Clamped(slot)' /\ Clamped(shown)'
    BY <1>1, <2>2 DEF UpdateProgress, IInv, Clamped
  <2> QED BY <2>3, <2>4, <2>5, <2>6 DEF IInv
<1>2. ASSUME NEW th \in Threads, Post(th) PROVE IInv'
  <2>1. OneRunnable' /\ posted' \in 0..1
    BY <1>0, <1>2 DEF Post, IInv, TypeOK, OneRunnable
  <2>2. TypeOK'
    BY <1>2, <2>1 DEF Post, IInv, TypeOK
  <2> QED BY <1>2, <2>1, <2>2 DEF Post, IInv, Clamped, Later
<1>3. ASSUME NEW w \in Works, NEW m \in Totals, UpdateProgressOnFx(w, m) PROVE IInv'
  <2>1. updates' = updates + 1 /\ updates' \in 1..MaxUpdates
    BY <1>0, <1>3 DEF UpdateProgressOnFx, Called
  <2>2. shown' \in Updates /\ Clamped(shown') /\ shown'.n = updates'
    BY <1>3, <2>1, AdjustClamps DEF UpdateProgressOnFx
  <2>3. TypeOK'
    <3>1. fx' \in BOOLEAN
      BY <1>3 DEF UpdateProgressOnFx
    <3> QED BY <1>3, <2>1, <2>2, <3>1 DEF UpdateProgressOnFx, IInv, TypeOK
  <2>4. OneRunnable'
    BY <1>3 DEF UpdateProgressOnFx, IInv, OneRunnable
  <2>5. Later'
    BY <1>0, <1>3, <2>1, <2>2 DEF UpdateProgressOnFx, IInv, Later
  <2>6. Clamped(slot)' /\ Clamped(shown)'
    BY <1>3, <2>2 DEF UpdateProgressOnFx, IInv, Clamped
  <2> QED BY <2>3, <2>4, <2>5, <2>6 DEF IInv
<1>4. ASSUME Deliver PROVE IInv'
  <2>1. posted = 1 /\ posted' = 0 /\ slot # Null /\ \A th \in Threads : pc[th] = "idle"
    BY <1>0, <1>4 DEF Deliver, IInv, OneRunnable
  <2>2. OneRunnable'
    BY <1>4, <2>1 DEF Deliver, OneRunnable
  <2>3. TypeOK'
    <3>1. fx' \in BOOLEAN
      BY <1>4 DEF Deliver
    <3> QED BY <1>0, <1>4, <2>1, <3>1 DEF Deliver, IInv, TypeOK
  <2>4. Later'
    BY <1>0, <1>4, <2>1 DEF Deliver, IInv, Later
  <2>5. Clamped(slot)' /\ Clamped(shown)'
    BY <1>0, <1>4 DEF Deliver, IInv, Clamped
  <2> QED BY <2>2, <2>3, <2>4, <2>5 DEF IInv
<1>5. CASE UNCHANGED vars
  BY <1>5 DEF vars, IInv, TypeOK, OneRunnable, Clamped, Later
<1> QED BY <1>1, <1>2, <1>3, <1>4, <1>5 DEF Next

(* The only step that replaces what is shown by an earlier update is the   *)
(* delivery of an update that the application thread had overtaken.        *)
LEMMA StepForward == IInv /\ [Next]_vars => (shown'.n < shown.n => fx)
<1> SUFFICES ASSUME IInv, [Next]_vars, shown'.n < shown.n PROVE fx
  OBVIOUS
<1>0. updates \in Nat /\ slot.n \in Nat /\ shown.n \in Nat /\ fx \in BOOLEAN
  BY UpdatesAssumption DEF IInv, TypeOK, Updates
<1>1. ASSUME NEW w \in Works, NEW m \in Totals, UpdateProgressOnFx(w, m) PROVE FALSE
  <2>1. updates' = updates + 1 /\ updates' \in 1..MaxUpdates
    BY <1>0, <1>1, UpdatesAssumption DEF UpdateProgressOnFx, Called
  <2>2. shown'.n = updates'
    BY <1>1, <2>1, AdjustClamps DEF UpdateProgressOnFx
  <2> QED BY <1>0, <2>1, <2>2 DEF IInv, Later
<1>2. CASE Deliver
  <2>1. slot # Null /\ shown' = slot
    BY <1>0, <1>2 DEF Deliver, IInv, TypeOK, OneRunnable
  <2> QED BY <1>0, <2>1 DEF IInv, Later
<1>3. CASE shown' = shown
  BY <1>0, <1>3
<1> QED BY <1>1, <1>2, <1>3 DEF Next, vars, Post, UpdateProgress

-----------------------------------------------------------------------------
(* Every variable keeps its type; in particular never more than one        *)
(* runnable of the channel waits for the application thread.               *)
THEOREM TypeCorrect == Spec => []TypeOK
<1>1. IInv => TypeOK
  BY DEF IInv
<1> QED BY <1>1, InitInv, StepInv, PTL DEF Spec

(* An update waits in the AtomicReference exactly if one runnable is there *)
(* to fetch it: the handshake of getAndSet and runLater.                   *)
THEOREM Handshake == Spec => []OneRunnable
<1>1. IInv => OneRunnable
  BY DEF IInv
<1> QED BY <1>1, InitInv, StepInv, PTL DEF Spec

(* The properties workDone and totalWork stay in the documented range. *)
THEOREM InRange == Spec => []WorkDoneInRange
<1>1. IInv => WorkDoneInRange
  BY DEF IInv, Clamped, WorkDoneInRange, Progress
<1> QED BY <1>1, InitInv, StepInv, PTL DEF Spec

(* What a background thread made visible is never replaced by an earlier   *)
(* update.                                                                 *)
THEOREM Forward == Spec => NeverGoesBack
<1>1. IInv /\ [Next]_vars => [shown'.n < shown.n => fx]_vars
  BY StepForward
<1> QED BY <1>1, InitInv, StepInv, PTL DEF Spec, NeverGoesBack
=============================================================================
