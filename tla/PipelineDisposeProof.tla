------------------------ MODULE PipelineDisposeProof ------------------------
(***************************************************************************)
(* What PipelineDispose promises, for every number of messages.            *)
(*                                                                         *)
(* The count of the callback can be lost, but only upwards: it is never    *)
(* below the references that are really held, nor is what a thread has     *)
(* read of it.  So who finds it zero is the last one, and the lock decides *)
(* between that one and Dispose().                                         *)
(***************************************************************************)
EXTENDS PipelineDispose, TLAPS

(* The source, and the dispatch, hold their reference of the callback.     *)
SourceHolds == pc.app \in {"idle", "join", "enter", "destroy", "unref", "drop"}
LoopHolds == pc.loop \in {"pop", "enter", "handle", "null", "unref", "drop"}

(* Who has the lock is where it takes and leaves it.                       *)
LockInv ==
    /\ lock = "app" <=> pc.app \in {"destroy", "unref", "drop", "notify", "finish"}
    /\ lock = "loop" <=> pc.loop \in {"handle", "null"}
    /\ lock = "str" <=> pc.str = "added"

(* How far Dispose() is.                                                   *)
StageInv ==
    /\ destroyed <=> pc.app \notin {"idle", "join", "enter", "destroy"}
    /\ disposed <=> pc.app \in {"free", "delete", "done"}
    /\ pipeline <=> pc.app # "done"
    /\ pc.app \notin {"idle", "join"} => pc.str = "gone"
    /\ pc.loop \in {"handle", "null"} => ~disposed

(* The count, and what was read of it, cover the references.               *)
CountInv ==
    /\ ~destroyed => refs = IF LoopHolds THEN 2 ELSE 1
    /\ SourceHolds /\ LoopHolds => refs = 2
    /\ SourceHolds \/ LoopHolds => refs > 0
    /\ SourceHolds /\ pc.loop = "drop" => reg["loop"] = 2
    /\ pc.loop = "drop" => reg["loop"] > 0
    /\ pc.app = "drop" /\ LoopHolds => reg["app"] = 2
    /\ pc.app = "drop" => reg["app"] > 0

(* While a reference is held nobody frees the block; after that one does.  *)
OwnerInv ==
    /\ SourceHolds => pc.loop \notin {"notify", "free"} /\ ~freeMe
    /\ LoopHolds => pc.app \notin {"notify", "free"} /\ ~freeMe
    /\ pc.loop \in {"notify", "free"} => pc.app \notin {"notify", "free"} /\ ~freeMe
    /\ pc.app = "notify" => ~freeMe
    /\ pc.app = "free" => freeMe
    /\ pc.loop = "free" => disposed
    /\ ~block => pc.app \in {"delete", "done"} /\ pc.loop = "poll"
    /\ pc.app \in {"delete", "done"} /\ freeMe => ~block

(* The inductive invariant.                                                *)
IInv == TypeOK /\ LockInv /\ StageInv /\ CountInv /\ OwnerInv

(* A step of the streaming thread: posts and pad-added handlers.           *)
LEMMA StreamKeeps ==
    ASSUME IInv, StrNext
    PROVE  IInv'
<1> USE DEF IInv, content, source
<1>1. CASE Post
  <2>1. TypeOK'
    BY <1>1, DisposeAssumption DEF Post, TypeOK, LoopPC, AppPC, StrPC
  <2>2. LockInv' /\ StageInv'
    BY <1>1, <2>1 DEF Post, TypeOK, LockInv, StageInv
  <2>3. CountInv'
    BY <1>1, <2>1 DEF Post, TypeOK, LockInv, StageInv, CountInv, OwnerInv, SourceHolds,
       LoopHolds
  <2>4. OwnerInv'
    BY <1>1, <2>1 DEF Post, TypeOK, LockInv, StageInv, CountInv, OwnerInv, SourceHolds,
       LoopHolds
  <2> QED
    BY <2>1, <2>2, <2>3, <2>4
<1>2. CASE PadAdded
  <2>1. TypeOK'
    BY <1>2, DisposeAssumption DEF PadAdded, GoStr, TypeOK, LoopPC, AppPC, StrPC
  <2>2. LockInv' /\ StageInv'
    BY <1>2, <2>1 DEF PadAdded, GoStr, TypeOK, LockInv, StageInv
  <2>3. CountInv'
    BY <1>2, <2>1 DEF PadAdded, GoStr, TypeOK, LockInv, StageInv, CountInv, OwnerInv,
       SourceHolds, LoopHolds
  <2>4. OwnerInv'
    BY <1>2, <2>1 DEF PadAdded, GoStr, TypeOK, LockInv, StageInv, CountInv, OwnerInv,
       SourceHolds, LoopHolds
  <2> QED
    BY <2>1, <2>2, <2>3, <2>4
<1>3. CASE PadAddedEnter
  <2>1. TypeOK'
    BY <1>3, DisposeAssumption DEF PadAddedEnter, GoStr, TypeOK, LoopPC, AppPC, StrPC
  <2>2. LockInv' /\ StageInv'
    BY <1>3, <2>1 DEF PadAddedEnter, GoStr, TypeOK, LockInv, StageInv
  <2>3. CountInv'
    BY <1>3, <2>1 DEF PadAddedEnter, GoStr, TypeOK, LockInv, StageInv, CountInv, OwnerInv,
       SourceHolds, LoopHolds
  <2>4. OwnerInv'
    BY <1>3, <2>1 DEF PadAddedEnter, GoStr, TypeOK, LockInv, StageInv, CountInv, OwnerInv,
       SourceHolds, LoopHolds
  <2> QED
    BY <2>1, <2>2, <2>3, <2>4
<1>4. CASE PadAddedExit
  <2>1. TypeOK'
    BY <1>4, DisposeAssumption DEF PadAddedExit, GoStr, TypeOK, LoopPC, AppPC, StrPC
  <2>2. LockInv' /\ StageInv'
    BY <1>4, <2>1 DEF PadAddedExit, GoStr, TypeOK, LockInv, StageInv
  <2>3. CountInv'
    BY <1>4, <2>1 DEF PadAddedExit, GoStr, TypeOK, LockInv, StageInv, CountInv, OwnerInv,
       SourceHolds, LoopHolds
  <2>4. OwnerInv'
    BY <1>4, <2>1 DEF PadAddedExit, GoStr, TypeOK, LockInv, StageInv, CountInv, OwnerInv,
       SourceHolds, LoopHolds
  <2> QED
    BY <2>1, <2>2, <2>3, <2>4
<1>5. CASE StreamEnds
  <2>1. TypeOK'
    BY <1>5, DisposeAssumption DEF StreamEnds, GoStr, TypeOK, LoopPC, AppPC, StrPC
  <2>2. LockInv' /\ StageInv'
    BY <1>5, <2>1 DEF StreamEnds, GoStr, TypeOK, LockInv, StageInv
  <2>3. CountInv'
    BY <1>5, <2>1 DEF StreamEnds, GoStr, TypeOK, LockInv, StageInv, CountInv, OwnerInv,
       SourceHolds, LoopHolds
  <2>4. OwnerInv'
    BY <1>5, <2>1 DEF StreamEnds, GoStr, TypeOK, LockInv, StageInv, CountInv, OwnerInv,
       SourceHolds, LoopHolds
  <2> QED
    BY <2>1, <2>2, <2>3, <2>4
<1> QED
  BY <1>1, <1>2, <1>3, <1>4, <1>5 DEF StrNext

(* A step of the main loop: dispatch, BusCallback, unref and notify.       *)
LEMMA LoopKeeps ==
    ASSUME IInv, LoopNext
    PROVE  IInv'
<1> USE DEF IInv, content, source
<1>1. CASE LoopDispatch
  <2>1. TypeOK'
    BY <1>1, DisposeAssumption DEF LoopDispatch, GoLoop, TypeOK, LoopPC, AppPC, StrPC,
       CountInv, StageInv, LoopHolds, SourceHolds
  <2>2. LockInv' /\ StageInv'
    BY <1>1, <2>1 DEF LoopDispatch, GoLoop, TypeOK, LockInv, StageInv
  <2>3. CountInv'
    BY <1>1, <2>1 DEF LoopDispatch, GoLoop, TypeOK, LockInv, StageInv, CountInv, OwnerInv,
       SourceHolds, LoopHolds
  <2>4. OwnerInv'
    BY <1>1, <2>1 DEF LoopDispatch, GoLoop, TypeOK, LockInv, StageInv, CountInv, OwnerInv,
       SourceHolds, LoopHolds
  <2> QED
    BY <2>1, <2>2, <2>3, <2>4
<1>2. CASE LoopPop
  <2>1. TypeOK'
    BY <1>2, DisposeAssumption DEF LoopPop, GoLoop, TypeOK, LoopPC, AppPC, StrPC
  <2>2. LockInv' /\ StageInv'
    BY <1>2, <2>1 DEF LoopPop, GoLoop, TypeOK, LockInv, StageInv
  <2>3. CountInv'
    BY <1>2, <2>1 DEF LoopPop, GoLoop, TypeOK, LockInv, StageInv, CountInv, OwnerInv,
       SourceHolds, LoopHolds
  <2>4. OwnerInv'
    BY <1>2, <2>1 DEF LoopPop, GoLoop, TypeOK, LockInv, StageInv, CountInv, OwnerInv,
       SourceHolds, LoopHolds
  <2> QED
    BY <2>1, <2>2, <2>3, <2>4
<1>3. CASE LoopEnter
  <2>1. TypeOK'
    BY <1>3, DisposeAssumption DEF LoopEnter, GoLoop, TypeOK, LoopPC, AppPC, StrPC
  <2>2. LockInv' /\ StageInv'
    BY <1>3, <2>1 DEF LoopEnter, GoLoop, TypeOK, LockInv, StageInv
  <2>3. CountInv'
    BY <1>3, <2>1 DEF LoopEnter, GoLoop, TypeOK, LockInv, StageInv, CountInv, OwnerInv,
       SourceHolds, LoopHolds
  <2>4. OwnerInv'
    BY <1>3, <2>1 DEF LoopEnter, GoLoop, TypeOK, LockInv, StageInv, CountInv, OwnerInv,
       SourceHolds, LoopHolds
  <2> QED
    BY <2>1, <2>2, <2>3, <2>4
<1>4. CASE LoopHandled
  <2>1. TypeOK'
    BY <1>4, DisposeAssumption DEF LoopHandled, GoLoop, TypeOK, LoopPC, AppPC, StrPC
  <2>2. LockInv' /\ StageInv'
    BY <1>4, <2>1 DEF LoopHandled, GoLoop, TypeOK, LockInv, StageInv
  <2>3. CountInv'
    BY <1>4, <2>1 DEF LoopHandled, GoLoop, TypeOK, LockInv, StageInv, CountInv, OwnerInv,
       SourceHolds, LoopHolds
  <2>4. OwnerInv'
    BY <1>4, <2>1 DEF LoopHandled, GoLoop, TypeOK, LockInv, StageInv, CountInv, OwnerInv,
       SourceHolds, LoopHolds
  <2> QED
    BY <2>1, <2>2, <2>3, <2>4
<1>5. CASE LoopError
  <2>1. TypeOK'
    BY <1>5, DisposeAssumption DEF LoopError, GoLoop, TypeOK, LoopPC, AppPC, StrPC
  <2>2. LockInv' /\ StageInv'
    BY <1>5, <2>1 DEF LoopError, GoLoop, TypeOK, LockInv, StageInv
  <2>3. CountInv'
    BY <1>5, <2>1 DEF LoopError, GoLoop, TypeOK, LockInv, StageInv, CountInv, OwnerInv,
       SourceHolds, LoopHolds
  <2>4. OwnerInv'
    BY <1>5, <2>1 DEF LoopError, GoLoop, TypeOK, LockInv, StageInv, CountInv, OwnerInv,
       SourceHolds, LoopHolds
  <2> QED
    BY <2>1, <2>2, <2>3, <2>4
<1>6. CASE LoopErrorDone
  <2>1. TypeOK'
    BY <1>6, DisposeAssumption DEF LoopErrorDone, GoLoop, TypeOK, LoopPC, AppPC, StrPC
  <2>2. LockInv' /\ StageInv'
    BY <1>6, <2>1 DEF LoopErrorDone, GoLoop, TypeOK, LockInv, StageInv
  <2>3. CountInv'
    BY <1>6, <2>1 DEF LoopErrorDone, GoLoop, TypeOK, LockInv, StageInv, CountInv,
       OwnerInv, SourceHolds, LoopHolds
  <2>4. OwnerInv'
    BY <1>6, <2>1 DEF LoopErrorDone, GoLoop, TypeOK, LockInv, StageInv, CountInv,
       OwnerInv, SourceHolds, LoopHolds
  <2> QED
    BY <2>1, <2>2, <2>3, <2>4
<1>7. CASE LoopUnref
  <2>1. TypeOK'
    BY <1>7, DisposeAssumption DEF LoopUnref, GoLoop, ReadCount, TypeOK, LoopPC, AppPC,
       StrPC
  <2>2. LockInv' /\ StageInv'
    BY <1>7, <2>1 DEF LoopUnref, GoLoop, ReadCount, TypeOK, LockInv, StageInv
  <2>3. CountInv'
    BY <1>7, <2>1 DEF LoopUnref, GoLoop, ReadCount, TypeOK, LockInv, StageInv, CountInv,
       OwnerInv, SourceHolds, LoopHolds
  <2>4. OwnerInv'
    BY <1>7, <2>1 DEF LoopUnref, GoLoop, ReadCount, TypeOK, LockInv, StageInv, CountInv,
       OwnerInv, SourceHolds, LoopHolds
  <2> QED
    BY <2>1, <2>2, <2>3, <2>4
<1>8. CASE LoopDrop
  <2>1. TypeOK'
    BY <1>8, DisposeAssumption DEF LoopDrop, GoLoop, Last, WriteCount, TypeOK, LoopPC,
       AppPC, StrPC, CountInv, StageInv, LoopHolds, SourceHolds
  <2>2. LockInv' /\ StageInv'
    BY <1>8, <2>1 DEF LoopDrop, GoLoop, Last, WriteCount, TypeOK, LockInv, StageInv
  <2>3. CountInv'
    BY <1>8, <2>1 DEF LoopDrop, GoLoop, Last, WriteCount, TypeOK, LockInv, StageInv,
       CountInv, OwnerInv, SourceHolds, LoopHolds
  <2>4. OwnerInv'
    BY <1>8, <2>1 DEF LoopDrop, GoLoop, Last, WriteCount, TypeOK, LockInv, StageInv,
       CountInv, OwnerInv, SourceHolds, LoopHolds
  <2> QED
    BY <2>1, <2>2, <2>3, <2>4
<1>9. CASE LoopNotify
  <2>1. TypeOK'
    BY <1>9, DisposeAssumption DEF LoopNotify, GoLoop, DestroyNotify, TypeOK, LoopPC,
       AppPC, StrPC
  <2>2. LockInv' /\ StageInv'
    BY <1>9, <2>1 DEF LoopNotify, GoLoop, DestroyNotify, TypeOK, LockInv, StageInv
  <2>3. CountInv'
    BY <1>9, <2>1 DEF LoopNotify, GoLoop, DestroyNotify, TypeOK, LockInv, StageInv,
       CountInv, OwnerInv, SourceHolds, LoopHolds
  <2>4. OwnerInv'
    BY <1>9, <2>1 DEF LoopNotify, GoLoop, DestroyNotify, TypeOK, LockInv, StageInv,
       CountInv, OwnerInv, SourceHolds, LoopHolds
  <2> QED
    BY <2>1, <2>2, <2>3, <2>4
<1>10. CASE LoopFree
  <2>1. TypeOK'
    BY <1>10, DisposeAssumption DEF LoopFree, GoLoop, FreeContent, TypeOK, LoopPC, AppPC,
       StrPC
  <2>2. LockInv' /\ StageInv'
    BY <1>10, <2>1 DEF LoopFree, GoLoop, FreeContent, TypeOK, LockInv, StageInv
  <2>3. CountInv'
    BY <1>10, <2>1 DEF LoopFree, GoLoop, FreeContent, TypeOK, LockInv, StageInv, CountInv,
       OwnerInv, SourceHolds, LoopHolds
  <2>4. OwnerInv'
    BY <1>10, <2>1 DEF LoopFree, GoLoop, FreeContent, TypeOK, LockInv, StageInv, CountInv,
       OwnerInv, SourceHolds, LoopHolds
  <2> QED
    BY <2>1, <2>2, <2>3, <2>4
<1> QED
  BY <1>1, <1>2, <1>3, <1>4, <1>5, <1>6, <1>7, <1>8, <1>9, <1>10 DEF LoopNext

(* A step of Dispose() and of the deletion that follows it.                *)
LEMMA DisposeKeeps ==
    ASSUME IInv, DisposeNull \/ DisposeNext
    PROVE  IInv'
<1> USE DEF IInv, content, source
<1>1. CASE DisposeNull
  <2>1. TypeOK'
    BY <1>1, DisposeAssumption DEF DisposeNull, GoApp, TypeOK, LoopPC, AppPC, StrPC
  <2>2. LockInv' /\ StageInv'
    BY <1>1, <2>1 DEF DisposeNull, GoApp, TypeOK, LockInv, StageInv
  <2>3. CountInv'
    BY <1>1, <2>1 DEF DisposeNull, GoApp, TypeOK, LockInv, StageInv, CountInv, OwnerInv,
       SourceHolds, LoopHolds
  <2>4. OwnerInv'
    BY <1>1, <2>1 DEF DisposeNull, GoApp, TypeOK, LockInv, StageInv, CountInv, OwnerInv,
       SourceHolds, LoopHolds
  <2> QED
    BY <2>1, <2>2, <2>3, <2>4
<1>2. CASE DisposeJoin
  <2>1. TypeOK'
    BY <1>2, DisposeAssumption DEF DisposeJoin, GoApp, TypeOK, LoopPC, AppPC, StrPC
  <2>2. LockInv' /\ StageInv'
    BY <1>2, <2>1 DEF DisposeJoin, GoApp, TypeOK, LockInv, StageInv
  <2>3. CountInv'
    BY <1>2, <2>1 DEF DisposeJoin, GoApp, TypeOK, LockInv, StageInv, CountInv, OwnerInv,
       SourceHolds, LoopHolds
  <2>4. OwnerInv'
    BY <1>2, <2>1 DEF DisposeJoin, GoApp, TypeOK, LockInv, StageInv, CountInv, OwnerInv,
       SourceHolds, LoopHolds
  <2> QED
    BY <2>1, <2>2, <2>3, <2>4
<1>3. CASE DisposeEnter
  <2>1. TypeOK'
    BY <1>3, DisposeAssumption DEF DisposeEnter, GoApp, TypeOK, LoopPC, AppPC, StrPC
  <2>2. LockInv' /\ StageInv'
    BY <1>3, <2>1 DEF DisposeEnter, GoApp, TypeOK, LockInv, StageInv
  <2>3. CountInv'
    BY <1>3, <2>1 DEF DisposeEnter, GoApp, TypeOK, LockInv, StageInv, CountInv, OwnerInv,
       SourceHolds, LoopHolds
  <2>4. OwnerInv'
    BY <1>3, <2>1 DEF DisposeEnter, GoApp, TypeOK, LockInv, StageInv, CountInv, OwnerInv,
       SourceHolds, LoopHolds
  <2> QED
    BY <2>1, <2>2, <2>3, <2>4
<1>4. CASE SourceDestroy
  <2>1. TypeOK'
    BY <1>4, DisposeAssumption DEF SourceDestroy, GoApp, TypeOK, LoopPC, AppPC, StrPC
  <2>2. LockInv' /\ StageInv'
    BY <1>4, <2>1 DEF SourceDestroy, GoApp, TypeOK, LockInv, StageInv
  <2>3. CountInv'
    BY <1>4, <2>1 DEF SourceDestroy, GoApp, TypeOK, LockInv, StageInv, CountInv, OwnerInv,
       SourceHolds, LoopHolds
  <2>4. OwnerInv'
    BY <1>4, <2>1 DEF SourceDestroy, GoApp, TypeOK, LockInv, StageInv, CountInv, OwnerInv,
       SourceHolds, LoopHolds
  <2> QED
    BY <2>1, <2>2, <2>3, <2>4
<1>5. CASE AppUnref
  <2>1. TypeOK'
    BY <1>5, DisposeAssumption DEF AppUnref, GoApp, ReadCount, TypeOK, LoopPC, AppPC,
       StrPC
  <2>2. LockInv' /\ StageInv'
    BY <1>5, <2>1 DEF AppUnref, GoApp, ReadCount, TypeOK, LockInv, StageInv
  <2>3. CountInv'
    BY <1>5, <2>1 DEF AppUnref, GoApp, ReadCount, TypeOK, LockInv, StageInv, CountInv,
       OwnerInv, SourceHolds, LoopHolds
  <2>4. OwnerInv'
    BY <1>5, <2>1 DEF AppUnref, GoApp, ReadCount, TypeOK, LockInv, StageInv, CountInv,
       OwnerInv, SourceHolds, LoopHolds
  <2> QED
    BY <2>1, <2>2, <2>3, <2>4
<1>6. CASE AppDrop
  <2>1. TypeOK'
    BY <1>6, DisposeAssumption DEF AppDrop, GoApp, Last, WriteCount, TypeOK, LoopPC,
       AppPC, StrPC, CountInv, StageInv, LoopHolds, SourceHolds
  <2>2. LockInv' /\ StageInv'
    BY <1>6, <2>1 DEF AppDrop, GoApp, Last, WriteCount, TypeOK, LockInv, StageInv
  <2>3. CountInv'
    BY <1>6, <2>1 DEF AppDrop, GoApp, Last, WriteCount, TypeOK, LockInv, StageInv,
       CountInv, OwnerInv, SourceHolds, LoopHolds
  <2>4. OwnerInv'
    BY <1>6, <2>1 DEF AppDrop, GoApp, Last, WriteCount, TypeOK, LockInv, StageInv,
       CountInv, OwnerInv, SourceHolds, LoopHolds
  <2> QED
    BY <2>1, <2>2, <2>3, <2>4
<1>7. CASE AppNotify
  <2>1. TypeOK'
    BY <1>7, DisposeAssumption DEF AppNotify, GoApp, DestroyNotify, TypeOK, LoopPC, AppPC,
       StrPC
  <2>2. LockInv' /\ StageInv'
    BY <1>7, <2>1 DEF AppNotify, GoApp, DestroyNotify, TypeOK, LockInv, StageInv
  <2>3. CountInv'
    BY <1>7, <2>1 DEF AppNotify, GoApp, DestroyNotify, TypeOK, LockInv, StageInv,
       CountInv, OwnerInv, SourceHolds, LoopHolds
  <2>4. OwnerInv'
    BY <1>7, <2>1 DEF AppNotify, GoApp, DestroyNotify, TypeOK, LockInv, StageInv,
       CountInv, OwnerInv, SourceHolds, LoopHolds
  <2> QED
    BY <2>1, <2>2, <2>3, <2>4
<1>8. CASE DisposeFinish
  <2>1. TypeOK'
    BY <1>8, DisposeAssumption DEF DisposeFinish, GoApp, TypeOK, LoopPC, AppPC, StrPC
  <2>2. LockInv' /\ StageInv'
    BY <1>8, <2>1 DEF DisposeFinish, GoApp, TypeOK, LockInv, StageInv
  <2>3. CountInv'
    BY <1>8, <2>1 DEF DisposeFinish, GoApp, TypeOK, LockInv, StageInv, CountInv, OwnerInv,
       SourceHolds, LoopHolds
  <2>4. OwnerInv'
    BY <1>8, <2>1 DEF DisposeFinish, GoApp, TypeOK, LockInv, StageInv, CountInv, OwnerInv,
       SourceHolds, LoopHolds
  <2> QED
    BY <2>1, <2>2, <2>3, <2>4
<1>9. CASE AppFree
  <2>1. TypeOK'
    BY <1>9, DisposeAssumption DEF AppFree, GoApp, FreeContent, TypeOK, LoopPC, AppPC,
       StrPC
  <2>2. LockInv' /\ StageInv'
    BY <1>9, <2>1 DEF AppFree, GoApp, FreeContent, TypeOK, LockInv, StageInv
  <2>3. CountInv'
    BY <1>9, <2>1 DEF AppFree, GoApp, FreeContent, TypeOK, LockInv, StageInv, CountInv,
       OwnerInv, SourceHolds, LoopHolds
  <2>4. OwnerInv'
    BY <1>9, <2>1 DEF AppFree, GoApp, FreeContent, TypeOK, LockInv, StageInv, CountInv,
       OwnerInv, SourceHolds, LoopHolds, LoopPC
  <2> QED
    BY <2>1, <2>2, <2>3, <2>4
<1>10. CASE Delete
  <2>1. TypeOK'
    BY <1>10, DisposeAssumption DEF Delete, GoApp, TypeOK, LoopPC, AppPC, StrPC
  <2>2. LockInv' /\ StageInv'
    BY <1>10, <2>1 DEF Delete, GoApp, TypeOK, LockInv, StageInv
  <2>3. CountInv'
    BY <1>10, <2>1 DEF Delete, GoApp, TypeOK, LockInv, StageInv, CountInv, OwnerInv,
       SourceHolds, LoopHolds
  <2>4. OwnerInv'
    BY <1>10, <2>1 DEF Delete, GoApp, TypeOK, LockInv, StageInv, CountInv, OwnerInv,
       SourceHolds, LoopHolds
  <2> QED
    BY <2>1, <2>2, <2>3, <2>4
<1> QED
  BY <1>1, <1>2, <1>3, <1>4, <1>5, <1>6, <1>7, <1>8, <1>9, <1>10 DEF DisposeNext

(* The invariant holds of every behaviour.                                 *)
LEMMA Inductive == Spec => []IInv
<1>1. Init => IInv
  <2> SUFFICES ASSUME Init PROVE IInv
    OBVIOUS
  <2>1. TypeOK
    <3>1. pc \in [app: AppPC, loop: LoopPC, str: StrPC]
      BY DEF Init, LoopPC, AppPC, StrPC
    <3>2. bus \in 0 .. MaxMessages /\ refs \in 0 .. 2 /\ reg \in [{"app", "loop"} -> 0 .. 2]
      BY DisposeAssumption DEF Init
    <3> QED
      BY <3>1, <3>2 DEF Init, TypeOK
  <2>2. LockInv /\ StageInv
    BY DEF Init, LockInv, StageInv
  <2>3. CountInv /\ OwnerInv
    BY DEF Init, CountInv, OwnerInv, SourceHolds, LoopHolds
  <2> QED
    BY <2>1, <2>2, <2>3 DEF IInv
<1>2. IInv /\ [Next]_vars => IInv'
  <2>1. CASE UNCHANGED vars
    BY <2>1 DEF vars, IInv, TypeOK, LockInv, StageInv, CountInv, OwnerInv, SourceHolds,
       LoopHolds
  <2>2. CASE Next
    BY <2>2, StreamKeeps, LoopKeeps, DisposeKeeps DEF Next
  <2> QED
    BY <2>1, <2>2
<1> QED
  BY <1>1, <1>2, PTL DEF Spec

(* The variables keep their types, and the count stays within the two      *)
(* references there can be although its updates are not atomic             *)
(* (g_source_callback_ref and g_source_callback_unref).                    *)
THEOREM TypeCorrect == Spec => []TypeOK
<1>1. IInv => TypeOK
  BY DEF IInv
<1> QED
  BY <1>1, Inductive, PTL

(* Neither the callback, nor the pad-added handlers, nor Dispose() touch   *)
(* the shared block, its lock or the pipeline after they are freed, and    *)
(* BusCallbackDestroyNotify and Dispose() never both free the block, for   *)
(* any number of messages and any interleaving of the unrefs.              *)
THEOREM DisposeSafe == Spec => []NoUseAfterFree
<1>1. IInv => NoUseAfterFree
  BY DEF IInv, NoUseAfterFree, TypeOK, LockInv, StageInv, OwnerInv, SourceHolds,
     LoopHolds, LoopPC, AppPC, StrPC
<1> QED
  BY <1>1, Inductive, PTL
=============================================================================
