-------------------------- MODULE PipelineDispose --------------------------
(***************************************************************************)
(* The end of a CGstAudioPlaybackPipeline: who frees the block             *)
(* (sBusCallbackContent) that Dispose() and the bus callback share.        *)
(*                                                                         *)
(* Three threads.  "app" deletes the CMedia, which disposes of the         *)
(* pipeline and deletes it.  "loop" is GLib's main loop, which dispatches  *)
(* the bus source (BusCallback).  "str" is a streaming thread: it posts    *)
(* messages and calls the pad-added handlers.                              *)
(*                                                                         *)
(* GLib keeps the callback's data behind a reference count: one reference  *)
(* of the source and one of each dispatch.  Who drops the last one runs    *)
(* BusCallbackDestroyNotify, which either frees the block or leaves that   *)
(* to Dispose().  g_source_callback_unref is neither atomic nor under the  *)
(* context's lock: it reads the count, and then writes it and tests what   *)
(* it wrote.                                                               *)
(***************************************************************************)
EXTENDS Naturals

CONSTANT MaxMessages    \* bound on the messages in the bus

ASSUME DisposeAssumption == MaxMessages \in Nat \ {0}

VARIABLES
    lock,      \* m_DisposeLock: the thread that holds it, or "none"
    disposed,  \* m_bIsDisposed
    freeMe,    \* m_bFreeMe
    block,     \* the sBusCallbackContent is allocated
    pipeline,  \* the pipeline object is allocated
    destroyed, \* the bus source is destroyed
    refs,      \* the reference count of the source's callback
    reg,       \* the count as each thread has read it
    bus,       \* how many messages the bus has
    ending,    \* somebody has asked the pipeline to go to NULL
    pc         \* where each thread is

vars == <<lock, disposed, freeMe, block, pipeline, destroyed, refs, reg, bus, ending, pc>>
content == <<disposed, freeMe, block>>
source == <<destroyed, refs, reg>>

LoopPC == {"poll", "pop", "enter", "handle", "null", "unref", "drop", "notify", "free"}
AppPC == {"idle", "join", "enter", "destroy", "unref", "drop", "notify", "finish", "free",
          "delete", "done"}
StrPC == {"run", "pad", "added", "gone"}

(* Every variable has its type; the count never exceeds the references     *)
(* that the source and one dispatch hold.                                  *)
TypeOK ==
    /\ lock \in {"none", "app", "loop", "str"}
    /\ disposed \in BOOLEAN /\ freeMe \in BOOLEAN /\ block \in BOOLEAN
    /\ pipeline \in BOOLEAN /\ destroyed \in BOOLEAN /\ ending \in BOOLEAN
    /\ refs \in 0 .. 2 /\ reg \in [{"app", "loop"} -> 0 .. 2]
    /\ bus \in 0 .. MaxMessages
    /\ pc \in [app: AppPC, loop: LoopPC, str: StrPC]

(* Init() of the pipeline has attached the source.                         *)
Init ==
    /\ lock = "none" /\ disposed = FALSE /\ freeMe = FALSE /\ block = TRUE
    /\ pipeline = TRUE /\ destroyed = FALSE /\ refs = 1 /\ reg = [t \in {"app", "loop"} |-> 0]
    /\ bus = 0 /\ ending = FALSE
    /\ pc = [app |-> "idle", loop |-> "poll", str |-> "run"]

GoApp(l) == pc' = [pc EXCEPT !.app = l]
GoLoop(l) == pc' = [pc EXCEPT !.loop = l]
GoStr(l) == pc' = [pc EXCEPT !.str = l]

(***************************************************************************)
(* The streaming thread.  Going to NULL ends it once it is back from the   *)
(* handlers it calls.                                                      *)
(***************************************************************************)
Post ==
    /\ pc.str = "run" /\ bus < MaxMessages
    /\ bus' = bus + 1
    /\ UNCHANGED <<lock, content, pipeline, source, ending, pc>>

PadAdded ==
    /\ pc.str = "run"
    /\ GoStr("pad")
    /\ UNCHANGED <<lock, content, pipeline, source, bus, ending>>

PadAddedEnter ==
    /\ pc.str = "pad" /\ lock = "none"
    /\ lock' = IF disposed THEN "none" ELSE "str"
    /\ GoStr(IF disposed THEN "run" ELSE "added")
    /\ UNCHANGED <<content, pipeline, source, bus, ending>>

PadAddedExit ==
    /\ pc.str = "added"
    /\ lock' = "none" /\ GoStr("run")
    /\ UNCHANGED <<content, pipeline, source, bus, ending>>

StreamEnds ==
    /\ pc.str = "run" /\ ending
    /\ GoStr("gone")
    /\ UNCHANGED <<lock, content, pipeline, source, bus, ending>>

(***************************************************************************)
(* g_source_callback_unref, by the loop after a dispatch and by            *)
(* g_source_destroy.                                                       *)
(***************************************************************************)
ReadCount(t) ==
    /\ reg' = [reg EXCEPT ![t] = refs]
    /\ UNCHANGED <<lock, content, pipeline, destroyed, refs, bus, ending>>

Last(t) == reg[t] = 1

WriteCount(t) ==
    /\ refs' = reg[t] - 1
    /\ UNCHANGED <<lock, content, pipeline, destroyed, reg, bus, ending>>

(* Mutant: Dispose() is not asked to free the block. *)
DestroyNotifyNobody(t) ==
    /\ lock \in {"none", t}
    /\ UNCHANGED <<lock, content, pipeline, source, bus, ending>>

(* Mutant: the lock is not recursive. *)
DestroyNotifyNonRecursive(t) ==
    /\ lock = "none"
    /\ freeMe' = (freeMe \/ ~disposed)
    /\ UNCHANGED <<lock, disposed, block, pipeline, source, bus, ending>>

(* BusCallbackDestroyNotify: free the block, or leave that to Dispose().   *)
(* The lock is recursive.                                                  *)
DestroyNotify(t) ==
    /\ lock \in {"none", t}
    /\ freeMe' = (freeMe \/ ~disposed)
    /\ UNCHANGED <<lock, disposed, block, pipeline, source, bus, ending>>

FreeContent ==
    /\ block' = FALSE
    /\ UNCHANGED <<lock, disposed, freeMe, pipeline, source, bus, ending>>

(***************************************************************************)
(* The main loop.  g_main_dispatch takes a reference while it has the      *)
(* context's lock and finds the source not destroyed.                      *)
(***************************************************************************)
LoopDispatch ==
    /\ pc.loop = "poll" /\ ~destroyed /\ bus > 0
    /\ refs' = refs + 1
    /\ GoLoop("pop")
    /\ UNCHANGED <<lock, content, pipeline, destroyed, reg, bus, ending>>

(* gst_bus_source_dispatch: a pipeline that reached NULL meanwhile has     *)
(* flushed its bus, and then the callback is not called.                   *)
LoopPop ==
    /\ pc.loop = "pop"
    /\ \/ bus > 0 /\ bus' = bus - 1 /\ GoLoop("enter")
       \/ bus = 0 /\ GoLoop("unref") /\ UNCHANGED bus
    /\ UNCHANGED <<lock, content, pipeline, source, ending>>

(* Mutant: the callback does not look whether the pipeline is disposed. *)
LoopEnterAnyway ==
    /\ pc.loop = "enter" /\ lock = "none"
    /\ lock' = "loop" /\ GoLoop("handle")
    /\ UNCHANGED <<content, pipeline, source, bus, ending>>

(* BusCallback takes the lock and goes no further when the pipeline is     *)
(* disposed.  The FALSE it returns then asks for the source to be          *)
(* destroyed, which Dispose() has already done.                            *)
LoopEnter ==
    /\ pc.loop = "enter" /\ lock = "none"
    /\ lock' = IF disposed THEN "none" ELSE "loop"
    /\ GoLoop(IF disposed THEN "unref" ELSE "handle")
    /\ UNCHANGED <<content, pipeline, source, bus, ending>>

(* Mutant: the dispatch keeps its reference. *)
LoopHandledReferenced ==
    /\ pc.loop = "handle"
    /\ lock' = "none"
    /\ GoLoop("poll")
    /\ UNCHANGED <<content, pipeline, source, bus, ending>>

LoopHandled ==
    /\ pc.loop = "handle"
    /\ lock' = "none"
    /\ GoLoop("unref")
    /\ UNCHANGED <<content, pipeline, source, bus, ending>>

(* An ERROR message: the callback sets the pipeline's state to NULL with   *)
(* the lock held.                                                          *)
LoopError ==
    /\ pc.loop = "handle"
    /\ ending' = TRUE
    /\ GoLoop("null")
    /\ UNCHANGED <<lock, content, pipeline, source, bus>>

LoopErrorDone ==
    /\ pc.loop = "null" /\ pc.str = "gone"
    /\ lock' = "none" /\ bus' = 0
    /\ GoLoop("unref")
    /\ UNCHANGED <<content, pipeline, source, ending>>

LoopUnref == pc.loop = "unref" /\ GoLoop("drop") /\ ReadCount("loop")
LoopDrop == pc.loop = "drop" /\ GoLoop(IF Last("loop") THEN "notify" ELSE "poll") /\ WriteCount("loop")
LoopNotify == pc.loop = "notify" /\ GoLoop(IF disposed THEN "free" ELSE "poll") /\ DestroyNotify("loop")
LoopFree == pc.loop = "free" /\ GoLoop("poll") /\ FreeContent

(***************************************************************************)
(* The application deletes the CMedia: Dispose(), and then the pipeline.   *)
(***************************************************************************)
DisposeNull ==
    /\ pc.app = "idle"
    /\ ending' = TRUE
    /\ GoApp("join")
    /\ UNCHANGED <<lock, content, pipeline, source, bus>>

(* Going to NULL waits for the streaming threads and flushes the bus.      *)
DisposeJoin ==
    /\ pc.app = "join" /\ pc.str = "gone"
    /\ bus' = 0
    /\ GoApp("enter")
    /\ UNCHANGED <<lock, content, pipeline, source, ending>>

(* Nobody disposes twice, so the early return for m_bIsDisposed is not     *)
(* reached.                                                                *)
DisposeEnter ==
    /\ pc.app = "enter" /\ lock = "none"
    /\ lock' = "app"
    /\ GoApp("destroy")
    /\ UNCHANGED <<content, pipeline, source, bus, ending>>

(* g_source_destroy takes the callback off the source under the context's  *)
(* lock and drops its reference after that.                                *)
SourceDestroy ==
    /\ pc.app = "destroy"
    /\ destroyed' = TRUE
    /\ GoApp("unref")
    /\ UNCHANGED <<lock, content, pipeline, refs, reg, bus, ending>>

AppUnref == pc.app = "unref" /\ GoApp("drop") /\ ReadCount("app")
AppDrop == pc.app = "drop" /\ GoApp(IF Last("app") THEN "notify" ELSE "finish") /\ WriteCount("app")
AppNotify == pc.app = "notify" /\ GoApp("finish") /\ DestroyNotify("app")

DisposeFinish ==
    /\ pc.app = "finish"
    /\ disposed' = TRUE /\ lock' = "none"
    /\ GoApp(IF freeMe THEN "free" ELSE "delete")
    /\ UNCHANGED <<freeMe, block, pipeline, source, bus, ending>>

AppFree == pc.app = "free" /\ GoApp("delete") /\ FreeContent

Delete ==
    /\ pc.app = "delete"
    /\ pipeline' = FALSE
    /\ GoApp("done")
    /\ UNCHANGED <<lock, content, source, bus, ending>>

StrNext == Post \/ PadAdded \/ PadAddedEnter \/ PadAddedExit \/ StreamEnds

LoopNext ==
    \/ LoopDispatch \/ LoopPop \/ LoopEnter \/ LoopHandled \/ LoopError \/ LoopErrorDone
    \/ LoopUnref \/ LoopDrop \/ LoopNotify \/ LoopFree

DisposeNext ==
    \/ DisposeJoin \/ DisposeEnter \/ SourceDestroy \/ AppUnref \/ AppDrop \/ AppNotify
    \/ DisposeFinish \/ AppFree \/ Delete

Next == StrNext \/ LoopNext \/ DisposeNull \/ DisposeNext

(* A thread that can go on does; the streaming thread ends once it is told *)
(* to, however often it could post; a lock that is freed again and again   *)
(* is got in the end.  Nothing makes the application dispose.              *)
Fairness ==
    /\ WF_vars(PadAddedExit) /\ SF_vars(PadAddedEnter) /\ SF_vars(StreamEnds)
    /\ SF_vars(LoopNext) /\ SF_vars(DisposeNext)

Spec == Init /\ [][Next]_vars /\ Fairness

(***************************************************************************)
(* Properties                                                              *)
(***************************************************************************)
(* Nobody touches what is freed, and nobody frees twice: a thread that is  *)
(* about to use the block, its lock or its pipeline finds them allocated,  *)
(* whichever of Dispose() and BusCallbackDestroyNotify frees the block.    *)
NoUseAfterFree ==
    /\ pc.loop \in {"enter", "handle", "null", "notify", "free"} => block
    /\ pc.loop \in {"handle", "null"} => pipeline
    /\ pc.app \in {"enter", "destroy", "unref", "drop", "notify", "finish", "free"} => block
    /\ pc.str \in {"pad", "added"} => block /\ pipeline
    /\ ~(pc.app = "free" /\ pc.loop = "free")

(* The callback of an ERROR waits, with the lock, for a streaming thread   *)
(* that waits for the lock in a pad-added handler.                         *)
ErrorDeadlock == pc.loop = "null" /\ pc.str = "pad"

(* Dispose() returns and the pipeline is deleted, unless an ERROR met a    *)
(* pad-added handler.                                                      *)
DisposeReturns == (pc.app = "join") ~> (pc.app = "done" \/ ErrorDeadlock)

(* Both unrefs read the count before either wrote it.                      *)
LostDecrement == destroyed /\ refs = 1 /\ pc.app = "done" /\ pc.loop = "poll"

(* Once the pipeline is gone the block is freed, by whoever is last,       *)
(* unless the two unrefs of the callback lost a decrement between them.    *)
ContentFreed == (pc.app = "done") ~> (~block \/ LostDecrement)
=============================================================================
