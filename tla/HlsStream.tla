----------------------------- MODULE HlsStream -----------------------------
(***************************************************************************)
(* HTTP live streaming in the media pipeline: the Java connection that     *)
(* loads the segments of a playlist (HLSConnectionHolder, video on demand),*)
(* the javasource element that reads it (javasource.c, MODE_HLS), and the  *)
(* hlsprogressbuffer element that keeps up to NumCached segments in files  *)
(* (hlsprogressbuffer.c).                                                  *)
(*                                                                         *)
(* Three threads.  "src" is the task of javasource's pad: it runs          *)
(* java_source_loop and, inside it, the chain and event functions of the   *)
(* buffer.  "buf" is the task of the buffer's source pad: it runs          *)
(* hls_progress_buffer_loop and pushes downstream.  "ctl" is the           *)
(* application's thread: it seeks, and takes the pipeline down.  A task    *)
(* holds the stream lock of its pad until it is parked, so a thread that   *)
(* needs the lock waits for the task to park.                              *)
(*                                                                         *)
(* A region between g_mutex_lock and g_mutex_unlock is one step; what the  *)
(* code reads or writes outside the mutex is a step of its own.  Data is   *)
(* numbered: segment s holds the units (s-1)*SegSize+1 .. s*SegSize.       *)
(***************************************************************************)
EXTENDS Integers, FileCache

CONSTANTS
    NumCached,   \* NUM_OF_CACHED_SEGMENTS
    NumSegments, \* media files in the playlist
    SegSize,     \* units in a segment
    Targets,     \* segments that are sought; 0 is a position that the
                 \* playlist does not have
    Budgets      \* bounds on the environment: how often the application
                 \* seeks, the connection fails, the pipeline stops

ASSUME HlsAssumption ==
    /\ NumCached \in Nat \ {0} /\ NumSegments \in Nat \ {0} /\ SegSize \in Nat \ {0}
    /\ Targets \subseteq 0 .. NumSegments
    /\ Budgets \subseteq [seeks: Nat, faults: Nat, stops: Nat]

Slot == 0 .. NumCached - 1
Segment == 1 .. NumSegments
Total == NumSegments * SegSize
Flow == {"ok", "wrong", "unexpected"}       \* GstFlowReturn

VARIABLES
    java,    \* the connection: [file: last media file loaded, rest: units unread]
    js,      \* JavaSource: [result: srcresult, pending: pending_event]
    hb,      \* HLSProgressBuffer: result, flushing, eos, newseg, wi, ri
    cache,   \* cache[NUM_OF_CACHED_SEGMENTS]
    size,    \* cache_size
    ready,   \* cache_write_ready
    pad,     \* FLUSHING flags: [sink: the buffer's sink pad, down: downstream]
    task,    \* GstTaskState of the two pad tasks
    pc,      \* where each thread is
    loc,     \* locals: the src result and block, the buf result and buffer
    out,     \* what downstream got since the last flush: [data, eos, from]
    env,     \* what the environment may still do
    flushed, \* history: a seek or a stop has begun
    stray    \* chain has indexed the cache array outside its bounds

vars == <<java, js, hb, cache, size, ready, pad, task, pc, loc, out, env, flushed, stray>>
buffer == <<hb, cache, size, ready>>

SrcPC == {"top", "size", "nseg", "accept", "restart", "take", "full", "waitdel",
          "woken", "read", "chain", "write", "eosev", "fin", "parked", "gone"}
BufPC == {"top", "loop", "waitadd", "push", "after", "chk", "parked", "gone"}
CtlPC == {"idle", "s_flag", "s_down", "s_data", "s_pause", "s_wait", "s_wrong",
          "s_lock", "s_stop", "t_data", "t_src", "t_join", "t_sink", "t_drain",
          "t_end", "t_gone", "closed"}

TypeOK ==
    /\ java \in [file: 0 .. NumSegments + 1, rest: 0 .. SegSize]
    /\ js \in [result: Flow, pending: {"newsegment", "unknown", "eos"}]
    /\ hb \in [result: Flow, flushing: BOOLEAN, eos: BOOLEAN, newseg: BOOLEAN,
               wi: Slot \cup {-1}, ri: Slot]
    /\ \A i \in Slot : /\ cache[i].rd \in 0 .. cache[i].wr
                       /\ cache[i].wr \in 0 .. Len(cache[i].file)
                       /\ cache[i].file \in Seq(1 .. Total)
    /\ size \in [Slot -> 0 .. SegSize] /\ ready \in [Slot -> BOOLEAN]
    /\ pad \in [sink: BOOLEAN, down: BOOLEAN]
    /\ task \in [{"src", "buf"} -> {"started", "paused", "stopped"}]
    /\ pc \in [src: SrcPC, buf: BufPC, ctl: CtlPC]
    /\ loc.src \in Flow /\ loc.buf \in Flow /\ loc.unit \in 0 .. Total
    /\ loc.buffer \in Seq(1 .. Total) /\ loc.target \in 0 .. NumSegments
    /\ out.data \in Seq(1 .. Total) /\ out.eos \in BOOLEAN /\ out.from \in 0 .. Total
    /\ env \in [seeks: Nat, faults: Nat, stops: Nat]
    /\ flushed \in BOOLEAN /\ stray \in BOOLEAN

(***************************************************************************)
(* READY to PAUSED is done: both pads are active and their tasks started.  *)
(* The environment's budget is chosen here, so that one run has behaviours *)
(* with and without seeks, faults and a stop.                              *)
(***************************************************************************)
Init ==
    /\ java = [file |-> 0, rest |-> 0]
    /\ js = [result |-> "ok", pending |-> "newsegment"]
    /\ hb = [result |-> "ok", flushing |-> FALSE, eos |-> FALSE, newseg |-> TRUE,
             wi |-> -1, ri |-> 0]
    /\ cache = [i \in Slot |-> create_cache]
    /\ size = [i \in Slot |-> 0]
    /\ ready = [i \in Slot |-> TRUE]
    /\ pad = [sink |-> FALSE, down |-> FALSE]
    /\ task = [t \in {"src", "buf"} |-> "started"]
    /\ pc = [src |-> "top", buf |-> "top", ctl |-> "idle"]
    /\ loc = [src |-> "ok", unit |-> 0, buf |-> "ok", buffer |-> <<>>, target |-> 0]
    /\ out = [data |-> <<>>, eos |-> FALSE, from |-> 1]
    /\ env \in Budgets
    /\ flushed = FALSE
    /\ stray = FALSE

GoSrc(l) == pc' = [pc EXCEPT !.src = l]
GoBuf(l) == pc' = [pc EXCEPT !.buf = l]
GoCtl(l) == pc' = [pc EXCEPT !.ctl = l]

(* Mutant: the thread that waits for data is not told. *)
signal_addNone(p) == p

(* g_cond_signal wakes the thread that waits, if it waits; it is not kept  *)
(* for one that will wait later                                            *)
signal_del(p) == IF p.src = "waitdel" THEN [p EXCEPT !.src = "woken"] ELSE p
signal_add(p) == IF p.buf = "waitadd" THEN [p EXCEPT !.buf = "loop"] ELSE p

(* gst_pad_start_task, gst_pad_pause_task, gst_pad_stop_task: a stopped    *)
(* pad has no task any more                                                *)
set_task(ts, s) == [t \in {"src", "buf"} |->
                      IF t \in ts /\ task[t] # "stopped" THEN s ELSE task[t]]

(***************************************************************************)
(* The thread of javasource.  The task function looks at the task's state  *)
(* before each call of java_source_loop and parks when it is paused.       *)
(***************************************************************************)
SrcTop ==
    /\ pc.src = "top"
    /\ \/ task["src"] = "paused" /\ GoSrc("parked") /\ UNCHANGED loc
       \/ task["src"] = "stopped" /\ GoSrc("gone") /\ UNCHANGED loc
       \/ /\ task["src"] = "started" /\ js.result # "ok"
          /\ loc' = [loc EXCEPT !.src = js.result] /\ GoSrc("fin")
       \/ /\ task["src"] = "started" /\ js.result = "ok"
          /\ loc' = [loc EXCEPT !.src = "ok"]
          /\ GoSrc(CASE js.pending = "newsegment" -> "size"
                     [] js.pending = "eos" -> "eosev"
                     [] js.pending = "unknown" -> "read")
    /\ UNCHANGED <<java, js, buffer, pad, task, out, env, flushed, stray>>

(* The task waits for its state to change and takes the stream lock again  *)
(* before it goes on.                                                      *)
SrcUnpark ==
    /\ pc.src = "parked" /\ task["src"] # "paused" /\ pc.ctl # "s_stop"
    /\ GoSrc(IF task["src"] = "stopped" THEN "gone" ELSE "top")
    /\ UNCHANGED <<java, js, buffer, pad, task, loc, out, env, flushed, stray>>

(* get-stream-size: the next segment of the playlist, or the end of it     *)
SrcSize ==
    /\ pc.src = "size"
    /\ LET f == java.file + 1 IN
       /\ java' = IF f <= NumSegments THEN [file |-> f, rest |-> SegSize]
                  ELSE [java EXCEPT !.file = NumSegments + 1, !.rest = 0]
       /\ \/ js.result = "wrong" /\ GoSrc("fin") /\ UNCHANGED js
          \/ js.result # "wrong" /\ f <= NumSegments /\ GoSrc("nseg") /\ UNCHANGED js
          \/ /\ js.result # "wrong" /\ f > NumSegments
             /\ js' = [js EXCEPT !.pending = "eos"] /\ GoSrc("eosev")
    /\ UNCHANGED <<buffer, pad, task, loc, out, env, flushed, stray>>

(* gst_pad_push_event: a flushing sink pad refuses the event               *)
SrcNewSegment ==
    /\ pc.src = "nseg"
    /\ \/ /\ pad.sink
          /\ js' = [js EXCEPT !.pending = "unknown"]
          /\ loc' = [loc EXCEPT !.src = "wrong"] /\ GoSrc("fin")
       \/ ~pad.sink /\ GoSrc("accept") /\ UNCHANGED <<js, loc>>
    /\ UNCHANGED <<java, buffer, pad, task, out, env, flushed, stray>>

(* Mutant: the test of the buffer's result is the wrong way round. *)
SrcAcceptInverted ==
    /\ pc.src = "accept"
    /\ \/ /\ hb.result = "ok"
          /\ js' = [js EXCEPT !.pending = "unknown"] /\ GoSrc("fin")
       \/ hb.result # "ok" /\ GoSrc("restart") /\ UNCHANGED js
    /\ UNCHANGED <<java, buffer, pad, task, loc, out, env, flushed, stray>>

(* hls_progress_buffer_sink_event, NEWSEGMENT: dropped when the buffer     *)
(* does not stream                                                         *)
SrcAccept ==
    /\ pc.src = "accept"
    /\ \/ /\ hb.result # "ok"
          /\ js' = [js EXCEPT !.pending = "unknown"] /\ GoSrc("fin")
       \/ hb.result = "ok" /\ GoSrc("restart") /\ UNCHANGED js
    /\ UNCHANGED <<java, buffer, pad, task, loc, out, env, flushed, stray>>

(* ... outside the mutex: a segment after the end of stream starts the     *)
(* buffer's task again, and the first segment after a flush is announced   *)
SrcRestart ==
    /\ pc.src = "restart"
    /\ hb' = [hb EXCEPT !.eos = FALSE, !.result = IF hb.eos THEN "ok" ELSE @, !.newseg = FALSE]
    /\ task' = IF hb.eos THEN set_task({"buf"}, "started") ELSE task
    /\ loc' = [loc EXCEPT !.src = IF hb.newseg /\ pad.down THEN "wrong" ELSE "ok"]
    /\ GoSrc("take")
    /\ UNCHANGED <<java, js, cache, size, ready, pad, out, env, flushed, stray>>

(* the slot is emptied and sized for the segment; the event is handled     *)
Prepare(i) ==
    /\ size' = [size EXCEPT ![i] = SegSize]
    /\ ready' = [ready EXCEPT ![i] = FALSE]
    /\ cache' = [cache EXCEPT ![i] =
                    cache_set_read_position(cache_set_write_position(@, 0), 0)]
    /\ js' = [js EXCEPT !.pending = "unknown"]
    /\ GoSrc("fin")

(* ... the next slot is taken; while it is not ready the thread leaves the *)
(* mutex to post the FULL message and then waits on del_cond               *)
SrcTake ==
    /\ pc.src = "take"
    /\ LET w == (hb.wi + 1) % NumCached IN
       /\ hb' = [hb EXCEPT !.wi = w]
       /\ \/ hb.result = "ok" /\ ~ready[w] /\ GoSrc("full") /\ UNCHANGED <<js, cache, size, ready>>
          \/ (hb.result # "ok" \/ ready[w]) /\ Prepare(w)
    /\ UNCHANGED <<java, pad, task, loc, out, env, flushed, stray>>

SrcFull ==
    /\ pc.src = "full"
    /\ GoSrc("waitdel")
    /\ UNCHANGED <<java, js, buffer, pad, task, loc, out, env, flushed, stray>>

SrcWoken ==
    /\ pc.src = "woken"
    /\ \/ /\ hb.result # "ok"
          /\ js' = [js EXCEPT !.pending = "unknown"]
          /\ loc' = [loc EXCEPT !.src = "ok"] /\ GoSrc("fin")
          /\ UNCHANGED <<cache, size, ready>>
       \/ /\ hb.result = "ok" /\ ~ready[hb.wi]
          /\ GoSrc("full") /\ UNCHANGED <<js, loc, cache, size, ready>>
       \/ hb.result = "ok" /\ ready[hb.wi] /\ Prepare(hb.wi) /\ UNCHANGED loc
    /\ UNCHANGED <<java, hb, pad, task, out, env, flushed, stray>>

(* read-next-block: a block, or the end of the segment.  No buffer can be  *)
(* allocated on a flushing pad, and the block is dropped.                  *)
SrcRead ==
    /\ pc.src = "read"
    /\ \/ /\ java.rest > 0
          /\ java' = [java EXCEPT !.rest = @ - 1]
          /\ loc' = [loc EXCEPT !.unit = java.file * SegSize - java.rest + 1]
          /\ GoSrc(IF pad.sink THEN "fin" ELSE "chain") /\ UNCHANGED js
       \/ /\ java.rest = 0
          /\ js' = [js EXCEPT !.pending = "newsegment"] /\ GoSrc("size")
          /\ UNCHANGED <<java, loc>>
    /\ UNCHANGED <<buffer, pad, task, out, env, flushed, stray>>

(* the connection fails: OTHER_ERROR_CODE                                  *)
SrcReadError ==
    /\ pc.src = "read" /\ env.faults > 0
    /\ env' = [env EXCEPT !.faults = @ - 1]
    /\ loc' = [loc EXCEPT !.src = "wrong"] /\ GoSrc("fin")
    /\ UNCHANGED <<java, js, buffer, pad, task, out, flushed, stray>>

(* hls_progress_buffer_chain: the flags are read before the mutex is taken *)
SrcChain ==
    /\ pc.src = "chain"
    /\ \/ /\ pad.sink \/ hb.flushing \/ hb.eos
          /\ loc' = [loc EXCEPT !.src = "wrong"] /\ GoSrc("fin")
       \/ ~(pad.sink \/ hb.flushing \/ hb.eos) /\ GoSrc("write") /\ UNCHANGED loc
    /\ UNCHANGED <<java, js, buffer, pad, task, out, env, flushed, stray>>

(* With no slot taken the array is indexed with -1, and what follows is    *)
(* undefined: the model stops there.                                       *)
SrcWrite ==
    /\ pc.src = "write"
    /\ \/ /\ hb.wi \in Slot
          /\ cache' = [cache EXCEPT ![hb.wi] = cache_write_buffer(@, <<loc.unit>>)]
          /\ pc' = signal_add([pc EXCEPT !.src = "fin"]) /\ UNCHANGED stray
       \/ hb.wi \notin Slot /\ stray' = TRUE /\ UNCHANGED <<cache, pc>>
    /\ UNCHANGED <<java, js, hb, size, ready, pad, task, loc, out, env, flushed>>

(* the EOS event, and the source's own end of stream                       *)
SrcEos ==
    /\ pc.src = "eosev"
    /\ loc' = [loc EXCEPT !.src = "unexpected"]
    /\ \/ pad.sink /\ GoSrc("fin") /\ UNCHANGED hb
       \/ ~pad.sink /\ hb' = [hb EXCEPT !.eos = TRUE] /\ pc' = signal_add([pc EXCEPT !.src = "fin"])
    /\ UNCHANGED <<java, js, cache, size, ready, pad, task, out, env, flushed, stray>>

(* the end of java_source_loop: the results are merged, and the task       *)
(* pauses unless both are ok                                               *)
SrcFin ==
    /\ pc.src = "fin"
    /\ LET r == IF js.result = "ok" \/ loc.src # "ok" THEN loc.src ELSE js.result IN
       /\ js' = [js EXCEPT !.result = r]
       /\ task' = IF r # "ok" THEN set_task({"src"}, "paused") ELSE task
    /\ GoSrc("top")
    /\ UNCHANGED <<java, buffer, pad, loc, out, env, flushed, stray>>

(***************************************************************************)
(* The thread of the buffer's source pad.                                  *)
(***************************************************************************)
BufTop ==
    /\ pc.buf \in {"top", "parked"}
    /\ GoBuf(CASE task["buf"] = "started" -> "loop"
               [] task["buf"] = "paused" -> "parked"
               [] task["buf"] = "stopped" -> "gone")
    /\ pc'.buf # pc.buf
    /\ UNCHANGED <<java, js, buffer, pad, task, loc, out, env, flushed, stray>>

(* Mutant: a slot is given back when all that was written is read. *)
ReadToEndOfData(i, c) == c.rd = c.wr

(* the segment in slot i, whose cache is c now, is read to its end         *)
ReadToEnd(i, c) == c.rd = size[i]

(* hls_progress_buffer_loop, its mutex region: a buffer is read from the   *)
(* slot; a slot read to its end is given back and NOT FULL posted          *)
BufRead ==
    /\ pc.buf = "loop" /\ hb.result = "ok" /\ cache_has_enough_data(cache[hb.ri])
    /\ LET c == cache_read_buffer(cache[hb.ri]) IN
       /\ loc' = [loc EXCEPT !.buffer = cache_read_data(cache[hb.ri])]
       /\ cache' = [cache EXCEPT ![hb.ri] = c]
       /\ \/ /\ ReadToEnd(hb.ri, c)
             /\ ready' = [ready EXCEPT ![hb.ri] = TRUE]
             /\ hb' = [hb EXCEPT !.ri = (@ + 1) % NumCached]
             /\ pc' = signal_del([pc EXCEPT !.buf = "push"])
          \/ ~ReadToEnd(hb.ri, c) /\ GoBuf("push") /\ UNCHANGED <<ready, hb>>
    /\ UNCHANGED <<java, js, size, pad, task, out, env, flushed, stray>>

(* ... no data: the end of the stream, or a wait on add_cond               *)
BufEos ==
    /\ pc.buf = "loop" /\ hb.result = "ok" /\ ~cache_has_enough_data(cache[hb.ri]) /\ hb.eos
    /\ out' = [out EXCEPT !.eos = ~pad.down]
    /\ hb' = [hb EXCEPT !.result = "wrong"]
    /\ loc' = [loc EXCEPT !.buf = "wrong"]
    /\ GoBuf("chk")
    /\ UNCHANGED <<java, js, cache, size, ready, pad, task, env, flushed, stray>>

BufWait ==
    /\ pc.buf = "loop" /\ hb.result = "ok" /\ ~cache_has_enough_data(cache[hb.ri]) /\ ~hb.eos
    /\ GoBuf("waitadd")
    /\ UNCHANGED <<java, js, buffer, pad, task, loc, out, env, flushed, stray>>

BufNotOk ==
    /\ pc.buf = "loop" /\ hb.result # "ok"
    /\ loc' = [loc EXCEPT !.buf = hb.result]
    /\ GoBuf("chk")
    /\ UNCHANGED <<java, js, buffer, pad, task, out, env, flushed, stray>>

(* gst_pad_push, outside the mutex                                         *)
BufPush ==
    /\ pc.buf = "push"
    /\ loc' = [loc EXCEPT !.buf = IF pad.down THEN "wrong" ELSE "ok", !.buffer = <<>>]
    /\ out' = IF pad.down THEN out ELSE [out EXCEPT !.data = @ \o loc.buffer]
    /\ GoBuf("after")
    /\ UNCHANGED <<java, js, buffer, pad, task, env, flushed, stray>>

BufAfter ==
    /\ pc.buf = "after"
    /\ LET r == IF hb.result = "ok" \/ loc.buf # "ok" THEN loc.buf ELSE hb.result IN
       /\ hb' = [hb EXCEPT !.result = r]
       /\ loc' = [loc EXCEPT !.buf = r]
    /\ GoBuf("chk")
    /\ UNCHANGED <<java, js, cache, size, ready, pad, task, out, env, flushed, stray>>

(* is_flushing is read outside the mutex: a flush pauses the task itself   *)
BufCheck ==
    /\ pc.buf = "chk"
    /\ task' = IF loc.buf # "ok" /\ ~hb.flushing THEN set_task({"buf"}, "paused") ELSE task
    /\ GoBuf("top")
    /\ UNCHANGED <<java, js, buffer, pad, loc, out, env, flushed, stray>>

(***************************************************************************)
(* java_source_perform_seek, with the flush events it pushes through the   *)
(* buffer.  A target 0 is a position the playlist does not have.           *)
(***************************************************************************)
SeekBegin(t) ==
    /\ pc.ctl = "idle" /\ env.seeks > 0
    /\ env' = [env EXCEPT !.seeks = @ - 1]
    /\ loc' = [loc EXCEPT !.target = t]
    /\ pad' = [pad EXCEPT !.sink = TRUE]
    /\ flushed' = TRUE
    /\ GoCtl("s_flag")
    /\ UNCHANGED <<java, js, buffer, task, out, stray>>

(* FLUSH_START in the buffer: the flag, then downstream, then the data     *)
SeekFlag ==
    /\ pc.ctl = "s_flag"
    /\ hb' = [hb EXCEPT !.flushing = TRUE]
    /\ GoCtl("s_down")
    /\ UNCHANGED <<java, js, cache, size, ready, pad, task, loc, out, env, flushed, stray>>

SeekDown ==
    /\ pc.ctl = "s_down"
    /\ pad' = [pad EXCEPT !.down = TRUE]
    /\ out' = [data |-> <<>>, eos |-> FALSE, from |-> 0]
    /\ GoCtl("s_data")
    /\ UNCHANGED <<java, js, buffer, task, loc, env, flushed, stray>>

(* Mutant: the slot that is read stays the same. *)
flush_dataKeepsSlot(next) ==
    /\ hb' = [hb EXCEPT !.result = "wrong", !.wi = -1]
    /\ cache' = [i \in Slot |-> cache_set_read_position(cache_set_write_position(cache[i], 0), 0)]
    /\ size' = [i \in Slot |-> 0]
    /\ ready' = [i \in Slot |-> TRUE]
    /\ pc' = signal_add(signal_del([pc EXCEPT !.ctl = next]))

(* hls_progress_buffer_flush_data: every slot empty, none taken, and both  *)
(* conditions signalled                                                    *)
flush_data(next) ==
    /\ hb' = [hb EXCEPT !.result = "wrong", !.wi = -1, !.ri = 0]
    /\ cache' = [i \in Slot |-> cache_set_read_position(cache_set_write_position(cache[i], 0), 0)]
    /\ size' = [i \in Slot |-> 0]
    /\ ready' = [i \in Slot |-> TRUE]
    /\ pc' = signal_add(signal_del([pc EXCEPT !.ctl = next]))

SeekData ==
    /\ pc.ctl = "s_data"
    /\ flush_data("s_pause")
    /\ UNCHANGED <<java, js, pad, task, loc, out, env, flushed, stray>>

(* gst_pad_pause_task: ask, then wait for the task function to end         *)
SeekPause ==
    /\ pc.ctl = "s_pause"
    /\ task' = set_task({"buf"}, "paused")
    /\ GoCtl("s_wait")
    /\ UNCHANGED <<java, js, buffer, pad, loc, out, env, flushed, stray>>

SeekPaused ==
    /\ pc.ctl = "s_wait" /\ pc.buf = "parked"
    /\ GoCtl("s_wrong")
    /\ UNCHANGED <<java, js, buffer, pad, task, loc, out, env, flushed, stray>>

SeekWrong ==
    /\ pc.ctl = "s_wrong"
    /\ js' = [js EXCEPT !.result = "wrong"]
    /\ GoCtl("s_lock")
    /\ UNCHANGED <<java, buffer, pad, task, loc, out, env, flushed, stray>>

(* with the stream lock of javasource: the connection seeks, and a new     *)
(* segment is due if it could                                              *)
SeekLocked ==
    /\ pc.ctl = "s_lock" /\ pc.src = "parked"
    /\ \/ loc.target = 0 /\ UNCHANGED java /\ js' = [js EXCEPT !.result = "ok"]
       \/ /\ loc.target # 0
          /\ java' = [java EXCEPT !.file = loc.target - 1]
          /\ js' = [result |-> "ok", pending |-> "newsegment"]
    /\ GoCtl("s_stop")
    /\ UNCHANGED <<buffer, pad, task, loc, out, env, flushed, stray>>

(* FLUSH_STOP in the buffer, then javasource's task starts                 *)
SeekStop ==
    /\ pc.ctl = "s_stop"
    /\ pad' = [sink |-> FALSE, down |-> FALSE]
    /\ hb' = [hb EXCEPT !.newseg = TRUE, !.flushing = FALSE, !.result = "ok"]
    /\ task' = set_task(IF hb.eos THEN {"src"} ELSE {"src", "buf"}, "started")
    /\ out' = [out EXCEPT !.from = IF loc.target = 0 THEN 0 ELSE (loc.target - 1) * SegSize + 1]
    /\ GoCtl("idle")
    /\ UNCHANGED <<java, js, cache, size, ready, loc, env, flushed, stray>>

(***************************************************************************)
(* PAUSED to READY, the sinks first: downstream is already inactive, then  *)
(* hls_progress_buffer_change_state and the deactivation of its pads, then *)
(* javasource's.                                                           *)
(***************************************************************************)
StopBegin ==
    /\ pc.ctl = "idle" /\ env.stops > 0
    /\ env' = [env EXCEPT !.stops = @ - 1]
    /\ pad' = [pad EXCEPT !.down = TRUE]
    /\ flushed' = TRUE
    /\ GoCtl("t_data")
    /\ UNCHANGED <<java, js, buffer, task, loc, out, stray>>

StopData ==
    /\ pc.ctl = "t_data"
    /\ flush_data("t_src")
    /\ UNCHANGED <<java, js, pad, task, loc, out, env, flushed, stray>>

(* hls_progress_buffer_activatepush_src(FALSE)                             *)
StopSrcPad ==
    /\ pc.ctl = "t_src"
    /\ hb' = [hb EXCEPT !.result = "wrong"]
    /\ pc' = signal_add(signal_del([pc EXCEPT !.ctl = "t_join"]))
    /\ task' = [task EXCEPT !["buf"] = "stopped"]
    /\ UNCHANGED <<java, js, cache, size, ready, pad, loc, out, env, flushed, stray>>

StopJoin ==
    /\ pc.ctl = "t_join" /\ pc.buf = "gone"
    /\ GoCtl("t_sink")
    /\ UNCHANGED <<java, js, buffer, pad, task, loc, out, env, flushed, stray>>

StopSinkPad ==
    /\ pc.ctl = "t_sink"
    /\ pad' = [pad EXCEPT !.sink = TRUE]
    /\ GoCtl("t_drain")
    /\ UNCHANGED <<java, js, buffer, task, loc, out, env, flushed, stray>>

(* the stream lock of the sink pad, held while a buffer or event is in it  *)
StopDrained ==
    /\ pc.ctl = "t_drain"
    /\ pc.src \notin {"accept", "restart", "take", "full", "waitdel", "woken", "write"}
    /\ GoCtl("t_end")
    /\ UNCHANGED <<java, js, buffer, pad, task, loc, out, env, flushed, stray>>

(* java_source_activatepush(FALSE)                                         *)
StopSource ==
    /\ pc.ctl = "t_end"
    /\ js' = [js EXCEPT !.result = "wrong"]
    /\ task' = [task EXCEPT !["src"] = "stopped"]
    /\ GoCtl("t_gone")
    /\ UNCHANGED <<java, buffer, pad, loc, out, env, flushed, stray>>

StopClosed ==
    /\ pc.ctl = "t_gone" /\ pc.src = "gone"
    /\ GoCtl("closed")
    /\ UNCHANGED <<java, js, buffer, pad, task, loc, out, env, flushed, stray>>

SrcStep == \/ SrcTop \/ SrcUnpark \/ SrcSize \/ SrcNewSegment \/ SrcAccept \/ SrcRestart
           \/ SrcTake \/ SrcFull \/ SrcWoken \/ SrcRead \/ SrcChain \/ SrcWrite
           \/ SrcEos \/ SrcFin
BufStep == \/ BufTop \/ BufRead \/ BufEos \/ BufWait \/ BufNotOk \/ BufPush
           \/ BufAfter \/ BufCheck
CtlStep == \/ SeekFlag \/ SeekDown \/ SeekData \/ SeekPause \/ SeekPaused \/ SeekWrong
           \/ SeekLocked \/ SeekStop
           \/ StopData \/ StopSrcPad \/ StopJoin \/ StopSinkPad \/ StopDrained
           \/ StopSource \/ StopClosed
EnvStep == \/ \E t \in Targets : SeekBegin(t)
           \/ StopBegin
           \/ SrcReadError

Next == ~stray /\ (SrcStep \/ BufStep \/ CtlStep \/ EnvStep)

(* the threads of the process are scheduled; the user need not seek, and   *)
(* the network need not fail                                               *)
Spec == /\ Init /\ [][Next]_vars
        /\ WF_vars(~stray /\ SrcStep) /\ WF_vars(~stray /\ BufStep)
        /\ WF_vars(~stray /\ CtlStep)

(***************************************************************************)
(* Properties.                                                             *)
(***************************************************************************)

(* What hls_progress_buffer_loop pushes downstream between two flushes is  *)
(* the stream itself, from the segment sought, with nothing lost, repeated *)
(* or out of order: the slots are files that are overwritten in place, and *)
(* a flush empties them under the feet of both threads.  (from is 0 after  *)
(* a seek the playlist refused: the stream goes on from where it was.)     *)
(* While nothing was sought and nothing stopped, its end is announced only *)
(* when all of it has been pushed.                                         *)
InOrder ==
    /\ \A i \in 1 .. Len(out.data) :
         out.data[i] = (IF out.from = 0 THEN out.data[1] ELSE out.from) + i - 1
    /\ out.eos /\ ~flushed => Len(out.data) = Total

(* While nothing was sought and nothing stopped, chain always has a slot   *)
(* to write to: cache_write_index is -1 until the first NEWSEGMENT event,  *)
(* and chain does not look at it.                                          *)
InBounds == stray => flushed

(* A segment that is not read to its end is never emptied for the next one *)
(* except by a flush, though the loop that waits for a free slot leaves    *)
(* the mutex before it waits.                                              *)
NoOverwrite == [][\A i \in Slot :
                    cache'[i].wr < cache[i].wr =>
                        \/ hb'.result # "ok"
                        \/ ready[i] /\ cache[i].rd = size[i]]_vars

(* The signal that a slot is free came between the source's test and its   *)
(* wait: hls_progress_buffer_sink_event leaves the mutex there to post the *)
(* FULL message.  The thread waits for what has already happened.          *)
MissedSignal == pc.src = "waitdel" /\ (hb.result # "ok" \/ (hb.wi \in Slot /\ ready[hb.wi]))

(* Undisturbed, the whole playlist is pushed downstream, followed by the   *)
(* end of stream; the only thing that can keep it from the end is the      *)
(* missed signal.                                                          *)
PlaysToEnd == (env.seeks = 0 /\ env.faults = 0 /\ env.stops = 0)
                 => <>((out.eos /\ Len(out.data) = Total) \/ []MissedSignal)

(* A flush waits for the buffer's task, which waits for data.  After the   *)
(* end of a stream NEWSEGMENT resets is_eos and the result outside the     *)
(* mutex and starts the task again; when flush_data came between its test  *)
(* of the result and that, it undoes the flush.                            *)
UndoneFlush == pc.ctl = "s_wait" /\ pc.buf = "waitadd"

(* A seek returns to its caller and a stop completes, whatever the two     *)
(* streaming threads are in the middle of, unless a signal was missed or a *)
(* flush undone: the flush wakes every other wait, and no other cycle of   *)
(* waits remains.                                                          *)
ControlReturns == (pc.ctl \in {"s_flag", "t_data"})
                     ~> (pc.ctl \in {"idle", "closed"} \/ stray
                         \/ []MissedSignal \/ []UndoneFlush)

(* A seek returns.                                                         *)
SeekReturns == (pc.ctl = "s_flag") ~> (pc.ctl = "idle" \/ stray)
=============================================================================
