------------------------------- MODULE GstBin -------------------------------
(***************************************************************************)
(* The state of a top-level GStreamer bin (gstelement.c, gstbin.c) with    *)
(* its sinks taken together (gstbasesink.c).  A bin is a value, each       *)
(* function an operator that gives the bin it leaves and the messages it   *)
(* posts; a state change holds GST_STATE_LOCK, so it is one step of who    *)
(* asks for it.                                                            *)
(*                                                                         *)
(* async: a sink needs preroll, its ASYNC_START is still unanswered.       *)
(* eos:   the sinks have received the end of the stream.                   *)
(* cont:  the state a scheduled gst_bin_continue_func goes to.  One whose  *)
(*        cookie no longer matches does nothing, and is forgotten here     *)
(*        when the target changes.                                         *)
(***************************************************************************)
EXTENDS Naturals, Sequences

VOID == 0
NULL == 1
READY == 2
PAUSED == 3
PLAYING == 4
GstState == VOID .. PLAYING

BinType == [state: GstState, next: GstState, pending: GstState, target: GstState,
            ret: {"success", "async", "failure"}, async: BOOLEAN, eos: BOOLEAN,
            cont: GstState]

Changed(old, new, pending) == [type |-> "state", old |-> old, new |-> new, pending |-> pending]

NullBin == [state |-> NULL, next |-> VOID, pending |-> VOID, target |-> NULL,
            ret |-> "success", async |-> FALSE, eos |-> FALSE, cont |-> VOID]

(* Mutant: a state that is reached already is passed. *)
GetNextPast(current, pending) == IF current > pending THEN current - 1 ELSE current + 1

(* GST_STATE_GET_NEXT: one state towards the pending one                   *)
GetNext(current, pending) ==
    IF current < pending THEN current + 1 ELSE IF current > pending THEN current - 1 ELSE current

(* gst_element_continue_state after a SUCCESS that reaches the pending     *)
(* state                                                                   *)
continue_state(b) ==
    [bin |-> [b EXCEPT !.state = b.next, !.pending = VOID, !.next = VOID, !.ret = "success"],
     msgs |-> IF b.state # b.next \/ b.ret = "async"
              THEN <<Changed(b.state, b.next, VOID)>> ELSE <<>>]

(* What the sinks' change_state may return.  A playing sink is prerolled   *)
(* only at the end of the stream or if it has not yet left its preroll.    *)
SinkReturn(b) ==
    IF b.state = PLAYING THEN (IF b.eos THEN {"success"} ELSE {"success", "async"})
    ELSE {IF b.async THEN "async" ELSE "success"}

(* gst_bin_change_state to b.next: an ASYNC sink leaves the change to      *)
(* async_done; a sink at the end of the stream posts EOS when it plays     *)
change_state(b, r) ==
    LET eos == IF b.next = PLAYING /\ b.eos THEN <<[type |-> "eos"]>> ELSE <<>> IN
    IF r = "async" THEN [bin |-> [b EXCEPT !.async = TRUE], msgs |-> <<>>]
    ELSE [bin |-> continue_state(b).bin, msgs |-> eos \o continue_state(b).msgs]

(* gst_element_set_state_func: a failed change is forgotten, and a change  *)
(* that is under way only gets a new target                                *)
Forget(b) == IF b.ret = "failure"
             THEN [b EXCEPT !.next = VOID, !.pending = VOID, !.ret = "success"] ELSE b
WasBusy(b, s) == b.pending # VOID /\ (b.pending <= s \/ b.next = s)

(* gst_element_set_state to PAUSED or PLAYING; from NULL, where the late   *)
(* call of a thread may find the bin, it goes through READY                *)
set_state(b, s) ==
    LET b0 == Forget(b)
        b1 == [b0 EXCEPT !.target = s, !.pending = s, !.cont = IF b.target # s THEN VOID ELSE @]
        current == IF b0.pending # VOID /\ b0.next > s /\ b0.ret = "async" THEN b0.next ELSE b0.state
        b2 == [b1 EXCEPT !.next = s, !.ret = IF current # s THEN "async" ELSE @]
    IN  IF b0.state = NULL
        THEN {[bin |-> [b1 EXCEPT !.state = READY, !.next = PAUSED, !.ret = "async", !.async = TRUE],
               msgs |-> <<Changed(NULL, READY, s)>>]}
        ELSE IF WasBusy(b0, s) THEN {[bin |-> [b1 EXCEPT !.ret = "async"], msgs |-> <<>>]}
        ELSE {change_state(b2, r) : r \in SinkReturn(b)}

(* ... and when an element refuses: gst_element_abort_state                *)
set_state_failed(b, s) ==
    [b EXCEPT !.target = s, !.pending = s, !.ret = "failure",
              !.cont = IF b.target # s THEN VOID ELSE @]

(* A flush in the sinks (gst_base_sink_flush_start): they lose their       *)
(* state, and so does the bin if nothing is pending                        *)
(* (bin_handle_async_start)                                                *)
lost_state(b) ==
    LET new == IF b.state = PLAYING THEN PAUSED ELSE b.state
        f == [b EXCEPT !.async = TRUE, !.eos = FALSE]
    IN  IF b.ret = "failure" \/ b.pending # VOID THEN [bin |-> f, msgs |-> <<>>]
        ELSE [bin |-> [f EXCEPT !.state = new, !.next = new, !.pending = new, !.ret = "async"],
              msgs |-> <<Changed(new, new, new)>>]

(* The last sink has prerolled, with a buffer or with the end of the       *)
(* stream: bin_handle_async_done.  PLAYING is left to the continuation.    *)
async_done(b, atEnd) ==
    LET f == [b EXCEPT !.async = FALSE, !.eos = atEnd]
        current == IF b.next = PLAYING THEN b.state ELSE b.next
        done == b.target = current
        pending == IF done THEN VOID ELSE b.target
        said == b.next # PLAYING /\ (b.state # b.next \/ b.ret = "async")
    IN  IF b.ret = "failure" \/ b.pending = VOID THEN [bin |-> f, msgs |-> <<>>]
        ELSE [bin |-> [f EXCEPT !.state = current, !.pending = pending,
                                !.ret = IF done THEN "success" ELSE "async",
                                !.next = IF done THEN VOID ELSE GetNext(b.state, b.target),
                                !.cont = pending],
              msgs |-> IF said THEN <<Changed(b.state, b.next, pending)>> ELSE <<>>]

(* Mutant: the continuation always takes its cookie for stale. *)
continue_funcOnce(b) == {[bin |-> [b EXCEPT !.cont = VOID], msgs |-> <<>>]}

(* gst_bin_continue_func, on a thread of the pool                          *)
continue_func(b) ==
    LET f == [b EXCEPT !.next = GetNext(b.state, b.cont), !.pending = b.cont,
                       !.ret = "async", !.cont = VOID]
    IN  {change_state(f, r) : r \in SinkReturn(b)}
=============================================================================
