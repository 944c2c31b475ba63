----------------------------- MODULE FileCache -----------------------------
(***************************************************************************)
(* The temporary file behind the progress buffers (posix/filecache.c): one *)
(* file opened twice, with a write position and a read position.  A cache  *)
(* is a value, a record of the file's contents and the two positions, and  *)
(* each function of cache.h an operator on it.  The file is never          *)
(* truncated: moving the write position back leaves the old bytes behind   *)
(* it, and only the positions tell them from new ones.                     *)
(*                                                                         *)
(* Contents are sequences of abstract units; ReadMax is the number of      *)
(* units that make DEFAULT_BUFFER_SIZE.                                    *)
(***************************************************************************)
EXTENDS Naturals, Sequences

CONSTANT ReadMax

ASSUME ReadMaxAssumption == ReadMax \in Nat \ {0}

(* create_cache: an empty file, both positions 0 *)
create_cache == [file |-> <<>>, rd |-> 0, wr |-> 0]

(* write() at the write position: overwrites what is there, keeps the rest *)
Overwrite(file, pos, data) ==
    [i \in 1 .. (IF pos + Len(data) > Len(file) THEN pos + Len(data) ELSE Len(file)) |->
        IF i > pos /\ i <= pos + Len(data) THEN data[i - pos] ELSE file[i]]

cache_write_buffer(c, data) ==
    [c EXCEPT !.file = Overwrite(c.file, c.wr, data), !.wr = c.wr + Len(data)]

cache_has_enough_data(c) == c.rd < c.wr

(* the number of units cache_read_buffer asks for: what lies before the    *)
(* write position if that is less than a buffer, else a whole buffer       *)
ReadSize(c) == IF c.wr - c.rd < ReadMax THEN c.wr - c.rd ELSE ReadMax

(* Mutant: the position moves by a whole buffer. *)
cache_read_bufferWhole(c) == [c EXCEPT !.rd = c.rd + ReadMax]

(* the data cache_read_buffer returns, and the cache it leaves             *)
cache_read_data(c) == SubSeq(c.file, c.rd + 1, c.rd + ReadSize(c))
cache_read_buffer(c) == [c EXCEPT !.rd = c.rd + ReadSize(c)]

cache_set_write_position(c, pos) == [c EXCEPT !.wr = pos]
cache_set_read_position(c, pos) == [c EXCEPT !.rd = pos]
=============================================================================
