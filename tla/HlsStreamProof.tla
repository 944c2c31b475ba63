--------------------------- MODULE HlsStreamProof ---------------------------
(***************************************************************************)
(* Theorems about HTTP live streaming, for every number and size of        *)
(* segments and slots and any number of seeks, faults and stops: the types *)
(* (no file position passes the end of its data), the index that chain     *)
(* writes with, the slots, which are not overwritten before they were      *)
(* read, and the stream itself, which is pushed in order.                  *)
(***************************************************************************)
EXTENDS HlsStream, SequenceTheorems, TLAPS

(* TypeOK as the provers need it: what is a function or a record is said   *)
(* to be one.                                                              *)
Units == 1 .. Total
Cache == [file: Seq(Units), rd: Nat, wr: Nat]

CacheOK(c) == c \in Cache /\ c.rd <= c.wr /\ c.wr <= Len(c.file)

BufferTypes ==
    /\ hb \in [result: Flow, flushing: BOOLEAN, eos: BOOLEAN, newseg: BOOLEAN,
               wi: Slot \cup {-1}, ri: Slot]
    /\ cache \in [Slot -> Cache] /\ \A i \in Slot : CacheOK(cache[i])
    /\ size \in [Slot -> 0 .. SegSize] /\ ready \in [Slot -> BOOLEAN]

SourceTypes ==
    /\ java \in [file: 0 .. NumSegments + 1, rest: 0 .. SegSize]
    /\ js \in [result: Flow, pending: {"newsegment", "unknown", "eos"}]

ThreadTypes ==
    /\ pad \in [sink: BOOLEAN, down: BOOLEAN]
    /\ task \in [{"src", "buf"} -> {"started", "paused", "stopped"}]
    /\ pc \in [src: SrcPC, buf: BufPC, ctl: CtlPC]
    /\ loc \in [src: Flow, unit: 0 .. Total, buf: Flow, buffer: Seq(Units),
                target: 0 .. NumSegments]

OutTypes ==
    /\ out \in [data: Seq(Units), eos: BOOLEAN, from: 0 .. Total]
    /\ env \in [seeks: Nat, faults: Nat, stops: Nat]
    /\ flushed \in BOOLEAN /\ stray \in BOOLEAN

(* Where the source is in the playlist. *)
Announcing == {"nseg", "accept", "restart", "take", "full", "waitdel", "woken"}

SourcePlace ==
    /\ pc.src \in Announcing => java.file \in Segment /\ java.rest = SegSize
    /\ pc.src \in Announcing \cup {"size"} => js.pending = "newsegment"
    /\ pc.src = "eosev" => js.pending = "eos"
    /\ pc.src \in {"read", "chain", "write"} => js.pending = "unknown"
    /\ js.pending = "unknown" => java.file \in Segment
    /\ pc.src \in {"chain", "write"} =>
         java.rest < SegSize /\ loc.unit = java.file * SegSize - java.rest
    /\ pc.ctl = "s_stop" => pc.src = "parked"
    /\ pc.src \in {"full", "waitdel", "woken"} /\ hb.result = "ok" => hb.wi \in Slot

Shape == BufferTypes /\ SourceTypes /\ ThreadTypes /\ OutTypes /\ SourcePlace

-----------------------------------------------------------------------------
(* Arithmetic.                                                             *)

LEMMA Constants ==
    /\ NumCached \in Nat \ {0} /\ NumSegments \in Nat \ {0} /\ SegSize \in Nat \ {0}
    /\ Targets \subseteq 0 .. NumSegments
    /\ Total \in Nat \ {0} /\ ReadMax \in Nat \ {0} /\ 0 \in Slot
<1>1. /\ NumCached \in Nat \ {0} /\ NumSegments \in Nat \ {0} /\ SegSize \in Nat \ {0}
      /\ Targets \subseteq 0 .. NumSegments
  BY HlsAssumption
<1>2. ReadMax \in Nat \ {0}
  BY ReadMaxAssumption
<1>3. NumSegments * SegSize \in Nat \ {0}
  BY <1>1
<1> QED
  BY <1>1, <1>2, <1>3 DEF Total, Slot

(* The units of a segment are among those of the playlist. *)
LEMMA UnitInTotal ==
    ASSUME NEW f \in Segment, NEW r \in 0 .. SegSize - 1
    PROVE  f * SegSize - r \in 1 .. Total
<1>1. /\ NumSegments \in Nat /\ SegSize \in Nat \ {0} /\ f \in Nat \ {0} /\ f <= NumSegments
      /\ r \in Nat /\ r < SegSize
  BY Constants DEF Segment
<1>2. (NumSegments - f) * SegSize >= 0 /\ (f - 1) * SegSize >= 0
  BY <1>1
<1>3. f * SegSize <= NumSegments * SegSize /\ f * SegSize >= SegSize
  BY <1>1, <1>2
<1> QED
  BY <1>1, <1>3 DEF Total

LEMMA NextSlot ==
    ASSUME NEW w \in Slot \cup {-1}
    PROVE  /\ (w + 1) % NumCached \in Slot
           /\ (w + 1) % NumCached = IF w = NumCached - 1 THEN 0 ELSE w + 1
<1>1. NumCached \in Nat \ {0} /\ w \in -1 .. NumCached - 1
  BY Constants DEF Slot
<1>2. CASE w = NumCached - 1
  <2>1. NumCached % NumCached = 0
    BY <1>1
  <2> QED
    BY <1>1, <1>2, <2>1 DEF Slot
<1>3. CASE w # NumCached - 1
  <2>1. w + 1 \in 0 .. NumCached - 1
    BY <1>1, <1>3
  <2>2. (w + 1) % NumCached = w + 1
    BY <1>1, <2>1
  <2> QED
    BY <1>3, <2>1, <2>2 DEF Slot
<1> QED
  BY <1>2, <1>3

-----------------------------------------------------------------------------
(* The file cache.                                                         *)

LEMMA OverwriteFacts ==
    ASSUME NEW S, NEW file \in Seq(S), NEW w \in Nat, w <= Len(file), NEW u \in S
    PROVE  LET f == Overwrite(file, w, <<u>>)
           IN /\ f \in Seq(S) /\ w + 1 <= Len(f) /\ f[w + 1] = u
              /\ \A j \in 1 .. w : f[j] = file[j]
<1> DEFINE n == IF w + 1 > Len(file) THEN w + 1 ELSE Len(file)
           f == Overwrite(file, w, <<u>>)
<1>1. Len(file) \in Nat /\ Len(<<u>>) = 1 /\ <<u>>[1] = u
  OBVIOUS
<1>2. n \in Nat /\ w + 1 <= n /\ (n = w + 1 \/ n = Len(file))
  BY <1>1
<1>3. f = [i \in 1 .. n |-> IF i > w /\ i <= w + 1 THEN <<u>>[i - w] ELSE file[i]]
  BY <1>1 DEF Overwrite
<1> HIDE DEF n, f
<1>4. ASSUME NEW i \in 1 .. n
      PROVE  f[i] = (IF i = w + 1 THEN u ELSE file[i]) /\ f[i] \in S
  <2>1. f[i] = IF i > w /\ i <= w + 1 THEN <<u>>[i - w] ELSE file[i]
    BY <1>3
  <2>2. CASE i = w + 1
    <3>1. i > w /\ i <= w + 1 /\ i - w = 1
      BY <2>2
    <3> QED
      BY <1>1, <2>1, <2>2, <3>1
  <2>3. CASE i # w + 1
    <3>1. ~(i > w /\ i <= w + 1) /\ i \in 1 .. Len(file)
      BY <1>1, <1>2, <2>3
    <3> QED
      BY <2>1, <2>3, <3>1
  <2> QED
    BY <2>2, <2>3
<1>5. f \in [1 .. n -> S]
  BY <1>3, <1>4
<1>6. f \in Seq(S) /\ Len(f) = n
  BY <1>2, <1>5
<1>7. \A j \in 1 .. w : j \in 1 .. n /\ j # w + 1
  BY <1>2
<1>8. w + 1 \in 1 .. n
  BY <1>2
<1> QED
  BY <1>2, <1>4, <1>6, <1>7, <1>8 DEF f

LEMMA WriteFacts ==
    ASSUME NEW c, CacheOK(c), NEW u \in Units
    PROVE  LET d == cache_write_buffer(c, <<u>>)
           IN /\ CacheOK(d) /\ d.rd = c.rd /\ d.wr = c.wr + 1
              /\ d.file[d.wr] = u /\ \A j \in 1 .. c.wr : d.file[j] = c.file[j]
<1> DEFINE f == Overwrite(c.file, c.wr, <<u>>)
           d == cache_write_buffer(c, <<u>>)
<1>1. /\ c \in [file: Seq(Units), rd: Nat, wr: Nat]
      /\ c.file \in Seq(Units) /\ c.rd \in Nat /\ c.wr \in Nat
      /\ c.rd <= c.wr /\ c.wr <= Len(c.file) /\ Len(<<u>>) = 1
  BY DEF CacheOK, Cache
<1>2. /\ f \in Seq(Units) /\ c.wr + 1 <= Len(f) /\ f[c.wr + 1] = u
      /\ \A j \in 1 .. c.wr : f[j] = c.file[j]
  BY <1>1, OverwriteFacts
<1>3. d = [c EXCEPT !.file = f, !.wr = c.wr + 1]
  BY <1>1 DEF cache_write_buffer
<1> HIDE DEF f, d
<1>4. /\ d \in [file: Seq(Units), rd: Nat, wr: Nat]
      /\ d.file = f /\ d.rd = c.rd /\ d.wr = c.wr + 1
  BY <1>1, <1>2, <1>3, c.wr + 1 \in Nat
<1>5. CacheOK(d)
  BY <1>1, <1>2, <1>4 DEF CacheOK, Cache
<1> QED
  BY <1>2, <1>4, <1>5 DEF d

LEMMA SubSeqFacts ==
    ASSUME NEW S, NEW f \in Seq(S), NEW r \in Nat, NEW k \in Nat \ {0}, r + k <= Len(f)
    PROVE  LET b == SubSeq(f, r + 1, r + k)
           IN b \in Seq(S) /\ Len(b) = k /\ \A j \in 1 .. k : b[j] = f[r + j]
<1> DEFINE b == SubSeq(f, r + 1, r + k)
<1>1. /\ r + 1 \in Int /\ r + k \in Int /\ r + 1 <= r + k /\ (r + k) - (r + 1) + 1 = k
      /\ \A j \in 1 .. k : (r + 1) + j - 1 = r + j
  OBVIOUS
<1>2. \A i \in r + 1 .. r + k : i \in 1 .. Len(f)
  OBVIOUS
<1>3. \A i \in r + 1 .. r + k : f[i] \in S
  BY <1>2
<1>4. /\ b \in Seq(S)
      /\ Len(b) = IF r + 1 <= r + k THEN (r + k) - (r + 1) + 1 ELSE 0
      /\ \A i \in 1 .. (r + k) - (r + 1) + 1 : b[i] = f[(r + 1) + i - 1]
  BY <1>1, <1>3, SubSeqProperties
<1> QED
  BY <1>1, <1>4

LEMMA ReadFacts ==
    ASSUME NEW c, CacheOK(c), cache_has_enough_data(c)
    PROVE  LET d == cache_read_buffer(c)
               b == cache_read_data(c)
           IN /\ CacheOK(d) /\ d.wr = c.wr /\ d.file = c.file /\ d.rd > c.rd
              /\ b \in Seq(Units) /\ Len(b) = d.rd - c.rd
              /\ \A j \in 1 .. Len(b) : b[j] = c.file[c.rd + j]
<1> DEFINE d == cache_read_buffer(c)
           b == cache_read_data(c)
<1>1. /\ c \in [file: Seq(Units), rd: Nat, wr: Nat]
      /\ c.file \in Seq(Units) /\ c.rd \in Nat /\ c.wr \in Nat /\ Len(c.file) \in Nat
      /\ c.rd < c.wr /\ c.wr <= Len(c.file)
  BY DEF CacheOK, Cache, cache_has_enough_data
<1>2. PICK k \in Nat \ {0} : k = ReadSize(c) /\ c.rd + k <= c.wr
  BY <1>1, Constants DEF ReadSize
<1>3. d = [c EXCEPT !.rd = c.rd + k] /\ b = SubSeq(c.file, c.rd + 1, c.rd + k)
  BY <1>2 DEF cache_read_buffer, cache_read_data
<1> HIDE DEF b, d
<1>4. c.rd + k \in Nat /\ c.rd + k <= Len(c.file) /\ c.rd + k > c.rd /\ (c.rd + k) - c.rd = k
  BY <1>1, <1>2
<1>5. /\ d \in [file: Seq(Units), rd: Nat, wr: Nat]
      /\ d.file = c.file /\ d.rd = c.rd + k /\ d.wr = c.wr
  BY <1>1, <1>3, <1>4
<1>6. CacheOK(d)
  BY <1>1, <1>2, <1>5 DEF CacheOK, Cache
<1>7. b \in Seq(Units) /\ Len(b) = k /\ \A j \in 1 .. k : b[j] = c.file[c.rd + j]
  BY <1>1, <1>3, <1>4, SubSeqFacts
<1> QED
  BY <1>4, <1>5, <1>6, <1>7 DEF b, d

(* An emptied slot. *)
LEMMA EmptyFacts ==
    ASSUME NEW c, CacheOK(c)
    PROVE  LET d == cache_set_read_position(cache_set_write_position(c, 0), 0)
           IN CacheOK(d) /\ d.rd = 0 /\ d.wr = 0
<1>1. c.file \in Seq(Units) /\ Len(c.file) \in Nat
  BY DEF CacheOK, Cache
<1> DEFINE d == cache_set_read_position(cache_set_write_position(c, 0), 0)
<1>2. d \in [file: Seq(Units), rd: Nat, wr: Nat] /\ d.file = c.file /\ d.rd = 0 /\ d.wr = 0
  BY DEF cache_set_read_position, cache_set_write_position, CacheOK, Cache
<1> QED
  BY <1>1, <1>2 DEF CacheOK, Cache
-----------------------------------------------------------------------------
(* The types, and where the source is.                                     *)

PCType == [src: SrcPC, buf: BufPC, ctl: CtlPC]

(* What the signals do to the threads. *)
LEMMA Signals ==
    ASSUME NEW p \in PCType
    PROVE  /\ signal_add(p) \in PCType /\ signal_del(p) \in PCType
           /\ signal_add(p).src = p.src /\ signal_add(p).ctl = p.ctl
           /\ signal_add(p).buf = IF p.buf = "waitadd" THEN "loop" ELSE p.buf
           /\ signal_del(p).buf = p.buf /\ signal_del(p).ctl = p.ctl
           /\ signal_del(p).src = IF p.src = "waitdel" THEN "woken" ELSE p.src
  BY DEF PCType, SrcPC, BufPC, CtlPC, signal_add, signal_del

LEMMA Tasks ==
    ASSUME task \in [{"src", "buf"} -> {"started", "paused", "stopped"}],
           NEW ts, NEW s \in {"started", "paused", "stopped"}
    PROVE  set_task(ts, s) \in [{"src", "buf"} -> {"started", "paused", "stopped"}]
  BY DEF set_task

(* flush_data, from a place of the application's thread to another. *)
LEMMA FlushShape ==
    ASSUME BufferTypes, ThreadTypes, NEW next \in CtlPC, flush_data(next)
    PROVE  /\ BufferTypes' /\ pc' \in PCType
           /\ hb'.ri = 0 /\ hb'.wi = -1 /\ hb'.result = "wrong" /\ hb'.eos = hb.eos
           /\ pc'.src = (IF pc.src = "waitdel" THEN "woken" ELSE pc.src)
           /\ pc'.buf = (IF pc.buf = "waitadd" THEN "loop" ELSE pc.buf)
           /\ pc'.ctl = next
           /\ \A i \in Slot : ready'[i] /\ cache'[i].rd = 0 /\ cache'[i].wr = 0 /\ size'[i] = 0
<1>1. [pc EXCEPT !.ctl = next] \in PCType
  BY DEF ThreadTypes, PCType
<1>2. pc' \in PCType /\ pc'.ctl = next
      /\ pc'.src = (IF pc.src = "waitdel" THEN "woken" ELSE pc.src)
      /\ pc'.buf = (IF pc.buf = "waitadd" THEN "loop" ELSE pc.buf)
  <2>1. signal_del([pc EXCEPT !.ctl = next]) \in PCType
    BY <1>1, Signals
  <2> QED
    BY <1>1, <2>1, Signals DEF flush_data, ThreadTypes, PCType
<1>3. ASSUME NEW i \in Slot
      PROVE  CacheOK(cache'[i]) /\ cache'[i].rd = 0 /\ cache'[i].wr = 0 /\ size'[i] = 0 /\ ready'[i]
  <2>1. CacheOK(cache[i])
    BY DEF BufferTypes
  <2> QED
    BY <2>1, EmptyFacts DEF flush_data
<1>4. cache' \in [Slot -> Cache]
  BY <1>3 DEF flush_data, CacheOK
<1>5. /\ hb' \in [result: Flow, flushing: BOOLEAN, eos: BOOLEAN, newseg: BOOLEAN,
                  wi: Slot \cup {-1}, ri: Slot]
      /\ hb'.ri = 0 /\ hb'.wi = -1 /\ hb'.result = "wrong" /\ hb'.eos = hb.eos
  BY Constants DEF flush_data, BufferTypes, Flow
<1>6. size' \in [Slot -> 0 .. SegSize] /\ ready' \in [Slot -> BOOLEAN]
  BY Constants DEF flush_data
<1> QED
  BY <1>2, <1>3, <1>4, <1>5, <1>6 DEF BufferTypes

(* A slot that is emptied and sized. *)
LEMMA PrepareShape ==
    ASSUME BufferTypes, ThreadTypes, NEW w \in Slot, Prepare(w)
    PROVE  /\ cache' \in [Slot -> Cache] /\ \A i \in Slot : CacheOK(cache'[i])
           /\ size' \in [Slot -> 0 .. SegSize] /\ ready' \in [Slot -> BOOLEAN]
           /\ cache'[w].rd = 0 /\ cache'[w].wr = 0 /\ size'[w] = SegSize /\ ~ready'[w]
           /\ \A i \in Slot \ {w} :
                cache'[i] = cache[i] /\ size'[i] = size[i] /\ ready'[i] = ready[i]
           /\ js'.pending = "unknown" /\ js' = [js EXCEPT !.pending = "unknown"]
           /\ pc' \in PCType /\ pc' = [pc EXCEPT !.src = "fin"]
<1> DEFINE e == cache_set_read_position(cache_set_write_position(cache[w], 0), 0)
<1>1. CacheOK(e) /\ e.rd = 0 /\ e.wr = 0
  BY EmptyFacts DEF BufferTypes
<1>2. cache' = [cache EXCEPT ![w] = e]
  BY DEF Prepare
<1> HIDE DEF e
<1>3. cache'[w] = e /\ \A i \in Slot \ {w} : cache'[i] = cache[i]
  BY <1>2 DEF BufferTypes
<1>4. cache' \in [Slot -> Cache] /\ \A i \in Slot : CacheOK(cache'[i])
  BY <1>1, <1>2, <1>3 DEF BufferTypes, CacheOK
<1>5. /\ size' \in [Slot -> 0 .. SegSize] /\ ready' \in [Slot -> BOOLEAN]
      /\ size'[w] = SegSize /\ ~ready'[w]
      /\ \A i \in Slot \ {w} : size'[i] = size[i] /\ ready'[i] = ready[i]
  BY Constants DEF Prepare, BufferTypes
<1>6. /\ js'.pending = "unknown" /\ js' = [js EXCEPT !.pending = "unknown"]
      /\ pc' \in PCType /\ pc' = [pc EXCEPT !.src = "fin"]
  BY DEF Prepare, ThreadTypes, PCType, SrcPC, GoSrc
<1> QED
  BY <1>1, <1>3, <1>4, <1>5, <1>6

(* Init. *)
LEMMA InitShape == Init => Shape
<1> SUFFICES ASSUME Init PROVE Shape
  OBVIOUS
<1>1. <<>> \in Seq(Units) /\ Len(<<>>) = 0 /\ CacheOK(create_cache)
  BY DEF CacheOK, Cache, create_cache
<1>2. BufferTypes
  BY <1>1, Constants DEF Init, BufferTypes, Flow, Slot, CacheOK
<1>3. SourceTypes
  BY Constants DEF Init, SourceTypes, Flow
<1>4. ThreadTypes
  BY <1>1, Constants DEF Init, ThreadTypes, Flow, SrcPC, BufPC, CtlPC
<1>5. OutTypes
  <2>1. env \in [seeks: Nat, faults: Nat, stops: Nat]
    BY HlsAssumption DEF Init
  <2>2. out \in [data: Seq(Units), eos: BOOLEAN, from: 0 .. Total]
    <3>1. 1 \in 0 .. Total
      BY Constants
    <3> QED
      BY <1>1, <3>1 DEF Init
  <2> QED
    BY <2>1, <2>2 DEF Init, OutTypes
<1>6. SourcePlace
  BY DEF Init, SourcePlace, Announcing
<1> QED
  BY <1>2, <1>3, <1>4, <1>5, <1>6 DEF Shape
(* The steps of the source, and the failure of the connection. *)
LEMMA SrcShape ==
    ASSUME Shape, SrcTop \/ SrcUnpark \/ SrcSize \/ SrcNewSegment \/ SrcAccept \/ SrcRestart \/ SrcTake \/ SrcFull \/ SrcWoken \/ SrcRead \/ SrcChain \/ SrcWrite \/ SrcEos \/ SrcFin \/ SrcReadError
    PROVE  Shape'
<1>1. CASE SrcTop
  <2>1. ThreadTypes'
    BY <1>1, Tasks DEF SrcTop, Shape, ThreadTypes, SourceTypes, BufferTypes, Flow,
            GoSrc, GoBuf, GoCtl, SrcPC, BufPC, CtlPC
  <2>2. SourcePlace'
    BY <1>1 DEF SrcTop, Shape, SourcePlace, Announcing, SourceTypes, ThreadTypes, BufferTypes, buffer,
            GoSrc, GoBuf, GoCtl, Segment
  <2> QED
    BY <1>1, <2>1, <2>2 DEF Shape, SrcTop, BufferTypes, buffer, SourceTypes, OutTypes
<1>2. CASE SrcUnpark
  <2>1. ThreadTypes'
    BY <1>2, Tasks DEF SrcUnpark, Shape, ThreadTypes, SourceTypes, BufferTypes, Flow,
            GoSrc, GoBuf, GoCtl, SrcPC, BufPC, CtlPC
  <2>2. SourcePlace'
    BY <1>2 DEF SrcUnpark, Shape, SourcePlace, Announcing, SourceTypes, ThreadTypes, BufferTypes, buffer,
            GoSrc, GoBuf, GoCtl, Segment
  <2> QED
    BY <1>2, <2>1, <2>2 DEF Shape, SrcUnpark, BufferTypes, buffer, SourceTypes, OutTypes
<1>3. CASE SrcSize
  <2>1. SourceTypes'
    <3>1. java.file \in Int /\ NumSegments \in Nat /\ java.rest \in 0 .. SegSize
      BY Constants DEF Shape, SourceTypes
    <3>2. java' \in [file: 0 .. NumSegments + 1, rest: 0 .. SegSize]
      <4>1. CASE java.file + 1 <= NumSegments
        <5>1. java.file + 1 \in 0 .. NumSegments + 1 /\ SegSize \in 0 .. SegSize
          BY <4>1, Constants DEF Shape, SourceTypes
        <5>2. java' = [file |-> java.file + 1, rest |-> SegSize]
          BY <1>3, <4>1 DEF SrcSize
        <5> QED
          BY <5>1, <5>2
      <4>2. CASE ~(java.file + 1 <= NumSegments)
        <5>1. NumSegments + 1 \in 0 .. NumSegments + 1 /\ 0 \in 0 .. SegSize
          BY Constants
        <5>2. java' = [java EXCEPT !.file = NumSegments + 1, !.rest = 0]
          BY <1>3, <4>2 DEF SrcSize
        <5> QED
          BY <5>1, <5>2 DEF Shape, SourceTypes
      <4> QED
        BY <4>1, <4>2
    <3>3. js' \in [result: Flow, pending: {"newsegment", "unknown", "eos"}]
      BY <1>3 DEF SrcSize, Shape, SourceTypes
    <3> QED
      BY <3>2, <3>3 DEF SourceTypes
  <2>2. ThreadTypes'
    BY <1>3, Tasks DEF SrcSize, Shape, ThreadTypes, SourceTypes, BufferTypes, Flow,
            GoSrc, GoBuf, GoCtl, SrcPC, BufPC, CtlPC
  <2>3. SourcePlace'
    BY <1>3 DEF SrcSize, Shape, SourcePlace, Announcing, SourceTypes, ThreadTypes, buffer,
            GoSrc, GoBuf, GoCtl, Segment
  <2> QED
    BY <1>3, <2>1, <2>2, <2>3 DEF Shape, SrcSize, BufferTypes, buffer, OutTypes
<1>4. CASE SrcNewSegment
  <2>1. SourceTypes'
    BY <1>4, Constants DEF SrcNewSegment, Shape, SourceTypes, ThreadTypes, Flow, Segment
  <2>2. ThreadTypes'
    BY <1>4, Tasks DEF SrcNewSegment, Shape, ThreadTypes, SourceTypes, BufferTypes, Flow,
            GoSrc, GoBuf, GoCtl, SrcPC, BufPC, CtlPC
  <2>3. SourcePlace'
    BY <1>4 DEF SrcNewSegment, Shape, SourcePlace, Announcing, SourceTypes, ThreadTypes, BufferTypes, buffer,
            GoSrc, GoBuf, GoCtl, Segment
  <2> QED
    BY <1>4, <2>1, <2>2, <2>3 DEF Shape, SrcNewSegment, BufferTypes, buffer, OutTypes
<1>5. CASE SrcAccept
  <2>1. SourceTypes'
    BY <1>5, Constants DEF SrcAccept, Shape, SourceTypes, ThreadTypes, Flow, Segment
  <2>2. ThreadTypes'
    BY <1>5, Tasks DEF SrcAccept, Shape, ThreadTypes, SourceTypes, BufferTypes, Flow,
            GoSrc, GoBuf, GoCtl, SrcPC, BufPC, CtlPC
  <2>3. SourcePlace'
    BY <1>5 DEF SrcAccept, Shape, SourcePlace, Announcing, SourceTypes, ThreadTypes, BufferTypes, buffer,
            GoSrc, GoBuf, GoCtl, Segment
  <2> QED
    BY <1>5, <2>1, <2>2, <2>3 DEF Shape, SrcAccept, BufferTypes, buffer, OutTypes
<1>6. CASE SrcRestart
  <2>1. BufferTypes'
    BY <1>6, Constants DEF SrcRestart, Shape, BufferTypes, ThreadTypes, Flow
  <2>2. ThreadTypes'
    BY <1>6, Tasks DEF SrcRestart, Shape, ThreadTypes, SourceTypes, BufferTypes, Flow,
            GoSrc, GoBuf, GoCtl, SrcPC, BufPC, CtlPC
  <2>3. SourcePlace'
    BY <1>6 DEF SrcRestart, Shape, SourcePlace, Announcing, SourceTypes, ThreadTypes, BufferTypes, buffer,
            GoSrc, GoBuf, GoCtl, Segment
  <2> QED
    BY <1>6, <2>1, <2>2, <2>3 DEF Shape, SrcRestart, SourceTypes, OutTypes
<1>7. CASE SrcTake
  <2>1. PICK w \in Slot : w = (hb.wi + 1) % NumCached
    BY NextSlot DEF Shape, BufferTypes
  <2>2. /\ hb' \in [result: Flow, flushing: BOOLEAN, eos: BOOLEAN, newseg: BOOLEAN,
                    wi: Slot \cup {-1}, ri: Slot]
        /\ hb'.wi = w
    BY <1>7, <2>1 DEF SrcTake, Shape, BufferTypes
  <2>3. OutTypes'
    BY <1>7 DEF SrcTake, Shape, OutTypes
  <2>4. CASE hb.result = "ok" /\ ~ready[w]
    <3>1. GoSrc("full") /\ UNCHANGED <<js, cache, size, ready>>
      BY <1>7, <2>1, <2>4 DEF SrcTake
    <3>2. ThreadTypes'
      BY <1>7, <3>1 DEF SrcTake, Shape, ThreadTypes, GoSrc, SrcPC
    <3>3. SourcePlace'
      BY <1>7, <2>2, <3>1 DEF SrcTake, Shape, SourcePlace, Announcing, ThreadTypes, GoSrc
    <3> QED
      BY <1>7, <2>2, <2>3, <3>1, <3>2, <3>3 DEF SrcTake, Shape, BufferTypes, SourceTypes
  <2>5. CASE ~(hb.result = "ok" /\ ~ready[w])
    <3>1. Prepare(w)
      BY <1>7, <2>1, <2>5 DEF SrcTake, Shape, BufferTypes
    <3>2. BufferTypes'
      BY <2>2, <3>1, PrepareShape DEF Shape, BufferTypes
    <3>3. js' = [js EXCEPT !.pending = "unknown"] /\ pc' \in PCType /\ pc' = [pc EXCEPT !.src = "fin"]
      BY <3>1, PrepareShape DEF Shape
    <3>4. SourceTypes'
      BY <1>7, <3>3 DEF SrcTake, Shape, SourceTypes
    <3>5. ThreadTypes'
      BY <1>7, <3>3 DEF SrcTake, Shape, ThreadTypes, PCType
    <3>6. SourcePlace'
      BY <1>7, <3>3 DEF SrcTake, Shape, SourcePlace, SourceTypes, ThreadTypes, Announcing
    <3> QED
      BY <2>3, <3>2, <3>4, <3>5, <3>6 DEF Shape
  <2> QED
    BY <2>4, <2>5
<1>8. CASE SrcFull
  <2>1. ThreadTypes'
    BY <1>8, Tasks DEF SrcFull, Shape, ThreadTypes, SourceTypes, BufferTypes, Flow,
            GoSrc, GoBuf, GoCtl, SrcPC, BufPC, CtlPC
  <2>2. SourcePlace'
    BY <1>8 DEF SrcFull, Shape, SourcePlace, Announcing, SourceTypes, ThreadTypes, BufferTypes, buffer,
            GoSrc, GoBuf, GoCtl, Segment
  <2> QED
    BY <1>8, <2>1, <2>2 DEF Shape, SrcFull, BufferTypes, buffer, SourceTypes, OutTypes
<1>9. CASE SrcWoken
  <2>1. OutTypes' /\ UNCHANGED <<java, hb, pad, task>>
    BY <1>9 DEF SrcWoken, Shape, OutTypes
  <2>2. CASE hb.result # "ok"
    <3>1. /\ js' = [js EXCEPT !.pending = "unknown"]
          /\ loc' = [loc EXCEPT !.src = "ok"] /\ GoSrc("fin")
          /\ UNCHANGED <<cache, size, ready>>
      BY <1>9, <2>2 DEF SrcWoken
    <3>2. ThreadTypes'
      BY <2>1, <3>1 DEF Shape, ThreadTypes, GoSrc, SrcPC, Flow
    <3>3. SourceTypes'
      BY <2>1, <3>1 DEF Shape, SourceTypes
    <3>4. SourcePlace'
      BY <1>9, <2>1, <3>1 DEF SrcWoken, Shape, SourcePlace, Announcing, SourceTypes, ThreadTypes, GoSrc
    <3> QED
      BY <2>1, <3>1, <3>2, <3>3, <3>4 DEF Shape, BufferTypes
  <2>3. CASE hb.result = "ok" /\ ~ready[hb.wi]
    <3>1. GoSrc("full") /\ UNCHANGED <<js, loc, cache, size, ready>>
      BY <1>9, <2>3 DEF SrcWoken
    <3>2. ThreadTypes'
      BY <2>1, <3>1 DEF Shape, ThreadTypes, GoSrc, SrcPC
    <3>3. SourcePlace'
      BY <1>9, <2>1, <3>1 DEF SrcWoken, Shape, SourcePlace, Announcing, ThreadTypes, GoSrc
    <3> QED
      BY <2>1, <3>1, <3>2, <3>3 DEF Shape, BufferTypes, SourceTypes
  <2>4. CASE hb.result = "ok" /\ ready[hb.wi]
    <3>1. Prepare(hb.wi) /\ UNCHANGED loc /\ hb.wi \in Slot
      BY <1>9, <2>4 DEF SrcWoken, Shape, SourcePlace
    <3>2. /\ cache' \in [Slot -> Cache] /\ \A i \in Slot : CacheOK(cache'[i])
          /\ size' \in [Slot -> 0 .. SegSize] /\ ready' \in [Slot -> BOOLEAN]
          /\ js' = [js EXCEPT !.pending = "unknown"] /\ pc' \in PCType
          /\ pc' = [pc EXCEPT !.src = "fin"]
      BY <3>1, PrepareShape DEF Shape
    <3>3. BufferTypes'
      BY <2>1, <3>2 DEF Shape, BufferTypes
    <3>4. SourceTypes'
      BY <2>1, <3>2 DEF Shape, SourceTypes
    <3>5. ThreadTypes'
      BY <2>1, <3>1, <3>2 DEF Shape, ThreadTypes, PCType
    <3>6. SourcePlace'
      BY <1>9, <2>1, <3>2 DEF SrcWoken, Shape, SourcePlace, SourceTypes, ThreadTypes, Announcing
    <3> QED
      BY <2>1, <3>3, <3>4, <3>5, <3>6 DEF Shape
  <2> QED
    BY <1>9, <2>2, <2>3, <2>4 DEF SrcWoken
<1>10. CASE SrcRead
  <2>1. OutTypes' /\ BufferTypes' /\ UNCHANGED <<pad, task>> /\ pc.src = "read"
    BY <1>10 DEF SrcRead, Shape, OutTypes, BufferTypes, buffer
  <2>2. CASE java.rest > 0
    <3>1. /\ java' = [java EXCEPT !.rest = @ - 1]
          /\ loc' = [loc EXCEPT !.unit = java.file * SegSize - java.rest + 1]
          /\ GoSrc(IF pad.sink THEN "fin" ELSE "chain") /\ UNCHANGED js
      BY <1>10, <2>2 DEF SrcRead
    <3>2. js.pending = "unknown" /\ java.file \in Segment
      BY <2>1 DEF Shape, SourcePlace
    <3>3. java.rest - 1 \in 0 .. SegSize - 1 /\ java.rest \in Int
      BY <2>2, Constants DEF Shape, SourceTypes
    <3>4. java.file * SegSize \in Int
      BY <3>2, Constants DEF Segment
    <3>5. java.file * SegSize - java.rest + 1 = java.file * SegSize - (java.rest - 1)
      BY <3>3, <3>4
    <3>6. java.file * SegSize - java.rest + 1 \in Units
      BY <3>2, <3>3, <3>5, UnitInTotal DEF Units
    <3>7. /\ java' \in [file: 0 .. NumSegments + 1, rest: 0 .. SegSize]
          /\ java'.file = java.file /\ java'.rest = java.rest - 1
      BY <3>1, <3>3, Constants DEF Shape, SourceTypes
    <3>8. SourceTypes'
      BY <3>1, <3>7 DEF Shape, SourceTypes
    <3>9. pc' \in PCType /\ pc'.src \in {"fin", "chain"} /\ pc'.ctl = pc.ctl
      BY <3>1 DEF Shape, ThreadTypes, PCType, GoSrc, SrcPC
    <3>10. /\ loc' \in [src: Flow, unit: 0 .. Total, buf: Flow, buffer: Seq(Units), target: 0 .. NumSegments]
           /\ loc'.unit = java.file * SegSize - java.rest + 1
      <4>1. java.file * SegSize - java.rest + 1 \in 0 .. Total
        BY <3>6, Constants DEF Units
      <4> QED
        BY <3>1, <4>1 DEF Shape, ThreadTypes
    <3>11. ThreadTypes'
      BY <2>1, <3>9, <3>10 DEF Shape, ThreadTypes, PCType
    <3>12. java'.rest < SegSize
      BY <3>3, <3>7, Constants
    <3>13. loc'.unit = java'.file * SegSize - java'.rest
      BY <3>5, <3>7, <3>10
    <3>14. SourcePlace'
      BY <2>1, <3>1, <3>2, <3>7, <3>9, <3>12, <3>13 DEF Shape, SourcePlace, Announcing
    <3> QED
      BY <2>1, <3>8, <3>11, <3>14 DEF Shape
  <2>3. CASE java.rest = 0
    <3>1. js' = [js EXCEPT !.pending = "newsegment"] /\ GoSrc("size") /\ UNCHANGED <<java, loc>>
      BY <1>10, <2>3 DEF SrcRead
    <3>2. SourceTypes'
      BY <3>1 DEF Shape, SourceTypes
    <3>3. ThreadTypes'
      BY <2>1, <3>1 DEF Shape, ThreadTypes, GoSrc, SrcPC
    <3>4. SourcePlace'
      BY <2>1, <3>1 DEF Shape, SourcePlace, Announcing, SourceTypes, ThreadTypes, GoSrc
    <3> QED
      BY <2>1, <3>2, <3>3, <3>4 DEF Shape
  <2> QED
    BY <1>10, <2>2, <2>3 DEF SrcRead
<1>11. CASE SrcChain
  <2>1. ThreadTypes'
    BY <1>11, Tasks DEF SrcChain, Shape, ThreadTypes, SourceTypes, BufferTypes, Flow,
            GoSrc, GoBuf, GoCtl, SrcPC, BufPC, CtlPC
  <2>2. SourcePlace'
    BY <1>11 DEF SrcChain, Shape, SourcePlace, Announcing, SourceTypes, ThreadTypes, BufferTypes, buffer,
            GoSrc, GoBuf, GoCtl, Segment
  <2> QED
    BY <1>11, <2>1, <2>2 DEF Shape, SrcChain, BufferTypes, buffer, SourceTypes, OutTypes
<1>12. CASE SrcWrite
  <2>1. SourceTypes' /\ OutTypes' /\ UNCHANGED <<java, js, hb, size, ready, pad, task, loc>>
    BY <1>12 DEF SrcWrite, Shape, SourceTypes, OutTypes
  <2>2. CASE hb.wi \in Slot
    <3>1. /\ cache' = [cache EXCEPT ![hb.wi] = cache_write_buffer(cache[hb.wi], <<loc.unit>>)]
          /\ pc' = signal_add([pc EXCEPT !.src = "fin"])
      BY <1>12, <2>2 DEF SrcWrite
    <3>2. loc.unit \in Units
      <4>1. /\ java.rest \in 0 .. SegSize - 1 /\ loc.unit = java.file * SegSize - java.rest
            /\ java.file \in Segment
        BY <1>12, Constants DEF SrcWrite, Shape, SourcePlace, SourceTypes
      <4> QED
        BY <4>1, UnitInTotal DEF Units
    <3>3. BufferTypes'
      <4> DEFINE d == cache_write_buffer(cache[hb.wi], <<loc.unit>>)
      <4>1. CacheOK(cache[hb.wi])
        BY <2>2 DEF Shape, BufferTypes
      <4>2. CacheOK(d)
        BY <3>2, <4>1, WriteFacts
      <4> HIDE DEF d
      <4>3. cache' = [cache EXCEPT ![hb.wi] = d]
        BY <3>1 DEF d
      <4>4. cache' \in [Slot -> Cache] /\ \A i \in Slot : CacheOK(cache'[i])
        BY <4>2, <4>3 DEF Shape, BufferTypes, CacheOK
      <4> QED
        BY <2>1, <4>4 DEF Shape, BufferTypes
    <3>4. [pc EXCEPT !.src = "fin"] \in PCType /\ [pc EXCEPT !.src = "fin"].src = "fin"
          /\ [pc EXCEPT !.src = "fin"].ctl = pc.ctl
      BY DEF Shape, ThreadTypes, PCType, SrcPC
    <3>5. pc' \in PCType /\ pc'.src = "fin" /\ pc'.ctl = pc.ctl
      BY <3>1, <3>4, Signals
    <3>6. ThreadTypes'
      BY <2>1, <3>5 DEF Shape, ThreadTypes, PCType
    <3>7. SourcePlace'
      BY <1>12, <2>1, <3>5 DEF SrcWrite, Shape, SourcePlace, Announcing
    <3> QED
      BY <2>1, <3>3, <3>6, <3>7 DEF Shape
  <2>3. CASE hb.wi \notin Slot
    <3>1. UNCHANGED <<cache, pc>>
      BY <1>12, <2>3 DEF SrcWrite
    <3> QED
      BY <2>1, <3>1 DEF Shape, BufferTypes, ThreadTypes, SourcePlace
  <2> QED
    BY <2>2, <2>3
<1>13. CASE SrcEos
  <2>1. BufferTypes'
    BY <1>13, Constants DEF SrcEos, Shape, BufferTypes, ThreadTypes, Flow
  <2>2. pc' \in PCType /\ pc'.src = "fin" /\ pc'.ctl = pc.ctl
    <3>1. [pc EXCEPT !.src = "fin"] \in PCType /\ [pc EXCEPT !.src = "fin"].src = "fin"
          /\ [pc EXCEPT !.src = "fin"].ctl = pc.ctl
      BY DEF Shape, ThreadTypes, PCType, SrcPC
    <3> QED
      BY <1>13, <3>1, Signals DEF SrcEos, GoSrc
  <2>3. ThreadTypes'
    BY <1>13, <2>2 DEF SrcEos, Shape, ThreadTypes, PCType, Flow
  <2>4. SourcePlace'
    BY <1>13, <2>2 DEF SrcEos, Shape, SourcePlace, Announcing
  <2> QED
    BY <1>13, <2>1, <2>3, <2>4 DEF Shape, SrcEos, SourceTypes, OutTypes
<1>14. CASE SrcFin
  <2>1. SourceTypes'
    BY <1>14, Constants DEF SrcFin, Shape, SourceTypes, ThreadTypes, Flow, Segment
  <2>2. ThreadTypes'
    BY <1>14, Tasks DEF SrcFin, Shape, ThreadTypes, SourceTypes, BufferTypes, Flow,
            GoSrc, GoBuf, GoCtl, SrcPC, BufPC, CtlPC
  <2>3. SourcePlace'
    BY <1>14 DEF SrcFin, Shape, SourcePlace, Announcing, SourceTypes, ThreadTypes, BufferTypes, buffer,
            GoSrc, GoBuf, GoCtl, Segment
  <2> QED
    BY <1>14, <2>1, <2>2, <2>3 DEF Shape, SrcFin, BufferTypes, buffer, OutTypes
<1>15. CASE SrcReadError
  <2>1. ThreadTypes'
    BY <1>15 DEF SrcReadError, Shape, ThreadTypes, Flow, GoSrc, SrcPC
  <2>2. OutTypes'
    <3>1. env' \in [seeks: Nat, faults: Nat, stops: Nat]
      BY <1>15 DEF SrcReadError, Shape, OutTypes
    <3> QED
      BY <1>15, <3>1 DEF SrcReadError, Shape, OutTypes
  <2>3. SourcePlace'
    BY <1>15 DEF SrcReadError, Shape, SourcePlace, Announcing, ThreadTypes, GoSrc, buffer
  <2> QED
    BY <1>15, <2>1, <2>2, <2>3 DEF Shape, SrcReadError, BufferTypes, buffer, SourceTypes
<1> QED
  BY <1>1, <1>2, <1>3, <1>4, <1>5, <1>6, <1>7, <1>8, <1>9, <1>10, <1>11, <1>12, <1>13, <1>14, <1>15

(* The steps of the buffer. *)
LEMMA BufShape ==
    ASSUME Shape, BufTop \/ BufRead \/ BufEos \/ BufWait \/ BufNotOk \/ BufPush \/ BufAfter \/ BufCheck
    PROVE  Shape'
<1>1. CASE BufTop
  <2>1. ThreadTypes'
    BY <1>1, Tasks DEF BufTop, Shape, ThreadTypes, SourceTypes, BufferTypes, Flow,
            GoSrc, GoBuf, GoCtl, SrcPC, BufPC, CtlPC
  <2>2. SourcePlace'
    BY <1>1 DEF BufTop, Shape, SourcePlace, Announcing, SourceTypes, ThreadTypes, BufferTypes, buffer,
            GoSrc, GoBuf, GoCtl, Segment
  <2> QED
    BY <1>1, <2>1, <2>2 DEF Shape, BufTop, BufferTypes, buffer, SourceTypes, OutTypes
<1>2. CASE BufRead
  <2> DEFINE c == cache[hb.ri]
             d == cache_read_buffer(c)
             b == cache_read_data(c)
  <2>1. CacheOK(c) /\ cache_has_enough_data(c) /\ hb.ri \in Slot
    BY <1>2 DEF BufRead, Shape, BufferTypes
  <2>2. CacheOK(d) /\ b \in Seq(Units)
    BY <2>1, ReadFacts
  <2>3. loc' = [loc EXCEPT !.buffer = b] /\ cache' = [cache EXCEPT ![hb.ri] = d]
    BY <1>2 DEF BufRead
  <2> HIDE DEF b, d
  <2>4. cache' \in [Slot -> Cache] /\ \A i \in Slot : CacheOK(cache'[i])
    BY <2>1, <2>2, <2>3 DEF Shape, BufferTypes, CacheOK
  <2>5. PICK s \in Slot : s = (hb.ri + 1) % NumCached
    BY NextSlot DEF Shape, BufferTypes
  <2>6. [pc EXCEPT !.buf = "push"] \in PCType /\ [pc EXCEPT !.buf = "push"].src = pc.src
        /\ [pc EXCEPT !.buf = "push"].ctl = pc.ctl
    BY DEF Shape, ThreadTypes, PCType, BufPC
  <2>7. /\ hb' \in [result: Flow, flushing: BOOLEAN, eos: BOOLEAN, newseg: BOOLEAN,
                    wi: Slot \cup {-1}, ri: Slot]
        /\ hb'.wi = hb.wi /\ hb'.result = hb.result /\ ready' \in [Slot -> BOOLEAN]
    BY <1>2, <2>5 DEF BufRead, Shape, BufferTypes
  <2>8. /\ pc' \in PCType /\ pc'.ctl = pc.ctl
        /\ pc'.src = pc.src \/ (pc.src = "waitdel" /\ pc'.src = "woken")
    <3> DEFINE p == [pc EXCEPT !.buf = "push"]
    <3>1. /\ signal_del(p) \in PCType /\ signal_del(p).ctl = p.ctl
          /\ signal_del(p).src = IF p.src = "waitdel" THEN "woken" ELSE p.src
      BY <2>6, Signals
    <3>2. pc' = signal_del(p) \/ pc' = p
      BY <1>2 DEF BufRead, GoBuf
    <3>3. p \in PCType /\ p.src = pc.src /\ p.ctl = pc.ctl
      BY <2>6
    <3> HIDE DEF p
    <3> QED
      BY <3>1, <3>2, <3>3
  <2>9. BufferTypes'
    BY <1>2, <2>4, <2>7 DEF BufRead, Shape, BufferTypes
  <2>10. ThreadTypes'
    BY <1>2, <2>2, <2>3, <2>8 DEF BufRead, Shape, ThreadTypes, PCType
  <2>11. SourcePlace'
    BY <1>2, <2>3, <2>7, <2>8 DEF BufRead, Shape, SourcePlace, Announcing, ThreadTypes
  <2> QED
    BY <1>2, <2>9, <2>10, <2>11 DEF Shape, BufRead, SourceTypes, OutTypes
<1>3. CASE BufEos
  <2>1. BufferTypes'
    BY <1>3, Constants DEF BufEos, Shape, BufferTypes, ThreadTypes, Flow
  <2>2. ThreadTypes'
    BY <1>3, Tasks DEF BufEos, Shape, ThreadTypes, SourceTypes, BufferTypes, Flow,
            GoSrc, GoBuf, GoCtl, SrcPC, BufPC, CtlPC
  <2>3. OutTypes'
    BY <1>3 DEF BufEos, Shape, OutTypes, ThreadTypes
  <2>4. SourcePlace'
    BY <1>3 DEF BufEos, Shape, SourcePlace, Announcing, SourceTypes, ThreadTypes, BufferTypes, buffer,
            GoSrc, GoBuf, GoCtl, Segment
  <2> QED
    BY <1>3, <2>1, <2>2, <2>3, <2>4 DEF Shape, BufEos, SourceTypes
<1>4. CASE BufWait
  <2>1. ThreadTypes'
    BY <1>4, Tasks DEF BufWait, Shape, ThreadTypes, SourceTypes, BufferTypes, Flow,
            GoSrc, GoBuf, GoCtl, SrcPC, BufPC, CtlPC
  <2>2. SourcePlace'
    BY <1>4 DEF BufWait, Shape, SourcePlace, Announcing, SourceTypes, ThreadTypes, BufferTypes, buffer,
            GoSrc, GoBuf, GoCtl, Segment
  <2> QED
    BY <1>4, <2>1, <2>2 DEF Shape, BufWait, BufferTypes, buffer, SourceTypes, OutTypes
<1>5. CASE BufNotOk
  <2>1. ThreadTypes'
    BY <1>5, Tasks DEF BufNotOk, Shape, ThreadTypes, SourceTypes, BufferTypes, Flow,
            GoSrc, GoBuf, GoCtl, SrcPC, BufPC, CtlPC
  <2>2. SourcePlace'
    BY <1>5 DEF BufNotOk, Shape, SourcePlace, Announcing, SourceTypes, ThreadTypes, BufferTypes, buffer,
            GoSrc, GoBuf, GoCtl, Segment
  <2> QED
    BY <1>5, <2>1, <2>2 DEF Shape, BufNotOk, BufferTypes, buffer, SourceTypes, OutTypes
<1>6. CASE BufPush
  <2>1. <<>> \in Seq(Units) /\ out.data \o loc.buffer \in Seq(Units)
    BY DEF Shape, OutTypes, ThreadTypes
  <2>2. ThreadTypes'
    <3>1. loc' \in [src: Flow, unit: 0 .. Total, buf: Flow, buffer: Seq(Units), target: 0 .. NumSegments]
      BY <1>6, <2>1 DEF BufPush, Shape, ThreadTypes, Flow
    <3>2. pc' \in [src: SrcPC, buf: BufPC, ctl: CtlPC]
      BY <1>6 DEF BufPush, Shape, ThreadTypes, GoBuf, BufPC
    <3> QED
      BY <1>6, <3>1, <3>2 DEF BufPush, Shape, ThreadTypes
  <2>3. OutTypes'
    <3>1. out' \in [data: Seq(Units), eos: BOOLEAN, from: 0 .. Total]
      BY <1>6, <2>1 DEF BufPush, Shape, OutTypes
    <3> QED
      BY <1>6, <3>1 DEF BufPush, Shape, OutTypes
  <2>4. SourcePlace'
    BY <1>6 DEF BufPush, Shape, SourcePlace, Announcing, ThreadTypes, GoBuf, buffer
  <2> QED
    BY <1>6, <2>2, <2>3, <2>4 DEF Shape, BufPush, BufferTypes, buffer, SourceTypes
<1>7. CASE BufAfter
  <2>1. BufferTypes'
    BY <1>7, Constants DEF BufAfter, Shape, BufferTypes, ThreadTypes, Flow
  <2>2. ThreadTypes'
    BY <1>7, Tasks DEF BufAfter, Shape, ThreadTypes, SourceTypes, BufferTypes, Flow,
            GoSrc, GoBuf, GoCtl, SrcPC, BufPC, CtlPC
  <2>3. SourcePlace'
    BY <1>7 DEF BufAfter, Shape, SourcePlace, Announcing, SourceTypes, ThreadTypes, BufferTypes, buffer,
            GoSrc, GoBuf, GoCtl, Segment
  <2> QED
    BY <1>7, <2>1, <2>2, <2>3 DEF Shape, BufAfter, SourceTypes, OutTypes
<1>8. CASE BufCheck
  <2>1. ThreadTypes'
    BY <1>8, Tasks DEF BufCheck, Shape, ThreadTypes, SourceTypes, BufferTypes, Flow,
            GoSrc, GoBuf, GoCtl, SrcPC, BufPC, CtlPC
  <2>2. SourcePlace'
    BY <1>8 DEF BufCheck, Shape, SourcePlace, Announcing, SourceTypes, ThreadTypes, BufferTypes, buffer,
            GoSrc, GoBuf, GoCtl, Segment
  <2> QED
    BY <1>8, <2>1, <2>2 DEF Shape, BufCheck, BufferTypes, buffer, SourceTypes, OutTypes
<1> QED
  BY <1>1, <1>2, <1>3, <1>4, <1>5, <1>6, <1>7, <1>8

(* The steps of a seek and of a stop. *)
LEMMA CtlShape ==
    ASSUME Shape, SeekFlag \/ SeekDown \/ SeekData \/ SeekPause \/ SeekPaused \/ SeekWrong \/ SeekLocked \/ SeekStop \/ StopData \/ StopSrcPad \/ StopJoin \/ StopSinkPad \/ StopDrained \/ StopSource \/ StopClosed
    PROVE  Shape'
<1>1. CASE SeekFlag
  <2>1. BufferTypes'
    BY <1>1, Constants DEF SeekFlag, Shape, BufferTypes, ThreadTypes, Flow
  <2>2. ThreadTypes'
    BY <1>1, Tasks DEF SeekFlag, Shape, ThreadTypes, SourceTypes, BufferTypes, Flow,
            GoSrc, GoBuf, GoCtl, SrcPC, BufPC, CtlPC
  <2>3. SourcePlace'
    BY <1>1 DEF SeekFlag, Shape, SourcePlace, Announcing, SourceTypes, ThreadTypes, BufferTypes, buffer,
            GoSrc, GoBuf, GoCtl, Segment
  <2> QED
    BY <1>1, <2>1, <2>2, <2>3 DEF Shape, SeekFlag, SourceTypes, OutTypes
<1>2. CASE SeekDown
  <2>1. ThreadTypes'
    BY <1>2 DEF SeekDown, Shape, ThreadTypes, GoCtl, CtlPC
  <2>2. OutTypes'
    <3>1. <<>> \in Seq(Units) /\ 0 \in 0 .. Total
      BY Constants
    <3>2. out' \in [data: Seq(Units), eos: BOOLEAN, from: 0 .. Total]
      BY <1>2, <3>1 DEF SeekDown
    <3> QED
      BY <1>2, <3>2 DEF SeekDown, Shape, OutTypes
  <2>3. SourcePlace'
    BY <1>2 DEF SeekDown, Shape, SourcePlace, Announcing, ThreadTypes, GoCtl, buffer
  <2> QED
    BY <1>2, <2>1, <2>2, <2>3 DEF Shape, SeekDown, BufferTypes, buffer, SourceTypes
<1>3. CASE SeekData
  <2>1. "s_pause" \in CtlPC /\ flush_data("s_pause")
    BY <1>3 DEF SeekData, CtlPC
  <2>2. /\ BufferTypes' /\ pc' \in PCType /\ pc'.ctl = "s_pause" /\ hb'.result = "wrong"
        /\ pc'.src = (IF pc.src = "waitdel" THEN "woken" ELSE pc.src)
    BY <2>1, FlushShape DEF Shape
  <2>3. ThreadTypes'
    BY <1>3, <2>2 DEF SeekData, Shape, ThreadTypes, PCType
  <2>4. SourcePlace'
    BY <1>3, <2>2 DEF SeekData, Shape, SourcePlace, Announcing
  <2> QED
    BY <1>3, <2>2, <2>3, <2>4 DEF Shape, SeekData, SourceTypes, OutTypes
<1>4. CASE SeekPause
  <2>1. ThreadTypes'
    BY <1>4, Tasks DEF SeekPause, Shape, ThreadTypes, SourceTypes, BufferTypes, Flow,
            GoSrc, GoBuf, GoCtl, SrcPC, BufPC, CtlPC
  <2>2. SourcePlace'
    BY <1>4 DEF SeekPause, Shape, SourcePlace, Announcing, SourceTypes, ThreadTypes, BufferTypes, buffer,
            GoSrc, GoBuf, GoCtl, Segment
  <2> QED
    BY <1>4, <2>1, <2>2 DEF Shape, SeekPause, BufferTypes, buffer, SourceTypes, OutTypes
<1>5. CASE SeekPaused
  <2>1. ThreadTypes'
    BY <1>5, Tasks DEF SeekPaused, Shape, ThreadTypes, SourceTypes, BufferTypes, Flow,
            GoSrc, GoBuf, GoCtl, SrcPC, BufPC, CtlPC
  <2>2. SourcePlace'
    BY <1>5 DEF SeekPaused, Shape, SourcePlace, Announcing, SourceTypes, ThreadTypes, BufferTypes, buffer,
            GoSrc, GoBuf, GoCtl, Segment
  <2> QED
    BY <1>5, <2>1, <2>2 DEF Shape, SeekPaused, BufferTypes, buffer, SourceTypes, OutTypes
<1>6. CASE SeekWrong
  <2>1. SourceTypes'
    BY <1>6, Constants DEF SeekWrong, Shape, SourceTypes, ThreadTypes, Flow, Segment
  <2>2. ThreadTypes'
    BY <1>6, Tasks DEF SeekWrong, Shape, ThreadTypes, SourceTypes, BufferTypes, Flow,
            GoSrc, GoBuf, GoCtl, SrcPC, BufPC, CtlPC
  <2>3. SourcePlace'
    BY <1>6 DEF SeekWrong, Shape, SourcePlace, Announcing, SourceTypes, ThreadTypes, BufferTypes, buffer,
            GoSrc, GoBuf, GoCtl, Segment
  <2> QED
    BY <1>6, <2>1, <2>2, <2>3 DEF Shape, SeekWrong, BufferTypes, buffer, OutTypes
<1>7. CASE SeekLocked
  <2>1. SourceTypes'
    <3>1. CASE loc.target = 0
      BY <1>7, <3>1 DEF SeekLocked, Shape, SourceTypes, Flow
    <3>2. CASE loc.target # 0
      <4>1. loc.target - 1 \in 0 .. NumSegments + 1
        BY <3>2, Constants DEF Shape, ThreadTypes
      <4>2. /\ java' = [java EXCEPT !.file = loc.target - 1]
            /\ js' = [result |-> "ok", pending |-> "newsegment"]
        BY <1>7, <3>2 DEF SeekLocked
      <4> QED
        BY <4>1, <4>2 DEF Shape, SourceTypes, Flow
    <3> QED
      BY <3>1, <3>2
  <2>2. ThreadTypes'
    BY <1>7, Tasks DEF SeekLocked, Shape, ThreadTypes, SourceTypes, BufferTypes, Flow,
            GoSrc, GoBuf, GoCtl, SrcPC, BufPC, CtlPC
  <2>3. SourcePlace'
    BY <1>7 DEF SeekLocked, Shape, SourcePlace, Announcing, SourceTypes, ThreadTypes, BufferTypes, buffer,
            GoSrc, GoBuf, GoCtl, Segment
  <2> QED
    BY <1>7, <2>1, <2>2, <2>3 DEF Shape, SeekLocked, BufferTypes, buffer, OutTypes
<1>8. CASE SeekStop
  <2>1. BufferTypes'
    BY <1>8, Constants DEF SeekStop, Shape, BufferTypes, Flow
  <2>2. ThreadTypes'
    BY <1>8, Tasks DEF SeekStop, Shape, ThreadTypes, GoCtl, CtlPC
  <2>3. OutTypes'
    <3>1. IF loc.target = 0 THEN 0 \in 0 .. Total ELSE (loc.target - 1) * SegSize + 1 \in 0 .. Total
      <4>1. CASE loc.target = 0
        BY <4>1, Constants
      <4>2. CASE loc.target # 0
        <5>1. loc.target \in Segment /\ SegSize - 1 \in 0 .. SegSize - 1
          BY <4>2, Constants DEF Shape, ThreadTypes, Segment
        <5>2. loc.target * SegSize - (SegSize - 1) \in 1 .. Total
          BY <5>1, UnitInTotal
        <5>3. loc.target * SegSize - (SegSize - 1) = (loc.target - 1) * SegSize + 1
          BY <5>1, Constants DEF Segment
        <5> QED
          BY <4>2, <5>2, <5>3, Constants
      <4> QED
        BY <4>1, <4>2
    <3>2. out' \in [data: Seq(Units), eos: BOOLEAN, from: 0 .. Total]
      BY <1>8, <3>1 DEF SeekStop, Shape, OutTypes
    <3> QED
      BY <1>8, <3>2 DEF SeekStop, Shape, OutTypes
  <2>4. SourcePlace'
    BY <1>8 DEF SeekStop, Shape, SourcePlace, Announcing, ThreadTypes, GoCtl
  <2> QED
    BY <1>8, <2>1, <2>2, <2>3, <2>4 DEF Shape, SeekStop, SourceTypes
<1>9. CASE StopData
  <2>1. "t_src" \in CtlPC /\ flush_data("t_src")
    BY <1>9 DEF StopData, CtlPC
  <2>2. /\ BufferTypes' /\ pc' \in PCType /\ pc'.ctl = "t_src" /\ hb'.result = "wrong"
        /\ pc'.src = (IF pc.src = "waitdel" THEN "woken" ELSE pc.src)
    BY <2>1, FlushShape DEF Shape
  <2>3. ThreadTypes'
    BY <1>9, <2>2 DEF StopData, Shape, ThreadTypes, PCType
  <2>4. SourcePlace'
    BY <1>9, <2>2 DEF StopData, Shape, SourcePlace, Announcing
  <2> QED
    BY <1>9, <2>2, <2>3, <2>4 DEF Shape, StopData, SourceTypes, OutTypes
<1>10. CASE StopSrcPad
  <2>1. BufferTypes'
    BY <1>10 DEF StopSrcPad, Shape, BufferTypes, Flow
  <2>2. /\ pc' \in PCType /\ pc'.ctl = "t_join"
        /\ pc'.src = (IF pc.src = "waitdel" THEN "woken" ELSE pc.src)
    <3>1. /\ [pc EXCEPT !.ctl = "t_join"] \in PCType
          /\ [pc EXCEPT !.ctl = "t_join"].src = pc.src
          /\ [pc EXCEPT !.ctl = "t_join"].ctl = "t_join"
      BY DEF Shape, ThreadTypes, PCType, CtlPC
    <3> DEFINE p == [pc EXCEPT !.ctl = "t_join"]
               q == signal_del(p)
    <3>2. /\ q \in PCType /\ q.ctl = p.ctl
          /\ q.src = IF p.src = "waitdel" THEN "woken" ELSE p.src
      BY <3>1, Signals
    <3>3. pc' = signal_add(q)
      BY <1>10 DEF StopSrcPad
    <3> HIDE DEF p, q
    <3>4. pc' \in PCType /\ pc'.ctl = q.ctl /\ pc'.src = q.src
      BY <3>2, <3>3, Signals
    <3> QED
      BY <3>1, <3>2, <3>4 DEF p
  <2>3. ThreadTypes'
    BY <1>10, <2>2 DEF StopSrcPad, Shape, ThreadTypes, PCType
  <2>4. SourcePlace'
    BY <1>10, <2>2 DEF StopSrcPad, Shape, SourcePlace, Announcing, BufferTypes
  <2> QED
    BY <1>10, <2>1, <2>3, <2>4 DEF Shape, StopSrcPad, SourceTypes, OutTypes
<1>11. CASE StopJoin
  <2>1. ThreadTypes'
    BY <1>11, Tasks DEF StopJoin, Shape, ThreadTypes, SourceTypes, BufferTypes, Flow,
            GoSrc, GoBuf, GoCtl, SrcPC, BufPC, CtlPC
  <2>2. SourcePlace'
    BY <1>11 DEF StopJoin, Shape, SourcePlace, Announcing, SourceTypes, ThreadTypes, BufferTypes, buffer,
            GoSrc, GoBuf, GoCtl, Segment
  <2> QED
    BY <1>11, <2>1, <2>2 DEF Shape, StopJoin, BufferTypes, buffer, SourceTypes, OutTypes
<1>12. CASE StopSinkPad
  <2>1. ThreadTypes'
    BY <1>12, Tasks DEF StopSinkPad, Shape, ThreadTypes, SourceTypes, BufferTypes, Flow,
            GoSrc, GoBuf, GoCtl, SrcPC, BufPC, CtlPC
  <2>2. SourcePlace'
    BY <1>12 DEF StopSinkPad, Shape, SourcePlace, Announcing, SourceTypes, ThreadTypes, BufferTypes, buffer,
            GoSrc, GoBuf, GoCtl, Segment
  <2> QED
    BY <1>12, <2>1, <2>2 DEF Shape, StopSinkPad, BufferTypes, buffer, SourceTypes, OutTypes
<1>13. CASE StopDrained
  <2>1. ThreadTypes'
    BY <1>13, Tasks DEF StopDrained, Shape, ThreadTypes, SourceTypes, BufferTypes, Flow,
            GoSrc, GoBuf, GoCtl, SrcPC, BufPC, CtlPC
  <2>2. SourcePlace'
    BY <1>13 DEF StopDrained, Shape, SourcePlace, Announcing, SourceTypes, ThreadTypes, BufferTypes, buffer,
            GoSrc, GoBuf, GoCtl, Segment
  <2> QED
    BY <1>13, <2>1, <2>2 DEF Shape, StopDrained, BufferTypes, buffer, SourceTypes, OutTypes
<1>14. CASE StopSource
  <2>1. SourceTypes'
    BY <1>14, Constants DEF StopSource, Shape, SourceTypes, ThreadTypes, Flow, Segment
  <2>2. ThreadTypes'
    BY <1>14, Tasks DEF StopSource, Shape, ThreadTypes, SourceTypes, BufferTypes, Flow,
            GoSrc, GoBuf, GoCtl, SrcPC, BufPC, CtlPC
  <2>3. SourcePlace'
    BY <1>14 DEF StopSource, Shape, SourcePlace, Announcing, SourceTypes, ThreadTypes, BufferTypes, buffer,
            GoSrc, GoBuf, GoCtl, Segment
  <2> QED
    BY <1>14, <2>1, <2>2, <2>3 DEF Shape, StopSource, BufferTypes, buffer, OutTypes
<1>15. CASE StopClosed
  <2>1. ThreadTypes'
    BY <1>15, Tasks DEF StopClosed, Shape, ThreadTypes, SourceTypes, BufferTypes, Flow,
            GoSrc, GoBuf, GoCtl, SrcPC, BufPC, CtlPC
  <2>2. SourcePlace'
    BY <1>15 DEF StopClosed, Shape, SourcePlace, Announcing, SourceTypes, ThreadTypes, BufferTypes, buffer,
            GoSrc, GoBuf, GoCtl, Segment
  <2> QED
    BY <1>15, <2>1, <2>2 DEF Shape, StopClosed, BufferTypes, buffer, SourceTypes, OutTypes
<1> QED
  BY <1>1, <1>2, <1>3, <1>4, <1>5, <1>6, <1>7, <1>8, <1>9, <1>10, <1>11, <1>12, <1>13, <1>14, <1>15

(* The beginning of a seek and of a stop. *)
LEMMA BeginShape ==
    ASSUME Shape, (\E t \in Targets : SeekBegin(t)) \/ StopBegin
    PROVE  Shape'
<1>1. ASSUME NEW t \in Targets, SeekBegin(t)
      PROVE  Shape'
  <2>1. ThreadTypes'
    BY <1>1, Constants DEF SeekBegin, Shape, ThreadTypes, GoCtl, CtlPC
  <2>2. OutTypes'
    <3>1. env' \in [seeks: Nat, faults: Nat, stops: Nat]
      BY <1>1 DEF SeekBegin, Shape, OutTypes
    <3> QED
      BY <1>1, <3>1 DEF SeekBegin, Shape, OutTypes
  <2>3. SourcePlace'
    BY <1>1 DEF SeekBegin, Shape, SourcePlace, Announcing, ThreadTypes, GoCtl, buffer
  <2> QED
    BY <1>1, <2>1, <2>2, <2>3 DEF Shape, SeekBegin, BufferTypes, buffer, SourceTypes
<1>2. CASE StopBegin
  <2>1. ThreadTypes'
    BY <1>2 DEF StopBegin, Shape, ThreadTypes, GoCtl, CtlPC
  <2>2. OutTypes'
    <3>1. env' \in [seeks: Nat, faults: Nat, stops: Nat]
      BY <1>2 DEF StopBegin, Shape, OutTypes
    <3> QED
      BY <1>2, <3>1 DEF StopBegin, Shape, OutTypes
  <2>3. SourcePlace'
    BY <1>2 DEF StopBegin, Shape, SourcePlace, Announcing, ThreadTypes, GoCtl, buffer
  <2> QED
    BY <1>2, <2>1, <2>2, <2>3 DEF Shape, StopBegin, BufferTypes, buffer, SourceTypes
<1> QED
  BY <1>1, <1>2

LEMMA ShapeKept == Shape /\ [Next]_vars => Shape'
<1> SUFFICES ASSUME Shape, [Next]_vars PROVE Shape'
  OBVIOUS
<1>1. CASE SrcStep \/ SrcReadError
  BY <1>1, SrcShape DEF SrcStep
<1>2. CASE BufStep
  BY <1>2, BufShape DEF BufStep
<1>3. CASE CtlStep
  BY <1>3, CtlShape DEF CtlStep
<1>4. CASE (\E t \in Targets : SeekBegin(t)) \/ StopBegin
  BY <1>4, BeginShape
<1>5. CASE UNCHANGED vars
  BY <1>5 DEF vars, buffer, Shape, BufferTypes, SourceTypes, ThreadTypes, OutTypes, SourcePlace
<1> QED
  BY <1>1, <1>2, <1>3, <1>4, <1>5 DEF Next, EnvStep

LEMMA ShapeHolds == Spec => []Shape
<1>1. Init => Shape
  BY InitShape
<1>2. Shape /\ [Next]_vars => Shape'
  BY ShapeKept
<1> QED
  BY <1>1, <1>2, PTL DEF Spec

(* The types: in particular the positions of every slot stay inside its    *)
(* file, the units written and pushed are units of the playlist, and a     *)
(* seek reports a position of it.                                          *)
THEOREM TypeCorrect == Spec => []TypeOK
<1>1. Shape => TypeOK
  <2> SUFFICES ASSUME Shape PROVE TypeOK
    OBVIOUS
  <2>1. ASSUME NEW i \in Slot
        PROVE  /\ cache[i].rd \in 0 .. cache[i].wr
               /\ cache[i].wr \in 0 .. Len(cache[i].file)
               /\ cache[i].file \in Seq(1 .. Total)
    BY DEF Shape, BufferTypes, CacheOK, Cache, Units
  <2>2. loc.buffer \in Seq(1 .. Total) /\ out.data \in Seq(1 .. Total)
    BY DEF Shape, ThreadTypes, OutTypes, Units
  <2> QED
    BY <2>1, <2>2 DEF TypeOK, Shape, BufferTypes, SourceTypes, ThreadTypes, OutTypes
<1> QED
  BY <1>1, ShapeHolds, PTL
-----------------------------------------------------------------------------
(* The index of chain.                                                     *)

(* What a step does to the places of the threads. *)
LEMMA Moves ==
    ASSUME Shape
    PROVE  /\ \A l : GoSrc(l) => pc'.src = l /\ pc'.buf = pc.buf /\ pc'.ctl = pc.ctl
           /\ \A l : GoBuf(l) => pc'.src = pc.src /\ pc'.buf = l /\ pc'.ctl = pc.ctl
           /\ \A l : GoCtl(l) => pc'.src = pc.src /\ pc'.buf = pc.buf /\ pc'.ctl = l
           /\ pc' = signal_add([pc EXCEPT !.src = "fin"]) =>
                /\ pc'.src = "fin" /\ pc'.ctl = pc.ctl
                /\ pc'.buf = IF pc.buf = "waitadd" THEN "loop" ELSE pc.buf
           /\ pc' = signal_del([pc EXCEPT !.buf = "push"]) =>
                /\ pc'.buf = "push" /\ pc'.ctl = pc.ctl
                /\ pc'.src = IF pc.src = "waitdel" THEN "woken" ELSE pc.src
           /\ \A l : pc' = signal_add(signal_del([pc EXCEPT !.ctl = l])) =>
                /\ pc'.ctl = l
                /\ pc'.buf = (IF pc.buf = "waitadd" THEN "loop" ELSE pc.buf)
                /\ pc'.src = (IF pc.src = "waitdel" THEN "woken" ELSE pc.src)
<1>1. pc = [src |-> pc.src, buf |-> pc.buf, ctl |-> pc.ctl]
  BY DEF Shape, ThreadTypes
<1>2. \A l : [pc EXCEPT !.src = l] = [src |-> l, buf |-> pc.buf, ctl |-> pc.ctl]
  BY <1>1
<1>3. \A l : [pc EXCEPT !.buf = l] = [src |-> pc.src, buf |-> l, ctl |-> pc.ctl]
  BY <1>1
<1>4. \A l : [pc EXCEPT !.ctl = l] = [src |-> pc.src, buf |-> pc.buf, ctl |-> l]
  BY <1>1
<1>5. /\ \A l : GoSrc(l) => pc'.src = l /\ pc'.buf = pc.buf /\ pc'.ctl = pc.ctl
      /\ \A l : GoBuf(l) => pc'.src = pc.src /\ pc'.buf = l /\ pc'.ctl = pc.ctl
      /\ \A l : GoCtl(l) => pc'.src = pc.src /\ pc'.buf = pc.buf /\ pc'.ctl = l
  BY <1>2, <1>3, <1>4 DEF GoSrc, GoBuf, GoCtl
<1>6. pc' = signal_add([pc EXCEPT !.src = "fin"]) =>
                /\ pc'.src = "fin" /\ pc'.ctl = pc.ctl
                /\ pc'.buf = IF pc.buf = "waitadd" THEN "loop" ELSE pc.buf
  BY <1>2 DEF signal_add
<1>7. pc' = signal_del([pc EXCEPT !.buf = "push"]) =>
                /\ pc'.buf = "push" /\ pc'.ctl = pc.ctl
                /\ pc'.src = IF pc.src = "waitdel" THEN "woken" ELSE pc.src
  BY <1>3 DEF signal_del
<1>8. ASSUME NEW l, pc' = signal_add(signal_del([pc EXCEPT !.ctl = l]))
      PROVE     /\ pc'.ctl = l
                /\ pc'.buf = (IF pc.buf = "waitadd" THEN "loop" ELSE pc.buf)
                /\ pc'.src = (IF pc.src = "waitdel" THEN "woken" ELSE pc.src)
  <2>1. signal_del([pc EXCEPT !.ctl = l]) = [src |-> IF pc.src = "waitdel" THEN "woken" ELSE pc.src, buf |-> pc.buf, ctl |-> l]
    BY <1>4 DEF signal_del
  <2> QED
    BY <1>8, <2>1 DEF signal_add
<1> QED
  BY <1>5, <1>6, <1>7, <1>8

(* While a seek is under way the sink pad is flushing.  Before any seek or *)
(* stop the source has a slot from its first segment on, and the buffer    *)
(* ends only when the source has.                                          *)
Seeking == {"s_flag", "s_down", "s_data", "s_pause", "s_wait", "s_wrong", "s_lock", "s_stop"}

Bounds ==
    /\ pc.ctl \in Seeking => pad.sink
    /\ ~flushed =>
         /\ pc.ctl = "idle" /\ ~pad.sink /\ ~pad.down /\ ~stray
         /\ pc.buf = "after" => loc.buf = "ok"
         /\ hb.result # "ok" => hb.eos
         /\ hb.eos => js.pending = "eos"
         /\ js.pending = "unknown" \/ pc.src \in {"full", "waitdel", "woken"} => hb.wi \in Slot

LEMMA BoundsKept ==
    ASSUME Shape, Bounds, [Next]_vars
    PROVE  Bounds'
<1>1. CASE SrcTop
  BY <1>1, Moves DEF SrcTop, Bounds, Seeking, Shape, BufferTypes, SourceTypes, ThreadTypes,
          OutTypes, SourcePlace, Announcing, buffer
<1>2. CASE SrcUnpark
  BY <1>2, Moves DEF SrcUnpark, Bounds, Seeking, Shape, BufferTypes, SourceTypes, ThreadTypes,
          OutTypes, SourcePlace, Announcing, buffer
<1>3. CASE SrcSize
  BY <1>3, Moves DEF SrcSize, Bounds, Seeking, Shape, BufferTypes, SourceTypes, ThreadTypes,
          OutTypes, SourcePlace, Announcing, buffer
<1>4. CASE SrcNewSegment
  BY <1>4, Moves DEF SrcNewSegment, Bounds, Seeking, Shape, BufferTypes, SourceTypes, ThreadTypes,
          OutTypes, SourcePlace, Announcing, buffer
<1>5. CASE SrcAccept
  BY <1>5, Moves DEF SrcAccept, Bounds, Seeking, Shape, BufferTypes, SourceTypes, ThreadTypes,
          OutTypes, SourcePlace, Announcing, buffer
<1>6. CASE SrcRestart
  BY <1>6, Moves DEF SrcRestart, Bounds, Seeking, Shape, BufferTypes, SourceTypes, ThreadTypes,
          OutTypes, SourcePlace, Announcing, buffer
<1>7. CASE SrcTake
  <2>1. UNCHANGED <<pad, loc, flushed, stray>> /\ pc.src = "take" /\ pc'.ctl = pc.ctl /\ pc'.buf = pc.buf
    BY <1>7, Moves DEF SrcTake, Prepare
  <2>2. hb'.wi \in Slot /\ hb'.result = hb.result /\ hb'.eos = hb.eos
    BY <1>7, NextSlot DEF SrcTake, Shape, BufferTypes
  <2>3. js.pending = "newsegment"
    BY <2>1 DEF Shape, SourcePlace, Announcing
  <2> QED
    BY <2>1, <2>2, <2>3 DEF Bounds
<1>8. CASE SrcFull
  BY <1>8, Moves DEF SrcFull, Bounds, Seeking, Shape, BufferTypes, SourceTypes, ThreadTypes,
          OutTypes, SourcePlace, Announcing, buffer
<1>9. CASE SrcWoken
  <2>1. UNCHANGED <<hb, pad, flushed, stray>> /\ pc.src = "woken" /\ pc'.ctl = pc.ctl /\ pc'.buf = pc.buf
    BY <1>9, Moves DEF SrcWoken, Prepare
  <2>2. loc'.buf = loc.buf
    BY <1>9 DEF SrcWoken, Shape, ThreadTypes
  <2>3. js.pending = "newsegment"
    BY <2>1 DEF Shape, SourcePlace, Announcing
  <2> QED
    BY <2>1, <2>2, <2>3 DEF Bounds
<1>10. CASE SrcRead
  BY <1>10, Moves DEF SrcRead, Bounds, Seeking, Shape, BufferTypes, SourceTypes, ThreadTypes,
          OutTypes, SourcePlace, Announcing, buffer
<1>11. CASE SrcChain
  BY <1>11, Moves DEF SrcChain, Bounds, Seeking, Shape, BufferTypes, SourceTypes, ThreadTypes,
          OutTypes, SourcePlace, Announcing, buffer
<1>12. CASE SrcWrite
  BY <1>12, Moves DEF SrcWrite, Bounds, Seeking, Shape, BufferTypes, SourceTypes, ThreadTypes,
          OutTypes, SourcePlace, Announcing, buffer
<1>13. CASE SrcEos
  BY <1>13, Moves DEF SrcEos, Bounds, Seeking, Shape, BufferTypes, SourceTypes, ThreadTypes,
          OutTypes, SourcePlace, Announcing, buffer
<1>14. CASE SrcFin
  BY <1>14, Moves DEF SrcFin, Bounds, Seeking, Shape, BufferTypes, SourceTypes, ThreadTypes,
          OutTypes, SourcePlace, Announcing, buffer
<1>15. CASE SrcReadError
  BY <1>15, Moves DEF SrcReadError, Bounds, Seeking, Shape, BufferTypes, SourceTypes, ThreadTypes,
          OutTypes, SourcePlace, Announcing, buffer
<1>16. CASE BufTop
  BY <1>16, Moves DEF BufTop, Bounds, Seeking, Shape, BufferTypes, SourceTypes, ThreadTypes,
          OutTypes, SourcePlace, Announcing, buffer
<1>17. CASE BufRead
  <2>1. /\ pc'.ctl = pc.ctl /\ pc'.buf = "push"
        /\ pc'.src = pc.src \/ (pc.src = "waitdel" /\ pc'.src = "woken")
    BY <1>17, Moves DEF BufRead
  <2>2. hb'.result = hb.result /\ hb'.eos = hb.eos /\ hb'.wi = hb.wi
    BY <1>17 DEF BufRead, Shape, BufferTypes
  <2> QED
    BY <1>17, <2>1, <2>2 DEF BufRead, Bounds
<1>18. CASE BufEos
  BY <1>18, Moves DEF BufEos, Bounds, Seeking, Shape, BufferTypes, SourceTypes, ThreadTypes,
          OutTypes, SourcePlace, Announcing, buffer
<1>19. CASE BufWait
  BY <1>19, Moves DEF BufWait, Bounds, Seeking, Shape, BufferTypes, SourceTypes, ThreadTypes,
          OutTypes, SourcePlace, Announcing, buffer
<1>20. CASE BufNotOk
  BY <1>20, Moves DEF BufNotOk, Bounds, Seeking, Shape, BufferTypes, SourceTypes, ThreadTypes,
          OutTypes, SourcePlace, Announcing, buffer
<1>21. CASE BufPush
  BY <1>21, Moves DEF BufPush, Bounds, Seeking, Shape, BufferTypes, SourceTypes, ThreadTypes,
          OutTypes, SourcePlace, Announcing, buffer
<1>22. CASE BufAfter
  BY <1>22, Moves DEF BufAfter, Bounds, Seeking, Shape, BufferTypes, SourceTypes, ThreadTypes,
          OutTypes, SourcePlace, Announcing, buffer
<1>23. CASE BufCheck
  BY <1>23, Moves DEF BufCheck, Bounds, Seeking, Shape, BufferTypes, SourceTypes, ThreadTypes,
          OutTypes, SourcePlace, Announcing, buffer
<1>24. CASE SeekFlag
  BY <1>24, Moves DEF SeekFlag, Bounds, Seeking, Shape, BufferTypes, SourceTypes, ThreadTypes,
          OutTypes, SourcePlace, Announcing, buffer
<1>25. CASE SeekDown
  BY <1>25, Moves DEF SeekDown, Bounds, Seeking, Shape, BufferTypes, SourceTypes, ThreadTypes,
          OutTypes, SourcePlace, Announcing, buffer
<1>26. CASE SeekData
  BY <1>26, Moves DEF SeekData, Bounds, Seeking, Shape, BufferTypes, SourceTypes, ThreadTypes,
          OutTypes, SourcePlace, Announcing, buffer
<1>27. CASE SeekPause
  BY <1>27, Moves DEF SeekPause, Bounds, Seeking, Shape, BufferTypes, SourceTypes, ThreadTypes,
          OutTypes, SourcePlace, Announcing, buffer
<1>28. CASE SeekPaused
  BY <1>28, Moves DEF SeekPaused, Bounds, Seeking, Shape, BufferTypes, SourceTypes, ThreadTypes,
          OutTypes, SourcePlace, Announcing, buffer
<1>29. CASE SeekWrong
  BY <1>29, Moves DEF SeekWrong, Bounds, Seeking, Shape, BufferTypes, SourceTypes, ThreadTypes,
          OutTypes, SourcePlace, Announcing, buffer
<1>30. CASE SeekLocked
  BY <1>30, Moves DEF SeekLocked, Bounds, Seeking, Shape, BufferTypes, SourceTypes, ThreadTypes,
          OutTypes, SourcePlace, Announcing, buffer
<1>31. CASE SeekStop
  BY <1>31, Moves DEF SeekStop, Bounds, Seeking, Shape, BufferTypes, SourceTypes, ThreadTypes,
          OutTypes, SourcePlace, Announcing, buffer
<1>32. CASE StopData
  <2>1. pc'.ctl = "t_src" /\ flushed' = flushed /\ flushed
    BY <1>32, Moves DEF StopData, flush_data, Bounds
  <2> QED
    BY <2>1 DEF Bounds, Seeking
<1>33. CASE StopSrcPad
  <2>1. pc'.ctl = "t_join" /\ flushed' = flushed /\ flushed
    BY <1>33, Moves DEF StopSrcPad, Bounds
  <2> QED
    BY <2>1 DEF Bounds, Seeking
<1>34. CASE StopJoin
  BY <1>34, Moves DEF StopJoin, Bounds, Seeking, Shape, BufferTypes, SourceTypes, ThreadTypes,
          OutTypes, SourcePlace, Announcing, buffer
<1>35. CASE StopSinkPad
  BY <1>35, Moves DEF StopSinkPad, Bounds, Seeking, Shape, BufferTypes, SourceTypes, ThreadTypes,
          OutTypes, SourcePlace, Announcing, buffer
<1>36. CASE StopDrained
  BY <1>36, Moves DEF StopDrained, Bounds, Seeking, Shape, BufferTypes, SourceTypes, ThreadTypes,
          OutTypes, SourcePlace, Announcing, buffer
<1>37. CASE StopSource
  BY <1>37, Moves DEF StopSource, Bounds, Seeking, Shape, BufferTypes, SourceTypes, ThreadTypes,
          OutTypes, SourcePlace, Announcing, buffer
<1>38. CASE StopClosed
  BY <1>38, Moves DEF StopClosed, Bounds, Seeking, Shape, BufferTypes, SourceTypes, ThreadTypes,
          OutTypes, SourcePlace, Announcing, buffer
<1>39. CASE (\E t \in Targets : SeekBegin(t)) \/ StopBegin
  BY <1>39, Moves DEF SeekBegin, StopBegin, Bounds, Seeking, Shape, ThreadTypes
<1>40. CASE UNCHANGED vars
  BY <1>40 DEF vars, buffer, Bounds
<1> QED
  BY <1>1, <1>2, <1>3, <1>4, <1>5, <1>6, <1>7, <1>8, <1>9, <1>10, <1>11, <1>12, <1>13, <1>14, <1>15, <1>16, <1>17, <1>18, <1>19, <1>20, <1>21, <1>22, <1>23, <1>24, <1>25, <1>26, <1>27, <1>28, <1>29, <1>30, <1>31, <1>32, <1>33, <1>34, <1>35, <1>36, <1>37, <1>38, <1>39, <1>40 DEF Next, SrcStep, BufStep, CtlStep, EnvStep

(* Before any seek or stop chain never indexes the slots with -1.          *)
THEOREM IndexInBounds == Spec => []InBounds
<1>1. Init => Bounds
  BY DEF Init, Bounds, Seeking
<1>2. Shape /\ Bounds /\ [Next]_vars => Bounds'
  BY BoundsKept
<1>3. Bounds => InBounds
  BY DEF Bounds, InBounds
<1> QED
  BY <1>1, <1>2, <1>3, ShapeHolds, PTL DEF Spec
-----------------------------------------------------------------------------
(* The slots.                                                              *)

(* While the buffer streams, a slot holds at most its segment, and one     *)
(* that is ready is read to its end.  At the restart the result is about   *)
(* to be made ok again.                                                    *)
GivenBack ==
    hb.result = "ok" \/ pc.src = "restart" =>
        \A i \in Slot : /\ cache[i].wr <= size[i]
                        /\ ready[i] => cache[i].rd = size[i]

(* The source reads a segment that chain will store. *)
Storing ==
    /\ js.pending = "unknown"
    /\ \/ pc.src \in {"read", "chain", "write"}
       \/ pc.src \in {"top", "parked"} /\ js.result = "ok"
       \/ pc.src = "fin" /\ js.result = "ok" /\ loc.src = "ok"

(* the unit the source has in hand *)
Held == IF pc.src \in {"chain", "write"} THEN 1 ELSE 0

(* Then what is left of it fits in the slot taken. *)
Fits ==
    hb.result = "ok" /\ hb.wi \in Slot /\ Storing =>
        /\ size[hb.wi] = SegSize
        /\ cache[hb.wi].wr + Held + java.rest <= SegSize

(* From flush_data to the end of a seek nothing is written, and the source *)
(* takes at most one slot.                                                 *)
Emptied ==
    pc.ctl \in {"s_pause", "s_wait", "s_wrong", "s_lock", "s_stop"} =>
        /\ \A i \in Slot : cache[i].wr = 0 /\ (ready[i] => size[i] = 0)
        /\ hb.wi = -1 => \A i \in Slot : ready[i]
        /\ hb.wi \in Slot => size[hb.wi] = SegSize
        /\ pc.src \in {"accept", "restart", "take", "full", "waitdel", "woken", "chain", "write"}
             => hb.wi = -1

SlotsInv == GivenBack /\ Fits /\ Emptied

LEMMA SlotsKept ==
    ASSUME Shape, Bounds, SlotsInv, [Next]_vars
    PROVE  SlotsInv'
<1>1. CASE SrcTop
  BY <1>1, Moves DEF SrcTop, SlotsInv, GivenBack, Fits, Storing, Held, Emptied, Bounds, Seeking,
          Shape, BufferTypes, SourceTypes, ThreadTypes, SourcePlace, Announcing, buffer
<1>2. CASE SrcUnpark
  BY <1>2, Moves DEF SrcUnpark, SlotsInv, GivenBack, Fits, Storing, Held, Emptied, Bounds, Seeking,
          Shape, BufferTypes, SourceTypes, ThreadTypes, SourcePlace, Announcing, buffer
<1>3. CASE SrcSize
  BY <1>3, Moves DEF SrcSize, SlotsInv, GivenBack, Fits, Storing, Held, Emptied, Bounds, Seeking,
          Shape, BufferTypes, SourceTypes, ThreadTypes, SourcePlace, Announcing, buffer
<1>4. CASE SrcNewSegment
  BY <1>4, Moves DEF SrcNewSegment, SlotsInv, GivenBack, Fits, Storing, Held, Emptied, Bounds, Seeking,
          Shape, BufferTypes, SourceTypes, ThreadTypes, SourcePlace, Announcing, buffer
<1>5. CASE SrcAccept
  BY <1>5, Moves DEF SrcAccept, SlotsInv, GivenBack, Fits, Storing, Held, Emptied, Bounds, Seeking,
          Shape, BufferTypes, SourceTypes, ThreadTypes, SourcePlace, Announcing, buffer
<1>6. CASE SrcRestart
  BY <1>6, Moves DEF SrcRestart, SlotsInv, GivenBack, Fits, Storing, Held, Emptied, Bounds, Seeking,
          Shape, BufferTypes, SourceTypes, ThreadTypes, SourcePlace, Announcing, buffer
<1>7. CASE SrcTake
  <2>1. PICK w \in Slot : w = (hb.wi + 1) % NumCached
    BY NextSlot DEF Shape, BufferTypes
  <2>2. /\ hb'.wi = w /\ hb'.result = hb.result /\ pc.src = "take" /\ pc'.ctl = pc.ctl
        /\ UNCHANGED <<java, loc>> /\ w # -1
    BY <1>7, <2>1, Moves, Constants DEF SrcTake, Prepare, Shape, BufferTypes, Slot
  <2>3. js.pending = "newsegment" /\ java.rest = SegSize /\ java.rest \in Nat
    BY <2>2, Constants DEF Shape, SourcePlace, Announcing
  <2>4. CASE hb.result = "ok" /\ ~ready[w]
    <3>1. pc'.src = "full" /\ UNCHANGED <<js, cache, size, ready>>
      BY <1>7, <2>1, <2>4, Moves DEF SrcTake
    <3>2. pc.ctl \notin {"s_pause", "s_wait", "s_wrong", "s_lock", "s_stop"}
      BY <2>2, <2>4 DEF SlotsInv, Emptied
    <3> QED
      BY <2>2, <2>3, <3>1, <3>2 DEF SlotsInv, GivenBack, Fits, Storing, Emptied
  <2>5. CASE ~(hb.result = "ok" /\ ~ready[w])
    <3>1. Prepare(w)
      BY <1>7, <2>1, <2>5 DEF SrcTake, Shape, BufferTypes
    <3>2. pc'.src = "fin"
      BY <3>1, Moves DEF Prepare
    <3>3. /\ cache'[w].wr = 0 /\ size'[w] = SegSize /\ ~ready'[w]
          /\ \A i \in Slot \ {w} :
               cache'[i] = cache[i] /\ size'[i] = size[i] /\ ready'[i] = ready[i]
      BY <3>1, PrepareShape DEF Shape
    <3>4. GivenBack'
      BY <2>2, <2>3, <3>2, <3>3 DEF SlotsInv, GivenBack
    <3>5. Fits'
      <4>1. 0 + 0 + SegSize <= SegSize /\ Held' = 0
        BY <3>2, Constants DEF Held
      <4> QED
        BY <2>2, <2>3, <3>3, <4>1 DEF Fits
    <3>6. Emptied'
      BY <2>2, <3>2, <3>3 DEF SlotsInv, Emptied
    <3> QED
      BY <3>4, <3>5, <3>6 DEF SlotsInv
  <2> QED
    BY <2>4, <2>5
<1>8. CASE SrcFull
  BY <1>8, Moves DEF SrcFull, SlotsInv, GivenBack, Fits, Storing, Held, Emptied, Bounds, Seeking,
          Shape, BufferTypes, SourceTypes, ThreadTypes, SourcePlace, Announcing, buffer
<1>9. CASE SrcWoken
  <2>1. pc.src = "woken" /\ pc'.ctl = pc.ctl /\ UNCHANGED <<java, hb>>
    BY <1>9, Moves DEF SrcWoken, Prepare
  <2>2. /\ js.pending = "newsegment" /\ java.rest = SegSize /\ java.rest \in Nat
        /\ hb.result = "ok" => hb.wi \in Slot
    BY <2>1, Constants DEF Shape, SourcePlace, Announcing
  <2>3. CASE hb.result # "ok"
    <3>1. pc'.src = "fin" /\ UNCHANGED <<cache, size, ready>>
      BY <1>9, <2>3, Moves DEF SrcWoken
    <3> QED
      BY <2>1, <2>3, <3>1 DEF SlotsInv, GivenBack, Fits, Emptied
  <2>4. CASE hb.result = "ok" /\ ~ready[hb.wi]
    <3>1. pc'.src = "full" /\ UNCHANGED <<js, cache, size, ready>>
      BY <1>9, <2>4, Moves DEF SrcWoken
    <3> QED
      BY <2>1, <2>2, <2>4, <3>1 DEF SlotsInv, GivenBack, Fits, Storing, Emptied
  <2>5. CASE hb.result = "ok" /\ ready[hb.wi]
    <3>1. Prepare(hb.wi) /\ hb.wi \in Slot /\ hb.wi # -1
      BY <1>9, <2>2, <2>5, Constants DEF SrcWoken, Slot
    <3>2. pc'.src = "fin"
      BY <3>1, Moves DEF Prepare
    <3>3. /\ cache'[hb.wi].wr = 0 /\ size'[hb.wi] = SegSize /\ ~ready'[hb.wi]
          /\ \A i \in Slot \ {hb.wi} :
               cache'[i] = cache[i] /\ size'[i] = size[i] /\ ready'[i] = ready[i]
      BY <3>1, PrepareShape DEF Shape
    <3>4. GivenBack'
      BY <2>1, <2>2, <2>5, <3>2, <3>3 DEF SlotsInv, GivenBack
    <3>5. Fits'
      <4>1. 0 + 0 + SegSize <= SegSize /\ Held' = 0
        BY <3>2, Constants DEF Held
      <4> QED
        BY <2>1, <2>2, <3>3, <4>1 DEF Fits
    <3>6. Emptied'
      BY <2>1, <3>1, <3>2, <3>3 DEF SlotsInv, Emptied
    <3> QED
      BY <3>4, <3>5, <3>6 DEF SlotsInv
  <2> QED
    BY <1>9, <2>3, <2>4, <2>5 DEF SrcWoken
<1>10. CASE SrcRead
  <2>1. pc.src = "read" /\ pc'.ctl = pc.ctl /\ UNCHANGED <<buffer, pad>> /\ pc'.src \in {"fin", "chain", "size"}
    BY <1>10, Moves DEF SrcRead
  <2>2. GivenBack'
    BY <2>1 DEF SlotsInv, GivenBack, buffer
  <2>3. Fits'
    <3>1. CASE java.rest = 0
      <4>1. js'.pending = "newsegment"
        BY <1>10, <3>1 DEF SrcRead, Shape, SourceTypes
      <4> QED
        BY <4>1 DEF Fits, Storing
    <3>2. CASE java.rest > 0
      <4>1. java'.rest = java.rest - 1 /\ java.rest \in Nat /\ js.pending = "unknown"
        BY <1>10, <3>2, Constants DEF SrcRead, Shape, SourceTypes, SourcePlace
      <4>2. Held = 0 /\ Held' \in {0, 1}
        BY <2>1 DEF Held
      <4>3. ASSUME hb.result = "ok", hb.wi \in Slot
            PROVE  size[hb.wi] = SegSize /\ cache[hb.wi].wr + Held' + java'.rest <= SegSize
        <5>1. size[hb.wi] = SegSize /\ cache[hb.wi].wr + Held + java.rest <= SegSize
          BY <2>1, <4>1, <4>3 DEF SlotsInv, Fits, Storing
        <5>2. cache[hb.wi].wr \in Nat
          BY <4>3 DEF Shape, BufferTypes, Cache
        <5> QED
          BY <4>1, <4>2, <5>1, <5>2, Constants
      <4> QED
        BY <2>1, <4>3 DEF Fits, buffer
    <3> QED
      BY <3>1, <3>2 DEF Shape, SourceTypes
  <2>4. Emptied'
    BY <1>10, <2>1, Moves DEF SrcRead, SlotsInv, Emptied, Bounds, Seeking, buffer
  <2> QED
    BY <2>2, <2>3, <2>4 DEF SlotsInv
<1>11. CASE SrcChain
  BY <1>11, Moves DEF SrcChain, SlotsInv, GivenBack, Fits, Storing, Held, Emptied, Bounds, Seeking,
          Shape, BufferTypes, SourceTypes, ThreadTypes, SourcePlace, Announcing, buffer
<1>12. CASE SrcWrite
  <2>1. pc.src = "write" /\ UNCHANGED <<java, js, hb, size, ready, loc>>
    BY <1>12 DEF SrcWrite
  <2>2. CASE hb.wi \notin Slot
    BY <1>12, <2>2 DEF SrcWrite, SlotsInv, GivenBack, Fits, Storing, Held, Emptied
  <2>3. CASE hb.wi \in Slot
    <3>1. pc'.src = "fin" /\ pc'.ctl = pc.ctl
      BY <1>12, <2>3, Moves DEF SrcWrite
    <3>2. /\ js.pending = "unknown" /\ java.rest \in 0 .. SegSize - 1 /\ java.file \in Segment
          /\ loc.unit = java.file * SegSize - java.rest
      BY <2>1, Constants DEF Shape, SourcePlace, SourceTypes
    <3>3. loc.unit \in Units
      BY <3>2, UnitInTotal DEF Units
    <3>4. CacheOK(cache[hb.wi])
      BY <2>3 DEF Shape, BufferTypes
    <3> DEFINE d == cache_write_buffer(cache[hb.wi], <<loc.unit>>)
    <3>5. d.wr = cache[hb.wi].wr + 1 /\ d.rd = cache[hb.wi].rd
      BY <3>3, <3>4, WriteFacts
    <3>6. cache' = [cache EXCEPT ![hb.wi] = d]
      BY <1>12, <2>3 DEF SrcWrite
    <3> HIDE DEF d
    <3>7. cache'[hb.wi] = d /\ \A i \in Slot \ {hb.wi} : cache'[i] = cache[i]
      BY <2>3, <3>6 DEF Shape, BufferTypes
    <3>8. cache[hb.wi].wr \in Nat /\ cache[hb.wi].rd \in Nat /\ cache[hb.wi].rd <= cache[hb.wi].wr
      BY <3>4 DEF CacheOK, Cache
    <3>9. hb.result = "ok" => size[hb.wi] = SegSize /\ cache[hb.wi].wr + 1 + java.rest <= SegSize
      BY <2>1, <2>3, <3>2 DEF SlotsInv, Fits, Storing, Held
    <3>10. GivenBack'
      <4>1. SUFFICES ASSUME hb.result = "ok", NEW i \in Slot
                     PROVE  cache'[i].wr <= size[i] /\ (ready[i] => cache'[i].rd = size[i])
        BY <2>1, <3>1 DEF GivenBack
      <4>2. CASE i = hb.wi
        <5>1. cache[i].wr + 1 <= size[i]
          BY <3>2, <3>8, <3>9, <4>1, <4>2, Constants
        <5>2. ~ready[i]
          BY <3>8, <4>1, <4>2, <5>1, <3>9, Constants DEF SlotsInv, GivenBack
        <5> QED
          BY <3>5, <3>7, <4>2, <5>1, <5>2
      <4>3. CASE i # hb.wi
        BY <3>7, <4>1, <4>3 DEF SlotsInv, GivenBack
      <4> QED
        BY <4>2, <4>3
    <3>11. Fits'
      <4>1. Held' = 0
        BY <3>1 DEF Held
      <4>2. hb.result = "ok" => cache[hb.wi].wr + 1 + 0 + java.rest <= SegSize
        BY <3>2, <3>8, <3>9, Constants
      <4> QED
        BY <2>1, <3>5, <3>7, <3>9, <4>1, <4>2 DEF Fits
    <3>12. Emptied'
      <4>1. hb.wi # -1
        BY <2>3, Constants DEF Slot
      <4> QED
        BY <2>1, <3>1, <4>1 DEF SlotsInv, Emptied
    <3> QED
      BY <3>10, <3>11, <3>12 DEF SlotsInv
  <2> QED
    BY <2>2, <2>3
<1>13. CASE SrcEos
  BY <1>13, Moves DEF SrcEos, SlotsInv, GivenBack, Fits, Storing, Held, Emptied, Bounds, Seeking,
          Shape, BufferTypes, SourceTypes, ThreadTypes, SourcePlace, Announcing, buffer
<1>14. CASE SrcFin
  BY <1>14, Moves DEF SrcFin, SlotsInv, GivenBack, Fits, Storing, Held, Emptied, Bounds, Seeking,
          Shape, BufferTypes, SourceTypes, ThreadTypes, SourcePlace, Announcing, buffer
<1>15. CASE SrcReadError
  BY <1>15, Moves DEF SrcReadError, SlotsInv, GivenBack, Fits, Storing, Held, Emptied, Bounds, Seeking,
          Shape, BufferTypes, SourceTypes, ThreadTypes, SourcePlace, Announcing, buffer
<1>16. CASE BufTop
  BY <1>16, Moves DEF BufTop, SlotsInv, GivenBack, Fits, Storing, Held, Emptied, Bounds, Seeking,
          Shape, BufferTypes, SourceTypes, ThreadTypes, SourcePlace, Announcing, buffer
<1>17. CASE BufRead
  <2> DEFINE d == cache_read_buffer(cache[hb.ri])
  <2>1. /\ CacheOK(cache[hb.ri]) /\ cache_has_enough_data(cache[hb.ri])
        /\ hb.ri \in Slot /\ hb.result = "ok" /\ UNCHANGED <<java, js, size, pad>>
    BY <1>17 DEF BufRead, Shape, BufferTypes
  <2>2. CacheOK(d) /\ d.wr = cache[hb.ri].wr /\ d.rd > cache[hb.ri].rd
    BY <2>1, ReadFacts
  <2>3. cache' = [cache EXCEPT ![hb.ri] = d]
    BY <1>17 DEF BufRead
  <2>4. /\ pc'.ctl = pc.ctl
        /\ pc'.src = pc.src \/ (pc.src = "waitdel" /\ pc'.src = "woken")
    BY <1>17, Moves DEF BufRead
  <2>5. /\ hb'.wi = hb.wi /\ hb'.result = hb.result /\ loc'.src = loc.src
        /\ \/ ready' = ready
           \/ ready' = [ready EXCEPT ![hb.ri] = TRUE] /\ d.rd = size[hb.ri]
    BY <1>17 DEF BufRead, ReadToEnd, Shape, BufferTypes, ThreadTypes
  <2> HIDE DEF d
  <2>6. cache'[hb.ri] = d /\ \A i \in Slot \ {hb.ri} : cache'[i] = cache[i]
    BY <2>1, <2>3 DEF Shape, BufferTypes
  <2>7. \A i \in Slot : cache'[i].wr = cache[i].wr
    BY <2>2, <2>6
  <2>8. cache[hb.ri].wr \in Nat /\ cache[hb.ri].rd \in Nat /\ cache[hb.ri].rd < cache[hb.ri].wr
    BY <2>1 DEF CacheOK, Cache, cache_has_enough_data
  <2>9. GivenBack'
    <3>1. \A i \in Slot : /\ cache[i].wr <= size[i]
                          /\ ready[i] => cache[i].rd = size[i]
      BY <2>1 DEF SlotsInv, GivenBack
    <3>2. ~ready[hb.ri]
      <4>1. cache[hb.ri].wr <= size[hb.ri] /\ (ready[hb.ri] => cache[hb.ri].rd = size[hb.ri])
        BY <2>1, <3>1
      <4> QED
        BY <2>8, <4>1
    <3>3. ASSUME NEW i \in Slot, ready'[i]
          PROVE  cache'[i].rd = size[i]
      <4>1. CASE i = hb.ri
        BY <2>5, <2>6, <3>2, <3>3, <4>1
      <4>2. CASE i # hb.ri
        BY <2>1, <2>5, <2>6, <3>1, <3>3, <4>2 DEF Shape, BufferTypes
      <4> QED
        BY <4>1, <4>2
    <3> QED
      BY <2>1, <2>7, <3>1, <3>3 DEF GivenBack
  <2>10. Fits'
    BY <2>1, <2>4, <2>5, <2>7 DEF SlotsInv, Fits, Storing, Held
  <2>11. Emptied'
    <3>1. pc.ctl \notin {"s_pause", "s_wait", "s_wrong", "s_lock", "s_stop"}
      BY <2>1, <2>8 DEF SlotsInv, Emptied
    <3> QED
      BY <2>4, <3>1 DEF Emptied
  <2> QED
    BY <2>9, <2>10, <2>11 DEF SlotsInv
<1>18. CASE BufEos
  BY <1>18, Moves DEF BufEos, SlotsInv, GivenBack, Fits, Storing, Held, Emptied, Bounds, Seeking,
          Shape, BufferTypes, SourceTypes, ThreadTypes, SourcePlace, Announcing, buffer
<1>19. CASE BufWait
  BY <1>19, Moves DEF BufWait, SlotsInv, GivenBack, Fits, Storing, Held, Emptied, Bounds, Seeking,
          Shape, BufferTypes, SourceTypes, ThreadTypes, SourcePlace, Announcing, buffer
<1>20. CASE BufNotOk
  BY <1>20, Moves DEF BufNotOk, SlotsInv, GivenBack, Fits, Storing, Held, Emptied, Bounds, Seeking,
          Shape, BufferTypes, SourceTypes, ThreadTypes, SourcePlace, Announcing, buffer
<1>21. CASE BufPush
  BY <1>21, Moves DEF BufPush, SlotsInv, GivenBack, Fits, Storing, Held, Emptied, Bounds, Seeking,
          Shape, BufferTypes, SourceTypes, ThreadTypes, SourcePlace, Announcing, buffer
<1>22. CASE BufAfter
  BY <1>22, Moves DEF BufAfter, SlotsInv, GivenBack, Fits, Storing, Held, Emptied, Bounds, Seeking,
          Shape, BufferTypes, SourceTypes, ThreadTypes, SourcePlace, Announcing, buffer
<1>23. CASE BufCheck
  BY <1>23, Moves DEF BufCheck, SlotsInv, GivenBack, Fits, Storing, Held, Emptied, Bounds, Seeking,
          Shape, BufferTypes, SourceTypes, ThreadTypes, SourcePlace, Announcing, buffer
<1>24. CASE SeekFlag
  BY <1>24, Moves DEF SeekFlag, SlotsInv, GivenBack, Fits, Storing, Held, Emptied, Bounds, Seeking,
          Shape, BufferTypes, SourceTypes, ThreadTypes, SourcePlace, Announcing, buffer
<1>25. CASE SeekDown
  BY <1>25, Moves DEF SeekDown, SlotsInv, GivenBack, Fits, Storing, Held, Emptied, Bounds, Seeking,
          Shape, BufferTypes, SourceTypes, ThreadTypes, SourcePlace, Announcing, buffer
<1>26. CASE SeekData
  <2>1. "s_pause" \in CtlPC /\ flush_data("s_pause")
    BY <1>26 DEF SeekData, CtlPC
  <2>2. /\ pc'.ctl = "s_pause" /\ hb'.result = "wrong" /\ hb'.wi = -1
        /\ \A i \in Slot : ready'[i] /\ cache'[i].rd = 0 /\ cache'[i].wr = 0 /\ size'[i] = 0
    BY <2>1, FlushShape DEF Shape
  <2>3. -1 \notin Slot /\ 0 <= 0
    BY Constants DEF Slot
  <2> QED
    BY <2>2, <2>3 DEF SlotsInv, GivenBack, Fits, Emptied
<1>27. CASE SeekPause
  BY <1>27, Moves DEF SeekPause, SlotsInv, GivenBack, Fits, Storing, Held, Emptied, Bounds, Seeking,
          Shape, BufferTypes, SourceTypes, ThreadTypes, SourcePlace, Announcing, buffer
<1>28. CASE SeekPaused
  BY <1>28, Moves DEF SeekPaused, SlotsInv, GivenBack, Fits, Storing, Held, Emptied, Bounds, Seeking,
          Shape, BufferTypes, SourceTypes, ThreadTypes, SourcePlace, Announcing, buffer
<1>29. CASE SeekWrong
  BY <1>29, Moves DEF SeekWrong, SlotsInv, GivenBack, Fits, Storing, Held, Emptied, Bounds, Seeking,
          Shape, BufferTypes, SourceTypes, ThreadTypes, SourcePlace, Announcing, buffer
<1>30. CASE SeekLocked
  BY <1>30, Moves DEF SeekLocked, SlotsInv, GivenBack, Fits, Storing, Held, Emptied, Bounds, Seeking,
          Shape, BufferTypes, SourceTypes, ThreadTypes, SourcePlace, Announcing, buffer
<1>31. CASE SeekStop
  <2>1. /\ hb'.wi = hb.wi /\ UNCHANGED <<java, js, cache, size, ready>>
        /\ pc.ctl = "s_stop" /\ pc'.ctl = "idle" /\ pc'.src = pc.src /\ pc.src = "parked"
    BY <1>31, Moves DEF SeekStop, Shape, BufferTypes, SourcePlace
  <2>2. GivenBack'
    <3>1. ASSUME NEW i \in Slot
          PROVE  cache[i].wr <= size[i] /\ (ready[i] => cache[i].rd = size[i])
      <4>1. cache[i].wr = 0 /\ (ready[i] => size[i] = 0)
        BY <2>1 DEF SlotsInv, Emptied
      <4>2. cache[i].rd \in Nat /\ cache[i].rd <= cache[i].wr /\ size[i] \in 0 .. SegSize
        BY DEF Shape, BufferTypes, CacheOK, Cache
      <4> QED
        BY <4>1, <4>2, Constants
    <3> QED
      BY <2>1, <3>1 DEF GivenBack
  <2>3. Fits'
    <3>1. ASSUME hb.wi \in Slot
          PROVE  size[hb.wi] = SegSize /\ cache[hb.wi].wr + Held' + java.rest <= SegSize
      <4>1. size[hb.wi] = SegSize /\ cache[hb.wi].wr = 0 /\ Held' = 0
        BY <2>1, <3>1 DEF SlotsInv, Emptied, Held
      <4> QED
        BY <4>1, Constants DEF Shape, SourceTypes
    <3> QED
      BY <2>1, <3>1 DEF Fits
  <2>4. Emptied'
    BY <2>1 DEF Emptied
  <2> QED
    BY <2>2, <2>3, <2>4 DEF SlotsInv
<1>32. CASE StopData
  <2>1. "t_src" \in CtlPC /\ flush_data("t_src")
    BY <1>32 DEF StopData, CtlPC
  <2>2. /\ pc'.ctl = "t_src" /\ hb'.result = "wrong" /\ hb'.wi = -1
        /\ \A i \in Slot : ready'[i] /\ cache'[i].rd = 0 /\ cache'[i].wr = 0 /\ size'[i] = 0
    BY <2>1, FlushShape DEF Shape
  <2>3. -1 \notin Slot /\ 0 <= 0
    BY Constants DEF Slot
  <2> QED
    BY <2>2, <2>3 DEF SlotsInv, GivenBack, Fits, Emptied
<1>33. CASE StopSrcPad
  <2>1. /\ hb'.result = "wrong" /\ pc'.ctl = "t_join" /\ UNCHANGED <<cache, size, ready>>
        /\ pc'.src = "restart" => pc.src = "restart"
    BY <1>33, Moves DEF StopSrcPad, Shape, BufferTypes
  <2> QED
    BY <2>1 DEF SlotsInv, GivenBack, Fits, Emptied
<1>34. CASE StopJoin
  BY <1>34, Moves DEF StopJoin, SlotsInv, GivenBack, Fits, Storing, Held, Emptied, Bounds, Seeking,
          Shape, BufferTypes, SourceTypes, ThreadTypes, SourcePlace, Announcing, buffer
<1>35. CASE StopSinkPad
  BY <1>35, Moves DEF StopSinkPad, SlotsInv, GivenBack, Fits, Storing, Held, Emptied, Bounds, Seeking,
          Shape, BufferTypes, SourceTypes, ThreadTypes, SourcePlace, Announcing, buffer
<1>36. CASE StopDrained
  BY <1>36, Moves DEF StopDrained, SlotsInv, GivenBack, Fits, Storing, Held, Emptied, Bounds, Seeking,
          Shape, BufferTypes, SourceTypes, ThreadTypes, SourcePlace, Announcing, buffer
<1>37. CASE StopSource
  BY <1>37, Moves DEF StopSource, SlotsInv, GivenBack, Fits, Storing, Held, Emptied, Bounds, Seeking,
          Shape, BufferTypes, SourceTypes, ThreadTypes, SourcePlace, Announcing, buffer
<1>38. CASE StopClosed
  BY <1>38, Moves DEF StopClosed, SlotsInv, GivenBack, Fits, Storing, Held, Emptied, Bounds, Seeking,
          Shape, BufferTypes, SourceTypes, ThreadTypes, SourcePlace, Announcing, buffer
<1>39. CASE (\E t \in Targets : SeekBegin(t)) \/ StopBegin
  <2>1. /\ UNCHANGED <<java, js, buffer>> /\ loc'.src = loc.src
        /\ pc'.src = pc.src /\ pc'.ctl \in {"s_flag", "t_data"}
    BY <1>39, Moves DEF SeekBegin, StopBegin, Shape, ThreadTypes
  <2> QED
    BY <2>1 DEF SlotsInv, GivenBack, Fits, Storing, Held, Emptied, buffer
<1>40. CASE UNCHANGED vars
  BY <1>40 DEF vars, buffer, SlotsInv, GivenBack, Fits, Storing, Held, Emptied
<1> QED
  BY <1>1, <1>2, <1>3, <1>4, <1>5, <1>6, <1>7, <1>8, <1>9, <1>10, <1>11, <1>12, <1>13, <1>14, <1>15, <1>16, <1>17, <1>18, <1>19, <1>20, <1>21, <1>22, <1>23, <1>24, <1>25, <1>26, <1>27, <1>28, <1>29, <1>30, <1>31, <1>32, <1>33, <1>34, <1>35, <1>36, <1>37, <1>38, <1>39, <1>40 DEF Next, SrcStep, BufStep, CtlStep, EnvStep
LEMMA SlotsHold == Spec => [](Shape /\ Bounds /\ SlotsInv)
<1>1. Init => Bounds
  BY DEF Init, Bounds, Seeking
<1>2. Init => SlotsInv
  <2> SUFFICES ASSUME Init PROVE SlotsInv
    OBVIOUS
  <2>1. \A i \in Slot : cache[i].wr = 0 /\ cache[i].rd = 0 /\ size[i] = 0
    BY DEF Init, create_cache
  <2>2. hb.wi = -1 /\ pc.ctl = "idle" /\ -1 \notin Slot /\ 0 <= 0
    BY Constants DEF Init, Slot
  <2> QED
    BY <2>1, <2>2 DEF SlotsInv, GivenBack, Fits, Emptied
<1>3. Shape /\ Bounds /\ [Next]_vars => Bounds'
  BY BoundsKept
<1>4. Shape /\ Bounds /\ SlotsInv /\ [Next]_vars => SlotsInv'
  BY SlotsKept
<1> QED
  BY <1>1, <1>2, <1>3, <1>4, ShapeHolds, PTL DEF Spec

(* A write position moves back only in a flush, or in a slot that was      *)
(* given back and read to its end.                                         *)
LEMMA OverwriteStep ==
    ASSUME Shape, SlotsInv, [Next]_vars
    PROVE  \A i \in Slot :
              cache'[i].wr < cache[i].wr =>
                  \/ hb'.result # "ok"
                  \/ ready[i] /\ cache[i].rd = size[i]
<1> SUFFICES ASSUME NEW i \in Slot, cache'[i].wr < cache[i].wr, hb'.result = "ok"
             PROVE  ready[i] /\ cache[i].rd = size[i]
  OBVIOUS
<1>1. CacheOK(cache[i]) /\ cache[i].wr \in Nat
  BY DEF Shape, BufferTypes, Cache
<1>2. ~UNCHANGED cache
  BY <1>1
<1>3. CASE \E w \in Slot : Prepare(w) /\ hb.result = "ok" /\ ready[w]
  <2>1. PICK w \in Slot : Prepare(w) /\ hb.result = "ok" /\ ready[w]
    BY <1>3
  <2>2. \A k \in Slot \ {w} : cache'[k] = cache[k]
    BY <2>1, PrepareShape DEF Shape
  <2>3. i = w
    BY <1>1, <2>2
  <2> QED
    BY <2>1, <2>3 DEF SlotsInv, GivenBack
<1>4. CASE SrcTake
  <2>1. hb'.result = hb.result
    BY <1>4 DEF SrcTake, Shape, BufferTypes
  <2>2. (hb.wi + 1) % NumCached \in Slot
    BY NextSlot DEF Shape, BufferTypes
  <2> QED
    BY <1>2, <1>3, <1>4, <2>1, <2>2 DEF SrcTake
<1>5. CASE SrcWoken
  <2>1. hb' = hb /\ (hb.result = "ok" => hb.wi \in Slot)
    BY <1>5 DEF SrcWoken, Shape, SourcePlace
  <2> QED
    BY <1>2, <1>3, <1>5, <2>1 DEF SrcWoken
<1>6. CASE SrcWrite
  <2>1. hb.wi \in Slot /\ cache' = [cache EXCEPT ![hb.wi] = cache_write_buffer(@, <<loc.unit>>)]
    BY <1>2, <1>6 DEF SrcWrite
  <2>2. java.rest \in 0 .. SegSize - 1 /\ java.file \in Segment /\ loc.unit = java.file * SegSize - java.rest
    BY <1>6, Constants DEF SrcWrite, Shape, SourcePlace, SourceTypes
  <2>3. loc.unit \in Units
    BY <2>2, UnitInTotal DEF Units
  <2> DEFINE d == cache_write_buffer(cache[i], <<loc.unit>>)
  <2>4. d.wr = cache[i].wr + 1
    BY <1>1, <2>3, WriteFacts
  <2>5. cache'[i] = d \/ cache'[i] = cache[i]
    BY <2>1 DEF Shape, BufferTypes
  <2> HIDE DEF d
  <2> QED
    BY <1>1, <2>4, <2>5
<1>7. CASE BufRead
  <2> DEFINE d == cache_read_buffer(cache[hb.ri])
  <2>1. hb.ri \in Slot /\ cache_has_enough_data(cache[hb.ri]) /\ CacheOK(cache[hb.ri])
    BY <1>7 DEF BufRead, Shape, BufferTypes
  <2>2. d.wr = cache[hb.ri].wr
    BY <2>1, ReadFacts
  <2>3. cache' = [cache EXCEPT ![hb.ri] = d]
    BY <1>7 DEF BufRead
  <2> HIDE DEF d
  <2>4. cache'[i].wr = cache[i].wr
    BY <2>1, <2>2, <2>3 DEF Shape, BufferTypes
  <2> QED
    BY <1>1, <2>4
<1>8. CASE SeekData \/ StopData
  <2>1. hb'.result = "wrong"
    BY <1>8 DEF SeekData, StopData, flush_data, Shape, BufferTypes
  <2> QED
    BY <2>1
<1> QED
  BY <1>2, <1>4, <1>5, <1>6, <1>7, <1>8 DEF Next, SrcStep, BufStep, CtlStep, EnvStep, vars, buffer,
         SrcTop, SrcUnpark, SrcSize, SrcNewSegment, SrcAccept, SrcRestart, SrcFull,
         SrcRead, SrcChain, SrcEos, SrcFin, SrcReadError, BufTop, BufEos, BufWait,
         BufNotOk, BufPush, BufAfter, BufCheck, SeekFlag, SeekDown, SeekPause,
         SeekPaused, SeekWrong, SeekLocked, SeekStop, StopSrcPad, StopJoin, StopSinkPad,
         StopDrained, StopSource, StopClosed, SeekBegin, StopBegin

(* A segment that is not read to its end is never emptied for the next one *)
(* except by a flush.                                                      *)
THEOREM SlotsNotOverwritten == Spec => NoOverwrite
<1>1. Shape /\ SlotsInv /\ [Next]_vars =>
        [\A i \in Slot : cache'[i].wr < cache[i].wr =>
            \/ hb'.result # "ok"
            \/ ready[i] /\ cache[i].rd = size[i]]_vars
  BY OverwriteStep
<1> QED
  BY <1>1, SlotsHold, PTL DEF Spec, NoOverwrite
-----------------------------------------------------------------------------
(* The stream: what is pushed downstream is in order.                      *)

(* The slots are used in a circle. *)
After(i) == IF i = NumCached - 1 THEN 0 ELSE i + 1
Before(i) == IF i = 0 THEN NumCached - 1 ELSE i - 1

(* how far slot i is ahead of slot r *)
Ahead(r, i) == IF i >= r THEN i - r ELSE i - r + NumCached

(* The slot that was taken last; while the source waits for a slot to be   *)
(* free, that is not the slot it has already moved to.                     *)
Newest == IF pc.src \in {"full", "waitdel", "woken"} THEN Before(hb.wi) ELSE hb.wi

(* The slots in use are those from the one that is read to the newest.     *)
Ring ==
    /\ IF ready[hb.ri] THEN (\A i \in Slot : ready[i]) /\ After(Newest) = hb.ri
       ELSE Newest \in Slot /\ \A i \in Slot : ready[i] <=> Ahead(hb.ri, i) > Ahead(hb.ri, Newest)
    /\ \A i \in Slot : ~ready[i] =>
         size[i] = SegSize /\ cache[i].rd < SegSize /\ (i # hb.ri => cache[i].rd = 0)

(* The number of the next unit the source has for the buffer. *)
Position ==
    IF js.pending = "unknown" \/ pc.src \in Announcing THEN java.file * SegSize - java.rest + 1 - Held
    ELSE IF js.pending = "newsegment" /\ java.file <= NumSegments THEN java.file * SegSize + 1
    ELSE Total + 1

(* What it has will be stored; a flushing pad refuses it. *)
Linked == ~pad.sink \/ pc.src = "write"

(* Slot i holds the units from base[i] on, and where it is full the next   *)
(* slot goes on.                                                           *)
Runs(base) ==
    \A i \in Slot : ~ready[i] =>
        /\ \A j \in 1 .. cache[i].wr : cache[i].file[j] = base[i] + j - 1
        /\ i # Newest /\ cache[i].wr = SegSize => base[After(i)] = base[i] + SegSize

(* The source goes on at p, behind what the newest slot holds. *)
GoesOn(base, p) ==
    /\ Newest \in Slot => (~ready[Newest] => p = base[Newest] + cache[Newest].wr)
    /\ Linked => p = Position

(* what was pushed or is about to be, and the number of what comes next    *)
Pushed == out.data \o loc.buffer
Upcoming(base, p) == IF ready[hb.ri] THEN p ELSE base[hb.ri] + cache[hb.ri].rd

EndsAt(n) ==
    /\ \A i \in 1 .. Len(Pushed) : Pushed[i] = n - Len(Pushed) + i - 1
    /\ out.from # 0 => n = out.from + Len(Pushed)

InSequence ==
    \E base \in [Slot -> Int], p \in Int :
        Runs(base) /\ GoesOn(base, p) /\ EndsAt(Upcoming(base, p))

(* A flush, on its way: what it has emptied stays empty until the restart, *)
(* and the loop that reads the slots has nothing to push.                  *)
Flushing ==
    /\ hb.flushing => pad.sink
    /\ pc.buf # "push" => loc.buffer = <<>>
    /\ pc.ctl \in Seeking => pad.sink
    /\ pc.ctl \in Seeking \ {"s_flag", "s_down"} => pad.down /\ out.data = <<>>
    /\ pad.down <=> pc.ctl \notin {"idle", "s_flag", "s_down"}
    /\ pc.ctl \in {"idle"} \cup Seeking => task["buf"] # "stopped"
    /\ pc.ctl \in {"s_pause", "s_wait", "s_wrong", "s_lock", "s_stop"} =>
         hb.ri = 0 /\ hb.wi \in {-1, 0} /\ \A i \in Slot : ready[i] <=> i # hb.wi
    /\ pc.ctl \in {"s_wait", "s_wrong", "s_lock", "s_stop"} /\ hb.eos => task["buf"] = "paused"
    /\ pc.ctl \in {"s_wrong", "s_lock", "s_stop"} =>
         pc.buf \notin {"push", "after"} /\ (hb.eos => pc.buf = "parked")
    /\ pc.ctl = "s_stop" /\ loc.target # 0 =>
         java.file = loc.target - 1 /\ js.pending = "newsegment"

(* The buffer stops streaming only at the end of the stream.  A seek from  *)
(* there leaves is_eos set until the next segment is announced: nothing is *)
(* stored or read before that.                                             *)
Ended ==
    /\ hb.result # "ok" => hb.eos /\ js.pending = "eos"
    /\ hb.eos /\ js.pending # "eos" =>
         /\ pc.buf = "parked" /\ task["buf"] = "paused"
         /\ Pushed = <<>> /\ \A i \in Slot : cache[i].wr = 0
         /\ js.pending = "unknown" /\ ~pad.sink => out.from = 0
    /\ pc.buf = "after" => loc.buf = "ok"
    /\ pc.src \in {"take", "full", "waitdel", "woken", "write"} => ~hb.eos
    /\ pc.src \notin {"top", "fin", "parked", "gone"} => js.result = "ok"

(* Before any flush nothing is dropped: the slots in use are full but for  *)
(* the newest, which misses what is left of its segment.                   *)
Filling ==
    /\ \A i \in Slot : ~ready[i] /\ i # Newest => cache[i].wr = SegSize
    /\ Newest \in Slot =>
         cache[Newest].wr = IF js.pending = "unknown" THEN SegSize - java.rest - Held ELSE SegSize

Announced == out.eos => hb.result # "ok" /\ pc.buf # "push" /\ Len(out.data) = Total

Whole == ~flushed => out.from = 1 /\ Filling /\ Announced

StreamInv ==
    /\ Flushing /\ Whole
    /\ ~pad.down => Ended /\ Ring /\ InSequence

(* The circle. *)
LEMMA AfterFacts ==
    /\ \A i \in Slot : /\ After(i) \in Slot /\ Before(i) \in Slot
                       /\ After(Before(i)) = i /\ Before(After(i)) = i
    /\ After(-1) = 0
    /\ \A i, j \in Slot : After(i) = After(j) => i = j
    /\ \A i \in Slot \cup {-1} : (i + 1) % NumCached = After(i)
<1>1. NumCached \in Nat \ {0} /\ Slot = 0 .. NumCached - 1
  BY Constants DEF Slot
<1> QED
  BY <1>1, NextSlot DEF After, Before

LEMMA AheadFacts ==
    ASSUME NEW r \in Slot
    PROVE  /\ \A i \in Slot : Ahead(r, i) \in 0 .. NumCached - 1 /\ (Ahead(r, i) = 0 <=> i = r)
           /\ \A i, j \in Slot : Ahead(r, i) = Ahead(r, j) => i = j
           /\ \A i \in Slot : After(i) # r => Ahead(r, After(i)) = Ahead(r, i) + 1
           /\ \A i \in Slot : i # r => Ahead(After(r), i) = Ahead(r, i) - 1
           /\ \A i \in Slot : Ahead(After(r), r) = NumCached - 1
<1>1. NumCached \in Nat \ {0} /\ Slot = 0 .. NumCached - 1
  BY Constants DEF Slot
<1> QED
  BY <1>1 DEF After, Ahead

LEMMA NewestFacts ==
    ASSUME Shape
    PROVE  /\ pc.src \notin {"full", "waitdel", "woken"} => Newest = hb.wi
           /\ hb.wi \in Slot => Newest \in Slot
           /\ hb.wi \in Slot \cup {-1} /\ hb.ri \in Slot
  BY AfterFacts DEF Newest, Shape, BufferTypes

LEMMA FlushingKept ==
    ASSUME Shape, SlotsInv, StreamInv, [Next]_vars
    PROVE  Flushing'
<1>1. CASE SrcTop
  BY <1>1, Moves DEF SrcTop, StreamInv, SlotsInv, Flushing, Emptied, Seeking, Shape,
    BufferTypes, SourceTypes, ThreadTypes, SourcePlace, Announcing, buffer
<1>2. CASE SrcUnpark
  BY <1>2, Moves DEF SrcUnpark, StreamInv, SlotsInv, Flushing, Emptied, Seeking, Shape,
    BufferTypes, SourceTypes, ThreadTypes, SourcePlace, Announcing, buffer
<1>3. CASE SrcSize
  BY <1>3, Moves DEF SrcSize, StreamInv, SlotsInv, Flushing, Emptied, Seeking, Shape,
    BufferTypes, SourceTypes, ThreadTypes, SourcePlace, Announcing, buffer
<1>4. CASE SrcNewSegment
  BY <1>4, Moves DEF SrcNewSegment, StreamInv, SlotsInv, Flushing, Emptied, Seeking,
    Shape, BufferTypes, SourceTypes, ThreadTypes, SourcePlace, Announcing, buffer
<1>5. CASE SrcAccept
  BY <1>5, Moves DEF SrcAccept, StreamInv, SlotsInv, Flushing, Emptied, Seeking, Shape,
    BufferTypes, SourceTypes, ThreadTypes, SourcePlace, Announcing, buffer
<1>6. CASE SrcRestart
  BY <1>6, Moves DEF SrcRestart, set_task, StreamInv, SlotsInv, Flushing, Emptied,
    Seeking, Shape, BufferTypes, SourceTypes, ThreadTypes, SourcePlace, Announcing,
    buffer
<1>7. CASE SrcTake
  <2>1. PICK w \in Slot : w = After(hb.wi)
    BY AfterFacts, Constants DEF Shape, BufferTypes
  <2>2. /\ hb' = [hb EXCEPT !.wi = w] /\ pc'.ctl = pc.ctl /\ pc'.buf = pc.buf /\ pc.src = "take"
        /\ UNCHANGED <<java, pad, task, loc, out>>
    BY <1>7, <2>1, Moves, AfterFacts DEF SrcTake, Prepare, Shape, BufferTypes
  <2>3. pc.ctl \notin {"s_pause", "s_wait", "s_wrong", "s_lock", "s_stop"} \/ (hb.wi = -1 /\ w = 0)
    BY <2>1, <2>2, AfterFacts DEF SlotsInv, Emptied
  <2>4. \/ UNCHANGED ready /\ hb.result = "ok" /\ ~ready[w]
        \/ ready' = [ready EXCEPT ![w] = FALSE]
    BY <1>7, <2>1, AfterFacts DEF SrcTake, Prepare, Shape, BufferTypes
  <2>5. pc.ctl = "s_stop" => pc.src = "parked"
    BY DEF Shape, SourcePlace
  <2>6. pc.ctl \in {"s_pause", "s_wait", "s_wrong", "s_lock", "s_stop"} =>
          hb'.ri = 0 /\ hb'.wi \in {-1, 0} /\ \A i \in Slot : ready'[i] <=> i # hb'.wi
    <3> SUFFICES ASSUME pc.ctl \in {"s_pause", "s_wait", "s_wrong", "s_lock", "s_stop"}
                 PROVE  hb'.ri = 0 /\ hb'.wi \in {-1, 0} /\ \A i \in Slot : ready'[i] <=> i # hb'.wi
      OBVIOUS
    <3>1. hb.ri = 0 /\ hb.wi = -1 /\ w = 0 /\ \A i \in Slot : ready[i] <=> i # -1
      BY <2>3 DEF StreamInv, Flushing
    <3>2. hb'.ri = 0 /\ hb'.wi = 0
      BY <2>2, <3>1 DEF Shape, BufferTypes
    <3>3. \A i \in Slot : i # -1
      BY Constants DEF Slot
    <3>4. ready' = [ready EXCEPT ![0] = FALSE] /\ ready \in [Slot -> BOOLEAN] /\ 0 \in Slot
      BY <2>1, <2>4, <3>1, <3>3 DEF Shape, BufferTypes
    <3>5. \A i \in Slot : ready'[i] <=> i # 0
      BY <3>1, <3>3, <3>4
    <3> QED
      BY <3>2, <3>5
  <2> QED
    BY <2>2, <2>5, <2>6 DEF StreamInv, Flushing, Shape, BufferTypes
<1>8. CASE SrcFull
  BY <1>8, Moves DEF SrcFull, StreamInv, SlotsInv, Flushing, Emptied, Seeking, Shape,
    BufferTypes, SourceTypes, ThreadTypes, SourcePlace, Announcing, buffer
<1>9. CASE SrcWoken
  <2>1. /\ UNCHANGED <<java, hb, pad, task, out>> /\ pc.src = "woken" /\ loc'.buffer = loc.buffer
        /\ pc'.ctl = pc.ctl /\ pc'.buf = pc.buf /\ loc'.target = loc.target
    BY <1>9, Moves DEF SrcWoken, Prepare, Shape, ThreadTypes
  <2>2. UNCHANGED ready \/ hb.result = "ok"
    BY <1>9 DEF SrcWoken
  <2>3. hb.result = "ok" => hb.wi \in Slot /\ hb.wi # -1
    BY <2>1, Constants DEF Shape, SourcePlace, Slot
  <2>4. pc.ctl \in {"s_pause", "s_wait", "s_wrong", "s_lock", "s_stop"} => UNCHANGED ready
    BY <2>1, <2>2, <2>3 DEF SlotsInv, Emptied
  <2>5. pc.ctl = "s_stop" => pc.src = "parked"
    BY DEF Shape, SourcePlace
  <2> QED
    BY <2>1, <2>4, <2>5 DEF StreamInv, Flushing
<1>10. CASE SrcRead
  BY <1>10, Moves DEF SrcRead, StreamInv, SlotsInv, Flushing, Emptied, Seeking, Shape,
    BufferTypes, SourceTypes, ThreadTypes, SourcePlace, Announcing, buffer
<1>11. CASE SrcChain
  BY <1>11, Moves DEF SrcChain, StreamInv, SlotsInv, Flushing, Emptied, Seeking, Shape,
    BufferTypes, SourceTypes, ThreadTypes, SourcePlace, Announcing, buffer
<1>12. CASE SrcWrite
  BY <1>12, Moves DEF SrcWrite, StreamInv, SlotsInv, Flushing, Emptied, Seeking, Shape,
    BufferTypes, SourceTypes, ThreadTypes, SourcePlace, Announcing, buffer
<1>13. CASE SrcEos
  <2>1. /\ UNCHANGED <<java, js, ready, pad, task, out>> /\ pc.src = "eosev"
        /\ loc'.buffer = loc.buffer /\ loc'.target = loc.target /\ pc'.ctl = pc.ctl
        /\ (pc'.buf = "push" <=> pc.buf = "push")
        /\ (pc'.buf \in {"after", "parked"} <=> pc.buf \in {"after", "parked"})
        /\ pc'.buf # "parked" => pc.buf # "parked"
        /\ hb'.flushing = hb.flushing /\ hb'.ri = hb.ri /\ hb'.wi = hb.wi
    BY <1>13, Moves DEF SrcEos, Shape, BufferTypes, ThreadTypes
  <2>2. hb'.eos # hb.eos => ~pad.sink
    BY <1>13 DEF SrcEos
  <2> QED
    BY <2>1, <2>2 DEF StreamInv, Flushing, Seeking
<1>14. CASE SrcFin
  BY <1>14, Moves DEF SrcFin, set_task, StreamInv, SlotsInv, Flushing, Emptied, Seeking,
    Shape, BufferTypes, SourceTypes, ThreadTypes, SourcePlace, Announcing, buffer
<1>15. CASE BufTop
  BY <1>15, Moves DEF BufTop, StreamInv, SlotsInv, Flushing, Emptied, Seeking, Shape,
    BufferTypes, SourceTypes, ThreadTypes, SourcePlace, Announcing, buffer
<1>16. CASE BufRead
  <2>1. /\ UNCHANGED <<java, js, pad, task, out>> /\ pc.buf = "loop" /\ pc'.buf = "push"
        /\ pc'.ctl = pc.ctl /\ loc'.target = loc.target /\ hb'.flushing = hb.flushing
        /\ hb'.eos = hb.eos /\ hb'.wi = hb.wi
    BY <1>16, Moves DEF BufRead, Shape, ThreadTypes, BufferTypes
  <2>2. cache[hb.ri].rd \in Nat /\ cache[hb.ri].rd < cache[hb.ri].wr /\ hb.ri \in Slot
    BY <1>16 DEF BufRead, cache_has_enough_data, Shape, BufferTypes, Cache
  <2>3. pc.ctl \notin {"s_pause", "s_wait", "s_wrong", "s_lock", "s_stop"}
    BY <2>2 DEF SlotsInv, Emptied
  <2> QED
    BY <2>1, <2>3 DEF StreamInv, Flushing
<1>17. CASE BufEos
  BY <1>17, Moves DEF BufEos, StreamInv, SlotsInv, Flushing, Emptied, Seeking, Shape,
    BufferTypes, SourceTypes, ThreadTypes, SourcePlace, Announcing, buffer
<1>18. CASE BufWait
  BY <1>18, Moves DEF BufWait, StreamInv, SlotsInv, Flushing, Emptied, Seeking, Shape,
    BufferTypes, SourceTypes, ThreadTypes, SourcePlace, Announcing, buffer
<1>19. CASE BufNotOk
  BY <1>19, Moves DEF BufNotOk, StreamInv, SlotsInv, Flushing, Emptied, Seeking, Shape,
    BufferTypes, SourceTypes, ThreadTypes, SourcePlace, Announcing, buffer
<1>20. CASE BufPush
  BY <1>20, Moves DEF BufPush, StreamInv, SlotsInv, Flushing, Emptied, Seeking, Shape,
    BufferTypes, SourceTypes, ThreadTypes, SourcePlace, Announcing, buffer
<1>21. CASE BufAfter
  BY <1>21, Moves DEF BufAfter, StreamInv, SlotsInv, Flushing, Emptied, Seeking, Shape,
    BufferTypes, SourceTypes, ThreadTypes, SourcePlace, Announcing, buffer
<1>22. CASE BufCheck
  BY <1>22, Moves DEF BufCheck, set_task, StreamInv, SlotsInv, Flushing, Emptied,
    Seeking, Shape, BufferTypes, SourceTypes, ThreadTypes, SourcePlace, Announcing,
    buffer
<1>23. CASE SeekFlag
  BY <1>23, Moves DEF SeekFlag, StreamInv, SlotsInv, Flushing, Emptied, Seeking, Shape,
    BufferTypes, SourceTypes, ThreadTypes, SourcePlace, Announcing, buffer
<1>24. CASE SeekDown
  BY <1>24, Moves DEF SeekDown, StreamInv, SlotsInv, Flushing, Emptied, Seeking, Shape,
    BufferTypes, SourceTypes, ThreadTypes, SourcePlace, Announcing, buffer
<1>25. CASE SeekData
  <2>1. /\ hb'.ri = 0 /\ hb'.wi = -1 /\ hb'.eos = hb.eos /\ hb'.flushing = hb.flushing
        /\ pc'.ctl \in {"s_pause", "t_src"} /\ pc.ctl \in {"s_data", "t_data"}
        /\ pc'.ctl = "s_pause" => pc.ctl = "s_data"
        /\ (pc'.buf = "push" <=> pc.buf = "push") /\ UNCHANGED <<pad, task, loc, out>>
        /\ \A i \in Slot : ready'[i]
    BY <1>25, FlushShape DEF SeekData, StopData, Shape, CtlPC, flush_data, BufferTypes
  <2>2. \A i \in Slot : i # -1
    BY Constants DEF Slot
  <2> QED
    BY <2>1, <2>2 DEF StreamInv, Flushing, Seeking
<1>26. CASE SeekPause
  BY <1>26, Moves DEF SeekPause, set_task, StreamInv, SlotsInv, Flushing, Emptied,
    Seeking, Shape, BufferTypes, SourceTypes, ThreadTypes, SourcePlace, Announcing,
    buffer
<1>27. CASE SeekPaused
  BY <1>27, Moves DEF SeekPaused, StreamInv, SlotsInv, Flushing, Emptied, Seeking,
    Shape, BufferTypes, SourceTypes, ThreadTypes, SourcePlace, Announcing, buffer
<1>28. CASE SeekWrong
  BY <1>28, Moves DEF SeekWrong, StreamInv, SlotsInv, Flushing, Emptied, Seeking, Shape,
    BufferTypes, SourceTypes, ThreadTypes, SourcePlace, Announcing, buffer
<1>29. CASE SeekLocked
  BY <1>29, Moves DEF SeekLocked, StreamInv, SlotsInv, Flushing, Emptied, Seeking,
    Shape, BufferTypes, SourceTypes, ThreadTypes, SourcePlace, Announcing, buffer
<1>30. CASE SeekStop
  BY <1>30, Moves DEF SeekStop, set_task, StreamInv, SlotsInv, Flushing, Emptied,
    Seeking, Shape, BufferTypes, SourceTypes, ThreadTypes, SourcePlace, Announcing,
    buffer
<1>31. CASE StopData
  <2>1. /\ hb'.ri = 0 /\ hb'.wi = -1 /\ hb'.eos = hb.eos /\ hb'.flushing = hb.flushing
        /\ pc'.ctl \in {"s_pause", "t_src"} /\ pc.ctl \in {"s_data", "t_data"}
        /\ pc'.ctl = "s_pause" => pc.ctl = "s_data"
        /\ (pc'.buf = "push" <=> pc.buf = "push") /\ UNCHANGED <<pad, task, loc, out>>
        /\ \A i \in Slot : ready'[i]
    BY <1>31, FlushShape DEF SeekData, StopData, Shape, CtlPC, flush_data, BufferTypes
  <2>2. \A i \in Slot : i # -1
    BY Constants DEF Slot
  <2> QED
    BY <2>1, <2>2 DEF StreamInv, Flushing, Seeking
<1>32. CASE StopSrcPad
  <2>1. /\ UNCHANGED <<pad, loc, out>> /\ pc.ctl = "t_src" /\ pc'.ctl = "t_join"
        /\ (pc'.buf = "push" <=> pc.buf = "push") /\ hb'.flushing = hb.flushing
    BY <1>32, Moves DEF StopSrcPad, Shape, BufferTypes
  <2> QED
    BY <2>1 DEF StreamInv, Flushing, Seeking
<1>33. CASE StopJoin
  BY <1>33, Moves DEF StopJoin, StreamInv, SlotsInv, Flushing, Emptied, Seeking, Shape,
    BufferTypes, SourceTypes, ThreadTypes, SourcePlace, Announcing, buffer
<1>34. CASE StopSinkPad
  BY <1>34, Moves DEF StopSinkPad, StreamInv, SlotsInv, Flushing, Emptied, Seeking,
    Shape, BufferTypes, SourceTypes, ThreadTypes, SourcePlace, Announcing, buffer
<1>35. CASE StopDrained
  BY <1>35, Moves DEF StopDrained, StreamInv, SlotsInv, Flushing, Emptied, Seeking,
    Shape, BufferTypes, SourceTypes, ThreadTypes, SourcePlace, Announcing, buffer
<1>36. CASE StopSource
  BY <1>36, Moves DEF StopSource, StreamInv, SlotsInv, Flushing, Emptied, Seeking,
    Shape, BufferTypes, SourceTypes, ThreadTypes, SourcePlace, Announcing, buffer
<1>37. CASE StopClosed
  BY <1>37, Moves DEF StopClosed, StreamInv, SlotsInv, Flushing, Emptied, Seeking,
    Shape, BufferTypes, SourceTypes, ThreadTypes, SourcePlace, Announcing, buffer
<1>38. CASE (\E t \in Targets : SeekBegin(t)) \/ StopBegin \/ SrcReadError
  <2>1. /\ UNCHANGED <<hb, ready, task, out>> /\ loc'.buffer = loc.buffer /\ pc'.buf = pc.buf
    BY <1>38, Moves DEF SeekBegin, StopBegin, SrcReadError, Shape, ThreadTypes, buffer
  <2>2. CASE \E t \in Targets : SeekBegin(t)
    <3>1. pc.ctl = "idle" /\ pc'.ctl = "s_flag" /\ pad'.sink /\ pad'.down = pad.down
      BY <2>2, Moves DEF SeekBegin, Shape, ThreadTypes
    <3> QED
      BY <2>1, <3>1 DEF StreamInv, Flushing, Seeking
  <2>3. CASE StopBegin
    <3>1. pc.ctl = "idle" /\ pc'.ctl = "t_data" /\ pad'.down /\ pad'.sink = pad.sink
      BY <2>3, Moves DEF StopBegin, Shape, ThreadTypes
    <3> QED
      BY <2>1, <3>1 DEF StreamInv, Flushing, Seeking
  <2>4. CASE SrcReadError
    <3>1. pc'.ctl = pc.ctl /\ UNCHANGED <<pad, java, js>> /\ loc'.target = loc.target
      BY <2>4, Moves DEF SrcReadError, Shape, ThreadTypes
    <3> QED
      BY <2>1, <3>1 DEF StreamInv, Flushing
  <2> QED
    BY <1>38, <2>2, <2>3, <2>4
<1>39. CASE UNCHANGED vars
  BY <1>39, Moves DEF vars, StreamInv, SlotsInv, Flushing, Emptied, Seeking, Shape,
    BufferTypes, SourceTypes, ThreadTypes, SourcePlace, Announcing, buffer
<1> QED
  BY <1>1, <1>2, <1>3, <1>4, <1>5, <1>6, <1>7, <1>8, <1>9, <1>10, <1>11, <1>12, <1>13,
    <1>14, <1>15, <1>16, <1>17, <1>18, <1>19, <1>20, <1>21, <1>22, <1>23, <1>24, <1>25,
    <1>26, <1>27, <1>28, <1>29, <1>30, <1>31, <1>32, <1>33, <1>34, <1>35, <1>36, <1>37,
    <1>38, <1>39 DEF Next, SrcStep, BufStep, CtlStep, EnvStep

LEMMA EndedKept ==
    ASSUME Shape, SlotsInv, StreamInv, [Next]_vars, ~pad'.down
    PROVE  Ended'
<1>a. out'.data = out.data /\ loc'.buffer = loc.buffer => Pushed' = Pushed
  BY DEF Pushed
<1>1. CASE SrcTop
  BY <1>1, <1>a, Moves DEF SrcTop, StreamInv, Ended, Shape, BufferTypes, SourceTypes,
    ThreadTypes, SourcePlace, Announcing, buffer
<1>2. CASE SrcUnpark
  BY <1>2, <1>a, Moves DEF SrcUnpark, StreamInv, Ended, Shape, BufferTypes, SourceTypes,
    ThreadTypes, SourcePlace, Announcing, buffer
<1>3. CASE SrcSize
  BY <1>3, <1>a, Moves DEF SrcSize, StreamInv, Ended, Shape, BufferTypes, SourceTypes,
    ThreadTypes, SourcePlace, Announcing, buffer
<1>4. CASE SrcNewSegment
  BY <1>4, <1>a, Moves DEF SrcNewSegment, StreamInv, Ended, Shape, BufferTypes,
    SourceTypes, ThreadTypes, SourcePlace, Announcing, buffer
<1>5. CASE SrcAccept
  BY <1>5, <1>a, Moves DEF SrcAccept, StreamInv, Ended, Shape, BufferTypes, SourceTypes,
    ThreadTypes, SourcePlace, Announcing, buffer
<1>6. CASE SrcRestart
  BY <1>6, <1>a, Moves DEF SrcRestart, set_task, StreamInv, Ended, Shape, BufferTypes,
    SourceTypes, ThreadTypes, SourcePlace, Announcing, buffer
<1>7. CASE SrcTake
  <2>1. /\ pc.src = "take" /\ js.pending = "newsegment" /\ ~pad.down
        /\ UNCHANGED <<pad, loc, out>> /\ hb'.eos = hb.eos /\ hb'.result = hb.result
        /\ pc'.buf = pc.buf /\ js'.result = js.result /\ pc'.src \in {"full", "fin"}
    BY <1>7, Moves DEF SrcTake, Prepare, Shape, SourcePlace, Announcing, BufferTypes, SourceTypes
  <2>2. hb.result = "ok" /\ ~hb.eos
    BY <2>1 DEF StreamInv, Ended
  <2> QED
    BY <2>1, <2>2 DEF StreamInv, Ended
<1>8. CASE SrcFull
  BY <1>8, <1>a, Moves DEF SrcFull, StreamInv, Ended, Shape, BufferTypes, SourceTypes,
    ThreadTypes, SourcePlace, Announcing, buffer
<1>9. CASE SrcWoken
  <2>1. /\ pc.src = "woken" /\ js.pending = "newsegment" /\ ~pad.down
        /\ UNCHANGED <<pad, out, hb>> /\ loc'.buf = loc.buf /\ pc'.buf = pc.buf
        /\ js'.result = js.result /\ pc'.src \in {"full", "fin"}
    BY <1>9, Moves DEF SrcWoken, Prepare, Shape, SourcePlace, Announcing, ThreadTypes, SourceTypes
  <2>2. hb.result = "ok" /\ ~hb.eos
    BY <2>1 DEF StreamInv, Ended
  <2> QED
    BY <2>1, <2>2 DEF StreamInv, Ended
<1>10. CASE SrcRead
  BY <1>10, <1>a, Moves DEF SrcRead, StreamInv, Ended, Shape, BufferTypes, SourceTypes,
    ThreadTypes, SourcePlace, Announcing, buffer
<1>11. CASE SrcChain
  BY <1>11, <1>a, Moves DEF SrcChain, StreamInv, Ended, Shape, BufferTypes, SourceTypes,
    ThreadTypes, SourcePlace, Announcing, buffer
<1>12. CASE SrcWrite
  BY <1>12, <1>a, Moves DEF SrcWrite, StreamInv, Ended, Shape, BufferTypes, SourceTypes,
    ThreadTypes, SourcePlace, Announcing, buffer
<1>13. CASE SrcEos
  BY <1>13, <1>a, Moves DEF SrcEos, StreamInv, Ended, Shape, BufferTypes, SourceTypes,
    ThreadTypes, SourcePlace, Announcing, buffer
<1>14. CASE SrcFin
  BY <1>14, <1>a, Moves DEF SrcFin, set_task, StreamInv, Ended, Shape, BufferTypes,
    SourceTypes, ThreadTypes, SourcePlace, Announcing, buffer
<1>15. CASE BufTop
  BY <1>15, <1>a, Moves DEF BufTop, StreamInv, Ended, Shape, BufferTypes, SourceTypes,
    ThreadTypes, SourcePlace, Announcing, buffer
<1>16. CASE BufRead
  <2>1. /\ pc.buf = "loop" /\ hb.result = "ok" /\ ~pad.down /\ pc'.buf = "push"
        /\ UNCHANGED <<pad, js>> /\ hb'.eos = hb.eos /\ hb'.result = hb.result
        /\ pc'.src = (IF pc.src = "waitdel" THEN "woken" ELSE pc.src) \/ pc'.src = pc.src
    BY <1>16, Moves DEF BufRead, Shape, BufferTypes
  <2>2. hb.eos => js.pending = "eos"
    BY <2>1 DEF StreamInv, Ended
  <2> QED
    BY <2>1, <2>2 DEF StreamInv, Ended
<1>17. CASE BufEos
  BY <1>17, <1>a, Moves DEF BufEos, StreamInv, Ended, Shape, BufferTypes, SourceTypes,
    ThreadTypes, SourcePlace, Announcing, buffer
<1>18. CASE BufWait
  BY <1>18, <1>a, Moves DEF BufWait, StreamInv, Ended, Shape, BufferTypes, SourceTypes,
    ThreadTypes, SourcePlace, Announcing, buffer
<1>19. CASE BufNotOk
  BY <1>19, <1>a, Moves DEF BufNotOk, StreamInv, Ended, Shape, BufferTypes, SourceTypes,
    ThreadTypes, SourcePlace, Announcing, buffer
<1>20. CASE BufPush
  BY <1>20, <1>a, Moves DEF BufPush, StreamInv, Ended, Shape, BufferTypes, SourceTypes,
    ThreadTypes, SourcePlace, Announcing, buffer
<1>21. CASE BufAfter
  BY <1>21, <1>a, Moves DEF BufAfter, StreamInv, Ended, Shape, BufferTypes, SourceTypes,
    ThreadTypes, SourcePlace, Announcing, buffer
<1>22. CASE BufCheck
  BY <1>22, <1>a, Moves DEF BufCheck, set_task, StreamInv, Ended, Shape, BufferTypes,
    SourceTypes, ThreadTypes, SourcePlace, Announcing, buffer
<1>23. CASE SeekFlag
  BY <1>23, <1>a, Moves DEF SeekFlag, StreamInv, Ended, Shape, BufferTypes, SourceTypes,
    ThreadTypes, SourcePlace, Announcing, buffer
<1>24. CASE SeekDown
  <2>1. pad'.down
    BY <1>24 DEF SeekDown, StreamInv, Flushing, Shape, ThreadTypes
  <2> QED
    BY <2>1
<1>25. CASE SeekData
  <2>1. pad'.down
    BY <1>25 DEF SeekData, StreamInv, Flushing, Shape, ThreadTypes
  <2> QED
    BY <2>1
<1>26. CASE SeekPause
  <2>1. pad'.down
    BY <1>26 DEF SeekPause, StreamInv, Flushing, Shape, ThreadTypes
  <2> QED
    BY <2>1
<1>27. CASE SeekPaused
  <2>1. pad'.down
    BY <1>27 DEF SeekPaused, StreamInv, Flushing, Shape, ThreadTypes
  <2> QED
    BY <2>1
<1>28. CASE SeekWrong
  <2>1. pad'.down
    BY <1>28 DEF SeekWrong, StreamInv, Flushing, Shape, ThreadTypes
  <2> QED
    BY <2>1
<1>29. CASE SeekLocked
  <2>1. pad'.down
    BY <1>29 DEF SeekLocked, StreamInv, Flushing, Shape, ThreadTypes
  <2> QED
    BY <2>1
<1>30. CASE SeekStop
  <2>1. /\ pc.ctl = "s_stop" /\ hb'.result = "ok" /\ hb'.eos = hb.eos /\ pc.src = "parked"
        /\ UNCHANGED <<js, cache, loc>> /\ pc'.src = pc.src /\ pc'.buf = pc.buf
        /\ out'.data = out.data /\ (loc.target = 0 => out'.from = 0)
    BY <1>30, Moves DEF SeekStop, Shape, BufferTypes, OutTypes, SourcePlace
  <2>2. /\ hb.eos => pc.buf = "parked" /\ task["buf"] = "paused"
        /\ out.data = <<>> /\ loc.buffer = <<>> /\ pc.buf # "after"
        /\ loc.target # 0 => js.pending = "newsegment"
    BY <2>1 DEF StreamInv, Flushing, Seeking
  <2>3. hb.eos => task'["buf"] = "paused"
    BY <1>30, <2>2 DEF SeekStop, set_task, Shape, ThreadTypes
  <2>4. \A i \in Slot : cache'[i].wr = 0
    BY <2>1 DEF SlotsInv, Emptied
  <2>5. out.data \o loc.buffer = <<>>
    BY <2>2
  <2>6. Pushed' = <<>>
    <3>1. Pushed' = Pushed
      BY <1>a, <2>1
    <3> QED
      BY <2>5, <3>1 DEF Pushed
  <2>7. hb'.eos => hb.eos
    BY <2>1
  <2>8. js'.pending = "unknown" => loc.target = 0
    BY <2>1, <2>2
  <2> QED
    BY <2>1, <2>2, <2>3, <2>4, <2>6, <2>7, <2>8 DEF Ended
<1>31. CASE StopData
  <2>1. pad'.down
    BY <1>31 DEF StopData, StreamInv, Flushing, Shape, ThreadTypes
  <2> QED
    BY <2>1
<1>32. CASE StopSrcPad
  <2>1. pad'.down
    BY <1>32 DEF StopSrcPad, StreamInv, Flushing, Shape, ThreadTypes
  <2> QED
    BY <2>1
<1>33. CASE StopJoin
  <2>1. pad'.down
    BY <1>33 DEF StopJoin, StreamInv, Flushing, Shape, ThreadTypes
  <2> QED
    BY <2>1
<1>34. CASE StopSinkPad
  <2>1. pad'.down
    BY <1>34 DEF StopSinkPad, StreamInv, Flushing, Shape, ThreadTypes
  <2> QED
    BY <2>1
<1>35. CASE StopDrained
  <2>1. pad'.down
    BY <1>35 DEF StopDrained, StreamInv, Flushing, Shape, ThreadTypes
  <2> QED
    BY <2>1
<1>36. CASE StopSource
  <2>1. pad'.down
    BY <1>36 DEF StopSource, StreamInv, Flushing, Shape, ThreadTypes
  <2> QED
    BY <2>1
<1>37. CASE StopClosed
  <2>1. pad'.down
    BY <1>37 DEF StopClosed, StreamInv, Flushing, Shape, ThreadTypes
  <2> QED
    BY <2>1
<1>38. CASE (\E t \in Targets : SeekBegin(t)) \/ StopBegin \/ SrcReadError
  BY <1>38, <1>a, Moves DEF SeekBegin, StopBegin, SrcReadError, StreamInv, Ended, Shape,
    BufferTypes, SourceTypes, ThreadTypes, SourcePlace, Announcing, buffer
<1>39. CASE UNCHANGED vars
  BY <1>39, <1>a, Moves DEF vars, StreamInv, Ended, Shape, BufferTypes, SourceTypes,
    ThreadTypes, SourcePlace, Announcing, buffer
<1> QED
  BY <1>1, <1>2, <1>3, <1>4, <1>5, <1>6, <1>7, <1>8, <1>9, <1>10, <1>11, <1>12, <1>13,
    <1>14, <1>15, <1>16, <1>17, <1>18, <1>19, <1>20, <1>21, <1>22, <1>23, <1>24, <1>25,
    <1>26, <1>27, <1>28, <1>29, <1>30, <1>31, <1>32, <1>33, <1>34, <1>35, <1>36, <1>37,
    <1>38, <1>39 DEF Next, SrcStep, BufStep, CtlStep, EnvStep

(* A buffer that is read comes from a slot in use. *)
LEMMA ReadStep ==
    ASSUME Shape, SlotsInv, StreamInv, ~pad.down, BufRead
    PROVE  LET r == hb.ri IN
           /\ r \in Slot /\ ~ready[r] /\ Newest \in Slot /\ size[r] = SegSize
           /\ UNCHANGED <<java, js, size, pad, out>> /\ Newest' = Newest /\ hb'.wi = hb.wi
           /\ cache[r].rd \in Nat /\ cache[r].wr \in Nat /\ cache'[r].rd \in Nat
           /\ cache'[r].wr = cache[r].wr /\ cache'[r].file = cache[r].file
           /\ cache[r].rd < cache'[r].rd /\ cache'[r].rd <= cache[r].wr /\ cache[r].wr <= SegSize
           /\ \A i \in Slot \ {r} : cache'[i] = cache[i]
           /\ loc'.buffer \in Seq(Units) /\ Len(loc'.buffer) = cache'[r].rd - cache[r].rd
           /\ \A j \in 1 .. Len(loc'.buffer) : loc'.buffer[j] = cache[r].file[cache[r].rd + j]
           /\ \/ /\ cache'[r].rd = SegSize /\ hb'.ri = After(r)
                 /\ ready' = [ready EXCEPT ![r] = TRUE]
              \/ cache'[r].rd < SegSize /\ hb'.ri = r /\ ready' = ready
<1> DEFINE r == hb.ri
<1>1. /\ r \in Slot /\ CacheOK(cache[r]) /\ cache_has_enough_data(cache[r]) /\ hb.result = "ok"
      /\ cache[r].rd \in Nat /\ cache[r].wr \in Nat /\ SegSize \in Nat /\ size[r] \in Nat
  BY Constants DEF BufRead, Shape, BufferTypes, CacheOK, Cache
<1>2. cache[r].wr <= size[r] /\ cache[r].rd < cache[r].wr /\ ~ready[r]
  BY <1>1 DEF SlotsInv, GivenBack, cache_has_enough_data
<1>3. size[r] = SegSize /\ Newest \in Slot
  BY <1>1, <1>2 DEF StreamInv, Ring
<1> DEFINE c == cache_read_buffer(cache[r])
<1>4. /\ CacheOK(c) /\ c.wr = cache[r].wr /\ c.file = cache[r].file /\ c.rd > cache[r].rd
      /\ cache_read_data(cache[r]) \in Seq(Units)
      /\ Len(cache_read_data(cache[r])) = c.rd - cache[r].rd
      /\ \A j \in 1 .. Len(cache_read_data(cache[r])) :
            cache_read_data(cache[r])[j] = cache[r].file[cache[r].rd + j]
  BY <1>1, ReadFacts
<1>5. c.rd \in Nat /\ c.rd <= cache[r].wr
  BY <1>4 DEF CacheOK, Cache
<1>6. /\ cache' = [cache EXCEPT ![r] = c] /\ loc' = [loc EXCEPT !.buffer = cache_read_data(cache[r])]
      /\ UNCHANGED <<java, js, size, pad, out>>
  BY DEF BufRead
<1>7. \/ /\ c.rd = size[r] /\ ready' = [ready EXCEPT ![r] = TRUE]
         /\ hb' = [hb EXCEPT !.ri = (hb.ri + 1) % NumCached]
         /\ pc' = signal_del([pc EXCEPT !.buf = "push"])
      \/ c.rd # size[r] /\ GoBuf("push") /\ UNCHANGED <<ready, hb>>
  BY DEF BufRead, ReadToEnd
<1> HIDE DEF c
<1>8. /\ cache'[r] = c /\ \A i \in Slot \ {r} : cache'[i] = cache[i]
      /\ loc'.buffer = cache_read_data(cache[r])
  BY <1>1, <1>6 DEF Shape, BufferTypes, ThreadTypes
<1>9. hb'.wi = hb.wi /\ (hb'.ri = After(r) \/ hb'.ri = r)
  BY <1>1, <1>7, AfterFacts DEF Shape, BufferTypes
<1>10. pc'.src \in {"full", "waitdel", "woken"} <=> pc.src \in {"full", "waitdel", "woken"}
  BY <1>7, Moves
<1>11. Newest' = Newest
  BY <1>9, <1>10 DEF Newest, Before
<1>12. \/ c.rd = SegSize /\ hb'.ri = After(r) /\ ready' = [ready EXCEPT ![r] = TRUE]
       \/ c.rd < SegSize /\ hb'.ri = r /\ ready' = ready
  BY <1>1, <1>2, <1>3, <1>5, <1>7, AfterFacts DEF Shape, BufferTypes
<1> QED
  BY <1>1, <1>2, <1>3, <1>4, <1>5, <1>6, <1>8, <1>9, <1>11, <1>12

(* A slot that is taken is the one after the newest. *)
LEMMA RingTaken ==
    ASSUME Shape, Ring, NEW w \in Slot, w = After(Newest), ready[w], Prepare(w),
           hb'.ri = hb.ri, hb'.wi = w
    PROVE  Ring' /\ Newest' = w
<1> DEFINE r == hb.ri
<1>1. /\ ~ready'[w] /\ size'[w] = SegSize /\ cache'[w].rd = 0
      /\ \A i \in Slot \ {w} : cache'[i] = cache[i] /\ size'[i] = size[i] /\ ready'[i] = ready[i]
  BY PrepareShape DEF Shape
<1>2. Newest' = w
  BY Moves DEF Prepare, Newest
<1>3. r \in Slot /\ SegSize > 0
  BY Constants DEF Shape, BufferTypes
<1>4. \A i \in Slot : ~ready'[i] =>
         size'[i] = SegSize /\ cache'[i].rd < SegSize /\ (i # r => cache'[i].rd = 0)
  BY <1>1, <1>3 DEF Ring
<1>5. ~ready'[r] /\ \A i \in Slot : ready'[i] <=> Ahead(r, i) > Ahead(r, w)
  <2>1. CASE ready[r]
    <3>1. w = r /\ \A i \in Slot : ready[i]
      BY <2>1 DEF Ring
    <3>2. \A i \in Slot : ready'[i] <=> i # r
      BY <1>1, <3>1
    <3>3. \A i \in Slot : i # r <=> Ahead(r, i) > Ahead(r, r)
      BY <1>3, AheadFacts
    <3> QED
      BY <1>3, <3>1, <3>2, <3>3
  <2>2. CASE ~ready[r]
    <3>1. Newest \in Slot /\ \A i \in Slot : ready[i] <=> Ahead(r, i) > Ahead(r, Newest)
      BY <2>2 DEF Ring
    <3>2. w # r /\ Ahead(r, w) = Ahead(r, Newest) + 1
      BY <1>3, <2>2, <3>1, AheadFacts
    <3>3. \A i \in Slot : ready'[i] <=> ready[i] /\ i # w
      BY <1>1
    <3>4. \A i \in Slot : i # w => Ahead(r, i) # Ahead(r, w)
      BY <1>3, AheadFacts
    <3>5. \A i \in Slot : Ahead(r, i) \in Int
      BY <1>3, Constants, AheadFacts
    <3>6. \A i \in Slot : ready'[i] <=> Ahead(r, i) > Ahead(r, w)
      BY <3>1, <3>2, <3>3, <3>4, <3>5
    <3> QED
      BY <1>1, <1>3, <2>2, <3>2, <3>6
  <2> QED
    BY <2>1, <2>2
<1> QED
  BY <1>2, <1>4, <1>5 DEF Ring

LEMMA RingRead ==
    ASSUME Shape, SlotsInv, StreamInv, ~pad.down, BufRead
    PROVE  Ring' /\ (cache'[hb.ri].rd = SegSize => (ready'[hb'.ri] <=> hb.ri = Newest))
<1> DEFINE r == hb.ri
<1>1. /\ r \in Slot /\ ~ready[r] /\ Newest \in Slot /\ Newest' = Newest
      /\ cache'[r].rd \in Nat /\ UNCHANGED size /\ SegSize \in Nat \ {0}
      /\ \A i \in Slot \ {r} : cache'[i] = cache[i]
  BY ReadStep, Constants
<1>2. /\ \A i \in Slot : ready[i] <=> Ahead(r, i) > Ahead(r, Newest)
      /\ \A i \in Slot : ~ready[i] => size[i] = SegSize /\ cache[i].rd < SegSize
                                      /\ (i # r => cache[i].rd = 0)
  BY <1>1 DEF StreamInv, Ring
<1>3. CASE cache'[r].rd < SegSize /\ hb'.ri = r /\ ready' = ready
  BY <1>1, <1>2, <1>3 DEF Ring
<1>4. CASE cache'[r].rd = SegSize /\ hb'.ri = After(r) /\ ready' = [ready EXCEPT ![r] = TRUE]
  <2> DEFINE s == After(r)
  <2>1. /\ ready'[r] /\ \A i \in Slot \ {r} : ready'[i] = ready[i]
        /\ s \in Slot
    BY <1>1, <1>4, AfterFacts DEF Shape, BufferTypes
  <2>2. \A i \in Slot : ~ready'[i] =>
          size'[i] = SegSize /\ cache'[i].rd < SegSize /\ cache'[i].rd = 0
    BY <1>1, <1>2, <2>1
  <2>3. CASE r = Newest
    <3>1. \A i \in Slot : ready'[i]
      BY <1>1, <1>2, <2>1, <2>3, AheadFacts
    <3> QED
      BY <1>1, <1>4, <2>1, <2>2, <2>3, <3>1 DEF Ring
  <2>4. CASE r # Newest
    <3>1. \A i \in Slot : Ahead(r, i) \in 0 .. NumCached - 1 /\ (Ahead(r, i) = 0 <=> i = r)
      BY <1>1, AheadFacts
    <3>2. Ahead(r, Newest) > 0 /\ Ahead(r, Newest) <= NumCached - 1 /\ NumCached \in Nat
      BY <1>1, <2>4, <3>1, Constants
    <3>3. s # r /\ Ahead(r, s) = 1
      <4>1. s # r
        BY <1>1, <2>4, Constants DEF After, Slot
      <4> QED
        BY <1>1, <3>1, <4>1, AheadFacts
    <3>4. ~ready'[s]
      <4>1. ~(1 > Ahead(r, Newest))
        BY <1>1, <3>1, <3>2
      <4>2. ~ready[s]
        BY <1>2, <2>1, <3>3, <4>1
      <4> QED
        BY <2>1, <3>3, <4>2
    <3>5. /\ \A i \in Slot \ {r} : Ahead(s, i) = Ahead(r, i) - 1
          /\ Ahead(s, r) = NumCached - 1
      BY <1>1, AheadFacts
    <3>6. ASSUME NEW i \in Slot PROVE ready'[i] <=> Ahead(s, i) > Ahead(s, Newest)
      <4>1. CASE i = r
        BY <1>1, <2>1, <2>4, <3>1, <3>2, <3>5, <4>1
      <4>2. CASE i # r
        BY <1>1, <1>2, <2>1, <2>4, <3>1, <3>2, <3>5, <4>2
      <4> QED
        BY <4>1, <4>2
    <3> QED
      BY <1>1, <1>4, <2>2, <2>4, <3>4, <3>6 DEF Ring
  <2> QED
    BY <2>3, <2>4
<1> QED
  BY <1>3, <1>4, ReadStep

(* A step that moves nothing between the source, the slots and downstream. *)
(* Until the end of a stream is behind it, the buffer refuses the source.  *)
Quiet ==
    /\ UNCHANGED <<cache, size, ready>> /\ hb'.ri = hb.ri /\ Newest' = Newest
    /\ Pushed' = Pushed /\ out'.from = out.from
    /\ Linked' /\ ~(hb'.eos /\ js'.pending = "unknown") => Linked /\ Position' = Position

(* A slot is taken. *)
Taken ==
    /\ \E w \in Slot : w = After(Newest) /\ ready[w] /\ Prepare(w) /\ hb'.wi = w
    /\ pc.src \in {"take", "woken"} /\ hb'.ri = hb.ri
    /\ UNCHANGED <<java, pad, out>> /\ loc'.buffer = loc.buffer

LEMMA TakeStep ==
    ASSUME Shape, StreamInv, ~pad.down, SrcTake \/ SrcWoken
    PROVE  (Quiet /\ js' = js /\ pc'.src = "full") \/ Taken
<1>a. out'.data = out.data /\ loc'.buffer = loc.buffer => Pushed' = Pushed
  BY DEF Pushed
<1>1. CASE SrcTake
  <2>1. PICK w \in Slot : w = After(hb.wi)
    BY AfterFacts, Constants DEF Shape, BufferTypes
  <2>2. /\ hb' = [hb EXCEPT !.wi = w] /\ pc.src = "take" /\ UNCHANGED <<java, pad, loc, out>>
        /\ hb.wi \in Slot \cup {-1} /\ hb.ri \in Slot /\ hb'.wi = w /\ hb'.ri = hb.ri
    BY <1>1, <2>1, AfterFacts DEF SrcTake, Shape, BufferTypes
  <2>3. Newest = hb.wi
    BY <2>2 DEF Newest
  <2>4. CASE hb.result = "ok" /\ ~ready[w]
    <3>1. UNCHANGED <<js, cache, size, ready>> /\ pc'.src = "full"
      BY <1>1, <2>1, <2>2, <2>4, AfterFacts, Moves DEF SrcTake
    <3>2. hb.wi \in Slot
      BY <2>1, <2>2, <2>3, <2>4 DEF StreamInv, Ring
    <3>3. Newest' = Newest
      BY <2>1, <2>2, <2>3, <3>1, <3>2, AfterFacts DEF Newest, Before
    <3> QED
      BY <2>2, <3>1, <3>3, <1>a DEF Quiet, Position, Held, Linked, Announcing
  <2>5. CASE ~(hb.result = "ok" /\ ~ready[w])
    <3>1. Prepare(w)
      BY <1>1, <2>1, <2>2, <2>5, AfterFacts DEF SrcTake
    <3>2. js.pending = "newsegment"
      BY <2>2 DEF Shape, SourcePlace, Announcing
    <3>3. ready[w]
      BY <2>5, <3>2 DEF StreamInv, Ended
    <3> QED
      BY <2>1, <2>2, <2>3, <3>1, <3>3 DEF Taken
  <2> QED
    BY <2>4, <2>5
<1>2. CASE SrcWoken
  <2>1. /\ UNCHANGED <<java, hb, pad, out>> /\ pc.src = "woken" /\ js.pending = "newsegment"
        /\ loc'.buffer = loc.buffer
    BY <1>2 DEF SrcWoken, Shape, SourcePlace, Announcing, ThreadTypes
  <2>2. hb.result = "ok" /\ hb.wi \in Slot
    BY <2>1 DEF StreamInv, Ended, Shape, SourcePlace
  <2>3. CASE ~ready[hb.wi]
    <3>1. UNCHANGED <<js, cache, size, ready>> /\ pc'.src = "full"
      BY <1>2, <2>2, <2>3, Moves DEF SrcWoken
    <3> QED
      BY <2>1, <3>1, <1>a DEF Quiet, Newest, Position, Held, Linked, Announcing
  <2>4. CASE ready[hb.wi]
    <3>1. Prepare(hb.wi)
      BY <1>2, <2>2, <2>4 DEF SrcWoken
    <3>2. Newest = Before(hb.wi) /\ hb.wi = After(Newest)
      BY <2>1, <2>2, AfterFacts DEF Newest
    <3> QED
      BY <2>1, <2>2, <2>4, <3>1, <3>2 DEF Taken
  <2> QED
    BY <2>3, <2>4
<1> QED
  BY <1>1, <1>2

LEMMA StreamSteps ==
    ASSUME Shape, StreamInv, [Next]_vars, ~pad'.down
    PROVE  Quiet \/ Taken \/ (SrcWrite /\ hb.wi \in Slot) \/ BufRead \/ SeekStop
<1>a. out'.data = out.data /\ loc'.buffer = loc.buffer => Pushed' = Pushed
  BY DEF Pushed
<1>1. CASE SrcTop
  <2>1. /\ UNCHANGED <<java, js, buffer, pad, out>> /\ loc'.buffer = loc.buffer /\ pc.src = "top"
    BY <1>1 DEF SrcTop, Shape, ThreadTypes
  <2>2. pc'.src \in {"parked", "gone", "fin", "size", "eosev", "read"}
    BY <1>1, Moves DEF SrcTop, Shape, SourceTypes
  <2> QED
    BY <2>1, <2>2, <1>a DEF Quiet, Newest, Position, Held, Linked, Announcing, buffer
<1>2. CASE SrcUnpark
  BY <1>2, <1>a, Moves DEF SrcUnpark, Quiet, Newest, Position, Held, Linked, Shape,
    SourceTypes, SourcePlace, Announcing, buffer
<1>3. CASE SrcSize
  <2>1. /\ UNCHANGED <<buffer, pad, loc, out>> /\ pc.src = "size" /\ js.pending = "newsegment"
    BY <1>3 DEF SrcSize, Shape, SourcePlace
  <2>2. /\ ~pad.down /\ js.result = "ok" /\ java.file \in Int /\ java.file <= NumSegments + 1
        /\ SegSize \in Nat \ {0} /\ NumSegments \in Nat
    BY <1>3, <2>1, Constants DEF SrcSize, StreamInv, Ended, Shape, SourceTypes
  <2>3. Quiet
    <3>1. CASE java.file + 1 <= NumSegments
      <4>1. /\ java'.file = java.file + 1 /\ java'.rest = SegSize /\ pc'.src = "nseg" /\ js' = js
        BY <1>3, <2>2, <3>1, Moves DEF SrcSize
      <4>2. (java.file + 1) * SegSize - SegSize + 1 - 0 = java.file * SegSize + 1
        BY <2>2
      <4>3. Position' = Position
        BY <2>1, <2>2, <3>1, <4>1, <4>2 DEF Position, Held, Announcing
      <4> QED
        BY <2>1, <4>1, <4>3, <1>a DEF Quiet, Newest, Linked, buffer
    <3>2. CASE ~(java.file + 1 <= NumSegments)
      <4>1. js'.pending = "eos" /\ pc'.src = "eosev"
        BY <1>3, <2>2, <3>2, Moves DEF SrcSize, Shape, SourceTypes
      <4>2. java.file <= NumSegments => java.file * SegSize + 1 = Total + 1
        BY <2>2, <3>2 DEF Total
      <4>3. Position' = Position
        BY <2>1, <4>1, <4>2 DEF Position, Announcing
      <4> QED
        BY <2>1, <4>1, <4>3, <1>a DEF Quiet, Newest, Linked, buffer
    <3> QED
      BY <3>1, <3>2
  <2> QED
    BY <2>3
<1>4. CASE SrcNewSegment
  <2>1. /\ UNCHANGED <<java, buffer, pad, out>> /\ loc'.buffer = loc.buffer /\ pc.src = "nseg"
        /\ (pc'.src = "fin" /\ pad.sink) \/ (pc'.src = "accept" /\ js' = js)
    BY <1>4, Moves DEF SrcNewSegment, Shape, ThreadTypes
  <2> QED
    BY <2>1, <1>a DEF Quiet, Newest, Position, Held, Linked, Announcing, buffer
<1>5. CASE SrcAccept
  BY <1>5, <1>a, Moves DEF SrcAccept, Quiet, Newest, Position, Held, Linked, Shape,
    SourceTypes, SourcePlace, Announcing, buffer
<1>6. CASE SrcRestart
  BY <1>6, <1>a, Moves DEF SrcRestart, Quiet, Newest, Position, Held, Linked, Shape,
    SourceTypes, SourcePlace, Announcing, buffer
<1>7. CASE SrcTake
  <2>1. UNCHANGED pad
    BY <1>7 DEF SrcTake
  <2> QED
    BY <1>7, <2>1, TakeStep
<1>8. CASE SrcFull
  BY <1>8, <1>a, Moves DEF SrcFull, Quiet, Newest, Position, Held, Linked, Shape,
    SourceTypes, SourcePlace, Announcing, buffer
<1>9. CASE SrcWoken
  <2>1. UNCHANGED pad
    BY <1>9 DEF SrcWoken
  <2> QED
    BY <1>9, <2>1, TakeStep
<1>10. CASE SrcRead
  <2>1. /\ UNCHANGED <<buffer, pad, out>> /\ loc'.buffer = loc.buffer /\ pc.src = "read"
    BY <1>10 DEF SrcRead, Shape, ThreadTypes
  <2>2. /\ js.pending = "unknown" /\ java.file \in Segment /\ java.rest \in Int
        /\ java.file * SegSize \in Int /\ java.file <= NumSegments
    BY <2>1, Constants DEF Shape, SourcePlace, SourceTypes, Segment
  <2>3. CASE java.rest > 0
    <3>1. /\ UNCHANGED js /\ java'.file = java.file /\ java'.rest = java.rest - 1
          /\ pc'.src = IF pad.sink THEN "fin" ELSE "chain"
      BY <1>10, <2>3, Moves DEF SrcRead, Shape, SourceTypes
    <3>2. ~pad.sink => Position' = Position
      BY <2>1, <2>2, <3>1 DEF Position, Held
    <3> QED
      BY <2>1, <3>1, <3>2, <1>a DEF Quiet, Newest, Linked, buffer
  <2>4. CASE java.rest = 0
    <3>1. UNCHANGED java /\ js'.pending = "newsegment" /\ pc'.src = "size"
      BY <1>10, <2>4, Moves DEF SrcRead, Shape, SourceTypes
    <3>2. Position' = Position
      BY <2>1, <2>2, <2>4, <3>1 DEF Position, Held, Announcing
    <3> QED
      BY <2>1, <3>1, <3>2, <1>a DEF Quiet, Newest, Linked, buffer
  <2> QED
    BY <1>10, <2>3, <2>4 DEF SrcRead
<1>11. CASE SrcChain
  <2>1. /\ UNCHANGED <<java, js, buffer, pad, out>> /\ loc'.buffer = loc.buffer /\ pc.src = "chain"
        /\ js.pending = "unknown"
    BY <1>11 DEF SrcChain, Shape, ThreadTypes, SourcePlace
  <2>2. \/ pc'.src = "fin" /\ (pad.sink \/ hb.flushing \/ hb.eos)
        \/ pc'.src = "write" /\ ~pad.sink
    BY <1>11, Moves DEF SrcChain
  <2>3. hb.flushing => pad.sink
    BY DEF StreamInv, Flushing
  <2>4. pc'.src = "write" => Position' = Position
    BY <2>1 DEF Position, Held, Announcing
  <2> QED
    BY <2>1, <2>2, <2>3, <2>4, <1>a DEF Quiet, Newest, Linked, buffer
<1>12. CASE SrcWrite
  BY <1>12, <1>a, Moves DEF SrcWrite, Quiet, Newest, Position, Held, Linked, Shape,
    SourceTypes, SourcePlace, Announcing, buffer
<1>13. CASE SrcEos
  <2>1. /\ UNCHANGED <<java, js, cache, size, ready, pad, out>> /\ loc'.buffer = loc.buffer
        /\ pc.src = "eosev" /\ pc'.src = "fin" /\ hb'.ri = hb.ri /\ hb'.wi = hb.wi
    BY <1>13, Moves DEF SrcEos, Shape, ThreadTypes, BufferTypes
  <2> QED
    BY <2>1, <1>a DEF Quiet, Newest, Position, Held, Linked, Announcing
<1>14. CASE SrcFin
  BY <1>14, <1>a, Moves DEF SrcFin, Quiet, Newest, Position, Held, Linked, Shape,
    SourceTypes, SourcePlace, Announcing, buffer
<1>15. CASE BufTop
  BY <1>15, <1>a, Moves DEF BufTop, Quiet, Newest, Position, Held, Linked, Shape,
    SourceTypes, SourcePlace, Announcing, buffer
<1>16. CASE BufRead
  BY <1>16
<1>17. CASE BufEos
  BY <1>17, <1>a, Moves DEF BufEos, Quiet, Newest, Position, Held, Linked, Shape,
    SourceTypes, SourcePlace, Announcing, buffer
<1>18. CASE BufWait
  BY <1>18, <1>a, Moves DEF BufWait, Quiet, Newest, Position, Held, Linked, Shape,
    SourceTypes, SourcePlace, Announcing, buffer
<1>19. CASE BufNotOk
  BY <1>19, <1>a, Moves DEF BufNotOk, Quiet, Newest, Position, Held, Linked, Shape,
    SourceTypes, SourcePlace, Announcing, buffer
<1>20. CASE BufPush
  <2>1. /\ UNCHANGED <<java, js, buffer, pad>> /\ pc'.src = pc.src
        /\ loc'.buffer = <<>> /\ ~pad.down
    BY <1>20, Moves DEF BufPush, Shape, ThreadTypes
  <2>2. out'.data = out.data \o loc.buffer /\ out'.from = out.from
    BY <1>20, <2>1 DEF BufPush, Shape, OutTypes
  <2>3. Pushed' = Pushed
    <3>1. (out.data \o loc.buffer) \o <<>> = out.data \o loc.buffer
      BY DEF Shape, OutTypes, ThreadTypes
    <3>2. Pushed' = out'.data \o loc'.buffer
      BY DEF Pushed
    <3>3. out'.data \o loc'.buffer = (out.data \o loc.buffer) \o <<>>
      BY <2>1, <2>2
    <3> QED
      BY <3>1, <3>2, <3>3 DEF Pushed
  <2> QED
    BY <2>1, <2>2, <2>3 DEF Quiet, Newest, Position, Held, Linked, buffer
<1>21. CASE BufAfter
  BY <1>21, <1>a, Moves DEF BufAfter, Quiet, Newest, Position, Held, Linked, Shape,
    SourceTypes, SourcePlace, Announcing, buffer
<1>22. CASE BufCheck
  BY <1>22, <1>a, Moves DEF BufCheck, Quiet, Newest, Position, Held, Linked, Shape,
    SourceTypes, SourcePlace, Announcing, buffer
<1>23. CASE SeekFlag
  BY <1>23, <1>a, Moves DEF SeekFlag, Quiet, Newest, Position, Held, Linked, Shape,
    SourceTypes, SourcePlace, Announcing, buffer
<1>24. CASE SeekDown
  <2>1. pad'.down
    BY <1>24 DEF SeekDown, StreamInv, Flushing, Shape, ThreadTypes
  <2> QED
    BY <2>1
<1>25. CASE SeekData
  <2>1. pad'.down
    BY <1>25 DEF SeekData, StreamInv, Flushing, Shape, ThreadTypes
  <2> QED
    BY <2>1
<1>26. CASE SeekPause
  <2>1. pad'.down
    BY <1>26 DEF SeekPause, StreamInv, Flushing, Shape, ThreadTypes
  <2> QED
    BY <2>1
<1>27. CASE SeekPaused
  <2>1. pad'.down
    BY <1>27 DEF SeekPaused, StreamInv, Flushing, Shape, ThreadTypes
  <2> QED
    BY <2>1
<1>28. CASE SeekWrong
  <2>1. pad'.down
    BY <1>28 DEF SeekWrong, StreamInv, Flushing, Shape, ThreadTypes
  <2> QED
    BY <2>1
<1>29. CASE SeekLocked
  <2>1. pad'.down
    BY <1>29 DEF SeekLocked, StreamInv, Flushing, Shape, ThreadTypes
  <2> QED
    BY <2>1
<1>30. CASE SeekStop
  BY <1>30
<1>31. CASE StopData
  <2>1. pad'.down
    BY <1>31 DEF StopData, StreamInv, Flushing, Shape, ThreadTypes
  <2> QED
    BY <2>1
<1>32. CASE StopSrcPad
  <2>1. pad'.down
    BY <1>32 DEF StopSrcPad, StreamInv, Flushing, Shape, ThreadTypes
  <2> QED
    BY <2>1
<1>33. CASE StopJoin
  <2>1. pad'.down
    BY <1>33 DEF StopJoin, StreamInv, Flushing, Shape, ThreadTypes
  <2> QED
    BY <2>1
<1>34. CASE StopSinkPad
  <2>1. pad'.down
    BY <1>34 DEF StopSinkPad, StreamInv, Flushing, Shape, ThreadTypes
  <2> QED
    BY <2>1
<1>35. CASE StopDrained
  <2>1. pad'.down
    BY <1>35 DEF StopDrained, StreamInv, Flushing, Shape, ThreadTypes
  <2> QED
    BY <2>1
<1>36. CASE StopSource
  <2>1. pad'.down
    BY <1>36 DEF StopSource, StreamInv, Flushing, Shape, ThreadTypes
  <2> QED
    BY <2>1
<1>37. CASE StopClosed
  <2>1. pad'.down
    BY <1>37 DEF StopClosed, StreamInv, Flushing, Shape, ThreadTypes
  <2> QED
    BY <2>1
<1>38. CASE (\E t \in Targets : SeekBegin(t)) \/ StopBegin \/ SrcReadError
  <2>1. /\ UNCHANGED <<java, js, buffer, out>> /\ loc'.buffer = loc.buffer
    BY <1>38 DEF SeekBegin, StopBegin, SrcReadError, Shape, ThreadTypes
  <2>2. CASE \E t \in Targets : SeekBegin(t)
    <3>1. pc'.src = pc.src /\ pad'.sink
      BY <2>2, Moves DEF SeekBegin, Shape, ThreadTypes
    <3> QED
      BY <2>1, <3>1, <1>a DEF Quiet, Newest, Position, Held, Linked, Announcing, buffer
  <2>3. CASE StopBegin
    BY <2>3 DEF StopBegin, Shape, ThreadTypes
  <2>4. CASE SrcReadError
    <3>1. pc.src = "read" /\ pc'.src = "fin" /\ UNCHANGED pad
      BY <2>4, Moves DEF SrcReadError
    <3> QED
      BY <2>1, <3>1, <1>a DEF Quiet, Newest, Position, Held, Linked, Announcing, buffer
  <2> QED
    BY <1>38, <2>2, <2>3, <2>4
<1>39. CASE UNCHANGED vars
  BY <1>39, <1>a, Moves DEF vars, Quiet, Newest, Position, Held, Linked, Shape,
    SourceTypes, SourcePlace, Announcing, buffer
<1> QED
  BY <1>1, <1>2, <1>3, <1>4, <1>5, <1>6, <1>7, <1>8, <1>9, <1>10, <1>11, <1>12, <1>13,
    <1>14, <1>15, <1>16, <1>17, <1>18, <1>19, <1>20, <1>21, <1>22, <1>23, <1>24, <1>25,
    <1>26, <1>27, <1>28, <1>29, <1>30, <1>31, <1>32, <1>33, <1>34, <1>35, <1>36, <1>37,
    <1>38, <1>39 DEF Next, SrcStep, BufStep, CtlStep, EnvStep

(* Only the end of a seek lets data downstream again. *)
LEMMA Reopens ==
    ASSUME Shape, [Next]_vars, ~pad'.down
    PROVE  ~pad.down \/ SeekStop
<1> SUFFICES ASSUME pad.down, pad' # pad
             PROVE  SeekStop
  OBVIOUS
<1>1. (\E t \in Targets : SeekBegin(t)) \/ SeekDown \/ SeekStop \/ StopBegin \/ StopSinkPad
  BY DEF Next, SrcStep, BufStep, CtlStep, EnvStep, vars, SrcTop, SrcUnpark, SrcSize, SrcNewSegment,
    SrcAccept, SrcRestart, SrcTake, SrcFull, SrcWoken, SrcRead, SrcChain, SrcWrite, SrcEos, SrcFin,
    BufTop, BufRead, BufEos, BufWait, BufNotOk, BufPush, BufAfter, BufCheck, SeekFlag, SeekData,
    SeekPause, SeekPaused, SeekWrong, SeekLocked, StopData, StopSrcPad, StopJoin, StopDrained,
    StopSource, StopClosed, SrcReadError
<1> QED
  BY <1>1 DEF SeekBegin, SeekDown, StopBegin, StopSinkPad, Shape, ThreadTypes

(* A unit that is stored goes to the newest slot, which has room for it. *)
LEMMA WriteStep ==
    ASSUME Shape, SlotsInv, StreamInv, ~pad.down, SrcWrite, hb.wi \in Slot
    PROVE  LET w == hb.wi IN
           /\ ~ready[w] /\ Newest = w /\ Newest' = w
           /\ UNCHANGED <<java, js, hb, size, ready, pad, loc, out>> /\ pc'.src = "fin"
           /\ cache[w].wr \in Nat /\ cache[w].wr < SegSize
           /\ cache'[w].rd = cache[w].rd /\ cache'[w].wr = cache[w].wr + 1
           /\ cache'[w].file[cache[w].wr + 1] = loc.unit
           /\ \A j \in 1 .. cache[w].wr : cache'[w].file[j] = cache[w].file[j]
           /\ \A i \in Slot \ {w} : cache'[i] = cache[i]
           /\ Position = loc.unit /\ Position' = loc.unit + 1 /\ Linked
<1> DEFINE w == hb.wi
<1>1. /\ UNCHANGED <<java, js, hb, size, ready, pad, loc, out>> /\ pc.src = "write" /\ pc'.src = "fin"
      /\ cache' = [cache EXCEPT ![w] = cache_write_buffer(cache[w], <<loc.unit>>)]
  BY Moves, Constants DEF SrcWrite, Slot
<1>2. /\ js.pending = "unknown" /\ java.file \in Segment /\ java.rest \in 0 .. SegSize - 1
      /\ loc.unit = java.file * SegSize - java.rest /\ SegSize \in Nat
  BY <1>1, Constants DEF Shape, SourcePlace, SourceTypes
<1>3. loc.unit \in Units
  BY <1>2, UnitInTotal DEF Units
<1> DEFINE d == cache_write_buffer(cache[w], <<loc.unit>>)
<1>4. CacheOK(cache[w])
  BY DEF Shape, BufferTypes
<1>5. /\ d.rd = cache[w].rd /\ d.wr = cache[w].wr + 1 /\ d.file[d.wr] = loc.unit
      /\ \A j \in 1 .. cache[w].wr : d.file[j] = cache[w].file[j]
  BY <1>3, <1>4, WriteFacts
<1> HIDE DEF d
<1>6. cache'[w] = d /\ \A i \in Slot \ {w} : cache'[i] = cache[i]
  BY <1>1 DEF d, Shape, BufferTypes
<1>7. cache[w].wr \in Nat /\ cache[w].rd \in Nat /\ cache[w].rd <= cache[w].wr /\ java.rest >= 0
  BY <1>2, <1>4 DEF CacheOK, Cache
<1>8. hb.result = "ok"
  BY <1>2 DEF StreamInv, Ended
<1>9. size[w] = SegSize /\ cache[w].wr + 1 + java.rest <= SegSize
  BY <1>1, <1>2, <1>8 DEF SlotsInv, Fits, Storing, Held
<1>10. cache[w].wr < SegSize /\ ~ready[w]
  BY <1>2, <1>7, <1>8, <1>9 DEF SlotsInv, GivenBack
<1>11. Newest = w /\ Newest' = w
  BY <1>1 DEF Newest
<1>12. java.file * SegSize \in Int /\ java.rest \in Int
  BY <1>2 DEF Segment
<1>13. Position = loc.unit /\ Position' = loc.unit + 1
  BY <1>1, <1>2, <1>12 DEF Position, Held
<1> QED
  BY <1>1, <1>5, <1>6, <1>7, <1>10, <1>11, <1>13 DEF Linked

(* The state a seek starts from again. *)
LEMMA StopStep ==
    ASSUME Shape, SlotsInv, StreamInv, SeekStop
    PROVE  /\ UNCHANGED <<java, js, cache, size, ready, loc>> /\ hb'.ri = 0 /\ Newest' = hb.wi
           /\ hb.wi \in {-1, 0} /\ \A i \in Slot : ready[i] <=> i # hb.wi
           /\ \A i \in Slot : cache[i].wr = 0 /\ cache[i].rd = 0
           /\ hb.wi = 0 => size[0] = SegSize
           /\ Pushed' = <<>> /\ pc.src = "parked" /\ pc'.src = "parked"
           /\ out'.from = IF loc.target = 0 THEN 0 ELSE (loc.target - 1) * SegSize + 1
           /\ loc.target # 0 => java.file = loc.target - 1 /\ js.pending = "newsegment"
<1>1. /\ UNCHANGED <<java, js, cache, size, ready, loc>> /\ hb'.ri = hb.ri /\ hb'.wi = hb.wi
      /\ pc.ctl = "s_stop" /\ pc.src = "parked" /\ pc'.src = "parked" /\ out'.data = out.data
      /\ out'.from = IF loc.target = 0 THEN 0 ELSE (loc.target - 1) * SegSize + 1
  BY Moves DEF SeekStop, Shape, BufferTypes, OutTypes, SourcePlace
<1>2. /\ hb.ri = 0 /\ hb.wi \in {-1, 0} /\ (\A i \in Slot : ready[i] <=> i # hb.wi)
      /\ out.data = <<>> /\ loc.buffer = <<>>
      /\ (loc.target # 0 => java.file = loc.target - 1 /\ js.pending = "newsegment")
  BY <1>1 DEF StreamInv, Flushing, Seeking
<1>3. /\ \A i \in Slot : cache[i].wr = 0
      /\ hb.wi \in Slot => size[hb.wi] = SegSize
  BY <1>1 DEF SlotsInv, Emptied
<1>4. \A i \in Slot : cache[i].rd \in Nat /\ cache[i].rd <= cache[i].wr
  BY DEF Shape, BufferTypes, CacheOK, Cache
<1>5. \A i \in Slot : cache[i].rd = 0
  BY <1>3, <1>4
<1>6. Pushed' = <<>>
  <2>1. Pushed' = out'.data \o loc'.buffer
    BY DEF Pushed
  <2>2. out'.data = <<>> /\ loc'.buffer = <<>>
    BY <1>1, <1>2
  <2>3. <<>> \o <<>> = <<>>
    OBVIOUS
  <2> QED
    BY <2>1, <2>2, <2>3
<1> QED
  BY <1>1, <1>2, <1>3, <1>5, <1>6, Constants DEF Newest

LEMMA RingKept ==
    ASSUME Shape, SlotsInv, StreamInv, [Next]_vars, ~pad'.down
    PROVE  Ring'
<1>1. CASE SeekStop
  <2>1. 0 \in Slot /\ SegSize > 0 /\ -1 \notin Slot
    BY Constants DEF Slot
  <2>2. CASE hb.wi = -1
    BY <1>1, <2>1, <2>2, StopStep, AfterFacts DEF Ring
  <2>3. CASE hb.wi = 0
    <3>1. \A i \in Slot : i # 0 <=> Ahead(0, i) > Ahead(0, 0)
      BY <2>1, AheadFacts
    <3> QED
      BY <1>1, <2>1, <2>3, <3>1, StopStep DEF Ring
  <2> QED
    BY <1>1, <2>2, <2>3, StopStep
<1>2. ASSUME ~pad.down PROVE Ring'
  <2>1. Ring
    BY <1>2 DEF StreamInv
  <2>2. CASE Quiet
    BY <2>1, <2>2 DEF Quiet, Ring
  <2>3. CASE Taken
    BY <2>1, <2>3, RingTaken DEF Taken
  <2>4. CASE SrcWrite /\ hb.wi \in Slot
    BY <1>2, <2>1, <2>4, WriteStep DEF Ring
  <2>5. CASE BufRead
    BY <1>2, <2>5, RingRead
  <2> QED
    BY <1>1, <2>2, <2>3, <2>4, <2>5, StreamSteps
<1> QED
  BY <1>1, <1>2, Reopens

LEMMA PositionInt ==
    ASSUME Shape'
    PROVE  Position' \in Int
<1>1. java'.file \in Int /\ java'.rest \in Int /\ SegSize \in Int /\ Total \in Int
  BY Constants DEF Shape, SourceTypes
<1>2. java'.file * SegSize \in Int
  BY <1>1
<1> QED
  BY <1>1, <1>2 DEF Position, Held

(* Nothing stored and nothing pushed: the stream may go on anywhere. *)
LEMMA StartsAnywhere ==
    ASSUME Shape', \A i \in Slot : cache'[i].wr = 0 /\ cache'[i].rd = 0, Pushed' = <<>>,
           out'.from = 0 \/ out'.from = Position'
    PROVE  InSequence'
<1>1. PICK p \in Int : p = Position'
  BY PositionInt
<1>2. PICK base \in [Slot -> Int] : \A i \in Slot : base[i] = p
  <2>1. [i \in Slot |-> p] \in [Slot -> Int]
    OBVIOUS
  <2> QED
    BY <2>1
<1>3. Runs(base)'
  BY Constants DEF Runs
<1>4. GoesOn(base, p)'
  BY <1>1, <1>2 DEF GoesOn
<1>5. Upcoming(base, p)' = p
  BY <1>2 DEF Upcoming, Shape, BufferTypes
<1>6. EndsAt(p)'
  <2>1. Len(Pushed') = 0 /\ 1 .. 0 = {}
    OBVIOUS
  <2>2. out'.from # 0 => p = out'.from + 0
    BY <1>1
  <2> QED
    BY <2>1, <2>2 DEF EndsAt
<1>7. EndsAt(Upcoming(base, p))'
  BY <1>5, <1>6 DEF EndsAt
<1> QED
  BY <1>3, <1>4, <1>7 DEF InSequence

LEMMA TakenInSequence ==
    ASSUME Shape, StreamInv, ~pad.down, Taken
    PROVE  InSequence'
<1>1. PICK w \in Slot : w = After(Newest) /\ ready[w] /\ Prepare(w) /\ hb'.wi = w
  BY DEF Taken
<1>2. PICK base \in [Slot -> Int], p \in Int : Runs(base) /\ GoesOn(base, p) /\ EndsAt(Upcoming(base, p))
  BY DEF StreamInv, InSequence
<1>3. Ring /\ hb.ri \in Slot /\ hb'.ri = hb.ri /\ UNCHANGED <<java, pad, out>>
  BY DEF StreamInv, Taken, Shape, BufferTypes
<1>4. Newest' = w /\ ~ready'[w] /\ pc'.src = "fin" /\ js'.pending = "unknown"
  BY <1>1, <1>3, RingTaken, PrepareShape, Moves DEF Prepare, Shape
<1>5. /\ cache'[w].rd = 0 /\ cache'[w].wr = 0
      /\ \A i \in Slot \ {w} : cache'[i] = cache[i] /\ size'[i] = size[i] /\ ready'[i] = ready[i]
  BY <1>1, PrepareShape DEF Shape
<1>6. PICK next \in [Slot -> Int] : next = [base EXCEPT ![w] = p]
  OBVIOUS
<1>7. next[w] = p /\ \A i \in Slot \ {w} : next[i] = base[i]
  BY <1>6
<1>8. ASSUME NEW i \in Slot, ~ready'[i], i # w
      PROVE  /\ \A j \in 1 .. cache'[i].wr : cache'[i].file[j] = next[i] + j - 1
             /\ cache'[i].wr = SegSize => next[After(i)] = next[i] + SegSize
  <2>1. ~ready[i] /\ cache'[i] = cache[i] /\ next[i] = base[i]
    BY <1>5, <1>7, <1>8
  <2>2. \A j \in 1 .. cache[i].wr : cache[i].file[j] = base[i] + j - 1
    BY <1>2, <2>1 DEF Runs
  <2>3. Newest \in Slot
    BY <1>3, <2>1 DEF Ring
  <2>4. CASE i = Newest
    <3>1. p = base[i] + cache[i].wr
      BY <1>2, <2>1, <2>3, <2>4 DEF GoesOn
    <3> QED
      BY <1>1, <1>7, <2>1, <2>2, <2>4, <3>1
  <2>5. CASE i # Newest
    <3>1. After(i) # w /\ After(i) \in Slot
      BY <1>1, <2>3, <2>5, AfterFacts
    <3>2. cache[i].wr = SegSize => base[After(i)] = base[i] + SegSize
      BY <1>2, <2>1, <2>5 DEF Runs
    <3> QED
      BY <1>7, <2>1, <2>2, <3>1, <3>2
  <2> QED
    BY <2>4, <2>5
<1>9. Runs(next)'
  BY <1>4, <1>5, <1>8 DEF Runs
<1>10. GoesOn(next, p)'
  <2>1. p = next[w] + cache'[w].wr
    BY <1>5, <1>7
  <2>2. Linked' => p = Position'
    <3>1. Linked' => Linked
      BY <1>3, <1>4 DEF Linked
    <3>2. Position' = Position
      <4>1. java.rest = SegSize /\ pc.src \in {"take", "woken"}
        BY DEF Taken, Shape, SourcePlace, Announcing
      <4> QED
        BY <1>3, <1>4, <4>1 DEF Position, Held, Announcing
    <3> QED
      BY <1>2, <3>1, <3>2 DEF GoesOn
  <2> QED
    BY <1>4, <2>1, <2>2 DEF GoesOn
<1>11. Upcoming(next, p)' = Upcoming(base, p)
  <2>1. CASE ready[hb.ri]
    <3>1. w = hb.ri
      BY <1>1, <1>3, <2>1 DEF Ring
    <3> QED
      BY <1>3, <1>4, <1>5, <1>7, <2>1, <3>1 DEF Upcoming
  <2>2. CASE ~ready[hb.ri]
    BY <1>1, <1>3, <1>5, <1>7, <2>2 DEF Upcoming
  <2> QED
    BY <2>1, <2>2
<1>12. EndsAt(Upcoming(next, p))'
  <2>1. Pushed' = Pushed
    BY DEF Taken, Pushed
  <2> QED
    BY <1>2, <1>3, <1>11, <2>1 DEF EndsAt
<1> QED
  BY <1>9, <1>10, <1>12 DEF InSequence

LEMMA WriteInSequence ==
    ASSUME Shape, SlotsInv, StreamInv, ~pad.down, SrcWrite, hb.wi \in Slot
    PROVE  InSequence'
<1> DEFINE w == hb.wi
<1>1. PICK base \in [Slot -> Int], p \in Int : Runs(base) /\ GoesOn(base, p) /\ EndsAt(Upcoming(base, p))
  BY DEF StreamInv, InSequence
<1>2. Ring /\ hb.ri \in Slot
  BY DEF StreamInv, Shape, BufferTypes
<1>3. /\ ~ready[w] /\ Newest = w /\ Newest' = w
      /\ UNCHANGED <<java, js, hb, size, ready, pad, loc, out>> /\ pc'.src = "fin"
      /\ cache[w].wr \in Nat
      /\ cache'[w].rd = cache[w].rd /\ cache'[w].wr = cache[w].wr + 1
      /\ cache'[w].file[cache[w].wr + 1] = loc.unit
      /\ \A j \in 1 .. cache[w].wr : cache'[w].file[j] = cache[w].file[j]
      /\ \A i \in Slot \ {w} : cache'[i] = cache[i]
      /\ Position = loc.unit /\ Position' = loc.unit + 1 /\ Linked
  BY WriteStep
<1>4. p = loc.unit /\ p = base[w] + cache[w].wr
  BY <1>1, <1>3 DEF GoesOn
<1>5. \A j \in 1 .. cache'[w].wr : cache'[w].file[j] = base[w] + j - 1
  <2>1. \A j \in 1 .. cache[w].wr : cache[w].file[j] = base[w] + j - 1
    BY <1>1, <1>3 DEF Runs
  <2>2. \A j \in 1 .. cache'[w].wr : j \in 1 .. cache[w].wr \/ j = cache[w].wr + 1
    BY <1>3
  <2> QED
    BY <1>3, <1>4, <2>1, <2>2
<1>6. Runs(base)'
  BY <1>1, <1>3, <1>5 DEF Runs
<1>7. GoesOn(base, p + 1)'
  BY <1>3, <1>4 DEF GoesOn
<1>8. Upcoming(base, p + 1)' = Upcoming(base, p)
  <2>1. ~ready[hb.ri]
    BY <1>2, <1>3 DEF Ring
  <2>2. cache'[hb.ri].rd = cache[hb.ri].rd
    BY <1>2, <1>3
  <2> QED
    BY <1>3, <2>1, <2>2 DEF Upcoming
<1>9. EndsAt(Upcoming(base, p + 1))'
  <2>1. Pushed' = Pushed
    BY <1>3 DEF Pushed
  <2> QED
    BY <1>1, <1>3, <1>8, <2>1 DEF EndsAt
<1> QED
  BY <1>6, <1>7, <1>9, p + 1 \in Int DEF InSequence

LEMMA ReadInSequence ==
    ASSUME Shape, SlotsInv, StreamInv, ~pad.down, BufRead
    PROVE  InSequence'
<1> DEFINE r == hb.ri
           k == cache'[r].rd - cache[r].rd
<1>1. PICK base \in [Slot -> Int], p \in Int : Runs(base) /\ GoesOn(base, p) /\ EndsAt(Upcoming(base, p))
  BY DEF StreamInv, InSequence
<1>2. /\ r \in Slot /\ ~ready[r] /\ Newest \in Slot
      /\ UNCHANGED <<java, js, size, pad, out>> /\ Newest' = Newest
      /\ cache[r].rd \in Nat /\ cache[r].wr \in Nat /\ cache'[r].rd \in Nat
      /\ cache'[r].wr = cache[r].wr /\ cache'[r].file = cache[r].file
      /\ cache[r].rd < cache'[r].rd /\ cache'[r].rd <= cache[r].wr /\ cache[r].wr <= SegSize
      /\ \A i \in Slot \ {r} : cache'[i] = cache[i]
      /\ loc'.buffer \in Seq(Units) /\ Len(loc'.buffer) = k
      /\ \A j \in 1 .. Len(loc'.buffer) : loc'.buffer[j] = cache[r].file[cache[r].rd + j]
      /\ \/ cache'[r].rd = SegSize /\ hb'.ri = After(r) /\ ready' = [ready EXCEPT ![r] = TRUE]
         \/ cache'[r].rd < SegSize /\ hb'.ri = r /\ ready' = ready
  BY ReadStep
<1>3. /\ ready \in [Slot -> BOOLEAN] /\ SegSize \in Nat /\ out.data \in Seq(Units)
      /\ Len(out.data) \in Nat /\ k \in Nat /\ base[r] \in Int
  <2>1. ready \in [Slot -> BOOLEAN] /\ SegSize \in Nat
    BY Constants DEF Shape, BufferTypes
  <2>2. out.data \in Seq(Units)
    BY DEF Shape, OutTypes
  <2>3. k \in Nat /\ base[r] \in Int
    BY <1>2
  <2> QED
    BY <2>1, <2>2, <2>3
<1>4. \A i \in Slot : ~ready'[i] => ~ready[i]
  BY <1>2, <1>3
<1>5. /\ \A i \in Slot : cache'[i].wr = cache[i].wr /\ cache'[i].file = cache[i].file
  BY <1>2
<1>6. Runs(base)'
  BY <1>1, <1>2, <1>4, <1>5 DEF Runs
<1>7. GoesOn(base, p)'
  <2>1. /\ pc'.src \in Announcing <=> pc.src \in Announcing
        /\ pc'.src \in {"chain", "write"} <=> pc.src \in {"chain", "write"}
        /\ pc'.src = "write" <=> pc.src = "write"
    BY Moves DEF BufRead, Announcing
  <2>2. Position' = Position /\ (Linked' <=> Linked)
    BY <1>2, <2>1 DEF Position, Held, Linked
  <2> QED
    BY <1>1, <1>2, <1>4, <1>5, <2>2 DEF GoesOn
<1>8. Upcoming(base, p) = base[r] + cache[r].rd
  BY <1>2 DEF Upcoming
<1>9. Upcoming(base, p)' = base[r] + cache'[r].rd
  <2>1. CASE cache'[r].rd < SegSize
    BY <1>2, <1>3, <2>1 DEF Upcoming
  <2>2. CASE cache'[r].rd = SegSize
    <3>1. /\ hb'.ri = After(r) /\ ready' = [ready EXCEPT ![r] = TRUE] /\ cache[r].wr = SegSize
          /\ ready'[After(r)] <=> r = Newest
      BY <1>2, <1>3, <2>2, RingRead
    <3>2. CASE r = Newest
      <4>1. p = base[r] + SegSize
        BY <1>1, <1>2, <3>1, <3>2 DEF GoesOn
      <4> QED
        BY <2>2, <3>1, <3>2, <4>1 DEF Upcoming
    <3>3. CASE r # Newest
      <4>1. base[After(r)] = base[r] + SegSize
        BY <1>1, <1>2, <3>1, <3>3 DEF Runs
      <4>2. After(r) \in Slot /\ After(r) # r /\ ~ready[After(r)]
        BY <1>2, <1>3, <1>4, <3>1, <3>3, AfterFacts
      <4>3. cache'[After(r)].rd = 0
        BY <1>2, <4>2 DEF StreamInv, Ring
      <4> QED
        BY <1>3, <2>2, <3>1, <3>3, <4>1, <4>3 DEF Upcoming
    <3> QED
      BY <3>2, <3>3
  <2> QED
    BY <1>2, <1>3, <2>1, <2>2
<1>10. EndsAt(Upcoming(base, p))'
  <2> DEFINE d == out.data
             b == loc'.buffer
             n == base[r] + cache[r].rd
             m == base[r] + cache'[r].rd
  <2>1. loc.buffer = <<>>
    BY DEF StreamInv, Flushing, BufRead
  <2>2. Pushed = d
    <3>1. d \o <<>> = d
      BY <1>3
    <3> QED
      BY <2>1, <3>1 DEF Pushed
  <2>3. Pushed' = d \o b
    BY <1>2 DEF Pushed
  <2>4. /\ Len(d \o b) = Len(d) + k
        /\ \A i \in 1 .. Len(d) + k : (d \o b)[i] = IF i <= Len(d) THEN d[i] ELSE b[i - Len(d)]
    <3>1. d \in Seq(Units) /\ b \in Seq(Units)
      BY <1>2, <1>3
    <3>2. /\ Len(d \o b) = Len(d) + Len(b)
          /\ \A i \in 1 .. Len(d) + Len(b) : (d \o b)[i] = IF i <= Len(d) THEN d[i] ELSE b[i - Len(d)]
      BY <3>1, ConcatProperties, Zenon
    <3>3. Len(b) = k
      BY <1>2
    <3> HIDE DEF k, d, b
    <3> QED
      BY <3>2, <3>3
  <2>5. \A i \in 1 .. Len(d) : d[i] = n - Len(d) + i - 1
    BY <1>1, <1>8, <2>2 DEF EndsAt
  <2>6. \A j \in 1 .. k : b[j] = n + j - 1
    <3>1. \A j \in 1 .. k : cache[r].rd + j \in 1 .. cache[r].wr
      <4>1. cache[r].rd + k <= cache[r].wr /\ k \in Nat /\ cache[r].rd \in Nat /\ cache[r].wr \in Nat
        BY <1>2, <1>3
      <4> HIDE DEF k
      <4> QED
        BY <4>1
    <3>2. \A j \in 1 .. cache[r].wr : cache[r].file[j] = base[r] + j - 1
      BY <1>1, <1>2 DEF Runs
    <3>3. \A j \in 1 .. k : base[r] + (cache[r].rd + j) - 1 = n + j - 1
      BY <1>2, <1>3
    <3> QED
      BY <1>2, <3>1, <3>2, <3>3
  <2>7. m = n + k /\ m \in Int /\ n \in Int
    BY <1>2, <1>3
  <2> HIDE DEF n, m, k, b, d
  <2>8. \A i \in 1 .. Len(d) + k : (d \o b)[i] = m - (Len(d) + k) + i - 1
    <3> SUFFICES ASSUME NEW i \in 1 .. Len(d) + k
                 PROVE  (d \o b)[i] = m - (Len(d) + k) + i - 1
      OBVIOUS
    <3>1. Len(d) \in Nat /\ k \in Nat
      BY <1>3 DEF d
    <3>2. CASE i <= Len(d)
      <4>1. (d \o b)[i] = d[i] /\ i \in 1 .. Len(d)
        BY <2>4, <3>1, <3>2
      <4>2. n - Len(d) + i - 1 = m - (Len(d) + k) + i - 1
        BY <2>7, <3>1
      <4> QED
        BY <2>5, <4>1, <4>2
    <3>3. CASE ~(i <= Len(d))
      <4>1. (d \o b)[i] = b[i - Len(d)] /\ i - Len(d) \in 1 .. k
        BY <2>4, <3>1, <3>3
      <4>2. n + (i - Len(d)) - 1 = m - (Len(d) + k) + i - 1
        BY <2>7, <3>1
      <4> QED
        BY <2>6, <4>1, <4>2
    <3> QED
      BY <3>2, <3>3
  <2>9. out.from # 0 => m = out.from + (Len(d) + k)
    <3>1. out.from # 0 => n = out.from + Len(d)
      BY <1>1, <1>8, <2>2 DEF EndsAt, n
    <3>2. out.from \in Int /\ Len(d) \in Nat /\ k \in Nat
      BY <1>3 DEF d, Shape, OutTypes
    <3> QED
      BY <2>7, <3>1, <3>2
  <2>10. Upcoming(base, p)' = m /\ out' = out
    BY <1>2, <1>9 DEF m
  <2>11. Len(Pushed') = Len(d) + k
    BY <2>3, <2>4
  <2> QED
    BY <2>3, <2>8, <2>9, <2>10, <2>11 DEF EndsAt
<1> QED
  BY <1>6, <1>7, <1>10 DEF InSequence

LEMMA QuietInSequence ==
    ASSUME Shape', StreamInv, ~pad.down, Ended', Quiet
    PROVE  InSequence'
<1>1. CASE Linked' /\ hb'.eos /\ js'.pending = "unknown"
  <2>1. ~pad'.sink
    BY <1>1 DEF Linked, Ended
  <2>2. out'.from = 0 /\ Pushed' = <<>> /\ \A i \in Slot : cache'[i].wr = 0
    BY <1>1, <2>1 DEF Ended
  <2>3. \A i \in Slot : cache'[i].rd \in Nat /\ cache'[i].rd <= cache'[i].wr
    BY DEF Shape, BufferTypes, CacheOK, Cache
  <2>4. \A i \in Slot : cache'[i].rd = 0
    BY <2>2, <2>3
  <2> QED
    BY <2>2, <2>4, StartsAnywhere
<1>2. CASE ~(Linked' /\ hb'.eos /\ js'.pending = "unknown")
  <2>1. PICK base \in [Slot -> Int], p \in Int : Runs(base) /\ GoesOn(base, p) /\ EndsAt(Upcoming(base, p))
    BY DEF StreamInv, InSequence
  <2>2. Linked' => Linked /\ Position' = Position
    BY <1>2 DEF Quiet
  <2>3. /\ UNCHANGED <<cache, size, ready>> /\ hb'.ri = hb.ri /\ Newest' = Newest
        /\ Pushed' = Pushed /\ out'.from = out.from
    BY DEF Quiet
  <2>4. Runs(base)' /\ GoesOn(base, p)'
    BY <2>1, <2>2, <2>3 DEF Runs, GoesOn
  <2>5. Upcoming(base, p)' = Upcoming(base, p)
    BY <2>3 DEF Upcoming
  <2>6. EndsAt(Upcoming(base, p))'
    BY <2>1, <2>3, <2>5 DEF EndsAt
  <2> QED
    BY <2>4, <2>6 DEF InSequence
<1> QED
  BY <1>1, <1>2

LEMMA InSequenceKept ==
    ASSUME Shape, Shape', SlotsInv, StreamInv, [Next]_vars, ~pad'.down, Ended'
    PROVE  InSequence'
<1>1. CASE SeekStop
  <2>1. /\ \A i \in Slot : cache'[i].wr = 0 /\ cache'[i].rd = 0
        /\ Pushed' = <<>> /\ pc'.src = "parked" /\ UNCHANGED <<java, js, loc>>
        /\ out'.from = IF loc.target = 0 THEN 0 ELSE (loc.target - 1) * SegSize + 1
        /\ loc.target # 0 => java.file = loc.target - 1 /\ js.pending = "newsegment"
    BY <1>1, StopStep
  <2>2. loc.target # 0 => java'.file <= NumSegments
    BY <2>1, Constants DEF Shape, SourceTypes, ThreadTypes
  <2>3. loc.target # 0 => out'.from = Position'
    BY <2>1, <2>2 DEF Position, Announcing
  <2> QED
    BY <2>1, <2>3, StartsAnywhere
<1>2. ASSUME ~pad.down PROVE InSequence'
  BY <1>1, <1>2, StreamSteps, QuietInSequence, TakenInSequence, WriteInSequence, ReadInSequence
<1> QED
  BY <1>1, <1>2, Reopens

LEMMA Undisturbed ==
    ASSUME Shape, Bounds, StreamInv, [Next]_vars, ~flushed'
    PROVE  /\ ~flushed /\ pc.ctl = "idle" /\ ~pad.sink /\ ~pad.down /\ ~pad'.down /\ ~hb.flushing
           /\ Ended /\ Ring /\ InSequence /\ out.from = 1 /\ Filling /\ Announced
           /\ hb.eos => js.pending = "eos"
           /\ js.pending = "unknown" => hb.wi \in Slot
<1>1. ~flushed /\ (pad'.down => pad.down \/ pc.ctl # "idle")
  <2> USE DEF SrcTop, SrcUnpark, SrcSize, SrcNewSegment, SrcAccept, SrcRestart, SrcTake, SrcFull,
    SrcWoken, SrcRead, SrcChain, SrcWrite, SrcEos, SrcFin, BufTop, BufRead, BufEos, BufWait,
    BufNotOk, BufPush, BufAfter, BufCheck, SeekFlag, SeekDown, SeekData, SeekPause, SeekPaused,
    SeekWrong, SeekLocked, SeekStop, StopData, StopSrcPad, StopJoin, StopSinkPad, StopDrained,
    StopSource, StopClosed, SeekBegin, StopBegin, SrcReadError
  <2>1. CASE SrcStep \/ BufStep \/ SrcReadError
    <3>1. SrcStep => UNCHANGED <<pad, flushed>>
      BY DEF SrcStep
    <3>2. BufStep \/ SrcReadError => UNCHANGED <<pad, flushed>>
      BY DEF BufStep
    <3> QED
      BY <2>1, <3>1, <3>2
  <2>2. CASE CtlStep
    BY <2>2 DEF CtlStep
  <2>3. CASE (\E t \in Targets : SeekBegin(t)) \/ StopBegin \/ UNCHANGED vars
    BY <2>3 DEF vars
  <2> QED
    BY <2>1, <2>2, <2>3 DEF Next, EnvStep
<1>2. /\ pc.ctl = "idle" /\ ~pad.sink /\ ~pad.down /\ (hb.eos => js.pending = "eos")
      /\ js.pending = "unknown" => hb.wi \in Slot
  BY <1>1 DEF Bounds
<1> QED
  BY <1>1, <1>2 DEF StreamInv, Whole, Flushing

LEMMA FillingKept ==
    ASSUME Shape, Bounds, SlotsInv, StreamInv, [Next]_vars, ~flushed'
    PROVE  Filling'
<1>u. /\ ~flushed /\ pc.ctl = "idle" /\ ~pad.sink /\ ~pad.down /\ ~pad'.down /\ ~hb.flushing
      /\ Ended /\ Ring /\ Filling /\ (hb.eos => js.pending = "eos")
      /\ js.pending = "unknown" => hb.wi \in Slot
  BY Undisturbed
<1>b. ASSUME Taken PROVE Filling'
  <2>1. PICK w \in Slot : w = After(Newest) /\ ready[w] /\ Prepare(w) /\ hb'.wi = w
    BY <1>b DEF Taken
  <2>2. Newest' = w
    BY <1>b, <1>u, <2>1, RingTaken DEF Taken
  <2>3. /\ cache'[w].wr = 0 /\ js'.pending = "unknown" /\ pc'.src = "fin"
        /\ \A i \in Slot \ {w} : cache'[i] = cache[i] /\ ready'[i] = ready[i]
    BY <2>1, PrepareShape, Moves DEF Shape, Prepare
  <2>4. js.pending = "newsegment" /\ java'.rest = SegSize
    BY <1>b DEF Taken, Shape, SourcePlace, Announcing
  <2>5. \A i \in Slot \ {w} : ~ready[i] => cache[i].wr = SegSize
    BY <1>u, <2>4 DEF Filling
  <2>6. SegSize - SegSize - 0 = 0
    BY Constants
  <2> QED
    BY <2>2, <2>3, <2>4, <2>5, <2>6 DEF Filling, Held
<1>1. CASE SrcTop
  <2>1. UNCHANGED <<java, js, cache, ready, hb>> /\ pc.src = "top"
        /\ pc'.src \in {"parked", "gone", "fin", "size", "eosev", "read"}
    BY <1>1, Moves DEF SrcTop, Shape, SourceTypes, buffer
  <2> QED
    BY <2>1, <1>u DEF Filling, Newest, Held
<1>2. CASE SrcUnpark
  BY <1>2, <1>u, Moves DEF SrcUnpark, Filling, Newest, Held, Shape, SourceTypes,
    SourcePlace, Announcing, buffer
<1>3. CASE SrcSize
  <2>1. UNCHANGED <<cache, ready, hb>> /\ pc.src = "size" /\ pc'.src \in {"fin", "nseg", "eosev"}
        /\ js.pending = "newsegment" /\ js'.pending \in {"newsegment", "eos"}
    BY <1>3, Moves DEF SrcSize, Shape, SourceTypes, SourcePlace, buffer
  <2> QED
    BY <2>1, <1>u DEF Filling, Newest
<1>4. CASE SrcNewSegment
  <2>1. UNCHANGED <<java, js, cache, ready, hb>> /\ pc.src = "nseg" /\ pc'.src = "accept"
    BY <1>4, <1>u, Moves DEF SrcNewSegment, buffer
  <2> QED
    BY <2>1, <1>u DEF Filling, Newest, Held
<1>5. CASE SrcAccept
  <2>1. js.pending = "newsegment" /\ hb.result = "ok"
    BY <1>5, <1>u DEF SrcAccept, Shape, SourcePlace, Announcing, Ended
  <2>2. UNCHANGED <<java, js, cache, ready, hb>> /\ pc.src = "accept" /\ pc'.src = "restart"
    BY <1>5, <2>1, Moves DEF SrcAccept, buffer
  <2> QED
    BY <2>2, <1>u DEF Filling, Newest, Held
<1>6. CASE SrcRestart
  BY <1>6, <1>u, Moves DEF SrcRestart, Filling, Newest, Held, Shape, SourceTypes,
    SourcePlace, Announcing, buffer
<1>7. CASE SrcTake
  <2>1. CASE Taken
    BY <2>1, <1>b
  <2>2. CASE ~Taken
    <3>1. Quiet /\ js' = js /\ js.pending = "newsegment"
      BY <1>7, <1>u, <2>2, TakeStep DEF SrcTake, SrcWoken, Shape, SourcePlace, Announcing
    <3> QED
      BY <3>1, <1>u DEF Quiet, Filling
  <2> QED
    BY <2>1, <2>2
<1>8. CASE SrcFull
  BY <1>8, <1>u, Moves DEF SrcFull, Filling, Newest, Held, Shape, SourceTypes,
    SourcePlace, Announcing, buffer
<1>9. CASE SrcWoken
  <2>1. CASE Taken
    BY <2>1, <1>b
  <2>2. CASE ~Taken
    <3>1. Quiet /\ js' = js /\ js.pending = "newsegment"
      BY <1>9, <1>u, <2>2, TakeStep DEF SrcTake, SrcWoken, Shape, SourcePlace, Announcing
    <3> QED
      BY <3>1, <1>u DEF Quiet, Filling
  <2> QED
    BY <2>1, <2>2
<1>10. CASE SrcRead
  <2>1. UNCHANGED <<cache, ready, hb>> /\ pc.src = "read" /\ js.pending = "unknown" /\ java.rest \in Int
    BY <1>10 DEF SrcRead, Shape, SourcePlace, SourceTypes, buffer
  <2>2. \/ java.rest = 0 /\ js'.pending = "newsegment" /\ pc'.src = "size"
        \/ js' = js /\ java'.rest = java.rest - 1 /\ pc'.src = "chain"
    BY <1>10, <1>u, Moves DEF SrcRead, Shape, SourceTypes
  <2>3. Newest' = Newest
    BY <2>1, <2>2 DEF Newest
  <2>4. Newest \in Slot => cache[Newest].wr = SegSize - java.rest
    BY <2>1, <1>u, Constants DEF Filling, Held
  <2> QED
    BY <2>1, <2>2, <2>3, <2>4, <1>u, Constants DEF Filling, Held
<1>11. CASE SrcChain
  <2>1. UNCHANGED <<java, js, cache, ready, hb>> /\ pc.src = "chain" /\ js.pending = "unknown"
    BY <1>11 DEF SrcChain, Shape, SourcePlace, buffer
  <2>2. pc'.src = "write"
    BY <1>11, <2>1, <1>u, Moves DEF SrcChain
  <2> QED
    BY <2>1, <2>2, <1>u DEF Filling, Newest, Held
<1>12. CASE SrcWrite
  <2>1. hb.wi \in Slot
    BY <1>12, <1>u DEF SrcWrite, Shape, SourcePlace
  <2> DEFINE w == hb.wi
  <2>2. /\ Newest = w /\ Newest' = w /\ UNCHANGED <<java, js, ready>> /\ pc'.src = "fin"
        /\ cache[w].wr \in Nat /\ cache'[w].wr = cache[w].wr + 1
        /\ \A i \in Slot \ {w} : cache'[i] = cache[i]
    BY <1>12, <2>1, <1>u, WriteStep
  <2>3. pc.src = "write" /\ js.pending = "unknown" /\ java.rest \in Int
    BY <1>12 DEF SrcWrite, Shape, SourcePlace, SourceTypes
  <2>4. cache'[w].wr = SegSize - java.rest
    BY <2>1, <2>2, <2>3, <1>u, Constants DEF Filling, Held
  <2> QED
    BY <2>2, <2>3, <2>4, <1>u, Constants DEF Filling, Held
<1>13. CASE SrcEos
  <2>1. /\ UNCHANGED <<java, js, cache, ready>> /\ pc.src = "eosev" /\ pc'.src = "fin"
        /\ hb'.wi = hb.wi
    BY <1>13, Moves DEF SrcEos, Shape, BufferTypes
  <2> QED
    BY <2>1, <1>u DEF Filling, Newest, Held
<1>14. CASE SrcFin
  BY <1>14, <1>u, Moves DEF SrcFin, Filling, Newest, Held, Shape, SourceTypes,
    SourcePlace, Announcing, buffer
<1>15. CASE BufTop
  BY <1>15, <1>u, Moves DEF BufTop, Filling, Newest, Held, Shape, SourceTypes,
    SourcePlace, Announcing, buffer
<1>16. CASE BufRead
  <2>1. /\ UNCHANGED <<java, js>> /\ Newest' = Newest
        /\ cache'[hb.ri].wr = cache[hb.ri].wr /\ \A i \in Slot \ {hb.ri} : cache'[i] = cache[i]
        /\ ready' = [ready EXCEPT ![hb.ri] = TRUE] \/ ready' = ready
    BY <1>16, <1>u, ReadStep
  <2>2. pc'.src \in {"chain", "write"} <=> pc.src \in {"chain", "write"}
    BY <1>16, Moves DEF BufRead
  <2>3. \A i \in Slot : cache'[i].wr = cache[i].wr /\ (~ready'[i] => ~ready[i])
    BY <2>1 DEF Shape, BufferTypes
  <2> QED
    BY <2>1, <2>2, <2>3, <1>u DEF Filling, Held
<1>17. CASE BufEos
  BY <1>17, <1>u, Moves DEF BufEos, Filling, Newest, Held, Shape, SourceTypes,
    SourcePlace, Announcing, buffer
<1>18. CASE BufWait
  BY <1>18, <1>u, Moves DEF BufWait, Filling, Newest, Held, Shape, SourceTypes,
    SourcePlace, Announcing, buffer
<1>19. CASE BufNotOk
  BY <1>19, <1>u, Moves DEF BufNotOk, Filling, Newest, Held, Shape, SourceTypes,
    SourcePlace, Announcing, buffer
<1>20. CASE BufPush
  BY <1>20, <1>u, Moves DEF BufPush, Filling, Newest, Held, Shape, SourceTypes,
    SourcePlace, Announcing, buffer
<1>21. CASE BufAfter
  BY <1>21, <1>u, Moves DEF BufAfter, Filling, Newest, Held, Shape, SourceTypes,
    SourcePlace, Announcing, buffer
<1>22. CASE BufCheck
  BY <1>22, <1>u, Moves DEF BufCheck, Filling, Newest, Held, Shape, SourceTypes,
    SourcePlace, Announcing, buffer
<1>23. CASE SeekFlag
  BY <1>23, <1>u, Moves DEF SeekFlag, Filling, Newest, Held, Shape, SourceTypes,
    SourcePlace, Announcing, buffer
<1>24. CASE SeekDown
  BY <1>24, <1>u, Moves DEF SeekDown, Filling, Newest, Held, Shape, SourceTypes,
    SourcePlace, Announcing, buffer
<1>25. CASE SeekData
  BY <1>25, <1>u, Moves DEF SeekData, Filling, Newest, Held, Shape, SourceTypes,
    SourcePlace, Announcing, buffer
<1>26. CASE SeekPause
  BY <1>26, <1>u, Moves DEF SeekPause, Filling, Newest, Held, Shape, SourceTypes,
    SourcePlace, Announcing, buffer
<1>27. CASE SeekPaused
  BY <1>27, <1>u, Moves DEF SeekPaused, Filling, Newest, Held, Shape, SourceTypes,
    SourcePlace, Announcing, buffer
<1>28. CASE SeekWrong
  BY <1>28, <1>u, Moves DEF SeekWrong, Filling, Newest, Held, Shape, SourceTypes,
    SourcePlace, Announcing, buffer
<1>29. CASE SeekLocked
  BY <1>29, <1>u, Moves DEF SeekLocked, Filling, Newest, Held, Shape, SourceTypes,
    SourcePlace, Announcing, buffer
<1>30. CASE SeekStop
  BY <1>30, <1>u, Moves DEF SeekStop, Filling, Newest, Held, Shape, SourceTypes,
    SourcePlace, Announcing, buffer
<1>31. CASE StopData
  BY <1>31, <1>u, Moves DEF StopData, Filling, Newest, Held, Shape, SourceTypes,
    SourcePlace, Announcing, buffer
<1>32. CASE StopSrcPad
  BY <1>32, <1>u, Moves DEF StopSrcPad, Filling, Newest, Held, Shape, SourceTypes,
    SourcePlace, Announcing, buffer
<1>33. CASE StopJoin
  BY <1>33, <1>u, Moves DEF StopJoin, Filling, Newest, Held, Shape, SourceTypes,
    SourcePlace, Announcing, buffer
<1>34. CASE StopSinkPad
  BY <1>34, <1>u, Moves DEF StopSinkPad, Filling, Newest, Held, Shape, SourceTypes,
    SourcePlace, Announcing, buffer
<1>35. CASE StopDrained
  BY <1>35, <1>u, Moves DEF StopDrained, Filling, Newest, Held, Shape, SourceTypes,
    SourcePlace, Announcing, buffer
<1>36. CASE StopSource
  BY <1>36, <1>u, Moves DEF StopSource, Filling, Newest, Held, Shape, SourceTypes,
    SourcePlace, Announcing, buffer
<1>37. CASE StopClosed
  BY <1>37, <1>u, Moves DEF StopClosed, Filling, Newest, Held, Shape, SourceTypes,
    SourcePlace, Announcing, buffer
<1>38. CASE (\E t \in Targets : SeekBegin(t)) \/ StopBegin \/ SrcReadError
  <2>1. SrcReadError
    BY <1>38, <1>u DEF SeekBegin, StopBegin
  <2> QED
    BY <2>1, <1>u, Moves DEF SrcReadError, Filling, Newest, Held, buffer
<1>39. CASE UNCHANGED vars
  BY <1>39, <1>u, Moves DEF vars, Filling, Newest, Held, Shape, SourceTypes,
    SourcePlace, Announcing, buffer
<1> QED
  BY <1>1, <1>2, <1>3, <1>4, <1>5, <1>6, <1>7, <1>8, <1>9, <1>10, <1>11, <1>12, <1>13,
    <1>14, <1>15, <1>16, <1>17, <1>18, <1>19, <1>20, <1>21, <1>22, <1>23, <1>24, <1>25,
    <1>26, <1>27, <1>28, <1>29, <1>30, <1>31, <1>32, <1>33, <1>34, <1>35, <1>36, <1>37,
    <1>38, <1>39 DEF Next, SrcStep, BufStep, CtlStep, EnvStep

LEMMA AnnouncedKept ==
    ASSUME Shape, Bounds, SlotsInv, StreamInv, [Next]_vars, ~flushed'
    PROVE  out'.from = 1 /\ Announced'
<1>u. /\ ~flushed /\ pc.ctl = "idle" /\ ~pad.sink /\ ~pad.down /\ ~pad'.down
      /\ Ring /\ InSequence /\ out.from = 1 /\ Filling /\ Announced
      /\ hb.eos => js.pending = "eos"
  BY Undisturbed
<1>1. CASE SrcTop
  BY <1>1, <1>u, Moves DEF SrcTop, Announced, Shape, BufferTypes, OutTypes, ThreadTypes,
    buffer
<1>2. CASE SrcUnpark
  BY <1>2, <1>u, Moves DEF SrcUnpark, Announced, Shape, BufferTypes, OutTypes,
    ThreadTypes, buffer
<1>3. CASE SrcSize
  BY <1>3, <1>u, Moves DEF SrcSize, Announced, Shape, BufferTypes, OutTypes,
    ThreadTypes, buffer
<1>4. CASE SrcNewSegment
  BY <1>4, <1>u, Moves DEF SrcNewSegment, Announced, Shape, BufferTypes, OutTypes,
    ThreadTypes, buffer
<1>5. CASE SrcAccept
  BY <1>5, <1>u, Moves DEF SrcAccept, Announced, Shape, BufferTypes, OutTypes,
    ThreadTypes, buffer
<1>6. CASE SrcRestart
  <2>1. js.pending = "newsegment"
    BY <1>6 DEF SrcRestart, Shape, SourcePlace, Announcing
  <2>2. hb'.result = hb.result /\ pc'.buf = pc.buf /\ out' = out
    BY <1>6, <2>1, <1>u, Moves DEF SrcRestart, Shape, BufferTypes
  <2> QED
    BY <2>2, <1>u DEF Announced
<1>7. CASE SrcTake
  <2>1. hb'.result = hb.result /\ pc'.buf = pc.buf /\ out' = out
    BY <1>7, Moves DEF SrcTake, Prepare, Shape, BufferTypes
  <2> QED
    BY <2>1, <1>u DEF Announced
<1>8. CASE SrcFull
  BY <1>8, <1>u, Moves DEF SrcFull, Announced, Shape, BufferTypes, OutTypes,
    ThreadTypes, buffer
<1>9. CASE SrcWoken
  BY <1>9, <1>u, Moves DEF SrcWoken, Announced, Shape, BufferTypes, OutTypes,
    ThreadTypes, buffer
<1>10. CASE SrcRead
  BY <1>10, <1>u, Moves DEF SrcRead, Announced, Shape, BufferTypes, OutTypes,
    ThreadTypes, buffer
<1>11. CASE SrcChain
  BY <1>11, <1>u, Moves DEF SrcChain, Announced, Shape, BufferTypes, OutTypes,
    ThreadTypes, buffer
<1>12. CASE SrcWrite
  BY <1>12, <1>u, Moves DEF SrcWrite, Announced, Shape, BufferTypes, OutTypes,
    ThreadTypes, buffer
<1>13. CASE SrcEos
  BY <1>13, <1>u, Moves DEF SrcEos, Announced, Shape, BufferTypes, OutTypes,
    ThreadTypes, buffer
<1>14. CASE SrcFin
  BY <1>14, <1>u, Moves DEF SrcFin, Announced, Shape, BufferTypes, OutTypes,
    ThreadTypes, buffer
<1>15. CASE BufTop
  BY <1>15, <1>u, Moves DEF BufTop, Announced, Shape, BufferTypes, OutTypes,
    ThreadTypes, buffer
<1>16. CASE BufRead
  BY <1>16, <1>u, Moves DEF BufRead, Announced, Shape, BufferTypes, OutTypes,
    ThreadTypes, buffer
<1>17. CASE BufEos
  <2>1. /\ hb.result = "ok" /\ hb.eos /\ pc.buf = "loop" /\ ~cache_has_enough_data(cache[hb.ri])
        /\ pc'.buf = "chk" /\ hb'.result # "ok" /\ out'.data = out.data /\ out'.from = out.from
        /\ js.pending = "eos" /\ hb.ri \in Slot
    BY <1>17, <1>u, Moves DEF BufEos, Shape, BufferTypes, OutTypes
  <2>2. ready[hb.ri]
    <3>1. /\ cache[hb.ri].rd \in Nat /\ cache[hb.ri].wr \in Nat
          /\ cache[hb.ri].rd = cache[hb.ri].wr
      BY <2>1 DEF cache_has_enough_data, Shape, BufferTypes, CacheOK, Cache
    <3>2. ~ready[hb.ri] => cache[hb.ri].wr = SegSize /\ cache[hb.ri].rd < SegSize
      BY <2>1, <1>u DEF Filling, Ring
    <3> QED
      BY <3>1, <3>2
  <2>3. PICK base \in [Slot -> Int], p \in Int : GoesOn(base, p) /\ EndsAt(Upcoming(base, p))
    BY <1>u DEF InSequence
  <2>4. p = Total + 1
    <3>1. pc.src \notin Announcing
      BY <2>1 DEF Shape, SourcePlace
    <3> QED
      BY <2>1, <2>3, <3>1, <1>u DEF GoesOn, Linked, Position
  <2>5. Pushed = out.data
    <3>1. loc.buffer = <<>>
      BY <2>1 DEF StreamInv, Flushing
    <3>2. out.data \o <<>> = out.data
      BY DEF Shape, OutTypes
    <3> QED
      BY <3>1, <3>2 DEF Pushed
  <2>6. Total + 1 = 1 + Len(out.data)
    BY <2>2, <2>3, <2>4, <2>5, <1>u DEF EndsAt, Upcoming
  <2>7. Len(out.data) = Total
    BY <2>6, Constants DEF Shape, OutTypes
  <2> QED
    BY <2>1, <2>7, <1>u DEF Announced
<1>18. CASE BufWait
  BY <1>18, <1>u, Moves DEF BufWait, Announced, Shape, BufferTypes, OutTypes,
    ThreadTypes, buffer
<1>19. CASE BufNotOk
  BY <1>19, <1>u, Moves DEF BufNotOk, Announced, Shape, BufferTypes, OutTypes,
    ThreadTypes, buffer
<1>20. CASE BufPush
  <2>1. pc.buf = "push" /\ out'.eos = out.eos /\ out'.from = out.from
    BY <1>20, <1>u DEF BufPush, Shape, OutTypes
  <2> QED
    BY <2>1, <1>u DEF Announced
<1>21. CASE BufAfter
  BY <1>21, <1>u, Moves DEF BufAfter, Announced, Shape, BufferTypes, OutTypes,
    ThreadTypes, buffer
<1>22. CASE BufCheck
  BY <1>22, <1>u, Moves DEF BufCheck, Announced, Shape, BufferTypes, OutTypes,
    ThreadTypes, buffer
<1>23. CASE SeekFlag
  BY <1>23, <1>u, Moves DEF SeekFlag, Announced, Shape, BufferTypes, OutTypes,
    ThreadTypes, buffer
<1>24. CASE SeekDown
  BY <1>24, <1>u, Moves DEF SeekDown, Announced, Shape, BufferTypes, OutTypes,
    ThreadTypes, buffer
<1>25. CASE SeekData
  BY <1>25, <1>u, Moves DEF SeekData, Announced, Shape, BufferTypes, OutTypes,
    ThreadTypes, buffer
<1>26. CASE SeekPause
  BY <1>26, <1>u, Moves DEF SeekPause, Announced, Shape, BufferTypes, OutTypes,
    ThreadTypes, buffer
<1>27. CASE SeekPaused
  BY <1>27, <1>u, Moves DEF SeekPaused, Announced, Shape, BufferTypes, OutTypes,
    ThreadTypes, buffer
<1>28. CASE SeekWrong
  BY <1>28, <1>u, Moves DEF SeekWrong, Announced, Shape, BufferTypes, OutTypes,
    ThreadTypes, buffer
<1>29. CASE SeekLocked
  BY <1>29, <1>u, Moves DEF SeekLocked, Announced, Shape, BufferTypes, OutTypes,
    ThreadTypes, buffer
<1>30. CASE SeekStop
  BY <1>30, <1>u, Moves DEF SeekStop, Announced, Shape, BufferTypes, OutTypes,
    ThreadTypes, buffer
<1>31. CASE StopData
  BY <1>31, <1>u, Moves DEF StopData, Announced, Shape, BufferTypes, OutTypes,
    ThreadTypes, buffer
<1>32. CASE StopSrcPad
  BY <1>32, <1>u, Moves DEF StopSrcPad, Announced, Shape, BufferTypes, OutTypes,
    ThreadTypes, buffer
<1>33. CASE StopJoin
  BY <1>33, <1>u, Moves DEF StopJoin, Announced, Shape, BufferTypes, OutTypes,
    ThreadTypes, buffer
<1>34. CASE StopSinkPad
  BY <1>34, <1>u, Moves DEF StopSinkPad, Announced, Shape, BufferTypes, OutTypes,
    ThreadTypes, buffer
<1>35. CASE StopDrained
  BY <1>35, <1>u, Moves DEF StopDrained, Announced, Shape, BufferTypes, OutTypes,
    ThreadTypes, buffer
<1>36. CASE StopSource
  BY <1>36, <1>u, Moves DEF StopSource, Announced, Shape, BufferTypes, OutTypes,
    ThreadTypes, buffer
<1>37. CASE StopClosed
  BY <1>37, <1>u, Moves DEF StopClosed, Announced, Shape, BufferTypes, OutTypes,
    ThreadTypes, buffer
<1>38. CASE (\E t \in Targets : SeekBegin(t)) \/ StopBegin \/ SrcReadError
  <2>1. UNCHANGED <<hb, out>> /\ pc'.buf = pc.buf
    BY <1>38, Moves DEF SeekBegin, StopBegin, SrcReadError, buffer
  <2> QED
    BY <2>1, <1>u DEF Announced
<1>39. CASE UNCHANGED vars
  BY <1>39, <1>u, Moves DEF vars, Announced, Shape, BufferTypes, OutTypes, ThreadTypes,
    buffer
<1> QED
  BY <1>1, <1>2, <1>3, <1>4, <1>5, <1>6, <1>7, <1>8, <1>9, <1>10, <1>11, <1>12, <1>13,
    <1>14, <1>15, <1>16, <1>17, <1>18, <1>19, <1>20, <1>21, <1>22, <1>23, <1>24, <1>25,
    <1>26, <1>27, <1>28, <1>29, <1>30, <1>31, <1>32, <1>33, <1>34, <1>35, <1>36, <1>37,
    <1>38, <1>39 DEF Next, SrcStep, BufStep, CtlStep, EnvStep

LEMMA StreamInit == Init => StreamInv
<1> SUFFICES ASSUME Init PROVE StreamInv
  OBVIOUS
<1>1. /\ hb.wi = -1 /\ hb.ri = 0 /\ hb.result = "ok" /\ ~hb.eos /\ ~hb.flushing
      /\ \A i \in Slot : ready[i] /\ cache[i].wr = 0
      /\ js.pending = "newsegment" /\ js.result = "ok" /\ java.file = 0
      /\ ~pad.sink /\ ~pad.down /\ pc.src = "top" /\ pc.buf = "top" /\ pc.ctl = "idle"
      /\ task["buf"] = "started" /\ loc.buffer = <<>> /\ out.data = <<>> /\ ~out.eos /\ out.from = 1
  BY DEF Init, create_cache
<1>2. -1 \notin Slot /\ 0 \in Slot /\ 0 * SegSize + 1 = 1 /\ NumSegments >= 0
  BY Constants DEF Slot
<1>3. Newest = -1 /\ After(-1) = 0
  BY <1>1, AfterFacts DEF Newest
<1>4. Flushing
  BY <1>1 DEF Flushing, Seeking
<1>5. Whole
  BY <1>1, <1>2, <1>3 DEF Whole, Filling, Announced
<1>6. Ended
  BY <1>1 DEF Ended
<1>7. Ring
  BY <1>1, <1>2, <1>3 DEF Ring
<1>8. Position = 1
  BY <1>1, <1>2 DEF Position, Announcing
<1>9. PICK base \in [Slot -> Int] : \A i \in Slot : base[i] = 1
  <2>1. [i \in Slot |-> 1] \in [Slot -> Int]
    OBVIOUS
  <2> QED
    BY <2>1
<1>10. Runs(base) /\ GoesOn(base, 1)
  BY <1>1, <1>2, <1>3, <1>8 DEF Runs, GoesOn
<1>11. EndsAt(1)
  <2>1. <<>> \o <<>> = <<>> /\ Len(<<>>) = 0 /\ 1 .. 0 = {}
    OBVIOUS
  <2>2. Pushed = <<>>
    BY <1>1, <2>1 DEF Pushed
  <2> QED
    BY <1>1, <2>1, <2>2 DEF EndsAt
<1>12. Upcoming(base, 1) = 1
  BY <1>1, <1>2 DEF Upcoming
<1>13. InSequence
  BY <1>10, <1>11, <1>12 DEF InSequence
<1> QED
  BY <1>4, <1>5, <1>6, <1>7, <1>13 DEF StreamInv

LEMMA StreamKept ==
    ASSUME Shape, Shape', Bounds, SlotsInv, StreamInv, [Next]_vars
    PROVE  StreamInv'
<1>1. Flushing'
  BY FlushingKept
<1>2. Whole'
  BY FillingKept, AnnouncedKept DEF Whole
<1>3. ASSUME ~pad'.down PROVE Ended' /\ Ring' /\ InSequence'
  BY <1>3, EndedKept, RingKept, InSequenceKept
<1> QED
  BY <1>1, <1>2, <1>3 DEF StreamInv

(* What was pushed since the last flush. *)
Listed ==
    \A i \in 1 .. Len(out.data) :
        out.data[i] = (IF out.from = 0 THEN out.data[1] ELSE out.from) + i - 1

LEMMA ListedKept ==
    ASSUME Shape, Shape', StreamInv', Listed, [Next]_vars
    PROVE  Listed'
<1>1. CASE pad'.down
  <2>1. out'.data = <<>> \/ (out'.data = out.data /\ out'.from = out.from)
    <3>1. CASE SrcStep \/ CtlStep
      BY <1>1, <3>1 DEF SrcStep, CtlStep, SrcTop, SrcUnpark, SrcSize, SrcNewSegment, SrcAccept,
        SrcRestart, SrcTake, SrcFull, SrcWoken, SrcRead, SrcChain, SrcWrite, SrcEos, SrcFin,
        SeekFlag, SeekDown, SeekData, SeekPause, SeekPaused, SeekWrong, SeekLocked, SeekStop,
        StopData, StopSrcPad, StopJoin, StopSinkPad, StopDrained, StopSource, StopClosed
    <3>2. CASE BufStep
      BY <1>1, <3>2 DEF BufStep, BufTop, BufRead, BufEos, BufWait, BufNotOk, BufPush, BufAfter,
        BufCheck, Shape, OutTypes
    <3>3. CASE EnvStep \/ UNCHANGED vars
      BY <3>3 DEF EnvStep, SeekBegin, StopBegin, SrcReadError, vars
    <3> QED
      BY <3>1, <3>2, <3>3 DEF Next
  <2>2. CASE out'.data = <<>>
    <3>1. Len(<<>>) = 0 /\ 1 .. 0 = {}
      OBVIOUS
    <3> QED
      BY <2>2, <3>1 DEF Listed
  <2> QED
    BY <2>1, <2>2 DEF Listed
<1>2. CASE ~pad'.down
  <2>1. PICK n \in Int : EndsAt(n)'
    <3>1. PICK base \in [Slot -> Int], p \in Int : EndsAt(Upcoming(base, p))'
      BY <1>2 DEF StreamInv, InSequence
    <3>2. Upcoming(base, p)' \in Int
      BY <3>1 DEF Upcoming, Shape, BufferTypes, Cache
    <3> QED
      BY <3>1, <3>2
  <2> DEFINE d == out'.data
             b == loc'.buffer
  <2>2. d \in Seq(Units) /\ b \in Seq(Units) /\ out'.from \in Int
    BY Constants DEF Shape, OutTypes, ThreadTypes
  <2>3. /\ Len(d \o b) = Len(d) + Len(b)
        /\ \A i \in 1 .. Len(d) + Len(b) : (d \o b)[i] = IF i <= Len(d) THEN d[i] ELSE b[i - Len(d)]
    BY <2>2, ConcatProperties, Zenon
  <2>4. Pushed' = d \o b
    BY DEF Pushed
  <2>5. /\ \A i \in 1 .. Len(d \o b) : (d \o b)[i] = n - Len(d \o b) + i - 1
        /\ out'.from # 0 => n = out'.from + Len(d \o b)
    BY <2>1, <2>4 DEF EndsAt
  <2>6. Len(d) \in Nat /\ Len(b) \in Nat
    BY <2>2
  <2> HIDE DEF d, b
  <2>7. PICK m \in Int : m = n - (Len(d) + Len(b))
    <3>1. \A k, l \in Nat : n - (k + l) \in Int
      OBVIOUS
    <3>2. n - (Len(d) + Len(b)) \in Int
      BY <2>6, <3>1
    <3> QED
      BY <3>2
  <2>8. ASSUME NEW i \in 1 .. Len(d) PROVE d[i] = m + i - 1
    <3>1. i \in 1 .. Len(d) + Len(b) /\ i <= Len(d)
      BY <2>6
    <3> QED
      BY <2>3, <2>5, <2>7, <3>1
  <2>9. out'.from # 0 => m = out'.from
    <3>1. out'.from # 0 => n = out'.from + (Len(d) + Len(b))
      BY <2>3, <2>5
    <3> QED
      BY <2>2, <2>6, <2>7, <3>1
  <2>10. ASSUME NEW i \in 1 .. Len(d) PROVE d[i] = (IF out'.from = 0 THEN d[1] ELSE out'.from) + i - 1
    <3>1. 1 \in 1 .. Len(d)
      BY <2>6
    <3>2. d[1] = m
      BY <2>8, <3>1
    <3> QED
      BY <2>8, <2>9, <3>2
  <2> QED
    BY <2>10 DEF Listed, d
<1> QED
  BY <1>1, <1>2

(* What is pushed downstream between two flushes is the stream, from the   *)
(* segment sought, with nothing lost, repeated or out of order, however    *)
(* the three threads interleave and whatever a seek or a stop finds in the *)
(* slots; and an undisturbed stream is announced to have ended only when   *)
(* all of it has been pushed.                                              *)
THEOREM StreamInOrder == Spec => []InOrder
<1>1. Init => StreamInv
  BY StreamInit
<1>2. Init => Listed
  <2> SUFFICES ASSUME Init PROVE Listed
    OBVIOUS
  <2>1. out.data = <<>> /\ Len(<<>>) = 0 /\ 1 .. 0 = {}
    BY DEF Init
  <2> QED
    BY <2>1 DEF Listed
<1>3. Shape /\ Shape' /\ Bounds /\ SlotsInv /\ StreamInv /\ [Next]_vars => StreamInv'
  BY StreamKept
<1>4. Shape /\ Shape' /\ StreamInv' /\ Listed /\ [Next]_vars => Listed'
  BY ListedKept
<1>5. StreamInv /\ Listed => InOrder
  BY DEF StreamInv, Whole, Announced, Listed, InOrder
<1> QED
  BY <1>1, <1>2, <1>3, <1>4, <1>5, SlotsHold, PTL DEF Spec
=============================================================================
