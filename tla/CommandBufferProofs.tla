-------------------------- MODULE CommandBufferProofs --------------------------
(***************************************************************************)
(* The commands of CommandBuffer for rings of every size, every set of     *)
(* sizes and every interleaving: the invariant IInv holds of every step,   *)
(* the service never meets what it cannot parse, and what it executes is   *)
(* the stream of commands that were issued (CommandStream).                *)
(*                                                                         *)
(* The ring is a circle of offsets: the commands that wait tile it from    *)
(* the service's get to put, every flush ends at an edge between two of    *)
(* them, and what the client writes without a wait is free.  The client's  *)
(* functions change a record s of the helper, the ring and the queue; they *)
(* start from one that is held (Held, or Bare without a ring) and leave    *)
(* one that is, so that one lemma (LeavesKeeps) covers their steps.        *)
(*                                                                         *)
(* What waits in the ring is read recursively, over lengths: Unread exists *)
(* and keeps its values by least counterexamples along the tiles.  Writing *)
(* appends to it, executing takes its first command away, and everything   *)
(* else leaves it alone: every step is a step of the stream or a stutter.  *)
(***************************************************************************)
EXTENDS CommandBuffer, TransferRingProofs, TLAPS

\* The records s of the helper's functions.
Buffers ==
  [h : Helpers, entries : [Offsets -> Entries], tasks : Seq(Tasks), last_put : Offsets]

\* The GPU thread runs the first task; with a ring all are flushes.
FirstIsRun(s) ==
  gpu_pc # "idle" =>
    s.tasks # <<>> /\ s.tasks[1].kind = "flush" /\ s.tasks[1].put = put_offset
FlushesWait(s) ==
  /\ \A i \in DOMAIN s.tasks : s.tasks[i].kind = "flush"
  /\ FirstIsRun(s)

\* What the client's functions start from and keep, with a ring and without.
Held(s) ==
  /\ s \in Buffers
  /\ s.h.have_ring_buffer
  /\ FlushesWait(s)
  /\ ~IsError(service) => OffsetsInOrder(s) /\ RingIsTiled(s)

Room(h) ==
  /\ h.put + h.immediate =< total_entry_count
  /\ ~IsError(service) => RoomIsFree(h)

Bare(s) ==
  /\ s \in Buffers
  /\ ~s.h.have_ring_buffer
  /\ s.h.immediate = 0
  /\ \A i \in DOMAIN s.tasks : s.tasks[i].kind # "set_get_buffer"
  /\ FirstIsRun(s)
  /\ ~IsError(service) => NothingLeft(s)

\* What they know of the service.
Known ==
  /\ last_state \in States
  /\ state_after_last_flush \in States
  /\ service \in States
  /\ put_offset \in Offsets
  /\ IsError(last_state) => IsError(service)

\* How a step of the client's thread leaves the client, and the buffer t.
ClientGoes(t) ==
  /\ ClientOK'
  /\ client.pc' \notin {"set_get_buffer", "get_buffer_set"}
  /\ client.then' \in {"wrap", "room", "finish"} => t.h.put < total_entry_count
  /\ client.then' \in {"wrap", "room"} => t.h.have_ring_buffer
  /\ client.then' = "wrap" /\ ~IsError(service) =>
       /\ client.pc' # "return"
       /\ t.h.put > 0 /\ client.start' = 1 /\ client.end' = t.h.put

Leaves ==
  /\ \E t : Put(t) /\ ClientGoes(t) /\ ((Held(t) /\ Room(t.h)) \/ Bare(t))
  /\ BlocksTile(transfer)'
  /\ dropped' \in BOOLEAN
LeavesHeld ==
  /\ \E t : Put(t) /\ ClientGoes(t) /\ Held(t) /\ Room(t.h)
  /\ BlocksTile(transfer)'
  /\ dropped' \in BOOLEAN

-----------------------------------------------------------------------------
(* Arithmetic.                                                             *)

LEMMA ModRange == \A x \in Int, n \in Nat \ {0} : x % n \in 0 .. n - 1
  OBVIOUS

LEMMA ModWrap ==
  ASSUME NEW n \in Nat \ {0}, NEW x \in 0 .. n
  PROVE  x % n = IF x = n THEN 0 ELSE x
  OBVIOUS

LEMMA DivType == \A x \in Int, n \in Nat \ {0} : x \div n \in Int
  OBVIOUS

LEMMA AheadType ==
  \A x, y \in Offsets : Ahead(x, y) \in Offsets /\ (Ahead(x, y) = 0 <=> x = y)
  BY CommandBufferAssumption DEF Ahead, Offsets

LEMMA AppendIs ==
  ASSUME NEW T, NEW q \in Seq(T), NEW e \in T
  PROVE  LET n == Len(q)
         IN /\ Append(q, e) \in Seq(T) /\ n \in Nat /\ DOMAIN q = 1 .. n
            /\ DOMAIN Append(q, e) = 1 .. n + 1 /\ Len(Append(q, e)) = n + 1
            /\ \A i \in 1 .. n : Append(q, e)[i] = q[i]
            /\ Append(q, e)[n + 1] = e
            /\ Append(q, e) # <<>>
            /\ q # <<>> => 1 \in 1 .. n
  <1>1. Append(q, e) \in Seq(T)
    OBVIOUS
  <1>2. Len(q) \in Nat /\ DOMAIN q = 1 .. Len(q) /\ (q # <<>> => Len(q) # 0)
    OBVIOUS
  <1>3. /\ Len(Append(q, e)) = Len(q) + 1
        /\ \A i \in 1 .. Len(q) : Append(q, e)[i] = q[i]
        /\ Append(q, e)[Len(q) + 1] = e
    OBVIOUS
  <1>4. DOMAIN Append(q, e) = 1 .. Len(q) + 1 /\ Append(q, e) # <<>>
    BY <1>1, <1>2, <1>3
  <1> QED BY <1>1, <1>2, <1>3, <1>4

LEMMA OffsetsAreNat == \A x \in Offsets : x \in Nat /\ x < total_entry_count
  BY CommandBufferAssumption DEF Offsets

LEMMA AheadFrom ==
  \A l, x, y \in Offsets :
    Ahead(l, x) =< Ahead(l, y) => Ahead(x, y) = Ahead(l, y) - Ahead(l, x)
  BY CommandBufferAssumption DEF Ahead, Offsets

LEMMA AheadInjective ==
  \A l, x, y \in Offsets : Ahead(l, x) = Ahead(l, y) => x = y
  BY CommandBufferAssumption DEF Ahead, Offsets

LEMMA AheadAfter ==
  ASSUME NEW l \in Offsets, NEW x \in Offsets, NEW size \in Nat,
         x + size =< total_entry_count, Ahead(l, x) + size < total_entry_count
  PROVE  /\ OffsetAfter(x, size) \in Offsets
         /\ Ahead(l, OffsetAfter(x, size)) = Ahead(l, x) + size
  BY CommandBufferAssumption DEF Ahead, Offsets, OffsetAfter

LEMMA SizesAreNat ==
  /\ \A cmd \in Entries : cmd.size \in Nat
  /\ \A cmd \in Commands \cup Noops : cmd.size \in Nat \ {0}
  /\ \A cmd \in Commands : cmd.size < total_entry_count
  <1>1. /\ WorkSizes \subseteq Nat \ {0} /\ {ReadSize, TokenSize} \subseteq Nat \ {0}
        /\ \A n \in WorkSizes \cup {ReadSize, TokenSize} : n < total_entry_count
        /\ total_entry_count \in Nat
    BY CommandBufferAssumption
  <1>2. ASSUME NEW cmd \in Commands
        PROVE  cmd.size \in WorkSizes \cup {ReadSize, TokenSize}
    BY DEF Commands
  <1>3. ASSUME NEW cmd \in Noops
        PROVE  cmd.size \in Nat \ {0}
    BY <1>1 DEF Noops
  <1>4. Argument.size = 0 /\ Stale.size = 0
    BY DEF Argument, Stale, Cmd
  <1>5. \A cmd \in Commands : cmd.size \in Nat \ {0} /\ cmd.size < total_entry_count
    BY <1>1, <1>2
  <1> QED BY <1>3, <1>4, <1>5 DEF Entries

\* The offsets between put and the service's get are free: a command written
\* there is one more tile.
LEMMA TilesWrite ==
  ASSUME NEW ring \in [Offsets -> Entries], NEW starts \in SUBSET Offsets,
         NEW get \in Offsets, NEW put \in Offsets, NEW cmd \in Commands \cup Noops,
         put + cmd.size =< total_entry_count,
         Ahead(get, put) + cmd.size < total_entry_count,
         Tiles(starts, ring, get, put)
  PROVE  LET after == OffsetAfter(put, cmd.size)
         IN /\ Tiles(starts \cup {put}, WriteAt(ring, put, cmd), get, after)
            /\ \A x : Edge(starts, put, x) => Edge(starts \cup {put}, after, x)
  <1> DEFINE size == cmd.size
  <1> DEFINE after == OffsetAfter(put, size)
  <1> DEFINE written == WriteAt(ring, put, cmd)
  <1>1. size \in Nat \ {0}
    BY SizesAreNat
  <1>2. /\ after \in Offsets
        /\ Ahead(get, after) = Ahead(get, put) + size
    BY <1>1, AheadAfter
  <1>3. \A i \in Offsets : written[i] = IF i = put THEN cmd
                         ELSE IF i > put /\ i < put + size THEN Argument ELSE ring[i]
    BY DEF WriteAt
  <1>4. \A x : Edge(starts, put, x) => Edge(starts \cup {put}, after, x)
    BY DEF Edge
  <1>5. ASSUME NEW i \in starts
        PROVE  /\ ring[i].size \in Nat
               /\ written[i] = ring[i]
               /\ i < put => i + ring[i].size =< put
               /\ put < i => put + size =< i
    <2>1. i \in Offsets /\ ring[i] \in Entries
      OBVIOUS
    <2>2. ring[i].size \in Nat
      BY <2>1, SizesAreNat
    <2>3. Ahead(get, i) < Ahead(get, put) /\ Ahead(get, i) + ring[i].size =< Ahead(get, put)
      BY DEF Tiles
    <2>4. i < put => i + ring[i].size =< put
      BY <2>1, <2>2, <2>3, CommandBufferAssumption DEF Ahead, Offsets
    <2>5. put < i => put + size =< i
      BY <2>1, <2>3, <1>1, CommandBufferAssumption DEF Ahead, Offsets
    <2>6. i # put
      BY <2>1, <2>3, AheadType DEF Offsets
    <2> HIDE DEF size, written
    <2>7. written[i] = ring[i]
      BY <1>1, <1>3, <2>1, <2>5, <2>6, CommandBufferAssumption DEF Offsets
    <2> QED BY <2>2, <2>4, <2>5, <2>7
  <1>6. written[put] = cmd
    BY <1>3
  <1> HIDE DEF size, after, written
  <1>7. Tiles(starts \cup {put}, written, get, after)
    <2> SUFFICES ASSUME NEW i \in starts \cup {put}
                 PROVE  LET n == written[i].size
                        IN /\ Ahead(get, i) < Ahead(get, after)
                           /\ n > 0
                           /\ i + n =< total_entry_count
                           /\ Ahead(get, i) + n =< Ahead(get, after)
                           /\ Edge(starts \cup {put}, after, OffsetAfter(i, n))
                           /\ \A j \in starts \cup {put} : i < j => i + n =< j
      BY DEF Tiles
    <2>1. CASE i = put
      <3>1. Ahead(get, put) \in Nat
        BY AheadType DEF Offsets
      <3>2. written[i].size = size
        BY <1>6, <2>1 DEF size
      <3>3. Edge(starts \cup {put}, after, OffsetAfter(i, size))
        BY <2>1 DEF Edge, after
      <3>4. \A j \in starts \cup {put} : i < j => i + size =< j
        BY <1>5, <2>1, CommandBufferAssumption DEF Offsets
      <3>5. i + size =< total_entry_count
        BY <2>1 DEF size
      <3>6. Ahead(get, i) < Ahead(get, after) /\ Ahead(get, i) + size =< Ahead(get, after)
        BY <1>1, <1>2, <2>1, <3>1
      <3> QED BY <3>6, <1>1, <1>2, <2>1, <3>1, <3>2, <3>3, <3>4, <3>5
    <2>2. CASE i # put
      <3>1. i \in starts /\ i \in Offsets
        BY <2>2
      <3>2. /\ Ahead(get, i) < Ahead(get, put)
            /\ ring[i].size > 0
            /\ i + ring[i].size =< total_entry_count
            /\ Ahead(get, i) + ring[i].size =< Ahead(get, put)
            /\ Edge(starts, put, OffsetAfter(i, ring[i].size))
            /\ \A j \in starts : i < j => i + ring[i].size =< j
        BY <3>1 DEF Tiles
      <3>3. /\ Ahead(get, i) \in Nat /\ Ahead(get, put) \in Nat
            /\ Ahead(get, after) \in Nat
        BY <3>1, <1>2, AheadType DEF Offsets
      <3>4. ring[i].size \in Nat /\ written[i].size = ring[i].size
        BY <3>1, <1>5
      <3>5. /\ Ahead(get, i) < Ahead(get, after)
            /\ Ahead(get, i) + ring[i].size =< Ahead(get, after)
        BY <1>1, <1>2, <3>2, <3>3, <3>4
      <3>6. \A j \in starts \cup {put} : i < j => i + ring[i].size =< j
        BY <1>5, <3>1, <3>2
      <3>7. Edge(starts \cup {put}, after, OffsetAfter(i, ring[i].size))
        BY <1>4, <3>2
      <3> QED BY <3>2, <3>4, <3>5, <3>6, <3>7
    <2> QED BY <2>1, <2>2
  <1> QED BY <1>4, <1>7 DEF after, written, size

\* The command at get is a tile unless the ring is empty; without it the rest is
\* tiled from its end.
LEMMA TilesExecute ==
  ASSUME NEW ring \in [Offsets -> Entries], NEW starts \in SUBSET Offsets,
         NEW get \in Offsets, NEW put \in Offsets, get # put,
         Tiles(starts, ring, get, put), Edge(starts, put, get),
         NEW rest \in [Offsets -> Entries],
         \A i \in Offsets : i \notin get .. get + ring[get].size - 1 => rest[i] = ring[i]
  PROVE  LET size == ring[get].size
             next == OffsetAfter(get, size)
         IN /\ size \in Nat \ {0}
            /\ get + size =< total_entry_count
            /\ size =< Ahead(get, put)
            /\ next \in Offsets
            /\ Tiles(starts \ {get}, rest, next, put)
            /\ Edge(starts \ {get}, put, next)
            /\ \A x \in Offsets : Edge(starts, put, x) /\ x # get =>
                 /\ Edge(starts \ {get}, put, x)
                 /\ size =< Ahead(get, x)
                 /\ get < x => get + size =< x
  <1> DEFINE size == ring[get].size
  <1> DEFINE next == OffsetAfter(get, size)
  <1>1. get \in starts
    BY DEF Edge
  <1>2. size \in Nat
    BY SizesAreNat
  <1>3. /\ size > 0
        /\ get + size =< total_entry_count
        /\ Ahead(get, get) + size =< Ahead(get, put)
        /\ Edge(starts, put, next)
        /\ \A j \in starts : get < j => get + size =< j
    BY <1>1 DEF Tiles
  <1>4. Ahead(get, get) = 0 /\ Ahead(get, put) \in Offsets
    BY AheadType
  <1>5. size =< Ahead(get, put) /\ size < total_entry_count
    BY <1>2, <1>3, <1>4, CommandBufferAssumption DEF Offsets
  <1>6. /\ next \in Offsets
        /\ Ahead(get, next) = size
        /\ next # get
    <2> HIDE DEF size
    <2>1. next \in Offsets /\ Ahead(get, next) = size
      BY <1>2, <1>3, <1>4, <1>5, AheadAfter, CommandBufferAssumption DEF Offsets
    <2> QED BY <2>1, <1>2, <1>3, <1>4
  <1>7. \A x \in Offsets : Ahead(get, x) >= size => Ahead(next, x) = Ahead(get, x) - size
    BY <1>6, AheadFrom
  <1>8. ASSUME NEW x \in Offsets, x # get, Edge(starts, put, x)
        PROVE  /\ Edge(starts \ {get}, put, x)
               /\ size =< Ahead(get, x)
               /\ get < x => get + size =< x
    <2>1. Edge(starts \ {get}, put, x)
      BY <1>8 DEF Edge
    <2> HIDE DEF size
    <2>2. CASE x \in starts
      BY <2>1, <2>2, <1>2, <1>3, <1>8, CommandBufferAssumption DEF Ahead, Offsets
    <2>3. CASE x = put
      BY <2>1, <2>3, <1>2, <1>3, <1>5, <1>8, CommandBufferAssumption DEF Ahead, Offsets
    <2> QED BY <2>2, <2>3, <1>8 DEF Edge
  <1>9. Edge(starts \ {get}, put, next)
    BY <1>3, <1>6, <1>8
  <1>10. Tiles(starts \ {get}, rest, next, put)
    <2> SUFFICES ASSUME NEW i \in starts \ {get}
                 PROVE  LET n == rest[i].size
                        IN /\ Ahead(next, i) < Ahead(next, put)
                           /\ n > 0
                           /\ i + n =< total_entry_count
                           /\ Ahead(next, i) + n =< Ahead(next, put)
                           /\ Edge(starts \ {get}, put, OffsetAfter(i, n))
                           /\ \A j \in starts \ {get} : i < j => i + n =< j
      BY DEF Tiles
    <2> DEFINE n == ring[i].size
    <2>1. i \in Offsets /\ i # get /\ n \in Nat
      BY SizesAreNat
    <2>2. /\ Ahead(get, i) < Ahead(get, put)
          /\ n > 0
          /\ i + n =< total_entry_count
          /\ Ahead(get, i) + n =< Ahead(get, put)
          /\ Edge(starts, put, OffsetAfter(i, n))
          /\ \A j \in starts : i < j => i + n =< j
      BY DEF Tiles
    <2>3. size =< Ahead(get, i) /\ (get < i => get + size =< i)
      BY <2>1, <1>8 DEF Edge
    <2>4. rest[i] = ring[i]
      <3> HIDE DEF size
      <3>1. i \notin get .. get + size - 1
        BY <2>1, <2>3, <1>2 DEF Offsets
      <3> QED BY <2>1, <3>1 DEF size
    <2>5. Ahead(next, i) = Ahead(get, i) - size /\ Ahead(next, put) = Ahead(get, put) - size
      BY <2>1, <2>3, <1>5, <1>7
    <2>6. Ahead(get, i) \in Nat /\ Ahead(get, put) \in Nat
      BY <2>1, AheadType DEF Offsets
    <2>7. OffsetAfter(i, n) \in Offsets /\ OffsetAfter(i, n) # get
      <3> HIDE DEF n
      <3> QED BY <2>1, <2>2, <1>4, <1>6, CommandBufferAssumption
            DEF Offsets, OffsetAfter, Ahead
    <2>8. Edge(starts \ {get}, put, OffsetAfter(i, n))
      BY <2>2, <2>7, <1>8
    <2> HIDE DEF n, size, next
    <2>9. /\ Ahead(next, i) < Ahead(next, put)
          /\ Ahead(next, i) + n =< Ahead(next, put)
      BY <2>1, <2>2, <2>5, <2>6, <1>2
    <2> QED BY <2>2, <2>4, <2>8, <2>9 DEF n
  <1>11. size \in Nat \ {0}
    <2> HIDE DEF size
    <2> QED BY <1>2, <1>3
  <1>12. \A x \in Offsets : Edge(starts, put, x) /\ x # get =>
           /\ Edge(starts \ {get}, put, x)
           /\ size =< Ahead(get, x)
           /\ get < x => get + size =< x
    BY <1>8
  <1> HIDE DEF size, next
  <1> QED BY <1>3, <1>5, <1>6, <1>9, <1>10, <1>11, <1>12 DEF size, next

-----------------------------------------------------------------------------
(* The helper's functions.                                                 *)

\* The immediate entries never reach the service's get, as the client knows it.
LEMMA CalcImmediateEntriesIs ==
  ASSUME NEW h \in Helpers, NEW get \in Offsets, NEW w \in Nat, h.put < total_entry_count
  PROVE  \E n \in 0 .. total_entry_count :
           /\ CalcImmediateEntries(h, get, w) = [h EXCEPT !.immediate = n]
           /\ h.put + n =< total_entry_count
           /\ Ahead(get, h.put) + n < total_entry_count
           /\ ~h.have_ring_buffer => n = 0
  <1> DEFINE contiguous == IF get > h.put THEN get - h.put - 1
                           ELSE total_entry_count - h.put - (IF get = 0 THEN 1 ELSE 0)
             limit == total_entry_count \div
                        (IF get = h.last_put_sent THEN kAutoFlushSmall ELSE kAutoFlushBig)
             pending == (h.put + total_entry_count - h.last_put_sent) % total_entry_count
             left == IF limit - pending < w THEN w ELSE limit - pending
             immediate == IF ~h.have_ring_buffer THEN 0
                          ELSE IF ~flush_automatically THEN contiguous
                          ELSE IF pending > 0 /\ pending >= limit THEN 0
                          ELSE IF contiguous > left THEN left ELSE contiguous
  <1>1. CalcImmediateEntries(h, get, w) = [h EXCEPT !.immediate = immediate]
    BY DEF CalcImmediateEntries
  <1>2. h.put \in Offsets /\ h.last_put_sent \in Offsets
    BY CommandBufferAssumption DEF Helpers, Offsets
  <1>3. /\ contiguous \in Nat
        /\ h.put + contiguous =< total_entry_count
        /\ Ahead(get, h.put) + contiguous < total_entry_count
        /\ Ahead(get, h.put) < total_entry_count
    BY <1>2, CommandBufferAssumption DEF Offsets, Ahead
  <1>4. limit \in Int
    BY CommandBufferAssumption, DivType
  <1>5. pending \in Int
    <2>1. h.put + total_entry_count - h.last_put_sent \in Int
      BY <1>2, CommandBufferAssumption DEF Offsets
    <2>2. total_entry_count \in Nat \ {0}
      BY CommandBufferAssumption
    <2>3. pending \in 0 .. total_entry_count - 1
      BY <2>1, <2>2, ModRange
    <2> QED BY <2>2, <2>3
  <1> HIDE DEF contiguous, limit, pending
  <1>6. left \in Int /\ left >= 0
    BY <1>4, <1>5
  <1> HIDE DEF left
  <1>7. immediate \in Nat /\ immediate =< contiguous /\ (~h.have_ring_buffer => immediate = 0)
    BY <1>3, <1>6
  <1> HIDE DEF immediate
  <1>8. Ahead(get, h.put) \in Int
    <2>1. Ahead(get, h.put) \in Offsets
      BY <1>2, AheadType
    <2> QED BY <2>1 DEF Offsets
  <1>9. /\ immediate \in 0 .. total_entry_count
        /\ h.put + immediate =< total_entry_count
        /\ Ahead(get, h.put) + immediate < total_entry_count
    BY <1>2, <1>3, <1>7, <1>8, CommandBufferAssumption DEF Offsets
  <1> QED BY <1>1, <1>7, <1>9

LEMMA PutOffsetType ==
  ASSUME NEW h \in Helpers
  PROVE  /\ WrapPut(h) \in Helpers
         /\ WrapPut(h).put \in Offsets
         /\ WrapPut(h).put = PutOffset(h)
         /\ PutOffset(h) = IF h.put = total_entry_count THEN 0 ELSE h.put
         /\ WrapPut(h).have_ring_buffer = h.have_ring_buffer
         /\ WrapPut(h).token = h.token
  BY CommandBufferAssumption DEF PutOffset, WrapPut, Helpers, Offsets

\* The helper's other members do not matter.
LEMMA HelperChanges ==
  ASSUME NEW s, Held(s), NEW h \in Helpers, h.have_ring_buffer,
         PutOffset(h) = PutOffset(s.h),
         h.put = total_entry_count => s.h.put = total_entry_count
  PROVE  Held([s EXCEPT !.h = h])
  <1> DEFINE t == [s EXCEPT !.h = h]
  <1>1. s \in Buffers
    BY DEF Held
  <1>2. /\ t \in Buffers /\ t.h = h
        /\ t.entries = s.entries /\ t.tasks = s.tasks /\ t.last_put = s.last_put
    BY <1>1 DEF Buffers
  <1> HIDE DEF t
  <1>3. FlushesWait(t)
    BY <1>2 DEF Held, FlushesWait, FirstIsRun
  <1>4. OffsetsInOrder(s) => OffsetsInOrder(t)
    BY <1>2 DEF OffsetsInOrder
  <1>5. RingIsTiled(s) => RingIsTiled(t)
    BY <1>2 DEF RingIsTiled, CommandsTile
  <1> QED BY <1>2, <1>3, <1>4, <1>5 DEF Held, t

\* CalcImmediateEntries leaves free what it gives away.
LEMMA CalcHeld ==
  ASSUME NEW s, Held(s), Known, NEW w \in Nat, s.h.put < total_entry_count
  PROVE  LET h == CalcImmediateEntries(s.h, last_state.get_offset, w)
             t == [s EXCEPT !.h = h]
         IN /\ h \in Helpers /\ h.put = s.h.put /\ h.token = s.h.token
            /\ Held(t) /\ t.h = h /\ Room(h)
  <1> DEFINE h == CalcImmediateEntries(s.h, last_state.get_offset, w)
  <1>1. s \in Buffers /\ s.h \in Helpers /\ s.h.have_ring_buffer
    BY DEF Held, Buffers
  <1>2. last_state.get_offset \in Offsets
    BY DEF Known, States
  <1>3. PICK n \in 0 .. total_entry_count :
          /\ h = [s.h EXCEPT !.immediate = n]
          /\ s.h.put + n =< total_entry_count
          /\ Ahead(last_state.get_offset, s.h.put) + n < total_entry_count
    BY <1>1, <1>2, CalcImmediateEntriesIs
  <1> HIDE DEF h
  <1>4. /\ h \in Helpers /\ h.put = s.h.put /\ h.immediate = n
        /\ h.have_ring_buffer /\ h.token = s.h.token
    BY <1>1, <1>3 DEF Helpers
  <1>5. PutOffset(h) = PutOffset(s.h) /\ PutOffset(h) = s.h.put
    BY <1>1, <1>4, PutOffsetType DEF Helpers
  <1>6. Held([s EXCEPT !.h = h])
    BY <1>4, <1>5, HelperChanges
  <1>7. Room(h)
    BY <1>3, <1>4, <1>5 DEF Room, RoomIsFree
  <1>8. [s EXCEPT !.h = h].h = h
    BY <1>1 DEF Buffers
  <1> QED BY <1>4, <1>6, <1>7, <1>8 DEF h

LEMMA QueueFlushHeld ==
  ASSUME NEW s, Held(s), Known, s.h.put < total_entry_count, NEW put, put = s.h.put
  PROVE  /\ Held(QueueFlush(s, put))
         /\ QueueFlush(s, put).h = s.h
         /\ QueueFlush(s, put).entries = s.entries
  <1> DEFINE new == [kind |-> "flush", put |-> put]
             t == [s EXCEPT !.tasks = Append(s.tasks, new), !.last_put = put]
  <1>1. CASE IsError(last_state) \/ s.last_put = put
    BY <1>1 DEF QueueFlush
  <1>2. CASE ~(IsError(last_state) \/ s.last_put = put)
    <2>1. QueueFlush(s, put) = t
      BY <1>2 DEF QueueFlush
    <2>2. s \in Buffers /\ s.h \in Helpers /\ s.tasks \in Seq(Tasks) /\ s.last_put \in Offsets
      BY DEF Held, Buffers
    <2>3. put \in Offsets /\ put = PutOffset(s.h) /\ s.h.put # total_entry_count
      BY <2>2, PutOffsetType, CommandBufferAssumption DEF Helpers, Offsets
    <2>4. new \in Tasks /\ new.put = put /\ new.kind = "flush"
      BY <2>3 DEF Tasks
    <2> HIDE DEF new
    <2>5. /\ t \in Buffers /\ t.h = s.h /\ t.entries = s.entries
          /\ t.tasks = Append(s.tasks, new) /\ t.last_put = put
      <3>1. Append(s.tasks, new) \in Seq(Tasks)
        BY <2>2, <2>4
      <3> DEFINE queue == Append(s.tasks, new)
      <3> HIDE DEF queue
      <3>2. /\ t = [s EXCEPT !.tasks = queue, !.last_put = put]
            /\ queue \in Seq(Tasks)
        BY <3>1 DEF queue
      <3> HIDE DEF t
      <3>3. /\ t \in Buffers /\ t.h = s.h /\ t.entries = s.entries
            /\ t.tasks = queue /\ t.last_put = put
        BY <2>2, <2>3, <3>2 DEF Buffers
      <3> QED BY <3>3 DEF queue
    <2> HIDE DEF t
    <2> DEFINE n == Len(s.tasks)
    <2>6. /\ n \in Nat /\ Len(t.tasks) = n + 1
          /\ DOMAIN s.tasks = 1 .. n /\ DOMAIN t.tasks = 1 .. n + 1
          /\ \A i \in 1 .. n : t.tasks[i] = s.tasks[i] /\ s.tasks[i] \in Tasks
          /\ t.tasks[n + 1] = new
          /\ s.tasks = <<>> <=> n = 0
          /\ t.tasks # <<>>
      BY <2>2, <2>4, <2>5
    <2> HIDE DEF n
    <2>7. FlushesWait(t)
      <3>1. FlushesWait(s)
        BY DEF Held
      <3>2. \A i \in DOMAIN t.tasks : t.tasks[i].kind = "flush"
        <4> SUFFICES ASSUME NEW i \in 1 .. n + 1
                     PROVE  t.tasks[i].kind = "flush"
          BY <2>6
        <4>1. CASE i = n + 1
          BY <2>4, <2>6, <4>1
        <4>2. CASE i # n + 1
          <5>1. i \in 1 .. n
            BY <2>6, <4>2
          <5> QED BY <2>6, <3>1, <5>1 DEF FlushesWait
        <4> QED BY <4>1, <4>2
      <3>3. FirstIsRun(t)
        BY <2>6, <3>1 DEF FlushesWait, FirstIsRun
      <3> QED BY <3>2, <3>3 DEF FlushesWait
    <2>8. ASSUME OffsetsInOrder(s)
          PROVE  OffsetsInOrder(t)
      <3> DEFINE from(x) == Ahead(last_state.get_offset, x)
                 get == service.get_offset
      <3>1. last_state.get_offset \in Offsets /\ get \in Offsets
        BY DEF Known, States
      <3>2. \A x \in Offsets : from(x) \in Nat
        BY <3>1, AheadType, OffsetsAreNat
      <3>3. \A i \in 1 .. n : s.tasks[i].put \in Offsets
        BY <2>6 DEF Tasks
      <3>4. /\ from(get) =< from(s.last_put)
            /\ from(s.last_put) =< from(put)
            /\ s.last_put = IF n = 0 THEN get ELSE s.tasks[n].put
            /\ IF gpu_pc \in {"publish", "signal"} THEN put_offset = get
               ELSE n # 0 => from(get) < from(s.tasks[1].put)
            /\ \A i, j \in 1 .. n :
                 i < j => from(s.tasks[i].put) < from(s.tasks[j].put)
            /\ s.h.put = total_entry_count => s.last_put # 0
        BY <2>3, <2>6, <2>8 DEF OffsetsInOrder, n
      <3>5. from(s.last_put) # from(put)
        BY <1>2, <2>2, <2>3, <3>1, AheadInjective
      <3>6. from(s.last_put) \in Nat /\ from(put) \in Nat /\ from(get) \in Nat
        BY <2>2, <2>3, <3>1, <3>2
      <3>7. from(s.last_put) < from(put) /\ from(get) < from(put)
        BY <3>4, <3>5, <3>6
      <3>8. \A i \in 1 .. n : from(s.tasks[i].put) =< from(s.last_put)
        <4> SUFFICES ASSUME NEW i \in 1 .. n
                     PROVE  from(s.tasks[i].put) =< from(s.last_put)
          OBVIOUS
        <4>1. n \in 1 .. n /\ s.last_put = s.tasks[n].put
          BY <2>6, <3>4
        <4>2. from(s.tasks[i].put) \in Nat
          BY <3>2, <3>3
        <4>3. CASE i = n
          BY <4>1, <4>2, <4>3
        <4>4. CASE i # n
          <5>1. i < n
            BY <2>6, <4>4
          <5> QED BY <3>4, <3>6, <4>1, <4>2, <5>1
        <4> QED BY <4>3, <4>4
      <3>9. \A i, j \in 1 .. n + 1 :
              i < j => from(t.tasks[i].put) < from(t.tasks[j].put)
        <4> SUFFICES ASSUME NEW i \in 1 .. n + 1, NEW j \in 1 .. n + 1, i < j
                     PROVE  from(t.tasks[i].put) < from(t.tasks[j].put)
          OBVIOUS
        <4>1. i \in 1 .. n /\ t.tasks[i] = s.tasks[i] /\ from(s.tasks[i].put) \in Nat
          BY <2>6, <3>2, <3>3
        <4>2. CASE j = n + 1
          BY <2>4, <2>6, <3>6, <3>7, <3>8, <4>1, <4>2
        <4>3. CASE j # n + 1
          BY <2>6, <3>4, <4>1, <4>3
        <4> QED BY <4>2, <4>3
      <3>10. IF gpu_pc \in {"publish", "signal"} THEN put_offset = get
             ELSE from(get) < from(t.tasks[1].put)
        <4>1. CASE n = 0
          <5>1. ~(gpu_pc \in {"publish", "signal"})
            BY <2>6, <4>1 DEF Held, FlushesWait, FirstIsRun
          <5> QED BY <2>4, <2>6, <3>7, <4>1, <5>1
        <4>2. CASE n # 0
          <5>1. t.tasks[1] = s.tasks[1]
            BY <2>6, <4>2
          <5> QED BY <3>4, <4>2, <5>1
        <4> QED BY <4>1, <4>2
      <3> HIDE DEF from, get
      <3>11. from(put) =< from(put)
        BY <3>6
      <3>12. /\ t.last_put = t.tasks[Len(t.tasks)].put
             /\ \A i, j \in DOMAIN t.tasks :
                  i < j => from(t.tasks[i].put) < from(t.tasks[j].put)
        BY <2>4, <2>5, <2>6, <3>9
      <3>13. from(get) =< from(put)
        BY <3>6, <3>7
      <3> QED BY <2>3, <2>5, <2>6, <3>4, <3>10, <3>11, <3>12, <3>13 DEF OffsetsInOrder, from, get
    <2>9. RingIsTiled(s) => RingIsTiled(t)
      <3> SUFFICES ASSUME NEW starts \in SUBSET Offsets, CommandsTile(s, starts)
                   PROVE  CommandsTile(t, starts)
        BY DEF RingIsTiled
      <3>1. \A i \in DOMAIN t.tasks : Edge(starts, put, t.tasks[i].put)
        <4> SUFFICES ASSUME NEW i \in 1 .. n + 1
                     PROVE  Edge(starts, put, t.tasks[i].put)
          BY <2>6
        <4>1. CASE i = n + 1
          BY <2>4, <2>6, <4>1 DEF Edge
        <4>2. CASE i # n + 1
          <5>1. i \in 1 .. n
            BY <2>6, <4>2
          <5> QED BY <2>3, <2>6, <5>1 DEF CommandsTile
        <4> QED BY <4>1, <4>2
      <3> QED BY <2>3, <2>5, <3>1 DEF CommandsTile
    <2> QED BY <2>1, <2>5, <2>7, <2>8, <2>9 DEF Held
  <1> QED BY <1>1, <1>2

\* A helper replaced twice, with a flush between.
LEMMA HelperReplaced ==
  ASSUME NEW s \in Buffers, NEW a, NEW b
  PROVE  [[s EXCEPT !.h = a] EXCEPT !.h = b] = [s EXCEPT !.h = b]
  BY DEF Buffers

LEMMA QueueFlushReplaced ==
  ASSUME NEW s \in Buffers, NEW a, NEW b, NEW put
  PROVE  [QueueFlush([s EXCEPT !.h = a], put) EXCEPT !.h = b]
           = [QueueFlush(s, put) EXCEPT !.h = b]
  <1> DEFINE w == [s EXCEPT !.h = a]
             queue == Append(s.tasks, [kind |-> "flush", put |-> put])
  <1>1. /\ w = [h |-> a, entries |-> s.entries, tasks |-> s.tasks, last_put |-> s.last_put]
        /\ s = [h |-> s.h, entries |-> s.entries, tasks |-> s.tasks, last_put |-> s.last_put]
    BY DEF Buffers
  <1>2. w.tasks = s.tasks /\ w.last_put = s.last_put
    BY <1>1
  <1> HIDE DEF w, queue
  <1>3. CASE IsError(last_state) \/ s.last_put = put
    <2>1. QueueFlush(w, put) = w /\ QueueFlush(s, put) = s
      BY <1>2, <1>3 DEF QueueFlush
    <2> QED BY <2>1, HelperReplaced DEF w
  <1>4. CASE ~(IsError(last_state) \/ s.last_put = put)
    <2>1. /\ QueueFlush(w, put) = [w EXCEPT !.tasks = queue, !.last_put = put]
          /\ QueueFlush(s, put) = [s EXCEPT !.tasks = queue, !.last_put = put]
      BY <1>2, <1>4 DEF QueueFlush, queue
    <2>2. /\ QueueFlush(w, put)
               = [h |-> a, entries |-> s.entries, tasks |-> queue, last_put |-> put]
          /\ QueueFlush(s, put)
               = [h |-> s.h, entries |-> s.entries, tasks |-> queue, last_put |-> put]
      BY <1>1, <2>1
    <2> QED BY <2>2 DEF w
  <1> QED BY <1>3, <1>4 DEF w

\* Both flushes leave put_ within the ring and the room as it is.
LEMMA FlushHeld ==
  ASSUME NEW s, Held(s), Known
  PROVE  LET f == FlushHelper(s)
         IN /\ Held(f) /\ Room(f.h)
            /\ f.h.put = PutOffset(s.h) /\ f.h.put < total_entry_count
            /\ f.h.token = s.h.token
  <1> DEFINE h == WrapPut(s.h)
             w == [s EXCEPT !.h = h]
             q == QueueFlush(w, h.put)
             sent == [h EXCEPT !.last_put_sent = h.put]
             u == [q EXCEPT !.h = sent]
             c == CalcImmediateEntries(sent, last_state.get_offset, 0)
  <1>1. s \in Buffers /\ s.h \in Helpers /\ s.h.have_ring_buffer
    BY DEF Held, Buffers
  <1>2. /\ h \in Helpers /\ h.put \in Offsets /\ h.put = PutOffset(s.h)
        /\ h.put < total_entry_count /\ h.have_ring_buffer /\ h.token = s.h.token
    BY <1>1, PutOffsetType, OffsetsAreNat
  <1> HIDE DEF h
  <1>3. /\ sent \in Helpers /\ sent.put = h.put /\ sent.have_ring_buffer
        /\ sent.token = h.token
    BY <1>2 DEF Helpers
  <1> HIDE DEF sent
  <1>4. PutOffset(h) = h.put /\ PutOffset(sent) = h.put /\ h.put # total_entry_count
    BY <1>2, <1>3, PutOffsetType, CommandBufferAssumption
  <1>5. Held(w) /\ w.h = h
    <2>1. w.h = h
      BY <1>1 DEF Buffers
    <2> QED BY <1>2, <1>4, <2>1, HelperChanges
  <1> HIDE DEF w
  <1>6. Held(q) /\ q.h = h
    BY <1>2, <1>5, QueueFlushHeld
  <1>7. Held(u) /\ u.h = sent
    <2>1. u.h = sent
      BY <1>6 DEF Held, Buffers
    <2> QED BY <1>2, <1>3, <1>4, <1>6, <2>1, HelperChanges
  <1> HIDE DEF u
  <1>8. /\ c \in Helpers /\ c.put = h.put /\ c.token = h.token /\ Room(c)
        /\ Held([u EXCEPT !.h = c]) /\ [u EXCEPT !.h = c].h = c
    BY <1>2, <1>3, <1>7, CalcHeld
  <1> HIDE DEF c
  <1>9. FlushHelper(s) = [u EXCEPT !.h = c]
    <2>1. FlushHelper(s) = [QueueFlush(s, h.put) EXCEPT !.h = c]
      BY DEF FlushHelper, c, sent, h
    <2>2. [QueueFlush(s, h.put) EXCEPT !.h = c] = [q EXCEPT !.h = c]
      BY <1>1, QueueFlushReplaced DEF w
    <2>3. [q EXCEPT !.h = c] = [u EXCEPT !.h = c]
      BY <1>6, HelperReplaced DEF Held, u
    <2> QED BY <2>1, <2>2, <2>3
  <1> QED BY <1>2, <1>8, <1>9

LEMMA BarrierHeld ==
  ASSUME NEW s, Held(s), Known
  PROVE  LET f == OrderingBarrierHelper(s)
         IN Held(f) /\ Room(f.h) /\ f.h.put < total_entry_count
  <1> DEFINE h == WrapPut(s.h)
             w == [s EXCEPT !.h = h]
             q == QueueFlush(w, h.put)
             c == CalcImmediateEntries(h, last_state.get_offset, 0)
  <1>1. s \in Buffers /\ s.h \in Helpers /\ s.h.have_ring_buffer
    BY DEF Held, Buffers
  <1>2. /\ h \in Helpers /\ h.put \in Offsets /\ h.put = PutOffset(s.h)
        /\ h.put < total_entry_count /\ h.have_ring_buffer
    BY <1>1, PutOffsetType, OffsetsAreNat
  <1> HIDE DEF h
  <1>3. PutOffset(h) = h.put /\ h.put # total_entry_count
    BY <1>2, PutOffsetType, CommandBufferAssumption
  <1>4. Held(w) /\ w.h = h
    <2>1. w.h = h
      BY <1>1 DEF Buffers
    <2> QED BY <1>2, <1>3, <2>1, HelperChanges
  <1> HIDE DEF w
  <1>5. Held(q) /\ q.h = h
    BY <1>2, <1>4, QueueFlushHeld
  <1>6. /\ c \in Helpers /\ c.put = h.put /\ Room(c)
        /\ Held([q EXCEPT !.h = c]) /\ [q EXCEPT !.h = c].h = c
    BY <1>2, <1>5, CalcHeld
  <1>7. OrderingBarrierHelper(s) = [q EXCEPT !.h = c]
    <2>1. OrderingBarrierHelper(s) = [QueueFlush(s, h.put) EXCEPT !.h = c]
      BY DEF OrderingBarrierHelper, c, h
    <2> HIDE DEF c
    <2>2. [QueueFlush(s, h.put) EXCEPT !.h = c] = [q EXCEPT !.h = c]
      BY <1>1, QueueFlushReplaced DEF w
    <2> QED BY <2>1, <2>2
  <1> QED BY <1>2, <1>6, <1>7

\* A command in the free part of the ring, or the noop up to its end.
LEMMA WriteHeld ==
  ASSUME NEW s, Held(s), Known, NEW cmd \in Commands \cup Noops,
         s.h.put < total_entry_count, s.h.put + cmd.size =< total_entry_count,
         ~IsError(service) =>
           Ahead(last_state.get_offset, s.h.put) + cmd.size < total_entry_count,
         NEW h \in Helpers, h.have_ring_buffer,
         PutOffset(h) = OffsetAfter(s.h.put, cmd.size)
  PROVE  /\ Held([s EXCEPT !.entries = WriteAt(s.entries, s.h.put, cmd), !.h = h])
         /\ ~IsError(service) =>
              Ahead(last_state.get_offset, PutOffset(h)) =
                Ahead(last_state.get_offset, s.h.put) + cmd.size
  <1> DEFINE put == s.h.put
             after == OffsetAfter(put, cmd.size)
             ring == WriteAt(s.entries, put, cmd)
             t == [s EXCEPT !.entries = ring, !.h = h]
             from(x) == Ahead(last_state.get_offset, x)
             get == service.get_offset
  <1>1. s \in Buffers /\ s.h \in Helpers /\ s.entries \in [Offsets -> Entries]
    BY DEF Held, Buffers
  <1>2. put \in Offsets /\ cmd.size \in Nat \ {0} /\ PutOffset(s.h) = put
    BY <1>1, SizesAreNat, PutOffsetType, CommandBufferAssumption DEF Helpers, Offsets
  <1>3. ring \in [Offsets -> Entries]
    <2>1. cmd \in Entries /\ Argument \in Entries
      BY DEF Entries
    <2> QED BY <1>1, <2>1 DEF WriteAt
  <1>4. last_state.get_offset \in Offsets /\ get \in Offsets
    BY DEF Known, States
  <1>5. ~IsError(service) => after \in Offsets /\ from(after) = from(put) + cmd.size
    BY <1>2, <1>4, AheadAfter
  <1> HIDE DEF ring
  <1>6. /\ t \in Buffers /\ t.h = h /\ t.entries = ring
        /\ t.tasks = s.tasks /\ t.last_put = s.last_put
    BY <1>1, <1>3 DEF Buffers
  <1> HIDE DEF t
  <1>7. FlushesWait(t)
    BY <1>6 DEF Held, FlushesWait, FirstIsRun
  <1>8. ASSUME ~IsError(service)
        PROVE  OffsetsInOrder(t) /\ RingIsTiled(t)
    <2>1. OffsetsInOrder(s) /\ RingIsTiled(s)
      BY <1>8 DEF Held
    <2>2. s.last_put \in Offsets
      BY <1>1 DEF Buffers
    <2>3. from(get) \in Nat /\ from(s.last_put) \in Nat /\ from(put) \in Nat
      BY <1>2, <1>4, <2>2, AheadType, OffsetsAreNat
    <2>4. from(get) =< from(s.last_put) /\ from(s.last_put) =< from(put)
      BY <1>2, <2>1 DEF OffsetsInOrder
    <2>5. from(s.last_put) < from(after)
      BY <1>2, <1>5, <1>8, <2>3, <2>4
    <2>6. h.put = total_entry_count => s.last_put # 0
      <3> SUFFICES ASSUME h.put = total_entry_count
                   PROVE  after # s.last_put /\ after = 0
        OBVIOUS
      <3>1. after = 0
        BY PutOffsetType
      <3> HIDE DEF after
      <3> QED BY <2>3, <2>5, <3>1
    <2>7. from(s.last_put) =< from(PutOffset(h))
      BY <1>2, <1>5, <1>8, <2>3, <2>5
    <2>8. OffsetsInOrder(t)
      BY <1>6, <2>1, <2>6, <2>7 DEF OffsetsInOrder
    <2>9. PICK starts \in SUBSET Offsets : CommandsTile(s, starts)
      BY <2>1 DEF RingIsTiled
    <2>10. Ahead(get, put) + cmd.size < total_entry_count
      <3>1. Ahead(get, put) = from(put) - from(get)
        BY <1>2, <1>4, <2>3, <2>4, AheadFrom
      <3>2. from(put) + cmd.size < total_entry_count
        BY <1>8
      <3> HIDE DEF from, put, get
      <3> QED BY <1>2, <2>3, <3>1, <3>2, CommandBufferAssumption
    <2>11. Tiles(starts, s.entries, get, put)
      BY <1>2, <2>9 DEF CommandsTile
    <2>12. /\ Tiles(starts \cup {put}, ring, get, after)
           /\ \A x : Edge(starts, put, x) => Edge(starts \cup {put}, after, x)
      BY <1>1, <1>2, <1>4, <2>10, <2>11, TilesWrite DEF ring
    <2>13. CommandsTile(t, starts \cup {put})
      BY <1>2, <1>6, <2>9, <2>12 DEF CommandsTile
    <2>14. starts \cup {put} \in SUBSET Offsets
      BY <1>2
    <2> QED BY <2>8, <2>13, <2>14 DEF RingIsTiled
  <1> QED BY <1>5, <1>6, <1>7, <1>8 DEF Held, t, ring

LEMMA WriteCommandHeld ==
  ASSUME NEW s, Held(s), Known, Room(s.h), NEW cmd \in Commands,
         cmd.size =< s.h.immediate
  PROVE  LET t == WriteCommand(s, cmd)
         IN Held(t) /\ Room(t.h)
  <1> DEFINE put == s.h.put
             n == cmd.size
             h == [s.h EXCEPT !.put = put + n, !.immediate = s.h.immediate - n]
             ring == WriteAt(s.entries, put, cmd)
             t == [s EXCEPT !.entries = ring, !.h = h]
  <1>1. s \in Buffers /\ s.h \in Helpers /\ s.h.have_ring_buffer
    BY DEF Held, Buffers
  <1>2. /\ n \in Nat \ {0} /\ put \in Nat /\ s.h.immediate \in Nat
        /\ put + s.h.immediate =< total_entry_count
        /\ total_entry_count \in Nat
    BY <1>1, SizesAreNat, CommandBufferAssumption DEF Helpers, Room
  <1> HIDE DEF n
  <1>3. /\ put < total_entry_count /\ put + n =< total_entry_count
        /\ s.h.immediate - n \in 0 .. total_entry_count
        /\ put + n \in 0 .. total_entry_count
        /\ put + n + (s.h.immediate - n) =< total_entry_count
        /\ n =< s.h.immediate
    BY <1>2 DEF n
  <1>4. /\ h \in Helpers /\ h.have_ring_buffer
        /\ h.put = put + n /\ h.immediate = s.h.immediate - n
    BY <1>1, <1>3 DEF Helpers
  <1> HIDE DEF h
  <1>5. PutOffset(h) = OffsetAfter(put, n) /\ PutOffset(s.h) = put
    BY <1>1, <1>2, <1>3, <1>4, PutOffsetType DEF OffsetAfter
  <1>6. ASSUME ~IsError(service)
        PROVE  /\ Ahead(last_state.get_offset, put) \in Nat
               /\ Ahead(last_state.get_offset, put) + s.h.immediate < total_entry_count
               /\ Ahead(last_state.get_offset, put) + n < total_entry_count
    <2>1. last_state.get_offset \in Offsets /\ put \in Offsets
      BY <1>2, <1>3 DEF Known, States, Offsets
    <2>2. Ahead(last_state.get_offset, put) \in Nat
      BY <2>1, AheadType, OffsetsAreNat
    <2>3. Ahead(last_state.get_offset, put) + s.h.immediate < total_entry_count
      BY <1>5, <1>6 DEF Room, RoomIsFree
    <2> QED BY <1>2, <1>3, <2>2, <2>3
  <1>7. /\ Held(t)
        /\ ~IsError(service) =>
             Ahead(last_state.get_offset, PutOffset(h)) =
               Ahead(last_state.get_offset, put) + n
    BY <1>3, <1>4, <1>5, <1>6, WriteHeld DEF n
  <1>8. ~IsError(service) => RoomIsFree(h)
    BY <1>2, <1>4, <1>6, <1>7 DEF RoomIsFree
  <1>9. Room(h)
    BY <1>3, <1>4, <1>8 DEF Room
  <1>10. WriteCommand(s, cmd) = t /\ t.h = h
    BY <1>1 DEF WriteCommand, Buffers, Helpers, h, n
  <1> QED BY <1>7, <1>9, <1>10

\* The noop goes up to the end of the ring, which is free if the service's get
\* is known to be behind put_ and not at the start.
LEMMA FillHeld ==
  ASSUME NEW s, Held(s), Known,
         ~IsError(service) => last_state.get_offset \in 1 .. s.h.put
  PROVE  LET t == FillWithNoops(s)
         IN Held(t) /\ t.h.put = 0
  <1> DEFINE put == s.h.put
             left == total_entry_count - put
             noop == Cmd("noop", left, 0)
             h == [s.h EXCEPT !.put = 0]
  <1>1. s \in Buffers /\ s.h \in Helpers /\ s.h.have_ring_buffer
    BY DEF Held, Buffers
  <1>2. put \in 0 .. total_entry_count /\ total_entry_count \in Nat \ {0}
    BY <1>1, CommandBufferAssumption DEF Helpers
  <1>3. h \in Helpers /\ h.have_ring_buffer /\ h.put = 0
    BY <1>1, <1>2 DEF Helpers
  <1> HIDE DEF h
  <1>4. PutOffset(h) = 0
    BY <1>2, <1>3, PutOffsetType
  <1>5. CASE left > 0
    <2>1. left \in 1 .. total_entry_count /\ put < total_entry_count
      BY <1>2, <1>5
    <2>2. noop \in Noops /\ noop.size = left
      BY <2>1 DEF Noops, Cmd
    <2> HIDE DEF noop
    <2>3. put + left = total_entry_count
      BY <1>2
    <2>4. ~IsError(service) =>
            Ahead(last_state.get_offset, put) + left < total_entry_count
      BY <1>2 DEF Ahead
    <2>5. PutOffset(h) = OffsetAfter(put, noop.size)
      BY <1>4, <2>2, <2>3 DEF OffsetAfter
    <2>6. Held([s EXCEPT !.entries = WriteAt(s.entries, put, noop), !.h = h])
      <3>1. /\ noop \in Commands \cup Noops
            /\ put + noop.size =< total_entry_count
            /\ ~IsError(service) =>
                 Ahead(last_state.get_offset, put) + noop.size < total_entry_count
        BY <1>2, <2>2, <2>3, <2>4
      <3> QED BY <1>3, <2>1, <2>5, <3>1, WriteHeld
    <2>7. FillWithNoops(s) = [s EXCEPT !.entries = WriteAt(s.entries, put, noop), !.h = h]
      <3>1. FillWithNoops(s) = [s EXCEPT !.entries = WriteAt(s.entries, put, noop), !.h.put = 0]
        BY <1>5 DEF FillWithNoops, noop
      <3> QED BY <1>1, <3>1 DEF Buffers, h
    <2>8. FillWithNoops(s).h = h
      BY <1>1, <2>7 DEF Buffers
    <2> QED BY <1>3, <2>6, <2>7, <2>8
  <1>6. CASE ~(left > 0)
    <2>1. put = total_entry_count
      BY <1>2, <1>6
    <2>2. PutOffset(s.h) = 0
      BY <1>1, <2>1, PutOffsetType
    <2>3. FillWithNoops(s) = [s EXCEPT !.h = h]
      BY <1>1, <1>6 DEF FillWithNoops, Buffers, h
    <2>4. [s EXCEPT !.h = h].h = h
      BY <1>1 DEF Buffers
    <2> QED BY <1>2, <1>3, <1>4, <2>2, <2>3, <2>4, HelperChanges
  <1> QED BY <1>5, <1>6

-----------------------------------------------------------------------------
(* The client's functions.                                                 *)

LEMMA ClientIs ==
  /\ Ready = [pc |-> "ready", cmd |-> Idle, start |-> 0, end |-> 0, then |-> "return"]
  /\ \A pc, cmd : At(pc, cmd)
       = [pc |-> pc, cmd |-> cmd, start |-> 0, end |-> 0, then |-> "return"]
  /\ Idle.op = "none" /\ Idle \notin Commands
  /\ \A cmd \in Commands : cmd \in Calls /\ cmd.op # "alloc" /\ cmd.arg \in Nat
  <1>1. ASSUME NEW cmd \in Commands
        PROVE  cmd.op \in {"work", "read", "set_token"} /\ cmd.arg \in Nat
    <2>1. \A n \in Tokens \cup 0 .. Size - 1 \cup {0} : n \in Nat
      BY SizeAssumption, CommandBufferAssumption DEF Tokens
    <2>2. /\ cmd.op \in {"work", "read", "set_token"}
          /\ cmd.arg \in Tokens \cup 0 .. Size - 1 \cup {0}
      BY DEF Commands
    <2> QED BY <2>1, <2>2
  <1>2. Idle.op = "none"
    BY DEF Idle, Cmd
  <1>3. /\ Ready = [pc |-> "ready", cmd |-> Idle, start |-> 0, end |-> 0, then |-> "return"]
        /\ \A pc, cmd : At(pc, cmd)
             = [pc |-> pc, cmd |-> cmd, start |-> 0, end |-> 0, then |-> "return"]
    BY DEF Ready, At, Wait
  <1>4. \A cmd \in Commands : cmd \in Calls /\ cmd.op # "alloc" /\ cmd # Idle
    BY <1>1, <1>2 DEF Calls
  <1> QED BY <1>1, <1>2, <1>3, <1>4

LEMMA ReadyGoes ==
  ASSUME NEW t, client' = Ready
  PROVE  ClientGoes(t)
  BY ClientIs DEF ClientGoes, ClientOK, Pcs

LEMMA FinishGoes ==
  ASSUME NEW t, NEW cmd \in Calls, client' = At("finish", cmd)
  PROVE  ClientGoes(t)
  BY ClientIs DEF ClientGoes, ClientOK, Pcs

LEMMA RoomGoes ==
  ASSUME NEW t, NEW cmd \in Commands, NEW n \in Nat, NEW m \in Nat,
         t.h.put < total_entry_count, t.h.have_ring_buffer,
         client' = Wait("poll", cmd, n, m, "room")
  PROVE  ClientGoes(t)
  BY ClientIs DEF ClientGoes, ClientOK, Pcs, Wait

LEMMA WrapGoes ==
  ASSUME NEW t, NEW cmd \in Commands, t.h.put \in Nat,
         ~IsError(service) => t.h.put > 0, t.h.put < total_entry_count, t.h.have_ring_buffer,
         client' = Wait("poll", cmd, 1, t.h.put, "wrap")
  PROVE  ClientGoes(t)
  BY ClientIs DEF ClientGoes, ClientOK, Pcs, Wait

\* A command was written or given up.
LEMMA AfterCommandLeaves ==
  ASSUME NEW t, Held(t), Room(t.h), Put(t), NEW cmd \in Commands, NEW written \in BOOLEAN,
         AfterCommand(cmd, written), BlocksTile(transfer), dropped' \in BOOLEAN
  PROVE  LeavesHeld
  <1>1. client' = Ready \/ client' = At("finish", cmd)
    BY DEF AfterCommand
  <1>2. ClientGoes(t)
    BY <1>1, ReadyGoes, FinishGoes, ClientIs
  <1>3. transfer' = transfer \/ transfer' = FreePendingToken(transfer, cmd.arg)
    BY DEF AfterCommand
  <1>4. BlocksTile(transfer')
    BY <1>3, ClientIs, FreePendingTile
  <1> QED BY <1>2, <1>4 DEF LeavesHeld, BlocksTile

LEMMA WrittenLeaves ==
  ASSUME NEW s, Held(s), Room(s.h), Known, NEW cmd \in Commands,
         cmd.size =< s.h.immediate, Written(s, cmd),
         BlocksTile(transfer), dropped \in BOOLEAN
  PROVE  LeavesHeld
  BY WriteCommandHeld, AfterCommandLeaves DEF Written

LEMMA FindRoomLeaves ==
  ASSUME NEW s, Held(s), Known, s.h.put < total_entry_count, NEW cmd \in Commands,
         FindRoom(s, cmd), BlocksTile(transfer), dropped \in BOOLEAN
  PROVE  LeavesHeld
  <1> DEFINE calculated ==
               [s EXCEPT !.h = CalcImmediateEntries(@, last_state.get_offset, cmd.size)]
             flushed == FlushHelper(calculated)
             again ==
               [flushed EXCEPT !.h = CalcImmediateEntries(@, last_state.get_offset, cmd.size)]
  <1>1. cmd.size \in Nat
    BY SizesAreNat
  <1>2. Held(calculated) /\ Room(calculated.h)
    BY <1>1, CalcHeld
  <1> HIDE DEF calculated
  <1>3. Held(flushed) /\ flushed.h.put < total_entry_count
    BY <1>2, FlushHeld
  <1> HIDE DEF flushed
  <1>4. Held(again) /\ Room(again.h) /\ again.h.put < total_entry_count
    BY <1>1, <1>3, CalcHeld
  <1> HIDE DEF again
  <1>5. CASE calculated.h.immediate >= cmd.size
    <2>1. Written(calculated, cmd)
      BY <1>5 DEF FindRoom, calculated
    <2>2. cmd.size =< calculated.h.immediate
      BY <1>5
    <2> QED BY <1>2, <2>1, <2>2, WrittenLeaves
  <1>6. CASE ~(calculated.h.immediate >= cmd.size) /\ again.h.immediate >= cmd.size
    <2>1. Written(again, cmd)
      BY <1>6 DEF FindRoom, calculated, flushed, again
    <2>2. cmd.size =< again.h.immediate
      BY <1>6
    <2> QED BY <1>4, <2>1, <2>2, WrittenLeaves
  <1>7. CASE ~(calculated.h.immediate >= cmd.size) /\ ~(again.h.immediate >= cmd.size)
    <2>1. /\ Put(again)
          /\ client' = Wait("poll", cmd, again.h.put + cmd.size + 1, again.h.put, "room")
          /\ UNCHANGED <<transfer, dropped>>
      BY <1>7 DEF FindRoom, calculated, flushed, again
    <2>2. again.h.put \in Nat /\ again.h.have_ring_buffer
      BY <1>4, CommandBufferAssumption DEF Held, Buffers, Helpers
    <2>3. again.h.put + cmd.size + 1 \in Nat
      BY <1>1, <2>2
    <2>4. ClientGoes(again)
      BY <1>4, <2>1, <2>2, <2>3, RoomGoes
    <2> QED BY <1>4, <2>1, <2>4 DEF LeavesHeld, BlocksTile
  <1> QED BY <1>5, <1>6, <1>7

LEMMA WaitForAvailableEntriesLeaves ==
  ASSUME NEW s, Held(s), Room(s.h), Known, NEW cmd \in Commands,
         WaitForAvailableEntries(s, cmd), BlocksTile(transfer), dropped \in BOOLEAN
  PROVE  LeavesHeld
  <1> DEFINE get == last_state.get_offset
             flushed == FlushHelper(s)
  <1>1. cmd.size \in Nat /\ cmd.size > 0 /\ cmd.size < total_entry_count
    BY SizesAreNat
  <1>2. s.h \in Helpers /\ s.h.put \in 0 .. total_entry_count /\ total_entry_count \in Nat
    BY CommandBufferAssumption DEF Held, Buffers, Helpers
  <1>3. get \in Nat
    BY OffsetsAreNat DEF Known, States
  <1>4. CASE s.h.put + cmd.size =< total_entry_count
    <2>1. s.h.put < total_entry_count
      BY <1>1, <1>2, <1>4
    <2> QED BY <1>4, <2>1, FindRoomLeaves DEF WaitForAvailableEntries
  <1>5. CASE ~(s.h.put + cmd.size =< total_entry_count) /\ (get > s.h.put \/ get = 0)
    <2>1. /\ Put(flushed)
          /\ client' = Wait("poll", cmd, 1, flushed.h.put, "wrap")
          /\ UNCHANGED <<transfer, dropped>>
      BY <1>5 DEF WaitForAvailableEntries
    <2>2. /\ Held(flushed) /\ Room(flushed.h)
          /\ flushed.h.put = PutOffset(s.h) /\ flushed.h.put < total_entry_count
      BY FlushHeld
    <2> HIDE DEF flushed
    <2>3. PutOffset(s.h) = IF s.h.put = total_entry_count THEN 0 ELSE s.h.put
      BY <1>2, PutOffsetType
    <2>4. flushed.h.put \in Nat /\ flushed.h.have_ring_buffer
      BY <2>2 DEF Held, Buffers, Helpers
    <2>5. ~IsError(service) => flushed.h.put > 0
      <3>1. CASE s.h.put = total_entry_count
        <4> SUFFICES ASSUME ~IsError(service)
                     PROVE  FALSE
          OBVIOUS
        <4>1. get = 0 /\ get \in Offsets
          <5>1. get \in Offsets
            BY DEF Known, States
          <5> HIDE DEF get
          <5>2. ~(get > s.h.put)
            BY <1>2, <3>1, <5>1, OffsetsAreNat
          <5> QED BY <1>5, <5>1, <5>2
        <4>2. PutOffset(s.h) = 0 /\ s.last_put \in Offsets /\ s.last_put # 0
          BY <2>3, <3>1 DEF Held, Buffers, OffsetsInOrder
        <4>3. Ahead(get, s.last_put) =< Ahead(get, 0)
          BY <4>2 DEF Held, OffsetsInOrder
        <4>4. Ahead(get, 0) = 0 /\ Ahead(get, s.last_put) \in Nat
          BY <4>1, <4>2, AheadType, OffsetsAreNat
        <4>5. Ahead(get, s.last_put) = 0
          <5> HIDE DEF get
          <5> QED BY <4>3, <4>4
        <4> QED BY <4>1, <4>2, <4>5, AheadType
      <3>2. CASE s.h.put # total_entry_count
        BY <1>1, <1>2, <1>5, <2>2, <2>3, <3>2
      <3> QED BY <3>1, <3>2
    <2>6. ClientGoes(flushed)
      BY <2>1, <2>2, <2>4, <2>5, WrapGoes
    <2> QED BY <2>1, <2>2, <2>6 DEF LeavesHeld, BlocksTile
  <1>6. CASE ~(s.h.put + cmd.size =< total_entry_count) /\ ~(get > s.h.put \/ get = 0)
    <2> DEFINE filled == FillWithNoops(s)
    <2>1. FindRoom(filled, cmd)
      BY <1>6 DEF WaitForAvailableEntries
    <2>2. get \in 1 .. s.h.put
      BY <1>2, <1>3, <1>6
    <2>3. Held(filled) /\ filled.h.put = 0
      BY <2>2, FillHeld
    <2> HIDE DEF filled
    <2> QED BY <1>1, <1>2, <2>1, <2>3, FindRoomLeaves
  <1> QED BY <1>4, <1>5, <1>6

LEMMA GetSpaceLeaves ==
  ASSUME NEW s, Held(s), Room(s.h), Known, NEW cmd \in Commands,
         GetSpace(s, cmd), BlocksTile(transfer), dropped \in BOOLEAN
  PROVE  LeavesHeld
  <1>1. CASE cmd.size =< s.h.immediate
    BY <1>1, WrittenLeaves DEF GetSpace
  <1>2. CASE ~(cmd.size =< s.h.immediate)
    BY <1>2, WaitForAvailableEntriesLeaves DEF GetSpace, Held
  <1> QED BY <1>1, <1>2

\* The records of a step are those of the state that it leads to.
LEMMA NowIs ==
  ASSUME NEW t \in Buffers, Put(t)
  PROVE  /\ Now'.h = t.h /\ Now'.entries = t.entries
         /\ Now'.tasks = t.tasks /\ Now'.last_put = t.last_put
  BY DEF Put, Now

LEMMA InvariantIsHeld ==
  ASSUME IInv
  PROVE  /\ Known
         /\ Now \in Buffers /\ Now.h = helper /\ Now.tasks = tasks
         /\ FirstIsRun(Now)
         /\ helper.have_ring_buffer => Held(Now) /\ Room(helper)
         /\ ~helper.have_ring_buffer /\ client.pc \notin {"set_get_buffer", "get_buffer_set"} =>
              Bare(Now)
  <1>1. /\ Now \in Buffers /\ Now.h = helper /\ Now.entries = entries
        /\ Now.tasks = tasks /\ Now.last_put = last_put_offset
    BY DEF IInv, TypeOK, Now, Buffers
  <1>2. Known
    BY DEF IInv, TypeOK, ErrorsArePassedOn, Known
  <1>3. FirstIsRun(Now)
    BY <1>1 DEF IInv, TasksFollow, FirstIsRun
  <1>4. ASSUME helper.have_ring_buffer
        PROVE  Held(Now) /\ Room(helper)
    <2>1. FlushesWait(Now)
      BY <1>1, <1>3, <1>4 DEF IInv, TasksFollow, FlushesWait
    <2>2. Held(Now)
      BY <1>1, <1>4, <2>1 DEF IInv, Held
    <2>3. Room(helper)
      BY <1>4 DEF IInv, Room, RoomInRing
    <2> QED BY <2>2, <2>3
  <1>5. ASSUME ~helper.have_ring_buffer, client.pc \notin {"set_get_buffer", "get_buffer_set"}
        PROVE  Bare(Now)
    <2>1. \A i \in DOMAIN Now.tasks : Now.tasks[i].kind # "set_get_buffer"
      BY <1>1, <1>5 DEF IInv, TasksFollow
    <2>2. ~IsError(service) => NothingLeft(Now)
      BY <1>5 DEF IInv, NothingWithoutRing
    <2>3. helper.immediate = 0
      BY <1>5 DEF IInv, RoomInRing
    <2> QED BY <1>1, <1>3, <1>5, <2>1, <2>2, <2>3 DEF Bare
  <1> QED BY <1>1, <1>2, <1>3, <1>4, <1>5

\* A function that leaves the buffer held keeps the invariant.
LEMMA LeavesKeeps ==
  ASSUME IInv, flush_event' \in BOOLEAN, UNCHANGED <<last_state, gpu_vars>>,
         \/ /\ Leaves \/ LeavesHeld
            /\ UNCHANGED state_after_last_flush
            /\ client.pc # "get_buffer_set"
         \/ LeavesHeld /\ state_after_last_flush' = service
  PROVE  IInv'
  <1> USE DEF gpu_vars
  <1>1. PICK t : /\ Put(t) /\ ClientGoes(t) /\ ((Held(t) /\ Room(t.h)) \/ Bare(t))
                 /\ ~Held(t) => UNCHANGED state_after_last_flush /\ client.pc # "get_buffer_set"
    BY DEF Leaves, LeavesHeld
  <1>2. t \in Buffers /\ FirstIsRun(t)
    BY <1>1 DEF Held, Bare, FlushesWait
  <1>3. /\ Now'.h = t.h /\ Now'.entries = t.entries
        /\ Now'.tasks = t.tasks /\ Now'.last_put = t.last_put
    BY <1>1, <1>2, NowIs
  <1>4. helper' = t.h /\ entries' = t.entries /\ tasks' = t.tasks /\ last_put_offset' = t.last_put
    BY <1>1 DEF Put
  <1>5. TypeOK'
    BY <1>1, <1>2, <1>4 DEF IInv, TypeOK, Buffers, Leaves, LeavesHeld, ClientGoes, States, Offsets
  <1>6. RoomInRing'
    <2>1. t.h.put \in 0 .. total_entry_count
      BY <1>2 DEF Buffers, Helpers
    <2>2. /\ t.h.put + t.h.immediate =< total_entry_count
          /\ ~t.h.have_ring_buffer => t.h.immediate = 0
      BY <1>1, <2>1 DEF Held, Bare, Room
    <2> QED BY <1>1, <1>4, <2>2 DEF RoomInRing, ClientGoes
  <1>7. ErrorsArePassedOn'
    BY DEF IInv, ErrorsArePassedOn, IsError
  <1>8. TasksFollow'
    <2>1. \A i \in DOMAIN t.tasks :
            /\ t.tasks[i].kind # "set_get_buffer"
            /\ t.h.have_ring_buffer => t.tasks[i].kind = "flush"
      BY <1>1 DEF Held, Bare, FlushesWait
    <2> QED BY <1>1, <1>2, <1>4, <2>1 DEF TasksFollow, FirstIsRun, ClientGoes
  <1>9. ASSUME ~IsError(service)', helper.have_ring_buffer'
        PROVE  /\ PublishedInOrder'
               /\ OffsetsInOrder(Now)' /\ RoomIsFree(helper)'
               /\ RingIsTiled(Now)' /\ WrapWaitsForStart'
    <2>1. ~IsError(service)
      BY <1>9 DEF IsError
    <2>2. Held(t) /\ Room(t.h)
      BY <1>1, <1>4, <1>9 DEF Bare
    <2>3. OffsetsInOrder(t) /\ RingIsTiled(t) /\ RoomIsFree(t.h)
      BY <2>1, <2>2 DEF Held, Room
    <2>4. OffsetsInOrder(Now)'
      BY <1>3, <2>3 DEF OffsetsInOrder, PutOffset, WrapPut, Ahead
    <2>5. RoomIsFree(helper)'
      BY <1>4, <2>3 DEF RoomIsFree, PutOffset, WrapPut, Ahead
    <2>6. RingIsTiled(Now)'
      BY <1>3, <2>3 DEF RingIsTiled, CommandsTile, Tiles, Edge, OffsetAfter, PutOffset, WrapPut,
                        Ahead
    <2>7. WrapWaitsForStart'
      BY <1>1, <1>4, <2>1 DEF WrapWaitsForStart, ClientGoes
    <2>8. PublishedInOrder'
      <3>1. CASE state_after_last_flush' = service
        <4>1. Ahead(last_state.get_offset, service.get_offset) \in Nat
          BY AheadType, OffsetsAreNat DEF IInv, TypeOK, States
        <4> HIDE DEF gpu_vars
        <4>2. Ahead(last_state.get_offset, service.get_offset)
                =< Ahead(last_state.get_offset, service.get_offset)
          BY <4>1
        <4> QED BY <3>1, <4>2 DEF PublishedInOrder, gpu_vars, Ahead
      <3>2. CASE UNCHANGED state_after_last_flush /\ client.pc # "get_buffer_set"
        <4>1. CASE helper.have_ring_buffer
          BY <2>1, <3>2, <4>1 DEF IInv, PublishedInOrder, Ahead
        <4>2. CASE ~helper.have_ring_buffer
          <5>1. state_after_last_flush.get_offset = last_state.get_offset
            BY <2>1, <3>2, <4>2 DEF IInv, NothingWithoutRing, NothingLeft
          <5>2. /\ last_state.get_offset \in Offsets /\ service.get_offset \in Offsets
            BY DEF IInv, TypeOK, States
          <5>3. PublishedInOrder
            BY <5>1, <5>2, AheadType, OffsetsAreNat DEF PublishedInOrder
          <5> QED BY <3>2, <5>3 DEF PublishedInOrder, Ahead
        <4> QED BY <4>1, <4>2
      <3> QED BY <3>1, <3>2
    <2> QED BY <2>4, <2>5, <2>6, <2>7, <2>8
  <1>10. ASSUME ~IsError(service)', ~helper.have_ring_buffer'
         PROVE  NothingWithoutRing'
    <2>1. NothingLeft(t)
      BY <1>1, <1>4, <1>10 DEF Held, Bare, IsError
    <2>2. UNCHANGED state_after_last_flush
      BY <1>1, <1>4, <1>10 DEF Held
    <2>3. NothingLeft(Now)'
      BY <1>3, <2>1, <2>2 DEF NothingLeft
    <2> QED BY <1>1, <2>3 DEF NothingWithoutRing, ClientGoes
  <1>11. NoParseError'
    BY DEF IInv, NoParseError
  <1> QED BY <1>5, <1>6, <1>7, <1>8, <1>9, <1>10, <1>11 DEF IInv

-----------------------------------------------------------------------------
(* Without a ring.                                                         *)

LEMMA HelperBare ==
  ASSUME NEW s, Bare(s), NEW h \in Helpers, ~h.have_ring_buffer, h.immediate = 0,
         ~IsError(service) => h.put = s.h.put
  PROVE  Bare([s EXCEPT !.h = h]) /\ [s EXCEPT !.h = h].h = h
  <1> DEFINE t == [s EXCEPT !.h = h]
  <1>1. /\ t \in Buffers /\ t.h = h
        /\ t.entries = s.entries /\ t.tasks = s.tasks /\ t.last_put = s.last_put
    BY DEF Bare, Buffers
  <1> HIDE DEF t
  <1>2. Bare(t)
    BY <1>1 DEF Bare, FirstIsRun, NothingLeft
  <1> QED BY <1>1, <1>2 DEF t

LEMMA QueueFlushBare ==
  ASSUME NEW s, Bare(s), s.h.put \in Offsets, NEW put, put = s.h.put
  PROVE  Bare(QueueFlush(s, put)) /\ QueueFlush(s, put).h = s.h
  <1> DEFINE new == [kind |-> "flush", put |-> put]
             queue == Append(s.tasks, new)
             t == [s EXCEPT !.tasks = queue, !.last_put = put]
  <1>1. CASE IsError(last_state) \/ s.last_put = put
    BY <1>1 DEF QueueFlush
  <1>2. CASE ~(IsError(last_state) \/ s.last_put = put)
    <2>1. QueueFlush(s, put) = t
      BY <1>2 DEF QueueFlush
    <2>2. s \in Buffers /\ s.tasks \in Seq(Tasks)
      BY DEF Bare, Buffers
    <2>3. new \in Tasks /\ new.kind = "flush"
      BY DEF Tasks
    <2> HIDE DEF new
    <2>4. queue \in Seq(Tasks)
      BY <2>2, <2>3
    <2>5. /\ Len(s.tasks) \in Nat /\ DOMAIN s.tasks = 1 .. Len(s.tasks)
          /\ DOMAIN queue = 1 .. Len(s.tasks) + 1
          /\ \A i \in 1 .. Len(s.tasks) : queue[i] = s.tasks[i]
          /\ queue[Len(s.tasks) + 1] = new
          /\ queue # <<>>
      BY <2>2, <2>3
    <2>6. s.tasks # <<>> => 1 \in 1 .. Len(s.tasks)
      BY <2>2
    <2> HIDE DEF queue
    <2>7. t \in Buffers /\ t.h = s.h /\ t.tasks = queue
      BY <2>2, <2>4 DEF Buffers
    <2> HIDE DEF t
    <2>8. IsError(service)
      BY <1>2 DEF Bare, NothingLeft
    <2>9. \A i \in DOMAIN queue : queue[i].kind # "set_get_buffer"
      <3> SUFFICES ASSUME NEW i \in DOMAIN queue
                   PROVE  queue[i].kind # "set_get_buffer"
        OBVIOUS
      <3>1. i \in 1 .. Len(s.tasks) \/ i = Len(s.tasks) + 1
        BY <2>5
      <3> QED BY <2>3, <2>5, <3>1 DEF Bare
    <2>10. FirstIsRun(t)
      BY <2>5, <2>6, <2>7 DEF Bare, FirstIsRun
    <2> QED BY <2>1, <2>7, <2>8, <2>9, <2>10 DEF Bare
  <1> QED BY <1>1, <1>2

LEMMA CalcBare ==
  ASSUME NEW h \in Helpers, ~h.have_ring_buffer, NEW get, NEW w
  PROVE  CalcImmediateEntries(h, get, w) = [h EXCEPT !.immediate = 0]
  BY DEF CalcImmediateEntries

LEMMA FlushBare ==
  ASSUME NEW s, Bare(s)
  PROVE  /\ LET f == FlushHelper(s)
            IN Bare(f) /\ f.h.put < total_entry_count /\ f.h.token = s.h.token
         /\ Bare(OrderingBarrierHelper(s))
  <1> DEFINE h == WrapPut(s.h)
             w == [s EXCEPT !.h = h]
             q == QueueFlush(w, h.put)
             sent == [h EXCEPT !.last_put_sent = h.put]
             c == [sent EXCEPT !.immediate = 0]
             d == [h EXCEPT !.immediate = 0]
  <1>1. s \in Buffers /\ s.h \in Helpers /\ ~s.h.have_ring_buffer /\ s.h.immediate = 0
    BY DEF Bare, Buffers
  <1>2. /\ h \in Helpers /\ h.put \in Offsets /\ h.put < total_entry_count
        /\ ~h.have_ring_buffer /\ h.token = s.h.token
    BY <1>1, PutOffsetType, OffsetsAreNat
  <1>3. h.immediate = 0 /\ (~IsError(service) => h.put = s.h.put)
    <2>1. h.immediate = 0
      BY <1>1 DEF WrapPut, Helpers
    <2>2. ~IsError(service) => s.h.put \in Offsets
      BY DEF Bare, NothingLeft, Buffers
    <2>3. ~IsError(service) => s.h.put # total_entry_count
      BY <2>2, OffsetsAreNat, CommandBufferAssumption
    <2>4. h.put = IF s.h.put = total_entry_count THEN 0 ELSE s.h.put
      BY <1>1, PutOffsetType
    <2> QED BY <2>1, <2>3, <2>4
  <1> HIDE DEF h
  <1>4. /\ sent \in Helpers /\ ~sent.have_ring_buffer
        /\ c \in Helpers /\ c.put = h.put /\ c.token = h.token
        /\ ~c.have_ring_buffer /\ c.immediate = 0
        /\ d \in Helpers /\ d.put = h.put /\ ~d.have_ring_buffer /\ d.immediate = 0
    <2>1. 0 \in 0 .. total_entry_count
      BY CommandBufferAssumption
    <2>2. /\ sent \in Helpers /\ ~sent.have_ring_buffer
          /\ sent.put = h.put /\ sent.token = h.token
      BY <1>2 DEF Helpers
    <2>3. d \in Helpers /\ d.put = h.put /\ ~d.have_ring_buffer /\ d.immediate = 0
      BY <1>2, <2>1 DEF Helpers
    <2> HIDE DEF sent
    <2>4. /\ c \in Helpers /\ c.put = sent.put /\ c.token = sent.token
          /\ ~c.have_ring_buffer /\ c.immediate = 0
      BY <2>1, <2>2 DEF Helpers
    <2> QED BY <2>2, <2>3, <2>4
  <1>5. /\ CalcImmediateEntries(sent, last_state.get_offset, 0) = c
        /\ CalcImmediateEntries(h, last_state.get_offset, 0) = d
    <2> HIDE DEF sent
    <2> QED BY <1>2, <1>4, CalcBare
  <1>6. Bare(w) /\ w.h = h
    BY <1>2, <1>3, HelperBare
  <1>7. Bare(q) /\ q.h = h
    BY <1>2, <1>6, QueueFlushBare
  <1>8. /\ FlushHelper(s) = [q EXCEPT !.h = c]
        /\ OrderingBarrierHelper(s) = [q EXCEPT !.h = d]
    <2>1. /\ FlushHelper(s) = [QueueFlush(s, h.put) EXCEPT !.h = c]
          /\ OrderingBarrierHelper(s) = [QueueFlush(s, h.put) EXCEPT !.h = d]
      BY <1>5 DEF FlushHelper, OrderingBarrierHelper, h
    <2> HIDE DEF c, d
    <2> QED BY <1>1, <2>1, QueueFlushReplaced
  <1> HIDE DEF q, c, d
  <1>9. /\ Bare([q EXCEPT !.h = c]) /\ [q EXCEPT !.h = c].h = c
        /\ Bare([q EXCEPT !.h = d])
    BY <1>3, <1>4, <1>7, HelperBare
  <1> QED BY <1>2, <1>4, <1>8, <1>9

\* AllocateRingBuffer queues the last task.
LEMMA AllocateKeeps ==
  ASSUME IInv, NEW s, Bare(s), NEW cmd \in Commands, GetSpace(s, cmd),
         UNCHANGED <<last_state, state_after_last_flush, flush_event, gpu_vars>>
  PROVE  IInv'
  <1> USE DEF gpu_vars
  <1> DEFINE new == [kind |-> "set_get_buffer", put |-> 0]
             queue == Append(s.tasks, new)
             t == [s EXCEPT !.tasks = queue]
             n == Len(s.tasks)
  <1>1. s \in Buffers /\ s.tasks \in Seq(Tasks) /\ ~s.h.have_ring_buffer /\ s.h.immediate = 0
    BY DEF Bare, Buffers
  <1>2. /\ Put(t) /\ client' = At("set_get_buffer", cmd)
        /\ UNCHANGED <<transfer, dropped>>
    <2>1. ~(cmd.size =< s.h.immediate)
      BY <1>1, SizesAreNat
    <2> QED BY <1>1, <2>1 DEF GetSpace
  <1>3. new \in Tasks /\ new.kind = "set_get_buffer"
    BY CommandBufferAssumption DEF Tasks, Offsets
  <1> HIDE DEF new
  <1>4. queue \in Seq(Tasks)
    BY <1>1, <1>3
  <1>5. /\ n \in Nat /\ DOMAIN s.tasks = 1 .. n
        /\ DOMAIN queue = 1 .. n + 1 /\ Len(queue) = n + 1
        /\ \A i \in 1 .. n : queue[i] = s.tasks[i]
        /\ queue[n + 1] = new
        /\ queue # <<>>
        /\ s.tasks # <<>> => 1 \in 1 .. n
    BY <1>1, <1>3
  <1> HIDE DEF queue, n
  <1>6. /\ t \in Buffers /\ t.h = s.h /\ t.entries = s.entries
        /\ t.tasks = queue /\ t.last_put = s.last_put
    BY <1>1, <1>4 DEF Buffers
  <1> HIDE DEF t
  <1>7. /\ helper' = s.h /\ entries' = s.entries
        /\ tasks' = queue /\ last_put_offset' = s.last_put
    BY <1>2, <1>6 DEF Put
  <1>8. ClientOK' /\ client'.pc = "set_get_buffer" /\ client'.then = "return"
    BY <1>2, ClientIs DEF ClientOK, Pcs
  <1>9. TypeOK'
    BY <1>2, <1>6, <1>7, <1>8 DEF IInv, TypeOK, Buffers, BlocksTile
  <1>10. RoomInRing'
    <2>1. s.h.put + s.h.immediate =< total_entry_count
      BY <1>1 DEF Buffers, Helpers
    <2> QED BY <1>1, <1>7, <1>8, <2>1 DEF RoomInRing
  <1>11. ErrorsArePassedOn'
    BY DEF IInv, ErrorsArePassedOn, IsError
  <1>12. \A i \in DOMAIN queue :
           \/ i \in 1 .. n /\ queue[i] = s.tasks[i] /\ queue[i].kind # "set_get_buffer"
           \/ i = n + 1 /\ queue[i].kind = "set_get_buffer"
    <2> SUFFICES ASSUME NEW i \in DOMAIN queue
                 PROVE  \/ i \in 1 .. n /\ queue[i] = s.tasks[i] /\ queue[i].kind # "set_get_buffer"
                        \/ i = n + 1 /\ queue[i].kind = "set_get_buffer"
      OBVIOUS
    <2>1. i \in 1 .. n \/ i = n + 1
      BY <1>5
    <2> QED BY <1>3, <1>5, <2>1 DEF Bare
  <1>13. TasksFollow'
    BY <1>1, <1>5, <1>7, <1>8, <1>12 DEF TasksFollow, Bare, FirstIsRun
  <1>14. ASSUME ~IsError(service)'
         PROVE  NothingWithoutRing'
    <2>1. NothingLeft(s)
      BY <1>14 DEF Bare, IsError
    <2>2. /\ Now'.h = s.h /\ Now'.tasks = queue /\ Now'.last_put = s.last_put
      BY <1>7 DEF Now
    <2>3. \A i \in DOMAIN queue : queue[i].kind = "flush" => i = 1 /\ gpu_pc # "idle"
      BY <1>5, <1>12, <2>1 DEF NothingLeft
    <2>4. NothingLeft(Now)'
      BY <2>1, <2>2, <2>3 DEF NothingLeft
    <2> QED BY <1>8, <2>4 DEF NothingWithoutRing
  <1>15. NoParseError'
    BY DEF IInv, NoParseError
  <1> QED BY <1>1, <1>7, <1>9, <1>10, <1>11, <1>13, <1>14, <1>15 DEF IInv

-----------------------------------------------------------------------------
(* The client reads the state that was published.                          *)

\* The flushes lie between the service's get and the last put.
LEMMA FlushesAreAhead ==
  ASSUME NEW s, Held(s), Known, OffsetsInOrder(s)
  PROVE  LET from(x) == Ahead(last_state.get_offset, x)
         IN \A i \in DOMAIN s.tasks :
              /\ s.tasks[i].put \in Offsets
              /\ from(service.get_offset) =< from(s.tasks[i].put)
              /\ from(s.tasks[i].put) =< from(s.last_put)
              /\ i # 1 => from(s.tasks[1].put) < from(s.tasks[i].put)
  <1> DEFINE from(x) == Ahead(last_state.get_offset, x)
             get == service.get_offset
             n == Len(s.tasks)
  <1> SUFFICES ASSUME NEW i \in DOMAIN s.tasks
               PROVE  /\ s.tasks[i].put \in Offsets
                      /\ from(get) =< from(s.tasks[i].put)
                      /\ from(s.tasks[i].put) =< from(s.last_put)
                      /\ i # 1 => from(s.tasks[1].put) < from(s.tasks[i].put)
    OBVIOUS
  <1>1. s.tasks \in Seq(Tasks) /\ s.last_put \in Offsets
    BY DEF Held, Buffers
  <1>2. /\ n \in Nat /\ DOMAIN s.tasks = 1 .. n
        /\ i \in 1 .. n /\ 1 \in 1 .. n /\ n \in 1 .. n /\ s.tasks # <<>>
    <2>1. n \in Nat /\ DOMAIN s.tasks = 1 .. n /\ (s.tasks = <<>> => n = 0)
      BY <1>1
    <2> HIDE DEF n
    <2>2. i \in 1 .. n
      BY <2>1
    <2> QED BY <2>1, <2>2
  <1>3. \A j \in 1 .. n : s.tasks[j].put \in Offsets
    <2>1. \A j \in 1 .. n : s.tasks[j] \in Tasks
      BY <1>1
    <2> QED BY <2>1 DEF Tasks
  <1>4. last_state.get_offset \in Offsets /\ get \in Offsets
    BY DEF Known, States
  <1>5. /\ from(get) \in Nat /\ from(s.last_put) \in Nat
        /\ \A j \in 1 .. n : from(s.tasks[j].put) \in Nat
    <2>1. \A x \in Offsets : from(x) \in Nat
      BY <1>4, AheadType, OffsetsAreNat
    <2> HIDE DEF from
    <2> QED BY <1>1, <1>3, <1>4, <2>1
  <1>6. /\ \A j, k \in 1 .. n : j < k => from(s.tasks[j].put) < from(s.tasks[k].put)
        /\ s.last_put = s.tasks[n].put
        /\ IF gpu_pc \in {"publish", "signal"} THEN put_offset = get
           ELSE from(get) < from(s.tasks[1].put)
    BY <1>2 DEF OffsetsInOrder
  <1>7. from(get) =< from(s.tasks[1].put)
    <2>1. CASE gpu_pc \in {"publish", "signal"}
      <3>1. s.tasks[1].put = get
        BY <1>6, <2>1 DEF Held, FlushesWait, FirstIsRun
      <3> HIDE DEF from
      <3> QED BY <1>5, <3>1
    <2>2. CASE gpu_pc \notin {"publish", "signal"}
      <3> HIDE DEF from
      <3> QED BY <1>2, <1>5, <1>6, <2>2
    <2> QED BY <2>1, <2>2
  <1> HIDE DEF from, n
  <1>8. i # 1 => from(s.tasks[1].put) < from(s.tasks[i].put)
    BY <1>2, <1>6
  <1>9. i # n => from(s.tasks[i].put) < from(s.tasks[n].put)
    BY <1>2, <1>6
  <1>10. from(s.tasks[i].put) =< from(s.last_put)
    BY <1>2, <1>5, <1>6, <1>9
  <1>11. from(get) =< from(s.tasks[i].put)
    BY <1>2, <1>5, <1>7, <1>8
  <1> QED BY <1>2, <1>3, <1>8, <1>10, <1>11

LEMMA StateIsRead ==
  ASSUME IInv, last_state' = state_after_last_flush,
         UNCHANGED <<entries, helper, tasks, last_put_offset, dropped,
                     state_after_last_flush, flush_event, gpu_vars>>,
         ClientOK', BlocksTile(transfer)',
         {client.pc, client.pc'} \cap {"set_get_buffer", "get_buffer_set"} = {},
         client.then' = client.then,
         client.then = "wrap" =>
           /\ client.start' = client.start /\ client.end' = client.end
           /\ client.pc' = "return" =>
                \/ state_after_last_flush.get_offset \in 1 .. helper.put
                \/ IsError(service)
  PROVE  IInv'
  <1> USE DEF gpu_vars
  <1> DEFINE L == last_state.get_offset
             S == state_after_last_flush.get_offset
             get == service.get_offset
             from(x) == Ahead(L, x)
  <1>1. /\ Known /\ Now \in Buffers /\ Now.h = helper /\ Now.tasks = tasks
        /\ Now.last_put = last_put_offset
        /\ helper.have_ring_buffer => Held(Now)
    BY InvariantIsHeld DEF Now
  <1>2. /\ Now'.h = Now.h /\ Now'.entries = Now.entries
        /\ Now'.tasks = Now.tasks /\ Now'.last_put = Now.last_put
    BY DEF Now
  <1>3. TypeOK'
    BY DEF IInv, TypeOK, BlocksTile, ClientOK
  <1>4. RoomInRing'
    BY DEF IInv, RoomInRing
  <1>5. ErrorsArePassedOn'
    BY DEF IInv, ErrorsArePassedOn, IsError
  <1>6. TasksFollow'
    BY DEF IInv, TasksFollow
  <1>7. L \in Offsets /\ S \in Offsets /\ get \in Offsets
    BY <1>1 DEF Known, States
  <1>8. \A x \in Offsets : from(x) \in Nat
    BY <1>7, AheadType, OffsetsAreNat
  <1>9. ASSUME ~IsError(service), helper.have_ring_buffer
        PROVE  /\ PublishedInOrder' /\ OffsetsInOrder(Now)' /\ RoomIsFree(helper)'
               /\ RingIsTiled(Now)' /\ WrapWaitsForStart'
    <2>1. /\ from(S) =< from(get) /\ OffsetsInOrder(Now) /\ RoomIsFree(helper)
          /\ RingIsTiled(Now) /\ WrapWaitsForStart
      BY <1>9 DEF IInv, PublishedInOrder
    <2>2. Held(Now)
      BY <1>1, <1>9
    <2> DEFINE P == PutOffset(helper)
               lp == last_put_offset
    <2>3. P \in Offsets /\ lp \in Offsets
      BY PutOffsetType DEF IInv, TypeOK
    <2>4. from(get) =< from(lp) /\ from(lp) =< from(P)
      BY <1>1, <2>1 DEF OffsetsInOrder
    <2>5. ASSUME NEW x \in Offsets, from(S) =< from(x)
          PROVE  Ahead(S, x) = from(x) - from(S)
      BY <1>7, <2>5, AheadFrom
    <2>6. from(S) =< from(lp) /\ from(S) =< from(P)
      <3>1. from(S) \in Nat /\ from(get) \in Nat /\ from(lp) \in Nat /\ from(P) \in Nat
        BY <1>7, <1>8, <2>3
      <3> HIDE DEF from, P, lp
      <3> QED BY <2>1, <2>4, <3>1
    <2>7. /\ Ahead(S, get) = from(get) - from(S)
          /\ Ahead(S, lp) = from(lp) - from(S)
          /\ Ahead(S, P) = from(P) - from(S)
      BY <1>7, <2>1, <2>3, <2>5, <2>6
    <2>8. \A i \in DOMAIN tasks :
            /\ tasks[i].put \in Offsets
            /\ from(get) =< from(tasks[i].put)
      BY <1>1, <2>1, <2>2, FlushesAreAhead
    <2>9. \A i \in DOMAIN tasks : Ahead(S, tasks[i].put) = from(tasks[i].put) - from(S)
      <3> SUFFICES ASSUME NEW i \in DOMAIN tasks
                   PROVE  Ahead(S, tasks[i].put) = from(tasks[i].put) - from(S)
        OBVIOUS
      <3> DEFINE x == tasks[i].put
      <3>1. x \in Offsets /\ from(get) =< from(x)
        BY <2>8
      <3>2. from(S) \in Nat /\ from(get) \in Nat /\ from(x) \in Nat
        BY <1>7, <1>8, <3>1
      <3>3. from(S) =< from(x)
        <4> HIDE DEF from, x
        <4> QED BY <2>1, <3>1, <3>2
      <3> QED BY <2>5, <3>1, <3>3
    <2>10. OffsetsInOrder(Now)'
      <3> DEFINE to(x) == Ahead(S, x)
      <3>1. /\ from(S) \in Nat /\ from(get) \in Nat /\ from(lp) \in Nat /\ from(P) \in Nat
            /\ \A i \in DOMAIN tasks : from(tasks[i].put) \in Nat
        BY <1>7, <1>8, <2>3, <2>8
      <3>2. /\ Now.last_put = IF tasks = <<>> THEN get ELSE tasks[Len(tasks)].put
            /\ IF gpu_pc \in {"publish", "signal"} THEN put_offset = get
               ELSE tasks # <<>> => from(get) < from(tasks[1].put)
            /\ \A i, j \in DOMAIN tasks : i < j => from(tasks[i].put) < from(tasks[j].put)
            /\ helper.put = total_entry_count => Now.last_put # 0
        BY <1>1, <2>1 DEF OffsetsInOrder
      <3>3. tasks # <<>> => 1 \in DOMAIN tasks
        BY DEF IInv, TypeOK
      <3> HIDE DEF from, P, lp
      <3>4. to(get) =< to(lp) /\ to(lp) =< to(P)
        BY <2>4, <2>7, <3>1
      <3>5. \A i, j \in DOMAIN tasks : i < j => to(tasks[i].put) < to(tasks[j].put)
        BY <2>9, <3>1, <3>2
      <3>6. from(get) < from(tasks[1].put) /\ tasks # <<>> => to(get) < to(tasks[1].put)
        BY <2>7, <2>9, <3>1, <3>3
      <3>7. /\ to(get) =< to(lp) /\ to(lp) =< to(P)
            /\ Now.last_put = IF tasks = <<>> THEN get ELSE tasks[Len(tasks)].put
            /\ IF gpu_pc \in {"publish", "signal"} THEN put_offset = get
               ELSE tasks # <<>> => to(get) < to(tasks[1].put)
            /\ \A i, j \in DOMAIN tasks : i < j => to(tasks[i].put) < to(tasks[j].put)
            /\ helper.put = total_entry_count => Now.last_put # 0
        BY <3>2, <3>4, <3>5, <3>6
      <3> QED BY <1>1, <1>2, <3>7 DEF OffsetsInOrder, PutOffset, WrapPut, Ahead, P, lp
    <2>11. PublishedInOrder'
      <3>1. Ahead(S, S) = 0 /\ Ahead(S, get) \in Nat
        BY <1>7, AheadType, OffsetsAreNat
      <3>2. Ahead(S, S) =< Ahead(S, get)
        <4> HIDE DEF S, get
        <4> QED BY <3>1
      <3> QED BY <3>2 DEF PublishedInOrder, Ahead
    <2>12. RoomIsFree(helper)'
      <3>1. from(S) \in Nat /\ from(P) \in Nat /\ helper.immediate \in Nat
        BY <1>7, <1>8, <2>3 DEF IInv, TypeOK, Helpers
      <3>2. from(P) + helper.immediate < total_entry_count
        BY <2>1 DEF RoomIsFree
      <3>3. Ahead(S, P) + helper.immediate < total_entry_count
        <4> HIDE DEF from, P
        <4> QED BY <2>7, <3>1, <3>2, CommandBufferAssumption
      <3> QED BY <3>3 DEF RoomIsFree, PutOffset, WrapPut, Ahead
    <2>13. RingIsTiled(Now)'
      BY <1>2, <2>1 DEF RingIsTiled, CommandsTile, Tiles, Edge, OffsetAfter, PutOffset, WrapPut,
                        Ahead
    <2>14. WrapWaitsForStart'
      BY <1>9, <2>1 DEF WrapWaitsForStart, IInv, ErrorsArePassedOn
    <2> QED BY <2>10, <2>11, <2>12, <2>13, <2>14
  <1>10. ASSUME ~IsError(service), ~helper.have_ring_buffer
         PROVE  NothingWithoutRing'
    <2>1. NothingLeft(Now)
      BY <1>10 DEF IInv, NothingWithoutRing
    <2>2. NothingLeft(Now)'
      BY <1>2, <2>1 DEF NothingLeft
    <2> QED BY <2>2 DEF NothingWithoutRing
  <1>11. NoParseError'
    BY DEF IInv, NoParseError
  <1>12. IsError(service)' <=> IsError(service)
    BY DEF IsError
  <1> QED BY <1>3, <1>4, <1>5, <1>6, <1>9, <1>10, <1>11, <1>12 DEF IInv

-----------------------------------------------------------------------------
(* The steps of the client's thread.                                       *)

\* A step that leaves the helper, the ring and the tasks alone.
LEMMA StaysKeeps ==
  ASSUME IInv, ClientGoes(Now), BlocksTile(transfer)', dropped' \in BOOLEAN,
         client.pc \notin {"set_get_buffer", "get_buffer_set"},
         UNCHANGED <<entries, helper, tasks, last_put_offset, last_state, 
                     state_after_last_flush, gpu_vars>>,
         flush_event' \in BOOLEAN
  PROVE  IInv'
  <1>1. Put(Now)
    BY DEF Put, Now
  <1>2. (Held(Now) /\ Room(Now.h)) \/ Bare(Now)
    BY InvariantIsHeld
  <1>3. Leaves
    BY <1>1, <1>2 DEF Leaves
  <1> QED BY <1>3, LeavesKeeps

LEMMA CanCallIs ==
  ASSUME IInv, CanCall
  PROVE  /\ client.pc = "ready" /\ client.then = "return"
         /\ BlocksTile(transfer) /\ dropped \in BOOLEAN /\ flush_event \in BOOLEAN
         /\ Known
         /\ Now \in Buffers /\ Now.h = helper
         /\ helper.have_ring_buffer => Held(Now) /\ Room(helper)
         /\ ~helper.have_ring_buffer => Bare(Now)
  BY InvariantIsHeld DEF CanCall, IInv, TypeOK, ClientOK

\* A command goes through with a ring, or allocates one.
LEMMA GetSpaceKeeps ==
  ASSUME IInv, NEW s, (Held(s) /\ Room(s.h)) \/ Bare(s), NEW cmd \in Commands, GetSpace(s, cmd),
         client.pc # "get_buffer_set", 
         UNCHANGED <<last_state, state_after_last_flush, flush_event, gpu_vars>>
  PROVE  IInv'
  <1>1. Known /\ BlocksTile(transfer) /\ dropped \in BOOLEAN /\ flush_event' \in BOOLEAN
    BY InvariantIsHeld DEF IInv, TypeOK
  <1>2. CASE Held(s) /\ Room(s.h)
    <2>1. LeavesHeld
      BY <1>1, <1>2, GetSpaceLeaves
    <2> QED BY <1>1, <2>1, LeavesKeeps
  <1>3. CASE Bare(s)
    BY <1>3, AllocateKeeps
  <1> QED BY <1>2, <1>3

LEMMA IssueKeeps == IInv /\ Issue => IInv'
  <1> SUFFICES ASSUME IInv, Issue
               PROVE  IInv'
    OBVIOUS
  <1>1. CanCall
    BY DEF Issue
  <1>2. PICK cmd \in Commands : GetSpace(Now, cmd)
    BY DEF Issue
  <1> QED BY <1>1, <1>2, CanCallIs, GetSpaceKeeps DEF Issue

LEMMA ReleaseKeeps == IInv /\ Release => IInv'
  <1> SUFFICES ASSUME IInv, Release
               PROVE  IInv'
    OBVIOUS
  <1> DEFINE token == (helper.token + 1) % TokenLimit
             h == [helper EXCEPT !.token = token]
             s == [Now EXCEPT !.h = h]
             cmd == Cmd("set_token", TokenSize, token)
  <1>1. CanCall
    BY DEF Release
  <1>2. Now \in Buffers /\ Now.h = helper /\ helper \in Helpers
    BY <1>1, CanCallIs DEF Buffers
  <1>3. token \in Tokens
    <2>1. helper.token + 1 \in Int
      BY <1>2, CommandBufferAssumption DEF Helpers, Tokens
    <2>2. TokenLimit \in Nat \ {0}
      BY CommandBufferAssumption
    <2> QED BY <2>1, <2>2, ModRange DEF Tokens
  <1> HIDE DEF token
  <1>4. cmd \in Commands
    BY <1>3 DEF Commands, Cmd
  <1>5. /\ h \in Helpers /\ h.put = helper.put /\ h.immediate = helper.immediate
        /\ h.have_ring_buffer = helper.have_ring_buffer
    BY <1>2, <1>3 DEF Helpers
  <1>6. GetSpace(s, cmd)
    <2>1. GetSpace([Now EXCEPT !.h.token = token], cmd)
      BY DEF Release, token
    <2>2. [Now EXCEPT !.h.token = token] = s
      BY <1>2 DEF Buffers
    <2> QED BY <2>1, <2>2
  <1> HIDE DEF cmd, h
  <1>7. PutOffset(h) = PutOffset(helper)
    BY <1>2, <1>5, PutOffsetType
  <1>8. s.h = h
    BY <1>2 DEF Buffers
  <1>9. (Held(s) /\ Room(s.h)) \/ Bare(s)
    <2>1. CASE helper.have_ring_buffer
      <3>1. Held(Now) /\ Room(helper)
        BY <1>1, <2>1, CanCallIs
      <3>2. Held(s)
        BY <1>2, <1>5, <1>7, <2>1, <3>1, HelperChanges
      <3>3. Room(h)
        BY <1>5, <1>7, <3>1 DEF Room, RoomIsFree
      <3> QED BY <1>8, <3>2, <3>3
    <2>2. CASE ~helper.have_ring_buffer
      <3>1. Bare(Now) /\ helper.immediate = 0
        BY <1>1, <1>2, <2>2, CanCallIs DEF Bare
      <3> QED BY <1>2, <1>5, <2>2, <3>1, HelperBare
    <2> QED BY <2>1, <2>2
  <1> HIDE DEF s
  <1> QED BY <1>1, <1>4, <1>6, <1>9, CanCallIs, GetSpaceKeeps DEF Release

LEMMA FlushKeeps == IInv /\ Flush => IInv'
  <1> SUFFICES ASSUME IInv, Flush
               PROVE  IInv'
    OBVIOUS
  <1> DEFINE f == FlushHelper(Now)
  <1>1. CanCall
    BY DEF Flush
  <1>2. (Held(f) /\ Room(f.h)) \/ Bare(f)
    BY <1>1, CanCallIs, FlushHeld, FlushBare
  <1>3. ClientGoes(f)
    BY <1>1, CanCallIs DEF Flush, ClientGoes, IInv, TypeOK, ClientOK
  <1>4. Leaves
    BY <1>1, <1>2, <1>3, CanCallIs DEF Flush, Leaves, BlocksTile
  <1> QED BY <1>1, <1>4, CanCallIs, LeavesKeeps DEF Flush

LEMMA OrderingBarrierKeeps == IInv /\ OrderingBarrier => IInv'
  <1> SUFFICES ASSUME IInv, OrderingBarrier
               PROVE  IInv'
    OBVIOUS
  <1> DEFINE f == OrderingBarrierHelper(Now)
  <1>1. CanCall
    BY DEF OrderingBarrier
  <1>2. (Held(f) /\ Room(f.h)) \/ Bare(f)
    BY <1>1, CanCallIs, BarrierHeld, FlushBare
  <1>3. ClientGoes(f)
    BY <1>1, CanCallIs DEF OrderingBarrier, ClientGoes, IInv, TypeOK, ClientOK
  <1>4. Leaves
    BY <1>1, <1>2, <1>3, CanCallIs DEF OrderingBarrier, Leaves, BlocksTile
  <1> QED BY <1>1, <1>4, CanCallIs, LeavesKeeps DEF OrderingBarrier

LEMMA FinishKeeps == IInv /\ Finish => IInv'
  <1> SUFFICES ASSUME IInv, Finish
               PROVE  IInv'
    OBVIOUS
  <1>1. CanCall
    BY DEF Finish
  <1>2. Cmd("finish", 0, 0) \in Calls
    BY DEF Calls
  <1>3. ClientGoes(Now)
    BY <1>2, FinishGoes DEF Finish
  <1> QED BY <1>1, <1>3, CanCallIs, StaysKeeps DEF Finish, BlocksTile

\* Where Finish was called by InsertToken, the block is given back.
LEMMA AfterFinishGoes ==
  ASSUME IInv, NEW cmd \in Calls, AfterFinish(cmd)
  PROVE  client' = Ready /\ BlocksTile(transfer)'
  <1>1. client' = Ready
    BY DEF AfterFinish
  <1>2. BlocksTile(transfer)
    BY DEF IInv, TypeOK
  <1>3. CASE cmd.op # "set_token"
    BY <1>1, <1>2, <1>3 DEF AfterFinish, BlocksTile
  <1>4. CASE cmd.op = "set_token"
    <2>1. cmd \in Commands
      BY <1>4 DEF Calls, Cmd
    <2>2. transfer' = FreePendingToken(transfer, cmd.arg)
      BY <1>4 DEF AfterFinish
    <2>3. BlocksTile(transfer')
      BY <1>2, <2>1, <2>2, ClientIs, FreePendingTile
    <2> QED BY <1>1, <2>3 DEF BlocksTile
  <1> QED BY <1>3, <1>4

LEMMA FinishHelperKeeps == IInv /\ FinishHelper => IInv'
  <1> SUFFICES ASSUME IInv, FinishHelper
               PROVE  IInv'
    OBVIOUS
  <1>1. /\ client.pc = "finish" /\ client.then = "return"
        /\ BlocksTile(transfer) /\ dropped \in BOOLEAN /\ flush_event \in BOOLEAN
        /\ client.cmd \in Calls \cup {Idle} /\ Known
        /\ helper.have_ring_buffer => Held(Now)
        /\ ~helper.have_ring_buffer => Bare(Now)
    BY InvariantIsHeld DEF FinishHelper, IInv, TypeOK, ClientOK
  <1>2. CASE helper.put = last_state.get_offset
    <2>1. AfterFinish(client.cmd) /\ UNCHANGED <<entries, helper, tasks, last_put_offset>>
      BY <1>2 DEF FinishHelper
    <2>2. client' = Ready /\ BlocksTile(transfer)'
      <3>1. CASE client.cmd \in Calls
        BY <2>1, <3>1, AfterFinishGoes
      <3>2. CASE client.cmd = Idle
        BY <1>1, <2>1, <3>2 DEF AfterFinish, Idle, Cmd, BlocksTile
      <3> QED BY <1>1, <3>1, <3>2
    <2>3. ClientGoes(Now)
      BY <2>2, ReadyGoes
    <2> QED BY <1>1, <2>1, <2>2, <2>3, StaysKeeps DEF FinishHelper
  <1>3. CASE helper.put # last_state.get_offset
    <2> DEFINE f == FlushHelper(Now)
    <2>1. /\ Put(f) /\ UNCHANGED <<transfer, dropped>>
          /\ client' = Wait("poll", client.cmd, f.h.put, f.h.put, "finish")
      BY <1>3 DEF FinishHelper, Put
    <2>2. ((Held(f) /\ Room(f.h)) \/ Bare(f)) /\ f.h.put < total_entry_count
      BY <1>1, FlushHeld, FlushBare
    <2> HIDE DEF f
    <2>3. f.h.put \in Nat
      BY <2>2 DEF Held, Bare, Buffers, Helpers
    <2>4. ClientGoes(f)
      BY <1>1, <2>1, <2>2, <2>3 DEF ClientGoes, ClientOK, Wait, Pcs
    <2>5. Leaves
      BY <1>1, <2>1, <2>2, <2>4 DEF Leaves, BlocksTile
    <2> QED BY <1>1, <2>5, LeavesKeeps DEF FinishHelper
  <1> QED BY <1>2, <1>3

LEMMA AllocKeeps == IInv /\ Alloc => IInv'
  <1> SUFFICES ASSUME IInv, Alloc
               PROVE  IInv'
    OBVIOUS
  <1>1. CanCall
    BY DEF Alloc
  <1>2. PICK size \in BlockSizes : client' = At("alloc", Cmd("alloc", size, 0))
    BY DEF Alloc
  <1>3. Cmd("alloc", size, 0) \in Calls /\ Cmd("alloc", size, 0).op = "alloc"
    BY DEF Calls, Cmd
  <1>4. ClientGoes(Now)
    BY <1>2, <1>3, ClientIs DEF ClientGoes, ClientOK, Pcs
  <1> QED BY <1>1, <1>4, CanCallIs, StaysKeeps DEF Alloc, BlocksTile

LEMMA AllocRoundKeeps == IInv /\ AllocRound => IInv'
  <1> SUFFICES ASSUME IInv, AllocRound
               PROVE  IInv'
    OBVIOUS
  <1> DEFINE freed == FreePassed(transfer, state_after_last_flush.token)
             n == client.cmd.size
  <1>1. /\ client.pc = "alloc" /\ client.then = "return" /\ client.cmd.op = "alloc"
        /\ BlocksTile(transfer) /\ ClientOK
    BY DEF AllocRound, IInv, TypeOK, ClientOK
  <1>2. n \in 1 .. Size
    <2>1. client.cmd \in Calls
      BY <1>1 DEF ClientOK, Idle, Cmd
    <2>2. client.cmd \in [op : {"alloc"}, size : BlockSizes, arg : {0}]
      <3>1. client.cmd \notin Commands
        BY <1>1, ClientIs
      <3> QED BY <1>1, <2>1, <3>1 DEF Calls, Cmd
    <2> QED BY <2>2, CommandBufferAssumption
  <1>3. BlocksTile(freed)
    BY <1>1, FreePassedTile
  <1> HIDE DEF freed, n
  <1>4. CASE n =< LargestFree(freed)
    <2>1. transfer' = Allocate(freed, n) /\ client' = Ready
      BY <1>4 DEF AllocRound, freed, n
    <2>2. BlocksTile(transfer')
      BY <1>2, <1>3, <1>4, <2>1, AllocateTile
    <2>3. ClientOK' /\ client'.pc = "ready" /\ client'.then = "return"
      BY <2>1, ClientIs DEF ClientOK, Pcs
    <2>4. UNCHANGED <<entries, helper, tasks, last_put_offset>>
      BY <1>4 DEF AllocRound, freed, n
    <2> QED BY <1>1, <2>2, <2>3, <2>4, StateIsRead DEF AllocRound, BlocksTile
  <1>5. CASE ~(n =< LargestFree(freed))
    <2> DEFINE token == Head(freed.blocks).token
    <2>1. freed.blocks # <<>> /\ Head(freed.blocks) \in Blocks
      BY <1>2, <1>3, <1>5, RoomOrBlocks
    <2>2. token \in Nat
      BY <2>1 DEF Blocks
    <2>3. UNCHANGED <<entries, helper, tasks, last_put_offset>>
      BY <1>5 DEF AllocRound, freed, n
    <2>4. \/ transfer' = FreeOldest(freed) /\ client' = client
          \/ /\ transfer' = freed
             /\ client' = [client EXCEPT !.pc = "flush_token", !.start = token]
      BY <1>5 DEF AllocRound, freed, n
    <2>5. BlocksTile(transfer')
      BY <1>3, <2>1, <2>4, FreeOldestTile
    <2>6. ClientOK' /\ client'.pc \in {"alloc", "flush_token"} /\ client'.then = "return"
      <3>1. CASE client' = client
        BY <1>1, <3>1 DEF ClientOK
      <3>2. CASE /\ transfer' = freed
                 /\ client' = [client EXCEPT !.pc = "flush_token", !.start = token]
        <4> HIDE DEF token
        <4> QED BY <1>1, <2>1, <2>2, <3>2 DEF ClientOK, Pcs
      <3> QED BY <2>4, <3>1, <3>2
    <2> QED BY <1>1, <2>3, <2>5, <2>6, StateIsRead DEF AllocRound, BlocksTile
  <1> QED BY <1>4, <1>5

LEMMA FlushTokenKeeps == IInv /\ FlushToken => IInv'
  <1> SUFFICES ASSUME IInv, FlushToken
               PROVE  IInv'
    OBVIOUS
  <1> DEFINE f == FlushHelper(Now)
  <1>1. /\ client.pc = "flush_token" /\ ClientOK /\ helper.token \in Nat
        /\ BlocksTile(transfer) /\ dropped \in BOOLEAN /\ flush_event \in BOOLEAN
        /\ Known
        /\ helper.have_ring_buffer => Held(Now)
        /\ ~helper.have_ring_buffer => Bare(Now)
    BY InvariantIsHeld, CommandBufferAssumption
      DEF FlushToken, IInv, TypeOK, Helpers, Tokens
  <1>2. /\ Put(f) /\ UNCHANGED <<transfer, dropped>>
        /\ client' = Wait("poll", client.cmd, client.start, helper.token, "token")
    BY DEF FlushToken
  <1>3. (Held(f) /\ Room(f.h)) \/ Bare(f)
    BY <1>1, FlushHeld, FlushBare
  <1> HIDE DEF f
  <1>4. ClientGoes(f)
    BY <1>1, <1>2 DEF ClientGoes, ClientOK, Wait, Pcs
  <1>5. Leaves
    BY <1>1, <1>2, <1>3, <1>4 DEF Leaves, BlocksTile
  <1> QED BY <1>1, <1>5, LeavesKeeps DEF FlushToken

LEMMA DiscardBlockKeeps == IInv /\ DiscardBlock => IInv'
  <1> SUFFICES ASSUME IInv, DiscardBlock
               PROVE  IInv'
    OBVIOUS
  <1>1. CanCall /\ transfer.blocks # <<>> /\ transfer' = Discard(transfer)
    BY DEF DiscardBlock, InUse
  <1>2. BlocksTile(transfer')
    BY <1>1, CanCallIs, DiscardTile
  <1>3. ClientGoes(Now)
    BY <1>1, CanCallIs DEF DiscardBlock, ClientGoes, IInv, TypeOK, ClientOK
  <1> QED BY <1>1, <1>2, <1>3, CanCallIs, StaysKeeps DEF DiscardBlock, BlocksTile

LEMMA WokenKeeps == IInv /\ Woken => IInv'
  <1> SUFFICES ASSUME IInv, Woken
               PROVE  IInv'
    OBVIOUS
  <1>1. /\ client.pc = "wait" /\ ClientOK /\ BlocksTile(transfer) /\ dropped \in BOOLEAN
        /\ client' = [client EXCEPT !.pc = "poll"] /\ UNCHANGED <<transfer, helper>>
    BY DEF Woken, IInv, TypeOK
  <1>2. ClientOK'
    BY <1>1 DEF ClientOK, Pcs
  <1>3. /\ client'.pc = "poll" /\ client'.then = client.then
        /\ client'.start = client.start /\ client'.end = client.end
    BY <1>1 DEF ClientOK
  <1>4. Now.h = helper
    BY DEF Now
  <1>5. client.then = "wrap" /\ ~IsError(service) => WrapWaitsForStart
    BY DEF IInv, TasksFollow
  <1>6. ClientGoes(Now)
    BY <1>1, <1>2, <1>3, <1>4, <1>5
      DEF ClientGoes, IInv, RoomInRing, TasksFollow, WrapWaitsForStart
  <1> QED BY <1>1, <1>6, StaysKeeps DEF Woken, BlocksTile

LEMMA PollKeeps == IInv /\ Poll => IInv'
  <1> SUFFICES ASSUME IInv, Poll
               PROVE  IInv'
    OBVIOUS
  <1>1. /\ client.pc = "poll" /\ ClientOK /\ BlocksTile(transfer)
        /\ client' = [client EXCEPT !.pc = client'.pc] /\ client'.pc \in {"return", "wait"}
        /\ UNCHANGED transfer
    <2>1. client.pc = "poll" /\ ClientOK /\ BlocksTile(transfer) /\ UNCHANGED transfer
      BY DEF Poll, IInv, TypeOK
    <2>2. PICK pc \in {"return", "wait"} : client' = [client EXCEPT !.pc = pc]
      BY DEF Poll
    <2>3. client'.pc = pc
      BY <2>1, <2>2 DEF ClientOK
    <2> QED BY <2>1, <2>2, <2>3
  <1>2. ClientOK'
    BY <1>1 DEF ClientOK, Pcs
  <1>3. /\ client'.then = client.then
        /\ client'.start = client.start /\ client'.end = client.end
    BY <1>1 DEF ClientOK
  <1>4. ASSUME client.then = "wrap", client'.pc = "return"
        PROVE  \/ state_after_last_flush.get_offset \in 1 .. helper.put
               \/ IsError(service)
    <2> SUFFICES ASSUME ~IsError(service)
                 PROVE  state_after_last_flush.get_offset \in 1 .. helper.put
      OBVIOUS
    <2>1. client.start = 1 /\ client.end = helper.put /\ helper.put > 0 /\ helper.put \in Nat
      BY <1>4 DEF IInv, TypeOK, Helpers, TasksFollow, WrapWaitsForStart
    <2>2. ~IsError(state_after_last_flush)
      BY DEF IInv, ErrorsArePassedOn
    <2>3. InRange(1, helper.put, state_after_last_flush.get_offset)
      <3>1. client' = [client EXCEPT !.pc =
                         IF InRange(client.start, client.end, state_after_last_flush.get_offset)
                         THEN "return" ELSE "wait"]
        BY <1>4, <2>2 DEF Poll
      <3>2. client'.pc = IF InRange(client.start, client.end, state_after_last_flush.get_offset)
                         THEN "return" ELSE "wait"
        BY <1>1, <3>1 DEF ClientOK
      <3> QED BY <1>4, <2>1, <3>2
    <2>4. state_after_last_flush.get_offset \in Nat
      BY OffsetsAreNat DEF IInv, TypeOK, States
    <2> QED BY <2>1, <2>3, <2>4 DEF InRange
  <1> QED BY <1>1, <1>2, <1>3, <1>4, StateIsRead DEF Poll, BlocksTile

LEMMA WrapReturnsKeeps == IInv /\ WaitReturns /\ WrapReturns => IInv'
  <1> SUFFICES ASSUME IInv, WaitReturns, WrapReturns
               PROVE  IInv'
    OBVIOUS
  <1>1. /\ client.pc = "return" /\ client.then = "wrap" /\ client.cmd \in Commands
        /\ helper.have_ring_buffer /\ Held(Now) /\ Room(Now.h) /\ Known
        /\ BlocksTile(transfer) /\ dropped \in BOOLEAN /\ flush_event' \in BOOLEAN
        /\ Now.h = helper
    BY InvariantIsHeld DEF WaitReturns, WrapReturns, IInv, TypeOK, ClientOK, TasksFollow
  <1>2. CASE IsError(last_state)
    <2>1. Put(Now) /\ AfterCommand(client.cmd, FALSE) /\ UNCHANGED dropped
      BY <1>2 DEF WrapReturns, GivenUp
    <2>2. LeavesHeld
      BY <1>1, <2>1, AfterCommandLeaves
    <2> QED BY <1>1, <2>2, LeavesKeeps DEF WaitReturns
  <1>3. CASE ~IsError(last_state)
    <2> DEFINE filled == FillWithNoops(Now)
    <2>1. FindRoom(filled, client.cmd)
      BY <1>3 DEF WrapReturns
    <2>2. ~IsError(service) => last_state.get_offset \in 1 .. helper.put
      BY <1>1 DEF IInv, WrapWaitsForStart
    <2>3. Held(filled) /\ filled.h.put = 0
      BY <1>1, <2>2, FillHeld
    <2>4. filled.h.put < total_entry_count
      BY <2>3, CommandBufferAssumption
    <2> HIDE DEF filled
    <2>5. LeavesHeld
      BY <1>1, <2>1, <2>3, <2>4, FindRoomLeaves
    <2> QED BY <1>1, <2>5, LeavesKeeps DEF WaitReturns
  <1> QED BY <1>2, <1>3

LEMMA RoomReturnsKeeps == IInv /\ WaitReturns /\ RoomReturns => IInv'
  <1> SUFFICES ASSUME IInv, WaitReturns, RoomReturns
               PROVE  IInv'
    OBVIOUS
  <1> DEFINE cmd == client.cmd
             h == CalcImmediateEntries(helper, last_state.get_offset, cmd.size)
             s == [Now EXCEPT !.h = h]
  <1>1. /\ client.pc = "return" /\ client.then = "room" /\ cmd \in Commands
        /\ helper.have_ring_buffer /\ Held(Now) /\ Room(Now.h) /\ Known
        /\ BlocksTile(transfer) /\ dropped \in BOOLEAN /\ flush_event' \in BOOLEAN
        /\ Now.h = helper /\ helper.put < total_entry_count
    BY InvariantIsHeld DEF WaitReturns, RoomReturns, IInv, TypeOK, ClientOK, TasksFollow, RoomInRing
  <1>2. CASE IsError(last_state)
    <2>1. Put(Now) /\ AfterCommand(cmd, FALSE) /\ UNCHANGED dropped
      BY <1>2 DEF RoomReturns, GivenUp
    <2>2. LeavesHeld
      BY <1>1, <2>1, AfterCommandLeaves
    <2> QED BY <1>1, <2>2, LeavesKeeps DEF WaitReturns
  <1>3. CASE ~IsError(last_state)
    <2>1. cmd.size \in Nat
      BY <1>1, SizesAreNat
    <2>2. Held(s) /\ s.h = h /\ Room(h)
      BY <1>1, <2>1, CalcHeld
    <2>3. s = [Now EXCEPT !.h = CalcImmediateEntries(@, last_state.get_offset, cmd.size)]
      BY <1>1
    <2>4. IF cmd.size =< s.h.immediate THEN Written(s, cmd)
          ELSE Put(s) /\ AfterCommand(cmd, FALSE) /\ dropped' = TRUE
      BY <1>3, <2>3 DEF RoomReturns
    <2> HIDE DEF s, h
    <2>5. LeavesHeld
      <3>1. CASE cmd.size =< s.h.immediate
        BY <1>1, <2>2, <2>4, <3>1, WrittenLeaves
      <3>2. CASE ~(cmd.size =< s.h.immediate)
        BY <1>1, <2>2, <2>4, <3>2, AfterCommandLeaves
      <3> QED BY <3>1, <3>2
    <2> QED BY <1>1, <2>5, LeavesKeeps DEF WaitReturns
  <1> QED BY <1>2, <1>3

LEMMA FinishReturnsKeeps == IInv /\ WaitReturns /\ FinishReturns => IInv'
  <1> SUFFICES ASSUME IInv, WaitReturns, FinishReturns
               PROVE  IInv'
    OBVIOUS
  <1> DEFINE h == CalcImmediateEntries(helper, last_state.get_offset, 0)
             s == [Now EXCEPT !.h = h]
  <1>1. /\ client.pc = "return" /\ client.then = "finish" /\ client.cmd \in Calls \cup {Idle}
        /\ Now \in Buffers /\ Known /\ helper \in Helpers /\ helper.put < total_entry_count
        /\ helper.have_ring_buffer => Held(Now) /\ Room(Now.h)
        /\ ~helper.have_ring_buffer => Bare(Now)
        /\ BlocksTile(transfer) /\ dropped' \in BOOLEAN /\ flush_event' \in BOOLEAN
        /\ Now.h = helper
    BY InvariantIsHeld
      DEF WaitReturns, FinishReturns, IInv, TypeOK, ClientOK, RoomInRing
  <1>2. client' = Ready /\ BlocksTile(transfer)'
    <2>1. CASE client.cmd \in Calls
      BY <2>1, AfterFinishGoes DEF FinishReturns
    <2>2. CASE client.cmd = Idle
      BY <1>1, <2>2 DEF FinishReturns, AfterFinish, Idle, Cmd, BlocksTile
    <2> QED BY <1>1, <2>1, <2>2
  <1>3. Put(Now) \/ Put(s)
    <2>1. CASE IsError(last_state)
      BY <2>1 DEF FinishReturns, Put, Now
    <2>2. CASE ~IsError(last_state)
      <3>1. helper' = h /\ UNCHANGED <<entries, tasks, last_put_offset>>
        BY <2>2 DEF FinishReturns
      <3> HIDE DEF h
      <3>2. /\ s.h = h /\ s.entries = entries /\ s.tasks = tasks
            /\ s.last_put = last_put_offset
        BY DEF Now
      <3> QED BY <3>1, <3>2 DEF Put
    <2> QED BY <2>1, <2>2
  <1>4. (Held(s) /\ Room(s.h)) \/ Bare(s)
    <2>1. CASE helper.have_ring_buffer
      BY <1>1, <2>1, CalcHeld
    <2>2. CASE ~helper.have_ring_buffer
      <3>1. h = [helper EXCEPT !.immediate = 0]
        BY <1>1, <2>2, CalcBare
      <3> HIDE DEF h
      <3>2. h \in Helpers /\ ~h.have_ring_buffer /\ h.immediate = 0 /\ h.put = helper.put
        BY <1>1, <2>2, <3>1, CommandBufferAssumption DEF Helpers
      <3> QED BY <1>1, <2>2, <3>2, HelperBare
    <2> QED BY <2>1, <2>2
  <1> HIDE DEF s
  <1>5. Leaves
    BY <1>1, <1>2, <1>3, <1>4, ReadyGoes DEF Leaves
  <1> QED BY <1>1, <1>5, LeavesKeeps DEF WaitReturns

LEMMA TokenReturnsKeeps == IInv /\ WaitReturns /\ TokenReturns => IInv'
  <1> SUFFICES ASSUME IInv, WaitReturns, TokenReturns
               PROVE  IInv'
    OBVIOUS
  <1>1. /\ client.pc = "return" /\ client.then = "token" /\ ClientOK
        /\ client.cmd \in Calls \cup {Idle} /\ client.cmd.op = "alloc"
        /\ transfer.blocks # <<>> /\ BlocksTile(transfer)
        /\ dropped \in BOOLEAN /\ flush_event' \in BOOLEAN
    BY DEF WaitReturns, TokenReturns, IInv, TypeOK, ClientOK
  <1>2. /\ transfer' = FreeOldest(transfer) /\ client' = At("alloc", client.cmd)
        /\ UNCHANGED <<entries, helper, tasks, last_put_offset, dropped>>
    BY DEF TokenReturns
  <1>3. BlocksTile(transfer')
    BY <1>1, <1>2, FreeOldestTile
  <1>4. ClientGoes(Now)
    BY <1>1, <1>2, ClientIs DEF ClientGoes, ClientOK, Pcs
  <1> QED BY <1>1, <1>2, <1>3, <1>4, StaysKeeps DEF WaitReturns, BlocksTile

\* The new ring is empty: all offsets are at its start.
LEMMA SetGetBufferReturnsKeeps == IInv /\ SetGetBufferReturns => IInv'
  <1> SUFFICES ASSUME IInv, SetGetBufferReturns
               PROVE  IInv'
    OBVIOUS
  <1> DEFINE cmd == client.cmd
             h == [helper EXCEPT !.put = 0, !.have_ring_buffer = TRUE]
             s == [Now EXCEPT !.h = h]
             c == CalcImmediateEntries(h, last_state.get_offset, 0)
             fresh == [Now EXCEPT !.h = c]
  <1>1. /\ client.pc = "get_buffer_set" /\ cmd \in Commands
        /\ tasks = <<>> /\ gpu_pc = "idle" /\ ~helper.have_ring_buffer
        /\ Now \in Buffers /\ Now.tasks = tasks /\ Known /\ helper \in Helpers
        /\ Now.last_put = last_put_offset
        /\ BlocksTile(transfer) /\ dropped \in BOOLEAN /\ flush_event' \in BOOLEAN
    BY InvariantIsHeld DEF SetGetBufferReturns, IInv, TypeOK, ClientOK, TasksFollow, Now
  <1>2. h \in Helpers /\ h.have_ring_buffer /\ h.put = 0 /\ 0 < total_entry_count
        /\ total_entry_count \in Nat
    <2>1. 0 \in 0 .. total_entry_count /\ 0 < total_entry_count /\ total_entry_count \in Nat
      BY CommandBufferAssumption
    <2> QED BY <1>1, <2>1 DEF Helpers
  <1> HIDE DEF h
  <1>3. PutOffset(h) = 0
    BY <1>2, PutOffsetType
  <1>4. s \in Buffers /\ s.h = h /\ s.tasks = <<>> /\ s.last_put = last_put_offset
    BY <1>1, <1>2 DEF Buffers
  <1> HIDE DEF s
  <1>5. Held(s)
    <2>1. FlushesWait(s)
      BY <1>1, <1>4 DEF FlushesWait, FirstIsRun
    <2>2. ASSUME ~IsError(service)
          PROVE  OffsetsInOrder(s) /\ RingIsTiled(s)
      <3>1. service.get_offset = 0 /\ last_put_offset = 0
        BY <1>1, <2>2 DEF IInv, NothingWithoutRing
      <3>2. Ahead(last_state.get_offset, 0) =< Ahead(last_state.get_offset, 0)
        <4>1. last_state.get_offset \in Offsets /\ 0 \in Offsets
          BY <1>2 DEF IInv, TypeOK, States, Offsets
        <4>2. Ahead(last_state.get_offset, 0) \in Nat
          BY <4>1, AheadType, OffsetsAreNat
        <4> QED BY <4>2
      <3>3. OffsetsInOrder(s)
        BY <1>1, <1>2, <1>3, <1>4, <3>1, <3>2 DEF OffsetsInOrder
      <3>4. CommandsTile(s, {})
        BY <1>3, <1>4, <3>1 DEF CommandsTile, Tiles, Edge
      <3> QED BY <3>3, <3>4 DEF RingIsTiled
    <2> QED BY <1>2, <1>4, <2>1, <2>2 DEF Held
  <1>6. Held(fresh) /\ fresh.h = c /\ Room(c)
    <2>1. Held([s EXCEPT !.h = c]) /\ [s EXCEPT !.h = c].h = c /\ Room(c)
      <3>1. s.h.put < total_entry_count /\ 0 \in Nat
        BY <1>2, <1>4
      <3>2. CalcImmediateEntries(s.h, last_state.get_offset, 0) = c
        BY <1>4
      <3> HIDE DEF c
      <3> QED BY <1>1, <1>5, <3>1, <3>2, CalcHeld
    <2>2. [s EXCEPT !.h = c] = fresh
      <3> HIDE DEF c
      <3> QED BY <1>1, HelperReplaced DEF s
    <2> QED BY <2>1, <2>2
  <1>7. IF cmd.op = "set_token" /\ cmd.size =< fresh.h.immediate THEN Written(fresh, cmd)
        ELSE WaitForAvailableEntries(fresh, cmd)
    <2>1. [Now.h EXCEPT !.put = 0, !.have_ring_buffer = TRUE] = h
      BY DEF Now, h
    <2> QED BY <2>1 DEF SetGetBufferReturns, Allocated
  <1> HIDE DEF fresh, c
  <1>8. LeavesHeld
    <2>1. CASE cmd.op = "set_token" /\ cmd.size =< fresh.h.immediate
      BY <1>1, <1>6, <1>7, <2>1, WrittenLeaves
    <2>2. CASE ~(cmd.op = "set_token" /\ cmd.size =< fresh.h.immediate)
      BY <1>1, <1>6, <1>7, <2>2, WaitForAvailableEntriesLeaves
    <2> QED BY <2>1, <2>2
  <1> QED BY <1>1, <1>8, LeavesKeeps DEF SetGetBufferReturns

\* A ring is freed where the client has read up to put_: nothing is left.
LEMMA FreeRingBufferKeeps == IInv /\ FreeRingBuffer => IInv'
  <1> SUFFICES ASSUME IInv, FreeRingBuffer
               PROVE  IInv'
    OBVIOUS
  <1> DEFINE new == [kind |-> "destroy_transfer_buffer", put |-> 0]
             queue == Append(tasks, new)
             n == Len(tasks)
             L == last_state.get_offset
             from(x) == Ahead(L, x)
  <1>1. /\ CanCall /\ client.pc = "ready" /\ client.then = "return"
        /\ helper.have_ring_buffer /\ helper.put = L
        /\ helper' = [helper EXCEPT !.have_ring_buffer = FALSE, !.immediate = 0]
        /\ tasks' = queue
        /\ UNCHANGED <<entries, last_state, last_put_offset, transfer, client, dropped,
                       state_after_last_flush, flush_event, gpu_vars>>
    BY CanCallIs DEF FreeRingBuffer
  <1>2. /\ Known /\ Held(Now) /\ Now \in Buffers /\ Now.h = helper /\ Now.tasks = tasks
        /\ Now.last_put = last_put_offset /\ FirstIsRun(Now) /\ FlushesWait(Now)
        /\ tasks \in Seq(Tasks) /\ helper \in Helpers /\ L \in Offsets
    BY <1>1, InvariantIsHeld DEF Now, Held, IInv, TypeOK, States
  <1>3. new \in Tasks /\ new.kind = "destroy_transfer_buffer"
    BY CommandBufferAssumption DEF Tasks, Offsets
  <1> HIDE DEF new
  <1>4. /\ queue \in Seq(Tasks) /\ n \in Nat /\ DOMAIN tasks = 1 .. n
        /\ DOMAIN queue = 1 .. n + 1 /\ Len(queue) = n + 1
        /\ \A i \in 1 .. n : queue[i] = tasks[i]
        /\ queue[n + 1] = new
        /\ queue # <<>>
        /\ tasks # <<>> => 1 \in 1 .. n
    BY <1>2, <1>3, AppendIs
  <1> HIDE DEF queue, n
  <1>5. \A i \in DOMAIN queue :
          \/ i \in 1 .. n /\ queue[i] = tasks[i] /\ queue[i].kind = "flush"
          \/ i = n + 1 /\ queue[i].kind = "destroy_transfer_buffer"
    <2> SUFFICES ASSUME NEW i \in DOMAIN queue
                 PROVE  \/ i \in 1 .. n /\ queue[i] = tasks[i] /\ queue[i].kind = "flush"
                        \/ i = n + 1 /\ queue[i].kind = "destroy_transfer_buffer"
      OBVIOUS
    <2>1. i \in 1 .. n \/ i = n + 1
      BY <1>4
    <2> QED BY <1>2, <1>3, <1>4, <2>1 DEF FlushesWait
  <1>6. /\ helper' \in Helpers /\ ~helper'.have_ring_buffer
        /\ helper'.immediate = 0 /\ helper'.put = helper.put
    <2>1. 0 \in 0 .. total_entry_count
      BY CommandBufferAssumption
    <2> QED BY <1>1, <1>2, <2>1 DEF Helpers
  <1>7. TypeOK'
    BY <1>1, <1>4, <1>6 DEF IInv, TypeOK, BlocksTile, ClientOK, gpu_vars
  <1>8. RoomInRing'
    <2>1. helper.put \in 0 .. total_entry_count
      BY <1>2 DEF Helpers
    <2> QED BY <1>1, <1>6, <2>1 DEF IInv, RoomInRing
  <1>9. ErrorsArePassedOn'
    BY <1>1 DEF IInv, ErrorsArePassedOn, IsError, gpu_vars
  <1>10. TasksFollow'
    <2>1. gpu_pc # "idle" => queue[1].kind = "flush" /\ queue[1].put = put_offset
      BY <1>2, <1>4 DEF FirstIsRun
    <2> QED BY <1>1, <1>4, <1>5, <1>6, <2>1 DEF TasksFollow, gpu_vars
  <1>11. ASSUME ~IsError(service)
         PROVE  NothingLeft(Now)'
    <2>1. OffsetsInOrder(Now) /\ PublishedInOrder
      BY <1>1, <1>11 DEF IInv
    <2> DEFINE S == state_after_last_flush.get_offset
               get == service.get_offset
               lp == last_put_offset
    <2>2. S \in Offsets /\ get \in Offsets /\ lp \in Offsets
      BY DEF IInv, TypeOK, States
    <2>3. from(S) \in Nat /\ from(get) \in Nat /\ from(lp) \in Nat
      BY <1>2, <2>2, AheadType, OffsetsAreNat
    <2>4. PutOffset(helper) = L
      BY <1>1, <1>2, PutOffsetType, OffsetsAreNat, CommandBufferAssumption
    <2>5. from(S) =< from(get) /\ from(get) =< from(lp) /\ from(lp) =< from(L) /\ from(L) = 0
      BY <1>2, <2>1, <2>4, AheadType DEF OffsetsInOrder, PublishedInOrder
    <2>6. from(S) = 0 /\ from(get) = 0 /\ from(lp) = 0
      <3> HIDE DEF from, S, get, lp
      <3> QED BY <2>3, <2>5
    <2>7. S = L /\ get = L /\ lp = L
      BY <1>2, <2>2, <2>6, AheadType
    <2>8. \A i \in 1 .. n : i = 1 /\ gpu_pc \in {"publish", "signal"}
      <3> SUFFICES ASSUME NEW i \in 1 .. n
                   PROVE  i = 1 /\ gpu_pc \in {"publish", "signal"}
        OBVIOUS
      <3>1. 1 \in 1 .. n /\ tasks # <<>>
        BY <1>4
      <3>2. \A k \in 1 .. n :
              /\ tasks[k].put \in Offsets /\ from(tasks[k].put) =< from(lp)
              /\ k # 1 => from(tasks[1].put) < from(tasks[k].put)
        BY <1>2, <1>4, <2>1, FlushesAreAhead
      <3>3. from(tasks[1].put) \in Nat /\ from(tasks[i].put) \in Nat
        BY <1>2, <3>1, <3>2, AheadType, OffsetsAreNat
      <3>4. gpu_pc \notin {"publish", "signal"} => from(get) < from(tasks[1].put)
        BY <1>2, <2>1, <3>1 DEF OffsetsInOrder
      <3> HIDE DEF from, get, lp
      <3> QED BY <2>6, <3>1, <3>2, <3>3, <3>4
    <2>9. gpu_pc # "decode"
      <3>1. gpu_pc # "idle" => 1 \in 1 .. n
        BY <1>2, <1>4 DEF FirstIsRun
      <3> QED BY <2>8, <3>1
    <2>10. \A i \in DOMAIN queue : queue[i].kind = "flush" => i = 1 /\ gpu_pc # "idle"
      BY <1>5, <2>8
    <2>11. /\ Now'.h = helper' /\ Now'.tasks = queue /\ Now'.last_put = last_put_offset
      BY <1>1 DEF Now
    <2> QED BY <1>1, <1>6, <2>7, <2>9, <2>10, <2>11 DEF NothingLeft, gpu_vars
  <1>12. NothingLeft(Now)' => NothingWithoutRing'
    BY <1>1 DEF NothingWithoutRing
  <1>13. NoParseError' /\ (IsError(service)' <=> IsError(service))
    BY <1>1 DEF IInv, NoParseError, IsError, gpu_vars
  <1> QED BY <1>6, <1>7, <1>8, <1>9, <1>10, <1>11, <1>12, <1>13 DEF IInv

-----------------------------------------------------------------------------
(* The GPU thread's steps.                                                 *)

LEMMA TailIs ==
  ASSUME NEW T, NEW q \in Seq(T), q # <<>>
  PROVE  LET n == Len(q)
         IN /\ n \in Nat \ {0} /\ DOMAIN q = 1 .. n /\ Head(q) = q[1] /\ q[1] \in T
            /\ Tail(q) \in Seq(T) /\ Len(Tail(q)) = n - 1 /\ DOMAIN Tail(q) = 1 .. n - 1
            /\ \A i \in 1 .. n - 1 : Tail(q)[i] = q[i + 1] /\ i + 1 \in 1 .. n
            /\ Tail(q) = <<>> <=> n = 1
            /\ 1 \in 1 .. n /\ n \in 1 .. n
  <1>1. Len(q) \in Nat \ {0} /\ DOMAIN q = 1 .. Len(q) /\ Head(q) = q[1] /\ q[1] \in T
    BY EmptySeq
  <1>2. /\ Tail(q) \in Seq(T) /\ Len(Tail(q)) = Len(q) - 1
        /\ \A i \in 1 .. Len(q) - 1 : Tail(q)[i] = q[i + 1]
    BY HeadTailProperties
  <1>3. DOMAIN Tail(q) = 1 .. Len(q) - 1 /\ (Tail(q) = <<>> <=> Len(q) = 1)
    BY <1>1, <1>2, EmptySeq
  <1>4. \A i \in 1 .. Len(q) - 1 : i + 1 \in 1 .. Len(q)
    BY <1>1
  <1>5. 1 \in 1 .. Len(q) /\ Len(q) \in 1 .. Len(q)
    BY <1>1
  <1> QED BY <1>1, <1>2, <1>3, <1>4, <1>5

\* Without a ring no flush is started: there is none in the queue.
LEMMA StartFlushKeeps == IInv /\ StartFlush => IInv'
  <1> SUFFICES ASSUME IInv, StartFlush
               PROVE  IInv'
    OBVIOUS
  <1>1. /\ gpu_pc = "idle" /\ tasks # <<>> /\ Head(tasks).kind = "flush"
        /\ put_offset' = Head(tasks).put
        /\ UNCHANGED <<entries, client_vars, tasks, state_after_last_flush, flush_event>>
    BY DEF StartFlush
  <1>2. /\ tasks \in Seq(Tasks) /\ DOMAIN tasks = 1 .. Len(tasks) /\ 1 \in 1 .. Len(tasks)
        /\ Head(tasks) = tasks[1] /\ tasks[1] \in Tasks
    BY <1>1, TailIs DEF IInv, TypeOK
  <1>3. \/ /\ service' = service
           /\ gpu_pc' = IF IsError(service) \/ service.get_offset = Head(tasks).put
                        THEN "publish" ELSE "decode"
        \/ /\ service' = [service EXCEPT !.error = "kLostContext"]
           /\ gpu_pc' = "publish"
    BY DEF StartFlush
  <1>4. service' \in States /\ (IsError(service)' => service'.error # "kParseError")
        /\ (IsError(service) => IsError(service)')
        /\ (~IsError(service)' =>
               /\ service' = service /\ ~IsError(service)
               /\ gpu_pc' = IF service.get_offset = Head(tasks).put THEN "publish" ELSE "decode")
    BY <1>3 DEF IInv, TypeOK, NoParseError, States, Errors, IsError
  <1>5. gpu_pc' \in {"publish", "decode"} /\ (gpu_pc' = "decode" => ~IsError(service)')
    BY <1>3 DEF IsError
  <1>6. put_offset' = tasks[1].put /\ put_offset' \in Offsets
    BY <1>1, <1>2 DEF Tasks
  <1>7. TypeOK'
    BY <1>1, <1>4, <1>5, <1>6 DEF IInv, TypeOK, client_vars, BlocksTile, ClientOK
  <1>8. RoomInRing'
    BY <1>1 DEF IInv, RoomInRing, client_vars
  <1>9. ErrorsArePassedOn'
    BY <1>1, <1>4, <1>5 DEF IInv, ErrorsArePassedOn, IsError, client_vars
  <1>10. TasksFollow'
    BY <1>1, <1>2, <1>6 DEF IInv, TasksFollow, client_vars
  <1>11. ASSUME ~IsError(service)'
         PROVE  helper.have_ring_buffer
    <2>1. client.pc # "get_buffer_set"
      BY <1>1 DEF IInv, TasksFollow
    <2>2. ASSUME ~helper.have_ring_buffer
          PROVE  FALSE
      <3>1. NothingLeft(Now)
        BY <1>4, <1>11, <2>1, <2>2 DEF IInv, NothingWithoutRing
      <3>2. Now.tasks = tasks
        BY DEF Now
      <3> QED BY <1>1, <1>2, <3>1, <3>2 DEF NothingLeft
    <2> QED BY <2>2
  <1>12. ASSUME ~IsError(service)'
         PROVE  /\ PublishedInOrder' /\ OffsetsInOrder(Now)' /\ RoomIsFree(helper)'
                /\ RingIsTiled(Now)' /\ WrapWaitsForStart'
    <2>1. /\ PublishedInOrder /\ OffsetsInOrder(Now) /\ RoomIsFree(helper)
          /\ RingIsTiled(Now) /\ WrapWaitsForStart
      BY <1>4, <1>11, <1>12 DEF IInv
    <2>2. /\ Now'.h = Now.h /\ Now'.entries = Now.entries
          /\ Now'.tasks = Now.tasks /\ Now'.last_put = Now.last_put
          /\ Now.tasks = tasks
      BY <1>1 DEF Now, client_vars
    <2>3. service' = service /\ last_state' = last_state /\ helper' = helper
          /\ client' = client /\ state_after_last_flush' = state_after_last_flush
      BY <1>1, <1>4, <1>12 DEF client_vars
    <2>4. gpu_pc' = "publish" => put_offset' = service.get_offset
      BY <1>1, <1>2, <1>4, <1>6, <1>12
    <2>5. OffsetsInOrder(Now)'
      <3>1. Ahead(last_state.get_offset, service.get_offset)
              < Ahead(last_state.get_offset, tasks[1].put)
        BY <1>1, <2>1, <2>2 DEF OffsetsInOrder
      <3>2. IF gpu_pc' \in {"publish", "signal"} THEN put_offset' = service.get_offset
            ELSE Ahead(last_state.get_offset, service.get_offset)
                   < Ahead(last_state.get_offset, tasks[1].put)
        BY <1>5, <2>4, <3>1
      <3> QED BY <2>1, <2>2, <2>3, <3>2 DEF OffsetsInOrder
    <2>6. PublishedInOrder'
      BY <2>1, <2>3 DEF PublishedInOrder
    <2>7. RoomIsFree(helper)'
      BY <2>1, <2>3 DEF RoomIsFree
    <2>8. RingIsTiled(Now)'
      BY <2>1, <2>2, <2>3 DEF RingIsTiled, CommandsTile
    <2>9. WrapWaitsForStart'
      BY <2>1, <2>3 DEF WrapWaitsForStart
    <2> QED BY <2>5, <2>6, <2>7, <2>8, <2>9
  <1>13. NoParseError'
    BY <1>4 DEF NoParseError, IsError
  <1>14. helper' = helper
    BY <1>1 DEF client_vars
  <1> QED BY <1>7, <1>8, <1>9, <1>10, <1>11, <1>12, <1>13, <1>14 DEF IInv

\* The service publishes where it is.
LEMMA PublishStateKeeps == IInv /\ PublishState => IInv'
  <1> SUFFICES ASSUME IInv, PublishState
               PROVE  IInv'
    OBVIOUS
  <1>1. /\ gpu_pc = "publish" /\ gpu_pc' = "signal" /\ state_after_last_flush' = service
        /\ UNCHANGED <<entries, helper, last_state, last_put_offset, transfer, client, dropped,
                       tasks, flush_event, service, put_offset>>
    BY DEF PublishState, client_vars
  <1>2. TypeOK'
    BY <1>1 DEF IInv, TypeOK, BlocksTile, ClientOK
  <1>3. RoomInRing'
    BY <1>1 DEF IInv, RoomInRing
  <1>4. ErrorsArePassedOn'
    BY <1>1 DEF IInv, ErrorsArePassedOn, IsError
  <1>5. TasksFollow'
    BY <1>1 DEF IInv, TasksFollow
  <1>6. NoParseError' /\ (IsError(service)' <=> IsError(service))
    BY <1>1 DEF IInv, NoParseError, IsError
  <1>7. /\ Now'.h = Now.h /\ Now'.entries = Now.entries
        /\ Now'.tasks = Now.tasks /\ Now'.last_put = Now.last_put
    BY <1>1 DEF Now
  <1>8. ASSUME ~IsError(service), helper.have_ring_buffer
        PROVE  /\ PublishedInOrder' /\ OffsetsInOrder(Now)' /\ RoomIsFree(helper)'
               /\ RingIsTiled(Now)' /\ WrapWaitsForStart'
    <2>1. /\ OffsetsInOrder(Now) /\ RoomIsFree(helper)
          /\ RingIsTiled(Now) /\ WrapWaitsForStart
      BY <1>8 DEF IInv
    <2>2. PublishedInOrder'
      <3>1. Ahead(last_state.get_offset, service.get_offset) \in Nat
        BY AheadType, OffsetsAreNat DEF IInv, TypeOK, States
      <3>2. Ahead(last_state.get_offset, service.get_offset)
              =< Ahead(last_state.get_offset, service.get_offset)
        BY <3>1
      <3> QED BY <1>1, <3>2 DEF PublishedInOrder
    <2>3. OffsetsInOrder(Now)'
      BY <1>1, <1>7, <2>1 DEF OffsetsInOrder
    <2>4. RoomIsFree(helper)'
      BY <1>1, <2>1 DEF RoomIsFree
    <2>5. RingIsTiled(Now)'
      BY <1>1, <1>7, <2>1 DEF RingIsTiled, CommandsTile
    <2>6. WrapWaitsForStart'
      BY <1>1, <2>1 DEF WrapWaitsForStart
    <2> QED BY <2>2, <2>3, <2>4, <2>5, <2>6
  <1>9. ASSUME ~IsError(service), ~helper.have_ring_buffer
        PROVE  NothingWithoutRing'
    <2>1. NothingWithoutRing
      BY <1>9 DEF IInv
    <2>2. CASE client.pc = "get_buffer_set"
      BY <1>1, <2>1, <2>2 DEF NothingWithoutRing
    <2>3. CASE client.pc # "get_buffer_set"
      <3>1. NothingLeft(Now)
        BY <2>1, <2>3 DEF NothingWithoutRing
      <3>2. NothingLeft(Now)'
        BY <1>1, <1>7, <3>1 DEF NothingLeft
      <3> QED BY <1>1, <2>3, <3>2 DEF NothingWithoutRing
    <2> QED BY <2>2, <2>3
  <1> QED BY <1>1, <1>2, <1>3, <1>4, <1>5, <1>6, <1>8, <1>9 DEF IInv

\* The task that is done was the flush up to the service's get.
LEMMA SignalFlushKeeps == IInv /\ SignalFlush => IInv'
  <1> SUFFICES ASSUME IInv, SignalFlush
               PROVE  IInv'
    OBVIOUS
  <1> DEFINE n == Len(tasks)
             rest == Tail(tasks)
             from(x) == Ahead(last_state.get_offset, x)
             get == service.get_offset
  <1>1. /\ gpu_pc = "signal" /\ gpu_pc' = "idle" /\ tasks' = rest /\ flush_event' = TRUE
        /\ UNCHANGED <<entries, helper, last_state, last_put_offset, transfer, client, dropped,
                       state_after_last_flush, service, put_offset>>
    BY DEF SignalFlush, TaskDone, client_vars
  <1>2. tasks # <<>> /\ tasks[1].kind = "flush" /\ tasks[1].put = put_offset
        /\ client.pc # "get_buffer_set"
    BY <1>1 DEF IInv, TasksFollow
  <1>3. /\ n \in Nat \ {0} /\ DOMAIN tasks = 1 .. n /\ rest \in Seq(Tasks)
        /\ Len(rest) = n - 1 /\ DOMAIN rest = 1 .. n - 1
        /\ \A i \in 1 .. n - 1 : rest[i] = tasks[i + 1] /\ i + 1 \in 1 .. n
        /\ rest = <<>> <=> n = 1
        /\ 1 \in 1 .. n
    BY <1>2, TailIs DEF IInv, TypeOK
  <1> HIDE DEF n, rest
  <1>4. TypeOK'
    BY <1>1, <1>3 DEF IInv, TypeOK, BlocksTile, ClientOK
  <1>5. RoomInRing'
    BY <1>1 DEF IInv, RoomInRing
  <1>6. ErrorsArePassedOn'
    BY <1>1 DEF IInv, ErrorsArePassedOn, IsError
  <1>7. TasksFollow'
    <2>1. \A i \in 1 .. n - 1 : i + 1 = n => i = n - 1
      BY <1>3
    <2>2. \A i \in 1 .. n :
            /\ tasks[i].kind = "set_get_buffer" => i = n /\ client.pc = "set_get_buffer"
            /\ helper.have_ring_buffer => tasks[i].kind = "flush"
      BY <1>3 DEF IInv, TasksFollow, n
    <2>3. \A i \in DOMAIN rest :
            /\ rest[i].kind = "set_get_buffer" => i = Len(rest) /\ client.pc = "set_get_buffer"
            /\ helper.have_ring_buffer => rest[i].kind = "flush"
      BY <1>3, <2>1, <2>2
    <2> QED BY <1>1, <1>2, <2>3 DEF IInv, TasksFollow
  <1>8. NoParseError' /\ (IsError(service)' <=> IsError(service))
    BY <1>1 DEF IInv, NoParseError, IsError
  <1>9. /\ Now'.h = Now.h /\ Now'.entries = Now.entries
        /\ Now'.tasks = rest /\ Now'.last_put = Now.last_put
        /\ Now.tasks = tasks
    BY <1>1 DEF Now
  <1>10. ASSUME ~IsError(service), helper.have_ring_buffer
         PROVE  /\ PublishedInOrder' /\ OffsetsInOrder(Now)' /\ RoomIsFree(helper)'
                /\ RingIsTiled(Now)' /\ WrapWaitsForStart'
    <2>1. /\ PublishedInOrder /\ OffsetsInOrder(Now) /\ RoomIsFree(helper)
          /\ RingIsTiled(Now) /\ WrapWaitsForStart
      BY <1>10 DEF IInv
    <2>2. PublishedInOrder'
      BY <1>1, <2>1 DEF PublishedInOrder
    <2>3. OffsetsInOrder(Now)'
      <3>1. put_offset = get
        BY <1>1, <2>1 DEF OffsetsInOrder
      <3>2. Now.last_put = IF rest = <<>> THEN get ELSE rest[n - 1].put
        <4>1. Now.last_put = tasks[n].put
          BY <1>2, <1>9, <2>1 DEF OffsetsInOrder, n
        <4>2. CASE n = 1
          BY <1>2, <1>3, <3>1, <4>1, <4>2
        <4>3. CASE n # 1
          <5>1. n - 1 \in 1 .. n - 1 /\ (n - 1) + 1 = n
            BY <1>3, <4>3
          <5> QED BY <1>3, <4>1, <4>3, <5>1
        <4> QED BY <4>2, <4>3
      <3>3. \A i, j \in 1 .. n : i < j => from(tasks[i].put) < from(tasks[j].put)
        BY <1>3, <1>9, <2>1 DEF OffsetsInOrder
      <3> HIDE DEF from, get
      <3>4. \A i, j \in DOMAIN rest : i < j => from(rest[i].put) < from(rest[j].put)
        <4> SUFFICES ASSUME NEW i \in 1 .. n - 1, NEW j \in 1 .. n - 1, i < j
                     PROVE  from(rest[i].put) < from(rest[j].put)
          BY <1>3
        <4>1. i + 1 \in 1 .. n /\ j + 1 \in 1 .. n /\ i + 1 < j + 1
          BY <1>3
        <4> QED BY <1>3, <3>3, <4>1
      <3>5. rest # <<>> => from(get) < from(rest[1].put)
        <4> SUFFICES ASSUME rest # <<>>
                     PROVE  from(get) < from(rest[1].put)
          OBVIOUS
        <4>1. 1 \in 1 .. n - 1 /\ 1 + 1 \in 1 .. n /\ 1 < 1 + 1
          BY <1>3
        <4>2. from(tasks[1].put) < from(tasks[1 + 1].put)
          BY <1>3, <3>3, <4>1
        <4> QED BY <1>2, <1>3, <3>1, <4>1, <4>2
      <3> QED BY <1>1, <1>3, <1>9, <2>1, <3>2, <3>4, <3>5 DEF OffsetsInOrder, from, get
    <2>4. RoomIsFree(helper)'
      BY <1>1, <2>1 DEF RoomIsFree
    <2>5. RingIsTiled(Now)'
      <3>1. PICK starts \in SUBSET Offsets : CommandsTile(Now, starts)
        BY <2>1 DEF RingIsTiled
      <3>2. \A i \in DOMAIN rest : Edge(starts, PutOffset(Now.h), rest[i].put)
        BY <1>3, <1>9, <3>1 DEF CommandsTile
      <3>3. CommandsTile(Now, starts)'
        BY <1>1, <1>9, <3>1, <3>2 DEF CommandsTile
      <3> QED BY <3>3 DEF RingIsTiled
    <2>6. WrapWaitsForStart'
      BY <1>1, <2>1 DEF WrapWaitsForStart
    <2> QED BY <2>2, <2>3, <2>4, <2>5, <2>6
  <1>11. ASSUME ~IsError(service), ~helper.have_ring_buffer
         PROVE  NothingWithoutRing'
    <2>1. NothingLeft(Now)
      BY <1>2, <1>11 DEF IInv, NothingWithoutRing
    <2>2. \A i \in 1 .. n - 1 : rest[i].kind # "flush"
      <3>1. \A i \in 1 .. n - 1 : i + 1 # 1
        BY <1>3
      <3>2. \A i \in 1 .. n : tasks[i].kind = "flush" => i = 1
        BY <1>3, <1>9, <2>1 DEF NothingLeft
      <3> QED BY <1>3, <3>1, <3>2
    <2>3. NothingLeft(Now)'
      BY <1>1, <1>3, <1>9, <2>1, <2>2 DEF NothingLeft
    <2> QED BY <1>1, <1>2, <2>3 DEF NothingWithoutRing
  <1> QED BY <1>1, <1>4, <1>5, <1>6, <1>7, <1>8, <1>10, <1>11 DEF IInv

\* The ring that is gone was freed: no flush is left in the queue.
LEMMA DestroyTransferBufferKeeps == IInv /\ DestroyTransferBuffer => IInv'
  <1> SUFFICES ASSUME IInv, DestroyTransferBuffer
               PROVE  IInv'
    OBVIOUS
  <1> DEFINE n == Len(tasks)
             rest == Tail(tasks)
  <1>1. /\ gpu_pc = "idle" /\ gpu_pc' = "idle" /\ tasks # <<>> /\ tasks' = rest
        /\ Head(tasks).kind = "destroy_transfer_buffer"
        /\ service' = [service EXCEPT !.get_offset = 0] /\ put_offset' = 0
        /\ UNCHANGED <<entries, helper, last_state, last_put_offset, transfer, client, dropped,
                       state_after_last_flush, flush_event>>
    BY DEF DestroyTransferBuffer, TaskDone, client_vars
  <1>2. /\ n \in Nat \ {0} /\ DOMAIN tasks = 1 .. n /\ rest \in Seq(Tasks)
        /\ Len(rest) = n - 1 /\ DOMAIN rest = 1 .. n - 1 /\ Head(tasks) = tasks[1]
        /\ \A i \in 1 .. n - 1 : rest[i] = tasks[i + 1] /\ i + 1 \in 1 .. n
        /\ 1 \in 1 .. n
    BY <1>1, TailIs DEF IInv, TypeOK
  <1>3. client.pc # "get_buffer_set" /\ ~helper.have_ring_buffer
    BY <1>1, <1>2 DEF IInv, TasksFollow
  <1> HIDE DEF n, rest
  <1>4. service' \in States /\ service'.error = service.error /\ put_offset' \in Offsets
    <2>1. 0 \in Offsets
      BY CommandBufferAssumption DEF Offsets
    <2> QED BY <1>1, <2>1 DEF IInv, TypeOK, States
  <1>5. TypeOK'
    BY <1>1, <1>2, <1>4 DEF IInv, TypeOK, BlocksTile, ClientOK
  <1>6. RoomInRing'
    BY <1>1 DEF IInv, RoomInRing
  <1>7. ErrorsArePassedOn'
    BY <1>1, <1>4 DEF IInv, ErrorsArePassedOn, IsError
  <1>8. TasksFollow'
    <2>1. \A i \in 1 .. n - 1 : i + 1 = n => i = n - 1
      BY <1>2
    <2>2. \A i \in 1 .. n :
            tasks[i].kind = "set_get_buffer" => i = n /\ client.pc = "set_get_buffer"
      BY <1>2 DEF IInv, TasksFollow, n
    <2>3. \A i \in DOMAIN rest :
            rest[i].kind = "set_get_buffer" => i = Len(rest) /\ client.pc = "set_get_buffer"
      BY <1>2, <2>1, <2>2
    <2> QED BY <1>1, <1>3, <2>3 DEF IInv, TasksFollow
  <1>9. NoParseError' /\ (IsError(service)' <=> IsError(service))
    BY <1>4 DEF IInv, NoParseError, IsError
  <1>10. ASSUME ~IsError(service)
         PROVE  NothingWithoutRing'
    <2>1. NothingLeft(Now)
      BY <1>3, <1>10 DEF IInv, NothingWithoutRing
    <2>2. /\ Now'.h = Now.h /\ Now'.tasks = rest /\ Now'.last_put = Now.last_put
          /\ Now.tasks = tasks
      BY <1>1 DEF Now
    <2>3. \A i \in 1 .. n - 1 : rest[i].kind # "flush"
      BY <1>1, <1>2, <2>1, <2>2 DEF NothingLeft
    <2>4. NothingLeft(Now)'
      BY <1>1, <1>2, <2>1, <2>2, <2>3 DEF NothingLeft
    <2> QED BY <1>1, <1>3, <2>4 DEF NothingWithoutRing
  <1> QED BY <1>1, <1>3, <1>5, <1>6, <1>7, <1>8, <1>9, <1>10 DEF IInv

\* The client waits for the new ring with nothing else in the queue.
LEMMA SetGetBufferKeeps == IInv /\ SetGetBuffer => IInv'
  <1> SUFFICES ASSUME IInv, SetGetBuffer
               PROVE  IInv'
    OBVIOUS
  <1> DEFINE n == Len(tasks)
             rest == Tail(tasks)
  <1>1. /\ gpu_pc = "idle" /\ gpu_pc' = "idle" /\ tasks # <<>> /\ tasks' = rest
        /\ Head(tasks).kind = "set_get_buffer"
        /\ service' = [service EXCEPT !.get_offset = 0] /\ put_offset' = 0
        /\ entries' = [i \in Offsets |-> Stale] /\ last_put_offset' = 0
        /\ client' = [client EXCEPT !.pc = "get_buffer_set"]
        /\ UNCHANGED <<helper, last_state, transfer, dropped,
                       state_after_last_flush, flush_event>>
    BY DEF SetGetBuffer, TaskDone
  <1>2. /\ DOMAIN tasks = 1 .. n /\ rest \in Seq(Tasks) /\ (rest = <<>> <=> n = 1)
        /\ Head(tasks) = tasks[1] /\ 1 \in 1 .. n
    BY <1>1, TailIs DEF IInv, TypeOK
  <1>3. n = 1 /\ client.pc = "set_get_buffer" /\ ~helper.have_ring_buffer
    BY <1>1, <1>2 DEF IInv, TasksFollow
  <1>4. rest = <<>>
    BY <1>2, <1>3
  <1> HIDE DEF n, rest
  <1>5. /\ service' \in States /\ service'.error = service.error /\ service'.get_offset = 0
        /\ put_offset' \in Offsets /\ last_put_offset' \in Offsets
    <2>1. 0 \in Offsets
      BY CommandBufferAssumption DEF Offsets
    <2> QED BY <1>1, <2>1 DEF IInv, TypeOK, States
  <1>6. /\ client'.pc = "get_buffer_set" /\ client.then = "return" /\ client'.then = "return"
        /\ ClientOK'
    <2>1. ClientOK
      BY DEF IInv, TypeOK
    <2>2. client.then = "return" /\ client.cmd \in Commands
      BY <1>3, <2>1 DEF ClientOK
    <2>3. /\ client'.pc = "get_buffer_set" /\ client'.then = "return"
          /\ client'.cmd \in Commands
          /\ client' \in [pc : Pcs, cmd : Calls \cup {Idle}, start : Nat, end : Nat,
                          then : {"return", "wrap", "room", "finish", "token"}]
      BY <1>1, <2>1, <2>2 DEF ClientOK, Pcs
    <2> QED BY <2>2, <2>3 DEF ClientOK
  <1>7. TypeOK'
    <2>1. entries' \in [Offsets -> Entries]
      BY <1>1 DEF Entries
    <2> QED BY <1>1, <1>2, <1>5, <1>6, <2>1 DEF IInv, TypeOK, BlocksTile
  <1>8. RoomInRing'
    BY <1>1, <1>6 DEF IInv, RoomInRing
  <1>9. ErrorsArePassedOn'
    BY <1>1, <1>5 DEF IInv, ErrorsArePassedOn, IsError
  <1>10. TasksFollow'
    BY <1>1, <1>3, <1>4, <1>6 DEF IInv, TasksFollow
  <1>11. NoParseError' /\ (IsError(service)' <=> IsError(service))
    BY <1>5 DEF IInv, NoParseError, IsError
  <1>12. NothingWithoutRing'
    BY <1>1, <1>5, <1>6 DEF NothingWithoutRing
  <1> QED BY <1>1, <1>3, <1>7, <1>8, <1>9, <1>10, <1>11, <1>12 DEF IInv

\* What the service finds at its get: a whole command, which ends where the flush
\* that it runs ends or before.
LEMMA NextCommandIs ==
  ASSUME IInv, gpu_pc = "decode"
  PROVE  LET get == service.get_offset
             size == entries[get].size
             next == OffsetAfter(get, size)
             from(x) == Ahead(last_state.get_offset, x)
         IN /\ ~IsError(service) /\ helper.have_ring_buffer /\ tasks # <<>>
            /\ OffsetsInOrder(Now) /\ PublishedInOrder
            /\ get \in Offsets /\ put_offset \in Offsets
            /\ size \in Nat \ {0} /\ get + size =< total_entry_count
            /\ get < put_offset => get + size =< put_offset
            /\ put_offset # get
            /\ next \in Offsets /\ from(next) = from(get) + size
            /\ from(next) =< from(put_offset) /\ from(put_offset) =< from(last_put_offset)
            /\ tasks[1].put = put_offset
            /\ \A rest \in [Offsets -> Entries] :
                 (\A i \in Offsets : i \notin get .. get + size - 1 => rest[i] = entries[i]) =>
                   \E starts \in SUBSET Offsets :
                     /\ Tiles(starts, rest, next, PutOffset(helper))
                     /\ Edge(starts, PutOffset(helper), next)
                     /\ \A i \in DOMAIN tasks : Edge(starts, PutOffset(helper), tasks[i].put)
  <1> DEFINE get == service.get_offset
             size == entries[get].size
             next == OffsetAfter(get, size)
             L == last_state.get_offset
             from(x) == Ahead(L, x)
             P == PutOffset(helper)
  <1>1. /\ ~IsError(service) /\ tasks # <<>> /\ tasks[1].put = put_offset
        /\ client.pc # "get_buffer_set"
    BY DEF IInv, ErrorsArePassedOn, TasksFollow
  <1>2. helper.have_ring_buffer
    BY <1>1 DEF IInv, NothingWithoutRing, NothingLeft
  <1>3. /\ OffsetsInOrder(Now) /\ PublishedInOrder /\ RingIsTiled(Now)
        /\ Known /\ Held(Now) /\ Now.h = helper /\ Now.tasks = tasks
        /\ Now.entries = entries /\ Now.last_put = last_put_offset
    BY <1>1, <1>2, InvariantIsHeld DEF IInv, Now
  <1>4. /\ get \in Offsets /\ put_offset \in Offsets /\ L \in Offsets /\ P \in Offsets
        /\ last_put_offset \in Offsets /\ entries \in [Offsets -> Entries]
    BY PutOffsetType DEF IInv, TypeOK, States
  <1>5. /\ \A x \in Offsets : from(x) \in Nat /\ from(x) < total_entry_count
        /\ get \in Nat /\ total_entry_count \in Nat
    BY <1>4, AheadType, OffsetsAreNat, CommandBufferAssumption
  <1>6. /\ 1 \in DOMAIN tasks
        /\ \A i \in DOMAIN tasks :
             /\ tasks[i].put \in Offsets
             /\ from(get) =< from(tasks[i].put)
             /\ from(tasks[i].put) =< from(last_put_offset)
             /\ i # 1 => from(tasks[1].put) < from(tasks[i].put)
    <2>1. 1 \in DOMAIN tasks
      BY <1>1, TailIs DEF IInv, TypeOK
    <2> QED BY <1>3, <2>1, FlushesAreAhead
  <1>7. from(get) < from(put_offset) /\ from(last_put_offset) =< from(P)
    BY <1>1, <1>3 DEF OffsetsInOrder
  <1>8. \A i \in DOMAIN tasks : tasks[i].put # get
    <2> HIDE DEF from, get
    <2> SUFFICES ASSUME NEW i \in DOMAIN tasks
                 PROVE  tasks[i].put # get
      OBVIOUS
    <2>1. /\ from(get) \in Nat /\ from(put_offset) \in Nat /\ from(tasks[i].put) \in Nat
      BY <1>4, <1>5, <1>6
    <2>2. i # 1 => from(put_offset) < from(tasks[i].put)
      BY <1>1, <1>6
    <2>3. i = 1 => tasks[i].put = put_offset
      BY <1>1
    <2>4. from(get) # from(tasks[i].put)
      BY <1>7, <2>1, <2>2, <2>3
    <2> QED BY <2>4
  <1>9. get # P /\ from(put_offset) =< from(last_put_offset)
    <2> HIDE DEF from, get, P
    <2>1. from(put_offset) =< from(last_put_offset)
      BY <1>1, <1>6
    <2> QED BY <1>4, <1>5, <1>7, <2>1
  <1>10. PICK starts \in SUBSET Offsets :
           /\ Tiles(starts, entries, get, P)
           /\ Edge(starts, P, get)
           /\ \A i \in DOMAIN tasks : Edge(starts, P, tasks[i].put)
    BY <1>3 DEF RingIsTiled, CommandsTile
  <1>11. ASSUME NEW rest \in [Offsets -> Entries],
                \A i \in Offsets : i \notin get .. get + size - 1 => rest[i] = entries[i]
         PROVE  /\ size \in Nat \ {0}
                /\ get + size =< total_entry_count
                /\ next \in Offsets
                /\ Tiles(starts \ {get}, rest, next, P)
                /\ Edge(starts \ {get}, P, next)
                /\ \A x \in Offsets : Edge(starts, P, x) /\ x # get =>
                     /\ Edge(starts \ {get}, P, x)
                     /\ size =< Ahead(get, x)
                     /\ get < x => get + size =< x
    BY <1>4, <1>9, <1>10, <1>11, TilesExecute
  <1>12. /\ size \in Nat \ {0} /\ get + size =< total_entry_count /\ next \in Offsets
         /\ size =< Ahead(get, put_offset)
         /\ get < put_offset => get + size =< put_offset
    <2>1. Edge(starts, P, put_offset) /\ put_offset # get
      BY <1>1, <1>6, <1>8, <1>10
    <2> QED BY <1>4, <1>11, <2>1
  <1>13. from(next) = from(get) + size /\ from(next) =< from(put_offset)
    <2>1. Ahead(get, put_offset) = from(put_offset) - from(get)
      <3>1. from(get) =< from(put_offset)
        <4> HIDE DEF from
        <4> QED BY <1>4, <1>5, <1>7
      <3> QED BY <1>4, <3>1, AheadFrom
    <2>2. from(get) + size =< from(put_offset) /\ from(get) + size < total_entry_count
      <3> HIDE DEF from, get, size
      <3> QED BY <1>4, <1>5, <1>12, <2>1
    <2>3. from(next) = from(get) + size
      BY <1>4, <1>12, <2>2, AheadAfter
    <2> QED BY <2>2, <2>3
  <1>14. ASSUME NEW rest \in [Offsets -> Entries],
                \A i \in Offsets : i \notin get .. get + size - 1 => rest[i] = entries[i]
         PROVE  \E more \in SUBSET Offsets :
                  /\ Tiles(more, rest, next, P)
                  /\ Edge(more, P, next)
                  /\ \A i \in DOMAIN tasks : Edge(more, P, tasks[i].put)
    <2>1. \A i \in DOMAIN tasks : Edge(starts \ {get}, P, tasks[i].put)
      BY <1>6, <1>8, <1>10, <1>11, <1>14
    <2>2. Tiles(starts \ {get}, rest, next, P) /\ Edge(starts \ {get}, P, next)
      BY <1>11, <1>14
    <2>3. starts \ {get} \in SUBSET Offsets
      OBVIOUS
    <2> HIDE DEF next, P, get
    <2> QED BY <2>1, <2>2, <2>3
  <1> QED BY <1>1, <1>2, <1>3, <1>4, <1>6, <1>8, <1>9, <1>12, <1>13, <1>14

\* A command lies within what may be read, and the service stops at the flush's
\* end.
LEMMA ExecuteKeeps == IInv /\ Execute => IInv'
  <1> SUFFICES ASSUME IInv, Execute
               PROVE  IInv'
    OBVIOUS
  <1> DEFINE get == service.get_offset
             cmd == entries[get]
             size == cmd.size
             next == OffsetAfter(get, size)
             readable == IF put_offset < get THEN total_entry_count - get ELSE put_offset - get
             executed == [service EXCEPT
                            !.get_offset = (@ + size) % total_entry_count,
                            !.token = IF cmd.op = "set_token" THEN cmd.arg ELSE @]
             from(x) == Ahead(last_state.get_offset, x)
  <1>1. /\ gpu_pc = "decode"
        /\ UNCHANGED <<helper, last_state, last_put_offset, transfer, client, dropped,
                       tasks, state_after_last_flush, flush_event, put_offset>>
        /\ gpu_pc' = IF IsError(service)' \/ service'.get_offset = put_offset
                     THEN "publish" ELSE "decode"
    BY DEF Execute, client_vars, IsError
  <1>2. /\ ~IsError(service) /\ helper.have_ring_buffer /\ tasks # <<>>
        /\ OffsetsInOrder(Now) /\ PublishedInOrder
        /\ get \in Offsets /\ put_offset \in Offsets
        /\ size \in Nat \ {0} /\ get + size =< total_entry_count
        /\ get < put_offset => get + size =< put_offset
        /\ put_offset # get
        /\ next \in Offsets /\ from(next) = from(get) + size
        /\ from(next) =< from(put_offset) /\ from(put_offset) =< from(last_put_offset)
        /\ tasks[1].put = put_offset
    BY <1>1, NextCommandIs
  <1>3. \A rest \in [Offsets -> Entries] :
          (\A i \in Offsets : i \notin get .. get + size - 1 => rest[i] = entries[i]) =>
            \E starts \in SUBSET Offsets :
              /\ Tiles(starts, rest, next, PutOffset(helper))
              /\ Edge(starts, PutOffset(helper), next)
              /\ \A i \in DOMAIN tasks : Edge(starts, PutOffset(helper), tasks[i].put)
    BY <1>1, NextCommandIs
  <1>4. IF size = 0 \/ size > readable
        THEN service' = [service EXCEPT !.error = "kParseError"] /\ UNCHANGED entries
        ELSE /\ entries' = [i \in Offsets |->
                              IF i >= get /\ i < get + size THEN Stale ELSE entries[i]]
             /\ service' = executed \/ service' = [executed EXCEPT !.error = "kLostContext"]
    BY DEF Execute
  <1>5. ~(size = 0 \/ size > readable)
    <2> HIDE DEF get, size
    <2>1. get \in Nat /\ put_offset \in Nat /\ total_entry_count \in Nat
      BY <1>2, OffsetsAreNat, CommandBufferAssumption
    <2> QED BY <1>2, <2>1
  <1>6. entries \in [Offsets -> Entries] /\ cmd \in Entries /\ service \in States
        /\ last_state.get_offset \in Offsets /\ last_put_offset \in Offsets
        /\ state_after_last_flush.get_offset \in Offsets
    BY <1>2 DEF IInv, TypeOK, States
  <1>7. next = (get + size) % total_entry_count
    <2> HIDE DEF get, size
    <2>1. get + size \in 0 .. total_entry_count /\ total_entry_count \in Nat \ {0}
      BY <1>2, OffsetsAreNat, CommandBufferAssumption
    <2> QED BY <2>1, ModWrap DEF OffsetAfter
  <1>8. cmd.op = "set_token" => cmd.arg \in Tokens
    BY <1>6 DEF Entries, Commands, Noops, Argument, Stale, Cmd
  <1>9. /\ executed \in States /\ executed.get_offset = next /\ executed.error = service.error
    <2> DEFINE token == IF cmd.op = "set_token" THEN cmd.arg ELSE service.token
    <2>1. token \in Tokens
      BY <1>6, <1>8 DEF States
    <2> HIDE DEF token, next
    <2>2. executed = [service EXCEPT !.get_offset = next, !.token = token]
      BY <1>6, <1>7 DEF States, token
    <2> HIDE DEF executed
    <2> QED BY <1>2, <1>6, <2>1, <2>2 DEF States
  <1>10. /\ service' \in States /\ service'.get_offset = next /\ service'.error # "kParseError"
         /\ ~IsError(service)' => service' = executed
    <2> HIDE DEF executed, next
    <2>1. service' = executed \/ service' = [executed EXCEPT !.error = "kLostContext"]
      BY <1>4, <1>5
    <2>2. executed.error # "kParseError"
      BY <1>9 DEF IInv, NoParseError
    <2> QED BY <1>9, <2>1, <2>2 DEF States, Errors, IsError
  <1>11. /\ entries' \in [Offsets -> Entries]
         /\ \A i \in Offsets : i \notin get .. get + size - 1 => entries'[i] = entries[i]
    <2>1. entries' = [i \in Offsets |->
                        IF i >= get /\ i < get + size THEN Stale ELSE entries[i]]
      BY <1>4, <1>5
    <2>2. Stale \in Entries
      BY DEF Entries
    <2>3. \A i \in Offsets : i \notin get .. get + size - 1 => ~(i >= get /\ i < get + size)
      <3> HIDE DEF get, size
      <3> QED BY <1>2, OffsetsAreNat
    <2> HIDE DEF get, size
    <2> QED BY <1>6, <2>1, <2>2, <2>3
  <1> HIDE DEF get, cmd, size, next, executed, readable
  <1>12. TypeOK'
    <2>1. gpu_pc' \in {"publish", "decode"}
      BY <1>1
    <2> QED BY <1>1, <1>10, <1>11, <2>1 DEF IInv, TypeOK, BlocksTile, ClientOK
  <1>13. RoomInRing'
    BY <1>1 DEF IInv, RoomInRing
  <1>14. ErrorsArePassedOn'
    <2>1. ~IsError(last_state) /\ ~IsError(state_after_last_flush)
      BY <1>2 DEF IInv, ErrorsArePassedOn
    <2> QED BY <1>1, <2>1 DEF ErrorsArePassedOn, IsError
  <1>15. TasksFollow'
    <2>1. gpu_pc # "idle"
      BY <1>1
    <2> QED BY <1>1, <2>1 DEF IInv, TasksFollow
  <1>16. NoParseError'
    BY <1>10 DEF NoParseError
  <1>17. ASSUME ~IsError(service)'
         PROVE  /\ PublishedInOrder' /\ OffsetsInOrder(Now)' /\ RoomIsFree(helper)'
                /\ RingIsTiled(Now)' /\ WrapWaitsForStart'
    <2>1. RoomIsFree(helper) /\ WrapWaitsForStart
      BY <1>2 DEF IInv
    <2>2. /\ Now'.h = helper /\ Now'.entries = entries' /\ Now.h = helper
          /\ Now'.tasks = tasks /\ Now'.last_put = last_put_offset
          /\ Now.tasks = tasks /\ Now.last_put = last_put_offset
      BY <1>1 DEF Now
    <2>3. \A x \in Offsets : from(x) \in Nat
      BY <1>6, AheadType, OffsetsAreNat
    <2>4. PublishedInOrder'
      <3>1. from(state_after_last_flush.get_offset) =< from(get)
        BY <1>2 DEF PublishedInOrder, get
      <3>2. from(state_after_last_flush.get_offset) =< from(next)
        <4> HIDE DEF from
        <4> QED BY <1>2, <1>6, <2>3, <3>1
      <3> QED BY <1>1, <1>10, <3>2 DEF PublishedInOrder
    <2>5. OffsetsInOrder(Now)'
      <3>1. from(next) =< from(last_put_offset)
        <4> HIDE DEF from
        <4> QED BY <1>2, <1>6, <2>3
      <3>2. CASE next = put_offset
        BY <1>1, <1>2, <1>10, <1>17, <2>2, <3>1, <3>2 DEF OffsetsInOrder
      <3>3. CASE next # put_offset
        <4>1. gpu_pc' = "decode"
          BY <1>1, <1>10, <1>17, <3>3
        <4>2. from(next) # from(put_offset)
          BY <1>2, <1>6, <3>3, AheadInjective
        <4>3. from(next) < from(tasks[1].put)
          <5> HIDE DEF from
          <5> QED BY <1>2, <2>3, <4>2
        <4> QED BY <1>1, <1>2, <1>10, <2>2, <3>1, <4>1, <4>3 DEF OffsetsInOrder
      <3> QED BY <3>2, <3>3
    <2>6. RoomIsFree(helper)'
      BY <1>1, <2>1 DEF RoomIsFree
    <2>7. RingIsTiled(Now)'
      <3>1. PICK starts \in SUBSET Offsets :
              /\ Tiles(starts, entries', next, PutOffset(helper))
              /\ Edge(starts, PutOffset(helper), next)
              /\ \A i \in DOMAIN tasks : Edge(starts, PutOffset(helper), tasks[i].put)
        BY <1>3, <1>11
      <3>2. CommandsTile(Now, starts)'
        BY <1>10, <2>2, <3>1 DEF CommandsTile
      <3> QED BY <3>2 DEF RingIsTiled
    <2>8. WrapWaitsForStart'
      BY <1>1, <2>1 DEF WrapWaitsForStart
    <2> QED BY <2>4, <2>5, <2>6, <2>7, <2>8
  <1> QED BY <1>1, <1>2, <1>12, <1>13, <1>14, <1>15, <1>16, <1>17 DEF IInv

-----------------------------------------------------------------------------
(* The theorems.                                                           *)

LEMMA InitHolds == Init => IInv
  <1> SUFFICES ASSUME Init
               PROVE  IInv
    OBVIOUS
  <1> DEFINE h0 == [put |-> 0, last_put_sent |-> 0, immediate |-> 0, token |-> 0,
                    have_ring_buffer |-> TRUE]
             s0 == [Now EXCEPT !.h = h0]
  <1>1. /\ 0 \in Offsets /\ 0 \in Tokens /\ 0 \in 0 .. total_entry_count
        /\ 0 < total_entry_count /\ total_entry_count \in Nat
    BY CommandBufferAssumption DEF Offsets, Tokens
  <1>2. h0 \in Helpers /\ h0.put = 0 /\ h0.have_ring_buffer
    BY <1>1 DEF Helpers
  <1> HIDE DEF h0
  <1>3. /\ entries = [i \in Offsets |-> Stale] /\ helper = CalcImmediateEntries(h0, 0, 0)
        /\ last_state = State0 /\ last_put_offset = 0 /\ transfer = Empty /\ client = Ready
        /\ dropped = FALSE /\ tasks = <<>> /\ state_after_last_flush = State0
        /\ flush_event = FALSE /\ gpu_pc = "idle" /\ service = State0 /\ put_offset = 0
    BY DEF Init, h0
  <1>4. /\ State0 \in States /\ State0.get_offset = 0 /\ State0.error = "kNoError"
        /\ ~IsError(State0)
    BY <1>1 DEF State0, States, Errors, IsError
  <1>5. entries \in [Offsets -> Entries]
    BY <1>3 DEF Entries
  <1>6. PutOffset(h0) = 0
    BY <1>1, <1>2, PutOffsetType
  <1>7. /\ helper \in Helpers /\ helper.put = 0 /\ helper.have_ring_buffer
        /\ helper.put + helper.immediate =< total_entry_count
        /\ helper.immediate < total_entry_count /\ helper.immediate \in Nat
    <2>1. PICK n \in 0 .. total_entry_count :
            /\ helper = [h0 EXCEPT !.immediate = n]
            /\ 0 + n =< total_entry_count
            /\ Ahead(0, 0) + n < total_entry_count
      BY <1>1, <1>2, <1>3, CalcImmediateEntriesIs
    <2>2. helper \in Helpers /\ helper.put = 0 /\ helper.have_ring_buffer /\ helper.immediate = n
      BY <1>2, <2>1 DEF Helpers
    <2>3. Ahead(0, 0) = 0
      BY <1>1, AheadType
    <2> QED BY <1>1, <2>1, <2>2, <2>3
  <1>8. PutOffset(helper) = 0 /\ Ahead(0, 0) = 0
    BY <1>1, <1>7, PutOffsetType, AheadType
  <1>9. TypeOK
    <2>1. <<>> \in Seq(Tasks)
      OBVIOUS
    <2>2. ClientOK
      BY <1>3, ClientIs DEF ClientOK, Pcs
    <2> QED BY <1>1, <1>3, <1>4, <1>5, <1>7, <2>1, <2>2, EmptyTile DEF TypeOK
  <1>10. RoomInRing
    BY <1>1, <1>3, <1>7, ClientIs DEF RoomInRing
  <1>11. ErrorsArePassedOn /\ NoParseError
    BY <1>3, <1>4 DEF ErrorsArePassedOn, NoParseError
  <1>12. TasksFollow
    BY <1>3, ClientIs DEF TasksFollow
  <1>13. /\ Now.h = helper /\ Now.entries = entries /\ Now.tasks = <<>> /\ Now.last_put = 0
    BY <1>3 DEF Now
  <1>14. PublishedInOrder
    BY <1>3, <1>4, <1>8 DEF PublishedInOrder
  <1>15. OffsetsInOrder(Now)
    BY <1>1, <1>3, <1>4, <1>7, <1>8, <1>13 DEF OffsetsInOrder
  <1>16. RoomIsFree(helper)
    BY <1>1, <1>3, <1>4, <1>7, <1>8 DEF RoomIsFree
  <1>17. RingIsTiled(Now)
    <2>1. CommandsTile(Now, {})
      BY <1>3, <1>4, <1>8, <1>13 DEF CommandsTile, Tiles, Edge
    <2> QED BY <2>1 DEF RingIsTiled
  <1>18. WrapWaitsForStart
    BY <1>3, ClientIs DEF WrapWaitsForStart
  <1> QED BY <1>7, <1>9, <1>10, <1>11, <1>12, <1>14, <1>15, <1>16, <1>17, <1>18 DEF IInv

LEMMA StutterKeeps == IInv /\ UNCHANGED vars => IInv'
  <1> SUFFICES ASSUME IInv, UNCHANGED vars
               PROVE  IInv'
    OBVIOUS
  <1>1. UNCHANGED <<entries, helper, last_state, last_put_offset, transfer, client, dropped,
                    tasks, state_after_last_flush, flush_event, gpu_pc, service, put_offset>>
    BY DEF vars, client_vars, gpu_vars
  <1>2. TypeOK' /\ RoomInRing' /\ ErrorsArePassedOn' /\ TasksFollow' /\ NoParseError'
    BY <1>1 DEF IInv, TypeOK, RoomInRing, ErrorsArePassedOn, TasksFollow, NoParseError,
                IsError, BlocksTile, ClientOK
  <1>3. Now' = Now /\ (IsError(service)' <=> IsError(service))
    BY <1>1 DEF Now, IsError
  <1>4. /\ PublishedInOrder => PublishedInOrder'
        /\ OffsetsInOrder(Now) => OffsetsInOrder(Now)'
        /\ RoomIsFree(helper) => RoomIsFree(helper)'
        /\ RingIsTiled(Now) => RingIsTiled(Now)'
        /\ WrapWaitsForStart => WrapWaitsForStart'
        /\ NothingWithoutRing => NothingWithoutRing'
    BY <1>1, <1>3 DEF PublishedInOrder, OffsetsInOrder, RoomIsFree, RingIsTiled, CommandsTile,
                      WrapWaitsForStart, NothingWithoutRing, NothingLeft
  <1> QED BY <1>1, <1>2, <1>3, <1>4 DEF IInv

LEMMA NextKeeps == IInv /\ [Next]_vars => IInv'
  <1>1. IInv /\ GpuStep => IInv'
    BY StartFlushKeeps, ExecuteKeeps, PublishStateKeeps, SignalFlushKeeps,
       DestroyTransferBufferKeeps, SetGetBufferKeeps DEF GpuStep
  <1>2. IInv /\ WaitReturns => IInv'
    BY WrapReturnsKeeps, RoomReturnsKeeps, FinishReturnsKeeps, TokenReturnsKeeps DEF WaitReturns
  <1>3. IInv /\ ClientStep => IInv'
    BY <1>2, FinishHelperKeeps, AllocRoundKeeps, FlushTokenKeeps, PollKeeps, WokenKeeps,
       SetGetBufferReturnsKeeps DEF ClientStep
  <1>4. IInv /\ Call => IInv'
    BY IssueKeeps, ReleaseKeeps, FlushKeeps, OrderingBarrierKeeps, FinishKeeps, AllocKeeps,
       DiscardBlockKeeps, FreeRingBufferKeeps DEF Call
  <1> QED BY <1>1, <1>3, <1>4, StutterKeeps DEF Next

\* The inductive invariant.
THEOREM IInvHolds == Spec => []IInv
  BY InitHolds, NextKeeps, PTL DEF Spec

\* The members keep their types and ranges, and the blocks of the transfer ring
\* never overlap.
THEOREM TypesAreKept == Spec => []TypeOK
  <1>1. IInv => TypeOK
    BY DEF IInv
  <1> QED BY <1>1, IInvHolds, PTL

\* The service meets only whole commands that were written for it, wherever put
\* and get stand and however the flushes and the polls interleave.
THEOREM ServiceParsesAll == Spec => []NoParseError
  <1>1. IInv => NoParseError
    BY DEF IInv
  <1> QED BY <1>1, IInvHolds, PTL

-----------------------------------------------------------------------------
(* The commands that wait: what the service finds if it reads on.          *)

\* f reads the last 0 .. n entries before put as Unread does.
Reads(f, ring, put, n) ==
  f = [k \in 0 .. n |->
         IF k = 0 THEN <<>>
         ELSE LET cmd == ring[Before(put, k)]
              IN Shown(cmd) \o (IF cmd.size \in 1 .. k THEN f[k - cmd.size] ELSE <<>>)]

\* A reading of the n entries before put exists, by the least n without one.
LEMMA ReadsExist ==
  ASSUME NEW ring, NEW put, NEW n \in Nat
  PROVE  \E f : Reads(f, ring, put, n)
  <1> DEFINE Without == {m \in Nat : ~\E f : Reads(f, ring, put, m)}
             Read(f, k) == LET cmd == ring[Before(put, k)]
                           IN Shown(cmd) \o (IF cmd.size \in 1 .. k THEN f[k - cmd.size] ELSE <<>>)
  <1> SUFFICES ASSUME Without # {}
               PROVE  FALSE
    OBVIOUS
  <1>1. PICK m \in Without : \A y \in Without : m =< y
    BY LeastOf
  <1>2. m # 0
    <2> DEFINE f == [k \in 0 .. 0 |-> <<>>]
    <2>1. Reads(f, ring, put, 0)
      BY DEF Reads
    <2> QED BY <1>1, <2>1
  <1>3. m - 1 \in Nat /\ m - 1 \notin Without
    BY <1>1, <1>2
  <1>4. PICK g : Reads(g, ring, put, m - 1)
    BY <1>3
  <1> DEFINE f == [k \in 0 .. m |-> IF k = m THEN Read(g, m) ELSE g[k]]
  <1>5. Reads(f, ring, put, m)
    <2>1. \A k \in 0 .. m - 1 : g[k] = IF k = 0 THEN <<>> ELSE Read(g, k)
      BY <1>4 DEF Reads
    <2>2. \A k \in 0 .. m - 1 : k \in 0 .. m /\ k # m
      BY <1>1
    <2>3. \A k \in 0 .. m : k # m => k \in 0 .. m - 1
      BY <1>1
    <2>4. \A k \in 0 .. m - 1 : f[k] = g[k]
      BY <2>2
    <2>5. f[m] = Read(g, m) /\ m \in 0 .. m
      <3> HIDE DEF Read
      <3>1. m \in 0 .. m
        BY <1>1
      <3> QED BY <3>1
    <2>6. f = [k \in 0 .. m |-> f[k]]
      OBVIOUS
    <2> HIDE DEF f
    <2>7. ASSUME NEW k \in 1 .. m
          PROVE  Read(f, k) = Read(g, k)
      <3> DEFINE cmd == ring[Before(put, k)]
      <3> HIDE DEF cmd
      <3>1. cmd.size \in 1 .. k => k - cmd.size \in 0 .. m - 1
        BY <1>1
      <3>2. cmd.size \in 1 .. k => f[k - cmd.size] = g[k - cmd.size]
        BY <2>4, <3>1
      <3> QED BY <3>2 DEF cmd
    <2>8. ASSUME NEW k \in 0 .. m
          PROVE  f[k] = IF k = 0 THEN <<>> ELSE Read(f, k)
      <3>1. k # 0 => k \in 1 .. m
        BY <1>1
      <3> HIDE DEF Read
      <3>2. CASE k = m
        BY <1>2, <2>5, <2>7, <3>1, <3>2
      <3>3. CASE k # m
        BY <2>1, <2>3, <2>4, <2>7, <3>1, <3>3
      <3> QED BY <3>2, <3>3
    <2> QED BY <2>6, <2>8 DEF Reads
  <1> QED BY <1>1, <1>5

\* What is shown of an entry is a sequence of entries.
LEMMA ShownType ==
  ASSUME NEW T, NEW cmd \in T
  PROVE  Shown(cmd) \in Seq(T)
  BY DEF Shown

\* Unread satisfies its recursion, and shows what is in the ring.
LEMMA UnreadFrom ==
  ASSUME NEW T, NEW ring \in [Offsets -> T], NEW put \in Offsets
  PROVE  LET last == Unread(ring, put)
         IN /\ last[0] = <<>>
            /\ \A n \in Offsets \ {0} :
                 LET cmd == ring[Before(put, n)]
                 IN last[n] = Shown(cmd) \o
                                (IF cmd.size \in 1 .. n THEN last[n - cmd.size] ELSE <<>>)
            /\ \A n \in Offsets : last[n] \in Seq(T)
  <1> DEFINE m == total_entry_count - 1
             last == CHOOSE f : Reads(f, ring, put, m)
             Wrong == {n \in Offsets : last[n] \notin Seq(T)}
  <1>1. m \in Nat /\ 0 .. m = Offsets /\ 0 \in Offsets
    BY CommandBufferAssumption DEF Offsets
  <1>2. Unread(ring, put) = last
    BY <1>1 DEF Unread, Reads
  <1>3. Reads(last, ring, put, m)
    BY <1>1, ReadsExist
  <1> HIDE DEF last, m
  <1>4. \A n \in Offsets : last[n] =
          IF n = 0 THEN <<>>
          ELSE LET cmd == ring[Before(put, n)]
               IN Shown(cmd) \o (IF cmd.size \in 1 .. n THEN last[n - cmd.size] ELSE <<>>)
    BY <1>1, <1>3 DEF Reads
  <1>5. Wrong = {}
    <2> SUFFICES ASSUME Wrong # {}
                 PROVE  FALSE
      OBVIOUS
    <2>1. Wrong \subseteq Nat
      BY OffsetsAreNat
    <2>2. PICK n \in Wrong : \A y \in Wrong : n =< y
      BY <2>1, LeastOf
    <2>3. n # 0
      <3>1. <<>> \in Seq(T)
        OBVIOUS
      <3> QED BY <1>4, <2>2, <3>1
    <2> DEFINE cmd == ring[Before(put, n)]
    <2>4. Before(put, n) \in Offsets
      BY <2>2, CommandBufferAssumption DEF Before, Offsets
    <2>5. cmd \in T /\ Shown(cmd) \in Seq(T)
      BY <2>4, ShownType
    <2>6. last[n] = Shown(cmd) \o (IF cmd.size \in 1 .. n THEN last[n - cmd.size] ELSE <<>>)
      BY <1>4, <2>2, <2>3
    <2> HIDE DEF cmd
    <2>7. cmd.size \in 1 .. n => n - cmd.size \in Offsets /\ ~(n =< n - cmd.size)
      BY <2>1, <2>2, CommandBufferAssumption DEF Offsets
    <2>8. cmd.size \in 1 .. n => last[n - cmd.size] \in Seq(T)
      BY <2>2, <2>7
    <2> DEFINE rest == IF cmd.size \in 1 .. n THEN last[n - cmd.size] ELSE <<>>
    <2>9. rest \in Seq(T)
      BY <2>8
    <2> HIDE DEF rest
    <2>10. Shown(cmd) \o rest \in Seq(T)
      BY <2>5, <2>9
    <2> QED BY <2>2, <2>6, <2>10 DEF rest
  <1>6. \A n \in Offsets : last[n] \in Seq(T)
    BY <1>5
  <1>7. \A n \in Offsets \ {0} :
          LET cmd == ring[Before(put, n)]
          IN last[n] = Shown(cmd) \o
                         (IF cmd.size \in 1 .. n THEN last[n - cmd.size] ELSE <<>>)
    BY <1>4
  <1>8. last[0] = <<>>
    BY <1>1, <1>4
  <1> QED BY <1>2, <1>6, <1>7, <1>8

LEMMA UnreadIs ==
  ASSUME NEW ring \in [Offsets -> Entries], NEW put \in Offsets
  PROVE  LET last == Unread(ring, put)
         IN /\ last[0] = <<>>
            /\ \A n \in Offsets \ {0} :
                 LET cmd == ring[Before(put, n)]
                 IN last[n] = Shown(cmd) \o
                                (IF cmd.size \in 1 .. n THEN last[n - cmd.size] ELSE <<>>)
            /\ \A n \in Offsets : last[n] \in Seq(Entries)
  BY UnreadFrom

\* What waits from an edge on.
Waiting(ring, put, x) == Unread(ring, put)[Ahead(x, put)]

\* The tile after x lies between x and put.
LEMMA NextIs ==
  ASSUME NEW ring \in [Offsets -> Entries], NEW starts \in SUBSET Offsets,
         NEW get \in Offsets, NEW put \in Offsets,
         Tiles(starts, ring, get, put), NEW x \in starts
  PROVE  LET size == ring[x].size
             next == OffsetAfter(x, size)
         IN /\ size \in 1 .. Ahead(x, put)
            /\ next \in Offsets /\ Edge(starts, put, next)
            /\ Ahead(x, put) \in Offsets \ {0}
            /\ Ahead(next, put) = Ahead(x, put) - size
            /\ Before(put, Ahead(x, put)) = x
  <1> DEFINE size == ring[x].size
             next == OffsetAfter(x, size)
             n == Ahead(x, put)
  <1>1. x \in Offsets /\ size \in Nat
    BY SizesAreNat
  <1>2. /\ Ahead(get, x) < Ahead(get, put)
        /\ size > 0
        /\ x + size =< total_entry_count
        /\ Ahead(get, x) + size =< Ahead(get, put)
        /\ Edge(starts, put, next)
    BY DEF Tiles
  <1>3. Ahead(get, x) \in Nat /\ Ahead(get, put) \in Nat /\ n \in Offsets /\ n \in Nat
    BY <1>1, AheadType, OffsetsAreNat
  <1>4. n = Ahead(get, put) - Ahead(get, x)
    BY <1>1, <1>2, <1>3, AheadFrom
  <1> HIDE DEF n, size
  <1>5. size \in 1 .. n /\ n \in Offsets \ {0}
    BY <1>1, <1>2, <1>3, <1>4
  <1>6. next \in Offsets /\ Ahead(next, put) = n - size
    BY <1>1, <1>2, <1>5, CommandBufferAssumption DEF OffsetAfter, Ahead, Offsets, n
  <1>7. Before(put, n) = x
    BY <1>1, CommandBufferAssumption DEF Before, Ahead, Offsets, n
  <1> QED BY <1>2, <1>5, <1>6, <1>7 DEF n, size

\* At an edge the service finds the command there, and behind it what waits
\* at the next edge.
LEMMA WaitingIs ==
  ASSUME NEW ring \in [Offsets -> Entries], NEW starts \in SUBSET Offsets,
         NEW get \in Offsets, NEW put \in Offsets,
         Tiles(starts, ring, get, put)
  PROVE  /\ Waiting(ring, put, put) = <<>>
         /\ \A x \in starts :
              Waiting(ring, put, x) =
                Shown(ring[x]) \o Waiting(ring, put, OffsetAfter(x, ring[x].size))
         /\ \A x \in Offsets : Waiting(ring, put, x) \in Seq(Entries)
  <1>1. Waiting(ring, put, put) = <<>>
    BY AheadType, UnreadIs DEF Waiting
  <1>2. ASSUME NEW x \in starts
        PROVE  Waiting(ring, put, x) =
                 Shown(ring[x]) \o Waiting(ring, put, OffsetAfter(x, ring[x].size))
    <2> DEFINE n == Ahead(x, put)
               size == ring[x].size
    <2>1. /\ size \in 1 .. n /\ n \in Offsets \ {0}
          /\ Ahead(OffsetAfter(x, size), put) = n - size
          /\ Before(put, n) = x
      BY NextIs
    <2>2. Unread(ring, put)[n] = Shown(ring[x]) \o Unread(ring, put)[n - size]
      BY <2>1, UnreadIs
    <2> QED BY <2>1, <2>2 DEF Waiting
  <1>3. \A x \in Offsets : Waiting(ring, put, x) \in Seq(Entries)
    BY AheadType, UnreadIs DEF Waiting
  <1> QED BY <1>1, <1>2, <1>3

\* Induction along the tiles, from put back to get.
LEMMA TileInduction ==
  ASSUME NEW ring \in [Offsets -> Entries], NEW starts \in SUBSET Offsets,
         NEW get \in Offsets, NEW put \in Offsets,
         Tiles(starts, ring, get, put),
         NEW good, put \in good,
         \A x \in starts : OffsetAfter(x, ring[x].size) \in good => x \in good
  PROVE  \A x : Edge(starts, put, x) => x \in good
  <1> DEFINE Wrong == {Ahead(x, put) : x \in starts \ good}
  <1>1. Wrong = {}
    <2> SUFFICES ASSUME Wrong # {}
                 PROVE  FALSE
      OBVIOUS
    <2>1. Wrong \subseteq Nat
      BY AheadType, OffsetsAreNat
    <2>2. PICK n \in Wrong : \A y \in Wrong : n =< y
      BY <2>1, LeastOf
    <2>3. PICK x \in starts \ good : n = Ahead(x, put)
      BY <2>2
    <2> DEFINE next == OffsetAfter(x, ring[x].size)
    <2>4. /\ ring[x].size \in 1 .. n
          /\ Edge(starts, put, next)
          /\ Ahead(next, put) = n - ring[x].size
      BY <2>3, NextIs
    <2>5. next \notin good
      BY <2>3
    <2>6. next \in starts \ good
      BY <2>4, <2>5 DEF Edge
    <2>7. Ahead(next, put) \in Wrong
      BY <2>6
    <2> HIDE DEF Wrong, next
    <2>8. n =< n - ring[x].size
      BY <2>2, <2>4, <2>7
    <2> QED BY <2>1, <2>2, <2>4, <2>8
  <1> QED BY <1>1 DEF Edge

\* A command that is written waits behind the others; a noop is not seen.
LEMMA WaitingWritten ==
  ASSUME NEW ring \in [Offsets -> Entries], NEW starts \in SUBSET Offsets,
         NEW get \in Offsets, NEW put \in Offsets, NEW cmd \in Commands \cup Noops,
         put + cmd.size =< total_entry_count,
         Ahead(get, put) + cmd.size < total_entry_count,
         Tiles(starts, ring, get, put), Edge(starts, put, get)
  PROVE  Waiting(WriteAt(ring, put, cmd), OffsetAfter(put, cmd.size), get)
           = Waiting(ring, put, get) \o Shown(cmd)
  <1> DEFINE after == OffsetAfter(put, cmd.size)
             written == WriteAt(ring, put, cmd)
             good == {x \in Offsets :
                        Waiting(written, after, x) = Waiting(ring, put, x) \o Shown(cmd)}
  <1>1. cmd.size \in Nat \ {0} /\ cmd \in Entries /\ Argument \in Entries
    BY SizesAreNat DEF Entries
  <1>2. after \in Offsets
    BY <1>1, AheadAfter
  <1>3. written \in [Offsets -> Entries]
    BY <1>1 DEF WriteAt
  <1>4. Tiles(starts \cup {put}, written, get, after)
    BY TilesWrite
  <1>5. written[put] = cmd
    BY DEF WriteAt
  <1>6. ASSUME NEW x \in starts
        PROVE  written[x] = ring[x]
    <2>1. x # put
      <3>1. Ahead(get, x) < Ahead(get, put)
        BY DEF Tiles
      <3>2. Ahead(get, put) \in Nat
        BY AheadType, OffsetsAreNat
      <3> QED BY <3>1, <3>2
    <2>2. put < x => put + cmd.size =< x
      BY <1>4, <1>5 DEF Tiles
    <2>3. x \in Nat /\ put \in Nat
      BY OffsetsAreNat
    <2>4. ~(x > put /\ x < put + cmd.size)
      BY <1>1, <2>2, <2>3
    <2> QED BY <2>1, <2>4 DEF WriteAt
  <1> HIDE DEF written, after
  <1>7. /\ Waiting(written, after, after) = <<>>
        /\ \A x \in starts \cup {put} :
             Waiting(written, after, x) =
               Shown(written[x]) \o Waiting(written, after, OffsetAfter(x, written[x].size))
    <2>1. starts \cup {put} \in SUBSET Offsets
      OBVIOUS
    <2> QED BY <1>2, <1>3, <1>4, <2>1, WaitingIs
  <1>8. /\ Waiting(ring, put, put) = <<>>
        /\ \A x \in starts :
             Waiting(ring, put, x) =
               Shown(ring[x]) \o Waiting(ring, put, OffsetAfter(x, ring[x].size))
        /\ \A x \in Offsets : Waiting(ring, put, x) \in Seq(Entries)
    BY WaitingIs
  <1>9. Shown(cmd) \in Seq(Entries)
    BY <1>1, ShownType
  <1>10. put \in good
    <2>1. Waiting(written, after, put) = Shown(cmd) \o <<>>
      BY <1>5, <1>7 DEF after
    <2>2. Shown(cmd) \o <<>> = Shown(cmd) /\ <<>> \o Shown(cmd) = Shown(cmd)
      BY <1>9, ConcatEmptySeq
    <2> QED BY <1>8, <2>1, <2>2
  <1>11. ASSUME NEW x \in starts, OffsetAfter(x, ring[x].size) \in good
         PROVE  x \in good
    <2> DEFINE next == OffsetAfter(x, ring[x].size)
    <2>1. Waiting(written, after, x) = Shown(ring[x]) \o Waiting(written, after, next)
      BY <1>6, <1>7
    <2>2. Waiting(written, after, next) = Waiting(ring, put, next) \o Shown(cmd)
      BY <1>11
    <2>3. Waiting(ring, put, x) = Shown(ring[x]) \o Waiting(ring, put, next)
      BY <1>8
    <2>4. next \in Offsets
      BY NextIs
    <2>5. Shown(ring[x]) \in Seq(Entries) /\ Waiting(ring, put, next) \in Seq(Entries)
      BY <1>8, <2>4, ShownType
    <2>6. Shown(ring[x]) \o (Waiting(ring, put, next) \o Shown(cmd))
            = (Shown(ring[x]) \o Waiting(ring, put, next)) \o Shown(cmd)
      BY <1>9, <2>5, ConcatAssociative
    <2> HIDE DEF next
    <2> QED BY <2>1, <2>2, <2>3, <2>6
  <1> HIDE DEF good
  <1>12. get \in good
    BY <1>10, <1>11, TileInduction
  <1> QED BY <1>12 DEF good, written, after

\* Executing takes away the first command that waits, if it is not a noop.
LEMMA WaitingExecuted ==
  ASSUME NEW ring \in [Offsets -> Entries], NEW starts \in SUBSET Offsets,
         NEW get \in Offsets, NEW put \in Offsets, get # put,
         Tiles(starts, ring, get, put), Edge(starts, put, get),
         NEW rest \in [Offsets -> Entries],
         \A i \in Offsets : i \notin get .. get + ring[get].size - 1 => rest[i] = ring[i]
  PROVE  Waiting(ring, put, get) =
           Shown(ring[get]) \o Waiting(rest, put, OffsetAfter(get, ring[get].size))
  <1> DEFINE next == OffsetAfter(get, ring[get].size)
             left == starts \ {get}
             good == {x \in Offsets : Waiting(rest, put, x) = Waiting(ring, put, x)}
  <1>1. /\ ring[get].size \in Nat \ {0}
        /\ next \in Offsets
        /\ Tiles(left, rest, next, put)
        /\ Edge(left, put, next)
        /\ \A x \in Offsets : Edge(starts, put, x) /\ x # get =>
             (get < x => get + ring[get].size =< x)
    BY TilesExecute
  <1>2. /\ Waiting(ring, put, put) = <<>>
        /\ \A x \in starts :
             Waiting(ring, put, x) =
               Shown(ring[x]) \o Waiting(ring, put, OffsetAfter(x, ring[x].size))
    BY WaitingIs
  <1>3. left \in SUBSET Offsets
    OBVIOUS
  <1> HIDE DEF left, next
  <1>4. /\ Waiting(rest, put, put) = <<>>
        /\ \A x \in left :
             Waiting(rest, put, x) =
               Shown(rest[x]) \o Waiting(rest, put, OffsetAfter(x, rest[x].size))
    <2>1. Tiles(left, rest, next, put) /\ next \in Offsets
      BY <1>1
    <2> HIDE DEF good
    <2> QED BY <1>3, <2>1, WaitingIs
  <1>5. ASSUME NEW x \in left
        PROVE  x \in Offsets /\ x \in starts /\ rest[x] = ring[x]
    <2>1. x \in Offsets /\ x # get /\ x \in starts
      BY DEF left
    <2>2. get < x => get + ring[get].size =< x
      BY <1>1, <2>1 DEF Edge
    <2>3. x \in Nat /\ get \in Nat
      BY <2>1, OffsetsAreNat
    <2>4. x \notin get .. get + ring[get].size - 1
      BY <1>1, <2>1, <2>2, <2>3
    <2> QED BY <2>1, <2>4
  <1>6. put \in good
    BY <1>2, <1>4
  <1>7. ASSUME NEW x \in left, OffsetAfter(x, rest[x].size) \in good
        PROVE  x \in good
    BY <1>2, <1>4, <1>5, <1>7
  <1> HIDE DEF good
  <1>8. next \in good
    BY <1>1, <1>3, <1>6, <1>7, TileInduction
  <1>9. get \in starts
    BY DEF Edge
  <1> QED BY <1>2, <1>8, <1>9 DEF good, next


\* The commands that wait in the buffer s.
Pending(s) ==
  IF IsError(service) \/ ~s.h.have_ring_buffer THEN <<>>
  ELSE Waiting(s.entries, PutOffset(s.h), service.get_offset)

\* What the service finds is what waits in the buffer as it is.
LEMMA PendingIs == Unexecuted = Pending(Now)
  BY DEF Unexecuted, Pending, Now, Waiting

\* The helper's functions but for those that write keep what waits.
Same(s, t) ==
  /\ t.entries = s.entries
  /\ t.h \in Helpers
  /\ t.h.have_ring_buffer = s.h.have_ring_buffer
  /\ t.h.token = s.h.token
  /\ PutOffset(t.h) = PutOffset(s.h)

\* What waits depends on the entries between get and put_ only.
LEMMA SamePending ==
  ASSUME NEW s, NEW t, Same(s, t)
  PROVE  Pending(t) = Pending(s)
  BY DEF Same, Pending

\* A flush that is queued writes no entry.
LEMMA QueueFlushIs ==
  ASSUME NEW s \in Buffers, NEW put
  PROVE  \E queue, last :
           QueueFlush(s, put) = [s EXCEPT !.tasks = queue, !.last_put = last]
  <1>1. s = [h |-> s.h, entries |-> s.entries, tasks |-> s.tasks, last_put |-> s.last_put]
    BY DEF Buffers
  <1>2. s = [s EXCEPT !.tasks = s.tasks, !.last_put = s.last_put]
    BY <1>1
  <1> DEFINE queue == Append(s.tasks, [kind |-> "flush", put |-> put])
  <1>3. CASE IsError(last_state) \/ s.last_put = put
    BY <1>2, <1>3 DEF QueueFlush
  <1>4. CASE ~(IsError(last_state) \/ s.last_put = put)
    <2>1. QueueFlush(s, put) = [s EXCEPT !.tasks = queue, !.last_put = put]
      BY <1>4 DEF QueueFlush
    <2> HIDE DEF queue
    <2> QED BY <2>1
  <1> QED BY <1>3, <1>4

\* Recomputing the room for immediate writes writes no entry.
LEMMA CalcSame ==
  ASSUME NEW h \in Helpers, last_state \in States, NEW w \in Nat, h.put < total_entry_count
  PROVE  LET c == CalcImmediateEntries(h, last_state.get_offset, w)
         IN /\ c \in Helpers /\ c.put = h.put /\ c.have_ring_buffer = h.have_ring_buffer
            /\ c.token = h.token /\ PutOffset(c) = PutOffset(h)
  <1> DEFINE c == CalcImmediateEntries(h, last_state.get_offset, w)
  <1>1. \E n \in 0 .. total_entry_count : c = [h EXCEPT !.immediate = n]
    <2>1. last_state.get_offset \in Offsets
      BY DEF States
    <2> QED BY <2>1, CalcImmediateEntriesIs
  <1> HIDE DEF c
  <1>2. /\ c \in Helpers /\ c.put = h.put /\ c.have_ring_buffer = h.have_ring_buffer
        /\ c.token = h.token
    BY <1>1 DEF Helpers
  <1> QED BY <1>2, PutOffsetType DEF c

\* So does what follows from a new get offset.
LEMMA CalculatedSame ==
  ASSUME NEW s \in Buffers, last_state \in States, NEW w \in Nat, s.h.put < total_entry_count
  PROVE  LET c == CalcImmediateEntries(s.h, last_state.get_offset, w)
             t == [s EXCEPT !.h = c]
         IN Same(s, t) /\ t.h = c /\ c.put = s.h.put
  <1> DEFINE c == CalcImmediateEntries(s.h, last_state.get_offset, w)
  <1>1. s.h \in Helpers
    BY DEF Buffers
  <1>2. /\ c \in Helpers /\ c.put = s.h.put /\ c.have_ring_buffer = s.h.have_ring_buffer
        /\ c.token = s.h.token /\ PutOffset(c) = PutOffset(s.h)
    BY <1>1, CalcSame
  <1> HIDE DEF c
  <1>3. [s EXCEPT !.h = c].h = c /\ [s EXCEPT !.h = c].entries = s.entries
    BY DEF Buffers
  <1> QED BY <1>2, <1>3 DEF Same, c

\* A flush writes no entry, and turns put_ at the end to the start at most.
LEMMA FlushSame ==
  ASSUME NEW s \in Buffers, last_state \in States
  PROVE  /\ Same(s, FlushHelper(s))
         /\ Same(s, OrderingBarrierHelper(s))
         /\ FlushHelper(s).h.put = PutOffset(s.h)
  <1> DEFINE h == WrapPut(s.h)
             sent == [h EXCEPT !.last_put_sent = h.put]
             c == CalcImmediateEntries(sent, last_state.get_offset, 0)
             d == CalcImmediateEntries(h, last_state.get_offset, 0)
  <1>1. s.h \in Helpers
    BY DEF Buffers
  <1>2. /\ h \in Helpers /\ h.put \in Offsets /\ h.put = PutOffset(s.h)
        /\ h.put < total_entry_count /\ h.have_ring_buffer = s.h.have_ring_buffer
        /\ h.token = s.h.token
    BY <1>1, PutOffsetType, OffsetsAreNat
  <1> HIDE DEF h
  <1>3. /\ sent \in Helpers /\ sent.put = h.put /\ sent.token = h.token
        /\ sent.have_ring_buffer = h.have_ring_buffer
    BY <1>2 DEF Helpers
  <1> HIDE DEF sent
  <1>4. PutOffset(h) = h.put /\ PutOffset(sent) = h.put
    BY <1>2, <1>3, PutOffsetType, CommandBufferAssumption
  <1>5. /\ c \in Helpers /\ c.have_ring_buffer = s.h.have_ring_buffer
        /\ c.token = s.h.token /\ PutOffset(c) = PutOffset(s.h) /\ c.put = PutOffset(s.h)
    BY <1>2, <1>3, <1>4, CalcSame
  <1>6. /\ d \in Helpers /\ d.have_ring_buffer = s.h.have_ring_buffer
        /\ d.token = s.h.token /\ PutOffset(d) = PutOffset(s.h)
    BY <1>2, <1>4, CalcSame
  <1>7. PICK queue, last :
          QueueFlush(s, h.put) = [s EXCEPT !.tasks = queue, !.last_put = last]
    BY QueueFlushIs
  <1>8. /\ FlushHelper(s) = [QueueFlush(s, h.put) EXCEPT !.h = c]
        /\ OrderingBarrierHelper(s) = [QueueFlush(s, h.put) EXCEPT !.h = d]
    BY DEF FlushHelper, OrderingBarrierHelper, c, d, sent, h
  <1> HIDE DEF c, d
  <1>9. /\ FlushHelper(s).h = c /\ FlushHelper(s).entries = s.entries
        /\ OrderingBarrierHelper(s).h = d /\ OrderingBarrierHelper(s).entries = s.entries
    BY <1>7, <1>8 DEF Buffers
  <1> QED BY <1>5, <1>6, <1>9 DEF Same

\* Room up to the get offset that the client knows is room up to the service's.
LEMMA RoomBeforeGet ==
  ASSUME NEW s, Held(s), Known, ~IsError(service), s.h.put < total_entry_count,
         NEW n \in Nat,
         Ahead(last_state.get_offset, s.h.put) + n < total_entry_count
  PROVE  /\ s.h.put \in Offsets /\ PutOffset(s.h) = s.h.put
         /\ Ahead(service.get_offset, s.h.put) + n < total_entry_count
  <1> DEFINE from(x) == Ahead(last_state.get_offset, x)
             put == s.h.put
             get == service.get_offset
  <1>1. s \in Buffers /\ s.h \in Helpers /\ s.last_put \in Offsets
    BY DEF Held, Buffers
  <1>2. put \in Offsets /\ PutOffset(s.h) = put
    BY <1>1, PutOffsetType, CommandBufferAssumption DEF Helpers, Offsets
  <1>3. last_state.get_offset \in Offsets /\ get \in Offsets
    BY DEF Known, States
  <1>4. from(get) \in Nat /\ from(s.last_put) \in Nat /\ from(put) \in Nat
    BY <1>1, <1>2, <1>3, AheadType, OffsetsAreNat
  <1>5. from(get) =< from(s.last_put) /\ from(s.last_put) =< from(put)
    BY <1>2 DEF Held, OffsetsInOrder
  <1>6. Ahead(get, put) = from(put) - from(get)
    BY <1>2, <1>3, <1>4, <1>5, AheadFrom
  <1>7. from(put) + n < total_entry_count
    OBVIOUS
  <1>8. Ahead(get, put) + n < total_entry_count
    <2> HIDE DEF from, put, get
    <2> QED BY <1>4, <1>6, <1>7, CommandBufferAssumption
  <1> QED BY <1>2, <1>8

\* What is written at put_ waits behind the others.
LEMMA WritePending ==
  ASSUME NEW s, Held(s), Known, ~IsError(service), NEW cmd \in Commands \cup Noops,
         s.h.put < total_entry_count, s.h.put + cmd.size =< total_entry_count,
         Ahead(last_state.get_offset, s.h.put) + cmd.size < total_entry_count
  PROVE  /\ Waiting(WriteAt(s.entries, s.h.put, cmd), OffsetAfter(s.h.put, cmd.size),
                    service.get_offset)
              = Pending(s) \o Shown(cmd)
         /\ Pending(s) \in Seq(Entries)
  <1> DEFINE put == s.h.put
             get == service.get_offset
  <1>1. s.entries \in [Offsets -> Entries] /\ cmd.size \in Nat
    BY SizesAreNat DEF Held, Buffers
  <1>2. /\ put \in Offsets /\ PutOffset(s.h) = put
        /\ Ahead(get, put) + cmd.size < total_entry_count
    BY <1>1, RoomBeforeGet
  <1>3. PICK starts \in SUBSET Offsets : CommandsTile(s, starts)
    BY DEF Held, RingIsTiled
  <1>4. Tiles(starts, s.entries, get, put) /\ Edge(starts, put, get)
    BY <1>2, <1>3 DEF CommandsTile
  <1>5. get \in Offsets
    BY DEF Known, States
  <1>6. Pending(s) = Waiting(s.entries, put, get)
    BY <1>2 DEF Pending, Held
  <1>7. Waiting(s.entries, put, get) \in Seq(Entries)
    BY <1>1, <1>2, <1>4, <1>5, WaitingIs
  <1>8. put + cmd.size =< total_entry_count
    OBVIOUS
  <1> HIDE DEF put, get
  <1>9. Waiting(WriteAt(s.entries, put, cmd), OffsetAfter(put, cmd.size), get)
          = Waiting(s.entries, put, get) \o Shown(cmd)
    BY <1>1, <1>2, <1>4, <1>5, <1>8, WaitingWritten
  <1> QED BY <1>6, <1>7, <1>9 DEF put, get

\* What waits once cmd is issued too.
Longer(s, cmd) == IF IsError(service) THEN <<>> ELSE Append(Pending(s), cmd)

\* WriteCommand appends its command to what waits.
LEMMA WriteCommandPending ==
  ASSUME NEW s, Held(s), Known, Room(s.h), NEW cmd \in Commands,
         cmd.size =< s.h.immediate
  PROVE  LET t == WriteCommand(s, cmd)
         IN /\ Pending(t) = Longer(s, cmd) /\ t.h.token = s.h.token
            /\ t.h.have_ring_buffer
  <1> DEFINE put == s.h.put
             n == cmd.size
             h == [s.h EXCEPT !.put = put + n, !.immediate = s.h.immediate - n]
             ring == WriteAt(s.entries, put, cmd)
             t == [s EXCEPT !.entries = ring, !.h = h]
  <1>1. s \in Buffers /\ s.h \in Helpers /\ s.h.have_ring_buffer
    BY DEF Held, Buffers
  <1>2. /\ n \in Nat \ {0} /\ put \in Nat /\ s.h.immediate \in Nat
        /\ put + s.h.immediate =< total_entry_count
        /\ total_entry_count \in Nat
    BY <1>1, SizesAreNat, CommandBufferAssumption DEF Helpers, Room
  <1> HIDE DEF n
  <1>3. /\ put < total_entry_count /\ put + n =< total_entry_count
        /\ s.h.immediate - n \in 0 .. total_entry_count
        /\ put + n \in 0 .. total_entry_count
        /\ n =< s.h.immediate
    BY <1>2 DEF n
  <1>4. h \in Helpers /\ h.put = put + n /\ h.token = s.h.token /\ h.have_ring_buffer
    BY <1>1, <1>3 DEF Helpers
  <1> HIDE DEF h
  <1>5. PutOffset(h) = OffsetAfter(put, n) /\ PutOffset(s.h) = put
    BY <1>1, <1>2, <1>3, <1>4, PutOffsetType DEF OffsetAfter
  <1>6. WriteCommand(s, cmd) = t /\ t.h = h /\ t.entries = ring
    BY <1>1 DEF WriteCommand, Buffers, Helpers, h, n
  <1> HIDE DEF t, ring
  <1>7. ASSUME ~IsError(service)
        PROVE  Pending(t) = Append(Pending(s), cmd)
    <2>1. last_state.get_offset \in Offsets /\ put \in Offsets
      BY <1>2, <1>3 DEF Known, States, Offsets
    <2>2. Ahead(last_state.get_offset, put) \in Nat
      BY <2>1, AheadType, OffsetsAreNat
    <2>3. Ahead(last_state.get_offset, put) + s.h.immediate < total_entry_count
      BY <1>5, <1>7 DEF Room, RoomIsFree
    <2>4. Ahead(last_state.get_offset, put) + n < total_entry_count
      BY <1>2, <1>3, <2>2, <2>3
    <2>5. /\ Waiting(ring, PutOffset(h), service.get_offset) = Pending(s) \o Shown(cmd)
          /\ Pending(s) \in Seq(Entries)
      BY <1>3, <1>5, <1>7, <2>4, WritePending DEF n, ring
    <2>6. Shown(cmd) = <<cmd>> /\ cmd \in Entries
      BY DEF Shown, Commands, Entries
    <2>7. Pending(s) \o <<cmd>> = Append(Pending(s), cmd)
      BY <2>5, <2>6, AppendIsConcat
    <2> QED BY <1>4, <1>6, <1>7, <2>5, <2>6, <2>7 DEF Pending
  <1>8. IsError(service) => Pending(t) = <<>>
    BY DEF Pending
  <1> QED BY <1>4, <1>6, <1>7, <1>8 DEF Longer

\* The noops that fill the ring up to its end are not seen.
LEMMA FillPending ==
  ASSUME NEW s, Held(s), Known,
         ~IsError(service) => last_state.get_offset \in 1 .. s.h.put
  PROVE  LET t == FillWithNoops(s)
         IN Pending(t) = Pending(s) /\ t.h.token = s.h.token
  <1> DEFINE put == s.h.put
             left == total_entry_count - put
             noop == Cmd("noop", left, 0)
             h == [s.h EXCEPT !.put = 0]
             ring == IF left > 0 THEN WriteAt(s.entries, put, noop) ELSE s.entries
             t == FillWithNoops(s)
  <1>1. s \in Buffers /\ s.h \in Helpers /\ s.h.have_ring_buffer
    BY DEF Held, Buffers
  <1>2. put \in 0 .. total_entry_count /\ total_entry_count \in Nat \ {0}
    BY <1>1, CommandBufferAssumption DEF Helpers
  <1>3. h \in Helpers /\ h.have_ring_buffer /\ h.put = 0 /\ h.token = s.h.token
    BY <1>1, <1>2 DEF Helpers
  <1>4. t = [s EXCEPT !.entries = ring, !.h = h]
    <2>1. t = [s EXCEPT !.entries = ring, !.h.put = 0]
      BY DEF FillWithNoops
    <2> HIDE DEF ring, t
    <2> QED BY <1>1, <2>1 DEF Buffers
  <1> HIDE DEF h
  <1>5. PutOffset(h) = 0
    BY <1>2, <1>3, PutOffsetType
  <1>6. t.h = h /\ t.entries = ring
    <2> HIDE DEF ring, t
    <2> QED BY <1>1, <1>4 DEF Buffers
  <1> HIDE DEF t
  <1>7. IsError(service) => Pending(t) = Pending(s)
    BY DEF Pending
  <1>8. CASE ~IsError(service) /\ left > 0
    <2>1. left \in 1 .. total_entry_count /\ put < total_entry_count
      BY <1>2, <1>8
    <2>2. noop \in Noops /\ noop.size = left /\ noop.op = "noop"
      BY <2>1 DEF Noops, Cmd
    <2>3. ring = WriteAt(s.entries, put, noop)
      BY <1>8
    <2> HIDE DEF noop, ring
    <2>4. put + left = total_entry_count
      BY <1>2
    <2>5. Ahead(last_state.get_offset, put) + left < total_entry_count
      BY <1>2, <1>8 DEF Ahead
    <2>6. PutOffset(h) = OffsetAfter(put, noop.size)
      BY <1>5, <2>2, <2>4 DEF OffsetAfter
    <2>7. /\ Waiting(ring, PutOffset(h), service.get_offset) = Pending(s) \o Shown(noop)
          /\ Pending(s) \in Seq(Entries)
      <3>1. /\ noop \in Commands \cup Noops
            /\ put + noop.size =< total_entry_count
            /\ Ahead(last_state.get_offset, put) + noop.size < total_entry_count
        BY <1>2, <2>2, <2>4, <2>5
      <3> QED BY <1>8, <2>1, <2>3, <2>6, <3>1, WritePending
    <2>8. Shown(noop) = <<>>
      BY <2>2 DEF Shown
    <2>9. Pending(s) \o <<>> = Pending(s)
      BY <2>7, ConcatEmptySeq
    <2> QED BY <1>3, <1>6, <1>8, <2>7, <2>8, <2>9 DEF Pending, t
  <1>9. CASE ~IsError(service) /\ ~(left > 0)
    <2>1. put = total_entry_count
      BY <1>2, <1>9
    <2>2. PutOffset(s.h) = 0 /\ ring = s.entries
      BY <1>1, <1>9, <2>1, PutOffsetType
    <2> HIDE DEF ring
    <2> QED BY <1>1, <1>3, <1>5, <1>6, <2>2 DEF Pending, t
  <1> QED BY <1>3, <1>6, <1>7, <1>8, <1>9 DEF t


\* How a command goes: written, given up, or waiting for room or for a ring.
CommandGoes(s, cmd) ==
  \E t :
    /\ Put(t)
    /\ t.h.token = s.h.token
    /\ s.h.have_ring_buffer => t.h.have_ring_buffer
    /\ \/ /\ Pending(t) = Longer(s, cmd)
          /\ AfterCommand(cmd, TRUE)
          /\ UNCHANGED dropped
       \/ /\ Pending(t) = Pending(s)
          /\ AfterCommand(cmd, FALSE)
          /\ IsError(service) \/ dropped'
       \/ /\ Pending(t) = Pending(s)
          /\ client'.cmd = cmd
          /\ client'.pc \in {"poll", "set_get_buffer"}
          /\ client'.then \in {"room", "wrap", "return"}
          /\ UNCHANGED <<transfer, dropped>>

\* What precedes the command keeps what waits.
LEMMA CommandGoesOn ==
  ASSUME NEW r, NEW s, NEW cmd, CommandGoes(s, cmd),
         Pending(s) = Pending(r), s.h.token = r.h.token,
         r.h.have_ring_buffer => s.h.have_ring_buffer
  PROVE  CommandGoes(r, cmd)
  BY DEF CommandGoes, Longer

\* Where there is room the command is written.
LEMMA WrittenGoes ==
  ASSUME NEW s, Held(s), Room(s.h), Known, NEW cmd \in Commands,
         cmd.size =< s.h.immediate, Written(s, cmd)
  PROVE  CommandGoes(s, cmd)
  <1>1. /\ Pending(WriteCommand(s, cmd)) = Longer(s, cmd)
        /\ WriteCommand(s, cmd).h.token = s.h.token
        /\ WriteCommand(s, cmd).h.have_ring_buffer
    BY WriteCommandPending
  <1> QED BY <1>1 DEF Written, CommandGoes

\* From FindRoom on: the command is written, or waits for room.
LEMMA FindRoomGoes ==
  ASSUME NEW s, Held(s), Known, s.h.put < total_entry_count, NEW cmd \in Commands,
         FindRoom(s, cmd)
  PROVE  CommandGoes(s, cmd)
  <1> DEFINE calculated ==
               [s EXCEPT !.h = CalcImmediateEntries(@, last_state.get_offset, cmd.size)]
             flushed == FlushHelper(calculated)
             again ==
               [flushed EXCEPT !.h = CalcImmediateEntries(@, last_state.get_offset, cmd.size)]
  <1>1. cmd.size \in Nat /\ last_state \in States
    BY SizesAreNat DEF Known
  <1>2. s \in Buffers
    BY DEF Held
  <1>3. Held(calculated) /\ Room(calculated.h) /\ Same(s, calculated)
    BY <1>1, <1>2, CalcHeld, CalculatedSame
  <1> HIDE DEF calculated
  <1>4. Held(flushed) /\ flushed.h.put < total_entry_count /\ Same(calculated, flushed)
    BY <1>1, <1>3, FlushHeld, FlushSame DEF Held
  <1> HIDE DEF flushed
  <1>5. Held(again) /\ Room(again.h) /\ Same(flushed, again)
    BY <1>1, <1>4, CalcHeld, CalculatedSame DEF Held
  <1> HIDE DEF again
  <1>6. /\ Pending(calculated) = Pending(s) /\ calculated.h.token = s.h.token
        /\ Pending(again) = Pending(s) /\ again.h.token = s.h.token
        /\ calculated.h.have_ring_buffer /\ again.h.have_ring_buffer
    BY <1>3, <1>4, <1>5, SamePending DEF Same, Held
  <1>7. CASE calculated.h.immediate >= cmd.size
    <2>1. Written(calculated, cmd)
      BY <1>7 DEF FindRoom, calculated
    <2>2. cmd.size =< calculated.h.immediate
      BY <1>7
    <2> QED BY <1>3, <1>6, <2>1, <2>2, WrittenGoes, CommandGoesOn
  <1>8. CASE ~(calculated.h.immediate >= cmd.size) /\ again.h.immediate >= cmd.size
    <2>1. Written(again, cmd)
      BY <1>8 DEF FindRoom, calculated, flushed, again
    <2>2. cmd.size =< again.h.immediate
      BY <1>8
    <2> QED BY <1>5, <1>6, <2>1, <2>2, WrittenGoes, CommandGoesOn
  <1>9. CASE ~(calculated.h.immediate >= cmd.size) /\ ~(again.h.immediate >= cmd.size)
    <2>1. /\ Put(again)
          /\ client' = Wait("poll", cmd, again.h.put + cmd.size + 1, again.h.put, "room")
          /\ UNCHANGED <<transfer, dropped>>
      BY <1>9 DEF FindRoom, calculated, flushed, again
    <2>2. client'.cmd = cmd /\ client'.pc = "poll" /\ client'.then = "room"
      BY <2>1 DEF Wait
    <2> QED BY <1>6, <2>1, <2>2 DEF CommandGoes
  <1> QED BY <1>7, <1>8, <1>9

\* WaitForAvailableEntries wraps around the end, or looks for room, or waits.
LEMMA WaitForAvailableEntriesGoes ==
  ASSUME NEW s, Held(s), Room(s.h), Known, NEW cmd \in Commands,
         WaitForAvailableEntries(s, cmd)
  PROVE  CommandGoes(s, cmd)
  <1> DEFINE get == last_state.get_offset
             flushed == FlushHelper(s)
  <1>1. cmd.size \in Nat /\ cmd.size > 0 /\ cmd.size < total_entry_count
    BY SizesAreNat
  <1>2. /\ s \in Buffers /\ s.h.put \in 0 .. total_entry_count /\ total_entry_count \in Nat
        /\ last_state \in States
    BY CommandBufferAssumption DEF Held, Buffers, Helpers, Known
  <1>3. get \in Nat
    BY OffsetsAreNat DEF Known, States
  <1>4. CASE s.h.put + cmd.size =< total_entry_count
    <2>1. s.h.put < total_entry_count
      BY <1>1, <1>2, <1>4
    <2> QED BY <1>4, <2>1, FindRoomGoes DEF WaitForAvailableEntries
  <1>5. CASE ~(s.h.put + cmd.size =< total_entry_count) /\ (get > s.h.put \/ get = 0)
    <2>1. /\ Put(flushed)
          /\ client' = Wait("poll", cmd, 1, flushed.h.put, "wrap")
          /\ UNCHANGED <<transfer, dropped>>
      BY <1>5 DEF WaitForAvailableEntries
    <2>2. Same(s, flushed)
      BY <1>2, FlushSame
    <2> HIDE DEF flushed
    <2>3. /\ Pending(flushed) = Pending(s) /\ flushed.h.token = s.h.token
          /\ flushed.h.have_ring_buffer = s.h.have_ring_buffer
      BY <2>2, SamePending DEF Same
    <2>4. client'.cmd = cmd /\ client'.pc = "poll" /\ client'.then = "wrap"
      BY <2>1 DEF Wait
    <2> QED BY <2>1, <2>3, <2>4 DEF CommandGoes
  <1>6. CASE ~(s.h.put + cmd.size =< total_entry_count) /\ ~(get > s.h.put \/ get = 0)
    <2> DEFINE filled == FillWithNoops(s)
    <2>1. FindRoom(filled, cmd)
      BY <1>6 DEF WaitForAvailableEntries
    <2>2. get \in 1 .. s.h.put
      BY <1>2, <1>3, <1>6
    <2>3. /\ Held(filled) /\ filled.h.put = 0 /\ filled.h.have_ring_buffer
          /\ Pending(filled) = Pending(s) /\ filled.h.token = s.h.token
      BY <2>2, FillHeld, FillPending DEF Held
    <2> HIDE DEF filled
    <2>4. filled.h.put < total_entry_count
      BY <1>1, <1>2, <2>3
    <2> QED BY <2>1, <2>3, <2>4, FindRoomGoes, CommandGoesOn
  <1> QED BY <1>4, <1>5, <1>6

\* GetSpace flushes, waits and writes, or asks for a ring first.
LEMMA GetSpaceGoes ==
  ASSUME NEW s, (Held(s) /\ Room(s.h)) \/ Bare(s), Known, NEW cmd \in Commands,
         GetSpace(s, cmd)
  PROVE  CommandGoes(s, cmd)
  <1>1. CASE Held(s) /\ Room(s.h) /\ cmd.size =< s.h.immediate
    BY <1>1, WrittenGoes DEF GetSpace
  <1>2. CASE Held(s) /\ Room(s.h) /\ ~(cmd.size =< s.h.immediate)
    BY <1>2, WaitForAvailableEntriesGoes DEF GetSpace, Held
  <1>3. CASE Bare(s)
    <2> DEFINE queue == Append(s.tasks, [kind |-> "set_get_buffer", put |-> 0])
               t == [s EXCEPT !.tasks = queue]
    <2>1. s \in Buffers /\ ~s.h.have_ring_buffer /\ s.h.immediate = 0
      BY <1>3 DEF Bare
    <2>2. cmd.size \in Nat \ {0}
      BY SizesAreNat
    <2>3. ~(cmd.size =< s.h.immediate)
      BY <2>1, <2>2
    <2>4. Put(t) /\ client' = At("set_get_buffer", cmd) /\ UNCHANGED <<transfer, dropped>>
      BY <2>1, <2>3 DEF GetSpace
    <2> HIDE DEF queue
    <2>5. t.h = s.h
      BY <2>1 DEF Buffers
    <2> HIDE DEF t
    <2>6. Pending(t) = Pending(s)
      BY <2>1, <2>5 DEF Pending
    <2>7. client'.cmd = cmd /\ client'.pc = "set_get_buffer" /\ client'.then = "return"
      BY <2>4, ClientIs
    <2> QED BY <2>4, <2>5, <2>6, <2>7 DEF CommandGoes
  <1> QED BY <1>1, <1>2, <1>3

\* The commands of the ring that SetGetBufferReturns starts.
LEMMA AllocatedGoes ==
  ASSUME IInv, SetGetBufferReturns
  PROVE  CommandGoes(Now, client.cmd)
  <1> DEFINE cmd == client.cmd
             h == [helper EXCEPT !.put = 0, !.have_ring_buffer = TRUE]
             s == [Now EXCEPT !.h = h]
             c == CalcImmediateEntries(h, last_state.get_offset, 0)
             fresh == [Now EXCEPT !.h = c]
  <1>1. /\ client.pc = "get_buffer_set" /\ cmd \in Commands
        /\ tasks = <<>> /\ gpu_pc = "idle" /\ ~helper.have_ring_buffer
        /\ Now \in Buffers /\ Now.tasks = tasks /\ Known /\ helper \in Helpers
        /\ Now.last_put = last_put_offset /\ Now.h = helper
    BY InvariantIsHeld DEF SetGetBufferReturns, IInv, TypeOK, ClientOK, TasksFollow, Now
  <1>2. h \in Helpers /\ h.have_ring_buffer /\ h.put = 0 /\ h.token = helper.token
        /\ 0 < total_entry_count /\ total_entry_count \in Nat
    <2>1. 0 \in 0 .. total_entry_count /\ 0 < total_entry_count /\ total_entry_count \in Nat
      BY CommandBufferAssumption
    <2> QED BY <1>1, <2>1 DEF Helpers
  <1> HIDE DEF h
  <1>3. PutOffset(h) = 0
    BY <1>2, PutOffsetType
  <1>4. /\ s \in Buffers /\ s.h = h /\ s.tasks = <<>> /\ s.last_put = last_put_offset
        /\ s.entries = Now.entries
    BY <1>1, <1>2 DEF Buffers
  <1> HIDE DEF s
  <1>5. Held(s) /\ Pending(s) = <<>>
    <2>1. FlushesWait(s)
      BY <1>1, <1>4 DEF FlushesWait, FirstIsRun
    <2>2. ASSUME ~IsError(service)
          PROVE  OffsetsInOrder(s) /\ RingIsTiled(s) /\ Pending(s) = <<>>
      <3>1. service.get_offset = 0 /\ last_put_offset = 0
        BY <1>1, <2>2 DEF IInv, NothingWithoutRing
      <3>2. Ahead(last_state.get_offset, 0) =< Ahead(last_state.get_offset, 0)
        <4>1. last_state.get_offset \in Offsets /\ 0 \in Offsets
          BY <1>2 DEF IInv, TypeOK, States, Offsets
        <4>2. Ahead(last_state.get_offset, 0) \in Nat
          BY <4>1, AheadType, OffsetsAreNat
        <4> QED BY <4>2
      <3>3. OffsetsInOrder(s)
        BY <1>1, <1>2, <1>3, <1>4, <3>1, <3>2 DEF OffsetsInOrder
      <3>4. CommandsTile(s, {}) /\ Tiles({}, s.entries, 0, 0)
        BY <1>3, <1>4, <3>1 DEF CommandsTile, Tiles, Edge
      <3>5. Waiting(s.entries, 0, 0) = <<>>
        <4>1. 0 \in Offsets /\ s.entries \in [Offsets -> Entries]
          BY <1>2, <1>4 DEF Offsets, Buffers
        <4> QED BY <3>4, <4>1, WaitingIs
      <3> QED BY <1>2, <1>3, <1>4, <2>2, <3>1, <3>3, <3>4, <3>5 DEF RingIsTiled, Pending
    <2>3. IsError(service) => Pending(s) = <<>>
      BY DEF Pending
    <2> QED BY <1>2, <1>4, <2>1, <2>2, <2>3 DEF Held
  <1>6. Held(fresh) /\ fresh.h = c /\ Room(c) /\ Same(s, fresh)
    <2>1. /\ Held([s EXCEPT !.h = c]) /\ [s EXCEPT !.h = c].h = c /\ Room(c)
          /\ Same(s, [s EXCEPT !.h = c])
      <3>1. s.h.put < total_entry_count /\ 0 \in Nat /\ last_state \in States
        BY <1>1, <1>2, <1>4 DEF Known
      <3>2. CalcImmediateEntries(s.h, last_state.get_offset, 0) = c
        BY <1>4
      <3> HIDE DEF c
      <3> QED BY <1>1, <1>4, <1>5, <3>1, <3>2, CalcHeld, CalculatedSame
    <2>2. [s EXCEPT !.h = c] = fresh
      <3> HIDE DEF c
      <3> QED BY <1>1, HelperReplaced DEF s
    <2> QED BY <2>1, <2>2
  <1>7. IF cmd.op = "set_token" /\ cmd.size =< fresh.h.immediate THEN Written(fresh, cmd)
        ELSE WaitForAvailableEntries(fresh, cmd)
    <2>1. [Now.h EXCEPT !.put = 0, !.have_ring_buffer = TRUE] = h
      BY DEF Now, h
    <2> QED BY <2>1 DEF SetGetBufferReturns, Allocated
  <1> HIDE DEF fresh, c
  <1>8. CommandGoes(fresh, cmd)
    <2>1. CASE cmd.op = "set_token" /\ cmd.size =< fresh.h.immediate
      BY <1>1, <1>6, <1>7, <2>1, WrittenGoes
    <2>2. CASE ~(cmd.op = "set_token" /\ cmd.size =< fresh.h.immediate)
      BY <1>1, <1>6, <1>7, <2>2, WaitForAvailableEntriesGoes
    <2> QED BY <2>1, <2>2
  <1>9. Pending(fresh) = Pending(Now) /\ fresh.h.token = Now.h.token
    <2>1. Pending(Now) = <<>>
      BY <1>1 DEF Pending
    <2>2. Pending(fresh) = <<>>
      BY <1>5, <1>6, SamePending
    <2>3. fresh.h.token = helper.token
      BY <1>2, <1>4, <1>6 DEF Same
    <2> QED BY <1>1, <2>1, <2>2, <2>3
  <1> QED BY <1>1, <1>8, <1>9, CommandGoesOn

\* The return of the wait for the start of the ring.
LEMMA WrapReturnsGoes ==
  ASSUME IInv, WaitReturns, WrapReturns
  PROVE  CommandGoes(Now, client.cmd)
  <1>1. /\ client.pc = "return" /\ client.then = "wrap" /\ client.cmd \in Commands
        /\ helper.have_ring_buffer /\ Held(Now) /\ Known
        /\ Now.h = helper
    BY InvariantIsHeld DEF WaitReturns, WrapReturns, IInv, TypeOK, ClientOK, TasksFollow
  <1>2. CASE IsError(last_state)
    <2>1. Put(Now) /\ AfterCommand(client.cmd, FALSE)
      BY <1>2 DEF WrapReturns, GivenUp
    <2>2. IsError(service)
      BY <1>1, <1>2 DEF Known
    <2> QED BY <2>1, <2>2 DEF CommandGoes
  <1>3. CASE ~IsError(last_state)
    <2> DEFINE filled == FillWithNoops(Now)
    <2>1. FindRoom(filled, client.cmd)
      BY <1>3 DEF WrapReturns
    <2>2. ~IsError(service) => last_state.get_offset \in 1 .. helper.put
      BY <1>1 DEF IInv, WrapWaitsForStart
    <2>3. /\ Held(filled) /\ filled.h.put = 0 /\ filled.h.have_ring_buffer
          /\ Pending(filled) = Pending(Now) /\ filled.h.token = Now.h.token
      BY <1>1, <2>2, FillHeld, FillPending DEF Held
    <2>4. filled.h.put < total_entry_count
      BY <2>3, CommandBufferAssumption
    <2> HIDE DEF filled
    <2> QED BY <1>1, <2>1, <2>3, <2>4, FindRoomGoes, CommandGoesOn
  <1> QED BY <1>2, <1>3

\* The return of the wait for room.
LEMMA RoomReturnsGoes ==
  ASSUME IInv, WaitReturns, RoomReturns
  PROVE  CommandGoes(Now, client.cmd)
  <1> DEFINE cmd == client.cmd
             h == CalcImmediateEntries(helper, last_state.get_offset, cmd.size)
             s == [Now EXCEPT !.h = h]
  <1>1. /\ client.pc = "return" /\ client.then = "room" /\ cmd \in Commands
        /\ helper.have_ring_buffer /\ Held(Now) /\ Now \in Buffers /\ Known
        /\ Now.h = helper /\ helper.put < total_entry_count
    BY InvariantIsHeld DEF WaitReturns, RoomReturns, IInv, TypeOK, ClientOK, TasksFollow, RoomInRing
  <1>2. CASE IsError(last_state)
    <2>1. Put(Now) /\ AfterCommand(cmd, FALSE)
      BY <1>2 DEF RoomReturns, GivenUp
    <2>2. IsError(service)
      BY <1>1, <1>2 DEF Known
    <2> QED BY <2>1, <2>2 DEF CommandGoes
  <1>3. CASE ~IsError(last_state)
    <2>1. cmd.size \in Nat
      BY <1>1, SizesAreNat
    <2>2. Held(s) /\ s.h = h /\ Room(h) /\ Same(Now, s)
      BY <1>1, <2>1, CalcHeld, CalculatedSame DEF Known
    <2>3. s = [Now EXCEPT !.h = CalcImmediateEntries(@, last_state.get_offset, cmd.size)]
      BY <1>1
    <2>4. IF cmd.size =< s.h.immediate THEN Written(s, cmd)
          ELSE Put(s) /\ AfterCommand(cmd, FALSE) /\ dropped' = TRUE
      BY <1>3, <2>3 DEF RoomReturns
    <2> HIDE DEF s, h
    <2>5. /\ Pending(s) = Pending(Now) /\ s.h.token = Now.h.token
          /\ s.h.have_ring_buffer
      BY <2>2, SamePending DEF Same, Held
    <2>6. CASE cmd.size =< s.h.immediate
      BY <1>1, <2>2, <2>4, <2>5, <2>6, WrittenGoes, CommandGoesOn
    <2>7. CASE ~(cmd.size =< s.h.immediate)
      BY <2>4, <2>5, <2>7 DEF CommandGoes
    <2> QED BY <2>6, <2>7
  <1> QED BY <1>2, <1>3


-----------------------------------------------------------------------------
(* Every step is one of the stream's, or changes nothing of it.            *)

\* The stream's finishing, and a step of it or a stutter.
Finishing == client.pc # "ready" /\ client.cmd.op = "finish"
StreamStep == Stream!Next \/ UNCHANGED <<Unexecuted, IsError(service), Finishing>>

\* The invariant of the refinement.
RInv == IInv /\ FinishWaits

\* A step of the client leaves what waits in the buffer it puts.
LEMMA PendingNext ==
  ASSUME NEW t, Put(t), UNCHANGED service
  PROVE  Unexecuted' = Pending(t)
  BY DEF Put, Unexecuted, Pending, Waiting

\* Once the context is lost nothing will be executed.
LEMMA LostIsEmpty == IsError(service) => Unexecuted = <<>>
  BY DEF Unexecuted

\* A command is issued, or not yet.
LEMMA CommandIssued ==
  ASSUME NEW s, NEW cmd \in Commands, CommandGoes(s, cmd), Pending(s) = Unexecuted,
         ~Finishing, UNCHANGED service
  PROVE  /\ StreamStep
         /\ client'.then # "finish"
  <1>1. PICK t : /\ Put(t)
                 /\ \/ Pending(t) = Longer(s, cmd) /\ AfterCommand(cmd, TRUE)
                    \/ Pending(t) = Pending(s) /\ AfterCommand(cmd, FALSE)
                    \/ /\ Pending(t) = Pending(s) /\ client'.cmd = cmd
                       /\ client'.then \in {"room", "wrap", "return"}
    BY DEF CommandGoes
  <1>2. \/ Unexecuted' = Unexecuted
        \/ ~IsError(service) /\ Unexecuted' = Append(Unexecuted, cmd)
    <2>1. Unexecuted' = Pending(t)
      BY <1>1, PendingNext
    <2> QED BY <1>1, <2>1, LostIsEmpty DEF Longer
  <1>3. cmd.op # "finish"
    BY DEF Commands
  <1>4. /\ ~Finishing'
        /\ client'.then # "finish"
    <2>1. CASE client' = Ready \/ client' = At("finish", cmd)
      BY <1>3, <2>1, ClientIs DEF Finishing
    <2>2. CASE client'.cmd = cmd /\ client'.then \in {"room", "wrap", "return"}
      BY <1>3, <2>2 DEF Finishing
    <2> QED BY <1>1, <2>1, <2>2 DEF AfterCommand
  <1>5. CASE Unexecuted' = Unexecuted
    <2>1. Finishing \in BOOLEAN /\ Finishing' \in BOOLEAN
      BY DEF Finishing
    <2> QED BY <1>4, <1>5, <2>1 DEF StreamStep
  <1>6. CASE ~IsError(service) /\ Unexecuted' = Append(Unexecuted, cmd)
    BY <1>4, <1>6 DEF StreamStep, Stream!Next, Stream!Issue, Finishing
  <1> QED BY <1>2, <1>4, <1>5, <1>6

\* Issue: the command is issued, or lost, or waits for room.
LEMMA IssueRefines ==
  ASSUME RInv, Issue
  PROVE  StreamStep /\ FinishWaits'
  <1>1. IInv /\ CanCall
    BY DEF RInv, Issue
  <1>2. PICK cmd \in Commands : GetSpace(Now, cmd)
    BY DEF Issue
  <1>3. (Held(Now) /\ Room(Now.h)) \/ Bare(Now)
    BY <1>1, CanCallIs
  <1>4. Known /\ ~Finishing
    BY <1>1, CanCallIs DEF CanCall, Finishing
  <1>5. CommandGoes(Now, cmd)
    BY <1>2, <1>3, <1>4, GetSpaceGoes
  <1>6. StreamStep /\ client'.then # "finish"
    BY <1>4, <1>5, PendingIs, CommandIssued DEF Issue, gpu_vars
  <1> QED BY <1>6 DEF FinishWaits

\* What Release hands to GetSpace differs from the helper in the token.
LEMMA ReleaseGoes ==
  ASSUME IInv, Release
  PROVE  LET token == (helper.token + 1) % TokenLimit
             cmd == Cmd("set_token", TokenSize, token)
         IN /\ token \in Tokens /\ cmd \in Commands
            /\ \E s : /\ CommandGoes(s, cmd) /\ Pending(s) = Pending(Now)
                      /\ s.h.token = token
                      /\ s.h.have_ring_buffer = helper.have_ring_buffer
  <1> DEFINE token == (helper.token + 1) % TokenLimit
             h == [helper EXCEPT !.token = token]
             s == [Now EXCEPT !.h = h]
             cmd == Cmd("set_token", TokenSize, token)
  <1>1. CanCall
    BY DEF Release
  <1>2. Now \in Buffers /\ Now.h = helper /\ helper \in Helpers /\ Known
    BY <1>1, CanCallIs DEF Buffers
  <1>3. token \in Tokens
    <2>1. helper.token + 1 \in Int
      BY <1>2, CommandBufferAssumption DEF Helpers, Tokens
    <2>2. TokenLimit \in Nat \ {0}
      BY CommandBufferAssumption
    <2> QED BY <2>1, <2>2, ModRange DEF Tokens
  <1> HIDE DEF token
  <1>4. cmd \in Commands
    BY <1>3 DEF Commands, Cmd
  <1>5. /\ h \in Helpers /\ h.put = helper.put /\ h.immediate = helper.immediate
        /\ h.have_ring_buffer = helper.have_ring_buffer /\ h.token = token
    BY <1>2, <1>3 DEF Helpers
  <1>6. GetSpace(s, cmd)
    <2>1. GetSpace([Now EXCEPT !.h.token = token], cmd)
      BY DEF Release, token
    <2>2. [Now EXCEPT !.h.token = token] = s
      BY <1>2 DEF Buffers
    <2> QED BY <2>1, <2>2
  <1> HIDE DEF cmd, h
  <1>7. PutOffset(h) = PutOffset(helper)
    BY <1>2, <1>5, PutOffsetType
  <1>8. s.h = h /\ s.entries = Now.entries
    BY <1>2 DEF Buffers
  <1>9. (Held(s) /\ Room(s.h)) \/ Bare(s)
    <2>1. CASE helper.have_ring_buffer
      <3>1. Held(Now) /\ Room(helper)
        BY <1>1, <2>1, CanCallIs
      <3>2. Held(s)
        BY <1>2, <1>5, <1>7, <2>1, <3>1, HelperChanges
      <3>3. Room(h)
        BY <1>5, <1>7, <3>1 DEF Room, RoomIsFree
      <3> QED BY <1>8, <3>2, <3>3
    <2>2. CASE ~helper.have_ring_buffer
      <3>1. Bare(Now) /\ helper.immediate = 0
        BY <1>1, <1>2, <2>2, CanCallIs DEF Bare
      <3> QED BY <1>2, <1>5, <2>2, <3>1, HelperBare
    <2> QED BY <2>1, <2>2
  <1> HIDE DEF s
  <1>10. CommandGoes(s, cmd)
    BY <1>2, <1>4, <1>6, <1>9, GetSpaceGoes
  <1>11. Pending(s) = Pending(Now)
    BY <1>2, <1>5, <1>7, <1>8 DEF Pending
  <1> QED BY <1>3, <1>4, <1>5, <1>8, <1>10, <1>11 DEF cmd, token

\* Release: the token is issued as a command.
LEMMA ReleaseRefines ==
  ASSUME RInv, Release
  PROVE  StreamStep /\ FinishWaits'
  <1>1. IInv /\ ~Finishing
    BY DEF RInv, Release, CanCall, Finishing
  <1>2. PICK cmd \in Commands : \E s : CommandGoes(s, cmd) /\ Pending(s) = Pending(Now)
    BY <1>1, ReleaseGoes
  <1>3. StreamStep /\ client'.then # "finish"
    BY <1>1, <1>2, PendingIs, CommandIssued DEF Release, gpu_vars
  <1> QED BY <1>3 DEF FinishWaits

\* What a command that waited does when its wait returns.
LEMMA ReturnRefines ==
  ASSUME RInv, WaitReturns, WrapReturns \/ RoomReturns
  PROVE  StreamStep /\ FinishWaits'
  <1>1. client.cmd \in Commands /\ IInv
    BY DEF RInv, WrapReturns, RoomReturns, IInv, TypeOK, ClientOK
  <1>2. CommandGoes(Now, client.cmd)
    BY <1>1, WrapReturnsGoes, RoomReturnsGoes
  <1>3. ~Finishing
    BY <1>1 DEF Finishing, Commands
  <1>4. StreamStep /\ client'.then # "finish"
    BY <1>1, <1>2, <1>3, PendingIs, CommandIssued DEF WaitReturns, gpu_vars
  <1> QED BY <1>4 DEF FinishWaits

\* The return with a new ring, which is empty.
LEMMA SetGetBufferReturnsRefines ==
  ASSUME RInv, SetGetBufferReturns
  PROVE  StreamStep /\ FinishWaits'
  <1>1. client.cmd \in Commands /\ IInv
    BY DEF RInv, SetGetBufferReturns, IInv, TypeOK, ClientOK
  <1>2. CommandGoes(Now, client.cmd)
    BY <1>1, AllocatedGoes
  <1>3. ~Finishing
    BY <1>1 DEF Finishing, Commands
  <1>4. StreamStep /\ client'.then # "finish"
    BY <1>1, <1>2, <1>3, PendingIs, CommandIssued DEF SetGetBufferReturns, gpu_vars
  <1> QED BY <1>4 DEF FinishWaits

\* The helper and the ring change in nothing that matters.
LEMMA SameRefines ==
  ASSUME NEW t, Put(t), Same(Now, t), UNCHANGED service
  PROVE  UNCHANGED <<Unexecuted, IsError(service)>>
  BY PendingIs, PendingNext, SamePending

\* A flush is a stutter.
LEMMA FlushRefines ==
  ASSUME RInv, Flush \/ OrderingBarrier
  PROVE  StreamStep /\ FinishWaits'
  <1>1. IInv /\ CanCall
    BY DEF RInv, Flush, OrderingBarrier
  <1>2. Now \in Buffers /\ last_state \in States /\ client.then = "return"
    BY <1>1, CanCallIs DEF Known
  <1>3. \E t : Put(t) /\ Same(Now, t)
    BY <1>2, FlushSame DEF Flush, OrderingBarrier
  <1>4. UNCHANGED <<client, service>>
    BY DEF Flush, OrderingBarrier, gpu_vars
  <1>5. UNCHANGED <<Unexecuted, IsError(service)>>
    BY <1>3, <1>4, SameRefines
  <1> QED BY <1>2, <1>4, <1>5 DEF StreamStep, Finishing, FinishWaits

\* Finish goes in.
LEMMA FinishRefines ==
  ASSUME RInv, Finish
  PROVE  StreamStep /\ FinishWaits'
  <1>1. /\ client' = At("finish", Cmd("finish", 0, 0))
        /\ UNCHANGED <<entries, helper, service>>
    BY DEF Finish, gpu_vars
  <1>2. client'.pc = "finish" /\ client'.cmd.op = "finish" /\ client'.then = "return"
    BY <1>1, ClientIs DEF Cmd
  <1>3. UNCHANGED <<Unexecuted, IsError(service)>>
    BY <1>1 DEF Unexecuted
  <1>4. Finishing'
    BY <1>2 DEF Finishing
  <1> QED BY <1>2, <1>3, <1>4
        DEF StreamStep, Stream!Next, Stream!StartFinish, Finishing, FinishWaits

\* Where the client has read up to put_ nothing waits.
LEMMA NothingWaits ==
  ASSUME IInv, client.pc \notin {"set_get_buffer", "get_buffer_set"},
         helper.put = last_state.get_offset
  PROVE  Unexecuted = <<>>
  <1> DEFINE from(x) == Ahead(last_state.get_offset, x)
             put == PutOffset(helper)
             get == service.get_offset
  <1> SUFFICES ASSUME ~IsError(service), helper.have_ring_buffer
               PROVE  Unexecuted = <<>>
    BY DEF Unexecuted
  <1>1. /\ Now \in Buffers /\ Now.h = helper /\ helper \in Helpers /\ Known
        /\ Now.last_put = last_put_offset /\ last_put_offset \in Offsets
        /\ entries \in [Offsets -> Entries]
    BY InvariantIsHeld DEF IInv, TypeOK, Now
  <1>2. get \in Offsets /\ last_state.get_offset \in Offsets
    BY <1>1 DEF Known, States
  <1>3. put = last_state.get_offset
    BY <1>1, <1>2, PutOffsetType, OffsetsAreNat
  <1>4. from(get) =< from(last_put_offset) /\ from(last_put_offset) =< from(put)
    BY <1>1 DEF IInv, OffsetsInOrder
  <1>5. from(put) = 0 /\ from(get) \in Nat /\ from(last_put_offset) \in Nat
    BY <1>1, <1>2, <1>3, AheadType, OffsetsAreNat
  <1>6. from(get) = 0
    <2> HIDE DEF from
    <2> QED BY <1>4, <1>5
  <1>7. get = put
    BY <1>2, <1>3, <1>6, AheadType
  <1>8. PICK starts \in SUBSET Offsets : CommandsTile(Now, starts)
    BY DEF IInv, RingIsTiled
  <1>9. Tiles(starts, entries, get, put)
    BY <1>8 DEF CommandsTile, Now
  <1>10. Waiting(entries, put, put) = <<>>
    <2> HIDE DEF put, get
    <2> QED BY <1>1, <1>2, <1>3, <1>9, WaitingIs
  <1> QED BY <1>7, <1>10 DEF Unexecuted, Waiting

\* Finish returns where nothing waits, or the context is lost.
LEMMA FinishEnds ==
  ASSUME UNCHANGED <<Unexecuted, service>>, client' = Ready, client.pc # "ready",
         Unexecuted = <<>> \/ IsError(service)
  PROVE  StreamStep
  <1>1. ~Finishing'
    BY ClientIs DEF Finishing
  <1>2. CASE Finishing
    BY <1>1, <1>2 DEF StreamStep, Stream!Next, Stream!EndFinish, Finishing
  <1>3. CASE ~Finishing
    <2>1. Finishing \in BOOLEAN /\ Finishing' \in BOOLEAN
      BY DEF Finishing
    <2> QED BY <1>1, <1>3, <2>1 DEF StreamStep
  <1> QED BY <1>2, <1>3

\* Finish called by the helper.
LEMMA FinishHelperRefines ==
  ASSUME RInv, FinishHelper
  PROVE  StreamStep /\ FinishWaits'
  <1>1. /\ client.pc = "finish" /\ IInv /\ Now \in Buffers /\ last_state \in States
        /\ UNCHANGED <<last_state, service>>
    BY InvariantIsHeld DEF RInv, FinishHelper, Known, gpu_vars
  <1>2. CASE helper.put = last_state.get_offset
    <2>1. client' = Ready /\ UNCHANGED <<entries, helper>>
      BY <1>2 DEF FinishHelper, AfterFinish
    <2>2. Unexecuted' = Unexecuted
      BY <1>1, <2>1 DEF Unexecuted
    <2>3. Unexecuted = <<>>
      BY <1>1, <1>2, NothingWaits
    <2>4. client'.then = "return"
      BY <2>1, ClientIs
    <2> QED BY <1>1, <2>1, <2>2, <2>3, <2>4, FinishEnds DEF FinishWaits
  <1>3. CASE helper.put # last_state.get_offset
    <2>1. /\ Put(FlushHelper(Now))
          /\ client' = Wait("poll", client.cmd, helper'.put, helper'.put, "finish")
      BY <1>3 DEF FinishHelper
    <2>2. UNCHANGED <<Unexecuted, IsError(service)>>
      BY <1>1, <2>1, FlushSame, SameRefines
    <2>3. /\ client'.pc = "poll" /\ client'.cmd = client.cmd
          /\ client'.start = helper'.put /\ client'.end = helper'.put
      BY <2>1 DEF Wait
    <2> QED BY <1>1, <2>2, <2>3 DEF StreamStep, Finishing, FinishWaits
  <1> QED BY <1>2, <1>3

\* Finish goes out when its wait returns.
LEMMA FinishReturnsRefines ==
  ASSUME RInv, WaitReturns, FinishReturns
  PROVE  StreamStep /\ FinishWaits'
  <1> DEFINE h == CalcImmediateEntries(helper, last_state.get_offset, 0)
             s == [Now EXCEPT !.h = h]
  <1>1. /\ client.pc = "return" /\ client.then = "finish" /\ IInv
        /\ Now \in Buffers /\ Known /\ helper.put < total_entry_count /\ Now.h = helper
        /\ UNCHANGED <<last_state, service>>
    BY InvariantIsHeld DEF RInv, IInv, WaitReturns, FinishReturns, RoomInRing, gpu_vars
  <1>2. client' = Ready /\ client'.then = "return"
    BY ClientIs DEF FinishReturns, AfterFinish
  <1>3. Put(Now) \/ Put(s)
    <2>1. CASE IsError(last_state)
      BY <2>1 DEF FinishReturns, Put, Now
    <2>2. CASE ~IsError(last_state)
      <3>1. helper' = h /\ UNCHANGED <<entries, tasks, last_put_offset>>
        BY <2>2 DEF FinishReturns
      <3> HIDE DEF h
      <3>2. /\ s.h = h /\ s.entries = entries /\ s.tasks = tasks
            /\ s.last_put = last_put_offset
        BY DEF Now
      <3> QED BY <3>1, <3>2 DEF Put
    <2> QED BY <2>1, <2>2
  <1>4. Same(Now, s) /\ Same(Now, Now)
    <2>1. Same(Now, s)
      BY <1>1, CalculatedSame DEF Known
    <2>2. Same(Now, Now)
      BY <1>1 DEF Same, Buffers
    <2> QED BY <2>1, <2>2
  <1> HIDE DEF s
  <1>5. UNCHANGED <<Unexecuted, IsError(service)>>
    BY <1>1, <1>3, <1>4, SameRefines
  <1>6. Unexecuted = <<>> \/ IsError(service)
    <2>1. CASE IsError(last_state)
      BY <1>1, <2>1 DEF Known
    <2>2. CASE ~IsError(last_state)
      <3>1. last_state.get_offset = helper.put
        BY <1>1, <2>2 DEF RInv, FinishWaits
      <3> QED BY <1>1, <3>1, NothingWaits
    <2> QED BY <2>1, <2>2
  <1> QED BY <1>1, <1>2, <1>5, <1>6, FinishEnds DEF FinishWaits


\* The steps that touch neither the ring nor the service, and do not go in or
\* out of Finish.
LEMMA StaysRefines ==
  ASSUME UNCHANGED <<entries, helper, service>>,
         client.cmd.op # "finish", client'.cmd.op # "finish", client'.then # "finish"
  PROVE  StreamStep /\ FinishWaits'
  <1>1. UNCHANGED <<Unexecuted, IsError(service)>>
    BY DEF Unexecuted
  <1>2. UNCHANGED Finishing
    BY DEF Finishing
  <1> QED BY <1>1, <1>2 DEF StreamStep, FinishWaits

\* Alloc starts.
LEMMA AllocRefines ==
  ASSUME RInv, Alloc
  PROVE  StreamStep /\ FinishWaits'
  <1>1. PICK size \in BlockSizes : client' = At("alloc", Cmd("alloc", size, 0))
    BY DEF Alloc
  <1>2. client'.cmd.op = "alloc" /\ client'.then = "return"
    BY <1>1, ClientIs DEF Cmd
  <1>3. client.pc = "ready" /\ UNCHANGED <<entries, helper, service>>
    BY DEF Alloc, CanCall, gpu_vars
  <1>4. UNCHANGED <<Unexecuted, IsError(service)>> /\ ~Finishing /\ ~Finishing'
    BY <1>2, <1>3 DEF Unexecuted, Finishing
  <1>5. UNCHANGED Finishing
    BY <1>4 DEF Finishing
  <1> QED BY <1>2, <1>4, <1>5 DEF StreamStep, FinishWaits

\* Each round of Alloc frees blocks, returns or waits for a token.
LEMMA AllocRoundRefines ==
  ASSUME RInv, AllocRound
  PROVE  StreamStep /\ FinishWaits'
  <1>1. /\ client.cmd.op = "alloc" /\ client.then = "return"
        /\ client \in [pc : Pcs, cmd : Calls \cup {Idle}, start : Nat, end : Nat,
                       then : {"return", "wrap", "room", "finish", "token"}]
    BY DEF RInv, IInv, TypeOK, ClientOK, AllocRound
  <1>2. /\ \/ client' = Ready
           \/ UNCHANGED client
           \/ \E token : client' = [client EXCEPT !.pc = "flush_token", !.start = token]
        /\ UNCHANGED <<entries, helper, service>>
    BY DEF AllocRound, gpu_vars
  <1>3. client'.cmd.op # "finish" /\ client'.then # "finish"
    <2>1. CASE client' = Ready
      BY <2>1, ClientIs
    <2>2. CASE UNCHANGED client
      BY <1>1, <2>2
    <2>3. ASSUME NEW token, client' = [client EXCEPT !.pc = "flush_token", !.start = token]
          PROVE  client'.cmd.op # "finish" /\ client'.then # "finish"
      <3>1. client'.cmd = client.cmd /\ client'.then = client.then
        BY <1>1, <2>3
      <3> QED BY <1>1, <3>1
    <2> QED BY <1>2, <2>1, <2>2, <2>3
  <1> QED BY <1>1, <1>2, <1>3, StaysRefines

\* The flush before a wait for a token.
LEMMA FlushTokenRefines ==
  ASSUME RInv, FlushToken
  PROVE  StreamStep /\ FinishWaits'
  <1>1. /\ client.cmd.op = "alloc" /\ Now \in Buffers /\ last_state \in States
        /\ UNCHANGED service
    BY InvariantIsHeld
      DEF RInv, IInv, TypeOK, ClientOK, FlushToken, Known, gpu_vars
  <1>2. /\ Put(FlushHelper(Now))
        /\ client'.cmd = client.cmd /\ client'.then = "token"
    BY DEF FlushToken, Wait
  <1>3. UNCHANGED <<Unexecuted, IsError(service)>>
    BY <1>1, <1>2, FlushSame, SameRefines
  <1>4. UNCHANGED Finishing
    BY <1>1, <1>2 DEF Finishing
  <1> QED BY <1>2, <1>3, <1>4 DEF StreamStep, FinishWaits

\* The return of the wait for a token.
LEMMA TokenReturnsRefines ==
  ASSUME RInv, WaitReturns, TokenReturns
  PROVE  StreamStep /\ FinishWaits'
  <1>1. client.cmd.op = "alloc"
    BY DEF RInv, IInv, TypeOK, ClientOK, TokenReturns
  <1>2. client' = At("alloc", client.cmd) /\ UNCHANGED <<entries, helper, service>>
    BY DEF TokenReturns, WaitReturns, gpu_vars
  <1> QED BY <1>1, <1>2, ClientIs, StaysRefines

\* DiscardBlock touches the transfer ring alone.
LEMMA DiscardBlockRefines ==
  ASSUME RInv, DiscardBlock
  PROVE  StreamStep /\ FinishWaits'
  <1>1. client.then = "return" /\ UNCHANGED <<entries, helper, service, client>>
    BY DEF RInv, IInv, TypeOK, ClientOK, DiscardBlock, CanCall, gpu_vars
  <1>2. UNCHANGED <<Unexecuted, IsError(service), Finishing>>
    BY <1>1 DEF Unexecuted, Finishing
  <1> QED BY <1>1, <1>2 DEF StreamStep, FinishWaits

\* FreeRingBuffer gives a ring back in which nothing waits.
LEMMA FreeRingBufferRefines ==
  ASSUME RInv, FreeRingBuffer
  PROVE  StreamStep /\ FinishWaits'
  <1>1. /\ client.pc = "ready" /\ client.then = "return" /\ IInv /\ helper \in Helpers
        /\ helper.put = last_state.get_offset
        /\ helper' = [helper EXCEPT !.have_ring_buffer = FALSE, !.immediate = 0]
        /\ UNCHANGED <<service, client>>
    BY DEF RInv, IInv, TypeOK, ClientOK, FreeRingBuffer, CanCall, gpu_vars
  <1>2. Unexecuted = <<>>
    BY <1>1, NothingWaits
  <1>3. ~helper'.have_ring_buffer
    BY <1>1 DEF Helpers
  <1>4. Unexecuted' = <<>>
    BY <1>3 DEF Unexecuted
  <1> QED BY <1>1, <1>2, <1>4 DEF StreamStep, FinishWaits, Finishing

\* A poll reads a state the service was in; where it shows put_, nothing waits.
LEMMA PollRefines ==
  ASSUME RInv, Poll
  PROVE  StreamStep /\ FinishWaits'
  <1>1. /\ client.pc = "poll" /\ last_state' = state_after_last_flush
        /\ UNCHANGED <<entries, helper, service>>
        /\ client' = [client EXCEPT !.pc =
              IF \/ InRange(client.start, client.end,
                            IF client.then = "token" THEN state_after_last_flush.token
                            ELSE state_after_last_flush.get_offset)
                 \/ IsError(state_after_last_flush)
              THEN "return" ELSE "wait"]
    BY DEF Poll, gpu_vars
  <1>2. /\ client \in [pc : Pcs, cmd : Calls \cup {Idle}, start : Nat, end : Nat,
                       then : {"return", "wrap", "room", "finish", "token"}]
        /\ state_after_last_flush.get_offset \in Nat
    BY OffsetsAreNat DEF RInv, IInv, TypeOK, ClientOK, States
  <1>3. /\ client'.cmd = client.cmd /\ client'.then = client.then
        /\ client'.start = client.start /\ client'.end = client.end
        /\ client'.pc # "ready"
        /\ client'.pc = "return" /\ ~IsError(state_after_last_flush) =>
             InRange(client.start, client.end,
                     IF client.then = "token" THEN state_after_last_flush.token
                     ELSE state_after_last_flush.get_offset)
    BY <1>1, <1>2
  <1>4. UNCHANGED <<Unexecuted, IsError(service)>>
    BY <1>1 DEF Unexecuted
  <1>5. UNCHANGED Finishing
    BY <1>1, <1>3 DEF Finishing
  <1>6. FinishWaits'
    <2> SUFFICES ASSUME client.then = "finish"
                 PROVE  /\ client.start = helper.put
                        /\ client.end = helper.put
                        /\ client'.pc = "return" /\ ~IsError(state_after_last_flush) =>
                             state_after_last_flush.get_offset = helper.put
      BY <1>1, <1>3 DEF FinishWaits
    <2>1. client.start = helper.put /\ client.end = helper.put /\ client.start \in Nat
      BY <1>2 DEF RInv, FinishWaits
    <2>2. ASSUME InRange(client.start, client.end, state_after_last_flush.get_offset)
          PROVE  state_after_last_flush.get_offset = helper.put
      BY <1>2, <2>1, <2>2 DEF InRange
    <2> QED BY <1>3, <2>1, <2>2
  <1> QED BY <1>4, <1>5, <1>6 DEF StreamStep

\* A wait is woken.
LEMMA WokenRefines ==
  ASSUME RInv, Woken
  PROVE  StreamStep /\ FinishWaits'
  <1>1. /\ client.pc = "wait" /\ client' = [client EXCEPT !.pc = "poll"]
        /\ UNCHANGED <<entries, helper, last_state, service>>
        /\ client \in [pc : Pcs, cmd : Calls \cup {Idle}, start : Nat, end : Nat,
                       then : {"return", "wrap", "room", "finish", "token"}]
    BY DEF RInv, IInv, TypeOK, ClientOK, Woken, gpu_vars
  <1>2. /\ client'.cmd = client.cmd /\ client'.then = client.then
        /\ client'.start = client.start /\ client'.end = client.end
        /\ client'.pc = "poll"
    BY <1>1
  <1>3. UNCHANGED <<Unexecuted, IsError(service), Finishing>>
    BY <1>1, <1>2 DEF Unexecuted, Finishing
  <1> QED BY <1>1, <1>2, <1>3 DEF StreamStep, RInv, FinishWaits

\* The GPU thread.
LEMMA ClientStaysRefines ==
  ASSUME RInv, UNCHANGED <<helper, client, last_state>>
  PROVE  FinishWaits' /\ UNCHANGED Finishing
  BY DEF RInv, FinishWaits, Finishing

\* The context is lost, and what waits with it.
LEMMA Lost ==
  ASSUME IsError(service)', UNCHANGED Finishing
  PROVE  StreamStep
  <1>1. Unexecuted' = <<>>
    BY DEF Unexecuted
  <1>2. IsError(service)' = TRUE
    BY DEF IsError
  <1> QED BY <1>1, <1>2 DEF StreamStep, Stream!Next, Stream!Lose, Finishing

\* A flush starts.
LEMMA StartFlushRefines ==
  ASSUME RInv, StartFlush
  PROVE  StreamStep /\ FinishWaits'
  <1>1. /\ UNCHANGED <<entries, helper, client, last_state>>
        /\ service' = service \/ service' = [service EXCEPT !.error = "kLostContext"]
        /\ service \in States
    BY DEF RInv, IInv, TypeOK, StartFlush, client_vars
  <1>2. FinishWaits' /\ UNCHANGED Finishing
    BY <1>1, ClientStaysRefines
  <1>3. CASE service' = service
    <2>1. UNCHANGED <<Unexecuted, IsError(service)>>
      BY <1>1, <1>3 DEF Unexecuted
    <2> QED BY <1>2, <2>1 DEF StreamStep
  <1>4. CASE service' = [service EXCEPT !.error = "kLostContext"]
    <2>1. IsError(service)'
      BY <1>1, <1>4 DEF IsError, States
    <2> QED BY <1>2, <2>1, Lost
  <1> QED BY <1>1, <1>3, <1>4

\* Execute takes the command at get from those that wait.
LEMMA ExecuteIs ==
  ASSUME IInv, Execute
  PROVE  LET cmd == entries[service.get_offset]
         IN /\ ~IsError(service) /\ helper.have_ring_buffer
            /\ cmd \in Commands \cup Noops
            /\ UNCHANGED <<client_vars, tasks, state_after_last_flush>>
            /\ service'.token = IF cmd.op = "set_token" THEN cmd.arg ELSE service.token
            /\ ~IsError(service)' =>
                 /\ Unexecuted = Shown(cmd) \o Unexecuted' /\ Unexecuted' \in Seq(Entries)
                 /\ service'.get_offset = OffsetAfter(service.get_offset, cmd.size)
  <1> DEFINE get == service.get_offset
             cmd == entries[get]
             size == cmd.size
             next == OffsetAfter(get, size)
             put == PutOffset(helper)
             readable == IF put_offset < get THEN total_entry_count - get ELSE put_offset - get
             executed == [service EXCEPT
                            !.get_offset = (@ + size) % total_entry_count,
                            !.token = IF cmd.op = "set_token" THEN cmd.arg ELSE @]
  <1>1. /\ gpu_pc = "decode"
        /\ UNCHANGED <<client_vars, tasks, state_after_last_flush>>
    BY DEF Execute
  <1>2. /\ ~IsError(service) /\ helper.have_ring_buffer
        /\ get \in Offsets /\ put_offset \in Offsets
        /\ size \in Nat \ {0} /\ get + size =< total_entry_count
        /\ get < put_offset => get + size =< put_offset
        /\ put_offset # get
        /\ next \in Offsets
        /\ \A rest \in [Offsets -> Entries] :
             (\A i \in Offsets : i \notin get .. get + size - 1 => rest[i] = entries[i]) =>
               \E starts \in SUBSET Offsets :
                 /\ Tiles(starts, rest, next, put)
                 /\ Edge(starts, put, next)
                 /\ \A i \in DOMAIN tasks : Edge(starts, put, tasks[i].put)
    BY <1>1, NextCommandIs
  <1>3. IF size = 0 \/ size > readable
        THEN service' = [service EXCEPT !.error = "kParseError"] /\ UNCHANGED entries
        ELSE /\ entries' = [i \in Offsets |->
                              IF i >= get /\ i < get + size THEN Stale ELSE entries[i]]
             /\ service' = executed \/ service' = [executed EXCEPT !.error = "kLostContext"]
    BY DEF Execute
  <1>4. ~(size = 0 \/ size > readable)
    <2> HIDE DEF get, size
    <2>1. get \in Nat /\ put_offset \in Nat /\ total_entry_count \in Nat
      BY <1>2, OffsetsAreNat, CommandBufferAssumption
    <2> QED BY <1>2, <2>1
  <1>5. entries \in [Offsets -> Entries] /\ cmd \in Entries /\ service \in States
    BY <1>2 DEF IInv, TypeOK
  <1>6. next = (get + size) % total_entry_count
    <2> HIDE DEF get, size
    <2> QED BY <1>2, ModWrap, OffsetsAreNat, CommandBufferAssumption DEF OffsetAfter
  <1>7. cmd \in Commands \cup Noops
    <2>1. Argument.size = 0 /\ Stale.size = 0
      BY DEF Argument, Stale, Cmd
    <2>2. size # 0
      BY <1>4
    <2> QED BY <1>5, <2>1, <2>2 DEF Entries
  <1>8. service'.token = IF cmd.op = "set_token" THEN cmd.arg ELSE service.token
    BY <1>3, <1>4, <1>5 DEF States
  <1>9. ASSUME ~IsError(service)'
        PROVE  /\ Unexecuted = Shown(cmd) \o Unexecuted' /\ Unexecuted' \in Seq(Entries)
               /\ service'.get_offset = OffsetAfter(get, size)
    <2>1. service' = executed
      <3>1. [executed EXCEPT !.error = "kLostContext"].error # "kNoError"
        BY <1>5 DEF States
      <3> QED BY <1>3, <1>4, <1>9, <3>1 DEF IsError
    <2>2. service'.get_offset = next
      BY <1>5, <1>6, <2>1 DEF States
    <2>3. /\ entries' \in [Offsets -> Entries]
          /\ \A i \in Offsets : i \notin get .. get + size - 1 => entries'[i] = entries[i]
      <3> HIDE DEF get, size
      <3>1. entries' = [i \in Offsets |->
                          IF i >= get /\ i < get + size THEN Stale ELSE entries[i]]
        BY <1>3, <1>4
      <3>2. Stale \in Entries
        BY DEF Entries
      <3>3. \A i \in Offsets : i \notin get .. get + size - 1 => ~(i >= get /\ i < get + size)
        BY <1>2, OffsetsAreNat
      <3> QED BY <1>5, <3>1, <3>2, <3>3
    <2>4. PICK starts \in SUBSET Offsets : CommandsTile(Now, starts)
      BY <1>1, <1>2 DEF IInv, RingIsTiled
    <2>5. Tiles(starts, entries, get, put) /\ Edge(starts, put, get) /\ put \in Offsets
      BY <2>4, PutOffsetType DEF CommandsTile, Now, IInv, TypeOK
    <2>6. get # put
      <3> DEFINE from(x) == Ahead(last_state.get_offset, x)
      <3>1. /\ from(next) = from(get) + size
            /\ from(next) =< from(put_offset) /\ from(put_offset) =< from(last_put_offset)
            /\ from(last_put_offset) =< from(put)
        BY <1>1, NextCommandIs DEF OffsetsInOrder, Now
      <3>2. \A x \in Offsets : from(x) \in Nat
        BY AheadType, OffsetsAreNat DEF IInv, TypeOK, States
      <3>3. last_put_offset \in Offsets
        BY DEF IInv, TypeOK
      <3>4. /\ from(get) \in Nat /\ from(next) \in Nat /\ from(put_offset) \in Nat
            /\ from(last_put_offset) \in Nat /\ from(put) \in Nat
        BY <1>2, <2>5, <3>2, <3>3
      <3> HIDE DEF from, get, put, next, size
      <3>5. from(get) # from(put)
        BY <1>2, <3>1, <3>4
      <3> QED BY <3>5
    <2> HIDE DEF get, put
    <2>7. Waiting(entries, put, get) =
            Shown(entries[get]) \o Waiting(entries', put, OffsetAfter(get, entries[get].size))
      <3>1. \A i \in Offsets : i \notin get .. get + entries[get].size - 1 =>
                              entries'[i] = entries[i]
        BY <2>3
      <3>2. Tiles(starts, entries, get, put) /\ Edge(starts, put, get) /\ put \in Offsets
        BY <2>5
      <3>3. /\ entries \in [Offsets -> Entries] /\ entries' \in [Offsets -> Entries]
            /\ get \in Offsets /\ get # put /\ starts \in SUBSET Offsets
        BY <1>2, <1>5, <2>3, <2>6
      <3> HIDE DEF cmd, size, next, readable, executed
      <3> QED BY <3>1, <3>2, <3>3, WaitingExecuted
    <2>8. Waiting(entries', put, next) \in Seq(Entries)
      BY <1>2, <2>3, <2>5, AheadType, UnreadIs DEF Waiting
    <2>9. Unexecuted = Waiting(entries, put, get)
      BY <1>2 DEF Unexecuted, Waiting, put, get
    <2>10. Unexecuted' = Waiting(entries', put, next)
      <3>1. UNCHANGED helper
        BY <1>1 DEF client_vars
      <3> HIDE DEF next
      <3> QED BY <1>2, <1>9, <2>2, <3>1 DEF Unexecuted, Waiting, put
    <2> QED BY <2>2, <2>7, <2>8, <2>9, <2>10 DEF get
  <1> QED BY <1>1, <1>2, <1>7, <1>8, <1>9

\* The tail of a command and what follows it.
LEMMA TailOfConcat ==
  ASSUME NEW T, NEW e \in T, NEW q \in Seq(T)
  PROVE  <<e>> \o q # <<>> /\ Head(<<e>> \o q) = e /\ Tail(<<e>> \o q) = q
  <1> DEFINE s == <<e>> \o q
  <1>1. <<e>> \in Seq(T) /\ Len(<<e>>) = 1 /\ <<e>>[1] = e /\ Len(q) \in Nat
    OBVIOUS
  <1>2. /\ s \in Seq(T) /\ Len(s) = 1 + Len(q)
        /\ \A i \in 1 .. 1 + Len(q) : s[i] = IF i =< 1 THEN <<e>>[i] ELSE q[i - 1]
    BY <1>1, ConcatProperties
  <1> HIDE DEF s
  <1>3. s # <<>> /\ s[1] = e
    BY <1>1, <1>2
  <1>4. /\ Tail(s) \in Seq(T) /\ Len(Tail(s)) = Len(q) /\ Head(s) = s[1]
        /\ \A i \in 1 .. Len(q) : Tail(s)[i] = s[i + 1]
    BY <1>1, <1>2, <1>3, HeadTailProperties
  <1>5. \A i \in 1 .. Len(q) : Tail(s)[i] = q[i]
    BY <1>1, <1>2, <1>4
  <1>6. Tail(s) = q
    BY <1>4, <1>5, SeqEqual
  <1> QED BY <1>3, <1>4, <1>6 DEF s

\* Execute is the execution of the first command, a skipped noop, or the loss.
LEMMA ExecuteRefines ==
  ASSUME RInv, Execute
  PROVE  StreamStep /\ FinishWaits'
  <1> DEFINE cmd == entries[service.get_offset]
  <1>1. /\ ~IsError(service) /\ cmd \in Commands \cup Noops
        /\ UNCHANGED <<helper, client, last_state>>
        /\ ~IsError(service)' => Unexecuted = Shown(cmd) \o Unexecuted' /\ Unexecuted' \in Seq(Entries)
    BY ExecuteIs DEF RInv, client_vars
  <1> HIDE DEF cmd
  <1>2. FinishWaits' /\ UNCHANGED Finishing
    BY <1>1, ClientStaysRefines
  <1>3. CASE IsError(service)'
    BY <1>2, <1>3, Lost
  <1>4. CASE ~IsError(service)'
    <2>1. UNCHANGED IsError(service)
      BY <1>1, <1>4 DEF IsError
    <2>2. CASE cmd.op = "noop"
      <3>1. <<>> \o Unexecuted' = Unexecuted'
        BY <1>1, <1>4, ConcatEmptySeq
      <3>2. Unexecuted' = Unexecuted
        BY <1>1, <1>4, <2>2, <3>1 DEF Shown
      <3> QED BY <1>2, <2>1, <3>2 DEF StreamStep
    <2>3. CASE cmd.op # "noop"
      <3> DEFINE rest == Unexecuted'
      <3>1. Unexecuted = <<cmd>> \o rest /\ rest \in Seq(Entries) /\ cmd \in Entries
        BY <1>1, <1>4, <2>3 DEF Shown, Entries
      <3> HIDE DEF rest
      <3>2. Unexecuted # <<>> /\ Tail(Unexecuted) = rest
        BY <3>1, TailOfConcat
      <3> QED BY <1>1, <1>2, <2>1, <3>2 DEF StreamStep, Stream!Next, Stream!Execute, rest
    <2> QED BY <2>2, <2>3
  <1> QED BY <1>2, <1>3, <1>4

\* Publishing the state and signalling are stutters.
LEMMA PublishRefines ==
  ASSUME RInv, PublishState \/ SignalFlush
  PROVE  StreamStep /\ FinishWaits'
  <1>1. UNCHANGED <<helper, client, last_state, entries, service>>
    BY DEF PublishState, SignalFlush, client_vars
  <1>2. FinishWaits' /\ UNCHANGED Finishing
    BY <1>1, ClientStaysRefines
  <1>3. UNCHANGED <<Unexecuted, IsError(service)>>
    BY <1>1 DEF Unexecuted
  <1> QED BY <1>2, <1>3 DEF StreamStep

\* The tasks that set a ring and take it away meet none.
LEMMA FirstTaskIs ==
  ASSUME IInv, tasks # <<>>
  PROVE  /\ Head(tasks).kind = "set_get_buffer" =>
              client.pc = "set_get_buffer" /\ ~helper.have_ring_buffer
         /\ Head(tasks).kind = "destroy_transfer_buffer" => ~helper.have_ring_buffer
  <1>1. 1 \in DOMAIN tasks /\ Head(tasks) = tasks[1]
    BY TailIs DEF IInv, TypeOK
  <1> QED BY <1>1 DEF IInv, TasksFollow

\* The ring is taken away where nothing waits.
LEMMA DestroyTransferBufferRefines ==
  ASSUME RInv, DestroyTransferBuffer
  PROVE  StreamStep /\ FinishWaits'
  <1>1. /\ UNCHANGED <<helper, client, last_state>> /\ ~helper.have_ring_buffer
        /\ service' = [service EXCEPT !.get_offset = 0] /\ service \in States
    BY FirstTaskIs DEF RInv, IInv, TypeOK, DestroyTransferBuffer, client_vars
  <1>2. FinishWaits' /\ UNCHANGED Finishing
    BY <1>1, ClientStaysRefines
  <1>3. UNCHANGED <<Unexecuted, IsError(service)>>
    BY <1>1 DEF Unexecuted, IsError, States
  <1> QED BY <1>2, <1>3 DEF StreamStep

\* A ring is set where nothing waits.
LEMMA SetGetBufferRefines ==
  ASSUME RInv, SetGetBuffer
  PROVE  StreamStep /\ FinishWaits'
  <1>1. /\ UNCHANGED helper /\ ~helper.have_ring_buffer
        /\ client.pc = "set_get_buffer" /\ client' = [client EXCEPT !.pc = "get_buffer_set"]
        /\ service' = [service EXCEPT !.get_offset = 0] /\ service \in States
        /\ client \in [pc : Pcs, cmd : Calls \cup {Idle}, start : Nat, end : Nat,
                       then : {"return", "wrap", "room", "finish", "token"}]
        /\ client.then = "return" /\ client.cmd \in Commands
    BY FirstTaskIs DEF RInv, IInv, TypeOK, ClientOK, SetGetBuffer
  <1>2. client'.cmd = client.cmd /\ client'.then = "return"
    BY <1>1
  <1>3. UNCHANGED <<Unexecuted, IsError(service)>>
    BY <1>1 DEF Unexecuted, IsError, States
  <1>4. ~Finishing /\ ~Finishing'
    BY <1>1, <1>2 DEF Finishing, Commands
  <1>5. UNCHANGED Finishing
    BY <1>4 DEF Finishing
  <1> QED BY <1>2, <1>3, <1>5 DEF StreamStep, FinishWaits

\* Steps that change no variable.
LEMMA StutterRefines ==
  ASSUME RInv, UNCHANGED vars
  PROVE  StreamStep /\ FinishWaits'
  BY DEF RInv, vars, client_vars, gpu_vars, StreamStep, Unexecuted, Finishing, FinishWaits

\* Every step is one of the stream, or a stutter of it.
LEMMA StepRefines == RInv /\ [Next]_vars => RInv' /\ StreamStep
  <1> SUFFICES ASSUME RInv, [Next]_vars
               PROVE  RInv' /\ StreamStep
    OBVIOUS
  <1>1. IInv'
    BY NextKeeps DEF RInv
  <1>2. StreamStep /\ FinishWaits'
    <2>1. CASE GpuStep
      BY <2>1, StartFlushRefines, ExecuteRefines, PublishRefines,
         DestroyTransferBufferRefines, SetGetBufferRefines DEF GpuStep
    <2>2. CASE WaitReturns
      BY <2>2, ReturnRefines, FinishReturnsRefines, TokenReturnsRefines DEF WaitReturns
    <2>3. CASE ClientStep
      BY <2>2, <2>3, FinishHelperRefines, AllocRoundRefines, FlushTokenRefines, PollRefines,
         WokenRefines, SetGetBufferReturnsRefines DEF ClientStep
    <2>4. CASE Call
      BY <2>4, IssueRefines, ReleaseRefines, FlushRefines, FinishRefines, AllocRefines,
         DiscardBlockRefines, FreeRingBufferRefines DEF Call
    <2>5. CASE UNCHANGED vars
      BY <2>5, StutterRefines
    <2> QED BY <2>1, <2>3, <2>4, <2>5 DEF Next
  <1> QED BY <1>1, <1>2 DEF RInv

\* The initial states are initial states of the stream.
LEMMA InitRefines == Init => RInv /\ Stream!Init
  <1> SUFFICES ASSUME Init
               PROVE  RInv /\ Stream!Init
    OBVIOUS
  <1>1. IInv
    BY InitHolds
  <1>2. /\ client.pc = "ready" /\ client.then = "return"
        /\ last_state.get_offset = 0 /\ ~IsError(service)
    BY ClientIs DEF Init, State0, IsError
  <1>3. helper.put = 0
    <2> DEFINE h == [put |-> 0, last_put_sent |-> 0, immediate |-> 0, token |-> 0,
                     have_ring_buffer |-> TRUE]
               c == CalcImmediateEntries(h, 0, 0)
    <2>1. helper = c
      BY DEF Init
    <2>2. c.put = h.put
      BY DEF CalcImmediateEntries
    <2> QED BY <2>1, <2>2
  <1>4. Unexecuted = <<>>
    BY <1>1, <1>2, <1>3, NothingWaits
  <1>5. ~Finishing /\ ~IsError(service)
    BY <1>2 DEF Finishing
  <1> QED BY <1>1, <1>2, <1>4, <1>5 DEF RInv, FinishWaits, Stream!Init, Finishing

\* The refinement's invariant.
LEMMA RInvHolds == Spec => []RInv
  BY InitRefines, StepRefines, PTL DEF Spec

\* Commands are executed once, in order and as they were written, whatever the
\* sizes of the ring and of the commands; Finish returns when all have been.
THEOREM ImplementsStream == Spec => StreamSpec
  <1>1. StreamStep => [Stream!Next]_(Stream!vars)
    BY DEF StreamStep, Stream!vars, Finishing
  <1> QED BY <1>1, InitRefines, StepRefines, RInvHolds, PTL DEF Spec, StreamSpec, Stream!Spec

-----------------------------------------------------------------------------
(* Memory that a command reads stays allocated: the parts of MInv.         *)

\* What waits is a sequence of entries of the ring.
LEMMA UnexecutedType ==
  ASSUME IInv
  PROVE  /\ Unexecuted \in Seq(Entries)
         /\ \A i \in DOMAIN Unexecuted : \E x \in Offsets : Unexecuted[i] = entries[x]
  <1> DEFINE put == PutOffset(helper)
             T == {entries[x] : x \in Offsets}
  <1>1. /\ entries \in [Offsets -> Entries] /\ put \in Offsets
        /\ Ahead(service.get_offset, put) \in Offsets
    BY PutOffsetType, AheadType DEF IInv, TypeOK, States
  <1>2. entries \in [Offsets -> T]
    BY <1>1
  <1>3. Unexecuted = <<>> \/ Unexecuted = Unread(entries, put)[Ahead(service.get_offset, put)]
    BY DEF Unexecuted
  <1> HIDE DEF put, T
  <1>4. Unexecuted \in Seq(Entries)
    <2>1. \A n \in Offsets : Unread(entries, put)[n] \in Seq(Entries)
      BY <1>1, UnreadFrom
    <2>2. <<>> \in Seq(Entries)
      OBVIOUS
    <2> QED BY <1>1, <1>3, <2>1, <2>2
  <1>5. Unexecuted \in Seq(T)
    <2>1. \A n \in Offsets : Unread(entries, put)[n] \in Seq(T)
      BY <1>1, <1>2, UnreadFrom
    <2>2. <<>> \in Seq(T)
      OBVIOUS
    <2> QED BY <1>1, <1>3, <2>1, <2>2
  <1>6. \A i \in DOMAIN Unexecuted : Unexecuted[i] \in T
    BY <1>5
  <1> QED BY <1>4, <1>6 DEF T

\* The tokens of commands are numbers.
LEMMA ArgsAreNat == \A cmd \in Entries : cmd.arg \in Nat
  <1>1. \A cmd \in Commands : cmd.arg \in Nat
    BY ClientIs
  <1>2. \A cmd \in Noops : cmd.arg \in Nat
    BY DEF Noops
  <1>3. Argument.arg \in Nat /\ Stale.arg \in Nat
    BY DEF Argument, Stale, Cmd
  <1> QED BY <1>1, <1>2, <1>3 DEF Entries

\* A block is kept for the commands of u that read it.
IsKept(u, block) ==
  \/ block.state = "IN_USE"
  \/ /\ block.state = "FREE_PENDING_TOKEN"
     /\ \E j \in DOMAIN u : SetsToken(u[j], block.token)

\* As long as the blocks that are kept stay, the commands come first.
LEMMA ReadsStayFirst ==
  ASSUME NEW u, NEW b, NEW c, ReadsComeFirst(u, b),
         \A block \in BlocksOf(b) : IsKept(u, block) => block \in BlocksOf(c)
  PROVE  ReadsComeFirst(u, c)
  BY DEF ReadsComeFirst, IsKept

\* A token that is awaited has not passed.
LEMMA KeptIsLater ==
  ASSUME NEW u, NEW low, NEW next, TokensGrow(u, low, next), NEW block, IsKept(u, block)
  PROVE  block.state = "IN_USE" \/ (low < block.token /\ block.token < next)
  BY DEF TokensGrow, IsKept, SetsToken

\* A command more.
LEMMA ReadsLonger ==
  ASSUME NEW u \in Seq(Entries), NEW cmd \in Entries, NEW b, ReadsComeFirst(u, b),
         cmd.op = "read" => \E block \in BlocksOf(b) :
                              block.offset = cmd.arg /\ block.state = "IN_USE"
  PROVE  ReadsComeFirst(Append(u, cmd), b)
  <1> DEFINE v == Append(u, cmd)
             n == Len(u)
  <1>1. /\ n \in Nat /\ DOMAIN u = 1 .. n /\ DOMAIN v = 1 .. n + 1
        /\ \A i \in 1 .. n : v[i] = u[i]
        /\ v[n + 1] = cmd
    BY AppendIs
  <1>2. \A i \in 1 .. n + 1 : i \in 1 .. n \/ i = n + 1
    BY <1>1
  <1>3. \A i \in 1 .. n : i \in 1 .. n + 1
    BY <1>1
  <1> HIDE DEF v, n
  <1>4. ASSUME NEW i \in 1 .. n, v[i].op = "read"
        PROVE  \E block \in BlocksOf(b) :
                 /\ block.offset = v[i].arg
                 /\ \/ block.state = "IN_USE"
                    \/ /\ block.state = "FREE_PENDING_TOKEN"
                       /\ \E j \in DOMAIN v : i < j /\ SetsToken(v[j], block.token)
    <2>1. u[i].op = "read" /\ u[i] = v[i] /\ i \in DOMAIN u
      BY <1>1, <1>4
    <2>2. PICK block \in BlocksOf(b) :
            /\ block.offset = u[i].arg
            /\ \/ block.state = "IN_USE"
               \/ /\ block.state = "FREE_PENDING_TOKEN"
                  /\ \E j \in DOMAIN u : i < j /\ SetsToken(u[j], block.token)
      BY <2>1 DEF ReadsComeFirst
    <2>3. \A j \in DOMAIN u : j \in DOMAIN v /\ v[j] = u[j]
      BY <1>1, <1>3
    <2> QED BY <2>1, <2>2, <2>3
  <1>5. \A i \in 1 .. n + 1 : v[i].op = "read" =>
          \E block \in BlocksOf(b) :
                 /\ block.offset = v[i].arg
                 /\ \/ block.state = "IN_USE"
                    \/ /\ block.state = "FREE_PENDING_TOKEN"
                       /\ \E j \in DOMAIN v : i < j /\ SetsToken(v[j], block.token)
    BY <1>1, <1>2, <1>4
  <1> QED BY <1>1, <1>5 DEF ReadsComeFirst, v

\* The newest block waits for the token that comes last.
LEMMA ReadsTokenSet ==
  ASSUME NEW u \in Seq(Entries), NEW cmd \in Entries, NEW b, BlocksTile(b),
         ReadsComeFirst(u, b), cmd.op = "set_token"
  PROVE  ReadsComeFirst(Append(u, cmd), FreePendingToken(b, cmd.arg))
  <1> DEFINE v == Append(u, cmd)
             n == Len(u)
             c == FreePendingToken(b, cmd.arg)
             last == Len(b.blocks)
             Good(i, d) == \E block \in BlocksOf(d) :
                 /\ block.offset = v[i].arg
                 /\ \/ block.state = "IN_USE"
                    \/ /\ block.state = "FREE_PENDING_TOKEN"
                       /\ \E j \in DOMAIN v : i < j /\ SetsToken(v[j], block.token)
  <1>1. /\ n \in Nat /\ DOMAIN v = 1 .. n + 1 /\ v[n + 1] = cmd
    BY AppendIs
  <1>2. ReadsComeFirst(v, b)
    BY ReadsLonger
  <1>3. /\ DOMAIN c.blocks = 1 .. last /\ DOMAIN b.blocks = 1 .. last
        /\ \A i \in 1 .. last :
             IF i # last THEN c.blocks[i] = b.blocks[i]
             ELSE /\ c.blocks[i].offset = b.blocks[i].offset
                  /\ c.blocks[i].token = cmd.arg
                  /\ c.blocks[i].state = "FREE_PENDING_TOKEN"
    BY FreePendingIs
  <1> HIDE DEF v, n, c, last
  <1>4. ASSUME NEW i \in DOMAIN v, v[i].op = "read"
        PROVE  Good(i, c)
    <2>1. PICK block \in BlocksOf(b) :
            /\ block.offset = v[i].arg
            /\ \/ block.state = "IN_USE"
               \/ /\ block.state = "FREE_PENDING_TOKEN"
                  /\ \E j \in DOMAIN v : i < j /\ SetsToken(v[j], block.token)
      BY <1>2, <1>4 DEF ReadsComeFirst
    <2>2. PICK k \in 1 .. last : block = b.blocks[k]
      BY <1>3 DEF BlocksOf
    <2>3. c.blocks[k] \in BlocksOf(c)
      BY <1>3 DEF BlocksOf
    <2>4. CASE k # last
      BY <1>3, <2>1, <2>2, <2>3, <2>4
    <2>5. CASE k = last
      <3>1. i < n + 1 /\ n + 1 \in DOMAIN v
        <4>1. i # n + 1
          BY <1>1, <1>4
        <4> QED BY <1>1, <4>1
      <3>2. SetsToken(v[n + 1], c.blocks[k].token)
        BY <1>1, <1>3, <2>5 DEF SetsToken
      <3> QED BY <1>3, <2>1, <2>2, <2>3, <2>5, <3>1, <3>2
    <2> QED BY <2>4, <2>5
  <1> QED BY <1>4 DEF ReadsComeFirst, v, c

\* The token of a command more is the highest.
LEMMA TokensLonger ==
  ASSUME NEW u \in Seq(Entries), NEW cmd \in Entries, NEW low \in Nat,
         NEW next \in Nat, NEW limit \in Nat, TokensGrow(u, low, next), next =< limit,
         cmd.op = "set_token" => next =< cmd.arg /\ cmd.arg < limit
  PROVE  TokensGrow(Append(u, cmd), low, limit)
  <1> DEFINE v == Append(u, cmd)
             n == Len(u)
  <1>1. /\ n \in Nat /\ DOMAIN u = 1 .. n /\ DOMAIN v = 1 .. n + 1
        /\ \A i \in 1 .. n : v[i] = u[i]
        /\ v[n + 1] = cmd /\ v \in Seq(Entries)
    BY AppendIs
  <1>2. \A i \in 1 .. n + 1 : i \in 1 .. n \/ i = n + 1
    BY <1>1
  <1> HIDE DEF v, n
  <1>3. /\ low < next
        /\ \A i \in 1 .. n :
             v[i].op = "set_token" =>
               /\ low < v[i].arg /\ v[i].arg < next
               /\ \A j \in 1 .. n : i < j /\ v[j].op = "set_token" => v[i].arg < v[j].arg
    BY <1>1 DEF TokensGrow
  <1>4. low < limit
    BY <1>3
  <1>5. \A i \in 1 .. n + 1 : v[i].arg \in Nat
    BY <1>1, ArgsAreNat
  <1>6. ASSUME NEW i \in 1 .. n + 1, v[i].op = "set_token"
        PROVE  /\ low < v[i].arg /\ v[i].arg < limit
               /\ \A j \in 1 .. n + 1 : i < j /\ v[j].op = "set_token" => v[i].arg < v[j].arg
    <2>1. CASE i = n + 1
      <3>1. \A j \in 1 .. n + 1 : ~(i < j)
        BY <1>1, <2>1
      <3>2. v[i].arg = cmd.arg /\ cmd.arg \in Nat /\ next =< cmd.arg /\ cmd.arg < limit
        BY <1>1, <1>5, <1>6, <2>1
      <3> QED BY <1>3, <3>1, <3>2
    <2>2. CASE i \in 1 .. n
      <3>1. low < v[i].arg /\ v[i].arg < next /\ v[i].arg \in Nat
        BY <1>3, <1>5, <1>6, <2>2
      <3>2. ASSUME NEW j \in 1 .. n + 1, i < j, v[j].op = "set_token"
            PROVE  v[i].arg < v[j].arg
        <4>1. CASE j \in 1 .. n
          BY <1>3, <1>6, <2>2, <3>2, <4>1
        <4>2. CASE j = n + 1
          <5>1. v[j].arg = cmd.arg /\ cmd.arg \in Nat /\ next =< cmd.arg
            BY <1>1, <1>5, <3>2, <4>2
          <5> QED BY <3>1, <5>1
        <4> QED BY <1>2, <4>1, <4>2
      <3> QED BY <3>1, <3>2
    <2> QED BY <1>2, <2>1, <2>2
  <1> QED BY <1>1, <1>4, <1>6 DEF TokensGrow, v

\* The first command less: a sequence and what follows its first element.
LEMMA FirstAndRest ==
  ASSUME NEW T, NEW e \in T, NEW q \in Seq(T)
  PROVE  LET n == Len(q)
             s == <<e>> \o q
         IN /\ n \in Nat /\ DOMAIN q = 1 .. n /\ DOMAIN s = 1 .. n + 1 /\ Len(s) = n + 1
            /\ s \in Seq(T) /\ s[1] = e /\ (q = <<>> <=> n = 0) /\ s # <<>>
            /\ \A i \in 1 .. n : s[i + 1] = q[i] /\ i + 1 \in 1 .. n + 1
            /\ \A i \in 1 .. n + 1 : i # 1 => i - 1 \in 1 .. n /\ s[i] = q[i - 1]
  <1> DEFINE n == Len(q)
             s == <<e>> \o q
  <1>1. <<e>> \in Seq(T) /\ n \in Nat /\ DOMAIN q = 1 .. n /\ (q = <<>> <=> n = 0)
    BY EmptySeq
  <1>2. /\ s # <<>> /\ Head(s) = e /\ Tail(s) = q
    BY TailOfConcat
  <1>3. s \in Seq(T)
    BY <1>1, ConcatProperties
  <1> HIDE DEF s
  <1>4. LET m == Len(s)
        IN /\ m \in Nat \ {0} /\ DOMAIN s = 1 .. m /\ e = s[1]
           /\ n = m - 1 /\ \A i \in 1 .. m - 1 : q[i] = s[i + 1] /\ i + 1 \in 1 .. m
    BY <1>2, <1>3, TailIs
  <1> HIDE DEF n
  <1>5. Len(s) = n + 1 /\ n + 1 - 1 = n
    BY <1>1, <1>4
  <1>6. /\ \A i \in 1 .. n : s[i + 1] = q[i] /\ i + 1 \in 1 .. n + 1
        /\ DOMAIN s = 1 .. n + 1 /\ s[1] = e
    BY <1>4, <1>5
  <1>7. ASSUME NEW i \in 1 .. n + 1, i # 1
        PROVE  i - 1 \in 1 .. n /\ s[i] = q[i - 1]
    <2>1. i - 1 \in 1 .. n /\ (i - 1) + 1 = i
      BY <1>1, <1>7
    <2> QED BY <1>6, <2>1
  <1> QED BY <1>1, <1>2, <1>3, <1>5, <1>6, <1>7 DEF s, n

LEMMA ReadsOfRest ==
  ASSUME NEW cmd \in Entries, NEW u \in Seq(Entries), NEW b,
         ReadsComeFirst(<<cmd>> \o u, b)
  PROVE  ReadsComeFirst(u, b)
  <1> DEFINE s == <<cmd>> \o u
             n == Len(u)
  <1>1. /\ n \in Nat /\ DOMAIN u = 1 .. n /\ DOMAIN s = 1 .. n + 1
        /\ \A i \in 1 .. n : s[i + 1] = u[i] /\ i + 1 \in 1 .. n + 1
        /\ \A i \in 1 .. n + 1 : i # 1 => i - 1 \in 1 .. n /\ s[i] = u[i - 1]
    BY FirstAndRest
  <1> HIDE DEF s, n
  <1>2. ASSUME NEW i \in 1 .. n, u[i].op = "read"
        PROVE  \E block \in BlocksOf(b) :
                 /\ block.offset = u[i].arg
                 /\ \/ block.state = "IN_USE"
                    \/ /\ block.state = "FREE_PENDING_TOKEN"
                       /\ \E j \in DOMAIN u : i < j /\ SetsToken(u[j], block.token)
    <2>1. s[i + 1] = u[i] /\ i + 1 \in DOMAIN s
      BY <1>1
    <2>2. PICK block \in BlocksOf(b) :
            /\ block.offset = s[i + 1].arg
            /\ \/ block.state = "IN_USE"
               \/ /\ block.state = "FREE_PENDING_TOKEN"
                  /\ \E j \in DOMAIN s : i + 1 < j /\ SetsToken(s[j], block.token)
      BY <1>2, <2>1 DEF ReadsComeFirst, s
    <2>3. ASSUME NEW j \in DOMAIN s, i + 1 < j, SetsToken(s[j], block.token)
          PROVE  j - 1 \in DOMAIN u /\ i < j - 1 /\ SetsToken(u[j - 1], block.token)
      <3>1. j \in 1 .. n + 1 /\ j # 1 /\ i < j - 1
        BY <1>1, <2>3
      <3> QED BY <1>1, <2>3, <3>1
    <2> QED BY <2>1, <2>2, <2>3
  <1> QED BY <1>1, <1>2 DEF ReadsComeFirst

LEMMA TokensOfRest ==
  ASSUME NEW cmd \in Entries, NEW u \in Seq(Entries), NEW low \in Nat, NEW next \in Nat,
         TokensGrow(<<cmd>> \o u, low, next)
  PROVE  LET token == IF cmd.op = "set_token" THEN cmd.arg ELSE low
         IN TokensGrow(u, token, next) /\ low =< token
  <1> DEFINE s == <<cmd>> \o u
             n == Len(u)
             token == IF cmd.op = "set_token" THEN cmd.arg ELSE low
  <1>1. /\ n \in Nat /\ DOMAIN u = 1 .. n /\ DOMAIN s = 1 .. n + 1 /\ s[1] = cmd
        /\ \A i \in 1 .. n : s[i + 1] = u[i] /\ i + 1 \in 1 .. n + 1
    BY FirstAndRest
  <1> HIDE DEF s, n
  <1>2. /\ low < next
        /\ \A i \in 1 .. n + 1 :
             s[i].op = "set_token" =>
               /\ low < s[i].arg /\ s[i].arg < next
               /\ \A j \in 1 .. n + 1 : i < j /\ s[j].op = "set_token" => s[i].arg < s[j].arg
    BY <1>1 DEF TokensGrow, s
  <1>3. 1 \in 1 .. n + 1 /\ \A i \in 1 .. n : 1 < i + 1
    BY <1>1
  <1>4. token \in Nat /\ token < next /\ low =< token
    <2>1. cmd.arg \in Nat
      BY ArgsAreNat
    <2>2. cmd.op = "set_token" => low < cmd.arg /\ cmd.arg < next
      BY <1>1, <1>2, <1>3
    <2> QED BY <1>2, <2>1, <2>2
  <1>5. ASSUME NEW i \in 1 .. n, u[i].op = "set_token"
        PROVE  /\ token < u[i].arg /\ u[i].arg < next
               /\ \A j \in 1 .. n : i < j /\ u[j].op = "set_token" => u[i].arg < u[j].arg
    <2>1. s[i + 1] = u[i] /\ i + 1 \in 1 .. n + 1
      BY <1>1
    <2>2. low < u[i].arg /\ u[i].arg < next
      BY <1>2, <1>5, <2>1
    <2>3. cmd.op = "set_token" => cmd.arg < u[i].arg
      BY <1>1, <1>2, <1>3, <1>5, <2>1
    <2>4. ASSUME NEW j \in 1 .. n, i < j, u[j].op = "set_token"
          PROVE  u[i].arg < u[j].arg
      <3>1. s[j + 1] = u[j] /\ j + 1 \in 1 .. n + 1 /\ i + 1 < j + 1
        BY <1>1, <2>4
      <3> QED BY <1>2, <1>5, <2>1, <2>4, <3>1
    <2> QED BY <2>2, <2>3, <2>4
  <1> HIDE DEF token
  <1> QED BY <1>1, <1>4, <1>5 DEF TokensGrow, token

\* Nothing was lost, and what is read is kept.
NothingLost == ~IsError(service) /\ ~dropped
KInv == RInv /\ NothingLost /\ MemoryIsKept

LEMMA KInvIs ==
  ASSUME KInv
  PROVE  /\ RInv /\ IInv /\ ~IsError(service) /\ ~dropped
         /\ ~IsError(state_after_last_flush) /\ ~IsError(last_state)
         /\ MemoryIsKept
         /\ service \in States /\ service.token \in Nat
         /\ state_after_last_flush.token \in Nat
         /\ helper \in Helpers /\ helper.token \in Nat /\ helper.token < TokenLimit
         /\ TokenLimit \in Nat \ {0}
         /\ BlocksTile(transfer) /\ Unexecuted \in Seq(Entries)
         /\ ClientOK
         /\ client \in [pc : Pcs, cmd : Calls \cup {Idle}, start : Nat, end : Nat,
                        then : {"return", "wrap", "room", "finish", "token"}]
  <1>1. RInv /\ IInv /\ ~IsError(service) /\ ~dropped /\ MemoryIsKept
    BY DEF KInv, RInv, NothingLost
  <1>2. ~IsError(state_after_last_flush) /\ ~IsError(last_state)
    BY <1>1 DEF IInv, ErrorsArePassedOn
  <1>3. TokenLimit \in Nat \ {0} /\ \A token \in Tokens : token \in Nat /\ token < TokenLimit
    BY CommandBufferAssumption DEF Tokens
  <1>4. /\ service \in States /\ service.token \in Tokens
        /\ state_after_last_flush.token \in Tokens
        /\ helper \in Helpers /\ helper.token \in Tokens
        /\ BlocksTile(transfer) /\ ClientOK
    BY <1>1 DEF IInv, TypeOK, States, Helpers
  <1> QED BY <1>1, <1>2, <1>3, <1>4, UnexecutedType DEF ClientOK

\* The tokens, where the client stays at its command or has none that sets one.
LEMMA TokensStay ==
  ASSUME TokensInOrder, UNCHANGED <<Unexecuted, service, state_after_last_flush>>,
         helper'.token = helper.token,
         client'.pc = "ready" => client'.cmd = Idle,
         \/ client'.cmd = client.cmd /\ (client.cmd.op = "set_token" => (Wrapping' <=> Wrapping))
         \/ client'.cmd.op # "set_token" /\ client.cmd.op # "set_token"
  PROVE  TokensInOrder'
  <1>1. Wrapping' <=> Wrapping
    BY DEF Wrapping
  <1>2. NextToken(client'.cmd.op, helper'.token) = NextToken(client.cmd.op, helper.token)
    BY DEF NextToken
  <1>3. client'.cmd.op = "set_token" => client'.cmd = client.cmd
    OBVIOUS
  <1> QED BY <1>1, <1>2, <1>3 DEF TokensInOrder

\* The steps that leave the commands, the transfer ring and the tokens alone.
LEMMA MemoryStays ==
  ASSUME MemoryIsKept, UNCHANGED <<Unexecuted, transfer, service, state_after_last_flush>>,
         helper'.token = helper.token, helper'.have_ring_buffer = helper.have_ring_buffer,
         client'.pc = "ready" => client'.cmd = Idle,
         \/ client'.cmd = client.cmd /\ (client.cmd.op = "set_token" => (Wrapping' <=> Wrapping))
         \/ /\ client'.cmd.op \notin {"set_token", "read"} /\ client.cmd.op # "set_token"
            /\ client'.cmd.op = "alloc" => ~InUse(transfer),
         OldestAwaited'
  PROVE  MemoryIsKept'
  <1>1. ReadsComeFirst(Unexecuted, transfer)'
    BY DEF MemoryIsKept
  <1>2. TokensInOrder'
    BY TokensStay DEF MemoryIsKept
  <1>3. TokenIsPublished'
    BY DEF MemoryIsKept, TokenIsPublished
  <1>4. NewestInUse'
    <2>1. CASE client'.cmd = client.cmd
      BY <2>1 DEF MemoryIsKept, NewestInUse, InUse
    <2>2. CASE client'.cmd.op # "read" /\ (client'.cmd.op = "alloc" => ~InUse(transfer))
      <3>1. \A i \in DOMAIN transfer.blocks :
              transfer.blocks[i].state = "IN_USE" => i = Len(transfer.blocks) /\ InUse(transfer)
        BY DEF MemoryIsKept, NewestInUse, InUse
      <3> QED BY <2>2, <3>1 DEF NewestInUse
    <2> QED BY <2>1, <2>2
  <1> QED BY <1>1, <1>2, <1>3, <1>4 DEF MemoryIsKept

\* No wait for a token, no claim about one.
LEMMA NothingAwaited ==
  ASSUME client'.pc # "flush_token", client'.then # "token"
  PROVE  OldestAwaited'
  BY DEF OldestAwaited

LEMMA FlushMemory ==
  ASSUME KInv, Flush \/ OrderingBarrier
  PROVE  MemoryIsKept'
  <1>1. IInv /\ CanCall /\ MemoryIsKept
    BY DEF KInv, RInv, Flush, OrderingBarrier
  <1>2. Now \in Buffers /\ Now.h = helper /\ last_state \in States /\ client.then = "return"
        /\ client.pc = "ready"
    BY <1>1, CanCallIs DEF Known
  <1>3. PICK t : Put(t) /\ Same(Now, t)
    BY <1>2, FlushSame DEF Flush, OrderingBarrier
  <1>4. UNCHANGED <<client, service, transfer, state_after_last_flush>>
    BY DEF Flush, OrderingBarrier, gpu_vars
  <1>5. UNCHANGED Unexecuted
    BY <1>3, <1>4, SameRefines
  <1>6. helper'.token = helper.token /\ helper'.have_ring_buffer = helper.have_ring_buffer
    BY <1>2, <1>3 DEF Put, Same
  <1>7. OldestAwaited'
    BY <1>2, <1>4, NothingAwaited
  <1>8. client'.pc = "ready" => client'.cmd = Idle
    BY <1>1, <1>4 DEF MemoryIsKept, TokensInOrder
  <1>9. Wrapping' <=> Wrapping
    BY <1>4 DEF Wrapping
  <1> QED BY <1>1, <1>4, <1>5, <1>6, <1>7, <1>8, <1>9, MemoryStays

LEMMA StartsMemory ==
  ASSUME KInv, Finish \/ Alloc
  PROVE  MemoryIsKept'
  <1>1. IInv /\ CanCall /\ MemoryIsKept /\ client.pc = "ready"
    BY DEF KInv, RInv, Finish, Alloc, CanCall
  <1>2. UNCHANGED <<entries, helper, service, transfer, state_after_last_flush>>
    BY DEF Finish, Alloc, gpu_vars
  <1>3. client.cmd.op = "none"
    BY <1>1, ClientIs DEF MemoryIsKept, TokensInOrder
  <1>4. /\ client'.pc \in {"finish", "alloc"} /\ client'.then = "return"
        /\ client'.cmd.op \in {"finish", "alloc"}
        /\ client'.cmd.op = "alloc" => ~InUse(transfer)
    <2>1. CASE Finish
      BY <2>1, ClientIs DEF Finish, Cmd
    <2>2. CASE Alloc
      BY <2>2, ClientIs DEF Alloc, Cmd
    <2> QED BY <2>1, <2>2
  <1>5. UNCHANGED Unexecuted
    BY <1>2 DEF Unexecuted
  <1>6. OldestAwaited'
    BY <1>4, NothingAwaited
  <1> QED BY <1>1, <1>2, <1>3, <1>4, <1>5, <1>6, MemoryStays

LEMMA FlushTokenMemory ==
  ASSUME KInv, FlushToken
  PROVE  MemoryIsKept'
  <1>1. /\ IInv /\ MemoryIsKept /\ client.pc = "flush_token" /\ client.cmd.op = "alloc"
        /\ Now \in Buffers /\ Now.h = helper /\ last_state \in States
    BY InvariantIsHeld DEF KInv, RInv, IInv, TypeOK, ClientOK, FlushToken, Known
  <1>2. /\ Put(FlushHelper(Now))
        /\ UNCHANGED <<service, transfer, state_after_last_flush>>
        /\ client' = Wait("poll", client.cmd, client.start, helper.token, "token")
    BY DEF FlushToken, gpu_vars
  <1>3. /\ client'.pc = "poll" /\ client'.cmd = client.cmd /\ client'.start = client.start
        /\ client'.end = helper.token /\ client'.then = "token"
    BY <1>2 DEF Wait
  <1>4. UNCHANGED Unexecuted
    BY <1>1, <1>2, FlushSame, SameRefines
  <1>5. helper'.token = helper.token /\ helper'.have_ring_buffer = helper.have_ring_buffer
    BY <1>1, <1>2, FlushSame DEF Put, Same
  <1>6. OldestAwaited'
    BY <1>1, <1>2, <1>3, <1>5 DEF MemoryIsKept, OldestAwaited
  <1> QED BY <1>1, <1>2, <1>3, <1>4, <1>5, <1>6, MemoryStays

\* A poll that sees the token of the oldest block between its start and the newest
\* token ends: the newest is the higher one.
LEMMA PollMemory ==
  ASSUME KInv, Poll
  PROVE  MemoryIsKept'
  <1> DEFINE value == IF client.then = "token" THEN state_after_last_flush.token
                      ELSE state_after_last_flush.get_offset
             pc == IF InRange(client.start, client.end, value) \/ IsError(state_after_last_flush)
                   THEN "return" ELSE "wait"
  <1>1. /\ MemoryIsKept /\ client.pc = "poll" /\ ClientOK
        /\ ~IsError(state_after_last_flush)
        /\ client \in [pc : Pcs, cmd : Calls \cup {Idle}, start : Nat, end : Nat,
                       then : {"return", "wrap", "room", "finish", "token"}]
        /\ state_after_last_flush.token \in Nat
    BY KInvIs DEF Poll
  <1>2. /\ UNCHANGED <<entries, helper, service, transfer, state_after_last_flush>>
        /\ client' = [client EXCEPT !.pc = pc]
    BY DEF Poll, gpu_vars
  <1>3. /\ client'.pc = pc /\ client'.cmd = client.cmd /\ client'.start = client.start
        /\ client'.end = client.end /\ client'.then = client.then
    <2> HIDE DEF pc
    <2> QED BY <1>1, <1>2
  <1>4. pc \in {"return", "wait"} /\ (pc = "return" => InRange(client.start, client.end, value))
    BY <1>1
  <1>5. UNCHANGED Unexecuted
    BY <1>2 DEF Unexecuted
  <1> HIDE DEF pc
  <1>6. OldestAwaited'
    <2> SUFFICES ASSUME client.then = "token"
                 PROVE  OldestAwaited'
      BY <1>3, <1>4, NothingAwaited
    <2>1. /\ Head(transfer.blocks).token = client.start
          /\ client.start =< helper.token /\ client.end = helper.token
      BY <1>1 DEF MemoryIsKept, OldestAwaited
    <2>2. pc = "return" => client.start =< state_after_last_flush.token
      BY <1>1, <1>4, <2>1 DEF InRange
    <2> QED BY <1>2, <1>3, <2>1, <2>2 DEF OldestAwaited
  <1>7. Wrapping' <=> Wrapping
    BY <1>1, <1>3, <1>4 DEF Wrapping
  <1>8. client'.pc # "ready"
    BY <1>3, <1>4
  <1> QED BY <1>1, <1>2, <1>3, <1>5, <1>6, <1>7, <1>8, MemoryStays

LEMMA WokenMemory ==
  ASSUME KInv, Woken
  PROVE  MemoryIsKept'
  <1>1. /\ MemoryIsKept /\ client.pc = "wait"
        /\ client \in [pc : Pcs, cmd : Calls \cup {Idle}, start : Nat, end : Nat,
                       then : {"return", "wrap", "room", "finish", "token"}]
    BY KInvIs DEF Woken
  <1>2. /\ UNCHANGED <<entries, helper, service, transfer, state_after_last_flush>>
        /\ client' = [client EXCEPT !.pc = "poll"]
    BY DEF Woken, gpu_vars
  <1>3. /\ client'.pc = "poll" /\ client'.cmd = client.cmd /\ client'.start = client.start
        /\ client'.end = client.end /\ client'.then = client.then
    BY <1>1, <1>2
  <1>4. UNCHANGED Unexecuted
    BY <1>2 DEF Unexecuted
  <1>5. OldestAwaited'
    BY <1>1, <1>2, <1>3 DEF MemoryIsKept, OldestAwaited
  <1>6. Wrapping' <=> Wrapping
    BY <1>1, <1>3 DEF Wrapping
  <1> QED BY <1>1, <1>2, <1>3, <1>4, <1>5, <1>6, MemoryStays

\* The GPU thread's steps that execute nothing: a state that is published has the
\* service's token.
LEMMA GpuMemory ==
  ASSUME KInv, NothingLost', StartFlush \/ SignalFlush \/ DestroyTransferBuffer
  PROVE  MemoryIsKept'
  <1>1. /\ MemoryIsKept /\ service \in States /\ IInv /\ ~IsError(service)
    BY KInvIs
  <1>2. /\ UNCHANGED <<entries, helper, client, transfer, state_after_last_flush>>
        /\ \/ service' = service
           \/ service' = [service EXCEPT !.error = "kLostContext"]
           \/ service' = [service EXCEPT !.get_offset = 0] /\ ~helper.have_ring_buffer
    BY <1>1, FirstTaskIs DEF StartFlush, SignalFlush, DestroyTransferBuffer, client_vars
  <1>3. \/ service' = service
        \/ service' = [service EXCEPT !.get_offset = 0] /\ ~helper.have_ring_buffer
    <2>1. [service EXCEPT !.error = "kLostContext"].error # "kNoError"
      BY <1>1 DEF States
    <2> QED BY <1>2, <2>1 DEF NothingLost, IsError
  <1>4. /\ UNCHANGED Unexecuted /\ service'.token = service.token
        /\ service' = service \/ ~helper.have_ring_buffer
    <2>1. CASE service' = service
      BY <1>2, <2>1 DEF Unexecuted
    <2>2. CASE service' = [service EXCEPT !.get_offset = 0] /\ ~helper.have_ring_buffer
      BY <1>1, <1>2, <2>2 DEF Unexecuted, States
    <2> QED BY <1>3, <2>1, <2>2
  <1>5. ReadsComeFirst(Unexecuted, transfer)' /\ NewestInUse' /\ OldestAwaited'
    BY <1>1, <1>2, <1>4 DEF MemoryIsKept, NewestInUse, OldestAwaited
  <1>6. TokensInOrder'
    <2>1. Wrapping' <=> Wrapping
      BY <1>2 DEF Wrapping
    <2> QED BY <1>1, <1>2, <1>4, <2>1 DEF MemoryIsKept, TokensInOrder
  <1>7. TokenIsPublished'
    BY <1>1, <1>2, <1>4 DEF MemoryIsKept, TokenIsPublished
  <1> QED BY <1>5, <1>6, <1>7 DEF MemoryIsKept

LEMMA SetGetBufferMemory ==
  ASSUME KInv, SetGetBuffer
  PROVE  MemoryIsKept'
  <1>1. /\ MemoryIsKept /\ service \in States /\ IInv /\ client.then = "return"
        /\ client \in [pc : Pcs, cmd : Calls \cup {Idle}, start : Nat, end : Nat,
                       then : {"return", "wrap", "room", "finish", "token"}]
        /\ client.pc = "set_get_buffer" /\ ~helper.have_ring_buffer
    BY KInvIs, FirstTaskIs DEF SetGetBuffer, ClientOK
  <1>2. /\ UNCHANGED <<helper, transfer, state_after_last_flush>>
        /\ client' = [client EXCEPT !.pc = "get_buffer_set"]
        /\ service' = [service EXCEPT !.get_offset = 0]
    BY DEF SetGetBuffer
  <1>3. client'.pc = "get_buffer_set" /\ client'.cmd = client.cmd /\ client'.then = "return"
    BY <1>1, <1>2
  <1>4. /\ UNCHANGED Unexecuted /\ service'.token = service.token
    BY <1>1, <1>2 DEF Unexecuted, States
  <1>5. ReadsComeFirst(Unexecuted, transfer)' /\ NewestInUse'
    BY <1>1, <1>2, <1>3, <1>4 DEF MemoryIsKept, NewestInUse
  <1>6. OldestAwaited'
    BY <1>3, NothingAwaited
  <1>7. TokensInOrder'
    <2>1. ~Wrapping' /\ ~Wrapping
      BY <1>1, <1>3 DEF Wrapping
    <2> QED BY <1>1, <1>2, <1>3, <1>4, <2>1 DEF MemoryIsKept, TokensInOrder
  <1>8. TokenIsPublished'
    BY <1>1, <1>2, <1>4 DEF MemoryIsKept, TokenIsPublished
  <1> QED BY <1>5, <1>6, <1>7, <1>8 DEF MemoryIsKept

LEMMA PublishMemory ==
  ASSUME KInv, PublishState
  PROVE  MemoryIsKept'
  <1>1. MemoryIsKept /\ service.token \in Nat /\ state_after_last_flush.token \in Nat
        /\ ClientOK /\ helper.token \in Nat
    BY KInvIs
  <1>2. /\ UNCHANGED <<entries, helper, client, transfer, service>>
        /\ state_after_last_flush' = service
    BY DEF PublishState, client_vars
  <1>3. UNCHANGED Unexecuted
    BY <1>2 DEF Unexecuted
  <1>4. ReadsComeFirst(Unexecuted, transfer)' /\ NewestInUse'
    BY <1>1, <1>2, <1>3 DEF MemoryIsKept, NewestInUse
  <1>5. Wrapping' <=> Wrapping
    BY <1>2 DEF Wrapping
  <1>6. service.token =< service.token
    BY <1>1
  <1>7. TokensInOrder'
    BY <1>1, <1>2, <1>3, <1>5, <1>6 DEF MemoryIsKept, TokensInOrder
  <1>8. OldestAwaited'
    <2> SUFFICES ASSUME client.then = "token" \/ client.pc = "flush_token"
                 PROVE  OldestAwaited'
      BY <1>2 DEF OldestAwaited
    <2>1. ~Wrapping
      BY <1>1 DEF Wrapping, ClientOK
    <2>2. state_after_last_flush.token =< service.token
      BY <1>1, <2>1 DEF MemoryIsKept, TokensInOrder
    <2>3. client.start \in Nat
      BY <1>1 DEF ClientOK
    <2>4. client.start =< state_after_last_flush.token => client.start =< service.token
      BY <1>1, <2>2, <2>3
    <2> QED BY <1>1, <1>2, <2>4 DEF MemoryIsKept, OldestAwaited
  <1>9. TokenIsPublished'
    BY <1>2 DEF TokenIsPublished
  <1> QED BY <1>4, <1>7, <1>8, <1>9 DEF MemoryIsKept

\* After FreePendingToken no block is in use.
LEMMA NewestFreed ==
  ASSUME NEW token, BlocksTile(transfer), transfer' = FreePendingToken(transfer, token),
         \A i \in DOMAIN transfer.blocks :
           transfer.blocks[i].state = "IN_USE" => i = Len(transfer.blocks),
         client'.cmd.op \notin {"read", "alloc"}
  PROVE  NewestInUse'
  <1>1. /\ DOMAIN transfer'.blocks = DOMAIN transfer.blocks
        /\ \A i \in DOMAIN transfer.blocks :
             IF i # Len(transfer.blocks) THEN transfer'.blocks[i] = transfer.blocks[i]
             ELSE transfer'.blocks[i].state = "FREE_PENDING_TOKEN"
    BY FreePendingIs
  <1>2. \A i \in DOMAIN transfer'.blocks : transfer'.blocks[i].state # "IN_USE"
    BY <1>1
  <1> QED BY <1>2 DEF NewestInUse

\* Execute: the first command goes, and a token that it sets is the service's.
LEMMA ExecuteMemory ==
  ASSUME KInv, Execute, NothingLost'
  PROVE  MemoryIsKept'
  <1> DEFINE get == service.get_offset
             cmd == entries[get]
             size == cmd.size
             rest == Unexecuted'
             from(x) == Ahead(last_state.get_offset, x)
             published == state_after_last_flush.get_offset
             next == OffsetAfter(get, size)
             above == NextToken(client.cmd.op, helper.token)
  <1>1. /\ IInv /\ MemoryIsKept /\ service.token \in Nat /\ helper.token \in Nat
        /\ state_after_last_flush.token \in Nat /\ TokenLimit \in Nat
    BY KInvIs
  <1>2. /\ helper.have_ring_buffer
        /\ cmd \in Commands \cup Noops
        /\ UNCHANGED <<helper, client, transfer, state_after_last_flush>>
        /\ service'.token = IF cmd.op = "set_token" THEN cmd.arg ELSE service.token
        /\ Unexecuted = Shown(cmd) \o rest /\ rest \in Seq(Entries)
        /\ service'.get_offset = next
    <2>1. ~IsError(service)'
      BY DEF NothingLost
    <2> HIDE DEF rest
    <2> QED BY <1>1, <2>1, ExecuteIs DEF client_vars, rest
  <1>3. published # next
    <2>1. /\ PublishedInOrder /\ OffsetsInOrder(Now)
          /\ get \in Offsets /\ size \in Nat \ {0}
          /\ from(next) = from(get) + size
      BY <1>1, NextCommandIs DEF Execute
    <2>2. from(published) =< from(get)
      BY <2>1 DEF PublishedInOrder
    <2>3. from(get) \in Nat
      BY <1>1, <2>1, AheadType, OffsetsAreNat DEF IInv, TypeOK, States
    <2> HIDE DEF from, size, next, published, get
    <2>4. from(next) # from(published)
      BY <2>1, <2>2, <2>3
    <2> QED BY <2>4
  <1>4. TokenIsPublished'
    BY <1>2, <1>3 DEF TokenIsPublished
  <1>5. NewestInUse' /\ OldestAwaited'
    BY <1>1, <1>2 DEF MemoryIsKept, NewestInUse, OldestAwaited
  <1>6. cmd \in Entries
    BY <1>2 DEF Entries
  <1>7. above \in Nat
    BY <1>1 DEF NextToken
  <1>8. Wrapping' <=> Wrapping
    BY <1>2 DEF Wrapping
  <1> HIDE DEF cmd, next, published, from, size, get, above
  <1>9. CASE cmd.op = "noop"
    <2>1. UNCHANGED Unexecuted /\ service'.token = service.token
      <3>1. <<>> \o rest = rest
        <4> HIDE DEF rest
        <4> QED BY <1>2, ConcatEmptySeq
      <3> QED BY <1>2, <1>9, <3>1 DEF Shown
    <2>2. ReadsComeFirst(Unexecuted, transfer)'
      BY <1>1, <1>2, <2>1 DEF MemoryIsKept
    <2>3. TokensInOrder'
      BY <1>1, <1>2, <1>8, <2>1 DEF MemoryIsKept, TokensInOrder
    <2> QED BY <1>4, <1>5, <2>2, <2>3 DEF MemoryIsKept
  <1>10. CASE cmd.op # "noop"
    <2>1. Unexecuted = <<cmd>> \o rest
      BY <1>2, <1>10 DEF Shown
    <2>2. ReadsComeFirst(Unexecuted, transfer)'
      <3>1. ReadsComeFirst(<<cmd>> \o rest, transfer)
        BY <1>1, <2>1 DEF MemoryIsKept
      <3>2. ReadsComeFirst(rest, transfer)
        <4> HIDE DEF rest
        <4> QED BY <1>2, <1>6, <3>1, ReadsOfRest
      <3> QED BY <1>2, <3>2
    <2>3. /\ client'.pc = "ready" => client'.cmd = Idle
          /\ client'.cmd.op = "set_token" => client'.cmd.arg = helper'.token
      BY <1>1, <1>2 DEF MemoryIsKept, TokensInOrder
    <2>4. CASE ~Wrapping
      <3>1. /\ state_after_last_flush.token =< service.token
            /\ TokensGrow(<<cmd>> \o rest, service.token, above)
        BY <1>1, <2>1, <2>4 DEF MemoryIsKept, TokensInOrder, above
      <3>2. TokensGrow(rest, service'.token, above) /\ service.token =< service'.token
        <4> HIDE DEF rest
        <4> QED BY <1>1, <1>2, <1>6, <1>7, <3>1, TokensOfRest
      <3>3. service'.token \in Nat
        BY <1>1, <1>2, <1>6, ArgsAreNat
      <3>4. state_after_last_flush'.token =< service'.token
        BY <1>1, <1>2, <3>1, <3>2, <3>3
      <3>5. ~Wrapping'
        BY <1>8, <2>4
      <3>6. TokensInOrder'
        BY <1>2, <2>3, <3>2, <3>4, <3>5 DEF TokensInOrder, above
      <3> QED BY <1>4, <1>5, <2>2, <3>6 DEF MemoryIsKept
    <2>5. CASE Wrapping
      <3> DEFINE n == Len(rest)
                 u == <<cmd>> \o rest
      <3>1. /\ n \in Nat /\ Len(u) = n + 1 /\ u[1] = cmd /\ u # <<>>
            /\ rest = <<>> <=> n = 0
            /\ \A i \in 1 .. n + 1 : i # 1 => i - 1 \in 1 .. n /\ u[i] = rest[i - 1]
        <4> HIDE DEF rest
        <4> QED BY <1>2, <1>6, FirstAndRest
      <3>2. helper.token = 0 /\ SetsToken(u[Len(u)], 0)
        BY <1>1, <2>1, <2>5, <3>1 DEF MemoryIsKept, TokensInOrder
      <3>3. IF rest = <<>> THEN service'.token = 0 ELSE SetsToken(rest[n], 0)
        <4> HIDE DEF rest, u, n
        <4>1. CASE n = 0
          BY <1>2, <3>1, <3>2, <4>1 DEF SetsToken
        <4>2. CASE n # 0
          <5>1. n + 1 \in 1 .. n + 1 /\ n + 1 # 1 /\ (n + 1) - 1 = n
            BY <3>1, <4>2
          <5>2. u[n + 1] = rest[n]
            BY <3>1, <5>1
          <5> QED BY <3>1, <3>2, <4>2, <5>2
        <4> QED BY <4>1, <4>2
      <3>4. TokensInOrder'
        BY <1>2, <1>8, <2>3, <2>5, <3>2, <3>3 DEF TokensInOrder
      <3> QED BY <1>4, <1>5, <2>2, <3>4 DEF MemoryIsKept
    <2> QED BY <2>4, <2>5
  <1> QED BY <1>9, <1>10

\* A command that is written, or that waits, with the block it reads in use; the
\* token of SetToken is the highest.
LEMMA CommandMemory ==
  ASSUME KInv, NothingLost', NEW s, NEW cmd \in Commands, CommandGoes(s, cmd),
         Pending(s) = Unexecuted, UNCHANGED service, s.h.token \in Nat,
         helper.have_ring_buffer => s.h.have_ring_buffer,
         cmd.op = "read" =>
           InUse(transfer) /\ cmd.arg = transfer.blocks[Len(transfer.blocks)].offset,
         cmd.op = "set_token" => cmd.arg = s.h.token,
         TokensGrow(Unexecuted, service.token, NextToken(cmd.op, s.h.token)),
         state_after_last_flush'.token =< service.token,
         UNCHANGED state_after_last_flush \/ state_after_last_flush' = service
  PROVE  MemoryIsKept'
  <1> DEFINE u == Unexecuted
             low == service.token
             token == s.h.token
             next == NextToken(cmd.op, token)
  <1>1. /\ IInv /\ MemoryIsKept /\ ~IsError(service) /\ u \in Seq(Entries)
        /\ low \in Nat /\ BlocksTile(transfer) /\ TokenLimit \in Nat \ {0}
        /\ ReadsComeFirst(u, transfer)
    BY KInvIs DEF MemoryIsKept
  <1>2. /\ cmd \in Entries /\ cmd.op \notin {"alloc", "none"} /\ cmd.op # "noop"
        /\ Idle.op = "none"
    BY ClientIs DEF Entries, Commands
  <1>3. PICK t : /\ Put(t) /\ t.h.token = token
                 /\ s.h.have_ring_buffer => t.h.have_ring_buffer
                 /\ \/ Pending(t) = Longer(s, cmd) /\ AfterCommand(cmd, TRUE)
                    \/ /\ Pending(t) = Pending(s)
                       /\ client'.cmd = cmd
                       /\ client'.pc \in {"poll", "set_get_buffer"}
                       /\ client'.then \in {"room", "wrap", "return"}
                       /\ UNCHANGED transfer
    BY <1>1 DEF CommandGoes, NothingLost
  <1>4. /\ helper'.token = token
        /\ helper.have_ring_buffer => helper'.have_ring_buffer
        /\ Unexecuted' = Pending(t)
    BY <1>3, PendingNext DEF Put
  <1>5. TokenIsPublished'
    <2>1. CASE UNCHANGED state_after_last_flush
      BY <1>1, <1>4, <2>1 DEF MemoryIsKept, TokenIsPublished
    <2>2. CASE state_after_last_flush' = service
      BY <2>2 DEF TokenIsPublished
    <2> QED BY <2>1, <2>2
  <1>6. \A i \in DOMAIN transfer.blocks :
          transfer.blocks[i].state = "IN_USE" => i = Len(transfer.blocks)
    BY <1>1 DEF MemoryIsKept, NewestInUse
  <1>7. next \in Nat
    BY <1>1 DEF NextToken
  <1>8. cmd.op = "read" => \E block \in BlocksOf(transfer) :
                             block.offset = cmd.arg /\ block.state = "IN_USE"
    <2> SUFFICES ASSUME cmd.op = "read"
                 PROVE  transfer.blocks[Len(transfer.blocks)] \in BlocksOf(transfer)
      BY DEF InUse
    <2>1. Len(transfer.blocks) \in DOMAIN transfer.blocks
      <3>1. transfer.blocks # <<>>
        BY DEF InUse
      <3>2. Len(transfer.blocks) # 0 /\ Len(transfer.blocks) \in Nat
            /\ DOMAIN transfer.blocks = 1 .. Len(transfer.blocks)
        BY <1>1, <3>1, TileIs
      <3> QED BY <3>2
    <2> QED BY <2>1 DEF BlocksOf
  <1> HIDE DEF u, low, token, next
  <1>9. TokensGrow(u, low, next) /\ (cmd.op = "set_token" => cmd.arg = token)
        /\ state_after_last_flush'.token =< service'.token
    BY DEF u, low, next, token
  <1>10. ASSUME /\ Pending(t) = Pending(s)
                /\ client'.cmd = cmd
                /\ client'.pc \in {"poll", "set_get_buffer"}
                /\ client'.then \in {"room", "wrap", "return"}
                /\ UNCHANGED transfer
         PROVE  MemoryIsKept'
    <2>1. Unexecuted' = u
      BY <1>4, <1>10 DEF u
    <2>2. ReadsComeFirst(Unexecuted, transfer)'
      BY <1>1, <1>10, <2>1
    <2>3. NewestInUse'
      BY <1>2, <1>6, <1>10 DEF NewestInUse, InUse
    <2>4. ~Wrapping'
      BY <1>10 DEF Wrapping
    <2>5. TokensInOrder'
      BY <1>4, <1>9, <1>10, <2>1, <2>4 DEF TokensInOrder, next, low, token
    <2>6. OldestAwaited'
      BY <1>10, NothingAwaited
    <2> QED BY <1>5, <2>2, <2>3, <2>5, <2>6 DEF MemoryIsKept
  <1>11. ASSUME Pending(t) = Longer(s, cmd), AfterCommand(cmd, TRUE)
         PROVE  MemoryIsKept'
    <2>1. Unexecuted' = Append(u, cmd)
      BY <1>1, <1>4, <1>11 DEF Longer, u
    <2>2. ReadsComeFirst(Append(u, cmd), transfer)
      BY <1>1, <1>2, <1>8, ReadsLonger
    <2>3. /\ client'.pc \in {"ready", "finish"} /\ client'.then = "return"
          /\ client'.pc = "ready" => client'.cmd = Idle
          /\ client'.cmd.op # "alloc"
      BY <1>2, <1>11, ClientIs DEF AfterCommand
    <2>4. OldestAwaited'
      BY <2>3, NothingAwaited
    <2>5. CASE cmd.op # "set_token"
      <3>1. client' = Ready /\ UNCHANGED transfer
        BY <1>11, <2>5 DEF AfterCommand
      <3>2. client'.cmd.op = "none" /\ client'.pc = "ready" /\ client'.cmd = Idle
        BY <3>1, ClientIs
      <3>3. NewestInUse'
        BY <1>6, <3>1, <3>2 DEF NewestInUse
      <3>4. TokensGrow(Append(u, cmd), low, next)
        <4>1. next =< next
          BY <1>7
        <4> QED BY <1>1, <1>2, <1>7, <1>9, <2>5, <4>1, TokensLonger DEF low, u
      <3>5. NextToken(client'.cmd.op, helper'.token) = next
        BY <1>4, <2>5, <3>2 DEF NextToken, next
      <3>6. ~Wrapping'
        BY <3>2 DEF Wrapping
      <3>7. TokensInOrder'
        BY <1>9, <2>1, <3>2, <3>4, <3>5, <3>6 DEF TokensInOrder, low
      <3>8. ReadsComeFirst(Unexecuted, transfer)'
        BY <2>1, <2>2, <3>1
      <3> QED BY <1>5, <2>4, <3>3, <3>7, <3>8 DEF MemoryIsKept
    <2>6. CASE cmd.op = "set_token" /\ cmd.arg # 0
      <3>1. client' = Ready /\ transfer' = FreePendingToken(transfer, cmd.arg)
        BY <1>11, <2>6 DEF AfterCommand
      <3>2. client'.cmd.op = "none" /\ client'.pc = "ready" /\ client'.cmd = Idle
        BY <3>1, ClientIs
      <3>3. NewestInUse'
        BY <1>1, <1>6, <3>1, <3>2, NewestFreed
      <3>4. TokensGrow(Append(u, cmd), low, token + 1)
        <4>1. next = token /\ token \in Nat /\ token =< token + 1 /\ token < token + 1
              /\ token + 1 \in Nat
          BY <1>9, <2>6 DEF NextToken, next, token
        <4> QED BY <1>1, <1>2, <1>9, <2>6, <4>1, TokensLonger DEF low, u
      <3>5. NextToken(client'.cmd.op, helper'.token) = token + 1
        BY <1>4, <3>2 DEF NextToken
      <3>6. ~Wrapping'
        BY <3>2 DEF Wrapping
      <3>7. TokensInOrder'
        BY <1>9, <2>1, <3>2, <3>4, <3>5, <3>6 DEF TokensInOrder, low
      <3>8. ReadsComeFirst(Unexecuted, transfer)'
        <4>1. ReadsComeFirst(Append(u, cmd), FreePendingToken(transfer, cmd.arg))
          BY <1>1, <1>2, <2>6, ReadsTokenSet
        <4> QED BY <2>1, <3>1, <4>1
      <3> QED BY <1>5, <2>4, <3>3, <3>7, <3>8 DEF MemoryIsKept
    <2>7. CASE cmd.op = "set_token" /\ cmd.arg = 0
      <3>1. client' = At("finish", cmd) /\ UNCHANGED transfer
        BY <1>11, <2>7 DEF AfterCommand
      <3>2. client'.cmd = cmd /\ client'.pc = "finish"
        BY <3>1, ClientIs
      <3>3. NewestInUse'
        BY <1>6, <2>7, <3>1, <3>2 DEF NewestInUse
      <3>4. Wrapping'
        BY <2>7, <3>2 DEF Wrapping
      <3>5. Unexecuted' # <<>> /\ SetsToken(Unexecuted'[Len(Unexecuted')], 0)
        <4>1. Append(u, cmd) # <<>> /\ Append(u, cmd)[Len(Append(u, cmd))] = cmd
          BY <1>1, <1>2, AppendIs
        <4> QED BY <2>1, <2>7, <4>1 DEF SetsToken
      <3>6. TokensInOrder'
        BY <1>4, <1>9, <2>7, <3>2, <3>4, <3>5 DEF TokensInOrder
      <3>7. ReadsComeFirst(Unexecuted, transfer)'
        BY <2>1, <2>2, <3>1
      <3> QED BY <1>5, <2>4, <3>3, <3>6, <3>7 DEF MemoryIsKept
    <2> QED BY <2>5, <2>6, <2>7
  <1> QED BY <1>3, <1>10, <1>11

\* Where the client is at no command, all tokens are below the next one.
LEMMA ReadyTokens ==
  ASSUME KInv, client.pc = "ready"
  PROVE  /\ client.cmd.op = "none" /\ client.cmd = Idle
         /\ TokensGrow(Unexecuted, service.token, helper.token + 1)
         /\ state_after_last_flush.token =< service.token
  <1>1. client.cmd.op = "none" /\ client.cmd = Idle
    BY KInvIs, ClientIs DEF MemoryIsKept, TokensInOrder
  <1>2. ~Wrapping /\ NextToken(client.cmd.op, helper.token) = helper.token + 1
    BY <1>1 DEF Wrapping, NextToken
  <1> QED BY <1>1, <1>2, KInvIs DEF MemoryIsKept, TokensInOrder

LEMMA IssueMemory ==
  ASSUME KInv, NothingLost', Issue
  PROVE  MemoryIsKept'
  <1>1. IInv /\ CanCall /\ client.pc = "ready" /\ helper.token \in Nat
    BY KInvIs DEF Issue, CanCall
  <1>2. PICK cmd \in Commands :
          /\ GetSpace(Now, cmd)
          /\ cmd.op = "work" \/
               (/\ cmd.op = "read" /\ InUse(transfer)
                /\ cmd.arg = transfer.blocks[Len(transfer.blocks)].offset)
    BY DEF Issue
  <1>3. ((Held(Now) /\ Room(Now.h)) \/ Bare(Now)) /\ Known /\ Now.h = helper
    BY <1>1, CanCallIs
  <1>4. CommandGoes(Now, cmd)
    BY <1>2, <1>3, GetSpaceGoes
  <1>5. NextToken(cmd.op, Now.h.token) = helper.token + 1
    BY <1>2, <1>3 DEF NextToken
  <1>6. UNCHANGED <<service, state_after_last_flush>>
    BY DEF Issue, gpu_vars
  <1>7. /\ TokensGrow(Unexecuted, service.token, NextToken(cmd.op, Now.h.token))
        /\ state_after_last_flush'.token =< service.token
    BY <1>1, <1>5, <1>6, ReadyTokens
  <1> QED BY <1>1, <1>2, <1>3, <1>4, <1>6, <1>7, PendingIs, CommandMemory

\* The next token is one higher, or the last one wraps.
LEMMA ReleaseMemory ==
  ASSUME KInv, NothingLost', Release
  PROVE  MemoryIsKept'
  <1> DEFINE token == (helper.token + 1) % TokenLimit
             cmd == Cmd("set_token", TokenSize, token)
  <1>1. /\ IInv /\ CanCall /\ client.pc = "ready" /\ helper.token \in Nat
        /\ helper.token < TokenLimit /\ TokenLimit \in Nat \ {0}
    BY KInvIs DEF Release, CanCall
  <1>2. /\ token \in Tokens /\ cmd \in Commands
        /\ \E s : /\ CommandGoes(s, cmd) /\ Pending(s) = Pending(Now)
                  /\ s.h.token = token
                  /\ s.h.have_ring_buffer = helper.have_ring_buffer
    BY <1>1, ReleaseGoes
  <1>3. PICK s : /\ CommandGoes(s, cmd) /\ Pending(s) = Pending(Now)
                 /\ s.h.token = token
                 /\ s.h.have_ring_buffer = helper.have_ring_buffer
    BY <1>2
  <1>4. cmd.op = "set_token" /\ cmd.arg = token
    BY DEF Cmd
  <1>5. NextToken(cmd.op, token) = helper.token + 1 /\ token \in Nat
    <2>1. helper.token + 1 \in 0 .. TokenLimit
      BY <1>1
    <2>2. token = IF helper.token + 1 = TokenLimit THEN 0 ELSE helper.token + 1
      BY <1>1, <2>1, ModWrap
    <2> HIDE DEF token, cmd
    <2> QED BY <1>1, <1>4, <2>2 DEF NextToken
  <1>6. UNCHANGED <<service, state_after_last_flush>>
    BY DEF Release, gpu_vars
  <1> HIDE DEF token, cmd
  <1>7. /\ TokensGrow(Unexecuted, service.token, NextToken(cmd.op, s.h.token))
        /\ state_after_last_flush'.token =< service.token
    BY <1>1, <1>3, <1>5, <1>6, ReadyTokens
  <1> QED BY <1>2, <1>3, <1>4, <1>5, <1>6, <1>7, PendingIs, CommandMemory

\* A command that waited goes on.
LEMMA ReturnMemory ==
  ASSUME KInv, NothingLost',
         \/ WaitReturns /\ (WrapReturns \/ RoomReturns)
         \/ SetGetBufferReturns
  PROVE  MemoryIsKept'
  <1> DEFINE cmd == client.cmd
  <1>1. /\ IInv /\ MemoryIsKept /\ ClientOK /\ helper.token \in Nat /\ service.token \in Nat
        /\ Now.h = helper
    BY KInvIs, InvariantIsHeld
  <1>2. /\ cmd \in Commands /\ client.then # "finish" /\ client.pc # "finish"
        /\ CommandGoes(Now, cmd)
    <2>1. CASE WaitReturns /\ (WrapReturns \/ RoomReturns)
      <3>1. cmd \in Commands /\ client.then # "finish" /\ client.pc # "finish"
        BY <1>1, <2>1 DEF WaitReturns, WrapReturns, RoomReturns, ClientOK
      <3>2. CommandGoes(Now, cmd)
        BY <1>1, <2>1, WrapReturnsGoes, RoomReturnsGoes
      <3> QED BY <3>1, <3>2
    <2>2. CASE SetGetBufferReturns
      <3>1. cmd \in Commands /\ client.then # "finish" /\ client.pc # "finish"
        BY <1>1, <2>2 DEF SetGetBufferReturns, ClientOK
      <3>2. CommandGoes(Now, cmd)
        BY <1>1, <2>2, AllocatedGoes
      <3> QED BY <3>1, <3>2
    <2> QED BY <2>1, <2>2
  <1>3. /\ UNCHANGED service
        /\ UNCHANGED state_after_last_flush \/ state_after_last_flush' = service
    BY DEF WaitReturns, SetGetBufferReturns, gpu_vars
  <1>4. /\ state_after_last_flush.token =< service.token
        /\ TokensGrow(Unexecuted, service.token, NextToken(cmd.op, helper.token))
        /\ cmd.op = "set_token" => cmd.arg = helper.token
    BY <1>1, <1>2 DEF MemoryIsKept, TokensInOrder, Wrapping
  <1>5. cmd.op = "read" =>
          InUse(transfer) /\ cmd.arg = transfer.blocks[Len(transfer.blocks)].offset
    BY <1>1 DEF MemoryIsKept, NewestInUse
  <1>6. state_after_last_flush'.token =< service.token
    BY <1>1, <1>3, <1>4
  <1> HIDE DEF cmd
  <1> QED BY <1>1, <1>2, <1>3, <1>4, <1>5, <1>6, PendingIs, CommandMemory

\* Where the client has read up to put_ nothing is left to publish.
LEMMA AllPublished ==
  ASSUME KInv, client.pc \notin {"set_get_buffer", "get_buffer_set"},
         helper.put = last_state.get_offset
  PROVE  Unexecuted = <<>> /\ state_after_last_flush.token = service.token
  <1> DEFINE from(x) == Ahead(last_state.get_offset, x)
             get == service.get_offset
             published == state_after_last_flush.get_offset
             put == PutOffset(helper)
  <1>1. /\ IInv /\ MemoryIsKept /\ ~IsError(service)
        /\ get \in Offsets /\ published \in Offsets /\ last_state.get_offset \in Offsets
        /\ last_put_offset \in Offsets /\ helper \in Helpers
        /\ Now.h = helper /\ Now.last_put = last_put_offset
    BY KInvIs, InvariantIsHeld DEF IInv, TypeOK, States, Now
  <1>2. Unexecuted = <<>>
    BY <1>1, NothingWaits
  <1>3. CASE ~helper.have_ring_buffer
    BY <1>1, <1>2, <1>3 DEF MemoryIsKept, TokenIsPublished
  <1>4. CASE helper.have_ring_buffer
    <2>1. put = last_state.get_offset
      BY <1>1, PutOffsetType, OffsetsAreNat
    <2>2. /\ from(published) =< from(get)
          /\ from(get) =< from(last_put_offset) /\ from(last_put_offset) =< from(put)
      BY <1>1, <1>4 DEF IInv, PublishedInOrder, OffsetsInOrder
    <2>3. /\ from(put) = 0 /\ from(published) \in Nat /\ from(get) \in Nat
          /\ from(last_put_offset) \in Nat
      BY <1>1, <2>1, AheadType, OffsetsAreNat
    <2>4. from(published) = from(get)
      <3> HIDE DEF from
      <3> QED BY <2>2, <2>3
    <2>5. published = get
      BY <1>1, <2>4, AheadInjective
    <2> QED BY <1>1, <1>2, <2>5 DEF MemoryIsKept, TokenIsPublished
  <1> QED BY <1>3, <1>4

\* The end of Finish: with a token that wrapped to 0 the order starts again.
LEMMA AfterFinishMemory ==
  ASSUME KInv, AfterFinish(client.cmd), client.pc = "finish" \/ client.then = "finish",
         Unexecuted = <<>>, state_after_last_flush.token = service.token,
         UNCHANGED <<Unexecuted, service, state_after_last_flush>>,
         helper'.token = helper.token, helper'.have_ring_buffer = helper.have_ring_buffer
  PROVE  MemoryIsKept'
  <1> DEFINE token == IF client.cmd.op = "set_token" THEN 0 ELSE helper.token
  <1>1. /\ MemoryIsKept /\ BlocksTile(transfer)
        /\ helper.token \in Nat /\ service.token \in Nat
    BY KInvIs
  <1>2. /\ client'.pc = "ready" /\ client'.cmd = Idle /\ client'.then = "return"
        /\ client'.cmd.op = "none"
        /\ transfer' = transfer \/ transfer' = FreePendingToken(transfer, client.cmd.arg)
    BY ClientIs DEF AfterFinish
  <1>3. ReadsComeFirst(Unexecuted, transfer)'
    BY DEF ReadsComeFirst
  <1>4. NewestInUse'
    <2>1. \A i \in DOMAIN transfer.blocks :
            transfer.blocks[i].state = "IN_USE" => i = Len(transfer.blocks)
      BY <1>1 DEF MemoryIsKept, NewestInUse
    <2>2. CASE transfer' = transfer
      BY <1>2, <2>1, <2>2 DEF NewestInUse
    <2>3. CASE transfer' = FreePendingToken(transfer, client.cmd.arg)
      BY <1>1, <1>2, <2>1, <2>3, NewestFreed
    <2> QED BY <1>2, <2>2, <2>3
  <1>5. service.token < helper.token + 1
    <2>1. CASE Wrapping
      <3>1. service.token = 0
        BY <1>1, <2>1 DEF MemoryIsKept, TokensInOrder
      <3> QED BY <1>1, <3>1
    <2>2. CASE ~Wrapping
      <3>1. client.cmd.op # "set_token"
        BY <2>2 DEF Wrapping
      <3> QED BY <1>1, <2>2, <3>1 DEF MemoryIsKept, TokensInOrder, TokensGrow, NextToken
    <2> QED BY <2>1, <2>2
  <1>6. TokensInOrder'
    <2>1. ~Wrapping' /\ NextToken(client'.cmd.op, helper'.token) = helper.token + 1
      BY <1>2 DEF Wrapping, NextToken
    <2>2. TokensGrow(Unexecuted', service'.token, helper.token + 1)
      BY <1>5 DEF TokensGrow
    <2>3. state_after_last_flush'.token =< service'.token
      BY <1>1
    <2> QED BY <1>2, <2>1, <2>2, <2>3 DEF TokensInOrder
  <1>7. TokenIsPublished'
    BY DEF TokenIsPublished
  <1>8. OldestAwaited'
    BY <1>2, NothingAwaited
  <1> QED BY <1>3, <1>4, <1>6, <1>7, <1>8 DEF MemoryIsKept

LEMMA FinishHelperMemory ==
  ASSUME KInv, FinishHelper
  PROVE  MemoryIsKept'
  <1>1. /\ client.pc = "finish" /\ IInv /\ MemoryIsKept /\ ClientOK
        /\ Now \in Buffers /\ Now.h = helper /\ last_state \in States
        /\ UNCHANGED <<service, state_after_last_flush>>
    BY KInvIs, InvariantIsHeld DEF FinishHelper, Known, gpu_vars
  <1>2. CASE helper.put = last_state.get_offset
    <2>1. AfterFinish(client.cmd) /\ UNCHANGED <<entries, helper>>
      BY <1>2 DEF FinishHelper
    <2>2. UNCHANGED Unexecuted
      BY <1>1, <2>1 DEF Unexecuted
    <2> QED BY <1>1, <1>2, <2>1, <2>2, AllPublished, AfterFinishMemory
  <1>3. CASE helper.put # last_state.get_offset
    <2>1. /\ Put(FlushHelper(Now)) /\ UNCHANGED transfer
          /\ client' = Wait("poll", client.cmd, helper'.put, helper'.put, "finish")
      BY <1>3 DEF FinishHelper
    <2>2. UNCHANGED Unexecuted
      BY <1>1, <2>1, FlushSame, SameRefines
    <2>3. client'.pc = "poll" /\ client'.cmd = client.cmd /\ client'.then = "finish"
      BY <2>1 DEF Wait
    <2>4. helper'.token = helper.token /\ helper'.have_ring_buffer = helper.have_ring_buffer
      BY <1>1, <2>1, FlushSame DEF Put, Same
    <2>5. OldestAwaited'
      BY <2>3, NothingAwaited
    <2>6. Wrapping' <=> Wrapping
      BY <1>1, <2>3 DEF Wrapping
    <2> QED BY <1>1, <2>1, <2>2, <2>3, <2>4, <2>5, <2>6, MemoryStays
  <1> QED BY <1>2, <1>3

LEMMA FinishReturnsMemory ==
  ASSUME KInv, WaitReturns, FinishReturns
  PROVE  MemoryIsKept'
  <1> DEFINE h == CalcImmediateEntries(helper, last_state.get_offset, 0)
             s == [Now EXCEPT !.h = h]
  <1>1. /\ client.pc = "return" /\ client.then = "finish" /\ IInv /\ RInv
        /\ Now \in Buffers /\ Known /\ helper.put < total_entry_count /\ Now.h = helper
        /\ ~IsError(last_state) /\ helper \in Helpers
        /\ UNCHANGED <<service, state_after_last_flush>>
    BY KInvIs, InvariantIsHeld DEF IInv, WaitReturns, FinishReturns, RoomInRing, gpu_vars
  <1>2. last_state.get_offset = helper.put
    BY <1>1 DEF RInv, FinishWaits
  <1>3. /\ AfterFinish(client.cmd)
        /\ helper' = h /\ UNCHANGED <<entries, tasks, last_put_offset>>
    BY <1>1 DEF FinishReturns
  <1>4. Same(Now, s) /\ s.h = h
    BY <1>1, CalculatedSame DEF Known
  <1>5. Put(s)
    <2> HIDE DEF h
    <2>1. s.h = h /\ s.entries = entries /\ s.tasks = tasks /\ s.last_put = last_put_offset
      BY DEF Now
    <2> QED BY <1>3, <2>1 DEF Put
  <1> HIDE DEF s
  <1>6. UNCHANGED Unexecuted
    BY <1>1, <1>4, <1>5, SameRefines
  <1>7. helper'.token = helper.token /\ helper'.have_ring_buffer = helper.have_ring_buffer
    BY <1>1, <1>3, <1>4 DEF Same
  <1> QED BY <1>1, <1>2, <1>3, <1>6, <1>7, AllPublished, AfterFinishMemory

LEMMA FreeRingBufferMemory ==
  ASSUME KInv, FreeRingBuffer
  PROVE  MemoryIsKept'
  <1>1. /\ client.pc = "ready" /\ client.then = "return" /\ helper \in Helpers
        /\ helper.put = last_state.get_offset /\ MemoryIsKept /\ service.token \in Nat
        /\ helper' = [helper EXCEPT !.have_ring_buffer = FALSE, !.immediate = 0]
        /\ UNCHANGED <<service, client, transfer, state_after_last_flush>>
    BY KInvIs DEF FreeRingBuffer, CanCall, gpu_vars, ClientOK
  <1>2. Unexecuted = <<>> /\ state_after_last_flush.token = service.token
    BY <1>1, AllPublished
  <1>3. ~helper'.have_ring_buffer /\ helper'.token = helper.token
    BY <1>1 DEF Helpers
  <1>4. UNCHANGED Unexecuted
    BY <1>2, <1>3 DEF Unexecuted
  <1>5. NewestInUse' /\ ReadsComeFirst(Unexecuted, transfer)'
    BY <1>1, <1>4 DEF MemoryIsKept, NewestInUse
  <1>6. TokensInOrder'
    <2>1. client'.pc = "ready" => client'.cmd = Idle
      BY <1>1 DEF MemoryIsKept, TokensInOrder
    <2>2. Wrapping' <=> Wrapping
      BY <1>1 DEF Wrapping
    <2> QED BY <1>1, <1>3, <1>4, <2>1, <2>2, TokensStay DEF MemoryIsKept
  <1>7. TokenIsPublished'
    BY <1>1, <1>2 DEF TokenIsPublished
  <1>8. OldestAwaited'
    BY <1>1, NothingAwaited
  <1> QED BY <1>5, <1>6, <1>7, <1>8 DEF MemoryIsKept

\* The steps that touch the transfer ring alone.
LEMMA RingMemory ==
  ASSUME KInv, UNCHANGED <<entries, helper, service, state_after_last_flush>>,
         client.cmd.op # "set_token",
         client'.cmd.op \notin {"set_token", "read"},
         client'.pc = "ready" => client'.cmd = Idle,
         \A block \in BlocksOf(transfer) :
           IsKept(Unexecuted, block) /\
           (\E i \in DOMAIN Unexecuted : Unexecuted[i].op = "read" /\ Unexecuted[i].arg = block.offset) =>
             block \in BlocksOf(transfer'),
         \A i \in DOMAIN transfer'.blocks :
           transfer'.blocks[i].state = "IN_USE" =>
             i = Len(transfer'.blocks) /\ client'.cmd.op # "alloc",
         OldestAwaited'
  PROVE  MemoryIsKept'
  <1>1. MemoryIsKept
    BY KInvIs
  <1>2. UNCHANGED Unexecuted
    BY DEF Unexecuted
  <1>3. ReadsComeFirst(Unexecuted, transfer')
    BY <1>1 DEF MemoryIsKept, ReadsComeFirst, IsKept
  <1>4. NewestInUse'
    BY DEF NewestInUse
  <1>5. TokensInOrder'
    BY <1>1, <1>2, TokensStay DEF MemoryIsKept
  <1>6. TokenIsPublished'
    BY <1>1 DEF MemoryIsKept, TokenIsPublished
  <1> QED BY <1>2, <1>3, <1>4, <1>5, <1>6 DEF MemoryIsKept

\* Alloc is called where no block is in use, and what is awaited has not passed.
LEMMA AllocatingIs ==
  ASSUME KInv, client.cmd.op = "alloc"
  PROVE  /\ \A block \in BlocksOf(transfer) : block.state # "IN_USE"
         /\ \A block : IsKept(Unexecuted, block) =>
              \/ block.state = "IN_USE"
              \/ /\ service.token < block.token
                 /\ block.token < helper.token + 1
         /\ state_after_last_flush.token =< service.token
  <1>1. MemoryIsKept
    BY KInvIs
  <1>2. ~Wrapping /\ NextToken(client.cmd.op, helper.token) = helper.token + 1
    BY DEF Wrapping, NextToken
  <1>3. /\ TokensGrow(Unexecuted, service.token, helper.token + 1)
        /\ state_after_last_flush.token =< service.token
    BY <1>1, <1>2 DEF MemoryIsKept, TokensInOrder
  <1>4. \A block \in BlocksOf(transfer) : block.state # "IN_USE"
    BY <1>1 DEF MemoryIsKept, NewestInUse, BlocksOf
  <1> QED BY <1>3, <1>4, KeptIsLater

\* The oldest block of Alloc, once it is padding or its token has passed, is not read.
LEMMA OldestIsFree ==
  ASSUME KInv, client.cmd.op = "alloc", NEW b, BlocksTile(b), b.blocks # <<>>,
         \A block \in BlocksOf(b) : block.state # "IN_USE",
         \/ Head(b.blocks).state = "PADDING"
         \/ Head(b.blocks).token > helper.token
         \/ state_after_last_flush.token >= Head(b.blocks).token,
         NEW block \in BlocksOf(b), IsKept(Unexecuted, block)
  PROVE  block \in BlocksOf(FreeOldest(b))
  <1> DEFINE head == Head(b.blocks)
  <1>1. head \in Blocks
    BY TileIs, HeadTailProperties
  <1>2. /\ head.token \in Nat /\ service.token \in Nat /\ helper.token \in Nat
        /\ state_after_last_flush.token \in Nat
    BY <1>1, BlocksAre, KInvIs
  <1>3. /\ block.state # "IN_USE" /\ block.state # "PADDING"
        /\ service.token < block.token /\ block.token < helper.token + 1
        /\ state_after_last_flush.token =< service.token
    BY AllocatingIs DEF IsKept
  <1> HIDE DEF head
  <1>4. block # head
    <2> SUFFICES ASSUME block = head
                 PROVE  FALSE
      OBVIOUS
    <2>1. /\ head.state # "PADDING" /\ service.token < head.token
          /\ head.token < helper.token + 1
      BY <1>3
    <2>2. \/ head.token > helper.token \/ state_after_last_flush.token >= head.token
      BY <2>1 DEF head
    <2> HIDE DEF KInv
    <2> QED BY <1>2, <1>3, <2>1, <2>2
  <1> QED BY <1>4, FreeOldestKeeps DEF head

\* A round of Alloc: what it frees has passed, and what it takes is the newest.
LEMMA AllocRoundMemory ==
  ASSUME KInv, AllocRound
  PROVE  MemoryIsKept'
  <1> DEFINE freed == FreePassed(transfer, state_after_last_flush.token)
             n == client.cmd.size
             head == Head(freed.blocks)
             Read(block) == \E i \in DOMAIN Unexecuted :
                              Unexecuted[i].op = "read" /\ Unexecuted[i].arg = block.offset
  <1>1. /\ client.pc = "alloc" /\ client.then = "return" /\ client.cmd.op = "alloc"
        /\ BlocksTile(transfer) /\ ClientOK /\ service.token \in Nat
        /\ state_after_last_flush.token \in Nat /\ helper.token \in Nat
        /\ UNCHANGED <<entries, helper, service, state_after_last_flush>>
    BY KInvIs DEF AllocRound, ClientOK, gpu_vars
  <1>2. n \in 1 .. Size
    <2>1. client.cmd \in Calls
      BY <1>1 DEF ClientOK, Idle, Cmd
    <2>2. client.cmd \in [op : {"alloc"}, size : BlockSizes, arg : {0}]
      <3>1. client.cmd \notin Commands
        BY <1>1, ClientIs
      <3> QED BY <1>1, <2>1, <3>1 DEF Calls, Cmd
    <2> QED BY <2>2, CommandBufferAssumption
  <1>3. /\ BlocksTile(freed) /\ BlocksOf(freed) \subseteq BlocksOf(transfer)
        /\ \A block \in BlocksOf(transfer) :
             Kept(block, state_after_last_flush.token) => block \in BlocksOf(freed)
    BY <1>1, FreePassedTile, FreePassedKeeps DEF Keeps
  <1>4. \A block \in BlocksOf(transfer) : block.token \in Nat
    BY <1>1, TileIs, BlocksAre DEF BlocksOf
  <1> HIDE DEF freed, n
  <1>5. \A block \in BlocksOf(freed) : block.state # "IN_USE"
    BY <1>1, <1>3, AllocatingIs
  <1>6. \A block \in BlocksOf(transfer) :
          IsKept(Unexecuted, block) => block \in BlocksOf(freed)
    <2> SUFFICES ASSUME NEW block \in BlocksOf(transfer), IsKept(Unexecuted, block)
                 PROVE  Kept(block, state_after_last_flush.token)
      BY <1>3
    <2>1. \/ block.state = "IN_USE" \/ service.token < block.token
      BY <1>1, AllocatingIs
    <2>2. state_after_last_flush.token =< service.token
      BY <1>1, AllocatingIs
    <2> QED BY <1>1, <1>4, <2>1, <2>2 DEF Kept
  <1>7. CASE n =< LargestFree(freed)
    <2>1. transfer' = Allocate(freed, n) /\ client' = Ready
      BY <1>7 DEF AllocRound, freed, n
    <2>2. client'.pc = "ready" /\ client'.cmd = Idle /\ client'.then = "return"
          /\ client'.cmd.op = "none"
      BY <2>1, ClientIs
    <2>3. /\ BlocksOf(freed) \subseteq BlocksOf(transfer')
          /\ \A i \in DOMAIN transfer'.blocks :
               transfer'.blocks[i].state = "IN_USE" => i = Len(transfer'.blocks)
      BY <1>2, <1>3, <1>5, <2>1, AllocateAdds
    <2>4. OldestAwaited'
      BY <2>2, NothingAwaited
    <2> QED BY <1>1, <1>6, <2>2, <2>3, <2>4, RingMemory
  <1>8. CASE ~(n =< LargestFree(freed)) /\
             (\/ head.state = "PADDING"
              \/ ~helper.have_ring_buffer
              \/ head.token > helper.token
              \/ state_after_last_flush.token >= head.token)
    <2>1. transfer' = FreeOldest(freed) /\ client' = client
      BY <1>8 DEF AllocRound, freed, n
    <2>2. freed.blocks # <<>>
      BY <1>2, <1>3, <1>8, RoomOrBlocks
    <2>3. \A i \in DOMAIN transfer'.blocks : transfer'.blocks[i].state # "IN_USE"
      <3>1. BlocksOf(transfer') \subseteq BlocksOf(freed)
        BY <1>3, <2>1, <2>2, FreeOldestKeeps
      <3>2. \A block \in BlocksOf(transfer') : block.state # "IN_USE"
        BY <1>5, <3>1
      <3> QED BY <3>2 DEF BlocksOf
    <2>4. \A block \in BlocksOf(transfer) :
            IsKept(Unexecuted, block) /\ Read(block) => block \in BlocksOf(transfer')
      <3> SUFFICES ASSUME NEW block \in BlocksOf(transfer),
                          IsKept(Unexecuted, block), Read(block)
                   PROVE  block \in BlocksOf(transfer')
        OBVIOUS
      <3>1. helper.have_ring_buffer
        BY DEF Unexecuted
      <3>2. \/ head.state = "PADDING" \/ head.token > helper.token
            \/ state_after_last_flush.token >= head.token
        BY <1>8, <3>1
      <3>3. block \in BlocksOf(freed)
        BY <1>6
      <3> HIDE DEF Read
      <3> QED BY <1>1, <1>3, <1>5, <2>1, <2>2, <3>2, <3>3, OldestIsFree
    <2>5. OldestAwaited'
      BY <1>1, <2>1, NothingAwaited
    <2> QED BY <1>1, <2>1, <2>3, <2>4, <2>5, RingMemory
  <1>9. CASE ~(n =< LargestFree(freed)) /\
             ~(\/ head.state = "PADDING"
               \/ ~helper.have_ring_buffer
               \/ head.token > helper.token
               \/ state_after_last_flush.token >= head.token)
    <2>1. /\ transfer' = freed
          /\ client' = [client EXCEPT !.pc = "flush_token", !.start = head.token]
      BY <1>9 DEF AllocRound, freed, n
    <2>2. freed.blocks # <<>> /\ head \in Blocks
      BY <1>2, <1>3, <1>9, RoomOrBlocks
    <2>3. head.token \in Nat
      BY <2>2, BlocksAre
    <2>4. /\ client'.pc = "flush_token" /\ client'.cmd = client.cmd /\ client'.then = "return"
          /\ client'.start = head.token
      BY <1>1, <2>1 DEF ClientOK
    <2>5. \A i \in DOMAIN transfer'.blocks : transfer'.blocks[i].state # "IN_USE"
      BY <1>5, <2>1 DEF BlocksOf
    <2>6. head.token =< helper.token
      <3> HIDE DEF head
      <3> QED BY <1>1, <1>9, <2>3
    <2>7. OldestAwaited'
      BY <1>1, <2>1, <2>4, <2>6 DEF OldestAwaited
    <2> QED BY <1>1, <1>6, <2>1, <2>4, <2>5, <2>7, RingMemory
  <1> QED BY <1>7, <1>8, <1>9

\* The wait for the oldest block is over.
LEMMA TokenReturnsMemory ==
  ASSUME KInv, WaitReturns, TokenReturns
  PROVE  MemoryIsKept'
  <1>1. /\ client.pc = "return" /\ client.then = "token" /\ client.cmd.op = "alloc"
        /\ transfer.blocks # <<>> /\ BlocksTile(transfer) /\ MemoryIsKept
        /\ service.token \in Nat /\ state_after_last_flush.token \in Nat
        /\ transfer' = FreeOldest(transfer) /\ client' = At("alloc", client.cmd)
        /\ UNCHANGED <<entries, helper, service, state_after_last_flush>>
    BY KInvIs DEF WaitReturns, TokenReturns, ClientOK, gpu_vars
  <1>2. client'.pc = "alloc" /\ client'.cmd = client.cmd /\ client'.then = "return"
    BY <1>1, ClientIs
  <1>3. \A block \in BlocksOf(transfer) : block.state # "IN_USE"
    BY <1>1, AllocatingIs
  <1>4. Head(transfer.blocks).token \in Nat
    BY <1>1, TileIs, HeadTailProperties, BlocksAre
  <1>5. state_after_last_flush.token >= Head(transfer.blocks).token
    <2>1. Head(transfer.blocks).token =< state_after_last_flush.token
      BY <1>1 DEF MemoryIsKept, OldestAwaited
    <2> QED BY <1>1, <1>4, <2>1
  <1>6. \A block \in BlocksOf(transfer) :
          IsKept(Unexecuted, block) => block \in BlocksOf(transfer')
    BY <1>1, <1>3, <1>5, OldestIsFree
  <1>7. \A i \in DOMAIN transfer'.blocks : transfer'.blocks[i].state # "IN_USE"
    BY <1>1, <1>3, FreeOldestKeeps DEF BlocksOf
  <1>8. OldestAwaited'
    BY <1>2, NothingAwaited
  <1> QED BY <1>1, <1>2, <1>6, <1>7, <1>8, RingMemory

\* The block that DiscardBlock gives back is one that no command reads.
LEMMA DiscardBlockMemory ==
  ASSUME KInv, DiscardBlock
  PROVE  MemoryIsKept'
  <1> DEFINE q == transfer.blocks
             n == Len(q)
             older == 1 .. n - 1
  <1>1. /\ client.pc = "ready" /\ client.then = "return" /\ IInv /\ MemoryIsKept
        /\ BlocksTile(transfer) /\ q # <<>> /\ transfer' = Discard(transfer)
        /\ \A x \in Offsets : ~(entries[x].op = "read" /\ entries[x].arg = q[n].offset)
        /\ UNCHANGED <<entries, helper, client, service, state_after_last_flush>>
    BY KInvIs DEF DiscardBlock, CanCall, InUse, ClientOK, gpu_vars
  <1>2. client.cmd.op = "none" /\ client.cmd = Idle
    BY <1>1, ReadyTokens
  <1>3. n \in Nat /\ DOMAIN q = 1 .. n
    BY <1>1, TileIs
  <1>4. /\ \A i \in older : q[i].state # "PADDING" => q[i] \in BlocksOf(transfer')
        /\ \A block \in BlocksOf(transfer') : \E i \in older : block = q[i]
    BY <1>1, DiscardTile
  <1>5. \A i \in older : i \in DOMAIN q /\ i # n
    BY <1>3
  <1>6. \A block \in BlocksOf(transfer) :
          IsKept(Unexecuted, block) /\
          (\E i \in DOMAIN Unexecuted : Unexecuted[i].op = "read" /\ Unexecuted[i].arg = block.offset) =>
            block \in BlocksOf(transfer')
    <2> SUFFICES ASSUME NEW block \in BlocksOf(transfer), IsKept(Unexecuted, block),
                        NEW i \in DOMAIN Unexecuted,
                        Unexecuted[i].op = "read", Unexecuted[i].arg = block.offset
                 PROVE  block \in BlocksOf(transfer')
      OBVIOUS
    <2>1. PICK k \in DOMAIN q : block = q[k]
      BY DEF BlocksOf
    <2>2. PICK x \in Offsets : Unexecuted[i] = entries[x]
      BY <1>1, UnexecutedType
    <2>3. k # n
      BY <1>1, <2>1, <2>2
    <2>4. k \in older
      BY <1>3, <2>3
    <2>5. block.state # "PADDING"
      BY DEF IsKept
    <2> QED BY <1>4, <2>1, <2>4, <2>5
  <1>7. \A i \in DOMAIN transfer'.blocks : transfer'.blocks[i].state # "IN_USE"
    <2>1. \A k \in DOMAIN q : q[k].state = "IN_USE" => k = n
      BY <1>1 DEF MemoryIsKept, NewestInUse
    <2>2. \A block \in BlocksOf(transfer') : block.state # "IN_USE"
      BY <1>4, <1>5, <2>1
    <2> QED BY <2>2 DEF BlocksOf
  <1>8. OldestAwaited'
    BY <1>1, NothingAwaited
  <1> QED BY <1>1, <1>2, <1>6, <1>7, <1>8, RingMemory

\* A call that waits or writes drops nothing.
LEMMA RoomDrops ==
  ASSUME NEW s, NEW cmd,
         \/ GetSpace(s, cmd) \/ FindRoom(s, cmd) \/ GivenUp(s, cmd)
         \/ \E curr_get : Allocated(s, curr_get, cmd)
  PROVE  UNCHANGED dropped
  <1>1. \A t : Written(t, cmd) => UNCHANGED dropped
    BY DEF Written
  <1>2. \A t : FindRoom(t, cmd) => UNCHANGED dropped
    BY <1>1 DEF FindRoom
  <1>3. \A t : WaitForAvailableEntries(t, cmd) => UNCHANGED dropped
    BY <1>2 DEF WaitForAvailableEntries
  <1>4. \A t : GetSpace(t, cmd) => UNCHANGED dropped
    BY <1>1, <1>3 DEF GetSpace
  <1>5. \A t, curr_get : Allocated(t, curr_get, cmd) => UNCHANGED dropped
    BY <1>1, <1>3 DEF Allocated
  <1> QED BY <1>2, <1>4, <1>5 DEF GivenUp

\* A loss is for good.
LEMMA LossStays ==
  ASSUME IInv, [Next]_vars, NothingLost'
  PROVE  NothingLost
  <1>1. service \in States /\ dropped \in BOOLEAN /\ (gpu_pc = "decode" => ~IsError(service))
    BY DEF IInv, TypeOK, ErrorsArePassedOn
  <1>2. UNCHANGED dropped \/ dropped' = TRUE
    <2>1. CASE GpuStep
      BY <2>1 DEF GpuStep, StartFlush, Execute, PublishState, SignalFlush,
                  DestroyTransferBuffer, SetGetBuffer, client_vars
    <2>2. CASE WaitReturns
      <3>1. CASE WrapReturns
        BY <3>1, RoomDrops DEF WrapReturns
      <3>2. CASE RoomReturns
        <4>1. \/ dropped' = TRUE \/ GivenUp(Now, client.cmd)
              \/ \E s : Written(s, client.cmd)
          BY <3>2 DEF RoomReturns
        <4> QED BY <4>1 DEF GivenUp, Written
      <3>3. CASE FinishReturns \/ TokenReturns
        BY <3>3 DEF FinishReturns, TokenReturns
      <3> QED BY <2>2, <3>1, <3>2, <3>3 DEF WaitReturns
    <2>3. CASE SetGetBufferReturns
      BY <2>3, RoomDrops DEF SetGetBufferReturns
    <2>4. CASE FinishHelper \/ AllocRound \/ FlushToken \/ Poll \/ Woken
      BY <2>4 DEF FinishHelper, AllocRound, FlushToken, Poll, Woken
    <2>5. CASE Issue
      BY <2>5, RoomDrops DEF Issue
    <2>6. CASE Release
      BY <2>6, RoomDrops DEF Release
    <2>7. CASE Flush \/ OrderingBarrier \/ Finish \/ Alloc \/ DiscardBlock \/ FreeRingBuffer
      BY <2>7 DEF Flush, OrderingBarrier, Finish, Alloc, DiscardBlock, FreeRingBuffer
    <2>8. CASE UNCHANGED vars
      BY <2>8 DEF vars, client_vars
    <2> QED BY <2>1, <2>2, <2>3, <2>4, <2>5, <2>6, <2>7, <2>8 DEF Next, ClientStep, Call
  <1>3. IsError(service) => IsError(service)'
    <2>1. CASE UNCHANGED service
      BY <2>1 DEF IsError
    <2>2. CASE StartFlush \/ Execute
      BY <1>1, <2>1, <2>2 DEF StartFlush, Execute
    <2>3. CASE DestroyTransferBuffer \/ SetGetBuffer
      <3>1. service' = [service EXCEPT !.get_offset = 0]
        BY <2>3 DEF DestroyTransferBuffer, SetGetBuffer
      <3>2. service'.error = service.error
        BY <1>1, <3>1 DEF States
      <3> QED BY <3>2 DEF IsError
    <2>4. CASE PublishState \/ SignalFlush
      BY <2>1, <2>4 DEF PublishState, SignalFlush
    <2>5. CASE ClientStep
      BY <2>1, <2>5 DEF ClientStep, FinishHelper, AllocRound, FlushToken, Poll, Woken,
                        WaitReturns, SetGetBufferReturns, gpu_vars
    <2>6. CASE Call
      BY <2>1, <2>6 DEF Call, Issue, Release, Flush, OrderingBarrier, Finish, Alloc,
                        DiscardBlock, FreeRingBuffer, gpu_vars
    <2>7. CASE UNCHANGED vars
      BY <2>1, <2>7 DEF vars, gpu_vars
    <2> QED BY <2>2, <2>3, <2>4, <2>5, <2>6, <2>7 DEF Next, GpuStep
  <1> QED BY <1>1, <1>2, <1>3 DEF NothingLost

\* Nothing happens.
LEMMA StutterMemory ==
  ASSUME KInv, UNCHANGED vars
  PROVE  MemoryIsKept'
  <1>1. MemoryIsKept
    BY KInvIs
  <1>2. UNCHANGED <<entries, helper, transfer, client, service, state_after_last_flush>>
    BY DEF vars, client_vars, gpu_vars
  <1>3. UNCHANGED Unexecuted
    BY <1>2 DEF Unexecuted
  <1>4. OldestAwaited' /\ (client'.pc = "ready" => client'.cmd = Idle)
        /\ (Wrapping' <=> Wrapping)
    BY <1>1, <1>2 DEF MemoryIsKept, OldestAwaited, TokensInOrder, Wrapping
  <1> QED BY <1>1, <1>2, <1>3, <1>4, MemoryStays

\* At the start nothing reads and nothing is allocated.
LEMMA InitMemory == Init => MemoryIsKept
  <1> SUFFICES ASSUME Init
               PROVE  MemoryIsKept
    OBVIOUS
  <1>1. /\ client.pc = "ready" /\ client.then = "return" /\ client.cmd = Idle
        /\ client.cmd.op = "none"
    BY ClientIs DEF Init
  <1>2. Unexecuted = <<>>
    BY InitRefines DEF Stream!Init
  <1>3. transfer.blocks = <<>>
    BY DEF Init, Empty
  <1>4. /\ state_after_last_flush.token = 0 /\ service.token = 0
        /\ state_after_last_flush = service
    BY DEF Init, State0
  <1>5. helper.token = 0
    <2> DEFINE h == [put |-> 0, last_put_sent |-> 0, immediate |-> 0, token |-> 0,
                     have_ring_buffer |-> TRUE]
               c == CalcImmediateEntries(h, 0, 0)
    <2>1. helper = c
      BY DEF Init
    <2>2. c.token = h.token
      BY DEF CalcImmediateEntries
    <2> QED BY <2>1, <2>2
  <1>6. ReadsComeFirst(Unexecuted, transfer)
    BY <1>2 DEF ReadsComeFirst
  <1>7. NewestInUse
    BY <1>1, <1>3 DEF NewestInUse
  <1>8. TokensInOrder
    <2>1. ~Wrapping /\ NextToken(client.cmd.op, helper.token) = 1
      BY <1>1, <1>5 DEF Wrapping, NextToken
    <2>2. TokensGrow(Unexecuted, service.token, 1)
      BY <1>2, <1>4 DEF TokensGrow
    <2> QED BY <1>1, <1>4, <2>1, <2>2 DEF TokensInOrder
  <1>9. TokenIsPublished
    BY <1>4 DEF TokenIsPublished
  <1>10. OldestAwaited
    BY <1>1 DEF OldestAwaited
  <1> QED BY <1>6, <1>7, <1>8, <1>9, <1>10 DEF MemoryIsKept

\* Every step keeps the memory that is read.
LEMMA StepMemory ==
  ASSUME KInv, NothingLost', [Next]_vars
  PROVE  MemoryIsKept'
  <1>1. CASE GpuStep
    BY <1>1, GpuMemory, ExecuteMemory, PublishMemory, SetGetBufferMemory DEF GpuStep
  <1>2. CASE WaitReturns
    BY <1>2, ReturnMemory, FinishReturnsMemory, TokenReturnsMemory DEF WaitReturns
  <1>3. CASE ClientStep
    BY <1>2, <1>3, FinishHelperMemory, AllocRoundMemory, FlushTokenMemory, PollMemory,
       WokenMemory, ReturnMemory DEF ClientStep
  <1>4. CASE Call
    BY <1>4, IssueMemory, ReleaseMemory, FlushMemory, StartsMemory, DiscardBlockMemory,
       FreeRingBufferMemory DEF Call
  <1>5. CASE UNCHANGED vars
    BY <1>5, StutterMemory
  <1> QED BY <1>1, <1>3, <1>4, <1>5 DEF Next

\* The invariant behind MemoryReadIsHeld: while nothing is lost every block that an
\* unexecuted command reads is in use, or waits for a token that is set after the
\* command; and tokens are set, read and published in the order of their numbers, as
\* what was issued is executed before a token that wraps is used.
THEOREM MInvHolds == Spec => []MInv
  <1>1. Init => MInv
    BY InitRefines, InitMemory DEF RInv, MInv
  <1>2. MInv /\ [Next]_vars => MInv'
    <2> SUFFICES ASSUME MInv, [Next]_vars
                 PROVE  MInv'
      OBVIOUS
    <2>1. RInv /\ IInv
      BY DEF MInv, RInv
    <2>2. RInv'
      BY <2>1, StepRefines
    <2>3. ASSUME NothingLost'
          PROVE  MemoryIsKept'
      <3>1. NothingLost
        BY <2>1, <2>3, LossStays
      <3>2. KInv
        BY <2>1, <3>1 DEF KInv, MInv, NothingLost
      <3> QED BY <2>3, <3>2, StepMemory
    <2> QED BY <2>2, <2>3 DEF MInv, RInv, NothingLost
  <1> QED BY <1>1, <1>2, PTL DEF Spec

\* Memory of the transfer ring stays allocated until every command that reads it is
\* executed, for all sizes of both rings and however late tokens are read.
THEOREM ReadMemoryIsHeld == Spec => []MemoryReadIsHeld
  <1>1. MInv => MemoryReadIsHeld
    <2> SUFFICES ASSUME MInv, NothingLost, NEW i \in DOMAIN Unexecuted,
                        Unexecuted[i].op = "read"
                 PROVE  \E b \in DOMAIN transfer.blocks :
                          /\ transfer.blocks[b].offset = Unexecuted[i].arg
                          /\ transfer.blocks[b].state # "PADDING"
      BY DEF MemoryReadIsHeld, NothingLost
    <2>1. ReadsComeFirst(Unexecuted, transfer)
      BY DEF MInv, NothingLost, MemoryIsKept
    <2>2. PICK block \in BlocksOf(transfer) :
            block.offset = Unexecuted[i].arg /\ block.state # "PADDING"
      BY <2>1 DEF ReadsComeFirst
    <2> QED BY <2>2 DEF BlocksOf
  <1> QED BY <1>1, MInvHolds, PTL
=============================================================================
