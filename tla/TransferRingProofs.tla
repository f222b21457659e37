-------------------------- MODULE TransferRingProofs --------------------------
(***************************************************************************)
(* The operations of TransferRing keep its blocks one after another: what  *)
(* is handed out never overlaps what is still in use (BlocksTile).         *)
(***************************************************************************)
EXTENDS TransferRing, SequenceTheorems, WellFoundedInduction, TLAPS

-----------------------------------------------------------------------------
(* Arithmetic round the ring.                                              *)

Places == 0 .. Size - 1

LEMMA FromType ==
  \A i, x \in Places : From(i, x) \in Places /\ (From(i, x) = 0 <=> i = x)
  BY SizeAssumption DEF From, Places

LEMMA PlacesAreNat == \A x \in Places : x \in Nat /\ x < Size
  BY SizeAssumption DEF Places

\* Seen from a place further on, all that is ahead of it is nearer.
LEMMA FromLater ==
  \A i, k, x \in Places : From(i, k) =< From(i, x) => From(k, x) = From(i, x) - From(i, k)
  BY SizeAssumption DEF From, Places

LEMMA FromInjective == \A i, x, y \in Places : From(i, x) = From(i, y) => x = y
  BY SizeAssumption DEF From, Places

\* The end of a block is its size further on, or the place from which one looks.
LEMMA EndIs ==
  ASSUME NEW i \in Places, NEW block \in Blocks,
         block.offset + block.size =< Size, From(i, block.offset) + block.size =< Size
  PROVE  /\ EndOf(block) \in Places
         /\ EndOf(block) = (block.offset + block.size) % Size
         /\ IF From(i, block.offset) + block.size = Size THEN EndOf(block) = i
            ELSE From(i, EndOf(block)) = From(i, block.offset) + block.size
  <1>1. /\ block.offset \in 0 .. Size - 1 /\ block.size \in 1 .. Size
        /\ Size \in Nat \ {0}
    BY SizeAssumption DEF Blocks
  <1> DEFINE o == block.offset
             n == block.size
  <1> HIDE DEF o, n
  <1>2. o \in 0 .. Size - 1 /\ n \in 1 .. Size /\ o + n =< Size /\ From(i, o) + n =< Size
    BY <1>1 DEF o, n
  <1>3. EndOf(block) = IF o + n = Size THEN 0 ELSE o + n
    BY DEF EndOf, o, n
  <1>4. EndOf(block) \in Places
    BY <1>1, <1>2, <1>3 DEF Places
  <1>5. (o + n) % Size = IF o + n = Size THEN 0 ELSE o + n
    BY <1>1, <1>2
  <1>6. IF From(i, o) + n = Size THEN EndOf(block) = i
        ELSE From(i, EndOf(block)) = From(i, o) + n
    BY <1>1, <1>2, <1>3 DEF Places, From
  <1> QED BY <1>3, <1>4, <1>5, <1>6 DEF o, n

LEMMA BlocksAre ==
  \A block \in Blocks :
    /\ block.offset \in Places /\ block.size \in 1 .. Size /\ block.size \in Nat \ {0}
    /\ block.token \in Nat /\ block.state \in State
  BY SizeAssumption DEF Blocks, Places

\* What BlocksTile says, and what follows for the end of the blocks.
LEMMA TileIs ==
  ASSUME NEW b, BlocksTile(b)
  PROVE  LET n == Len(b.blocks)
             from(x) == From(b.in_use_offset, x)
         IN /\ b.blocks \in Seq(Blocks) /\ n \in Nat /\ DOMAIN b.blocks = 1 .. n
            /\ b.blocks = <<>> <=> n = 0
            /\ b = [blocks |-> b.blocks, free_offset |-> b.free_offset,
                    in_use_offset |-> b.in_use_offset]
            /\ b.free_offset \in Places /\ b.in_use_offset \in Places
            /\ \A i \in 1 .. n :
                 /\ b.blocks[i] \in Blocks
                 /\ b.blocks[i].offset + b.blocks[i].size =< Size
                 /\ from(b.blocks[i].offset) + b.blocks[i].size =< Size
                 /\ i + 1 =< n => b.blocks[i + 1].offset = EndOf(b.blocks[i])
                 /\ \A j \in 1 .. n :
                      i < j => from(b.blocks[i].offset) + b.blocks[i].size
                                 =< from(b.blocks[j].offset)
            /\ IF n = 0 THEN b.free_offset = 0 /\ b.in_use_offset = 0
               ELSE /\ b.in_use_offset = b.blocks[1].offset
                    /\ b.free_offset = EndOf(b.blocks[n])
  <1> DEFINE n == Len(b.blocks)
  <1>1. b \in [blocks : Seq(Blocks), free_offset : 0 .. Size - 1, in_use_offset : 0 .. Size - 1]
    BY DEF BlocksTile
  <1>2. b.blocks \in Seq(Blocks)
    BY <1>1
  <1>3. n \in Nat /\ DOMAIN b.blocks = 1 .. n /\ (b.blocks = <<>> <=> n = 0)
        /\ \A i \in 1 .. n : b.blocks[i] \in Blocks
    BY <1>2, EmptySeq
  <1>4. /\ b = [blocks |-> b.blocks, free_offset |-> b.free_offset,
                in_use_offset |-> b.in_use_offset]
        /\ b.free_offset \in Places /\ b.in_use_offset \in Places
    BY <1>1 DEF Places
  <1>5. IF n = 0 THEN b.free_offset = 0 /\ b.in_use_offset = 0
        ELSE b.in_use_offset = b.blocks[1].offset /\ b.free_offset = EndOf(b.blocks[n])
    BY <1>3 DEF BlocksTile
  <1>6. \A i \in 1 .. n :
          /\ b.blocks[i].offset + b.blocks[i].size =< Size
          /\ From(b.in_use_offset, b.blocks[i].offset) + b.blocks[i].size =< Size
          /\ i + 1 \in 1 .. n => b.blocks[i + 1].offset = EndOf(b.blocks[i])
          /\ \A j \in 1 .. n :
               i < j => From(b.in_use_offset, b.blocks[i].offset) + b.blocks[i].size
                          =< From(b.in_use_offset, b.blocks[j].offset)
    BY <1>3 DEF BlocksTile
  <1>7. \A i \in 1 .. n : i + 1 =< n => i + 1 \in 1 .. n
    BY <1>3
  <1> HIDE DEF n
  <1>8. \A i \in 1 .. n : i + 1 =< n => b.blocks[i + 1].offset = EndOf(b.blocks[i])
    BY <1>6, <1>7
  <1> QED BY <1>2, <1>3, <1>4, <1>5, <1>6, <1>8 DEF n

\* The same for a record that is built from its members.
LEMMA TileFrom ==
  ASSUME NEW q \in Seq(Blocks), NEW free \in Places, NEW start \in Places,
         IF Len(q) = 0 THEN free = 0 /\ start = 0
         ELSE start = q[1].offset /\ free = EndOf(q[Len(q)]),
         \A i \in 1 .. Len(q) :
           /\ q[i].offset + q[i].size =< Size
           /\ From(start, q[i].offset) + q[i].size =< Size
           /\ i + 1 =< Len(q) => q[i + 1].offset = EndOf(q[i])
           /\ \A j \in 1 .. Len(q) :
                i < j => From(start, q[i].offset) + q[i].size =< From(start, q[j].offset)
  PROVE  BlocksTile([blocks |-> q, free_offset |-> free, in_use_offset |-> start])
  <1> DEFINE b == [blocks |-> q, free_offset |-> free, in_use_offset |-> start]
  <1>1. b.blocks = q /\ b.free_offset = free /\ b.in_use_offset = start
    OBVIOUS
  <1>2. b \in [blocks : Seq(Blocks), free_offset : 0 .. Size - 1, in_use_offset : 0 .. Size - 1]
    BY DEF Places
  <1>3. DOMAIN q = 1 .. Len(q) /\ (q = <<>> <=> Len(q) = 0) /\ Len(q) \in Nat
    BY EmptySeq
  <1>4. \A i \in 1 .. Len(q) : i + 1 \in 1 .. Len(q) => i + 1 =< Len(q)
    BY <1>3
  <1> HIDE DEF b
  <1> QED BY <1>1, <1>2, <1>3, <1>4 DEF BlocksTile

-----------------------------------------------------------------------------
(* The operations.                                                         *)

LEMMA EmptyTile == BlocksTile(Empty)
  BY SizeAssumption DEF BlocksTile, Empty

LEMMA FunctionIsSeq ==
  ASSUME NEW T, NEW n \in Nat, NEW f \in [1 .. n -> T]
  PROVE  f \in Seq(T) /\ Len(f) = n
  OBVIOUS

\* A token changes neither the place nor the size of a block.
LEMMA FreePendingTile ==
  ASSUME NEW b, BlocksTile(b), NEW token \in Nat
  PROVE  BlocksTile(FreePendingToken(b, token))
  <1> DEFINE q == b.blocks
             n == Len(q)
             once == [q EXCEPT ![n].token = token]
             r == [once EXCEPT ![n].state = "FREE_PENDING_TOKEN"]
  <1>1. q \in Seq(Blocks) /\ n \in Nat /\ DOMAIN q = 1 .. n /\ (q = <<>> <=> n = 0)
    BY TileIs
  <1>2. \A i \in 1 .. n : q[i] \in Blocks
    BY <1>1
  <1>3. /\ r \in Seq(Blocks) /\ Len(r) = n
        /\ \A i \in 1 .. n : r[i].offset = q[i].offset /\ r[i].size = q[i].size
    <2>1. DOMAIN r = 1 .. n
      BY <1>1
    <2>2. ASSUME NEW i \in 1 .. n
          PROVE  r[i] \in Blocks /\ r[i].offset = q[i].offset /\ r[i].size = q[i].size
      <3>1. q[i] \in Blocks
        BY <1>2
      <3>2. CASE i = n
        <4>1. once[i] = [q[i] EXCEPT !.token = token]
          BY <1>1, <3>2
        <4>2. r[i] = [once[i] EXCEPT !.state = "FREE_PENDING_TOKEN"]
          BY <1>1, <3>2
        <4> HIDE DEF once, r
        <4>3. once[i] \in Blocks /\ once[i].offset = q[i].offset /\ once[i].size = q[i].size
          BY <3>1, <4>1 DEF Blocks
        <4> QED BY <4>2, <4>3 DEF Blocks, State
      <3>3. CASE i # n
        <4>1. r[i] = q[i]
          BY <1>1, <3>3
        <4> QED BY <3>1, <4>1
      <3> QED BY <3>2, <3>3
    <2>3. r = [i \in 1 .. n |-> r[i]]
      BY <1>1
    <2> HIDE DEF r
    <2>4. r \in Seq(Blocks) /\ Len(r) = n
      <3>1. r \in [1 .. n -> Blocks]
        BY <2>2, <2>3
      <3> HIDE DEF n
      <3> QED BY <1>1, <3>1, FunctionIsSeq
    <2> QED BY <2>2, <2>4
  <1>4. FreePendingToken(b, token)
          = [blocks |-> r, free_offset |-> b.free_offset, in_use_offset |-> b.in_use_offset]
    <2>1. b = [blocks |-> q, free_offset |-> b.free_offset, in_use_offset |-> b.in_use_offset]
      BY TileIs
    <2>2. [b EXCEPT !.blocks = r]
            = [blocks |-> r, free_offset |-> b.free_offset, in_use_offset |-> b.in_use_offset]
      <3> HIDE DEF r
      <3> QED BY <2>1
    <2>3. FreePendingToken(b, token) = [b EXCEPT !.blocks = r]
      BY <2>1 DEF FreePendingToken
    <2> QED BY <2>2, <2>3
  <1> HIDE DEF r, n
  <1>5. \A i \in 1 .. n : EndOf(r[i]) = EndOf(q[i])
    BY <1>3 DEF EndOf
  <1>6. n # 0 => 1 \in 1 .. n /\ n \in 1 .. n
    BY <1>1
  <1>7. \A i \in 1 .. n : i + 1 =< n => i + 1 \in 1 .. n
    BY <1>1
  <1>8. IF n = 0 THEN b.free_offset = 0 /\ b.in_use_offset = 0
        ELSE b.in_use_offset = r[1].offset /\ b.free_offset = EndOf(r[n])
    BY <1>3, <1>5, <1>6, TileIs DEF n
  <1>9. \A i \in 1 .. n :
          /\ r[i].offset + r[i].size =< Size
          /\ From(b.in_use_offset, r[i].offset) + r[i].size =< Size
          /\ i + 1 =< n => r[i + 1].offset = EndOf(r[i])
          /\ \A j \in 1 .. n :
               i < j => From(b.in_use_offset, r[i].offset) + r[i].size
                          =< From(b.in_use_offset, r[j].offset)
    BY <1>3, <1>5, <1>7, TileIs DEF n
  <1> QED BY <1>3, <1>4, <1>8, <1>9, TileFrom, TileIs

\* The blocks from one of them to a later one tile the ring from the place of the
\* first.
LEMMA PartTile ==
  ASSUME NEW b, BlocksTile(b), NEW q \in Seq(Blocks), Len(q) # 0,
         NEW k \in 0 .. Len(b.blocks) - 1, Len(q) + k =< Len(b.blocks),
         \A i \in 1 .. Len(q) : q[i].offset = b.blocks[i + k].offset
                              /\ q[i].size = b.blocks[i + k].size
  PROVE  BlocksTile([blocks |-> q, free_offset |-> EndOf(b.blocks[Len(q) + k]),
                     in_use_offset |-> b.blocks[k + 1].offset])
  <1> DEFINE m == Len(q)
             n == Len(b.blocks)
             start == b.blocks[k + 1].offset
             I == b.in_use_offset
  <1>1. m \in Nat /\ n \in Nat /\ m # 0 /\ m + k =< n /\ k \in Nat /\ DOMAIN q = 1 .. m
    BY TileIs
  <1>2. \A i \in 1 .. m : q[i] \in Blocks
    BY <1>1
  <1> HIDE DEF m, n
  <1>3. /\ I \in Places
        /\ \A i \in 1 .. n :
             /\ b.blocks[i] \in Blocks
             /\ b.blocks[i].offset + b.blocks[i].size =< Size
             /\ From(I, b.blocks[i].offset) + b.blocks[i].size =< Size
             /\ i + 1 =< n => b.blocks[i + 1].offset = EndOf(b.blocks[i])
             /\ \A j \in 1 .. n :
                  i < j => From(I, b.blocks[i].offset) + b.blocks[i].size
                             =< From(I, b.blocks[j].offset)
    BY TileIs DEF n
  <1>4. /\ k + 1 \in 1 .. n /\ m + k \in 1 .. n /\ 1 \in 1 .. m /\ m \in 1 .. m
        /\ \A i \in 1 .. m : i + k \in 1 .. n /\ (i # 1 => k + 1 < i + k)
    BY <1>1
  <1>5. start \in Places /\ q[1].offset = start
    <2>1. q[1].offset = b.blocks[1 + k].offset /\ 1 + k = k + 1
      BY <1>1, <1>4 DEF m
    <2> QED BY <1>3, <1>4, <2>1, BlocksAre
  <1>6. EndOf(q[m]) = EndOf(b.blocks[m + k]) /\ EndOf(b.blocks[m + k]) \in Places
    <2>1. q[m].offset = b.blocks[m + k].offset /\ q[m].size = b.blocks[m + k].size
      BY <1>4 DEF m
    <2> QED BY <1>3, <1>4, <2>1, EndIs DEF EndOf
  <1>7. ASSUME NEW i \in 1 .. m
        PROVE  /\ q[i].offset + q[i].size =< Size
               /\ From(start, q[i].offset) = From(I, q[i].offset) - From(I, start)
               /\ From(I, q[i].offset) \in Nat /\ From(I, start) \in Nat
               /\ From(start, q[i].offset) + q[i].size =< Size
               /\ q[i].size \in Nat
    <2> DEFINE c == b.blocks[i + k]
               h == b.blocks[k + 1]
    <2>1. q[i].offset = c.offset /\ q[i].size = c.size
      BY DEF m
    <2>2. c \in Blocks /\ h \in Blocks /\ c.offset + c.size =< Size
          /\ From(I, c.offset) + c.size =< Size
      BY <1>3, <1>4
    <2>3. c.offset \in Places /\ c.size \in Nat /\ h.size \in Nat /\ h.offset = start
      BY <2>2, BlocksAre
    <2>4. From(I, c.offset) \in Nat /\ From(I, start) \in Nat
      BY <1>3, <1>5, <2>3, FromType, PlacesAreNat
    <2>5. From(I, start) =< From(I, c.offset)
      <3>1. CASE i = 1
        <4>1. c.offset = start
          BY <1>5, <2>1, <3>1
        <4> QED BY <2>4, <4>1
      <3>2. CASE i # 1
        <4>1. From(I, h.offset) + h.size =< From(I, c.offset)
          BY <1>3, <1>4, <3>2
        <4> HIDE DEF h, c, start, I
        <4> QED BY <2>3, <2>4, <4>1
      <3> QED BY <3>1, <3>2
    <2>6. From(start, c.offset) = From(I, c.offset) - From(I, start)
      BY <1>3, <1>5, <2>3, <2>5, FromLater
    <2> HIDE DEF c, h, start, I
    <2>7. From(start, c.offset) + c.size =< Size
      BY <2>2, <2>3, <2>4, <2>6, SizeAssumption
    <2> QED BY <2>1, <2>2, <2>3, <2>4, <2>6, <2>7
  <1>8. ASSUME NEW i \in 1 .. m, i + 1 =< m
        PROVE  q[i + 1].offset = EndOf(q[i])
    <2>1. i + 1 \in 1 .. m /\ i + k \in 1 .. n /\ (i + 1) + k = (i + k) + 1
          /\ (i + k) + 1 =< n
      BY <1>1, <1>8
    <2>2. q[i + 1].offset = b.blocks[(i + k) + 1].offset
      <3>1. q[i + 1].offset = b.blocks[(i + 1) + k].offset
        BY <2>1 DEF m
      <3> QED BY <2>1, <3>1
    <2>3. b.blocks[(i + k) + 1].offset = EndOf(b.blocks[i + k])
      BY <1>3, <2>1
    <2>4. q[i].offset = b.blocks[i + k].offset /\ q[i].size = b.blocks[i + k].size
      BY DEF m
    <2> QED BY <2>2, <2>3, <2>4 DEF EndOf
  <1>9. ASSUME NEW i \in 1 .. m, NEW j \in 1 .. m, i < j
        PROVE  From(start, q[i].offset) + q[i].size =< From(start, q[j].offset)
    <2>1. i + k \in 1 .. n /\ j + k \in 1 .. n /\ i + k < j + k
      BY <1>1, <1>9
    <2>2. From(I, b.blocks[i + k].offset) + b.blocks[i + k].size
            =< From(I, b.blocks[j + k].offset)
      BY <1>3, <2>1
    <2>3. From(I, q[i].offset) + q[i].size =< From(I, q[j].offset)
      <3>1. q[i].offset = b.blocks[i + k].offset /\ q[i].size = b.blocks[i + k].size
            /\ q[j].offset = b.blocks[j + k].offset
        BY DEF m
      <3> QED BY <2>2, <3>1
    <2> HIDE DEF start, I
    <2>4. /\ From(start, q[i].offset) = From(I, q[i].offset) - From(I, start)
          /\ From(start, q[j].offset) = From(I, q[j].offset) - From(I, start)
          /\ From(I, q[i].offset) \in Nat /\ From(I, start) \in Nat
          /\ From(I, q[j].offset) \in Nat /\ q[i].size \in Nat
      BY <1>7
    <2> QED BY <2>3, <2>4
  <1> HIDE DEF start, I
  <1>10. BlocksTile([blocks |-> q, free_offset |-> EndOf(q[m]), in_use_offset |-> start])
    <2>1. EndOf(q[m]) \in Places
      BY <1>6
    <2> QED BY <1>1, <1>5, <1>7, <1>8, <1>9, <2>1, TileFrom DEF m
  <1> QED BY <1>6, <1>10 DEF m, start

\* FreeOldestBlock: the next block starts where the freed one ends; that is the
\* end of all blocks only if there is none.
LEMMA FreeOldestTile ==
  ASSUME NEW b, BlocksTile(b), b.blocks # <<>>
  PROVE  BlocksTile(FreeOldest(b)) /\ Len(FreeOldest(b).blocks) = Len(b.blocks) - 1
  <1> DEFINE q == b.blocks
             n == Len(q)
             I == b.in_use_offset
             rest == Tail(q)
             next == (I + Head(q).size) % Size
  <1>1. q \in Seq(Blocks) /\ n \in Nat /\ n # 0 /\ Head(q) = q[1] /\ 1 \in 1 .. n /\ n \in 1 .. n
    BY TileIs
  <1>2. rest \in Seq(Blocks) /\ Len(rest) = n - 1
        /\ \A i \in 1 .. n - 1 : rest[i] = q[i + 1]
    BY <1>1, HeadTailProperties
  <1> HIDE DEF n, rest, q
  <1>3. /\ I \in Places /\ I = q[1].offset /\ b.free_offset = EndOf(q[n])
        /\ \A i \in 1 .. n :
             /\ q[i] \in Blocks
             /\ q[i].offset + q[i].size =< Size
             /\ From(I, q[i].offset) + q[i].size =< Size
             /\ i + 1 =< n => q[i + 1].offset = EndOf(q[i])
             /\ \A j \in 1 .. n :
                  i < j => From(I, q[i].offset) + q[i].size =< From(I, q[j].offset)
    BY <1>1, TileIs DEF n, q
  <1>4. next = EndOf(q[1]) /\ next \in Places
    BY <1>1, <1>3, EndIs
  <1> HIDE DEF next, I
  <1>5. CASE n = 1
    <2>1. next = b.free_offset
      BY <1>3, <1>4, <1>5
    <2>2. FreeOldest(b) = [blocks |-> rest, free_offset |-> 0, in_use_offset |-> 0]
      BY <2>1 DEF FreeOldest, next, I, q, rest
    <2>3. Len(rest) = 0 /\ rest = <<>>
      BY <1>2, <1>5, EmptySeq
    <2> QED BY <1>5, <2>2, <2>3, EmptyTile DEF Empty, n, q
  <1>6. CASE n # 1
    <2>1. 2 \in 1 .. n /\ 1 + 1 =< n /\ 1 + 1 = 2 /\ 1 < 2 /\ (n # 2 => 2 < n)
      BY <1>1, <1>6
    <2>2. q[2].offset = next
      BY <1>1, <1>3, <1>4, <2>1
    <2>3. next # b.free_offset
      <3> DEFINE f1 == From(I, q[1].offset)
                 f2 == From(I, q[2].offset)
                 fn == From(I, q[n].offset)
                 s1 == q[1].size
                 s2 == q[2].size
                 sn == q[n].size
      <3>1. /\ f1 \in Nat /\ f2 \in Nat /\ fn \in Nat
            /\ s1 \in Nat \ {0} /\ s2 \in Nat \ {0} /\ sn \in Nat \ {0}
        <4>1. /\ q[1].offset \in Places /\ q[2].offset \in Places /\ q[n].offset \in Places
              /\ s1 \in Nat \ {0} /\ s2 \in Nat \ {0} /\ sn \in Nat \ {0}
          BY <1>1, <1>3, <2>1, BlocksAre
        <4> QED BY <1>3, <4>1, FromType, PlacesAreNat
      <3>2. f1 + s1 =< f2 /\ (n # 2 => f2 + s2 =< fn) /\ fn + sn =< Size
        BY <1>1, <1>3, <2>1
      <3>3. IF fn + sn = Size THEN b.free_offset = I
            ELSE From(I, b.free_offset) = fn + sn
        BY <1>1, <1>3, EndIs
      <3>4. n = 2 => fn = f2 /\ sn = s2
        OBVIOUS
      <3>5. From(I, I) = 0
        BY <1>3, FromType
      <3>6. From(I, next) = f2
        BY <2>2
      <3> HIDE DEF f1, f2, fn, s1, s2, sn
      <3>7. From(I, next) # From(I, b.free_offset)
        <4>1. fn >= f2 /\ f2 > 0
          BY <3>1, <3>2, <3>4
        <4> QED BY <3>1, <3>3, <3>5, <3>6, <4>1
      <3> QED BY <3>7
    <2>4. FreeOldest(b) = [blocks |-> rest, free_offset |-> b.free_offset, in_use_offset |-> next]
      BY <2>3 DEF FreeOldest, next, I, q, rest
    <2>5. /\ Len(rest) # 0 /\ 1 \in 0 .. n - 1 /\ Len(rest) + 1 = n
          /\ \A i \in 1 .. Len(rest) : rest[i] = q[i + 1]
      BY <1>1, <1>2, <1>6
    <2>6. BlocksTile([blocks |-> rest, free_offset |-> EndOf(q[n]), in_use_offset |-> q[2].offset])
      <3>1. BlocksTile([blocks |-> rest, free_offset |-> EndOf(b.blocks[Len(rest) + 1]),
                        in_use_offset |-> b.blocks[1 + 1].offset])
        <4>1. 1 \in 0 .. Len(b.blocks) - 1 /\ Len(rest) + 1 =< Len(b.blocks)
          BY <1>1, <2>5 DEF n, q
        <4>2. \A i \in 1 .. Len(rest) : /\ rest[i].offset = b.blocks[i + 1].offset
                                       /\ rest[i].size = b.blocks[i + 1].size
          BY <2>5 DEF q
        <4> QED BY <1>2, <2>5, <4>1, <4>2, PartTile
      <3> QED BY <2>1, <2>5, <3>1 DEF q
    <2> QED BY <1>2, <1>3, <2>2, <2>4, <2>6 DEF n, q
  <1> QED BY <1>5, <1>6

\* A new block at the free place, in front of all that is in use.
LEMMA PushTile ==
  ASSUME NEW b, BlocksTile(b), NEW block \in Blocks, block.offset = b.free_offset,
         b.blocks # <<>> => b.free_offset # b.in_use_offset,
         block.offset + block.size =< Size,
         From(b.in_use_offset, block.offset) + block.size =< Size
  PROVE  BlocksTile([blocks |-> Append(b.blocks, block), free_offset |-> EndOf(block),
                     in_use_offset |-> b.in_use_offset])
  <1> DEFINE q == b.blocks
             n == Len(q)
             I == b.in_use_offset
             new == Append(q, block)
             from(x) == From(I, x)
  <1>1. q \in Seq(Blocks) /\ n \in Nat /\ (q = <<>> <=> n = 0)
    BY TileIs
  <1>2. /\ new \in Seq(Blocks) /\ Len(new) = n + 1 /\ new[n + 1] = block
        /\ \A i \in 1 .. n : new[i] = q[i]
    BY <1>1, AppendProperties
  <1>3. /\ I \in Places /\ b.free_offset \in Places
        /\ \A i \in 1 .. n :
             /\ q[i] \in Blocks
             /\ q[i].offset + q[i].size =< Size
             /\ from(q[i].offset) + q[i].size =< Size
             /\ i + 1 =< n => q[i + 1].offset = EndOf(q[i])
             /\ \A j \in 1 .. n : i < j => from(q[i].offset) + q[i].size =< from(q[j].offset)
        /\ IF n = 0 THEN b.free_offset = 0 /\ I = 0
           ELSE I = q[1].offset /\ b.free_offset = EndOf(q[n])
    BY TileIs
  <1>4. block.offset \in Places /\ block.size \in Nat \ {0}
    BY BlocksAre
  <1> HIDE DEF n, I, new, q, from
  <1>5. EndOf(block) \in Places
    BY <1>3, EndIs DEF I
  <1>6. n # 0 => 1 \in 1 .. n /\ n \in 1 .. n
    BY <1>1
  <1>7. I = new[1].offset
    <2>1. CASE n = 0
      BY <1>2, <1>3, <2>1
    <2>2. CASE n # 0
      BY <1>2, <1>3, <1>6, <2>2
    <2> QED BY <2>1, <2>2
  <1>8. ASSUME NEW i \in 1 .. n
        PROVE  from(q[i].offset) + q[i].size =< from(block.offset)
    <2>1. n # 0 /\ n \in 1 .. n /\ (i # n => i < n)
      BY <1>1, <1>6
    <2>2. /\ q[i].offset \in Places /\ q[n].offset \in Places
          /\ q[i].size \in Nat \ {0} /\ q[n].size \in Nat \ {0}
      BY <1>3, <2>1, BlocksAre
    <2>3. from(q[i].offset) \in Nat /\ from(q[n].offset) \in Nat
      BY <1>3, <2>2, FromType, PlacesAreNat DEF from
    <2>4. from(block.offset) = from(q[n].offset) + q[n].size
      <3>1. IF from(q[n].offset) + q[n].size = Size THEN EndOf(q[n]) = I
            ELSE from(EndOf(q[n])) = from(q[n].offset) + q[n].size
        BY <1>3, <2>1, EndIs DEF from
      <3>2. block.offset = EndOf(q[n]) /\ EndOf(q[n]) # I
        BY <1>1, <1>3, <2>1 DEF q, I
      <3> QED BY <3>1, <3>2
    <2>5. i # n => from(q[i].offset) + q[i].size =< from(q[n].offset)
      BY <1>3, <2>1
    <2> QED BY <2>2, <2>3, <2>4, <2>5
  <1>9. \A i \in 1 .. n + 1 : i = n + 1 \/ i \in 1 .. n
    BY <1>1
  <1>10. ASSUME NEW i \in 1 .. n + 1
         PROVE  new[i].offset + new[i].size =< Size /\ from(new[i].offset) + new[i].size =< Size
    <2>1. CASE i = n + 1
      BY <1>2, <2>1 DEF from, I
    <2>2. CASE i \in 1 .. n
      BY <1>2, <1>3, <2>2
    <2> QED BY <1>9, <2>1, <2>2
  <1>11. ASSUME NEW i \in 1 .. n + 1, i + 1 =< n + 1
         PROVE  new[i + 1].offset = EndOf(new[i])
    <2>1. i \in 1 .. n /\ (i + 1 =< n => i + 1 \in 1 .. n) /\ (~(i + 1 =< n) => i = n)
      BY <1>1, <1>11
    <2>2. CASE i + 1 =< n
      BY <1>2, <1>3, <2>1, <2>2
    <2>3. CASE ~(i + 1 =< n)
      <3>1. i = n /\ n # 0 /\ new[n + 1] = block /\ new[i] = q[n]
        BY <1>1, <1>2, <2>1, <2>3
      <3> QED BY <1>3, <3>1
    <2> QED BY <2>2, <2>3
  <1>12. ASSUME NEW i \in 1 .. n + 1, NEW j \in 1 .. n + 1, i < j
         PROVE  from(new[i].offset) + new[i].size =< from(new[j].offset)
    <2>1. i \in 1 .. n /\ (j \in 1 .. n \/ j = n + 1)
      BY <1>1, <1>12
    <2>2. CASE j \in 1 .. n
      BY <1>2, <1>3, <1>12, <2>1, <2>2
    <2>3. CASE j = n + 1
      BY <1>2, <1>8, <2>1, <2>3
    <2> QED BY <2>1, <2>2, <2>3
  <1>13. n + 1 # 0
    BY <1>1
  <1>14. BlocksTile([blocks |-> new, free_offset |-> EndOf(block), in_use_offset |-> I])
    BY <1>2, <1>3, <1>5, <1>7, <1>10, <1>11, <1>12, <1>13, TileFrom DEF from
  <1> QED BY <1>14 DEF new, I, q

\* Alloc: the place of a block that is no larger than what is free, after padding
\* to the end of the ring if it does not fit there.
LEMMA AllocateTile ==
  ASSUME NEW b, BlocksTile(b), NEW n \in 1 .. Size, n =< LargestFree(b)
  PROVE  BlocksTile(Allocate(b, n))
  <1> DEFINE q == b.blocks
             free == b.free_offset
             I == b.in_use_offset
  <1>1. /\ q \in Seq(Blocks) /\ free \in Places /\ I \in Places
        /\ b = [blocks |-> q, free_offset |-> free, in_use_offset |-> I]
        /\ q = <<>> => free = 0 /\ I = 0
    BY TileIs
  <1>2. /\ Size \in Nat \ {0} /\ free \in 0 .. Size - 1 /\ I \in 0 .. Size - 1
    BY <1>1, SizeAssumption DEF Places
  <1> HIDE DEF q, free, I
  <1>3. q # <<>> => free # I
    BY DEF LargestFree, q, free, I
  <1>4. CASE ~(n + free > Size)
    <2> DEFINE block == Block(free, n, "IN_USE")
    <2>1. /\ block \in Blocks /\ block.offset = free /\ block.size = n
      BY <1>2, SizeAssumption DEF Block, Blocks, State
    <2>2. From(I, free) + n =< Size
      <3>1. n =< IF free = I THEN IF q = <<>> THEN Size ELSE 0
                 ELSE IF free > I
                   THEN IF Size - free > I THEN Size - free ELSE I
                   ELSE I - free
        BY DEF LargestFree, q, free, I
      <3> QED BY <1>1, <1>2, <1>3, <1>4, <3>1 DEF From
    <2>3. Allocate(b, n) = [blocks |-> Append(q, block), free_offset |-> (free + n) % Size,
                            in_use_offset |-> I]
      <3>1. Allocate(b, n) = [b EXCEPT !.blocks = @ \o <<>> \o <<block>>,
                                       !.free_offset = (free + n) % Size]
        BY <1>4 DEF Allocate, free
      <3>2. q \o <<>> = q /\ q \o <<block>> = Append(q, block)
        BY <1>1, <2>1, ConcatEmptySeq, AppendIsConcat
      <3> HIDE DEF block
      <3> QED BY <1>1, <3>1, <3>2
    <2> HIDE DEF block
    <2>4. free + n =< Size
      BY <1>2, <1>4
    <2>5. block.offset + block.size =< Size /\ From(I, block.offset) + block.size =< Size
      BY <2>1, <2>2, <2>4
    <2>6. EndOf(block) = (free + n) % Size
      <3>1. EndOf(block) = (block.offset + block.size) % Size
        BY <1>1, <2>1, <2>5, EndIs
      <3> QED BY <2>1, <3>1
    <2>7. BlocksTile([blocks |-> Append(b.blocks, block), free_offset |-> EndOf(block),
                      in_use_offset |-> b.in_use_offset])
      BY <1>3, <2>1, <2>5, PushTile DEF q, free, I
    <2> QED BY <2>3, <2>6, <2>7 DEF q, I
  <1>5. CASE n + free > Size
    <2> DEFINE padding == Block(free, Size - free, "PADDING")
               block == Block(0, n, "IN_USE")
               padded == [blocks |-> Append(q, padding), free_offset |-> 0, in_use_offset |-> I]
    <2>1. free > I /\ n =< I
      <3>1. n =< IF free = I THEN IF q = <<>> THEN Size ELSE 0
                 ELSE IF free > I
                   THEN IF Size - free > I THEN Size - free ELSE I
                   ELSE I - free
        BY DEF LargestFree, q, free, I
      <3> QED BY <1>1, <1>2, <1>3, <1>5, <3>1
    <2>2. /\ padding \in Blocks /\ padding.offset = free /\ padding.size = Size - free
          /\ block \in Blocks /\ block.offset = 0 /\ block.size = n
      BY <1>2 DEF Block, Blocks, State
    <2>3. Allocate(b, n) = [blocks |-> Append(Append(q, padding), block),
                            free_offset |-> n % Size, in_use_offset |-> I]
      <3>1. Allocate(b, n) = [b EXCEPT !.blocks = @ \o <<padding>> \o <<block>>,
                                       !.free_offset = (0 + n) % Size]
        BY <1>5 DEF Allocate, free
      <3>2. q \o <<padding>> = Append(q, padding) /\ Append(q, padding) \in Seq(Blocks)
        BY <1>1, <2>2, AppendIsConcat, AppendProperties
      <3>3. Append(q, padding) \o <<block>> = Append(Append(q, padding), block)
        BY <2>2, <3>2, AppendIsConcat
      <3>4. 0 + n = n
        OBVIOUS
      <3> HIDE DEF block, padding
      <3> QED BY <1>1, <3>1, <3>2, <3>3, <3>4
    <2> HIDE DEF block, padding
    <2>4. /\ From(I, free) + (Size - free) =< Size /\ free + (Size - free) = Size
          /\ From(I, 0) + n =< Size /\ 0 + n =< Size /\ 0 # I /\ 0 \in Places
      BY <1>2, <2>1 DEF From, Places
    <2>5. EndOf(padding) = 0 /\ EndOf(block) = n % Size
      <3>1. EndOf(padding) = 0
        BY <2>2, <2>4 DEF EndOf
      <3>2. EndOf(block) = (0 + n) % Size
        BY <1>1, <2>2, <2>4, EndIs
      <3> QED BY <3>1, <3>2
    <2>6. BlocksTile(padded)
      <3>1. BlocksTile([blocks |-> Append(b.blocks, padding), free_offset |-> EndOf(padding),
                        in_use_offset |-> b.in_use_offset])
        <4>1. /\ padding.offset + padding.size =< Size
              /\ From(I, padding.offset) + padding.size =< Size
          BY <2>2, <2>4, <1>2
        <4> QED BY <1>3, <2>2, <4>1, PushTile DEF q, free, I
      <3> QED BY <2>5, <3>1 DEF q, I
    <2>7. padded.blocks = Append(q, padding) /\ padded.free_offset = 0 /\ padded.in_use_offset = I
      OBVIOUS
    <2> HIDE DEF padded
    <2>8. BlocksTile([blocks |-> Append(padded.blocks, block), free_offset |-> EndOf(block),
                      in_use_offset |-> padded.in_use_offset])
      BY <2>2, <2>4, <2>6, <2>7, PushTile
    <2> QED BY <2>3, <2>5, <2>7, <2>8
  <1> QED BY <1>4, <1>5

\* An empty ring has room for every block.
LEMMA RoomOrBlocks ==
  ASSUME NEW b, BlocksTile(b), NEW n \in 1 .. Size, ~(n =< LargestFree(b))
  PROVE  b.blocks # <<>> /\ Head(b.blocks) \in Blocks
  <1>1. b.blocks # <<>>
    <2> SUFFICES ASSUME b.blocks = <<>>
                 PROVE  FALSE
      OBVIOUS
    <2>1. b.free_offset = b.in_use_offset
      BY TileIs
    <2> QED BY <2>1, SizeAssumption DEF LargestFree
  <1> QED BY <1>1, TileIs, HeadTailProperties

-----------------------------------------------------------------------------
(* The loop of GetLargestFreeSizeNoWaiting, by least counterexamples.      *)

LEMMA LeastOf ==
  ASSUME NEW T, T \subseteq Nat, T # {}
  PROVE  \E x \in T : \A y \in T : x =< y
  <1>1. PICK x \in T : \A y \in T : <<y, x>> \notin OpToRel(<, Nat)
    BY NatLessThanWellFounded, WFMin
  <1>2. \A y \in T : ~(y < x)
    BY <1>1 DEF OpToRel
  <1> QED BY <1>2

\* A round of the loop.
FreeNext(r, last_token_read) ==
  IF \/ r.blocks = <<>>
     \/ Head(r.blocks).token > last_token_read
     \/ Head(r.blocks).state = "IN_USE"
  THEN r ELSE FreeOldest(r)

Rounds(f, b, n, token) ==
  f = [k \in 0 .. n |-> IF k = 0 THEN b ELSE FreeNext(f[k - 1], token)]

LEMMA RoundsExist ==
  ASSUME NEW b, NEW token, NEW n \in Nat
  PROVE  \E f : Rounds(f, b, n, token)
  <1> DEFINE Without == {m \in Nat : ~\E f : Rounds(f, b, m, token)}
  <1> SUFFICES ASSUME Without # {}
               PROVE  FALSE
    OBVIOUS
  <1>1. PICK m \in Without : \A y \in Without : m =< y
    BY LeastOf
  <1>2. m # 0
    <2> DEFINE f == [k \in 0 .. 0 |-> b]
    <2>1. Rounds(f, b, 0, token)
      BY DEF Rounds
    <2> QED BY <1>1, <2>1
  <1>3. m - 1 \in Nat /\ m - 1 \notin Without
    BY <1>1, <1>2
  <1>4. PICK g : Rounds(g, b, m - 1, token)
    BY <1>3
  <1> DEFINE f == [k \in 0 .. m |-> IF k = m THEN FreeNext(g[m - 1], token) ELSE g[k]]
  <1>5. Rounds(f, b, m, token)
    <2>1. \A k \in 0 .. m - 1 : g[k] = IF k = 0 THEN b ELSE FreeNext(g[k - 1], token)
      BY <1>4 DEF Rounds
    <2>2. \A k \in 0 .. m : k # m => k \in 0 .. m - 1 /\ (k # 0 => k - 1 \in 0 .. m /\ k - 1 # m)
      BY <1>1
    <2>3. m - 1 \in 0 .. m /\ m - 1 # m /\ m \in 0 .. m
      BY <1>1, <1>3
    <2>4. \A k \in 0 .. m : f[k] = IF k = 0 THEN b ELSE FreeNext(f[k - 1], token)
      <3> SUFFICES ASSUME NEW k \in 0 .. m
                   PROVE  f[k] = IF k = 0 THEN b ELSE FreeNext(f[k - 1], token)
        OBVIOUS
      <3>1. CASE k = m
        <4>1. f[m] = FreeNext(g[m - 1], token) /\ f[m - 1] = g[m - 1]
          BY <2>3
        <4> QED BY <1>2, <3>1, <4>1
      <3>2. CASE k # m
        <4>1. f[k] = g[k]
          BY <3>2
        <4>2. k # 0 => f[k - 1] = g[k - 1]
          BY <2>2, <3>2
        <4> HIDE DEF f
        <4> QED BY <2>1, <2>2, <3>2, <4>1, <4>2
      <3> QED BY <3>1, <3>2
    <2>5. f = [k \in 0 .. m |-> f[k]]
      OBVIOUS
    <2> HIDE DEF f
    <2> QED BY <2>4, <2>5 DEF Rounds
  <1> QED BY <1>1, <1>5

LEMMA FreeNextTile ==
  ASSUME NEW b, BlocksTile(b), NEW token
  PROVE  BlocksTile(FreeNext(b, token))
  BY FreeOldestTile DEF FreeNext

LEMMA RoundsTile ==
  ASSUME NEW b, BlocksTile(b), NEW token, NEW n \in Nat, NEW f, Rounds(f, b, n, token)
  PROVE  BlocksTile(f[n])
  <1> DEFINE Wrong == {k \in 0 .. n : ~BlocksTile(f[k])}
  <1> SUFFICES ASSUME ~BlocksTile(f[n])
               PROVE  FALSE
    OBVIOUS
  <1>1. PICK k \in Wrong : \A y \in Wrong : k =< y
    <2>1. Wrong \subseteq Nat /\ n \in Wrong
      OBVIOUS
    <2> HIDE DEF Wrong
    <2> QED BY <2>1, LeastOf
  <1>2. f[k] = IF k = 0 THEN b ELSE FreeNext(f[k - 1], token)
    BY <1>1 DEF Rounds
  <1>3. k # 0
    BY <1>1, <1>2
  <1>4. k - 1 \in 0 .. n /\ ~(k =< k - 1)
    BY <1>1, <1>3
  <1>5. BlocksTile(f[k - 1])
    BY <1>1, <1>4
  <1> QED BY <1>1, <1>2, <1>3, <1>5, FreeNextTile

\* GetLargestFreeSizeNoWaiting.
LEMMA FreePassedTile ==
  ASSUME NEW b, BlocksTile(b), NEW token
  PROVE  BlocksTile(FreePassed(b, token))
  <1> DEFINE n == Len(b.blocks)
             freed == CHOOSE f : Rounds(f, b, n, token)
  <1>1. n \in Nat
    BY TileIs
  <1>2. Rounds(freed, b, n, token)
    BY <1>1, RoundsExist
  <1>3. FreePassed(b, token) = freed[n]
    BY DEF FreePassed, Rounds, FreeNext
  <1> HIDE DEF n, freed
  <1> QED BY <1>1, <1>2, <1>3, RoundsTile

\* DiscardBlock: what is left is the part from the first block that is not
\* padding to the last one, so no other block is lost and none is new.
LEMMA DiscardTile ==
  ASSUME NEW b, BlocksTile(b), b.blocks # <<>>
  PROVE  LET older == 1 .. Len(b.blocks) - 1
         IN /\ BlocksTile(Discard(b))
            /\ \A i \in older :
                 b.blocks[i].state # "PADDING" => b.blocks[i] \in BlocksOf(Discard(b))
            /\ \A block \in BlocksOf(Discard(b)) : \E i \in older : block = b.blocks[i]
  <1> DEFINE q == b.blocks
             n == Len(q)
             r == [q EXCEPT ![n].state = "PADDING"]
             Used == {i \in DOMAIN r : r[i].state # "PADDING"}
             first == CHOOSE i \in Used : \A j \in Used : i =< j
             last == CHOOSE i \in Used : \A j \in Used : i >= j
             part == SubSeq(r, first, last)
  <1>1. /\ q \in Seq(Blocks) /\ n \in Nat /\ n # 0 /\ DOMAIN q = 1 .. n
        /\ \A i \in 1 .. n : q[i] \in Blocks
        /\ \A i \in 1 .. n : i + 1 =< n => q[i + 1].offset = EndOf(q[i])
    BY TileIs
  <1>2. /\ DOMAIN r = 1 .. n /\ r[n].state = "PADDING"
        /\ \A i \in 1 .. n - 1 : r[i] = q[i] /\ i \in 1 .. n
        /\ \A i \in 1 .. n :
             r[i] \in Blocks /\ r[i].offset = q[i].offset /\ r[i].size = q[i].size
    <2>1. DOMAIN r = 1 .. n
      BY <1>1
    <2>2. n \in 1 .. n
      BY <1>1
    <2>3. r[n] = [q[n] EXCEPT !.state = "PADDING"] /\ q[n] \in Blocks
      BY <1>1, <2>2
    <2>4. /\ \A i \in 1 .. n : i # n => r[i] = q[i]
          /\ \A i \in 1 .. n - 1 : i \in 1 .. n /\ i # n
      BY <1>1
    <2> HIDE DEF r
    <2>5. r[n] \in Blocks /\ r[n].offset = q[n].offset /\ r[n].size = q[n].size
          /\ r[n].state = "PADDING"
      BY <2>3 DEF Blocks, State
    <2> QED BY <1>1, <2>1, <2>4, <2>5
  <1>3. CASE Used = {}
    <2>1. Discard(b) = Empty
      BY <1>3 DEF Discard
    <2>2. \A i \in 1 .. n - 1 : q[i].state = "PADDING"
      BY <1>2, <1>3
    <2>3. BlocksOf(Empty) = {}
      BY DEF BlocksOf, Empty
    <2> QED BY <2>1, <2>2, <2>3, EmptyTile
  <1>4. CASE Used # {}
    <2>1. Discard(b) = [blocks |-> part, free_offset |-> r[last + 1].offset,
                        in_use_offset |-> r[first].offset]
      <3> HIDE DEF part
      <3>1. Discard(b) = IF Used = {} THEN Empty
                         ELSE [blocks |-> part, free_offset |-> r[last + 1].offset,
                               in_use_offset |-> r[first].offset]
        BY DEF Discard, part
      <3> QED BY <1>4, <3>1
    <2>2. /\ Used \subseteq 1 .. n - 1
          /\ \A i \in 1 .. n - 1 : q[i].state # "PADDING" => i \in Used
      BY <1>1, <1>2
    <2> HIDE DEF Used, r, q, n
    <2>3. first \in Used /\ \A j \in Used : first =< j
      <3>1. Used \subseteq Nat
        BY <1>1, <2>2
      <3>2. \E i \in Used : \A j \in Used : i =< j
        BY <1>4, <3>1, LeastOf
      <3> QED BY <3>2
    <2>4. last \in Used /\ \A j \in Used : last >= j
      <3> DEFINE After == {n - i : i \in Used}
      <3>1. After \subseteq Nat /\ After # {}
        <4>1. PICK u \in Used : TRUE
          BY <1>4
        <4>2. n - u \in After
          OBVIOUS
        <4>3. \A i \in Used : n - i \in Nat
          BY <1>1, <2>2
        <4> QED BY <4>2, <4>3
      <3>2. PICK x \in After : \A y \in After : x =< y
        <4> HIDE DEF After
        <4> QED BY <3>1, LeastOf
      <3>3. PICK i \in Used : x = n - i
        BY <3>2
      <3>4. \A j \in Used : n - i =< n - j
        BY <3>2, <3>3
      <3>5. \A j \in Used : i >= j
        BY <1>1, <2>2, <3>4
      <3> QED BY <3>5
    <2> HIDE DEF first, last
    <2>5. first \in 1 .. n - 1 /\ last \in 1 .. n - 1 /\ first =< last
      BY <2>2, <2>3, <2>4
    <2>6. /\ part \in Seq(Blocks) /\ Len(part) = last - first + 1
          /\ \A i \in 1 .. last - first + 1 : part[i] = r[first + i - 1]
      <3>1. \A i \in first .. last : r[i] \in Blocks
        BY <1>1, <1>2, <2>5
      <3>2. first \in Int /\ last \in Int
        BY <1>1, <2>5
      <3> QED BY <2>5, <3>1, <3>2, SubSeqProperties
    <2> HIDE DEF part
    <2> DEFINE k == first - 1
               m == last - first + 1
    <2>7. /\ k \in 0 .. n - 1 /\ m \in Nat /\ m # 0 /\ m + k = last /\ m + k =< n
          /\ k + 1 = first /\ first \in 1 .. n
          /\ last \in 1 .. n /\ last + 1 \in 1 .. n /\ last + 1 =< n
          /\ \A i \in 1 .. m : i + k \in 1 .. n /\ first + i - 1 = i + k
      BY <1>1, <2>5
    <2>8. Len(part) = m /\ \A i \in 1 .. m : part[i] = r[i + k]
      BY <2>6, <2>7
    <2> HIDE DEF k, m
    <2>9. \A i \in 1 .. m : part[i].offset = q[i + k].offset /\ part[i].size = q[i + k].size
      BY <1>2, <2>7, <2>8
    <2>10. BlocksTile([blocks |-> part, free_offset |-> EndOf(q[m + k]),
                       in_use_offset |-> q[k + 1].offset])
      BY <2>6, <2>7, <2>8, <2>9, PartTile DEF q, n
    <2>11. EndOf(q[m + k]) = r[last + 1].offset /\ q[k + 1].offset = r[first].offset
      BY <1>1, <1>2, <2>7
    <2>12. BlocksOf(Discard(b)) = {part[i] : i \in 1 .. m}
      BY <2>1, <2>6, <2>8 DEF BlocksOf
    <2>13. ASSUME NEW i \in 1 .. n - 1, q[i].state # "PADDING"
           PROVE  q[i] \in BlocksOf(Discard(b))
      <3>1. i - k \in 1 .. m /\ (i - k) + k = i
        <4>1. first =< i /\ i =< last
          BY <2>2, <2>3, <2>4, <2>13
        <4> QED BY <1>1, <2>5, <4>1 DEF k, m
      <3>2. part[i - k] = q[i]
        BY <1>2, <2>8, <3>1
      <3> QED BY <2>12, <3>1, <3>2
    <2>14. ASSUME NEW i \in 1 .. m
           PROVE  i + k \in 1 .. n - 1 /\ part[i] = q[i + k]
      <3>1. i + k \in 1 .. n - 1
        BY <1>1, <2>5, <2>7
      <3> QED BY <1>2, <2>8, <3>1
    <2>15. BlocksTile(Discard(b))
      BY <2>1, <2>10, <2>11
    <2>16. \A block \in BlocksOf(Discard(b)) : \E i \in 1 .. n - 1 : block = q[i]
      BY <2>12, <2>14
    <2> QED BY <2>13, <2>15, <2>16 DEF q, n
  <1> QED BY <1>3, <1>4

-----------------------------------------------------------------------------
(* Which blocks the operations keep.                                       *)

\* FreeOldestBlock takes the first block away and no other.
LEMMA FreeOldestKeeps ==
  ASSUME NEW b, BlocksTile(b), b.blocks # <<>>
  PROVE  /\ BlocksOf(FreeOldest(b)) \subseteq BlocksOf(b)
         /\ \A block \in BlocksOf(b) :
              block # Head(b.blocks) => block \in BlocksOf(FreeOldest(b))
  <1> DEFINE q == b.blocks
             n == Len(q)
             rest == Tail(q)
  <1>1. /\ q \in Seq(Blocks) /\ n \in Nat /\ n # 0 /\ DOMAIN q = 1 .. n /\ Head(q) = q[1]
    BY TileIs
  <1>2. /\ rest \in Seq(Blocks) /\ Len(rest) = n - 1
        /\ \A i \in 1 .. n - 1 : rest[i] = q[i + 1]
    BY <1>1, HeadTailProperties
  <1>3. DOMAIN rest = 1 .. n - 1
    BY <1>1, <1>2
  <1>4. FreeOldest(b).blocks = rest
    BY DEF FreeOldest
  <1> HIDE DEF n, rest, q
  <1>5. BlocksOf(b) = {q[i] : i \in 1 .. n}
    BY <1>1 DEF BlocksOf, q
  <1>6. BlocksOf(FreeOldest(b)) = {rest[i] : i \in 1 .. n - 1}
    BY <1>3, <1>4 DEF BlocksOf
  <1>7. ASSUME NEW i \in 1 .. n - 1
        PROVE  i + 1 \in 1 .. n /\ rest[i] = q[i + 1]
    BY <1>1, <1>2
  <1>8. ASSUME NEW i \in 1 .. n, i # 1
        PROVE  i - 1 \in 1 .. n - 1 /\ rest[i - 1] = q[i]
    <2>1. i - 1 \in 1 .. n - 1 /\ (i - 1) + 1 = i
      BY <1>1, <1>8
    <2> QED BY <1>7, <2>1
  <1>9. BlocksOf(FreeOldest(b)) \subseteq BlocksOf(b)
    BY <1>5, <1>6, <1>7
  <1>10. ASSUME NEW block \in BlocksOf(b), block # Head(b.blocks)
         PROVE  block \in BlocksOf(FreeOldest(b))
    <2>1. PICK i \in 1 .. n : block = q[i]
      BY <1>5
    <2>2. i # 1
      BY <1>1, <1>10, <2>1 DEF q
    <2>3. i - 1 \in 1 .. n - 1 /\ rest[i - 1] = block
      BY <1>8, <2>1, <2>2
    <2> QED BY <1>6, <2>3
  <1> QED BY <1>9, <1>10

\* A round of the loop takes away no block that is kept, and adds none.
Kept(block, token) == block.token > token \/ block.state = "IN_USE"
Keeps(b, c, token) ==
  /\ BlocksOf(c) \subseteq BlocksOf(b)
  /\ \A block \in BlocksOf(b) : Kept(block, token) => block \in BlocksOf(c)

LEMMA FreeNextKeeps ==
  ASSUME NEW b, BlocksTile(b), NEW token
  PROVE  Keeps(b, FreeNext(b, token), token)
  <1>1. CASE FreeNext(b, token) = b
    BY <1>1 DEF Keeps
  <1>2. CASE FreeNext(b, token) # b
    <2>1. b.blocks # <<>> /\ FreeNext(b, token) = FreeOldest(b) /\ ~Kept(Head(b.blocks), token)
      BY <1>2 DEF FreeNext, Kept
    <2> QED BY <2>1, FreeOldestKeeps DEF Keeps
  <1> QED BY <1>1, <1>2

LEMMA RoundsKeep ==
  ASSUME NEW b, BlocksTile(b), NEW token, NEW n \in Nat, NEW f, Rounds(f, b, n, token)
  PROVE  Keeps(b, f[n], token)
  <1> DEFINE Wrong == {k \in 0 .. n : ~(BlocksTile(f[k]) /\ Keeps(b, f[k], token))}
  <1> SUFFICES ASSUME ~Keeps(b, f[n], token)
               PROVE  FALSE
    OBVIOUS
  <1>1. PICK k \in Wrong : \A y \in Wrong : k =< y
    <2>1. Wrong \subseteq Nat /\ n \in Wrong
      OBVIOUS
    <2> HIDE DEF Wrong
    <2> QED BY <2>1, LeastOf
  <1>2. f[k] = IF k = 0 THEN b ELSE FreeNext(f[k - 1], token)
    BY <1>1 DEF Rounds
  <1>3. k # 0
    BY <1>1, <1>2 DEF Keeps
  <1>4. k - 1 \in 0 .. n /\ ~(k =< k - 1)
    BY <1>1, <1>3
  <1>5. BlocksTile(f[k - 1]) /\ Keeps(b, f[k - 1], token)
    BY <1>1, <1>4
  <1>6. BlocksTile(f[k])
    BY <1>2, <1>3, <1>5, FreeNextTile
  <1>7. Keeps(f[k - 1], f[k], token)
    BY <1>2, <1>3, <1>5, FreeNextKeeps
  <1>8. Keeps(b, f[k], token)
    BY <1>5, <1>7 DEF Keeps
  <1> QED BY <1>1, <1>6, <1>8

\* GetLargestFreeSizeNoWaiting keeps the blocks in use and those whose token has
\* not passed.
LEMMA FreePassedKeeps ==
  ASSUME NEW b, BlocksTile(b), NEW token
  PROVE  Keeps(b, FreePassed(b, token), token)
  <1> DEFINE n == Len(b.blocks)
             freed == CHOOSE f : Rounds(f, b, n, token)
  <1>1. n \in Nat
    BY TileIs
  <1>2. Rounds(freed, b, n, token)
    BY <1>1, RoundsExist
  <1>3. FreePassed(b, token) = freed[n]
    BY DEF FreePassed, Rounds, FreeNext
  <1> HIDE DEF n, freed
  <1> QED BY <1>1, <1>2, <1>3, RoundsKeep

\* Alloc keeps every block; the new one is the last, and the only one in use.
LEMMA AllocateAdds ==
  ASSUME NEW b, BlocksTile(b), NEW size \in 1 .. Size
  PROVE  LET blocks == Allocate(b, size).blocks
         IN /\ BlocksOf(b) \subseteq BlocksOf(Allocate(b, size))
            /\ (\A block \in BlocksOf(b) : block.state # "IN_USE") =>
                 \A i \in DOMAIN blocks : blocks[i].state = "IN_USE" => i = Len(blocks)
  <1> DEFINE q == b.blocks
             wrap == size + b.free_offset > Size
             pad == Block(b.free_offset, Size - b.free_offset, "PADDING")
             new == Block(IF wrap THEN 0 ELSE b.free_offset, size, "IN_USE")
             p == IF wrap THEN Append(q, pad) ELSE q
             blocks == Allocate(b, size).blocks
             n == Len(q)
             m == Len(p)
             T == Blocks \cup {pad, new}
  <1>1. /\ q \in Seq(Blocks) /\ n \in Nat /\ DOMAIN q = 1 .. n
        /\ b = [blocks |-> q, free_offset |-> b.free_offset, in_use_offset |-> b.in_use_offset]
    BY TileIs
  <1>2. q \in Seq(T)
    <2>1. Blocks \subseteq T
      OBVIOUS
    <2> HIDE DEF T, q
    <2> QED BY <1>1, <2>1
  <1>3. pad.state = "PADDING" /\ new.state = "IN_USE" /\ pad \in T /\ new \in T
    BY DEF Block
  <1>4. Allocate(b, size).blocks
          = (q \o (IF wrap THEN <<pad>> ELSE <<>>)) \o <<new>>
    <2> DEFINE r == (q \o (IF wrap THEN <<pad>> ELSE <<>>)) \o <<new>>
    <2>1. Allocate(b, size)
            = [b EXCEPT !.blocks = r,
                        !.free_offset = ((IF wrap THEN 0 ELSE b.free_offset) + size) % Size]
      BY DEF Allocate
    <2> HIDE DEF r, wrap, q
    <2> QED BY <1>1, <2>1 DEF r
  <1> HIDE DEF T, pad, new, wrap, q
  <1>5. q \o (IF wrap THEN <<pad>> ELSE <<>>) = p
    <2>1. q \o <<>> = q
      BY <1>2, ConcatEmptySeq
    <2>2. q \o <<pad>> = Append(q, pad)
      BY <1>2, <1>3, AppendIsConcat
    <2> QED BY <2>1, <2>2
  <1>6. /\ p \in Seq(T) /\ m \in Nat /\ n =< m
        /\ \A i \in 1 .. n : p[i] = q[i]
        /\ \A i \in 1 .. m : i \in 1 .. n \/ p[i].state = "PADDING"
    <2>1. CASE wrap
      <3>1. /\ p \in Seq(T) /\ m = n + 1 /\ p[n + 1] = pad
            /\ \A i \in 1 .. n : p[i] = q[i]
        BY <1>2, <1>3, <2>1, AppendProperties
      <3> HIDE DEF p, m, n
      <3>2. \A i \in 1 .. n + 1 : i \in 1 .. n \/ i = n + 1
        BY <1>1
      <3> QED BY <1>1, <1>3, <3>1, <3>2
    <2>2. CASE ~wrap
      BY <1>1, <1>2, <2>2
    <2> QED BY <2>1, <2>2
  <1>7. blocks = Append(p, new)
    BY <1>3, <1>4, <1>5, <1>6, AppendIsConcat
  <1> HIDE DEF blocks, p
  <1>8. /\ blocks \in Seq(T) /\ Len(blocks) = m + 1 /\ DOMAIN blocks = 1 .. m + 1
        /\ \A i \in 1 .. m : blocks[i] = p[i]
    BY <1>3, <1>6, <1>7, AppendProperties
  <1> HIDE DEF m, n
  <1>9. /\ \A i \in 1 .. n : i \in 1 .. m + 1 /\ blocks[i] = q[i]
        /\ \A i \in 1 .. m + 1 : i = m + 1 \/ i \in 1 .. n \/ blocks[i].state = "PADDING"
    <2>1. \A i \in 1 .. n : i \in 1 .. m /\ i \in 1 .. m + 1
      BY <1>1, <1>6
    <2>2. \A i \in 1 .. m + 1 : i = m + 1 \/ i \in 1 .. m
      BY <1>6
    <2> QED BY <1>6, <1>8, <2>1, <2>2
  <1>10. BlocksOf(b) = {q[i] : i \in 1 .. n}
         /\ BlocksOf(Allocate(b, size)) = {blocks[i] : i \in 1 .. m + 1}
    BY <1>1, <1>8 DEF BlocksOf, q, blocks
  <1> QED BY <1>8, <1>9, <1>10 DEF blocks

\* FreePendingToken changes the newest block only, and not its offset.
LEMMA FreePendingIs ==
  ASSUME NEW b, BlocksTile(b), NEW token
  PROVE  LET blocks == FreePendingToken(b, token).blocks
             last == Len(b.blocks)
         IN /\ DOMAIN blocks = 1 .. last /\ DOMAIN b.blocks = 1 .. last
            /\ \A i \in 1 .. last :
                 IF i # last THEN blocks[i] = b.blocks[i]
                 ELSE /\ blocks[i].offset = b.blocks[i].offset
                      /\ blocks[i].token = token
                      /\ blocks[i].state = "FREE_PENDING_TOKEN"
  <1> DEFINE q == b.blocks
             n == Len(q)
             once == [q EXCEPT ![n].token = token]
             r == [once EXCEPT ![n].state = "FREE_PENDING_TOKEN"]
  <1>1. /\ q \in Seq(Blocks) /\ n \in Nat /\ DOMAIN q = 1 .. n
        /\ \A i \in 1 .. n : q[i] \in Blocks
        /\ b = [blocks |-> q, free_offset |-> b.free_offset, in_use_offset |-> b.in_use_offset]
    BY TileIs
  <1>2. FreePendingToken(b, token).blocks = r
    <2>1. FreePendingToken(b, token) = [b EXCEPT !.blocks = r]
      BY <1>1 DEF FreePendingToken
    <2> HIDE DEF r, q
    <2> QED BY <1>1, <2>1
  <1>3. DOMAIN r = 1 .. n /\ \A i \in 1 .. n : i # n => r[i] = q[i]
    BY <1>1
  <1>4. ASSUME n \in 1 .. n
        PROVE  r[n].offset = q[n].offset /\ r[n].token = token
               /\ r[n].state = "FREE_PENDING_TOKEN"
    <2>1. once[n] = [q[n] EXCEPT !.token = token]
      BY <1>1, <1>4
    <2>2. r[n] = [once[n] EXCEPT !.state = "FREE_PENDING_TOKEN"]
      BY <1>1, <1>4
    <2>3. q[n] = [offset |-> q[n].offset, size |-> q[n].size, token |-> q[n].token,
                  state |-> q[n].state]
      <3>1. q[n] \in Blocks
        BY <1>1, <1>4
      <3> HIDE DEF q, n
      <3> QED BY <3>1 DEF Blocks
    <2> HIDE DEF once, r, q, n
    <2>4. once[n] = [offset |-> q[n].offset, size |-> q[n].size, token |-> token,
                     state |-> q[n].state]
      BY <2>1, <2>3
    <2> QED BY <2>2, <2>4
  <1> HIDE DEF r
  <1> QED BY <1>1, <1>2, <1>3, <1>4
=============================================================================
