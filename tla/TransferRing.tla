----------------------------- MODULE TransferRing -----------------------------
(***************************************************************************)
(* gpu::RingBuffer (gpu/command_buffer/client/ring_buffer.cc): how a client *)
(* hands out the memory it shares with the service.  Operators on a record *)
(*   [blocks, free_offset, in_use_offset]                                  *)
(* with the members of the class; the waits for tokens are in              *)
(* CommandBuffer.  A unit of the model is one aligned unit of memory.      *)
(***************************************************************************)
EXTENDS Integers, Sequences

CONSTANT Size    \* size_

ASSUME SizeAssumption == Size \in Nat \ {0}

State == {"IN_USE", "PADDING", "FREE_PENDING_TOKEN"}

Block(o, n, s) == [offset |-> o, size |-> n, token |-> 0, state |-> s]

Empty == [blocks |-> <<>>, free_offset |-> 0, in_use_offset |-> 0]

\* FreeOldestBlock, after its wait for the token.
FreeOldest(b) ==
  LET next == (b.in_use_offset + Head(b.blocks).size) % Size
      all_free == next = b.free_offset
  IN [blocks |-> Tail(b.blocks),
      free_offset |-> IF all_free THEN 0 ELSE b.free_offset,
      in_use_offset |-> IF all_free THEN 0 ELSE next]

\* The loop of GetLargestFreeSizeNoWaiting.
FreePassed(b, last_token_read) ==
  LET Kept(block) == block.token > last_token_read \/ block.state = "IN_USE"
      freed[k \in 0 .. Len(b.blocks)] ==
        IF k = 0 THEN b
        ELSE LET r == freed[k - 1]
             IN IF r.blocks = <<>> \/ Kept(Head(r.blocks)) THEN r ELSE FreeOldest(r)
  IN freed[Len(b.blocks)]

\* What GetLargestFreeSizeNoWaiting returns once the loop has ended.
LargestFree(b) ==
  IF b.free_offset = b.in_use_offset THEN IF b.blocks = <<>> THEN Size ELSE 0
  ELSE IF b.free_offset > b.in_use_offset
    THEN LET tail == Size - b.free_offset
         IN IF tail > b.in_use_offset THEN tail ELSE b.in_use_offset
    ELSE b.in_use_offset - b.free_offset

\* What Alloc does once there is room.
Allocate(b, n) ==
  LET wrap == n + b.free_offset > Size
      offset == IF wrap THEN 0 ELSE b.free_offset
      padding == IF wrap
                 THEN <<Block(b.free_offset, Size - b.free_offset, "PADDING")>>
                 ELSE <<>>
  IN [b EXCEPT !.blocks = @ \o padding \o <<Block(offset, n, "IN_USE")>>,
               !.free_offset = (offset + n) % Size]

\* Only the newest block can be in use: Alloc asserts it.
InUse(b) == b.blocks # <<>> /\ b.blocks[Len(b.blocks)].state = "IN_USE"

FreePendingToken(b, token) ==
  LET last == Len(b.blocks)
  IN [b EXCEPT !.blocks[last].token = token,
               !.blocks[last].state = "FREE_PENDING_TOKEN"]

\* DiscardBlock of the newest block: it goes with the padding before it, and
\* padding at the front goes too.
Discard(b) ==
  LET blocks == [b.blocks EXCEPT ![Len(b.blocks)].state = "PADDING"]
      Used == {i \in DOMAIN blocks : blocks[i].state # "PADDING"}
      first == CHOOSE i \in Used : \A j \in Used : i =< j
      last == CHOOSE i \in Used : \A j \in Used : i >= j
  IN IF Used = {} THEN Empty
     ELSE [blocks |-> SubSeq(blocks, first, last),
           free_offset |-> blocks[last + 1].offset,
           in_use_offset |-> blocks[first].offset]

\* The blocks lie one after another in the part of the ring that is in use, from
\* in_use_offset to free_offset, and none overlaps another.
Blocks == [offset : 0 .. Size - 1, size : 1 .. Size, token : Nat, state : State]
BlocksOf(b) == {b.blocks[i] : i \in DOMAIN b.blocks}
EndOf(block) ==
  IF block.offset + block.size = Size THEN 0 ELSE block.offset + block.size
From(i, x) == IF i =< x THEN x - i ELSE x - i + Size
BlocksTile(b) ==
  LET from(x) == From(b.in_use_offset, x)
  IN /\ b \in [blocks : Seq(Blocks), free_offset : 0 .. Size - 1,
               in_use_offset : 0 .. Size - 1]
     /\ IF b.blocks = <<>> THEN b.free_offset = 0 /\ b.in_use_offset = 0
        ELSE /\ b.in_use_offset = b.blocks[1].offset
             /\ b.free_offset = EndOf(b.blocks[Len(b.blocks)])
     /\ \A i \in DOMAIN b.blocks :
          LET block == b.blocks[i] IN
          /\ block.offset + block.size =< Size
          /\ from(block.offset) + block.size =< Size
          /\ i + 1 \in DOMAIN b.blocks => b.blocks[i + 1].offset = EndOf(block)
          /\ \A j \in DOMAIN b.blocks :
               i < j => from(block.offset) + block.size =< from(b.blocks[j].offset)
=============================================================================
