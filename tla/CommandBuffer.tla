----------------------------- MODULE CommandBuffer -----------------------------
(***************************************************************************)
(* A command buffer: CommandBufferHelper and RingBuffer on the client's    *)
(* thread (gpu/command_buffer/client), CommandBufferService, GpuScheduler  *)
(* and CommandParser on the GPU thread (gpu/command_buffer/service), and   *)
(* InProcessCommandBuffer between them.                                    *)
(*                                                                         *)
(* The client writes commands into a ring of entries and tells the service *)
(* by Flush how far it has written; it knows how far the service has read  *)
(* only from the state published after each flush.  Memory for larger data *)
(* comes from a second ring and is reused once a token inserted after the  *)
(* commands that read it has passed.                                       *)
(*                                                                         *)
(* A client's function runs in one step up to the point where it blocks.   *)
(* The GPU thread executes one command per step.                           *)
(***************************************************************************)
EXTENDS Integers, Sequences, TransferRing

CONSTANTS
  total_entry_count,   \* entries of the ring
  kAutoFlushSmall,     \* 16 and 2 in the code
  kAutoFlushBig,
  WorkSizes,           \* the sizes of commands that need no memory
  ReadSize,            \* the size of a command that reads memory
  TokenSize,           \* the size of SetToken: 2 in the code
  BlockSizes,          \* what is asked of the transfer ring
  TokenLimit,          \* tokens are numbers below it: 2^31 in the code
  flush_automatically,
  MayLose,             \* whether the context may be lost
  MaxTasks             \* the bound on queued tasks when a ring is freed

ASSUME CommandBufferAssumption ==
  /\ total_entry_count \in Nat
  /\ total_entry_count > 2
  /\ kAutoFlushSmall \in Nat \ {0}
  /\ kAutoFlushBig \in Nat \ {0}
  /\ WorkSizes \subseteq 1 .. total_entry_count - 1
  /\ ReadSize \in 1 .. total_entry_count - 1
  /\ TokenSize \in 1 .. total_entry_count - 1
  /\ BlockSizes \subseteq 1 .. Size
  /\ TokenLimit \in Nat \ {0}
  /\ flush_automatically \in BOOLEAN
  /\ MayLose \in BOOLEAN
  /\ MaxTasks \in Nat

Offsets == 0 .. total_entry_count - 1
Tokens == 0 .. TokenLimit - 1

\* A command is its header: what it does, its entries and its argument.
Cmd(op, size, arg) == [op |-> op, size |-> size, arg |-> arg]

\* What else an entry may hold: an argument, or what nobody may read again.
Argument == Cmd("argument", 0, 0)
Stale == Cmd("stale", 0, 0)

Commands ==
  [op : {"work"}, size : WorkSizes, arg : {0}]
    \cup [op : {"read"}, size : {ReadSize}, arg : 0 .. Size - 1]
    \cup [op : {"set_token"}, size : {TokenSize}, arg : Tokens]
Noops == [op : {"noop"}, size : 1 .. total_entry_count, arg : {0}]
Entries == Commands \cup Noops \cup {Argument, Stale}

\* CommandBuffer::State.  Both kinds of parse error are one here.
Errors == {"kNoError", "kLostContext", "kParseError"}
IsError(state) == state.error # "kNoError"
State0 == [get_offset |-> 0, token |-> 0, error |-> "kNoError"]
States == [get_offset : Offsets, token : Tokens, error : Errors]

VARIABLES
  entries,                 \* the ring, in shared memory
  \* The client's thread.
  helper,                  \* CommandBufferHelper
  last_state,              \* InProcessCommandBuffer::last_state_
  last_put_offset,
  transfer,                \* RingBuffer
  client,                  \* where the client is: see Ready and Blocked
  dropped,                 \* a command was refused room without an error
  \* Between the threads.
  tasks,                   \* of the GPU thread
  state_after_last_flush,
  flush_event,
  \* The GPU thread.
  gpu_pc,
  service,                 \* get_offset_, token_ and error_
  put_offset

client_vars == <<helper, last_state, last_put_offset, transfer, client, dropped>>
gpu_vars == <<gpu_pc, service, put_offset>>
vars == <<entries, client_vars, tasks, state_after_last_flush, flush_event, gpu_vars>>

-----------------------------------------------------------------------------
(* CommandBufferHelper.  Its functions change the helper, the ring and, by *)
(* InProcessCommandBuffer::Flush, the queue of tasks: a record s of the    *)
(* four.                                                                   *)

Now == [h |-> helper, entries |-> entries, tasks |-> tasks, last_put |-> last_put_offset]

\* Seeded bug: a get of 0 leaves no entry free, so that full looks like empty.
CalcFull(h, curr_get, waiting_count) ==
  [h EXCEPT !.immediate =
     IF ~h.have_ring_buffer THEN 0
     ELSE IF curr_get > h.put THEN curr_get - h.put - 1 ELSE total_entry_count - h.put]

\* CalcImmediateEntries.
CalcImmediateEntries(h, curr_get, waiting_count) ==
  LET contiguous == IF curr_get > h.put THEN curr_get - h.put - 1
                    ELSE total_entry_count - h.put - (IF curr_get = 0 THEN 1 ELSE 0)
      limit == total_entry_count \div
                 (IF curr_get = h.last_put_sent THEN kAutoFlushSmall ELSE kAutoFlushBig)
      pending == (h.put + total_entry_count - h.last_put_sent) % total_entry_count
      left == IF limit - pending < waiting_count THEN waiting_count ELSE limit - pending
      immediate == IF ~h.have_ring_buffer THEN 0
                   ELSE IF ~flush_automatically THEN contiguous
                   ELSE IF pending > 0 /\ pending >= limit THEN 0
                   ELSE IF contiguous > left THEN left ELSE contiguous
  IN [h EXCEPT !.immediate = immediate]

\* InProcessCommandBuffer::Flush.
QueueFlush(s, put) ==
  IF IsError(last_state) \/ s.last_put = put THEN s
  ELSE [s EXCEPT !.tasks = Append(@, [kind |-> "flush", put |-> put]),
                 !.last_put = put]

\* Seeded bug: put_ is not wrapped.
PutAtEnd(h) == h

\* put_ is left at the end of the ring by GetSpace.
WrapPut(h) == [h EXCEPT !.put = IF @ = total_entry_count THEN 0 ELSE @]

FlushHelper(s) ==
  LET h == WrapPut(s.h)
      sent == [h EXCEPT !.last_put_sent = h.put]
  IN [QueueFlush(s, h.put) EXCEPT
        !.h = CalcImmediateEntries(sent, last_state.get_offset, 0)]

OrderingBarrierHelper(s) ==
  LET h == WrapPut(s.h)
  IN [QueueFlush(s, h.put) EXCEPT !.h = CalcImmediateEntries(h, last_state.get_offset, 0)]

\* A command written at put_, or the noop that fills the ring to its end.
WriteAt(ring, put, cmd) ==
  [i \in DOMAIN ring |-> IF i = put THEN cmd
                         ELSE IF i > put /\ i < put + cmd.size THEN Argument
                         ELSE ring[i]]

\* The end of GetSpace.
WriteCommand(s, cmd) ==
  [s EXCEPT !.entries = WriteAt(@, s.h.put, cmd),
            !.h.put = @ + cmd.size,
            !.h.immediate = @ - cmd.size]

FillWithNoops(s) ==
  LET left == total_entry_count - s.h.put
  IN [s EXCEPT !.entries = IF left > 0 THEN WriteAt(@, s.h.put, Cmd("noop", left, 0)) ELSE @,
               !.h.put = 0]

InRange(start, end, value) ==
  IF start =< end THEN start =< value /\ value =< end
  ELSE start =< value \/ value =< end

-----------------------------------------------------------------------------
(* The client's thread.  `client' names the function it is in by a command *)
(* or by "alloc" and "finish", what it waits for, and what comes then.     *)

Idle == Cmd("none", 0, 0)
Wait(pc, cmd, start, end, then) ==
  [pc |-> pc, cmd |-> cmd, start |-> start, end |-> end, then |-> then]
At(pc, cmd) == Wait(pc, cmd, 0, 0, "return")
Ready == At("ready", Idle)

Put(s) ==
  /\ helper' = s.h
  /\ entries' = s.entries
  /\ tasks' = s.tasks
  /\ last_put_offset' = s.last_put

Init ==
  /\ entries = [i \in Offsets |-> Stale]
  /\ helper = CalcImmediateEntries(
                [put |-> 0, last_put_sent |-> 0, immediate |-> 0, token |-> 0,
                 have_ring_buffer |-> TRUE], 0, 0)
  /\ last_state = State0
  /\ last_put_offset = 0
  /\ transfer = Empty
  /\ client = Ready
  /\ dropped = FALSE
  /\ tasks = <<>>
  /\ state_after_last_flush = State0
  /\ flush_event = FALSE
  /\ gpu_pc = "idle"
  /\ service = State0
  /\ put_offset = 0

\* Seeded bug: a token that wraps does not wait for those before it.
WrapWithoutFinish(cmd, written) ==
  /\ client' = Ready
  /\ transfer' = IF cmd.op = "set_token" THEN FreePendingToken(transfer, cmd.arg) ELSE transfer

\* What follows a command that was written, or given up.  InsertToken goes on
\* to FreePendingToken, through Finish if the token wrapped to 0.
AfterCommand(cmd, written) ==
  IF cmd.op # "set_token"
  THEN client' = Ready /\ UNCHANGED transfer
  ELSE IF written /\ cmd.arg = 0
  THEN client' = At("finish", cmd) /\ UNCHANGED transfer
  ELSE client' = Ready /\ transfer' = FreePendingToken(transfer, cmd.arg)

Written(s, cmd) ==
  /\ Put(WriteCommand(s, cmd))
  /\ AfterCommand(cmd, TRUE)
  /\ UNCHANGED dropped

\* GetSpace returns NULL.
GivenUp(s, cmd) ==
  /\ Put(s)
  /\ AfterCommand(cmd, FALSE)
  /\ UNCHANGED dropped

\* Seeded bug: waits for entries the service was not told of.
FindRoomUnflushed(s, cmd) ==
  LET h == CalcImmediateEntries(s.h, last_state.get_offset, cmd.size)
  IN IF h.immediate >= cmd.size THEN Written([s EXCEPT !.h = h], cmd)
     ELSE /\ Put(s)
          /\ client' = Wait("poll", cmd, h.put + cmd.size + 1, h.put, "room")
          /\ UNCHANGED <<transfer, dropped>>

\* The second half of WaitForAvailableEntries.
FindRoom(s, cmd) ==
  LET calculated == [s EXCEPT !.h = CalcImmediateEntries(@, last_state.get_offset, cmd.size)]
      flushed == FlushHelper(calculated)
      again == [flushed EXCEPT !.h = CalcImmediateEntries(@, last_state.get_offset, cmd.size)]
  IN IF calculated.h.immediate >= cmd.size THEN Written(calculated, cmd)
     ELSE IF again.h.immediate >= cmd.size THEN Written(again, cmd)
     ELSE /\ Put(again)
          /\ client' = Wait("poll", cmd, again.h.put + cmd.size + 1, again.h.put, "room")
          /\ UNCHANGED <<transfer, dropped>>

\* Seeded bug: fills up with noops wherever the service is.
WrapAtOnce(s, cmd) ==
  IF s.h.put + cmd.size =< total_entry_count THEN FindRoom(s, cmd)
  ELSE FindRoom(FillWithNoops(s), cmd)

\* The first half of WaitForAvailableEntries.
WaitForAvailableEntries(s, cmd) ==
  LET curr_get == last_state.get_offset
      flushed == FlushHelper(s)
  IN IF s.h.put + cmd.size =< total_entry_count THEN FindRoom(s, cmd)
     ELSE IF curr_get > s.h.put \/ curr_get = 0
     THEN /\ Put(flushed)
          /\ client' = Wait("poll", cmd, 1, flushed.h.put, "wrap")
          /\ UNCHANGED <<transfer, dropped>>
     ELSE FindRoom(FillWithNoops(s), cmd)

\* The rest of GetSpace once AllocateRingBuffer has a ring; InsertToken calls
\* that before GetSpace.
Allocated(s, curr_get, cmd) ==
  LET h == [s.h EXCEPT !.put = 0, !.have_ring_buffer = TRUE]
      fresh == [s EXCEPT !.h = CalcImmediateEntries(h, curr_get, 0)]
  IN IF cmd.op = "set_token" /\ cmd.size =< fresh.h.immediate THEN Written(fresh, cmd)
     ELSE WaitForAvailableEntries(fresh, cmd)

\* GetSpace.  Without a ring there are no immediate entries.
GetSpace(s, cmd) ==
  IF cmd.size =< s.h.immediate THEN Written(s, cmd)
  ELSE IF s.h.have_ring_buffer THEN WaitForAvailableEntries(s, cmd)
  ELSE /\ Put([s EXCEPT !.tasks = Append(@, [kind |-> "set_get_buffer", put |-> 0])])
       /\ client' = At("set_get_buffer", cmd)
       /\ UNCHANGED <<transfer, dropped>>

\* A client that lost a command, or knows that its context is lost, stops.
CanCall == client.pc = "ready" /\ ~dropped /\ ~IsError(last_state)

\* A command; while a block of memory is in use it may read it.
Issue ==
  /\ CanCall
  /\ \E cmd \in Commands :
       /\ \/ cmd.op = "work"
          \/ /\ cmd.op = "read"
             /\ InUse(transfer)
             /\ cmd.arg = transfer.blocks[Len(transfer.blocks)].offset
       /\ GetSpace(Now, cmd)
  /\ UNCHANGED <<last_state, state_after_last_flush, flush_event, gpu_vars>>

\* ScopedTransferBufferPtr::Release: InsertToken, then FreePendingToken.
Release ==
  /\ CanCall
  /\ InUse(transfer)
  /\ LET token == (helper.token + 1) % TokenLimit
     IN GetSpace([Now EXCEPT !.h.token = token], Cmd("set_token", TokenSize, token))
  /\ UNCHANGED <<last_state, state_after_last_flush, flush_event, gpu_vars>>

Flush ==
  /\ CanCall
  /\ Put(FlushHelper(Now))
  /\ UNCHANGED <<last_state, transfer, client, dropped, state_after_last_flush,
                 flush_event, gpu_vars>>

OrderingBarrier ==
  /\ CanCall
  /\ Put(OrderingBarrierHelper(Now))
  /\ UNCHANGED <<last_state, transfer, client, dropped, state_after_last_flush,
                 flush_event, gpu_vars>>

Finish ==
  /\ CanCall
  /\ client' = At("finish", Cmd("finish", 0, 0))
  /\ UNCHANGED <<entries, helper, last_state, last_put_offset, transfer, dropped, tasks,
                 state_after_last_flush, flush_event, gpu_vars>>

\* The end of Finish, called by the client or by InsertToken.
AfterFinish(cmd) ==
  /\ client' = Ready
  /\ transfer' = IF cmd.op = "set_token" THEN FreePendingToken(transfer, cmd.arg) ELSE transfer

\* The body of Finish.
FinishHelper ==
  /\ client.pc = "finish"
  /\ IF helper.put = last_state.get_offset
     THEN /\ AfterFinish(client.cmd)
          /\ UNCHANGED <<entries, helper, tasks, last_put_offset>>
     ELSE /\ Put(FlushHelper(Now))
          /\ client' = Wait("poll", client.cmd, helper'.put, helper'.put, "finish")
          /\ UNCHANGED transfer
  /\ UNCHANGED <<last_state, dropped, state_after_last_flush, flush_event, gpu_vars>>

\* RingBuffer::Alloc.
Alloc ==
  /\ CanCall
  /\ ~InUse(transfer)
  /\ \E size \in BlockSizes : client' = At("alloc", Cmd("alloc", size, 0))
  /\ UNCHANGED <<entries, helper, last_state, last_put_offset, transfer, dropped, tasks,
                 state_after_last_flush, flush_event, gpu_vars>>

\* One round of the loop of Alloc: free what has passed, then take the room or
\* free the oldest block, which waits for its token.  GetLastToken reads the
\* state of the last flush.
AllocRound ==
  LET freed == FreePassed(transfer, state_after_last_flush.token)
      token == Head(freed.blocks).token
  IN /\ client.pc = "alloc"
     /\ last_state' = state_after_last_flush
     /\ IF client.cmd.size =< LargestFree(freed)
        THEN /\ transfer' = Allocate(freed, client.cmd.size)
             /\ client' = Ready
             /\ UNCHANGED <<entries, helper, tasks, last_put_offset>>
        ELSE IF \/ Head(freed.blocks).state = "PADDING"
                \/ ~helper.have_ring_buffer
                \/ token > helper.token              \* the token wrapped
                \/ state_after_last_flush.token >= token
        THEN /\ transfer' = FreeOldest(freed)
             /\ UNCHANGED <<entries, helper, tasks, last_put_offset, client>>
        ELSE /\ transfer' = freed
             /\ client' = [client EXCEPT !.pc = "flush_token", !.start = token]
             /\ UNCHANGED <<entries, helper, tasks, last_put_offset>>
     /\ UNCHANGED <<dropped, state_after_last_flush, flush_event, gpu_vars>>

\* The end of WaitForToken.
FlushToken ==
  /\ client.pc = "flush_token"
  /\ Put(FlushHelper(Now))
  /\ client' = Wait("poll", client.cmd, client.start, helper.token, "token")
  /\ UNCHANGED <<last_state, transfer, dropped, state_after_last_flush, flush_event, gpu_vars>>

\* A block that no command reads is given back at once.
DiscardBlock ==
  /\ CanCall
  /\ InUse(transfer)
  /\ \A i \in Offsets : ~(/\ entries[i].op = "read"
                          /\ entries[i].arg = transfer.blocks[Len(transfer.blocks)].offset)
  /\ transfer' = Discard(transfer)
  /\ UNCHANGED <<entries, helper, last_state, last_put_offset, client, dropped, tasks,
                 state_after_last_flush, flush_event, gpu_vars>>

\* FreeRingBuffer; its CHECK asks for an empty ring.
FreeRingBuffer ==
  /\ CanCall
  /\ helper.have_ring_buffer
  /\ Len(tasks) < MaxTasks
  /\ helper.put = last_state.get_offset
  /\ helper' = [helper EXCEPT !.have_ring_buffer = FALSE, !.immediate = 0]
  /\ tasks' = Append(tasks, [kind |-> "destroy_transfer_buffer", put |-> 0])
  /\ UNCHANGED <<entries, last_state, last_put_offset, transfer, client, dropped,
                 state_after_last_flush, flush_event, gpu_vars>>

\* The body of the loops of WaitForTokenInRange and WaitForGetOffsetInRange.
Poll ==
  LET value == IF client.then = "token" THEN state_after_last_flush.token
               ELSE state_after_last_flush.get_offset
  IN /\ client.pc = "poll"
     /\ last_state' = state_after_last_flush
     /\ client' = [client EXCEPT !.pc =
                     IF InRange(client.start, client.end, value) \/ IsError(state_after_last_flush)
                     THEN "return" ELSE "wait"]
     /\ UNCHANGED <<entries, helper, last_put_offset, transfer, dropped, tasks,
                    state_after_last_flush, flush_event, gpu_vars>>

\* flush_event_ resets itself.
Woken ==
  /\ client.pc = "wait"
  /\ flush_event
  /\ flush_event' = FALSE
  /\ client' = [client EXCEPT !.pc = "poll"]
  /\ UNCHANGED <<entries, helper, last_state, last_put_offset, transfer, dropped, tasks,
                 state_after_last_flush, gpu_vars>>

\* The ring was full up to its end.
WrapReturns ==
  /\ client.then = "wrap"
  /\ IF IsError(last_state) THEN GivenUp(Now, client.cmd)
     ELSE FindRoom(FillWithNoops(Now), client.cmd)

\* There should be room now; the code asserts it, and returns NULL without.
RoomReturns ==
  LET s == [Now EXCEPT !.h = CalcImmediateEntries(@, last_state.get_offset, client.cmd.size)]
  IN /\ client.then = "room"
     /\ IF IsError(last_state) THEN GivenUp(Now, client.cmd)
        ELSE IF client.cmd.size =< s.h.immediate THEN Written(s, client.cmd)
        ELSE /\ Put(s)
             /\ AfterCommand(client.cmd, FALSE)
             /\ dropped' = TRUE

FinishReturns ==
  /\ client.then = "finish"
  /\ AfterFinish(client.cmd)
  /\ IF IsError(last_state) THEN UNCHANGED helper
     ELSE helper' = CalcImmediateEntries(helper, last_state.get_offset, 0)
  /\ UNCHANGED <<entries, tasks, last_put_offset, dropped>>

\* FreeOldestBlock goes on, and Alloc goes round again.
TokenReturns ==
  /\ client.then = "token"
  /\ transfer' = FreeOldest(transfer)
  /\ client' = At("alloc", client.cmd)
  /\ UNCHANGED <<entries, helper, tasks, last_put_offset, dropped>>

WaitReturns ==
  /\ client.pc = "return"
  /\ WrapReturns \/ RoomReturns \/ FinishReturns \/ TokenReturns
  /\ UNCHANGED <<last_state, state_after_last_flush, flush_event, gpu_vars>>

\* The client goes on once the GPU thread has run SetGetBufferOnGpuThread.
SetGetBufferReturns ==
  /\ client.pc = "get_buffer_set"
  /\ state_after_last_flush' = service
  /\ Allocated(Now, last_state.get_offset, client.cmd)
  /\ UNCHANGED <<last_state, flush_event, gpu_vars>>

-----------------------------------------------------------------------------
(* The GPU thread.                                                         *)

TaskDone == tasks' = Tail(tasks) /\ gpu_pc' = "idle"

\* FlushOnGpuThread up to the parser.  A lost context decodes nothing,
\* and a get offset equal to the put offset leaves nothing to decode.
StartFlush ==
  /\ gpu_pc = "idle"
  /\ tasks # <<>>
  /\ Head(tasks).kind = "flush"
  /\ put_offset' = Head(tasks).put
  /\ \/ /\ gpu_pc' = IF IsError(service) \/ service.get_offset = Head(tasks).put
                     THEN "publish" ELSE "decode"
        /\ UNCHANGED service
     \/ /\ MayLose                   \* MakeCurrent fails
        /\ ~IsError(service)
        /\ service' = [service EXCEPT !.error = "kLostContext"]
        /\ gpu_pc' = "publish"
  /\ UNCHANGED <<entries, client_vars, tasks, state_after_last_flush, flush_event>>

\* DoCommands for one command: it must lie within what may be read.
Execute ==
  LET cmd == entries[service.get_offset]
      readable == IF put_offset < service.get_offset
                  THEN total_entry_count - service.get_offset
                  ELSE put_offset - service.get_offset
      next == [service EXCEPT
                 !.get_offset = (@ + cmd.size) % total_entry_count,
                 !.token = IF cmd.op = "set_token" THEN cmd.arg ELSE @]
  IN /\ gpu_pc = "decode"
     /\ IF cmd.size = 0 \/ cmd.size > readable
        THEN /\ service' = [service EXCEPT !.error = "kParseError"]
             /\ UNCHANGED entries
        ELSE /\ entries' = [i \in Offsets |->
                              IF i >= service.get_offset /\ i < service.get_offset + cmd.size
                              THEN Stale ELSE entries[i]]
             /\ \/ service' = next
                \/ MayLose /\ service' = [next EXCEPT !.error = "kLostContext"]
     /\ gpu_pc' = IF IsError(service') \/ service'.get_offset = put_offset
                  THEN "publish" ELSE "decode"
     /\ UNCHANGED <<client_vars, tasks, state_after_last_flush, flush_event, put_offset>>

\* The state is published before the event is signaled.
PublishState ==
  /\ gpu_pc = "publish"
  /\ state_after_last_flush' = service
  /\ gpu_pc' = "signal"
  /\ UNCHANGED <<entries, client_vars, tasks, flush_event, service, put_offset>>

SignalFlush ==
  /\ gpu_pc = "signal"
  /\ flush_event' = TRUE
  /\ TaskDone
  /\ UNCHANGED <<entries, client_vars, state_after_last_flush, service, put_offset>>

\* The offsets are reset and the ring is gone.
DestroyTransferBuffer ==
  /\ gpu_pc = "idle"
  /\ tasks # <<>>
  /\ Head(tasks).kind = "destroy_transfer_buffer"
  /\ service' = [service EXCEPT !.get_offset = 0]
  /\ put_offset' = 0
  /\ TaskDone
  /\ UNCHANGED <<entries, client_vars, state_after_last_flush, flush_event>>

\* SetGetBufferOnGpuThread: a new ring.
SetGetBuffer ==
  /\ gpu_pc = "idle"
  /\ tasks # <<>>
  /\ Head(tasks).kind = "set_get_buffer"
  /\ service' = [service EXCEPT !.get_offset = 0]
  /\ put_offset' = 0
  /\ entries' = [i \in Offsets |-> Stale]
  /\ last_put_offset' = 0
  /\ client' = [client EXCEPT !.pc = "get_buffer_set"]
  /\ TaskDone
  /\ UNCHANGED <<helper, last_state, transfer, dropped, state_after_last_flush, flush_event>>

GpuStep ==
  \/ StartFlush
  \/ Execute
  \/ PublishState
  \/ SignalFlush
  \/ DestroyTransferBuffer
  \/ SetGetBuffer

\* What the client's thread does inside a function.
ClientStep ==
  \/ FinishHelper
  \/ AllocRound
  \/ FlushToken
  \/ Poll
  \/ Woken
  \/ WaitReturns
  \/ SetGetBufferReturns

Call ==
  \/ Issue
  \/ Release
  \/ Flush
  \/ OrderingBarrier
  \/ Finish
  \/ Alloc
  \/ DiscardBlock
  \/ FreeRingBuffer

Next == GpuStep \/ ClientStep \/ Call

Spec == Init /\ [][Next]_vars
FairSpec == Spec /\ WF_vars(GpuStep \/ ClientStep)

-----------------------------------------------------------------------------
(* Properties.                                                             *)

Pcs == {"ready", "finish", "alloc", "flush_token", "poll", "wait", "return",
        "set_get_buffer", "get_buffer_set"}

\* What the client is doing: a command, an allocation or Finish.
Calls ==
  Commands
    \cup [op : {"alloc"}, size : BlockSizes, arg : {0}]
    \cup {Cmd("finish", 0, 0)}

ClientOK ==
  /\ client \in [pc : Pcs, cmd : Calls \cup {Idle}, start : Nat, end : Nat,
                 then : {"return", "wrap", "room", "finish", "token"}]
  /\ client.pc \in {"set_get_buffer", "get_buffer_set"} => client.cmd \in Commands
  /\ client.then \in {"wrap", "room"} => client.cmd \in Commands
  /\ client.pc \in {"alloc", "flush_token"} \/ client.then = "token" =>
       client.cmd.op = "alloc"
  /\ client.then # "return" <=> client.pc \in {"poll", "wait", "return"}
  /\ client.pc = "flush_token" \/ client.then = "token" => transfer.blocks # <<>>

Tasks ==
  [kind : {"flush", "set_get_buffer", "destroy_transfer_buffer"}, put : Offsets]

Helpers ==
  [put : 0 .. total_entry_count, last_put_sent : Offsets,
   immediate : 0 .. total_entry_count, token : Tokens, have_ring_buffer : BOOLEAN]

\* The members keep their types and ranges, and the blocks of the transfer ring
\* do not overlap.
TypeOK ==
  /\ entries \in [Offsets -> Entries]
  /\ helper \in Helpers
  /\ last_state \in States
  /\ last_put_offset \in Offsets
  /\ BlocksTile(transfer)
  /\ ClientOK
  /\ dropped \in BOOLEAN
  /\ tasks \in Seq(Tasks)
  /\ state_after_last_flush \in States
  /\ flush_event \in BOOLEAN
  /\ gpu_pc \in {"idle", "decode", "publish", "signal"}
  /\ service \in States
  /\ put_offset \in Offsets

\* How far y is ahead of x in the ring, the offset n before put, and put_ as an
\* offset: at the end of the ring it stands for the start.
Ahead(x, y) == IF x =< y THEN y - x ELSE y - x + total_entry_count
Before(put, n) == IF n =< put THEN put - n ELSE put - n + total_entry_count
PutOffset(h) == WrapPut(h).put

\* What the service finds in the last n entries before put, if it reads on;
\* noops are skipped.
Shown(cmd) == IF cmd.op = "noop" THEN <<>> ELSE <<cmd>>
Unread(ring, put) ==
  LET last[n \in Offsets] ==
        IF n = 0 THEN <<>>
        ELSE LET cmd == ring[Before(put, n)]
             IN Shown(cmd) \o (IF cmd.size \in 1 .. n THEN last[n - cmd.size] ELSE <<>>)
  IN last

\* The commands between the service's get and the client's put.
Unexecuted ==
  IF IsError(service) \/ ~helper.have_ring_buffer THEN <<>>
  ELSE Unread(entries, PutOffset(helper))[Ahead(service.get_offset, PutOffset(helper))]

\* Memory of the transfer ring stays allocated as long as a command that reads
\* it is not executed, although tokens wrap and are read late.
MemoryReadIsHeld ==
  ~IsError(service) /\ ~dropped =>
    \A i \in DOMAIN Unexecuted :
      Unexecuted[i].op = "read" =>
        \E b \in DOMAIN transfer.blocks :
          /\ transfer.blocks[b].offset = Unexecuted[i].arg
          /\ transfer.blocks[b].state # "PADDING"

\* Every command is executed once, in order and as it was written.
Stream == INSTANCE CommandStream WITH
  stream <- Unexecuted,
  lost <- IsError(service),
  finishing <- client.pc # "ready" /\ client.cmd.op = "finish"
StreamSpec == Stream!Spec

\* The service never meets what it cannot parse: an entry that was not written,
\* was overwritten, or a command that goes past what it may read.
NoParseError == service.error # "kParseError"

-----------------------------------------------------------------------------
(* The inductive invariant behind NoParseError, in parts.                  *)

\* The room that the client counts on ends with the ring.
RoomInRing ==
  /\ helper.put + helper.immediate =< total_entry_count
  /\ client.then \in {"wrap", "room", "finish"} => helper.put < total_entry_count
  /\ ~helper.have_ring_buffer => helper.immediate = 0

\* An error that the client knows was published, and one that was published is
\* the service's, which then executes nothing.
ErrorsArePassedOn ==
  /\ IsError(last_state) => IsError(state_after_last_flush)
  /\ IsError(state_after_last_flush) => IsError(service)
  /\ gpu_pc = "decode" => ~IsError(service)

\* A ring is set by the last task, which the client waits for; with a ring the
\* tasks are flushes.
TasksFollow ==
  /\ gpu_pc # "idle" =>
       tasks # <<>> /\ tasks[1].kind = "flush" /\ tasks[1].put = put_offset
  /\ \A i \in DOMAIN tasks :
       /\ tasks[i].kind = "set_get_buffer" =>
            i = Len(tasks) /\ client.pc = "set_get_buffer"
       /\ helper.have_ring_buffer => tasks[i].kind = "flush"
  /\ client.pc = "get_buffer_set" => tasks = <<>>
  /\ client.pc \in {"set_get_buffer", "get_buffer_set"} => ~helper.have_ring_buffer
  /\ client.then \in {"wrap", "room"} => helper.have_ring_buffer

\* Without a ring nothing is left to flush or to execute.
NothingLeft(s) ==
  /\ s.last_put = s.h.put
  /\ last_state.get_offset = s.h.put
  /\ state_after_last_flush.get_offset = s.h.put
  /\ gpu_pc \in {"publish", "signal"} => service.get_offset = s.h.put
  /\ gpu_pc # "decode"
  /\ \A i \in DOMAIN s.tasks : s.tasks[i].kind = "flush" => i = 1 /\ gpu_pc # "idle"
NothingWithoutRing ==
  IF client.pc = "get_buffer_set"
  THEN service.get_offset = 0 /\ put_offset = 0 /\ last_put_offset = 0
  ELSE NothingLeft(Now)

\* Round the ring, from the get offset that the client knows: the one that was
\* published, the service's, those of the flushes, and put_.
PublishedInOrder ==
  Ahead(last_state.get_offset, state_after_last_flush.get_offset)
    =< Ahead(last_state.get_offset, service.get_offset)
OffsetsInOrder(s) ==
  LET from(x) == Ahead(last_state.get_offset, x)
      get == service.get_offset
  IN /\ from(get) =< from(s.last_put)
     /\ from(s.last_put) =< from(PutOffset(s.h))
     /\ s.last_put = IF s.tasks = <<>> THEN get ELSE s.tasks[Len(s.tasks)].put
     /\ IF gpu_pc \in {"publish", "signal"} THEN put_offset = get
        ELSE s.tasks # <<>> => from(get) < from(s.tasks[1].put)
     /\ \A i, j \in DOMAIN s.tasks : i < j => from(s.tasks[i].put) < from(s.tasks[j].put)
     /\ s.h.put = total_entry_count => s.last_put # 0

\* The entries that may be written without a wait are free, and one stays free.
RoomIsFree(h) ==
  Ahead(last_state.get_offset, PutOffset(h)) + h.immediate < total_entry_count

\* Whole commands, none of which wraps, fill the ring from get to put: the
\* offsets where they start, and the edges between them.
Edge(starts, put, x) == x \in starts \/ x = put
OffsetAfter(i, size) == IF i + size = total_entry_count THEN 0 ELSE i + size
Tiles(starts, ring, get, put) ==
  \A i \in starts :
    LET size == ring[i].size
    IN /\ Ahead(get, i) < Ahead(get, put)
       /\ size > 0
       /\ i + size =< total_entry_count
       /\ Ahead(get, i) + size =< Ahead(get, put)
       /\ Edge(starts, put, OffsetAfter(i, size))
       /\ \A j \in starts : i < j => i + size =< j

\* The service's ring is tiled from its get, and all that was flushed ends at an
\* edge.
CommandsTile(s, starts) ==
  LET put == PutOffset(s.h)
  IN /\ Tiles(starts, s.entries, service.get_offset, put)
     /\ Edge(starts, put, service.get_offset)
     /\ \A i \in DOMAIN s.tasks : Edge(starts, put, s.tasks[i].put)
RingIsTiled(s) == \E starts \in SUBSET Offsets : CommandsTile(s, starts)

\* A wait for the start of the ring ends when the service is past it.
WrapWaitsForStart ==
  client.then = "wrap" =>
    /\ helper.put > 0
    /\ client.start = 1 /\ client.end = helper.put
    /\ client.pc = "return" => last_state.get_offset \in 1 .. helper.put

\* Together: the types, and while no error has happened the order of the offsets,
\* the free room and whole commands from get to put, or nothing left without a ring.
\* Every step keeps it.
IInv ==
  /\ TypeOK
  /\ RoomInRing
  /\ ErrorsArePassedOn
  /\ TasksFollow
  /\ ~IsError(service) =>
       IF helper.have_ring_buffer
       THEN /\ PublishedInOrder
            /\ OffsetsInOrder(Now)
            /\ RoomIsFree(helper)
            /\ RingIsTiled(Now)
            /\ WrapWaitsForStart
       ELSE NothingWithoutRing
  /\ NoParseError

-----------------------------------------------------------------------------
(* What StreamSpec and MemoryReadIsHeld need above it.                     *)

\* A wait for the end waits for put_, which stays.
FinishWaits ==
  client.then = "finish" =>
    /\ client.start = helper.put
    /\ client.end = helper.put
    /\ client.pc = "return" /\ ~IsError(last_state) => last_state.get_offset = helper.put

SetsToken(cmd, token) == cmd.op = "set_token" /\ cmd.arg = token

\* The block that a command of u reads is in use, or waits for a token that u sets
\* after the command.
ReadsComeFirst(u, b) ==
  \A i \in DOMAIN u :
    u[i].op = "read" =>
      \E block \in BlocksOf(b) :
        /\ block.offset = u[i].arg
        /\ \/ block.state = "IN_USE"
           \/ /\ block.state = "FREE_PENDING_TOKEN"
              /\ \E j \in DOMAIN u : i < j /\ SetsToken(u[j], block.token)

\* Only the newest block is in use, and a command that waits for room reads it.
NewestInUse ==
  /\ \A i \in DOMAIN transfer.blocks :
       transfer.blocks[i].state = "IN_USE" =>
         i = Len(transfer.blocks) /\ client.cmd.op # "alloc"
  /\ client.cmd.op = "read" =>
       InUse(transfer) /\ client.cmd.arg = transfer.blocks[Len(transfer.blocks)].offset

\* The tokens that u sets grow, from above low to below next.
TokensGrow(u, low, next) ==
  /\ low < next
  /\ \A i \in DOMAIN u :
       u[i].op = "set_token" =>
         /\ low < u[i].arg /\ u[i].arg < next
         /\ \A j \in DOMAIN u : i < j /\ u[j].op = "set_token" => u[i].arg < u[j].arg

\* InsertToken is in the Finish that follows a token which wrapped to 0.
Wrapping == client.cmd.op = "set_token" /\ (client.pc = "finish" \/ client.then = "finish")

\* What is above all tokens that were set, while the client is at a command.
NextToken(op, token) ==
  IF op # "set_token" THEN token + 1 ELSE IF token # 0 THEN token ELSE TokenLimit

\* The service reads tokens in the order of their numbers and publishes them late.
\* The order breaks only where the token wraps, and then all is executed first.
TokensInOrder ==
  /\ client.pc = "ready" => client.cmd = Idle
  /\ client.cmd.op = "set_token" => client.cmd.arg = helper.token
  /\ IF Wrapping
     THEN /\ helper.token = 0
          /\ IF Unexecuted = <<>> THEN service.token = 0
             ELSE SetsToken(Unexecuted[Len(Unexecuted)], 0)
     ELSE /\ state_after_last_flush.token =< service.token
          /\ TokensGrow(Unexecuted, service.token, NextToken(client.cmd.op, helper.token))

\* Where the published get offset is the service's, so is the token.
TokenIsPublished ==
  ~helper.have_ring_buffer \/ state_after_last_flush.get_offset = service.get_offset =>
    state_after_last_flush.token = service.token

\* A wait for a token is for the oldest block, and ends when that has passed.
OldestAwaited ==
  client.pc = "flush_token" \/ client.then = "token" =>
    /\ Head(transfer.blocks).token = client.start
    /\ client.start =< helper.token
    /\ client.then = "token" => client.end = helper.token
    /\ client.pc = "return" => client.start =< state_after_last_flush.token

MemoryIsKept ==
  /\ ReadsComeFirst(Unexecuted, transfer)
  /\ NewestInUse
  /\ TokensInOrder
  /\ TokenIsPublished
  /\ OldestAwaited

\* All of it: while no command is lost the memory that is read is kept.
MInv ==
  /\ IInv
  /\ FinishWaits
  /\ ~IsError(service) /\ ~dropped => MemoryIsKept

-----------------------------------------------------------------------------
(* Liveness, and what the code asserts. *)

\* A client that waits for room, for a token or for the end goes on.
CallsReturn == client.pc # "ready" ~> client.pc = "ready"

\* A command is given up only if the context is lost.
NothingDropped == ~dropped
=============================================================================
