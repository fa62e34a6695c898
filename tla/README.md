# A TLA+ model of aurora_os

aurora_os is a capability-based microkernel for x86-64 multiprocessors, written
in Rust, with a small userland. This directory holds TLA+ modules translated
from its source, the TLC configurations that check them on small instances and
TLAPS proofs for every instance size.

## 1. The system and its parts

| part | source (`src/kernel/src` unless noted) | module |
|---|---|---|
| scheduler: status words, ready list, timeout queue, context switch, thread syscalls | `sched/`, `syscall/thread.rs` | `Sched` |
| timer and exit interrupts, end of interrupt | `int/mod.rs`, `int/apic` | `Sched` (two vectors) |
| thread groups | `sched/thread_group.rs` | `ThreadGroups` (the tree, its locks), `Sched` (kills) |
| physical memory: lock-free buddy tree | `alloc/pmem_manager` | `PmemAllocator`, `Blocks` |
| channels and replies | `cap/channel`, `syscall/channel.rs` | `Channel` |
| copying a message with its capabilities | `cap/memory/memory_writer.rs`, `cap/channel/capability_writer.rs` | `Transfer` |
| event pools, broadcast emitters, drop checks | `event`, `cap/drop_check.rs` | `Events` |
| memory objects, address spaces | `cap/memory`, `cap/address_space.rs` | `Memory` |
| page tables | `vmem_manager` | `PageTable` |
| capability spaces, `Arc` and `Weak` | `cap/capability_space.rs`, `container/arc.rs` | `CapSpace` |
| heap of the kernel and of a program | `alloc/linked_list_allocator.rs`, `src/userland/aurora_core/src/allocator/mod.rs` | `Heap` |
| intrusive list the heaps use | `src/userland/bit_utils` | `IntrusiveList` |
| address space manager, threads, process start | `src/userland/aurora_core` | `UserSpace` |
| reading events out of a pool | `src/userland/sys/src/events.rs` | `EventParser` |
| async executor and rpc service loop | `src/userland/asynca`, `src/userland/arpc` | `Executor` |
| serialisation of messages | `src/userland/aser` | `Codec` |
| everything else | | see "Not modelled" |

Everything that blocks meets in the scheduler. A channel, an event pool, an
emitter or the timeout queue holds a `ThreadRef`, a weak pointer with the
generation of the suspension it may end; `get_thread_as_ready` compares that
generation with the thread's status word and wakes the thread by a
compare-and-swap. `Sched` has that protocol whole. The modules of the objects
that block a thread (`Channel`, `Events`) keep of it what they use: whether the
thread waits, and in which generation. A message then passes through `Codec`
(bytes), `Channel` (who gets it), `Transfer` (the copy) or `Events` (the pool),
`EventParser` and `Executor`. Memory goes from `PmemAllocator` (frames) to
`Memory` and `PageTable` (mappings) to `UserSpace` and `Heap` (a program's use
of them); `CapSpace` and `ThreadGroups` say how long objects and threads live.

A step of a model is a stretch of code up to its next access to state another
actor uses: one atomic instruction in `Sched`, `PmemAllocator` and `CapSpace`,
one lock hold in the others.

**Conventions.** A failed `unwrap`, `expect` or assertion ends the model's
kernel (or the cpu, or the process) in a marked state; the invariants say which
of these states are reachable. Variables marked *history* in their declaration
are read by no action's guard. Deadlock is not checked in runs whose bounds stop
the instance; in `pmem_two` and `pmem_three` nothing is bounded and it is
checked.

## 2. `Sched`

**State.** `gen` and `state` are the two halves of `Thread::status`; `alive`,
`wakeReason` are fields of `Thread`; `where` is the call it continues in. `ready` is `ThreadMap::ready_threads`, `timeouts` the `TimeoutQueue`,
`tqLock` its lock, `waits` the references held by all channels, pools and
emitters together, `members` the thread lists of the groups, `groups` the groups
somebody still has a reference to. Each cpu has its
`current_thread` (`cur`), a label (`pc`) and the locals of the kernel code it is
in. `ipi` and `isr` are the two bits of the local apic that matter: an exit
interrupt is pending, some interrupt of the class is in service. `wokenBy` and
`spared` are history variables.

**Steps.** Kernel code runs with interrupts off, so one cpu is sequential.
`switch_current_thread_to` is five actions: `GetNextThread` (or
`NoAvailableThreads`), `SetOldState`, `SwitchToNew` (the new thread's state, the
cpu's current thread, the stack), `PostSwitchHandler` and, under the timeout
queue's lock, `SetTimeout`. `get_thread_as_ready` is `GetThreadAsReady` or
`DropStaleRef` followed by `InsertWoken`; while the reference is ahead of the
thread neither is enabled, which is the code's spin loop. The timer interrupt
takes the queue's lock, wakes what has expired and preempts. The syscalls are
`ThreadYield`, `ThreadSuspend`, `WaitForEvent` (every call that leaves a
reference and blocks), `Signal` (every call that ends a wait), `ThreadResume`,
`ThreadDestroyOther`, `ThreadDestroySelf`, `ThreadNew` and `ThreadGroupExit`.

A group is emptied in two ways. `exit` kills the members one by one (`ExitInner`),
interrupts the other cpus (`ExitFinish`), drops its own reference (`ReleaseGroup`,
or `ReleaseLast` when it was the last, which empties the group once more) and
switches away for good if the caller was a member (`LeaveExit`). `Drop` for
`ThreadGroup` does the same work at whatever point the last reference goes: in a
system call, with a dead thread (`ThreadGroupDrop`), or with a thread that another
exit is killing (`ExitInnerDrops`). It throws the answer of `exit_inner` away, so a
thread that drops its own group runs on until its cpu next switches; the comment
at `thread_group.rs:207` says so. Such a thread is in `spared`.

**Abstractions.** Time is left out: a timeout may expire as soon as it is
registered. Which object holds a reference does not matter to the scheduler, so
all are in `waits`. Not modelled here: allocation failure, nested thread groups
(`ThreadGroups`), thread-local storage, device interrupts.

**Bounds.** `GenBound` stops operations on a thread whose generation has reached
it. 3 lets each thread block, be woken and run again; 6 lets it do so twice,
which is what a stale reference needs. Where two cpus would be too many states the
bound is lower for an idle thread or two: it is preempted once and then stays where
it is put (`BoundOnce`, `BoundSpin`, `BoundKill`). `Droppable` are the groups whose
last reference may go; `sched_spin` has none, since a drop wakes nobody. Two cpus and two user
threads are enough for every pair of racing operations, with an idle thread to
race for. The safety runs use `View`, which drops locals of a cpu at labels that
no longer read them and the resume point of a thread that is on a cpu.

**Fairness.** `FairSpec` adds strong fairness for the kernel steps of each cpu
and for the delivery of its exit interrupt. A cpu in the kernel is never
descheduled, so it takes its next step; a spin lock is contended for finitely
often, which is what strong (rather than weak) fairness grants; and an
unmasked pending interrupt is delivered, the exit vector before the timer.
Nothing is assumed of user code or of the timer.

| run | instance | shows |
|---|---|---|
| `sched_two` | 2 cpus, 2 threads | running threads and cpus correspond, a Ready thread has one place, a reference names one suspension, a wake reason is the right one, a killed thread's cpu is interrupted, a switch finds a thread unless another cpu is switching, only its cpu takes a thread out of Running |
| `sched_one` | 1 cpu, 2 groups, fair | a killed thread stops, unless it is spared |
| `sched_spin` | 2 cpus, fair | the spin of `get_thread_as_ready` ends |
| `sched_stack` | 2 cpus, violated | a thread woken while it is switched out runs on two cpus |
| `sched_kill_two` | 2 cpus, 2 groups, fair, violated | a missing end-of-interrupt keeps a killed thread running |

The last two are disagreements between the code and what the repository says of
it; `PROJECT.json` quotes the lines. Both are about windows that exist only
between cpus, and two panics have the same cause:

- `thread_yield` and the blocking calls expect that "the idle thread should always
  ba available" (`syscall/thread.rs:128`). A switch takes a thread out of the ready
  list before it puts the old one back, so a second cpu can find the list empty.
  `IdleAvailable` says that this is the only way: it excepts the moments at which
  another cpu is between the two.
- `ThreadRef::new` "panics if the given thread is not suspended". A thread suspends
  itself with a timeout on one cpu; after `set_state` (`sched/mod.rs:154`) and
  before `post_switch_handler` makes the reference (`thread.rs:250`) a second cpu
  resumes it; the assertion fails. `SetTimeout` has the panic as a label; no
  property excludes it. On one cpu nobody runs in between.

### Proofs (`SchedProofs`, `SchedWakes`)

All are for any finite set of cpus, any threads and groups and any bound, from
`SchedAssumption` alone unless a hypothesis is named.

**`SchedProofs`: where a thread is.** `TypeCorrect`, `OneOwner` (Running threads
and owning cpus correspond), `OneSchedule` (a Ready thread has at most one place),
`NoLostWake` (and at least one, while it lives) and `OwnerLeavesRunning`.

The inductive invariant is `SchedInv == TypeOK /\ Started /\ Placed`. `Placed`
is `RunningOwned`, `ScheduledOnce` and `NoLostThread` together: each needs the
others (a thread may be queued only because no cpu owns it, and it has an owner
only because it was taken out of the queue). `Started` is needed for the idle
threads: they begin with the status (0, Suspended) while running, so the proof
must know that no reference and no switched-out thread is at generation 0, or a
wake-up could mistake a running idle thread for a suspended one. `WakeStep` is
the heart: a compare-and-swap from Suspended to Ready creates exactly one place
for a thread that had none.

**`SchedWakes`: what becomes of a suspended thread.** `StaleRefsNeverMatch`
(`RefNamesSuspension`), `WokenWithReason` (`ReasonMatches`) and `KillReachesCpu`
(`KilledIsInterrupted`) hold on any number of cpus. The invariant is `WakeInv`,
which adds to `SchedInv`:

- `SwitchInv`: what a switch may ask for. An idle thread is never killed, never
  asks to suspend, and after its first switch is always Running or Ready.
- `RefInv`: a reference is at most one generation ahead of its thread. If it is
  ahead, the thread is on its way to suspend itself on some cpu; if it is level,
  the thread is Suspended. References a cpu holds while it wakes somebody count
  too, which is what makes `RefNamesSuspension` inductive.
- `ReasonInv`: the wake reason of a thread is right from the moment it is queued,
  through the hands of the cpu that pops it, to its return; a cpu that is between
  the compare-and-swap and the insertion still holds it.
- `KillInv`: as `KilledIsInterrupted`, but for the thread a cpu is about to run,
  in every label of a switch. An exit that has marked a thread dead has not sent
  its interrupts yet, so either the cpu sees the thread dead before it takes it or
  the interrupt finds it there. A spared thread is the exception, until its cpu
  takes the next one.

The steps are first sorted into three kinds (`StepOf`: a step that touches a
status word or a queue, a request to switch, a quiet step), so that each part of
the invariant has a lemma for each kind and not for each action.

`IdleIsQueued` (`IdleAvailable`) follows from the same invariant by counting, for
any finite number of cpus. If the ready list has nobody alive and no other cpu is
in a switch, every idle thread runs (`SwitchInv`, and `NoLostWake`: one that is
Ready is queued). Then each of the cpus runs an idle thread, and no cpu is left for
the user thread that asks.

## 3. `PmemAllocator`

**State.** `tree` holds the status byte of every node of the buddy tree, a set of
the five flags of `TreeStatus`. `free` is `free_space`. `live` counts, for each
block, the allocations callers hold: it is what the rest of the kernel sees.
Each caller has a label and the locals of the call it is in.

**Steps.** The tree has no lock; one action is one load, store,
`compare_exchange` or `fetch_update` of a byte, with the local computation around
it. `alloc` is `Alloc`, `CheckFree`, `TryAlloc`, `MarkParent` per ancestor,
`Advance` over the candidates, and `AfterDealloc` when a busy ancestor makes it
undo its marks. `dealloc` is `Dealloc`, then the two passes of `dealloc_node`
(`SetCoal` up, `DeallocNode` on the block, `ClearStart` and `ClearCoal` up) and
`AddFree`. `realloc_in_place` is `StartRealloc` and either `GrowNode` up and
`CleanNode` down, or `ShrinkNode` with its stores. A caller only releases or
resizes what it was handed.

**Refinement.** `Blocks` says what an allocator promises: a block is handed out
only if none of its pages is held, and given back only by a holder. `Refines`
checks that alloc and dealloc of two callers implement it.

**Bounds.** Sizes are in units of the smallest block. Depth 2 (4 blocks) has a
root, a middle level and leaves, so a climb has a node of each kind; depth 3 is
used where one caller keeps the state space small. Nothing else is bounded.

**Fairness.** `FairSpec` is the specification of callers that never resize
(`PlainNext`), with weak fairness for the steps of a caller inside a call: a cpu
in the kernel goes on. `Returns` therefore says that the retries end.

| run | instance | shows |
|---|---|---|
| `pmem_two` | 2 callers, depth 2, fair | `Refines`, `BlockHeldOnce`, every call returns |
| `parts`, part "shrink" | 1 caller, depth 3, shrinking | blocks are disjoint, the idle tree is exact, `None` means full |
| `parts`, part "grow" | 2 callers, depth 1, growing | growing a leaf races an allocation of its buddy |
| `pmem_three` | 3 callers, violated | a second release re-arms the coalesce bit of a first one, and blocks overlap |

The instances are chosen around what holds. Elsewhere TLC finds: with two callers
a release whose side was taken again can leave the root occupied with nothing
allocated (`TreeExact`); a refused grow of a right child rolls back into its
neighbour (`NoOverlap`, one caller, depth 2, growing); a shrink overwrites a
concurrent allocation (`NoOverlap`, two callers, shrinking). `realloc_in_place`
never updates `free_space`, which therefore drifts; the allocator itself never
reads it, and the view of `parts` hides it.

### Proof (`PmemProofs`)

`HeldOnce`: for any callers, depth and sizes, when only alloc and dealloc are
used, no block has two live allocations. `pmem_three` shows that disjointness of
different blocks fails with three callers, so this is the strongest statement of
its kind that is true of the code. The inductive invariant adds `BitIsLock`: the
OCCUPY bit of a node is set exactly when one party answers for the block, which
is the allocation, a caller on its way up after taking it, or a caller on its way
to release it. Only `TryAlloc` sets the bit, by compare-and-swap, and only
`DeallocNode` clears it.

## 4. `Channel` and `Transfer`

**State.** `senders` and `receivers` are the two queues of `ChannelInner`, `lock`
its lock. An entry is a `ChannelSenderRef` or `ChannelRecieverRef`: its owner, the
generation of the wait it can end (0 for the calling thread itself and for event
pools, where nothing has to be woken), and whether it is a call or wants to be
queued again. `replies` are the reply capabilities that were handed to receivers,
`using` the ones a thread has looked up, `fired` the `reply_fired` flags. `th`
is what `Sched` is for this module: state, generation, ready list, wake reason.
`spaces` are the threads whose capability space can still be upgraded, with the
event pools in it; `gone` says up to which operation of a thread the memory behind
its buffers has been destroyed. `do_send` upgrades the space of both sides, the
sender's buffer and the receiver's (`Exist`), and a reply the caller's
(`ReplyTarget`). A thread's buffers are in one memory at a time.
`got`, `answered` and `told` are history. A message is named by its sender and the
number of its operation; what a synchronous entry delivers is what `buffer` holds
when the entry is reached, as in the code.

**Steps.** `Start` takes the lock and each operation (`TrySend` ... `AsyncRecv`)
is one pass of its loop: the other queue is empty and it gives up, queues itself
or blocks; or it pops an entry and `do_send` fails (`DoSendFails`) or succeeds
(`DoSend`, with `acknowledge_send` and the reply). While an entry's owner has not
suspended itself yet neither is enabled: the spin of `get_thread_as_ready`.
`Suspend`, `Timeout` and `Resume` are the scheduler's side. A reply is found
(`GetReply`) and used (`Reply`) in two steps, so two threads can hold the same
one. `WriteFails` lets copies and event writes fail, which they do for a bad range
or for want of memory. A channel, a reply and a thread can go away at any time,
and so can the memory of a buffer (`DropMemory`): a queue entry and a reply hold
only a weak reference to it. `channel_sync_send` is an exception: it keeps its
references on the stack while it is blocked (`syscall/channel.rs:113-127` drops
only the channel), so the memory lasts, and is never released if the thread is
killed there.

**Bounds and fairness.** `Limit` bounds the operations a thread starts. Two per
client let a late reply or a stale queue entry meet the same thread's next
operation. Kernel steps are weakly fair. The server is assumed to start another
receive whenever it can (strong fairness, since the lock may be taken now and
then) and its worker to come to each reply it has not used (strong fairness: it
may try used ones in between, which fail).

`Transfer` is the copy that `DoSend` takes as one step: `CopyTo` is one round of
`PlainMemoryCopySrc::copy_to`, which hands a page of the source to the
`CapabilityWriter`, which replaces the ids at the head of the message and writes
through `PlainMemoryWriter`, page by page. The instance has pages of three words
and every alignment of both buffers, every message of up to two capabilities and
four bytes, and every set of capabilities that cannot be cloned.

| run | instance | shows |
|---|---|---|
| `chan_serve` | 2 clients, server, worker, fair | nobody is forgotten, every message is received once, senders and receivers never wait for each other, sends and calls return |
| `chan_all` | 3 threads, all operations, timeouts, failures, exits | acknowledgements are true, a call is answered at most once |
| `parts`, part "transfer" | three pages each | `CopiesWithinPage`: a message that has no seam of a page at its head arrives as sent, cut at the end of the buffer |
| `transfer_pages` | the same, violated | `CopiesMessage`: without that condition it does not |

`NoForgottenWaiter` and `CallsReturn` except a thread whose memory was destroyed
under it: the waker pops it, fails with `InvlWeak` (`channel/mod.rs:343`, `375`,
`reply.rs:47`) and wakes nobody, and the thread sleeps on. Nor is a call promised
an answer: a reply that is dropped, or whose holder is killed, never fires, and the
caller waits for ever. `NoForgottenWaiter` counts such a call as received and not
answered; `CallsReturn` assumes a server that does neither.

Some properties hold only under the constants of `chan_serve`. With timeouts
`DeliveredOnce` fails: an expired sender stays in the queue, is received later,
and reads a buffer that may hold the next message by then. With failing copies
`NoForgottenWaiter` fails: a receiver with a bad buffer pops every waiting sender
and drops it. With automatically requeued receivers `NobodyWaitsBoth` fails:
`async_recv` queues the receiver again (`channel/mod.rs:255`) without looking at
the senders, where `Kernel Events.md:49` in `src/doc` describes otherwise.

### Proofs (`ChannelThreads`, `ChannelEntries`, `ChannelWaiters`, `ChannelDelivery`)

All are for any threads, any choice of operations for each, and any limits.

| theorem | hypothesis | says |
|---|---|---|
| `OneAnswer` | none | a call is answered at most once |
| `AckMeansReceived` | none | a message whose sender was told it was sent has been received |
| `ReceivedOnce` | `NoTimeouts` | a message is received at most once |
| `NoMutualWait` | `NoAutoReque` | one of the two queues is empty |
| `NobodyForgotten` | `NoWriteFails` | whoever blocks without a timeout, in memory that lasts, is in its queue or has a call that was received and whose reply has not fired |

"None" means with timeouts, failing copies, exits, destroyed memory, dropped
replies and a dropped channel. Each hypothesis excludes one thing, and the paragraph above says how
the property fails without it.

`ChannelThreads` says what any step may do to any thread: it keeps its wait
(`KeepsWait`: the thread goes on waiting in the same generation, call, operation
and buffer, or stops waiting), or the thread holds the lock and begins a new wait
(`Blocks`).
`ChannelEntries` proves the invariant the others rest on, `ChannelInv`:

- `HolderInv`: who holds the lock runs, and who waits is in a blocking call, with
  the message of a synchronous send in its buffer;
- `EntryInv`: a queue entry or reply is never ahead of its owner, and one that
  matches its owner's generation is for the operation the owner is in. Entries of
  waits that timed out stay in the queues, and this is what tells them apart;
- `FreshInv`: a message is in one place. It has one entry at most, and no reply
  exists or has fired for a message that is still queued.

`NobodyForgotten` adds that a thread whose space cannot be upgraded is dead and
that destroyed memory is that of past operations, or of the current one only once
the thread has let go of the lock (`MemoryInv`), so that a waker that cannot copy
has met a waiter the property excepts; a reply that fires
wakes its caller in the same step, which needs `FreshInv` (no reply was made for a
call that is still queued). `AckMeansReceived` adds that a reply that would still
wake its caller is for a received message. A timed-out sender may reuse its buffer
while its entry is queued, so that the entry delivers the next message: it is
then not acknowledged, because its generation has passed. `ReceivedOnce` adds that
the owner of a queued entry stays where the entry left it (`Bound`) and that a
received message is neither queued nor about to be (`Gone`). `OneAnswer` and
`NoMutualWait` need little of this: every answer is tied to the flag that is
swapped before it (`AnswerInv`), and no thread is in the one operation that
queues a receiver without finding the senders gone (`QueueInv`).

## 5. `Memory` and `PageTable`

**State.** A memory (`mem`) has a size, its pages (each a frame or still to be
allocated) and its notes of where it is mapped; an address space (`spc`) has the
list of what is mapped where and its page tables. `free` is the number of frames,
which memories and tables share. `cpu` is the second half of a call that takes
two lock holds. `leaked` counts frames that a failing `Vec::extend` lost.

`PageTable` has tables of any depth and width as a function from paths to
tables. A table keeps the number of its present entries, in the code in unused
bits of its first entry, and is given back when that is 0. `MapPage`, `UnmapPage`
and `MapMany` (with its undoing of a half-done job) are operators that `Memory`
applies inside its actions.

**Steps.** `map_memory`, `resize`, `resize_in_place` and the filling of a lazy
page hold the memory's lock and the address space's to the end: one step each.
`address_space_unmap` and `memory_update_mapping` first look the memory up
(`MemoryAtAddr`) under one lock and then take both (`UnmapMemory`,
`UpdateMapping`), and anything can happen between the two. A step is the whole
call with its error paths: tables that were allocated before a failure stay, a
memory that has grown stays grown when its mapping cannot.

**Instance** (`mem_two`). Two memories, one address space with tables of three
levels of two entries, five frames, two addresses whose pages lie in different
tables, a page of physical memory. `MaxLoad` = 4 bounds pages and mappings
together: two mappings with two pages, or three pages mapped once, which is what
losing part of a block needs. Frames run out in every allocation.

Callers map at any of the addresses, also over what is mapped there. The comment of
`memory_map` (`syscall/memory.rs:147`, `164`) says it "will fail if `mem` overlaps
with any other mapped memory". The code compares a mapping with its two neighbours
in the list (`address_space.rs:183-190`), but takes the offset into the memory for
its length (`map_range`, `memory/mod.rs:270`), and `update_mapping_inner` lets a
mapping grow without looking; so it accepts mappings that overlap. Both then claim a
page: it translates to what was entered last, and whichever mapping is unmapped
second finds the page gone and panics. The history variable `mixed` records that two
mappings have met in one page.

| property | says |
|---|---|
| `TranslationsExact` | after every call, complete or failed half way, a page translates to what the lists say, with its permission, until two mappings have met in one page; the tables are sound and counted right even then |
| `FramesExact` | every frame is free, a page, a table, or lost to a failed `extend` |
| `ListsAgree` | memory and address space agree on every mapping, and the memory is long enough for it |
| `PanicsOnlyWhenOvertaken` | the assertions of unmap and update fail only if the mapping was changed between the two lock holds, or two mappings have met in one page |

Three more panics are reachable and excepted: `resize` of a memory whose last block
was rounded up by the allocator, the failing remap of `memory/mod.rs:541` (which
its FIXME names), and a mapping that reaches into the kernel's half, which passes
the check of the list because its length was not looked at and fails the assertion
of `map_page_inner`. The overtaken lookup also has a quieter form, which sets
`mixed` too: `memory_update_mapping` finds another memory at its address, maps the
pages of the first one over it, and when the tables run out unmaps them again
without a panic.

## 6. The parts of `MCParts`

These modules share no state, so `MCParts` checks them in one run, `parts`: an
initial state chooses the part and only that part moves from there on. The parts
take their variables from one stock.

**`Events`.** A pool has two buffers (`mb`, mapped for the reader, and `wb`, being
written), a waiting thread and the mapping of the buffer. `EventPoolAwait` swaps
the buffers or registers the thread; a channel message is written
(`SendToPool`) and announced (`AnnounceSend`) under two lock holds; emitters call
their one-shot and continuous listeners one at a time (`EmitStart`,
`EmitToThread`, `EmitToPool`, `EmitEnd`). Timeouts leave stale listeners behind.
Pool, address space and mapping can go at any time. The instance has buffers of
two pages of seven words, messages of seven or eight words and events of three,
two events, two threads that each wait once: a buffer grows, fills, refuses, is
swapped under a waiter, and is written past its end (`halt`): `ensure_capacity`
compares only the size of the write with the capacity, so a message that starts
near the end of the last page indexes a page that is not there. The same state
stands for the other panic: a swap maps the pages up to the last event, and
`unmap_mapped_buffer` unmaps all pages of the buffer; on one that was never mapped
`unmap_page` panics (`UnmapPanics`). `SleeperIsServed`: no thread sleeps over an event.
`EventsHandedInOrder`: each event is handed out once, in order.
`EmissionReachesAll`: an emission that ran to its end reached every listener.
Three exceptions are in the statements, because the code has them: `wake_listener`
takes the thread out before it tries to swap and forgets it when that fails
(`forsaken`); a swap for a waiter that has timed out skips the events (`stale`);
and a listener that cannot be written ends the broadcast (`failed`).

**`EventParser`.** The layout of events in the buffer and the iterator that takes
them apart, for three events, messages of lengths on both sides of a word.
`ParsesWhatWasWritten` has the condition that no message ends on a word:
`make_aligned` (`events.rs:108`) then skips a whole word, and the next event is
lost or the parser panics with "could not align event parser".

**`CapSpace`.** Maps from ids to references and the counts of `Arc`, one lock hold
or one atomic instruction per step, for one space, one object, two cpus, three
ids. `CountsExact`: at every instruction the counts are what the references in
maps, system calls and unfinished drops add up to, the data goes with the last
strong reference and the memory with the last of all. The mutant replaces the
compare-and-swap of `Weak::upgrade` by an addition. Two cpus that both find
a dead weak capability and destroy it reach the `unwrap` of `capability_space.rs:211`,
whose comment says that the capability was checked to exist; the state is
`broken`.

**`ThreadGroups`.** The lists of the groups, their locks, the references to
groups, and the stack of nested exits and drops of each cpu. A thread holds at most
one capability to a group, which goes with it when it is dropped. Two instances
with two cpus: the root, two groups and two threads created in any order; and a
tree that stands already, g2 in g1 in the root, with a thread in g2 and two in the
root that own g1 and g2. `ExitKillsMembers`: when `exit` returns, the threads that
were in the group or below it are dead, but for those of a group another cpu is
dropping at that moment and for one that a failing `thread_new` took out of its
list. `NoLockCircle`: no cpu waits for a lock it holds, and no cpus wait for each
other in a circle, also when a dying thread held the last reference to a group and
its `Drop` runs under the locks of others, as long as threads hold only groups at
or below their own. `upward` records when one does not; `aurora_core` gives no
process such a capability, but the kernel allows it. Then it does happen, on one
cpu: the thread in g2 is given g1 and becomes its only holder; `exit` of g2 locks
the list of g2 and drops that thread, and with it g1, whose `Drop` descends to g2
and waits for the lock its own cpu holds.

**`UserSpace`.** The sorted region list of a process, its lock, the kernel's
table, thread stacks, and a process being started, for two threads and five
pages. A thread that ends takes its stack out of the list and unmaps it after it
has given up the lock; `transient` makes others wait meanwhile.
`MappingsTracked`: list and table agree up to the stacks on their way out, no
page is mapped twice, running threads have their stacks, and a started process
is told of everything mapped in it. Two things the model has and the property
leaves out: the counter of threads starts at 1 and `spawn` does not count, so the
first thread to call `exit` ends the process, where `thread/mod.rs:228` says "we
are the last thread exiting, exit process"; and `is_region_free` asks only about
the two ends of a region, so explicit addresses in a process being started may
enclose another region.

**`IntrusiveList`, `Heap`.** The list by its pointers, against the sequence it
stands for (`PointersExact`), with cursors and two-ended iterators, for two lists
and three nodes. The heap on top of it with sequences, zones of five chunks, up to
three blocks: `HeapExact`, every byte of a zone is in one free node or one block,
and neighbours are merged. The block's size is computed again from the layout when
it is freed. The alignment is 1: with larger ones that computation disagrees with
what was handed out (`linked_list_allocator.rs:326`, "computes the actual
allocation slice that was returned").

**`Codec`.** Serialisation with its tags, size classes and capability array,
deserialisation, the detour through `Value`, and what happens to capability ids
on the way, for some three hundred data up to three levels deep, with strings and
bytes on both sides of the one-byte and two-byte lengths. Data are bytes, because
lengths, limits and a cut message are about bytes. `ReadsWhatWasSent`: a message
that arrived whole reads as what was sent, every capability the clone of its own;
one that was cut does not read; only a datum with too few slots or a bad capability
is refused, or one with a variant that has the index reserved for capabilities and
is none (`Reserved`): `visit_enum` asks for a u64 there and fails, or takes a number
for an id. The kernel's copy in between is that of buffers that cross no page
boundary; `Transfer` has those that do. The index of a capability is written in
sixteen bits (`ser.rs:311`) as in the code, but 65536 capabilities in a message are
beyond the instance.

**`Executor`.** The task map, ready queue, wakers, event waiters and receivers of
`asynca`, under one rpc service that selects between calls and the client's end
and spawns a task for each asynchronous call; for three calls, one asynchronous.
`AsleepOnlyWithWaiters`: when the executor goes to sleep, its tasks have taken all
that is in their receivers and have a waiter for all they still wait for, and each
call that was made is answered, still in the pool, has its task in the map, or is in
`lost`. That last set is what this code's assumptions cost, and it has three sources
and no other:

- a receiver has room for one event, and a second call in the same batch replaces
  the first (`executor.rs:142`);
- `TaskId::new` (`task.rs:23`) loads its counter and never moves it, so a task
  spawned for an asynchronous call replaces the service in the map, and later calls
  find nobody to receive them;
- when the client's end is seen in the same poll that spawns a task, the service is
  done and its id, which is the task's now, is removed.

An id can also be in the ready queue whose task is gone: a call and the end of the
client in one batch queue it twice, the first poll ends the task, and the second
fails the `expect` at `executor.rs:114` (`StrayId`).

### Proof (`ExecutorProofs`)

`NoLostWakeUp`: `AsleepOnlyWithWaiters` for every set of calls, synchronous and
asynchronous. The inductive invariant says: there is one task id; a future that
was not polled has registered nothing; a spawned task has replaced the service;
the stream's waiter, once registered, stays; and a live task is in the queue, or
it has taken what was dispatched and each event it awaits has a waiter with its
id (`IInv`). A second layer, `CInv`, follows the calls: one that was made and is
neither answered nor lost is in the pool, in the batch being dispatched, in the
receiver, or has its task in the map; the batch is empty outside the dispatch, and
only a service that is in the map has a stream or a call in its receiver, so at the
time of sleep the middle two are ruled out. The proof has one step per action.

## 7. What is proved and what is model-checked

Sixteen theorems hold for every value of the constants that meets their
hypotheses: nine about the scheduler, one about the allocator, five about channels
and one about the executor. With them every safety property of `sched_two`,
`chan_serve` and `chan_all` is proved. The
inductive invariants were checked by TLC on the instances of these runs first.

Only model-checked are: liveness (`KilledStops`, `SpinEnds`, `Returns`,
`CallsReturn`), which needs fairness and ENABLED; what the recursive functions of
`Codec` compute, which needs induction over data; `Refines` and the allocator's
`NoOverlap` and `TreeExact`, which hold only for the number of callers given (see
section 3) and would need that number in their invariant; and the invariants of
`Memory`, `Transfer` and the modules of `parts`.

Each property of a passing run has a mutant: a definition changed the way a
plausible mistake in the code would change it, for which TLC finds the property
violated. `PROJECT.json` lists them, with the source lines of every definition and
the hazards each property is about.

## 8. Not modelled

- *Capability allocator.* Only the root of its tree is ever made, so the tree, its
  dead nodes and depth limit are code no program reaches. What is left is one
  counter under one lock.
- *User interrupts, ports, boot, ACPI, GDT/IDT, timers.* Register programming and
  straight-line set-up. What an interrupt does to its listeners is the broadcast
  of `Events`; what boot leaves is `Init` of the modules.
- *System call entry, tracing, bindings.* Marshalling without state.
- *Containers other than `Arc`, `Weak` and the intrusive list; `MessageVec`;
  thread-local destructors.* Sequential code with unit behaviour.
- *Servers.* Device access and start-up code.
- *Allocation failure* in `Sched`, `Channel` and `ThreadGroups` (except a full
  capability space); it is modelled in `Memory`, `CapSpace` and `Events`.
- *Copy-on-write pages* (nothing creates them), huge pages (only the kernel's own
  mapping at boot), flushing the tlb.
- *Composition.* `Channel` and `Events` keep an abstraction of the scheduler
  instead of extending `Sched`: two cpus inside `Sched` already fill what TLC can
  search, and `RefNamesSuspension` is what they rely on.
