------------------------------- MODULE Events -------------------------------
(***************************************************************************)
(* An event pool, the emitters that write into it, and the threads that    *)
(* wait on either: event/event_pool.rs, event/broadcast_event_emitter.rs,  *)
(* cap/drop_check.rs and the system calls on them.                         *)
(*                                                                         *)
(* A pool has two buffers.  Events are written into one; the other is      *)
(* mapped in the address space of the process that reads it.  When a       *)
(* thread waits, a write swaps the buffers and wakes the thread.  Channel  *)
(* messages are written and announced under two separate lock holds.       *)
(* Sizes are counted in words.                                             *)
(***************************************************************************)
EXTENDS Integers, Sequences, FiniteSets, TLC, SequencesExt, FiniteSetsExt

CONSTANTS
  Threads,       \* threads that may wait
  Emitters,      \* drop checks and threads whose end is announced
  Senders,       \* threads in the middle of sending a message to the pool
  PageWords,     \* words of a page
  MaxPages,      \* max_size of the pool, in pages
  EventWords,    \* size of an emitted event
  MessageWords,  \* sizes of messages, without the four words of header
  MaxEvents,     \* bound: events written
  MaxWaits,      \* bound: times a thread waits
  MaxListeners,  \* bound: listeners of an emitter
  None

VARIABLES
  pool,     \* EventPoolInner, whether it exists and whether its space does
  thr,      \* what a thread waits for, and in which generation
  em,       \* the emitters
  snd,      \* senders that have written a message and not yet woken anybody
  next,     \* history: number of the next event
  got,      \* history: the events handed to threads, in order
  stale,    \* history: a listener was found that no longer waited
  forsaken, \* history: threads taken from the pool by a wake up that failed
  halt      \* why the kernel stopped

evVars == <<pool, thr, em, snd, next, got, stale, forsaken, halt>>

(***************************************************************************)
(* EventBuffer::new.                                                       *)
(***************************************************************************)
NewBuffer == [pages |-> 0, off |-> 0, ev |-> <<>>]

(***************************************************************************)
(* EventPool::new.  shown is how many pages of the mapped buffer really    *)
(* are mapped.                                                             *)
(***************************************************************************)
NewPool ==
  [alive |-> TRUE, mapped |-> FALSE, space |-> TRUE, waiter |-> None, isMapped |-> TRUE,
   shown |-> 0, mb |-> NewBuffer, wb |-> NewBuffer]

(***************************************************************************)
(* BroadcastEventEmitter::new; none before the drop check exists.          *)
(***************************************************************************)
NewEmitter(st) == [st |-> st, once |-> <<>>, cont |-> <<>>, failed |-> FALSE]

Ready == [gen |-> 0, on |-> None]

EvInit ==
  /\ pool = NewPool
  /\ thr = [t \in Threads |-> Ready]
  /\ em = [e \in Emitters |-> NewEmitter("none")]
  /\ snd = {}
  /\ next = 1 /\ got = <<>> /\ stale = FALSE /\ forsaken = {} /\ halt = FALSE

Halted == halt' = TRUE /\ UNCHANGED <<pool, thr, em, snd, next, got, stale, forsaken>>

-----------------------------------------------------------------------------
(* Writing into a buffer                                                   *)

RoundUp(n, k) == ((n + k - 1) \div k) * k

(***************************************************************************)
(* ensure_capacity.  Only the size of the write is compared with the       *)
(* present capacity.                                                       *)
(***************************************************************************)
OutOfCapacity(b, n) == RoundUp(b.off + n, PageWords) > MaxPages * PageWords

PagesFor(b, n) ==
  LET present == b.pages * PageWords IN
  IF n <= present THEN b.pages
  ELSE Min({Max({2 * present, RoundUp(b.off + n, PageWords)}), MaxPages * PageWords})
         \div PageWords

(***************************************************************************)
(* EventBufferWriter::write_region: the words it reports as written.  Past *)
(* the first page it no longer subtracts what has been written, so it only *)
(* stops at the end of the region when that falls on the end of a page.    *)
(***************************************************************************)
Written(b, off, n) ==
  LET room  == b.pages * PageWords - off
      first == PageWords - (off % PageWords)
  IN  IF room = 0 THEN 0
      ELSE IF n <= first THEN n
      ELSE IF n >= PageWords /\ (n - first) % PageWords = 0 /\ n <= room THEN n
      ELSE room

(***************************************************************************)
(* EventBuffer::write_event.                                               *)
(***************************************************************************)
WriteEvent(b, id) ==
  LET grown == [b EXCEPT !.pages = PagesFor(b, EventWords)]
      w     == Written(grown, b.off, EventWords)
  IN  [grown EXCEPT !.off = @ + w, !.ev = Append(@, [id |-> id, whole |-> w = EventWords])]

(***************************************************************************)
(* EventBuffer::write_channel_event: four words of header, the count of    *)
(* capabilities, the rest of the message.  A pointer to the fourth and to  *)
(* the fifth word is taken by indexing the pages.                          *)
(***************************************************************************)
HeaderWords == 4

ChannelEventPanics(b, n) ==
  LET pages == PagesFor(b, HeaderWords + n) IN b.off + HeaderWords >= pages * PageWords

WriteChannelEvent(b, id, n) ==
  LET grown == [b EXCEPT !.pages = PagesFor(b, HeaderWords + n)]
      w     == HeaderWords + 1 + Written(grown, b.off + HeaderWords + 1, n - 1)
  IN  [grown EXCEPT !.off = @ + w, !.ev = Append(@, [id |-> id, whole |-> w = HeaderWords + n])]

-----------------------------------------------------------------------------
(* Swapping the buffers                                                    *)

Mapped(p) == p.mapped /\ p.space

(***************************************************************************)
(* unmap_mapped_buffer unmaps every page of the buffer, also the ones      *)
(* behind the last event, which the swap has not mapped; unmap_page panics *)
(* on them, or returns None and is expected not to.                        *)
(***************************************************************************)
UnmapPanics(p) == p.isMapped /\ p.mb.pages > p.shown

UnmapMappedBuffer(p) ==
  [p EXCEPT !.isMapped = FALSE, !.shown = 0, !.mb.off = 0, !.mb.ev = <<>>]

(***************************************************************************)
(* Mutant: the events of the old buffer stay in it.                        *)
(***************************************************************************)
SwapKeepsOld(p) ==
  [p EXCEPT !.isMapped = TRUE, !.mb = p.wb, !.wb = p.mb,
            !.shown = RoundUp(p.wb.off, PageWords) \div PageWords]

(***************************************************************************)
(* swap_buffers, when everything can be mapped.                            *)
(***************************************************************************)
SwapBuffers(p) ==
  LET u == UnmapMappedBuffer(p) IN
  [u EXCEPT !.isMapped = TRUE, !.mb = p.wb, !.wb = u.mb,
            !.shown = RoundUp(p.wb.off, PageWords) \div PageWords]

(***************************************************************************)
(* map_many fails: the old buffer is unmapped, nothing is swapped.         *)
(***************************************************************************)
SwapFails(p) == UnmapMappedBuffer(p)

Handed(buffer) == [i \in DOMAIN buffer.ev |-> buffer.ev[i].id]

(***************************************************************************)
(* move_to_ready_list of a reference: the thread still waits in that       *)
(* generation, or nothing happens.                                         *)
(***************************************************************************)
IsWaiting(ref) == thr[ref.t].on # None /\ thr[ref.t].gen = ref.gen

Wake(t) == [thr EXCEPT ![t].on = None, ![t].gen = @ + 1]

(***************************************************************************)
(* wake_listener of pool p: the waiter is taken before anything can fail.  *)
(***************************************************************************)
Forsake(p) ==
  forsaken' = IF p.waiter # None /\ IsWaiting(p.waiter) THEN forsaken \cup {p.waiter.t}
              ELSE forsaken

WakeListener(p) ==
  LET q == [p EXCEPT !.waiter = None] IN
  IF p.waiter = None THEN pool' = p /\ UNCHANGED <<thr, got, stale, forsaken, halt>>
  ELSE IF ~Mapped(p) THEN pool' = q /\ Forsake(p) /\ UNCHANGED <<thr, got, stale, halt>>
  ELSE IF UnmapPanics(p) THEN halt' = TRUE /\ pool' = q /\ UNCHANGED <<thr, got, stale, forsaken>>
  ELSE \/ /\ pool' = SwapBuffers(q)
          /\ IF IsWaiting(p.waiter)
             THEN thr' = Wake(p.waiter.t) /\ got' = got \o Handed(p.wb) /\ UNCHANGED stale
             ELSE stale' = TRUE /\ UNCHANGED <<thr, got>>
          /\ UNCHANGED <<forsaken, halt>>
       \/ /\ pool' = SwapFails(q) /\ Forsake(p)
          /\ UNCHANGED <<thr, got, stale, halt>>

-----------------------------------------------------------------------------
(* System calls of the pool                                                *)

Runs(t) == thr[t].on = None

(***************************************************************************)
(* ThreadRef::future_ref of the running thread, and the suspension that    *)
(* follows: nobody can use the reference in between, they spin.            *)
(***************************************************************************)
FutureRef(t) == [t |-> t, gen |-> thr[t].gen + 1]

Sleep(t, on, timed) ==
  /\ thr[t].gen + 2 <= 2 * MaxWaits
  /\ thr' = [thr EXCEPT ![t].gen = @ + 1, ![t].on = [what |-> on, timed |-> timed]]

(***************************************************************************)
(* Mutant: a thread registers itself although there are events.            *)
(***************************************************************************)
AwaitWithoutLooking(t, timed) ==
  /\ pool.waiter = None /\ pool.mapped
  /\ pool' = [pool EXCEPT !.waiter = FutureRef(t)] /\ Sleep(t, "pool", timed)
  /\ UNCHANGED <<got, halt, em, snd, next, stale, forsaken>>

(***************************************************************************)
(* EventPool::await_event.  It is refused while waiting_thread is set,     *)
(* which it stays after a timeout, and when the pool is not mapped.        *)
(***************************************************************************)
AwaitEvent(t, timed) ==
  /\ pool.waiter = None /\ pool.mapped
  /\ IF pool.wb.off > 0
     THEN /\ pool.space
          /\ IF UnmapPanics(pool) THEN halt' = TRUE /\ UNCHANGED <<pool, got>>
             ELSE \/ pool' = SwapBuffers(pool) /\ got' = got \o Handed(pool.wb) /\ UNCHANGED halt
                  \/ pool' = SwapFails(pool) /\ UNCHANGED <<got, halt>>
          /\ UNCHANGED thr
     ELSE /\ pool' = [pool EXCEPT !.waiter = FutureRef(t)] /\ Sleep(t, "pool", timed)
          /\ UNCHANGED <<got, halt>>
  /\ UNCHANGED <<em, snd, next, stale, forsaken>>

(***************************************************************************)
(* event_pool_await, with or without a timeout.                            *)
(***************************************************************************)
EventPoolAwait(t) ==
  /\ Runs(t) /\ pool.alive
  /\ \E timed \in BOOLEAN : AwaitEvent(t, timed)

(***************************************************************************)
(* EventPool::map_event_pool; the pages are only mapped by the first swap. *)
(***************************************************************************)
MapEventPool(p) == [p EXCEPT !.mapped = TRUE]

(***************************************************************************)
(* event_pool_map.                                                         *)
(***************************************************************************)
EventPoolMap ==
  /\ pool.alive /\ pool.space /\ ~pool.mapped
  /\ pool' = MapEventPool(pool)
  /\ UNCHANGED <<thr, em, snd, next, got, stale, forsaken, halt>>

(***************************************************************************)
(* EventPool::unmap, called for its entry in the list of the address       *)
(* space.  A waiting thread is not told.                                   *)
(***************************************************************************)
UnmapEventPool ==
  /\ pool.alive /\ Mapped(pool)
  /\ IF UnmapPanics(pool) THEN Halted
     ELSE /\ pool' = [UnmapMappedBuffer(pool) EXCEPT !.mapped = FALSE]
          /\ UNCHANGED <<thr, em, snd, next, got, stale, forsaken, halt>>

(***************************************************************************)
(* The address space goes, and with it the reference that kept the pool.   *)
(***************************************************************************)
DropAddrSpace ==
  /\ pool.space
  /\ pool' = [pool EXCEPT !.space = FALSE, !.shown = 0]
  /\ UNCHANGED <<thr, em, snd, next, got, stale, forsaken, halt>>

DropPool ==
  /\ pool.alive /\ (~pool.mapped \/ ~pool.space) /\ snd = {}
  /\ pool' = [pool EXCEPT !.alive = FALSE, !.waiter = None,
                          !.mb = NewBuffer, !.wb = NewBuffer]
  /\ Forsake(pool)
  /\ UNCHANGED <<thr, em, snd, next, got, stale, halt>>

(***************************************************************************)
(* The timeout queue wakes the thread; the references to it stay behind.   *)
(***************************************************************************)
TimedOut(t) ==
  /\ thr[t].on # None /\ thr[t].on.timed
  /\ thr' = Wake(t) /\ forsaken' = forsaken \ {t}
  /\ UNCHANGED <<pool, em, snd, next, got, stale, halt>>

-----------------------------------------------------------------------------
(* Messages                                                                *)

(***************************************************************************)
(* do_send and reply_inner write the message into the pool ...             *)
(***************************************************************************)
SendToPool(s, n) ==
  /\ s \notin snd /\ pool.alive /\ next <= MaxEvents
  /\ ~OutOfCapacity(pool.wb, HeaderWords + n)
  /\ IF ChannelEventPanics(pool.wb, n) THEN Halted
     ELSE /\ pool' = [pool EXCEPT !.wb = WriteChannelEvent(@, next, n)]
          /\ snd' = snd \cup {s} /\ next' = next + 1
          /\ UNCHANGED <<thr, em, got, stale, forsaken, halt>>

(***************************************************************************)
(* ... and wake the listener under a second lock hold.                     *)
(***************************************************************************)
AnnounceSend(s) ==
  /\ s \in snd
  /\ snd' = snd \ {s}
  /\ WakeListener(pool)
  /\ UNCHANGED <<em, next>>

-----------------------------------------------------------------------------
(* Emitters                                                                *)

(***************************************************************************)
(* drop_check_new: a drop check and its receiver.  A thread is created     *)
(* with its emitter in the same way.                                       *)
(***************************************************************************)
DropCheckNew(e) ==
  /\ em[e].st = "none"
  /\ em' = [em EXCEPT ![e] = NewEmitter("armed")]
  /\ UNCHANGED <<pool, thr, snd, next, got, stale, forsaken, halt>>

(***************************************************************************)
(* handle_..._sync: the thread itself is the listener.                     *)
(***************************************************************************)
HandleSync(t, e, timed) ==
  /\ Runs(t) /\ em[e].st \in {"armed", "done"}
  /\ Len(em[e].once) < MaxListeners
  /\ em' = [em EXCEPT ![e].once = Append(@, [kind |-> "thread", ref |-> FutureRef(t)])]
  /\ Sleep(t, e, timed)
  /\ UNCHANGED <<pool, snd, next, got, stale, forsaken, halt>>

(***************************************************************************)
(* handle_..._async: the pool is the listener, once or for good.           *)
(***************************************************************************)
HandleAsync(e, auto) ==
  /\ pool.alive /\ em[e].st \in {"armed", "done"}
  /\ Len(em[e].once) + Len(em[e].cont) < MaxListeners
  /\ em' = [em EXCEPT ![e].once = IF auto THEN @ ELSE Append(@, [kind |-> "pool"]),
                      ![e].cont = IF auto THEN Append(@, [kind |-> "pool"]) ELSE @]
  /\ UNCHANGED <<pool, thr, snd, next, got, stale, forsaken, halt>>

(***************************************************************************)
(* The last reference to the drop check (or the thread) goes: emit_event   *)
(* with the lock of the emitter.                                           *)
(***************************************************************************)
EmitStart(e) ==
  /\ em[e].st = "armed"
  /\ em' = [em EXCEPT ![e].st = "emitting"]
  /\ UNCHANGED <<pool, thr, snd, next, got, stale, forsaken, halt>>

(***************************************************************************)
(* Mutant: the first oneshot listener ends the list.                       *)
(***************************************************************************)
PopAllListeners(e) ==
  IF em[e].once # <<>> THEN [em EXCEPT ![e].once = <<>>]
  ELSE [em EXCEPT ![e].cont = Tail(@)]

(***************************************************************************)
(* The next listener: the oneshot ones from the back, then the others.     *)
(* Those are not removed, but an emitter emits once.                       *)
(***************************************************************************)
NextListener(e) == IF em[e].once # <<>> THEN Last(em[e].once) ELSE Head(em[e].cont)

PopListener(e) ==
  IF em[e].once # <<>> THEN [em EXCEPT ![e].once = Front(@)]
  ELSE [em EXCEPT ![e].cont = Tail(@)]

(***************************************************************************)
(* BroadcastEventListener::write_event for a thread.                       *)
(***************************************************************************)
EmitToThread(e) ==
  LET ref == NextListener(e).ref IN
  /\ em[e].st = "emitting" /\ em[e].once \o em[e].cont # <<>>
  /\ NextListener(e).kind = "thread"
  /\ em' = PopListener(e)
  /\ IF IsWaiting(ref) THEN thr' = Wake(ref.t) /\ UNCHANGED stale
     ELSE stale' = TRUE /\ UNCHANGED thr
  /\ UNCHANGED <<pool, snd, next, got, forsaken, halt>>

(***************************************************************************)
(* ... and for the pool: write and wake under one lock hold.  Any error    *)
(* ends the whole emission.                                                *)
(***************************************************************************)
EmitToPool(e) ==
  /\ em[e].st = "emitting" /\ em[e].once \o em[e].cont # <<>>
  /\ NextListener(e).kind = "pool"
  /\ IF ~pool.alive \/ OutOfCapacity(pool.wb, EventWords)
     THEN /\ em' = [PopListener(e) EXCEPT ![e].st = "done", ![e].failed = TRUE]
          /\ UNCHANGED <<pool, thr, next, got, stale, forsaken, halt>>
     ELSE /\ next <= MaxEvents
          /\ next' = next + 1
          /\ WakeListener([pool EXCEPT !.wb = WriteEvent(@, next)])
          /\ IF pool.waiter # None /\ (~Mapped(pool) \/ ~pool'.isMapped)
             THEN em' = [PopListener(e) EXCEPT ![e].st = "done", ![e].failed = TRUE]
             ELSE em' = PopListener(e)
  /\ UNCHANGED snd

EmitEnd(e) ==
  /\ em[e].st = "emitting" /\ em[e].once \o em[e].cont = <<>>
  /\ em' = [em EXCEPT ![e].st = "done"]
  /\ UNCHANGED <<pool, thr, snd, next, got, stale, forsaken, halt>>

-----------------------------------------------------------------------------

EvNext ==
  /\ ~halt
  /\ \/ EventPoolMap \/ UnmapEventPool \/ DropAddrSpace \/ DropPool
     \/ \E t \in Threads : EventPoolAwait(t) \/ TimedOut(t)
     \/ \E s \in Senders, n \in MessageWords : SendToPool(s, n)
     \/ \E s \in Senders : AnnounceSend(s)
     \/ \E t \in Threads, e \in Emitters, timed \in BOOLEAN : HandleSync(t, e, timed)
     \/ \E e \in Emitters, auto \in BOOLEAN : HandleAsync(e, auto)
     \/ \E e \in Emitters : DropCheckNew(e) \/ EmitStart(e) \/ EmitToThread(e)
                             \/ EmitToPool(e) \/ EmitEnd(e)

EvSpec == EvInit /\ [][EvNext]_evVars

-----------------------------------------------------------------------------
(* Properties                                                              *)

WaitsOnPool(t) == thr[t].on # None /\ thr[t].on.what = "pool"

(***************************************************************************)
(* A thread that sleeps on the pool is the registered listener, and it     *)
(* does not sleep over an event: the buffer is empty or a sender is about  *)
(* to announce what it has written.  The exception is a thread that        *)
(* wake_listener took out and could not serve, because the buffers could   *)
(* not be swapped.                                                         *)
(***************************************************************************)
SleeperIsServed ==
  ~halt => \A t \in Threads : WaitsOnPool(t) /\ t \notin forsaken =>
             /\ pool.waiter = [t |-> t, gen |-> thr[t].gen]
             /\ pool.wb.off > 0 => snd # {}

Ids(buffer) == {buffer.ev[i].id : i \in DOMAIN buffer.ev}

(***************************************************************************)
(* Every event is handed out once and in the order of writing.  One that   *)
(* has been written and is neither waiting to be read nor handed out was   *)
(* given to a listener that had stopped waiting.                           *)
(***************************************************************************)
EventsHandedInOrder ==
  /\ \A i, j \in DOMAIN got : i < j => got[i] < got[j]
  /\ Ids(pool.wb) \cap Range(got) = {}
  /\ ~stale /\ pool.alive /\ ~halt => 1 .. next - 1 = Ids(pool.wb) \cup Range(got)

(***************************************************************************)
(* An emission that ran to its end has reached every thread that listened  *)
(* before it; one that failed has not.                                     *)
(***************************************************************************)
EmissionReachesAll ==
  \A e \in Emitters : em[e].st = "done" /\ ~em[e].failed =>
    \A t \in Threads : thr[t].on # None /\ thr[t].on.what = e =>
      \E i \in DOMAIN em[e].once :
        em[e].once[i].kind = "thread" /\ em[e].once[i].ref = [t |-> t, gen |-> thr[t].gen]
=============================================================================
