--------------------------- MODULE ChannelWaiters ----------------------------
(***************************************************************************)
(* Nobody waits for somebody who waits for them, and nobody who waits is   *)
(* forgotten.                                                              *)
(***************************************************************************)
EXTENDS ChannelEntries

-----------------------------------------------------------------------------
(* The two queues                                                          *)

(***************************************************************************)
(* No receiver asks to be queued again (ChannelAsyncRecvFlags).            *)
(***************************************************************************)
NoAutoReque == \A t \in Threads : "async_recv_auto" \notin Ops[t]

(***************************************************************************)
(* No thread is in the operation that would queue a receiver while senders *)
(* are waiting.                                                            *)
(***************************************************************************)
NoAutoCall ==
  /\ call = [t \in Threads |-> call[t]]
  /\ \A t \in Threads : call[t] # "async_recv_auto"

QueueInv == NoAutoCall /\ NobodyWaitsBoth

(***************************************************************************)
(* A call returns or stays what it is; only Start sets it.                 *)
(***************************************************************************)
LEMMA CallEnds ==
  ASSUME NoAutoCall, NEW t \in Threads, call' = call \/ call' = [call EXCEPT ![t] = "none"]
  PROVE  NoAutoCall'
BY DEF NoAutoCall

(***************************************************************************)
(* A thread starts only operations it uses.                                *)
(***************************************************************************)
LEMMA StartStep ==
  ASSUME NoAutoReque, NoAutoCall, NEW t \in Threads, NEW o, NEW timed, Start(t, o, timed)
  PROVE  NoAutoCall'
BY DEF NoAutoReque, NoAutoCall, Start

(***************************************************************************)
(* A pass of an operation's loop takes from one queue or, finding it       *)
(* empty, adds to the other.                                               *)
(***************************************************************************)
LEMMA OperateStep ==
  ASSUME QueueInv, NEW t \in Threads, Operate(t)
  PROVE  QueueInv'
<1>1. ~Receiver(t, 0).auto
  BY Zenon DEF QueueInv, NoAutoCall, Receiver
<1>2. ASSUME NextReceiver(t)
      PROVE  NobodyWaitsBoth' /\ call' = call
  BY <1>2 DEF NextReceiver, QueueInv, NobodyWaitsBoth
<1>3. ASSUME NextSender(t)
      PROVE  NobodyWaitsBoth' /\ call' = call
  BY <1>3 DEF NextSender, QueueInv, NobodyWaitsBoth
<1>4. ASSUME NEW base, ToReceiver(t, base)
      PROVE  NobodyWaitsBoth'
  BY <1>4 DEF ToReceiver, QueueInv, NobodyWaitsBoth
<1>5. ASSUME FromSender(t)
      PROVE  NobodyWaitsBoth' /\ Return(t)
  BY <1>1, <1>5 DEF FromSender, Requeue, QueueInv, NobodyWaitsBoth
<1>6. ASSUME NEW g, QueueSender(t, g) \/ QueueReceiver(t, g)
      PROVE  NobodyWaitsBoth'
  BY <1>6 DEF QueueSender, QueueReceiver, NobodyWaitsBoth
<1>7. ASSUME UNCHANGED queues
      PROVE  NobodyWaitsBoth'
  BY <1>7 DEF queues, QueueInv, NobodyWaitsBoth
<1>8. NobodyWaitsBoth' /\ (call' = call \/ Return(t))
  <2>1. CASE TrySend(t)
    BY <2>1, <1>2, <1>4, <1>7, Zenon DEF TrySend
  <2>2. CASE SyncSend(t) \/ AsyncSend(t) \/ SyncCall(t) \/ AsyncCall(t)
    BY <2>2, <1>2, <1>4, <1>6, Zenon DEF SyncSend, AsyncSend, SyncCall, AsyncCall, Block
  <2>3. CASE TryRecv(t)
    BY <2>3, <1>3, <1>5, <1>7, Zenon DEF TryRecv
  <2>4. CASE SyncRecv(t) \/ AsyncRecv(t)
    BY <2>4, <1>3, <1>5, <1>6, Zenon DEF SyncRecv, AsyncRecv, Block
  <2> QED BY <2>1, <2>2, <2>3, <2>4, Zenon DEF Operate
<1> QED BY <1>8, CallEnds DEF QueueInv, Return

(***************************************************************************)
(* Everything else leaves the queues alone or empties them.                *)
(***************************************************************************)
LEMMA OtherStep ==
  ASSUME QueueInv, NEW t \in Threads,
         \/ Suspend(t) \/ Resume(t) \/ Timeout(t) \/ Reply(t) \/ DropChannel(t) \/ DropMemory(t)
         \/ \E r : GetReply(t, r) \/ DropReply(t, r)
         \/ \E whole : Exit(t, whole)
  PROVE  QueueInv'
<1>1. NobodyWaitsBoth'
  BY DEF Suspend, Resume, Timeout, Reply, DropChannel, DropMemory, GetReply, DropReply, Exit, Unmoved,
         queues, QueueInv, NobodyWaitsBoth
<1>2. call' = call \/ call' = [call EXCEPT ![t] = "none"]
  BY DEF Suspend, Resume, Timeout, Reply, DropChannel, DropMemory, GetReply, DropReply, Exit, Unmoved
<1> QED BY <1>1, <1>2, CallEnds DEF QueueInv

(***************************************************************************)
(* Senders and receivers never wait for each other, whatever times out,    *)
(* fails or exits, as long as no receiver is queued again automatically.   *)
(***************************************************************************)
THEOREM NoMutualWait == NoAutoReque => (Spec => []NobodyWaitsBoth)
<1> SUFFICES ASSUME NoAutoReque
             PROVE  Spec => []NobodyWaitsBoth
  OBVIOUS
<1>1. Init => QueueInv
  BY DEF Init, QueueInv, NoAutoCall, NobodyWaitsBoth
<1>2. QueueInv /\ [Next]_vars => QueueInv'
  <2> SUFFICES ASSUME QueueInv, [Next]_vars
               PROVE  QueueInv'
    OBVIOUS
  <2>1. CASE UNCHANGED vars
    BY <2>1 DEF vars, queues, QueueInv, NoAutoCall, NobodyWaitsBoth
  <2>2. ASSUME NEW t \in Threads, NEW o, NEW timed, Start(t, o, timed)
        PROVE  QueueInv'
    <3>1. NobodyWaitsBoth'
      BY <2>2 DEF Start, queues, QueueInv, NobodyWaitsBoth
    <3> QED BY <2>2, <3>1, StartStep DEF QueueInv
  <2> QED BY <2>1, <2>2, OperateStep, OtherStep, Zenon DEF Next, Kernel
<1>3. QueueInv => NobodyWaitsBoth
  BY DEF QueueInv
<1> QED BY <1>1, <1>2, <1>3, PTL DEF Spec

-----------------------------------------------------------------------------
(* Blocked threads are not forgotten                                       *)

(***************************************************************************)
(* No copy fails.  A receiver's loop that pops a sender whose message      *)
(* cannot be copied leaves it blocked and in no queue.                     *)
(***************************************************************************)
NoWriteFails == ~WriteFails

EntryFor(t, q) == \E e \in Entries(q) : e.owner = t /\ e.gen = th[t].gen

Remembered(t) ==
  \/ call[t] = "sync_recv" /\ EntryFor(t, receivers)
  \/ call[t] \in {"sync_send", "sync_call"} /\ EntryFor(t, senders)
  \/ call[t] = "sync_call" /\ got[Current(t)] > 0 /\ Current(t) \notin fired

(***************************************************************************)
(* Memory that is destroyed is that of past operations, and of the current *)
(* one only after the thread has blocked or returned.                      *)
(***************************************************************************)
MemoryInv ==
  /\ gone \in [Threads -> Nat]
  /\ \A t \in Threads : gone[t] <= count[t] /\ (lock = t => gone[t] < count[t])

ForgetInv ==
  /\ \A t \in Threads : Waiting(t) /\ ~th[t].timed /\ open /\ Backed(Current(t)) => Remembered(t)
  /\ \A t \in Threads : t \notin spaces => th[t].state = "Dead"
  /\ MemoryInv

LEMMA MemoryKept ==
  ASSUME MemoryInv, UNCHANGED <<gone, count>>, lock' = NoThread \/ lock' = lock
  PROVE  MemoryInv'
BY ChannelAssumption DEF MemoryInv

(***************************************************************************)
(* The dead stay dead, so a space that is gone has nobody waiting in it.   *)
(***************************************************************************)
LEMMA DeadStays ==
  ASSUME ChannelInv, ThreadsStep, NEW u \in Threads, th[u].state = "Dead"
  PROVE  th'[u].state = "Dead"
<1>1. CASE KeepsWait(u)
  BY <1>1 DEF KeepsWait
<1>2. CASE Blocks(u)
  BY <1>2 DEF Blocks, ChannelInv, HolderInv, Locked
<1> QED BY <1>1, <1>2 DEF ThreadsStep

(***************************************************************************)
(* What a wait that goes on needs from the step.                           *)
(***************************************************************************)
LEMMA RememberedKept ==
  ASSUME ChannelInv, ChannelInv', NEW u \in Threads, Remembered(u), KeepsWait(u), Waiting(u)',
         \A e \in Entries(receivers) : e.owner = u /\ e.gen = th[u].gen => e \in Entries(receivers'),
         \A e \in Entries(senders) : e.owner = u /\ e.gen = th[u].gen =>
           \/ e \in Entries(senders')
           \/ call[u] = "sync_call" /\ got'[Current(u)] > 0 /\ Current(u) \notin fired',
         \A m \in Msgs : got'[m] >= got[m],
         Current(u) \notin fired => Current(u) \notin fired'
  PROVE  Remembered(u)'
<1>1. /\ Waiting(u) /\ th'[u].gen = th[u].gen /\ call'[u] = call[u] /\ Current(u)' = Current(u)
  BY DEF KeepsWait, Waiting, Current
<1>2. Current(u) \in Msgs
  BY <1>1, MessageOfCall DEF ChannelInv, HolderInv, InCall
<1>3. got[Current(u)] > 0 => got'[Current(u)] > 0
  <2>1. got[Current(u)] \in Nat /\ got'[Current(u)] \in Nat /\ got'[Current(u)] >= got[Current(u)]
    BY <1>2 DEF ChannelInv, ChannelTypes
  <2> QED BY <2>1
<1>4. EntryFor(u, receivers) => EntryFor(u, receivers)'
  BY <1>1 DEF EntryFor
<1>5. EntryFor(u, senders) =>
        \/ EntryFor(u, senders)'
        \/ call[u] = "sync_call" /\ got'[Current(u)] > 0 /\ Current(u) \notin fired'
  BY <1>1 DEF EntryFor
<1>6. PICK m : m = Current(u)
  OBVIOUS
<1> QED BY <1>1, <1>3, <1>4, <1>5, <1>6 DEF Remembered

LEMMA ForgetKept ==
  ASSUME ChannelInv, ChannelInv', ThreadsStep, ForgetInv,
         open' => open, gone' = gone, MemoryInv',
         \A u \in Threads : Blocks(u) => Remembered(u)',
         \A u \in Threads :
           Waiting(u) /\ Waiting(u)' /\ KeepsWait(u) /\ Backed(Current(u)) /\ Remembered(u) => Remembered(u)',
         \A u \in Threads : u \in spaces => u \in spaces' \/ th'[u].state = "Dead"
  PROVE  ForgetInv'
<1>1. ASSUME NEW u \in Threads, Waiting(u)', ~th'[u].timed, open', Backed(Current(u))'
      PROVE  Remembered(u)'
  <2>1. CASE KeepsWait(u)
    <3>1. Waiting(u) /\ th'[u].timed = th[u].timed
      BY <1>1, <2>1 DEF KeepsWait, Waiting
    <3>2. Backed(Current(u))
      BY <1>1, <2>1 DEF KeepsWait, Waiting, Backed, Current
    <3>3. Remembered(u)
      BY <1>1, <3>1, <3>2 DEF ForgetInv
    <3> QED BY <1>1, <2>1, <3>1, <3>2, <3>3, Zenon
  <2>2. CASE Blocks(u)
    BY <2>2
  <2> QED BY <2>1, <2>2 DEF ThreadsStep
<1>2. ASSUME NEW u \in Threads, u \notin spaces'
      PROVE  th'[u].state = "Dead"
  <2>1. CASE u \in spaces
    BY <1>2, <2>1
  <2>2. CASE u \notin spaces
    BY <2>2, DeadStays DEF ForgetInv
  <2> QED BY <2>1, <2>2
<1> QED BY <1>1, <1>2 DEF ForgetInv

(***************************************************************************)
(* Steps that leave the queues, the replies that fired and the deliveries. *)
(***************************************************************************)
LEMMA ForgetStill ==
  ASSUME ChannelInv, ChannelInv', ThreadsStep, ForgetInv,
         UNCHANGED <<senders, receivers, got, fired, gone>>, open' => open, MemoryInv',
         \A u \in Threads : ~Blocks(u),
         \A u \in Threads : u \in spaces => u \in spaces' \/ th'[u].state = "Dead"
  PROVE  ForgetInv'
<1>1. \A m \in Msgs : got'[m] >= got[m]
  BY DEF ChannelInv, ChannelTypes
<1>2. ASSUME NEW u \in Threads, Waiting(u), Waiting(u)', KeepsWait(u), Remembered(u)
      PROVE  Remembered(u)'
  BY <1>1, <1>2, RememberedKept
<1> QED BY <1>2, ForgetKept

(***************************************************************************)
(* A failed pass pops only an entry whose owner is dead or has left the    *)
(* wait.                                                                   *)
(***************************************************************************)
LEMMA ForgetNext ==
  ASSUME NoWriteFails, ChannelInv, ForgetInv, NEW t \in Threads, Operate(t),
         NextReceiver(t) \/ NextSender(t)
  PROVE  ForgetInv'
<1>1. ChannelInv' /\ ThreadsStep /\ lock = t /\ UNCHANGED <<open, spaces, gone, count, buffer>>
  BY OperateInv, Passes
<1>2. th[t].state = "Running" /\ t \in spaces /\ Backed(Current(t))
  BY <1>1 DEF ChannelInv, HolderInv, Locked, ForgetInv, MemoryInv, Backed, Current
<1>3. lock' = t
  BY <1>1 DEF NextReceiver, NextSender
<1>4. \A u \in Threads : ~Blocks(u)
  BY <1>1, <1>3, ChannelAssumption DEF Blocks
<1>5. UNCHANGED <<got, fired>>
  BY DEF NextReceiver, NextSender, DoSendFails, replyVars, history
<1>6. \A m \in Msgs : got'[m] >= got[m]
  BY <1>5 DEF ChannelInv, ChannelTypes
<1>7. ASSUME NEW u \in Threads, Waiting(u), Waiting(u)', KeepsWait(u), Backed(Current(u)), Remembered(u)
      PROVE  Remembered(u)'
  <2>1. th[u].state # "Dead" /\ u \in spaces
    BY <1>7 DEF Waiting, ForgetInv
  <2>2. ASSUME NEW e \in Entries(receivers), e.owner = u, e.gen = th[u].gen
        PROVE  e \in Entries(receivers')
    <3>1. CASE NextSender(t)
      BY <3>1 DEF NextSender
    <3>2. CASE NextReceiver(t)
      <4>1. e # Head(receivers)
        <5> SUFFICES ASSUME e = Head(receivers)
                     PROVE  FALSE
          OBVIOUS
        <5>1. Exist(Sender(t, 0), e)
          <6>1. Sender(t, 0).owner = t /\ Sender(t, 0).msg = Current(t)
            BY DEF Sender
          <6> QED BY <1>2, <1>7, <2>1, <2>2, <6>1 DEF Exist
        <5>2. ~IsStale(e)
          BY <1>7, <2>2 DEF IsStale
        <5> QED BY <3>2, <5>1, <5>2 DEF NextReceiver, DoSendFails, NoWriteFails
      <4> QED BY <3>2, <4>1, TailEntries DEF NextReceiver, ChannelInv, ChannelTypes
    <3> QED BY <3>1, <3>2
  <2>3. ASSUME NEW e \in Entries(senders), e.owner = u, e.gen = th[u].gen
        PROVE  e \in Entries(senders')
    <3>1. CASE NextReceiver(t)
      BY <3>1 DEF NextReceiver
    <3>2. CASE NextSender(t)
      <4>1. e # Head(senders)
        <5> SUFFICES ASSUME e = Head(senders)
                     PROVE  FALSE
          OBVIOUS
        <5>1. e.msg = Current(u)
          <6>1. SenderOK(e) /\ e.gen # 0
            BY <1>7, <2>3 DEF ChannelInv, EntryInv, HolderInv, InCall
          <6> QED BY <1>7, <2>3, <6>1 DEF SenderOK, Awaits
        <5>2. Receiver(t, 0).owner = t /\ Receiver(t, 0).gen = 0
          BY DEF Receiver
        <5>3. Exist(e, Receiver(t, 0))
          BY <1>2, <1>7, <2>1, <2>3, <5>1, <5>2 DEF Exist
        <5> QED BY <3>2, <5>2, <5>3 DEF NextSender, DoSendFails, NoWriteFails
      <4> QED BY <3>2, <4>1, TailEntries DEF NextSender, ChannelInv, ChannelTypes
    <3> QED BY <3>1, <3>2
  <2> QED BY <1>1, <1>5, <1>6, <1>7, <2>2, <2>3, RememberedKept
<1>8. MemoryInv'
  BY <1>1, <1>3, MemoryKept DEF ForgetInv
<1> QED BY <1>1, <1>4, <1>7, <1>8, ForgetKept

LEMMA ForgetGive ==
  ASSUME ChannelInv, ForgetInv, NEW t \in Threads, Operate(t), Gives(t)
  PROVE  ForgetInv'
<1>1. ChannelInv' /\ ThreadsStep /\ lock = t /\ UNCHANGED <<open, spaces, gone, count, buffer>>
  BY OperateInv, Passes
<1>2. PICK base \in [Threads -> ThreadRecs] :
        ToReceiver(t, base) /\ \A u \in Threads : u # t => base[u] = th[u]
  BY BlockedThreads DEF Gives, ChannelInv, ChannelTypes
<1>3. PICK r : r = Head(receivers)
  OBVIOUS
<1>4. /\ r \in ReceiverRefs /\ receivers # <<>> /\ receivers \in Seq(ReceiverRefs)
      /\ Tail(receivers) \in Seq(ReceiverRefs)
  BY <1>2, <1>3, HeadTyped DEF ToReceiver, ChannelInv, ChannelTypes
<1>5. senders' = senders /\ fired' = fired /\ receivers' = Requeue(r, Tail(receivers))
  BY <1>2, <1>3 DEF ToReceiver, DoSend
<1>6. Entries(receivers) \subseteq Entries(receivers') \cup {r}
  <2>1. Entries(receivers) \subseteq Entries(Tail(receivers)) \cup {r}
    BY <1>3, <1>4, TailEntries
  <2>2. Entries(Tail(receivers)) \subseteq Entries(receivers')
    <3>1. CASE receivers' = Append(Tail(receivers), r)
      <4>1. Entries(receivers') = Entries(Tail(receivers)) \cup {r}
        <5>1. Entries(Append(Tail(receivers), r)) = Entries(Tail(receivers)) \cup {r}
          BY <1>4, AppendReceiver, Zenon
        <5> QED BY <3>1, <5>1
      <4> QED BY <4>1
    <3> QED BY <1>5, <3>1 DEF Requeue
  <2> QED BY <2>1, <2>2
<1>7. r.gen # 0 => Roused(r.owner)
  <2>1. r.owner \in Threads /\ Sender(t, 0).owner \in Threads
    BY <1>4 DEF ReceiverRefs, Sender
  <2>2. DoSend(Sender(t, 0), r, base, FutureGen(t))
    BY <1>2, <1>3 DEF ToReceiver
  <2>3. \A u \in Threads : th[u].state = "Suspended" => base[u] = th[u]
    BY <1>1, <1>2 DEF ChannelInv, HolderInv, Locked
  <2> QED BY <2>1, <2>2, <2>3, SendRouses, Zenon
<1>8. ASSUME NEW u \in Threads, Blocks(u)
      PROVE  Remembered(u)'
  <2>1. u = t /\ call'[u] = call[u] /\ count'[u] = count[u]
    BY <1>1, <1>8 DEF Blocks
  <2>2. call[t] = "sync_call"
    <3>1. call[t] # "sync_call" => th'[t] = th[t]
      BY <1>1, GiveThreads DEF ChannelInv
    <3> QED BY <1>1, <1>8, <2>1, <3>1 DEF Blocks, ChannelInv, HolderInv, Locked
  <2>3. got'[Current(t)] > 0 /\ Current(t) \notin fired'
    BY <1>1, <1>5, GiveGot DEF ChannelInv, FreshInv, Untouched
  <2>4. Current(u)' = Current(t)
    BY <2>1 DEF Current
  <2>5. PICK m : m = Current(t)
    OBVIOUS
  <2> QED BY <2>1, <2>2, <2>3, <2>4, <2>5 DEF Remembered
<1>9. ASSUME NEW u \in Threads, Waiting(u), Waiting(u)', KeepsWait(u), Remembered(u)
      PROVE  Remembered(u)'
  <2>1. ASSUME NEW e \in Entries(receivers), e.owner = u, e.gen = th[u].gen
        PROVE  e \in Entries(receivers')
    <3>1. th[u].gen # 0
      BY <1>9 DEF ChannelInv, HolderInv, InCall
    <3>2. e # r
      BY <1>7, <1>9, <2>1, <3>1 DEF Roused, Waiting
    <3> QED BY <1>6, <3>2
  <2>2. \A m \in Msgs : got'[m] >= got[m]
    BY <1>1, GiveGot
  <2> QED BY <1>1, <1>5, <1>9, <2>1, <2>2, RememberedKept
<1>10. MemoryInv'
  BY <1>1, MemoryKept DEF Gives, Return, Block, ForgetInv
<1> QED BY <1>1, <1>8, <1>9, <1>10, ForgetKept

LEMMA ForgetTake ==
  ASSUME ChannelInv, ForgetInv, NEW t \in Threads, Operate(t), FromSender(t)
  PROVE  ForgetInv'
<1>1. ChannelInv' /\ ThreadsStep /\ lock = t /\ UNCHANGED <<open, spaces, gone, count, buffer>>
  BY OperateInv, Passes
<1>2. PICK s : s = Head(senders)
  OBVIOUS
<1>3. /\ senders # <<>> /\ senders \in Seq(SenderRefs) /\ s \in SenderRefs
      /\ senders' = Tail(senders) /\ fired' = fired
      /\ receivers \in Seq(ReceiverRefs) /\ receivers' = Requeue(Receiver(t, 0), receivers)
  BY <1>2, HeadTyped DEF FromSender, DoSend, ChannelInv, ChannelTypes
<1>4. s \in Entries(senders) /\ Entries(senders) \subseteq Entries(senders') \cup {s}
  BY <1>2, <1>3, TailEntries
<1>5. SenderOK(s) /\ Untouched(s.msg)
  BY <1>4 DEF ChannelInv, EntryInv, FreshInv
<1>6. Entries(receivers) \subseteq Entries(receivers')
  <2>1. Receiver(t, 0) \in ReceiverRefs
    BY <1>1, PartyTyped DEF ChannelInv, HolderInv, Locked
  <2>2. CASE receivers' = Append(receivers, Receiver(t, 0))
    <3>1. Entries(receivers') = Entries(receivers) \cup {Receiver(t, 0)}
      <4>1. Entries(Append(receivers, Receiver(t, 0))) = Entries(receivers) \cup {Receiver(t, 0)}
        BY <1>3, <2>1, AppendReceiver, Zenon
      <4> QED BY <2>2, <4>1
    <3> QED BY <3>1
  <2> QED BY <1>3, <2>2 DEF Requeue
<1>7. WakesSender(s) => Roused(s.owner)
  <2>1. s.owner \in Threads /\ Receiver(t, 0).owner \in Threads /\ Receiver(t, 0).gen = 0
    BY <1>3 DEF SenderRefs, Receiver
  <2>2. DoSend(s, Receiver(t, 0), th, s.gen)
    BY <1>2 DEF FromSender
  <2>3. th \in [Threads -> ThreadRecs]
    BY DEF ChannelInv, ChannelTypes
  <2> QED BY <2>1, <2>2, <2>3, SendRouses, Zenon
<1>8. \A u \in Threads : ~Blocks(u)
  <2>1. th'[t] = th[t] /\ th[t].state = "Running"
    BY <1>1, TakeThreads DEF ChannelInv, HolderInv, Locked
  <2> QED BY <1>1, <2>1 DEF Blocks
<1>9. ASSUME NEW u \in Threads, Waiting(u), Waiting(u)', KeepsWait(u), Remembered(u)
      PROVE  Remembered(u)'
  <2>1. ASSUME NEW e \in Entries(senders), e.owner = u, e.gen = th[u].gen, e \notin Entries(senders')
        PROVE  call[u] = "sync_call" /\ got'[Current(u)] > 0 /\ Current(u) \notin fired'
    <3>1. s.owner = u /\ s.gen = th[u].gen /\ s.gen # 0
      BY <1>4, <1>9, <2>1 DEF ChannelInv, HolderInv, InCall
    <3>2. Awaits(s)
      BY <1>5, <1>9, <3>1 DEF SenderOK, Awaits
    <3>3. s.msg = Current(u) /\ s.msg \in Msgs /\ Content(s) = s.msg
      BY <1>3, <1>4, <1>5, <3>1, <3>2, ContentIsMessage DEF SenderOK, SenderRefs
    <3>4. s.call
      <4> SUFFICES ASSUME ~s.call
                   PROVE  FALSE
        OBVIOUS
      <4>1. EndsWait(s)
        BY <1>2, <3>1, <3>2 DEF FromSender, DoSend, SenderSettled, IsStale, Awaits
      <4>2. Roused(u)
        BY <1>7, <3>1, <4>1 DEF WakesSender
      <4> QED BY <1>9, <4>2 DEF Roused, Waiting
    <3>5. call[u] = "sync_call"
      BY <1>5, <3>1, <3>2, <3>4 DEF SenderOK
    <3>6. got'[s.msg] > 0 /\ s.msg \notin fired'
      BY <1>2, <1>3, <1>5, <3>3, TakeGot DEF Untouched
    <3> QED BY <3>3, <3>5, <3>6
  <2>2. \A m \in Msgs : got'[m] >= got[m]
    BY TakeGot
  <2>3. Current(u) \notin fired => Current(u) \notin fired'
    BY <1>3
  <2> QED BY <1>1, <1>6, <1>9, <2>1, <2>2, <2>3, RememberedKept
<1>10. MemoryInv'
  BY <1>1, MemoryKept DEF FromSender, Return, ForgetInv
<1> QED BY <1>1, <1>8, <1>9, <1>10, ForgetKept

LEMMA ForgetQueue ==
  ASSUME ChannelInv, ForgetInv, NEW t \in Threads, Operate(t), Queues(t)
  PROVE  ForgetInv'
<1>1. ChannelInv' /\ ThreadsStep /\ lock = t /\ UNCHANGED <<open, spaces, gone, count, buffer>>
  BY OperateInv, Passes
<1>2. UNCHANGED <<got, fired>>
  BY DEF Queues, QueueSender, QueueReceiver, replyVars, history
<1>3. PICK g \in Nat : /\ QueueSender(t, g) \/ QueueReceiver(t, g)
                       /\ call[t] \in Blocking => g = th[t].gen + 1
                       /\ call[t] = "sync_recv" => QueueReceiver(t, g)
                       /\ call[t] \in {"sync_send", "sync_call"} => QueueSender(t, g)
  <2>1. FutureGen(t) = th[t].gen + 1 /\ FutureGen(t) \in Nat
    BY DEF FutureGen, ChannelInv, ChannelTypes, ThreadRecs
  <2> QED BY <2>1 DEF Queues, Blocking
<1>4. Sender(t, g) \in SenderRefs /\ Receiver(t, g) \in ReceiverRefs
  BY <1>1, PartyTyped DEF ChannelInv, HolderInv, Locked
<1>5. senders \in Seq(SenderRefs) /\ receivers \in Seq(ReceiverRefs)
  BY DEF ChannelInv, ChannelTypes
<1>6. QueueSender(t, g) =>
        Entries(senders') = Entries(senders) \cup {Sender(t, g)} /\ receivers' = receivers
  BY <1>4, <1>5, AppendEntries DEF QueueSender
<1>7. QueueReceiver(t, g) =>
        Entries(receivers') = Entries(receivers) \cup {Receiver(t, g)} /\ senders' = senders
  BY <1>4, <1>5, AppendEntries DEF QueueReceiver
<1>8. Entries(senders) \subseteq Entries(senders') /\ Entries(receivers) \subseteq Entries(receivers')
  BY <1>3, <1>6, <1>7
<1>9. ASSUME NEW u \in Threads, Blocks(u)
      PROVE  Remembered(u)'
  <2>1. u = t /\ call'[u] = call[u] /\ th'[u].gen = th[t].gen + 1 /\ call[t] \in Blocking
    BY <1>1, <1>9 DEF Blocks
  <2>2. CASE call[t] = "sync_recv"
    <3>1. Receiver(t, g) \in Entries(receivers')
      BY <1>3, <1>7, <2>2
    <3>2. Receiver(t, g).owner = u /\ Receiver(t, g).gen = th'[u].gen
      BY <1>3, <2>1 DEF Receiver
    <3> QED BY <2>1, <2>2, <3>1, <3>2 DEF Remembered, EntryFor
  <2>3. CASE call[t] \in {"sync_send", "sync_call"}
    <3>1. Sender(t, g) \in Entries(senders')
      BY <1>3, <1>6, <2>3
    <3>2. Sender(t, g).owner = u /\ Sender(t, g).gen = th'[u].gen
      BY <1>3, <2>1 DEF Sender
    <3> QED BY <2>1, <2>3, <3>1, <3>2 DEF Remembered, EntryFor
  <2> QED BY <2>1, <2>2, <2>3 DEF Blocking
<1>10. \A m \in Msgs : got'[m] >= got[m]
  BY <1>2 DEF ChannelInv, ChannelTypes
<1>11. ASSUME NEW u \in Threads, Waiting(u), Waiting(u)', KeepsWait(u), Remembered(u)
       PROVE  Remembered(u)'
  BY <1>1, <1>2, <1>8, <1>10, <1>11, RememberedKept
<1>12. MemoryInv'
  BY <1>1, MemoryKept DEF Queues, Return, Block, ForgetInv
<1> QED BY <1>1, <1>9, <1>11, <1>12, ForgetKept

(***************************************************************************)
(* The reply that fires for a blocked caller is for the wait it is in, so  *)
(* it wakes the caller.                                                    *)
(***************************************************************************)
LEMMA ForgetReply ==
  ASSUME NoWriteFails, ChannelInv, ForgetInv, NEW t \in Threads, Reply(t)
  PROVE  ForgetInv'
<1>1. ChannelInv' /\ ThreadsStep
  BY OtherInv
<1>2. UNCHANGED <<senders, receivers, got, open, spaces, gone, count, lock>>
  BY DEF Reply, queues
<1>3. PICK r : r = using[t]
  OBVIOUS
<1>4. r \in Replies /\ r \in ReplyRefs
  BY <1>3 DEF Reply, Replies, ChannelInv, ChannelTypes
<1>5. r.owner \in Threads /\ r.msg[1] = r.owner
  BY <1>4 DEF ReplyRefs, ChannelInv, EntryInv, ReplyOK
<1>6. \A u \in Threads : ~Blocks(u)
  BY <1>2, ChannelAssumption DEF Blocks
<1>7. ASSUME NEW u \in Threads, Waiting(u), Waiting(u)', Backed(Current(u)),
             Current(u) \notin fired, Current(u) \in fired'
      PROVE  FALSE
  <2>1. r.msg = Current(u) /\ r.msg \notin fired /\ (ReplyAnswers(r) \/ ReplyFails(r))
    BY <1>3, <1>7 DEF Reply
  <2>2. r.owner = u
    BY <1>5, <2>1 DEF Current
  <2>3. Awaits(r)
    BY <1>4, <1>7, <2>1, <2>2 DEF ChannelInv, EntryInv, ReplyOK
  <2>4. u \in spaces /\ ~r.pool /\ ~IsStale(r)
    BY <1>7, <2>3 DEF ForgetInv, Waiting, Awaits, IsStale
  <2>5. EndsWait(r) /\ th' = [th EXCEPT ![r.owner] = Woken(th[r.owner], "MsgRecv")]
    <3>1. ReplyTarget(r)
      BY <1>7, <2>1, <2>2, <2>4 DEF ReplyTarget
    <3> QED BY <2>1, <2>2, <2>4, <3>1 DEF ReplyAnswers, ReplyFails, NoWriteFails
  <2>6. Roused(u)
    <3>1. th \in [Threads -> ThreadRecs] /\ th[r.owner].state = "Suspended"
      BY <2>5 DEF EndsWait, ChannelInv, ChannelTypes
    <3> QED BY <1>5, <2>2, <2>5, <3>1, WakesOne
  <2> QED BY <1>7, <2>6 DEF Roused, Waiting
<1>8. \A m \in Msgs : got'[m] >= got[m]
  BY <1>2 DEF ChannelInv, ChannelTypes
<1>9. ASSUME NEW u \in Threads, Waiting(u), Waiting(u)', KeepsWait(u), Backed(Current(u)), Remembered(u)
      PROVE  Remembered(u)'
  BY <1>1, <1>2, <1>7, <1>8, <1>9, RememberedKept
<1>10. MemoryInv'
  BY <1>2, MemoryKept DEF ForgetInv
<1> QED BY <1>1, <1>2, <1>6, <1>9, <1>10, ForgetKept

LEMMA ForgetOther ==
  ASSUME ChannelInv, ForgetInv, NEW t \in Threads,
         \/ Suspend(t) \/ Timeout(t) \/ Resume(t)
         \/ \E whole : Exit(t, whole)
         \/ \E r \in replies : GetReply(t, r) \/ DropReply(t, r)
  PROVE  ForgetInv'
<1>1. ChannelInv' /\ ThreadsStep
  BY OtherInv, Zenon
<1>2. UNCHANGED <<senders, receivers, got, fired, open, gone, count, lock>>
  BY DEF Suspend, Timeout, Resume, Exit, GetReply, DropReply, Unmoved, queues, replyVars, history
<1>3. \A u \in Threads : ~Blocks(u)
  BY <1>2, ChannelAssumption DEF Blocks
<1>4. \A u \in Threads : u \in spaces => u \in spaces' \/ th'[u].state = "Dead"
  <2>1. CASE spaces' = spaces
    BY <2>1
  <2>2. CASE \E whole : Exit(t, whole)
    <3>1. PICK h : h = [th[t] EXCEPT !.state = "Dead", !.listed = FALSE]
      OBVIOUS
    <3>2. th' = [th EXCEPT ![t] = h] /\ \A u \in spaces : u \in spaces' \/ u = t
      BY <2>2, <3>1 DEF Exit
    <3>3. th \in [Threads -> ThreadRecs]
      BY DEF ChannelInv, ChannelTypes
    <3>4. h.state = "Dead" /\ th'[t] = h
      BY <3>1, <3>2, <3>3 DEF ThreadRecs
    <3> QED BY <3>2, <3>4
  <2> QED BY <2>1, <2>2 DEF Suspend, Timeout, Resume, GetReply, DropReply, Unmoved
<1>5. MemoryInv'
  BY <1>2, MemoryKept DEF ForgetInv
<1> QED BY <1>1, <1>2, <1>3, <1>4, <1>5, ForgetStill

LEMMA ForgetStep ==
  ASSUME NoWriteFails, ChannelInv, ForgetInv, [Next]_vars
  PROVE  ForgetInv'
<1>1. ASSUME NEW t \in Threads, Operate(t)
      PROVE  ForgetInv'
  <2>1. CASE GivesUp(t)
    <3>1. ChannelInv' /\ ThreadsStep /\ lock = t /\ UNCHANGED <<open, spaces, gone, count>>
      BY <1>1, OperateInv, Passes
    <3>2. UNCHANGED <<th, senders, receivers, got, fired>> /\ lock' = NoThread
      BY <2>1 DEF GivesUp, Return, queues, replyVars
    <3>3. \A u \in Threads : ~Blocks(u)
      BY <3>1, <3>2 DEF Blocks, ChannelInv, HolderInv, Locked
    <3>4. MemoryInv'
      BY <3>1, <3>2, MemoryKept DEF ForgetInv
    <3> QED BY <3>1, <3>2, <3>3, <3>4, ForgetStill
  <2> QED BY <1>1, <2>1, Passes, ForgetNext, ForgetGive, ForgetTake, ForgetQueue, Zenon
<1>2. ASSUME NEW t \in Threads, DropChannel(t)
      PROVE  ForgetInv'
  BY <1>2 DEF DropChannel, ForgetInv, MemoryInv
<1>3. ASSUME NEW t \in Threads, NEW o \in Sends \cup Recvs, NEW timed \in Timed, Start(t, o, timed)
      PROVE  ForgetInv'
  <2>1. ChannelInv' /\ ThreadsStep
    BY <1>3, StartInv, Zenon
  <2>2. /\ UNCHANGED <<senders, receivers, got, fired, open, spaces, gone>>
        /\ lock' = t /\ count' = [count EXCEPT ![t] = count[t] + 1]
    BY <1>3 DEF Start, queues, replyVars, history
  <2>3. \A u \in Threads : ~Blocks(u)
    BY <2>2, ChannelAssumption DEF Blocks
  <2>4. MemoryInv'
    BY <2>2 DEF ForgetInv, MemoryInv, ChannelInv, ChannelTypes
  <2> QED BY <2>1, <2>2, <2>3, <2>4, ForgetStill
<1>4. ASSUME NEW t \in Threads, DropMemory(t)
      PROVE  ForgetInv'
  <2>1. /\ UNCHANGED <<th, call, count, lock, open, senders, receivers, fired, spaces, got>>
        /\ lock # t /\ gone' = [gone EXCEPT ![t] = count[t]]
    BY <1>4 DEF DropMemory, queues, replyVars, history
  <2>2. count[t] \in Nat /\ gone \in [Threads -> Nat] /\ gone[t] <= count[t]
    BY DEF ForgetInv, MemoryInv, ChannelInv, ChannelTypes
  <2>3. MemoryInv'
    BY <2>1, <2>2 DEF ForgetInv, MemoryInv
  <2>4. ASSUME NEW u \in Threads, Backed(Current(u))'
        PROVE  Backed(Current(u))
    BY <2>1, <2>2, <2>4 DEF Backed, Current
  <2>5. \A u \in Threads : Remembered(u) => Remembered(u)'
    BY <2>1 DEF Remembered, EntryFor, Entries, Current
  <2> QED BY <2>1, <2>3, <2>4, <2>5 DEF ForgetInv, Waiting
<1>5. CASE UNCHANGED vars
  <2>1. UNCHANGED <<th, call, count, lock, open, senders, receivers, fired, spaces, gone, got>>
    BY <1>5 DEF vars, queues, replyVars, history
  <2> QED BY <2>1 DEF ForgetInv, MemoryInv, Remembered, EntryFor, Waiting, Current, Backed
<1> QED BY <1>1, <1>2, <1>3, <1>4, <1>5, ForgetReply, ForgetOther, Zenon DEF Next, Kernel

(***************************************************************************)
(* As long as no copy fails, whoever blocks without a timeout in memory    *)
(* that still exists is in its queue, or its message was received and the  *)
(* reply has not fired, whatever the others time out, drop, destroy or     *)
(* exit.  That does not promise an answer: a server may drop the reply it  *)
(* holds or be killed with it.                                             *)
(***************************************************************************)
THEOREM NobodyForgotten == NoWriteFails => (Spec => []NoForgottenWaiter)
<1> SUFFICES ASSUME NoWriteFails
             PROVE  Spec => []NoForgottenWaiter
  OBVIOUS
<1>1. Init => ForgetInv
  BY ChannelAssumption DEF Init, ForgetInv, MemoryInv, Waiting
<1>2. ChannelInv /\ ForgetInv /\ [Next]_vars => ChannelInv' /\ ForgetInv'
  BY ChannelStep, ForgetStep
<1>3. ForgetInv => NoForgottenWaiter
  BY DEF ForgetInv, NoForgottenWaiter, Remembered, EntryFor, Entries, Queued
<1> QED BY <1>1, <1>2, <1>3, ChannelInit, PTL DEF Spec
=============================================================================
