------------------------------- MODULE Channel -------------------------------
(***************************************************************************)
(* A channel and the replies made from it.  A channel holds two queues     *)
(* under one lock; a sender meets a receiver in do_send, which wakes       *)
(* whichever of the two is not the caller.  One pass of an operation's     *)
(* loop is one step, with the lock held from the first to the last.        *)
(*                                                                         *)
(* A thread is reduced to what a reference to it can tell: its generation  *)
(* and state, whether it is in the ready list, and its wake reason.        *)
(* While a reference names a suspension that has not happened yet,         *)
(* get_thread_as_ready spins: the step is not enabled.                     *)
(***************************************************************************)
EXTENDS Integers, Sequences, FiniteSets

CONSTANTS
  Threads,
  Ops,         \* the system calls every thread uses
  Limit,       \* how many channel operations every thread starts
  Timed,       \* whether blocking operations come with a timeout
  WriteFails,  \* copying a message or writing an event can fail
  NoThread, NoReply

Sends == {"try_send", "sync_send", "async_send", "sync_call", "async_call"}

Recvs == {"try_recv", "sync_recv", "async_recv", "async_recv_auto"}

ASSUME ChannelAssumption ==
  /\ Ops \in [Threads -> SUBSET (Sends \cup Recvs
                 \cup {"reply", "drop_reply", "drop_channel", "drop_memory", "exit"})]
  /\ Limit \in [Threads -> Nat]
  /\ Timed \subseteq BOOLEAN
  /\ WriteFails \in BOOLEAN
  /\ NoThread \notin Threads

VARIABLES
  th,          \* the threads
  call,        \* the system call a thread is in
  count,       \* how many channel operations a thread has started
  buffer,      \* the message in the buffer of a thread's synchronous sends
  lock,        \* the thread that holds the channel's lock
  open,        \* the channel has not been dropped
  senders, receivers,   \* the queues
  replies,     \* the reply capabilities nobody has used or dropped
  using,       \* the reply a thread is about to use
  fired,       \* the calls whose reply has fired
  spaces,      \* the threads whose capability space still exists
  gone,        \* the memory behind a thread's first gone[t] operations is destroyed
  got,         \* history: how often a message was delivered
  answered,    \* history: how often a call was answered
  told         \* history: what the sender was told about a message

queues == <<senders, receivers>>
replyVars == <<replies, using, fired>>
history == <<got, answered, told>>
vars == <<th, call, count, buffer, lock, open, queues, replyVars, spaces, gone, history>>

(***************************************************************************)
(* The message of the k-th operation of a thread.                          *)
(***************************************************************************)
Msgs == UNION {{t} \X (1..Limit[t]) : t \in Threads}

Current(t) == <<t, count[t]>>

Waiting(t) == th[t].state \in {"Suspending", "Suspended"}

Init ==
  /\ th = [t \in Threads |-> [state |-> "Running", gen |-> 0, listed |-> FALSE,
                              timed |-> FALSE, reason |-> "None"]]
  /\ call = [t \in Threads |-> "none"]
  /\ count = [t \in Threads |-> 0]
  /\ buffer = [t \in Threads |-> 0]
  /\ lock = NoThread
  /\ open = TRUE
  /\ senders = <<>> /\ receivers = <<>>
  /\ replies = {} /\ fired = {}
  /\ using = [t \in Threads |-> NoReply]
  /\ spaces = Threads /\ gone = [t \in Threads |-> 0]
  /\ got = [m \in Msgs |-> 0]
  /\ answered = [m \in Msgs |-> 0]
  /\ told = [m \in Msgs |-> "nothing"]

-----------------------------------------------------------------------------
(* ThreadRef                                                               *)

(***************************************************************************)
(* get_thread_as_ready succeeds, or finds that the suspension is over.     *)
(***************************************************************************)
EndsWait(ref) ==
  th[ref.owner].state = "Suspended" /\ th[ref.owner].gen = ref.gen

IsStale(ref) == ~(Waiting(ref.owner) /\ th[ref.owner].gen = ref.gen)

Woken(thread, reason) ==
  [thread EXCEPT !.state = "Ready", !.listed = TRUE, !.reason = reason]

(***************************************************************************)
(* The caller is about to suspend itself; its reference is a future_ref.   *)
(***************************************************************************)
Blocked(t) ==
  [th EXCEPT ![t].state = "Suspending", ![t].gen = @ + 1]

-----------------------------------------------------------------------------
(* Parties                                                                 *)

IsCall(o) == o \in {"sync_call", "async_call"}

IsAsync(o) == o \in {"async_send", "async_call", "async_recv", "async_recv_auto"}

(***************************************************************************)
(* ChannelSenderRef and ChannelRecieverRef.  Generation 0 stands for the   *)
(* calling thread itself and for event pools: there is nothing to wake.    *)
(***************************************************************************)
Sender(t, g) ==
  [owner |-> t, gen |-> g, pool |-> IsAsync(call[t]), call |-> IsCall(call[t]),
   msg |-> Current(t)]

Receiver(t, g) ==
  [owner |-> t, gen |-> g, pool |-> IsAsync(call[t]),
   auto |-> call[t] = "async_recv_auto"]

(***************************************************************************)
(* Mutant: the reference names the current generation.                     *)
(***************************************************************************)
FutureGenNow(t) == th[t].gen

FutureGen(t) == th[t].gen + 1

(***************************************************************************)
(* The buffer is read when the message is delivered, not when it is        *)
(* queued.  An asynchronous sender keeps its buffer until it is told.      *)
(***************************************************************************)
Content(s) == IF s.pool THEN s.msg ELSE <<s.owner, buffer[s.owner]>>

(***************************************************************************)
(* get_reply: the reply goes to the caller's thread or event pool.         *)
(***************************************************************************)
ReplyTo(s, g) == [owner |-> s.owner, gen |-> g, pool |-> s.pool, msg |-> s.msg]

-----------------------------------------------------------------------------
(* do_send and acknowledge_send                                            *)

(***************************************************************************)
(* The weak references of both sides can be upgraded: the capability       *)
(* spaces, the memory of the send buffer and, if a thread receives, the    *)
(* memory of its buffer.  A reference that outlived its wait is refused in *)
(* any case, so a receiver's memory is that of its current operation.  The *)
(* caller itself holds its memory.                                         *)
(***************************************************************************)
Backed(m) == m[2] > gone[m[1]]

Exist(s, r) ==
  /\ {s.owner, r.owner} \subseteq spaces
  /\ Backed(s.msg)
  /\ r.pool \/ Backed(Current(r.owner))

(***************************************************************************)
(* Mutant: a synchronous sender is not woken.                              *)
(***************************************************************************)
WakesSenderNever(s) == FALSE

(***************************************************************************)
(* A queued synchronous sender is woken, unless its wait is over; for one  *)
(* that is still suspending itself the step waits.                         *)
(***************************************************************************)
WakesSender(s) == s.gen # 0 /\ ~s.call /\ EndsWait(s)

SenderSettled(s) == s.gen # 0 /\ ~s.call => EndsWait(s) \/ IsStale(s)

Acknowledge(s) ==
  \/ told' = IF s.call \/ (s.gen # 0 /\ ~WakesSender(s)) THEN told
             ELSE [told EXCEPT ![s.msg] = "ok"]
  \/ WriteFails /\ s.pool /\ UNCHANGED told

(***************************************************************************)
(* The message is delivered.  base holds the threads as the caller leaves  *)
(* them, reply is the generation a reply to the sender is for.  The reply  *)
(* is in the receiver's capability space while the message is copied, but  *)
(* invisible to it.                                                        *)
(***************************************************************************)
DoSend(s, r, base, reply) ==
  /\ Exist(s, r)
  /\ r.gen # 0 => EndsWait(r)
  /\ SenderSettled(s)
  /\ got' = [got EXCEPT ![Content(s)] = @ + 1]
  /\ Acknowledge(s)
  /\ th' = IF r.gen # 0 THEN [base EXCEPT ![r.owner] = Woken(@, "MsgRecv")]
           ELSE IF WakesSender(s) THEN [base EXCEPT ![s.owner] = Woken(@, "MsgSend")]
           ELSE base
  /\ replies' = IF s.call THEN replies \cup {ReplyTo(s, reply)} ELSE replies
  /\ UNCHANGED <<using, fired, answered>>

(***************************************************************************)
(* An error.  The copy comes after get_thread_as_ready: when it fails, the *)
(* receiver is Ready and in no list.  The reply is removed again.          *)
(***************************************************************************)
DoSendFails(s, r) ==
  /\ \/ ~Exist(s, r) /\ UNCHANGED th
     \/ Exist(s, r) /\ r.gen # 0 /\ IsStale(r) /\ UNCHANGED th
     \/ /\ WriteFails /\ Exist(s, r)
        /\ IF r.gen = 0 THEN UNCHANGED th
           ELSE EndsWait(r) /\ th' = [th EXCEPT ![r.owner].state = "Ready"]
  /\ UNCHANGED <<replyVars, history>>

-----------------------------------------------------------------------------
(* The operations                                                          *)

Free(t) ==
  /\ th[t].state = "Running"
  /\ call[t] = "none" /\ using[t] = NoReply

Start(t, o, timed) ==
  /\ Free(t) /\ open /\ lock = NoThread
  /\ o \in Ops[t] /\ count[t] < Limit[t]
  /\ lock' = t
  /\ call' = [call EXCEPT ![t] = o]
  /\ count' = [count EXCEPT ![t] = @ + 1]
  /\ buffer' = IF o \in Sends /\ ~IsAsync(o) THEN [buffer EXCEPT ![t] = count[t] + 1] ELSE buffer
  /\ th' = [th EXCEPT ![t].timed = timed]
  /\ UNCHANGED <<open, queues, replyVars, spaces, gone, history>>

In(t, o) == lock = t /\ call[t] = o

(***************************************************************************)
(* The end of a call that does not block, and of one that does.            *)
(***************************************************************************)
Return(t) ==
  /\ lock' = NoThread
  /\ call' = [call EXCEPT ![t] = "none"]

Block ==
  /\ lock' = NoThread
  /\ UNCHANGED call

(***************************************************************************)
(* One pass of a sender's loop that pops a receiver: do_send fails and the *)
(* loop goes on, or succeeds and a receiver that asked for it is queued    *)
(* again.                                                                  *)
(***************************************************************************)
NextReceiver(t) ==
  /\ receivers # <<>>
  /\ DoSendFails(Sender(t, 0), Head(receivers))
  /\ receivers' = Tail(receivers)
  /\ UNCHANGED <<lock, call, senders>>

Requeue(r, queue) == IF r.auto THEN Append(queue, r) ELSE queue

ToReceiver(t, base) ==
  /\ receivers # <<>>
  /\ DoSend(Sender(t, 0), Head(receivers), base, FutureGen(t))
  /\ receivers' = Requeue(Head(receivers), Tail(receivers))
  /\ UNCHANGED senders

NextSender(t) ==
  /\ senders # <<>>
  /\ DoSendFails(Head(senders), Receiver(t, 0))
  /\ senders' = Tail(senders)
  /\ UNCHANGED <<lock, call, receivers>>

(***************************************************************************)
(* Mutant: the sender stays in the queue.                                  *)
(***************************************************************************)
FromSenderPeeks(t) ==
  /\ senders # <<>>
  /\ DoSend(Head(senders), Receiver(t, 0), th, Head(senders).gen)
  /\ receivers' = Requeue(Receiver(t, 0), receivers)
  /\ Return(t)
  /\ UNCHANGED senders

FromSender(t) ==
  /\ senders # <<>>
  /\ DoSend(Head(senders), Receiver(t, 0), th, Head(senders).gen)
  /\ senders' = Tail(senders)
  /\ receivers' = Requeue(Receiver(t, 0), receivers)
  /\ Return(t)

QueueSender(t, g) ==
  /\ receivers = <<>>
  /\ senders' = Append(senders, Sender(t, g))
  /\ UNCHANGED <<receivers, replyVars, history>>

QueueReceiver(t, g) ==
  /\ senders = <<>>
  /\ receivers' = Append(receivers, Receiver(t, g))
  /\ UNCHANGED <<senders, replyVars, history>>

TrySend(t) ==
  /\ In(t, "try_send")
  /\ \/ /\ receivers = <<>>
        /\ told' = [told EXCEPT ![Current(t)] = "error"]
        /\ Return(t)
        /\ UNCHANGED <<th, queues, replyVars, got, answered>>
     \/ NextReceiver(t)
     \/ ToReceiver(t, th) /\ Return(t)

(***************************************************************************)
(* Mutant: succeeds at once when it should wait in the queue.              *)
(***************************************************************************)
SyncSendNoWait(t) ==
  /\ In(t, "sync_send")
  /\ \/ /\ receivers = <<>>
        /\ told' = [told EXCEPT ![Current(t)] = "ok"]
        /\ Return(t)
        /\ UNCHANGED <<th, queues, replyVars, got, answered>>
     \/ NextReceiver(t)
     \/ ToReceiver(t, th) /\ Return(t)

SyncSend(t) ==
  /\ In(t, "sync_send")
  /\ \/ QueueSender(t, FutureGen(t)) /\ th' = Blocked(t) /\ Block
     \/ NextReceiver(t)
     \/ ToReceiver(t, th) /\ Return(t)

AsyncSend(t) ==
  /\ In(t, "async_send")
  /\ \/ QueueSender(t, 0) /\ UNCHANGED th /\ Return(t)
     \/ NextReceiver(t)
     \/ ToReceiver(t, th) /\ Return(t)

(***************************************************************************)
(* It is always required to block after sync_call.                         *)
(***************************************************************************)
SyncCall(t) ==
  /\ In(t, "sync_call")
  /\ \/ QueueSender(t, FutureGen(t)) /\ th' = Blocked(t) /\ Block
     \/ NextReceiver(t)
     \/ ToReceiver(t, Blocked(t)) /\ Block

AsyncCall(t) ==
  /\ In(t, "async_call")
  /\ \/ QueueSender(t, 0) /\ UNCHANGED th /\ Return(t)
     \/ NextReceiver(t)
     \/ ToReceiver(t, th) /\ Return(t)

TryRecv(t) ==
  /\ In(t, "try_recv")
  /\ \/ senders = <<>> /\ Return(t) /\ UNCHANGED <<th, queues, replyVars, history>>
     \/ NextSender(t)
     \/ FromSender(t)

(***************************************************************************)
(* Mutant: waits without looking at the senders.                           *)
(***************************************************************************)
SyncRecvNoCheck(t) ==
  /\ In(t, "sync_recv")
  /\ receivers' = Append(receivers, Receiver(t, FutureGen(t)))
  /\ th' = Blocked(t)
  /\ Block
  /\ UNCHANGED <<senders, replyVars, history>>

SyncRecv(t) ==
  /\ In(t, "sync_recv")
  /\ \/ QueueReceiver(t, FutureGen(t)) /\ th' = Blocked(t) /\ Block
     \/ NextSender(t)
     \/ FromSender(t)

AsyncRecv(t) ==
  /\ In(t, "async_recv") \/ In(t, "async_recv_auto")
  /\ \/ QueueReceiver(t, 0) /\ UNCHANGED th /\ Return(t)
     \/ NextSender(t)
     \/ FromSender(t)

Operate(t) ==
  /\ \/ TrySend(t) \/ SyncSend(t) \/ AsyncSend(t) \/ SyncCall(t) \/ AsyncCall(t)
     \/ TryRecv(t) \/ SyncRecv(t) \/ AsyncRecv(t)
  /\ UNCHANGED <<count, buffer, open, spaces, gone>>

-----------------------------------------------------------------------------
(* Blocking                                                                *)

Unmoved == UNCHANGED <<call, count, buffer, lock, open, queues, replyVars, spaces, gone, got, answered>>

Suspend(t) ==
  /\ th[t].state = "Suspending"
  /\ th' = [th EXCEPT ![t].state = "Suspended"]
  /\ Unmoved /\ UNCHANGED told

Timeout(t) ==
  /\ th[t].state = "Suspended" /\ th[t].timed
  /\ th' = [th EXCEPT ![t] = Woken(@, "Timeout")]
  /\ told' = IF call[t] \in Sends THEN [told EXCEPT ![Current(t)] = "error"] ELSE told
  /\ Unmoved

(***************************************************************************)
(* The scheduler picks the thread and its system call returns.             *)
(***************************************************************************)
Resume(t) ==
  /\ th[t].state = "Ready" /\ th[t].listed
  /\ th' = [th EXCEPT ![t] = [@ EXCEPT !.state = "Running", !.listed = FALSE,
                                       !.timed = FALSE, !.reason = "None"]]
  /\ call' = [call EXCEPT ![t] = "none"]
  /\ UNCHANGED <<count, buffer, lock, open, queues, replyVars, spaces, gone, history>>

-----------------------------------------------------------------------------
(* Replies                                                                 *)

(***************************************************************************)
(* reply_reply finds the capability; another thread may find it as well    *)
(* before it is removed.                                                   *)
(***************************************************************************)
GetReply(t, r) ==
  /\ Free(t) /\ "reply" \in Ops[t]
  /\ using' = [using EXCEPT ![t] = r]
  /\ UNCHANGED <<th, call, count, buffer, lock, open, queues, replies, fired, spaces, gone, history>>

ReplyTarget(r) == r.owner \in spaces /\ (r.pool \/ Backed(r.msg))

ReplyAnswers(r) ==
  /\ ReplyTarget(r)
  /\ r.pool \/ EndsWait(r)
  /\ th' = IF r.pool THEN th ELSE [th EXCEPT ![r.owner] = Woken(@, "MsgRecv")]
  /\ answered' = [answered EXCEPT ![r.msg] = @ + 1]
  /\ told' = [told EXCEPT ![r.msg] = "ok"]
  /\ replies' = replies \ {r}

(***************************************************************************)
(* Any error comes after the swap, and before the capability is removed.   *)
(***************************************************************************)
ReplyFails(r) ==
  /\ \/ ~ReplyTarget(r) /\ UNCHANGED th
     \/ ReplyTarget(r) /\ ~r.pool /\ IsStale(r) /\ UNCHANGED th
     \/ /\ WriteFails /\ ReplyTarget(r)
        /\ IF r.pool THEN UNCHANGED th
           ELSE EndsWait(r) /\ th' = [th EXCEPT ![r.owner].state = "Ready"]
  /\ UNCHANGED <<answered, told, replies>>

(***************************************************************************)
(* Mutant: reply_fired is not tested.                                      *)
(***************************************************************************)
ReplyAgain(t) ==
  /\ using[t] # NoReply
  /\ using' = [using EXCEPT ![t] = NoReply]
  /\ fired' = fired \cup {using[t].msg}
  /\ ReplyAnswers(using[t]) \/ ReplyFails(using[t])
  /\ UNCHANGED <<call, count, buffer, lock, open, queues, spaces, gone, got>>

Reply(t) ==
  /\ using[t] # NoReply
  /\ using' = [using EXCEPT ![t] = NoReply]
  /\ \/ using[t].msg \in fired /\ UNCHANGED <<th, fired, answered, told, replies>>
     \/ /\ using[t].msg \notin fired
        /\ fired' = fired \cup {using[t].msg}
        /\ ReplyAnswers(using[t]) \/ ReplyFails(using[t])
  /\ UNCHANGED <<call, count, buffer, lock, open, queues, spaces, gone, got>>

DropReply(t, r) ==
  /\ Free(t) /\ "drop_reply" \in Ops[t]
  /\ replies' = replies \ {r}
  /\ UNCHANGED <<th, call, count, buffer, lock, open, queues, using, fired, spaces, gone, history>>

-----------------------------------------------------------------------------
(* The end of channels and threads                                         *)

DropChannel(t) ==
  /\ Free(t) /\ "drop_channel" \in Ops[t]
  /\ open /\ lock = NoThread
  /\ open' = FALSE
  /\ senders' = <<>> /\ receivers' = <<>>
  /\ UNCHANGED <<th, call, count, buffer, lock, replyVars, spaces, gone, history>>

(***************************************************************************)
(* Another thread of the process gives up the last capability to the       *)
(* memory the buffers are in.  channel_sync_send keeps its own reference   *)
(* on the stack while it is blocked; the other calls drop theirs.          *)
(***************************************************************************)
DropMemory(t) ==
  /\ "drop_memory" \in Ops[t]
  /\ th[t].state # "Dead" /\ lock # t /\ call[t] # "sync_send"
  /\ gone[t] < count[t]
  /\ gone' = [gone EXCEPT ![t] = count[t]]
  /\ UNCHANGED <<th, call, count, buffer, lock, open, queues, replyVars, spaces, history>>

(***************************************************************************)
(* The thread is killed, alone or with its capability space.  What the     *)
(* stack of channel_sync_send holds is never released.                     *)
(***************************************************************************)
Exit(t, whole) ==
  /\ "exit" \in Ops[t]
  /\ th[t].state \in {"Running", "Suspended", "Ready"} /\ lock # t /\ using[t] = NoReply
  /\ whole => call[t] # "sync_send"
  /\ th' = [th EXCEPT ![t] = [@ EXCEPT !.state = "Dead", !.listed = FALSE]]
  /\ call' = [call EXCEPT ![t] = "none"]
  /\ spaces' = IF whole THEN spaces \ {t} ELSE spaces
  /\ UNCHANGED <<count, buffer, lock, open, queues, replyVars, gone, history>>

-----------------------------------------------------------------------------

Kernel(t) == Operate(t) \/ Suspend(t) \/ Resume(t) \/ Reply(t)

Next ==
  \E t \in Threads :
    \/ Kernel(t) \/ Timeout(t) \/ DropChannel(t) \/ DropMemory(t)
    \/ \E o \in Sends \cup Recvs : \E timed \in Timed : Start(t, o, timed)
    \/ \E r \in replies : GetReply(t, r) \/ DropReply(t, r)
    \/ \E whole \in BOOLEAN : Exit(t, whole)

Spec == Init /\ [][Next]_vars

(***************************************************************************)
(* A cpu in the kernel goes on and the scheduler is fair.  A server keeps  *)
(* receiving, and its worker comes to the replies it has not used, even if *)
(* it holds used ones.                                                     *)
(***************************************************************************)
Servers == {t \in Threads : "sync_recv" \in Ops[t]}

Workers == {t \in Threads : "reply" \in Ops[t]}

Fairness ==
  /\ \A t \in Threads : WF_vars(Kernel(t))
  /\ \A t \in Workers : SF_vars(\E r \in replies : r.msg \notin fired /\ GetReply(t, r))
  /\ \A t \in Servers : SF_vars(Start(t, "sync_recv", FALSE))

FairSpec == Spec /\ Fairness

-----------------------------------------------------------------------------
(* Properties                                                              *)

(***************************************************************************)
(* No blocked thread is forgotten: while the channel exists, whoever is    *)
(* blocked without a timeout, in memory that has not been destroyed, is    *)
(* still in the queue it waits in, or its message was received and its     *)
(* reply has not fired.  A reply that is dropped, or whose holder is       *)
(* killed, never fires; and a waiter whose memory is destroyed is popped   *)
(* with InvlWeak and never woken (mod.rs:343, 375, reply.rs:47).           *)
(***************************************************************************)
Queued(t, queue) == \E i \in 1..Len(queue) : queue[i].owner = t /\ queue[i].gen = th[t].gen

NoForgottenWaiter ==
  \A t \in Threads : Waiting(t) /\ ~th[t].timed /\ open /\ Backed(Current(t)) =>
    \/ call[t] = "sync_recv" /\ Queued(t, receivers)
    \/ call[t] \in {"sync_send", "sync_call"} /\ Queued(t, senders)
    \/ call[t] = "sync_call" /\ got[Current(t)] > 0 /\ Current(t) \notin fired

(***************************************************************************)
(* A message whose sender was told that it was sent has been received.     *)
(***************************************************************************)
AckedDelivered == \A m \in Msgs : told[m] = "ok" => got[m] > 0

(***************************************************************************)
(* A message is received at most once, and answered at most once.          *)
(***************************************************************************)
DeliveredOnce == \A m \in Msgs : got[m] <= 1

AnsweredOnce == \A m \in Msgs : answered[m] <= 1

(***************************************************************************)
(* Senders and receivers never wait for each other in the two queues.      *)
(***************************************************************************)
NobodyWaitsBoth == senders = <<>> \/ receivers = <<>>

(***************************************************************************)
(* With a server that keeps receiving and replying, every send and call    *)
(* returns, unless the channel is dropped or the memory of its buffers is  *)
(* destroyed under it.                                                     *)
(***************************************************************************)
CallsReturn ==
  \A t \in Threads \ Servers :
    call[t] \in {"sync_send", "sync_call"} ~>
      call[t] = "none" \/ ~open \/ ~Backed(Current(t))
=============================================================================
