--------------------------- MODULE ChannelThreads ----------------------------
(***************************************************************************)
(* What a step of Channel does to the threads, and the types: for any      *)
(* threads, operations and limits.                                         *)
(***************************************************************************)
EXTENDS Channel, TLAPS

-----------------------------------------------------------------------------
(* Waits, queue entries and replies                                        *)

ThreadRecs ==
  [state : {"Running", "Suspending", "Suspended", "Ready", "Dead"}, gen : Nat,
   listed : BOOLEAN, timed : BOOLEAN, reason : {"None", "MsgRecv", "MsgSend", "Timeout"}]

SenderRefs ==
  [owner : Threads, gen : Nat, pool : BOOLEAN, call : BOOLEAN, msg : Msgs]

ReceiverRefs ==
  [owner : Threads, gen : Nat, pool : BOOLEAN, auto : BOOLEAN]

ReplyRefs ==
  [owner : Threads, gen : Nat, pool : BOOLEAN, msg : Msgs]

ChannelTypes ==
  /\ th \in [Threads -> ThreadRecs]
  /\ call \in [Threads -> Sends \cup Recvs \cup {"none"}]
  /\ count \in [Threads -> Nat] /\ \A t \in Threads : count[t] <= Limit[t]
  /\ buffer \in [Threads -> Nat]
  /\ lock \in Threads \cup {NoThread}
  /\ senders \in Seq(SenderRefs) /\ receivers \in Seq(ReceiverRefs)
  /\ replies \subseteq ReplyRefs
  /\ using \in [Threads -> ReplyRefs \cup {NoReply}]
  /\ fired \subseteq Msgs
  /\ got \in [Msgs -> Nat]
  /\ told \in [Msgs -> {"nothing", "ok", "error"}]

(***************************************************************************)
(* A thread that holds the lock runs, one that waits is in a blocking      *)
(* call, and in both cases a synchronous send's message is in the buffer.  *)
(***************************************************************************)
Locked(t) ==
  /\ th[t].state = "Running" /\ call[t] # "none" /\ count[t] > 0
  /\ call[t] \in Sends /\ ~IsAsync(call[t]) => buffer[t] = count[t]

Blocking == {"sync_send", "sync_call", "sync_recv"}

InCall(t) ==
  /\ call[t] \in Blocking /\ count[t] > 0 /\ th[t].gen > 0
  /\ call[t] \in Sends => buffer[t] = count[t]

HolderInv ==
  \A t \in Threads : (lock = t => Locked(t)) /\ (Waiting(t) => InCall(t))

-----------------------------------------------------------------------------
(* What a step does to the threads                                         *)

(***************************************************************************)
(* A suspended thread is made ready.                                       *)
(***************************************************************************)
Roused(u) ==
  /\ th[u].state = "Suspended" /\ th'[u].state = "Ready"
  /\ th'[u].gen = th[u].gen /\ th'[u].timed = th[u].timed

(***************************************************************************)
(* A thread is in the ready list only while it is Ready.                   *)
(***************************************************************************)
Tidy(h) == h.listed = TRUE => h.state = "Ready"

Calm(t) == th[t].timed = FALSE /\ Tidy(th[t])

(***************************************************************************)
(* The thread cannot run before somebody wakes it, if ever.                *)
(***************************************************************************)
Stuck(t) ==
  \/ Waiting(t) \/ th[t].state = "Dead"
  \/ th[t].state = "Ready" /\ th[t].listed = FALSE

(***************************************************************************)
(* The thread stays in the wait it is in, leaves it, or was in none.       *)
(***************************************************************************)
KeepsWait(u) ==
  /\ th[u].gen <= th'[u].gen /\ count[u] <= count'[u]
  /\ th[u].state = "Dead" => th'[u].state = "Dead"
  /\ Tidy(th[u]) => Tidy(th'[u])
  /\ th'[u].timed \in {th[u].timed, FALSE} \cup Timed
  /\ th'[u].state \in {"Suspending", "Suspended"} =>
       /\ Waiting(u)
       /\ th'[u].gen = th[u].gen /\ th'[u].timed = th[u].timed
       /\ call'[u] = call[u] /\ count'[u] = count[u] /\ buffer'[u] = buffer[u]
  /\ Stuck(u) /\ Calm(u) =>
       /\ th'[u].gen = th[u].gen /\ count'[u] = count[u] /\ buffer'[u] = buffer[u]
       /\ Stuck(u)' \/ (Roused(u) /\ th'[u].listed = TRUE)

(***************************************************************************)
(* The thread that holds the lock begins a wait.                           *)
(***************************************************************************)
Blocks(u) ==
  /\ lock = u /\ lock' = NoThread /\ call[u] \in Blocking
  /\ th'[u].state = "Suspending"
  /\ th'[u].gen = th[u].gen + 1 /\ th'[u].timed = th[u].timed /\ th'[u].listed = th[u].listed
  /\ call'[u] = call[u] /\ count'[u] = count[u] /\ buffer'[u] = buffer[u]

LEMMA MessageOfCall ==
  ASSUME ChannelTypes, NEW t \in Threads, count[t] > 0
  PROVE  Current(t) \in Msgs
<1>1. count[t] \in 1..Limit[t]
  BY ChannelAssumption DEF ChannelTypes
<1> QED BY <1>1 DEF Current, Msgs

LEMMA WokenRec ==
  ASSUME NEW h \in ThreadRecs, NEW reason \in {"MsgRecv", "MsgSend", "Timeout"}
  PROVE  /\ Woken(h, reason) \in ThreadRecs
         /\ Woken(h, reason).state = "Ready" /\ Woken(h, reason).listed = TRUE
         /\ Woken(h, reason).gen = h.gen /\ Woken(h, reason).timed = h.timed
BY DEF Woken, ThreadRecs

LEMMA ReadyRec ==
  ASSUME NEW h \in ThreadRecs, NEW k, k = [h EXCEPT !.state = "Ready"]
  PROVE  /\ k \in ThreadRecs /\ k.state = "Ready"
         /\ k.gen = h.gen /\ k.timed = h.timed /\ k.listed = h.listed
BY DEF ThreadRecs

LEMMA BlockedRec ==
  ASSUME NEW h \in ThreadRecs, NEW k, k = [h EXCEPT !.state = "Suspending", !.gen = @ + 1]
  PROVE  /\ k \in ThreadRecs /\ k.state = "Suspending"
         /\ k.gen = h.gen + 1 /\ k.timed = h.timed /\ k.listed = h.listed
<1>1. k = [state |-> "Suspending", gen |-> h.gen + 1, listed |-> h.listed, timed |-> h.timed,
           reason |-> h.reason]
  BY DEF ThreadRecs
<1> QED BY <1>1 DEF ThreadRecs

LEMMA SetThread ==
  ASSUME NEW f \in [Threads -> ThreadRecs], NEW x \in Threads, NEW h \in ThreadRecs,
         NEW g, g = [f EXCEPT ![x] = h]
  PROVE  /\ g \in [Threads -> ThreadRecs] /\ g[x] = h
         /\ \A u \in Threads : u # x => g[u] = f[u]
OBVIOUS

(***************************************************************************)
(* The caller, which runs, is about to wait.                               *)
(***************************************************************************)
LEMMA BlockedThreads ==
  ASSUME ChannelTypes, NEW t \in Threads
  PROVE  /\ Blocked(t) \in [Threads -> ThreadRecs]
         /\ \A u \in Threads : u # t => Blocked(t)[u] = th[u]
         /\ Blocked(t)[t].state = "Suspending" /\ Blocked(t)[t].gen = th[t].gen + 1
         /\ Blocked(t)[t].timed = th[t].timed /\ Blocked(t)[t].listed = th[t].listed
<1>1. th \in [Threads -> ThreadRecs]
  BY DEF ChannelTypes
<1>2. PICK h : h = [th[t] EXCEPT !.state = "Suspending", !.gen = @ + 1]
  OBVIOUS
<1>3. Blocked(t) = [th EXCEPT ![t] = h]
  BY <1>2 DEF Blocked
<1>4. /\ h \in ThreadRecs /\ h.state = "Suspending" /\ h.gen = th[t].gen + 1
      /\ h.timed = th[t].timed /\ h.listed = th[t].listed
  BY <1>1, <1>2, BlockedRec
<1>5. /\ Blocked(t) \in [Threads -> ThreadRecs] /\ Blocked(t)[t] = h
      /\ \A u \in Threads : u # t => Blocked(t)[u] = th[u]
  BY <1>1, <1>3, <1>4, SetThread
<1> QED BY <1>4, <1>5, Zenon

(***************************************************************************)
(* One suspended thread is woken, the others stay as they are.             *)
(***************************************************************************)
LEMMA WakesOne ==
  ASSUME NEW base \in [Threads -> ThreadRecs], NEW x \in Threads, th[x].state = "Suspended",
         base[x] = th[x], NEW reason \in {"MsgRecv", "MsgSend", "Timeout"},
         th' = [base EXCEPT ![x] = Woken(base[x], reason)]
  PROVE  /\ th' \in [Threads -> ThreadRecs]
         /\ Roused(x) /\ th'[x].listed = TRUE
         /\ \A u \in Threads : u # x => th'[u] = base[u]
<1>1. PICK h : h = Woken(base[x], reason)
  OBVIOUS
<1>2. /\ h \in ThreadRecs /\ h.state = "Ready" /\ h.listed = TRUE
      /\ h.gen = th[x].gen /\ h.timed = th[x].timed
  <2>1. base[x] \in ThreadRecs
    OBVIOUS
  <2>2. /\ h \in ThreadRecs /\ h.state = "Ready" /\ h.listed = TRUE
        /\ h.gen = base[x].gen /\ h.timed = base[x].timed
    BY <1>1, <2>1, WokenRec, Zenon
  <2> QED BY <2>2
<1>3. /\ th' \in [Threads -> ThreadRecs] /\ th'[x] = h
      /\ \A u \in Threads : u # x => th'[u] = base[u]
  BY <1>1, <1>2, SetThread, Zenon
<1> QED BY <1>2, <1>3, Zenon DEF Roused

(***************************************************************************)
(* A delivery wakes a suspended thread or none.                            *)
(***************************************************************************)
LEMMA SendRouses ==
  ASSUME NEW s, NEW r, s.owner \in Threads, r.owner \in Threads,
         NEW base \in [Threads -> ThreadRecs], NEW g, DoSend(s, r, base, g),
         \A u \in Threads : th[u].state = "Suspended" => base[u] = th[u]
  PROVE  /\ th' \in [Threads -> ThreadRecs]
         /\ \A u \in Threads : th'[u] = base[u] \/ (Roused(u) /\ th'[u].listed = TRUE)
         /\ r.gen # 0 => /\ Roused(r.owner)
                         /\ \A u \in Threads : u # r.owner => th'[u] = base[u]
         /\ r.gen = 0 => \A u \in Threads : th'[u] = base[u] \/ (u = s.owner /\ WakesSender(s))
         /\ r.gen = 0 /\ WakesSender(s) => Roused(s.owner)
<1>1. CASE r.gen # 0
  <2>1. /\ th[r.owner].state = "Suspended" /\ th' = [base EXCEPT ![r.owner] = Woken(base[r.owner], "MsgRecv")]
        /\ base[r.owner] = th[r.owner]
    BY <1>1 DEF DoSend, EndsWait
  <2>2. /\ th' \in [Threads -> ThreadRecs]
        /\ Roused(r.owner) /\ th'[r.owner].listed = TRUE
        /\ \A u \in Threads : u # r.owner => th'[u] = base[u]
    BY <2>1, WakesOne
  <2> QED BY <1>1, <2>2, Zenon
<1>2. CASE r.gen = 0 /\ WakesSender(s)
  <2>1. /\ th[s.owner].state = "Suspended" /\ th' = [base EXCEPT ![s.owner] = Woken(base[s.owner], "MsgSend")]
        /\ base[s.owner] = th[s.owner]
    BY <1>2 DEF DoSend, EndsWait, WakesSender
  <2>2. /\ th' \in [Threads -> ThreadRecs]
        /\ Roused(s.owner) /\ th'[s.owner].listed = TRUE
        /\ \A u \in Threads : u # s.owner => th'[u] = base[u]
    BY <2>1, WakesOne
  <2> QED BY <1>2, <2>2, Zenon
<1>3. CASE r.gen = 0 /\ ~WakesSender(s)
  BY <1>3 DEF DoSend
<1> QED BY <1>1, <1>2, <1>3

(***************************************************************************)
(* get_thread_as_ready took the thread and the copy failed.                *)
(***************************************************************************)
LEMMA ReadiesOne ==
  ASSUME th \in [Threads -> ThreadRecs], NEW x \in Threads, th[x].state = "Suspended",
         th' = [th EXCEPT ![x].state = "Ready"]
  PROVE  /\ th' \in [Threads -> ThreadRecs]
         /\ Roused(x) /\ th'[x].listed = th[x].listed
         /\ \A u \in Threads : u # x => th'[u] = th[u]
<1>1. PICK h : h = [th[x] EXCEPT !.state = "Ready"]
  OBVIOUS
<1>2. /\ h \in ThreadRecs /\ h.state = "Ready" /\ h.listed = th[x].listed
      /\ h.gen = th[x].gen /\ h.timed = th[x].timed
  BY <1>1, ReadyRec
<1>3. th' = [th EXCEPT ![x] = h]
  BY <1>1
<1>4. /\ th' \in [Threads -> ThreadRecs] /\ th'[x] = h
      /\ \A u \in Threads : u # x => th'[u] = th[u]
  BY <1>2, <1>3, SetThread
<1> QED BY <1>2, <1>4, Zenon DEF Roused

LEMMA SendFailRouses ==
  ASSUME th \in [Threads -> ThreadRecs], NEW s, NEW r, r.owner \in Threads, DoSendFails(s, r)
  PROVE  /\ th' \in [Threads -> ThreadRecs]
         /\ \A u \in Threads : th'[u] = th[u] \/ (Roused(u) /\ th'[u].listed = th[u].listed)
         /\ ~WriteFails => th' = th
<1>1. CASE th' = th
  BY <1>1
<1>2. CASE WriteFails /\ EndsWait(r) /\ th' = [th EXCEPT ![r.owner].state = "Ready"]
  BY <1>2, ReadiesOne DEF EndsWait
<1> QED BY <1>1, <1>2 DEF DoSendFails

(***************************************************************************)
(* What one pass of an operation's loop does.                              *)
(***************************************************************************)
GivesUp(t) ==
  /\ Return(t)
  /\ UNCHANGED <<th, queues, replyVars, got>>
  /\ \/ told' = told
     \/ call[t] = "try_send" /\ told' = [told EXCEPT ![Current(t)] = "error"]

Gives(t) ==
  \/ call[t] \in Sends \ {"sync_call"} /\ ToReceiver(t, th) /\ Return(t)
  \/ call[t] = "sync_call" /\ ToReceiver(t, Blocked(t)) /\ Block

Queues(t) ==
  \/ call[t] \in {"sync_send", "sync_call"} /\ QueueSender(t, FutureGen(t)) /\ th' = Blocked(t) /\ Block
  \/ call[t] \in {"async_send", "async_call"} /\ QueueSender(t, 0) /\ UNCHANGED th /\ Return(t)
  \/ call[t] = "sync_recv" /\ QueueReceiver(t, FutureGen(t)) /\ th' = Blocked(t) /\ Block
  \/ call[t] \in {"async_recv", "async_recv_auto"} /\ QueueReceiver(t, 0) /\ UNCHANGED th /\ Return(t)

LEMMA Passes ==
  ASSUME NEW t, Operate(t)
  PROVE  /\ lock = t /\ UNCHANGED <<count, buffer, open, spaces, gone>>
         /\ \/ GivesUp(t)
            \/ NextReceiver(t)
            \/ NextSender(t)
            \/ Gives(t)
            \/ call[t] \in Recvs /\ FromSender(t)
            \/ Queues(t)
<1>1. CASE TrySend(t) \/ TryRecv(t)
  BY <1>1 DEF Operate, TrySend, TryRecv, In, GivesUp, Gives, Sends, Recvs, history
<1>2. CASE SyncSend(t) \/ AsyncSend(t) \/ SyncCall(t) \/ AsyncCall(t)
  BY <1>2 DEF Operate, SyncSend, AsyncSend, SyncCall, AsyncCall, In, Gives, Queues, Sends
<1>3. CASE SyncRecv(t) \/ AsyncRecv(t)
  BY <1>3 DEF Operate, SyncRecv, AsyncRecv, In, Queues, Recvs
<1> QED BY <1>1, <1>2, <1>3 DEF Operate

(***************************************************************************)
(* Every wait goes on, ends or begins with the lock held.                  *)
(***************************************************************************)
ThreadsStep ==
  /\ th' \in [Threads -> ThreadRecs]
  /\ \A u \in Threads : KeepsWait(u) \/ Blocks(u)
  /\ \A u \in Threads : lock' = u => Locked(u)'

LEMMA HolderStep ==
  ASSUME ChannelTypes, HolderInv, ThreadsStep
  PROVE  HolderInv'
<1> SUFFICES ASSUME NEW u \in Threads, th'[u].state \in {"Suspending", "Suspended"}
             PROVE  InCall(u)'
  BY DEF ThreadsStep, HolderInv, Waiting
<1>1. CASE KeepsWait(u)
  BY <1>1 DEF KeepsWait, HolderInv, InCall
<1>2. CASE Blocks(u)
  <2>1. Locked(u)
    BY <1>2 DEF Blocks, HolderInv
  <2>2. th[u].gen \in Nat
    BY DEF ChannelTypes, ThreadRecs
  <2> QED BY <1>2, <2>1, <2>2 DEF Blocks, Locked, InCall, Blocking, IsAsync
<1> QED BY <1>1, <1>2 DEF ThreadsStep

LEMMA Keeps ==
  ASSUME ChannelTypes, th' \in [Threads -> ThreadRecs], NEW u \in Threads, th'[u] = th[u] \/ Roused(u),
         count'[u] = count[u], buffer'[u] = buffer[u], call'[u] = call[u] \/ ~Waiting(u)
  PROVE  KeepsWait(u)
<1>1. /\ th[u].gen \in Nat /\ count[u] \in Nat /\ th[u].listed \in BOOLEAN /\ th'[u].listed \in BOOLEAN
  BY DEF ChannelTypes, ThreadRecs
<1>2. CASE th'[u] = th[u]
  <2>1. Stuck(u) => Stuck(u)'
    BY <1>2 DEF Stuck, Waiting
  <2> QED BY <1>1, <1>2, <2>1 DEF KeepsWait, Waiting
<1>3. CASE Roused(u)
  <2>1. Stuck(u)' \/ th'[u].listed = TRUE
    BY <1>1, <1>3 DEF Roused, Stuck
  <2> QED BY <1>1, <1>3, <2>1 DEF KeepsWait, Roused, Tidy
<1> QED BY <1>2, <1>3

(***************************************************************************)
(* The caller's system call ends.                                          *)
(***************************************************************************)
LEMMA ReturnThreads ==
  ASSUME ChannelTypes, HolderInv, NEW t \in Threads, lock = t, Return(t), UNCHANGED <<count, buffer>>,
         th' \in [Threads -> ThreadRecs], \A u \in Threads : th'[u] = th[u] \/ Roused(u)
  PROVE  ThreadsStep /\ th'[t] = th[t]
<1>1. ~Waiting(t) /\ th[t].state = "Running"
  BY DEF HolderInv, Locked, Waiting
<1>2. \A u \in Threads : call'[u] = call[u] \/ ~Waiting(u)
  BY <1>1 DEF Return, ChannelTypes
<1>3. \A u \in Threads : KeepsWait(u)
  BY <1>2, Keeps, Zenon
<1>4. \A u \in Threads : lock' # u
  BY ChannelAssumption DEF Return
<1>5. th'[t] = th[t]
  BY <1>1 DEF Roused
<1> QED BY <1>3, <1>4, <1>5, Zenon DEF ThreadsStep

(***************************************************************************)
(* The caller blocks.                                                      *)
(***************************************************************************)
LEMMA BlockThreads ==
  ASSUME ChannelTypes, HolderInv, NEW t \in Threads, lock = t, Block, UNCHANGED <<count, buffer>>,
         call[t] \in Blocking, th' \in [Threads -> ThreadRecs],
         \A u \in Threads : th'[u] = Blocked(t)[u] \/ Roused(u)
  PROVE  ThreadsStep /\ Blocks(t) /\ \A u \in Threads : u # t => KeepsWait(u)
<1>1. th'[t] = Blocked(t)[t]
  BY DEF HolderInv, Locked, Roused
<1>2. Blocks(t)
  BY <1>1, BlockedThreads DEF Blocks, Block
<1>3. \A u \in Threads : u # t => KeepsWait(u)
  <2> TAKE u \in Threads
  <2> HAVE u # t
  <2>1. th'[u] = th[u] \/ Roused(u)
    BY BlockedThreads
  <2> QED BY <2>1, Keeps DEF Block
<1>4. \A u \in Threads : lock' # u
  BY ChannelAssumption DEF Block
<1> QED BY <1>2, <1>3, <1>4, Zenon DEF ThreadsStep

LEMMA PassThreads ==
  ASSUME ChannelTypes, HolderInv, NEW t \in Threads, lock = t, UNCHANGED <<count, buffer, lock, call>>,
         th' \in [Threads -> ThreadRecs], \A u \in Threads : th'[u] = th[u] \/ Roused(u)
  PROVE  ThreadsStep /\ th'[t] = th[t]
<1>1. th[t].state = "Running"
  BY DEF HolderInv, Locked
<1>2. th'[t] = th[t]
  BY <1>1 DEF Roused
<1>3. \A u \in Threads : KeepsWait(u)
  BY Keeps
<1>4. Locked(t)'
  BY <1>2 DEF HolderInv, Locked
<1> QED BY <1>2, <1>3, <1>4 DEF ThreadsStep

LEMMA HeadTyped ==
  ASSUME ChannelTypes
  PROVE  /\ senders # <<>> => Head(senders) \in SenderRefs /\ Tail(senders) \in Seq(SenderRefs)
         /\ receivers # <<>> => Head(receivers) \in ReceiverRefs /\ Tail(receivers) \in Seq(ReceiverRefs)
BY DEF ChannelTypes

LEMMA PartyTyped ==
  ASSUME ChannelTypes, NEW t \in Threads, count[t] > 0, NEW g \in Nat
  PROVE  Sender(t, g) \in SenderRefs /\ Receiver(t, g) \in ReceiverRefs
<1>1. Current(t) \in Msgs
  BY MessageOfCall
<1> QED BY <1>1 DEF Sender, Receiver, SenderRefs, ReceiverRefs, IsAsync, IsCall

(***************************************************************************)
(* The threads in every pass of an operation's loop.                       *)
(***************************************************************************)
LEMMA NextThreads ==
  ASSUME ChannelTypes, HolderInv, NEW t \in Threads, lock = t, UNCHANGED <<count, buffer>>,
         NextReceiver(t) \/ NextSender(t)
  PROVE  /\ ThreadsStep /\ th'[t] = th[t] /\ (~WriteFails => th' = th)
         /\ \A u \in Threads : th'[u] = th[u] \/ (Roused(u) /\ th'[u].listed = th[u].listed)
<1>1. PICK x, r : DoSendFails(x, r) /\ r.owner \in Threads
  <2>1. CASE NextReceiver(t)
    <3>1. Head(receivers).owner \in Threads
      BY <2>1, HeadTyped DEF NextReceiver, ReceiverRefs
    <3> QED BY <2>1, <3>1, Zenon DEF NextReceiver
  <2>2. CASE NextSender(t)
    <3>1. Receiver(t, 0).owner \in Threads
      BY DEF Receiver
    <3> QED BY <2>2, <3>1, Zenon DEF NextSender
  <2> QED BY <2>1, <2>2
<1>2. th \in [Threads -> ThreadRecs]
  BY DEF ChannelTypes
<1>3. /\ th' \in [Threads -> ThreadRecs]
      /\ \A u \in Threads : th'[u] = th[u] \/ (Roused(u) /\ th'[u].listed = th[u].listed)
      /\ ~WriteFails => th' = th
  BY <1>1, <1>2, SendFailRouses, Zenon
<1>4. UNCHANGED <<lock, call>>
  BY DEF NextReceiver, NextSender
<1> QED BY <1>3, <1>4, PassThreads, Zenon

LEMMA GiveRouses ==
  ASSUME ChannelTypes, HolderInv, NEW t \in Threads, lock = t,
         NEW base \in [Threads -> ThreadRecs], ToReceiver(t, base),
         \A u \in Threads : u # t => base[u] = th[u]
  PROVE  /\ th' \in [Threads -> ThreadRecs]
         /\ \A u \in Threads : th'[u] = base[u] \/ Roused(u)
<1>1. PICK x, r, g : DoSend(x, r, base, g) /\ x.owner \in Threads /\ r.owner \in Threads
  <2>1. Head(receivers).owner \in Threads /\ Sender(t, 0).owner \in Threads
    BY HeadTyped DEF ToReceiver, ReceiverRefs, Sender
  <2> QED BY <2>1, Zenon DEF ToReceiver
<1>2. th[t].state = "Running"
  BY DEF HolderInv, Locked
<1>3. \A u \in Threads : th[u].state = "Suspended" => base[u] = th[u]
  BY <1>2
<1> QED BY <1>1, <1>3, SendRouses, Zenon

LEMMA GiveThreads ==
  ASSUME ChannelTypes, HolderInv, NEW t \in Threads, lock = t, UNCHANGED <<count, buffer>>, Gives(t)
  PROVE  /\ ThreadsStep
         /\ call[t] = "sync_call" => Blocks(t) /\ \A u \in Threads : u # t => KeepsWait(u)
         /\ call[t] # "sync_call" => th'[t] = th[t]
<1>1. CASE call[t] # "sync_call" /\ ToReceiver(t, th) /\ Return(t)
  <2>1. th \in [Threads -> ThreadRecs]
    BY DEF ChannelTypes
  <2> QED BY <1>1, <2>1, GiveRouses, ReturnThreads
<1>2. CASE call[t] = "sync_call" /\ ToReceiver(t, Blocked(t)) /\ Block
  <2>1. call[t] \in Blocking
    BY <1>2 DEF Blocking
  <2>2. /\ th' \in [Threads -> ThreadRecs]
        /\ \A u \in Threads : th'[u] = Blocked(t)[u] \/ Roused(u)
    BY <1>2, BlockedThreads, GiveRouses
  <2> QED BY <1>2, <2>1, <2>2, BlockThreads
<1> QED BY <1>1, <1>2 DEF Gives

LEMMA TakeThreads ==
  ASSUME ChannelTypes, HolderInv, NEW t \in Threads, lock = t, UNCHANGED <<count, buffer>>, FromSender(t)
  PROVE  ThreadsStep /\ th'[t] = th[t]
<1>1. PICK x, r, g : DoSend(x, r, th, g) /\ x.owner \in Threads /\ r.owner \in Threads
  <2>1. Head(senders).owner \in Threads /\ Receiver(t, 0).owner \in Threads
    BY HeadTyped DEF FromSender, SenderRefs, Receiver
  <2> QED BY <2>1, Zenon DEF FromSender
<1>2. th \in [Threads -> ThreadRecs]
  BY DEF ChannelTypes
<1>3. /\ th' \in [Threads -> ThreadRecs]
      /\ \A u \in Threads : th'[u] = th[u] \/ Roused(u)
  BY <1>1, <1>2, SendRouses, Zenon
<1> QED BY <1>3, ReturnThreads DEF FromSender

LEMMA QueueThreads ==
  ASSUME ChannelTypes, HolderInv, NEW t \in Threads, lock = t, UNCHANGED <<count, buffer>>, Queues(t)
  PROVE  /\ ThreadsStep
         /\ call[t] \in Blocking => Blocks(t) /\ \A u \in Threads : u # t => KeepsWait(u)
         /\ call[t] \notin Blocking => th' = th
<1>1. CASE call[t] \in Blocking /\ th' = Blocked(t) /\ Block
  BY <1>1, BlockedThreads, BlockThreads
<1>2. CASE call[t] \notin Blocking /\ th' = th /\ Return(t)
  <2>1. th \in [Threads -> ThreadRecs]
    BY DEF ChannelTypes
  <2> QED BY <1>2, <2>1, ReturnThreads
<1> QED BY <1>1, <1>2 DEF Queues, Blocking

LEMMA GiveUpThreads ==
  ASSUME ChannelTypes, HolderInv, NEW t \in Threads, lock = t, UNCHANGED <<count, buffer>>, GivesUp(t)
  PROVE  ThreadsStep
<1>1. th' = th /\ th \in [Threads -> ThreadRecs]
  BY DEF GivesUp, ChannelTypes
<1> QED BY <1>1, ReturnThreads DEF GivesUp

(***************************************************************************)
(* The threads in every other step: outside the kernel's loops a thread    *)
(* moves alone, without the lock.                                          *)
(***************************************************************************)
LEMMA StillThreads ==
  ASSUME ChannelTypes, HolderInv, UNCHANGED <<count, buffer, lock, call>>,
         th' \in [Threads -> ThreadRecs], \A u \in Threads : th'[u] = th[u] \/ Roused(u)
  PROVE  ThreadsStep
<1>1. \A u \in Threads : KeepsWait(u)
  BY Keeps
<1>2. ASSUME NEW u \in Threads, lock' = u
      PROVE  Locked(u)'
  BY <1>2, PassThreads DEF ThreadsStep
<1> QED BY <1>1, <1>2, Zenon DEF ThreadsStep

LEMMA MoveThreads ==
  ASSUME ChannelTypes, HolderInv, NEW t \in Threads, NEW h \in ThreadRecs, th' = [th EXCEPT ![t] = h],
         h.gen = th[t].gen, th[t].state = "Dead" => h.state = "Dead", Tidy(th[t]) => Tidy(h),
         h.timed \in {th[t].timed, FALSE},
         Stuck(t) /\ Calm(t) => h.state \in {"Suspending", "Suspended", "Dead"},
         h.state \in {"Suspending", "Suspended"} =>
           Waiting(t) /\ h.timed = th[t].timed /\ call'[t] = call[t],
         \A u \in Threads : u # t => call'[u] = call[u],
         UNCHANGED <<count, buffer, lock>>, lock # t
  PROVE  ThreadsStep /\ th'[t] = h /\ \A u \in Threads : u # t => th'[u] = th[u]
<1>1. /\ th' \in [Threads -> ThreadRecs] /\ th'[t] = h
      /\ \A u \in Threads : u # t => th'[u] = th[u]
  <2>1. th \in [Threads -> ThreadRecs]
    BY DEF ChannelTypes
  <2> QED BY <2>1, SetThread
<1>2. \A u \in Threads : u # t => KeepsWait(u)
  BY <1>1, Keeps, Zenon
<1>3. KeepsWait(t)
  <2>1. th[t].gen \in Nat /\ count[t] \in Nat
    BY DEF ChannelTypes, ThreadRecs
  <2>2. h.state \in {"Suspending", "Suspended", "Dead"} => Stuck(t)'
    BY <1>1 DEF Stuck, Waiting
  <2>3. Tidy(th[t]) => Tidy(th'[t])
    BY <1>1
  <2>4. Stuck(t) /\ Calm(t) => Stuck(t)'
    BY <2>2
  <2>5. th'[t].gen = th[t].gen /\ th'[t].timed \in {th[t].timed, FALSE}
    BY <1>1
  <2>6. th[t].state = "Dead" => th'[t].state = "Dead"
    BY <1>1
  <2>7. count'[t] = count[t] /\ buffer'[t] = buffer[t]
    OBVIOUS
  <2>8. th'[t].state \in {"Suspending", "Suspended"} =>
          Waiting(t) /\ th'[t].timed = th[t].timed /\ call'[t] = call[t]
    BY <1>1
  <2>9. th[t].gen <= th'[t].gen /\ count[t] <= count'[t]
    BY <2>1, <2>5, <2>7
  <2> QED BY <2>3, <2>4, <2>5, <2>6, <2>7, <2>8, <2>9, Zenon DEF KeepsWait
<1>4. ASSUME NEW u \in Threads, lock' = u
      PROVE  Locked(u)'
  BY <1>1, <1>4 DEF HolderInv, Locked
<1> QED BY <1>1, <1>2, <1>3, <1>4, Zenon DEF ThreadsStep

LEMMA StartThreads ==
  ASSUME ChannelTypes, HolderInv, NEW t \in Threads, NEW o \in Sends \cup Recvs, NEW timed \in Timed,
         Start(t, o, timed)
  PROVE  /\ ThreadsStep
         /\ th'[t].state = "Running" /\ th'[t].timed = timed /\ th'[t].listed = th[t].listed
         /\ th'[t].gen = th[t].gen
         /\ \A u \in Threads : u # t => th'[u] = th[u]
<1>1. PICK h : h = [th[t] EXCEPT !.timed = timed]
  OBVIOUS
<1>2. th[t] \in ThreadRecs /\ th[t].state = "Running" /\ timed \in BOOLEAN
  BY ChannelAssumption DEF ChannelTypes, Start, Free
<1>3. /\ h \in ThreadRecs /\ h.state = "Running" /\ h.gen = th[t].gen
      /\ h.timed = timed /\ h.listed = th[t].listed
  BY <1>1, <1>2 DEF ThreadRecs
<1>4. /\ th' \in [Threads -> ThreadRecs] /\ th'[t] = h
      /\ \A u \in Threads : u # t => th'[u] = th[u]
  <2>1. th \in [Threads -> ThreadRecs] /\ th' = [th EXCEPT ![t] = h]
    BY <1>1 DEF ChannelTypes, Start
  <2> QED BY <1>3, <2>1, SetThread
<1>5. /\ lock' = t
      /\ call'[t] = o /\ \A u \in Threads : u # t => call'[u] = call[u]
      /\ count'[t] = count[t] + 1 /\ \A u \in Threads : u # t => count'[u] = count[u]
      /\ o \in Sends /\ ~IsAsync(o) => buffer'[t] = count[t] + 1
      /\ \A u \in Threads : u # t => buffer'[u] = buffer[u]
  BY DEF Start, ChannelTypes
<1>6. ASSUME NEW u \in Threads, u # t
      PROVE  KeepsWait(u)
  BY <1>4, <1>5, <1>6, Keeps
<1>7. KeepsWait(t)
  <2>1. th[t].gen \in Nat /\ count[t] \in Nat
    BY DEF ChannelTypes, ThreadRecs
  <2>2. ~Stuck(t)
    BY <1>2 DEF Stuck, Waiting
  <2>3. Tidy(th[t]) => Tidy(th'[t])
    BY <1>2, <1>3, <1>4 DEF Tidy
  <2>4. th'[t].gen = th[t].gen /\ th'[t].timed \in Timed /\ th'[t].state = "Running"
    BY <1>3, <1>4
  <2>5. th[t].gen <= th'[t].gen /\ count[t] <= count'[t]
    BY <1>5, <2>1, <2>4
  <2>6. th[t].state # "Dead" /\ th'[t].state \notin {"Suspending", "Suspended"}
    BY <1>2, <2>4
  <2>7. th'[t].timed \in {th[t].timed, FALSE} \cup Timed
    BY <2>4
  <2> QED BY <2>2, <2>3, <2>5, <2>6, <2>7, Zenon DEF KeepsWait
<1>8. Locked(t)'
  BY <1>3, <1>4, <1>5 DEF Locked, Sends, Recvs, ChannelTypes
<1> QED BY <1>3, <1>4, <1>5, <1>6, <1>7, <1>8, Zenon DEF ThreadsStep

LEMMA AloneThreads ==
  ASSUME ChannelTypes, HolderInv, NEW t \in Threads,
         Suspend(t) \/ Timeout(t) \/ Resume(t) \/ \E whole : Exit(t, whole)
  PROVE  /\ ThreadsStep
         /\ \A u \in Threads : Roused(u) => th[u].timed = TRUE
<1>1. th[t] \in ThreadRecs /\ \A u \in Threads : u # t => call'[u] = call[u]
  BY DEF ChannelTypes, Suspend, Timeout, Resume, Exit, Unmoved
<1>2. UNCHANGED <<count, buffer, lock>> /\ lock # t
  BY DEF HolderInv, Locked, Suspend, Timeout, Resume, Exit, Unmoved
<1>3. \A u \in Threads : th'[u] = th[u] => ~Roused(u)
  BY DEF Roused
<1>4. CASE Suspend(t)
  <2>1. PICK h : h = [th[t] EXCEPT !.state = "Suspended"]
    OBVIOUS
  <2>2. /\ h \in ThreadRecs /\ h.gen = th[t].gen /\ h.timed = th[t].timed /\ h.state = "Suspended"
        /\ h.listed = th[t].listed
    BY <1>1, <2>1 DEF ThreadRecs
  <2>3. th' = [th EXCEPT ![t] = h] /\ Waiting(t) /\ call' = call /\ th[t].state = "Suspending"
    BY <1>4, <2>1 DEF Suspend, Waiting, Unmoved
  <2>4. Tidy(th[t]) => Tidy(h)
    BY <2>2, <2>3 DEF Tidy
  <2>5. ThreadsStep /\ th'[t] = h /\ \A u \in Threads : u # t => th'[u] = th[u]
    BY <1>1, <1>2, <2>2, <2>3, <2>4, MoveThreads
  <2> QED BY <1>3, <2>2, <2>5 DEF Roused
<1>5. CASE Timeout(t)
  <2>1. PICK h : h = Woken(th[t], "Timeout")
    OBVIOUS
  <2>2. h \in ThreadRecs /\ h.state = "Ready" /\ h.gen = th[t].gen /\ h.timed = th[t].timed
    BY <1>1, <2>1, WokenRec
  <2>3. th' = [th EXCEPT ![t] = h] /\ th[t].state = "Suspended" /\ th[t].timed = TRUE
    BY <1>1, <1>5, <2>1 DEF Timeout, ThreadRecs
  <2>4. ~Calm(t) /\ Tidy(h)
    BY <2>2, <2>3 DEF Calm, Tidy
  <2>5. ThreadsStep /\ th'[t] = h /\ \A u \in Threads : u # t => th'[u] = th[u]
    BY <1>1, <1>2, <2>2, <2>3, <2>4, MoveThreads
  <2> QED BY <1>3, <2>3, <2>5
<1>6. CASE Resume(t)
  <2>1. PICK h : h = [th[t] EXCEPT !.state = "Running", !.listed = FALSE, !.timed = FALSE, !.reason = "None"]
    OBVIOUS
  <2>2. /\ h \in ThreadRecs /\ h.state = "Running" /\ h.gen = th[t].gen
        /\ h.timed = FALSE /\ h.listed = FALSE
    BY <1>1, <2>1 DEF ThreadRecs
  <2>3. th' = [th EXCEPT ![t] = h] /\ th[t].state = "Ready" /\ th[t].listed = TRUE
    BY <1>1, <1>6, <2>1 DEF Resume, ThreadRecs
  <2>4. ~Stuck(t) /\ Tidy(h)
    BY <2>2, <2>3 DEF Stuck, Tidy, Waiting
  <2>5. ThreadsStep /\ th'[t] = h /\ \A u \in Threads : u # t => th'[u] = th[u]
    BY <1>1, <1>2, <2>2, <2>3, <2>4, MoveThreads
  <2> QED BY <1>3, <2>2, <2>5 DEF Roused
<1>7. CASE \E whole : Exit(t, whole)
  <2>1. PICK h : h = [th[t] EXCEPT !.state = "Dead", !.listed = FALSE]
    OBVIOUS
  <2>2. /\ h \in ThreadRecs /\ h.state = "Dead" /\ h.gen = th[t].gen
        /\ h.timed = th[t].timed /\ h.listed = FALSE
    BY <1>1, <2>1 DEF ThreadRecs
  <2>3. th' = [th EXCEPT ![t] = h]
    BY <1>7, <2>1 DEF Exit
  <2>4. Tidy(h)
    BY <2>2 DEF Tidy
  <2>5. ThreadsStep /\ th'[t] = h /\ \A u \in Threads : u # t => th'[u] = th[u]
    BY <1>1, <1>2, <2>2, <2>3, <2>4, MoveThreads
  <2> QED BY <1>3, <2>2, <2>5 DEF Roused
<1> QED BY <1>4, <1>5, <1>6, <1>7

LEMMA ReplyThreads ==
  ASSUME ChannelTypes, HolderInv, NEW t \in Threads, Reply(t)
  PROVE  /\ ThreadsStep
         /\ \A u \in Threads : th'[u] = th[u] \/ Roused(u)
         /\ \A u \in Threads : th'[u] = th[u] \/ (~using[t].pool /\ u = using[t].owner /\ EndsWait(using[t]))
<1> DEFINE r == using[t]
<1>1. th \in [Threads -> ThreadRecs] /\ r.owner \in Threads
  BY DEF ChannelTypes, Reply, ReplyRefs
<1> HIDE DEF r
<1>2. /\ th' \in [Threads -> ThreadRecs]
      /\ \A u \in Threads : th'[u] = th[u] \/ Roused(u)
      /\ \A u \in Threads : th'[u] = th[u] \/ (~r.pool /\ u = r.owner /\ EndsWait(r))
  <2>1. CASE th' = th
    BY <1>1, <2>1
  <2>2. CASE ~r.pool /\ EndsWait(r) /\ th' = [th EXCEPT ![r.owner] = Woken(th[r.owner], "MsgRecv")]
    <3>1. th[r.owner].state = "Suspended"
      BY <2>2 DEF EndsWait
    <3>2. /\ th' \in [Threads -> ThreadRecs] /\ Roused(r.owner)
          /\ \A u \in Threads : u # r.owner => th'[u] = th[u]
      BY <1>1, <2>2, <3>1, WakesOne
    <3> QED BY <2>2, <3>2, Zenon
  <2>3. CASE ~r.pool /\ EndsWait(r) /\ th' = [th EXCEPT ![r.owner].state = "Ready"]
    BY <1>1, <2>3, ReadiesOne DEF EndsWait
  <2>4. \/ th' = th
        \/ ~r.pool /\ EndsWait(r) /\ th' = [th EXCEPT ![r.owner] = Woken(th[r.owner], "MsgRecv")]
        \/ ~r.pool /\ EndsWait(r) /\ th' = [th EXCEPT ![r.owner].state = "Ready"]
    BY DEF Reply, ReplyAnswers, ReplyFails, r
  <2> QED BY <2>1, <2>2, <2>3, <2>4
<1>3. UNCHANGED <<count, buffer, lock, call>>
  BY DEF Reply
<1> QED BY <1>2, <1>3, StillThreads DEF r

-----------------------------------------------------------------------------
(* Types                                                                   *)

LEMMA OneMore ==
  ASSUME NEW f \in [Msgs -> Nat], NEW m, NEW g, g = [f EXCEPT ![m] = f[m] + 1]
  PROVE  /\ g \in [Msgs -> Nat]
         /\ \A n \in Msgs : n # m => g[n] = f[n]
         /\ m \in Msgs => g[m] = f[m] + 1
<1>1. g = [n \in Msgs |-> IF n = m THEN f[m] + 1 ELSE f[n]]
  BY Zenon
<1>2. \A n \in Msgs : f[n] \in Nat /\ f[n] + 1 \in Nat
  OBVIOUS
<1> QED BY <1>1, <1>2

LEMMA SendTyped ==
  ASSUME ChannelTypes, NEW s \in SenderRefs, NEW r, NEW base, NEW g \in Nat, DoSend(s, r, base, g)
  PROVE  /\ got' \in [Msgs -> Nat] /\ told' \in [Msgs -> {"nothing", "ok", "error"}]
         /\ replies' \subseteq ReplyRefs /\ using' = using /\ fired' = fired
<1>1. PICK m : m = Content(s)
  OBVIOUS
<1>2. got' = [got EXCEPT ![m] = got[m] + 1]
  BY <1>1 DEF DoSend
<1>3. got' \in [Msgs -> Nat]
  <2>1. got \in [Msgs -> Nat]
    BY DEF ChannelTypes
  <2> QED BY <1>2, <2>1, OneMore, Zenon
<1>4. told' = told \/ told' = [told EXCEPT ![s.msg] = "ok"]
  BY DEF DoSend, Acknowledge
<1>5. told' \in [Msgs -> {"nothing", "ok", "error"}]
  BY <1>4 DEF ChannelTypes
<1>6. ReplyTo(s, g) \in ReplyRefs
  BY DEF ReplyTo, ReplyRefs, SenderRefs
<1> QED BY <1>3, <1>5, <1>6 DEF DoSend, ChannelTypes

LEMMA GiveTyped ==
  ASSUME ChannelTypes, HolderInv, NEW t \in Threads, lock = t, Gives(t)
  PROVE  /\ got' \in [Msgs -> Nat] /\ told' \in [Msgs -> {"nothing", "ok", "error"}]
         /\ replies' \subseteq ReplyRefs /\ using' = using /\ fired' = fired
         /\ senders' = senders /\ receivers' \in Seq(ReceiverRefs)
<1>1. PICK base : ToReceiver(t, base)
  BY Zenon DEF Gives
<1>2. Sender(t, 0) \in SenderRefs
  BY PartyTyped DEF HolderInv, Locked
<1>3. FutureGen(t) \in Nat
  BY DEF FutureGen, ChannelTypes, ThreadRecs
<1>4. DoSend(Sender(t, 0), Head(receivers), base, FutureGen(t))
  BY <1>1 DEF ToReceiver
<1>5. receivers' \in Seq(ReceiverRefs) /\ senders' = senders
  <2>1. Head(receivers) \in ReceiverRefs /\ Tail(receivers) \in Seq(ReceiverRefs)
    BY <1>1, HeadTyped DEF ToReceiver
  <2> QED BY <1>1, <2>1 DEF ToReceiver, Requeue
<1> QED BY <1>2, <1>3, <1>4, <1>5, SendTyped, Zenon

LEMMA TakeTyped ==
  ASSUME ChannelTypes, HolderInv, NEW t \in Threads, lock = t, FromSender(t)
  PROVE  /\ got' \in [Msgs -> Nat] /\ told' \in [Msgs -> {"nothing", "ok", "error"}]
         /\ replies' \subseteq ReplyRefs /\ using' = using /\ fired' = fired
         /\ senders' \in Seq(SenderRefs) /\ receivers' \in Seq(ReceiverRefs)
<1>1. Head(senders) \in SenderRefs /\ Tail(senders) \in Seq(SenderRefs)
  BY HeadTyped DEF FromSender
<1>2. Head(senders).gen \in Nat
  BY <1>1 DEF SenderRefs
<1>3. Receiver(t, 0) \in ReceiverRefs
  BY PartyTyped DEF HolderInv, Locked
<1>4. senders' \in Seq(SenderRefs) /\ receivers' \in Seq(ReceiverRefs)
  BY <1>1, <1>3 DEF FromSender, Requeue, ChannelTypes
<1>5. DoSend(Head(senders), Receiver(t, 0), th, Head(senders).gen)
  BY DEF FromSender
<1> QED BY <1>1, <1>2, <1>4, <1>5, SendTyped, Zenon

LEMMA AppendTyped ==
  ASSUME NEW S, NEW q \in Seq(S), NEW e \in S
  PROVE  Append(q, e) \in Seq(S)
OBVIOUS

LEMMA QueueTyped ==
  ASSUME ChannelTypes, HolderInv, NEW t \in Threads, lock = t, Queues(t)
  PROVE  /\ UNCHANGED <<got, told, replies, using, fired>>
         /\ senders' \in Seq(SenderRefs) /\ receivers' \in Seq(ReceiverRefs)
<1>1. PICK g \in Nat : QueueSender(t, g) \/ QueueReceiver(t, g)
  <2>1. FutureGen(t) \in Nat
    BY DEF FutureGen, ChannelTypes, ThreadRecs
  <2> QED BY <2>1 DEF Queues
<1>2. Sender(t, g) \in SenderRefs /\ Receiver(t, g) \in ReceiverRefs
  BY PartyTyped DEF HolderInv, Locked
<1>3. UNCHANGED <<got, told, replies, using, fired>>
  BY <1>1 DEF QueueSender, QueueReceiver, replyVars, history
<1>4. senders \in Seq(SenderRefs) /\ receivers \in Seq(ReceiverRefs)
  BY DEF ChannelTypes
<1>5. \/ senders' = Append(senders, Sender(t, g)) /\ receivers' = receivers
      \/ receivers' = Append(receivers, Receiver(t, g)) /\ senders' = senders
  BY <1>1 DEF QueueSender, QueueReceiver
<1>6. CASE senders' = Append(senders, Sender(t, g)) /\ receivers' = receivers
  BY <1>2, <1>3, <1>4, <1>6, AppendTyped, Zenon
<1>7. CASE receivers' = Append(receivers, Receiver(t, g)) /\ senders' = senders
  BY <1>2, <1>3, <1>4, <1>7, AppendTyped, Zenon
<1> QED BY <1>5, <1>6, <1>7

LEMMA NextTyped ==
  ASSUME ChannelTypes, NEW t \in Threads, NextReceiver(t) \/ NextSender(t)
  PROVE  /\ UNCHANGED <<got, told, replies, using, fired>>
         /\ senders' \in Seq(SenderRefs) /\ receivers' \in Seq(ReceiverRefs)
<1>1. UNCHANGED <<got, told, replies, using, fired>>
  BY DEF NextReceiver, NextSender, DoSendFails, replyVars, history
<1> QED BY <1>1, HeadTyped DEF NextReceiver, NextSender, ChannelTypes

(***************************************************************************)
(* Every system call returns, goes on or waits.                            *)
(***************************************************************************)
LEMMA CallTyped ==
  ASSUME ChannelTypes, NEW t \in Threads, Operate(t)
  PROVE  /\ call' \in [Threads -> Sends \cup Recvs \cup {"none"}]
         /\ lock' \in Threads \cup {NoThread}
<1>1. call' = call \/ call' = [call EXCEPT ![t] = "none"]
  BY Passes, Zenon DEF GivesUp, NextReceiver, NextSender, Gives, FromSender, Queues, Return, Block
<1>2. lock' = lock \/ lock' = NoThread
  BY Passes, Zenon DEF GivesUp, NextReceiver, NextSender, Gives, FromSender, Queues, Return, Block
<1> QED BY <1>1, <1>2 DEF ChannelTypes

LEMMA OperateTyped ==
  ASSUME ChannelTypes, HolderInv, NEW t \in Threads, Operate(t)
  PROVE  ThreadsStep /\ ChannelTypes'
<1>1. lock = t /\ UNCHANGED <<count, buffer>>
  BY Passes
<1>2. ASSUME ThreadsStep, got' \in [Msgs -> Nat], told' \in [Msgs -> {"nothing", "ok", "error"}],
             replies' \subseteq ReplyRefs, using' = using, fired' = fired,
             senders' \in Seq(SenderRefs), receivers' \in Seq(ReceiverRefs)
      PROVE  ThreadsStep /\ ChannelTypes'
  BY <1>1, <1>2, CallTyped DEF ThreadsStep, ChannelTypes
<1>3. CASE GivesUp(t)
  <2>1. ThreadsStep
    BY <1>1, <1>3, GiveUpThreads
  <2>2. told' \in [Msgs -> {"nothing", "ok", "error"}]
    BY <1>3 DEF GivesUp, ChannelTypes
  <2> QED BY <1>2, <1>3, <2>1, <2>2 DEF GivesUp, queues, replyVars, ChannelTypes
<1>4. CASE NextReceiver(t) \/ NextSender(t)
  <2>1. ThreadsStep
    BY <1>1, <1>4, NextThreads
  <2> QED BY <1>2, <1>4, <2>1, NextTyped DEF ChannelTypes
<1>5. CASE Gives(t)
  <2>1. ThreadsStep
    BY <1>1, <1>5, GiveThreads
  <2> QED BY <1>1, <1>2, <1>5, <2>1, GiveTyped DEF ChannelTypes
<1>6. CASE FromSender(t)
  <2>1. ThreadsStep
    BY <1>1, <1>6, TakeThreads
  <2> QED BY <1>1, <1>2, <1>6, <2>1, TakeTyped
<1>7. CASE Queues(t)
  <2>1. ThreadsStep
    BY <1>1, <1>7, QueueThreads
  <2> QED BY <1>1, <1>2, <1>7, <2>1, QueueTyped DEF ChannelTypes
<1> QED BY <1>3, <1>4, <1>5, <1>6, <1>7, Passes

LEMMA StartTyped ==
  ASSUME ChannelTypes, HolderInv, NEW t \in Threads, NEW o \in Sends \cup Recvs, NEW timed \in Timed,
         Start(t, o, timed)
  PROVE  ThreadsStep /\ ChannelTypes'
<1>1. ThreadsStep
  BY StartThreads
<1>2. /\ call' \in [Threads -> Sends \cup Recvs \cup {"none"}] /\ lock' \in Threads
      /\ buffer' \in [Threads -> Nat]
  BY DEF Start, ChannelTypes
<1>3. count' \in [Threads -> Nat] /\ \A u \in Threads : count'[u] <= Limit[u]
  <2>1. /\ count \in [Threads -> Nat] /\ \A u \in Threads : count[u] <= Limit[u]
        /\ count' = [count EXCEPT ![t] = count[t] + 1] /\ count[t] < Limit[t]
        /\ Limit[t] \in Nat
    BY ChannelAssumption DEF Start, ChannelTypes
  <2> QED BY <2>1
<1> QED BY <1>1, <1>2, <1>3 DEF ThreadsStep, Start, queues, replyVars, history, ChannelTypes

LEMMA AloneTyped ==
  ASSUME ChannelTypes, HolderInv, NEW t \in Threads,
         Suspend(t) \/ Timeout(t) \/ Resume(t) \/ \E whole : Exit(t, whole)
  PROVE  ThreadsStep /\ ChannelTypes'
<1>1. ThreadsStep
  BY AloneThreads
<1>2. UNCHANGED <<count, buffer, lock, senders, receivers, replies, using, fired, got>>
  BY DEF Suspend, Timeout, Resume, Exit, Unmoved, queues, replyVars, history
<1>3. call' \in [Threads -> Sends \cup Recvs \cup {"none"}]
  BY DEF Suspend, Timeout, Resume, Exit, Unmoved, ChannelTypes
<1>4. told' \in [Msgs -> {"nothing", "ok", "error"}]
  BY DEF Suspend, Timeout, Resume, Exit, Unmoved, history, ChannelTypes
<1> QED BY <1>1, <1>2, <1>3, <1>4 DEF ThreadsStep, ChannelTypes

LEMMA ReplyTyped ==
  ASSUME ChannelTypes, HolderInv, NEW t \in Threads, Reply(t)
  PROVE  ThreadsStep /\ ChannelTypes'
<1>1. ThreadsStep
  BY ReplyThreads
<1>2. UNCHANGED <<call, count, buffer, lock, senders, receivers, got>>
  BY DEF Reply, queues
<1>3. using[t] \in ReplyRefs
  BY DEF Reply, ChannelTypes
<1>4. using[t].msg \in Msgs
  BY <1>3 DEF ReplyRefs
<1>5. fired' \subseteq Msgs /\ using' \in [Threads -> ReplyRefs \cup {NoReply}]
  BY <1>4 DEF Reply, ChannelTypes
<1>6. replies' \subseteq ReplyRefs /\ told' \in [Msgs -> {"nothing", "ok", "error"}]
  BY DEF Reply, ReplyAnswers, ReplyFails, ChannelTypes
<1> QED BY <1>1, <1>2, <1>5, <1>6 DEF ThreadsStep, ChannelTypes

LEMMA StillTyped ==
  ASSUME ChannelTypes, HolderInv, NEW t \in Threads,
         DropChannel(t) \/ DropMemory(t) \/ \E r \in replies : GetReply(t, r) \/ DropReply(t, r)
  PROVE  ThreadsStep /\ ChannelTypes'
<1>1. UNCHANGED <<th, call, count, buffer, lock, fired, got, told>>
  BY DEF DropChannel, DropMemory, GetReply, DropReply, queues, replyVars, history
<1>2. /\ replies' \subseteq ReplyRefs /\ using' \in [Threads -> ReplyRefs \cup {NoReply}]
      /\ senders' \in Seq(SenderRefs) /\ receivers' \in Seq(ReceiverRefs)
  <2>1. CASE DropChannel(t)
    <3>1. senders' = <<>> /\ receivers' = <<>> /\ UNCHANGED <<replies, using>>
      BY <2>1 DEF DropChannel, replyVars
    <3> QED BY <3>1 DEF ChannelTypes
  <2>2. CASE \E r \in replies : GetReply(t, r)
    BY <2>2 DEF GetReply, queues, ChannelTypes
  <2>3. CASE \E r \in replies : DropReply(t, r)
    BY <2>3 DEF DropReply, queues, ChannelTypes
  <2>4. CASE DropMemory(t)
    BY <2>4 DEF DropMemory, queues, replyVars, ChannelTypes
  <2> QED BY <2>1, <2>2, <2>3, <2>4
<1>3. ThreadsStep
  BY <1>1, StillThreads DEF ChannelTypes
<1> QED BY <1>1, <1>2, <1>3 DEF ChannelTypes
=============================================================================
