-------------------------- MODULE ChannelDelivery ----------------------------
(***************************************************************************)
(* A call is answered once, an acknowledged message was received, and a    *)
(* message is received once.                                               *)
(***************************************************************************)
EXTENDS ChannelEntries

-----------------------------------------------------------------------------
(* A call is answered at most once                                         *)

(***************************************************************************)
(* An answer leaves a trace in reply_fired, which is tested before the     *)
(* next one.                                                               *)
(***************************************************************************)
AnswerInv ==
  /\ answered \in [Msgs -> Nat]
  /\ \A m \in Msgs : answered[m] <= 1 /\ (answered[m] = 1 => m \in fired)

(***************************************************************************)
(* Only Reply touches answered and fired.                                  *)
(***************************************************************************)
LEMMA OnlyReplyAnswers ==
  ASSUME NEW t \in Threads,
         \/ Operate(t) \/ Suspend(t) \/ Resume(t) \/ Timeout(t) \/ DropChannel(t) \/ DropMemory(t)
         \/ \E o, timed : Start(t, o, timed)
         \/ \E r : GetReply(t, r) \/ DropReply(t, r)
         \/ \E whole : Exit(t, whole)
  PROVE  answered' = answered /\ fired' = fired
<1>1. CASE Operate(t)
  <2>1. ASSUME NEW s, NEW r, NEW base, NEW g, DoSend(s, r, base, g)
        PROVE  answered' = answered /\ fired' = fired
    BY <2>1 DEF DoSend
  <2>2. ASSUME NEW s, NEW r, DoSendFails(s, r)
        PROVE  answered' = answered /\ fired' = fired
    BY <2>2 DEF DoSendFails, replyVars, history
  <2>3. ASSUME NextReceiver(t) \/ NextSender(t) \/ FromSender(t) \/ \E base : ToReceiver(t, base)
        PROVE  answered' = answered /\ fired' = fired
    BY <2>1, <2>2, <2>3, Zenon DEF NextReceiver, NextSender, FromSender, ToReceiver
  <2>4. ASSUME \E g : QueueSender(t, g) \/ QueueReceiver(t, g)
        PROVE  answered' = answered /\ fired' = fired
    BY <2>4 DEF QueueSender, QueueReceiver, replyVars, history
  <2>5. CASE TrySend(t)
    BY <2>3, <2>5 DEF TrySend, replyVars
  <2>6. CASE TryRecv(t)
    BY <2>3, <2>6 DEF TryRecv, replyVars, history
  <2>7. CASE SyncSend(t) \/ AsyncSend(t) \/ SyncCall(t) \/ AsyncCall(t)
    BY <2>3, <2>4, <2>7, Zenon DEF SyncSend, AsyncSend, SyncCall, AsyncCall
  <2>8. CASE SyncRecv(t) \/ AsyncRecv(t)
    BY <2>3, <2>4, <2>8, Zenon DEF SyncRecv, AsyncRecv
  <2> QED BY <1>1, <2>5, <2>6, <2>7, <2>8, Zenon DEF Operate
<1>2. CASE Suspend(t) \/ Resume(t) \/ Timeout(t) \/ DropChannel(t) \/ DropMemory(t)
  BY <1>2 DEF Suspend, Resume, Timeout, DropChannel, DropMemory, Unmoved, replyVars, history
<1>3. CASE \E o, timed : Start(t, o, timed)
  BY <1>3 DEF Start, replyVars, history
<1>4. CASE \E r : GetReply(t, r) \/ DropReply(t, r)
  BY <1>4 DEF GetReply, DropReply, history
<1>5. CASE \E whole : Exit(t, whole)
  BY <1>5 DEF Exit, replyVars, history
<1> QED BY <1>1, <1>2, <1>3, <1>4, <1>5

(***************************************************************************)
(* The swap of reply_fired lets one user of a reply through.               *)
(***************************************************************************)
LEMMA ReplyStep ==
  ASSUME AnswerInv, NEW t \in Threads, Reply(t)
  PROVE  AnswerInv'
<1> DEFINE m == using[t].msg
<1>1. CASE answered' = answered /\ fired \subseteq fired'
  BY <1>1 DEF AnswerInv
<1>2. CASE /\ m \notin fired /\ fired' = fired \cup {m}
           /\ answered' = [answered EXCEPT ![m] = @ + 1]
  <2>1. m \in Msgs => answered[m] = 0
    BY <1>2 DEF AnswerInv
  <2> HIDE DEF m
  <2>2. answered' \in [Msgs -> Nat]
    <3>1. answered' = [n \in Msgs |-> IF n = m THEN answered[m] + 1 ELSE answered[n]]
      BY <1>2, Zenon DEF AnswerInv
    <3>2. \A n \in Msgs : answered[n] \in Nat /\ answered[n] + 1 \in Nat
      BY DEF AnswerInv
    <3> HIDE DEF AnswerInv
    <3> QED BY <3>1, <3>2
  <2>3. ASSUME NEW n \in Msgs
        PROVE  answered'[n] <= 1 /\ (answered'[n] = 1 => n \in fired')
    <3>1. CASE n = m
      BY <3>1, <1>2, <2>1 DEF AnswerInv
    <3>2. CASE n # m
      BY <3>2, <1>2 DEF AnswerInv
    <3> QED BY <3>1, <3>2
  <2> QED BY <2>2, <2>3 DEF AnswerInv
<1>3. \/ answered' = answered /\ fired \subseteq fired'
      \/ /\ m \notin fired /\ fired' = fired \cup {m}
         /\ answered' = [answered EXCEPT ![m] = @ + 1]
  BY DEF Reply, ReplyAnswers, ReplyFails
<1> QED BY <1>1, <1>2, <1>3

(***************************************************************************)
(* However many threads share a reply and however calls time out, a call   *)
(* is answered at most once (reply.rs: "the only guarentee we need is max  *)
(* 1 thread runs reply").                                                  *)
(***************************************************************************)
THEOREM OneAnswer == Spec => []AnsweredOnce
<1>1. Init => AnswerInv
  BY DEF Init, AnswerInv
<1>2. AnswerInv /\ [Next]_vars => AnswerInv'
  <2> SUFFICES ASSUME AnswerInv, [Next]_vars
               PROVE  AnswerInv'
    OBVIOUS
  <2>1. CASE UNCHANGED vars
    BY <2>1 DEF vars, replyVars, history, AnswerInv
  <2>2. ASSUME NEW t \in Threads, Reply(t)
        PROVE  AnswerInv'
    BY <2>2, ReplyStep
  <2>3. ASSUME answered' = answered /\ fired' = fired
        PROVE  AnswerInv'
    BY <2>3 DEF AnswerInv
  <2> QED BY <2>1, <2>2, <2>3, OnlyReplyAnswers, Zenon DEF Next, Kernel
<1>3. AnswerInv => AnsweredOnce
  BY DEF AnswerInv, AnsweredOnce
<1> QED BY <1>1, <1>2, <1>3, PTL DEF Spec

-----------------------------------------------------------------------------
(* Who is told that a message was sent                                     *)

(***************************************************************************)
(* A reply answers a call whose message was received.  The reply to a      *)
(* queue entry whose wait is over would answer a message that never was:   *)
(* the entry's buffer holds a later one.                                   *)
(***************************************************************************)
AckInv ==
  /\ AckedDelivered
  /\ \A r \in Replies : r.pool \/ Awaits(r) => got[r.msg] > 0

LEMMA AckKept ==
  ASSUME ChannelInv, ChannelInv', ThreadsStep, AckInv,
         \A m \in Msgs : got'[m] >= got[m],
         \A m \in Msgs : told'[m] = "ok" => told[m] = "ok" \/ got'[m] > 0,
         \A r \in Replies' : r \in Replies \/ (r.pool \/ Awaits(r)' => got'[r.msg] > 0)
  PROVE  AckInv'
<1>1. got \in [Msgs -> Nat] /\ got' \in [Msgs -> Nat]
  BY DEF ChannelInv, ChannelTypes
<1>2. AckedDelivered'
  BY <1>1 DEF AckInv, AckedDelivered
<1>3. ASSUME NEW r \in Replies, r.pool \/ Awaits(r)'
      PROVE  got'[r.msg] > 0
  <2>1. /\ r \in ReplyRefs /\ NotAhead(r)
    BY EntryTyped DEF ChannelInv, EntryInv, ReplyOK
  <2>2. r.owner \in Threads /\ r.gen \in Nat /\ r.msg \in Msgs
    BY <2>1 DEF ReplyRefs
  <2>3. KeepsWait(r.owner) \/ Blocks(r.owner)
    BY <2>2 DEF ThreadsStep
  <2>4. Awaits(r)' => Awaits(r)
    BY <2>1, <2>2, <2>3, RefKept DEF ChannelInv
  <2>5. got[r.msg] > 0
    BY <1>3, <2>4 DEF AckInv
  <2> QED BY <1>1, <2>2, <2>5
<1> QED BY <1>2, <1>3 DEF AckInv

LEMMA AckGive ==
  ASSUME ChannelInv, ChannelInv', ThreadsStep, AckInv, NEW t \in Threads, lock = t, Gives(t)
  PROVE  AckInv'
<1>1. PICK base : ToReceiver(t, base)
  BY Zenon DEF Gives
<1>2. PICK m : m = Current(t)
  OBVIOUS
<1>3. (\A n \in Msgs : got'[n] >= got[n]) /\ got'[m] > 0
  BY <1>2, GiveGot
<1>4. \A n \in Msgs : told'[n] = "ok" => told[n] = "ok" \/ got'[n] > 0
  <2>1. Sender(t, 0).msg = m
    BY <1>2 DEF Sender
  <2>2. told' = told \/ told' = [told EXCEPT ![m] = "ok"]
    BY <1>1, <2>1 DEF ToReceiver, DoSend, Acknowledge
  <2>3. DOMAIN told = Msgs
    BY DEF ChannelInv, ChannelTypes
  <2> QED BY <1>3, <2>2, <2>3
<1>5. \A r \in Replies' : r \in Replies \/ r.msg = m
  BY <1>1, <1>2 DEF ToReceiver, DoSend, Replies, ReplyTo, Sender
<1> QED BY <1>3, <1>4, <1>5, AckKept

LEMMA AckTake ==
  ASSUME ChannelInv, ChannelInv', ThreadsStep, AckInv, NEW t \in Threads, FromSender(t)
  PROVE  AckInv'
<1>1. PICK s : s = Head(senders)
  OBVIOUS
<1>2. s \in Entries(senders)
  BY <1>1, TailEntries DEF FromSender, ChannelInv, ChannelTypes
<1>3. s \in SenderRefs /\ SenderOK(s)
  BY <1>2, EntryTyped DEF ChannelInv, EntryInv
<1>4. s.owner \in Threads /\ s.gen \in Nat /\ s.msg \in Msgs
  BY <1>3 DEF SenderRefs
<1>5. \A n \in Msgs : got'[n] >= got[n]
  BY TakeGot
<1>6. s.pool \/ Awaits(s) => got'[s.msg] > 0
  BY <1>1, <1>2, <1>4, TakeGot, ContentIsMessage
<1>7. \A n \in Msgs : told'[n] = "ok" => told[n] = "ok" \/ got'[n] > 0
  <2>1. CASE told' = told
    BY <2>1
  <2>2. CASE (s.gen = 0 \/ WakesSender(s)) /\ told' = [told EXCEPT ![s.msg] = "ok"]
    <3>1. s.pool \/ Awaits(s)
      BY <1>3, <2>2 DEF SenderOK, WakesSender, EndsWait, Awaits, Waiting
    <3> QED BY <1>6, <2>2, <3>1 DEF ChannelInv, ChannelTypes
  <2> QED BY <1>1, <2>1, <2>2 DEF FromSender, DoSend, Acknowledge
<1>8. \A r \in Replies' : r \in Replies \/ (r.pool \/ Awaits(r)' => got'[r.msg] > 0)
  <2>1. PICK n : n = ReplyTo(s, s.gen)
    OBVIOUS
  <2>2. \A r \in Replies' : r \in Replies \/ r = n
    BY <1>1, <2>1 DEF FromSender, DoSend, Replies
  <2>3. n.owner = s.owner /\ n.gen = s.gen /\ n.pool = s.pool /\ n.msg = s.msg
    BY <2>1 DEF ReplyTo
  <2>4. Awaits(n)' => Awaits(s)
    <3>1. KeepsWait(s.owner) \/ Blocks(s.owner)
      BY <1>4 DEF ThreadsStep
    <3>2. Awaits(s)' => Awaits(s)
      BY <1>3, <1>4, <3>1, RefKept DEF ChannelInv, SenderOK
    <3> QED BY <2>3, <3>2 DEF Awaits, Waiting
  <2> QED BY <1>6, <2>2, <2>3, <2>4
<1> QED BY <1>5, <1>7, <1>8, AckKept

LEMMA AckReply ==
  ASSUME ChannelInv, ChannelInv', ThreadsStep, AckInv, NEW t \in Threads, Reply(t)
  PROVE  AckInv'
<1>1. PICK r : r = using[t]
  OBVIOUS
<1>2. r \in Replies /\ r \in ReplyRefs
  BY <1>1 DEF Reply, Replies, ChannelInv, ChannelTypes
<1>3. got' = got /\ got \in [Msgs -> Nat]
  BY DEF Reply, ChannelInv, ChannelTypes
<1>4. \A n \in Msgs : told'[n] = "ok" => told[n] = "ok" \/ got'[n] > 0
  <2>1. CASE told' = told
    BY <2>1
  <2>2. CASE (r.pool \/ EndsWait(r)) /\ told' = [told EXCEPT ![r.msg] = "ok"]
    <3>1. r.pool \/ Awaits(r)
      BY <2>2 DEF EndsWait, Awaits, Waiting
    <3>2. got[r.msg] > 0
      BY <1>2, <3>1 DEF AckInv
    <3> QED BY <1>3, <2>2, <3>2 DEF ChannelInv, ChannelTypes
  <2> QED BY <1>1, <2>1, <2>2 DEF Reply, ReplyAnswers, ReplyFails
<1>5. Replies' \subseteq Replies
  BY DEF Reply, ReplyAnswers, ReplyFails, Replies, ChannelInv, ChannelTypes
<1>6. \A n \in Msgs : got'[n] >= got[n]
  BY <1>3
<1> QED BY <1>4, <1>5, <1>6, AckKept

(***************************************************************************)
(* Every other step leaves got alone, makes no reply, and tells nobody     *)
(* that a message was sent.                                                *)
(***************************************************************************)
LEMMA AckOther ==
  ASSUME ChannelInv, ChannelInv', ThreadsStep, AckInv, got' = got, Replies' \subseteq Replies,
         told' = told \/ \E m : told' = [told EXCEPT ![m] = "error"]
  PROVE  AckInv'
<1>1. \A n \in Msgs : told'[n] = "ok" => told[n] = "ok"
  BY DEF ChannelInv, ChannelTypes
<1>2. \A n \in Msgs : got'[n] >= got[n]
  BY DEF ChannelInv, ChannelTypes
<1> QED BY <1>1, <1>2, AckKept

LEMMA AckStep ==
  ASSUME ChannelInv, AckInv, [Next]_vars
  PROVE  AckInv'
<1>1. ASSUME NEW t \in Threads, Operate(t)
      PROVE  AckInv'
  <2>1. ChannelInv' /\ ThreadsStep /\ lock = t
    BY <1>1, OperateInv, Passes
  <2>2. CASE Gives(t)
    BY <2>1, <2>2, AckGive
  <2>3. CASE FromSender(t)
    BY <2>1, <2>3, AckTake
  <2>4. CASE GivesUp(t) \/ NextReceiver(t) \/ NextSender(t) \/ Queues(t)
    BY <1>1, <2>1, <2>4, QuietStep, AckOther
  <2> QED BY <1>1, <2>2, <2>3, <2>4, Passes, Zenon
<1>2. ASSUME NEW t \in Threads, Reply(t)
      PROVE  AckInv'
  BY <1>2, OtherInv, AckReply
<1>3. ASSUME NEW t \in Threads,
             \/ Suspend(t) \/ Timeout(t) \/ Resume(t) \/ DropChannel(t) \/ DropMemory(t)
             \/ \E whole : Exit(t, whole)
             \/ \E r \in replies : GetReply(t, r) \/ DropReply(t, r)
      PROVE  AckInv'
  <2>1. ChannelInv' /\ ThreadsStep
    BY <1>3, OtherInv, Zenon
  <2>2. /\ got' = got /\ Replies' \subseteq Replies
        /\ told' = told \/ \E m : told' = [told EXCEPT ![m] = "error"]
    BY <1>3, QuietStep, Zenon
  <2> QED BY <2>1, <2>2, AckOther, Zenon
<1>4. ASSUME NEW t \in Threads, NEW o \in Sends \cup Recvs, NEW timed \in Timed, Start(t, o, timed)
      PROVE  AckInv'
  <2>1. ChannelInv' /\ ThreadsStep
    BY <1>4, StartInv, Zenon
  <2>2. /\ got' = got /\ Replies' \subseteq Replies
        /\ told' = told \/ \E m : told' = [told EXCEPT ![m] = "error"]
    BY <1>4, QuietStep, Zenon
  <2> QED BY <2>1, <2>2, AckOther, Zenon
<1>5. CASE UNCHANGED vars
  <2>1. UNCHANGED <<got, told, replies, using, th>>
    BY <1>5 DEF vars, replyVars, history
  <2> QED BY <2>1 DEF AckInv, AckedDelivered, Replies, Awaits, Waiting
<1> QED BY <1>1, <1>2, <1>3, <1>4, <1>5, Zenon DEF Next, Kernel

(***************************************************************************)
(* Whoever is told that a message was sent (sync_send and sync_call        *)
(* return, or the event comes) can rely on a receiver having it, whatever  *)
(* times out, fails, exits or is dropped on the way: a timed out sender    *)
(* that reuses its buffer while its entry is queued is not acknowledged.   *)
(***************************************************************************)
THEOREM AckMeansReceived == Spec => []AckedDelivered
<1>1. Init => AckInv
  BY DEF Init, AckInv, AckedDelivered, Replies
<1>2. ChannelInv /\ AckInv /\ [Next]_vars => ChannelInv' /\ AckInv'
  BY ChannelStep, AckStep
<1>3. AckInv => AckedDelivered
  BY DEF AckInv
<1> QED BY <1>1, <1>2, <1>3, ChannelInit, PTL DEF Spec

-----------------------------------------------------------------------------
(* A message is received once                                              *)

(***************************************************************************)
(* No blocking operation has a timeout.  After one, the thread may start   *)
(* another send while its entry is still queued: both entries would        *)
(* deliver the buffer's second message.                                    *)
(***************************************************************************)
NoTimeouts == Timed \subseteq {FALSE}

(***************************************************************************)
(* The owner of a queued synchronous send is still where the entry left    *)
(* it.                                                                     *)
(***************************************************************************)
Bound(e) ==
  /\ e.gen = th[e.owner].gen /\ e.msg = Current(e.owner)
  /\ buffer[e.owner] = count[e.owner] /\ Stuck(e.owner)

Gone(m) ==
  /\ Started(m)
  /\ \A e \in Entries(senders) : e.msg # m
  /\ \A t \in Threads : lock = t => m # Current(t)

OnceInv ==
  /\ \A t \in Threads : Calm(t)
  /\ \A e \in Entries(senders) : ~e.pool => Bound(e)
  /\ \A m \in Msgs : got[m] <= 1 /\ (got[m] > 0 => Gone(m))

LEMMA CalmStep ==
  ASSUME NoTimeouts, ChannelInv, ThreadsStep, NEW u \in Threads, Calm(u)
  PROVE  Calm(u)'
<1>1. CASE KeepsWait(u)
  BY <1>1 DEF KeepsWait, Calm, NoTimeouts
<1>2. CASE Blocks(u)
  <2>1. th[u].state = "Running"
    BY <1>2 DEF Blocks, ChannelInv, HolderInv, Locked
  <2>2. th'[u].listed = th[u].listed /\ th'[u].timed = th[u].timed
    BY <1>2 DEF Blocks
  <2> QED BY <2>1, <2>2 DEF Calm, Tidy
<1> QED BY <1>1, <1>2 DEF ThreadsStep

(***************************************************************************)
(* An entry that stays in the queue stays bound, unless its owner is woken *)
(* behind its back.                                                        *)
(***************************************************************************)
LEMMA BoundKept ==
  ASSUME ChannelInv, ThreadsStep, NEW e \in Entries(senders), ~e.pool, Bound(e), Calm(e.owner),
         ~(Roused(e.owner) /\ th'[e.owner].listed = TRUE)
  PROVE  Bound(e)'
<1>1. e.owner \in Threads
  BY EntryTyped DEF SenderRefs, ChannelInv
<1>2. Stuck(e.owner)
  BY DEF Bound
<1>3. ~Blocks(e.owner)
  BY <1>1, <1>2 DEF Blocks, Stuck, Waiting, ChannelInv, HolderInv, Locked
<1>4. KeepsWait(e.owner)
  BY <1>1, <1>3 DEF ThreadsStep
<1>5. /\ th'[e.owner].gen = th[e.owner].gen /\ count'[e.owner] = count[e.owner]
      /\ buffer'[e.owner] = buffer[e.owner] /\ Stuck(e.owner)'
  BY <1>2, <1>4 DEF KeepsWait
<1>6. Current(e.owner)' = Current(e.owner)
  BY <1>5 DEF Current
<1> QED BY <1>5, <1>6 DEF Bound

(***************************************************************************)
(* Only the entry itself names the wait of its owner.                      *)
(***************************************************************************)
LEMMA SuspendedAwaits ==
  ASSUME ChannelInv, NEW e \in Entries(senders), ~e.pool, Bound(e), Roused(e.owner)
  PROVE  Awaits(e) /\ call[e.owner] \in {"sync_send", "sync_call"} /\ e.msg = Current(e.owner)
<1>1. Awaits(e)
  BY DEF Bound, Roused, Awaits, Waiting
<1>2. SenderOK(e)
  BY DEF ChannelInv, EntryInv
<1> QED BY <1>1, <1>2 DEF SenderOK

(***************************************************************************)
(* Steps that deliver nothing.                                             *)
(***************************************************************************)
LEMMA OnceStill ==
  ASSUME NoTimeouts, ChannelInv, ChannelInv', ThreadsStep, OnceInv, got' = got,
         \A e \in Entries(senders') :
           \/ e \in Entries(senders)
           \/ lock \in Threads /\ e.msg = Current(lock) /\ (~e.pool => Bound(e)'),
         \A e \in Entries(senders) : ~e.pool /\ Bound(e) => ~(Roused(e.owner) /\ th'[e.owner].listed = TRUE),
         \A u \in Threads : lock' = u => (u = lock /\ count' = count) \/ count'[u] = count[u] + 1
  PROVE  OnceInv'
<1>1. \A u \in Threads : Calm(u)'
  BY CalmStep DEF OnceInv
<1>2. \A e \in Entries(senders') : ~e.pool => Bound(e)'
  <2> TAKE e \in Entries(senders')
  <2> HAVE ~e.pool
  <2>1. CASE e \in Entries(senders)
    <3>1. e.owner \in Threads /\ Bound(e) /\ Calm(e.owner)
      BY <2>1, EntryTyped DEF OnceInv, SenderRefs, ChannelInv
    <3> QED BY <2>1, <3>1, BoundKept
  <2> QED BY <2>1
<1>3. ASSUME NEW m \in Msgs, got[m] > 0
      PROVE  Gone(m)'
  <2>1. Gone(m)
    BY <1>3 DEF OnceInv
  <2>2. Started(m)'
    BY <2>1, CountsGrow, StartedKept DEF Gone, ChannelInv
  <2>3. \A e \in Entries(senders') : e.msg # m
    BY <2>1 DEF Gone
  <2>4. ASSUME NEW u \in Threads, lock' = u
        PROVE  m # Current(u)'
    <3>1. CASE u = lock /\ count' = count
      BY <2>1, <3>1 DEF Gone, Current
    <3>2. CASE count'[u] = count[u] + 1
      <4>1. count[u] \in Nat
        BY DEF ChannelInv, ChannelTypes
      <4>2. SUFFICES ASSUME m = <<u, count'[u]>>
                     PROVE  FALSE
        BY DEF Current
      <4> QED BY <2>1, <3>2, <4>1, <4>2 DEF Gone, Started
    <3> QED BY <2>4, <3>1, <3>2
  <2> QED BY <2>2, <2>3, <2>4 DEF Gone
<1> QED BY <1>1, <1>2, <1>3 DEF OnceInv

(***************************************************************************)
(* Steps that deliver a message, and take it where it was.                 *)
(***************************************************************************)
LEMMA OnceGot ==
  ASSUME NoTimeouts, ChannelInv, ChannelInv', ThreadsStep, OnceInv, NEW m \in Msgs,
         got'[m] = got[m] + 1, \A n \in Msgs : n # m => got'[n] = got[n], got[m] = 0,
         Entries(senders') \subseteq Entries(senders), \A e \in Entries(senders') : e.msg # m,
         \A e \in Entries(senders') : ~e.pool /\ Bound(e) => ~(Roused(e.owner) /\ th'[e.owner].listed = TRUE),
         Started(m), lock' = NoThread
  PROVE  OnceInv'
<1>1. \A u \in Threads : Calm(u)'
  BY CalmStep DEF OnceInv
<1>2. \A e \in Entries(senders') : ~e.pool => Bound(e)'
  <2> TAKE e \in Entries(senders')
  <2> HAVE ~e.pool
  <2>1. e \in Entries(senders) /\ e.owner \in Threads /\ Bound(e) /\ Calm(e.owner)
    BY EntryTyped DEF OnceInv, SenderRefs, ChannelInv
  <2> QED BY <2>1, BoundKept
<1>3. ASSUME NEW n \in Msgs, got'[n] > 0
      PROVE  Gone(n)'
  <2>1. Started(n) /\ \A e \in Entries(senders') : e.msg # n
    BY <1>3 DEF OnceInv, Gone
  <2>2. Started(n)'
    BY <2>1, CountsGrow, StartedKept DEF ChannelInv
  <2>3. \A u \in Threads : lock' # u
    BY ChannelAssumption
  <2> QED BY <2>1, <2>2, <2>3 DEF Gone
<1>4. \A n \in Msgs : got'[n] <= 1
  BY DEF OnceInv
<1> QED BY <1>1, <1>2, <1>3, <1>4 DEF OnceInv

LEMMA OnceGive ==
  ASSUME NoTimeouts, ChannelInv, OnceInv, NEW t \in Threads, Operate(t), Gives(t)
  PROVE  OnceInv'
<1>1. ChannelInv' /\ ThreadsStep /\ lock = t
  BY OperateInv, Passes
<1>2. PICK base \in [Threads -> ThreadRecs] :
        ToReceiver(t, base) /\ \A u \in Threads : u # t => base[u] = th[u]
  BY BlockedThreads DEF Gives, ChannelInv, ChannelTypes
<1>3. PICK r : r = Head(receivers)
  OBVIOUS
<1>4. r \in Entries(receivers) /\ r \in ReceiverRefs
  BY <1>2, <1>3, HeadTyped, TailEntries DEF ToReceiver, ChannelInv, ChannelTypes
<1>5. r.owner \in Threads /\ ReceiverOK(r)
  BY <1>4 DEF ReceiverRefs, ChannelInv, EntryInv
<1>6. th[t].state = "Running"
  BY <1>1 DEF ChannelInv, HolderInv, Locked
<1>7. DoSend(Sender(t, 0), r, base, FutureGen(t))
  BY <1>2, <1>3 DEF ToReceiver
<1>8. ASSUME NEW u \in Threads, Roused(u)
      PROVE  u = r.owner /\ r.gen # 0
  <2>1. u # t /\ th'[u] # base[u]
    BY <1>2, <1>6, <1>8 DEF Roused
  <2>2. \A v \in Threads : th[v].state = "Suspended" => base[v] = th[v]
    BY <1>2, <1>6
  <2>3. Sender(t, 0).owner = t
    BY DEF Sender
  <2>4. /\ r.gen # 0 => \A v \in Threads : v # r.owner => th'[v] = base[v]
        /\ r.gen = 0 => \A v \in Threads : th'[v] = base[v] \/ v = t
    <3>1. PICK x, g : DoSend(x, r, base, g) /\ x.owner = t
      BY <1>7, <2>3
    <3>2. x.owner \in Threads
      BY <3>1
    <3>3. CASE r.gen # 0
      <4>1. \A v \in Threads : v # r.owner => th'[v] = base[v]
        BY <3>1, <3>3 DEF DoSend
      <4> QED BY <3>3, <4>1
    <3>4. CASE r.gen = 0
      <4>1. \A v \in Threads : th'[v] = base[v] \/ (v = x.owner /\ WakesSender(x))
        BY <1>5, <2>2, <3>1, <3>2, <3>4, SendRouses
      <4> QED BY <3>1, <3>4, <4>1
    <3> QED BY <3>3, <3>4
  <2> QED BY <2>1, <2>4
<1>9. ASSUME NEW e \in Entries(senders), ~e.pool, Bound(e), Roused(e.owner)
      PROVE  FALSE
  <2>1. e.owner \in Threads
    BY EntryTyped DEF SenderRefs, ChannelInv
  <2>2. e.owner = r.owner /\ r.gen # 0
    BY <1>8, <1>9, <2>1
  <2>3. Awaits(r)
    BY <1>5, <1>7, <2>2 DEF DoSend, EndsWait, ReceiverOK, Awaits, Waiting
  <2> QED BY <1>5, <1>9, <2>2, <2>3, SuspendedAwaits DEF ReceiverOK
<1>10. PICK m : m = Current(t)
  OBVIOUS
<1>11. /\ m \in Msgs /\ got'[m] = got[m] + 1 /\ \A n \in Msgs : n # m => got'[n] = got[n]
  BY <1>1, <1>10, GiveGot
<1>12. got[m] = 0
  <2>1. ~Gone(m)
    BY <1>1, <1>10 DEF Gone
  <2>2. got[m] \in Nat
    BY <1>11 DEF ChannelInv, ChannelTypes
  <2> QED BY <1>11, <2>1, <2>2 DEF OnceInv
<1>13. senders' = senders /\ lock' = NoThread
  BY <1>2 DEF ToReceiver, Gives, Return, Block
<1>14. \A e \in Entries(senders') : e.msg # m
  BY <1>1, <1>10, <1>13 DEF ChannelInv, FreshInv
<1>15. Started(m)
  BY <1>10 DEF Started, Current, ChannelInv, ChannelTypes
<1> QED BY <1>1, <1>9, <1>11, <1>12, <1>13, <1>14, <1>15, OnceGot

LEMMA OnceTake ==
  ASSUME NoTimeouts, ChannelInv, OnceInv, NEW t \in Threads, Operate(t), FromSender(t)
  PROVE  OnceInv'
<1>1. ChannelInv' /\ ThreadsStep /\ lock = t
  BY OperateInv, Passes
<1>2. PICK s : s = Head(senders)
  OBVIOUS
<1>3. /\ senders # <<>> /\ senders \in Seq(SenderRefs) /\ s \in SenderRefs /\ Distinct(senders)
      /\ senders' = Tail(senders) /\ lock' = NoThread
  BY <1>2, HeadTyped DEF FromSender, Return, ChannelInv, ChannelTypes, FreshInv
<1>4. /\ s \in Entries(senders) /\ Entries(senders') \subseteq Entries(senders)
      /\ \A e \in Entries(senders') : e.msg # s.msg
  BY <1>2, <1>3, TailEntries
<1>5. SenderOK(s) /\ s.owner \in Threads /\ s.msg \in Msgs
  BY <1>3, <1>4 DEF ChannelInv, EntryInv, SenderRefs
<1>6. Content(s) = s.msg
  <2>1. CASE s.pool
    BY <1>4, <2>1, ContentIsMessage
  <2>2. CASE ~s.pool
    BY <1>4, <2>2 DEF OnceInv, Bound, Content, Current
  <2> QED BY <2>1, <2>2
<1>7. DoSend(s, Receiver(t, 0), th, s.gen)
  BY <1>2 DEF FromSender
<1>8. ASSUME NEW u \in Threads, Roused(u)
      PROVE  u = s.owner /\ WakesSender(s)
  <2>1. th'[u] # th[u]
    BY <1>8 DEF Roused
  <2>2. Receiver(t, 0).owner \in Threads /\ Receiver(t, 0).gen = 0
    BY DEF Receiver
  <2>3. th \in [Threads -> ThreadRecs]
    BY DEF ChannelInv, ChannelTypes
  <2>4. th'[u] = th[u] \/ (u = s.owner /\ WakesSender(s))
    BY <1>5, <1>7, <2>2, <2>3, SendRouses, Zenon
  <2> QED BY <2>1, <2>4
<1>9. ASSUME NEW e \in Entries(senders'), ~e.pool, Bound(e), Roused(e.owner)
      PROVE  FALSE
  <2>1. e \in Entries(senders) /\ e.owner \in Threads
    BY <1>4, EntryTyped DEF SenderRefs, ChannelInv
  <2>2. e.owner = s.owner /\ WakesSender(s)
    BY <1>8, <1>9, <2>1
  <2>3. Awaits(s)
    BY <1>5, <2>2 DEF WakesSender, EndsWait, SenderOK, Awaits, Waiting
  <2>4. s.msg = Current(s.owner)
    BY <1>5, <2>3 DEF SenderOK
  <2>5. e.msg = Current(e.owner)
    BY <1>9 DEF Bound
  <2> QED BY <1>4, <2>2, <2>4, <2>5
<1>10. /\ got'[s.msg] = got[s.msg] + 1 /\ \A n \in Msgs : n # s.msg => got'[n] = got[n]
  BY <1>2, <1>5, <1>6, TakeGot
<1>11. got[s.msg] = 0
  <2>1. ~Gone(s.msg)
    BY <1>4 DEF Gone
  <2>2. got[s.msg] \in Nat
    BY <1>5 DEF ChannelInv, ChannelTypes
  <2>3. ~(got[s.msg] > 0)
    BY <1>5, <2>1, Zenon DEF OnceInv
  <2> QED BY <2>2, <2>3
<1>12. Started(s.msg)
  BY <1>5 DEF SenderOK
<1>13. PICK m : m = s.msg
  OBVIOUS
<1> QED BY <1>1, <1>3, <1>4, <1>5, <1>9, <1>10, <1>11, <1>12, OnceGot

LEMMA OnceQueue ==
  ASSUME NoTimeouts, ChannelInv, OnceInv, NEW t \in Threads, Operate(t), Queues(t)
  PROVE  OnceInv'
<1>1. ChannelInv' /\ ThreadsStep /\ lock = t /\ UNCHANGED <<count, buffer>> /\ got' = got /\ lock' = NoThread
  <2>1. got' = got /\ lock' = NoThread
    BY DEF Queues, QueueSender, QueueReceiver, replyVars, history, Block, Return
  <2> QED BY <2>1, OperateInv, Passes
<1>2. th[t].state = "Running" /\ count[t] > 0 /\ Locked(t)
  BY <1>1 DEF ChannelInv, HolderInv, Locked
<1>3. th \in [Threads -> ThreadRecs] /\ senders \in Seq(SenderRefs)
  BY DEF ChannelInv, ChannelTypes
<1>4. \A u \in Threads : ~Roused(u)
  <2>1. \A u \in Threads : u # t => th'[u] = th[u]
    <3>1. th' = th \/ th' = Blocked(t)
      BY DEF Queues
    <3>2. \A u \in Threads : u # t => Blocked(t)[u] = th[u]
      BY BlockedThreads DEF ChannelInv
    <3> QED BY <3>1, <3>2
  <2> QED BY <1>2, <2>1 DEF Roused
<1>5. ASSUME NEW e \in Entries(senders'), e \notin Entries(senders)
      PROVE  e.msg = Current(t) /\ (~e.pool => Bound(e)')
  <2>1. PICK g \in Nat : e = Sender(t, g) /\ QueueSender(t, g)
                         /\ \/ call[t] \in {"sync_send", "sync_call"} /\ g = FutureGen(t) /\ th' = Blocked(t) /\ Block
                            \/ call[t] \in {"async_send", "async_call"}
    <3>1. CASE \E g : QueueReceiver(t, g)
      BY <1>5, <3>1 DEF QueueReceiver
    <3>2. ASSUME NEW g \in Nat, QueueSender(t, g)
          PROVE  e = Sender(t, g)
      <4>1. Sender(t, g) \in SenderRefs
        BY <1>2, PartyTyped DEF ChannelInv
      <4>2. Entries(senders') = Entries(senders) \cup {Sender(t, g)}
        BY <1>3, <3>2, <4>1, AppendEntries DEF QueueSender
      <4> QED BY <1>5, <4>2
    <3>3. FutureGen(t) \in Nat
      BY <1>3 DEF FutureGen, ThreadRecs
    <3> QED BY <3>1, <3>2, <3>3 DEF Queues
  <2>2. e.msg = Current(t) /\ e.owner = t /\ e.gen = g /\ e.pool = IsAsync(call[t])
    BY <2>1 DEF Sender
  <2>3. ASSUME ~e.pool
        PROVE  Bound(e)'
    <3>1. th' = Blocked(t) /\ g = th[t].gen + 1 /\ Block
      BY <2>1, <2>2, <2>3 DEF FutureGen, IsAsync
    <3>2. th'[t].state = "Suspending" /\ th'[t].gen = th[t].gen + 1
      BY <3>1, BlockedThreads DEF ChannelInv
    <3>3. Stuck(t)'
      BY <3>2 DEF Stuck, Waiting
    <3>4. call[t] \in Sends /\ ~IsAsync(call[t])
      BY <2>1, <2>2, <2>3 DEF Sends, IsAsync
    <3>5. Current(t)' = Current(t) /\ buffer'[t] = count'[t]
      BY <1>1, <1>2, <3>4 DEF Current, Locked
    <3> QED BY <2>2, <3>1, <3>2, <3>3, <3>5 DEF Bound
  <2> QED BY <2>2, <2>3
<1>6. \A u \in Threads : lock' # u
  BY <1>1, ChannelAssumption
<1>7. \A e \in Entries(senders) : e.owner \in Threads
  BY EntryTyped DEF SenderRefs, ChannelInv
<1> QED BY <1>1, <1>4, <1>5, <1>6, <1>7, OnceStill

(***************************************************************************)
(* Steps that add no entry and wake nobody whose wait an entry names.      *)
(***************************************************************************)
LEMMA OnceQuiet ==
  ASSUME NoTimeouts, ChannelInv, ChannelInv', ThreadsStep, OnceInv, got' = got,
         Entries(senders') \subseteq Entries(senders),
         \A u \in Threads : Roused(u) => th'[u].listed = th[u].listed \/ th[u].timed = TRUE,
         \A u \in Threads : lock' = u => (u = lock /\ count' = count) \/ count'[u] = count[u] + 1
  PROVE  OnceInv'
<1>1. ASSUME NEW e \in Entries(senders), Roused(e.owner), th'[e.owner].listed = TRUE
      PROVE  FALSE
  <2>1. e.owner \in Threads
    BY EntryTyped DEF SenderRefs, ChannelInv
  <2>2. Calm(e.owner)
    BY <2>1 DEF OnceInv
  <2> QED BY <1>1, <2>1, <2>2 DEF Calm, Tidy, Roused
<1> QED BY <1>1, OnceStill

LEMMA OnceNext ==
  ASSUME NoTimeouts, ChannelInv, OnceInv, NEW t \in Threads, Operate(t),
         GivesUp(t) \/ NextReceiver(t) \/ NextSender(t)
  PROVE  OnceInv'
<1>1. ChannelInv' /\ ThreadsStep /\ lock = t /\ UNCHANGED <<count, buffer>>
  BY OperateInv, Passes
<1>2. got' = got
  BY QuietStep
<1>3. lock' = t \/ lock' = NoThread
  BY <1>1 DEF GivesUp, NextReceiver, NextSender, Return
<1>4. Entries(senders') \subseteq Entries(senders)
  <2>1. senders' = senders \/ (senders # <<>> /\ senders' = Tail(senders))
    BY DEF GivesUp, NextReceiver, NextSender, queues
  <2>2. senders \in Seq(SenderRefs)
    BY DEF ChannelInv, ChannelTypes
  <2> QED BY <2>1, <2>2, TailEntries
<1>5. \A u \in Threads : Roused(u) => th'[u].listed = th[u].listed
  <2>1. CASE GivesUp(t)
    BY <2>1 DEF GivesUp
  <2>2. CASE NextReceiver(t) \/ NextSender(t)
    BY <1>1, <2>2, NextThreads DEF ChannelInv
  <2> QED BY <2>1, <2>2
<1>6. \A u \in Threads : lock' = u => u = lock /\ count' = count
  BY <1>1, <1>3, ChannelAssumption
<1> QED BY <1>1, <1>2, <1>4, <1>5, <1>6, OnceQuiet

(***************************************************************************)
(* The message of a queued entry has no reply yet.                         *)
(***************************************************************************)
LEMMA OnceReply ==
  ASSUME NoTimeouts, ChannelInv, OnceInv, NEW t \in Threads, Reply(t)
  PROVE  OnceInv'
<1>1. ChannelInv' /\ ThreadsStep
  BY OtherInv
<1>2. UNCHANGED <<senders, got, count, lock>>
  BY DEF Reply, queues
<1>3. PICK r : r = using[t]
  OBVIOUS
<1>4. r \in Replies /\ r \in ReplyRefs /\ ReplyOK(r)
  BY <1>3 DEF Reply, Replies, ChannelInv, ChannelTypes, EntryInv
<1>5. ASSUME NEW e \in Entries(senders), ~e.pool, Bound(e), Roused(e.owner)
      PROVE  FALSE
  <2>1. e.owner \in Threads
    BY EntryTyped DEF SenderRefs, ChannelInv
  <2>2. th'[e.owner] # th[e.owner]
    BY <1>5 DEF Roused
  <2>3. ~r.pool /\ e.owner = r.owner /\ EndsWait(r)
    BY <1>3, <2>1, <2>2, ReplyThreads DEF ChannelInv
  <2>4. r.msg = Current(r.owner)
    BY <1>4, <2>3 DEF ReplyOK, Awaits, EndsWait, Waiting
  <2>5. e.msg = Current(e.owner)
    BY <1>5 DEF Bound
  <2>6. r.msg # e.msg
    BY <1>4 DEF ChannelInv, FreshInv, Untouched
  <2> QED BY <2>3, <2>4, <2>5, <2>6
<1> QED BY <1>1, <1>2, <1>5, OnceStill

LEMMA OnceOther ==
  ASSUME NoTimeouts, ChannelInv, OnceInv, NEW t \in Threads,
         \/ Suspend(t) \/ Timeout(t) \/ Resume(t) \/ DropChannel(t) \/ DropMemory(t)
         \/ \E whole : Exit(t, whole)
         \/ \E r \in replies : GetReply(t, r) \/ DropReply(t, r)
  PROVE  OnceInv'
<1>1. ChannelInv' /\ ThreadsStep
  BY OtherInv, Zenon
<1>2. UNCHANGED <<got, count, lock>>
  BY DEF Suspend, Timeout, Resume, DropChannel, DropMemory, Exit, GetReply, DropReply, Unmoved, queues, replyVars, history
<1>3. senders' = senders \/ senders' = <<>>
  BY DEF Suspend, Timeout, Resume, DropChannel, DropMemory, Exit, GetReply, DropReply, Unmoved, queues
<1>4. Entries(senders') \subseteq Entries(senders)
  BY <1>3 DEF Entries
<1>5. \A u \in Threads : Roused(u) => th'[u].listed = th[u].listed \/ th[u].timed = TRUE
  <2>1. CASE Suspend(t) \/ Timeout(t) \/ Resume(t) \/ \E whole : Exit(t, whole)
    BY <2>1, AloneThreads DEF ChannelInv
  <2>2. CASE th' = th
    BY <2>2
  <2> QED BY <2>1, <2>2 DEF DropChannel, DropMemory, GetReply, DropReply, Unmoved
<1> QED BY <1>1, <1>2, <1>4, <1>5, OnceQuiet

LEMMA OnceStart ==
  ASSUME NoTimeouts, ChannelInv, OnceInv, NEW t \in Threads, NEW o \in Sends \cup Recvs, NEW timed \in Timed,
         Start(t, o, timed)
  PROVE  OnceInv'
<1>1. ChannelInv' /\ ThreadsStep
  BY StartInv, Zenon
<1>2. UNCHANGED <<senders, got>> /\ lock' = t
  BY DEF Start, queues, history
<1>3. \A u \in Threads : ~Roused(u)
  BY StartThreads DEF ChannelInv, Roused
<1>4. count'[t] = count[t] + 1
  BY DEF Start, ChannelInv, ChannelTypes
<1> QED BY <1>1, <1>2, <1>3, <1>4, OnceQuiet

LEMMA OnceStep ==
  ASSUME NoTimeouts, ChannelInv, OnceInv, [Next]_vars
  PROVE  OnceInv'
<1>1. ASSUME NEW t \in Threads, Operate(t)
      PROVE  OnceInv'
  BY <1>1, Passes, OnceNext, OnceGive, OnceTake, OnceQueue, Zenon
<1>2. CASE UNCHANGED vars
  <2>1. UNCHANGED <<th, count, buffer, lock, senders, got>>
    BY <1>2 DEF vars, queues, history
  <2> QED BY <2>1 DEF OnceInv, Bound, Gone, Calm, Stuck, Waiting, Current, Started
<1>3. ASSUME NEW t \in Threads, NEW o \in Sends \cup Recvs, NEW timed \in Timed, Start(t, o, timed)
      PROVE  OnceInv'
  BY <1>3, OnceStart, Zenon
<1> QED BY <1>1, <1>2, <1>3, OnceReply, OnceOther, Zenon DEF Next, Kernel

(***************************************************************************)
(* When no operation has a timeout, a message is received at most once,    *)
(* however threads are woken, drop the channel, exit or answer.            *)
(***************************************************************************)
THEOREM ReceivedOnce == NoTimeouts => (Spec => []DeliveredOnce)
<1> SUFFICES ASSUME NoTimeouts
             PROVE  Spec => []DeliveredOnce
  OBVIOUS
<1>1. Init => OnceInv
  BY DEF Init, OnceInv, Calm, Tidy, Entries
<1>2. ChannelInv /\ OnceInv /\ [Next]_vars => ChannelInv' /\ OnceInv'
  BY ChannelStep, OnceStep
<1>3. OnceInv => DeliveredOnce
  BY DEF OnceInv, DeliveredOnce
<1> QED BY <1>1, <1>2, <1>3, ChannelInit, PTL DEF Spec
=============================================================================
