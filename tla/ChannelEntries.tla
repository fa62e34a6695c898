--------------------------- MODULE ChannelEntries ----------------------------
(***************************************************************************)
(* The inductive invariant of Channel: which operation of which thread an  *)
(* entry of a queue, and a reply, stands for.                              *)
(***************************************************************************)
EXTENDS ChannelThreads

-----------------------------------------------------------------------------
(* Queue entries and replies name the operation they come from             *)

Entries(q) == {q[i] : i \in 1..Len(q)}

Replies == (replies \cup {using[t] : t \in Threads}) \ {NoReply}

(***************************************************************************)
(* The entry or reply is for the wait its owner is in.                     *)
(***************************************************************************)
Awaits(e) == ~e.pool /\ Waiting(e.owner) /\ th[e.owner].gen = e.gen

NotAhead(e) == ~e.pool => e.gen <= th[e.owner].gen

Started(m) == m[2] <= count[m[1]]

SenderOK(e) ==
  /\ NotAhead(e) /\ (e.pool <=> e.gen = 0)
  /\ e.msg[1] = e.owner /\ Started(e.msg)
  /\ Awaits(e) => /\ e.msg = Current(e.owner)
                  /\ call[e.owner] = IF e.call THEN "sync_call" ELSE "sync_send"
  /\ Waiting(e.owner) /\ e.msg = Current(e.owner) => Awaits(e)

ReceiverOK(e) ==
  /\ NotAhead(e) /\ (e.pool <=> e.gen = 0)
  /\ Awaits(e) => call[e.owner] = "sync_recv"

ReplyOK(e) ==
  /\ NotAhead(e)
  /\ e.msg[1] = e.owner /\ Started(e.msg)
  /\ Awaits(e) => e.msg = Current(e.owner) /\ call[e.owner] = "sync_call"
  /\ Waiting(e.owner) /\ e.msg = Current(e.owner) => Awaits(e)

EntryInv ==
  /\ \A e \in Entries(senders) : SenderOK(e)
  /\ \A e \in Entries(receivers) : ReceiverOK(e)
  /\ \A e \in Replies : ReplyOK(e)

(***************************************************************************)
(* A message is in one place: with the thread that holds the lock, in the  *)
(* queue, or gone to a receiver.  Only in the last case are there replies  *)
(* to it, or has one fired.                                                *)
(***************************************************************************)
Distinct(q) == \A i, j \in 1..Len(q) : q[i].msg = q[j].msg => i = j

Untouched(m) == m \notin fired /\ \A r \in Replies : r.msg # m

FreshInv ==
  /\ Distinct(senders)
  /\ \A e \in Entries(senders) : Untouched(e.msg)
  /\ \A t \in Threads : lock = t =>
       Untouched(Current(t)) /\ \A e \in Entries(senders) : e.msg # Current(t)
  /\ \A m \in fired : Started(m)

ChannelInv == ChannelTypes /\ HolderInv /\ EntryInv /\ FreshInv

LEMMA TailEntries ==
  ASSUME NEW S, NEW q \in Seq(S), q # <<>>
  PROVE  /\ Head(q) \in Entries(q)
         /\ Entries(Tail(q)) \subseteq Entries(q)
         /\ Entries(q) \subseteq Entries(Tail(q)) \cup {Head(q)}
         /\ Distinct(q) => Distinct(Tail(q)) /\ \A e \in Entries(Tail(q)) : e.msg # Head(q).msg
<1>1. /\ Len(q) \in Nat /\ Len(q) >= 1 /\ Head(q) = q[1] /\ Len(Tail(q)) = Len(q) - 1
      /\ \A i \in 1..(Len(q) - 1) : Tail(q)[i] = q[i + 1]
  OBVIOUS
<1>2. Head(q) \in Entries(q)
  BY <1>1 DEF Entries
<1>3. Entries(Tail(q)) \subseteq Entries(q)
  <2> SUFFICES ASSUME NEW i \in 1..(Len(q) - 1)
               PROVE  q[i + 1] \in Entries(q)
    BY <1>1 DEF Entries
  <2> QED BY <1>1 DEF Entries
<1>4. Entries(q) \subseteq Entries(Tail(q)) \cup {Head(q)}
  <2> SUFFICES ASSUME NEW i \in 1..Len(q), i # 1
               PROVE  q[i] \in Entries(Tail(q))
    BY <1>1 DEF Entries
  <2>1. i - 1 \in 1..(Len(q) - 1) /\ Tail(q)[i - 1] = q[i]
    BY <1>1
  <2> QED BY <1>1, <2>1 DEF Entries
<1>5. ASSUME Distinct(q)
      PROVE  Distinct(Tail(q)) /\ \A e \in Entries(Tail(q)) : e.msg # Head(q).msg
  <2>1. ASSUME NEW i \in 1..(Len(q) - 1), NEW j \in 1..(Len(q) - 1), q[i + 1].msg = q[j + 1].msg
        PROVE  i = j
    BY <1>1, <1>5, <2>1 DEF Distinct
  <2>2. ASSUME NEW i \in 1..(Len(q) - 1)
        PROVE  q[i + 1].msg # q[1].msg
    BY <1>1, <1>5 DEF Distinct
  <2> QED BY <1>1, <2>1, <2>2 DEF Distinct, Entries
<1> QED BY <1>2, <1>3, <1>4, <1>5

LEMMA AppendEntries ==
  ASSUME NEW S, NEW q \in Seq(S), NEW e \in S
  PROVE  /\ Entries(Append(q, e)) = Entries(q) \cup {e}
         /\ Distinct(q) /\ (\A x \in Entries(q) : x.msg # e.msg) => Distinct(Append(q, e))
<1>1. /\ Len(q) \in Nat /\ Len(Append(q, e)) = Len(q) + 1
      /\ \A i \in 1..Len(q) : Append(q, e)[i] = q[i]
      /\ Append(q, e)[Len(q) + 1] = e
  OBVIOUS
<1>2. PICK a : a = Append(q, e)
  OBVIOUS
<1>3. Entries(a) = Entries(q) \cup {e}
  BY <1>1, <1>2 DEF Entries
<1>4. ASSUME Distinct(q), \A x \in Entries(q) : x.msg # e.msg
      PROVE  Distinct(a)
  <2>1. \A i \in 1..Len(q) : q[i].msg # e.msg
    BY <1>4 DEF Entries
  <2> QED BY <1>1, <1>2, <1>4, <2>1 DEF Distinct
<1> QED BY <1>2, <1>3, <1>4

LEMMA AppendReceiver ==
  ASSUME NEW q \in Seq(ReceiverRefs), NEW e \in ReceiverRefs
  PROVE  Entries(Append(q, e)) = Entries(q) \cup {e}
BY AppendEntries

LEMMA EntryTyped ==
  ASSUME ChannelTypes
  PROVE  /\ Entries(senders) \subseteq SenderRefs /\ Entries(receivers) \subseteq ReceiverRefs
         /\ Replies \subseteq ReplyRefs
BY DEF ChannelTypes, Entries, Replies

(***************************************************************************)
(* A wait that goes on is the one it was; a wait that begins has a         *)
(* generation of its own.                                                  *)
(***************************************************************************)
LEMMA RefKept ==
  ASSUME ChannelTypes, NEW e, e.owner \in Threads, e.gen \in Nat, NotAhead(e),
         KeepsWait(e.owner) \/ Blocks(e.owner), ThreadsStep
  PROVE  /\ NotAhead(e)'
         /\ Awaits(e)' => /\ Awaits(e) /\ KeepsWait(e.owner)
                          /\ call'[e.owner] = call[e.owner] /\ count'[e.owner] = count[e.owner]
<1>1. th[e.owner].gen \in Nat /\ th'[e.owner].gen \in Nat
  BY DEF ChannelTypes, ThreadRecs, ThreadsStep
<1>2. CASE KeepsWait(e.owner)
  <2>1. /\ th[e.owner].gen <= th'[e.owner].gen
        /\ th'[e.owner].state \in {"Suspending", "Suspended"} =>
             /\ Waiting(e.owner) /\ th'[e.owner].gen = th[e.owner].gen
             /\ call'[e.owner] = call[e.owner] /\ count'[e.owner] = count[e.owner]
    BY <1>2, Zenon DEF KeepsWait
  <2> QED BY <1>1, <1>2, <2>1 DEF NotAhead, Awaits, Waiting
<1>3. CASE Blocks(e.owner)
  BY <1>1, <1>3 DEF Blocks, NotAhead, Awaits
<1> QED BY <1>2, <1>3

LEMMA StartedKept ==
  ASSUME ChannelTypes, ChannelTypes', NEW m \in Msgs, Started(m),
         \A u \in Threads : count[u] <= count'[u]
  PROVE  Started(m)'
<1>1. m[1] \in Threads /\ m[2] \in Nat
  BY ChannelAssumption DEF Msgs
<1>2. count[m[1]] \in Nat /\ count'[m[1]] \in Nat
  BY <1>1 DEF ChannelTypes
<1> QED BY <1>1, <1>2 DEF Started

LEMMA CountsGrow ==
  ASSUME ChannelTypes, ThreadsStep
  PROVE  \A u \in Threads : count[u] <= count'[u]
<1> TAKE u \in Threads
<1>1. count[u] \in Nat
  BY DEF ChannelTypes
<1>2. CASE KeepsWait(u)
  BY <1>2, Zenon DEF KeepsWait
<1>3. CASE Blocks(u)
  BY <1>1, <1>3 DEF Blocks
<1> QED BY <1>2, <1>3 DEF ThreadsStep

LEMMA SenderKept ==
  ASSUME ChannelTypes, ChannelTypes', ThreadsStep, NEW e \in SenderRefs, SenderOK(e),
         lock = e.owner => e.msg # Current(e.owner)
  PROVE  SenderOK(e)'
<1>1. e.owner \in Threads /\ e.gen \in Nat /\ e.msg \in Msgs
  BY DEF SenderRefs
<1>2. KeepsWait(e.owner) \/ Blocks(e.owner)
  BY <1>1 DEF ThreadsStep
<1>3. /\ NotAhead(e)'
      /\ Awaits(e)' => /\ Awaits(e)
                       /\ call'[e.owner] = call[e.owner] /\ count'[e.owner] = count[e.owner]
  BY <1>1, <1>2, RefKept DEF SenderOK
<1>4. Started(e.msg)'
  BY <1>1, CountsGrow, StartedKept DEF SenderOK
<1>5. ASSUME Waiting(e.owner)', e.msg = Current(e.owner)'
      PROVE  Awaits(e)'
  <2>1. CASE KeepsWait(e.owner)
    <3>1. /\ Waiting(e.owner) /\ th'[e.owner].gen = th[e.owner].gen /\ count'[e.owner] = count[e.owner]
      BY <1>5, <2>1 DEF KeepsWait, Waiting
    <3>2. Awaits(e)
      BY <1>5, <3>1 DEF Current, SenderOK
    <3> QED BY <1>5, <3>1, <3>2 DEF Awaits
  <2>2. CASE Blocks(e.owner)
    BY <1>5, <2>2 DEF Blocks, Current
  <2> QED BY <1>2, <2>1, <2>2
<1> QED BY <1>3, <1>4, <1>5 DEF SenderOK, Current

LEMMA ReceiverKept ==
  ASSUME ChannelTypes, ThreadsStep, NEW e \in ReceiverRefs, ReceiverOK(e)
  PROVE  ReceiverOK(e)'
<1>1. e.owner \in Threads /\ e.gen \in Nat
  BY DEF ReceiverRefs
<1>2. /\ NotAhead(e)'
      /\ Awaits(e)' => Awaits(e) /\ call'[e.owner] = call[e.owner]
  <2>1. KeepsWait(e.owner) \/ Blocks(e.owner)
    BY <1>1 DEF ThreadsStep
  <2> QED BY <1>1, <2>1, RefKept DEF ReceiverOK
<1> QED BY <1>2 DEF ReceiverOK

LEMMA ReplyKept ==
  ASSUME ChannelTypes, ChannelTypes', ThreadsStep, NEW e \in ReplyRefs, ReplyOK(e),
         lock = e.owner => e.msg # Current(e.owner)
  PROVE  ReplyOK(e)'
<1>1. e.owner \in Threads /\ e.gen \in Nat /\ e.msg \in Msgs
  BY DEF ReplyRefs
<1>2. KeepsWait(e.owner) \/ Blocks(e.owner)
  BY <1>1 DEF ThreadsStep
<1>3. /\ NotAhead(e)'
      /\ Awaits(e)' => /\ Awaits(e)
                       /\ call'[e.owner] = call[e.owner] /\ count'[e.owner] = count[e.owner]
  BY <1>1, <1>2, RefKept DEF ReplyOK
<1>4. Started(e.msg)'
  BY <1>1, CountsGrow, StartedKept DEF ReplyOK
<1>5. ASSUME Waiting(e.owner)', e.msg = Current(e.owner)'
      PROVE  Awaits(e)'
  <2>1. CASE KeepsWait(e.owner)
    <3>1. /\ Waiting(e.owner) /\ th'[e.owner].gen = th[e.owner].gen /\ count'[e.owner] = count[e.owner]
      BY <1>5, <2>1 DEF KeepsWait, Waiting
    <3>2. Awaits(e)
      BY <1>5, <3>1 DEF Current, ReplyOK
    <3> QED BY <1>5, <3>1, <3>2 DEF Awaits
  <2>2. CASE Blocks(e.owner)
    BY <1>5, <2>2 DEF Blocks, Current
  <2> QED BY <1>2, <2>1, <2>2
<1> QED BY <1>3, <1>4, <1>5 DEF ReplyOK, Current

(***************************************************************************)
(* What was in a queue or a capability space stays right; what is new has  *)
(* to be.                                                                  *)
(***************************************************************************)
LEMMA EntryStep ==
  ASSUME ChannelInv, ChannelTypes', ThreadsStep,
         \A e \in Entries(senders') : e \in Entries(senders) \/ SenderOK(e)',
         \A e \in Entries(receivers') : e \in Entries(receivers) \/ ReceiverOK(e)',
         \A e \in Replies' : e \in Replies \/ ReplyOK(e)'
  PROVE  EntryInv'
<1>1. ASSUME NEW e \in Entries(senders)
      PROVE  SenderOK(e)'
  <2>1. e \in SenderRefs /\ SenderOK(e)
    BY EntryTyped DEF ChannelInv, EntryInv
  <2>2. e.owner \in Threads
    BY <2>1 DEF SenderRefs
  <2>3. lock = e.owner => e.msg # Current(e.owner)
    BY <2>2, Zenon DEF ChannelInv, FreshInv
  <2> QED BY <2>1, <2>3, SenderKept DEF ChannelInv
<1>2. \A e \in Entries(receivers) : ReceiverOK(e)'
  BY EntryTyped, ReceiverKept DEF ChannelInv, EntryInv
<1>3. ASSUME NEW e \in Replies
      PROVE  ReplyOK(e)'
  <2>1. e \in ReplyRefs /\ ReplyOK(e)
    BY EntryTyped DEF ChannelInv, EntryInv
  <2>2. e.owner \in Threads
    BY <2>1 DEF ReplyRefs
  <2>3. lock = e.owner => e.msg # Current(e.owner)
    BY <2>2, Zenon DEF ChannelInv, FreshInv, Untouched
  <2> QED BY <2>1, <2>3, ReplyKept DEF ChannelInv
<1> QED BY <1>1, <1>2, <1>3 DEF EntryInv

(***************************************************************************)
(* Messages are taken from the queues and replies used up.                 *)
(***************************************************************************)
LEMMA FreshKept ==
  ASSUME ChannelInv, ChannelTypes', ThreadsStep, Distinct(senders'),
         Entries(senders') \subseteq Entries(senders), Replies' \subseteq Replies,
         \A m \in fired' : m \in fired \/ \E r \in Replies : r.msg = m,
         count' = count, lock' = lock \/ lock' = NoThread
  PROVE  FreshInv'
<1>1. ASSUME NEW m, Untouched(m)
      PROVE  Untouched(m)'
  BY <1>1 DEF Untouched
<1>2. \A e \in Entries(senders') : Untouched(e.msg)'
  BY <1>1 DEF ChannelInv, FreshInv
<1>3. ASSUME NEW t \in Threads, lock' = t
      PROVE  Untouched(Current(t))' /\ \A e \in Entries(senders') : e.msg # Current(t)'
  <2>1. lock = t
    BY <1>3, ChannelAssumption
  <2>2. PICK m : m = Current(t)
    OBVIOUS
  <2>3. Untouched(m) /\ \A e \in Entries(senders) : e.msg # m
    BY <2>1, <2>2 DEF ChannelInv, FreshInv
  <2>4. Current(t)' = m
    BY <2>2 DEF Current
  <2>5. Untouched(m)' /\ \A e \in Entries(senders') : e.msg # m
    BY <1>1, <2>3
  <2> QED BY <2>4, <2>5 DEF Untouched
<1>4. \A m \in fired' : Started(m)'
  <2> SUFFICES ASSUME NEW m \in fired'
               PROVE  Started(m)
    BY DEF Started
  <2>1. CASE m \in fired
    BY <2>1 DEF ChannelInv, FreshInv
  <2>2. CASE \E r \in Replies : r.msg = m
    BY <2>2 DEF ChannelInv, EntryInv, ReplyOK
  <2> QED BY <2>1, <2>2
<1> QED BY <1>2, <1>3, <1>4 DEF FreshInv

LEMMA ShrinkStep ==
  ASSUME ChannelInv, ChannelTypes', ThreadsStep, Distinct(senders'),
         Entries(senders') \subseteq Entries(senders), Entries(receivers') \subseteq Entries(receivers),
         Replies' \subseteq Replies,
         \A m \in fired' : m \in fired \/ \E r \in Replies : r.msg = m,
         count' = count, lock' = lock \/ lock' = NoThread
  PROVE  ChannelInv'
<1>1. HolderInv'
  BY HolderStep DEF ChannelInv
<1>2. EntryInv'
  BY EntryStep
<1>3. FreshInv'
  BY FreshKept
<1> QED BY <1>1, <1>2, <1>3 DEF ChannelInv

LEMMA NextInv ==
  ASSUME ChannelInv, NEW t \in Threads, Operate(t), GivesUp(t) \/ NextReceiver(t) \/ NextSender(t)
  PROVE  ChannelInv'
<1>1. ThreadsStep /\ ChannelTypes'
  BY OperateTyped DEF ChannelInv
<1>2. /\ senders' = senders \/ (senders # <<>> /\ senders' = Tail(senders))
      /\ receivers' = receivers \/ (receivers # <<>> /\ receivers' = Tail(receivers))
  BY DEF GivesUp, NextReceiver, NextSender, queues
<1>3. UNCHANGED <<replies, using, fired>>
  BY DEF GivesUp, NextReceiver, NextSender, DoSendFails, replyVars
<1>4. count' = count /\ (lock' = lock \/ lock' = NoThread)
  BY Passes DEF GivesUp, NextReceiver, NextSender, Return
<1>5. Distinct(senders') /\ Entries(senders') \subseteq Entries(senders)
  BY <1>2, TailEntries DEF ChannelInv, ChannelTypes, FreshInv
<1>6. Entries(receivers') \subseteq Entries(receivers)
  BY <1>2, TailEntries DEF ChannelInv, ChannelTypes
<1>7. Replies' = Replies
  BY <1>3 DEF Replies
<1> QED BY <1>1, <1>3, <1>4, <1>5, <1>6, <1>7, ShrinkStep

LEMMA OtherInv ==
  ASSUME ChannelInv, NEW t \in Threads,
         \/ Suspend(t) \/ Timeout(t) \/ Resume(t) \/ Reply(t) \/ DropChannel(t) \/ DropMemory(t)
         \/ \E whole : Exit(t, whole)
         \/ \E r \in replies : GetReply(t, r) \/ DropReply(t, r)
  PROVE  ChannelInv' /\ ThreadsStep
<1>1. ThreadsStep /\ ChannelTypes'
  BY AloneTyped, ReplyTyped, StillTyped, Zenon DEF ChannelInv
<1>2. /\ senders' = senders \/ senders' = <<>>
      /\ receivers' = receivers \/ receivers' = <<>>
      /\ count' = count /\ lock' = lock
  BY DEF Suspend, Timeout, Resume, Reply, DropChannel, DropMemory, Exit, GetReply, DropReply, Unmoved, queues
<1>3. Distinct(senders') /\ Entries(senders') \subseteq Entries(senders)
  BY <1>2 DEF ChannelInv, FreshInv, Distinct, Entries
<1>4. Entries(receivers') \subseteq Entries(receivers)
  BY <1>2 DEF Entries
<1>5. Replies' \subseteq Replies /\ \A m \in fired' : m \in fired \/ \E r \in Replies : r.msg = m
  <2>1. CASE UNCHANGED replyVars
    BY <2>1 DEF replyVars, Replies
  <2>2. CASE \E r \in replies : GetReply(t, r)
    BY <2>2 DEF GetReply, Replies, ChannelInv, ChannelTypes
  <2>3. CASE \E r \in replies : DropReply(t, r)
    BY <2>3 DEF DropReply, Replies
  <2>4. CASE Reply(t)
    <3>1. /\ using[t] # NoReply /\ using' = [using EXCEPT ![t] = NoReply]
          /\ replies' \subseteq replies /\ fired' \subseteq fired \cup {using[t].msg}
      BY <2>4 DEF Reply, ReplyAnswers, ReplyFails
    <3>2. using[t] \in Replies
      BY <3>1 DEF Replies
    <3>3. Replies' \subseteq Replies
      BY <3>1 DEF Replies, ChannelInv, ChannelTypes
    <3> QED BY <3>1, <3>2, <3>3
  <2>5. \/ UNCHANGED replyVars \/ Reply(t)
        \/ \E r \in replies : GetReply(t, r) \/ DropReply(t, r)
    BY DEF Suspend, Timeout, Resume, DropChannel, DropMemory, Exit, Unmoved
  <2> QED BY <2>1, <2>2, <2>3, <2>4, <2>5
<1> QED BY <1>1, <1>2, <1>3, <1>4, <1>5, ShrinkStep

(***************************************************************************)
(* A new operation has a message nobody has seen.                          *)
(***************************************************************************)
LEMMA StartInv ==
  ASSUME ChannelInv, NEW t \in Threads, NEW o \in Sends \cup Recvs, NEW timed \in Timed,
         Start(t, o, timed)
  PROVE  ChannelInv' /\ ThreadsStep
<1>1. ThreadsStep /\ ChannelTypes'
  BY StartTyped DEF ChannelInv
<1>2. UNCHANGED <<senders, receivers, replies, using, fired>> /\ lock' = t
  BY DEF Start, queues, replyVars
<1>3. Replies' = Replies
  BY <1>2 DEF Replies
<1>4. HolderInv'
  BY <1>1, HolderStep DEF ChannelInv
<1>5. EntryInv'
  BY <1>1, <1>2, <1>3, EntryStep
<1>6. ASSUME NEW m, Started(m)
      PROVE  m # Current(t)'
  <2>1. count'[t] = count[t] + 1 /\ count[t] \in Nat
    BY DEF Start, ChannelInv, ChannelTypes
  <2>2. SUFFICES ASSUME m = <<t, count'[t]>>
                 PROVE  FALSE
    BY DEF Current
  <2> QED BY <1>6, <2>1, <2>2 DEF Started
<1>7. Untouched(Current(t))'
  <2>1. \A m \in fired' : m # Current(t)'
    BY <1>2, <1>6 DEF ChannelInv, FreshInv
  <2>2. \A r \in Replies' : r.msg # Current(t)'
    BY <1>3, <1>6 DEF ChannelInv, EntryInv, ReplyOK
  <2> QED BY <2>1, <2>2 DEF Untouched
<1>8. \A e \in Entries(senders') : e.msg # Current(t)'
  BY <1>2, <1>6 DEF ChannelInv, EntryInv, SenderOK
<1>9. \A e \in Entries(senders') : Untouched(e.msg)'
  BY <1>2, <1>3 DEF ChannelInv, FreshInv, Untouched
<1>10. \A m \in fired' : Started(m)'
  <2> TAKE m \in fired'
  <2>1. m \in Msgs /\ Started(m)
    BY <1>2 DEF ChannelInv, ChannelTypes, FreshInv
  <2>2. ChannelTypes
    BY DEF ChannelInv
  <2> QED BY <1>1, <2>1, <2>2, CountsGrow, StartedKept
<1>11. Distinct(senders')
  BY <1>2 DEF ChannelInv, FreshInv
<1>12. FreshInv'
  BY <1>2, <1>7, <1>8, <1>9, <1>10, <1>11 DEF FreshInv
<1> QED BY <1>1, <1>4, <1>5, <1>12 DEF ChannelInv

(***************************************************************************)
(* The message goes to a receiver; a call leaves a reply, for the wait     *)
(* that begins.                                                            *)
(***************************************************************************)
LEMMA GiveInv ==
  ASSUME ChannelInv, NEW t \in Threads, Operate(t), Gives(t)
  PROVE  ChannelInv'
<1>1. ThreadsStep /\ ChannelTypes'
  BY OperateTyped DEF ChannelInv
<1>2. lock = t /\ UNCHANGED <<count, buffer>> /\ lock' = NoThread
  BY Passes DEF Gives, Return, Block
<1>3. PICK base : ToReceiver(t, base)
  BY Zenon DEF Gives
<1>4. PICK n : n = ReplyTo(Sender(t, 0), FutureGen(t))
  OBVIOUS
<1>5. /\ n.owner = t /\ n.gen = th[t].gen + 1 /\ n.pool = IsAsync(call[t]) /\ n.msg = Current(t)
  BY <1>4 DEF ReplyTo, Sender, FutureGen
<1>6. /\ senders' = senders /\ fired' = fired /\ using' = using
      /\ replies' = IF IsCall(call[t]) THEN replies \cup {n} ELSE replies
      /\ receivers # <<>> /\ receivers' = Requeue(Head(receivers), Tail(receivers))
  BY <1>3, <1>4 DEF ToReceiver, DoSend, Sender
<1>7. Entries(receivers') \subseteq Entries(receivers)
  <2>1. Head(receivers) \in ReceiverRefs /\ Tail(receivers) \in Seq(ReceiverRefs)
    BY <1>6, HeadTyped DEF ChannelInv
  <2>2. Entries(receivers') \subseteq Entries(Tail(receivers)) \cup {Head(receivers)}
    <3>1. CASE receivers' = Tail(receivers)
      BY <3>1
    <3>2. CASE receivers' = Append(Tail(receivers), Head(receivers))
      BY <2>1, <3>2, AppendEntries
    <3> QED BY <1>6, <3>1, <3>2 DEF Requeue
  <2> QED BY <1>6, <2>2, TailEntries DEF ChannelInv, ChannelTypes
<1>8. \A e \in Replies' : e \in Replies \/ (e = n /\ IsCall(call[t]))
  BY <1>6 DEF Replies
<1>9. ASSUME IsCall(call[t])
      PROVE  ReplyOK(n)'
  <2>1. t = n.msg[1] /\ Started(n.msg)'
    BY <1>2, <1>5 DEF Current, Started, ChannelInv, ChannelTypes
  <2>2. CASE call[t] = "sync_call"
    <3>1. Blocks(t)
      BY <1>2, <2>2, GiveThreads DEF ChannelInv
    <3>2. /\ ~n.pool /\ th'[n.owner].gen = n.gen /\ th'[n.owner].state = "Suspending"
          /\ call'[n.owner] = "sync_call" /\ Current(n.owner)' = n.msg
      BY <1>5, <2>2, <3>1 DEF Blocks, IsAsync, Current
    <3>3. n.gen \in Nat
      BY <1>5 DEF ChannelInv, ChannelTypes, ThreadRecs
    <3> QED BY <1>5, <2>1, <3>2, <3>3 DEF ReplyOK, NotAhead, Awaits, Waiting
  <2>3. CASE call[t] = "async_call"
    <3>1. th'[t] = th[t] /\ n.pool
      BY <1>2, <1>5, <2>3, GiveThreads DEF ChannelInv, IsAsync
    <3>2. th'[t].state = "Running"
      BY <1>2, <3>1 DEF ChannelInv, HolderInv, Locked
    <3> QED BY <1>5, <2>1, <3>1, <3>2 DEF ReplyOK, NotAhead, Awaits, Waiting
  <2> QED BY <1>9, <2>2, <2>3 DEF IsCall
<1>10. EntryInv'
  BY <1>1, <1>6, <1>7, <1>8, <1>9, EntryStep
<1>11. FreshInv'
  <2>1. /\ Untouched(Current(t)) /\ \A e \in Entries(senders) : e.msg # Current(t) /\ Untouched(e.msg)
    BY <1>2 DEF ChannelInv, FreshInv
  <2>2. \A e \in Entries(senders) : Untouched(e.msg)'
    BY <1>5, <1>6, <1>8, <2>1 DEF Untouched
  <2>3. \A u \in Threads : lock' # u
    BY <1>2, ChannelAssumption
  <2>4. Distinct(senders') /\ \A m \in fired' : Started(m)'
    BY <1>2, <1>6 DEF ChannelInv, FreshInv, Started
  <2> QED BY <1>6, <2>2, <2>3, <2>4 DEF FreshInv
<1>12. HolderInv'
  BY <1>1, HolderStep DEF ChannelInv
<1> QED BY <1>1, <1>10, <1>11, <1>12 DEF ChannelInv

(***************************************************************************)
(* The first message is taken from the queue; the reply to a call is for   *)
(* the wait the entry is for.                                              *)
(***************************************************************************)
LEMMA TakeInv ==
  ASSUME ChannelInv, NEW t \in Threads, Operate(t), call[t] \in Recvs, FromSender(t)
  PROVE  ChannelInv'
<1>1. ThreadsStep /\ ChannelTypes'
  BY OperateTyped DEF ChannelInv
<1>2. lock = t /\ UNCHANGED <<count, buffer>> /\ lock' = NoThread
  BY Passes DEF FromSender, Return
<1>3. PICK s : s = Head(senders)
  OBVIOUS
<1>4. PICK n : n = ReplyTo(s, s.gen)
  OBVIOUS
<1>5. /\ n.owner = s.owner /\ n.gen = s.gen /\ n.pool = s.pool /\ n.msg = s.msg
  BY <1>4 DEF ReplyTo
<1>6. /\ senders # <<>> /\ senders' = Tail(senders) /\ fired' = fired /\ using' = using
      /\ replies' = IF s.call THEN replies \cup {n} ELSE replies
      /\ receivers' = Requeue(Receiver(t, 0), receivers)
  BY <1>3, <1>4 DEF FromSender, DoSend
<1>7. senders \in Seq(SenderRefs) /\ receivers \in Seq(ReceiverRefs) /\ Distinct(senders)
  BY DEF ChannelInv, ChannelTypes, FreshInv
<1>8. /\ s \in Entries(senders) /\ Entries(senders') \subseteq Entries(senders)
      /\ Distinct(senders') /\ \A e \in Entries(senders') : e.msg # s.msg
  BY <1>3, <1>6, <1>7, TailEntries
<1>9. \A e \in Replies' : e \in Replies \/ (e = n /\ s.call)
  BY <1>6 DEF Replies
<1>10. ASSUME s.call
       PROVE  ReplyOK(n)'
  <2>1. s \in SenderRefs /\ SenderOK(s)
    BY <1>8, EntryTyped DEF ChannelInv, EntryInv
  <2>2. s.owner \in Threads
    BY <2>1 DEF SenderRefs
  <2>3. lock = s.owner => s.msg # Current(s.owner)
    BY <1>8, <2>2, Zenon DEF ChannelInv, FreshInv
  <2>4. SenderOK(s)'
    BY <1>1, <2>1, <2>3, SenderKept DEF ChannelInv
  <2>5. NotAhead(n)' <=> NotAhead(s)'
    BY <1>5 DEF NotAhead
  <2>6. Awaits(n)' <=> Awaits(s)'
    BY <1>5 DEF Awaits, Waiting
  <2> QED BY <1>5, <1>10, <2>4, <2>5, <2>6 DEF SenderOK, ReplyOK, Waiting, Current, Started
<1>11. \A e \in Entries(receivers') : e \in Entries(receivers) \/ ReceiverOK(e)'
  <2>1. CASE receivers' = receivers
    BY <2>1
  <2>2. CASE call[t] = "async_recv_auto" /\ receivers' = Append(receivers, Receiver(t, 0))
    <3>1. Receiver(t, 0) \in ReceiverRefs
      BY <1>2, PartyTyped DEF ChannelInv, HolderInv, Locked
    <3>2. \A e \in Entries(receivers') : e \in Entries(receivers) \/ e = Receiver(t, 0)
      BY <1>7, <2>2, <3>1, AppendEntries
    <3>3. PICK r : r = Receiver(t, 0)
      OBVIOUS
    <3>4. r.pool /\ r.gen = 0
      BY <2>2, <3>3 DEF Receiver, IsAsync
    <3>5. ReceiverOK(r)'
      BY <3>4 DEF ReceiverOK, NotAhead, Awaits
    <3> QED BY <3>2, <3>3, <3>5
  <2> QED BY <1>6, <2>1, <2>2 DEF Requeue, Receiver
<1>12. EntryInv'
  BY <1>1, <1>8, <1>9, <1>10, <1>11, EntryStep
<1>13. FreshInv'
  <2>1. \A e \in Entries(senders') : Untouched(e.msg)'
    BY <1>5, <1>6, <1>8, <1>9 DEF ChannelInv, FreshInv, Untouched
  <2>2. \A u \in Threads : lock' # u
    BY <1>2, ChannelAssumption
  <2>3. \A m \in fired' : Started(m)'
    BY <1>2, <1>6 DEF ChannelInv, FreshInv, Started
  <2> QED BY <1>8, <2>1, <2>2, <2>3 DEF FreshInv
<1>14. HolderInv'
  BY <1>1, HolderStep DEF ChannelInv
<1> QED BY <1>1, <1>12, <1>13, <1>14 DEF ChannelInv

(***************************************************************************)
(* The caller is queued, blocked or with its event pool.                   *)
(***************************************************************************)
LEMMA QueuesInv ==
  ASSUME ChannelInv, NEW t \in Threads, Operate(t), Queues(t)
  PROVE  ChannelInv'
<1>1. ThreadsStep /\ ChannelTypes'
  BY OperateTyped DEF ChannelInv
<1>2. lock = t /\ UNCHANGED <<count, buffer>> /\ lock' = NoThread
  BY Passes DEF Queues, Return, Block
<1>3. UNCHANGED <<replies, using, fired>>
  BY DEF Queues, QueueSender, QueueReceiver, replyVars
<1>4. Replies' = Replies
  BY <1>3 DEF Replies
<1>5. HolderInv'
  BY <1>1, HolderStep DEF ChannelInv
<1>6. \A u \in Threads : lock' # u
  BY <1>2, ChannelAssumption
<1>7. /\ Untouched(Current(t)) /\ Distinct(senders)
      /\ \A e \in Entries(senders) : e.msg # Current(t) /\ Untouched(e.msg)
  BY <1>2 DEF ChannelInv, FreshInv
<1>8. \A m \in fired' : Started(m)'
  BY <1>2, <1>3 DEF ChannelInv, FreshInv, Started
<1>9. PICK g \in Nat :
        /\ \/ call[t] \in Sends /\ QueueSender(t, g)
           \/ call[t] \in Recvs /\ QueueReceiver(t, g)
        /\ \/ call[t] \in Blocking /\ g = th[t].gen + 1
           \/ IsAsync(call[t]) /\ call[t] \notin Blocking /\ g = 0
  <2>1. FutureGen(t) = th[t].gen + 1 /\ FutureGen(t) \in Nat
    BY DEF FutureGen, ChannelInv, ChannelTypes, ThreadRecs
  <2> QED BY <2>1 DEF Queues, Sends, Recvs, Blocking, IsAsync
<1>10. \/ /\ call[t] \in Blocking /\ ~IsAsync(call[t]) /\ g = th[t].gen + 1 /\ g > 0
          /\ th'[t].state = "Suspending" /\ th'[t].gen = g /\ call'[t] = call[t]
       \/ IsAsync(call[t]) /\ g = 0 /\ th'[t].state = "Running"
  <2>1. CASE call[t] \in Blocking /\ g = th[t].gen + 1
    <3>1. Blocks(t)
      BY <1>2, <2>1, QueueThreads DEF ChannelInv
    <3>2. th[t].gen \in Nat
      BY DEF ChannelInv, ChannelTypes, ThreadRecs
    <3>3. /\ th'[t].state = "Suspending" /\ th'[t].gen = th[t].gen + 1
          /\ call'[t] = call[t]
      BY <3>1, Zenon DEF Blocks
    <3>4. ~IsAsync(call[t])
      BY <2>1 DEF Blocking, IsAsync
    <3> QED BY <2>1, <3>2, <3>3, <3>4
  <2>2. CASE IsAsync(call[t]) /\ call[t] \notin Blocking /\ g = 0
    <3>1. th' = th
      BY <1>2, <2>2, QueueThreads DEF ChannelInv
    <3> QED BY <1>2, <2>2, <3>1 DEF ChannelInv, HolderInv, Locked
  <2> QED BY <1>9, <2>1, <2>2
<1>11. CASE call[t] \in Sends /\ QueueSender(t, g)
  <2>1. PICK n : n = Sender(t, g)
    OBVIOUS
  <2>2. n \in SenderRefs
    BY <1>2, <2>1, PartyTyped DEF ChannelInv, HolderInv, Locked
  <2>3. /\ n.owner = t /\ n.gen = g /\ n.pool = IsAsync(call[t]) /\ n.call = IsCall(call[t])
        /\ n.msg = Current(t)
    BY <2>1 DEF Sender
  <2>4. senders' = Append(senders, n) /\ receivers' = receivers
    BY <1>11, <2>1 DEF QueueSender
  <2>5. Entries(senders') = Entries(senders) \cup {n} /\ Distinct(senders')
    <3>1. senders \in Seq(SenderRefs)
      BY DEF ChannelInv, ChannelTypes
    <3>2. \A e \in Entries(senders) : e.msg # n.msg
      BY <1>7, <2>3
    <3> QED BY <1>7, <2>2, <2>4, <3>1, <3>2, AppendEntries, Zenon
  <2>6. SenderOK(n)'
    <3>1. n.owner = n.msg[1] /\ Started(n.msg)'
      BY <1>2, <2>3 DEF Current, Started, ChannelInv, ChannelTypes
    <3>2. CASE /\ call[t] \in Blocking /\ ~IsAsync(call[t]) /\ g = th[t].gen + 1 /\ g > 0
               /\ th'[t].state = "Suspending" /\ th'[t].gen = g /\ call'[t] = call[t]
      <4>1. /\ ~n.pool /\ th'[n.owner].gen = n.gen /\ th'[n.owner].state = "Suspending" /\ n.gen # 0
            /\ Current(n.owner)' = n.msg
        <5>1. ~n.pool /\ n.owner = t /\ n.gen = g
          BY <2>3, <3>2
        <5>2. th'[n.owner].gen = n.gen /\ th'[n.owner].state = "Suspending"
          BY <3>2, <5>1
        <5>3. n.gen # 0
          BY <2>3, <3>2, <5>1
        <5>4. Current(t)' = Current(t)
          BY <1>2 DEF Current
        <5>5. n.msg = Current(t)
          BY <2>3
        <5> QED BY <5>1, <5>2, <5>3, <5>4, <5>5
      <4>2. call'[n.owner] = IF n.call THEN "sync_call" ELSE "sync_send"
        BY <1>11, <2>3, <3>2 DEF Blocking, Sends, IsCall
      <4>3. n.gen \in Nat
        BY <2>3
      <4> QED BY <3>1, <4>1, <4>2, <4>3 DEF SenderOK, NotAhead, Awaits, Waiting
    <3>3. CASE IsAsync(call[t]) /\ g = 0 /\ th'[t].state = "Running"
      <4>1. n.pool /\ n.gen = 0 /\ th'[n.owner].state = "Running"
        BY <2>3, <3>3
      <4> QED BY <3>1, <4>1 DEF SenderOK, NotAhead, Awaits, Waiting
    <3> QED BY <1>10, <3>2, <3>3
  <2>7. EntryInv'
    BY <1>1, <1>4, <2>4, <2>5, <2>6, EntryStep
  <2>8. \A e \in Entries(senders') : Untouched(e.msg)'
    BY <1>3, <1>4, <1>7, <2>3, <2>5 DEF Untouched
  <2>9. FreshInv'
    BY <1>6, <1>8, <2>5, <2>8 DEF FreshInv
  <2> QED BY <1>1, <1>5, <2>7, <2>9 DEF ChannelInv
<1>12. CASE call[t] \in Recvs /\ QueueReceiver(t, g)
  <2>1. PICK n : n = Receiver(t, g)
    OBVIOUS
  <2>2. n \in ReceiverRefs
    BY <1>2, <2>1, PartyTyped DEF ChannelInv, HolderInv, Locked
  <2>3. n.owner = t /\ n.gen = g /\ n.pool = IsAsync(call[t])
    BY <2>1 DEF Receiver
  <2>4. receivers' = Append(receivers, n) /\ senders' = senders
    BY <1>12, <2>1 DEF QueueReceiver
  <2>5. Entries(receivers') = Entries(receivers) \cup {n}
    BY <2>2, <2>4, AppendEntries DEF ChannelInv, ChannelTypes
  <2>6. ReceiverOK(n)'
    <3>1. CASE /\ call[t] \in Blocking /\ ~IsAsync(call[t]) /\ g = th[t].gen + 1 /\ g > 0
               /\ th'[t].state = "Suspending" /\ th'[t].gen = g /\ call'[t] = call[t]
      <4>1. call'[n.owner] = "sync_recv" /\ ~n.pool /\ n.gen # 0 /\ n.gen = th'[n.owner].gen /\ n.gen \in Nat
        BY <1>12, <2>3, <3>1 DEF Blocking, Recvs
      <4> QED BY <4>1 DEF ReceiverOK, NotAhead, Awaits
    <3>2. CASE IsAsync(call[t]) /\ g = 0 /\ th'[t].state = "Running"
      BY <2>3, <3>2 DEF ReceiverOK, NotAhead, Awaits
    <3> QED BY <1>10, <3>1, <3>2
  <2>7. EntryInv'
    BY <1>1, <1>4, <2>4, <2>5, <2>6, EntryStep
  <2>8. \A e \in Entries(senders') : Untouched(e.msg)'
    BY <1>3, <1>4, <1>7, <2>4 DEF Untouched
  <2>9. FreshInv'
    BY <1>6, <1>7, <1>8, <2>4, <2>8 DEF FreshInv
  <2> QED BY <1>1, <1>5, <2>7, <2>9 DEF ChannelInv
<1> QED BY <1>9, <1>11, <1>12

-----------------------------------------------------------------------------
(* The invariant                                                           *)

LEMMA OperateInv ==
  ASSUME ChannelInv, NEW t \in Threads, Operate(t)
  PROVE  ChannelInv' /\ ThreadsStep
<1>1. ThreadsStep
  BY OperateTyped DEF ChannelInv
<1> QED BY <1>1, Passes, NextInv, GiveInv, TakeInv, QueuesInv, Zenon

LEMMA ChannelInit ==
  Init => ChannelInv
<1> SUFFICES ASSUME Init
             PROVE  ChannelInv
  OBVIOUS
<1>1. th \in [Threads -> ThreadRecs]
  BY DEF Init, ThreadRecs
<1>2. ChannelTypes
  BY <1>1, ChannelAssumption DEF Init, ChannelTypes
<1>3. HolderInv
  BY ChannelAssumption DEF Init, HolderInv, Waiting
<1>4. Entries(senders) = {} /\ Entries(receivers) = {} /\ Replies = {}
  BY DEF Init, Entries, Replies
<1>5. EntryInv
  BY <1>4 DEF EntryInv
<1>6. FreshInv
  <2>1. Distinct(senders)
    <3>1. senders = << >>
      BY DEF Init
    <3>2. 1..Len(senders) = {}
      BY <3>1
    <3> QED BY <3>2, Zenon DEF Distinct
  <2>2. fired = {} /\ \A t \in Threads : lock # t
    BY ChannelAssumption DEF Init
  <2> QED BY <1>4, <2>1, <2>2, Zenon DEF FreshInv
<1> QED BY <1>2, <1>3, <1>5, <1>6 DEF ChannelInv

LEMMA ChannelStutter ==
  ASSUME ChannelInv, UNCHANGED vars
  PROVE  ChannelInv'
<1>1. UNCHANGED <<th, call, count, buffer, lock, senders, receivers, replies, using, fired, got, told>>
  BY DEF vars, queues, replyVars, history
<1>2. ChannelTypes' /\ HolderInv'
  BY <1>1 DEF ChannelInv, ChannelTypes, HolderInv, Locked, InCall, Waiting
<1>3. Replies' = Replies
  BY <1>1 DEF Replies
<1>4. EntryInv'
  BY <1>1, <1>3 DEF ChannelInv, EntryInv, SenderOK, ReceiverOK, ReplyOK, NotAhead, Awaits, Waiting, Started, Current
<1>5. FreshInv'
  BY <1>1, <1>3 DEF ChannelInv, FreshInv, Untouched, Started, Current
<1> QED BY <1>2, <1>4, <1>5 DEF ChannelInv

LEMMA ChannelStep ==
  ASSUME ChannelInv, [Next]_vars
  PROVE  ChannelInv'
BY OperateInv, OtherInv, StartInv, ChannelStutter, Zenon DEF Next, Kernel

-----------------------------------------------------------------------------
(* What a step receives                                                    *)

(***************************************************************************)
(* The buffer of a queued sender that still waits holds the message it     *)
(* was queued with.                                                        *)
(***************************************************************************)
LEMMA ContentIsMessage ==
  ASSUME ChannelInv, NEW s \in Entries(senders), s.pool \/ Awaits(s)
  PROVE  Content(s) = s.msg
<1>1. s \in SenderRefs /\ SenderOK(s)
  BY EntryTyped DEF ChannelInv, EntryInv
<1>2. CASE s.pool
  BY <1>2 DEF Content
<1>3. CASE ~s.pool /\ Awaits(s)
  <2>1. /\ s.owner \in Threads /\ Waiting(s.owner) /\ s.msg = <<s.owner, count[s.owner]>>
        /\ call[s.owner] \in {"sync_call", "sync_send"}
    BY <1>1, <1>3 DEF SenderRefs, SenderOK, Awaits, Current
  <2>2. buffer[s.owner] = count[s.owner]
    BY <2>1 DEF ChannelInv, HolderInv, InCall, Sends
  <2> QED BY <1>3, <2>1, <2>2 DEF Content
<1> QED BY <1>2, <1>3

(***************************************************************************)
(* And so does the caller's.                                               *)
(***************************************************************************)
LEMMA ContentOfCaller ==
  ASSUME ChannelInv, NEW t \in Threads, lock = t, call[t] \in Sends
  PROVE  Content(Sender(t, 0)) = Current(t)
<1>1. Locked(t)
  BY DEF ChannelInv, HolderInv
<1> QED BY <1>1 DEF Content, Sender, Current, Locked

LEMMA GiveGot ==
  ASSUME ChannelInv, NEW t \in Threads, lock = t, Gives(t)
  PROVE  /\ Current(t) \in Msgs
         /\ got'[Current(t)] = got[Current(t)] + 1
         /\ \A n \in Msgs : n # Current(t) => got'[n] = got[n]
         /\ \A n \in Msgs : got'[n] >= got[n]
         /\ got'[Current(t)] > 0
<1>1. PICK base : ToReceiver(t, base) /\ call[t] \in Sends
  BY Zenon DEF Gives, Sends
<1>2. PICK m : m = Current(t)
  OBVIOUS
<1>3. got' = [got EXCEPT ![m] = got[m] + 1]
  BY <1>1, <1>2, ContentOfCaller DEF ToReceiver, DoSend
<1>4. got \in [Msgs -> Nat] /\ m \in Msgs
  <2>1. count[t] > 0
    BY DEF ChannelInv, HolderInv, Locked
  <2> QED BY <1>2, <2>1, MessageOfCall DEF ChannelInv, ChannelTypes
<1>5. got'[m] = got[m] + 1 /\ \A n \in Msgs : n # m => got'[n] = got[n]
  BY <1>3, <1>4, OneMore, Zenon
<1> QED BY <1>2, <1>4, <1>5

LEMMA TakeGot ==
  ASSUME ChannelInv, NEW t \in Threads, FromSender(t)
  PROVE  /\ \A n \in Msgs : got'[n] = IF n = Content(Head(senders)) THEN got[n] + 1 ELSE got[n]
         /\ \A n \in Msgs : got'[n] >= got[n]
         /\ \A n \in Msgs : n = Content(Head(senders)) => got'[n] > 0
<1>1. PICK m : m = Content(Head(senders))
  OBVIOUS
<1>2. got' = [got EXCEPT ![m] = got[m] + 1] /\ got \in [Msgs -> Nat]
  BY <1>1 DEF FromSender, DoSend, ChannelInv, ChannelTypes
<1>3. \A n \in Msgs : got'[n] = IF n = m THEN got[n] + 1 ELSE got[n]
  BY <1>2, OneMore
<1> QED BY <1>1, <1>2, <1>3

LEMMA QuietStep ==
  ASSUME ChannelInv, NEW t \in Threads,
         \/ Operate(t) /\ (GivesUp(t) \/ NextReceiver(t) \/ NextSender(t) \/ Queues(t))
         \/ Suspend(t) \/ Timeout(t) \/ Resume(t) \/ DropChannel(t) \/ DropMemory(t)
         \/ \E o, timed : Start(t, o, timed)
         \/ \E whole : Exit(t, whole)
         \/ \E r \in replies : GetReply(t, r) \/ DropReply(t, r)
  PROVE  /\ got' = got /\ fired' = fired /\ Replies' \subseteq Replies
         /\ told' = told \/ \E m : told' = [told EXCEPT ![m] = "error"]
<1>1. CASE GivesUp(t) \/ NextReceiver(t) \/ NextSender(t) \/ Queues(t)
  <2>1. UNCHANGED <<got, fired, replies, using>>
    BY <1>1 DEF GivesUp, NextReceiver, NextSender, DoSendFails, Queues, QueueSender, QueueReceiver,
                replyVars, history
  <2>2. told' = told \/ \E m : told' = [told EXCEPT ![m] = "error"]
    BY <1>1 DEF GivesUp, NextReceiver, NextSender, DoSendFails, Queues, QueueSender, QueueReceiver, history
  <2> QED BY <2>1, <2>2 DEF Replies
<1>2. CASE \/ Suspend(t) \/ Timeout(t) \/ Resume(t) \/ DropChannel(t) \/ DropMemory(t)
           \/ \E o, timed : Start(t, o, timed)
           \/ \E whole : Exit(t, whole)
  <2>1. UNCHANGED <<got, fired, replies, using>>
    BY <1>2 DEF Suspend, Timeout, Resume, DropChannel, DropMemory, Start, Exit, Unmoved, replyVars, history
  <2>2. told' = told \/ \E m : told' = [told EXCEPT ![m] = "error"]
    BY <1>2 DEF Suspend, Timeout, Resume, DropChannel, DropMemory, Start, Exit, history
  <2> QED BY <2>1, <2>2 DEF Replies
<1>3. CASE \E r \in replies : GetReply(t, r) \/ DropReply(t, r)
  <2>1. UNCHANGED <<got, fired, told>>
    BY <1>3 DEF GetReply, DropReply, history
  <2>2. Replies' \subseteq Replies
    BY <1>3 DEF GetReply, DropReply, Replies, ChannelInv, ChannelTypes
  <2> QED BY <2>1, <2>2
<1> QED BY <1>1, <1>2, <1>3
=============================================================================
