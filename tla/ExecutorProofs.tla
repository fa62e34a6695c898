--------------------------- MODULE ExecutorProofs ---------------------------
(***************************************************************************)
(* For any calls, an executor that sleeps has a waiter for everything its  *)
(* task waits for and nothing left in its receivers, and every call that   *)
(* was made is answered, on its way, or lost in a way the model records.   *)
(***************************************************************************)
EXTENDS Executor, SequenceTheorems, TLAPS

Names == {Service} \cup AsyncCalls

Items == Calls \cup {"dropped", "reply"}

PoolEvents == [ev : Events, item : Items]

(* The events the futures of a task register. *)
EventsOf(t) == IF t = Service THEN {Stream, DropEvent} ELSE {ReplyEvent(t)}

Types ==
    /\ DOMAIN tasks \subseteq {0}
    /\ \A i \in DOMAIN tasks : tasks[i] \in Names
    /\ queue \in Seq({0})
    /\ DOMAIN waiters \subseteq Events
    /\ \A e \in DOMAIN waiters : waiters[e] \in [id : {0}, oneshot : BOOLEAN]
    /\ slots \in [Events -> Items \cup {Nothing}]
    /\ future \in [Names -> {"unpolled", "polled", "closed", "finished", "dropped"}]
    /\ pool \in Seq(PoolEvents)
    /\ batch \in Seq(PoolEvents)
    /\ unsent \subseteq Calls

(* A future that was never polled has registered nothing and got nothing. *)
Fresh ==
    \A t \in Names : future[t] = "unpolled" =>
        \A e \in EventsOf(t) : e \notin DOMAIN waiters /\ slots[e] = Nothing

(* While the service lives no spawned task has been polled: it is replaced *)
(* by the first one.                                                       *)
ServiceFirst ==
    \A i \in DOMAIN tasks : tasks[i] = Service =>
        \A c \in AsyncCalls : future[c] = "unpolled"

(* The stream keeps its waiter, whatever arrives. *)
StreamStays ==
    /\ Stream \in DOMAIN waiters => waiters[Stream].oneshot = FALSE
    /\ \A i \in DOMAIN tasks :
          tasks[i] = Service /\ future[Service] = "polled" => Stream \in DOMAIN waiters

(* A live task is in the queue, or waits for each of its events.           *)
Served(t) ==
    /\ future[t] \in {"unpolled", "polled", "closed"}
    /\ future[t] = "closed" => t = Service
    /\ future[t] = "unpolled" => queue # <<>>
    /\ future[t] # "unpolled" =>
          \A e \in Awaited(t) : IF slots[e] = Nothing THEN e \in DOMAIN waiters ELSE queue # <<>>

LiveServed == \A i \in DOMAIN tasks : Served(tasks[i])

SleepsIdle == exec = "await" => queue = <<>>

IInv == Types /\ Fresh /\ ServiceFirst /\ StreamStays /\ LiveServed /\ SleepsIdle

(* Only a service in the map has a stream that waits, or a call received.  *)
StreamOwned ==
    Stream \in DOMAIN waiters \/ slots[Stream] # Nothing =>
        0 \in DOMAIN tasks /\ tasks[0] = Service /\ future[Service] = "polled"

BatchDone == exec # "dispatch" => batch = <<>>

(* Where a call is that was made and neither answered nor lost. *)
Held(c) ==
    \/ Carries(pool, c) \/ Carries(batch, c) \/ slots[Stream] = c
    \/ \E i \in DOMAIN tasks : tasks[i] = c

Tracked == \A c \in Calls \ (unsent \cup answered \cup lost) : Held(c)

CInv == StreamOwned /\ BatchDone /\ Tracked

-----------------------------------------------------------------------------
(***************************************************************************)
(* Events of different futures are different.                              *)
(***************************************************************************)
LEMMA EventsDiffer ==
    /\ Stream # DropEvent /\ Stream \in Events /\ DropEvent \in Events
    /\ \A c \in AsyncCalls : ReplyEvent(c) \in Events /\ ReplyEvent(c) # Stream /\ ReplyEvent(c) # DropEvent
    /\ \A c, d \in AsyncCalls : ReplyEvent(c) = ReplyEvent(d) => c = d
    /\ Service \notin AsyncCalls
BY ExecutorAssumption DEF Stream, DropEvent, ReplyEvent, Events

(***************************************************************************)
(* The initial state: the service is in the queue and nothing waits.       *)
(***************************************************************************)
LEMMA InvInit == ExecutorInit => IInv
<1> SUFFICES ASSUME ExecutorInit PROVE IInv
    OBVIOUS
<1>1. DOMAIN tasks = {0} /\ tasks[0] = Service
    BY DEF ExecutorInit, Spawned, With, NewTaskId
<1>2. DOMAIN waiters = {}
    BY DEF ExecutorInit
<1>3. queue = <<0>> /\ queue # <<>> /\ queue \in Seq({0})
    BY DEF ExecutorInit, NewTaskId
<1>4. Types
    BY <1>1, <1>2, <1>3 DEF ExecutorInit, Types, Names
<1>5. Fresh
    BY <1>2, EventsDiffer DEF ExecutorInit, Fresh, Names, EventsOf
<1>6. ServiceFirst /\ StreamStays /\ SleepsIdle
    BY <1>1, <1>2 DEF ExecutorInit, ServiceFirst, StreamStays, SleepsIdle
<1>7. LiveServed
    BY <1>1, <1>3 DEF ExecutorInit, LiveServed, Served
<1> QED
    BY <1>4, <1>5, <1>6, <1>7 DEF IInv

(***************************************************************************)
(* The clients only add to the pool.                                       *)
(***************************************************************************)
LEMMA ClientStep ==
    ASSUME IInv,
           \/ \E c \in Calls : ClientCall(c)
           \/ ClientDrop
           \/ \E c \in AsyncCalls : OtherAnswers(c)
    PROVE  IInv'
<1>1. UNCHANGED <<batch, tasks, queue, waiters, slots, future, exec>>
    BY DEF ClientCall, ClientDrop, OtherAnswers
<1>2. unsent' \subseteq Calls
    BY DEF IInv, Types, ClientCall, ClientDrop, OtherAnswers
<1>3. pool' \in Seq(PoolEvents)
  <2>1. PICK e \in Events, x \in Items : Emit(e, x)
      BY EventsDiffer DEF Items, ClientCall, ClientDrop, OtherAnswers
  <2>2. [ev |-> e, item |-> x] \in PoolEvents
      BY DEF PoolEvents
  <2> QED
      BY <2>1, <2>2, Zenon, AppendProperties DEF IInv, Types, Emit
<1>4. Types'
    BY <1>1, <1>2, <1>3 DEF IInv, Types
<1>5. Fresh' /\ ServiceFirst' /\ StreamStays' /\ SleepsIdle'
    BY <1>1 DEF IInv, Fresh, ServiceFirst, StreamStays, SleepsIdle
<1>6. LiveServed'
    BY <1>1 DEF IInv, LiveServed, Served, Awaited
<1> QED
    BY <1>4, <1>5, <1>6 DEF IInv

(***************************************************************************)
(* await_event: the executor takes the batch, and the events in it go to   *)
(* their receivers.                                                        *)
(***************************************************************************)
LEMMA BatchStep ==
    ASSUME IInv, AwaitEvent \/ DispatchNobody \/ DispatchEnd
    PROVE  IInv'
<1>1. UNCHANGED <<tasks, queue, waiters, slots, future, unsent>> /\ exec' # "await"
    BY DEF AwaitEvent, DispatchNobody, DispatchEnd
<1>2. pool' \in Seq(PoolEvents) /\ batch' \in Seq(PoolEvents)
  <2>1. pool \in Seq(PoolEvents) /\ batch \in Seq(PoolEvents)
      BY DEF IInv, Types
  <2>2. CASE AwaitEvent
      BY <2>1, <2>2, EmptySeq, Zenon DEF AwaitEvent
  <2>3. CASE DispatchNobody
      BY <2>1, <2>3, HeadTailProperties DEF DispatchNobody
  <2>4. CASE DispatchEnd
      BY <2>1, <2>4 DEF DispatchEnd
  <2> QED
      BY <2>2, <2>3, <2>4
<1>3. Types'
    BY <1>1, <1>2 DEF IInv, Types
<1>4. Fresh' /\ ServiceFirst' /\ StreamStays' /\ SleepsIdle'
    BY <1>1 DEF IInv, Fresh, ServiceFirst, StreamStays, SleepsIdle
<1>5. LiveServed'
    BY <1>1 DEF IInv, LiveServed, Served, Awaited
<1> QED
    BY <1>3, <1>4, <1>5 DEF IInv

LEMMA DispatchStep ==
    ASSUME IInv, Dispatch
    PROVE  IInv'
<1> DEFINE e == Head(batch).ev
           x == Head(batch).item
<1>1. e \in DOMAIN waiters /\ e \in Events /\ x \in Items /\ x # Nothing
  <2>1. Head(batch) \in PoolEvents
      BY HeadTailProperties DEF IInv, Types, Dispatch
  <2>2. x # Nothing /\ e \in Events /\ x \in Items
      BY <2>1, ExecutorAssumption DEF PoolEvents, Items
  <2> QED
      BY <2>2 DEF Dispatch
<1>2. waiters[e] \in [id : {0}, oneshot : BOOLEAN]
    BY <1>1 DEF IInv, Types
<1>3. queue' \in Seq({0}) /\ queue' # <<>>
    BY <1>2 DEF IInv, Types, Dispatch, Woken
<1>4. /\ slots' = [slots EXCEPT ![e] = x]
      /\ UNCHANGED <<tasks, future, pool, unsent, exec>> /\ exec = "dispatch"
    BY DEF Dispatch
<1>5. batch' \in Seq(PoolEvents)
    BY DEF IInv, Types, Dispatch
<1>6. /\ DOMAIN waiters' = IF waiters[e].oneshot THEN DOMAIN waiters \ {e} ELSE DOMAIN waiters
      /\ \A w \in DOMAIN waiters' : w \in DOMAIN waiters /\ waiters'[w] = waiters[w]
    BY DEF Dispatch, Without
<1> HIDE DEF e, x
<1>7. slots' \in [Events -> Items \cup {Nothing}]
    BY <1>1, <1>4 DEF IInv, Types
<1>8. /\ DOMAIN waiters' \subseteq Events
      /\ \A w \in DOMAIN waiters' : waiters'[w] \in [id : {0}, oneshot : BOOLEAN]
    BY <1>6 DEF IInv, Types
<1>9. Types'
    BY <1>3, <1>4, <1>5, <1>7, <1>8 DEF IInv, Types
<1>10. Fresh'
    BY <1>1, <1>4, <1>6 DEF IInv, Types, Fresh
<1>11. ServiceFirst' /\ SleepsIdle'
    BY <1>4 DEF IInv, ServiceFirst, SleepsIdle
<1>12. StreamStays'
    BY <1>4, <1>6 DEF IInv, StreamStays
<1>13. LiveServed'
  <2> SUFFICES ASSUME NEW i \in DOMAIN tasks PROVE Served(tasks[i])'
      BY <1>4 DEF LiveServed
  <2>1. Served(tasks[i])
      BY DEF IInv, LiveServed
  <2>2. Awaited(tasks[i])' = Awaited(tasks[i])
      BY <1>4 DEF Awaited
  <2>3. \A w \in Awaited(tasks[i]) : slots'[w] = Nothing => slots[w] = Nothing /\ w # e
    <3>1. Awaited(tasks[i]) \subseteq Events
        BY EventsDiffer DEF IInv, Types, Awaited, Names
    <3> QED
        BY <1>1, <1>4, <3>1 DEF IInv, Types
  <2> QED
      BY <1>3, <1>4, <1>6, <2>1, <2>2, <2>3 DEF Served
<1> QED
    BY <1>9, <1>10, <1>11, <1>12, <1>13 DEF IInv

(***************************************************************************)
(* What a poll starts from: the one task there is, under the one id.       *)
(***************************************************************************)
LEMMA PolledTask ==
    ASSUME IInv, NEW t, Polling(t)
    PROVE  /\ DOMAIN tasks = {0} /\ tasks[0] = t /\ Head(queue) = 0 /\ t \in Names
           /\ Tail(queue) \in Seq({0}) /\ exec = "run"
           /\ Served(t)
<1>1. queue \in Seq({0}) /\ queue # <<>> /\ Head(queue) \in DOMAIN tasks /\ tasks[Head(queue)] = t
    BY DEF IInv, Types, Polling, Popped
<1>2. Head(queue) = 0 /\ Tail(queue) \in Seq({0})
    BY <1>1
<1> QED
    BY <1>1, <1>2 DEF IInv, Types, Polling, Popped, LiveServed

LEMMA FirstPollStep ==
    ASSUME IInv, FirstPoll
    PROVE  IInv'
<1>1. Polling(Service) /\ future[Service] = "unpolled"
    BY DEF FirstPoll
<1>2. /\ DOMAIN tasks = {0} /\ tasks[0] = Service /\ Head(queue) = 0
      /\ Tail(queue) \in Seq({0}) /\ exec = "run"
    BY <1>1, PolledTask
<1>3. PICK opened \in BOOLEAN :
        /\ future' = [future EXCEPT ![Service] = IF opened THEN "polled" ELSE "closed"]
        /\ waiters' = LET w == With(waiters, DropEvent, Waiter(0, TRUE))
                      IN  IF opened THEN With(w, Stream, Waiter(0, FALSE)) ELSE w
    BY <1>2 DEF FirstPoll
<1>4. /\ UNCHANGED <<batch, tasks, slots, pool, unsent>> /\ queue' = Tail(queue)
      /\ exec' # "await"
    BY <1>2 DEF FirstPoll
<1>5. /\ DOMAIN waiters' = DOMAIN waiters \cup (IF opened THEN {DropEvent, Stream} ELSE {DropEvent})
      /\ \A e \in DOMAIN waiters' :
            waiters'[e] = IF opened /\ e = Stream THEN Waiter(0, FALSE)
                          ELSE IF e = DropEvent THEN Waiter(0, TRUE) ELSE waiters[e]
    BY <1>3, EventsDiffer DEF With
<1>6. slots[Stream] = Nothing /\ slots[DropEvent] = Nothing /\ Stream \notin DOMAIN waiters
    BY <1>1 DEF IInv, Fresh, Names, EventsOf
<1>7. /\ Waiter(0, FALSE) \in [id : {0}, oneshot : BOOLEAN] /\ Waiter(0, FALSE).oneshot = FALSE
      /\ Waiter(0, TRUE) \in [id : {0}, oneshot : BOOLEAN]
    BY DEF Waiter
<1>8. Types'
  <2>1. /\ DOMAIN waiters' \subseteq Events
        /\ \A e \in DOMAIN waiters' : waiters'[e] \in [id : {0}, oneshot : BOOLEAN]
      BY <1>5, <1>7, EventsDiffer DEF IInv, Types
  <2>2. future' \in [Names -> {"unpolled", "polled", "closed", "finished", "dropped"}]
      BY <1>3 DEF IInv, Types
  <2> QED
      BY <1>2, <1>4, <2>1, <2>2 DEF IInv, Types
<1>9. \A t \in Names : t # Service => future'[t] = future[t] /\ t \in AsyncCalls
    BY <1>3 DEF IInv, Types, Names
<1>10. future'[Service] = IF opened THEN "polled" ELSE "closed"
    BY <1>3 DEF IInv, Types, Names
<1>11. Fresh'
    BY <1>4, <1>5, <1>9, <1>10, EventsDiffer DEF IInv, Fresh, EventsOf
<1>12. ServiceFirst'
    BY <1>4, <1>9, EventsDiffer DEF IInv, ServiceFirst, Names
<1>13. StreamStays'
    BY <1>5, <1>6, <1>7, <1>10, EventsDiffer DEF StreamStays
<1>14. LiveServed'
    BY <1>2, <1>4, <1>5, <1>6, <1>10 DEF LiveServed, Served, Awaited
<1> QED
    BY <1>4, <1>8, <1>11, <1>12, <1>13, <1>14 DEF IInv, SleepsIdle

(***************************************************************************)
(* A later poll of the service takes what is in both receivers.  It goes   *)
(* on with both waiters in place, or leaves the map to the task it spawned *)
(* or to nobody.                                                           *)
(***************************************************************************)
LEMMA ServicePollStep ==
    ASSUME IInv, ServicePoll
    PROVE  IInv'
<1> DEFINE c == slots[Stream]
           ends == slots[DropEvent] # Nothing
           spawns == c \in AsyncCalls
<1>1. Polling(Service) /\ future[Service] # "unpolled"
    BY DEF ServicePoll
<1>2. /\ DOMAIN tasks = {0} /\ tasks[0] = Service /\ Head(queue) = 0
      /\ Tail(queue) \in Seq({0}) /\ exec = "run" /\ Served(Service)
    BY <1>1, PolledTask
<1>3. /\ UNCHANGED <<batch, pool, unsent, exec>>
      /\ slots' = [slots EXCEPT ![Stream] = Nothing, ![DropEvent] = Nothing]
      /\ future' = [future EXCEPT ![Service] = IF ends THEN "finished" ELSE IF ends \/ spawns THEN "dropped" ELSE @]
      /\ waiters' = IF ends \/ spawns THEN Without(waiters, Stream) ELSE waiters
    BY DEF ServicePoll
<1>4. /\ DOMAIN tasks' = IF ends THEN {} ELSE {0}
      /\ ~ends => tasks'[0] = IF spawns THEN c ELSE Service
    BY <1>2 DEF ServicePoll, Spawned, With, Without, NewTaskId
<1>5. queue' \in Seq({0}) /\ (spawns => queue' # <<>>)
    BY <1>2 DEF ServicePoll, NewTaskId
<1>6. /\ DOMAIN waiters' = IF ends \/ spawns THEN DOMAIN waiters \ {Stream} ELSE DOMAIN waiters
      /\ \A e \in DOMAIN waiters' : waiters'[e] = waiters[e]
    BY <1>3 DEF Without
<1>7. \A e \in Events : slots'[e] = IF e \in {Stream, DropEvent} THEN Nothing ELSE slots[e]
    BY <1>3 DEF IInv, Types
<1>8. /\ \A t \in Names : t # Service => future'[t] = future[t]
      /\ future'[Service] = IF ends THEN "finished" ELSE IF spawns THEN "dropped" ELSE future[Service]
    BY <1>3 DEF IInv, Types, Names
<1> HIDE DEF c, ends, spawns
<1>9. Types'
  <2>1. \A i \in DOMAIN tasks' : tasks'[i] \in Names
      BY <1>4 DEF Names, spawns
  <2>2. slots' \in [Events -> Items \cup {Nothing}]
      BY <1>3 DEF IInv, Types
  <2>3. future' \in [Names -> {"unpolled", "polled", "closed", "finished", "dropped"}]
      BY <1>3 DEF IInv, Types
  <2>4. /\ DOMAIN waiters' \subseteq Events
        /\ \A e \in DOMAIN waiters' : waiters'[e] \in [id : {0}, oneshot : BOOLEAN]
      BY <1>6 DEF IInv, Types
  <2> QED
      BY <1>3, <1>4, <1>5, <2>1, <2>2, <2>3, <2>4 DEF IInv, Types
<1>10. Fresh'
  <2> SUFFICES ASSUME NEW t \in Names, future'[t] = "unpolled", NEW e \in EventsOf(t)
               PROVE  e \notin DOMAIN waiters' /\ slots'[e] = Nothing
      BY DEF Fresh
  <2>1. future[t] = "unpolled"
      BY <1>1, <1>8
  <2>2. e \notin DOMAIN waiters /\ slots[e] = Nothing
      BY <2>1 DEF IInv, Fresh
  <2>3. e \in Events
      BY EventsDiffer DEF EventsOf, Names
  <2> QED
      BY <1>6, <1>7, <2>2, <2>3
<1>11. \A d \in AsyncCalls : future'[d] = "unpolled"
    BY <1>2, <1>8, EventsDiffer DEF IInv, ServiceFirst, Names
<1>12. ServiceFirst' /\ SleepsIdle'
    BY <1>2, <1>3, <1>11 DEF ServiceFirst, SleepsIdle
<1>13. StreamStays'
    BY <1>2, <1>4, <1>6, <1>8, EventsDiffer DEF IInv, StreamStays, spawns
<1>14. LiveServed'
  <2>1. CASE ends
      BY <1>4, <2>1 DEF LiveServed
  <2>2. CASE ~ends /\ spawns
    <3>1. future'[c] = "unpolled" /\ c # Service
        BY <1>11, <2>2, EventsDiffer DEF spawns
    <3> QED
        BY <1>4, <1>5, <2>2, <3>1 DEF LiveServed, Served
  <2>3. CASE ~ends /\ ~spawns
    <3>1. future' = future /\ waiters' = waiters
        BY <1>3, <2>3 DEF IInv, Types, Names
    <3>2. DropEvent \in DOMAIN waiters
        BY <1>1, <1>2, <2>3 DEF Served, Awaited, ends
    <3>3. future[Service] = "polled" => Stream \in DOMAIN waiters
        BY <1>2 DEF IInv, StreamStays
    <3>4. \A e \in Awaited(Service) : e \in DOMAIN waiters /\ slots'[e] = Nothing
        BY <1>7, <3>2, <3>3, EventsDiffer DEF Awaited
    <3>5. Served(Service)'
        BY <1>1, <1>2, <3>1, <3>4 DEF Served, Awaited
    <3> QED
        BY <1>4, <2>3, <3>5 DEF LiveServed
  <2> QED
      BY <2>1, <2>2, <2>3
<1> QED
    BY <1>9, <1>10, <1>12, <1>13, <1>14 DEF IInv

(***************************************************************************)
(* The polls of a spawned task.                                            *)
(***************************************************************************)
LEMMA TaskStartStep ==
    ASSUME IInv, NEW t \in AsyncCalls, TaskStart(t)
    PROVE  IInv'
<1>1. Polling(t) /\ future[t] = "unpolled"
    BY DEF TaskStart
<1>2. /\ DOMAIN tasks = {0} /\ tasks[0] = t /\ Head(queue) = 0
      /\ Tail(queue) \in Seq({0}) /\ exec = "run" /\ t # Service /\ t \in Names
    BY <1>1, PolledTask, EventsDiffer
<1>3. /\ UNCHANGED <<batch, tasks, slots, pool, unsent, exec>> /\ queue' = Tail(queue)
      /\ future' = [future EXCEPT ![t] = "polled"]
      /\ waiters' = With(waiters, ReplyEvent(t), Waiter(0, TRUE))
    BY <1>2 DEF TaskStart
<1>4. /\ DOMAIN waiters' = DOMAIN waiters \cup {ReplyEvent(t)}
      /\ \A e \in DOMAIN waiters' :
            waiters'[e] = IF e = ReplyEvent(t) THEN Waiter(0, TRUE) ELSE waiters[e]
    BY <1>3 DEF With
<1>5. Waiter(0, TRUE) \in [id : {0}, oneshot : BOOLEAN]
    BY DEF Waiter
<1>6. slots[ReplyEvent(t)] = Nothing
    BY <1>1, <1>2 DEF IInv, Fresh, EventsOf
<1>7. \A u \in Names : future'[u] = IF u = t THEN "polled" ELSE future[u]
    BY <1>3 DEF IInv, Types
<1>8. Types'
  <2>1. /\ DOMAIN waiters' \subseteq Events
        /\ \A e \in DOMAIN waiters' : waiters'[e] \in [id : {0}, oneshot : BOOLEAN]
      BY <1>4, <1>5, EventsDiffer DEF IInv, Types
  <2>2. future' \in [Names -> {"unpolled", "polled", "closed", "finished", "dropped"}]
      BY <1>3 DEF IInv, Types
  <2> QED
      BY <1>2, <1>3, <2>1, <2>2 DEF IInv, Types
<1>9. Fresh'
  <2> SUFFICES ASSUME NEW u \in Names, future'[u] = "unpolled", NEW e \in EventsOf(u)
               PROVE  e \notin DOMAIN waiters' /\ slots'[e] = Nothing
      BY DEF Fresh
  <2>1. u # t /\ future[u] = "unpolled"
      BY <1>7
  <2>2. e \notin DOMAIN waiters /\ slots[e] = Nothing
      BY <2>1 DEF IInv, Fresh
  <2>3. e # ReplyEvent(t)
      BY <2>1, EventsDiffer DEF EventsOf, Names
  <2> QED
      BY <1>3, <1>4, <2>2, <2>3
<1>10. ServiceFirst' /\ SleepsIdle'
    BY <1>2, <1>3 DEF ServiceFirst, SleepsIdle
<1>11. StreamStays'
    BY <1>2, <1>3, <1>4, EventsDiffer DEF IInv, StreamStays
<1>12. LiveServed'
  <2>1. future'[t] = "polled" /\ slots'[ReplyEvent(t)] = Nothing
      BY <1>2, <1>3, <1>6, <1>7
  <2>2. ReplyEvent(t) \in DOMAIN waiters'
      BY <1>4
  <2>3. Awaited(t)' = {ReplyEvent(t)}
      BY <1>2 DEF Awaited
  <2>4. Served(t)'
      BY <2>1, <2>2, <2>3 DEF Served
  <2> QED
      BY <1>2, <1>3, <2>4 DEF LiveServed
<1> QED
    BY <1>8, <1>9, <1>10, <1>11, <1>12 DEF IInv

LEMMA TaskWaitStep ==
    ASSUME IInv, NEW t \in AsyncCalls, TaskWait(t)
    PROVE  IInv'
<1>1. Polling(t) /\ future[t] = "polled" /\ slots[ReplyEvent(t)] = Nothing
    BY DEF TaskWait
<1>2. /\ DOMAIN tasks = {0} /\ tasks[0] = t /\ Tail(queue) \in Seq({0}) /\ exec = "run"
      /\ Served(t) /\ t # Service
    BY <1>1, PolledTask, EventsDiffer
<1>3. /\ UNCHANGED <<batch, tasks, waiters, slots, future, pool, unsent, exec>>
      /\ queue' = Tail(queue)
    BY DEF TaskWait
<1>4. Types' /\ Fresh' /\ ServiceFirst' /\ StreamStays' /\ SleepsIdle'
    BY <1>2, <1>3 DEF IInv, Types, Fresh, ServiceFirst, StreamStays, SleepsIdle
<1>5. LiveServed'
    BY <1>1, <1>2, <1>3 DEF LiveServed, Served, Awaited
<1> QED
    BY <1>4, <1>5 DEF IInv

LEMMA TaskFinishStep ==
    ASSUME IInv, NEW t \in AsyncCalls, TaskFinish(t)
    PROVE  IInv'
<1>1. Polling(t)
    BY DEF TaskFinish
<1>2. /\ DOMAIN tasks = {0} /\ tasks[0] = t /\ Head(queue) = 0
      /\ Tail(queue) \in Seq({0}) /\ exec = "run"
    BY <1>1, PolledTask
<1>3. /\ UNCHANGED <<batch, waiters, pool, unsent, exec>> /\ queue' = Tail(queue)
      /\ DOMAIN tasks' = {}
      /\ future' = [future EXCEPT ![t] = "finished"]
      /\ slots' = [slots EXCEPT ![ReplyEvent(t)] = Nothing]
    BY <1>2 DEF TaskFinish, Without
<1>4. Types'
    BY <1>2, <1>3 DEF IInv, Types
<1>5. Fresh'
  <2> SUFFICES ASSUME NEW u \in Names, future'[u] = "unpolled", NEW e \in EventsOf(u)
               PROVE  e \notin DOMAIN waiters /\ slots'[e] = Nothing
      BY <1>3 DEF Fresh
  <2>1. u # t /\ future[u] = "unpolled"
      BY <1>3 DEF IInv, Types, Names
  <2>2. e \in Events
      BY EventsDiffer DEF EventsOf, Names
  <2> QED
      BY <1>3, <2>1, <2>2 DEF IInv, Types, Fresh
<1>6. ServiceFirst' /\ StreamStays' /\ LiveServed' /\ SleepsIdle'
    BY <1>2, <1>3 DEF IInv, ServiceFirst, StreamStays, LiveServed, SleepsIdle
<1> QED
    BY <1>4, <1>5, <1>6 DEF IInv

(***************************************************************************)
(* The ready queue is empty, or names a task that is gone.                 *)
(***************************************************************************)
LEMMA QueueStep ==
    ASSUME IInv, StrayId \/ QueueEmpty \/ UNCHANGED executorVars
    PROVE  IInv'
<1>1. UNCHANGED <<batch, tasks, queue, waiters, slots, future, pool, unsent>>
    BY DEF StrayId, QueueEmpty, executorVars
<1>2. SleepsIdle'
    BY DEF IInv, SleepsIdle, StrayId, QueueEmpty, executorVars
<1>3. Types' /\ Fresh' /\ ServiceFirst' /\ StreamStays'
    BY <1>1 DEF IInv, Types, Fresh, ServiceFirst, StreamStays
<1>4. LiveServed'
    BY <1>1 DEF IInv, LiveServed, Served, Awaited
<1> QED
    BY <1>2, <1>3, <1>4 DEF IInv

LEMMA InvStep == IInv /\ [ExecutorNext]_executorVars => IInv'
BY ClientStep, BatchStep, DispatchStep, FirstPollStep, ServicePollStep, TaskStartStep,
   TaskWaitStep, TaskFinishStep, QueueStep DEF ExecutorNext

-----------------------------------------------------------------------------
(***************************************************************************)
(* What becomes of the calls among the events of a sequence.               *)
(***************************************************************************)
LEMMA CarriesAppend ==
    ASSUME NEW S, NEW events \in Seq(S), NEW x \in S, NEW c
    PROVE  /\ Carries(events, c) => Carries(Append(events, x), c)
           /\ x = [ev |-> Stream, item |-> c] => Carries(Append(events, x), c)
<1>1. /\ DOMAIN Append(events, x) = 1 .. Len(events) + 1 /\ DOMAIN events = 1 .. Len(events)
      /\ \A i \in DOMAIN events : Append(events, x)[i] = events[i]
      /\ Append(events, x)[Len(events) + 1] = x /\ Len(events) \in Nat
    OBVIOUS
<1>2. DOMAIN events \subseteq DOMAIN Append(events, x) /\ Len(events) + 1 \in DOMAIN Append(events, x)
    BY <1>1
<1> QED
    BY <1>1, <1>2, Zenon DEF Carries

LEMMA CarriesTail ==
    ASSUME NEW S, NEW events \in Seq(S), events # <<>>, NEW c, Carries(events, c)
    PROVE  Head(events) = [ev |-> Stream, item |-> c] \/ Carries(Tail(events), c)
<1>1. PICK i \in DOMAIN events : events[i] = [ev |-> Stream, item |-> c]
    BY DEF Carries
<1>2. CASE i = 1
    BY <1>1, <1>2
<1>3. CASE i # 1
  <2>1. i - 1 \in DOMAIN Tail(events) /\ Tail(events)[i - 1] = events[i]
      BY <1>3
  <2> QED
      BY <1>1, <2>1, Zenon DEF Carries
<1> QED
    BY <1>2, <1>3

(***************************************************************************)
(* Nothing is lost, taken or answered where the events, the receiver of    *)
(* the stream and the tasks stay.                                          *)
(***************************************************************************)
LEMMA CallsKept ==
    ASSUME CInv, UNCHANGED <<batch, tasks, slots, pool, answered, unsent, lost>>,
           exec' = "dispatch" => exec = "dispatch", exec = "dispatch" => exec' = "dispatch",
           DOMAIN waiters' = DOMAIN waiters, future'[Service] = future[Service]
    PROVE  CInv'
BY DEF CInv, StreamOwned, BatchDone, Tracked, Held, Carries

LEMMA CallsInit == ExecutorInit => CInv
<1> SUFFICES ASSUME ExecutorInit PROVE CInv
    OBVIOUS
<1>1. StreamOwned
    BY EventsDiffer DEF ExecutorInit, StreamOwned
<1> QED
    BY <1>1 DEF ExecutorInit, CInv, BatchDone, Tracked

LEMMA CallsClient ==
    ASSUME IInv, CInv,
           \/ \E c \in Calls : ClientCall(c)
           \/ ClientDrop
           \/ \E c \in AsyncCalls : OtherAnswers(c)
    PROVE  CInv'
<1>1. UNCHANGED <<batch, tasks, waiters, slots, future, answered, lost, exec>>
    BY DEF ClientCall, ClientDrop, OtherAnswers
<1>2. StreamOwned' /\ BatchDone'
    BY <1>1 DEF CInv, StreamOwned, BatchDone
<1>3. ASSUME NEW c \in Calls, c \notin unsent', c \notin answered', c \notin lost'
      PROVE  Held(c)'
  <2>1. PICK e \in Events, x \in Items :
          /\ pool' = Append(pool, [ev |-> e, item |-> x])
          /\ c \in unsent => e = Stream /\ x = c
      BY <1>3, EventsDiffer DEF Items, ClientCall, ClientDrop, OtherAnswers, Emit
  <2>2. [ev |-> e, item |-> x] \in PoolEvents /\ pool \in Seq(PoolEvents)
      BY DEF PoolEvents, IInv, Types
  <2>3. CASE c \in unsent
      BY <2>1, <2>2, <2>3, CarriesAppend DEF Held
  <2>4. CASE c \notin unsent
    <3>1. Held(c)
        BY <1>1, <1>3, <2>4 DEF CInv, Tracked
    <3>2. Carries(pool, c) => Carries(pool', c)
        BY <2>1, <2>2, CarriesAppend
    <3> QED
        BY <1>1, <3>1, <3>2 DEF Held, Carries
  <2> QED
      BY <2>3, <2>4
<1> QED
    BY <1>2, <1>3 DEF CInv, Tracked

LEMMA CallsBatch ==
    ASSUME IInv, CInv, AwaitEvent \/ DispatchNobody \/ DispatchEnd
    PROVE  CInv'
<1>1. UNCHANGED <<tasks, waiters, slots, future, answered, unsent>>
    BY DEF AwaitEvent, DispatchNobody, DispatchEnd
<1>2. StreamOwned' /\ BatchDone'
    BY <1>1 DEF CInv, StreamOwned, BatchDone, AwaitEvent, DispatchNobody, DispatchEnd
<1>3. ASSUME NEW c \in Calls, c \notin unsent', c \notin answered', c \notin lost'
      PROVE  Held(c)'
  <2>1. c \notin lost
      BY <1>3 DEF AwaitEvent, DispatchNobody, DispatchEnd
  <2>2. Held(c)
      BY <1>1, <1>3, <2>1 DEF CInv, Tracked
  <2>3. CASE AwaitEvent
    <3>1. batch = <<>> /\ batch' = pool
        BY <2>3 DEF CInv, BatchDone, AwaitEvent
    <3> QED
        BY <1>1, <2>2, <3>1 DEF Held, Carries
  <2>4. CASE DispatchNobody
    <3>1. /\ batch # <<>> /\ batch' = Tail(batch) /\ pool' = pool
          /\ lost' = IF Head(batch).ev = Stream THEN lost \cup {Head(batch).item} ELSE lost
        BY <2>4 DEF DispatchNobody
    <3>2. Head(batch) # [ev |-> Stream, item |-> c]
        BY <1>3, <3>1
    <3>3. Carries(batch, c) => Carries(batch', c)
        BY <3>1, <3>2, CarriesTail DEF IInv, Types
    <3> QED
        BY <1>1, <2>2, <3>1, <3>3 DEF Held, Carries
  <2>5. CASE DispatchEnd
      BY <1>1, <2>2, <2>5 DEF DispatchEnd, Held, Carries
  <2> QED
      BY <2>3, <2>4, <2>5
<1> QED
    BY <1>2, <1>3 DEF CInv, Tracked

LEMMA CallsDispatch ==
    ASSUME IInv, CInv, Dispatch
    PROVE  CInv'
<1>1. PICK e \in PoolEvents : e = Head(batch)
    BY DEF IInv, Types, Dispatch
<1>2. /\ e.ev \in DOMAIN waiters /\ e.ev \in Events /\ batch # <<>> /\ batch' = Tail(batch)
      /\ slots' = [slots EXCEPT ![e.ev] = e.item] /\ DOMAIN waiters' \subseteq DOMAIN waiters
      /\ lost' = IF e.ev = Stream /\ slots[Stream] # Nothing THEN lost \cup {slots[Stream]} ELSE lost
      /\ UNCHANGED <<tasks, future, pool, answered, unsent, exec>> /\ exec = "dispatch"
    BY <1>1 DEF PoolEvents, Dispatch, Without
<1>3. slots'[Stream] = IF e.ev = Stream THEN e.item ELSE slots[Stream]
    BY <1>2, EventsDiffer DEF IInv, Types
<1>4. StreamOwned' /\ BatchDone'
    BY <1>2, <1>3 DEF CInv, StreamOwned, BatchDone
<1>5. ASSUME NEW c \in Calls, c \notin unsent', c \notin answered', c \notin lost'
      PROVE  Held(c)'
  <2>1. Held(c) /\ c # Nothing
      BY <1>2, <1>5, ExecutorAssumption DEF CInv, Tracked
  <2>2. slots[Stream] = c => slots'[Stream] = c
      BY <1>2, <1>3, <1>5, <2>1
  <2>3. e = [ev |-> Stream, item |-> c] => slots'[Stream] = c
      BY <1>3
  <2>4. Carries(batch, c) => slots'[Stream] = c \/ Carries(batch', c)
      BY <1>1, <1>2, <2>3, CarriesTail DEF IInv, Types
  <2> QED
      BY <1>2, <2>1, <2>2, <2>4 DEF Held, Carries
<1> QED
    BY <1>4, <1>5 DEF CInv, Tracked

LEMMA CallsFirstPoll ==
    ASSUME IInv, CInv, FirstPoll
    PROVE  CInv'
<1>1. /\ Polling(Service) /\ future[Service] = "unpolled"
      /\ UNCHANGED <<batch, tasks, slots, pool, answered, unsent, lost>>
    BY DEF FirstPoll
<1>2. DOMAIN tasks = {0} /\ tasks[0] = Service /\ exec = "run"
    BY <1>1, PolledTask
<1>3. slots[Stream] = Nothing /\ Stream \notin DOMAIN waiters
    BY <1>1 DEF IInv, Fresh, Names, EventsOf
<1>4. PICK opened \in BOOLEAN :
        /\ future' = [future EXCEPT ![Service] = IF opened THEN "polled" ELSE "closed"]
        /\ waiters' = LET w == With(waiters, DropEvent, Waiter(Head(queue), TRUE))
                      IN  IF opened THEN With(w, Stream, Waiter(Head(queue), FALSE)) ELSE w
    BY DEF FirstPoll
<1>5. Stream \in DOMAIN waiters' => opened
    BY <1>3, <1>4, EventsDiffer DEF With
<1>6. opened => future'[Service] = "polled"
    BY <1>4 DEF IInv, Types, Names
<1>7. StreamOwned'
    BY <1>1, <1>2, <1>3, <1>5, <1>6 DEF StreamOwned
<1>8. BatchDone'
    BY <1>1, <1>2 DEF CInv, BatchDone
<1> QED
    BY <1>1, <1>7, <1>8 DEF CInv, Tracked, Held, Carries

LEMMA CallsServicePoll ==
    ASSUME IInv, CInv, ServicePoll
    PROVE  CInv'
<1> DEFINE d == slots[Stream]
           ends == slots[DropEvent] # Nothing
           spawns == d \in AsyncCalls
<1>1. Polling(Service)
    BY DEF ServicePoll
<1>2. DOMAIN tasks = {0} /\ tasks[0] = Service /\ Head(queue) = 0 /\ exec = "run"
    BY <1>1, PolledTask
<1>3. /\ UNCHANGED <<batch, pool, unsent, exec>>
      /\ slots' = [slots EXCEPT ![Stream] = Nothing, ![DropEvent] = Nothing]
      /\ answered' = IF d \in Calls \ AsyncCalls THEN answered \cup {d} ELSE answered
      /\ lost' = IF spawns /\ ends THEN lost \cup {d} ELSE lost
      /\ waiters' = IF ends \/ spawns THEN Without(waiters, Stream) ELSE waiters
      /\ future' = [future EXCEPT ![Service] = IF ends THEN "finished" ELSE IF ends \/ spawns THEN "dropped" ELSE @]
    BY DEF ServicePoll
<1>4. /\ DOMAIN tasks' = IF ends THEN {} ELSE {0}
      /\ ~ends => tasks'[0] = IF spawns THEN d ELSE Service
    BY <1>2 DEF ServicePoll, Spawned, With, Without, NewTaskId
<1>5. slots'[Stream] = Nothing
    BY <1>3, EventsDiffer DEF IInv, Types
<1>6. Stream \in DOMAIN waiters' => Stream \in DOMAIN waiters /\ ~ends /\ ~spawns
    BY <1>3 DEF Without
<1>7. ~ends /\ ~spawns => future'[Service] = future[Service]
    BY <1>3 DEF IInv, Types, Names
<1>8. StreamOwned' /\ BatchDone'
    BY <1>2, <1>3, <1>4, <1>5, <1>6, <1>7 DEF CInv, StreamOwned, BatchDone
<1>9. ASSUME NEW c \in Calls, c \notin unsent', c \notin answered', c \notin lost'
      PROVE  Held(c)'
  <2>1. Held(c) /\ c # Service /\ c # Nothing
      BY <1>3, <1>9, ExecutorAssumption DEF CInv, Tracked
  <2>2. CASE d = c
    <3>1. spawns /\ ~ends
        BY <1>3, <1>9, <2>2
    <3> QED
        BY <1>4, <2>2, <3>1 DEF Held
  <2>3. CASE d # c
    <3>1. Carries(pool, c) \/ Carries(batch, c)
        BY <1>2, <2>1, <2>3 DEF Held
    <3> QED
        BY <1>3, <3>1 DEF Held, Carries
  <2> QED
      BY <2>2, <2>3
<1> QED
    BY <1>8, <1>9 DEF CInv, Tracked

LEMMA CallsTask ==
    ASSUME IInv, CInv, NEW t \in AsyncCalls, TaskStart(t) \/ TaskWait(t) \/ TaskFinish(t)
    PROVE  CInv'
<1>1. Polling(t)
    BY DEF TaskStart, TaskWait, TaskFinish
<1>2. DOMAIN tasks = {0} /\ tasks[0] = t /\ Head(queue) = 0 /\ exec = "run" /\ t # Service
    BY <1>1, PolledTask, EventsDiffer
<1>3. Stream \notin DOMAIN waiters /\ slots[Stream] = Nothing
    BY <1>2 DEF CInv, StreamOwned
<1>4. /\ UNCHANGED <<batch, pool, unsent, lost, exec>>
      /\ slots'[Stream] = Nothing
      /\ Stream \notin DOMAIN waiters'
      /\ UNCHANGED <<tasks, answered>> \/ answered' = answered \cup {t}
    BY <1>3, EventsDiffer DEF TaskStart, TaskWait, TaskFinish, With, IInv, Types
<1>5. StreamOwned' /\ BatchDone'
    BY <1>4 DEF CInv, StreamOwned, BatchDone
<1>6. ASSUME NEW c \in Calls, c \notin unsent', c \notin answered', c \notin lost'
      PROVE  Held(c)'
  <2>1. Held(c) /\ c # Nothing
      BY <1>4, <1>6, ExecutorAssumption DEF CInv, Tracked
  <2>2. UNCHANGED tasks \/ c # t
      BY <1>4, <1>6
  <2>3. Carries(pool, c) \/ Carries(batch, c) \/ (UNCHANGED tasks /\ tasks[0] = c)
      BY <1>2, <1>3, <2>1, <2>2 DEF Held
  <2> QED
      BY <1>2, <1>4, <2>3 DEF Held, Carries
<1> QED
    BY <1>5, <1>6 DEF CInv, Tracked

LEMMA CallsQueue ==
    ASSUME CInv, StrayId \/ QueueEmpty \/ UNCHANGED executorVars
    PROVE  CInv'
<1>1. /\ UNCHANGED <<batch, tasks, waiters, slots, future, pool, answered, unsent, lost>>
      /\ exec' = "dispatch" <=> exec = "dispatch"
    BY DEF StrayId, QueueEmpty, executorVars
<1> QED
    BY <1>1, CallsKept

LEMMA CallsStep == IInv /\ CInv /\ [ExecutorNext]_executorVars => CInv'
BY CallsClient, CallsBatch, CallsDispatch, CallsFirstPoll, CallsServicePoll, CallsTask,
   CallsQueue DEF ExecutorNext

-----------------------------------------------------------------------------
(***************************************************************************)
(* An executor that sleeps has an empty queue, so a served task has a      *)
(* waiter for each of its events and nothing left to take, and an empty    *)
(* batch, so a call can only be in the pool or with its task.              *)
(***************************************************************************)
LEMMA InvSuffices == IInv /\ CInv => AsleepOnlyWithWaiters
<1> SUFFICES ASSUME IInv, CInv, exec = "await"
             PROVE  /\ \A i \in DOMAIN tasks : \A e \in Awaited(tasks[i]) :
                          slots[e] = Nothing /\ e \in DOMAIN waiters /\ waiters[e].id = i
                    /\ \A c \in Calls \ (unsent \cup answered \cup lost) :
                          Carries(pool, c) \/ \E i \in DOMAIN tasks : tasks[i] = c
    BY DEF AsleepOnlyWithWaiters
<1>1. ASSUME NEW i \in DOMAIN tasks, NEW e \in Awaited(tasks[i])
      PROVE  slots[e] = Nothing /\ e \in DOMAIN waiters /\ waiters[e].id = i
  <2>1. queue = <<>> /\ Served(tasks[i]) /\ i = 0
      BY <1>1 DEF IInv, SleepsIdle, LiveServed, Types
  <2>2. slots[e] = Nothing /\ e \in DOMAIN waiters
      BY <1>1, <2>1 DEF Served
  <2> QED
      BY <2>1, <2>2 DEF IInv, Types
<1>2. slots[Stream] = Nothing
  <2> SUFFICES ASSUME slots[Stream] # Nothing PROVE FALSE
      OBVIOUS
  <2>1. 0 \in DOMAIN tasks /\ tasks[0] = Service /\ future[Service] = "polled"
      BY DEF CInv, StreamOwned
  <2>2. Stream \in Awaited(tasks[0])
      BY <2>1 DEF Awaited
  <2> QED
      BY <1>1, <2>1, <2>2
<1>3. batch = <<>>
    BY DEF CInv, BatchDone
<1>4. ASSUME NEW c \in Calls \ (unsent \cup answered \cup lost)
      PROVE  Carries(pool, c) \/ \E i \in DOMAIN tasks : tasks[i] = c
  <2>1. ~Carries(batch, c) /\ slots[Stream] # c
      BY <1>2, <1>3, ExecutorAssumption DEF Carries
  <2> QED
      BY <2>1 DEF CInv, Tracked, Held
<1> QED
    BY <1>1, <1>4, Zenon

(***************************************************************************)
(* For any set of calls, the executor goes to sleep in await_event only    *)
(* when its task has emptied its receivers and has a waiter for every      *)
(* event it still waits for, and when every call that was made is          *)
(* answered, in the pool, with its task, or lost in one of the three ways  *)
(* of AsleepOnlyWithWaiters.                                               *)
(***************************************************************************)
THEOREM NoLostWakeUp == ExecutorSpec => []AsleepOnlyWithWaiters
<1>1. ExecutorInit => IInv /\ CInv
    BY InvInit, CallsInit
<1>2. IInv /\ CInv /\ [ExecutorNext]_executorVars => (IInv /\ CInv)'
    BY InvStep, CallsStep
<1> QED
    BY <1>1, <1>2, InvSuffices, PTL DEF ExecutorSpec
=============================================================================
