------------------------------ MODULE Executor ------------------------------
(***************************************************************************)
(* The asynchronous runtime of a process (userland/asynca) running one rpc *)
(* server (userland/arpc): the task map and the ready queue, the waiters   *)
(* of events and the one-place receivers they fill, block_in_place, and    *)
(* the service loop that selects between the stream of calls and the drop  *)
(* of the client.  A call of an asynchronous method spawns a task that     *)
(* makes a call of its own before it answers.  Everything but the clients  *)
(* runs on one thread, so a poll and the dispatch of an event are each one *)
(* step.                                                                   *)
(***************************************************************************)
EXTENDS Integers, Sequences

CONSTANTS
    Calls,          \* the calls clients make
    AsyncCalls,     \* those of a method the service implements with async fn
    Service,        \* the task given to block_in_place
    Nothing

ASSUME ExecutorAssumption ==
    /\ AsyncCalls \subseteq Calls /\ Service \notin Calls
    /\ Nothing \notin Calls \cup {"dropped", "reply"}

VARIABLES
    tasks,          \* Executor::tasks, from task ids to tasks
    queue,          \* Executor::task_queue
    waiters,        \* Executor::event_waiters
    slots,          \* the EventReciever of every event id
    future,         \* how far the futures of a task have got
    pool,           \* the events in the event pool
    batch,          \* the ones await_event was handed and has not dispatched
    answered,       \* the calls that were answered
    clients,        \* "calling", or "gone" when the client endpoint is dropped
    unsent,         \* the calls not made yet
    lost,           \* history: the calls that nobody will answer
    exec            \* what the thread of the executor does

executorVars ==
    <<tasks, queue, waiters, slots, future, pool, batch, answered, clients, unsent, lost, exec>>

(* The events a task can wait for; a spawned task is named by its call. *)
Stream == <<Service, "call">>
DropEvent == <<Service, "drop">>
ReplyEvent(c) == <<c, "reply">>
Events == {Stream, DropEvent} \cup {ReplyEvent(c) : c \in AsyncCalls}

(* TaskId::new loads the counter and never moves it on. *)
NewTaskId == 0

(* insert and remove of the runtime's maps *)
With(f, k, v) == [x \in DOMAIN f \cup {k} |-> IF x = k THEN v ELSE f[x]]

Without(f, k) == [x \in DOMAIN f \ {k} |-> f[x]]

(* spawn: the task takes the place of any task of the same id. *)
Spawned(ts, t) == With(ts, NewTaskId, t)

ExecutorInit ==
    /\ tasks = Spawned(<<>>, Service)
    /\ queue = <<NewTaskId>>
    /\ waiters = <<>>
    /\ slots = [e \in Events |-> Nothing]
    /\ future = [t \in {Service} \cup AsyncCalls |-> "unpolled"]
    /\ pool = <<>> /\ batch = <<>> /\ answered = {} /\ unsent = Calls /\ lost = {}
    /\ clients = "calling" /\ exec = "run"

-----------------------------------------------------------------------------
(* The other side: calls, the drop of the endpoint, and the answers to the *)
(* calls the spawned tasks make.  The kernel puts an event in the pool     *)
(* once the receiver asked for it.                                         *)

Emit(e, item) == pool' = Append(pool, [ev |-> e, item |-> item])

ClientCall(c) ==
    /\ clients = "calling" /\ c \in unsent
    /\ future[Service] = "polled"
    /\ unsent' = unsent \ {c}
    /\ Emit(Stream, c)
    /\ UNCHANGED <<batch, tasks, queue, waiters, slots, future, answered, clients, lost, exec>>

ClientDrop ==
    /\ clients = "calling" /\ future[Service] \in {"polled", "closed"}
    /\ clients' = "gone"
    /\ Emit(DropEvent, "dropped")
    /\ UNCHANGED <<batch, tasks, queue, waiters, slots, future, answered, unsent, lost, exec>>

(* The other server answers the call a spawned task made. *)
OtherAnswers(c) ==
    /\ future[c] = "polled" /\ slots[ReplyEvent(c)] = Nothing
    /\ ReplyEvent(c) \in DOMAIN waiters
    /\ \A i \in DOMAIN pool : pool[i].ev # ReplyEvent(c)
    /\ \A i \in DOMAIN batch : batch[i].ev # ReplyEvent(c)
    /\ Emit(ReplyEvent(c), "reply")
    /\ UNCHANGED <<batch, tasks, queue, waiters, slots, future, answered, clients, unsent, lost, exec>>

-----------------------------------------------------------------------------
(* await_event: the events of the batch go to the receivers of their       *)
(* waiters one by one, and each puts its waiter's task in the queue.       *)

AwaitEvent ==
    /\ exec = "await" /\ pool # <<>>
    /\ batch' = pool /\ pool' = <<>> /\ exec' = "dispatch"
    /\ UNCHANGED <<tasks, queue, waiters, slots, future, answered, clients, unsent, lost>>

(* A dispatch that wakes only the waiters of a single event. *)
WakeOneshot(w) == IF w.oneshot THEN Append(queue, w.id) ELSE queue

(* wake_by_ref *)
Woken(w) == Append(queue, w.id)

(* A receiver has one place: what was in it and not taken is replaced. *)
Dispatch ==
    LET e == Head(batch)
    IN  /\ exec = "dispatch" /\ batch # <<>> /\ e.ev \in DOMAIN waiters
        /\ slots' = [slots EXCEPT ![e.ev] = e.item]
        /\ queue' = Woken(waiters[e.ev])
        /\ waiters' = IF waiters[e.ev].oneshot THEN Without(waiters, e.ev) ELSE waiters
        /\ lost' = IF e.ev = Stream /\ slots[Stream] # Nothing THEN lost \cup {slots[Stream]} ELSE lost
        /\ batch' = Tail(batch)
        /\ UNCHANGED <<tasks, future, pool, answered, clients, unsent, exec>>

(* Nobody waits for the event any more. *)
DispatchNobody ==
    /\ exec = "dispatch" /\ batch # <<>> /\ Head(batch).ev \notin DOMAIN waiters
    /\ lost' = IF Head(batch).ev = Stream THEN lost \cup {Head(batch).item} ELSE lost
    /\ batch' = Tail(batch)
    /\ UNCHANGED <<tasks, queue, waiters, slots, future, pool, answered, clients, unsent, exec>>

DispatchEnd ==
    /\ exec = "dispatch" /\ batch = <<>>
    /\ exec' = "run"
    /\ UNCHANGED <<tasks, queue, waiters, slots, future, pool, batch, answered, clients, unsent, lost>>

-----------------------------------------------------------------------------
(* run_ready_tasks pops an id and polls its task.  What follows are the    *)
(* outcomes of the poll; a task that is not in the map any more when its   *)
(* poll ends is dropped, and the stream it owned stops waiting.            *)

Waiter(id, oneshot) == [id |-> id, oneshot |-> oneshot]

Popped == exec = "run" /\ queue # <<>> /\ Head(queue) \in DOMAIN tasks

Polling(t) == Popped /\ tasks[Head(queue)] = t

(* The first poll of the service: both branches of the select register.    *)
(* A channel that cannot be listened to leaves the stream closed, a drop   *)
(* check that cannot be listened to ends the program.                      *)
FirstPoll ==
    /\ Polling(Service) /\ future[Service] = "unpolled"
    /\ \E opened, listens \in BOOLEAN :
          /\ future' = [future EXCEPT ![Service] = IF opened THEN "polled" ELSE "closed"]
          /\ waiters' = LET w == With(waiters, DropEvent, Waiter(Head(queue), TRUE))
                        IN  IF opened THEN With(w, Stream, Waiter(Head(queue), FALSE)) ELSE w
          /\ exec' = IF listens THEN exec ELSE "cannot listen"
    /\ queue' = Tail(queue)
    /\ UNCHANGED <<batch, tasks, slots, pool, answered, clients, unsent, lost>>

(* A later poll takes the call that is there, if any, and answers it or    *)
(* spawns the task that will; the drop of the client ends the loop.  The   *)
(* spawned task takes the place of the service, and when the service ends  *)
(* in the same poll it is the spawned task that is removed.  The select    *)
(* does not look at a closed stream.                                       *)
ServicePoll ==
    LET c == slots[Stream]
        spawns == c \in AsyncCalls
        ends == slots[DropEvent] # Nothing
        after == IF spawns THEN Spawned(tasks, c) ELSE tasks
        gone == ends \/ spawns
    IN  /\ Polling(Service) /\ future[Service] # "unpolled"
        /\ answered' = IF c \in Calls \ AsyncCalls THEN answered \cup {c} ELSE answered
        /\ tasks' = IF ends THEN Without(after, Head(queue)) ELSE after
        /\ queue' = IF spawns THEN Append(Tail(queue), NewTaskId) ELSE Tail(queue)
        /\ slots' = [slots EXCEPT ![Stream] = Nothing, ![DropEvent] = Nothing]
        /\ future' = [future EXCEPT ![Service] = IF ends THEN "finished" ELSE IF gone THEN "dropped" ELSE @]
        /\ waiters' = IF gone THEN Without(waiters, Stream) ELSE waiters
        /\ lost' = IF spawns /\ ends THEN lost \cup {c} ELSE lost
        /\ UNCHANGED <<batch, pool, clients, unsent, exec>>

(* The task of an asynchronous method either answers at once, or makes a   *)
(* call and answers when the reply is there.                               *)
TaskStart(t) ==
    /\ Polling(t) /\ future[t] = "unpolled"
    /\ future' = [future EXCEPT ![t] = "polled"]
    /\ waiters' = With(waiters, ReplyEvent(t), Waiter(Head(queue), TRUE))
    /\ queue' = Tail(queue)
    /\ UNCHANGED <<batch, tasks, slots, pool, answered, clients, unsent, lost, exec>>

TaskWait(t) ==
    /\ Polling(t) /\ future[t] = "polled" /\ slots[ReplyEvent(t)] = Nothing
    /\ queue' = Tail(queue)
    /\ UNCHANGED <<batch, tasks, waiters, slots, future, pool, answered, clients, unsent, lost, exec>>

TaskFinish(t) ==
    /\ Polling(t)
    /\ future[t] = "unpolled" \/ slots[ReplyEvent(t)] # Nothing
    /\ future' = [future EXCEPT ![t] = "finished"]
    /\ slots' = [slots EXCEPT ![ReplyEvent(t)] = Nothing]
    /\ answered' = answered \cup {t}
    /\ tasks' = Without(tasks, Head(queue))
    /\ queue' = Tail(queue)
    /\ UNCHANGED <<batch, waiters, pool, clients, unsent, lost, exec>>

(* "task id found in ready queue but no task with given id exists" *)
StrayId ==
    /\ exec = "run" /\ queue # <<>> /\ Head(queue) \notin DOMAIN tasks
    /\ exec' = "panicked"
    /\ UNCHANGED <<batch, tasks, queue, waiters, slots, future, pool, answered, clients, unsent, lost>>

(* The queue is empty: run returns after the last task, or waits.          *)
(* block_in_place then takes the output of the task it was given.          *)
QueueEmpty ==
    /\ exec = "run" /\ queue = <<>>
    /\ exec' = IF DOMAIN tasks # {} THEN "await"
               ELSE IF future[Service] = "finished" THEN "returned" ELSE "no output"
    /\ UNCHANGED <<batch, tasks, queue, waiters, slots, future, pool, answered, clients, unsent, lost>>

ExecutorNext ==
    \/ \E c \in Calls : ClientCall(c)
    \/ ClientDrop
    \/ \E c \in AsyncCalls : OtherAnswers(c) \/ TaskStart(c) \/ TaskWait(c) \/ TaskFinish(c)
    \/ AwaitEvent \/ Dispatch \/ DispatchNobody \/ DispatchEnd
    \/ FirstPoll \/ ServicePoll \/ StrayId \/ QueueEmpty

ExecutorSpec == ExecutorInit /\ [][ExecutorNext]_executorVars

-----------------------------------------------------------------------------
(* The events a live task still waits for. *)
Awaited(t) ==
    IF t = Service
    THEN {e \in {Stream, DropEvent} : e = DropEvent \/ future[t] = "polled"}
    ELSE {ReplyEvent(t)}

(* Call c is among these events. *)
Carries(events, c) == \E i \in DOMAIN events : events[i] = [ev |-> Stream, item |-> c]

(* When the thread goes to sleep in await_event, every task in the map has *)
(* taken what is in its receivers, and every event it still waits for has  *)
(* a waiter that will wake it.  A call that was made is answered, or still *)
(* in the pool, or has its task in the map, or was lost in one of three    *)
(* ways: a later call of the same batch replaced it in the receiver        *)
(* (executor.rs:142), the service was no longer there to receive it after  *)
(* a spawned task had taken its id (task.rs:23), or its task was removed   *)
(* in the place of the service, whose id it had.                           *)
AsleepOnlyWithWaiters ==
    exec = "await" =>
        /\ \A i \in DOMAIN tasks : \A e \in Awaited(tasks[i]) :
              slots[e] = Nothing /\ e \in DOMAIN waiters /\ waiters[e].id = i
        /\ \A c \in Calls \ (unsent \cup answered \cup lost) :
              Carries(pool, c) \/ \E i \in DOMAIN tasks : tasks[i] = c
=============================================================================
