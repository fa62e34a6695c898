-------------------------------- MODULE Sched --------------------------------
(***************************************************************************)
(* The kernel scheduler: thread status words, the ready list, the timeout  *)
(* queue, the context switch, the exit interrupt and the thread syscalls,  *)
(* interleaved over any number of cpus.                                    *)
(*                                                                         *)
(* Kernel code runs with interrupts disabled, so a cpu is one sequential   *)
(* process: pc[c] = "run" is user code (or the idle loop) with interrupts  *)
(* on, every other label is a point inside the kernel at which another cpu *)
(* may be observed to step.  A label ends where the code makes its next    *)
(* access to shared memory: a locked section or one atomic operation.      *)
(***************************************************************************)
EXTENDS Integers, Sequences, FiniteSets

CONSTANTS
  Cpus,      \* the cpus; the idle thread of cpu c is named c
  Users,     \* every thread that can be created besides the idle threads
  Groups,    \* the user thread groups
  Droppable, \* and those whose last reference may go
  First,     \* the thread start_userspace creates before the cpus idle,
  Root,      \* and its thread group
  GenBound   \* no operation starts on a thread at this generation or later

ASSUME SchedAssumption ==
  /\ IsFiniteSet(Cpus) /\ Cpus \cap Users = {}
  /\ First \in Users
  /\ Root \in Groups
  /\ Droppable \subseteq Groups
  /\ GenBound \in [Cpus \cup Users -> Nat]

Threads == Cpus \cup Users

(***************************************************************************)
(* A ThreadRef names a thread and one generation of its status.            *)
(***************************************************************************)
ThreadRefs == [thread : Threads, gen : Nat]

ThreadStates == {"Absent", "Running", "Ready", "Suspended", "Dead"}

Labels == {"run", "next", "old", "new", "post", "settimeout", "lockq",
           "timer", "wake", "insert", "remove", "kill", "release", "drop", "panic"}

PostActions == {"None", "InsertReadyQueue", "SetTimeout"}

(***************************************************************************)
(* The arguments of switch_current_thread_to, and whether its caller       *)
(* unwraps the result (must) or ignores an error.  Every caller that asks  *)
(* for Ready, and no other, asks for the insertion into the ready list.    *)
(***************************************************************************)
Requests ==
  {r \in [state : {"Ready", "Suspended", "Dead"}, post : PostActions,
          eoi : BOOLEAN, must : BOOLEAN] :
     r.state = "Ready" <=> r.post = "InsertReadyQueue"}

Request(state, post, eoi, must) ==
  [state |-> state, post |-> post, eoi |-> eoi, must |-> must]

WakeReasons == {"None", "Timeout", "Event"}
Wakers == {"Timeout", "Event", "Resume"}

(***************************************************************************)
(* Where a thread continues when it is next switched to.                   *)
(***************************************************************************)
ResumePoints == {"start", "timer", "yield", "suspend", "sleep", "wait", "exit"}

VARIABLES
  gen,         \* generation part of every thread's status word
  state,       \* state part of every thread's status word
  alive,       \* Thread::is_alive
  wakeReason,  \* Thread::wake_reason
  spared,      \* history: threads their own cpu killed by dropping their group,
               \* and that it has not switched away from since
  where,       \* the call a thread continues in once it is switched to
  wokenBy,     \* history: what took the thread out of its last suspension
  ready,       \* ThreadMap::ready_threads
  timeouts,    \* TimeoutQueue::threads
  tqLock,      \* cpus holding the lock of the timeout queue (at most one)
  waits,       \* ThreadRefs held by channels, event pools and emitters
  members,     \* ThreadGroup::thread_list of every group
  groups,      \* the groups that somebody still has a reference to
  cur,         \* SchedState::current_thread of every cpu
  pc,          \* what every cpu is executing
  req,         \* the switch a cpu is making
  nxt,         \* the thread get_next_thread gave it
  old,         \* PostSwitchData::old_thread
  arg,         \* the ThreadRef (or thread) a cpu is waking or removing
  waker,       \* why it is waking it
  ret,         \* the label it continues at afterwards
  killSelf,    \* what exit_inner returned to exit,
  dying,       \* and the group it empties
  ipi,         \* an exit interrupt is pending at the cpu
  isr          \* the local apic has an interrupt in service

threadVars == <<gen, state, alive, wakeReason, spared, where, wokenBy>>
queueVars == <<ready, timeouts, tqLock, waits, members, groups>>
switchVars == <<cur, req, nxt, old>>
localVars == <<arg, waker, ret, killSelf, dying>>
apicVars == <<ipi, isr>>
vars == <<threadVars, queueVars, switchVars, localVars, apicVars, pc>>

IdleRequest == Request("Ready", "InsertReadyQueue", TRUE, FALSE)

(***************************************************************************)
(* init_cpu_local makes the running boot code the idle thread of its cpu:  *)
(* its status stays (0, Suspended) until it is first switched out.         *)
(***************************************************************************)
Init ==
  /\ gen = [t \in Threads |-> IF t = First THEN 1 ELSE 0]
  /\ state = [t \in Threads |-> IF t = First THEN "Ready"
                                ELSE IF t \in Cpus THEN "Suspended" ELSE "Absent"]
  /\ alive = [t \in Threads |-> TRUE]
  /\ wakeReason = [t \in Threads |-> "None"]
  /\ spared = {}
  /\ where = [t \in Threads |-> "start"]
  /\ wokenBy = [t \in Threads |-> "Resume"]
  /\ ready = <<First>>
  /\ timeouts = {}
  /\ tqLock = {}
  /\ waits = {}
  /\ members = [g \in Groups |-> IF g = Root THEN {First} ELSE {}]
  /\ groups = Groups
  /\ cur = [c \in Cpus |-> c]
  /\ pc = [c \in Cpus |-> "run"]
  /\ req = [c \in Cpus |-> IdleRequest]
  /\ nxt = [c \in Cpus |-> c]
  /\ old = [c \in Cpus |-> c]
  /\ arg = [c \in Cpus |-> [thread |-> c, gen |-> 0]]
  /\ waker = [c \in Cpus |-> "Event"]
  /\ ret = [c \in Cpus |-> "run"]
  /\ killSelf = [c \in Cpus |-> FALSE]
  /\ dying = [c \in Cpus |-> Root]
  /\ ipi = [c \in Cpus |-> FALSE]
  /\ isr = [c \in Cpus |-> FALSE]

Goto(c, label) == pc' = [pc EXCEPT ![c] = label]

-----------------------------------------------------------------------------
(* Thread: the status word                                                 *)

(***************************************************************************)
(* Thread::set_state, and a successful transition_state or compare_exchange*)
(***************************************************************************)
SetState(t, s) ==
  /\ gen' = [gen EXCEPT ![t] = @ + 1]
  /\ state' = [state EXCEPT ![t] = s]

(***************************************************************************)
(* Mutants of FutureRef: one generation early, one generation late.        *)
(***************************************************************************)
FutureRefNow(t) == [thread |-> t, gen |-> gen[t]]

FutureRefLate(t) == [thread |-> t, gen |-> gen[t] + 2]

(***************************************************************************)
(* ThreadRef::future_ref and ThreadRef::new.                               *)
(***************************************************************************)
FutureRef(t) == [thread |-> t, gen |-> gen[t] + 1]

CurrentRef(t) == [thread |-> t, gen |-> gen[t]]

-----------------------------------------------------------------------------
(* switch_current_thread_to                                                *)

(***************************************************************************)
(* The syscall or handler on cpu c asks to leave the current thread in     *)
(* state r.state; the thread will continue at point p.                     *)
(***************************************************************************)
StartSwitch(c, r, p) ==
  /\ req' = [req EXCEPT ![c] = r]
  /\ where' = [where EXCEPT ![cur[c]] = p]
  /\ Goto(c, "next")

(***************************************************************************)
(* ThreadMap::get_next_thread pops up to and including the first thread    *)
(* that is alive.                                                          *)
(***************************************************************************)
LivePositions == {i \in 1..Len(ready) : alive[ready[i]]}

IsFirstLive(i) == i \in LivePositions /\ \A j \in LivePositions : i <= j

GetNextThread(c) ==
  /\ pc[c] = "next"
  /\ \E i \in 1..Len(ready) :
       /\ IsFirstLive(i)
       /\ nxt' = [nxt EXCEPT ![c] = ready[i]]
       /\ ready' = SubSeq(ready, i + 1, Len(ready))
  /\ Goto(c, "old")
  /\ UNCHANGED <<threadVars, timeouts, tqLock, waits, members, groups, cur, req, old,
                 localVars, apicVars>>

(***************************************************************************)
(* No thread is available: the timer handler ignores the error and         *)
(* acknowledges the interrupt, every other caller panics.                  *)
(***************************************************************************)
NoAvailableThreads(c) ==
  /\ pc[c] = "next"
  /\ LivePositions = {}
  /\ ready' = <<>>
  /\ Goto(c, IF req[c].must THEN "panic" ELSE "run")
  /\ isr' = [isr EXCEPT ![c] = IF req[c].must THEN @ ELSE FALSE]
  /\ UNCHANGED <<threadVars, timeouts, tqLock, waits, members, groups, switchVars,
                 localVars, ipi>>

SetOldState(c) ==
  /\ pc[c] = "old"
  /\ SetState(cur[c], req[c].state)
  /\ spared' = spared \ {cur[c]}
  /\ Goto(c, "new")
  /\ UNCHANGED <<alive, wakeReason, where, wokenBy, queueVars, switchVars,
                 localVars, apicVars>>

(***************************************************************************)
(* Mutant of SwitchToNew: new.set_state(Running) is missing.               *)
(***************************************************************************)
SwitchWithoutRunning(c) ==
  /\ pc[c] = "new"
  /\ old' = [old EXCEPT ![c] = cur[c]]
  /\ cur' = [cur EXCEPT ![c] = nxt[c]]
  /\ nxt' = [nxt EXCEPT ![c] = c]
  /\ Goto(c, "post")
  /\ UNCHANGED <<threadVars, queueVars, req, localVars, apicVars>>

(***************************************************************************)
(* new.set_state(Running), the load of its rsp, the update of the current  *)
(* thread and asm_switch_thread.                                           *)
(***************************************************************************)
SwitchToNew(c) ==
  /\ pc[c] = "new"
  /\ SetState(nxt[c], "Running")
  /\ old' = [old EXCEPT ![c] = cur[c]]
  /\ cur' = [cur EXCEPT ![c] = nxt[c]]
  /\ nxt' = [nxt EXCEPT ![c] = c]
  /\ Goto(c, "post")
  /\ UNCHANGED <<alive, wakeReason, spared, where, wokenBy, queueVars, req,
                 localVars, apicVars>>

(***************************************************************************)
(* The thread cpu c has switched to returns from the call it was in.  A    *)
(* thread that waited for an event panics (unreachable!) when its wake     *)
(* reason is neither the event nor a timeout; one the timer preempted      *)
(* leaves the interrupt handler, which acknowledges the interrupt of the   *)
(* cpu it is on now.                                                       *)
(***************************************************************************)
ReturnToThread(c, t) ==
  /\ Goto(c, IF where[t] = "wait" /\ wakeReason[t] = "None" THEN "panic" ELSE "run")
  /\ isr' = [isr EXCEPT ![c] = @ /\ ~req[c].eoi /\ where[t] # "timer"]

(***************************************************************************)
(* Mutant of PostSwitchHandler: the thread is queued whatever the action.  *)
(***************************************************************************)
PostSwitchAlwaysQueues(c) ==
  /\ pc[c] = "post"
  /\ ready' = Append(ready, old[c])
  /\ IF req[c].post = "SetTimeout"
       THEN Goto(c, "settimeout") /\ UNCHANGED isr
       ELSE ReturnToThread(c, cur[c])
  /\ UNCHANGED <<threadVars, timeouts, tqLock, waits, members, groups, switchVars, localVars, ipi>>

(***************************************************************************)
(* post_switch_handler stores the rsp of the old thread and runs the post  *)
(* switch action.  SetTimeout needs the lock of the timeout queue, which   *)
(* it takes at "settimeout".                                               *)
(***************************************************************************)
PostSwitchHandler(c) ==
  /\ pc[c] = "post"
  /\ ready' = IF req[c].post = "InsertReadyQueue" THEN Append(ready, old[c]) ELSE ready
  /\ IF req[c].post = "SetTimeout"
       THEN Goto(c, "settimeout") /\ UNCHANGED isr
       ELSE ReturnToThread(c, cur[c])
  /\ UNCHANGED <<threadVars, timeouts, tqLock, waits, members, groups, switchVars, localVars, ipi>>

(***************************************************************************)
(* ThreadRef::new asserts that the thread is suspended, with the timeout   *)
(* queue locked.                                                           *)
(***************************************************************************)
SetTimeout(c) ==
  /\ pc[c] = "settimeout"
  /\ tqLock = {}
  /\ IF state[old[c]] = "Suspended"
       THEN /\ timeouts' = timeouts \cup {CurrentRef(old[c])}
            /\ ReturnToThread(c, cur[c])
            /\ UNCHANGED tqLock
       ELSE /\ tqLock' = {c}
            /\ Goto(c, "panic")
            /\ UNCHANGED <<timeouts, isr>>
  /\ UNCHANGED <<threadVars, ready, waits, members, groups, switchVars, localVars, ipi>>

-----------------------------------------------------------------------------
(* ThreadRef::move_to_ready_list                                           *)

StartWake(c, r, why, back) ==
  /\ arg' = [arg EXCEPT ![c] = r]
  /\ waker' = [waker EXCEPT ![c] = why]
  /\ ret' = [ret EXCEPT ![c] = back]
  /\ Goto(c, "wake")

(***************************************************************************)
(* get_thread_as_ready: the compare_exchange on the whole status word.     *)
(***************************************************************************)
IsCurrent(r) == gen[r.thread] = r.gen /\ state[r.thread] = "Suspended"

GetThreadAsReady(c) ==
  /\ pc[c] = "wake"
  /\ IsCurrent(arg[c])
  /\ SetState(arg[c].thread, "Ready")
  /\ wokenBy' = [wokenBy EXCEPT ![arg[c].thread] = waker[c]]
  /\ Goto(c, "insert")
  /\ UNCHANGED <<alive, wakeReason, spared, where, queueVars, switchVars,
                 localVars, apicVars>>

(***************************************************************************)
(* The exchange failed and the thread is not behind the reference, or the  *)
(* thread was killed and is already freed.  A thread that is still behind  *)
(* its future_ref is waited for: neither action is enabled.                *)
(***************************************************************************)
DropStaleRef(c) ==
  /\ pc[c] = "wake"
  /\ \/ gen[arg[c].thread] >= arg[c].gen /\ ~IsCurrent(arg[c])
     \/ ~alive[arg[c].thread]
  /\ Goto(c, ret[c])
  /\ UNCHANGED <<threadVars, queueVars, switchVars, localVars, apicVars>>

(***************************************************************************)
(* Mutants of InsertWoken: the wake reason is not set, a thread woken by   *)
(* its timeout is not queued.                                              *)
(***************************************************************************)
InsertWithoutReason(c) ==
  /\ pc[c] = "insert"
  /\ ready' = Append(ready, arg[c].thread)
  /\ Goto(c, ret[c])
  /\ UNCHANGED <<threadVars, timeouts, tqLock, waits, members, groups, switchVars, localVars,
                 apicVars>>

InsertDropsTimeouts(c) ==
  /\ pc[c] = "insert"
  /\ wakeReason' = [wakeReason EXCEPT ![arg[c].thread] =
                      IF waker[c] = "Resume" THEN @ ELSE waker[c]]
  /\ ready' = IF waker[c] = "Timeout" THEN ready ELSE Append(ready, arg[c].thread)
  /\ Goto(c, ret[c])
  /\ UNCHANGED <<gen, state, alive, spared, where, wokenBy, timeouts, tqLock, waits,
                 members, groups, switchVars, localVars, apicVars>>

(***************************************************************************)
(* set_wake_reason (thread_resume sets none) and insert_ready_thread.      *)
(***************************************************************************)
InsertWoken(c) ==
  /\ pc[c] = "insert"
  /\ wakeReason' = [wakeReason EXCEPT ![arg[c].thread] =
                      IF waker[c] = "Resume" THEN @ ELSE waker[c]]
  /\ ready' = Append(ready, arg[c].thread)
  /\ Goto(c, ret[c])
  /\ UNCHANGED <<gen, state, alive, spared, where, wokenBy, timeouts, tqLock, waits,
                 members, groups, switchVars, localVars, apicVars>>

-----------------------------------------------------------------------------
(* Interrupts                                                              *)

(***************************************************************************)
(* The local apic delivers the timer (vector 40) and the exit interrupt    *)
(* (vector 41, the same priority class) only while none of them is in      *)
(* service and interrupts are on.                                          *)
(***************************************************************************)
InterruptsOpen(c) == pc[c] = "run" /\ ~isr[c]

TimerInterrupt(c) ==
  /\ InterruptsOpen(c)
  /\ isr' = [isr EXCEPT ![c] = TRUE]
  /\ Goto(c, "lockq")
  /\ UNCHANGED <<threadVars, queueVars, switchVars, localVars, ipi>>

TimerLock(c) ==
  /\ pc[c] = "lockq"
  /\ tqLock = {}
  /\ tqLock' = {c}
  /\ Goto(c, "timer")
  /\ UNCHANGED <<threadVars, ready, timeouts, waits, members, groups, switchVars,
                 localVars, apicVars>>

(***************************************************************************)
(* One turn of TimeoutQueue::wake_threads.  Time is not modelled: any      *)
(* pending timeout may be the one that has expired.                        *)
(***************************************************************************)
WakeExpired(c) ==
  /\ pc[c] = "timer"
  /\ \E r \in timeouts :
       /\ timeouts' = timeouts \ {r}
       /\ StartWake(c, r, "Timeout", "timer")
  /\ UNCHANGED <<threadVars, ready, tqLock, waits, members, groups, switchVars, killSelf,
                 dying, apicVars>>

(***************************************************************************)
(* Nothing more has expired: the queue is unlocked and the handler returns *)
(* or, when the time slice is over, preempts the current thread.           *)
(***************************************************************************)
TimerReturn(c) ==
  /\ pc[c] = "timer"
  /\ tqLock' = {}
  /\ isr' = [isr EXCEPT ![c] = FALSE]
  /\ Goto(c, "run")
  /\ UNCHANGED <<threadVars, ready, timeouts, waits, members, groups, switchVars,
                 localVars, ipi>>

(***************************************************************************)
(* Mutant of TimerPreempt: the preempted thread is not put back.           *)
(***************************************************************************)
TimerForgetsThread(c) ==
  /\ pc[c] = "timer"
  /\ gen[cur[c]] < GenBound[cur[c]]
  /\ tqLock' = {}
  /\ StartSwitch(c, Request("Suspended", "None", TRUE, FALSE), "timer")
  /\ UNCHANGED <<gen, state, alive, wakeReason, spared, wokenBy, ready, timeouts,
                 waits, members, groups, cur, nxt, old, localVars, apicVars>>

TimerPreempt(c) ==
  /\ pc[c] = "timer"
  /\ gen[cur[c]] < GenBound[cur[c]]
  /\ tqLock' = {}
  /\ StartSwitch(c, IdleRequest, "timer")
  /\ UNCHANGED <<gen, state, alive, wakeReason, spared, wokenBy, ready, timeouts,
                 waits, members, groups, cur, nxt, old, localVars, apicVars>>

(***************************************************************************)
(* exit_handler: a killed current thread switches to Dead; the switch is   *)
(* what acknowledges the interrupt.                                        *)
(***************************************************************************)
ExitInterrupt(c) ==
  /\ InterruptsOpen(c)
  /\ ipi[c]
  /\ ipi' = [ipi EXCEPT ![c] = FALSE]
  /\ isr' = [isr EXCEPT ![c] = TRUE]
  /\ IF alive[cur[c]]
       THEN UNCHANGED <<req, where, pc>>
       ELSE StartSwitch(c, Request("Dead", "None", TRUE, TRUE), "exit")
  /\ UNCHANGED <<gen, state, alive, wakeReason, spared, wokenBy, queueVars, cur,
                 nxt, old, localVars>>

-----------------------------------------------------------------------------
(* Syscalls of the current thread                                          *)

InSyscall(c) == pc[c] = "run" /\ cur[c] \in Users /\ gen[cur[c]] < GenBound[cur[c]]

ThreadYield(c) ==
  /\ InSyscall(c)
  /\ StartSwitch(c, Request("Ready", "InsertReadyQueue", FALSE, TRUE), "yield")
  /\ UNCHANGED <<gen, state, alive, wakeReason, spared, wokenBy, queueVars, cur,
                 nxt, old, localVars, apicVars>>

ThreadSuspend(c, post) ==
  /\ InSyscall(c)
  /\ StartSwitch(c, Request("Suspended", post, FALSE, TRUE),
                 IF post = "SetTimeout" THEN "sleep" ELSE "suspend")
  /\ UNCHANGED <<gen, state, alive, wakeReason, spared, wokenBy, queueVars, cur,
                 nxt, old, localVars, apicVars>>

(***************************************************************************)
(* A blocking channel, event pool or event syscall: the object keeps a     *)
(* future_ref of the current thread, which then suspends itself.           *)
(***************************************************************************)
WaitForEvent(c, post) ==
  /\ InSyscall(c)
  /\ waits' = waits \cup {FutureRef(cur[c])}
  /\ StartSwitch(c, Request("Suspended", post, FALSE, TRUE), "wait")
  /\ UNCHANGED <<gen, state, alive, wakeReason, spared, wokenBy, ready, timeouts,
                 tqLock, members, groups, cur, nxt, old, localVars, apicVars>>

(***************************************************************************)
(* A syscall that completes what another thread waits for: the object      *)
(* gives up the reference and wakes its thread.                            *)
(***************************************************************************)
Signal(c) ==
  /\ InSyscall(c)
  /\ \E r \in waits :
       /\ waits' = waits \ {r}
       /\ StartWake(c, r, "Event", "run")
  /\ UNCHANGED <<threadVars, ready, timeouts, tqLock, members, groups, switchVars, killSelf,
                 dying, apicVars>>

(***************************************************************************)
(* Mutant of ThreadResume: the state is set without being compared.        *)
(***************************************************************************)
ResumeUnchecked(c, t) ==
  /\ InSyscall(c)
  /\ state[t] # "Absent"
  /\ SetState(t, "Ready")
  /\ wokenBy' = [wokenBy EXCEPT ![t] = "Resume"]
  /\ arg' = [arg EXCEPT ![c] = CurrentRef(t)]
  /\ waker' = [waker EXCEPT ![c] = "Resume"]
  /\ ret' = [ret EXCEPT ![c] = "run"]
  /\ Goto(c, "insert")
  /\ UNCHANGED <<alive, wakeReason, spared, where, queueVars, switchVars, killSelf,
                 dying, apicVars>>

(***************************************************************************)
(* thread_resume and thread_destroy of another thread: transition_state,   *)
(* then the ready list or the thread group.  Nothing changes when the      *)
(* thread is not suspended (InvlOp).                                       *)
(***************************************************************************)
ThreadResume(c, t) ==
  /\ InSyscall(c)
  /\ state[t] = "Suspended"
  /\ SetState(t, "Ready")
  /\ wokenBy' = [wokenBy EXCEPT ![t] = "Resume"]
  /\ arg' = [arg EXCEPT ![c] = CurrentRef(t)]
  /\ waker' = [waker EXCEPT ![c] = "Resume"]
  /\ ret' = [ret EXCEPT ![c] = "run"]
  /\ Goto(c, "insert")
  /\ UNCHANGED <<alive, wakeReason, spared, where, queueVars, switchVars, killSelf,
                 dying, apicVars>>

ThreadDestroyOther(c, t) ==
  /\ InSyscall(c)
  /\ state[t] = "Suspended"
  /\ SetState(t, "Dead")
  /\ arg' = [arg EXCEPT ![c] = CurrentRef(t)]
  /\ Goto(c, "remove")
  /\ UNCHANGED <<alive, wakeReason, spared, where, wokenBy, queueVars, switchVars,
                 waker, ret, killSelf, dying, apicVars>>

(***************************************************************************)
(* exit_inner holds the lock of the thread list while it runs.             *)
(***************************************************************************)
Emptying == {"kill", "drop"}

Exiting == Emptying \cup {"release"}

ListUnlocked(g) == \A d \in Cpus : pc[d] \in Emptying => dying[d] # g

RemoveThread(c) ==
  /\ pc[c] = "remove"
  /\ \A g \in Groups : arg[c].thread \in members[g] => ListUnlocked(g)
  /\ members' = [g \in Groups |-> members[g] \ {arg[c].thread}]
  /\ Goto(c, "run")
  /\ UNCHANGED <<threadVars, ready, timeouts, tqLock, waits, groups, switchVars,
                 localVars, apicVars>>

ThreadDestroySelf(c) ==
  /\ InSyscall(c)
  /\ StartSwitch(c, Request("Dead", "None", FALSE, TRUE), "exit")
  /\ UNCHANGED <<gen, state, alive, wakeReason, spared, wokenBy, queueVars, cur,
                 nxt, old, localVars, apicVars>>

(***************************************************************************)
(* thread_new and create_thread: nobody else can name the thread before    *)
(* the list is unlocked.                                                   *)
(***************************************************************************)
ThreadNew(c, t, g, start) ==
  /\ InSyscall(c)
  /\ state[t] = "Absent"
  /\ g \in groups /\ ListUnlocked(g)
  /\ SetState(t, start)
  /\ members' = [members EXCEPT ![g] = @ \cup {t}]
  /\ ready' = IF start = "Ready" THEN Append(ready, t) ELSE ready
  /\ UNCHANGED <<alive, wakeReason, spared, where, wokenBy, timeouts, tqLock, waits,
                 groups, switchVars, localVars, apicVars, pc>>

-----------------------------------------------------------------------------
(* ThreadGroup::exit and the drop of a ThreadGroup                         *)

(***************************************************************************)
(* exit keeps the answer of exit_inner and goes on to drop its reference   *)
(* to the group.                                                           *)
(***************************************************************************)
ThreadGroupExit(c, g) ==
  /\ InSyscall(c)
  /\ g \in groups /\ ListUnlocked(g)
  /\ killSelf' = [killSelf EXCEPT ![c] = FALSE]
  /\ dying' = [dying EXCEPT ![c] = g]
  /\ Goto(c, "kill")
  /\ UNCHANGED <<threadVars, queueVars, switchVars, arg, waker, ret, apicVars>>

(***************************************************************************)
(* Drop for ThreadGroup: the last reference to group g goes, in a syscall, *)
(* or with a dead thread that held it and that an interrupt handler or     *)
(* post_switch_handler has let go of.  The answer of exit_inner is thrown  *)
(* away.  Nobody else is in exit of the group: that holds a reference.     *)
(***************************************************************************)
Unused(g) ==
  /\ g \in groups \cap Droppable
  /\ \A d \in Cpus : pc[d] \in Exiting => dying[d] # g

ThreadGroupDrop(c, g) ==
  /\ pc[c] = "run"
  /\ Unused(g)
  /\ groups' = groups \ {g}
  /\ killSelf' = [killSelf EXCEPT ![c] = FALSE]
  /\ dying' = [dying EXCEPT ![c] = g]
  /\ Goto(c, "drop")
  /\ UNCHANGED <<threadVars, ready, timeouts, tqLock, waits, members, switchVars, arg,
                 waker, ret, apicVars>>

(***************************************************************************)
(* Mutant of ExitInner: the caller is not told that it is a member.        *)
(***************************************************************************)
ExitInnerSparesCaller(c) ==
  /\ pc[c] \in Emptying
  /\ \E t \in members[dying[c]] :
       /\ members' = [members EXCEPT ![dying[c]] = @ \ {t}]
       /\ alive' = [alive EXCEPT ![t] = FALSE]
       /\ spared' = IF t = cur[c] /\ pc[c] = "drop" THEN spared \cup {t} ELSE spared
  /\ UNCHANGED <<gen, state, wakeReason, where, wokenBy, ready, timeouts, tqLock, waits,
                 groups, switchVars, localVars, apicVars, pc>>

(***************************************************************************)
(* One turn of exit_inner.  Only exit learns that it has killed its own    *)
(* thread ("This doesn't kill the current thread, so it will run a bit     *)
(* before scheduler decides to switch to another thread").                 *)
(***************************************************************************)
ExitInner(c) ==
  /\ pc[c] \in Emptying
  /\ \E t \in members[dying[c]] :
       /\ members' = [members EXCEPT ![dying[c]] = @ \ {t}]
       /\ alive' = [alive EXCEPT ![t] = FALSE]
       /\ killSelf' = [killSelf EXCEPT ![c] = @ \/ (t = cur[c] /\ pc[c] = "kill")]
       /\ spared' = IF t = cur[c] /\ pc[c] = "drop" THEN spared \cup {t} ELSE spared
  /\ UNCHANGED <<gen, state, wakeReason, where, wokenBy, ready, timeouts, tqLock, waits,
                 groups, switchVars, arg, waker, ret, dying, apicVars, pc>>

(***************************************************************************)
(* A thread exit_inner has taken off its list was freed with it and held   *)
(* the last reference to another group: that group is dropped, and the     *)
(* other cpus interrupted, before exit_inner goes on.                      *)
(***************************************************************************)
ExitInnerDrops(c, g) ==
  /\ pc[c] \in Emptying
  /\ Unused(g)
  /\ groups' = groups \ {g}
  /\ members' = [members EXCEPT ![g] = {}]
  /\ alive' = [t \in Threads |-> alive[t] /\ t \notin members[g]]
  /\ spared' = spared \cup (members[g] \cap {cur[c]})
  /\ ipi' = [d \in Cpus |-> ipi[d] \/ d # c]
  /\ UNCHANGED <<gen, state, wakeReason, where, wokenBy, ready, timeouts, tqLock, waits,
                 switchVars, localVars, isr, pc>>

(***************************************************************************)
(* The end of exit: the caller dies if it was a member.                    *)
(***************************************************************************)
LeaveExit(c) ==
  IF killSelf[c]
  THEN StartSwitch(c, Request("Dead", "None", FALSE, TRUE), "exit")
  ELSE Goto(c, "run") /\ UNCHANGED <<req, where>>

(***************************************************************************)
(* Mutant of ExitFinish: the other cpus are interrupted only when the      *)
(* caller is not itself a member.                                          *)
(***************************************************************************)
ExitFinishNoIpi(c) ==
  /\ pc[c] \in Emptying
  /\ members[dying[c]] = {}
  /\ ipi' = [d \in Cpus |-> ipi[d] \/ (d # c /\ ~killSelf[c])]
  /\ IF pc[c] = "kill"
       THEN Goto(c, "release") /\ UNCHANGED <<req, where>>
       ELSE LeaveExit(c)
  /\ UNCHANGED <<gen, state, alive, wakeReason, spared, wokenBy, queueVars, cur,
                 nxt, old, localVars, isr>>

(***************************************************************************)
(* The list is empty: the exit interrupt goes to every other cpu, and exit *)
(* drops its reference.                                                    *)
(***************************************************************************)
ExitFinish(c) ==
  /\ pc[c] \in Emptying
  /\ members[dying[c]] = {}
  /\ ipi' = [d \in Cpus |-> ipi[d] \/ d # c]
  /\ IF pc[c] = "kill"
       THEN Goto(c, "release") /\ UNCHANGED <<req, where>>
       ELSE LeaveExit(c)
  /\ UNCHANGED <<gen, state, alive, wakeReason, spared, wokenBy, queueVars, cur,
                 nxt, old, localVars, isr>>

(***************************************************************************)
(* The reference exit drops is one of several, or it is the last: then     *)
(* whoever was added to the group since is killed too.                     *)
(***************************************************************************)
ReleaseGroup(c) ==
  /\ pc[c] = "release"
  /\ LeaveExit(c)
  /\ UNCHANGED <<gen, state, alive, wakeReason, spared, wokenBy, queueVars, cur,
                 nxt, old, localVars, apicVars>>

ReleaseLast(c) ==
  /\ pc[c] = "release"
  /\ dying[c] \in groups \cap Droppable
  /\ \A d \in Cpus \ {c} : pc[d] \in Exiting => dying[d] # dying[c]
  /\ groups' = groups \ {dying[c]}
  /\ Goto(c, "drop")
  /\ UNCHANGED <<threadVars, ready, timeouts, tqLock, waits, members, switchVars, localVars,
                 apicVars>>

-----------------------------------------------------------------------------
KernelStep(c) ==
  \/ GetNextThread(c)
  \/ NoAvailableThreads(c)
  \/ SetOldState(c)
  \/ SwitchToNew(c)
  \/ PostSwitchHandler(c)
  \/ SetTimeout(c)
  \/ GetThreadAsReady(c)
  \/ DropStaleRef(c)
  \/ InsertWoken(c)
  \/ TimerLock(c)
  \/ WakeExpired(c)
  \/ TimerReturn(c)
  \/ TimerPreempt(c)
  \/ RemoveThread(c)
  \/ ExitInner(c)
  \/ \E g \in Groups : ExitInnerDrops(c, g)
  \/ ExitFinish(c)
  \/ ReleaseGroup(c)
  \/ ReleaseLast(c)

Syscall(c) ==
  \/ ThreadYield(c)
  \/ \E post \in {"None", "SetTimeout"} : ThreadSuspend(c, post) \/ WaitForEvent(c, post)
  \/ Signal(c)
  \/ \E t \in Users : ThreadResume(c, t) \/ ThreadDestroyOther(c, t)
  \/ ThreadDestroySelf(c)
  \/ \E t \in Users, g \in Groups, start \in {"Ready", "Suspended"} : ThreadNew(c, t, g, start)
  \/ \E g \in Groups : ThreadGroupExit(c, g)

Next ==
  \E c \in Cpus :
    \/ KernelStep(c)
    \/ TimerInterrupt(c)
    \/ ExitInterrupt(c)
    \/ Syscall(c)
    \/ \E g \in Groups : ThreadGroupDrop(c, g)

Spec == Init /\ [][Next]_vars

(***************************************************************************)
(* A cpu inside the kernel keeps executing, and a pending exit interrupt   *)
(* is delivered although the timer keeps interrupting: its vector is the   *)
(* higher one.  User code owes nothing.                                    *)
(***************************************************************************)
Fairness ==
  \A c \in Cpus : SF_vars(KernelStep(c)) /\ SF_vars(ExitInterrupt(c))

FairSpec == Spec /\ Fairness

-----------------------------------------------------------------------------
(* Properties                                                              *)

(***************************************************************************)
(* Every variable has its type.                                            *)
(***************************************************************************)
TypeOK ==
  /\ gen \in [Threads -> Nat]
  /\ state \in [Threads -> ThreadStates]
  /\ alive \in [Threads -> BOOLEAN]
  /\ wakeReason \in [Threads -> WakeReasons]
  /\ spared \subseteq Users
  /\ where \in [Threads -> ResumePoints]
  /\ wokenBy \in [Threads -> Wakers]
  /\ ready \in Seq(Threads)
  /\ timeouts \subseteq ThreadRefs
  /\ tqLock \subseteq Cpus
  /\ waits \subseteq ThreadRefs
  /\ members \in [Groups -> SUBSET Users]
  /\ groups \subseteq Groups
  /\ cur \in [Cpus -> Threads]
  /\ pc \in [Cpus -> Labels]
  /\ req \in [Cpus -> Requests]
  /\ nxt \in [Cpus -> Threads]
  /\ old \in [Cpus -> Threads]
  /\ arg \in [Cpus -> ThreadRefs]
  /\ waker \in [Cpus -> Wakers]
  /\ ret \in [Cpus -> {"run", "timer"}]
  /\ killSelf \in [Cpus -> BOOLEAN]
  /\ dying \in [Cpus -> Groups]
  /\ ipi \in [Cpus -> BOOLEAN]
  /\ isr \in [Cpus -> BOOLEAN]

(***************************************************************************)
(* The status word says Running; the idle threads keep their first status  *)
(* word until they are first switched out.                                 *)
(***************************************************************************)
IsRunning(t) == state[t] = "Running" \/ (t \in Cpus /\ gen[t] = 0)

(***************************************************************************)
(* A cpu between its two set_state calls has already given its thread away.*)
(***************************************************************************)
OwnsCurrent(c) == pc[c] # "new"

(***************************************************************************)
(* The status words and the cpus agree: the current thread of a cpu is     *)
(* Running, no two cpus own the same thread, and a Running thread is       *)
(* current somewhere ("Running: the thread is currently running on a cpu").*)
(***************************************************************************)
RunningOwned ==
  /\ \A c \in Cpus : OwnsCurrent(c) => IsRunning(cur[c])
  /\ \A c, d \in Cpus : c # d /\ OwnsCurrent(c) /\ OwnsCurrent(d) => cur[c] # cur[d]
  /\ \A t \in Threads : IsRunning(t) => \E c \in Cpus : OwnsCurrent(c) /\ cur[c] = t

(***************************************************************************)
(* The Ready threads a cpu has taken out of the ready list, or not yet put *)
(* into it: the one it is switching to, the one it is switching away from  *)
(* and the one it has just woken.                                          *)
(***************************************************************************)
HandsOver(c) == pc[c] \in {"new", "post"} /\ req[c].post = "InsertReadyQueue"

SwitchedOut(c) == IF pc[c] = "new" THEN cur[c] ELSE old[c]

InHand(c, t) ==
  \/ pc[c] \in {"old", "new"} /\ nxt[c] = t
  \/ HandsOver(c) /\ SwitchedOut(c) = t
  \/ pc[c] = "insert" /\ arg[c].thread = t

Queued(t) == \E i \in 1..Len(ready) : ready[i] = t

(***************************************************************************)
(* A thread is scheduled at most once: it has one place in the ready list  *)
(* or is in the hands of one cpu, never both, and only while it is Ready.  *)
(* Otherwise two cpus could pop it and run it at the same time.            *)
(***************************************************************************)
ScheduledOnce ==
  /\ \A i, j \in 1..Len(ready) : ready[i] = ready[j] => i = j
  /\ \A c \in Cpus, t \in Threads : InHand(c, t) => ~Queued(t)
  /\ \A c, d \in Cpus, t \in Threads : InHand(c, t) /\ InHand(d, t) => c = d
  /\ \A c \in Cpus : pc[c] = "new" /\ HandsOver(c) => nxt[c] # cur[c]
  /\ \A t \in Threads : Queued(t) => state[t] = "Ready"
  /\ \A c \in Cpus, t \in Threads : InHand(c, t) => state[t] = "Ready"

(***************************************************************************)
(* No wake up is lost: a living Ready thread is in the ready list or in    *)
(* the hands of a cpu that will run it or put it there.                    *)
(***************************************************************************)
NoLostThread ==
  \A t \in Threads :
    state[t] = "Ready" /\ alive[t] => Queued(t) \/ \E c \in Cpus : InHand(c, t)

HeldRefs == waits \cup {arg[c] : c \in {d \in Cpus : pc[d] = "wake" /\ waker[d] = "Event"}}

ExpiringRefs == timeouts \cup {arg[c] : c \in {d \in Cpus : pc[d] = "wake" /\ waker[d] = "Timeout"}}

(***************************************************************************)
(* The generation a reference names is a suspension: a thread is never     *)
(* Running, Ready or Dead in it, so a reference that outlives the          *)
(* suspension can never match again.                                       *)
(***************************************************************************)
RefNamesSuspension ==
  \A r \in HeldRefs \cup ExpiringRefs :
    r.gen = gen[r.thread] => state[r.thread] = "Suspended" /\ r.gen > 0

(***************************************************************************)
(* A thread that an event or a timeout woke finds that reason when it      *)
(* returns to its blocking call, however many cpus handled it in between.  *)
(***************************************************************************)
ReasonMatches ==
  \A c \in Cpus :
    LET t == cur[c]
    IN pc[c] = "post" /\ where[t] \in {"wait", "sleep"} /\ wokenBy[t] # "Resume"
         => wakeReason[t] = wokenBy[t]

(***************************************************************************)
(* A cpu that runs user code of a killed thread has an exit interrupt      *)
(* pending, or the exit that killed the thread is still in progress: no    *)
(* order of exit_inner, dispatch and interrupt loses the kill.  The one    *)
(* thread nobody interrupts is the one whose own cpu dropped the last      *)
(* reference to its group, until it is next switched out (Drop for         *)
(* ThreadGroup).                                                           *)
(***************************************************************************)
KilledIsInterrupted ==
  \A c \in Cpus :
    pc[c] = "run" /\ ~alive[cur[c]]
      => ipi[c] \/ cur[c] \in spared \/ \E d \in Cpus : pc[d] \in Emptying

(***************************************************************************)
(* Only the cpu a thread runs on takes it out of the Running state ("All   *)
(* of these transitions are the running thread moving itself to a new      *)
(* state").                                                                *)
(***************************************************************************)
OnlyOwnerLeavesRunning ==
  [][\A t \in Threads :
       state[t] = "Running" /\ gen'[t] # gen[t]
         => \E c \in Cpus : cur[c] = t /\ pc[c] = "old" /\ pc'[c] = "new"]_vars

(***************************************************************************)
(* thread_yield, thread_suspend and the blocking syscalls find a thread to *)
(* switch to, and do not panic, unless another cpu is in the middle of a   *)
(* switch, with an idle thread in its hands ("the idle thread should       *)
(* always ba available").                                                  *)
(***************************************************************************)
IdleAvailable ==
  \A c \in Cpus :
    pc[c] = "next" /\ req[c].must /\ LivePositions = {}
      => \E d \in Cpus \ {c} : pc[d] \in {"old", "new", "post"}

(***************************************************************************)
(* No two cpus execute on the same thread's stack.                         *)
(***************************************************************************)
OneCpuPerThread == \A c, d \in Cpus : c # d => cur[c] # cur[d]

-----------------------------------------------------------------------------
(* Liveness                                                                *)

(***************************************************************************)
(* The spin loop of get_thread_as_ready ends unless a cpu has panicked.    *)
(***************************************************************************)
SpinEnds ==
  \A c \in Cpus : pc[c] = "wake" ~> pc[c] # "wake" \/ \E d \in Cpus : pc[d] = "panic"

(***************************************************************************)
(* A killed thread stops running, unless its cpu has panicked ("Kills all  *)
(* threads in this thread group").  A thread that dropped its own group    *)
(* waits for the end of its time slice, which user code owes nobody.       *)
(***************************************************************************)
KilledStops ==
  \A t \in Users :
    ~alive[t] /\ t \notin spared ~> \A c \in Cpus : cur[c] = t => pc[c] = "panic"
=============================================================================
