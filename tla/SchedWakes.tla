----------------------------- MODULE SchedWakes -----------------------------
(***************************************************************************)
(* What becomes of a suspended thread: the references to it, the reason it *)
(* is woken with, its kill, and the thread its cpu runs instead, for any   *)
(* number of cpus and threads.                                             *)
(***************************************************************************)
EXTENDS SchedProofs, FiniteSetTheorems

-----------------------------------------------------------------------------
(* The kinds of steps                                                      *)

(***************************************************************************)
(* What a step of cpu c leaves alone on every other cpu.                   *)
(***************************************************************************)
OthersKept(c) ==
  /\ Elsewhere(c)
  /\ \A d \in Cpus : d # c => waker'[d] = waker[d] /\ killSelf'[d] = killSelf[d]

WakingRefs == waits \cup timeouts \cup {arg[c] : c \in {d \in Cpus : pc[d] = "wake"}}

(***************************************************************************)
(* A syscall or a handler asks for a switch away from its current thread.  *)
(* Only the timer asks for it on behalf of an idle thread, and it copes    *)
(* with a failure; whoever waits for an event leaves a future reference.   *)
(***************************************************************************)
Asks(c, r, p) ==
  /\ pc[c] \in {"run", "timer", "release", "drop"}
  /\ StartSwitch(c, r, p)
  /\ r.must => cur[c] \in Users
  /\ r.post = "SetTimeout" => r.state = "Suspended"
  /\ r.state # "Ready" => r.must
  /\ r.state = "Ready" => p \in {"timer", "yield"}
  /\ \/ waits' = waits
     \/ waits' = waits \cup {FutureRef(cur[c])} /\ r.state = "Suspended"
  /\ UNCHANGED <<gen, state, alive, wakeReason, wokenBy, ready, timeouts, cur, nxt, old,
                 arg, waker, killSelf>>

(***************************************************************************)
(* A step that neither starts nor carries out a switch, and wakes nobody.  *)
(***************************************************************************)
Quiet(c) ==
  /\ pc[c] \in {"next", "wake", "lockq", "timer", "run", "remove", "kill", "release", "drop"}
  /\ pc'[c] \in {"run", "panic", "lockq", "timer", "wake", "kill", "release", "drop"}
  /\ pc[c] = "next" => pc'[c] = IF req[c].must THEN "panic" ELSE "run"
  /\ pc'[c] \in Exiting /\ killSelf'[c] => cur[c] \in Users
  /\ ready' \in {ready, <<>>}
  /\ \A d \in Cpus : alive'[d] = alive[d]
  /\ WakingRefs' \subseteq WakingRefs
  /\ UNCHANGED <<gen, state, wakeReason, where, wokenBy, cur, req, nxt, old>>

(***************************************************************************)
(* A step that touches a status word, moves a Ready thread or records a    *)
(* timeout.                                                                *)
(***************************************************************************)
Touches(c) ==
  \/ GetNextThread(c) \/ SetOldState(c) \/ SwitchToNew(c) \/ PostSwitchHandler(c)
  \/ SetTimeout(c) \/ GetThreadAsReady(c) \/ InsertWoken(c)
  \/ \E t \in Users : ThreadResume(c, t) \/ ThreadDestroyOther(c, t)
  \/ \E t \in Users, g \in Groups, start \in {"Ready", "Suspended"} : ThreadNew(c, t, g, start)

StepOf(c) ==
  /\ OthersKept(c)
  /\ Touches(c) \/ Quiet(c) \/ \E r \in Requests, p \in ResumePoints : Asks(c, r, p)

(***************************************************************************)
(* No idle thread is ever killed: thread groups have none.                 *)
(***************************************************************************)
LEMMA IdleNotKilled ==
  ASSUME TypeOK, NEW c \in Cpus, ExitInner(c) \/ \E g \in Groups : ExitInnerDrops(c, g)
  PROVE  \A d \in Cpus : alive'[d] = alive[d]
<1>1. \A d \in Cpus : d \in Threads /\ d \notin Users
  BY ThreadKinds, SchedAssumption, Zenon
<1>2. CASE ExitInner(c)
  <2>1. PICK t \in members[dying[c]] : alive' = [alive EXCEPT ![t] = FALSE]
    BY <1>2, Zenon DEF ExitInner
  <2>2. t \in Users
    BY <2>1, Zenon DEF TypeOK
  <2> QED
    BY <1>1, <2>1, <2>2, Zenon DEF TypeOK
<1>3. ASSUME NEW g \in Groups, ExitInnerDrops(c, g) PROVE \A d \in Cpus : alive'[d] = alive[d]
  <2>1. members[g] \subseteq Users
    BY Zenon DEF TypeOK
  <2>2. \A t \in Threads : alive'[t] = (alive[t] /\ t \notin members[g])
    BY <1>3, Zenon DEF ExitInnerDrops
  <2>3. \A t \in Threads : alive[t] \in BOOLEAN
    BY Zenon DEF TypeOK
  <2> QED
    BY <1>1, <2>1, <2>2, <2>3
<1> QED
  BY <1>2, <1>3, Zenon

(***************************************************************************)
(* Taking a reference to wake its thread moves it, nothing more.           *)
(***************************************************************************)
LEMMA TakesRef ==
  ASSUME TypeOK, NEW c \in Cpus, Elsewhere(c), NEW r \in waits \cup timeouts,
         waits' \cup timeouts' \subseteq waits \cup timeouts,
         pc'[c] = "wake", arg'[c] = r
  PROVE  WakingRefs' \subseteq WakingRefs
<1>1. ASSUME NEW d \in Cpus, pc'[d] = "wake" PROVE arg'[d] \in WakingRefs
  <2>1. CASE d = c
    BY <2>1, Zenon DEF WakingRefs
  <2>2. CASE d # c
    BY <1>1, <2>2, Zenon DEF WakingRefs, Elsewhere
  <2> QED
    BY <2>1, <2>2, Zenon
<1> QED
  BY <1>1, Zenon DEF WakingRefs

(***************************************************************************)
(* A step that ends a wake up, or has nothing to do with one, adds none.   *)
(***************************************************************************)
LEMMA AddsNoRef ==
  ASSUME TypeOK, NEW c \in Cpus, Elsewhere(c), pc'[c] # "wake",
         waits' \cup timeouts' \subseteq waits \cup timeouts
  PROVE  WakingRefs' \subseteq WakingRefs
<1>1. ASSUME NEW d \in Cpus, pc'[d] = "wake" PROVE arg'[d] \in WakingRefs
  BY <1>1, Zenon DEF WakingRefs, Elsewhere
<1> QED
  BY <1>1, Zenon DEF WakingRefs

(***************************************************************************)
(* A step that adds one reference to a wait or to the timeouts.            *)
(***************************************************************************)
LEMMA NewRef ==
  ASSUME NEW c \in Cpus, Elsewhere(c), pc'[c] # "wake", NEW n,
         \/ waits' = waits \cup {n} /\ timeouts' = timeouts
         \/ timeouts' = timeouts \cup {n} /\ waits' = waits,
         NEW r \in WakingRefs', r \notin WakingRefs
  PROVE  r = n
<1>1. \A d \in Cpus : pc'[d] = "wake" => pc[d] = "wake" /\ arg'[d] = arg[d]
  BY Zenon DEF Elsewhere
<1>2. r \in waits' \/ r \in timeouts' \/ \E d \in Cpus : pc'[d] = "wake" /\ r = arg'[d]
  BY Zenon DEF WakingRefs
<1>3. r \notin waits /\ r \notin timeouts /\ \A d \in Cpus : pc[d] = "wake" => r # arg[d]
  BY Zenon DEF WakingRefs
<1> QED
  BY <1>1, <1>2, <1>3, Zenon

(***************************************************************************)
(* The steps that touch a status word or move a Ready thread are steps of  *)
(* one cpu.                                                                *)
(***************************************************************************)
LEMMA TouchingKept ==
  ASSUME TypeOK, NEW c \in Cpus, Touches(c)
  PROVE  OthersKept(c)
<1> USE DEF threadVars, queueVars, switchVars, localVars, apicVars, Goto
<1>1. ASSUME GetNextThread(c) PROVE OthersKept(c)
  BY <1>1, Zenon DEF GetNextThread, OthersKept, Elsewhere, TypeOK
<1>2. ASSUME SetOldState(c) \/ GetThreadAsReady(c) \/ InsertWoken(c) PROVE OthersKept(c)
  BY <1>2, Zenon DEF SetOldState, GetThreadAsReady, InsertWoken, OthersKept, Elsewhere, TypeOK
<1>3. ASSUME SwitchToNew(c) PROVE OthersKept(c)
  BY <1>3, Zenon DEF SwitchToNew, OthersKept, Elsewhere, TypeOK
<1>4. ASSUME PostSwitchHandler(c) \/ SetTimeout(c) PROVE OthersKept(c)
  BY <1>4, Zenon DEF PostSwitchHandler, SetTimeout, ReturnToThread, OthersKept, Elsewhere, TypeOK
<1>5. ASSUME NEW t \in Users, ThreadResume(c, t) \/ ThreadDestroyOther(c, t) PROVE OthersKept(c)
  BY <1>5, Zenon DEF ThreadResume, ThreadDestroyOther, OthersKept, Elsewhere, TypeOK
<1>6. ASSUME NEW t \in Users, NEW g \in Groups, NEW start \in {"Ready", "Suspended"},
             ThreadNew(c, t, g, start)
      PROVE  OthersKept(c)
  BY <1>6, Zenon DEF ThreadNew, OthersKept, Elsewhere
<1> QED
  BY <1>1, <1>2, <1>3, <1>4, <1>5, <1>6, Zenon DEF Touches

(***************************************************************************)
(* The callers of switch_current_thread_to.  A killed current thread is    *)
(* never an idle thread.                                                   *)
(***************************************************************************)
Asking(c) == OthersKept(c) /\ \E r \in Requests, p \in ResumePoints : Asks(c, r, p)

(***************************************************************************)
(* Each of their actions asks for a switch in this sense.                  *)
(***************************************************************************)
LEMMA AskingStep ==
  ASSUME TypeOK, \A d \in Cpus : alive[d], NEW c \in Cpus,
         \/ TimerPreempt(c) \/ ThreadYield(c) \/ ThreadDestroySelf(c)
         \/ \E post \in {"None", "SetTimeout"} : ThreadSuspend(c, post) \/ WaitForEvent(c, post)
         \/ ExitInterrupt(c) /\ ~alive[cur[c]]
         \/ ExitFinish(c) /\ pc[c] = "drop" /\ killSelf[c] /\ cur[c] \in Users
         \/ ReleaseGroup(c) /\ killSelf[c] /\ cur[c] \in Users
  PROVE  Asking(c)
<1> USE DEF threadVars, queueVars, switchVars, localVars, apicVars, Goto
<1>0. cur[c] \in Threads /\ (cur[c] \in Cpus \/ cur[c] \in Users)
  BY Zenon DEF TypeOK, Threads
<1>1. ASSUME NEW r \in Requests, NEW p \in ResumePoints, StartSwitch(c, r, p),
             UNCHANGED <<cur, nxt, old, arg, waker, killSelf>>
      PROVE  OthersKept(c)
  BY <1>1, Zenon DEF StartSwitch, OthersKept, Elsewhere, TypeOK
<1>2. ASSUME NEW r \in Requests, NEW p \in ResumePoints, Asks(c, r, p) PROVE Asking(c)
  BY <1>1, <1>2, Zenon DEF Asks, Asking
<1>3. CASE TimerPreempt(c)
  <2>1. IdleRequest \in Requests /\ "timer" \in ResumePoints
    BY RequestTypes, Zenon DEF IdleRequest, ResumePoints
  <2>2. Asks(c, IdleRequest, "timer")
    BY <1>3, Zenon DEF TimerPreempt, Asks, IdleRequest, Request
  <2> QED
    BY <1>2, <2>1, <2>2, Zenon
<1>4. CASE ThreadYield(c)
  <2> DEFINE r == Request("Ready", "InsertReadyQueue", FALSE, TRUE)
  <2>1. r \in Requests /\ "yield" \in ResumePoints
    BY RequestTypes, Zenon DEF ResumePoints
  <2>2. Asks(c, r, "yield")
    BY <1>4, Zenon DEF ThreadYield, InSyscall, Asks, Request
  <2> QED
    BY <1>2, <2>1, <2>2, Zenon
<1>5. ASSUME \/ ThreadDestroySelf(c)
             \/ ExitFinish(c) /\ pc[c] = "drop" /\ killSelf[c] /\ cur[c] \in Users
             \/ ReleaseGroup(c) /\ killSelf[c] /\ cur[c] \in Users
      PROVE  Asking(c)
  <2> DEFINE r == Request("Dead", "None", FALSE, TRUE)
  <2>1. r \in Requests /\ "exit" \in ResumePoints
    BY RequestTypes, Zenon DEF ResumePoints
  <2>2. /\ StartSwitch(c, r, "exit") /\ cur[c] \in Users
        /\ pc[c] \in {"run", "release", "drop"}
    BY <1>5, Zenon DEF ThreadDestroySelf, InSyscall, ExitFinish, ReleaseGroup, LeaveExit
  <2>3. UNCHANGED <<gen, state, alive, wakeReason, wokenBy, ready, timeouts, waits, cur, nxt, old,
                    arg, waker, killSelf>>
    BY <1>5, Zenon DEF ThreadDestroySelf, ExitFinish, ReleaseGroup
  <2>4. r.must /\ r.post = "None" /\ r.state = "Dead"
    BY Zenon DEF Request
  <2> HIDE DEF r
  <2>5. Asks(c, r, "exit")
    BY <2>2, <2>3, <2>4, Zenon DEF Asks
  <2> QED
    BY <1>2, <2>1, <2>5, Zenon
<1>6. ASSUME NEW post \in {"None", "SetTimeout"}, ThreadSuspend(c, post) \/ WaitForEvent(c, post)
      PROVE  Asking(c)
  <2> DEFINE r == Request("Suspended", post, FALSE, TRUE)
  <2>1. r \in Requests /\ {"sleep", "suspend", "wait"} \subseteq ResumePoints
    BY RequestTypes, Zenon DEF ResumePoints
  <2>2. \E p \in {"sleep", "suspend", "wait"} : Asks(c, r, p)
    BY <1>6, Zenon DEF ThreadSuspend, WaitForEvent, InSyscall, Asks, Request
  <2> QED
    BY <1>2, <2>1, <2>2, Zenon
<1>7. CASE ExitInterrupt(c) /\ ~alive[cur[c]]
  <2> DEFINE r == Request("Dead", "None", TRUE, TRUE)
  <2>1. r \in Requests /\ "exit" \in ResumePoints /\ cur[c] \in Users
    BY <1>0, <1>7, RequestTypes, Zenon DEF ResumePoints
  <2>2. Asks(c, r, "exit")
    BY <1>7, <2>1, Zenon DEF ExitInterrupt, InterruptsOpen, Asks, Request
  <2> QED
    BY <1>2, <2>1, <2>2, Zenon
<1> QED
  BY <1>3, <1>4, <1>5, <1>6, <1>7, Zenon

(***************************************************************************)
(* The handlers and syscalls that only move labels, references, the list   *)
(* of a thread group or the local apic.                                    *)
(***************************************************************************)
LEMMA QuietStep ==
  ASSUME TypeOK, NEW c \in Cpus, pc[c] \in Exiting /\ killSelf[c] => cur[c] \in Users,
         \/ NoAvailableThreads(c) \/ DropStaleRef(c) \/ TimerLock(c) \/ WakeExpired(c)
         \/ TimerReturn(c) \/ RemoveThread(c) \/ ExitInner(c) \/ TimerInterrupt(c) \/ Signal(c)
         \/ ExitFinish(c) /\ (pc[c] = "kill" \/ ~killSelf[c])
         \/ ReleaseGroup(c) /\ ~killSelf[c]
         \/ ReleaseLast(c)
         \/ ExitInterrupt(c) /\ alive[cur[c]]
         \/ \E g \in Groups : ThreadGroupExit(c, g) \/ ThreadGroupDrop(c, g) \/ ExitInnerDrops(c, g)
  PROVE  OthersKept(c) /\ Quiet(c)
<1> USE DEF threadVars, queueVars, switchVars, localVars, apicVars, Goto, Exiting, Emptying
<1>1. CASE NoAvailableThreads(c)
  <2>1. OthersKept(c) /\ pc'[c] # "wake"
    BY <1>1, Zenon DEF NoAvailableThreads, OthersKept, Elsewhere, TypeOK
  <2>2. WakingRefs' \subseteq WakingRefs
    BY <1>1, <2>1, AddsNoRef, Zenon DEF NoAvailableThreads, OthersKept
  <2> QED
    BY <1>1, <2>1, <2>2, Zenon DEF NoAvailableThreads, Quiet, TypeOK
<1>2. CASE DropStaleRef(c) \/ TimerLock(c) \/ TimerReturn(c) \/ RemoveThread(c) \/ TimerInterrupt(c)
  <2>1. OthersKept(c) /\ pc'[c] \in {"run", "timer", "lockq"}
    BY <1>2, Zenon DEF DropStaleRef, TimerLock, TimerReturn, RemoveThread, TimerInterrupt, OthersKept,
                       Elsewhere, TypeOK
  <2>2. UNCHANGED <<gen, state, alive, wakeReason, where, wokenBy, cur, req, nxt, old, ready, waits,
                    timeouts>>
    BY <1>2, Zenon DEF DropStaleRef, TimerLock, TimerReturn, RemoveThread, TimerInterrupt
  <2>3. WakingRefs' \subseteq WakingRefs
    BY <2>1, <2>2, AddsNoRef, Zenon DEF OthersKept
  <2>4. pc[c] \in {"wake", "lockq", "timer", "remove", "run"}
    BY <1>2, Zenon DEF DropStaleRef, TimerLock, TimerReturn, RemoveThread, TimerInterrupt, InterruptsOpen
  <2> QED
    BY <2>1, <2>2, <2>3, <2>4, Zenon DEF Quiet
<1>3. CASE WakeExpired(c) \/ Signal(c)
  <2>1. PICK r \in waits \cup timeouts :
          /\ waits' \cup timeouts' \subseteq waits \cup timeouts
          /\ arg' = [arg EXCEPT ![c] = r]
    BY <1>3, Zenon DEF WakeExpired, Signal, StartWake
  <2>2. OthersKept(c) /\ pc'[c] = "wake" /\ arg'[c] = r
    BY <1>3, <2>1, Zenon DEF WakeExpired, Signal, StartWake, OthersKept, Elsewhere, TypeOK
  <2>3. WakingRefs' \subseteq WakingRefs
    BY <2>1, <2>2, TakesRef, Zenon DEF OthersKept
  <2>4. /\ pc[c] \in {"timer", "run"}
        /\ UNCHANGED <<gen, state, alive, wakeReason, where, wokenBy, cur, req, nxt, old, ready>>
    BY <1>3, Zenon DEF WakeExpired, Signal, InSyscall
  <2> QED
    BY <2>2, <2>3, <2>4, Zenon DEF Quiet
<1>4. CASE ExitInner(c)
  <2>1. OthersKept(c) /\ pc'[c] \in Emptying /\ pc[c] \in Emptying
    BY <1>4, Zenon DEF ExitInner, OthersKept, Elsewhere, TypeOK
  <2>2. WakingRefs' \subseteq WakingRefs
    BY <1>4, <2>1, AddsNoRef, Zenon DEF ExitInner, OthersKept
  <2>3. killSelf'[c] => cur[c] \in Users
    <3>1. PICK t \in members[dying[c]] :
            killSelf' = [killSelf EXCEPT ![c] = killSelf[c] \/ (t = cur[c] /\ pc[c] = "kill")]
      BY <1>4, Zenon DEF ExitInner
    <3>2. t \in Users
      BY <3>1, Zenon DEF TypeOK
    <3> QED
      BY <2>1, <3>1, <3>2, Zenon DEF TypeOK
  <2> QED
    BY <1>4, <2>1, <2>2, <2>3, IdleNotKilled, Zenon DEF ExitInner, Quiet
<1>5. CASE \/ ExitFinish(c) /\ (pc[c] = "kill" \/ ~killSelf[c])
           \/ ReleaseGroup(c) /\ ~killSelf[c]
           \/ ReleaseLast(c)
  <2>1. PICK label \in {"run", "release", "drop"} : pc' = [pc EXCEPT ![c] = label]
    BY <1>5, Zenon DEF ExitFinish, ReleaseGroup, ReleaseLast, LeaveExit
  <2>2. UNCHANGED <<gen, state, alive, wakeReason, where, wokenBy, cur, req, nxt, old, ready, waits,
                    timeouts, arg, waker, killSelf>>
    BY <1>5, Zenon DEF ExitFinish, ReleaseGroup, ReleaseLast, LeaveExit
  <2>3. pc[c] \in Exiting
    BY <1>5, Zenon DEF ExitFinish, ReleaseGroup, ReleaseLast
  <2>4. OthersKept(c) /\ pc'[c] = label
    BY <2>1, <2>2, Zenon DEF OthersKept, Elsewhere, TypeOK
  <2>5. WakingRefs' \subseteq WakingRefs
    BY <2>1, <2>2, <2>4, AddsNoRef, Zenon DEF OthersKept
  <2> QED
    BY <2>1, <2>2, <2>3, <2>4, <2>5, Zenon DEF Quiet
<1>6. CASE ExitInterrupt(c) /\ alive[cur[c]]
  <2>1. OthersKept(c) /\ pc'[c] = "run"
    BY <1>6, Zenon DEF ExitInterrupt, InterruptsOpen, OthersKept, Elsewhere
  <2>2. WakingRefs' \subseteq WakingRefs
    BY <1>6, <2>1, AddsNoRef, Zenon DEF ExitInterrupt, OthersKept
  <2> QED
    BY <1>6, <2>1, <2>2, Zenon DEF ExitInterrupt, InterruptsOpen, Quiet
<1>7. ASSUME NEW g \in Groups, ThreadGroupExit(c, g) \/ ThreadGroupDrop(c, g)
      PROVE  OthersKept(c) /\ Quiet(c)
  <2>1. PICK label \in {"kill", "drop"} : pc' = [pc EXCEPT ![c] = label]
    BY <1>7, Zenon DEF ThreadGroupExit, ThreadGroupDrop
  <2>2. /\ pc[c] = "run" /\ killSelf' = [killSelf EXCEPT ![c] = FALSE]
        /\ UNCHANGED <<gen, state, alive, wakeReason, where, wokenBy, cur, req, nxt, old, ready, waits,
                       timeouts, arg, waker>>
    BY <1>7, Zenon DEF ThreadGroupExit, ThreadGroupDrop, InSyscall
  <2>3. OthersKept(c) /\ pc'[c] = label /\ ~killSelf'[c]
    BY <2>1, <2>2, Zenon DEF OthersKept, Elsewhere, TypeOK
  <2>4. WakingRefs' \subseteq WakingRefs
    BY <2>1, <2>2, <2>3, AddsNoRef, Zenon DEF OthersKept
  <2> QED
    BY <2>1, <2>2, <2>3, <2>4, Zenon DEF Quiet
<1>8. ASSUME NEW g \in Groups, ExitInnerDrops(c, g) PROVE OthersKept(c) /\ Quiet(c)
  <2>1. /\ pc[c] \in Emptying /\ \A d \in Cpus : alive'[d] = alive[d]
        /\ UNCHANGED <<gen, state, wakeReason, where, wokenBy, cur, req, nxt, old, ready, waits,
                       timeouts, arg, waker, killSelf, pc>>
    BY <1>8, IdleNotKilled, Zenon DEF ExitInnerDrops
  <2>2. OthersKept(c)
    BY <2>1, Zenon DEF OthersKept, Elsewhere
  <2>3. WakingRefs' \subseteq WakingRefs
    BY <2>1, <2>2, AddsNoRef, Zenon DEF OthersKept
  <2> QED
    BY <2>1, <2>2, <2>3, Zenon DEF Quiet
<1> QED
  BY <1>1, <1>2, <1>3, <1>4, <1>5, <1>6, <1>7, <1>8, Zenon

-----------------------------------------------------------------------------
(* What a cpu asks for                                                     *)

(***************************************************************************)
(* Idle threads are never killed, and suspended at most before their first *)
(* switch.  Only a caller that cannot be an idle thread unwraps the result *)
(* of a switch, and only such a caller suspends or kills itself.  Nobody   *)
(* wakes an idle thread.                                                   *)
(***************************************************************************)
AsksRightly(c) ==
  /\ req[c].post = "SetTimeout" => req[c].state = "Suspended"
  /\ req[c].state # "Ready" => req[c].must
  /\ pc[c] \in {"next", "old"} /\ req[c].must => cur[c] \in Users
  /\ pc[c] \in Exiting /\ killSelf[c] => cur[c] \in Users
  /\ pc[c] = "insert" => arg[c].thread \in Users

SwitchInv ==
  /\ \A c \in Cpus : alive[c] /\ (gen[c] = 0 \/ state[c] \in {"Running", "Ready"})
  /\ \A c \in Cpus : AsksRightly(c)

CpuStep(c) ==
  \/ KernelStep(c) \/ TimerInterrupt(c) \/ ExitInterrupt(c) \/ Syscall(c)
  \/ \E g \in Groups : ThreadGroupDrop(c, g)

(***************************************************************************)
(* Every step is of one of the three kinds.                                *)
(***************************************************************************)
LEMMA KindOfStep ==
  ASSUME TypeOK, SwitchInv, NEW c \in Cpus, CpuStep(c)
  PROVE  StepOf(c)
<1>1. /\ \A d \in Cpus : alive[d]
      /\ pc[c] \in Exiting /\ killSelf[c] => cur[c] \in Users
  BY Zenon DEF SwitchInv, AsksRightly
<1>2. ASSUME Touches(c) PROVE StepOf(c)
  BY <1>2, TouchingKept, Zenon DEF StepOf
<1>3. ASSUME Asking(c) PROVE StepOf(c)
  BY <1>3, Zenon DEF Asking, StepOf
<1>4. ASSUME OthersKept(c), Quiet(c) PROVE StepOf(c)
  BY <1>4, Zenon DEF StepOf
<1>5. CASE ExitInterrupt(c)
  BY <1>1, <1>3, <1>4, <1>5, AskingStep, QuietStep, Zenon
<1>6. CASE ExitFinish(c) \/ ReleaseGroup(c)
  <2>1. pc[c] \in Exiting /\ (ExitFinish(c) => pc[c] \in {"kill", "drop"})
    BY <1>6, Zenon DEF ExitFinish, ReleaseGroup, Exiting, Emptying
  <2> QED
    BY <1>1, <1>3, <1>4, <1>6, <2>1, AskingStep, QuietStep, Zenon
<1>7. CASE KernelStep(c)
  BY <1>1, <1>2, <1>3, <1>4, <1>6, <1>7, AskingStep, QuietStep, Zenon DEF KernelStep, Touches
<1>8. CASE Syscall(c)
  BY <1>1, <1>2, <1>3, <1>4, <1>8, AskingStep, QuietStep, Zenon DEF Syscall, Touches
<1>9. CASE TimerInterrupt(c) \/ \E g \in Groups : ThreadGroupDrop(c, g)
  BY <1>1, <1>4, <1>9, QuietStep, Zenon
<1> QED
  BY <1>5, <1>7, <1>8, <1>9, Zenon DEF CpuStep

(***************************************************************************)
(* It holds when the cpus start.                                           *)
(***************************************************************************)
LEMMA SwitchInit == Init => SwitchInv
<1> SUFFICES ASSUME Init PROVE SwitchInv
  BY Zenon
<1>1. \A c \in Cpus : alive[c] /\ gen[c] = 0
  BY SchedAssumption, ThreadKinds, Zenon DEF Init
<1>2. \A c \in Cpus : pc[c] = "run" /\ req[c] = IdleRequest
  BY Zenon DEF Init
<1> QED
  BY <1>1, <1>2 DEF SwitchInv, AsksRightly, IdleRequest, Request, Exiting, Emptying

(***************************************************************************)
(* A step that touches no request, and no status word of an idle thread.   *)
(***************************************************************************)
LEMMA SwitchFrame ==
  ASSUME TypeOK, SwitchInv, NEW c \in Cpus, OthersKept(c),
         \A d \in Cpus : alive'[d] = alive[d] /\ gen'[d] = gen[d] /\ state'[d] = state[d],
         req'[c] = req[c], cur'[c] = cur[c],
         pc'[c] \in {"next", "old"} => pc[c] \in {"next", "old"},
         pc'[c] \in Exiting /\ killSelf'[c] => cur[c] \in Users, pc'[c] # "insert"
  PROVE  SwitchInv'
<1>1. \A d \in Cpus : d # c => (AsksRightly(d)' <=> AsksRightly(d))
  BY Zenon DEF AsksRightly, OthersKept, Elsewhere
<1>2. AsksRightly(c)'
  BY Zenon DEF SwitchInv, AsksRightly
<1> QED
  BY <1>1, <1>2, Zenon DEF SwitchInv

(***************************************************************************)
(* A step that sets the status word of a thread, an idle thread's only to  *)
(* Running or Ready, or a user thread's.                                   *)
(***************************************************************************)
LEMMA SwitchStatus ==
  ASSUME TypeOK, SwitchInv, NEW c \in Cpus, OthersKept(c), NEW t \in Threads, NEW s,
         SetState(t, s), t \in Users \/ s \in {"Running", "Ready"},
         UNCHANGED <<alive, req>>, pc'[c] \notin {"next", "old", "kill", "release", "drop"},
         pc'[c] = "insert" => arg'[c].thread \in Users
  PROVE  SwitchInv'
<1>1. \A d \in Cpus : d \in Threads
  BY ThreadKinds, Zenon
<1>2. /\ state'[t] = s
      /\ \A u \in Threads : u # t => state'[u] = state[u] /\ gen'[u] = gen[u]
  BY Zenon DEF SetState, TypeOK
<1>3. \A d \in Cpus : gen'[d] = 0 \/ state'[d] \in {"Running", "Ready"}
  BY <1>1, <1>2, SchedAssumption, Zenon DEF SwitchInv
<1>4. \A d \in Cpus : d # c => (AsksRightly(d)' <=> AsksRightly(d))
  BY Zenon DEF AsksRightly, OthersKept, Elsewhere
<1>5. AsksRightly(c)'
  BY Zenon DEF SwitchInv, AsksRightly, Exiting, Emptying
<1> QED
  BY <1>3, <1>4, <1>5, Zenon DEF SwitchInv

(***************************************************************************)
(* Every step preserves it.                                                *)
(***************************************************************************)
LEMMA SwitchStep == TypeOK /\ Started /\ SwitchInv /\ [Next]_vars => SwitchInv'
<1> SUFFICES ASSUME TypeOK, Started, SwitchInv, [Next]_vars PROVE SwitchInv'
  BY Zenon
<1> USE DEF threadVars, queueVars, switchVars, localVars, apicVars, Goto
<1>1. CASE UNCHANGED vars
  BY <1>1, Zenon DEF vars, SwitchInv, AsksRightly
<1>2. CASE Next
  <2>1. PICK c \in Cpus : StepOf(c)
    BY <1>2, KindOfStep, Zenon DEF Next, CpuStep
  <2>2. OthersKept(c)
    BY <2>1, Zenon DEF StepOf
  <2>3. CASE Quiet(c)
    BY <2>2, <2>3, SwitchFrame, Zenon DEF Quiet
  <2>4. ASSUME NEW r \in Requests, NEW p \in ResumePoints, Asks(c, r, p) PROVE SwitchInv'
    <3>1. pc'[c] = "next" /\ req'[c] = r /\ UNCHANGED <<alive, gen, state, cur>>
      BY <2>4, Zenon DEF Asks, StartSwitch, TypeOK
    <3>2. \A d \in Cpus : d # c => (AsksRightly(d)' <=> AsksRightly(d))
      BY <2>2, Zenon DEF AsksRightly, OthersKept, Elsewhere
    <3>3. AsksRightly(c)'
      BY <2>4, <3>1, Zenon DEF Asks, AsksRightly, Exiting, Emptying
    <3> QED
      BY <3>1, <3>2, <3>3, Zenon DEF SwitchInv
  <2>5. CASE GetNextThread(c) \/ PostSwitchHandler(c) \/ SetTimeout(c) \/ InsertWoken(c)
    <3>1. /\ pc'[c] \in {"old", "settimeout", "run", "timer", "panic"} /\ (pc'[c] = "old" => pc[c] = "next")
          /\ UNCHANGED <<alive, gen, state, req, cur>>
      BY <2>5, Zenon DEF GetNextThread, PostSwitchHandler, SetTimeout, InsertWoken, ReturnToThread, TypeOK
    <3> QED
      BY <2>2, <3>1, SwitchFrame, Zenon DEF Exiting, Emptying
  <2>6. CASE SetOldState(c)
    <3>1. cur[c] \in Threads /\ req[c] \in Requests
      BY Zenon DEF TypeOK
    <3>2. req[c].state = "Ready" \/ cur[c] \in Users
      BY <2>6, <3>1, Zenon DEF SetOldState, SwitchInv, AsksRightly
    <3>3. pc'[c] = "new" /\ UNCHANGED <<alive, req>> /\ SetState(cur[c], req[c].state)
      BY <2>6, Zenon DEF SetOldState, TypeOK
    <3> QED
      BY <2>2, <3>1, <3>2, <3>3, SwitchStatus, Zenon
  <2>7. CASE SwitchToNew(c)
    <3>1. nxt[c] \in Threads /\ pc'[c] = "post"
      BY <2>7, Zenon DEF SwitchToNew, TypeOK
    <3> QED
      BY <2>2, <2>7, <3>1, SwitchStatus, Zenon DEF SwitchToNew
  <2>8. CASE GetThreadAsReady(c)
    <3>1. arg[c].thread \in Threads /\ pc'[c] = "insert" /\ arg' = arg
      BY <2>8, Zenon DEF GetThreadAsReady, TypeOK, ThreadRefs
    <3>2. /\ state[arg[c].thread] = "Suspended" /\ gen[arg[c].thread] = arg[c].gen
          /\ arg[c].gen > 0
      BY <2>8, Zenon DEF GetThreadAsReady, IsCurrent, Started, RefsStarted
    <3>3. arg[c].thread \notin Cpus
      BY <3>2 DEF SwitchInv
    <3>4. arg[c].thread \in Users
      BY <3>1, <3>3, Zenon DEF Threads
    <3> QED
      BY <2>2, <2>8, <3>1, <3>4, SwitchStatus, Zenon DEF GetThreadAsReady
  <2>9. ASSUME NEW t \in Users, ThreadResume(c, t) \/ ThreadDestroyOther(c, t) PROVE SwitchInv'
    <3>1. t \in Threads /\ pc'[c] \in {"insert", "remove"} /\ arg'[c].thread \in Users
      <4>1. pc' = [pc EXCEPT ![c] = "insert"] \/ pc' = [pc EXCEPT ![c] = "remove"]
        BY <2>9, Zenon DEF ThreadResume, ThreadDestroyOther, Goto
      <4>2. arg'[c] = CurrentRef(t)
        BY <2>9, Zenon DEF ThreadResume, ThreadDestroyOther, TypeOK
      <4>3. CurrentRef(t).thread = t
        BY Zenon DEF CurrentRef
      <4> QED
        BY <4>1, <4>2, <4>3, ThreadKinds, Zenon DEF TypeOK
    <3>2. /\ SetState(t, "Ready") \/ SetState(t, "Dead")
          /\ UNCHANGED <<alive, req>>
      BY <2>9, Zenon DEF ThreadResume, ThreadDestroyOther
    <3> QED
      BY <2>2, <3>1, <3>2, SwitchStatus, Zenon
  <2>10. ASSUME NEW t \in Users, NEW g \in Groups, NEW start \in {"Ready", "Suspended"},
                ThreadNew(c, t, g, start)
         PROVE  SwitchInv'
    <3>1. t \in Threads /\ pc'[c] = "run"
      BY <2>10, ThreadKinds, Zenon DEF ThreadNew, InSyscall
    <3> QED
      BY <2>2, <2>10, <3>1, SwitchStatus, Zenon DEF ThreadNew
  <2> QED
    BY <2>1, <2>3, <2>4, <2>5, <2>6, <2>7, <2>8, <2>9, <2>10, Zenon DEF StepOf, Touches
<1> QED
  BY <1>1, <1>2, Zenon

-----------------------------------------------------------------------------
(* References name suspensions                                             *)

(***************************************************************************)
(* The cpu of thread t has taken its future reference, or will take its    *)
(* current one, and has not yet set its status to Suspended.               *)
(***************************************************************************)
Suspends(t) ==
  \E c \in Cpus : /\ cur[c] = t /\ t \in Users
                  /\ pc[c] \in {"next", "old", "panic"} /\ req[c].state = "Suspended"

(***************************************************************************)
(* A reference is at most one generation ahead of its thread, and then the *)
(* thread is about to be suspended; in its own generation the thread is.   *)
(***************************************************************************)
NamesSuspension(r) ==
  /\ r.gen <= gen[r.thread] + 1
  /\ r.gen = gen[r.thread] => state[r.thread] = "Suspended"
  /\ r.gen = gen[r.thread] + 1 => Suspends(r.thread)

RefInv == \A r \in WakingRefs : NamesSuspension(r)

(***************************************************************************)
(* The references are references, and past generation 0.                   *)
(***************************************************************************)
LEMMA WakingTypes ==
  ASSUME TypeOK, Started, NEW r \in WakingRefs
  PROVE  r.thread \in Threads /\ r.gen \in Nat /\ r.gen > 0
<1>1. r \in waits \/ r \in timeouts \/ \E c \in Cpus : pc[c] = "wake" /\ r = arg[c]
  BY Zenon DEF WakingRefs
<1>2. r \in ThreadRefs
  BY <1>1, Zenon DEF TypeOK
<1>3. r.gen > 0
  BY <1>1, Zenon DEF Started, RefsStarted
<1> QED
  BY <1>2, <1>3, Zenon DEF ThreadRefs

(***************************************************************************)
(* A cpu goes on suspending its thread until it has set the status word.   *)
(***************************************************************************)
LEMMA SuspendsKept ==
  ASSUME NEW c \in Cpus, OthersKept(c),
         pc[c] \in {"next", "old", "panic"} /\ req[c].state = "Suspended" =>
           /\ pc'[c] \in {"next", "old", "panic"}
           /\ req'[c] = req[c] /\ cur'[c] = cur[c]
  PROVE  \A t \in Threads : Suspends(t) => Suspends(t)'
<1> SUFFICES ASSUME NEW t \in Threads, Suspends(t) PROVE Suspends(t)'
  BY Zenon
<1>1. PICK d \in Cpus : /\ cur[d] = t /\ t \in Users
                        /\ pc[d] \in {"next", "old", "panic"} /\ req[d].state = "Suspended"
  BY Zenon DEF Suspends
<1>2. cur'[d] = t /\ pc'[d] \in {"next", "old", "panic"} /\ req'[d] = req[d]
  BY <1>1, Zenon DEF OthersKept, Elsewhere
<1> QED
  BY <1>1, <1>2, Zenon DEF Suspends

(***************************************************************************)
(* A step that touches no status word.                                     *)
(***************************************************************************)
LEMMA RefFrame ==
  ASSUME TypeOK, Started, RefInv, UNCHANGED <<gen, state>>,
         \A t \in Threads : Suspends(t) => Suspends(t)',
         \A r \in WakingRefs' : r \in WakingRefs \/ NamesSuspension(r)'
  PROVE  RefInv'
<1> SUFFICES ASSUME NEW r \in WakingRefs', r \in WakingRefs PROVE NamesSuspension(r)'
  BY Zenon DEF RefInv
<1>1. r.thread \in Threads /\ NamesSuspension(r)
  BY WakingTypes, Zenon DEF RefInv
<1> QED
  BY <1>1, Zenon DEF NamesSuspension

(***************************************************************************)
(* A step that sets the status word of a thread that is not running: no    *)
(* reference is ahead of such a thread.                                    *)
(***************************************************************************)
LEMMA RefStatus ==
  ASSUME TypeOK, Started, Placed, RefInv, NEW t \in Threads, NEW s, SetState(t, s),
         state[t] # "Running", WakingRefs' \subseteq WakingRefs,
         \A u \in Threads : Suspends(u) => Suspends(u)'
  PROVE  RefInv'
<1> SUFFICES ASSUME NEW r \in WakingRefs' PROVE NamesSuspension(r)'
  BY Zenon DEF RefInv
<1>1. r \in WakingRefs /\ r.thread \in Threads /\ r.gen \in Nat /\ NamesSuspension(r)
  BY WakingTypes, Zenon DEF RefInv
<1>2. /\ gen'[t] = gen[t] + 1
      /\ \A u \in Threads : u # t => gen'[u] = gen[u] /\ state'[u] = state[u]
      /\ \A u \in Threads : gen[u] \in Nat
  BY Zenon DEF SetState, TypeOK
<1>3. CASE r.thread # t
  BY <1>1, <1>2, <1>3, Zenon DEF NamesSuspension
<1>4. CASE r.thread = t
  <2>1. ASSUME Suspends(t) PROVE FALSE
    <3>1. PICK d \in Cpus : cur[d] = t /\ t \in Users /\ pc[d] # "new"
      BY <2>1, Zenon DEF Suspends
    <3>2. IsRunning(t) /\ t \notin Cpus
      BY <3>1, SchedAssumption, Zenon DEF Placed, RunningOwned, OwnsCurrent
    <3> QED
      BY <3>2, Zenon DEF IsRunning
  <2>2. r.gen <= gen[t]
    BY <1>1, <1>2, <1>4, <2>1 DEF NamesSuspension
  <2>3. r.gen # gen'[t] /\ r.gen # gen'[t] + 1 /\ r.gen <= gen'[t] + 1
    BY <1>1, <1>2, <2>2
  <2> QED
    BY <1>4, <2>3, Zenon DEF NamesSuspension
<1> QED
  BY <1>3, <1>4, Zenon

(***************************************************************************)
(* The cpu of a running thread sets its status word: a reference that was  *)
(* ahead of the thread was taken by this very switch, which suspends it.   *)
(***************************************************************************)
LEMMA RefSetOld ==
  ASSUME TypeOK, Started, Placed, RefInv, NEW c \in Cpus, OthersKept(c), SetOldState(c)
  PROVE  RefInv'
<1>o. PICK o \in Threads : o = cur[c]
  BY Zenon DEF TypeOK
<1>1. /\ pc[c] = "old" /\ pc'[c] = "new" /\ SetState(o, req[c].state)
      /\ UNCHANGED <<cur, req, waits, timeouts>>
  BY <1>o, Zenon DEF SetOldState, Goto, TypeOK, queueVars, switchVars
<1>2. WakingRefs' \subseteq WakingRefs
  BY <1>1, AddsNoRef, Zenon DEF OthersKept
<1>3. /\ gen'[o] = gen[o] + 1 /\ state'[o] = req[c].state
      /\ \A u \in Threads : u # o => gen'[u] = gen[u] /\ state'[u] = state[u]
      /\ \A u \in Threads : gen[u] \in Nat
  BY <1>1, Zenon DEF SetState, TypeOK
<1>4. \A d \in Cpus : d # c => cur[d] # o \/ pc[d] = "new"
  BY <1>o, <1>1, Zenon DEF Placed, RunningOwned, OwnsCurrent
<1>5. Suspends(o) => req[c].state = "Suspended"
  BY <1>1, <1>4, Zenon DEF Suspends
<1>6. ASSUME NEW u \in Threads, u # o, Suspends(u) PROVE Suspends(u)'
  <2>1. PICK d \in Cpus : /\ cur[d] = u /\ u \in Users
                          /\ pc[d] \in {"next", "old", "panic"} /\ req[d].state = "Suspended"
    BY <1>6, Zenon DEF Suspends
  <2>2. d # c
    BY <1>o, <1>6, <2>1, Zenon
  <2>3. cur'[d] = u /\ pc'[d] = pc[d] /\ req'[d] = req[d]
    BY <2>1, <2>2, Zenon DEF OthersKept, Elsewhere
  <2> QED
    BY <2>1, <2>3, Zenon DEF Suspends
<1> SUFFICES ASSUME NEW r \in WakingRefs' PROVE NamesSuspension(r)'
  BY Zenon DEF RefInv
<1>7. r \in WakingRefs /\ r.thread \in Threads /\ r.gen \in Nat /\ NamesSuspension(r)
  BY <1>2, WakingTypes, Zenon DEF RefInv
<1>8. CASE r.thread # o
  BY <1>3, <1>6, <1>7, <1>8, Zenon DEF NamesSuspension
<1>9. CASE r.thread = o
  <2>1. /\ r.gen <= gen'[o] + 1 /\ r.gen # gen'[o] + 1
        /\ r.gen = gen'[o] => r.gen = gen[o] + 1
    BY <1>3, <1>7, <1>9 DEF NamesSuspension
  <2>2. r.gen = gen'[o] => state'[o] = "Suspended"
    BY <1>3, <1>5, <1>7, <1>9, <2>1, Zenon DEF NamesSuspension
  <2> QED
    BY <1>9, <2>1, <2>2, Zenon DEF NamesSuspension
<1> QED
  BY <1>8, <1>9, Zenon

(***************************************************************************)
(* Every step preserves it.                                                *)
(***************************************************************************)
LEMMA RefStep ==
  TypeOK /\ Started /\ Placed /\ SwitchInv /\ RefInv /\ [Next]_vars => RefInv'
<1> SUFFICES ASSUME TypeOK, Started, Placed, SwitchInv, RefInv, [Next]_vars PROVE RefInv'
  BY Zenon
<1> USE DEF threadVars, queueVars, switchVars, localVars, apicVars, Goto
<1>1. CASE UNCHANGED vars
  <2>1. UNCHANGED <<gen, state, waits, timeouts, arg, pc, cur, req>>
    BY <1>1, Zenon DEF vars
  <2>2. WakingRefs' = WakingRefs
    BY <2>1, Zenon DEF WakingRefs
  <2>3. \A t \in Threads : Suspends(t) => Suspends(t)'
    BY <2>1, Zenon DEF Suspends
  <2> QED
    BY <2>1, <2>2, <2>3, RefFrame, Zenon
<1>2. CASE Next
  <2>1. PICK c \in Cpus : StepOf(c)
    BY <1>2, KindOfStep, Zenon DEF Next, CpuStep
  <2>2. OthersKept(c) /\ Elsewhere(c)
    BY <2>1, Zenon DEF StepOf, OthersKept
  <2>3. CASE Quiet(c)
    <3>1. /\ UNCHANGED <<gen, state, req, cur>> /\ WakingRefs' \subseteq WakingRefs
          /\ pc[c] \notin {"old", "panic"}
          /\ pc[c] = "next" => pc'[c] = IF req[c].must THEN "panic" ELSE "run"
      BY <2>3, Zenon DEF Quiet
    <3>2. req[c].state = "Suspended" => req[c].must
      BY Zenon DEF SwitchInv, AsksRightly
    <3>3. \A t \in Threads : Suspends(t) => Suspends(t)'
      BY <2>2, <3>1, <3>2, SuspendsKept, Zenon
    <3> QED
      BY <3>1, <3>3, RefFrame, Zenon
  <2>4. ASSUME NEW q \in Requests, NEW p \in ResumePoints, Asks(c, q, p) PROVE RefInv'
    <3>1. /\ pc'[c] = "next" /\ req'[c] = q /\ UNCHANGED <<gen, state, cur, timeouts, arg>>
          /\ pc[c] \notin {"next", "old", "panic"}
      BY <2>4, Zenon DEF Asks, StartSwitch, TypeOK
    <3>2. \A t \in Threads : Suspends(t) => Suspends(t)'
      BY <2>2, <3>1, SuspendsKept, Zenon
    <3>3. CASE waits' = waits
      <4>1. WakingRefs' \subseteq WakingRefs
        BY <2>2, <3>1, <3>3, AddsNoRef, Zenon
      <4> QED
        BY <3>1, <3>2, <4>1, RefFrame, Zenon
    <3>4. CASE waits' = waits \cup {FutureRef(cur[c])} /\ q.state = "Suspended"
      <4>1. cur[c] \in Users /\ gen[cur[c]] \in Nat
        BY <2>4, <3>4, Zenon DEF Asks, TypeOK
      <4>2. Suspends(cur[c])'
        BY <3>1, <3>4, <4>1, Zenon DEF Suspends
      <4>3. ASSUME NEW r \in WakingRefs', r \notin WakingRefs PROVE NamesSuspension(r)'
        <5>1. r = FutureRef(cur[c])
          BY <2>2, <3>1, <3>4, <4>3, NewRef, Zenon
        <5>2. r.thread = cur[c] /\ r.gen = gen[cur[c]] + 1
          BY <5>1, Zenon DEF FutureRef
        <5>3. cur'[c] = cur[c] /\ gen' = gen
          BY <3>1, Zenon
        <5> QED
          BY <4>1, <4>2, <5>2, <5>3 DEF NamesSuspension
      <4> QED
        BY <3>1, <3>2, <4>3, RefFrame, Zenon
    <3> QED
      BY <2>4, <3>3, <3>4, Zenon DEF Asks
  <2>5. CASE GetNextThread(c) \/ PostSwitchHandler(c) \/ InsertWoken(c)
    <3>1. /\ pc'[c] # "wake" /\ (pc[c] = "next" => pc'[c] = "old") /\ pc[c] \notin {"old", "panic"}
          /\ UNCHANGED <<gen, state, req, cur, waits, timeouts>>
      BY <2>5, Zenon DEF GetNextThread, PostSwitchHandler, InsertWoken, ReturnToThread, TypeOK
    <3>2. \A t \in Threads : Suspends(t) => Suspends(t)'
      BY <2>2, <3>1, SuspendsKept, Zenon
    <3> QED
      BY <2>2, <3>1, <3>2, AddsNoRef, RefFrame, Zenon
  <2>6. CASE SetTimeout(c)
    <3>1. /\ pc'[c] # "wake" /\ pc[c] = "settimeout" /\ UNCHANGED <<gen, state, req, cur, waits>>
      BY <2>6, Zenon DEF SetTimeout, ReturnToThread, TypeOK
    <3>2. \A t \in Threads : Suspends(t) => Suspends(t)'
      BY <2>2, <3>1, SuspendsKept, Zenon
    <3>3. CASE timeouts' = timeouts
      BY <2>2, <3>1, <3>2, <3>3, AddsNoRef, RefFrame, Zenon
    <3>4. CASE state[old[c]] = "Suspended" /\ timeouts' = timeouts \cup {CurrentRef(old[c])}
      <4>1. gen[old[c]] \in Nat
        BY Zenon DEF TypeOK
      <4>2. ASSUME NEW r \in WakingRefs', r \notin WakingRefs PROVE NamesSuspension(r)'
        <5>1. r = CurrentRef(old[c])
          BY <2>2, <3>1, <3>4, <4>2, NewRef, Zenon
        <5>2. r.thread = old[c] /\ r.gen = gen[old[c]]
          BY <5>1, Zenon DEF CurrentRef
        <5> QED
          BY <3>1, <3>4, <4>1, <5>2 DEF NamesSuspension
      <4> QED
        BY <3>1, <3>2, <4>2, RefFrame, Zenon
    <3> QED
      BY <2>6, <3>3, <3>4, Zenon DEF SetTimeout
  <2>7. CASE SetOldState(c)
    BY <2>2, <2>7, RefSetOld, Zenon
  <2>8. ASSUME NEW t \in Threads, NEW s, SetState(t, s), state[t] # "Running",
               pc[c] \notin {"next", "old", "panic"}, pc'[c] # "wake", UNCHANGED <<waits, timeouts>>
        PROVE  RefInv'
    BY <2>2, <2>8, AddsNoRef, SuspendsKept, RefStatus, Zenon
  <2>9. CASE SwitchToNew(c)
    <3>1. nxt[c] \in Threads /\ state[nxt[c]] = "Ready" /\ pc[c] = "new" /\ pc'[c] = "post"
      BY <2>9, Zenon DEF SwitchToNew, Placed, ScheduledOnce, InHand, TypeOK
    <3> QED
      BY <2>8, <2>9, <3>1, Zenon DEF SwitchToNew
  <2>10. CASE GetThreadAsReady(c)
    <3>1. arg[c].thread \in Threads /\ pc[c] = "wake" /\ pc'[c] = "insert"
      BY <2>10, Zenon DEF GetThreadAsReady, TypeOK, ThreadRefs
    <3> QED
      BY <2>8, <2>10, <3>1, Zenon DEF GetThreadAsReady, IsCurrent
  <2>11. ASSUME NEW t \in Users, ThreadResume(c, t) \/ ThreadDestroyOther(c, t) PROVE RefInv'
    <3>1. t \in Threads /\ pc[c] = "run" /\ pc'[c] \in {"insert", "remove"}
      BY <2>11, ThreadKinds, Zenon DEF ThreadResume, ThreadDestroyOther, InSyscall, TypeOK
    <3> QED
      BY <2>8, <2>11, <3>1, Zenon DEF ThreadResume, ThreadDestroyOther
  <2>12. ASSUME NEW t \in Users, NEW g \in Groups, NEW start \in {"Ready", "Suspended"},
                ThreadNew(c, t, g, start)
         PROVE  RefInv'
    <3>1. t \in Threads /\ pc[c] = "run" /\ pc'[c] = "run"
      BY <2>12, ThreadKinds, Zenon DEF ThreadNew, InSyscall
    <3> QED
      BY <2>8, <2>12, <3>1, Zenon DEF ThreadNew
  <2> QED
    BY <2>1, <2>3, <2>4, <2>5, <2>6, <2>7, <2>9, <2>10, <2>11, <2>12, Zenon DEF StepOf, Touches
<1> QED
  BY <1>1, <1>2, Zenon

-----------------------------------------------------------------------------
(* Kills are not lost                                                      *)

(***************************************************************************)
(* The thread cpu c executes, or will once its switch is complete; a cpu   *)
(* that is leaving a killed thread for good no longer counts.              *)
(***************************************************************************)
RunsNext(c) == IF pc[c] \in {"old", "new"} THEN nxt[c] ELSE cur[c]

RunsKilled(c) ==
  ~alive[RunsNext(c)] /\ pc[c] # "panic" /\ ~(pc[c] = "next" /\ req[c].must)

(***************************************************************************)
(* The interrupt is pending, another cpu has still to send it, the cpu     *)
(* itself is exiting the group of its current thread, or it has dropped    *)
(* that group.                                                             *)
(***************************************************************************)
Spared(c) == pc[c] \notin {"old", "new"} /\ cur[c] \in spared

Notified(c) ==
  \/ ipi[c]
  \/ pc[c] \in Exiting /\ killSelf[c]
  \/ Spared(c)
  \/ \E d \in Cpus : d # c /\ pc[d] \in Emptying

KillInv == \A c \in Cpus : RunsKilled(c) => Notified(c)

(***************************************************************************)
(* It holds when the cpus start: every cpu runs its idle thread.           *)
(***************************************************************************)
LEMMA KillInit == Init => KillInv
<1> SUFFICES ASSUME Init PROVE KillInv
  BY Zenon
<1>1. \A c \in Cpus : pc[c] = "run" /\ cur[c] = c /\ alive[c]
  BY SchedAssumption, ThreadKinds, Zenon DEF Init
<1> QED
  BY <1>1, Zenon DEF KillInv, RunsKilled, RunsNext

(***************************************************************************)
(* A step in which nobody is killed, no interrupt is lost and no exit      *)
(* finishes, and after which the cpu is notified if it has to be.          *)
(***************************************************************************)
LEMMA KillFrame ==
  ASSUME TypeOK, KillInv, NEW c \in Cpus, OthersKept(c), alive' = alive, pc[c] \notin Emptying,
         \A d \in Cpus : d # c => ipi'[d] = ipi[d] /\ (Spared(d) => Spared(d)'),
         RunsKilled(c)' => Notified(c)'
  PROVE  KillInv'
<1> SUFFICES ASSUME NEW d \in Cpus, d # c, RunsKilled(d)' PROVE Notified(d)'
  BY Zenon DEF KillInv
<1>1. /\ pc'[d] = pc[d] /\ req'[d] = req[d] /\ nxt'[d] = nxt[d] /\ cur'[d] = cur[d]
      /\ killSelf'[d] = killSelf[d]
  BY Zenon DEF OthersKept, Elsewhere
<1>2. RunsKilled(d)
  BY <1>1, Zenon DEF RunsKilled, RunsNext
<1>3. Notified(d)
  BY <1>2, Zenon DEF KillInv
<1>4. \A e \in Cpus : pc[e] \in Emptying => pc'[e] \in Emptying
  BY Zenon DEF OthersKept, Elsewhere
<1> QED
  BY <1>1, <1>3, <1>4, Zenon DEF Notified

(***************************************************************************)
(* A step that spares nobody, and in which the other cpus keep their       *)
(* thread.                                                                 *)
(***************************************************************************)
LEMMA SparedKept ==
  ASSUME NEW c \in Cpus, OthersKept(c), spared' = spared
  PROVE  \A d \in Cpus : d # c /\ Spared(d) => Spared(d)'
BY Zenon DEF Spared, OthersKept, Elsewhere

(***************************************************************************)
(* A step in which the cpu keeps the thread it executes.                   *)
(***************************************************************************)
LEMMA KillMove ==
  ASSUME TypeOK, KillInv, NEW c \in Cpus, OthersKept(c), pc[c] \notin Exiting,
         UNCHANGED <<alive, ipi>>,
         \A d \in Cpus : d # c /\ Spared(d) => Spared(d)',
         Spared(c) => Spared(c)',
         RunsKilled(c)' => RunsKilled(c)
  PROVE  KillInv'
<1>1. pc[c] \notin Emptying
  BY Zenon DEF Exiting
<1>2. \A e \in Cpus : pc[e] \in Emptying => pc'[e] \in Emptying
  BY <1>1, Zenon DEF OthersKept, Elsewhere
<1>3. Notified(c) => Notified(c)'
  BY <1>2, Zenon DEF Notified
<1> QED
  BY <1>1, <1>3, KillFrame, Zenon DEF KillInv

(***************************************************************************)
(* exit_inner takes a thread off the list: while it runs, every other cpu  *)
(* is notified, and the caller knows when it is a member itself, or has    *)
(* dropped the group.                                                      *)
(***************************************************************************)
LEMMA KillExitInner ==
  ASSUME TypeOK, KillInv, NEW c \in Cpus, ExitInner(c)
  PROVE  KillInv'
<1>1. PICK t \in members[dying[c]] :
        /\ alive' = [alive EXCEPT ![t] = FALSE]
        /\ killSelf' = [killSelf EXCEPT ![c] = killSelf[c] \/ (t = cur[c] /\ pc[c] = "kill")]
        /\ spared' = IF t = cur[c] /\ pc[c] = "drop" THEN spared \cup {t} ELSE spared
  BY Zenon DEF ExitInner
<1>2. pc[c] \in Emptying /\ UNCHANGED <<pc, cur, nxt, req, ipi>>
  BY Zenon DEF ExitInner, switchVars, apicVars
<1>3. cur[c] \in Threads /\ pc[c] \in Exiting /\ pc[c] \notin {"old", "new"}
  BY <1>2, Zenon DEF TypeOK, Exiting, Emptying
<1>4. ASSUME RunsKilled(c)' PROVE Notified(c)'
  <2>1. CASE t = cur[c] /\ pc[c] = "kill"
    <3>1. killSelf'[c]
      BY <1>1, <2>1, Zenon DEF TypeOK
    <3> QED
      BY <1>2, <1>3, <3>1, Zenon DEF Notified
  <2>2. CASE t = cur[c] /\ pc[c] = "drop"
    <3>1. cur[c] \in spared'
      BY <1>1, <2>2, Zenon
    <3> QED
      BY <1>2, <1>3, <3>1, Zenon DEF Notified, Spared
  <2>3. CASE t # cur[c]
    <3>1. alive'[cur[c]] = alive[cur[c]] /\ (killSelf[c] => killSelf'[c]) /\ spared' = spared
      BY <1>1, <1>3, <2>3, Zenon DEF TypeOK
    <3>2. RunsKilled(c)
      BY <1>2, <1>3, <1>4, <3>1, Zenon DEF RunsKilled, RunsNext
    <3>3. Notified(c)
      BY <3>2, Zenon DEF KillInv
    <3> QED
      BY <1>2, <3>1, <3>3, Zenon DEF Notified, Spared
  <2> QED
    BY <1>2, <2>1, <2>2, <2>3, Zenon DEF Emptying
<1>5. ASSUME NEW d \in Cpus, d # c PROVE Notified(d)'
  BY <1>2, <1>5, Zenon DEF Notified
<1> QED
  BY <1>4, <1>5, Zenon DEF KillInv

(***************************************************************************)
(* A group dropped inside exit_inner: the same.                            *)
(***************************************************************************)
LEMMA KillExitInnerDrops ==
  ASSUME TypeOK, KillInv, NEW c \in Cpus, NEW g \in Groups, ExitInnerDrops(c, g)
  PROVE  KillInv'
<1>1. /\ alive' = [t \in Threads |-> alive[t] /\ t \notin members[g]]
      /\ spared' = spared \cup (members[g] \cap {cur[c]})
      /\ ipi' = [d \in Cpus |-> ipi[d] \/ d # c]
      /\ pc[c] \in Emptying /\ UNCHANGED <<pc, cur, nxt, req, killSelf>>
  BY Zenon DEF ExitInnerDrops, switchVars, localVars
<1>2. cur[c] \in Threads /\ pc[c] \notin {"old", "new"}
  BY <1>1, Zenon DEF TypeOK, Emptying
<1>3. ASSUME RunsKilled(c)' PROVE Notified(c)'
  <2>1. CASE cur[c] \in members[g]
    BY <1>1, <1>2, <2>1, Zenon DEF Notified, Spared
  <2>2. CASE cur[c] \notin members[g]
    <3>1. alive[cur[c]] => alive'[cur[c]]
      BY <1>1, <1>2, <2>2, Zenon
    <3>2. RunsKilled(c)
      BY <1>1, <1>2, <1>3, <3>1, Zenon DEF RunsKilled, RunsNext
    <3>3. Notified(c)
      BY <3>2, Zenon DEF KillInv
    <3> QED
      BY <1>1, <3>3, Zenon DEF Notified, Spared
  <2> QED
    BY <2>1, <2>2, Zenon
<1>4. ASSUME NEW d \in Cpus, d # c PROVE Notified(d)'
  BY <1>1, <1>4, Zenon DEF Notified
<1> QED
  BY <1>3, <1>4, Zenon DEF KillInv

(***************************************************************************)
(* A caller that unwraps the result of its switch.                         *)
(***************************************************************************)
LEMMA MustSwitch ==
  ASSUME TypeOK, NEW c \in Cpus, NEW s, NEW post, NEW eoi, NEW p,
         StartSwitch(c, Request(s, post, eoi, TRUE), p)
  PROVE  pc'[c] = "next" /\ req'[c].must
<1>1. pc'[c] = "next" /\ req'[c] = Request(s, post, eoi, TRUE)
  BY Zenon DEF StartSwitch, Goto, TypeOK
<1>2. Request(s, post, eoi, TRUE).must
  BY Zenon DEF Request
<1> QED
  BY <1>1, <1>2, Zenon

(***************************************************************************)
(* The exit is finished: the interrupt is pending at every other cpu.      *)
(***************************************************************************)
LEMMA KillExitFinish ==
  ASSUME TypeOK, KillInv, NEW c \in Cpus, OthersKept(c), ExitFinish(c)
  PROVE  KillInv'
<1>1. /\ pc[c] \in Emptying /\ UNCHANGED <<alive, cur, spared, killSelf>>
      /\ \A d \in Cpus : ipi'[d] = (ipi[d] \/ d # c)
  BY Zenon DEF ExitFinish, localVars
<1>2. ASSUME RunsKilled(c)' PROVE Notified(c)'
  <2>1. CASE pc[c] = "kill"
    <3>1. pc'[c] = "release"
      BY <2>1, Zenon DEF ExitFinish, Goto, TypeOK
    <3>2. RunsKilled(c)
      BY <1>1, <1>2, <2>1, <3>1, Zenon DEF RunsKilled, RunsNext
    <3>3. Notified(c)
      BY <3>2, Zenon DEF KillInv
    <3> QED
      BY <1>1, <3>1, <3>3, Zenon DEF Notified, Spared, Exiting, OthersKept, Elsewhere
  <2>2. CASE pc[c] = "drop" /\ killSelf[c]
    <3>1. pc'[c] = "next" /\ req'[c].must
      BY <2>2, MustSwitch, Zenon DEF ExitFinish, LeaveExit
    <3> QED
      BY <1>2, <3>1, Zenon DEF RunsKilled
  <2>3. CASE pc[c] = "drop" /\ ~killSelf[c]
    <3>1. pc'[c] = "run"
      BY <2>3, Zenon DEF ExitFinish, LeaveExit, Goto, TypeOK
    <3>2. RunsKilled(c)
      BY <1>1, <1>2, <2>3, <3>1, Zenon DEF RunsKilled, RunsNext
    <3>3. ipi[c] \/ cur[c] \in spared \/ \E d \in Cpus : d # c /\ pc[d] \in Emptying
      BY <2>3, <3>2, Zenon DEF KillInv, Notified, Spared
    <3> QED
      BY <1>1, <3>1, <3>3, Zenon DEF Notified, Spared, OthersKept, Elsewhere
  <2> QED
    BY <1>1, <2>1, <2>2, <2>3, Zenon DEF Emptying
<1>3. ASSUME NEW d \in Cpus, d # c PROVE Notified(d)'
  BY <1>1, <1>3, Zenon DEF Notified
<1> QED
  BY <1>2, <1>3, Zenon DEF KillInv

(***************************************************************************)
(* exit drops its reference.                                               *)
(***************************************************************************)
LEMMA KillRelease ==
  ASSUME TypeOK, KillInv, NEW c \in Cpus, OthersKept(c), ReleaseGroup(c) \/ ReleaseLast(c)
  PROVE  KillInv'
<1>1. pc[c] = "release" /\ UNCHANGED <<alive, cur, spared, killSelf, ipi>>
  BY Zenon DEF ReleaseGroup, ReleaseLast, threadVars, switchVars, localVars, apicVars
<1>2. pc[c] \notin Emptying
  BY <1>1, Zenon DEF Emptying
<1>3. ASSUME pc'[c] \in {"run", "drop"}, pc'[c] = "run" => ~killSelf[c], RunsKilled(c)'
      PROVE  Notified(c)'
  <2>1. RunsKilled(c)
    BY <1>1, <1>3, Zenon DEF RunsKilled, RunsNext
  <2>2. Notified(c)
    BY <2>1, Zenon DEF KillInv
  <2> QED
    BY <1>1, <1>3, <2>2, Zenon DEF Notified, Spared, Exiting, Emptying, OthersKept, Elsewhere
<1>4. ASSUME pc'[c] = "next", req'[c].must PROVE ~RunsKilled(c)'
  BY <1>4, Zenon DEF RunsKilled
<1>5. CASE ReleaseGroup(c) /\ killSelf[c]
  BY <1>1, <1>2, <1>4, <1>5, MustSwitch, SparedKept, KillFrame, Zenon DEF ReleaseGroup, LeaveExit
<1>6. CASE ReleaseGroup(c) /\ ~killSelf[c]
  <2>1. pc'[c] = "run"
    BY <1>6, Zenon DEF ReleaseGroup, LeaveExit, Goto, TypeOK
  <2> QED
    BY <1>1, <1>2, <1>3, <1>6, <2>1, SparedKept, KillFrame, Zenon
<1>7. CASE ReleaseLast(c)
  <2>1. pc'[c] = "drop"
    BY <1>7, Zenon DEF ReleaseLast, Goto, TypeOK
  <2> QED
    BY <1>1, <1>2, <1>3, <2>1, SparedKept, KillFrame, Zenon
<1> QED
  BY <1>5, <1>6, <1>7, Zenon

(***************************************************************************)
(* Every step preserves it.                                                *)
(***************************************************************************)
LEMMA KillStep == TypeOK /\ Placed /\ SwitchInv /\ KillInv /\ [Next]_vars => KillInv'
<1> SUFFICES ASSUME TypeOK, Placed, SwitchInv, KillInv, [Next]_vars PROVE KillInv'
  BY Zenon
<1> USE DEF threadVars, queueVars, switchVars, localVars, apicVars, Goto
<1>1. CASE UNCHANGED vars
  <2>1. UNCHANGED <<alive, spared, pc, cur, nxt, req, ipi, killSelf>>
    BY <1>1, Zenon DEF vars
  <2> QED
    BY <2>1, Zenon DEF KillInv, RunsKilled, RunsNext, Notified, Spared
<1>2. CASE Next
  <2>1. PICK c \in Cpus : CpuStep(c)
    BY <1>2, Zenon DEF Next, CpuStep
  <2>2. OthersKept(c)
    BY <2>1, KindOfStep, Zenon DEF StepOf
  <2>3. ASSUME pc[c] \notin {"next", "old", "new", "kill", "release", "drop", "panic"},
               pc'[c] \notin {"old", "new"},
               UNCHANGED <<alive, spared, ipi, cur>>
        PROVE  KillInv'
    <3>1. (RunsKilled(c)' => RunsKilled(c)) /\ (Spared(c) => Spared(c)')
      BY <2>3, Zenon DEF RunsKilled, RunsNext, Spared
    <3>2. pc[c] \notin Exiting
      BY <2>3, Zenon DEF Exiting, Emptying
    <3> QED
      BY <2>2, <2>3, <3>1, <3>2, SparedKept, KillMove, Zenon
  <2>4. ASSUME pc'[c] = "next", req'[c].must, pc[c] = "run", UNCHANGED <<alive, spared>>,
               \A d \in Cpus : d # c => ipi'[d] = ipi[d]
        PROVE  KillInv'
    <3>1. ~RunsKilled(c)' /\ pc[c] \notin Emptying
      BY <2>4, Zenon DEF RunsKilled, Emptying
    <3> QED
      BY <2>2, <2>4, <3>1, SparedKept, KillFrame, Zenon
  <2>5. CASE GetNextThread(c)
    <3>1. PICK i \in 1..Len(ready) : IsFirstLive(i) /\ nxt' = [nxt EXCEPT ![c] = ready[i]]
      BY <2>5, Zenon DEF GetNextThread
    <3>2. /\ alive[nxt'[c]] /\ pc[c] = "next" /\ pc'[c] = "old" /\ UNCHANGED <<alive, spared, ipi>>
      BY <2>5, <3>1, Zenon DEF GetNextThread, IsFirstLive, LivePositions, TypeOK
    <3>3. ~RunsKilled(c)' /\ pc[c] \notin Emptying
      BY <3>2, Zenon DEF RunsKilled, RunsNext, Emptying
    <3> QED
      BY <2>2, <3>2, <3>3, SparedKept, KillFrame, Zenon
  <2>6. CASE NoAvailableThreads(c)
    <3>1. /\ pc[c] = "next" /\ pc'[c] = (IF req[c].must THEN "panic" ELSE "run")
          /\ UNCHANGED <<alive, spared, cur, req, ipi>>
      BY <2>6, Zenon DEF NoAvailableThreads, TypeOK
    <3>2. (RunsKilled(c)' => RunsKilled(c)) /\ (Spared(c) => Spared(c)') /\ pc[c] \notin Exiting
      BY <3>1, Zenon DEF RunsKilled, RunsNext, Spared, Exiting, Emptying
    <3> QED
      BY <2>2, <3>1, <3>2, SparedKept, KillMove, Zenon
  <2>7. CASE SetOldState(c)
    <3>1. /\ pc[c] = "old" /\ pc'[c] = "new" /\ UNCHANGED <<alive, nxt, ipi>>
          /\ spared' = spared \ {cur[c]}
      BY <2>7, Zenon DEF SetOldState, TypeOK
    <3>2. (RunsKilled(c)' => RunsKilled(c)) /\ ~Spared(c) /\ pc[c] \notin Exiting
      BY <3>1, Zenon DEF RunsKilled, RunsNext, Spared, Exiting, Emptying
    <3>3. ASSUME NEW d \in Cpus, d # c, Spared(d) PROVE Spared(d)'
      <4>1. cur[d] # cur[c]
        BY <3>1, <3>3, Zenon DEF Placed, RunningOwned, OwnsCurrent, Spared
      <4> QED
        BY <2>2, <3>1, <3>3, <4>1, Zenon DEF Spared, OthersKept, Elsewhere
    <3> QED
      BY <2>2, <3>1, <3>2, <3>3, KillMove, Zenon
  <2>8. CASE SwitchToNew(c)
    <3>1. pc[c] = "new" /\ pc'[c] = "post" /\ cur'[c] = nxt[c] /\ UNCHANGED <<alive, spared, ipi>>
      BY <2>8, Zenon DEF SwitchToNew, TypeOK
    <3>2. (RunsKilled(c)' => RunsKilled(c)) /\ ~Spared(c) /\ pc[c] \notin Exiting
      BY <3>1, Zenon DEF RunsKilled, RunsNext, Spared, Exiting, Emptying
    <3> QED
      BY <2>2, <3>1, <3>2, SparedKept, KillMove, Zenon
  <2>9. CASE PostSwitchHandler(c) \/ SetTimeout(c)
    BY <2>3, <2>9, Zenon DEF PostSwitchHandler, SetTimeout, ReturnToThread, TypeOK
  <2>10. CASE GetThreadAsReady(c) \/ DropStaleRef(c) \/ InsertWoken(c)
    BY <2>3, <2>10, Zenon DEF GetThreadAsReady, DropStaleRef, InsertWoken, TypeOK
  <2>11. CASE TimerLock(c) \/ TimerReturn(c) \/ RemoveThread(c) \/ TimerInterrupt(c)
    BY <2>3, <2>11, Zenon
       DEF TimerLock, TimerReturn, RemoveThread, TimerInterrupt, InterruptsOpen, TypeOK
  <2>12. CASE WakeExpired(c) \/ Signal(c)
    <3>1. pc[c] \in {"timer", "run"} /\ pc'[c] = "wake" /\ UNCHANGED <<alive, spared, ipi, cur>>
      BY <2>12, Zenon DEF WakeExpired, Signal, StartWake, InSyscall, TypeOK
    <3> QED
      BY <2>3, <3>1, Zenon
  <2>13. CASE TimerPreempt(c)
    BY <2>3, <2>13, Zenon DEF TimerPreempt, StartSwitch, TypeOK
  <2>14. CASE ExitInner(c)
    BY <2>14, KillExitInner, Zenon
  <2>15. CASE ExitFinish(c) \/ ReleaseGroup(c) \/ ReleaseLast(c)
    BY <2>2, <2>15, KillExitFinish, KillRelease, Zenon
  <2>16. CASE ExitInterrupt(c)
    <3>1. CASE alive[cur[c]]
      <4>1. /\ pc[c] = "run" /\ UNCHANGED <<alive, spared, pc, cur>>
            /\ \A d \in Cpus : d # c => ipi'[d] = ipi[d]
        BY <2>16, <3>1, Zenon DEF ExitInterrupt, InterruptsOpen, TypeOK
      <4>2. ~RunsKilled(c)' /\ pc[c] \notin Emptying
        BY <3>1, <4>1, Zenon DEF RunsKilled, RunsNext, Emptying
      <4> QED
        BY <2>2, <4>1, <4>2, SparedKept, KillFrame, Zenon
    <3>2. CASE ~alive[cur[c]]
      <4>1. /\ pc[c] = "run" /\ UNCHANGED <<alive, spared>>
            /\ \A d \in Cpus : d # c => ipi'[d] = ipi[d]
        BY <2>16, <3>2, Zenon DEF ExitInterrupt, InterruptsOpen, TypeOK
      <4>2. pc'[c] = "next" /\ req'[c].must
        BY <2>16, <3>2, MustSwitch, Zenon DEF ExitInterrupt
      <4> QED
        BY <2>4, <4>1, <4>2, Zenon
    <3> QED
      BY <3>1, <3>2, Zenon
  <2>17. CASE ThreadYield(c) \/ ThreadDestroySelf(c)
    <3>1. pc'[c] = "next" /\ req'[c].must
      BY <2>17, MustSwitch, Zenon DEF ThreadYield, ThreadDestroySelf
    <3> QED
      BY <2>4, <2>17, <3>1, Zenon DEF ThreadYield, ThreadDestroySelf, InSyscall
  <2>18. ASSUME NEW post \in {"None", "SetTimeout"}, ThreadSuspend(c, post) \/ WaitForEvent(c, post)
         PROVE  KillInv'
    <3>1. pc'[c] = "next" /\ req'[c].must
      BY <2>18, MustSwitch, Zenon DEF ThreadSuspend, WaitForEvent
    <3> QED
      BY <2>4, <2>18, <3>1, Zenon DEF ThreadSuspend, WaitForEvent, InSyscall
  <2>19. ASSUME NEW t \in Users, ThreadResume(c, t) \/ ThreadDestroyOther(c, t) PROVE KillInv'
    BY <2>3, <2>19, Zenon DEF ThreadResume, ThreadDestroyOther, InSyscall, TypeOK
  <2>20. ASSUME NEW t \in Users, NEW g \in Groups, NEW start \in {"Ready", "Suspended"},
                ThreadNew(c, t, g, start)
         PROVE  KillInv'
    BY <2>3, <2>20, Zenon DEF ThreadNew, InSyscall
  <2>21. ASSUME NEW g \in Groups, ThreadGroupExit(c, g) \/ ThreadGroupDrop(c, g) PROVE KillInv'
    <3>1. pc[c] = "run" /\ pc'[c] \in {"kill", "drop"} /\ UNCHANGED <<alive, spared, cur, ipi>>
      BY <2>21, Zenon DEF ThreadGroupExit, ThreadGroupDrop, InSyscall, TypeOK
    <3> QED
      BY <2>3, <3>1, Zenon
  <2>22. ASSUME NEW g \in Groups, ExitInnerDrops(c, g) PROVE KillInv'
    BY <2>22, KillExitInnerDrops, Zenon
  <2> QED
    BY <2>1, <2>5, <2>6, <2>7, <2>8, <2>9, <2>10, <2>11, <2>12, <2>13, <2>14, <2>15, <2>16,
       <2>17, <2>18, <2>19, <2>20, <2>21, <2>22, Zenon DEF CpuStep, KernelStep, Syscall
<1> QED
  BY <1>1, <1>2, Zenon

-----------------------------------------------------------------------------
(* The reason a thread is woken with                                       *)

(***************************************************************************)
(* Thread t can return to its blocking call: the reason it finds there is  *)
(* what took it out of its suspension.                                     *)
(***************************************************************************)
Reasoned(t) ==
  where[t] \in {"wait", "sleep"} /\ wokenBy[t] # "Resume" => wakeReason[t] = wokenBy[t]

(***************************************************************************)
(* The thread a cpu switches to has its reason; the one it has woken gets  *)
(* the right one next; one that it puts back without a wake up blocks      *)
(* nowhere.                                                                *)
(***************************************************************************)
CpuReason(c) ==
  /\ pc[c] \in {"old", "new"} => Reasoned(nxt[c])
  /\ pc[c] = "post" => Reasoned(cur[c])
  /\ pc[c] = "insert" => wokenBy[arg[c].thread] = waker[c]
  /\ pc[c] \in {"next", "old"} /\ req[c].state = "Ready" => where[cur[c]] \in {"timer", "yield"}
  /\ HandsOver(c) => where[SwitchedOut(c)] \in {"timer", "yield"}

ReasonInv ==
  /\ \A t \in Threads : Queued(t) => Reasoned(t)
  /\ \A c \in Cpus : CpuReason(c)
  /\ \A t \in Threads : state[t] = "Absent" => where[t] = "start"

(***************************************************************************)
(* It holds when the cpus start: no thread has blocked yet.                *)
(***************************************************************************)
LEMMA ReasonInit == Init => ReasonInv
<1> SUFFICES ASSUME Init PROVE ReasonInv
  BY Zenon
<1>1. \A t \in Threads : where[t] = "start"
  BY Zenon DEF Init
<1>2. \A c \in Cpus : pc[c] = "run"
  BY Zenon DEF Init
<1> QED
  BY <1>1, <1>2, Zenon DEF ReasonInv, CpuReason, Reasoned, HandsOver

(***************************************************************************)
(* What the reason of a thread consists of.                                *)
(***************************************************************************)
KeepsReason(t) == where'[t] = where[t] /\ wokenBy'[t] = wokenBy[t] /\ wakeReason'[t] = wakeReason[t]

(***************************************************************************)
(* A step that disturbs only a thread no other cpu runs or holds.          *)
(***************************************************************************)
LEMMA ReasonElsewhere ==
  ASSUME TypeOK, ReasonInv, NEW c \in Cpus, OthersKept(c), NEW x \in Threads,
         \A t \in Threads : t # x => KeepsReason(t),
         \A d \in Cpus : d # c => ~InHand(d, x) /\ (OwnsCurrent(d) => cur[d] # x)
  PROVE  \A d \in Cpus : d # c => CpuReason(d)'
<1> SUFFICES ASSUME NEW d \in Cpus, d # c PROVE CpuReason(d)'
  BY Zenon
<1>1. /\ pc'[d] = pc[d] /\ req'[d] = req[d] /\ nxt'[d] = nxt[d] /\ waker'[d] = waker[d]
      /\ old'[d] = old[d] /\ arg'[d] = arg[d] /\ cur'[d] = cur[d]
  BY Zenon DEF OthersKept, Elsewhere
<1>2. /\ nxt[d] \in Threads /\ cur[d] \in Threads /\ old[d] \in Threads
      /\ arg[d].thread \in Threads
  BY Zenon DEF TypeOK, ThreadRefs
<1>3. CpuReason(d) /\ ~InHand(d, x) /\ (OwnsCurrent(d) => cur[d] # x)
  BY Zenon DEF ReasonInv
<1>t. ASSUME NEW t \in Threads, t # x, Reasoned(t) PROVE Reasoned(t)'
  BY <1>t, Zenon DEF Reasoned, KeepsReason
<1>4. ASSUME pc[d] \in {"old", "new"} PROVE Reasoned(nxt[d])'
  <2>1. nxt[d] # x /\ Reasoned(nxt[d])
    BY <1>3, <1>4, Zenon DEF CpuReason, InHand
  <2>2. PICK n \in Threads : n = nxt[d] /\ n = nxt'[d]
    BY <1>1, <1>2, Zenon
  <2>3. Reasoned(n)'
    BY <1>t, <2>1, <2>2, Zenon
  <2> QED
    BY <2>2, <2>3, Zenon DEF Reasoned
<1>5. ASSUME pc[d] = "post" PROVE Reasoned(cur[d])'
  <2>1. cur[d] # x /\ Reasoned(cur[d])
    BY <1>3, <1>5, Zenon DEF CpuReason, OwnsCurrent
  <2>2. PICK n \in Threads : n = cur[d] /\ n = cur'[d]
    BY <1>1, <1>2, Zenon
  <2>3. Reasoned(n)'
    BY <1>t, <2>1, <2>2, Zenon
  <2> QED
    BY <2>2, <2>3, Zenon DEF Reasoned
<1>6. pc[d] = "insert" => wokenBy'[arg[d].thread] = waker[d]
  BY <1>1, <1>2, <1>3, Zenon DEF CpuReason, InHand, KeepsReason
<1>7. pc[d] \in {"next", "old"} /\ req[d].state = "Ready" => where'[cur[d]] \in {"timer", "yield"}
  BY <1>1, <1>2, <1>3, Zenon DEF CpuReason, OwnsCurrent, KeepsReason
<1>8. HandsOver(d) => where'[SwitchedOut(d)] \in {"timer", "yield"}
  <2>1. SwitchedOut(d) \in Threads
    BY <1>2, Zenon DEF SwitchedOut
  <2> QED
    BY <1>3, <2>1, Zenon DEF CpuReason, InHand, KeepsReason
<1>9. (HandsOver(d)' <=> HandsOver(d)) /\ SwitchedOut(d)' = SwitchedOut(d)
  BY <1>1, Zenon DEF HandsOver, SwitchedOut
<1> QED
  BY <1>1, <1>4, <1>5, <1>6, <1>7, <1>8, <1>9, Zenon DEF CpuReason

(***************************************************************************)
(* The same when no thread is disturbed.                                   *)
(***************************************************************************)
LEMMA ReasonSame ==
  ASSUME TypeOK, ReasonInv, NEW c \in Cpus, OthersKept(c),
         UNCHANGED <<where, wokenBy, wakeReason>>
  PROVE  /\ \A d \in Cpus : d # c => CpuReason(d)'
         /\ \A t \in Threads : Reasoned(t)' <=> Reasoned(t)
<1>1. ASSUME NEW d \in Cpus, d # c PROVE CpuReason(d)'
  <2>1. /\ pc'[d] = pc[d] /\ req'[d] = req[d] /\ nxt'[d] = nxt[d] /\ waker'[d] = waker[d]
        /\ old'[d] = old[d] /\ arg'[d] = arg[d] /\ cur'[d] = cur[d]
    BY <1>1, Zenon DEF OthersKept, Elsewhere
  <2>2. CpuReason(d)
    BY Zenon DEF ReasonInv
  <2> QED
    BY <2>1, <2>2, Zenon DEF CpuReason, Reasoned, HandsOver, SwitchedOut
<1>2. \A t \in Threads : Reasoned(t)' <=> Reasoned(t)
  BY Zenon DEF Reasoned
<1> QED
  BY <1>1, <1>2, Zenon

(***************************************************************************)
(* Who holds or runs a thread, by its status word: a suspended thread      *)
(* nobody, a Ready one at most one cpu, a running one only its own.        *)
(***************************************************************************)
LEMMA WhoHolds ==
  ASSUME TypeOK, Started, Placed, NEW t \in Threads
  PROVE  /\ state[t] # "Ready" => ~Queued(t) /\ \A d \in Cpus : ~InHand(d, t)
         /\ \A c, d \in Cpus : InHand(c, t) /\ InHand(d, t) => c = d
         /\ ~IsRunning(t) => \A d \in Cpus : OwnsCurrent(d) => cur[d] # t
         /\ \A c, d \in Cpus : c # d /\ OwnsCurrent(c) /\ cur[c] = t => (OwnsCurrent(d) => cur[d] # t)
         /\ IsRunning(t) => state[t] \notin {"Ready", "Absent"}
         /\ \A c \in Cpus : OwnsCurrent(c) /\ cur[c] = t => IsRunning(t)
<1>1. IsRunning(t) => state[t] \notin {"Ready", "Absent"}
  BY Zenon DEF IsRunning, Started, IdleFresh
<1>2. /\ state[t] # "Ready" => ~Queued(t) /\ \A d \in Cpus : ~InHand(d, t)
      /\ \A c, d \in Cpus : InHand(c, t) /\ InHand(d, t) => c = d
  BY Zenon DEF Placed, ScheduledOnce
<1>3. /\ \A c \in Cpus : OwnsCurrent(c) /\ cur[c] = t => IsRunning(t)
      /\ \A c, d \in Cpus : c # d /\ OwnsCurrent(c) /\ OwnsCurrent(d) => cur[c] # cur[d]
  BY Zenon DEF Placed, RunningOwned
<1> QED
  BY <1>1, <1>2, <1>3, Zenon

(***************************************************************************)
(* The threads that stay queued keep their reasons.                        *)
(***************************************************************************)
LEMMA ReasonQueued ==
  ASSUME ReasonInv, NEW u \in Threads, Queued(u), KeepsReason(u)
  PROVE  Reasoned(u)'
<1>1. Reasoned(u)
  BY Zenon DEF ReasonInv
<1> QED
  BY <1>1, Zenon DEF Reasoned, KeepsReason

(***************************************************************************)
(* A thread is taken out of its suspension: nobody holds it but the cpu    *)
(* that now inserts it into the ready list, which knows why.               *)
(***************************************************************************)
LEMMA ReasonWoken ==
  ASSUME TypeOK, Started, Placed, ReasonInv, NEW c \in Cpus, OthersKept(c), NEW t \in Threads,
         state[t] = "Suspended", t \in Cpus => gen[t] > 0, SetState(t, "Ready"),
         wokenBy' = [wokenBy EXCEPT ![t] = waker'[c]], UNCHANGED <<where, wakeReason, ready>>,
         pc'[c] = "insert", arg'[c].thread = t
  PROVE  ReasonInv'
<1>1. ~IsRunning(t)
  BY DEF IsRunning, TypeOK
<1>2. ~Queued(t) /\ \A d \in Cpus : ~InHand(d, t) /\ (OwnsCurrent(d) => cur[d] # t)
  BY <1>1, WhoHolds, Zenon
<1>3. \A u \in Threads : u # t => KeepsReason(u)
  BY Zenon DEF KeepsReason, TypeOK
<1>4. \A d \in Cpus : d # c => CpuReason(d)'
  BY <1>2, <1>3, ReasonElsewhere, Zenon
<1>5. CpuReason(c)'
  BY Zenon DEF CpuReason, HandsOver, TypeOK
<1>6. \A u \in Threads : Queued(u)' => Reasoned(u)'
  <2>1. \A u \in Threads : Queued(u)' <=> Queued(u)
    BY Zenon DEF Queued
  <2> QED
    BY <1>2, <1>3, <2>1, ReasonQueued, Zenon
<1>7. \A u \in Threads : state'[u] = "Absent" => where'[u] = "start"
  BY Zenon DEF ReasonInv, SetState, TypeOK
<1> QED
  BY <1>4, <1>5, <1>6, <1>7, Zenon DEF ReasonInv

(***************************************************************************)
(* The woken thread gets its reason and is queued.                         *)
(***************************************************************************)
LEMMA ReasonInserted ==
  ASSUME TypeOK, Started, Placed, ReasonInv, NEW c \in Cpus, OthersKept(c), InsertWoken(c)
  PROVE  ReasonInv'
<1>t. PICK t \in Threads : t = arg[c].thread
  BY Zenon DEF TypeOK, ThreadRefs
<1>1. /\ pc[c] = "insert" /\ pc'[c] \in {"run", "timer"}
      /\ wakeReason' = [wakeReason EXCEPT ![t] = IF waker[c] = "Resume" THEN @ ELSE waker[c]]
      /\ ready' = Append(ready, t) /\ UNCHANGED <<state, where, wokenBy>>
  BY <1>t, Zenon DEF InsertWoken, Goto, TypeOK
<1>2. InHand(c, t)
  BY <1>t, <1>1, Zenon DEF InHand
<1>3. state[t] = "Ready" /\ ~Queued(t)
  BY <1>2, Zenon DEF Placed, ScheduledOnce
<1>4. \A d \in Cpus : d # c => ~InHand(d, t) /\ (OwnsCurrent(d) => cur[d] # t)
  BY <1>2, <1>3, WhoHolds, Zenon
<1>5. \A u \in Threads : u # t => KeepsReason(u)
  BY <1>1, Zenon DEF KeepsReason, TypeOK
<1>6. \A d \in Cpus : d # c => CpuReason(d)'
  BY <1>4, <1>5, ReasonElsewhere, Zenon
<1>7. CpuReason(c)'
  BY <1>1, Zenon DEF CpuReason, HandsOver
<1>8. Reasoned(t)'
  <2>1. wokenBy[t] = waker[c]
    BY <1>t, <1>1, Zenon DEF ReasonInv, CpuReason
  <2> QED
    BY <1>1, <2>1, Zenon DEF Reasoned, TypeOK
<1>9. \A u \in Threads : Queued(u)' => Queued(u) \/ u = t
  BY <1>1, <1>3, AppendQueue, Zenon DEF Placed, ScheduledOnce, TypeOK
<1>10. \A u \in Threads : Queued(u)' => Reasoned(u)'
  BY <1>5, <1>8, <1>9, ReasonQueued, Zenon
<1> QED
  BY <1>1, <1>6, <1>7, <1>10, Zenon DEF ReasonInv

(***************************************************************************)
(* The current thread asks for a switch: nobody else runs or holds it.     *)
(***************************************************************************)
LEMMA ReasonAsks ==
  ASSUME TypeOK, Started, Placed, ReasonInv, NEW c \in Cpus, OthersKept(c),
         NEW r \in Requests, NEW p \in ResumePoints, Asks(c, r, p)
  PROVE  ReasonInv'
<1>t. PICK t \in Threads : t = cur[c]
  BY Zenon DEF TypeOK
<1>1. /\ pc[c] # "new" /\ pc'[c] = "next" /\ req'[c] = r
      /\ where' = [where EXCEPT ![t] = p]
      /\ UNCHANGED <<state, wokenBy, wakeReason, ready, cur>>
      /\ r.state = "Ready" => p \in {"timer", "yield"}
  BY <1>t, Zenon DEF Asks, StartSwitch, Goto, TypeOK
<1>2. OwnsCurrent(c) /\ IsRunning(t) /\ state[t] \notin {"Ready", "Absent"}
  BY <1>t, <1>1, WhoHolds, Zenon DEF OwnsCurrent
<1>3. \A d \in Cpus : d # c => ~InHand(d, t) /\ (OwnsCurrent(d) => cur[d] # t)
  BY <1>t, <1>2, WhoHolds, Zenon
<1>4. \A u \in Threads : u # t => KeepsReason(u)
  BY <1>1, Zenon DEF KeepsReason, TypeOK
<1>5. \A d \in Cpus : d # c => CpuReason(d)'
  BY <1>3, <1>4, ReasonElsewhere, Zenon
<1>6. CpuReason(c)'
  <2>1. where'[cur'[c]] = p
    BY <1>t, <1>1, Zenon DEF TypeOK
  <2> QED
    BY <1>1, <2>1, Zenon DEF CpuReason, HandsOver
<1>7. \A u \in Threads : Queued(u)' => Reasoned(u)'
  <2>1. \A u \in Threads : Queued(u)' <=> Queued(u)
    BY <1>1, Zenon DEF Queued
  <2>2. ~Queued(t)
    BY <1>2, WhoHolds, Zenon
  <2> QED
    BY <1>4, <2>1, <2>2, ReasonQueued, Zenon
<1>8. \A u \in Threads : state'[u] = "Absent" => where'[u] = "start"
  BY <1>1, <1>2, <1>4, Zenon DEF ReasonInv, KeepsReason
<1> QED
  BY <1>5, <1>6, <1>7, <1>8, Zenon DEF ReasonInv

(***************************************************************************)
(* Every step preserves it.                                                *)
(***************************************************************************)
LEMMA ReasonStep ==
  TypeOK /\ Started /\ Placed /\ SwitchInv /\ ReasonInv /\ [Next]_vars => ReasonInv'
<1> SUFFICES ASSUME TypeOK, Started, Placed, SwitchInv, ReasonInv, [Next]_vars PROVE ReasonInv'
  BY Zenon
<1> USE DEF threadVars, queueVars, switchVars, localVars, apicVars, Goto
<1>1. CASE UNCHANGED vars
  <2>1. UNCHANGED <<state, where, wokenBy, wakeReason, ready, pc, cur, nxt, old, req, arg, waker>>
    BY <1>1, Zenon DEF vars
  <2>2. \A t \in Threads : (Queued(t)' <=> Queued(t)) /\ (Reasoned(t)' <=> Reasoned(t))
    BY <2>1, Zenon DEF Queued, Reasoned
  <2>3. ASSUME NEW c \in Cpus PROVE CpuReason(c)'
    <3>1. (HandsOver(c)' <=> HandsOver(c)) /\ SwitchedOut(c)' = SwitchedOut(c)
      BY <2>1, Zenon DEF HandsOver, SwitchedOut
    <3>2. (Reasoned(nxt[c])' <=> Reasoned(nxt[c])) /\ (Reasoned(cur[c])' <=> Reasoned(cur[c]))
      BY <2>1, Zenon DEF Reasoned
    <3>3. CpuReason(c)
      BY Zenon DEF ReasonInv
    <3> QED
      BY <2>1, <3>1, <3>2, <3>3, Zenon DEF CpuReason
  <2> QED
    BY <2>1, <2>2, <2>3, Zenon DEF ReasonInv
<1>2. CASE Next
  <2>1. PICK c \in Cpus : StepOf(c)
    BY <1>2, KindOfStep, Zenon DEF Next, CpuStep
  <2>2. OthersKept(c)
    BY <2>1, Zenon DEF StepOf
  <2>3. /\ \A t \in Threads : Queued(t) => Reasoned(t)
        /\ \A t \in Threads : state[t] = "Absent" => where[t] = "start"
        /\ CpuReason(c)
    BY Zenon DEF ReasonInv
  <2>4. ASSUME UNCHANGED <<where, wokenBy, wakeReason>>, CpuReason(c)',
               \A t \in Threads : Queued(t)' => Queued(t) \/ Reasoned(t),
               \A t \in Threads : state'[t] = "Absent" => state[t] = "Absent"
        PROVE  ReasonInv'
    <3>1. /\ \A d \in Cpus : d # c => CpuReason(d)'
          /\ \A t \in Threads : Reasoned(t)' <=> Reasoned(t)
      BY <2>2, <2>4, ReasonSame, Zenon
    <3>2. \A t \in Threads : state'[t] = "Absent" => where'[t] = "start"
      BY <2>3, <2>4, Zenon
    <3>3. \A t \in Threads : Queued(t)' => Reasoned(t)'
      BY <2>3, <2>4, <3>1, Zenon
    <3> QED
      BY <2>4, <3>1, <3>2, <3>3, Zenon DEF ReasonInv
  <2>5. ASSUME ready' = ready PROVE \A t \in Threads : Queued(t)' => Queued(t)
    BY <2>5, Zenon DEF Queued
  <2>6. CASE Quiet(c)
    <3>1. \A t \in Threads : Queued(t)' => Queued(t)
      <4>1. CASE ready' = ready
        BY <2>5, <4>1, Zenon
      <4>2. CASE ready' = <<>>
        BY <4>2 DEF Queued
      <4> QED
        BY <2>6, <4>1, <4>2, Zenon DEF Quiet
    <3>2. CpuReason(c)'
      BY <2>6, Zenon DEF Quiet, CpuReason, HandsOver
    <3>3. UNCHANGED <<where, wokenBy, wakeReason, state>>
      BY <2>6, Zenon DEF Quiet
    <3> QED
      BY <2>4, <3>1, <3>2, <3>3, Zenon
  <2>7. ASSUME NEW r \in Requests, NEW p \in ResumePoints, Asks(c, r, p) PROVE ReasonInv'
    BY <2>2, <2>7, ReasonAsks, Zenon
  <2>8. CASE GetNextThread(c)
    <3>1. PICK i \in 1..Len(ready) : /\ nxt' = [nxt EXCEPT ![c] = ready[i]]
                                     /\ ready' = SubSeq(ready, i + 1, Len(ready))
      BY <2>8, Zenon DEF GetNextThread
    <3>2. /\ nxt'[c] = ready[i] /\ pc[c] = "next" /\ pc'[c] = "old"
          /\ UNCHANGED <<state, where, wokenBy, wakeReason, req, cur>>
      BY <2>8, <3>1, Zenon DEF GetNextThread, TypeOK
    <3>3. ready[i] \in Threads /\ Queued(ready[i]) /\ \A t \in Threads : Queued(t)' => Queued(t)
      BY <3>1, PopQueue, ElementOfSeq, Zenon DEF Placed, ScheduledOnce, TypeOK
    <3>4. Reasoned(nxt[c])'
      BY <2>3, <3>2, <3>3, Zenon DEF Reasoned
    <3>5. CpuReason(c)'
      BY <2>3, <3>2, <3>4, Zenon DEF CpuReason, HandsOver
    <3> QED
      BY <2>4, <3>2, <3>3, <3>5, Zenon
  <2>9. CASE SetOldState(c)
    <3>1. /\ pc[c] = "old" /\ pc'[c] = "new" /\ SetState(cur[c], req[c].state)
          /\ UNCHANGED <<where, wokenBy, wakeReason, ready, req, cur, nxt>>
      BY <2>9, Zenon DEF SetOldState, TypeOK
    <3>2. req[c].state # "Absent" /\ (req[c].state = "Ready" <=> req[c].post = "InsertReadyQueue")
      BY Zenon DEF TypeOK, Requests
    <3>3. \A t \in Threads : state'[t] = "Absent" => state[t] = "Absent"
      BY <3>1, <3>2, Zenon DEF SetState, TypeOK
    <3>4. Reasoned(nxt[c])'
      BY <2>3, <3>1, Zenon DEF CpuReason, Reasoned
    <3>5. HandsOver(c)' => where'[SwitchedOut(c)'] \in {"timer", "yield"}
      BY <2>3, <3>1, <3>2, Zenon DEF CpuReason, HandsOver, SwitchedOut
    <3>6. CpuReason(c)'
      BY <3>1, <3>4, <3>5, Zenon DEF CpuReason
    <3> QED
      BY <2>4, <2>5, <3>1, <3>3, <3>6, Zenon
  <2>10. CASE SwitchToNew(c)
    <3>1. /\ pc[c] = "new" /\ pc'[c] = "post" /\ SetState(nxt[c], "Running")
          /\ old'[c] = cur[c] /\ cur'[c] = nxt[c]
          /\ UNCHANGED <<where, wokenBy, wakeReason, ready, req>>
      BY <2>10, Zenon DEF SwitchToNew, TypeOK
    <3>2. \A t \in Threads : state'[t] = "Absent" => state[t] = "Absent"
      BY <3>1, Zenon DEF SetState, TypeOK
    <3>3. Reasoned(cur[c])'
      BY <2>3, <3>1, Zenon DEF CpuReason, Reasoned
    <3>4. HandsOver(c)' => where'[SwitchedOut(c)'] \in {"timer", "yield"}
      BY <2>3, <3>1, Zenon DEF CpuReason, HandsOver, SwitchedOut
    <3>5. CpuReason(c)'
      BY <3>1, <3>3, <3>4, Zenon DEF CpuReason
    <3> QED
      BY <2>4, <2>5, <3>1, <3>2, <3>5, Zenon
  <2>11. CASE PostSwitchHandler(c)
    <3>1. /\ pc[c] = "post" /\ pc'[c] \in {"settimeout", "run", "panic"}
          /\ ready' = IF req[c].post = "InsertReadyQueue" THEN Append(ready, old[c]) ELSE ready
          /\ UNCHANGED <<state, where, wokenBy, wakeReason>>
      BY <2>11, Zenon DEF PostSwitchHandler, ReturnToThread, TypeOK
    <3>2. CpuReason(c)'
      BY <3>1, Zenon DEF CpuReason, HandsOver
    <3>3. \A t \in Threads : Queued(t)' => Queued(t) \/ Reasoned(t)
      <4>1. CASE req[c].post = "InsertReadyQueue"
        <5>1. HandsOver(c) /\ SwitchedOut(c) = old[c] /\ old[c] \in Threads
          BY <3>1, <4>1, Zenon DEF HandsOver, SwitchedOut, TypeOK
        <5>2. Reasoned(old[c])
          BY <2>3, <5>1, Zenon DEF CpuReason, Reasoned
        <5>3. InHand(c, old[c])
          BY <5>1, Zenon DEF InHand
        <5>4. ~Queued(old[c])
          BY <5>1, <5>3, Zenon DEF Placed, ScheduledOnce
        <5>5. \A t \in Threads : Queued(t)' => Queued(t) \/ t = old[c]
          BY <3>1, <4>1, <5>1, <5>4, AppendQueue, Zenon DEF Placed, ScheduledOnce, TypeOK
        <5> QED
          BY <5>2, <5>5, Zenon
      <4>2. CASE req[c].post # "InsertReadyQueue"
        BY <2>5, <3>1, <4>2, Zenon
      <4> QED
        BY <4>1, <4>2, Zenon
    <3> QED
      BY <2>4, <3>1, <3>2, <3>3, Zenon
  <2>12. CASE SetTimeout(c)
    <3>1. pc'[c] \in {"run", "panic"} /\ UNCHANGED <<state, where, wokenBy, wakeReason, ready>>
      BY <2>12, Zenon DEF SetTimeout, ReturnToThread, TypeOK
    <3>2. CpuReason(c)'
      BY <3>1, Zenon DEF CpuReason, HandsOver
    <3> QED
      BY <2>4, <2>5, <3>1, <3>2, Zenon
  <2>13. CASE GetThreadAsReady(c)
    <3>1. PICK t \in Threads : t = arg[c].thread
      BY Zenon DEF TypeOK, ThreadRefs
    <3>2. state[t] = "Suspended" /\ gen[t] > 0
      BY <2>13, <3>1, Zenon DEF GetThreadAsReady, IsCurrent, Started, RefsStarted
    <3> QED
      BY <2>2, <2>13, <3>1, <3>2, ReasonWoken, Zenon DEF GetThreadAsReady, TypeOK
  <2>14. CASE InsertWoken(c)
    BY <2>2, <2>14, ReasonInserted, Zenon
  <2>15. ASSUME NEW t \in Users, ThreadResume(c, t) PROVE ReasonInv'
    <3>1. t \in Threads /\ t \notin Cpus
      BY SchedAssumption, ThreadKinds, Zenon
    <3>2. waker'[c] = "Resume" /\ arg'[c].thread = t /\ pc'[c] = "insert"
      BY <2>15, Zenon DEF ThreadResume, CurrentRef, TypeOK
    <3> QED
      BY <2>2, <2>15, <3>1, <3>2, ReasonWoken, Zenon DEF ThreadResume
  <2>16. ASSUME NEW t \in Users, ThreadDestroyOther(c, t) PROVE ReasonInv'
    <3>1. /\ pc'[c] = "remove" /\ SetState(t, "Dead")
          /\ UNCHANGED <<where, wokenBy, wakeReason, ready>>
      BY <2>16, Zenon DEF ThreadDestroyOther, TypeOK
    <3>2. CpuReason(c)'
      BY <3>1, Zenon DEF CpuReason, HandsOver
    <3>3. \A u \in Threads : state'[u] = "Absent" => state[u] = "Absent"
      BY <3>1, Zenon DEF SetState, TypeOK
    <3> QED
      BY <2>4, <2>5, <3>1, <3>2, <3>3, Zenon
  <2>17. ASSUME NEW t \in Users, NEW g \in Groups, NEW start \in {"Ready", "Suspended"},
                ThreadNew(c, t, g, start)
         PROVE  ReasonInv'
    <3>1. /\ t \in Threads /\ state[t] = "Absent" /\ SetState(t, start) /\ pc[c] = "run"
          /\ ready' = IF start = "Ready" THEN Append(ready, t) ELSE ready
          /\ UNCHANGED <<where, wokenBy, wakeReason, pc>>
      BY <2>17, ThreadKinds, Zenon DEF ThreadNew, InSyscall
    <3>2. CpuReason(c)'
      BY <3>1, Zenon DEF CpuReason, HandsOver
    <3>3. \A u \in Threads : state'[u] = "Absent" => state[u] = "Absent"
      BY <3>1, Zenon DEF SetState, TypeOK
    <3>4. Reasoned(t)
      BY <2>3, <3>1, Zenon DEF Reasoned
    <3>5. ~Queued(t)
      BY <3>1, WhoHolds, Zenon
    <3>6. \A u \in Threads : Queued(u)' => Queued(u) \/ u = t
      <4>1. CASE start = "Ready"
        BY <3>1, <3>5, <4>1, AppendQueue, Zenon DEF Placed, ScheduledOnce, TypeOK
      <4>2. CASE start # "Ready"
        BY <2>5, <3>1, <4>2, Zenon
      <4> QED
        BY <4>1, <4>2, Zenon
    <3> QED
      BY <2>4, <3>1, <3>2, <3>3, <3>4, <3>6, Zenon
  <2> QED
    BY <2>1, <2>6, <2>7, <2>8, <2>9, <2>10, <2>11, <2>12, <2>13, <2>14, <2>15, <2>16, <2>17, Zenon
       DEF StepOf, Touches
<1> QED
  BY <1>1, <1>2, Zenon

-----------------------------------------------------------------------------
(* The theorems for any number of cpus                                     *)

(***************************************************************************)
(* The inductive invariant of suspension and wake up.                      *)
(***************************************************************************)
WakeInv == SchedInv /\ SwitchInv /\ RefInv /\ ReasonInv /\ KillInv

(***************************************************************************)
(* It holds in every reachable state.                                      *)
(***************************************************************************)
LEMMA WakeInvariant == Spec => []WakeInv
<1>1. Init => SwitchInv /\ RefInv /\ ReasonInv /\ KillInv
  <2> SUFFICES ASSUME Init PROVE RefInv
    BY SwitchInit, ReasonInit, KillInit, Zenon
  <2>1. waits = {} /\ timeouts = {} /\ \A c \in Cpus : pc[c] = "run"
    BY Zenon DEF Init
  <2> QED
    BY <2>1, Zenon DEF RefInv, WakingRefs
<1>2. /\ SchedInv /\ SwitchInv /\ RefInv /\ ReasonInv /\ KillInv /\ [Next]_vars
      => SwitchInv' /\ RefInv' /\ ReasonInv' /\ KillInv'
  BY SwitchStep, RefStep, ReasonStep, KillStep, Zenon DEF SchedInv
<1> QED
  BY <1>1, <1>2, SchedInvariant, PTL DEF Spec, WakeInv

(***************************************************************************)
(* A reference held by a channel, an event pool or the timeout queue never *)
(* matches a thread that is not in the suspension it was taken for: no     *)
(* stale wake up reaches a later suspension, on any number of cpus.        *)
(***************************************************************************)
THEOREM StaleRefsNeverMatch == Spec => []RefNamesSuspension
<1>1. WakeInv => RefNamesSuspension
  <2> SUFFICES ASSUME WakeInv, NEW r \in HeldRefs \cup ExpiringRefs, r.gen = gen[r.thread]
               PROVE  state[r.thread] = "Suspended" /\ r.gen > 0
    BY Zenon DEF RefNamesSuspension
  <2>1. r \in WakingRefs
    BY Zenon DEF HeldRefs, ExpiringRefs, WakingRefs
  <2>2. NamesSuspension(r)
    BY <2>1, Zenon DEF WakeInv, RefInv
  <2> QED
    BY <2>1, <2>2, WakingTypes, Zenon DEF WakeInv, SchedInv, NamesSuspension
<1> QED
  BY <1>1, WakeInvariant, PTL

(***************************************************************************)
(* A thread returns to its blocking call with the reason it was woken for, *)
(* whichever cpus woke, queued and dispatched it.                          *)
(***************************************************************************)
THEOREM WokenWithReason == Spec => []ReasonMatches
<1>1. WakeInv => ReasonMatches
  BY Zenon DEF WakeInv, ReasonInv, CpuReason, Reasoned, ReasonMatches
<1> QED
  BY <1>1, WakeInvariant, PTL

(***************************************************************************)
(* No order of exit_inner, dispatch and interrupts on any number of cpus   *)
(* lets a killed thread run on without an exit interrupt coming, except    *)
(* the thread whose own cpu dropped its group.                             *)
(***************************************************************************)
THEOREM KillReachesCpu == Spec => []KilledIsInterrupted
<1>1. WakeInv => KilledIsInterrupted
  <2> SUFFICES ASSUME WakeInv, NEW c \in Cpus, pc[c] = "run", ~alive[cur[c]]
               PROVE  ipi[c] \/ cur[c] \in spared \/ \E d \in Cpus : pc[d] \in Emptying
    BY Zenon DEF KilledIsInterrupted
  <2>1. RunsKilled(c)
    BY Zenon DEF RunsKilled, RunsNext
  <2> QED
    BY <2>1, Zenon DEF WakeInv, KillInv, Notified, Spared, Exiting, Emptying
<1> QED
  BY <1>1, WakeInvariant, PTL

(***************************************************************************)
(* A thread that yields, suspends itself or exits finds a thread to switch *)
(* to unless another cpu has one in its hands: as long as a user thread    *)
(* asks, one of the finitely many idle threads runs nowhere, and such a    *)
(* thread is queued or being switched.                                     *)
(***************************************************************************)
THEOREM IdleIsQueued == Spec => []IdleAvailable
<1>1. WakeInv => IdleAvailable
  <2> SUFFICES ASSUME WakeInv, NEW c \in Cpus, pc[c] = "next", req[c].must, LivePositions = {},
                      \A d \in Cpus \ {c} : pc[d] \notin {"old", "new", "post"}
               PROVE  FALSE
    BY Zenon DEF IdleAvailable
  <2>1. TypeOK /\ Placed /\ SwitchInv
    BY Zenon DEF WakeInv, SchedInv
  <2>2. cur[c] \in Users
    BY <2>1, Zenon DEF SwitchInv, AsksRightly
  <2>3. ASSUME NEW i \in Cpus PROVE IsRunning(i)
    <3>1. i \in Threads /\ i \notin Users /\ alive[i]
      BY <2>1, ThreadKinds, SchedAssumption, Zenon DEF SwitchInv
    <3>2. ~Queued(i)
      BY <3>1, Zenon DEF Queued, LivePositions
    <3>3. ASSUME NEW d \in Cpus PROVE ~InHand(d, i)
      <4>1. pc[d] \notin {"old", "new", "post"}
        BY Zenon
      <4>2. pc[d] = "insert" => arg[d].thread # i
        BY <2>1, <3>1, Zenon DEF SwitchInv, AsksRightly
      <4> QED
        BY <4>1, <4>2, Zenon DEF InHand, HandsOver
    <3>4. state[i] # "Ready"
      BY <2>1, <3>1, <3>2, <3>3, Zenon DEF Placed, NoLostThread
    <3> QED
      BY <2>1, <3>4, Zenon DEF SwitchInv, IsRunning
  <2>4. \A i \in Cpus : \E d \in Cpus : cur[d] = i
    BY <2>1, <2>3, ThreadKinds, Zenon DEF Placed, RunningOwned
  <2>5. PICK f : f = [i \in Cpus |-> CHOOSE d \in Cpus : cur[d] = i]
    BY Zenon
  <2>6. f \in [Cpus -> Cpus] /\ \A i \in Cpus : cur[f[i]] = i
    BY <2>4, <2>5, Zenon
  <2>7. f \in Injection(Cpus, Cpus)
    <3>1. DOMAIN f = Cpus /\ \A i, j \in Cpus : f[i] = f[j] => i = j
      BY <2>6, Zenon
    <3>2. IsInjective(f)
      BY <3>1, Zenon DEF IsInjective
    <3> QED
      BY <2>6, <3>2, Zenon DEF Injection
  <2>8. f \in Surjection(Cpus, Cpus)
    BY <2>7, SchedAssumption, FS_Injection, Zenon
  <2>9. PICK i \in Cpus : f[i] = c
    BY <2>8, Zenon DEF Surjection
  <2> QED
    BY <2>2, <2>6, <2>9, SchedAssumption, Zenon
<1> QED
  BY <1>1, WakeInvariant, PTL
=============================================================================
