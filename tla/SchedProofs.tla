---------------------------- MODULE SchedProofs ----------------------------
(***************************************************************************)
(* The types of the scheduler, what each step does to the place of every   *)
(* thread, and the theorems about places, for any number of cpus and       *)
(* threads.                                                                *)
(***************************************************************************)
EXTENDS Sched, SequenceTheorems, TLAPS

-----------------------------------------------------------------------------
(* Types, and what tells a running idle thread from a suspended thread     *)

(***************************************************************************)
(* The requests the callers of switch_current_thread_to make are requests. *)
(***************************************************************************)
LEMMA RequestTypes ==
  /\ \A eoi, must \in BOOLEAN : Request("Ready", "InsertReadyQueue", eoi, must) \in Requests
  /\ \A post \in {"None", "SetTimeout"}, eoi, must \in BOOLEAN :
       Request("Suspended", post, eoi, must) \in Requests
  /\ \A eoi, must \in BOOLEAN : Request("Dead", "None", eoi, must) \in Requests
BY Zenon DEF Request, Requests, PostActions

(***************************************************************************)
(* What get_next_thread leaves of the ready list is a list of threads.     *)
(***************************************************************************)
LEMMA SuffixType ==
  ASSUME NEW S, NEW s \in Seq(S), NEW i \in 1..Len(s)
  PROVE  /\ SubSeq(s, i + 1, Len(s)) \in Seq(S)
         /\ Len(SubSeq(s, i + 1, Len(s))) = Len(s) - i
         /\ \A j \in 1..(Len(s) - i) : SubSeq(s, i + 1, Len(s))[j] = s[i + j]
<1>1. Len(s) \in Nat /\ i \in Nat
  BY LenProperties
<1>2. \A j \in (i + 1)..Len(s) : s[j] \in S
  BY <1>1, ElementOfSeq
<1> QED
  BY <1>1, <1>2, SubSeqProperties

(***************************************************************************)
(* The state init_cpu_local and start_userspace leave is well typed.       *)
(***************************************************************************)
LEMMA TypeInit == Init => TypeOK
<1> SUFFICES ASSUME Init PROVE TypeOK
  BY Zenon
<1> USE SchedAssumption DEF Init, Threads
<1>1. spared \subseteq Users /\ groups \subseteq Groups
  BY Zenon
<1>2. ready \in Seq(Threads)
  BY DEF Threads
<1>3. req \in [Cpus -> Requests]
  BY RequestTypes, Zenon DEF IdleRequest
<1>4. members \in [Groups -> SUBSET Users]
  BY Zenon
<1>5. /\ gen \in [Threads -> Nat]
      /\ state \in [Threads -> ThreadStates]
      /\ wakeReason \in [Threads -> WakeReasons]
      /\ where \in [Threads -> ResumePoints]
      /\ wokenBy \in [Threads -> Wakers]
      /\ alive \in [Threads -> BOOLEAN]
  BY Zenon DEF ThreadStates, WakeReasons, ResumePoints, Wakers
<1>6. /\ cur \in [Cpus -> Threads]
      /\ nxt \in [Cpus -> Threads]
      /\ old \in [Cpus -> Threads]
      /\ arg \in [Cpus -> ThreadRefs]
      /\ pc \in [Cpus -> Labels]
      /\ waker \in [Cpus -> Wakers]
  BY Zenon DEF ThreadRefs, Labels, Wakers
<1> QED
  BY <1>1, <1>2, <1>3, <1>4, <1>5, <1>6, Zenon DEF TypeOK

(***************************************************************************)
(* Idle threads and user threads are threads.                              *)
(***************************************************************************)
LEMMA ThreadKinds == Cpus \subseteq Threads /\ Users \subseteq Threads
BY Zenon DEF Threads

(***************************************************************************)
(* Returning to a thread leaves the kernel or panics.                      *)
(***************************************************************************)
LEMMA ReturnType ==
  ASSUME NEW c \in Cpus, NEW t \in Threads, ReturnToThread(c, t),
         isr \in [Cpus -> BOOLEAN], pc \in [Cpus -> Labels]
  PROVE  isr' \in [Cpus -> BOOLEAN] /\ pc' \in [Cpus -> Labels]
<1>1. isr' \in [Cpus -> BOOLEAN]
  BY Zenon DEF ReturnToThread
<1> QED
  BY <1>1, Zenon DEF ReturnToThread, Goto, Labels

(***************************************************************************)
(* Entering switch_current_thread_to keeps the types.                      *)
(***************************************************************************)
LEMMA StartSwitchType ==
  ASSUME NEW c \in Cpus, NEW r \in Requests, NEW p \in ResumePoints, StartSwitch(c, r, p),
         req \in [Cpus -> Requests], where \in [Threads -> ResumePoints],
         pc \in [Cpus -> Labels]
  PROVE  /\ req' \in [Cpus -> Requests]
         /\ where' \in [Threads -> ResumePoints]
         /\ pc' \in [Cpus -> Labels]
BY Zenon DEF StartSwitch, Goto, Labels

(***************************************************************************)
(* So does the end of exit.                                                *)
(***************************************************************************)
LEMMA LeaveExitType ==
  ASSUME NEW c \in Cpus, LeaveExit(c),
         req \in [Cpus -> Requests], where \in [Threads -> ResumePoints],
         pc \in [Cpus -> Labels]
  PROVE  /\ req' \in [Cpus -> Requests]
         /\ where' \in [Threads -> ResumePoints]
         /\ pc' \in [Cpus -> Labels]
<1>1. CASE killSelf[c]
  <2>1. "exit" \in ResumePoints
    BY Zenon DEF ResumePoints
  <2> QED
    BY <1>1, <2>1, RequestTypes, StartSwitchType, Zenon DEF LeaveExit
<1>2. CASE ~killSelf[c]
  BY <1>2, Zenon DEF LeaveExit, Goto, Labels
<1> QED
  BY <1>1, <1>2, Zenon

(***************************************************************************)
(* Setting a thread's state keeps the types of its status word.            *)
(***************************************************************************)
LEMMA SetStateType ==
  ASSUME NEW t \in Threads, NEW s \in ThreadStates, SetState(t, s),
         gen \in [Threads -> Nat], state \in [Threads -> ThreadStates]
  PROVE  gen' \in [Threads -> Nat] /\ state' \in [Threads -> ThreadStates]
<1>1. gen[t] \in Nat
  BY Zenon
<1>2. gen[t] + 1 \in Nat
  BY <1>1
<1> QED
  BY <1>2, Zenon DEF SetState

(***************************************************************************)
(* Every action preserves the types.                                       *)
(***************************************************************************)
LEMMA TypeStep == TypeOK /\ [Next]_vars => TypeOK'
<1> SUFFICES ASSUME TypeOK, [Next]_vars PROVE TypeOK'
  BY Zenon
<1> USE SchedAssumption, ThreadKinds
<1> USE DEF TypeOK, threadVars, queueVars, switchVars, localVars, apicVars, Goto, Labels
<1>1. ASSUME NEW c \in Cpus, GetNextThread(c) PROVE TypeOK'
  <2>1. PICK i \in 1..Len(ready) : /\ nxt' = [nxt EXCEPT ![c] = ready[i]]
                                   /\ ready' = SubSeq(ready, i + 1, Len(ready))
    BY <1>1, Zenon DEF GetNextThread
  <2>2. ready[i] \in Threads /\ ready' \in Seq(Threads)
    BY <2>1, ElementOfSeq, SuffixType, Zenon
  <2> QED
    BY <1>1, <2>1, <2>2, Zenon DEF GetNextThread
<1>2. ASSUME NEW c \in Cpus, NoAvailableThreads(c) PROVE TypeOK'
  <2>1. isr' \in [Cpus -> BOOLEAN]
    BY <1>2, Zenon DEF NoAvailableThreads
  <2>2. pc' \in [Cpus -> Labels]
    BY <1>2, Zenon DEF NoAvailableThreads
  <2> QED
    BY <1>2, <2>1, <2>2, EmptySeq, Zenon DEF NoAvailableThreads
<1>3. ASSUME NEW c \in Cpus, SetOldState(c) PROVE TypeOK'
  <2>1. cur[c] \in Threads /\ req[c] \in Requests
    BY Zenon
  <2>2. req[c].state \in ThreadStates
    BY <2>1, Zenon DEF Requests, ThreadStates
  <2>3. gen' \in [Threads -> Nat] /\ state' \in [Threads -> ThreadStates]
    BY <1>3, <2>1, <2>2, SetStateType, Zenon DEF SetOldState
  <2>4. spared' \subseteq Users /\ pc' \in [Cpus -> Labels]
    BY <1>3, <2>1, Zenon DEF SetOldState
  <2> QED
    BY <1>3, <2>3, <2>4, Zenon DEF SetOldState
<1>4. ASSUME NEW c \in Cpus, SwitchToNew(c) PROVE TypeOK'
  <2>1. "Running" \in ThreadStates /\ nxt[c] \in Threads
    BY Zenon DEF ThreadStates
  <2>2. gen' \in [Threads -> Nat] /\ state' \in [Threads -> ThreadStates]
    BY <1>4, <2>1, SetStateType, Zenon DEF SwitchToNew
  <2> QED
    BY <1>4, <2>2, Zenon DEF SwitchToNew
<1>5. ASSUME NEW c \in Cpus, PostSwitchHandler(c) PROVE TypeOK'
  <2>1. ready' \in Seq(Threads)
    BY <1>5, AppendProperties, ZenonT(60) DEF PostSwitchHandler
  <2>2. isr' \in [Cpus -> BOOLEAN]
    BY <1>5, ReturnType, Zenon DEF PostSwitchHandler
  <2>3. pc' \in [Cpus -> Labels]
    <3>1. CASE req[c].post = "SetTimeout"
      <4>1. Goto(c, "settimeout")
        BY <1>5, <3>1, Zenon DEF PostSwitchHandler
      <4> QED
        BY <4>1, Zenon
    <3>2. CASE req[c].post # "SetTimeout"
      BY <1>5, <3>2, ReturnType, Zenon DEF PostSwitchHandler
    <3> QED
      BY <3>1, <3>2, Zenon
  <2> QED
    BY <1>5, <2>1, <2>2, <2>3, Zenon DEF PostSwitchHandler
<1>6. ASSUME NEW c \in Cpus, SetTimeout(c) PROVE TypeOK'
  <2>1. CurrentRef(old[c]) \in ThreadRefs
    BY Zenon DEF CurrentRef, ThreadRefs
  <2>2. isr' \in [Cpus -> BOOLEAN] /\ pc' \in [Cpus -> Labels]
    BY <1>6, ReturnType, Zenon DEF SetTimeout
  <2>3. timeouts' \subseteq ThreadRefs /\ tqLock' \subseteq Cpus
    <3>1. \/ timeouts' = timeouts \cup {CurrentRef(old[c])} /\ tqLock' = tqLock
          \/ tqLock' = {c} /\ timeouts' = timeouts
      <4> HIDE DEF TypeOK
      <4> QED
        BY <1>6, Zenon DEF SetTimeout
    <3>2. timeouts \subseteq ThreadRefs /\ tqLock \subseteq Cpus
      BY Zenon
    <3> HIDE DEF TypeOK
    <3> QED
      BY <2>1, <3>1, <3>2, Zenon
  <2> QED
    BY <1>6, <2>1, <2>2, <2>3, Zenon DEF SetTimeout
<1>7. ASSUME NEW c \in Cpus, GetThreadAsReady(c) PROVE TypeOK'
  <2>1. arg[c].thread \in Threads /\ "Ready" \in ThreadStates
    BY Zenon DEF ThreadRefs, ThreadStates
  <2>2. gen' \in [Threads -> Nat] /\ state' \in [Threads -> ThreadStates]
    BY <1>7, <2>1, SetStateType, Zenon DEF GetThreadAsReady
  <2> QED
    BY <1>7, <2>2, Zenon DEF GetThreadAsReady
<1>8. ASSUME NEW c \in Cpus, DropStaleRef(c) PROVE TypeOK'
  BY <1>8, Zenon DEF DropStaleRef
<1>9. ASSUME NEW c \in Cpus, InsertWoken(c) PROVE TypeOK'
  <2>1. arg[c].thread \in Threads
    BY Zenon DEF ThreadRefs
  <2>2. ready' \in Seq(Threads)
    BY <1>9, <2>1, AppendProperties DEF InsertWoken
  <2>3. wakeReason' \in [Threads -> WakeReasons]
    BY <1>9, <2>1, Zenon DEF InsertWoken, Wakers, WakeReasons
  <2> QED
    BY <1>9, <2>2, <2>3, Zenon DEF InsertWoken
<1>10. ASSUME NEW c \in Cpus, TimerLock(c) PROVE TypeOK'
  BY <1>10, Zenon DEF TimerLock
<1>11. ASSUME NEW c \in Cpus, WakeExpired(c) PROVE TypeOK'
  BY <1>11 DEF WakeExpired, StartWake, Wakers
<1>12. ASSUME NEW c \in Cpus, TimerReturn(c) PROVE TypeOK'
  BY <1>12, Zenon DEF TimerReturn
<1>13. ASSUME NEW c \in Cpus, TimerPreempt(c) PROVE TypeOK'
  BY <1>13, RequestTypes, Zenon DEF TimerPreempt, StartSwitch, IdleRequest, ResumePoints
<1>14. ASSUME NEW c \in Cpus, RemoveThread(c) PROVE TypeOK'
  BY <1>14, Zenon DEF RemoveThread
<1>15. ASSUME NEW c \in Cpus, ExitInner(c) PROVE TypeOK'
  <2>1. PICK t \in members[dying[c]] :
          /\ members' = [members EXCEPT ![dying[c]] = @ \ {t}]
          /\ alive' = [alive EXCEPT ![t] = FALSE]
          /\ killSelf' = [killSelf EXCEPT ![c] = @ \/ (t = cur[c] /\ pc[c] = "kill")]
          /\ spared' = IF t = cur[c] /\ pc[c] = "drop" THEN spared \cup {t} ELSE spared
    BY <1>15, Zenon DEF ExitInner
  <2>2. t \in Users /\ dying[c] \in Groups
    BY Zenon
  <2>3. members' \in [Groups -> SUBSET Users] /\ alive' \in [Threads -> BOOLEAN]
    BY <2>1, <2>2, Zenon
  <2>4. spared' \subseteq Users
    BY <2>1, <2>2, Zenon
  <2>5. killSelf' \in [Cpus -> BOOLEAN]
    BY <2>1, Zenon
  <2> QED
    BY <1>15, <2>3, <2>4, <2>5, Zenon DEF ExitInner
<1>16. ASSUME NEW c \in Cpus, ExitFinish(c) PROVE TypeOK'
  <2>1. ipi' \in [Cpus -> BOOLEAN]
    BY <1>16, Zenon DEF ExitFinish
  <2>2. /\ req' \in [Cpus -> Requests]
        /\ where' \in [Threads -> ResumePoints]
        /\ pc' \in [Cpus -> Labels]
    BY <1>16, LeaveExitType, Zenon DEF ExitFinish
  <2> QED
    BY <1>16, <2>1, <2>2, Zenon DEF ExitFinish
<1>17. ASSUME NEW c \in Cpus, TimerInterrupt(c) PROVE TypeOK'
  BY <1>17, Zenon DEF TimerInterrupt
<1>18. ASSUME NEW c \in Cpus, ExitInterrupt(c) PROVE TypeOK'
  <2>1. /\ req' \in [Cpus -> Requests]
        /\ where' \in [Threads -> ResumePoints]
        /\ pc' \in [Cpus -> Labels]
    <3>1. CASE ~alive[cur[c]]
      BY <1>18, <3>1, RequestTypes, StartSwitchType, Zenon DEF ExitInterrupt, ResumePoints
    <3>2. CASE alive[cur[c]]
      BY <1>18, <3>2, Zenon DEF ExitInterrupt
    <3> QED
      BY <3>1, <3>2, Zenon
  <2> QED
    BY <1>18, <2>1, Zenon DEF ExitInterrupt
<1>19. ASSUME NEW c \in Cpus, ThreadYield(c) PROVE TypeOK'
  BY <1>19, RequestTypes, Zenon DEF ThreadYield, StartSwitch, ResumePoints
<1>20. ASSUME NEW c \in Cpus, NEW post \in {"None", "SetTimeout"}, ThreadSuspend(c, post)
       PROVE TypeOK'
  BY <1>20, RequestTypes, Zenon DEF ThreadSuspend, StartSwitch, ResumePoints
<1>21. ASSUME NEW c \in Cpus, NEW post \in {"None", "SetTimeout"}, WaitForEvent(c, post)
       PROVE TypeOK'
  <2>1. FutureRef(cur[c]) \in ThreadRefs
    BY DEF FutureRef, ThreadRefs
  <2> QED
    BY <1>21, <2>1, RequestTypes, Zenon DEF WaitForEvent, StartSwitch, ResumePoints
<1>22. ASSUME NEW c \in Cpus, Signal(c) PROVE TypeOK'
  BY <1>22 DEF Signal, StartWake, Wakers
<1>23. ASSUME NEW c \in Cpus, NEW t \in Users, ThreadResume(c, t) PROVE TypeOK'
  <2>1. CurrentRef(t) \in ThreadRefs /\ "Ready" \in ThreadStates /\ "Resume" \in Wakers
    BY Zenon DEF CurrentRef, ThreadRefs, ThreadStates, Wakers
  <2>2. gen' \in [Threads -> Nat] /\ state' \in [Threads -> ThreadStates]
    BY <1>23, <2>1, SetStateType, Zenon DEF ThreadResume
  <2> QED
    BY <1>23, <2>1, <2>2, Zenon DEF ThreadResume
<1>24. ASSUME NEW c \in Cpus, NEW t \in Users, ThreadDestroyOther(c, t) PROVE TypeOK'
  <2>1. CurrentRef(t) \in ThreadRefs /\ "Dead" \in ThreadStates
    BY Zenon DEF CurrentRef, ThreadRefs, ThreadStates
  <2>2. gen' \in [Threads -> Nat] /\ state' \in [Threads -> ThreadStates]
    BY <1>24, <2>1, SetStateType, Zenon DEF ThreadDestroyOther
  <2> QED
    BY <1>24, <2>1, <2>2, Zenon DEF ThreadDestroyOther
<1>25. ASSUME NEW c \in Cpus, ThreadDestroySelf(c) PROVE TypeOK'
  BY <1>25, RequestTypes, Zenon DEF ThreadDestroySelf, StartSwitch, ResumePoints
<1>26. ASSUME NEW c \in Cpus, NEW t \in Users, NEW g \in Groups,
              NEW start \in {"Ready", "Suspended"}, ThreadNew(c, t, g, start)
       PROVE TypeOK'
  <2>1. ready' \in Seq(Threads)
    BY <1>26, AppendProperties, Zenon DEF ThreadNew
  <2>2. members' \in [Groups -> SUBSET Users]
    BY <1>26, Zenon DEF ThreadNew
  <2>3. gen' \in [Threads -> Nat] /\ state' \in [Threads -> ThreadStates]
    <3>1. start \in ThreadStates
      BY Zenon DEF ThreadStates
    <3> QED
      BY <1>26, <3>1, SetStateType, Zenon DEF ThreadNew
  <2> QED
    BY <1>26, <2>1, <2>2, <2>3, Zenon DEF ThreadNew
<1>27. ASSUME NEW c \in Cpus, NEW g \in Groups, ThreadGroupExit(c, g) PROVE TypeOK'
  BY <1>27, Zenon DEF ThreadGroupExit
<1>28. CASE UNCHANGED vars
  BY <1>28, Zenon DEF vars
<1>29. ASSUME NEW c \in Cpus, NEW g \in Groups, ThreadGroupDrop(c, g) PROVE TypeOK'
  BY <1>29, Zenon DEF ThreadGroupDrop
<1>30. ASSUME NEW c \in Cpus, NEW g \in Groups, ExitInnerDrops(c, g) PROVE TypeOK'
  <2>1. spared' \subseteq Users /\ members' \in [Groups -> SUBSET Users]
    BY <1>30, Zenon DEF ExitInnerDrops
  <2>2. alive' \in [Threads -> BOOLEAN] /\ ipi' \in [Cpus -> BOOLEAN]
    BY <1>30, Zenon DEF ExitInnerDrops
  <2> QED
    BY <1>30, <2>1, <2>2, Zenon DEF ExitInnerDrops
<1>31. ASSUME NEW c \in Cpus, ReleaseGroup(c) PROVE TypeOK'
  BY <1>31, LeaveExitType, Zenon DEF ReleaseGroup
<1>32. ASSUME NEW c \in Cpus, ReleaseLast(c) PROVE TypeOK'
  BY <1>32, Zenon DEF ReleaseLast
<1> HIDE DEF TypeOK
<1> QED
  BY <1>1, <1>2, <1>3, <1>4, <1>5, <1>6, <1>7, <1>8, <1>9, <1>10, <1>11, <1>12, <1>13,
     <1>14, <1>15, <1>16, <1>17, <1>18, <1>19, <1>20, <1>21, <1>22, <1>23, <1>24, <1>25,
     <1>26, <1>27, <1>28, <1>29, <1>30, <1>31, <1>32, Zenon
     DEF Next, KernelStep, Syscall

(***************************************************************************)
(* The types hold in every reachable state, for every number of cpus,      *)
(* threads and groups.                                                     *)
(***************************************************************************)
THEOREM TypeCorrect == Spec => []TypeOK
BY TypeInit, TypeStep, PTL DEF Spec

-----------------------------------------------------------------------------
(* Status words never go back to their first generation                    *)

(***************************************************************************)
(* An idle thread at generation 0 still has its first status word; every   *)
(* reference, and every thread being switched out, is past generation 0.   *)
(***************************************************************************)
IdleFresh == \A c \in Cpus : gen[c] = 0 => state[c] = "Suspended"

RefsStarted ==
  /\ \A r \in waits \cup timeouts : r.gen > 0
  /\ \A c \in Cpus : pc[c] = "wake" => arg[c].gen > 0

OldStarted ==
  \A c \in Cpus : /\ pc[c] = "new" => gen[cur[c]] > 0
                  /\ pc[c] \in {"post", "settimeout"} => gen[old[c]] > 0

Started == IdleFresh /\ RefsStarted /\ OldStarted

(***************************************************************************)
(* It holds when the cpus start.                                           *)
(***************************************************************************)
LEMMA StartedInit == Init => Started
BY SchedAssumption DEF Init, Started, IdleFresh, RefsStarted, OldStarted, Threads

(***************************************************************************)
(* Setting a thread's state moves its status word past generation 0.       *)
(***************************************************************************)
LEMMA SetStateStarts ==
  ASSUME TypeOK, NEW t \in Threads, NEW s, SetState(t, s)
  PROVE  /\ gen'[t] > 0
         /\ \A u \in Threads : gen'[u] > 0 \/ (gen'[u] = gen[u] /\ state'[u] = state[u])
<1>1. gen \in [Threads -> Nat] /\ state \in [Threads -> ThreadStates]
  BY Zenon DEF TypeOK
<1>2. gen' = [gen EXCEPT ![t] = gen[t] + 1] /\ state' = [state EXCEPT ![t] = s]
  BY Zenon DEF SetState
<1>3. gen'[t] = gen[t] + 1
  BY <1>1, <1>2, Zenon
<1>4. gen[t] \in Nat
  BY <1>1, Zenon
<1>5. gen'[t] > 0
  BY <1>3, <1>4
<1>6. \A u \in Threads : u # t => gen'[u] = gen[u] /\ state'[u] = state[u]
  BY <1>1, <1>2, Zenon
<1> QED
  BY <1>5, <1>6, Zenon

(***************************************************************************)
(* What another cpu than c holds stays as it is.                           *)
(***************************************************************************)
ElsewhereSame(c) ==
  \A d \in Cpus : d # c => /\ pc'[d] = pc[d] /\ arg'[d] = arg[d]
                           /\ cur'[d] = cur[d] /\ old'[d] = old[d]

(***************************************************************************)
(* Most steps move the label of their cpu, and at most its argument.       *)
(***************************************************************************)
LEMMA LabelStep ==
  ASSUME TypeOK, NEW c \in Cpus, NEW label, NEW x,
         pc' = [pc EXCEPT ![c] = label],
         arg' = arg \/ arg' = [arg EXCEPT ![c] = x],
         cur' = cur, old' = old
  PROVE  /\ ElsewhereSame(c)
         /\ pc'[c] = label
         /\ arg' = [arg EXCEPT ![c] = x] => arg'[c] = x
<1>1. pc \in [Cpus -> Labels] /\ arg \in [Cpus -> ThreadRefs]
  BY Zenon DEF TypeOK
<1>2. pc'[c] = label /\ \A d \in Cpus : d # c => pc'[d] = pc[d]
  BY <1>1, Zenon
<1>3. /\ arg' = [arg EXCEPT ![c] = x] => arg'[c] = x
      /\ \A d \in Cpus : d # c => arg'[d] = arg[d]
  BY <1>1, Zenon
<1> QED
  BY <1>2, <1>3, Zenon DEF ElsewhereSame

(***************************************************************************)
(* A step of cpu c keeps Started when status words only move past          *)
(* generation 0 and what c itself holds is started.                        *)
(***************************************************************************)
LEMMA StartedFrame ==
  ASSUME TypeOK', Started, NEW c \in Cpus,
         \A u \in Threads : gen'[u] > 0 \/ (gen'[u] = gen[u] /\ state'[u] = state[u]),
         ElsewhereSame(c),
         \A r \in waits' \cup timeouts' : r.gen > 0,
         pc'[c] = "wake" => arg'[c].gen > 0,
         pc'[c] = "new" => gen'[cur'[c]] > 0,
         pc'[c] \in {"post", "settimeout"} => gen'[old'[c]] > 0
  PROVE  Started'
<1>1. ~(0 > 0)
  OBVIOUS
<1>2. \A d \in Cpus : cur'[d] \in Threads /\ old'[d] \in Threads
  BY Zenon DEF TypeOK
<1>3. IdleFresh'
  BY <1>1, ThreadKinds, Zenon DEF Started, IdleFresh
<1>4. RefsStarted'
  BY Zenon DEF Started, RefsStarted, ElsewhereSame
<1>5. OldStarted'
  <2>1. \A u \in Threads : gen[u] > 0 => gen'[u] > 0
    BY Zenon
  <2>2. ASSUME NEW d \in Cpus, d # c
        PROVE  /\ pc'[d] = "new" => gen'[cur'[d]] > 0
               /\ pc'[d] \in {"post", "settimeout"} => gen'[old'[d]] > 0
    BY <1>2, <2>1, <2>2, Zenon DEF Started, OldStarted, ElsewhereSame
  <2> QED
    BY <2>2, Zenon DEF OldStarted
<1> QED
  BY <1>3, <1>4, <1>5, Zenon DEF Started

(***************************************************************************)
(* A step that only moves its cpu's label, to one that holds nothing.      *)
(***************************************************************************)
LEMMA StartedLabel ==
  ASSUME TypeOK, TypeOK', Started, NEW c \in Cpus, NEW label,
         label \notin {"wake", "new", "post", "settimeout"},
         pc' = [pc EXCEPT ![c] = label],
         UNCHANGED <<gen, state, waits, timeouts, arg, cur, old>>
  PROVE  Started'
<1>1. ElsewhereSame(c) /\ pc'[c] = label
  BY LabelStep, Zenon
<1>2. \A r \in waits' \cup timeouts' : r.gen > 0
  BY Zenon DEF Started, RefsStarted
<1> QED
  BY <1>1, <1>2, StartedFrame, Zenon

(***************************************************************************)
(* Every action preserves it.                                              *)
(***************************************************************************)
LEMMA StartedStep == TypeOK /\ TypeOK' /\ Started /\ [Next]_vars => Started'
<1> SUFFICES ASSUME TypeOK, TypeOK', Started, [Next]_vars PROVE Started'
  BY Zenon
<1> USE SchedAssumption, ThreadKinds
<1> USE DEF Started, IdleFresh, RefsStarted, OldStarted, threadVars, queueVars, switchVars,
        localVars, apicVars, Goto
<1>1. ASSUME NEW c \in Cpus, GetNextThread(c) PROVE Started'
  <2>1. pc' = [pc EXCEPT ![c] = "old"] /\ UNCHANGED <<gen, state, waits, timeouts, arg, cur, old>>
    BY <1>1, Zenon DEF GetNextThread
  <2> HIDE DEF Started
  <2> QED
    BY <2>1, StartedLabel, Zenon
<1>2. ASSUME NEW c \in Cpus, NoAvailableThreads(c) PROVE Started'
  <2>1. PICK label \in {"panic", "run"} : pc' = [pc EXCEPT ![c] = label]
    BY <1>2, Zenon DEF NoAvailableThreads
  <2>2. UNCHANGED <<gen, state, waits, timeouts, arg, cur, old>>
    BY <1>2, Zenon DEF NoAvailableThreads
  <2> HIDE DEF Started
  <2> QED
    BY <2>1, <2>2, StartedLabel, Zenon
<1>3. ASSUME NEW c \in Cpus, SetOldState(c) PROVE Started'
  <2>0. pc' = [pc EXCEPT ![c] = "new"] /\ arg' = arg /\ cur' = cur /\ old' = old
    BY <1>3, Zenon DEF SetOldState
  <2>1. ElsewhereSame(c) /\ pc'[c] = "new"
    BY <2>0, LabelStep, Zenon
  <2>4. cur[c] \in Threads
    BY Zenon DEF TypeOK
  <2>2. /\ gen'[cur[c]] > 0
        /\ \A u \in Threads : gen'[u] > 0 \/ (gen'[u] = gen[u] /\ state'[u] = state[u])
    BY <1>3, <2>4, SetStateStarts, Zenon DEF SetOldState
  <2>3. \A r \in waits' \cup timeouts' : r.gen > 0
    BY <1>3, Zenon DEF SetOldState
  <2> HIDE DEF Started
  <2> QED
    BY <2>0, <2>1, <2>2, <2>3, StartedFrame, Zenon
<1>4. ASSUME NEW c \in Cpus, SwitchToNew(c) PROVE Started'
  <2>0. /\ pc' = [pc EXCEPT ![c] = "post"] /\ arg' = arg
        /\ old' = [old EXCEPT ![c] = cur[c]] /\ cur' = [cur EXCEPT ![c] = nxt[c]]
    BY <1>4, Zenon DEF SwitchToNew
  <2>5. /\ pc \in [Cpus -> Labels] /\ old \in [Cpus -> Threads]
        /\ cur \in [Cpus -> Threads] /\ nxt[c] \in Threads
    BY Zenon DEF TypeOK
  <2>6. pc'[c] = "post" /\ old'[c] = cur[c] /\ cur[c] \in Threads
    BY <2>0, <2>5, Zenon
  <2>1. ElsewhereSame(c)
    BY <2>0, <2>5, Zenon DEF ElsewhereSame
  <2>2. \A u \in Threads : gen'[u] > 0 \/ (gen'[u] = gen[u] /\ state'[u] = state[u])
    BY <1>4, <2>5, SetStateStarts, Zenon DEF SwitchToNew
  <2>4. gen[cur[c]] > 0
    BY <1>4, Zenon DEF SwitchToNew
  <2>3. \A r \in waits' \cup timeouts' : r.gen > 0
    BY <1>4, Zenon DEF SwitchToNew
  <2>7. gen'[old'[c]] > 0
    BY <2>2, <2>4, <2>6, Zenon
  <2> HIDE DEF Started
  <2> QED
    BY <2>1, <2>2, <2>3, <2>6, <2>7, StartedFrame, Zenon
<1>5. ASSUME NEW c \in Cpus, PostSwitchHandler(c) PROVE Started'
  <2>0. PICK label \in {"settimeout", "panic", "run"} : pc' = [pc EXCEPT ![c] = label]
    BY <1>5, Zenon DEF PostSwitchHandler, ReturnToThread
  <2>5. arg' = arg /\ cur' = cur /\ old' = old
    BY <1>5, Zenon DEF PostSwitchHandler
  <2>1. ElsewhereSame(c) /\ pc'[c] = label
    BY <2>0, <2>5, LabelStep, Zenon
  <2>2. \A u \in Threads : gen'[u] = gen[u] /\ state'[u] = state[u]
    BY <1>5, Zenon DEF PostSwitchHandler
  <2>3. \A r \in waits' \cup timeouts' : r.gen > 0
    BY <1>5, Zenon DEF PostSwitchHandler
  <2>4. gen[old[c]] > 0 /\ old[c] \in Threads
    BY <1>5, Zenon DEF PostSwitchHandler, TypeOK
  <2>6. gen'[old'[c]] > 0
    BY <2>2, <2>4, <2>5, Zenon
  <2> HIDE DEF Started
  <2> QED
    BY <2>0, <2>1, <2>2, <2>3, <2>6, StartedFrame, Zenon
<1>6. ASSUME NEW c \in Cpus, SetTimeout(c) PROVE Started'
  <2>0. PICK label \in {"panic", "run"} : pc' = [pc EXCEPT ![c] = label]
    BY <1>6, Zenon DEF SetTimeout, ReturnToThread
  <2>5. arg' = arg /\ cur' = cur /\ old' = old
    BY <1>6, Zenon DEF SetTimeout
  <2>1. ElsewhereSame(c) /\ pc'[c] = label
    BY <2>0, <2>5, LabelStep, Zenon
  <2>2. \A u \in Threads : gen'[u] = gen[u] /\ state'[u] = state[u]
    BY <1>6, Zenon DEF SetTimeout
  <2>3. \A r \in waits' \cup timeouts' : r.gen > 0
    <3>1. CurrentRef(old[c]).gen = gen[old[c]] /\ gen[old[c]] > 0
      BY <1>6, Zenon DEF SetTimeout, CurrentRef
    <3>2. waits' = waits /\ timeouts' \subseteq timeouts \cup {CurrentRef(old[c])}
      BY <1>6, Zenon DEF SetTimeout
    <3> QED
      BY <3>1, <3>2, Zenon
  <2> HIDE DEF Started
  <2> QED
    BY <2>0, <2>1, <2>2, <2>3, StartedFrame, Zenon
<1>7. ASSUME NEW c \in Cpus, GetThreadAsReady(c) PROVE Started'
  <2>0. pc' = [pc EXCEPT ![c] = "insert"] /\ arg' = arg /\ cur' = cur /\ old' = old
    BY <1>7, Zenon DEF GetThreadAsReady
  <2>1. ElsewhereSame(c) /\ pc'[c] = "insert"
    BY <2>0, LabelStep, Zenon
  <2>4. arg[c].thread \in Threads
    BY Zenon DEF TypeOK, ThreadRefs
  <2>2. \A u \in Threads : gen'[u] > 0 \/ (gen'[u] = gen[u] /\ state'[u] = state[u])
    BY <1>7, <2>4, SetStateStarts, Zenon DEF GetThreadAsReady
  <2>3. \A r \in waits' \cup timeouts' : r.gen > 0
    BY <1>7, Zenon DEF GetThreadAsReady
  <2> HIDE DEF Started
  <2> QED
    BY <2>1, <2>2, <2>3, StartedFrame, Zenon
<1>8. ASSUME NEW c \in Cpus, DropStaleRef(c) PROVE Started'
  <2>1. pc' = [pc EXCEPT ![c] = ret[c]] /\ ret[c] \in {"run", "timer"}
    BY <1>8, Zenon DEF DropStaleRef, TypeOK
  <2>2. UNCHANGED <<gen, state, waits, timeouts, cur, old, arg>>
    BY <1>8, Zenon DEF DropStaleRef
  <2> HIDE DEF Started
  <2> QED
    BY <2>1, <2>2, StartedLabel, Zenon
<1>9. ASSUME NEW c \in Cpus, InsertWoken(c) PROVE Started'
  <2>1. pc' = [pc EXCEPT ![c] = ret[c]] /\ ret[c] \in {"run", "timer"}
    BY <1>9, Zenon DEF InsertWoken, TypeOK
  <2>2. UNCHANGED <<gen, state, waits, timeouts, cur, old, arg>>
    BY <1>9, Zenon DEF InsertWoken
  <2> HIDE DEF Started
  <2> QED
    BY <2>1, <2>2, StartedLabel, Zenon
<1>10. ASSUME NEW c \in Cpus, TimerLock(c) PROVE Started'
  <2>1. pc' = [pc EXCEPT ![c] = "timer"] /\ UNCHANGED <<gen, state, waits, timeouts, arg, cur, old>>
    BY <1>10, Zenon DEF TimerLock
  <2> HIDE DEF Started
  <2> QED
    BY <2>1, StartedLabel, Zenon
<1>11. ASSUME NEW c \in Cpus, WakeExpired(c) PROVE Started'
  <2>0. PICK r \in timeouts : StartWake(c, r, "Timeout", "timer")
    BY <1>11, Zenon DEF WakeExpired
  <2>5. /\ pc' = [pc EXCEPT ![c] = "wake"] /\ arg' = [arg EXCEPT ![c] = r]
        /\ cur' = cur /\ old' = old
    BY <1>11, <2>0, Zenon DEF WakeExpired, StartWake
  <2>1. ElsewhereSame(c) /\ pc'[c] = "wake" /\ arg'[c] = r
    BY <2>5, LabelStep, Zenon
  <2>2. \A u \in Threads : gen'[u] = gen[u] /\ state'[u] = state[u]
    BY <1>11, Zenon DEF WakeExpired
  <2>3. \A q \in waits' \cup timeouts' : q.gen > 0
    BY <1>11, Zenon DEF WakeExpired
  <2>4. r.gen > 0
    BY <2>0, Zenon
  <2> HIDE DEF Started
  <2> QED
    BY <2>1, <2>2, <2>3, <2>4, StartedFrame, Zenon
<1>12. ASSUME NEW c \in Cpus, TimerReturn(c) PROVE Started'
  <2>1. pc' = [pc EXCEPT ![c] = "run"] /\ UNCHANGED <<gen, state, waits, timeouts, arg, cur, old>>
    BY <1>12, Zenon DEF TimerReturn
  <2> HIDE DEF Started
  <2> QED
    BY <2>1, StartedLabel, Zenon
<1>13. ASSUME NEW c \in Cpus, TimerPreempt(c) PROVE Started'
  <2>0. pc' = [pc EXCEPT ![c] = "next"] /\ arg' = arg /\ cur' = cur /\ old' = old
    BY <1>13, Zenon DEF TimerPreempt, StartSwitch
  <2>1. ElsewhereSame(c) /\ pc'[c] = "next"
    BY <2>0, LabelStep, Zenon
  <2>2. \A u \in Threads : gen'[u] = gen[u] /\ state'[u] = state[u]
    BY <1>13, Zenon DEF TimerPreempt
  <2>3. \A r \in waits' \cup timeouts' : r.gen > 0
    BY <1>13, Zenon DEF TimerPreempt
  <2> HIDE DEF Started
  <2> QED
    BY <2>1, <2>2, <2>3, StartedFrame, Zenon
<1>14. ASSUME NEW c \in Cpus, RemoveThread(c) PROVE Started'
  <2>1. pc' = [pc EXCEPT ![c] = "run"] /\ UNCHANGED <<gen, state, waits, timeouts, arg, cur, old>>
    BY <1>14, Zenon DEF RemoveThread
  <2> HIDE DEF Started
  <2> QED
    BY <2>1, StartedLabel, Zenon
<1>15. ASSUME NEW c \in Cpus, ExitInner(c) PROVE Started'
  BY <1>15, Zenon DEF ExitInner
<1>16. ASSUME NEW c \in Cpus, ExitFinish(c) PROVE Started'
  <2>1. PICK label \in {"run", "next", "release"} : pc' = [pc EXCEPT ![c] = label]
    BY <1>16, Zenon DEF ExitFinish, LeaveExit, StartSwitch
  <2>2. UNCHANGED <<gen, state, waits, timeouts, arg, cur, old>>
    BY <1>16, Zenon DEF ExitFinish
  <2> HIDE DEF Started
  <2> QED
    BY <2>1, <2>2, StartedLabel, Zenon
<1>17. ASSUME NEW c \in Cpus, TimerInterrupt(c) PROVE Started'
  <2>1. pc' = [pc EXCEPT ![c] = "lockq"] /\ UNCHANGED <<gen, state, waits, timeouts, arg, cur, old>>
    BY <1>17, Zenon DEF TimerInterrupt
  <2> HIDE DEF Started
  <2> QED
    BY <2>1, StartedLabel, Zenon
<1>18. ASSUME NEW c \in Cpus, ExitInterrupt(c) PROVE Started'
  <2>1. pc' = pc \/ pc' = [pc EXCEPT ![c] = "next"]
    BY <1>18, Zenon DEF ExitInterrupt, StartSwitch
  <2>2. UNCHANGED <<gen, state, waits, timeouts, cur, old, arg>>
    BY <1>18, Zenon DEF ExitInterrupt
  <2>3. CASE pc' = pc
    BY <2>2, <2>3, Zenon
  <2>4. CASE pc' = [pc EXCEPT ![c] = "next"]
    <3> HIDE DEF Started
    <3> QED
      BY <2>2, <2>4, StartedLabel, Zenon
  <2> QED
    BY <2>1, <2>3, <2>4, Zenon
<1>19. ASSUME NEW c \in Cpus, ThreadYield(c) PROVE Started'
  <2>1. pc' = [pc EXCEPT ![c] = "next"] /\ UNCHANGED <<gen, state, waits, timeouts, arg, cur, old>>
    BY <1>19, Zenon DEF ThreadYield, StartSwitch
  <2> HIDE DEF Started
  <2> QED
    BY <2>1, StartedLabel, Zenon
<1>20. ASSUME NEW c \in Cpus, NEW post \in {"None", "SetTimeout"}, ThreadSuspend(c, post)
       PROVE Started'
  <2>0. pc' = [pc EXCEPT ![c] = "next"] /\ arg' = arg /\ cur' = cur /\ old' = old
    BY <1>20, Zenon DEF ThreadSuspend, StartSwitch
  <2>1. ElsewhereSame(c) /\ pc'[c] = "next"
    BY <2>0, LabelStep, Zenon
  <2>2. \A u \in Threads : gen'[u] = gen[u] /\ state'[u] = state[u]
    BY <1>20, Zenon DEF ThreadSuspend
  <2>3. \A r \in waits' \cup timeouts' : r.gen > 0
    BY <1>20, Zenon DEF ThreadSuspend
  <2> HIDE DEF Started
  <2> QED
    BY <2>1, <2>2, <2>3, StartedFrame, Zenon
<1>21. ASSUME NEW c \in Cpus, NEW post \in {"None", "SetTimeout"}, WaitForEvent(c, post)
       PROVE Started'
  <2>0. pc' = [pc EXCEPT ![c] = "next"] /\ arg' = arg /\ cur' = cur /\ old' = old
    BY <1>21, Zenon DEF WaitForEvent, StartSwitch
  <2>1. ElsewhereSame(c) /\ pc'[c] = "next"
    BY <2>0, LabelStep, Zenon
  <2>2. \A u \in Threads : gen'[u] = gen[u] /\ state'[u] = state[u]
    BY <1>21, Zenon DEF WaitForEvent
  <2>3. \A r \in waits' \cup timeouts' : r.gen > 0
    <3>1. gen[cur[c]] \in Nat /\ FutureRef(cur[c]).gen = gen[cur[c]] + 1
      BY Zenon DEF TypeOK, FutureRef
    <3>2. FutureRef(cur[c]).gen > 0
      BY <3>1
    <3>3. timeouts' = timeouts /\ waits' = waits \cup {FutureRef(cur[c])}
      BY <1>21, Zenon DEF WaitForEvent
    <3> QED
      BY <3>2, <3>3, Zenon
  <2> HIDE DEF Started
  <2> QED
    BY <2>1, <2>2, <2>3, StartedFrame, Zenon
<1>22. ASSUME NEW c \in Cpus, Signal(c) PROVE Started'
  <2>0. PICK r \in waits : StartWake(c, r, "Event", "run")
    BY <1>22, Zenon DEF Signal
  <2>5. /\ pc' = [pc EXCEPT ![c] = "wake"] /\ arg' = [arg EXCEPT ![c] = r]
        /\ cur' = cur /\ old' = old
    BY <1>22, <2>0, Zenon DEF Signal, StartWake
  <2>1. ElsewhereSame(c) /\ pc'[c] = "wake" /\ arg'[c] = r
    BY <2>5, LabelStep, Zenon
  <2>2. \A u \in Threads : gen'[u] = gen[u] /\ state'[u] = state[u]
    BY <1>22, Zenon DEF Signal
  <2>3. \A q \in waits' \cup timeouts' : q.gen > 0
    BY <1>22, Zenon DEF Signal
  <2>4. r.gen > 0
    BY <2>0, Zenon
  <2> HIDE DEF Started
  <2> QED
    BY <2>1, <2>2, <2>3, <2>4, StartedFrame, Zenon
<1>23. ASSUME NEW c \in Cpus, NEW t \in Users, ThreadResume(c, t) PROVE Started'
  <2>0. /\ pc' = [pc EXCEPT ![c] = "insert"] /\ arg' = [arg EXCEPT ![c] = CurrentRef(t)]
        /\ cur' = cur /\ old' = old
    BY <1>23, Zenon DEF ThreadResume
  <2>1. ElsewhereSame(c) /\ pc'[c] = "insert"
    BY <2>0, LabelStep, Zenon
  <2>2. \A u \in Threads : gen'[u] > 0 \/ (gen'[u] = gen[u] /\ state'[u] = state[u])
    BY <1>23, SetStateStarts, Zenon DEF ThreadResume
  <2>3. \A r \in waits' \cup timeouts' : r.gen > 0
    BY <1>23, Zenon DEF ThreadResume
  <2> HIDE DEF Started
  <2> QED
    BY <2>1, <2>2, <2>3, StartedFrame, Zenon
<1>24. ASSUME NEW c \in Cpus, NEW t \in Users, ThreadDestroyOther(c, t) PROVE Started'
  <2>0. /\ pc' = [pc EXCEPT ![c] = "remove"] /\ arg' = [arg EXCEPT ![c] = CurrentRef(t)]
        /\ cur' = cur /\ old' = old
    BY <1>24, Zenon DEF ThreadDestroyOther
  <2>1. ElsewhereSame(c) /\ pc'[c] = "remove"
    BY <2>0, LabelStep, Zenon
  <2>2. \A u \in Threads : gen'[u] > 0 \/ (gen'[u] = gen[u] /\ state'[u] = state[u])
    BY <1>24, SetStateStarts, Zenon DEF ThreadDestroyOther
  <2>3. \A r \in waits' \cup timeouts' : r.gen > 0
    BY <1>24, Zenon DEF ThreadDestroyOther
  <2> HIDE DEF Started
  <2> QED
    BY <2>1, <2>2, <2>3, StartedFrame, Zenon
<1>25. ASSUME NEW c \in Cpus, ThreadDestroySelf(c) PROVE Started'
  <2>1. pc' = [pc EXCEPT ![c] = "next"] /\ UNCHANGED <<gen, state, waits, timeouts, arg, cur, old>>
    BY <1>25, Zenon DEF ThreadDestroySelf, StartSwitch
  <2> HIDE DEF Started
  <2> QED
    BY <2>1, StartedLabel, Zenon
<1>26. ASSUME NEW c \in Cpus, NEW t \in Users, NEW g \in Groups,
              NEW start \in {"Ready", "Suspended"}, ThreadNew(c, t, g, start)
       PROVE Started'
  <2>1. UNCHANGED <<pc, arg, cur, old>> /\ pc[c] = "run"
    BY <1>26, Zenon DEF ThreadNew, InSyscall
  <2>4. ElsewhereSame(c)
    BY <2>1, Zenon DEF ElsewhereSame
  <2>2. \A u \in Threads : gen'[u] > 0 \/ (gen'[u] = gen[u] /\ state'[u] = state[u])
    BY <1>26, SetStateStarts, Zenon DEF ThreadNew
  <2>3. \A r \in waits' \cup timeouts' : r.gen > 0
    BY <1>26, Zenon DEF ThreadNew
  <2> HIDE DEF Started
  <2> QED
    BY <2>1, <2>2, <2>3, <2>4, StartedFrame, Zenon
<1>27. ASSUME NEW c \in Cpus, NEW g \in Groups, ThreadGroupExit(c, g) PROVE Started'
  <2>1. pc' = [pc EXCEPT ![c] = "kill"] /\ UNCHANGED <<gen, state, waits, timeouts, arg, cur, old>>
    BY <1>27, Zenon DEF ThreadGroupExit
  <2> HIDE DEF Started
  <2> QED
    BY <2>1, StartedLabel, Zenon
<1>28. CASE UNCHANGED vars
  BY <1>28, Zenon DEF vars
<1>29. ASSUME NEW c \in Cpus, NEW g \in Groups, ThreadGroupDrop(c, g) PROVE Started'
  <2>1. pc' = [pc EXCEPT ![c] = "drop"] /\ UNCHANGED <<gen, state, waits, timeouts, arg, cur, old>>
    BY <1>29, Zenon DEF ThreadGroupDrop
  <2> HIDE DEF Started
  <2> QED
    BY <2>1, StartedLabel, Zenon
<1>30. ASSUME NEW c \in Cpus, NEW g \in Groups, ExitInnerDrops(c, g) PROVE Started'
  BY <1>30, Zenon DEF ExitInnerDrops
<1>31. ASSUME NEW c \in Cpus, ReleaseGroup(c) PROVE Started'
  <2>1. PICK label \in {"run", "next"} : pc' = [pc EXCEPT ![c] = label]
    BY <1>31, Zenon DEF ReleaseGroup, LeaveExit, StartSwitch
  <2>2. UNCHANGED <<gen, state, waits, timeouts, arg, cur, old>>
    BY <1>31, Zenon DEF ReleaseGroup
  <2> HIDE DEF Started
  <2> QED
    BY <2>1, <2>2, StartedLabel, Zenon
<1>32. ASSUME NEW c \in Cpus, ReleaseLast(c) PROVE Started'
  <2>1. pc' = [pc EXCEPT ![c] = "drop"] /\ UNCHANGED <<gen, state, waits, timeouts, arg, cur, old>>
    BY <1>32, Zenon DEF ReleaseLast
  <2> HIDE DEF Started
  <2> QED
    BY <2>1, StartedLabel, Zenon
<1> HIDE DEF Started
<1> QED
  BY <1>1, <1>2, <1>3, <1>4, <1>5, <1>6, <1>7, <1>8, <1>9, <1>10, <1>11, <1>12, <1>13,
     <1>14, <1>15, <1>16, <1>17, <1>18, <1>19, <1>20, <1>21, <1>22, <1>23, <1>24, <1>25,
     <1>26, <1>27, <1>28, <1>29, <1>30, <1>31, <1>32, Zenon
     DEF Next, KernelStep, Syscall

-----------------------------------------------------------------------------
(* What each kind of step does to the place of every thread                *)

(***************************************************************************)
(* A step of cpu c leaves the switching state of the others alone.         *)
(***************************************************************************)
Elsewhere(c) ==
  \A d \in Cpus : d # c =>
    /\ pc'[d] = pc[d] /\ req'[d] = req[d] /\ nxt'[d] = nxt[d]
    /\ old'[d] = old[d] /\ arg'[d] = arg[d] /\ cur'[d] = cur[d]

(***************************************************************************)
(* Every thread has one place.                                             *)
(***************************************************************************)
Placed == RunningOwned /\ ScheduledOnce /\ NoLostThread

(***************************************************************************)
(* A killed thread stays killed.                                           *)
(***************************************************************************)
NoRevival == \A t \in Threads : alive'[t] => alive[t]

(***************************************************************************)
(* The labels at which a cpu may hold a Ready thread.                      *)
(***************************************************************************)
Holding == {"old", "new", "post", "insert"}

(***************************************************************************)
(* A step that touches neither a status word nor the ready list, and in    *)
(* which the cpu holds no Ready thread before or after.                    *)
(***************************************************************************)
LEMMA EmptyHanded ==
  ASSUME TypeOK, NEW c \in Cpus, Elsewhere(c), Placed, NoRevival,
         \A t \in Threads : ~InHand(c, t) /\ ~InHand(c, t)',
         pc[c] # "new", pc'[c] # "new",
         UNCHANGED <<gen, state, ready, cur>>
  PROVE  Placed'
<1>1. \A d \in Cpus, t \in Threads : InHand(d, t)' <=> InHand(d, t)
  BY DEF Elsewhere, InHand, HandsOver, SwitchedOut
<1>2. \A d \in Cpus : OwnsCurrent(d)' <=> OwnsCurrent(d)
  BY Zenon DEF Elsewhere, OwnsCurrent
<1>3. \A t \in Threads : (IsRunning(t)' <=> IsRunning(t)) /\ (Queued(t)' <=> Queued(t))
  BY Zenon DEF IsRunning, Queued
<1>4. RunningOwned'
  BY <1>2, <1>3, Zenon DEF Placed, RunningOwned, TypeOK
<1>5. ScheduledOnce'
  <2>1. \A d \in Cpus : pc'[d] = "new" /\ HandsOver(d)' => nxt'[d] # cur'[d]
    BY ZenonT(60) DEF Elsewhere, HandsOver, Placed, ScheduledOnce
  <2> QED
    BY <1>1, <1>3, <2>1, Zenon DEF Placed, ScheduledOnce
<1>6. NoLostThread'
  BY <1>1, <1>3, Zenon DEF Placed, NoLostThread, NoRevival
<1> QED
  BY <1>4, <1>5, <1>6, Zenon DEF Placed

(***************************************************************************)
(* In particular a step between labels at which nothing is held.           *)
(***************************************************************************)
LEMMA CalmStep ==
  ASSUME TypeOK, NEW c \in Cpus, Elsewhere(c), Placed, NoRevival,
         pc[c] \notin Holding, pc'[c] \notin Holding,
         UNCHANGED <<gen, state, ready, cur>>
  PROVE  Placed'
<1>1. \A t \in Threads : ~InHand(c, t) /\ ~InHand(c, t)'
  BY Zenon DEF InHand, HandsOver, Holding
<1> QED
  BY <1>1, EmptyHanded, Zenon DEF Holding

(***************************************************************************)
(* What the other cpus hold and own does not change.                       *)
(***************************************************************************)
LEMMA OthersHold ==
  ASSUME NEW c \in Cpus, Elsewhere(c)
  PROVE  /\ \A d \in Cpus, t \in Threads : d # c => (InHand(d, t)' <=> InHand(d, t))
         /\ \A d \in Cpus : d # c => (OwnsCurrent(d)' <=> OwnsCurrent(d)) /\ cur'[d] = cur[d]
         /\ \A d \in Cpus : d # c => (HandsOver(d)' <=> HandsOver(d)) /\ nxt'[d] = nxt[d]
                                     /\ pc'[d] = pc[d]
BY ZenonT(60) DEF Elsewhere, InHand, HandsOver, SwitchedOut, OwnsCurrent

(***************************************************************************)
(* insert_ready_thread of a thread that is not in the list.                *)
(***************************************************************************)
LEMMA AppendQueue ==
  ASSUME NEW t \in Threads, ready \in Seq(Threads), ready' = Append(ready, t), ~Queued(t),
         \A i, j \in 1..Len(ready) : ready[i] = ready[j] => i = j
  PROVE  /\ \A u \in Threads : Queued(u)' <=> Queued(u) \/ u = t
         /\ \A i, j \in 1..Len(ready') : ready'[i] = ready'[j] => i = j
<1>1. Len(ready) \in Nat /\ Len(ready') = Len(ready) + 1
  BY LenProperties, AppendProperties, ZenonT(60)
<1>2. /\ \A i \in 1..Len(ready) : ready'[i] = ready[i]
      /\ ready'[Len(ready) + 1] = t
  BY AppendProperties
<1>3. \A i \in 1..Len(ready) : ready[i] # t
  BY Zenon DEF Queued
<1>4. \A i, j \in 1..Len(ready') : ready'[i] = ready'[j] => i = j
  BY <1>1, <1>2, <1>3
<1>5. \A u \in Threads : Queued(u)' <=> Queued(u) \/ u = t
  BY <1>1, <1>2 DEF Queued
<1> QED
  BY <1>4, <1>5, Zenon

(***************************************************************************)
(* get_next_thread: the popped thread and everything before it leave the   *)
(* list.                                                                   *)
(***************************************************************************)
LEMMA PopQueue ==
  ASSUME ready \in Seq(Threads), NEW i \in 1..Len(ready),
         ready' = SubSeq(ready, i + 1, Len(ready)),
         \A j, k \in 1..Len(ready) : ready[j] = ready[k] => j = k
  PROVE  /\ Queued(ready[i])
         /\ \A t \in Threads : Queued(t)' => Queued(t) /\ t # ready[i]
         /\ \A t \in Threads : Queued(t) =>
              Queued(t)' \/ \E j \in 1..i : ready[j] = t
         /\ \A j, k \in 1..Len(ready') : ready'[j] = ready'[k] => j = k
<1>1. Len(ready) \in Nat
  BY LenProperties, Zenon
<1>2. /\ Len(ready') = Len(ready) - i
      /\ \A j \in 1..(Len(ready) - i) : ready'[j] = ready[i + j]
  BY SuffixType, Zenon
<1>3. \A j, k \in 1..Len(ready') : ready'[j] = ready'[k] => j = k
  BY <1>1, <1>2
<1>4. \A t \in Threads : Queued(t)' => Queued(t) /\ t # ready[i]
  BY <1>1, <1>2 DEF Queued
<1>5. ASSUME NEW t \in Threads, Queued(t) PROVE Queued(t)' \/ \E j \in 1..i : ready[j] = t
  <2>1. PICK k \in 1..Len(ready) : ready[k] = t
    BY <1>5, Zenon DEF Queued
  <2>2. CASE k <= i
    BY <1>1, <2>1, <2>2
  <2>3. CASE k > i
    <3>1. k - i \in 1..Len(ready') /\ ready'[k - i] = t
      BY <1>1, <1>2, <2>1, <2>3
    <3> QED
      BY <3>1, Zenon DEF Queued
  <2> QED
    BY <1>1, <2>2, <2>3
<1> QED
  BY <1>3, <1>4, <1>5, Zenon DEF Queued

(***************************************************************************)
(* A suspended thread becomes Ready in the hands of the cpu that wakes it. *)
(***************************************************************************)
LEMMA WakeStep ==
  ASSUME TypeOK, Placed, NEW c \in Cpus, Elsewhere(c), NEW t \in Threads,
         state[t] = "Suspended", t \in Cpus => gen[t] > 0, SetState(t, "Ready"),
         pc[c] \notin Holding, pc'[c] = "insert", arg'[c].thread = t,
         UNCHANGED <<alive, ready, cur>>
  PROVE  Placed'
<1>1. \A u \in Threads : ~InHand(c, u)
  BY Zenon DEF InHand, HandsOver, Holding
<1>2. \A u \in Threads : InHand(c, u)' <=> u = t
  BY Zenon DEF InHand, HandsOver
<1>3. /\ state'[t] = "Ready" /\ gen'[t] > 0
      /\ \A u \in Threads : u # t => state'[u] = state[u] /\ gen'[u] = gen[u]
  BY DEF SetState, TypeOK
<1>4. ~IsRunning(t) /\ ~IsRunning(t)'
  BY <1>3 DEF IsRunning
<1>5. \A u \in Threads : IsRunning(u)' <=> IsRunning(u)
  BY <1>3, <1>4, Zenon DEF IsRunning
<1>6. OwnsCurrent(c) /\ OwnsCurrent(c)'
  BY Zenon DEF OwnsCurrent, Holding
<1>7. RunningOwned'
  <2>1. RunningOwned /\ cur \in [Cpus -> Threads]
    BY Zenon DEF Placed, TypeOK
  <2>2. \A d \in Cpus : OwnsCurrent(d)' <=> OwnsCurrent(d)
    BY <1>6, OthersHold, Zenon
  <2> QED
    BY <1>5, <2>1, <2>2, Zenon DEF RunningOwned
<1>8. \A u \in Threads : Queued(u)' <=> Queued(u)
  BY Zenon DEF Queued
<1>9. ~Queued(t) /\ \A d \in Cpus : ~InHand(d, t)
  BY Zenon DEF Placed, ScheduledOnce
<1>10. ScheduledOnce'
  BY <1>1, <1>2, <1>3, <1>8, <1>9, OthersHold DEF Placed, ScheduledOnce
<1>11. NoLostThread'
  BY <1>1, <1>2, <1>3, <1>8, OthersHold DEF Placed, NoLostThread
<1> QED
  BY <1>7, <1>10, <1>11, Zenon DEF Placed

(***************************************************************************)
(* The popped thread moves from the ready list into the hands of the cpu;  *)
(* only killed threads are dropped.                                        *)
(***************************************************************************)
LEMMA GetNextPlaced ==
  ASSUME TypeOK, Placed, NEW c \in Cpus, GetNextThread(c), Elsewhere(c)
  PROVE  Placed'
<1>1. PICK i \in 1..Len(ready) : /\ IsFirstLive(i)
                                 /\ nxt' = [nxt EXCEPT ![c] = ready[i]]
                                 /\ ready' = SubSeq(ready, i + 1, Len(ready))
  BY Zenon DEF GetNextThread
<1>2. /\ pc[c] = "next" /\ pc'[c] = "old" /\ nxt'[c] = ready[i]
      /\ UNCHANGED <<gen, state, alive, cur>>
  BY <1>1, Zenon DEF GetNextThread, Goto, TypeOK, threadVars
<1>3. \A t \in Threads : ~InHand(c, t) /\ (InHand(c, t)' <=> t = ready[i])
  BY <1>2, Zenon DEF InHand, HandsOver
<1>4. ready \in Seq(Threads) /\ ready[i] \in Threads
  BY ElementOfSeq, Zenon DEF TypeOK
<1>5. /\ Queued(ready[i])
      /\ \A t \in Threads : Queued(t)' => Queued(t) /\ t # ready[i]
      /\ \A t \in Threads : Queued(t) => Queued(t)' \/ \E j \in 1..i : ready[j] = t
      /\ \A j, k \in 1..Len(ready') : ready'[j] = ready'[k] => j = k
  BY <1>1, <1>4, PopQueue, Zenon DEF Placed, ScheduledOnce
<1>6. RunningOwned'
  BY <1>2, OthersHold DEF Placed, RunningOwned, OwnsCurrent, IsRunning
<1>7. ScheduledOnce'
  <2>1. PICK n \in Threads : n = ready[i]
    BY <1>4, Zenon
  <2>2. \A d \in Cpus, t \in Threads : InHand(d, t)' => (d = c /\ t = n) \/ (d # c /\ InHand(d, t))
    <3>1. \A d \in Cpus, t \in Threads : d # c => (InHand(d, t)' <=> InHand(d, t))
      BY OthersHold, Zenon
    <3>2. \A t \in Threads : InHand(c, t)' => t = n
      BY <1>3, <2>1, Zenon
    <3> QED
      BY <3>1, <3>2
  <2>3. Queued(n) /\ ~Queued(n)' /\ \A t \in Threads : Queued(t)' => Queued(t)
    BY <1>5, <2>1, Zenon
  <2>4. /\ \A t \in Threads : Queued(t) => state[t] = "Ready"
        /\ \A d \in Cpus, t \in Threads : InHand(d, t) => ~Queued(t) /\ state[t] = "Ready"
        /\ \A d, e \in Cpus, t \in Threads : InHand(d, t) /\ InHand(e, t) => d = e
    BY Zenon DEF Placed, ScheduledOnce
  <2>5. \A d \in Cpus, t \in Threads : InHand(d, t)' => ~Queued(t)' /\ state[t] = "Ready"
    BY <2>2, <2>3, <2>4, Zenon
  <2>6. \A d, e \in Cpus, t \in Threads : InHand(d, t)' /\ InHand(e, t)' => d = e
    <3>1. \A d \in Cpus : ~InHand(d, n)
      BY <2>3, <2>4, Zenon
    <3> SUFFICES ASSUME NEW d \in Cpus, NEW e \in Cpus, NEW t \in Threads,
                        InHand(d, t)', InHand(e, t)'
                 PROVE  d = e
      BY Zenon
    <3>2. (d = c /\ t = n) \/ InHand(d, t)
      BY <2>2, Zenon
    <3>3. (e = c /\ t = n) \/ InHand(e, t)
      BY <2>2, Zenon
    <3> QED
      BY <2>4, <3>1, <3>2, <3>3, Zenon
  <2>7. \A d \in Cpus : pc'[d] = "new" /\ HandsOver(d)' => nxt'[d] # cur'[d]
    BY <1>2, OthersHold, Zenon DEF Placed, ScheduledOnce
  <2> QED
    BY <1>2, <1>5, <2>3, <2>4, <2>5, <2>6, <2>7, Zenon DEF ScheduledOnce
<1>8. ASSUME NEW t \in Threads, state'[t] = "Ready", alive'[t]
      PROVE  Queued(t)' \/ \E d \in Cpus : InHand(d, t)'
  <2>1. CASE Queued(t)
    <3>1. SUFFICES ASSUME NEW j \in 1..i, ready[j] = t PROVE t = ready[i]
      BY <1>3, <1>5, <2>1, Zenon
    <3>2. Len(ready) \in Nat
      BY <1>4, LenProperties, Zenon
    <3>3. j \in LivePositions
      BY <1>2, <1>8, <3>1, <3>2 DEF LivePositions
    <3>4. j = i
      BY <1>1, <3>2, <3>3 DEF IsFirstLive
    <3> QED
      BY <3>1, <3>4, Zenon
  <2>2. CASE ~Queued(t)
    BY <1>2, <1>3, <1>8, <2>2, OthersHold, ZenonT(60) DEF Placed, NoLostThread
  <2> QED
    BY <2>1, <2>2, Zenon
<1>9. NoLostThread'
  BY <1>8, Zenon DEF NoLostThread
<1> QED
  BY <1>6, <1>7, <1>9, Zenon DEF Placed

(***************************************************************************)
(* When get_next_thread finds nothing, it has dropped killed threads only. *)
(***************************************************************************)
LEMMA NoAvailablePlaced ==
  ASSUME TypeOK, Placed, NEW c \in Cpus, NoAvailableThreads(c), Elsewhere(c)
  PROVE  Placed'
<1>1. /\ pc[c] = "next" /\ pc'[c] \in {"panic", "run"}
      /\ UNCHANGED <<gen, state, alive, cur>> /\ ready' = <<>>
  BY Zenon DEF NoAvailableThreads, Goto, TypeOK, threadVars, switchVars
<1>2. \A t \in Threads : ~InHand(c, t) /\ ~InHand(c, t)'
  BY <1>1, Zenon DEF InHand, HandsOver
<1>3. \A t \in Threads : ~Queued(t)'
  BY <1>1 DEF Queued
<1>4. RunningOwned'
  BY <1>1, OthersHold DEF Placed, RunningOwned, OwnsCurrent, IsRunning
<1>5. ScheduledOnce'
  BY <1>1, <1>2, <1>3, OthersHold DEF Placed, ScheduledOnce
<1>6. \A t \in Threads : alive[t] => ~Queued(t)
  BY Zenon DEF NoAvailableThreads, LivePositions, Queued
<1>7. NoLostThread'
  BY <1>1, <1>2, <1>6, OthersHold, Zenon DEF Placed, NoLostThread
<1> QED
  BY <1>4, <1>5, <1>7, Zenon DEF Placed

(***************************************************************************)
(* old.set_state: the current thread stops being Running and, if it is to  *)
(* be Ready, is in the hands of the cpu until post_switch_handler.         *)
(***************************************************************************)
LEMMA SetOldPlaced ==
  ASSUME TypeOK, Started, Placed, NEW c \in Cpus, SetOldState(c), Elsewhere(c)
  PROVE  Placed'
<1>0. RunningOwned /\ ScheduledOnce /\ NoLostThread
  BY Zenon DEF Placed
<1>o. PICK o \in Threads : o = cur[c]
  BY Zenon DEF TypeOK
<1>1. /\ pc[c] = "old" /\ pc'[c] = "new" /\ o = cur[c]
      /\ UNCHANGED <<alive, ready, cur, nxt, req>>
      /\ SetState(o, req[c].state)
  BY <1>o, Zenon DEF SetOldState, Goto, TypeOK, queueVars, switchVars
<1>2. /\ state'[o] = req[c].state /\ gen'[o] > 0
      /\ \A u \in Threads : u # o => state'[u] = state[u] /\ gen'[u] = gen[u]
  BY <1>1 DEF SetState, TypeOK
<1>3. req[c].state # "Running" /\ (req[c].state = "Ready" <=> req[c].post = "InsertReadyQueue")
  BY Zenon DEF TypeOK, Requests
<1>4. OwnsCurrent(c) /\ ~OwnsCurrent(c)'
  BY <1>1, Zenon DEF OwnsCurrent
<1>5. IsRunning(o) /\ state[o] # "Ready"
  BY <1>0, <1>1, <1>4, Zenon DEF RunningOwned, IsRunning, Started, IdleFresh
<1>6. \A u \in Threads : IsRunning(u)' <=> IsRunning(u) /\ u # o
  BY <1>2, <1>3 DEF IsRunning
<1>7. RunningOwned'
  <2>1. \A d \in Cpus : OwnsCurrent(d)' <=> OwnsCurrent(d) /\ d # c
    BY <1>4, OthersHold, Zenon
  <2>2. cur \in [Cpus -> Threads]
    BY Zenon DEF TypeOK
  <2> QED
    BY <1>0, <1>1, <1>4, <1>6, <2>1, <2>2, Zenon DEF RunningOwned
<1>8. \A u \in Threads : InHand(c, u)' <=> InHand(c, u) \/ (req[c].state = "Ready" /\ u = o)
  BY <1>1, <1>3, Zenon DEF InHand, HandsOver, SwitchedOut
<1>9. \A u \in Threads : Queued(u)' <=> Queued(u)
  BY <1>1, Zenon DEF Queued
<1>10. ~Queued(o) /\ \A d \in Cpus : ~InHand(d, o)
  BY <1>0, <1>1, <1>5, Zenon DEF ScheduledOnce
<1>11. ScheduledOnce'
  <2>1. nxt[c] # o
    BY <1>1, <1>10, Zenon DEF InHand
  <2>2. \A d \in Cpus : pc'[d] = "new" /\ HandsOver(d)' => nxt'[d] # cur'[d]
    BY <1>0, <1>1, <2>1, OthersHold, ZenonT(60) DEF ScheduledOnce
  <2>3. \A d \in Cpus, u \in Threads :
          InHand(d, u)' => InHand(d, u) \/ (d = c /\ u = o /\ req[c].state = "Ready")
    BY <1>8, OthersHold, Zenon
  <2>4. \A d \in Cpus, u \in Threads : InHand(d, u)' => ~Queued(u)'
    BY <1>0, <1>9, <1>10, <2>3, Zenon DEF ScheduledOnce
  <2>5. \A d, e \in Cpus, u \in Threads : InHand(d, u)' /\ InHand(e, u)' => d = e
    <3>1. SUFFICES ASSUME NEW d \in Cpus, NEW e \in Cpus, NEW u \in Threads,
                          InHand(d, u)', InHand(e, u)'
                   PROVE  d = e
      BY Zenon
    <3>2. CASE u = o
      BY <1>10, <2>3, <3>1, <3>2, Zenon
    <3>3. CASE u # o
      <4>1. InHand(d, u) /\ InHand(e, u)
        BY <2>3, <3>1, <3>3, Zenon
      <4> QED
        BY <1>0, <4>1, Zenon DEF ScheduledOnce
    <3> QED
      BY <3>2, <3>3, Zenon
  <2>6. \A u \in Threads : Queued(u)' => state'[u] = "Ready"
    BY <1>0, <1>2, <1>9, <1>10, Zenon DEF ScheduledOnce
  <2>7. \A d \in Cpus, u \in Threads : InHand(d, u)' => state'[u] = "Ready"
    BY <1>0, <1>2, <1>10, <2>3, Zenon DEF ScheduledOnce
  <2> QED
    BY <1>0, <1>1, <2>2, <2>4, <2>5, <2>6, <2>7, Zenon DEF ScheduledOnce
<1>12. NoLostThread'
  <2>1. SUFFICES ASSUME NEW u \in Threads, state'[u] = "Ready", alive'[u]
                 PROVE  Queued(u)' \/ \E d \in Cpus : InHand(d, u)'
    BY Zenon DEF NoLostThread
  <2>2. CASE u = o
    BY <1>2, <1>8, <2>1, <2>2, Zenon
  <2>3. CASE u # o
    <3>1. Queued(u) \/ \E d \in Cpus : InHand(d, u)
      BY <1>0, <1>1, <1>2, <2>1, <2>3, Zenon DEF NoLostThread
    <3>2. \A d \in Cpus : InHand(d, u) => InHand(d, u)'
      BY <1>8, OthersHold, Zenon
    <3> QED
      BY <1>9, <3>1, <3>2, Zenon
  <2> QED
    BY <2>2, <2>3
<1> QED
  BY <1>7, <1>11, <1>12, Zenon DEF Placed

(***************************************************************************)
(* new.set_state: the thread in the cpu's hands becomes its current thread.*)
(***************************************************************************)
LEMMA SwitchPlaced ==
  ASSUME TypeOK, Started, Placed, NEW c \in Cpus, SwitchToNew(c), Elsewhere(c)
  PROVE  Placed'
<1>0. RunningOwned /\ ScheduledOnce /\ NoLostThread
  BY Zenon DEF Placed
<1>n. PICK n \in Threads, o \in Threads : n = nxt[c] /\ o = cur[c]
  BY Zenon DEF TypeOK
<1>1. /\ pc[c] = "new" /\ pc'[c] = "post" /\ n = nxt[c] /\ o = cur[c]
      /\ cur'[c] = n /\ old'[c] = o /\ UNCHANGED <<alive, ready, req>>
      /\ SetState(n, "Running")
  BY <1>n, Zenon DEF SwitchToNew, Goto, TypeOK, queueVars
<1>2. /\ state'[n] = "Running"
      /\ \A u \in Threads : u # n => state'[u] = state[u] /\ gen'[u] = gen[u]
  BY <1>1, Zenon DEF SetState, TypeOK
<1>3. InHand(c, n) /\ state[n] = "Ready"
  BY <1>0, <1>1, Zenon DEF InHand, ScheduledOnce
<1>4. ~IsRunning(n) /\ IsRunning(n)'
  BY <1>2, <1>3, Zenon DEF IsRunning, Started, IdleFresh
<1>5. \A u \in Threads : IsRunning(u)' <=> IsRunning(u) \/ u = n
  BY <1>2, <1>4, Zenon DEF IsRunning
<1>6. ~OwnsCurrent(c) /\ OwnsCurrent(c)'
  BY <1>1, Zenon DEF OwnsCurrent
<1>7. RunningOwned'
  <2>1. \A d \in Cpus : OwnsCurrent(d) => cur[d] # n
    BY <1>0, <1>4, Zenon DEF RunningOwned
  <2>2. cur \in [Cpus -> Threads]
    BY Zenon DEF TypeOK
  <2>3. \A d \in Cpus : OwnsCurrent(d)' => IsRunning(cur[d])'
    BY <1>0, <1>1, <1>5, <2>2, OthersHold, ZenonT(60) DEF RunningOwned
  <2>4. \A d, e \in Cpus : d # e /\ OwnsCurrent(d)' /\ OwnsCurrent(e)' => cur'[d] # cur'[e]
    <3>1. SUFFICES ASSUME NEW d \in Cpus, NEW e \in Cpus, d # e, OwnsCurrent(d)', OwnsCurrent(e)'
                   PROVE  cur'[d] # cur'[e]
      BY Zenon
    <3>2. CASE d # c /\ e # c
      <4>1. /\ OwnsCurrent(d) /\ cur'[d] = cur[d]
            /\ OwnsCurrent(e) /\ cur'[e] = cur[e]
        BY <3>1, <3>2, OthersHold, Zenon
      <4> QED
        BY <1>0, <3>1, <4>1, Zenon DEF RunningOwned
    <3>3. CASE d = c
      BY <1>1, <2>1, <3>1, <3>3, OthersHold, Zenon
    <3>4. CASE e = c
      BY <1>1, <2>1, <3>1, <3>4, OthersHold, Zenon
    <3> QED
      BY <3>2, <3>3, <3>4
  <2>5. \A t \in Threads : IsRunning(t)' => \E d \in Cpus : OwnsCurrent(d)' /\ cur'[d] = t
    BY <1>0, <1>1, <1>5, <1>6, OthersHold, ZenonT(60) DEF RunningOwned
  <2> QED
    BY <2>3, <2>4, <2>5, Zenon DEF RunningOwned
<1>8. \A u \in Threads : InHand(c, u) <=> InHand(c, u)' \/ u = n
  BY <1>1, Zenon DEF InHand, HandsOver, SwitchedOut
<1>9. ~InHand(c, n)'
  BY <1>0, <1>1, Zenon DEF InHand, HandsOver, SwitchedOut, ScheduledOnce
<1>10. \A u \in Threads : Queued(u)' <=> Queued(u)
  BY <1>1, Zenon DEF Queued
<1>11. ~Queued(n) /\ \A d \in Cpus : d # c => ~InHand(d, n)
  BY <1>0, <1>1, <1>3, Zenon DEF ScheduledOnce
<1>12. ScheduledOnce'
  <2>1. \A d \in Cpus : pc'[d] = "new" /\ HandsOver(d)' => nxt'[d] # cur'[d]
    BY <1>0, <1>1, OthersHold, ZenonT(60) DEF ScheduledOnce
  <2>2. \A d \in Cpus, u \in Threads : InHand(d, u)' => InHand(d, u) /\ u # n
    BY <1>8, <1>9, <1>11, OthersHold, Zenon
  <2>3. \A d \in Cpus, u \in Threads : InHand(d, u)' => ~Queued(u)'
    BY <1>0, <1>10, <2>2, Zenon DEF ScheduledOnce
  <2>4. \A d, e \in Cpus, u \in Threads : InHand(d, u)' /\ InHand(e, u)' => d = e
    BY <1>0, <2>2, Zenon DEF ScheduledOnce
  <2>5. \A u \in Threads : Queued(u)' => state'[u] = "Ready"
    BY <1>0, <1>2, <1>10, <1>11, Zenon DEF ScheduledOnce
  <2>6. \A d \in Cpus, u \in Threads : InHand(d, u)' => state'[u] = "Ready"
    BY <1>0, <1>2, <2>2, Zenon DEF ScheduledOnce
  <2> QED
    BY <1>0, <1>1, <2>1, <2>3, <2>4, <2>5, <2>6, Zenon DEF ScheduledOnce
<1>13. NoLostThread'
  BY <1>0, <1>1, <1>2, <1>8, <1>10, OthersHold, ZenonT(60) DEF NoLostThread
<1> QED
  BY <1>7, <1>12, <1>13, Zenon DEF Placed

(***************************************************************************)
(* insert_ready_thread: the only thread in the cpu's hands goes to the end *)
(* of the ready list.                                                      *)
(***************************************************************************)
LEMMA EnqueueStep ==
  ASSUME TypeOK, Placed, NEW c \in Cpus, Elsewhere(c), NEW t \in Threads,
         \A u \in Threads : (InHand(c, u) <=> u = t) /\ ~InHand(c, u)',
         pc[c] # "new", pc'[c] # "new", ready' = Append(ready, t),
         UNCHANGED <<gen, state, alive, cur>>
  PROVE  Placed'
<1>1. RunningOwned /\ ScheduledOnce /\ NoLostThread
  BY Zenon DEF Placed
<1>2. RunningOwned'
  BY <1>1, OthersHold DEF RunningOwned, OwnsCurrent, IsRunning
<1>3. InHand(c, t) /\ state[t] = "Ready" /\ ~Queued(t)
  BY <1>1, Zenon DEF ScheduledOnce
<1>4. /\ \A u \in Threads : Queued(u)' <=> Queued(u) \/ u = t
      /\ \A i, j \in 1..Len(ready') : ready'[i] = ready'[j] => i = j
  BY <1>1, <1>3, AppendQueue, Zenon DEF ScheduledOnce, TypeOK
<1>5. ScheduledOnce'
  <2>1. \A d \in Cpus : d # c => ~InHand(d, t)
    BY <1>1, <1>3, Zenon DEF ScheduledOnce
  <2>2. \A d \in Cpus : pc'[d] = "new" /\ HandsOver(d)' => nxt'[d] # cur'[d]
    BY <1>1, OthersHold, Zenon DEF ScheduledOnce
  <2>3. \A d \in Cpus, u \in Threads : InHand(d, u)' => InHand(d, u) /\ u # t
    BY <2>1, OthersHold, Zenon
  <2>4. \A d \in Cpus, u \in Threads : InHand(d, u)' => ~Queued(u)'
    BY <1>1, <1>4, <2>3, Zenon DEF ScheduledOnce
  <2>5. \A d, e \in Cpus, u \in Threads : InHand(d, u)' /\ InHand(e, u)' => d = e
    BY <1>1, <2>3, Zenon DEF ScheduledOnce
  <2>6. \A u \in Threads : Queued(u)' => state'[u] = "Ready"
    BY <1>1, <1>3, <1>4, Zenon DEF ScheduledOnce
  <2>7. \A d \in Cpus, u \in Threads : InHand(d, u)' => state'[u] = "Ready"
    BY <1>1, <2>3, Zenon DEF ScheduledOnce
  <2> QED
    BY <1>4, <2>2, <2>4, <2>5, <2>6, <2>7, Zenon DEF ScheduledOnce
<1>6. NoLostThread'
  <2>1. SUFFICES ASSUME NEW u \in Threads, state'[u] = "Ready", alive'[u]
                 PROVE  Queued(u)' \/ \E d \in Cpus : InHand(d, u)'
    BY Zenon DEF NoLostThread
  <2>2. Queued(u) \/ \E d \in Cpus : InHand(d, u)
    BY <1>1, <2>1, Zenon DEF NoLostThread
  <2>3. ASSUME NEW d \in Cpus, InHand(d, u)
        PROVE  Queued(u)' \/ InHand(d, u)'
    BY <1>4, <2>3, OthersHold, Zenon
  <2> QED
    BY <1>4, <2>2, <2>3, Zenon
<1> QED
  BY <1>2, <1>5, <1>6, Zenon DEF Placed

(***************************************************************************)
(* post_switch_handler gives the thread that was switched out back.        *)
(***************************************************************************)
LEMMA PostSwitchPlaced ==
  ASSUME TypeOK, Placed, NEW c \in Cpus, PostSwitchHandler(c), Elsewhere(c)
  PROVE  Placed'
<1>1. pc[c] = "post" /\ pc'[c] \in {"settimeout", "panic", "run"}
  BY Zenon DEF PostSwitchHandler, ReturnToThread, Goto, TypeOK
<1>2. UNCHANGED <<gen, state, alive, cur>> /\ old[c] \in Threads
  BY Zenon DEF PostSwitchHandler, threadVars, switchVars, TypeOK
<1>3. \A u \in Threads : ~InHand(c, u)'
  BY <1>1, Zenon DEF InHand, HandsOver
<1>4. CASE req[c].post = "InsertReadyQueue"
  <2>1. \A u \in Threads : InHand(c, u) <=> u = old[c]
    BY <1>1, <1>4, Zenon DEF InHand, HandsOver, SwitchedOut
  <2>2. ready' = Append(ready, old[c])
    BY <1>4, Zenon DEF PostSwitchHandler
  <2> QED
    BY <1>1, <1>2, <1>3, <2>1, <2>2, EnqueueStep, Zenon
<1>5. CASE req[c].post # "InsertReadyQueue"
  <2>1. \A u \in Threads : ~InHand(c, u)
    BY <1>1, <1>5, Zenon DEF InHand, HandsOver
  <2>2. ready' = ready
    BY <1>5, Zenon DEF PostSwitchHandler
  <2> QED
    BY <1>1, <1>2, <1>3, <2>1, <2>2, EmptyHanded, Zenon DEF NoRevival
<1> QED
  BY <1>4, <1>5, Zenon

(***************************************************************************)
(* The woken thread goes to the ready list.                                *)
(***************************************************************************)
LEMMA InsertPlaced ==
  ASSUME TypeOK, Placed, NEW c \in Cpus, InsertWoken(c), Elsewhere(c)
  PROVE  Placed'
<1>1. /\ pc[c] = "insert" /\ pc'[c] \in {"run", "timer"}
      /\ ready' = Append(ready, arg[c].thread)
      /\ UNCHANGED <<gen, state, alive, cur>>
  BY Zenon DEF InsertWoken, Goto, TypeOK, switchVars
<1>2. arg[c].thread \in Threads
  BY Zenon DEF TypeOK, ThreadRefs
<1>3. \A u \in Threads : (InHand(c, u) <=> u = arg[c].thread) /\ ~InHand(c, u)'
  BY <1>1, Zenon DEF InHand, HandsOver
<1> QED
  BY <1>1, <1>2, <1>3, EnqueueStep, Zenon

(***************************************************************************)
(* The status word of a user thread that is neither Running nor Ready      *)
(* changes to one of the same kind.                                        *)
(***************************************************************************)
LEMMA IdleChange ==
  ASSUME TypeOK, Placed, NEW c \in Cpus, Elsewhere(c), NEW t \in Users,
         NEW s \in {"Suspended", "Dead"}, state[t] \in {"Suspended", "Absent"},
         SetState(t, s), pc[c] \notin Holding, pc'[c] \notin Holding,
         UNCHANGED <<alive, ready, cur>>
  PROVE  Placed'
<1>1. RunningOwned /\ ScheduledOnce /\ NoLostThread
  BY Zenon DEF Placed
<1>2. t \in Threads /\ t \notin Cpus
  BY SchedAssumption, ThreadKinds, Zenon
<1>3. /\ state'[t] = s
      /\ \A u \in Threads : u # t => state'[u] = state[u] /\ gen'[u] = gen[u]
  BY <1>2, Zenon DEF SetState, TypeOK
<1>4. \A u \in Threads : IsRunning(u)' <=> IsRunning(u)
  BY <1>2, <1>3, Zenon DEF IsRunning
<1>5. \A d \in Cpus, u \in Threads : InHand(d, u)' <=> InHand(d, u)
  <2>1. \A u \in Threads : ~InHand(c, u) /\ ~InHand(c, u)'
    BY Zenon DEF InHand, HandsOver, Holding
  <2> QED
    BY <2>1, OthersHold, Zenon
<1>6. \A u \in Threads : Queued(u)' <=> Queued(u)
  BY Zenon DEF Queued
<1>7. \A d \in Cpus : OwnsCurrent(d)' <=> OwnsCurrent(d)
  BY OthersHold, Zenon DEF OwnsCurrent, Holding
<1>8. RunningOwned'
  BY <1>1, <1>4, <1>7, Zenon DEF RunningOwned, TypeOK
<1>9. ~Queued(t) /\ \A d \in Cpus : ~InHand(d, t)
  BY <1>1, <1>2, Zenon DEF ScheduledOnce
<1>10. ScheduledOnce'
  <2>1. \A d \in Cpus : pc'[d] = "new" /\ HandsOver(d)' => nxt'[d] # cur'[d]
    BY <1>1, OthersHold, ZenonT(60) DEF ScheduledOnce, Holding
  <2> QED
    BY <1>1, <1>3, <1>5, <1>6, <1>9, <2>1, ZenonT(60) DEF ScheduledOnce
<1>11. NoLostThread'
  BY <1>1, <1>3, <1>5, <1>6, Zenon DEF NoLostThread
<1> QED
  BY <1>8, <1>10, <1>11, Zenon DEF Placed

(***************************************************************************)
(* A new thread is put into the ready list, or starts suspended.           *)
(***************************************************************************)
LEMMA NewPlaced ==
  ASSUME TypeOK, Placed, NEW c \in Cpus, NEW t \in Users, NEW g \in Groups,
         NEW start \in {"Ready", "Suspended"}, ThreadNew(c, t, g, start), Elsewhere(c)
  PROVE  Placed'
<1>1. /\ pc[c] = "run" /\ state[t] = "Absent" /\ SetState(t, start)
      /\ UNCHANGED <<alive, cur, pc, nxt, req, old, arg>>
      /\ ready' = IF start = "Ready" THEN Append(ready, t) ELSE ready
  BY Zenon DEF ThreadNew, InSyscall, switchVars, localVars
<1>2. CASE start = "Suspended"
  BY <1>1, <1>2, IdleChange, Zenon DEF Holding
<1>3. CASE start = "Ready"
  <2>1. RunningOwned /\ ScheduledOnce /\ NoLostThread
    BY Zenon DEF Placed
  <2>2. t \in Threads /\ t \notin Cpus
    BY SchedAssumption, ThreadKinds, Zenon
  <2>3. /\ state'[t] = "Ready"
        /\ \A u \in Threads : u # t => state'[u] = state[u] /\ gen'[u] = gen[u]
    BY <1>1, <1>3, <2>2, Zenon DEF SetState, TypeOK
  <2>4. \A u \in Threads : IsRunning(u)' <=> IsRunning(u)
    BY <1>1, <2>2, <2>3, Zenon DEF IsRunning
  <2>5. \A d \in Cpus, u \in Threads : InHand(d, u)' <=> InHand(d, u)
    BY <1>1, Zenon DEF InHand, HandsOver, SwitchedOut
  <2>6. \A d \in Cpus : (OwnsCurrent(d)' <=> OwnsCurrent(d)) /\ (HandsOver(d)' <=> HandsOver(d))
    BY <1>1, Zenon DEF OwnsCurrent, HandsOver
  <2>7. RunningOwned'
    BY <1>1, <2>1, <2>4, <2>6, Zenon DEF RunningOwned, TypeOK
  <2>8. ~Queued(t) /\ \A d \in Cpus : ~InHand(d, t)
    BY <1>1, <2>1, <2>2, Zenon DEF ScheduledOnce
  <2>9. /\ \A u \in Threads : Queued(u)' <=> Queued(u) \/ u = t
        /\ \A i, j \in 1..Len(ready') : ready'[i] = ready'[j] => i = j
    BY <1>1, <1>3, <2>1, <2>2, <2>8, AppendQueue, Zenon DEF ScheduledOnce, TypeOK
  <2>10. ScheduledOnce'
    <3>1. ASSUME NEW d \in Cpus, NEW u \in Threads, InHand(d, u)'
          PROVE  ~Queued(u)' /\ state'[u] = "Ready"
      <4>1. InHand(d, u) /\ u # t
        BY <2>5, <2>8, <3>1, Zenon
      <4>2. ~Queued(u) /\ state[u] = "Ready"
        BY <2>1, <4>1, Zenon DEF ScheduledOnce
      <4> QED
        BY <2>3, <2>9, <4>1, <4>2, Zenon
    <3>2. \A d, e \in Cpus, u \in Threads : InHand(d, u)' /\ InHand(e, u)' => d = e
      BY <2>1, <2>5, Zenon DEF ScheduledOnce
    <3>3. \A d \in Cpus : pc'[d] = "new" /\ HandsOver(d)' => nxt'[d] # cur'[d]
      BY <1>1, <2>1, <2>6, Zenon DEF ScheduledOnce
    <3>4. \A u \in Threads : Queued(u)' => state'[u] = "Ready"
      BY <2>1, <2>3, <2>9, Zenon DEF ScheduledOnce
    <3> QED
      BY <2>9, <3>1, <3>2, <3>3, <3>4, Zenon DEF ScheduledOnce
  <2>11. NoLostThread'
    BY <1>1, <2>1, <2>3, <2>5, <2>9, Zenon DEF NoLostThread
  <2> QED
    BY <2>7, <2>10, <2>11, Zenon DEF Placed
<1> QED
  BY <1>2, <1>3, Zenon

-----------------------------------------------------------------------------
(* The theorems                                                            *)

(***************************************************************************)
(* Every cpu starts in its idle thread, and the first thread is queued.    *)
(***************************************************************************)
LEMMA PlacedInit == Init => Placed
<1> SUFFICES ASSUME Init PROVE Placed
  BY Zenon
<1> USE SchedAssumption
<1>1. First \in Threads /\ First \notin Cpus /\ ready = <<First>> /\ Len(ready) = 1
  BY ThreadKinds, Zenon DEF Init
<1>2. \A t \in Threads : Queued(t) <=> t = First
  BY <1>1 DEF Queued
<1>3. \A c \in Cpus, t \in Threads : ~InHand(c, t)
  BY Zenon DEF Init, InHand, HandsOver
<1>4. \A t \in Threads : IsRunning(t) <=> t \in Cpus
  BY <1>1, ThreadKinds, Zenon DEF Init, IsRunning
<1>5. RunningOwned
  <2>1. \A c \in Cpus : OwnsCurrent(c) /\ cur[c] = c /\ c \in Threads
    BY ThreadKinds, Zenon DEF Init, OwnsCurrent
  <2> QED
    BY <1>4, <2>1, Zenon DEF RunningOwned
<1>6. ScheduledOnce
  BY <1>1, <1>2, <1>3 DEF Init, ScheduledOnce
<1>7. NoLostThread
  BY <1>2, Zenon DEF Init, NoLostThread
<1> QED
  BY <1>5, <1>6, <1>7, Zenon DEF Placed

(***************************************************************************)
(* Every action moves a thread from one place to one place.                *)
(***************************************************************************)
LEMMA PlacedStep == TypeOK /\ Started /\ Placed /\ [Next]_vars => Placed'
<1> SUFFICES ASSUME TypeOK, Started, Placed, [Next]_vars PROVE Placed'
  BY Zenon
<1> USE DEF threadVars, queueVars, switchVars, localVars, apicVars, Goto
<1>1. ASSUME NEW c \in Cpus, GetNextThread(c) PROVE Placed'
  BY <1>1, GetNextPlaced, Zenon DEF GetNextThread, Elsewhere, TypeOK
<1>2. ASSUME NEW c \in Cpus, NoAvailableThreads(c) PROVE Placed'
  BY <1>2, NoAvailablePlaced, Zenon DEF NoAvailableThreads, Elsewhere, TypeOK
<1>3. ASSUME NEW c \in Cpus, SetOldState(c) PROVE Placed'
  BY <1>3, SetOldPlaced, Zenon DEF SetOldState, Elsewhere, TypeOK
<1>4. ASSUME NEW c \in Cpus, SwitchToNew(c) PROVE Placed'
  BY <1>4, SwitchPlaced, Zenon DEF SwitchToNew, Elsewhere, TypeOK
<1>5. ASSUME NEW c \in Cpus, PostSwitchHandler(c) PROVE Placed'
  BY <1>5, PostSwitchPlaced, Zenon DEF PostSwitchHandler, ReturnToThread, Elsewhere, TypeOK
<1>6. ASSUME NEW c \in Cpus, SetTimeout(c) PROVE Placed'
  BY <1>6, CalmStep, ZenonT(60) DEF SetTimeout, ReturnToThread, Elsewhere, TypeOK, Holding, NoRevival
<1>7. ASSUME NEW c \in Cpus, GetThreadAsReady(c) PROVE Placed'
  <2>1. arg[c].thread \in Threads /\ gen[arg[c].thread] = arg[c].gen /\ arg[c].gen > 0
    BY <1>7, Zenon DEF GetThreadAsReady, IsCurrent, Started, RefsStarted, TypeOK, ThreadRefs
  <2> QED
    BY <1>7, <2>1, WakeStep, Zenon DEF GetThreadAsReady, IsCurrent, Elsewhere, TypeOK, Holding
<1>8. ASSUME NEW c \in Cpus, DropStaleRef(c) PROVE Placed'
  BY <1>8, CalmStep, Zenon DEF DropStaleRef, Elsewhere, TypeOK, Holding, NoRevival
<1>9. ASSUME NEW c \in Cpus, InsertWoken(c) PROVE Placed'
  BY <1>9, InsertPlaced, Zenon DEF InsertWoken, Elsewhere, TypeOK
<1>10. ASSUME NEW c \in Cpus, TimerLock(c) PROVE Placed'
  BY <1>10, CalmStep, Zenon DEF TimerLock, Elsewhere, TypeOK, Holding, NoRevival
<1>11. ASSUME NEW c \in Cpus, WakeExpired(c) PROVE Placed'
  BY <1>11, CalmStep, ZenonT(60) DEF WakeExpired, StartWake, Elsewhere, TypeOK, Holding, NoRevival
<1>12. ASSUME NEW c \in Cpus, TimerReturn(c) PROVE Placed'
  BY <1>12, CalmStep, Zenon DEF TimerReturn, Elsewhere, TypeOK, Holding, NoRevival
<1>13. ASSUME NEW c \in Cpus, TimerPreempt(c) PROVE Placed'
  BY <1>13, CalmStep, Zenon DEF TimerPreempt, StartSwitch, Elsewhere, TypeOK, Holding, NoRevival
<1>14. ASSUME NEW c \in Cpus, RemoveThread(c) PROVE Placed'
  BY <1>14, CalmStep, Zenon DEF RemoveThread, Elsewhere, TypeOK, Holding, NoRevival
<1>15. ASSUME NEW c \in Cpus, ExitInner(c) PROVE Placed'
  BY <1>15, CalmStep, Zenon DEF ExitInner, Emptying, Elsewhere, TypeOK, Holding, NoRevival
<1>16. ASSUME NEW c \in Cpus, ExitFinish(c) PROVE Placed'
  <2>1. PICK label \in {"run", "next", "release"} : pc' = [pc EXCEPT ![c] = label]
    BY <1>16, Zenon DEF ExitFinish, LeaveExit, StartSwitch
  <2>2. \A d \in Cpus : d # c => req'[d] = req[d]
    BY <1>16, Zenon DEF ExitFinish, LeaveExit, StartSwitch, TypeOK
  <2>3. pc[c] \in Emptying /\ UNCHANGED <<gen, state, alive, ready, cur, nxt, old, arg>>
    BY <1>16, Zenon DEF ExitFinish
  <2> QED
    BY <2>1, <2>2, <2>3, CalmStep, Zenon DEF Emptying, Elsewhere, TypeOK, Holding, NoRevival
<1>17. ASSUME NEW c \in Cpus, TimerInterrupt(c) PROVE Placed'
  BY <1>17, CalmStep, Zenon DEF TimerInterrupt, InterruptsOpen, Elsewhere, TypeOK, Holding, NoRevival
<1>18. ASSUME NEW c \in Cpus, ExitInterrupt(c) PROVE Placed'
  BY <1>18, CalmStep, Zenon
     DEF ExitInterrupt, InterruptsOpen, StartSwitch, Elsewhere, TypeOK, Holding, NoRevival
<1>19. ASSUME NEW c \in Cpus, ThreadYield(c) PROVE Placed'
  BY <1>19, CalmStep, Zenon
     DEF ThreadYield, InSyscall, StartSwitch, Elsewhere, TypeOK, Holding, NoRevival
<1>20. ASSUME NEW c \in Cpus, NEW post \in {"None", "SetTimeout"}, ThreadSuspend(c, post)
       PROVE Placed'
  BY <1>20, CalmStep, Zenon
     DEF ThreadSuspend, InSyscall, StartSwitch, Elsewhere, TypeOK, Holding, NoRevival
<1>21. ASSUME NEW c \in Cpus, NEW post \in {"None", "SetTimeout"}, WaitForEvent(c, post)
       PROVE Placed'
  BY <1>21, CalmStep, Zenon
     DEF WaitForEvent, InSyscall, StartSwitch, Elsewhere, TypeOK, Holding, NoRevival
<1>22. ASSUME NEW c \in Cpus, Signal(c) PROVE Placed'
  BY <1>22, CalmStep, ZenonT(60) DEF Signal, InSyscall, StartWake, Elsewhere, TypeOK, Holding, NoRevival
<1>23. ASSUME NEW c \in Cpus, NEW t \in Users, ThreadResume(c, t) PROVE Placed'
  <2>1. t \in Threads /\ t \notin Cpus
    BY SchedAssumption, ThreadKinds, Zenon
  <2> QED
    BY <1>23, <2>1, WakeStep, Zenon DEF ThreadResume, InSyscall, CurrentRef, Elsewhere, TypeOK, Holding
<1>24. ASSUME NEW c \in Cpus, NEW t \in Users, ThreadDestroyOther(c, t) PROVE Placed'
  BY <1>24, IdleChange, Zenon DEF ThreadDestroyOther, InSyscall, Elsewhere, TypeOK, Holding
<1>25. ASSUME NEW c \in Cpus, ThreadDestroySelf(c) PROVE Placed'
  BY <1>25, CalmStep, Zenon
     DEF ThreadDestroySelf, InSyscall, StartSwitch, Elsewhere, TypeOK, Holding, NoRevival
<1>26. ASSUME NEW c \in Cpus, NEW t \in Users, NEW g \in Groups,
              NEW start \in {"Ready", "Suspended"}, ThreadNew(c, t, g, start)
       PROVE Placed'
  <2>1. Elsewhere(c)
    BY <1>26, Zenon DEF ThreadNew, Elsewhere
  <2> QED
    BY <1>26, <2>1, NewPlaced, Zenon
<1>27. ASSUME NEW c \in Cpus, NEW g \in Groups, ThreadGroupExit(c, g) PROVE Placed'
  BY <1>27, CalmStep, Zenon DEF ThreadGroupExit, InSyscall, Elsewhere, TypeOK, Holding, NoRevival
<1>28. CASE UNCHANGED vars
  <2>1. UNCHANGED <<gen, state, alive, ready, cur, pc, req, nxt, old, arg>>
    BY <1>28, Zenon DEF vars
  <2>2. RunningOwned'
    BY <2>1, Zenon DEF Placed, RunningOwned, OwnsCurrent, IsRunning
  <2>3. \A c \in Cpus, t \in Threads : InHand(c, t)' <=> InHand(c, t)
    BY <2>1, Zenon DEF InHand, HandsOver, SwitchedOut
  <2>4. \A t \in Threads : Queued(t)' <=> Queued(t)
    BY <2>1, Zenon DEF Queued
  <2>5. ScheduledOnce'
    BY <2>1, <2>3, <2>4, Zenon DEF Placed, ScheduledOnce, HandsOver
  <2>6. NoLostThread'
    BY <2>1, <2>3, <2>4, Zenon DEF Placed, NoLostThread
  <2> QED
    BY <2>2, <2>5, <2>6, Zenon DEF Placed
<1>29. ASSUME NEW c \in Cpus, NEW g \in Groups, ThreadGroupDrop(c, g) PROVE Placed'
  BY <1>29, CalmStep, Zenon DEF ThreadGroupDrop, Elsewhere, TypeOK, Holding, NoRevival
<1>30. ASSUME NEW c \in Cpus, NEW g \in Groups, ExitInnerDrops(c, g) PROVE Placed'
  <2>1. NoRevival
    BY <1>30, Zenon DEF ExitInnerDrops, NoRevival
  <2>2. Elsewhere(c) /\ UNCHANGED <<gen, state, ready, cur>>
    BY <1>30, Zenon DEF ExitInnerDrops, Elsewhere
  <2>3. pc[c] \notin Holding /\ pc'[c] \notin Holding
    BY <1>30, Zenon DEF ExitInnerDrops, Emptying, Holding
  <2> QED
    BY <2>1, <2>2, <2>3, CalmStep, Zenon
<1>31. ASSUME NEW c \in Cpus, ReleaseGroup(c) PROVE Placed'
  <2>1. PICK label \in {"run", "next"} : pc' = [pc EXCEPT ![c] = label]
    BY <1>31, Zenon DEF ReleaseGroup, LeaveExit, StartSwitch
  <2>2. \A d \in Cpus : d # c => req'[d] = req[d]
    BY <1>31, Zenon DEF ReleaseGroup, LeaveExit, StartSwitch, TypeOK
  <2>3. pc[c] = "release" /\ UNCHANGED <<gen, state, alive, ready, cur, nxt, old, arg>>
    BY <1>31, Zenon DEF ReleaseGroup
  <2> QED
    BY <2>1, <2>2, <2>3, CalmStep, Zenon DEF Elsewhere, TypeOK, Holding, NoRevival
<1>32. ASSUME NEW c \in Cpus, ReleaseLast(c) PROVE Placed'
  BY <1>32, CalmStep, Zenon DEF ReleaseLast, Elsewhere, TypeOK, Holding, NoRevival
<1> QED
  BY <1>1, <1>2, <1>3, <1>4, <1>5, <1>6, <1>7, <1>8, <1>9, <1>10, <1>11, <1>12, <1>13,
     <1>14, <1>15, <1>16, <1>17, <1>18, <1>19, <1>20, <1>21, <1>22, <1>23, <1>24, <1>25,
     <1>26, <1>27, <1>28, <1>29, <1>30, <1>31, <1>32, Zenon
     DEF Next, KernelStep, Syscall

(***************************************************************************)
(* The inductive invariant of the scheduler.                               *)
(***************************************************************************)
SchedInv == TypeOK /\ Started /\ Placed

(***************************************************************************)
(* It holds in every reachable state.                                      *)
(***************************************************************************)
LEMMA SchedInvariant == Spec => []SchedInv
<1>1. Init => SchedInv
  BY TypeInit, StartedInit, PlacedInit, Zenon DEF SchedInv
<1>2. SchedInv /\ [Next]_vars => SchedInv'
  BY TypeStep, StartedStep, PlacedStep, Zenon DEF SchedInv
<1> QED
  BY <1>1, <1>2, PTL DEF Spec

(***************************************************************************)
(* On any number of cpus, the current thread of a cpu is Running, no two   *)
(* cpus own the same thread and every Running thread is current somewhere. *)
(***************************************************************************)
THEOREM OneOwner == Spec => []RunningOwned
BY SchedInvariant, PTL DEF SchedInv, Placed

(***************************************************************************)
(* On any number of cpus a thread has at most one place in the ready list  *)
(* or in the hands of a cpu, and only while it is Ready.                   *)
(***************************************************************************)
THEOREM OneSchedule == Spec => []ScheduledOnce
BY SchedInvariant, PTL DEF SchedInv, Placed

(***************************************************************************)
(* No Ready thread that is alive is forgotten, whatever the interleaving   *)
(* of preemption, wake ups, timeouts and kills.                            *)
(***************************************************************************)
THEOREM NoLostWake == Spec => []NoLostThread
BY SchedInvariant, PTL DEF SchedInv, Placed
(***************************************************************************)
(* Only the cpu a Running thread is current on changes its status word:    *)
(* wake ups, timeouts, resumes, destroys and switches of other cpus never  *)
(* do.                                                                     *)
(***************************************************************************)
THEOREM OwnerLeavesRunning == Spec => OnlyOwnerLeavesRunning
<1> DEFINE Left(t) == \E c \in Cpus : cur[c] = t /\ pc[c] = "old" /\ pc'[c] = "new"
<1> DEFINE Owner == \A t \in Threads : state[t] = "Running" /\ gen'[t] # gen[t] => Left(t)
<1>1. SchedInv /\ [Next]_vars => [Owner]_vars
  <2> SUFFICES ASSUME SchedInv, Next PROVE Owner
    BY Zenon
  <2>1. PICK c \in Cpus : \/ KernelStep(c) \/ TimerInterrupt(c) \/ ExitInterrupt(c) \/ Syscall(c)
                          \/ \E g \in Groups : ThreadGroupDrop(c, g)
    BY Zenon DEF Next
  <2>2. TypeOK /\ ScheduledOnce
    BY Zenon DEF SchedInv, Placed
  <2>3. ASSUME NEW t \in Threads, NEW s, SetState(t, s), state[t] # "Running" PROVE Owner
    BY <2>2, <2>3, Zenon DEF SetState, TypeOK
  <2>4. CASE UNCHANGED gen
    BY <2>4, Zenon
  <2>5. CASE SetOldState(c)
    <3>1. /\ pc[c] = "old" /\ pc'[c] = "new"
          /\ \A t \in Threads : t # cur[c] => gen'[t] = gen[t]
      BY <2>2, <2>5, Zenon DEF SetOldState, SetState, Goto, TypeOK
    <3> QED
      BY <3>1, Zenon
  <2>6. CASE SwitchToNew(c)
    <3>1. nxt[c] \in Threads /\ state[nxt[c]] = "Ready"
      BY <2>2, <2>6, Zenon DEF SwitchToNew, ScheduledOnce, InHand, TypeOK
    <3> QED
      BY <2>3, <2>6, <3>1, Zenon DEF SwitchToNew
  <2>7. CASE GetThreadAsReady(c)
    <3>1. arg[c].thread \in Threads
      BY <2>2, Zenon DEF TypeOK, ThreadRefs
    <3> QED
      BY <2>3, <2>7, <3>1, Zenon DEF GetThreadAsReady, IsCurrent
  <2>8. ASSUME NEW t \in Users, ThreadResume(c, t) \/ ThreadDestroyOther(c, t) PROVE Owner
    BY <2>3, <2>8, ThreadKinds, Zenon DEF ThreadResume, ThreadDestroyOther
  <2>9. ASSUME NEW t \in Users, NEW g \in Groups, NEW start \in {"Ready", "Suspended"},
               ThreadNew(c, t, g, start)
        PROVE  Owner
    BY <2>3, <2>9, ThreadKinds, Zenon DEF ThreadNew
  <2>10. CASE KernelStep(c)
    <3>1. \/ SetOldState(c) \/ SwitchToNew(c) \/ GetThreadAsReady(c) \/ UNCHANGED gen
      BY <2>10, Zenon DEF KernelStep, GetNextThread, NoAvailableThreads, PostSwitchHandler, SetTimeout,
                   DropStaleRef, InsertWoken, TimerLock, WakeExpired, TimerReturn, TimerPreempt,
                   RemoveThread, ExitInner, ExitInnerDrops, ExitFinish, ReleaseGroup, ReleaseLast,
                   threadVars
    <3> QED
      BY <2>4, <2>5, <2>6, <2>7, <3>1, Zenon
  <2>11. CASE Syscall(c)
    <3>1. \/ \E t \in Users : ThreadResume(c, t) \/ ThreadDestroyOther(c, t)
          \/ \E t \in Users, g \in Groups, start \in {"Ready", "Suspended"} :
               ThreadNew(c, t, g, start)
          \/ UNCHANGED gen
      BY <2>11, Zenon DEF Syscall, ThreadYield, ThreadSuspend, WaitForEvent, Signal, ThreadDestroySelf,
                   ThreadGroupExit, threadVars
    <3> QED
      BY <2>4, <2>8, <2>9, <3>1, Zenon
  <2>12. CASE TimerInterrupt(c) \/ ExitInterrupt(c) \/ \E g \in Groups : ThreadGroupDrop(c, g)
    BY <2>4, <2>12, Zenon DEF TimerInterrupt, ExitInterrupt, ThreadGroupDrop, threadVars
  <2> QED
    BY <2>1, <2>10, <2>11, <2>12, Zenon
<1> QED
  BY <1>1, SchedInvariant, PTL DEF Spec, OnlyOwnerLeavesRunning
=============================================================================
