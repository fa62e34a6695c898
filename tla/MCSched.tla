------------------------------- MODULE MCSched -------------------------------
(***************************************************************************)
(* Small instances of Sched for TLC.                                       *)
(***************************************************************************)
EXTENDS Sched

CONSTANTS c1, c2, u1, u2, g1, g2

(***************************************************************************)
(* Bounds on the generations: with 3 a thread can block, be woken and run  *)
(* again once, with 6 twice, with 2 it runs and is switched out.  With 1   *)
(* an idle thread is preempted once and then stays where it is put.        *)
(***************************************************************************)
BoundOnce == [t \in Threads |-> IF t = c2 THEN 1 ELSE 3]
BoundSpin == [t \in Threads |-> IF t \in Cpus THEN 1 ELSE 3]
BoundKill == [t \in Threads |-> IF t = c1 THEN 1 ELSE IF t = u2 THEN 2 ELSE 3]
BoundTwice == [t \in Threads |-> IF t = u1 THEN 6 ELSE 3]

(***************************************************************************)
(* What the future of a state depends on: the locals of a cpu count only   *)
(* at the labels that still read them, the resume point of a thread only   *)
(* while it is off its cpu.                                                *)
(***************************************************************************)
Live(c, labels, local) == IF pc[c] \in labels THEN {local} ELSE {}

Switching == {"next", "old", "new", "post", "settimeout"}

LiveLocals ==
  [c \in Cpus |->
     <<Live(c, Switching, req[c]),
       Live(c, {"old", "new"}, nxt[c]),
       Live(c, {"post", "settimeout"}, old[c]),
       Live(c, {"wake", "insert", "remove"}, arg[c]),
       Live(c, {"wake", "insert"}, <<waker[c], ret[c]>>),
       Live(c, {"kill", "release", "drop"}, <<killSelf[c], dying[c]>>)>>]

OnCpu(t) == \E c \in Cpus : cur[c] = t /\ pc[c] \notin Switching

LiveThreads ==
  [t \in Threads |-> IF OnCpu(t) THEN wakeReason[t] ELSE <<where[t], wakeReason[t], wokenBy[t]>>]

View == <<gen, state, alive, spared, LiveThreads, queueVars, cur, pc, LiveLocals, apicVars>>
=============================================================================
