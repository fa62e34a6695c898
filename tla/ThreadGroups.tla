---------------------------- MODULE ThreadGroups ----------------------------
(***************************************************************************)
(* The tree of thread groups: sched/thread_group.rs, with the system calls *)
(* thread_group_new, thread_group_exit and thread_new that work on it.     *)
(*                                                                         *)
(* A group holds its threads and has weak references to its child groups.  *)
(* exit_inner empties a group's list under the group's lock and, still     *)
(* holding it, empties the child groups.  A thread that is let go takes    *)
(* its capabilities with it, and the last capability to a group takes the  *)
(* group, whose Drop empties the list of that group in turn.               *)
(***************************************************************************)
EXTENDS Integers, Sequences, FiniteSets, Functions

CONSTANTS
  Groups, Root,
  GThreads,    \* threads
  GCpus,       \* cpus in a system call
  Nobody

VARIABLES
  children,  \* thread_list: what was pushed last is popped first
  lockedBy,  \* the cpu that holds the lock of the list
  strong,    \* strong references to a group: capabilities and running calls
  group,     \* "none", "live", "dropping", "dropped"
  member,    \* "none", "alive", "dead", or "loose": running, but in no group
  home,      \* Thread::thread_group: the group a thread was created in
  owns,      \* the group a thread holds the capability to, or Nobody
  call,      \* what a cpu is doing
  above,     \* history: <<g, h>>, h was created in g or below it
  upward     \* history: a thread came to hold a group that is not at or below its own

tgVars == <<children, lockedBy, strong, group, member, home, owns, call, above, upward>>

AThread(t) == [thread |-> t, group |-> Nobody]
AGroup(g) == [thread |-> Nobody, group |-> g]

(***************************************************************************)
(* A cpu in a system call: the groups it is at, the innermost first, each  *)
(* with a reference, unless it is being dropped; the thread it is about;   *)
(* and the threads that are to be dead when it returns.                    *)
(***************************************************************************)
Frame(g, dropping) == [group |-> g, dropping |-> dropping]

Idles == [at |-> "idle", stack |-> <<>>, thread |-> Nobody, must |-> {}]
Holding(at, g, t) == [at |-> at, stack |-> <<Frame(g, FALSE)>>, thread |-> t, must |-> {}]
Emptying(frames, must) == [at |-> "exit", stack |-> frames, thread |-> Nobody, must |-> must]

(***************************************************************************)
(* The root group is made at boot and never goes: sched/mod.rs keeps it.   *)
(***************************************************************************)
TgInit ==
  /\ children = [g \in Groups |-> <<>>]
  /\ lockedBy = [g \in Groups |-> Nobody]
  /\ strong = [g \in Groups |-> IF g = Root THEN 1 ELSE 0]
  /\ group = [g \in Groups |-> IF g = Root THEN "live" ELSE "none"]
  /\ member = [t \in GThreads |-> "none"]
  /\ home = [t \in GThreads |-> Nobody]
  /\ owns = [t \in GThreads |-> Nobody]
  /\ call = [c \in GCpus |-> Idles]
  /\ above = {} /\ upward = FALSE

Unlocked(g) == lockedBy[g] = Nobody

(***************************************************************************)
(* The list is a Vec: push, pop and remove of an index.                    *)
(***************************************************************************)
Push(g, child) == children' = [children EXCEPT ![g] = Append(@, child)]

Last(g) == children[g][Len(children[g])]

Pop(g) == children' = [children EXCEPT ![g] = SubSeq(@, 1, Len(@) - 1)]

RemoveIndex(g, i) ==
  children' = [children EXCEPT ![g] = SubSeq(@, 1, i - 1) \o SubSeq(@, i + 1, Len(@))]

(***************************************************************************)
(* remove_thread                                                           *)
(***************************************************************************)
RemoveThread(g, t) ==
  /\ Unlocked(g)
  /\ \/ \E i \in DOMAIN children[g] : children[g][i] = AThread(t) /\ RemoveIndex(g, i)
     \/ AThread(t) \notin Range(children[g]) /\ UNCHANGED children

(***************************************************************************)
(* aurora_core gives a process the capability to its own group, and keeps  *)
(* the ones to the groups it creates below it (process/mod.rs); the kernel *)
(* lets a thread hold any.                                                 *)
(***************************************************************************)
AtOrBelow(h, g) == h = g \/ <<g, h>> \in above

Given(t, h) == upward' = (upward \/ ~AtOrBelow(h, home[t]))

-----------------------------------------------------------------------------
(* Creation                                                                *)

(***************************************************************************)
(* The names of the next group and of the next thread: which free name it  *)
(* is makes no difference.                                                 *)
(***************************************************************************)
IsNextGroup(h) == group[h] = "none" /\ h = CHOOSE x \in Groups : group[x] = "none"
IsNextThread(t) == member[t] = "none" /\ t = CHOOSE x \in GThreads : member[x] = "none"

(***************************************************************************)
(* thread_group_new, create_child_thread_group: the capability goes to the *)
(* caller, some thread t.                                                  *)
(***************************************************************************)
ThreadGroupNew(c, g, h, t) ==
  /\ call[c] = Idles /\ group[g] = "live" /\ IsNextGroup(h) /\ Unlocked(g)
  /\ member[t] \in {"alive", "loose"} /\ owns[t] = Nobody
  /\ Push(g, AGroup(h))
  /\ above' = above \cup {<<x, h>> : x \in {y \in Groups : AtOrBelow(g, y)}}
  /\ group' = [group EXCEPT ![h] = "live"]
  /\ strong' = [strong EXCEPT ![h] = 1]
  /\ owns' = [owns EXCEPT ![t] = h] /\ Given(t, g)
  /\ UNCHANGED <<lockedBy, member, home, call>>

(***************************************************************************)
(* thread_new, create_thread: the thread is in the list, and in the ready  *)
(* queue; if the queue cannot take it, it leaves the list under the same   *)
(* lock.  The caller holds the group until the thread has its capability.  *)
(***************************************************************************)
ThreadNew(c, g, t) ==
  /\ call[c] = Idles /\ group[g] = "live" /\ IsNextThread(t) /\ Unlocked(g)
  /\ Push(g, AThread(t))
  /\ member' = [member EXCEPT ![t] = "alive"]
  /\ home' = [home EXCEPT ![t] = g]
  /\ strong' = [strong EXCEPT ![g] = @ + 1]
  /\ call' = [call EXCEPT ![c] = Holding("insert", g, t)]
  /\ UNCHANGED <<lockedBy, group, owns, above, upward>>

(***************************************************************************)
(* A reference to g is dropped: the last one runs Drop, whose frame goes   *)
(* on the stack of the cpu.                                                *)
(***************************************************************************)
Release(g) ==
  /\ strong' = [strong EXCEPT ![g] = @ - 1]
  /\ group' = [group EXCEPT ![g] = IF strong[g] = 1 THEN "dropping" ELSE @]

DropFrame(g) == IF strong[g] = 1 THEN <<Frame(g, TRUE)>> ELSE <<>>

Top(c) == Head(call[c].stack)

(***************************************************************************)
(* The end of a call that held one group.                                  *)
(***************************************************************************)
LetGo(c) ==
  /\ Release(Top(c).group)
  /\ call' = [call EXCEPT ![c] = Emptying(DropFrame(Top(c).group), {})]
  /\ UNCHANGED <<lockedBy, home, owns, above, upward>>

(***************************************************************************)
(* The capability to the new thread is inserted.                           *)
(***************************************************************************)
ThreadNewInsert(c) ==
  /\ call[c].at = "insert"
  /\ UNCHANGED <<children, member>>
  /\ LetGo(c)

(***************************************************************************)
(* That fails, and remove_thread takes the thread out of the list.  It is  *)
(* not marked dead: if a cpu runs it by then, it goes on until that cpu    *)
(* switches away.                                                          *)
(***************************************************************************)
ThreadNewFails(c) ==
  LET t == call[c].thread IN
  /\ call[c].at = "insert"
  /\ RemoveThread(Top(c).group, t)
  /\ member' = [member EXCEPT ![t] = IF @ = "alive" THEN "loose" ELSE @]
  /\ LetGo(c)

(***************************************************************************)
(* thread_destroy of another thread, destroy_suspended_thread: the thread  *)
(* is dead, then it leaves the list of its group if there is one still.    *)
(***************************************************************************)
ThreadDestroy(c, t) ==
  /\ call[c] = Idles /\ member[t] = "alive"
  /\ member' = [member EXCEPT ![t] = "dead"]
  /\ IF group[home[t]] = "live"
     THEN /\ strong' = [strong EXCEPT ![home[t]] = @ + 1]
          /\ call' = [call EXCEPT ![c] = Holding("remove", home[t], t)]
     ELSE UNCHANGED <<strong, call>>
  /\ UNCHANGED <<children, lockedBy, group, home, owns, above, upward>>

ThreadDestroyRemove(c) ==
  /\ call[c].at = "remove"
  /\ RemoveThread(Top(c).group, call[c].thread)
  /\ UNCHANGED member
  /\ LetGo(c)

-----------------------------------------------------------------------------
(* Exit and Drop                                                           *)

(***************************************************************************)
(* The threads in g and below it.                                          *)
(***************************************************************************)
Closed(X) == \A x \in X : \A h \in Groups : AGroup(h) \in Range(children[x]) => h \in X

Below(g) ==
  {t \in GThreads :
     \A X \in SUBSET Groups :
       g \in X /\ Closed(X) => \E x \in X : AThread(t) \in Range(children[x])}

(***************************************************************************)
(* Mutant: the call borrows the group from its capability.                 *)
(***************************************************************************)
ThreadGroupExitBorrowed(c, g) ==
  /\ call[c] = Idles /\ group[g] = "live"
  /\ call' = [call EXCEPT ![c] = Emptying(<<Frame(g, FALSE)>>, Below(g))]
  /\ UNCHANGED <<children, lockedBy, strong, group, member, home, owns, above, upward>>

(***************************************************************************)
(* thread_group_exit: the call holds a reference to the group.             *)
(***************************************************************************)
ThreadGroupExit(c, g) ==
  /\ call[c] = Idles /\ group[g] = "live"
  /\ strong' = [strong EXCEPT ![g] = @ + 1]
  /\ call' = [call EXCEPT ![c] = Emptying(<<Frame(g, FALSE)>>, Below(g))]
  /\ UNCHANGED <<children, lockedBy, group, member, home, owns, above, upward>>

Exiting(c) == call[c].at = "exit" /\ call[c].stack # <<>>

HasLock(c) == lockedBy[Top(c).group] = c

ExitLock(c) ==
  /\ Exiting(c) /\ Unlocked(Top(c).group)
  /\ lockedBy' = [lockedBy EXCEPT ![Top(c).group] = c]
  /\ UNCHANGED <<children, strong, group, member, home, owns, call, above, upward>>

Pushed(c, frames) == call' = [call EXCEPT ![c].stack = frames \o @]

(***************************************************************************)
(* exit_inner, a thread is popped: it is dead.  Its capability goes with   *)
(* it while the lock of the list is held, unless a cpu runs it: then it    *)
(* goes when that cpu has switched away (GroupCapDestroy).                 *)
(***************************************************************************)
ExitThread(c) ==
  LET g == Top(c).group  t == Last(g).thread IN
  /\ Exiting(c) /\ HasLock(c) /\ children[g] # <<>> /\ t # Nobody
  /\ Pop(g)
  /\ member' = [member EXCEPT ![t] = "dead"]
  /\ \/ UNCHANGED <<strong, group, owns, call>>
     \/ /\ owns[t] # Nobody
        /\ owns' = [owns EXCEPT ![t] = Nobody]
        /\ Release(owns[t])
        /\ Pushed(c, DropFrame(owns[t]))
  /\ UNCHANGED <<lockedBy, home, above, upward>>

(***************************************************************************)
(* Mutant: the child groups are left alone.                                *)
(***************************************************************************)
ExitGroupSkips(c) ==
  LET g == Top(c).group IN
  /\ Exiting(c) /\ HasLock(c) /\ children[g] # <<>> /\ Last(g).group # Nobody
  /\ Pop(g)
  /\ UNCHANGED <<lockedBy, strong, group, member, home, owns, call, above, upward>>

(***************************************************************************)
(* exit_inner, a child group is popped: if it can be upgraded it is        *)
(* emptied as well, under the lock of its parent.                          *)
(***************************************************************************)
ExitGroup(c) ==
  LET g == Top(c).group  h == Last(g).group IN
  /\ Exiting(c) /\ HasLock(c) /\ children[g] # <<>> /\ h # Nobody
  /\ Pop(g)
  /\ IF strong[h] > 0
     THEN strong' = [strong EXCEPT ![h] = @ + 1] /\ Pushed(c, <<Frame(h, FALSE)>>)
     ELSE UNCHANGED <<strong, call>>
  /\ UNCHANGED <<lockedBy, group, member, home, owns, above, upward>>

(***************************************************************************)
(* The list is empty: the lock is released, and so is the reference the    *)
(* call held; a group that was being dropped is gone.                      *)
(***************************************************************************)
ExitReturn(c) ==
  LET g == Top(c).group IN
  /\ Exiting(c) /\ HasLock(c) /\ children[g] = <<>>
  /\ lockedBy' = [lockedBy EXCEPT ![g] = Nobody]
  /\ IF Top(c).dropping
     THEN /\ group' = [group EXCEPT ![g] = "dropped"]
          /\ call' = [call EXCEPT ![c].stack = Tail(@)]
          /\ UNCHANGED strong
     ELSE /\ Release(g)
          /\ call' = [call EXCEPT ![c].stack = DropFrame(g) \o Tail(@)]
  /\ UNCHANGED <<children, member, home, owns, above, upward>>

CallEnd(c) ==
  /\ call[c].at = "exit" /\ call[c].stack = <<>>
  /\ call' = [call EXCEPT ![c] = Idles]
  /\ UNCHANGED <<children, lockedBy, strong, group, member, home, owns, above, upward>>

(***************************************************************************)
(* A thread destroys its capability to a group, or one that is dead or     *)
(* loose takes it along when the last cpu has switched away from it.       *)
(***************************************************************************)
GroupCapDestroy(c, t) ==
  /\ call[c] = Idles /\ owns[t] # Nobody
  /\ owns' = [owns EXCEPT ![t] = Nobody]
  /\ Release(owns[t])
  /\ call' = [call EXCEPT ![c] = Emptying(DropFrame(owns[t]), {})]
  /\ UNCHANGED <<children, lockedBy, member, home, above, upward>>

(***************************************************************************)
(* A thread gives another one a capability to the group (cap_clone).       *)
(***************************************************************************)
GroupCapClone(t, u) ==
  /\ owns[t] # Nobody /\ owns[u] = Nobody /\ member[u] = "alive"
  /\ owns' = [owns EXCEPT ![u] = owns[t]] /\ Given(u, owns[t])
  /\ strong' = [strong EXCEPT ![owns[t]] = @ + 1]
  /\ UNCHANGED <<children, lockedBy, group, member, home, call, above>>

-----------------------------------------------------------------------------

TgNext ==
  \E c \in GCpus :
    \/ ThreadNewInsert(c) \/ ThreadNewFails(c) \/ ThreadDestroyRemove(c)
    \/ ExitLock(c) \/ ExitThread(c) \/ ExitGroup(c) \/ ExitReturn(c) \/ CallEnd(c)
    \/ \E g \in Groups : ThreadGroupExit(c, g)
    \/ \E g \in Groups, t \in GThreads : ThreadNew(c, g, t)
    \/ \E t \in GThreads : GroupCapDestroy(c, t) \/ ThreadDestroy(c, t)
    \/ \E t, u \in GThreads : GroupCapClone(t, u)
    \/ \E g, h \in Groups, t \in GThreads : ThreadGroupNew(c, g, h, t)

TgSpec == TgInit /\ [][TgNext]_tgVars

-----------------------------------------------------------------------------
(* Properties                                                              *)

(***************************************************************************)
(* "Kills all threads in this thread group" (ThreadGroup::exit): when the  *)
(* call returns, the threads that were in the group or below it when it    *)
(* began are dead, but for those in or below a group that another cpu is   *)
(* dropping at that moment, whose Drop has yet to reach them, and for one  *)
(* that a failing thread_new took out meanwhile.                           *)
(***************************************************************************)
ExitKillsMembers ==
  \A c \in GCpus : call[c].at = "exit" /\ call[c].stack = <<>> =>
    \A t \in call[c].must :
      \/ member[t] \in {"dead", "loose"}
      \/ \E g \in Groups : group[g] = "dropping" /\ AtOrBelow(home[t], g)

(* The holder of the lock a cpu waits for. *)
Awaits(c) == IF Exiting(c) THEN lockedBy[Top(c).group] ELSE Nobody

(***************************************************************************)
(* The locks are taken down the tree, and Drop of a group that a dying     *)
(* thread held runs under the locks of other groups: as long as threads    *)
(* only ever held groups at or below their own, no cpu waits for a lock it *)
(* holds itself, and no set of cpus wait only for each other.  With a      *)
(* capability further up it does happen: exit empties group X, a suspended *)
(* thread of X goes with the last capability to the parent of X, Drop      *)
(* empties the parent under the lock of X, and locks X again.              *)
(***************************************************************************)
NoLockCircle ==
  ~upward =>
    /\ \A c \in GCpus : \A i \in 2 .. Len(call[c].stack) : call[c].stack[i].group # Top(c).group
    /\ \A S \in SUBSET GCpus : S # {} => \E c \in S : Awaits(c) \notin S \ {c}
=============================================================================
