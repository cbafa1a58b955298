------------------------------- MODULE RunLock -------------------------------
(***************************************************************************)
(* The JVM run lock (crates/pd-rtos/src/run_lock.rs): the tasks that       *)
(* interpret Java share one kernel mutex and a HOLDER word, and change     *)
(* places only at blocking points.  A task keeps a stack of scope guards,  *)
(* one per live `Held` or `Unlocked` value, dropped in reverse order.      *)
(*                                                                         *)
(* The FreeRTOS tier the tasks share is modelled from how the lock uses    *)
(* it: the head of `ready` runs, a give readies the longest waiter without *)
(* handing it the mutex, and a wake of a higher-priority task may rotate   *)
(* the tier at any point.                                                  *)
(***************************************************************************)
EXTENDS Naturals, Sequences, FiniteSets

CONSTANTS Tasks,        \* the tasks that may interpret Java
          NoTask,       \* RawTask 0
          LockCreated,  \* whether mutex_recursive_create succeeded in init
          MaxNesting    \* bound on the nesting of guards in one task

ASSUME TasksAssumption == IsFiniteSet(Tasks) /\ NoTask \notin Tasks
ASSUME LockAssumption == LockCreated \in BOOLEAN
ASSUME NestingAssumption == MaxNesting \in Nat

VARIABLES HOLDER,   \* the task that published itself as holder, or NoTask
          mutex,    \* the kernel mutex: [owner, count], recursive
          waiters,  \* tasks blocked on the mutex, longest waiting first
          ready,    \* the tier's ready list; its head is running
          pc,       \* where each task is inside take, give or a wait
          op,       \* the guard operation that called take or give
          guards    \* the stack of live guards of each task

vars == <<HOLDER, mutex, waiters, ready, pc, op, guards>>

Guard == [kind : {"Held", "Unlocked", "Poll"}, flag : BOOLEAN]
PC == {"run", "lock", "store", "clear", "unlock", "yield", "blocked"}
Op == {"acquire", "unlocked", "drop"}

(***************************************************************************)
(* What the guards say: the innermost guard whose flag is set decides      *)
(* whether its task holds the lock.  HoldsAt(s, n) reads the n outermost.  *)
(***************************************************************************)
HoldsAt(s, n) ==
    \E i \in 1..n : /\ s[i].flag /\ s[i].kind = "Held"
                    /\ \A j \in (i+1)..n : ~s[j].flag

Inside(t) == HoldsAt(guards[t], Len(guards[t]))

\* The task runs with the lock its guards promise: it may touch the heap.
Interpreting(t) == pc[t] = "run" /\ Inside(t)

Top(t) == guards[t][Len(guards[t])]
Push(t, kind, flag) ==
    guards' = [guards EXCEPT ![t] = Append(@, [kind |-> kind, flag |-> flag])]
Pop(t) == guards' = [guards EXCEPT ![t] = SubSeq(@, 1, Len(@) - 1)]
Goto(t, label) == pc' = [pc EXCEPT ![t] = label]
Call(t, label, o) == Goto(t, label) /\ op' = [op EXCEPT ![t] = o]

Running(t) == ready # <<>> /\ Head(ready) = t

holds(t) == HOLDER = t

TakeReturnsFalse_Recursive(t) == ~LockCreated
\* take() returns at once when there is no lock or the task already holds it.
TakeReturnsFalse(t) == ~LockCreated \/ HOLDER = t

-----------------------------------------------------------------------------
(* The API calls a running task makes. *)

CanPush(t) == Running(t) /\ pc[t] = "run" /\ Len(guards[t]) < MaxNesting
CanPop(t) == Running(t) /\ pc[t] = "run" /\ guards[t] # <<>>

Acquire(t) ==   \* Held::acquire
    /\ CanPush(t)
    /\ IF TakeReturnsFalse(t)
       THEN Push(t, "Held", FALSE) /\ UNCHANGED <<pc, op>>
       ELSE Call(t, "lock", "acquire") /\ UNCHANGED guards
    /\ UNCHANGED <<HOLDER, mutex, waiters, ready>>

Unlocked_KeepsLock(t) ==
    /\ CanPush(t)
    /\ Push(t, "Unlocked", FALSE)
    /\ UNCHANGED <<HOLDER, mutex, waiters, ready, pc, op>>

Unlocked_AlwaysReacquires(t) ==
    /\ CanPush(t)
    /\ IF holds(t)
       THEN Call(t, "clear", "unlocked") /\ UNCHANGED guards
       ELSE Push(t, "Unlocked", TRUE) /\ UNCHANGED <<pc, op>>
    /\ UNCHANGED <<HOLDER, mutex, waiters, ready>>

Unlocked(t) ==  \* unlocked(), and unlocked_for of a wait that may block
    /\ CanPush(t)
    /\ IF holds(t)
       THEN Call(t, "clear", "unlocked") /\ UNCHANGED guards
       ELSE Push(t, "Unlocked", FALSE) /\ UNCHANGED <<pc, op>>
    /\ UNCHANGED <<HOLDER, mutex, waiters, ready>>

UnlockedForNone(t) ==  \* unlocked_for(Timeout::None) keeps the lock
    /\ CanPush(t)
    /\ Push(t, "Poll", FALSE)
    /\ UNCHANGED <<HOLDER, mutex, waiters, ready, pc, op>>

DropHeld(t) ==
    /\ CanPop(t) /\ Top(t).kind = "Held"
    /\ IF Top(t).flag
       THEN Call(t, "clear", "drop") /\ UNCHANGED guards
       ELSE Pop(t) /\ UNCHANGED <<pc, op>>
    /\ UNCHANGED <<HOLDER, mutex, waiters, ready>>

DropUnlocked(t) ==
    /\ CanPop(t) /\ Top(t).kind # "Held"
    /\ IF Top(t).flag /\ ~TakeReturnsFalse(t)
       THEN Call(t, "lock", "drop") /\ UNCHANGED guards
       ELSE Pop(t) /\ UNCHANGED <<pc, op>>
    /\ UNCHANGED <<HOLDER, mutex, waiters, ready>>

-----------------------------------------------------------------------------
(* take(): retry the kernel lock until it succeeds, then publish. *)

TakeLock(t) ==
    /\ Running(t) /\ pc[t] = "lock"
    /\ IF mutex.owner \in {NoTask, t}
       THEN /\ mutex' = [owner |-> t, count |-> mutex.count + 1]
            /\ Goto(t, "store")
            /\ UNCHANGED <<waiters, ready>>
       ELSE /\ waiters' = Append(waiters, t)
            /\ ready' = Tail(ready)
            /\ UNCHANGED <<mutex, pc>>
    /\ UNCHANGED <<HOLDER, op, guards>>

TakeStore(t) ==
    /\ Running(t) /\ pc[t] = "store"
    /\ HOLDER' = t
    /\ Goto(t, "run")
    /\ IF op[t] = "acquire" THEN Push(t, "Held", TRUE) ELSE Pop(t)
    /\ UNCHANGED <<mutex, waiters, ready, op>>

(* give(): retract HOLDER, unlock, then yield to a sibling. *)

GiveClear(t) ==
    /\ Running(t) /\ pc[t] = "clear"
    /\ HOLDER' = NoTask
    /\ Goto(t, "unlock")
    /\ UNCHANGED <<mutex, waiters, ready, op, guards>>

\* mutex_recursive_unlock: only the owner's last unlock frees the mutex and
\* readies the longest waiter, which has to try for it again.
KernelUnlock(t) ==
    IF mutex.owner = t
    THEN /\ mutex' = [owner |-> IF mutex.count = 1 THEN NoTask ELSE t,
                      count |-> mutex.count - 1]
         /\ IF mutex.count = 1 /\ waiters # <<>>
            THEN /\ waiters' = Tail(waiters)
                 /\ ready' = Append(ready, Head(waiters))
            ELSE UNCHANGED <<waiters, ready>>
    ELSE UNCHANGED <<mutex, waiters, ready>>

GiveUnlock(t) ==
    /\ Running(t) /\ pc[t] = "unlock"
    /\ KernelUnlock(t)
    /\ Goto(t, "yield")
    /\ UNCHANGED <<HOLDER, op, guards>>

GiveYield_ClearsHolderLate(t) ==
    /\ Running(t) /\ pc[t] = "yield"
    /\ HOLDER' = NoTask
    /\ ready' = Append(Tail(ready), t)
    /\ Goto(t, "run")
    /\ IF op[t] = "unlocked" THEN Push(t, "Unlocked", TRUE) ELSE Pop(t)
    /\ UNCHANGED <<mutex, waiters, op>>

GiveYield_Omitted(t) ==
    /\ Running(t) /\ pc[t] = "yield"
    /\ Goto(t, "run")
    /\ IF op[t] = "unlocked" THEN Push(t, "Unlocked", TRUE) ELSE Pop(t)
    /\ UNCHANGED <<HOLDER, mutex, waiters, ready, op>>

GiveYield(t) ==
    /\ Running(t) /\ pc[t] = "yield"
    /\ ready' = Append(Tail(ready), t)
    /\ Goto(t, "run")
    /\ IF op[t] = "unlocked" THEN Push(t, "Unlocked", TRUE) ELSE Pop(t)
    /\ UNCHANGED <<HOLDER, mutex, waiters, op>>

-----------------------------------------------------------------------------
(* Waiting, and what the kernel does on its own. *)

Block(t) ==     \* the wait inside a seam wrapper; it may also return at once
    /\ Running(t) /\ pc[t] = "run"
    /\ guards[t] # <<>> /\ Top(t).kind = "Unlocked"
    /\ Goto(t, "blocked")
    /\ ready' = Tail(ready)
    /\ UNCHANGED <<HOLDER, mutex, waiters, op, guards>>

Wake(t) ==      \* a notification, a timeout, or an aborted delay
    /\ pc[t] = "blocked"
    /\ Goto(t, "run")
    /\ ready' = Append(ready, t)
    /\ UNCHANGED <<HOLDER, mutex, waiters, op, guards>>

AbortDelay_TakenForSuccess(t) ==
    /\ \E i \in 1..Len(waiters) :
          /\ waiters[i] = t
          /\ waiters' = SubSeq(waiters, 1, i-1) \o SubSeq(waiters, i+1, Len(waiters))
    /\ ready' = Append(ready, t)
    /\ Goto(t, "store")
    /\ UNCHANGED <<HOLDER, mutex, op, guards>>

AbortDelay(t) ==  \* app stop ends the mutex wait of every child
    /\ \E i \in 1..Len(waiters) :
          /\ waiters[i] = t
          /\ waiters' = SubSeq(waiters, 1, i-1) \o SubSeq(waiters, i+1, Len(waiters))
    /\ ready' = Append(ready, t)
    /\ UNCHANGED <<HOLDER, mutex, pc, op, guards>>

Rotate ==       \* a higher-priority task woke and blocked again
    /\ Len(ready) > 1
    /\ ready' = Append(Tail(ready), Head(ready))
    /\ UNCHANGED <<HOLDER, mutex, waiters, pc, op, guards>>

-----------------------------------------------------------------------------
Orders == {s \in [1..Cardinality(Tasks) -> Tasks] :
              \A i, j \in 1..Cardinality(Tasks) : s[i] = s[j] => i = j}

Init ==
    /\ HOLDER = NoTask
    /\ mutex = [owner |-> NoTask, count |-> 0]
    /\ waiters = <<>>
    /\ ready \in Orders
    /\ pc = [t \in Tasks |-> "run"]
    /\ op = [t \in Tasks |-> "acquire"]
    /\ guards = [t \in Tasks |-> <<>>]

ApiCall(t) == \/ Acquire(t) \/ Unlocked(t) \/ UnlockedForNone(t)
              \/ DropHeld(t) \/ DropUnlocked(t)
TakeGive(t) == \/ TakeLock(t) \/ TakeStore(t)
               \/ GiveClear(t) \/ GiveUnlock(t) \/ GiveYield(t)
TaskStep(t) == ApiCall(t) \/ TakeGive(t) \/ Block(t)

Next == \/ \E t \in Tasks : TaskStep(t) \/ Wake(t) \/ AbortDelay(t)
        \/ Rotate

Spec == Init /\ [][Next]_vars

(***************************************************************************)
(* Fairness.  The processor runs the head of the tier; a task that is not  *)
(* inside the interpreter goes on to take the lock, and one that is        *)
(* reaches its next blocking point; higher-priority wakes do not hit the   *)
(* tier forever.  Nothing is assumed of the mutex or of the ready list.    *)
(***************************************************************************)
Fairness ==
    /\ WF_vars(\E t \in Tasks : TaskStep(t))
    /\ \A t \in Tasks : SF_vars(Unlocked(t) /\ holds(t))
    /\ \A t \in Tasks : SF_vars(Acquire(t) /\ ~holds(t))
    /\ <>[][~Rotate]_vars

LiveSpec == Spec /\ Fairness

-----------------------------------------------------------------------------
\* Types; the kernel mutex is recursive, but the run lock never takes it
\* twice, since a single unlock at a blocking point has to free it.
TypeOK ==
    /\ HOLDER \in Tasks \cup {NoTask}
    /\ mutex \in [owner : Tasks \cup {NoTask}, count : {0, 1}]
    /\ waiters \in Seq(Tasks)
    /\ ready \in Seq(Tasks)
    /\ pc \in [Tasks -> PC]
    /\ op \in [Tasks -> Op]
    /\ guards \in [Tasks -> Seq(Guard)]

\* Two tasks never interpret Java at once: run_lock.rs's contract with the
\* shared heap, which has no locks of its own.
OneInterpreter ==
    LockCreated => \A t, u \in Tasks : Interpreting(t) /\ Interpreting(u) => t = u

\* HOLDER never lies to the task that asks: between calls, holds() answers
\* what the task's own guards promise, and the kernel agrees.  A stale HOLDER
\* would make a blocking wrapper keep the mutex, or release a sibling's.
HolderTruthful ==
    LockCreated => \A t \in Tasks : pc[t] = "run" =>
        /\ holds(t) <=> Inside(t)
        /\ mutex.owner = t <=> Inside(t)

\* A task that waits, in the kernel or for the lock itself, does not keep the
\* mutex: one unlock at the blocking point released it entirely.
NeverBlocksHolding ==
    LockCreated => \A t \in Tasks :
        pc[t] \in {"blocked", "lock"} => mutex.owner # t /\ HOLDER # t

\* Guards mean what their types say, at any nesting: a task has the lock in
\* the scope of a Held, does not have it in the scope of an Unlocked, and a
\* guard is marked to undo something exactly when it did something, so that
\* dropping the guards in reverse order restores what each scope found.
Nested(s) ==
    \A n \in 1..Len(s) :
        /\ s[n].kind = "Held" => HoldsAt(s, n)
        /\ s[n].kind = "Unlocked" => ~HoldsAt(s, n)
        /\ s[n].flag => /\ s[n].kind # "Poll"
                        /\ s[n].kind = "Held" <=> ~HoldsAt(s, n - 1)
GuardsNest == LockCreated => \A t \in Tasks : Nested(guards[t])

\* What the heap rests on: one interpreter at a time, a HOLDER that tells each
\* task the truth about itself, and no task that blocks with the lock.
LockSafe == TypeOK /\ OneInterpreter /\ HolderTruthful /\ NeverBlocksHolding

\* A task that wants the lock gets it, although the task that gives it may
\* want it back at once (the UI loop on a queue that never drains).
TakerGetsLock == \A t \in Tasks : pc[t] = "lock" ~> Interpreting(t)

\* The lock implements the exclusion the heap relies on: every change of the
\* interpreting task goes through a state in which nobody interprets.
Exclusion == INSTANCE JavaExclusion WITH inside <- {t \in Tasks : Interpreting(t)}
ImplementsExclusion == Exclusion!Spec
=============================================================================
