---------------------------- MODULE MonitorStore ----------------------------
(***************************************************************************)
(* Java monitors (crates/picodroid-core/src/monitor_store.rs) under the    *)
(* tasks that use them: the UI task `Main`, the tasks of Thread.start, and *)
(* the background workers, which enter, leave and wait on monitors while   *)
(* a collection prunes the table and the supervisor stops one app and      *)
(* starts the next (platforms/rp/src/boot_tasks.rs).                       *)
(*                                                                         *)
(* A step is one AtomicSection or one kernel call.  The run lock appears   *)
(* as JavaExclusion, which module RunLock implements: `java` is the task   *)
(* that interprets, and a task gives it up around every blocking call.     *)
(***************************************************************************)
EXTENDS Integers, Sequences, FiniteSets

CONSTANTS Main, Children, Workers, NoTask,
          Keys,          \* heap slots of the objects used as monitors
          Disciplined,   \* the app orders its locks; Main starts the threads
                         \* and uses no monitor
          SpawnMayFail,  \* the kernel may refuse a task
          MaxHold,       \* bound on nested synchronized blocks of one task
          MaxRuns        \* bound on the app runs of one boot

Tasks == {Main} \cup Children \cup Workers

ASSUME TasksAssumption ==
    /\ Main \notin Children \cup Workers
    /\ Children \cap Workers = {}
    /\ NoTask \notin Tasks
ASSUME KeysAssumption == Keys \subseteq Nat /\ Keys # {}
ASSUME BoundsAssumption ==
    /\ Disciplined \in BOOLEAN /\ SpawnMayFail \in BOOLEAN
    /\ MaxHold \in Nat /\ MaxRuns \in Nat

VARIABLES MONITORS,  \* the table: Absent, or [owner, depth], for each key
          mutex,     \* the kernel mutex of each entry: [owner, count]
          java,      \* the task that holds the run lock
          pc,        \* where each task is
          frames,    \* the synchronized scopes each task is in, outermost first
          want,      \* the key a task enters, waits on or takes back
          need,      \* levels of want a wait has left to take back; 0 in an enter
          STOP_JVM,  \* the app stop flag
          phase,     \* what the supervisor loop of jvm_task does
          runs       \* app runs started so far

vars == <<MONITORS, mutex, java, pc, frames, want, need, STOP_JVM, phase, runs>>

Absent == [owner |-> NoTask, depth |-> 0, present |-> FALSE]
Entry(o, d) == [owner |-> o, depth |-> d, present |-> TRUE]
Free == [owner |-> NoTask, count |-> 0]

PC == {"off",      \* not in the interpreter
       "ready",    \* spawned or back from a pause, waiting for the run lock
       "run",      \* interpreting
       "call",     \* gave the run lock up, about to lock the kernel mutex
       "blocked",  \* waiting for the kernel mutex
       "retake",   \* has the kernel mutex, waiting for the run lock
       "failed",   \* the wait was aborted, waiting for the run lock
       "parked",   \* in Object.wait
       "woken",    \* its park ended, waiting for the run lock
       "leaving"}  \* a child out of the interpreter, not yet terminated

Phase == {"app", "stop", "abort", "drain", "boot"}

Holds(s, k) == Cardinality({i \in DOMAIN s : s[i] = k})

Entering(t) == pc[t] \in {"call", "blocked", "retake", "failed"}

\* Keys the collector reaches from the stacks of the tasks.
Rooted(k) == \E t \in Tasks : \/ Entering(t) /\ want[t] = k
                              \/ Holds(frames[t], k) > 0

Interprets(t) == java = t /\ pc[t] = "run"
Goto(t, label) == pc' = [pc EXCEPT ![t] = label]

-----------------------------------------------------------------------------
(* enter_with *)

\* The table entry for k, created on first use, with its kernel mutex.  (No
\* memory for the mutex: an OutOfMemoryError, and nothing has changed.)
FindOrCreate(k) ==
    IF MONITORS[k].present
    THEN UNCHANGED <<MONITORS, mutex>>
    ELSE /\ MONITORS' = [MONITORS EXCEPT ![k] = Entry(NoTask, 0)]
         /\ mutex' = [mutex EXCEPT ![k] = Free]

MayEnter(t, k) == Disciplined => /\ t # Main
                                 /\ \A i \in DOMAIN frames[t] : frames[t][i] <= k

Enter(t, k) ==      \* monitorenter: the first section; the lock call follows
    /\ Interprets(t) /\ Len(frames[t]) < MaxHold /\ MayEnter(t, k)
    /\ FindOrCreate(k)
    /\ want' = [want EXCEPT ![t] = k]
    /\ need' = [need EXCEPT ![t] = 0]
    /\ Goto(t, "call")
    /\ java' = NoTask
    /\ UNCHANGED <<frames, STOP_JVM, phase, runs>>

Available(t, k) == mutex[k].owner \in {NoTask, t}

KernelLock(t) ==    \* mutex_recursive_lock, the run lock already given up
    /\ pc[t] \in {"call", "blocked"} /\ Available(t, want[t])
    /\ mutex' = [mutex EXCEPT ![want[t]] = [owner |-> t, count |-> @.count + 1]]
    /\ Goto(t, "retake")
    /\ UNCHANGED <<MONITORS, java, frames, want, need, STOP_JVM, phase, runs>>

KernelBlock(t) ==
    /\ pc[t] = "call" /\ ~Available(t, want[t])
    /\ Goto(t, "blocked")
    /\ UNCHANGED <<MONITORS, mutex, java, frames, want, need, STOP_JVM, phase, runs>>

Recorded_CountsDown(t) ==
    /\ need' = [need EXCEPT ![t] = @ - 1]
    /\ IF need[t] < 2 THEN Goto(t, "run") /\ java' = t
                      ELSE Goto(t, "call") /\ UNCHANGED java
    /\ UNCHANGED frames

Recorded_OneLevel(t) ==
    /\ frames' = IF need[t] = 0 THEN [frames EXCEPT ![t] = Append(@, want[t])] ELSE frames
    /\ need' = [need EXCEPT ![t] = 0]
    /\ Goto(t, "run") /\ java' = t

\* The lock is recorded: monitorenter is done, or one more level of a wait.
Recorded(t) ==
    IF need[t] = 0
    THEN /\ frames' = [frames EXCEPT ![t] = Append(@, want[t])]
         /\ Goto(t, "run") /\ java' = t
         /\ UNCHANGED need
    ELSE /\ need' = [need EXCEPT ![t] = @ - 1]
         /\ IF need[t] = 1 THEN Goto(t, "run") /\ java' = t
                           ELSE Goto(t, "call") /\ UNCHANGED java
         /\ UNCHANGED frames

\* The second section; reacquire goes round again.  enter_with's branch for
\* an entry that is gone has no action: HandleValid says it cannot happen.
Record(t) ==
    /\ pc[t] = "retake" /\ java = NoTask /\ MONITORS[want[t]].present
    /\ MONITORS' = [MONITORS EXCEPT ![want[t]] = Entry(t, @.depth + 1)]
    /\ Recorded(t)
    /\ UNCHANGED <<mutex, want, STOP_JVM, phase, runs>>

EnterFails_TakenForSuccess(t) ==
    /\ pc[t] = "failed"
    /\ Goto(t, "retake")
    /\ UNCHANGED <<MONITORS, mutex, java, frames, want, need, STOP_JVM, phase, runs>>

EnterFails(t) ==    \* a Forever lock ended by app stop: JvmError::Interrupted
    /\ pc[t] = "failed" /\ java = NoTask
    /\ frames' = [frames EXCEPT ![t] = <<>>]
    /\ Goto(t, "leaving")
    /\ UNCHANGED <<MONITORS, mutex, java, want, need, STOP_JVM, phase, runs>>

-----------------------------------------------------------------------------
(* exit, save_and_release, release_all_held_by_current, prune_dead, clear *)

HeldBy(t, k) == MONITORS[k].owner = t /\ MONITORS[k].depth > 0

\* n kernel unlocks by t; FreeRTOS ignores a give by a task that is not owner.
Unlocks(t, m, n) == IF m.owner # t THEN m
                    ELSE IF m.count = n THEN Free ELSE [m EXCEPT !.count = @ - n]

Exit(t) ==          \* monitorexit; not the owner: IllegalMonitorState
    LET k == frames[t][Len(frames[t])] IN
    /\ Interprets(t) /\ frames[t] # <<>>
    /\ IF HeldBy(t, k)
       THEN /\ MONITORS' = [MONITORS EXCEPT ![k] =
                  IF @.depth = 1 THEN Entry(NoTask, 0) ELSE Entry(t, @.depth - 1)]
            /\ mutex' = [mutex EXCEPT ![k] = Unlocks(t, @, 1)]
       ELSE UNCHANGED <<MONITORS, mutex>>
    /\ frames' = [frames EXCEPT ![t] = SubSeq(@, 1, Len(@) - 1)]
    /\ UNCHANGED <<java, pc, want, need, STOP_JVM, phase, runs>>

MayWait(t, k) == Disciplined => \A i \in DOMAIN frames[t] : frames[t][i] <= k

SaveAndRelease_OneLevel(t, k) ==
    /\ need' = [need EXCEPT ![t] = MONITORS[k].depth]
    /\ mutex' = [mutex EXCEPT ![k] = Unlocks(t, @, 1)]
    /\ MONITORS' = [MONITORS EXCEPT ![k] = Entry(NoTask, 0)]

SaveAndRelease(t, k) ==
    /\ need' = [need EXCEPT ![t] = MONITORS[k].depth]
    /\ mutex' = [mutex EXCEPT ![k] = Unlocks(t, @, MONITORS[k].depth)]
    /\ MONITORS' = [MONITORS EXCEPT ![k] = Entry(NoTask, 0)]

Wait_IgnoresStop(t, k) ==
    /\ Interprets(t) /\ HeldBy(t, k) /\ MayWait(t, k)
    /\ SaveAndRelease(t, k)
    /\ want' = [want EXCEPT ![t] = k]
    /\ Goto(t, "parked")
    /\ java' = NoTask
    /\ UNCHANGED <<frames, STOP_JVM, phase, runs>>

Wait(t, k) ==       \* Object.wait, up to its park; a stop keeps it from parking
    /\ Interprets(t) /\ HeldBy(t, k) /\ MayWait(t, k)
    /\ SaveAndRelease(t, k)
    /\ want' = [want EXCEPT ![t] = k]
    /\ Goto(t, IF STOP_JVM THEN "woken" ELSE "parked")
    /\ java' = NoTask
    /\ UNCHANGED <<frames, STOP_JVM, phase, runs>>

Wake(t) ==          \* notified, interrupted or timed out
    /\ pc[t] = "parked"
    /\ Goto(t, "woken")
    /\ UNCHANGED <<MONITORS, mutex, java, frames, want, need, STOP_JVM, phase, runs>>

Reacquire(t) ==     \* the first section of the first enter of reacquire
    /\ pc[t] = "woken" /\ java = NoTask
    /\ FindOrCreate(want[t])
    /\ Goto(t, "call")
    /\ UNCHANGED <<java, frames, want, need, STOP_JVM, phase, runs>>

ReleaseAll_OneLevel(t) ==
    /\ MONITORS' = [k \in Keys |-> IF HeldBy(t, k) THEN Entry(NoTask, 0) ELSE MONITORS[k]]
    /\ mutex' = [k \in Keys |-> IF HeldBy(t, k) THEN Unlocks(t, mutex[k], 1) ELSE mutex[k]]

ReleaseAll(t) ==
    /\ MONITORS' = [k \in Keys |-> IF HeldBy(t, k) THEN Entry(NoTask, 0) ELSE MONITORS[k]]
    /\ mutex' = [k \in Keys |-> IF HeldBy(t, k)
                                THEN Unlocks(t, mutex[k], MONITORS[k].depth) ELSE mutex[k]]

PruneDead_IgnoresLive(dead) ==
    MONITORS' = [k \in Keys |-> IF MONITORS[k].depth = 0 THEN Absent ELSE MONITORS[k]]

PruneDead(dead) ==
    MONITORS' = [k \in Keys |-> IF MONITORS[k].depth = 0 /\ k \in dead
                                THEN Absent ELSE MONITORS[k]]

Collect(t) ==       \* a collection, and the prune that follows it at once
    /\ Interprets(t)
    /\ \E dead \in SUBSET {k \in Keys : ~Rooted(k)} : PruneDead(dead)
    /\ UNCHANGED <<mutex, java, pc, frames, want, need, STOP_JVM, phase, runs>>

-----------------------------------------------------------------------------
(* Tasks: Thread.start, the end of a thread, background work. *)

Start(t, c) ==
    /\ Interprets(t) /\ pc[c] = "off" /\ (Disciplined => t = Main)
    /\ Goto(c, "ready")
    /\ UNCHANGED <<MONITORS, mutex, java, frames, want, need, STOP_JVM, phase, runs>>

\* No task could be created: terminate_by_obj of the thread that never ran
\* gives back the monitors of the calling task, which is the one starting it.
StartFails(t) ==
    /\ SpawnMayFail /\ Interprets(t)
    /\ ReleaseAll(t)
    /\ UNCHANGED <<java, pc, frames, want, need, STOP_JVM, phase, runs>>

TakeWork(w) ==      \* a worker received a Runnable, of this app or one stopping
    /\ pc[w] = "off" /\ runs > 0
    /\ Goto(w, "ready")
    /\ UNCHANGED <<MONITORS, mutex, java, frames, want, need, STOP_JVM, phase, runs>>

Begin(t) ==
    /\ pc[t] = "ready" /\ java = NoTask
    /\ java' = t
    /\ Goto(t, "run")
    /\ UNCHANGED <<MONITORS, mutex, frames, want, need, STOP_JVM, phase, runs>>

Pause(t) ==         \* any other blocking call: a sleep, a yield, a read
    /\ Interprets(t)
    /\ java' = NoTask
    /\ Goto(t, "ready")
    /\ UNCHANGED <<MONITORS, mutex, frames, want, need, STOP_JVM, phase, runs>>

\* Java code returned, or the stop check of the interpreter ended it inside
\* its synchronized scopes.
Leave(t) ==
    /\ Interprets(t) /\ (frames[t] = <<>> \/ STOP_JVM)
    /\ java' = NoTask
    /\ frames' = [frames EXCEPT ![t] = <<>>]
    /\ Goto(t, "leaving")
    /\ UNCHANGED <<MONITORS, mutex, want, need, STOP_JVM, phase, runs>>

\* A thread's terminate_current and deregistration; a worker's clean-up.
Finish(t) ==
    /\ t # Main /\ pc[t] = "leaving"
    /\ ReleaseAll(t)
    /\ Goto(t, "off")
    /\ UNCHANGED <<java, frames, want, need, STOP_JVM, phase, runs>>

-----------------------------------------------------------------------------
(* App stop: the debug bridge and the supervisor loop of jvm_task. *)

RequestStop ==      \* notify_jvm ends a park of the UI task, not a mutex wait
    /\ phase = "app" /\ ~STOP_JVM
    /\ STOP_JVM' = TRUE
    /\ pc' = [pc EXCEPT ![Main] = IF @ = "parked" THEN "woken" ELSE @]
    /\ UNCHANGED <<MONITORS, mutex, java, frames, want, need, phase, runs>>

\* run_app returned.  The error path of a posted Runnable gives back the
\* monitors of the UI task; a stop inside any other callback keeps them.
AppReturns ==
    /\ phase = "app" /\ pc[Main] = "leaving"
    /\ ReleaseAll(Main) \/ UNCHANGED <<MONITORS, mutex>>
    /\ Goto(Main, "off")
    /\ phase' = "stop"
    /\ UNCHANGED <<java, frames, want, need, STOP_JVM, runs>>

Active == {c \in Children : pc[c] # "off"}

RaiseStop_Never ==
    /\ phase = "stop"
    /\ phase' = "abort"
    /\ UNCHANGED <<MONITORS, mutex, java, pc, frames, want, need, STOP_JVM, runs>>

RaiseStop ==
    /\ phase = "stop"
    /\ STOP_JVM' = (STOP_JVM \/ Active # {})
    /\ phase' = "abort"
    /\ UNCHANGED <<MONITORS, mutex, java, pc, frames, want, need, runs>>

\* abort_all_child_delays, then wake_all_parked: once, for whoever waits now.
AbortDelays ==
    /\ phase = "abort"
    /\ pc' = [t \in Tasks |-> IF t \in Children /\ pc[t] = "blocked" THEN "failed"
                              ELSE IF pc[t] = "parked" THEN "woken"
                              ELSE pc[t]]
    /\ phase' = "drain"
    /\ UNCHANGED <<MONITORS, mutex, java, frames, want, need, STOP_JVM, runs>>

Drain ==
    /\ phase = "drain" /\ Active = {}
    /\ phase' = "boot"
    /\ UNCHANGED <<MONITORS, mutex, java, pc, frames, want, need, STOP_JVM, runs>>

Boot ==             \* clear_stop, take the run lock, clear the monitor table
    /\ phase = "boot" /\ java = NoTask /\ runs < MaxRuns
    /\ STOP_JVM' = FALSE
    /\ MONITORS' = [k \in Keys |-> Absent]
    /\ java' = Main
    /\ Goto(Main, "run")
    /\ phase' = "app"
    /\ runs' = runs + 1
    /\ UNCHANGED <<mutex, frames, want, need>>

-----------------------------------------------------------------------------
Init ==
    /\ MONITORS = [k \in Keys |-> Absent]
    /\ mutex = [k \in Keys |-> Free]
    /\ java = NoTask
    /\ pc = [t \in Tasks |-> "off"]
    /\ frames = [t \in Tasks |-> <<>>]
    /\ want = [t \in Tasks |-> CHOOSE k \in Keys : TRUE]
    /\ need = [t \in Tasks |-> 0]
    /\ STOP_JVM = FALSE
    /\ phase = "boot"
    /\ runs = 0

JavaStep(t) == \/ \E k \in Keys : Enter(t, k) \/ Wait(t, k)
               \/ Exit(t) \/ Collect(t) \/ Pause(t) \/ StartFails(t)
               \/ \E c \in Children : Start(t, c)
Seam(t) == KernelLock(t) \/ KernelBlock(t) \/ Record(t) \/ EnterFails(t) \/ Reacquire(t)

Next == \/ \E t \in Tasks : \/ JavaStep(t) \/ Seam(t) \/ Wake(t)
                            \/ Begin(t) \/ Leave(t) \/ Finish(t)
        \/ \E w \in Workers : TakeWork(w)
        \/ RequestStop \/ AppReturns \/ RaiseStop \/ AbortDelays \/ Drain \/ Boot

Spec == Init /\ [][Next]_vars

(***************************************************************************)
(* Fairness.  A ready task runs; the run lock and a free mutex reach a     *)
(* task that keeps asking (TakerGetsLock of RunLock); the interpreter gets *)
(* to its stop check.  No app code is assumed to leave a monitor or to end *)
(* a wait.                                                                 *)
(***************************************************************************)
Fairness ==
    /\ \A t \in Children \cup Workers : /\ SF_vars(Seam(t) \/ Begin(t) \/ Finish(t))
                                        /\ SF_vars(STOP_JVM /\ Leave(t))
    /\ WF_vars(RaiseStop \/ AbortDelays \/ Drain)

LiveSpec == Spec /\ Fairness

-----------------------------------------------------------------------------
\* The shape of the state: no depth, count or level still to take back ever
\* drops below zero.
TypeOK ==
    /\ MONITORS \in [Keys -> [owner : Tasks \cup {NoTask}, depth : Nat, present : BOOLEAN]]
    /\ mutex \in [Keys -> [owner : Tasks \cup {NoTask}, count : Nat]]
    /\ java \in Tasks \cup {NoTask}
    /\ pc \in [Tasks -> PC]
    /\ frames \in [Tasks -> Seq(Keys)]
    /\ want \in [Tasks -> Keys]
    /\ need \in [Tasks -> Nat]
    /\ STOP_JVM \in BOOLEAN
    /\ phase \in Phase
    /\ runs \in Nat

\* The table never loses count of the kernel: the mutex of an entry is held
\* by the recorded owner, once per recorded level, plus once by a task that
\* has locked it and not yet recorded it.  One level too few or too many and
\* the monitor of a finished thread stays locked for ever.
InFlight(t, k) == pc[t] = "retake" /\ want[t] = k
TableMatchesKernel ==
    \A k \in Keys : MONITORS[k].present =>
        /\ MONITORS[k].owner = NoTask <=> MONITORS[k].depth = 0
        /\ mutex[k].count = MONITORS[k].depth
             + IF \E t \in Tasks : InFlight(t, k) THEN 1 ELSE 0
        /\ mutex[k].owner = NoTask <=> mutex[k].count = 0
        /\ MONITORS[k].depth > 0 => mutex[k].owner = MONITORS[k].owner
        /\ \A t \in Tasks : InFlight(t, k) => mutex[k].owner = t

\* A task that is about to lock a mutex, waits for it or has locked it still
\* finds the entry: no collection deleted the handle it copied out of the
\* table (the branch enter_with calls unreachable).
HandleValid ==
    \A t \in Tasks : pc[t] \in {"call", "blocked", "retake"} => MONITORS[want[t]].present

\* The table and the kernel's mutexes say the same, and the table names no
\* mutex that is gone.
TableTrue == TypeOK /\ TableMatchesKernel /\ HandleValid

\* Java code holds exactly the monitors of the synchronized scopes it is in,
\* at the depth it entered them, whatever natives it called in between; a
\* wait takes away the one it waits on and gives it back level by level.
Level(t, k) == Holds(frames[t], k)
    - IF (Entering(t) \/ pc[t] \in {"parked", "woken"}) /\ want[t] = k THEN need[t] ELSE 0
ScopesHeld ==
    \A t \in Tasks, k \in Keys : pc[t] \notin {"off", "leaving"} =>
        IF HeldBy(t, k) THEN MONITORS[k].depth = Level(t, k) ELSE Level(t, k) = 0

\* Two tasks are never inside scopes of the same object, however they got
\* there: through a first enter, a recursive one, or the end of a wait.
MonitorExcludes ==
    \A k \in Keys : \A t, u \in Tasks : Level(t, k) > 0 /\ Level(u, k) > 0 => t = u

\* A synchronized scope is what Java takes it for: held for as long as the task
\* is in it, and by nobody else.
ScopesExclude == ScopesHeld /\ MonitorExcludes

\* A task whose thread is over leaves nothing locked behind it.
GoneHoldNothing ==
    \A t \in Children \cup Workers : pc[t] = "off" => \A k \in Keys :
        MONITORS[k].present => mutex[k].owner # t

\* A lock wait that was ended from outside finds the stop flag set when it
\* looks, so the thread unwinds quietly instead of throwing an
\* IllegalMonitorStateException at the app (enter_with).
AbortMeansStop == \A t \in Tasks : pc[t] = "failed" => STOP_JVM

\* Leaving is clean, by a stop in the middle of a wait or by the end of run.
LeavesClean == GoneHoldNothing /\ AbortMeansStop

\* App stop ends: once the UI task is out of the app, every thread the app
\* left behind gets out of its waits and the next app can start.
StopDrains == phase \in {"stop", "abort", "drain"} ~> phase = "boot"
=============================================================================
