---------------------------- MODULE MainExecutor ----------------------------
(***************************************************************************)
(* The executor of the UI task: the bounded main queue and its root shadow *)
(* (executors/main_queue.rs), the tick source that posts to it, the table  *)
(* of deadlines behind MainScheduledExecutor (executors/scheduled.rs), the *)
(* turns of the activity loop that drain the queue (lifecycle/mod.rs), and *)
(* the Java tasks in the table (MainScheduledExecutor, ScheduledFutureTask *)
(* and FutureTask of the SDK).                                             *)
(*                                                                         *)
(* A step is the code between two places where another Java task can run:  *)
(* one synchronized block or native call of a task that holds the run      *)
(* lock.  The kernel's receive is a step of its own: the UI task pops the  *)
(* word without the run lock and goes on when it has the lock again.       *)
(* Time is the ms left to each deadline, in units that Elapse takes away.  *)
(***************************************************************************)
EXTENDS Integers, FiniteSets, Sequences, SequencesExt

CONSTANTS UI, Callers,      \* the UI task; the other Java tasks
          Futures, Plain,   \* ScheduledFutureTasks; lambdas given to execute
          None,
          QUEUE_CAPACITY, SLOT_CAPACITY,
          Generations,      \* values of a generation before it wraps
          KindsOf,          \* how each future may be scheduled: a bound of the instance
          Period, MaxDelay  \* the period of every periodic task; bound on delays

ASSUME CapacityAssumption == QUEUE_CAPACITY \in Nat \ {0} /\ SLOT_CAPACITY \in Nat \ {0}
ASSUME GenerationAssumption == Generations \in Nat \ {0}
ASSUME PeriodAssumption == Period \in Nat \ {0} /\ MaxDelay \in Nat

VARIABLES queue, shadow,    \* the words in the kernel queue; PENDING_RUNNABLES
          overrun,          \* history: a push has found the shadow full
          tick_in_queue,    \* TICK_IN_QUEUE
          hand,             \* the word the UI task has popped and not looked at
          ticking,          \* the tick timer runs
          table,            \* the deadline table
          future,           \* the fields of each ScheduledFutureTask
          armed, shutdown,  \* the fields of MainScheduledExecutor
          proc,             \* where each Java task is
          interrupted       \* the stop flag of the UI task's handler

vars == <<queue, shadow, overrun, tick_in_queue, hand, ticking, table, future, armed, shutdown,
          proc, interrupted>>

Kinds == {"OneShot", "FixedRate", "FixedDelay"}
ASSUME KindsAssumption == KindsOf \in [Futures -> SUBSET Kinds]
Runnables == Futures \cup Plain
ASSUME NamesAssumption ==
    /\ IsFiniteSet(Futures) /\ Futures \cap Plain = {} /\ UI \notin Callers
    /\ Runnables \cap {None, "none", "tick", "wake"} = {}
Procs == Callers \cup {UI}
Slots == 1..SLOT_CAPACITY
Ids == Slots \X (0..Generations-1)
NoId == <<0, 0>>

EMPTY == [runnable |-> None, left |-> 0, kind |-> "OneShot", in_flight |-> FALSE,
          live |-> FALSE, generation |-> 0]

\* History: done() or run() read the id before arm had stored it (`missed`); how
\* often the slot of an id that is held was freed (`age`, up to Generations).
Unborn == [state |-> "none", kind |-> "OneShot", id |-> NoId, missed |-> FALSE, age |-> 0]

Idle == [pc |-> "idle", task |-> None, id |-> NoId, rest |-> {}]
PC == {"idle", "added", "armed", "rejected", "done", "taken", "freed", "shut",
       "recv", "got", "tick", "call", "run", "calling", "report", "complete",
       "turn", "ended"}

Goto(p, label) == proc' = [proc EXCEPT ![p].pc = label]

Init == /\ queue = <<>> /\ shadow = <<>> /\ overrun = FALSE
        /\ tick_in_queue = FALSE /\ hand = "none"
        /\ ticking = TRUE
        /\ table = [s \in Slots |-> EMPTY]
        /\ future = [f \in Futures |-> Unborn]
        /\ armed = {} /\ shutdown = FALSE
        /\ proc = [p \in Procs |-> [Idle EXCEPT !.pc = IF p = UI THEN "turn" ELSE "idle"]]
        /\ interrupted = FALSE

-----------------------------------------------------------------------------
(* The main queue. *)
Full(q) == Len(q) = QUEUE_CAPACITY

shadow_push(sh, r) == IF Len(sh) < QUEUE_CAPACITY THEN Append(sh, r) ELSE sh
shadow_remove(sh, r) == IF Contains(sh, r) THEN RemoveFirst(sh, r) ELSE sh

\* The timer task outranks every task of core 0, so this is one step.
enqueue_tick ==
    /\ ticking /\ ~tick_in_queue /\ ~Full(queue)
    /\ queue' = Append(queue, "tick") /\ tick_in_queue' = TRUE
    /\ UNCHANGED <<shadow, overrun, hand, ticking, table, future, armed, shutdown, proc, interrupted>>

\* Mutant: a Runnable is sent to the front of the queue.
enqueue_runnable_Front(c, r) ==
    /\ proc[c].pc = "idle"
    /\ r # hand /\ ~Contains(queue, r) /\ proc[UI].task # r /\ ~Full(queue)
    /\ queue' = <<r>> \o queue /\ shadow' = shadow_push(shadow, r)
    /\ overrun' = (overrun \/ Full(shadow))
    /\ UNCHANGED <<tick_in_queue, hand, ticking, table, future, armed, shutdown, proc,
                   interrupted>>

\* execute of a lambda that is not in the queue already; a full queue drops it.
enqueue_runnable(c, r) ==
    /\ proc[c].pc = "idle"
    /\ r # hand /\ ~Contains(queue, r) /\ proc[UI].task # r /\ ~Full(queue)
    /\ queue' = Append(queue, r) /\ shadow' = shadow_push(shadow, r)
    /\ overrun' = (overrun \/ Full(shadow))
    /\ UNCHANGED <<tick_in_queue, hand, ticking, table, future, armed, shutdown, proc,
                   interrupted>>

\* Mutant: the nudge is left to the next tick.
enqueue_wake_Never(q) == q

enqueue_wake(q) == IF Full(q) THEN q ELSE Append(q, "wake")

\* The debug bridge asks the app to stop and nudges its loop.
Stop ==
    /\ ~interrupted
    /\ interrupted' = TRUE /\ queue' = enqueue_wake(queue)
    /\ UNCHANGED <<shadow, overrun, tick_in_queue, hand, ticking, table, future, armed, shutdown, proc>>

\* recv_blocking up to the kernel's receive, then the rest of it, under the lock.
Receive ==
    /\ proc[UI].pc = "recv" /\ queue # <<>>
    /\ hand' = Head(queue) /\ queue' = Tail(queue)
    /\ Goto(UI, "got")
    /\ UNCHANGED <<shadow, overrun, tick_in_queue, ticking, table, future, armed, shutdown, interrupted>>

TurnOf(word) == CASE word = "tick" -> "tick"
                  [] word = "wake" -> "turn"
                  [] word \in Plain -> "call"
                  [] OTHER -> "run"

\* Mutant: the tick flag is left for the next frame to clear.
recv_blocking_FlagKept ==
    /\ proc[UI].pc = "got"
    /\ shadow' = IF hand \in Runnables THEN shadow_remove(shadow, hand) ELSE shadow
    /\ proc' = [proc EXCEPT ![UI].pc = TurnOf(hand),
                            ![UI].task = IF hand \in Runnables THEN hand ELSE None]
    /\ hand' = "none"
    /\ UNCHANGED <<queue, overrun, tick_in_queue, ticking, table, future, armed, shutdown,
                   interrupted>>

recv_blocking ==
    /\ proc[UI].pc = "got"
    /\ tick_in_queue' = (tick_in_queue /\ hand # "tick")
    /\ shadow' = IF hand \in Runnables THEN shadow_remove(shadow, hand) ELSE shadow
    /\ proc' = [proc EXCEPT ![UI].pc = TurnOf(hand),
                            ![UI].task = IF hand \in Runnables THEN hand ELSE None]
    /\ hand' = "none"
    /\ UNCHANGED <<queue, overrun, ticking, table, future, armed, shutdown, interrupted>>

-----------------------------------------------------------------------------
(* The deadline table. *)
resolve(id) == {s \in Slots : /\ id # NoId /\ s = id[1]
                              /\ table[s].live /\ table[s].generation = id[2]}

\* Mutants: the generation does not wrap; a freed slot keeps its generation.
free_Unwrapped(e) == [EMPTY EXCEPT !.generation = e.generation + 1]
free_SameGeneration(e) == [EMPTY EXCEPT !.generation = e.generation]

free(e) == [EMPTY EXCEPT !.generation = (e.generation + 1) % Generations]

is_due(e) == e.live /\ ~e.in_flight /\ e.left =< 0

FreeSlots == {s \in Slots : ~table[s].live}
FirstFree == CHOOSE s \in FreeSlots : \A x \in FreeSlots : s =< x

schedule(f, delay) ==
    [table EXCEPT ![FirstFree] = [@ EXCEPT !.runnable = f, !.left = delay, !.in_flight = FALSE,
                                           !.kind = future[f].kind, !.live = TRUE]]

cancel(id) == [s \in Slots |-> IF s \in resolve(id) THEN free(table[s]) ELSE table[s]]

\* Mutant: the deadline is set and the entry still waits for its run.
completed_StillInFlight(id) ==
    [s \in Slots |-> IF s \in resolve(id) /\ table[s].kind = "FixedDelay"
                     THEN [table[s] EXCEPT !.left = Period] ELSE table[s]]

completed(id) ==
    [s \in Slots |-> IF s \in resolve(id) /\ table[s].kind = "FixedDelay"
                     THEN [table[s] EXCEPT !.in_flight = FALSE, !.left = Period]
                     ELSE table[s]]

\* The ids of a future, in its field and in the locals of arm, done and run; and
\* how far behind the generations of a table T they have come.
IdsOf(f) == ({future[f].id} \cup {proc[p].id : p \in {q \in Procs : proc[q].task = f}}) \ {NoId}
Passed(T, f) == \E id \in IdsOf(f) : table[id[1]].live /\ ~T[id[1]].live
Aged(T) == [f \in Futures |-> IF Passed(T, f) /\ future[f].age < Generations
                              THEN [future[f] EXCEPT !.age = @ + 1] ELSE future[f]]

\* Mutant: a fixed-delay entry is armed again when it is posted.
Posted_Rearmed(e) ==
    CASE e.kind = "OneShot" -> free(e)
      [] e.kind = "FixedDelay" -> [e EXCEPT !.left = Period]
      [] e.kind = "FixedRate" ->
            [e EXCEPT !.left = IF e.left + Period =< 0 THEN Period ELSE e.left + Period]

\* What an entry becomes when it is posted.
Posted(e) ==
    CASE e.kind = "OneShot" -> free(e)
      [] e.kind = "FixedDelay" -> [e EXCEPT !.in_flight = TRUE, !.left = 0]
      [] e.kind = "FixedRate" ->
            [e EXCEPT !.left = IF e.left + Period =< 0 THEN Period ELSE e.left + Period]

FireSlot(acc, s) ==
    LET e == acc.table[s] IN
    IF is_due(e) /\ ~Full(acc.queue)
    THEN [table |-> [acc.table EXCEPT ![s] = Posted(e)],
          queue |-> Append(acc.queue, e.runnable),
          shadow |-> shadow_push(acc.shadow, e.runnable),
          overrun |-> acc.overrun \/ Full(acc.shadow)]
    ELSE acc

\* The loop of fire_due: what it has made of the table and the queue after s slots.
Swept[s \in 0..SLOT_CAPACITY] ==
    IF s = 0 THEN [table |-> table, queue |-> queue, shadow |-> shadow, overrun |-> overrun]
             ELSE FireSlot(Swept[s - 1], s)

fire_due ==
    /\ proc[UI].pc = "tick"
    /\ LET after == Swept[SLOT_CAPACITY]
       IN /\ table' = after.table /\ queue' = after.queue
          /\ shadow' = after.shadow /\ overrun' = after.overrun
          /\ future' = Aged(after.table)
    /\ Goto(UI, "turn")
    /\ UNCHANGED <<tick_in_queue, hand, ticking, armed, shutdown, interrupted>>

\* Time passes.  A deadline missed by a whole period need not be told from
\* one missed by more: fire_due treats them alike.
Elapse ==
    /\ table' = [s \in Slots |->
                    IF table[s].live /\ ~table[s].in_flight /\ table[s].left > -Period
                    THEN [table[s] EXCEPT !.left = @ - 1] ELSE table[s]]
    /\ table' # table
    /\ UNCHANGED <<queue, shadow, overrun, tick_in_queue, hand, ticking, future, armed, shutdown,
                   proc, interrupted>>

-----------------------------------------------------------------------------
(* MainScheduledExecutor.arm and ScheduledFutureTask.arm. *)
OnlyJava == UNCHANGED <<queue, shadow, overrun, tick_in_queue, hand, ticking, interrupted>>

Arm(c, f, k) ==
    /\ proc[c].pc = "idle"
    /\ future[f].state = "none" /\ ~shutdown
    /\ future' = [future EXCEPT ![f] = [@ EXCEPT !.state = "NEW", !.kind = k]]
    /\ armed' = armed \cup {f}
    /\ proc' = [proc EXCEPT ![c] = [@ EXCEPT !.pc = "added", !.task = f]]
    /\ OnlyJava /\ UNCHANGED <<table, shutdown>>

ArmSlot(c, delay) ==
    /\ proc[c].pc = "added"
    /\ IF FreeSlots # {}
       THEN /\ table' = schedule(proc[c].task, delay)
            /\ proc' = [proc EXCEPT ![c].pc = "armed",
                                    ![c].id = <<FirstFree, table[FirstFree].generation>>]
       ELSE Goto(c, "rejected") /\ UNCHANGED table
    /\ OnlyJava /\ UNCHANGED <<future, armed, shutdown>>

ArmId(c) ==
    /\ proc[c].pc = "armed"
    /\ future' = [future EXCEPT ![proc[c].task].id = proc[c].id]
    /\ proc' = [proc EXCEPT ![c] = Idle]
    /\ OnlyJava /\ UNCHANGED <<table, armed, shutdown>>

ArmRejected(c) ==
    /\ proc[c].pc = "rejected"
    /\ armed' = armed \ {proc[c].task}
    /\ proc' = [proc EXCEPT ![c] = Idle]
    /\ OnlyJava /\ UNCHANGED <<table, future, shutdown>>

(* FutureTask.cancel, and the shutdown that cancels many. *)
Live(f) == future[f].state \notin {"none", "DONE", "CANCELLED"}

\* Mutant: a cancel gives the slot back and leaves the state to the run.
CancelFuture_SlotOnly(c, f) ==
    /\ Live(f)
    /\ proc' = [proc EXCEPT ![c].pc = "done", ![c].task = f, ![c].rest = @ \ {f}]
    /\ OnlyJava /\ UNCHANGED <<table, future, armed, shutdown>>

CancelFuture(c, f) ==
    /\ Live(f)
    /\ future' = [future EXCEPT ![f].state = "CANCELLED"]
    /\ proc' = [proc EXCEPT ![c].pc = "done", ![c].task = f, ![c].rest = @ \ {f}]
    /\ OnlyJava /\ UNCHANGED <<table, armed, shutdown>>

\* The app cancels a future that its schedule call has returned to it.
Cancel(c, f) ==
    /\ proc[c].pc = "idle" /\ future[f].id # NoId
    /\ CancelFuture(c, f)

Shutdown(c) ==
    /\ proc[c].pc = "idle" /\ ~shutdown
    /\ shutdown' = TRUE
    /\ \E periodicOnly \in BOOLEAN :
          proc' = [proc EXCEPT ![c].pc = "shut",
                    ![c].rest = {f \in armed : ~periodicOnly \/ future[f].kind # "OneShot"}]
    /\ OnlyJava /\ UNCHANGED <<table, future, armed>>

ShutdownNext(c) ==
    /\ proc[c].pc = "shut"
    /\ \/ \E f \in proc[c].rest : CancelFuture(c, f)
       \/ /\ \A f \in proc[c].rest : ~Live(f)
          /\ proc' = [proc EXCEPT ![c] = Idle]
          /\ OnlyJava /\ UNCHANGED <<table, future, armed, shutdown>>

\* Mutant: the id is read after it was cleared.
DoneTake_ClearedFirst(p) ==
    /\ proc[p].pc = "done"
    /\ LET f == proc[p].task IN
       /\ future' = [future EXCEPT ![f].id = NoId, ![f].missed = @ \/ future[f].id = NoId]
       /\ proc' = [proc EXCEPT ![p].pc = "taken", ![p].id = NoId]
    /\ OnlyJava /\ UNCHANGED <<table, armed, shutdown>>

(* ScheduledFutureTask.done, on whichever task ran or cancelled it. *)
DoneTake(p) ==
    /\ proc[p].pc = "done"
    /\ LET f == proc[p].task IN
       /\ future' = [future EXCEPT ![f].id = NoId, ![f].missed = @ \/ future[f].id = NoId]
       /\ proc' = [proc EXCEPT ![p].pc = "taken", ![p].id = future[f].id]
    /\ OnlyJava /\ UNCHANGED <<table, armed, shutdown>>

DoneFree(p) ==
    /\ proc[p].pc = "taken"
    /\ table' = cancel(proc[p].id) /\ future' = Aged(cancel(proc[p].id))
    /\ proc' = [proc EXCEPT ![p].pc = "freed", ![p].id = NoId]
    /\ OnlyJava /\ UNCHANGED <<armed, shutdown>>

finished(p) ==
    /\ proc[p].pc = "freed"
    /\ armed' = armed \ {proc[p].task}
    /\ proc' = [proc EXCEPT ![p].pc = IF p = UI THEN "turn"
                                      ELSE IF proc[p].rest # {} THEN "shut" ELSE "idle",
                            ![p].task = None]
    /\ OnlyJava /\ UNCHANGED <<table, future, shutdown>>

(* The UI task runs what it popped. *)
CallPlain ==
    /\ proc[UI].pc = "call"
    /\ proc' = [proc EXCEPT ![UI].pc = "turn", ![UI].task = None]
    /\ OnlyJava /\ UNCHANGED <<table, future, armed, shutdown>>

RunStart ==
    /\ proc[UI].pc = "run"
    /\ LET f == proc[UI].task IN
       IF future[f].state = "NEW"
       THEN /\ future' = [future EXCEPT ![f].state = "RUNNING"]
            /\ Goto(UI, "calling")
       ELSE /\ proc' = [proc EXCEPT ![UI].pc = "turn", ![UI].task = None]
            /\ UNCHANGED future
    /\ OnlyJava /\ UNCHANGED <<table, armed, shutdown>>

\* The callable returns or throws; a cancel during the call wins.
RunEnd ==
    /\ proc[UI].pc = "calling"
    /\ LET f == proc[UI].task IN
       \/ /\ future[f].state # "RUNNING"
          /\ proc' = [proc EXCEPT ![UI].pc = "turn", ![UI].task = None]
          /\ UNCHANGED future
       \/ /\ future[f].state = "RUNNING"     \* a one-shot is over, and so is what threw
          /\ future' = [future EXCEPT ![f].state = "DONE"]
          /\ Goto(UI, "done")
       \/ /\ future[f].state = "RUNNING" /\ future[f].kind # "OneShot"
          /\ future' = [future EXCEPT ![f].state = "NEW"]
          /\ IF future[f].kind = "FixedDelay" THEN Goto(UI, "report")
             ELSE proc' = [proc EXCEPT ![UI].pc = "turn", ![UI].task = None]
    /\ OnlyJava /\ UNCHANGED <<table, armed, shutdown>>

ReportRead ==
    /\ proc[UI].pc = "report"
    /\ LET f == proc[UI].task IN
       /\ proc' = [proc EXCEPT ![UI].pc = "complete", ![UI].id = future[f].id]
       /\ future' = [future EXCEPT ![f].missed = @ \/ future[f].id = NoId]
    /\ OnlyJava /\ UNCHANGED <<table, armed, shutdown>>

ReportCompleted ==
    /\ proc[UI].pc = "complete"
    /\ table' = completed(proc[UI].id)
    /\ proc' = [proc EXCEPT ![UI] = [Idle EXCEPT !.pc = "turn"]]
    /\ OnlyJava /\ UNCHANGED <<future, armed, shutdown>>

-----------------------------------------------------------------------------
(* The activity loop, the end of an app, and the start of the next. *)
NextTurn ==
    /\ proc[UI].pc = "turn"
    /\ IF interrupted THEN Goto(UI, "ended") /\ ticking' = FALSE
                      ELSE Goto(UI, "recv") /\ UNCHANGED ticking
    /\ UNCHANGED <<queue, shadow, overrun, tick_in_queue, hand, table, future, armed, shutdown,
                   interrupted>>

\* The interpreter of the UI task sees the stop: the call ends where it is.
Unwind ==
    /\ interrupted
    /\ proc[UI].pc \in {"call", "run", "calling", "report", "complete", "done", "taken", "freed"}
    /\ proc' = [proc EXCEPT ![UI] = [Idle EXCEPT !.pc = "turn"]]
    /\ OnlyJava /\ UNCHANGED <<table, future, armed, shutdown>>

\* Mutant: the drain of the queue leaves the root shadow.
NextApp_ShadowKept ==
    /\ proc[UI].pc = "ended"
    /\ tick_in_queue' = FALSE /\ queue' = <<>> /\ overrun' = FALSE
    /\ hand' = "none"
    /\ table' = [s \in Slots |-> [EMPTY EXCEPT !.generation = table[s].generation]]
    /\ future' = [f \in Futures |-> Unborn] /\ armed' = {} /\ shutdown' = FALSE
    /\ interrupted' = FALSE /\ ticking' = TRUE
    /\ proc' = [p \in Procs |-> [Idle EXCEPT !.pc = IF p = UI THEN "turn" ELSE "idle"]]
    /\ UNCHANGED shadow

\* The stop ends the other Java tasks wherever they are, and when the last is
\* gone the next app runs main_queue::init and scheduled::init: only the
\* generations are kept.
NextApp ==
    /\ proc[UI].pc = "ended"
    /\ tick_in_queue' = FALSE /\ queue' = <<>> /\ shadow' = <<>> /\ overrun' = FALSE
    /\ hand' = "none"
    /\ table' = [s \in Slots |-> [EMPTY EXCEPT !.generation = table[s].generation]]
    /\ future' = [f \in Futures |-> Unborn] /\ armed' = {} /\ shutdown' = FALSE
    /\ interrupted' = FALSE /\ ticking' = TRUE
    /\ proc' = [p \in Procs |-> [Idle EXCEPT !.pc = IF p = UI THEN "turn" ELSE "idle"]]

UIStep == \/ Receive \/ recv_blocking \/ fire_due \/ NextTurn \/ CallPlain
          \/ RunStart \/ RunEnd \/ ReportRead \/ ReportCompleted
          \/ DoneTake(UI) \/ DoneFree(UI) \/ finished(UI)

\* A call a caller has begun goes on.
CallerStep(c) == \/ \E delay \in 0..MaxDelay : ArmSlot(c, delay)
                 \/ ArmId(c) \/ ArmRejected(c) \/ ShutdownNext(c)
                 \/ DoneTake(c) \/ DoneFree(c) \/ finished(c)

CallerCall(c) ==
    /\ proc[UI].pc # "ended"
    /\ \/ \E r \in Plain : enqueue_runnable(c, r)
       \/ \E f \in Futures : \E k \in KindsOf[f] : Arm(c, f, k)
       \/ \E f \in Futures : Cancel(c, f)
       \/ Shutdown(c)

Next == \/ enqueue_tick \/ Stop \/ Elapse \/ UIStep \/ Unwind \/ NextApp
        \/ \E c \in Callers : CallerCall(c) \/ CallerStep(c)

Spec == Init /\ [][Next]_vars

\* The UI task is scheduled whenever it can run, and Java calls return.
FairSpec == Spec /\ WF_vars(UIStep)

-----------------------------------------------------------------------------
(* Properties. *)
Queued == Range(queue) \cup {hand}
Times(q, w) == Cardinality({i \in DOMAIN q : q[i] = w})
Copies(w) == Times(queue, w) + (IF hand = w THEN 1 ELSE 0)
UIRuns(f) == proc[UI].task = f /\ proc[UI].pc \in {"run", "calling", "report", "complete"}
EntriesOf(f) == {s \in Slots : table[s].live /\ table[s].runnable = f}

\* Every variable keeps the shape its source type has.
TypeOK ==
    /\ queue \in BoundedSeq({"tick", "wake"} \cup Runnables, QUEUE_CAPACITY)
    /\ shadow \in BoundedSeq(Runnables, QUEUE_CAPACITY)
    /\ hand \in {"none", "tick", "wake"} \cup Runnables
    /\ {overrun, tick_in_queue, ticking, shutdown, interrupted} \subseteq BOOLEAN
    /\ table \in [Slots -> [runnable : Futures \cup {None}, left : (-Period)..(Period + MaxDelay),
                            kind : Kinds, in_flight : BOOLEAN, live : BOOLEAN,
                            generation : 0..Generations-1]]
    /\ future \in [Futures -> [state : {"none", "NEW", "RUNNING", "DONE", "CANCELLED"},
                               kind : Kinds, id : Ids \cup {NoId}, missed : BOOLEAN,
                               age : 0..Generations]]
    /\ armed \subseteq Futures
    /\ proc \in [Procs -> [pc : PC, task : Runnables \cup {None}, id : Ids \cup {NoId},
                           rest : SUBSET Futures]]

\* The tick flag converges (TICK_IN_QUEUE): it is set exactly while one tick
\* is queued or popped and not yet noticed, whatever preempts what, so ticks
\* neither pile up behind a slow turn nor stop for good.
TickFlagExact == Copies("tick") = IF tick_in_queue THEN 1 ELSE 0

\* A collection at any moment finds every Runnable that is queued, or popped
\* and not yet on a Java frame, among the roots (gc_roots.rs: "each must be
\* reported to the collector or it is swept while still reachable").
HeldRooted == Queued \cap Runnables \subseteq Range(shadow)

\* `sh` is what is left of `words` without those that are no Runnables.
RunnablesOf(sh, words) ==
    \E at \in [DOMAIN sh -> DOMAIN words] :
        /\ \A i, j \in DOMAIN sh : i < j => at[i] < at[j]
        /\ \A i \in DOMAIN sh : sh[i] = words[at[i]]
        /\ {at[i] : i \in DOMAIN sh} = {j \in DOMAIN words : words[j] \in Runnables}

\* The root shadow is the queue's Runnables in order, the popped one first, so
\* that (until a push has found it full) a collection at any moment finds each
\* Runnable that is queued or popped, and keeps nothing alive beyond them.
ShadowExact ==
    overrun \/ RunnablesOf(shadow, (IF hand = "none" THEN <<>> ELSE <<hand>>) \o queue)

\* The statics beside the queue, TICK_IN_QUEUE and PENDING_RUNNABLES, mirror it.
QueueMirrored == TypeOK /\ TickFlagExact /\ ShadowExact

\* A late schedule makes no burst: however long the turns are, at most two
\* runs of a fixed-rate task are outstanding (a tick may be queued before the
\* first is posted, and ticks share the queue), and one of any other task.
NoBurst ==
    \A f \in Futures : Copies(f) + (IF UIRuns(f) THEN 1 ELSE 0)
                            =< IF future[f].kind = "FixedRate" THEN 2 ELSE 1

\* A fixed-delay entry that waits for its run is waiting for something: the
\* run is queued, popped or under way.  (Not if run read the id too early.)
InFlightAccounted ==
    \A f \in Futures : \A s \in EntriesOf(f) :
        (table[s].in_flight /\ ~interrupted) =>
            Copies(f) = 1 \/ UIRuns(f) \/ future[f].missed \/ ~Live(f)

\* The same without the exception: a fixed-delay task keeps being due.
FixedDelayContinues ==
    \A f \in Futures : \A s \in EntriesOf(f) :
        (table[s].in_flight /\ ~interrupted) => Copies(f) = 1 \/ UIRuns(f) \/ ~Live(f)

\* An id, held by a task or in a local of done or run, names its own entry
\* or nothing.  (Until the generations come round: see CameRound.)
IdsNameOwnEntry ==
    /\ \A f \in Futures : \A s \in resolve(future[f].id) : table[s].runnable = f
    /\ \A p \in Procs : \A s \in resolve(proc[p].id) : table[s].runnable = proc[p].task

\* The slot of an id that is held was freed as often as a generation has values
\* (e.generation.wrapping_add(1)): the id may name an entry again, another's.
CameRound == \E f \in Futures : future[f].age = Generations

\* The deadline table and the tasks agree: ids, slots, and the number of runs on
\* their way, never more than the kind of the task allows.  (Until the
\* generations come round on an id that is held.)
EntriesTrue == CameRound \/ (NoBurst /\ InFlightAccounted /\ IdsNameOwnEntry)

\* A task that is over gives its slot back: nothing posts it again.  (Not if
\* it was over before arm had stored the id.)
InDone(f) == \E p \in Procs : proc[p].task = f /\ proc[p].pc \in {"done", "taken"}
OverLeavesTable ==
    \A f \in Futures :
        (future[f].state \in {"DONE", "CANCELLED"} /\ ~InDone(f) /\ ~interrupted
            /\ ~future[f].missed) => EntriesOf(f) = {}

\* The same without the exception (ScheduledFutureTask.arm: "no cancel can
\* race the arm").
NoCancelRacesArm ==
    \A f \in Futures :
        (future[f].state = "CANCELLED" /\ ~InDone(f) /\ ~interrupted
            /\ \A c \in Callers : proc[c].task # f) => EntriesOf(f) = {}

\* Once isTerminated would be true nothing of the executor starts any more:
\* no task that can still start is armed, queued or popped.
TerminatedIsQuiet ==
    (shutdown /\ armed = {} /\ ~interrupted) =>
        \A f \in Futures : future[f].state \in {"NEW", "RUNNING"} =>
            EntriesOf(f) = {} /\ Copies(f) = 0 /\ ~UIRuns(f)

\* What is over is gone: a cancelled or finished task from the table, and every
\* task from a terminated executor.
OverIsQuiet == OverLeavesTable /\ TerminatedIsQuiet

\* Words leave the queue in the order they came, or all at once with their app.
InOrder == [][ \/ IsPrefix(queue, queue')
               \/ queue # <<>> /\ queue' = Tail(queue)
               \/ proc[UI].pc = "ended" /\ queue' = <<>> ]_queue

\* A Runnable the queue took is run, after what was posted before it, unless
\* the app is stopped: nothing overtakes it, and the loop comes back for more.
PostedRuns == InOrder /\ ((queue # <<>>) ~> (hand # "none" \/ proc[UI].pc = "ended"))

\* A stop ends the loop even if the wake found the queue full.
StopEndsLoop == interrupted ~> proc[UI].pc = "ended"
=============================================================================
