--------------------------- MODULE ThreadRegistry ---------------------------
(***************************************************************************)
(* The registry of Java threads (crates/picodroid-core/src/threads.rs) and *)
(* its callers: Thread.start and the end of a thread                       *)
(* (native_handler/threads.rs), parking in sleep, join and wait, interrupt,*)
(* notify, and the stop of an app.                                         *)
(*                                                                         *)
(* A step is one AtomicSection with the code that cannot be interleaved    *)
(* with it, one kernel call, or one change of the interpreting task        *)
(* (`java`, see JavaExclusion).  Kernel task handles are reused by the     *)
(* next task and the ids of unreachable Thread objects by the next Thread. *)
(***************************************************************************)
EXTENDS Naturals, FiniteSets, FiniteSetsExt

CONSTANTS Main, Children, NoTask,
          Objs, NoObj,   \* ids of Thread objects
          Keys, NoKey,   \* monitors that are waited on
          Slots,         \* 0 .. MAX_JAVA_THREADS - 1
          MaxSeq         \* bound on the waits of one app run

Tasks == {Main} \cup Children

ASSUME TasksAssumption == Main \notin Children /\ NoTask \notin Tasks
ASSUME NamesAssumption == NoObj \notin Objs /\ NoKey \notin Keys
ASSUME SlotsAssumption == Slots \subseteq Nat /\ IsFiniteSet(Slots) /\ Slots # {}
ASSUME BoundAssumption == MaxSeq \in Nat

VARIABLES entries,   \* the table: NoEntry or an entry for each slot
          wait_seq,
          java,      \* the task that holds the run lock
          pc,        \* where each task is
          obj, slot, \* what the closure of a started task captured
          arg,       \* the Thread object a task starts or joins
          timed,     \* whether the current park has a deadline
          notif,     \* a task notification is latched
          to_wake,   \* tasks a section has picked and not yet notified
          STOP_JVM

vars == <<entries, wait_seq, java, pc, obj, slot, arg, timed, notif, to_wake, STOP_JVM>>

NoPark == [kind |-> "None", key |-> NoKey, seq |-> 0]
Park(kind) == [kind |-> kind, key |-> NoKey, seq |-> 0]
ParkWait(k, n) == [kind |-> "Wait", key |-> k, seq |-> n]

blank(t, o) == [used |-> TRUE, task |-> t, obj |-> o, interrupted |-> FALSE,
                notified |-> FALSE, stopping |-> FALSE, park |-> NoPark]
NoEntry == [blank(NoTask, NoObj) EXCEPT !.used = FALSE]

PC == {"off", "bind", "ready", "run", "spawn", "retry", "loop", "wait", "woken",
       "exited", "ended", "stop", "wake", "drain"}

SlotsOfTask(t) == {s \in Slots : entries[s].used /\ entries[s].task = t}
SlotsOfObj(o) == {s \in Slots : entries[s].used /\ entries[s].obj = o}
FreeSlots == {s \in Slots : ~entries[s].used}

Interprets(t) == java = t /\ pc[t] = "run" /\ to_wake[t] = {}
Goto(t, label) == pc' = [pc EXCEPT ![t] = label]

\* Thread objects a collection finds reachable: the roots of the registry,
\* and `this` of whoever starts, joins or runs the thread.
Reachable(o) ==
    \/ SlotsOfObj(o) # {}
    \/ \E t \in Tasks : arg[t] = o /\ pc[t] \in {"spawn", "retry", "loop", "wait", "woken"}
    \/ \E c \in Children : obj[c] = o /\ pc[c] # "bind"
Fresh == {o \in Objs : ~Reachable(o)}

-----------------------------------------------------------------------------
(* Thread.start0 *)

reserve(o) ==       \* the first free slot
    entries' = [entries EXCEPT ![Min(FreeSlots)] = blank(NoTask, o)]

Start(t) ==         \* a full table refuses the thread
    /\ Interprets(t) /\ FreeSlots # {}
    /\ \E o \in Fresh : reserve(o) /\ arg' = [arg EXCEPT ![t] = o]
    /\ Goto(t, "spawn")
    /\ UNCHANGED <<wait_seq, java, obj, slot, timed, notif, to_wake, STOP_JVM>>

\* Children counted as running (ACTIVE_JVM_THREADS).
Started == {c \in Children : pc[c] # "off" \/ to_wake[c] # {}}

Spawn(t, c) ==
    /\ pc[t] = "spawn" /\ c \notin Started
    /\ pc' = [pc EXCEPT ![t] = "run", ![c] = "bind"]
    /\ obj' = [obj EXCEPT ![c] = arg[t]]
    /\ \E s \in SlotsOfObj(arg[t]) : slot' = [slot EXCEPT ![c] = s]
    /\ arg' = [arg EXCEPT ![t] = NoObj]
    /\ UNCHANGED <<entries, wait_seq, java, timed, notif, to_wake, STOP_JVM>>

SpawnRetry(t) ==    \* no memory: sleep a tick and try again
    /\ pc[t] = "spawn"
    /\ Goto(t, "retry")
    /\ java' = NoTask
    /\ UNCHANGED <<entries, wait_seq, obj, slot, arg, timed, notif, to_wake, STOP_JVM>>

Retry(t) ==
    /\ pc[t] = "retry" /\ java = NoTask
    /\ Goto(t, "spawn")
    /\ java' = t
    /\ UNCHANGED <<entries, wait_seq, obj, slot, arg, timed, notif, to_wake, STOP_JVM>>

\* terminate_where: the entries in gone are dropped and every parked joiner
\* is picked to be notified.
Terminate(t, gone) ==
    /\ entries' = [s \in Slots |-> IF s \in gone THEN NoEntry ELSE entries[s]]
    /\ to_wake' = [to_wake EXCEPT ![t] = IF gone = {} THEN {}
          ELSE {entries[s].task : s \in {r \in Slots \ gone : entries[r].park.kind = "Join"}}]

SpawnFails(t) ==    \* the last attempt failed: terminate_by_obj(this)
    /\ pc[t] = "spawn"
    /\ Terminate(t, SlotsOfObj(arg[t]))
    /\ Goto(t, "run")
    /\ arg' = [arg EXCEPT ![t] = NoObj]
    /\ UNCHANGED <<wait_seq, java, obj, slot, timed, notif, STOP_JVM>>

Bind(c) ==          \* bind_current, before the child takes the run lock
    /\ pc[c] = "bind"
    /\ entries' = [entries EXCEPT ![slot[c]] = IF @.used THEN [@ EXCEPT !.task = c] ELSE @]
    /\ Goto(c, "ready")
    /\ UNCHANGED <<wait_seq, java, obj, slot, arg, timed, notif, to_wake, STOP_JVM>>

Begin(t) ==
    /\ pc[t] = "ready" /\ java = NoTask
    /\ java' = t
    /\ Goto(t, "run")
    /\ UNCHANGED <<entries, wait_seq, obj, slot, arg, timed, notif, to_wake, STOP_JVM>>

-----------------------------------------------------------------------------
(* The end of a thread: exit0, out of the interpreter, terminate_current. *)

Exit0(c) ==
    /\ c \in Children /\ Interprets(c)
    /\ Terminate(c, SlotsOfObj(obj[c]))
    /\ Goto(c, "exited")
    /\ UNCHANGED <<wait_seq, java, obj, slot, arg, timed, notif, STOP_JVM>>

\* runWrapper returned, or an error ended it before exit0; nothing roots or
\* uses `this` from here on.
Return(c) ==
    /\ c \in Children /\ java = c /\ pc[c] \in {"exited", "run"} /\ to_wake[c] = {}
    /\ java' = NoTask
    /\ Goto(c, "ended")
    /\ obj' = [obj EXCEPT ![c] = NoObj]
    /\ UNCHANGED <<entries, wait_seq, slot, arg, timed, notif, to_wake, STOP_JVM>>

Forget(c) ==        \* the task is deleted with its closure
    /\ slot' = [slot EXCEPT ![c] = Min(Slots)]
    /\ notif' = [notif EXCEPT ![c] = FALSE]
    /\ UNCHANGED <<wait_seq, java, obj, arg, timed, STOP_JVM>>

TerminateCurrent_BySlot(c) ==
    /\ pc[c] = "ended"
    /\ Terminate(c, {slot[c]})
    /\ Goto(c, "off")
    /\ Forget(c)

TerminateCurrent(c) ==
    /\ pc[c] = "ended"
    /\ Terminate(c, SlotsOfTask(c))
    /\ Goto(c, "off")
    /\ Forget(c)

\* The task_notify calls after a section.
Notifies(t) ==
    /\ to_wake[t] # {}
    /\ notif' = [u \in Tasks |-> notif[u] \/ u \in to_wake[t]]
    /\ to_wake' = [to_wake EXCEPT ![t] = {}]
    /\ UNCHANGED <<entries, wait_seq, java, pc, obj, slot, arg, timed, STOP_JVM>>

-----------------------------------------------------------------------------
(* Parking: sleep_current, join and wait_current over park_loop. *)

OwnSlots_AlwaysNew(t) == IF FreeSlots # {} THEN {Min(FreeSlots)} ELSE {}
\* The slot of the calling task, adopting it when it has none.
OwnSlots(t) == IF SlotsOfTask(t) # {} THEN SlotsOfTask(t)
               ELSE IF FreeSlots # {} THEN {Min(FreeSlots)} ELSE {}
Adopted(t, s) == IF entries[s].used THEN entries[s] ELSE blank(t, NoObj)

Yield(t) ==         \* a blocking call of a task that the full table cannot park
    /\ Interprets(t) /\ OwnSlots(t) = {}
    /\ java' = NoTask
    /\ Goto(t, "ready")
    /\ UNCHANGED <<entries, wait_seq, obj, slot, arg, timed, notif, to_wake, STOP_JVM>>

AdoptCurrent(t) ==  \* Thread.currentThread on a task without a Thread
    /\ Interprets(t) /\ OwnSlots(t) # {}
    /\ LET s == Min(OwnSlots(t)) IN
       /\ Adopted(t, s).obj = NoObj
       /\ \E o \in Fresh : entries' = [entries EXCEPT ![s] = [Adopted(t, s) EXCEPT !.obj = o]]
    /\ UNCHANGED <<wait_seq, java, pc, obj, slot, arg, timed, notif, to_wake, STOP_JVM>>

\* begin_park; with the table full park_loop returns at once.
BeginPark(t, park, d) ==
    /\ OwnSlots(t) # {}
    /\ LET s == Min(OwnSlots(t)) IN
       entries' = [entries EXCEPT ![s] =
                      [Adopted(t, s) EXCEPT !.park = park, !.notified = FALSE]]
    /\ timed' = [timed EXCEPT ![t] = d]
    /\ Goto(t, "loop")
    /\ UNCHANGED <<java, obj, slot, notif, to_wake, STOP_JVM>>

Sleep(t) ==
    /\ Interprets(t)
    /\ BeginPark(t, Park("Sleep"), TRUE)
    /\ UNCHANGED <<wait_seq, arg>>

Join(t, o, d) ==    \* a thread that is not alive is not waited for
    /\ Interprets(t) /\ SlotsOfObj(o) # {}
    /\ arg' = [arg EXCEPT ![t] = o]
    /\ BeginPark(t, Park("Join"), d)
    /\ UNCHANGED wait_seq

Wait(t, k, d) ==
    /\ Interprets(t) /\ wait_seq < MaxSeq
    /\ wait_seq' = wait_seq + 1
    /\ BeginPark(t, ParkWait(k, wait_seq'), d)
    /\ UNCHANGED arg

Satisfied(t, s) ==
    CASE entries[s].park.kind = "Join" -> SlotsOfObj(arg[t]) = {}
      [] entries[s].park.kind = "Wait" -> entries[s].notified
      [] OTHER -> FALSE

\* poll_park finds a reason to end the park, in the order it looks for one.
Ends(t, s) == entries[s].stopping \/ entries[s].interrupted \/ Satisfied(t, s)

EndPark_StaysParked(t) ==
    /\ pc[t] = "loop"
    /\ \E s \in SlotsOfTask(t) :
          /\ Ends(t, s) \/ STOP_JVM \/ timed[t]
          /\ entries' = [entries EXCEPT ![s].interrupted = @ /\ entries[s].stopping]
    /\ Goto(t, "run")
    /\ arg' = [arg EXCEPT ![t] = NoObj]
    /\ timed' = [timed EXCEPT ![t] = FALSE]
    /\ UNCHANGED <<wait_seq, java, obj, slot, notif, to_wake, STOP_JVM>>

EndPark(t) ==       \* an interrupt is consumed when nothing outranks it
    /\ pc[t] = "loop"
    /\ \E s \in SlotsOfTask(t) :
          /\ Ends(t, s) \/ STOP_JVM \/ timed[t]
          /\ entries' = [entries EXCEPT ![s].park = NoPark, ![s].notified = FALSE,
                                        ![s].interrupted = @ /\ entries[s].stopping]
    /\ Goto(t, "run")
    /\ arg' = [arg EXCEPT ![t] = NoObj]
    /\ timed' = [timed EXCEPT ![t] = FALSE]
    /\ UNCHANGED <<wait_seq, java, obj, slot, notif, to_wake, STOP_JVM>>

Block(t) ==         \* nothing yet: task_wait_notification
    /\ pc[t] = "loop" /\ ~STOP_JVM
    /\ \E s \in SlotsOfTask(t) : ~Ends(t, s)
    /\ java' = NoTask
    /\ Goto(t, "wait")
    /\ UNCHANGED <<entries, wait_seq, obj, slot, arg, timed, notif, to_wake, STOP_JVM>>

WaitReturns(t) ==   \* notified, or out of time; the notification is consumed
    /\ pc[t] = "wait" /\ (notif[t] \/ timed[t])
    /\ notif' = [notif EXCEPT ![t] = FALSE]
    /\ Goto(t, "woken")
    /\ UNCHANGED <<entries, wait_seq, java, obj, slot, arg, timed, to_wake, STOP_JVM>>

Woken(t) ==
    /\ pc[t] = "woken" /\ java = NoTask
    /\ java' = t
    /\ Goto(t, "loop")
    /\ UNCHANGED <<entries, wait_seq, obj, slot, arg, timed, notif, to_wake, STOP_JVM>>

StrayNotification(t) ==  \* another subsystem notifies the task
    /\ pc[t] = "wait" /\ ~notif[t]
    /\ notif' = [notif EXCEPT ![t] = TRUE]
    /\ UNCHANGED <<entries, wait_seq, java, pc, obj, slot, arg, timed, to_wake, STOP_JVM>>

-----------------------------------------------------------------------------
(* interrupt, interrupted, notify, notifyAll *)

Interrupt_SparesWaiters(t, o) ==
    /\ Interprets(t)
    /\ \E s \in SlotsOfObj(o) :
          /\ entries' = [entries EXCEPT ![s].interrupted = TRUE]
          /\ to_wake' = [to_wake EXCEPT ![t] =
                IF entries[s].park.kind \in {"Sleep", "Join"} THEN {entries[s].task} ELSE {}]
    /\ UNCHANGED <<wait_seq, java, pc, obj, slot, arg, timed, notif, STOP_JVM>>

Interrupt_AnyEntry(t, o) ==
    /\ Interprets(t)
    /\ \E s \in SlotsOfObj(o) :
          /\ entries' = [entries EXCEPT ![s].interrupted = TRUE]
          /\ to_wake' = [to_wake EXCEPT ![t] = {entries[s].task}]
    /\ UNCHANGED <<wait_seq, java, pc, obj, slot, arg, timed, notif, STOP_JVM>>

Interrupt(t, o) ==
    /\ Interprets(t)
    /\ \E s \in SlotsOfObj(o) :
          /\ entries' = [entries EXCEPT ![s].interrupted = TRUE]
          /\ to_wake' = [to_wake EXCEPT ![t] =
                IF entries[s].park.kind = "None" THEN {} ELSE {entries[s].task}]
    /\ UNCHANGED <<wait_seq, java, pc, obj, slot, arg, timed, notif, STOP_JVM>>

TakeInterrupted(t) ==
    /\ Interprets(t)
    /\ \E s \in SlotsOfTask(t) :
          /\ entries[s].interrupted
          /\ entries' = [entries EXCEPT ![s].interrupted = FALSE]
    /\ UNCHANGED <<wait_seq, java, pc, obj, slot, arg, timed, notif, to_wake, STOP_JVM>>

WaitersOn(k) == {s \in Slots : /\ entries[s].park.kind = "Wait" /\ entries[s].park.key = k
                               /\ ~entries[s].notified}

NotifySlots(t, chosen) ==
    /\ entries' = [s \in Slots |-> IF s \in chosen THEN [entries[s] EXCEPT !.notified = TRUE]
                                                   ELSE entries[s]]
    /\ to_wake' = [to_wake EXCEPT ![t] = {entries[s].task : s \in chosen}]
    /\ UNCHANGED <<wait_seq, java, pc, obj, slot, arg, timed, notif, STOP_JVM>>

Notify(t, k) ==     \* the longest waiting
    /\ Interprets(t) /\ WaitersOn(k) # {}
    /\ NotifySlots(t, {CHOOSE s \in WaitersOn(k) :
                          \A r \in WaitersOn(k) : entries[s].park.seq <= entries[r].park.seq})

NotifyAll(t, k) ==
    /\ Interprets(t) /\ WaitersOn(k) # {}
    /\ NotifySlots(t, WaitersOn(k))

-----------------------------------------------------------------------------
(* App stop and the reset between apps. *)

RequestStop ==      \* pdb: set STOP_JVM, notify the UI task
    /\ ~STOP_JVM /\ pc[Main] \notin {"stop", "wake", "drain"}
    /\ STOP_JVM' = TRUE
    /\ notif' = [notif EXCEPT ![Main] = TRUE]
    /\ UNCHANGED <<entries, wait_seq, java, pc, obj, slot, arg, timed, to_wake>>

AppReturns ==       \* run_app is over; a natural exit stops its threads too
    /\ Interprets(Main)
    /\ java' = NoTask
    /\ STOP_JVM' = (STOP_JVM \/ Started # {})
    /\ Goto(Main, "stop")
    /\ UNCHANGED <<entries, wait_seq, obj, slot, arg, timed, notif, to_wake>>

Parked == {s \in Slots : entries[s].park.kind # "None"}

AbortDelays ==      \* abort_all_child_delays
    /\ pc[Main] = "stop"
    /\ pc' = [t \in Tasks |-> IF t = Main THEN "wake"
                              ELSE IF pc[t] = "wait" THEN "woken" ELSE pc[t]]
    /\ UNCHANGED <<entries, wait_seq, java, obj, slot, arg, timed, notif, to_wake, STOP_JVM>>

WakeAllParked ==
    /\ pc[Main] = "wake"
    /\ entries' = [s \in Slots |-> IF s \in Parked THEN [entries[s] EXCEPT !.stopping = TRUE]
                                                   ELSE entries[s]]
    /\ to_wake' = [to_wake EXCEPT ![Main] = {entries[s].task : s \in Parked}]
    /\ Goto(Main, "drain")
    /\ UNCHANGED <<wait_seq, java, obj, slot, arg, timed, notif, STOP_JVM>>

Clear ==            \* every child drained: the next app starts afresh
    /\ pc[Main] = "drain" /\ to_wake[Main] = {} /\ Started = {} /\ java = NoTask
    /\ entries' = [s \in Slots |-> NoEntry]
    /\ wait_seq' = 0
    /\ STOP_JVM' = FALSE
    /\ java' = Main
    /\ Goto(Main, "run")
    /\ UNCHANGED <<obj, slot, arg, timed, notif, to_wake>>

-----------------------------------------------------------------------------
Init ==
    /\ entries = [s \in Slots |-> NoEntry]
    /\ wait_seq = 0
    /\ java = Main
    /\ pc = [t \in Tasks |-> IF t = Main THEN "run" ELSE "off"]
    /\ obj = [c \in Children |-> NoObj]
    /\ slot = [c \in Children |-> Min(Slots)]
    /\ arg = [t \in Tasks |-> NoObj]
    /\ timed = [t \in Tasks |-> FALSE]
    /\ notif = [t \in Tasks |-> FALSE]
    /\ to_wake = [t \in Tasks |-> {}]
    /\ STOP_JVM = FALSE

Threads(t) == \/ Start(t) \/ SpawnRetry(t) \/ Retry(t) \/ SpawnFails(t) \/ Begin(t)
              \/ \E c \in Children : Spawn(t, c)
Parks(t) == \/ AdoptCurrent(t) \/ Sleep(t) \/ Yield(t)
            \/ \E o \in Objs, d \in BOOLEAN : Join(t, o, d)
            \/ \E k \in Keys, d \in BOOLEAN : Wait(t, k, d)
ParkLoop(t) == EndPark(t) \/ Block(t) \/ WaitReturns(t) \/ Woken(t)
Wakes(t) == \/ TakeInterrupted(t)
            \/ \E o \in Objs : Interrupt(t, o)
            \/ \E k \in Keys : Notify(t, k) \/ NotifyAll(t, k)

Next == \/ \E t \in Tasks : \/ Threads(t) \/ Parks(t) \/ ParkLoop(t) \/ Wakes(t)
                            \/ Notifies(t) \/ StrayNotification(t)
        \/ \E c \in Children : Bind(c) \/ Exit0(c) \/ Return(c) \/ TerminateCurrent(c)
        \/ RequestStop \/ AppReturns \/ AbortDelays \/ WakeAllParked \/ Clear

Spec == Init /\ [][Next]_vars

-----------------------------------------------------------------------------
ParkType == [kind : {"None", "Sleep", "Join", "Wait"}, key : Keys \cup {NoKey}, seq : 0..MaxSeq]
EntryType == [used : BOOLEAN, task : Tasks \cup {NoTask}, obj : Objs \cup {NoObj},
              interrupted : BOOLEAN, notified : BOOLEAN, stopping : BOOLEAN, park : ParkType]

\* The shape of the state: a section only ever picks kernel tasks to notify,
\* never the 0 handle of a thread that has not bound itself yet.
TypeOK ==
    /\ entries \in [Slots -> EntryType]
    /\ wait_seq \in 0..MaxSeq
    /\ java \in Tasks \cup {NoTask}
    /\ pc \in [Tasks -> PC]
    /\ obj \in [Children -> Objs \cup {NoObj}]
    /\ slot \in [Children -> Slots]
    /\ arg \in [Tasks -> Objs \cup {NoObj}]
    /\ timed \in [Tasks -> BOOLEAN]
    /\ notif \in [Tasks -> BOOLEAN]
    /\ to_wake \in [Tasks -> SUBSET Tasks]
    /\ STOP_JVM \in BOOLEAN

Live(c) == pc[c] \notin {"off", "exited", "ended"}

\* The registry knows every started thread until it has finished, under its
\* own Thread and its own task: no other thread's end, no reuse of a slot, a
\* task handle or an object id takes its entry away, which is what roots the
\* Thread and what interrupt, join and isAlive find it by.
ThreadRegistered ==
    \A c \in Children : Live(c) =>
        \E s \in Slots : /\ entries[s].used /\ entries[s].obj = obj[c]
                         /\ entries[s].task = IF pc[c] = "bind" THEN NoTask ELSE c

\* Lookups by task and by object are unambiguous, and a finished task leaves
\* no entry behind for the next task with its handle to inherit.
LookupsUnique ==
    /\ \A o \in Objs : Cardinality(SlotsOfObj(o)) <= 1
    /\ \A t \in Tasks : Cardinality(SlotsOfTask(t)) <= 1
    /\ \A c \in Children : pc[c] = "off" => SlotsOfTask(c) = {}

\* Every thread is found under its own Thread and its own task, and nothing
\* else is.
RegistryTrue == TypeOK /\ ThreadRegistered /\ LookupsUnique

\* No park sleeps through its reason to end: when a task waits for a
\* notification although its join target is gone, it was notified or
\* interrupted, or its app is stopping, the notification is latched or about
\* to be sent.
Owed(t) == \/ \E s \in SlotsOfTask(t) : Ends(t, s)
           \/ t \in Children /\ pc[Main] \in {"wake", "drain"}
NoLostWakeup ==
    \A t \in Tasks : pc[t] = "wait" /\ Owed(t) =>
        notif[t] \/ \E u \in Tasks : t \in to_wake[u]

\* A park ends with its call: no entry stays parked, or notified, once its
\* task is back in Java, where a notify would be spent on it.
ParkFlagsFresh ==
    \A s \in Slots : entries[s].used =>
        /\ entries[s].notified => entries[s].park.kind = "Wait"
        /\ entries[s].park.kind # "None" =>
              entries[s].task \in Tasks /\ pc[entries[s].task] \in {"loop", "wait", "woken"}

\* A park ends when it has a reason to, and leaves nothing behind.
ParksTrue == NoLostWakeup /\ ParkFlagsFresh
=============================================================================
