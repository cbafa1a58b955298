----------------------------- MODULE AppSwitch -----------------------------
(***************************************************************************)
(* Which app runs, and why the next one does: the supervisor loop of the   *)
(* JVM task (boot_tasks.rs), the launches of packages.rs, the alarms that  *)
(* start their owner (alarms.rs, alarm_events.rs) and the headless runs of *)
(* manifest receivers (broadcasts.rs, broadcast_events.rs).  One app runs  *)
(* at a time; what it leaves behind is in the statics modelled here.       *)
(*                                                                         *)
(* A step is the code between two calls into Java.  Generations are only   *)
(* ever compared with the value they had, and are booleans: `seen` is      *)
(* "directory_seen = directory_generation()", `moved` is "TIME_SETS is not *)
(* time_set_seen", and a row's `asked` is "wake_gen = run_generation()".   *)
(***************************************************************************)
EXTENDS AlarmTable

CONSTANTS Apps, Launcher,      \* packages; the system app is linked in or not
          Receivers,           \* the packages with a manifest receiver
          None,
          MANIFEST_PENDING,
          Directories,         \* bound: what the flash may hold at a boot
          Triggers, Offsets,   \* trigger times; wall clock less time since boot
          MaxTime,             \* bound on the time since boot
          MaxCalls             \* bound on what apps, keys and the host do

ASSUME SwitchAssumption ==
    /\ Launcher \notin Apps /\ None \notin Apps \cup {Launcher} /\ IsFiniteSet(Apps)
    /\ Receivers \subseteq Apps \cup {Launcher}
    /\ Directories \subseteq SUBSET (Apps \cup {Launcher})
    /\ MANIFEST_PENDING \in Nat \ {0}
    /\ Triggers \cup Offsets \subseteq Nat /\ {MaxTime, MaxCalls} \subseteq Nat

VARIABLES pc,               \* where the JVM task is
          installed,        \* the packages of the directory
          image,            \* the supervisor's next app
          running, pending, launcher_exits,
          launching,        \* a Launch is among the pending operations
          table, horizon, seen,
          elapsed, offset,  \* ms since boot; the wall clock's anchor
          marked, current,  \* manifest deliveries waiting, and being made
          moved,            \* a clock was set that the marks do not show yet
          rounds,           \* alarms the run that leaves may still be given
          park,             \* FLASH_PARK_REQUESTED
          calls             \* what is left of MaxCalls

vars == <<pc, installed, image, running, pending, launcher_exits, launching, table, horizon, seen,
          elapsed, offset, marked, current, moved, rounds, park, calls>>

packageVars == <<installed, image, running, pending, launcher_exits>>
alarmVars == <<table, horizon, seen>>
manifestVars == <<marked, current, moved>>
clockVars == <<elapsed, offset>>

Packages == Apps \cup {Launcher}
now == [Elapsed |-> elapsed, Rtc |-> elapsed + offset]

\* A row of the alarm table.
Alarm == [owner : Packages, key : Keys, clock : Clocks, at : Triggers,
          state : [asked : BOOLEAN, attempts : 0..MAX_WAKE_ATTEMPTS]]

InLoop == pc \in {"turn", "alarms", "drain"}
JavaRuns == InLoop \/ pc \in {"create", "headless", "teardown"}

\* Every writer of the table recomputes the horizon as its last act.
Write(t) == table' = t /\ horizon' = HorizonOf(t)

-----------------------------------------------------------------------------
\* mark_all and manifest_refresh: the marks may become any of these.  With the
\* table full a mark is dropped; which one depends on the directory's order.
mark_all(m, listed) ==
    LET new == (listed \cap Receivers) \ m
        room == Min({Cardinality(new), MANIFEST_PENDING - Cardinality(m)})
    IN  {m \cup s : s \in kSubset(room, new)}

refreshed == IF moved THEN mark_all(marked, installed \ {running}) ELSE {marked}

\* manifest_take_next: the marks of packages that are gone are dropped on the way.
TakeNext(m) ==
    \E p \in m \cap installed : \E gone \in SUBSET (m \ installed) :
        /\ marked' = m \ (gone \cup {p})
        /\ current' = p
        /\ image' = p

-----------------------------------------------------------------------------
\* boot_image: which package the boot rules name is up to the build, the board
\* and the flags in flash.  The receivers of BOOT_COMPLETED run before it.
boot_image(listed) ==
    LET boots == IF listed = {} THEN {None} ELSE listed
        marks == mark_all({}, listed)
    IN  IF marks = {{}}
        THEN {[image |-> b, pending |-> None, current |-> None, marked |-> {}] : b \in boots}
        ELSE {[image |-> x[2], pending |-> b, current |-> x[2], marked |-> x[1] \ {x[2]}] :
                b \in boots, x \in {y \in marks \X listed : y[2] \in y[1]}}

AtSupervisor(app) == IF app = None THEN "between" ELSE "load"

Empty == [i \in Slots |-> Free]

Init ==
    \E listed \in Directories : \E b \in boot_image(listed) :
        /\ installed = listed /\ pc = AtSupervisor(b.image)
        /\ image = b.image /\ pending = b.pending /\ current = b.current /\ marked = b.marked
        /\ running = None /\ launcher_exits = 0 /\ launching = FALSE
        /\ table = Empty /\ horizon = HorizonOf(Empty) /\ seen = FALSE
        /\ elapsed = 0 /\ offset = 0 /\ moved = FALSE
        /\ rounds = 0 /\ park = FALSE /\ calls = MaxCalls

\* next_image, once the threads of the last app have ended.
NextImage ==
    /\ pc = "between" /\ ~park
    /\ moved' = FALSE
    /\ \E m \in refreshed :
        \/ /\ m \cap installed # {} /\ TakeNext(m)
           /\ launcher_exits' = 0 /\ pc' = "load"
           /\ UNCHANGED <<running, pending, table>>
        \/ /\ m \cap installed = {} /\ marked' = {} /\ pending' = None
           /\ UNCHANGED current
           /\ LET launch == pending \in installed
                  again == ~launch /\ running = Launcher
                  exits == IF again THEN launcher_exits + 1 ELSE 0
              IN  /\ image' = CASE launch -> pending
                                [] ~launch /\ Launcher \in installed /\ exits < 2 -> Launcher
                                [] OTHER -> None
                  /\ launcher_exits' = IF launch \/ Launcher \in installed THEN exits
                                       ELSE launcher_exits
           /\ IF image' = None THEN /\ pc' = "idle" /\ running' = None
                                    /\ table' = NextRun(table)
                               ELSE pc' = "load" /\ UNCHANGED <<running, table>>
    /\ UNCHANGED <<installed, launching, horizon, seen, clockVars, rounds, park, calls>>

\* run_app up to Application.onCreate: set_running, a new handler.
Load ==
    /\ pc = "load" /\ pc' = "create"
    /\ running' = image /\ table' = NextRun(table)
    /\ UNCHANGED <<installed, image, pending, launcher_exits, launching, horizon, seen, clockVars,
                   manifestVars, rounds, park, calls>>

-----------------------------------------------------------------------------
\* run_app returns: its handler and the locals of its loop go.
RunEnds == pc' = "between" /\ launching' = FALSE /\ seen' = FALSE /\ rounds' = 0

\* run_application.  An Application that fails, or is stopped, ends the run
\* before manifest_current is asked.
CreateFails ==
    /\ pc = "create" /\ RunEnds
    /\ UNCHANGED <<packageVars, table, horizon, clockVars, manifestVars, park, calls>>

\* A run for a manifest receiver shows no Activity, and nor does one whose
\* Launch is found first.
CreateReturns ==
    /\ pc = "create"
    /\ current' = IF current = running THEN None ELSE current
    /\ \/ current # running /\ pc' \in {"turn", "drain"} /\ UNCHANGED rounds
       \/ pc' = "headless" /\ rounds' = CAPACITY
    /\ UNCHANGED <<packageVars, launching, alarmVars, clockVars, marked, moved, park, calls>>

\* deliver_due_alarms_headless.
FireHeadless ==
    LET mine == DueFor(table, now, running)
    IN  /\ pc = "headless" /\ rounds > 0 /\ mine # {}
        /\ Write([table EXCEPT ![Earliest(table, mine)] = Free])
        /\ rounds' = rounds - 1
        /\ UNCHANGED <<pc, packageVars, launching, seen, clockVars, manifestVars, park, calls>>

HeadlessEnds ==
    /\ pc = "headless" /\ (rounds = 0 \/ DueFor(table, now, running) = {})
    /\ pc' = "teardown"
    /\ UNCHANGED <<packageVars, launching, alarmVars, clockVars, manifestVars, rounds, park, calls>>

\* Then the Services end.
Teardown ==
    /\ pc = "teardown" /\ RunEnds
    /\ UNCHANGED <<packageVars, table, horizon, clockVars, manifestVars, park, calls>>

-----------------------------------------------------------------------------
\* The activity loop.  dispatch_alarms: a tick polls when the horizon or the
\* directory says so.
polls == ~seen \/ due(horizon, now)

DispatchAlarms ==
    /\ pc = "turn" /\ pc' = "alarms"
    /\ IF polls
       THEN LET r == poll(table, now, running, installed, launching)
                wakes == r.action.do = "wake"
            IN  /\ Write(r.table) /\ seen' = TRUE
                /\ pending' = IF wakes THEN r.action.owner ELSE pending
                /\ launching' = (launching \/ wakes)
       ELSE UNCHANGED <<alarmVars, pending, launching>>
    /\ UNCHANGED <<installed, image, running, launcher_exits, clockVars, manifestVars, rounds,
                   park, calls>>

\* dispatch_broadcasts: only the launcher makes way for a manifest delivery.
DispatchBroadcasts ==
    /\ pc = "alarms" /\ pc' = "drain"
    /\ marked' \in refreshed /\ moved' = FALSE
    /\ launching' = (launching \/ (running = Launcher /\ marked' \ {running} # {}))
    /\ UNCHANGED <<packageVars, alarmVars, clockVars, current, rounds, park, calls>>

\* The drain leaves for a Launch, and when the last Activity has finished.  What
\* the Activities call while they end is as if called before: nothing looks at it
\* in between.  A turn that is no tick only drains, and is as if it had come
\* before the drain of the last tick; the first turn may be one.
Drain ==
    /\ pc = "drain"
    /\ \/ ~launching /\ pc' = "turn" /\ UNCHANGED <<launching, seen, rounds>>
       \/ RunEnds
    /\ UNCHANGED <<packageVars, table, horizon, clockVars, manifestVars, park, calls>>

\* A stopped app leaves at the top of its loop.
Stopped ==
    /\ park /\ pc = "turn" /\ RunEnds
    /\ UNCHANGED <<packageVars, table, horizon, clockVars, manifestVars, park, calls>>

-----------------------------------------------------------------------------
\* What Java calls, in any callback.
Call == calls > 0 /\ calls' = calls - 1

SetAlarm ==
    /\ JavaRuns /\ Call
    /\ \E key \in Keys, clock \in Clocks, at \in Triggers :
       \E i \in SlotFor(table, running, key) :
            Write([table EXCEPT ![i] =
                [owner |-> running, key |-> key, clock |-> clock, at |-> at, state |-> Armed]])
    /\ UNCHANGED <<pc, packageVars, launching, seen, clockVars, manifestVars, rounds, park>>

CancelAlarm ==
    /\ JavaRuns /\ Call
    /\ \E key \in Keys : Write(cancelled(table, running, key)) /\ table' # table
    /\ UNCHANGED <<pc, packageVars, launching, seen, clockVars, manifestVars, rounds, park>>

\* startActivity of another package, and HOME: request_launch and a Launch.
StartPackage ==
    /\ JavaRuns /\ Call
    /\ \E p \in installed \ {running} : pending' = p
    /\ launching' = TRUE
    /\ UNCHANGED <<pc, installed, image, running, launcher_exits, alarmVars, clockVars,
                   manifestVars, rounds, park>>

\* PackageInstaller.uninstall, with the rescan.
MayUninstall_Unchecked(p) == p \in installed \ {Launcher}
MayUninstall(p) == p \in installed \ {Launcher, running}

Uninstall ==
    /\ JavaRuns /\ Call
    /\ \E p \in Packages : MayUninstall(p) /\ installed' = installed \ {p}
    /\ seen' = FALSE
    /\ UNCHANGED <<pc, image, running, pending, launcher_exits, launching, table, horizon,
                   clockVars, manifestVars, rounds, park>>

\* Time and the clock pass, and the host asks, at any moment: here, wherever the
\* JVM task looks at them next.
Looks == pc \in {"turn", "alarms", "headless", "between", "idle"}

\* anchor_wall_clock, from Java or from the time service.
SetClock ==
    /\ Looks /\ Call /\ offset' \in Offsets /\ moved' = TRUE
    /\ UNCHANGED <<pc, packageVars, launching, alarmVars, elapsed, marked, current, rounds, park>>

Elapse ==
    /\ pc \in {"turn", "headless"} /\ elapsed < MaxTime /\ elapsed' = elapsed + 1
    /\ UNCHANGED <<pc, packageVars, launching, alarmVars, offset, manifestVars, rounds, park, calls>>

-----------------------------------------------------------------------------
\* The host asks for the device, for an install.  A refused one runs the same
\* image again; the other outcome is a reset, as is a power cycle.  Nothing that a
\* reset leaves depends on where it comes.
RequestPark ==
    /\ Looks /\ ~park /\ Call /\ park' = TRUE
    /\ UNCHANGED <<pc, packageVars, launching, alarmVars, clockVars, manifestVars, rounds>>

Refused ==
    /\ park /\ pc \in {"between", "idle"} /\ park' = FALSE
    /\ pc' = AtSupervisor(image)
    /\ UNCHANGED <<packageVars, launching, alarmVars, clockVars, manifestVars, rounds, calls>>

Reset ==
    /\ pc \in {"between", "idle"} /\ Call
    /\ \E listed \in Directories : \E b \in boot_image(listed) :
        /\ installed' = listed /\ pc' = AtSupervisor(b.image)
        /\ image' = b.image /\ pending' = b.pending
        /\ current' = b.current /\ marked' = b.marked
    /\ running' = None /\ launcher_exits' = 0 /\ launching' = FALSE
    /\ table' = Empty /\ horizon' = HorizonOf(Empty) /\ seen' = FALSE
    /\ elapsed' = 0 /\ offset' = 0 /\ moved' = FALSE
    /\ rounds' = 0 /\ park' = FALSE

-----------------------------------------------------------------------------
Supervisor == NextImage \/ Load \/ Refused
App == \/ CreateFails \/ CreateReturns \/ FireHeadless \/ HeadlessEnds \/ Teardown
       \/ DispatchAlarms \/ DispatchBroadcasts \/ Drain \/ Stopped
Environment == \/ SetAlarm \/ CancelAlarm \/ StartPackage \/ Uninstall
               \/ SetClock \/ Elapse \/ RequestPark \/ Reset

Next == Supervisor \/ App \/ Environment

Spec == Init /\ [][Next]_vars

\* The JVM task is never held up for good, an install is answered, and the tick
\* source keeps posting: the loop's next tick always comes.
FairSpec == Spec /\ WF_vars(Supervisor \/ App)

-----------------------------------------------------------------------------
(* Properties *)

TypeOK ==
    /\ pc \in {"load", "create", "turn", "alarms", "drain", "headless", "teardown", "between",
               "idle"}
    /\ installed \subseteq Packages /\ marked \subseteq Receivers
    /\ {image, running, pending, current} \subseteq Packages \cup {None}
    /\ table \in [Slots -> Alarm \cup {Free}]
    /\ elapsed \in Nat /\ offset \in Nat
    /\ launcher_exits \in 0..2 /\ rounds \in 0..CAPACITY /\ calls \in 0..MaxCalls
    /\ {launching, seen, moved, park} \subseteq BOOLEAN

\* The app that runs is in the directory: its flash is not erased under it.
RunningInstalled ==
    /\ pc = "load" => image \in installed
    /\ JavaRuns => running = image /\ running \in installed

\* A tick that does not poll has nothing to decide: no alarm hides behind a
\* horizon or a directory generation that is out of date.
NothingHidden ==
    pc = "turn" /\ ~polls =>
        poll(table, now, running, installed, launching) = [table |-> table, action |-> NoAction]

\* One owner at a time is being started, and the app on screen is on its way
\* out for it: the wake has not been lost on the way to the drain.
WakeUnderWay ==
    LET asked == {i \in Rows(table) : table[i].state.asked}
    IN  /\ Cardinality(asked) <= 1
        /\ asked # {} => launching \/ ~InLoop

\* The running package is never marked (broadcasts.rs, Manifest receivers), and
\* no more packages wait than the table has room for.
MarksTrue == /\ JavaRuns => running \notin marked
             /\ Cardinality(marked) <= MANIFEST_PENDING

\* The device waits for an install only when it has nothing to run: there is no
\* launcher, or the launcher has exited twice in a row.
IdleJustified == pc = "idle" => /\ image = None /\ running = None
                                /\ Launcher \notin installed \/ launcher_exits = 2

\* What the statics say of one another, between any two steps of the switch.
SwitchTrue == TypeOK /\ RunningInstalled /\ NothingHidden /\ WakeUnderWay /\ MarksTrue
              /\ IdleJustified

\* The table keeps the promises of AlarmManager (alarms.rs module docs).
Promise(e) == [owner |-> e.owner, key |-> e.key, clock |-> e.clock, at |-> e.at,
               triggered |-> is_firing(e)]

ASSUME FreeAssumption == \A e \in Alarm : Free # e /\ Free # Promise(e)

Contract == INSTANCE AlarmContract WITH
    PerPackage <- PER_PACKAGE,
    alarms <- [i \in Slots |-> IF table[i] = Free THEN Free ELSE Promise(table[i])],
    elapsed <- elapsed, wall <- elapsed + offset

AlarmsKept == Contract!ContractSpec

\* Whatever the apps did, once they stop interfering an alarm that is due is
\* fired or given up, and no manifest delivery waits behind the launcher; unless
\* the device itself waits, for an install.
Overdue == \E i \in Rows(table) : is_firing(table[i]) \/ is_due(table[i], now)
LauncherInTheWay == InLoop /\ running = Launcher /\ marked # {}
Settled == pc = "idle" \/ (~Overdue /\ ~LauncherInTheWay)

WorkEnds == []<>Settled
=============================================================================
