--------------------------- MODULE ParkHandshake ---------------------------
(***************************************************************************)
(* How the debug bridge stops Java before it erases flash, and hands the   *)
(* core back: platforms/rp/src/boot_tasks.rs (the loop of jvm_task),       *)
(* pdb/coordinator.rs and pdb/pending.rs (the flags between them) and the  *)
(* order in which crates/pd-install/src/orchestrator.rs uses them.         *)
(*                                                                         *)
(* Both tasks are pinned to one core and pdb_task has the higher priority: *)
(* it stops jvm_task between any two instructions, and jvm_task takes a    *)
(* step only while pdb_task blocks.  So an action of pdb_task is all it    *)
(* does from one blocking call to the next, and an action of jvm_task one  *)
(* access to a shared flag.  An uninstall is an install without a refusal. *)
(***************************************************************************)
EXTENDS Naturals

CONSTANTS Rounds,       \* waits of wait_for_park: 15
          MaxChildren,  \* bound on the threads an app starts
          Faults        \* what may happen: see FaultsAssumption

ASSUME RoundsAssumption == Rounds \in Nat \ {0} /\ MaxChildren \in Nat
ASSUME FaultsAssumption ==
    Faults \subseteq {"app_exits",      \* an app and its threads may end by themselves
                      "timeout",        \* a second may pass in wait_for_park
                      "report_blocks"}  \* the host is slow to read an answer

VARIABLES STOP_JVM, FLASH_PARK_REQUESTED, CORE0_PARKED,
          children,  \* ACTIVE_JVM_THREADS
          jvmNote,   \* jvm_task has a notification latched
          pdbNote,   \* pdb_task has
          jpc,       \* where jvm_task is
          asleep,    \* it is in take_notification of the loop at jpc
          image,     \* the app it runs next
          stopped,   \* the last app ended because STOP_JVM was up
          ppc,       \* where pdb_task is
          rounds,    \* waits left
          faults     \* the faults of this run

flags == <<STOP_JVM, FLASH_PARK_REQUESTED, CORE0_PARKED>>
jvm == <<jpc, asleep, image, stopped>>
pdb == <<ppc, rounds>>
vars == <<flags, children, jvmNote, pdbNote, jvm, pdb, faults>>

Images == {"app", "launcher", "none"}

\* pdb_task holds the core but where it blocks: for a command, for the bytes
\* of an image, for a notification, or for the host to take an answer.
Blocked == \/ ppc \in {"command", "peek", "stream"}
           \/ ppc = "wait" /\ ~pdbNote
           \/ ppc \in {"refuse", "failed"} /\ "report_blocks" \in faults

-----------------------------------------------------------------------------
(* jvm_task *)

Goto(l) == jpc' = l /\ UNCHANGED <<asleep, image, stopped>>

ClearStop ==
    /\ jpc = "clear" /\ Blocked
    /\ STOP_JVM' = FALSE
    /\ Goto(IF image = "none" THEN "stop" ELSE "run")
    /\ UNCHANGED <<FLASH_PARK_REQUESTED, CORE0_PARKED, children, jvmNote, pdbNote, pdb>>

AppEnds ==          \* run_jvm_with returns
    /\ jpc = "run" /\ Blocked
    /\ STOP_JVM \/ "app_exits" \in faults
    /\ jpc' = "stop" /\ stopped' = STOP_JVM
    /\ UNCHANGED <<flags, children, jvmNote, pdbNote, asleep, image, pdb>>

StartChild ==
    /\ jpc = "run" /\ Blocked /\ children < MaxChildren
    /\ children' = children + 1
    /\ UNCHANGED <<flags, jvmNote, pdbNote, jvm, pdb>>

EndChild ==         \* deregister_child_task
    /\ Blocked /\ children > 0
    /\ STOP_JVM \/ "app_exits" \in faults
    /\ children' = children - 1
    /\ jvmNote' = (jvmNote \/ children = 1)
    /\ UNCHANGED <<flags, pdbNote, jvm, pdb>>

\* The threads left behind are told to stop.  Which sleeps they are woken
\* from is in MonitorStore and ThreadRegistry.
StopChildren ==
    /\ jpc = "stop" /\ Blocked
    /\ STOP_JVM' = (STOP_JVM \/ children > 0)
    /\ Goto("drain")
    /\ UNCHANGED <<FLASH_PARK_REQUESTED, CORE0_PARKED, children, jvmNote, pdbNote, pdb>>

\* while !cond { take_notification(true, infinite) }
WaitUntil(here, cond, next) ==
    /\ jpc = here /\ Blocked
    /\ \/ ~asleep /\ cond /\ Goto(next) /\ UNCHANGED jvmNote
       \/ ~asleep /\ ~cond /\ asleep' = TRUE /\ UNCHANGED <<jpc, image, stopped, jvmNote>>
       \/ asleep /\ jvmNote /\ asleep' = FALSE /\ jvmNote' = FALSE
          /\ UNCHANGED <<jpc, image, stopped>>
    /\ UNCHANGED <<flags, children, pdbNote, pdb>>

Drain == WaitUntil("drain", children = 0, "check")

\* Stopped for an install: keep `image`.  Else next_image: a pending launch,
\* the launcher, or nothing, as the directory has it.
CheckRequest ==
    /\ jpc = "check" /\ Blocked
    /\ \/ FLASH_PARK_REQUESTED /\ Goto("idle")
       \/ /\ ~FLASH_PARK_REQUESTED
          /\ image' \in Images
          /\ jpc' = IF image' = "none" THEN "idle" ELSE "clear"
          /\ UNCHANGED <<asleep, stopped>>
    /\ UNCHANGED <<flags, children, jvmNote, pdbNote, pdb>>

AwaitRequest == WaitUntil("idle", FLASH_PARK_REQUESTED, "park")

Park ==
    /\ jpc = "park" /\ Blocked
    /\ CORE0_PARKED' = TRUE
    /\ Goto("notify")
    /\ UNCHANGED <<STOP_JVM, FLASH_PARK_REQUESTED, children, jvmNote, pdbNote, pdb>>

NotifyPdb ==
    /\ jpc = "notify" /\ Blocked
    /\ pdbNote' = TRUE
    /\ Goto("parked")
    /\ UNCHANGED <<flags, children, jvmNote, pdb>>

StayParked_Once ==
    /\ jpc = "parked" /\ Blocked
    /\ jvmNote /\ jvmNote' = FALSE
    /\ Goto("clear")
    /\ UNCHANGED <<flags, children, pdbNote, pdb>>

StayParked == WaitUntil("parked", ~CORE0_PARKED, "clear")

\* A notification nobody asked for: the fs worker's, a late child's.
Spurious ==
    /\ Blocked /\ jvmNote' = TRUE
    /\ UNCHANGED <<flags, children, pdbNote, jvm, pdb>>

-----------------------------------------------------------------------------
(* pdb_task *)

RequestStopAndPark ==   \* and into wait_for_park
    /\ ppc = "command"
    /\ CORE0_PARKED' = FALSE /\ STOP_JVM' = TRUE /\ FLASH_PARK_REQUESTED' = TRUE
    /\ jvmNote' = TRUE
    /\ ppc' = "wait" /\ rounds' = Rounds
    /\ UNCHANGED <<children, pdbNote, jvm>>

WaitForPark_TakesNotification ==
    /\ ppc = "wait"
    /\ pdbNote \/ "timeout" \in faults
    /\ pdbNote' = FALSE
    /\ rounds' = rounds - 1
    /\ ppc' = IF pdbNote \/ CORE0_PARKED THEN "peek"
              ELSE IF rounds = 1 THEN "refuse" ELSE "wait"
    /\ UNCHANGED <<flags, children, jvmNote, jvm>>

WaitForPark_OffByOne ==
    /\ ppc = "wait"
    /\ pdbNote \/ "timeout" \in faults
    /\ pdbNote' = FALSE
    /\ rounds' = rounds - 1
    /\ ppc' = IF CORE0_PARKED THEN "peek" ELSE IF rounds = 0 THEN "refuse" ELSE "wait"
    /\ UNCHANGED <<flags, children, jvmNote, jvm>>

WaitForPark ==          \* one wait, and the look at the flag behind it
    /\ ppc = "wait"
    /\ pdbNote \/ "timeout" \in faults
    /\ pdbNote' = FALSE
    /\ rounds' = rounds - 1
    /\ ppc' = IF CORE0_PARKED THEN "peek" ELSE IF rounds = 1 THEN "refuse" ELSE "wait"
    /\ UNCHANGED <<flags, children, jvmNote, jvm>>

Peek ==                 \* and placement: nothing of the target erased yet
    /\ ppc = "peek"
    /\ ppc' \in {"stream", "refuse"}
    /\ UNCHANGED <<flags, children, jvmNote, pdbNote, jvm, rounds>>

CheckImage ==           \* the whole image is on flash: refused, or committed
    /\ ppc = "stream"
    /\ ppc' \in {"reset", "refuse"}
    /\ UNCHANGED <<flags, children, jvmNote, pdbNote, jvm, rounds>>

Release_Silent == CORE0_PARKED' = FALSE /\ UNCHANGED jvmNote
Release == CORE0_PARKED' = FALSE /\ jvmNote' = TRUE

Refuse_NoRelease ==
    /\ ppc = "refuse"
    /\ FLASH_PARK_REQUESTED' = FALSE
    /\ ppc' = "command"
    /\ UNCHANGED <<STOP_JVM, CORE0_PARKED, children, jvmNote, pdbNote, jvm, rounds>>

Refuse ==               \* the error is reported: release, cancel
    /\ ppc = "refuse"
    /\ Release /\ FLASH_PARK_REQUESTED' = FALSE
    /\ ppc' = "command"
    /\ UNCHANGED <<STOP_JVM, children, pdbNote, jvm, rounds>>

StreamFails ==          \* stream_and_verify: release, then report
    /\ ppc = "stream"
    /\ Release
    /\ ppc' = "failed"
    /\ UNCHANGED <<STOP_JVM, FLASH_PARK_REQUESTED, children, pdbNote, jvm, rounds>>

CancelParkRequest ==
    /\ ppc = "failed"
    /\ FLASH_PARK_REQUESTED' = FALSE
    /\ ppc' = "command"
    /\ UNCHANGED <<STOP_JVM, CORE0_PARKED, children, jvmNote, pdbNote, jvm, rounds>>

-----------------------------------------------------------------------------
Init == /\ STOP_JVM = FALSE /\ FLASH_PARK_REQUESTED = FALSE /\ CORE0_PARKED = FALSE
        /\ children = 0 /\ jvmNote = FALSE /\ pdbNote = FALSE
        /\ jpc = "clear" /\ asleep = FALSE /\ image \in Images /\ stopped = FALSE
        /\ ppc = "command" /\ rounds = 0 /\ faults \in SUBSET Faults

Reset ==                \* the chip starts over
    /\ ppc = "reset"
    /\ STOP_JVM' = FALSE /\ FLASH_PARK_REQUESTED' = FALSE /\ CORE0_PARKED' = FALSE
    /\ children' = 0 /\ jvmNote' = FALSE /\ pdbNote' = FALSE
    /\ jpc' = "clear" /\ asleep' = FALSE /\ image' \in Images /\ stopped' = FALSE
    /\ ppc' = "command" /\ rounds' = 0

JvmStep == \/ ClearStop \/ AppEnds \/ StopChildren \/ Drain \/ CheckRequest \/ AwaitRequest
           \/ Park \/ NotifyPdb \/ StayParked
PdbStep == \/ WaitForPark \/ Peek \/ CheckImage \/ Refuse \/ StreamFails \/ CancelParkRequest
           \/ Reset

Next == /\ JvmStep \/ StartChild \/ EndChild \/ Spurious \/ RequestStopAndPark \/ PdbStep
        /\ UNCHANGED faults

Spec == Init /\ [][Next]_vars

\* The reads of an install time out, so pdb_task gets on with it; jvm_task
\* and the threads run whenever it blocks.  Nothing makes a command come.
Fairness == /\ WF_vars(PdbStep /\ UNCHANGED faults) /\ SF_vars(JvmStep /\ UNCHANGED faults)
            /\ SF_vars(EndChild /\ UNCHANGED faults)
LiveSpec == Spec /\ Fairness

-----------------------------------------------------------------------------
BooleansOK ==
    /\ STOP_JVM \in BOOLEAN /\ FLASH_PARK_REQUESTED \in BOOLEAN /\ CORE0_PARKED \in BOOLEAN
    /\ jvmNote \in BOOLEAN /\ pdbNote \in BOOLEAN /\ asleep \in BOOLEAN /\ stopped \in BOOLEAN
CountsOK == /\ children \in 0..MaxChildren /\ rounds \in 0..Rounds
            /\ ppc = "wait" => rounds > 0
PlacesOK ==
    /\ jpc \in {"clear", "run", "stop", "drain", "check", "idle", "park", "notify", "parked"}
    /\ ppc \in {"command", "wait", "peek", "stream", "refuse", "failed", "reset"}
    /\ image \in Images
    /\ asleep => jpc \in {"drain", "idle", "parked"}

\* The shape of the state; wait_for_park never waits without a round left,
\* and jvm_task sleeps only in its three loops.
TypeOK == BooleansOK /\ CountsOK /\ PlacesOK

\* pdb_task is past wait_for_park and may erase and program flash.
Flashing == ppc \in {"peek", "stream"}

\* "SAFETY: `wait_for_park` returned true above: the JVM core is parked"
\* (orchestrator.rs): from there to the release, through stale flags, stale
\* notifications, timeouts and earlier installs, jvm_task is out of the app,
\* in the loop that only the release ends, and no thread of the app is left.
FlashParked == Flashing => /\ jpc \in {"notify", "parked"} /\ CORE0_PARKED /\ children = 0
                           /\ FLASH_PARK_REQUESTED

\* A task notification is "look again", not a credit: whatever stray ones
\* jvm_task has consumed, it never sleeps on a condition that holds already
\* without one latched to wake it.
WakePending ==
    /\ asleep /\ jpc = "drain" /\ children = 0 => jvmNote
    /\ asleep /\ jpc = "idle" /\ FLASH_PARK_REQUESTED => jvmNote
    /\ asleep /\ jpc = "parked" /\ ~CORE0_PARKED => jvmNote

\* While flash is written under an app that was stopped for it, the stop is
\* up: all that keeps the jvm-bg workers, which nobody drains, from running
\* its Java out of sectors that are being erased.  (An app that ends by
\* itself while the stop is being lost parks with the stop down.)
FlashStopped == Flashing /\ stopped /\ image # "none" => STOP_JVM

\* While the installer is at the flash, nothing of the stopped app is left
\* running, and what parks it stands.
FlashQuiet == TypeOK /\ FlashParked /\ FlashStopped

\* A parked jvm_task is let go: every install that ends without a reset
\* releases it, and no stale request parks it again for good.  (A park that
\* timed out or a host slow to read leaves a stale request: see NotWedged.)
ParkEnds == (jpc = "parked" /\ image # "none" /\ faults \subseteq {"app_exits"}) ~> (jpc # "parked")

\* The stop of an install reaches the app: "let the JVM task run and observe
\* STOP_JVM" (coordinator.rs).  While pdb_task waits for the park, an app
\* that runs has the stop up.
StopReachesApp == ppc = "wait" /\ jpc = "run" => STOP_JVM

\* No install leaves the device "wedged until another install arrives"
\* (orchestrator.rs): parked, with an app to run, and nobody to release it.
NotWedged == ~(ppc = "command" /\ jpc = "parked" /\ CORE0_PARKED /\ image # "none")

\* "A refused install resumes the same app" (boot_tasks.rs): the image of an
\* app that was stopped for an install changes only with a reset.
RefusedResumes == [][stopped /\ ppc # "reset" => image' = image]_vars
=============================================================================
