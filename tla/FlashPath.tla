------------------------------ MODULE FlashPath ------------------------------
(***************************************************************************)
(* The way to the flash: Java tasks submit closures to the file system     *)
(* worker (executors/serial_worker.rs, fs/mod.rs), the worker and the      *)
(* debug bridge's task run flash operations (hal/rp/flash.rs), and every   *)
(* operation first parks core 1 (hal/rp/core1_park.rs).                    *)
(*                                                                         *)
(* All three kinds of task are pinned to core 0 and the highest priority   *)
(* that is ready runs: the worker above the bridge above the Java tasks    *)
(* (task_priority.rs).  Interrupts are off while XIP is.  Core 1 runs the  *)
(* parker, at a priority above everything else there.                      *)
(***************************************************************************)
EXTENDS Naturals, Sequences, FiniteSets

CONSTANTS Submitters,     \* the tasks that call submit
          fs, pdb, None,  \* the worker and the debug bridge's task
          QUEUE_CAPACITY,
          MaxOps          \* bound on the flash operations, or waits, of one closure

ASSUME TasksAssumption == fs # pdb /\ fs \notin Submitters /\ pdb \notin Submitters
                          /\ None \notin Submitters
ASSUME BoundAssumption == QUEUE_CAPACITY \in Nat \ {0} /\ MaxOps \in Nat

VARIABLES blocks,         \* the worker's closures may block, and do no flash operation
          queue,          \* the worker's requests: whose Work they point at
          pc,             \* where each task of core 0 is
          work,           \* the waiter of the request the worker copied out
          ops,            \* flash operations its closure still does, or waits
          done, notified, \* Ctx.done; the latched notification of a submitter
          op,             \* where the worker and the bridge are in a flash operation
          PARK_REQUESTED, PARKED,
          parker,         \* where the parker is
          parker_notified,
          xip             \* flash can be fetched from

vars == <<blocks, queue, pc, work, ops, done, notified, op, PARK_REQUESTED, PARKED, parker,
          parker_notified, xip>>

Users == {fs, pdb}
Core0 == Submitters \cup Users
OpPC == {"none", "request", "notify", "spin", "erase", "clear", "release"}

Init == /\ blocks \in BOOLEAN
        /\ queue = <<>>
        /\ pc = [t \in Core0 |-> IF t = fs THEN "recv" ELSE IF t = pdb THEN "idle" ELSE "java"]
        /\ work = None /\ ops = 0
        /\ done = [s \in Submitters |-> FALSE]
        /\ notified = [s \in Submitters |-> FALSE]
        /\ op = [u \in Users |-> "none"]
        /\ PARK_REQUESTED = FALSE /\ PARKED = FALSE
        /\ parker = "take" /\ parker_notified = FALSE
        /\ xip = TRUE

-----------------------------------------------------------------------------
(* Core 0's schedule. *)
FsReady == pc[fs] \in {"run", "notify"} \/ (pc[fs] = "recv" /\ queue # <<>>)
PdbReady == op[pdb] # "none"
SubmitterReady(s) == pc[s] # "blocked" \/ notified[s]

FsRuns == FsReady /\ (xip \/ op[fs] = "erase")

\* Mutant: the bridge's task shares the worker's priority.
PdbRuns_SamePriority == PdbReady /\ (xip \/ op[pdb] = "erase")

PdbRuns == PdbReady /\ (xip \/ op[pdb] = "erase") /\ (FsReady => ~xip)
SubmitterRuns(s) == SubmitterReady(s) /\ ~FsReady /\ ~PdbReady /\ xip
UserRuns(u) == IF u = fs THEN FsRuns ELSE PdbRuns

(* SerialWorker::submit. *)
flashVars == <<blocks, op, PARK_REQUESTED, PARKED, parker, parker_notified, xip>>

Submit(s) ==
    /\ SubmitterRuns(s) /\ pc[s] = "java" /\ Len(queue) < QUEUE_CAPACITY
    /\ done' = [done EXCEPT ![s] = FALSE]
    /\ queue' = Append(queue, s)
    /\ pc' = [pc EXCEPT ![s] = "check"]
    /\ UNCHANGED <<work, ops, notified, flashVars>>

CheckDone(s) ==
    /\ SubmitterRuns(s) /\ pc[s] = "check"
    /\ pc' = [pc EXCEPT ![s] = IF done[s] THEN "java" ELSE "blocked"]
    /\ UNCHANGED <<queue, work, ops, done, notified, flashVars>>

\* Mutant: a notification is taken for the completion.
WaitNotification_Enough(s) ==
    /\ SubmitterRuns(s) /\ pc[s] = "blocked" /\ notified[s]
    /\ notified' = [notified EXCEPT ![s] = FALSE]
    /\ pc' = [pc EXCEPT ![s] = "java"]
    /\ UNCHANGED <<queue, work, ops, done, flashVars>>

WaitNotification(s) ==
    /\ SubmitterRuns(s) /\ pc[s] = "blocked" /\ notified[s]
    /\ notified' = [notified EXCEPT ![s] = FALSE]
    /\ pc' = [pc EXCEPT ![s] = "check"]
    /\ UNCHANGED <<queue, work, ops, done, flashVars>>

\* Somebody else notifies a submitter: the supervisor loop, an interrupt.
Stray(s) ==
    /\ notified' = [notified EXCEPT ![s] = TRUE]
    /\ UNCHANGED <<queue, pc, work, ops, done, flashVars>>

(* The worker's loop.  A closure does some flash operations, or none.  The
   file system's never block; a worker of another kind may run some that do. *)

\* Mutant: a queue of one word that a later request overwrites.
Receive_Latest ==
    /\ FsRuns /\ pc[fs] = "recv"
    /\ work' = queue[Len(queue)] /\ queue' = <<>>
    /\ ops' \in 0..MaxOps
    /\ pc' = [pc EXCEPT ![fs] = "run"]
    /\ UNCHANGED <<done, notified, flashVars>>

Receive ==
    /\ FsRuns /\ pc[fs] = "recv"
    /\ work' = Head(queue) /\ queue' = Tail(queue)
    /\ ops' \in 0..MaxOps
    /\ pc' = [pc EXCEPT ![fs] = "run"]
    /\ UNCHANGED <<done, notified, flashVars>>

\* A closure blocks, or something above the worker takes the core.
Stall ==
    /\ FsRuns /\ blocks /\ pc[fs] = "run" /\ ops > 0
    /\ ops' = ops - 1
    /\ pc' = [pc EXCEPT ![fs] = "stalled"]
    /\ UNCHANGED <<queue, work, done, notified, flashVars>>

Resume ==
    /\ pc[fs] = "stalled"
    /\ pc' = [pc EXCEPT ![fs] = "run"]
    /\ UNCHANGED <<queue, work, ops, done, notified, flashVars>>

\* Mutant: one erase more than the closure has sectors.
FlashOp_OneMore ==
    /\ FsRuns /\ ~blocks /\ pc[fs] = "run" /\ op[fs] = "none"
    /\ ops' = ops - 1
    /\ op' = [op EXCEPT ![fs] = "request"]
    /\ UNCHANGED <<blocks, queue, pc, work, done, notified, PARK_REQUESTED, PARKED, parker,
                   parker_notified, xip>>

FlashOp ==
    /\ FsRuns /\ ~blocks /\ pc[fs] = "run" /\ op[fs] = "none" /\ ops > 0
    /\ ops' = ops - 1
    /\ op' = [op EXCEPT ![fs] = "request"]
    /\ UNCHANGED <<blocks, queue, pc, work, done, notified, PARK_REQUESTED, PARKED, parker,
                   parker_notified, xip>>

\* Mutant: the completion flag is the worker's, not the call's.
RunEnds_SharedFlag ==
    /\ FsRuns /\ pc[fs] = "run" /\ op[fs] = "none" /\ ops = 0
    /\ done' = [s \in Submitters |-> TRUE]
    /\ pc' = [pc EXCEPT ![fs] = "notify"]
    /\ UNCHANGED <<queue, work, ops, notified, flashVars>>

RunEnds ==
    /\ FsRuns /\ pc[fs] = "run" /\ op[fs] = "none" /\ ops = 0
    /\ done' = [done EXCEPT ![work] = TRUE]
    /\ pc' = [pc EXCEPT ![fs] = "notify"]
    /\ UNCHANGED <<queue, work, ops, notified, flashVars>>

NotifyWaiter ==
    /\ FsRuns /\ pc[fs] = "notify"
    /\ notified' = [notified EXCEPT ![work] = TRUE]
    /\ work' = None
    /\ pc' = [pc EXCEPT ![fs] = "recv"]
    /\ UNCHANGED <<queue, ops, done, flashVars>>

\* The bridge's task becomes ready with a sector to erase or pages to program.
InstallOp ==
    /\ op[pdb] = "none" /\ xip
    /\ op' = [op EXCEPT ![pdb] = "request"]
    /\ UNCHANGED <<blocks, queue, pc, work, ops, done, notified, PARK_REQUESTED, PARKED, parker,
                   parker_notified, xip>>

(* One flash operation of u, from park_core1_for_flash to the guard's drop. *)
serialVars == <<blocks, queue, pc, work, ops, done, notified>>
OpStep(u, from, to) == UserRuns(u) /\ op[u] = from /\ op' = [op EXCEPT ![u] = to]

RequestPark(u) ==
    /\ OpStep(u, "request", "notify")
    /\ PARK_REQUESTED' = TRUE
    /\ UNCHANGED <<serialVars, PARKED, parker, parker_notified, xip>>

\* Mutant: the request is raised and the parker is not woken.
NotifyParker_Silent(u) ==
    /\ OpStep(u, "notify", "spin")
    /\ UNCHANGED <<serialVars, PARK_REQUESTED, PARKED, parker, parker_notified, xip>>

NotifyParker(u) ==
    /\ OpStep(u, "notify", "spin")
    /\ parker_notified' = TRUE
    /\ UNCHANGED <<serialVars, PARK_REQUESTED, PARKED, parker, xip>>

DisableXip(u) ==
    /\ OpStep(u, "spin", "erase") /\ PARKED
    /\ xip' = FALSE
    /\ UNCHANGED <<serialVars, PARK_REQUESTED, PARKED, parker, parker_notified>>

EnableXip(u) ==
    /\ OpStep(u, "erase", "clear")
    /\ xip' = TRUE
    /\ UNCHANGED <<serialVars, PARK_REQUESTED, PARKED, parker, parker_notified>>

ClearRequest(u) ==
    /\ OpStep(u, "clear", "release")
    /\ PARK_REQUESTED' = FALSE
    /\ UNCHANGED <<serialVars, PARKED, parker, parker_notified, xip>>

\* Mutant: the guard's drop does not wait for core 1 to leave the loop.
Released_AtOnce(u) ==
    /\ OpStep(u, "release", "none")
    /\ UNCHANGED <<serialVars, PARK_REQUESTED, PARKED, parker, parker_notified, xip>>

Released(u) ==
    /\ OpStep(u, "release", "none") /\ ~PARKED
    /\ UNCHANGED <<serialVars, PARK_REQUESTED, PARKED, parker, parker_notified, xip>>

(* run_parker_task and park_until_released, on core 1. *)
ParkerTakes ==
    /\ parker = "take" /\ parker_notified
    /\ parker_notified' = FALSE /\ parker' = "test"
    /\ UNCHANGED <<serialVars, op, PARK_REQUESTED, PARKED, xip>>

ParkerParks ==
    /\ parker = "test"
    /\ IF PARK_REQUESTED THEN PARKED' = TRUE /\ parker' = "spin"
                         ELSE parker' = "take" /\ UNCHANGED PARKED
    /\ UNCHANGED <<serialVars, op, PARK_REQUESTED, parker_notified, xip>>

ParkerSees ==
    /\ parker = "spin" /\ ~PARK_REQUESTED
    /\ parker' = "leave"
    /\ UNCHANGED <<serialVars, op, PARK_REQUESTED, PARKED, parker_notified, xip>>

ParkerLeaves ==
    /\ parker = "leave"
    /\ PARKED' = FALSE /\ parker' = "take"
    /\ UNCHANGED <<serialVars, op, PARK_REQUESTED, parker_notified, xip>>

SubmitterStep(s) == Submit(s) \/ CheckDone(s) \/ WaitNotification(s)
WorkerStep == Receive \/ Resume \/ Stall \/ FlashOp \/ RunEnds \/ NotifyWaiter
OpSteps(u) == \/ RequestPark(u) \/ NotifyParker(u) \/ DisableXip(u)
              \/ EnableXip(u) \/ ClearRequest(u) \/ Released(u)
ParkerStep == ParkerTakes \/ ParkerParks \/ ParkerSees \/ ParkerLeaves

Next == \/ \E s \in Submitters : SubmitterStep(s) \/ Stray(s)
        \/ WorkerStep \/ InstallOp \/ ParkerStep
        \/ \E u \in Users : OpSteps(u)

Spec == Init /\ [][Next]_vars

\* Both cores run: the parker outranks core 1's other tasks, and on core 0 a
\* task that is ready long enough runs.
FairSpec == /\ Spec /\ WF_vars(WorkerStep) /\ WF_vars(ParkerStep)
            /\ \A u \in Users : WF_vars(OpSteps(u))

-----------------------------------------------------------------------------
(* Properties. *)
InSubmit(s) == pc[s] \in {"check", "blocked"}

\* Every variable keeps the shape its source type has.
TypeOK ==
    /\ blocks \in BOOLEAN
    /\ queue \in Seq(Submitters) /\ Len(queue) =< QUEUE_CAPACITY
    /\ pc \in [Core0 -> {"recv", "run", "stalled", "notify", "idle", "java", "check", "blocked"}]
    /\ work \in Submitters \cup {None} /\ ops \in 0..MaxOps
    /\ done \in [Submitters -> BOOLEAN] /\ notified \in [Submitters -> BOOLEAN]
    /\ op \in [Users -> OpPC]
    /\ PARK_REQUESTED \in BOOLEAN /\ PARKED \in BOOLEAN
    /\ parker \in {"take", "test", "spin", "leave"} /\ parker_notified \in BOOLEAN
    /\ xip \in BOOLEAN

\* While XIP is off core 1 spins in RAM with its interrupts masked, so it
\* fetches nothing from flash (core1_park.rs).
XipOffMeansParked == ~xip => parker = "spin" /\ PARK_REQUESTED

\* At most one flash operation is under way (the single-flash-op invariant of
\* core1_park.rs): the two tasks that do them never overlap, although nothing
\* but their priorities and their core keeps them apart.
OneFlashOp == op[fs] = "none" \/ op[pdb] \in {"none", "request"}

\* What runs from flash never meets an operation on it, nor does another
\* operation.
FlashAlone == TypeOK /\ XipOffMeansParked /\ OneFlashOp

\* The worker touches a submitter's stack frame only while the submitter is
\* in submit, and notifies a task that is still there.
FramesLive ==
    /\ \A i \in 1..Len(queue) : InSubmit(queue[i])
    /\ pc[fs] \in {"run", "stalled", "notify"} => InSubmit(work)

\* Calls are served as SerialService says: a stray notification never lets
\* submit return early, and no closure is lost or run twice.
Service == INSTANCE SerialService WITH
              Clients <- Submitters,
              call <- [s \in Submitters |-> IF ~InSubmit(s) THEN "out"
                                            ELSE IF done[s] THEN "served" ELSE "called"]
ServiceSpec == Service!Spec

\* Every closure the queue took is run.
QueuedServed == \A s \in Submitters : (InSubmit(s) /\ ~done[s]) ~> done[s]

\* A flash operation ends: the handshake with core 1 never hangs (the
\* "core1 park" and "core1 release" spins of core1_park.rs).
OpsEnd == \A u \in Users : (op[u] # "none") ~> (op[u] = "none")

\* Nothing waits for ever: neither a submission nor a flash operation.
FlashProgress == QueuedServed /\ OpsEnd
=============================================================================
