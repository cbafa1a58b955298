-------------------------- MODULE FlashPathProofs --------------------------
(***************************************************************************)
(* Proofs about FlashPath: flash is off only while core 1 is parked, the   *)
(* two tasks that do flash operations never overlap, the worker touches    *)
(* only live frames, and calls are served as SerialService says.           *)
(***************************************************************************)
EXTENDS FlashPath, SequenceTheorems, TLAPS

Started(u) == op[u] \notin {"none", "request"}

\* Who may be in the middle of what: priorities alone keep the bridge's
\* operations apart from the worker's.
ScheduleInv ==
    /\ pc[fs] \in {"recv", "run", "stalled", "notify"}
    /\ pc[fs] = "stalled" => blocks
    /\ op[fs] # "none" => pc[fs] = "run" /\ ~blocks
    /\ Started(pdb) => blocks \/ (pc[fs] = "recv" /\ queue = <<>>)

\* The operation under way, and what the handshake looks like at each of its steps.
Stage == IF Started(fs) THEN op[fs] ELSE op[pdb]

HandshakeInv ==
    /\ xip = (Stage # "erase")
    /\ Stage \in {"none", "request"} =>
          ~PARK_REQUESTED /\ ~PARKED /\ parker = "take" /\ ~parker_notified
    /\ Stage = "notify" => PARK_REQUESTED /\ ~PARKED /\ parker = "take" /\ ~parker_notified
    /\ Stage = "spin" =>
          /\ PARK_REQUESTED
          /\ \/ parker = "take" /\ parker_notified /\ ~PARKED
             \/ parker = "test" /\ ~parker_notified /\ ~PARKED
             \/ parker = "spin" /\ ~parker_notified /\ PARKED
    /\ Stage \in {"erase", "clear"} =>
          PARK_REQUESTED /\ PARKED /\ parker = "spin" /\ ~parker_notified
    /\ Stage = "release" =>
          /\ ~PARK_REQUESTED /\ ~parker_notified
          /\ \/ parker \in {"spin", "leave"} /\ PARKED
             \/ parker = "take" /\ ~PARKED

\* The frames the queue and the worker point at are those of calls in progress.
FrameInv ==
    /\ \A s \in Submitters : pc[s] \in {"java", "check", "blocked"}
    /\ \A i \in 1..Len(queue) : InSubmit(queue[i]) /\ ~done[queue[i]] /\ queue[i] # work
    /\ \A i, j \in 1..Len(queue) : queue[i] = queue[j] => i = j
    /\ pc[fs] \in {"run", "stalled", "notify"} => work \in Submitters /\ InSubmit(work)
    /\ pc[fs] \in {"run", "stalled"} => ~done[work]
    /\ pc[fs] = "recv" => work = None

IInv == TypeOK /\ ScheduleInv /\ HandshakeInv /\ FrameInv

-----------------------------------------------------------------------------

LEMMA Tasks == /\ fs # pdb /\ Users = {fs, pdb}
               /\ \A s \in Submitters : s \in Core0 /\ s # fs /\ s # pdb /\ s # None
               /\ fs \in Core0 /\ pdb \in Core0 /\ fs \in Users /\ pdb \in Users
               /\ \A u \in Users : u = fs \/ u = pdb
BY TasksAssumption DEF Core0, Users

LEMMA InitInv == Init => IInv
<1> SUFFICES ASSUME Init PROVE IInv
  OBVIOUS
<1>1. TypeOK
  <2>1. pc \in [Core0 -> {"recv", "run", "stalled", "notify", "idle", "java", "check", "blocked"}]
    BY DEF Init
  <2>2. op \in [Users -> OpPC] /\ queue \in Seq(Submitters) /\ Len(queue) = 0
    BY DEF Init, OpPC
  <2>3. done \in [Submitters -> BOOLEAN] /\ notified \in [Submitters -> BOOLEAN]
    BY Zenon DEF Init
  <2>4. /\ blocks \in BOOLEAN /\ PARK_REQUESTED \in BOOLEAN /\ PARKED \in BOOLEAN
        /\ xip \in BOOLEAN /\ parker_notified \in BOOLEAN
    BY DEF Init
  <2>5. /\ work \in Submitters \cup {None} /\ ops \in 0..MaxOps /\ Len(queue) =< QUEUE_CAPACITY
        /\ parker \in {"take", "test", "spin", "leave"}
    BY <2>2, BoundAssumption DEF Init
  <2> QED
    BY <2>1, <2>2, <2>3, <2>4, <2>5, Zenon DEF TypeOK
<1>2. ScheduleInv /\ HandshakeInv
  BY Tasks DEF Init, ScheduleInv, HandshakeInv, Stage, Started
<1>3. FrameInv
  BY Tasks DEF Init, FrameInv, InSubmit
<1> QED
  BY <1>1, <1>2, <1>3 DEF IInv

LEMMA NextInv == IInv /\ [Next]_vars => IInv'
<1> SUFFICES ASSUME IInv, [Next]_vars PROVE IInv'
  OBVIOUS
<1> USE Tasks, BoundAssumption
<1>1. ASSUME NEW s \in Submitters, Submit(s) PROVE IInv'
  <2>1. TypeOK'
    BY <1>1, AppendProperties DEF IInv, TypeOK, OpPC, Submit, flashVars
  <2>2. ScheduleInv'
    BY <1>1 DEF IInv, TypeOK, ScheduleInv, Started, Submit, flashVars, SubmitterRuns, PdbReady
  <2>3. HandshakeInv'
    BY <1>1 DEF IInv, TypeOK, ScheduleInv, HandshakeInv, Stage, Started, Submit, flashVars
  <2>4. FrameInv'
    BY <1>1 DEF IInv, TypeOK, ScheduleInv, FrameInv, InSubmit, Submit, flashVars
  <2> QED
    BY <2>1, <2>2, <2>3, <2>4 DEF IInv
<1>2. ASSUME NEW s \in Submitters, CheckDone(s) PROVE IInv'
  <2>1. TypeOK'
    BY <1>2 DEF IInv, TypeOK, OpPC, CheckDone, flashVars
  <2>2. ScheduleInv'
    BY <1>2 DEF IInv, TypeOK, ScheduleInv, Started, CheckDone, flashVars
  <2>3. HandshakeInv'
    BY <1>2 DEF IInv, TypeOK, ScheduleInv, HandshakeInv, Stage, Started, CheckDone, flashVars
  <2>4. FrameInv'
    BY <1>2 DEF IInv, TypeOK, ScheduleInv, FrameInv, InSubmit, CheckDone, flashVars, SubmitterRuns, FsReady
  <2> QED
    BY <2>1, <2>2, <2>3, <2>4 DEF IInv
<1>3. ASSUME NEW s \in Submitters, WaitNotification(s) PROVE IInv'
  <2>1. TypeOK'
    BY <1>3 DEF IInv, TypeOK, OpPC, WaitNotification, flashVars
  <2>2. ScheduleInv'
    BY <1>3 DEF IInv, TypeOK, ScheduleInv, Started, WaitNotification, flashVars
  <2>3. HandshakeInv'
    BY <1>3 DEF IInv, TypeOK, ScheduleInv, HandshakeInv, Stage, Started, WaitNotification, flashVars
  <2>4. FrameInv'
    BY <1>3 DEF IInv, TypeOK, ScheduleInv, FrameInv, InSubmit, WaitNotification, flashVars
  <2> QED
    BY <2>1, <2>2, <2>3, <2>4 DEF IInv
<1>4. ASSUME NEW s \in Submitters, Stray(s) PROVE IInv'
  <2>1. TypeOK'
    BY <1>4 DEF IInv, TypeOK, OpPC, Stray, flashVars
  <2>2. ScheduleInv'
    BY <1>4 DEF IInv, TypeOK, ScheduleInv, Started, Stray, flashVars
  <2>3. HandshakeInv'
    BY <1>4 DEF IInv, TypeOK, ScheduleInv, HandshakeInv, Stage, Started, Stray, flashVars
  <2>4. FrameInv'
    BY <1>4 DEF IInv, TypeOK, ScheduleInv, FrameInv, InSubmit, Stray, flashVars
  <2> QED
    BY <2>1, <2>2, <2>3, <2>4 DEF IInv
<1>5. ASSUME Receive PROVE IInv'
  <2>1. /\ queue \in Seq(Submitters) /\ queue # <<>>
        /\ pc[fs] = "recv" /\ work = None /\ op[fs] = "none"
    BY <1>5 DEF IInv, TypeOK, ScheduleInv, FrameInv, Receive, FsRuns, FsReady
  <2>2. /\ Head(queue) \in Submitters /\ Tail(queue) \in Seq(Submitters)
        /\ Len(queue) \in Nat \ {0} /\ Head(queue) = queue[1]
        /\ Len(Tail(queue)) = Len(queue) - 1
        /\ \A i \in 1..Len(Tail(queue)) : Tail(queue)[i] = queue[i + 1]
    BY <2>1, HeadTailProperties, EmptySeq, LenProperties
  <2>3. TypeOK'
    BY <1>5, <2>2 DEF IInv, TypeOK, OpPC, Receive, flashVars
  <2>4. ScheduleInv'
    BY <1>5, <2>1 DEF IInv, TypeOK, ScheduleInv, Started, Receive, flashVars
  <2>5. HandshakeInv'
    BY <1>5 DEF IInv, TypeOK, HandshakeInv, Stage, Started, Receive, flashVars
  <2>6. FrameInv'
    BY <1>5, <2>1, <2>2 DEF IInv, TypeOK, FrameInv, InSubmit, Receive, flashVars
  <2> QED
    BY <2>3, <2>4, <2>5, <2>6 DEF IInv
<1>6. ASSUME Stall PROVE IInv'
  <2>1. TypeOK'
    BY <1>6 DEF IInv, TypeOK, OpPC, Stall, flashVars, FsRuns
  <2>2. ScheduleInv'
    BY <1>6 DEF IInv, TypeOK, ScheduleInv, Started, Stall, flashVars, FsRuns
  <2>3. HandshakeInv'
    BY <1>6 DEF IInv, TypeOK, ScheduleInv, HandshakeInv, Stage, Started, Stall, flashVars, FsRuns
  <2>4. FrameInv'
    BY <1>6 DEF IInv, TypeOK, ScheduleInv, FrameInv, InSubmit, Stall, flashVars, FsRuns
  <2> QED
    BY <2>1, <2>2, <2>3, <2>4 DEF IInv
<1>7. ASSUME Resume PROVE IInv'
  <2>1. TypeOK'
    BY <1>7 DEF IInv, TypeOK, OpPC, Resume, flashVars
  <2>2. ScheduleInv'
    BY <1>7 DEF IInv, TypeOK, ScheduleInv, Started, Resume, flashVars
  <2>3. HandshakeInv'
    BY <1>7 DEF IInv, TypeOK, ScheduleInv, HandshakeInv, Stage, Started, Resume, flashVars
  <2>4. FrameInv'
    BY <1>7 DEF IInv, TypeOK, ScheduleInv, FrameInv, InSubmit, Resume, flashVars
  <2> QED
    BY <2>1, <2>2, <2>3, <2>4 DEF IInv
<1>8. ASSUME FlashOp PROVE IInv'
  <2>1. TypeOK'
    BY <1>8 DEF IInv, TypeOK, OpPC, FlashOp, FsRuns
  <2>2. ScheduleInv'
    BY <1>8 DEF IInv, TypeOK, ScheduleInv, Started, FlashOp, FsRuns
  <2>3. HandshakeInv'
    BY <1>8 DEF IInv, TypeOK, ScheduleInv, HandshakeInv, Stage, Started, FlashOp, FsRuns
  <2>4. FrameInv'
    BY <1>8 DEF IInv, TypeOK, ScheduleInv, FrameInv, InSubmit, FlashOp, FsRuns
  <2> QED
    BY <2>1, <2>2, <2>3, <2>4 DEF IInv
<1>9. ASSUME RunEnds PROVE IInv'
  <2>1. TypeOK'
    BY <1>9 DEF IInv, TypeOK, OpPC, RunEnds, flashVars, FsRuns
  <2>2. ScheduleInv'
    BY <1>9 DEF IInv, TypeOK, ScheduleInv, Started, RunEnds, flashVars, FsRuns
  <2>3. HandshakeInv'
    BY <1>9 DEF IInv, TypeOK, ScheduleInv, HandshakeInv, Stage, Started, RunEnds, flashVars, FsRuns
  <2>4. FrameInv'
    BY <1>9 DEF IInv, TypeOK, ScheduleInv, FrameInv, InSubmit, RunEnds, flashVars, FsRuns
  <2> QED
    BY <2>1, <2>2, <2>3, <2>4 DEF IInv
<1>10. ASSUME NotifyWaiter PROVE IInv'
  <2>1. TypeOK'
    BY <1>10 DEF IInv, TypeOK, OpPC, NotifyWaiter, flashVars, FsRuns
  <2>2. ScheduleInv'
    BY <1>10 DEF IInv, TypeOK, ScheduleInv, Started, NotifyWaiter, flashVars, FsRuns
  <2>3. HandshakeInv'
    BY <1>10 DEF IInv, TypeOK, ScheduleInv, HandshakeInv, Stage, Started, NotifyWaiter, flashVars, FsRuns
  <2>4. FrameInv'
    BY <1>10 DEF IInv, TypeOK, ScheduleInv, FrameInv, InSubmit, NotifyWaiter, flashVars, FsRuns
  <2> QED
    BY <2>1, <2>2, <2>3, <2>4 DEF IInv
<1>11. ASSUME InstallOp PROVE IInv'
  <2>1. TypeOK'
    BY <1>11 DEF IInv, TypeOK, OpPC, InstallOp
  <2>2. ScheduleInv'
    BY <1>11 DEF IInv, TypeOK, ScheduleInv, Started, InstallOp
  <2>3. HandshakeInv'
    BY <1>11 DEF IInv, TypeOK, ScheduleInv, HandshakeInv, Stage, Started, InstallOp
  <2>4. FrameInv'
    BY <1>11 DEF IInv, TypeOK, ScheduleInv, FrameInv, InSubmit, InstallOp
  <2> QED
    BY <2>1, <2>2, <2>3, <2>4 DEF IInv
<1>12. ASSUME NEW u \in Users, RequestPark(u) PROVE IInv'
  <2>1. TypeOK'
    BY <1>12 DEF IInv, TypeOK, OpPC, RequestPark, OpStep, UserRuns, serialVars, FsRuns, PdbRuns, FsReady
  <2>2. ScheduleInv'
    BY <1>12 DEF IInv, TypeOK, ScheduleInv, Started, RequestPark, OpStep, UserRuns, serialVars, FsRuns, PdbRuns, FsReady
  <2>3. HandshakeInv'
    BY <1>12 DEF IInv, TypeOK, ScheduleInv, HandshakeInv, Stage, Started, RequestPark, OpStep, UserRuns, serialVars, FsRuns, PdbRuns, FsReady
  <2>4. FrameInv'
    BY <1>12 DEF IInv, TypeOK, ScheduleInv, FrameInv, InSubmit, RequestPark, OpStep, UserRuns, serialVars, FsRuns, PdbRuns, FsReady
  <2> QED
    BY <2>1, <2>2, <2>3, <2>4 DEF IInv
<1>13. ASSUME NEW u \in Users, NotifyParker(u) PROVE IInv'
  <2>1. TypeOK'
    BY <1>13 DEF IInv, TypeOK, OpPC, NotifyParker, OpStep, UserRuns, serialVars, FsRuns, PdbRuns, FsReady
  <2>2. ScheduleInv'
    BY <1>13 DEF IInv, TypeOK, ScheduleInv, Started, NotifyParker, OpStep, UserRuns, serialVars, FsRuns, PdbRuns, FsReady
  <2>3. HandshakeInv'
    BY <1>13 DEF IInv, TypeOK, ScheduleInv, HandshakeInv, Stage, Started, NotifyParker, OpStep, UserRuns, serialVars, FsRuns, PdbRuns, FsReady
  <2>4. FrameInv'
    BY <1>13 DEF IInv, TypeOK, ScheduleInv, FrameInv, InSubmit, NotifyParker, OpStep, UserRuns, serialVars, FsRuns, PdbRuns, FsReady
  <2> QED
    BY <2>1, <2>2, <2>3, <2>4 DEF IInv
<1>14. ASSUME NEW u \in Users, DisableXip(u) PROVE IInv'
  <2>1. TypeOK'
    BY <1>14 DEF IInv, TypeOK, OpPC, DisableXip, OpStep, UserRuns, serialVars, FsRuns, PdbRuns, FsReady
  <2>2. ScheduleInv'
    BY <1>14 DEF IInv, TypeOK, ScheduleInv, Started, DisableXip, OpStep, UserRuns, serialVars, FsRuns, PdbRuns, FsReady
  <2>3. HandshakeInv'
    BY <1>14 DEF IInv, TypeOK, ScheduleInv, HandshakeInv, Stage, Started, DisableXip, OpStep, UserRuns, serialVars, FsRuns, PdbRuns, FsReady
  <2>4. FrameInv'
    BY <1>14 DEF IInv, TypeOK, ScheduleInv, FrameInv, InSubmit, DisableXip, OpStep, UserRuns, serialVars, FsRuns, PdbRuns, FsReady
  <2> QED
    BY <2>1, <2>2, <2>3, <2>4 DEF IInv
<1>15. ASSUME NEW u \in Users, EnableXip(u) PROVE IInv'
  <2>1. TypeOK'
    BY <1>15 DEF IInv, TypeOK, OpPC, EnableXip, OpStep, UserRuns, serialVars, FsRuns, PdbRuns, FsReady
  <2>2. ScheduleInv'
    BY <1>15 DEF IInv, TypeOK, ScheduleInv, Started, EnableXip, OpStep, UserRuns, serialVars, FsRuns, PdbRuns, FsReady
  <2>3. HandshakeInv'
    BY <1>15 DEF IInv, TypeOK, ScheduleInv, HandshakeInv, Stage, Started, EnableXip, OpStep, UserRuns, serialVars, FsRuns, PdbRuns, FsReady
  <2>4. FrameInv'
    BY <1>15 DEF IInv, TypeOK, ScheduleInv, FrameInv, InSubmit, EnableXip, OpStep, UserRuns, serialVars, FsRuns, PdbRuns, FsReady
  <2> QED
    BY <2>1, <2>2, <2>3, <2>4 DEF IInv
<1>16. ASSUME NEW u \in Users, ClearRequest(u) PROVE IInv'
  <2>1. TypeOK'
    BY <1>16 DEF IInv, TypeOK, OpPC, ClearRequest, OpStep, UserRuns, serialVars, FsRuns, PdbRuns, FsReady
  <2>2. ScheduleInv'
    BY <1>16 DEF IInv, TypeOK, ScheduleInv, Started, ClearRequest, OpStep, UserRuns, serialVars, FsRuns, PdbRuns, FsReady
  <2>3. HandshakeInv'
    BY <1>16 DEF IInv, TypeOK, ScheduleInv, HandshakeInv, Stage, Started, ClearRequest, OpStep, UserRuns, serialVars, FsRuns, PdbRuns, FsReady
  <2>4. FrameInv'
    BY <1>16 DEF IInv, TypeOK, ScheduleInv, FrameInv, InSubmit, ClearRequest, OpStep, UserRuns, serialVars, FsRuns, PdbRuns, FsReady
  <2> QED
    BY <2>1, <2>2, <2>3, <2>4 DEF IInv
<1>17. ASSUME NEW u \in Users, Released(u) PROVE IInv'
  <2>1. TypeOK'
    BY <1>17 DEF IInv, TypeOK, OpPC, Released, OpStep, UserRuns, serialVars, FsRuns, PdbRuns, FsReady
  <2>2. ScheduleInv'
    BY <1>17 DEF IInv, TypeOK, ScheduleInv, Started, Released, OpStep, UserRuns, serialVars, FsRuns, PdbRuns, FsReady
  <2>3. HandshakeInv'
    BY <1>17 DEF IInv, TypeOK, ScheduleInv, HandshakeInv, Stage, Started, Released, OpStep, UserRuns, serialVars, FsRuns, PdbRuns, FsReady
  <2>4. FrameInv'
    BY <1>17 DEF IInv, TypeOK, ScheduleInv, FrameInv, InSubmit, Released, OpStep, UserRuns, serialVars, FsRuns, PdbRuns, FsReady
  <2> QED
    BY <2>1, <2>2, <2>3, <2>4 DEF IInv
<1>18. ASSUME ParkerTakes PROVE IInv'
  <2>1. TypeOK'
    BY <1>18 DEF IInv, TypeOK, OpPC, ParkerTakes, serialVars
  <2>2. ScheduleInv'
    BY <1>18 DEF IInv, TypeOK, ScheduleInv, Started, ParkerTakes, serialVars
  <2>3. HandshakeInv'
    BY <1>18 DEF IInv, TypeOK, ScheduleInv, HandshakeInv, Stage, Started, ParkerTakes, serialVars
  <2>4. FrameInv'
    BY <1>18 DEF IInv, TypeOK, ScheduleInv, FrameInv, InSubmit, ParkerTakes, serialVars
  <2> QED
    BY <2>1, <2>2, <2>3, <2>4 DEF IInv
<1>19. ASSUME ParkerParks PROVE IInv'
  <2>1. TypeOK'
    BY <1>19 DEF IInv, TypeOK, OpPC, ParkerParks, serialVars
  <2>2. ScheduleInv'
    BY <1>19 DEF IInv, TypeOK, ScheduleInv, Started, ParkerParks, serialVars
  <2>3. HandshakeInv'
    BY <1>19 DEF IInv, TypeOK, ScheduleInv, HandshakeInv, Stage, Started, ParkerParks, serialVars
  <2>4. FrameInv'
    BY <1>19 DEF IInv, TypeOK, ScheduleInv, FrameInv, InSubmit, ParkerParks, serialVars
  <2> QED
    BY <2>1, <2>2, <2>3, <2>4 DEF IInv
<1>20. ASSUME ParkerSees PROVE IInv'
  <2>1. TypeOK'
    BY <1>20 DEF IInv, TypeOK, OpPC, ParkerSees, serialVars
  <2>2. ScheduleInv'
    BY <1>20 DEF IInv, TypeOK, ScheduleInv, Started, ParkerSees, serialVars
  <2>3. HandshakeInv'
    BY <1>20 DEF IInv, TypeOK, ScheduleInv, HandshakeInv, Stage, Started, ParkerSees, serialVars
  <2>4. FrameInv'
    BY <1>20 DEF IInv, TypeOK, ScheduleInv, FrameInv, InSubmit, ParkerSees, serialVars
  <2> QED
    BY <2>1, <2>2, <2>3, <2>4 DEF IInv
<1>21. ASSUME ParkerLeaves PROVE IInv'
  <2>1. TypeOK'
    BY <1>21 DEF IInv, TypeOK, OpPC, ParkerLeaves, serialVars
  <2>2. ScheduleInv'
    BY <1>21 DEF IInv, TypeOK, ScheduleInv, Started, ParkerLeaves, serialVars
  <2>3. HandshakeInv'
    BY <1>21 DEF IInv, TypeOK, ScheduleInv, HandshakeInv, Stage, Started, ParkerLeaves, serialVars
  <2>4. FrameInv'
    BY <1>21 DEF IInv, TypeOK, ScheduleInv, FrameInv, InSubmit, ParkerLeaves, serialVars
  <2> QED
    BY <2>1, <2>2, <2>3, <2>4 DEF IInv
<1>22. ASSUME UNCHANGED vars PROVE IInv'
  BY <1>22 DEF IInv, TypeOK, ScheduleInv, HandshakeInv, FrameInv, Stage, Started, InSubmit, vars
<1> QED
  BY <1>1, <1>2, <1>3, <1>4, <1>5, <1>6, <1>7, <1>8, <1>9, <1>10, <1>11, <1>12, <1>13, <1>14, <1>15, <1>16, <1>17, <1>18, <1>19, <1>20, <1>21, <1>22
     DEF Next, SubmitterStep, WorkerStep, OpSteps, ParkerStep

LEMMA Invariant == Spec => []IInv
BY InitInv, NextInv, PTL DEF Spec

\* Every variable keeps the shape its source type has, in every run.
THEOREM FlashTypeCorrect == Spec => []TypeOK
<1>1. IInv => TypeOK
  BY DEF IInv
<1> QED
  BY Invariant, <1>1, PTL

\* Core 1 spins in RAM, interrupts masked, whenever XIP is off, whatever the
\* number of tasks that submit and however their steps interleave.
THEOREM XipOffParked == Spec => []XipOffMeansParked
<1>1. IInv => XipOffMeansParked
  BY DEF IInv, HandshakeInv, XipOffMeansParked, TypeOK
<1> QED
  BY Invariant, <1>1, PTL

\* Priorities and the shared core keep the two flash tasks apart.
THEOREM SingleFlashOp == Spec => []OneFlashOp
<1>1. IInv => OneFlashOp
  BY Tasks DEF IInv, ScheduleInv, OneFlashOp, Started
<1> QED
  BY Invariant, <1>1, PTL

\* Code in flash never meets an operation on it, and neither does another.
THEOREM FlashIsAlone == Spec => []FlashAlone
<1>1. TypeOK /\ XipOffMeansParked /\ OneFlashOp => FlashAlone
  BY DEF FlashAlone
<1> QED
  BY <1>1, FlashTypeCorrect, XipOffParked, SingleFlashOp, PTL

\* The worker never touches the stack frame of a submit that has returned.
THEOREM LiveFrames == Spec => []FramesLive
<1>1. IInv => FramesLive
  BY DEF IInv, FrameInv, FramesLive
<1> QED
  BY Invariant, <1>1, PTL

-----------------------------------------------------------------------------
callBar == [s \in Submitters |-> IF ~InSubmit(s) THEN "out"
                                 ELSE IF done[s] THEN "served" ELSE "called"]

LEMMA ServiceInit == Init => Service!Init
<1> SUFFICES ASSUME Init PROVE callBar = [s \in Submitters |-> "out"]
  BY DEF Service!Init, callBar
<1>1. \A s \in Submitters : ~InSubmit(s)
  BY Tasks DEF Init, InSubmit
<1> QED
  BY <1>1 DEF callBar

LEMMA ServiceNext == IInv /\ [Next]_vars => [Service!Next]_callBar
<1> SUFFICES ASSUME IInv, [Next]_vars PROVE Service!Next \/ callBar' = callBar
  OBVIOUS
<1> USE Tasks
<1>1. ASSUME NEW s \in Submitters, Submit(s) PROVE Service!Submit(s)
  BY <1>1 DEF IInv, TypeOK, FrameInv, Submit, InSubmit, Service!Submit
<1>2. ASSUME NEW s \in Submitters, CheckDone(s) PROVE Service!Return(s) \/ callBar' = callBar
  BY <1>2 DEF IInv, TypeOK, CheckDone, InSubmit, Service!Return, callBar
<1>3. ASSUME NEW s \in Submitters, WaitNotification(s) PROVE callBar' = callBar
  BY <1>3 DEF IInv, TypeOK, WaitNotification, InSubmit, callBar
<1>4. ASSUME NEW s \in Submitters, s = work, RunEnds PROVE Service!Serve(s)
  BY <1>4 DEF IInv, TypeOK, FrameInv, RunEnds, InSubmit, Service!Serve
<1>5. ASSUME UNCHANGED <<done>>, \A s \in Submitters : pc'[s] = pc[s] PROVE callBar' = callBar
  BY <1>5 DEF InSubmit, callBar
<1>6. ASSUME Receive \/ Stall \/ Resume \/ NotifyWaiter PROVE callBar' = callBar
  BY <1>5, <1>6 DEF IInv, TypeOK, Receive, Stall, Resume, NotifyWaiter
<1>7. ASSUME FlashOp \/ InstallOp PROVE callBar' = callBar
  BY <1>5, <1>7 DEF FlashOp, InstallOp
<1>8. ASSUME (\E u \in Users : OpSteps(u)) \/ ParkerStep \/ UNCHANGED vars PROVE callBar' = callBar
  BY <1>5, <1>8
     DEF OpSteps, RequestPark, NotifyParker, DisableXip, EnableXip, ClearRequest, Released,
         ParkerStep, ParkerTakes, ParkerParks, ParkerSees, ParkerLeaves, serialVars, vars
<1>9. ASSUME NEW s \in Submitters, Stray(s) PROVE callBar' = callBar
  BY <1>5, <1>9 DEF Stray
<1>10. work \in Submitters \/ ~RunEnds
  BY DEF IInv, FrameInv, RunEnds
<1>11. CASE \E s \in Submitters : SubmitterStep(s) \/ Stray(s)
  BY <1>1, <1>2, <1>3, <1>9, <1>11, Zenon DEF SubmitterStep, Service!Next
<1>12. CASE WorkerStep
  <2>1. CASE RunEnds
    <3>1. PICK s \in Submitters : s = work
      BY <1>10, <2>1
    <3>2. Service!Serve(s)
      BY <1>4, <2>1, <3>1
    <3> QED
      BY <3>2, Zenon DEF Service!Next
  <2> QED
    BY <1>6, <1>7, <1>12, <2>1, Zenon DEF WorkerStep
<1>13. CASE InstallOp \/ ParkerStep \/ (\E u \in Users : OpSteps(u)) \/ UNCHANGED vars
  BY <1>7, <1>8, <1>13
<1> QED
  BY <1>11, <1>12, <1>13 DEF Next

\* submit is the service SerialService describes: a call returns after its own
\* closure has run, exactly once, whatever notifies its task meanwhile.
THEOREM ImplementsService == Spec => ServiceSpec
<1>1. Init => Service!Init
  BY ServiceInit
<1>2. IInv /\ [Next]_vars => [Service!Next]_callBar
  BY ServiceNext
<1> QED
  BY <1>1, <1>2, Invariant, PTL DEF Spec, ServiceSpec, Service!Spec, callBar
=============================================================================
