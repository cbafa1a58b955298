------------------------- MODULE MonitorStoreProofs -------------------------
(***************************************************************************)
(* Proofs about MonitorStore, for any number of threads and objects: the   *)
(* table and the kernel's mutexes agree, a thread that is gone holds       *)
(* nothing, and, where no spawn fails, synchronized scopes exclude one     *)
(* another.  Background workers are left out: they outlive the table.      *)
(***************************************************************************)
EXTENDS MonitorStore, FiniteSetTheorems, SequenceTheorems, TLAPS

\* One task interprets, and it is the one that has the run lock.
JavaInv == \A t \in Tasks : pc[t] = "run" <=> java = t

\* A key without an entry has nothing recorded.
AbsentInv == \A k \in Keys : ~MONITORS[k].present => MONITORS[k] = Absent

\* A task that is out of the interpreter, or on its way, is in no scope.
OutInv == \A t \in Tasks : pc[t] \in {"off", "leaving"} => frames[t] = <<>>

\* How far the supervisor has come with a stop.
PhaseInv ==
    /\ phase # "app" => pc[Main] = "off"
    /\ phase \in {"abort", "drain"} => STOP_JVM \/ Active = {}
    /\ phase = "boot" => \A t \in Tasks : pc[t] = "off"

IInv == TableTrue /\ JavaInv /\ AbsentInv /\ OutInv /\ PhaseInv /\ LeavesClean

\* What the theorems assume: the tasks are the UI task and its threads.
NoWorkers == Workers = {}

-----------------------------------------------------------------------------
(* Counting the scopes of a task. *)

LEMMA HoldsType ==
    ASSUME NEW s \in Seq(Keys), NEW k
    PROVE  /\ Holds(s, k) \in Nat
           /\ IsFiniteSet({i \in DOMAIN s : s[i] = k})
<1>1. DOMAIN s = 1..Len(s) /\ Len(s) \in Nat
  OBVIOUS
<1>2. IsFiniteSet(DOMAIN s)
  BY <1>1, FS_Interval
<1>3. IsFiniteSet({i \in DOMAIN s : s[i] = k})
  BY <1>2, FS_Subset
<1> QED
  BY <1>3, FS_CardinalityType DEF Holds

LEMMA HoldsNothing == \A k : Holds(<<>>, k) = 0
<1> SUFFICES ASSUME NEW k PROVE Holds(<<>>, k) = 0
  OBVIOUS
<1>1. {i \in DOMAIN <<>> : <<>>[i] = k} = {}
  OBVIOUS
<1> QED
  BY <1>1, FS_EmptySet DEF Holds

LEMMA HoldsAppend ==
    ASSUME NEW s \in Seq(Keys), NEW x \in Keys, NEW k
    PROVE  Holds(Append(s, x), k) = Holds(s, k) + IF x = k THEN 1 ELSE 0
<1> DEFINE S == {i \in DOMAIN s : s[i] = k}
           T == {i \in DOMAIN Append(s, x) : Append(s, x)[i] = k}
<1>1. /\ Append(s, x) \in Seq(Keys) /\ Len(s) \in Nat
      /\ DOMAIN Append(s, x) = 1..Len(s) + 1 /\ DOMAIN s = 1..Len(s)
      /\ \A i \in 1..Len(s) : Append(s, x)[i] = s[i]
      /\ Append(s, x)[Len(s) + 1] = x
  BY AppendProperties
<1>2. T = IF x = k THEN S \cup {Len(s) + 1} ELSE S
  BY <1>1
<1>3. Len(s) + 1 \notin S
  BY <1>1
<1>4. IsFiniteSet(S) /\ Cardinality(S) \in Nat
  BY HoldsType, FS_CardinalityType
<1>5. Cardinality(S \cup {Len(s) + 1}) = Cardinality(S) + 1
  BY <1>3, <1>4, FS_AddElement
<1>6. Holds(s, k) = Cardinality(S) /\ Holds(Append(s, x), k) = Cardinality(T)
  BY DEF Holds
<1> HIDE DEF S, T
<1> QED
  BY <1>2, <1>4, <1>5, <1>6

LEMMA HoldsFront ==
    ASSUME NEW s \in Seq(Keys), s # <<>>, NEW k
    PROVE  /\ SubSeq(s, 1, Len(s) - 1) \in Seq(Keys)
           /\ s[Len(s)] \in Keys
           /\ Holds(s, k) = Holds(SubSeq(s, 1, Len(s) - 1), k)
                              + IF s[Len(s)] = k THEN 1 ELSE 0
<1> DEFINE front == SubSeq(s, 1, Len(s) - 1)
<1>1. front \in Seq(Keys) /\ s[Len(s)] \in Keys /\ s = Append(front, s[Len(s)])
  OBVIOUS
<1>2. Holds(Append(front, s[Len(s)]), k) = Holds(front, k) + IF s[Len(s)] = k THEN 1 ELSE 0
  BY <1>1, HoldsAppend
<1> HIDE DEF front
<1>3. Holds(s, k) = Holds(front, k) + IF s[Len(s)] = k THEN 1 ELSE 0
  BY <1>1, <1>2
<1> QED
  BY <1>1, <1>3 DEF front

-----------------------------------------------------------------------------
(* The table, action by action. *)

LEMMA TaskFacts ==
    ASSUME NoWorkers
    PROVE  /\ Tasks = {Main} \cup Children /\ Main \notin Children /\ NoTask \notin Tasks
           /\ Main \in Tasks /\ \A c \in Children : c \in Tasks
BY TasksAssumption DEF NoWorkers, Tasks

LEMMA TaskKinds ==
    /\ Main \in Tasks /\ Children \subseteq Tasks /\ Workers \subseteq Tasks
    /\ Main \notin Children /\ Main \notin Workers /\ Children \cap Workers = {}
BY TasksAssumption DEF Tasks

LEMMA InitInv == ASSUME NoWorkers PROVE Init => IInv
<1> SUFFICES ASSUME Init PROVE IInv
  OBVIOUS
<1> USE TaskFacts
<1>1. TypeOK
  <2>1. (CHOOSE k \in Keys : TRUE) \in Keys
    BY KeysAssumption
  <2>2. want \in [Tasks -> Keys]
    BY <2>1 DEF Init
  <2>3. frames \in [Tasks -> Seq(Keys)] /\ need \in [Tasks -> Nat] /\ pc \in [Tasks -> PC]
    BY DEF Init, PC
  <2>4. /\ MONITORS \in [Keys -> [owner : Tasks \cup {NoTask}, depth : Nat, present : BOOLEAN]]
        /\ mutex \in [Keys -> [owner : Tasks \cup {NoTask}, count : Nat]]
    BY DEF Init, Absent, Free
  <2> QED
    BY <2>2, <2>3, <2>4 DEF Init, TypeOK, Phase
<1>2. TableMatchesKernel /\ HandleValid
  BY DEF Init, TableMatchesKernel, HandleValid, Absent
<1>3. JavaInv /\ AbsentInv /\ OutInv /\ PhaseInv
  BY DEF Init, JavaInv, AbsentInv, OutInv, PhaseInv, Absent
<1>4. LeavesClean
  BY DEF Init, LeavesClean, GoneHoldNothing, AbortMeansStop, Absent
<1> QED
  BY <1>1, <1>2, <1>3, <1>4 DEF IInv, TableTrue

TableType ==
    /\ MONITORS \in [Keys -> [owner : Tasks \cup {NoTask}, depth : Nat, present : BOOLEAN]]
    /\ mutex \in [Keys -> [owner : Tasks \cup {NoTask}, count : Nat]]

\* The two ways in which an entry agrees with its mutex: as recorded, or one
\* level ahead while a task has the mutex and has not recorded it.
Quiet(k) == /\ \A t \in Tasks : ~InFlight(t, k)
            /\ mutex[k].owner = MONITORS[k].owner
            /\ mutex[k].count = MONITORS[k].depth
Ahead(t, k) == /\ \A u \in Tasks : InFlight(u, k) <=> u = t
               /\ mutex[k].owner = t /\ MONITORS[k].owner \in {t, NoTask}
               /\ mutex[k].count = MONITORS[k].depth + 1
Agrees(k) == /\ MONITORS[k].owner = NoTask <=> MONITORS[k].depth = 0
             /\ Quiet(k) \/ \E t \in Tasks : Ahead(t, k)

\* Nothing about who has locked what without recording it has changed.
SameInFlight == \A u \in Tasks, j \in Keys : InFlight(u, j)' <=> InFlight(u, j)

LEMMA AgreesIfMatches ==
    ASSUME NoWorkers, TypeOK, TableMatchesKernel, NEW k \in Keys, MONITORS[k].present
    PROVE  Agrees(k)
<1> USE TaskFacts
<1>0. /\ MONITORS[k].owner \in Tasks \cup {NoTask} /\ MONITORS[k].depth \in Nat
      /\ mutex[k].owner \in Tasks \cup {NoTask} /\ mutex[k].count \in Nat
  BY DEF TypeOK
<1>1. CASE \A t \in Tasks : ~InFlight(t, k)
  BY <1>0, <1>1 DEF TableMatchesKernel, Agrees, Quiet
<1>2. ASSUME NEW t \in Tasks, InFlight(t, k) PROVE Agrees(k)
  BY <1>0, <1>2 DEF TableMatchesKernel, Agrees, Ahead
<1> QED
  BY <1>1, <1>2

LEMMA MatchesIfAgrees ==
    ASSUME NoWorkers, TypeOK', \A k \in Keys : MONITORS'[k].present => Agrees(k)'
    PROVE  TableMatchesKernel'
<1> USE TaskFacts
<1> SUFFICES ASSUME NEW k \in Keys, MONITORS'[k].present
             PROVE  /\ MONITORS'[k].owner = NoTask <=> MONITORS'[k].depth = 0
                    /\ mutex'[k].count = MONITORS'[k].depth
                         + IF \E t \in Tasks : InFlight(t, k)' THEN 1 ELSE 0
                    /\ mutex'[k].owner = NoTask <=> mutex'[k].count = 0
                    /\ MONITORS'[k].depth > 0 => mutex'[k].owner = MONITORS'[k].owner
                    /\ \A t \in Tasks : InFlight(t, k)' => mutex'[k].owner = t
  BY DEF TableMatchesKernel
<1>0. /\ MONITORS'[k].owner \in Tasks \cup {NoTask} /\ MONITORS'[k].depth \in Nat
      /\ mutex'[k].owner \in Tasks \cup {NoTask} /\ mutex'[k].count \in Nat
  BY DEF TypeOK
<1>1. CASE Quiet(k)'
  BY <1>0, <1>1 DEF Agrees, Quiet
<1>2. ASSUME NEW t \in Tasks, Ahead(t, k)' PROVE mutex'[k].owner = t /\ InFlight(t, k)'
  BY <1>2 DEF Ahead
<1>3. ASSUME NEW t \in Tasks, Ahead(t, k)'
      PROVE  /\ MONITORS'[k].owner = NoTask <=> MONITORS'[k].depth = 0
             /\ mutex'[k].count = MONITORS'[k].depth
                  + IF \E u \in Tasks : InFlight(u, k)' THEN 1 ELSE 0
             /\ mutex'[k].owner = NoTask <=> mutex'[k].count = 0
             /\ MONITORS'[k].depth > 0 => mutex'[k].owner = MONITORS'[k].owner
             /\ \A u \in Tasks : InFlight(u, k)' => mutex'[k].owner = u
  BY <1>0, <1>2, <1>3 DEF Agrees, Ahead
<1> QED
  BY <1>1, <1>3 DEF Agrees

\* What a task that has recorded all it has locked holds.
LEMMA HeldIsQuiet ==
    ASSUME NoWorkers, TypeOK, TableMatchesKernel, AbsentInv,
           NEW t \in Tasks, pc[t] # "retake", NEW k \in Keys
    PROVE  /\ HeldBy(t, k) => MONITORS[k].present /\ Quiet(k)
           /\ MONITORS[k].present /\ mutex[k].owner = t => HeldBy(t, k)
<1> USE TaskFacts
<1>1. HeldBy(t, k) => MONITORS[k].present
  BY DEF HeldBy, AbsentInv, Absent
<1>2. ASSUME MONITORS[k].present, NEW u \in Tasks, Ahead(u, k)
      PROVE  mutex[k].owner # t /\ MONITORS[k].owner # t
  BY <1>2 DEF Ahead, InFlight
<1>3. ASSUME MONITORS[k].present, Quiet(k), mutex[k].owner = t PROVE HeldBy(t, k)
  <2>1. MONITORS[k].depth \in Nat /\ MONITORS[k].owner = t /\ t # NoTask
    BY <1>3 DEF TypeOK, Quiet
  <2>2. MONITORS[k].depth # 0
    BY <1>3, <2>1, AgreesIfMatches DEF Agrees
  <2> QED
    BY <2>1, <2>2 DEF HeldBy
<1> QED
  BY <1>1, <1>2, <1>3, AgreesIfMatches DEF Agrees, HeldBy

LEMMA TableKept ==
    ASSUME TableMatchesKernel, SameInFlight, UNCHANGED <<MONITORS, mutex>>
    PROVE  TableMatchesKernel'
BY DEF TableMatchesKernel, SameInFlight

LEMMA CreateKeeps ==
    ASSUME NoWorkers, TypeOK, TableMatchesKernel, HandleValid, AbsentInv,
           NEW k \in Keys, FindOrCreate(k), SameInFlight
    PROVE  /\ TableType' /\ AbsentInv' /\ (TypeOK' => TableMatchesKernel')
           /\ MONITORS'[k].present
           /\ \A j \in Keys : MONITORS[j].present => MONITORS'[j] = MONITORS[j] /\ mutex'[j] = mutex[j]
           /\ \A j \in Keys : /\ MONITORS'[j].present => MONITORS[j].present \/ mutex'[j] = Free
                              /\ \A u \in Tasks : HeldBy(u, j)' <=> HeldBy(u, j)
<1> USE TaskFacts
<1>1. CASE MONITORS[k].present
  <2>1. UNCHANGED <<MONITORS, mutex>>
    BY <1>1 DEF FindOrCreate
  <2>2. TypeOK' => TableMatchesKernel'
    BY <2>1, TableKept
  <2> QED
    BY <1>1, <2>1, <2>2 DEF TypeOK, TableType, AbsentInv, HeldBy
<1>2. CASE ~MONITORS[k].present
  <2>1. /\ MONITORS' = [MONITORS EXCEPT ![k] = Entry(NoTask, 0)]
        /\ mutex' = [mutex EXCEPT ![k] = Free]
    BY <1>2 DEF FindOrCreate
  <2>2. /\ MONITORS'[k] = Entry(NoTask, 0) /\ mutex'[k] = Free
        /\ \A j \in Keys \ {k} : MONITORS'[j] = MONITORS[j] /\ mutex'[j] = mutex[j]
    BY <2>1 DEF TypeOK
  <2>3. TableType'
    BY <2>1 DEF TypeOK, TableType, Entry, Free
  <2>4. \A u \in Tasks : ~InFlight(u, k)
    BY <1>2 DEF HandleValid, InFlight
  <2>5. Agrees(k)'
    BY <2>2, <2>4 DEF Agrees, Quiet, SameInFlight, Entry, Free
  <2>6. ASSUME NEW j \in Keys \ {k}, MONITORS'[j].present PROVE Agrees(j)'
    BY <2>2, <2>6, AgreesIfMatches DEF Agrees, Quiet, Ahead, SameInFlight
  <2>7. TypeOK' => TableMatchesKernel'
    BY <2>5, <2>6, MatchesIfAgrees
  <2>8. MONITORS[k].depth = 0 /\ MONITORS'[k].depth = 0 /\ MONITORS'[k].present
    BY <1>2, <2>2 DEF AbsentInv, Entry, Absent
  <2>9. \A j \in Keys : \A u \in Tasks : HeldBy(u, j)' <=> HeldBy(u, j)
    BY <2>2, <2>8 DEF HeldBy
  <2>10. AbsentInv'
    BY <2>2, <2>8 DEF AbsentInv
  <2> QED
    BY <1>2, <2>2, <2>3, <2>7, <2>8, <2>9, <2>10
<1> QED
  BY <1>1, <1>2

LEMMA ReleaseKeeps ==
    ASSUME NoWorkers, TypeOK, TableMatchesKernel, AbsentInv,
           NEW t \in Tasks, pc[t] # "retake", ReleaseAll(t), SameInFlight
    PROVE  /\ TableType' /\ AbsentInv' /\ (TypeOK' => TableMatchesKernel')
           /\ \A j \in Keys :
                 /\ MONITORS'[j].present = MONITORS[j].present
                 /\ MONITORS'[j].present => mutex'[j].owner # t
                 /\ \A u \in Tasks : /\ mutex'[j].owner = u => mutex[j].owner = u
                                     /\ u # t => (HeldBy(u, j)' <=> HeldBy(u, j))
                                     /\ MONITORS'[j].depth = MONITORS[j].depth \/ HeldBy(t, j)
<1> USE TaskFacts
<1>1. ASSUME NEW j \in Keys, HeldBy(t, j)
      PROVE  /\ MONITORS'[j] = Entry(NoTask, 0) /\ mutex'[j] = Free
             /\ MONITORS[j].present /\ Quiet(j) /\ MONITORS[j].owner = t
  <2>1. MONITORS[j].present /\ Quiet(j) /\ MONITORS[j].owner = t
    BY <1>1, HeldIsQuiet DEF HeldBy
  <2>2. Unlocks(t, mutex[j], MONITORS[j].depth) = Free
    BY <2>1 DEF Quiet, Unlocks
  <2> QED
    BY <1>1, <2>1, <2>2 DEF ReleaseAll
<1>2. ASSUME NEW j \in Keys, ~HeldBy(t, j)
      PROVE  MONITORS'[j] = MONITORS[j] /\ mutex'[j] = mutex[j]
  BY <1>2 DEF ReleaseAll
<1>3. /\ DOMAIN MONITORS' = Keys /\ DOMAIN mutex' = Keys
      /\ MONITORS' = [k \in Keys |-> MONITORS'[k]] /\ mutex' = [k \in Keys |-> mutex'[k]]
  BY DEF ReleaseAll
<1>4. ASSUME NEW j \in Keys
      PROVE  /\ MONITORS'[j] \in [owner : Tasks \cup {NoTask}, depth : Nat, present : BOOLEAN]
             /\ mutex'[j] \in [owner : Tasks \cup {NoTask}, count : Nat]
  <2>1. Entry(NoTask, 0) \in [owner : Tasks \cup {NoTask}, depth : Nat, present : BOOLEAN]
    BY DEF Entry
  <2>2. Free \in [owner : Tasks \cup {NoTask}, count : Nat]
    BY DEF Free
  <2>3. /\ MONITORS[j] \in [owner : Tasks \cup {NoTask}, depth : Nat, present : BOOLEAN]
        /\ mutex[j] \in [owner : Tasks \cup {NoTask}, count : Nat]
    BY DEF TypeOK
  <2> QED
    BY <1>1, <1>2, <2>1, <2>2, <2>3
<1>5. TableType'
  BY <1>3, <1>4 DEF TableType
<1>6. AbsentInv'
  BY <1>1, <1>2 DEF AbsentInv, Entry
<1>7. ASSUME NEW j \in Keys, MONITORS'[j].present PROVE Agrees(j)'
  <2>1. CASE HeldBy(t, j)
    BY <1>1, <2>1 DEF Agrees, Quiet, SameInFlight, Entry, Free
  <2>2. CASE ~HeldBy(t, j)
    BY <1>2, <1>7, <2>2, AgreesIfMatches DEF Agrees, Quiet, Ahead, SameInFlight
  <2> QED
    BY <2>1, <2>2
<1>8. TypeOK' => TableMatchesKernel'
  BY <1>7, MatchesIfAgrees
<1>9. ASSUME NEW j \in Keys
      PROVE  /\ MONITORS'[j].present = MONITORS[j].present
             /\ MONITORS'[j].present => mutex'[j].owner # t
             /\ \A u \in Tasks : /\ mutex'[j].owner = u => mutex[j].owner = u
                                 /\ u # t => (HeldBy(u, j)' <=> HeldBy(u, j))
                                 /\ MONITORS'[j].depth = MONITORS[j].depth \/ HeldBy(t, j)
  <2>1. CASE HeldBy(t, j)
    <3>1. /\ MONITORS'[j].present /\ MONITORS'[j].depth = 0
          /\ mutex'[j].owner = NoTask /\ MONITORS[j].owner = t
          /\ MONITORS[j].present = TRUE
      BY <1>1, <2>1 DEF Entry, Free, TypeOK
    <3>2. \A u \in Tasks : u # t => ~HeldBy(u, j) /\ ~HeldBy(u, j)'
      BY <3>1 DEF HeldBy
    <3>3. MONITORS'[j].present = MONITORS[j].present
      BY <1>1, <2>1, <3>1 DEF Entry
    <3> QED
      BY <2>1, <3>1, <3>2, <3>3
  <2>2. CASE ~HeldBy(t, j)
    BY <1>2, <2>2, HeldIsQuiet DEF HeldBy
  <2> QED
    BY <2>1, <2>2
<1> QED
  BY <1>5, <1>6, <1>8, <1>9

LEMMA NextInv == ASSUME NoWorkers PROVE IInv /\ [Next]_vars => IInv'
<1> SUFFICES ASSUME IInv, [Next]_vars PROVE IInv'
  OBVIOUS
<1> USE TaskFacts DEF IInv, TableTrue
<1>1. ASSUME NEW t \in Tasks, NEW k \in Keys, Enter(t, k) PROVE IInv'
  <2>0. FindOrCreate(k) /\ k \in Keys
    BY <1>1 DEF TypeOK, Enter
  <2>1. SameInFlight
    BY <1>1 DEF SameInFlight, InFlight, TypeOK, Enter, Interprets, Goto
  <2>2. /\ TableType' /\ AbsentInv' /\ (TypeOK' => TableMatchesKernel')
        /\ MONITORS'[k].present
        /\ \A j \in Keys : /\ MONITORS[j].present => MONITORS'[j] = MONITORS[j] /\ mutex'[j] = mutex[j]
                           /\ MONITORS'[j].present => MONITORS[j].present \/ mutex'[j] = Free
    BY <2>0, <2>1, CreateKeeps
  <2>3. TypeOK'
    BY <1>1, <2>2 DEF TypeOK, TableType, PC, Enter, Interprets, Goto
  <2>4. HandleValid'
    BY <1>1, <2>2 DEF TypeOK, HandleValid, Enter, Interprets, Goto
  <2>5. JavaInv' /\ OutInv' /\ PhaseInv'
    BY <1>1 DEF TypeOK, JavaInv, OutInv, PhaseInv, Active, Enter, Interprets, Goto
  <2>6. LeavesClean'
    <3>1. ASSUME NEW c \in Children, pc'[c] = "off", NEW j \in Keys, MONITORS'[j].present
          PROVE  mutex'[j].owner # c
      <4>1. pc[c] = "off"
        BY <1>1, <3>1 DEF TypeOK, Enter, Interprets, Goto
      <4> QED
        BY <2>2, <3>1, <4>1 DEF LeavesClean, GoneHoldNothing, Free
    <3>2. GoneHoldNothing'
      BY <3>1 DEF GoneHoldNothing, NoWorkers
    <3>3. AbortMeansStop'
      BY <1>1 DEF TypeOK, LeavesClean, AbortMeansStop, PhaseInv, Active, Enter, Interprets, Goto
    <3> QED
      BY <3>2, <3>3 DEF LeavesClean
  <2> QED
    BY <2>2, <2>3, <2>4, <2>5, <2>6
<1>2. ASSUME NEW t \in Tasks, Reacquire(t) PROVE IInv'
  <2>0. FindOrCreate(want[t]) /\ want[t] \in Keys
    BY <1>2 DEF TypeOK, Reacquire
  <2>1. SameInFlight
    BY <1>2 DEF SameInFlight, InFlight, TypeOK, Reacquire, Goto
  <2>2. /\ TableType' /\ AbsentInv' /\ (TypeOK' => TableMatchesKernel')
        /\ MONITORS'[want[t]].present
        /\ \A j \in Keys : /\ MONITORS[j].present => MONITORS'[j] = MONITORS[j] /\ mutex'[j] = mutex[j]
                           /\ MONITORS'[j].present => MONITORS[j].present \/ mutex'[j] = Free
    BY <2>0, <2>1, CreateKeeps
  <2>3. TypeOK'
    BY <1>2, <2>2 DEF TypeOK, TableType, PC, Reacquire, Goto
  <2>4. HandleValid'
    BY <1>2, <2>2 DEF TypeOK, HandleValid, Reacquire, Goto
  <2>5. JavaInv' /\ OutInv' /\ PhaseInv'
    BY <1>2 DEF TypeOK, JavaInv, OutInv, PhaseInv, Active, Reacquire, Goto
  <2>6. LeavesClean'
    <3>1. ASSUME NEW c \in Children, pc'[c] = "off", NEW j \in Keys, MONITORS'[j].present
          PROVE  mutex'[j].owner # c
      <4>1. pc[c] = "off"
        BY <1>2, <3>1 DEF TypeOK, Reacquire, Goto
      <4> QED
        BY <2>2, <3>1, <4>1 DEF LeavesClean, GoneHoldNothing, Free
    <3>2. GoneHoldNothing'
      BY <3>1 DEF GoneHoldNothing, NoWorkers
    <3>3. AbortMeansStop'
      BY <1>2 DEF TypeOK, LeavesClean, AbortMeansStop, PhaseInv, Active, Reacquire, Goto
    <3> QED
      BY <3>2, <3>3 DEF LeavesClean
  <2> QED
    BY <2>2, <2>3, <2>4, <2>5, <2>6
<1>3. ASSUME NEW t \in Tasks, KernelLock(t) PROVE IInv'
  <2> PICK k \in Keys : k = want[t]
    BY DEF TypeOK
  <2>1. /\ k \in Keys /\ MONITORS[k].present /\ pc[t] # "retake"
        /\ mutex[k].owner \in {NoTask, t}
    BY <1>3 DEF TypeOK, HandleValid, KernelLock, Available
  <2>2. Agrees(k)
    BY <2>1, AgreesIfMatches
  <2>3. mutex' = [mutex EXCEPT ![k] = [owner |-> t, count |-> mutex[k].count + 1]]
    BY <1>3 DEF KernelLock
  <2>4. TypeOK'
    BY <1>3, <2>3, SMTT(30) DEF TypeOK, KernelLock, Goto, PC
  <2>5. /\ mutex'[k].owner = t /\ mutex'[k].count = mutex[k].count + 1
        /\ \A j \in Keys \ {k} : mutex'[j] = mutex[j]
        /\ MONITORS' = MONITORS
        /\ InFlight(t, k)' /\ \A u \in Tasks \ {t} : \A j \in Keys : InFlight(u, j)' <=> InFlight(u, j)
        /\ \A j \in Keys \ {k} : ~InFlight(t, j)' /\ ~InFlight(t, j)
    BY <1>3, <2>1, <2>3 DEF TypeOK, KernelLock, Goto, InFlight
  <2>6. Quiet(k) /\ MONITORS[k].owner \in {t, NoTask}
    BY <2>1, <2>2 DEF Agrees, Quiet, Ahead, InFlight
  <2>7. Agrees(k)'
    <3>1. Ahead(t, k)'
      BY <2>5, <2>6 DEF Ahead, Quiet
    <3> QED
      BY <2>2, <2>5, <3>1 DEF Agrees
  <2>8. ASSUME NEW j \in Keys \ {k}, MONITORS'[j].present PROVE Agrees(j)'
    BY <2>5, <2>8, AgreesIfMatches DEF Agrees, Quiet, Ahead
  <2>9. TableMatchesKernel'
    BY <2>4, <2>7, <2>8, MatchesIfAgrees
  <2>10. HandleValid' /\ JavaInv' /\ AbsentInv' /\ OutInv'
    BY <1>3 DEF TypeOK, HandleValid, JavaInv, AbsentInv, OutInv, KernelLock, Goto
  <2>11. PhaseInv'
    BY <1>3 DEF TypeOK, PhaseInv, Active, KernelLock, Goto
  <2>12. LeavesClean'
    BY <1>3, <2>5, SMTT(30) DEF TypeOK, LeavesClean, GoneHoldNothing, AbortMeansStop, KernelLock, Goto
  <2> QED
    BY <2>4, <2>9, <2>10, <2>11, <2>12
<1>4. ASSUME NEW t \in Tasks, KernelBlock(t) PROVE IInv'
  <2>1. TypeOK'
    BY <1>4 DEF TypeOK, PC, Phase, KernelBlock, Goto
  <2>2. SameInFlight
    BY <1>4 DEF SameInFlight, InFlight, TypeOK, JavaInv, KernelBlock, Goto
  <2>3. TableMatchesKernel'
    BY <1>4, <2>2, TableKept DEF KernelBlock
  <2>4. HandleValid' /\ JavaInv' /\ AbsentInv' /\ OutInv'
    BY <1>4 DEF TypeOK, HandleValid, JavaInv, AbsentInv, OutInv, PhaseInv, KernelBlock, Goto
  <2>5. PhaseInv'
    BY <1>4 DEF TypeOK, JavaInv, PhaseInv, Active, KernelBlock, Goto
  <2>6. LeavesClean'
    BY <1>4, SMTT(30) DEF TypeOK, LeavesClean, GoneHoldNothing, AbortMeansStop, JavaInv, PhaseInv, Active, KernelBlock, Goto
  <2> QED
    BY <2>1, <2>3, <2>4, <2>5, <2>6
<1>5. ASSUME NEW t \in Tasks, Record(t) PROVE IInv'
  <2> PICK k \in Keys : k = want[t]
    BY DEF TypeOK
  <2>1. /\ k \in Keys /\ MONITORS[k].present /\ InFlight(t, k) /\ MONITORS[k].depth \in Nat
    BY <1>5 DEF TypeOK, InFlight, Record
  <2>2. Agrees(k) /\ Ahead(t, k)
    BY <2>1, AgreesIfMatches DEF Agrees, Quiet, Ahead
  <2>3. MONITORS' = [MONITORS EXCEPT ![k] = Entry(t, MONITORS[k].depth + 1)] /\ mutex' = mutex
    BY <1>5 DEF Record
  <2>4. frames' \in [Tasks -> Seq(Keys)] /\ need' \in [Tasks -> Nat] /\ pc' \in [Tasks -> PC]
        /\ java' \in Tasks \cup {NoTask}
    <3>1. CASE need[t] = 0
      <4>1. /\ frames' = [frames EXCEPT ![t] = Append(frames[t], k)] /\ UNCHANGED need
            /\ pc' = [pc EXCEPT ![t] = "run"] /\ java' = t
        BY <1>5, <3>1 DEF Record, Recorded, Goto
      <4>2. frames[t] \in Seq(Keys) /\ Append(frames[t], k) \in Seq(Keys)
        BY DEF TypeOK
      <4> QED
        BY <4>1, <4>2 DEF TypeOK, PC
    <3>2. CASE need[t] # 0
      <4>1. /\ need' = [need EXCEPT ![t] = need[t] - 1] /\ UNCHANGED frames
            /\ \/ pc' = [pc EXCEPT ![t] = "run"] /\ java' = t
               \/ pc' = [pc EXCEPT ![t] = "call"] /\ UNCHANGED java
        BY <1>5, <3>2 DEF Record, Recorded, Goto
      <4>2. need[t] - 1 \in Nat
        BY <3>2 DEF TypeOK
      <4> QED
        BY <4>1, <4>2 DEF TypeOK, PC
    <3> QED
      BY <3>1, <3>2
  <2>5. TypeOK'
    <3>1. MONITORS' \in [Keys -> [owner : Tasks \cup {NoTask}, depth : Nat, present : BOOLEAN]]
      BY <2>1, <2>3 DEF TypeOK, Entry
    <3> QED
      BY <1>5, <2>3, <2>4, <3>1 DEF TypeOK, Record
  <2>6. /\ MONITORS'[k].owner = t /\ MONITORS'[k].depth = MONITORS[k].depth + 1
        /\ MONITORS'[k].present
        /\ \A j \in Keys \ {k} : MONITORS'[j] = MONITORS[j]
    BY <2>1, <2>3 DEF TypeOK, Entry
  <2>7. /\ \A u \in Tasks \ {t} : \A j \in Keys : InFlight(u, j)' <=> InFlight(u, j)
        /\ \A j \in Keys : ~InFlight(t, j)'
        /\ \A j \in Keys \ {k} : ~InFlight(t, j)
    BY <1>5, SMTT(30) DEF TypeOK, Record, Recorded, Goto, InFlight
  <2>8. Agrees(k)'
    <3>1. Quiet(k)'
      BY <2>2, <2>3, <2>6, <2>7 DEF Ahead, Quiet
    <3> QED
      BY <2>1, <2>6, <3>1 DEF Agrees
  <2>9. ASSUME NEW j \in Keys \ {k}, MONITORS'[j].present PROVE Agrees(j)'
    BY <2>3, <2>6, <2>7, <2>9, AgreesIfMatches DEF Agrees, Quiet, Ahead
  <2>10. TableMatchesKernel'
    BY <2>5, <2>8, <2>9, MatchesIfAgrees
  <2>11. AbsentInv'
    BY <2>6 DEF AbsentInv
  <2>12. HandleValid' /\ JavaInv' /\ OutInv'
    <3>1. \/ pc' = [pc EXCEPT ![t] = "run"] /\ java' = t
          \/ pc' = [pc EXCEPT ![t] = "call"] /\ UNCHANGED java
      BY <1>5 DEF Record, Recorded, Goto
    <3>2. \A u \in Tasks \ {t} : frames'[u] = frames[u]
      BY <1>5 DEF TypeOK, Record, Recorded
    <3>3. java = NoTask /\ want' = want /\ pc[t] = "retake"
      BY <1>5 DEF Record
    <3>4. HandleValid'
      BY <2>6, <3>1, <3>3 DEF TypeOK, HandleValid
    <3>5. JavaInv'
      BY <3>1, <3>3 DEF TypeOK, JavaInv
    <3>6. OutInv'
      BY <3>1, <3>2 DEF TypeOK, OutInv
    <3> QED
      BY <3>4, <3>5, <3>6
  <2>13. PhaseInv'
    BY <1>5 DEF TypeOK, PhaseInv, Active, Record, Recorded, Goto
  <2>14. LeavesClean'
    <3>1. ASSUME NEW c \in Children, pc'[c] = "off", NEW j \in Keys, MONITORS'[j].present
          PROVE  mutex'[j].owner # c
      <4>1. pc[c] = "off" /\ MONITORS[j].present
        BY <1>5, <2>1, <2>6, <3>1, SMTT(30) DEF TypeOK, Record, Recorded, Goto
      <4> QED
        BY <2>3, <2>6, <3>1, <4>1 DEF LeavesClean, GoneHoldNothing, Free
    <3>2. GoneHoldNothing'
      BY <3>1 DEF GoneHoldNothing, NoWorkers
    <3>3. AbortMeansStop'
      BY <1>5 DEF TypeOK, LeavesClean, AbortMeansStop, PhaseInv, Active, Record, Recorded, Goto
    <3> QED
      BY <3>2, <3>3 DEF LeavesClean
  <2> QED
    BY <2>5, <2>10, <2>11, <2>12, <2>13, <2>14
<1>6. ASSUME NEW t \in Tasks, EnterFails(t) PROVE IInv'
  <2>1. TypeOK'
    BY <1>6 DEF TypeOK, PC, Phase, EnterFails, Goto
  <2>2. SameInFlight
    BY <1>6 DEF SameInFlight, InFlight, TypeOK, JavaInv, EnterFails, Goto
  <2>3. TableMatchesKernel'
    BY <1>6, <2>2, TableKept DEF EnterFails
  <2>4. HandleValid' /\ JavaInv' /\ AbsentInv' /\ OutInv'
    BY <1>6 DEF TypeOK, HandleValid, JavaInv, AbsentInv, OutInv, PhaseInv, EnterFails, Goto
  <2>5. PhaseInv'
    BY <1>6 DEF TypeOK, JavaInv, PhaseInv, Active, EnterFails, Goto
  <2>6. LeavesClean'
    BY <1>6 DEF TypeOK, LeavesClean, GoneHoldNothing, AbortMeansStop, JavaInv, PhaseInv, Active, EnterFails, Goto
  <2> QED
    BY <2>1, <2>3, <2>4, <2>5, <2>6
<1>7. ASSUME NEW t \in Tasks, Exit(t) PROVE IInv'
  <2>0. /\ frames[t] # <<>> /\ frames[t] \in Seq(Keys) /\ pc[t] = "run" /\ java = t
    BY <1>7 DEF TypeOK, Exit, Interprets
  <2> PICK k \in Keys : k = frames[t][Len(frames[t])]
    BY <2>0, HoldsFront
  <2> PICK front \in Seq(Keys) : front = SubSeq(frames[t], 1, Len(frames[t]) - 1)
    BY <2>0, HoldsFront
  <2>1. k \in Keys /\ front \in Seq(Keys) /\ pc[t] = "run" /\ java = t
    BY <2>0
  <2>2. frames' = [frames EXCEPT ![t] = front] /\ UNCHANGED <<java, pc, want, need, STOP_JVM, phase, runs>>
    BY <1>7 DEF Exit
  <2>3. SameInFlight
    BY <2>2 DEF SameInFlight, InFlight
  <2>4. CASE ~HeldBy(t, k)
    <3>1. UNCHANGED <<MONITORS, mutex>>
      BY <1>7, <2>4 DEF Exit
    <3>2. TableMatchesKernel'
      BY <2>3, <3>1, TableKept
    <3>3. TypeOK' /\ HandleValid' /\ JavaInv' /\ AbsentInv' /\ OutInv'
      BY <2>1, <2>2, <3>1 DEF TypeOK, HandleValid, JavaInv, AbsentInv, OutInv
    <3>4. PhaseInv' /\ LeavesClean'
      BY <2>2, <3>1 DEF PhaseInv, Active, LeavesClean, GoneHoldNothing, AbortMeansStop
    <3> QED
      BY <3>2, <3>3, <3>4
  <2>5. CASE HeldBy(t, k)
    <3>0. MONITORS[k].present /\ Quiet(k)
      <4>1. pc[t] # "retake"
        BY <2>1
      <4> QED
        BY <2>1, <2>5, <4>1, HeldIsQuiet
    <3>1. /\ MONITORS[k].present /\ Quiet(k) /\ MONITORS[k].owner = t /\ MONITORS[k].depth \in Nat
          /\ MONITORS[k].depth > 0
      BY <2>1, <2>5, <3>0 DEF HeldBy, TypeOK
    <3>2. /\ MONITORS' = [MONITORS EXCEPT ![k] = IF MONITORS[k].depth = 1 THEN Entry(NoTask, 0)
                                                ELSE Entry(t, MONITORS[k].depth - 1)]
          /\ mutex' = [mutex EXCEPT ![k] = Unlocks(t, mutex[k], 1)]
      BY <1>7, <2>5 DEF Exit
    <3>3. mutex[k] \in [owner : Tasks \cup {NoTask}, count : Nat] /\ mutex[k].owner = t
          /\ mutex[k].count = MONITORS[k].depth
      BY <2>1, <3>1 DEF TypeOK, Quiet
    <3>4. Unlocks(t, mutex[k], 1) = IF MONITORS[k].depth = 1 THEN Free
                                    ELSE [owner |-> t, count |-> MONITORS[k].depth - 1]
      BY <3>3 DEF Unlocks
    <3>5. /\ MONITORS'[k] = IF MONITORS[k].depth = 1 THEN Entry(NoTask, 0)
                            ELSE Entry(t, MONITORS[k].depth - 1)
          /\ mutex'[k] = IF MONITORS[k].depth = 1 THEN Free
                         ELSE [owner |-> t, count |-> MONITORS[k].depth - 1]
          /\ \A j \in Keys \ {k} : MONITORS'[j] = MONITORS[j] /\ mutex'[j] = mutex[j]
      BY <2>1, <3>2, <3>4 DEF TypeOK
    <3>6. /\ MONITORS'[k] \in [owner : Tasks \cup {NoTask}, depth : Nat, present : BOOLEAN]
          /\ mutex'[k] \in [owner : Tasks \cup {NoTask}, count : Nat]
      BY <3>1, <3>5 DEF Entry, Free
    <3>7. TableType'
      BY <2>1, <3>2, <3>5, <3>6 DEF TypeOK, TableType
    <3>8. TypeOK'
      BY <2>1, <2>2, <3>7 DEF TypeOK, TableType
    <3>9. MONITORS'[k].present /\ Agrees(k)'
      BY <3>1, <3>5, <2>3 DEF Agrees, Quiet, SameInFlight, Entry, Free
    <3>10. ASSUME NEW j \in Keys \ {k}, MONITORS'[j].present PROVE Agrees(j)'
      BY <2>3, <3>5, <3>10, AgreesIfMatches DEF Agrees, Quiet, Ahead, SameInFlight
    <3>11. TableMatchesKernel'
      BY <3>8, <3>9, <3>10, MatchesIfAgrees
    <3>12. HandleValid' /\ JavaInv' /\ AbsentInv'
      BY <2>1, <2>2, <3>5, <3>9 DEF HandleValid, JavaInv, AbsentInv, TypeOK
    <3>13. OutInv'
      BY <2>1, <2>2 DEF OutInv, TypeOK
    <3>14. PhaseInv'
      BY <2>2 DEF PhaseInv, Active
    <3>15. mutex'[k].owner \in {t, NoTask}
      BY <3>5 DEF Free
    <3>16. LeavesClean'
      <4>1. ASSUME NEW c \in Children, pc'[c] = "off", NEW j \in Keys, MONITORS'[j].present
            PROVE  mutex'[j].owner # c
        <5>1. pc[c] = "off" /\ c # t /\ c # NoTask
          BY <2>1, <2>2, <4>1
        <5> QED
          BY <3>1, <3>5, <3>15, <4>1, <5>1 DEF LeavesClean, GoneHoldNothing, Free
      <4>2. GoneHoldNothing'
        BY <4>1 DEF GoneHoldNothing, NoWorkers
      <4>3. AbortMeansStop'
        BY <2>2 DEF TypeOK, LeavesClean, AbortMeansStop, PhaseInv
      <4> QED
        BY <4>2, <4>3 DEF LeavesClean
    <3> QED
      BY <3>8, <3>11, <3>12, <3>13, <3>14, <3>16
  <2> QED
    BY <2>4, <2>5
<1>8. ASSUME NEW t \in Tasks, NEW k \in Keys, Wait(t, k) PROVE IInv'
  <2>1. /\ pc[t] = "run" /\ java = t /\ HeldBy(t, k)
        /\ MONITORS[k].depth \in Nat
    BY <1>8 DEF TypeOK, Wait, Interprets
  <2>2. MONITORS[k].present /\ Quiet(k) /\ MONITORS[k].owner = t
    BY <2>1, HeldIsQuiet DEF HeldBy
  <2>3. MONITORS' = [MONITORS EXCEPT ![k] = Entry(NoTask, 0)] /\ mutex' = [mutex EXCEPT ![k] = Free]
    BY <1>8, <2>2 DEF Wait, SaveAndRelease, Unlocks, Quiet
  <2>4. SameInFlight
    BY <1>8 DEF SameInFlight, InFlight, TypeOK, Wait, Interprets, Goto
  <2>5. /\ MONITORS'[k] = Entry(NoTask, 0) /\ mutex'[k] = Free
        /\ \A j \in Keys \ {k} : MONITORS'[j] = MONITORS[j] /\ mutex'[j] = mutex[j]
    BY <2>3 DEF TypeOK
  <2>6. TableType'
    BY <2>3 DEF TypeOK, TableType, Entry, Free
  <2>7. TypeOK'
    BY <1>8, <2>1, <2>6 DEF TypeOK, TableType, Wait, SaveAndRelease, Goto, PC
  <2>8. MONITORS'[k].present /\ Agrees(k)'
    BY <2>2, <2>4, <2>5 DEF Agrees, Quiet, SameInFlight, Entry, Free
  <2>9. ASSUME NEW j \in Keys \ {k}, MONITORS'[j].present PROVE Agrees(j)'
    BY <2>4, <2>5, <2>9, AgreesIfMatches DEF Agrees, Quiet, Ahead, SameInFlight
  <2>10. TableMatchesKernel'
    BY <2>7, <2>8, <2>9, MatchesIfAgrees
  <2>11. HandleValid' /\ JavaInv' /\ AbsentInv' /\ OutInv'
    BY <1>8, <2>5, <2>8 DEF TypeOK, HandleValid, JavaInv, AbsentInv, OutInv, Wait, Interprets, Goto
  <2>12. PhaseInv'
    BY <1>8 DEF TypeOK, JavaInv, PhaseInv, Active, Wait, Interprets, Goto
  <2>13. LeavesClean'
    <3>1. ASSUME NEW c \in Children, pc'[c] = "off", NEW j \in Keys, MONITORS'[j].present
          PROVE  mutex'[j].owner # c
      <4>1. pc[c] = "off" /\ c # NoTask
        BY <1>8, <3>1 DEF TypeOK, Wait, Goto
      <4> QED
        BY <2>2, <2>5, <3>1, <4>1 DEF LeavesClean, GoneHoldNothing, Free
    <3>2. GoneHoldNothing'
      BY <3>1 DEF GoneHoldNothing, NoWorkers
    <3>3. AbortMeansStop'
      BY <1>8 DEF TypeOK, LeavesClean, AbortMeansStop, PhaseInv, Active, Wait, Goto
    <3> QED
      BY <3>2, <3>3 DEF LeavesClean
  <2> QED
    BY <2>7, <2>10, <2>11, <2>12, <2>13
<1>9. ASSUME NEW t \in Tasks, Wake(t) PROVE IInv'
  <2>1. TypeOK'
    BY <1>9 DEF TypeOK, PC, Phase, Wake, Goto
  <2>2. SameInFlight
    BY <1>9 DEF SameInFlight, InFlight, TypeOK, JavaInv, Wake, Goto
  <2>3. TableMatchesKernel'
    BY <1>9, <2>2, TableKept DEF Wake
  <2>4. HandleValid' /\ JavaInv' /\ AbsentInv' /\ OutInv'
    BY <1>9 DEF TypeOK, HandleValid, JavaInv, AbsentInv, OutInv, PhaseInv, Wake, Goto
  <2>5. PhaseInv'
    BY <1>9 DEF TypeOK, JavaInv, PhaseInv, Active, Wake, Goto
  <2>6. LeavesClean'
    BY <1>9, SMTT(30) DEF TypeOK, LeavesClean, GoneHoldNothing, AbortMeansStop, JavaInv, PhaseInv, Active, Wake, Goto
  <2> QED
    BY <2>1, <2>3, <2>4, <2>5, <2>6
<1>10. ASSUME NEW t \in Tasks, Collect(t) PROVE IInv'
  <2>1. PICK dead \in SUBSET {k \in Keys : ~Rooted(k)} : PruneDead(dead)
    BY <1>10 DEF Collect
  <2>2. ASSUME NEW j \in Keys
        PROVE  /\ MONITORS'[j] = IF MONITORS[j].depth = 0 /\ j \in dead THEN Absent ELSE MONITORS[j]
               /\ mutex' = mutex
    BY <1>10, <2>1 DEF PruneDead, Collect
  <2>3. TypeOK'
    BY <1>10, <2>1 DEF TypeOK, Collect, PruneDead, Absent
  <2>4. SameInFlight
    BY <1>10 DEF SameInFlight, InFlight, Collect
  <2>5. ASSUME NEW j \in Keys, MONITORS'[j].present PROVE Agrees(j)'
    <3>1. MONITORS'[j] = MONITORS[j] /\ mutex' = mutex
      BY <2>2, <2>5 DEF Absent
    <3> QED
      BY <2>4, <2>5, <3>1, AgreesIfMatches DEF Agrees, Quiet, Ahead, SameInFlight
  <2>6. TableMatchesKernel'
    BY <2>3, <2>5, MatchesIfAgrees
  <2>7. ASSUME NEW u \in Tasks, pc[u] \in {"call", "blocked", "retake"} PROVE MONITORS'[want[u]].present
    <3>1. want[u] \in Keys /\ MONITORS[want[u]].present /\ Rooted(want[u])
      BY <2>7 DEF TypeOK, HandleValid, Rooted, Entering
    <3> QED
      BY <2>2, <3>1
  <2>8. HandleValid' /\ JavaInv' /\ OutInv'
    BY <1>10, <2>7 DEF HandleValid, JavaInv, OutInv, Collect
  <2>9. AbsentInv'
    BY <2>2 DEF AbsentInv
  <2>10. PhaseInv'
    BY <1>10 DEF PhaseInv, Active, Collect
  <2>11. LeavesClean'
    BY <1>10, <2>2 DEF LeavesClean, GoneHoldNothing, AbortMeansStop, Collect, Absent
  <2> QED
    BY <2>3, <2>6, <2>8, <2>9, <2>10, <2>11
<1>11. ASSUME NEW t \in Tasks, NEW c \in Children, Start(t, c) PROVE IInv'
  <2>1. TypeOK'
    BY <1>11 DEF TypeOK, PC, Phase, Start, Interprets, Goto
  <2>2. SameInFlight
    BY <1>11 DEF SameInFlight, InFlight, TypeOK, JavaInv, Start, Interprets, Goto
  <2>3. TableMatchesKernel'
    BY <1>11, <2>2, TableKept DEF Start
  <2>4. HandleValid' /\ JavaInv' /\ AbsentInv' /\ OutInv'
    BY <1>11 DEF TypeOK, HandleValid, JavaInv, AbsentInv, OutInv, PhaseInv, Start, Interprets, Goto
  <2>5. PhaseInv'
    BY <1>11 DEF TypeOK, JavaInv, PhaseInv, Active, Start, Interprets, Goto
  <2>6. LeavesClean'
    BY <1>11, SMTT(30) DEF TypeOK, LeavesClean, GoneHoldNothing, AbortMeansStop, JavaInv, PhaseInv, Active, Start, Interprets, Goto
  <2> QED
    BY <2>1, <2>3, <2>4, <2>5, <2>6
<1>12. ASSUME NEW t \in Tasks, StartFails(t) PROVE IInv'
  <2>1. SameInFlight
    BY <1>12 DEF SameInFlight, InFlight, TypeOK, StartFails, Interprets
  <2>2. pc[t] # "retake" /\ ReleaseAll(t)
    BY <1>12 DEF StartFails, Interprets
  <2>3. /\ TableType' /\ AbsentInv' /\ (TypeOK' => TableMatchesKernel')
        /\ \A j \in Keys : /\ MONITORS'[j].present = MONITORS[j].present
                           /\ MONITORS'[j].present => mutex'[j].owner # t
                           /\ \A u \in Tasks : mutex'[j].owner = u => mutex[j].owner = u
    BY <2>1, <2>2, ReleaseKeeps
  <2>4. TypeOK'
    BY <1>12, <2>3 DEF TypeOK, TableType, PC, Phase, StartFails, Interprets
  <2>5. HandleValid'
    BY <1>12, <2>3 DEF TypeOK, HandleValid, StartFails, Interprets
  <2>6. JavaInv' /\ OutInv' /\ PhaseInv'
    BY <1>12 DEF TypeOK, JavaInv, OutInv, PhaseInv, Active, StartFails, Interprets
  <2>7. LeavesClean'
    <3>1. ASSUME NEW c \in Children, pc'[c] = "off", NEW j \in Keys, MONITORS'[j].present
          PROVE  mutex'[j].owner # c
      <4>1. pc[c] = "off" \/ c = t
        BY <1>12, <3>1 DEF TypeOK, StartFails, Interprets
      <4> QED
        BY <2>3, <3>1, <4>1 DEF LeavesClean, GoneHoldNothing, Free
    <3>2. GoneHoldNothing'
      BY <3>1 DEF GoneHoldNothing, NoWorkers
    <3>3. AbortMeansStop'
      BY <1>12 DEF TypeOK, LeavesClean, AbortMeansStop, PhaseInv, Active, StartFails, Interprets
    <3> QED
      BY <3>2, <3>3 DEF LeavesClean
  <2> QED
    BY <2>3, <2>4, <2>5, <2>6, <2>7
<1>13. ASSUME NEW t \in Tasks, Begin(t) PROVE IInv'
  <2>1. TypeOK'
    BY <1>13 DEF TypeOK, PC, Phase, Begin, Goto
  <2>2. SameInFlight
    BY <1>13 DEF SameInFlight, InFlight, TypeOK, JavaInv, Begin, Goto
  <2>3. TableMatchesKernel'
    BY <1>13, <2>2, TableKept DEF Begin
  <2>4. HandleValid' /\ JavaInv' /\ AbsentInv' /\ OutInv'
    BY <1>13 DEF TypeOK, HandleValid, JavaInv, AbsentInv, OutInv, PhaseInv, Begin, Goto
  <2>5. PhaseInv'
    BY <1>13 DEF TypeOK, JavaInv, PhaseInv, Active, Begin, Goto
  <2>6. LeavesClean'
    BY <1>13 DEF TypeOK, LeavesClean, GoneHoldNothing, AbortMeansStop, JavaInv, PhaseInv, Active, Begin, Goto
  <2> QED
    BY <2>1, <2>3, <2>4, <2>5, <2>6
<1>14. ASSUME NEW t \in Tasks, Pause(t) PROVE IInv'
  <2>1. TypeOK'
    BY <1>14 DEF TypeOK, PC, Phase, Pause, Interprets, Goto
  <2>2. SameInFlight
    BY <1>14 DEF SameInFlight, InFlight, TypeOK, JavaInv, Pause, Interprets, Goto
  <2>3. TableMatchesKernel'
    BY <1>14, <2>2, TableKept DEF Pause
  <2>4. HandleValid' /\ JavaInv' /\ AbsentInv' /\ OutInv'
    BY <1>14 DEF TypeOK, HandleValid, JavaInv, AbsentInv, OutInv, PhaseInv, Pause, Interprets, Goto
  <2>5. PhaseInv'
    BY <1>14 DEF TypeOK, JavaInv, PhaseInv, Active, Pause, Interprets, Goto
  <2>6. LeavesClean'
    BY <1>14 DEF TypeOK, LeavesClean, GoneHoldNothing, AbortMeansStop, JavaInv, PhaseInv, Active, Pause, Interprets, Goto
  <2> QED
    BY <2>1, <2>3, <2>4, <2>5, <2>6
<1>15. ASSUME NEW t \in Tasks, Leave(t) PROVE IInv'
  <2>1. TypeOK'
    BY <1>15 DEF TypeOK, PC, Phase, Leave, Interprets, Goto
  <2>2. SameInFlight
    BY <1>15 DEF SameInFlight, InFlight, TypeOK, JavaInv, Leave, Interprets, Goto
  <2>3. TableMatchesKernel'
    BY <1>15, <2>2, TableKept DEF Leave
  <2>4. HandleValid' /\ JavaInv' /\ AbsentInv' /\ OutInv'
    BY <1>15 DEF TypeOK, HandleValid, JavaInv, AbsentInv, OutInv, PhaseInv, Leave, Interprets, Goto
  <2>5. PhaseInv'
    BY <1>15 DEF TypeOK, JavaInv, PhaseInv, Active, Leave, Interprets, Goto
  <2>6. LeavesClean'
    BY <1>15 DEF TypeOK, LeavesClean, GoneHoldNothing, AbortMeansStop, JavaInv, PhaseInv, Active, Leave, Interprets, Goto
  <2> QED
    BY <2>1, <2>3, <2>4, <2>5, <2>6
<1>16. ASSUME NEW t \in Tasks, Finish(t) PROVE IInv'
  <2>1. SameInFlight
    BY <1>16 DEF SameInFlight, InFlight, TypeOK, Finish, Goto
  <2>2. pc[t] # "retake" /\ ReleaseAll(t)
    BY <1>16 DEF Finish, Goto
  <2>3. /\ TableType' /\ AbsentInv' /\ (TypeOK' => TableMatchesKernel')
        /\ \A j \in Keys : /\ MONITORS'[j].present = MONITORS[j].present
                           /\ MONITORS'[j].present => mutex'[j].owner # t
                           /\ \A u \in Tasks : mutex'[j].owner = u => mutex[j].owner = u
    BY <2>1, <2>2, ReleaseKeeps
  <2>4. TypeOK'
    BY <1>16, <2>3 DEF TypeOK, TableType, PC, Phase, Finish, Goto
  <2>5. HandleValid'
    BY <1>16, <2>3, SMTT(30) DEF TypeOK, HandleValid, Finish, Goto
  <2>6. JavaInv' /\ OutInv' /\ PhaseInv'
    BY <1>16 DEF TypeOK, JavaInv, OutInv, PhaseInv, Active, Finish, Goto
  <2>7. LeavesClean'
    <3>1. ASSUME NEW c \in Children, pc'[c] = "off", NEW j \in Keys, MONITORS'[j].present
          PROVE  mutex'[j].owner # c
      <4>1. pc[c] = "off" \/ c = t
        BY <1>16, <3>1 DEF TypeOK, Finish, Goto
      <4> QED
        BY <2>3, <3>1, <4>1 DEF LeavesClean, GoneHoldNothing, Free
    <3>2. GoneHoldNothing'
      BY <3>1 DEF GoneHoldNothing, NoWorkers
    <3>3. AbortMeansStop'
      BY <1>16 DEF TypeOK, LeavesClean, AbortMeansStop, PhaseInv, Active, Finish, Goto
    <3> QED
      BY <3>2, <3>3 DEF LeavesClean
  <2> QED
    BY <2>3, <2>4, <2>5, <2>6, <2>7
<1>17. ASSUME RequestStop PROVE IInv'
  <2>1. TypeOK'
    BY <1>17 DEF TypeOK, PC, Phase, RequestStop
  <2>2. SameInFlight
    BY <1>17 DEF SameInFlight, InFlight, TypeOK, JavaInv, RequestStop
  <2>3. TableMatchesKernel'
    BY <1>17, <2>2, TableKept DEF RequestStop
  <2>4. HandleValid' /\ JavaInv' /\ AbsentInv' /\ OutInv'
    BY <1>17 DEF TypeOK, HandleValid, JavaInv, AbsentInv, OutInv, PhaseInv, RequestStop
  <2>5. PhaseInv'
    BY <1>17 DEF TypeOK, JavaInv, PhaseInv, Active, RequestStop
  <2>6. LeavesClean'
    BY <1>17, SMTT(30) DEF TypeOK, LeavesClean, GoneHoldNothing, AbortMeansStop, JavaInv, PhaseInv, Active, RequestStop
  <2> QED
    BY <2>1, <2>3, <2>4, <2>5, <2>6
<1>18. ASSUME AppReturns PROVE IInv'
  <2>1. CASE ReleaseAll(Main)
    <3>1. SameInFlight
      BY <1>18 DEF SameInFlight, InFlight, TypeOK, AppReturns, Goto
    <3>2. pc[Main] # "retake" /\ ReleaseAll(Main)
      BY <1>18, <2>1 DEF AppReturns, Goto
    <3>3. /\ TableType' /\ AbsentInv' /\ (TypeOK' => TableMatchesKernel')
          /\ \A j \in Keys : /\ MONITORS'[j].present = MONITORS[j].present
                             /\ MONITORS'[j].present => mutex'[j].owner # Main
                             /\ \A u \in Tasks : mutex'[j].owner = u => mutex[j].owner = u
      BY <3>1, <3>2, ReleaseKeeps
    <3>4. TypeOK'
      BY <1>18, <3>3 DEF TypeOK, TableType, PC, Phase, AppReturns, Goto
    <3>5. HandleValid'
      BY <1>18, <3>3, SMTT(30) DEF TypeOK, HandleValid, AppReturns, Goto
    <3>6. JavaInv' /\ OutInv' /\ PhaseInv'
      BY <1>18 DEF TypeOK, JavaInv, OutInv, PhaseInv, Active, AppReturns, Goto
    <3>7. LeavesClean'
      <4>1. ASSUME NEW c \in Children, pc'[c] = "off", NEW j \in Keys, MONITORS'[j].present
            PROVE  mutex'[j].owner # c
        <5>1. pc[c] = "off" \/ c = Main
          BY <1>18, <4>1 DEF TypeOK, AppReturns, Goto
        <5> QED
          BY <3>3, <4>1, <5>1 DEF LeavesClean, GoneHoldNothing, Free
      <4>2. GoneHoldNothing'
        BY <4>1 DEF GoneHoldNothing, NoWorkers
      <4>3. AbortMeansStop'
        BY <1>18 DEF TypeOK, LeavesClean, AbortMeansStop, PhaseInv, Active, AppReturns, Goto
      <4> QED
        BY <4>2, <4>3 DEF LeavesClean
    <3> QED
      BY <3>3, <3>4, <3>5, <3>6, <3>7
  <2>2. CASE UNCHANGED <<MONITORS, mutex>>
    <3>1. SameInFlight
      BY <1>18 DEF SameInFlight, InFlight, TypeOK, AppReturns, Goto
    <3>2. TableMatchesKernel'
      BY <2>2, <3>1, TableKept
    <3>3. TypeOK' /\ HandleValid' /\ JavaInv' /\ AbsentInv' /\ OutInv'
      BY <1>18, <2>2 DEF TypeOK, HandleValid, JavaInv, AbsentInv, OutInv, AppReturns, Goto, PC, Phase
    <3>4. PhaseInv'
      BY <1>18, <2>2 DEF TypeOK, PhaseInv, Active, AppReturns, Goto
    <3>5. \A c \in Children : pc'[c] = pc[c]
      BY <1>18 DEF TypeOK, AppReturns, Goto
    <3>6. GoneHoldNothing'
      BY <2>2, <3>5 DEF LeavesClean, GoneHoldNothing, NoWorkers
    <3>7. AbortMeansStop'
      BY <1>18 DEF TypeOK, LeavesClean, AbortMeansStop, AppReturns, Goto
    <3> QED
      BY <3>2, <3>3, <3>4, <3>6, <3>7 DEF LeavesClean
  <2> QED
    BY <1>18, <2>1, <2>2 DEF AppReturns
<1>19. ASSUME RaiseStop PROVE IInv'
  <2>1. TypeOK'
    BY <1>19 DEF TypeOK, PC, Phase, RaiseStop
  <2>2. SameInFlight
    BY <1>19 DEF SameInFlight, InFlight, TypeOK, JavaInv, RaiseStop
  <2>3. TableMatchesKernel'
    BY <1>19, <2>2, TableKept DEF RaiseStop
  <2>4. HandleValid' /\ JavaInv' /\ AbsentInv' /\ OutInv'
    BY <1>19 DEF TypeOK, HandleValid, JavaInv, AbsentInv, OutInv, PhaseInv, RaiseStop
  <2>5. PhaseInv'
    BY <1>19 DEF TypeOK, JavaInv, PhaseInv, Active, RaiseStop
  <2>6. LeavesClean'
    BY <1>19 DEF TypeOK, LeavesClean, GoneHoldNothing, AbortMeansStop, JavaInv, PhaseInv, Active, RaiseStop
  <2> QED
    BY <2>1, <2>3, <2>4, <2>5, <2>6
<1>20. ASSUME AbortDelays PROVE IInv'
  <2>1. TypeOK'
    BY <1>20 DEF TypeOK, PC, Phase, AbortDelays
  <2>2. SameInFlight
    BY <1>20 DEF SameInFlight, InFlight, TypeOK, JavaInv, AbortDelays
  <2>3. TableMatchesKernel'
    BY <1>20, <2>2, TableKept DEF AbortDelays
  <2>4. HandleValid' /\ JavaInv' /\ AbsentInv' /\ OutInv'
    BY <1>20 DEF TypeOK, HandleValid, JavaInv, AbsentInv, OutInv, PhaseInv, AbortDelays
  <2>5. PhaseInv'
    BY <1>20 DEF TypeOK, JavaInv, PhaseInv, Active, AbortDelays
  <2>6. LeavesClean'
    <3>1. \A u \in Tasks : pc'[u] = "off" => pc[u] = "off"
      BY <1>20 DEF TypeOK, AbortDelays
    <3>2. GoneHoldNothing'
      BY <1>20, <3>1 DEF LeavesClean, GoneHoldNothing, AbortDelays, NoWorkers
    <3>3. ASSUME NEW u \in Tasks, pc'[u] = "failed" PROVE STOP_JVM'
      <4>1. (u \in Children /\ pc[u] = "blocked") \/ pc[u] = "failed"
        BY <1>20, <3>3 DEF TypeOK, AbortDelays
      <4> QED
        BY <1>20, <4>1 DEF AbortDelays, LeavesClean, AbortMeansStop, PhaseInv, Active
    <3> QED
      BY <3>2, <3>3 DEF LeavesClean, AbortMeansStop
  <2> QED
    BY <2>1, <2>3, <2>4, <2>5, <2>6
<1>21. ASSUME Drain PROVE IInv'
  <2>1. TypeOK'
    BY <1>21 DEF TypeOK, PC, Phase, Drain
  <2>2. SameInFlight
    BY <1>21 DEF SameInFlight, InFlight, TypeOK, JavaInv, Drain
  <2>3. TableMatchesKernel'
    BY <1>21, <2>2, TableKept DEF Drain
  <2>4. HandleValid' /\ JavaInv' /\ AbsentInv' /\ OutInv'
    BY <1>21 DEF TypeOK, HandleValid, JavaInv, AbsentInv, OutInv, PhaseInv, Drain
  <2>5. PhaseInv'
    BY <1>21 DEF TypeOK, JavaInv, PhaseInv, Active, Drain
  <2>6. LeavesClean'
    BY <1>21 DEF TypeOK, LeavesClean, GoneHoldNothing, AbortMeansStop, JavaInv, PhaseInv, Active, Drain
  <2> QED
    BY <2>1, <2>3, <2>4, <2>5, <2>6
<1>22. ASSUME Boot PROVE IInv'
  <2>1. \A t \in Tasks : pc[t] = "off"
    BY <1>22 DEF Boot, PhaseInv
  <2>2. TypeOK'
    <3>1. MONITORS' \in [Keys -> [owner : Tasks \cup {NoTask}, depth : Nat, present : BOOLEAN]]
      BY <1>22 DEF Boot, Absent
    <3>2. pc' \in [Tasks -> PC] /\ java' \in Tasks \cup {NoTask} /\ phase' \in Phase
      BY <1>22 DEF TypeOK, Boot, Goto, PC, Phase
    <3>3. UNCHANGED <<mutex, frames, want, need>> /\ runs' \in Nat
      BY <1>22 DEF TypeOK, Boot
    <3>4. STOP_JVM' \in BOOLEAN
      BY <1>22, Zenon DEF Boot
    <3> QED
      BY <3>1, <3>2, <3>3, <3>4 DEF TypeOK
  <2>3. TableMatchesKernel' /\ HandleValid'
    BY <1>22, <2>1 DEF TypeOK, TableMatchesKernel, HandleValid, Boot, Goto, Absent
  <2>4. JavaInv' /\ AbsentInv' /\ OutInv' /\ PhaseInv'
    BY <1>22, <2>1 DEF TypeOK, JavaInv, AbsentInv, OutInv, PhaseInv, Active, Boot, Goto
  <2>5. LeavesClean'
    BY <1>22, <2>1 DEF TypeOK, LeavesClean, GoneHoldNothing, AbortMeansStop, Boot, Goto, Absent
  <2> QED
    BY <2>2, <2>3, <2>4, <2>5
<1>23. ASSUME UNCHANGED vars PROVE IInv'
  <2>1. SameInFlight /\ UNCHANGED <<MONITORS, mutex>>
    BY <1>23 DEF vars, SameInFlight, InFlight
  <2>2. TableMatchesKernel'
    BY <2>1, TableKept
  <2>3. TypeOK' /\ HandleValid' /\ JavaInv' /\ AbsentInv' /\ OutInv'
    BY <1>23 DEF vars, TypeOK, HandleValid, JavaInv, AbsentInv, OutInv
  <2>4. PhaseInv' /\ LeavesClean'
    BY <1>23 DEF vars, PhaseInv, Active, LeavesClean, GoneHoldNothing, AbortMeansStop
  <2> QED
    BY <2>2, <2>3, <2>4
<1> QED
  BY <1>1, <1>2, <1>3, <1>4, <1>5, <1>6, <1>7, <1>8, <1>9, <1>10, <1>11, <1>12, <1>13, <1>14, <1>15, <1>16, <1>17, <1>18, <1>19, <1>20, <1>21, <1>22, <1>23 DEF Next, JavaStep, Seam, NoWorkers

-----------------------------------------------------------------------------
(* Scopes, where no spawn fails. *)

NoFailedSpawn == ~SpawnMayFail

ScopeTrue(t, k) ==
    pc[t] \notin {"off", "leaving"} =>
        IF HeldBy(t, k) THEN MONITORS[k].depth = Level(t, k) ELSE Level(t, k) = 0

LEMMA ScopesPointwise == ScopesHeld <=> \A t \in Tasks, k \in Keys : ScopeTrue(t, k)
BY DEF ScopesHeld, ScopeTrue

Waits(t) == Entering(t) \/ pc[t] \in {"parked", "woken"}

LEMMA LevelValue ==
    ASSUME TypeOK, NEW t \in Tasks, NEW k \in Keys
    PROVE  /\ Holds(frames[t], k) \in Nat /\ need[t] \in Nat /\ Level(t, k) \in Int
           /\ Level(t, k) = Holds(frames[t], k) - IF Waits(t) /\ want[t] = k THEN need[t] ELSE 0
<1>1. frames[t] \in Seq(Keys) /\ need[t] \in Nat
  BY DEF TypeOK
<1>2. Holds(frames[t], k) \in Nat
  BY <1>1, HoldsType
<1> QED
  BY <1>1, <1>2 DEF Level, Waits

\* A monitor that is held has an entry, and keeps it when another is created.
LEMMA CreateKeepsDepths ==
    ASSUME AbsentInv, NEW u \in Tasks, NEW j \in Keys,
           HeldBy(u, j)' <=> HeldBy(u, j),
           MONITORS[j].present => MONITORS'[j] = MONITORS[j] /\ mutex'[j] = mutex[j]
    PROVE  /\ HeldBy(u, j)' <=> HeldBy(u, j)
           /\ HeldBy(u, j) => MONITORS'[j].depth = MONITORS[j].depth
<1>1. HeldBy(u, j) => MONITORS[j].present
  BY DEF HeldBy, AbsentInv, Absent
<1> QED
  BY <1>1

\* What an action leaves alone in the scopes of a task.
SameScopes(u) ==
    /\ pc'[u] \notin {"off", "leaving"} => pc[u] \notin {"off", "leaving"} /\ (Waits(u)' <=> Waits(u))
    /\ frames'[u] = frames[u] /\ want'[u] = want[u] /\ need'[u] = need[u]
    /\ \A j \in Keys : /\ HeldBy(u, j)' <=> HeldBy(u, j)
                       /\ HeldBy(u, j) => MONITORS'[j].depth = MONITORS[j].depth

LEMMA ScopeKept ==
    ASSUME ScopesHeld, NEW u \in Tasks, SameScopes(u), NEW j \in Keys
    PROVE  ScopeTrue(u, j)'
<1>1. ScopeTrue(u, j)
  BY ScopesPointwise
<1>2. pc'[u] \notin {"off", "leaving"} => Level(u, j)' = Level(u, j)
  BY DEF SameScopes, Level, Waits
<1> QED
  BY <1>1, <1>2 DEF SameScopes, ScopeTrue

\* A step of t alone: what the others have in the table stays.
LEMMA OthersKept ==
    ASSUME NEW t \in Tasks, NEW u \in Tasks \ {t},
           pc'[u] = pc[u], frames'[u] = frames[u], want'[u] = want[u], need'[u] = need[u],
           NEW k \in Keys, \A j \in Keys \ {k} : MONITORS'[j] = MONITORS[j],
           MONITORS[k].depth > 0 => MONITORS[k].owner # u,
           MONITORS'[k].depth > 0 => MONITORS'[k].owner # u
    PROVE  SameScopes(u)
BY DEF SameScopes, Waits, Entering, HeldBy

LEMMA ScopesStep ==
    ASSUME NoWorkers, NoFailedSpawn, IInv, ScopesHeld, [Next]_vars
    PROVE  ScopesHeld'
<1> USE TaskFacts DEF IInv, TableTrue
<1> SUFFICES ASSUME NEW u \in Tasks, NEW j \in Keys PROVE ScopeTrue(u, j)'
  BY DEF ScopesHeld, ScopeTrue
<1>0. TypeOK'
  BY NextInv
<1>1. ASSUME NEW t \in Tasks, NEW k \in Keys, Enter(t, k) PROVE ScopeTrue(u, j)'
  <2>1. /\ FindOrCreate(k) /\ pc[t] = "run" /\ pc' = [pc EXCEPT ![t] = "call"]
        /\ want' = [want EXCEPT ![t] = k] /\ need' = [need EXCEPT ![t] = 0] /\ frames' = frames
    BY <1>1 DEF Enter, Interprets, Goto
  <2>2. SameInFlight
    BY <2>1 DEF SameInFlight, InFlight, TypeOK
  <2>3. /\ HeldBy(u, j)' <=> HeldBy(u, j)
        /\ HeldBy(u, j) => MONITORS'[j].depth = MONITORS[j].depth
    BY <2>1, <2>2, CreateKeeps, CreateKeepsDepths
  <2>4. Level(u, j)' = Level(u, j) /\ (pc'[u] \notin {"off", "leaving"} => pc[u] \notin {"off", "leaving"})
    <3>1. CASE u = t
      <4>1. Level(u, j)' = Holds(frames[u], j) - 0
        BY <2>1, <3>1 DEF Level, TypeOK
      <4>2. Level(u, j) = Holds(frames[u], j) - 0
        BY <2>1, <3>1 DEF Level, Entering
      <4> QED
        BY <2>1, <3>1, <4>1, <4>2 DEF TypeOK
    <3>2. CASE u # t
      BY <2>1, <3>2 DEF TypeOK, Level, Entering
    <3> QED
      BY <3>1, <3>2
  <2> QED
    BY <2>3, <2>4, ScopesPointwise DEF ScopeTrue
<1>2. ASSUME NEW t \in Tasks, Reacquire(t) PROVE ScopeTrue(u, j)'
  <2>1. /\ FindOrCreate(want[t]) /\ pc[t] = "woken" /\ pc' = [pc EXCEPT ![t] = "call"]
        /\ UNCHANGED <<frames, want, need>> /\ want[t] \in Keys
    BY <1>2 DEF Reacquire, Goto, TypeOK
  <2>2. SameInFlight
    BY <2>1 DEF SameInFlight, InFlight, TypeOK
  <2>3. ASSUME NEW i \in Keys
       PROVE  /\ HeldBy(u, i)' <=> HeldBy(u, i)
              /\ HeldBy(u, i) => MONITORS'[i].depth = MONITORS[i].depth
    BY <2>1, <2>2, CreateKeeps, CreateKeepsDepths
  <2>4. /\ pc'[u] \notin {"off", "leaving"} => pc[u] \notin {"off", "leaving"}
        /\ Waits(u)' <=> Waits(u)
    BY <2>1 DEF TypeOK, Waits, Entering
  <2>5. SameScopes(u)
    <3>1. /\ pc'[u] \notin {"off", "leaving"} => pc[u] \notin {"off", "leaving"} /\ (Waits(u)' <=> Waits(u))
         /\ frames'[u] = frames[u] /\ want'[u] = want[u] /\ need'[u] = need[u]
      BY <2>1, <2>4
    <3> QED
      BY <2>3, <3>1 DEF SameScopes
  <2> QED
    BY <2>5, ScopeKept
<1>3. ASSUME NEW t \in Tasks, KernelLock(t) PROVE ScopeTrue(u, j)'
  <2>1. SameScopes(u)
    BY <1>3 DEF TypeOK, SameScopes, Waits, Entering, HeldBy, KernelLock, Goto
  <2> QED
    BY <2>1, ScopeKept
<1>4. ASSUME NEW t \in Tasks, KernelBlock(t) PROVE ScopeTrue(u, j)'
  <2>1. SameScopes(u)
    BY <1>4 DEF TypeOK, SameScopes, Waits, Entering, HeldBy, KernelBlock, Goto
  <2> QED
    BY <2>1, ScopeKept
<1>5. ASSUME NEW t \in Tasks, Record(t) PROVE ScopeTrue(u, j)'
  <2> PICK k \in Keys : k = want[t]
    BY DEF TypeOK
  <2>1. /\ MONITORS[k].present /\ InFlight(t, k) /\ MONITORS[k].depth \in Nat /\ pc[t] = "retake"
        /\ MONITORS[k].owner \in Tasks \cup {NoTask}
    BY <1>5 DEF TypeOK, InFlight, Record
  <2>2. Agrees(k) /\ Ahead(t, k)
    BY <2>1, AgreesIfMatches DEF Agrees, Quiet, Ahead
  <2>3. /\ MONITORS'[k].owner = t /\ MONITORS'[k].depth = MONITORS[k].depth + 1
        /\ \A i \in Keys \ {k} : MONITORS'[i] = MONITORS[i]
    BY <1>5, <2>1 DEF TypeOK, Record, Entry
  <2>4. CASE u # t
    <3>1. /\ pc'[u] = pc[u] /\ frames'[u] = frames[u] /\ want'[u] = want[u] /\ need'[u] = need[u]
      BY <1>5, <2>4 DEF TypeOK, Record, Recorded, Goto
    <3>2. MONITORS[k].owner # u /\ MONITORS'[k].owner # u
      BY <2>2, <2>3, <2>4 DEF Ahead
    <3>3. SameScopes(u)
      BY <2>3, <2>4, <3>1, <3>2, OthersKept
    <3> QED
      BY <3>3, ScopeKept
  <2>5. CASE u = t
    <3>1. Level(t, j)' = IF j = k THEN Level(t, j) + 1 ELSE Level(t, j)
      <4>1. CASE need[t] = 0
        <5>1. /\ frames'[t] = Append(frames[t], k) /\ pc'[t] = "run"
          BY <1>5, <4>1 DEF TypeOK, Record, Recorded, Goto
        <5>2. Level(t, j)' = Holds(Append(frames[t], k), j) - 0
          BY <5>1 DEF Level, Entering
        <5>3. Level(t, j) = Holds(frames[t], j)
          BY <4>1, LevelValue
        <5>4. Holds(Append(frames[t], k), j) = Holds(frames[t], j) + IF k = j THEN 1 ELSE 0
          BY HoldsAppend, SMTT(30) DEF TypeOK
        <5>5. Holds(frames[t], j) \in Nat
          BY LevelValue
        <5> QED
          BY <5>2, <5>3, <5>4, <5>5
      <4>2. CASE need[t] = 1
        <5>1. /\ frames'[t] = frames[t] /\ pc'[t] = "run"
          BY <1>5, <4>2 DEF TypeOK, Record, Recorded, Goto
        <5>2. Level(t, j)' = Holds(frames[t], j) - 0
          BY <5>1 DEF Level, Entering
        <5>3. Level(t, j) = Holds(frames[t], j) - IF j = k THEN 1 ELSE 0
          BY <2>1, <4>2 DEF Level, Entering
        <5>4. Holds(frames[t], j) \in Nat
          BY LevelValue
        <5> QED
          BY <5>2, <5>3, <5>4
      <4>3. CASE need[t] \notin {0, 1}
        <5>1. /\ frames'[t] = frames[t] /\ pc'[t] = "call" /\ want'[t] = k /\ need'[t] = need[t] - 1
          BY <1>5, <4>3 DEF TypeOK, Record, Recorded, Goto
        <5>2. Level(t, j)' = Holds(frames[t], j) - IF j = k THEN need[t] - 1 ELSE 0
          BY <5>1 DEF Level, Entering
        <5>3. Level(t, j) = Holds(frames[t], j) - IF j = k THEN need[t] ELSE 0
          BY <2>1 DEF Level, Entering
        <5>4. Holds(frames[t], j) \in Nat /\ need[t] \in Nat
          BY LevelValue
        <5> QED
          BY <5>2, <5>3, <5>4
      <4> QED
        BY <4>1, <4>2, <4>3
    <3>2. ScopeTrue(t, j) /\ ScopeTrue(t, k)
      BY ScopesPointwise
    <3>3. CASE j # k
      <4>1. HeldBy(t, j)' <=> HeldBy(t, j)
        BY <2>3, <3>3 DEF HeldBy
      <4> QED
        BY <2>1, <2>3, <2>5, <3>1, <3>2, <3>3, <4>1 DEF ScopeTrue
    <3>4. CASE j = k
      <4>1. HeldBy(t, k)'
        BY <2>1, <2>3 DEF HeldBy
      <4>2. MONITORS[k].depth = Level(t, k)
        <5>1. CASE MONITORS[k].depth > 0
          <6>1. MONITORS[k].owner = t
            BY <2>1, <2>2, <5>1 DEF Agrees, Ahead
          <6> QED
            BY <2>1, <3>2, <5>1, <6>1 DEF ScopeTrue, HeldBy
        <5>2. CASE MONITORS[k].depth = 0
          BY <2>1, <3>2, <5>2 DEF ScopeTrue, HeldBy
        <5> QED
          BY <2>1, <5>1, <5>2
      <4> QED
        BY <2>3, <2>5, <3>1, <3>4, <4>1, <4>2 DEF ScopeTrue
    <3> QED
      BY <2>5, <3>3, <3>4
  <2> QED
    BY <2>4, <2>5
<1>6. ASSUME NEW t \in Tasks, EnterFails(t) PROVE ScopeTrue(u, j)'
  <2>1. CASE u = t
    BY <1>6, <2>1 DEF TypeOK, ScopeTrue, EnterFails, Goto
  <2>2. CASE u # t
    <3>1. SameScopes(u)
      BY <1>6, <2>2 DEF TypeOK, SameScopes, Waits, Entering, HeldBy, EnterFails, Goto
    <3> QED
      BY <3>1, ScopeKept
  <2> QED
    BY <2>1, <2>2
<1>7. ASSUME NEW t \in Tasks, Exit(t) PROVE ScopeTrue(u, j)'
  <2>0. /\ frames[t] # <<>> /\ frames[t] \in Seq(Keys) /\ pc[t] = "run"
    BY <1>7 DEF TypeOK, Exit, Interprets
  <2> PICK k \in Keys : k = frames[t][Len(frames[t])]
    BY <2>0, HoldsFront
  <2> PICK front \in Seq(Keys) : front = SubSeq(frames[t], 1, Len(frames[t]) - 1)
    BY <2>0, HoldsFront
  <2>1. /\ frames' = [frames EXCEPT ![t] = front] /\ UNCHANGED <<pc, want, need>>
    BY <1>7 DEF Exit
  <2>2. \A i \in Keys : /\ Holds(front, i) \in Nat
                      /\ Holds(frames[t], i) = Holds(front, i) + IF k = i THEN 1 ELSE 0
    BY <2>0, HoldsFront, HoldsType
  <2>3. \A i \in Keys : /\ Level(t, i) = Holds(frames[t], i) - 0
                      /\ Level(t, i)' = Holds(front, i) - 0
    BY <2>0, <2>1 DEF Level, Entering, TypeOK
  <2>4. HeldBy(t, k) /\ MONITORS[k].depth = Holds(front, k) + 1 /\ MONITORS[k].depth \in Nat
    <3>1. Level(t, k) = Holds(front, k) + 1 /\ Holds(front, k) \in Nat
      BY <2>2, <2>3
    <3>2. ScopeTrue(t, k)
      BY ScopesPointwise
    <3> QED
      BY <2>0, <3>1, <3>2 DEF ScopeTrue
  <2>5. /\ MONITORS'[k] = IF MONITORS[k].depth = 1 THEN Entry(NoTask, 0)
                          ELSE Entry(t, MONITORS[k].depth - 1)
        /\ \A i \in Keys \ {k} : MONITORS'[i] = MONITORS[i]
    BY <1>7, <2>4 DEF TypeOK, Exit
  <2>6. CASE u # t
    <3>1. /\ pc'[u] = pc[u] /\ frames'[u] = frames[u] /\ want'[u] = want[u] /\ need'[u] = need[u]
      BY <2>1, <2>6 DEF TypeOK
    <3>2. MONITORS[k].owner # u /\ MONITORS'[k].owner # u
      BY <2>4, <2>5, <2>6 DEF HeldBy, Entry
    <3>3. SameScopes(u)
      BY <2>5, <2>6, <3>1, <3>2, OthersKept
    <3> QED
      BY <3>3, ScopeKept
  <2>7. CASE u = t /\ j # k
    <3>1. HeldBy(t, j)' <=> HeldBy(t, j)
      BY <2>5, <2>7 DEF HeldBy
    <3>2. Level(t, j)' = Level(t, j) /\ ScopeTrue(t, j)
      BY <2>2, <2>3, <2>7, ScopesPointwise
    <3> QED
      BY <2>0, <2>1, <2>5, <2>7, <3>1, <3>2 DEF ScopeTrue
  <2>8. CASE u = t /\ j = k
    <3>1. CASE MONITORS[k].depth = 1
      <4>1. ~HeldBy(t, k)' /\ Level(t, k)' = 0
        BY <2>2, <2>3, <2>4, <2>5, <3>1 DEF HeldBy, Entry
      <4> QED
        BY <2>8, <4>1 DEF ScopeTrue
    <3>2. CASE MONITORS[k].depth # 1
      <4>1. HeldBy(t, k)' /\ MONITORS'[k].depth = MONITORS[k].depth - 1
        BY <2>2, <2>4, <2>5, <3>2 DEF HeldBy, Entry
      <4>2. Level(t, k)' = MONITORS[k].depth - 1
        BY <2>2, <2>3, <2>4
      <4> QED
        BY <2>8, <4>1, <4>2 DEF ScopeTrue
    <3> QED
      BY <3>1, <3>2
  <2> QED
    BY <2>6, <2>7, <2>8
<1>8. ASSUME NEW t \in Tasks, NEW k \in Keys, Wait(t, k) PROVE ScopeTrue(u, j)'
  <2>1. /\ HeldBy(t, k) /\ pc[t] = "run" /\ frames' = frames
        /\ want' = [want EXCEPT ![t] = k] /\ need' = [need EXCEPT ![t] = MONITORS[k].depth]
        /\ \E label \in {"woken", "parked"} : pc' = [pc EXCEPT ![t] = label]
        /\ MONITORS' = [MONITORS EXCEPT ![k] = Entry(NoTask, 0)]
    BY <1>8 DEF Wait, Interprets, SaveAndRelease, Goto
  <2>2. /\ MONITORS'[k].owner = NoTask /\ MONITORS'[k].depth = 0
        /\ \A i \in Keys \ {k} : MONITORS'[i] = MONITORS[i]
    BY <2>1 DEF TypeOK, Entry
  <2>3. CASE u # t
    <3>1. /\ pc'[u] = pc[u] /\ frames'[u] = frames[u] /\ want'[u] = want[u] /\ need'[u] = need[u]
      BY <2>1, <2>3 DEF TypeOK
    <3>2. MONITORS[k].owner # u /\ MONITORS'[k].owner # u
      BY <2>1, <2>2, <2>3 DEF HeldBy
    <3>3. SameScopes(u)
      BY <2>2, <2>3, <3>1, <3>2, OthersKept
    <3> QED
      BY <3>3, ScopeKept
  <2>4. CASE u = t
    <3>1. /\ pc'[t] \in {"woken", "parked"} /\ want'[t] = k /\ need'[t] = MONITORS[k].depth
      BY <2>1 DEF TypeOK
    <3>2. Level(t, j)' = Holds(frames[t], j) - IF j = k THEN MONITORS[k].depth ELSE 0
      BY <2>1, <3>1 DEF Level, Entering
    <3>3. Level(t, j) = Holds(frames[t], j) - 0 /\ Holds(frames[t], j) \in Nat
      BY <2>1, LevelValue DEF Level, Entering
    <3>4. ScopeTrue(t, j)
      BY ScopesPointwise
    <3>5. CASE j = k
      <4>1. MONITORS[k].depth = Holds(frames[t], j)
        BY <2>1, <3>3, <3>4, <3>5 DEF ScopeTrue
      <4>2. ~HeldBy(t, j)' /\ Level(t, j)' = 0
        BY <2>2, <3>2, <3>3, <3>5, <4>1 DEF HeldBy
      <4> QED
        BY <2>4, <4>2 DEF ScopeTrue
    <3>6. CASE j # k
      <4>1. HeldBy(t, j)' <=> HeldBy(t, j)
        BY <2>2, <3>6 DEF HeldBy
      <4> QED
        BY <2>1, <2>2, <2>4, <3>2, <3>3, <3>4, <3>6, <4>1 DEF ScopeTrue
    <3> QED
      BY <3>5, <3>6
  <2> QED
    BY <2>3, <2>4
<1>9. ASSUME NEW t \in Tasks, Wake(t) PROVE ScopeTrue(u, j)'
  <2>1. SameScopes(u)
    BY <1>9 DEF TypeOK, SameScopes, Waits, Entering, HeldBy, Wake, Goto
  <2> QED
    BY <2>1, ScopeKept
<1>10. ASSUME NEW t \in Tasks, Collect(t) PROVE ScopeTrue(u, j)'
  <2>1. PICK dead \in SUBSET {k \in Keys : ~Rooted(k)} : PruneDead(dead)
    BY <1>10 DEF Collect
  <2>2. \A i \in Keys : MONITORS'[i] = IF MONITORS[i].depth = 0 /\ i \in dead THEN Absent ELSE MONITORS[i]
    BY <2>1 DEF PruneDead
  <2>3. SameScopes(u)
    BY <1>10, <2>2 DEF SameScopes, Waits, Entering, HeldBy, Collect, Absent
  <2> QED
    BY <2>3, ScopeKept
<1>11. ASSUME NEW t \in Tasks, NEW c \in Children, Start(t, c) PROVE ScopeTrue(u, j)'
  <2>1. pc[c] = "off" /\ pc' = [pc EXCEPT ![c] = "ready"] /\ UNCHANGED <<MONITORS, mutex, frames, want, need>>
    BY <1>11 DEF Start, Goto
  <2>2. CASE u # c
    <3>1. SameScopes(u)
      BY <2>1, <2>2 DEF TypeOK, SameScopes, Waits, Entering, HeldBy
    <3> QED
      BY <3>1, ScopeKept
  <2>3. CASE u = c
    <3>1. pc[c] # "retake" /\ (MONITORS[j].present => mutex[j].owner # c)
      BY <2>1 DEF LeavesClean, GoneHoldNothing
    <3>2. ~HeldBy(c, j)
      <4>1. HeldBy(c, j) => MONITORS[j].present /\ Quiet(j)
        BY <3>1, HeldIsQuiet
      <4> QED
        BY <3>1, <4>1 DEF Quiet, HeldBy
    <3>3. ~HeldBy(c, j)'
      BY <2>1, <3>2 DEF HeldBy
    <3>4. frames[c] = <<>> /\ pc'[c] = "ready"
      BY <2>1 DEF OutInv, TypeOK
    <3>5. Level(c, j)' = 0
      BY <2>1, <3>4, HoldsNothing DEF Level, Entering
    <3> QED
      BY <2>3, <3>3, <3>5 DEF ScopeTrue
  <2> QED
    BY <2>2, <2>3
<1>12. ASSUME NEW t \in Tasks, StartFails(t) PROVE ScopeTrue(u, j)'
  BY <1>12 DEF StartFails, NoFailedSpawn
<1>13. ASSUME NEW t \in Tasks, Begin(t) PROVE ScopeTrue(u, j)'
  <2>1. SameScopes(u)
    BY <1>13 DEF TypeOK, SameScopes, Waits, Entering, HeldBy, Begin, Goto
  <2> QED
    BY <2>1, ScopeKept
<1>14. ASSUME NEW t \in Tasks, Pause(t) PROVE ScopeTrue(u, j)'
  <2>1. SameScopes(u)
    BY <1>14 DEF TypeOK, SameScopes, Waits, Entering, HeldBy, Pause, Interprets, Goto
  <2> QED
    BY <2>1, ScopeKept
<1>15. ASSUME NEW t \in Tasks, Leave(t) PROVE ScopeTrue(u, j)'
  <2>1. CASE u = t
    BY <1>15, <2>1 DEF TypeOK, ScopeTrue, Leave, Interprets, Goto
  <2>2. CASE u # t
    <3>1. SameScopes(u)
      BY <1>15, <2>2 DEF TypeOK, SameScopes, Waits, Entering, HeldBy, Leave, Interprets, Goto
    <3> QED
      BY <3>1, ScopeKept
  <2> QED
    BY <2>1, <2>2
<1>16. ASSUME NEW t \in Tasks, Finish(t) PROVE ScopeTrue(u, j)'
  <2>1. SameInFlight /\ pc[t] # "retake" /\ ReleaseAll(t)
    BY <1>16 DEF SameInFlight, InFlight, TypeOK, Finish, Goto
  <2>2. CASE u = t
    BY <1>16, <2>2 DEF TypeOK, ScopeTrue, Finish, Goto
  <2>3. CASE u # t
    <3>1. ASSUME NEW i \in Keys
         PROVE  /\ HeldBy(u, i)' <=> HeldBy(u, i)
                /\ HeldBy(u, i) => MONITORS'[i].depth = MONITORS[i].depth
      BY <2>1, <2>3, ReleaseKeeps DEF HeldBy
    <3>2. /\ pc'[u] = pc[u] /\ frames'[u] = frames[u]
          /\ want'[u] = want[u] /\ need'[u] = need[u]
      BY <1>16, <2>3 DEF TypeOK, Finish, Goto
    <3>3. Waits(u)' <=> Waits(u)
      BY <3>2 DEF Waits, Entering
    <3>4. SameScopes(u)
      <4>1. /\ pc'[u] \notin {"off", "leaving"} => pc[u] \notin {"off", "leaving"} /\ (Waits(u)' <=> Waits(u))
           /\ frames'[u] = frames[u] /\ want'[u] = want[u] /\ need'[u] = need[u]
        BY <3>2, <3>3
      <4> QED
        BY <3>1, <4>1 DEF SameScopes
    <3> QED
      BY <3>4, ScopeKept
  <2> QED
    BY <2>2, <2>3
<1>17. ASSUME RequestStop PROVE ScopeTrue(u, j)'
  <2>1. SameScopes(u)
    BY <1>17 DEF TypeOK, SameScopes, Waits, Entering, HeldBy, RequestStop
  <2> QED
    BY <2>1, ScopeKept
<1>18. ASSUME AppReturns PROVE ScopeTrue(u, j)'
  <2>1. CASE UNCHANGED <<MONITORS, mutex>>
    <3>1. CASE u = Main
      BY <1>18, <2>1, <3>1 DEF TypeOK, ScopeTrue, AppReturns, Goto
    <3>2. CASE u # Main
      <4>1. SameScopes(u)
        BY <1>18, <2>1, <3>2 DEF TypeOK, SameScopes, Waits, Entering, HeldBy, AppReturns, Goto
      <4> QED
        BY <4>1, ScopeKept
    <3> QED
      BY <3>1, <3>2
  <2>2. CASE ReleaseAll(Main)
    <3>1. SameInFlight /\ pc[Main] # "retake" /\ ReleaseAll(Main)
      BY <1>18, <2>2 DEF SameInFlight, InFlight, TypeOK, AppReturns, Goto
    <3>2. CASE u = Main
      BY <1>18, <3>2 DEF TypeOK, ScopeTrue, AppReturns, Goto
    <3>3. CASE u # Main
      <4>1. ASSUME NEW i \in Keys
           PROVE  /\ HeldBy(u, i)' <=> HeldBy(u, i)
                  /\ HeldBy(u, i) => MONITORS'[i].depth = MONITORS[i].depth
        BY <3>1, <3>3, ReleaseKeeps DEF HeldBy
      <4>2. /\ pc'[u] = pc[u] /\ frames'[u] = frames[u]
            /\ want'[u] = want[u] /\ need'[u] = need[u]
        BY <1>18, <3>3 DEF TypeOK, AppReturns, Goto
      <4>3. Waits(u)' <=> Waits(u)
        BY <4>2 DEF Waits, Entering
      <4>4. SameScopes(u)
        <5>1. /\ pc'[u] \notin {"off", "leaving"} => pc[u] \notin {"off", "leaving"} /\ (Waits(u)' <=> Waits(u))
             /\ frames'[u] = frames[u] /\ want'[u] = want[u] /\ need'[u] = need[u]
          BY <4>2, <4>3
        <5> QED
          BY <4>1, <5>1 DEF SameScopes
      <4> QED
        BY <4>4, ScopeKept
    <3> QED
      BY <3>2, <3>3
  <2> QED
    BY <1>18, <2>1, <2>2 DEF AppReturns
<1>19. ASSUME RaiseStop PROVE ScopeTrue(u, j)'
  <2>1. SameScopes(u)
    BY <1>19 DEF TypeOK, SameScopes, Waits, Entering, HeldBy, RaiseStop
  <2> QED
    BY <2>1, ScopeKept
<1>20. ASSUME AbortDelays PROVE ScopeTrue(u, j)'
  <2>1. SameScopes(u)
    BY <1>20 DEF TypeOK, SameScopes, Waits, Entering, HeldBy, AbortDelays
  <2> QED
    BY <2>1, ScopeKept
<1>21. ASSUME Drain PROVE ScopeTrue(u, j)'
  <2>1. SameScopes(u)
    BY <1>21 DEF TypeOK, SameScopes, Waits, Entering, HeldBy, Drain
  <2> QED
    BY <2>1, ScopeKept
<1>22. ASSUME Boot PROVE ScopeTrue(u, j)'
  <2>1. MONITORS'[j] = Absent /\ frames'[u] = frames[u] /\ pc[u] = "off"
    BY <1>22 DEF Boot, PhaseInv
  <2>2. pc'[u] \in {"off", "run"} /\ frames[u] = <<>>
    BY <1>22, <2>1 DEF TypeOK, Boot, Goto, OutInv
  <2>3. ~HeldBy(u, j)' /\ Level(u, j)' = 0
    BY <2>1, <2>2, HoldsNothing DEF HeldBy, Absent, Level, Entering
  <2> QED
    BY <2>3 DEF ScopeTrue
<1>23. ASSUME UNCHANGED vars PROVE ScopeTrue(u, j)'
  <2>1. SameScopes(u)
    BY <1>23 DEF vars, SameScopes, Waits, Entering, HeldBy
  <2> QED
    BY <2>1, ScopeKept
<1> QED
  BY <1>1, <1>2, <1>3, <1>4, <1>5, <1>6, <1>7, <1>8, <1>9, <1>10, <1>11, <1>12, <1>13, <1>14, <1>15, <1>16, <1>17, <1>18, <1>19, <1>20, <1>21, <1>22, <1>23 DEF Next, JavaStep, Seam, NoWorkers

-----------------------------------------------------------------------------
(* The results. *)

LEMMA Invariant == ASSUME NoWorkers PROVE Spec => []IInv
<1>1. Init => IInv
  BY InitInv
<1>2. IInv /\ [Next]_vars => IInv'
  BY NextInv
<1> QED
  BY <1>1, <1>2, PTL DEF Spec

\* The table and the kernel's mutexes agree at every moment, and no handle in
\* use has been deleted (enter_with, exit, save_and_release, prune_dead, clear).
THEOREM TableAgrees == ASSUME NoWorkers PROVE Spec => []TableTrue
<1>1. IInv => TableTrue
  BY DEF IInv
<1> QED
  BY <1>1, Invariant, PTL

\* A finished thread holds nothing, and a lock wait that was aborted finds the
\* stop flag (release_all_held_by_current, abort_all_child_delays).
THEOREM EndsClean == ASSUME NoWorkers PROVE Spec => []LeavesClean
<1>1. IInv => LeavesClean
  BY DEF IInv
<1> QED
  BY <1>1, Invariant, PTL

\* Synchronized scopes exclude one another and are held for as long as a task
\* is in them, for any nesting, waiting and collecting, where no spawn fails.
THEOREM ScopesAreExclusive ==
    ASSUME NoWorkers, NoFailedSpawn PROVE Spec => []ScopesExclude
<1>1. Init => ScopesHeld
  BY DEF Init, ScopesHeld
<1>2. IInv /\ ScopesHeld /\ [Next]_vars => ScopesHeld'
  BY ScopesStep
<1>3. IInv /\ ScopesHeld => ScopesExclude
  <2> SUFFICES ASSUME IInv, ScopesHeld, NEW k \in Keys, NEW t \in Tasks, NEW u \in Tasks,
                      Level(t, k) > 0, Level(u, k) > 0
               PROVE  t = u
    BY DEF ScopesExclude, MonitorExcludes
  <2>1. ASSUME NEW x \in Tasks, Level(x, k) > 0 PROVE MONITORS[k].owner = x
    <3>1. pc[x] \notin {"off", "leaving"}
      <4>1. SUFFICES ASSUME pc[x] \in {"off", "leaving"} PROVE Level(x, k) = 0
        BY <2>1
      <4>2. frames[x] = <<>>
        BY <4>1 DEF IInv, OutInv
      <4> QED
        BY <4>1, <4>2, HoldsNothing DEF Level, Entering
    <3> QED
      BY <2>1, <3>1 DEF ScopesHeld, HeldBy
  <2> QED
    BY <2>1
<1> QED
  BY <1>1, <1>2, <1>3, Invariant, PTL DEF Spec

=============================================================================
