------------------------ MODULE ThreadRegistryProofs ------------------------
(***************************************************************************)
(* Proofs about ThreadRegistry, for any number of threads, Thread objects, *)
(* monitors and slots: every thread is found under its own Thread and its  *)
(* own task until it ends, lookups are unambiguous, and no park sleeps     *)
(* through its reason to end.                                              *)
(***************************************************************************)
EXTENDS ThreadRegistry, FiniteSetTheorems, TLAPS

(* The parts of the inductive invariant. *)

\* One task interprets, and it is the one that has the run lock.  The places
\* of the UI task and of a child are apart.
JavaInv == \A t \in Tasks : java = t <=> pc[t] \in {"run", "spawn", "loop", "exited"}
PlacesInv == /\ pc[Main] \notin {"off", "bind", "exited", "ended"}
             /\ \A c \in Children : pc[c] \notin {"stop", "wake", "drain"}

\* A free slot is blank; no two entries are of one task or one Thread; a task
\* that is not bound has no entry.
BlankInv == \A s \in Slots : ~entries[s].used => entries[s] = NoEntry
TaskUnique == \A s, r \in Slots :
    entries[s].used /\ entries[r].used /\ entries[s].task = entries[r].task
        /\ entries[s].task \in Tasks => s = r
ObjUnique == \A s, r \in Slots :
    entries[s].used /\ entries[r].used /\ entries[s].obj = entries[r].obj
        /\ entries[s].obj \in Objs => s = r
UnboundInv == \A c \in Children, s \in Slots :
    pc[c] \in {"off", "bind"} /\ entries[s].used => entries[s].task # c
Shape == BlankInv /\ TaskUnique /\ ObjUnique /\ UnboundInv

\* A Thread belongs to the task that is starting it or to the one that runs
\* it, and its entry waits for it until it is bound.
Spawning(t) == pc[t] \in {"spawn", "retry"}
Waiting(s, o) == entries[s].used /\ entries[s].obj = o /\ entries[s].task = NoTask
SpawnsInv == \A t \in Tasks : Spawning(t) =>
    arg[t] \in Objs /\ \E s \in Slots : Waiting(s, arg[t])
BindsInv == \A c \in Children : pc[c] = "bind" => Waiting(slot[c], obj[c])
BoundInv == \A c \in Children : Live(c) /\ pc[c] # "bind" =>
    \E s \in Slots : entries[s].used /\ entries[s].obj = obj[c] /\ entries[s].task = c
ObjsInv ==
    /\ \A c \in Children : obj[c] \in Objs <=> Live(c) \/ pc[c] = "exited"
    /\ \A c, d \in Children : obj[c] \in Objs /\ obj[c] = obj[d] => c = d
    /\ \A t \in Tasks, c \in Children : Spawning(t) => obj[c] # arg[t]
    /\ \A t, u \in Tasks : Spawning(t) /\ Spawning(u) /\ arg[t] = arg[u] => t = u
Owners == SpawnsInv /\ BindsInv /\ BoundInv /\ ObjsInv

\* Where a task may still owe notifications; what a stop has reached.
WakersInv == \A t \in Tasks : to_wake[t] # {} => pc[t] \in {"run", "exited", "off", "drain"}
StopInv ==
    /\ pc[Main] \in {"stop", "wake", "drain"} => STOP_JVM \/ Started = {}
    /\ pc[Main] \in {"wake", "drain"} => \A c \in Children : pc[c] # "wait"

\* A task in park_loop has a parked entry, and is due when that says so.
InLoop(t) == pc[t] \in {"loop", "wait", "woken"}
ParkedInv == \A t \in Tasks : InLoop(t) =>
    \E s \in Slots : /\ entries[s].used /\ entries[s].task = t /\ entries[s].park.kind # "None"
                     /\ entries[s].park.kind = "Join" => arg[t] \in Objs
Due(t, s) == \/ entries[s].stopping
             \/ entries[s].interrupted
             \/ entries[s].park.kind = "Wait" /\ entries[s].notified
             \/ /\ entries[s].park.kind = "Join"
                /\ \A r \in Slots : entries[r].used => entries[r].obj # arg[t]
Pending(t) == notif[t] \/ \E u \in Tasks : t \in to_wake[u]
DueInv == \A t \in Tasks, s \in Slots :
    pc[t] = "wait" /\ entries[s].used /\ entries[s].task = t /\ Due(t, s) => Pending(t)

Control == JavaInv /\ PlacesInv /\ WakersInv /\ StopInv
Parking == ParkFlagsFresh /\ ParkedInv /\ DueInv
IInv == TypeOK /\ Control /\ Shape /\ Owners /\ Parking
-----------------------------------------------------------------------------
(* Slots, tasks and entries. *)

LEMMA TaskFacts ==
    /\ Main \in Tasks /\ Children \subseteq Tasks /\ Main \notin Children
    /\ NoTask \notin Tasks /\ NoObj \notin Objs /\ NoKey \notin Keys
    /\ \A t \in Tasks : t # Main => t \in Children
BY TasksAssumption, NamesAssumption DEF Tasks

\* A finite set has a least element, by whatever number its elements carry.
LEMMA Least ==
    ASSUME NEW S, IsFiniteSet(S), S # {}, NEW f \in [S -> Nat]
    PROVE  \E x \in S : \A y \in S : f[x] <= f[y]
<1> DEFINE below(x) == {y \in S : f[y] <= f[x]}
           family == {below(x) : x \in S}
<1>1. family \subseteq FiniteSubsetsOf(S) /\ family # {}
  <2>1. ASSUME NEW x \in S PROVE below(x) \in FiniteSubsetsOf(S)
    BY FS_Subset DEF FiniteSubsetsOf
  <2>2. PICK x : x \in S
    OBVIOUS
  <2>3. below(x) \in family
    BY <2>2
  <2> QED
    BY <2>1, <2>3
<1>2. PICK T \in family : \A U \in family : ~(<<U, T>> \in StrictSubsetOrdering(S))
  <2> HIDE DEF family
  <2> QED
    BY <1>1, FS_StrictSubsetOrderingWellFounded, WFMin
<1>3. PICK x \in S : T = below(x)
  OBVIOUS
<1>4. ASSUME NEW y \in S PROVE f[x] <= f[y]
  <2>1. SUFFICES ASSUME f[y] < f[x] PROVE FALSE
    OBVIOUS
  <2>2. below(y) \subseteq T /\ x \in T /\ x \notin below(y)
    BY <1>3, <2>1
  <2>3. <<below(y), T>> \in StrictSubsetOrdering(S)
    BY <1>3, <2>2 DEF StrictSubsetOrdering
  <2> QED
    BY <1>2, <2>3
<1> QED
  BY <1>4

\* The first slot of a set is one of the set.
LEMMA MinSlot ==
    ASSUME NEW S, S \subseteq Slots, S # {}
    PROVE  Min(S) \in S
<1> DEFINE f == [x \in S |-> x]
<1>1. IsFiniteSet(S)
  BY SlotsAssumption, FS_Subset
<1>2. f \in [S -> Nat]
  BY SlotsAssumption
<1>3. \E x \in S : \A y \in S : f[x] <= f[y]
  <2> HIDE DEF f
  <2> QED
    BY <1>1, <1>2, Least
<1> QED
  BY <1>3 DEF Min

LEMMA AtMostOne ==
    ASSUME NEW S, S \subseteq Slots
    PROVE  Cardinality(S) <= 1 <=> \A s, r \in S : s = r
<1>1. IsFiniteSet(S)
  BY SlotsAssumption, FS_Subset
<1>2. CASE S = {}
  BY <1>2, FS_EmptySet
<1>3. CASE S # {}
  <2>1. PICK x : x \in S
    BY <1>3
  <2>2. IsFiniteSet(S \ {x}) /\ Cardinality(S \ {x}) = Cardinality(S) - 1
    BY <1>1, <2>1, FS_RemoveElement
  <2>3. Cardinality(S \ {x}) = 0 <=> S \ {x} = {}
    BY <2>2, FS_EmptySet
  <2>4. Cardinality(S) \in Nat /\ Cardinality(S \ {x}) \in Nat
    BY <1>1, <2>2, FS_CardinalityType
  <2>5. Cardinality(S) <= 1 <=> S \ {x} = {}
    BY <2>2, <2>3, <2>4
  <2> QED
    BY <2>1, <2>5
<1> QED
  BY <1>2, <1>3

LEMMA EntryFacts ==
    ASSUME TypeOK, NEW s \in Slots
    PROVE  /\ entries[s] \in EntryType
           /\ entries[s].used \in BOOLEAN /\ entries[s].task \in Tasks \cup {NoTask}
           /\ entries[s].obj \in Objs \cup {NoObj} /\ entries[s].interrupted \in BOOLEAN
           /\ entries[s].notified \in BOOLEAN /\ entries[s].stopping \in BOOLEAN
           /\ entries[s].park \in ParkType
BY DEF TypeOK, EntryType

LEMMA BlankFacts ==
    /\ NoEntry \in EntryType /\ ~NoEntry.used /\ ~NoEntry.interrupted /\ ~NoEntry.notified
    /\ ~NoEntry.stopping /\ NoEntry.park.kind = "None" /\ NoEntry.task = NoTask
    /\ NoPark \in ParkType /\ NoPark.kind = "None"
    /\ \A t \in Tasks \cup {NoTask}, o \in Objs \cup {NoObj} :
          /\ blank(t, o) \in EntryType /\ blank(t, o).used /\ blank(t, o).task = t
          /\ blank(t, o).obj = o /\ ~blank(t, o).interrupted /\ ~blank(t, o).notified
          /\ ~blank(t, o).stopping /\ blank(t, o).park = NoPark
<1>1. NoPark \in ParkType /\ NoPark.kind = "None"
  BY BoundAssumption DEF NoPark, ParkType
<1>2. ASSUME NEW t \in Tasks \cup {NoTask}, NEW o \in Objs \cup {NoObj}
      PROVE  /\ blank(t, o) \in EntryType /\ blank(t, o).used /\ blank(t, o).task = t
             /\ blank(t, o).obj = o /\ ~blank(t, o).interrupted /\ ~blank(t, o).notified
             /\ ~blank(t, o).stopping /\ blank(t, o).park = NoPark
  BY <1>1 DEF blank, EntryType
<1>3. /\ NoEntry \in EntryType /\ ~NoEntry.used /\ ~NoEntry.interrupted /\ ~NoEntry.notified
      /\ ~NoEntry.stopping /\ NoEntry.park.kind = "None" /\ NoEntry.task = NoTask
  BY <1>1, <1>2 DEF NoEntry, blank, EntryType
<1> QED
  BY <1>1, <1>2, <1>3

LEMMA EndsIsDue ==
    ASSUME NEW t \in Tasks, NEW s \in Slots
    PROVE  Ends(t, s) <=> Due(t, s)
BY DEF Ends, Satisfied, Due, SlotsOfObj

\* What a collection may free is named by no task.
LEMMA FreshFacts ==
    ASSUME TypeOK, BindsInv, NEW o \in Fresh
    PROVE  /\ o \in Objs /\ \A s \in Slots : entries[s].used => entries[s].obj # o
           /\ \A c \in Children : obj[c] # o
           /\ \A t \in Tasks : Spawning(t) => arg[t] # o
<1>1. o \in Objs /\ \A s \in Slots : entries[s].used => entries[s].obj # o
  BY DEF Fresh, Reachable, SlotsOfObj
<1>2. ASSUME NEW c \in Children PROVE obj[c] # o
  <2>1. pc[c] = "bind" => entries[slot[c]].used /\ entries[slot[c]].obj = obj[c]
    BY DEF BindsInv, Waiting
  <2>2. slot[c] \in Slots
    BY DEF TypeOK
  <2> QED
    BY <1>1, <2>1, <2>2 DEF Fresh, Reachable
<1> QED
  BY <1>1, <1>2 DEF Fresh, Reachable, Spawning
-----------------------------------------------------------------------------
(* What a step may leave alone, and what then still holds. *)

SameNames == \A s \in Slots : /\ entries'[s].used = entries[s].used
                              /\ entries'[s].task = entries[s].task
                              /\ entries'[s].obj = entries[s].obj

\* The life of a thread, as far as the registry tells its stages apart.
Stage(l) == IF l \in {"off", "bind", "exited", "ended"} THEN l ELSE "live"
SameStages == UNCHANGED <<obj, slot>> /\ \A c \in Children : Stage(pc'[c]) = Stage(pc[c])
SameSpawns == \A t \in Tasks :
    pc'[t] \in {"spawn", "retry"} => pc[t] \in {"spawn", "retry"} /\ arg'[t] = arg[t]
SameLoops == \A t \in Tasks :
    /\ pc'[t] \in {"loop", "wait", "woken"} <=> pc[t] \in {"loop", "wait", "woken"}
    /\ pc[t] \in {"loop", "wait", "woken"} => arg'[t] = arg[t]

\* Nobody starts to wait, and a notification that is owed is sent or still owed.
KeepsPending == \A t \in Tasks : pc'[t] = "wait" =>
    /\ pc[t] = "wait" /\ arg'[t] = arg[t] /\ (notif[t] => notif'[t])
    /\ \A u \in Tasks : t \in to_wake[u] => t \in to_wake'[u] \/ notif'[t]

LEMMA ShapeKept ==
    ASSUME Shape, SameNames, SameStages,
           \A s \in Slots : ~entries[s].used => entries'[s] = entries[s]
    PROVE  Shape'
<1>1. \A c \in Children : pc'[c] \in {"off", "bind"} => pc[c] \in {"off", "bind"}
  BY DEF SameStages, Stage
<1> QED
  BY <1>1 DEF Shape, BlankInv, TaskUnique, ObjUnique, UnboundInv, SameNames

LEMMA OwnersKept ==
    ASSUME TypeOK, Owners, SameNames, SameStages, SameSpawns
    PROVE  Owners'
<1>1. SpawnsInv'
  BY DEF Owners, SpawnsInv, Spawning, Waiting, SameNames, SameSpawns
<1>2. BindsInv'
  <2> SUFFICES ASSUME NEW c \in Children, pc'[c] = "bind"
               PROVE  Waiting(slot[c], obj[c])'
    BY DEF BindsInv, Waiting, SameStages
  <2>1. pc[c] = "bind" /\ slot[c] \in Slots
    BY DEF SameStages, Stage, TypeOK
  <2>2. Waiting(slot[c], obj[c])
    BY <2>1 DEF Owners, BindsInv
  <2> QED
    BY <2>1, <2>2 DEF Waiting, SameNames, SameStages
<1>3. BoundInv'
  <2> SUFFICES ASSUME NEW c \in Children, pc'[c] \notin {"off", "exited", "ended", "bind"}
               PROVE  \E s \in Slots : entries'[s].used /\ entries'[s].obj = obj'[c]
                                       /\ entries'[s].task = c
    BY DEF BoundInv, Live
  <2>1. pc[c] \notin {"off", "exited", "ended", "bind"}
    BY DEF SameStages, Stage
  <2> QED
    BY <2>1 DEF Owners, BoundInv, Live, SameNames, SameStages
<1>4. ObjsInv'
  <2>1. \A c \in Children : pc'[c] \notin {"off", "ended"} <=> pc[c] \notin {"off", "ended"}
    BY DEF SameStages, Stage
  <2>2. \A c \in Children : obj'[c] = obj[c]
    BY DEF SameStages
  <2>3. \A c \in Children : obj'[c] \in Objs <=> pc'[c] \notin {"off", "ended"}
    BY <2>1, <2>2 DEF Owners, ObjsInv, Live
  <2>4. /\ \A t \in Tasks, c \in Children : pc'[t] \in {"spawn", "retry"} => obj'[c] # arg'[t]
        /\ \A t, u \in Tasks : pc'[t] \in {"spawn", "retry"} /\ pc'[u] \in {"spawn", "retry"}
                               /\ arg'[t] = arg'[u] => t = u
    BY <2>2 DEF Owners, ObjsInv, Spawning, SameSpawns
  <2>5. \A c, d \in Children : obj'[c] \in Objs /\ obj'[c] = obj'[d] => c = d
    BY <2>2 DEF Owners, ObjsInv
  <2> QED
    BY <2>3, <2>4, <2>5 DEF ObjsInv, Live, Spawning
<1> QED
  BY <1>1, <1>2, <1>3, <1>4 DEF Owners

LEMMA ParkingKept ==
    ASSUME TypeOK, Parking, UNCHANGED entries, SameLoops, KeepsPending
    PROVE  Parking'
<1>1. ParkFlagsFresh'
  BY DEF Parking, ParkFlagsFresh, SameLoops
<1>2. ParkedInv'
  BY DEF Parking, ParkedInv, InLoop, SameLoops
<1>3. DueInv'
  <2> SUFFICES ASSUME NEW t \in Tasks, NEW s \in Slots, pc'[t] = "wait", entries[s].used,
                      entries[s].task = t, Due(t, s)'
               PROVE  notif'[t] \/ \E u \in Tasks : t \in to_wake'[u]
    BY DEF DueInv, Pending
  <2>1. pc[t] = "wait" /\ arg'[t] = arg[t]
    BY DEF KeepsPending
  <2>2. Due(t, s)
    BY <2>1 DEF Due
  <2> QED
    BY <2>1, <2>2 DEF Parking, DueInv, Pending, KeepsPending
<1> QED
  BY <1>1, <1>2, <1>3 DEF Parking

\* A step that leaves the registry alone.
LEMMA RegistryKept ==
    ASSUME IInv, UNCHANGED entries, SameStages, SameSpawns, SameLoops, KeepsPending
    PROVE  Shape' /\ Owners' /\ Parking'
<1>1. SameNames
  BY DEF SameNames
<1> QED
  BY <1>1, ShapeKept, OwnersKept, ParkingKept DEF IInv
-----------------------------------------------------------------------------
(* The steps, one by one. *)

LEMMA QuietSteps ==
    ASSUME IInv, NEW t \in Tasks,
           \/ SpawnRetry(t) \/ Retry(t) \/ Begin(t) \/ Yield(t) \/ WaitReturns(t) \/ Woken(t)
           \/ Notifies(t) \/ StrayNotification(t) \/ UNCHANGED vars
    PROVE  IInv'
<1> USE TaskFacts DEF IInv, Control
<1>1. CASE SpawnRetry(t)
  <2>1. TypeOK'
    BY <1>1 DEF TypeOK, PC, SpawnRetry, Goto
  <2>2. JavaInv' /\ PlacesInv'
    BY <1>1 DEF JavaInv, PlacesInv, TypeOK, SpawnRetry, Goto
  <2>3. WakersInv'
    BY <1>1 DEF WakersInv, TypeOK, SpawnRetry, Goto
  <2>4. StopInv'
    BY <1>1 DEF StopInv, PlacesInv, Started, TypeOK, SpawnRetry, Goto
  <2>5. UNCHANGED entries /\ SameStages /\ SameSpawns /\ SameLoops
    BY <1>1 DEF SameStages, Stage, SameSpawns, SameLoops, PlacesInv, TypeOK, SpawnRetry, Goto
  <2>6. KeepsPending
    BY <1>1 DEF KeepsPending, WakersInv, TypeOK, SpawnRetry, Goto
  <2> QED
    BY <2>1, <2>2, <2>3, <2>4, <2>5, <2>6, RegistryKept DEF IInv, Control
<1>2. CASE Retry(t)
  <2>1. TypeOK'
    BY <1>2 DEF TypeOK, PC, Retry, Goto
  <2>2. JavaInv' /\ PlacesInv'
    BY <1>2 DEF JavaInv, PlacesInv, TypeOK, Retry, Goto
  <2>3. WakersInv'
    BY <1>2 DEF WakersInv, TypeOK, Retry, Goto
  <2>4. StopInv'
    BY <1>2 DEF StopInv, PlacesInv, Started, TypeOK, Retry, Goto
  <2>5. UNCHANGED entries /\ SameStages /\ SameSpawns /\ SameLoops
    BY <1>2 DEF SameStages, Stage, SameSpawns, SameLoops, PlacesInv, TypeOK, Retry, Goto
  <2>6. KeepsPending
    BY <1>2 DEF KeepsPending, WakersInv, TypeOK, Retry, Goto
  <2> QED
    BY <2>1, <2>2, <2>3, <2>4, <2>5, <2>6, RegistryKept DEF IInv, Control
<1>3. CASE Begin(t)
  <2>1. TypeOK'
    BY <1>3 DEF TypeOK, PC, Begin, Goto
  <2>2. JavaInv' /\ PlacesInv'
    BY <1>3 DEF JavaInv, PlacesInv, TypeOK, Begin, Goto
  <2>3. WakersInv'
    BY <1>3 DEF WakersInv, TypeOK, Begin, Goto
  <2>4. StopInv'
    BY <1>3 DEF StopInv, PlacesInv, Started, TypeOK, Begin, Goto
  <2>5. UNCHANGED entries /\ SameStages /\ SameSpawns /\ SameLoops
    BY <1>3 DEF SameStages, Stage, SameSpawns, SameLoops, PlacesInv, TypeOK, Begin, Goto
  <2>6. KeepsPending
    BY <1>3 DEF KeepsPending, WakersInv, TypeOK, Begin, Goto
  <2> QED
    BY <2>1, <2>2, <2>3, <2>4, <2>5, <2>6, RegistryKept DEF IInv, Control
<1>4. CASE Yield(t)
  <2>1. TypeOK'
    BY <1>4 DEF TypeOK, PC, Yield, Interprets, Goto
  <2>2. JavaInv' /\ PlacesInv'
    BY <1>4 DEF JavaInv, PlacesInv, TypeOK, Yield, Interprets, Goto
  <2>3. WakersInv'
    BY <1>4 DEF WakersInv, TypeOK, Yield, Interprets, Goto
  <2>4. StopInv'
    BY <1>4 DEF StopInv, PlacesInv, Started, TypeOK, Yield, Interprets, Goto
  <2>5. UNCHANGED entries /\ SameStages /\ SameSpawns /\ SameLoops
    BY <1>4 DEF SameStages, Stage, SameSpawns, SameLoops, PlacesInv, TypeOK, Yield, Interprets, Goto
  <2>6. KeepsPending
    BY <1>4 DEF KeepsPending, WakersInv, TypeOK, Yield, Interprets, Goto
  <2> QED
    BY <2>1, <2>2, <2>3, <2>4, <2>5, <2>6, RegistryKept DEF IInv, Control
<1>5. CASE WaitReturns(t)
  <2>1. TypeOK'
    BY <1>5 DEF TypeOK, PC, WaitReturns, Goto
  <2>2. JavaInv' /\ PlacesInv'
    BY <1>5 DEF JavaInv, PlacesInv, TypeOK, WaitReturns, Goto
  <2>3. WakersInv'
    BY <1>5 DEF WakersInv, TypeOK, WaitReturns, Goto
  <2>4. StopInv'
    BY <1>5 DEF StopInv, PlacesInv, Started, TypeOK, WaitReturns, Goto
  <2>5. UNCHANGED entries /\ SameStages /\ SameSpawns /\ SameLoops
    BY <1>5 DEF SameStages, Stage, SameSpawns, SameLoops, PlacesInv, TypeOK, WaitReturns, Goto
  <2>6. KeepsPending
    BY <1>5 DEF KeepsPending, WakersInv, TypeOK, WaitReturns, Goto
  <2> QED
    BY <2>1, <2>2, <2>3, <2>4, <2>5, <2>6, RegistryKept DEF IInv, Control
<1>6. CASE Woken(t)
  <2>1. TypeOK'
    BY <1>6 DEF TypeOK, PC, Woken, Goto
  <2>2. JavaInv' /\ PlacesInv'
    BY <1>6 DEF JavaInv, PlacesInv, TypeOK, Woken, Goto
  <2>3. WakersInv'
    BY <1>6 DEF WakersInv, TypeOK, Woken, Goto
  <2>4. StopInv'
    BY <1>6 DEF StopInv, PlacesInv, Started, TypeOK, Woken, Goto
  <2>5. UNCHANGED entries /\ SameStages /\ SameSpawns /\ SameLoops
    BY <1>6 DEF SameStages, Stage, SameSpawns, SameLoops, PlacesInv, TypeOK, Woken, Goto
  <2>6. KeepsPending
    BY <1>6 DEF KeepsPending, WakersInv, TypeOK, Woken, Goto
  <2> QED
    BY <2>1, <2>2, <2>3, <2>4, <2>5, <2>6, RegistryKept DEF IInv, Control
<1>7. CASE Notifies(t)
  <2>1. TypeOK'
    BY <1>7 DEF TypeOK, PC, Notifies
  <2>2. JavaInv' /\ PlacesInv'
    BY <1>7 DEF JavaInv, PlacesInv, TypeOK, Notifies
  <2>3. WakersInv'
    BY <1>7 DEF WakersInv, TypeOK, Notifies
  <2>4. StopInv'
    BY <1>7 DEF StopInv, PlacesInv, Started, TypeOK, Notifies
  <2>5. UNCHANGED entries /\ SameStages /\ SameSpawns /\ SameLoops
    BY <1>7 DEF SameStages, Stage, SameSpawns, SameLoops, PlacesInv, TypeOK, Notifies
  <2>6. KeepsPending
    BY <1>7 DEF KeepsPending, WakersInv, TypeOK, Notifies
  <2> QED
    BY <2>1, <2>2, <2>3, <2>4, <2>5, <2>6, RegistryKept DEF IInv, Control
<1>8. CASE StrayNotification(t)
  <2>1. TypeOK'
    BY <1>8 DEF TypeOK, PC, StrayNotification
  <2>2. JavaInv' /\ PlacesInv'
    BY <1>8 DEF JavaInv, PlacesInv, TypeOK, StrayNotification
  <2>3. WakersInv'
    BY <1>8 DEF WakersInv, TypeOK, StrayNotification
  <2>4. StopInv'
    BY <1>8 DEF StopInv, PlacesInv, Started, TypeOK, StrayNotification
  <2>5. UNCHANGED entries /\ SameStages /\ SameSpawns /\ SameLoops
    BY <1>8 DEF SameStages, Stage, SameSpawns, SameLoops, PlacesInv, TypeOK, StrayNotification
  <2>6. KeepsPending
    BY <1>8 DEF KeepsPending, WakersInv, TypeOK, StrayNotification
  <2> QED
    BY <2>1, <2>2, <2>3, <2>4, <2>5, <2>6, RegistryKept DEF IInv, Control
<1>9. CASE UNCHANGED vars
  <2>1. TypeOK'
    BY <1>9 DEF TypeOK, PC, vars
  <2>2. JavaInv' /\ PlacesInv'
    BY <1>9 DEF JavaInv, PlacesInv, TypeOK, vars
  <2>3. WakersInv'
    BY <1>9 DEF WakersInv, TypeOK, vars
  <2>4. StopInv'
    BY <1>9 DEF StopInv, PlacesInv, Started, TypeOK, vars
  <2>5. UNCHANGED entries /\ SameStages /\ SameSpawns /\ SameLoops
    BY <1>9 DEF SameStages, Stage, SameSpawns, SameLoops, PlacesInv, TypeOK, vars
  <2>6. KeepsPending
    BY <1>9 DEF KeepsPending, WakersInv, TypeOK, vars
  <2> QED
    BY <2>1, <2>2, <2>3, <2>4, <2>5, <2>6, RegistryKept DEF IInv, Control
<1> QED
  BY <1>1, <1>2, <1>3, <1>4, <1>5, <1>6, <1>7, <1>8, <1>9

LEMMA StopSteps ==
    ASSUME IInv, RequestStop \/ AppReturns \/ AbortDelays
    PROVE  IInv'
<1> USE TaskFacts DEF IInv, Control
<1>1. CASE RequestStop
  <2>1. TypeOK'
    BY <1>1 DEF TypeOK, PC, RequestStop
  <2>2. JavaInv' /\ PlacesInv'
    BY <1>1 DEF JavaInv, PlacesInv, TypeOK, RequestStop
  <2>3. WakersInv'
    BY <1>1 DEF WakersInv, TypeOK, RequestStop
  <2>4. StopInv'
    BY <1>1 DEF StopInv, PlacesInv, Started, TypeOK, RequestStop
  <2>5. UNCHANGED entries /\ SameStages /\ SameSpawns /\ SameLoops
    BY <1>1 DEF SameStages, Stage, SameSpawns, SameLoops, PlacesInv, TypeOK, RequestStop
  <2>6. KeepsPending
    BY <1>1 DEF KeepsPending, WakersInv, TypeOK, RequestStop
  <2> QED
    BY <2>1, <2>2, <2>3, <2>4, <2>5, <2>6, RegistryKept DEF IInv, Control
<1>2. CASE AppReturns
  <2>1. TypeOK'
    BY <1>2 DEF TypeOK, PC, AppReturns, Interprets, Goto
  <2>2. JavaInv' /\ PlacesInv'
    BY <1>2 DEF JavaInv, PlacesInv, TypeOK, AppReturns, Interprets, Goto
  <2>3. WakersInv'
    BY <1>2 DEF WakersInv, TypeOK, AppReturns, Interprets, Goto
  <2>4. StopInv'
    BY <1>2 DEF StopInv, PlacesInv, Started, TypeOK, AppReturns, Interprets, Goto
  <2>5. UNCHANGED entries /\ SameStages /\ SameSpawns /\ SameLoops
    BY <1>2 DEF SameStages, Stage, SameSpawns, SameLoops, PlacesInv, TypeOK, AppReturns, Interprets, Goto
  <2>6. KeepsPending
    BY <1>2 DEF KeepsPending, WakersInv, TypeOK, AppReturns, Interprets, Goto
  <2> QED
    BY <2>1, <2>2, <2>3, <2>4, <2>5, <2>6, RegistryKept DEF IInv, Control
<1>3. CASE AbortDelays
  <2>1. TypeOK'
    BY <1>3 DEF TypeOK, PC, AbortDelays
  <2>2. JavaInv' /\ PlacesInv'
    BY <1>3 DEF JavaInv, PlacesInv, TypeOK, AbortDelays
  <2>3. WakersInv'
    BY <1>3 DEF WakersInv, TypeOK, AbortDelays
  <2>4. StopInv'
    BY <1>3 DEF StopInv, PlacesInv, Started, TypeOK, AbortDelays
  <2>5. UNCHANGED entries /\ SameStages /\ SameSpawns /\ SameLoops
    BY <1>3 DEF SameStages, Stage, SameSpawns, SameLoops, PlacesInv, TypeOK, AbortDelays
  <2>6. KeepsPending
    BY <1>3 DEF KeepsPending, WakersInv, TypeOK, AbortDelays
  <2> QED
    BY <2>1, <2>2, <2>3, <2>4, <2>5, <2>6, RegistryKept DEF IInv, Control
<1> QED
  BY <1>1, <1>2, <1>3
-----------------------------------------------------------------------------
(* Steps that write the flags of entries. *)

SameBlanks == \A s \in Slots : ~entries[s].used => entries'[s] = entries[s]

LEMMA NamesKept ==
    ASSUME IInv, SameNames, SameBlanks, SameStages, SameSpawns
    PROVE  Shape' /\ Owners'
BY ShapeKept, OwnersKept DEF IInv, SameBlanks

\* An entry that is not written is due for the reason it was due before, unless
\* the Thread it joins is gone.
LEMMA DueMono ==
    ASSUME NEW u \in Tasks, NEW r \in Slots, arg'[u] = arg[u], entries'[r] = entries[r],
           \A q \in Slots : entries[q].used /\ entries[q].obj = arg[u] =>
               entries'[q].used /\ entries'[q].obj = arg[u],
           Due(u, r)'
    PROVE  Due(u, r)
BY DEF Due

LEMMA DueKept ==
    ASSUME SameNames, NEW u \in Tasks, NEW r \in Slots, arg'[u] = arg[u],
           entries'[r] = entries[r], Due(u, r)'
    PROVE  Due(u, r)
BY DueMono DEF SameNames

\* The entry of a parked task is the parked one.
LEMMA ParkedEntry ==
    ASSUME IInv, NEW u \in Tasks, InLoop(u), NEW s \in Slots, entries[s].used, entries[s].task = u
    PROVE  /\ entries[s].park.kind # "None"
           /\ entries[s].park.kind = "Join" => arg[u] \in Objs
BY DEF IInv, Parking, ParkedInv, Shape, TaskUnique

LEMMA InterruptStep ==
    ASSUME IInv, NEW t \in Tasks, NEW o \in Objs, Interrupt(t, o)
    PROVE  IInv'
<1> USE TaskFacts DEF IInv, Control
<1>1. PICK s \in Slots :
         /\ entries[s].used /\ entries[s].obj = o
         /\ entries' = [entries EXCEPT ![s].interrupted = TRUE]
         /\ to_wake' = [to_wake EXCEPT ![t] =
               IF entries[s].park.kind = "None" THEN {} ELSE {entries[s].task}]
  BY DEF Interrupt, SlotsOfObj
<1>2. /\ java = t /\ pc[t] = "run" /\ to_wake[t] = {}
      /\ UNCHANGED <<wait_seq, java, pc, obj, slot, arg, timed, notif, STOP_JVM>>
  BY DEF Interrupt, Interprets
<1>3. entries[s] \in EntryType
  BY EntryFacts
<1>4. entries[s].park.kind # "None" => entries[s].task \in Tasks
  BY <1>1 DEF Parking, ParkFlagsFresh
<1>5. TypeOK'
  <2>1. entries' \in [Slots -> EntryType]
    BY <1>1, <1>3 DEF TypeOK, EntryType
  <2>2. to_wake' \in [Tasks -> SUBSET Tasks]
    BY <1>1, <1>4 DEF TypeOK
  <2> QED
    BY <1>2, <2>1, <2>2 DEF TypeOK
<1>6. JavaInv' /\ PlacesInv' /\ StopInv'
  BY <1>1, <1>2 DEF JavaInv, PlacesInv, StopInv, Started, TypeOK
<1>7. WakersInv'
  BY <1>1, <1>2 DEF WakersInv, TypeOK
<1>8. SameNames /\ SameBlanks
  BY <1>1 DEF SameNames, SameBlanks, TypeOK, EntryType
<1>9. SameStages /\ SameSpawns
  BY <1>2 DEF SameStages, SameSpawns
<1>10. \A r \in Slots : entries'[r].park = entries[r].park /\ entries'[r].notified = entries[r].notified
  BY <1>1 DEF TypeOK, EntryType
<1>11. ParkFlagsFresh' /\ ParkedInv'
  BY <1>2, <1>8, <1>10 DEF SameNames, Parking, ParkFlagsFresh, ParkedInv, InLoop
<1>12. DueInv'
  <2> SUFFICES ASSUME NEW u \in Tasks, NEW r \in Slots, pc[u] = "wait", entries[r].used,
                      entries[r].task = u, Due(u, r)'
               PROVE  notif[u] \/ \E v \in Tasks : u \in to_wake'[v]
    BY <1>2, <1>8 DEF DueInv, Pending, SameNames
  <2>1. CASE r = s
    <3>1. entries[s].park.kind # "None"
      BY <2>1, ParkedEntry DEF InLoop
    <3> QED
      BY <1>1, <2>1, <3>1 DEF TypeOK
  <2>2. CASE r # s
    <3>1. entries'[r] = entries[r]
      BY <1>1, <2>2 DEF TypeOK
    <3>2. Due(u, r)
      BY <1>2, <1>8, <3>1, DueKept
    <3>3. PICK v \in Tasks : notif[u] \/ u \in to_wake[v]
      BY <3>2, <2>2 DEF Parking, DueInv, Pending
    <3> QED
      BY <1>1, <1>2, <3>3 DEF TypeOK
  <2> QED
    BY <2>1, <2>2
<1> QED
  BY <1>5, <1>6, <1>7, <1>8, <1>9, <1>11, <1>12, NamesKept DEF Parking

LEMMA TakeInterruptedStep ==
    ASSUME IInv, NEW t \in Tasks, TakeInterrupted(t)
    PROVE  IInv'
<1> USE TaskFacts DEF IInv, Control
<1>1. PICK s \in Slots :
         /\ entries[s].used /\ entries[s].task = t
         /\ entries' = [entries EXCEPT ![s].interrupted = FALSE]
  BY DEF TakeInterrupted, SlotsOfTask
<1>2. /\ java = t /\ pc[t] = "run" /\ to_wake[t] = {}
      /\ UNCHANGED <<wait_seq, java, pc, obj, slot, arg, timed, notif, to_wake, STOP_JVM>>
  BY DEF TakeInterrupted, Interprets
<1>3. entries[s] \in EntryType
  BY EntryFacts
<1>5. TypeOK'
  <2>1. entries' \in [Slots -> EntryType]
    BY <1>1, <1>3 DEF TypeOK, EntryType
  <2> QED
    BY <1>2, <2>1 DEF TypeOK
<1>6. JavaInv' /\ PlacesInv' /\ StopInv' /\ WakersInv'
  BY <1>1, <1>2 DEF JavaInv, PlacesInv, StopInv, WakersInv, Started, TypeOK
<1>8. SameNames /\ SameBlanks
  BY <1>1 DEF SameNames, SameBlanks, TypeOK, EntryType
<1>9. SameStages /\ SameSpawns
  BY <1>2 DEF SameStages, SameSpawns
<1>10. \A r \in Slots : entries'[r].park = entries[r].park /\ entries'[r].notified = entries[r].notified
  BY <1>1 DEF TypeOK, EntryType
<1>11. ParkFlagsFresh' /\ ParkedInv'
  BY <1>2, <1>8, <1>10 DEF SameNames, Parking, ParkFlagsFresh, ParkedInv, InLoop
<1>12. DueInv'
  <2> SUFFICES ASSUME NEW u \in Tasks, NEW r \in Slots, pc[u] = "wait", entries[r].used,
                      entries[r].task = u, Due(u, r)'
               PROVE  notif[u] \/ \E v \in Tasks : u \in to_wake[v]
    BY <1>2, <1>8 DEF DueInv, Pending, SameNames
  <2>1. r # s
    BY <1>1, <1>2
  <2>2. entries'[r] = entries[r]
    BY <1>1, <2>1 DEF TypeOK
  <2>3. Due(u, r)
    BY <1>2, <1>8, <2>2, DueKept
  <2> QED
    BY <2>3 DEF Parking, DueInv, Pending
<1> QED
  BY <1>5, <1>6, <1>8, <1>9, <1>11, <1>12, NamesKept DEF Parking

\* notify finds the waiter with the smallest sequence number.
LEMMA LongestWaiting ==
    ASSUME TypeOK, NEW k \in Keys, WaitersOn(k) # {}
    PROVE  (CHOOSE s \in WaitersOn(k) :
              \A r \in WaitersOn(k) : entries[s].park.seq <= entries[r].park.seq)
           \in WaitersOn(k)
<1> DEFINE f == [s \in WaitersOn(k) |-> entries[s].park.seq]
<1>1. WaitersOn(k) \subseteq Slots /\ IsFiniteSet(WaitersOn(k))
  BY SlotsAssumption, FS_Subset DEF WaitersOn
<1>2. \A s \in WaitersOn(k) : entries[s].park.seq \in Nat
  BY <1>1, EntryFacts, BoundAssumption DEF ParkType
<1>3. \E s \in WaitersOn(k) : \A r \in WaitersOn(k) : f[s] <= f[r]
  <2>1. f \in [WaitersOn(k) -> Nat]
    BY <1>2
  <2> HIDE DEF f
  <2> QED
    BY <1>1, <2>1, Least
<1> QED
  BY <1>3

LEMMA NotifyStep ==
    ASSUME IInv, NEW t \in Tasks, NEW k \in Keys, Notify(t, k) \/ NotifyAll(t, k)
    PROVE  IInv'
<1> USE TaskFacts DEF IInv, Control
<1>1. PICK chosen \in SUBSET WaitersOn(k) : Interprets(t) /\ NotifySlots(t, chosen)
  <2>1. CASE NotifyAll(t, k)
    BY <2>1 DEF NotifyAll
  <2>2. CASE Notify(t, k)
    BY <2>2, LongestWaiting DEF Notify
  <2> QED
    BY <2>1, <2>2
<1>2. /\ java = t /\ pc[t] = "run" /\ to_wake[t] = {}
      /\ entries' = [s \in Slots |-> IF s \in chosen THEN [entries[s] EXCEPT !.notified = TRUE]
                                                     ELSE entries[s]]
      /\ to_wake' = [to_wake EXCEPT ![t] = {entries[s].task : s \in chosen}]
      /\ UNCHANGED <<wait_seq, java, pc, obj, slot, arg, timed, notif, STOP_JVM>>
  BY <1>1 DEF NotifySlots, Interprets
<1>3. \A s \in chosen : s \in Slots /\ entries[s].park.kind = "Wait"
  BY <1>1 DEF WaitersOn
<1>4. \A s \in chosen : entries[s].used /\ entries[s].task \in Tasks
  <2> SUFFICES ASSUME NEW s \in chosen PROVE entries[s].used /\ entries[s].task \in Tasks
    OBVIOUS
  <2>1. entries[s] # NoEntry
    BY <1>3, BlankFacts
  <2> QED
    BY <1>3, <2>1 DEF Shape, BlankInv, Parking, ParkFlagsFresh
<1>5. TypeOK'
  <2>1. entries' \in [Slots -> EntryType]
    <3>1. ASSUME NEW s \in Slots PROVE [entries[s] EXCEPT !.notified = TRUE] \in EntryType
      BY EntryFacts DEF EntryType
    <3> QED
      BY <1>2, <3>1 DEF TypeOK
  <2>2. to_wake' \in [Tasks -> SUBSET Tasks]
    BY <1>2, <1>4 DEF TypeOK
  <2> QED
    BY <1>2, <2>1, <2>2 DEF TypeOK
<1>6. JavaInv' /\ PlacesInv' /\ StopInv'
  BY <1>2 DEF JavaInv, PlacesInv, StopInv, Started, TypeOK
<1>7. WakersInv'
  BY <1>2 DEF WakersInv, TypeOK
<1>8. SameNames /\ SameBlanks
  BY <1>2, <1>4 DEF SameNames, SameBlanks, TypeOK, EntryType
<1>9. SameStages /\ SameSpawns
  BY <1>2 DEF SameStages, SameSpawns
<1>10. \A r \in Slots : /\ entries'[r].park = entries[r].park
                        /\ r \notin chosen => entries'[r] = entries[r]
  BY <1>2 DEF TypeOK, EntryType
<1>11. ParkFlagsFresh' /\ ParkedInv'
  <2>1. \A r \in Slots : entries'[r].notified => entries[r].notified \/ entries[r].park.kind = "Wait"
    BY <1>3, <1>10
  <2> QED
    BY <1>2, <1>8, <1>10, <2>1 DEF SameNames, Parking, ParkFlagsFresh, ParkedInv, InLoop
<1>12. DueInv'
  <2> SUFFICES ASSUME NEW u \in Tasks, NEW r \in Slots, pc[u] = "wait", entries[r].used,
                      entries[r].task = u, Due(u, r)'
               PROVE  notif[u] \/ \E v \in Tasks : u \in to_wake'[v]
    BY <1>2, <1>8 DEF DueInv, Pending, SameNames
  <2>1. CASE r \in chosen
    BY <1>2, <2>1 DEF TypeOK
  <2>2. CASE r \notin chosen
    <3>1. Due(u, r)
      BY <1>2, <1>8, <1>10, <2>2, DueKept
    <3>2. PICK v \in Tasks : notif[u] \/ u \in to_wake[v]
      BY <3>1, <2>2 DEF Parking, DueInv, Pending
    <3> QED
      BY <1>2, <3>2 DEF TypeOK
  <2> QED
    BY <2>1, <2>2
<1> QED
  BY <1>5, <1>6, <1>7, <1>8, <1>9, <1>11, <1>12, NamesKept DEF Parking

LEMMA WakeAllParkedStep ==
    ASSUME IInv, WakeAllParked
    PROVE  IInv'
<1> USE TaskFacts DEF IInv, Control
<1>2. /\ pc[Main] = "wake" /\ pc' = [pc EXCEPT ![Main] = "drain"]
      /\ entries' = [s \in Slots |-> IF s \in Parked THEN [entries[s] EXCEPT !.stopping = TRUE]
                                                     ELSE entries[s]]
      /\ to_wake' = [to_wake EXCEPT ![Main] = {entries[s].task : s \in Parked}]
      /\ UNCHANGED <<wait_seq, java, obj, slot, arg, timed, notif, STOP_JVM>>
  BY DEF WakeAllParked, Goto
<1>4. \A s \in Parked : s \in Slots /\ entries[s].used /\ entries[s].task \in Tasks
  <2> SUFFICES ASSUME NEW s \in Parked PROVE s \in Slots /\ entries[s].used /\ entries[s].task \in Tasks
    OBVIOUS
  <2>1. s \in Slots /\ entries[s] # NoEntry /\ entries[s].park.kind # "None"
    BY BlankFacts DEF Parked
  <2> QED
    BY <2>1 DEF Shape, BlankInv, Parking, ParkFlagsFresh
<1>5. TypeOK'
  <2>1. entries' \in [Slots -> EntryType]
    <3>1. ASSUME NEW s \in Slots PROVE [entries[s] EXCEPT !.stopping = TRUE] \in EntryType
      BY EntryFacts DEF EntryType
    <3> QED
      BY <1>2, <3>1 DEF TypeOK
  <2>2. to_wake' \in [Tasks -> SUBSET Tasks]
    BY <1>2, <1>4 DEF TypeOK
  <2> QED
    BY <1>2, <2>1, <2>2 DEF TypeOK, PC
<1>6. JavaInv' /\ PlacesInv'
  BY <1>2 DEF JavaInv, PlacesInv, TypeOK
<1>7. WakersInv' /\ StopInv'
  BY <1>2 DEF WakersInv, StopInv, Started, TypeOK
<1>8. SameNames /\ SameBlanks
  BY <1>2, <1>4 DEF SameNames, SameBlanks, TypeOK, EntryType
<1>9. SameStages /\ SameSpawns
  BY <1>2 DEF SameStages, Stage, SameSpawns, TypeOK
<1>10. \A r \in Slots : entries'[r].park = entries[r].park /\ entries'[r].notified = entries[r].notified
  BY <1>2 DEF TypeOK, EntryType
<1>11. ParkFlagsFresh' /\ ParkedInv'
  <2>1. \A u \in Tasks : pc'[u] \in {"loop", "wait", "woken"} <=> pc[u] \in {"loop", "wait", "woken"}
    BY <1>2 DEF TypeOK
  <2>2. ParkFlagsFresh'
    BY <1>8, <1>10, <2>1 DEF SameNames, Parking, ParkFlagsFresh
  <2>3. ParkedInv'
    BY <1>2, <1>8, <1>10, <2>1 DEF SameNames, Parking, ParkedInv, InLoop
  <2> QED
    BY <2>2, <2>3
<1>12. DueInv'
  <2>1. \A u \in Tasks : pc'[u] # "wait"
    BY <1>2 DEF StopInv, TypeOK
  <2> QED
    BY <2>1 DEF DueInv
<1> QED
  BY <1>5, <1>6, <1>7, <1>8, <1>9, <1>11, <1>12, NamesKept DEF Parking

LEMMA EndParkStep ==
    ASSUME IInv, NEW t \in Tasks, EndPark(t)
    PROVE  IInv'
<1> USE TaskFacts DEF IInv, Control
<1>1. PICK s \in Slots :
         /\ entries[s].used /\ entries[s].task = t
         /\ entries' = [entries EXCEPT ![s].park = NoPark, ![s].notified = FALSE,
                                       ![s].interrupted = @ /\ entries[s].stopping]
  BY DEF EndPark, SlotsOfTask
<1>2. /\ pc[t] = "loop" /\ pc' = [pc EXCEPT ![t] = "run"]
      /\ arg' = [arg EXCEPT ![t] = NoObj] /\ timed' = [timed EXCEPT ![t] = FALSE]
      /\ UNCHANGED <<wait_seq, java, obj, slot, notif, to_wake, STOP_JVM>>
  BY DEF EndPark, Goto
<1>3. /\ entries'[s].park = NoPark /\ ~entries'[s].notified /\ entries'[s] \in EntryType
      /\ entries'[s].used = entries[s].used /\ entries'[s].task = entries[s].task
      /\ entries'[s].obj = entries[s].obj
      /\ \A r \in Slots : r # s => entries'[r] = entries[r]
      /\ entries' \in [Slots -> EntryType]
  <2>1. entries[s] \in EntryType /\ NoPark \in ParkType
    BY EntryFacts, BlankFacts
  <2>2. DOMAIN entries = Slots
    BY DEF TypeOK
  <2> QED
    BY <1>1, <2>1, <2>2 DEF TypeOK, EntryType
<1>5. TypeOK'
  BY <1>2, <1>3 DEF TypeOK, PC
<1>6. JavaInv' /\ PlacesInv'
  BY <1>2 DEF JavaInv, PlacesInv, TypeOK
<1>7. WakersInv' /\ StopInv'
  BY <1>2 DEF WakersInv, PlacesInv, StopInv, Started, TypeOK
<1>8. SameNames /\ SameBlanks
  BY <1>1, <1>3 DEF SameNames, SameBlanks
<1>9. SameStages /\ SameSpawns
  BY <1>2 DEF SameStages, Stage, SameSpawns, TypeOK
<1>10. \A r \in Slots : entries[r].used /\ r # s => entries[r].task # t
  BY <1>1 DEF Shape, TaskUnique
<1>11. ParkFlagsFresh'
  <2> SUFFICES ASSUME NEW r \in Slots, entries[r].used
               PROVE  /\ entries'[r].notified => entries'[r].park.kind = "Wait"
                      /\ entries'[r].park.kind # "None" =>
                            /\ entries'[r].task \in Tasks
                            /\ pc'[entries'[r].task] \in {"loop", "wait", "woken"}
    BY <1>8 DEF ParkFlagsFresh, SameNames
  <2>1. CASE r = s
    BY <1>3, <2>1, BlankFacts
  <2>2. CASE r # s
    BY <1>2, <1>3, <1>10, <2>2 DEF Parking, ParkFlagsFresh, TypeOK
  <2> QED
    BY <2>1, <2>2
<1>12. ParkedInv'
  <2> SUFFICES ASSUME NEW u \in Tasks, pc'[u] \in {"loop", "wait", "woken"}
               PROVE  \E r \in Slots : entries'[r].used /\ entries'[r].task = u
                                       /\ entries'[r].park.kind # "None"
                                       /\ (entries'[r].park.kind = "Join" => arg'[u] \in Objs)
    BY DEF ParkedInv, InLoop
  <2>1. u # t /\ pc[u] \in {"loop", "wait", "woken"} /\ arg'[u] = arg[u]
    BY <1>2 DEF TypeOK
  <2>2. PICK r \in Slots : /\ entries[r].used /\ entries[r].task = u /\ entries[r].park.kind # "None"
                           /\ entries[r].park.kind = "Join" => arg[u] \in Objs
    BY <2>1 DEF Parking, ParkedInv, InLoop
  <2> QED
    BY <1>1, <1>3, <2>1, <2>2
<1>13. DueInv'
  <2> SUFFICES ASSUME NEW u \in Tasks, NEW r \in Slots, pc'[u] = "wait", entries[r].used,
                      entries[r].task = u, Due(u, r)'
               PROVE  notif[u] \/ \E v \in Tasks : u \in to_wake[v]
    BY <1>2, <1>8 DEF DueInv, Pending, SameNames
  <2>1. u # t /\ pc[u] = "wait" /\ arg'[u] = arg[u]
    BY <1>2 DEF TypeOK
  <2>2. Due(u, r)
    BY <1>1, <1>3, <1>8, <2>1, DueKept
  <2> QED
    BY <2>1, <2>2 DEF Parking, DueInv, Pending
<1> QED
  BY <1>5, <1>6, <1>7, <1>8, <1>9, <1>11, <1>12, <1>13, NamesKept DEF Parking

LEMMA BlockStep ==
    ASSUME IInv, NEW t \in Tasks, Block(t)
    PROVE  IInv'
<1> USE TaskFacts DEF IInv, Control
<1>1. PICK s \in Slots : entries[s].used /\ entries[s].task = t /\ ~Due(t, s)
  BY EndsIsDue DEF Block, SlotsOfTask
<1>2. /\ pc[t] = "loop" /\ ~STOP_JVM /\ pc' = [pc EXCEPT ![t] = "wait"] /\ java' = NoTask
      /\ UNCHANGED <<entries, wait_seq, obj, slot, arg, timed, notif, to_wake, STOP_JVM>>
  BY DEF Block, Goto
<1>3. TypeOK'
  BY <1>2 DEF TypeOK, PC
<1>4. JavaInv' /\ PlacesInv' /\ WakersInv'
  BY <1>2 DEF JavaInv, PlacesInv, WakersInv, TypeOK
<1>5. StopInv'
  <2>1. t = Main \/ t \in Started
    BY <1>2 DEF Started
  <2> QED
    BY <1>2, <2>1 DEF StopInv, Started, TypeOK
<1>6. SameStages /\ SameSpawns /\ SameNames /\ SameBlanks
  BY <1>2 DEF SameStages, Stage, SameSpawns, SameNames, SameBlanks, TypeOK
<1>7. ParkFlagsFresh' /\ ParkedInv'
  BY <1>2 DEF Parking, ParkFlagsFresh, ParkedInv, InLoop, TypeOK
<1>8. DueInv'
  <2> SUFFICES ASSUME NEW u \in Tasks, NEW r \in Slots, pc'[u] = "wait", entries[r].used,
                      entries[r].task = u, Due(u, r)'
               PROVE  notif[u] \/ \E v \in Tasks : u \in to_wake[v]
    BY <1>2 DEF DueInv, Pending
  <2>1. Due(u, r)
    BY <1>2 DEF Due
  <2>2. u # t
    BY <1>1, <2>1 DEF Shape, TaskUnique
  <2> QED
    BY <1>2, <2>1, <2>2 DEF Parking, DueInv, Pending, TypeOK
<1> QED
  BY <1>3, <1>4, <1>5, <1>6, <1>7, <1>8, NamesKept DEF Parking
-----------------------------------------------------------------------------
(* Steps by which a task writes its own entry. *)

LEMMA OwnSlot ==
    ASSUME IInv, NEW t \in Tasks, OwnSlots(t) # {}
    PROVE  /\ Min(OwnSlots(t)) \in Slots
           /\ \/ entries[Min(OwnSlots(t))].used /\ entries[Min(OwnSlots(t))].task = t
              \/ /\ ~entries[Min(OwnSlots(t))].used
                 /\ \A r \in Slots : entries[r].used => entries[r].task # t
<1>1. CASE SlotsOfTask(t) # {}
  <2>1. OwnSlots(t) = SlotsOfTask(t) /\ SlotsOfTask(t) \subseteq Slots
    BY <1>1 DEF OwnSlots, SlotsOfTask
  <2>2. Min(OwnSlots(t)) \in SlotsOfTask(t)
    BY <1>1, <2>1, MinSlot
  <2> QED
    BY <2>2 DEF SlotsOfTask
<1>2. CASE SlotsOfTask(t) = {}
  <2>1. FreeSlots # {} /\ OwnSlots(t) = {Min(FreeSlots)} /\ FreeSlots \subseteq Slots
    BY <1>2 DEF OwnSlots, FreeSlots
  <2>2. Min(FreeSlots) \in FreeSlots
    BY <2>1, MinSlot
  <2>3. Min(OwnSlots(t)) \in OwnSlots(t)
    BY <2>1, <2>2, MinSlot
  <2>4. Min(OwnSlots(t)) \in FreeSlots
    BY <2>1, <2>2, <2>3
  <2> QED
    BY <1>2, <2>4 DEF FreeSlots, SlotsOfTask
<1> QED
  BY <1>1, <1>2

\* A child in Java code has an entry, with its Thread; who has none, or one
\* without a Thread, is the UI task.
LEMMA OnlyMainAdopts ==
    ASSUME IInv, NEW t \in Tasks, pc[t] = "run", NEW s \in Slots,
           entries[s].used => entries[s].task = t /\ entries[s].obj = NoObj,
           ~entries[s].used => \A r \in Slots : entries[r].used => entries[r].task # t
    PROVE  t = Main
<1> SUFFICES ASSUME t \in Children PROVE FALSE
  BY TaskFacts
<1>1. PICK r \in Slots : entries[r].used /\ entries[r].obj = obj[t] /\ entries[r].task = t
  BY DEF IInv, Owners, BoundInv, Live
<1>2. obj[t] \in Objs
  BY DEF IInv, Owners, ObjsInv, Live
<1>3. entries[s].used
  BY <1>1
<1>4. r = s
  BY <1>1, <1>3, TaskFacts DEF IInv, Shape, TaskUnique
<1> QED
  BY <1>1, <1>2, <1>3, <1>4, TaskFacts

LEMMA OwnWrite ==
    ASSUME IInv, NEW t \in Tasks, pc[t] = "run", NEW s \in Slots, NEW e \in EntryType,
           entries' = [entries EXCEPT ![s] = e], e.used, e.task = t,
           \/ entries[s].used /\ entries[s].task = t
           \/ ~entries[s].used /\ \A r \in Slots : entries[r].used => entries[r].task # t,
           \/ entries[s].used /\ e.obj = entries[s].obj
           \/ /\ ~entries[s].used \/ entries[s].obj = NoObj
              /\ e.obj \in Fresh \cup {NoObj},
           SameStages, SameSpawns
    PROVE  Shape' /\ Owners'
<1> USE TaskFacts DEF IInv
<1>1. /\ entries'[s] = e /\ \A r \in Slots : r # s => entries'[r] = entries[r]
      /\ \A r \in Slots : entries[r].used => entries'[r].used /\ entries'[r].task = entries[r].task
  BY DEF TypeOK
<1>2. \A r \in Slots : entries[r].used /\ r # s => entries[r].task # t
  BY DEF Shape, TaskUnique
<1>3. BindsInv
  BY DEF Owners
<1>4. \A r \in Slots : entries[r].used /\ r # s /\ entries[r].obj \in Objs => entries[r].obj # e.obj
  <2>1. CASE entries[s].used /\ e.obj = entries[s].obj
    BY <2>1 DEF Shape, ObjUnique
  <2>2. CASE e.obj \in Fresh \cup {NoObj}
    BY <1>3, <2>2, FreshFacts
  <2> QED
    BY <2>1, <2>2
<1>5. t = Main \/ (entries'[s].obj = entries[s].obj /\ entries[s].used)
  <2>1. CASE entries[s].used /\ e.obj = entries[s].obj
    BY <1>1, <2>1
  <2>2. CASE entries[s].used /\ entries[s].obj = NoObj
    <3>1. entries[s].task = t
      BY <2>2
    <3> QED
      BY <2>2, <3>1, OnlyMainAdopts
  <2>3. CASE ~entries[s].used
    <3>1. \A r \in Slots : entries[r].used => entries[r].task # t
      BY <2>3
    <3> QED
      BY <3>1, OnlyMainAdopts
  <2> QED
    BY <2>1, <2>2, <2>3
<1>6. \A c \in Children : pc'[c] \in {"off", "bind"} <=> pc[c] \in {"off", "bind"}
  BY DEF SameStages, Stage
<1>7. Shape'
  <2>1. BlankInv'
    BY <1>1 DEF Shape, BlankInv
  <2>2. TaskUnique'
    BY <1>1, <1>2 DEF Shape, TaskUnique
  <2>3. ObjUnique'
    BY <1>1, <1>4 DEF Shape, ObjUnique
  <2>4. UnboundInv'
    BY <1>1, <1>6 DEF Shape, UnboundInv
  <2> QED
    BY <2>1, <2>2, <2>3, <2>4 DEF Shape
<1>8. Owners'
  <2>1. \A r \in Slots, o \in Objs \cup {NoObj} : Waiting(r, o) =>
           entries'[r].used /\ entries'[r].obj = o /\ entries'[r].task = NoTask
    BY <1>1 DEF Waiting
  <2>2. SpawnsInv'
    BY <2>1 DEF Owners, SpawnsInv, Spawning, Waiting, SameSpawns
  <2>3. BindsInv'
    <3> SUFFICES ASSUME NEW c \in Children, pc'[c] = "bind" PROVE Waiting(slot[c], obj[c])'
      BY DEF BindsInv
    <3>1. pc[c] = "bind" /\ slot[c] \in Slots /\ obj[c] \in Objs \cup {NoObj}
          /\ slot'[c] = slot[c] /\ obj'[c] = obj[c]
      BY DEF SameStages, Stage, TypeOK
    <3>2. Waiting(slot[c], obj[c])
      BY <3>1 DEF Owners, BindsInv
    <3> QED
      BY <2>1, <3>1, <3>2 DEF Waiting
  <2>4. BoundInv'
    <3> SUFFICES ASSUME NEW c \in Children, pc'[c] \notin {"off", "exited", "ended", "bind"}
                 PROVE  \E r \in Slots : entries'[r].used /\ entries'[r].obj = obj'[c]
                                         /\ entries'[r].task = c
      BY DEF BoundInv, Live
    <3>1. pc[c] \notin {"off", "exited", "ended", "bind"} /\ obj'[c] = obj[c]
      BY DEF SameStages, Stage
    <3>2. PICK r \in Slots : entries[r].used /\ entries[r].obj = obj[c] /\ entries[r].task = c
      BY <3>1 DEF Owners, BoundInv, Live
    <3> QED
      BY <1>1, <1>2, <1>5, <3>1, <3>2
  <2>5. ObjsInv'
    <3>1. \A c \in Children : /\ pc'[c] \notin {"off", "ended"} <=> pc[c] \notin {"off", "ended"}
                              /\ obj'[c] = obj[c]
      BY DEF SameStages, Stage
    <3>2. \A c \in Children : obj'[c] \in Objs <=> pc'[c] \notin {"off", "ended"}
      BY <3>1 DEF Owners, ObjsInv, Live
    <3>3. /\ \A u \in Tasks, c \in Children : pc'[u] \in {"spawn", "retry"} => obj'[c] # arg'[u]
          /\ \A u, v \in Tasks : pc'[u] \in {"spawn", "retry"} /\ pc'[v] \in {"spawn", "retry"}
                                 /\ arg'[u] = arg'[v] => u = v
      BY <3>1 DEF Owners, ObjsInv, Spawning, SameSpawns
    <3>4. \A c, d \in Children : obj'[c] \in Objs /\ obj'[c] = obj'[d] => c = d
      BY <3>1 DEF Owners, ObjsInv
    <3> QED
      BY <3>2, <3>3, <3>4 DEF ObjsInv, Live, Spawning
  <2> QED
    BY <2>2, <2>3, <2>4, <2>5 DEF Owners
<1> QED
  BY <1>7, <1>8

\* The others keep their parks, and what they are due.
LEMMA OwnWriteParks ==
    ASSUME IInv, NEW t \in Tasks, pc[t] = "run", NEW s \in Slots, NEW e \in EntryType,
           entries' = [entries EXCEPT ![s] = e], e.used, e.task = t,
           e.notified => e.park.kind = "Wait",
           e.park.kind # "None" => pc'[t] \in {"loop", "wait", "woken"},
           pc'[t] \in {"loop", "wait", "woken"} =>
               e.park.kind # "None" /\ (e.park.kind = "Join" => arg'[t] \in Objs),
           pc'[t] # "wait",
           \A u \in Tasks : u # t => pc'[u] = pc[u] /\ arg'[u] = arg[u],
           \/ entries[s].used /\ entries[s].task = t
           \/ ~entries[s].used /\ \A r \in Slots : entries[r].used => entries[r].task # t,
           entries[s].used => e.obj = entries[s].obj \/ entries[s].obj = NoObj,
           UNCHANGED <<notif, to_wake>>
    PROVE  Parking'
<1> USE TaskFacts DEF IInv
<1>1. entries'[s] = e /\ \A r \in Slots : r # s => entries'[r] = entries[r]
  BY DEF TypeOK
<1>2. \A r \in Slots : entries[r].used /\ r # s => entries[r].task # t
  BY DEF Shape, TaskUnique
<1>3. ParkFlagsFresh'
  <2> SUFFICES ASSUME NEW r \in Slots, entries'[r].used
               PROVE  /\ entries'[r].notified => entries'[r].park.kind = "Wait"
                      /\ entries'[r].park.kind # "None" =>
                            /\ entries'[r].task \in Tasks
                            /\ pc'[entries'[r].task] \in {"loop", "wait", "woken"}
    BY DEF ParkFlagsFresh
  <2>1. CASE r = s
    BY <1>1, <2>1
  <2>2. CASE r # s
    BY <1>1, <1>2, <2>2 DEF Parking, ParkFlagsFresh
  <2> QED
    BY <2>1, <2>2
<1>4. ParkedInv'
  <2> SUFFICES ASSUME NEW u \in Tasks, pc'[u] \in {"loop", "wait", "woken"}
               PROVE  \E r \in Slots : entries'[r].used /\ entries'[r].task = u
                                       /\ entries'[r].park.kind # "None"
                                       /\ (entries'[r].park.kind = "Join" => arg'[u] \in Objs)
    BY DEF ParkedInv, InLoop
  <2>1. CASE u = t
    BY <1>1, <2>1
  <2>2. CASE u # t
    <3>1. pc[u] \in {"loop", "wait", "woken"} /\ arg'[u] = arg[u]
      BY <2>2
    <3>2. PICK r \in Slots : /\ entries[r].used /\ entries[r].task = u /\ entries[r].park.kind # "None"
                             /\ entries[r].park.kind = "Join" => arg[u] \in Objs
      BY <3>1 DEF Parking, ParkedInv, InLoop
    <3>3. r # s
      BY <2>2, <3>2
    <3> QED
      BY <1>1, <3>1, <3>2, <3>3
  <2> QED
    BY <2>1, <2>2
<1>5. DueInv'
  <2> SUFFICES ASSUME NEW u \in Tasks, NEW r \in Slots, pc'[u] = "wait", entries'[r].used,
                      entries'[r].task = u, Due(u, r)'
               PROVE  notif[u] \/ \E v \in Tasks : u \in to_wake[v]
    BY DEF DueInv, Pending
  <2>1. u # t /\ r # s /\ pc[u] = "wait" /\ arg'[u] = arg[u] /\ entries'[r] = entries[r]
    BY <1>1
  <2>2. Due(u, r)
    <3>1. CASE entries[r].park.kind = "Join"
      <4>1. arg[u] \in Objs
        BY <2>1, <3>1, ParkedEntry DEF InLoop
      <4>2. \A q \in Slots : entries[q].used /\ entries[q].obj = arg[u] =>
                entries'[q].used /\ entries'[q].obj = arg[u]
        BY <1>1, <4>1
      <4> QED
        BY <2>1, <4>2, DueMono
    <3>2. CASE entries[r].park.kind # "Join"
      BY <2>1, <3>2 DEF Due
    <3> QED
      BY <3>1, <3>2
  <2> QED
    BY <2>1, <2>2 DEF Parking, DueInv, Pending
<1> QED
  BY <1>3, <1>4, <1>5 DEF Parking
LEMMA AdoptCurrentStep ==
    ASSUME IInv, NEW t \in Tasks, AdoptCurrent(t)
    PROVE  IInv'
<1> USE TaskFacts DEF IInv, Control
<1> DEFINE s == Min(OwnSlots(t))
<1>1. PICK o \in Fresh : entries' = [entries EXCEPT ![s] = [Adopted(t, s) EXCEPT !.obj = o]]
  BY DEF AdoptCurrent
<1>2. /\ java = t /\ pc[t] = "run" /\ to_wake[t] = {} /\ OwnSlots(t) # {}
      /\ Adopted(t, s).obj = NoObj
      /\ UNCHANGED <<wait_seq, java, pc, obj, slot, arg, timed, notif, to_wake, STOP_JVM>>
  BY DEF AdoptCurrent, Interprets
<1>3. /\ s \in Slots
      /\ \/ entries[s].used /\ entries[s].task = t
         \/ ~entries[s].used /\ \A r \in Slots : entries[r].used => entries[r].task # t
  BY <1>2, OwnSlot
<1> HIDE DEF s
<1> DEFINE e == [Adopted(t, s) EXCEPT !.obj = o]
<1>4. o \in Objs
  BY DEF Fresh
<1>5. /\ Adopted(t, s) \in EntryType /\ Adopted(t, s).used /\ Adopted(t, s).task = t
      /\ Adopted(t, s).notified => Adopted(t, s).park.kind = "Wait"
      /\ Adopted(t, s).park.kind = "None"
  <2>1. CASE entries[s].used
    <3>1. Adopted(t, s) = entries[s] /\ entries[s].task = t
      BY <1>3, <2>1 DEF Adopted
    <3>2. entries[s].park.kind = "None" /\ (entries[s].notified => entries[s].park.kind = "Wait")
      BY <1>2, <1>3, <2>1, <3>1 DEF Parking, ParkFlagsFresh
    <3> QED
      BY <1>3, <2>1, <3>1, <3>2, EntryFacts
  <2>2. CASE ~entries[s].used
    BY <2>2, BlankFacts DEF Adopted
  <2> QED
    BY <2>1, <2>2
<1>6. /\ e \in EntryType /\ e.used /\ e.task = t /\ e.obj = o
      /\ e.notified => e.park.kind = "Wait"
      /\ e.park.kind = "None"
  BY <1>4, <1>5 DEF EntryType
<1>7. entries' = [entries EXCEPT ![s] = e]
  BY <1>1
<1> HIDE DEF e
<1>8. entries[s].used => entries[s].obj = NoObj
  BY <1>2 DEF Adopted
<1>9. SameStages /\ SameSpawns
  BY <1>2 DEF SameStages, SameSpawns
<1>10. Shape' /\ Owners'
  BY <1>2, <1>3, <1>6, <1>7, <1>8, <1>9, OwnWrite
<1>11. Parking'
  BY <1>2, <1>3, <1>6, <1>7, <1>8, OwnWriteParks
<1>12. TypeOK'
  BY <1>2, <1>3, <1>6, <1>7 DEF TypeOK
<1>13. Control'
  BY <1>2 DEF JavaInv, PlacesInv, WakersInv, StopInv, Started
<1> QED
  BY <1>10, <1>11, <1>12, <1>13

LEMMA BeginParkStep ==
    ASSUME IInv, NEW t \in Tasks, Interprets(t), NEW park \in ParkType, NEW d \in BOOLEAN,
           BeginPark(t, park, d), park.kind # "None", wait_seq' \in 0..MaxSeq,
           NEW a \in Objs \cup {NoObj}, arg' = [arg EXCEPT ![t] = a], park.kind = "Join" => a \in Objs
    PROVE  IInv'
<1> USE TaskFacts DEF IInv, Control
<1> DEFINE s == Min(OwnSlots(t))
           e == [Adopted(t, s) EXCEPT !.park = park, !.notified = FALSE]
<1>2. /\ java = t /\ pc[t] = "run" /\ to_wake[t] = {} /\ OwnSlots(t) # {}
      /\ entries' = [entries EXCEPT ![s] = e]
      /\ timed' = [timed EXCEPT ![t] = d] /\ pc' = [pc EXCEPT ![t] = "loop"]
      /\ UNCHANGED <<java, obj, slot, notif, to_wake, STOP_JVM>>
  BY DEF BeginPark, Interprets, Goto
<1>3. /\ s \in Slots
      /\ \/ entries[s].used /\ entries[s].task = t
         \/ ~entries[s].used /\ \A r \in Slots : entries[r].used => entries[r].task # t
  BY <1>2, OwnSlot
<1> HIDE DEF s
<1>5. /\ Adopted(t, s) \in EntryType /\ Adopted(t, s).used /\ Adopted(t, s).task = t
      /\ entries[s].used => Adopted(t, s).obj = entries[s].obj
      /\ ~entries[s].used => Adopted(t, s).obj = NoObj
  <2>1. CASE entries[s].used
    <3>1. Adopted(t, s) = entries[s] /\ entries[s].task = t
      BY <1>3, <2>1 DEF Adopted
    <3> QED
      BY <1>3, <2>1, <3>1, EntryFacts
  <2>2. CASE ~entries[s].used
    BY <2>2, BlankFacts DEF Adopted
  <2> QED
    BY <2>1, <2>2
<1>6. /\ e \in EntryType /\ e.used /\ e.task = t /\ ~e.notified /\ e.park = park
      /\ entries[s].used => e.obj = entries[s].obj
      /\ ~entries[s].used => e.obj = NoObj
  BY <1>5 DEF EntryType
<1> HIDE DEF e
<1>9. SameStages /\ SameSpawns
  BY <1>2 DEF SameStages, Stage, SameSpawns, TypeOK
<1>10. Shape' /\ Owners'
  BY <1>2, <1>3, <1>6, <1>9, OwnWrite
<1>11. Parking'
  <2>1. pc'[t] = "loop" /\ arg'[t] = a /\ \A u \in Tasks : u # t => pc'[u] = pc[u] /\ arg'[u] = arg[u]
    BY <1>2 DEF TypeOK
  <2> QED
    BY <1>2, <1>3, <1>6, <2>1, OwnWriteParks
<1>12. TypeOK'
  BY <1>2, <1>3, <1>6 DEF TypeOK, PC
<1>13. Control'
  BY <1>2 DEF JavaInv, PlacesInv, WakersInv, StopInv, Started, TypeOK
<1> QED
  BY <1>10, <1>11, <1>12, <1>13

LEMMA ParkSteps ==
    ASSUME IInv, NEW t \in Tasks, Parks(t)
    PROVE  IInv'
<1>0. arg[t] \in Objs \cup {NoObj} /\ arg = [arg EXCEPT ![t] = arg[t]] /\ wait_seq \in 0..MaxSeq
  BY DEF IInv, TypeOK
<1>1. CASE Sleep(t)
  <2>1. Park("Sleep") \in ParkType /\ Park("Sleep").kind = "Sleep"
    BY BoundAssumption DEF Park, ParkType
  <2>2. Interprets(t) /\ BeginPark(t, Park("Sleep"), TRUE) /\ UNCHANGED <<wait_seq, arg>>
    BY <1>1 DEF Sleep
  <2> QED
    BY <1>0, <2>1, <2>2, BeginParkStep
<1>2. CASE \E o \in Objs, d \in BOOLEAN : Join(t, o, d)
  <2>1. PICK o \in Objs, d \in BOOLEAN : Join(t, o, d)
    BY <1>2
  <2>2. Park("Join") \in ParkType /\ Park("Join").kind = "Join"
    BY BoundAssumption DEF Park, ParkType
  <2>3. /\ Interprets(t) /\ BeginPark(t, Park("Join"), d) /\ UNCHANGED wait_seq
        /\ arg' = [arg EXCEPT ![t] = o]
    BY <2>1 DEF Join
  <2> DEFINE park == Park("Join")
  <2>4. park \in ParkType /\ park.kind # "None" /\ BeginPark(t, park, d) /\ Interprets(t)
    BY <2>2, <2>3
  <2>5. o \in Objs /\ o \in Objs \cup {NoObj} /\ wait_seq' \in 0..MaxSeq
    BY <1>0, <2>3
  <2> HIDE DEF park
  <2> QED
    BY <2>3, <2>4, <2>5, BeginParkStep
<1>3. CASE \E k \in Keys, d \in BOOLEAN : Wait(t, k, d)
  <2>1. PICK k \in Keys, d \in BOOLEAN : Wait(t, k, d)
    BY <1>3
  <2>2. /\ Interprets(t) /\ BeginPark(t, ParkWait(k, wait_seq'), d) /\ UNCHANGED arg
        /\ wait_seq' = wait_seq + 1 /\ wait_seq < MaxSeq
    BY <2>1 DEF Wait
  <2>3. wait_seq' \in 0..MaxSeq
    BY <1>0, <2>2, BoundAssumption
  <2>4. ParkWait(k, wait_seq') \in ParkType /\ ParkWait(k, wait_seq').kind = "Wait"
    BY <2>3 DEF ParkWait, ParkType
  <2> QED
    BY <1>0, <2>2, <2>3, <2>4, BeginParkStep
<1> QED
  BY <1>1, <1>2, <1>3, AdoptCurrentStep, QuietSteps DEF Parks
-----------------------------------------------------------------------------
(* Steps by which an entry comes and goes. *)

LEMMA StartStep ==
    ASSUME IInv, NEW t \in Tasks, Start(t)
    PROVE  IInv'
<1> USE TaskFacts DEF IInv, Control
<1> DEFINE s == Min(FreeSlots)
<1>1. PICK o \in Fresh : entries' = [entries EXCEPT ![s] = blank(NoTask, o)]
                         /\ arg' = [arg EXCEPT ![t] = o]
  BY DEF Start, reserve
<1>2. /\ java = t /\ pc[t] = "run" /\ to_wake[t] = {} /\ FreeSlots # {}
      /\ pc' = [pc EXCEPT ![t] = "spawn"]
      /\ UNCHANGED <<wait_seq, java, obj, slot, timed, notif, to_wake, STOP_JVM>>
  BY DEF Start, Interprets, Goto
<1>3. s \in Slots /\ ~entries[s].used
  <2>1. s \in FreeSlots
    BY <1>2, MinSlot DEF FreeSlots
  <2> QED
    BY <2>1 DEF FreeSlots
<1> HIDE DEF s
<1>4. /\ o \in Objs /\ \A r \in Slots : entries[r].used => entries[r].obj # o
      /\ \A c \in Children : obj[c] # o
      /\ \A u \in Tasks : Spawning(u) => arg[u] # o
  BY FreshFacts DEF Owners
<1>5. /\ entries'[s] \in EntryType /\ entries'[s].used /\ entries'[s].task = NoTask
      /\ entries'[s].obj = o /\ ~entries'[s].notified /\ entries'[s].park.kind = "None"
      /\ \A r \in Slots : r # s => entries'[r] = entries[r]
      /\ \A r \in Slots : entries[r].used => r # s
      /\ entries' \in [Slots -> EntryType]
  <2>1. /\ blank(NoTask, o) \in EntryType /\ blank(NoTask, o).used /\ blank(NoTask, o).task = NoTask
        /\ blank(NoTask, o).obj = o /\ ~blank(NoTask, o).notified
        /\ blank(NoTask, o).park.kind = "None"
    BY <1>4, BlankFacts
  <2>2. entries'[s] = blank(NoTask, o)
    BY <1>1, <1>3 DEF TypeOK
  <2> QED
    BY <1>1, <1>3, <2>1, <2>2 DEF TypeOK
<1>6. TypeOK'
  BY <1>1, <1>2, <1>4, <1>5 DEF TypeOK, PC
<1>7. Control'
  BY <1>2 DEF JavaInv, PlacesInv, WakersInv, StopInv, Started, TypeOK
<1>8. \A c \in Children : Stage(pc'[c]) = Stage(pc[c])
  BY <1>2 DEF Stage, TypeOK
<1>9. Shape'
  <2>1. \A c \in Children : pc'[c] \in {"off", "bind"} => pc[c] \in {"off", "bind"}
    BY <1>8 DEF Stage
  <2> QED
    BY <1>4, <1>5, <2>1 DEF Shape, BlankInv, TaskUnique, ObjUnique, UnboundInv
<1>10. \A u \in Tasks : /\ u # t => pc'[u] = pc[u] /\ arg'[u] = arg[u]
                        /\ u = t => pc'[u] = "spawn" /\ arg'[u] = o
  BY <1>1, <1>2 DEF TypeOK
<1>11. SpawnsInv'
  <2> SUFFICES ASSUME NEW u \in Tasks, pc'[u] \in {"spawn", "retry"}
               PROVE  /\ arg'[u] \in Objs
                      /\ \E r \in Slots : entries'[r].used /\ entries'[r].obj = arg'[u]
                                          /\ entries'[r].task = NoTask
    BY DEF SpawnsInv, Spawning, Waiting
  <2>1. CASE u = t
    BY <1>3, <1>4, <1>5, <1>10, <2>1
  <2>2. CASE u # t
    <3>1. PICK r \in Slots : entries[r].used /\ entries[r].obj = arg[u] /\ entries[r].task = NoTask
      BY <1>10, <2>2 DEF Owners, SpawnsInv, Spawning, Waiting
    <3> QED
      BY <1>5, <1>10, <2>2, <3>1 DEF Owners, SpawnsInv, Spawning
  <2> QED
    BY <2>1, <2>2
<1>12. BindsInv'
  <2> SUFFICES ASSUME NEW c \in Children, pc'[c] = "bind" PROVE Waiting(slot[c], obj[c])'
    BY DEF BindsInv
  <2>1. pc[c] = "bind" /\ slot[c] \in Slots
    BY <1>8 DEF Stage, TypeOK
  <2>2. Waiting(slot[c], obj[c])
    BY <2>1 DEF Owners, BindsInv
  <2> QED
    BY <1>2, <1>5, <2>1, <2>2 DEF Waiting
<1>13. BoundInv'
  <2> SUFFICES ASSUME NEW c \in Children, pc'[c] \notin {"off", "exited", "ended", "bind"}
               PROVE  \E r \in Slots : entries'[r].used /\ entries'[r].obj = obj[c]
                                       /\ entries'[r].task = c
    BY <1>2 DEF BoundInv, Live
  <2>1. pc[c] \notin {"off", "exited", "ended", "bind"}
    BY <1>8 DEF Stage
  <2>2. PICK r \in Slots : entries[r].used /\ entries[r].obj = obj[c] /\ entries[r].task = c
    BY <2>1 DEF Owners, BoundInv, Live
  <2> QED
    BY <1>5, <2>2
<1>14. ObjsInv'
  <2>1. \A c \in Children : pc'[c] \notin {"off", "ended"} <=> pc[c] \notin {"off", "ended"}
    BY <1>8 DEF Stage
  <2>2. \A c \in Children : obj'[c] \in Objs <=> pc'[c] \notin {"off", "ended"}
    BY <1>2, <2>1 DEF Owners, ObjsInv, Live
  <2>3. /\ \A u \in Tasks, c \in Children : pc'[u] \in {"spawn", "retry"} => obj'[c] # arg'[u]
        /\ \A u, v \in Tasks : pc'[u] \in {"spawn", "retry"} /\ pc'[v] \in {"spawn", "retry"}
                               /\ arg'[u] = arg'[v] => u = v
    BY <1>2, <1>4, <1>10 DEF Owners, ObjsInv, Spawning
  <2>4. \A c, d \in Children : obj'[c] \in Objs /\ obj'[c] = obj'[d] => c = d
    BY <1>2 DEF Owners, ObjsInv
  <2> QED
    BY <2>2, <2>3, <2>4 DEF ObjsInv, Live, Spawning
<1>15. Parking'
  <2>1. ParkFlagsFresh'
    BY <1>2, <1>5 DEF Parking, ParkFlagsFresh, TypeOK
  <2>2. ParkedInv'
    <3> SUFFICES ASSUME NEW u \in Tasks, pc'[u] \in {"loop", "wait", "woken"}
                 PROVE  \E r \in Slots : entries'[r].used /\ entries'[r].task = u
                                         /\ entries'[r].park.kind # "None"
                                         /\ (entries'[r].park.kind = "Join" => arg'[u] \in Objs)
      BY DEF ParkedInv, InLoop
    <3>1. u # t /\ pc[u] \in {"loop", "wait", "woken"} /\ arg'[u] = arg[u]
      BY <1>10
    <3>2. PICK r \in Slots : /\ entries[r].used /\ entries[r].task = u /\ entries[r].park.kind # "None"
                             /\ entries[r].park.kind = "Join" => arg[u] \in Objs
      BY <3>1 DEF Parking, ParkedInv, InLoop
    <3> QED
      BY <1>5, <3>1, <3>2
  <2>3. DueInv'
    <3> SUFFICES ASSUME NEW u \in Tasks, NEW r \in Slots, pc'[u] = "wait", entries'[r].used,
                        entries'[r].task = u, Due(u, r)'
                 PROVE  notif[u] \/ \E v \in Tasks : u \in to_wake[v]
      BY <1>2 DEF DueInv, Pending
    <3>1. u # t /\ r # s /\ pc[u] = "wait" /\ arg'[u] = arg[u] /\ entries'[r] = entries[r]
      BY <1>5, <1>10
    <3>2. Due(u, r)
      BY <1>5, <3>1, DueMono
    <3> QED
      BY <3>1, <3>2 DEF Parking, DueInv, Pending
  <2> QED
    BY <2>1, <2>2, <2>3 DEF Parking
<1> QED
  BY <1>6, <1>7, <1>9, <1>11, <1>12, <1>13, <1>14, <1>15 DEF Owners

LEMMA SpawnStep ==
    ASSUME IInv, NEW t \in Tasks, NEW c \in Children, Spawn(t, c)
    PROVE  IInv'
<1> USE TaskFacts DEF IInv, Control
<1>1. PICK s \in Slots : entries[s].used /\ entries[s].obj = arg[t] /\ slot' = [slot EXCEPT ![c] = s]
  BY DEF Spawn, SlotsOfObj
<1>2. /\ pc[t] = "spawn" /\ pc[c] = "off" /\ to_wake[c] = {}
      /\ pc' = [pc EXCEPT ![t] = "run", ![c] = "bind"]
      /\ obj' = [obj EXCEPT ![c] = arg[t]] /\ arg' = [arg EXCEPT ![t] = NoObj]
      /\ UNCHANGED <<entries, wait_seq, java, timed, notif, to_wake, STOP_JVM>>
  BY DEF Spawn, Started
<1>3. t # c /\ pc'[t] = "run" /\ pc'[c] = "bind" /\ obj'[c] = arg[t] /\ arg'[t] = NoObj
      /\ slot'[c] = s /\ \A u \in Tasks : u \notin {t, c} => pc'[u] = pc[u]
  BY <1>1, <1>2 DEF TypeOK
<1>4. /\ \A u \in Tasks : u # t => arg'[u] = arg[u]
      /\ \A d \in Children : d # c => obj'[d] = obj[d] /\ slot'[d] = slot[d]
  BY <1>1, <1>2 DEF TypeOK
<1>5. arg[t] \in Objs /\ entries[s].task = NoTask
  <2>1. PICK r \in Slots : Waiting(r, arg[t]) /\ arg[t] \in Objs
    BY <1>2 DEF Owners, SpawnsInv, Spawning
  <2>2. r = s
    BY <1>1, <2>1 DEF Waiting, Shape, ObjUnique
  <2> QED
    BY <2>1, <2>2 DEF Waiting
<1>6. TypeOK'
  BY <1>1, <1>2 DEF TypeOK, PC
<1>7. JavaInv' /\ PlacesInv' /\ WakersInv'
  BY <1>2, <1>3 DEF JavaInv, PlacesInv, WakersInv, TypeOK
<1>8. StopInv'
  <2>1. t = Main \/ t \in Started
    BY <1>2 DEF Started
  <2> QED
    BY <1>2, <1>3, <2>1 DEF StopInv, Started
<1>9. Shape'
  <2>1. \A d \in Children : pc'[d] \in {"off", "bind"} => pc[d] \in {"off", "bind"}
    BY <1>2, <1>3
  <2>2. UnboundInv'
    BY <1>2, <2>1 DEF Shape, UnboundInv
  <2>3. BlankInv' /\ TaskUnique' /\ ObjUnique'
    BY <1>2 DEF Shape, BlankInv, TaskUnique, ObjUnique
  <2> QED
    BY <2>2, <2>3 DEF Shape
<1>10. SpawnsInv'
  BY <1>2, <1>3, <1>4 DEF Owners, SpawnsInv, Spawning, Waiting
<1>11. BindsInv'
  <2> SUFFICES ASSUME NEW d \in Children, pc'[d] = "bind" PROVE Waiting(slot[d], obj[d])'
    BY DEF BindsInv
  <2>1. CASE d = c
    BY <1>1, <1>2, <1>3, <1>5, <2>1 DEF Waiting
  <2>2. CASE d # c
    <3>1. pc[d] = "bind"
      BY <1>3, <2>2
    <3>2. Waiting(slot[d], obj[d])
      BY <3>1 DEF Owners, BindsInv
    <3> QED
      BY <1>2, <1>4, <2>2, <3>2 DEF Waiting
  <2> QED
    BY <2>1, <2>2
<1>12. BoundInv'
  <2> SUFFICES ASSUME NEW d \in Children, pc'[d] \notin {"off", "exited", "ended", "bind"}
               PROVE  \E r \in Slots : entries[r].used /\ entries[r].obj = obj'[d]
                                       /\ entries[r].task = d
    BY <1>2 DEF BoundInv, Live
  <2>1. d # c /\ pc[d] \notin {"off", "exited", "ended", "bind"}
    BY <1>2, <1>3
  <2> QED
    BY <1>4, <2>1 DEF Owners, BoundInv, Live
<1>13. ObjsInv'
  <2>1. \A d \in Children : obj'[d] \in Objs <=> pc'[d] \notin {"off", "ended"}
    <3> SUFFICES ASSUME NEW d \in Children PROVE obj'[d] \in Objs <=> pc'[d] \notin {"off", "ended"}
      OBVIOUS
    <3>1. obj[d] \in Objs <=> pc[d] \notin {"off", "ended"}
      BY DEF Owners, ObjsInv, Live
    <3> QED
      BY <1>2, <1>3, <1>4, <1>5, <3>1
  <2>2. \A d \in Children, u \in Tasks : pc'[u] \in {"spawn", "retry"} => obj'[d] # arg'[u]
    <3> SUFFICES ASSUME NEW d \in Children, NEW u \in Tasks, pc'[u] \in {"spawn", "retry"}
                 PROVE  obj'[d] # arg'[u]
      OBVIOUS
    <3>1. u # t /\ pc[u] \in {"spawn", "retry"} /\ arg'[u] = arg[u]
      BY <1>3, <1>4
    <3> QED
      BY <1>2, <1>3, <1>4, <3>1 DEF Owners, ObjsInv, Spawning
  <2>3. \A u, v \in Tasks : pc'[u] \in {"spawn", "retry"} /\ pc'[v] \in {"spawn", "retry"}
                            /\ arg'[u] = arg'[v] => u = v
    BY <1>3, <1>4 DEF Owners, ObjsInv, Spawning
  <2>4. \A d, x \in Children : obj'[d] \in Objs /\ obj'[d] = obj'[x] => d = x
    BY <1>2, <1>3, <1>4 DEF Owners, ObjsInv, Spawning
  <2> QED
    BY <2>1, <2>2, <2>3, <2>4 DEF ObjsInv, Live, Spawning
<1>14. SameLoops /\ KeepsPending
  BY <1>2, <1>3, <1>4 DEF SameLoops, KeepsPending
<1>15. Parking'
  BY <1>2, <1>14, ParkingKept
<1> QED
  BY <1>6, <1>7, <1>8, <1>9, <1>10, <1>11, <1>12, <1>13, <1>15 DEF Owners
\* The entries of an ended thread go; whoever is parked in a join is woken.
LEMMA TerminateParks ==
    ASSUME IInv, NEW t \in Tasks, NEW gone \in SUBSET Slots, Terminate(t, gone),
           to_wake[t] = {}, ~InLoop(t), pc'[t] \notin {"loop", "wait", "woken"},
           \A s \in gone : entries[s].used /\ entries[s].task \in {t, NoTask},
           \A u \in Tasks : u # t => pc'[u] = pc[u] /\ arg'[u] = arg[u] /\ notif'[u] = notif[u]
    PROVE  /\ entries' \in [Slots -> EntryType] /\ to_wake' \in [Tasks -> SUBSET Tasks]
           /\ \A s \in gone : entries'[s] = NoEntry
           /\ \A s \in Slots \ gone : entries'[s] = entries[s]
           /\ \A u \in Tasks : u # t => to_wake'[u] = to_wake[u]
           /\ Parking'
<1> USE TaskFacts DEF IInv
<1>1. /\ \A s \in gone : entries'[s] = NoEntry
      /\ \A s \in Slots \ gone : entries'[s] = entries[s]
      /\ \A u \in Tasks : u # t => to_wake'[u] = to_wake[u]
      /\ to_wake'[t] = IF gone = {} THEN {}
             ELSE {entries[s].task : s \in {r \in Slots \ gone : entries[r].park.kind = "Join"}}
  BY DEF Terminate, TypeOK
<1>2. entries' \in [Slots -> EntryType]
  <2>1. ASSUME NEW s \in Slots
        PROVE  (IF s \in gone THEN NoEntry ELSE entries[s]) \in EntryType
    BY BlankFacts, EntryFacts
  <2> QED
    BY <2>1 DEF Terminate
<1>3. to_wake' \in [Tasks -> SUBSET Tasks]
  <2>1. ASSUME NEW r \in Slots, entries[r].park.kind = "Join" PROVE entries[r].task \in Tasks
    <3>1. entries[r].used
      BY <2>1, BlankFacts DEF Shape, BlankInv
    <3> QED
      BY <2>1, <3>1 DEF Parking, ParkFlagsFresh
  <2>2. to_wake'[t] \in SUBSET Tasks
    BY <1>1, <2>1
  <2> QED
    BY <2>2 DEF Terminate, TypeOK
<1>4. \A s \in gone : ~entries'[s].used
  BY <1>1, BlankFacts
<1>5. ParkFlagsFresh'
  <2> SUFFICES ASSUME NEW r \in Slots, entries'[r].used
               PROVE  /\ entries'[r].notified => entries'[r].park.kind = "Wait"
                      /\ entries'[r].park.kind # "None" =>
                            /\ entries'[r].task \in Tasks
                            /\ pc'[entries'[r].task] \in {"loop", "wait", "woken"}
    BY DEF ParkFlagsFresh
  <2>1. entries'[r] = entries[r]
    BY <1>1, <1>4
  <2> QED
    BY <2>1 DEF Parking, ParkFlagsFresh, InLoop
<1>6. ParkedInv'
  <2> SUFFICES ASSUME NEW u \in Tasks, pc'[u] \in {"loop", "wait", "woken"}
               PROVE  \E r \in Slots : entries'[r].used /\ entries'[r].task = u
                                       /\ entries'[r].park.kind # "None"
                                       /\ (entries'[r].park.kind = "Join" => arg'[u] \in Objs)
    BY DEF ParkedInv, InLoop
  <2>1. u # t /\ pc[u] \in {"loop", "wait", "woken"} /\ arg'[u] = arg[u]
    OBVIOUS
  <2>2. PICK r \in Slots : /\ entries[r].used /\ entries[r].task = u /\ entries[r].park.kind # "None"
                           /\ entries[r].park.kind = "Join" => arg[u] \in Objs
    BY <2>1 DEF Parking, ParkedInv, InLoop
  <2>3. entries'[r] = entries[r]
    BY <1>1, <2>1, <2>2
  <2> QED
    BY <2>1, <2>2, <2>3
<1>7. DueInv'
  <2> SUFFICES ASSUME NEW u \in Tasks, NEW r \in Slots, pc'[u] = "wait", entries'[r].used,
                      entries'[r].task = u, Due(u, r)'
               PROVE  notif'[u] \/ \E v \in Tasks : u \in to_wake'[v]
    BY DEF DueInv, Pending
  <2>1. /\ u # t /\ r \notin gone /\ pc[u] = "wait" /\ arg'[u] = arg[u] /\ notif'[u] = notif[u]
        /\ entries'[r] = entries[r]
    BY <1>1, <1>4
  <2>2. CASE gone # {} /\ entries[r].park.kind = "Join"
    BY <1>1, <2>1, <2>2
  <2>3. CASE gone = {} \/ entries[r].park.kind # "Join"
    <3>1. Due(u, r)
      <4>1. CASE gone = {}
        BY <1>1, <2>1, <4>1 DEF Due
      <4>2. CASE entries[r].park.kind # "Join"
        BY <2>1, <4>2 DEF Due
      <4> QED
        BY <2>3, <4>1, <4>2
    <3>2. PICK v \in Tasks : notif[u] \/ u \in to_wake[v]
      BY <2>1, <3>1 DEF Parking, DueInv, Pending
    <3> QED
      BY <1>1, <2>1, <3>2
  <2> QED
    BY <2>2, <2>3
<1> QED
  BY <1>1, <1>2, <1>3, <1>5, <1>6, <1>7 DEF Parking

\* What the others own stays, when the entries that go are not theirs.
LEMMA TerminateOwners ==
    ASSUME IInv, NEW t \in Tasks, NEW gone \in SUBSET Slots,
           \A s \in gone : entries'[s] = NoEntry,
           \A s \in Slots \ gone : entries'[s] = entries[s],
           \A u \in Tasks : u # t => pc'[u] = pc[u] /\ arg'[u] = arg[u],
           \A c \in Children : c # t => slot'[c] = slot[c],
           obj' = obj,
           pc'[t] \in {"off", "bind"} => \A s \in Slots \ gone : entries[s].used => entries[s].task # t,
           pc'[t] \notin {"bind", "spawn", "retry"},
           \A u \in Tasks : u # t /\ Spawning(u) =>
               \A s \in gone : entries[s].task = NoTask => entries[s].obj # arg[u],
           \A c \in Children : c # t /\ pc[c] = "bind" =>
               \A s \in gone : entries[s].task = NoTask => entries[s].obj # obj[c],
           \A s \in gone : entries[s].task \in {t, NoTask},
           t \in Children => /\ Live(t)' => /\ Live(t) /\ pc[t] # "bind"
                                            /\ \A s \in gone : entries[s].task # t
                             /\ Live(t)' \/ pc'[t] = "exited" <=> Live(t) \/ pc[t] = "exited"
    PROVE  Shape' /\ Owners'
<1> USE TaskFacts DEF IInv
<1>1. \A s \in gone : ~entries'[s].used
  BY BlankFacts
<1>2. Shape'
  <2>1. BlankInv' /\ TaskUnique' /\ ObjUnique'
    BY <1>1 DEF Shape, BlankInv, TaskUnique, ObjUnique
  <2>2. UnboundInv'
    BY <1>1 DEF Shape, UnboundInv
  <2> QED
    BY <2>1, <2>2 DEF Shape
<1>3. SpawnsInv'
  <2> SUFFICES ASSUME NEW u \in Tasks, pc'[u] \in {"spawn", "retry"}
               PROVE  /\ arg'[u] \in Objs
                      /\ \E r \in Slots : entries'[r].used /\ entries'[r].obj = arg'[u]
                                          /\ entries'[r].task = NoTask
    BY DEF SpawnsInv, Spawning, Waiting
  <2>1. u # t /\ Spawning(u) /\ arg'[u] = arg[u]
    BY DEF Spawning
  <2>2. PICK r \in Slots : entries[r].used /\ entries[r].obj = arg[u] /\ entries[r].task = NoTask
    BY <2>1 DEF Owners, SpawnsInv, Waiting
  <2>3. r \notin gone
    BY <2>1, <2>2
  <2> QED
    BY <2>1, <2>2, <2>3 DEF Owners, SpawnsInv
<1>4. BindsInv'
  <2> SUFFICES ASSUME NEW c \in Children, pc'[c] = "bind" PROVE Waiting(slot[c], obj[c])'
    BY DEF BindsInv
  <2>1. c # t /\ pc[c] = "bind" /\ slot[c] \in Slots /\ slot'[c] = slot[c]
    BY DEF TypeOK
  <2>2. Waiting(slot[c], obj[c])
    BY <2>1 DEF Owners, BindsInv
  <2>3. slot[c] \notin gone
    BY <2>1, <2>2 DEF Waiting
  <2> QED
    BY <2>1, <2>2, <2>3 DEF Waiting
<1>5. BoundInv'
  <2> SUFFICES ASSUME NEW c \in Children, pc'[c] \notin {"off", "exited", "ended", "bind"}
               PROVE  \E r \in Slots : entries'[r].used /\ entries'[r].obj = obj[c]
                                       /\ entries'[r].task = c
    BY DEF BoundInv, Live
  <2>1. Live(c) /\ pc[c] # "bind" /\ \A s \in gone : entries[s].task # c
    BY DEF Live
  <2> QED
    BY <2>1 DEF Owners, BoundInv
<1>6. ObjsInv'
  <2>1. \A c \in Children : obj[c] \in Objs <=> pc'[c] \notin {"off", "ended"}
    BY DEF Owners, ObjsInv, Live
  <2>2. /\ \A u \in Tasks, c \in Children : pc'[u] \in {"spawn", "retry"} => obj[c] # arg'[u]
        /\ \A u, v \in Tasks : pc'[u] \in {"spawn", "retry"} /\ pc'[v] \in {"spawn", "retry"}
                               /\ arg'[u] = arg'[v] => u = v
    BY DEF Owners, ObjsInv, Spawning
  <2> QED
    BY <2>1, <2>2 DEF Owners, ObjsInv, Live, Spawning
<1> QED
  BY <1>2, <1>3, <1>4, <1>5, <1>6 DEF Owners

LEMMA SpawnFailsStep ==
    ASSUME IInv, NEW t \in Tasks, SpawnFails(t)
    PROVE  IInv'
<1> USE TaskFacts DEF IInv, Control
<1> DEFINE gone == SlotsOfObj(arg[t])
<1>1. /\ pc[t] = "spawn" /\ Terminate(t, gone)
      /\ pc' = [pc EXCEPT ![t] = "run"] /\ arg' = [arg EXCEPT ![t] = NoObj]
      /\ UNCHANGED <<wait_seq, java, obj, slot, timed, notif, STOP_JVM>>
  BY DEF SpawnFails, Goto
<1>2. PICK w \in Slots : Waiting(w, arg[t]) /\ arg[t] \in Objs
  BY <1>1 DEF Owners, SpawnsInv, Spawning
<1>3. /\ gone \in SUBSET Slots
      /\ \A s \in gone : entries[s].used /\ entries[s].obj = arg[t] /\ entries[s].task = NoTask
  BY <1>2 DEF SlotsOfObj, Waiting, Shape, ObjUnique
<1> HIDE DEF gone
<1>4. /\ to_wake[t] = {} /\ pc'[t] = "run" /\ ~InLoop(t)
      /\ \A u \in Tasks : u # t => pc'[u] = pc[u] /\ arg'[u] = arg[u]
  BY <1>1 DEF WakersInv, TypeOK, InLoop
<1>5. /\ entries' \in [Slots -> EntryType] /\ to_wake' \in [Tasks -> SUBSET Tasks]
      /\ \A s \in gone : entries'[s] = NoEntry
      /\ \A s \in Slots \ gone : entries'[s] = entries[s]
      /\ \A u \in Tasks : u # t => to_wake'[u] = to_wake[u]
      /\ Parking'
  BY <1>1, <1>3, <1>4, TerminateParks
<1>6. TypeOK'
  BY <1>1, <1>5 DEF TypeOK, PC
<1>7. JavaInv' /\ PlacesInv'
  BY <1>1, <1>4 DEF JavaInv, PlacesInv
<1>8. WakersInv'
  BY <1>4, <1>5 DEF WakersInv
<1>9. StopInv'
  <2>1. t = Main \/ t \in Started
    BY <1>1 DEF Started
  <2> QED
    BY <1>1, <1>4, <1>5, <2>1 DEF StopInv, Started
<1>10. Shape' /\ Owners'
  <2>1. \A u \in Tasks : u # t /\ Spawning(u) => arg[u] # arg[t]
    BY <1>1 DEF Owners, ObjsInv, Spawning
  <2>2. \A c \in Children : obj[c] # arg[t]
    BY <1>1 DEF Owners, ObjsInv, Spawning
  <2>3. Live(t) /\ Live(t)'
    BY <1>1, <1>4 DEF Live
  <2> QED
    BY <1>1, <1>3, <1>4, <1>5, <2>1, <2>2, <2>3, TerminateOwners, SMTT(30)
<1> QED
  BY <1>5, <1>6, <1>7, <1>8, <1>9, <1>10

LEMMA Exit0Step ==
    ASSUME IInv, NEW c \in Children, Exit0(c)
    PROVE  IInv'
<1> USE TaskFacts DEF IInv, Control
<1> DEFINE gone == SlotsOfObj(obj[c])
<1>1. /\ java = c /\ pc[c] = "run" /\ to_wake[c] = {} /\ Terminate(c, gone)
      /\ pc' = [pc EXCEPT ![c] = "exited"]
      /\ UNCHANGED <<wait_seq, java, obj, slot, arg, timed, notif, STOP_JVM>>
  BY DEF Exit0, Interprets, Goto
<1>2. obj[c] \in Objs /\ Live(c) /\ pc[c] # "bind"
  BY <1>1 DEF Owners, ObjsInv, Live
<1>3. PICK w \in Slots : entries[w].used /\ entries[w].obj = obj[c] /\ entries[w].task = c
  BY <1>2 DEF Owners, BoundInv
<1>4. /\ gone \in SUBSET Slots
      /\ \A s \in gone : entries[s].used /\ entries[s].obj = obj[c] /\ entries[s].task = c
  BY <1>2, <1>3 DEF SlotsOfObj, Shape, ObjUnique
<1> HIDE DEF gone
<1>5. /\ pc'[c] = "exited" /\ ~InLoop(c)
      /\ \A u \in Tasks : u # c => pc'[u] = pc[u]
  BY <1>1 DEF TypeOK, InLoop
<1>6. /\ entries' \in [Slots -> EntryType] /\ to_wake' \in [Tasks -> SUBSET Tasks]
      /\ \A s \in gone : entries'[s] = NoEntry
      /\ \A s \in Slots \ gone : entries'[s] = entries[s]
      /\ \A u \in Tasks : u # c => to_wake'[u] = to_wake[u]
      /\ Parking'
  BY <1>1, <1>4, <1>5, TerminateParks
<1>7. TypeOK'
  BY <1>1, <1>6 DEF TypeOK, PC
<1>8. JavaInv' /\ PlacesInv' /\ WakersInv'
  BY <1>1, <1>5, <1>6 DEF JavaInv, PlacesInv, WakersInv
<1>9. StopInv'
  <2>1. c \in Started
    BY <1>1 DEF Started
  <2> QED
    BY <1>1, <1>5, <1>6, <2>1 DEF StopInv, Started
<1>10. Shape' /\ Owners'
  <2>1. ~Live(c)'
    BY <1>5 DEF Live
  <2> QED
    BY <1>1, <1>2, <1>4, <1>5, <1>6, <2>1, TerminateOwners
<1> QED
  BY <1>6, <1>7, <1>8, <1>9, <1>10

LEMMA TerminateCurrentStep ==
    ASSUME IInv, NEW c \in Children, TerminateCurrent(c)
    PROVE  IInv'
<1> USE TaskFacts
<1> DEFINE gone == SlotsOfTask(c)
<1>1. /\ pc[c] = "ended" /\ Terminate(c, gone)
      /\ pc' = [pc EXCEPT ![c] = "off"]
      /\ slot' = [slot EXCEPT ![c] = Min(Slots)] /\ notif' = [notif EXCEPT ![c] = FALSE]
      /\ UNCHANGED <<wait_seq, java, obj, arg, timed, STOP_JVM>>
  BY DEF TerminateCurrent, Forget, Goto
<1>2. /\ gone \in SUBSET Slots
      /\ \A s \in gone : entries[s].used /\ entries[s].task = c
      /\ \A s \in Slots \ gone : entries[s].used => entries[s].task # c
  BY DEF SlotsOfTask
<1> HIDE DEF gone
<1>3. /\ to_wake[c] = {} /\ pc'[c] = "off" /\ ~InLoop(c)
      /\ \A u \in Tasks : u # c => pc'[u] = pc[u] /\ notif'[u] = notif[u]
      /\ \A d \in Children : d # c => slot'[d] = slot[d]
  BY <1>1 DEF IInv, Control, WakersInv, TypeOK, InLoop
<1>4. /\ entries' \in [Slots -> EntryType] /\ to_wake' \in [Tasks -> SUBSET Tasks]
      /\ \A s \in gone : entries'[s] = NoEntry
      /\ \A s \in Slots \ gone : entries'[s] = entries[s]
      /\ \A u \in Tasks : u # c => to_wake'[u] = to_wake[u]
      /\ Parking'
  <2>1. c \in Tasks /\ gone \in SUBSET Slots /\ Terminate(c, gone)
    BY <1>1, <1>2
  <2>2. pc'[c] \notin {"loop", "wait", "woken"} /\ to_wake[c] = {} /\ ~InLoop(c)
    BY <1>3
  <2>3. \A s \in gone : entries[s].used /\ entries[s].task \in {c, NoTask}
    BY <1>2
  <2>4. \A u \in Tasks : u # c => pc'[u] = pc[u] /\ arg'[u] = arg[u] /\ notif'[u] = notif[u]
    BY <1>1, <1>3
  <2> QED
    BY <2>1, <2>2, <2>3, <2>4, TerminateParks
<1> USE DEF IInv, Control
<1>5. TypeOK'
  <2>1. Min(Slots) \in Slots
    BY SlotsAssumption, MinSlot
  <2> QED
    BY <1>1, <1>4, <2>1 DEF TypeOK, PC
<1>6. JavaInv' /\ PlacesInv' /\ WakersInv'
  BY <1>1, <1>3, <1>4 DEF JavaInv, PlacesInv, WakersInv
<1>7. StopInv'
  <2>1. c \in Started
    BY <1>1 DEF Started
  <2> QED
    BY <1>1, <1>3, <1>4, <2>1 DEF StopInv, Started
<1>8. Shape' /\ Owners'
  <2>1. ~Live(c)' /\ ~Live(c)
    BY <1>1, <1>3 DEF Live
  <2> QED
    BY <1>1, <1>2, <1>3, <1>4, <2>1, TerminateOwners, SMTT(30)
<1> QED
  BY <1>4, <1>5, <1>6, <1>7, <1>8
LEMMA ReturnStep ==
    ASSUME IInv, NEW c \in Children, Return(c)
    PROVE  IInv'
<1> USE TaskFacts DEF IInv, Control
<1>1. /\ java = c /\ pc[c] \in {"exited", "run"} /\ to_wake[c] = {} /\ java' = NoTask
      /\ pc' = [pc EXCEPT ![c] = "ended"] /\ obj' = [obj EXCEPT ![c] = NoObj]
      /\ UNCHANGED <<entries, wait_seq, slot, arg, timed, notif, to_wake, STOP_JVM>>
  BY DEF Return, Goto
<1>2. /\ pc'[c] = "ended" /\ obj'[c] = NoObj /\ \A u \in Tasks : u # c => pc'[u] = pc[u]
      /\ \A d \in Children : d # c => obj'[d] = obj[d]
  BY <1>1 DEF TypeOK
<1>3. TypeOK'
  BY <1>1 DEF TypeOK, PC
<1>4. JavaInv' /\ PlacesInv' /\ WakersInv'
  BY <1>1, <1>2 DEF JavaInv, PlacesInv, WakersInv
<1>5. StopInv'
  <2>1. c \in Started
    BY <1>1 DEF Started
  <2> QED
    BY <1>1, <1>2, <2>1 DEF StopInv
<1>6. Shape'
  <2>1. UnboundInv'
    BY <1>1, <1>2 DEF Shape, UnboundInv
  <2> QED
    BY <1>1, <2>1 DEF Shape, BlankInv, TaskUnique, ObjUnique
<1>7. SpawnsInv'
  BY <1>1, <1>2 DEF Owners, SpawnsInv, Spawning, Waiting
<1>8. BindsInv'
  <2> SUFFICES ASSUME NEW d \in Children, pc'[d] = "bind" PROVE Waiting(slot[d], obj[d])'
    BY DEF BindsInv
  <2>1. d # c /\ pc[d] = "bind" /\ obj'[d] = obj[d]
    BY <1>2
  <2>2. Waiting(slot[d], obj[d])
    BY <2>1 DEF Owners, BindsInv
  <2> QED
    BY <1>1, <2>1, <2>2 DEF Waiting
<1>9. BoundInv'
  BY <1>1, <1>2 DEF Owners, BoundInv, Live
<1>10. ObjsInv'
  <2>1. \A d \in Children : obj'[d] \in Objs <=> pc'[d] \notin {"off", "ended"}
    BY <1>2 DEF Owners, ObjsInv, Live
  <2>2. \A u \in Tasks, d \in Children : pc'[u] \in {"spawn", "retry"} => obj'[d] # arg'[u]
    <3> SUFFICES ASSUME NEW u \in Tasks, NEW d \in Children, pc'[u] \in {"spawn", "retry"}
                 PROVE  obj'[d] # arg[u]
      BY <1>1
    <3>1. Spawning(u) /\ arg[u] \in Objs
      BY <1>2 DEF Owners, SpawnsInv, Spawning
    <3> QED
      BY <1>2, <3>1 DEF Owners, ObjsInv
  <2>3. \A u, v \in Tasks : pc'[u] \in {"spawn", "retry"} /\ pc'[v] \in {"spawn", "retry"}
                            /\ arg'[u] = arg'[v] => u = v
    BY <1>1, <1>2 DEF Owners, ObjsInv, Spawning
  <2>4. \A d, x \in Children : obj'[d] \in Objs /\ obj'[d] = obj'[x] => d = x
    BY <1>2 DEF Owners, ObjsInv
  <2> QED
    BY <2>1, <2>2, <2>3, <2>4 DEF ObjsInv, Live, Spawning
<1>11. SameLoops /\ KeepsPending
  BY <1>1, <1>2 DEF SameLoops, KeepsPending
<1>12. Parking'
  BY <1>1, <1>11, ParkingKept
<1> QED
  BY <1>3, <1>4, <1>5, <1>6, <1>7, <1>8, <1>9, <1>10, <1>12 DEF Owners

LEMMA BindStep ==
    ASSUME IInv, NEW c \in Children, Bind(c)
    PROVE  IInv'
<1> USE TaskFacts DEF IInv, Control
<1> DEFINE s == slot[c]
<1>1. s \in Slots /\ pc[c] = "bind"
  BY DEF TypeOK, Bind
<1>2. entries[s].used /\ entries[s].obj = obj[c] /\ entries[s].task = NoTask
  BY <1>1 DEF Owners, BindsInv, Waiting
<1>3. /\ entries' = [entries EXCEPT ![s] = [entries[s] EXCEPT !.task = c]]
      /\ pc' = [pc EXCEPT ![c] = "ready"]
      /\ UNCHANGED <<wait_seq, java, obj, slot, arg, timed, notif, to_wake, STOP_JVM>>
  BY <1>2 DEF Bind, Goto
<1>4. /\ entries'[s] \in EntryType /\ entries'[s].used /\ entries'[s].task = c
      /\ entries'[s].obj = obj[c] /\ entries'[s].park = entries[s].park
      /\ entries'[s].notified = entries[s].notified
      /\ \A r \in Slots : r # s => entries'[r] = entries[r]
      /\ entries' \in [Slots -> EntryType]
  <2>1. entries'[s] = [entries[s] EXCEPT !.task = c] /\ entries[s] \in EntryType
    BY <1>1, <1>3, EntryFacts DEF TypeOK
  <2> QED
    BY <1>1, <1>2, <1>3, <2>1 DEF TypeOK, EntryType
<1>5. pc'[c] = "ready" /\ \A u \in Tasks : u # c => pc'[u] = pc[u]
  BY <1>3 DEF TypeOK
<1>6. obj[c] \in Objs /\ \A d \in Children : d # c => obj[d] # obj[c]
  BY <1>1 DEF Owners, ObjsInv, Live
<1>7. \A r \in Slots : entries[r].used => entries[r].task # c
  BY <1>1 DEF Shape, UnboundInv
<1> HIDE DEF s
<1>8. TypeOK'
  BY <1>3, <1>4 DEF TypeOK, PC
<1>9. JavaInv' /\ PlacesInv' /\ WakersInv'
  BY <1>1, <1>3, <1>5 DEF JavaInv, PlacesInv, WakersInv
<1>10. StopInv'
  <2>1. c \in Started
    BY <1>1 DEF Started
  <2> QED
    BY <1>3, <1>5, <2>1 DEF StopInv
<1>11. Shape'
  <2>1. \A r \in Slots : r # s => entries'[r] = entries[r]
    BY <1>4
  <2>2. BlankInv'
    BY <1>4 DEF Shape, BlankInv
  <2>3. TaskUnique'
    BY <1>4, <1>7 DEF Shape, TaskUnique
  <2>4. ObjUnique'
    BY <1>1, <1>2, <1>4 DEF Shape, ObjUnique
  <2>5. UnboundInv'
    BY <1>4, <1>5 DEF Shape, UnboundInv
  <2> QED
    BY <2>2, <2>3, <2>4, <2>5 DEF Shape
<1>12. SpawnsInv'
  <2> SUFFICES ASSUME NEW u \in Tasks, pc'[u] \in {"spawn", "retry"}
               PROVE  /\ arg[u] \in Objs
                      /\ \E r \in Slots : entries'[r].used /\ entries'[r].obj = arg[u]
                                          /\ entries'[r].task = NoTask
    BY <1>3 DEF SpawnsInv, Spawning, Waiting
  <2>1. Spawning(u) /\ arg[u] # obj[c]
    BY <1>5 DEF Spawning, Owners, ObjsInv
  <2>2. PICK r \in Slots : entries[r].used /\ entries[r].obj = arg[u] /\ entries[r].task = NoTask
    BY <2>1 DEF Owners, SpawnsInv, Waiting
  <2>3. r # s
    BY <1>2, <2>1, <2>2
  <2> QED
    BY <1>4, <2>1, <2>2, <2>3 DEF Owners, SpawnsInv
<1>13. BindsInv'
  <2> SUFFICES ASSUME NEW d \in Children, pc'[d] = "bind" PROVE Waiting(slot[d], obj[d])'
    BY DEF BindsInv
  <2>1. d # c /\ pc[d] = "bind" /\ slot[d] \in Slots
    BY <1>5 DEF TypeOK
  <2>2. Waiting(slot[d], obj[d])
    BY <2>1 DEF Owners, BindsInv
  <2>3. slot[d] # s
    BY <1>2, <1>6, <2>1, <2>2 DEF Waiting
  <2> QED
    BY <1>3, <1>4, <2>1, <2>2, <2>3 DEF Waiting
<1>14. BoundInv'
  <2> SUFFICES ASSUME NEW d \in Children, pc'[d] \notin {"off", "exited", "ended", "bind"}
               PROVE  \E r \in Slots : entries'[r].used /\ entries'[r].obj = obj[d]
                                       /\ entries'[r].task = d
    BY <1>3 DEF BoundInv, Live
  <2>1. CASE d = c
    BY <1>1, <1>4, <2>1
  <2>2. CASE d # c
    <3>1. PICK r \in Slots : entries[r].used /\ entries[r].obj = obj[d] /\ entries[r].task = d
      BY <1>5, <2>2 DEF Owners, BoundInv, Live
    <3> QED
      BY <1>2, <1>4, <3>1
  <2> QED
    BY <2>1, <2>2
<1>15. ObjsInv'
  <2>1. \A d \in Children : obj[d] \in Objs <=> pc'[d] \notin {"off", "ended"}
    BY <1>1, <1>5 DEF Owners, ObjsInv, Live
  <2>2. /\ \A u \in Tasks, d \in Children : pc'[u] \in {"spawn", "retry"} => obj[d] # arg[u]
        /\ \A u, v \in Tasks : pc'[u] \in {"spawn", "retry"} /\ pc'[v] \in {"spawn", "retry"}
                               /\ arg[u] = arg[v] => u = v
    BY <1>5 DEF Owners, ObjsInv, Spawning
  <2> QED
    BY <1>3, <2>1, <2>2 DEF Owners, ObjsInv, Live, Spawning
<1>16. Parking'
  <2>1. entries[s].park.kind = "None" /\ ~entries[s].notified
    BY <1>1, <1>2 DEF Parking, ParkFlagsFresh
  <2>2. ParkFlagsFresh'
    <3> SUFFICES ASSUME NEW r \in Slots, entries'[r].used
                 PROVE  /\ entries'[r].notified => entries'[r].park.kind = "Wait"
                        /\ entries'[r].park.kind # "None" =>
                              /\ entries'[r].task \in Tasks
                              /\ pc'[entries'[r].task] \in {"loop", "wait", "woken"}
      BY DEF ParkFlagsFresh
    <3>1. CASE r = s
      BY <1>4, <2>1, <3>1
    <3>2. CASE r # s
      BY <1>4, <1>5, <1>7, <3>2 DEF Parking, ParkFlagsFresh
    <3> QED
      BY <3>1, <3>2
  <2>3. ParkedInv'
    <3> SUFFICES ASSUME NEW u \in Tasks, pc'[u] \in {"loop", "wait", "woken"}
                 PROVE  \E r \in Slots : entries'[r].used /\ entries'[r].task = u
                                         /\ entries'[r].park.kind # "None"
                                         /\ (entries'[r].park.kind = "Join" => arg[u] \in Objs)
      BY <1>3 DEF ParkedInv, InLoop
    <3>1. pc[u] \in {"loop", "wait", "woken"}
      BY <1>5
    <3>2. PICK r \in Slots : /\ entries[r].used /\ entries[r].task = u /\ entries[r].park.kind # "None"
                             /\ entries[r].park.kind = "Join" => arg[u] \in Objs
      BY <3>1 DEF Parking, ParkedInv, InLoop
    <3>3. r # s
      BY <2>1, <3>2
    <3> QED
      BY <1>4, <3>2, <3>3
  <2>4. DueInv'
    <3> SUFFICES ASSUME NEW u \in Tasks, NEW r \in Slots, pc'[u] = "wait", entries'[r].used,
                        entries'[r].task = u, Due(u, r)'
                 PROVE  notif[u] \/ \E v \in Tasks : u \in to_wake[v]
      BY <1>3 DEF DueInv, Pending
    <3>1. u # c /\ r # s /\ pc[u] = "wait" /\ entries'[r] = entries[r] /\ arg'[u] = arg[u]
      BY <1>3, <1>4, <1>5
    <3>2. \A q \in Slots : entries[q].used /\ entries[q].obj = arg[u] =>
              entries'[q].used /\ entries'[q].obj = arg[u]
      BY <1>2, <1>4
    <3>3. Due(u, r)
      BY <3>1, <3>2, DueMono
    <3> QED
      BY <3>1, <3>3 DEF Parking, DueInv, Pending
  <2> QED
    BY <2>2, <2>3, <2>4 DEF Parking
<1> QED
  BY <1>8, <1>9, <1>10, <1>11, <1>12, <1>13, <1>14, <1>15, <1>16 DEF Owners

LEMMA ClearStep ==
    ASSUME IInv, Clear
    PROVE  IInv'
<1> USE TaskFacts DEF IInv, Control
<1>1. /\ pc[Main] = "drain" /\ to_wake[Main] = {} /\ java = NoTask /\ java' = Main
      /\ entries' = [s \in Slots |-> NoEntry] /\ wait_seq' = 0 /\ STOP_JVM' = FALSE
      /\ pc' = [pc EXCEPT ![Main] = "run"]
      /\ UNCHANGED <<obj, slot, arg, timed, notif, to_wake>>
  BY DEF Clear, Goto
<1>2. \A c \in Children : pc[c] = "off" /\ to_wake[c] = {}
  BY DEF Clear, Started
<1>3. pc'[Main] = "run" /\ \A c \in Children : pc'[c] = "off"
  BY <1>1, <1>2 DEF TypeOK
<1>4. \A s \in Slots : entries'[s] = NoEntry /\ ~entries'[s].used
  BY <1>1, BlankFacts
<1>5. TypeOK'
  <2>1. entries' \in [Slots -> EntryType]
    BY <1>1, BlankFacts
  <2>2. wait_seq' \in 0..MaxSeq
    BY <1>1, BoundAssumption
  <2>3. pc' \in [Tasks -> PC]
    BY <1>1 DEF TypeOK, PC
  <2>4. java' \in Tasks \cup {NoTask} /\ STOP_JVM' \in BOOLEAN
    BY <1>1
  <2>5. obj' = obj /\ slot' = slot /\ arg' = arg /\ timed' = timed /\ notif' = notif
        /\ to_wake' = to_wake
    BY <1>1
  <2> QED
    BY <2>1, <2>2, <2>3, <2>4, <2>5 DEF TypeOK
<1>6. JavaInv' /\ PlacesInv' /\ WakersInv' /\ StopInv'
  BY <1>1, <1>2, <1>3 DEF JavaInv, PlacesInv, WakersInv, StopInv
<1>7. Shape'
  BY <1>4 DEF Shape, BlankInv, TaskUnique, ObjUnique, UnboundInv
<1>8. Owners'
  <2>1. SpawnsInv' /\ BindsInv' /\ BoundInv'
    BY <1>3 DEF SpawnsInv, BindsInv, BoundInv, Spawning, Live
  <2>2. ObjsInv'
    <3>1. \A c \in Children : obj[c] \notin Objs
      BY <1>2 DEF Owners, ObjsInv, Live
    <3> QED
      BY <1>1, <1>3, <3>1 DEF ObjsInv, Live, Spawning
  <2> QED
    BY <2>1, <2>2 DEF Owners
<1>9. Parking'
  BY <1>3, <1>4 DEF Parking, ParkFlagsFresh, ParkedInv, DueInv, InLoop
<1> QED
  BY <1>5, <1>6, <1>7, <1>8, <1>9

-----------------------------------------------------------------------------
(* The results. *)

LEMMA InitInv == Init => IInv
<1> SUFFICES ASSUME Init PROVE IInv
  OBVIOUS
<1> USE TaskFacts DEF Init
<1>1. TypeOK
  <2>1. Min(Slots) \in Slots
    BY SlotsAssumption, MinSlot
  <2>2. entries \in [Slots -> EntryType]
    BY BlankFacts
  <2>3. wait_seq \in 0..MaxSeq
    BY BoundAssumption
  <2>4. pc \in [Tasks -> PC]
    BY DEF PC
  <2>5. slot \in [Children -> Slots]
    BY <2>1
  <2>6. /\ arg \in [Tasks -> Objs \cup {NoObj}] /\ obj \in [Children -> Objs \cup {NoObj}]
        /\ timed \in [Tasks -> BOOLEAN] /\ notif \in [Tasks -> BOOLEAN]
        /\ to_wake \in [Tasks -> SUBSET Tasks]
        /\ java \in Tasks \cup {NoTask} /\ STOP_JVM \in BOOLEAN
    OBVIOUS
  <2> QED
    BY <2>2, <2>3, <2>4, <2>5, <2>6 DEF TypeOK
<1>2. Control
  BY DEF Control, JavaInv, PlacesInv, WakersInv, StopInv
<1>3. \A s \in Slots : entries[s] = NoEntry /\ ~entries[s].used
  BY BlankFacts
<1>4. Shape
  BY <1>3 DEF Shape, BlankInv, TaskUnique, ObjUnique, UnboundInv
<1>5. Owners
  BY DEF Owners, SpawnsInv, BindsInv, BoundInv, ObjsInv, Live, Spawning
<1>6. Parking
  BY <1>3 DEF Parking, ParkFlagsFresh, ParkedInv, DueInv, InLoop
<1> QED
  BY <1>1, <1>2, <1>4, <1>5, <1>6 DEF IInv

LEMMA NextInv == ASSUME IInv, [Next]_vars PROVE IInv'
<1>1. ASSUME NEW t \in Tasks, Threads(t) PROVE IInv'
  BY <1>1, StartStep, SpawnStep, SpawnFailsStep, QuietSteps DEF Threads
<1>2. ASSUME NEW t \in Tasks, ParkLoop(t) PROVE IInv'
  BY <1>2, EndParkStep, BlockStep, QuietSteps DEF ParkLoop
<1>3. ASSUME NEW t \in Tasks, Wakes(t) PROVE IInv'
  BY <1>3, TakeInterruptedStep, InterruptStep, NotifyStep DEF Wakes
<1>4. ASSUME NEW t \in Tasks, Notifies(t) \/ StrayNotification(t) PROVE IInv'
  BY <1>4, QuietSteps
<1>5. ASSUME NEW c \in Children, Bind(c) \/ Exit0(c) \/ Return(c) \/ TerminateCurrent(c)
      PROVE  IInv'
  BY <1>5, BindStep, Exit0Step, ReturnStep, TerminateCurrentStep
<1>6. CASE RequestStop \/ AppReturns \/ AbortDelays \/ WakeAllParked \/ Clear
  BY <1>6, StopSteps, WakeAllParkedStep, ClearStep
<1>7. CASE UNCHANGED vars
  BY <1>7, QuietSteps, TaskFacts
<1> QED
  BY <1>1, <1>2, <1>3, <1>4, <1>5, <1>6, <1>7, ParkSteps DEF Next

LEMMA Invariant == Spec => []IInv
<1> QED
  BY InitInv, NextInv, PTL DEF Spec

\* Every thread is registered, under its own Thread and its own task, from the
\* reservation of its slot to its end; no lookup by task or by Thread finds two
\* entries, and a task handle is never reused with an entry left behind
\* (reserve, bind_current, slot_of_task, slot_of_obj, terminate_where).
THEOREM RegistryIsTrue == Spec => []RegistryTrue
<1>1. IInv => RegistryTrue
  <2> SUFFICES ASSUME IInv PROVE RegistryTrue
    OBVIOUS
  <2>1. ThreadRegistered
    <3> SUFFICES ASSUME NEW c \in Children, Live(c)
                 PROVE  \E s \in Slots : /\ entries[s].used /\ entries[s].obj = obj[c]
                                         /\ entries[s].task = IF pc[c] = "bind" THEN NoTask ELSE c
      BY DEF ThreadRegistered
    <3>1. CASE pc[c] = "bind"
      <4>1. slot[c] \in Slots
        BY DEF IInv, TypeOK
      <4> QED
        BY <3>1, <4>1 DEF IInv, Owners, BindsInv, Waiting
    <3>2. CASE pc[c] # "bind"
      BY <3>2 DEF IInv, Owners, BoundInv
    <3> QED
      BY <3>1, <3>2
  <2>2. ASSUME NEW o \in Objs PROVE Cardinality(SlotsOfObj(o)) <= 1
    <3>1. SlotsOfObj(o) \subseteq Slots /\ \A s, r \in SlotsOfObj(o) : s = r
      BY DEF SlotsOfObj, IInv, Shape, ObjUnique
    <3> QED
      BY <3>1, AtMostOne
  <2>3. ASSUME NEW t \in Tasks PROVE Cardinality(SlotsOfTask(t)) <= 1
    <3>1. SlotsOfTask(t) \subseteq Slots /\ \A s, r \in SlotsOfTask(t) : s = r
      BY DEF SlotsOfTask, IInv, Shape, TaskUnique
    <3> QED
      BY <3>1, AtMostOne
  <2>4. \A c \in Children : pc[c] = "off" => SlotsOfTask(c) = {}
    BY DEF SlotsOfTask, IInv, Shape, UnboundInv
  <2> QED
    BY <2>1, <2>2, <2>3, <2>4 DEF RegistryTrue, LookupsUnique, IInv
<1> QED
  BY <1>1, Invariant, PTL

\* No park sleeps through its reason to end, and none leaves its flags behind
\* (begin_park, poll_park, end_park, terminate_where, interrupt, notify,
\* wake_all_parked).
THEOREM ParksAreTrue == Spec => []ParksTrue
<1>1. IInv => ParksTrue
  <2> SUFFICES ASSUME IInv PROVE ParksTrue
    OBVIOUS
  <2>1. ASSUME NEW t \in Tasks, pc[t] = "wait", Owed(t)
        PROVE  notif[t] \/ \E u \in Tasks : t \in to_wake[u]
    <3>1. ~(t \in Children /\ pc[Main] \in {"wake", "drain"})
      BY <2>1 DEF IInv, Control, StopInv
    <3>2. PICK s \in SlotsOfTask(t) : Ends(t, s)
      BY <2>1, <3>1 DEF Owed
    <3>3. s \in Slots /\ entries[s].used /\ entries[s].task = t
      BY DEF SlotsOfTask
    <3>4. Due(t, s)
      BY <3>2, <3>3, EndsIsDue
    <3> QED
      BY <2>1, <3>3, <3>4 DEF IInv, Parking, DueInv, Pending
  <2> QED
    BY <2>1 DEF ParksTrue, NoLostWakeup, IInv, Parking
<1> QED
  BY <1>1, Invariant, PTL

=============================================================================
