-------------------------- MODULE ObjectHeapProofs --------------------------
(***************************************************************************)
(* Proofs about ObjectHeap, for any number of tasks, slots, fields and     *)
(* buffers: no span overlaps another, no list shares its buffer, no        *)
(* reference dangles, a collection frees what cannot be reached and        *)
(* nothing else, and all of it is the heap that a Java program sees        *)
(* (JavaHeap), whatever the program does between two collections.  The     *)
(* theorems name the three conditions that the code does not check.        *)
(***************************************************************************)
EXTENDS ObjectHeap, SequenceTheorems, FiniteSetTheorems, TLAPS

\* The condition under which the shadow roots are a stack: one task makes upcalls
\* at a time, or they end in reverse order.
UpcallsNest == LifoUpcalls \/ \A t, u \in Tasks : t = u

\* The program clones no list and no iterator: their clones would share a buffer or lack a
\* state.
PlainClones == Cloned \subseteq {"object"}

\* An object without fields always finds a slot: its refusal would cut the arena to nothing.
NoEmptyRefusals == ~EmptyRefusals

(* What an object o with the arena a refers to: through its fields, the     *)
(* buffer of a list in bufs, the state s of an iterator.                    *)
RefIn(a, o, x) == \E f \in 0..(o.count - 1) : a[o.off + f] = Ref(x)
FirstOf(a, o) == IF o.live /\ 0 < o.count THEN a[o.off + 0] ELSE Null
Owns(a, o) == o.class = "list" /\ FirstOf(a, o)[1] = "int"
BufIn(a, o) == FirstOf(a, o)[2]
ElemIn(b, x) == \E n \in DOMAIN b.elems : b.elems[n] = Ref(x)
IterIn(s, x) == s.used /\ s.owner = x
Refers(a, o, bufs, s, x) == \/ RefIn(a, o, x) \/ IterIn(s, x)
                            \/ Owns(a, o) /\ ElemIn(bufs[BufIn(a, o)], x)
Apart(o, p) == o.off + o.cap <= p.off \/ p.off + p.cap <= o.off

(* The parts of the inductive invariant. *)

ObjectType == [live : BOOLEAN, class : Classes, off : 0..ArenaMax, count : 0..MaxSpan,
               cap : 0..MaxSpan]
BufType == [used : BOOLEAN, elems : Seq(Slots), mods : Nat]
IterType == [used : BOOLEAN, source : Nat, owner : Nat, position : Nat, last : Nat,
             expected : Nat]
UpcallType == [value : Ids, mark : Nat]
KeyType == [off : Int, slot : Nat, cap : Nat]
SideTypes ==
    /\ list_bufs \in [Bufs -> BufType] /\ iter_states \in [Ids -> IterType]
    /\ upcalls \in [Tasks -> Seq(UpcallType)] /\ shadow_roots \in Seq(Ids)
    /\ write_pos \in 0..ArenaMax /\ after \in KeyType

\* Spans lie in the arena and apart; a free slot is blank; the part of a span that was
\* never written is null, so a count that grows over it exposes no old reference.
SpansInv ==
    /\ \A i \in Ids : objects[i].live =>
          /\ objects[i].count <= objects[i].cap
          /\ objects[i].cap > 0 => objects[i].off + objects[i].cap <= arena_len
    /\ \A i, j \in Ids : objects[i].live /\ objects[j].live /\ i # j
                         /\ objects[i].cap > 0 /\ objects[j].cap > 0
                         => Apart(objects[i], objects[j])
SlotsInv ==
    /\ \A i \in Ids : i < first_free => objects[i].live
    /\ \A i \in Ids : ~objects[i].live => objects[i] = NoObject
    /\ \A i \in Ids : objects[i].live =>
          \A f \in objects[i].count..(objects[i].cap - 1) : fields_arena[objects[i].off + f] = Null

\* Lists and buffers, iterators and lists.
ListsInv ==
    /\ \A i \in Ids : objects[i].live /\ Owns(fields_arena, objects[i])
                      => list_bufs[BufIn(fields_arena, objects[i])].used
    /\ \A i, j \in Ids : /\ objects[i].live /\ objects[j].live
                         /\ Owns(fields_arena, objects[i]) /\ Owns(fields_arena, objects[j])
                         /\ BufIn(fields_arena, objects[i]) = BufIn(fields_arena, objects[j])
                         => i = j
Walks(s, o) == s.source = BufIn(fields_arena, o) /\ Owns(fields_arena, o) /\ o.live
IterInv ==
    /\ \A i \in Ids : iter_states[i].used => objects[i].live /\ objects[i].class = "iterator"
    /\ \A i \in Ids : iter_states[i].used /\ (phase = "sweep" => i \in marks) =>
          /\ iter_states[i].owner \in Ids /\ (phase = "sweep" => iter_states[i].owner \in marks)
          /\ Walks(iter_states[i], objects[iter_states[i].owner])

\* No reference dangles, in a root or in an object.
RefsInv ==
    phase # "sweep" =>
        /\ \A t \in Tasks : \A x \in frames[t] : objects[x].live
        /\ \A n \in DOMAIN shadow_roots : objects[shadow_roots[n]].live
        /\ \A i, x \in Ids :
              objects[i].live /\ Refers(fields_arena, objects[i], list_bufs, iter_states[i], x)
              => objects[x].live

\* Each shadow root is the value of one upcall, those of a task in the order they began.
UpcallsInv ==
    /\ \A t \in Tasks : \A k \in DOMAIN upcalls[t] :
          /\ upcalls[t][k].mark + 1 \in DOMAIN shadow_roots
          /\ shadow_roots[upcalls[t][k].mark + 1] = upcalls[t][k].value
    /\ \A n \in DOMAIN shadow_roots : \E t \in Tasks : \E k \in DOMAIN upcalls[t] :
          upcalls[t][k].mark + 1 = n
    /\ \A t \in Tasks : \A k, j \in DOMAIN upcalls[t] :
          k < j => upcalls[t][k].mark < upcalls[t][j].mark
    /\ \A t, u \in Tasks : \A k \in DOMAIN upcalls[t], j \in DOMAIN upcalls[u] :
          upcalls[t][k].mark = upcalls[u][j].mark => t = u

\* The collector: at rest it keeps nothing; what is marked is live, and unless the mark
\* stack was exhausted whatever it refers to is marked or waits; a sweep has all of it.
RestInv == /\ phase = "idle" => work = {} /\ marks = {} /\ ~exhausted
           /\ phase # "slide" => write_pos = 0 /\ slice = {} /\ after = NoKey
Grey == marks \cup work
RootsIn(L) == /\ \A t \in Tasks : frames[t] \subseteq L
              /\ \A n \in DOMAIN shadow_roots : shadow_roots[n] \in L
ClosedFrom(S, L) ==
    \A i, x \in Ids : i \in S /\ Refers(fields_arena, objects[i], list_bufs, iter_states[i], x)
                      => x \in L
MarkInv == phase = "mark" => /\ \A i \in Grey : objects[i].live
                             /\ ~exhausted => RootsIn(Grey) /\ ClosedFrom(marks, Grey)
                             /\ exhausted => work = {}
SweepInv == phase = "sweep" => /\ \A i \in marks : objects[i].live
                               /\ RootsIn(marks) /\ ClosedFrom(marks, marks) /\ work = {}

\* A slide: the spans up to the last key moved lie below write_pos without a gap, the
\* others still above it, and the slice is the lowest of those.
KeyOf(o, i) == [off |-> o.off, slot |-> i, cap |-> o.cap]
Due(i) == objects[i].live /\ objects[i].cap > 0 /\ Below(after, KeyOf(objects[i], i))
SlideInv ==
    phase = "slide" =>
        /\ \A k \in slice : k.slot \in Ids /\ Due(k.slot) /\ k = KeyOf(objects[k.slot], k.slot)
        /\ \A k \in slice : \A j \in Ids : Due(j) /\ KeyOf(objects[j], j) \notin slice
                                           => Below(k, KeyOf(objects[j], j))
        /\ \A i \in Ids : objects[i].live /\ objects[i].cap > 0 =>
              /\ Below(after, KeyOf(objects[i], i)) => write_pos <= objects[i].off
              /\ ~Below(after, KeyOf(objects[i], i)) => objects[i].off + objects[i].cap <= write_pos
        /\ \A p \in 0..(write_pos - 1) : \E i \in Ids :
              /\ objects[i].live /\ objects[i].cap > 0
              /\ objects[i].off <= p /\ p < objects[i].off + objects[i].cap
        /\ write_pos <= arena_len

Store == SpansInv /\ SlotsInv
Collector == RestInv /\ MarkInv /\ SweepInv /\ SlideInv
IInv == TypeOK /\ SideTypes /\ Store /\ ListsInv /\ IterInv /\ RefsInv /\ UpcallsInv /\ Collector

-----------------------------------------------------------------------------
(* References and least elements. *)

LEMMA RefFacts ==
    /\ \A x, y : Ref(x) = Ref(y) => x = y
    /\ \A x : Ref(x)[1] = "ref" /\ Ref(x)[2] = x /\ Ref(x) # Null
    /\ Null[1] # "int" /\ Null[1] # "ref" /\ Null \in Slots
    /\ \A b : IntSlot(b)[1] = "int" /\ IntSlot(b)[2] = b
    /\ \A b, x : IntSlot(b) # Ref(x)
    /\ \A x \in Ids : Ref(x) \in Slots
    /\ \A b \in Bufs : IntSlot(b) \in Slots
BY DEF Ref, Null, IntSlot, Slots

LEMMA SlotFacts ==
    ASSUME NEW v \in Slots
    PROVE  /\ v[1] = "ref" => v[2] \in Ids /\ v = Ref(v[2])
           /\ v[1] = "int" => v[2] \in Bufs /\ v = IntSlot(v[2])
           /\ \A x : v = Ref(x) => x \in Ids /\ v[1] = "ref" /\ v[2] = x
BY RefFacts DEF Ref, Null, IntSlot, Slots

LEMMA TargetFacts ==
    ASSUME NEW S, S \subseteq Slots
    PROVE  Targets(S) = {x \in Ids : \E v \in S : v = Ref(x)}
<1>1. ASSUME NEW x \in Targets(S) PROVE x \in Ids /\ \E v \in S : v = Ref(x)
  <2>1. PICK v \in S : v[1] = "ref" /\ x = v[2]
    BY <1>1 DEF Targets
  <2> QED
    BY <2>1, SlotFacts
<1>2. ASSUME NEW v \in S, NEW x \in Ids, v = Ref(x) PROVE x \in Targets(S)
  <2>1. v[1] = "ref" /\ v[2] = x
    BY <1>2, RefFacts
  <2> QED
    BY <2>1 DEF Targets
<1> QED
  BY <1>1, <1>2

\* A reference held in one value.
LEMMA HoldOne ==
    ASSUME NEW v \in Slots
    PROVE  Targets({v}) \subseteq Ids /\ \A x \in Targets({v}) : v = Ref(x)
<1>1. Targets({v}) = {x \in Ids : \E w \in {v} : w = Ref(x)}
  BY TargetFacts
<1> QED
  BY <1>1

LEMMA HoldRef ==
    ASSUME NEW i \in Ids
    PROVE  Targets({Ref(i)}) = {i}
<1>1. Ref(i) \in Slots
  BY RefFacts
<1>2. Targets({Ref(i)}) = {x \in Ids : \E w \in {Ref(i)} : w = Ref(x)}
  BY <1>1, TargetFacts
<1>3. \A x \in Ids : x \in Targets({Ref(i)}) <=> Ref(i) = Ref(x)
  BY <1>2
<1>4. \A x : x \in Targets({Ref(i)}) => x \in Ids
  BY <1>2
<1> QED
  BY <1>3, <1>4, RefFacts

LEMMA FiniteLeast ==
    ASSUME NEW S, IsFiniteSet(S), S # {}, NEW f \in [S -> Nat]
    PROVE  \E x \in S : \A y \in S : f[x] <= f[y]
<1> DEFINE below(x) == {y \in S : f[y] <= f[x]}
           family == {below(x) : x \in S}
<1>1. family \subseteq FiniteSubsetsOf(S) /\ family # {}
  <2>1. ASSUME NEW x \in S PROVE below(x) \in FiniteSubsetsOf(S)
    BY FS_Subset DEF FiniteSubsetsOf
  <2>2. PICK x : x \in S
    OBVIOUS
  <2>3. below(x) \in family
    BY <2>2
  <2> QED
    BY <2>1, <2>3
<1>2. PICK T \in family : \A U \in family : ~(<<U, T>> \in StrictSubsetOrdering(S))
  <2> HIDE DEF family
  <2> QED
    BY <1>1, FS_StrictSubsetOrderingWellFounded, WFMin
<1>3. PICK x \in S : T = below(x)
  OBVIOUS
<1>4. ASSUME NEW y \in S PROVE f[x] <= f[y]
  <2>1. SUFFICES ASSUME f[y] < f[x] PROVE FALSE
    OBVIOUS
  <2>2. below(y) \subseteq T /\ x \in T /\ x \notin below(y)
    BY <1>3, <2>1
  <2>3. <<below(y), T>> \in StrictSubsetOrdering(S)
    BY <1>3, <2>2 DEF StrictSubsetOrdering
  <2> QED
    BY <1>2, <2>3
<1> QED
  BY <1>4

\* A set of naturals has a least element.
LEMMA LeastNat ==
    ASSUME NEW S, S \subseteq Nat, S # {}
    PROVE  \E x \in S : \A y \in S : x <= y
<1>1. PICK m \in S : TRUE
  OBVIOUS
<1> DEFINE T == {x \in S : x <= m}
           f == [x \in T |-> x]
<1>2. IsFiniteSet(T) /\ m \in T
  <2>0. m \in Int /\ 0 \in Int /\ T \subseteq 0..m
    <3>1. m \in Nat
      BY <1>1
    <3>2. ASSUME NEW x \in T PROVE x \in 0..m
      BY <1>1, <3>1, <3>2
    <3> HIDE DEF T
    <3> QED
      BY <3>1, <3>2
  <2>1. IsFiniteSet(0..m) /\ T \subseteq 0..m
    <3> HIDE DEF T
    <3> QED
      BY <2>0, FS_Interval
  <2> QED
    BY <1>1, <2>1, FS_Subset
<1>3. f \in [T -> Nat]
  OBVIOUS
<1>4. PICK x \in T : \A y \in T : f[x] <= f[y]
  <2> HIDE DEF f, T
  <2> QED
    BY <1>2, <1>3, FiniteLeast
<1>5. ASSUME NEW y \in S PROVE x <= y
  <2>1. CASE y \in T
    <3>1. f[x] = x /\ f[y] = y
      BY <2>1
    <3> QED
      BY <1>4, <2>1, <3>1
  <2>2. CASE y \notin T
    BY <1>1, <2>2
  <2> QED
    BY <2>1, <2>2
<1> QED
  BY <1>4, <1>5

LEMMA LowestFacts ==
    ASSUME NEW S, S \subseteq Nat, S # {}
    PROVE  Lowest(S) \in S /\ \A y \in S : Lowest(S) <= y
BY LeastNat DEF Lowest

LEMMA IdsFacts == /\ MaxSlots \in Nat /\ ArenaMax \in Nat /\ MaxSpan \in Nat /\ MaxBufs \in Nat
                  /\ Ids \subseteq Nat /\ Bufs \subseteq Nat
BY SizesAssumption DEF Ids, Bufs

\* Two objects with the same content refer to the same.
LEMMA SameContent ==
    ASSUME NEW a, NEW b, NEW o \in ObjectType, NEW p \in ObjectType,
           p.count = o.count, p.class = o.class, p.live = o.live,
           \A f \in 0..(o.count - 1) : b[p.off + f] = a[o.off + f]
    PROVE  /\ FirstOf(b, p) = FirstOf(a, o) /\ BufIn(b, p) = BufIn(a, o)
           /\ Owns(b, p) <=> Owns(a, o)
           /\ \A x : RefIn(b, p, x) <=> RefIn(a, o, x)
<1>1. o.count \in Nat
  BY IdsFacts DEF ObjectType
<1>2. FirstOf(b, p) = FirstOf(a, o)
  <2>1. CASE 0 < o.count
    BY <1>1, <2>1 DEF FirstOf
  <2>2. CASE ~(0 < o.count)
    BY <2>2 DEF FirstOf
  <2> QED
    BY <2>1, <2>2
<1>3. \A x : RefIn(b, p, x) <=> RefIn(a, o, x)
  BY <1>1 DEF RefIn
<1> QED
  BY <1>2, <1>3 DEF BufIn, Owns

\* What an object refers to lies in the program's range.
LEMMA OwnedBuf ==
    ASSUME TypeOK, SpansInv, NEW i \in Ids, objects[i].live
    PROVE  /\ FirstOf(fields_arena, objects[i]) \in Slots
           /\ Owns(fields_arena, objects[i]) => BufIn(fields_arena, objects[i]) \in Bufs
<1>1. /\ objects[i].count <= objects[i].cap /\ objects[i].count \in Nat /\ objects[i].cap \in Nat
      /\ objects[i].off \in Nat /\ arena_len \in Nat /\ arena_len <= ArenaMax
      /\ objects[i].cap > 0 => objects[i].off + objects[i].cap <= arena_len
  BY IdsFacts DEF TypeOK, SpansInv
<1>2. FirstOf(fields_arena, objects[i]) \in Slots
  <2>1. CASE 0 < objects[i].count
    <3>1. objects[i].off + 0 \in Arena
      BY <1>1, <2>1, IdsFacts DEF Arena
    <3> QED
      BY <2>1, <3>1, RefFacts DEF TypeOK, FirstOf
  <2>2. CASE ~(0 < objects[i].count)
    BY <2>2, RefFacts DEF FirstOf
  <2> QED
    BY <2>1, <2>2
<1> QED
  BY <1>2, SlotFacts DEF Owns, BufIn

LEMMA GetField ==
    ASSUME NEW i \in Ids
    PROVE  /\ get_field(i, 0) = FirstOf(fields_arena, objects[i])
           /\ HasBuf(i) <=> Owns(fields_arena, objects[i])
           /\ BufOf(i) = BufIn(fields_arena, objects[i])
BY DEF get_field, FirstOf, HasBuf, Owns, BufOf, BufIn

-----------------------------------------------------------------------------
(* Between collections: the operations of the tasks. *)

\* While the collector is at rest, its part of the invariant is that it stays so.
LEMMA AtRest ==
    ASSUME IInv, phase = "idle", UNCHANGED gc
    PROVE  Collector'
<1>1. /\ phase' = "idle" /\ work' = {} /\ marks' = {} /\ ~exhausted'
      /\ write_pos' = 0 /\ slice' = {} /\ after' = NoKey
  BY DEF gc, IInv, Collector, RestInv
<1> QED
  BY <1>1 DEF Collector, RestInv, MarkInv, SweepInv, SlideInv

\* A step that changes only what frames, lists and iterators hold.
LEMMA SidesStep ==
    ASSUME IInv, phase = "idle", UNCHANGED <<store, natives, gc>>,
           frames' \in [Tasks -> SUBSET Ids],
           \A t \in Tasks : \A x \in frames'[t] : objects[x].live,
           list_bufs' \in [Bufs -> BufType], iter_states' \in [Ids -> IterType],
           \A b \in Bufs : list_bufs'[b].used = list_bufs[b].used,
           \A i \in Ids : /\ iter_states'[i].used = iter_states[i].used
                          /\ iter_states'[i].owner = iter_states[i].owner
                          /\ iter_states'[i].source = iter_states[i].source,
           \A b \in Bufs, x \in Ids : ElemIn(list_bufs'[b], x) /\ ~ElemIn(list_bufs[b], x)
                                      => objects[x].live
    PROVE  IInv'
<1>1. /\ objects' = objects /\ fields_arena' = fields_arena /\ arena_len' = arena_len
      /\ first_free' = first_free /\ upcalls' = upcalls /\ shadow_roots' = shadow_roots
      /\ phase' = phase /\ work' = work /\ marks' = marks /\ exhausted' = exhausted
      /\ write_pos' = write_pos /\ slice' = slice /\ after' = after
  BY DEF store, natives, gc
<1>2. TypeOK' /\ SideTypes'
  BY <1>1 DEF IInv, TypeOK, SideTypes
<1>3. Store' /\ UpcallsInv'
  BY <1>1 DEF IInv, Store, SpansInv, SlotsInv, UpcallsInv
<1>4. ListsInv'
  <2>1. \A i \in Ids : objects[i].live /\ Owns(fields_arena, objects[i])
                       => BufIn(fields_arena, objects[i]) \in Bufs
    BY OwnedBuf DEF IInv, Store
  <2> QED
    BY <1>1, <2>1 DEF IInv, ListsInv
<1>5. IterInv'
  BY <1>1 DEF IInv, IterInv, Walks
<1>6. RefsInv'
  <2>1. ASSUME NEW i \in Ids, NEW x \in Ids, objects[i].live,
               Refers(fields_arena, objects[i], list_bufs', iter_states'[i], x)
        PROVE  objects[x].live
    <3>1. CASE Refers(fields_arena, objects[i], list_bufs, iter_states[i], x)
      BY <2>1, <3>1 DEF IInv, RefsInv
    <3>2. CASE /\ Owns(fields_arena, objects[i])
               /\ ElemIn(list_bufs'[BufIn(fields_arena, objects[i])], x)
               /\ ~ElemIn(list_bufs[BufIn(fields_arena, objects[i])], x)
      <4>1. BufIn(fields_arena, objects[i]) \in Bufs
        BY <2>1, <3>2, OwnedBuf DEF IInv, Store
      <4> QED
        BY <3>2, <4>1
    <3> QED
      BY <2>1, <3>1, <3>2 DEF Refers, IterIn
  <2>2. \A n \in DOMAIN shadow_roots : objects[shadow_roots[n]].live
    BY DEF IInv, RefsInv
  <2> QED
    BY <1>1, <2>1, <2>2 DEF RefsInv
<1> QED
  BY <1>2, <1>3, <1>4, <1>5, <1>6, AtRest DEF IInv

\* What a value of the program may be, and what a frame may take.
LEMMA ValueFacts ==
    ASSUME IInv, phase = "idle", NEW t \in Tasks, NEW v \in Values(t)
    PROVE  v \in Slots /\ v[1] # "int" /\ \A x \in Ids : v = Ref(x) => objects[x].live
<1>1. frames[t] \subseteq Ids /\ \A x \in frames[t] : objects[x].live
  BY DEF IInv, TypeOK, RefsInv
<1>2. CASE v = Null
  BY <1>2, RefFacts
<1>3. ASSUME NEW i \in frames[t], v = Ref(i)
      PROVE  v \in Slots /\ v[1] # "int" /\ \A x \in Ids : v = Ref(x) => objects[x].live
  BY <1>1, <1>3, RefFacts
<1> QED
  BY <1>2, <1>3 DEF Values

LEMMA HoldLive ==
    ASSUME IInv, phase = "idle", NEW t \in Tasks, NEW v \in Slots, Hold(t, v),
           \A x \in Ids : v = Ref(x) => objects[x].live
    PROVE  /\ frames' \in [Tasks -> SUBSET Ids]
           /\ \A u \in Tasks : \A x \in frames'[u] : objects[x].live
<1>1. Targets({v}) \subseteq Ids /\ \A x \in Targets({v}) : v = Ref(x)
  BY HoldOne
<1>2. frames \in [Tasks -> SUBSET Ids] /\ frames' = [frames EXCEPT ![t] = @ \cup Targets({v})]
  BY DEF IInv, TypeOK, Hold
<1>3. \A u \in Tasks : \A x \in frames[u] : objects[x].live
  BY DEF IInv, RefsInv
<1> HIDE DEF IInv
<1> QED
  BY <1>1, <1>2, <1>3

LEMMA FramesKeep ==
    ASSUME IInv, phase = "idle"
    PROVE  /\ frames \in [Tasks -> SUBSET Ids]
           /\ \A u \in Tasks : \A x \in frames[u] : objects[x].live
BY DEF IInv, TypeOK, RefsInv

\* What the fields of an object hold.
LEMMA FieldFacts ==
    ASSUME TypeOK, SpansInv, NEW i \in Ids, objects[i].live, NEW f \in 0..(objects[i].cap - 1)
    PROVE  objects[i].off + f \in Arena /\ fields_arena[objects[i].off + f] \in Slots
<1>1. /\ objects[i].cap \in Nat /\ objects[i].off \in Nat /\ arena_len \in Nat /\ arena_len <= ArenaMax
      /\ objects[i].cap > 0 => objects[i].off + objects[i].cap <= arena_len
  BY IdsFacts DEF TypeOK, SpansInv
<1>2. objects[i].off + f \in Arena
  BY <1>1, IdsFacts DEF Arena
<1> QED
  BY <1>2 DEF TypeOK

LEMMA GetStep ==
    ASSUME IInv, phase = "idle", NEW t \in Tasks, NEW i \in frames[t], Get(t, i)
    PROVE  IInv'
<1>1. PICK f \in 0..(MaxSpan - 1) : Hold(t, get_field(i, f))
  BY DEF Get
<1>2. UNCHANGED <<store, sides, natives, gc>>
  BY DEF Get
<1>3. i \in Ids /\ objects[i].live
  BY FramesKeep
<1>4. /\ get_field(i, f) \in Slots
      /\ \A x \in Ids : get_field(i, f) = Ref(x) => objects[x].live
  <2>1. CASE f < objects[i].count
    <3>1. f \in 0..(objects[i].cap - 1) /\ f \in 0..(objects[i].count - 1)
      BY <1>1, <1>3, <2>1, IdsFacts DEF IInv, TypeOK, Store, SpansInv
    <3>2. get_field(i, f) = fields_arena[objects[i].off + f]
      BY <1>3, <2>1 DEF get_field
    <3>3. fields_arena[objects[i].off + f] \in Slots
      BY <1>3, <3>1, FieldFacts DEF IInv, Store
    <3>4. ASSUME NEW x \in Ids, fields_arena[objects[i].off + f] = Ref(x) PROVE objects[x].live
      <4>1. Refers(fields_arena, objects[i], list_bufs, iter_states[i], x)
        BY <3>1, <3>4 DEF Refers, RefIn
      <4> QED
        BY <1>3, <4>1 DEF IInv, RefsInv
    <3> QED
      BY <3>2, <3>3, <3>4
  <2>2. CASE ~(f < objects[i].count)
    BY <2>2, RefFacts DEF get_field
  <2> QED
    BY <2>1, <2>2
<1>5. list_bufs' = list_bufs /\ iter_states' = iter_states
  BY <1>2 DEF sides
<1>6. /\ frames' \in [Tasks -> SUBSET Ids]
      /\ \A u \in Tasks : \A x \in frames'[u] : objects[x].live
  BY <1>1, <1>4, HoldLive
<1>7. list_bufs' \in [Bufs -> BufType] /\ iter_states' \in [Ids -> IterType]
  BY <1>5 DEF IInv, SideTypes
<1> QED
  BY <1>2, <1>5, <1>6, <1>7, SidesStep

LEMMA DropPassStep ==
    ASSUME IInv, phase = "idle", NEW t \in Tasks, NEW i \in frames[t],
           Drop(t, i) \/ \E u \in Tasks : Pass(t, i, u)
    PROVE  IInv'
<1>1. UNCHANGED <<store, sides, natives, gc>>
  BY DEF Drop, Pass
<1>2. i \in Ids /\ objects[i].live
  BY FramesKeep
<1>3. /\ frames' \in [Tasks -> SUBSET Ids]
      /\ \A u \in Tasks : \A x \in frames'[u] : objects[x].live
  <2>1. CASE Drop(t, i)
    <3>1. frames' = [frames EXCEPT ![t] = @ \ {i}]
      BY <2>1 DEF Drop
    <3> QED
      BY <3>1, FramesKeep
  <2>2. ASSUME NEW u \in Tasks, Pass(t, i, u)
        PROVE  /\ frames' \in [Tasks -> SUBSET Ids]
               /\ \A w \in Tasks : \A x \in frames'[w] : objects[x].live
    <3>1. Hold(u, Ref(i)) /\ Ref(i) \in Slots /\ \A x \in Ids : Ref(i) = Ref(x) => objects[x].live
      BY <1>2, <2>2, RefFacts DEF Pass
    <3> QED
      BY <3>1, HoldLive
  <2> QED
    BY <2>1, <2>2
<1>4. list_bufs' = list_bufs /\ iter_states' = iter_states
  BY <1>1 DEF sides
<1>5. list_bufs' \in [Bufs -> BufType] /\ iter_states' \in [Ids -> IterType]
  BY <1>4 DEF IInv, SideTypes
<1> QED
  BY <1>1, <1>3, <1>4, <1>5, SidesStep

\* The buffer of a live list: its elements are the program's values.
LEMMA ListFacts ==
    ASSUME IInv, phase = "idle", NEW i \in Ids, objects[i].live, HasBuf(i)
    PROVE  /\ BufOf(i) \in Bufs /\ list_bufs[BufOf(i)] \in BufType
           /\ list_slots(i) = list_bufs[BufOf(i)].elems /\ list_slots(i) \in Seq(Slots)
           /\ list_mod_count(i) = list_bufs[BufOf(i)].mods
           /\ \A x \in Ids : ElemIn(list_bufs[BufOf(i)], x) => objects[x].live
<1>1. Owns(fields_arena, objects[i]) /\ BufOf(i) = BufIn(fields_arena, objects[i])
  BY GetField
<1>2. BufOf(i) \in Bufs
  BY <1>1, OwnedBuf DEF IInv, Store
<1>3. list_bufs[BufOf(i)] \in BufType
  BY <1>2 DEF IInv, SideTypes
<1>4. ASSUME NEW x \in Ids, ElemIn(list_bufs[BufOf(i)], x) PROVE objects[x].live
  <2>1. Refers(fields_arena, objects[i], list_bufs, iter_states[i], x)
    BY <1>1, <1>4 DEF Refers
  <2> QED
    BY <2>1 DEF IInv, RefsInv
<1>5. list_bufs[BufOf(i)].elems \in Seq(Slots)
  BY <1>3 DEF BufType
<1> QED
  BY <1>2, <1>3, <1>4, <1>5 DEF list_slots, list_mod_count

LEMMA ElementStep ==
    ASSUME IInv, phase = "idle", NEW t \in Tasks, NEW i \in frames[t], Element(t, i)
    PROVE  IInv'
<1>1. i \in Ids /\ objects[i].live /\ HasBuf(i)
  BY FramesKeep DEF Element
<1>2. PICK n \in DOMAIN list_slots(i) : Hold(t, list_slots(i)[n])
  BY DEF Element
<1>3. UNCHANGED <<store, sides, natives, gc>>
  BY DEF Element
<1>4. /\ list_slots(i)[n] \in Slots
      /\ \A x \in Ids : list_slots(i)[n] = Ref(x) => objects[x].live
  <2>1. list_slots(i)[n] \in Slots
    BY <1>1, <1>2, ListFacts
  <2> QED
    BY <1>1, <1>2, <2>1, ListFacts DEF ElemIn
<1>5. list_bufs' = list_bufs /\ iter_states' = iter_states
  BY <1>3 DEF sides
<1>6. /\ frames' \in [Tasks -> SUBSET Ids]
      /\ \A u \in Tasks : \A x \in frames'[u] : objects[x].live
  BY <1>2, <1>4, HoldLive
<1>7. list_bufs' \in [Bufs -> BufType] /\ iter_states' \in [Ids -> IterType]
  BY <1>5 DEF IInv, SideTypes
<1> QED
  BY <1>3, <1>5, <1>6, <1>7, SidesStep

LEMMA WithFacts ==
    ASSUME NEW s \in Seq(Slots), NEW v \in Slots, NEW n \in 0..Len(s)
    PROVE  /\ With(s, n, v) \in Seq(Slots)
           /\ \A k \in DOMAIN With(s, n, v) :
                 With(s, n, v)[k] = v \/ \E m \in DOMAIN s : With(s, n, v)[k] = s[m]
<1> DEFINE l == SubSeq(s, 1, n)
           r == SubSeq(s, n + 1, Len(s))
           one == <<v>>
<1>0. Len(s) \in Nat /\ n \in Nat /\ n <= Len(s) /\ DOMAIN s = 1..Len(s)
  BY LenProperties
<1>1. /\ l \in Seq(Slots) /\ Len(l) = n /\ \A k \in 1..n : l[k] = s[k]
  <2>1. \A k \in 1..n : s[k] \in Slots
    BY <1>0
  <2> QED
    BY <1>0, <2>1, SubSeqProperties
<1>2. /\ r \in Seq(Slots) /\ Len(r) = Len(s) - n /\ \A k \in 1..(Len(s) - n) : r[k] = s[n + k]
  <2>1. \A k \in (n + 1)..Len(s) : s[k] \in Slots
    BY <1>0
  <2>2. n + 1 \in Int /\ Len(s) \in Int
    BY <1>0
  <2>3. /\ r \in Seq(Slots) /\ Len(r) = IF n + 1 <= Len(s) THEN Len(s) - (n + 1) + 1 ELSE 0
        /\ \A k \in 1..(Len(s) - (n + 1) + 1) : r[k] = s[n + 1 + k - 1]
    BY <2>1, <2>2, SubSeqProperties
  <2> HIDE DEF r
  <2>4. Len(r) = Len(s) - n
    <3>1. Len(r) = IF n + 1 <= Len(s) THEN Len(s) - (n + 1) + 1 ELSE 0
      BY <2>3
    <3>2. n \in Nat /\ n <= Len(s) /\ Len(s) \in Nat
      BY <1>0
    <3> QED
      BY <3>1, <3>2
  <2>5. ASSUME NEW k \in 1..(Len(s) - n) PROVE r[k] = s[n + k]
    <3>1. k \in 1..(Len(s) - (n + 1) + 1) /\ n + 1 + k - 1 = n + k
      BY <1>0
    <3> QED
      BY <2>3, <3>1
  <2> QED
    BY <2>3, <2>4, <2>5
<1>3. one \in Seq(Slots) /\ Len(one) = 1 /\ one[1] = v
  OBVIOUS
<1> HIDE DEF l, r, one
<1>4. /\ l \o one \in Seq(Slots) /\ Len(l \o one) = n + 1
      /\ \A k \in 1..(n + 1) : (l \o one)[k] = IF k <= n THEN l[k] ELSE one[k - n]
  <2>1. /\ l \o one \in Seq(Slots) /\ Len(l \o one) = Len(l) + Len(one)
        /\ \A k \in 1..(Len(l) + Len(one)) :
              (l \o one)[k] = IF k <= Len(l) THEN l[k] ELSE one[k - Len(l)]
    BY <1>1, <1>3, ConcatProperties
  <2> QED
    BY <1>1, <1>3, <2>1
<1>5. /\ (l \o one) \o r \in Seq(Slots) /\ Len((l \o one) \o r) = Len(s) + 1
      /\ \A k \in 1..(Len(s) + 1) :
            ((l \o one) \o r)[k] = IF k <= n + 1 THEN (l \o one)[k] ELSE r[k - (n + 1)]
  <2> DEFINE lo == l \o one
  <2>0. lo \in Seq(Slots) /\ Len(lo) = n + 1 /\ n + 1 + (Len(s) - n) = Len(s) + 1
    BY <1>0, <1>4
  <2> HIDE DEF lo
  <2>1. /\ lo \o r \in Seq(Slots) /\ Len(lo \o r) = Len(lo) + Len(r)
        /\ \A k \in 1..(Len(lo) + Len(r)) :
              (lo \o r)[k] = IF k <= Len(lo) THEN lo[k] ELSE r[k - Len(lo)]
    BY <1>2, <2>0, ConcatProperties
  <2>2. /\ lo \o r \in Seq(Slots) /\ Len(lo \o r) = Len(s) + 1
        /\ \A k \in 1..(Len(s) + 1) :
              (lo \o r)[k] = IF k <= n + 1 THEN lo[k] ELSE r[k - (n + 1)]
    BY <1>2, <2>0, <2>1
  <2> QED
    BY <2>2 DEF lo
<1>6. With(s, n, v) = (l \o one) \o r
  BY DEF With, l, r, one
<1>7. ASSUME NEW k \in 1..(Len(s) + 1)
      PROVE  ((l \o one) \o r)[k] = v \/ \E m \in DOMAIN s : ((l \o one) \o r)[k] = s[m]
  <2>1. CASE k <= n
    BY <1>0, <1>1, <1>4, <1>5, <2>1
  <2>2. CASE k = n + 1
    BY <1>0, <1>3, <1>4, <1>5, <2>2, SMTT(30)
  <2>3. CASE k > n + 1
    <3> DEFINE j == k - (n + 1)
    <3>1. j \in 1..(Len(s) - n) /\ n + j \in DOMAIN s /\ ~(k <= n + 1)
      BY <1>0, <2>3
    <3>2. ((l \o one) \o r)[k] = r[j]
      BY <1>5, <3>1
    <3>3. r[j] = s[n + j]
      BY <1>2, <3>1
    <3> QED
      BY <3>1, <3>2, <3>3
  <2>4. k <= n \/ k = n + 1 \/ k > n + 1
    BY <1>0
  <2> QED
    BY <2>1, <2>2, <2>3, <2>4
<1>8. DOMAIN ((l \o one) \o r) = 1..(Len(s) + 1)
  BY <1>5, LenProperties
<1> QED
  BY <1>5, <1>6, <1>7, <1>8

LEMMA WithoutFacts ==
    ASSUME NEW s \in Seq(Slots), NEW n \in DOMAIN s
    PROVE  /\ Without(s, n) \in Seq(Slots)
           /\ \A k \in DOMAIN Without(s, n) : \E m \in DOMAIN s : Without(s, n)[k] = s[m]
<1>1. Len(s) \in Nat /\ DOMAIN s = 1..Len(s) /\ n \in 1..Len(s)
  BY LenProperties
<1>2. \A k \in 1..(Len(s) - 1) : (IF k < n THEN k ELSE k + 1) \in DOMAIN s
  BY <1>1
<1>3. Len(s) - 1 \in Nat
  BY <1>1
<1>4. \A k \in 1..(Len(s) - 1) : s[IF k < n THEN k ELSE k + 1] \in Slots
  BY <1>1, <1>2
<1>5. [k \in 1..(Len(s) - 1) |-> s[IF k < n THEN k ELSE k + 1]] \in Seq(Slots)
  BY <1>3, <1>4, SeqDef
<1> QED
  BY <1>1, <1>2, <1>5 DEF Without

\* An edit of the buffer b: what it holds is what it held, or a value of the program.
LEMMA EditStep ==
    ASSUME IInv, phase = "idle", UNCHANGED <<store, frames, natives, gc>>, NEW b \in Bufs,
           list_bufs' \in [Bufs -> BufType],
           \A c \in Bufs : list_bufs'[c].used = list_bufs[c].used,
           \A c \in Bufs \ {b} : list_bufs'[c] = list_bufs[c],
           \A k \in DOMAIN list_bufs'[b].elems :
              \/ \E m \in DOMAIN list_bufs[b].elems : list_bufs'[b].elems[k] = list_bufs[b].elems[m]
              \/ \A x \in Ids : list_bufs'[b].elems[k] = Ref(x) => objects[x].live,
           iter_states' \in [Ids -> IterType],
           \A i \in Ids : /\ iter_states'[i].used = iter_states[i].used
                          /\ iter_states'[i].owner = iter_states[i].owner
                          /\ iter_states'[i].source = iter_states[i].source
    PROVE  IInv'
<1>1. /\ frames' \in [Tasks -> SUBSET Ids]
      /\ \A u \in Tasks : \A x \in frames'[u] : objects[x].live
  <2>1. frames' = frames
    OBVIOUS
  <2> QED
    BY <2>1, FramesKeep
<1>2. ASSUME NEW c \in Bufs, NEW x \in Ids, ElemIn(list_bufs'[c], x), ~ElemIn(list_bufs[c], x)
      PROVE  objects[x].live
  BY <1>2 DEF ElemIn
<1>3. UNCHANGED <<store, natives, gc>>
  OBVIOUS
<1> HIDE DEF IInv
<1> QED
  BY <1>1, <1>2, <1>3, SidesStep

\* The buffer b of a list holds other elements.
NewElems(b, elems) ==
    /\ list_bufs' \in [Bufs -> BufType] /\ list_bufs'[b].elems = elems
    /\ \A c \in Bufs : list_bufs'[c].used = list_bufs[c].used
    /\ \A c \in Bufs \ {b} : list_bufs'[c] = list_bufs[c]

LEMMA EditedNew ==
    ASSUME list_bufs \in [Bufs -> BufType], NEW b \in Bufs, NEW elems \in Seq(Slots),
           list_bufs' = Edited(b, elems)
    PROVE  NewElems(b, elems)
<1>1. list_bufs[b].mods + 1 \in Nat
  BY DEF BufType
<1>2. list_bufs' = [list_bufs EXCEPT ![b].elems = elems, ![b].mods = list_bufs[b].mods + 1]
  BY DEF Edited
<1> QED
  BY <1>1, <1>2 DEF NewElems, BufType

LEMMA EditListStep ==
    ASSUME IInv, phase = "idle", NEW t \in Tasks, NEW i \in frames[t],
           EditList(t, i) \/ SetElement(t, i)
    PROVE  IInv'
<1> DEFINE b == BufOf(i)
           old == list_bufs[b].elems
<1>1. i \in Ids /\ objects[i].live /\ HasBuf(i)
  BY FramesKeep DEF EditList, SetElement
<1>2. /\ b \in Bufs /\ list_bufs[b] \in BufType /\ list_slots(i) = old /\ old \in Seq(Slots)
      /\ list_bufs \in [Bufs -> BufType] /\ iter_states \in [Ids -> IterType]
  BY <1>1, ListFacts DEF IInv, SideTypes
<1>3. UNCHANGED <<store, iter_states, frames, natives, gc>>
  BY DEF EditList, SetElement
<1> HIDE DEF b
<1>4. ASSUME NEW elems \in Seq(Slots), NewElems(b, elems),
             \A k \in DOMAIN elems : \/ \E n \in DOMAIN old : elems[k] = old[n]
                                     \/ \A x \in Ids : elems[k] = Ref(x) => objects[x].live
      PROVE  IInv'
  <2>1. /\ iter_states' \in [Ids -> IterType] /\ iter_states' = iter_states
        /\ UNCHANGED <<store, frames, natives, gc>>
    BY <1>2, <1>3
  <2>2. \A j \in Ids : /\ iter_states'[j].used = iter_states[j].used
                        /\ iter_states'[j].owner = iter_states[j].owner
                        /\ iter_states'[j].source = iter_states[j].source
    BY <2>1
  <2> HIDE DEF IInv
  <2> QED
    BY <1>2, <1>4, <2>1, <2>2, EditStep DEF NewElems
<1>5. ASSUME NEW v \in Values(t), NEW n \in 0..Len(old), list_bufs' = Edited(b, With(old, n, v))
      PROVE  IInv'
  <2>1. v \in Slots /\ \A x \in Ids : v = Ref(x) => objects[x].live
    BY ValueFacts
  <2>2. With(old, n, v) \in Seq(Slots)
        /\ \A k \in DOMAIN With(old, n, v) :
              With(old, n, v)[k] = v \/ \E m \in DOMAIN old : With(old, n, v)[k] = old[m]
    BY <1>2, <2>1, WithFacts
  <2>3. NewElems(b, With(old, n, v))
    BY <1>2, <1>5, <2>2, EditedNew
  <2> QED
    BY <1>4, <2>1, <2>2, <2>3
<1>6. ASSUME NEW n \in DOMAIN old, list_bufs' = Edited(b, Without(old, n))
      PROVE  IInv'
  <2>1. Without(old, n) \in Seq(Slots)
        /\ \A k \in DOMAIN Without(old, n) : \E m \in DOMAIN old : Without(old, n)[k] = old[m]
    BY <1>2, WithoutFacts
  <2>2. NewElems(b, Without(old, n))
    BY <1>2, <1>6, <2>1, EditedNew
  <2> QED
    BY <1>4, <2>1, <2>2
<1>7. ASSUME list_bufs' = Edited(b, <<>>)
      PROVE  IInv'
  <2>1. <<>> \in Seq(Slots) /\ \A k \in DOMAIN <<>> : FALSE
    OBVIOUS
  <2>2. NewElems(b, <<>>)
    BY <1>2, <1>7, <2>1, EditedNew
  <2> QED
    BY <1>4, <2>1, <2>2
<1>8. ASSUME NEW n \in DOMAIN old, NEW v \in Values(t),
             list_bufs' = [list_bufs EXCEPT ![b].elems[n] = v]
      PROVE  IInv'
  <2>1. v \in Slots /\ \A x \in Ids : v = Ref(x) => objects[x].live
    BY ValueFacts
  <2> DEFINE new == [old EXCEPT ![n] = v]
  <2>2. new \in Seq(Slots) /\ \A k \in DOMAIN new : new[k] = v \/ \E m \in DOMAIN old : new[k] = old[m]
    BY <1>2, <2>1
  <2>3. list_bufs' = [list_bufs EXCEPT ![b].elems = new]
    BY <1>8
  <2> HIDE DEF new
  <2>4. NewElems(b, new)
    BY <1>2, <2>2, <2>3 DEF NewElems, BufType
  <2> QED
    BY <1>4, <2>1, <2>2, <2>4
<1> QED
  BY <1>2, <1>5, <1>6, <1>7, <1>8 DEF EditList, SetElement, b

\* The list an iterator walks is there, and the buffer it reads is that list's.
LEMMA WalkFacts ==
    ASSUME IInv, phase = "idle", NEW i \in Ids, iter_states[i].used
    PROVE  /\ iter_states[i].source \in Bufs
           /\ list_bufs[iter_states[i].source] \in BufType
           /\ \A x \in Ids : ElemIn(list_bufs[iter_states[i].source], x) => objects[x].live
<1> DEFINE o == iter_states[i].owner
<1>1. /\ o \in Ids /\ objects[o].live /\ Owns(fields_arena, objects[o])
      /\ iter_states[i].source = BufIn(fields_arena, objects[o])
  BY DEF IInv, IterInv, Walks
<1> HIDE DEF o
<1>2. HasBuf(o) /\ BufOf(o) = iter_states[i].source
  BY <1>1, GetField
<1> QED
  BY <1>1, <1>2, ListFacts

LEMMA NextStep ==
    ASSUME IInv, phase = "idle", NEW t \in Tasks, NEW i \in frames[t], next(t, i)
    PROVE  IInv'
<1> DEFINE s == iter_states[i]
           elems == list_bufs[s.source].elems
<1>1. i \in Ids /\ s.used /\ s.position < Len(elems) /\ Hold(t, elems[s.position + 1])
  BY FramesKeep DEF next
<1>2. iter_states' = [iter_states EXCEPT ![i].last = s.position + 1, ![i].position = @ + 1]
      /\ UNCHANGED <<store, list_bufs, natives, gc>>
  BY DEF next
<1>3. iter_states \in [Ids -> IterType] /\ list_bufs \in [Bufs -> BufType] /\ s.position \in Nat
  BY <1>1 DEF IInv, SideTypes, IterType
<1>4. elems \in Seq(Slots) /\ \A x \in Ids : ElemIn(list_bufs[s.source], x) => objects[x].live
  BY <1>1, WalkFacts DEF BufType
<1>5. s.position + 1 \in DOMAIN elems
  BY <1>1, <1>3, <1>4
<1>6. /\ elems[s.position + 1] \in Slots
      /\ \A x \in Ids : elems[s.position + 1] = Ref(x) => objects[x].live
  BY <1>4, <1>5 DEF ElemIn
<1>7. /\ frames' \in [Tasks -> SUBSET Ids]
      /\ \A u \in Tasks : \A x \in frames'[u] : objects[x].live
  <2> HIDE DEF s, elems
  <2> QED
    BY <1>1, <1>6, HoldLive
<1>8. /\ iter_states' \in [Ids -> IterType]
      /\ \A j \in Ids : /\ iter_states'[j].used = iter_states[j].used
                        /\ iter_states'[j].owner = iter_states[j].owner
                        /\ iter_states'[j].source = iter_states[j].source
  BY <1>1, <1>2, <1>3, SMTT(30) DEF IterType
<1>9. list_bufs' = list_bufs /\ list_bufs' \in [Bufs -> BufType] /\ UNCHANGED <<store, natives, gc>>
  BY <1>2, <1>3
<1> QED
  BY <1>7, <1>8, <1>9, SidesStep

LEMMA RemoveStep ==
    ASSUME IInv, phase = "idle", NEW i \in Ids, remove(i)
    PROVE  IInv'
<1> DEFINE s == iter_states[i]
           elems == list_bufs[s.source].elems
           b == s.source
<1>1. s.used /\ s.last # 0 /\ s.last <= Len(elems) /\ Steady(s)
  BY DEF remove
<1>2. /\ list_bufs' = Edited(s.source, Without(elems, s.last))
      /\ iter_states' = [iter_states EXCEPT ![i].position = s.last - 1, ![i].last = 0,
                                            ![i].expected = @ + 1]
      /\ UNCHANGED <<store, frames, natives, gc>>
  BY DEF remove
<1>3. /\ iter_states \in [Ids -> IterType] /\ list_bufs \in [Bufs -> BufType]
      /\ s.last \in Nat /\ s.last - 1 \in Nat
  BY <1>1 DEF IInv, SideTypes, IterType
<1>4. b \in Bufs /\ elems \in Seq(Slots)
  BY <1>1, WalkFacts DEF BufType
<1>5. s.last \in DOMAIN elems
  BY <1>1, <1>3, <1>4
<1>6. Without(elems, s.last) \in Seq(Slots)
      /\ \A k \in DOMAIN Without(elems, s.last) : \E m \in DOMAIN elems :
            Without(elems, s.last)[k] = elems[m]
  <2> HIDE DEF elems, s
  <2> QED
    BY <1>4, <1>5, WithoutFacts
<1>7. NewElems(b, Without(elems, s.last))
  <2> HIDE DEF elems
  <2> QED
    BY <1>2, <1>3, <1>4, <1>6, EditedNew
<1>8. /\ iter_states' \in [Ids -> IterType]
      /\ \A j \in Ids : /\ iter_states'[j].used = iter_states[j].used
                        /\ iter_states'[j].owner = iter_states[j].owner
                        /\ iter_states'[j].source = iter_states[j].source
  BY <1>2, <1>3 DEF IterType
<1>9. \A k \in DOMAIN list_bufs'[b].elems :
         \E m \in DOMAIN list_bufs[b].elems : list_bufs'[b].elems[k] = list_bufs[b].elems[m]
  BY <1>6, <1>7 DEF NewElems
<1>10. /\ UNCHANGED <<store, frames, natives, gc>> /\ list_bufs' \in [Bufs -> BufType]
       /\ \A c \in Bufs : list_bufs'[c].used = list_bufs[c].used
       /\ \A c \in Bufs \ {b} : list_bufs'[c] = list_bufs[c]
  BY <1>2, <1>7 DEF NewElems
<1> HIDE DEF b, s, elems, IInv
<1> QED
  BY <1>4, <1>8, <1>9, <1>10, EditStep

-----------------------------------------------------------------------------
(* Upcalls. *)

LEMMA NativesStep ==
    ASSUME IInv, phase = "idle", UNCHANGED <<store, sides, gc>>,
           frames' \in [Tasks -> SUBSET Ids],
           \A t \in Tasks : \A x \in frames'[t] : objects[x].live,
           upcalls' \in [Tasks -> Seq(UpcallType)], shadow_roots' \in Seq(Ids),
           \A n \in DOMAIN shadow_roots' : objects[shadow_roots'[n]].live, UpcallsInv'
    PROVE  IInv'
<1>1. /\ objects' = objects /\ fields_arena' = fields_arena /\ arena_len' = arena_len
      /\ first_free' = first_free /\ list_bufs' = list_bufs /\ iter_states' = iter_states
      /\ phase' = phase /\ work' = work /\ marks' = marks /\ exhausted' = exhausted
      /\ write_pos' = write_pos /\ slice' = slice /\ after' = after
  BY DEF store, sides, gc
<1>2. TypeOK' /\ SideTypes'
  BY <1>1 DEF IInv, TypeOK, SideTypes
<1>3. Store'
  BY <1>1 DEF IInv, Store, SpansInv, SlotsInv
<1>4. ListsInv' /\ IterInv'
  BY <1>1 DEF IInv, ListsInv, IterInv, Walks
<1>5. RefsInv'
  BY <1>1 DEF IInv, RefsInv
<1> QED
  BY <1>2, <1>3, <1>4, <1>5, AtRest DEF IInv

\* Sequences, at their end.
LEMMA SeqFacts ==
    ASSUME NEW S, NEW s \in Seq(S)
    PROVE  Len(s) \in Nat /\ DOMAIN s = 1..Len(s) /\ \A k \in DOMAIN s : s[k] \in S
BY LenProperties

LEMMA AppendFacts ==
    ASSUME NEW S, NEW s \in Seq(S), NEW x \in S
    PROVE  /\ Append(s, x) \in Seq(S) /\ DOMAIN Append(s, x) = 1..(Len(s) + 1)
           /\ Append(s, x)[Len(s) + 1] = x /\ \A k \in 1..Len(s) : Append(s, x)[k] = s[k]
BY AppendProperties

LEMMA FrontFacts ==
    ASSUME NEW S, NEW s \in Seq(S), s # <<>>
    PROVE  LET r == SubSeq(s, 1, Len(s) - 1)
           IN  /\ Len(s) > 0 /\ r \in Seq(S) /\ DOMAIN r = 1..(Len(s) - 1)
               /\ \A k \in 1..(Len(s) - 1) : r[k] = s[k]
<1> DEFINE r == SubSeq(s, 1, Len(s) - 1)
           n == Len(s)
<1>1. n \in Nat /\ n > 0 /\ DOMAIN s = 1..n
  BY LenProperties, EmptySeq
<1>2. \A k \in 1..(n - 1) : s[k] \in S
  BY <1>1, SeqFacts
<1>3. n - 1 \in Int /\ 1 \in Int /\ n - 1 \in Nat
  BY <1>1
<1>4. /\ r \in Seq(S) /\ Len(r) = IF 1 <= n - 1 THEN n - 1 - 1 + 1 ELSE 0
      /\ \A k \in 1..(n - 1 - 1 + 1) : r[k] = s[1 + k - 1]
  BY <1>2, <1>3, SubSeqProperties
<1> HIDE DEF r, n
<1>5. Len(r) = n - 1
  BY <1>3, <1>4
<1>6. DOMAIN r = 1..(n - 1)
  BY <1>4, <1>5, SeqFacts
<1>7. ASSUME NEW k \in 1..(n - 1) PROVE r[k] = s[k]
  <2>1. k \in 1..(n - 1 - 1 + 1) /\ 1 + k - 1 = k
    BY <1>3
  <2> QED
    BY <1>4, <2>1
<1> QED
  BY <1>1, <1>4, <1>6, <1>7 DEF r, n

\* The upcalls of a task and the shadow roots, while nothing is collected.
LEMMA UpcallFacts ==
    ASSUME IInv, phase = "idle"
    PROVE  /\ shadow_roots \in Seq(Ids) /\ Len(shadow_roots) \in Nat
           /\ DOMAIN shadow_roots = 1..Len(shadow_roots)
           /\ \A n \in DOMAIN shadow_roots : objects[shadow_roots[n]].live
           /\ upcalls \in [Tasks -> Seq(UpcallType)]
           /\ \A t \in Tasks : /\ Len(upcalls[t]) \in Nat /\ DOMAIN upcalls[t] = 1..Len(upcalls[t])
                               /\ \A k \in DOMAIN upcalls[t] : upcalls[t][k].value \in Ids
           /\ \A t \in Tasks : \A k \in DOMAIN upcalls[t] :
                 /\ upcalls[t][k].mark \in Nat
                 /\ upcalls[t][k].mark + 1 \in 1..Len(shadow_roots)
                 /\ shadow_roots[upcalls[t][k].mark + 1] = upcalls[t][k].value
<1>1. shadow_roots \in Seq(Ids) /\ upcalls \in [Tasks -> Seq(UpcallType)]
  BY DEF IInv, SideTypes
<1>2. /\ Len(shadow_roots) \in Nat /\ DOMAIN shadow_roots = 1..Len(shadow_roots)
  BY <1>1, SeqFacts
<1>3. ASSUME NEW t \in Tasks
      PROVE  /\ Len(upcalls[t]) \in Nat /\ DOMAIN upcalls[t] = 1..Len(upcalls[t])
             /\ \A k \in DOMAIN upcalls[t] : upcalls[t][k].value \in Ids /\ upcalls[t][k].mark \in Nat
  <2>1. upcalls[t] \in Seq(UpcallType)
    BY <1>1
  <2>2. /\ Len(upcalls[t]) \in Nat /\ DOMAIN upcalls[t] = 1..Len(upcalls[t])
        /\ \A k \in DOMAIN upcalls[t] : upcalls[t][k] \in UpcallType
    BY <2>1, SeqFacts
  <2> QED
    BY <2>2 DEF UpcallType
<1>4. \A n \in DOMAIN shadow_roots : objects[shadow_roots[n]].live
  BY DEF IInv, RefsInv
<1>5. UpcallsInv
  BY DEF IInv
<1> HIDE DEF IInv
<1> QED
  BY <1>1, <1>2, <1>3, <1>4, <1>5 DEF UpcallsInv

LEMMA UpcallStep ==
    ASSUME IInv, phase = "idle", NEW t \in Tasks, NEW i \in frames[t], Upcall(t, i)
    PROVE  IInv'
<1> DEFINE n == Len(shadow_roots)
           r == [value |-> i, mark |-> n]
           l == Len(upcalls[t])
<1>1. /\ upcalls' = [upcalls EXCEPT ![t] = Append(@, r)]
      /\ shadow_roots' = Append(shadow_roots, i)
      /\ UNCHANGED <<store, sides, frames, gc>>
  BY DEF Upcall
<1>2. i \in Ids /\ objects[i].live
  BY FramesKeep
<1>i. UpcallsInv
  BY DEF IInv
<1>3. /\ shadow_roots \in Seq(Ids) /\ n \in Nat /\ DOMAIN shadow_roots = 1..n
      /\ upcalls \in [Tasks -> Seq(UpcallType)] /\ l \in Nat /\ DOMAIN upcalls[t] = 1..l
      /\ r \in UpcallType /\ r.value = i /\ r.mark = n
  BY <1>2, UpcallFacts DEF UpcallType
<1>4. /\ shadow_roots' \in Seq(Ids) /\ shadow_roots'[n + 1] = i
      /\ \A k \in 1..n : shadow_roots'[k] = shadow_roots[k]
      /\ DOMAIN shadow_roots' = 1..(n + 1)
  BY <1>1, <1>2, <1>3, AppendFacts
<1>5. /\ upcalls' \in [Tasks -> Seq(UpcallType)]
      /\ \A u \in Tasks \ {t} : upcalls'[u] = upcalls[u]
      /\ DOMAIN upcalls'[t] = 1..(l + 1) /\ upcalls'[t][l + 1] = r
      /\ \A k \in 1..l : upcalls'[t][k] = upcalls[t][k]
  <2> HIDE DEF r
  <2>0. upcalls[t] \in Seq(UpcallType)
    BY <1>3
  <2>1. /\ Append(upcalls[t], r) \in Seq(UpcallType)
        /\ DOMAIN Append(upcalls[t], r) = 1..(l + 1) /\ Append(upcalls[t], r)[l + 1] = r
        /\ \A k \in 1..l : Append(upcalls[t], r)[k] = upcalls[t][k]
    BY <1>3, <2>0, AppendFacts
  <2> DEFINE new == Append(upcalls[t], r)
  <2>2. upcalls' = [upcalls EXCEPT ![t] = new]
    BY <1>1
  <2>3. new \in Seq(UpcallType)
    BY <2>1
  <2> HIDE DEF l, new
  <2>4. upcalls' \in [Tasks -> Seq(UpcallType)] /\ upcalls'[t] = new
        /\ \A u \in Tasks \ {t} : upcalls'[u] = upcalls[u]
    BY <1>3, <2>2, <2>3
  <2> QED
    BY <2>1, <2>4 DEF new
<1>7. \A u \in Tasks : \A k \in DOMAIN upcalls[u] :
         upcalls[u][k].mark + 1 \in 1..n /\ upcalls[u][k].mark \in Nat
         /\ shadow_roots[upcalls[u][k].mark + 1] = upcalls[u][k].value
  BY UpcallFacts
\* An upcall is the new one, or it was there and lies below it.
<1>6. ASSUME NEW v \in Tasks, NEW m \in DOMAIN upcalls'[v]
      PROVE  \/ v = t /\ m = l + 1 /\ upcalls'[v][m].mark = n /\ upcalls'[v][m].value = i
             \/ /\ v = t => m < l + 1
                /\ m \in DOMAIN upcalls[v] /\ upcalls'[v][m] = upcalls[v][m]
                /\ upcalls[v][m].mark < n /\ upcalls[v][m].mark \in Nat
  <2> HIDE DEF r, n, l
  <2>1. CASE v = t /\ m = l + 1
    BY <1>3, <1>5, <2>1
  <2>2. CASE ~(v = t /\ m = l + 1)
    <3>1. m \in DOMAIN upcalls[v] /\ upcalls'[v][m] = upcalls[v][m] /\ (v = t => m < l + 1)
      <4>1. CASE v = t
        BY <1>3, <1>5, <1>6, <2>2, <4>1
      <4>2. CASE v # t
        BY <1>5, <1>6, <4>2
      <4> QED
        BY <4>1, <4>2
    <3>2. upcalls[v][m].mark < n /\ upcalls[v][m].mark \in Nat
      BY <1>3, <1>7, <3>1
    <3> QED
      BY <3>1, <3>2
  <2> QED
    BY <2>1, <2>2
<1> HIDE DEF r, n, l, IInv
<1>8. UpcallsInv'
  <2>1. ASSUME NEW u \in Tasks, NEW k \in DOMAIN upcalls'[u]
        PROVE  /\ upcalls'[u][k].mark + 1 \in DOMAIN shadow_roots'
               /\ shadow_roots'[upcalls'[u][k].mark + 1] = upcalls'[u][k].value
    <3>1. CASE u = t /\ k = l + 1
      BY <1>3, <1>4, <1>5, <3>1
    <3>2. CASE ~(u = t /\ k = l + 1)
      <4>1. k \in DOMAIN upcalls[u] /\ upcalls'[u][k] = upcalls[u][k]
        BY <1>6, <3>2
      <4> QED
        BY <1>3, <1>4, <1>7, <4>1
    <3> QED
      BY <3>1, <3>2
  <2>2. ASSUME NEW p \in DOMAIN shadow_roots'
        PROVE  \E u \in Tasks : \E k \in DOMAIN upcalls'[u] : upcalls'[u][k].mark + 1 = p
    <3>1. CASE p = n + 1
      <4>1. l + 1 \in DOMAIN upcalls'[t] /\ upcalls'[t][l + 1].mark + 1 = p
        BY <1>3, <1>5, <3>1
      <4> QED
        BY <4>1
    <3>2. CASE p # n + 1
      <4>0. p \in DOMAIN shadow_roots
        BY <1>3, <1>4, <3>2
      <4>1. PICK u \in Tasks : \E k \in DOMAIN upcalls[u] : upcalls[u][k].mark + 1 = p
        BY <1>i, <4>0 DEF UpcallsInv
      <4>2. PICK k \in DOMAIN upcalls[u] : upcalls[u][k].mark + 1 = p
        BY <4>1
      <4>3. k \in DOMAIN upcalls'[u] /\ upcalls'[u][k] = upcalls[u][k]
        <5>1. CASE u = t
          BY <1>3, <1>5, <4>2, <5>1
        <5>2. CASE u # t
          BY <1>5, <4>2, <5>2
        <5> QED
          BY <5>1, <5>2
      <4> QED
        BY <4>2, <4>3
    <3> QED
      BY <3>1, <3>2
  <2>3. ASSUME NEW u \in Tasks, NEW k \in DOMAIN upcalls'[u], NEW j \in DOMAIN upcalls'[u], k < j
        PROVE  upcalls'[u][k].mark < upcalls'[u][j].mark
    <3>1. CASE u = t /\ j = l + 1
      <4>1. upcalls'[u][j].mark = n
        BY <1>3, <1>5, <3>1
      <4>2. k # l + 1
        BY <1>3, <2>3, <3>1
      <4>3. upcalls'[u][k].mark < n
        BY <1>6, <4>2
      <4> QED
        BY <4>1, <4>3
    <3>2. CASE ~(u = t /\ j = l + 1)
      <4>1. j \in DOMAIN upcalls[u] /\ upcalls'[u][j] = upcalls[u][j]
        BY <1>6, <3>2
      <4>2. ~(u = t /\ k = l + 1)
        BY <1>3, <1>5, <2>3, <3>2
      <4>3. k \in DOMAIN upcalls[u] /\ upcalls'[u][k] = upcalls[u][k]
        BY <1>6, <4>2
      <4> QED
        BY <1>i, <2>3, <4>1, <4>3 DEF UpcallsInv
    <3> QED
      BY <3>1, <3>2
  <2>4. ASSUME NEW u \in Tasks, NEW w \in Tasks, NEW k \in DOMAIN upcalls'[u],
               NEW j \in DOMAIN upcalls'[w], upcalls'[u][k].mark = upcalls'[w][j].mark
        PROVE  u = w
    <3>1. CASE (u = t /\ k = l + 1) \/ (w = t /\ j = l + 1)
      BY <1>3, <1>6, <2>4, <3>1
    <3>2. CASE ~(u = t /\ k = l + 1) /\ ~(w = t /\ j = l + 1)
      <4>1. /\ k \in DOMAIN upcalls[u] /\ upcalls'[u][k] = upcalls[u][k]
            /\ j \in DOMAIN upcalls[w] /\ upcalls'[w][j] = upcalls[w][j]
        BY <1>6, <3>2
      <4> QED
        BY <1>i, <2>4, <4>1 DEF UpcallsInv
    <3> QED
      BY <3>1, <3>2
  <2> QED
    BY <2>1, <2>2, <2>3, <2>4 DEF UpcallsInv
<1>9. \A p \in DOMAIN shadow_roots' : objects[shadow_roots'[p]].live
  <2>1. \A p \in 1..n : objects[shadow_roots[p]].live
    BY <1>3, UpcallFacts
  <2> QED
    BY <1>2, <1>3, <1>4, <2>1
<1>10. /\ frames' \in [Tasks -> SUBSET Ids]
       /\ \A u \in Tasks : \A x \in frames'[u] : objects[x].live
  <2>1. frames' = frames
    BY <1>1
  <2> QED
    BY <2>1, FramesKeep
<1>11. UNCHANGED <<store, sides, gc>>
  BY <1>1
<1> QED
  BY <1>4, <1>5, <1>8, <1>9, <1>10, <1>11, NativesStep

LEMMA ReturnStep ==
    ASSUME UpcallsNest, IInv, phase = "idle", NEW t \in Tasks, Return(t)
    PROVE  IInv'
<1> DEFINE l == Len(upcalls[t])
           top == upcalls[t][l]
           n == Len(shadow_roots)
<1>1. /\ upcalls[t] # <<>> /\ (LifoUpcalls => top.mark + 1 = n)
      /\ shadow_roots' = SubSeq(shadow_roots, 1, IF top.mark < n THEN top.mark ELSE n)
      /\ upcalls' = [upcalls EXCEPT ![t] = SubSeq(@, 1, Len(@) - 1)]
      /\ Hold(t, Ref(top.value))
      /\ UNCHANGED <<store, sides, gc>>
  BY DEF Return, Newest, truncate_shadow_roots
<1>i. UpcallsInv
  BY DEF IInv
<1> HIDE DEF IInv
<1>2. /\ upcalls \in [Tasks -> Seq(UpcallType)] /\ shadow_roots \in Seq(Ids)
      /\ n \in Nat /\ l \in Nat
      /\ DOMAIN shadow_roots = 1..n /\ DOMAIN upcalls[t] = 1..l
  BY UpcallFacts
<1>3. \A u \in Tasks : \A k \in DOMAIN upcalls[u] :
         /\ upcalls[u][k].mark + 1 \in 1..n /\ upcalls[u][k].mark \in Nat
         /\ shadow_roots[upcalls[u][k].mark + 1] = upcalls[u][k].value
  BY UpcallFacts
<1> DEFINE rest == SubSeq(upcalls[t], 1, l - 1)
           below == SubSeq(shadow_roots, 1, n - 1)
<1>8. /\ l > 0 /\ rest \in Seq(UpcallType) /\ DOMAIN rest = 1..(l - 1)
      /\ \A k \in 1..(l - 1) : rest[k] = upcalls[t][k]
  <2>1. upcalls[t] \in Seq(UpcallType) /\ upcalls[t] # <<>>
    BY <1>1, <1>2
  <2> HIDE DEF top
  <2> QED
    BY <2>1, FrontFacts
<1>4. l \in DOMAIN upcalls[t] /\ top.mark + 1 \in 1..n /\ top.mark \in Nat /\ top.value \in Ids
  <2>1. l \in DOMAIN upcalls[t]
    BY <1>2, <1>8
  <2> QED
    BY <1>3, <2>1, UpcallFacts
\* The newest upcall of the task is the one on top: it is the rule, or nobody else calls.
<1>5. top.mark + 1 = n
  <2>1. CASE LifoUpcalls
    BY <1>1, <2>1
  <2>2. CASE \A u, w \in Tasks : u = w
    <3>1. n \in DOMAIN shadow_roots
      BY <1>2, <1>4
    <3>2. PICK u \in Tasks : \E k \in DOMAIN upcalls[u] : upcalls[u][k].mark + 1 = n
      BY <1>i, <3>1 DEF UpcallsInv
    <3>3. u = t
      BY <2>2
    <3>4. PICK k \in DOMAIN upcalls[t] : upcalls[t][k].mark + 1 = n
      BY <3>2, <3>3
    <3>5. k # l => k < l
      BY <1>2
    <3>6. k < l => upcalls[t][k].mark < top.mark
      BY <1>4, <1>i DEF UpcallsInv
    <3> HIDE DEF top, l, n
    <3>7. upcalls[t][k].mark \in Nat
      BY <1>3
    <3>8. k = l => top.mark + 1 = n
      BY <3>4 DEF top
    <3> QED
      BY <1>2, <1>4, <3>4, <3>5, <3>6, <3>7, <3>8
  <2> QED
    BY <2>1, <2>2 DEF UpcallsNest
<1>6. /\ shadow_roots' = below /\ upcalls' = [upcalls EXCEPT ![t] = rest]
  <2>1. (IF top.mark < n THEN top.mark ELSE n) = n - 1
    <3> HIDE DEF top, n
    <3> QED
      BY <1>2, <1>4, <1>5
  <2> QED
    BY <1>1, <2>1
<1>7. /\ below \in Seq(Ids) /\ DOMAIN below = 1..(n - 1)
      /\ \A k \in 1..(n - 1) : below[k] = shadow_roots[k]
  <2>1. shadow_roots # <<>>
    <3> HIDE DEF top
    <3> QED
      BY <1>2, <1>4
  <2> HIDE DEF top
  <2> QED
    BY <1>2, <2>1, FrontFacts
<1>9. /\ upcalls' \in [Tasks -> Seq(UpcallType)]
      /\ \A u \in Tasks \ {t} : upcalls'[u] = upcalls[u]
      /\ upcalls'[t] = rest
  <2> HIDE DEF rest
  <2> QED
    BY <1>2, <1>6, <1>8
<1> HIDE DEF rest, below, n, l, top
\* The upcalls that are left are those with a mark below the top.
<1>10. ASSUME NEW u \in Tasks, NEW k \in DOMAIN upcalls'[u]
       PROVE  /\ k \in DOMAIN upcalls[u] /\ upcalls'[u][k] = upcalls[u][k]
              /\ upcalls[u][k].mark + 1 \in 1..(n - 1)
  <2>1. k \in DOMAIN upcalls[u] /\ upcalls'[u][k] = upcalls[u][k] /\ (u = t => k < l)
    BY <1>2, <1>8, <1>9, <1>10
  <2>0. upcalls[u][k].mark + 1 \in 1..n /\ upcalls[u][k].mark \in Nat
    BY <1>3, <2>1
  <2>2. upcalls[u][k].mark # top.mark
    <3>1. CASE u = t
      <4>1. upcalls[t][k].mark < top.mark
        BY <1>4, <1>i, <2>1, <3>1 DEF UpcallsInv, top
      <4> QED
        BY <1>4, <2>0, <3>1, <4>1
    <3>2. CASE u # t
      BY <1>4, <1>i, <2>1, <3>2 DEF UpcallsInv, top
    <3> QED
      BY <3>1, <3>2
  <2>3. upcalls[u][k].mark + 1 \in 1..(n - 1)
    BY <1>2, <1>4, <1>5, <2>0, <2>2
  <2> QED
    BY <2>1, <2>3
<1>11. UpcallsInv'
  <2>1. ASSUME NEW u \in Tasks, NEW k \in DOMAIN upcalls'[u]
        PROVE  /\ upcalls'[u][k].mark + 1 \in DOMAIN shadow_roots'
               /\ shadow_roots'[upcalls'[u][k].mark + 1] = upcalls'[u][k].value
    BY <1>3, <1>6, <1>7, <1>10
  <2>2. ASSUME NEW p \in DOMAIN shadow_roots'
        PROVE  \E u \in Tasks : \E k \in DOMAIN upcalls'[u] : upcalls'[u][k].mark + 1 = p
    <3>1. p \in 1..(n - 1) /\ p \in DOMAIN shadow_roots
      BY <1>2, <1>6, <1>7
    <3>2. PICK u \in Tasks : \E k \in DOMAIN upcalls[u] : upcalls[u][k].mark + 1 = p
      BY <1>i, <3>1 DEF UpcallsInv
    <3>3. PICK k \in DOMAIN upcalls[u] : upcalls[u][k].mark + 1 = p
      BY <3>2
    <3>4. ~(u = t /\ k = l)
      BY <1>2, <1>5, <3>1, <3>3 DEF top
    <3>5. k \in DOMAIN upcalls'[u] /\ upcalls'[u][k] = upcalls[u][k]
      BY <1>2, <1>8, <1>9, <3>4
    <3> QED
      BY <3>3, <3>5
  <2>3. ASSUME NEW u \in Tasks, NEW k \in DOMAIN upcalls'[u], NEW j \in DOMAIN upcalls'[u], k < j
        PROVE  upcalls'[u][k].mark < upcalls'[u][j].mark
    BY <1>i, <1>10, <2>3 DEF UpcallsInv
  <2>4. ASSUME NEW u \in Tasks, NEW w \in Tasks, NEW k \in DOMAIN upcalls'[u],
               NEW j \in DOMAIN upcalls'[w], upcalls'[u][k].mark = upcalls'[w][j].mark
        PROVE  u = w
    BY <1>i, <1>10, <2>4 DEF UpcallsInv
  <2> QED
    BY <2>1, <2>2, <2>3, <2>4 DEF UpcallsInv
<1>12. \A p \in 1..n : objects[shadow_roots[p]].live
  BY <1>2, UpcallFacts
<1>13. \A p \in DOMAIN shadow_roots' : objects[shadow_roots'[p]].live
  BY <1>2, <1>6, <1>7, <1>12
<1>14. /\ frames' \in [Tasks -> SUBSET Ids]
       /\ \A u \in Tasks : \A x \in frames'[u] : objects[x].live
  <2>1. objects[top.value].live
    <3>1. shadow_roots[top.mark + 1] = top.value
      BY <1>3, <1>4 DEF top
    <3> QED
      BY <1>4, <1>12, <3>1
  <2>2. Ref(top.value) \in Slots /\ \A x \in Ids : Ref(top.value) = Ref(x) => objects[x].live
    BY <1>4, <2>1, RefFacts
  <2> QED
    BY <1>1, <2>2, HoldLive
<1>15. shadow_roots' \in Seq(Ids) /\ UNCHANGED <<store, sides, gc>>
  BY <1>1, <1>6, <1>7
<1> QED
  BY <1>9, <1>11, <1>13, <1>14, <1>15, NativesStep

-----------------------------------------------------------------------------
(* The arena: new spans, written fields. *)

LEMMA SpanFacts ==
    ASSUME TypeOK, SpansInv
    PROVE  /\ arena_len \in Nat /\ arena_len <= ArenaMax /\ ArenaMax \in Nat /\ MaxSpan \in Nat
           /\ \A i \in Ids : objects[i] \in ObjectType
           /\ \A i \in Ids : /\ objects[i].off \in Nat /\ objects[i].count \in Nat
                             /\ objects[i].cap \in Nat /\ objects[i].cap <= MaxSpan
           /\ \A i \in Ids : objects[i].live =>
                 /\ objects[i].count <= objects[i].cap
                 /\ objects[i].cap > 0 => objects[i].off + objects[i].cap <= arena_len
<1>1. ASSUME NEW i \in Ids
      PROVE  objects[i] \in ObjectType
  BY DEF TypeOK, ObjectType
<1>2. ASSUME NEW i \in Ids
      PROVE  /\ objects[i].off \in Nat /\ objects[i].count \in Nat
             /\ objects[i].cap \in Nat /\ objects[i].cap <= MaxSpan
  BY <1>1, IdsFacts DEF ObjectType
<1>3. arena_len \in Nat /\ arena_len <= ArenaMax
  BY IdsFacts DEF TypeOK
<1> QED
  BY <1>1, <1>2, <1>3, IdsFacts DEF SpansInv

\* The fields of every object but i are as they were.
OthersKeep(i) ==
    \A j \in Ids \ {i} : objects[j].live =>
        \A g \in 0..(objects[j].cap - 1) :
            fields_arena'[objects[j].off + g] = fields_arena[objects[j].off + g]

\* An object gets a span apart from the others, in an arena that does not shrink.
LEMMA StoreStep ==
    ASSUME TypeOK, Store, NEW i \in Ids, NEW p \in ObjectType, p.live, p.count <= p.cap,
           objects' = [objects EXCEPT ![i] = p],
           arena_len' \in Nat, arena_len <= arena_len',
           p.cap > 0 => /\ p.off + p.cap <= arena_len'
                        /\ \A j \in Ids \ {i} : objects[j].live /\ objects[j].cap > 0
                                                => Apart(p, objects[j]),
           OthersKeep(i),
           \A g \in p.count..(p.cap - 1) : fields_arena'[p.off + g] = Null,
           \A k \in Ids : k < first_free' => objects[k].live \/ k = i
    PROVE  Store'
<1>1. /\ objects'[i] = p /\ \A j \in Ids \ {i} : objects'[j] = objects[j]
  BY DEF TypeOK
<1>2. SpansInv /\ SlotsInv
  BY DEF Store
<1>3. SpansInv'
  <2>1. ASSUME NEW j \in Ids, objects'[j].live
        PROVE  /\ objects'[j].count <= objects'[j].cap
               /\ objects'[j].cap > 0 => objects'[j].off + objects'[j].cap <= arena_len'
    <3>1. CASE j = i
      BY <1>1, <3>1
    <3>2. CASE j # i
      BY <1>1, <1>2, <2>1, <3>2, SpanFacts
    <3> QED
      BY <3>1, <3>2
  <2>2. ASSUME NEW j \in Ids, NEW k \in Ids, objects'[j].live, objects'[k].live, j # k,
               objects'[j].cap > 0, objects'[k].cap > 0
        PROVE  Apart(objects'[j], objects'[k])
    <3>1. CASE j = i
      BY <1>1, <2>2, <3>1
    <3>2. CASE k = i
      BY <1>1, <2>2, <3>2 DEF Apart
    <3>3. CASE j # i /\ k # i
      BY <1>1, <1>2, <2>2, <3>3 DEF SpansInv
    <3> QED
      BY <3>1, <3>2, <3>3
  <2> QED
    BY <2>1, <2>2 DEF SpansInv
<1>4. SlotsInv'
  <2>1. \A k \in Ids : k < first_free' => objects'[k].live
    BY <1>1
  <2>2. \A k \in Ids : ~objects'[k].live => objects'[k] = NoObject
    BY <1>1, <1>2 DEF SlotsInv
  <2>3. ASSUME NEW j \in Ids, objects'[j].live,
               NEW g \in objects'[j].count..(objects'[j].cap - 1)
        PROVE  fields_arena'[objects'[j].off + g] = Null
    <3>1. CASE j = i
      BY <1>1, <2>3, <3>1
    <3>2. CASE j # i
      <4>1. objects'[j] = objects[j] /\ objects[j].live
        BY <1>1, <2>3, <3>2
      <4>2. g \in 0..(objects[j].cap - 1) /\ g \in objects[j].count..(objects[j].cap - 1)
        BY <1>2, <2>3, <4>1, SpanFacts
      <4> QED
        BY <1>2, <3>2, <4>1, <4>2 DEF SlotsInv, OthersKeep
    <3> QED
      BY <3>1, <3>2
  <2> QED
    BY <2>1, <2>2, <2>3 DEF SlotsInv
<1> QED
  BY <1>3, <1>4 DEF Store

\* What set_field promises: the field is written, and what was not stays as it was or null.
Wrote(i, f, v) ==
    /\ objects' \in [Ids -> ObjectType] /\ fields_arena' \in [Arena -> Slots]
    /\ arena_len' \in 0..ArenaMax /\ first_free' = first_free /\ Store'
    /\ \A j \in Ids \ {i} : objects'[j] = objects[j]
    /\ objects'[i].live /\ objects'[i].class = objects[i].class /\ f < objects'[i].count
    /\ OthersKeep(i)
    /\ \A g \in 0..(objects'[i].count - 1) :
          fields_arena'[objects'[i].off + g] = IF g = f THEN v
                                               ELSE IF g < objects[i].count
                                                    THEN fields_arena[objects[i].off + g] ELSE Null

LEMMA WriteInPlace ==
    ASSUME TypeOK, Store, NEW i \in Ids, objects[i].live, NEW f \in Nat, NEW v \in Slots,
           f + 1 <= objects[i].cap,
           fields_arena' = [fields_arena EXCEPT ![objects[i].off + f] = v],
           objects' = [objects EXCEPT ![i].count = IF f + 1 > objects[i].count
                                                   THEN f + 1 ELSE objects[i].count],
           UNCHANGED <<arena_len, first_free>>
    PROVE  Wrote(i, f, v)
<1> DEFINE o == objects[i]
           count == IF f + 1 > o.count THEN f + 1 ELSE o.count
           p == [o EXCEPT !.count = count]
<1>1. SpansInv /\ SlotsInv
  BY DEF Store
<1>2. /\ o \in ObjectType /\ o.off \in Nat /\ o.count \in Nat /\ o.cap \in Nat /\ o.cap > 0
      /\ o.off + o.cap <= arena_len /\ arena_len \in Nat /\ arena_len <= ArenaMax
      /\ o.cap <= MaxSpan /\ MaxSpan \in Nat /\ o.count <= o.cap
  BY <1>1, SpanFacts
<1>3. count \in Nat /\ count <= o.cap /\ f < count /\ o.count <= count
  BY <1>2
<1> HIDE DEF count
<1>4. /\ p \in ObjectType /\ p.live /\ p.class = o.class /\ p.off = o.off /\ p.cap = o.cap
      /\ p.count = count
  BY <1>2, <1>3 DEF ObjectType
<1>5. objects' = [objects EXCEPT ![i] = p]
  BY DEF count
<1> HIDE DEF p
<1>6. o.off + f \in Arena
  BY <1>2, IdsFacts DEF Arena
<1>7. /\ fields_arena' \in [Arena -> Slots] /\ fields_arena'[o.off + f] = v
      /\ \A q \in Arena : q # o.off + f => fields_arena'[q] = fields_arena[q]
  BY <1>6 DEF TypeOK
<1>8. OthersKeep(i)
  <2>1. SUFFICES ASSUME NEW j \in Ids \ {i}, objects[j].live, NEW g \in 0..(objects[j].cap - 1)
                 PROVE  fields_arena'[objects[j].off + g] = fields_arena[objects[j].off + g]
    BY DEF OthersKeep
  <2>2. objects[j].off + g \in Arena
    BY <1>1, <2>1, FieldFacts
  <2>3. objects[j].cap > 0 /\ objects[j].off \in Nat /\ objects[j].cap \in Nat
    BY <1>1, <2>1, SpanFacts
  <2>4. Apart(objects[i], objects[j])
    BY <1>1, <1>2, <2>1, <2>3 DEF SpansInv
  <2>5. objects[j].off + g # o.off + f
    BY <1>2, <2>3, <2>4 DEF Apart
  <2> QED
    BY <1>7, <2>2, <2>5
\* The fields of the object itself.
<1>9. ASSUME NEW g \in 0..(o.cap - 1), g # f
      PROVE  fields_arena'[o.off + g] = fields_arena[o.off + g]
  <2>1. o.off + g \in Arena
    BY <1>1, FieldFacts
  <2>2. o.off + g # o.off + f
    BY <1>2, <1>9
  <2> QED
    BY <1>7, <2>1, <2>2
<1>10. ASSUME NEW g \in o.count..(o.cap - 1)
       PROVE  fields_arena[o.off + g] = Null
  BY <1>1 DEF SlotsInv
<1>11. ASSUME NEW g \in p.count..(p.cap - 1)
       PROVE  fields_arena'[p.off + g] = Null
  <2>1. g \in 0..(o.cap - 1) /\ g # f /\ g \in o.count..(o.cap - 1)
    BY <1>2, <1>3, <1>4
  <2> QED
    BY <1>4, <1>9, <1>10, <2>1
<1>12. ASSUME NEW g \in 0..(p.count - 1)
       PROVE  fields_arena'[p.off + g] = IF g = f THEN v
                                         ELSE IF g < o.count THEN fields_arena[o.off + g] ELSE Null
  <2>1. g \in 0..(o.cap - 1) /\ (g < o.count \/ g \in o.count..(o.cap - 1))
    BY <1>2, <1>3, <1>4
  <2> QED
    BY <1>4, <1>7, <1>9, <1>10, <2>1
<1>13. /\ objects' \in [Ids -> ObjectType] /\ objects'[i] = p
       /\ \A j \in Ids \ {i} : objects'[j] = objects[j]
  BY <1>4, <1>5 DEF TypeOK, ObjectType
<1>14. Store'
  <2>1. p.cap > 0 => /\ p.off + p.cap <= arena_len'
                     /\ \A j \in Ids \ {i} : objects[j].live /\ objects[j].cap > 0
                                             => Apart(p, objects[j])
    BY <1>1, <1>2, <1>4 DEF SpansInv, Apart
  <2>2. \A k \in Ids : k < first_free' => objects[k].live \/ k = i
    BY <1>1 DEF SlotsInv
  <2>3. p.count <= p.cap /\ arena_len' \in Nat /\ arena_len <= arena_len'
    BY <1>2, <1>3, <1>4
  <2> HIDE DEF o
  <2> QED
    BY <1>4, <1>5, <1>8, <1>11, <2>1, <2>2, <2>3, StoreStep
<1>15. arena_len' \in 0..ArenaMax /\ first_free' = first_free
  BY DEF TypeOK
<1> QED
  BY <1>3, <1>4, <1>7, <1>8, <1>12, <1>13, <1>14, <1>15, ZenonT(40) DEF Wrote

LEMMA WriteGrown ==
    ASSUME TypeOK, Store, NEW i \in Ids, objects[i].live, NEW f \in Nat, NEW v \in Slots,
           f + 1 > objects[i].cap, alloc_span(f + 1),
           fields_arena' = [LazyGrown(objects[i], f + 1) EXCEPT ![arena_len + f] = v],
           arena_len' = arena_len + (f + 1),
           objects' = [objects EXCEPT ![i] = [objects[i] EXCEPT !.off = arena_len, !.cap = f + 1,
                          !.count = IF f + 1 > objects[i].count THEN f + 1 ELSE objects[i].count]],
           UNCHANGED first_free
    PROVE  Wrote(i, f, v)
<1> DEFINE o == objects[i]
           p == [o EXCEPT !.off = arena_len, !.cap = f + 1, !.count = f + 1]
<1>1. SpansInv /\ SlotsInv
  BY DEF Store
<1>2. /\ o \in ObjectType /\ o.off \in Nat /\ o.count \in Nat /\ o.cap \in Nat
      /\ o.cap > 0 => o.off + o.cap <= arena_len
      /\ arena_len \in Nat /\ arena_len <= ArenaMax /\ ArenaMax \in Nat
      /\ MaxSpan \in Nat /\ o.count <= o.cap
  BY <1>1, SpanFacts
<1>3. f + 1 <= MaxSpan /\ arena_len + (f + 1) <= ArenaMax /\ o.count <= f
  BY <1>2 DEF alloc_span
<1>4. /\ p \in ObjectType /\ p.live /\ p.class = o.class /\ p.off = arena_len /\ p.cap = f + 1
      /\ p.count = f + 1
  <2>1. arena_len \in 0..ArenaMax /\ f + 1 \in 0..MaxSpan
    BY <1>2, <1>3
  <2> QED
    BY <1>2, <2>1 DEF ObjectType
<1>5. objects' = [objects EXCEPT ![i] = p]
  <2>1. (IF f + 1 > o.count THEN f + 1 ELSE o.count) = f + 1
    BY <1>2, <1>3
  <2> QED
    BY <2>1
<1> HIDE DEF p
<1> DEFINE g0 == Cleared(fields_arena, arena_len, f + 1)
           g1 == LazyGrown(o, f + 1)
<1>6. /\ g0 \in [Arena -> Slots]
      /\ \A q \in Arena : g0[q] = IF arena_len <= q /\ q < arena_len + (f + 1)
                                  THEN Null ELSE fields_arena[q]
  BY RefFacts DEF TypeOK, Cleared
<1>7. g1 = [q \in Arena |-> IF arena_len <= q /\ q < arena_len + o.cap
                            THEN g0[o.off + (q - arena_len)] ELSE g0[q]]
  BY DEF LazyGrown, Copied
<1> HIDE DEF g0, g1
<1>8. ASSUME NEW g \in 0..(o.cap - 1)
      PROVE  o.off + g \in Arena /\ g0[o.off + g] = fields_arena[o.off + g]
  <2>1. o.off + g \in Arena
    BY <1>1, FieldFacts
  <2>2. o.off + g < arena_len
    BY <1>2
  <2>3. ~(arena_len <= o.off + g)
    BY <1>2, <2>2
  <2> QED
    BY <1>6, <2>1, <2>3
<1>9. ASSUME NEW q \in Arena
      PROVE  /\ g1[q] \in Slots
             /\ q < arena_len => g1[q] = fields_arena[q]
             /\ arena_len <= q /\ q < arena_len + o.cap
                => g1[q] = fields_arena[o.off + (q - arena_len)]
             /\ arena_len + o.cap <= q /\ q < arena_len + (f + 1) => g1[q] = Null
  <2>0. q \in Nat
    BY IdsFacts DEF Arena
  <2>1. CASE arena_len <= q /\ q < arena_len + o.cap
    <3>1. q - arena_len \in 0..(o.cap - 1)
      BY <1>2, <2>0, <2>1
    <3>2. /\ o.off + (q - arena_len) \in Arena
          /\ g0[o.off + (q - arena_len)] = fields_arena[o.off + (q - arena_len)]
      BY <1>8, <3>1
    <3>3. g1[q] = g0[o.off + (q - arena_len)]
      BY <1>7, <2>1
    <3>4. ~(q < arena_len) /\ ~(arena_len + o.cap <= q)
      BY <1>2, <2>0, <2>1
    <3> QED
      BY <1>6, <3>2, <3>3, <3>4
  <2>2. CASE ~(arena_len <= q /\ q < arena_len + o.cap)
    <3>1. g1[q] = g0[q]
      BY <1>7, <2>2
    <3>2. q < arena_len => ~(arena_len <= q)
      BY <1>2, <2>0
    <3>3. arena_len + o.cap <= q => arena_len <= q
      BY <1>2, <2>0
    <3> QED
      BY <1>6, <2>2, <3>1, <3>2, <3>3
  <2> QED
    BY <2>1, <2>2
<1>10. arena_len + f \in Arena
  BY <1>2, <1>3 DEF Arena
<1>11. /\ fields_arena' \in [Arena -> Slots] /\ fields_arena'[arena_len + f] = v
       /\ \A q \in Arena : q # arena_len + f => fields_arena'[q] = g1[q]
  <2>1. g1 \in [Arena -> Slots]
    <3>1. DOMAIN g1 = Arena /\ g1 = [q \in Arena |-> g1[q]]
      BY <1>7
    <3> QED
      BY <1>9, <3>1
  <2>2. fields_arena' = [g1 EXCEPT ![arena_len + f] = v]
    BY DEF g1
  <2> QED
    BY <1>10, <2>1, <2>2
<1>12. OthersKeep(i)
  <2>1. SUFFICES ASSUME NEW j \in Ids \ {i}, objects[j].live, NEW g \in 0..(objects[j].cap - 1)
                 PROVE  fields_arena'[objects[j].off + g] = fields_arena[objects[j].off + g]
    BY DEF OthersKeep
  <2>2. objects[j].off + g \in Arena
    BY <1>1, <2>1, FieldFacts
  <2>3. /\ objects[j].cap > 0 /\ objects[j].off \in Nat /\ objects[j].cap \in Nat
        /\ objects[j].off + objects[j].cap <= arena_len
    BY <1>1, <2>1, SpanFacts
  <2>4. objects[j].off + g < arena_len /\ objects[j].off + g # arena_len + f
    BY <1>2, <2>3
  <2> QED
    BY <1>9, <1>11, <2>2, <2>4
<1>13. ASSUME NEW g \in 0..(p.count - 1)
       PROVE  fields_arena'[p.off + g] = IF g = f THEN v
                                         ELSE IF g < o.count THEN fields_arena[o.off + g] ELSE Null
  <2>1. CASE g = f
    BY <1>4, <1>11, <2>1
  <2>2. CASE g # f
    <3>1. g \in Nat /\ g < f
      BY <1>4, <2>2
    <3>2. arena_len + g \in Arena /\ arena_len + g # arena_len + f /\ arena_len <= arena_len + g
      BY <1>2, <1>3, <3>1 DEF Arena
    <3>3. fields_arena'[arena_len + g] = g1[arena_len + g]
      BY <1>11, <3>2
    <3>4. CASE g < o.cap
      <4>1. g \in 0..(o.cap - 1) /\ arena_len + g < arena_len + o.cap /\ (arena_len + g) - arena_len = g
        BY <1>2, <3>1, <3>4
      <4>2. g1[arena_len + g] = fields_arena[o.off + g]
        BY <1>9, <3>2, <4>1
      <4>3. ~(g < o.count) => fields_arena[o.off + g] = Null
        <5>1. ~(g < o.count) => g \in o.count..(o.cap - 1)
          BY <1>2, <4>1
        <5> QED
          BY <1>1, <5>1 DEF SlotsInv
      <4> QED
        BY <1>4, <2>2, <3>3, <4>2, <4>3
    <3>5. CASE ~(g < o.cap)
      <4>1. arena_len + o.cap <= arena_len + g /\ arena_len + g < arena_len + (f + 1) /\ ~(g < o.count)
        BY <1>2, <3>1, <3>5
      <4> QED
        BY <1>4, <1>9, <2>2, <3>2, <3>3, <4>1
    <3> QED
      BY <3>4, <3>5
  <2> QED
    BY <2>1, <2>2
<1>14. /\ objects' \in [Ids -> ObjectType] /\ objects'[i] = p
       /\ \A j \in Ids \ {i} : objects'[j] = objects[j]
  BY <1>4, <1>5 DEF TypeOK, ObjectType
<1>15. Store'
  <2>1. p.cap > 0 => /\ p.off + p.cap <= arena_len'
                     /\ \A j \in Ids \ {i} : objects[j].live /\ objects[j].cap > 0
                                             => Apart(p, objects[j])
    BY <1>1, <1>2, <1>4, SpanFacts DEF Apart
  <2>2. \A k \in Ids : k < first_free' => objects[k].live \/ k = i
    BY <1>1 DEF SlotsInv
  <2>3. p.count <= p.cap /\ arena_len' \in Nat /\ arena_len <= arena_len'
    BY <1>2, <1>4
  <2>4. \A g \in p.count..(p.cap - 1) : fields_arena'[p.off + g] = Null
    BY <1>4
  <2> HIDE DEF o
  <2> QED
    BY <1>4, <1>5, <1>12, <2>1, <2>2, <2>3, <2>4, StoreStep
<1>16. arena_len' \in 0..ArenaMax /\ first_free' = first_free
  BY <1>2, <1>3
<1>17. f < p.count
  BY <1>4
<1> QED
  BY <1>4, <1>11, <1>12, <1>13, <1>14, <1>15, <1>16, <1>17, ZenonT(40) DEF Wrote

LEMMA SetField ==
    ASSUME TypeOK, Store, NEW i \in Ids, objects[i].live, NEW f \in Nat, NEW v \in Slots,
           set_field(i, f, v)
    PROVE  Wrote(i, f, v)
<1>1. CASE f + 1 <= objects[i].cap
  <2>1. objects[i].cap \in Nat
    BY SpanFacts DEF Store
  <2>2. /\ fields_arena' = [fields_arena EXCEPT ![objects[i].off + f] = v]
        /\ objects' = [objects EXCEPT ![i].count = IF f + 1 > objects[i].count
                                                   THEN f + 1 ELSE objects[i].count]
        /\ UNCHANGED <<arena_len, first_free>>
    BY <1>1, <2>1 DEF set_field
  <2> QED
    BY <1>1, <2>2, WriteInPlace
<1>2. CASE ~(f + 1 <= objects[i].cap)
  <2>1. objects[i].cap \in Nat
    BY SpanFacts DEF Store
  <2>2. /\ f + 1 > objects[i].cap /\ alloc_span(f + 1)
        /\ fields_arena' = [LazyGrown(objects[i], f + 1) EXCEPT ![arena_len + f] = v]
        /\ arena_len' = arena_len + (f + 1)
        /\ objects' = [objects EXCEPT ![i] = [objects[i] EXCEPT !.off = arena_len, !.cap = f + 1,
                          !.count = IF f + 1 > objects[i].count THEN f + 1 ELSE objects[i].count]]
        /\ UNCHANGED first_free
    BY <1>2, <2>1 DEF set_field
  <2> QED
    BY <2>2, WriteGrown
<1> QED
  BY <1>1, <1>2

\* An object whose fields nobody wrote refers to what it did.
LEMMA KeptContent ==
    ASSUME TypeOK, SpansInv, NEW i, NEW j \in Ids \ {i}, objects[j].live,
           objects'[j] = objects[j], OthersKeep(i)
    PROVE  /\ FirstOf(fields_arena', objects'[j]) = FirstOf(fields_arena, objects[j])
           /\ BufIn(fields_arena', objects'[j]) = BufIn(fields_arena, objects[j])
           /\ Owns(fields_arena', objects'[j]) <=> Owns(fields_arena, objects[j])
           /\ \A x : RefIn(fields_arena', objects'[j], x) <=> RefIn(fields_arena, objects[j], x)
<1>1. /\ objects[j] \in ObjectType /\ objects[j].count <= objects[j].cap
      /\ objects[j].count \in Nat /\ objects[j].cap \in Nat
  BY SpanFacts
<1>2. \A f \in 0..(objects[j].count - 1) : f \in 0..(objects[j].cap - 1)
  BY <1>1
<1>3. \A f \in 0..(objects[j].count - 1) :
         fields_arena'[objects'[j].off + f] = fields_arena[objects[j].off + f]
  BY <1>2 DEF OthersKeep
<1> DEFINE o == objects[j]
           p == objects'[j]
           a == fields_arena
           b == fields_arena'
<1>4. /\ o \in ObjectType /\ p \in ObjectType /\ p.count = o.count /\ p.class = o.class
      /\ p.live = o.live /\ \A f \in 0..(o.count - 1) : b[p.off + f] = a[o.off + f]
  BY <1>1, <1>3
<1>5. /\ FirstOf(b, p) = FirstOf(a, o) /\ BufIn(b, p) = BufIn(a, o)
      /\ Owns(b, p) <=> Owns(a, o)
      /\ \A x : RefIn(b, p, x) <=> RefIn(a, o, x)
  <2> HIDE DEF a, b, o, p
  <2> QED
    BY <1>4, SameContent
<1> QED
  BY <1>5

\* A step that changes what objects hold, but not which objects there are.
LEMMA BodyStep ==
    ASSUME IInv, phase = "idle", UNCHANGED <<iter_states, frames, natives, gc>>,
           objects' \in [Ids -> ObjectType], fields_arena' \in [Arena -> Slots],
           arena_len' \in 0..ArenaMax, first_free' = first_free, Store',
           list_bufs' \in [Bufs -> BufType], ListsInv',
           \A j \in Ids : /\ objects'[j].live = objects[j].live
                          /\ objects'[j].class = objects[j].class,
           \A j \in Ids : objects[j].live /\ Owns(fields_arena, objects[j]) =>
                             /\ Owns(fields_arena', objects'[j])
                             /\ BufIn(fields_arena', objects'[j]) = BufIn(fields_arena, objects[j]),
           \A j, x \in Ids :
              objects[j].live /\ Refers(fields_arena', objects'[j], list_bufs', iter_states[j], x)
              => objects[x].live
    PROVE  IInv'
<1>1. /\ iter_states' = iter_states /\ frames' = frames
      /\ upcalls' = upcalls /\ shadow_roots' = shadow_roots
      /\ phase' = phase /\ work' = work /\ marks' = marks /\ exhausted' = exhausted
      /\ write_pos' = write_pos /\ slice' = slice /\ after' = after
  BY DEF natives, gc
<1>2. TypeOK' /\ SideTypes'
  BY <1>1 DEF IInv, TypeOK, SideTypes, ObjectType
<1>3. UpcallsInv'
  BY <1>1 DEF IInv, UpcallsInv
<1>4. IterInv'
  BY <1>1 DEF IInv, IterInv, Walks
<1>5. RefsInv'
  <2>1. /\ \A t \in Tasks : \A x \in frames[t] : x \in Ids /\ objects[x].live
        /\ \A n \in DOMAIN shadow_roots : shadow_roots[n] \in Ids /\ objects[shadow_roots[n]].live
    BY FramesKeep, UpcallFacts
  <2> HIDE DEF IInv
  <2> QED
    BY <1>1, <2>1 DEF RefsInv
<1> QED
  BY <1>2, <1>3, <1>4, <1>5, AtRest DEF IInv

LEMMA PutStep ==
    ASSUME IInv, phase = "idle", NEW t \in Tasks, NEW i \in frames[t], Put(t, i)
    PROVE  IInv'
<1>1. i \in Ids /\ objects[i].live /\ objects[i].class = "object"
  BY FramesKeep DEF Put
<1>2. PICK f \in 0..(MaxSpan - 1), v \in Values(t) : set_field(i, f, v)
  BY DEF Put
<1>3. UNCHANGED <<sides, frames, natives, gc>>
  BY DEF Put
<1>4. f \in Nat /\ v \in Slots /\ \A x \in Ids : v = Ref(x) => objects[x].live
  BY <1>2, ValueFacts, IdsFacts
<1>5. TypeOK /\ Store /\ SpansInv /\ ListsInv /\ RefsInv /\ SideTypes
  BY DEF IInv, Store
<1>6. Wrote(i, f, v)
  BY <1>1, <1>2, <1>4, <1>5, SetField
<1>7. list_bufs' = list_bufs /\ iter_states' = iter_states
  BY <1>3 DEF sides
<1> HIDE DEF IInv
<1>8. ASSUME NEW j \in Ids \ {i}, objects[j].live
      PROVE  /\ BufIn(fields_arena', objects'[j]) = BufIn(fields_arena, objects[j])
             /\ Owns(fields_arena', objects'[j]) <=> Owns(fields_arena, objects[j])
             /\ \A x : RefIn(fields_arena', objects'[j], x) <=> RefIn(fields_arena, objects[j], x)
  BY <1>5, <1>6, <1>8, KeptContent DEF Wrote
<1>9. \A j \in Ids : /\ objects'[j].live = objects[j].live
                     /\ objects'[j].class = objects[j].class
  <2>1. objects[i] \in ObjectType /\ objects'[i] \in ObjectType
    BY <1>1, <1>5, <1>6, SpanFacts DEF Wrote
  <2>2. objects[i].live = TRUE /\ objects'[i].live = TRUE
    BY <1>1, <1>6, <2>1 DEF Wrote, ObjectType
  <2> QED
    BY <1>6, <2>2 DEF Wrote
<1>10. ~Owns(fields_arena, objects[i]) /\ ~Owns(fields_arena', objects'[i])
  BY <1>1, <1>9 DEF Owns
<1>11. ListsInv'
  <2>1. ASSUME NEW j \in Ids, objects'[j].live, Owns(fields_arena', objects'[j])
        PROVE  /\ objects[j].live /\ Owns(fields_arena, objects[j])
               /\ BufIn(fields_arena', objects'[j]) = BufIn(fields_arena, objects[j])
    BY <1>8, <1>9, <1>10, <2>1
  <2> QED
    BY <1>5, <1>7, <2>1 DEF ListsInv
<1>12. ASSUME NEW j \in Ids, NEW x \in Ids, objects[j].live,
              Refers(fields_arena', objects'[j], list_bufs', iter_states[j], x)
       PROVE  objects[x].live
  <2>1. Refers(fields_arena, objects[j], list_bufs, iter_states[j], x) => objects[x].live
    BY <1>5, <1>12 DEF RefsInv
  <2>2. CASE j = i
    <3>1. RefIn(fields_arena', objects'[i], x) \/ IterIn(iter_states[i], x)
      BY <1>10, <1>12, <2>2 DEF Refers
    <3>2. ASSUME NEW g \in 0..(objects'[i].count - 1), fields_arena'[objects'[i].off + g] = Ref(x)
          PROVE  v = Ref(x) \/ RefIn(fields_arena, objects[i], x)
      <4>1. fields_arena'[objects'[i].off + g] = IF g = f THEN v
                                                 ELSE IF g < objects[i].count
                                                      THEN fields_arena[objects[i].off + g]
                                                      ELSE Null
        BY <1>6 DEF Wrote
      <4>2. g < objects[i].count => g \in 0..(objects[i].count - 1)
        BY <1>1, <1>5, SpanFacts
      <4> QED
        BY <3>2, <4>1, <4>2, RefFacts DEF RefIn
    <3>3. v = Ref(x) \/ RefIn(fields_arena, objects[i], x) \/ IterIn(iter_states[i], x)
      BY <3>1, <3>2 DEF RefIn
    <3> QED
      BY <1>4, <2>1, <2>2, <3>3 DEF Refers
  <2>3. CASE j # i
    BY <1>7, <1>8, <1>12, <2>1, <2>3 DEF Refers
  <2> QED
    BY <2>2, <2>3
<1>13. \A j \in Ids : objects[j].live /\ Owns(fields_arena, objects[j]) =>
                         /\ Owns(fields_arena', objects'[j])
                         /\ BufIn(fields_arena', objects'[j]) = BufIn(fields_arena, objects[j])
  BY <1>8, <1>10
<1>14. /\ list_bufs' \in [Bufs -> BufType]
       /\ objects' \in [Ids -> ObjectType] /\ fields_arena' \in [Arena -> Slots]
       /\ arena_len' \in 0..ArenaMax /\ first_free' = first_free /\ Store'
  BY <1>5, <1>6, <1>7 DEF Wrote, SideTypes
<1>15. UNCHANGED <<iter_states, frames, natives, gc>>
  BY <1>3, <1>7
<1> QED
  BY <1>9, <1>11, <1>12, <1>13, <1>14, <1>15, BodyStep

LEMMA InitListStep ==
    ASSUME IInv, phase = "idle", NEW t \in Tasks, NEW i \in frames[t], InitList(i)
    PROVE  IInv'
<1> DEFINE b == Lowest(UnusedBufs)
           new == [NoBuf EXCEPT !.used = TRUE]
<1>1. /\ i \in Ids /\ objects[i].live /\ objects[i].class = "list"
      /\ ~Owns(fields_arena, objects[i])
  BY FramesKeep, GetField DEF InitList
<1>2. b \in Bufs /\ ~list_bufs[b].used
  <2>1. UnusedBufs \subseteq Nat /\ UnusedBufs # {}
    BY IdsFacts DEF InitList, UnusedBufs
  <2>2. b \in UnusedBufs
    BY <2>1, LowestFacts
  <2> QED
    BY <2>2 DEF UnusedBufs
<1>3. /\ list_bufs' = [list_bufs EXCEPT ![b] = new]
      /\ IF alloc_span(1) THEN set_field(i, 0, IntSlot(b)) ELSE UNCHANGED store
      /\ UNCHANGED <<iter_states, frames, natives, gc>>
  BY DEF InitList
<1> HIDE DEF b
<1>4. new \in BufType /\ new.used /\ new.elems = <<>>
  <2>1. NoBuf.elems = <<>> /\ NoBuf \in [used : BOOLEAN, elems : {<<>>}, mods : Nat]
    BY DEF NoBuf
  <2>2. <<>> \in Seq(Slots)
    OBVIOUS
  <2> QED
    BY <2>1, <2>2 DEF BufType, NoBuf
<1>5. TypeOK /\ Store /\ SpansInv /\ ListsInv /\ IterInv /\ RefsInv /\ SideTypes
  BY DEF IInv, Store
<1> HIDE DEF new, IInv
<1>6. /\ list_bufs' \in [Bufs -> BufType] /\ list_bufs'[b] = new
      /\ \A c \in Bufs \ {b} : list_bufs'[c] = list_bufs[c]
  BY <1>2, <1>3, <1>4, <1>5 DEF SideTypes
<1>7. iter_states' = iter_states
  BY <1>3
\* A buffer that some list owns is in use, and so another one.
<1>8. ASSUME NEW j \in Ids, objects[j].live, Owns(fields_arena, objects[j])
      PROVE  /\ BufIn(fields_arena, objects[j]) \in Bufs \ {b} /\ j # i
             /\ list_bufs'[BufIn(fields_arena, objects[j])] = list_bufs[BufIn(fields_arena, objects[j])]
  <2>1. BufIn(fields_arena, objects[j]) \in Bufs
    BY <1>5, <1>8, OwnedBuf
  <2>2. BufIn(fields_arena, objects[j]) # b
    BY <1>2, <1>5, <1>8 DEF ListsInv
  <2> QED
    BY <1>1, <1>6, <1>8, <2>1, <2>2
<1>9. CASE alloc_span(1)
  <2>1. Wrote(i, 0, IntSlot(b))
    <3>1. IntSlot(b) \in Slots /\ 0 \in Nat /\ set_field(i, 0, IntSlot(b))
      BY <1>2, <1>3, <1>9, RefFacts
    <3> QED
      BY <1>1, <1>5, <3>1, SetField
  <2>2. ASSUME NEW j \in Ids \ {i}, objects[j].live
        PROVE  /\ BufIn(fields_arena', objects'[j]) = BufIn(fields_arena, objects[j])
               /\ Owns(fields_arena', objects'[j]) <=> Owns(fields_arena, objects[j])
               /\ \A x : RefIn(fields_arena', objects'[j], x) <=> RefIn(fields_arena, objects[j], x)
    BY <1>5, <2>1, <2>2, KeptContent DEF Wrote
  <2>3. \A j \in Ids : /\ objects'[j].live = objects[j].live
                       /\ objects'[j].class = objects[j].class
    <3>1. objects[i] \in ObjectType /\ objects'[i] \in ObjectType
      BY <1>1, <1>5, <2>1, SpanFacts DEF Wrote
    <3>2. objects[i].live = TRUE /\ objects'[i].live = TRUE
      BY <1>1, <2>1, <3>1 DEF Wrote, ObjectType
    <3> QED
      BY <2>1, <3>2 DEF Wrote
  <2>4. /\ objects'[i].count \in Nat /\ 0 < objects'[i].count /\ objects'[i].live
        /\ objects[i].count \in Nat
    BY <1>1, <1>5, <2>1, IdsFacts, SpanFacts DEF Wrote, ObjectType
  <2>5. Owns(fields_arena', objects'[i]) /\ BufIn(fields_arena', objects'[i]) = b
    <3>1. 0 \in 0..(objects'[i].count - 1)
      BY <2>4
    <3>2. fields_arena'[objects'[i].off + 0] = IntSlot(b)
      BY <2>1, <3>1 DEF Wrote
    <3>3. FirstOf(fields_arena', objects'[i]) = IntSlot(b)
      BY <2>4, <3>2 DEF FirstOf
    <3> QED
      BY <1>1, <2>3, <3>3, RefFacts DEF Owns, BufIn
  <2>6. ListsInv'
    <3>1. ASSUME NEW j \in Ids, objects'[j].live, Owns(fields_arena', objects'[j])
          PROVE  \/ j = i /\ BufIn(fields_arena', objects'[j]) = b
                 \/ /\ j # i /\ objects[j].live /\ Owns(fields_arena, objects[j])
                    /\ BufIn(fields_arena', objects'[j]) = BufIn(fields_arena, objects[j])
                    /\ BufIn(fields_arena', objects'[j]) # b
      BY <1>8, <2>2, <2>3, <2>5, <3>1
    <3>2. ASSUME NEW j \in Ids, objects'[j].live, Owns(fields_arena', objects'[j])
          PROVE  list_bufs'[BufIn(fields_arena', objects'[j])].used
      BY <1>4, <1>5, <1>6, <1>8, <3>1, <3>2 DEF ListsInv
    <3>3. ASSUME NEW j \in Ids, NEW k \in Ids, objects'[j].live, objects'[k].live,
                 Owns(fields_arena', objects'[j]), Owns(fields_arena', objects'[k]),
                 BufIn(fields_arena', objects'[j]) = BufIn(fields_arena', objects'[k])
          PROVE  j = k
      BY <1>5, <3>1, <3>3 DEF ListsInv
    <3> QED
      BY <3>2, <3>3 DEF ListsInv
  <2>7. ASSUME NEW j \in Ids, NEW x \in Ids, objects[j].live,
               Refers(fields_arena', objects'[j], list_bufs', iter_states[j], x)
        PROVE  objects[x].live
    <3>1. Refers(fields_arena, objects[j], list_bufs, iter_states[j], x) => objects[x].live
      BY <1>5, <2>7 DEF RefsInv
    <3>2. CASE j = i
      <4>1. ~ElemIn(list_bufs'[b], x)
        BY <1>4, <1>6 DEF ElemIn
      <4>2. RefIn(fields_arena', objects'[i], x) => RefIn(fields_arena, objects[i], x)
        <5>1. ASSUME NEW g \in 0..(objects'[i].count - 1),
                     fields_arena'[objects'[i].off + g] = Ref(x)
              PROVE  RefIn(fields_arena, objects[i], x)
          <6>1. fields_arena'[objects'[i].off + g] = IF g = 0 THEN IntSlot(b)
                                                     ELSE IF g < objects[i].count
                                                          THEN fields_arena[objects[i].off + g]
                                                          ELSE Null
            BY <2>1 DEF Wrote
          <6>2. g < objects[i].count => g \in 0..(objects[i].count - 1)
            BY <2>4
          <6> QED
            BY <5>1, <6>1, <6>2, RefFacts DEF RefIn
        <5> QED
          BY <5>1 DEF RefIn
      <4> QED
        BY <2>5, <2>7, <3>1, <3>2, <4>1, <4>2 DEF Refers
    <3>3. CASE j # i
      <4>1. Owns(fields_arena', objects'[j]) =>
               list_bufs'[BufIn(fields_arena', objects'[j])] = list_bufs[BufIn(fields_arena, objects[j])]
        BY <1>8, <2>2, <2>7, <3>3
      <4> QED
        BY <2>2, <2>7, <3>1, <3>3, <4>1 DEF Refers
    <3> QED
      BY <3>2, <3>3
  <2>8. \A j \in Ids : objects[j].live /\ Owns(fields_arena, objects[j]) =>
                          /\ Owns(fields_arena', objects'[j])
                          /\ BufIn(fields_arena', objects'[j]) = BufIn(fields_arena, objects[j])
    BY <1>8, <2>2
  <2>9. /\ objects' \in [Ids -> ObjectType] /\ fields_arena' \in [Arena -> Slots]
        /\ arena_len' \in 0..ArenaMax /\ first_free' = first_free /\ Store'
    BY <2>1 DEF Wrote
  <2>10. UNCHANGED <<iter_states, frames, natives, gc>>
    BY <1>3
  <2> QED
    BY <1>6, <2>3, <2>6, <2>7, <2>8, <2>9, <2>10, BodyStep
<1>10. CASE ~alloc_span(1)
  <2>1. /\ objects' = objects /\ fields_arena' = fields_arena /\ arena_len' = arena_len
        /\ first_free' = first_free
    BY <1>3, <1>10 DEF store
  <2>2. Store'
    BY <1>5, <2>1 DEF Store, SpansInv, SlotsInv
  <2>3. ListsInv'
    BY <1>5, <1>8, <2>1 DEF ListsInv
  <2>4. ASSUME NEW j \in Ids, NEW x \in Ids, objects[j].live,
               Refers(fields_arena', objects'[j], list_bufs', iter_states[j], x)
        PROVE  objects[x].live
    <3>1. Refers(fields_arena, objects[j], list_bufs, iter_states[j], x)
      BY <1>8, <2>1, <2>4 DEF Refers
    <3> QED
      BY <1>5, <2>4, <3>1 DEF RefsInv
  <2>5. /\ objects' \in [Ids -> ObjectType] /\ fields_arena' \in [Arena -> Slots]
        /\ arena_len' \in 0..ArenaMax
    BY <1>5, <2>1 DEF TypeOK, ObjectType
  <2>6. /\ \A j \in Ids : /\ objects'[j].live = objects[j].live
                          /\ objects'[j].class = objects[j].class
        /\ \A j \in Ids : objects[j].live /\ Owns(fields_arena, objects[j]) =>
                          /\ Owns(fields_arena', objects'[j])
                          /\ BufIn(fields_arena', objects'[j]) = BufIn(fields_arena, objects[j])
    BY <2>1
  <2>7. UNCHANGED <<iter_states, frames, natives, gc>>
    BY <1>3
  <2> QED
    BY <1>6, <2>1, <2>2, <2>3, <2>4, <2>5, <2>6, <2>7, BodyStep
<1> QED
  BY <1>9, <1>10

\* A new object takes the lowest free slot and the end of the arena.
LEMMA PlaceStep ==
    ASSUME IInv, phase = "idle", NEW t \in Tasks, NEW o \in ObjectType, o.live, o.count <= o.cap,
           place_in_slot(o), arena_len' = arena_len + o.cap, arena_len + o.cap <= ArenaMax,
           o.cap > 0 => o.off = arena_len,
           fields_arena' \in [Arena -> Slots],
           \A p \in Arena : p < arena_len => fields_arena'[p] = fields_arena[p],
           \A g \in o.count..(o.cap - 1) : fields_arena'[o.off + g] = Null,
           \A x \in Ids : RefIn(fields_arena', o, x) => objects[x].live,
           ~Owns(fields_arena', o),
           list_bufs' = list_bufs, iter_states' \in [Ids -> IterType],
           \A i \in Ids \ {Lowest(Vacant)} : iter_states'[i] = iter_states[i],
           iter_states'[Lowest(Vacant)].used =>
              /\ o.class = "iterator" /\ iter_states'[Lowest(Vacant)].owner \in Ids
              /\ Walks(iter_states'[Lowest(Vacant)], objects[iter_states'[Lowest(Vacant)].owner]),
           Hold(t, Ref(Lowest(Vacant))), UNCHANGED <<natives, gc>>
    PROVE  IInv'
<1> DEFINE n == Lowest(Vacant)
<1>1. /\ n \in Ids /\ ~objects[n].live /\ \A y \in Vacant : n <= y
      /\ objects' = [objects EXCEPT ![n] = o] /\ first_free' = n + 1
  <2>1. Vacant \subseteq Nat /\ Vacant # {}
    BY IdsFacts DEF Vacant, place_in_slot
  <2>2. n \in Vacant /\ \A y \in Vacant : n <= y
    BY <2>1, LowestFacts
  <2> QED
    BY <2>2 DEF Vacant, place_in_slot
<1>2. /\ iter_states'[n].used => /\ o.class = "iterator" /\ iter_states'[n].owner \in Ids
                                 /\ Walks(iter_states'[n], objects[iter_states'[n].owner])
      /\ \A i \in Ids \ {n} : iter_states'[i] = iter_states[i]
      /\ Hold(t, Ref(n))
  OBVIOUS
<1> HIDE DEF n
<1>3. /\ TypeOK /\ Store /\ SpansInv /\ SlotsInv /\ ListsInv /\ IterInv /\ RefsInv /\ SideTypes
      /\ UpcallsInv
  BY DEF IInv, Store
<1> HIDE DEF IInv
<1>4. objects' \in [Ids -> ObjectType] /\ objects'[n] = o /\ \A j \in Ids \ {n} : objects'[j] = objects[j]
  BY <1>1, <1>3 DEF TypeOK, ObjectType
<1>5. /\ arena_len \in Nat /\ o.cap \in Nat /\ o.count \in Nat /\ arena_len' \in Nat
      /\ arena_len' \in 0..ArenaMax /\ arena_len <= arena_len' /\ arena_len <= ArenaMax
      /\ ArenaMax \in Nat
  <2>1. o.cap \in Nat /\ o.count \in Nat
    BY IdsFacts DEF ObjectType
  <2> QED
    BY <1>3, <2>1, SpanFacts
<1>6. OthersKeep(n)
  <2>1. SUFFICES ASSUME NEW j \in Ids \ {n}, objects[j].live, NEW g \in 0..(objects[j].cap - 1)
                 PROVE  fields_arena'[objects[j].off + g] = fields_arena[objects[j].off + g]
    BY DEF OthersKeep
  <2>2. objects[j].off + g \in Arena
    BY <1>3, <2>1, FieldFacts
  <2>3. /\ objects[j].cap > 0 /\ objects[j].off \in Nat /\ objects[j].cap \in Nat
        /\ objects[j].off + objects[j].cap <= arena_len
    BY <1>3, <2>1, SpanFacts
  <2>4. objects[j].off + g < arena_len
    BY <1>5, <2>3
  <2> QED
    BY <2>2, <2>4
<1>7. Store'
  <2>1. o.cap > 0 => /\ o.off + o.cap <= arena_len'
                     /\ \A j \in Ids \ {n} : objects[j].live /\ objects[j].cap > 0
                                             => Apart(o, objects[j])
    BY <1>3, <1>5, SpanFacts DEF Apart
  <2>2. ASSUME NEW k \in Ids, k < first_free' PROVE objects[k].live \/ k = n
    <3>1. k \in Nat /\ n \in Nat /\ first_free \in Nat
      BY <1>1, <1>3, IdsFacts DEF TypeOK
    <3>2. CASE k < first_free
      BY <1>3, <3>2 DEF SlotsInv
    <3>3. CASE ~(k < first_free)
      <4>1. objects[k].live \/ k \in Vacant
        BY <3>1, <3>3 DEF Vacant
      <4>2. k \in Vacant => k = n
        BY <1>1, <2>2, <3>1
      <4> QED
        BY <4>1, <4>2
    <3> QED
      BY <3>2, <3>3
  <2> QED
    BY <1>1, <1>3, <1>5, <1>6, <2>1, <2>2, StoreStep
<1>8. ASSUME NEW j \in Ids \ {n}, objects[j].live
      PROVE  /\ BufIn(fields_arena', objects'[j]) = BufIn(fields_arena, objects[j])
             /\ Owns(fields_arena', objects'[j]) <=> Owns(fields_arena, objects[j])
             /\ \A x : RefIn(fields_arena', objects'[j], x) <=> RefIn(fields_arena, objects[j], x)
  BY <1>3, <1>4, <1>6, <1>8, KeptContent
<1>9. ~iter_states[n].used
  BY <1>1, <1>3 DEF IterInv
<1>10. /\ upcalls' = upcalls /\ shadow_roots' = shadow_roots
       /\ phase' = phase /\ work' = work /\ marks' = marks /\ exhausted' = exhausted
       /\ write_pos' = write_pos /\ slice' = slice /\ after' = after
  BY DEF natives, gc
<1>11. /\ frames' \in [Tasks -> SUBSET Ids]
       /\ \A u \in Tasks : \A x \in frames'[u] : x = n \/ objects[x].live
  <2>1. frames' = [frames EXCEPT ![t] = @ \cup {n}]
    BY <1>1, <1>2, HoldRef DEF Hold
  <2>2. frames \in [Tasks -> SUBSET Ids] /\ \A u \in Tasks : \A x \in frames[u] : objects[x].live
    BY FramesKeep
  <2> QED
    BY <1>1, <2>1, <2>2
<1>12. TypeOK'
  <2>1. first_free' \in 0..MaxSlots
    BY <1>1, IdsFacts DEF Ids
  <2> QED
    BY <1>3, <1>4, <1>5, <1>10, <1>11, <2>1 DEF TypeOK, ObjectType
<1>13. SideTypes'
  BY <1>3, <1>10 DEF SideTypes
<1>14. UpcallsInv'
  BY <1>3, <1>10 DEF UpcallsInv
<1>15. ListsInv'
  <2>1. ASSUME NEW j \in Ids, objects'[j].live, Owns(fields_arena', objects'[j])
        PROVE  /\ objects[j].live /\ Owns(fields_arena, objects[j])
               /\ BufIn(fields_arena', objects'[j]) = BufIn(fields_arena, objects[j])
    BY <1>4, <1>8, <2>1
  <2> QED
    BY <1>3, <2>1 DEF ListsInv
<1>16. \A x \in Ids : objects[x].live => objects'[x] = objects[x]
  BY <1>1, <1>4
<1>17. IterInv'
  <2>1. ASSUME NEW i \in Ids, iter_states'[i].used
        PROVE  /\ objects'[i].live /\ objects'[i].class = "iterator"
               /\ iter_states'[i].owner \in Ids
               /\ Walks(iter_states'[i], objects[iter_states'[i].owner])
    <3>1. CASE i = n
      BY <1>2, <1>4, <2>1, <3>1
    <3>2. CASE i # n
      <4>1. iter_states'[i] = iter_states[i] /\ iter_states[i].used
        BY <1>2, <2>1, <3>2
      <4>2. /\ objects[i].live /\ objects[i].class = "iterator" /\ iter_states[i].owner \in Ids
            /\ Walks(iter_states[i], objects[iter_states[i].owner])
        BY <1>3, <4>1 DEF IterInv
      <4> QED
        BY <1>16, <4>1, <4>2
    <3> QED
      BY <3>1, <3>2
  <2>2. ASSUME NEW i \in Ids, iter_states'[i].used
        PROVE  /\ iter_states'[i].source = BufIn(fields_arena', objects'[iter_states'[i].owner])
               /\ Owns(fields_arena', objects'[iter_states'[i].owner])
               /\ objects'[iter_states'[i].owner].live
    <3> DEFINE w == iter_states'[i].owner
    <3>1. /\ w \in Ids /\ objects[w].live /\ Owns(fields_arena, objects[w])
          /\ iter_states'[i].source = BufIn(fields_arena, objects[w])
      BY <2>1, <2>2 DEF Walks
    <3> HIDE DEF w
    <3>2. w # n /\ objects'[w] = objects[w]
      BY <1>1, <1>16, <3>1
    <3>3. /\ BufIn(fields_arena', objects'[w]) = BufIn(fields_arena, objects[w])
          /\ Owns(fields_arena', objects'[w]) <=> Owns(fields_arena, objects[w])
      BY <1>8, <3>1, <3>2
    <3>4. /\ iter_states'[i].source = BufIn(fields_arena', objects'[w])
          /\ Owns(fields_arena', objects'[w]) /\ objects'[w].live
      BY <3>1, <3>2, <3>3
    <3> QED
      BY <3>4 DEF w
  <2> QED
    BY <1>10, <2>1, <2>2 DEF IterInv, Walks
<1>18. RefsInv'
  <2>1. \A k \in DOMAIN shadow_roots : shadow_roots[k] \in Ids /\ objects[shadow_roots[k]].live
    BY UpcallFacts
  <2>2. \A u \in Tasks : \A x \in frames'[u] : objects'[x].live
    BY <1>4, <1>11, <1>16
  <2>3. ASSUME NEW i \in Ids, NEW x \in Ids, objects'[i].live,
               Refers(fields_arena', objects'[i], list_bufs', iter_states'[i], x)
        PROVE  objects'[x].live
    <3>1. CASE i = n
      <4>1. RefIn(fields_arena', o, x) \/ IterIn(iter_states'[n], x)
        BY <1>4, <2>3, <3>1 DEF Refers
      <4>2. IterIn(iter_states'[n], x) => objects[x].live
        BY <1>2 DEF IterIn, Walks
      <4> QED
        BY <1>16, <4>1, <4>2
    <3>2. CASE i # n
      <4>1. objects[i].live /\ Refers(fields_arena, objects[i], list_bufs, iter_states[i], x)
        BY <1>2, <1>4, <1>8, <2>3, <3>2 DEF Refers
      <4> QED
        BY <1>3, <1>16, <4>1 DEF RefsInv
    <3> QED
      BY <3>1, <3>2
  <2> QED
    BY <1>10, <1>16, <2>1, <2>2, <2>3 DEF RefsInv
<1>19. Collector'
  BY AtRest
<1> QED
  BY <1>7, <1>12, <1>13, <1>14, <1>15, <1>17, <1>18, <1>19 DEF IInv

\* What a fresh allocation leaves: a blank span at the end of the arena.
\* A new span is blank, and leaves the others.
LEMMA BlankSpan ==
    ASSUME TypeOK, SpansInv, NEW n \in Nat, alloc_span(n),
           fields_arena' = Cleared(fields_arena, arena_len, n)
    PROVE  /\ fields_arena' \in [Arena -> Slots]
           /\ \A p \in Arena : p < arena_len => fields_arena'[p] = fields_arena[p]
           /\ \A g \in 0..(n - 1) : fields_arena'[SpanOff(n) + g] = Null
<1>1. /\ n <= MaxSpan /\ arena_len + n <= ArenaMax /\ arena_len \in Nat /\ ArenaMax \in Nat
      /\ MaxSpan \in Nat
  BY SpanFacts DEF alloc_span
<1>2. /\ fields_arena' \in [Arena -> Slots]
      /\ \A p \in Arena : fields_arena'[p] = IF arena_len <= p /\ p < arena_len + n
                                             THEN Null ELSE fields_arena[p]
  BY RefFacts DEF TypeOK, Cleared
<1>3. \A p \in Arena : p < arena_len => fields_arena'[p] = fields_arena[p]
  <2>1. \A p \in Arena : p < arena_len => ~(arena_len <= p)
    BY <1>1, IdsFacts DEF Arena
  <2> QED
    BY <1>2, <2>1
<1>4. ASSUME NEW g \in 0..(n - 1) PROVE fields_arena'[SpanOff(n) + g] = Null
  <2>1. /\ SpanOff(n) = arena_len /\ arena_len + g \in Arena
        /\ arena_len <= arena_len + g /\ arena_len + g < arena_len + n
    BY <1>1 DEF Arena, SpanOff
  <2> QED
    BY <1>2, <2>1
<1> QED
  BY <1>2, <1>3, <1>4

LEMMA AllocStep ==
    ASSUME IInv, phase = "idle", NEW t \in Tasks, NEW class \in Classes,
           NEW n \in Nat, NEW count \in 0..n, class = "list" => count = 0,
           alloc_with_field_count(t, class, n, count),
           list_bufs' = list_bufs, iter_states' \in [Ids -> IterType],
           \A i \in Ids \ {Lowest(Vacant)} : iter_states'[i] = iter_states[i],
           iter_states'[Lowest(Vacant)].used =>
              /\ class = "iterator" /\ iter_states'[Lowest(Vacant)].owner \in Ids
              /\ Walks(iter_states'[Lowest(Vacant)], objects[iter_states'[Lowest(Vacant)].owner]),
           UNCHANGED <<natives, gc>>
    PROVE  IInv'
<1> DEFINE o == [live |-> TRUE, class |-> class, off |-> SpanOff(n), count |-> count, cap |-> n]
<1>1. TypeOK /\ SpansInv
  BY DEF IInv, Store
<1> HIDE DEF IInv
<1>2. /\ n <= MaxSpan /\ arena_len + n <= ArenaMax /\ arena_len \in Nat /\ ArenaMax \in Nat
      /\ MaxSpan \in Nat
  BY <1>1, SpanFacts DEF alloc_with_field_count, alloc_span
<1>3. /\ fields_arena' = Cleared(fields_arena, arena_len, n) /\ arena_len' = arena_len + n
      /\ place_in_slot(o) /\ Hold(t, Ref(Lowest(Vacant)))
  BY DEF alloc_with_field_count
<1>4. /\ o \in ObjectType /\ o.live /\ o.class = class /\ o.count = count /\ o.cap = n
      /\ o.off = SpanOff(n)
  <2>1. SpanOff(n) \in 0..ArenaMax /\ count \in 0..MaxSpan /\ n \in 0..MaxSpan
    BY <1>2 DEF SpanOff
  <2> QED
    BY <2>1 DEF ObjectType
<1> HIDE DEF o
<1>5. n > 0 => o.off = arena_len
  BY <1>4 DEF SpanOff
<1>6. /\ fields_arena' \in [Arena -> Slots]
      /\ \A p \in Arena : p < arena_len => fields_arena'[p] = fields_arena[p]
      /\ \A g \in 0..(n - 1) : fields_arena'[SpanOff(n) + g] = Null
  BY <1>1, <1>3, BlankSpan DEF alloc_with_field_count
<1>8. ASSUME NEW g \in 0..(n - 1) PROVE fields_arena'[o.off + g] = Null
  BY <1>4, <1>6
<1>9. \A g \in o.count..(o.cap - 1) : fields_arena'[o.off + g] = Null
  BY <1>4, <1>8
<1>10. \A x \in Ids : ~RefIn(fields_arena', o, x)
  <2>1. \A g \in 0..(o.count - 1) : g \in 0..(n - 1)
    BY <1>4
  <2> QED
    BY <1>8, <2>1, RefFacts DEF RefIn
<1>11. ~Owns(fields_arena', o)
  <2>1. class = "list" => FirstOf(fields_arena', o) = Null
    BY <1>4 DEF FirstOf
  <2> QED
    BY <1>4, <2>1, RefFacts DEF Owns
<1>12. o.count <= o.cap /\ arena_len' = arena_len + o.cap /\ arena_len + o.cap <= ArenaMax
       /\ (o.cap > 0 => o.off = arena_len)
  BY <1>2, <1>3, <1>4, <1>5
<1> QED
  BY <1>3, <1>4, <1>6, <1>9, <1>10, <1>11, <1>12, PlaceStep

LEMMA NewStep ==
    ASSUME IInv, phase = "idle", NEW t \in Tasks,
           NewList(t) \/ \E shape \in Shapes : New(t, shape[1], shape[2])
    PROVE  IInv'
<1>1. iter_states' = iter_states /\ list_bufs' = list_bufs /\ UNCHANGED <<natives, gc>>
  BY DEF NewList, New, sides
<1>2. iter_states \in [Ids -> IterType] /\ IterInv
  BY DEF IInv, SideTypes
<1> HIDE DEF IInv
<1>3. ~iter_states'[Lowest(Vacant)].used
  <2>1. Vacant # {} /\ Vacant \subseteq Nat
    BY IdsFacts DEF NewList, New, alloc_with_field_count, place_in_slot, Vacant
  <2>2. Lowest(Vacant) \in Vacant
    BY <2>1, LowestFacts
  <2> QED
    BY <1>1, <1>2, <2>2 DEF IterInv, Vacant
<1>4. CASE NewList(t)
  <2>1. alloc_with_field_count(t, "list", 0, 0) /\ "list" \in Classes /\ 0 \in Nat /\ 0 \in 0..0
    BY <1>4 DEF NewList, Classes
  <2> QED
    BY <1>1, <1>2, <1>3, <2>1, AllocStep
<1>5. ASSUME NEW shape \in Shapes, New(t, shape[1], shape[2]) PROVE IInv'
  <2>1. /\ alloc_with_field_count(t, "object", shape[1], shape[2]) /\ "object" \in Classes
        /\ shape[1] \in Nat /\ shape[2] \in 0..shape[1]
    BY <1>5, ShapesAssumption DEF New, Classes
  <2> QED
    BY <1>1, <1>2, <1>3, <2>1, AllocStep
<1> QED
  BY <1>4, <1>5

LEMMA NewIteratorStep ==
    ASSUME IInv, phase = "idle", NEW t \in Tasks, NEW i \in frames[t], NewIterator(t, i)
    PROVE  IInv'
<1> DEFINE n == Lowest(Vacant)
           s == [NoIter EXCEPT !.used = TRUE, !.source = BufOf(i), !.owner = i,
                               !.expected = list_mod_count(i)]
<1>1. /\ i \in Ids /\ objects[i].live /\ HasBuf(i)
      /\ alloc_with_field_count(t, "iterator", 0, 0) /\ iter_register(n, s)
      /\ UNCHANGED <<list_bufs, natives, gc>>
  BY FramesKeep DEF NewIterator
<1>2. iter_states \in [Ids -> IterType] /\ IterInv
  BY DEF IInv, SideTypes
<1> HIDE DEF IInv
<1>3. n \in Ids /\ ~iter_states[n].used
  <2>1. Vacant # {} /\ Vacant \subseteq Nat
    BY <1>1, IdsFacts DEF alloc_with_field_count, place_in_slot, Vacant
  <2>2. n \in Vacant
    BY <2>1, LowestFacts
  <2> QED
    BY <1>2, <2>2 DEF IterInv, Vacant
<1>4. /\ BufOf(i) \in Nat /\ list_mod_count(i) \in Nat /\ i \in Nat
  <2>1. BufOf(i) \in Bufs /\ list_bufs[BufOf(i)] \in BufType
        /\ list_mod_count(i) = list_bufs[BufOf(i)].mods
    BY <1>1, ListFacts
  <2> QED
    BY <1>1, <2>1, IdsFacts DEF BufType
<1>5. s \in IterType /\ s.owner = i /\ s.source = BufOf(i)
  BY <1>4 DEF IterType, NoIter
<1> HIDE DEF n, s
<1>6. /\ iter_states' \in [Ids -> IterType] /\ iter_states'[n] = s
      /\ \A j \in Ids \ {n} : iter_states'[j] = iter_states[j]
  BY <1>1, <1>2, <1>3, <1>5 DEF iter_register
<1>7. Walks(s, objects[i])
  BY <1>1, <1>5, GetField DEF Walks
<1>8. iter_states'[n].owner \in Ids /\ Walks(iter_states'[n], objects[iter_states'[n].owner])
  BY <1>1, <1>5, <1>6, <1>7
<1>9. "iterator" \in Classes /\ 0 \in Nat /\ 0 \in 0..0 /\ list_bufs' = list_bufs
  BY <1>1 DEF Classes
<1> QED
  BY <1>1, <1>6, <1>8, <1>9, AllocStep DEF n

\* The span of a clone holds what the span of its source does.
LEMMA ClonedSpan ==
    ASSUME TypeOK, SpansInv, NEW i \in Ids, objects[i].live, alloc_span(objects[i].cap),
           fields_arena' = Copied(fields_arena, objects[i].off, objects[i].cap,
                                  SpanOff(objects[i].cap))
    PROVE  /\ fields_arena' \in [Arena -> Slots]
           /\ \A p \in Arena : p < arena_len => fields_arena'[p] = fields_arena[p]
           /\ \A g \in 0..(objects[i].cap - 1) :
                 fields_arena'[SpanOff(objects[i].cap) + g] = fields_arena[objects[i].off + g]
<1> DEFINE src == objects[i]
           off == SpanOff(src.cap)
<1>1. /\ src.off \in Nat /\ src.cap \in Nat /\ (src.cap > 0 => src.off + src.cap <= arena_len)
      /\ arena_len \in Nat /\ arena_len <= ArenaMax /\ ArenaMax \in Nat
      /\ arena_len + src.cap <= ArenaMax
  BY SpanFacts DEF alloc_span
<1>2. off = IF src.cap = 0 THEN 0 ELSE arena_len
  BY DEF SpanOff
<1> HIDE DEF off
<1>3. src.cap > 0 => off = arena_len
  BY <1>1, <1>2
<1>4. ASSUME NEW g \in 0..(src.cap - 1)
      PROVE  src.off + g \in Arena /\ fields_arena[src.off + g] \in Slots
  BY FieldFacts
<1>5. ASSUME NEW p \in Arena
      PROVE  /\ fields_arena'[p] \in Slots
             /\ p < arena_len => fields_arena'[p] = fields_arena[p]
             /\ src.cap > 0 /\ arena_len <= p /\ p < arena_len + src.cap
                => fields_arena'[p] = fields_arena[src.off + (p - arena_len)]
  <2>0. p \in Nat
    BY IdsFacts DEF Arena
  <2>1. fields_arena'[p] = IF off <= p /\ p < off + src.cap
                           THEN fields_arena[src.off + (p - off)] ELSE fields_arena[p]
    BY DEF Copied, off
  <2>2. CASE src.cap > 0 /\ arena_len <= p /\ p < arena_len + src.cap
    <3>1. p - arena_len \in 0..(src.cap - 1) /\ ~(p < arena_len)
      BY <1>1, <2>0, <2>2
    <3> QED
      BY <1>3, <1>4, <2>1, <2>2, <3>1
  <2>3. CASE ~(src.cap > 0 /\ arena_len <= p /\ p < arena_len + src.cap)
    <3>1. ~(off <= p /\ p < off + src.cap)
      <4>1. CASE src.cap > 0
        BY <1>3, <2>3, <4>1
      <4>2. CASE ~(src.cap > 0)
        <5>1. src.cap = 0 /\ off = 0
          BY <1>1, <1>2, <4>2
        <5> QED
          BY <2>0, <5>1
      <4> QED
        BY <4>1, <4>2
    <3> QED
      BY <2>1, <2>3, <3>1 DEF TypeOK
  <2> QED
    BY <2>2, <2>3
<1>6. fields_arena' \in [Arena -> Slots]
  <2>1. fields_arena' = [p \in Arena |-> fields_arena'[p]]
    BY DEF Copied
  <2> QED
    BY <1>5, <2>1
<1>7. ASSUME NEW g \in 0..(src.cap - 1)
      PROVE  fields_arena'[off + g] = fields_arena[src.off + g]
  <2>1. /\ off = arena_len /\ arena_len + g \in Arena /\ src.cap > 0
        /\ arena_len <= arena_len + g /\ arena_len + g < arena_len + src.cap
        /\ (arena_len + g) - arena_len = g
    BY <1>1, <1>3 DEF Arena
  <2> QED
    BY <1>5, <2>1
<1> QED
  BY <1>5, <1>6, <1>7 DEF off

LEMMA CloneStep ==
    ASSUME PlainClones, IInv, phase = "idle", NEW t \in Tasks, NEW i \in frames[t], clone_object(t, i)
    PROVE  IInv'
<1> DEFINE src == objects[i]
           o == [src EXCEPT !.off = SpanOff(src.cap)]
<1>1. /\ i \in Ids /\ objects[i].live /\ src.class = "object" /\ alloc_span(src.cap)
      /\ fields_arena' = Copied(fields_arena, src.off, src.cap, SpanOff(src.cap))
      /\ arena_len' = arena_len + src.cap /\ place_in_slot(o)
      /\ Hold(t, Ref(Lowest(Vacant))) /\ UNCHANGED <<sides, natives, gc>>
  BY FramesKeep DEF clone_object, PlainClones
<1>2. /\ TypeOK /\ Store /\ SpansInv /\ SlotsInv /\ RefsInv /\ IterInv
      /\ iter_states \in [Ids -> IterType]
  BY DEF IInv, Store, SideTypes
<1> HIDE DEF IInv
<1>3. /\ src \in ObjectType /\ src.off \in Nat /\ src.count \in Nat /\ src.cap \in Nat
      /\ src.count <= src.cap /\ (src.cap > 0 => src.off + src.cap <= arena_len)
      /\ arena_len \in Nat /\ arena_len <= ArenaMax /\ ArenaMax \in Nat
      /\ arena_len + src.cap <= ArenaMax
  BY <1>1, <1>2, SpanFacts DEF alloc_span
<1>4. /\ o \in ObjectType /\ o.live /\ o.class = "object" /\ o.count = src.count
      /\ o.cap = src.cap /\ o.off = SpanOff(src.cap)
  <2>1. SpanOff(src.cap) \in 0..ArenaMax
    BY <1>3 DEF SpanOff
  <2> QED
    BY <1>1, <1>3, <2>1 DEF ObjectType
<1> HIDE DEF o
<1>5. src.cap > 0 => o.off = arena_len
  BY <1>4 DEF SpanOff
<1>7. /\ fields_arena' \in [Arena -> Slots]
      /\ \A p \in Arena : p < arena_len => fields_arena'[p] = fields_arena[p]
      /\ \A g \in 0..(src.cap - 1) : fields_arena'[SpanOff(src.cap) + g] = fields_arena[src.off + g]
  BY <1>1, <1>2, ClonedSpan
<1>8. fields_arena' \in [Arena -> Slots]
  BY <1>7
<1>9. ASSUME NEW g \in 0..(src.cap - 1)
      PROVE  fields_arena'[o.off + g] = fields_arena[src.off + g]
  BY <1>4, <1>7
<1>10. ASSUME NEW g \in o.count..(o.cap - 1) PROVE fields_arena'[o.off + g] = Null
  <2>1. g \in 0..(src.cap - 1) /\ g \in src.count..(src.cap - 1)
    BY <1>3, <1>4
  <2> QED
    BY <1>1, <1>2, <1>9, <2>1 DEF SlotsInv
<1>11. ASSUME NEW x \in Ids, RefIn(fields_arena', o, x) PROVE objects[x].live
  <2>1. PICK g \in 0..(o.count - 1) : fields_arena'[o.off + g] = Ref(x)
    BY <1>11 DEF RefIn
  <2>2. g \in 0..(src.cap - 1) /\ g \in 0..(src.count - 1)
    BY <1>3, <1>4
  <2>3. Refers(fields_arena, objects[i], list_bufs, iter_states[i], x)
    BY <1>9, <2>1, <2>2 DEF Refers, RefIn
  <2> QED
    BY <1>1, <1>2, <2>3 DEF RefsInv
<1>12. ~Owns(fields_arena', o)
  BY <1>4 DEF Owns
<1>13. iter_states' = iter_states /\ list_bufs' = list_bufs /\ UNCHANGED <<natives, gc>>
  BY <1>1 DEF sides
<1>14. ~iter_states'[Lowest(Vacant)].used
  <2>1. Vacant # {} /\ Vacant \subseteq Nat
    BY <1>1, IdsFacts DEF place_in_slot, Vacant
  <2>2. Lowest(Vacant) \in Vacant
    BY <2>1, LowestFacts
  <2> QED
    BY <1>2, <1>13, <2>2 DEF IterInv, Vacant
<1>15. o.count <= o.cap /\ arena_len' = arena_len + o.cap /\ arena_len + o.cap <= ArenaMax
       /\ (o.cap > 0 => o.off = arena_len)
  BY <1>1, <1>3, <1>4, <1>5
<1>16. \A p \in Arena : p < arena_len => fields_arena'[p] = fields_arena[p]
  BY <1>7
<1>17. iter_states' \in [Ids -> IterType] /\ place_in_slot(o) /\ Hold(t, Ref(Lowest(Vacant)))
  BY <1>1, <1>2, <1>13
<1> QED
  BY <1>4, <1>8, <1>10, <1>11, <1>12, <1>13, <1>14, <1>15, <1>16, <1>17, PlaceStep

\* A step of the collector after which every object is there and holds what it held.
LEMMA SameObjects ==
    ASSUME IInv, phase # "sweep", phase' # "sweep", UNCHANGED <<sides, frames, natives>>,
           TypeOK', write_pos' \in 0..ArenaMax, after' \in KeyType, Store', Collector',
           \A j \in Ids : /\ objects'[j].live = objects[j].live
                          /\ objects'[j].class = objects[j].class,
           \A j \in Ids : objects[j].live =>
              /\ BufIn(fields_arena', objects'[j]) = BufIn(fields_arena, objects[j])
              /\ Owns(fields_arena', objects'[j]) <=> Owns(fields_arena, objects[j])
              /\ \A x : RefIn(fields_arena', objects'[j], x) <=> RefIn(fields_arena, objects[j], x)
    PROVE  IInv'
<1>1. /\ list_bufs' = list_bufs /\ iter_states' = iter_states /\ frames' = frames
      /\ upcalls' = upcalls /\ shadow_roots' = shadow_roots
  BY DEF sides, natives
<1>2. TypeOK /\ SideTypes /\ ListsInv /\ IterInv /\ RefsInv /\ UpcallsInv
  BY DEF IInv
<1> HIDE DEF IInv
<1>3. SideTypes'
  BY <1>1, <1>2 DEF SideTypes
<1>4. ListsInv'
  BY <1>1, <1>2 DEF ListsInv
<1>5. IterInv'
  <2>1. ASSUME NEW i \in Ids, iter_states[i].used
        PROVE  /\ objects[i].live /\ objects[i].class = "iterator" /\ iter_states[i].owner \in Ids
               /\ Walks(iter_states[i], objects[iter_states[i].owner])
    BY <1>2, <2>1 DEF IterInv
  <2>2. ASSUME NEW i \in Ids, iter_states[i].used
        PROVE  /\ iter_states[i].source = BufIn(fields_arena', objects'[iter_states[i].owner])
               /\ Owns(fields_arena', objects'[iter_states[i].owner])
               /\ objects'[iter_states[i].owner].live
    <3> DEFINE w == iter_states[i].owner
    <3>1. /\ w \in Ids /\ objects[w].live /\ Owns(fields_arena, objects[w])
          /\ iter_states[i].source = BufIn(fields_arena, objects[w])
      BY <2>1, <2>2 DEF Walks
    <3> HIDE DEF w
    <3>2. /\ iter_states[i].source = BufIn(fields_arena', objects'[w])
          /\ Owns(fields_arena', objects'[w]) /\ objects'[w].live
      BY <3>1
    <3> QED
      BY <3>2 DEF w
  <2> QED
    BY <1>1, <2>1, <2>2 DEF IterInv, Walks
<1>6. RefsInv'
  <2>1. /\ \A t \in Tasks : \A x \in frames[t] : x \in Ids /\ objects[x].live
        /\ \A n \in DOMAIN shadow_roots : shadow_roots[n] \in Ids /\ objects[shadow_roots[n]].live
    <3>1. \A n \in DOMAIN shadow_roots : shadow_roots[n] \in Ids
      BY <1>2, SeqFacts DEF SideTypes
    <3> QED
      BY <1>2, <3>1 DEF TypeOK, RefsInv
  <2>2. ASSUME NEW i \in Ids, NEW x \in Ids, objects'[i].live,
               Refers(fields_arena', objects'[i], list_bufs, iter_states[i], x)
        PROVE  objects'[x].live
    <3>1. objects[i].live /\ Refers(fields_arena, objects[i], list_bufs, iter_states[i], x)
      BY <2>2 DEF Refers
    <3> QED
      BY <1>2, <3>1 DEF RefsInv
  <2> QED
    BY <1>1, <2>1, <2>2 DEF RefsInv
<1>7. UpcallsInv'
  BY <1>1, <1>2 DEF UpcallsInv
<1> QED
  BY <1>3, <1>4, <1>5, <1>6, <1>7 DEF IInv

LEMMA AskedFacts ==
    ASSUME TypeOK, NEW t \in Tasks
    PROVE  Asked(t) \subseteq Nat
<1>1. \A j \in frames[t] : j \in Ids /\ objects[j].cap \in Nat
  BY IdsFacts DEF TypeOK
<1> QED
  BY <1>1, ShapesAssumption DEF Asked

\* The span given back lay above every other.
LEMMA RefusedArena ==
    ASSUME NoEmptyRefusals, TypeOK, NEW n \in Nat, Refused(n)
    PROVE  /\ arena_len' = arena_len /\ fields_arena' \in [Arena -> Slots]
           /\ \A p \in Arena : p < arena_len => fields_arena'[p] = fields_arena[p]
           /\ first_free' = MaxSlots /\ UNCHANGED <<objects, sides, frames, natives, gc>>
           /\ \A k \in Ids : first_free <= k => objects[k].live
<1>1. n # 0 /\ SpanOff(n) = arena_len
  BY DEF Refused, NoEmptyRefusals, SpanOff
<1>2. /\ arena_len' = arena_len
      /\ fields_arena' = [p \in Arena |-> IF p < arena_len THEN fields_arena[p] ELSE Null]
  BY <1>1 DEF Refused, truncate
<1>3. fields_arena' \in [Arena -> Slots]
  BY <1>2, RefFacts DEF TypeOK
<1> QED
  BY <1>2, <1>3 DEF Refused, Vacant

\* The fields of every object are where they were.
LEMMA RefusedFields ==
    ASSUME NoEmptyRefusals, IInv, NEW n \in Nat, Refused(n), NEW j \in Ids, objects[j].live,
           NEW g \in 0..(objects[j].cap - 1)
    PROVE  fields_arena'[objects[j].off + g] = fields_arena[objects[j].off + g]
<1>1. TypeOK /\ SpansInv
  BY DEF IInv, Store
<1>2. objects[j].off + g \in Arena
  BY <1>1, FieldFacts
<1>3. /\ objects[j].off \in Nat /\ objects[j].cap \in Nat /\ objects[j].cap > 0
      /\ objects[j].off + objects[j].cap <= arena_len /\ arena_len \in Nat
  BY <1>1, SpanFacts
<1>4. objects[j].off + g < arena_len
  BY <1>3
<1> QED
  BY <1>1, <1>2, <1>4, RefusedArena

LEMMA RefusedStep ==
    ASSUME NoEmptyRefusals, IInv, phase = "idle", NEW n \in Nat, Refused(n)
    PROVE  IInv'
<1>1. TypeOK /\ SideTypes /\ Store /\ SpansInv /\ SlotsInv
  BY DEF IInv, Store
<1>2. /\ arena_len' = arena_len /\ fields_arena' \in [Arena -> Slots]
      /\ first_free' = MaxSlots /\ UNCHANGED <<objects, sides, frames, natives, gc>>
      /\ \A k \in Ids : first_free <= k => objects[k].live
  BY <1>1, RefusedArena
<1>3. \A j \in Ids : objects[j].live => \A g \in 0..(objects[j].cap - 1) :
          fields_arena'[objects[j].off + g] = fields_arena[objects[j].off + g]
  BY RefusedFields
<1> HIDE DEF IInv
<1>4. SpansInv'
  BY <1>1, <1>2 DEF SpansInv
<1>5. SlotsInv'
  <2>1. \A k \in Ids : k < first_free' => objects'[k].live
    BY <1>1, <1>2, IdsFacts DEF SlotsInv, TypeOK
  <2>2. ASSUME NEW j \in Ids, objects[j].live, NEW g \in objects[j].count..(objects[j].cap - 1)
        PROVE  fields_arena'[objects[j].off + g] = Null
    <3>1. g \in 0..(objects[j].cap - 1)
      BY <1>1, <2>2, SpanFacts
    <3> QED
      BY <1>1, <1>3, <2>2, <3>1 DEF SlotsInv
  <2> QED
    BY <1>1, <1>2, <2>1, <2>2 DEF SlotsInv
<1>6. TypeOK' /\ SideTypes'
  BY <1>1, <1>2, IdsFacts DEF TypeOK, SideTypes, sides, natives, gc
<1>7. ASSUME NEW j \in Ids, objects[j].live
      PROVE  /\ BufIn(fields_arena', objects'[j]) = BufIn(fields_arena, objects[j])
             /\ Owns(fields_arena', objects'[j]) <=> Owns(fields_arena, objects[j])
             /\ \A x : RefIn(fields_arena', objects'[j], x) <=> RefIn(fields_arena, objects[j], x)
  <2>1. objects[j] \in ObjectType /\ objects'[j] = objects[j]
    BY <1>1, <1>2, SpanFacts
  <2>2. \A g \in 0..(objects[j].count - 1) :
           fields_arena'[objects'[j].off + g] = fields_arena[objects[j].off + g]
    BY <1>1, <1>2, <1>3, <1>7, SpanFacts
  <2> QED
    BY <2>1, <2>2, SameContent
<1>8. \A j \in Ids : objects'[j].live = objects[j].live /\ objects'[j].class = objects[j].class
  BY <1>2
<1>9. phase # "sweep" /\ phase' # "sweep" /\ Store' /\ UNCHANGED <<sides, frames, natives>>
  BY <1>2, <1>4, <1>5 DEF Store, gc
<1>10. Collector'
  BY <1>2, AtRest
<1>11. write_pos' \in 0..ArenaMax /\ after' \in KeyType
  BY <1>6, IdsFacts DEF SideTypes
<1> QED
  BY <1>6, <1>7, <1>8, <1>9, <1>10, <1>11, SameObjects

LEMMA TaskStepKeeps ==
    ASSUME UpcallsNest, PlainClones, NoEmptyRefusals, IInv, NEW t \in Tasks, TaskStep(t)
    PROVE  IInv'
<1>1. phase = "idle"
  BY DEF TaskStep
<1>2. frames[t] \subseteq Ids
  BY DEF IInv, TypeOK
<1> HIDE DEF IInv
<1>3. CASE NewList(t) \/ \E shape \in Shapes : New(t, shape[1], shape[2])
  BY <1>1, <1>3, NewStep
<1>4. CASE Return(t)
  BY <1>1, <1>4, ReturnStep
<1>5. ASSUME NEW i \in frames[t],
             \/ clone_object(t, i) \/ Put(t, i) \/ Get(t, i) \/ Drop(t, i)
             \/ InitList(i) \/ EditList(t, i) \/ SetElement(t, i) \/ Element(t, i)
             \/ NewIterator(t, i) \/ next(t, i) \/ remove(i) \/ Upcall(t, i)
             \/ \E u \in Tasks : Pass(t, i, u)
      PROVE  IInv'
  <2>1. CASE clone_object(t, i)
    BY <1>1, <2>1, CloneStep
  <2>2. CASE Put(t, i)
    BY <1>1, <2>2, PutStep
  <2>3. CASE Get(t, i)
    BY <1>1, <2>3, GetStep
  <2>4. CASE Drop(t, i) \/ \E u \in Tasks : Pass(t, i, u)
    BY <1>1, <2>4, DropPassStep
  <2>5. CASE InitList(i)
    BY <1>1, <2>5, InitListStep
  <2>6. CASE EditList(t, i) \/ SetElement(t, i)
    BY <1>1, <2>6, EditListStep
  <2>7. CASE Element(t, i)
    BY <1>1, <2>7, ElementStep
  <2>8. CASE NewIterator(t, i)
    BY <1>1, <2>8, NewIteratorStep
  <2>9. CASE next(t, i)
    BY <1>1, <2>9, NextStep
  <2>10. CASE remove(i)
    BY <1>1, <1>2, <2>10, RemoveStep
  <2>11. CASE Upcall(t, i)
    BY <1>1, <2>11, UpcallStep
  <2> QED
    BY <1>5, <2>1, <2>2, <2>3, <2>4, <2>5, <2>6, <2>7, <2>8, <2>9, <2>10, <2>11
<1>6. CASE \E n \in Asked(t) : Refused(n)
  <2>1. PICK n \in Asked(t) : Refused(n)
    BY <1>6
  <2>2. n \in Nat
    BY AskedFacts DEF IInv
  <2> QED
    BY <1>1, <2>1, <2>2, RefusedStep
<1> QED
  BY <1>3, <1>4, <1>5, <1>6 DEF TaskStep

-----------------------------------------------------------------------------
(* The collector: marking. *)

\* The roots and the children that the collector pushes are what the invariant speaks of.
LEMMA RootedAre ==
    ASSUME TypeOK, SideTypes
    PROVE  /\ Rooted \subseteq Ids
           /\ \A L : Rooted \subseteq L <=> RootsIn(L)
<1>1. frames \in [Tasks -> SUBSET Ids] /\ shadow_roots \in Seq(Ids)
  BY DEF TypeOK, SideTypes
<1>2. \A n \in DOMAIN shadow_roots : shadow_roots[n] \in Ids
  BY <1>1, SeqFacts
<1>3. \A x : x \in Rooted <=> \/ \E t \in Tasks : x \in frames[t]
                              \/ \E n \in DOMAIN shadow_roots : x = shadow_roots[n]
  <2>1. \A x : x \in UNION {frames[t] : t \in Tasks} <=> \E t \in Tasks : x \in frames[t]
    OBVIOUS
  <2>2. \A x : x \in Elements(shadow_roots) <=> \E n \in DOMAIN shadow_roots : x = shadow_roots[n]
    BY DEF Elements
  <2> DEFINE F == UNION {frames[t] : t \in Tasks}
  <2>3. Rooted = Elements(shadow_roots) \cup F
    BY DEF Rooted
  <2>4. \A x : x \in F <=> \E t \in Tasks : x \in frames[t]
    BY <2>1
  <2> HIDE DEF F
  <2> QED
    BY <2>2, <2>3, <2>4
<1>4. Rooted \subseteq Ids
  BY <1>1, <1>2, <1>3
<1>5. ASSUME NEW L PROVE Rooted \subseteq L <=> RootsIn(L)
  <2>1. ASSUME Rooted \subseteq L PROVE RootsIn(L)
    BY <1>3, <2>1 DEF RootsIn
  <2>2. ASSUME RootsIn(L) PROVE Rooted \subseteq L
    BY <1>3, <2>2 DEF RootsIn
  <2> QED
    BY <2>1, <2>2
<1> QED
  BY <1>4, <1>5

LEMMA ChildrenAre ==
    ASSUME TypeOK, SideTypes, SpansInv, IterInv, NEW i \in Ids, objects[i].live,
           phase = "sweep" => i \in marks
    PROVE  Children(i) = {x \in Ids : Refers(fields_arena, objects[i], list_bufs, iter_states[i], x)}
<1> DEFINE a == Targets(FieldsOf(objects[i]))
           b == Targets(Elements(list_slots(i)))
           c == IF iter_states[i].used THEN {iter_states[i].owner} ELSE {}
<1>1. a = {x \in Ids : RefIn(fields_arena, objects[i], x)}
  <2>1. \A f \in 0..(objects[i].count - 1) : f \in 0..(objects[i].cap - 1)
    BY SpanFacts
  <2>2. FieldsOf(objects[i]) \subseteq Slots
    BY <2>1, FieldFacts DEF FieldsOf
  <2>3. a = {x \in Ids : \E v \in FieldsOf(objects[i]) : v = Ref(x)}
    BY <2>2, TargetFacts
  <2>4. \A x : (\E v \in FieldsOf(objects[i]) : v = Ref(x)) <=> RefIn(fields_arena, objects[i], x)
    BY DEF FieldsOf, RefIn
  <2> HIDE DEF a
  <2> QED
    BY <2>3, <2>4
<1>2. b = {x \in Ids : /\ Owns(fields_arena, objects[i])
                       /\ ElemIn(list_bufs[BufIn(fields_arena, objects[i])], x)}
  <2>1. /\ HasBuf(i) <=> Owns(fields_arena, objects[i])
        /\ BufOf(i) = BufIn(fields_arena, objects[i])
    BY GetField
  <2>2. HasBuf(i) => BufOf(i) \in Bufs
    BY <2>1, OwnedBuf
  <2>3. HasBuf(i) => list_bufs[BufOf(i)].elems \in Seq(Slots)
    BY <2>2 DEF SideTypes, BufType
  <2>4. list_slots(i) \in Seq(Slots)
    BY <2>3 DEF list_slots
  <2>5. \A n \in DOMAIN list_slots(i) : list_slots(i)[n] \in Slots
    BY <2>4, SeqFacts
  <2>6. b = {x \in Ids : \E v \in Elements(list_slots(i)) : v = Ref(x)}
    <3>1. Elements(list_slots(i)) \subseteq Slots
      BY <2>5 DEF Elements
    <3> QED
      BY <3>1, TargetFacts
  <2>7. \A x : (\E v \in Elements(list_slots(i)) : v = Ref(x))
               <=> HasBuf(i) /\ ElemIn(list_bufs[BufOf(i)], x)
    <3>1. CASE HasBuf(i)
      <4>1. list_slots(i) = list_bufs[BufOf(i)].elems
        BY <3>1 DEF list_slots
      <4> QED
        BY <3>1, <4>1 DEF Elements, ElemIn
    <3>2. CASE ~HasBuf(i)
      <4>1. list_slots(i) = <<>>
        BY <3>2 DEF list_slots
      <4>2. Elements(list_slots(i)) = {}
        BY <4>1 DEF Elements
      <4> QED
        BY <3>2, <4>2
    <3> QED
      BY <3>1, <3>2
  <2> HIDE DEF b
  <2> QED
    BY <2>1, <2>6, <2>7
<1>3. c = {x \in Ids : IterIn(iter_states[i], x)}
  BY DEF IterInv, IterIn
<1>4. Children(i) = a \cup b \cup c
  BY DEF Children
<1> HIDE DEF a, b, c
<1> QED
  BY <1>1, <1>2, <1>3, <1>4 DEF Refers

\* A step that changes the collector's own state alone.
LEMMA GcStep ==
    ASSUME IInv, phase # "sweep", phase' # "sweep", UNCHANGED <<store, sides, frames, natives>>,
           phase' \in {"idle", "mark", "slide"}, work' \subseteq Ids, marks' \subseteq Ids,
           exhausted' \in BOOLEAN, write_pos' \in 0..ArenaMax, after' \in KeyType, Collector'
    PROVE  IInv'
<1>1. /\ objects' = objects /\ fields_arena' = fields_arena /\ arena_len' = arena_len
      /\ first_free' = first_free /\ frames' = frames
  BY DEF store
<1>2. TypeOK /\ Store
  BY DEF IInv
<1> HIDE DEF IInv
<1>3. TypeOK'
  BY <1>1, <1>2 DEF TypeOK
<1>4. Store'
  BY <1>1, <1>2 DEF Store, SpansInv, SlotsInv
<1> QED
  BY <1>1, <1>3, <1>4, SameObjects

LEMMA IdleFacts ==
    ASSUME Idle
    PROVE  /\ Collector' /\ phase' = "idle" /\ work' \subseteq Ids /\ marks' \subseteq Ids
           /\ exhausted' \in BOOLEAN /\ write_pos' \in 0..ArenaMax /\ after' \in KeyType
<1>1. NoKey \in KeyType /\ 0 \in 0..ArenaMax
  BY IdsFacts DEF NoKey, KeyType
<1> QED
  BY <1>1 DEF Idle, Collector, RestInv, MarkInv, SweepInv, SlideInv

LEMMA GiveUpStep ==
    ASSUME IInv, GiveUp
    PROVE  IInv'
<1>1. phase # "sweep" /\ Idle /\ UNCHANGED <<store, sides, frames, natives>>
  BY DEF GiveUp
<1>2. phase' # "sweep" /\ phase' \in {"idle", "mark", "slide"}
  BY <1>1, IdleFacts
<1> HIDE DEF IInv
<1> QED
  BY <1>1, <1>2, IdleFacts, GcStep

LEMMA MarkedCollector ==
    ASSUME IInv, phase # "slide", phase' = "mark", UNCHANGED <<write_pos, slice, after>>, MarkInv'
    PROVE  Collector' /\ write_pos' \in 0..ArenaMax /\ after' \in KeyType
BY DEF IInv, SideTypes, Collector, RestInv, SweepInv, SlideInv

LEMMA ScanRootsStep ==
    ASSUME IInv, ScanRoots
    PROVE  IInv'
<1>1. /\ phase = "idle" /\ phase' = "mark" /\ Push({}, Rooted)
      /\ UNCHANGED <<marks, write_pos, slice, after, store, sides, frames, natives>>
  BY DEF ScanRoots
<1>2. marks = {} /\ ~exhausted /\ marks' = {}
  BY <1>1 DEF IInv, Collector, RestInv
<1>3. TypeOK /\ SideTypes /\ RefsInv
  BY DEF IInv
<1>4. Rooted \subseteq Ids /\ \A x \in Rooted : objects[x].live
  <2>1. RootsIn({x \in Ids : objects[x].live})
    <3>1. \A n \in DOMAIN shadow_roots : shadow_roots[n] \in Ids
      BY <1>3, SeqFacts DEF SideTypes
    <3> QED
      BY <1>1, <1>3, <3>1 DEF RootsIn, RefsInv, TypeOK
  <2> HIDE DEF IInv
  <2>2. Rooted \subseteq {x \in Ids : objects[x].live}
    BY <1>3, <2>1, RootedAre
  <2> QED
    BY <2>2
<1>5. /\ objects' = objects /\ frames' = frames /\ shadow_roots' = shadow_roots
      /\ fields_arena' = fields_arena /\ list_bufs' = list_bufs /\ iter_states' = iter_states
  BY <1>1 DEF store, sides, natives
<1>6. CASE work' = {} \cup Rooted /\ UNCHANGED exhausted
  <2>1. work' = Rooted /\ ~exhausted'
    BY <1>2, <1>6
  <2>2. RootsIn(Rooted)
    BY <1>3, RootedAre
  <2>3. (marks \cup work)' = Rooted
    BY <1>2, <2>1
  <2>4. MarkInv'
    BY <1>2, <1>4, <1>5, <2>1, <2>2, <2>3 DEF MarkInv, Grey, RootsIn, ClosedFrom
  <2>5. work' \subseteq Ids /\ marks' \subseteq Ids /\ exhausted' \in BOOLEAN
    BY <1>2, <1>3, <1>4, <1>6, <2>1 DEF TypeOK
  <2> HIDE DEF IInv
  <2> QED
    BY <1>1, <2>4, <2>5, MarkedCollector, GcStep
<1>7. CASE work' = {} /\ exhausted' = TRUE
  <2>1. MarkInv'
    BY <1>2, <1>7 DEF MarkInv, Grey
  <2>2. work' \subseteq Ids /\ marks' \subseteq Ids /\ exhausted' \in BOOLEAN
    BY <1>2, <1>7
  <2> HIDE DEF IInv
  <2> QED
    BY <1>1, <2>1, <2>2, MarkedCollector, GcStep
<1> QED
  BY <1>1, <1>6, <1>7 DEF Push

LEMMA MarkStep ==
    ASSUME IInv, Mark
    PROVE  IInv'
<1> DEFINE i == Lowest(work)
<1>1. /\ phase = "mark" /\ work # {}
      /\ IF i \in marks THEN work' = work \ {i} /\ UNCHANGED <<marks, exhausted>>
         ELSE marks' = marks \cup {i} /\ Push(work \ {i}, Children(i))
      /\ UNCHANGED <<phase, write_pos, slice, after, store, sides, frames, natives>>
  BY DEF Mark
<1>2. TypeOK /\ SideTypes /\ RefsInv /\ IterInv /\ SpansInv
  BY DEF IInv, Store
<1>3. /\ work \subseteq Ids /\ marks \subseteq Ids /\ exhausted \in BOOLEAN
  BY <1>2 DEF TypeOK
<1>4. /\ \A j \in Grey : objects[j].live
      /\ ~exhausted /\ RootsIn(Grey) /\ ClosedFrom(marks, Grey)
  BY <1>1 DEF IInv, Collector, MarkInv
<1> HIDE DEF IInv, i
<1>5. i \in work /\ i \in Ids /\ objects[i].live
  <2>1. i \in work
    BY <1>1, <1>3, IdsFacts, LowestFacts DEF i
  <2> QED
    BY <1>3, <1>4, <2>1 DEF Grey
<1>6. /\ objects' = objects /\ frames' = frames /\ shadow_roots' = shadow_roots
      /\ fields_arena' = fields_arena /\ list_bufs' = list_bufs /\ iter_states' = iter_states
      /\ phase' = "mark" /\ phase # "slide" /\ phase # "sweep" /\ phase' # "sweep"
  BY <1>1 DEF store, sides, natives
<1>7. Children(i) = {x \in Ids : Refers(fields_arena, objects[i], list_bufs, iter_states[i], x)}
  BY <1>2, <1>5, <1>6, ChildrenAre
<1>8. ASSUME MarkInv', work' \subseteq Ids, marks' \subseteq Ids, exhausted' \in BOOLEAN
      PROVE  IInv'
  BY <1>1, <1>6, <1>8, MarkedCollector, GcStep
<1>9. CASE i \in marks
  <2>1. Grey' = Grey /\ marks' = marks /\ exhausted' = exhausted /\ work' \subseteq Ids
    BY <1>1, <1>3, <1>5, <1>9 DEF Grey
  <2>2. MarkInv'
    BY <1>4, <1>6, <2>1 DEF MarkInv, RootsIn, ClosedFrom
  <2> QED
    BY <1>3, <1>8, <2>1, <2>2
<1>10. CASE i \notin marks
  <2>1. marks' = marks \cup {i} /\ Push(work \ {i}, Children(i))
    BY <1>1, <1>10
  <2>2. CASE work' = (work \ {i}) \cup Children(i) /\ UNCHANGED exhausted
    <3>1. Grey' = Grey \cup Children(i)
      BY <1>5, <2>1, <2>2 DEF Grey
    <3>2. \A x \in Children(i) : objects[x].live
      BY <1>2, <1>5, <1>6, <1>7 DEF RefsInv
    <3>3. \A j \in Grey' : objects'[j].live
      BY <1>4, <1>6, <3>1, <3>2
    <3>4. RootsIn(Grey')
      BY <1>4, <3>1 DEF RootsIn
    <3>5. ClosedFrom(marks', Grey')
      BY <1>4, <1>7, <2>1, <3>1 DEF ClosedFrom
    <3>6. MarkInv'
      BY <1>4, <1>6, <2>2, <3>3, <3>4, <3>5 DEF MarkInv, RootsIn, ClosedFrom
    <3>7. work' \subseteq Ids /\ marks' \subseteq Ids /\ exhausted' \in BOOLEAN
      BY <1>3, <1>5, <1>7, <2>1, <2>2
    <3> QED
      BY <1>8, <3>6, <3>7
  <2>3. CASE work' = {} /\ exhausted' = TRUE
    <3>1. Grey' \subseteq Grey
      BY <1>5, <2>1, <2>3 DEF Grey
    <3>2. MarkInv'
      BY <1>4, <1>6, <2>3, <3>1 DEF MarkInv
    <3>3. work' \subseteq Ids /\ marks' \subseteq Ids /\ exhausted' \in BOOLEAN
      BY <1>3, <1>5, <2>1, <2>3
    <3> QED
      BY <1>8, <3>2, <3>3
  <2> QED
    BY <2>1, <2>2, <2>3 DEF Push
<1> QED
  BY <1>9, <1>10

LEMMA EndMarkStep ==
    ASSUME IInv, EndMark
    PROVE  IInv'
<1>1. /\ phase = "mark" /\ work = {} /\ ~exhausted /\ phase' = "sweep"
      /\ work' = work /\ marks' = marks /\ exhausted' = exhausted /\ write_pos' = write_pos
      /\ slice' = slice /\ after' = after
      /\ objects' = objects /\ fields_arena' = fields_arena /\ arena_len' = arena_len
      /\ first_free' = first_free /\ list_bufs' = list_bufs /\ iter_states' = iter_states
      /\ frames' = frames /\ upcalls' = upcalls /\ shadow_roots' = shadow_roots
  BY DEF EndMark, store, sides, natives
<1>2. /\ TypeOK /\ SideTypes /\ Store /\ ListsInv /\ IterInv /\ UpcallsInv /\ RestInv
  BY DEF IInv, Collector
<1>3. /\ \A i \in marks : objects[i].live
      /\ RootsIn(marks) /\ ClosedFrom(marks, marks)
  <2>1. Grey = marks
    BY <1>1 DEF Grey
  <2> QED
    BY <1>1, <2>1 DEF IInv, Collector, MarkInv
<1> HIDE DEF IInv
<1>4. TypeOK' /\ SideTypes' /\ Store' /\ ListsInv' /\ UpcallsInv'
  <2>1. TypeOK' /\ SideTypes'
    BY <1>1, <1>2 DEF TypeOK, SideTypes
  <2> QED
    BY <1>1, <1>2, <2>1 DEF Store, SpansInv, SlotsInv, ListsInv, UpcallsInv
<1>5. IterInv'
  <2>1. ASSUME NEW i \in Ids, iter_states[i].used
        PROVE  /\ objects[i].live /\ objects[i].class = "iterator" /\ iter_states[i].owner \in Ids
               /\ Walks(iter_states[i], objects[iter_states[i].owner])
    BY <1>1, <1>2, <2>1 DEF IterInv
  <2>2. ASSUME NEW i \in Ids, iter_states[i].used, i \in marks
        PROVE  iter_states[i].owner \in marks
    BY <1>3, <2>1, <2>2 DEF ClosedFrom, Refers, IterIn
  <2> QED
    BY <1>1, <2>1, <2>2 DEF IterInv, Walks
<1>6. RefsInv'
  BY <1>1 DEF RefsInv
<1>7. Collector'
  BY <1>1, <1>2, <1>3 DEF Collector, RestInv, MarkInv, SweepInv, SlideInv, RootsIn, ClosedFrom
<1> QED
  BY <1>4, <1>5, <1>6, <1>7 DEF IInv

-----------------------------------------------------------------------------
(* The collector: sweeping. *)

LEMMA SweptFacts ==
    ASSUME IInv, Sweep
    PROVE  LET i == Lowest(Unmarked) IN
           /\ phase = "sweep" /\ i \in Ids /\ objects[i].live /\ i \notin marks
           /\ objects'[i] = NoObject /\ iter_states'[i] = NoIter
           /\ \A j \in Ids \ {i} : objects'[j] = objects[j] /\ iter_states'[j] = iter_states[j]
           /\ objects' \in [Ids -> ObjectType] /\ iter_states' \in [Ids -> IterType]
           /\ first_free' = IF i < first_free THEN i ELSE first_free
           /\ fields_arena' = fields_arena /\ arena_len' = arena_len
           /\ UNCHANGED <<frames, natives, gc>>
           /\ list_bufs' \in [Bufs -> BufType]
           /\ \A b \in Bufs : ~(Owns(fields_arena, objects[i]) /\ b = BufIn(fields_arena, objects[i]))
                              => list_bufs'[b] = list_bufs[b]
<1> DEFINE i == Lowest(Unmarked)
<1>1. /\ phase = "sweep" /\ Unmarked # {} /\ UNCHANGED <<frames, natives, gc>>
      /\ list_bufs' = IF HasBuf(i)
                      THEN [list_bufs EXCEPT ![BufOf(i)].used = FALSE, ![BufOf(i)].elems = <<>>]
                      ELSE list_bufs
      /\ iter_states' = [iter_states EXCEPT ![i] = NoIter] /\ free(i)
  BY DEF Sweep
<1>2. i \in Unmarked
  BY <1>1, IdsFacts, LowestFacts DEF Unmarked
<1>3. TypeOK /\ SideTypes /\ SpansInv
  BY DEF IInv, Store
<1> HIDE DEF i, IInv
<1>4. i \in Ids /\ objects[i].live /\ i \notin marks
  BY <1>2 DEF Unmarked
<1>5. NoObject \in ObjectType /\ NoIter \in IterType
  BY IdsFacts DEF NoObject, ObjectType, NoIter, IterType, Classes
<1>6. /\ objects' = [objects EXCEPT ![i] = NoObject]
      /\ first_free' = IF i < first_free THEN i ELSE first_free
      /\ fields_arena' = fields_arena /\ arena_len' = arena_len
  BY <1>1 DEF free
<1>7. /\ objects \in [Ids -> ObjectType] /\ iter_states \in [Ids -> IterType]
      /\ list_bufs \in [Bufs -> BufType]
  BY <1>3 DEF TypeOK, SideTypes, ObjectType
<1>8. /\ list_bufs' \in [Bufs -> BufType]
      /\ \A b \in Bufs : ~(Owns(fields_arena, objects[i]) /\ b = BufIn(fields_arena, objects[i]))
                         => list_bufs'[b] = list_bufs[b]
  <2>1. /\ HasBuf(i) <=> Owns(fields_arena, objects[i]) /\ BufOf(i) = BufIn(fields_arena, objects[i])
    BY <1>4, GetField
  <2>2. CASE HasBuf(i)
    <3> DEFINE b == BufOf(i)
    <3>1. b \in Bufs
      BY <1>3, <1>4, <2>1, <2>2, OwnedBuf
    <3>2. list_bufs' = [list_bufs EXCEPT ![b].used = FALSE, ![b].elems = <<>>]
      BY <1>1, <2>2
    <3>3. <<>> \in Seq(Slots)
      OBVIOUS
    <3> HIDE DEF b
    <3>4. /\ list_bufs' \in [Bufs -> BufType] /\ \A c \in Bufs \ {b} : list_bufs'[c] = list_bufs[c]
      BY <1>7, <3>1, <3>2, <3>3 DEF BufType
    <3> QED
      BY <2>1, <2>2, <3>4 DEF b
  <2>3. CASE ~HasBuf(i)
    BY <1>1, <1>7, <2>3
  <2> QED
    BY <2>2, <2>3
<1>9. /\ objects'[i] = NoObject /\ iter_states'[i] = NoIter
      /\ \A j \in Ids \ {i} : objects'[j] = objects[j] /\ iter_states'[j] = iter_states[j]
      /\ objects' \in [Ids -> ObjectType] /\ iter_states' \in [Ids -> IterType]
  BY <1>1, <1>4, <1>5, <1>6, <1>7
<1> QED
  BY <1>1, <1>4, <1>6, <1>8, <1>9 DEF i

LEMMA SweepStep ==
    ASSUME IInv, Sweep
    PROVE  IInv'
<1> DEFINE i == Lowest(Unmarked)
<1>1. /\ phase = "sweep" /\ i \in Ids /\ objects[i].live /\ i \notin marks
      /\ objects'[i] = NoObject /\ iter_states'[i] = NoIter
      /\ \A j \in Ids \ {i} : objects'[j] = objects[j] /\ iter_states'[j] = iter_states[j]
      /\ objects' \in [Ids -> ObjectType] /\ iter_states' \in [Ids -> IterType]
      /\ first_free' = IF i < first_free THEN i ELSE first_free
      /\ fields_arena' = fields_arena /\ arena_len' = arena_len
      /\ list_bufs' \in [Bufs -> BufType]
      /\ \A b \in Bufs : ~(Owns(fields_arena, objects[i]) /\ b = BufIn(fields_arena, objects[i]))
                         => list_bufs'[b] = list_bufs[b]
  BY SweptFacts
<1>2. /\ frames' = frames /\ upcalls' = upcalls /\ shadow_roots' = shadow_roots
      /\ phase' = phase /\ work' = work /\ marks' = marks /\ exhausted' = exhausted
      /\ write_pos' = write_pos /\ slice' = slice /\ after' = after
  BY SweptFacts DEF natives, gc
<1>3. /\ TypeOK /\ SideTypes /\ SpansInv /\ SlotsInv /\ ListsInv /\ IterInv /\ UpcallsInv
      /\ RestInv /\ SweepInv
  BY DEF IInv, Store, Collector
<1> HIDE DEF i, IInv
<1>4. ~NoObject.live /\ ~NoIter.used
  BY DEF NoObject, NoIter
<1>5. \A j \in Ids : objects'[j].live => j # i /\ objects[j].live /\ objects'[j] = objects[j]
  BY <1>1, <1>4
<1>6. TypeOK'
  <2>1. first_free' \in 0..MaxSlots
    BY <1>1, <1>3, IdsFacts DEF TypeOK, Ids
  <2> QED
    BY <1>1, <1>2, <1>3, <2>1 DEF TypeOK, ObjectType
<1>7. SideTypes'
  BY <1>1, <1>2, <1>3 DEF SideTypes
<1>8. Store'
  <2>1. SpansInv'
    BY <1>1, <1>3, <1>5 DEF SpansInv
  <2>2. ASSUME NEW k \in Ids, k < first_free' PROVE objects'[k].live
    <3>1. k \in Nat /\ i \in Nat /\ first_free \in Nat
      BY <1>1, <1>3, IdsFacts DEF TypeOK
    <3>2. k # i /\ k < first_free
      BY <1>1, <2>2, <3>1
    <3> QED
      BY <1>1, <1>3, <3>2 DEF SlotsInv
  <2>3. \A k \in Ids : ~objects'[k].live => objects'[k] = NoObject
    BY <1>1, <1>3 DEF SlotsInv
  <2>4. \A k \in Ids : objects'[k].live =>
           \A f \in objects'[k].count..(objects'[k].cap - 1) :
              fields_arena'[objects'[k].off + f] = Null
    BY <1>1, <1>3, <1>5 DEF SlotsInv
  <2> QED
    BY <2>1, <2>2, <2>3, <2>4 DEF Store, SlotsInv
\* The buffer of any other list is left alone.
<1>9. ASSUME NEW j \in Ids, objects[j].live, j # i, Owns(fields_arena, objects[j])
      PROVE  list_bufs'[BufIn(fields_arena, objects[j])] = list_bufs[BufIn(fields_arena, objects[j])]
  <2>1. BufIn(fields_arena, objects[j]) \in Bufs
    BY <1>3, <1>9, OwnedBuf
  <2>2. ~(Owns(fields_arena, objects[i]) /\ BufIn(fields_arena, objects[j]) = BufIn(fields_arena, objects[i]))
    BY <1>1, <1>3, <1>9 DEF ListsInv
  <2> QED
    BY <1>1, <2>1, <2>2
<1>10. ListsInv'
  BY <1>1, <1>3, <1>5, <1>9 DEF ListsInv
<1>11. IterInv'
  <2>1. ASSUME NEW j \in Ids, iter_states'[j].used
        PROVE  j # i /\ iter_states'[j] = iter_states[j] /\ objects'[j] = objects[j]
    BY <1>1, <1>4, <2>1
  <2>2. ASSUME NEW j \in Ids, iter_states[j].used, j \in marks
        PROVE  /\ iter_states[j].owner \in Ids /\ iter_states[j].owner \in marks
               /\ Walks(iter_states[j], objects[iter_states[j].owner])
               /\ objects'[iter_states[j].owner] = objects[iter_states[j].owner]
    BY <1>1, <1>3, <2>2 DEF IterInv
  <2> QED
    BY <1>1, <1>2, <1>3, <2>1, <2>2 DEF IterInv, Walks
<1>12. RefsInv'
  BY <1>1, <1>2 DEF RefsInv
<1>13. UpcallsInv'
  BY <1>2, <1>3 DEF UpcallsInv
<1>14. SweepInv'
  <2>1. /\ \A j \in marks : objects[j].live /\ j # i
        /\ RootsIn(marks) /\ ClosedFrom(marks, marks) /\ work = {}
    BY <1>1, <1>3 DEF SweepInv
  <2>2. ASSUME NEW j \in Ids, NEW x \in Ids, j \in marks,
               Refers(fields_arena', objects'[j], list_bufs', iter_states'[j], x)
        PROVE  x \in marks
    <3>1. Refers(fields_arena, objects[j], list_bufs, iter_states[j], x)
      BY <1>1, <1>9, <2>1, <2>2 DEF Refers
    <3> QED
      BY <2>1, <2>2, <3>1 DEF ClosedFrom
  <2>3. \A j \in marks : objects'[j].live
    BY <1>1, <1>3, <2>1 DEF TypeOK
  <2> QED
    BY <1>2, <2>1, <2>2, <2>3 DEF SweepInv, RootsIn, ClosedFrom
<1>15. Collector'
  BY <1>1, <1>2, <1>3, <1>14 DEF Collector, RestInv, MarkInv, SlideInv
<1> QED
  BY <1>6, <1>7, <1>8, <1>10, <1>11, <1>12, <1>13, <1>15 DEF IInv

-----------------------------------------------------------------------------
(* The collector: sliding. *)

LEMMA PendingAre == Pending = {KeyOf(objects[j], j) : j \in {i \in Ids : Due(i)}}
BY DEF Pending, Due, KeyOf, Key

LEMMA SliceFacts ==
    ASSUME NEW S, next_slice(S)
    PROVE  /\ \A k \in S : k.slot \in Ids /\ Due(k.slot) /\ k = KeyOf(objects[k.slot], k.slot)
           /\ \A k \in S : \A j \in Ids : Due(j) /\ KeyOf(objects[j], j) \notin S
                                          => Below(k, KeyOf(objects[j], j))
<1>1. S \subseteq Pending /\ \A k \in S, j \in Pending \ S : Below(k, j)
  BY DEF next_slice
<1>2. ASSUME NEW k \in S
      PROVE  k.slot \in Ids /\ Due(k.slot) /\ k = KeyOf(objects[k.slot], k.slot)
  <2>1. PICK j \in Ids : Due(j) /\ k = KeyOf(objects[j], j)
    BY <1>1, PendingAre
  <2>2. k.slot = j
    BY <2>1 DEF KeyOf
  <2> QED
    BY <2>1, <2>2
<1>3. ASSUME NEW k \in S, NEW j \in Ids, Due(j), KeyOf(objects[j], j) \notin S
      PROVE  Below(k, KeyOf(objects[j], j))
  <2>1. KeyOf(objects[j], j) \in Pending
    BY <1>3, PendingAre
  <2> QED
    BY <1>1, <1>3, <2>1
<1> QED
  BY <1>2, <1>3

LEMMA EndSweepStep ==
    ASSUME IInv, EndSweep
    PROVE  IInv'
<1>1. /\ phase = "sweep" /\ Unmarked = {}
      /\ objects' = objects /\ fields_arena' = fields_arena /\ arena_len' = arena_len
      /\ first_free' = first_free /\ list_bufs' = list_bufs /\ iter_states' = iter_states
      /\ frames' = frames /\ upcalls' = upcalls /\ shadow_roots' = shadow_roots
  BY DEF EndSweep, store, sides, natives
<1>2. /\ TypeOK /\ SideTypes /\ Store /\ SpansInv /\ ListsInv /\ IterInv /\ UpcallsInv
      /\ RestInv /\ SweepInv
  BY DEF IInv, Store, Collector
<1>3. \/ /\ phase' = "slide" /\ (\E S \in SUBSET Pending : next_slice(S) /\ slice' = S)
         /\ UNCHANGED <<work, marks, exhausted, write_pos, after>>
      \/ Idle
  BY DEF EndSweep
<1> HIDE DEF IInv
<1>4. write_pos = 0 /\ after = NoKey /\ work = {}
  BY <1>1, <1>2 DEF RestInv, SweepInv
<1>5. /\ phase' \in {"slide", "idle"} /\ work' \subseteq Ids /\ marks' \subseteq Ids
      /\ exhausted' \in BOOLEAN /\ write_pos' \in 0..ArenaMax /\ after' \in KeyType /\ Collector'
  <2>1. CASE Idle
    BY <2>1, IdleFacts
  <2>2. ASSUME phase' = "slide", NEW S, next_slice(S), slice' = S,
               UNCHANGED <<work, marks, exhausted, write_pos, after>>
        PROVE  /\ phase' \in {"slide", "idle"} /\ work' \subseteq Ids /\ marks' \subseteq Ids
               /\ exhausted' \in BOOLEAN /\ write_pos' \in 0..ArenaMax /\ after' \in KeyType
               /\ Collector'
    <3>1. /\ \A k \in S : k.slot \in Ids /\ Due(k.slot) /\ k = KeyOf(objects[k.slot], k.slot)
          /\ \A k \in S : \A j \in Ids : Due(j) /\ KeyOf(objects[j], j) \notin S
                                         => Below(k, KeyOf(objects[j], j))
      BY <2>2, SliceFacts
    <3>2. ASSUME NEW j \in Ids
          PROVE  Below(after, KeyOf(objects[j], j)) /\ write_pos <= objects[j].off
      <4>1. objects[j].off \in Nat
        BY <1>2, SpanFacts
      <4>2. after.off = -1 /\ KeyOf(objects[j], j).off = objects[j].off
        BY <1>4 DEF NoKey, KeyOf
      <4> QED
        BY <1>4, <4>1, <4>2 DEF Below
    <3>3. arena_len \in Nat /\ 0..(write_pos - 1) = {}
      BY <1>2, <1>4, SpanFacts
    <3>4. SlideInv'
      <4>1. /\ objects' = objects /\ after' = after /\ write_pos' = write_pos /\ slice' = S
            /\ arena_len' = arena_len
        BY <1>1, <2>2
      <4>2. write_pos <= arena_len
        BY <1>4, <3>3
      <4> QED
        BY <3>1, <3>2, <3>3, <4>1, <4>2 DEF SlideInv, Due
    <3>5. Collector'
      BY <1>4, <2>2, <3>4 DEF Collector, RestInv, MarkInv, SweepInv
    <3> QED
      BY <1>2, <2>2, <3>5 DEF TypeOK, SideTypes
  <2> QED
    BY <1>3, <2>1, <2>2
\* All that is live was marked.
<1>6. \A j \in Ids : objects[j].live => j \in marks
  BY <1>1 DEF Unmarked
<1>7. phase' # "sweep" /\ phase' \in {"idle", "mark", "sweep", "slide"}
  BY <1>5
<1>8. TypeOK' /\ SideTypes'
  BY <1>1, <1>2, <1>5, <1>7 DEF TypeOK, SideTypes
<1>9. Store' /\ ListsInv' /\ UpcallsInv'
  BY <1>1, <1>2 DEF Store, SpansInv, SlotsInv, ListsInv, UpcallsInv
<1>10. IterInv'
  BY <1>1, <1>2, <1>6, <1>7 DEF IterInv, Walks
<1>11. RefsInv'
  <2>1. /\ \A j \in marks : objects[j].live
        /\ RootsIn(marks) /\ ClosedFrom(marks, marks)
    BY <1>1, <1>2 DEF SweepInv
  <2>2. \A t \in Tasks : \A x \in frames[t] : objects[x].live
    BY <2>1 DEF RootsIn
  <2>3. \A n \in DOMAIN shadow_roots : objects[shadow_roots[n]].live
    BY <2>1 DEF RootsIn
  <2>4. \A i, x \in Ids :
           objects[i].live /\ Refers(fields_arena, objects[i], list_bufs, iter_states[i], x)
           => objects[x].live
    BY <1>6, <2>1 DEF ClosedFrom
  <2> QED
    BY <1>1, <2>2, <2>3, <2>4 DEF RefsInv
<1> QED
  BY <1>5, <1>8, <1>9, <1>10, <1>11 DEF IInv

LEMMA NextSliceStep ==
    ASSUME IInv, NextSlice
    PROVE  IInv'
<1>1. PICK S : next_slice(S) /\ slice' = S
  BY DEF NextSlice
<1>2. /\ phase = "slide" /\ UNCHANGED <<phase, work, marks, exhausted, write_pos, after>>
      /\ UNCHANGED <<store, sides, frames, natives>>
  BY DEF NextSlice
<1>3. TypeOK /\ SideTypes /\ RestInv /\ SlideInv
  BY DEF IInv, Collector
<1> HIDE DEF IInv
<1>4. /\ \A k \in S : k.slot \in Ids /\ Due(k.slot) /\ k = KeyOf(objects[k.slot], k.slot)
      /\ \A k \in S : \A j \in Ids : Due(j) /\ KeyOf(objects[j], j) \notin S
                                     => Below(k, KeyOf(objects[j], j))
  BY <1>1, SliceFacts
<1>5. objects' = objects /\ arena_len' = arena_len
  BY <1>2 DEF store
<1>6. SlideInv'
  BY <1>1, <1>2, <1>3, <1>4, <1>5 DEF SlideInv, Due
<1>7. Collector'
  BY <1>2, <1>6 DEF Collector, RestInv, MarkInv, SweepInv
<1>8. /\ phase # "sweep" /\ phase' # "sweep" /\ phase' \in {"idle", "mark", "slide"}
      /\ work' \subseteq Ids /\ marks' \subseteq Ids
      /\ exhausted' \in BOOLEAN /\ write_pos' \in 0..ArenaMax /\ after' \in KeyType
  BY <1>2, <1>3 DEF TypeOK, SideTypes
<1> QED
  BY <1>2, <1>7, <1>8, GcStep

\* Two spans that are still to move begin at different fields.
LEMMA FirstFacts ==
    ASSUME TypeOK, SpansInv, SlideInv, phase = "slide", slice # {}
    PROVE  First(slice) \in slice /\ \A j \in slice \ {First(slice)} : Below(First(slice), j)
<1>1. ASSUME NEW k \in slice
      PROVE  /\ k.slot \in Ids /\ objects[k.slot].live /\ objects[k.slot].cap > 0
             /\ k = KeyOf(objects[k.slot], k.slot) /\ k.off = objects[k.slot].off /\ k.off \in Nat
  <2>1. k.slot \in Ids /\ Due(k.slot) /\ k = KeyOf(objects[k.slot], k.slot)
    BY DEF SlideInv
  <2>2. KeyOf(objects[k.slot], k.slot).off = objects[k.slot].off
    BY DEF KeyOf
  <2>3. k.off = objects[k.slot].off
    BY <2>1, <2>2
  <2>4. objects[k.slot].off \in Nat
    BY <2>1, SpanFacts
  <2> QED
    BY <2>1, <2>3, <2>4 DEF Due
<1>2. ASSUME NEW k \in slice, NEW j \in slice, k # j PROVE k.off # j.off
  <2>1. k.slot # j.slot
    BY <1>1, <1>2
  <2> DEFINE a == k.slot
             b == j.slot
  <2>2. Apart(objects[a], objects[b])
    BY <1>1, <2>1 DEF SpansInv
  <2>3. /\ objects[a].off \in Nat /\ objects[b].off \in Nat
        /\ objects[a].cap \in Nat /\ objects[b].cap \in Nat
        /\ objects[a].cap > 0 /\ objects[b].cap > 0
    BY <1>1, SpanFacts
  <2>4. objects[a].off # objects[b].off
    BY <2>2, <2>3 DEF Apart
  <2> QED
    BY <1>1, <2>4
<1> DEFINE offs == {k.off : k \in slice}
<1>3. offs \subseteq Nat /\ offs # {}
  BY <1>1
<1>4. PICK m \in offs : \A y \in offs : m <= y
  <2> HIDE DEF offs
  <2> QED
    BY <1>3, LeastNat
<1>5. PICK k \in slice : m = k.off
  OBVIOUS
<1>6. ASSUME NEW j \in slice \ {k} PROVE Below(k, j)
  <2>1. k.off <= j.off /\ k.off # j.off /\ k.off \in Nat /\ j.off \in Nat
    BY <1>1, <1>2, <1>4, <1>5
  <2> QED
    BY <2>1 DEF Below
<1> QED
  BY <1>6 DEF First

\* The lowest span slides down: nothing that is still needed lies where it goes.
\* A step that moves spans leaves what they hold.
SpansKept ==
    \A j \in Ids : /\ objects'[j].live = objects[j].live
                   /\ objects'[j].class = objects[j].class /\ objects'[j].count = objects[j].count
                   /\ objects[j].live => \A f \in 0..(objects[j].count - 1) :
                         fields_arena'[objects'[j].off + f] = fields_arena[objects[j].off + f]

LEMMA SlideStep ==
    ASSUME IInv, Slide
    PROVE  IInv' /\ SpansKept
<1> DEFINE k == First(slice)
           i == k.slot
           o == objects[i]
           w == write_pos
           p == [o EXCEPT !.off = w]
<1>1. /\ phase = "slide" /\ slice # {}
      /\ fields_arena' = Copied(fields_arena, k.off, k.cap, w)
      /\ objects' = [objects EXCEPT ![i].off = w]
      /\ write_pos' = w + k.cap /\ slice' = slice \ {k} /\ after' = k
      /\ UNCHANGED <<arena_len, first_free, phase, work, marks, exhausted>>
      /\ UNCHANGED <<sides, frames, natives>>
  BY DEF Slide, Slid
<1>2. /\ TypeOK /\ SideTypes /\ Store /\ SpansInv /\ SlotsInv /\ RestInv /\ SlideInv
  BY DEF IInv, Store, Collector
<1> HIDE DEF IInv
<1>3. k \in slice /\ \A j \in slice \ {k} : Below(k, j)
  BY <1>1, <1>2, FirstFacts
<1>4. i \in Ids /\ Due(i) /\ k = KeyOf(o, i) /\ o.live /\ o.cap > 0
  BY <1>1, <1>2, <1>3 DEF SlideInv, Due
<1> HIDE DEF k, i, o, w, p
<1>5. k.off = o.off /\ k.slot = i /\ k.cap = o.cap
  BY <1>4 DEF KeyOf
<1>6. /\ o \in ObjectType /\ o.off \in Nat /\ o.count \in Nat /\ o.cap \in Nat
      /\ o.count <= o.cap /\ o.off + o.cap <= arena_len
      /\ arena_len \in Nat /\ arena_len <= ArenaMax /\ ArenaMax \in Nat /\ o.cap <= MaxSpan
  BY <1>2, <1>4, SpanFacts DEF o
<1>7. w \in Nat /\ w <= o.off
  BY <1>1, <1>2, <1>4, IdsFacts DEF SlideInv, Due, SideTypes, w, o
<1>8. /\ p \in ObjectType /\ p.live /\ p.class = o.class /\ p.off = w /\ p.cap = o.cap
      /\ p.count = o.count
  <2>1. w \in 0..ArenaMax
    BY <1>6, <1>7
  <2> QED
    BY <1>4, <1>6, <2>1 DEF ObjectType, p
<1>9. /\ objects' = [objects EXCEPT ![i] = p] /\ objects'[i] = p
      /\ \A j \in Ids \ {i} : objects'[j] = objects[j]
      /\ objects' \in [Ids -> ObjectType]
  <2>1. objects' = [objects EXCEPT ![i] = p]
    BY <1>1 DEF p, o
  <2> QED
    BY <1>2, <1>4, <1>8, <2>1 DEF TypeOK, ObjectType
\* Any other span lies below write_pos, or above the one that moves.
<1>10. ASSUME NEW j \in Ids \ {i}, objects[j].live, objects[j].cap > 0
       PROVE  /\ objects[j].off \in Nat /\ objects[j].cap \in Nat
              /\ Below(k, KeyOf(objects[j], j)) =>
                    Due(j) /\ o.off + o.cap <= objects[j].off
              /\ ~Below(k, KeyOf(objects[j], j)) =>
                    ~Due(j) /\ objects[j].off + objects[j].cap <= w
  <2>0. objects[j].off \in Nat /\ objects[j].cap \in Nat /\ i \in Nat /\ j \in Nat
    BY <1>2, <1>4, IdsFacts, SpanFacts
  <2>1. Apart(o, objects[j])
    BY <1>2, <1>4, <1>10 DEF SpansInv, o
  <2>2. Due(j) => Below(k, KeyOf(objects[j], j))
    <3>1. KeyOf(objects[j], j) # k
      BY <1>5 DEF KeyOf
    <3>2. CASE KeyOf(objects[j], j) \in slice
      BY <1>3, <3>1, <3>2
    <3>3. CASE KeyOf(objects[j], j) \notin slice
      BY <1>1, <1>2, <1>3, <3>3 DEF SlideInv
    <3> QED
      BY <3>2, <3>3
  <2>3. ~Due(j) => objects[j].off + objects[j].cap <= w
    BY <1>1, <1>2, <1>10 DEF SlideInv, Due, w
  <2>4. /\ KeyOf(objects[j], j).off = objects[j].off /\ KeyOf(objects[j], j).slot = j
    BY DEF KeyOf
  <2>5. Below(k, KeyOf(objects[j], j)) => o.off <= objects[j].off
    BY <1>5, <1>6, <2>0, <2>4 DEF Below
  <2>6. o.off <= objects[j].off => o.off + o.cap <= objects[j].off
    BY <1>4, <1>6, <1>10, <2>0, <2>1 DEF Apart
  <2>7. objects[j].off + objects[j].cap <= w => ~(o.off <= objects[j].off)
    BY <1>6, <1>7, <1>10, <2>0
  <2> QED
    BY <2>0, <2>2, <2>3, <2>5, <2>6, <2>7
<1>11. ASSUME NEW q \in Arena
       PROVE  fields_arena'[q] = IF w <= q /\ q < w + o.cap
                                 THEN fields_arena[o.off + (q - w)] ELSE fields_arena[q]
  BY <1>1, <1>5 DEF Copied
<1>12. ASSUME NEW g \in 0..(o.cap - 1)
       PROVE  /\ o.off + g \in Arena /\ w + g \in Arena
              /\ fields_arena[o.off + g] \in Slots
              /\ fields_arena'[w + g] = fields_arena[o.off + g]
  <2>1. o.off + g \in Arena /\ fields_arena[o.off + g] \in Slots
    BY <1>2, <1>4, FieldFacts DEF o
  <2>2. /\ w + g \in Arena /\ w <= w + g /\ w + g < w + o.cap /\ (w + g) - w = g
    BY <1>6, <1>7 DEF Arena
  <2> QED
    BY <1>11, <2>1, <2>2
<1>13. fields_arena' \in [Arena -> Slots]
  <2>1. fields_arena' = [q \in Arena |-> fields_arena'[q]]
    BY <1>1 DEF Copied
  <2>2. ASSUME NEW q \in Arena PROVE fields_arena'[q] \in Slots
    <3>1. CASE w <= q /\ q < w + o.cap
      <4>1. q - w \in 0..(o.cap - 1)
        BY <1>6, <1>7, <3>1, IdsFacts DEF Arena
      <4> QED
        BY <1>11, <1>12, <3>1, <4>1
    <3>2. CASE ~(w <= q /\ q < w + o.cap)
      BY <1>2, <1>11, <3>2 DEF TypeOK
    <3> QED
      BY <3>1, <3>2
  <2> QED
    BY <2>1, <2>2
<1>14. OthersKeep(i)
  <2>1. SUFFICES ASSUME NEW j \in Ids \ {i}, objects[j].live, NEW g \in 0..(objects[j].cap - 1)
                 PROVE  fields_arena'[objects[j].off + g] = fields_arena[objects[j].off + g]
    BY DEF OthersKeep
  <2>2. objects[j].off + g \in Arena
    BY <1>2, <2>1, FieldFacts
  <2>3. objects[j].cap > 0
    BY <1>2, <2>1, SpanFacts
  <2>4. /\ objects[j].off \in Nat /\ objects[j].cap \in Nat
        /\ o.off + o.cap <= objects[j].off \/ objects[j].off + objects[j].cap <= w
    BY <1>10, <2>1, <2>3
  <2>5. ~(w <= objects[j].off + g /\ objects[j].off + g < w + o.cap)
    BY <1>6, <1>7, <2>4
  <2> QED
    BY <1>11, <2>2, <2>5
<1>15. Store'
  <2>1. p.cap > 0 => /\ p.off + p.cap <= arena_len'
                     /\ \A j \in Ids \ {i} : objects[j].live /\ objects[j].cap > 0
                                             => Apart(p, objects[j])
    <3>1. p.off + p.cap <= arena_len'
      BY <1>1, <1>6, <1>7, <1>8
    <3>2. ASSUME NEW j \in Ids \ {i}, objects[j].live, objects[j].cap > 0
          PROVE  Apart(p, objects[j])
      <4>1. /\ objects[j].off \in Nat /\ objects[j].cap \in Nat
            /\ o.off + o.cap <= objects[j].off \/ objects[j].off + objects[j].cap <= w
        BY <1>10, <3>2
      <4> QED
        BY <1>6, <1>7, <1>8, <4>1 DEF Apart
    <3> QED
      BY <3>1, <3>2
  <2>2. \A x \in Ids : x < first_free' => objects[x].live \/ x = i
    BY <1>1, <1>2 DEF SlotsInv
  <2>3. ASSUME NEW g \in p.count..(p.cap - 1) PROVE fields_arena'[p.off + g] = Null
    <3>1. g \in 0..(o.cap - 1) /\ g \in o.count..(o.cap - 1)
      BY <1>6, <1>8
    <3>2. fields_arena[o.off + g] = Null
      BY <1>2, <1>4, <3>1 DEF SlotsInv, o
    <3> QED
      BY <1>8, <1>12, <3>1, <3>2
  <2>4. arena_len' \in Nat /\ arena_len <= arena_len' /\ p.count <= p.cap
    BY <1>1, <1>6, <1>8
  <2> QED
    BY <1>2, <1>4, <1>8, <1>9, <1>14, <2>1, <2>2, <2>3, <2>4, StoreStep
<1>16. ASSUME NEW j \in Ids
       PROVE  /\ objects'[j].live = objects[j].live /\ objects'[j].class = objects[j].class
              /\ objects'[j].cap = objects[j].cap /\ objects'[j].count = objects[j].count
  <2>1. objects[i] \in ObjectType /\ p.live = o.live
    BY <1>6 DEF o, p, ObjectType
  <2> QED
    BY <1>8, <1>9, <2>1 DEF o
<1>17. ASSUME NEW j \in Ids, objects[j].live
       PROVE  /\ BufIn(fields_arena', objects'[j]) = BufIn(fields_arena, objects[j])
              /\ Owns(fields_arena', objects'[j]) <=> Owns(fields_arena, objects[j])
              /\ \A x : RefIn(fields_arena', objects'[j], x) <=> RefIn(fields_arena, objects[j], x)
  <2>1. CASE j # i
    BY <1>2, <1>9, <1>14, <1>17, <2>1, KeptContent
  <2>2. CASE j = i
    <3> DEFINE a == fields_arena
               b == fields_arena'
    <3>1. \A g \in 0..(o.count - 1) : b[p.off + g] = a[o.off + g]
      <4>1. \A g \in 0..(o.count - 1) : g \in 0..(o.cap - 1)
        BY <1>6
      <4> QED
        BY <1>8, <1>12, <4>1
    <3>2. p.live = o.live
      BY <1>6 DEF p, ObjectType
    <3> HIDE DEF a, b
    <3>3. /\ BufIn(b, p) = BufIn(a, o) /\ (Owns(b, p) <=> Owns(a, o))
          /\ \A x : RefIn(b, p, x) <=> RefIn(a, o, x)
      BY <1>6, <1>8, <3>1, <3>2, SameContent
    <3> QED
      BY <1>9, <2>2, <3>3 DEF a, b, o
  <2> QED
    BY <2>1, <2>2
<1>18. write_pos' = w + o.cap /\ w + o.cap <= arena_len
  BY <1>1, <1>5, <1>6, <1>7
<1>19. SlideInv'
  <2>0. /\ phase' = "slide" /\ slice' = slice \ {k} /\ after' = k /\ arena_len' = arena_len
    BY <1>1
  \* What is due after the step was due before it, and is not the span that moved.
  <2>1. ASSUME NEW j \in Ids, objects'[j].live, objects'[j].cap > 0
        PROVE  /\ j # i => objects'[j] = objects[j] /\ objects[j].live /\ objects[j].cap > 0
               /\ Below(k, KeyOf(objects'[j], j)) =>
                    j # i /\ Due(j) /\ o.off + o.cap <= objects[j].off
               /\ j # i /\ ~Below(k, KeyOf(objects'[j], j)) =>
                    ~Due(j) /\ objects[j].off + objects[j].cap <= w
    <3>1. CASE j = i
      <4>1. ~Below(k, KeyOf(p, i))
        <5>1. KeyOf(p, i).off = w /\ KeyOf(p, i).slot = i /\ i \in Nat
          BY <1>4, <1>8, IdsFacts DEF KeyOf
        <5> QED
          BY <1>5, <1>6, <1>7, <5>1 DEF Below
      <4> QED
        BY <1>9, <3>1, <4>1
    <3>2. CASE j # i
      <4>1. objects'[j] = objects[j] /\ objects[j].live /\ objects[j].cap > 0
        BY <1>9, <2>1, <3>2
      <4> QED
        BY <1>10, <3>2, <4>1
    <3> QED
      BY <3>1, <3>2
  <2>2. ASSUME NEW x \in slice \ {k}
        PROVE  /\ x.slot \in Ids /\ objects'[x.slot].live /\ objects'[x.slot].cap > 0
               /\ Below(k, KeyOf(objects'[x.slot], x.slot))
               /\ x = KeyOf(objects'[x.slot], x.slot)
    <3>1. /\ x.slot \in Ids /\ Due(x.slot) /\ x = KeyOf(objects[x.slot], x.slot) /\ Below(k, x)
      BY <1>1, <1>2, <1>3 DEF SlideInv
    <3>2. x.slot # i
      BY <1>4, <2>2, <3>1 DEF o
    <3>3. objects'[x.slot] = objects[x.slot]
      BY <1>9, <3>1, <3>2
    <3> QED
      BY <3>1, <3>3 DEF Due
  <2>3. ASSUME NEW x \in slice \ {k}, NEW j \in Ids, objects'[j].live, objects'[j].cap > 0,
               Below(k, KeyOf(objects'[j], j)), KeyOf(objects'[j], j) \notin slice \ {k}
        PROVE  Below(x, KeyOf(objects'[j], j))
    <3>1. j # i /\ Due(j) /\ objects'[j] = objects[j]
      BY <2>1, <2>3
    <3>2. KeyOf(objects[j], j) # k
      BY <1>5, <3>1 DEF KeyOf
    <3>3. KeyOf(objects[j], j) \notin slice
      BY <2>3, <3>1, <3>2
    <3>4. Below(x, KeyOf(objects[j], j))
      BY <1>1, <1>2, <3>1, <3>3 DEF SlideInv
    <3> QED
      BY <3>1, <3>4
  <2>4. ASSUME NEW j \in Ids, objects'[j].live, objects'[j].cap > 0
        PROVE  /\ Below(k, KeyOf(objects'[j], j)) => w + o.cap <= objects'[j].off
               /\ ~Below(k, KeyOf(objects'[j], j)) => objects'[j].off + objects'[j].cap <= w + o.cap
    <3>1. CASE j = i
      BY <1>6, <1>7, <1>8, <1>9, <2>1, <2>4, <3>1
    <3>2. CASE j # i
      <4>1. objects'[j] = objects[j] /\ objects[j].off \in Nat /\ objects[j].cap \in Nat
        BY <1>2, <2>1, <2>4, <3>2, SpanFacts
      <4>2. CASE Below(k, KeyOf(objects'[j], j))
        <5>1. o.off + o.cap <= objects[j].off
          BY <2>1, <2>4, <4>2
        <5> QED
          BY <1>6, <1>7, <4>1, <4>2, <5>1
      <4>3. CASE ~Below(k, KeyOf(objects'[j], j))
        <5>1. objects[j].off + objects[j].cap <= w
          BY <2>1, <2>4, <3>2, <4>3
        <5> QED
          BY <1>6, <1>7, <4>1, <4>3, <5>1
      <4> QED
        BY <4>2, <4>3
    <3> QED
      BY <3>1, <3>2
  <2>5. ASSUME NEW q \in 0..(w + o.cap - 1)
        PROVE  \E j \in Ids : /\ objects'[j].live /\ objects'[j].cap > 0
                              /\ objects'[j].off <= q /\ q < objects'[j].off + objects'[j].cap
    <3>1. CASE q < w
      <4>1. q \in 0..(w - 1)
        BY <1>6, <1>7, <3>1
      <4>2. PICK j \in Ids : /\ objects[j].live /\ objects[j].cap > 0
                             /\ objects[j].off <= q /\ q < objects[j].off + objects[j].cap
        BY <1>1, <1>2, <4>1 DEF SlideInv, w
      <4>3. j # i
        BY <1>6, <1>7, <3>1, <4>2 DEF o
      <4> QED
        BY <1>9, <4>2, <4>3
    <3>2. CASE ~(q < w)
      <4>1. p.off <= q /\ q < p.off + p.cap
        BY <1>6, <1>7, <1>8, <3>2
      <4> QED
        BY <1>4, <1>8, <1>9, <4>1
    <3> QED
      BY <3>1, <3>2
  <2> QED
    <3>1. \A x \in slice' : /\ x.slot \in Ids /\ Due(x.slot)'
                             /\ x = KeyOf(objects'[x.slot], x.slot)
      BY <2>0, <2>2 DEF Due
    <3>2. \A x \in slice' : \A j \in Ids :
             Due(j)' /\ KeyOf(objects'[j], j) \notin slice' => Below(x, KeyOf(objects'[j], j))
      BY <2>0, <2>3 DEF Due
    <3>3. \A j \in Ids : objects'[j].live /\ objects'[j].cap > 0 =>
             /\ Below(after', KeyOf(objects'[j], j)) => write_pos' <= objects'[j].off
             /\ ~Below(after', KeyOf(objects'[j], j))
                => objects'[j].off + objects'[j].cap <= write_pos'
      BY <1>18, <2>0, <2>4
    <3>4. \A q \in 0..(write_pos' - 1) : \E j \in Ids :
             /\ objects'[j].live /\ objects'[j].cap > 0
             /\ objects'[j].off <= q /\ q < objects'[j].off + objects'[j].cap
      <4>1. write_pos' - 1 = w + o.cap - 1
        BY <1>6, <1>7, <1>18
      <4> QED
        BY <2>5, <4>1
    <3>5. write_pos' <= arena_len'
      BY <1>18, <2>0
    <3> QED
      BY <3>1, <3>2, <3>3, <3>4, <3>5 DEF SlideInv
<1>20. Collector'
  BY <1>1, <1>19 DEF Collector, RestInv, MarkInv, SweepInv
<1>21. TypeOK' /\ write_pos' \in 0..ArenaMax /\ after' \in KeyType
  <2>1. write_pos' \in 0..ArenaMax
    BY <1>6, <1>7, <1>18
  <2>2. after' \in KeyType
    BY <1>1, <1>4, <1>6, IdsFacts DEF KeyOf, KeyType
  <2> QED
    BY <1>1, <1>2, <1>9, <1>13, <2>1, <2>2 DEF TypeOK, ObjectType
<1>22. phase # "sweep" /\ phase' # "sweep" /\ UNCHANGED <<sides, frames, natives>>
  BY <1>1
<1>23. SpansKept
  <2>1. ASSUME NEW j \in Ids, objects[j].live, NEW g \in 0..(objects[j].count - 1)
        PROVE  fields_arena'[objects'[j].off + g] = fields_arena[objects[j].off + g]
    <3>1. g \in 0..(objects[j].cap - 1)
      BY <1>2, <2>1, SpanFacts
    <3>2. CASE j # i
      BY <1>9, <1>14, <2>1, <3>1, <3>2 DEF OthersKeep
    <3>3. CASE j = i
      BY <1>8, <1>9, <1>12, <3>1, <3>3 DEF o
    <3> QED
      BY <3>2, <3>3
  <2> QED
    BY <1>16, <2>1 DEF SpansKept
<1>24. IInv'
  BY <1>15, <1>16, <1>17, <1>20, <1>21, <1>22, SameObjects
<1> QED
  BY <1>23, <1>24

LEMMA EndSlideStep ==
    ASSUME IInv, EndSlide
    PROVE  IInv' /\ SpansKept
<1>1. /\ phase = "slide" /\ Pending = {} /\ arena_len' = write_pos
      /\ fields_arena' = [p \in Arena |-> IF p < write_pos THEN fields_arena[p] ELSE Null]
      /\ Idle /\ UNCHANGED <<objects, first_free, sides, frames, natives>>
  BY DEF EndSlide, truncate
<1>2. /\ TypeOK /\ SideTypes /\ Store /\ SpansInv /\ SlotsInv /\ SlideInv
  BY DEF IInv, Store, Collector
<1> HIDE DEF IInv
<1>3. ASSUME NEW j \in Ids, objects[j].live, objects[j].cap > 0
      PROVE  objects[j].off + objects[j].cap <= write_pos
  <2>1. ~Due(j)
    BY <1>1, PendingAre
  <2> QED
    BY <1>1, <1>2, <1>3, <2>1 DEF SlideInv, Due
<1>4. write_pos \in 0..ArenaMax /\ write_pos \in Nat
  BY <1>2, IdsFacts DEF SideTypes
<1>5. ASSUME NEW j \in Ids, objects[j].live, NEW g \in 0..(objects[j].cap - 1)
      PROVE  fields_arena'[objects[j].off + g] = fields_arena[objects[j].off + g]
  <2>1. objects[j].off + g \in Arena
    BY <1>2, <1>5, FieldFacts
  <2>2. objects[j].off \in Nat /\ objects[j].cap \in Nat /\ objects[j].cap > 0
    BY <1>2, <1>5, SpanFacts
  <2>3. objects[j].off + g < write_pos
    BY <1>3, <1>4, <1>5, <2>2
  <2> QED
    BY <1>1, <2>1, <2>3
<1>6. SpansInv'
  BY <1>1, <1>2, <1>3 DEF SpansInv
<1>7. SlotsInv'
  <2>1. ASSUME NEW j \in Ids, objects[j].live, NEW g \in objects[j].count..(objects[j].cap - 1)
        PROVE  fields_arena'[objects[j].off + g] = Null
    <3>1. g \in 0..(objects[j].cap - 1)
      BY <1>2, <2>1, SpanFacts
    <3> QED
      BY <1>2, <1>5, <2>1, <3>1 DEF SlotsInv
  <2> QED
    BY <1>1, <1>2, <2>1 DEF SlotsInv
<1>8. fields_arena' \in [Arena -> Slots]
  BY <1>1, <1>2, RefFacts DEF TypeOK
<1>9. TypeOK'
  BY <1>1, <1>2, <1>4, <1>8, IdleFacts DEF TypeOK
<1>10. OthersKeep(-1)
  BY <1>5 DEF OthersKeep
<1>11. ASSUME NEW j \in Ids, objects[j].live
       PROVE  /\ BufIn(fields_arena', objects'[j]) = BufIn(fields_arena, objects[j])
              /\ Owns(fields_arena', objects'[j]) <=> Owns(fields_arena, objects[j])
              /\ \A x : RefIn(fields_arena', objects'[j], x) <=> RefIn(fields_arena, objects[j], x)
  <2>1. j \in Ids \ {-1} /\ objects'[j] = objects[j]
    BY <1>1, IdsFacts
  <2> QED
    BY <1>2, <1>10, <1>11, <2>1, KeptContent
<1>12. \A j \in Ids : objects'[j].live = objects[j].live /\ objects'[j].class = objects[j].class
  BY <1>1
<1>13. phase # "sweep" /\ phase' # "sweep" /\ Store' /\ UNCHANGED <<sides, frames, natives>>
  BY <1>1, <1>6, <1>7, IdleFacts DEF Store
<1>14. IInv'
  BY <1>1, <1>9, <1>11, <1>12, <1>13, IdleFacts, SameObjects
<1>15. \A j \in Ids : objects[j].live =>
          \A g \in 0..(objects[j].count - 1) : g \in 0..(objects[j].cap - 1)
  BY <1>2, SpanFacts
<1> QED
  BY <1>1, <1>5, <1>14, <1>15 DEF SpansKept

-----------------------------------------------------------------------------
(* The invariant of the specification. *)

LEMMA InitInv == Init => IInv
<1> SUFFICES ASSUME Init PROVE IInv
  OBVIOUS
<1>1. /\ NoObject \in ObjectType /\ ~NoObject.live /\ NoBuf \in BufType
      /\ NoIter \in IterType /\ ~NoIter.used /\ NoKey \in KeyType
  <2>1. <<>> \in Seq(Slots)
    OBVIOUS
  <2> QED
    BY <2>1, IdsFacts DEF NoObject, ObjectType, Classes, NoBuf, BufType, NoIter, IterType, NoKey,
                          KeyType
<1>2. /\ objects = [i \in Ids |-> NoObject] /\ fields_arena = [p \in Arena |-> Null]
      /\ arena_len = 0 /\ first_free = 0 /\ list_bufs = [b \in Bufs |-> NoBuf]
      /\ iter_states = [i \in Ids |-> NoIter] /\ frames = [t \in Tasks |-> {}]
      /\ upcalls = [t \in Tasks |-> <<>>] /\ shadow_roots = <<>>
      /\ phase = "idle" /\ work = {} /\ marks = {} /\ exhausted = FALSE
      /\ write_pos = 0 /\ slice = {} /\ after = NoKey
  BY DEF Init
<1>3. TypeOK
  <2>1. objects \in [Ids -> ObjectType] /\ fields_arena \in [Arena -> Slots]
    BY <1>1, <1>2, RefFacts
  <2>2. arena_len \in 0..ArenaMax /\ first_free \in 0..MaxSlots
    BY <1>2, IdsFacts
  <2>3. frames \in [Tasks -> SUBSET Ids]
    BY <1>2
  <2> QED
    BY <1>2, <2>1, <2>2, <2>3 DEF TypeOK, ObjectType
<1>4. SideTypes
  <2>1. <<>> \in Seq(UpcallType) /\ <<>> \in Seq(Ids) /\ 0 \in 0..ArenaMax
    BY IdsFacts
  <2> QED
    BY <1>1, <1>2, <2>1 DEF SideTypes
<1>5. Store
  BY <1>1, <1>2, IdsFacts DEF Store, SpansInv, SlotsInv
<1>6. ListsInv /\ IterInv /\ RefsInv
  BY <1>1, <1>2 DEF ListsInv, IterInv, RefsInv
<1>7. UpcallsInv
  <2>1. DOMAIN shadow_roots = {} /\ \A t \in Tasks : DOMAIN upcalls[t] = {}
    BY <1>2
  <2> QED
    BY <2>1 DEF UpcallsInv
<1>8. Collector
  BY <1>2 DEF Collector, RestInv, MarkInv, SweepInv, SlideInv
<1> QED
  BY <1>3, <1>4, <1>5, <1>6, <1>7, <1>8 DEF IInv

LEMMA StutterInv ==
    ASSUME IInv, UNCHANGED vars
    PROVE  IInv'
<1>1. /\ objects' = objects /\ fields_arena' = fields_arena /\ arena_len' = arena_len
      /\ first_free' = first_free /\ list_bufs' = list_bufs /\ iter_states' = iter_states
      /\ frames' = frames /\ upcalls' = upcalls /\ shadow_roots' = shadow_roots
      /\ phase' = phase /\ work' = work /\ marks' = marks /\ exhausted' = exhausted
      /\ write_pos' = write_pos /\ slice' = slice /\ after' = after
  BY DEF vars, store, sides, natives, gc
<1>2. /\ TypeOK /\ SideTypes /\ Store /\ ListsInv /\ IterInv /\ RefsInv /\ UpcallsInv
      /\ Collector
  BY DEF IInv
<1> HIDE DEF IInv
<1>3. TypeOK' /\ SideTypes'
  BY <1>1, <1>2 DEF TypeOK, SideTypes
<1>4. Store'
  BY <1>1, <1>2 DEF Store, SpansInv, SlotsInv
<1>5. ListsInv' /\ IterInv' /\ RefsInv'
  BY <1>1, <1>2 DEF ListsInv, IterInv, Walks, RefsInv
<1>6. UpcallsInv'
  BY <1>1, <1>2 DEF UpcallsInv
<1>7. RestInv' /\ MarkInv' /\ SweepInv'
  BY <1>1, <1>2 DEF Collector, RestInv, MarkInv, SweepInv, Grey, RootsIn, ClosedFrom
<1>8. SlideInv'
  BY <1>1, <1>2 DEF Collector, SlideInv, Due
<1> QED
  BY <1>3, <1>4, <1>5, <1>6, <1>7, <1>8 DEF IInv, Collector

LEMMA NextInv ==
    ASSUME UpcallsNest, PlainClones, NoEmptyRefusals, IInv, [Next]_vars
    PROVE  IInv'
<1>1. ASSUME NEW t \in Tasks, TaskStep(t) PROVE IInv'
  BY <1>1, TaskStepKeeps
<1>2. CASE ScanRoots
  BY <1>2, ScanRootsStep
<1>3. CASE Mark
  BY <1>3, MarkStep
<1>4. CASE GiveUp
  BY <1>4, GiveUpStep
<1>5. CASE EndMark
  BY <1>5, EndMarkStep
<1>6. CASE Sweep
  BY <1>6, SweepStep
<1>7. CASE EndSweep
  BY <1>7, EndSweepStep
<1>8. CASE Slide
  BY <1>8, SlideStep
<1>9. CASE NextSlice
  BY <1>9, NextSliceStep
<1>10. CASE EndSlide
  BY <1>10, EndSlideStep
<1>11. CASE UNCHANGED vars
  BY <1>11, StutterInv
<1> QED
  BY <1>1, <1>2, <1>3, <1>4, <1>5, <1>6, <1>7, <1>8, <1>9, <1>10, <1>11 DEF Next, CollectorStep

LEMMA Inductive == ASSUME UpcallsNest, PlainClones, NoEmptyRefusals PROVE Spec => []IInv
<1>1. IInv /\ [Next]_vars => IInv'
  BY NextInv
<1> QED
  BY InitInv, <1>1, PTL DEF Spec

\* The invariant says what HeapSound says.
LEMMA SoundFacts ==
    ASSUME IInv
    PROVE  HeapSound
<1>1. /\ TypeOK /\ SideTypes /\ SpansInv /\ SlotsInv /\ ListsInv /\ IterInv /\ RefsInv
      /\ UpcallsInv
  BY DEF IInv, Store
<1> HIDE DEF IInv
<1>2. SpansDisjoint
  BY <1>1, SpanFacts DEF SpansInv, SpansDisjoint, LiveIds, Spanned, Apart
<1>3. FirstFreeExact
  BY <1>1 DEF SlotsInv, FirstFreeExact
<1>4. BuffersOwned
  <2>1. \A i \in Ids : /\ HasBuf(i) <=> Owns(fields_arena, objects[i])
                       /\ BufOf(i) = BufIn(fields_arena, objects[i])
    BY GetField
  <2>2. \A i \in LiveIds : HasBuf(i) => list_bufs[BufOf(i)].used
    BY <1>1, <2>1 DEF ListsInv, LiveIds
  <2>3. \A i, j \in LiveIds : HasBuf(i) /\ HasBuf(j) /\ BufOf(i) = BufOf(j) => i = j
    BY <1>1, <2>1 DEF ListsInv, LiveIds
  <2>4. \A i \in Ids : iter_states[i].used => objects[i].live /\ objects[i].class = "iterator"
    BY <1>1 DEF IterInv
  <2>5. ASSUME NEW i \in Kept, iter_states[i].used
        PROVE  /\ iter_states[i].owner \in Kept /\ HasBuf(iter_states[i].owner)
               /\ iter_states[i].source = BufOf(iter_states[i].owner)
    <3> DEFINE w == iter_states[i].owner
    <3>1. i \in Ids /\ (phase = "sweep" => i \in marks)
      BY DEF Kept, LiveIds
    <3>2. /\ w \in Ids /\ (phase = "sweep" => w \in marks) /\ Walks(iter_states[i], objects[w])
      BY <1>1, <2>5, <3>1 DEF IterInv
    <3>3. /\ objects[w].live /\ Owns(fields_arena, objects[w])
          /\ iter_states[i].source = BufIn(fields_arena, objects[w])
      BY <3>2 DEF Walks
    <3> HIDE DEF w
    <3>4. w \in Kept /\ HasBuf(w) /\ iter_states[i].source = BufOf(w)
      BY <2>1, <3>2, <3>3 DEF Kept, LiveIds
    <3> QED
      BY <3>4 DEF w
  <2> QED
    BY <2>2, <2>3, <2>4, <2>5 DEF BuffersOwned
<1>5. RefsLive
  <2>1. SUFFICES ASSUME phase # "sweep"
                 PROVE  /\ Rooted \cup Held \subseteq LiveIds
                        /\ \A i \in LiveIds : Children(i) \subseteq LiveIds
    BY DEF RefsLive
  <2>2. \A n \in DOMAIN shadow_roots : shadow_roots[n] \in Ids
    BY <1>1, SeqFacts DEF SideTypes
  <2>3. RootsIn(LiveIds)
    BY <1>1, <2>1, <2>2 DEF RootsIn, RefsInv, TypeOK, LiveIds
  <2>4. Rooted \subseteq LiveIds
    BY <1>1, <2>3, RootedAre
  <2>5. ASSUME NEW x \in Held PROVE x \in LiveIds
    <3>1. PICK t \in Tasks : \E k \in DOMAIN upcalls[t] : x = upcalls[t][k].value
      BY DEF Held
    <3>2. PICK k \in DOMAIN upcalls[t] : x = upcalls[t][k].value
      BY <3>1
    <3>3. x = shadow_roots[upcalls[t][k].mark + 1] /\ upcalls[t][k].mark + 1 \in DOMAIN shadow_roots
      BY <1>1, <3>2 DEF UpcallsInv
    <3> QED
      BY <2>3, <3>3 DEF RootsIn
  <2>6. ASSUME NEW i \in LiveIds PROVE Children(i) \subseteq LiveIds
    <3>1. i \in Ids /\ objects[i].live
      BY DEF LiveIds
    <3>2. Children(i) = {x \in Ids : Refers(fields_arena, objects[i], list_bufs, iter_states[i], x)}
      BY <1>1, <2>1, <3>1, ChildrenAre
    <3> QED
      BY <1>1, <2>1, <3>1, <3>2 DEF RefsInv, LiveIds
  <2> QED
    BY <2>4, <2>5, <2>6
<1> QED
  BY <1>1, <1>2, <1>3, <1>4, <1>5 DEF HeapSound

\* The heap's structure, whatever the program and the collector do: spans apart, no free slot
\* lost, no buffer shared, no reference dangling (object_heap/mod.rs, integrity_check).
THEOREM HeapIsSound == ASSUME UpcallsNest, PlainClones, NoEmptyRefusals PROVE Spec => []HeapSound
<1>1. IInv => HeapSound
  BY SoundFacts
<1> QED
  BY Inductive, <1>1, PTL

\* A native that called Java still finds its receiver and its arguments alive afterwards
\* (gc/mod.rs, shadow_roots), when the upcalls of the tasks end in reverse order.
THEOREM NativesStayRooted == ASSUME UpcallsNest, PlainClones, NoEmptyRefusals PROVE Spec => []NativesRooted
<1>1. HeapSound => NativesRooted
  BY DEF HeapSound, RefsLive, NativesRooted
<1> QED
  BY HeapIsSound, <1>1, PTL

-----------------------------------------------------------------------------
(* What a collection frees. *)

\* Whatever has been marked or waits for it can be reached: it lies in every set that holds
\* the roots and is closed under references.
ReachInv == phase \in {"mark", "sweep"} =>
                \A L \in SUBSET Ids : RootsIn(L) /\ ClosedFrom(L, L) => Grey \subseteq L

LEMMA ReachMark ==
    ASSUME IInv, ReachInv, Mark
    PROVE  ReachInv'
<1> DEFINE i == Lowest(work)
<1>1. /\ phase = "mark" /\ work # {}
      /\ IF i \in marks THEN work' = work \ {i} /\ UNCHANGED <<marks, exhausted>>
         ELSE marks' = marks \cup {i} /\ Push(work \ {i}, Children(i))
      /\ UNCHANGED <<phase, write_pos, slice, after, store, sides, frames, natives>>
  BY DEF Mark
<1>2. TypeOK /\ SideTypes /\ IterInv /\ SpansInv
  BY DEF IInv, Store
<1>3. work \subseteq Ids /\ \A j \in Grey : objects[j].live
  BY <1>1, <1>2 DEF TypeOK, IInv, Collector, MarkInv
<1> HIDE DEF IInv, i
<1>4. i \in work /\ i \in Ids /\ objects[i].live
  <2>1. i \in work
    BY <1>1, <1>3, IdsFacts, LowestFacts DEF i
  <2> QED
    BY <1>3, <2>1 DEF Grey
<1>5. /\ objects' = objects /\ frames' = frames /\ shadow_roots' = shadow_roots
      /\ fields_arena' = fields_arena /\ list_bufs' = list_bufs /\ iter_states' = iter_states
  BY <1>1 DEF store, sides, natives
<1>6. Children(i) = {x \in Ids : Refers(fields_arena, objects[i], list_bufs, iter_states[i], x)}
  BY <1>1, <1>2, <1>4, ChildrenAre
<1>7. Grey' \subseteq Grey \cup Children(i)
  BY <1>1, <1>4 DEF Grey, Push
<1>8. ASSUME NEW L \in SUBSET Ids, RootsIn(L), ClosedFrom(L, L)
      PROVE  Grey' \subseteq L
  <2>1. Grey \subseteq L
    BY <1>1, <1>8 DEF ReachInv
  <2>2. Children(i) \subseteq L
    BY <1>4, <1>6, <1>8, <2>1 DEF ClosedFrom, Grey
  <2> QED
    BY <1>7, <2>1, <2>2
<1> QED
  BY <1>5, <1>8 DEF ReachInv, RootsIn, ClosedFrom

\* A freed object was not marked, so those that are marked refer to what they did.
LEMMA ReachSweep ==
    ASSUME IInv, ReachInv, Sweep
    PROVE  ReachInv'
<1> DEFINE i == Lowest(Unmarked)
<1>1. /\ phase = "sweep" /\ i \in Ids /\ objects[i].live /\ i \notin marks
      /\ \A j \in Ids \ {i} : objects'[j] = objects[j] /\ iter_states'[j] = iter_states[j]
      /\ fields_arena' = fields_arena
      /\ \A b \in Bufs : ~(Owns(fields_arena, objects[i]) /\ b = BufIn(fields_arena, objects[i]))
                         => list_bufs'[b] = list_bufs[b]
  BY SweptFacts
<1>2. /\ frames' = frames /\ shadow_roots' = shadow_roots
      /\ phase' = phase /\ work' = work /\ marks' = marks
  BY SweptFacts DEF natives, gc
<1>3. /\ TypeOK /\ SpansInv /\ ListsInv /\ SweepInv
  BY DEF IInv, Store, Collector
<1> HIDE DEF i, IInv
<1>4. /\ \A j \in marks : objects[j].live /\ j # i
      /\ RootsIn(marks) /\ ClosedFrom(marks, marks) /\ work = {} /\ marks \subseteq Ids
  BY <1>1, <1>3 DEF SweepInv, TypeOK
<1>5. ASSUME NEW j \in marks, NEW x \in Ids,
             Refers(fields_arena, objects[j], list_bufs, iter_states[j], x)
      PROVE  Refers(fields_arena', objects'[j], list_bufs', iter_states'[j], x)
  <2>1. j \in Ids /\ objects[j].live /\ objects'[j] = objects[j] /\ iter_states'[j] = iter_states[j]
    BY <1>1, <1>4
  <2>2. ASSUME Owns(fields_arena, objects[j])
        PROVE  list_bufs'[BufIn(fields_arena, objects[j])] = list_bufs[BufIn(fields_arena, objects[j])]
    <3>1. BufIn(fields_arena, objects[j]) \in Bufs
      BY <1>3, <2>1, <2>2, OwnedBuf
    <3>2. ~(/\ Owns(fields_arena, objects[i])
            /\ BufIn(fields_arena, objects[j]) = BufIn(fields_arena, objects[i]))
      BY <1>1, <1>3, <1>4, <2>1, <2>2 DEF ListsInv
    <3> QED
      BY <1>1, <3>1, <3>2
  <2> QED
    BY <1>1, <1>5, <2>1, <2>2 DEF Refers
<1>6. ASSUME NEW L \in SUBSET Ids, RootsIn(L)', ClosedFrom(L, L)'
      PROVE  Grey' \subseteq L
  <2> DEFINE M == L \cap marks
  <2>1. RootsIn(M)
    BY <1>2, <1>4, <1>6 DEF RootsIn
  <2>2. ASSUME NEW j \in Ids, NEW x \in Ids, j \in M,
               Refers(fields_arena, objects[j], list_bufs, iter_states[j], x)
        PROVE  x \in M
    <3>1. x \in marks
      BY <1>4, <2>2 DEF ClosedFrom
    <3>2. Refers(fields_arena', objects'[j], list_bufs', iter_states'[j], x)
      BY <1>5, <2>2
    <3>3. x \in L
      BY <1>6, <2>2, <3>2 DEF ClosedFrom
    <3> QED
      BY <3>1, <3>3
  <2>3. M \in SUBSET Ids /\ ClosedFrom(M, M)
    <3>1. M \in SUBSET Ids
      OBVIOUS
    <3> HIDE DEF M
    <3> QED
      BY <2>2, <3>1 DEF ClosedFrom
  <2>4. Grey \subseteq M
    <3> HIDE DEF M
    <3> QED
      BY <1>1, <2>1, <2>3 DEF ReachInv
  <2> QED
    BY <1>2, <2>4 DEF Grey
<1>7. phase' = "sweep"
  BY <1>1, <1>2
<1> QED
  BY <1>6 DEF ReachInv

LEMMA ReachStep ==
    ASSUME IInv, ReachInv, [Next]_vars
    PROVE  ReachInv'
<1>1. ASSUME NEW t \in Tasks, TaskStep(t) PROVE ReachInv'
  <2>1. phase' = phase
    BY <1>1 DEF TaskStep, New, NewList, Return, clone_object, Put, Get, Drop, InitList, EditList,
                SetElement, Element, NewIterator, next, remove, Upcall, Pass, Refused, gc
  <2> QED
    BY <1>1, <2>1 DEF TaskStep, ReachInv
<1>2. CASE ScanRoots
  <2>1. /\ phase = "idle" /\ Push({}, Rooted) /\ marks' = marks
        /\ frames' = frames /\ shadow_roots' = shadow_roots
    BY <1>2 DEF ScanRoots, natives
  <2>2. marks = {} /\ TypeOK /\ SideTypes
    BY <2>1 DEF IInv, Collector, RestInv
  <2>3. Grey' \subseteq Rooted
    BY <2>1, <2>2 DEF Push, Grey
  <2>4. ASSUME NEW L, RootsIn(L)' PROVE Grey' \subseteq L
    <3>1. RootsIn(L)
      BY <2>1, <2>4 DEF RootsIn
    <3>2. Rooted \subseteq L
      BY <2>2, <3>1, RootedAre
    <3> QED
      BY <2>3, <3>2
  <2> QED
    BY <2>4 DEF ReachInv
<1>3. CASE Mark
  BY <1>3, ReachMark
<1>4. CASE GiveUp \/ EndSweep \/ Slide \/ NextSlice \/ EndSlide
  <2>1. phase' \notin {"mark", "sweep"}
    BY <1>4 DEF GiveUp, EndSweep, Slide, NextSlice, EndSlide, Idle
  <2> QED
    BY <2>1 DEF ReachInv
<1>5. CASE EndMark
  <2>1. /\ objects' = objects /\ frames' = frames /\ shadow_roots' = shadow_roots
        /\ fields_arena' = fields_arena /\ list_bufs' = list_bufs /\ iter_states' = iter_states
        /\ phase = "mark" /\ work' = work /\ marks' = marks
    BY <1>5 DEF EndMark, store, sides, natives
  <2> QED
    BY <2>1 DEF ReachInv, RootsIn, ClosedFrom, Grey
<1>6. CASE Sweep
  BY <1>6, ReachSweep
<1>7. CASE UNCHANGED vars
  <2>1. /\ objects' = objects /\ frames' = frames /\ shadow_roots' = shadow_roots
        /\ fields_arena' = fields_arena /\ list_bufs' = list_bufs /\ iter_states' = iter_states
        /\ phase' = phase /\ work' = work /\ marks' = marks
    BY <1>7 DEF vars, store, sides, natives, gc
  <2> QED
    BY <2>1 DEF ReachInv, RootsIn, ClosedFrom, Grey
<1> QED
  BY <1>1, <1>2, <1>3, <1>4, <1>5, <1>6, <1>7 DEF Next, CollectorStep

\* When the sweep ends, the marked objects are those that are live, and what every closed
\* set holds.
LEMMA Collected ==
    ASSUME IInv, ReachInv, EndSweep
    PROVE  LiveIds = Reachable
<1>1. phase = "sweep" /\ Unmarked = {}
  BY DEF EndSweep
<1>2. /\ TypeOK /\ SideTypes /\ SpansInv /\ SlotsInv /\ IterInv /\ UpcallsInv /\ SweepInv
  BY DEF IInv, Store, Collector
<1> HIDE DEF IInv
<1>3. /\ \A i \in marks : objects[i].live
      /\ RootsIn(marks) /\ ClosedFrom(marks, marks) /\ marks \subseteq Ids
  BY <1>1, <1>2 DEF SweepInv, TypeOK
<1>4. LiveIds = marks
  BY <1>1, <1>3 DEF LiveIds, Unmarked
<1>5. ASSUME NEW i \in marks
      PROVE  Children(i) = {x \in Ids : Refers(fields_arena, objects[i], list_bufs, iter_states[i], x)}
  BY <1>2, <1>3, ChildrenAre
\* The values that natives hold are the shadow roots.
<1>6. ASSUME NEW x
      PROVE  x \in Held <=> \E n \in DOMAIN shadow_roots : x = shadow_roots[n]
  <2>1. ASSUME x \in Held PROVE \E n \in DOMAIN shadow_roots : x = shadow_roots[n]
    <3>1. PICK t \in Tasks : \E k \in DOMAIN upcalls[t] : x = upcalls[t][k].value
      BY <2>1 DEF Held
    <3>2. PICK k \in DOMAIN upcalls[t] : x = upcalls[t][k].value
      BY <3>1
    <3> QED
      BY <1>2, <3>2 DEF UpcallsInv
  <2>2. ASSUME NEW n \in DOMAIN shadow_roots, x = shadow_roots[n] PROVE x \in Held
    <3>1. PICK t \in Tasks : \E k \in DOMAIN upcalls[t] : upcalls[t][k].mark + 1 = n
      BY <1>2 DEF UpcallsInv
    <3>2. PICK k \in DOMAIN upcalls[t] : upcalls[t][k].mark + 1 = n
      BY <3>1
    <3>3. x = upcalls[t][k].value
      BY <1>2, <2>2, <3>2 DEF UpcallsInv
    <3> QED
      BY <3>2, <3>3 DEF Held
  <2> QED
    BY <2>1, <2>2
<1> DEFINE F == UNION {frames[t] : t \in Tasks}
<1>7. ASSUME NEW L PROVE Held \cup F \subseteq L <=> RootsIn(L)
  <2>1. \A x : x \in F <=> \E t \in Tasks : x \in frames[t]
    OBVIOUS
  <2> HIDE DEF F
  <2>2. ASSUME Held \cup F \subseteq L PROVE RootsIn(L)
    BY <1>6, <2>1, <2>2 DEF RootsIn
  <2>3. ASSUME RootsIn(L) PROVE Held \cup F \subseteq L
    BY <1>6, <2>1, <2>3 DEF RootsIn
  <2> QED
    BY <2>2, <2>3
<1>8. ASSUME NEW L
      PROVE  ClosedSet(L) <=> RootsIn(L) /\ \A i \in L : Children(i) \subseteq L
  BY <1>7 DEF ClosedSet
<1> HIDE DEF F
<1>9. Reachable \subseteq marks
  <2>1. \A i \in marks : Children(i) \subseteq marks
    BY <1>3, <1>5 DEF ClosedFrom
  <2>2. ClosedSet(marks) /\ marks \in SUBSET Ids
    BY <1>3, <1>8, <2>1
  <2> QED
    BY <2>2 DEF Reachable
<1>10. ASSUME NEW L \in SUBSET Ids, ClosedSet(L) PROVE marks \subseteq L
  <2>1. RootsIn(L) /\ \A i \in L : Children(i) \subseteq L
    BY <1>8, <1>10
  <2>2. ASSUME NEW i \in Ids, NEW x \in Ids, i \in L,
               Refers(fields_arena, objects[i], list_bufs, iter_states[i], x)
        PROVE  x \in L
    <3>1. CASE i \in marks
      BY <1>5, <2>1, <2>2, <3>1
    <3>2. CASE i \notin marks
      <4>1. ~objects[i].live
        BY <1>4, <3>2 DEF LiveIds
      <4>2. objects[i] = NoObject /\ ~iter_states[i].used
        BY <1>2, <4>1 DEF SlotsInv, IterInv
      <4>3. objects[i].count = 0 /\ objects[i].class = "object"
        BY <4>2 DEF NoObject
      <4> QED
        BY <2>2, <4>2, <4>3 DEF Refers, RefIn, IterIn, Owns
    <3> QED
      BY <3>1, <3>2
  <2>3. ClosedFrom(L, L)
    BY <2>2 DEF ClosedFrom
  <2>4. Grey \subseteq L
    BY <1>1, <2>1, <2>3 DEF ReachInv
  <2> QED
    BY <2>4 DEF Grey
<1> QED
  BY <1>3, <1>4, <1>9, <1>10 DEF Reachable

\* A sweep ends with the objects that can be reached and no other, and a compaction with an
\* arena without a gap (gc/mod.rs, collect; gc/compact.rs).
THEOREM CollectsExactly == ASSUME UpcallsNest, PlainClones, NoEmptyRefusals PROVE Spec => SweepsExactly
<1>1. Init => ReachInv
  BY DEF Init, ReachInv
<1>2. IInv /\ ReachInv /\ [Next]_vars => ReachInv'
  BY ReachStep
<1>3. ASSUME IInv, ReachInv, [Next]_vars
      PROVE  /\ phase = "sweep" /\ phase' # "sweep" => LiveIds = Reachable
             /\ phase = "slide" /\ phase' = "idle" => Arranged'
  <2>1. ASSUME phase = "sweep", phase' # "sweep" PROVE LiveIds = Reachable
    <3>1. EndSweep
      BY <1>3, <2>1 DEF Next, TaskStep, CollectorStep, ScanRoots, Mark, GiveUp, EndMark, Sweep, Slide,
                        NextSlice, EndSlide, vars, gc
    <3> QED
      BY <1>3, <3>1, Collected
  <2>2. ASSUME phase = "slide", phase' = "idle" PROVE Arranged'
    <3>1. EndSlide
      BY <1>3, <2>2 DEF Next, TaskStep, CollectorStep, ScanRoots, Mark, GiveUp, EndMark, Sweep,
                        EndSweep, Slide, NextSlice, vars, gc
    <3>2. arena_len' = write_pos /\ objects' = objects
      BY <3>1 DEF EndSlide, truncate
    <3>3. \A p \in 0..(write_pos - 1) : \E i \in Ids :
             /\ objects[i].live /\ objects[i].cap > 0
             /\ objects[i].off <= p /\ p < objects[i].off + objects[i].cap
      BY <1>3, <2>2 DEF IInv, Collector, SlideInv
    <3>4. ASSUME NEW p \in 0..(write_pos - 1) PROVE Covered(p)'
      BY <3>2, <3>3 DEF Covered, Spanned, LiveIds
    <3> QED
      BY <3>2, <3>4 DEF Arranged
  <2> QED
    BY <2>1, <2>2
<1>4. IInv /\ ReachInv /\ [Next]_vars
      => [/\ phase = "sweep" /\ phase' # "sweep" => LiveIds = Reachable
          /\ phase = "slide" /\ phase' = "idle" => Arranged']_vars
  BY <1>3
<1> QED
  BY Inductive, <1>1, <1>2, <1>4, PTL DEF Spec, SweepsExactly

-----------------------------------------------------------------------------
(***************************************************************************)
(* ObjectHeap implements JavaHeap: whatever grows, is marked, swept or     *)
(* slid, the program sees its objects change only by its own operations.   *)
(***************************************************************************)

\* What the program sees of an object o with the arena a, the list buffers bufs and the
\* state s of an iterator.
FieldsIn(a, o) == [k \in 1..o.count |-> a[o.off + (k - 1)]]
SeenIterator(s) == [class |-> "iterator", of |-> s.owner, last |-> s.last,
                    position |-> s.position, expected |-> s.expected]
SeenList(a, o, bufs) ==
    IF Owns(a, o) THEN Java!List(bufs[BufIn(a, o)].elems, bufs[BufIn(a, o)].mods)
    ELSE Java!List(<<>>, 0)
Seen(a, o, bufs, s) ==
    IF o.class = "object" THEN Java!Plain(FieldsIn(a, o))
    ELSE IF o.class = "list" THEN SeenList(a, o, bufs) ELSE SeenIterator(s)

LEMMA ContentIs ==
    ASSUME NEW i \in Ids, objects[i] \in ObjectType, objects[i].live
    PROVE  Content(i) = Seen(fields_arena, objects[i], list_bufs, iter_states[i])
<1>1. objects[i].class \in Classes /\ objects[i].count \in Nat
  BY IdsFacts DEF ObjectType
<1>2. CASE objects[i].class = "object"
  <2>1. \A k \in 1..objects[i].count : k - 1 < objects[i].count
    BY <1>1
  <2>2. [k \in 1..objects[i].count |-> get_field(i, k - 1)] = FieldsIn(fields_arena, objects[i])
    BY <2>1 DEF get_field, FieldsIn
  <2> QED
    BY <1>2, <2>2 DEF Content, Seen, Java!Plain
<1>3. CASE objects[i].class = "list"
  <2>1. list_slots(i) = IF Owns(fields_arena, objects[i])
                        THEN list_bufs[BufIn(fields_arena, objects[i])].elems ELSE <<>>
    BY GetField DEF list_slots
  <2>2. list_mod_count(i) = IF Owns(fields_arena, objects[i])
                            THEN list_bufs[BufIn(fields_arena, objects[i])].mods ELSE 0
    BY GetField DEF list_mod_count
  <2> QED
    BY <1>3, <2>1, <2>2 DEF Content, Seen, SeenList, Java!List
<1>4. CASE objects[i].class = "iterator"
  BY <1>4 DEF Content, Seen, SeenIterator
<1> QED
  BY <1>1, <1>2, <1>3, <1>4 DEF Classes

\* The same after a step.
LEMMA ContentNext ==
    ASSUME NEW i \in Ids, objects'[i] \in ObjectType, objects'[i].live
    PROVE  Content(i)' = Seen(fields_arena', objects'[i], list_bufs', iter_states'[i])
<1>1. objects'[i].class \in Classes /\ objects'[i].count \in Nat
  BY IdsFacts DEF ObjectType
<1>2. CASE objects'[i].class = "object"
  <2>1. \A k \in 1..objects'[i].count : k - 1 < objects'[i].count
    BY <1>1
  <2>2. [k \in 1..objects'[i].count |-> get_field(i, k - 1)'] = FieldsIn(fields_arena', objects'[i])
    BY <2>1 DEF get_field, FieldsIn
  <2> QED
    BY <1>2, <2>2 DEF Content, Seen, Java!Plain
<1>3. CASE objects'[i].class = "list"
  <2>0. /\ HasBuf(i)' <=> Owns(fields_arena', objects'[i])
        /\ BufOf(i)' = BufIn(fields_arena', objects'[i])
    BY DEF get_field, FirstOf, HasBuf, Owns, BufOf, BufIn
  <2>1. list_slots(i)' = IF Owns(fields_arena', objects'[i])
                         THEN list_bufs'[BufIn(fields_arena', objects'[i])].elems ELSE <<>>
    BY <2>0 DEF list_slots
  <2>2. list_mod_count(i)' = IF Owns(fields_arena', objects'[i])
                             THEN list_bufs'[BufIn(fields_arena', objects'[i])].mods ELSE 0
    BY <2>0 DEF list_mod_count
  <2> QED
    BY <1>3, <2>1, <2>2 DEF Content, Seen, SeenList, Java!List
<1>4. CASE objects'[i].class = "iterator"
  BY <1>4 DEF Content, Seen, SeenIterator
<1> QED
  BY <1>1, <1>2, <1>3, <1>4 DEF Classes

\* What a step leaves of an object: its fields, its buffer, its state.
LEMMA ObjectKept ==
    ASSUME NEW j \in Ids, objects[j] \in ObjectType, objects'[j] \in ObjectType,
           objects[j].live, objects'[j].live, objects'[j].class = objects[j].class,
           objects'[j].count = objects[j].count,
           \A f \in 0..(objects[j].count - 1) :
              fields_arena'[objects'[j].off + f] = fields_arena[objects[j].off + f],
           Owns(fields_arena, objects[j]) =>
              list_bufs'[BufIn(fields_arena, objects[j])] = list_bufs[BufIn(fields_arena, objects[j])],
           objects[j].class = "iterator" => iter_states'[j] = iter_states[j]
    PROVE  Content(j)' = Content(j)
<1> DEFINE o == objects[j]
           p == objects'[j]
           a == fields_arena
           b == fields_arena'
<1>1. o.count \in Nat /\ o.class \in Classes
  BY IdsFacts DEF ObjectType
<1>2. /\ o \in ObjectType /\ p \in ObjectType /\ p.count = o.count /\ p.class = o.class
      /\ p.live = o.live /\ \A f \in 0..(o.count - 1) : b[p.off + f] = a[o.off + f]
  OBVIOUS
<1>3. BufIn(b, p) = BufIn(a, o) /\ (Owns(b, p) <=> Owns(a, o))
  <2> HIDE DEF a, b, o, p
  <2> QED
    BY <1>2, SameContent
<1>4. FieldsIn(b, p) = FieldsIn(a, o)
  <2>1. \A k \in 1..o.count : b[p.off + (k - 1)] = a[o.off + (k - 1)]
    BY <1>1, <1>2
  <2> HIDE DEF a, b, o, p
  <2> QED
    BY <1>2, <2>1 DEF FieldsIn
<1>5. Seen(b, p, list_bufs', iter_states'[j]) = Seen(a, o, list_bufs, iter_states[j])
  BY <1>1, <1>3, <1>4 DEF Seen, SeenList, Classes
<1> QED
  BY <1>5, ContentIs, ContentNext

-----------------------------------------------------------------------------
(* What a step shows of objects and roots. *)

\* No object shows a change.
LEMMA HeapKept ==
    ASSUME LiveIds' = LiveIds, \A j \in LiveIds : Content(j)' = Content(j)
    PROVE  heapSeen' = heapSeen
BY DEF heapSeen

\* One object shows a change, or two.
LEMMA HeapChanged ==
    ASSUME LiveIds' = LiveIds, NEW i \in LiveIds, NEW o, Content(i)' = o,
           \A j \in LiveIds \ {i} : Content(j)' = Content(j)
    PROVE  heapSeen' = [heapSeen EXCEPT ![i] = o]
BY DEF heapSeen

\* An object comes, an object goes.
LEMMA HeapGains ==
    ASSUME NEW i \in Ids, NEW o, LiveIds' = LiveIds \cup {i}, Content(i)' = o, i \notin LiveIds,
           \A j \in LiveIds : Content(j)' = Content(j)
    PROVE  heapSeen' = [j \in DOMAIN heapSeen \cup {i} |-> IF j = i THEN o ELSE heapSeen[j]]
BY DEF heapSeen

LEMMA HeapLoses ==
    ASSUME NEW i \in LiveIds, LiveIds' = LiveIds \ {i},
           \A j \in LiveIds' : Content(j)' = Content(j)
    PROVE  heapSeen' = [j \in DOMAIN heapSeen \ {i} |-> heapSeen[j]]
BY DEF heapSeen

LEMMA SeenAt ==
    /\ DOMAIN heapSeen = LiveIds /\ \A i \in LiveIds : heapSeen[i] = Content(i)
    /\ DOMAIN rootsSeen = Tasks
    /\ \A t \in Tasks : rootsSeen[t] = frames[t] \cup {upcalls[t][k].value : k \in DOMAIN upcalls[t]}
BY DEF heapSeen, rootsSeen

LEMMA RootsKept ==
    ASSUME frames' = frames, upcalls' = upcalls
    PROVE  rootsSeen' = rootsSeen
BY DEF rootsSeen

\* A frame takes what it refers to.
LEMMA TargetsAgree ==
    ASSUME NEW v
    PROVE  Java!Targets(<<v>>) = Targets({v})
<1>1. DOMAIN <<v>> = {1} /\ <<v>>[1] = v
  OBVIOUS
<1>2. Java!Targets(<<v>>) = IF v[1] = "ref" THEN {v[2]} ELSE {}
  BY <1>1 DEF Java!Targets
<1>3. Targets({v}) = IF v[1] = "ref" THEN {v[2]} ELSE {}
  BY DEF Targets
<1> QED
  BY <1>2, <1>3

LEMMA HoldSeen ==
    ASSUME NEW t \in Tasks, NEW v, frames \in [Tasks -> SUBSET Ids], Hold(t, v), upcalls' = upcalls
    PROVE  Java!Hold(t, v)
<1> DEFINE U(u) == {upcalls[u][k].value : k \in DOMAIN upcalls[u]}
<1>1. frames' = [frames EXCEPT ![t] = @ \cup Targets({v})]
  BY DEF Hold
<1>2. frames'[t] = frames[t] \cup Targets({v}) /\ \A u \in Tasks \ {t} : frames'[u] = frames[u]
  BY <1>1
<1>3. rootsSeen = [u \in Tasks |-> frames[u] \cup U(u)]
  BY DEF rootsSeen
<1>4. rootsSeen' = [u \in Tasks |-> frames'[u] \cup U(u)]
  BY DEF rootsSeen
<1> HIDE DEF U
<1>5. rootsSeen' = [rootsSeen EXCEPT ![t] = @ \cup Targets({v})]
  BY <1>2, <1>3, <1>4
<1> QED
  BY <1>5, TargetsAgree DEF Java!Hold

\* Between collections and within them, what is live is typed.
LEMMA LiveFacts ==
    ASSUME IInv
    PROVE  /\ LiveIds \subseteq Ids /\ TypeOK /\ SpansInv /\ ListsInv /\ IterInv
           /\ objects \in [Ids -> ObjectType] /\ frames \in [Tasks -> SUBSET Ids]
           /\ \A i \in LiveIds : objects[i] \in ObjectType /\ objects[i].live
           /\ phase # "sweep" => \A t \in Tasks : frames[t] \subseteq LiveIds
BY DEF IInv, Store, TypeOK, ObjectType, LiveIds, RefsInv

-----------------------------------------------------------------------------
(* The steps of the collector, but for the sweep. *)

LEMMA QuietSeen ==
    ASSUME IInv, UNCHANGED <<store, sides, frames, natives>>
    PROVE  UNCHANGED Java!vars
<1>1. /\ objects' = objects /\ fields_arena' = fields_arena /\ list_bufs' = list_bufs
      /\ iter_states' = iter_states /\ frames' = frames /\ upcalls' = upcalls
  BY DEF store, sides, natives
<1>2. LiveIds' = LiveIds
  BY <1>1 DEF LiveIds
<1>3. ASSUME NEW j \in LiveIds PROVE Content(j)' = Content(j)
  BY <1>1, <1>3, LiveFacts, ObjectKept
<1> QED
  BY <1>1, <1>2, <1>3, HeapKept, RootsKept DEF Java!vars

\* A step that moves spans: each object has its fields at the new place.
LEMMA MovedSeen ==
    ASSUME IInv, IInv', UNCHANGED <<sides, frames, natives>>,
           \A j \in Ids : /\ objects'[j].live = objects[j].live
                          /\ objects[j].live => /\ objects'[j].class = objects[j].class
                                                /\ objects'[j].count = objects[j].count,
           \A j \in LiveIds : \A f \in 0..(objects[j].count - 1) :
              fields_arena'[objects'[j].off + f] = fields_arena[objects[j].off + f]
    PROVE  UNCHANGED Java!vars
<1>1. /\ list_bufs' = list_bufs /\ iter_states' = iter_states /\ frames' = frames
      /\ upcalls' = upcalls
  BY DEF sides, natives
<1>2. LiveIds' = LiveIds
  BY DEF LiveIds
<1>3. ASSUME NEW j \in LiveIds PROVE Content(j)' = Content(j)
  <2>1. j \in Ids /\ objects[j] \in ObjectType /\ objects[j].live /\ objects'[j].live
    BY <1>3, LiveFacts
  <2>2. objects'[j] \in ObjectType
    BY <2>1 DEF IInv, TypeOK, ObjectType
  <2> QED
    BY <1>1, <2>1, <2>2, ObjectKept
<1> QED
  BY <1>1, <1>2, <1>3, HeapKept, RootsKept DEF Java!vars

LEMMA CollectorSeen ==
    ASSUME IInv, IInv', ScanRoots \/ Mark \/ GiveUp \/ EndMark \/ EndSweep \/ NextSlice
    PROVE  UNCHANGED Java!vars
<1>1. UNCHANGED <<store, sides, frames, natives>>
  BY DEF ScanRoots, Mark, GiveUp, EndMark, EndSweep, NextSlice
<1> QED
  BY <1>1, QuietSeen

LEMMA SlidesSeen ==
    ASSUME IInv, IInv', Slide \/ EndSlide
    PROVE  UNCHANGED Java!vars
<1>1. SpansKept
  BY SlideStep, EndSlideStep
<1>2. UNCHANGED <<sides, frames, natives>>
  BY DEF Slide, EndSlide
<1>3. \A j \in LiveIds : j \in Ids /\ objects[j].live
  BY DEF LiveIds
<1> QED
  BY <1>1, <1>2, <1>3, MovedSeen DEF SpansKept

LEMMA RefusedSeen ==
    ASSUME NoEmptyRefusals, IInv, IInv', NEW n \in Nat, Refused(n)
    PROVE  UNCHANGED Java!vars
<1>1. /\ \A j \in LiveIds : j \in Ids /\ objects[j].live
      /\ objects' = objects /\ UNCHANGED <<sides, frames, natives>>
  BY DEF LiveIds, Refused
<1>2. ASSUME NEW j \in LiveIds, NEW f \in 0..(objects[j].count - 1)
      PROVE  fields_arena'[objects'[j].off + f] = fields_arena[objects[j].off + f]
  <2>1. f \in 0..(objects[j].cap - 1)
    BY <1>1, <1>2, LiveFacts, SpanFacts
  <2> QED
    BY <1>1, <2>1, RefusedFields
<1> QED
  BY <1>1, <1>2, MovedSeen

-----------------------------------------------------------------------------
(* The sweep: an object goes only when nothing reaches it. *)

\* A live iterator has its state.
RegisteredInv == \A i \in Ids :
    objects[i].live /\ objects[i].class = "iterator" => iter_states[i].used

\* What the program can follow from an object is what the collector follows.
LEMMA RefersSeen ==
    ASSUME IInv, RegisteredInv, NEW j \in LiveIds, phase = "sweep" => j \in marks,
           NEW x \in Java!Refers(Content(j))
    PROVE  x \in Ids /\ Refers(fields_arena, objects[j], list_bufs, iter_states[j], x)
<1> DEFINE a == fields_arena
           o == objects[j]
<1>1. /\ j \in Ids /\ o \in ObjectType /\ o.live /\ TypeOK /\ SpansInv /\ IterInv
      /\ o.class \in Classes /\ list_bufs \in [Bufs -> BufType]
  BY LiveFacts DEF IInv, SideTypes, ObjectType
<1>2. o.count \in Nat /\ o.cap \in Nat /\ o.count <= o.cap
  BY <1>1, SpanFacts
<1>3. Content(j) = Seen(a, o, list_bufs, iter_states[j])
  BY <1>1, ContentIs
<1>4. CASE o.class = "object"
  <2>1. x \in Java!Targets(FieldsIn(a, o))
    BY <1>3, <1>4 DEF Seen, Java!Refers, Java!Plain
  <2>2. PICK k \in 1..o.count : a[o.off + (k - 1)][1] = "ref" /\ x = a[o.off + (k - 1)][2]
    BY <2>1 DEF Java!Targets, FieldsIn
  <2>3. k - 1 \in 0..(o.count - 1) /\ k - 1 \in 0..(o.cap - 1)
    BY <1>2, <2>2
  <2>4. a[o.off + (k - 1)] \in Slots
    BY <1>1, <2>3, FieldFacts
  <2>5. x \in Ids /\ a[o.off + (k - 1)] = Ref(x)
    BY <2>2, <2>4, SlotFacts
  <2> QED
    BY <2>3, <2>5 DEF Refers, RefIn
<1>5. CASE o.class = "list"
  <2>1. CASE Owns(a, o)
    <3> DEFINE e == list_bufs[BufIn(a, o)].elems
    <3>1. x \in Java!Targets(e)
      BY <1>3, <1>5, <2>1 DEF Seen, SeenList, Java!Refers, Java!List
    <3>2. PICK n \in DOMAIN e : e[n][1] = "ref" /\ x = e[n][2]
      BY <3>1 DEF Java!Targets
    <3>3. e \in Seq(Slots)
      BY <1>1, <2>1, OwnedBuf DEF BufType
    <3>4. e[n] \in Slots
      <4> HIDE DEF e
      <4> QED
        BY <3>2, <3>3
    <3>5. x \in Ids /\ e[n] = Ref(x)
      BY <3>2, <3>4, SlotFacts
    <3> QED
      BY <2>1, <3>2, <3>5 DEF Refers, ElemIn
  <2>2. CASE ~Owns(a, o)
    <3>1. x \in Java!Targets(<<>>)
      BY <1>3, <1>5, <2>2 DEF Seen, SeenList, Java!Refers, Java!List
    <3> QED
      BY <3>1 DEF Java!Targets
  <2> QED
    BY <2>1, <2>2
<1>6. CASE o.class = "iterator"
  <2>1. x = iter_states[j].owner
    BY <1>3, <1>6 DEF Seen, SeenIterator, Java!Refers
  <2>2. iter_states[j].used
    BY <1>1, <1>6 DEF RegisteredInv
  <2> QED
    BY <1>1, <2>1, <2>2 DEF IterInv, Refers, IterIn
<1> QED
  BY <1>1, <1>4, <1>5, <1>6 DEF Classes

LEMMA SweepSeen ==
    ASSUME IInv, IInv', RegisteredInv, Sweep
    PROVE  \E i \in LiveIds : Java!Reclaim(i)
<1> DEFINE i == Lowest(Unmarked)
<1>1. /\ phase = "sweep" /\ i \in Ids /\ objects[i].live /\ i \notin marks
      /\ objects'[i] = NoObject
      /\ \A j \in Ids \ {i} : objects'[j] = objects[j] /\ iter_states'[j] = iter_states[j]
      /\ fields_arena' = fields_arena /\ frames' = frames /\ upcalls' = upcalls
      /\ \A b \in Bufs : ~(Owns(fields_arena, objects[i]) /\ b = BufIn(fields_arena, objects[i]))
                         => list_bufs'[b] = list_bufs[b]
  BY SweptFacts DEF natives
<1>2. /\ \A j \in marks : j \in Ids /\ objects[j].live
      /\ RootsIn(marks) /\ ClosedFrom(marks, marks) /\ UpcallsInv
  BY <1>1 DEF IInv, TypeOK, Collector, SweepInv
<1> HIDE DEF i
<1>3. i \in LiveIds /\ LiveIds' = LiveIds \ {i} /\ marks \in SUBSET (LiveIds \ {i})
  BY <1>1, <1>2 DEF LiveIds, NoObject
<1>4. Java!Closed(marks)
  <2>1. ASSUME NEW t \in Tasks PROVE rootsSeen[t] \subseteq marks
    <3>1. frames[t] \subseteq marks
      BY <1>2 DEF RootsIn
    <3>2. ASSUME NEW k \in DOMAIN upcalls[t] PROVE upcalls[t][k].value \in marks
      BY <1>2, <3>2 DEF UpcallsInv, RootsIn
    <3> QED
      BY <3>1, <3>2, SeenAt
  <2>2. ASSUME NEW j \in marks, NEW x \in Java!Refers(heapSeen[j]) PROVE x \in marks
    <3>1. j \in LiveIds /\ heapSeen[j] = Content(j)
      BY <1>3, SeenAt
    <3>2. x \in Ids /\ Refers(fields_arena, objects[j], list_bufs, iter_states[j], x)
      BY <2>2, <3>1, RefersSeen
    <3> QED
      BY <1>2, <3>2 DEF ClosedFrom
  <2> QED
    BY <2>1, <2>2 DEF Java!Closed
<1>5. ASSUME NEW j \in LiveIds' PROVE Content(j)' = Content(j)
  <2>1. j \in LiveIds /\ j # i /\ j \in Ids /\ objects[j] \in ObjectType /\ objects[j].live
    BY <1>3, <1>5, LiveFacts
  <2>2. objects'[j] = objects[j] /\ iter_states'[j] = iter_states[j]
    BY <1>1, <2>1
  <2>3. Owns(fields_arena, objects[j]) =>
           list_bufs'[BufIn(fields_arena, objects[j])] = list_bufs[BufIn(fields_arena, objects[j])]
    <3>1. SUFFICES ASSUME Owns(fields_arena, objects[j])
                   PROVE  list_bufs'[BufIn(fields_arena, objects[j])]
                            = list_bufs[BufIn(fields_arena, objects[j])]
      OBVIOUS
    <3>2. BufIn(fields_arena, objects[j]) \in Bufs
      BY <2>1, <3>1, LiveFacts, OwnedBuf
    <3>3. ~(/\ Owns(fields_arena, objects[i])
            /\ BufIn(fields_arena, objects[j]) = BufIn(fields_arena, objects[i]))
      BY <1>1, <2>1, <3>1, LiveFacts DEF ListsInv
    <3> QED
      BY <1>1, <3>2, <3>3
  <2> QED
    BY <1>1, <2>1, <2>2, <2>3, ObjectKept
<1>6. heapSeen' = [j \in DOMAIN heapSeen \ {i} |-> heapSeen[j]]
  BY <1>3, <1>5, HeapLoses
<1>7. rootsSeen' = rootsSeen
  BY <1>1, RootsKept
<1> QED
  BY <1>3, <1>4, <1>6, <1>7, SeenAt DEF Java!Reclaim

-----------------------------------------------------------------------------
(* The steps of a task that leave the heap alone. *)

\* A step that the program does not see, or one of its own.
Shown == Java!Step \/ UNCHANGED Java!vars

LEMMA ObjectSeen ==
    ASSUME IInv, NEW i \in LiveIds
    PROVE  /\ heapSeen[i] = Content(i) /\ heapSeen[i].class = objects[i].class
           /\ objects[i].class = "object" =>
                 /\ heapSeen[i] = Java!Plain(FieldsIn(fields_arena, objects[i]))
                 /\ heapSeen[i].fields = FieldsIn(fields_arena, objects[i])
           /\ objects[i].class = "list" =>
                 /\ heapSeen[i] = Java!List(list_slots(i), list_mod_count(i))
                 /\ heapSeen[i].elems = list_slots(i) /\ heapSeen[i].mods = list_mod_count(i)
           /\ objects[i].class = "iterator" => heapSeen[i] = SeenIterator(iter_states[i])
<1>1. objects[i].class \in Classes /\ objects[i] \in ObjectType /\ objects[i].live /\ i \in Ids
  BY LiveFacts DEF ObjectType
<1>2. heapSeen[i] = Content(i)
  BY SeenAt
<1>3. CASE objects[i].class = "object"
  <2>1. Content(i) = Java!Plain(FieldsIn(fields_arena, objects[i]))
    BY <1>1, <1>3, ContentIs DEF Seen
  <2> QED
    BY <1>2, <1>3, <2>1 DEF Java!Plain
<1>4. CASE objects[i].class = "list"
  <2>1. Content(i) = Java!List(list_slots(i), list_mod_count(i))
    BY <1>4 DEF Content, Java!List
  <2> QED
    BY <1>2, <1>4, <2>1 DEF Java!List
<1>5. CASE objects[i].class = "iterator"
  <2>1. Content(i) = SeenIterator(iter_states[i])
    BY <1>5 DEF Content, SeenIterator
  <2> QED
    BY <1>2, <1>5, <2>1 DEF SeenIterator
<1> QED
  BY <1>1, <1>3, <1>4, <1>5 DEF Classes

\* What a task does with an object that one of its frames refers to.
LEMMA StepOf ==
    ASSUME IInv, phase = "idle", NEW t \in Tasks, NEW i \in frames[t],
           \/ objects[i].class = "object" /\ Java!OnObject(t, i)
           \/ objects[i].class = "list" /\ Java!OnList(t, i)
           \/ objects[i].class = "iterator" /\ Java!OnIterator(t, i)
           \/ Java!Drop(t, i)
           \/ \E u \in Tasks : Java!Pass(i, u)
    PROVE  Java!Step
<1>1. i \in LiveIds /\ i \in rootsSeen[t]
  BY LiveFacts, SeenAt
<1>2. heapSeen[i].class = objects[i].class
  BY <1>1, ObjectSeen
<1> QED
  BY <1>1, <1>2 DEF Java!Step

\* A step of the roots alone.
LEMMA SameHeap ==
    ASSUME IInv, UNCHANGED <<store, sides>>
    PROVE  heapSeen' = heapSeen
<1>1. /\ objects' = objects /\ fields_arena' = fields_arena /\ list_bufs' = list_bufs
      /\ iter_states' = iter_states
  BY DEF store, sides
<1>2. LiveIds' = LiveIds
  BY <1>1 DEF LiveIds
<1>3. ASSUME NEW j \in LiveIds PROVE Content(j)' = Content(j)
  BY <1>1, <1>3, LiveFacts, ObjectKept
<1> QED
  BY <1>2, <1>3, HeapKept

LEMMA GetSeen ==
    ASSUME IInv, phase = "idle", NEW t \in Tasks, NEW i \in frames[t], Get(t, i)
    PROVE  Java!Step
<1>1. objects[i].class = "object" /\ UNCHANGED <<store, sides, natives, gc>>
  BY DEF Get
<1>2. PICK f \in 0..(MaxSpan - 1) : Hold(t, get_field(i, f))
  BY DEF Get
<1>3. i \in LiveIds /\ objects[i] \in ObjectType /\ objects[i].live /\ frames \in [Tasks -> SUBSET Ids]
  BY LiveFacts
<1>4. f \in Nat /\ f + 1 \in 1..MaxSpan /\ objects[i].count \in Nat
  BY <1>3, IdsFacts DEF ObjectType
<1>5. Java!At(heapSeen[i].fields, f + 1) = get_field(i, f)
  <2> DEFINE s == FieldsIn(fields_arena, objects[i])
  <2>1. heapSeen[i].fields = s
    BY <1>1, <1>3, ObjectSeen
  <2>2. DOMAIN s = 1..objects[i].count /\ \A k \in 1..objects[i].count :
           s[k] = fields_arena[objects[i].off + (k - 1)]
    BY DEF FieldsIn
  <2> HIDE DEF s
  <2>3. f + 1 \in DOMAIN s <=> f < objects[i].count
    BY <1>4, <2>2
  <2>4. f + 1 \in DOMAIN s => s[f + 1] = fields_arena[objects[i].off + f]
    <3>1. (f + 1) - 1 = f
      BY <1>4
    <3> QED
      BY <2>2, <3>1
  <2> QED
    BY <1>3, <2>1, <2>3, <2>4 DEF Java!At, get_field, Java!Null, Null
<1>6. Java!Hold(t, get_field(i, f))
  BY <1>1, <1>2, <1>3, HoldSeen DEF natives
<1>7. Java!Get(t, i, f + 1)
  BY <1>1, <1>5, <1>6, SameHeap DEF Java!Get
<1>8. Java!OnObject(t, i)
  BY <1>4, <1>7 DEF Java!OnObject
<1> QED
  BY <1>1, <1>8, StepOf

LEMMA ElementSeen ==
    ASSUME IInv, phase = "idle", NEW t \in Tasks, NEW i \in frames[t], Element(t, i)
    PROVE  Java!Step
<1>1. HasBuf(i) /\ objects[i].class = "list" /\ UNCHANGED <<store, sides, natives, gc>>
  BY DEF Element, HasBuf
<1>2. PICK n \in DOMAIN list_slots(i) : Hold(t, list_slots(i)[n])
  BY DEF Element
<1>3. i \in LiveIds /\ i \in Ids /\ objects[i].live /\ frames \in [Tasks -> SUBSET Ids]
  BY LiveFacts
<1>4. heapSeen[i].elems = list_slots(i)
  BY <1>1, <1>3, ObjectSeen
<1>5. n \in 1..Len(list_slots(i))
  BY <1>1, <1>3, ListFacts, LenProperties
<1>6. Java!Element(t, i, n)
  <2>1. Java!Hold(t, list_slots(i)[n])
    BY <1>1, <1>2, <1>3, HoldSeen DEF natives
  <2> QED
    BY <1>1, <1>4, <2>1, SameHeap DEF Java!Element, Java!At
<1>7. Java!OnList(t, i)
  BY <1>4, <1>5, <1>6 DEF Java!OnList
<1> QED
  BY <1>1, <1>7, StepOf

LEMMA PassSeen ==
    ASSUME IInv, phase = "idle", NEW t \in Tasks, NEW i \in frames[t], NEW u \in Tasks, Pass(t, i, u)
    PROVE  Java!Step
<1>1. Hold(u, Ref(i)) /\ UNCHANGED <<store, sides, natives, gc>>
  BY DEF Pass
<1>2. Java!Hold(u, Java!Ref(i))
  BY <1>1, LiveFacts, HoldSeen DEF natives, Ref, Java!Ref
<1>3. Java!Pass(i, u)
  BY <1>1, <1>2, SameHeap DEF Java!Pass
<1> QED
  BY <1>3, StepOf

\* What a native holds stays when the frame drops it.
LEMMA DropSeen ==
    ASSUME IInv, phase = "idle", NEW t \in Tasks, NEW i \in frames[t], Drop(t, i)
    PROVE  Shown
<1> DEFINE U(u) == {upcalls[u][k].value : k \in DOMAIN upcalls[u]}
<1>1. /\ frames' = [frames EXCEPT ![t] = @ \ {i}] /\ frames \in [Tasks -> SUBSET Ids]
      /\ upcalls' = upcalls /\ heapSeen' = heapSeen
  BY LiveFacts, SameHeap DEF Drop, natives
<1>2. frames'[t] = frames[t] \ {i} /\ \A u \in Tasks \ {t} : frames'[u] = frames[u]
  BY <1>1
<1>3. /\ rootsSeen = [u \in Tasks |-> frames[u] \cup U(u)]
      /\ rootsSeen' = [u \in Tasks |-> frames'[u] \cup U(u)]
  BY <1>1 DEF rootsSeen
<1> HIDE DEF U
<1>4. CASE i \in U(t)
  <2>1. \A u \in Tasks : frames'[u] \cup U(u) = frames[u] \cup U(u)
    BY <1>2, <1>4
  <2> QED
    BY <1>1, <1>3, <2>1 DEF Shown, Java!vars
<1>5. CASE i \notin U(t)
  <2>1. rootsSeen' = [rootsSeen EXCEPT ![t] = @ \ {i}]
    BY <1>2, <1>3, <1>5
  <2>2. Java!Drop(t, i)
    BY <1>1, <2>1 DEF Java!Drop
  <2> QED
    BY <2>2, StepOf DEF Shown
<1> QED
  BY <1>4, <1>5

LEMMA UpcallSeen ==
    ASSUME IInv, phase = "idle", NEW t \in Tasks, NEW i \in frames[t], Upcall(t, i)
    PROVE  Shown
<1> DEFINE r == [value |-> i, mark |-> Len(shadow_roots)]
           s == upcalls[t]
           q == Append(s, r)
<1>1. upcalls' = [upcalls EXCEPT ![t] = q] /\ frames' = frames /\ UNCHANGED <<store, sides>>
  BY DEF Upcall
<1>2. s \in Seq(UpcallType) /\ r \in UpcallType /\ upcalls \in [Tasks -> Seq(UpcallType)]
  BY UpcallFacts, FramesKeep DEF UpcallType
<1>3. r.value = i /\ upcalls'[t] = q /\ \A u \in Tasks \ {t} : upcalls'[u] = upcalls[u]
  BY <1>1, <1>2
<1> HIDE DEF r, q
<1>4. DOMAIN s = 1..Len(s) /\ Len(s) \in Nat
  BY <1>2, SeqFacts
<1>5. DOMAIN q = 1..(Len(s) + 1) /\ q[Len(s) + 1] = r /\ \A k \in 1..Len(s) : q[k] = s[k]
  BY <1>2, AppendFacts DEF q
<1> HIDE DEF s
<1>6. {q[k].value : k \in DOMAIN q} = {s[k].value : k \in DOMAIN s} \cup {i}
  BY <1>3, <1>4, <1>5
<1>7. \A u \in Tasks : frames'[u] \cup {upcalls'[u][k].value : k \in DOMAIN upcalls'[u]}
                         = frames[u] \cup {upcalls[u][k].value : k \in DOMAIN upcalls[u]}
  BY <1>1, <1>3, <1>6 DEF s
<1>8. rootsSeen' = rootsSeen
  BY <1>7 DEF rootsSeen
<1> QED
  BY <1>1, <1>8, SameHeap DEF Shown, Java!vars

\* The value moves from the native to the frame that goes on with it.
LEMMA ReturnSeen ==
    ASSUME IInv, phase = "idle", NEW t \in Tasks, Return(t)
    PROVE  Shown
<1> DEFINE s == upcalls[t]
           q == SubSeq(s, 1, Len(s) - 1)
           i == s[Len(s)].value
<1>1. /\ upcalls' = [upcalls EXCEPT ![t] = q] /\ s # <<>> /\ Hold(t, Ref(i))
      /\ UNCHANGED <<store, sides>>
  BY DEF Return, Newest
<1>2. /\ s \in Seq(UpcallType) /\ upcalls \in [Tasks -> Seq(UpcallType)]
      /\ \A k \in DOMAIN s : s[k].value \in Ids
  BY UpcallFacts
<1>3. upcalls'[t] = q /\ \A u \in Tasks \ {t} : upcalls'[u] = upcalls[u]
  BY <1>1, <1>2
<1>4. DOMAIN s = 1..Len(s) /\ Len(s) \in Nat
  BY <1>2, SeqFacts
<1> HIDE DEF s
<1>5. DOMAIN q = 1..(Len(s) - 1) /\ Len(s) > 0 /\ \A k \in 1..(Len(s) - 1) : q[k] = s[k]
  BY <1>1, <1>2, FrontFacts
<1> HIDE DEF q
<1>6. {s[k].value : k \in DOMAIN s} = {q[k].value : k \in DOMAIN q} \cup {i}
  <2>1. \A n \in Nat : \A k \in 1..n : k \in 1..(n - 1) \/ k = n
    OBVIOUS
  <2>2. Len(s) \in 1..Len(s) /\ \A k \in 1..(Len(s) - 1) : k \in 1..Len(s)
    BY <1>4, <1>5
  <2>3. ASSUME NEW k \in DOMAIN s PROVE k \in DOMAIN q \/ k = Len(s)
    BY <1>4, <1>5, <2>1, <2>3
  <2>4. \A k \in DOMAIN q : k \in DOMAIN s /\ q[k] = s[k]
    BY <1>4, <1>5, <2>2
  <2>5. Len(s) \in DOMAIN s
    BY <1>4, <2>2
  <2> HIDE DEF i
  <2>6. \A k \in DOMAIN s : s[k].value \in {q[j].value : j \in DOMAIN q} \cup {i}
    BY <2>3, <2>4 DEF i
  <2>7. \A k \in DOMAIN q : q[k].value \in {s[j].value : j \in DOMAIN s}
    BY <2>4
  <2>8. i \in {s[j].value : j \in DOMAIN s}
    BY <2>5 DEF i
  <2> QED
    BY <2>6, <2>7, <2>8
<1>7. frames' = [frames EXCEPT ![t] = @ \cup {i}] /\ frames \in [Tasks -> SUBSET Ids]
  <2>1. Len(s) \in DOMAIN s /\ i \in Ids
    BY <1>2, <1>4, <1>5
  <2> QED
    BY <1>1, <2>1, HoldRef, LiveFacts DEF Hold
<1>8. frames'[t] = frames[t] \cup {i} /\ \A u \in Tasks \ {t} : frames'[u] = frames[u]
  BY <1>7
<1> HIDE DEF i
<1>9. \A u \in Tasks : frames'[u] \cup {upcalls'[u][k].value : k \in DOMAIN upcalls'[u]}
                         = frames[u] \cup {upcalls[u][k].value : k \in DOMAIN upcalls[u]}
  BY <1>3, <1>6, <1>8 DEF s
<1>10. rootsSeen' = rootsSeen
  BY <1>9 DEF rootsSeen
<1> QED
  BY <1>1, <1>10, SameHeap DEF Shown, Java!vars

-----------------------------------------------------------------------------
(* Lists. *)

\* An edit of the buffer of l is seen in l and nowhere else.
LEMMA BufferSeen ==
    ASSUME IInv, UNCHANGED store, NEW l \in LiveIds, HasBuf(l),
           \A b \in Bufs \ {BufOf(l)} : list_bufs'[b] = list_bufs[b]
    PROVE  /\ LiveIds' = LiveIds
           /\ Content(l)' = Java!List(list_bufs'[BufOf(l)].elems, list_bufs'[BufOf(l)].mods)
           /\ \A j \in LiveIds \ {l} :
                 (objects[j].class = "iterator" => iter_states'[j] = iter_states[j])
                 => Content(j)' = Content(j)
<1>1. objects' = objects /\ fields_arena' = fields_arena
  BY DEF store
<1>2. LiveIds' = LiveIds
  BY <1>1 DEF LiveIds
<1>3. /\ l \in Ids /\ objects[l] \in ObjectType /\ objects[l].live
      /\ Owns(fields_arena, objects[l]) /\ BufOf(l) = BufIn(fields_arena, objects[l])
      /\ objects[l].class = "list"
  BY LiveFacts, GetField DEF HasBuf
<1>4. Content(l)' = Java!List(list_bufs'[BufOf(l)].elems, list_bufs'[BufOf(l)].mods)
  <2>1. Content(l)' = Seen(fields_arena, objects[l], list_bufs', iter_states'[l])
    BY <1>1, <1>3, ContentNext
  <2> QED
    BY <1>3, <2>1 DEF Seen, SeenList
<1>5. ASSUME NEW j \in LiveIds \ {l}, objects[j].class = "iterator" => iter_states'[j] = iter_states[j]
      PROVE  Content(j)' = Content(j)
  <2>1. j \in Ids /\ objects[j] \in ObjectType /\ objects[j].live
    BY LiveFacts
  <2>2. Owns(fields_arena, objects[j]) =>
           /\ BufIn(fields_arena, objects[j]) \in Bufs
           /\ BufIn(fields_arena, objects[j]) # BufOf(l)
    BY <1>3, <1>5, <2>1, LiveFacts, OwnedBuf DEF ListsInv
  <2>3. Owns(fields_arena, objects[j]) =>
           list_bufs'[BufIn(fields_arena, objects[j])] = list_bufs[BufIn(fields_arena, objects[j])]
    BY <2>2
  <2> QED
    BY <1>1, <1>5, <2>1, <2>3, ObjectKept
<1> QED
  BY <1>2, <1>4, <1>5

LEMMA EditSeen ==
    ASSUME IInv, UNCHANGED <<store, iter_states, frames, natives>>, NEW l \in LiveIds, HasBuf(l),
           \A b \in Bufs \ {BufOf(l)} : list_bufs'[b] = list_bufs[b],
           NEW e, NEW m, list_bufs'[BufOf(l)].elems = e, list_bufs'[BufOf(l)].mods = m
    PROVE  Java!Change(l, Java!List(e, m))
<1>1. /\ LiveIds' = LiveIds /\ Content(l)' = Java!List(e, m)
      /\ \A j \in LiveIds \ {l} : Content(j)' = Content(j)
  BY BufferSeen
<1>2. heapSeen' = [heapSeen EXCEPT ![l] = Java!List(e, m)]
  BY <1>1, HeapChanged
<1>3. rootsSeen' = rootsSeen
  BY RootsKept DEF natives
<1> QED
  BY <1>2, <1>3 DEF Java!Change

\* What a task may store, it refers to.
LEMMA ValuesSeen ==
    ASSUME NEW t \in Tasks
    PROVE  Values(t) \subseteq Java!Values(t)
<1>1. frames[t] \subseteq rootsSeen[t]
  BY SeenAt
<1> QED
  BY <1>1 DEF Values, Java!Values, Null, Java!Null, Ref, Java!Ref

LEMMA EditListSeen ==
    ASSUME IInv, phase = "idle", NEW t \in Tasks, NEW i \in frames[t], EditList(t, i)
    PROVE  Java!Step
<1> DEFINE s == list_slots(i)
           m == list_mod_count(i)
<1>1. HasBuf(i) /\ objects[i].class = "list" /\ UNCHANGED <<store, iter_states, frames, natives>>
  BY DEF EditList, HasBuf
<1>2. i \in LiveIds /\ i \in Ids /\ objects[i].live
  BY LiveFacts
<1>3. /\ BufOf(i) \in Bufs /\ list_bufs[BufOf(i)] \in BufType /\ s \in Seq(Slots)
      /\ m = list_bufs[BufOf(i)].mods
  BY <1>1, <1>2, ListFacts
<1>4. list_bufs \in [Bufs -> BufType]
  BY DEF IInv, SideTypes
<1>5. heapSeen[i].elems = s /\ heapSeen[i].mods = m
  BY <1>1, <1>2, ObjectSeen
<1>6. Len(s) \in Nat /\ DOMAIN s = 1..Len(s)
  BY <1>3, LenProperties
<1> HIDE DEF s, m
<1>7. ASSUME NEW e, list_bufs' = Edited(BufOf(i), e)
      PROVE  Java!Change(i, Java!List(e, m + 1))
  <2>1. /\ list_bufs'[BufOf(i)].elems = e /\ list_bufs'[BufOf(i)].mods = m + 1
        /\ \A b \in Bufs \ {BufOf(i)} : list_bufs'[b] = list_bufs[b]
    BY <1>3, <1>4, <1>7 DEF Edited, BufType
  <2> QED
    BY <1>1, <1>2, <2>1, EditSeen
<1>8. CASE \E v \in Values(t), n \in 0..Len(s) : list_bufs' = Edited(BufOf(i), With(s, n, v))
  <2>1. PICK v \in Values(t), n \in 0..Len(s) : list_bufs' = Edited(BufOf(i), With(s, n, v))
    BY <1>8
  <2>2. Java!Insert(i, n, v)
    BY <1>5, <1>7, <2>1 DEF Java!Insert, Java!With, With
  <2>3. v \in Java!Values(t)
    BY <2>1, ValuesSeen
  <2> QED
    BY <1>1, <1>5, <2>1, <2>2, <2>3, StepOf DEF Java!OnList
<1>9. CASE \E n \in DOMAIN s : list_bufs' = Edited(BufOf(i), Without(s, n))
  <2>1. PICK n \in 1..Len(s) : list_bufs' = Edited(BufOf(i), Without(s, n))
    BY <1>6, <1>9
  <2>2. Java!Remove(i, n)
    BY <1>5, <1>7, <2>1 DEF Java!Remove, Java!Without, Without
  <2> QED
    BY <1>1, <1>5, <2>1, <2>2, StepOf DEF Java!OnList
<1>10. CASE list_bufs' = Edited(BufOf(i), <<>>)
  <2>1. Java!Clear(i)
    BY <1>5, <1>7, <1>10 DEF Java!Clear
  <2> QED
    BY <1>1, <2>1, StepOf DEF Java!OnList
<1> QED
  BY <1>8, <1>9, <1>10 DEF EditList, s

LEMMA SetElementSeen ==
    ASSUME IInv, phase = "idle", NEW t \in Tasks, NEW i \in frames[t], SetElement(t, i)
    PROVE  Java!Step
<1> DEFINE s == list_slots(i)
           m == list_mod_count(i)
<1>1. HasBuf(i) /\ objects[i].class = "list" /\ UNCHANGED <<store, iter_states, frames, natives>>
  BY DEF SetElement, HasBuf
<1>2. i \in LiveIds /\ i \in Ids /\ objects[i].live
  BY LiveFacts
<1>3. /\ BufOf(i) \in Bufs /\ list_bufs[BufOf(i)] \in BufType /\ s \in Seq(Slots)
      /\ m = list_bufs[BufOf(i)].mods /\ s = list_bufs[BufOf(i)].elems
  BY <1>1, <1>2, ListFacts
<1>4. list_bufs \in [Bufs -> BufType]
  BY DEF IInv, SideTypes
<1>5. heapSeen[i].elems = s /\ heapSeen[i].mods = m
  BY <1>1, <1>2, ObjectSeen
<1>6. PICK n \in DOMAIN s, v \in Values(t) : list_bufs' = [list_bufs EXCEPT ![BufOf(i)].elems[n] = v]
  BY DEF SetElement
<1>7. n \in 0..Len(s) /\ v \in Java!Values(t)
  BY <1>3, <1>6, LenProperties, ValuesSeen
<1>8. /\ list_bufs'[BufOf(i)].elems = [s EXCEPT ![n] = v] /\ list_bufs'[BufOf(i)].mods = m
      /\ \A b \in Bufs \ {BufOf(i)} : list_bufs'[b] = list_bufs[b]
  BY <1>3, <1>4, <1>6 DEF BufType
<1>9. Java!Set(i, n, v)
  <2>1. Java!Change(i, Java!List([s EXCEPT ![n] = v], m))
    BY <1>1, <1>2, <1>8, EditSeen
  <2> QED
    BY <1>5, <1>6, <2>1 DEF Java!Set
<1> QED
  BY <1>1, <1>5, <1>7, <1>9, StepOf DEF Java!OnList

-----------------------------------------------------------------------------
(* Iterators. *)

\* How an iterator looks after a step of its own: next and remove.
SeenType == [class : {"iterator"}, of : Nat, last : Nat, position : Nat, expected : Nat]
Stepped(v, p) == [v EXCEPT !.position = @ + 1, !.last = p]
Rewound(v, p, l, e) == [v EXCEPT !.position = p, !.last = l, !.expected = e]

LEMMA IteratorFacts ==
    ASSUME NEW s \in IterType, NEW r \in IterType, NEW p \in Nat, NEW l \in Nat, NEW e \in Nat,
           r.owner = s.owner, r.position = p, r.last = l, r.expected = e
    PROVE  SeenIterator(r) = Rewound(SeenIterator(s), p, l, e)
<1>1. SeenIterator(s) \in SeenType /\ SeenIterator(r) \in SeenType
  BY DEF SeenIterator, IterType, SeenType
<1>2. /\ SeenIterator(s).of = s.owner /\ SeenIterator(r).of = s.owner
      /\ SeenIterator(r).position = p /\ SeenIterator(r).last = l /\ SeenIterator(r).expected = e
  BY DEF SeenIterator
<1> QED
  BY <1>1, <1>2 DEF SeenType, Rewound

LEMMA SteppedIterator ==
    ASSUME NEW s \in IterType, NEW r \in IterType, NEW p \in Nat,
           p = s.position + 1, r.owner = s.owner, r.position = p, r.last = p, r.expected = s.expected
    PROVE  SeenIterator(r) = Stepped(SeenIterator(s), p)
<1>1. SeenIterator(s) \in SeenType /\ SeenIterator(r) \in SeenType
  BY DEF SeenIterator, IterType, SeenType
<1>2. /\ SeenIterator(s).of = s.owner /\ SeenIterator(r).of = s.owner
      /\ SeenIterator(s).position = s.position /\ SeenIterator(s).expected = s.expected
      /\ SeenIterator(r).position = p /\ SeenIterator(r).last = p
      /\ SeenIterator(r).expected = s.expected
  BY DEF SeenIterator
<1> QED
  BY <1>1, <1>2 DEF SeenType, Stepped

\* The list that an iterator walks.
LEMMA WalkedList ==
    ASSUME IInv, phase = "idle", NEW i \in LiveIds, iter_states[i].used
    PROVE  LET s == iter_states[i]
           IN  /\ objects[i].class = "iterator" /\ s \in IterType
               /\ s.owner \in LiveIds /\ HasBuf(s.owner) /\ BufOf(s.owner) = s.source
               /\ s.source \in Bufs /\ list_bufs[s.source] \in BufType
               /\ heapSeen[i] = SeenIterator(s)
               /\ heapSeen[s.owner].elems = list_bufs[s.source].elems
               /\ heapSeen[s.owner].mods = list_bufs[s.source].mods
<1> DEFINE s == iter_states[i]
           l == s.owner
<1>1. /\ i \in Ids /\ objects[i].class = "iterator" /\ s \in IterType
      /\ l \in Ids /\ Walks(s, objects[l])
  BY LiveFacts DEF IInv, SideTypes, IterInv
<1>2. l \in LiveIds /\ objects[l].live /\ HasBuf(l) /\ BufOf(l) = s.source
  BY <1>1, GetField DEF Walks, LiveIds
<1>3. objects[l].class = "list"
  BY <1>2 DEF HasBuf
<1> HIDE DEF l, s
<1>4. /\ s.source \in Bufs /\ list_bufs[s.source] \in BufType
      /\ list_slots(l) = list_bufs[s.source].elems /\ list_mod_count(l) = list_bufs[s.source].mods
  BY <1>1, <1>2, ListFacts
<1>5. heapSeen[l].elems = list_slots(l) /\ heapSeen[l].mods = list_mod_count(l)
  BY <1>2, <1>3, ObjectSeen
<1>6. heapSeen[i] = SeenIterator(s)
  BY <1>1, ObjectSeen DEF s
<1> QED
  BY <1>1, <1>2, <1>4, <1>5, <1>6 DEF s, l

LEMMA NextSeen ==
    ASSUME IInv, phase = "idle", NEW t \in Tasks, NEW i \in frames[t], next(t, i)
    PROVE  Java!Step
<1> DEFINE s == iter_states[i]
           r == [s EXCEPT !.last = s.position + 1, !.position = @ + 1]
           elems == list_bufs[s.source].elems
<1>1. /\ s.used /\ list_bufs[s.source].mods = s.expected /\ s.position < Len(elems)
      /\ Hold(t, elems[s.position + 1])
      /\ iter_states' = [iter_states EXCEPT ![i].last = s.position + 1, ![i].position = @ + 1]
      /\ UNCHANGED <<store, list_bufs, natives, gc>>
  BY DEF next, Steady
<1>2. i \in LiveIds /\ i \in Ids /\ frames \in [Tasks -> SUBSET Ids]
  BY LiveFacts
<1>3. /\ objects[i].class = "iterator" /\ s \in IterType
      /\ heapSeen[i] = SeenIterator(s)
      /\ heapSeen[s.owner].elems = elems
      /\ heapSeen[s.owner].mods = list_bufs[s.source].mods
  BY <1>1, <1>2, WalkedList
<1>4. iter_states' = [iter_states EXCEPT ![i] = r] /\ iter_states \in [Ids -> IterType]
  BY <1>1, <1>2 DEF IInv, SideTypes, IterType
<1>5. iter_states'[i] = r /\ \A j \in Ids \ {i} : iter_states'[j] = iter_states[j]
  BY <1>2, <1>4
<1>6. /\ objects' = objects /\ fields_arena' = fields_arena /\ list_bufs' = list_bufs
      /\ upcalls' = upcalls
  BY <1>1 DEF store, natives
<1>7. LiveIds' = LiveIds
  BY <1>6 DEF LiveIds
<1>8. ASSUME NEW j \in LiveIds \ {i} PROVE Content(j)' = Content(j)
  BY <1>5, <1>6, <1>8, LiveFacts, ObjectKept
<1>9. Content(i)' = SeenIterator(r)
  <2>1. Content(i)' = Seen(fields_arena, objects[i], list_bufs, iter_states'[i])
    BY <1>2, <1>6, LiveFacts, ContentNext
  <2> QED
    BY <1>3, <1>5, <2>1 DEF Seen
<1>10. SeenIterator(r) = Stepped(SeenIterator(s), s.position + 1)
  <2>1. /\ r.owner = s.owner /\ r.last = s.position + 1
        /\ r.position = s.position + 1 /\ r.expected = s.expected
    BY <1>3 DEF IterType
  <2>2. s.position + 1 \in Nat
    BY <1>3 DEF IterType
  <2>3. r \in IterType
    BY <1>3, <2>2 DEF IterType
  <2> HIDE DEF r, s
  <2> QED
    BY <1>3, <2>1, <2>2, <2>3, SteppedIterator
<1>11. heapSeen' = [heapSeen EXCEPT ![i].position = @ + 1, ![i].last = s.position + 1]
  <2>1. heapSeen' = [heapSeen EXCEPT ![i] = SeenIterator(r)]
    BY <1>2, <1>7, <1>8, <1>9, HeapChanged
  <2> HIDE DEF r, s
  <2>2. i \in DOMAIN heapSeen
    BY <1>2, SeenAt
  <2> QED
    BY <1>3, <1>10, <2>1, <2>2 DEF Stepped
<1>12. Java!Hold(t, elems[s.position + 1])
  BY <1>1, <1>2, <1>6, HoldSeen
<1>13. /\ heapSeen[i].of = s.owner /\ heapSeen[i].position = s.position
       /\ heapSeen[i].expected = s.expected
  BY <1>3 DEF SeenIterator
<1> HIDE DEF s, r, elems
<1>14. Java!NextOf(t, i)
  BY <1>1, <1>3, <1>11, <1>12, <1>13 DEF Java!NextOf, Java!Steady, elems
<1> QED
  BY <1>3, <1>14, StepOf DEF Java!OnIterator

LEMMA RemoveSeen ==
    ASSUME IInv, phase = "idle", NEW t \in Tasks, NEW i \in frames[t], remove(i)
    PROVE  Java!Step
<1> DEFINE s == iter_states[i]
           r == [s EXCEPT !.position = s.last - 1, !.last = 0, !.expected = @ + 1]
           elems == list_bufs[s.source].elems
           m == list_bufs[s.source].mods
           rest == Without(elems, s.last)
<1>1. /\ s.used /\ s.last # 0 /\ m = s.expected /\ s.last <= Len(elems)
      /\ list_bufs' = Edited(s.source, rest)
      /\ iter_states' = [iter_states EXCEPT ![i].position = s.last - 1, ![i].last = 0,
                                            ![i].expected = @ + 1]
      /\ UNCHANGED <<store, frames, natives>>
  BY DEF remove, Steady
<1>2. i \in LiveIds /\ i \in Ids /\ objects[i] \in ObjectType /\ objects[i].live
  BY LiveFacts
<1>3. PICK l \in LiveIds :
         /\ l = s.owner /\ HasBuf(l) /\ BufOf(l) = s.source /\ objects[i].class = "iterator"
         /\ s \in IterType /\ s.source \in Bufs /\ list_bufs[s.source] \in BufType
         /\ heapSeen[i] = SeenIterator(s) /\ heapSeen[l].elems = elems /\ heapSeen[l].mods = m
  BY <1>1, <1>2, WalkedList
<1>4. iter_states' = [iter_states EXCEPT ![i] = r] /\ iter_states \in [Ids -> IterType]
  BY <1>1, <1>2 DEF IInv, SideTypes, IterType
<1>5. iter_states'[i] = r /\ \A j \in Ids \ {i} : iter_states'[j] = iter_states[j]
  BY <1>2, <1>4
<1>6. /\ list_bufs'[s.source].elems = rest /\ list_bufs'[s.source].mods = m + 1
      /\ \A b \in Bufs \ {s.source} : list_bufs'[b] = list_bufs[b]
  BY <1>1, <1>3 DEF IInv, SideTypes, Edited, BufType
<1>7. /\ LiveIds' = LiveIds /\ Content(l)' = Java!List(rest, m + 1)
      /\ \A j \in LiveIds \ {l} :
            (objects[j].class = "iterator" => iter_states'[j] = iter_states[j])
            => Content(j)' = Content(j)
  <2>1. UNCHANGED store /\ \A b \in Bufs \ {BufOf(l)} : list_bufs'[b] = list_bufs[b]
    BY <1>1, <1>3, <1>6
  <2> HIDE DEF s, rest, elems, m
  <2>2. /\ LiveIds' = LiveIds
        /\ Content(l)' = Java!List(list_bufs'[BufOf(l)].elems, list_bufs'[BufOf(l)].mods)
        /\ \A j \in LiveIds \ {l} :
              (objects[j].class = "iterator" => iter_states'[j] = iter_states[j])
              => Content(j)' = Content(j)
    BY <1>3, <2>1, BufferSeen
  <2> QED
    BY <1>3, <1>6, <2>2
<1>8. l # i
  BY <1>3 DEF HasBuf
<1>9. Content(i)' = SeenIterator(r)
  <2>1. objects' = objects
    BY <1>1 DEF store
  <2>2. Content(i)' = Seen(fields_arena', objects[i], list_bufs', iter_states'[i])
    BY <1>2, <2>1, ContentNext
  <2> QED
    BY <1>3, <1>5, <2>2 DEF Seen
<1>10. SeenIterator(r) = Rewound(SeenIterator(s), s.last - 1, 0, m + 1)
  <2>1. /\ r.owner = s.owner /\ r.last = 0 /\ r.position = s.last - 1 /\ r.expected = m + 1
    BY <1>1, <1>3 DEF IterType
  <2>2. s.last - 1 \in Nat /\ m + 1 \in Nat
    BY <1>1, <1>3 DEF IterType
  <2>3. r \in IterType
    BY <1>1, <1>3, <2>2 DEF IterType
  <2> HIDE DEF r, s, m
  <2> QED
    BY <1>3, <2>1, <2>2, <2>3, IteratorFacts
<1> HIDE DEF r, rest, elems, m
<1>11. \A j \in LiveIds \ {l, i} : Content(j)' = Content(j)
  BY <1>5, <1>7, LiveFacts
<1>12. heapSeen' = [heapSeen EXCEPT ![l] = Java!List(rest, m + 1), ![i] = SeenIterator(r)]
  <2> DEFINE h == [heapSeen EXCEPT ![l] = Java!List(rest, m + 1), ![i] = SeenIterator(r)]
  <2>1. heapSeen' = [j \in LiveIds |-> Content(j)']
    BY <1>7 DEF heapSeen
  <2>2. DOMAIN heapSeen = LiveIds /\ \A j \in LiveIds : heapSeen[j] = Content(j)
    BY SeenAt
  <2>3. h = [j \in LiveIds |-> IF j = i THEN SeenIterator(r)
                               ELSE IF j = l THEN Java!List(rest, m + 1) ELSE Content(j)]
    BY <1>8, <2>2
  <2>4. \A j \in LiveIds : Content(j)' = IF j = i THEN SeenIterator(r)
                               ELSE IF j = l THEN Java!List(rest, m + 1) ELSE Content(j)
    BY <1>7, <1>8, <1>9, <1>11
  <2> HIDE DEF h
  <2>5. heapSeen' = h
    BY <2>1, <2>3, <2>4
  <2> QED
    BY <2>5 DEF h
<1>13. heapSeen' = [heapSeen EXCEPT ![l] = Java!List(rest, m + 1), ![i].position = s.last - 1,
                                    ![i].last = 0, ![i].expected = m + 1]
  <2>1. i \in DOMAIN heapSeen /\ l \in DOMAIN heapSeen
    BY <1>2, <1>3, SeenAt
  <2> HIDE DEF s
  <2> QED
    BY <1>3, <1>8, <1>10, <1>12, <2>1 DEF Rewound
<1>14. /\ heapSeen[i].of = l /\ heapSeen[i].last = s.last /\ heapSeen[i].expected = s.expected
  BY <1>3 DEF SeenIterator
<1>15. s.last \in 1..Len(elems)
  <2>1. s.last \in Nat /\ Len(elems) \in Nat
    BY <1>3, LenProperties DEF IterType, BufType, elems
  <2> QED
    BY <1>1, <2>1
<1>16. rootsSeen' = rootsSeen
  BY <1>1, RootsKept DEF natives
<1>17. Java!RemoveLast(i)
  <2> HIDE DEF s
  <2> QED
    BY <1>1, <1>3, <1>13, <1>14, <1>15, <1>16
       DEF Java!RemoveLast, Java!Steady, Java!Without, Without, rest
<1> QED
  BY <1>3, <1>17, StepOf DEF Java!OnIterator

-----------------------------------------------------------------------------
(* A field is written, in place or in a span that grows. *)

LEMMA OthersSeen ==
    ASSUME IInv, NEW i, NEW j \in LiveIds \ {i}, objects'[j] = objects[j], OthersKeep(i),
           Owns(fields_arena, objects[j]) =>
              list_bufs'[BufIn(fields_arena, objects[j])] = list_bufs[BufIn(fields_arena, objects[j])],
           objects[j].class = "iterator" => iter_states'[j] = iter_states[j]
    PROVE  Content(j)' = Content(j)
<1>1. j \in Ids /\ objects[j] \in ObjectType /\ objects[j].live
  BY LiveFacts
<1>2. objects[j].count \in Nat /\ objects[j].cap \in Nat /\ objects[j].count <= objects[j].cap
  BY <1>1, LiveFacts, SpanFacts
<1>3. \A f \in 0..(objects[j].count - 1) :
         fields_arena'[objects'[j].off + f] = fields_arena[objects[j].off + f]
  <2>1. \A f \in 0..(objects[j].count - 1) : f \in 0..(objects[j].cap - 1)
    BY <1>2
  <2> QED
    BY <1>1, <2>1 DEF OthersKeep
<1> QED
  BY <1>1, <1>3, ObjectKept

LEMMA LengthIs ==
    ASSUME NEW S, NEW n \in Nat, NEW s \in [1..n -> S]
    PROVE  Len(s) = n
<1>1. s \in Seq(S)
  BY SeqDef
<1>2. Len(s) \in Nat /\ 1..Len(s) = 1..n
  BY <1>1, LenProperties
<1>3. Len(s) = 0 \/ Len(s) \in 1..Len(s)
  BY <1>2
<1>4. n = 0 \/ n \in 1..n
  OBVIOUS
<1>5. Len(s) <= n
  BY <1>2, <1>3
<1>6. n <= Len(s)
  BY <1>2, <1>4
<1> QED
  BY <1>2, <1>5, <1>6

\* The fields after a write; those that were never written read as null.
Written(s, n, f, v) == [Java!Grown(s, n) EXCEPT ![f + 1] = v]

LEMMA GrownFields ==
    ASSUME NEW a, NEW b, NEW o \in ObjectType, NEW p \in ObjectType, NEW f \in Nat, NEW v,
           NEW c \in Nat, o.count = c, NEW n \in Nat, p.count = n,
           \A g \in 0..(n - 1) :
              b[p.off + g] = IF g = f THEN v ELSE IF g < c THEN a[o.off + g] ELSE Null
    PROVE  Len(FieldsIn(a, o)) = c /\ FieldsIn(b, p) = Written(FieldsIn(a, o), n, f, v)
<1> DEFINE s == FieldsIn(a, o)
<1>1. c \in Nat /\ n \in Nat
  OBVIOUS
<1>2. DOMAIN s = 1..c /\ \A k \in 1..c : s[k] = a[o.off + (k - 1)]
  BY DEF FieldsIn
<1>3. Len(s) = c
  <2>1. s \in [1..c -> {s[k] : k \in 1..c}]
    BY <1>2 DEF FieldsIn
  <2> QED
    BY <1>1, <2>1, LengthIs
<1>4. FieldsIn(b, p) = [k \in 1..n |-> b[p.off + (k - 1)]]
  BY DEF FieldsIn
<1>5. Java!Grown(s, n) = [k \in 1..n |-> IF k \in 1..c THEN s[k] ELSE Null]
  BY <1>2 DEF Java!Grown, Java!At, Java!Null, Null
<1>6. ASSUME NEW k \in 1..n
      PROVE  b[p.off + (k - 1)] = IF k = f + 1 THEN v ELSE IF k \in 1..c THEN s[k] ELSE Null
  <2>1. k - 1 \in 0..(n - 1) /\ (k - 1 = f <=> k = f + 1) /\ (k - 1 < c <=> k \in 1..c)
    BY <1>1, <1>6
  <2> HIDE DEF s
  <2> QED
    BY <1>2, <2>1
<1> HIDE DEF s
<1>7. Written(s, n, f, v)
        = [k \in 1..n |-> IF k = f + 1 THEN v ELSE IF k \in 1..c THEN s[k] ELSE Null]
  BY <1>5 DEF Written
<1>8. FieldsIn(b, p) = [k \in 1..n |-> IF k = f + 1 THEN v ELSE IF k \in 1..c THEN s[k] ELSE Null]
  BY <1>4, <1>6
<1> QED
  BY <1>3, <1>7, <1>8 DEF s

LEMMA PutSeen ==
    ASSUME IInv, phase = "idle", NEW t \in Tasks, NEW i \in frames[t], Put(t, i)
    PROVE  Java!Step
<1>1. objects[i].class = "object" /\ UNCHANGED <<sides, frames, natives, gc>>
  BY DEF Put
<1>2. PICK f \in 0..(MaxSpan - 1), v \in Values(t) : set_field(i, f, v)
  BY DEF Put
<1>3. i \in LiveIds /\ i \in Ids /\ objects[i] \in ObjectType /\ objects[i].live
  BY LiveFacts
<1>4. f \in Nat /\ f + 1 \in 1..MaxSpan /\ objects[i].count \in Nat /\ v \in Slots
  BY <1>3, IdsFacts, ValueFacts DEF ObjectType
<1>5. Wrote(i, f, v)
  BY <1>2, <1>3, <1>4, SetField DEF IInv
<1>6. objects'[i].count = IF f + 1 > objects[i].count THEN f + 1 ELSE objects[i].count
  <2> DEFINE count == IF f + 1 > objects[i].count THEN f + 1 ELSE objects[i].count
  <2>1. \/ objects' = [objects EXCEPT ![i].count = count]
        \/ objects' = [objects EXCEPT ![i] = [objects[i] EXCEPT !.off = arena_len, !.cap = f + 1,
                                                                !.count = count]]
    BY <1>2 DEF set_field
  <2>2. count \in 0..MaxSpan
    BY <1>3, <1>4, IdsFacts DEF ObjectType
  <2> HIDE DEF count
  <2>3. objects'[i].count = count
    <3> DEFINE o == objects[i]
               q == [o EXCEPT !.off = arena_len, !.cap = f + 1, !.count = count]
    <3>1. CASE objects' = [objects EXCEPT ![i].count = count]
      BY <1>3, <2>2, <3>1, LiveFacts DEF ObjectType
    <3>2. CASE objects' = [objects EXCEPT ![i] = q]
      <4>1. q.count = count
        <5> HIDE DEF o
        <5>1. o \in ObjectType
          BY <1>3 DEF o
        <5> QED
          BY <5>1 DEF ObjectType
      <4> HIDE DEF q
      <4> QED
        BY <1>3, <3>2, <4>1, LiveFacts
    <3> QED
      BY <2>1, <3>1, <3>2
  <2> QED
    BY <2>3 DEF count
<1>7. /\ objects'[i] \in ObjectType /\ objects'[i].live /\ objects'[i].class = "object"
      /\ OthersKeep(i) /\ \A j \in Ids \ {i} : objects'[j] = objects[j]
  BY <1>1, <1>3, <1>5 DEF Wrote
<1>8. LiveIds' = LiveIds
  BY <1>3, <1>7 DEF LiveIds
<1>9. \A j \in LiveIds \ {i} : Content(j)' = Content(j)
  <2>1. list_bufs' = list_bufs /\ iter_states' = iter_states
    BY <1>1 DEF sides
  <2>2. \A j \in LiveIds \ {i} : objects'[j] = objects[j]
    BY <1>7 DEF LiveIds
  <2> QED
    BY <1>7, <2>1, <2>2, OthersSeen
<1> DEFINE s == FieldsIn(fields_arena, objects[i])
           n == objects'[i].count
           new == Written(s, n, f, v)
<1>10. Len(s) = objects[i].count /\ FieldsIn(fields_arena', objects'[i]) = new
  <2>1. \A g \in 0..(objects'[i].count - 1) :
           fields_arena'[objects'[i].off + g] = IF g = f THEN v
                ELSE IF g < objects[i].count THEN fields_arena[objects[i].off + g] ELSE Null
    BY <1>5 DEF Wrote
  <2> DEFINE a == fields_arena
             b == fields_arena'
             o == objects[i]
             p == objects'[i]
             c == objects[i].count
  <2>2. o \in ObjectType /\ p \in ObjectType /\ f \in Nat /\ c \in Nat /\ n \in Nat
    BY <1>3, <1>4, <1>7, IdsFacts DEF ObjectType
  <2>3. \A g \in 0..(n - 1) :
           b[p.off + g] = IF g = f THEN v ELSE IF g < c THEN a[o.off + g] ELSE Null
    BY <2>1
  <2>4. o.count = c /\ p.count = n
    OBVIOUS
  <2>5. Len(FieldsIn(a, o)) = c /\ FieldsIn(b, p) = Written(FieldsIn(a, o), n, f, v)
    <3> HIDE DEF a, b, o, p, c, n
    <3> QED
      BY <2>2, <2>3, <2>4, GrownFields
  <2> QED
    BY <2>5
<1>11. Content(i)' = Java!Plain(new)
  BY <1>3, <1>7, <1>10, ContentNext DEF Seen
<1>12. heapSeen[i].fields = s
  BY <1>1, <1>3, ObjectSeen
<1>13. rootsSeen' = rootsSeen
  BY <1>1, RootsKept DEF natives
<1>14. n = IF f + 1 > Len(s) THEN f + 1 ELSE Len(s)
  BY <1>6, <1>10
<1> HIDE DEF s, n
<1>15. heapSeen' = [heapSeen EXCEPT ![i] = Java!Plain(new)]
  <2> HIDE DEF new
  <2> QED
    BY <1>3, <1>8, <1>9, <1>11, HeapChanged
<1>16. Java!Put(i, f + 1, v)
  BY <1>12, <1>13, <1>14, <1>15 DEF Java!Put, Java!Change, Written
<1>17. v \in Java!Values(t)
  BY <1>2, ValuesSeen
<1>18. Java!OnObject(t, i)
  BY <1>4, <1>16, <1>17 DEF Java!OnObject
<1> QED
  BY <1>1, <1>18, StepOf

\* A list without a buffer reads as the list with its new, empty buffer.
LEMMA InitListSeen ==
    ASSUME IInv, phase = "idle", NEW t \in Tasks, NEW i \in frames[t], InitList(i)
    PROVE  Shown
<1> DEFINE b == Lowest(UnusedBufs)
<1>1. /\ objects[i].class = "list" /\ ~HasBuf(i) /\ UnusedBufs # {}
      /\ list_bufs' = [list_bufs EXCEPT ![b] = [NoBuf EXCEPT !.used = TRUE]]
      /\ UNCHANGED <<iter_states, frames, natives, gc>>
  BY DEF InitList
<1>2. i \in LiveIds /\ i \in Ids /\ objects[i] \in ObjectType /\ objects[i].live
  BY LiveFacts
<1>3. b \in Bufs /\ ~list_bufs[b].used
  <2>1. UnusedBufs \subseteq Nat
    BY IdsFacts DEF UnusedBufs
  <2> QED
    BY <1>1, <2>1, LowestFacts DEF UnusedBufs
<1>4. alloc_span(1) => set_field(i, 0, IntSlot(b))
  BY DEF InitList
<1>5. ~alloc_span(1) => UNCHANGED store
  BY DEF InitList
<1> HIDE DEF b
<1>6. /\ list_bufs'[b].elems = <<>> /\ list_bufs'[b].mods = 0
      /\ \A c \in Bufs \ {b} : list_bufs'[c] = list_bufs[c]
  BY <1>1, <1>3 DEF NoBuf, IInv, SideTypes
<1>7. ASSUME NEW j \in LiveIds, Owns(fields_arena, objects[j])
      PROVE  list_bufs'[BufIn(fields_arena, objects[j])] = list_bufs[BufIn(fields_arena, objects[j])]
  <2>1. j \in Ids /\ objects[j].live
    BY LiveFacts
  <2>2. BufIn(fields_arena, objects[j]) \in Bufs /\ list_bufs[BufIn(fields_arena, objects[j])].used
    BY <1>7, <2>1, LiveFacts, OwnedBuf DEF ListsInv
  <2> QED
    BY <1>3, <1>6, <2>2
<1>8. Content(i) = Java!List(<<>>, 0)
  <2>1. Content(i) = Seen(fields_arena, objects[i], list_bufs, iter_states[i])
    BY <1>2, ContentIs
  <2>2. ~Owns(fields_arena, objects[i])
    BY <1>1, <1>2, GetField
  <2> QED
    BY <1>1, <2>1, <2>2 DEF Seen, SeenList
<1>9. CASE alloc_span(1)
  <2>1. IntSlot(b) \in Slots
    BY <1>3, RefFacts
  <2>2. Wrote(i, 0, IntSlot(b))
    BY <1>2, <1>4, <1>9, <2>1, SetField DEF IInv
  <2>3. /\ objects'[i] \in ObjectType /\ objects'[i].live /\ objects'[i].class = "list"
        /\ 0 < objects'[i].count /\ OthersKeep(i)
        /\ \A j \in Ids \ {i} : objects'[j] = objects[j]
    BY <1>1, <1>2, <2>2 DEF Wrote
  <2>4. LiveIds' = LiveIds
    BY <1>2, <2>3 DEF LiveIds
  <2>5. ASSUME NEW j \in LiveIds \ {i} PROVE Content(j)' = Content(j)
    <3>1. objects'[j] = objects[j]
      BY <2>3 DEF LiveIds
    <3> QED
      BY <1>1, <1>7, <2>3, <3>1, OthersSeen
  <2>6. Content(i)' = Java!List(<<>>, 0)
    <3>1. Content(i)' = SeenList(fields_arena', objects'[i], list_bufs')
      BY <1>2, <2>3, ContentNext DEF Seen
    <3>2. fields_arena'[objects'[i].off + 0] = IntSlot(b)
      <4>1. objects'[i].count \in Nat /\ 0 \in 0..(objects'[i].count - 1)
        BY <2>3, IdsFacts DEF ObjectType
      <4> QED
        BY <2>2, <4>1 DEF Wrote
    <3>3. Owns(fields_arena', objects'[i]) /\ BufIn(fields_arena', objects'[i]) = b
      BY <2>3, <3>2, RefFacts DEF Owns, BufIn, FirstOf
    <3> QED
      BY <1>6, <3>1, <3>3 DEF SeenList
  <2> QED
    BY <1>1, <1>8, <2>4, <2>5, <2>6, HeapKept, RootsKept DEF Shown, Java!vars, natives
<1>10. CASE ~alloc_span(1)
  <2>1. objects' = objects /\ fields_arena' = fields_arena
    BY <1>5, <1>10 DEF store
  <2>2. LiveIds' = LiveIds
    BY <2>1 DEF LiveIds
  <2>3. ASSUME NEW j \in LiveIds PROVE Content(j)' = Content(j)
    BY <1>1, <1>7, <2>1, <2>3, LiveFacts, ObjectKept
  <2> QED
    BY <1>1, <2>2, <2>3, HeapKept, RootsKept DEF Shown, Java!vars, natives
<1> QED
  BY <1>9, <1>10

-----------------------------------------------------------------------------
(* An object comes into a vacant slot. *)

LEMMA VacantFacts ==
    ASSUME IInv, Vacant # {}
    PROVE  Lowest(Vacant) \in Ids /\ ~objects[Lowest(Vacant)].live /\ ~iter_states[Lowest(Vacant)].used
<1>1. Vacant \subseteq Nat
  BY IdsFacts DEF Vacant
<1>2. Lowest(Vacant) \in Ids /\ ~objects[Lowest(Vacant)].live
  BY <1>1, LowestFacts DEF Vacant
<1> QED
  BY <1>2 DEF IInv, IterInv

LEMMA PlaceSeen ==
    ASSUME IInv, phase = "idle", NEW t \in Tasks, NEW n \in Ids, n = Lowest(Vacant),
           NEW o \in ObjectType, o.live, place_in_slot(o),
           \A p \in Arena : p < arena_len => fields_arena'[p] = fields_arena[p],
           list_bufs' = list_bufs, \A j \in Ids \ {n} : iter_states'[j] = iter_states[j],
           Hold(t, Ref(n)), UNCHANGED natives,
           Seen(fields_arena', o, list_bufs, iter_states'[n]) \in Java!Fresh(t)
    PROVE  Java!Step
<1> DEFINE seen == Seen(fields_arena', o, list_bufs, iter_states'[n])
<1>1. /\ ~objects[n].live /\ objects' = [objects EXCEPT ![n] = o]
      /\ frames \in [Tasks -> SUBSET Ids] /\ TypeOK /\ SpansInv
  BY VacantFacts, LiveFacts DEF place_in_slot
<1>2. objects'[n] = o /\ \A j \in Ids \ {n} : objects'[j] = objects[j]
  BY <1>1, LiveFacts
<1>3. n \notin LiveIds /\ LiveIds' = LiveIds \cup {n}
  BY <1>1, <1>2 DEF LiveIds
<1>4. OthersKeep(n)
  <2>1. SUFFICES ASSUME NEW j \in Ids \ {n}, objects[j].live, NEW g \in 0..(objects[j].cap - 1)
                 PROVE  fields_arena'[objects[j].off + g] = fields_arena[objects[j].off + g]
    BY DEF OthersKeep
  <2>2. objects[j].off + g \in Arena
    BY <1>1, <2>1, FieldFacts
  <2>3. /\ objects[j].cap > 0 /\ objects[j].off \in Nat /\ objects[j].cap \in Nat
        /\ objects[j].off + objects[j].cap <= arena_len /\ arena_len \in Nat
    BY <1>1, <2>1, SpanFacts
  <2>4. objects[j].off + g < arena_len
    BY <2>3
  <2> QED
    BY <2>2, <2>4
<1>5. ASSUME NEW j \in LiveIds PROVE Content(j)' = Content(j)
  <2>1. j \in LiveIds \ {n} /\ objects'[j] = objects[j] /\ iter_states'[j] = iter_states[j]
    BY <1>2, <1>3 DEF LiveIds
  <2> QED
    BY <1>4, <2>1, OthersSeen
<1>6. Content(n)' = seen
  BY <1>2, ContentNext
<1> HIDE DEF seen
<1>7. heapSeen' = [j \in DOMAIN heapSeen \cup {n} |-> IF j = n THEN seen ELSE heapSeen[j]]
  BY <1>3, <1>5, <1>6, HeapGains
<1>8. Java!Hold(t, Java!Ref(n))
  BY <1>1, HoldSeen DEF natives, Ref, Java!Ref
<1>9. Java!New(t, n, seen)
  BY <1>3, <1>7, <1>8, SeenAt DEF Java!New
<1>10. seen \in Java!Fresh(t)
  BY DEF seen
<1> QED
  BY <1>9, <1>10 DEF Java!Step

LEMMA AllocSeen ==
    ASSUME IInv, phase = "idle", NEW t \in Tasks, NEW class \in Classes,
           NEW c \in Nat, NEW count \in 0..c, alloc_with_field_count(t, class, c, count),
           NEW n \in Ids, n = Lowest(Vacant), list_bufs' = list_bufs,
           \A j \in Ids \ {n} : iter_states'[j] = iter_states[j], UNCHANGED natives,
           \/ class = "object"
           \/ class = "list" /\ count = 0
           \/ class = "iterator" /\ SeenIterator(iter_states'[n]) \in Java!Fresh(t)
    PROVE  Java!Step
<1> DEFINE o == [live |-> TRUE, class |-> class, off |-> SpanOff(c), count |-> count, cap |-> c]
<1>1. TypeOK /\ SpansInv
  BY LiveFacts
<1>2. /\ alloc_span(c) /\ place_in_slot(o) /\ Hold(t, Ref(n))
      /\ fields_arena' = Cleared(fields_arena, arena_len, c)
  BY DEF alloc_with_field_count
<1>3. /\ \A p \in Arena : p < arena_len => fields_arena'[p] = fields_arena[p]
      /\ \A g \in 0..(c - 1) : fields_arena'[SpanOff(c) + g] = Null
  BY <1>1, <1>2, BlankSpan
<1>4. /\ o \in ObjectType /\ o.live /\ o.class = class /\ o.count = count /\ o.off = SpanOff(c)
      /\ count \in 0..MaxSpan
  <2>1. SpanOff(c) \in 0..ArenaMax /\ count \in 0..MaxSpan /\ c \in 0..MaxSpan
    BY <1>1, <1>2, SpanFacts DEF SpanOff, alloc_span
  <2> QED
    BY <2>1 DEF ObjectType
<1> HIDE DEF o
<1>5. Seen(fields_arena', o, list_bufs, iter_states'[n]) \in Java!Fresh(t)
  <2>1. CASE class = "object"
    <3>1. \A k \in 1..count : k - 1 \in 0..(c - 1)
      OBVIOUS
    <3>2. FieldsIn(fields_arena', o) = [k \in 1..count |-> Java!Null]
      BY <1>3, <1>4, <3>1 DEF FieldsIn, Null, Java!Null
    <3>3. Java!Plain([k \in 1..count |-> Java!Null]) \in Java!Fresh(t)
      BY <1>4 DEF Java!Fresh
    <3> QED
      BY <1>4, <2>1, <3>2, <3>3 DEF Seen
  <2>2. CASE class = "list" /\ count = 0
    <3>1. ~Owns(fields_arena', o)
      BY <1>4, <2>2, RefFacts DEF Owns, FirstOf
    <3>2. Seen(fields_arena', o, list_bufs, iter_states'[n]) = Java!List(<<>>, 0)
      BY <1>4, <2>2, <3>1 DEF Seen, SeenList
    <3> QED
      BY <3>2 DEF Java!Fresh
  <2>3. CASE class = "iterator" /\ SeenIterator(iter_states'[n]) \in Java!Fresh(t)
    BY <1>4, <2>3 DEF Seen
  <2> QED
    BY <2>1, <2>2, <2>3
<1> QED
  BY <1>2, <1>3, <1>4, <1>5, PlaceSeen

LEMMA NewSeen ==
    ASSUME IInv, phase = "idle", NEW t \in Tasks,
           NewList(t) \/ \E shape \in Shapes : New(t, shape[1], shape[2])
    PROVE  Java!Step
<1>1. /\ Vacant # {} /\ UNCHANGED <<sides, natives, gc>>
  BY DEF NewList, New, alloc_with_field_count, place_in_slot
<1>2. PICK n \in Ids : n = Lowest(Vacant)
  BY <1>1, VacantFacts
<1>3. list_bufs' = list_bufs /\ iter_states' = iter_states /\ UNCHANGED natives
  BY <1>1 DEF sides
<1>4. CASE NewList(t)
  <2>1. alloc_with_field_count(t, "list", 0, 0) /\ "list" \in Classes /\ 0 \in Nat /\ 0 \in 0..0
    BY <1>4 DEF NewList, Classes
  <2> QED
    BY <1>2, <1>3, <2>1, AllocSeen
<1>5. ASSUME NEW shape \in Shapes, New(t, shape[1], shape[2]) PROVE Java!Step
  <2>1. /\ alloc_with_field_count(t, "object", shape[1], shape[2]) /\ "object" \in Classes
        /\ shape[1] \in Nat /\ shape[2] \in 0..shape[1]
    BY <1>5, ShapesAssumption DEF New, Classes
  <2> QED
    BY <1>2, <1>3, <2>1, AllocSeen
<1> QED
  BY <1>4, <1>5

LEMMA NewIteratorSeen ==
    ASSUME IInv, phase = "idle", NEW t \in Tasks, NEW i \in frames[t], NewIterator(t, i)
    PROVE  Java!Step
<1> DEFINE s == [NoIter EXCEPT !.used = TRUE, !.source = BufOf(i), !.owner = i,
                               !.expected = list_mod_count(i)]
<1>1. /\ HasBuf(i) /\ objects[i].class = "list" /\ Vacant # {}
      /\ alloc_with_field_count(t, "iterator", 0, 0) /\ iter_register(Lowest(Vacant), s)
      /\ UNCHANGED <<list_bufs, natives, gc>>
  BY DEF NewIterator, HasBuf, alloc_with_field_count, place_in_slot
<1>2. PICK n \in Ids : n = Lowest(Vacant)
  BY <1>1, VacantFacts
<1>3. iter_states \in [Ids -> IterType] /\ ~iter_states[n].used
  BY <1>1, <1>2, VacantFacts DEF IInv, SideTypes
<1>4. iter_states'[n] = s /\ \A j \in Ids \ {n} : iter_states'[j] = iter_states[j]
  BY <1>1, <1>2, <1>3 DEF iter_register
<1>5. SeenIterator(s) = Java!Iterator(i, list_mod_count(i))
  <2>1. /\ s.owner = i /\ s.position = 0 /\ s.last = 0 /\ s.expected = list_mod_count(i)
    BY DEF NoIter
  <2> HIDE DEF s
  <2> QED
    BY <2>1 DEF SeenIterator, Java!Iterator
<1>6. i \in LiveIds /\ i \in rootsSeen[t]
  BY LiveFacts, SeenAt
<1>7. heapSeen[i].class = "list" /\ heapSeen[i].mods = list_mod_count(i)
  BY <1>1, <1>6, ObjectSeen
<1>8. SeenIterator(iter_states'[n]) \in Java!Fresh(t)
  <2> HIDE DEF s
  <2> QED
    BY <1>4, <1>5, <1>6, <1>7 DEF Java!Fresh
<1>9. "iterator" \in Classes /\ 0 \in Nat /\ 0 \in 0..0 /\ UNCHANGED natives
  BY <1>1 DEF Classes
<1> QED
  BY <1>1, <1>2, <1>4, <1>8, <1>9, AllocSeen

LEMMA CloneSeen ==
    ASSUME PlainClones, IInv, phase = "idle", NEW t \in Tasks, NEW i \in frames[t], clone_object(t, i)
    PROVE  Java!Step
<1> DEFINE src == objects[i]
           o == [src EXCEPT !.off = SpanOff(src.cap)]
<1>1. /\ src.class = "object" /\ alloc_span(src.cap) /\ place_in_slot(o) /\ Vacant # {}
      /\ fields_arena' = Copied(fields_arena, src.off, src.cap, SpanOff(src.cap))
      /\ Hold(t, Ref(Lowest(Vacant))) /\ UNCHANGED <<sides, natives, gc>>
  BY DEF clone_object, place_in_slot, PlainClones
<1>2. /\ i \in LiveIds /\ i \in Ids /\ src \in ObjectType /\ src.live /\ i \in rootsSeen[t]
      /\ TypeOK /\ SpansInv
  BY LiveFacts, SeenAt
<1>3. PICK n \in Ids : n = Lowest(Vacant)
  BY <1>1, VacantFacts
<1>4. /\ \A p \in Arena : p < arena_len => fields_arena'[p] = fields_arena[p]
      /\ \A g \in 0..(src.cap - 1) : fields_arena'[SpanOff(src.cap) + g] = fields_arena[src.off + g]
  BY <1>1, <1>2, ClonedSpan
<1>5. /\ o \in ObjectType /\ o.live /\ o.class = "object" /\ o.count = src.count
      /\ o.off = SpanOff(src.cap)
  <2>1. SpanOff(src.cap) \in 0..ArenaMax
    BY <1>2, SpanFacts DEF SpanOff
  <2> QED
    BY <1>1, <1>2, <2>1 DEF ObjectType
<1> HIDE DEF o
<1>6. FieldsIn(fields_arena', o) = FieldsIn(fields_arena, src)
  <2>1. src.count \in Nat /\ src.cap \in Nat /\ src.count <= src.cap
    BY <1>2, SpanFacts
  <2>2. \A k \in 1..src.count : k - 1 \in 0..(src.cap - 1)
    BY <2>1
  <2> QED
    BY <1>4, <1>5, <2>2 DEF FieldsIn
<1>7. Seen(fields_arena', o, list_bufs, iter_states'[n]) = heapSeen[i]
  BY <1>1, <1>2, <1>5, <1>6, ObjectSeen DEF Seen
<1>8. heapSeen[i] \in Java!Fresh(t)
  <2>1. heapSeen[i].class = "object"
    BY <1>1, <1>2, ObjectSeen
  <2> QED
    BY <1>2, <2>1 DEF Java!Fresh
<1>9. list_bufs' = list_bufs /\ iter_states' = iter_states /\ UNCHANGED natives
  BY <1>1 DEF sides
<1> QED
  BY <1>1, <1>3, <1>4, <1>5, <1>7, <1>8, <1>9, PlaceSeen

-----------------------------------------------------------------------------
(* Every step, and the theorem. *)

LEMMA RegisteredKept ==
    ASSUME RegisteredInv,
           \A j \in Ids : objects'[j].live /\ objects'[j].class = "iterator" =>
              \/ iter_states'[j].used
              \/ /\ objects[j].live /\ objects[j].class = "iterator"
                 /\ iter_states'[j].used = iter_states[j].used
    PROVE  RegisteredInv'
BY DEF RegisteredInv

\* A new object registers its state, or is no iterator.
LEMMA RegisteredPlace ==
    ASSUME IInv, RegisteredInv, NEW o, place_in_slot(o),
           \A j \in Ids \ {Lowest(Vacant)} : iter_states'[j] = iter_states[j],
           o.class = "iterator" => iter_states'[Lowest(Vacant)].used
    PROVE  RegisteredInv'
<1> DEFINE n == Lowest(Vacant)
<1>1. objects' = [objects EXCEPT ![n] = o] /\ n \in Ids /\ objects \in [Ids -> ObjectType]
  BY VacantFacts, LiveFacts DEF place_in_slot
<1>2. /\ o.class = "iterator" => iter_states'[n].used
      /\ \A j \in Ids \ {n} : iter_states'[j] = iter_states[j]
  OBVIOUS
<1> HIDE DEF n
<1>3. objects'[n] = o /\ \A j \in Ids \ {n} : objects'[j] = objects[j]
  BY <1>1
<1> QED
  BY <1>2, <1>3, RegisteredKept

LEMMA RegisteredTask ==
    ASSUME PlainClones, IInv, RegisteredInv, NEW t \in Tasks, TaskStep(t)
    PROVE  RegisteredInv'
<1>1. phase = "idle" /\ frames[t] \subseteq LiveIds /\ iter_states \in [Ids -> IterType]
  BY LiveFacts DEF TaskStep, IInv, SideTypes
<1>2. ASSUME UNCHANGED <<store, iter_states>> PROVE RegisteredInv'
  BY <1>2 DEF RegisteredInv, store
<1>3. CASE NewList(t) \/ \E shape \in Shapes : New(t, shape[1], shape[2])
  <2>0. PICK class \in {"object", "list"} : \E n, count : alloc_with_field_count(t, class, n, count)
    BY <1>3 DEF NewList, New
  <2>1. PICK n, count : alloc_with_field_count(t, class, n, count)
    BY <2>0
  <2>2. iter_states' = iter_states
    BY <1>3 DEF NewList, New, sides
  <2> DEFINE o == [live |-> TRUE, class |-> class, off |-> SpanOff(n), count |-> count,
                   cap |-> n]
  <2>3. place_in_slot(o) /\ o.class # "iterator"
    BY <2>1 DEF alloc_with_field_count
  <2> HIDE DEF o
  <2> QED
    BY <2>2, <2>3, RegisteredPlace
<1>4. CASE Return(t)
  BY <1>2, <1>4 DEF Return, sides
<1>5. ASSUME NEW i \in frames[t],
             \/ clone_object(t, i) \/ Put(t, i) \/ Get(t, i) \/ Drop(t, i)
             \/ InitList(i) \/ EditList(t, i) \/ SetElement(t, i) \/ Element(t, i)
             \/ NewIterator(t, i) \/ next(t, i) \/ remove(i) \/ Upcall(t, i)
             \/ \E u \in Tasks : Pass(t, i, u)
      PROVE  RegisteredInv'
  <2>0. i \in Ids /\ objects[i].live
    BY <1>1, <1>5 DEF LiveIds
  <2>1. CASE clone_object(t, i)
    <3> DEFINE o == [objects[i] EXCEPT !.off = SpanOff(objects[i].cap)]
    <3>1. place_in_slot(o) /\ iter_states' = iter_states /\ objects[i].class = "object"
      BY <2>1 DEF clone_object, sides, PlainClones
    <3>2. o.class = "object"
      BY <2>0, <3>1, LiveFacts DEF ObjectType
    <3> HIDE DEF o
    <3> QED
      BY <3>1, <3>2, RegisteredPlace
  <2>2. CASE Put(t, i) \/ InitList(i)
    <3>1. iter_states' = iter_states
      BY <2>2 DEF Put, InitList, sides
    <3>2. UNCHANGED store \/ \E f \in Nat, v \in Slots : set_field(i, f, v)
      <4>1. CASE Put(t, i)
        <5>1. PICK f \in 0..(MaxSpan - 1), v \in Values(t) : set_field(i, f, v)
          BY <4>1 DEF Put
        <5>2. f \in Nat /\ v \in Slots
          BY <1>1, <5>1, IdsFacts, ValueFacts
        <5> QED
          BY <5>1, <5>2
      <4>2. CASE InitList(i)
        <5>1. UnusedBufs \subseteq Nat /\ UnusedBufs # {} /\ UnusedBufs \subseteq Bufs
          BY <4>2, IdsFacts DEF InitList, UnusedBufs
        <5>2. IntSlot(Lowest(UnusedBufs)) \in Slots
          BY <5>1, LowestFacts, RefFacts
        <5>3. UNCHANGED store \/ set_field(i, 0, IntSlot(Lowest(UnusedBufs)))
          BY <4>2 DEF InitList
        <5>4. PICK v \in Slots : v = IntSlot(Lowest(UnusedBufs))
          BY <5>2
        <5> QED
          BY <5>3, <5>4
      <4> QED
        BY <2>2, <4>1, <4>2
    <3>3. CASE UNCHANGED store
      BY <1>2, <3>1, <3>3
    <3>4. ASSUME NEW f \in Nat, NEW v \in Slots, set_field(i, f, v) PROVE RegisteredInv'
      <4>1. Wrote(i, f, v)
        BY <2>0, <3>4, SetField DEF IInv
      <4>2. \A j \in Ids : /\ objects'[j].live => objects[j].live
                           /\ objects'[j].class = objects[j].class
        BY <2>0, <4>1 DEF Wrote
      <4> QED
        BY <3>1, <4>2 DEF RegisteredInv
    <3> QED
      BY <3>2, <3>3, <3>4
  <2>3. CASE \/ Get(t, i) \/ Drop(t, i) \/ EditList(t, i) \/ SetElement(t, i) \/ Element(t, i)
             \/ Upcall(t, i) \/ \E u \in Tasks : Pass(t, i, u)
    BY <1>2, <2>3 DEF Get, Drop, EditList, SetElement, Element, Upcall, Pass, sides
  <2>4. CASE NewIterator(t, i)
    <3>1. PICK n \in Ids : n = Lowest(Vacant) /\ ~iter_states[n].used
      BY <2>4, VacantFacts DEF NewIterator, alloc_with_field_count, place_in_slot
    <3> DEFINE s == [NoIter EXCEPT !.used = TRUE, !.source = BufOf(i), !.owner = i,
                                   !.expected = list_mod_count(i)]
               o == [live |-> TRUE, class |-> "iterator", off |-> SpanOff(0), count |-> 0,
                     cap |-> 0]
    <3>2. s.used
      BY DEF NoIter
    <3>3. iter_register(n, s) /\ place_in_slot(o)
      BY <2>4, <3>1 DEF NewIterator, alloc_with_field_count
    <3> HIDE DEF s, o
    <3>4. iter_states'[n].used /\ \A j \in Ids \ {n} : iter_states'[j] = iter_states[j]
      BY <1>1, <3>1, <3>2, <3>3 DEF iter_register
    <3> QED
      BY <3>1, <3>3, <3>4, RegisteredPlace
  <2>5. CASE next(t, i) \/ remove(i)
    <3>1. objects' = objects
      BY <2>5 DEF next, remove, store
    <3>2. \A j \in Ids : iter_states'[j].used = iter_states[j].used
      <4>1. CASE next(t, i)
        BY <1>1, <2>0, <4>1 DEF next, IterType
      <4>2. CASE remove(i)
        BY <1>1, <2>0, <4>2 DEF remove, IterType
      <4> QED
        BY <2>5, <4>1, <4>2
    <3> QED
      BY <3>1, <3>2 DEF RegisteredInv
  <2> QED
    BY <1>5, <2>1, <2>2, <2>3, <2>4, <2>5
<1>6. CASE \E n \in Asked(t) : Refused(n)
  BY <1>6 DEF Refused, RegisteredInv, sides
<1> QED
  BY <1>3, <1>4, <1>5, <1>6 DEF TaskStep

LEMMA RegisteredStep ==
    ASSUME PlainClones, IInv, RegisteredInv, [Next]_vars
    PROVE  RegisteredInv'
<1>1. CASE \E t \in Tasks : TaskStep(t)
  BY <1>1, RegisteredTask
<1>2. CASE UNCHANGED vars \/ ScanRoots \/ Mark \/ GiveUp \/ EndMark \/ EndSweep \/ NextSlice
  BY <1>2 DEF RegisteredInv, vars, store, sides, ScanRoots, Mark, GiveUp, EndMark, EndSweep, NextSlice
<1>3. CASE Slide \/ EndSlide
  <2>1. SpansKept
    BY <1>3, SlideStep, EndSlideStep
  <2>2. iter_states' = iter_states
    BY <1>3 DEF Slide, EndSlide, sides
  <2> QED
    BY <2>1, <2>2 DEF RegisteredInv, SpansKept
<1>4. CASE Sweep
  <2>1. PICK i \in Ids : /\ objects'[i] = NoObject
                         /\ \A j \in Ids \ {i} : objects'[j] = objects[j] /\ iter_states'[j] = iter_states[j]
    BY <1>4, SweptFacts
  <2> QED
    BY <2>1 DEF RegisteredInv, NoObject
<1> QED
  BY <1>1, <1>2, <1>3, <1>4 DEF Next, CollectorStep

LEMMA TaskShown ==
    ASSUME PlainClones, NoEmptyRefusals, IInv, IInv', NEW t \in Tasks, TaskStep(t)
    PROVE  Shown
<1>1. phase = "idle"
  BY DEF TaskStep
<1>2. CASE NewList(t) \/ \E shape \in Shapes : New(t, shape[1], shape[2])
  BY <1>1, <1>2, NewSeen DEF Shown
<1>3. CASE Return(t)
  BY <1>1, <1>3, ReturnSeen
<1>4. ASSUME NEW i \in frames[t],
             \/ clone_object(t, i) \/ Put(t, i) \/ Get(t, i) \/ Drop(t, i)
             \/ InitList(i) \/ EditList(t, i) \/ SetElement(t, i) \/ Element(t, i)
             \/ NewIterator(t, i) \/ next(t, i) \/ remove(i) \/ Upcall(t, i)
             \/ \E u \in Tasks : Pass(t, i, u)
      PROVE  Shown
  <2>1. CASE clone_object(t, i)
    BY <1>1, <2>1, CloneSeen DEF Shown
  <2>2. CASE Put(t, i)
    BY <1>1, <2>2, PutSeen DEF Shown
  <2>3. CASE Get(t, i)
    BY <1>1, <2>3, GetSeen DEF Shown
  <2>4. CASE Drop(t, i)
    BY <1>1, <2>4, DropSeen
  <2>5. CASE InitList(i)
    BY <1>1, <2>5, InitListSeen
  <2>6. CASE EditList(t, i)
    BY <1>1, <2>6, EditListSeen DEF Shown
  <2>7. CASE SetElement(t, i)
    BY <1>1, <2>7, SetElementSeen DEF Shown
  <2>8. CASE Element(t, i)
    BY <1>1, <2>8, ElementSeen DEF Shown
  <2>9. CASE NewIterator(t, i)
    BY <1>1, <2>9, NewIteratorSeen DEF Shown
  <2>10. CASE next(t, i)
    BY <1>1, <2>10, NextSeen DEF Shown
  <2>11. CASE remove(i)
    BY <1>1, <2>11, RemoveSeen DEF Shown
  <2>12. CASE Upcall(t, i)
    BY <1>1, <2>12, UpcallSeen
  <2>13. CASE \E u \in Tasks : Pass(t, i, u)
    BY <1>1, <2>13, PassSeen DEF Shown
  <2> QED
    BY <1>4, <2>1, <2>2, <2>3, <2>4, <2>5, <2>6, <2>7, <2>8, <2>9, <2>10, <2>11, <2>12, <2>13
<1>5. CASE \E n \in Asked(t) : Refused(n)
  <2>1. PICK n \in Asked(t) : Refused(n)
    BY <1>5
  <2>2. n \in Nat
    BY AskedFacts, LiveFacts
  <2> QED
    BY <2>1, <2>2, RefusedSeen DEF Shown
<1> QED
  BY <1>2, <1>3, <1>4, <1>5 DEF TaskStep

LEMMA NextShown ==
    ASSUME PlainClones, NoEmptyRefusals, IInv, IInv', RegisteredInv, [Next]_vars
    PROVE  [Java!Next]_(Java!vars)
<1>1. Shown
  <2>1. CASE \E t \in Tasks : TaskStep(t)
    BY <2>1, TaskShown
  <2>2. CASE ScanRoots \/ Mark \/ GiveUp \/ EndMark \/ EndSweep \/ NextSlice
    BY <2>2, CollectorSeen DEF Shown
  <2>3. CASE Slide \/ EndSlide
    BY <2>3, SlidesSeen DEF Shown
  <2>4. CASE Sweep
    <3>1. \E i \in LiveIds : Java!Reclaim(i)
      BY <2>4, SweepSeen
    <3> QED
      BY <3>1, SeenAt DEF Shown, Java!Step
  <2>5. CASE UNCHANGED vars
    <3>1. UNCHANGED <<store, sides, frames, natives>>
      BY <2>5 DEF vars
    <3> QED
      BY <3>1, QuietSeen DEF Shown
  <2> QED
    BY <2>1, <2>2, <2>3, <2>4, <2>5 DEF Next, CollectorStep
<1> QED
  BY <1>1 DEF Shown, Java!Next

LEMMA InitShown ==
    ASSUME Init
    PROVE  Java!Init /\ RegisteredInv
<1>1. /\ objects = [i \in Ids |-> NoObject] /\ frames = [t \in Tasks |-> {}]
      /\ upcalls = [t \in Tasks |-> <<>>]
  BY DEF Init
<1>2. \A i \in Ids : ~objects[i].live
  BY <1>1 DEF NoObject
<1>3. LiveIds = {}
  BY <1>2 DEF LiveIds
<1>4. heapSeen = <<>>
  BY <1>3 DEF heapSeen
<1>5. \A t \in Tasks : {upcalls[t][k].value : k \in DOMAIN upcalls[t]} = {}
  BY <1>1
<1>6. rootsSeen = [t \in Tasks |-> {}]
  BY <1>1, <1>5 DEF rootsSeen
<1> QED
  BY <1>2, <1>4, <1>6 DEF Java!Init, RegisteredInv

\* The heap implements the heap as a Java program sees it (object_heap, gc/mod.rs): growth,
\* marking, the sweep and every slide leave the program's view of each object alone, each
\* operation changes what it names, and an object goes only when nothing reaches it.
THEOREM ImplementsHeap == ASSUME UpcallsNest, PlainClones, NoEmptyRefusals PROVE Spec => ImplementsJavaHeap
<1>1. Init => Java!Init /\ RegisteredInv
  BY InitShown
<1>2. IInv /\ RegisteredInv /\ [Next]_vars => RegisteredInv'
  BY RegisteredStep
<1>3. IInv /\ IInv' /\ RegisteredInv /\ [Next]_vars => [Java!Next]_(Java!vars)
  BY NextShown
<1>4. Spec => []IInv
  BY Inductive
<1> QED
  BY <1>1, <1>2, <1>3, <1>4, PTL DEF Spec, ImplementsJavaHeap, Java!Spec

=============================================================================
