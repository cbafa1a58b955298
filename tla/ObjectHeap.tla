----------------------------- MODULE ObjectHeap -----------------------------
(***************************************************************************)
(* The object heap of the interpreter (crates/jvm/src/object_heap) and its *)
(* collector (crates/jvm/src/gc): descriptors in slots, fields in one      *)
(* arena, the buffers of lists and the states of iterators in stores       *)
(* beside it, and a mark, sweep and compact collection that slides the     *)
(* spans of the arena down a slice at a time.                              *)
(*                                                                         *)
(* One task interprets at a time (RunLock); another may go on wherever     *)
(* Java blocks, so the tasks' operations interleave here.  A collection is *)
(* one atomic section in the code; its steps are steps here, and nothing   *)
(* else moves meanwhile.                                                   *)
(***************************************************************************)
EXTENDS Integers, Sequences, FiniteSets

CONSTANTS Tasks,
          MaxSlots,         \* REF_TOP, the slots a reference can name
          ArenaMax,         \* the fields the allocator gives the arena
          MaxSpan,          \* u8::MAX, the longest span
          SLICE_ENTRIES,
          Shapes,           \* of a new object: its span, and how much of it is written
          MaxBufs, MaxElems, MaxMods, MaxUpcalls,     \* bounds
          LifoUpcalls,      \* upcalls of different tasks end in reverse order
          Cloned,           \* the classes of the objects that the program clones
          EmptyRefusals     \* an object without fields may find no slot

ASSUME SizesAssumption == {MaxSlots, ArenaMax, MaxSpan, MaxBufs} \subseteq Nat
ASSUME ShapesAssumption == \A s \in Shapes : s[1] \in Nat /\ s[2] \in 0..s[1]
ASSUME FlagsAssumption == {LifoUpcalls, EmptyRefusals} \subseteq BOOLEAN

VARIABLES objects, fields_arena, arena_len, first_free,
          list_bufs, iter_states,
          frames,           \* what the frames of each task refer to
          upcalls,          \* natives that called Java: the value each holds, and its mark
          shadow_roots,
          phase, work, marks, exhausted, write_pos, slice, after

store == <<objects, fields_arena, arena_len, first_free>>
sides == <<list_bufs, iter_states>>
natives == <<upcalls, shadow_roots>>
gc == <<phase, work, marks, exhausted, write_pos, slice, after>>
vars == <<store, sides, frames, natives, gc>>

Ids == 0..(MaxSlots - 1)
Bufs == 0..(MaxBufs - 1)
Arena == 0..(ArenaMax - 1)
Classes == {"object", "list", "iterator"}

Null == <<"null", 0>>
Ref(i) == <<"ref", i>>
IntSlot(b) == <<"int", b>>
Slots == {Null} \cup {Ref(i) : i \in Ids} \cup {IntSlot(b) : b \in Bufs}

NoObject == [live |-> FALSE, class |-> "object", off |-> 0, count |-> 0, cap |-> 0]
NoBuf == [used |-> FALSE, elems |-> <<>>, mods |-> 0]
NoIter == [used |-> FALSE, source |-> 0, owner |-> 0, position |-> 0, last |-> 0, expected |-> 0]
NoKey == [off |-> -1, slot |-> 0, cap |-> 0]

Lowest(S) == CHOOSE x \in S : \A y \in S : x <= y
Targets(S) == {v[2] : v \in {w \in S : w[1] = "ref"}}
With(s, n, v) == SubSeq(s, 1, n) \o <<v>> \o SubSeq(s, n + 1, Len(s))
Without(s, n) == [k \in 1..(Len(s) - 1) |-> s[IF k < n THEN k ELSE k + 1]]

Init == /\ objects = [i \in Ids |-> NoObject]
        /\ fields_arena = [p \in Arena |-> Null] /\ arena_len = 0 /\ first_free = 0
        /\ list_bufs = [b \in Bufs |-> NoBuf]
        /\ iter_states = [i \in Ids |-> NoIter]
        /\ frames = [t \in Tasks |-> {}]
        /\ upcalls = [t \in Tasks |-> <<>>] /\ shadow_roots = <<>>
        /\ phase = "idle" /\ work = {} /\ marks = {} /\ exhausted = FALSE
        /\ write_pos = 0 /\ slice = {} /\ after = NoKey

-----------------------------------------------------------------------------
(* The arena and the slots. *)
Copied(a, from, n, to) ==
    [p \in Arena |-> IF to <= p /\ p < to + n THEN a[from + (p - to)] ELSE a[p]]
Cleared(a, to, n) == [p \in Arena |-> IF to <= p /\ p < to + n THEN Null ELSE a[p]]

alloc_span(n) == n <= MaxSpan /\ arena_len + n <= ArenaMax
SpanOff(n) == IF n = 0 THEN 0 ELSE arena_len

Vacant == {i \in Ids : first_free <= i /\ ~objects[i].live}
place_in_slot(o) ==
    /\ Vacant # {}
    /\ objects' = [objects EXCEPT ![Lowest(Vacant)] = o]
    /\ first_free' = Lowest(Vacant) + 1

\* The arena loses what lies at len and above it.
truncate(len) ==
    /\ arena_len' = len
    /\ fields_arena' = [p \in Arena |-> IF p < len THEN fields_arena[p] ELSE Null]

FieldsOf(o) == {fields_arena[o.off + f] : f \in 0..(o.count - 1)}
get_field(i, f) == IF objects[i].live /\ f < objects[i].count
                   THEN fields_arena[objects[i].off + f] ELSE Null

Hold(t, v) == frames' = [frames EXCEPT ![t] = @ \cup Targets({v})]

alloc_with_field_count(t, class, n, count) ==
    /\ alloc_span(n)
    /\ fields_arena' = Cleared(fields_arena, arena_len, n)
    /\ arena_len' = arena_len + n
    /\ place_in_slot([live |-> TRUE, class |-> class, off |-> SpanOff(n), count |-> count,
                      cap |-> n])
    /\ Hold(t, Ref(Lowest(Vacant)))

\* alloc_instance writes every field of the class, alloc none.
New(t, n, count) ==
    /\ alloc_with_field_count(t, "object", n, count)
    /\ UNCHANGED <<sides, natives, gc>>

clone_object(t, i) ==
    LET src == objects[i] IN
    /\ src.class \in Cloned /\ alloc_span(src.cap)
    /\ fields_arena' = Copied(fields_arena, src.off, src.cap, SpanOff(src.cap))
    /\ arena_len' = arena_len + src.cap
    /\ place_in_slot([src EXCEPT !.off = SpanOff(src.cap)])
    /\ Hold(t, Ref(Lowest(Vacant)))
    /\ UNCHANGED <<sides, natives, gc>>

\* No slot is left for an object of n fields: the span reserved for it is given back, and
\* one of no fields counts as the span at 0.
Refused(n) ==
    /\ alloc_span(n) /\ Vacant = {} /\ (n = 0 => EmptyRefusals)
    /\ truncate(SpanOff(n)) /\ first_free' = MaxSlots
    /\ UNCHANGED <<objects, sides, frames, natives, gc>>

\* The spans that a task asks for: of a new object, of a list or an iterator, of a clone.
Asked(t) == {shape[1] : shape \in Shapes} \cup {0}
              \cup {objects[i].cap : i \in {j \in frames[t] : objects[j].class \in Cloned}}

\* Mutant: the span moves and its old fields stay behind.
LazyGrown_Uncopied(o, n) == Cleared(fields_arena, arena_len, n)

LazyGrown(o, n) == Copied(Cleared(fields_arena, arena_len, n), o.off, o.cap, arena_len)

set_field(i, f, v) ==
    LET o == objects[i]
        needed == f + 1
        count == IF needed > o.count THEN needed ELSE o.count
    IN  \/ /\ needed <= o.cap
           /\ fields_arena' = [fields_arena EXCEPT ![o.off + f] = v]
           /\ objects' = [objects EXCEPT ![i].count = count]
           /\ UNCHANGED <<arena_len, first_free>>
        \/ /\ needed > o.cap /\ alloc_span(needed)
           /\ fields_arena' = [LazyGrown(o, needed) EXCEPT ![arena_len + f] = v]
           /\ arena_len' = arena_len + needed
           /\ objects' = [objects EXCEPT ![i] = [o EXCEPT !.off = arena_len, !.cap = needed,
                                                          !.count = count]]
           /\ UNCHANGED first_free

Values(t) == {Null} \cup {Ref(i) : i \in frames[t]}

Put(t, i) == /\ objects[i].class = "object"
             /\ \E f \in 0..(MaxSpan - 1), v \in Values(t) : set_field(i, f, v)
             /\ UNCHANGED <<sides, frames, natives, gc>>

Get(t, i) == /\ objects[i].class = "object"
             /\ \E f \in 0..(MaxSpan - 1) : Hold(t, get_field(i, f))
             /\ UNCHANGED <<store, sides, natives, gc>>

Drop(t, i) == /\ frames' = [frames EXCEPT ![t] = @ \ {i}]
              /\ UNCHANGED <<store, sides, natives, gc>>

\* A static field, a Thread's field or a queue passes an object to another task.
Pass(t, i, u) == Hold(u, Ref(i)) /\ UNCHANGED <<store, sides, natives, gc>>

-----------------------------------------------------------------------------
(* Lists and iterators: object_heap/list_store.rs, object_heap/iter_store.rs, *)
(* native/collections.rs, native/iterator.rs.                              *)
HasBuf(i) == objects[i].class = "list" /\ get_field(i, 0)[1] = "int"
BufOf(i) == get_field(i, 0)[2]
list_slots(i) == IF HasBuf(i) THEN list_bufs[BufOf(i)].elems ELSE <<>>
list_mod_count(i) == IF HasBuf(i) THEN list_bufs[BufOf(i)].mods ELSE 0

NewList(t) == /\ alloc_with_field_count(t, "list", 0, 0)
              /\ UNCHANGED <<sides, natives, gc>>

UnusedBufs == {b \in Bufs : ~list_bufs[b].used}

\* A buffer that finds no field stays allocated, and <init> runs again after a collection.
InitList(i) ==
    /\ objects[i].class = "list" /\ ~HasBuf(i) /\ UnusedBufs # {}
    /\ list_bufs' = [list_bufs EXCEPT ![Lowest(UnusedBufs)] = [NoBuf EXCEPT !.used = TRUE]]
    /\ IF alloc_span(1) THEN set_field(i, 0, IntSlot(Lowest(UnusedBufs))) ELSE UNCHANGED store
    /\ UNCHANGED <<iter_states, frames, natives, gc>>

Edited(b, elems) == [list_bufs EXCEPT ![b].elems = elems, ![b].mods = @ + 1]

EditList(t, i) ==
    /\ HasBuf(i) /\ list_mod_count(i) < MaxMods
    /\ \/ /\ Len(list_slots(i)) < MaxElems
          /\ \E v \in Values(t), n \in 0..Len(list_slots(i)) :
                list_bufs' = Edited(BufOf(i), With(list_slots(i), n, v))
       \/ \E n \in DOMAIN list_slots(i) :
             list_bufs' = Edited(BufOf(i), Without(list_slots(i), n))
       \/ list_bufs' = Edited(BufOf(i), <<>>)
    /\ UNCHANGED <<store, iter_states, frames, natives, gc>>

\* Replacing an element is no structural change.
SetElement(t, i) ==
    /\ HasBuf(i)
    /\ \E n \in DOMAIN list_slots(i), v \in Values(t) :
          list_bufs' = [list_bufs EXCEPT ![BufOf(i)].elems[n] = v]
    /\ UNCHANGED <<store, iter_states, frames, natives, gc>>

Element(t, i) == /\ HasBuf(i)
                 /\ \E n \in DOMAIN list_slots(i) : Hold(t, list_slots(i)[n])
                 /\ UNCHANGED <<store, sides, natives, gc>>

\* iter_get finds the first state registered for an object.
iter_register(i, state) ==
    iter_states' = [iter_states EXCEPT ![i] = IF @.used THEN @ ELSE state]

NewIterator(t, i) ==
    /\ HasBuf(i)
    /\ alloc_with_field_count(t, "iterator", 0, 0)
    /\ iter_register(Lowest(Vacant),
                     [NoIter EXCEPT !.used = TRUE, !.source = BufOf(i), !.owner = i,
                                    !.expected = list_mod_count(i)])
    /\ UNCHANGED <<list_bufs, natives, gc>>

Steady(s) == list_bufs[s.source].mods = s.expected

next(t, i) ==
    LET s == iter_states[i] IN
    /\ s.used /\ Steady(s) /\ s.position < Len(list_bufs[s.source].elems)
    /\ Hold(t, list_bufs[s.source].elems[s.position + 1])
    /\ iter_states' = [iter_states EXCEPT ![i].last = s.position + 1, ![i].position = @ + 1]
    /\ UNCHANGED <<store, list_bufs, natives, gc>>

remove(i) ==
    LET s == iter_states[i]
        elems == list_bufs[s.source].elems
    IN  /\ s.used /\ s.last # 0 /\ Steady(s) /\ s.last <= Len(elems)
        /\ list_bufs[s.source].mods < MaxMods
        /\ list_bufs' = Edited(s.source, Without(elems, s.last))
        /\ iter_states' = [iter_states EXCEPT ![i].position = s.last - 1, ![i].last = 0,
                                              ![i].expected = @ + 1]
        /\ UNCHANGED <<store, frames, natives, gc>>

-----------------------------------------------------------------------------
(* Upcalls: invoke_java_at and sort_list_with_comparator root the values   *)
(* that the native still needs and that no frame holds.                    *)
Upcall(t, i) ==
    /\ Len(shadow_roots) < MaxUpcalls
    /\ upcalls' = [upcalls EXCEPT ![t] = Append(@, [value |-> i, mark |-> Len(shadow_roots)])]
    /\ shadow_roots' = Append(shadow_roots, i)
    /\ UNCHANGED <<store, sides, frames, gc>>

Newest(t) == upcalls[t][Len(upcalls[t])]
\* Mutant: the roots of a call that returned stay.
truncate_shadow_roots_Kept(mark) == shadow_roots' = shadow_roots

truncate_shadow_roots(mark) ==
    shadow_roots' = SubSeq(shadow_roots, 1, IF mark < Len(shadow_roots) THEN mark
                                            ELSE Len(shadow_roots))

\* Java returns, and the native goes on with its value.
Return(t) ==
    /\ upcalls[t] # <<>>
    /\ LifoUpcalls => Newest(t).mark + 1 = Len(shadow_roots)
    /\ truncate_shadow_roots(Newest(t).mark)
    /\ upcalls' = [upcalls EXCEPT ![t] = SubSeq(@, 1, Len(@) - 1)]
    /\ Hold(t, Ref(Newest(t).value))
    /\ UNCHANGED <<store, sides, gc>>

TaskStep(t) == /\ phase = "idle"
               /\ \/ \E shape \in Shapes : New(t, shape[1], shape[2])
                  \/ \E n \in Asked(t) : Refused(n)
                  \/ NewList(t) \/ Return(t)
                  \/ \E i \in frames[t] :
                        \/ clone_object(t, i) \/ Put(t, i) \/ Get(t, i) \/ Drop(t, i)
                        \/ InitList(i) \/ EditList(t, i) \/ SetElement(t, i) \/ Element(t, i)
                        \/ NewIterator(t, i) \/ next(t, i) \/ remove(i) \/ Upcall(t, i)
                        \/ \E u \in Tasks : Pass(t, i, u)

-----------------------------------------------------------------------------
(* collect: gc/mod.rs, gc/compact.rs, compact_fields_arena. *)
Elements(s) == {s[n] : n \in DOMAIN s}

Rooted == Elements(shadow_roots) \cup UNION {frames[t] : t \in Tasks}

Children(i) == Targets(FieldsOf(objects[i])) \cup Targets(Elements(list_slots(i)))
                 \cup (IF iter_states[i].used THEN {iter_states[i].owner} ELSE {})

\* A push may be refused.  Nothing will then be swept, so what else is marked is no matter.
Push(rest, refs) ==
    \/ work' = rest \cup refs /\ UNCHANGED exhausted
    \/ refs # {} /\ work' = {} /\ exhausted' = TRUE

Idle == /\ phase' = "idle" /\ work' = {} /\ marks' = {} /\ exhausted' = FALSE
        /\ write_pos' = 0 /\ slice' = {} /\ after' = NoKey

ScanRoots ==
    /\ phase = "idle" /\ phase' = "mark" /\ Push({}, Rooted)
    /\ UNCHANGED <<marks, write_pos, slice, after, store, sides, frames, natives>>

Mark ==
    LET i == Lowest(work) IN
    /\ phase = "mark" /\ work # {}
    /\ IF i \in marks THEN work' = work \ {i} /\ UNCHANGED <<marks, exhausted>>
       ELSE marks' = marks \cup {i} /\ Push(work \ {i}, Children(i))
    /\ UNCHANGED <<phase, write_pos, slice, after, store, sides, frames, natives>>

GiveUp == /\ phase = "mark" /\ work = {} /\ exhausted /\ Idle
          /\ UNCHANGED <<store, sides, frames, natives>>

EndMark == /\ phase = "mark" /\ work = {} /\ ~exhausted /\ phase' = "sweep"
           /\ UNCHANGED <<work, marks, exhausted, write_pos, slice, after>>
           /\ UNCHANGED <<store, sides, frames, natives>>

Unmarked == {i \in Ids : objects[i].live /\ i \notin marks}
free(i) == /\ objects' = [objects EXCEPT ![i] = NoObject]
           /\ first_free' = IF i < first_free THEN i ELSE first_free
           /\ UNCHANGED <<fields_arena, arena_len>>

\* Mutant: the state of a dead iterator stays for the next object in its slot.
Sweep_IteratorKept ==
    LET i == Lowest(Unmarked) IN
    /\ phase = "sweep" /\ Unmarked # {}
    /\ list_bufs' = IF HasBuf(i) THEN [list_bufs EXCEPT ![BufOf(i)] = NoBuf] ELSE list_bufs
    /\ free(i)
    /\ UNCHANGED <<iter_states, frames, natives, gc>>

Sweep == LET i == Lowest(Unmarked) IN
         /\ phase = "sweep" /\ Unmarked # {}
         /\ list_bufs' = IF HasBuf(i)
                         THEN [list_bufs EXCEPT ![BufOf(i)].used = FALSE, ![BufOf(i)].elems = <<>>]
                         ELSE list_bufs
         /\ iter_states' = [iter_states EXCEPT ![i] = NoIter]
         /\ free(i)
         /\ UNCHANGED <<frames, natives, gc>>

Key(i) == [off |-> objects[i].off, slot |-> i, cap |-> objects[i].cap]
Below(j, k) == j.off < k.off \/ (j.off = k.off /\ j.slot < k.slot)
First(S) == CHOOSE k \in S : \A j \in S \ {k} : Below(k, j)

\* The spans that are still to move: those above the last key of the slice before.
Pending == {Key(i) : i \in {j \in Ids : objects[j].live /\ objects[j].cap > 0
                                         /\ Below(after, Key(j))}}

\* The lowest of them, in as many passes as the buffer needs.
next_slice(S) == /\ S \subseteq Pending
                 /\ IF Cardinality(Pending) <= SLICE_ENTRIES THEN S = Pending
                    ELSE Cardinality(S) = SLICE_ENTRIES
                 /\ \A k \in S, j \in Pending \ S : Below(k, j)

\* A heap too full for the buffer of the slices skips the compaction.
EndSweep ==
    /\ phase = "sweep" /\ Unmarked = {}
    /\ \/ /\ phase' = "slide"
          /\ \E S \in SUBSET Pending : next_slice(S) /\ slice' = S
          /\ UNCHANGED <<work, marks, exhausted, write_pos, after>>
       \/ Idle
    /\ UNCHANGED <<store, sides, frames, natives>>

Slid(k) == Copied(fields_arena, k.off, k.cap, write_pos)

Slide ==
    LET k == First(slice) IN
    /\ phase = "slide" /\ slice # {}
    /\ fields_arena' = Slid(k)
    /\ objects' = [objects EXCEPT ![k.slot].off = write_pos]
    /\ write_pos' = write_pos + k.cap
    /\ slice' = slice \ {k} /\ after' = k
    /\ UNCHANGED <<arena_len, first_free, phase, work, marks, exhausted>>
    /\ UNCHANGED <<sides, frames, natives>>

NextSlice ==
    /\ phase = "slide" /\ slice = {} /\ Pending # {}
    /\ \E S \in SUBSET Pending : next_slice(S) /\ slice' = S
    /\ UNCHANGED <<phase, work, marks, exhausted, write_pos, after>>
    /\ UNCHANGED <<store, sides, frames, natives>>

EndSlide ==
    /\ phase = "slide" /\ slice = {} /\ Pending = {}
    /\ truncate(write_pos)
    /\ Idle
    /\ UNCHANGED <<objects, first_free, sides, frames, natives>>

CollectorStep == \/ ScanRoots \/ Mark \/ GiveUp \/ EndMark
                 \/ Sweep \/ EndSweep \/ Slide \/ NextSlice \/ EndSlide

Next == (\E t \in Tasks : TaskStep(t)) \/ CollectorStep

Spec == Init /\ [][Next]_vars

-----------------------------------------------------------------------------
TypeOK ==
    /\ objects \in [Ids -> [live : BOOLEAN, class : Classes, off : 0..ArenaMax,
                            count : 0..MaxSpan, cap : 0..MaxSpan]]
    /\ fields_arena \in [Arena -> Slots] /\ arena_len \in 0..ArenaMax
    /\ first_free \in 0..MaxSlots
    /\ frames \in [Tasks -> SUBSET Ids]
    /\ phase \in {"idle", "mark", "sweep", "slide"}
    /\ work \subseteq Ids /\ marks \subseteq Ids /\ exhausted \in BOOLEAN

LiveIds == {i \in Ids : objects[i].live}
Spanned == {i \in LiveIds : objects[i].cap > 0}

\* Spans lie in the arena and apart, whatever grew, was cloned or slid (integrity_check).
SpansDisjoint ==
    /\ \A i \in LiveIds : objects[i].count <= objects[i].cap
    /\ \A i \in Spanned : objects[i].off + objects[i].cap <= arena_len
    /\ \A i, j \in Spanned : i # j => \/ objects[i].off + objects[i].cap <= objects[j].off
                                      \/ objects[j].off + objects[j].cap <= objects[i].off

\* No free slot lies below first_free, so none is lost (integrity_check).
FirstFreeExact == \A i \in Ids : i < first_free => objects[i].live

\* The lists and iterators that a collection in progress keeps.
Kept == IF phase = "sweep" THEN LiveIds \cap marks ELSE LiveIds

\* A list owns its buffer alone, and an iterator walks the buffer of its live owner.
BuffersOwned ==
    /\ \A i \in LiveIds : HasBuf(i) => list_bufs[BufOf(i)].used
    /\ \A i, j \in LiveIds : HasBuf(i) /\ HasBuf(j) /\ BufOf(i) = BufOf(j) => i = j
    /\ \A i \in Ids : iter_states[i].used => objects[i].live /\ objects[i].class = "iterator"
    /\ \A i \in Kept : LET s == iter_states[i] IN
           s.used => s.owner \in Kept /\ HasBuf(s.owner) /\ s.source = BufOf(s.owner)

\* Outside the sweep every reference, in a root or in an object, names a live object.
Held == UNION {{upcalls[t][k].value : k \in DOMAIN upcalls[t]} : t \in Tasks}
RefsLive == phase # "sweep" => /\ Rooted \cup Held \subseteq LiveIds
                               /\ \A i \in LiveIds : Children(i) \subseteq LiveIds

\* The heap's structure, which field growth, recycled slots, side buffers and collections share.
HeapSound == TypeOK /\ SpansDisjoint /\ FirstFreeExact /\ BuffersOwned /\ RefsLive

\* A native that called Java still finds its receiver and arguments alive afterwards (the
\* docs of shadow_roots, gc/mod.rs:186-200).
NativesRooted == phase = "idle" => Held \subseteq LiveIds

\* A sweep that ends leaves what can be reached and nothing else, and a compaction leaves the
\* arena without a gap.
ClosedSet(L) == /\ Held \cup UNION {frames[t] : t \in Tasks} \subseteq L
                /\ \A i \in L : Children(i) \subseteq L
Reachable == {i \in Ids : \A L \in SUBSET Ids : ClosedSet(L) => i \in L}
Covered(p) == \E i \in Spanned : objects[i].off <= p /\ p < objects[i].off + objects[i].cap
Arranged == \A p \in 0..(arena_len - 1) : Covered(p)
SweepsExactly == [][/\ phase = "sweep" /\ phase' # "sweep" => LiveIds = Reachable
                    /\ phase = "slide" /\ phase' = "idle" => Arranged']_vars

\* What the program sees of an object.
Content(i) ==
    LET o == objects[i]
        s == iter_states[i]
    IN  CASE o.class = "object" -> [class |-> "object",
                                    fields |-> [k \in 1..o.count |-> get_field(i, k - 1)]]
          [] o.class = "list" -> [class |-> "list", elems |-> list_slots(i),
                                  mods |-> list_mod_count(i)]
          [] o.class = "iterator" -> [class |-> "iterator", of |-> s.owner, last |-> s.last,
                                      position |-> s.position, expected |-> s.expected]
heapSeen == [i \in LiveIds |-> Content(i)]
rootsSeen == [t \in Tasks |-> frames[t] \cup {upcalls[t][k].value : k \in DOMAIN upcalls[t]}]

\* Growth, marking, sweeping and every slide leave the program's view of each object alone,
\* and an object goes only when nothing reaches it.
Java == INSTANCE JavaHeap WITH heap <- heapSeen, roots <- rootsSeen
ImplementsJavaHeap == Java!Spec
=============================================================================
