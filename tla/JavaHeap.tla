------------------------------ MODULE JavaHeap ------------------------------
(***************************************************************************)
(* The heap as a Java program sees it: objects with fields, lists with     *)
(* their elements, iterators that fail fast.  An object lasts as long as   *)
(* it can be reached.  There are no offsets, buffers, marks or             *)
(* collections here.                                                       *)
(***************************************************************************)
EXTENDS Naturals, Sequences

CONSTANTS Ids, Tasks, MaxSpan

VARIABLES heap,     \* what each object holds
          roots     \* the objects each task refers to

vars == <<heap, roots>>

Null == <<"null", 0>>
Ref(i) == <<"ref", i>>

\* A field or element; the n-th field that was never written reads as null.
At(s, n) == IF n \in DOMAIN s THEN s[n] ELSE Null
With(s, n, v) == SubSeq(s, 1, n) \o <<v>> \o SubSeq(s, n + 1, Len(s))
Without(s, n) == [k \in 1..(Len(s) - 1) |-> s[IF k < n THEN k ELSE k + 1]]

Plain(fields) == [class |-> "object", fields |-> fields]
List(elems, mods) == [class |-> "list", elems |-> elems, mods |-> mods]
Iterator(l, mods) == [class |-> "iterator", of |-> l, position |-> 0, last |-> 0, expected |-> mods]

Targets(s) == {s[n][2] : n \in {k \in DOMAIN s : s[k][1] = "ref"}}
Refers(o) == CASE o.class = "object" -> Targets(o.fields)
               [] o.class = "list" -> Targets(o.elems)
               [] o.class = "iterator" -> {o.of}

-----------------------------------------------------------------------------
Init == heap = <<>> /\ roots = [t \in Tasks |-> {}]

Hold(t, v) == roots' = [roots EXCEPT ![t] = @ \cup Targets(<<v>>)]
Change(i, o) == heap' = [heap EXCEPT ![i] = o] /\ UNCHANGED roots

New(t, i, o) == /\ i \notin DOMAIN heap
                /\ heap' = [j \in DOMAIN heap \cup {i} |-> IF j = i THEN o ELSE heap[j]]
                /\ Hold(t, Ref(i))

Grown(s, n) == [k \in 1..n |-> At(s, k)]
Put(i, f, v) == LET s == heap[i].fields
                    n == IF f > Len(s) THEN f ELSE Len(s)
                IN  Change(i, Plain([Grown(s, n) EXCEPT ![f] = v]))
Get(t, i, f) == Hold(t, At(heap[i].fields, f)) /\ UNCHANGED heap

Insert(i, n, v) == /\ n \in 0..Len(heap[i].elems)
                   /\ Change(i, List(With(heap[i].elems, n, v), heap[i].mods + 1))
Set(i, n, v) == /\ n \in DOMAIN heap[i].elems
                /\ Change(i, List([heap[i].elems EXCEPT ![n] = v], heap[i].mods))
Remove(i, n) == /\ n \in 1..Len(heap[i].elems)
                /\ Change(i, List(Without(heap[i].elems, n), heap[i].mods + 1))
Clear(i) == Change(i, List(<<>>, heap[i].mods + 1))
Element(t, i, n) == Hold(t, At(heap[i].elems, n)) /\ UNCHANGED heap

Steady(i) == heap[heap[i].of].mods = heap[i].expected
NextOf(t, i) ==
    LET it == heap[i] IN
    /\ Steady(i) /\ it.position < Len(heap[it.of].elems)
    /\ heap' = [heap EXCEPT ![i].position = @ + 1, ![i].last = it.position + 1]
    /\ Hold(t, heap[it.of].elems[it.position + 1])
RemoveLast(i) ==
    LET it == heap[i]
        l == heap[it.of]
    IN  /\ Steady(i) /\ it.last \in 1..Len(l.elems)
        /\ heap' = [heap EXCEPT ![it.of] = List(Without(l.elems, it.last), l.mods + 1),
                                ![i].position = it.last - 1, ![i].last = 0,
                                ![i].expected = l.mods + 1]
        /\ UNCHANGED roots

Drop(t, i) == roots' = [roots EXCEPT ![t] = @ \ {i}] /\ UNCHANGED heap
Pass(i, u) == Hold(u, Ref(i)) /\ UNCHANGED heap

\* An object goes only when nothing that can be reached refers to it.
Closed(L) == /\ \A t \in Tasks : roots[t] \subseteq L
             /\ \A i \in L : Refers(heap[i]) \subseteq L
Reclaim(i) == /\ \E L \in SUBSET (DOMAIN heap \ {i}) : Closed(L)
              /\ heap' = [j \in DOMAIN heap \ {i} |-> heap[j]]
              /\ UNCHANGED roots

Values(t) == {Null} \cup {Ref(i) : i \in roots[t]}
Fresh(t) == {Plain([k \in 1..n |-> Null]) : n \in 0..MaxSpan} \cup {List(<<>>, 0)}
               \cup {heap[i] : i \in {j \in roots[t] : heap[j].class = "object"}}
               \cup {Iterator(l, heap[l].mods) : l \in {i \in roots[t] : heap[i].class = "list"}}
OnObject(t, i) ==
    \/ \E f \in 1..MaxSpan : Get(t, i, f) \/ \E v \in Values(t) : Put(i, f, v)
OnList(t, i) ==
    \/ \E v \in Values(t), n \in 0..Len(heap[i].elems) : Insert(i, n, v) \/ Set(i, n, v)
    \/ \E n \in 1..Len(heap[i].elems) : Element(t, i, n) \/ Remove(i, n)
    \/ Clear(i)
OnIterator(t, i) == NextOf(t, i) \/ RemoveLast(i)

Step == \/ \E t \in Tasks :
              \/ \E i \in Ids, o \in Fresh(t) : New(t, i, o)
              \/ \E i \in roots[t] :
                    \/ heap[i].class = "object" /\ OnObject(t, i)
                    \/ heap[i].class = "list" /\ OnList(t, i)
                    \/ heap[i].class = "iterator" /\ OnIterator(t, i)
                    \/ Drop(t, i)
                    \/ \E u \in Tasks : Pass(i, u)
        \/ \E i \in DOMAIN heap : Reclaim(i)

\* A step that changes nothing the program sees is no step.
Next == vars' # vars /\ Step

Spec == Init /\ [][Next]_vars
=============================================================================
