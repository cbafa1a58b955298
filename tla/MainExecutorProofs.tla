------------------------- MODULE MainExecutorProofs -------------------------
(***************************************************************************)
(* Proofs about MainExecutor, for any number of callers, futures, lambdas, *)
(* slots and queue positions: the statics beside the main queue mirror it, *)
(* nothing overtakes in it, the deadline table and the futures agree, and  *)
(* what is over is gone.                                                   *)
(***************************************************************************)
EXTENDS MainExecutor, FiniteSetTheorems, SequenceTheorems, TLAPS

-----------------------------------------------------------------------------
(* The parts of the inductive invariant. *)

Words == {"tick", "wake"} \cup Runnables
Entry == [runnable : Futures \cup {None}, left : (-Period)..(Period + MaxDelay), kind : Kinds,
          in_flight : BOOLEAN, live : BOOLEAN, generation : 0..Generations-1]
Future == [state : {"none", "NEW", "RUNNING", "DONE", "CANCELLED"}, kind : Kinds,
           id : Ids \cup {NoId}, missed : BOOLEAN, age : 0..Generations]
Process == [pc : PC, task : Runnables \cup {None}, id : Ids \cup {NoId}, rest : SUBSET Futures]

\* TypeOK, with the bounded sequences taken apart.
QueueType == queue \in Seq(Words) /\ Len(queue) <= QUEUE_CAPACITY
ShadowType == shadow \in Seq(Runnables) /\ Len(shadow) <= QUEUE_CAPACITY
FlagsType == /\ hand \in {"none"} \cup Words /\ overrun \in BOOLEAN /\ tick_in_queue \in BOOLEAN
             /\ ticking \in BOOLEAN /\ shutdown \in BOOLEAN /\ interrupted \in BOOLEAN
             /\ armed \subseteq Futures
TableType == table \in [Slots -> Entry]
FutureType == future \in [Futures -> Future]
ProcType == proc \in [Procs -> Process]
Types == QueueType /\ ShadowType /\ FlagsType /\ TableType /\ FutureType /\ ProcType

\* Where a Java task can be, and what its locals are there.
UIPlaces == {"turn", "recv", "got", "tick", "call", "run", "calling", "report", "complete",
             "done", "taken", "freed", "ended"}
CallerPlaces == {"idle", "added", "armed", "rejected", "shut", "done", "taken", "freed"}
Arming == {"added", "armed", "rejected"}
OfFuture == Arming \cup {"done", "taken", "freed", "run", "calling", "report", "complete"}
PlaceInv ==
    /\ proc[UI].pc \in UIPlaces /\ \A c \in Callers : proc[c].pc \in CallerPlaces
    /\ hand # "none" <=> proc[UI].pc = "got"
    /\ \A p \in Procs :
          /\ proc[p].pc \in OfFuture => proc[p].task \in Futures
          /\ proc[p].pc = "call" => proc[p].task \in Plain
          /\ proc[p].pc \notin OfFuture \cup {"call"} => proc[p].task = None
          /\ proc[p].pc \notin {"armed", "taken", "complete"} => proc[p].id = NoId
          /\ proc[p].pc = "armed" => proc[p].id # NoId

\* The statics beside the queue.
MirrorInv == TickFlagExact /\ ShadowExact

\* The deadline table `T`: who has a live entry, and at most one.
Ent(T, f) == {s \in Slots : T[s].live /\ T[s].runnable = f}
EntryTrue(T, s) == T[s].live => /\ T[s].runnable \in Futures
                                /\ T[s].kind = future[T[s].runnable].kind
                                /\ T[s].in_flight => T[s].kind = "FixedDelay"
TableTrue(T) ==
    /\ \A s \in Slots : EntryTrue(T, s)
    /\ \A s, r \in Slots : T[s].live /\ T[r].live /\ T[s].runnable = T[r].runnable => s = r
TableInv == TableTrue(table)

\* The runs of `f` on their way when the queue is `q`.
RunsUI(f) == IF UIRuns(f) THEN 1 ELSE 0
Held(w) == IF hand = w THEN 1 ELSE 0
OutIn(q, f) == Times(q, f) + Held(f) + RunsUI(f)
Out(f) == OutIn(queue, f)

\* A future that was never given to arm is nowhere; one that is being armed is
\* so by one task, has no id yet, and no entry before it has its slot.
Unused(f) == Ent(table, f) = {} /\ Out(f) = 0
ArmInv ==
    /\ \A f \in Futures : future[f].state = "none" =>
          Unused(f) /\ future[f].id = NoId /\ \A p \in Procs : proc[p].task # f
    /\ \A p \in Procs : proc[p].pc \in Arming => future[proc[p].task].id = NoId
    /\ \A p, q \in Procs :
          proc[p].pc \in Arming /\ proc[q].pc \in Arming /\ proc[p].task = proc[q].task => p = q
    /\ \A p \in Procs : proc[p].pc \in {"added", "rejected"} => Unused(proc[p].task)
    /\ \A p, q \in Procs :
          proc[p].pc = "added" /\ proc[q].task = proc[p].task => proc[q].id = NoId

\* An id of `f` names its entry while it has one.  Then the generation of the
\* slot is ahead, by no more than the times the slot was freed while the id was
\* held: until these are as many as there are generations, it has not come round.
Dist(h, g) == IF h <= g THEN g - h ELSE g - h + Generations
Since(T, id) == Dist(id[2], T[id[1]].generation)
Names(T, n, f, id) ==
    id # NoId =>
        IF Ent(T, f) = {} THEN n < Generations => 1 <= Since(T, id) /\ Since(T, id) <= n
        ELSE \A r \in Ent(T, f) : id = <<r, T[r].generation>>
IdInv ==
    /\ \A f \in Futures : Names(table, future[f].age, f, future[f].id)
    /\ \A p \in Procs : proc[p].task \in Futures =>
          Names(table, future[proc[p].task].age, proc[p].task, proc[p].id)

\* How many runs of a future may be on their way, until an id can name another's
\* entry.  A tick that waits has at most one run of it behind it, and none while
\* another tick is being served.
Single(f) == future[f].kind # "FixedRate"
RunBounds(q, f) == OutIn(q, f) <= IF Single(f) THEN 1 ELSE 2
Rested(T, q, f) == \A s \in Ent(T, f) : Single(f) /\ ~T[s].in_flight => OutIn(q, f) = 0
OneBehind(q, f) == \A i, j, k \in DOMAIN q :
    i < j /\ j < k /\ q[i] = "tick" => ~(q[j] = f /\ q[k] = f)
NoneBehind(q, f) == \A i, j \in DOMAIN q : i < j /\ q[i] = "tick" => q[j] # f
Waits(T, q, f) == \A s \in Ent(T, f) : T[s].in_flight /\ ~interrupted =>
    Times(q, f) + Held(f) = 1 \/ UIRuns(f) \/ future[f].missed \/ ~Live(f)
RunCount ==
    /\ \A f \in Futures : /\ RunBounds(queue, f) /\ Rested(table, queue, f)
                          /\ OneBehind(queue, f) /\ Waits(table, queue, f)
    /\ (hand = "tick" \/ proc[UI].pc = "tick") => \A f \in Futures : Out(f) <= 1
    /\ proc[UI].pc = "tick" => \A f \in Futures : NoneBehind(queue, f)
RunInv ==
    /\ CameRound \/ RunCount
    /\ proc[UI].pc = "complete" /\ proc[UI].id = NoId => future[proc[UI].task].missed
    /\ proc[UI].pc = "calling" => future[proc[UI].task].state \in {"RUNNING", "CANCELLED"}
    /\ \A f \in Futures : future[f].state = "RUNNING" =>
          interrupted \/ (proc[UI].pc = "calling" /\ proc[UI].task = f)

\* What is over, and what the executor has let go.
Over(f) == future[f].state \in {"DONE", "CANCELLED"}
OverInv ==
    /\ \A p \in Procs : proc[p].pc \in {"done", "taken", "freed"} => Over(proc[p].task)
    /\ \A p \in Procs : proc[p].pc = "taken" /\ proc[p].id = NoId => future[proc[p].task].missed
    /\ \A p \in Procs : proc[p].pc = "added" /\ Over(proc[p].task) /\ ~interrupted =>
          \/ future[proc[p].task].missed
          \/ \E q \in Procs : proc[q].pc = "done" /\ proc[q].task = proc[p].task
    /\ OverLeavesTable
    /\ \A f \in Futures : f \notin armed /\ future[f].state \in {"NEW", "RUNNING"} =>
          Unused(f) /\ \A p \in Procs : ~(proc[p].pc \in {"added", "armed"} /\ proc[p].task = f)

Inv == /\ Types /\ PlaceInv /\ MirrorInv /\ TableInv /\ ArmInv /\ IdInv /\ RunInv /\ OverInv

-----------------------------------------------------------------------------
(* Sequences: how often a word is in a queue, and positions after a push or a pop. *)

LEMMA AppendFacts ==
    ASSUME NEW S, NEW s \in Seq(S), NEW e \in S
    PROVE  /\ Append(s, e) \in Seq(S) /\ Len(Append(s, e)) = Len(s) + 1 /\ Len(s) \in Nat
           /\ DOMAIN Append(s, e) = 1..Len(s) + 1 /\ DOMAIN s = 1..Len(s)
           /\ \A i \in 1..Len(s) : Append(s, e)[i] = s[i]
           /\ Append(s, e)[Len(s) + 1] = e
<1>1. /\ Append(s, e) \in Seq(S) /\ Len(Append(s, e)) = Len(s) + 1
      /\ \A i \in 1..Len(s) : Append(s, e)[i] = s[i]
      /\ Append(s, e)[Len(s) + 1] = e
  BY AppendProperties
<1> QED
  BY <1>1, LenProperties

\* The head and the rest of a queue.
LEMMA TailFacts ==
    ASSUME NEW S, NEW s \in Seq(S), s # <<>>
    PROVE  /\ Head(s) \in S /\ Head(s) = s[1] /\ Tail(s) \in Seq(S)
           /\ Len(s) \in Nat \ {0} /\ Len(Tail(s)) = Len(s) - 1
           /\ DOMAIN s = 1..Len(s) /\ DOMAIN Tail(s) = 1..Len(s) - 1
           /\ \A i \in 1..Len(s) - 1 : Tail(s)[i] = s[i + 1]
<1>1. /\ Head(s) \in S /\ Tail(s) \in Seq(S) /\ Len(Tail(s)) = Len(s) - 1
      /\ \A i \in 1..Len(Tail(s)) : Tail(s)[i] = s[i + 1]
  BY HeadTailProperties
<1>2. Len(s) \in Nat \ {0}
  BY EmptySeq
<1>3. Head(s) = s[1]
  OBVIOUS
<1>4. DOMAIN s = 1..Len(s) /\ DOMAIN Tail(s) = 1..Len(Tail(s))
  BY <1>1, LenProperties
<1> QED
  BY <1>1, <1>2, <1>3, <1>4

\* Times counts: it is a number, and 0 where the word is not.
LEMMA TimesType ==
    ASSUME NEW S, NEW q \in Seq(S), NEW w
    PROVE  /\ Times(q, w) \in Nat /\ IsFiniteSet({i \in DOMAIN q : q[i] = w})
           /\ Times(q, w) = 0 <=> \A i \in DOMAIN q : q[i] # w
<1> DEFINE P == {i \in DOMAIN q : q[i] = w}
<1>1. IsFiniteSet(P)
  <2>1. DOMAIN q = 1..Len(q) /\ Len(q) \in Nat
    BY LenProperties
  <2>2. IsFiniteSet(DOMAIN q)
    BY <2>1, FS_Interval
  <2> QED
    BY <2>2, FS_Subset
<1>2. Cardinality(P) \in Nat /\ (Cardinality(P) = 0 <=> P = {})
  BY <1>1, FS_CardinalityType, FS_EmptySet
<1> QED
  BY <1>1, <1>2 DEF Times

LEMMA TimesEmpty ==
    ASSUME NEW w
    PROVE  Times(<<>>, w) = 0
<1>1. <<>> \in Seq({}) /\ DOMAIN <<>> = {}
  BY EmptySeq
<1>2. \A i \in DOMAIN <<>> : <<>>[i] # w
  BY <1>1
<1> QED
  BY <1>1, <1>2, TimesType

\* A push adds one of its word.
LEMMA TimesAppend ==
    ASSUME NEW S, NEW q \in Seq(S), NEW e \in S, NEW w
    PROVE  Times(Append(q, e), w) = Times(q, w) + (IF e = w THEN 1 ELSE 0)
<1> DEFINE P == {i \in DOMAIN q : q[i] = w}
           R == {i \in DOMAIN Append(q, e) : Append(q, e)[i] = w}
<1>1. IsFiniteSet(P) /\ Cardinality(P) \in Nat /\ Times(q, w) = Cardinality(P)
      /\ Times(Append(q, e), w) = Cardinality(R)
  BY TimesType DEF Times
<1>2. CASE e = w
  <2>1. R = P \cup {Len(q) + 1} /\ Len(q) + 1 \notin P
    BY <1>2, AppendFacts
  <2>2. Cardinality(P \cup {Len(q) + 1}) = Cardinality(P) + 1
    BY <1>1, <2>1, FS_AddElement
  <2> HIDE DEF P, R
  <2> QED
    BY <1>1, <1>2, <2>1, <2>2
<1>3. CASE e # w
  <2>1. R = P
    BY <1>3, AppendFacts
  <2> HIDE DEF P, R
  <2> QED
    BY <1>1, <1>3, <2>1
<1> QED
  BY <1>2, <1>3

\* A pop takes one of its word.
LEMMA TimesTail ==
    ASSUME NEW S, NEW q \in Seq(S), q # <<>>, NEW w
    PROVE  Times(q, w) = Times(Tail(q), w) + (IF Head(q) = w THEN 1 ELSE 0)
<1> DEFINE P == {i \in DOMAIN Tail(q) : Tail(q)[i] = w}
           R == {i \in DOMAIN q : q[i] = w}
           U == R \ {1}
           f == [i \in P |-> i + 1]
<1>0. /\ DOMAIN q = 1..Len(q) /\ DOMAIN Tail(q) = 1..Len(q) - 1 /\ Len(q) \in Nat \ {0}
      /\ \A i \in 1..Len(q) - 1 : Tail(q)[i] = q[i + 1]
      /\ Head(q) = q[1] /\ Tail(q) \in Seq(S)
  BY TailFacts
<1>1. /\ IsFiniteSet(P) /\ Cardinality(P) \in Nat /\ Times(Tail(q), w) = Cardinality(P)
      /\ Times(q, w) = Cardinality(R)
  <2>0. Tail(q) \in Seq(S)
    BY <1>0
  <2>1. IsFiniteSet(P) /\ Times(Tail(q), w) \in Nat
    BY <2>0, TimesType
  <2> QED
    BY <2>1 DEF Times
<1>2. f \in Bijection(P, U)
  <2>1. \A i \in P : f[i] \in U
    BY <1>0
  <2>2. \A i, j \in P : f[i] = f[j] => i = j
    BY <1>0
  <2>3. \A u \in U : \E i \in P : f[i] = u
    <3>1. SUFFICES ASSUME NEW u \in U PROVE \E i \in P : f[i] = u
      OBVIOUS
    <3>2. u - 1 \in P
      BY <1>0
    <3> QED
      BY <3>2
  <2> HIDE DEF P, U
  <2> QED
    BY <2>1, <2>2, <2>3 DEF Bijection, Injection, Surjection, IsInjective
<1>3. IsFiniteSet(U) /\ Cardinality(U) = Cardinality(P)
  <2> HIDE DEF P, U, f
  <2>1. ExistsBijection(P, U)
    BY <1>2 DEF ExistsBijection
  <2> QED
    BY <1>1, <2>1, FS_Bijection
<1>4. CASE q[1] = w
  <2>1. R = U \cup {1} /\ 1 \notin U
    BY <1>0, <1>4
  <2>2. Cardinality(U \cup {1}) = Cardinality(U) + 1
    BY <1>3, <2>1, FS_AddElement
  <2> HIDE DEF P, R, U
  <2> QED
    BY <1>0, <1>1, <1>3, <1>4, <2>1, <2>2
<1>5. CASE q[1] # w
  <2>1. R = U
    BY <1>0, <1>5
  <2> HIDE DEF P, R, U
  <2> QED
    BY <1>0, <1>1, <1>3, <1>5, <2>1
<1> QED
  BY <1>4, <1>5

\* A word that is nowhere twice is there at most once.
LEMMA TimesOnce ==
    ASSUME NEW S, NEW q \in Seq(S), NEW w,
           \A i, j \in DOMAIN q : i < j => ~(q[i] = w /\ q[j] = w)
    PROVE  Times(q, w) <= 1
<1> DEFINE P == {i \in DOMAIN q : q[i] = w}
<1>1. CASE P = {}
  <2>1. Times(q, w) = 0
    BY <1>1, TimesType
  <2> QED
    BY <2>1
<1>2. CASE P # {}
  <2>1. PICK i \in P : TRUE
    BY <1>2
  <2>2. P = {i}
    <3>1. DOMAIN q \subseteq Nat
      BY LenProperties
    <3>2. \A j \in P : j = i
      BY <2>1, <3>1
    <3> QED
      BY <2>1, <3>2
  <2>3. Times(q, w) = 1
    BY <2>2, FS_Singleton DEF Times
  <2> QED
    BY <2>3
<1> QED
  BY <1>1, <1>2

LEMMA TimesNotTwice ==
    ASSUME NEW S, NEW q \in Seq(S), NEW w, Times(q, w) <= 1, NEW i \in DOMAIN q, NEW j \in DOMAIN q,
           q[i] = w, q[j] = w
    PROVE  i = j
<1> DEFINE P == {k \in DOMAIN q : q[k] = w}
<1>1. SUFFICES ASSUME i # j PROVE FALSE
  OBVIOUS
<1>2. {i, j} \subseteq P /\ IsFiniteSet(P) /\ Cardinality(P) <= 1 /\ Cardinality(P) \in Nat
  BY TimesType DEF Times
<1>3. Cardinality({i, j}) = 2
  <2>1. Cardinality({i}) = 1 /\ IsFiniteSet({i}) /\ j \notin {i}
    BY <1>1, FS_Singleton
  <2>2. Cardinality({i} \cup {j}) = Cardinality({i}) + 1
    BY <2>1, FS_AddElement
  <2>3. {i, j} = {i} \cup {j}
    OBVIOUS
  <2> QED
    BY <2>1, <2>2, <2>3
<1>4. Cardinality({i, j}) <= Cardinality(P)
  BY <1>2, FS_Subset
<1> HIDE DEF P
<1> QED
  BY <1>2, <1>3, <1>4

LEMMA LengthIs ==
    ASSUME NEW S, NEW n \in Nat, NEW s \in [1..n -> S]
    PROVE  s \in Seq(S) /\ Len(s) = n
<1>1. s \in Seq(S)
  BY SeqDef
<1>2. Len(s) \in Nat /\ 1..Len(s) = 1..n
  BY <1>1, LenProperties
<1>3. (Len(s) = 0 \/ Len(s) \in 1..Len(s)) /\ (n = 0 \/ n \in 1..n)
  BY <1>2
<1>4. Len(s) <= n /\ n <= Len(s)
  BY <1>2, <1>3
<1> QED
  BY <1>1, <1>2, <1>4

\* BoundedSeq is what its name says.
LEMMA BoundedIs ==
    ASSUME NEW S, NEW n \in Nat, NEW s \in Seq(S), Len(s) <= n
    PROVE  s \in BoundedSeq(S, n)
<1>1. s \in [1..Len(s) -> S] /\ Len(s) \in 0..n
  BY LenProperties
<1> QED
  BY <1>1 DEF BoundedSeq, SeqOf

-----------------------------------------------------------------------------
(* What RunnablesOf says when the queue grows or shrinks. *)

\* The embedding of `sh` in `words`, by its three properties.
Embeds(at, sh, words) ==
    /\ at \in [DOMAIN sh -> DOMAIN words]
    /\ \A i, j \in DOMAIN sh : i < j => at[i] < at[j]
    /\ \A i \in DOMAIN sh : sh[i] = words[at[i]]
    /\ \A i \in DOMAIN sh : words[at[i]] \in Runnables
    /\ \A j \in DOMAIN words : words[j] \in Runnables => \E i \in DOMAIN sh : at[i] = j

\* RunnablesOf by the positions of the Runnables, named.
LEMMA EmbedsIs ==
    ASSUME NEW sh, NEW words
    PROVE  RunnablesOf(sh, words) <=> \E at : Embeds(at, sh, words)
<1>1. ASSUME NEW at, Embeds(at, sh, words) PROVE RunnablesOf(sh, words)
  <2>1. {at[i] : i \in DOMAIN sh} = {j \in DOMAIN words : words[j] \in Runnables}
    BY <1>1 DEF Embeds
  <2> QED
    BY <1>1, <2>1 DEF Embeds, RunnablesOf
<1>2. ASSUME RunnablesOf(sh, words) PROVE \E at : Embeds(at, sh, words)
  <2>1. PICK at \in [DOMAIN sh -> DOMAIN words] :
           /\ \A i, j \in DOMAIN sh : i < j => at[i] < at[j]
           /\ \A i \in DOMAIN sh : sh[i] = words[at[i]]
           /\ {at[i] : i \in DOMAIN sh} = {j \in DOMAIN words : words[j] \in Runnables}
    BY <1>2 DEF RunnablesOf
  <2>2. \A i \in DOMAIN sh : words[at[i]] \in Runnables
    BY <2>1
  <2>3. \A j \in DOMAIN words : words[j] \in Runnables => \E i \in DOMAIN sh : at[i] = j
    BY <2>1
  <2>4. Embeds(at, sh, words)
    BY <2>1, <2>2, <2>3 DEF Embeds
  <2> QED
    BY <2>4
<1> QED
  BY <1>1, <1>2

LEMMA EmbedsEmpty == RunnablesOf(<<>>, <<>>)
<1>1. DOMAIN <<>> = {}
  BY EmptySeq, LenProperties
<1>2. Embeds(<<>>, <<>>, <<>>)
  <2>1. <<>> \in [{} -> {}]
    BY <1>1
  <2> QED
    BY <1>1, <2>1 DEF Embeds
<1> QED
  BY <1>2, EmbedsIs

\* A tick or a wake leaves the shadow true.
LEMMA EmbedsOther ==
    ASSUME NEW sh \in Seq(Runnables), NEW words \in Seq(Words), NEW x \in Words, x \notin Runnables,
           RunnablesOf(sh, words)
    PROVE  RunnablesOf(sh, Append(words, x))
<1>1. PICK at : Embeds(at, sh, words)
  BY EmbedsIs
<1>2. /\ DOMAIN words = 1..Len(words) /\ DOMAIN Append(words, x) = 1..Len(words) + 1
      /\ \A i \in 1..Len(words) : Append(words, x)[i] = words[i]
      /\ Append(words, x)[Len(words) + 1] = x /\ Len(words) \in Nat
  BY AppendFacts
<1>3. Embeds(at, sh, Append(words, x))
  BY <1>1, <1>2 DEF Embeds
<1> QED
  BY <1>3, EmbedsIs

\* A Runnable pushed on both leaves the shadow true.
LEMMA EmbedsPush ==
    ASSUME NEW sh \in Seq(Runnables), NEW words \in Seq(Words), NEW x \in Runnables,
           RunnablesOf(sh, words)
    PROVE  RunnablesOf(Append(sh, x), Append(words, x))
<1>1. PICK at : Embeds(at, sh, words)
  BY EmbedsIs
<1> DEFINE n == Len(words)
           m == Len(sh)
           to == [i \in 1..m + 1 |-> IF i = m + 1 THEN n + 1 ELSE at[i]]
<1>2. /\ DOMAIN words = 1..n /\ DOMAIN Append(words, x) = 1..n + 1
      /\ \A i \in 1..n : Append(words, x)[i] = words[i]
      /\ Append(words, x)[n + 1] = x /\ n \in Nat
  BY AppendFacts DEF Words
<1>3. /\ DOMAIN sh = 1..m /\ DOMAIN Append(sh, x) = 1..m + 1
      /\ \A i \in 1..m : Append(sh, x)[i] = sh[i]
      /\ Append(sh, x)[m + 1] = x /\ m \in Nat
  BY AppendFacts
<1> HIDE DEF n, m
<1>4. at \in [1..m -> 1..n]
  BY <1>1, <1>2, <1>3 DEF Embeds
<1>5. to \in [1..m + 1 -> 1..n + 1]
  BY <1>2, <1>3, <1>4
<1>6. \A i, j \in 1..m + 1 : i < j => to[i] < to[j]
  <2> TAKE i, j \in 1..m + 1
  <2> HAVE i < j
  <2>1. i \in 1..m /\ to[i] = at[i] /\ at[i] \in 1..n
    BY <1>3, <1>4
  <2>2. CASE j = m + 1
    BY <1>2, <1>3, <2>1, <2>2
  <2>3. CASE j # m + 1
    <3>1. j \in 1..m /\ to[j] = at[j]
      BY <1>3, <2>3
    <3>2. at[i] < at[j]
      BY <1>1, <1>3, <2>1, <3>1 DEF Embeds
    <3> QED
      BY <2>1, <3>1, <3>2
  <2> QED
    BY <2>2, <2>3
<1>7. \A i \in 1..m + 1 : Append(sh, x)[i] = Append(words, x)[to[i]]
                          /\ Append(words, x)[to[i]] \in Runnables
  <2> TAKE i \in 1..m + 1
  <2>1. CASE i = m + 1
    BY <1>2, <1>3, <2>1
  <2>2. CASE i # m + 1
    <3>1. i \in 1..m /\ to[i] = at[i] /\ at[i] \in 1..n
      BY <1>3, <1>4, <2>2
    <3> QED
      BY <1>1, <1>2, <1>3, <3>1 DEF Embeds
  <2> QED
    BY <2>1, <2>2
<1>8. \A j \in 1..n + 1 : Append(words, x)[j] \in Runnables => \E i \in 1..m + 1 : to[i] = j
  <2> TAKE j \in 1..n + 1
  <2> HAVE Append(words, x)[j] \in Runnables
  <2>1. CASE j = n + 1
    <3>1. m + 1 \in 1..m + 1 /\ to[m + 1] = j
      BY <1>3, <2>1
    <3> QED
      BY <3>1
  <2>2. CASE j # n + 1
    <3>1. j \in 1..n /\ words[j] \in Runnables
      BY <1>2, <2>2
    <3>2. PICK i \in 1..m : at[i] = j
      BY <1>1, <1>2, <1>3, <3>1 DEF Embeds
    <3>3. i \in 1..m + 1 /\ to[i] = j
      BY <1>3, <3>2
    <3> QED
      BY <3>3
  <2> QED
    BY <2>1, <2>2
<1> HIDE DEF to
<1>9. Embeds(to, Append(sh, x), Append(words, x))
  BY <1>2, <1>3, <1>5, <1>6, <1>7, <1>8 DEF Embeds
<1> QED
  BY <1>9, EmbedsIs

\* A tick or a wake popped leaves the shadow true.
LEMMA EmbedsPassed ==
    ASSUME NEW sh \in Seq(Runnables), NEW words \in Seq(Words), words # <<>>,
           Head(words) \notin Runnables, RunnablesOf(sh, words)
    PROVE  RunnablesOf(sh, Tail(words))
<1>1. PICK at : Embeds(at, sh, words)
  BY EmbedsIs
<1> DEFINE n == Len(words)
           m == Len(sh)
           to == [i \in 1..m |-> at[i] - 1]
<1>2. /\ DOMAIN words = 1..n /\ DOMAIN Tail(words) = 1..n - 1 /\ n \in Nat \ {0}
      /\ \A i \in 1..n - 1 : Tail(words)[i] = words[i + 1]
      /\ Head(words) = words[1]
  BY TailFacts
<1>3. DOMAIN sh = 1..m /\ m \in Nat
  BY LenProperties
<1> HIDE DEF n, m
<1>4. at \in [1..m -> 1..n] /\ \A i \in 1..m : at[i] # 1
  <2>1. at \in [1..m -> 1..n] /\ \A i \in 1..m : words[at[i]] \in Runnables
    BY <1>1, <1>2, <1>3 DEF Embeds
  <2>2. words[1] \notin Runnables
    BY <1>2
  <2> QED
    BY <2>1, <2>2
<1>5. to \in [1..m -> 1..n - 1]
  <2>1. \A i \in 1..m : at[i] - 1 \in 1..n - 1
    BY <1>2, <1>4
  <2> QED
    BY <2>1
<1>6. \A i, j \in 1..m : i < j => to[i] < to[j]
  <2> TAKE i, j \in 1..m
  <2> HAVE i < j
  <2>1. at[i] < at[j]
    BY <1>1, <1>3 DEF Embeds
  <2> QED
    BY <1>2, <1>4, <2>1
<1>7. \A i \in 1..m : sh[i] = Tail(words)[to[i]] /\ Tail(words)[to[i]] \in Runnables
  <2> TAKE i \in 1..m
  <2>1. Tail(words)[to[i]] = words[at[i]]
    BY <1>2, <1>4, <1>5
  <2> QED
    BY <1>1, <1>3, <2>1 DEF Embeds
<1>8. \A j \in 1..n - 1 : Tail(words)[j] \in Runnables => \E i \in 1..m : to[i] = j
  <2> TAKE j \in 1..n - 1
  <2> HAVE Tail(words)[j] \in Runnables
  <2>1. j + 1 \in 1..n /\ words[j + 1] \in Runnables
    BY <1>2
  <2>2. PICK i \in 1..m : at[i] = j + 1
    BY <1>1, <1>2, <1>3, <2>1 DEF Embeds
  <2>3. to[i] = j
    BY <2>2
  <2> QED
    BY <2>3
<1> HIDE DEF to
<1>9. Embeds(to, sh, Tail(words))
  BY <1>2, <1>3, <1>5, <1>6, <1>7, <1>8 DEF Embeds
<1> QED
  BY <1>9, EmbedsIs

\* A Runnable that is popped is first in the shadow too.
LEMMA EmbedsPop ==
    ASSUME NEW sh \in Seq(Runnables), NEW words \in Seq(Words), words # <<>>,
           Head(words) \in Runnables, RunnablesOf(sh, words)
    PROVE  sh # <<>> /\ sh[1] = Head(words) /\ RunnablesOf(Tail(sh), Tail(words))
<1>1. PICK at : Embeds(at, sh, words)
  BY EmbedsIs
<1> DEFINE n == Len(words)
           m == Len(sh)
           to == [i \in 1..m - 1 |-> at[i + 1] - 1]
<1>2. /\ DOMAIN words = 1..n /\ DOMAIN Tail(words) = 1..n - 1 /\ n \in Nat \ {0}
      /\ \A i \in 1..n - 1 : Tail(words)[i] = words[i + 1]
      /\ Head(words) = words[1]
  BY TailFacts
<1>3. DOMAIN sh = 1..m /\ m \in Nat
  BY LenProperties
<1>4. PICK i1 \in 1..m : at[i1] = 1
  <2>1. 1 \in 1..n
    BY <1>2
  <2> QED
    BY <1>1, <1>2, <1>3, <2>1 DEF Embeds
<1>5. sh # <<>> /\ m # 0
  BY <1>3, <1>4, EmptySeq
<1>6. /\ DOMAIN Tail(sh) = 1..m - 1
      /\ \A i \in 1..m - 1 : Tail(sh)[i] = sh[i + 1]
  BY <1>5, TailFacts
<1> HIDE DEF n, m
<1>7. at \in [1..m -> 1..n]
  BY <1>1, <1>2, <1>3 DEF Embeds
<1>8. i1 = 1 /\ at[1] = 1
  <2>1. 1 \in 1..m /\ (1 < i1 => at[1] < at[i1])
    <3>1. \A i, j \in 1..m : i < j => at[i] < at[j]
      BY <1>1, <1>3 DEF Embeds
    <3>2. 1 \in 1..m
      BY <1>3, <1>5
    <3> QED
      BY <1>4, <3>1, <3>2
  <2>2. at[1] \in 1..n /\ at[i1] = 1 /\ i1 \in 1..m
    BY <1>7, <1>4, <2>1
  <2> QED
    BY <1>3, <2>1, <2>2
<1>9. sh[1] = Head(words)
  BY <1>1, <1>2, <1>3, <1>4, <1>8 DEF Embeds
<1>10. \A i \in 1..m : i # 1 => at[i] > 1
  <2>1. \A i, j \in 1..m : i < j => at[i] < at[j]
    BY <1>1, <1>3 DEF Embeds
  <2>2. 1 \in 1..m
    BY <1>4, <1>8
  <2>3. \A i \in 1..m : i # 1 => 1 < i
    BY <1>3
  <2> QED
    BY <1>8, <2>1, <2>2, <2>3
<1>11. to \in [1..m - 1 -> 1..n - 1]
  <2>1. \A i \in 1..m - 1 : i + 1 \in 1..m /\ i + 1 # 1
    BY <1>3
  <2>2. \A i \in 1..m - 1 : at[i + 1] - 1 \in 1..n - 1
    BY <1>2, <1>7, <1>10, <2>1
  <2> QED
    BY <2>2
<1>12. \A i, j \in 1..m - 1 : i < j => to[i] < to[j]
  <2> TAKE i, j \in 1..m - 1
  <2> HAVE i < j
  <2>1. i + 1 \in 1..m /\ j + 1 \in 1..m /\ i + 1 < j + 1
    BY <1>3
  <2>2. at[i + 1] < at[j + 1]
    BY <1>1, <1>3, <2>1 DEF Embeds
  <2> QED
    BY <1>2, <1>7, <2>1, <2>2
<1>13. \A i \in 1..m - 1 : Tail(sh)[i] = Tail(words)[to[i]] /\ Tail(words)[to[i]] \in Runnables
  <2> TAKE i \in 1..m - 1
  <2>1. i + 1 \in 1..m
    BY <1>3
  <2>2. Tail(words)[to[i]] = words[at[i + 1]]
    BY <1>2, <1>7, <1>11, <2>1, SMTT(30)
  <2> QED
    BY <1>1, <1>3, <1>6, <2>1, <2>2 DEF Embeds
<1>14. \A j \in 1..n - 1 : Tail(words)[j] \in Runnables => \E i \in 1..m - 1 : to[i] = j
  <2> TAKE j \in 1..n - 1
  <2> HAVE Tail(words)[j] \in Runnables
  <2>1. j + 1 \in 1..n /\ words[j + 1] \in Runnables
    BY <1>2
  <2>2. PICK i \in 1..m : at[i] = j + 1
    BY <1>1, <1>2, <1>3, <2>1 DEF Embeds
  <2>3. i - 1 \in 1..m - 1 /\ to[i - 1] = j
    <3>1. i # 1
      BY <1>8, <2>2
    <3> QED
      BY <1>3, <2>2, <3>1
  <2> QED
    BY <2>3
<1> HIDE DEF to
<1>15. Embeds(to, Tail(sh), Tail(words))
  BY <1>2, <1>6, <1>11, <1>12, <1>13, <1>14 DEF Embeds
<1> QED
  BY <1>15, <1>5, <1>9, EmbedsIs

-----------------------------------------------------------------------------
(* The deadline table: slots that are freed, and entries that change in place. *)

LEMMA GenerationsPositive == Generations \in Nat /\ Generations > 0 /\ 0 \in 0..Generations-1
BY GenerationAssumption

LEMMA NextGeneration ==
    ASSUME NEW g \in 0..Generations-1
    PROVE  (g + 1) % Generations = IF g + 1 = Generations THEN 0 ELSE g + 1
<1>1. CASE g + 1 = Generations
  <2>1. Generations % Generations = 0
    BY GenerationsPositive
  <2> QED
    BY <1>1, <2>1
<1>2. CASE g + 1 # Generations
  <2>1. g + 1 \in 0..Generations-1
    BY GenerationsPositive, <1>2
  <2>2. \A x \in 0..Generations-1 : x % Generations = x
    BY GenerationsPositive
  <2> QED
    BY <1>2, <2>1, <2>2
<1> QED
  BY <1>1, <1>2

\* A freed entry is blank and one generation on.
LEMMA FreeIs ==
    ASSUME NEW e \in Entry
    PROVE  /\ free(e) \in Entry /\ free(e).live = FALSE
           /\ free(e).generation = IF e.generation + 1 = Generations THEN 0 ELSE e.generation + 1
<1>1. e.generation \in 0..Generations-1
  BY DEF Entry
<1>2. (e.generation + 1) % Generations \in 0..Generations-1
  BY <1>1, NextGeneration, GenerationsPositive
<1>3. EMPTY \in Entry /\ EMPTY.live = FALSE
  BY PeriodAssumption, GenerationsPositive DEF EMPTY, Entry, Kinds
<1>4. /\ [EMPTY EXCEPT !.generation = (e.generation + 1) % Generations] \in Entry
      /\ [EMPTY EXCEPT !.generation = (e.generation + 1) % Generations].live = FALSE
      /\ [EMPTY EXCEPT !.generation = (e.generation + 1) % Generations].generation
            = (e.generation + 1) % Generations
  BY <1>2, <1>3 DEF Entry
<1> QED
  BY <1>1, <1>4, NextGeneration DEF free

\* An entry that changes and stays who it is.
Same(e, d) == /\ d.live = e.live /\ d.runnable = e.runnable /\ d.kind = e.kind
              /\ d.generation = e.generation

\* What is left of an entry that was posted.
LEMMA PostedIs ==
    ASSUME NEW e \in Entry, is_due(e)
    PROVE  /\ e.live /\ ~e.in_flight
           /\ e.kind = "OneShot" => Posted(e) = free(e)
           /\ e.kind # "OneShot" => Posted(e) \in Entry /\ Same(e, Posted(e))
           /\ e.kind = "FixedDelay" => Posted(e).in_flight
           /\ e.kind = "FixedRate" => ~Posted(e).in_flight
<1>1. e.live /\ ~e.in_flight /\ e.left <= 0 /\ e.left \in (-Period)..(Period + MaxDelay)
      /\ e.kind \in Kinds /\ e.in_flight \in BOOLEAN
  BY DEF is_due, Entry
<1>2. CASE e.kind = "OneShot"
  BY <1>1, <1>2 DEF Posted
<1>3. CASE e.kind = "FixedDelay"
  <2>1. Posted(e) = [e EXCEPT !.in_flight = TRUE, !.left = 0]
    BY <1>3 DEF Posted
  <2>2. 0 \in (-Period)..(Period + MaxDelay)
    BY PeriodAssumption
  <2> QED
    BY <1>1, <1>3, <2>1, <2>2 DEF Entry, Same
<1>4. CASE e.kind = "FixedRate"
  <2> DEFINE x == IF e.left + Period =< 0 THEN Period ELSE e.left + Period
  <2>1. Posted(e) = [e EXCEPT !.left = x]
    BY <1>4 DEF Posted
  <2>2. x \in (-Period)..(Period + MaxDelay)
    BY <1>1, PeriodAssumption
  <2> HIDE DEF x
  <2> QED
    BY <1>1, <1>4, <2>1, <2>2 DEF Entry, Same
<1> QED
  BY <1>1, <1>2, <1>3, <1>4 DEF Kinds

\* Tables with the same entries, which differ in their deadlines and flags.
Alike(T, U) == \A s \in Slots : Same(T[s], U[s])

\* Tables that agree on owners and generations agree on the ids.
LEMMA AlikeEnt ==
    ASSUME NEW T, NEW U, Alike(T, U), NEW f
    PROVE  Ent(U, f) = Ent(T, f)
BY DEF Alike, Same, Ent

\* A slot given back.
Freed(T, s) == [T EXCEPT ![s] = free(T[s])]

\* Freeing a slot takes its entry and leaves the others.
LEMMA FreedEnt ==
    ASSUME NEW T \in [Slots -> Entry], NEW s \in Slots, NEW f
    PROVE  /\ Freed(T, s) \in [Slots -> Entry]
           /\ Ent(Freed(T, s), f) = Ent(T, f) \ {s}
           /\ \A r \in Slots : r # s => Freed(T, s)[r] = T[r]
           /\ Freed(T, s)[s] = free(T[s])
<1>1. T[s] \in Entry
  OBVIOUS
<1>2. free(T[s]) \in Entry /\ free(T[s]).live = FALSE
  BY <1>1, FreeIs
<1>3. /\ Freed(T, s) \in [Slots -> Entry]
      /\ \A r \in Slots : r # s => Freed(T, s)[r] = T[r]
      /\ Freed(T, s)[s] = free(T[s])
  BY <1>2 DEF Freed
<1>4. Ent(Freed(T, s), f) = Ent(T, f) \ {s}
  BY <1>2, <1>3 DEF Ent
<1> QED
  BY <1>3, <1>4

LEMMA FreedTrue ==
    ASSUME NEW T \in [Slots -> Entry], NEW s \in Slots, TableTrue(T)
    PROVE  TableTrue(Freed(T, s))
<1> USE FreedEnt
<1>1. free(T[s]).live = FALSE
  BY FreeIs
<1>2. /\ \A r \in Slots : r # s => Freed(T, s)[r] = T[r]
      /\ Freed(T, s)[s] = free(T[s])
  OBVIOUS
<1> QED
  BY <1>1, <1>2 DEF TableTrue, EntryTrue

\* A table in which some of the slots of T have been given back.
FreedSome(T, U) == \A s \in Slots : Same(T[s], U[s]) \/ (T[s].live /\ U[s] = free(T[s]))

\* Each id of a slot that is given back is one generation further behind: it
\* names no entry, unless it was as far behind as there are generations.
LEMMA NamesAged ==
    ASSUME NEW T \in [Slots -> Entry], NEW U \in [Slots -> Entry], FreedSome(T, U),
           NEW n \in Nat, NEW m \in Nat, n <= m,
           NEW f, NEW id \in Ids \cup {NoId}, Names(T, n, f, id),
           id # NoId /\ T[id[1]].live /\ ~U[id[1]].live => m = n + 1 \/ m >= Generations
    PROVE  Names(U, m, f, id)
<1>1. SUFFICES ASSUME id # NoId PROVE Names(U, m, f, id)
  BY DEF Names
<1> DEFINE k == id[1]
           h == id[2]
<1>2. k \in Slots /\ h \in 0..Generations-1 /\ id = <<k, h>>
  BY <1>1 DEF Ids
<1>3. /\ T[k] \in Entry /\ U[k] \in Entry
      /\ T[k].generation \in 0..Generations-1 /\ U[k].generation \in 0..Generations-1
      /\ Since(T, id) = Dist(h, T[k].generation) /\ Since(U, id) = Dist(h, U[k].generation)
  <2>1. T[k] \in Entry /\ U[k] \in Entry
    BY <1>2
  <2> QED
    BY <2>1 DEF Since, Entry
<1>4. \/ Same(T[k], U[k])
      \/ /\ T[k].live /\ ~U[k].live /\ (m = n + 1 \/ m >= Generations)
         /\ U[k].generation = IF T[k].generation + 1 = Generations THEN 0 ELSE T[k].generation + 1
  <2>1. CASE T[k].live /\ U[k] = free(T[k])
    <3>1. PICK e \in Entry : e = T[k]
      BY <1>3
    <3>2. free(e).live = FALSE /\ free(e).generation = IF e.generation + 1 = Generations THEN 0
                                                       ELSE e.generation + 1
      BY FreeIs
    <3>3. /\ U[k].live = FALSE
          /\ U[k].generation = IF T[k].generation + 1 = Generations THEN 0 ELSE T[k].generation + 1
      BY <2>1, <3>1, <3>2
    <3> QED
      BY <1>1, <2>1, <3>3
  <2> QED
    BY <1>2, <2>1 DEF FreedSome
<1>5. \A r \in Ent(U, f) : r \in Ent(T, f) /\ U[r].generation = T[r].generation
  <2> TAKE r \in Ent(U, f)
  <2>1. r \in Slots /\ U[r].live /\ U[r].runnable = f
    BY DEF Ent
  <2>2. T[r] \in Entry
    BY <2>1
  <2>3. Same(T[r], U[r])
    BY <2>1, <2>2, FreeIs DEF FreedSome
  <2> QED
    BY <2>1, <2>3 DEF Same, Ent
<1> HIDE DEF k, h
<1>6. CASE Ent(U, f) # {}
  <2>1. \A r \in Ent(T, f) : id = <<r, T[r].generation>>
    BY <1>1, <1>5, <1>6 DEF Names
  <2> QED
    BY <1>5, <1>6, <2>1 DEF Names
<1>7. CASE Ent(U, f) = {}
  <2>1. SUFFICES ASSUME m < Generations PROVE 1 <= Since(U, id) /\ Since(U, id) <= m
    BY <1>7 DEF Names
  <2>2. n < Generations
    BY <2>1, GenerationsPositive
  <2>3. CASE Ent(T, f) = {}
    <3>1. 1 <= Dist(h, T[k].generation) /\ Dist(h, T[k].generation) <= n
      BY <1>1, <1>3, <2>2, <2>3 DEF Names
    <3>2. CASE Same(T[k], U[k])
      <4>1. Dist(h, U[k].generation) = Dist(h, T[k].generation)
        BY <3>2 DEF Same
      <4>2. Dist(h, T[k].generation) \in Int
        BY <1>2, <1>3, GenerationsPositive DEF Dist
      <4> QED
        BY <1>3, <3>1, <4>1, <4>2
    <3>3. CASE ~Same(T[k], U[k])
      <4>1. m = n + 1 /\ U[k].generation = IF T[k].generation + 1 = Generations THEN 0
                                           ELSE T[k].generation + 1
        BY <1>4, <2>1, <3>3, GenerationsPositive
      <4>2. Dist(h, U[k].generation) = Dist(h, T[k].generation) + 1
        BY <1>2, <1>3, <2>1, <3>1, <4>1, GenerationsPositive DEF Dist
      <4>3. Dist(h, T[k].generation) \in Int
        BY <1>2, <1>3, GenerationsPositive DEF Dist
      <4> QED
        BY <1>3, <3>1, <4>1, <4>2, <4>3
    <3> QED
      BY <3>2, <3>3
  <2>4. CASE Ent(T, f) # {}
    <3>1. PICK r \in Ent(T, f) : id = <<r, T[r].generation>>
      BY <1>1, <2>4 DEF Names
    <3>2. r = k /\ T[k].generation = h /\ T[k].live /\ T[k].runnable = f
      BY <1>2, <3>1 DEF Ent
    <3>3. ~Same(T[k], U[k])
      BY <1>2, <1>7, <3>2 DEF Same, Ent
    <3>4. m = n + 1 /\ U[k].generation = IF h + 1 = Generations THEN 0 ELSE h + 1
      BY <1>4, <2>1, <3>2, <3>3, GenerationsPositive
    <3>5. Dist(h, U[k].generation) = 1
      BY <1>2, <2>1, <3>4, GenerationsPositive DEF Dist
    <3> QED
      BY <1>3, <3>4, <3>5
  <2> QED
    BY <2>3, <2>4
<1> QED
  BY <1>6, <1>7

\* What freeing slots makes of the futures whose ids they were.
LEMMA AgedIs ==
    ASSUME FutureType, NEW T, NEW f \in Futures
    PROVE  /\ Aged(T)[f] \in Future
           /\ Aged(T)[f].state = future[f].state /\ Aged(T)[f].kind = future[f].kind
           /\ Aged(T)[f].id = future[f].id /\ Aged(T)[f].missed = future[f].missed
           /\ future[f].age \in 0..Generations /\ Aged(T)[f].age \in 0..Generations
           /\ future[f].age <= Aged(T)[f].age
           /\ Passed(T, f) => Aged(T)[f].age = future[f].age + 1 \/ Aged(T)[f].age = Generations
<1>1. future[f] \in Future /\ future[f].age \in 0..Generations /\ Generations \in Nat
  BY GenerationsPositive DEF FutureType, Future
<1>2. CASE Passed(T, f) /\ future[f].age < Generations
  <2>1. Aged(T)[f] = [future[f] EXCEPT !.age = future[f].age + 1]
    BY <1>2 DEF Aged
  <2>2. future[f].age + 1 \in 0..Generations
    BY <1>1, <1>2
  <2> QED
    BY <1>1, <2>1, <2>2 DEF Future
<1>3. CASE ~(Passed(T, f) /\ future[f].age < Generations)
  <2>1. Aged(T)[f] = future[f]
    BY <1>3 DEF Aged
  <2>2. future[f].age < Generations \/ future[f].age = Generations
    BY <1>1
  <2> QED
    BY <1>1, <1>3, <2>1, <2>2 DEF Future
<1> QED
  BY <1>2, <1>3

\* The ids stay true when slots are freed and their futures are aged.
LEMMA IdAged ==
    ASSUME Types, IdInv, TableType', FreedSome(table, table'), future' = Aged(table'),
           \A p \in Procs : \/ proc'[p].id = NoId
                            \/ proc'[p].id = proc[p].id /\ proc'[p].task = proc[p].task
    PROVE  /\ IdInv' /\ FutureType' /\ (CameRound => CameRound')
           /\ \A f \in Futures : /\ future'[f].state = future[f].state
                                 /\ future'[f].kind = future[f].kind
                                 /\ future'[f].id = future[f].id
                                 /\ future'[f].missed = future[f].missed
<1>1. /\ table \in [Slots -> Entry] /\ table' \in [Slots -> Entry] /\ FutureType
      /\ \A f \in Futures : future[f].id \in Ids \cup {NoId}
      /\ \A p \in Procs : proc[p].id \in Ids \cup {NoId}
      /\ Generations \in Nat
  BY GenerationsPositive DEF Types, TableType, FutureType, ProcType, Future, Process
<1>2. \A f \in Futures : /\ future'[f] \in Future
                         /\ future'[f].state = future[f].state /\ future'[f].kind = future[f].kind
                         /\ future'[f].id = future[f].id /\ future'[f].missed = future[f].missed
                         /\ future[f].age \in 0..Generations /\ future'[f].age \in 0..Generations
                         /\ future[f].age <= future'[f].age
                         /\ Passed(table', f) => \/ future'[f].age = future[f].age + 1
                                                 \/ future'[f].age = Generations
  BY <1>1, AgedIs
<1>3. FutureType'
  <2>1. future' = [f \in Futures |-> future'[f]]
    BY DEF Aged
  <2> QED
    BY <1>2, <2>1 DEF FutureType
<1>4. CameRound => CameRound'
  <2> SUFFICES ASSUME NEW f \in Futures, future[f].age = Generations PROVE CameRound'
    BY DEF CameRound
  <2>1. future'[f].age = Generations
    BY <1>1, <1>2
  <2> QED
    BY <2>1 DEF CameRound
<1>5. ASSUME NEW f \in Futures, NEW id \in Ids \cup {NoId}, id # NoId => id \in IdsOf(f),
             Names(table, future[f].age, f, id)
      PROVE  Names(table', future'[f].age, f, id)
  <2>1. PICK n \in Nat : n = future[f].age
    BY <1>1, <1>2
  <2>2. PICK m \in Nat : m = future'[f].age
    BY <1>1, <1>2
  <2>3. n <= m /\ Names(table, n, f, id)
    BY <1>2, <1>5, <2>1, <2>2
  <2>4. id # NoId /\ table[id[1]].live /\ ~table'[id[1]].live => m = n + 1 \/ m >= Generations
    <3> HAVE id # NoId /\ table[id[1]].live /\ ~table'[id[1]].live
    <3>1. Passed(table', f)
      BY <1>5 DEF Passed
    <3> QED
      BY <1>1, <1>2, <2>1, <2>2, <3>1
  <2>5. Names(table', m, f, id)
    BY <1>1, <2>3, <2>4, NamesAged
  <2> QED
    BY <2>2, <2>5
<1>6. \A f \in Futures : Names(table', future'[f].age, f, future'[f].id)
  <2> TAKE f \in Futures
  <2>1. future[f].id # NoId => future[f].id \in IdsOf(f)
    BY DEF IdsOf
  <2>2. Names(table, future[f].age, f, future[f].id)
    BY DEF IdInv
  <2>3. Names(table', future'[f].age, f, future[f].id)
    BY <1>1, <1>5, <2>1, <2>2
  <2> QED
    BY <1>2, <2>3
<1>7. \A p \in Procs : proc'[p].task \in Futures =>
          Names(table', future'[proc'[p].task].age, proc'[p].task, proc'[p].id)
  <2> TAKE p \in Procs
  <2> HAVE proc'[p].task \in Futures
  <2>1. CASE proc'[p].id = NoId
    BY <2>1 DEF Names
  <2>2. CASE proc'[p].id # NoId
    <3>1. PICK f \in Futures : f = proc[p].task /\ f = proc'[p].task /\ proc'[p].id = proc[p].id
      BY <2>2
    <3>2. proc[p].id # NoId => proc[p].id \in IdsOf(f)
      BY <3>1 DEF IdsOf
    <3>3. Names(table, future[f].age, f, proc[p].id)
      BY <3>1 DEF IdInv
    <3>4. Names(table', future'[f].age, f, proc[p].id)
      BY <1>1, <1>5, <3>2, <3>3
    <3> QED
      BY <3>1, <3>4
  <2> QED
    BY <2>1, <2>2
<1>8. IdInv'
  BY <1>6, <1>7 DEF IdInv
<1> QED
  BY <1>2, <1>3, <1>4, <1>8

-----------------------------------------------------------------------------
(* The sweep of fire_due over the slots. *)

\* Among finitely many there is a least.
LEMMA FiniteLeast ==
    ASSUME NEW S, IsFiniteSet(S), S # {}, NEW f \in [S -> Nat]
    PROVE  \E x \in S : \A y \in S : f[x] <= f[y]
<1> DEFINE below(x) == {y \in S : f[y] <= f[x]}
           family == {below(x) : x \in S}
<1>1. family \subseteq FiniteSubsetsOf(S) /\ family # {}
  <2>1. ASSUME NEW x \in S PROVE below(x) \in FiniteSubsetsOf(S)
    BY FS_Subset DEF FiniteSubsetsOf
  <2>2. PICK x : x \in S
    OBVIOUS
  <2>3. below(x) \in family
    BY <2>2
  <2> QED
    BY <2>1, <2>3
<1>2. PICK T \in family : \A U \in family : ~(<<U, T>> \in StrictSubsetOrdering(S))
  <2> HIDE DEF family
  <2> QED
    BY <1>1, FS_StrictSubsetOrderingWellFounded, WFMin
<1>3. PICK x \in S : T = below(x)
  OBVIOUS
<1>4. ASSUME NEW y \in S PROVE f[x] <= f[y]
  <2>1. SUFFICES ASSUME f[y] < f[x] PROVE FALSE
    OBVIOUS
  <2>2. below(y) \subseteq T /\ x \in T /\ x \notin below(y)
    BY <1>3, <2>1
  <2>3. <<below(y), T>> \in StrictSubsetOrdering(S)
    BY <1>3, <2>2 DEF StrictSubsetOrdering
  <2> QED
    BY <1>2, <2>3
<1> QED
  BY <1>4

Start == [table |-> table, queue |-> queue, shadow |-> shadow, overrun |-> overrun]
SweepTo(g, n) == [s \in 0..n |-> IF s = 0 THEN Start ELSE FireSlot(g[s - 1], s)]

\* Swept is well defined: it has a value, and the value obeys its equation.
LEMMA SweptIs ==
    /\ Swept[0] = Start
    /\ \A s \in Slots : Swept[s] = FireSlot(Swept[s - 1], s)
<1> DEFINE bad == {n \in 0..SLOT_CAPACITY : ~\E g : g = SweepTo(g, n)}
<1>1. bad = {}
  <2>1. SUFFICES ASSUME bad # {} PROVE FALSE
    OBVIOUS
  <2> DEFINE f == [n \in bad |-> n]
  <2>2. IsFiniteSet(bad) /\ f \in [bad -> Nat]
    <3>1. IsFiniteSet(0..SLOT_CAPACITY)
      BY CapacityAssumption, FS_Interval
    <3>2. IsFiniteSet(bad)
      BY <3>1, FS_Subset
    <3>3. bad \subseteq Nat
      OBVIOUS
    <3> HIDE DEF bad
    <3> QED
      BY <3>2, <3>3
  <2>3. PICK n \in bad : \A m \in bad : f[n] <= f[m]
    <3> HIDE DEF bad, f
    <3> QED
      BY <2>1, <2>2, FiniteLeast
  <2>4. n \in 0..SLOT_CAPACITY /\ ~\E g : g = SweepTo(g, n)
    OBVIOUS
  <2>5. n # 0
    <3>1. SUFFICES ASSUME n = 0 PROVE FALSE
      OBVIOUS
    <3> DEFINE g == [s \in 0..0 |-> Start]
    <3>2. g = SweepTo(g, 0)
      BY DEF SweepTo
    <3> QED
      BY <2>4, <3>1, <3>2
  <2>6. n - 1 \notin bad /\ n - 1 \in 0..SLOT_CAPACITY
    <3>1. n - 1 \in 0..SLOT_CAPACITY
      BY <2>4, <2>5, CapacityAssumption
    <3>2. ASSUME n - 1 \in bad PROVE FALSE
      <4>1. f[n] <= f[n - 1] /\ f[n] = n /\ f[n - 1] = n - 1
        BY <2>3, <3>2
      <4> QED
        BY <2>4, <4>1
    <3> QED
      BY <3>1, <3>2
  <2>7. PICK g : g = SweepTo(g, n - 1)
    BY <2>6
  <2> DEFINE h == [s \in 0..n |-> IF s = n THEN FireSlot(g[n - 1], n) ELSE g[s]]
  <2>8. h = SweepTo(h, n)
    <3>1. ASSUME NEW s \in 0..n
          PROVE  h[s] = IF s = 0 THEN Start ELSE FireSlot(h[s - 1], s)
      <4>0. n \in Nat \ {0} /\ s \in Nat /\ s <= n
        BY <2>4, <2>5
      <4>1. CASE s = n
        <5>1. s # 0 /\ h[s] = FireSlot(g[n - 1], n) /\ n - 1 \in 0..n /\ n - 1 # n
          BY <4>0, <4>1
        <5>2. h[s - 1] = g[n - 1]
          BY <4>1, <5>1
        <5> QED
          BY <4>1, <5>1, <5>2
      <4>2. CASE s # n
        <5>1. s \in 0..(n - 1) /\ h[s] = g[s]
          BY <4>0, <4>2
        <5>2. g[s] = IF s = 0 THEN Start ELSE FireSlot(g[s - 1], s)
          BY <2>7, <5>1 DEF SweepTo
        <5>3. s # 0 => h[s - 1] = g[s - 1]
          BY <4>0, <4>2
        <5> QED
          BY <5>1, <5>2, <5>3
      <4> QED
        BY <4>1, <4>2
    <3>2. DOMAIN h = 0..n
      OBVIOUS
    <3>3. h = [s \in 0..n |-> h[s]]
      OBVIOUS
    <3> HIDE DEF h
    <3> QED
      BY <3>1, <3>3 DEF SweepTo
  <2> QED
    BY <2>4, <2>8
<1>2. PICK g : g = SweepTo(g, SLOT_CAPACITY)
  <2>1. SLOT_CAPACITY \in 0..SLOT_CAPACITY
    BY CapacityAssumption
  <2> QED
    BY <1>1, <2>1
<1>3. Swept = SweepTo(Swept, SLOT_CAPACITY)
  BY <1>2 DEF Swept, SweepTo, Start
<1>4. 0 \in 0..SLOT_CAPACITY
  BY CapacityAssumption
<1>5. Swept[0] = Start
  BY <1>3, <1>4 DEF SweepTo
<1>6. ASSUME NEW s \in Slots PROVE Swept[s] = FireSlot(Swept[s - 1], s)
  <2>1. s \in 0..SLOT_CAPACITY /\ s # 0
    BY CapacityAssumption DEF Slots
  <2> QED
    BY <1>3, <2>1 DEF SweepTo
<1> QED
  BY <1>5, <1>6

-----------------------------------------------------------------------------
(* A step of the sweep. *)

Acc == [table : [Slots -> Entry], queue : Seq(Words), shadow : Seq(Runnables), overrun : BOOLEAN]

\* What holds of the table and the queue when the first n slots have had their
\* turn.  A future whose entry is still to come has at most one run on its
\* way, and none behind a tick.  (The runs, until an id can name another's entry.)
QueueSwept(a) ==
    /\ Len(a.queue) <= QUEUE_CAPACITY /\ Len(a.shadow) <= QUEUE_CAPACITY
    /\ a.overrun \/ RunnablesOf(a.shadow, a.queue)
    /\ Times(a.queue, "tick") = Times(queue, "tick")
    /\ Len(queue) <= Len(a.queue) /\ \A i \in 1..Len(queue) : a.queue[i] = queue[i]
TableSwept(a) ==
    /\ TableTrue(a.table)
    /\ FreedSome(table, a.table)
    /\ \A f \in Futures : /\ Ent(a.table, f) \subseteq Ent(table, f)
                          /\ Ent(table, f) = {} => Times(a.queue, f) = Times(queue, f)
RunsSwept(a, f) ==
    /\ Times(a.queue, f) <= IF Single(f) THEN 1 ELSE 2
    /\ \A s \in Ent(a.table, f) : Single(f) /\ ~a.table[s].in_flight => Times(a.queue, f) = 0
    /\ OneBehind(a.queue, f)
    /\ \A s \in Ent(a.table, f) : a.table[s].in_flight /\ ~interrupted =>
          Times(a.queue, f) = 1 \/ future[f].missed \/ ~Live(f)
DueLater(a, n, f) ==
    \A s \in Ent(a.table, f) : s > n => Times(a.queue, f) <= 1 /\ NoneBehind(a.queue, f)
FireInv(a, n) ==
    /\ a \in Acc /\ QueueSwept(a) /\ TableSwept(a)
    /\ CameRound \/ \A f \in Futures : RunsSwept(a, f) /\ DueLater(a, n, f)

\* The same, when slot s is due and there is room: its Runnable is posted.
PostedAcc(a, s) ==
    [table |-> [a.table EXCEPT ![s] = Posted(a.table[s])],
     queue |-> Append(a.queue, a.table[s].runnable),
     shadow |-> shadow_push(a.shadow, a.table[s].runnable),
     overrun |-> a.overrun \/ Full(a.shadow)]

LEMMA FireSlotIs ==
    ASSUME NEW a \in Acc, NEW s \in Slots
    PROVE  \/ FireSlot(a, s) = a
           \/ /\ is_due(a.table[s]) /\ ~Full(a.queue)
              /\ FireSlot(a, s) = PostedAcc(a, s)
BY DEF FireSlot, PostedAcc

\* No word is another's: futures are neither ticks nor wakes.
LEMMA NamesApart ==
    /\ \A f \in Futures : f \in Runnables /\ f \in Words /\ f \notin {None, "none", "tick", "wake"}
                          /\ f \notin Plain
    /\ \A r \in Runnables : r \in Words /\ r \notin {None, "none", "tick", "wake"}
    /\ "tick" \in Words /\ "wake" \in Words /\ "tick" \notin Runnables /\ "wake" \notin Runnables
    /\ "none" \notin Words /\ None \notin Runnables
BY NamesAssumption DEF Runnables, Words

\* A turn of the loop of fire_due that posts: the queue and the shadow.
LEMMA PostQueue ==
    ASSUME NEW a \in Acc, NEW s \in Slots, QueueSwept(a), QueueType,
           is_due(a.table[s]), ~Full(a.queue), a.table[s].runnable \in Futures
    PROVE  /\ PostedAcc(a, s).queue \in Seq(Words) /\ PostedAcc(a, s).shadow \in Seq(Runnables)
           /\ PostedAcc(a, s).overrun \in BOOLEAN
           /\ QueueSwept(PostedAcc(a, s))
<1> DEFINE f == a.table[s].runnable
           b == PostedAcc(a, s)
<1>1. /\ a.queue \in Seq(Words) /\ a.shadow \in Seq(Runnables) /\ a.overrun \in BOOLEAN
      /\ Len(a.queue) <= QUEUE_CAPACITY /\ Len(a.shadow) <= QUEUE_CAPACITY
      /\ a.overrun \/ RunnablesOf(a.shadow, a.queue)
      /\ Times(a.queue, "tick") = Times(queue, "tick")
      /\ Len(queue) <= Len(a.queue) /\ \A i \in 1..Len(queue) : a.queue[i] = queue[i]
  BY DEF Acc, QueueSwept
<1>2. b.queue = Append(a.queue, f) /\ b.shadow = shadow_push(a.shadow, f)
      /\ b.overrun = (a.overrun \/ Full(a.shadow))
  BY DEF PostedAcc
<1>3. f \in Words /\ f \in Runnables /\ f # "tick" /\ QUEUE_CAPACITY \in Nat
  BY NamesApart, CapacityAssumption
<1>4. Len(a.queue) # QUEUE_CAPACITY /\ Len(a.queue) \in Nat /\ Len(a.shadow) \in Nat
      /\ queue \in Seq(Words) /\ Len(queue) \in Nat
  BY <1>1, LenProperties DEF Full, QueueType
<1> HIDE DEF f, b
<1>5. b.queue \in Seq(Words) /\ Len(b.queue) <= QUEUE_CAPACITY
      /\ Len(b.queue) = Len(a.queue) + 1
      /\ \A i \in 1..Len(a.queue) : b.queue[i] = a.queue[i]
  BY <1>1, <1>2, <1>3, <1>4, AppendFacts
<1>6. Times(b.queue, "tick") = Times(queue, "tick")
  <2>1. Times(b.queue, "tick") = Times(a.queue, "tick") + 0
    BY <1>1, <1>2, <1>3, TimesAppend
  <2>2. Times(a.queue, "tick") \in Nat
    BY <1>1, TimesType
  <2> QED
    BY <1>1, <2>1, <2>2
<1>7. Len(queue) <= Len(b.queue) /\ \A i \in 1..Len(queue) : b.queue[i] = queue[i]
  BY <1>1, <1>4, <1>5
<1>8. CASE Len(a.shadow) < QUEUE_CAPACITY
  <2>1. b.shadow = Append(a.shadow, f)
    BY <1>2, <1>8 DEF shadow_push
  <2>2. b.shadow \in Seq(Runnables) /\ Len(b.shadow) <= QUEUE_CAPACITY
    BY <1>1, <1>3, <1>4, <1>8, <2>1, AppendFacts
  <2>3. a.overrun \/ RunnablesOf(b.shadow, b.queue)
    BY <1>1, <1>2, <1>3, <2>1, EmbedsPush
  <2> QED
    BY <1>1, <1>2, <1>5, <1>6, <1>7, <2>2, <2>3 DEF b, QueueSwept
<1>9. CASE ~(Len(a.shadow) < QUEUE_CAPACITY)
  <2>0. Full(a.shadow)
    BY <1>1, <1>3, <1>4, <1>9 DEF Full
  <2>1. b.shadow = a.shadow /\ b.overrun
    BY <1>2, <1>9, <2>0 DEF shadow_push
  <2> QED
    BY <1>1, <1>2, <1>5, <1>6, <1>7, <2>1 DEF b, QueueSwept
<1> QED
  BY <1>8, <1>9

\* The same: how many runs are on their way, and behind which ticks.
LEMMA PostRuns ==
    ASSUME NEW q \in Seq(Words), NEW f \in Futures, NEW g \in Futures
    PROVE  /\ Times(q, g) \in Nat
           /\ Times(Append(q, f), g) = Times(q, g) + (IF f = g THEN 1 ELSE 0)
           /\ g # f => (OneBehind(q, g) => OneBehind(Append(q, f), g))
           /\ g # f => (NoneBehind(q, g) => NoneBehind(Append(q, f), g))
           /\ NoneBehind(q, f) => OneBehind(Append(q, f), f)
<1>1. f \in Words
  BY NamesApart
<1>2. /\ DOMAIN q = 1..Len(q) /\ DOMAIN Append(q, f) = 1..Len(q) + 1
      /\ \A i \in 1..Len(q) : Append(q, f)[i] = q[i]
      /\ Append(q, f)[Len(q) + 1] = f /\ Len(q) \in Nat
  BY <1>1, AppendFacts
<1>3. Times(q, g) \in Nat /\ Times(Append(q, f), g) = Times(q, g) + (IF f = g THEN 1 ELSE 0)
  <2>1. Times(q, g) \in Nat
    BY TimesType
  <2>2. Times(Append(q, f), g) = Times(q, g) + (IF f = g THEN 1 ELSE 0)
    BY <1>1, TimesAppend
  <2> QED
    BY <2>1, <2>2
<1>4. ASSUME g # f, OneBehind(q, g) PROVE OneBehind(Append(q, f), g)
  BY <1>2, <1>4 DEF OneBehind
<1>5. ASSUME g # f, NoneBehind(q, g) PROVE NoneBehind(Append(q, f), g)
  BY <1>2, <1>5 DEF NoneBehind
<1>6. ASSUME NoneBehind(q, f) PROVE OneBehind(Append(q, f), f)
  BY <1>2, <1>6 DEF NoneBehind, OneBehind
<1> QED
  BY <1>3, <1>4, <1>5, <1>6

\* The same: the table.
LEMMA PostTable ==
    ASSUME NEW a \in Acc, NEW s \in Slots, TableSwept(a), is_due(a.table[s]), TableType
    PROVE  LET U == PostedAcc(a, s).table IN
           /\ U \in [Slots -> Entry] /\ TableTrue(U) /\ FreedSome(table, U)
           /\ \A f : Ent(U, f) \subseteq Ent(a.table, f)
           /\ \A r \in Slots : r # s => U[r] = a.table[r]
           /\ \A r \in Slots : U[s].live =>
                 IF Single(a.table[s].runnable) THEN U[s].in_flight ELSE ~U[s].in_flight
<1> DEFINE T == a.table
           U == PostedAcc(a, s).table
           e == T[s]
<1>1. T \in [Slots -> Entry] /\ TableTrue(T) /\ U = [T EXCEPT ![s] = Posted(e)]
      /\ FreedSome(table, T)
  BY DEF Acc, TableSwept, PostedAcc
<1>2. e \in Entry /\ is_due(e)
  BY <1>1
<1>3. e.live /\ ~e.in_flight /\ e.kind \in Kinds /\ e.kind = future[e.runnable].kind
  BY <1>1, <1>2, PostedIs DEF TableTrue, EntryTrue, Entry
<1>4. table[s] \in Entry /\ Same(table[s], e)
  <2>1. table[s] \in Entry
    BY DEF TableType
  <2>2. free(table[s]).live = FALSE
    BY <2>1, FreeIs
  <2> QED
    BY <1>1, <1>3, <2>1, <2>2 DEF FreedSome
<1>5. \A r \in Slots : r # s => \/ Same(table[r], T[r])
                                \/ table[r].live /\ T[r] = free(table[r])
  BY <1>1 DEF FreedSome
<1>6. CASE e.kind = "OneShot"
  <2>1. Posted(e) = free(e)
    BY <1>2, <1>6, PostedIs
  <2>2. U = Freed(T, s)
    BY <1>1, <2>1 DEF Freed
  <2> HIDE DEF U, T
  <2>3. U \in [Slots -> Entry] /\ (\A r \in Slots : r # s => U[r] = T[r]) /\ U[s] = free(e)
    BY <1>1, <2>2, FreedEnt
  <2>4. ASSUME NEW f PROVE Ent(U, f) \subseteq Ent(T, f)
    <3>1. Ent(Freed(T, s), f) = Ent(T, f) \ {s}
      BY <1>1, FreedEnt
    <3> QED
      BY <2>2, <3>1
  <2>5. TableTrue(U)
    BY <1>1, <2>2, FreedTrue
  <2>6. FreedSome(table, U)
    <3>1. free(e) = free(table[s]) /\ table[s].live
      BY <1>3, <1>4 DEF free, Same
    <3> QED
      BY <1>5, <2>3, <3>1 DEF FreedSome
  <2>7. ~U[s].live
    BY <1>2, <2>3, FreeIs
  <2> QED
    BY <2>3, <2>4, <2>5, <2>6, <2>7 DEF U, T
<1>7. CASE e.kind # "OneShot"
  <2>1. Posted(e) \in Entry /\ Same(e, Posted(e))
        /\ (e.kind = "FixedDelay" => Posted(e).in_flight)
        /\ (e.kind = "FixedRate" => ~Posted(e).in_flight)
    BY <1>2, <1>7, PostedIs
  <2> HIDE DEF U
  <2>2. U \in [Slots -> Entry] /\ (\A r \in Slots : r # s => U[r] = T[r]) /\ U[s] = Posted(e)
    BY <1>1, <2>1
  <2>3. Alike(T, U)
    BY <2>1, <2>2 DEF Alike, Same
  <2> HIDE DEF T
  <2>4. TableTrue(U)
    <3>1. ASSUME NEW r \in Slots PROVE EntryTrue(U, r)
      <4>1. EntryTrue(T, r)
        BY <1>1 DEF TableTrue
      <4>2. CASE r = s
        <5>1. U[r] = Posted(e) /\ T[r] = e
          BY <2>2, <4>2
        <5>2. U[r].in_flight => U[r].kind = "FixedDelay"
          BY <1>3, <1>7, <2>1, <5>1 DEF Same, Kinds
        <5> QED
          BY <1>3, <2>1, <4>1, <5>1, <5>2 DEF EntryTrue, Same
      <4>3. CASE r # s
        BY <2>2, <4>1, <4>3 DEF EntryTrue
      <4> QED
        BY <4>2, <4>3
    <3>2. \A r, t \in Slots : U[r].live /\ U[t].live /\ U[r].runnable = U[t].runnable => r = t
      BY <1>1, <2>3 DEF TableTrue, Alike, Same
    <3> QED
      BY <3>1, <3>2 DEF TableTrue
  <2>5. \A f : Ent(U, f) = Ent(T, f)
    BY <2>3, AlikeEnt
  <2>6. FreedSome(table, U)
    <3>1. Same(table[s], U[s])
      BY <1>4, <2>1, <2>2 DEF Same
    <3> QED
      BY <1>5, <2>2, <3>1 DEF FreedSome
  <2>7. IF Single(e.runnable) THEN U[s].in_flight ELSE ~U[s].in_flight
    BY <1>3, <1>7, <2>1, <2>2 DEF Single, Kinds
  <2> QED
    BY <2>2, <2>4, <2>5, <2>6, <2>7 DEF U, T
<1> QED
  BY <1>6, <1>7

\* One turn of the loop of fire_due.
LEMMA SweepStep ==
    ASSUME NEW a, NEW s \in Slots, FireInv(a, s - 1), QueueType, TableType
    PROVE  FireInv(FireSlot(a, s), s)
<1>0. /\ a \in Acc /\ QueueSwept(a) /\ TableSwept(a) /\ s \in Nat
      /\ CameRound \/ \A f \in Futures : RunsSwept(a, f) /\ DueLater(a, s - 1, f)
  BY CapacityAssumption DEF FireInv, Slots
<1>1. CASE FireSlot(a, s) = a
  <2>1. CameRound \/ \A f \in Futures : DueLater(a, s, f)
    <3> SUFFICES ASSUME ~CameRound, NEW f \in Futures PROVE DueLater(a, s, f)
      OBVIOUS
    <3>1. \A r \in Ent(a.table, f) : r > s => r > s - 1
      BY <1>0 DEF Ent, Slots
    <3> QED
      BY <1>0, <3>1 DEF DueLater
  <2> QED
    BY <1>0, <1>1, <2>1 DEF FireInv
<1>2. CASE is_due(a.table[s]) /\ ~Full(a.queue) /\ FireSlot(a, s) = PostedAcc(a, s)
  <2> DEFINE b == PostedAcc(a, s)
             f == a.table[s].runnable
  <2>1. a.table \in [Slots -> Entry] /\ a.queue \in Seq(Words) /\ TableTrue(a.table)
        /\ \A g \in Futures : Ent(a.table, g) \subseteq Ent(table, g)
    BY <1>0 DEF Acc, TableSwept
  <2>2. a.table[s].live /\ ~a.table[s].in_flight
    BY <1>2 DEF is_due
  <2>3. f \in Futures /\ s \in Ent(a.table, f)
    BY <2>1, <2>2 DEF TableTrue, EntryTrue, Ent
  <2>4. s \in Ent(table, f)
    BY <2>1, <2>3
  <2>6. /\ b.queue \in Seq(Words) /\ b.shadow \in Seq(Runnables) /\ b.overrun \in BOOLEAN
        /\ QueueSwept(b)
    BY <1>0, <1>2, <2>3, PostQueue
  <2>7. /\ b.table \in [Slots -> Entry] /\ TableTrue(b.table) /\ FreedSome(table, b.table)
        /\ \A g : Ent(b.table, g) \subseteq Ent(a.table, g)
        /\ \A r \in Slots : r # s => b.table[r] = a.table[r]
        /\ b.table[s].live => IF Single(f) THEN b.table[s].in_flight ELSE ~b.table[s].in_flight
    BY <1>0, <1>2, PostTable
  <2>8. b.queue = Append(a.queue, f)
    BY DEF PostedAcc
  <2>9. b \in Acc
    BY <2>6, <2>7 DEF Acc, PostedAcc
  <2>10. \A g \in Futures : /\ Times(a.queue, g) \in Nat
                            /\ Times(b.queue, g) = Times(a.queue, g) + (IF f = g THEN 1 ELSE 0)
    BY <2>1, <2>3, <2>8, PostRuns
  <2>11. TableSwept(b)
    <3>1. ASSUME NEW g \in Futures
          PROVE  /\ Ent(b.table, g) \subseteq Ent(table, g)
                 /\ Ent(table, g) = {} => Times(b.queue, g) = Times(queue, g)
      <4>1. Ent(table, g) = {} => Times(a.queue, g) = Times(queue, g)
        BY <1>0 DEF TableSwept
      <4>2. g = f => Ent(table, g) # {}
        BY <2>4
      <4> HIDE DEF f, b
      <4> QED
        BY <2>1, <2>7, <2>10, <4>1, <4>2
    <3> QED
      BY <2>7, <3>1 DEF TableSwept
  <2>12. ASSUME ~CameRound, NEW g \in Futures, g # f PROVE RunsSwept(b, g) /\ DueLater(b, s, g)
    <3>1. RunsSwept(a, g) /\ DueLater(a, s - 1, g)
      BY <1>0, <2>12
    <3>2. Times(b.queue, g) = Times(a.queue, g)
      BY <2>10, <2>12
    <3>3. (OneBehind(a.queue, g) => OneBehind(b.queue, g))
          /\ (NoneBehind(a.queue, g) => NoneBehind(b.queue, g))
      BY <2>1, <2>3, <2>8, <2>12, PostRuns
    <3>4. \A r \in Ent(b.table, g) : /\ r \in Ent(a.table, g) /\ r \in Slots
                                     /\ b.table[r] = a.table[r]
      <4> TAKE r \in Ent(b.table, g)
      <4>1. r \in Ent(a.table, g) /\ r \in Slots
        BY <2>7 DEF Ent
      <4>2. r # s
        BY <2>12, <4>1 DEF Ent
      <4> QED
        BY <2>7, <4>1, <4>2
    <3> HIDE DEF f, b
    <3>5. RunsSwept(b, g)
      BY <3>1, <3>2, <3>3, <3>4 DEF RunsSwept
    <3>6. DueLater(b, s, g)
      <4>1. \A r \in Ent(b.table, g) : r > s => r > s - 1
        BY <1>0, <3>4 DEF Slots
      <4> QED
        BY <3>1, <3>2, <3>3, <3>4, <4>1 DEF DueLater
    <3> QED
      BY <3>5, <3>6
  <2>13. ASSUME ~CameRound PROVE RunsSwept(b, f) /\ DueLater(b, s, f)
    <3>1. RunsSwept(a, f) /\ DueLater(a, s - 1, f)
      BY <1>0, <2>3, <2>13
    <3>2. s > s - 1
      BY <1>0
    <3>3. Times(a.queue, f) <= 1 /\ NoneBehind(a.queue, f)
      BY <2>3, <3>1, <3>2 DEF DueLater
    <3>4. Single(f) => Times(a.queue, f) = 0
      BY <2>2, <2>3, <3>1 DEF RunsSwept
    <3>5. Times(a.queue, f) \in Nat /\ Times(b.queue, f) = Times(a.queue, f) + 1
      BY <2>3, <2>10
    <3>6. OneBehind(b.queue, f)
      BY <2>1, <2>3, <2>8, <3>3, PostRuns
    <3>7. Ent(a.table, f) = {s}
      BY <2>1, <2>2, <2>3 DEF TableTrue, Ent
    <3>8. \A r \in Ent(b.table, f) : r = s /\ b.table[s].live
      BY <2>7, <3>7 DEF Ent
    <3>9. b.table[s].live => IF Single(f) THEN b.table[s].in_flight ELSE ~b.table[s].in_flight
      BY <2>7
    <3> HIDE DEF b, f
    <3>10. Times(b.queue, f) <= IF Single(f) THEN 1 ELSE 2
      BY <3>3, <3>4, <3>5
    <3>11. \A r \in Ent(b.table, f) : Single(f) /\ ~b.table[r].in_flight => Times(b.queue, f) = 0
      BY <3>8, <3>9
    <3>12. \A r \in Ent(b.table, f) : b.table[r].in_flight => Times(b.queue, f) = 1
      BY <3>4, <3>5, <3>8, <3>9
    <3>13. RunsSwept(b, f)
      BY <3>6, <3>10, <3>11, <3>12 DEF RunsSwept
    <3>14. DueLater(b, s, f)
      BY <1>0, <3>8 DEF DueLater
    <3> QED
      BY <3>13, <3>14
  <2> HIDE DEF b, f
  <2>14. FireInv(b, s)
    BY <2>6, <2>9, <2>11, <2>12, <2>13 DEF FireInv
  <2> QED
    BY <1>2, <2>14 DEF b
<1> QED
  BY <1>0, <1>1, <1>2, FireSlotIs

LEMMA NothingHeld ==
    ASSUME PlaceInv, proc[UI].pc = "tick", NEW q \in Seq(Words), NEW f \in Futures
    PROVE  hand = "none" /\ ~UIRuns(f) /\ OutIn(q, f) = Times(q, f) /\ Times(q, f) \in Nat
<1>1. hand = "none"
  BY DEF PlaceInv
<1>2. ~UIRuns(f)
  BY DEF UIRuns
<1>3. Held(f) = 0 /\ RunsUI(f) = 0
  BY <1>1, <1>2, NamesApart DEF Held, RunsUI
<1>4. Times(q, f) \in Nat
  BY TimesType
<1> QED
  BY <1>1, <1>2, <1>3, <1>4 DEF OutIn

LEMMA SweepStart ==
    ASSUME Inv, proc[UI].pc = "tick"
    PROVE  FireInv(Start, 0)
<1>1. Types /\ PlaceInv /\ MirrorInv /\ TableInv /\ ArmInv /\ IdInv /\ RunInv
  BY DEF Inv
<1>2. /\ Start.table = table /\ Start.queue = queue /\ Start.shadow = shadow
      /\ Start.overrun = overrun
  BY DEF Start
<1>3. Start \in Acc
  BY <1>1 DEF Start, Acc, Types, QueueType, ShadowType, FlagsType, TableType
<1>4. QueueSwept(Start)
  <2>1. hand = "none"
    BY <1>1 DEF PlaceInv
  <2>2. overrun \/ RunnablesOf(shadow, <<>> \o queue)
    BY <1>1, <2>1 DEF MirrorInv, ShadowExact
  <2>3. <<>> \o queue = queue /\ Len(queue) \in Nat
    BY <1>1, ConcatEmptySeq, LenProperties DEF Types, QueueType
  <2> QED
    BY <1>1, <1>2, <2>2, <2>3 DEF QueueSwept, Types, QueueType, ShadowType
<1>5. TableSwept(Start)
  <2>1. FreedSome(table, table)
    BY DEF FreedSome, Same
  <2> QED
    BY <1>1, <1>2, <2>1 DEF TableSwept, TableInv
<1>6. ASSUME ~CameRound, NEW f \in Futures PROVE RunsSwept(Start, f) /\ DueLater(Start, 0, f)
  <2>1. /\ RunBounds(queue, f) /\ Rested(table, queue, f)
        /\ OneBehind(queue, f) /\ Waits(table, queue, f)
        /\ Out(f) <= 1 /\ NoneBehind(queue, f)
    BY <1>1, <1>6 DEF RunInv, RunCount
  <2>2. hand = "none" /\ ~UIRuns(f) /\ OutIn(queue, f) = Times(queue, f)
        /\ Times(queue, f) \in Nat
    BY <1>1, NothingHeld DEF Types, QueueType
  <2>3. Held(f) = 0
    BY <2>2, NamesApart DEF Held
  <2>4. RunsSwept(Start, f)
    BY <1>2, <2>1, <2>2, <2>3 DEF RunsSwept, RunBounds, Rested, Waits
  <2>5. DueLater(Start, 0, f)
    BY <1>2, <2>1, <2>2 DEF DueLater, Out
  <2> QED
    BY <2>4, <2>5
<1> QED
  BY <1>3, <1>4, <1>5, <1>6 DEF FireInv

\* The loop of fire_due, slot by slot, from the least at which it could go wrong.
LEMMA SweepEnds ==
    ASSUME Inv, proc[UI].pc = "tick"
    PROVE  FireInv(Swept[SLOT_CAPACITY], SLOT_CAPACITY)
<1> DEFINE bad == {n \in 0..SLOT_CAPACITY : ~FireInv(Swept[n], n)}
           f == [n \in bad |-> n]
<1>1. bad = {}
  <2>1. SUFFICES ASSUME bad # {} PROVE FALSE
    OBVIOUS
  <2>2. IsFiniteSet(bad) /\ f \in [bad -> Nat]
    <3>1. IsFiniteSet(0..SLOT_CAPACITY)
      BY CapacityAssumption, FS_Interval
    <3>2. IsFiniteSet(bad)
      BY <3>1, FS_Subset
    <3>3. bad \subseteq Nat
      OBVIOUS
    <3> HIDE DEF bad
    <3> QED
      BY <3>2, <3>3
  <2>3. PICK n \in bad : \A m \in bad : f[n] <= f[m]
    <3> HIDE DEF bad, f
    <3> QED
      BY <2>1, <2>2, FiniteLeast
  <2>4. n \in 0..SLOT_CAPACITY /\ ~FireInv(Swept[n], n)
    OBVIOUS
  <2>5. n # 0
    BY <2>4, SweptIs, SweepStart
  <2>6. n \in Slots /\ n - 1 \in 0..SLOT_CAPACITY
    BY <2>4, <2>5, CapacityAssumption DEF Slots
  <2>7. FireInv(Swept[n - 1], n - 1)
    <3>1. SUFFICES ASSUME n - 1 \in bad PROVE FALSE
      BY <2>6
    <3>2. f[n] <= f[n - 1] /\ f[n] = n /\ f[n - 1] = n - 1
      BY <2>3, <3>1
    <3> QED
      BY <2>4, <3>2
  <2>8. QueueType /\ TableType
    BY DEF Inv, Types
  <2>9. FireInv(FireSlot(Swept[n - 1], n), n)
    BY <2>6, <2>7, <2>8, SweepStep
  <2> QED
    BY <2>4, <2>6, <2>9, SweptIs
<1>2. SLOT_CAPACITY \in 0..SLOT_CAPACITY
  BY CapacityAssumption
<1> QED
  BY <1>1, <1>2

-----------------------------------------------------------------------------
(* What a step leaves as it is. *)

queueVars == <<queue, shadow, overrun, tick_in_queue, hand>>

\* Frames: what a step that leaves the queue alone keeps of each part.
LEMMA MirrorFrame ==
    ASSUME Types, MirrorInv, UNCHANGED queueVars
    PROVE  QueueType' /\ ShadowType' /\ MirrorInv'
<1>1. QueueType' /\ ShadowType'
  BY DEF Types, QueueType, ShadowType, queueVars
<1>2. TickFlagExact'
  BY DEF MirrorInv, TickFlagExact, queueVars, Copies
<1>3. ShadowExact'
  BY DEF MirrorInv, ShadowExact, queueVars
<1> QED
  BY <1>1, <1>2, <1>3 DEF MirrorInv

\* The runs on their way are numbers.
LEMMA OutType ==
    ASSUME QueueType, NEW f
    PROVE  /\ Times(queue, f) \in Nat /\ Held(f) \in {0, 1} /\ RunsUI(f) \in {0, 1}
           /\ Out(f) = Times(queue, f) + Held(f) + RunsUI(f) /\ Out(f) \in Nat
           /\ Copies(f) = Times(queue, f) + Held(f)
<1>1. Times(queue, f) \in Nat
  BY TimesType DEF QueueType
<1>2. Held(f) \in {0, 1} /\ RunsUI(f) \in {0, 1}
  BY DEF Held, RunsUI
<1>3. Out(f) = Times(queue, f) + Held(f) + RunsUI(f)
  BY DEF Out, OutIn
<1>4. Copies(f) = Times(queue, f) + Held(f)
  BY DEF Copies, Held
<1> QED
  BY <1>1, <1>2, <1>3, <1>4

LEMMA OutFrame ==
    ASSUME QueueType, queue' = queue, hand' = hand, NEW f, UIRuns(f)' => UIRuns(f)
    PROVE  /\ Out(f) \in Nat /\ Out(f)' \in Nat /\ Out(f)' <= Out(f)
           /\ Times(queue, f)' = Times(queue, f) /\ Held(f)' = Held(f)
           /\ (UIRuns(f)' <=> UIRuns(f)) => Out(f)' = Out(f)
           /\ UIRuns(f) /\ ~UIRuns(f)' => Out(f)' = Out(f) - 1
<1>1. Times(queue, f)' = Times(queue, f) /\ Held(f)' = Held(f)
  BY DEF Held
<1>2. Times(queue, f) \in Nat /\ Held(f) \in {0, 1}
  BY OutType
<1>3. Out(f) = Times(queue, f) + Held(f) + RunsUI(f)
      /\ Out(f)' = Times(queue, f) + Held(f) + RunsUI(f)'
  BY <1>1 DEF Out, OutIn
<1>4. RunsUI(f) = (IF UIRuns(f) THEN 1 ELSE 0) /\ RunsUI(f)' = (IF UIRuns(f)' THEN 1 ELSE 0)
  BY DEF RunsUI
<1> QED
  BY <1>1, <1>2, <1>3, <1>4

LEMMA UnusedFrame ==
    ASSUME QueueType, queue' = queue, hand' = hand, NEW f, UIRuns(f)' => UIRuns(f),
           Ent(table', f) \subseteq Ent(table, f), Unused(f)
    PROVE  Unused(f)'
<1>1. Out(f)' \in Nat /\ Out(f)' <= 0
  BY OutFrame DEF Unused
<1>2. Ent(table', f) = {}
  BY DEF Unused
<1> QED
  BY <1>1, <1>2 DEF Unused

\* Ids move between a future and the tasks at work on it, and are dropped; no
\* slot is freed.
IdsKept ==
    /\ \A f \in Futures : future'[f].age = future[f].age
    /\ \A f \in Futures :
          \/ future'[f].id = NoId \/ future'[f].id = future[f].id
          \/ \E p \in Procs : proc[p].task = f /\ future'[f].id = proc[p].id
    /\ \A p \in Procs :
          \/ proc'[p].id = NoId
          \/ proc'[p].id = proc[p].id /\ proc'[p].task = proc[p].task
          \/ proc'[p].task \in Futures /\ proc'[p].id = future[proc'[p].task].id

LEMMA IdFrame ==
    ASSUME Types, IdInv, TableType', Alike(table, table'), IdsKept
    PROVE  IdInv'
<1>1. /\ \A f \in Futures : /\ future[f].id \in Ids \cup {NoId} /\ future[f].age \in Nat
                            /\ future'[f].age = future[f].age
      /\ \A p \in Procs : proc[p].id \in Ids \cup {NoId}
      /\ table \in [Slots -> Entry] /\ table' \in [Slots -> Entry]
  BY GenerationsPositive
  DEF IdsKept, Types, FutureType, ProcType, TableType, Future, Process
<1>2. ASSUME NEW f \in Futures, NEW id \in Ids \cup {NoId}, Names(table, future[f].age, f, id)
      PROVE  Names(table', future'[f].age, f, id)
  <2>1. PICK n \in Nat : n = future[f].age /\ n = future'[f].age
    BY <1>1
  <2>2. FreedSome(table, table')
    BY DEF FreedSome, Alike
  <2>3. id # NoId => (table[id[1]].live <=> table'[id[1]].live)
    <3>1. id # NoId => id[1] \in Slots
      BY DEF Ids
    <3> QED
      BY <3>1 DEF Alike, Same
  <2>4. n <= n /\ Names(table, n, f, id)
    BY <1>2, <2>1
  <2>5. Names(table', n, f, id)
    BY <1>1, <2>2, <2>3, <2>4, NamesAged
  <2> QED
    BY <2>1, <2>5
<1>3. /\ \A f \in Futures : Names(table, future[f].age, f, future[f].id)
      /\ \A p \in Procs : proc[p].task \in Futures =>
            Names(table, future[proc[p].task].age, proc[p].task, proc[p].id)
  BY DEF IdInv
<1>4. \A f : \A n : Names(table', n, f, NoId)
  BY DEF Names
<1>5. ASSUME NEW f \in Futures PROVE Names(table', future'[f].age, f, future'[f].id)
  <2>1. CASE future'[f].id = NoId
    BY <1>4, <2>1
  <2>2. CASE future'[f].id = future[f].id
    BY <1>1, <1>2, <1>3, <2>2
  <2>3. ASSUME NEW p \in Procs, proc[p].task = f, future'[f].id = proc[p].id
        PROVE  Names(table', future'[f].age, f, future'[f].id)
    <3>1. Names(table, future[f].age, f, proc[p].id)
      BY <1>3, <2>3
    <3> QED
      BY <1>1, <1>2, <2>3, <3>1
  <2> QED
    BY <2>1, <2>2, <2>3 DEF IdsKept
<1>6. ASSUME NEW p \in Procs, NEW f \in Futures, proc'[p].task = f
      PROVE  Names(table', future'[f].age, f, proc'[p].id)
  <2>1. CASE proc'[p].id = NoId
    BY <1>4, <2>1
  <2>2. CASE proc'[p].id = proc[p].id /\ proc'[p].task = proc[p].task
    <3>1. Names(table, future[f].age, f, proc[p].id)
      BY <1>3, <1>6, <2>2
    <3> QED
      BY <1>1, <1>2, <2>2, <3>1
  <2>3. CASE proc'[p].id = future[proc'[p].task].id
    BY <1>1, <1>2, <1>3, <1>6, <2>3
  <2> QED
    BY <2>1, <2>2, <2>3 DEF IdsKept
<1> QED
  BY <1>5, <1>6 DEF IdInv

\* A step that posts nothing leaves no more runs on their way.
RunsKept ==
    /\ queue' = queue /\ hand' = hand /\ interrupted' = interrupted
    /\ CameRound => CameRound'
    /\ proc'[UI].pc = "tick" => proc[UI].pc = "tick"
    /\ \A f \in Futures :
          /\ UIRuns(f)' => UIRuns(f)
          /\ future'[f].kind = future[f].kind \/ (Unused(f) /\ Ent(table', f) = {})
          /\ future[f].missed => future'[f].missed
          /\ ~Live(f) => ~Live(f)' \/ Ent(table', f) = {}
          /\ UIRuns(f) /\ ~UIRuns(f)' =>
                future'[f].missed \/ ~Live(f)' \/ interrupted
                \/ \A s \in Ent(table', f) : ~table'[s].in_flight
          /\ \A s \in Ent(table', f) :
                \/ s \in Ent(table, f) /\ table'[s].in_flight = table[s].in_flight
                \/ ~table'[s].in_flight /\ Out(f)' = 0
                \/ CameRound
    /\ proc'[UI].pc = "complete" /\ proc'[UI].id = NoId => future'[proc'[UI].task].missed
    /\ proc'[UI].pc = "calling" => future'[proc'[UI].task].state \in {"RUNNING", "CANCELLED"}
    /\ \A f \in Futures : future'[f].state = "RUNNING" =>
          interrupted \/ (proc'[UI].pc = "calling" /\ proc'[UI].task = f)

LEMMA CountFrame ==
    ASSUME Types, ~CameRound, RunCount, RunsKept
    PROVE  RunCount'
<1>0. QueueType /\ queue' = queue /\ hand' = hand /\ interrupted' = interrupted
  BY DEF Types, RunsKept
<1>1. ASSUME NEW f \in Futures
      PROVE  /\ RunBounds(queue, f)' /\ Rested(table, queue, f)'
             /\ OneBehind(queue, f)' /\ Waits(table, queue, f)'
  <2>1. /\ RunBounds(queue, f) /\ Rested(table, queue, f)
        /\ OneBehind(queue, f) /\ Waits(table, queue, f)
    BY DEF RunCount
  <2>2. /\ UIRuns(f)' => UIRuns(f)
        /\ future'[f].kind = future[f].kind \/ (Unused(f) /\ Ent(table', f) = {})
        /\ future[f].missed => future'[f].missed
        /\ ~Live(f) => ~Live(f)' \/ Ent(table', f) = {}
        /\ UIRuns(f) /\ ~UIRuns(f)' =>
              future'[f].missed \/ ~Live(f)' \/ interrupted
              \/ \A s \in Ent(table', f) : ~table'[s].in_flight
        /\ \A s \in Ent(table', f) :
              \/ s \in Ent(table, f) /\ table'[s].in_flight = table[s].in_flight
              \/ ~table'[s].in_flight /\ Out(f)' = 0
    BY DEF RunsKept
  <2>3. /\ Out(f) \in Nat /\ Out(f)' \in Nat /\ Out(f)' <= Out(f)
        /\ Times(queue, f)' = Times(queue, f) /\ Held(f)' = Held(f)
    BY <1>0, <2>2, OutFrame
  <2>4. Out(f) = OutIn(queue, f) /\ Out(f)' = OutIn(queue, f)'
    BY DEF Out
  <2>5. RunBounds(queue, f)'
    <3>1. CASE future'[f].kind = future[f].kind
      BY <2>1, <2>3, <2>4, <3>1 DEF RunBounds, Single
    <3>2. CASE Unused(f)
      BY <2>3, <2>4, <3>2 DEF RunBounds, Unused
    <3> QED
      BY <2>2, <3>1, <3>2
  <2>6. Rested(table, queue, f)'
    <3>1. SUFFICES ASSUME NEW s \in Ent(table', f), Single(f)', ~table'[s].in_flight
                   PROVE  OutIn(queue, f)' = 0
      BY DEF Rested
    <3>2. CASE s \in Ent(table, f) /\ table'[s].in_flight = table[s].in_flight
      <4>1. Single(f)
        BY <2>2, <3>1 DEF Single
      <4> QED
        BY <2>1, <2>3, <2>4, <3>1, <3>2, <4>1 DEF Rested
    <3> QED
      BY <2>2, <2>4, <3>2
  <2>7. OneBehind(queue, f)'
    BY <1>0, <2>1 DEF OneBehind
  <2>8. Waits(table, queue, f)'
    <3>1. SUFFICES ASSUME NEW s \in Ent(table', f), table'[s].in_flight, ~interrupted
                   PROVE  \/ Times(queue, f)' + Held(f)' = 1 \/ UIRuns(f)'
                          \/ future'[f].missed \/ ~Live(f)'
      BY <1>0 DEF Waits
    <3>2. s \in Ent(table, f) /\ table[s].in_flight
      BY <2>2, <3>1
    <3>3. Times(queue, f) + Held(f) = 1 \/ UIRuns(f) \/ future[f].missed \/ ~Live(f)
      BY <2>1, <3>1, <3>2 DEF Waits
    <3> QED
      BY <2>2, <2>3, <3>1, <3>3
  <2> QED
    BY <2>5, <2>6, <2>7, <2>8
<1>2. (hand = "tick" \/ proc[UI].pc = "tick")' => \A f \in Futures : Out(f)' <= 1
  <2>1. SUFFICES ASSUME hand = "tick" \/ proc[UI].pc = "tick", NEW f \in Futures
                 PROVE  Out(f)' <= 1
    BY <1>0 DEF RunsKept
  <2>2. Out(f) <= 1 /\ (UIRuns(f)' => UIRuns(f))
    BY <2>1 DEF RunCount, RunsKept
  <2> QED
    BY <1>0, <2>2, OutFrame
<1>3. proc'[UI].pc = "tick" => \A f \in Futures : NoneBehind(queue, f)'
  BY <1>0 DEF RunCount, RunsKept, NoneBehind
<1> QED
  BY <1>1, <1>2, <1>3 DEF RunCount

LEMMA RunFrame ==
    ASSUME Types, RunInv, RunsKept
    PROVE  RunInv'
<1>1. CameRound' \/ RunCount'
  BY CountFrame DEF RunInv, RunsKept
<1>2. /\ proc'[UI].pc = "complete" /\ proc'[UI].id = NoId => future'[proc'[UI].task].missed
      /\ proc'[UI].pc = "calling" => future'[proc'[UI].task].state \in {"RUNNING", "CANCELLED"}
      /\ \A f \in Futures : future'[f].state = "RUNNING" =>
            interrupted' \/ (proc'[UI].pc = "calling" /\ proc'[UI].task = f)
  BY DEF RunsKept
<1> QED
  BY <1>1, <1>2 DEF RunInv

\* A task that is given to arm, and what it has no part in, stays so.
ArmKept ==
    /\ \A f \in Futures :
          /\ Unused(f) => Unused(f)'
          /\ future'[f].state = "none" =>
                future[f].state = "none" /\ future'[f].id = future[f].id
                /\ \A p \in Procs : proc'[p].task = f => proc[p].task = f
          /\ \/ future'[f].id = NoId \/ future'[f].id = future[f].id
             \/ \A p \in Procs : ~(proc'[p].pc \in Arming /\ proc'[p].task = f)
    /\ \A p \in Procs :
          /\ proc'[p].pc \in Arming => proc[p].pc \in Arming /\ proc'[p].task = proc[p].task
          /\ proc'[p].pc \in {"added", "rejected"} => proc[p].pc \in {"added", "rejected"}
          /\ proc'[p].pc = "added" => proc[p].pc = "added"
          /\ \/ proc'[p].id = NoId
             \/ proc'[p].id = proc[p].id /\ proc'[p].task = proc[p].task
             \/ proc'[p].id = future[proc'[p].task].id

LEMMA ArmFrame ==
    ASSUME PlaceInv, ArmInv, ArmKept
    PROVE  ArmInv'
<1>1. \A f \in Futures : future'[f].state = "none" =>
          Unused(f)' /\ future'[f].id = NoId /\ \A p \in Procs : proc'[p].task # f
  <2> TAKE f \in Futures
  <2> HAVE future'[f].state = "none"
  <2>1. future[f].state = "none" /\ future'[f].id = future[f].id
        /\ \A p \in Procs : proc'[p].task = f => proc[p].task = f
    BY DEF ArmKept
  <2>2. Unused(f) /\ future[f].id = NoId /\ \A p \in Procs : proc[p].task # f
    BY <2>1 DEF ArmInv
  <2>3. Unused(f)'
    BY <2>2 DEF ArmKept
  <2> QED
    BY <2>1, <2>2, <2>3
<1>2. ASSUME NEW p \in Procs, proc'[p].pc \in Arming
      PROVE  /\ proc[p].pc \in Arming /\ proc'[p].task = proc[p].task
             /\ proc[p].task \in Futures /\ future[proc[p].task].id = NoId
             /\ future'[proc'[p].task].id = NoId
  <2>1. proc[p].pc \in Arming /\ proc'[p].task = proc[p].task
    BY <1>2 DEF ArmKept
  <2>2. proc[p].task \in Futures /\ future[proc[p].task].id = NoId
    BY <2>1 DEF ArmInv, PlaceInv, OfFuture
  <2>3. future'[proc'[p].task].id = NoId
    BY <1>2, <2>1, <2>2 DEF ArmKept
  <2> QED
    BY <2>1, <2>2, <2>3
<1>3. \A p, q \in Procs :
          proc'[p].pc \in Arming /\ proc'[q].pc \in Arming /\ proc'[p].task = proc'[q].task => p = q
  BY <1>2 DEF ArmInv
<1>4. \A p \in Procs : proc'[p].pc \in {"added", "rejected"} => Unused(proc[p].task)'
  <2> TAKE p \in Procs
  <2> HAVE proc'[p].pc \in {"added", "rejected"}
  <2>1. proc[p].pc \in {"added", "rejected"} /\ proc'[p].task = proc[p].task
        /\ proc[p].task \in Futures
    BY <1>2 DEF ArmKept, Arming
  <2>2. Unused(proc[p].task)
    BY <2>1 DEF ArmInv
  <2>3. PICK f \in Futures : f = proc[p].task /\ f = proc'[p].task
    BY <2>1
  <2>4. Unused(f)'
    BY <2>2, <2>3 DEF ArmKept
  <2> QED
    BY <2>3, <2>4 DEF Unused, Ent, Out, OutIn, Times, Held, RunsUI, UIRuns
<1>5. \A p, q \in Procs :
          proc'[p].pc = "added" /\ proc'[q].task = proc'[p].task => proc'[q].id = NoId
  <2> TAKE p, q \in Procs
  <2> HAVE proc'[p].pc = "added" /\ proc'[q].task = proc'[p].task
  <2>1. proc[p].pc = "added" /\ proc'[p].task = proc[p].task
        /\ future[proc[p].task].id = NoId
    BY <1>2 DEF ArmKept, Arming
  <2>2. \/ proc'[q].id = NoId
        \/ proc'[q].id = proc[q].id /\ proc'[q].task = proc[q].task
        \/ proc'[q].id = future[proc'[q].task].id
    BY DEF ArmKept
  <2> QED
    BY <2>1, <2>2 DEF ArmInv
<1>6. \A p \in Procs : proc'[p].pc \in Arming => future'[proc'[p].task].id = NoId
  BY <1>2
<1> QED
  BY <1>1, <1>3, <1>4, <1>5, <1>6 DEF ArmInv

\* A task that is over stays over, and done sees to its entry.
AtDone(f) == \E p \in Procs : proc[p].pc = "done" /\ proc[p].task = f
AtAdded(f) == \E p \in Procs : proc[p].pc = "added" /\ proc[p].task = f
OverKept ==
    /\ interrupted => interrupted'
    /\ \A f \in Futures :
          /\ Unused(f) => Unused(f)' \/ f \in armed' \/ Over(f)'
          /\ Over(f) => Over(f)'
          /\ future[f].missed => future'[f].missed
          /\ Over(f)' => Over(f) \/ AtDone(f)'
          /\ AtAdded(f)' => AtAdded(f) \/ ~Over(f)'
          /\ AtDone(f) /\ ~interrupted => AtDone(f)' \/ future'[f].missed \/ ~AtAdded(f)
          /\ InDone(f) /\ ~interrupted => InDone(f)' \/ future'[f].missed \/ Ent(table', f) = {}
          /\ \/ Ent(table', f) \subseteq Ent(table, f)
             \/ InDone(f)' \/ future'[f].missed \/ ~Over(f)' \/ interrupted
          /\ f \notin armed' /\ future'[f].state \in {"NEW", "RUNNING"} =>
                \/ f \notin armed /\ future[f].state \in {"NEW", "RUNNING"}
                \/ Unused(f)' /\ \A p \in Procs : ~(proc'[p].pc \in {"added", "armed"}
                                                    /\ proc'[p].task = f)
    /\ \A p \in Procs :
          /\ proc'[p].pc \in {"done", "taken", "freed"} =>
                \/ proc[p].pc \in {"done", "taken", "freed"} /\ proc'[p].task = proc[p].task
                \/ \E f \in Futures : f = proc'[p].task /\ Over(f)'
          /\ proc'[p].pc = "taken" /\ proc'[p].id = NoId =>
                \/ proc[p].pc = "taken" /\ proc[p].id = NoId /\ proc'[p].task = proc[p].task
                \/ future'[proc'[p].task].missed
          /\ proc'[p].pc \in {"added", "armed"} =>
                \/ proc[p].pc \in {"added", "armed"} /\ proc'[p].task = proc[p].task
                \/ proc'[p].task \in armed'

LEMMA OverFrame ==
    ASSUME PlaceInv, PlaceInv', OverInv, OverKept
    PROVE  OverInv'
<1>0. /\ \A p \in Procs : proc[p].pc \in {"done", "taken", "freed", "added", "armed"} =>
            proc[p].task \in Futures
      /\ \A p \in Procs : proc'[p].pc \in {"done", "taken", "freed", "added", "armed"} =>
            proc'[p].task \in Futures
  BY DEF PlaceInv, OfFuture, Arming
<1>1. \A p \in Procs : proc'[p].pc \in {"done", "taken", "freed"} => Over(proc[p].task)'
  <2> TAKE p \in Procs
  <2> HAVE proc'[p].pc \in {"done", "taken", "freed"}
  <2>1. PICK f \in Futures : f = proc'[p].task
    BY <1>0
  <2>2. Over(f)'
    <3>1. CASE proc[p].pc \in {"done", "taken", "freed"} /\ proc'[p].task = proc[p].task
      <4>1. Over(f)
        BY <2>1, <3>1 DEF OverInv
      <4> QED
        BY <4>1 DEF OverKept
    <3> QED
      BY <2>1, <3>1 DEF OverKept
  <2> QED
    BY <2>1, <2>2 DEF Over
<1>2. \A p \in Procs : proc'[p].pc = "taken" /\ proc'[p].id = NoId =>
          future'[proc'[p].task].missed
  <2> TAKE p \in Procs
  <2> HAVE proc'[p].pc = "taken" /\ proc'[p].id = NoId
  <2>1. CASE proc[p].pc = "taken" /\ proc[p].id = NoId /\ proc'[p].task = proc[p].task
    BY <1>0, <2>1 DEF OverInv, OverKept
  <2> QED
    BY <2>1 DEF OverKept
<1>3. \A p \in Procs : proc'[p].pc = "added" /\ Over(proc[p].task)' /\ ~interrupted' =>
          \/ future'[proc'[p].task].missed
          \/ \E q \in Procs : proc'[q].pc = "done" /\ proc'[q].task = proc'[p].task
  <2> TAKE p \in Procs
  <2> HAVE proc'[p].pc = "added" /\ Over(proc[p].task)' /\ ~interrupted'
  <2>1. PICK f \in Futures : f = proc'[p].task
    BY <1>0
  <2>2. Over(f)' /\ AtAdded(f)' /\ ~interrupted
    BY <2>1 DEF Over, AtAdded, OverKept
  <2>3. AtAdded(f)
    BY <2>2 DEF OverKept
  <2>4. CASE ~Over(f)
    <3>1. AtDone(f)'
      BY <2>2, <2>4 DEF OverKept
    <3> QED
      BY <2>1, <3>1 DEF AtDone
  <2>5. CASE Over(f)
    <3>1. future[f].missed \/ AtDone(f)
      BY <2>2, <2>3, <2>5 DEF AtAdded, AtDone, OverInv
    <3>2. AtDone(f)' \/ future'[f].missed
      BY <2>2, <2>3, <3>1 DEF OverKept
    <3> QED
      BY <2>1, <3>2 DEF AtDone
  <2> QED
    BY <2>4, <2>5
<1>4. OverLeavesTable'
  <2>1. SUFFICES ASSUME NEW f \in Futures, Over(f)', ~InDone(f)', ~interrupted', ~future'[f].missed
                 PROVE  Ent(table', f) = {}
    BY DEF OverLeavesTable, Over, EntriesOf, Ent
  <2>2. ~interrupted /\ ~future[f].missed
    BY <2>1 DEF OverKept
  <2>3. ~AtDone(f)'
    BY <2>1 DEF AtDone, InDone
  <2>4. Over(f)
    BY <2>1, <2>3 DEF OverKept
  <2>5. CASE InDone(f)
    BY <2>1, <2>2, <2>5 DEF OverKept
  <2>6. CASE ~InDone(f)
    <3>1. Ent(table, f) = {}
      BY <2>2, <2>4, <2>6 DEF OverInv, OverLeavesTable, Over, EntriesOf, Ent
    <3> QED
      BY <2>1, <2>2, <3>1 DEF OverKept
  <2> QED
    BY <2>5, <2>6
<1>5. \A f \in Futures : f \notin armed' /\ future'[f].state \in {"NEW", "RUNNING"} =>
          Unused(f)' /\ \A p \in Procs : ~(proc'[p].pc \in {"added", "armed"} /\ proc'[p].task = f)
  <2> TAKE f \in Futures
  <2> HAVE f \notin armed' /\ future'[f].state \in {"NEW", "RUNNING"}
  <2>1. SUFFICES ASSUME f \notin armed, future[f].state \in {"NEW", "RUNNING"}
                 PROVE  Unused(f)' /\ \A p \in Procs : ~(proc'[p].pc \in {"added", "armed"}
                                                         /\ proc'[p].task = f)
    BY DEF OverKept
  <2>2. Unused(f) /\ \A p \in Procs : ~(proc[p].pc \in {"added", "armed"} /\ proc[p].task = f)
    BY <2>1 DEF OverInv
  <2>3. f \notin armed' /\ ~Over(f)'
    BY DEF Over
  <2>4. Unused(f)'
    BY <2>2, <2>3 DEF OverKept
  <2> QED
    BY <2>2, <2>3, <2>4 DEF OverKept
<1> QED
  BY <1>1, <1>2, <1>3, <1>4, <1>5 DEF OverInv

-----------------------------------------------------------------------------
(* The steps of Java tasks, none of which touches the queue. *)

LEMMA JavaStep ==
    ASSUME Inv, UNCHANGED queueVars, FlagsType', TableType', FutureType', ProcType', PlaceInv',
           TableInv', ArmInv', IdInv', RunsKept, OverKept
    PROVE  Inv'
<1>1. QueueType' /\ ShadowType' /\ MirrorInv'
  BY MirrorFrame DEF Inv
<1>2. RunInv'
  BY RunFrame DEF Inv
<1>3. OverInv'
  BY OverFrame DEF Inv
<1> QED
  BY <1>1, <1>2, <1>3 DEF Inv, Types

LEMMA TableSame ==
    ASSUME TableType, table' = table
    PROVE  /\ TableType' /\ Alike(table, table')
           /\ \A f : Ent(table', f) = Ent(table, f)
BY DEF TableType, Alike, Same, Entry

\* A step of `p`, which goes on as `v`, leaving the table and the queue alone.
Steps(p, v) ==
    /\ p \in Procs /\ v \in Process
    /\ proc' \in [Procs -> Process] /\ proc'[p] = v /\ \A q \in Procs \ {p} : proc'[q] = proc[q]
    /\ OnlyJava /\ table' = table

LEMMA StepsFacts ==
    ASSUME Inv, NEW p, NEW v, Steps(p, v), \A f \in Futures : UIRuns(f)' => UIRuns(f)
    PROVE  /\ UNCHANGED queueVars /\ interrupted' = interrupted
           /\ ProcType' /\ TableType' /\ Alike(table, table')
           /\ \A f \in Futures : Unused(f) => Unused(f)'
           /\ \A f : Ent(table', f) = Ent(table, f)
<1>1. UNCHANGED queueVars /\ interrupted' = interrupted /\ ProcType' /\ table' = table
  BY DEF Steps, OnlyJava, queueVars, ProcType
<1>2. TableType' /\ Alike(table, table') /\ \A f : Ent(table', f) = Ent(table, f)
  BY <1>1, TableSame DEF Inv, Types
<1>3. ASSUME NEW f \in Futures, Unused(f) PROVE Unused(f)'
  BY <1>1, <1>2, <1>3, UnusedFrame DEF queueVars, Inv, Types
<1> QED
  BY <1>1, <1>2, <1>3

LEMMA StepsRuns ==
    ASSUME Inv, NEW p, NEW v, Steps(p, v),
           proc'[UI].pc = "tick" => proc[UI].pc = "tick",
           \A f \in Futures :
              /\ UIRuns(f)' => UIRuns(f)
              /\ future'[f].kind = future[f].kind \/ Unused(f)
              /\ future'[f].age = future[f].age
              /\ future[f].missed => future'[f].missed
              /\ ~Live(f) => ~Live(f)' \/ Ent(table, f) = {}
              /\ UIRuns(f) /\ ~UIRuns(f)' =>
                    future'[f].missed \/ ~Live(f)' \/ interrupted
                    \/ \A s \in Ent(table, f) : ~table[s].in_flight,
           proc'[UI].pc = "complete" /\ proc'[UI].id = NoId => future'[proc'[UI].task].missed,
           proc'[UI].pc = "calling" => future'[proc'[UI].task].state \in {"RUNNING", "CANCELLED"},
           \A f \in Futures : future'[f].state = "RUNNING" =>
              interrupted \/ (proc'[UI].pc = "calling" /\ proc'[UI].task = f)
    PROVE  RunsKept
<1>1. queue' = queue /\ hand' = hand /\ interrupted' = interrupted /\ table' = table
  BY DEF Steps, OnlyJava
<1>2. \A f : Ent(table', f) = Ent(table, f)
  BY StepsFacts
<1>3. ASSUME NEW f \in Futures
      PROVE  /\ UIRuns(f)' => UIRuns(f)
             /\ future'[f].kind = future[f].kind \/ (Unused(f) /\ Ent(table', f) = {})
             /\ future[f].missed => future'[f].missed
             /\ ~Live(f) => ~Live(f)' \/ Ent(table', f) = {}
             /\ UIRuns(f) /\ ~UIRuns(f)' =>
                   future'[f].missed \/ ~Live(f)' \/ interrupted
                   \/ \A s \in Ent(table', f) : ~table'[s].in_flight
             /\ \A s \in Ent(table', f) :
                   s \in Ent(table, f) /\ table'[s].in_flight = table[s].in_flight
  <2>1. Ent(table', f) = Ent(table, f) /\ (Unused(f) => Ent(table, f) = {})
    BY <1>2 DEF Unused
  <2>2. /\ UIRuns(f)' => UIRuns(f)
        /\ future[f].missed => future'[f].missed
        /\ future'[f].kind = future[f].kind \/ Unused(f)
    OBVIOUS
  <2>3. ~Live(f) => ~Live(f)' \/ Ent(table, f) = {}
    OBVIOUS
  <2>4. UIRuns(f) /\ ~UIRuns(f)' =>
           future'[f].missed \/ ~Live(f)' \/ interrupted \/ \A s \in Ent(table, f) : ~table[s].in_flight
    OBVIOUS
  <2>5. UIRuns(f) /\ ~UIRuns(f)' =>
           future'[f].missed \/ ~Live(f)' \/ interrupted
           \/ \A s \in Ent(table', f) : ~table'[s].in_flight
    BY <1>1, <2>1, <2>4
  <2>6. \A s \in Ent(table', f) : s \in Ent(table, f) /\ table'[s].in_flight = table[s].in_flight
    BY <1>1, <2>1
  <2>7. ~Live(f) => ~Live(f)' \/ Ent(table', f) = {}
    BY <2>1, <2>3
  <2>8. future'[f].kind = future[f].kind \/ (Unused(f) /\ Ent(table', f) = {})
    BY <2>1, <2>2
  <2> QED
    BY <2>2, <2>5, <2>6, <2>7, <2>8
<1>4. CameRound => CameRound'
  BY DEF CameRound
<1> QED
  BY <1>1, <1>3, <1>4 DEF RunsKept

\* The entries keep the kinds of their futures.
LEMMA TableKept ==
    ASSUME TableInv, table' = table,
           \A f \in Futures : future'[f].kind = future[f].kind \/ Ent(table, f) = {}
    PROVE  TableInv'
<1>1. ASSUME NEW s \in Slots, table[s].live
      PROVE  future'[table[s].runnable].kind = future[table[s].runnable].kind
  <2>1. table[s].runnable \in Futures /\ s \in Ent(table, table[s].runnable)
    BY <1>1 DEF TableInv, TableTrue, EntryTrue, Ent
  <2> QED
    BY <2>1
<1> QED
  BY <1>1 DEF TableInv, TableTrue, EntryTrue

LEMMA StepsInv ==
    ASSUME Inv, NEW p, NEW v, Steps(p, v), FlagsType', FutureType', PlaceInv',
           \A f \in Futures : future'[f].kind = future[f].kind \/ Unused(f),
           \A f \in Futures : UIRuns(f)' => UIRuns(f),
           ArmKept \/ ArmInv', IdsKept, RunsKept, OverKept
    PROVE  Inv'
<1>1. UNCHANGED queueVars /\ ProcType' /\ TableType' /\ Alike(table, table') /\ table' = table
  BY StepsFacts DEF Steps
<1>2. TableInv'
  <2>1. \A f \in Futures : future'[f].kind = future[f].kind \/ Ent(table, f) = {}
    BY DEF Unused
  <2> QED
    BY <1>1, <2>1, TableKept DEF Inv
<1>3. ArmInv' /\ IdInv'
  BY <1>1, ArmFrame, IdFrame DEF Inv
<1> QED
  BY <1>1, <1>2, <1>3, JavaStep

\* A lambda has been called.
LEMMA CallPlainStep ==
    ASSUME Inv, CallPlain
    PROVE  Inv'
<1> DEFINE v == [proc[UI] EXCEPT !.pc = "turn", !.task = None]
<1>0. Types /\ PlaceInv /\ UI \in Procs
  BY DEF Inv, Procs
<1>1. Steps(UI, v) /\ proc[UI].pc = "call" /\ v.pc = "turn" /\ v.task = None /\ v.id = proc[UI].id
      /\ future' = future /\ armed' = armed /\ shutdown' = shutdown
  <2>1. proc \in [Procs -> Process] /\ proc[UI] \in Process
    BY <1>0 DEF Types, ProcType
  <2>2. /\ v \in Process /\ v.pc = "turn" /\ v.task = None /\ v.id = proc[UI].id
    BY <2>1 DEF Process, PC
  <2> QED
    BY <1>0, <2>1, <2>2 DEF CallPlain, Steps
<1> HIDE DEF v
<1>2. \A f \in Futures : (UIRuns(f)' <=> UIRuns(f)) /\ (Live(f)' <=> Live(f))
  BY <1>1 DEF UIRuns, Live, Steps
<1>3. /\ \A f \in Futures : Unused(f) => Unused(f)'
      /\ \A f : Ent(table', f) = Ent(table, f)
      /\ interrupted' = interrupted
  BY <1>1, <1>2, StepsFacts
<1>4. FlagsType' /\ FutureType'
  BY <1>0, <1>1 DEF Types, FlagsType, FutureType, Steps, OnlyJava
<1>5. PlaceInv'
  BY <1>0, <1>1, NamesAssumption
  DEF PlaceInv, Steps, OnlyJava, UIPlaces, CallerPlaces, OfFuture, Arming, Procs
<1>6. ArmKept /\ IdsKept
  BY <1>0, <1>1, <1>3, NamesAssumption
  DEF ArmKept, IdsKept, Steps, Arming, PlaceInv, OfFuture, Runnables
<1>7. RunsKept
  <2>1. \A f \in Futures : future[f].state # "RUNNING" \/ interrupted
    BY <1>1 DEF Inv, RunInv
  <2> QED
    BY <1>1, <1>2, <2>1, StepsRuns DEF Steps
<1>8. OverKept
  BY <1>0, <1>1, <1>3 DEF OverKept, Steps, AtDone, AtAdded, InDone, Over, Procs
<1> QED
  BY <1>1, <1>2, <1>4, <1>5, <1>6, <1>7, <1>8, StepsInv

LEMMA UnwindStep ==
    ASSUME Inv, Unwind
    PROVE  Inv'
<1> DEFINE v == [Idle EXCEPT !.pc = "turn"]
<1>0. Types /\ PlaceInv /\ UI \in Procs
  BY DEF Inv, Procs
<1>1. Steps(UI, v) /\ interrupted /\ v.pc = "turn" /\ v.task = None /\ v.id = NoId
      /\ proc[UI].pc \in {"call", "run", "calling", "report", "complete", "done", "taken", "freed"}
      /\ future' = future /\ armed' = armed /\ shutdown' = shutdown
  BY <1>0 DEF Unwind, Steps, Types, ProcType, Process, PC, Idle
<1> HIDE DEF v
<1>2. \A f \in Futures : (UIRuns(f)' => UIRuns(f)) /\ (Live(f)' <=> Live(f))
  BY <1>1 DEF UIRuns, Live, Steps
<1>3. /\ \A f \in Futures : Unused(f) => Unused(f)'
      /\ \A f : Ent(table', f) = Ent(table, f)
      /\ interrupted' = interrupted
  BY <1>1, <1>2, StepsFacts
<1>4. FlagsType' /\ FutureType'
  BY <1>0, <1>1 DEF Types, FlagsType, FutureType, Steps, OnlyJava
<1>5. PlaceInv'
  BY <1>0, <1>1, NamesAssumption
  DEF PlaceInv, Steps, OnlyJava, UIPlaces, CallerPlaces, OfFuture, Arming, Procs
<1>6. ArmKept /\ IdsKept
  BY <1>0, <1>1, <1>3, NamesAssumption
  DEF ArmKept, IdsKept, Steps, Arming, PlaceInv, OfFuture, Runnables
<1>7. RunsKept
  BY <1>1, <1>2, StepsRuns DEF Steps
<1>8. OverKept
  BY <1>0, <1>1, <1>3 DEF OverKept, Steps, AtDone, AtAdded, InDone, Over, Procs
<1> QED
  BY <1>1, <1>2, <1>4, <1>5, <1>6, <1>7, <1>8, StepsInv

\* A step that leaves `f` as `u`.
Sets(f, u) ==
    /\ f \in Futures /\ u \in Future
    /\ future' \in [Futures -> Future] /\ future'[f] = u
    /\ \A g \in Futures \ {f} : future'[g] = future[g]

\* What a task that is at `run` or behind it knows of its future.
LEMMA RunningFuture ==
    ASSUME Inv, proc[UI].pc \in {"run", "calling", "report", "complete"}
    PROVE  /\ proc[UI].task \in Futures /\ UIRuns(proc[UI].task)
           /\ future[proc[UI].task].state # "none"
           /\ \A p \in Procs : proc[p].pc \in {"added", "rejected"} => proc[p].task # proc[UI].task
<1>1. proc[UI].task \in Futures
  BY DEF Inv, PlaceInv, OfFuture, Procs
<1>2. UIRuns(proc[UI].task)
  BY DEF UIRuns
<1>3. ~Unused(proc[UI].task)
  <2>1. /\ Out(proc[UI].task) = Times(queue, proc[UI].task) + Held(proc[UI].task)
                                + RunsUI(proc[UI].task)
        /\ Times(queue, proc[UI].task) \in Nat /\ Held(proc[UI].task) \in {0, 1}
    BY OutType DEF Inv, Types
  <2>2. RunsUI(proc[UI].task) = 1
    BY <1>2 DEF RunsUI
  <2> QED
    BY <2>1, <2>2 DEF Unused
<1> QED
  BY <1>1, <1>2, <1>3 DEF Inv, ArmInv

\* A step of the run of `f`, which leaves `f` as `u` and goes on as `v`.
RunGoesOn(f, u, v) ==
    /\ proc[UI].pc \in {"run", "calling", "report"} /\ f = proc[UI].task
    /\ Steps(UI, v) /\ Sets(f, u) /\ armed' = armed /\ shutdown' = shutdown
    /\ u.kind = future[f].kind /\ u.id = future[f].id /\ u.age = future[f].age
    /\ (future[f].missed => u.missed)
    /\ \/ v.pc \in {"calling", "report", "complete", "done"} /\ v.task = f
       \/ v.pc = "turn" /\ v.task = None
    /\ v.id = NoId \/ (v.id = u.id /\ v.pc = "complete")
    /\ v.pc = "complete" /\ v.id = NoId => u.missed
    /\ u.state \in {"NEW", "RUNNING", "DONE", "CANCELLED"}
    /\ u.state = "RUNNING" => v.pc = "calling" \/ interrupted
    /\ v.pc = "calling" => u.state = "RUNNING"
    /\ Over(f) => u.state \in {"DONE", "CANCELLED"}
    /\ v.pc = "done" => u.state = "DONE"
    /\ u.state \in {"DONE", "CANCELLED"} => Over(f) \/ v.pc = "done"
    /\ v.pc \in {"turn", "done"} =>
          u.state \in {"DONE", "CANCELLED"} \/ interrupted \/ u.kind # "FixedDelay"

LEMMA RunGoesOnStep ==
    ASSUME Inv, NEW f, NEW u, NEW v, RunGoesOn(f, u, v)
    PROVE  Inv'
<1>0. Types /\ PlaceInv /\ UI \in Procs /\ proc[UI].id = NoId
  BY DEF Inv, Procs, RunGoesOn, PlaceInv
<1>1. f \in Futures /\ UIRuns(f) /\ future[f].state # "none"
      /\ \A p \in Procs : proc[p].pc \in {"added", "rejected"} => proc[p].task # f
  BY RunningFuture DEF RunGoesOn
<1>2. Steps(UI, v) /\ Sets(f, u) /\ armed' = armed /\ shutdown' = shutdown
      /\ u.kind = future[f].kind /\ u.id = future[f].id /\ u.age = future[f].age
      /\ (future[f].missed => u.missed)
      /\ f = proc[UI].task /\ proc[UI].pc \in {"run", "calling", "report"}
  BY DEF RunGoesOn
<1>3. \A g \in Futures : /\ UIRuns(g)' => UIRuns(g)
                         /\ ~Live(g) => ~Live(g)'
                         /\ UIRuns(g) => g = f
  <2>1. \A g \in Futures : UIRuns(g) => g = f
    BY <1>2 DEF UIRuns
  <2>2. \A g \in Futures : UIRuns(g)' => g = f
    BY <1>2, NamesAssumption DEF UIRuns, Steps, RunGoesOn, Runnables
  <2>3. ~Live(f) => u.state \in {"DONE", "CANCELLED"}
    BY <1>1 DEF RunGoesOn, Live, Over
  <2>4. ~Live(f) => ~Live(f)'
    BY <1>2, <2>3 DEF Live, Sets
  <2>5. \A g \in Futures : ~Live(g) => ~Live(g)'
    BY <1>2, <2>4 DEF Live, Sets
  <2> QED
    BY <1>1, <2>1, <2>2, <2>5
<1>4. /\ \A g \in Futures : Unused(g) => Unused(g)'
      /\ \A g : Ent(table', g) = Ent(table, g)
      /\ interrupted' = interrupted
  BY <1>2, <1>3, StepsFacts
<1>5. FlagsType' /\ FutureType'
  BY <1>0, <1>2 DEF Types, FlagsType, FutureType, Steps, OnlyJava, Sets
<1>6. PlaceInv'
  BY <1>0, <1>1, <1>2, NamesAssumption
  DEF PlaceInv, Steps, OnlyJava, UIPlaces, CallerPlaces, OfFuture, Arming, Procs, RunGoesOn
<1>7. ArmKept
  BY <1>0, <1>1, <1>2, <1>4, NamesAssumption
  DEF ArmKept, Steps, Sets, Arming, PlaceInv, OfFuture, Runnables, RunGoesOn
<1>8. IdsKept
  BY <1>0, <1>1, <1>2
  DEF IdsKept, Steps, Sets, RunGoesOn
<1>9. RunsKept
  <2>1. \A g \in Futures : future'[g].kind = future[g].kind
                           /\ future'[g].age = future[g].age
                           /\ (future[g].missed => future'[g].missed)
    BY <1>2 DEF Sets
  <2>2. \A g \in Futures : future'[g].state = "RUNNING" =>
           interrupted \/ (proc'[UI].pc = "calling" /\ proc'[UI].task = g)
    <3>1. \A g \in Futures : g # f => future[g].state # "RUNNING" \/ interrupted
      BY <1>2 DEF Inv, RunInv
    <3>2. u.state = "RUNNING" => interrupted \/ (v.pc = "calling" /\ v.task = f)
      BY DEF RunGoesOn
    <3> QED
      BY <1>2, <3>1, <3>2 DEF Sets, Steps
  <2>3. proc'[UI].pc = "calling" => future'[proc'[UI].task].state \in {"RUNNING", "CANCELLED"}
    BY <1>2 DEF Steps, Sets, RunGoesOn
  <2>4. proc'[UI].pc = "complete" /\ proc'[UI].id = NoId => future'[proc'[UI].task].missed
    BY <1>2 DEF Steps, Sets, RunGoesOn
  <2>5. proc'[UI].pc # "tick"
    BY <1>2 DEF Steps, RunGoesOn
  <2>6. ASSUME NEW g \in Futures, UIRuns(g), ~UIRuns(g)'
        PROVE  ~Live(g)' \/ interrupted \/ \A s \in Ent(table, g) : ~table[s].in_flight
    <3>1. g = f /\ v.pc \in {"turn", "done"}
      BY <1>2, <1>3, <2>6 DEF UIRuns, Steps, RunGoesOn
    <3>2. CASE u.state \in {"DONE", "CANCELLED"}
      BY <1>2, <3>1, <3>2 DEF Live, Sets
    <3>3. CASE future[f].kind # "FixedDelay"
      BY <3>1, <3>3 DEF Inv, TableInv, TableTrue, EntryTrue, Ent
    <3> QED
      BY <1>2, <3>1, <3>2, <3>3 DEF RunGoesOn
  <2> QED
    BY <1>2, <1>3, <2>1, <2>2, <2>3, <2>4, <2>5, <2>6, StepsRuns
<1>10. OverKept
  <2>1. \A g \in Futures : /\ Over(g) => Over(g)'
                           /\ future[g].missed => future'[g].missed
                           /\ Over(g)' => Over(g) \/ AtDone(g)'
                           /\ future'[g].state \in {"NEW", "RUNNING"} =>
                                 future[g].state \in {"NEW", "RUNNING"}
    <3>1. \A g \in Futures : /\ Over(g) => Over(g)'
                             /\ future[g].missed => future'[g].missed
                             /\ Over(g)' => Over(g) \/ (g = f /\ v.pc = "done")
      BY <1>2 DEF Over, Sets, RunGoesOn
    <3>2. v.pc = "done" => AtDone(f)'
      BY <1>0, <1>2 DEF AtDone, Steps, RunGoesOn
    <3>3. future[f].state \in {"NEW", "RUNNING"} \/ Over(f)
      BY <1>0, <1>1 DEF Types, FutureType, Future, Over
    <3>4. u.state \in {"NEW", "RUNNING"} => ~Over(f)
      BY DEF RunGoesOn
    <3> QED
      BY <1>2, <3>1, <3>2, <3>3, <3>4 DEF Sets
  <2>2. \A g \in Futures : /\ AtAdded(g)' => AtAdded(g)
                           /\ AtDone(g) => AtDone(g)'
                           /\ InDone(g) => InDone(g)'
    BY <1>0, <1>2 DEF Steps, AtDone, AtAdded, InDone, RunGoesOn
  <2>3. \A p \in Procs :
          /\ proc'[p].pc \in {"done", "taken", "freed"} =>
                \/ proc[p].pc \in {"done", "taken", "freed"} /\ proc'[p].task = proc[p].task
                \/ \E g \in Futures : g = proc'[p].task /\ Over(g)'
          /\ proc'[p].pc = "taken" /\ proc'[p].id = NoId =>
                proc[p].pc = "taken" /\ proc[p].id = NoId /\ proc'[p].task = proc[p].task
          /\ proc'[p].pc \in {"added", "armed"} =>
                proc[p].pc \in {"added", "armed"} /\ proc'[p].task = proc[p].task
    BY <1>0, <1>1, <1>2 DEF Steps, Sets, Over, RunGoesOn
  <2> QED
    BY <1>2, <1>4, <2>1, <2>2, <2>3 DEF OverKept
<1>11. \A g \in Futures : future'[g].kind = future[g].kind
  BY <1>2 DEF Sets
<1> QED
  BY <1>2, <1>3, <1>5, <1>6, <1>7, <1>8, <1>9, <1>10, <1>11, StepsInv

LEMMA UIRecord ==
    ASSUME Inv, proc[UI].task \in Futures
    PROVE  /\ UI \in Procs /\ proc \in [Procs -> Process] /\ proc[UI] \in Process
           /\ future \in [Futures -> Future] /\ future[proc[UI].task] \in Future
BY DEF Inv, Types, ProcType, FutureType, Procs

LEMMA RunStartStep ==
    ASSUME Inv, RunStart
    PROVE  Inv'
<1> DEFINE f == proc[UI].task
           u == [future[f] EXCEPT !.state = "RUNNING"]
           v == [proc[UI] EXCEPT !.pc = "calling"]
           w == [proc[UI] EXCEPT !.pc = "turn", !.task = None]
<1>0. proc[UI].pc = "run" /\ proc[UI].id = NoId
  BY DEF Inv, Procs, RunStart, PlaceInv
<1>1. f \in Futures /\ future[f].state # "none"
  BY <1>0, RunningFuture
<1>2. /\ UI \in Procs /\ proc \in [Procs -> Process] /\ proc[UI] \in Process
      /\ future \in [Futures -> Future] /\ future[f] \in Future
  BY <1>1, UIRecord
<1>3. future[f].state # "RUNNING" \/ interrupted
  BY <1>0, <1>1 DEF Inv, RunInv
<1>4. CASE future[f].state = "NEW"
  <2>1. v \in Process /\ u \in Future
    BY <1>2 DEF Process, Future, PC
  <2>2. proc' = [proc EXCEPT ![UI] = v] /\ future' = [future EXCEPT ![f] = u]
        /\ OnlyJava /\ table' = table /\ armed' = armed /\ shutdown' = shutdown
    BY <1>2, <1>4 DEF RunStart, Goto
  <2>3. /\ v.pc = "calling" /\ v.task = f /\ v.id = NoId
        /\ u.state = "RUNNING" /\ u.kind = future[f].kind /\ u.id = future[f].id
        /\ u.missed = future[f].missed /\ u.age = future[f].age
    BY <1>0, <1>2 DEF Process, Future
  <2> HIDE DEF u, v
  <2>4. RunGoesOn(f, u, v)
    BY <1>0, <1>1, <1>2, <1>4, <2>1, <2>2, <2>3 DEF RunGoesOn, Steps, Sets, Over
  <2> QED
    BY <2>4, RunGoesOnStep
<1>5. CASE future[f].state # "NEW"
  <2>1. w \in Process
    BY <1>2 DEF Process, PC
  <2>2. proc' = [proc EXCEPT ![UI] = w] /\ future' = future
        /\ OnlyJava /\ table' = table /\ armed' = armed /\ shutdown' = shutdown
    BY <1>2, <1>5 DEF RunStart
  <2>3. w.pc = "turn" /\ w.task = None /\ w.id = NoId
    BY <1>0, <1>2 DEF Process
  <2> HIDE DEF w
  <2>4. RunGoesOn(f, future[f], w)
    BY <1>0, <1>1, <1>2, <1>3, <1>5, <2>1, <2>2, <2>3
    DEF RunGoesOn, Steps, Sets, Over, Future
  <2> QED
    BY <2>4, RunGoesOnStep
<1> QED
  BY <1>4, <1>5

LEMMA RunEndStep ==
    ASSUME Inv, RunEnd
    PROVE  Inv'
<1> DEFINE f == proc[UI].task
           w == [proc[UI] EXCEPT !.pc = "turn", !.task = None]
           At(l) == [proc[UI] EXCEPT !.pc = l]
           To(x) == [future[f] EXCEPT !.state = x]
<1>0. proc[UI].pc = "calling" /\ proc[UI].id = NoId
  BY DEF Inv, Procs, RunEnd, PlaceInv
<1>1. f \in Futures /\ future[f].state \in {"RUNNING", "CANCELLED"}
  BY <1>0, RunningFuture DEF Inv, RunInv
<1>2. /\ UI \in Procs /\ proc \in [Procs -> Process] /\ proc[UI] \in Process
      /\ future \in [Futures -> Future] /\ future[f] \in Future
  BY <1>1, UIRecord
<1>3. w \in Process /\ w.pc = "turn" /\ w.task = None /\ w.id = NoId
  BY <1>0, <1>2 DEF Process, PC
<1>4. ASSUME NEW l \in PC
      PROVE  At(l) \in Process /\ At(l).pc = l /\ At(l).task = f /\ At(l).id = NoId
  BY <1>0, <1>2, <1>4 DEF Process
<1>5. ASSUME NEW x \in {"NEW", "DONE"}
      PROVE  /\ To(x) \in Future /\ To(x).state = x /\ To(x).kind = future[f].kind
             /\ To(x).id = future[f].id /\ To(x).missed = future[f].missed
             /\ To(x).age = future[f].age
  BY <1>2, <1>5 DEF Future
<1>6. /\ OnlyJava /\ table' = table /\ armed' = armed /\ shutdown' = shutdown
      /\ \/ /\ future[f].state # "RUNNING" /\ proc' = [proc EXCEPT ![UI] = w] /\ future' = future
         \/ /\ future[f].state = "RUNNING" /\ future' = [future EXCEPT ![f] = To("DONE")]
            /\ proc' = [proc EXCEPT ![UI] = At("done")]
         \/ /\ future[f].state = "RUNNING" /\ future' = [future EXCEPT ![f] = To("NEW")]
            /\ \/ future[f].kind = "FixedDelay" /\ proc' = [proc EXCEPT ![UI] = At("report")]
               \/ future[f].kind # "FixedDelay" /\ proc' = [proc EXCEPT ![UI] = w]
  BY <1>2 DEF RunEnd, Goto
<1>7. "done" \in PC /\ "report" \in PC
  BY DEF PC
<1> HIDE DEF w, At, To
<1>8. \/ RunGoesOn(f, future[f], w) \/ RunGoesOn(f, To("DONE"), At("done"))
      \/ RunGoesOn(f, To("NEW"), At("report")) \/ RunGoesOn(f, To("NEW"), w)
  <2>1. CASE /\ future[f].state # "RUNNING" /\ proc' = [proc EXCEPT ![UI] = w]
             /\ future' = future
    <3>1. RunGoesOn(f, future[f], w)
      BY <1>0, <1>1, <1>2, <1>3, <1>6, <2>1 DEF RunGoesOn, Steps, Sets, Over
    <3> QED
      BY <3>1
  <2>2. CASE /\ future[f].state = "RUNNING" /\ future' = [future EXCEPT ![f] = To("DONE")]
             /\ proc' = [proc EXCEPT ![UI] = At("done")]
    <3>1. RunGoesOn(f, To("DONE"), At("done"))
      BY <1>0, <1>1, <1>2, <1>4, <1>5, <1>6, <1>7, <2>2 DEF RunGoesOn, Steps, Sets, Over
    <3> QED
      BY <3>1
  <2>3. CASE /\ future[f].state = "RUNNING" /\ future' = [future EXCEPT ![f] = To("NEW")]
             /\ future[f].kind = "FixedDelay" /\ proc' = [proc EXCEPT ![UI] = At("report")]
    <3>1. RunGoesOn(f, To("NEW"), At("report"))
      BY <1>0, <1>1, <1>2, <1>4, <1>5, <1>6, <1>7, <2>3 DEF RunGoesOn, Steps, Sets, Over
    <3> QED
      BY <3>1
  <2>4. CASE /\ future[f].state = "RUNNING" /\ future' = [future EXCEPT ![f] = To("NEW")]
             /\ future[f].kind # "FixedDelay" /\ proc' = [proc EXCEPT ![UI] = w]
    <3>1. RunGoesOn(f, To("NEW"), w)
      BY <1>0, <1>1, <1>2, <1>3, <1>5, <1>6, <2>4 DEF RunGoesOn, Steps, Sets, Over
    <3> QED
      BY <3>1
  <2> QED
    BY <1>6, <2>1, <2>2, <2>3, <2>4
<1> QED
  BY <1>8, RunGoesOnStep

LEMMA ReportReadStep ==
    ASSUME Inv, ReportRead
    PROVE  Inv'
<1> DEFINE f == proc[UI].task
           u == [future[f] EXCEPT !.missed = future[f].missed \/ future[f].id = NoId]
           v == [proc[UI] EXCEPT !.pc = "complete", !.id = future[f].id]
<1>0. proc[UI].pc = "report" /\ proc[UI].id = NoId
  BY DEF Inv, Procs, ReportRead, PlaceInv
<1>1. f \in Futures /\ future[f].state # "none"
  BY <1>0, RunningFuture
<1>2. /\ UI \in Procs /\ proc \in [Procs -> Process] /\ proc[UI] \in Process
      /\ future \in [Futures -> Future] /\ future[f] \in Future
  BY <1>1, UIRecord
<1>3. future[f].state # "RUNNING" \/ interrupted
  BY <1>0, <1>1 DEF Inv, RunInv
<1>4. v \in Process /\ u \in Future
  BY <1>2 DEF Process, Future, PC
<1>5. proc' = [proc EXCEPT ![UI] = v] /\ future' = [future EXCEPT ![f] = u]
      /\ OnlyJava /\ table' = table /\ armed' = armed /\ shutdown' = shutdown
  BY <1>2 DEF ReportRead
<1>6. /\ v.pc = "complete" /\ v.task = f /\ v.id = future[f].id
      /\ u.state = future[f].state /\ u.kind = future[f].kind /\ u.id = future[f].id
      /\ u.age = future[f].age
      /\ (future[f].missed => u.missed) /\ (future[f].id = NoId => u.missed)
  BY <1>2 DEF Process, Future
<1> HIDE DEF u, v
<1>7. RunGoesOn(f, u, v)
  BY <1>0, <1>1, <1>2, <1>3, <1>4, <1>5, <1>6 DEF RunGoesOn, Steps, Sets, Over, Future
<1> QED
  BY <1>7, RunGoesOnStep

\* Running is the UI task's alone: what another step may do to a future.
Apart(p, v) ==
    /\ Steps(p, v) /\ future' \in [Futures -> Future]
    /\ p = UI => /\ proc[UI].pc \notin {"run", "calling", "report", "complete"}
                 /\ v.pc \notin {"run", "calling", "report", "complete", "tick"}
    /\ \A g \in Futures :
          /\ future'[g].kind = future[g].kind \/ Unused(g)
          /\ future'[g].age = future[g].age
          /\ future[g].missed => future'[g].missed
          /\ ~Live(g) => ~Live(g)' \/ Unused(g)
          /\ future'[g].state = "RUNNING" => future[g].state = "RUNNING"
          /\ future[g].state \in {"RUNNING", "CANCELLED"} =>
                future'[g].state \in {"RUNNING", "CANCELLED"}

LEMMA ApartFacts ==
    ASSUME Inv, NEW p, NEW v, Apart(p, v)
    PROVE  /\ \A g \in Futures : UIRuns(g)' => UIRuns(g)
           /\ \A g \in Futures : Unused(g) => Unused(g)'
           /\ \A g : Ent(table', g) = Ent(table, g)
           /\ interrupted' = interrupted /\ FutureType'
           /\ \A g \in Futures : future'[g].kind = future[g].kind \/ Unused(g)
           /\ RunsKept
<1>1. Steps(p, v) /\ UI \in Procs
  BY DEF Apart, Procs
<1>2. \A g \in Futures : UIRuns(g)' <=> UIRuns(g)
  BY <1>1 DEF UIRuns, Steps, Apart
<1>3. /\ \A g \in Futures : Unused(g) => Unused(g)'
      /\ \A g : Ent(table', g) = Ent(table, g)
      /\ interrupted' = interrupted
  BY <1>1, <1>2, StepsFacts
<1>4. RunsKept
  <2>1. proc'[UI].pc \in {"tick", "run", "calling", "report", "complete"} => proc'[UI] = proc[UI]
    BY <1>1 DEF Steps, Apart
  <2>2. \A g \in Futures : ~Live(g) => ~Live(g)' \/ Ent(table, g) = {}
    BY DEF Apart, Unused
  <2>3. \A g \in Futures : future'[g].kind = future[g].kind \/ Unused(g)
    BY DEF Apart
  <2>4. \A g \in Futures : /\ future[g].missed => future'[g].missed
                           /\ future'[g].age = future[g].age
    BY DEF Apart
  <2>5. proc[UI].pc \in {"run", "calling", "report", "complete"} => proc[UI].task \in Futures
    BY <1>1 DEF Inv, PlaceInv, OfFuture
  <2>6. proc'[UI].pc = "complete" /\ proc'[UI].id = NoId => future'[proc'[UI].task].missed
    BY <2>1, <2>4, <2>5 DEF Inv, RunInv
  <2>7. proc'[UI].pc = "calling" => future'[proc'[UI].task].state \in {"RUNNING", "CANCELLED"}
    BY <2>1, <2>5 DEF Inv, RunInv, Apart
  <2>8. \A g \in Futures : future'[g].state = "RUNNING" =>
           interrupted \/ (proc'[UI].pc = "calling" /\ proc'[UI].task = g)
    <3>1. proc[UI].pc = "calling" => proc'[UI] = proc[UI]
      BY <1>1 DEF Steps, Apart
    <3> QED
      BY <3>1 DEF Inv, RunInv, Apart
  <2> QED
    BY <1>1, <1>2, <2>1, <2>2, <2>3, <2>4, <2>6, <2>7, <2>8, StepsRuns
<1>5. FutureType'
  BY DEF Apart, FutureType
<1> QED
  BY <1>2, <1>3, <1>4, <1>5 DEF Apart

LEMMA ArmIdStep ==
    ASSUME Inv, NEW c \in Callers, ArmId(c)
    PROVE  Inv'
<1> DEFINE f == proc[c].task
           u == [future[f] EXCEPT !.id = proc[c].id]
<1>0. Types /\ PlaceInv /\ c \in Procs /\ UI \in Procs /\ c # UI /\ proc[c].pc = "armed"
  BY NamesAssumption DEF Inv, Procs, ArmId
<1>1. f \in Futures /\ future[f].id = NoId /\ future[f].state # "none"
      /\ \A q \in Procs : proc[q].pc \in Arming /\ proc[q].task = f => q = c
  BY <1>0 DEF PlaceInv, Inv, ArmInv, OfFuture, Arming
<1>2. /\ proc \in [Procs -> Process] /\ proc[c] \in Process
      /\ future \in [Futures -> Future] /\ future[f] \in Future
  BY <1>0, <1>1 DEF Types, ProcType, FutureType
<1>3. Idle \in Process /\ Idle.pc = "idle" /\ Idle.task = None /\ Idle.id = NoId
  BY DEF Idle, Process, PC
<1>4. proc' = [proc EXCEPT ![c] = Idle] /\ future' = [future EXCEPT ![f] = u]
      /\ OnlyJava /\ table' = table /\ armed' = armed /\ shutdown' = shutdown
  BY <1>2 DEF ArmId
<1>5. /\ u \in Future /\ u.state = future[f].state /\ u.kind = future[f].kind
      /\ u.missed = future[f].missed /\ u.id = proc[c].id /\ u.age = future[f].age
  BY <1>2 DEF Future, Process
<1> HIDE DEF u
<1>6. Apart(c, Idle) /\ Sets(f, u)
  BY <1>0, <1>1, <1>2, <1>3, <1>4, <1>5 DEF Apart, Steps, Sets, Live
<1>7. /\ \A g \in Futures : UIRuns(g)' => UIRuns(g)
      /\ \A g \in Futures : Unused(g) => Unused(g)'
      /\ \A g : Ent(table', g) = Ent(table, g)
      /\ interrupted' = interrupted /\ FutureType'
      /\ \A g \in Futures : future'[g].kind = future[g].kind \/ Unused(g)
      /\ RunsKept
  BY <1>6, ApartFacts
<1>8. FlagsType'
  BY <1>0, <1>4 DEF Types, FlagsType, OnlyJava
<1>9. PlaceInv'
  BY <1>0, <1>3, <1>6, NamesAssumption
  DEF PlaceInv, Apart, Steps, OnlyJava, UIPlaces, CallerPlaces, OfFuture, Arming, Procs
<1>10. ArmKept
  BY <1>0, <1>1, <1>3, <1>5, <1>6, <1>7, NamesAssumption
  DEF ArmKept, Apart, Steps, Sets, Arming, Runnables
<1>11. IdsKept
  BY <1>0, <1>1, <1>3, <1>5, <1>6 DEF IdsKept, Apart, Steps, Sets
<1>12. OverKept
  BY <1>0, <1>1, <1>3, <1>4, <1>5, <1>6, <1>7, SMTT(30)
  DEF OverKept, Apart, Steps, Sets, AtDone, AtAdded, InDone, Over, Procs
<1> QED
  BY <1>6, <1>7, <1>8, <1>9, <1>10, <1>11, <1>12, StepsInv DEF Apart

LEMMA ArmRejectedStep ==
    ASSUME Inv, NEW c \in Callers, ArmRejected(c)
    PROVE  Inv'
<1>0. Types /\ PlaceInv /\ c \in Procs /\ UI \in Procs /\ c # UI /\ proc[c].pc = "rejected"
  BY NamesAssumption DEF Inv, Procs, ArmRejected
<1>1. PICK f \in Futures : f = proc[c].task
  BY <1>0 DEF PlaceInv, OfFuture, Arming
<1>2. f \in Futures /\ f = proc[c].task /\ future[f].id = NoId /\ future[f].state # "none" /\ Unused(f)
      /\ \A q \in Procs : proc[q].pc \in Arming /\ proc[q].task = f => q = c
  BY <1>0, <1>1 DEF Inv, ArmInv, Arming
<1>3. proc \in [Procs -> Process] /\ future \in [Futures -> Future]
  BY <1>0, <1>2 DEF Types, ProcType, FutureType
<1>4. Idle \in Process /\ Idle.pc = "idle" /\ Idle.task = None /\ Idle.id = NoId
  BY DEF Idle, Process, PC
<1>5. proc' = [proc EXCEPT ![c] = Idle] /\ future' = future
      /\ OnlyJava /\ table' = table /\ armed' = armed \ {f} /\ shutdown' = shutdown
  BY <1>1 DEF ArmRejected
<1>6. Apart(c, Idle)
  BY <1>0, <1>2, <1>3, <1>4, <1>5 DEF Apart, Steps, Live
<1>7. /\ \A g \in Futures : UIRuns(g)' => UIRuns(g)
      /\ \A g \in Futures : Unused(g) => Unused(g)'
      /\ \A g : Ent(table', g) = Ent(table, g)
      /\ interrupted' = interrupted /\ FutureType'
      /\ \A g \in Futures : future'[g].kind = future[g].kind \/ Unused(g)
      /\ RunsKept
  BY <1>6, ApartFacts
<1>8. FlagsType'
  BY <1>0, <1>5 DEF Types, FlagsType, OnlyJava
<1>9. PlaceInv'
  BY <1>0, <1>4, <1>6, NamesAssumption
  DEF PlaceInv, Apart, Steps, OnlyJava, UIPlaces, CallerPlaces, OfFuture, Arming, Procs
<1>10. ArmKept
  BY <1>0, <1>2, <1>4, <1>5, <1>6, <1>7, NamesAssumption
  DEF ArmKept, Apart, Steps, Arming, Runnables
<1>11. IdsKept
  BY <1>0, <1>2, <1>4, <1>5, <1>6 DEF IdsKept, Apart, Steps
<1>12. OverKept
  <2>1. \A p \in Procs : ~(proc'[p].pc \in {"added", "armed"} /\ proc'[p].task = f)
    BY <1>0, <1>2, <1>4, <1>6 DEF Apart, Steps, Arming
  <2>2. Unused(f)'
    BY <1>2, <1>7
  <2>3. \A g \in Futures : /\ Over(g)' <=> Over(g)
                           /\ AtAdded(g)' => AtAdded(g)
                           /\ AtDone(g) => AtDone(g)'
                           /\ InDone(g) => InDone(g)'
    BY <1>0, <1>4, <1>5, <1>6 DEF Over, AtAdded, AtDone, InDone, Apart, Steps
  <2> QED
    BY <1>0, <1>2, <1>4, <1>5, <1>6, <1>7, <2>1, <2>2, <2>3 DEF OverKept, Apart, Steps
<1> QED
  BY <1>6, <1>7, <1>8, <1>9, <1>10, <1>11, <1>12, StepsInv DEF Apart

LEMMA CancelStep ==
    ASSUME Inv, NEW c \in Callers, NEW f \in Futures, proc[c].pc \in {"idle", "shut"},
           CancelFuture(c, f)
    PROVE  Inv'
<1> DEFINE u == [future[f] EXCEPT !.state = "CANCELLED"]
           v == [proc[c] EXCEPT !.pc = "done", !.task = f, !.rest = proc[c].rest \ {f}]
<1>0. Types /\ PlaceInv /\ c \in Procs /\ UI \in Procs /\ c # UI
      /\ proc[c].task = None /\ proc[c].id = NoId /\ proc[c].pc \notin Arming
  BY NamesAssumption DEF Inv, Procs, PlaceInv, OfFuture, Arming
<1>1. Live(f) /\ future[f].state \in {"NEW", "RUNNING"}
  BY <1>0 DEF CancelFuture, Live, Types, FutureType, Future
<1>2. /\ proc \in [Procs -> Process] /\ proc[c] \in Process
      /\ future \in [Futures -> Future] /\ future[f] \in Future
  BY <1>0 DEF Types, ProcType, FutureType
<1>3. v \in Process /\ v.pc = "done" /\ v.task = f /\ v.id = NoId
  BY <1>0, <1>2 DEF Process, PC, Runnables
<1>4. proc' = [proc EXCEPT ![c] = v] /\ future' = [future EXCEPT ![f] = u]
      /\ OnlyJava /\ table' = table /\ armed' = armed /\ shutdown' = shutdown
  BY <1>2 DEF CancelFuture
<1>5. /\ u \in Future /\ u.state = "CANCELLED" /\ u.kind = future[f].kind
      /\ u.missed = future[f].missed /\ u.id = future[f].id /\ u.age = future[f].age
  BY <1>2 DEF Future
<1> HIDE DEF u, v
<1>6. Apart(c, v) /\ Sets(f, u)
  <2>1. Steps(c, v) /\ Sets(f, u)
    BY <1>0, <1>2, <1>3, <1>4, <1>5 DEF Steps, Sets
  <2>2. \A g \in Futures : ~Live(g) => ~Live(g)'
    BY <1>1, <1>5, <2>1 DEF Live, Sets
  <2> QED
    BY <1>0, <1>5, <2>1, <2>2 DEF Apart, Sets
<1>7. /\ \A g \in Futures : UIRuns(g)' => UIRuns(g)
      /\ \A g \in Futures : Unused(g) => Unused(g)'
      /\ \A g : Ent(table', g) = Ent(table, g)
      /\ interrupted' = interrupted /\ FutureType'
      /\ \A g \in Futures : future'[g].kind = future[g].kind \/ Unused(g)
      /\ RunsKept
  BY <1>6, ApartFacts
<1>8. FlagsType'
  BY <1>0, <1>4 DEF Types, FlagsType, OnlyJava
<1>9. PlaceInv'
  BY <1>0, <1>3, <1>6, NamesAssumption
  DEF PlaceInv, Apart, Steps, OnlyJava, UIPlaces, CallerPlaces, OfFuture, Arming, Procs
<1>10. ArmKept
  BY <1>0, <1>1, <1>3, <1>5, <1>6, <1>7, NamesAssumption
  DEF ArmKept, Apart, Steps, Sets, Arming, Runnables
<1>11. IdsKept
  BY <1>0, <1>1, <1>3, <1>5, <1>6 DEF IdsKept, Apart, Steps, Sets
<1>12. OverKept
  <2>1. \A g \in Futures : /\ Over(g) => Over(g)'
                           /\ Over(g)' => Over(g) \/ g = f
    BY <1>1, <1>5, <1>6 DEF Over, Sets
  <2>2. \A g \in Futures : /\ AtAdded(g)' => AtAdded(g)
                           /\ AtDone(g) => AtDone(g)'
                           /\ InDone(g) => InDone(g)'
                           /\ AtDone(f)'
    BY <1>0, <1>3, <1>6 DEF Steps, AtDone, AtAdded, InDone, Apart
  <2>3. \A p \in Procs :
          /\ proc'[p].pc \in {"done", "taken", "freed"} =>
                \/ proc[p].pc \in {"done", "taken", "freed"} /\ proc'[p].task = proc[p].task
                \/ \E g \in Futures : g = proc'[p].task /\ Over(g)'
          /\ proc'[p].pc = "taken" /\ proc'[p].id = NoId =>
                proc[p].pc = "taken" /\ proc[p].id = NoId /\ proc'[p].task = proc[p].task
          /\ proc'[p].pc \in {"added", "armed"} =>
                proc[p].pc \in {"added", "armed"} /\ proc'[p].task = proc[p].task
    BY <1>0, <1>3, <1>5, <1>6 DEF Steps, Sets, Over, Apart
  <2>4. \A g \in Futures : future'[g].state \in {"NEW", "RUNNING"} =>
                              future[g].state \in {"NEW", "RUNNING"}
    BY <1>5, <1>6 DEF Sets
  <2> QED
    BY <1>4, <1>6, <1>7, <2>1, <2>2, <2>3, <2>4 DEF OverKept, Apart
<1> QED
  BY <1>6, <1>7, <1>8, <1>9, <1>10, <1>11, <1>12, StepsInv DEF Apart

\* A step between calls, which leaves the futures alone.
LEMMA RestStep ==
    ASSUME Inv, NEW c \in Callers, NEW v, Steps(c, v), future' = future, armed' = armed,
           shutdown' \in BOOLEAN, proc[c].pc \in {"idle", "shut"}, v.pc \in {"idle", "shut"},
           v.task = None, v.id = NoId
    PROVE  Inv'
<1>0. Types /\ PlaceInv /\ c \in Procs /\ UI \in Procs /\ c # UI
      /\ proc[c].task = None /\ proc[c].id = NoId /\ proc[c].pc \notin Arming
  BY NamesAssumption DEF Inv, Procs, PlaceInv, OfFuture, Arming
<1>6. Apart(c, v)
  BY <1>0 DEF Apart, Types, FutureType, Live
<1>7. /\ \A g \in Futures : UIRuns(g)' => UIRuns(g)
      /\ \A g \in Futures : Unused(g) => Unused(g)'
      /\ \A g : Ent(table', g) = Ent(table, g)
      /\ interrupted' = interrupted /\ FutureType'
      /\ \A g \in Futures : future'[g].kind = future[g].kind \/ Unused(g)
      /\ RunsKept
  BY <1>6, ApartFacts
<1>8. FlagsType'
  BY <1>0 DEF Types, FlagsType, OnlyJava, Steps
<1>9. PlaceInv'
  BY <1>0, NamesAssumption
  DEF PlaceInv, Steps, OnlyJava, UIPlaces, CallerPlaces, OfFuture, Arming, Procs
<1>10. ArmKept /\ IdsKept
  BY <1>0, <1>7, NamesAssumption DEF ArmKept, Steps, Arming, Runnables, IdsKept
<1>12. OverKept
  <2>1. \A g \in Futures : /\ Over(g)' <=> Over(g)
                           /\ AtAdded(g)' => AtAdded(g)
                           /\ AtDone(g) => AtDone(g)'
                           /\ InDone(g) => InDone(g)'
    BY <1>0 DEF Over, AtAdded, AtDone, InDone, Steps
  <2> QED
    BY <1>0, <1>7, <2>1 DEF OverKept, Steps
<1> QED
  BY <1>6, <1>7, <1>8, <1>9, <1>10, <1>12, StepsInv DEF Apart

LEMMA ShutdownStep ==
    ASSUME Inv, NEW c \in Callers, Shutdown(c)
    PROVE  Inv'
<1>0. c \in Procs /\ proc[c].pc = "idle" /\ proc[c].task = None /\ proc[c].id = NoId
      /\ proc \in [Procs -> Process] /\ proc[c] \in Process /\ armed \subseteq Futures
  BY DEF Inv, Types, ProcType, FlagsType, Procs, PlaceInv, OfFuture, Arming, Shutdown
<1>1. PICK periodicOnly \in BOOLEAN :
         proc' = [proc EXCEPT ![c].pc = "shut",
                    ![c].rest = {f \in armed : ~periodicOnly \/ future[f].kind # "OneShot"}]
  BY DEF Shutdown
<1>2. PICK R \in SUBSET Futures : proc' = [proc EXCEPT ![c].pc = "shut", ![c].rest = R]
  <2> DEFINE R == {f \in armed : ~periodicOnly \/ future[f].kind # "OneShot"}
  <2>1. R \in SUBSET Futures
    BY <1>0
  <2>2. proc' = [proc EXCEPT ![c].pc = "shut", ![c].rest = R]
    BY <1>1
  <2> HIDE DEF R
  <2> QED
    BY <2>1, <2>2
<1> DEFINE v == [proc[c] EXCEPT !.pc = "shut", !.rest = R]
<1>3. v \in Process /\ v.pc = "shut" /\ v.task = None /\ v.id = NoId
  BY <1>0 DEF Process, PC
<1>4. proc' = [proc EXCEPT ![c] = v] /\ future' = future
      /\ OnlyJava /\ table' = table /\ armed' = armed /\ shutdown' = TRUE
  BY <1>0, <1>2 DEF Shutdown
<1> HIDE DEF v
<1>5. Steps(c, v)
  BY <1>0, <1>3, <1>4 DEF Steps
<1> QED
  BY <1>0, <1>3, <1>4, <1>5, RestStep

LEMMA ShutdownNextStep ==
    ASSUME Inv, NEW c \in Callers, ShutdownNext(c)
    PROVE  Inv'
<1>0. c \in Procs /\ proc[c].pc = "shut" /\ proc \in [Procs -> Process]
      /\ proc[c].rest \subseteq Futures
  BY DEF Inv, Types, ProcType, Process, Procs, ShutdownNext
<1>1. ASSUME NEW f \in proc[c].rest, CancelFuture(c, f) PROVE Inv'
  BY <1>0, <1>1, CancelStep
<1>2. CASE proc' = [proc EXCEPT ![c] = Idle] /\ OnlyJava
           /\ UNCHANGED <<table, future, armed, shutdown>>
  <2>1. Idle \in Process /\ Idle.pc = "idle" /\ Idle.task = None /\ Idle.id = NoId
    BY DEF Idle, Process, PC
  <2>2. Steps(c, Idle)
    BY <1>0, <1>2, <2>1 DEF Steps
  <2>3. shutdown' \in BOOLEAN
    BY <1>2 DEF Inv, Types, FlagsType
  <2> QED
    BY <1>0, <1>2, <2>1, <2>2, <2>3, RestStep
<1> QED
  BY <1>1, <1>2 DEF ShutdownNext

LEMMA DoneTakeStep ==
    ASSUME Inv, NEW p \in Procs, DoneTake(p)
    PROVE  Inv'
<1>0. Types /\ PlaceInv /\ UI \in Procs /\ proc[p].pc = "done"
  BY DEF Inv, Procs, DoneTake
<1>1. PICK f \in Futures : f = proc[p].task
  BY <1>0 DEF PlaceInv, OfFuture
<1> DEFINE u == [future[f] EXCEPT !.id = NoId, !.missed = future[f].missed \/ future[f].id = NoId]
           v == [proc[p] EXCEPT !.pc = "taken", !.id = future[f].id]
<1>2. Over(f)
  BY <1>0, <1>1 DEF Inv, OverInv
<1>3. /\ proc \in [Procs -> Process] /\ proc[p] \in Process
      /\ future \in [Futures -> Future] /\ future[f] \in Future
  BY <1>0 DEF Types, ProcType, FutureType
<1>4. v \in Process /\ v.pc = "taken" /\ v.task = f /\ v.id = future[f].id
  BY <1>1, <1>3 DEF Process, PC, Future
<1>5. proc' = [proc EXCEPT ![p] = v] /\ future' = [future EXCEPT ![f] = u]
      /\ OnlyJava /\ table' = table /\ armed' = armed /\ shutdown' = shutdown
  BY <1>1, <1>3 DEF DoneTake
<1>6. /\ u \in Future /\ u.state = future[f].state /\ u.kind = future[f].kind
      /\ (future[f].missed => u.missed) /\ u.id = NoId /\ (future[f].id = NoId => u.missed)
      /\ u.age = future[f].age
  BY <1>3 DEF Future
<1> HIDE DEF u, v
<1>7. Apart(p, v) /\ Sets(f, u)
  <2>1. Steps(p, v) /\ Sets(f, u)
    BY <1>0, <1>3, <1>4, <1>5, <1>6 DEF Steps, Sets
  <2>2. \A g \in Futures : ~Live(g) => ~Live(g)'
    BY <1>6, <2>1 DEF Live, Sets
  <2> QED
    BY <1>0, <1>4, <1>6, <2>1, <2>2 DEF Apart, Sets
<1>8. /\ \A g \in Futures : UIRuns(g)' => UIRuns(g)
      /\ \A g \in Futures : Unused(g) => Unused(g)'
      /\ \A g : Ent(table', g) = Ent(table, g)
      /\ interrupted' = interrupted /\ FutureType'
      /\ \A g \in Futures : future'[g].kind = future[g].kind \/ Unused(g)
      /\ RunsKept
  BY <1>7, ApartFacts
<1>9. FlagsType'
  BY <1>0, <1>5 DEF Types, FlagsType, OnlyJava
<1>10. PlaceInv'
  BY <1>0, <1>1, <1>4, <1>7, NamesAssumption
  DEF PlaceInv, Apart, Steps, OnlyJava, UIPlaces, CallerPlaces, OfFuture, Arming, Procs
<1>11. ArmKept
  BY <1>0, <1>1, <1>2, <1>4, <1>6, <1>7, <1>8, NamesAssumption
  DEF ArmKept, Apart, Steps, Sets, Arming, Over
<1>12. IdsKept
  BY <1>0, <1>1, <1>2, <1>4, <1>6, <1>7 DEF IdsKept, Apart, Steps, Sets
<1>13. OverKept
  <2>1. \A g \in Futures : Over(g)' <=> Over(g)
    BY <1>6, <1>7 DEF Over, Sets
  <2>2. \A g \in Futures : /\ AtAdded(g)' => AtAdded(g)
                           /\ InDone(g) => InDone(g)'
                           /\ AtDone(g) => AtDone(g)' \/ g = f
    BY <1>0, <1>1, <1>4, <1>7 DEF Steps, AtDone, AtAdded, InDone, Apart
  <2>3. future'[f].missed \/ ~AtAdded(f)
    <3>1. AtAdded(f) => future[f].id = NoId
      BY DEF AtAdded, Inv, ArmInv, Arming
    <3> QED
      BY <1>6, <1>7, <3>1 DEF Sets
  <2>4. \A q \in Procs :
          /\ proc'[q].pc \in {"done", "taken", "freed"} =>
                proc[q].pc \in {"done", "taken", "freed"} /\ proc'[q].task = proc[q].task
          /\ proc'[q].pc = "taken" /\ proc'[q].id = NoId =>
                \/ proc[q].pc = "taken" /\ proc[q].id = NoId /\ proc'[q].task = proc[q].task
                \/ future'[proc'[q].task].missed
          /\ proc'[q].pc \in {"added", "armed"} =>
                proc[q].pc \in {"added", "armed"} /\ proc'[q].task = proc[q].task
    BY <1>0, <1>1, <1>4, <1>6, <1>7 DEF Steps, Sets, Apart
  <2>5. \A g \in Futures : future'[g].state = future[g].state
    BY <1>6, <1>7 DEF Sets
  <2>6. \A g \in Futures : future[g].missed => future'[g].missed
    BY <1>7 DEF Apart
  <2> QED
    BY <1>5, <1>8, <2>1, <2>2, <2>3, <2>4, <2>5, <2>6 DEF OverKept
<1> QED
  BY <1>7, <1>8, <1>9, <1>10, <1>11, <1>12, <1>13, StepsInv DEF Apart

LEMMA FinishedStep ==
    ASSUME Inv, NEW p \in Procs, finished(p)
    PROVE  Inv'
<1>0. Types /\ PlaceInv /\ UI \in Procs /\ proc[p].pc = "freed" /\ proc[p].id = NoId
  BY DEF Inv, Procs, finished, PlaceInv
<1>1. PICK f \in Futures : f = proc[p].task
  BY <1>0 DEF PlaceInv, OfFuture
<1> DEFINE l == IF p = UI THEN "turn" ELSE IF proc[p].rest # {} THEN "shut" ELSE "idle"
           v == [proc[p] EXCEPT !.pc = l, !.task = None]
<1>2. Over(f)
  BY <1>0, <1>1 DEF Inv, OverInv
<1>3. /\ proc \in [Procs -> Process] /\ proc[p] \in Process
      /\ future \in [Futures -> Future]
  BY <1>0 DEF Types, ProcType, FutureType
<1>4. v \in Process /\ v.pc = l /\ v.task = None /\ v.id = NoId
  <2>1. l \in PC
    BY DEF PC
  <2> HIDE DEF l
  <2> QED
    BY <1>0, <1>3, <2>1 DEF Process
<1>5. proc' = [proc EXCEPT ![p] = v] /\ future' = future
      /\ OnlyJava /\ table' = table /\ armed' = armed \ {f} /\ shutdown' = shutdown
  BY <1>1, <1>3 DEF finished
<1>6. (p = UI => v.pc = "turn") /\ (p # UI => v.pc \in {"shut", "idle"})
  BY <1>4
<1> HIDE DEF v, l
<1>7. Apart(p, v)
  <2>1. Steps(p, v)
    BY <1>0, <1>3, <1>4, <1>5 DEF Steps
  <2>2. \A g \in Futures : ~Live(g) => ~Live(g)'
    BY <1>5 DEF Live
  <2> QED
    BY <1>0, <1>3, <1>5, <1>6, <2>1, <2>2 DEF Apart
<1>8. /\ \A g \in Futures : UIRuns(g)' => UIRuns(g)
      /\ \A g \in Futures : Unused(g) => Unused(g)'
      /\ \A g : Ent(table', g) = Ent(table, g)
      /\ interrupted' = interrupted /\ FutureType'
      /\ \A g \in Futures : future'[g].kind = future[g].kind \/ Unused(g)
      /\ RunsKept
  BY <1>7, ApartFacts
<1>9. FlagsType'
  BY <1>0, <1>5 DEF Types, FlagsType, OnlyJava
<1>10. PlaceInv'
  BY <1>0, <1>4, <1>6, <1>7, NamesAssumption
  DEF PlaceInv, Apart, Steps, OnlyJava, UIPlaces, CallerPlaces, OfFuture, Arming, Procs
<1>11. ArmKept
  BY <1>0, <1>4, <1>5, <1>6, <1>7, <1>8, NamesAssumption
  DEF ArmKept, Apart, Steps, Arming, Runnables
<1>12. IdsKept
  BY <1>0, <1>4, <1>5, <1>6, <1>7 DEF IdsKept, Apart, Steps
<1>13. OverKept
  <2>1. \A g \in Futures : /\ Over(g)' <=> Over(g)
                           /\ AtAdded(g)' => AtAdded(g)
                           /\ InDone(g) => InDone(g)'
                           /\ AtDone(g) => AtDone(g)'
    BY <1>0, <1>4, <1>5, <1>6, <1>7 DEF Over, Steps, AtDone, AtAdded, InDone, Apart
  <2>2. \A q \in Procs :
          /\ proc'[q].pc \in {"done", "taken", "freed"} =>
                proc[q].pc \in {"done", "taken", "freed"} /\ proc'[q].task = proc[q].task
          /\ proc'[q].pc = "taken" /\ proc'[q].id = NoId =>
                proc[q].pc = "taken" /\ proc[q].id = NoId /\ proc'[q].task = proc[q].task
          /\ proc'[q].pc \in {"added", "armed"} =>
                proc[q].pc \in {"added", "armed"} /\ proc'[q].task = proc[q].task
    BY <1>0, <1>4, <1>6, <1>7 DEF Steps, Apart
  <2>3. \A g \in Futures : g \notin armed' /\ future'[g].state \in {"NEW", "RUNNING"} =>
           g \notin armed /\ future[g].state \in {"NEW", "RUNNING"}
    BY <1>2, <1>5 DEF Over
  <2> QED
    BY <1>5, <1>8, <2>1, <2>2, <2>3 DEF OverKept
<1> QED
  BY <1>7, <1>8, <1>9, <1>10, <1>11, <1>12, <1>13, StepsInv DEF Apart

\* A caller arms: a future that was nowhere.
LEMMA ArmStep ==
    ASSUME Inv, NEW c \in Callers, NEW f \in Futures, NEW k \in KindsOf[f], Arm(c, f, k)
    PROVE  Inv'
<1> DEFINE u == [future[f] EXCEPT !.state = "NEW", !.kind = k]
           v == [proc[c] EXCEPT !.pc = "added", !.task = f]
<1>0. Types /\ PlaceInv /\ c \in Procs /\ UI \in Procs /\ c # UI /\ proc[c].pc = "idle"
      /\ proc[c].task = None /\ proc[c].id = NoId /\ future[f].state = "none" /\ k \in Kinds
  BY NamesAssumption, KindsAssumption DEF Inv, Procs, PlaceInv, OfFuture, Arming, Arm
<1>1. Unused(f) /\ future[f].id = NoId /\ \A p \in Procs : proc[p].task # f
  BY <1>0 DEF Inv, ArmInv
<1>2. /\ proc \in [Procs -> Process] /\ proc[c] \in Process
      /\ future \in [Futures -> Future] /\ future[f] \in Future
  BY <1>0 DEF Types, ProcType, FutureType
<1>3. v \in Process /\ v.pc = "added" /\ v.task = f /\ v.id = NoId
  BY <1>0, <1>2 DEF Process, PC, Runnables
<1>4. proc' = [proc EXCEPT ![c] = v] /\ future' = [future EXCEPT ![f] = u]
      /\ OnlyJava /\ table' = table /\ armed' = armed \cup {f} /\ shutdown' = shutdown
  BY <1>2 DEF Arm
<1>5. /\ u \in Future /\ u.state = "NEW" /\ u.kind = k
      /\ u.missed = future[f].missed /\ u.id = NoId /\ u.age = future[f].age
  BY <1>0, <1>1, <1>2 DEF Future
<1> HIDE DEF u, v
<1>6. Apart(c, v) /\ Sets(f, u)
  <2>1. Steps(c, v) /\ Sets(f, u)
    BY <1>0, <1>2, <1>3, <1>4, <1>5 DEF Steps, Sets
  <2>2. \A g \in Futures : ~Live(g) => ~Live(g)' \/ Unused(g)
    BY <1>1, <2>1 DEF Live, Sets
  <2> QED
    BY <1>0, <1>1, <1>5, <2>1, <2>2 DEF Apart, Sets
<1>7. /\ \A g \in Futures : UIRuns(g)' => UIRuns(g)
      /\ \A g \in Futures : Unused(g) => Unused(g)'
      /\ \A g : Ent(table', g) = Ent(table, g)
      /\ interrupted' = interrupted /\ FutureType'
      /\ \A g \in Futures : future'[g].kind = future[g].kind \/ Unused(g)
      /\ RunsKept
  BY <1>6, ApartFacts
<1>8. FlagsType'
  BY <1>0, <1>4 DEF Types, FlagsType, OnlyJava
<1>9. PlaceInv'
  BY <1>0, <1>3, <1>6, NamesAssumption
  DEF PlaceInv, Apart, Steps, OnlyJava, UIPlaces, CallerPlaces, OfFuture, Arming, Procs
<1>10. ArmInv'
  <2>1. proc'[c] = v /\ (\A p \in Procs : p # c => proc'[p] = proc[p])
        /\ future'[f] = u /\ (\A g \in Futures : g # f => future'[g] = future[g])
    BY <1>6 DEF Apart, Steps, Sets
  <2>2. \A g \in Futures : future'[g].state = "none" =>
           Unused(g)' /\ future'[g].id = NoId /\ \A p \in Procs : proc'[p].task # g
    BY <1>3, <1>5, <1>7, <2>1 DEF Inv, ArmInv
  <2>3. \A p \in Procs : p # c /\ proc[p].pc \in Arming =>
           proc[p].task \in Futures \ {f} /\ future'[proc[p].task].id = NoId
    BY <1>0, <1>1, <2>1 DEF Inv, ArmInv, PlaceInv, OfFuture
  <2>4. \A p \in Procs : proc'[p].pc \in Arming => future'[proc'[p].task].id = NoId
    BY <1>3, <1>5, <2>1, <2>3
  <2>5. \A p, q \in Procs : proc'[p].pc \in Arming /\ proc'[q].pc \in Arming
                              /\ proc'[p].task = proc'[q].task => p = q
    BY <1>1, <1>3, <2>1 DEF Inv, ArmInv
  <2>6. ASSUME NEW p \in Procs, proc'[p].pc \in {"added", "rejected"} PROVE Unused(proc[p].task)'
    <3>1. PICK g \in Futures : g = proc'[p].task /\ Unused(g)
      <4>1. CASE p = c
        BY <1>1, <1>3, <2>1, <4>1
      <4>2. CASE p # c
        BY <2>1, <2>3, <2>6, <4>2 DEF Inv, ArmInv, Arming
      <4> QED
        BY <4>1, <4>2
    <3>2. Unused(g)'
      BY <1>7, <3>1
    <3> QED
      BY <3>1, <3>2 DEF Unused, Ent, Out, OutIn, Times, Held, RunsUI, UIRuns
  <2>7. \A p, q \in Procs :
           proc'[p].pc = "added" /\ proc'[q].task = proc'[p].task => proc'[q].id = NoId
    BY <1>1, <1>3, <2>1 DEF Inv, ArmInv
  <2> QED
    BY <2>2, <2>4, <2>5, <2>6, <2>7 DEF ArmInv
<1>11. IdsKept
  BY <1>0, <1>1, <1>3, <1>5, <1>6 DEF IdsKept, Apart, Steps, Sets
<1>12. OverKept
  <2>1. \A g \in Futures : (Over(g)' <=> Over(g)) /\ ~Over(f)'
    BY <1>0, <1>5, <1>6 DEF Over, Sets
  <2>2. \A g \in Futures : /\ AtAdded(g)' => AtAdded(g) \/ g = f
                           /\ InDone(g) => InDone(g)'
                           /\ AtDone(g) => AtDone(g)'
    BY <1>0, <1>3, <1>6 DEF Steps, AtDone, AtAdded, InDone, Apart
  <2>3. \A q \in Procs :
          /\ proc'[q].pc \in {"done", "taken", "freed"} =>
                proc[q].pc \in {"done", "taken", "freed"} /\ proc'[q].task = proc[q].task
          /\ proc'[q].pc = "taken" /\ proc'[q].id = NoId =>
                proc[q].pc = "taken" /\ proc[q].id = NoId /\ proc'[q].task = proc[q].task
          /\ proc'[q].pc \in {"added", "armed"} =>
                \/ proc[q].pc \in {"added", "armed"} /\ proc'[q].task = proc[q].task
                \/ proc'[q].task \in armed'
    BY <1>0, <1>3, <1>4, <1>6 DEF Steps, Apart
  <2>4. \A g \in Futures : g \notin armed' /\ future'[g].state \in {"NEW", "RUNNING"} =>
           g \notin armed /\ future[g].state \in {"NEW", "RUNNING"}
    BY <1>4, <1>6 DEF Sets
  <2>5. \A g \in Futures : future[g].missed => future'[g].missed
    BY <1>6 DEF Apart
  <2> QED
    BY <1>7, <2>1, <2>2, <2>3, <2>4, <2>5 DEF OverKept
<1> QED
  BY <1>6, <1>7, <1>8, <1>9, <1>10, <1>11, <1>12, StepsInv DEF Apart

-----------------------------------------------------------------------------
(* The steps of Java tasks that change the deadline table. *)

\* An id resolves to the entry of its own future, if there is one; and to nothing
\* else, until its slot was given back as often as there are generations.
LEMMA ResolvedOwn ==
    ASSUME NEW n \in Nat, NEW f, NEW id \in Ids \cup {NoId}, Names(table, n, f, id), TableType
    PROVE  /\ n < Generations =>
                \A s \in resolve(id) : s \in Ent(table, f) /\ id = <<s, table[s].generation>>
           /\ id # NoId => Ent(table, f) \subseteq resolve(id)
<1>1. ASSUME n < Generations, NEW s \in resolve(id)
      PROVE  s \in Ent(table, f) /\ id = <<s, table[s].generation>>
  <2>1. /\ s \in Slots /\ id # NoId /\ s = id[1] /\ table[s].live /\ table[s].generation = id[2]
        /\ id \in Ids
    BY <1>1 DEF resolve
  <2>2. id = <<s, table[s].generation>> /\ id[2] \in 0..Generations-1
    BY <2>1 DEF Ids
  <2>3. Since(table, id) = 0
    BY <2>1, <2>2, GenerationsPositive DEF Since, Dist
  <2>4. Ent(table, f) # {}
    BY <1>1, <2>1, <2>3 DEF Names
  <2>5. PICK r \in Ent(table, f) : id = <<r, table[r].generation>>
    BY <2>1, <2>4 DEF Names
  <2> QED
    BY <2>1, <2>2, <2>5
<1>2. ASSUME id # NoId, NEW r \in Ent(table, f) PROVE r \in resolve(id)
  <2>1. id = <<r, table[r].generation>> /\ r \in Slots /\ table[r].live
    BY <1>2 DEF Names, Ent
  <2> QED
    BY <1>2, <2>1 DEF resolve
<1> QED
  BY <1>1, <1>2

LEMMA ReportCompletedStep ==
    ASSUME Inv, ReportCompleted
    PROVE  Inv'
<1> DEFINE f == proc[UI].task
           id == proc[UI].id
           v == [Idle EXCEPT !.pc = "turn"]
<1>0. Types /\ PlaceInv /\ UI \in Procs /\ proc[UI].pc = "complete" /\ id \in Ids \cup {NoId}
  BY DEF Inv, Procs, ReportCompleted, Types, ProcType, Process
<1>1. f \in Futures /\ future[f].state # "none"
      /\ \A p \in Procs : proc[p].pc \in {"added", "rejected"} => proc[p].task # f
  BY <1>0, RunningFuture
<1>2. proc \in [Procs -> Process] /\ table \in [Slots -> Entry]
  BY <1>0 DEF Types, ProcType, TableType
<1>3. v \in Process /\ v.pc = "turn" /\ v.task = None /\ v.id = NoId
  BY DEF Idle, Process, PC
<1>4. proc' = [proc EXCEPT ![UI] = v] /\ future' = future /\ table' = completed(id)
      /\ UNCHANGED queueVars /\ OnlyJava /\ armed' = armed /\ shutdown' = shutdown
  BY DEF ReportCompleted, OnlyJava, queueVars
<1>5. ~CameRound => \A s \in resolve(id) : s \in Ent(table, f)
  <2>1. PICK n \in Nat : n = future[f].age /\ (~CameRound => n < Generations)
    BY <1>0, <1>1, GenerationsPositive DEF CameRound, Types, FutureType, Future
  <2>2. Names(table, n, f, id)
    BY <1>0, <1>1, <2>1 DEF Inv, IdInv
  <2> HIDE DEF f, id
  <2> QED
    BY <1>0, <2>1, <2>2, ResolvedOwn DEF Types
<1>6. id # NoId => Ent(table, f) \subseteq resolve(id)
  <2>1. PICK n \in Nat : n = future[f].age
    BY <1>0, <1>1, GenerationsPositive DEF Types, FutureType, Future
  <2>2. Names(table, n, f, id)
    BY <1>0, <1>1, <2>1 DEF Inv, IdInv
  <2> HIDE DEF f, id
  <2> QED
    BY <1>0, <2>2, ResolvedOwn DEF Types
<1> HIDE DEF v
<1>7. /\ proc' \in [Procs -> Process] /\ proc'[UI] = v /\ \A q \in Procs \ {UI} : proc'[q] = proc[q]
      /\ ProcType' /\ FutureType'
  BY <1>0, <1>2, <1>3, <1>4 DEF ProcType, FutureType, Types
<1>8. ASSUME NEW s \in Slots
      PROVE  /\ table'[s] \in Entry /\ Same(table[s], table'[s])
             /\ \/ table'[s] = table[s]
                \/ /\ CameRound \/ s \in Ent(table, f)
                   /\ table[s].kind = "FixedDelay" /\ ~table'[s].in_flight
             /\ s \in resolve(id) /\ table[s].kind = "FixedDelay" => ~table'[s].in_flight
  <2>1. table[s] \in Entry /\ -Period \in Int /\ Period + MaxDelay \in Int
        /\ Period \in (-Period)..(Period + MaxDelay)
    BY <1>2, PeriodAssumption
  <2>2. table'[s] = IF s \in resolve(id) /\ table[s].kind = "FixedDelay"
                    THEN [table[s] EXCEPT !.in_flight = FALSE, !.left = Period] ELSE table[s]
    <3>1. table' = completed(id)
      BY <1>4
    <3> HIDE DEF f, id
    <3> QED
      BY <3>1, Zenon DEF completed
  <2> HIDE DEF f, id
  <2>3. PICK e \in Entry : e = table[s]
    BY <2>1
  <2> DEFINE d == [e EXCEPT !.in_flight = FALSE, !.left = Period]
  <2>4. d \in Entry /\ Same(e, d) /\ ~d.in_flight
    BY <2>1, <2>3 DEF Entry, Same
  <2>5. table'[s] = IF s \in resolve(id) /\ e.kind = "FixedDelay" THEN d ELSE e
    BY <2>2, <2>3, Zenon
  <2> HIDE DEF d
  <2>6. Same(e, e)
    BY DEF Same
  <2> QED
    BY <1>5, <2>3, <2>4, <2>5, <2>6
<1>9. TableType' /\ Alike(table, table') /\ \A g : Ent(table', g) = Ent(table, g)
  <2>1. DOMAIN table' = Slots /\ table' = [s \in Slots |-> table'[s]]
    <3>1. table' = completed(id)
      BY <1>4
    <3> HIDE DEF f, id
    <3> QED
      BY <3>1, Zenon DEF completed
  <2>2. TableType'
    BY <1>8, <2>1 DEF TableType
  <2> QED
    BY <1>8, <2>2 DEF Alike, Same, Ent
<1>10. \A g \in Futures : /\ UIRuns(g) <=> g = f
                         /\ ~UIRuns(g)'
  BY <1>0, <1>3, <1>7, NamesAssumption DEF UIRuns, Runnables
<1>11. \A g \in Futures : /\ Unused(g) => Unused(g)'
                         /\ Out(g)' \in Nat /\ (g = f => Out(g)' = Out(g) - 1 /\ Out(g) \in Nat)
  <2> TAKE g \in Futures
  <2>1. Unused(g) => Unused(g)'
    BY <1>0, <1>4, <1>9, <1>10, UnusedFrame DEF queueVars, Types
  <2>2. Out(g)' \in Nat /\ Out(g) \in Nat /\ (UIRuns(g) /\ ~UIRuns(g)' => Out(g)' = Out(g) - 1)
    BY <1>0, <1>4, <1>10, OutFrame DEF queueVars, Types
  <2> QED
    BY <1>10, <2>1, <2>2
<1>12. FlagsType'
  BY <1>0, <1>4 DEF Types, FlagsType, OnlyJava
<1>13. PlaceInv'
  BY <1>0, <1>3, <1>4, <1>7, NamesAssumption
  DEF PlaceInv, OnlyJava, UIPlaces, CallerPlaces, OfFuture, Arming, Procs
<1>14. TableInv'
  BY <1>4, <1>8, <1>9 DEF Inv, TableInv, TableTrue, EntryTrue, Same
<1>15. ArmInv'
  <2>1. ArmKept
    BY <1>0, <1>1, <1>3, <1>4, <1>7, <1>11, NamesAssumption DEF ArmKept, Arming, Runnables
  <2> QED
    BY <1>0, <2>1, ArmFrame DEF Inv
<1>16. IdInv'
  <2>1. IdsKept
    BY <1>0, <1>3, <1>4, <1>7 DEF IdsKept
  <2> QED
    BY <1>0, <1>9, <2>1, IdFrame DEF Inv
<1>17. RunsKept
  <2>1. \A g \in Futures : \A s \in Ent(table', g) :
           \/ s \in Ent(table, g) /\ table'[s].in_flight = table[s].in_flight
           \/ ~table'[s].in_flight /\ Out(g)' = 0
           \/ CameRound
    <3> TAKE g \in Futures
    <3> TAKE s \in Ent(table', g)
    <3>1. s \in Slots /\ s \in Ent(table, g) /\ table[s].runnable = g /\ table[s].live
      BY <1>9 DEF Ent
    <3>2. CASE table'[s] = table[s]
      BY <3>1, <3>2
    <3>3. CASE ~CameRound /\ s \in Ent(table, f) /\ table[s].kind = "FixedDelay" /\ ~table'[s].in_flight
      <4>1. g = f /\ future[f].kind = "FixedDelay"
        BY <3>1, <3>3 DEF Ent, Inv, TableInv, TableTrue, EntryTrue
      <4>2. RunBounds(queue, f) /\ Out(f) = OutIn(queue, f)
        BY <1>1, <3>3 DEF Inv, RunInv, RunCount, Out
      <4>3. Out(f) <= 1
        BY <4>1, <4>2 DEF RunBounds, Single
      <4> QED
        BY <1>1, <1>11, <3>3, <4>1, <4>3
    <3> QED
      BY <1>8, <3>1, <3>2, <3>3
  <2>2. future[f].missed \/ \A s \in Ent(table', f) : ~table'[s].in_flight
    <3>1. CASE id = NoId
      BY <1>0, <3>1 DEF Inv, RunInv
    <3>2. CASE id # NoId
      <4> SUFFICES ASSUME NEW s \in Ent(table', f) PROVE ~table'[s].in_flight
        OBVIOUS
      <4>1. s \in Slots /\ s \in resolve(id) /\ table[s].live
        BY <1>6, <1>9, <3>2 DEF Ent
      <4>2. table[s].in_flight => table[s].kind = "FixedDelay"
        BY <4>1 DEF Inv, TableInv, TableTrue, EntryTrue
      <4> QED
        BY <1>8, <4>1, <4>2
    <3> QED
      BY <3>1, <3>2
  <2>3. \A g \in Futures : Live(g)' <=> Live(g)
    BY <1>4 DEF Live
  <2>4. proc'[UI].pc = "turn"
    BY <1>3, <1>7
  <2>5. \A g \in Futures : future[g].state # "RUNNING" \/ interrupted
    BY <1>0 DEF Inv, RunInv
  <2>6. queue' = queue /\ hand' = hand /\ interrupted' = interrupted
    BY <1>4 DEF OnlyJava
  <2>7. CameRound => CameRound'
    BY <1>4 DEF CameRound
  <2> HIDE DEF f, id
  <2> QED
    BY <1>4, <1>10, <2>1, <2>2, <2>3, <2>4, <2>5, <2>6, <2>7 DEF RunsKept
<1>18. OverKept
  <2>1. \A g \in Futures : /\ Over(g)' <=> Over(g)
                           /\ AtAdded(g)' => AtAdded(g)
                           /\ InDone(g) => InDone(g)'
                           /\ AtDone(g) => AtDone(g)'
    BY <1>0, <1>3, <1>4, <1>7 DEF Over, AtDone, AtAdded, InDone
  <2>2. \A q \in Procs : proc'[q].pc \in {"done", "taken", "freed", "added", "armed"} =>
                            proc'[q] = proc[q]
    BY <1>3, <1>7
  <2>3. interrupted' = interrupted
    BY <1>4 DEF OnlyJava
  <2> QED
    BY <1>4, <1>9, <1>11, <2>1, <2>2, <2>3 DEF OverKept
<1> QED
  BY <1>4, <1>12, <1>7, <1>9, <1>13, <1>14, <1>15, <1>16, <1>17, <1>18, JavaStep

\* The slot goes, if its id still names it: the only step that takes an entry but fire_due.
LEMMA DoneFreeStep ==
    ASSUME Inv, NEW p \in Procs, DoneFree(p)
    PROVE  Inv'
<1>0. Types /\ PlaceInv /\ UI \in Procs /\ proc[p].pc = "taken"
      /\ proc \in [Procs -> Process] /\ table \in [Slots -> Entry]
  BY DEF Inv, Procs, DoneFree, Types, ProcType, TableType
<1>1. PICK f \in Futures : f = proc[p].task
  BY <1>0 DEF PlaceInv, OfFuture
<1>2. PICK id \in Ids \cup {NoId} : id = proc[p].id
  BY <1>0 DEF Process
<1> DEFINE v == [proc[p] EXCEPT !.pc = "freed", !.id = NoId]
<1>3. Over(f)
  BY <1>0, <1>1 DEF Inv, OverInv
<1>4. v \in Process /\ v.pc = "freed" /\ v.task = f /\ v.id = NoId
  BY <1>0, <1>1 DEF Process, PC
<1>5. proc' = [proc EXCEPT ![p] = v] /\ table' = cancel(id) /\ future' = Aged(table')
      /\ UNCHANGED queueVars /\ OnlyJava /\ armed' = armed /\ shutdown' = shutdown
  BY <1>0, <1>2 DEF DoneFree, OnlyJava, queueVars
<1> HIDE DEF v
<1>6. /\ proc' \in [Procs -> Process] /\ proc'[p] = v /\ \A q \in Procs \ {p} : proc'[q] = proc[q]
      /\ ProcType'
  BY <1>0, <1>4, <1>5 DEF ProcType
\* What the id resolves to goes: the entry of f, if it has one.
<1>7. id # NoId => Ent(table, f) \subseteq resolve(id)
  <2>1. PICK n \in Nat : n = future[f].age
    BY <1>0, GenerationsPositive DEF Types, FutureType, Future
  <2>2. Names(table, n, f, id)
    BY <1>1, <1>2, <2>1 DEF Inv, IdInv
  <2> QED
    BY <1>0, <2>2, ResolvedOwn DEF Types
<1>8. \A s \in resolve(id) : s \in Slots /\ table[s].live
  BY DEF resolve
<1>9. \A s \in Slots : /\ table'[s] \in Entry
                       /\ s \notin resolve(id) => table'[s] = table[s]
                       /\ s \in resolve(id) => table'[s] = free(table[s]) /\ ~table'[s].live
  <2> TAKE s \in Slots
  <2>1. table'[s] = IF s \in resolve(id) THEN free(table[s]) ELSE table[s]
    BY <1>5 DEF cancel
  <2>2. table[s] \in Entry
    BY <1>0
  <2>3. free(table[s]) \in Entry /\ free(table[s]).live = FALSE
    BY <2>2, FreeIs
  <2> QED
    BY <2>1, <2>2, <2>3
<1>10. TableType' /\ FreedSome(table, table')
  <2>1. table' = [s \in Slots |-> table'[s]]
    BY <1>5 DEF cancel
  <2>2. TableType'
    BY <1>9, <2>1 DEF TableType
  <2>3. FreedSome(table, table')
    BY <1>8, <1>9 DEF FreedSome, Same
  <2> QED
    BY <2>2, <2>3
<1>11. /\ TableInv' /\ IdInv' /\ FutureType' /\ (CameRound => CameRound')
       /\ \A g \in Futures : /\ future'[g].state = future[g].state
                             /\ future'[g].kind = future[g].kind
                             /\ future'[g].id = future[g].id
                             /\ future'[g].missed = future[g].missed
       /\ \A g : Ent(table', g) \subseteq Ent(table, g)
       /\ \A g : \A s \in Ent(table', g) : table'[s] = table[s]
       /\ id = NoId \/ Ent(table', f) = {}
  <2>1. \A q \in Procs : \/ proc'[q].id = NoId
                         \/ proc'[q].id = proc[q].id /\ proc'[q].task = proc[q].task
    BY <1>4, <1>6
  <2>2. /\ IdInv' /\ FutureType' /\ (CameRound => CameRound')
        /\ \A g \in Futures : /\ future'[g].state = future[g].state
                              /\ future'[g].kind = future[g].kind
                              /\ future'[g].id = future[g].id
                              /\ future'[g].missed = future[g].missed
    BY <1>0, <1>5, <1>10, <2>1, IdAged DEF Inv
  <2>3. \A s \in Slots : table'[s].live => table'[s] = table[s] /\ s \notin resolve(id)
    BY <1>9
  <2>4. /\ \A g : Ent(table', g) \subseteq Ent(table, g)
        /\ \A g : \A s \in Ent(table', g) : table'[s] = table[s]
        /\ id = NoId \/ Ent(table', f) = {}
    BY <1>7, <2>3 DEF Ent
  <2>5. TableInv'
    BY <2>2, <2>3 DEF Inv, TableInv, TableTrue, EntryTrue
  <2> QED
    BY <2>2, <2>4, <2>5
<1>12. \A g \in Futures : (UIRuns(g)' <=> UIRuns(g)) /\ (Live(g)' <=> Live(g))
                         /\ (Over(g)' <=> Over(g))
  BY <1>0, <1>4, <1>5, <1>6, <1>11 DEF UIRuns, Live, Over
<1>13. \A g \in Futures : Unused(g) => Unused(g)'
  BY <1>0, <1>5, <1>11, <1>12, UnusedFrame DEF queueVars, Types
<1>14. FlagsType'
  BY <1>0, <1>5 DEF Types, FlagsType, OnlyJava
<1>15. PlaceInv'
  BY <1>0, <1>1, <1>4, <1>5, <1>6, NamesAssumption
  DEF PlaceInv, OnlyJava, UIPlaces, CallerPlaces, OfFuture, Arming, Procs
<1>16. ArmInv'
  <2>1. ArmKept
    BY <1>0, <1>1, <1>3, <1>4, <1>5, <1>6, <1>11, <1>13 DEF ArmKept, Arming, Over
  <2> QED
    BY <1>0, <2>1, ArmFrame DEF Inv
<1>17. RunsKept
  <2>1. proc'[UI].pc \in {"tick", "complete", "calling"} => proc'[UI] = proc[UI]
    BY <1>0, <1>4, <1>6
  <2>2. proc'[UI].pc = "complete" /\ proc'[UI].id = NoId => future'[proc'[UI].task].missed
    <3>1. proc[UI].pc = "complete" => proc[UI].task \in Futures
      BY <1>0 DEF PlaceInv, OfFuture
    <3> QED
      BY <1>11, <2>1, <3>1 DEF Inv, RunInv
  <2>3. proc'[UI].pc = "calling" => future'[proc'[UI].task].state \in {"RUNNING", "CANCELLED"}
    <3>1. proc[UI].pc = "calling" => proc[UI].task \in Futures
      BY <1>0 DEF PlaceInv, OfFuture
    <3> QED
      BY <1>11, <2>1, <3>1 DEF Inv, RunInv
  <2>4. \A g \in Futures : future'[g].state = "RUNNING" =>
           interrupted \/ (proc'[UI].pc = "calling" /\ proc'[UI].task = g)
    <3>1. proc[UI].pc = "calling" => proc'[UI] = proc[UI]
      BY <1>0, <1>6
    <3> QED
      BY <1>11, <3>1 DEF Inv, RunInv
  <2>5. queue' = queue /\ hand' = hand /\ interrupted' = interrupted
    BY <1>5 DEF OnlyJava
  <2>6. \A g \in Futures : \A s \in Ent(table', g) :
           s \in Ent(table, g) /\ table'[s].in_flight = table[s].in_flight
    <3> TAKE g \in Futures
    <3>1. \A x : Ent(table', x) \subseteq Ent(table, x)
      BY <1>11
    <3>2. \A x : \A s \in Ent(table', x) : table'[s] = table[s]
      BY <1>11
    <3> QED
      BY <3>1, <3>2
  <2>7. \A g \in Futures : /\ UIRuns(g)' <=> UIRuns(g)
                           /\ future'[g].kind = future[g].kind
                           /\ future[g].missed => future'[g].missed
                           /\ Live(g)' <=> Live(g)
    BY <1>11, <1>12
  <2> QED
    BY <1>11, <2>1, <2>2, <2>3, <2>4, <2>5, <2>6, <2>7 DEF RunsKept
<1>18. OverKept
  <2>1. \A g \in Futures : /\ Over(g)' <=> Over(g)
                           /\ AtAdded(g)' => AtAdded(g)
                           /\ InDone(g) => InDone(g)' \/ g = f
                           /\ AtDone(g) => AtDone(g)'
    BY <1>0, <1>1, <1>4, <1>6, <1>12 DEF AtDone, AtAdded, InDone
  <2>2. \A q \in Procs :
          /\ proc'[q].pc \in {"done", "taken", "freed"} =>
                proc[q].pc \in {"done", "taken", "freed"} /\ proc'[q].task = proc[q].task
          /\ proc'[q].pc = "taken" /\ proc'[q].id = NoId =>
                proc[q].pc = "taken" /\ proc[q].id = NoId /\ proc'[q].task = proc[q].task
          /\ proc'[q].pc \in {"added", "armed"} =>
                proc[q].pc \in {"added", "armed"} /\ proc'[q].task = proc[q].task
    BY <1>0, <1>1, <1>4, <1>6
  <2>3. future'[f].missed \/ Ent(table', f) = {}
    BY <1>0, <1>1, <1>2, <1>5, <1>11 DEF Inv, OverInv
  <2>4. interrupted' = interrupted
    BY <1>5 DEF OnlyJava
  <2> QED
    BY <1>5, <1>11, <1>13, <2>1, <2>2, <2>3, <2>4 DEF OverKept
<1> QED
  BY <1>5, <1>6, <1>10, <1>11, <1>14, <1>15, <1>16, <1>17, <1>18, JavaStep

LEMMA FirstFreeIs ==
    ASSUME FreeSlots # {}
    PROVE  FirstFree \in FreeSlots
<1> DEFINE f == [s \in FreeSlots |-> s]
<1>1. IsFiniteSet(FreeSlots) /\ FreeSlots \subseteq Nat
  <2>1. IsFiniteSet(Slots)
    BY FS_Interval, CapacityAssumption DEF Slots
  <2>2. FreeSlots \subseteq Slots /\ Slots \subseteq Nat
    BY DEF FreeSlots, Slots
  <2> QED
    BY <2>1, <2>2, FS_Subset
<1>2. f \in [FreeSlots -> Nat]
  BY <1>1
<1>3. PICK s \in FreeSlots : \A x \in FreeSlots : f[s] <= f[x]
  <2> HIDE DEF f
  <2> QED
    BY <1>1, <1>2, FiniteLeast
<1>4. \A x \in FreeSlots : s <= x
  BY <1>3
<1> QED
  BY <1>4 DEF FirstFree

\* A free slot is taken: the only step that gives an entry.
LEMMA ArmSlotStep ==
    ASSUME Inv, NEW c \in Callers, NEW delay \in 0..MaxDelay, ArmSlot(c, delay)
    PROVE  Inv'
<1>0. Types /\ PlaceInv /\ c \in Procs /\ UI \in Procs /\ c # UI /\ proc[c].pc = "added"
      /\ proc \in [Procs -> Process] /\ table \in [Slots -> Entry] /\ proc[c].id = NoId
  BY NamesAssumption DEF Inv, Procs, ArmSlot, Types, ProcType, TableType, PlaceInv
<1>1. PICK f \in Futures : f = proc[c].task
  BY <1>0 DEF PlaceInv, OfFuture, Arming
<1>2. /\ future[f].id = NoId /\ future[f].state # "none" /\ Unused(f) /\ AtAdded(f)
      /\ \A q \in Procs : proc[q].pc \in Arming /\ proc[q].task = f => q = c
      /\ \A q \in Procs : proc[q].task = f => proc[q].id = NoId
  BY <1>0, <1>1 DEF Inv, ArmInv, Arming, AtAdded
<1>3. OnlyJava /\ future' = future /\ armed' = armed /\ shutdown' = shutdown
      /\ UNCHANGED queueVars /\ FutureType'
  BY <1>0 DEF ArmSlot, OnlyJava, queueVars, Types, FutureType
<1>4. CASE FreeSlots = {}
  <2> DEFINE v == [proc[c] EXCEPT !.pc = "rejected"]
  <2>1. v \in Process /\ v.pc = "rejected" /\ v.task = f /\ v.id = NoId
    BY <1>0, <1>1 DEF Process, PC
  <2>2. proc' = [proc EXCEPT ![c] = v] /\ table' = table
    BY <1>0, <1>4 DEF ArmSlot, Goto
  <2> HIDE DEF v
  <2>3. Apart(c, v)
    BY <1>0, <1>3, <2>1, <2>2 DEF Apart, Steps, FutureType, Types, Live
  <2>4. /\ \A g \in Futures : UIRuns(g)' => UIRuns(g)
        /\ \A g \in Futures : Unused(g) => Unused(g)'
        /\ \A g : Ent(table', g) = Ent(table, g)
        /\ interrupted' = interrupted /\ FutureType'
        /\ \A g \in Futures : future'[g].kind = future[g].kind \/ Unused(g)
        /\ RunsKept
    BY <2>3, ApartFacts
  <2>5. FlagsType'
    BY <1>0, <1>3 DEF Types, FlagsType, OnlyJava
  <2>6. PlaceInv'
    BY <1>0, <1>1, <2>1, <2>3, NamesAssumption
    DEF PlaceInv, Apart, Steps, OnlyJava, UIPlaces, CallerPlaces, OfFuture, Arming, Procs
  <2>7. ArmKept
    BY <1>0, <1>1, <1>3, <2>1, <2>3, <2>4 DEF ArmKept, Apart, Steps, Arming
  <2>8. IdsKept
    BY <1>0, <1>1, <1>3, <2>1, <2>3 DEF IdsKept, Apart, Steps
  <2>9. OverKept
    <3>1. \A g \in Futures : /\ Over(g)' <=> Over(g)
                             /\ AtAdded(g)' => AtAdded(g)
                             /\ InDone(g) => InDone(g)'
                             /\ AtDone(g) => AtDone(g)'
      BY <1>0, <1>3, <2>1, <2>3 DEF Over, Steps, AtDone, AtAdded, InDone, Apart
    <3> QED
      BY <1>0, <1>1, <1>3, <2>1, <2>3, <2>4, <3>1 DEF OverKept, Apart, Steps
  <2> QED
    BY <2>3, <2>4, <2>5, <2>6, <2>7, <2>8, <2>9, StepsInv DEF Apart
<1>5. CASE FreeSlots # {}
  <2>1. PICK s \in FreeSlots : s = FirstFree
    BY <1>5, FirstFreeIs
  <2> DEFINE e == [table[s] EXCEPT !.runnable = f, !.left = delay, !.in_flight = FALSE,
                                   !.kind = future[f].kind, !.live = TRUE]
             v == [proc[c] EXCEPT !.pc = "armed", !.id = <<s, table[s].generation>>]
  <2>2. s \in Slots /\ ~table[s].live /\ table[s] \in Entry
        /\ <<s, table[s].generation>> \in Ids /\ <<s, table[s].generation>> # NoId
    <3>1. s \in Slots /\ ~table[s].live /\ table[s] \in Entry /\ s # 0
      BY <1>0 DEF FreeSlots, Slots
    <3> QED
      BY <3>1 DEF Ids, NoId, Entry
  <2>3. /\ e \in Entry /\ e.live /\ e.runnable = f /\ ~e.in_flight
        /\ e.kind = future[f].kind /\ e.generation = table[s].generation
    <3>1. future[f].kind \in Kinds
      BY <1>0 DEF Types, FutureType, Future
    <3>2. delay \in (-Period)..(Period + MaxDelay)
      BY PeriodAssumption
    <3> QED
      BY <2>2, <3>1, <3>2 DEF Entry
  <2>4. v \in Process /\ v.pc = "armed" /\ v.task = f /\ v.id = <<s, table[s].generation>>
    BY <1>0, <1>1, <2>2 DEF Process, PC
  <2>5. proc' = [proc EXCEPT ![c] = v] /\ table' = [table EXCEPT ![s] = e]
    BY <1>0, <1>1, <1>5, <2>1 DEF ArmSlot, schedule
  <2> HIDE DEF e, v
  <2>6. /\ table' \in [Slots -> Entry] /\ table'[s] = e
        /\ \A r \in Slots \ {s} : table'[r] = table[r]
        /\ proc' \in [Procs -> Process] /\ proc'[c] = v
        /\ \A q \in Procs \ {c} : proc'[q] = proc[q]
        /\ TableType' /\ ProcType'
    BY <1>0, <2>2, <2>3, <2>4, <2>5 DEF TableType, ProcType
  <2>7. /\ Ent(table', f) = {s}
        /\ \A g : g # f => Ent(table', g) = Ent(table, g)
        /\ \A g : s \notin Ent(table, g)
        /\ \A r \in Slots : table'[r].generation = table[r].generation
    <3>1. Ent(table, f) = {}
      BY <1>2 DEF Unused
    <3> QED
      BY <2>2, <2>3, <2>6, <3>1 DEF Ent
  <2>8. \A g \in Futures : (UIRuns(g)' <=> UIRuns(g)) /\ (Live(g)' <=> Live(g))
                           /\ (Over(g)' <=> Over(g))
    BY <1>0, <1>3, <2>6 DEF UIRuns, Live, Over
  <2>9. /\ \A g \in Futures : g # f /\ Unused(g) => Unused(g)'
        /\ Out(f)' = 0
    <3>1. \A g \in Futures : Out(g)' = Out(g)
      BY <1>0, <1>3, <2>8, OutFrame DEF queueVars, Types
    <3> QED
      BY <1>2, <2>7, <3>1 DEF Unused
  <2>10. FlagsType'
    BY <1>0, <1>3 DEF Types, FlagsType, OnlyJava
  <2>11. PlaceInv'
    BY <1>0, <1>1, <1>3, <2>2, <2>4, <2>6, NamesAssumption
    DEF PlaceInv, OnlyJava, UIPlaces, CallerPlaces, OfFuture, Arming, Procs
  <2>12. TableInv'
    <3>1. \A r \in Slots \ {s} : table[r].live => table[r].runnable # f
      BY <1>2 DEF Unused, Ent
    <3> QED
      BY <1>3, <2>2, <2>3, <2>6, <3>1 DEF Inv, TableInv, TableTrue, EntryTrue
  <2>13. ArmInv'
    <3>1. \A g \in Futures : future'[g].state = "none" =>
             Unused(g)' /\ future'[g].id = NoId /\ \A q \in Procs : proc'[q].task # g
      BY <1>2, <1>3, <2>4, <2>6, <2>9 DEF Inv, ArmInv
    <3>2. \A q \in Procs : proc'[q].task = proc[q].task
                           /\ (proc'[q].pc \in Arming => proc[q].pc \in Arming)
      BY <1>0, <1>1, <2>4, <2>6 DEF Arming
    <3>3. \A q \in Procs : proc'[q].pc \in Arming => future'[proc'[q].task].id = NoId
      BY <1>3, <3>2 DEF Inv, ArmInv
    <3>4. \A q, r \in Procs : proc'[q].pc \in Arming /\ proc'[r].pc \in Arming
                                /\ proc'[q].task = proc'[r].task => q = r
      BY <3>2 DEF Inv, ArmInv
    <3>5. ASSUME NEW q \in Procs, proc'[q].pc \in {"added", "rejected"}
          PROVE  Unused(proc[q].task)' /\ q # c /\ proc'[q] = proc[q] /\ proc[q].task # f
      <4>1. q # c /\ proc'[q] = proc[q] /\ proc[q].task # f
        BY <1>2, <2>4, <2>6, <3>5 DEF Arming
      <4>2. PICK g \in Futures : g = proc'[q].task /\ Unused(g) /\ g # f
        BY <3>5, <4>1 DEF Inv, ArmInv, PlaceInv, OfFuture, Arming
      <4>3. Unused(g)'
        BY <2>9, <4>2
      <4> QED
        BY <4>1, <4>2, <4>3 DEF Unused, Ent, Out, OutIn, Times, Held, RunsUI, UIRuns
    <3>6. \A q, r \in Procs :
             proc'[q].pc = "added" /\ proc'[r].task = proc'[q].task => proc'[r].id = NoId
      <4> TAKE q, r \in Procs
      <4> HAVE proc'[q].pc = "added" /\ proc'[r].task = proc'[q].task
      <4>1. q # c /\ proc'[q] = proc[q] /\ proc[q].task # f
        BY <3>5
      <4>2. r # c /\ proc'[r] = proc[r]
        BY <1>1, <2>6, <3>2, <4>1
      <4> QED
        BY <4>1, <4>2 DEF Inv, ArmInv
    <3> QED
      BY <3>1, <3>3, <3>4, <3>5, <3>6 DEF ArmInv
  <2>14. IdInv'
    <3>1. ASSUME NEW g \in Futures, NEW id \in Ids \cup {NoId}, g # f,
                 Names(table, future[g].age, g, id)
          PROVE  Names(table', future[g].age, g, id)
      <4>1. id # NoId => id[1] \in Slots
        BY DEF Ids
      <4>2. id # NoId => Since(table', id) = Since(table, id)
        BY <2>7, <4>1 DEF Since
      <4>3. Ent(table', g) = Ent(table, g) /\ Ent(table, g) \subseteq Slots
        BY <2>7, <3>1 DEF Ent
      <4> QED
        BY <2>7, <3>1, <4>2, <4>3 DEF Names
    <3>2. \A g \in Futures : Names(table', future'[g].age, g, future'[g].id)
      <4> TAKE g \in Futures
      <4>1. future[g].id \in Ids \cup {NoId} /\ Names(table, future[g].age, g, future[g].id)
        BY <1>0 DEF Inv, IdInv, Types, FutureType, Future
      <4>2. CASE g = f
        BY <1>2, <1>3, <4>2 DEF Names
      <4> QED
        BY <1>3, <3>1, <4>1, <4>2
    <3>3. ASSUME NEW q \in Procs, NEW g \in Futures, proc'[q].task = g
          PROVE  Names(table', future[g].age, g, proc'[q].id)
      <4>1. CASE q = c
        <5>1. Ent(table', f) = {s} /\ g = f
              /\ proc'[q].id = <<s, table'[s].generation>>
          BY <2>2, <2>4, <2>6, <2>7, <3>3, <4>1
        <5> QED
          BY <5>1 DEF Names
      <4>2. CASE q # c /\ proc[q].task = f
        <5>1. proc'[q].id = NoId
          BY <1>2, <2>6, <4>2
        <5> QED
          BY <5>1 DEF Names
      <4>3. CASE q # c /\ proc[q].task # f
        <5>1. proc'[q] = proc[q] /\ proc[q].task = g /\ g # f
          BY <2>6, <3>3, <4>3
        <5>2. proc[q].id \in Ids \cup {NoId} /\ Names(table, future[g].age, g, proc[q].id)
          BY <1>0, <5>1 DEF Inv, IdInv, Process
        <5> QED
          BY <3>1, <5>1, <5>2
      <4> QED
        BY <4>1, <4>2, <4>3
    <3> QED
      BY <1>3, <3>2, <3>3 DEF IdInv
  <2>15. RunsKept
    <3>1. proc'[UI] = proc[UI]
      BY <1>0, <2>6
    <3>2. queue' = queue /\ hand' = hand /\ interrupted' = interrupted
      BY <1>3 DEF OnlyJava
    <3>3. \A g \in Futures : \A r \in Ent(table', g) :
             \/ r \in Ent(table, g) /\ table'[r].in_flight = table[r].in_flight
             \/ ~table'[r].in_flight /\ Out(g)' = 0
      <4> TAKE g \in Futures
      <4> TAKE r \in Ent(table', g)
      <4>1. CASE g = f
        BY <2>3, <2>6, <2>7, <2>9, <4>1
      <4>2. CASE g # f
        <5>1. r \in Ent(table, g) /\ r \in Slots /\ r # s
          BY <2>7, <4>2 DEF Ent
        <5> QED
          BY <2>6, <5>1
      <4> QED
        BY <4>1, <4>2
    <3>4. /\ proc'[UI].pc = "complete" /\ proc'[UI].id = NoId => future'[proc'[UI].task].missed
          /\ proc'[UI].pc = "calling" => future'[proc'[UI].task].state \in {"RUNNING", "CANCELLED"}
          /\ \A g \in Futures : future'[g].state = "RUNNING" =>
                interrupted \/ (proc'[UI].pc = "calling" /\ proc'[UI].task = g)
      BY <1>3, <3>1 DEF Inv, RunInv
    <3> QED
      BY <1>3, <2>8, <3>1, <3>2, <3>3, <3>4 DEF RunsKept, CameRound
  <2>16. OverKept
    <3>1. \A g \in Futures : /\ AtAdded(g)' => AtAdded(g)
                             /\ InDone(g) <=> InDone(g)'
                             /\ AtDone(g) <=> AtDone(g)'
      BY <1>0, <2>4, <2>6 DEF AtDone, AtAdded, InDone
    <3>2. \A q \in Procs :
            /\ proc'[q].pc \in {"done", "taken", "freed"} =>
                  proc[q].pc \in {"done", "taken", "freed"} /\ proc'[q].task = proc[q].task
            /\ proc'[q].pc = "taken" /\ proc'[q].id = NoId =>
                  proc[q].pc = "taken" /\ proc[q].id = NoId /\ proc'[q].task = proc[q].task
            /\ proc'[q].pc \in {"added", "armed"} =>
                  proc[q].pc \in {"added", "armed"} /\ proc'[q].task = proc[q].task
      BY <1>0, <1>1, <2>4, <2>6
    <3>3. InDone(f) \/ future[f].missed \/ ~Over(f) \/ interrupted
      BY <1>0, <1>1 DEF Inv, OverInv, InDone
    <3>4. f \in armed \/ Over(f)
      <4>1. future[f].state \in {"NEW", "RUNNING"} \/ Over(f)
        BY <1>0, <1>2 DEF Types, FutureType, Future, Over
      <4> QED
        BY <1>0, <1>1, <4>1 DEF Inv, OverInv
    <3>5. interrupted' = interrupted
      BY <1>3 DEF OnlyJava
    <3>6. ASSUME NEW g \in Futures
          PROVE  /\ Unused(g) => Unused(g)' \/ g \in armed' \/ Over(g)'
                 /\ \/ Ent(table', g) \subseteq Ent(table, g)
                    \/ InDone(g)' \/ future'[g].missed \/ ~Over(g)' \/ interrupted
      <4>1. CASE g = f
        BY <1>3, <2>8, <3>1, <3>3, <3>4, <4>1
      <4>2. CASE g # f
        BY <2>7, <2>9, <4>2
      <4> QED
        BY <4>1, <4>2
    <3> QED
      BY <1>3, <2>8, <3>1, <3>2, <3>5, <3>6 DEF OverKept
  <2> QED
    BY <1>3, <2>6, <2>10, <2>11, <2>12, <2>13, <2>14, <2>15, <2>16, JavaStep
<1> QED
  BY <1>4, <1>5

-----------------------------------------------------------------------------
(* The steps of the main queue. *)

\* The index RemoveFirst takes out, and what is left then.
LEMMA RemoveFirstIs ==
    ASSUME NEW s \in Seq(Runnables), NEW r, NEW k \in 1..Len(s), s[k] = r
    PROVE  \E i \in 1..Len(s) : /\ i <= k /\ s[i] = r
                                /\ RemoveFirst(s, r) = SubSeq(s, 1, i - 1) \o SubSeq(s, i + 1, Len(s))
<1> DEFINE I == {i \in 1..Len(s) : s[i] = r}
<1>1. Len(s) \in Nat /\ IsFiniteSet(I) /\ I # {} /\ I \subseteq Nat
  <2>1. Len(s) \in Nat /\ IsFiniteSet(1..Len(s))
    BY LenProperties, FS_Interval
  <2>2. I \subseteq 1..Len(s) /\ k \in I
    OBVIOUS
  <2>3. IsFiniteSet(I)
    BY <2>1, <2>2, FS_Subset
  <2>4. I \subseteq Nat
    BY <2>1
  <2> QED
    BY <2>1, <2>2, <2>3, <2>4
<1>2. PICK m \in I : \A x \in I : m <= x
  <2> DEFINE f == [i \in I |-> i]
  <2>1. f \in [I -> Nat]
    BY <1>1
  <2>2. PICK m \in I : \A x \in I : f[m] <= f[x]
    <3> HIDE DEF f, I
    <3> QED
      BY <1>1, <2>1, FiniteLeast
  <2> QED
    BY <2>2
<1>3. Min(I) \in I /\ \A x \in I : Min(I) <= x
  BY <1>2 DEF Min
<1>4. RemoveFirst(s, r) = RemoveAt(s, Min(I))
  BY <1>1 DEF RemoveFirst, SelectInSeq
<1> QED
  BY <1>3, <1>4 DEF RemoveAt

LEMMA ShadowRemoveType ==
    ASSUME NEW s \in Seq(Runnables), NEW r
    PROVE  /\ shadow_remove(s, r) \in Seq(Runnables) /\ Len(shadow_remove(s, r)) <= Len(s)
           /\ s # <<>> /\ s[1] = r => shadow_remove(s, r) = Tail(s)
<1>1. Len(s) \in Nat /\ \A i \in 1..Len(s) : s[i] \in Runnables
  BY LenProperties
<1>2. CASE ~\E k \in 1..Len(s) : s[k] = r
  <2>1. shadow_remove(s, r) = s
    BY <1>2 DEF shadow_remove, Contains
  <2>2. s # <<>> => 1 \in 1..Len(s)
    BY <1>1, EmptySeq
  <2> QED
    BY <1>1, <1>2, <2>1, <2>2
<1>3. ASSUME NEW k \in 1..Len(s), s[k] = r
      PROVE  /\ shadow_remove(s, r) \in Seq(Runnables) /\ Len(shadow_remove(s, r)) <= Len(s)
             /\ s # <<>> /\ s[1] = r => shadow_remove(s, r) = Tail(s)
  <2>1. shadow_remove(s, r) = RemoveFirst(s, r)
    BY <1>3 DEF shadow_remove, Contains
  <2>2. PICK i \in 1..Len(s) : /\ i <= k /\ s[i] = r
                               /\ RemoveFirst(s, r) = SubSeq(s, 1, i - 1) \o SubSeq(s, i + 1, Len(s))
    BY <1>3, RemoveFirstIs
  <2>3. /\ SubSeq(s, 1, i - 1) \in Seq(Runnables)
        /\ Len(SubSeq(s, 1, i - 1)) = IF 1 <= i - 1 THEN i - 1 - 1 + 1 ELSE 0
    <3>1. 1 \in Int /\ i - 1 \in Int /\ \A j \in 1..(i - 1) : s[j] \in Runnables
      BY <1>1
    <3> QED
      BY <3>1, SubSeqProperties
  <2>4. /\ SubSeq(s, i + 1, Len(s)) \in Seq(Runnables)
        /\ Len(SubSeq(s, i + 1, Len(s))) = IF i + 1 <= Len(s) THEN Len(s) - (i + 1) + 1 ELSE 0
    <3>1. i + 1 \in Int /\ Len(s) \in Int /\ \A j \in (i + 1)..Len(s) : s[j] \in Runnables
      BY <1>1
    <3> QED
      BY <3>1, SubSeqProperties
  <2>5. /\ SubSeq(s, 1, i - 1) \o SubSeq(s, i + 1, Len(s)) \in Seq(Runnables)
        /\ Len(SubSeq(s, 1, i - 1) \o SubSeq(s, i + 1, Len(s)))
              = Len(SubSeq(s, 1, i - 1)) + Len(SubSeq(s, i + 1, Len(s)))
    BY <2>3, <2>4, ConcatProperties
  <2>6. Len(RemoveFirst(s, r)) <= Len(s)
    <3> DEFINE a == Len(SubSeq(s, 1, i - 1))
               b == Len(SubSeq(s, i + 1, Len(s)))
    <3>1. a = i - 1
      BY <1>1, <2>3
    <3>2. b = Len(s) - i
      BY <1>1, <2>4
    <3>3. Len(RemoveFirst(s, r)) = a + b
      BY <2>2, <2>5
    <3> HIDE DEF a, b
    <3> QED
      BY <1>1, <3>1, <3>2, <3>3
  <2>7. ASSUME s # <<>>, s[1] = r PROVE RemoveFirst(s, r) = Tail(s)
    <3>1. 1 \in 1..Len(s)
      BY <1>1, <2>7, EmptySeq
    <3>2. PICK j \in 1..Len(s) : /\ j <= 1 /\ s[j] = r
               /\ RemoveFirst(s, r) = SubSeq(s, 1, j - 1) \o SubSeq(s, j + 1, Len(s))
      BY <2>7, <3>1, RemoveFirstIs
    <3>3. RemoveFirst(s, r) = SubSeq(s, 1, 0) \o SubSeq(s, 2, Len(s))
      <4>1. j = 1 /\ j - 1 = 0 /\ j + 1 = 2
        BY <1>1, <3>2
      <4> QED
        BY <3>2, <4>1
    <3>4. SubSeq(s, 1, 0) = <<>>
      BY SubSeqEmpty
    <3>5. Tail(s) = SubSeq(s, 2, Len(s)) /\ Tail(s) \in Seq(Runnables)
      BY <2>7, TailIsSubSeq, HeadTailProperties
    <3> QED
      BY <3>3, <3>4, <3>5, ConcatEmptySeq
  <2> QED
    BY <2>1, <2>2, <2>5, <2>6, <2>7
<1> QED
  BY <1>2, <1>3

\* The words the UI task has still to look at: the popped one, then the queue.
Held1 == IF hand = "none" THEN <<>> ELSE <<hand>>
Pending == Held1 \o queue

LEMMA PendingType ==
    ASSUME QueueType, FlagsType
    PROVE  /\ Held1 \in Seq(Words) /\ Pending \in Seq(Words)
           /\ \A w \in Words : Append(Pending, w) = Held1 \o Append(queue, w)
           /\ hand = "none" => Pending = queue
           /\ hand # "none" => Pending # <<>> /\ Head(Pending) = hand /\ Tail(Pending) = queue
<1>1. queue \in Seq(Words) /\ (hand # "none" => hand \in Words)
  BY DEF QueueType, FlagsType
<1>2. Held1 \in Seq(Words)
  BY <1>1, EmptySeq DEF Held1
<1>3. Pending \in Seq(Words)
  BY <1>1, <1>2, ConcatProperties DEF Pending
<1>4. ASSUME NEW w \in Words PROVE Append(Pending, w) = Held1 \o Append(queue, w)
  <2>1. Append(Pending, w) = Pending \o <<w>> /\ Append(queue, w) = queue \o <<w>>
        /\ <<w>> \in Seq(Words)
    BY <1>1, <1>3, AppendIsConcat
  <2>2. (Held1 \o queue) \o <<w>> = Held1 \o (queue \o <<w>>)
    BY <1>1, <1>2, <2>1, ConcatAssociative
  <2> QED
    BY <2>1, <2>2 DEF Pending
<1>5. hand = "none" => Pending = queue
  BY <1>1, ConcatEmptySeq DEF Pending, Held1
<1>6. ASSUME hand # "none"
      PROVE  Pending # <<>> /\ Head(Pending) = hand /\ Tail(Pending) = queue
  <2>1. Pending = <<hand>> \o queue /\ <<hand>> \in Seq(Words) /\ Len(<<hand>>) = 1
        /\ <<hand>>[1] = hand
    BY <1>1, <1>6 DEF Pending, Held1
  <2>2. Len(queue) \in Nat /\ Len(Pending) = 1 + Len(queue)
        /\ \A i \in 1..1 + Len(queue) : Pending[i] = IF i <= 1 THEN <<hand>>[i] ELSE queue[i - 1]
    BY <1>1, <2>1, ConcatProperties, LenProperties
  <2>3. Pending # <<>>
    BY <2>2, EmptySeq
  <2>4. Head(Pending) = Pending[1] /\ Tail(Pending) \in Seq(Words)
        /\ Len(Tail(Pending)) = Len(Pending) - 1
        /\ \A i \in 1..Len(Pending) - 1 : Tail(Pending)[i] = Pending[i + 1]
    BY <1>3, <2>3, TailFacts
  <2>5. Head(Pending) = hand
    BY <2>1, <2>2, <2>4
  <2>6. Tail(Pending) = queue
    <3>1. \A i \in 1..Len(queue) : Tail(Pending)[i] = queue[i]
      BY <2>2, <2>4
    <3> QED
      BY <1>1, <2>2, <2>4, <3>1, SeqEqual
  <2> QED
    BY <2>3, <2>5, <2>6
<1> QED
  BY <1>2, <1>3, <1>4, <1>5, <1>6

LEMMA MirrorIs ==
    ASSUME QueueType, FlagsType
    PROVE  /\ MirrorInv <=> /\ Copies("tick") = (IF tick_in_queue THEN 1 ELSE 0)
                            /\ overrun \/ RunnablesOf(shadow, Pending)
           /\ Copies("tick") = Times(queue, "tick") + Held("tick") /\ Times(queue, "tick") \in Nat
<1>1. Copies("tick") = Times(queue, "tick") + Held("tick")
  BY DEF Copies, Held
<1>2. Times(queue, "tick") \in Nat
  BY TimesType DEF QueueType
<1> QED
  BY <1>1, <1>2 DEF MirrorInv, TickFlagExact, ShadowExact, Pending, Held1

\* A step that sends a word which is no future, or none, and leaves the rest.
LEMMA SendStep ==
    ASSUME Inv, QueueType', ShadowType', FlagsType', MirrorInv',
           UNCHANGED <<hand, table, future, armed, proc>>, interrupted => interrupted',
           \A f \in Futures : /\ Times(queue', f) = Times(queue, f)
                              /\ OneBehind(queue, f) => OneBehind(queue', f)
                              /\ NoneBehind(queue, f) => NoneBehind(queue', f)
    PROVE  Inv'
<1>0. Types /\ PlaceInv /\ TableInv /\ ArmInv /\ IdInv /\ RunInv /\ OverInv
  BY DEF Inv
<1>1. TableType' /\ FutureType' /\ ProcType' /\ PlaceInv' /\ TableInv'
  BY <1>0 DEF Types, TableType, FutureType, ProcType, PlaceInv, TableInv, TableTrue, EntryTrue
<1>2. \A f : /\ Ent(table', f) = Ent(table, f) /\ Held(f)' = Held(f) /\ RunsUI(f)' = RunsUI(f)
             /\ (UIRuns(f)' <=> UIRuns(f)) /\ (Live(f)' <=> Live(f)) /\ (Over(f)' <=> Over(f))
             /\ (InDone(f)' <=> InDone(f)) /\ (AtDone(f)' <=> AtDone(f))
             /\ (AtAdded(f)' <=> AtAdded(f)) /\ (Single(f)' <=> Single(f))
  BY DEF Held, RunsUI, UIRuns, Live, Over, InDone, AtDone, AtAdded, Single
<1>3. \A f \in Futures : Out(f)' = Out(f) /\ OutIn(queue, f)' = OutIn(queue, f)
                         /\ (Unused(f)' <=> Unused(f))
  BY <1>2 DEF Out, OutIn, Unused
<1>4. ArmInv'
  <2>1. ArmKept
    BY <1>0, <1>3 DEF ArmKept
  <2> QED
    BY <1>0, <2>1, ArmFrame
<1>5. IdInv'
  <2>1. Alike(table, table')
    BY <1>0, TableSame DEF Types
  <2>2. IdsKept
    BY DEF IdsKept
  <2> QED
    BY <1>0, <1>1, <2>1, <2>2, IdFrame
<1>6. RunInv'
  <2>0. CameRound => CameRound'
    BY DEF CameRound
  <2>1. ASSUME RunCount, NEW f \in Futures
        PROVE  /\ RunBounds(queue, f)' /\ Rested(table, queue, f)'
               /\ OneBehind(queue, f)' /\ Waits(table, queue, f)'
    <3>1. /\ RunBounds(queue, f) /\ Rested(table, queue, f)
          /\ OneBehind(queue, f) /\ Waits(table, queue, f)
      BY <2>1 DEF RunCount
    <3>2. Times(queue, f)' = Times(queue, f)
      OBVIOUS
    <3>3. RunBounds(queue, f)'
      BY <1>2, <1>3, <3>1 DEF RunBounds
    <3>4. Rested(table, queue, f)'
      BY <1>2, <1>3, <3>1 DEF Rested
    <3>5. Waits(table, queue, f)'
      BY <1>2, <3>1, <3>2 DEF Waits
    <3>6. OneBehind(queue, f)'
      <4>1. OneBehind(queue', f)
        BY <3>1
      <4> QED
        BY <4>1 DEF OneBehind
    <3> QED
      BY <3>3, <3>4, <3>5, <3>6
  <2>2. RunCount /\ (hand = "tick" \/ proc[UI].pc = "tick")' => \A f \in Futures : Out(f)' <= 1
    BY <1>3 DEF RunCount
  <2>3. RunCount /\ proc'[UI].pc = "tick" => \A f \in Futures : NoneBehind(queue, f)'
    <3>1. RunCount /\ proc'[UI].pc = "tick" => \A f \in Futures : NoneBehind(queue', f)
      BY DEF RunCount
    <3> QED
      BY <3>1 DEF NoneBehind
  <2>4. /\ proc'[UI].pc = "complete" /\ proc'[UI].id = NoId => future'[proc'[UI].task].missed
        /\ proc'[UI].pc = "calling" => future'[proc'[UI].task].state \in {"RUNNING", "CANCELLED"}
        /\ \A f \in Futures : future'[f].state = "RUNNING" =>
              interrupted' \/ (proc'[UI].pc = "calling" /\ proc'[UI].task = f)
    BY <1>0 DEF RunInv
  <2>5. RunCount => RunCount'
    BY <2>1, <2>2, <2>3 DEF RunCount
  <2> QED
    BY <1>0, <2>0, <2>4, <2>5 DEF RunInv
<1>7. OverInv'
  <2>1. OverKept
    BY <1>0, <1>2, <1>3 DEF OverKept
  <2> QED
    BY <1>0, <1>1, <2>1, OverFrame
<1> QED
  BY <1>1, <1>4, <1>5, <1>6, <1>7 DEF Inv, Types

\* A word that is no future goes in behind the others.
LEMMA SentWord ==
    ASSUME QueueType, NEW w \in Words, w \notin Futures, ~Full(queue), queue' = Append(queue, w)
    PROVE  /\ QueueType'
           /\ \A f \in Futures : /\ Times(queue', f) = Times(queue, f)
                                 /\ OneBehind(queue, f) => OneBehind(queue', f)
                                 /\ NoneBehind(queue, f) => NoneBehind(queue', f)
           /\ Times(queue', "tick") = Times(queue, "tick") + (IF w = "tick" THEN 1 ELSE 0)
<1>1. /\ queue \in Seq(Words) /\ queue' \in Seq(Words) /\ Len(queue) \in Nat
      /\ DOMAIN queue = 1..Len(queue) /\ DOMAIN queue' = 1..Len(queue) + 1
      /\ \A i \in 1..Len(queue) : queue'[i] = queue[i]
      /\ queue'[Len(queue) + 1] = w /\ Len(queue') = Len(queue) + 1
  BY AppendFacts DEF QueueType
<1>2. QueueType'
  <2>1. Len(queue) <= QUEUE_CAPACITY /\ Len(queue) # QUEUE_CAPACITY /\ QUEUE_CAPACITY \in Nat
    BY CapacityAssumption DEF QueueType, Full
  <2>2. Len(queue') <= QUEUE_CAPACITY
    <3>0. Len(queue) \in Nat
      BY <1>1
    <3>1. PICK m \in Nat : m = Len(queue)
      BY <3>0
    <3>2. Len(queue') = m + 1
      BY <1>1, <3>1
    <3>3. m + 1 <= QUEUE_CAPACITY
      BY <2>1, <3>1
    <3> QED
      BY <3>2, <3>3
  <2> QED
    BY <1>1, <2>2 DEF QueueType
<1>3. ASSUME NEW x PROVE Times(queue', x) = Times(queue, x) + (IF w = x THEN 1 ELSE 0)
  BY <1>1, TimesAppend
<1>4. ASSUME NEW f \in Futures
      PROVE  /\ Times(queue', f) = Times(queue, f)
             /\ OneBehind(queue, f) => OneBehind(queue', f)
             /\ NoneBehind(queue, f) => NoneBehind(queue', f)
  <2>1. Times(queue', f) = Times(queue, f)
    <3>1. Times(queue, f) \in Nat
      BY <1>1, TimesType
    <3> QED
      BY <1>3, <3>1
  <2>2. OneBehind(queue, f) => OneBehind(queue', f)
    BY <1>1 DEF OneBehind
  <2>3. NoneBehind(queue, f) => NoneBehind(queue', f)
    BY <1>1 DEF NoneBehind
  <2> QED
    BY <2>1, <2>2, <2>3
<1> QED
  BY <1>2, <1>3, <1>4

\* The steps that send a word.
LEMMA EnqueueTickStep ==
    ASSUME Inv, enqueue_tick
    PROVE  Inv'
<1>0. Types /\ MirrorInv /\ QueueType /\ FlagsType /\ ShadowType
  BY DEF Inv, Types
<1>1. /\ ~tick_in_queue /\ ~Full(queue) /\ queue' = Append(queue, "tick") /\ tick_in_queue' = TRUE
      /\ UNCHANGED <<shadow, overrun, hand, ticking, table, future, armed, shutdown, proc,
                     interrupted>>
  BY DEF enqueue_tick
<1>2. /\ QueueType'
      /\ \A f \in Futures : /\ Times(queue', f) = Times(queue, f)
                            /\ OneBehind(queue, f) => OneBehind(queue', f)
                            /\ NoneBehind(queue, f) => NoneBehind(queue', f)
      /\ Times(queue', "tick") = Times(queue, "tick") + 1
  BY <1>0, <1>1, NamesApart, SentWord
<1>3. ShadowType' /\ FlagsType'
  BY <1>0, <1>1 DEF ShadowType, FlagsType
<1>4. MirrorInv'
  <2>1. Held("tick") = 0 /\ Times(queue, "tick") = 0 /\ Held("tick")' = Held("tick")
    BY <1>0, <1>1, MirrorIs DEF Held
  <2>2. Copies("tick")' = 1
    BY <1>2, <2>1 DEF Copies, Held
  <2>3. overrun \/ RunnablesOf(shadow, Append(Pending, "tick"))
    <3>1. overrun \/ RunnablesOf(shadow, Pending)
      BY <1>0, MirrorIs
    <3>2. Pending \in Seq(Words) /\ shadow \in Seq(Runnables)
      BY <1>0, PendingType DEF ShadowType
    <3> QED
      BY <3>1, <3>2, NamesApart, EmbedsOther
  <2>4. Pending' = Append(Pending, "tick")
    <3>1. Append(Pending, "tick") = Held1 \o Append(queue, "tick")
      BY <1>0, NamesApart, PendingType
    <3> QED
      BY <1>1, <3>1 DEF Pending, Held1
  <2> QED
    BY <1>1, <2>2, <2>3, <2>4 DEF MirrorInv, TickFlagExact, ShadowExact, Pending, Held1
<1> QED
  BY <1>1, <1>2, <1>3, <1>4, SendStep

LEMMA EnqueueRunnableStep ==
    ASSUME Inv, NEW c \in Callers, NEW r \in Plain, enqueue_runnable(c, r)
    PROVE  Inv'
<1>0. Types /\ MirrorInv /\ QueueType /\ FlagsType /\ ShadowType /\ shadow \in Seq(Runnables)
      /\ Len(shadow) <= QUEUE_CAPACITY /\ Len(shadow) \in Nat /\ QUEUE_CAPACITY \in Nat
  BY LenProperties, CapacityAssumption DEF Inv, Types, ShadowType
<1>1. /\ ~Full(queue) /\ queue' = Append(queue, r) /\ shadow' = shadow_push(shadow, r)
      /\ overrun' = (overrun \/ Full(shadow))
      /\ UNCHANGED <<tick_in_queue, hand, ticking, table, future, armed, shutdown, proc,
                     interrupted>>
  BY DEF enqueue_runnable
<1>2. r \in Runnables /\ r \in Words /\ r \notin Futures /\ r # "tick"
  BY NamesAssumption DEF Runnables, Words
<1>3. /\ QueueType'
      /\ \A f \in Futures : /\ Times(queue', f) = Times(queue, f)
                            /\ OneBehind(queue, f) => OneBehind(queue', f)
                            /\ NoneBehind(queue, f) => NoneBehind(queue', f)
      /\ Times(queue', "tick") = Times(queue, "tick") + 0
  BY <1>0, <1>1, <1>2, SentWord
<1>4. ShadowType'
  <2>1. CASE Len(shadow) < QUEUE_CAPACITY
    <3>1. shadow' = Append(shadow, r)
      BY <1>1, <2>1 DEF shadow_push
    <3> QED
      BY <1>0, <1>2, <2>1, <3>1, AppendFacts DEF ShadowType
  <2>2. CASE ~(Len(shadow) < QUEUE_CAPACITY)
    BY <1>0, <1>1, <2>2 DEF shadow_push, ShadowType
  <2> QED
    BY <2>1, <2>2
<1>5. FlagsType'
  <2>1. overrun' \in BOOLEAN
    BY <1>1
  <2> QED
    BY <1>0, <1>1, <2>1 DEF FlagsType
<1>6. MirrorInv'
  <2>1. Copies("tick")' = Copies("tick") /\ Copies("tick") = IF tick_in_queue THEN 1 ELSE 0
    BY <1>0, <1>1, <1>3, MirrorIs DEF Copies
  <2>2. overrun' \/ RunnablesOf(shadow', Append(Pending, r))
    <3>1. SUFFICES ASSUME ~overrun' PROVE RunnablesOf(shadow', Append(Pending, r))
      OBVIOUS
    <3>2. ~overrun /\ ~Full(shadow)
      BY <1>1, <3>1
    <3>3. RunnablesOf(shadow, Pending)
      BY <1>0, <3>2, MirrorIs
    <3>4. shadow' = Append(shadow, r)
      BY <1>0, <1>1, <3>2 DEF shadow_push, Full
    <3>5. Pending \in Seq(Words)
      BY <1>0, PendingType
    <3> QED
      BY <1>0, <1>2, <3>3, <3>4, <3>5, EmbedsPush
  <2>3. Pending' = Append(Pending, r)
    <3>1. Append(Pending, r) = Held1 \o Append(queue, r)
      BY <1>0, <1>2, PendingType
    <3> QED
      BY <1>1, <3>1 DEF Pending, Held1
  <2> QED
    BY <1>1, <2>1, <2>2, <2>3 DEF MirrorInv, TickFlagExact, ShadowExact, Pending, Held1
<1> QED
  BY <1>1, <1>3, <1>4, <1>5, <1>6, SendStep

LEMMA StopStep ==
    ASSUME Inv, Stop
    PROVE  Inv'
<1>0. Types /\ MirrorInv /\ QueueType /\ FlagsType /\ ShadowType
  BY DEF Inv, Types
<1>1. /\ interrupted' = TRUE
      /\ UNCHANGED <<shadow, overrun, tick_in_queue, hand, ticking, table, future, armed, shutdown,
                     proc>>
      /\ \/ queue' = queue
         \/ ~Full(queue) /\ queue' = Append(queue, "wake")
  BY DEF Stop, enqueue_wake
<1>2. ShadowType' /\ FlagsType'
  BY <1>0, <1>1 DEF ShadowType, FlagsType
<1>3. CASE queue' = queue
  <2>1. QueueType'
    BY <1>0, <1>3 DEF QueueType
  <2>2. MirrorInv'
    BY <1>0, <1>1, <1>3 DEF MirrorInv, TickFlagExact, ShadowExact, Copies
  <2> QED
    BY <1>1, <1>2, <1>3, <2>1, <2>2, SendStep
<1>4. CASE ~Full(queue) /\ queue' = Append(queue, "wake")
  <2>1. /\ QueueType'
        /\ \A f \in Futures : /\ Times(queue', f) = Times(queue, f)
                              /\ OneBehind(queue, f) => OneBehind(queue', f)
                              /\ NoneBehind(queue, f) => NoneBehind(queue', f)
        /\ Times(queue', "tick") = Times(queue, "tick") + 0
    BY <1>0, <1>4, NamesApart, SentWord
  <2>2. Copies("tick")' = Copies("tick") /\ Copies("tick") = IF tick_in_queue THEN 1 ELSE 0
    BY <1>0, <1>1, <2>1, MirrorIs DEF Copies
  <2>3. overrun \/ RunnablesOf(shadow, Append(Pending, "wake"))
    <3>1. overrun \/ RunnablesOf(shadow, Pending)
      BY <1>0, MirrorIs
    <3>2. Pending \in Seq(Words) /\ shadow \in Seq(Runnables)
      BY <1>0, PendingType DEF ShadowType
    <3> QED
      BY <3>1, <3>2, NamesApart, EmbedsOther
  <2>4. Pending' = Append(Pending, "wake")
    <3>1. Append(Pending, "wake") = Held1 \o Append(queue, "wake")
      BY <1>0, NamesApart, PendingType
    <3> QED
      BY <1>1, <1>4, <3>1 DEF Pending, Held1
  <2>5. MirrorInv'
    BY <1>1, <2>2, <2>3, <2>4 DEF MirrorInv, TickFlagExact, ShadowExact, Pending, Held1
  <2> QED
    BY <1>1, <1>2, <2>1, <2>5, SendStep
<1> QED
  BY <1>1, <1>3, <1>4

LEMMA NextTurnStep ==
    ASSUME Inv, NextTurn
    PROVE  Inv'
<1> DEFINE l == IF interrupted THEN "ended" ELSE "recv"
           v == [proc[UI] EXCEPT !.pc = l]
<1>0. Types /\ PlaceInv /\ TableInv /\ UI \in Procs /\ proc[UI].pc = "turn" /\ proc[UI].id = NoId
      /\ proc[UI].task = None /\ proc \in [Procs -> Process]
  BY DEF Inv, Procs, NextTurn, Types, ProcType, PlaceInv, OfFuture, Arming
<1>1. v \in Process /\ v.pc = l /\ v.task = None /\ v.id = NoId
  BY <1>0 DEF Process, PC
<1>2. /\ proc' = [proc EXCEPT ![UI] = v] /\ ticking' \in BOOLEAN
      /\ UNCHANGED <<queue, shadow, overrun, tick_in_queue, hand, table, future, armed, shutdown,
                     interrupted>>
  BY <1>0 DEF NextTurn, Goto, Types, FlagsType
<1>3. v.pc \in {"ended", "recv"}
  BY <1>1
<1> HIDE DEF l, v
<1>4. /\ proc' \in [Procs -> Process] /\ proc'[UI] = v /\ \A q \in Procs \ {UI} : proc'[q] = proc[q]
      /\ ProcType' /\ FutureType'
  BY <1>0, <1>1, <1>2 DEF ProcType, FutureType, Types
<1>5. TableType' /\ Alike(table, table') /\ \A g : Ent(table', g) = Ent(table, g)
  BY <1>0, <1>2, TableSame DEF Types
<1>6. \A g \in Futures : (UIRuns(g)' <=> UIRuns(g)) /\ (Live(g)' <=> Live(g)) /\ ~UIRuns(g)
  BY <1>0, <1>1, <1>2, <1>3, <1>4 DEF UIRuns, Live
<1>7. \A g \in Futures : Unused(g) => Unused(g)'
  BY <1>0, <1>2, <1>5, <1>6, UnusedFrame DEF Types
<1>8. FlagsType'
  BY <1>0, <1>2 DEF Types, FlagsType
<1>9. PlaceInv'
  BY <1>0, <1>1, <1>2, <1>3, <1>4, NamesAssumption
  DEF PlaceInv, UIPlaces, CallerPlaces, OfFuture, Arming, Procs
<1>10. TableInv'
  BY <1>0, <1>2, TableKept
<1>11. ArmInv'
  <2>1. ArmKept
    BY <1>0, <1>1, <1>2, <1>3, <1>4, <1>7, NamesAssumption DEF ArmKept, Arming, Runnables
  <2> QED
    BY <1>0, <2>1, ArmFrame DEF Inv
<1>12. IdInv'
  <2>1. IdsKept
    BY <1>0, <1>1, <1>2, <1>3, <1>4 DEF IdsKept
  <2> QED
    BY <1>0, <1>5, <2>1, IdFrame DEF Inv
<1>13. RunsKept
  <2>1. \A g \in Futures : future[g].state # "RUNNING" \/ interrupted
    BY <1>0 DEF Inv, RunInv
  <2>2. CameRound => CameRound'
    BY <1>2 DEF CameRound
  <2> QED
    BY <1>1, <1>2, <1>3, <1>4, <1>5, <1>6, <2>1, <2>2 DEF RunsKept
<1>14. OverKept
  <2>1. \A g \in Futures : /\ Over(g)' <=> Over(g)
                           /\ AtAdded(g)' => AtAdded(g)
                           /\ InDone(g) => InDone(g)'
                           /\ AtDone(g) => AtDone(g)'
    BY <1>0, <1>1, <1>2, <1>3, <1>4 DEF Over, AtDone, AtAdded, InDone
  <2>2. \A q \in Procs : proc'[q].pc \in {"done", "taken", "freed", "added", "armed"} =>
                            proc'[q] = proc[q]
    BY <1>0, <1>3, <1>4
  <2> QED
    BY <1>2, <1>5, <1>7, <2>1, <2>2 DEF OverKept
<1>15. UNCHANGED queueVars
  BY <1>2 DEF queueVars
<1> QED
  BY <1>4, <1>5, <1>8, <1>9, <1>10, <1>11, <1>12, <1>13, <1>14, <1>15, JavaStep

LEMMA ElapseStep ==
    ASSUME Inv, Elapse
    PROVE  Inv'
<1>0. Types /\ PlaceInv /\ TableInv /\ table \in [Slots -> Entry]
  BY DEF Inv, Types, TableType
<1>1. UNCHANGED <<queue, shadow, overrun, tick_in_queue, hand, ticking, future, armed, shutdown,
                  proc, interrupted>>
  BY DEF Elapse
<1>2. ASSUME NEW s \in Slots
      PROVE  table'[s] \in Entry /\ Same(table[s], table'[s])
             /\ table'[s].in_flight = table[s].in_flight
  <2>1. table[s] \in Entry /\ Period \in Nat /\ MaxDelay \in Nat
    BY <1>0, PeriodAssumption
  <2>2. table'[s] = IF table[s].live /\ ~table[s].in_flight /\ table[s].left > -Period
                    THEN [table[s] EXCEPT !.left = table[s].left - 1] ELSE table[s]
    BY DEF Elapse
  <2>3. table[s].left > -Period => table[s].left - 1 \in (-Period)..(Period + MaxDelay)
    BY <2>1 DEF Entry
  <2> QED
    BY <2>1, <2>2, <2>3 DEF Entry, Same
<1>3. TableType' /\ Alike(table, table') /\ \A g : Ent(table', g) = Ent(table, g)
  <2>1. DOMAIN table' = Slots /\ table' = [s \in Slots |-> table'[s]]
    BY DEF Elapse
  <2>2. TableType'
    BY <1>2, <2>1 DEF TableType
  <2> QED
    BY <1>2, <2>2 DEF Alike, Same, Ent
<1>4. \A g \in Futures : (UIRuns(g)' <=> UIRuns(g)) /\ (Live(g)' <=> Live(g))
                         /\ (Over(g)' <=> Over(g)) /\ (InDone(g)' <=> InDone(g))
                         /\ (AtDone(g)' <=> AtDone(g)) /\ (AtAdded(g)' <=> AtAdded(g))
  BY <1>1 DEF UIRuns, Live, Over, InDone, AtDone, AtAdded
<1>5. \A g \in Futures : Unused(g) => Unused(g)'
  BY <1>0, <1>1, <1>3, <1>4, UnusedFrame DEF Types
<1>6. FlagsType' /\ FutureType' /\ ProcType' /\ PlaceInv'
  BY <1>0, <1>1 DEF Types, FlagsType, FutureType, ProcType, PlaceInv
<1>7. TableInv'
  BY <1>0, <1>1, <1>2, <1>3 DEF TableInv, TableTrue, EntryTrue, Same
<1>8. ArmInv'
  <2>1. ArmKept
    BY <1>1, <1>5 DEF ArmKept
  <2> QED
    BY <1>0, <2>1, ArmFrame DEF Inv
<1>9. IdInv'
  <2>1. IdsKept
    BY <1>1 DEF IdsKept
  <2> QED
    BY <1>0, <1>3, <1>6, <2>1, IdFrame DEF Inv
<1>10. RunsKept
  <2>1. \A g \in Futures : \A s \in Ent(table', g) :
           s \in Ent(table, g) /\ table'[s].in_flight = table[s].in_flight
    BY <1>2, <1>3 DEF Ent
  <2>2. /\ proc[UI].pc = "complete" /\ proc[UI].id = NoId => future[proc[UI].task].missed
        /\ proc[UI].pc = "calling" => future[proc[UI].task].state \in {"RUNNING", "CANCELLED"}
        /\ \A f \in Futures : future[f].state = "RUNNING" =>
              interrupted \/ (proc[UI].pc = "calling" /\ proc[UI].task = f)
    BY DEF Inv, RunInv
  <2>3. CameRound => CameRound'
    BY <1>1 DEF CameRound
  <2> QED
    BY <1>1, <1>4, <2>1, <2>2, <2>3 DEF RunsKept
<1>11. OverKept
  BY <1>1, <1>3, <1>4, <1>5 DEF OverKept
<1>12. UNCHANGED queueVars
  BY <1>1 DEF queueVars
<1> QED
  BY <1>3, <1>6, <1>7, <1>8, <1>9, <1>10, <1>11, <1>12, JavaStep

\* The kernel gives the UI task the first word.
LEMMA ReceiveStep ==
    ASSUME Inv, Receive
    PROVE  Inv'
<1> DEFINE v == [proc[UI] EXCEPT !.pc = "got"]
<1>0. Types /\ PlaceInv /\ TableInv /\ MirrorInv /\ RunInv /\ QueueType /\ FlagsType /\ ShadowType
      /\ UI \in Procs /\ proc[UI].pc = "recv" /\ proc[UI].id = NoId
      /\ proc[UI].task = None /\ proc \in [Procs -> Process] /\ hand = "none"
  BY DEF Inv, Procs, Receive, Types, ProcType, PlaceInv, OfFuture, Arming
<1>1. v \in Process /\ v.pc = "got" /\ v.task = None /\ v.id = NoId
  BY <1>0 DEF Process, PC
<1>2. /\ proc' = [proc EXCEPT ![UI] = v] /\ queue # <<>> /\ hand' = Head(queue)
      /\ queue' = Tail(queue)
      /\ UNCHANGED <<shadow, overrun, tick_in_queue, ticking, table, future, armed, shutdown,
                     interrupted>>
  BY <1>0 DEF Receive, Goto
<1> HIDE DEF v
<1>3. /\ proc' \in [Procs -> Process] /\ proc'[UI] = v /\ \A q \in Procs \ {UI} : proc'[q] = proc[q]
      /\ ProcType' /\ FutureType'
  BY <1>0, <1>1, <1>2 DEF ProcType, FutureType, Types
<1>4. TableType' /\ Alike(table, table') /\ \A g : Ent(table', g) = Ent(table, g)
  BY <1>0, <1>2, TableSame DEF Types
<1>5. /\ queue \in Seq(Words) /\ queue' \in Seq(Words) /\ hand' \in Words /\ hand' = queue[1]
      /\ Len(queue) \in Nat \ {0} /\ Len(queue') = Len(queue) - 1 /\ Len(queue) <= QUEUE_CAPACITY
      /\ DOMAIN queue = 1..Len(queue) /\ DOMAIN queue' = 1..Len(queue) - 1
      /\ \A i \in 1..Len(queue) - 1 : queue'[i] = queue[i + 1]
  BY <1>0, <1>2, TailFacts DEF QueueType
<1>6. QueueType' /\ ShadowType' /\ FlagsType'
  <2>1. Len(queue') <= QUEUE_CAPACITY
    <3>1. PICK m \in Nat : m = Len(queue) /\ m <= QUEUE_CAPACITY /\ Len(queue') = m - 1
      BY <1>5
    <3>2. m - 1 <= QUEUE_CAPACITY
      BY <3>1, CapacityAssumption
    <3> QED
      BY <3>1, <3>2
  <2> QED
    BY <1>0, <1>2, <1>5, <2>1 DEF QueueType, ShadowType, FlagsType
<1>7. \A w \in Words : /\ Times(queue, w) \in Nat /\ Times(queue', w) \in Nat
                       /\ Times(queue, w) = Times(queue', w) + Held(w)'
                       /\ Held(w) = 0 /\ Held(w)' \in {0, 1}
  <2> TAKE w \in Words
  <2>1. Times(queue, w) = Times(Tail(queue), w) + (IF Head(queue) = w THEN 1 ELSE 0)
    BY <1>2, <1>5, TimesTail
  <2>2. Times(queue, w) \in Nat /\ Times(queue', w) \in Nat
    BY <1>5, TimesType
  <2>3. Held(w) = 0
    BY <1>0, NamesApart DEF Held
  <2>4. Held(w)' = (IF Head(queue) = w THEN 1 ELSE 0)
    BY <1>2 DEF Held
  <2> QED
    BY <1>2, <2>1, <2>2, <2>3, <2>4
<1>8. \A g \in Futures : /\ ~UIRuns(g) /\ ~UIRuns(g)' /\ (Live(g)' <=> Live(g))
                         /\ RunsUI(g) = 0 /\ RunsUI(g)' = 0
  BY <1>0, <1>1, <1>2, <1>3 DEF UIRuns, Live, RunsUI
<1>9. \A g \in Futures : /\ Out(g)' = Out(g) /\ Out(g) \in Nat /\ OutIn(queue, g)' = Out(g)
                         /\ OutIn(queue, g) = Out(g)
                         /\ Out(g) = Times(queue, g) + Held(g)
                         /\ Times(queue, g)' + Held(g)' = Times(queue, g) + Held(g)
                         /\ Out(g) = Times(queue', g) + Held(g)'
                         /\ (Unused(g) => Unused(g)')
  <2> TAKE g \in Futures
  <2>1. Out(g) = Times(queue, g) + Held(g) + 0 /\ OutIn(queue, g) = Out(g)
    BY <1>8 DEF Out, OutIn
  <2>2. Out(g)' = Times(queue', g) + Held(g)' + 0 /\ OutIn(queue, g)' = Out(g)'
    BY <1>8 DEF Out, OutIn
  <2>3. g \in Words
    BY NamesApart
  <2>4. Out(g)' = Out(g) /\ Out(g) \in Nat /\ Out(g) = Times(queue', g) + Held(g)'
        /\ Out(g) = Times(queue, g) + Held(g)
    BY <1>7, <2>1, <2>2, <2>3
  <2>5. Unused(g) => Unused(g)'
    BY <1>4, <2>4 DEF Unused
  <2> QED
    BY <2>1, <2>2, <2>4, <2>5
<1>10. PlaceInv'
  <2>1. hand' # "none"
    BY <1>5, NamesApart
  <2> QED
    BY <1>0, <1>1, <1>3, <2>1, NamesAssumption
    DEF PlaceInv, UIPlaces, CallerPlaces, OfFuture, Arming, Procs
<1>11. MirrorInv'
  <2>1. Copies("tick")' = Copies("tick")
    <3>1. Copies("tick") = Times(queue, "tick") + Held("tick")
          /\ Copies("tick")' = Times(queue', "tick") + Held("tick")'
      BY DEF Copies, Held
    <3> QED
      BY <1>7, <3>1, NamesApart
  <2>3. overrun \/ RunnablesOf(shadow, queue)
    <3>1. Pending = queue
      BY <1>0, PendingType
    <3>2. overrun \/ RunnablesOf(shadow, Pending)
      BY <1>0, MirrorIs
    <3> QED
      BY <3>1, <3>2
  <2>4. <<hand'>> \o queue' = queue
    <3>1. <<hand'>> \in Seq(Words) /\ Len(<<hand'>>) = 1 /\ <<hand'>>[1] = hand'
      BY <1>5
    <3>2. /\ <<hand'>> \o queue' \in Seq(Words) /\ Len(<<hand'>> \o queue') = 1 + Len(queue')
          /\ \A i \in 1..1 + Len(queue') :
                (<<hand'>> \o queue')[i] = IF i <= 1 THEN <<hand'>>[i] ELSE queue'[i - 1]
      BY <1>5, <3>1, ConcatProperties
    <3>3. Len(<<hand'>> \o queue') = Len(queue)
      BY <1>5, <3>2
    <3>4. \A i \in 1..Len(queue) : (<<hand'>> \o queue')[i] = queue[i]
      BY <1>5, <3>1, <3>2
    <3> QED
      BY <1>5, <3>2, <3>3, <3>4, SeqEqual
  <2>5. hand' # "none"
    BY <1>5, NamesApart
  <2>6. Copies("tick") = IF tick_in_queue THEN 1 ELSE 0
    BY <1>0 DEF MirrorInv, TickFlagExact
  <2> QED
    BY <1>2, <2>1, <2>3, <2>4, <2>5, <2>6 DEF MirrorInv, TickFlagExact, ShadowExact
<1>12. TableInv'
  BY <1>0, <1>2, TableKept
<1>13. ArmInv'
  <2>1. ArmKept
    BY <1>0, <1>1, <1>2, <1>3, <1>9, NamesAssumption DEF ArmKept, Arming, Runnables
  <2> QED
    BY <1>0, <2>1, ArmFrame DEF Inv
<1>14. IdInv'
  <2>1. IdsKept
    BY <1>0, <1>1, <1>2, <1>3 DEF IdsKept
  <2> QED
    BY <1>0, <1>4, <2>1, IdFrame DEF Inv
<1>15. RunInv'
  <2>0. CameRound => CameRound'
    BY <1>2 DEF CameRound
  <2>1. ASSUME RunCount, NEW f \in Futures
        PROVE  /\ RunBounds(queue, f)' /\ Rested(table, queue, f)'
               /\ OneBehind(queue, f)' /\ Waits(table, queue, f)'
    <3>1. /\ RunBounds(queue, f) /\ Rested(table, queue, f)
          /\ OneBehind(queue, f) /\ Waits(table, queue, f)
      BY <2>1 DEF RunCount
    <3>2. Single(f)' <=> Single(f)
      BY <1>2 DEF Single
    <3>3. RunBounds(queue, f)'
      BY <1>9, <3>1, <3>2 DEF RunBounds
    <3>4. Rested(table, queue, f)'
      BY <1>2, <1>4, <1>9, <3>1, <3>2 DEF Rested
    <3>5. Waits(table, queue, f)'
      BY <1>2, <1>4, <1>8, <1>9, <3>1 DEF Waits
    <3>6. OneBehind(queue, f)'
      <4>1. \A i, j, k \in DOMAIN queue' :
              i < j /\ j < k /\ queue'[i] = "tick" => ~(queue'[j] = f /\ queue'[k] = f)
        <5> TAKE i, j, k \in DOMAIN queue'
        <5> HAVE i < j /\ j < k /\ queue'[i] = "tick"
        <5>1. /\ i + 1 \in DOMAIN queue /\ j + 1 \in DOMAIN queue /\ k + 1 \in DOMAIN queue
              /\ i + 1 < j + 1 /\ j + 1 < k + 1 /\ queue'[i] = queue[i + 1]
              /\ queue'[j] = queue[j + 1] /\ queue'[k] = queue[k + 1]
          BY <1>5
        <5> QED
          BY <3>1, <5>1 DEF OneBehind
      <4> QED
        BY <4>1 DEF OneBehind
    <3> QED
      BY <3>3, <3>4, <3>5, <3>6
  <2>2. RunCount /\ (hand = "tick" \/ proc[UI].pc = "tick")' => \A f \in Futures : Out(f)' <= 1
    <3>1. SUFFICES ASSUME RunCount, hand' = "tick", NEW f \in Futures PROVE Out(f) <= 1
      BY <1>1, <1>3, <1>9
    <3>2. OneBehind(queue, f)
      BY <3>1 DEF RunCount
    <3>3. \A i, j \in DOMAIN queue' : i < j => ~(queue'[i] = f /\ queue'[j] = f)
      <4> TAKE i, j \in DOMAIN queue'
      <4> HAVE i < j
      <4>1. /\ 1 \in DOMAIN queue /\ i + 1 \in DOMAIN queue /\ j + 1 \in DOMAIN queue
            /\ 1 < i + 1 /\ i + 1 < j + 1 /\ queue[1] = "tick"
            /\ queue'[i] = queue[i + 1] /\ queue'[j] = queue[j + 1]
        BY <1>5, <3>1
      <4> QED
        BY <3>2, <4>1 DEF OneBehind
    <3>4. Times(queue', f) <= 1
      BY <1>5, <3>3, TimesOnce
    <3>5. Held(f)' = 0
      BY <3>1, NamesApart DEF Held
    <3>6. Times(queue', f) \in Nat
      BY <1>7, NamesApart
    <3> QED
      BY <1>9, <3>4, <3>5, <3>6
  <2>3. proc'[UI].pc = "got"
    BY <1>1, <1>3
  <2>4. \A f \in Futures : future[f].state = "RUNNING" => interrupted
    BY <1>0 DEF RunInv
  <2>5. RunCount => RunCount'
    BY <2>1, <2>2, <2>3 DEF RunCount
  <2> QED
    BY <1>0, <1>2, <2>0, <2>3, <2>4, <2>5 DEF RunInv
<1>16. OverInv'
  <2>1. \A g \in Futures : /\ Over(g)' <=> Over(g)
                           /\ AtAdded(g)' => AtAdded(g)
                           /\ InDone(g) => InDone(g)'
                           /\ AtDone(g) => AtDone(g)'
    BY <1>0, <1>1, <1>2, <1>3 DEF Over, AtDone, AtAdded, InDone
  <2>2. \A q \in Procs : proc'[q].pc \in {"done", "taken", "freed", "added", "armed"} =>
                            proc'[q] = proc[q]
    BY <1>0, <1>1, <1>3
  <2>3. OverKept
    BY <1>2, <1>4, <1>9, <2>1, <2>2 DEF OverKept
  <2> QED
    BY <1>0, <1>10, <2>3, OverFrame DEF Inv
<1> QED
  BY <1>3, <1>4, <1>6, <1>10, <1>11, <1>12, <1>13, <1>14, <1>15, <1>16 DEF Inv, Types

-----------------------------------------------------------------------------
(* The UI task looks at the word it has popped. *)

\* The shadow and the tick flag follow the word.
LEMMA LookMirror ==
    ASSUME Inv, recv_blocking
    PROVE  /\ QueueType' /\ ShadowType' /\ MirrorInv'
           /\ hand = "tick" => Times(queue, "tick") = 0
<1>1. QueueType /\ ShadowType /\ FlagsType /\ MirrorInv /\ hand # "none" /\ hand \in Words
      /\ tick_in_queue \in BOOLEAN
  BY DEF Inv, Types, PlaceInv, recv_blocking, FlagsType
<1>2. /\ hand' = "none" /\ queue' = queue /\ overrun' = overrun
      /\ tick_in_queue' <=> tick_in_queue /\ hand # "tick"
      /\ shadow' = IF hand \in Runnables THEN shadow_remove(shadow, hand) ELSE shadow
  BY DEF recv_blocking
<1>3. Pending \in Seq(Words) /\ Pending # <<>> /\ Head(Pending) = hand /\ Tail(Pending) = queue
  BY <1>1, PendingType
<1>4. /\ Copies("tick") = (IF tick_in_queue THEN 1 ELSE 0)
      /\ overrun \/ RunnablesOf(shadow, Pending)
      /\ Copies("tick") = Times(queue, "tick") + Held("tick") /\ Times(queue, "tick") \in Nat
  BY <1>1, MirrorIs
<1>5. QueueType'
  BY <1>1, <1>2 DEF QueueType
<1>6. ShadowType'
  <2>1. shadow \in Seq(Runnables) /\ Len(shadow) \in Nat /\ Len(shadow) <= QUEUE_CAPACITY
        /\ QUEUE_CAPACITY \in Nat
    BY <1>1, CapacityAssumption DEF ShadowType
  <2>2. /\ shadow_remove(shadow, hand) \in Seq(Runnables)
        /\ Len(shadow_remove(shadow, hand)) <= Len(shadow)
    BY <2>1, ShadowRemoveType
  <2>3. PICK m \in Nat : m = Len(shadow_remove(shadow, hand))
    BY <2>2
  <2>4. shadow' \in Seq(Runnables) /\ Len(shadow') <= QUEUE_CAPACITY
    BY <1>2, <2>1, <2>2, <2>3
  <2> QED
    BY <2>4 DEF ShadowType
<1>7. Held("tick") = IF hand = "tick" THEN 1 ELSE 0
  BY DEF Held
<1>8. Times(queue, "tick") = IF tick_in_queue /\ hand # "tick" THEN 1 ELSE 0
  BY <1>1, <1>4, <1>7
<1>9. Copies("tick")' = IF tick_in_queue' THEN 1 ELSE 0
  <2>1. Copies("tick")' = Times(queue, "tick") + 0
    BY <1>2 DEF Copies
  <2> QED
    BY <1>2, <1>4, <1>8, <2>1
<1>10. overrun \/ RunnablesOf(shadow', queue)
  <2>1. SUFFICES ASSUME RunnablesOf(shadow, Pending) PROVE RunnablesOf(shadow', queue)
    BY <1>4
  <2>2. shadow \in Seq(Runnables)
    BY <1>1 DEF ShadowType
  <2>3. CASE hand \in Runnables
    <3>1. shadow # <<>> /\ shadow[1] = hand /\ RunnablesOf(Tail(shadow), queue)
      BY <1>3, <2>1, <2>2, <2>3, EmbedsPop, TailFacts
    <3>2. shadow' = Tail(shadow)
      BY <1>2, <2>2, <2>3, <3>1, ShadowRemoveType
    <3> QED
      BY <3>1, <3>2
  <2>4. CASE hand \notin Runnables
    BY <1>2, <1>3, <2>1, <2>2, <2>4, EmbedsPassed
  <2> QED
    BY <2>3, <2>4
<1>11. MirrorInv'
  <2>1. <<>> \o queue = queue
    BY <1>1 DEF QueueType
  <2> QED
    BY <1>2, <1>9, <1>10, <2>1 DEF MirrorInv, TickFlagExact, ShadowExact
<1> QED
  BY <1>5, <1>6, <1>8, <1>11

\* It looks at the word, under the run lock.
LEMMA LookStep ==
    ASSUME Inv, recv_blocking
    PROVE  Inv'
<1> DEFINE task == IF hand \in Runnables THEN hand ELSE None
           v == [proc[UI] EXCEPT !.pc = TurnOf(hand), !.task = task]
<1>0. Types /\ PlaceInv /\ TableInv /\ RunInv /\ QueueType /\ FlagsType
      /\ UI \in Procs /\ proc[UI].pc = "got" /\ proc[UI].id = NoId
      /\ proc[UI].task = None /\ proc \in [Procs -> Process] /\ hand # "none" /\ hand \in Words
  BY DEF Inv, Procs, recv_blocking, Types, ProcType, PlaceInv, OfFuture, Arming, FlagsType
<1>1. /\ hand \in Futures => TurnOf(hand) = "run" /\ task = hand
      /\ hand \in Plain => TurnOf(hand) = "call" /\ task = hand
      /\ hand = "tick" => TurnOf(hand) = "tick" /\ task = None
      /\ hand = "wake" => TurnOf(hand) = "turn" /\ task = None
      /\ hand \in Futures \/ hand \in Plain \/ hand = "tick" \/ hand = "wake"
      /\ TurnOf(hand) \in {"run", "call", "tick", "turn"}
      /\ TurnOf(hand) \in PC /\ task \in Runnables \cup {None}
  <2>1. hand \in Futures \/ hand \in Plain \/ hand = "tick" \/ hand = "wake"
    BY <1>0 DEF Words, Runnables
  <2>2. /\ hand \in Futures => TurnOf(hand) = "run" /\ task = hand
        /\ hand \in Plain => TurnOf(hand) = "call" /\ task = hand
    BY NamesAssumption DEF TurnOf, Runnables
  <2>3. /\ hand = "tick" => TurnOf(hand) = "tick" /\ task = None
        /\ hand = "wake" => TurnOf(hand) = "turn" /\ task = None
    BY NamesAssumption DEF TurnOf, Runnables
  <2>4. TurnOf(hand) \in {"run", "call", "tick", "turn"} /\ task \in Runnables \cup {None}
    BY <2>1, <2>2, <2>3
  <2> QED
    BY <2>1, <2>2, <2>3, <2>4 DEF PC
<1>2. v \in Process /\ v.pc = TurnOf(hand) /\ v.task = task /\ v.id = NoId
  BY <1>0, <1>1 DEF Process
<1>3. /\ proc' = [proc EXCEPT ![UI] = v] /\ hand' = "none" /\ queue' = queue
      /\ tick_in_queue' = (tick_in_queue /\ hand # "tick")
      /\ UNCHANGED <<overrun, ticking, table, future, armed, shutdown, interrupted>>
  BY <1>0 DEF recv_blocking
<1>4. v.pc = "run" <=> hand \in Futures
  BY <1>1, <1>2, NamesAssumption DEF Runnables
<1>5. /\ v.pc \in {"run", "call", "tick", "turn"}
      /\ v.pc = "call" <=> hand \in Plain
      /\ v.pc = "tick" <=> hand = "tick"
      /\ v.task = IF hand \in Runnables THEN hand ELSE None
  BY <1>1, <1>2, NamesAssumption DEF Runnables
<1> HIDE DEF v, task
<1>6. /\ proc' \in [Procs -> Process] /\ proc'[UI] = v /\ \A q \in Procs \ {UI} : proc'[q] = proc[q]
      /\ ProcType' /\ FutureType' /\ FlagsType'
  BY <1>0, <1>2, <1>3 DEF ProcType, FutureType, Types, FlagsType
<1>7. TableType' /\ Alike(table, table') /\ \A g : Ent(table', g) = Ent(table, g)
  BY <1>0, <1>3, TableSame DEF Types
<1>8. \A g \in Futures : /\ ~UIRuns(g) /\ (UIRuns(g)' <=> hand = g) /\ (Live(g)' <=> Live(g))
                         /\ Held(g)' = 0
  <2> TAKE g \in Futures
  <2>1. ~UIRuns(g) /\ (Live(g)' <=> Live(g))
    BY <1>0, <1>3 DEF UIRuns, Live
  <2>2. UIRuns(g)' <=> hand = g
    BY <1>4, <1>5, <1>6, NamesApart DEF UIRuns, Runnables
  <2>3. Held(g)' = 0
    BY <1>3, NamesApart DEF Held
  <2> QED
    BY <2>1, <2>2, <2>3
<1>9. \A g \in Futures : /\ Out(g)' = Out(g) /\ Out(g) \in Nat /\ OutIn(queue, g)' = Out(g)
                         /\ OutIn(queue, g) = Out(g)
                         /\ Times(queue, g) \in Nat /\ Times(queue', g) = Times(queue, g)
                         /\ Held(g) = IF UIRuns(g)' THEN 1 ELSE 0
                         /\ (Unused(g) => Unused(g)')
  <2> TAKE g \in Futures
  <2>1. Held(g) = IF UIRuns(g)' THEN 1 ELSE 0
    BY <1>8 DEF Held
  <2>2. RunsUI(g) = 0 /\ RunsUI(g)' = IF UIRuns(g)' THEN 1 ELSE 0
    BY <1>8 DEF RunsUI
  <2>3. Times(queue, g) \in Nat
    BY <1>0, OutType
  <2>4. Out(g) = Times(queue, g) + Held(g) + RunsUI(g) /\ OutIn(queue, g) = Out(g)
    BY DEF Out, OutIn
  <2>5. Out(g)' = Times(queue, g) + Held(g)' + RunsUI(g)' /\ OutIn(queue, g)' = Out(g)'
    BY <1>3 DEF Out, OutIn
  <2>6. Out(g)' = Out(g) /\ Out(g) \in Nat
    BY <1>8, <2>1, <2>2, <2>3, <2>4, <2>5
  <2>7. Unused(g) => Unused(g)'
    BY <1>7, <2>6 DEF Unused
  <2> QED
    BY <1>3, <2>1, <2>3, <2>4, <2>5, <2>6, <2>7
<1>10. PlaceInv'
  <2>1. proc'[UI].pc \in UIPlaces /\ \A c \in Callers : proc'[c].pc \in CallerPlaces
    BY <1>0, <1>5, <1>6, NamesAssumption DEF PlaceInv, UIPlaces, Procs
  <2>2. hand' # "none" <=> proc'[UI].pc = "got"
    BY <1>3, <1>5, <1>6
  <2>3. /\ v.pc \in OfFuture => v.task \in Futures
        /\ v.pc = "call" => v.task \in Plain
        /\ v.pc \notin OfFuture \cup {"call"} => v.task = None
        /\ v.pc \notin {"armed", "taken", "complete"} => v.id = NoId
        /\ v.pc = "armed" => v.id # NoId
    BY <1>2, <1>4, <1>5, NamesApart DEF OfFuture, Arming, Runnables
  <2> QED
    BY <1>0, <1>6, <2>1, <2>2, <2>3 DEF PlaceInv
<1>11. QueueType' /\ ShadowType' /\ MirrorInv' /\ (hand = "tick" => Times(queue, "tick") = 0)
  BY LookMirror
<1>12. TableInv'
  BY <1>0, <1>3, TableKept
<1>13. ArmInv'
  <2>1. \A f \in Futures : future[f].state = "none" => hand # f
    <3> TAKE f \in Futures
    <3> HAVE future[f].state = "none"
    <3>1. Out(f) = 0
      BY DEF Inv, ArmInv, Unused
    <3>2. Times(queue, f) \in Nat /\ Out(f) = Times(queue, f) + Held(f) + RunsUI(f)
          /\ Held(f) \in {0, 1} /\ RunsUI(f) \in {0, 1}
      BY <1>0, OutType
    <3>3. Held(f) = 0
      BY <3>1, <3>2
    <3> QED
      BY <3>3 DEF Held
  <2>2. \A f \in Futures : future'[f].state = "none" =>
                \A p \in Procs : proc'[p].task = f => proc[p].task = f
    BY <1>3, <1>5, <1>6, <2>1, NamesApart
  <2>3. \A p \in Procs : proc'[p].pc \in Arming => proc'[p] = proc[p]
    BY <1>5, <1>6 DEF Arming
  <2>4. \A p \in Procs : proc'[p].id = NoId \/ proc'[p] = proc[p]
    BY <1>2, <1>6
  <2>5. ArmKept
    BY <1>3, <1>9, <2>2, <2>3, <2>4 DEF ArmKept, Arming
  <2> QED
    BY <1>0, <2>5, ArmFrame DEF Inv
<1>14. IdInv'
  <2>1. IdsKept
    BY <1>2, <1>3, <1>6 DEF IdsKept
  <2> QED
    BY <1>0, <1>7, <2>1, IdFrame DEF Inv
<1>15. RunInv'
  <2>0. CameRound => CameRound'
    BY <1>3 DEF CameRound
  <2>1. ASSUME RunCount, NEW f \in Futures
        PROVE  /\ RunBounds(queue, f)' /\ Rested(table, queue, f)'
               /\ OneBehind(queue, f)' /\ Waits(table, queue, f)'
    <3>1. /\ RunBounds(queue, f) /\ Rested(table, queue, f)
          /\ OneBehind(queue, f) /\ Waits(table, queue, f)
      BY <2>1 DEF RunCount
    <3>2. Single(f)' <=> Single(f)
      BY <1>3 DEF Single
    <3>3. RunBounds(queue, f)'
      BY <1>9, <3>1, <3>2 DEF RunBounds
    <3>4. Rested(table, queue, f)'
      BY <1>3, <1>7, <1>9, <3>1, <3>2 DEF Rested
    <3>5. Waits(table, queue, f)'
      BY <1>3, <1>7, <1>8, <1>9, <3>1 DEF Waits
    <3>6. OneBehind(queue, f)'
      BY <1>3, <3>1 DEF OneBehind
    <3> QED
      BY <3>3, <3>4, <3>5, <3>6
  <2>2. RunCount /\ hand = "tick" => \A f \in Futures : Out(f)' <= 1 /\ NoneBehind(queue, f)'
    <3> HAVE RunCount /\ hand = "tick"
    <3> TAKE f \in Futures
    <3>1. Out(f)' <= 1
      BY <1>9 DEF RunCount
    <3>2. \A i \in DOMAIN queue : queue[i] # "tick"
      BY <1>0, <1>11, TimesType DEF QueueType
    <3> QED
      BY <1>3, <3>1, <3>2 DEF NoneBehind
  <2>3. proc'[UI].pc \notin {"complete", "calling"} /\ hand' # "tick"
        /\ (proc'[UI].pc = "tick" <=> hand = "tick")
    BY <1>3, <1>5, <1>6
  <2>4. \A f \in Futures : future[f].state = "RUNNING" => interrupted
    BY <1>0 DEF RunInv
  <2>5. RunCount => RunCount'
    BY <2>1, <2>2, <2>3 DEF RunCount
  <2> QED
    BY <1>0, <1>3, <2>0, <2>3, <2>4, <2>5 DEF RunInv
<1>16. OverInv'
  <2>1. \A g \in Futures : /\ Over(g)' <=> Over(g)
                           /\ AtAdded(g)' => AtAdded(g)
                           /\ InDone(g) => InDone(g)'
                           /\ AtDone(g) => AtDone(g)'
    BY <1>0, <1>3, <1>5, <1>6 DEF Over, AtDone, AtAdded, InDone
  <2>2. \A q \in Procs : proc'[q].pc \in {"done", "taken", "freed", "added", "armed"} =>
                            proc'[q] = proc[q]
    BY <1>5, <1>6
  <2>3. OverKept
    BY <1>3, <1>7, <1>9, <2>1, <2>2 DEF OverKept
  <2> QED
    BY <1>0, <1>10, <2>3, OverFrame DEF Inv
<1> QED
  BY <1>6, <1>7, <1>10, <1>11, <1>12, <1>13, <1>14, <1>15, <1>16 DEF Inv, Types

-----------------------------------------------------------------------------
(* A tick is served: what is due is posted. *)
LEMMA FireStep ==
    ASSUME Inv, fire_due
    PROVE  Inv'
<1> DEFINE v == [proc[UI] EXCEPT !.pc = "turn"]
<1>0. Types /\ PlaceInv /\ TableInv /\ RunInv /\ MirrorInv /\ QueueType /\ FlagsType
      /\ UI \in Procs /\ proc[UI].pc = "tick" /\ proc[UI].id = NoId
      /\ proc[UI].task = None /\ proc \in [Procs -> Process] /\ hand = "none"
  BY DEF Inv, Procs, fire_due, Types, ProcType, PlaceInv, OfFuture, Arming
<1>1. v \in Process /\ v.pc = "turn" /\ v.task = None /\ v.id = NoId
  BY <1>0 DEF Process, PC
<1>2. PICK a : a = Swept[SLOT_CAPACITY]
  OBVIOUS
<1>3. /\ table' = a.table /\ queue' = a.queue /\ shadow' = a.shadow /\ overrun' = a.overrun
      /\ proc' = [proc EXCEPT ![UI] = v]
      /\ future' = Aged(table')
      /\ UNCHANGED <<tick_in_queue, hand, ticking, armed, shutdown, interrupted>>
  BY <1>2 DEF fire_due, Goto
<1> HIDE DEF v
<1>4. FireInv(a, SLOT_CAPACITY)
  BY <1>0, <1>2, SweepEnds
<1>5. /\ a \in Acc /\ QueueSwept(a) /\ TableSwept(a)
      /\ CameRound \/ \A f \in Futures : RunsSwept(a, f)
  BY <1>4 DEF FireInv
<1>6. /\ proc' \in [Procs -> Process] /\ proc'[UI] = v /\ \A q \in Procs \ {UI} : proc'[q] = proc[q]
      /\ ProcType'
  BY <1>0, <1>1, <1>3 DEF ProcType
<1>7. QueueType' /\ ShadowType' /\ FlagsType' /\ TableType'
  BY <1>0, <1>3, <1>5
  DEF QueueType, ShadowType, FlagsType, TableType, Acc, QueueSwept, Entry
<1>8. /\ \A f \in Futures : Ent(table', f) \subseteq Ent(table, f)
      /\ \A f \in Futures : Ent(table, f) = {} => Times(queue', f) = Times(queue, f)
  BY <1>3, <1>5 DEF TableSwept
<1>15. /\ IdInv' /\ FutureType' /\ (CameRound => CameRound')
       /\ \A g \in Futures : /\ future'[g].state = future[g].state
                             /\ future'[g].kind = future[g].kind
                             /\ future'[g].id = future[g].id
                             /\ future'[g].missed = future[g].missed
  <2>1. \A p \in Procs : proc'[p].id = proc[p].id /\ proc'[p].task = proc[p].task
    BY <1>0, <1>1, <1>6
  <2>2. FreedSome(table, table')
    BY <1>3, <1>5 DEF TableSwept
  <2> QED
    BY <1>0, <1>3, <1>7, <2>1, <2>2, IdAged DEF Inv
<1>9. \A g \in Futures : /\ ~UIRuns(g) /\ ~UIRuns(g)' /\ (Live(g)' <=> Live(g))
                         /\ (Single(g)' <=> Single(g)) /\ Held(g)' = 0
  BY <1>0, <1>1, <1>3, <1>6, <1>15, NamesApart DEF UIRuns, Live, Single, Held
<1>10. \A g \in Futures : /\ Out(g)' = Times(queue', g) /\ OutIn(queue, g)' = Times(queue', g)
                          /\ Out(g) = Times(queue, g)
                          /\ Times(queue', g) \in Nat
                          /\ (Unused(g) => Unused(g)')
  <2> TAKE g \in Futures
  <2>1. OutIn(queue, g) = Times(queue, g) /\ Times(queue, g) \in Nat
    BY <1>0, NothingHeld DEF QueueType
  <2>2. Times(queue', g) \in Nat
    BY <1>7, TimesType DEF QueueType
  <2>3. Held(g)' = 0 /\ RunsUI(g)' = 0
    BY <1>9 DEF RunsUI
  <2>4. OutIn(queue, g)' = Times(queue', g) + Held(g)' + RunsUI(g)'
    BY DEF OutIn
  <2>5. OutIn(queue, g)' = Times(queue', g)
    BY <2>2, <2>3, <2>4
  <2>6. Out(g)' = OutIn(queue, g)' /\ Out(g) = OutIn(queue, g)
    BY DEF Out
  <2>7. Unused(g) => Unused(g)'
    BY <1>8, <2>1, <2>5, <2>6 DEF Unused
  <2> QED
    BY <2>1, <2>2, <2>5, <2>6, <2>7
<1>11. PlaceInv'
  BY <1>0, <1>1, <1>3, <1>6, NamesAssumption
  DEF PlaceInv, UIPlaces, CallerPlaces, OfFuture, Arming, Procs
<1>12. MirrorInv'
  <2>1. Copies("tick") = Times(queue, "tick") + 0
    BY <1>0 DEF Copies
  <2>2. Copies("tick")' = Times(queue', "tick") + 0
    BY <1>0, <1>3 DEF Copies
  <2>3. Times(queue', "tick") = Times(queue, "tick")
    BY <1>3, <1>5 DEF QueueSwept
  <2>4. Copies("tick")' = IF tick_in_queue' THEN 1 ELSE 0
    BY <1>0, <1>3, <2>1, <2>2, <2>3 DEF MirrorInv, TickFlagExact
  <2>5. overrun' \/ RunnablesOf(shadow', queue')
    BY <1>3, <1>5 DEF QueueSwept
  <2>6. <<>> \o queue' = queue'
    BY <1>7 DEF QueueType
  <2>7. hand' = "none"
    BY <1>0, <1>3
  <2> QED
    BY <2>4, <2>5, <2>6, <2>7 DEF MirrorInv, TickFlagExact, ShadowExact
<1>13. TableInv'
  <2>1. TableTrue(a.table)
    BY <1>5 DEF TableSwept
  <2> QED
    BY <1>3, <1>15, <2>1 DEF TableInv, TableTrue, EntryTrue
<1>14. ArmInv'
  <2>1. ArmKept
    BY <1>0, <1>1, <1>3, <1>6, <1>10, <1>15, NamesAssumption DEF ArmKept, Arming, Runnables
  <2> QED
    BY <1>0, <2>1, ArmFrame DEF Inv
<1>16. RunInv'
  <2>1. ASSUME ~CameRound, NEW f \in Futures
        PROVE  /\ RunBounds(queue, f)' /\ Rested(table, queue, f)'
               /\ OneBehind(queue, f)' /\ Waits(table, queue, f)'
    <3>1. /\ Times(a.queue, f) <= IF Single(f) THEN 1 ELSE 2
          /\ \A s \in Ent(a.table, f) : Single(f) /\ ~a.table[s].in_flight => Times(a.queue, f) = 0
          /\ OneBehind(a.queue, f)
          /\ \A s \in Ent(a.table, f) : a.table[s].in_flight /\ ~interrupted =>
                Times(a.queue, f) = 1 \/ future[f].missed \/ ~Live(f)
      BY <1>5, <2>1 DEF RunsSwept
    <3>2. RunBounds(queue, f)'
      BY <1>3, <1>9, <1>10, <3>1 DEF RunBounds
    <3>3. Rested(table, queue, f)'
      BY <1>3, <1>9, <1>10, <3>1 DEF Rested
    <3>4. OneBehind(queue, f)'
      BY <1>3, <3>1 DEF OneBehind
    <3>5. Waits(table, queue, f)'
      BY <1>3, <1>9, <1>10, <1>15, <3>1 DEF Waits
    <3> QED
      BY <3>2, <3>3, <3>4, <3>5
  <2>2. hand' # "tick" /\ proc'[UI].pc = "turn"
    BY <1>0, <1>1, <1>3, <1>6
  <2>3. \A f \in Futures : future'[f].state = "RUNNING" => interrupted'
    BY <1>0, <1>3, <1>15 DEF RunInv
  <2>4. ~CameRound => RunCount'
    BY <2>1, <2>2 DEF RunCount
  <2> QED
    BY <1>15, <2>2, <2>3, <2>4 DEF RunInv
<1>17. OverInv'
  <2>1. \A g \in Futures : /\ Over(g)' <=> Over(g)
                           /\ AtAdded(g)' => AtAdded(g)
                           /\ InDone(g) => InDone(g)'
                           /\ AtDone(g) => AtDone(g)'
    BY <1>0, <1>1, <1>3, <1>6, <1>15 DEF Over, AtDone, AtAdded, InDone
  <2>2. \A q \in Procs : proc'[q].pc \in {"done", "taken", "freed", "added", "armed"} =>
                            proc'[q] = proc[q]
    BY <1>1, <1>6
  <2>3. OverKept
    BY <1>3, <1>8, <1>10, <1>15, <2>1, <2>2 DEF OverKept
  <2> QED
    BY <1>0, <1>11, <2>3, OverFrame DEF Inv
<1> QED
  BY <1>6, <1>7, <1>11, <1>12, <1>13, <1>14, <1>15, <1>16, <1>17 DEF Inv, Types

-----------------------------------------------------------------------------
(* An app begins: nothing is queued, armed or under way. *)
Blank ==
    /\ queue = <<>> /\ shadow = <<>> /\ overrun = FALSE /\ tick_in_queue = FALSE /\ hand = "none"
    /\ ticking = TRUE /\ shutdown = FALSE /\ interrupted = FALSE /\ armed = {}
    /\ table \in [Slots -> Entry] /\ \A s \in Slots : ~table[s].live
    /\ future = [f \in Futures |-> Unborn]
    /\ proc = [p \in Procs |-> [Idle EXCEPT !.pc = IF p = UI THEN "turn" ELSE "idle"]]

\* An app that begins satisfies the invariant, whatever the generations are.
LEMMA BlankInv == Blank => Inv
<1> SUFFICES ASSUME Blank PROVE Inv
  OBVIOUS
<1>1. /\ Unborn \in Future /\ Unborn.state = "none" /\ Unborn.id = NoId
      /\ future = [f \in Futures |-> Unborn]
      /\ UI \in Procs /\ \A c \in Callers : c \in Procs /\ c # UI
  BY NamesAssumption, GenerationsPositive DEF Blank, Unborn, Future, Kinds, Procs
<1>2. /\ \A p \in Procs : proc[p] \in Process /\ proc[p].task = None /\ proc[p].id = NoId
                          /\ proc[p].pc = IF p = UI THEN "turn" ELSE "idle"
      /\ proc \in [Procs -> Process]
  BY DEF Blank, Idle, Process, PC
<1>3. \A f \in Futures : future[f].state = "none" /\ future[f].id = NoId
  BY <1>1
<1>4. Types
  <2>1. /\ <<>> \in Seq(Words) /\ <<>> \in Seq(Runnables) /\ Len(<<>>) = 0 /\ 0 <= QUEUE_CAPACITY
    BY EmptySeq, CapacityAssumption
  <2>2. QueueType /\ ShadowType
    BY <2>1 DEF Blank, QueueType, ShadowType
  <2>3. FlagsType /\ TableType
    BY DEF Blank, FlagsType, TableType
  <2>4. FutureType
    BY <1>1 DEF FutureType
  <2> QED
    BY <1>2, <2>2, <2>3, <2>4 DEF Types, ProcType
<1>5. PlaceInv
  <2>1. hand = "none"
    BY DEF Blank
  <2> QED
    BY <1>1, <1>2, <2>1 DEF PlaceInv, UIPlaces, CallerPlaces, OfFuture, Arming, Procs
<1>6. MirrorInv
  <2>1. Times(queue, "tick") = 0
    BY TimesEmpty DEF Blank
  <2>2. Copies("tick") = 0
    BY <2>1 DEF Copies, Blank
  <2>3. RunnablesOf(shadow, <<>> \o queue)
    BY EmbedsEmpty DEF Blank
  <2> QED
    BY <2>2, <2>3 DEF MirrorInv, TickFlagExact, ShadowExact, Blank
<1>7. TableInv
  BY DEF TableInv, TableTrue, EntryTrue, Blank
<1>8. \A f \in Futures : /\ Unused(f) /\ Out(f) = 0 /\ Times(queue, f) = 0 /\ ~UIRuns(f)
                         /\ OutIn(queue, f) = 0 /\ Ent(table, f) = {}
  <2> TAKE f \in Futures
  <2>1. Times(queue, f) = 0
    BY TimesEmpty DEF Blank
  <2>2. Held(f) = 0
    BY NamesApart DEF Held, Blank
  <2>3. ~UIRuns(f)
    BY <1>1, <1>2, NamesApart DEF UIRuns
  <2>4. OutIn(queue, f) = 0
    BY <2>1, <2>2, <2>3 DEF OutIn, RunsUI
  <2>5. Ent(table, f) = {}
    BY DEF Blank, Ent
  <2> QED
    BY <2>1, <2>3, <2>4, <2>5 DEF Unused, Out
<1>9. ArmInv
  BY <1>2, <1>3, <1>8, NamesApart DEF ArmInv, Arming
<1>10. IdInv
  BY <1>2, <1>3 DEF IdInv, Names
<1>11. RunInv
  <2>1. \A f \in Futures : /\ RunBounds(queue, f) /\ Rested(table, queue, f)
                           /\ Waits(table, queue, f)
    BY <1>8 DEF RunBounds, Rested, Waits
  <2>2. DOMAIN queue = {}
    BY EmptySeq DEF Blank
  <2>3. \A f \in Futures : OneBehind(queue, f)
    BY <2>2 DEF OneBehind
  <2>4. hand = "none"
    BY DEF Blank
  <2> QED
    BY <1>1, <1>2, <1>3, <2>1, <2>3, <2>4 DEF RunInv, RunCount
<1>12. OverInv
  <2>1. OverLeavesTable
    BY <1>3 DEF OverLeavesTable
  <2> QED
    BY <1>2, <1>3, <2>1 DEF OverInv
<1> QED
  BY <1>4, <1>5, <1>6, <1>7, <1>9, <1>10, <1>11, <1>12 DEF Inv

LEMMA InitInv == Init => Inv
<1> SUFFICES ASSUME Init PROVE Inv
  OBVIOUS
<1>1. EMPTY \in Entry /\ ~EMPTY.live
  BY GenerationsPositive, PeriodAssumption DEF EMPTY, Entry, Kinds
<1>2. Blank
  BY <1>1 DEF Init, Blank
<1> QED
  BY <1>2, BlankInv

LEMMA NextAppStep ==
    ASSUME Inv, NextApp
    PROVE  Inv'
<1>1. \A s \in Slots : /\ [EMPTY EXCEPT !.generation = table[s].generation] \in Entry
                       /\ ~[EMPTY EXCEPT !.generation = table[s].generation].live
  <2> TAKE s \in Slots
  <2>1. table[s].generation \in 0..Generations-1
    BY DEF Inv, Types, TableType, Entry
  <2>2. ASSUME NEW g \in 0..Generations-1
        PROVE  [EMPTY EXCEPT !.generation = g] \in Entry /\ ~[EMPTY EXCEPT !.generation = g].live
    <3>1. PICK e : e = EMPTY
      OBVIOUS
    <3>2. e \in Entry /\ ~e.live
      BY <3>1, GenerationsPositive, PeriodAssumption DEF EMPTY, Entry, Kinds
    <3>3. [e EXCEPT !.generation = g] \in Entry /\ ~[e EXCEPT !.generation = g].live
      BY <3>2 DEF Entry
    <3> QED
      BY <3>1, <3>3
  <2> QED
    BY <2>1, <2>2
<1>2. Blank'
  BY <1>1 DEF NextApp, Blank
<1> QED
  BY <1>2, BlankInv, PTL

-----------------------------------------------------------------------------
(* Every step keeps the invariant. *)
LEMMA CallerKeeps ==
    ASSUME Inv, NEW c \in Callers, CallerCall(c) \/ CallerStep(c)
    PROVE  Inv'
<1>1. ASSUME NEW r \in Plain, enqueue_runnable(c, r) PROVE Inv'
  BY <1>1, EnqueueRunnableStep
<1>2. ASSUME NEW f \in Futures, NEW k \in KindsOf[f], Arm(c, f, k) PROVE Inv'
  BY <1>2, ArmStep
<1>3. ASSUME NEW f \in Futures, Cancel(c, f) PROVE Inv'
  BY <1>3, CancelStep DEF Cancel
<1>4. CASE Shutdown(c)
  BY <1>4, ShutdownStep
<1>5. ASSUME NEW delay \in 0..MaxDelay, ArmSlot(c, delay) PROVE Inv'
  BY <1>5, ArmSlotStep
<1>6. CASE ArmId(c)
  BY <1>6, ArmIdStep
<1>7. CASE ArmRejected(c)
  BY <1>7, ArmRejectedStep
<1>8. CASE ShutdownNext(c)
  BY <1>8, ShutdownNextStep
<1>9. c \in Procs
  BY DEF Procs
<1>10. CASE DoneTake(c) \/ DoneFree(c) \/ finished(c)
  BY <1>9, <1>10, DoneTakeStep, DoneFreeStep, FinishedStep
<1> QED
  BY <1>1, <1>2, <1>3, <1>4, <1>5, <1>6, <1>7, <1>8, <1>10 DEF CallerCall, CallerStep

LEMMA UIKeeps ==
    ASSUME Inv, UIStep
    PROVE  Inv'
<1>1. CASE Receive \/ recv_blocking \/ fire_due \/ NextTurn
  BY <1>1, ReceiveStep, LookStep, FireStep, NextTurnStep
<1>2. CASE CallPlain \/ RunStart \/ RunEnd
  BY <1>2, CallPlainStep, RunStartStep, RunEndStep
<1>3. CASE ReportRead \/ ReportCompleted
  BY <1>3, ReportReadStep, ReportCompletedStep
<1>4. UI \in Procs
  BY DEF Procs
<1>5. CASE DoneTake(UI) \/ DoneFree(UI) \/ finished(UI)
  BY <1>4, <1>5, DoneTakeStep, DoneFreeStep, FinishedStep
<1> QED
  BY <1>1, <1>2, <1>3, <1>5 DEF UIStep

LEMMA StutterStep ==
    ASSUME Inv, UNCHANGED vars
    PROVE  Inv'
<1>1. /\ UNCHANGED queueVars /\ table' = table /\ future' = future /\ armed' = armed
      /\ shutdown' = shutdown /\ proc' = proc /\ interrupted' = interrupted /\ ticking' = ticking
  BY DEF vars, queueVars
<1>2. FlagsType' /\ TableType' /\ FutureType' /\ ProcType' /\ PlaceInv' /\ TableInv'
  BY <1>1 DEF Inv, Types, FlagsType, TableType, FutureType, ProcType, PlaceInv, TableInv,
              TableTrue, EntryTrue, queueVars
<1>3. \A f \in Futures : /\ Unused(f)' <=> Unused(f)
                         /\ UIRuns(f)' <=> UIRuns(f)
                         /\ Copies(f)' = Copies(f)
  BY <1>1 DEF Unused, Ent, Out, OutIn, Held, RunsUI, UIRuns, Copies, queueVars
<1>4. ArmInv'
  <2>1. ArmKept
    BY <1>1, <1>3 DEF ArmKept, Inv, PlaceInv, ArmInv
  <2> QED
    BY <2>1, ArmFrame DEF Inv
<1>5. IdInv'
  <2>1. Alike(table, table') /\ IdsKept
    BY <1>1, TableSame DEF Inv, Types, IdsKept
  <2> QED
    BY <1>2, <2>1, IdFrame DEF Inv
<1>6. QueueType' /\ ShadowType' /\ MirrorInv'
  BY <1>1, MirrorFrame DEF Inv
<1>7. RunInv'
  BY <1>1 DEF Inv, RunInv, RunCount, CameRound, RunBounds, Rested, OneBehind, Waits, NoneBehind, Single, OutIn, Out,
              Held, RunsUI, UIRuns, Live, Ent, queueVars
<1>8. OverInv'
  BY <1>1, <1>3 DEF Inv, OverInv, Over, OverLeavesTable, InDone, EntriesOf
<1> QED
  BY <1>2, <1>4, <1>5, <1>6, <1>7, <1>8 DEF Inv, Types

LEMMA StepInv == Inv /\ [Next]_vars => Inv'
<1> SUFFICES ASSUME Inv, [Next]_vars PROVE Inv'
  OBVIOUS
<1>1. CASE enqueue_tick
  BY <1>1, EnqueueTickStep
<1>2. CASE Stop
  BY <1>2, StopStep
<1>3. CASE Elapse
  BY <1>3, ElapseStep
<1>4. CASE UIStep
  BY <1>4, UIKeeps
<1>5. CASE Unwind
  BY <1>5, UnwindStep
<1>6. CASE NextApp
  BY <1>6, NextAppStep
<1>7. ASSUME NEW c \in Callers, CallerCall(c) \/ CallerStep(c) PROVE Inv'
  BY <1>7, CallerKeeps
<1>8. CASE UNCHANGED vars
  BY <1>8, StutterStep
<1> QED
  BY <1>1, <1>2, <1>3, <1>4, <1>5, <1>6, <1>7, <1>8 DEF Next

\* The inductive invariant of the executor.
THEOREM Invariant == Spec => []Inv
<1> QED
  BY InitInv, StepInv, PTL DEF Spec

-----------------------------------------------------------------------------
(* What the invariant says of the executor. *)
LEMMA InvType == Inv => TypeOK
<1> SUFFICES ASSUME Inv PROVE TypeOK
  OBVIOUS
<1>1. QueueType /\ ShadowType /\ FlagsType /\ TableType /\ FutureType /\ ProcType
  BY DEF Inv, Types
<1>2. queue \in BoundedSeq({"tick", "wake"} \cup Runnables, QUEUE_CAPACITY)
  <2>1. queue \in BoundedSeq(Words, QUEUE_CAPACITY)
    BY <1>1, CapacityAssumption, BoundedIs DEF QueueType
  <2> QED
    BY <2>1 DEF Words
<1>3. shadow \in BoundedSeq(Runnables, QUEUE_CAPACITY)
  BY <1>1, CapacityAssumption, BoundedIs DEF ShadowType
<1>4. hand \in {"none", "tick", "wake"} \cup Runnables
      /\ {overrun, tick_in_queue, ticking, shutdown, interrupted} \subseteq BOOLEAN
      /\ armed \subseteq Futures
  BY <1>1 DEF FlagsType, Words
<1>5. table \in [Slots -> [runnable : Futures \cup {None}, left : (-Period)..(Period + MaxDelay),
                           kind : Kinds, in_flight : BOOLEAN, live : BOOLEAN,
                           generation : 0..Generations-1]]
  BY <1>1 DEF TableType, Entry
<1>6. future \in [Futures -> [state : {"none", "NEW", "RUNNING", "DONE", "CANCELLED"},
                              kind : Kinds, id : Ids \cup {NoId}, missed : BOOLEAN,
                              age : 0..Generations]]
  BY <1>1 DEF FutureType, Future
<1>7. proc \in [Procs -> [pc : PC, task : Runnables \cup {None}, id : Ids \cup {NoId},
                          rest : SUBSET Futures]]
  BY <1>1 DEF ProcType, Process
<1> QED
  BY <1>2, <1>3, <1>4, <1>5, <1>6, <1>7 DEF TypeOK

\* Whatever preempts what, TICK_IN_QUEUE is set exactly while one tick is queued
\* or popped and not noticed (enqueue_tick, recv_blocking), and PENDING_RUNNABLES
\* holds the Runnables on their way, in order, until a push finds it full
\* (shadow_push, shadow_remove): the collector finds each, and none beyond them.
THEOREM MirrorsQueue == Spec => []QueueMirrored
<1>1. Inv => QueueMirrored
  BY InvType DEF QueueMirrored, Inv, MirrorInv
<1> QED
  BY <1>1, Invariant, PTL

LEMMA EntriesAre == \A f : EntriesOf(f) = Ent(table, f)
BY DEF EntriesOf, Ent

\* However many tasks arm, cancel and shut down while the UI task is late, an id
\* names its own slot or none though slots are reused (resolve, free), and no
\* more runs are outstanding than the kind of a task allows (fire_due,
\* completed): until the slot of an id that is held was given back as often as a
\* generation has values, and the id names an entry again that is not its own.
THEOREM EntriesAndFuturesAgree == Spec => []EntriesTrue
<1>1. Inv /\ ~CameRound => NoBurst
  <2> SUFFICES ASSUME Inv, ~CameRound, NEW f \in Futures
               PROVE  Copies(f) + (IF UIRuns(f) THEN 1 ELSE 0)
                                   =< IF future[f].kind = "FixedRate" THEN 2 ELSE 1
    BY DEF NoBurst
  <2>1. RunBounds(queue, f) /\ QueueType
    BY DEF Inv, RunInv, RunCount, Types
  <2>2. Out(f) = Times(queue, f) + Held(f) + RunsUI(f) /\ Copies(f) = Times(queue, f) + Held(f)
    BY <2>1, OutType
  <2> QED
    BY <2>1, <2>2 DEF RunBounds, Out, Single, RunsUI
<1>2. Inv /\ ~CameRound => InFlightAccounted
  <2> SUFFICES ASSUME Inv, ~CameRound, NEW f \in Futures, NEW s \in EntriesOf(f),
                      table[s].in_flight, ~interrupted
               PROVE  Copies(f) = 1 \/ UIRuns(f) \/ future[f].missed \/ ~Live(f)
    BY DEF InFlightAccounted
  <2>1. Waits(table, queue, f) /\ QueueType /\ s \in Ent(table, f)
    BY EntriesAre DEF Inv, RunInv, RunCount, Types
  <2>2. Copies(f) = Times(queue, f) + Held(f)
    BY <2>1, OutType
  <2> QED
    BY <2>1, <2>2 DEF Waits
<1>3. Inv /\ ~CameRound => IdsNameOwnEntry
  <2> SUFFICES ASSUME Inv, ~CameRound PROVE IdsNameOwnEntry
    OBVIOUS
  <2>1. TableType /\ FutureType /\ ProcType /\ IdInv /\ PlaceInv
    BY DEF Inv, Types
  <2>2. ASSUME NEW f \in Futures, NEW id \in Ids \cup {NoId}, Names(table, future[f].age, f, id),
               NEW s \in resolve(id)
        PROVE  table[s].runnable = f
    <3>1. PICK n \in Nat : n = future[f].age /\ n < Generations
      BY <2>1, GenerationsPositive DEF FutureType, Future, CameRound
    <3>2. Names(table, n, f, id)
      BY <2>2, <3>1
    <3>3. s \in Ent(table, f)
      BY <2>1, <2>2, <3>1, <3>2, ResolvedOwn
    <3> QED
      BY <3>3 DEF Ent
  <2>3. ASSUME NEW f \in Futures, NEW s \in resolve(future[f].id) PROVE table[s].runnable = f
    <3>1. Names(table, future[f].age, f, future[f].id) /\ future[f].id \in Ids \cup {NoId}
      BY <2>1 DEF IdInv, FutureType, Future
    <3> QED
      BY <2>2, <2>3, <3>1
  <2>4. ASSUME NEW p \in Procs, NEW s \in resolve(proc[p].id) PROVE table[s].runnable = proc[p].task
    <3>1. proc[p].id # NoId /\ proc[p].id \in Ids \cup {NoId}
      BY <2>1, <2>4 DEF resolve, ProcType, Process
    <3>2. PICK f \in Futures : f = proc[p].task
      BY <2>1, <3>1 DEF PlaceInv, OfFuture, Arming
    <3>3. Names(table, future[f].age, f, proc[p].id)
      BY <2>1, <3>2 DEF IdInv
    <3> QED
      BY <2>2, <2>4, <3>1, <3>2, <3>3
  <2> QED
    BY <2>3, <2>4 DEF IdsNameOwnEntry
<1>4. Inv => EntriesTrue
  BY <1>1, <1>2, <1>3 DEF EntriesTrue
<1> QED
  BY <1>4, Invariant, PTL

\* A task that is over gives its slot back once done has read its id
\* (ScheduledFutureTask.done, cancel), and after shutdown an executor whose last
\* task has been finished has nothing in the table, queued or running.
THEOREM OverMeansQuiet == Spec => []OverIsQuiet
<1>1. Inv => TerminatedIsQuiet
  <2> SUFFICES ASSUME Inv, armed = {}, NEW f \in Futures, future[f].state \in {"NEW", "RUNNING"}
               PROVE  EntriesOf(f) = {} /\ Copies(f) = 0 /\ ~UIRuns(f)
    BY DEF TerminatedIsQuiet
  <2>1. Unused(f) /\ QueueType
    BY DEF Inv, OverInv, Types
  <2>2. /\ Times(queue, f) \in Nat /\ Held(f) \in {0, 1} /\ RunsUI(f) \in {0, 1}
        /\ Out(f) = Times(queue, f) + Held(f) + RunsUI(f) /\ Copies(f) = Times(queue, f) + Held(f)
    BY <2>1, OutType
  <2>3. Ent(table, f) = {} /\ Out(f) = 0
    BY <2>1 DEF Unused
  <2>4. Copies(f) = 0 /\ RunsUI(f) = 0
    BY <2>2, <2>3
  <2> QED
    BY <2>3, <2>4, EntriesAre DEF RunsUI
<1>2. Inv => OverIsQuiet
  BY <1>1 DEF OverIsQuiet, Inv, OverInv
<1> QED
  BY <1>2, Invariant, PTL

-----------------------------------------------------------------------------
(* Nothing overtakes in the queue. *)
LEMMA PrefixIs ==
    ASSUME NEW S, NEW s \in Seq(S), NEW t \in Seq(S), Len(s) <= Len(t),
           \A i \in 1..Len(s) : t[i] = s[i]
    PROVE  IsPrefix(s, t)
<1>1. PICK n \in Nat : n = Len(s) /\ n <= Len(t)
  BY LenProperties
<1>2. SubSeq(s, 1, n) = [i \in 1..n |-> s[i]] /\ SubSeq(t, 1, n) = [i \in 1..n |-> t[i]]
  BY <1>1
<1>3. SubSeq(s, 1, n) = SubSeq(t, 1, n)
  BY <1>1, <1>2
<1> QED
  BY <1>1, <1>3 DEF IsPrefix

LEMMA AppendPrefix ==
    ASSUME NEW S, NEW s \in Seq(S), NEW e \in S
    PROVE  IsPrefix(s, Append(s, e))
<1>1. /\ Append(s, e) \in Seq(S) /\ Len(Append(s, e)) = Len(s) + 1 /\ Len(s) \in Nat
      /\ \A i \in 1..Len(s) : Append(s, e)[i] = s[i]
  BY AppendFacts
<1>2. Len(s) <= Len(Append(s, e))
  BY <1>1
<1> QED
  BY <1>1, <1>2, PrefixIs

\* Words leave the kernel queue in the order they came, one at a time, except
\* that an app's queue goes with the app (main_queue::init): what the timer,
\* execute, fire_due and a stop post goes behind all that is there.
THEOREM NothingOvertakes == Spec => InOrder
<1> DEFINE Order == \/ IsPrefix(queue, queue')
                    \/ queue # <<>> /\ queue' = Tail(queue)
                    \/ proc[UI].pc = "ended" /\ queue' = <<>>
<1>1. ASSUME Inv, Next, queue' # queue PROVE Order
  <2>0. queue \in Seq(Words)
    BY <1>1 DEF Inv, Types, QueueType
  <2>1. CASE enqueue_tick
    BY <2>0, <2>1, NamesApart, AppendPrefix DEF enqueue_tick
  <2>2. CASE Stop
    BY <1>1, <2>0, <2>2, NamesApart, AppendPrefix DEF Stop, enqueue_wake
  <2>3. CASE Receive
    BY <2>3 DEF Receive
  <2>4. CASE fire_due
    <3>1. PICK a : a = Swept[SLOT_CAPACITY]
      OBVIOUS
    <3>2. queue' = a.queue /\ proc[UI].pc = "tick"
      BY <2>4, <3>1 DEF fire_due
    <3>3. a \in Acc /\ QueueSwept(a)
      BY <1>1, <3>1, <3>2, SweepEnds DEF FireInv
    <3>4. /\ a.queue \in Seq(Words) /\ Len(queue) <= Len(a.queue)
          /\ \A i \in 1..Len(queue) : a.queue[i] = queue[i]
      BY <3>3 DEF Acc, QueueSwept
    <3>5. IsPrefix(queue, a.queue)
      BY <2>0, <3>4, PrefixIs
    <3> QED
      BY <3>2, <3>5
  <2>5. CASE NextApp
    BY <2>5 DEF NextApp
  <2>6. ASSUME NEW c \in Callers, NEW r \in Plain, enqueue_runnable(c, r) PROVE Order
    <3>1. r \in Words
      BY DEF Words, Runnables
    <3>2. queue' = Append(queue, r)
      BY <2>6 DEF enqueue_runnable
    <3>3. IsPrefix(queue, Append(queue, r))
      BY <2>0, <3>1, AppendPrefix
    <3> QED
      BY <3>2, <3>3
  <2>7. CASE Elapse \/ Unwind
    BY <1>1, <2>7 DEF Elapse, Unwind, OnlyJava
  <2>8. CASE UIStep
    <3>1. CASE recv_blocking \/ NextTurn \/ CallPlain \/ RunStart \/ RunEnd
      BY <1>1, <3>1 DEF recv_blocking, NextTurn, CallPlain, RunStart, RunEnd, OnlyJava
    <3>2. CASE ReportRead \/ ReportCompleted \/ DoneTake(UI) \/ DoneFree(UI) \/ finished(UI)
      BY <1>1, <3>2 DEF ReportRead, ReportCompleted, DoneTake, DoneFree, finished, OnlyJava
    <3> QED
      BY <2>3, <2>4, <2>8, <3>1, <3>2 DEF UIStep
  <2>9. ASSUME NEW c \in Callers, CallerStep(c) PROVE queue' = queue
    <3>1. ASSUME NEW delay \in 0..MaxDelay, ArmSlot(c, delay) PROVE queue' = queue
      BY <3>1 DEF ArmSlot, OnlyJava
    <3>2. CASE ArmId(c) \/ ArmRejected(c)
      BY <3>2 DEF ArmId, ArmRejected, OnlyJava
    <3>3. CASE ShutdownNext(c)
      BY <3>3 DEF ShutdownNext, CancelFuture, OnlyJava
    <3>4. CASE DoneTake(c) \/ DoneFree(c) \/ finished(c)
      BY <3>4 DEF DoneTake, DoneFree, finished, OnlyJava
    <3> QED
      BY <2>9, <3>1, <3>2, <3>3, <3>4 DEF CallerStep
  <2>10. ASSUME NEW c \in Callers, CallerCall(c) PROVE Order
    <3>1. ASSUME NEW f \in Futures, NEW k \in KindsOf[f], Arm(c, f, k) PROVE queue' = queue
      BY <3>1 DEF Arm, OnlyJava
    <3>2. ASSUME NEW f \in Futures, Cancel(c, f) PROVE queue' = queue
      BY <3>2 DEF Cancel, CancelFuture, OnlyJava
    <3>3. CASE Shutdown(c)
      BY <1>1, <3>3 DEF Shutdown, OnlyJava
    <3> QED
      BY <1>1, <2>6, <2>10, <3>1, <3>2, <3>3 DEF CallerCall
  <2> HIDE DEF Order
  <2> QED
    BY <1>1, <2>1, <2>2, <2>5, <2>7, <2>8, <2>9, <2>10 DEF Next
<1>2. Inv /\ [Next]_vars => [Order]_queue
  BY <1>1 DEF vars
<1> QED
  BY <1>2, Invariant, PTL DEF Spec, InOrder

=============================================================================
