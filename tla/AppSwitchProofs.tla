-------------------------- MODULE AppSwitchProofs --------------------------
(***************************************************************************)
(* Proofs about AppSwitch: what the statics of the app switch say of one   *)
(* another, for every number of packages, alarms and calls.                *)
(***************************************************************************)
EXTENDS AppSwitch, FiniteSetTheorems, WellFoundedInduction, TLAPS

Table == [Slots -> Alarm \cup {Free}]
Clock == [Elapsed : Nat, Rtc : Nat]

LEMMA Constants ==
    /\ Slots \subseteq Nat /\ Triggers \subseteq Nat /\ Offsets \subseteq Nat
    /\ MAX_WAKE_ATTEMPTS \in Nat \ {0} /\ MaxTime \in Nat /\ MaxCalls \in Nat
    /\ CAPACITY \in Nat \ {0} /\ MANIFEST_PENDING \in Nat \ {0}
    /\ None \notin Packages /\ Launcher \in Packages
    /\ Receivers \subseteq Packages /\ IsFiniteSet(Receivers)
    /\ \A listed \in Directories : listed \subseteq Packages
<1>1. IsFiniteSet(Packages)
  BY SwitchAssumption, FS_AddElement DEF Packages
<1>2. Receivers \subseteq Packages
  BY SwitchAssumption DEF Packages
<1>3. IsFiniteSet(Receivers)
  BY <1>1, <1>2, FS_Subset
<1> QED
  BY <1>2, <1>3, SwitchAssumption, TableAssumption DEF Packages, Slots

-----------------------------------------------------------------------------
(* Minima, and the rows of a table. *)
LEMMA NatLessWellFounded == IsWellFoundedOn({ss \in Nat \X Nat : ss[1] < ss[2]}, Nat)
<1>1. OpToRel(<, Nat) = {ss \in Nat \X Nat : ss[1] < ss[2]}
  BY Zenon DEF OpToRel
<1> QED
  BY <1>1, NatLessThanWellFounded, Zenon

LEMMA NatMin ==
    ASSUME NEW S \in SUBSET Nat, S # {}
    PROVE  \E x \in S : \A y \in S : x <= y
<1> DEFINE R == {ss \in Nat \X Nat : ss[1] < ss[2]}
<1>1. \A x, y \in Nat : <<y, x>> \notin R => x <= y
  OBVIOUS
<1> HIDE DEF R
<1>2. \E x \in S : \A y \in S : <<y, x>> \notin R
  BY WFMin, NatLessWellFounded, Zenon DEF R
<1> QED
  BY <1>1, <1>2, Zenon

LEMMA MinOf ==
    ASSUME NEW S \in SUBSET Nat, S # {}
    PROVE  Min(S) \in S /\ \A y \in S : Min(S) <= y
BY NatMin DEF Min

LEMMA RowType ==
    ASSUME NEW t \in Table, NEW i \in Rows(t)
    PROVE  /\ i \in Slots /\ i \in Nat /\ t[i] \in Alarm /\ t[i] # Free
           /\ t[i].owner \in Packages /\ t[i].key \in Keys /\ t[i].clock \in Clocks
           /\ t[i].at \in Nat /\ t[i].state.asked \in BOOLEAN
           /\ t[i].state.attempts \in 0..MAX_WAKE_ATTEMPTS
<1>1. i \in Slots /\ t[i] \in Alarm /\ t[i] # Free
  BY DEF Rows, Table
<1>2. ASSUME NEW e \in Alarm
      PROVE  /\ e.owner \in Packages /\ e.key \in Keys /\ e.clock \in Clocks /\ e.at \in Nat
             /\ e.state.asked \in BOOLEAN /\ e.state.attempts \in 0..MAX_WAKE_ATTEMPTS
  BY Constants DEF Alarm
<1> QED
  BY <1>1, <1>2, Constants

LEMMA EarliestOf ==
    ASSUME NEW t \in Table, NEW among \in SUBSET Rows(t), among # {}
    PROVE  Earliest(t, among) \in among
<1> DEFINE At == {t[i].at : i \in among}
<1>1. \A i \in among : i \in Slots /\ t[i] \in Alarm /\ t[i].at \in Nat /\ i \in Nat
  BY Constants DEF Rows, Table, Alarm
<1>2. PICK a \in At : \A b \in At : a <= b
  <2>1. At \in SUBSET Nat /\ At # {}
    BY <1>1
  <2> QED
    BY <2>1, NatMin
<1> DEFINE First == {i \in among : t[i].at = a}
<1>3. PICK i \in First : \A j \in First : i <= j
  <2>1. First \in SUBSET Nat /\ First # {}
    BY <1>1, <1>2
  <2> QED
    BY <2>1, NatMin
<1>4. \A j \in among : t[i].at < t[j].at \/ (t[i].at = t[j].at /\ i <= j)
  <2> SUFFICES ASSUME NEW j \in among
               PROVE  t[i].at < t[j].at \/ (t[i].at = t[j].at /\ i <= j)
    OBVIOUS
  <2>1. t[i].at = a /\ a <= t[j].at /\ t[j].at \in Nat /\ a \in Nat
    BY <1>1, <1>2, <1>3
  <2>2. t[j].at = a => i <= j
    BY <1>3
  <2> QED
    BY <2>1, <2>2
<1> HIDE DEF At, First
<1>5. i \in among
  BY <1>3 DEF First
<1> QED
  BY <1>4, <1>5 DEF Earliest

\* A horizon that is not due summarises a table with nothing to decide.
LEMMA HorizonTrue ==
    ASSUME NEW t \in Table, NEW n \in Clock, ~due(HorizonOf(t), n)
    PROVE  \A i \in Rows(t) : ~is_firing(t[i]) /\ ~is_due(t[i], n)
<1>1. \A i \in Rows(t) : ~is_firing(t[i])
  BY DEF due, HorizonOf
<1>2. \A i \in Rows(t) : t[i] \in Alarm /\ t[i].clock \in Clocks /\ t[i].at \in Nat
  BY Constants DEF Rows, Table, Alarm
<1>3. ASSUME NEW c \in Clocks, NEW i \in Rows(t), t[i].clock = c
      PROVE  ~(n[c] >= t[i].at)
  <2> DEFINE At == {t[j].at : j \in {r \in Rows(t) : ~is_firing(t[r]) /\ t[r].clock = c}}
  <2>1. At \in SUBSET Nat /\ t[i].at \in At
    BY <1>1, <1>2, <1>3
  <2>2. Min(At) \in Nat /\ Min(At) <= t[i].at
    BY <2>1, MinOf
  <2>3. EarliestOn(t, c) = Min(At)
    BY <2>1 DEF EarliestOn
  <2>4. HorizonOf(t)[c] = EarliestOn(t, c)
    BY DEF HorizonOf, Clocks
  <2>5. ~(n[c] >= Min(At))
    BY <2>2, <2>3, <2>4 DEF due, Never
  <2>6. n[c] \in Nat
    BY DEF Clock, Clocks
  <2> QED
    BY <1>2, <2>2, <2>5, <2>6
<1> QED
  BY <1>1, <1>2, <1>3 DEF is_due

LEMMA NextRunSame ==
    ASSUME NEW t \in Table
    PROVE  /\ NextRun(t) \in Table /\ Rows(NextRun(t)) = Rows(t)
           /\ \A i \in Rows(t) : NextRun(t)[i] = [t[i] EXCEPT !.state.asked = FALSE]
           /\ HorizonOf(NextRun(t)) = HorizonOf(t)
<1> DEFINE u == NextRun(t)
<1>1. \A i \in Slots : t[i] # Free => t[i] \in Alarm /\ [t[i] EXCEPT !.state.asked = FALSE] \in Alarm
  BY DEF Table, Alarm
<1>2. \A i \in Slots : u[i] = IF t[i] = Free THEN Free ELSE [t[i] EXCEPT !.state.asked = FALSE]
  BY DEF NextRun
<1>3. u \in Table
  BY <1>1 DEF NextRun, Table
<1>4. Rows(u) = Rows(t)
  BY <1>1, <1>2, FreeAssumption DEF Rows
<1>5. \A i \in Rows(t) : /\ u[i] = [t[i] EXCEPT !.state.asked = FALSE]
                         /\ u[i].at = t[i].at /\ u[i].clock = t[i].clock
                         /\ u[i].state.attempts = t[i].state.attempts
  BY <1>1, <1>2 DEF Rows, Alarm
<1> HIDE DEF u
<1>6. \A i \in Rows(t) : is_firing(u[i]) = is_firing(t[i])
  BY <1>5 DEF is_firing
<1>7. \A c \in Clocks : EarliestOn(u, c) = EarliestOn(t, c)
  <2> SUFFICES ASSUME NEW c \in Clocks PROVE EarliestOn(u, c) = EarliestOn(t, c)
    OBVIOUS
  <2>1. {r \in Rows(u) : ~is_firing(u[r]) /\ u[r].clock = c}
           = {r \in Rows(t) : ~is_firing(t[r]) /\ t[r].clock = c}
    BY <1>4, <1>5, <1>6
  <2>2. {u[i].at : i \in {r \in Rows(u) : ~is_firing(u[r]) /\ u[r].clock = c}}
           = {t[i].at : i \in {r \in Rows(t) : ~is_firing(t[r]) /\ t[r].clock = c}}
    BY <1>5, <2>1
  <2> QED
    BY <2>2 DEF EarliestOn
<1>8. HorizonOf(u) = HorizonOf(t)
  BY <1>4, <1>6, <1>7 DEF HorizonOf, Clocks
<1> QED
  BY <1>3, <1>4, <1>5, <1>8 DEF u

LEMMA InstalledSame ==
    ASSUME NEW t \in Table, NEW d
    PROVE  /\ Installed(t, d) \in Table
           /\ Rows(Installed(t, d)) = {i \in Rows(t) : t[i].owner \in d}
           /\ \A i \in Rows(Installed(t, d)) : Installed(t, d)[i] = t[i]
           /\ (\A i \in Rows(t) : t[i].owner \in d) => Installed(t, d) = t
BY DEF Installed, Table, Rows

\* decide acts on one row, or on none.
Able(t, n) == {i \in Rows(t) : is_firing(t[i]) \/ is_due(t[i], n)}
Woken(e) == [e EXCEPT !.state = Firing(e.state.attempts + 1)]

Decided(t, n, r, l, p) ==
    \/ p = [table |-> t, action |-> NoAction]
    \/ /\ ~l
       /\ \E i \in Able(t, n) :
            \/ /\ t[i].owner = r
               /\ p = [table |-> [t EXCEPT ![i] = Free],
                       action |-> [do |-> "fire", owner |-> t[i].owner]]
            \/ /\ t[i].owner # r /\ t[i].state.attempts >= MAX_WAKE_ATTEMPTS
               /\ p = [table |-> [t EXCEPT ![i] = Free], action |-> NoAction]
            \/ /\ t[i].owner # r /\ t[i].state.attempts < MAX_WAKE_ATTEMPTS
               /\ p = [table |-> [t EXCEPT ![i] = Woken(t[i])],
                       action |-> [do |-> "wake", owner |-> t[i].owner]]

LEMMA DecideOne ==
    ASSUME NEW t \in Table, NEW n, NEW r, NEW l \in BOOLEAN
    PROVE  /\ Decided(t, n, r, l, decide(t, n, r, l))
           /\ Able(t, n) = {} => decide(t, n, r, l) = [table |-> t, action |-> NoAction]
<1> DEFINE able == {i \in Rows(t) : is_firing(t[i]) \/ is_due(t[i], n)}
           i == Earliest(t, able)
           e == t[i]
           wake == [table |-> [t EXCEPT ![i].state = Firing(e.state.attempts + 1)],
                    action |-> [do |-> "wake", owner |-> e.owner]]
           nothing == [table |-> t, action |-> NoAction]
           choice ==
            CASE able = {} \/ l -> nothing
              [] able # {} /\ ~l /\ e.owner = r ->
                    [table |-> [t EXCEPT ![i] = Free], action |-> [do |-> "fire", owner |-> e.owner]]
              [] able # {} /\ ~l /\ e.owner # r ->
                    CASE e.state.asked -> nothing
                      [] ~e.state.asked /\ e.state.attempts >= MAX_WAKE_ATTEMPTS ->
                            [table |-> [t EXCEPT ![i] = Free], action |-> NoAction]
                      [] ~e.state.asked /\ e.state.attempts < MAX_WAKE_ATTEMPTS -> wake
<1>1. decide(t, n, r, l) = choice
  BY DEF decide
<1>2. able = Able(t, n)
  BY DEF Able
<1>3. CASE able = {} \/ l
  BY <1>1, <1>2, <1>3 DEF Decided
<1>4. CASE able # {} /\ ~l
  <2>1. i \in able
    BY <1>4, EarliestOf
  <2> HIDE DEF able, i
  <2>2. i \in Slots /\ e.state.asked \in BOOLEAN /\ e.state.attempts \in 0..MAX_WAKE_ATTEMPTS
    BY <1>2, <2>1, RowType DEF Able
  <2>3. [t EXCEPT ![i].state = Firing(e.state.attempts + 1)] = [t EXCEPT ![i] = Woken(e)]
    BY DEF Woken
  <2>4. CASE e.owner = r
    BY <1>1, <1>2, <1>4, <2>1, <2>4 DEF Decided
  <2>5. CASE e.owner # r /\ e.state.asked
    BY <1>1, <1>2, <1>4, <2>5 DEF Decided
  <2>6. CASE e.owner # r /\ ~e.state.asked /\ e.state.attempts >= MAX_WAKE_ATTEMPTS
    <3>1. ~(e.state.attempts < MAX_WAKE_ATTEMPTS)
      BY <2>2, <2>6, Constants
    <3>2. choice = [table |-> [t EXCEPT ![i] = Free], action |-> NoAction]
      BY <1>4, <2>6, <3>1
    <3> HIDE DEF choice
    <3> QED
      BY <1>1, <1>2, <1>4, <2>1, <2>6, <3>2 DEF Decided
  <2>7. CASE e.owner # r /\ ~e.state.asked /\ e.state.attempts < MAX_WAKE_ATTEMPTS
    <3>1. ~(e.state.attempts >= MAX_WAKE_ATTEMPTS)
      BY <2>2, <2>7, Constants
    <3>2. choice = wake
      BY <1>4, <2>7, <3>1
    <3>3. wake = [table |-> [t EXCEPT ![i] = Woken(e)], action |-> [do |-> "wake", owner |-> e.owner]]
      BY <2>3
    <3> HIDE DEF choice, wake
    <3> QED
      BY <1>1, <1>2, <1>4, <2>1, <2>7, <3>2, <3>3 DEF Decided
  <2> QED
    BY <2>2, <2>4, <2>5, <2>6, <2>7, Constants
<1> QED
  BY <1>3, <1>4

Asked(t) == {i \in Rows(t) : t[i].state.asked}

\* What a poll leaves: rows of before, of packages that are there, one of them
\* asked for at most if none was.
LEMMA PollLeaves ==
    ASSUME NEW t \in Table, NEW n, NEW r, NEW d, NEW l \in BOOLEAN,
           NEW p, p = poll(t, n, r, d, l)
    PROVE  /\ p.table \in Table
           /\ Rows(p.table) \subseteq Rows(t)
           /\ \A i \in Rows(p.table) : p.table[i].owner = t[i].owner /\ t[i].owner \in d
           /\ p.action.do = "wake" => p.action.owner \in Packages \cap d
           /\ l => Asked(p.table) \subseteq Asked(t)
           /\ \E i \in Slots : Asked(p.table) \subseteq Asked(t) \cup {i}
           /\ p.action.do = "wake" \/ Asked(p.table) \subseteq Asked(t)
<1> DEFINE u == Installed(t, d)
<1>1. /\ u \in Table /\ Rows(u) = {i \in Rows(t) : t[i].owner \in d}
      /\ \A i \in Rows(u) : u[i] = t[i]
  BY InstalledSame
<1>2. Decided(u, n, r, l, p)
  BY <1>1, DecideOne DEF poll
<1>3. Asked(u) \subseteq Asked(t)
  BY <1>1 DEF Asked
<1> HIDE DEF u
<1>4. CASE p = [table |-> u, action |-> NoAction]
  <2>1. 1 \in Slots
    BY Constants DEF Slots
  <2> QED
    BY <1>1, <1>3, <1>4, <2>1 DEF NoAction
<1>5. ASSUME NEW i \in Able(u, n), p.table = [u EXCEPT ![i] = Free],
             p.action.do # "wake"
      PROVE  /\ p.table \in Table
             /\ Rows(p.table) \subseteq Rows(u)
             /\ \A j \in Rows(p.table) : p.table[j] = u[j]
             /\ Asked(p.table) \subseteq Asked(u)
  BY <1>1, <1>5 DEF Able, Rows, Table, Asked
<1>6. ASSUME NEW i \in Able(u, n), u[i].state.attempts < MAX_WAKE_ATTEMPTS,
             p.table = [u EXCEPT ![i] = Woken(u[i])]
      PROVE  /\ p.table \in Table
             /\ Rows(p.table) \subseteq Rows(u)
             /\ \A j \in Rows(p.table) : p.table[j].owner = u[j].owner
             /\ Asked(p.table) \subseteq Asked(u) \cup {i}
             /\ i \in Slots /\ u[i].owner \in Packages \cap d
  <2>1. i \in Rows(u) /\ i \in Slots /\ u[i] \in Alarm
    BY <1>1, RowType DEF Able
  <2>2. Woken(u[i]) \in Alarm /\ Woken(u[i]).owner = u[i].owner
    <3>1. u[i].state.attempts + 1 \in 0..MAX_WAKE_ATTEMPTS
      BY <1>1, <1>6, <2>1, RowType, Constants
    <3>2. Firing(u[i].state.attempts + 1) \in [asked : BOOLEAN, attempts : 0..MAX_WAKE_ATTEMPTS]
      BY <3>1 DEF Firing
    <3> QED
      BY <2>1, <3>2 DEF Woken, Alarm
  <2>3. u[i].owner \in Packages \cap d
    BY <1>1, <2>1, RowType
  <2> QED
    BY <1>1, <1>6, <2>1, <2>2, <2>3, FreeAssumption DEF Rows, Table, Asked
<1>7. CASE ~l /\ \E i \in Able(u, n) :
                    /\ u[i].state.attempts < MAX_WAKE_ATTEMPTS
                    /\ p = [table |-> [u EXCEPT ![i] = Woken(u[i])],
                            action |-> [do |-> "wake", owner |-> u[i].owner]]
  <2>1. PICK i \in Able(u, n) :
                    /\ u[i].state.attempts < MAX_WAKE_ATTEMPTS
                    /\ p = [table |-> [u EXCEPT ![i] = Woken(u[i])],
                            action |-> [do |-> "wake", owner |-> u[i].owner]]
    BY <1>7
  <2>2. p.table = [u EXCEPT ![i] = Woken(u[i])] /\ p.action = [do |-> "wake", owner |-> u[i].owner]
    BY <2>1
  <2>3. /\ p.table \in Table /\ Rows(p.table) \subseteq Rows(u)
        /\ \A j \in Rows(p.table) : p.table[j].owner = u[j].owner
        /\ Asked(p.table) \subseteq Asked(u) \cup {i}
        /\ i \in Slots /\ u[i].owner \in Packages \cap d
    BY <1>6, <2>1, <2>2
  <2>4. p.action.do = "wake" /\ p.action.owner \in Packages \cap d
    BY <2>2, <2>3
  <2> QED
    BY <1>1, <1>3, <1>7, <2>3, <2>4
<1>8. CASE ~l /\ \E i \in Able(u, n) : p.table = [u EXCEPT ![i] = Free] /\ p.action.do # "wake"
  <2>1. PICK i \in Able(u, n) : p.table = [u EXCEPT ![i] = Free] /\ p.action.do # "wake"
    BY <1>8
  <2>2. i \in Slots
    BY <1>1, RowType DEF Able
  <2> QED
    BY <1>1, <1>3, <1>5, <1>8, <2>1, <2>2
<1>9. ASSUME ~l, NEW i \in Able(u, n),
             \/ p = [table |-> [u EXCEPT ![i] = Free], action |-> [do |-> "fire", owner |-> u[i].owner]]
             \/ p = [table |-> [u EXCEPT ![i] = Free], action |-> NoAction]
      PROVE  p.table = [u EXCEPT ![i] = Free] /\ p.action.do # "wake"
  BY <1>9 DEF NoAction
<1>10. CASE ~l /\ \E i \in Able(u, n) :
             \/ p = [table |-> [u EXCEPT ![i] = Free], action |-> [do |-> "fire", owner |-> u[i].owner]]
             \/ p = [table |-> [u EXCEPT ![i] = Free], action |-> NoAction]
  BY <1>8, <1>9, <1>10, Zenon
<1> QED
  BY <1>2, <1>4, <1>7, <1>10, Zenon DEF Decided

-----------------------------------------------------------------------------
(* Marks. *)
LEMMA MarkAll ==
    ASSUME NEW m \in SUBSET Receivers, Cardinality(m) <= MANIFEST_PENDING,
           NEW listed, NEW x \in mark_all(m, listed)
    PROVE  x \in SUBSET Receivers /\ x \subseteq m \cup listed /\ Cardinality(x) <= MANIFEST_PENDING
<1> DEFINE new == (listed \cap Receivers) \ m
           S == {Cardinality(new), MANIFEST_PENDING - Cardinality(m)}
<1>1. IsFiniteSet(m) /\ IsFiniteSet(new) /\ Cardinality(m) \in Nat /\ Cardinality(new) \in Nat
  BY Constants, FS_Subset, FS_CardinalityType
<1>2. Min(S) <= MANIFEST_PENDING - Cardinality(m)
  <2>1. S \in SUBSET Nat /\ S # {}
    BY <1>1, Constants
  <2> QED
    BY <2>1, MinOf
<1>3. PICK s \in SUBSET new : Cardinality(s) = Min(S) /\ x = m \cup s
  BY DEF mark_all, kSubset
<1> HIDE DEF S
<1>4. IsFiniteSet(s) /\ m \cap s = {} /\ Cardinality(s) \in Nat
  BY <1>1, FS_Subset, FS_CardinalityType
<1>5. Cardinality(x) = Cardinality(m) + Cardinality(s)
  <2>1. Cardinality(m \cup s) = Cardinality(m) + Cardinality(s) - Cardinality(m \cap s)
    BY <1>1, <1>4, FS_Union
  <2>2. Cardinality(m \cap s) = 0
    BY <1>4, FS_EmptySet
  <2> QED
    BY <1>1, <1>3, <1>4, <2>1, <2>2
<1> QED
  BY <1>1, <1>2, <1>3, <1>4, <1>5, Constants

LEMMA Fewer ==
    ASSUME NEW m \in SUBSET Receivers, Cardinality(m) <= MANIFEST_PENDING, NEW x \in SUBSET m
    PROVE  Cardinality(x) <= MANIFEST_PENDING
<1>1. IsFiniteSet(m)
  BY Constants, FS_Subset
<1> QED
  BY <1>1, Constants, FS_Subset, FS_CardinalityType

\* What a boot finds to run is on the flash.
LEMMA BootImage ==
    ASSUME NEW listed \in SUBSET Packages, NEW b \in boot_image(listed)
    PROVE  /\ {b.image, b.pending, b.current} \subseteq Packages \cup {None}
           /\ b.image \in listed \cup {None}
           /\ b.marked \in SUBSET Receivers /\ b.image \notin b.marked
           /\ Cardinality(b.marked) <= MANIFEST_PENDING
<1> DEFINE boots == IF listed = {} THEN {None} ELSE listed
           marks == mark_all({}, listed)
<1>1. boots \subseteq listed \cup {None}
  OBVIOUS
<1>2. Cardinality({}) = 0 /\ 0 <= MANIFEST_PENDING
  BY FS_EmptySet, Constants
<1>3. \A m \in marks : m \in SUBSET Receivers /\ Cardinality(m) <= MANIFEST_PENDING
  BY <1>2, MarkAll
<1>4. \/ b \in {[image |-> p, pending |-> None, current |-> None, marked |-> {}] : p \in boots}
      \/ b \in {[image |-> x[2], pending |-> p, current |-> x[2], marked |-> x[1] \ {x[2]}] :
                    p \in boots, x \in {y \in marks \X listed : y[2] \in y[1]}}
  BY DEF boot_image
<1> HIDE DEF boots, marks
<1>5. CASE b \in {[image |-> p, pending |-> None, current |-> None, marked |-> {}] : p \in boots}
  <2>1. PICK p \in boots : b = [image |-> p, pending |-> None, current |-> None, marked |-> {}]
    BY <1>5
  <2>2. b.image = p /\ b.pending = None /\ b.current = None /\ b.marked = {}
    BY <2>1
  <2> QED
    BY <1>1, <1>2, <2>2
<1>6. CASE b \in {[image |-> x[2], pending |-> p, current |-> x[2], marked |-> x[1] \ {x[2]}] :
                    p \in boots, x \in {y \in marks \X listed : y[2] \in y[1]}}
  <2>1. PICK p \in boots, x \in marks \X listed :
            b = [image |-> x[2], pending |-> p, current |-> x[2], marked |-> x[1] \ {x[2]}]
    BY <1>6
  <2>2. x[1] \in marks /\ x[2] \in listed
    BY <2>1
  <2>3. Cardinality(x[1] \ {x[2]}) <= MANIFEST_PENDING
    BY <1>3, <2>2, Fewer
  <2>4. /\ b.image = x[2] /\ b.current = x[2] /\ b.pending = p
        /\ b.marked = x[1] \ {x[2]}
    BY <2>1
  <2> QED
    BY <1>1, <1>3, <2>2, <2>3, <2>4
<1> QED
  BY <1>4, <1>5, <1>6

-----------------------------------------------------------------------------
(* The inductive invariant. *)

Places == {"load", "create", "turn", "alarms", "drain", "headless", "teardown", "between", "idle"}

Flags == /\ pc \in Places /\ launching \in BOOLEAN /\ seen \in BOOLEAN
         /\ moved \in BOOLEAN /\ park \in BOOLEAN

Names == /\ installed \in SUBSET Packages /\ marked \in SUBSET Receivers
         /\ image \in Packages \cup {None} /\ running \in Packages \cup {None}
         /\ pending \in Packages \cup {None} /\ current \in Packages \cup {None}

Numbers == /\ table \in Table /\ elapsed \in Nat /\ offset \in Nat
           /\ launcher_exits \in 0..2 /\ rounds \in 0..CAPACITY /\ calls \in 0..MaxCalls

TypeInv == Flags /\ Names /\ Numbers

\* What runs is what the supervisor loaded, and it is still there.
ImageInv == /\ image \in installed \cup {None}
            /\ pc \notin {"between", "idle"} => image # None
            /\ JavaRuns => running = image

\* The exits are counted of a launcher that is there; at the second, nothing runs.
IdleInv == /\ pc = "idle" => /\ image = None /\ running = None
                             /\ Launcher \notin installed \/ launcher_exits = 2
           /\ launcher_exits # 0 => Launcher \in installed
           /\ launcher_exits = 2 => pc \in {"between", "idle"} /\ image = None /\ running = None

MarkInv == image \notin marked /\ Cardinality(marked) <= MANIFEST_PENDING

TableInv == /\ horizon = HorizonOf(table)
            /\ seen => \A i \in Rows(table) : table[i].owner \in installed

\* The row that was asked for is of the run whose end it asks for.
AskedInv == /\ \E i \in Slots : Asked(table) \subseteq {i}
            /\ Asked(table) # {} => (InLoop /\ launching) \/ pc \in {"between", "load"}

IInv == TypeInv /\ ImageInv /\ IdleInv /\ MarkInv /\ TableInv /\ AskedInv

\* Neither marks nor deliveries name the running package after a refresh.
LEMMA Refresh ==
    ASSUME TypeInv, ImageInv, MarkInv, NEW m \in refreshed, running = image \/ pc = "between"
    PROVE  m \in SUBSET Receivers /\ Cardinality(m) <= MANIFEST_PENDING
           /\ (running = image => image \notin m)
BY MarkAll DEF refreshed, TypeInv, Names, MarkInv

\* What the table of a poll is, at the state it is taken.
LEMMA Polled ==
    ASSUME TypeInv, NEW p, p = poll(table, now, running, installed, launching)
    PROVE  /\ p.table \in Table
           /\ Rows(p.table) \subseteq Rows(table)
           /\ \A i \in Rows(p.table) : p.table[i].owner \in installed
           /\ p.action.do = "wake" => p.action.owner \in Packages
           /\ launching => Asked(p.table) \subseteq Asked(table)
           /\ \E i \in Slots : Asked(p.table) \subseteq Asked(table) \cup {i}
           /\ p.action.do = "wake" \/ Asked(p.table) \subseteq Asked(table)
<1>1. table \in Table /\ launching \in BOOLEAN
  BY DEF TypeInv, Flags, Numbers
<1> QED
  BY <1>1, PollLeaves

\* The image, the type and the marks of the state a switch leaves.
LEMMA InitHolds == Init => IInv
<1> SUFFICES ASSUME Init PROVE IInv
  OBVIOUS
<1>1. PICK listed \in Directories : \E b \in boot_image(listed) :
        /\ installed = listed /\ pc = AtSupervisor(b.image)
        /\ image = b.image /\ pending = b.pending /\ current = b.current /\ marked = b.marked
  BY DEF Init
<1>2. PICK b \in boot_image(listed) :
        /\ installed = listed /\ pc = AtSupervisor(b.image)
        /\ image = b.image /\ pending = b.pending /\ current = b.current /\ marked = b.marked
  BY <1>1
<1>3. listed \in SUBSET Packages
  BY Constants
<1>4. /\ {b.image, b.pending, b.current} \subseteq Packages \cup {None}
      /\ b.image \in listed \cup {None}
      /\ b.marked \in SUBSET Receivers /\ b.image \notin b.marked
      /\ Cardinality(b.marked) <= MANIFEST_PENDING
  BY <1>3, BootImage
<1>5. table \in Table /\ Rows(table) = {} /\ Asked(table) = {}
  BY DEF Init, Empty, Table, Rows, Asked
<1>6. /\ running = None /\ launcher_exits = 0 /\ launching = FALSE
      /\ horizon = HorizonOf(table) /\ seen = FALSE
      /\ elapsed = 0 /\ offset = 0 /\ moved = FALSE
      /\ rounds = 0 /\ park = FALSE /\ calls = MaxCalls
  BY DEF Init
<1>7. pc = IF image = None THEN "between" ELSE "load"
  BY <1>2 DEF AtSupervisor
<1>8. TypeInv
  <2>1. Flags
    BY <1>6, <1>7 DEF Flags, Places
  <2>2. Names
    BY <1>2, <1>3, <1>4, <1>6 DEF Names
  <2>3. Numbers
    BY <1>5, <1>6, Constants DEF Numbers
  <2> QED
    BY <2>1, <2>2, <2>3 DEF TypeInv
<1>9. ImageInv /\ IdleInv /\ MarkInv
  BY <1>2, <1>4, <1>6, <1>7 DEF ImageInv, IdleInv, MarkInv, JavaRuns, InLoop
<1>10. TableInv /\ AskedInv
  BY <1>5, <1>6, Constants DEF TableInv, AskedInv, Slots
<1> QED
  BY <1>8, <1>9, <1>10 DEF IInv

\* A reset starts over.
LEMMA ResetHolds == IInv /\ Reset => IInv'
<1> SUFFICES ASSUME IInv, Reset PROVE IInv'
  OBVIOUS
<1>1. PICK listed \in Directories : \E b \in boot_image(listed) :
        /\ installed' = listed /\ pc' = AtSupervisor(b.image)
        /\ image' = b.image /\ pending' = b.pending /\ current' = b.current /\ marked' = b.marked
  BY DEF Reset
<1>2. PICK b \in boot_image(listed) :
        /\ installed' = listed /\ pc' = AtSupervisor(b.image)
        /\ image' = b.image /\ pending' = b.pending /\ current' = b.current /\ marked' = b.marked
  BY <1>1
<1>3. listed \in SUBSET Packages
  BY Constants
<1>4. /\ {b.image, b.pending, b.current} \subseteq Packages \cup {None}
      /\ b.image \in listed \cup {None}
      /\ b.marked \in SUBSET Receivers /\ b.image \notin b.marked
      /\ Cardinality(b.marked) <= MANIFEST_PENDING
  BY <1>3, BootImage
<1>5. table' \in Table /\ Rows(table') = {} /\ Asked(table') = {}
  BY DEF Reset, Empty, Table, Rows, Asked
<1>6. /\ running' = None /\ launcher_exits' = 0 /\ launching' = FALSE
      /\ horizon' = HorizonOf(table') /\ seen' = FALSE
      /\ elapsed' = 0 /\ offset' = 0 /\ moved' = FALSE
      /\ rounds' = 0 /\ park' = FALSE /\ calls' \in 0..MaxCalls
  BY Constants DEF Reset, Call, IInv, TypeInv, Numbers
<1>7. pc' = IF image' = None THEN "between" ELSE "load"
  BY <1>2 DEF AtSupervisor
<1>8. TypeInv'
  <2>1. Flags'
    BY <1>6, <1>7 DEF Flags, Places
  <2>2. Names'
    BY <1>2, <1>3, <1>4, <1>6 DEF Names
  <2>3. Numbers'
    BY <1>5, <1>6, Constants DEF Numbers
  <2> QED
    BY <2>1, <2>2, <2>3 DEF TypeInv
<1>9. ImageInv' /\ IdleInv' /\ MarkInv'
  BY <1>2, <1>4, <1>6, <1>7 DEF ImageInv, IdleInv, MarkInv, JavaRuns, InLoop
<1>10. TableInv' /\ AskedInv'
  BY <1>5, <1>6, Constants DEF TableInv, AskedInv, Slots
<1> QED
  BY <1>8, <1>9, <1>10 DEF IInv

\* The steps that leave the table alone and stay where they are.
LEMMA QuietHolds ==
    IInv /\ (StartPackage \/ SetClock \/ Elapse \/ RequestPark \/ Refused) => IInv'
<1> SUFFICES ASSUME IInv, StartPackage \/ SetClock \/ Elapse \/ RequestPark \/ Refused
             PROVE  IInv'
  OBVIOUS
<1> USE DEF IInv, packageVars, alarmVars, manifestVars, clockVars, Call
<1>1. TypeInv'
  <2>1. Flags'
    BY DEF TypeInv, Flags, Places, StartPackage, SetClock, Elapse, RequestPark, Refused, AtSupervisor
  <2>2. Names'
    BY DEF TypeInv, Names, StartPackage, SetClock, Elapse, RequestPark, Refused
  <2>3. Numbers'
    <3>1. calls' \in 0..MaxCalls /\ elapsed' \in Nat /\ offset' \in Nat
      <4>1. CASE SetClock
        BY <4>1, Constants DEF TypeInv, Numbers, SetClock
      <4>2. CASE Elapse
        BY <4>2 DEF TypeInv, Numbers, Elapse
      <4>3. CASE StartPackage \/ RequestPark \/ Refused
        BY <4>3, Constants DEF TypeInv, Numbers, StartPackage, RequestPark, Refused
      <4> QED
        BY <4>1, <4>2, <4>3
    <3> QED
      BY <3>1 DEF TypeInv, Numbers, StartPackage, SetClock, Elapse, RequestPark, Refused
  <2> QED
    BY <2>1, <2>2, <2>3 DEF TypeInv
<1>2. ImageInv' /\ IdleInv' /\ MarkInv'
  <2>1. CASE StartPackage \/ SetClock \/ Elapse \/ RequestPark
    BY <2>1 DEF ImageInv, IdleInv, MarkInv, JavaRuns, InLoop,
                StartPackage, SetClock, Elapse, RequestPark
  <2>2. CASE Refused
    BY <2>2, Constants DEF ImageInv, IdleInv, MarkInv, JavaRuns, InLoop, Refused, AtSupervisor
  <2> QED
    BY <2>1, <2>2
<1>3. TableInv'
  BY DEF TableInv, StartPackage, SetClock, Elapse, RequestPark, Refused
<1>4. AskedInv'
  BY DEF AskedInv, InLoop, StartPackage, SetClock, Elapse, RequestPark, Refused, AtSupervisor
<1> QED
  BY <1>1, <1>2, <1>3, <1>4

\* A run ends, or goes on, with the table as it is.
LEMMA RunHolds ==
    IInv /\ (CreateFails \/ CreateReturns \/ HeadlessEnds \/ Teardown \/ Drain \/ Stopped) => IInv'
<1> SUFFICES ASSUME IInv,
                    CreateFails \/ CreateReturns \/ HeadlessEnds \/ Teardown \/ Drain \/ Stopped
             PROVE  IInv'
  OBVIOUS
<1> USE DEF IInv, packageVars, alarmVars, manifestVars, clockVars, RunEnds
<1>1. TypeInv'
  <2>1. Flags'
    BY DEF TypeInv, Flags, Places,
           CreateFails, CreateReturns, HeadlessEnds, Teardown, Drain, Stopped
  <2>2. Names'
    BY DEF TypeInv, Names, CreateFails, CreateReturns, HeadlessEnds, Teardown, Drain, Stopped
  <2>3. Numbers'
    BY Constants DEF TypeInv, Numbers,
                     CreateFails, CreateReturns, HeadlessEnds, Teardown, Drain, Stopped
  <2> QED
    BY <2>1, <2>2, <2>3 DEF TypeInv
<1>2. ImageInv' /\ IdleInv' /\ MarkInv'
  BY DEF ImageInv, IdleInv, MarkInv, JavaRuns, InLoop,
         CreateFails, CreateReturns, HeadlessEnds, Teardown, Drain, Stopped
<1>3. TableInv'
  BY DEF TableInv, CreateFails, CreateReturns, HeadlessEnds, Teardown, Drain, Stopped
<1>4. AskedInv'
  BY DEF AskedInv, InLoop, CreateFails, CreateReturns, HeadlessEnds, Teardown, Drain, Stopped
<1> QED
  BY <1>1, <1>2, <1>3, <1>4

\* The rows that are left, and one that is not asked for, keep what the rows say.
LEMMA Rewritten ==
    ASSUME IInv, JavaRuns, NEW u \in Table, Write(u),
           UNCHANGED <<pc, installed, launching, seen>>,
           \A i \in Rows(u) : u[i] = table[i] \/ (u[i].owner = running /\ ~u[i].state.asked)
    PROVE  TableInv' /\ AskedInv'
<1>1. running \in installed
  BY DEF IInv, ImageInv, JavaRuns, InLoop
<1>2. \A i \in Rows(u) : u[i] = table[i] => i \in Rows(table)
  BY DEF Rows
<1>3. table' = u /\ horizon' = HorizonOf(u)
  BY DEF Write
<1>4. Asked(u) \subseteq Asked(table)
  BY <1>2 DEF Asked
<1>5. seen => \A i \in Rows(u) : u[i].owner \in installed
  BY <1>1, <1>2 DEF IInv, TableInv
<1> QED
  BY <1>3, <1>4, <1>5 DEF IInv, TableInv, AskedInv, InLoop

LEMMA AlarmCallHolds == IInv /\ (SetAlarm \/ CancelAlarm \/ FireHeadless) => IInv'
<1> SUFFICES ASSUME IInv, SetAlarm \/ CancelAlarm \/ FireHeadless PROVE IInv'
  OBVIOUS
<1> USE DEF packageVars, manifestVars, clockVars, Call
<1>1. JavaRuns /\ UNCHANGED <<pc, installed, launching, seen>>
  BY DEF SetAlarm, CancelAlarm, FireHeadless, JavaRuns
<1>2. table \in Table /\ running \in Packages
  BY <1>1 DEF IInv, TypeInv, Numbers, Names, ImageInv, JavaRuns, InLoop
<1>3. \E u \in Table : /\ Write(u)
                       /\ \A i \in Rows(u) : \/ u[i] = table[i]
                                             \/ u[i].owner = running /\ ~u[i].state.asked
  <2>1. CASE SetAlarm
    <3>1. PICK key \in Keys, clock \in Clocks, at \in Triggers :
            \E i \in SlotFor(table, running, key) : Write([table EXCEPT ![i] =
                [owner |-> running, key |-> key, clock |-> clock, at |-> at, state |-> Armed]])
      BY <2>1 DEF SetAlarm
    <3>2. PICK i \in SlotFor(table, running, key) : Write([table EXCEPT ![i] =
                [owner |-> running, key |-> key, clock |-> clock, at |-> at, state |-> Armed]])
      BY <3>1
    <3> DEFINE e == [owner |-> running, key |-> key, clock |-> clock, at |-> at, state |-> Armed]
    <3>3. e \in Alarm /\ e.owner = running /\ ~e.state.asked
      <4>1. Armed \in [asked : BOOLEAN, attempts : 0..MAX_WAKE_ATTEMPTS] /\ ~Armed.asked
        BY Constants DEF Armed
      <4> QED
        BY <1>2, <4>1 DEF Alarm
    <3> HIDE DEF e
    <3>4. [table EXCEPT ![i] = e] \in Table
      BY <1>2, <3>3 DEF Table
    <3>5. \A j \in Slots : [table EXCEPT ![i] = e][j] \in {e, table[j]}
      BY <1>2 DEF Table
    <3> QED
      BY <3>2, <3>3, <3>4, <3>5 DEF e, Rows
  <2>2. CASE CancelAlarm
    <3>1. PICK key \in Keys : Write(cancelled(table, running, key))
      BY <2>2 DEF CancelAlarm
    <3>2. cancelled(table, running, key) \in Table
      BY <1>2 DEF cancelled, Table
    <3>3. \A i \in Rows(cancelled(table, running, key)) : cancelled(table, running, key)[i] = table[i]
      BY DEF cancelled, Rows
    <3> QED
      BY <3>1, <3>2, <3>3
  <2>3. CASE FireHeadless
    <3> DEFINE i == Earliest(table, DueFor(table, now, running))
    <3>1. Write([table EXCEPT ![i] = Free])
      BY <2>3 DEF FireHeadless
    <3> HIDE DEF i
    <3>2. [table EXCEPT ![i] = Free] \in Table
      BY <1>2 DEF Table
    <3>3. \A j \in Slots : [table EXCEPT ![i] = Free][j] \in {Free, table[j]}
      BY <1>2 DEF Table
    <3> QED
      BY <3>1, <3>2, <3>3 DEF Rows
  <2> QED
    BY <2>1, <2>2, <2>3
<1>4. TableInv' /\ AskedInv'
  BY <1>1, <1>3, Rewritten
<1>5. table' \in Table
  BY <1>3 DEF Write
<1>6. TypeInv'
  <2>1. Flags' /\ Names'
    BY DEF IInv, TypeInv, Flags, Names, SetAlarm, CancelAlarm, FireHeadless
  <2>2. rounds' \in 0..CAPACITY /\ calls' \in 0..MaxCalls
    BY Constants DEF IInv, TypeInv, Numbers, SetAlarm, CancelAlarm, FireHeadless
  <2>3. Numbers'
    BY <1>5, <2>2 DEF IInv, TypeInv, Numbers, SetAlarm, CancelAlarm, FireHeadless
  <2> QED
    BY <2>1, <2>3 DEF TypeInv
<1>7. ImageInv' /\ IdleInv' /\ MarkInv'
  BY DEF IInv, ImageInv, IdleInv, MarkInv, JavaRuns, InLoop, SetAlarm, CancelAlarm, FireHeadless
<1> QED
  BY <1>4, <1>6, <1>7 DEF IInv

LEMMA UninstallHolds == IInv /\ Uninstall => IInv'
<1> SUFFICES ASSUME IInv, Uninstall PROVE IInv'
  OBVIOUS
<1> USE DEF IInv, clockVars, manifestVars, Call
<1>1. PICK p \in Packages : MayUninstall(p) /\ installed' = installed \ {p}
  BY DEF Uninstall
<1>2. p # Launcher /\ p # running
  BY <1>1 DEF MayUninstall
<1>3. TypeInv'
  <2>1. Flags' /\ Names'
    BY DEF TypeInv, Flags, Names, Uninstall
  <2>2. Numbers'
    BY Constants DEF TypeInv, Numbers, Uninstall
  <2> QED
    BY <2>1, <2>2 DEF TypeInv
<1>4. ImageInv' /\ IdleInv' /\ MarkInv'
  BY <1>1, <1>2 DEF ImageInv, IdleInv, MarkInv, JavaRuns, InLoop, Uninstall
<1>5. TableInv' /\ AskedInv'
  BY DEF TableInv, AskedInv, InLoop, Uninstall
<1> QED
  BY <1>3, <1>4, <1>5

LEMMA DispatchAlarmsHolds == IInv /\ DispatchAlarms => IInv'
<1> SUFFICES ASSUME IInv, DispatchAlarms PROVE IInv'
  OBVIOUS
<1> USE DEF clockVars, manifestVars
<1> DEFINE p == poll(table, now, running, installed, launching)
           wakes == p.action.do = "wake"
<1>1. \/ /\ Write(p.table) /\ seen' = TRUE
         /\ pending' = IF wakes THEN p.action.owner ELSE pending
         /\ launching' = (launching \/ wakes)
      \/ UNCHANGED <<table, horizon, seen, pending, launching>>
  BY DEF DispatchAlarms, alarmVars
<1>2. /\ p.table \in Table
      /\ \A i \in Rows(p.table) : p.table[i].owner \in installed
      /\ wakes => p.action.owner \in Packages
      /\ launching => Asked(p.table) \subseteq Asked(table)
      /\ \E i \in Slots : Asked(p.table) \subseteq Asked(table) \cup {i}
      /\ wakes \/ Asked(p.table) \subseteq Asked(table)
  <2>1. TypeInv
    BY DEF IInv
  <2> QED
    BY <2>1, Polled
<1> HIDE DEF p
<1>3. /\ pc = "turn" /\ pc' = "alarms"
      /\ UNCHANGED <<installed, image, running, launcher_exits, elapsed, offset, marked, current,
                     moved, rounds, park, calls>>
  BY DEF DispatchAlarms
<1>4. TypeInv'
  <2>1. Flags'
    BY <1>1, <1>3 DEF IInv, TypeInv, Flags, Places
  <2>2. Names'
    BY <1>1, <1>2, <1>3 DEF IInv, TypeInv, Names
  <2>3. Numbers'
    BY <1>1, <1>2, <1>3 DEF IInv, TypeInv, Numbers, Write
  <2> QED
    BY <2>1, <2>2, <2>3 DEF TypeInv
<1>5. ImageInv' /\ IdleInv' /\ MarkInv'
  BY <1>3 DEF IInv, ImageInv, IdleInv, MarkInv, JavaRuns, InLoop
<1>6. TableInv'
  BY <1>1, <1>2, <1>3 DEF IInv, TableInv, Write
<1>7. AskedInv'
  <2>1. launching \/ Asked(table) = {}
    BY <1>3 DEF IInv, AskedInv, InLoop
  <2>2. launching \in BOOLEAN
    BY DEF IInv, TypeInv, Flags
  <2>3. CASE UNCHANGED <<table, launching>>
    BY <1>3, <2>1, <2>3 DEF IInv, AskedInv, InLoop
  <2>4. CASE table' = p.table /\ launching' = (launching \/ wakes)
    <3>1. CASE launching
      BY <1>2, <1>3, <2>4, <3>1 DEF IInv, AskedInv, InLoop
    <3>2. CASE ~launching
      <4>1. Asked(table) = {}
        BY <2>1, <3>2
      <4>2. \E i \in Slots : Asked(table') \subseteq {i}
        BY <1>2, <2>4, <4>1
      <4>3. Asked(table') # {} => launching'
        BY <1>2, <2>4, <4>1
      <4> QED
        BY <1>3, <4>2, <4>3 DEF AskedInv, InLoop
    <3> QED
      BY <3>1, <3>2
  <2> QED
    BY <1>1, <2>3, <2>4 DEF Write
<1> QED
  BY <1>4, <1>5, <1>6, <1>7 DEF IInv

LEMMA DispatchBroadcastsHolds == IInv /\ DispatchBroadcasts => IInv'
<1> SUFFICES ASSUME IInv, DispatchBroadcasts PROVE IInv'
  OBVIOUS
<1> USE DEF packageVars, alarmVars, clockVars
<1>1. /\ pc = "alarms" /\ pc' = "drain" /\ moved' = FALSE /\ marked' \in refreshed
      /\ launching' \in BOOLEAN /\ (launching => launching')
      /\ UNCHANGED <<installed, image, running, pending, launcher_exits, table, horizon, seen,
                     elapsed, offset, current, rounds, park, calls>>
  BY DEF DispatchBroadcasts, IInv, TypeInv, Flags
<1>2. running = image
  BY <1>1 DEF IInv, ImageInv, JavaRuns, InLoop
<1>3. /\ marked' \in SUBSET Receivers /\ Cardinality(marked') <= MANIFEST_PENDING
      /\ image \notin marked'
  BY <1>1, <1>2, Refresh DEF IInv
<1>4. TypeInv'
  <2>1. Flags' /\ Names'
    BY <1>1, <1>3 DEF IInv, TypeInv, Flags, Names, Places
  <2>2. Numbers'
    BY <1>1 DEF IInv, TypeInv, Numbers
  <2> QED
    BY <2>1, <2>2 DEF TypeInv
<1>5. ImageInv' /\ IdleInv' /\ MarkInv'
  BY <1>1, <1>3 DEF IInv, ImageInv, IdleInv, MarkInv, JavaRuns, InLoop
<1>6. TableInv' /\ AskedInv'
  BY <1>1 DEF IInv, TableInv, AskedInv, InLoop
<1> QED
  BY <1>4, <1>5, <1>6 DEF IInv

\* The table of a new run says the same, and nothing of it was asked for.
LEMMA NewRunHolds ==
    ASSUME IInv, table' = NextRun(table), UNCHANGED <<installed, horizon, seen>>
    PROVE  table' \in Table /\ TableInv' /\ AskedInv'
<1>1. table \in Table
  BY DEF IInv, TypeInv, Numbers
<1>2. /\ table' \in Table /\ Rows(table') = Rows(table)
      /\ \A i \in Rows(table) : table'[i] = [table[i] EXCEPT !.state.asked = FALSE]
      /\ HorizonOf(table') = HorizonOf(table)
  BY <1>1, NextRunSame
<1>3. \A i \in Rows(table) : table'[i].owner = table[i].owner /\ ~table'[i].state.asked
  <2>1. ASSUME NEW e \in Alarm, NEW d, d = [e EXCEPT !.state.asked = FALSE]
        PROVE  d.owner = e.owner /\ ~d.state.asked
    BY <2>1 DEF Alarm
  <2> QED
    BY <1>1, <1>2, <2>1, RowType
<1>4. Asked(table') = {}
  BY <1>2, <1>3 DEF Asked
<1>5. TableInv'
  BY <1>2, <1>3 DEF IInv, TableInv
<1>6. AskedInv'
  BY <1>4, Constants DEF AskedInv, Slots
<1> QED
  BY <1>2, <1>5, <1>6

LEMMA LoadHolds == IInv /\ Load => IInv'
<1> SUFFICES ASSUME IInv, Load PROVE IInv'
  OBVIOUS
<1> USE DEF clockVars, manifestVars
<1>1. table' \in Table /\ TableInv' /\ AskedInv'
  BY NewRunHolds DEF Load
<1>2. Flags' /\ Names'
  BY DEF Load, IInv, TypeInv, Flags, Names, Places
<1>3. Numbers'
  BY <1>1 DEF Load, IInv, TypeInv, Numbers
<1>4. ImageInv' /\ IdleInv' /\ MarkInv'
  BY DEF Load, IInv, ImageInv, IdleInv, MarkInv, JavaRuns, InLoop
<1> QED
  BY <1>1, <1>2, <1>3, <1>4 DEF IInv, TypeInv

LEMMA NextImageHolds == IInv /\ NextImage => IInv'
<1> SUFFICES ASSUME IInv, NextImage PROVE IInv'
  OBVIOUS
<1> USE DEF clockVars
<1>1. /\ pc = "between" /\ moved' = FALSE
      /\ UNCHANGED <<installed, launching, horizon, seen, elapsed, offset, rounds, park, calls>>
  BY DEF NextImage
<1>2. PICK m \in refreshed :
        \/ /\ m \cap installed # {} /\ TakeNext(m)
           /\ launcher_exits' = 0 /\ pc' = "load"
           /\ UNCHANGED <<running, pending, table>>
        \/ /\ m \cap installed = {} /\ marked' = {} /\ pending' = None
           /\ UNCHANGED current
           /\ LET launch == pending \in installed
                  again == ~launch /\ running = Launcher
                  exits == IF again THEN launcher_exits + 1 ELSE 0
              IN  /\ image' = CASE launch -> pending
                                [] ~launch /\ Launcher \in installed /\ exits < 2 -> Launcher
                                [] OTHER -> None
                  /\ launcher_exits' = IF launch \/ Launcher \in installed THEN exits
                                       ELSE launcher_exits
           /\ IF image' = None THEN /\ pc' = "idle" /\ running' = None
                                    /\ table' = NextRun(table)
                               ELSE pc' = "load" /\ UNCHANGED <<running, table>>
  BY DEF NextImage
<1>3. m \in SUBSET Receivers /\ Cardinality(m) <= MANIFEST_PENDING
  BY <1>1, Refresh DEF IInv
<1>4. installed \in SUBSET Packages /\ launcher_exits \in 0..2 /\ None \notin installed
  BY Constants DEF IInv, TypeInv, Names, Numbers
<1>5. CASE /\ TakeNext(m) /\ launcher_exits' = 0 /\ pc' = "load"
           /\ UNCHANGED <<running, pending, table>>
  <2>1. PICK p \in m \cap installed : \E gone \in SUBSET (m \ installed) :
            marked' = m \ (gone \cup {p}) /\ current' = p /\ image' = p
    BY <1>5 DEF TakeNext
  <2>2. marked' \in SUBSET m /\ p \notin marked'
    BY <2>1
  <2>3. Cardinality(marked') <= MANIFEST_PENDING
    BY <1>3, <2>2, Fewer
  <2>4. Flags' /\ Names'
    BY <1>1, <1>3, <1>4, <1>5, <2>1, <2>2 DEF IInv, TypeInv, Flags, Names, Places
  <2>5. Numbers'
    BY <1>1, <1>5 DEF IInv, TypeInv, Numbers
  <2>6. ImageInv' /\ IdleInv' /\ MarkInv'
    BY <1>1, <1>4, <1>5, <2>1, <2>2, <2>3 DEF ImageInv, IdleInv, MarkInv, JavaRuns, InLoop
  <2>7. TableInv' /\ AskedInv'
    BY <1>1, <1>5 DEF IInv, TableInv, AskedInv, InLoop
  <2> QED
    BY <2>4, <2>5, <2>6, <2>7 DEF IInv, TypeInv
<1>6. CASE /\ marked' = {} /\ pending' = None /\ UNCHANGED current
           /\ LET launch == pending \in installed
                  again == ~launch /\ running = Launcher
                  exits == IF again THEN launcher_exits + 1 ELSE 0
              IN  /\ image' = CASE launch -> pending
                                [] ~launch /\ Launcher \in installed /\ exits < 2 -> Launcher
                                [] OTHER -> None
                  /\ launcher_exits' = IF launch \/ Launcher \in installed THEN exits
                                       ELSE launcher_exits
           /\ IF image' = None THEN /\ pc' = "idle" /\ running' = None
                                    /\ table' = NextRun(table)
                               ELSE pc' = "load" /\ UNCHANGED <<running, table>>
  <2> DEFINE launch == pending \in installed
             exits == IF ~launch /\ running = Launcher THEN launcher_exits + 1 ELSE 0
  <2>1. \/ launch /\ image' = pending
        \/ ~launch /\ Launcher \in installed /\ exits < 2 /\ image' = Launcher
        \/ ~launch /\ (Launcher \notin installed \/ ~(exits < 2)) /\ image' = None
    BY <1>6
  <2>2. launcher_exits' = IF launch \/ Launcher \in installed THEN exits ELSE launcher_exits
    BY <1>6
  <2>3. running = Launcher => launcher_exits \in 0..1
    BY <1>1, <1>4, Constants DEF IInv, IdleInv
  <2>4. launcher_exits # 0 => Launcher \in installed
    BY DEF IInv, IdleInv
  <2>5. exits \in 0..2 /\ (launch => exits = 0)
    BY <1>4, <2>3
  <2> HIDE DEF launch, exits
  <2>6. /\ launcher_exits' \in 0..2
        /\ launcher_exits' # 0 => Launcher \in installed
        /\ launcher_exits' = 2 => image' = None
        /\ image' = None => Launcher \notin installed \/ launcher_exits' = 2
    BY <1>4, <2>1, <2>2, <2>4, <2>5, Constants DEF launch
  <2>7. image' \in installed \cup {None}
    BY <2>1 DEF launch
  <2>8. \/ image' = None /\ pc' = "idle" /\ running' = None /\ table' = NextRun(table)
        \/ image' # None /\ pc' = "load" /\ UNCHANGED <<running, table>>
    BY <1>6
  <2>9. table' \in Table /\ TableInv' /\ AskedInv'
    <3>1. CASE table' = NextRun(table)
      BY <1>1, <3>1, NewRunHolds
    <3>2. CASE UNCHANGED table /\ pc' = "load"
      BY <1>1, <3>2 DEF IInv, TypeInv, Numbers, TableInv, AskedInv, InLoop
    <3> QED
      BY <2>8, <3>1, <3>2
  <2>10. Flags' /\ Names'
    BY <1>1, <1>4, <1>6, <2>7, <2>8 DEF IInv, TypeInv, Flags, Names, Places
  <2>11. Numbers'
    BY <1>1, <2>6, <2>9 DEF IInv, TypeInv, Numbers
  <2>12. ImageInv' /\ IdleInv'
    BY <1>1, <2>6, <2>7, <2>8 DEF ImageInv, IdleInv, JavaRuns, InLoop
  <2>13. MarkInv'
    BY <1>6, FS_EmptySet, Constants DEF MarkInv
  <2> QED
    BY <2>9, <2>10, <2>11, <2>12, <2>13 DEF IInv, TypeInv
<1> QED
  BY <1>2, <1>5, <1>6

LEMMA StepHolds == IInv /\ [Next]_vars => IInv'
<1> SUFFICES ASSUME IInv, [Next]_vars PROVE IInv'
  OBVIOUS
<1>1. CASE Supervisor
  BY <1>1, NextImageHolds, LoadHolds, QuietHolds DEF Supervisor
<1>2. CASE App
  BY <1>2, RunHolds, AlarmCallHolds, DispatchAlarmsHolds, DispatchBroadcastsHolds DEF App
<1>3. CASE Environment
  BY <1>3, AlarmCallHolds, QuietHolds, UninstallHolds, ResetHolds DEF Environment
<1>4. CASE UNCHANGED vars
  BY <1>4 DEF vars, IInv, TypeInv, Flags, Names, Numbers, ImageInv, IdleInv, MarkInv, TableInv,
              AskedInv, JavaRuns, InLoop
<1> QED
  BY <1>1, <1>2, <1>3, <1>4 DEF Next

-----------------------------------------------------------------------------
(* What it gives. *)
LEMMA TypeCorrect == IInv => TypeOK
<1> SUFFICES ASSUME IInv PROVE TypeOK
  OBVIOUS
<1>1. pc \in {"load", "create", "turn", "alarms", "drain", "headless", "teardown", "between", "idle"}
  BY DEF IInv, TypeInv, Flags, Places
<1>2. {launching, seen, moved, park} \subseteq BOOLEAN
  BY DEF IInv, TypeInv, Flags
<1>3. {image, running, pending, current} \subseteq Packages \cup {None}
  BY DEF IInv, TypeInv, Names
<1>4. installed \subseteq Packages /\ marked \subseteq Receivers
  BY DEF IInv, TypeInv, Names
<1> QED
  BY <1>1, <1>2, <1>3, <1>4 DEF IInv, TypeInv, Numbers, Table, TypeOK

\* A tick that does not poll: the table summarised by the horizon has nothing
\* that is due, and every owner is in the directory that was last looked at.
LEMMA HiddenNothing == IInv => NothingHidden
<1> SUFFICES ASSUME IInv, pc = "turn", ~polls
             PROVE  poll(table, now, running, installed, launching)
                       = [table |-> table, action |-> NoAction]
  BY DEF NothingHidden
<1>1. table \in Table /\ now \in Clock /\ launching \in BOOLEAN
  BY DEF IInv, TypeInv, Flags, Numbers, now, Clock
<1>2. ~due(HorizonOf(table), now) /\ \A i \in Rows(table) : table[i].owner \in installed
  BY DEF IInv, TableInv, polls
<1>3. Installed(table, installed) = table
  BY <1>1, <1>2, InstalledSame
<1>4. Able(table, now) = {}
  BY <1>1, <1>2, HorizonTrue DEF Able
<1> QED
  BY <1>1, <1>3, <1>4, DecideOne DEF poll

LEMMA WakeTrue == IInv => WakeUnderWay
<1> SUFFICES ASSUME IInv PROVE WakeUnderWay
  OBVIOUS
<1>1. PICK i \in Slots : Asked(table) \subseteq {i}
  BY DEF IInv, AskedInv
<1>2. IsFiniteSet({i}) /\ Cardinality({i}) = 1
  BY FS_Singleton
<1>3. IsFiniteSet(Asked(table)) /\ Cardinality(Asked(table)) <= 1
  BY <1>1, <1>2, FS_Subset
<1>4. Asked(table) # {} => launching \/ ~InLoop
  BY DEF IInv, AskedInv, InLoop
<1> QED
  BY <1>3, <1>4 DEF WakeUnderWay, Asked

\* Whatever is installed, set and asked, and whenever the device resets: what the
\* statics of packages.rs, alarms.rs and broadcasts.rs say of one another is true.
THEOREM SwitchSafe == Spec => []SwitchTrue
<1>1. IInv => SwitchTrue
  <2> SUFFICES ASSUME IInv PROVE SwitchTrue
    OBVIOUS
  <2>1. TypeOK /\ NothingHidden /\ WakeUnderWay
    BY TypeCorrect, HiddenNothing, WakeTrue
  <2>2. RunningInstalled
    BY DEF IInv, ImageInv, RunningInstalled, JavaRuns, InLoop
  <2>3. MarksTrue /\ IdleJustified
    BY DEF IInv, ImageInv, MarkInv, IdleInv, MarksTrue, IdleJustified
  <2> QED
    BY <2>1, <2>2, <2>3 DEF SwitchTrue
<1> QED
  BY InitHolds, StepHolds, <1>1, PTL DEF Spec

-----------------------------------------------------------------------------
(* The table keeps the contract. *)

\* What a step may make of a row: nothing that shows, an end with its reason,
\* the trigger, or an alarm that the running app arms.
Ends(e) == \/ e.owner = running /\ (~is_firing(e) \/ is_due(e, now))
           \/ e.owner = running /\ is_firing(e)
           \/ e.owner \notin installed
           \/ e.owner # running /\ is_firing(e)

Shows(e, d) == /\ d \in Alarm /\ d.owner = e.owner /\ d.key = e.key /\ d.clock = e.clock
               /\ d.at = e.at /\ is_firing(d) = is_firing(e)

Rings(e, d) == /\ ~is_firing(e) /\ is_due(e, now) /\ e.owner # running
                   /\ d \in Alarm /\ d.owner = e.owner /\ d.key = e.key /\ d.clock = e.clock
                   /\ d.at = e.at /\ is_firing(d)

Arms(d) == d \in Alarm /\ ~is_firing(d) /\ d.owner = running

Moves(t, u, i) ==
    \/ u[i] = t[i]
    \/ i \in Rows(t) /\ u[i] = Free /\ Ends(t[i])
    \/ i \in Rows(t) /\ (Shows(t[i], u[i]) \/ Rings(t[i], u[i]))
    \/ Arms(u[i]) /\ t[i] = Free
    \/ /\ i \in Rows(t) /\ Arms(u[i])
       /\ ~is_firing(t[i]) /\ t[i].owner = u[i].owner /\ t[i].key = u[i].key

Promises == [owner : Packages, key : Keys, clock : Clocks, at : Triggers, triggered : BOOLEAN]

LEMMA MovesKept ==
    ASSUME IInv, table' \in Table, NEW i \in Slots, Moves(table, table', i)
    PROVE  Contract!Kept(i)
<1> DEFINE old == IF table[i] = Free THEN Free ELSE Promise(table[i])
           new == IF table'[i] = Free THEN Free ELSE Promise(table'[i])
<1>1. CASE table'[i] = table[i]
  BY <1>1 DEF Contract!Kept
<1>2. ASSUME NEW e \in Alarm
      PROVE  /\ Promise(e) # Free /\ e # Free
             /\ Promise(e).owner = e.owner /\ Promise(e).key = e.key
             /\ Promise(e).clock = e.clock /\ Promise(e).at = e.at
             /\ Promise(e).triggered <=> is_firing(e)
             /\ Promise(e) \in Promises
  <2>1. Promise(e) # Free /\ e # Free
    BY FreeAssumption
  <2>2. Promise(e) = [owner |-> e.owner, key |-> e.key, clock |-> e.clock, at |-> e.at,
                      triggered |-> is_firing(e)]
    BY DEF Promise
  <2>3. /\ Promise(e).owner = e.owner /\ Promise(e).key = e.key
        /\ Promise(e).clock = e.clock /\ Promise(e).at = e.at
    BY <2>2
  <2>4. Promise(e).triggered <=> is_firing(e)
    BY DEF Promise, is_firing
  <2>5. Promise(e) \in Promises
    <3>1. is_firing(e) \in BOOLEAN
      BY DEF is_firing
    <3> QED
      BY <2>2, <3>1 DEF Promises, Alarm
  <2> QED
    BY <2>1, <2>3, <2>4, <2>5
<1>3. table[i] \in Alarm \cup {Free} /\ (i \in Rows(table) => table[i] \in Alarm)
  BY DEF IInv, TypeInv, Numbers, Table, Rows
<1>4. \A e \in Alarm : is_due(e, now) <=>
         (IF e.clock = "Rtc" THEN elapsed + offset ELSE elapsed) >= e.at
  BY DEF is_due, now, Alarm, Clocks
<1>5. CASE i \in Rows(table) /\ table'[i] = Free /\ Ends(table[i])
  <2>1. old = Promise(table[i]) /\ new = Free /\ old # Free
    BY <1>2, <1>3, <1>5
  <2> QED
    BY <1>2, <1>3, <1>4, <1>5, <2>1
       DEF Contract!Kept, Contract!Cancel, Contract!Fire, Contract!Forget, Contract!GiveUp,
           Contract!Armed, Contract!Due, Ends
<1>6. CASE i \in Rows(table) /\ Shows(table[i], table'[i])
  <2>1. old = Promise(table[i]) /\ new = Promise(table'[i])
    BY <1>2, <1>3, <1>6 DEF Shows
  <2>2. old = new
    BY <1>6, <2>1 DEF Shows, Promise
  <2> QED
    BY <2>2 DEF Contract!Kept
<1>7. CASE i \in Rows(table) /\ Rings(table[i], table'[i])
  <2>1. old = Promise(table[i]) /\ new = Promise(table'[i])
    BY <1>2, <1>3, <1>7 DEF Rings
  <2>2. new = [old EXCEPT !.triggered = TRUE]
    <3>1. /\ old \in Promises /\ new \in Promises
          /\ new.owner = old.owner /\ new.key = old.key /\ new.clock = old.clock
          /\ new.at = old.at /\ new.triggered = TRUE
      BY <1>2, <1>3, <1>7, <2>1 DEF Rings, Promises
    <3> HIDE DEF old, new
    <3> QED
      BY <3>1 DEF Promises
  <2>3. old # Free /\ ~old.triggered /\ old.owner # running
        /\ (IF old.clock = "Rtc" THEN elapsed + offset ELSE elapsed) >= old.at
    <3>1. table[i] \in Alarm
      BY <1>3, <1>7
    <3>2. /\ (IF table[i].clock = "Rtc" THEN elapsed + offset ELSE elapsed) >= table[i].at
          /\ ~is_firing(table[i]) /\ table[i].owner # running
      BY <1>4, <1>7, <3>1 DEF Rings
    <3> HIDE DEF old
    <3> QED
      BY <1>2, <2>1, <3>1, <3>2
  <2> QED
    BY <2>2, <2>3 DEF Contract!Kept, Contract!Trigger, Contract!Armed, Contract!Due
<1>8. CASE Arms(table'[i]) /\ table[i] = Free
  <2>1. old = Free /\ new = Promise(table'[i]) /\ new # Free /\ ~new.triggered /\ new.owner = running
    BY <1>2, <1>8 DEF Arms
  <2> QED
    BY <2>1 DEF Contract!Kept, Contract!Set, Contract!Armed
<1>9. CASE /\ i \in Rows(table) /\ Arms(table'[i])
           /\ ~is_firing(table[i]) /\ table[i].owner = table'[i].owner /\ table[i].key = table'[i].key
  <2>1. /\ new = Promise(table'[i]) /\ new # Free /\ ~new.triggered /\ new.owner = running
        /\ old = Promise(table[i]) /\ old # Free /\ ~old.triggered
        /\ old.owner = new.owner /\ old.key = new.key
    BY <1>2, <1>3, <1>9 DEF Arms
  <2> QED
    BY <2>1 DEF Contract!Kept, Contract!Set, Contract!Armed, Contract!SameAlarm
<1> QED
  BY <1>1, <1>5, <1>6, <1>7, <1>8, <1>9 DEF Moves

\* No two armed rows are for one alarm, and no package has more than its share.
Single(t) == \A i, j \in Rows(t) : /\ ~is_firing(t[i]) /\ ~is_firing(t[j])
                                  /\ t[i].owner = t[j].owner /\ t[i].key = t[j].key => i = j
Shared(t) == \A o \in Packages : Cardinality(ArmedOf(t, o)) <= PER_PACKAGE

\* Every armed row was one.
Shrinks(t, u) == \A i \in Rows(u) : ~is_firing(u[i]) =>
                    /\ i \in Rows(t) /\ ~is_firing(t[i])
                    /\ t[i].owner = u[i].owner /\ t[i].key = u[i].key

LEMMA FiniteRows ==
    ASSUME NEW t, NEW o
    PROVE  IsFiniteSet(ArmedOf(t, o)) /\ Cardinality(ArmedOf(t, o)) \in Nat
<1>1. IsFiniteSet(Slots)
  BY Constants, FS_Interval DEF Slots
<1>2. ArmedOf(t, o) \in SUBSET Slots
  BY DEF ArmedOf, Rows
<1> QED
  BY <1>1, <1>2, FS_Subset, FS_CardinalityType

LEMMA ShrinksShared ==
    ASSUME NEW t, NEW u, Shrinks(t, u), Single(t), Shared(t)
    PROVE  Single(u) /\ Shared(u)
<1>1. Single(u)
  BY DEF Single, Shrinks
<1>2. ASSUME NEW o \in Packages PROVE Cardinality(ArmedOf(u, o)) <= PER_PACKAGE
  <2>1. ArmedOf(u, o) \in SUBSET ArmedOf(t, o)
    BY DEF ArmedOf, Shrinks
  <2>2. Cardinality(ArmedOf(u, o)) <= Cardinality(ArmedOf(t, o))
    BY <2>1, FiniteRows, FS_Subset
  <2>3. Cardinality(ArmedOf(t, o)) <= PER_PACKAGE
    BY DEF Shared
  <2>4. PER_PACKAGE \in Nat
    BY TableAssumption
  <2> QED
    BY <2>2, <2>3, <2>4, FiniteRows
<1> QED
  BY <1>1, <1>2 DEF Shared

\* set takes the slot of the same alarm, or a free one while there is room.
LEMMA SetShared ==
    ASSUME NEW t \in Table, Single(t), Shared(t), NEW e \in Alarm, ~is_firing(e),
           NEW i \in SlotFor(t, e.owner, e.key), NEW u, u = [t EXCEPT ![i] = e]
    PROVE  /\ i \in Slots /\ Single(u) /\ Shared(u)
           /\ \/ t[i] = Free
              \/ i \in Rows(t) /\ ~is_firing(t[i]) /\ t[i].owner = e.owner /\ t[i].key = e.key
<1> DEFINE same == {j \in ArmedOf(t, e.owner) : t[j].key = e.key}
<1>1. \/ i \in same
      \/ /\ i \in Slots \ Rows(t) /\ same = {}
         /\ Cardinality(ArmedOf(t, e.owner)) < PER_PACKAGE
  BY DEF SlotFor
<1>2. i \in Slots /\ u[i] = e /\ \A j \in Slots \ {i} : u[j] = t[j]
  BY <1>1 DEF ArmedOf, Rows, Table
<1>3. Rows(u) = Rows(t) \cup {i}
  BY <1>2, FreeAssumption DEF Rows
<1>4. CASE i \in same
  <2>1. i \in Rows(t) /\ ~is_firing(t[i]) /\ t[i].owner = e.owner /\ t[i].key = e.key
    BY <1>4 DEF ArmedOf
  <2>2. Shrinks(t, u)
    BY <1>2, <1>3, <2>1 DEF Shrinks, Rows
  <2> QED
    BY <1>2, <2>1, <2>2, ShrinksShared
<1>5. CASE i \in Slots \ Rows(t) /\ same = {} /\ Cardinality(ArmedOf(t, e.owner)) < PER_PACKAGE
  <2>1. \A j \in Rows(t) : j # i /\ u[j] = t[j]
                           /\ ~(~is_firing(t[j]) /\ t[j].owner = e.owner /\ t[j].key = e.key)
    BY <1>2, <1>5 DEF ArmedOf, Rows
  <2>2. Single(u)
    BY <1>2, <1>3, <2>1 DEF Single
  <2>3. ASSUME NEW o \in Packages PROVE Cardinality(ArmedOf(u, o)) <= PER_PACKAGE
    <3>1. ArmedOf(u, o) = IF o = e.owner THEN ArmedOf(t, o) \cup {i} ELSE ArmedOf(t, o)
      BY <1>2, <1>3, <2>1 DEF ArmedOf
    <3>2. i \notin ArmedOf(t, o)
      BY <1>5 DEF ArmedOf
    <3>3. CASE o = e.owner
      <4>1. Cardinality(ArmedOf(u, o)) = Cardinality(ArmedOf(t, o)) + 1
        BY <3>1, <3>2, <3>3, FiniteRows, FS_AddElement
      <4> QED
        BY <1>5, <3>3, <4>1, FiniteRows, TableAssumption
    <3>4. CASE o # e.owner
      BY <3>1, <3>4 DEF Shared
    <3> QED
      BY <3>3, <3>4
  <2>4. t[i] = Free
    BY <1>5 DEF Rows
  <2> QED
    BY <1>2, <2>2, <2>3, <2>4 DEF Shared
<1> QED
  BY <1>1, <1>4, <1>5

Steady(t, u) == (\A i \in Slots : Moves(t, u, i)) /\ Single(u) /\ Shared(u)

LEMMA SameSteady == ASSUME NEW t, Single(t), Shared(t) PROVE Steady(t, t)
BY DEF Steady, Moves

LEMMA NextRunSteady ==
    ASSUME NEW t \in Table, Single(t), Shared(t) PROVE Steady(t, NextRun(t))
<1> DEFINE u == NextRun(t)
<1>1. Rows(u) = Rows(t) /\ u \in Table /\ \A i \in Rows(t) : u[i] = [t[i] EXCEPT !.state.asked = FALSE]
  BY NextRunSame
<1> HIDE DEF u
<1>2. ASSUME NEW e \in Alarm, NEW d \in Alarm, d = [e EXCEPT !.state.asked = FALSE]
      PROVE  Shows(e, d)
  <2>1. /\ d.owner = e.owner /\ d.key = e.key /\ d.clock = e.clock /\ d.at = e.at
        /\ d.state.attempts = e.state.attempts
    BY <1>2 DEF Alarm
  <2> QED
    BY <2>1 DEF Shows, is_firing
<1>3. \A i \in Rows(t) : Shows(t[i], u[i])
  BY <1>1, <1>2, RowType
<1>4. \A i \in Slots : i \notin Rows(t) => u[i] = t[i]
  BY <1>1 DEF Rows
<1>5. Shrinks(t, u)
  BY <1>1, <1>3 DEF Shrinks, Shows
<1> QED
  BY <1>3, <1>4, <1>5, ShrinksShared DEF Steady, Moves, u

LEMMA PollSteady ==
    ASSUME IInv, Single(table), Shared(table)
    PROVE  Steady(table, poll(table, now, running, installed, launching).table)
<1> DEFINE u == Installed(table, installed)
           p == poll(table, now, running, installed, launching)
<1>1. table \in Table /\ launching \in BOOLEAN
  BY DEF IInv, TypeInv, Flags, Numbers
<1>2. /\ u \in Table /\ Rows(u) = {i \in Rows(table) : table[i].owner \in installed}
      /\ \A i \in Rows(u) : u[i] = table[i]
  BY <1>1, InstalledSame
<1>3. Decided(u, now, running, launching, p)
  BY <1>1, <1>2, DecideOne DEF poll
<1>4. \A i \in Slots : \/ u[i] = table[i]
                       \/ i \in Rows(table) /\ u[i] = Free /\ table[i].owner \notin installed
  BY DEF Installed
<1> SUFFICES Steady(table, p.table)
  OBVIOUS
<1> HIDE DEF u, p
<1>5. Shrinks(table, u)
  BY <1>2 DEF Shrinks
<1>6. CASE p.table = u
  <2>1. \A i \in Slots : Moves(table, u, i)
    BY <1>4 DEF Moves, Ends
  <2> QED
    BY <1>5, <1>6, <2>1, ShrinksShared DEF Steady
<1>7. ASSUME NEW i \in Able(u, now), NEW v, p.table = [u EXCEPT ![i] = v],
             \/ v = Free /\ (u[i].owner = running \/ (u[i].owner # running /\ is_firing(u[i])))
             \/ v = Woken(u[i]) /\ u[i].owner # running /\ u[i].state.attempts < MAX_WAKE_ATTEMPTS
      PROVE  Steady(table, p.table)
  <2>1. /\ i \in Rows(u) /\ i \in Rows(table) /\ i \in Slots /\ u[i] = table[i]
        /\ table[i] \in Alarm /\ table[i].state.attempts \in Nat
        /\ is_firing(table[i]) \/ is_due(table[i], now)
    BY <1>1, <1>2, <1>7, RowType DEF Able
  <2>2. p.table[i] = v /\ \A j \in Slots \ {i} : p.table[j] = u[j]
    BY <1>2, <1>7, <2>1 DEF Table
  <2>3. CASE v = Free /\ (u[i].owner = running \/ (u[i].owner # running /\ is_firing(u[i])))
    <3>1. Moves(table, p.table, i)
      <4>1. Ends(table[i])
        BY <2>1, <2>3 DEF Ends
      <4> QED
        BY <2>1, <2>2, <2>3, <4>1 DEF Moves
    <3>2. Shrinks(table, p.table)
      BY <1>5, <2>1, <2>2, <2>3 DEF Shrinks, Rows
    <3>3. \A j \in Slots : Moves(table, p.table, j)
      BY <1>4, <2>2, <3>1 DEF Moves, Ends
    <3> QED
      BY <3>2, <3>3, ShrinksShared DEF Steady
  <2>4. CASE v = Woken(u[i]) /\ u[i].owner # running /\ u[i].state.attempts < MAX_WAKE_ATTEMPTS
    <3>1. /\ v.owner = table[i].owner /\ v.key = table[i].key /\ v.clock = table[i].clock
          /\ v.at = table[i].at /\ v.state = Firing(table[i].state.attempts + 1)
      BY <2>1, <2>4 DEF Woken, Alarm
    <3>2. v \in Alarm /\ is_firing(v)
      <4>1. table[i].state.attempts + 1 \in 0..MAX_WAKE_ATTEMPTS /\ table[i].state.attempts + 1 > 0
        BY <2>1, <2>4, Constants
      <4>2. Firing(table[i].state.attempts + 1) \in [asked : BOOLEAN, attempts : 0..MAX_WAKE_ATTEMPTS]
            /\ Firing(table[i].state.attempts + 1).attempts > 0
        BY <4>1 DEF Firing
      <4> QED
        BY <2>1, <2>4, <3>1, <4>2 DEF Woken, Alarm, is_firing
    <3>3. Moves(table, p.table, i)
      <4>1. CASE is_firing(table[i])
        <5>1. is_firing(v) = is_firing(table[i])
          BY <3>2, <4>1 DEF is_firing
        <5>2. Shows(table[i], v)
          BY <3>1, <3>2, <5>1 DEF Shows
        <5> QED
          BY <2>1, <2>2, <5>2 DEF Moves
      <4>2. CASE ~is_firing(table[i])
        <5>1. Rings(table[i], v)
          BY <2>1, <2>4, <3>1, <3>2, <4>2 DEF Rings
        <5> QED
          BY <2>1, <2>2, <5>1 DEF Moves
      <4> QED
        BY <4>1, <4>2
    <3>4. Shrinks(table, p.table)
      BY <1>5, <2>1, <2>2, <2>4, <3>2 DEF Shrinks, Rows
    <3>5. \A j \in Slots : Moves(table, p.table, j)
      BY <1>4, <2>2, <3>3 DEF Moves, Ends
    <3> QED
      BY <3>4, <3>5, ShrinksShared DEF Steady
  <2> QED
    BY <1>7, <2>3, <2>4
<1>8. CASE \E i \in Able(u, now) :
            \/ /\ u[i].owner = running /\ p.table = [u EXCEPT ![i] = Free]
            \/ /\ u[i].owner # running /\ u[i].state.attempts >= MAX_WAKE_ATTEMPTS
               /\ p.table = [u EXCEPT ![i] = Free]
            \/ /\ u[i].owner # running /\ u[i].state.attempts < MAX_WAKE_ATTEMPTS
               /\ p.table = [u EXCEPT ![i] = Woken(u[i])]
  <2>1. PICK i \in Able(u, now) :
            \/ /\ u[i].owner = running /\ p.table = [u EXCEPT ![i] = Free]
            \/ /\ u[i].owner # running /\ u[i].state.attempts >= MAX_WAKE_ATTEMPTS
               /\ p.table = [u EXCEPT ![i] = Free]
            \/ /\ u[i].owner # running /\ u[i].state.attempts < MAX_WAKE_ATTEMPTS
               /\ p.table = [u EXCEPT ![i] = Woken(u[i])]
    BY <1>8
  <2>2. u[i].state.attempts >= MAX_WAKE_ATTEMPTS => is_firing(u[i])
    <3>1. u[i].state.attempts \in 0..MAX_WAKE_ATTEMPTS
      BY <1>2, RowType DEF Able
    <3> QED
      BY <3>1, Constants DEF is_firing
  <2> QED
    BY <1>7, <2>1, <2>2
<1>9. Decided(u, now, running, launching, p) =>
        \/ p.table = u
        \/ \E i \in Able(u, now) :
            \/ /\ u[i].owner = running /\ p.table = [u EXCEPT ![i] = Free]
            \/ /\ u[i].owner # running /\ u[i].state.attempts >= MAX_WAKE_ATTEMPTS
               /\ p.table = [u EXCEPT ![i] = Free]
            \/ /\ u[i].owner # running /\ u[i].state.attempts < MAX_WAKE_ATTEMPTS
               /\ p.table = [u EXCEPT ![i] = Woken(u[i])]
  <2>1. ASSUME NEW t, NEW a, p = [table |-> t, action |-> a] PROVE p.table = t
    BY <2>1
  <2> QED
    BY <2>1, Zenon DEF Decided
<1> QED
  BY <1>3, <1>6, <1>8, <1>9 DEF p

LEMMA CallSteady ==
    ASSUME IInv, Single(table), Shared(table), SetAlarm \/ CancelAlarm \/ FireHeadless
    PROVE  Steady(table, table')
<1>1. table \in Table /\ running \in Packages
  BY DEF IInv, TypeInv, Numbers, Names, ImageInv, JavaRuns, InLoop, SetAlarm, CancelAlarm, FireHeadless
<1>2. CASE SetAlarm
  <2>1. PICK key \in Keys, clock \in Clocks, at \in Triggers :
          \E i \in SlotFor(table, running, key) : Write([table EXCEPT ![i] =
              [owner |-> running, key |-> key, clock |-> clock, at |-> at, state |-> Armed]])
    BY <1>2 DEF SetAlarm
  <2> DEFINE e == [owner |-> running, key |-> key, clock |-> clock, at |-> at, state |-> Armed]
  <2>2. PICK i \in SlotFor(table, running, key) : table' = [table EXCEPT ![i] = e]
    BY <2>1 DEF Write
  <2>3. e \in Alarm /\ e.owner = running /\ e.key = key /\ ~is_firing(e)
    <3>1. Armed \in [asked : BOOLEAN, attempts : 0..MAX_WAKE_ATTEMPTS] /\ ~(Armed.attempts > 0)
      BY Constants DEF Armed
    <3> QED
      BY <1>1, <3>1 DEF Alarm, is_firing
  <2> HIDE DEF e
  <2>4. /\ i \in Slots /\ Single(table') /\ Shared(table')
        /\ \/ table[i] = Free
           \/ /\ i \in Rows(table) /\ ~is_firing(table[i])
              /\ table[i].owner = e.owner /\ table[i].key = e.key
    BY <1>1, <2>2, <2>3, SetShared
  <2>5. table'[i] = e /\ \A j \in Slots \ {i} : table'[j] = table[j]
    BY <1>1, <2>2, <2>4 DEF Table
  <2>6. Moves(table, table', i)
    BY <2>3, <2>4, <2>5 DEF Moves, Arms
  <2> QED
    BY <2>4, <2>5, <2>6 DEF Steady, Moves
<1>3. CASE CancelAlarm
  <2>1. PICK key \in Keys : table' = cancelled(table, running, key)
    BY <1>3 DEF CancelAlarm, Write
  <2>2. \A i \in Slots : \/ table'[i] = table[i]
                         \/ i \in Rows(table) /\ table'[i] = Free /\ ~is_firing(table[i])
                            /\ table[i].owner = running
    BY <2>1 DEF cancelled, ArmedOf
  <2>3. Shrinks(table, table')
    BY <2>2 DEF Shrinks, Rows
  <2> QED
    BY <2>2, <2>3, ShrinksShared DEF Steady, Moves, Ends
<1>4. CASE FireHeadless
  <2> DEFINE mine == DueFor(table, now, running)
             i == Earliest(table, mine)
  <2>1. mine # {} /\ table' = [table EXCEPT ![i] = Free]
    BY <1>4 DEF FireHeadless, Write
  <2>2. mine \in SUBSET Rows(table)
    BY DEF DueFor
  <2>3. i \in mine
    BY <1>1, <2>1, <2>2, EarliestOf
  <2>4. /\ i \in Rows(table) /\ table[i].owner = running
        /\ is_firing(table[i]) \/ is_due(table[i], now)
    BY <2>3 DEF DueFor
  <2> HIDE DEF i, mine
  <2>5. \A j \in Slots : table'[j] = IF j = i THEN Free ELSE table[j]
    BY <1>1, <2>1 DEF Table
  <2>6. Shrinks(table, table')
    BY <2>5 DEF Shrinks, Rows
  <2> QED
    BY <2>4, <2>5, <2>6, ShrinksShared DEF Steady, Moves, Ends
<1> QED
  BY <1>2, <1>3, <1>4

KeptInv == IInv /\ Single(table) /\ Shared(table)

LEMMA StepSteady ==
    ASSUME KeptInv, [Next]_vars
    PROVE  Steady(table, table') \/ (table' = Empty /\ Single(table') /\ Shared(table'))
<1> USE DEF KeptInv, alarmVars
<1>1. CASE SetAlarm \/ CancelAlarm \/ FireHeadless
  BY <1>1, CallSteady
<1>2. CASE DispatchAlarms
  <2>1. table' = poll(table, now, running, installed, launching).table \/ table' = table
    BY <1>2 DEF DispatchAlarms, Write
  <2> QED
    BY <2>1, PollSteady, SameSteady
<1>3. CASE Load \/ NextImage
  <2>1. table \in Table
    BY DEF IInv, TypeInv, Numbers
  <2>2. table' = NextRun(table) \/ table' = table
    BY <1>3 DEF Load, NextImage
  <2> QED
    BY <2>1, <2>2, NextRunSteady, SameSteady
<1>4. CASE Reset
  <2>1. Rows(Empty) = {}
    BY DEF Rows, Empty
  <2>2. \A o : ArmedOf(Empty, o) = {}
    BY <2>1 DEF ArmedOf
  <2>3. Cardinality({}) = 0 /\ 0 <= PER_PACKAGE
    BY FS_EmptySet, TableAssumption
  <2>4. Single(Empty) /\ Shared(Empty)
    BY <2>1, <2>2, <2>3 DEF Single, Shared
  <2> QED
    BY <1>4, <2>4 DEF Reset
<1>5. CASE table' = table
  BY <1>5, SameSteady
<1>6. CASE CreateFails \/ CreateReturns \/ HeadlessEnds \/ Teardown \/ Drain \/ Stopped
           \/ DispatchBroadcasts \/ Refused
  BY <1>5, <1>6 DEF CreateFails, CreateReturns, HeadlessEnds, Teardown, Drain, Stopped,
                    DispatchBroadcasts, Refused
<1>7. CASE StartPackage \/ Uninstall \/ SetClock \/ Elapse \/ RequestPark
  BY <1>5, <1>7 DEF StartPackage, Uninstall, SetClock, Elapse, RequestPark
<1>8. CASE UNCHANGED vars
  BY <1>5, <1>8 DEF vars
<1> QED
  BY <1>1, <1>2, <1>3, <1>4, <1>6, <1>7, <1>8 DEF Next, Supervisor, App, Environment

LEMMA KeptInvariant == Spec => []KeptInv
<1>1. Init => KeptInv
  <2> SUFFICES ASSUME Init PROVE Single(table) /\ Shared(table)
    BY InitHolds DEF KeptInv
  <2>1. Rows(table) = {} /\ \A o : ArmedOf(table, o) = {}
    BY DEF Init, Empty, Rows, ArmedOf
  <2>2. Cardinality({}) = 0 /\ 0 <= PER_PACKAGE
    BY FS_EmptySet, TableAssumption
  <2> QED
    BY <2>1, <2>2 DEF Single, Shared
<1>2. KeptInv /\ [Next]_vars => KeptInv'
  <2> SUFFICES ASSUME KeptInv, [Next]_vars PROVE KeptInv'
    OBVIOUS
  <2>1. IInv'
    BY StepHolds DEF KeptInv
  <2>2. Single(table') /\ Shared(table')
    BY StepSteady DEF Steady
  <2> QED
    BY <2>1, <2>2 DEF KeptInv
<1> QED
  BY <1>1, <1>2, PTL DEF Spec

\* The promises of a table with single and shared rows are distinct and fair.
LEMMA PromisesKept ==
    ASSUME table' \in Table, Single(table'), Shared(table')
    PROVE  Contract!Distinct /\ Contract!Fair
<1> DEFINE bar == [i \in Slots |-> IF table'[i] = Free THEN Free ELSE Promise(table'[i])]
           armed(i) == bar[i] # Free /\ ~bar[i].triggered
<1>1. ASSUME NEW i \in Slots
      PROVE  /\ armed(i) <=> i \in Rows(table') /\ ~is_firing(table'[i])
             /\ armed(i) => bar[i].owner = table'[i].owner /\ bar[i].key = table'[i].key
                            /\ table'[i].owner \in Packages
  <2>1. table'[i] = Free \/ table'[i] \in Alarm
    BY DEF Table
  <2>2. CASE table'[i] = Free
    BY <2>2 DEF Rows
  <2>3. CASE table'[i] \in Alarm
    <3>1. table'[i] # Free /\ Promise(table'[i]) # Free
      BY <2>3, FreeAssumption
    <3>2. bar[i] = Promise(table'[i]) /\ i \in Rows(table')
      BY <3>1 DEF Rows
    <3>3. /\ Promise(table'[i]).owner = table'[i].owner /\ Promise(table'[i]).key = table'[i].key
          /\ Promise(table'[i]).triggered <=> is_firing(table'[i])
      BY DEF Promise, is_firing
    <3>4. table'[i].owner \in Packages
      BY <2>3 DEF Alarm
    <3> QED
      BY <3>1, <3>2, <3>3, <3>4
  <2> QED
    BY <2>1, <2>2, <2>3
<1>2. Contract!Distinct
  <2>1. \A i, j \in Slots : armed(i) /\ armed(j) /\ bar[i].owner = bar[j].owner
                            /\ bar[i].key = bar[j].key => i = j
    BY <1>1 DEF Single
  <2> QED
    BY <2>1 DEF Contract!Distinct, Contract!Armed, Contract!SameAlarm
<1>3. Contract!Fair
  <2>1. ASSUME NEW i \in Slots, armed(i)
        PROVE  {j \in Slots : armed(j) /\ bar[j].owner = bar[i].owner} = ArmedOf(table', bar[i].owner)
    BY <1>1, <2>1 DEF ArmedOf, Rows
  <2>2. ASSUME NEW i \in Slots, armed(i)
        PROVE  Cardinality({j \in Slots : armed(j) /\ bar[j].owner = bar[i].owner}) <= PER_PACKAGE
    <3>1. bar[i].owner \in Packages
      BY <1>1, <2>2
    <3> HIDE DEF bar, armed
    <3> QED
      BY <2>1, <2>2, <3>1 DEF Shared
  <2>3. ASSUME NEW i \in Slots, Contract!Armed(bar[i])
        PROVE  Cardinality({j \in Slots : Contract!Armed(bar[j]) /\ bar[j].owner = bar[i].owner})
                 <= PER_PACKAGE
    <3>1. \A j \in Slots : Contract!Armed(bar[j]) <=> armed(j)
      BY DEF Contract!Armed
    <3>2. {j \in Slots : Contract!Armed(bar[j]) /\ bar[j].owner = bar[i].owner}
            = {j \in Slots : armed(j) /\ bar[j].owner = bar[i].owner}
      BY <3>1
    <3> HIDE DEF bar, armed
    <3> QED
      BY <2>2, <2>3, <3>1, <3>2
  <2>4. \A S : Contract!Cardinality(S) = Cardinality(S)
    BY DEF Contract!Cardinality, Cardinality
  <2> QED
    BY <2>3, <2>4 DEF Contract!Fair
<1> QED
  BY <1>2, <1>3

\* Through replacing, cancelling, triggering, waking, giving up, an owner that goes
\* and a clock that is set, the table keeps what AlarmManager promises.
THEOREM KeepsContract == Spec => AlarmsKept
<1>1. Init => Contract!ContractInit
  BY DEF Init, Empty, Contract!ContractInit
<1>2. KeptInv /\ KeptInv' /\ [Next]_vars => [Contract!ContractNext]_(Contract!contractVars)
  <2> SUFFICES ASSUME KeptInv, KeptInv', [Next]_vars PROVE Contract!ContractNext
    OBVIOUS
  <2>1. table' \in Table /\ Single(table') /\ Shared(table')
    BY DEF KeptInv, IInv, TypeInv, Numbers
  <2>2. CASE Steady(table, table')
    <3>1. \A i \in Slots : Contract!Kept(i)
      BY <2>1, <2>2, MovesKept DEF Steady, KeptInv
    <3> QED
      BY <2>1, <3>1, PromisesKept DEF Contract!ContractNext
  <2>3. CASE table' = Empty
    BY <2>3 DEF Empty, Contract!ContractNext, Contract!Reset
  <2> QED
    BY <2>2, <2>3, StepSteady
<1> QED
  BY <1>1, <1>2, KeptInvariant, PTL DEF Spec, AlarmsKept, Contract!ContractSpec
=============================================================================
