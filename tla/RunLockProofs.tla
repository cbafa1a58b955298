--------------------------- MODULE RunLockProofs ---------------------------
(***************************************************************************)
(* Safety of the run lock for any number of tasks and any nesting of       *)
(* guards, provided boot created the kernel mutex.                         *)
(***************************************************************************)
EXTENDS RunLock, FiniteSetTheorems, SequenceTheorems, TLAPS

-----------------------------------------------------------------------------
(* What pushing and popping a guard does to the holding they describe. *)

LEMMA HoldsPush ==
    ASSUME NEW s \in Seq(Guard), NEW g \in Guard
    PROVE  /\ \A n \in 0..Len(s) : HoldsAt(Append(s, g), n) <=> HoldsAt(s, n)
           /\ g.flag => (HoldsAt(Append(s, g), Len(s) + 1) <=> g.kind = "Held")
           /\ ~g.flag => (HoldsAt(Append(s, g), Len(s) + 1) <=> HoldsAt(s, Len(s)))
<1> DEFINE r == Append(s, g)
<1>1. /\ Len(r) = Len(s) + 1 /\ Len(s) \in Nat
      /\ \A i \in 1..Len(s) : r[i] = s[i]
      /\ r[Len(s) + 1] = g
  OBVIOUS
<1> HIDE DEF r
<1>2. \A n \in 0..Len(s) : HoldsAt(r, n) <=> HoldsAt(s, n)
  <2> TAKE n \in 0..Len(s)
  <2>1. \A i \in 1..n : r[i] = s[i]
    BY <1>1
  <2>2. \A i \in 1..n : \A j \in (i+1)..n : r[j] = s[j]
    BY <1>1
  <2> QED BY <2>1, <2>2 DEF HoldsAt
<1>3. ASSUME g.flag PROVE HoldsAt(r, Len(s) + 1) <=> g.kind = "Held"
  <2>1. ASSUME NEW i \in 1..(Len(s) + 1), \A j \in (i+1)..(Len(s) + 1) : ~r[j].flag
        PROVE  i = Len(s) + 1
    BY <1>1, <1>3, <2>1
  <2> QED BY <1>1, <1>3, <2>1 DEF HoldsAt
<1>4. ASSUME ~g.flag PROVE HoldsAt(r, Len(s) + 1) <=> HoldsAt(s, Len(s))
  <2>1. HoldsAt(r, Len(s) + 1) <=> HoldsAt(r, Len(s))
    BY <1>1, <1>4 DEF HoldsAt
  <2> QED BY <1>1, <1>2, <2>1
<1> QED BY <1>2, <1>3, <1>4 DEF r

LEMMA HoldsPop ==
    ASSUME NEW s \in Seq(Guard), s # <<>>
    PROVE  LET r == SubSeq(s, 1, Len(s) - 1)
           IN /\ r \in Seq(Guard)
              /\ Len(r) = Len(s) - 1
              /\ \A i \in 1..Len(r) : r[i] = s[i]
              /\ \A n \in 0..Len(r) : HoldsAt(r, n) <=> HoldsAt(s, n)
<1> DEFINE r == SubSeq(s, 1, Len(s) - 1)
<1>1. /\ r \in Seq(Guard)
      /\ Len(s) \in Nat \ {0} /\ Len(r) = Len(s) - 1
      /\ \A i \in 1..Len(r) : r[i] = s[i]
  <2>1. Len(s) \in Nat \ {0} /\ \A i \in 1..(Len(s) - 1) : s[i] \in Guard
    OBVIOUS
  <2> DEFINE m == Len(s) - 1
  <2>2. m \in Nat /\ 1 \in Int /\ m \in Int /\ \A i \in 1..m : s[i] \in Guard
    BY <2>1
  <2> HIDE DEF m
  <2>3. /\ SubSeq(s, 1, m) \in Seq(Guard)
        /\ Len(SubSeq(s, 1, m)) = IF 1 <= m THEN m - 1 + 1 ELSE 0
        /\ \A i \in 1..(m - 1 + 1) : SubSeq(s, 1, m)[i] = s[1 + i - 1]
    BY <2>2, SubSeqProperties
  <2>4. Len(SubSeq(s, 1, m)) = m
    BY <2>2, <2>3
  <2>5. \A i \in 1..m : SubSeq(s, 1, m)[i] = s[i]
    BY <2>2, <2>3
  <2> QED BY <2>1, <2>3, <2>4, <2>5 DEF m
<1> HIDE DEF r
<1>2. \A n \in 0..Len(r) : HoldsAt(r, n) <=> HoldsAt(s, n)
  <2> TAKE n \in 0..Len(r)
  <2>1. \A i \in 1..n : r[i] = s[i]
    BY <1>1
  <2>2. \A i \in 1..n : \A j \in (i+1)..n : r[j] = s[j]
    BY <1>1
  <2> QED BY <2>1, <2>2 DEF HoldsAt
<1> QED BY <1>1, <1>2 DEF r

\* The innermost guard decides when its flag is set and is neutral otherwise.
LEMMA HoldsTop ==
    ASSUME NEW s \in Seq(Guard), s # <<>>
    PROVE  /\ s[Len(s)].flag => (HoldsAt(s, Len(s)) <=> s[Len(s)].kind = "Held")
           /\ ~s[Len(s)].flag => (HoldsAt(s, Len(s)) <=> HoldsAt(s, Len(s) - 1))
<1>1. Len(s) \in Nat \ {0}
  OBVIOUS
<1>2. ASSUME s[Len(s)].flag,
             NEW i \in 1..Len(s), \A j \in (i+1)..Len(s) : ~s[j].flag
      PROVE  i = Len(s)
  BY <1>1, <1>2
<1>3. ASSUME s[Len(s)].flag PROVE HoldsAt(s, Len(s)) <=> s[Len(s)].kind = "Held"
  BY <1>1, <1>2, <1>3 DEF HoldsAt
<1>4. ASSUME ~s[Len(s)].flag PROVE HoldsAt(s, Len(s)) <=> HoldsAt(s, Len(s) - 1)
  BY <1>1, <1>4 DEF HoldsAt
<1> QED BY <1>3, <1>4

LEMMA NestedPush ==
    ASSUME NEW s \in Seq(Guard), NEW g \in Guard, Nested(s),
           g.flag => g.kind # "Poll" /\ (g.kind = "Held" <=> ~HoldsAt(s, Len(s))),
           ~g.flag => /\ g.kind = "Held" => HoldsAt(s, Len(s))
                      /\ g.kind = "Unlocked" => ~HoldsAt(s, Len(s))
    PROVE  Nested(Append(s, g))
<1> DEFINE r == Append(s, g)
<1>1. /\ Len(r) = Len(s) + 1 /\ Len(s) \in Nat
      /\ \A i \in 1..Len(s) : r[i] = s[i]
      /\ r[Len(s) + 1] = g
  OBVIOUS
<1>2. /\ \A n \in 0..Len(s) : HoldsAt(r, n) <=> HoldsAt(s, n)
      /\ g.flag => (HoldsAt(r, Len(s) + 1) <=> g.kind = "Held")
      /\ ~g.flag => (HoldsAt(r, Len(s) + 1) <=> HoldsAt(s, Len(s)))
  BY HoldsPush
<1> HIDE DEF r
<1>3. ASSUME NEW n \in 1..Len(r)
      PROVE  /\ r[n].kind = "Held" => HoldsAt(r, n)
             /\ r[n].kind = "Unlocked" => ~HoldsAt(r, n)
             /\ r[n].flag => /\ r[n].kind # "Poll"
                             /\ r[n].kind = "Held" <=> ~HoldsAt(r, n - 1)
  <2>1. CASE n = Len(s) + 1
    BY <1>1, <1>2, <2>1
  <2>2. CASE n \in 1..Len(s)
    <3>1. r[n] = s[n] /\ n - 1 \in 0..Len(s) /\ n \in 0..Len(s)
      BY <1>1, <2>2
    <3> QED BY <1>2, <2>2, <3>1 DEF Nested
  <2> QED BY <1>1, <2>1, <2>2
<1>4. Nested(r)
  BY <1>3 DEF Nested
<1> QED BY <1>4 DEF r

LEMMA NestedPop ==
    ASSUME NEW s \in Seq(Guard), s # <<>>, Nested(s)
    PROVE  Nested(SubSeq(s, 1, Len(s) - 1))
<1> DEFINE r == SubSeq(s, 1, Len(s) - 1)
<1>1. /\ Len(s) \in Nat \ {0} /\ Len(r) = Len(s) - 1
      /\ \A i \in 1..Len(r) : r[i] = s[i]
      /\ \A n \in 0..Len(r) : HoldsAt(r, n) <=> HoldsAt(s, n)
  BY HoldsPop
<1> HIDE DEF r
<1>2. ASSUME NEW n \in 1..Len(r)
      PROVE  /\ r[n].kind = "Held" => HoldsAt(r, n)
             /\ r[n].kind = "Unlocked" => ~HoldsAt(r, n)
             /\ r[n].flag => /\ r[n].kind # "Poll"
                             /\ r[n].kind = "Held" <=> ~HoldsAt(r, n - 1)
  <2>1. n \in 1..Len(s) /\ r[n] = s[n] /\ n - 1 \in 0..Len(r) /\ n \in 0..Len(r)
    BY <1>1
  <2> QED BY <1>1, <2>1 DEF Nested
<1>3. Nested(r)
  BY <1>2 DEF Nested
<1> QED BY <1>3 DEF r

-----------------------------------------------------------------------------
(* The same facts for the guard stack of one task, across a step. *)

LEMMA PushFacts ==
    ASSUME TypeOK, NEW t \in Tasks, NEW k \in {"Held", "Unlocked", "Poll"},
           NEW f \in BOOLEAN, Push(t, k, f), Nested(guards[t]),
           f => k # "Poll" /\ (k = "Held" <=> ~Inside(t)),
           ~f => (k = "Held" => Inside(t)) /\ (k = "Unlocked" => ~Inside(t))
    PROVE  /\ guards' \in [Tasks -> Seq(Guard)]
           /\ \A u \in Tasks \ {t} : guards'[u] = guards[u]
           /\ Nested(guards'[t])
           /\ f => (Inside(t)' <=> k = "Held")
           /\ ~f => (Inside(t)' <=> Inside(t))
<1> DEFINE g == [kind |-> k, flag |-> f]
<1>1. g \in Guard /\ g.flag = f /\ g.kind = k
  BY DEF Guard
<1>2. guards[t] \in Seq(Guard)
  BY DEF TypeOK
<1>3. /\ guards' = [guards EXCEPT ![t] = Append(guards[t], g)]
      /\ guards'[t] = Append(guards[t], g)
      /\ Append(guards[t], g) \in Seq(Guard)
      /\ Len(Append(guards[t], g)) = Len(guards[t]) + 1
  BY <1>1, <1>2 DEF Push, TypeOK
<1> HIDE DEF g
<1>4. Nested(Append(guards[t], g))
  BY <1>1, <1>2, NestedPush DEF Inside
<1>5. /\ f => (Inside(t)' <=> k = "Held")
      /\ ~f => (Inside(t)' <=> Inside(t))
  BY <1>1, <1>2, <1>3, HoldsPush DEF Inside
<1> QED BY <1>3, <1>4, <1>5 DEF TypeOK

LEMMA PopFacts ==
    ASSUME TypeOK, NEW t \in Tasks, guards[t] # <<>>, Pop(t), Nested(guards[t])
    PROVE  /\ guards' \in [Tasks -> Seq(Guard)]
           /\ \A u \in Tasks \ {t} : guards'[u] = guards[u]
           /\ Nested(guards'[t])
           /\ Top(t).flag => (Inside(t)' <=> ~Inside(t))
           /\ ~Top(t).flag => (Inside(t)' <=> Inside(t))
<1> DEFINE s == guards[t]
           r == SubSeq(s, 1, Len(s) - 1)
<1>1. s \in Seq(Guard) /\ s # <<>> /\ Len(s) \in Nat \ {0}
  BY DEF TypeOK
<1>2. guards'[t] = r /\ guards' = [guards EXCEPT ![t] = r]
  BY DEF Pop, TypeOK
<1>3. /\ r \in Seq(Guard)
      /\ Len(r) = Len(s) - 1
      /\ \A n \in 0..Len(r) : HoldsAt(r, n) <=> HoldsAt(s, n)
  BY <1>1, HoldsPop
<1>4. Nested(r)
  BY <1>1, NestedPop
<1>5. HoldsAt(r, Len(r)) <=> HoldsAt(s, Len(s) - 1)
  BY <1>1, <1>3
<1>6. /\ s[Len(s)].flag => (HoldsAt(s, Len(s)) <=> s[Len(s)].kind = "Held")
      /\ ~s[Len(s)].flag => (HoldsAt(s, Len(s)) <=> HoldsAt(s, Len(s) - 1))
  BY <1>1, HoldsTop
<1>7. s[Len(s)].flag => (s[Len(s)].kind = "Held" <=> ~HoldsAt(s, Len(s) - 1))
  BY <1>1 DEF Nested
<1> HIDE DEF r
<1> QED BY <1>2, <1>3, <1>4, <1>5, <1>6, <1>7 DEF TypeOK, Top, Inside

-----------------------------------------------------------------------------
(* The inductive invariant. *)

\* Where a task stands between the guard calls it makes: which of the mutex
\* and HOLDER it has at each step of take and give, and which guard it is
\* creating or dropping.
TaskInv(t) ==
    /\ Nested(guards[t])
    /\ mutex.owner = t <=> pc[t] \in {"store", "clear", "unlock"} \/ Interpreting(t)
    /\ HOLDER = t <=> pc[t] = "clear" \/ Interpreting(t)
    /\ pc[t] \in {"clear", "unlock", "yield"} =>
          /\ Inside(t) /\ op[t] # "acquire"
          /\ op[t] = "drop" => guards[t] # <<>> /\ Top(t).flag
    /\ pc[t] \in {"lock", "store"} =>
          /\ op[t] # "unlocked"
          /\ op[t] = "drop" => guards[t] # <<>> /\ Top(t).flag
    /\ pc[t] \in {"lock", "store", "blocked"} => ~Inside(t)

LockInv ==
    /\ TypeOK
    /\ mutex.owner = NoTask <=> mutex.count = 0
    /\ \A t \in Tasks : TaskInv(t)

LEMMA InitLockInv == Init => LockInv
<1> SUFFICES ASSUME Init PROVE LockInv
  OBVIOUS
<1>1. ready \in Seq(Tasks)
  <2>1. Cardinality(Tasks) \in Nat
    BY TasksAssumption, FS_CardinalityType
  <2> QED BY <2>1 DEF Init, Orders
<1>2. TypeOK
  BY <1>1 DEF Init, TypeOK, PC, Op, Guard
<1>3. ASSUME NEW t \in Tasks PROVE TaskInv(t)
  BY TasksAssumption DEF Init, TaskInv, Nested, Interpreting, Inside, HoldsAt
<1> QED BY <1>2, <1>3 DEF Init, LockInv

\* A task that a step leaves alone keeps its part of the invariant.
LEMMA Bystander ==
    ASSUME LockInv, NEW u \in Tasks,
           pc'[u] = pc[u], op'[u] = op[u], guards'[u] = guards[u],
           mutex'.owner = u <=> mutex.owner = u,
           HOLDER' = u <=> HOLDER = u
    PROVE  TaskInv(u)'
BY DEF LockInv, TaskInv, Interpreting, Inside, Top

-----------------------------------------------------------------------------
(* Each action preserves the invariant. *)

LEMMA ApiCallInv ==
    ASSUME LockCreated, LockInv, NEW t \in Tasks, ApiCall(t)
    PROVE  LockInv'
<1> USE DEF LockInv
<1>1. TypeOK /\ TaskInv(t)
  OBVIOUS
<1>2. /\ pc[t] = "run"
      /\ UNCHANGED <<HOLDER, mutex, waiters, ready>>
  BY DEF ApiCall, Acquire, Unlocked, UnlockedForNone, DropHeld, DropUnlocked,
         CanPush, CanPop
<1>3. HOLDER = t <=> Inside(t)
  BY <1>1, <1>2 DEF TaskInv, Interpreting
<1>4. ASSUME NEW k \in {"Held", "Unlocked", "Poll"}, Push(t, k, FALSE),
             UNCHANGED <<pc, op>>,
             k = "Held" => Inside(t), k = "Unlocked" => ~Inside(t)
      PROVE  LockInv'
  <2>1. /\ guards' \in [Tasks -> Seq(Guard)]
        /\ \A u \in Tasks \ {t} : guards'[u] = guards[u]
        /\ Nested(guards'[t])
        /\ Inside(t)' <=> Inside(t)
    BY <1>1, <1>4, PushFacts DEF TaskInv
  <2>2. TaskInv(t)'
    BY <1>1, <1>2, <1>4, <2>1 DEF TaskInv, Interpreting
  <2>3. ASSUME NEW u \in Tasks \ {t} PROVE TaskInv(u)'
    BY <1>2, <1>4, <2>1, Bystander
  <2>4. TypeOK'
    BY <1>1, <1>2, <1>4, <2>1 DEF TypeOK
  <2> QED BY <1>2, <2>2, <2>3, <2>4
<1>5. ASSUME guards[t] # <<>>, ~Top(t).flag, Pop(t), UNCHANGED <<pc, op>>
      PROVE  LockInv'
  <2>1. /\ guards' \in [Tasks -> Seq(Guard)]
        /\ \A u \in Tasks \ {t} : guards'[u] = guards[u]
        /\ Nested(guards'[t])
        /\ Inside(t)' <=> Inside(t)
    BY <1>1, <1>5, PopFacts DEF TaskInv
  <2>2. TaskInv(t)'
    BY <1>1, <1>2, <1>5, <2>1 DEF TaskInv, Interpreting
  <2>3. ASSUME NEW u \in Tasks \ {t} PROVE TaskInv(u)'
    BY <1>2, <1>5, <2>1, Bystander
  <2>4. TypeOK'
    BY <1>1, <1>2, <1>5, <2>1 DEF TypeOK
  <2> QED BY <1>2, <2>2, <2>3, <2>4
<1>6. ASSUME NEW l \in {"lock", "clear"}, NEW o \in Op, Call(t, l, o), UNCHANGED guards,
             l = "lock" => ~Inside(t) /\ o # "unlocked",
             l = "clear" => Inside(t) /\ o # "acquire",
             o = "drop" => guards[t] # <<>> /\ Top(t).flag
      PROVE  LockInv'
  <2>1. TypeOK' /\ pc'[t] = l /\ op'[t] = o
    BY <1>1, <1>2, <1>6 DEF TypeOK, Call, Goto, PC
  <2>2. Inside(t)' <=> Inside(t)
    BY <1>6 DEF Inside
  <2>3. TaskInv(t)'
    BY <1>1, <1>2, <1>6, <2>1, <2>2 DEF TaskInv, Interpreting, Top
  <2>4. ASSUME NEW u \in Tasks \ {t} PROVE TaskInv(u)'
    <3>1. pc'[u] = pc[u] /\ op'[u] = op[u]
      BY <1>1, <1>6 DEF Call, Goto, TypeOK
    <3> QED BY <1>2, <1>6, <3>1, Bystander
  <2> QED BY <1>2, <2>1, <2>3, <2>4
<1>7. CASE Acquire(t)
  BY <1>3, <1>4, <1>6, <1>7 DEF Acquire, TakeReturnsFalse, Op
<1>8. CASE Unlocked(t)
  BY <1>3, <1>4, <1>6, <1>8 DEF Unlocked, holds, Op
<1>9. CASE UnlockedForNone(t)
  BY <1>4, <1>9 DEF UnlockedForNone
<1>10. guards[t] # <<>> /\ Top(t).flag =>
          Top(t).kind # "Poll" /\ (Inside(t) <=> Top(t).kind = "Held")
  <2> SUFFICES ASSUME guards[t] # <<>>, Top(t).flag
               PROVE  Top(t).kind # "Poll" /\ (Inside(t) <=> Top(t).kind = "Held")
    OBVIOUS
  <2>1. guards[t] \in Seq(Guard) /\ Len(guards[t]) \in 1..Len(guards[t])
    BY <1>1 DEF TypeOK
  <2>2. Top(t).kind # "Poll"
    BY <1>1, <2>1 DEF TaskInv, Nested, Top
  <2> QED BY <2>1, <2>2, HoldsTop DEF Inside, Top
<1>11. CASE DropHeld(t)
  BY <1>5, <1>6, <1>10, <1>11 DEF DropHeld, CanPop, Op
<1>12. CASE DropUnlocked(t)
  <2>1. guards[t] # <<>> /\ Top(t).kind # "Held"
    BY <1>12 DEF DropUnlocked, CanPop
  <2>2. Top(t).flag => ~Inside(t) /\ ~TakeReturnsFalse(t)
    BY <1>3, <1>10, <2>1 DEF TakeReturnsFalse
  <2> QED BY <1>5, <1>6, <1>12, <2>1, <2>2 DEF DropUnlocked, Op
<1> QED BY <1>7, <1>8, <1>9, <1>11, <1>12 DEF ApiCall

LEMMA TakeInv ==
    ASSUME LockInv, NEW t \in Tasks, TakeLock(t) \/ TakeStore(t)
    PROVE  LockInv'
<1> USE DEF LockInv
<1>1. TypeOK /\ TaskInv(t)
  OBVIOUS
<1>2. ready # <<>> /\ Tail(ready) \in Seq(Tasks)
  BY <1>1, HeadTailProperties DEF TakeLock, TakeStore, Running, TypeOK
<1>3. CASE TakeLock(t)
  <2>1. pc[t] = "lock" /\ mutex.owner # t /\ ~Inside(t)
    BY <1>1, <1>3 DEF TakeLock, TaskInv, Interpreting
  <2>2. CASE mutex.owner = NoTask
    <3>1. /\ mutex' = [owner |-> t, count |-> 1]
          /\ pc' = [pc EXCEPT ![t] = "store"]
          /\ UNCHANGED <<waiters, ready, HOLDER, op, guards>>
      BY <1>1, <1>3, <2>2 DEF TakeLock, Goto, TypeOK
    <3>2. TypeOK' /\ mutex'.owner = t /\ mutex'.count = 1 /\ pc'[t] = "store"
      BY <1>1, <3>1 DEF TypeOK, PC
    <3>3. TaskInv(t)'
      BY <1>1, <2>1, <3>1, <3>2 DEF TaskInv, Interpreting, Inside, Top
    <3>4. ASSUME NEW u \in Tasks \ {t} PROVE TaskInv(u)'
      BY <1>1, <2>2, <3>1, <3>2, Bystander, TasksAssumption DEF TypeOK
    <3> QED BY <3>2, <3>3, <3>4, TasksAssumption
  <2>3. CASE mutex.owner # NoTask
    <3>1. /\ waiters' = Append(waiters, t) /\ ready' = Tail(ready)
          /\ UNCHANGED <<mutex, pc, HOLDER, op, guards>>
      BY <1>3, <2>1, <2>3 DEF TakeLock
    <3>2. TypeOK'
      BY <1>1, <1>2, <3>1 DEF TypeOK
    <3>3. ASSUME NEW u \in Tasks PROVE TaskInv(u)'
      BY <3>1, Bystander
    <3> QED BY <3>1, <3>2, <3>3
  <2> QED BY <2>2, <2>3
<1>4. CASE TakeStore(t)
  <2>1. /\ pc[t] = "store" /\ mutex.owner = t /\ ~Inside(t)
        /\ op[t] # "unlocked"
        /\ op[t] = "drop" => guards[t] # <<>> /\ Top(t).flag
        /\ Nested(guards[t])
    BY <1>1, <1>4 DEF TakeStore, TaskInv
  <2>2. /\ HOLDER' = t /\ pc' = [pc EXCEPT ![t] = "run"]
        /\ UNCHANGED <<mutex, waiters, ready, op>>
    BY <1>4 DEF TakeStore, Goto
  <2>3. /\ guards' \in [Tasks -> Seq(Guard)]
        /\ \A u \in Tasks \ {t} : guards'[u] = guards[u]
        /\ Nested(guards'[t])
        /\ Inside(t)'
    <3>1. CASE op[t] = "acquire"
      BY <1>1, <1>4, <2>1, <3>1, PushFacts DEF TakeStore
    <3>2. CASE op[t] = "drop"
      BY <1>1, <1>4, <2>1, <3>2, PopFacts DEF TakeStore
    <3> QED BY <1>1, <2>1, <3>1, <3>2 DEF TypeOK, Op
  <2>4. TypeOK' /\ pc'[t] = "run"
    BY <1>1, <2>2, <2>3 DEF TypeOK, PC
  <2>5. TaskInv(t)'
    BY <2>1, <2>2, <2>3, <2>4 DEF TaskInv, Interpreting
  <2>6. ASSUME NEW u \in Tasks \ {t} PROVE TaskInv(u)'
    <3>1. HOLDER # u
      BY <2>1 DEF TaskInv
    <3>2. pc'[u] = pc[u]
      BY <1>1, <2>2 DEF TypeOK
    <3> QED BY <2>2, <2>3, <3>1, <3>2, Bystander
  <2> QED BY <2>2, <2>4, <2>5, <2>6
<1> QED BY <1>3, <1>4

LEMMA GiveInv ==
    ASSUME LockInv, NEW t \in Tasks, GiveClear(t) \/ GiveUnlock(t) \/ GiveYield(t)
    PROVE  LockInv'
<1> USE DEF LockInv
<1>1. TypeOK /\ TaskInv(t)
  OBVIOUS
<1>2. ready # <<>> /\ Tail(ready) \in Seq(Tasks)
  BY <1>1, HeadTailProperties DEF GiveClear, GiveUnlock, GiveYield, Running, TypeOK
<1>3. CASE GiveClear(t)
  <2>1. pc[t] = "clear" /\ HOLDER = t /\ mutex.owner = t /\ Inside(t)
    BY <1>1, <1>3 DEF GiveClear, TaskInv
  <2>2. /\ HOLDER' = NoTask /\ pc' = [pc EXCEPT ![t] = "unlock"]
        /\ UNCHANGED <<mutex, waiters, ready, op, guards>>
    BY <1>3 DEF GiveClear, Goto
  <2>3. TypeOK' /\ pc'[t] = "unlock"
    BY <1>1, <2>2 DEF TypeOK, PC
  <2>4. TaskInv(t)'
    BY <1>1, <2>1, <2>2, <2>3, TasksAssumption DEF TaskInv, Interpreting, Inside, Top
  <2>5. ASSUME NEW u \in Tasks \ {t} PROVE TaskInv(u)'
    BY <1>1, <2>1, <2>2, Bystander, TasksAssumption DEF TypeOK
  <2> QED BY <2>2, <2>3, <2>4, <2>5
<1>4. CASE GiveUnlock(t)
  <2>1. pc[t] = "unlock" /\ HOLDER # t /\ mutex.owner = t /\ Inside(t)
    BY <1>1, <1>4 DEF GiveUnlock, TaskInv, Interpreting
  <2>2. mutex.count = 1
    BY <1>1, <2>1, TasksAssumption DEF TypeOK
  <2>3. /\ mutex' = [owner |-> NoTask, count |-> 0]
        /\ pc' = [pc EXCEPT ![t] = "yield"]
        /\ UNCHANGED <<HOLDER, op, guards>>
    BY <1>4, <2>1, <2>2 DEF GiveUnlock, KernelUnlock, Goto
  <2>4. ready' \in Seq(Tasks) /\ waiters' \in Seq(Tasks)
    <3>1. CASE waiters = <<>>
      BY <1>1, <1>4, <2>1, <3>1 DEF GiveUnlock, KernelUnlock, TypeOK
    <3>2. CASE waiters # <<>>
      <4>1. Head(waiters) \in Tasks /\ Tail(waiters) \in Seq(Tasks)
        BY <1>1, <3>2, HeadTailProperties DEF TypeOK
      <4>2. waiters' = Tail(waiters) /\ ready' = Append(ready, Head(waiters))
        BY <1>4, <2>1, <2>2, <3>2 DEF GiveUnlock, KernelUnlock
      <4> QED BY <1>1, <4>1, <4>2 DEF TypeOK
    <3> QED BY <3>1, <3>2
  <2>5. TypeOK' /\ pc'[t] = "yield" /\ mutex'.owner = NoTask /\ mutex'.count = 0
    BY <1>1, <2>3, <2>4 DEF TypeOK, PC
  <2>6. TaskInv(t)'
    BY <1>1, <2>1, <2>3, <2>5, TasksAssumption DEF TaskInv, Interpreting, Inside, Top
  <2>7. ASSUME NEW u \in Tasks \ {t} PROVE TaskInv(u)'
    BY <1>1, <2>1, <2>3, <2>5, Bystander, TasksAssumption DEF TypeOK
  <2> QED BY <2>5, <2>6, <2>7
<1>5. CASE GiveYield(t)
  <2>1. /\ pc[t] = "yield" /\ mutex.owner # t /\ HOLDER # t /\ Inside(t)
        /\ op[t] # "acquire"
        /\ op[t] = "drop" => guards[t] # <<>> /\ Top(t).flag
        /\ Nested(guards[t])
    BY <1>1, <1>5 DEF GiveYield, TaskInv, Interpreting
  <2>2. /\ ready' = Append(Tail(ready), t) /\ pc' = [pc EXCEPT ![t] = "run"]
        /\ UNCHANGED <<HOLDER, mutex, waiters, op>>
    BY <1>5 DEF GiveYield, Goto
  <2>3. /\ guards' \in [Tasks -> Seq(Guard)]
        /\ \A u \in Tasks \ {t} : guards'[u] = guards[u]
        /\ Nested(guards'[t])
        /\ ~Inside(t)'
    <3>1. CASE op[t] = "unlocked"
      BY <1>1, <1>5, <2>1, <3>1, PushFacts DEF GiveYield
    <3>2. CASE op[t] = "drop"
      BY <1>1, <1>5, <2>1, <3>2, PopFacts DEF GiveYield
    <3> QED BY <1>1, <2>1, <3>1, <3>2 DEF TypeOK, Op
  <2>4. TypeOK' /\ pc'[t] = "run"
    <3>1. ready' \in Seq(Tasks)
      BY <1>2, <2>2
    <3> QED BY <1>1, <2>2, <2>3, <3>1 DEF TypeOK, PC
  <2>5. TaskInv(t)'
    BY <2>1, <2>2, <2>3, <2>4 DEF TaskInv, Interpreting
  <2>6. ASSUME NEW u \in Tasks \ {t} PROVE TaskInv(u)'
    BY <1>1, <2>2, <2>3, Bystander DEF TypeOK
  <2> QED BY <2>2, <2>4, <2>5, <2>6
<1> QED BY <1>3, <1>4, <1>5

\* Blocking, waking and what the kernel does to its lists move no lock.
LEMMA KernelInv ==
    ASSUME LockInv, NEW t \in Tasks,
           Block(t) \/ Wake(t) \/ AbortDelay(t) \/ Rotate
    PROVE  LockInv'
<1> USE DEF LockInv
<1>1. TypeOK /\ TaskInv(t)
  OBVIOUS
<1>2. CASE Block(t) \/ Wake(t)
  <2>1. UNCHANGED <<HOLDER, mutex, waiters, op, guards>> /\ pc[t] \in {"run", "blocked"}
    BY <1>2 DEF Block, Wake
  <2>2. ~Inside(t)
    <3>1. CASE Wake(t)
      BY <1>1, <3>1 DEF Wake, TaskInv
    <3>2. CASE Block(t)
      <4>1. guards[t] \in Seq(Guard) /\ guards[t] # <<>> /\ Top(t).kind = "Unlocked"
        BY <1>1, <3>2 DEF Block, TypeOK
      <4>2. Len(guards[t]) \in 1..Len(guards[t])
        BY <4>1
      <4> QED BY <1>1, <4>1, <4>2 DEF TaskInv, Nested, Inside, Top
    <3> QED BY <1>2, <3>1, <3>2
  <2>3. ready' \in Seq(Tasks)
    <3>1. CASE Wake(t)
      BY <1>1, <3>1 DEF Wake, TypeOK
    <3>2. CASE Block(t)
      BY <1>1, <3>2, HeadTailProperties DEF Block, Running, TypeOK
    <3> QED BY <1>2, <3>1, <3>2
  <2>4. PICK l \in {"run", "blocked"} : pc' = [pc EXCEPT ![t] = l]
    BY <1>2 DEF Block, Wake, Goto
  <2>5. TypeOK' /\ pc'[t] = l
    BY <1>1, <2>1, <2>3, <2>4 DEF TypeOK, PC
  <2>6. TaskInv(t)'
    BY <1>1, <2>1, <2>2, <2>5 DEF TaskInv, Interpreting, Inside
  <2>7. ASSUME NEW u \in Tasks \ {t} PROVE TaskInv(u)'
    BY <1>1, <2>1, <2>4, Bystander DEF TypeOK
  <2> QED BY <2>1, <2>5, <2>6, <2>7
<1>3. CASE AbortDelay(t) \/ Rotate
  <2>1. UNCHANGED <<HOLDER, mutex, pc, op, guards>>
    BY <1>3 DEF AbortDelay, Rotate
  <2>2. ready' \in Seq(Tasks) /\ waiters' \in Seq(Tasks)
    <3>1. CASE Rotate
      <4>1. ready # <<>>
        BY <3>1 DEF Rotate
      <4>2. Head(ready) \in Tasks /\ Tail(ready) \in Seq(Tasks)
        BY <1>1, <4>1, HeadTailProperties DEF TypeOK
      <4> QED BY <1>1, <3>1, <4>2 DEF Rotate, TypeOK
    <3>2. CASE AbortDelay(t)
      <4>1. PICK i \in 1..Len(waiters) :
               waiters' = SubSeq(waiters, 1, i-1) \o SubSeq(waiters, i+1, Len(waiters))
        BY <3>2 DEF AbortDelay
      <4>2. waiters \in Seq(Tasks) /\ Len(waiters) \in Nat
        BY <1>1 DEF TypeOK
      <4>3. /\ 1 \in Int /\ i - 1 \in Int
            /\ \A j \in 1..(i-1) : waiters[j] \in Tasks
        BY <4>2
      <4>4. /\ i + 1 \in Int /\ Len(waiters) \in Int
            /\ \A j \in (i+1)..Len(waiters) : waiters[j] \in Tasks
        BY <4>2
      <4>5. SubSeq(waiters, 1, i-1) \in Seq(Tasks)
        BY <4>3, SubSeqProperties
      <4>6. SubSeq(waiters, i+1, Len(waiters)) \in Seq(Tasks)
        BY <4>4, SubSeqProperties
      <4> QED BY <1>1, <3>2, <4>1, <4>5, <4>6, SMTT(30) DEF AbortDelay, TypeOK
    <3> QED BY <1>3, <3>1, <3>2
  <2>3. TypeOK'
    BY <1>1, <2>1, <2>2 DEF TypeOK
  <2>4. ASSUME NEW u \in Tasks PROVE TaskInv(u)'
    BY <2>1, Bystander
  <2> QED BY <2>1, <2>3, <2>4
<1> QED BY <1>2, <1>3

-----------------------------------------------------------------------------
(* The theorems. *)

\* Every step of run_lock.rs's callers and of the kernel keeps the mutex, the
\* HOLDER word and the guards of every task in agreement.
THEOREM LockInvariance ==
    ASSUME LockCreated
    PROVE  Spec => []LockInv
<1>1. LockInv /\ [Next]_vars => LockInv'
  <2> SUFFICES ASSUME LockInv, [Next]_vars PROVE LockInv'
    OBVIOUS
  <2>1. ASSUME NEW t \in Tasks, TaskStep(t) \/ Wake(t) \/ AbortDelay(t)
        PROVE  LockInv'
    BY <2>1, ApiCallInv, TakeInv, GiveInv, KernelInv DEF TaskStep, TakeGive
  <2>2. CASE Rotate
    <3>1. PICK t : t \in Tasks
      <4>1. ready # <<>> /\ ready \in Seq(Tasks)
        BY <2>2 DEF Rotate, LockInv, TypeOK
      <4> QED BY <4>1, HeadTailProperties
    <3> QED BY <2>2, <3>1, KernelInv
  <2>3. CASE UNCHANGED vars
    BY <2>3 DEF vars, LockInv, TypeOK, TaskInv, Interpreting, Inside, Top
  <2> QED BY <2>1, <2>2, <2>3 DEF Next
<1> QED BY <1>1, InitLockInv, PTL DEF Spec

\* Type correctness; in particular the recursive mutex is never taken twice.
THEOREM TypeCorrect ==
    ASSUME LockCreated
    PROVE  Spec => []TypeOK
<1>1. LockInv => TypeOK
  BY DEF LockInv
<1> QED BY <1>1, LockInvariance, PTL

\* At most one task interprets Java, for any number of tasks, any nesting of
\* guards, any preemption and any number of aborted waits.
THEOREM MutualExclusion ==
    ASSUME LockCreated
    PROVE  Spec => []OneInterpreter
<1>1. LockInv => OneInterpreter
  BY DEF LockInv, TaskInv, OneInterpreter
<1> QED BY <1>1, LockInvariance, PTL

\* holds() answers what the guards of the calling task promise.
THEOREM HolderIsTruthful ==
    ASSUME LockCreated
    PROVE  Spec => []HolderTruthful
<1>1. LockInv => HolderTruthful
  BY DEF LockInv, TaskInv, HolderTruthful, Interpreting, holds
<1> QED BY <1>1, LockInvariance, PTL

\* No task waits, in a seam wrapper or for the lock, with the mutex held.
THEOREM NoHoldAndWait ==
    ASSUME LockCreated
    PROVE  Spec => []NeverBlocksHolding
<1>1. LockInv => NeverBlocksHolding
  BY DEF LockInv, TaskInv, NeverBlocksHolding, Interpreting
<1> QED BY <1>1, LockInvariance, PTL

\* The three together: what the heap and the blocking seams rest on.
THEOREM LockSafety ==
    ASSUME LockCreated
    PROVE  Spec => []LockSafe
<1>1. TypeOK /\ OneInterpreter /\ HolderTruthful /\ NeverBlocksHolding => LockSafe
  BY DEF LockSafe
<1> QED BY <1>1, TypeCorrect, MutualExclusion, HolderIsTruthful, NoHoldAndWait, PTL

\* Held and Unlocked scopes mean what their types say at every depth.
THEOREM ScopesNest ==
    ASSUME LockCreated
    PROVE  Spec => []GuardsNest
<1>1. LockInv => GuardsNest
  BY DEF LockInv, TaskInv, GuardsNest
<1> QED BY <1>1, LockInvariance, PTL

-----------------------------------------------------------------------------
(* The run lock implements JavaExclusion. *)

Interpreters == {t \in Tasks : Interpreting(t)}

LEMMA StepRefines ==
    ASSUME LockInv, LockInv', [Next]_vars
    PROVE  [Exclusion!Next]_Interpreters
<1> DEFINE In == {u \in Tasks : HOLDER = u /\ pc[u] = "run"}
<1>1. Interpreters = In
  BY DEF LockInv, TaskInv, Interpreters, Interpreting
<1>2. Interpreters' = In'
  BY DEF LockInv, TaskInv, Interpreters, Interpreting
<1>3. TypeOK
  BY DEF LockInv
<1>4. ASSUME NEW t \in Tasks, ApiCall(t) PROVE [Exclusion!Next]_Interpreters
  <2>1. /\ pc[t] = "run" /\ HOLDER' = HOLDER
        /\ \/ pc' = pc
           \/ \E l \in {"lock", "clear"} : pc' = [pc EXCEPT ![t] = l]
    BY <1>4 DEF ApiCall, Acquire, Unlocked, UnlockedForNone, DropHeld, DropUnlocked,
                CanPush, CanPop, Call, Goto
  <2>2. CASE pc' = pc \/ HOLDER # t
    <3>1. In' = In
      BY <1>3, <2>1, <2>2 DEF TypeOK
    <3> QED BY <1>1, <1>2, <3>1
  <2>3. CASE pc' # pc /\ HOLDER = t
    <3>1. In = {t} /\ In' = {}
      BY <1>3, <2>1, <2>3 DEF TypeOK
    <3> QED BY <1>1, <1>2, <3>1 DEF Exclusion!Next, Exclusion!Leave, Interpreters
  <2> QED BY <2>2, <2>3
<1>5. ASSUME NEW t \in Tasks, TakeStore(t) PROVE [Exclusion!Next]_Interpreters
  <2>1. pc[t] = "store" /\ HOLDER' = t /\ pc' = [pc EXCEPT ![t] = "run"]
    BY <1>5 DEF TakeStore, Goto
  <2>2. mutex.owner = t /\ \A u \in Tasks : HOLDER = u => mutex.owner = u
    BY <2>1 DEF LockInv, TaskInv
  <2>3. In = {} /\ In' = {t}
    BY <1>3, <2>1, <2>2 DEF TypeOK
  <2> QED BY <1>1, <1>2, <2>3 DEF Exclusion!Next, Exclusion!Enter, Interpreters
<1>6. ASSUME NEW t \in Tasks,
             TakeLock(t) \/ GiveClear(t) \/ GiveUnlock(t) \/ GiveYield(t)
               \/ Block(t) \/ Wake(t) \/ AbortDelay(t)
      PROVE  [Exclusion!Next]_Interpreters
  <2>1. \/ pc' = pc /\ HOLDER' = HOLDER
        \/ /\ \E l \in PC : pc' = [pc EXCEPT ![t] = l]
           /\ HOLDER' = HOLDER /\ HOLDER # t
        \/ /\ pc[t] = "clear" /\ HOLDER = t /\ HOLDER' = NoTask
           /\ pc' = [pc EXCEPT ![t] = "unlock"]
    <3>1. CASE GiveClear(t)
      BY <3>1 DEF GiveClear, Goto, LockInv, TaskInv
    <3>2. CASE TakeLock(t) \/ AbortDelay(t)
      BY <3>2 DEF TakeLock, AbortDelay, Goto, PC, LockInv, TaskInv, Interpreting
    <3>3. CASE GiveUnlock(t) \/ GiveYield(t) \/ Wake(t)
      BY <3>3 DEF GiveUnlock, GiveYield, Wake, Goto, PC, LockInv, TaskInv, Interpreting
    <3>4. CASE Block(t)
      <4>1. pc'[t] = "blocked" /\ HOLDER' = HOLDER /\ pc' = [pc EXCEPT ![t] = "blocked"]
        BY <1>3, <3>4 DEF Block, Goto, TypeOK
      <4>2. HOLDER' # t
        BY <4>1 DEF LockInv, TaskInv, Interpreting
      <4> QED BY <4>1, <4>2 DEF PC
    <3> QED BY <1>6, <3>1, <3>2, <3>3, <3>4
  <2>2. In' = In
    BY <1>3, <2>1, TasksAssumption DEF TypeOK
  <2> QED BY <1>1, <1>2, <2>2
<1>7. CASE Rotate \/ UNCHANGED vars
  <2>1. pc' = pc /\ HOLDER' = HOLDER
    BY <1>7 DEF Rotate, vars
  <2> QED BY <1>1, <1>2, <2>1
<1> QED BY <1>4, <1>5, <1>6, <1>7 DEF Next, TaskStep, TakeGive

\* run_lock.rs implements the heap's contract: a task starts interpreting
\* only when no task does.
THEOREM RefinesExclusion ==
    ASSUME LockCreated
    PROVE  Spec => ImplementsExclusion
<1>1. Init => Exclusion!Init
  BY DEF Init, Exclusion!Init, Interpreting, Inside, HoldsAt
<1>2. LockInv /\ LockInv' /\ [Next]_vars => [Exclusion!Next]_Interpreters
  BY StepRefines
<1> QED BY <1>1, <1>2, LockInvariance, PTL
       DEF Spec, ImplementsExclusion, Exclusion!Spec, Interpreters
=============================================================================
