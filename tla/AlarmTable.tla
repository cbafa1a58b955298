----------------------------- MODULE AlarmTable -----------------------------
\* The alarm table of picodroid-core alarms.rs: what set, cancel, poll and
\* take_due_for make of a table, and the horizon that summarises it.
EXTENDS Integers, FiniteSets, FiniteSetsExt

CONSTANTS CAPACITY, PER_PACKAGE, MAX_WAKE_ATTEMPTS,
          Free,   \* an empty slot
          Keys    \* an alarm's class, request code and target, as one value

ASSUME TableAssumption ==
    /\ {CAPACITY, PER_PACKAGE, MAX_WAKE_ATTEMPTS} \subseteq Nat \ {0}
    /\ PER_PACKAGE <= CAPACITY

Slots == 1..CAPACITY
Clocks == {"Rtc", "Elapsed"}

\* State: `asked` says that wake_gen is the generation of this run.
Armed == [asked |-> FALSE, attempts |-> 0]
Firing_Restarted(n) == [asked |-> TRUE, attempts |-> 1]
Firing(n) == [asked |-> TRUE, attempts |-> n]
is_firing(e) == e.state.attempts > 0

\* Both clocks are numbers of ms; `now` has a reading for each.
is_due(e, now) == now[e.clock] >= e.at

Rows(t) == {i \in Slots : t[i] # Free}
ArmedOf_Firing(t, owner) == {i \in Rows(t) : t[i].owner = owner}
ArmedOf(t, owner) == {i \in Rows(t) : ~is_firing(t[i]) /\ t[i].owner = owner}

\* The earliest trigger wins, the lower slot on a tie.
Earliest(t, among) ==
    CHOOSE i \in among : \A j \in among : t[i].at < t[j].at \/ (t[i].at = t[j].at /\ i <= j)

-----------------------------------------------------------------------------
\* Horizon::of and due: when poll can have something to decide.
Never == -1
EarliestOn(t, clock) ==
    LET at == {t[i].at : i \in {r \in Rows(t) : ~is_firing(t[r]) /\ t[r].clock = clock}}
    IN  IF at = {} THEN Never ELSE Min(at)

HorizonOf(t) == [Elapsed |-> EarliestOn(t, "Elapsed"), Rtc |-> EarliestOn(t, "Rtc"),
                 firing |-> \E i \in Rows(t) : is_firing(t[i])]

due(h, now) == h.firing \/ \E c \in Clocks : h[c] # Never /\ now[c] >= h[c]

-----------------------------------------------------------------------------
\* set: the slot it writes, none when it refuses.
SlotFor(t, owner, key) ==
    LET same == {i \in ArmedOf(t, owner) : t[i].key = key}
        room == Cardinality(ArmedOf(t, owner)) < PER_PACKAGE /\ Rows(t) # Slots
    IN  same \cup {i \in Slots \ Rows(t) :
                    same = {} /\ room /\ i = Min(Slots \ Rows(t))}

cancelled(t, owner, key) ==
    [i \in Slots |-> IF i \in ArmedOf(t, owner) /\ t[i].key = key THEN Free ELSE t[i]]

\* A new run begins: what was asked for in the last one is no longer of this run.
NextRun(t) == [i \in Slots |-> IF t[i] = Free THEN Free ELSE [t[i] EXCEPT !.state.asked = FALSE]]

\* poll: rows of packages that are gone leave; then at most one row acts.
Installed(t, installed) ==
    [i \in Slots |-> IF i \in Rows(t) /\ t[i].owner \notin installed THEN Free ELSE t[i]]

NoAction == [do |-> "nothing", owner |-> Free]

decide(t, now, running, launch_pending) ==
    LET able == {i \in Rows(t) : is_firing(t[i]) \/ is_due(t[i], now)}
        i == Earliest(t, able)
        e == t[i]
        wake == [table |-> [t EXCEPT ![i].state = Firing(e.state.attempts + 1)],
                 action |-> [do |-> "wake", owner |-> e.owner]]
    IN  CASE able = {} \/ launch_pending -> [table |-> t, action |-> NoAction]
          [] able # {} /\ ~launch_pending /\ e.owner = running ->
                [table |-> [t EXCEPT ![i] = Free], action |-> [do |-> "fire", owner |-> e.owner]]
          [] able # {} /\ ~launch_pending /\ e.owner # running ->
                CASE e.state.asked -> [table |-> t, action |-> NoAction]
                  [] ~e.state.asked /\ e.state.attempts >= MAX_WAKE_ATTEMPTS ->
                        [table |-> [t EXCEPT ![i] = Free], action |-> NoAction]
                  [] ~e.state.asked /\ e.state.attempts < MAX_WAKE_ATTEMPTS -> wake

poll(t, now, running, installed, launch_pending) ==
    decide(Installed(t, installed), now, running, launch_pending)

\* take_due_for: the slots whose alarm the running app can still be given.
DueFor(t, now, running) ==
    {i \in Rows(t) : t[i].owner = running /\ (is_firing(t[i]) \/ is_due(t[i], now))}
=============================================================================
