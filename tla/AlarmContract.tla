--------------------------- MODULE AlarmContract ---------------------------
\* What AlarmManager promises (alarms.rs module docs, docs of setExact and
\* cancel): an alarm stays until its app replaces or cancels it, it is fired, or
\* its app is gone.  Once it has been triggered the app can no longer touch it,
\* and it is fired in a run of its own app only.  How the app is started, and
\* how often that is tried, is not said here.
EXTENDS Integers, FiniteSets

CONSTANTS Slots, Free, PerPackage

VARIABLES alarms,       \* the promises, each with its owner, trigger and key
          running, installed,
          elapsed, wall \* the two clocks

contractVars == <<alarms, running, installed, elapsed, wall>>

Due(a) == (IF a.clock = "Rtc" THEN wall ELSE elapsed) >= a.at
Armed(a) == a # Free /\ ~a.triggered
SameAlarm(a, b) == a.owner = b.owner /\ a.key = b.key

\* Only the running app arms, and it replaces no alarm but the same one.
Set(i) == /\ Armed(alarms'[i]) /\ alarms'[i].owner = running
          /\ \/ alarms[i] = Free
             \/ Armed(alarms[i]) /\ SameAlarm(alarms[i], alarms'[i])

Cancel(i) == Armed(alarms[i]) /\ alarms[i].owner = running /\ alarms'[i] = Free

Trigger(i) == /\ Armed(alarms[i]) /\ Due(alarms[i]) /\ alarms[i].owner # running
              /\ alarms'[i] = [alarms[i] EXCEPT !.triggered = TRUE]

Fire(i) == /\ alarms[i] # Free /\ alarms[i].owner = running
           /\ alarms[i].triggered \/ Due(alarms[i])
           /\ alarms'[i] = Free

Forget(i) == alarms[i] # Free /\ alarms[i].owner \notin installed /\ alarms'[i] = Free
GiveUp(i) == /\ alarms[i] # Free /\ alarms[i].triggered /\ alarms[i].owner # running
             /\ alarms'[i] = Free

\* A step of the device: every promise is kept, and no two are for one alarm.
Kept(i) == \/ alarms'[i] = alarms[i]
           \/ Set(i) \/ Cancel(i) \/ Trigger(i) \/ Fire(i) \/ Forget(i) \/ GiveUp(i)
Distinct == \A i, j \in Slots : Armed(alarms'[i]) /\ Armed(alarms'[j])
                                /\ SameAlarm(alarms'[i], alarms'[j]) => i = j
Fair == \A i \in Slots : Armed(alarms'[i]) =>
            Cardinality({j \in Slots : Armed(alarms'[j]) /\ alarms'[j].owner = alarms'[i].owner})
                <= PerPackage

\* The table is in RAM: a reset of the device loses every alarm.
Reset == alarms' = [i \in Slots |-> Free]

ContractInit == alarms = [i \in Slots |-> Free]
ContractNext == ((\A i \in Slots : Kept(i)) /\ Distinct /\ Fair) \/ Reset
ContractSpec == ContractInit /\ [][ContractNext]_contractVars
=============================================================================
