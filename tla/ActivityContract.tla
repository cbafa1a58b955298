-------------------------- MODULE ActivityContract --------------------------
\* What an Activity is promised (website api/ui.md, "Lifecycle"): the callbacks
\* of every instance come in Android's order, each once per visit, and one
\* instance at a time is in the foreground.  While the app is leaving, an
\* instance that was already stopped is paused and stopped once more.
EXTENDS Integers, FiniteSets

CONSTANT Insts

VARIABLES life, leaving

contractVars == <<life, leaving>>

Edges ==
    { <<"none", "made">>, <<"made", "created">>, <<"created", "started">>,
      <<"started", "resumed">>, <<"resumed", "paused">>, <<"paused", "stopped">>,
      <<"stopped", "restarted">>, <<"restarted", "started">>,
      <<"stopped", "saved">>, <<"saved", "destroyed">>, <<"stopped", "destroyed">> }

LeavingEdges == { <<"stopped", "paused">> }

ContractInit == life = [i \in Insts |-> "none"] /\ leaving = FALSE

Callback(i, to) ==
    /\ <<life[i], to>> \in Edges \cup (IF leaving THEN LeavingEdges ELSE {})
    /\ to = "resumed" => \A j \in Insts : life[j] # "resumed"
    /\ life' = [life EXCEPT ![i] = to]
    /\ UNCHANGED leaving

Leave == leaving' = TRUE /\ UNCHANGED life

ContractNext ==
    \/ \E i \in Insts : \E to \in {e[2] : e \in Edges \cup LeavingEdges} : Callback(i, to)
    \/ Leave

ContractSpec == ContractInit /\ [][ContractNext]_contractVars
=============================================================================
