----------------------------- MODULE PendingOps -----------------------------
\* The queue of Activity and Service transitions Java has asked for and the
\* main loop has not applied yet (native_handler/state.rs, PendingOpQueue), as
\* operators on a sequence of operations.
EXTENDS Integers, Sequences

CONSTANT MAX_PENDING_OPS

ASSUME QueueAssumption == MAX_PENDING_OPS \in Nat \ {0}

\* The operations, by what their handlers read.  A plain launch has caller 0.
PushOp(caller) == [kind |-> "push", caller |-> caller]
PopOp(i) == [kind |-> "pop", inst |-> i]
RecreateOp(i) == [kind |-> "recreate", inst |-> i]
LaunchOp == [kind |-> "launch"]
StartOp(s) == [kind |-> "start", svc |-> s]
StopOp(s) == [kind |-> "stop", svc |-> s]
BindOp(s, c, o) == [kind |-> "bind", svc |-> s, conn |-> c, owner |-> o]
UnbindOp(c) == [kind |-> "unbind", conn |-> c]
ConnectedOp(c, o) == [kind |-> "connected", conn |-> c, owner |-> o, held |-> TRUE]

HasRoom(q) == Len(q) < MAX_PENDING_OPS

\* A full queue refuses; the caller logs and Java sees an exception.
enqueue(q, op) == IF HasRoom(q) THEN Append(q, op) ELSE q

\* Mutant: the binder waits its turn.
enqueue_front_AtBack(q, op) == Append(q, op)

\* A binder on its way to the app goes before all that was queued after its bind.
enqueue_front(q, op) == <<op>> \o q

Queued(q, kind, i) == \E k \in DOMAIN q : q[k].kind = kind /\ q[k].inst = i

\* finish() and recreate() are asked for once per instance while one is queued.
has_pending_pop_for(q, i) == Queued(q, "pop", i)
has_pending_recreate_for(q, i) == Queued(q, "recreate", i)

\* take_next hands out nothing while a held connection is at the head.
Ready(q) == q # <<>> /\ ~(Head(q).kind = "connected" /\ Head(q).held)

\* Mutant: a held connection stays held.
release_held_Never(q) == q

\* At the top of a drain, what an earlier drain queued is let go.
release_held(q) ==
    [k \in DOMAIN q |->
        IF q[k].kind = "connected" THEN [q[k] EXCEPT !.held = FALSE] ELSE q[k]]

\* The instances an operation keeps alive while it is queued or being run.
OpRefs(op) == IF op.kind \in {"bind", "connected"} THEN {op.owner} \ {0} ELSE {}
=============================================================================
