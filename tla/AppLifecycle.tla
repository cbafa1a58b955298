---------------------------- MODULE AppLifecycle ----------------------------
\* One run of an Application-based app on the UI task: the boot drain, the
\* Activity back stack, the Service registry and the main loop that drains the
\* pending operations (picodroid-core lifecycle/mod.rs, activity_stack.rs,
\* service_lifecycle.rs, native_handler).  The framework calls into Java at
\* every callback, and Java may queue further operations there; a handler is
\* therefore a list of steps, `todo`, with the callbacks as steps of their own.
EXTENDS PendingOps, FiniteSets, FiniteSetsExt, SequencesExt, TLC

CONSTANTS
    Services,            \* Service classes, model values
    Conns,               \* ServiceConnection objects, model values
    MAX_ACTIVITY_STACK, MAX_SERVICES, MAX_CONNECTIONS,
    Apps,                \* bound: the sets of calls an app may make, one per behaviour
    MaxCalls             \* bound: calls one app makes

ASSUME LifecycleAssumption ==
    {MAX_ACTIVITY_STACK, MAX_SERVICES, MAX_CONNECTIONS, MaxCalls} \subseteq Nat \ {0}

\* A call makes at most one Activity, and the boot Activity needs one too.
Insts == 1..MaxCalls + 1

VARIABLES
    todo,         \* steps left of what runs now; <<>> while the loop waits
    phase,        \* "boot", "start", "loop", "leaving" or "gone"
    stack,        \* the Activity back stack, bottom first
    nextToken,    \* source of stack entry tokens
    root,         \* Activity whose content view is installed, 0 for none
    views,        \* Activities whose view tree exists
    delivery,     \* result Intent on its way to a caller being re-created
    queue,        \* pending operations
    held,         \* what the queue still keeps alive of the operation it gave out
    services,     \* the Service registry, by class
    conns,        \* the connection table, by slot
    trimmed,      \* onTrimMemory was sent in this push
    life,         \* how far each Activity instance has come
    interrupted,  \* the JVM was asked to stop
    keepNone,     \* "don't keep activities" is on
    app, calls    \* what this app may call, and how often it has

vars == <<todo, phase, stack, nextToken, root, views, delivery, queue, held,
          services, conns, trimmed, life, interrupted, keepNone, app, calls>>

-----------------------------------------------------------------------------
\* The back stack.  A result is the number of its Intent, 0 for none; an entry
\* that was not launched for a result has caller 0, which is nobody's token.
Depth == Len(stack)
Top == stack[Depth]
TopInst == IF stack = <<>> THEN 0 ELSE Top.inst
LiveAt(k) == k \in DOMAIN stack /\ ~stack[k].destroyed
Live == {stack[k].inst : k \in {j \in DOMAIN stack : LiveAt(j)}}
token_of(i) == stack[CHOOSE k \in DOMAIN stack : LiveAt(k) /\ stack[k].inst = i].token

Entry(i, caller) ==
    [token |-> nextToken, inst |-> i, destroyed |-> FALSE, view |-> 0,
     caller |-> caller, result |-> 0, saved |-> 0]

\* The caller is remembered as a token: it survives a re-creation.
ResultOf(e) == [to |-> e.caller, intent |-> e.result]
NoResult == [to |-> 0, intent |-> 0]

\* The result belongs to the instance; the launch and its caller to the entry.
replace_top(e, i) ==
    [e EXCEPT !.inst = i, !.destroyed = FALSE, !.view = 0, !.result = 0]
mark_destroyed(e) ==
    [e EXCEPT !.inst = 0, !.destroyed = TRUE, !.view = 0, !.result = 0]

push_activity(i, caller) ==
    /\ stack' = Append(stack, Entry(i, caller))
    /\ nextToken' = nextToken + 1

-----------------------------------------------------------------------------
\* Steps.  A callback names its receiver and the Bundle, Intent or start id it
\* carries; a "soft" one is made by code that ignores an interrupt of it.
cb(name, i, ref) ==
    [op |-> "cb", cb |-> name, inst |-> i, ref |-> ref, soft |-> FALSE]
softly(op) == [op EXCEPT !.soft = TRUE]
Do(op) == [op |-> op]
On(op, i) == [op |-> op, inst |-> i]
OnService(op, s, soft) == [op |-> op, svc |-> s, soft |-> soft]

At(op) == todo # <<>> /\ Head(todo).op = op
Then(ops) == todo' = ops \o Tail(todo)

\* instantiate_component: the step `next` learns the new instance, or 0.
New(next) == <<[op |-> "new", next |-> next]>>

\* A screen's worth of callbacks: onCreate to onResume.
start_activity(i, saved, result) ==
    <<cb("onCreate", i, saved), cb("onStart", i, 0)>>
    \o (IF saved # 0 THEN <<cb("onRestoreInstanceState", i, saved)>> ELSE <<>>)
    \o (IF result.to # 0 THEN <<cb("onActivityResult", i, result.intent)>> ELSE <<>>)
    \o <<cb("onResume", i, 0)>>

ReclaimFrom(k, low) == [op |-> "reclaim", at |-> k, low |-> low]

\* The connections an Activity owns, as unbinds whose interrupts are ignored.
unbind_owned_by(i) ==
    LET owned == {s \in DOMAIN conns : conns[s].owner = i}
        slots == SetToSortSeq(owned, <)
    IN  [k \in DOMAIN slots |->
            [op |-> "unbind", conn |-> conns[slots[k]].conn, soft |-> TRUE]]

connection_find(c) == {s \in DOMAIN conns : conns[s].conn = c}

\* onServiceConnected only reaches a connection that is still there, and an
\* owner that is on top.
process_connected(c, owner) ==
    IF connection_find(c) # {} /\ owner \in {0, TopInst}
    THEN <<cb("onServiceConnected", conns[Min(connection_find(c))].svc, 0)>>
    ELSE <<>>

ensure_registered(s, next) ==
    IF s \in DOMAIN services THEN <<next>>
    ELSE New([op |-> "register", inst |-> 0, svc |-> s, next |-> next])

-----------------------------------------------------------------------------
\* What process_pending_op does for an operation the drain took.
handle_pop_op ==
    <<cb("onPause", Top.inst, 0), cb("onStop", Top.inst, 0), cb("onDestroy", Top.inst, 0),
      On("free", Top.inst), [op |-> "pop", result |-> ResultOf(Top)]>>

\* Mutant: a covered Activity is re-created as the top one is.
handle_recreate_op_Covered(i) ==
    <<cb("onPause", i, 0), cb("onStop", i, 0), On("save", Depth),
      cb("onDestroy", i, 0), On("free", i)>>
    \o New([op |-> "reuse", inst |-> 0, result |-> NoResult])

handle_recreate_op(i) ==
    IF TopInst # i THEN <<>>
    ELSE <<cb("onPause", i, 0), cb("onStop", i, 0), On("save", Depth),
           cb("onDestroy", i, 0), On("free", i)>>
         \o New([op |-> "reuse", inst |-> 0, result |-> NoResult])

process_pending_service_op(op) ==
    CASE op.kind = "start" -> ensure_registered(op.svc, OnService("start", op.svc, FALSE))
      [] op.kind = "stop" -> <<OnService("stop", op.svc, FALSE)>>
      [] op.kind = "bind" ->
            IF Cardinality(DOMAIN conns) = MAX_CONNECTIONS THEN <<>>
            ELSE ensure_registered(op.svc, [op |-> "bind", svc |-> op.svc, conn |-> op.conn,
                                            owner |-> op.owner])
      [] op.kind = "unbind" -> <<[op |-> "unbind", conn |-> op.conn, soft |-> FALSE]>>
      [] op.kind = "connected" -> process_connected(op.conn, op.owner)

process_pending_op(op) ==
    CASE op.kind = "push" ->
            <<ReclaimFrom(1, FALSE), [op |-> "push", caller |-> op.caller]>>
      [] op.kind = "pop" -> handle_pop_op
      [] op.kind = "recreate" -> handle_recreate_op(op.inst)
      [] op.kind = "launch" -> <<Do("leave")>>
      [] OTHER -> process_pending_service_op(op)

\* An interrupt reported to the caller: on to the boot drain's next operation,
\* out of the app while its first Activity starts, else to the teardown.
Break ==
    CASE phase = "boot" ->
            LET next == Min({k \in DOMAIN todo : todo[k].op = "boot"})
            IN  todo' = SubSeq(todo, next, Len(todo)) /\ UNCHANGED phase
      [] phase = "start" -> todo' = <<>> /\ phase' = "gone"
      [] OTHER -> todo' = <<Do("teardown")>> /\ phase' = "leaving"

-----------------------------------------------------------------------------
Init ==
    /\ todo = <<cb("onCreateApplication", 0, 0), [op |-> "boot", over |-> FALSE]>>
    /\ phase = "boot"
    /\ stack = <<>> /\ nextToken = 1
    /\ root = 0 /\ views = {} /\ delivery = 0
    /\ queue = <<>> /\ held = {}
    /\ services = <<>> /\ conns = <<>>
    /\ trimmed = FALSE
    /\ life = [i \in Insts |-> "none"]
    /\ interrupted = FALSE
    /\ keepNone \in BOOLEAN
    /\ app \in Apps
    /\ calls = 0

-----------------------------------------------------------------------------
\* Java, inside a callback: one call of the framework's API.  A refused or
\* idempotent call changes nothing.
Asks(op) == queue' = enqueue(queue, op)

startActivity == Asks(PushOp(0))
startActivityForResult(i) == Asks(PushOp(token_of(i)))
finish(i) == ~has_pending_pop_for(queue, i) /\ Asks(PopOp(i))
recreate(i) == ~has_pending_recreate_for(queue, i) /\ Asks(RecreateOp(i))
\* "If startId is the one the most recent onStartCommand received".
stopSelfResult(s, id) ==
    /\ s \in DOMAIN services /\ services[s].started /\ services[s].ids = id
    /\ Asks(StopOp(s))
bindService(s, c) == Asks(BindOp(s, c, TopInst))

NavigationCall ==
    \/ "startActivity" \in app /\ startActivity
    \/ "launch" \in app /\ Asks(LaunchOp)
    \/ \E i \in Live :
        \/ "startActivityForResult" \in app /\ startActivityForResult(i)
        \/ "finish" \in app /\ finish(i)
        \/ "recreate" \in app /\ recreate(i)

ServiceCall ==
    \/ \E s \in Services :
        \/ "startService" \in app /\ Asks(StartOp(s))
        \/ "stopService" \in app /\ Asks(StopOp(s))
        \/ "stopSelfResult" \in app /\ Head(todo).cb = "onStartCommand"
           /\ Head(todo).inst = s /\ stopSelfResult(s, Head(todo).ref)
        \/ "bindService" \in app /\ \E c \in Conns : bindService(s, c)
    \/ "unbindService" \in app /\ \E c \in Conns : Asks(UnbindOp(c))

\* setResult writes the entry at once; its Intent is numbered by the call.
setResult ==
    /\ "setResult" \in app
    /\ \E k \in DOMAIN stack :
        LiveAt(k) /\ stack' = [stack EXCEPT ![k].result = calls + 1]

JavaCalls ==
    /\ At("cb") /\ ~interrupted /\ calls < MaxCalls
    /\ calls' = calls + 1
    /\ \/ (NavigationCall \/ ServiceCall) /\ UNCHANGED stack
       \/ setResult /\ UNCHANGED queue
    /\ UNCHANGED <<todo, phase, nextToken, root, views, delivery, held, services,
                   conns, trimmed, life, interrupted, keepNone, app>>

LifeAfter ==
    [c \in {"<init>"} |-> "made"] @@ [c \in {"onCreate"} |-> "created"]
    @@ [c \in {"onStart"} |-> "started"] @@ [c \in {"onResume"} |-> "resumed"]
    @@ [c \in {"onPause"} |-> "paused"] @@ [c \in {"onStop"} |-> "stopped"]
    @@ [c \in {"onSaveInstanceState"} |-> "saved"]
    @@ [c \in {"onDestroy"} |-> "destroyed"] @@ [c \in {"onRestart"} |-> "restarted"]

\* A callback comes back.  An Activity installs its view in onCreate.  An error
\* of the app is logged and the handler goes on.
CallbackReturns ==
    /\ At("cb") /\ ~interrupted
    /\ LET c == Head(todo) IN
        /\ Then(<<>>)
        /\ life' = IF c.inst \in Insts /\ c.cb \in DOMAIN LifeAfter
                   THEN [life EXCEPT ![c.inst] = LifeAfter[c.cb]] ELSE life
        /\ IF c.cb = "onCreate"
           THEN root' = c.inst /\ views' = (views \ {root}) \cup {c.inst}
           ELSE UNCHANGED <<root, views>>
    /\ UNCHANGED <<phase, stack, nextToken, delivery, queue, held, services, conns,
                   trimmed, interrupted, keepNone, app, calls>>

\* Once the JVM is stopping, Java code returns at once with an interrupt.
CallbackInterrupted ==
    /\ At("cb") /\ interrupted
    /\ LET c == Head(todo) IN
        IF c.soft THEN Then(<<>>) /\ UNCHANGED phase
        ELSE CASE c.cb = "<init>" ->          \* no instance
                    /\ todo' = <<[todo[2] EXCEPT !.inst = 0]>> \o SubSeq(todo, 3, Len(todo))
                    /\ UNCHANGED phase
               [] c.cb = "onCreateService" -> \* the operation is given up
                    todo' = SubSeq(todo, 3, Len(todo)) /\ UNCHANGED phase
               [] c.cb = "onCreateApplication" -> todo' = <<>> /\ phase' = "gone"
               [] OTHER -> Break
    /\ UNCHANGED <<stack, nextToken, root, views, delivery, queue, held, services,
                   conns, trimmed, life, interrupted, keepNone, app, calls>>

\* The debug bridge stops the JVM.
Interrupt ==
    /\ "stop" \in app /\ ~interrupted /\ phase # "gone"
    /\ interrupted' = TRUE
    /\ UNCHANGED <<todo, phase, stack, nextToken, root, views, delivery, queue, held,
                   services, conns, trimmed, life, keepNone, app, calls>>

\* Mutant: the new instance is not held.
instantiate_component_NotHeld ==
    /\ At("new")
    /\ LET next == Head(todo).next
           i == IF next.op = "register" THEN next.svc
                ELSE Min({j \in Insts : life[j] = "none"})
       IN  Then(<<next>>) \/ Then(<<cb("<init>", i, 0), [next EXCEPT !.inst = i]>>)
    /\ UNCHANGED <<phase, stack, nextToken, root, views, delivery, queue, held, services,
                   conns, trimmed, life, interrupted, keepNone, app, calls>>

\* Allocation may fail; a new instance stays rooted until the next take_next.
instantiate_component ==
    /\ At("new")
    /\ LET next == Head(todo).next
           i == IF next.op = "register" THEN next.svc
                ELSE Min({j \in Insts : life[j] = "none"})
       IN  \/ Then(<<next>>) /\ UNCHANGED held
           \/ /\ Then(<<cb("<init>", i, 0), [next EXCEPT !.inst = i]>>)
              /\ held' = held \cup {i}
    /\ UNCHANGED <<phase, stack, nextToken, root, views, delivery, queue, services,
                   conns, trimmed, life, interrupted, keepNone, app, calls>>

-----------------------------------------------------------------------------
\* Mutant: the stack's bound is not looked at.
push_Unbounded ==
    /\ At("push")
    /\ Then(New([op |-> "pushed", inst |-> 0, caller |-> Head(todo).caller]))
    /\ UNCHANGED <<phase, stack, nextToken, root, views, delivery, queue, held, services,
                   conns, trimmed, life, interrupted, keepNone, app, calls>>

\* handle_push_op, from the reclaim of covered Activities to that after it.
push ==
    /\ At("push")
    /\ IF Depth >= MAX_ACTIVITY_STACK THEN Then(<<>>)
       ELSE Then(New([op |-> "pushed", inst |-> 0, caller |-> Head(todo).caller]))
    /\ UNCHANGED <<phase, stack, nextToken, root, views, delivery, queue, held, services,
                   conns, trimmed, life, interrupted, keepNone, app, calls>>

pushed ==
    /\ At("pushed")
    /\ LET p == Head(todo) IN
        IF p.inst = 0 THEN Then(<<>>)
        ELSE Then(<<cb("onPause", TopInst, 0), Do("park"),
                    [op |-> "enter", inst |-> p.inst, caller |-> p.caller, prev |-> TopInst]>>)
    /\ UNCHANGED <<phase, stack, nextToken, root, views, delivery, queue, held, services,
                   conns, trimmed, life, interrupted, keepNone, app, calls>>

\* The covered view is kept, hidden, in the entry of its Activity.
park_top_view ==
    /\ At("park")
    /\ Then(<<>>)
    /\ IF root = 0 THEN UNCHANGED <<stack, root>>
       ELSE stack' = [stack EXCEPT ![Depth].view = root] /\ root' = 0
    /\ UNCHANGED <<phase, nextToken, views, delivery, queue, held, services,
                   conns, trimmed, life, interrupted, keepNone, app, calls>>

enter ==
    /\ At("enter")
    /\ LET e == Head(todo) IN
        /\ push_activity(e.inst, e.caller)
        /\ Then(start_activity(e.inst, 0, NoResult)
                \o <<cb("onStop", e.prev, 0), ReclaimFrom(1, FALSE)>>)
    /\ UNCHANGED <<phase, root, views, delivery, queue, held, services,
                   conns, trimmed, life, interrupted, keepNone, app, calls>>

\* reclaim_covered_activities: oldest first, while memory is short (any moment
\* may be) or nothing is kept.  The app is told before the first one goes.
reclaim_covered_activities ==
    /\ At("reclaim")
    /\ LET r == Head(todo)
           told == keepNone \/ (trimmed /\ r.low)
       IN  IF r.at >= Depth THEN Then(<<>>) /\ UNCHANGED trimmed
           ELSE IF stack[r.at].destroyed
           THEN Then(<<ReclaimFrom(r.at + 1, r.low)>>) /\ UNCHANGED trimmed
           ELSE \/ ~keepNone /\ Then(<<>>) /\ UNCHANGED trimmed
                \/ /\ ~told /\ Then(<<cb("onTrimMemory", 0, 0), ReclaimFrom(r.at, trimmed)>>)
                   /\ trimmed' = TRUE
                \/ /\ told /\ UNCHANGED trimmed
                   /\ Then(<<On("save", r.at), cb("onDestroy", stack[r.at].inst, 0),
                             [op |-> "bury", at |-> r.at, inst |-> stack[r.at].inst],
                             ReclaimFrom(r.at + 1, r.low)>>)
    /\ UNCHANGED <<phase, stack, nextToken, root, views, delivery, queue, held, services,
                   conns, life, interrupted, keepNone, app, calls>>

\* A Bundle, named by the instance that fills it, if there is memory for one.
save_state ==
    /\ At("save")
    /\ LET at == Head(todo).inst IN
        \E b \in {0, stack[at].inst} :
            /\ stack' = [stack EXCEPT ![at].saved = b]
            /\ Then(IF b = 0 THEN <<>> ELSE <<cb("onSaveInstanceState", b, b)>>)
    /\ UNCHANGED <<phase, nextToken, root, views, delivery, queue, held, services,
                   conns, trimmed, life, interrupted, keepNone, app, calls>>

\* A reclaimed Activity gives up its view and its bindings, and the entry stays.
bury ==
    /\ At("bury")
    /\ LET b == Head(todo) IN
        /\ views' = views \ {stack[b.at].view}
        /\ Then(unbind_owned_by(b.inst) \o <<On("mark", b.at)>>)
    /\ UNCHANGED <<phase, stack, nextToken, root, delivery, queue, held, services,
                   conns, trimmed, life, interrupted, keepNone, app, calls>>

mark ==
    /\ At("mark")
    /\ LET at == Head(todo).inst IN stack' = [stack EXCEPT ![at] = mark_destroyed(@)]
    /\ Then(<<>>)
    /\ UNCHANGED <<phase, nextToken, root, views, delivery, queue, held, services,
                   conns, trimmed, life, interrupted, keepNone, app, calls>>

\* Mutant: the view tree is left behind.
free_TreeLeft ==
    /\ At("free")
    /\ root' = 0
    /\ Then(unbind_owned_by(Head(todo).inst))
    /\ UNCHANGED <<phase, stack, nextToken, views, delivery, queue, held, services,
                   conns, trimmed, life, interrupted, keepNone, app, calls>>

\* The end of destroy_top_instance.
free ==
    /\ At("free")
    /\ views' = views \ {root} /\ root' = 0
    /\ Then(unbind_owned_by(Head(todo).inst))
    /\ UNCHANGED <<phase, stack, nextToken, delivery, queue, held, services,
                   conns, trimmed, life, interrupted, keepNone, app, calls>>

\* The result goes to the uncovered entry only if that entry asked for it.
Deliverable(result, e) == IF result.to = e.token THEN result ELSE NoResult

pop_and_resume_parent ==
    /\ At("pop")
    /\ LET s == Front(stack)
           e == Last(s)
           result == Deliverable(Head(todo).result, e)
       IN  IF s = <<>> THEN stack' = s /\ Then(<<>>) /\ UNCHANGED <<root, delivery>>
           ELSE IF e.destroyed
           THEN \* recreate_uncovered
                /\ stack' = s /\ UNCHANGED root
                /\ delivery' = result.intent
                /\ Then(New([op |-> "reuse", inst |-> 0, result |-> result]))
           ELSE /\ stack' = [s EXCEPT ![Len(s)].view = 0]
                /\ root' = IF e.view # 0 THEN e.view ELSE root
                /\ Then((IF result.to # 0
                         THEN <<cb("onActivityResult", e.inst, result.intent)>> ELSE <<>>)
                        \o <<cb("onRestart", e.inst, 0), cb("onStart", e.inst, 0),
                             cb("onResume", e.inst, 0)>>)
                /\ UNCHANGED delivery
    /\ UNCHANGED <<phase, nextToken, views, queue, held, services,
                   conns, trimmed, life, interrupted, keepNone, app, calls>>

\* A new instance for an entry whose old one is gone; without one the entry is
\* finished too.
reuse ==
    /\ At("reuse")
    /\ LET r == Head(todo) IN
        IF r.inst = 0
        THEN /\ stack' = [stack EXCEPT ![Depth].saved = 0]
             /\ delivery' = 0
             /\ Then(<<[op |-> "pop", result |-> ResultOf(Top)]>>)
        ELSE /\ stack' = [stack EXCEPT ![Depth] = replace_top(@, r.inst)]
             /\ Then(start_activity(r.inst, Top.saved, r.result) \o <<Do("settle")>>)
             /\ UNCHANGED delivery
    /\ UNCHANGED <<phase, nextToken, root, views, queue, held, services,
                   conns, trimmed, life, interrupted, keepNone, app, calls>>

\* Mutant: the Bundle is kept once it was given.
settle_BundleKept ==
    /\ At("settle")
    /\ delivery' = 0
    /\ Then(<<>>)
    /\ UNCHANGED <<phase, stack, nextToken, root, views, queue, held, services,
                   conns, trimmed, life, interrupted, keepNone, app, calls>>

settle ==
    /\ At("settle")
    /\ stack' = [stack EXCEPT ![Depth].saved = 0] /\ delivery' = 0
    /\ Then(<<>>)
    /\ UNCHANGED <<phase, nextToken, root, views, queue, held, services,
                   conns, trimmed, life, interrupted, keepNone, app, calls>>

-----------------------------------------------------------------------------
\* Services.
Registered(s) == s \in DOMAIN services

NewService ==
    [started |-> FALSE, binds |-> 0, binder |-> FALSE, rebind |-> FALSE, ids |-> 0]

register ==
    /\ At("register")
    /\ LET r == Head(todo) IN
        IF r.inst = 0 \/ Cardinality(DOMAIN services) >= MAX_SERVICES
        THEN Then(<<>>) /\ UNCHANGED services
        ELSE /\ services' = (r.svc :> NewService) @@ services
             /\ Then(<<cb("onCreateService", r.svc, 0), r.next>>)
    /\ UNCHANGED <<phase, stack, nextToken, root, views, delivery, queue, held,
                   conns, trimmed, life, interrupted, keepNone, app, calls>>

process_start ==
    /\ At("start")
    /\ LET s == Head(todo).svc IN
        /\ services' = [services EXCEPT ![s].started = TRUE, ![s].ids = @ + 1]
        /\ Then(<<cb("onStartCommand", s, services[s].ids + 1)>>)
    /\ UNCHANGED <<phase, stack, nextToken, root, views, delivery, queue, held,
                   conns, trimmed, life, interrupted, keepNone, app, calls>>

process_stop ==
    /\ At("stop")
    /\ LET s == Head(todo).svc IN
        IF ~Registered(s) THEN Then(<<>>) /\ UNCHANGED services
        ELSE /\ services' = [services EXCEPT ![s].started = FALSE]
             /\ Then(<<OnService("maybe_destroy", s, FALSE)>>)
    /\ UNCHANGED <<phase, stack, nextToken, root, views, delivery, queue, held,
                   conns, trimmed, life, interrupted, keepNone, app, calls>>

\* The first bind asks for the binder, or for onRebind if onUnbind wanted it.
process_bind ==
    /\ At("bind")
    /\ LET b == Head(todo)
           e == services[b.svc]
           first == e.binds = 0
           asked == IF first /\ e.rebind THEN <<softly(cb("onRebind", b.svc, 0))>>
                    ELSE IF first THEN <<cb("onBind", b.svc, 0), OnService("binder", b.svc, FALSE)>>
                    ELSE <<>>
       IN  /\ services' = [services EXCEPT ![b.svc].binds = @ + 1, ![b.svc].rebind = FALSE]
           /\ Then(asked \o <<[b EXCEPT !.op = "bound"]>>)
    /\ UNCHANGED <<phase, stack, nextToken, root, views, delivery, queue, held,
                   conns, trimmed, life, interrupted, keepNone, app, calls>>

\* onBind may answer null.
binder ==
    /\ At("binder")
    /\ \E b \in BOOLEAN : services' = [services EXCEPT ![Head(todo).svc].binder = b]
    /\ Then(<<>>)
    /\ UNCHANGED <<phase, stack, nextToken, root, views, delivery, queue, held,
                   conns, trimmed, life, interrupted, keepNone, app, calls>>

FreeConns == (1..MAX_CONNECTIONS) \ DOMAIN conns

bound ==
    /\ At("bound")
    /\ LET b == Head(todo) IN
        /\ conns' = (Min(FreeConns) :> [conn |-> b.conn, svc |-> b.svc, owner |-> b.owner])
                    @@ conns
        /\ IF services[b.svc].binder /\ HasRoom(queue)
           THEN queue' = enqueue_front(queue, ConnectedOp(b.conn, b.owner)) /\ Then(<<>>)
           ELSE /\ UNCHANGED queue
                /\ Then(IF services[b.svc].binder /\ b.owner \in {0, TopInst}
                        THEN <<cb("onServiceConnected", b.svc, 0)>> ELSE <<>>)
    /\ UNCHANGED <<phase, stack, nextToken, root, views, delivery, held, services,
                   trimmed, life, interrupted, keepNone, app, calls>>

process_unbind ==
    /\ At("unbind")
    /\ LET u == Head(todo)
           found == connection_find(u.conn)
           s == conns[Min(found)].svc
           left == services[s].binds - 1
       IN  IF found = {} THEN Then(<<>>) /\ UNCHANGED <<conns, services>>
           ELSE /\ conns' = [k \in DOMAIN conns \ {Min(found)} |-> conns[k]]
                /\ IF ~Registered(s) THEN Then(<<>>) /\ UNCHANGED services
                   ELSE /\ services' = [services EXCEPT ![s].binds = left]
                        /\ Then((IF left = 0
                                 THEN <<softly(cb("onUnbind", s, 0)), OnService("unbound", s, FALSE)>>
                                 ELSE <<>>) \o <<OnService("maybe_destroy", s, u.soft)>>)
    /\ UNCHANGED <<phase, stack, nextToken, root, views, delivery, queue, held,
                   trimmed, life, interrupted, keepNone, app, calls>>

\* onUnbind says whether it wants onRebind.
unbound ==
    /\ At("unbound")
    /\ \E again \in (IF interrupted THEN {FALSE} ELSE BOOLEAN) :
        services' = [services EXCEPT ![Head(todo).svc].rebind = again]
    /\ Then(<<>>)
    /\ UNCHANGED <<phase, stack, nextToken, root, views, delivery, queue, held,
                   conns, trimmed, life, interrupted, keepNone, app, calls>>

\* Mutant: a Service that is not started is destroyed, bound or not.
maybe_destroy_Bound ==
    /\ At("maybe_destroy")
    /\ LET m == Head(todo)
       IN  IF services[m.svc].started THEN Then(<<>>) /\ UNCHANGED services
           ELSE /\ services' = [s \in DOMAIN services \ {m.svc} |-> services[s]]
                /\ Then(<<[cb("onDestroyService", m.svc, 0) EXCEPT !.soft = m.soft]>>)
    /\ UNCHANGED <<phase, stack, nextToken, root, views, delivery, queue, held,
                   conns, trimmed, life, interrupted, keepNone, app, calls>>

maybe_destroy ==
    /\ At("maybe_destroy")
    /\ LET m == Head(todo)
           e == services[m.svc]
       IN  IF e.started \/ e.binds > 0 THEN Then(<<>>) /\ UNCHANGED services
           ELSE /\ services' = [s \in DOMAIN services \ {m.svc} |-> services[s]]
                /\ Then(<<[cb("onDestroyService", m.svc, 0) EXCEPT !.soft = m.soft]>>)
    /\ UNCHANGED <<phase, stack, nextToken, root, views, delivery, queue, held,
                   conns, trimmed, life, interrupted, keepNone, app, calls>>

-----------------------------------------------------------------------------
\* The boot drain of run_application: Service operations are applied, the first
\* Activity asked for is the one to start.  With none, or after a launch of
\* another package, the app ends once its operations are done.
TakeOp(q) ==
    /\ queue' = Tail(q)
    /\ held' = OpRefs(Head(q))

boot_drain ==
    /\ At("boot")
    /\ LET q == release_held(queue)
           op == Head(q)
       IN  IF q = <<>>
           THEN /\ Then(<<Do("destroy_all")>>) /\ phase' = "leaving"
                /\ held' = {} /\ UNCHANGED queue
           ELSE /\ TakeOp(q) /\ UNCHANGED phase
                /\ CASE op.kind = "push" /\ ~Head(todo).over ->
                            Then(New([op |-> "first", inst |-> 0]))
                     [] op.kind \in {"start", "stop", "bind", "unbind", "connected"} ->
                            todo' = process_pending_service_op(op) \o todo
                     [] OTHER -> todo' = <<[op |-> "boot",
                                            over |-> Head(todo).over \/ op.kind = "launch"]>>
    /\ UNCHANGED <<stack, nextToken, root, views, delivery, services,
                   conns, trimmed, life, interrupted, keepNone, app, calls>>

\* bootstrap_activity, then the loop.
bootstrap_activity ==
    /\ At("first")
    /\ LET i == Head(todo).inst IN
        IF i = 0 THEN /\ todo' = <<Do("destroy_all")>> /\ phase' = "leaving"
                      /\ UNCHANGED <<stack, nextToken>>
        ELSE /\ push_activity(i, 0)
             /\ todo' = start_activity(i, 0, NoResult) \o <<Do("loop")>>
             /\ phase' = "start"
    /\ UNCHANGED <<root, views, delivery, queue, held, services,
                   conns, trimmed, life, interrupted, keepNone, app, calls>>

enter_loop ==
    /\ At("loop")
    /\ Then(<<>>) /\ phase' = "loop"
    /\ UNCHANGED <<stack, nextToken, root, views, delivery, queue, held, services,
                   conns, trimmed, life, interrupted, keepNone, app, calls>>

Leave == todo' = <<Do("teardown")>> /\ phase' = "leaving"

\* Mutant: the loop does not look at the interrupt.
Turn_StopUnseen ==
    /\ phase = "loop" /\ todo = <<>>
    /\ \/ ~interrupted /\ Leave
       \/ /\ UNCHANGED phase
          /\ todo' = <<softly(cb("turn", 0, 0)), Do("release")>>
    /\ UNCHANGED <<stack, nextToken, root, views, delivery, queue, held, services,
                   conns, trimmed, life, interrupted, keepNone, app, calls>>

\* A task of the main queue: a tick or a Runnable runs Java, and the drain
\* follows.  A stopped JVM or a closed window ends the loop.
Turn ==
    /\ phase = "loop" /\ todo = <<>>
    /\ \/ Leave
       \/ /\ ~interrupted /\ UNCHANGED phase
          /\ todo' = <<softly(cb("turn", 0, 0)), Do("release")>>
    /\ UNCHANGED <<stack, nextToken, root, views, delivery, queue, held, services,
                   conns, trimmed, life, interrupted, keepNone, app, calls>>

release_held_ops ==
    /\ At("release")
    /\ queue' = release_held(queue)
    /\ Then(<<Do("drain")>>)
    /\ UNCHANGED <<phase, stack, nextToken, root, views, delivery, held, services,
                   conns, trimmed, life, interrupted, keepNone, app, calls>>

drain ==
    /\ At("drain")
    /\ IF stack = <<>> THEN Leave /\ UNCHANGED <<queue, held, trimmed>>
       ELSE IF ~Ready(queue)
       THEN todo' = <<>> /\ held' = {} /\ UNCHANGED <<phase, queue, trimmed>>
       ELSE /\ TakeOp(queue)
            /\ todo' = process_pending_op(Head(queue)) \o todo
            /\ trimmed' = FALSE
            /\ UNCHANGED phase
    /\ UNCHANGED <<stack, nextToken, root, views, delivery, services,
                   conns, life, interrupted, keepNone, app, calls>>

\* Leaving for another package.
launch ==
    /\ At("leave") /\ Leave
    /\ UNCHANGED <<stack, nextToken, root, views, delivery, queue, held, services,
                   conns, trimmed, life, interrupted, keepNone, app, calls>>

\* Top-down: every Activity that has an instance is paused, stopped, destroyed.
teardown_activity ==
    /\ At("teardown")
    /\ IF stack # <<>>
       THEN /\ stack' = Front(stack)
            /\ Then((IF Top.destroyed THEN <<>>
                     ELSE <<softly(cb("onPause", Top.inst, 0)), softly(cb("onStop", Top.inst, 0)),
                            softly(cb("onDestroy", Top.inst, 0))>>)
                    \o <<On("drop", Top.view), Do("teardown")>>)
            /\ UNCHANGED <<root, views>>
       ELSE /\ views' = views \ {root} /\ root' = 0
            /\ Then(<<Do("destroy_all")>>) /\ UNCHANGED stack
    /\ UNCHANGED <<phase, nextToken, delivery, queue, held, services,
                   conns, trimmed, life, interrupted, keepNone, app, calls>>

drop_view ==
    /\ At("drop")
    /\ views' = views \ {Head(todo).inst}
    /\ Then(<<>>)
    /\ UNCHANGED <<phase, stack, nextToken, root, delivery, queue, held, services,
                   conns, trimmed, life, interrupted, keepNone, app, calls>>

destroy_all ==
    /\ At("destroy_all")
    /\ LET all == SetToSeq(DOMAIN services)
       IN  Then([k \in DOMAIN all |-> softly(cb("onDestroyService", all[k], 0))]
                \o <<Do("wipe")>>)
    /\ UNCHANGED <<phase, stack, nextToken, root, views, delivery, queue, held, services,
                   conns, trimmed, life, interrupted, keepNone, app, calls>>

wipe ==
    /\ At("wipe")
    /\ services' = <<>> /\ conns' = <<>>
    /\ todo' = <<>> /\ phase' = "gone"
    /\ UNCHANGED <<stack, nextToken, root, views, delivery, queue, held,
                   trimmed, life, interrupted, keepNone, app, calls>>

ActivityStep ==
    \/ push \/ pushed \/ park_top_view \/ enter \/ reclaim_covered_activities
    \/ save_state \/ bury \/ mark \/ free \/ pop_and_resume_parent \/ reuse \/ settle

ServiceStep ==
    \/ register \/ process_start \/ process_stop \/ process_bind \/ binder \/ bound
    \/ process_unbind \/ unbound \/ maybe_destroy

LoopStep ==
    \/ boot_drain \/ bootstrap_activity \/ enter_loop \/ Turn \/ release_held_ops \/ drain
    \/ launch \/ teardown_activity \/ drop_view \/ destroy_all \/ wipe

UITask ==
    \/ CallbackReturns \/ CallbackInterrupted \/ instantiate_component
    \/ ActivityStep \/ ServiceStep \/ LoopStep

Next == UITask \/ JavaCalls \/ Interrupt

Spec == Init /\ [][Next]_vars

\* Callbacks return, and the tick source brings the loop a turn every frame.
FairSpec == Spec /\ WF_vars(UITask)

-----------------------------------------------------------------------------
\* The shape of the tables: the stack, queue and registry keep within their
\* bounds, tokens name one entry each, and a reclaimed entry has no instance.
TypeOK ==
    /\ phase \in {"boot", "start", "loop", "leaving", "gone"}
    /\ Depth <= MAX_ACTIVITY_STACK /\ Len(queue) <= MAX_PENDING_OPS
    /\ \A k \in DOMAIN stack :
        /\ stack[k].token \in 1..nextToken - 1
        /\ stack[k].destroyed <=> stack[k].inst = 0
        /\ \A j \in 1..k - 1 : stack[j].token < stack[k].token
    /\ DOMAIN services \subseteq Services /\ Cardinality(DOMAIN services) <= MAX_SERVICES
    /\ DOMAIN conns \subseteq 1..MAX_CONNECTIONS
    /\ held \subseteq Insts \cup Services

\* The callbacks of every instance, through launches, finishes, re-creations and
\* reclaims that Java asks for from inside other callbacks, come in Android's
\* order, and never are two instances resumed (ActivityContract).
Contract == INSTANCE ActivityContract WITH leaving <- phase \in {"leaving", "gone"}

ContractSpec == Contract!ContractSpec

AtRest == phase = "loop" /\ todo = <<>>

\* Between turns the top Activity is in the foreground, every covered one is
\* stopped, no other has been left half-way, and a Bundle waits only in an entry
\* that was reclaimed (run_activity's loop; state.rs, saved_state_ref).
RestIsSettled ==
    AtRest /\ ~interrupted =>
        /\ stack # <<>> /\ life[Top.inst] = "resumed"
        /\ \A k \in 1..Depth - 1 : LiveAt(k) => life[stack[k].inst] = "stopped"
        /\ \A i \in Insts \ Live : life[i] \in {"none", "made", "destroyed"}
        /\ \A k \in DOMAIN stack : stack[k].saved # 0 => stack[k].destroyed
        /\ delivery = 0

\* Between turns, and when the app is gone, the view trees are those of the
\* Activities on the stack: the top one's is installed, a covered one's is
\* parked in its entry, and none is left over (park_top_view, restore_top_view).
ViewsOwned ==
    /\ AtRest =>
        /\ root = TopInst
        /\ \A k \in 1..Depth - 1 : stack[k].view \in {0, stack[k].inst}
        /\ views = ({root} \cup {stack[k].view : k \in DOMAIN stack}) \ {0}
    /\ phase = "gone" /\ ~interrupted => views = {}

\* What a step still to come will use of an instance or a Bundle.
InstRefs(m) ==
    (IF "inst" \in DOMAIN m THEN {m.inst} ELSE {})
    \cup (IF "prev" \in DOMAIN m THEN {m.prev} ELSE {})
BundleRefs(m) ==
    IF m.op = "cb" /\ m.cb \in {"onCreate", "onRestoreInstanceState"} THEN {m.ref} ELSE {}
ByIndex == {"save", "mark", "drop"}

Rooted ==
    Live \cup held \cup DOMAIN services \cup {conns[s].owner : s \in DOMAIN conns}
    \cup UNION {OpRefs(queue[k]) : k \in DOMAIN queue} \cup {Head(todo).inst}

\* While Java runs, and may collect, everything the native code around it will
\* still touch is reachable: the instance being launched, the one it covers, the
\* Activity being finished, the Bundle on its way (PendingOpQueue, hold_component).
LocalsRooted ==
    At("cb") =>
        \A k \in 2..Len(todo) :
            /\ todo[k].op \notin ByIndex => InstRefs(todo[k]) \ {0} \subseteq Rooted
            /\ BundleRefs(todo[k]) \ {0} \subseteq
                    {stack[j].saved : j \in DOMAIN stack} \cup {Head(todo).ref}

BindsTo(s) == {k \in DOMAIN conns : conns[k].svc = s}

\* A bound Service outlives its clients, and between turns its bind count is
\* their number and it is there only if started or bound (maybe_destroy).
ServicesNeeded ==
    /\ phase # "gone" =>
        \A k \in DOMAIN conns :
            /\ Registered(conns[k].svc)
            /\ services[conns[k].svc].binds >= Cardinality(BindsTo(conns[k].svc))
    /\ AtRest /\ ~interrupted =>
        \A s \in DOMAIN services :
            /\ services[s].binds = Cardinality(BindsTo(s))
            /\ services[s].started \/ services[s].binds > 0

\* A binder on its way is ahead of everything the app queued after its bind
\* (PendingServiceOp::Connected).
ConnectedFirst == \A k \in DOMAIN queue : queue[k].kind = "connected" => k = 1

\* Between turns no operation has left anything half done, and a Service is
\* there exactly if it is needed; its client hears of it before anything it
\* asks for later.
SettledAtRest == TypeOK /\ RestIsSettled /\ ViewsOwned /\ ServicesNeeded /\ ConnectedFirst

\* Every operation Java queued is taken, or the app has ended: a held connection
\* does not keep the queue (release_held_ops).
QueueDrains == queue # <<>> ~> (queue = <<>> \/ phase = "gone")

\* A stopped JVM leaves the loop whatever it was doing (handler.interrupted).
StopLeaves == interrupted ~> phase = "gone"

\* The loop gets on: the queue drains, and a stop ends the app.
LoopProgress == QueueDrains /\ StopLeaves

-----------------------------------------------------------------------------
\* What the documents say and the code does not do.

\* finish(): "Pop this Activity off the stack" (Activity.java).
FinishPopsCaller ==
    At("drain") /\ stack # <<>> /\ Ready(queue) /\ Head(queue).kind = "pop"
        => Head(queue).inst = TopInst

\* "Wipe the registry: apps that re-enter run_application get a fresh slate".
FreshSlate == phase = "gone" => services = <<>> /\ conns = <<>>

\* A result Intent is "rooted until delivered on pop" (state.rs).
ResultRooted ==
    At("cb") =>
        \A k \in 2..Len(todo) :
            "result" \in DOMAIN todo[k] =>
                todo[k].result.intent \in
                    {0, delivery, Head(todo).ref} \cup {stack[j].result : j \in DOMAIN stack}

\* Connections are "scoped to the Activity that bound them so they auto-unbind
\* when the owner pops" (service_lifecycle.rs).
BindingsScoped ==
    AtRest => \A k \in DOMAIN conns : conns[k].owner \in Live \cup {0}
=============================================================================
