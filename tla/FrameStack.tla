----------------------------- MODULE FrameStack -----------------------------
(***************************************************************************)
(* The Java frames of each task, as the interpreter pushes and drops them  *)
(* (interpreter/mod.rs, ops_invoke.rs, ops_reflect.rs): calls and returns, *)
(* the synchronous upcalls of native arms, class initialisation, which     *)
(* runs <clinit> frames before the instruction that needs the class, and   *)
(* the three ways out of a run: a return, an exception, a hard error.      *)
(*                                                                         *)
(* A run is an activation of Executor::run; the frames below its floor     *)
(* belong to its callers.  A step is one instruction, and the handler of   *)
(* the exception it raises.  An exception passes from a run to the one     *)
(* around it in a step of its own.                                         *)
(***************************************************************************)
EXTENDS Integers, SequencesExt, FiniteSetsExt

CONSTANTS Tasks, Keys, None,
          Classes,          \* the classes of the app, and
          Super,            \* the superclass of each, or None
          WithClinit,       \* the classes that have a <clinit>
          TryFirst,         \* those whose <clinit> begins inside a try that catches all
          Catches,          \* bound: what the try blocks around an instruction catch
          Faults,           \* bound: what else may go wrong
          MAX_FRAME_DEPTH, MAX_UPCALL_DEPTH

Kinds == {"exception", "error"}     \* what is an Error, and what is not
Hard == {"fault", "alloc"}          \* a JvmError no Java code catches; StackOverflow

ASSUME FrameAssumption ==
    /\ IsFiniteSet(Classes) /\ None \notin Classes \cup Keys
    /\ Super \in [Classes -> Classes \cup {None}]
    /\ WithClinit \cup TryFirst \subseteq Classes
    /\ Catches \subseteq SUBSET Kinds
    /\ Faults \subseteq Hard \cup {"prepare", "reserve", "deep"}
    /\ {MAX_FRAME_DEPTH, MAX_UPCALL_DEPTH} \subseteq Nat \ {0}

VARIABLES frames,       \* the frame stack of each task
          bases,        \* the floors of its active runs, the outermost first
          flying,       \* what leaves a run, until the run around it has dealt with it
          held,         \* how often each task holds each monitor
          initialized, erroneous,   \* the bits of the static store
          abandoned,    \* tasks whose outermost run ended by a hard error
          clinits,      \* how often each <clinit> was pushed,
          completed,    \* the classes whose <clinit> returned,
          dropped       \* and those whose <clinit> a hard error cut off

vars == <<frames, bases, flying, held, initialized, erroneous, abandoned, clinits,
          completed, dropped>>
classVars == <<initialized, erroneous>>
historyVars == <<abandoned, clinits, completed, dropped>>

\* What the try blocks around the current instruction catch is recorded when
\* a frame leaves it to another frame; while the frame is on top, it is {}.
\* `begun` is history: whether a queued <clinit> has come to the top.
Frame == [init : Classes \cup {None}, begun : BOOLEAN, catches : SUBSET Kinds,
          key : Keys \cup {None}]
MethodFrame(k) == [init |-> None, begun |-> TRUE, catches |-> {}, key |-> k]
ClinitFrame(c, top) ==
    [init |-> c, begun |-> top, key |-> None,
     catches |-> IF c \in TryFirst /\ ~top THEN Kinds ELSE {}]

Base(t) == Last(bases[t])
InRun(t) == bases[t] # <<>> /\ \A u \in Tasks : flying[u] = "none"
Within(stack, X) == [stack EXCEPT ![Len(stack)].catches = X]
Resumed(stack) ==
    IF stack = <<>> THEN stack
    ELSE [stack EXCEPT ![Len(stack)] = [@ EXCEPT !.begun = TRUE, !.catches = {}]]
Above(stack, n) == SubSeq(stack, n + 1, Len(stack))
Inits(s) == {s[i].init : i \in DOMAIN s} \ {None}

Init ==
    /\ frames = [t \in Tasks |-> <<>>] /\ bases = [t \in Tasks |-> <<>>]
    /\ flying = [t \in Tasks |-> "none"]
    /\ held = [t \in Tasks |-> [k \in Keys |-> 0]]
    /\ initialized = {} /\ erroneous = {} /\ abandoned = {}
    /\ clinits = [c \in Classes |-> 0] /\ completed = {} /\ dropped = {}

-----------------------------------------------------------------------------
(* Monitors of synchronized methods                                        *)

CanEnter(t, k) == k \in Keys => \A u \in Tasks \ {t} : held[u][k] = 0
Entered(t, k) == IF k = None THEN held ELSE [held EXCEPT ![t][k] = @ + 1]

\* Mutant: only the frame that the error left gives its monitor back.
ReleasedTo_TopOnly(t, stack, n) ==
    [held EXCEPT ![t] = [k \in Keys |->
        @[k] - Cardinality({i \in n + 1..Len(stack) : i = Len(stack) /\ stack[i].key = k})]]

\* truncate_frames: each frame above the first n gives its monitor back.
ReleasedTo(t, stack, n) ==
    [held EXCEPT ![t] = [k \in Keys |->
        @[k] - Cardinality({i \in n + 1..Len(stack) : stack[i].key = k})]]

-----------------------------------------------------------------------------
(* Exceptions                                                              *)

\* Mutant: the search goes down the whole stack.
HandlerAt_WholeStack(stack, floor, kind) ==
    Max({0} \cup {i \in 1..Len(stack) : kind \in stack[i].catches})

\* The innermost frame of the run with a handler, or the floor.
HandlerAt(stack, floor, kind) ==
    Max({floor} \cup {i \in floor + 1..Len(stack) : kind \in stack[i].catches})
CrossedFrom(stack, n) == {i \in n + 1..Len(stack) : stack[i].init # None}

\* Mutant: an initialiser fails only where its exception is wrapped.
Unwind_MarksWrapped(stack, floor, kind) ==
    LET first == HandlerAt(stack, floor, kind)
        crossed == CrossedFrom(stack, first)
        wraps == kind = "exception" /\ crossed # {}
        rest == IF wraps THEN SubSeq(stack, 1, Min(crossed) - 1) ELSE stack
        then == IF wraps THEN "error" ELSE kind
    IN  [kept |-> HandlerAt(rest, floor, then), kind |-> then,
         failed |-> IF wraps THEN Inits(Above(stack, first)) ELSE {}]

\* handle_exception: an exception that is no Error is wrapped at the outermost
\* <clinit> on the way to its handler, and the search goes on below.
Unwind(stack, floor, kind) ==
    LET first == HandlerAt(stack, floor, kind)
        crossed == CrossedFrom(stack, first)
        wraps == kind = "exception" /\ crossed # {}
        rest == IF wraps THEN SubSeq(stack, 1, Min(crossed) - 1) ELSE stack
        then == IF wraps THEN "error" ELSE kind
        last == HandlerAt(rest, floor, then)
    IN  [kept |-> last, kind |-> then,
         failed |-> Inits(Above(stack, first)) \cup Inits(Above(rest, last))]

\* The exception leaves the top of `stack`; the classes `more` fail with it.
\* Without a handler it leaves the run, or, from the outermost, ends it.
Deliver(t, stack, kind, more) ==
    LET floor == Base(t)
        u == Unwind(stack, floor, kind)
        rest == SubSeq(stack, 1, u.kept)
        caught == u.kept > floor
    IN  /\ frames' = [frames EXCEPT ![t] = IF caught THEN Resumed(rest) ELSE rest]
        /\ bases' = [bases EXCEPT ![t] = IF caught THEN @ ELSE Front(@)]
        /\ flying' = [flying EXCEPT ![t] = IF caught \/ floor = 0 THEN "none" ELSE u.kind]
        /\ held' = ReleasedTo(t, stack, u.kept)
        /\ erroneous' = erroneous \cup more \cup u.failed

\* An instruction, a native or a monitor raises an exception.
Raise(t) ==
    /\ InRun(t)
    /\ \E X \in Catches, kind \in Kinds : Deliver(t, Within(frames[t], X), kind, {})
    /\ UNCHANGED <<initialized, historyVars>>

\* The native arm returns what left the run it started.
Propagate(t) ==
    /\ flying[t] \in Kinds
    /\ Deliver(t, frames[t], flying[t], {})
    /\ UNCHANGED <<initialized, historyVars>>

-----------------------------------------------------------------------------
(* Calls                                                                   *)

Push(t, X, pushed) == frames' = [frames EXCEPT ![t] = Within(@, X) \o pushed]

\* execute: the first frame takes no monitor, whatever its method.
Execute(t) ==
    /\ bases[t] = <<>> /\ t \notin abandoned /\ \A u \in Tasks : flying[u] = "none"
    /\ frames' = [frames EXCEPT ![t] = <<MethodFrame(None)>>]
    /\ bases' = [bases EXCEPT ![t] = <<0>>]
    /\ UNCHANGED <<flying, held, classVars, historyVars>>

\* The frame vector may refuse to grow, after the monitor was taken.
Invoke(t) ==
    /\ InRun(t)
    /\ \E X \in Catches, k \in Keys \cup {None} :
          IF Len(frames[t]) >= MAX_FRAME_DEPTH
             THEN Deliver(t, Within(frames[t], X), "error", {})
             ELSE /\ CanEnter(t, k)
                  /\ held' = Entered(t, k)
                  /\ \E room \in {TRUE} \cup {"reserve" \notin Faults} :
                        IF room THEN Push(t, X, <<MethodFrame(k)>>) /\ UNCHANGED flying
                                ELSE flying' = [flying EXCEPT ![t] = "alloc"] /\ UNCHANGED frames
                  /\ UNCHANGED <<bases, erroneous>>
    /\ UNCHANGED <<initialized, historyVars>>

\* invoke_java: a native arm runs a Java method to its end.
Upcall(t) ==
    /\ InRun(t)
    /\ \E X \in Catches, k \in Keys \cup {None} :
          IF Len(bases[t]) > MAX_UPCALL_DEPTH \/ Len(frames[t]) >= MAX_FRAME_DEPTH
             THEN Deliver(t, Within(frames[t], X), "error", {})
             ELSE /\ CanEnter(t, k)
                  /\ held' = Entered(t, k)
                  /\ Push(t, X, <<MethodFrame(k)>>)
                  /\ bases' = [bases EXCEPT ![t] = Append(@, Len(frames[t]))]
                  /\ UNCHANGED <<flying, erroneous>>
    /\ UNCHANGED <<initialized, historyVars>>

\* pop_frame; the run ends with the frame at its floor.
Return(t) ==
    LET n == Len(frames[t]) - 1
    IN  /\ InRun(t)
        /\ frames' = [frames EXCEPT ![t] = Resumed(Front(@))]
        /\ held' = ReleasedTo(t, frames[t], n)
        /\ bases' = [bases EXCEPT ![t] = IF n = Base(t) THEN Front(@) ELSE @]
        /\ completed' = completed \cup Inits(Above(frames[t], n))
        /\ UNCHANGED <<flying, classVars, abandoned, clinits, dropped>>

-----------------------------------------------------------------------------
(* Class initialisation                                                    *)

\* superclass_chain_indices: the class first, the root last.
Chain[c \in Classes] == <<c>> \o (IF Super[c] = None THEN <<>> ELSE Chain[Super[c]])
Ancestors(c) == ToSet(Tail(Chain[c]))

\* ensure_class_initialized_at refuses the class, for itself or for a superclass.
UseErroneous(t, c) ==
    /\ InRun(t)
    /\ \/ c \in erroneous
       \/ c \notin initialized /\ Ancestors(c) \cap erroneous # {}
    /\ \E X \in Catches : Deliver(t, Within(frames[t], X), "error", {c})
    /\ UNCHANGED <<initialized, historyVars>>

\* The classes of the chain to be initialised.
Fresh(c) == SelectSeq(Chain[c], LAMBDA a : a \notin initialized)
\* The index of the class whose statics find no room, if one does not.
Refused(s) == {Len(s) + 1} \cup (IF "prepare" \in Faults THEN DOMAIN s ELSE {})

\* Mutant: the list is popped, and its last frame ends up at the bottom.
Queue_Popped(s) ==
    LET own == Reverse(SelectSeq(s, LAMBDA a : a \in WithClinit))
    IN  [i \in DOMAIN own |-> ClinitFrame(own[i], i = Len(own))]

\* Their frames, the root's on top.
Queue(s) == LET own == SelectSeq(s, LAMBDA a : a \in WithClinit)
            IN  [i \in DOMAIN own |-> ClinitFrame(own[i], i = Len(own))]

\* construct and run_frames refuse what would be too deep.
MayConstruct(t, fits) == Len(bases[t]) <= MAX_UPCALL_DEPTH /\ (fits \/ "deep" \in Faults)

\* The chain is marked and its frames are queued; the loop pushes them and
\* executes the instruction again, or, for a reflective construction, a run of
\* their own does.  Only the loop marks what does not fit.
Initialise(t, c, reflective) ==
    LET fresh == Fresh(c)
        queue == Queue(fresh)
        fits == Len(frames[t]) + Len(queue) <= MAX_FRAME_DEPTH
    IN  /\ InRun(t)
        /\ ToSet(Chain[c]) \cap erroneous = {} /\ c \notin initialized
        /\ reflective => MayConstruct(t, fits)
        /\ \E X \in Catches, n \in Refused(fresh) :
              /\ initialized' = initialized \cup {fresh[i] : i \in 1..n \cap DOMAIN fresh}
              /\ IF n <= Len(fresh) \/ ~fits
                    THEN /\ Deliver(t, Within(frames[t], X), "error",
                                    IF reflective \/ fits \/ n <= Len(fresh) THEN {}
                                    ELSE Inits(queue))
                         /\ UNCHANGED clinits
                    ELSE /\ Push(t, IF queue = <<>> THEN {} ELSE X, queue)
                         /\ bases' = [bases EXCEPT ![t] =
                               IF reflective /\ queue # <<>> THEN Append(@, Len(frames[t])) ELSE @]
                         /\ clinits' = [a \in Classes |->
                               clinits[a] + IF a \in Inits(queue) THEN 1 ELSE 0]
                         /\ UNCHANGED <<flying, held, erroneous>>
        /\ UNCHANGED <<abandoned, completed, dropped>>

-----------------------------------------------------------------------------
(* Hard errors                                                             *)

\* The stop of the app, a fault of the interpreter, an exhausted heap.
Abort(t) ==
    /\ InRun(t)
    /\ \E e \in Hard \cap Faults : flying' = [flying EXCEPT ![t] = e]
    /\ UNCHANGED <<frames, bases, held, classVars, historyVars>>

\* An upcall cuts its frames off and hands the error on, an allocation failure
\* as an OutOfMemoryError or as a reason to collect and call again.  The
\* outermost run just drops them, monitors and all.
Leave(t) ==
    LET floor == Base(t)
        rest == SubSeq(frames[t], 1, floor)
    IN  /\ flying[t] \in Hard
        /\ bases' = [bases EXCEPT ![t] = Front(@)]
        /\ dropped' = dropped \cup Inits(Above(frames[t], floor))
        /\ \E e \in IF floor = 0 THEN {"none"}
                     ELSE IF flying[t] = "alloc" THEN {"error", "none"} ELSE {"fault"} :
              /\ flying' = [flying EXCEPT ![t] = e]
              /\ frames' = [frames EXCEPT ![t] = IF e = "none" THEN Resumed(rest) ELSE rest]
        /\ held' = IF floor = 0 THEN held ELSE ReleasedTo(t, frames[t], floor)
        /\ abandoned' = IF floor = 0 THEN abandoned \cup {t} ELSE abandoned
        /\ UNCHANGED <<classVars, clinits, completed>>

Next ==
    \E t \in Tasks :
        \/ Execute(t) \/ Invoke(t) \/ Upcall(t) \/ Return(t)
        \/ Raise(t) \/ Propagate(t) \/ Abort(t) \/ Leave(t)
        \/ \E c \in Classes : UseErroneous(t, c)
        \/ \E c \in Classes, reflective \in BOOLEAN : Initialise(t, c, reflective)

Spec == Init /\ [][Next]_vars

-----------------------------------------------------------------------------
(* Properties                                                              *)

TypeOK ==
    /\ frames \in [Tasks -> Seq(Frame)] /\ \A t \in Tasks : Len(frames[t]) <= MAX_FRAME_DEPTH
    /\ bases \in [Tasks -> Seq(0..MAX_FRAME_DEPTH)]
    /\ flying \in [Tasks -> {"none"} \cup Kinds \cup Hard]
    /\ held \in [Tasks -> [Keys -> Nat]]
    /\ initialized \cup erroneous \cup completed \cup dropped \subseteq Classes
    /\ clinits \in [Classes -> Nat] /\ abandoned \subseteq Tasks

\* Every run has frames of its own, and every frame lies in a run.
RunsNest ==
    \A t \in Tasks :
        LET ends == Append(Tail(bases[t]), Len(frames[t]))
        IN  IF bases[t] = <<>> THEN frames[t] = <<>>
            ELSE /\ bases[t][1] = 0 /\ Len(bases[t]) <= MAX_UPCALL_DEPTH + 1
                 /\ \A i \in DOMAIN bases[t] :
                       \/ bases[t][i] < ends[i]
                       \/ i = Len(bases[t]) /\ flying[t] # "none"

\* A task holds a monitor once for each of its frames that recorded it.
MonitorsMatch ==
    \A t \in Tasks \ abandoned, k \in Keys :
        held[t][k] = Cardinality({i \in DOMAIN frames[t] : frames[t][i].key = k})

\* The stack of a task is what its calls, returns and unwinds have left: runs
\* nest, and a monitor taken on the way into a method is held exactly while its
\* frame exists, whether it goes by a return, an exception or the end of an
\* upcall, and though the depth checks, the monitor and the push come in
\* different orders (enter_synchronized, pop_frame, truncate_frames, run_frames).
StackTrue == TypeOK /\ RunsNest /\ MonitorsMatch

InProgress(c) == \E t \in Tasks : c \in Inits(frames[t])
Settled(c) == c \in initialized /\ (c \in WithClinit => c \in completed)

\* JVMS 5.5, as ensure_class_initialized_at, the loop and handle_exception
\* carry it out between them: a <clinit> runs once, after those of its
\* superclasses or inside them; a class that can be used has run its <clinit>,
\* or is running it, unless a hard error cut it off; and a class once settled,
\* whose call sites no longer probe, never becomes erroneous.
InitOrder ==
    /\ \A c \in Classes : clinits[c] <= 1
    /\ \A t \in Tasks : \A i \in DOMAIN frames[t] :
          LET f == frames[t][i]
          IN  f.init # None /\ f.begun =>
                \A a \in Ancestors(f.init) :
                    \/ Settled(a) \/ a \in dropped
                    \/ \E j \in 1..i - 1 : frames[t][j].begun /\ frames[t][j].init = a
    /\ \A c \in initialized \ erroneous : Settled(c) \/ InProgress(c) \/ c \in dropped
    /\ completed \cap erroneous = {}

\* The unwind the JVMS describes, one frame at a time (2.10 and 5.5 step 11).
Unwound(stack, floor, kind) ==
    LET Down[i \in floor..Len(stack), k \in Kinds] ==
            IF i = floor \/ k \in stack[i].catches THEN [kept |-> i, kind |-> k, failed |-> {}]
            ELSE IF stack[i].init = None THEN Down[i - 1, k]
            ELSE LET below == Down[i - 1, "error"]
                 IN  [below EXCEPT !.failed = @ \cup {stack[i].init}]
    IN  Down[Len(stack), kind]

\* A handler for Errors, and not for exceptions, between two <clinit> frames
\* that the exception crosses: the code looks for handlers of the wrapper only
\* below the outermost of the two.
PassesOver(stack, floor) ==
    LET crossed == CrossedFrom(stack, HandlerAt(stack, floor, "exception"))
    IN  \E i \in DOMAIN stack : /\ "error" \in stack[i].catches
                                /\ \E a, b \in crossed : a <= i /\ i < b

\* On every stack that calls, upcalls and initialisations can build, the two
\* passes of handle_exception end where the frame-by-frame unwind ends: at the
\* same handler or floor, with the exception wrapped or not, and with the same
\* classes erroneous; except that a handler of Errors between two failing
\* initialisers is passed over (mod.rs:392, against JVMS 5.5).
UnwindsAsSpecified ==
    \A t \in Tasks, kind \in Kinds :
        bases[t] # <<>> /\ ~(kind = "exception" /\ PassesOver(frames[t], Base(t)))
            => Unwind(frames[t], Base(t), kind) = Unwound(frames[t], Base(t), kind)

\* What happens inside an upcall, an exception or a hard error included, leaves
\* the frames of its callers as they were: a native arm in between still owns
\* them (handle_exception's floor, invoke_java's truncation).
Kept(s, n) == [i \in 1..n |-> <<s[i].init, s[i].key>>]
FloorsKept ==
    [][\A t \in Tasks : bases[t] # <<>> =>
          /\ Len(frames'[t]) >= Base(t)
          /\ Kept(frames'[t], Base(t)) = Kept(frames[t], Base(t))]_vars

=============================================================================
