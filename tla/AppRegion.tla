----------------------------- MODULE AppRegion -----------------------------
(***************************************************************************)
(* The app region of the flash: where installed apps live, through         *)
(* installs, upgrades, compaction, uninstalls, reflashes and power losses. *)
(*                                                                         *)
(*   crates/pd-install             the install sequence and the region scan*)
(*   crates/picodroid-core         the package directory, planning,        *)
(*     src/packages.rs, packages/    compaction and the boot cleanup       *)
(*   crates/papk-format            the boot-meta sector of a run           *)
(*                                                                         *)
(* A run is a meta sector and the image behind it.  A step erases one      *)
(* sector or programs one page of meta or one sector of image (the pages   *)
(* of one image sector are not told apart), or is the code between two     *)
(* flash operations.  `todo` holds the flash operations still to make.     *)
(* The core that runs Java is parked or not yet started in every step but  *)
(* those of an uninstall that Java asked for.                              *)
(***************************************************************************)
EXTENDS Naturals, Sequences, FiniteSets, SequencesExt

CONSTANTS Pkgs, NoPkg,
          NSectors,    \* sectors of the region
          Sizes,       \* run lengths in sectors, the meta sector included
          Kinds,       \* what may be wrong with an image: see Image
          Boards,      \* see BoardsAssumption
          StaleMax,    \* stale runs one scan remembers
          MaxInstalls, \* bound on installs begun
          MaxFlashes   \* bound on reflashes with a baked app

ASSUME PkgsAssumption == NoPkg \notin Pkgs
ASSUME SizesAssumption == NSectors \in Nat /\ Sizes \subseteq 2..NSectors
ASSUME KindsAssumption == Kinds \subseteq {"ok", "invalid", "collides"}
ASSUME BoardsAssumption ==
    Boards \subseteq [apps : Nat \ {0},   \* max_installed_apps; 1 is a single-app board
                     lossy : BOOLEAN,    \* the link may fail in the middle of an install
                                         \* that has erased the old copy
                     system : SUBSET Pkgs, \* what its firmware links in; with multi-app
                     losses : Nat]       \* bound on power losses
ASSUME BoundsAssumption == StaleMax \in Nat /\ MaxInstalls \in Nat /\ MaxFlashes \in Nat

Sector == 0..(NSectors - 1)

VARIABLES flash,     \* what each sector holds
          entries,   \* the directory: the runs the last scan listed
          stale,     \* the runs it noted for the cleanup
          pc,        \* what the installer or the boot does
          todo,      \* flash operations it has still to make
          plan,      \* the install under way, or the last one
          image,     \* the run jvm_task executes, and resumes after a park
          erased,    \* listed runs erased, in whole or part, since the scan
          owed,      \* what the next boot may list for each package; {}: anything
          counts,    \* installs begun, power losses, reflashes
          board      \* the board this is

vars == <<flash, entries, stale, pc, todo, plan, image, erased, owed, counts, board>>

\* An image: its package, which build of it, the sectors of its run, and
\* whether it passes validate_structure and class_hashes_disjoint.
Image(p, v, n, kind) == [pkg |-> p, ver |-> v, n |-> n, kind |-> kind]
NoImage == Image(NoPkg, 0, 0, "ok")

Header(n, boot, seq) == [n |-> n, boot |-> boot, seq |-> seq]
NoHeader == Header(0, FALSE, 0)
NoData == [img |-> NoImage, k |-> 0]
Erased == [hdr |-> NoHeader, commit |-> FALSE, verified |-> FALSE, data |-> NoData]

Entry(s, h, img, v) == [first |-> s, n |-> h.n, boot |-> h.boot, seq |-> h.seq,
                        img |-> img, verified |-> v]
NoEntry == Entry(0, NoHeader, NoImage, FALSE)
NoPlan == [first |-> 0, img |-> NoImage, lo |-> 0, len |-> 0, evict |-> {},
           over |-> {}, boot |-> FALSE, seq |-> 0]

-----------------------------------------------------------------------------
(* The scan: RegionScan::next, then rescan, insert and note_stale. *)

ImageAt(f, s) == f[s + 1].data.img
WholeAt(f, s) == \A k \in 1..(f[s].hdr.n - 1) : f[s + k].data = [img |-> ImageAt(f, s), k |-> k]
                                                /\ ImageAt(f, s).n = f[s].hdr.n

\* The check of a run with its receipt reads only the image's bounds.
Valid(f, s) == ImageAt(f, s).pkg # NoPkg
               /\ (f[s].verified \/ (WholeAt(f, s) /\ ImageAt(f, s).kind # "invalid"))

Found(f, s) ==
    IF ~f[s].commit THEN "stale"
    ELSE IF ~Valid(f, s) THEN "garbage"
    ELSE IF ImageAt(f, s).kind = "collides" THEN "collides" ELSE "app"

HeaderAt(f, s) == f[s].hdr.n > 0 /\ f[s].hdr.n <= NSectors - s

\* What the walk finds, in ascending order: <<sector, what>>.
Walk(f) ==
    LET walk[s \in 0..NSectors] ==
            IF s = NSectors THEN <<>>
            ELSE IF ~HeaderAt(f, s) THEN walk[s + 1]
            ELSE <<<<s, Found(f, s)>>>> \o
                 walk[IF Found(f, s) = "garbage" THEN s + 1 ELSE s + f[s].hdr.n]
    IN walk[0]

IsBaked(e) == e.first = 0 /\ e.seq = 0

\* Which of two runs of one package is kept.
Newer_BySeq(e, old) == e.seq > old.seq \/ (e.seq = old.seq /\ e.first < old.first)
Newer(e, old) == IF IsBaked(e) # IsBaked(old) THEN IsBaked(e)
                 ELSE e.seq > old.seq \/ (e.seq = old.seq /\ e.first < old.first)

Run(e) == [first |-> e.first, n |-> e.n]
NoteStale(d, r) == IF Len(d.stale) < StaleMax THEN [d EXCEPT !.stale = Append(@, r)] ELSE d

Insert_ForgetsLoser(d, e) ==
    LET same == {o \in d.entries : o.img.pkg = e.img.pkg} IN
    IF \A o \in same : Newer(e, o) THEN [d EXCEPT !.entries = (@ \ same) \cup {e}] ELSE d

\* A run that names a system app is no app, and not free before the cleanup.
Insert(d, e) ==
    LET same == {o \in d.entries : o.img.pkg = e.img.pkg} IN
    IF e.img.pkg \in board.system THEN NoteStale(d, Run(e))
    ELSE IF same = {} THEN [d EXCEPT !.entries = @ \cup {e}]
    ELSE LET old == CHOOSE o \in same : TRUE IN
         IF Newer(e, old)
         THEN NoteStale([d EXCEPT !.entries = (@ \ {old}) \cup {e}], Run(old))
         ELSE NoteStale(d, Run(e))

\* The directory a scan of f makes.  The runs are disjoint and the region
\* holds fewer than the directory has slots for.
Scan(f) ==
    FoldLeft(LAMBDA d, x :
                LET s == x[1] IN
                CASE x[2] = "stale" -> NoteStale(d, [first |-> s, n |-> f[s].hdr.n])
                  [] x[2] = "app" -> Insert(d, Entry(s, f[s].hdr, ImageAt(f, s), f[s].verified))
                  [] OTHER -> d,
             [entries |-> {}, stale |-> <<>>], Walk(f))

Rescan == LET d == Scan(flash) IN
          entries' = d.entries /\ stale' = d.stale /\ erased' = {}

-----------------------------------------------------------------------------
(* Flash operations. *)

Op(kind, s, src, hdr, data) == [kind |-> kind, s |-> s, src |-> src, hdr |-> hdr,
                                data |-> data, risk |-> NoPkg]
Erase(s) == Op("erase", s, s, NoHeader, NoData)
EraseRun(first, n) == [i \in 1..n |-> Erase(first + i - 1)]
WriteHeader(s, h) == Op("header", s, s, h, NoData)
WriteCommit(s) == Op("commit", s, s, NoHeader, NoData)
WriteVerified(s) == Op("verified", s, s, NoHeader, NoData)
WriteImage(s, img, k) == Op("write", s, s, NoHeader, [img |-> img, k |-> k])
CopySector(src, s) == Op("copy", s, src, NoHeader, NoData)

Result(f, o) ==
    CASE o.kind = "erase" -> [f EXCEPT ![o.s] = Erased]
      [] o.kind = "header" -> [f EXCEPT ![o.s].hdr = o.hdr]
      [] o.kind = "commit" -> [f EXCEPT ![o.s].commit = TRUE]
      [] o.kind = "verified" -> [f EXCEPT ![o.s].verified = TRUE]
      [] o.kind = "write" -> [f EXCEPT ![o.s].data = o.data]
      [] o.kind = "copy" -> [f EXCEPT ![o.s] = f[o.src]]

FlashStep ==
    /\ todo # <<>>
    /\ flash' = Result(flash, Head(todo))
    /\ todo' = Tail(todo)
    /\ UNCHANGED <<entries, stale, pc, plan, image, erased, owed, counts>>

\* mark_verified: the receipts of the runs the scan d had to check.
Marks(d) == LET new == {e \in d : ~e.verified}
                runs == SetToSortSeq(new, LAMBDA a, b : a.first < b.first)
            IN [i \in 1..Cardinality(new) |-> WriteVerified(runs[i].first)]

-----------------------------------------------------------------------------
(* Placement: plan_install. *)

StaleRuns == {stale[i] : i \in DOMAIN stale}
Occupied(without) == {Run(e) : e \in entries \ without} \cup StaleRuns
Overlaps_OffByOne(r, first, n) == r.first < first + n - 1 /\ first < r.first + r.n
Overlaps(r, first, n) == r.first < first + n /\ first < r.first + r.n

Fits_PastTheEnd(need, runs) == {s \in {0} \cup {r.first + r.n : r \in runs} :
                                   s < NSectors /\ \A r \in runs : ~Overlaps(r, s, need)}

\* first_fit: the lowest gap of `need` sectors, at the start or behind a run.
Fits(need, runs) == {s \in {0} \cup {r.first + r.n : r \in runs} :
                        s + need <= NSectors /\ \A r \in runs : ~Overlaps(r, s, need)}
Lowest(S) == CHOOSE s \in S : \A t \in S : s <= t
Highest(S) == CHOOSE s \in S : \A t \in S : s >= t

next_seq == Highest({0} \cup {e.seq : e \in entries}) + 1

Used(runs) == FoldSet(LAMBDA r, n : r.n + n, 0, runs)

Place(img, first, lo, hi, evict, over, boot) ==
    [first |-> first, img |-> img, lo |-> lo, len |-> hi - lo, evict |-> evict,
     over |-> over, boot |-> boot, seq |-> next_seq]

Larger(a, b) == IF a > b THEN a ELSE b
Smaller(a, b) == IF a < b THEN a ELSE b

single_app_plan(img) ==
    IF entries = {} THEN Place(img, 0, 0, img.n, {}, {}, TRUE)
    ELSE LET old == CHOOSE e \in entries : \A o \in entries : e.first <= o.first IN
         IF old.first = 0
         THEN Place(img, 0, 0, Larger(img.n, old.n), {}, {old}, TRUE)
         ELSE Place(img, 0, 0, img.n, {old}, {}, TRUE)

\* The plans for img: none (refused), one, or a compaction.
Beside(img) == Fits(img.n, Occupied({}))
OldCopy(img) == {e \in entries : e.img.pkg = img.pkg}
InPlace(img) == IF OldCopy(img) = {} THEN {} ELSE Fits(img.n, Occupied(OldCopy(img)))
Inherited(img) == \E e \in OldCopy(img) : e.boot
Admitted(img) == /\ img.pkg \notin board.system
                 /\ OldCopy(img) # {} \/ Cardinality(entries) < board.apps

plan_multi_app(img) ==
    IF Beside(img) # {}
    THEN LET first == Lowest(Beside(img)) IN
         Place(img, first, first, first + img.n, OldCopy(img), {}, Inherited(img))
    ELSE LET first == Lowest(InPlace(img))
             old == CHOOSE e \in OldCopy(img) : TRUE IN
         Place(img, first, Smaller(first, old.first), Larger(first + img.n, old.first + old.n),
               {}, {old}, Inherited(img))

Plannable(img) == board.apps = 1 \/ (Admitted(img) /\ Beside(img) \cup InPlace(img) # {})
plan_install(img) == IF board.apps = 1 THEN single_app_plan(img) ELSE plan_multi_app(img)

CompactFirst(img) == /\ Admitted(img) /\ ~Plannable(img)
                     /\ NSectors - Used(Occupied(OldCopy(img))) >= img.n

-----------------------------------------------------------------------------
(* Compaction: compact and move_run. *)

CopyRun_NoErase(e, dst) == [k \in 1..(e.n - 1) |-> CopySector(e.first + k, dst + k)]

\* A run that overlaps its destination is lost if the power goes before the
\* commit: its ops say so.
CopyRun(e, dst) ==
    FlattenSeq([k \in 1..(e.n - 1) |-> <<Erase(dst + k), CopySector(e.first + k, dst + k)>>])
Risky(e, dst, ops) ==
    [i \in DOMAIN ops |->
        [ops[i] EXCEPT !.risk = IF e.first < dst + e.n THEN e.img.pkg ELSE NoPkg]]
Leftover(e, dst) == LET left == Larger(e.first, dst + e.n) IN EraseRun(left, e.first + e.n - left)

MoveRun_CommitFirst(e, dst, seq) ==
    <<Erase(dst), WriteHeader(dst, Header(e.n, e.boot, seq))>> \o
    Risky(e, dst, <<WriteCommit(dst)>> \o CopyRun(e, dst)) \o
    Leftover(e, dst)

MoveRun_DropsFlags(e, dst, seq) ==
    <<Erase(dst), WriteHeader(dst, Header(e.n, FALSE, seq))>> \o
    Risky(e, dst, CopyRun(e, dst) \o <<WriteCommit(dst)>>) \o
    Leftover(e, dst)

MoveRun(e, dst, seq) ==
    <<Erase(dst), WriteHeader(dst, Header(e.n, e.boot, seq))>> \o
    Risky(e, dst, CopyRun(e, dst) \o <<WriteCommit(dst)>>) \o
    Leftover(e, dst)

\* Runs in ascending order; a stale run above a gap has no entry, and the
\* lookup of its entry panics.
Compaction ==
    LET runs == SetToSortSeq(Occupied({}), LAMBDA a, b : a.first < b.first)
        slide(a, r) ==
            IF r.first > a.cursor
            THEN LET e == CHOOSE o \in entries : o.first = r.first IN
                 [cursor |-> a.cursor + r.n, seq |-> a.seq + 1,
                  ops |-> a.ops \o MoveRun(e, a.cursor, a.seq)]
            ELSE [a EXCEPT !.cursor = @ + r.n]
    IN FoldLeft(slide, [cursor |-> 0, seq |-> next_seq, ops |-> <<>>], runs).ops

-----------------------------------------------------------------------------
(* install *)

Begin(p) ==         \* the core is parked, the peek passed: erase the target
    /\ plan' = p
    /\ pc' = "erase"
    /\ todo' = EraseRun(p.lo, p.len)
    /\ erased' = erased \cup p.over

Install(p, n, kind) ==
    LET img == Image(p, counts[1] + 1, n, kind) IN
    /\ pc = "idle" /\ counts[1] < MaxInstalls
    /\ counts' = [counts EXCEPT ![1] = @ + 1]
    /\ \/ Plannable(img) /\ Begin(plan_install(img))
       \/ /\ CompactFirst(img)
          /\ plan' = [NoPlan EXCEPT !.img = img]
          /\ pc' = "compact"
          /\ todo' = Compaction
          /\ UNCHANGED erased
    /\ UNCHANGED <<flash, entries, stale, image, owed>>

Compacted ==
    /\ pc = "compact" /\ todo = <<>>
    /\ Rescan
    /\ pc' = "replan"
    /\ UNCHANGED <<flash, todo, plan, image, owed, counts>>

Replan ==           \* still no room in one piece: NoRoom
    /\ pc = "replan"
    /\ IF Plannable(plan.img) THEN Begin(plan_install(plan.img))
                              ELSE pc' = "idle" /\ UNCHANGED <<todo, plan, erased>>
    /\ UNCHANGED <<flash, entries, stale, image, owed, counts>>

Stream ==           \* report_ready; the host sends the image
    /\ pc = "erase" /\ todo = <<>>
    /\ pc' = "stream"
    /\ todo' = [k \in 1..(plan.img.n - 1) |-> WriteImage(plan.first + k, plan.img, k)]
    /\ UNCHANGED <<flash, entries, stale, plan, image, erased, owed, counts>>

StreamFails ==      \* a timeout, or the CRC at the end
    /\ pc = "stream" /\ (board.lossy \/ plan.over = {})
    /\ pc' = "idle"
    /\ todo' = <<>>
    /\ UNCHANGED <<flash, entries, stale, plan, image, erased, owed, counts>>

Check_Unvalidated ==
    /\ pc = "stream" /\ todo = <<>>
    /\ pc' = "commit"
    /\ todo' = <<WriteHeader(plan.first, Header(plan.img.n, plan.boot, plan.seq)),
                 WriteCommit(plan.first)>>
    /\ UNCHANGED <<flash, entries, stale, plan, image, erased, owed, counts>>

Check ==            \* the image is checked; its meta sector makes it the app
    /\ pc = "stream" /\ todo = <<>>
    /\ IF plan.img.kind = "invalid"
       THEN /\ pc' = "undo"
            /\ todo' = EraseRun(plan.first, plan.img.n)
       ELSE /\ pc' = "commit"
            /\ todo' = <<WriteHeader(plan.first, Header(plan.img.n, plan.boot, plan.seq)),
                         WriteCommit(plan.first)>>
    /\ UNCHANGED <<flash, entries, stale, plan, image, erased, owed, counts>>

Undone ==
    /\ pc = "undo" /\ todo = <<>>
    /\ Rescan
    /\ pc' = "idle"
    /\ UNCHANGED <<flash, todo, plan, image, owed, counts>>

\* The old copy of an upgrade that was placed beside it.
EvictOps == FlattenSeq(SetToSeq({EraseRun(e.first, e.n) : e \in plan.evict}))

Evict ==
    /\ pc = "commit" /\ todo = <<>>
    /\ pc' = "evict"
    /\ todo' = EvictOps
    /\ erased' = erased \cup plan.evict
    /\ UNCHANGED <<flash, entries, stale, plan, image, owed, counts>>

Evicted ==          \* rescan, mark_verified
    /\ pc = "evict" /\ todo = <<>>
    /\ Rescan
    /\ todo' = Marks(entries')
    /\ pc' = "verify"
    /\ UNCHANGED <<flash, plan, image, owed, counts>>

-----------------------------------------------------------------------------
(* Uninstalls. *)

Uninstall(e) ==     \* from Java the running app is refused
    /\ pc = "idle" /\ e \in entries
    /\ \/ pc' = "uninstall"
       \/ pc' = "uninstall_java" /\ image.img.pkg # e.img.pkg
    /\ todo' = EraseRun(e.first, e.n)
    /\ erased' = erased \cup {e}
    /\ UNCHANGED <<flash, entries, stale, plan, image, owed, counts>>

UninstalledByJava ==
    /\ pc = "uninstall_java" /\ todo = <<>>
    /\ Rescan
    /\ pc' = "idle"
    /\ UNCHANGED <<flash, todo, plan, image, owed, counts>>

-----------------------------------------------------------------------------
(* Resets, power losses, reflashes, boot. *)

\* The RAM is gone: the directory, the plan, the work.
Down == /\ pc' = "off" /\ todo' = <<>> /\ plan' = NoPlan
        /\ entries' = {} /\ stale' = <<>> /\ erased' = {} /\ image' = NoEntry

\* What the directory says of package p.
Listed(p) == LET imgs == {e.img : e \in {o \in entries : o.img.pkg = p}} IN
             IF imgs = {} THEN {NoImage} ELSE imgs
Gone == {e.img.pkg : e \in erased}

Reset ==            \* an install or uninstall reported success
    /\ pc \in {"verify", "uninstall"} /\ todo = <<>>
    /\ owed' = [p \in Pkgs |-> IF p \in Gone THEN {NoImage}
                               ELSE IF pc = "verify" /\ p = plan.img.pkg THEN {plan.img}
                               ELSE Listed(p)]
    /\ Down
    /\ UNCHANGED <<flash, counts>>

Committed(p) == p = plan.img.pkg /\ pc \in {"evict", "verify"}
AtRisk == Gone \cup (IF todo = <<>> THEN {} ELSE {Head(todo).risk})

PowerLoss ==
    /\ pc # "off" /\ counts[2] < board.losses
    /\ counts' = [counts EXCEPT ![2] = @ + 1]
    /\ owed' = IF pc \in {"cleanup", "mark"} THEN owed
               ELSE [p \in Pkgs |->
                       Listed(p) \cup
                       (IF p = plan.img.pkg /\ (pc = "commit" \/ Committed(p)) THEN {plan.img} ELSE {})
                       \cup (IF p \in AtRisk /\ ~Committed(p) THEN {NoImage} ELSE {})]
    /\ Down
    /\ UNCHANGED flash

Baked(p, n, v) == LET img == Image(p, v, n, "ok") IN
    [s \in 0..(n - 1) |-> IF s = 0 THEN [hdr |-> Header(n, TRUE, 0), commit |-> TRUE,
                                         verified |-> TRUE, data |-> NoData]
                          ELSE [Erased EXCEPT !.data = [img |-> img, k |-> s]]]

Reflash(p, n) ==    \* a firmware with an app baked in, written from sector 0
    LET b == Baked(p, n, MaxInstalls + counts[3] + 1) IN
    /\ pc = "off" /\ counts[3] < MaxFlashes
    /\ counts' = [counts EXCEPT ![3] = @ + 1]
    /\ flash' = [s \in Sector |-> IF s < n THEN b[s] ELSE flash[s]]
    /\ owed' = [q \in Pkgs |-> IF q \in board.system THEN {NoImage}
                               ELSE IF q = p THEN {ImageAt(b, 0)}
                               ELSE IF \E s \in 0..(n - 1) : flash[s].commit /\ ImageAt(flash, s).pkg = q
                               THEN owed[q] \cup {NoImage} ELSE owed[q]]
    /\ UNCHANGED <<entries, stale, pc, todo, plan, image, erased>>

Boot ==
    /\ pc = "off"
    /\ Rescan
    /\ todo' = FlattenSeq([i \in DOMAIN stale' |-> EraseRun(stale'[i].first, stale'[i].n)])
    /\ pc' = "cleanup"
    /\ UNCHANGED <<flash, plan, image, owed, counts>>

Cleaned_NoRescan ==
    /\ pc = "cleanup" /\ todo = <<>>
    /\ todo' = Marks(entries)
    /\ pc' = "mark"
    /\ UNCHANGED <<flash, entries, stale, erased, plan, image, owed, counts>>

Cleaned ==          \* the rest of cleanup, then mark_verified
    /\ pc = "cleanup" /\ todo = <<>>
    /\ IF stale = <<>> THEN UNCHANGED <<entries, stale, erased>> ELSE Rescan
    /\ todo' = Marks(entries')
    /\ pc' = "mark"
    /\ UNCHANGED <<flash, plan, image, owed, counts>>

Booted ==           \* jvm_task starts some app, or a system app
    /\ pc = "mark" /\ todo = <<>>
    /\ entries' = {[e EXCEPT !.verified = TRUE] : e \in entries}
    /\ image' \in entries' \cup {NoEntry}
    /\ pc' = "idle"
    /\ UNCHANGED <<flash, stale, todo, plan, erased, owed, counts>>

-----------------------------------------------------------------------------
Init ==             \* an erased region
    /\ flash = [s \in Sector |-> Erased]
    /\ entries = {} /\ stale = <<>> /\ erased = {}
    /\ pc = "off" /\ todo = <<>> /\ plan = NoPlan /\ image = NoEntry
    /\ owed = [p \in Pkgs |-> {NoImage}]
    /\ counts = <<0, 0, 0>>
    /\ board \in Boards

Next == /\ \/ FlashStep
           \/ \E p \in Pkgs, n \in Sizes, kind \in Kinds : Install(p, n, kind)
           \/ Compacted \/ Replan \/ Stream \/ StreamFails \/ Check \/ Undone \/ Evict \/ Evicted
           \/ \E e \in entries : Uninstall(e)
           \/ UninstalledByJava
           \/ Reset \/ PowerLoss \/ Boot \/ Cleaned \/ Booted
           \/ \E p \in Pkgs, n \in Sizes : Reflash(p, n)
        /\ UNCHANGED board

Spec == Init /\ [][Next]_vars

-----------------------------------------------------------------------------
PC == {"off", "cleanup", "mark", "idle", "compact", "replan", "erase", "stream", "undo",
       "commit", "evict", "verify", "uninstall", "uninstall_java"}

\* The shape of the state.  A header never claims sectors past the region,
\* and every flash operation still to make stays inside it.
TypeOK ==
    /\ pc \in PC
    /\ \A s \in Sector : /\ flash[s].hdr.n \in {0} \cup Sizes /\ s + flash[s].hdr.n <= NSectors
                         /\ flash[s].data.img.pkg \in Pkgs \cup {NoPkg}
    /\ \A i \in DOMAIN todo : todo[i].s \in Sector /\ todo[i].src \in Sector
    /\ \A e \in entries : e.first \in Sector /\ e.img.pkg \in Pkgs \ board.system
    /\ Len(stale) <= StaleMax
    /\ erased \subseteq entries
    /\ \A p \in Pkgs : owed[p] # {}

\* Run e is on flash as the directory says: header, commit page and all of
\* its image.
Intact(e) == /\ flash[e.first].hdr = Header(e.n, e.boot, e.seq) /\ flash[e.first].commit
             /\ WholeAt(flash, e.first) /\ ImageAt(flash, e.first) = e.img

\* "Never a half-copied image that reads as installed" (flash_image.rs): at
\* every instant, so at every power loss, a sector with a commit page has the
\* whole of a checked image behind it.  A scan that trusts the receipt of a
\* run, or the commit page of a stale one, relies on it.
CommittedWhole ==
    \A s \in Sector : flash[s].commit =>
        HeaderAt(flash, s) /\ WholeAt(flash, s) /\ ImageAt(flash, s).kind # "invalid"

\* "No page is ever programmed twice" (flash_image.rs): what is programmed
\* next is erased, and a receipt follows a commit page.
ProgramsErased ==
    todo # <<>> =>
        LET o == Head(todo) f == flash[o.s] IN
        CASE o.kind = "header" -> f = Erased
          [] o.kind = "commit" -> ~f.commit /\ f.hdr # NoHeader
          [] o.kind = "verified" -> f.commit /\ ~f.verified
          [] o.kind \in {"write", "copy"} -> f = Erased
          [] OTHER -> TRUE

\* An install, an upgrade or an uninstall touches no run but those it says
\* it erases: every other run of the directory stays intact.
ListedIntact == pc # "compact" => \A e \in entries \ erased : Intact(e)

\* A power loss, wherever it falls, and the cleanup of the boot after it
\* leave every package that was not being erased, replaced in place or slid
\* onto itself: the version that was listed, or the one just committed.
\* After a reported success it is the new version, after a reflash the baked
\* one.
BootKeepsApps == pc = "mark" => \A p \in Pkgs : Listed(p) \subseteq owed[p]

\* Outside of boot the directory has no stale run: the planner sees all of
\* the free space, and compact finds an entry for every run it moves.
NoStaleIdle == pc \notin {"cleanup", "mark"} => stale = <<>>

\* With no work under way, every boot-meta header on flash belongs to a
\* listed run, so no hidden header can shadow a run placed later.
HeadersListed ==
    pc = "idle" => \A s \in Sector : HeaderAt(flash, s) => \E e \in entries : e.first = s

\* Flash and directory agree: pages are programmed once per erase, what is
\* listed is intact, and nothing hides from the directory.
DirectoryMatchesFlash ==
    TypeOK /\ ProgramsErased /\ ListedIntact /\ NoStaleIdle /\ HeadersListed

\* An install that reports success has its app in the directory.
SuccessInstalled == pc = "verify" => Listed(plan.img.pkg) = {plan.img}

\* No app is lost to a power loss, none is half there, and none is reported that
\* is not there.
AppsSurvive == CommittedWhole /\ BootKeepsApps /\ SuccessInstalled

\* A rescan never takes FLAG_BOOT_DEFAULT from a package: an upgrade inherits
\* it and a move carries it along.
BootFlagKept == [][\A e \in entries, f \in entries' :
                      e.img.pkg = f.img.pkg /\ e.boot => f.boot]_vars

\* The directory never lists "an app that is gone" (orchestrator.rs) once the
\* installer is done.
DirectoryTrue == pc = "idle" => \A e \in entries : Intact(e)

\* "A refused install resumes the same app" (boot_tasks.rs): if the app is
\* still installed, it is where jvm_task's image is.
ResumesSameApp == pc = "idle" => \A e \in entries :
                      e.img = image.img /\ Intact(e) => e.first = image.first

\* "The higher seq wins" (flash_image.rs): of two runs of a package that a
\* boot finds, it keeps the later one.
HigherSeqWins == pc = "cleanup" => \A e \in entries, s \in Sector :
    flash[s].commit /\ ImageAt(flash, s).pkg = e.img.pkg => flash[s].hdr.seq <= e.seq

\* A slide loses the app only once it "destroys the old meta sector"
\* (plan.rs): a run that is whole on flash is listed by the boot's scan.
WholeRunListed == pc = "cleanup" => \A s \in Sector :
    flash[s].commit /\ ImageAt(flash, s).pkg \notin board.system =>
        Listed(ImageAt(flash, s).pkg) # {NoImage}
=============================================================================
