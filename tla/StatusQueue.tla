----------------------------- MODULE StatusQueue -----------------------------
(***************************************************************************)
(* The status queue of one git worktree                                    *)
(* (crates/mille-git/src/queue.rs, with the parts of session.rs and lib.rs *)
(* that call it and wait on it).                                           *)
(*                                                                         *)
(* Hints (explorer events, refreshes, the end of a mutation) union into    *)
(* one pending set; a driver task waits out a debounce, takes the set,     *)
(* computes a status outside every lock and publishes it, merged into the  *)
(* previous one.  A blocking section (a mutation) invalidates the run in   *)
(* flight, keeps new ones from starting, and queues a full run when the    *)
(* last one ends.  Callers wait for a run's sequence number.               *)
(*                                                                         *)
(* One action per critical section of the queue's mutex, per await of the  *)
(* driver, and per step of the callers.  A path's status is abstracted to  *)
(* a version number: disk holds the versions in the worktree, view those   *)
(* of the published snapshot.  A full hint is the set Paths.  Timers fire  *)
(* at any time.                                                            *)
(***************************************************************************)
EXTENDS Integers, FiniteSets

CONSTANTS
  Paths,         \* worktree-relative paths
  MaxHintPaths,  \* MAX_HINT_PATHS: a larger set runs full
  Tasks,         \* identities for driver tasks
  Ops,           \* mutations, each entering one blocking section
  Callers,       \* callers of status() and refresh(), each once
  Closable,      \* whether the session may be closed
  MaxHints,      \* bound: hints from the explorer
  MaxVersion     \* bound: versions of a path

ASSUME PathsAssumption ==
  /\ IsFiniteSet(Paths) /\ Paths # {}
  /\ MaxHintPaths \in Nat /\ MaxHintPaths < Cardinality(Paths)
ASSUME OpsAssumption == IsFiniteSet(Ops)
ASSUME QueueBoundAssumption == MaxHints \in Nat /\ MaxVersion \in Nat
ASSUME ClosableAssumption == Closable \in BOOLEAN

VARIABLES
  pending,    \* hinted paths not yet taken; {} is None, Paths is Full
  urgent,     \* skip the debounce
  driver,     \* flag: a driver task is on its way to take the pending set
  running,    \* flag: a status is computing
  started,    \* runs started so far
  epoch,      \* invalidations so far
  blocking,   \* blocking sections in progress
  cancelled,  \* the session's cancellation token
  task,       \* driver task -> where it is, and its run
  op,         \* mutation -> where it is
  publishedSeq, \* sequence of the last published run
  pathLimited,  \* the published snapshot is path-limited
  view,       \* path -> version in the snapshot the last run that worked has
              \* published (0: unknown)
  blank,      \* paths whose rows the last run dropped because git failed
  disk,       \* path -> version in the worktree
  idle,       \* armed idle rescans, by sequence
  quiet,      \* idle rescans that found the queue quiet and are to hint
  caller,     \* caller -> its wait
  hinted,     \* explorer hints so far
  owed,       \* history: path -> version a hint has asked for and no run answered
  entered     \* history: runs started when a blocking section last began

lockVars  == <<pending, urgent, driver, running, started, epoch, blocking>>
pubVars   == <<publishedSeq, pathLimited, view, blank>>
histVars  == <<owed, entered>>
vars == <<lockVars, cancelled, task, op, pubVars, disk, idle, quiet, caller,
          hinted, histVars>>

Full == Paths

Versions == [Paths -> Nat]
Zero     == [p \in Paths |-> 0]

TaskRecords ==
  [pc : {"none", "debounce", "asleep", "take", "compute", "computed"},
   seq : Nat, epoch : Nat, hints : SUBSET Paths, seen : Versions, git : {"ok", "failed"}]
NoTask == [pc |-> "none", seq |-> 0, epoch |-> 0, hints |-> {}, seen |-> Zero,
           git |-> "ok"]

OpStates == {"ready", "waiting", "holding", "owes", "done"}

CallerRecords == [st : {"idle", "waiting", "done", "canceled"},
                  target : Nat, need : Versions]
NoWait == [st |-> "idle", target |-> 0, need |-> Zero]

TypeOK ==
  /\ pending \subseteq Paths
  /\ urgent \in BOOLEAN /\ driver \in BOOLEAN /\ running \in BOOLEAN
  /\ started \in Nat /\ epoch \in Nat /\ blocking \in Nat
  /\ cancelled \in BOOLEAN
  /\ task \in [Tasks -> TaskRecords]
  /\ op \in [Ops -> OpStates]
  /\ publishedSeq \in Nat /\ pathLimited \in BOOLEAN
  /\ view \in Versions /\ disk \in Versions /\ blank \subseteq Paths
  /\ idle \subseteq Nat /\ quiet \in Nat
  /\ caller \in [Callers -> CallerRecords]
  /\ hinted \in 0..MaxHints
  /\ owed \in Versions
  /\ entered \in Nat

-----------------------------------------------------------------------------
(* hint *)

\* Union two hint sets; one too large for a path-limited run becomes Full.
Absorb(a, b) == IF Cardinality(a \cup b) > MaxHintPaths THEN Full ELSE a \cup b

\* Spawn a driver task.
Spawn == \E t \in Tasks :
           /\ task[t].pc = "none"
           /\ task' = [task EXCEPT ![t].pc = "debounce"]

\* A hint that overwrites what was pending instead of joining it.
HintReplacing(h, now) ==
  \/ cancelled /\ UNCHANGED <<lockVars, task, owed>>
  \/ /\ ~cancelled
     /\ pending' = h
     /\ urgent' = (urgent \/ now)
     /\ owed' = [p \in Paths |-> IF p \in h THEN disk[p] ELSE owed[p]]
     /\ \/ /\ driver \/ running \/ blocking > 0
           /\ UNCHANGED <<driver, task>>
        \/ /\ ~driver /\ ~running /\ blocking = 0
           /\ driver' = TRUE
           /\ Spawn
     /\ UNCHANGED <<running, started, epoch, blocking>>

\* A hint that does not look for a driver already there.
HintAlwaysSpawns(h, now) ==
  \/ cancelled /\ UNCHANGED <<lockVars, task, owed>>
  \/ /\ ~cancelled
     /\ pending' = IF pending = {} THEN h ELSE Absorb(pending, h)
     /\ urgent' = (urgent \/ now)
     /\ owed' = [p \in Paths |-> IF p \in h THEN disk[p] ELSE owed[p]]
     /\ driver' = TRUE
     /\ Spawn
     /\ UNCHANGED <<running, started, epoch, blocking>>

\* hint: join the pending set, and spawn a driver unless somebody is there
\* to pick the set up.
Hint(h, now) ==
  \/ cancelled /\ UNCHANGED <<lockVars, task, owed>>
  \/ /\ ~cancelled
     /\ pending' = IF pending = {} THEN h ELSE Absorb(pending, h)
     /\ urgent' = (urgent \/ now)
     /\ owed' = [p \in Paths |-> IF p \in h THEN disk[p] ELSE owed[p]]
     /\ \/ /\ driver \/ running \/ blocking > 0
           /\ UNCHANGED <<driver, task>>
        \/ /\ ~driver /\ ~running /\ blocking = 0
           /\ driver' = TRUE
           /\ Spawn
     /\ UNCHANGED <<running, started, epoch, blocking>>

\* hint_paths and its relatives, the gitdir watch, and open.
ExplorerHint(h, now) ==
  /\ hinted < MaxHints
  /\ hinted' = hinted + 1
  /\ Hint(h, now)
  /\ UNCHANGED <<cancelled, op, pubVars, disk, idle, quiet, caller, entered>>

-----------------------------------------------------------------------------
(* drive *)

\* 1. The debounce test: urgent, nothing pending, or the deadline passed.
DebounceEnds(t) ==
  /\ task[t].pc = "debounce"
  /\ task' = [task EXCEPT ![t].pc = "take"]
  /\ UNCHANGED <<lockVars, cancelled, op, pubVars, disk, idle, quiet, caller,
                 hinted, histVars>>

DebounceSleeps(t) ==
  /\ task[t].pc = "debounce"
  /\ ~urgent /\ pending # {}
  /\ task' = [task EXCEPT ![t].pc = "asleep"]
  /\ UNCHANGED <<lockVars, cancelled, op, pubVars, disk, idle, quiet, caller,
                 hinted, histVars>>

\* The timer fires, or the session is cancelled.
Wake(t) ==
  /\ task[t].pc = "asleep"
  /\ \/ /\ task' = [task EXCEPT ![t].pc = "debounce"]
        /\ UNCHANGED driver
     \/ /\ cancelled
        /\ task' = [task EXCEPT ![t] = NoTask]
        /\ driver' = FALSE
  /\ UNCHANGED <<pending, urgent, running, started, epoch, blocking, cancelled,
                 op, pubVars, disk, idle, quiet, caller, hinted, histVars>>

\* 2. Take the pending set, unless a mutation owns the worktree.
Take(t) ==
  /\ task[t].pc = "take"
  /\ driver' = FALSE
  /\ \/ /\ blocking > 0 \/ pending = {}
        /\ task' = [task EXCEPT ![t] = NoTask]
        /\ UNCHANGED <<pending, urgent, running, started>>
     \/ /\ blocking = 0 /\ pending # {}
        /\ pending' = {} /\ urgent' = FALSE /\ running' = TRUE
        /\ started' = started + 1
        /\ task' = [task EXCEPT ![t] =
             [pc |-> "compute", seq |-> started + 1, epoch |-> epoch,
              hints |-> pending, seen |-> Zero, git |-> "ok"]]
  /\ UNCHANGED <<epoch, blocking, cancelled, op, pubVars, disk, idle, quiet,
                 caller, hinted, histVars>>

\* 3. Compute (compute_status), outside every lock.  A walk that was
\* interrupted returns whatever it had: nothing, here.  When gix and the CLI
\* both fail the run has no entries and is published all the same.
Compute(t) ==
  /\ task[t].pc = "compute"
  /\ \/ task' = [task EXCEPT ![t].pc = "computed",
                              ![t].seen = IF task[t].epoch = epoch THEN disk ELSE Zero]
     \/ /\ task[t].epoch = epoch
        /\ task' = [task EXCEPT ![t].pc = "computed", ![t].git = "failed"]
  /\ UNCHANGED <<lockVars, cancelled, op, pubVars, disk, idle, quiet, caller,
                 hinted, histVars>>

\* merge_status: a path-limited run replaces the rows it looked at, one that
\* failed with none.
Merged(r) == [p \in Paths |-> IF p \in r.hints /\ r.git = "ok" THEN r.seen[p] ELSE view[p]]
Blanked(r) == IF r.git = "failed" THEN blank \cup r.hints ELSE blank \ r.hints

\* The published slot and sequence.  A run that failed has answered its hints,
\* with nothing and a warning; those that came meanwhile are pending.
Published(r) ==
  /\ view' = Merged(r) /\ blank' = Blanked(r)
  /\ pathLimited' = (r.hints # Full)
  /\ publishedSeq' = r.seq
  /\ owed' = [p \in Paths |-> IF r.git = "failed" /\ p \in r.hints \ pending THEN 0 ELSE owed[p]]

\* What follows the publish under the same lock: run again at once if hints
\* arrived meanwhile, else return and arm the idle rescan.
Rerun(t, limited) ==
  LET rerun == pending # {} /\ blocking = 0 /\ ~cancelled
  IN  /\ running' = FALSE
      /\ urgent' = (urgent \/ rerun)
      /\ driver' = (driver \/ rerun)
      /\ task' = [task EXCEPT ![t] = IF rerun THEN [NoTask EXCEPT !.pc = "debounce"]
                                              ELSE NoTask]
      /\ idle' = IF limited /\ ~rerun THEN idle \cup {task[t].seq} ELSE idle

\* A publish that ignores the invalidation.
PublishStale(t) ==
  LET r == task[t]
  IN  /\ r.pc = "computed"
      /\ \/ /\ ~cancelled
            /\ Published(r)
            /\ Rerun(t, r.hints # Full)
         \/ /\ cancelled
            /\ UNCHANGED <<pubVars, owed>>
            /\ Rerun(t, FALSE)
      /\ UNCHANGED <<pending, started, epoch, blocking, cancelled, op, disk,
                     quiet, caller, hinted, entered>>

\* A run that ends without looking at the hints that arrived meanwhile.
PublishForgets(t) ==
  LET r == task[t]
  IN  /\ r.pc = "computed"
      /\ IF r.epoch = epoch /\ ~cancelled
         THEN Published(r)
         ELSE UNCHANGED <<pubVars, owed>>
      /\ running' = FALSE
      /\ task' = [task EXCEPT ![t] = NoTask]
      /\ UNCHANGED <<pending, urgent, driver, started, epoch, blocking,
                     cancelled, op, disk, idle, quiet, caller, hinted, entered>>

\* 4. Publish unless the run was invalidated meanwhile.
Publish(t) ==
  LET r    == task[t]
      good == r.epoch = epoch /\ ~cancelled
  IN  /\ r.pc = "computed"
      /\ \/ /\ good
            /\ Published(r)
            /\ Rerun(t, r.hints # Full)
         \/ /\ ~good
            /\ UNCHANGED <<pubVars, owed>>
            /\ Rerun(t, FALSE)
      /\ UNCHANGED <<pending, started, epoch, blocking, cancelled, op, disk,
                     quiet, caller, hinted, entered>>

-----------------------------------------------------------------------------
(* arm_idle_rescan: the timer, the test under the lock, then the hint. *)

IdleFires(q) ==
  LET calm == started = q /\ ~running /\ pending = {}
  IN  /\ q \in idle
      /\ idle' = idle \ {q}
      /\ quiet' = IF calm /\ ~cancelled THEN quiet + 1 ELSE quiet
      /\ UNCHANGED <<lockVars, cancelled, task, op, pubVars, disk, caller,
                     hinted, histVars>>

IdleHint ==
  /\ quiet > 0
  /\ quiet' = quiet - 1
  /\ Hint(Full, TRUE)
  /\ UNCHANGED <<cancelled, op, pubVars, disk, idle, caller, hinted, entered>>

-----------------------------------------------------------------------------
(* blocking and BlockingGuard *)

\* A blocking section that its guard will end but nobody counted.
BlockingUncounted(o) ==
  /\ op[o] = "ready"
  /\ op' = [op EXCEPT ![o] = "waiting"]
  /\ epoch' = epoch + 1
  /\ entered' = started
  /\ UNCHANGED <<pending, urgent, driver, running, started, blocking, cancelled,
                 task, pubVars, disk, idle, quiet, caller, hinted, owed>>

\* A blocking section that leaves the run in flight valid.
BlockingKeepsRun(o) ==
  /\ op[o] = "ready"
  /\ op' = [op EXCEPT ![o] = "waiting"]
  /\ blocking' = blocking + 1
  /\ entered' = started
  /\ UNCHANGED <<pending, urgent, driver, running, started, epoch, cancelled,
                 task, pubVars, disk, idle, quiet, caller, hinted, owed>>

\* Count the section and invalidate the run in flight, under one lock; then
\* wait for the write side of ops.
Blocking(o) ==
  /\ op[o] = "ready"
  /\ op' = [op EXCEPT ![o] = "waiting"]
  /\ blocking' = blocking + 1
  /\ epoch' = epoch + 1
  /\ entered' = started
  /\ UNCHANGED <<pending, urgent, driver, running, started, cancelled, task,
                 pubVars, disk, idle, quiet, caller, hinted, owed>>

AcquireWrite(o) ==
  /\ op[o] = "waiting"
  /\ \A other \in Ops : op[other] # "holding"
  /\ op' = [op EXCEPT ![o] = "holding"]
  /\ UNCHANGED <<lockVars, cancelled, task, pubVars, disk, idle, quiet, caller,
                 hinted, histVars>>

\* git changes the index or the worktree.
Mutate(o, p) ==
  /\ op[o] = "holding"
  /\ disk[p] < MaxVersion
  /\ disk' = [disk EXCEPT ![p] = @ + 1]
  /\ UNCHANGED <<lockVars, cancelled, task, op, pubVars, idle, quiet, caller,
                 hinted, histVars>>

\* The guard is dropped, by the mutation's end or by a caller that gave up
\* while waiting: the count first, the hint of the last one after it.
DropGuard(o) ==
  /\ op[o] \in {"waiting", "holding"}
  /\ blocking' = blocking - 1
  /\ op' = [op EXCEPT ![o] = IF blocking = 1 THEN "owes" ELSE "done"]
  /\ UNCHANGED <<pending, urgent, driver, running, started, epoch, cancelled,
                 task, pubVars, disk, idle, quiet, caller, hinted, histVars>>

\* A last guard that forgets the refresh every mutation owes.
LastGuardSilent(o) ==
  /\ op[o] = "owes"
  /\ op' = [op EXCEPT ![o] = "done"]
  /\ UNCHANGED <<lockVars, cancelled, task, pubVars, disk, idle, quiet, caller,
                 hinted, histVars>>

LastGuardHint(o) ==
  /\ op[o] = "owes"
  /\ op' = [op EXCEPT ![o] = "done"]
  /\ Hint(Full, TRUE)
  /\ UNCHANGED <<cancelled, pubVars, disk, idle, quiet, caller, hinted, entered>>

-----------------------------------------------------------------------------
(* Callers. *)

Wait(c, target, need) ==
  caller' = [caller EXCEPT ![c] =
               [st |-> "waiting", target |-> target, need |-> need]]

Ends(c, st) == caller' = [caller EXCEPT ![c] = [NoWait EXCEPT !.st = st]]

Asked(h) == [p \in Paths |-> IF p \in h THEN disk[p] ELSE 0]

\* A refresh that waits for the run in flight instead of the next one.
RefreshEarly(c, h) ==
  /\ caller[c].st = "idle"
  /\ Hint(h, TRUE)
  /\ Wait(c, started, Asked(h))
  /\ UNCHANGED <<cancelled, op, pubVars, disk, idle, quiet, hinted, entered>>

\* refresh: queue, and wait for the next run to start.
Refresh(c, h) ==
  /\ caller[c].st = "idle"
  /\ Hint(h, TRUE)
  /\ Wait(c, started + 1, Asked(h))
  /\ UNCHANGED <<cancelled, op, pubVars, disk, idle, quiet, hinted, entered>>

\* status: what is queued or running has to settle first (settle_target);
\* the first status of a session queues one.
Status(c) ==
  /\ caller[c].st = "idle"
  /\ \/ /\ pending # {} \/ driver \/ blocking > 0
        /\ Wait(c, started + 1, owed)
        /\ UNCHANGED <<lockVars, task, owed>>
     \/ /\ pending = {} /\ ~driver /\ blocking = 0 /\ running
        /\ Wait(c, started, owed)
        /\ UNCHANGED <<lockVars, task, owed>>
     \/ /\ pending = {} /\ ~driver /\ blocking = 0 /\ ~running
        /\ publishedSeq > 0
        /\ Ends(c, "done")
        /\ UNCHANGED <<lockVars, task, owed>>
     \/ /\ pending = {} /\ ~driver /\ blocking = 0 /\ ~running
        /\ publishedSeq = 0
        /\ Hint(Full, TRUE)
        /\ Wait(c, started + 1, Asked(Full))
  /\ UNCHANGED <<cancelled, op, pubVars, disk, idle, quiet, hinted, entered>>

\* A wait that needs a later run than the one it was promised.
WaitPublishedStrict(c) ==
  /\ caller[c].st = "waiting"
  /\ \/ /\ publishedSeq > caller[c].target
        /\ Ends(c, "done")
     \/ /\ cancelled
        /\ Ends(c, "canceled")
  /\ UNCHANGED <<lockVars, cancelled, task, op, pubVars, disk, idle, quiet,
                 hinted, histVars>>

\* wait_published
WaitPublished(c) ==
  /\ caller[c].st = "waiting"
  /\ \/ /\ publishedSeq >= caller[c].target
        /\ Ends(c, "done")
     \/ /\ cancelled
        /\ Ends(c, "canceled")
  /\ UNCHANGED <<lockVars, cancelled, task, op, pubVars, disk, idle, quiet,
                 hinted, histVars>>

\* The last close: cancel the token, invalidate the run in flight.
Shutdown ==
  /\ Closable /\ ~cancelled
  /\ cancelled' = TRUE
  /\ epoch' = epoch + 1
  /\ UNCHANGED <<pending, urgent, driver, running, started, blocking, task, op,
                 pubVars, disk, idle, quiet, caller, hinted, histVars>>

\* The worktree changes under the session's feet.
Write(p) ==
  /\ disk[p] < MaxVersion
  /\ disk' = [disk EXCEPT ![p] = @ + 1]
  /\ UNCHANGED <<lockVars, cancelled, task, op, pubVars, idle, quiet, caller,
                 hinted, histVars>>

-----------------------------------------------------------------------------
Init ==
  /\ pending = {} /\ urgent = FALSE /\ driver = FALSE /\ running = FALSE
  /\ started = 0 /\ epoch = 0 /\ blocking = 0 /\ cancelled = FALSE
  /\ task = [t \in Tasks |-> NoTask]
  /\ op = [o \in Ops |-> "ready"]
  /\ publishedSeq = 0 /\ pathLimited = FALSE
  /\ view = Zero /\ disk = [p \in Paths |-> 1] /\ blank = {}
  /\ idle = {} /\ quiet = 0
  /\ caller = [c \in Callers |-> NoWait]
  /\ hinted = 0
  /\ owed = Zero /\ entered = 0

HintSets == (SUBSET Paths) \ {{}}

Drive(t) ==
  \/ DebounceEnds(t)
  \/ DebounceSleeps(t)
  \/ Wake(t)
  \/ Take(t)
  \/ Compute(t)
  \/ Publish(t)

Next ==
  \/ \E h \in HintSets, now \in BOOLEAN : ExplorerHint(h, now)
  \/ \E t \in Tasks : Drive(t)
  \/ \E q \in idle : IdleFires(q)
  \/ IdleHint
  \/ \E o \in Ops :
       \/ Blocking(o)
       \/ AcquireWrite(o)
       \/ \E p \in Paths : Mutate(o, p)
       \/ DropGuard(o)
       \/ LastGuardHint(o)
  \/ \E c \in Callers :
       \/ \E h \in HintSets : Refresh(c, h)
       \/ Status(c)
       \/ WaitPublished(c)
  \/ Shutdown
  \/ \E p \in Paths : Write(p)

\* The runtime polls spawned tasks, timers fire, runs and mutations end (git
\* runs under a timeout); users and the disk owe nothing.  The debounce is
\* strongly fair: its deadline is at most max_wait after the first hint,
\* however often later hints put it off.
Fairness ==
  /\ \A t \in Tasks : WF_vars(Drive(t)) /\ SF_vars(DebounceEnds(t))
  /\ WF_vars(\E q \in idle : IdleFires(q))
  /\ WF_vars(IdleHint)
  /\ \A o \in Ops : WF_vars(DropGuard(o)) /\ WF_vars(LastGuardHint(o))
  /\ \A c \in Callers : WF_vars(WaitPublished(c))

Spec == Init /\ [][Next]_vars
FairSpec == Spec /\ Fairness

-----------------------------------------------------------------------------
(* Properties. *)

Heading   == {t \in Tasks : task[t].pc \in {"debounce", "asleep", "take"}}
Computing == {t \in Tasks : task[t].pc \in {"compute", "computed"}}

\* At most one status of the worktree is computing and at most one driver is
\* on its way, never both, and the two flags say so: the flags are all that
\* keeps hint from spawning a second driver (queue.rs header, drive).
OneRun ==
  /\ \A t, u \in Heading \cup Computing : t = u
  /\ driver <=> Heading # {}
  /\ running <=> Computing # {}

\* No hint is lost: a hinted path whose published version is older than the
\* one the hint asked for is in the pending set, or in a run that is still
\* valid, or a full run is owed by a blocking section or the end of one.  Only
\* a run that failed since the hint answers it with less (compute_status).
HintIsCovered ==
  \A p \in Paths : view[p] < owed[p] =>
    \/ p \in pending
    \/ \E t \in Computing : task[t].epoch = epoch /\ p \in task[t].hints
    \/ blocking > 0
    \/ \E o \in Ops : op[o] = "owes"
    \/ cancelled

\* Pending hints always have somebody to pick them up.
PendingIsDriven ==
  pending # {} =>
    \/ driver \/ running \/ blocking > 0 \/ cancelled
    \/ \E o \in Ops : op[o] = "owes"

\* A published run started after the last blocking section began, so no
\* snapshot mixes rows from before and after a mutation.
PublishedAfterMutation ==
  [][publishedSeq' # publishedSeq => publishedSeq' > entered /\ blocking = 0]_vars

\* What is published of a path never goes back to an earlier version, however
\* many runs failed in between: it only goes blank, when gix and the CLI both
\* failed on it ("a CLI failure yields an empty result with a warning",
\* session.rs compute_status).
ViewAdvances == [][\A p \in Paths : p \notin blank' => view'[p] >= view[p]]_vars

\* A caller whose run has published gets a snapshot that is up to date: with
\* the paths it asked for (refresh), or with everything that was queued when
\* it called (status; "the run sequence whose publish brings the snapshot up
\* to date", queue.rs settle_target).
CallerIsFresh ==
  \A c \in Callers :
    caller[c].st = "waiting" /\ publishedSeq >= caller[c].target =>
      \A p \in Paths : view[p] >= caller[c].need[p] \/ p \in blank

\* As long as no mutation has invalidated a run (BlockingGuard::new), every
\* caller is answered with what it asked for, whatever was debouncing,
\* computing or rescanning when it called, but for the paths on which git
\* failed.
UndisturbedIsFresh == epoch = 0 => CallerIsFresh

\* An urgent request does not sit behind a sleeping debounce timer
\* ("As soon as the queue is free", queue.rs Urgency::Now).
UrgentIsPrompt == urgent => \A t \in Tasks : task[t].pc # "asleep"

\* Every caller is answered, whatever mutations drop meanwhile.
CallerSettles ==
  \A c \in Callers : caller[c].st = "waiting" ~> caller[c].st # "waiting"

\* What was hinted is published in the end, or a run of it failed and said so,
\* unless the session closes.
HintSettles ==
  \A p \in Paths : owed[p] > view[p] ~> owed[p] <= view[p] \/ cancelled

\* A path-limited snapshot is followed by a full one: the idle rescan is
\* never skipped for good.
FullRunFollows == pathLimited ~> ~pathLimited \/ cancelled
=============================================================================
