-------------------------- MODULE StatusQueueProofs --------------------------
(***************************************************************************)
(* Proofs about StatusQueue for any sets of paths, mutations, callers and  *)
(* driver identities.  Inv is the inductive invariant; the properties the  *)
(* runs check follow from it.                                              *)
(***************************************************************************)
EXTENDS StatusQueue, FiniteSetTheorems, TLAPS

Inside == {o \in Ops : op[o] \in {"waiting", "holding"}}

\* The counter of blocking sections is their number.
BlockingCounts == blocking = Cardinality(Inside)

\* Versions only flow from the worktree to the hints and to the snapshot.
Bounded ==
  /\ entered <= started
  /\ \A p \in Paths : owed[p] <= disk[p] /\ view[p] <= disk[p]

\* A run that is still valid overlaps no blocking section, began after the
\* last one, and its rows, if git did not fail, are at least as new as the
\* snapshot it will merge into and as what was asked before it took the hints.
ValidRun(r) ==
  r.epoch = epoch =>
    /\ blocking = 0
    /\ r.seq > entered
    /\ r.pc = "computed" /\ r.git = "ok" => \A p \in Paths :
         /\ view[p] <= r.seen[p] /\ r.seen[p] <= disk[p]
         /\ p \in r.hints /\ p \notin pending => owed[p] <= r.seen[p]

RunsValid ==
  \A t \in Tasks : task[t].pc \in {"compute", "computed"} =>
    /\ task[t].epoch <= epoch
    /\ task[t].seq > 0 /\ task[t].seq <= started
    /\ ValidRun(task[t])

Inv ==
  /\ TypeOK
  /\ OneRun
  /\ BlockingCounts
  /\ Bounded
  /\ RunsValid
  /\ HintIsCovered
  /\ PendingIsDriven

-----------------------------------------------------------------------------
(* The operators. *)

\* Joining hint sets loses no path and stays within Paths.
LEMMA AbsorbKeeps ==
  ASSUME NEW a \in SUBSET Paths, NEW b \in SUBSET Paths
  PROVE  /\ Absorb(a, b) \in SUBSET Paths
         /\ a \subseteq Absorb(a, b) /\ b \subseteq Absorb(a, b)
BY DEF Absorb, Full

\* What the pending set is after a hint.
LEMMA HintJoins ==
  ASSUME TypeOK, NEW h \in SUBSET Paths,
         pending' = IF pending = {} THEN h ELSE Absorb(pending, h)
  PROVE  pending' \in SUBSET Paths /\ pending \subseteq pending' /\ h \subseteq pending'
BY AbsorbKeeps DEF TypeOK

\* Entering a section adds one to the count.
LEMMA CountEnters ==
  ASSUME TypeOK, BlockingCounts, NEW o \in Ops, op[o] = "ready",
         op' = [op EXCEPT ![o] = "waiting"], blocking' = blocking + 1
  PROVE  BlockingCounts'
<1>1. IsFiniteSet(Inside)
  BY OpsAssumption, FS_Subset DEF Inside
<1>2. Inside' = Inside \cup {o} /\ o \notin Inside
  BY DEF Inside, TypeOK, OpStates
<1>3. Cardinality(Inside \cup {o}) = Cardinality(Inside) + 1
  BY <1>1, <1>2, FS_AddElement
<1> QED BY <1>2, <1>3 DEF BlockingCounts

\* Leaving one takes one away, and there was one to take.
LEMMA CountLeaves ==
  ASSUME TypeOK, BlockingCounts, NEW o \in Ops, op[o] \in {"waiting", "holding"},
         NEW v \in {"owes", "done"}, op' = [op EXCEPT ![o] = v],
         blocking' = blocking - 1
  PROVE  BlockingCounts' /\ blocking > 0
<1>1. IsFiniteSet(Inside)
  BY OpsAssumption, FS_Subset DEF Inside
<1>2. Inside' = Inside \ {o} /\ o \in Inside
  BY DEF Inside, TypeOK, OpStates
<1>3. Cardinality(Inside \ {o}) = Cardinality(Inside) - 1
  BY <1>1, <1>2, FS_RemoveElement
<1>4. Cardinality(Inside) # 0
  BY <1>1, <1>2, FS_EmptySet
<1> QED BY <1>2, <1>3, <1>4 DEF BlockingCounts, TypeOK

\* A change of state that keeps a mutation inside, or outside, keeps the count.
LEMMA CountStays ==
  ASSUME BlockingCounts, Inside' = Inside, blocking' = blocking
  PROVE  BlockingCounts'
BY DEF BlockingCounts

-----------------------------------------------------------------------------
\* The fresh session satisfies the invariant.
LEMMA InitInv == Init => Inv
<1> SUFFICES ASSUME Init PROVE Inv
  OBVIOUS
<1> USE DEF Init
<1>1. TypeOK
  <2>1. Zero \in Versions /\ disk \in Versions
    BY DEF Zero, Versions
  <2>2. NoTask \in TaskRecords
    BY <2>1 DEF NoTask, TaskRecords
  <2>3. NoWait \in CallerRecords
    BY <2>1 DEF CallerRecords, NoWait
  <2>4. /\ task \in [Tasks -> TaskRecords]
        /\ op \in [Ops -> OpStates]
        /\ caller \in [Callers -> CallerRecords]
        /\ hinted \in 0..MaxHints
    BY <2>2, <2>3, QueueBoundAssumption DEF OpStates
  <2> QED BY <2>1, <2>4 DEF TypeOK
<1>2. OneRun
  BY DEF OneRun, Heading, Computing, NoTask
<1>3. BlockingCounts
  <2>1. Inside = {}
    BY DEF Inside
  <2> QED BY <2>1, FS_EmptySet DEF BlockingCounts
<1>4. Bounded
  BY DEF Bounded, Zero
<1>5. RunsValid
  BY DEF RunsValid, NoTask
<1>6. HintIsCovered /\ PendingIsDriven
  BY DEF HintIsCovered, PendingIsDriven, Zero
<1> QED BY <1>1, <1>2, <1>3, <1>4, <1>5, <1>6 DEF Inv

-----------------------------------------------------------------------------
(* Every step that hints does so through Hint; what else it changes leaves *)
(* the queue's own state alone.                                            *)

\* Hint preserves every part of the invariant, given that the mutations stay
\* inside or outside their sections and that one that owed a full run pays
\* with this hint.
LEMMA HintInv ==
  ASSUME Inv, NEW h \in SUBSET Paths, NEW now \in BOOLEAN, Hint(h, now),
         h # {},
         Inside' = Inside, op' \in [Ops -> OpStates],
         h = Full \/ op' = op,
         UNCHANGED <<cancelled, pubVars, disk, entered>>
  PROVE  /\ pending' \in SUBSET Paths
         /\ urgent' \in BOOLEAN /\ driver' \in BOOLEAN
         /\ UNCHANGED <<running, started, epoch, blocking>>
         /\ task' \in [Tasks -> TaskRecords]
         /\ owed' \in Versions
         /\ OneRun' /\ BlockingCounts' /\ Bounded' /\ RunsValid'
         /\ HintIsCovered' /\ PendingIsDriven'
<1> USE DEF pubVars
<1>1. CASE cancelled
  <2>1. UNCHANGED <<pending, urgent, driver, running, started, epoch, blocking,
                    task, owed>> /\ cancelled'
    BY <1>1 DEF Hint, lockVars
  <2> QED
    BY <2>1, CountStays DEF Inv, TypeOK, OneRun, Heading, Computing, Bounded,
       RunsValid, ValidRun, HintIsCovered, PendingIsDriven
<1>2. CASE ~cancelled
  <2>1. /\ pending' = IF pending = {} THEN h ELSE Absorb(pending, h)
        /\ urgent' = (urgent \/ now)
        /\ owed' = [p \in Paths |-> IF p \in h THEN disk[p] ELSE owed[p]]
        /\ UNCHANGED <<running, started, epoch, blocking>>
    BY <1>2 DEF Hint
  <2>2. pending' \in SUBSET Paths /\ pending \subseteq pending' /\ h \subseteq pending'
    BY <2>1, HintJoins DEF Inv
  <2>3. owed' \in Versions
    BY <2>1 DEF Inv, TypeOK, Versions
  <2>4. \A p \in Paths : (p \in h /\ owed'[p] = disk[p]) \/ owed'[p] = owed[p]
    BY <2>1
  <2>5. BlockingCounts'
    BY <2>1, CountStays DEF Inv
  <2>6. Bounded'
    BY <2>1, <2>4 DEF Inv, Bounded, TypeOK, Versions
  <2>6a. \/ UNCHANGED <<driver, task>> /\ (driver \/ running \/ blocking > 0)
         \/ /\ ~driver /\ ~running /\ driver' = TRUE
            /\ \E t \in Tasks : /\ task[t].pc = "none"
                                /\ task' = [task EXCEPT ![t].pc = "debounce"]
    BY <1>2 DEF Hint, Spawn
  <2>6b. task' \in [Tasks -> TaskRecords]
    BY <2>6a DEF Inv, TypeOK, TaskRecords
  <2>6c. driver' \in BOOLEAN
    BY <2>6a, Zenon DEF Inv, TypeOK
  <2>7. /\ driver' \in BOOLEAN
        /\ task' \in [Tasks -> TaskRecords]
        /\ \/ UNCHANGED <<driver, task>> /\ (driver \/ running \/ blocking > 0)
           \/ /\ ~driver /\ ~running /\ driver'
              /\ \E t \in Tasks : /\ task[t].pc = "none"
                                  /\ task' = [task EXCEPT ![t].pc = "debounce"]
    BY <2>6a, <2>6b, <2>6c
  <2>8. OneRun'
    <3>1. CASE UNCHANGED <<driver, task>>
      BY <3>1, <2>1 DEF Inv, OneRun, Heading, Computing
    <3>2. CASE /\ ~driver /\ ~running /\ driver'
               /\ \E t \in Tasks : /\ task[t].pc = "none"
                                   /\ task' = [task EXCEPT ![t].pc = "debounce"]
      <4>1. PICK t \in Tasks : /\ task[t].pc = "none"
                               /\ task' = [task EXCEPT ![t].pc = "debounce"]
        BY <3>2
      <4>2. Heading = {} /\ Computing = {}
        BY <3>2 DEF Inv, OneRun
      <4>3. Heading' = {t} /\ Computing' = {}
        BY <4>1, <4>2 DEF Heading, Computing, Inv, TypeOK, TaskRecords
      <4> QED BY <4>2, <4>3, <3>2, <2>1 DEF OneRun, Inv
    <3> QED BY <2>7, <3>1, <3>2
  <2>9. \A t \in Tasks : task'[t].pc \in {"compute", "computed"} => task'[t] = task[t]
    BY <2>7 DEF Inv, TypeOK, TaskRecords
  <2>10. RunsValid'
    <3> SUFFICES ASSUME NEW t \in Tasks, task'[t].pc \in {"compute", "computed"}
                 PROVE  /\ task'[t].epoch <= epoch'
                        /\ task'[t].seq > 0 /\ task'[t].seq <= started'
                        /\ ValidRun(task[t])'
      BY DEF RunsValid, ValidRun
    <3>1. task'[t] = task[t]
      BY <2>9
    <3>2. ValidRun(task[t])'
      BY <3>1, <2>1, <2>2, <2>4 DEF Inv, RunsValid, ValidRun
    <3> QED BY <3>1, <3>2, <2>1 DEF Inv, RunsValid
  <2>11. \A t \in Computing : t \in Computing' /\ task'[t] = task[t]
    BY <2>7 DEF Computing, Inv, TypeOK, TaskRecords
  <2>12. HintIsCovered'
    <3> SUFFICES ASSUME NEW p \in Paths, view'[p] < owed'[p], p \notin pending'
                 PROVE  \/ \E t \in Computing' :
                             task'[t].epoch = epoch' /\ p \in task'[t].hints
                        \/ blocking' > 0
                        \/ \E o \in Ops : op'[o] = "owes"
                        \/ cancelled'
      BY DEF HintIsCovered
    <3>1. p \notin h /\ p \notin pending /\ owed'[p] = owed[p] /\ view'[p] = view[p]
      BY <2>2, <2>1
    <3>2. op' = op
      BY <3>1 DEF Full
    <3> QED BY <3>1, <3>2, <2>1, <2>11 DEF Inv, HintIsCovered
  <2>13. PendingIsDriven'
    BY <2>7, <2>1 DEF PendingIsDriven
  <2>14. urgent' \in BOOLEAN
    BY <2>1 DEF Inv, TypeOK
  <2> QED BY <2>1, <2>2, <2>3, <2>5, <2>6, <2>7, <2>8, <2>10, <2>12, <2>13, <2>14
<1> QED BY <1>1, <1>2

-----------------------------------------------------------------------------
(* Steps that leave the queue alone, and steps of the driver. *)

\* A step that touches neither the queue, nor a task, nor a mutation keeps
\* everything but the types.
LEMMA UntouchedInv ==
  ASSUME Inv, UNCHANGED <<lockVars, cancelled, task, op, pubVars, disk, histVars>>
  PROVE  OneRun' /\ BlockingCounts' /\ Bounded' /\ RunsValid' /\ HintIsCovered'
           /\ PendingIsDriven'
<1> USE DEF Inv, lockVars, pubVars, histVars
<1>1. OneRun' /\ Computing' = Computing
  BY DEF OneRun, Heading, Computing
<1>2. BlockingCounts'
  BY CountStays DEF Inside
<1>3. Bounded' /\ RunsValid'
  BY DEF Bounded, RunsValid, ValidRun
<1>4. HintIsCovered' /\ PendingIsDriven'
  BY <1>1 DEF HintIsCovered, PendingIsDriven
<1> QED BY <1>1, <1>2, <1>3, <1>4

\* Only the driver on its way moves: the debounce, its sleep, and a take
\* that finds nothing to do.
LEMMA HeadingInv ==
  ASSUME Inv, NEW t \in Tasks, NEW next \in TaskRecords,
         task[t].pc \in {"debounce", "asleep", "take"},
         next.pc \in {"none", "debounce", "asleep", "take"},
         task' = [task EXCEPT ![t] = next],
         \/ next.pc # "none" /\ driver' = driver
         \/ /\ next.pc = "none" /\ driver' = FALSE
            /\ cancelled \/ blocking > 0 \/ pending = {},
         UNCHANGED <<pending, urgent, running, started, epoch, blocking,
                     cancelled, op, pubVars, disk, histVars>>
  PROVE  /\ task' \in [Tasks -> TaskRecords] /\ driver' \in BOOLEAN
         /\ OneRun' /\ BlockingCounts' /\ Bounded' /\ RunsValid' /\ HintIsCovered'
         /\ PendingIsDriven'
<1> USE DEF pubVars, histVars
<1>1. task' \in [Tasks -> TaskRecords]
  BY DEF Inv, TypeOK
<1>2. driver' \in BOOLEAN
  BY Zenon DEF Inv, TypeOK
<1>3. Heading = {t} /\ Computing = {} /\ driver
  BY DEF Inv, OneRun, Heading, Computing
<1>4. Computing' = {}
  BY <1>3 DEF Computing, Inv, TypeOK
<1>5. OneRun'
  <2>1. CASE next.pc # "none"
    <3>1. Heading' = {t}
      BY <1>3, <2>1 DEF Heading, Inv, TypeOK
    <3> QED BY <3>1, <1>3, <1>4, <2>1 DEF OneRun, Inv
  <2>2. CASE next.pc = "none"
    <3>1. Heading' = {}
      BY <1>3, <2>2 DEF Heading, Inv, TypeOK
    <3> QED BY <3>1, <1>3, <1>4, <2>2 DEF OneRun, Inv
  <2> QED BY <2>1, <2>2
<1>6. BlockingCounts'
  BY CountStays DEF Inv, Inside
<1>7. Bounded' /\ RunsValid'
  BY <1>4 DEF Inv, Bounded, RunsValid, Computing
<1>8. HintIsCovered'
  BY <1>3, <1>4 DEF Inv, HintIsCovered
<1>9. PendingIsDriven'
  BY <1>3 DEF Inv, PendingIsDriven
<1> QED BY <1>1, <1>2, <1>5, <1>6, <1>7, <1>8, <1>9

\* The take that starts a run.
LEMMA TakeInv ==
  ASSUME Inv, NEW t \in Tasks, Take(t), blocking = 0, pending # {}
  PROVE  Inv'
<1> DEFINE r == [pc |-> "compute", seq |-> started + 1, epoch |-> epoch,
                 hints |-> pending, seen |-> Zero, git |-> "ok"]
<1>1. /\ pending' = {} /\ urgent' = FALSE /\ driver' = FALSE /\ running' = TRUE
      /\ started' = started + 1
      /\ task' = [task EXCEPT ![t] = r]
      /\ task[t].pc = "take"
      /\ UNCHANGED <<epoch, blocking, cancelled, op, publishedSeq, pathLimited,
                     view, blank, disk, idle, quiet, caller, hinted, owed, entered>>
  BY DEF Take, pubVars, histVars, Inv, TypeOK
<1>2. Heading = {t} /\ Computing = {}
  BY <1>1 DEF Inv, OneRun, Heading, Computing
<1>3. Zero \in Versions
  BY DEF Zero, Versions
<1>4. r \in TaskRecords
  BY <1>3 DEF TaskRecords, Inv, TypeOK
<1>5. task' \in [Tasks -> TaskRecords] /\ task'[t] = r
  BY <1>1, <1>4 DEF Inv, TypeOK
<1>6. TypeOK'
  <2>1. urgent' \in BOOLEAN /\ driver' \in BOOLEAN /\ running' \in BOOLEAN
          /\ cancelled' \in BOOLEAN /\ pathLimited' \in BOOLEAN
    BY <1>1, Zenon DEF Inv, TypeOK
  <2> QED BY <1>1, <1>5, <2>1 DEF Inv, TypeOK
<1>7. Heading' = {} /\ Computing' = {t}
  BY <1>1, <1>2, <1>5 DEF Heading, Computing
<1>8. OneRun'
  BY <1>1, <1>7 DEF OneRun
<1>9. BlockingCounts'
  BY <1>1, CountStays DEF Inv, Inside
<1>10. Bounded'
  BY <1>1 DEF Inv, Bounded, TypeOK
<1>11. RunsValid'
  <2> SUFFICES ASSUME NEW u \in Tasks, task'[u].pc \in {"compute", "computed"}
               PROVE  /\ task'[u].epoch <= epoch'
                      /\ task'[u].seq > 0 /\ task'[u].seq <= started'
                      /\ ValidRun(task[u])'
    BY DEF RunsValid
  <2>1. u = t
    BY <1>7 DEF Computing
  <2> QED BY <2>1, <1>1, <1>5 DEF ValidRun, Inv, TypeOK, Bounded
<1>12. HintIsCovered'
  <2> SUFFICES ASSUME NEW p \in Paths, view'[p] < owed'[p]
               PROVE  \/ \E u \in Computing' :
                           task'[u].epoch = epoch' /\ p \in task'[u].hints
                      \/ blocking' > 0
                      \/ \E o \in Ops : op'[o] = "owes"
                      \/ cancelled'
    BY DEF HintIsCovered
  <2> QED BY <1>1, <1>2, <1>5, <1>7 DEF Inv, HintIsCovered
<1>13. PendingIsDriven'
  BY <1>1 DEF PendingIsDriven
<1> QED BY <1>6, <1>8, <1>9, <1>10, <1>11, <1>12, <1>13 DEF Inv

\* The walk ends.
LEMMA ComputeInv ==
  ASSUME Inv, NEW t \in Tasks, Compute(t)
  PROVE  Inv'
<1>1. /\ task[t].pc = "compute"
      /\ UNCHANGED <<pending, urgent, driver, running, started, epoch, blocking,
                     cancelled, op, publishedSeq, pathLimited, view, blank, disk, idle,
                     quiet, caller, hinted, owed, entered>>
  BY DEF Compute, lockVars, pubVars, histVars
<1>2. PICK s \in Versions, g \in {"ok", "failed"} :
        /\ task' = [task EXCEPT ![t] = [task[t] EXCEPT !.pc = "computed", !.seen = s, !.git = g]]
        /\ g = "ok" /\ task[t].epoch = epoch => s = disk
  <2>0. Zero \in Versions /\ disk \in Versions /\ task[t] \in TaskRecords
    BY DEF Zero, Versions, Inv, TypeOK
  <2>1. CASE task' = [task EXCEPT ![t].pc = "computed",
                                  ![t].seen = IF task[t].epoch = epoch THEN disk ELSE Zero]
    <3>1. PICK s \in Versions : s = IF task[t].epoch = epoch THEN disk ELSE Zero
      BY <2>0
    <3>2. task' = [task EXCEPT ![t] = [task[t] EXCEPT !.pc = "computed", !.seen = s, !.git = task[t].git]]
      BY <2>0, <2>1, <3>1 DEF TaskRecords
    <3>3. task[t].git \in {"ok", "failed"}
      BY <2>0 DEF TaskRecords
    <3> QED BY <3>1, <3>2, <3>3
  <2>2. CASE task' = [task EXCEPT ![t].pc = "computed", ![t].git = "failed"]
    <3>1. task' = [task EXCEPT ![t] = [task[t] EXCEPT !.pc = "computed", !.seen = task[t].seen, !.git = "failed"]]
      BY <2>0, <2>2 DEF TaskRecords
    <3>2. task[t].seen \in Versions
      BY <2>0 DEF TaskRecords
    <3> QED BY <3>1, <3>2
  <2> QED BY <2>1, <2>2 DEF Compute
<1>3. task' \in [Tasks -> TaskRecords]
  <2> DEFINE b == [task[t] EXCEPT !.pc = "computed", !.seen = s, !.git = g]
  <2>1. task \in [Tasks -> TaskRecords] /\ task[t] \in TaskRecords
    BY DEF Inv, TypeOK
  <2>2. b \in TaskRecords
    BY <1>2, <2>1 DEF TaskRecords
  <2>3. task' = [task EXCEPT ![t] = b]
    BY <1>2
  <2> HIDE DEF b
  <2> QED BY <2>1, <2>2, <2>3
<1>4. /\ task'[t].pc = "computed" /\ task'[t].seen = s /\ task'[t].git = g
      /\ task'[t].hints = task[t].hints /\ task'[t].epoch = task[t].epoch
      /\ task'[t].seq = task[t].seq
      /\ \A u \in Tasks : u # t => task'[u] = task[u]
  BY <1>1, <1>2 DEF Inv, TypeOK, TaskRecords
<1>5. Heading' = Heading /\ Computing' = Computing
  BY <1>1, <1>4 DEF Heading, Computing
<1>6. OneRun'
  BY <1>1, <1>5 DEF Inv, OneRun
<1>7. BlockingCounts'
  BY <1>1, CountStays DEF Inv, Inside
<1>8. TypeOK'
  <2>1. urgent' \in BOOLEAN /\ driver' \in BOOLEAN /\ running' \in BOOLEAN
          /\ cancelled' \in BOOLEAN /\ pathLimited' \in BOOLEAN
    BY <1>1, Zenon DEF Inv, TypeOK
  <2> QED BY <1>1, <1>3, <2>1 DEF Inv, TypeOK
<1>9. Bounded'
  BY <1>1 DEF Inv, Bounded
<1>10. RunsValid'
  <2> SUFFICES ASSUME NEW u \in Tasks, task'[u].pc \in {"compute", "computed"}
               PROVE  /\ task'[u].epoch <= epoch'
                      /\ task'[u].seq > 0 /\ task'[u].seq <= started'
                      /\ ValidRun(task[u])'
    BY DEF RunsValid
  <2>1. CASE u = t
    BY <2>1, <1>1, <1>2, <1>4 DEF Inv, RunsValid, ValidRun, Bounded, TypeOK, Versions
  <2>2. CASE u # t
    BY <2>2, <1>1, <1>4 DEF Inv, RunsValid, ValidRun
  <2> QED BY <2>1, <2>2
<1>11. HintIsCovered'
  <2>1. HintIsCovered
    BY DEF Inv
  <2>2. \A u \in Computing : task'[u].epoch = task[u].epoch /\ task'[u].hints = task[u].hints
    BY <1>4 DEF Computing
  <2> QED BY <1>1, <1>5, <2>1, <2>2 DEF HintIsCovered
<1>12. PendingIsDriven'
  BY <1>1 DEF Inv, PendingIsDriven
<1> QED BY <1>6, <1>7, <1>8, <1>9, <1>10, <1>11, <1>12 DEF Inv

\* A run ends, published or dropped.
LEMMA PublishInv ==
  ASSUME Inv, NEW t \in Tasks, Publish(t)
  PROVE  Inv'
<1> DEFINE r     == task[t]
           good  == r.epoch = epoch /\ ~cancelled
           rerun == pending # {} /\ blocking = 0 /\ ~cancelled
<1>1. /\ r.pc = "computed"
      /\ running' = FALSE
      /\ urgent' = (urgent \/ rerun)
      /\ driver' = (driver \/ rerun)
      /\ task' = [task EXCEPT ![t] = IF rerun THEN [NoTask EXCEPT !.pc = "debounce"]
                                              ELSE NoTask]
      /\ UNCHANGED <<pending, started, epoch, blocking, cancelled, op, disk,
                     quiet, caller, hinted, entered>>
  BY DEF Publish, Rerun
<1>2. /\ idle' \subseteq Nat /\ publishedSeq' \in Nat
      /\ pathLimited' \in BOOLEAN
  <2>1. r.seq \in Nat
    BY DEF Inv, TypeOK, TaskRecords
  <2>2. idle' = idle \/ idle' = idle \cup {r.seq}
    BY DEF Publish, Rerun
  <2>3. publishedSeq' = r.seq \/ publishedSeq' = publishedSeq
    BY DEF Publish, Published, pubVars
  <2>4. pathLimited' \in BOOLEAN
    BY Zenon DEF Publish, Published, pubVars, Inv, TypeOK
  <2> QED BY <2>1, <2>2, <2>3, <2>4 DEF Inv, TypeOK
<1>3. \/ /\ good /\ view' = Merged(r) /\ blank' = Blanked(r)
         /\ owed' = [p \in Paths |-> IF r.git = "failed" /\ p \in r.hints \ pending
                                     THEN 0 ELSE owed[p]]
      \/ ~good /\ view' = view /\ blank' = blank /\ owed' = owed
  BY DEF Publish, Published, pubVars
<1>3a. /\ r \in TaskRecords /\ r.git \in {"ok", "failed"} /\ r.hints \subseteq Paths
  BY DEF Inv, TypeOK, TaskRecords
<1>3b. /\ owed' \in Versions /\ blank' \subseteq Paths
       /\ \A p \in Paths : owed'[p] = owed[p] \/ owed'[p] = 0
  BY <1>3, <1>3a DEF Blanked, Inv, TypeOK, Versions
<1>4. Computing = {t} /\ Heading = {} /\ running /\ ~driver
  BY <1>1 DEF Inv, OneRun, Heading, Computing
<1>5. NoTask \in TaskRecords /\ [NoTask EXCEPT !.pc = "debounce"] \in TaskRecords
  BY DEF NoTask, TaskRecords, Zero, Versions
<1>6. task' \in [Tasks -> TaskRecords]
  BY <1>1, <1>5 DEF Inv, TypeOK
<1>7. view' \in Versions
  BY <1>3 DEF Merged, Inv, TypeOK, TaskRecords, Versions
<1>8. TypeOK'
  <2>1. urgent' \in BOOLEAN /\ driver' \in BOOLEAN /\ running' \in BOOLEAN
          /\ cancelled' \in BOOLEAN
    BY <1>1, Zenon DEF Inv, TypeOK
  <2> QED BY <1>1, <1>2, <1>3b, <1>6, <1>7, <2>1 DEF Inv, TypeOK
<1>9. Computing' = {} /\ (Heading' = IF rerun THEN {t} ELSE {})
  BY <1>1, <1>4 DEF Computing, Heading, NoTask, Inv, TypeOK
<1>10. OneRun'
  BY <1>1, <1>4, <1>9 DEF OneRun
<1>11. BlockingCounts'
  BY <1>1, CountStays DEF Inv, Inside
<1>12. \A p \in Paths : view'[p] <= disk[p] /\ view[p] <= view'[p]
  <2>1. CASE good
    BY <2>1, <1>1, <1>3, <1>3a DEF Merged, Inv, RunsValid, ValidRun, Bounded, TypeOK, Versions
  <2>2. CASE ~good
    BY <2>2, <1>3 DEF Inv, Bounded, TypeOK, Versions
  <2> QED BY <2>1, <2>2
<1>13. Bounded'
  BY <1>1, <1>3b, <1>12 DEF Inv, Bounded, TypeOK, Versions
<1>14. RunsValid'
  BY <1>9 DEF RunsValid, Computing
<1>15. HintIsCovered'
  <2> SUFFICES ASSUME NEW p \in Paths, view'[p] < owed'[p], p \notin pending',
                      ~cancelled'
               PROVE  blocking' > 0 \/ \E o \in Ops : op'[o] = "owes"
    BY DEF HintIsCovered
  <2>1. view[p] < owed[p] /\ p \notin pending /\ ~cancelled
    <3>1. view[p] \in Nat /\ view'[p] \in Nat /\ owed[p] \in Nat
      BY <1>7 DEF Inv, TypeOK, Versions
    <3>2. view[p] <= view'[p] /\ (owed'[p] = owed[p] \/ owed'[p] = 0)
      BY <1>3b, <1>12
    <3> QED BY <3>1, <3>2, <1>1
  <2>2. CASE r.epoch = epoch /\ p \in r.hints
    <3>0. owed[p] \in Nat /\ r.seen[p] \in Nat /\ view'[p] \in Nat
      BY <1>7 DEF Inv, TypeOK, TaskRecords, Versions
    <3>1. r.git = "ok"
      BY <2>1, <2>2, <3>0, <1>3, <1>3a
    <3>2. view'[p] = r.seen[p]
      BY <2>1, <2>2, <3>1, <1>3 DEF Merged
    <3>3. owed[p] <= r.seen[p]
      BY <2>1, <2>2, <3>1, <1>1 DEF Inv, RunsValid, ValidRun
    <3> QED BY <3>0, <3>2, <3>3, <1>3b
  <2>3. CASE ~(r.epoch = epoch /\ p \in r.hints)
    BY <2>1, <2>3, <1>1, <1>4 DEF Inv, HintIsCovered
  <2> QED BY <2>2, <2>3
<1>16. PendingIsDriven'
  BY <1>1 DEF Inv, PendingIsDriven, TypeOK
<1> QED BY <1>8, <1>10, <1>11, <1>13, <1>14, <1>15, <1>16 DEF Inv

-----------------------------------------------------------------------------
(* Mutations, the disk and the end of the session. *)

\* A blocking section begins: the run in flight is no longer valid.
LEMMA BlockingInv ==
  ASSUME Inv, NEW o \in Ops, Blocking(o)
  PROVE  Inv'
<1>1. /\ op[o] = "ready" /\ op' = [op EXCEPT ![o] = "waiting"]
      /\ blocking' = blocking + 1 /\ epoch' = epoch + 1 /\ entered' = started
      /\ UNCHANGED <<pending, urgent, driver, running, started, cancelled, task,
                     publishedSeq, pathLimited, view, blank, disk, idle, quiet,
                     caller, hinted, owed>>
  BY DEF Blocking, pubVars
<1>2. BlockingCounts'
  BY <1>1, CountEnters DEF Inv
<1>3. TypeOK'
  BY <1>1 DEF Inv, TypeOK, OpStates
<1>4. OneRun'
  BY <1>1 DEF Inv, OneRun, Heading, Computing
<1>5. Bounded'
  BY <1>1 DEF Inv, Bounded, TypeOK
<1>6. RunsValid'
  <2> SUFFICES ASSUME NEW t \in Tasks, task'[t].pc \in {"compute", "computed"}
               PROVE  /\ task'[t].epoch <= epoch'
                      /\ task'[t].seq > 0 /\ task'[t].seq <= started'
                      /\ ValidRun(task[t])'
    BY DEF RunsValid
  <2>1. task'[t] = task[t] /\ task[t].epoch \in Nat /\ task[t].epoch <= epoch
    BY <1>1 DEF Inv, RunsValid, TypeOK, TaskRecords
  <2>2. task'[t].epoch # epoch'
    BY <2>1, <1>1 DEF Inv, TypeOK
  <2> QED BY <2>1, <2>2, <1>1 DEF Inv, RunsValid, ValidRun, TypeOK
<1>7. HintIsCovered' /\ PendingIsDriven'
  BY <1>1 DEF HintIsCovered, PendingIsDriven, Inv, TypeOK
<1> QED BY <1>2, <1>3, <1>4, <1>5, <1>6, <1>7 DEF Inv

\* A mutation gets the write side.
LEMMA AcquireInv ==
  ASSUME Inv, NEW o \in Ops, AcquireWrite(o)
  PROVE  Inv'
<1>1. /\ op[o] = "waiting" /\ op' = [op EXCEPT ![o] = "holding"]
      /\ UNCHANGED <<pending, urgent, driver, running, started, epoch, blocking,
                     cancelled, task, publishedSeq, pathLimited, view, blank, disk,
                     idle, quiet, caller, hinted, owed, entered>>
  BY DEF AcquireWrite, lockVars, pubVars, histVars
<1>2. Inside' = Inside
  BY <1>1 DEF Inside, Inv, TypeOK
<1>3. BlockingCounts'
  BY <1>1, <1>2, CountStays DEF Inv
<1>4. TypeOK'
  BY <1>1 DEF Inv, TypeOK, OpStates
<1>5. OneRun' /\ Computing' = Computing
  BY <1>1 DEF Inv, OneRun, Heading, Computing
<1>6. Bounded' /\ RunsValid'
  BY <1>1 DEF Inv, Bounded, RunsValid, ValidRun
<1>7. \A x \in Ops : op[x] = "owes" => op'[x] = "owes"
  BY <1>1 DEF Inv, TypeOK
<1>8. HintIsCovered' /\ PendingIsDriven'
  BY <1>1, <1>5, <1>7 DEF HintIsCovered, PendingIsDriven, Inv
<1> QED BY <1>3, <1>4, <1>5, <1>6, <1>8 DEF Inv

\* A path gets a newer version, by a mutation or from outside.
LEMMA DiskInv ==
  ASSUME Inv, NEW p \in Paths, disk' = [disk EXCEPT ![p] = @ + 1],
         UNCHANGED <<lockVars, cancelled, task, op, pubVars, idle, quiet, caller,
                     hinted, histVars>>
  PROVE  Inv'
<1> USE DEF lockVars, pubVars, histVars
<1>1. disk' \in Versions /\ \A q \in Paths : disk[q] <= disk'[q]
  BY DEF Inv, TypeOK, Versions
<1>2. TypeOK'
  BY <1>1 DEF Inv, TypeOK
<1>3. OneRun' /\ Computing' = Computing
  BY DEF Inv, OneRun, Heading, Computing
<1>4. BlockingCounts'
  BY CountStays DEF Inv, Inside
<1>5. Bounded'
  BY <1>1 DEF Inv, Bounded, TypeOK, Versions
<1>6. RunsValid'
  BY <1>1 DEF Inv, RunsValid, ValidRun, TypeOK, Versions, TaskRecords
<1>7. HintIsCovered' /\ PendingIsDriven'
  BY <1>3 DEF HintIsCovered, PendingIsDriven, Inv
<1> QED BY <1>2, <1>3, <1>4, <1>5, <1>6, <1>7 DEF Inv

\* A blocking section ends; the last one leaves a full run owed.
LEMMA DropInv ==
  ASSUME Inv, NEW o \in Ops, DropGuard(o)
  PROVE  Inv'
<1> DEFINE v == IF blocking = 1 THEN "owes" ELSE "done"
<1>1. /\ op[o] \in {"waiting", "holding"} /\ op' = [op EXCEPT ![o] = v]
      /\ v \in {"owes", "done"}
      /\ blocking' = blocking - 1
      /\ UNCHANGED <<pending, urgent, driver, running, started, epoch,
                     cancelled, task, publishedSeq, pathLimited, view, blank, disk,
                     idle, quiet, caller, hinted, owed, entered>>
  BY DEF DropGuard, pubVars, histVars
<1>2. BlockingCounts' /\ blocking > 0
  BY <1>1, CountLeaves DEF Inv
<1>3. TypeOK'
  BY <1>1, <1>2 DEF Inv, TypeOK, OpStates
<1>4. OneRun' /\ Computing' = Computing
  BY <1>1 DEF Inv, OneRun, Heading, Computing
<1>5. Bounded'
  BY <1>1 DEF Inv, Bounded
<1>6. RunsValid'
  BY <1>1, <1>2 DEF Inv, RunsValid, ValidRun, TypeOK
<1>7. blocking' > 0 \/ op'[o] = "owes"
  BY <1>1, <1>2 DEF Inv, TypeOK
<1>8. HintIsCovered' /\ PendingIsDriven'
  BY <1>7 DEF HintIsCovered, PendingIsDriven
<1> QED BY <1>2, <1>3, <1>4, <1>5, <1>6, <1>8 DEF Inv

\* The session is closed: nothing is promised any more.
LEMMA ShutdownInv ==
  ASSUME Inv, Shutdown
  PROVE  Inv'
<1>1. /\ cancelled' = TRUE /\ epoch' = epoch + 1
      /\ UNCHANGED <<pending, urgent, driver, running, started, blocking, task,
                     op, publishedSeq, pathLimited, view, blank, disk, idle,
                     quiet, caller, hinted, owed, entered>>
  BY DEF Shutdown, pubVars, histVars
<1>2. TypeOK'
  BY <1>1 DEF Inv, TypeOK
<1>3. OneRun'
  BY <1>1 DEF Inv, OneRun, Heading, Computing
<1>4. BlockingCounts'
  BY <1>1, CountStays DEF Inv, Inside
<1>5. Bounded'
  BY <1>1 DEF Inv, Bounded
<1>6. RunsValid'
  <2> SUFFICES ASSUME NEW t \in Tasks, task'[t].pc \in {"compute", "computed"}
               PROVE  /\ task'[t].epoch <= epoch'
                      /\ task'[t].seq > 0 /\ task'[t].seq <= started'
                      /\ ValidRun(task[t])'
    BY DEF RunsValid
  <2>1. task'[t] = task[t] /\ task[t].epoch \in Nat /\ task[t].epoch <= epoch
    BY <1>1 DEF Inv, RunsValid, TypeOK, TaskRecords
  <2>2. task'[t].epoch # epoch'
    BY <2>1, <1>1 DEF Inv, TypeOK
  <2> QED BY <2>1, <2>2, <1>1 DEF Inv, RunsValid, ValidRun, TypeOK
<1>7. HintIsCovered' /\ PendingIsDriven'
  BY <1>1 DEF HintIsCovered, PendingIsDriven
<1> QED BY <1>2, <1>3, <1>4, <1>5, <1>6, <1>7 DEF Inv

-----------------------------------------------------------------------------
(* The remaining steps hint, or only move a caller or a timer. *)

\* A caller's record after it starts to wait.
LEMMA WaitTypes ==
  ASSUME TypeOK, NEW c \in Callers, NEW n \in Nat, NEW need \in Versions,
         Wait(c, n, need)
  PROVE  caller' \in [Callers -> CallerRecords]
BY DEF Wait, TypeOK, CallerRecords

\* And after its wait ends.
LEMMA EndTypes ==
  ASSUME TypeOK, NEW c \in Callers, NEW st \in {"done", "canceled"}, Ends(c, st)
  PROVE  /\ caller' \in [Callers -> CallerRecords]
         /\ \A d \in Callers : caller'[d] = caller[d] \/ caller'[d].st # "waiting"
<1>1. [NoWait EXCEPT !.st = st] \in CallerRecords /\ [NoWait EXCEPT !.st = st].st = st
  BY DEF NoWait, CallerRecords, Zero, Versions
<1> QED BY <1>1 DEF Ends, TypeOK

\* Every step preserves the invariant.
LEMMA NextInv == Inv /\ [Next]_vars => Inv'
<1> SUFFICES ASSUME Inv, [Next]_vars PROVE Inv'
  OBVIOUS
<1>a. TypeOK
  BY DEF Inv
<1>b. Full \in SUBSET Paths /\ Full # {} /\ TRUE \in BOOLEAN
  BY PathsAssumption DEF Full
<1>c. ASSUME NEW h \in SUBSET Paths PROVE Asked(h) \in Versions
  BY <1>a DEF Asked, TypeOK, Versions
<1>1. ASSUME NEW h \in HintSets, NEW now \in BOOLEAN, ExplorerHint(h, now)
      PROVE  Inv'
  <2>1. /\ h \in SUBSET Paths /\ h # {} /\ Hint(h, now) /\ Inside' = Inside
        /\ op' \in [Ops -> OpStates] /\ op' = op
        /\ UNCHANGED <<cancelled, pubVars, disk, entered>>
    BY <1>1, <1>a DEF HintSets, ExplorerHint, Inside, TypeOK
  <2>2. hinted' \in 0..MaxHints
    BY <1>1, <1>a, QueueBoundAssumption DEF ExplorerHint, TypeOK
  <2>3. UNCHANGED <<idle, quiet, caller>>
    BY <1>1 DEF ExplorerHint
  <2> QED BY <1>a, <2>1, <2>2, <2>3, HintInv DEF Inv, TypeOK, pubVars
<1>2. ASSUME NEW t \in Tasks, Drive(t)
      PROVE  Inv'
  <2>1. ASSUME DebounceEnds(t) \/ DebounceSleeps(t) PROVE Inv'
    <3>1. PICK pc \in {"take", "asleep"} : task' = [task EXCEPT ![t].pc = pc]
      BY <2>1 DEF DebounceEnds, DebounceSleeps
    <3> DEFINE next == [task[t] EXCEPT !.pc = pc]
    <3>2. next \in TaskRecords /\ next.pc = pc /\ task' = [task EXCEPT ![t] = next]
      BY <3>1, <1>a DEF TypeOK, TaskRecords
    <3>3. task[t].pc = "debounce"
      BY <2>1 DEF DebounceEnds, DebounceSleeps
    <3>4. UNCHANGED <<pending, urgent, driver, running, started, epoch, blocking,
                      cancelled, op, pubVars, disk, idle, quiet, caller, hinted,
                      histVars>>
      BY <2>1 DEF DebounceEnds, DebounceSleeps, lockVars
    <3> HIDE DEF next
    <3> QED BY <1>a, <3>2, <3>3, <3>4, HeadingInv DEF Inv, TypeOK, pubVars, histVars
  <2>2. ASSUME Wake(t) PROVE Inv'
    <3>1. /\ task[t].pc = "asleep"
          /\ UNCHANGED <<pending, urgent, running, started, epoch, blocking,
                         cancelled, op, pubVars, disk, idle, quiet, caller,
                         hinted, histVars>>
      BY <2>2 DEF Wake
    <3>2. CASE task' = [task EXCEPT ![t].pc = "debounce"] /\ driver' = driver
      <4> DEFINE next == [task[t] EXCEPT !.pc = "debounce"]
      <4>1. next \in TaskRecords /\ next.pc = "debounce"
              /\ task' = [task EXCEPT ![t] = next]
        BY <3>2, <1>a DEF TypeOK, TaskRecords
      <4> HIDE DEF next
      <4> QED BY <1>a, <3>1, <3>2, <4>1, HeadingInv DEF Inv, TypeOK, pubVars, histVars
    <3>3. CASE cancelled /\ task' = [task EXCEPT ![t] = NoTask] /\ driver' = FALSE
      <4>1. NoTask \in TaskRecords /\ NoTask.pc = "none"
        BY DEF NoTask, TaskRecords, Zero, Versions
      <4> QED BY <1>a, <3>1, <3>3, <4>1, HeadingInv DEF Inv, TypeOK, pubVars, histVars
    <3> QED BY <2>2, <3>2, <3>3 DEF Wake
  <2>3. ASSUME Take(t) PROVE Inv'
    <3>1. CASE blocking = 0 /\ pending # {}
      BY <2>3, <3>1, TakeInv
    <3>2. CASE ~(blocking = 0 /\ pending # {})
      <4>1. /\ task[t].pc = "take"
            /\ blocking > 0 \/ pending = {}
            /\ task' = [task EXCEPT ![t] = NoTask] /\ driver' = FALSE
            /\ UNCHANGED <<pending, urgent, running, started, epoch, blocking,
                           cancelled, op, pubVars, disk, idle, quiet, caller,
                           hinted, histVars>>
        BY <2>3, <3>2 DEF Take
      <4>2. NoTask \in TaskRecords /\ NoTask.pc = "none"
        BY DEF NoTask, TaskRecords, Zero, Versions
      <4> QED BY <1>a, <4>1, <4>2, HeadingInv DEF Inv, TypeOK, pubVars, histVars
    <3> QED BY <3>1, <3>2
  <2> QED BY <1>2, <2>1, <2>2, <2>3, ComputeInv, PublishInv DEF Drive
<1>3. ASSUME NEW q \in idle, IdleFires(q)
      PROVE  Inv'
  <2>1. /\ UNCHANGED <<lockVars, cancelled, task, op, pubVars, disk, histVars>>
        /\ UNCHANGED <<caller, hinted>>
        /\ idle' = idle \ {q} /\ (quiet' = quiet \/ quiet' = quiet + 1)
    BY <1>3 DEF IdleFires
  <2> QED BY <1>a, <2>1, UntouchedInv DEF Inv, TypeOK, lockVars, pubVars, histVars
<1>4. ASSUME IdleHint
      PROVE  Inv'
  <2>1. /\ Hint(Full, TRUE) /\ Inside' = Inside
        /\ op' \in [Ops -> OpStates] /\ op' = op
        /\ UNCHANGED <<cancelled, pubVars, disk, entered>>
        /\ UNCHANGED <<idle, caller, hinted>>
    BY <1>4, <1>a DEF IdleHint, Inside, TypeOK
  <2>2. quiet' \in Nat
    BY <1>4, <1>a DEF IdleHint, TypeOK
  <2> QED BY <1>a, <1>b, <2>1, <2>2, HintInv DEF Inv, TypeOK, pubVars
<1>5. ASSUME NEW o \in Ops, LastGuardHint(o)
      PROVE  Inv'
  <2>1. /\ Hint(Full, TRUE) /\ Inside' = Inside
        /\ op' \in [Ops -> OpStates]
        /\ UNCHANGED <<cancelled, pubVars, disk, entered>>
        /\ UNCHANGED <<idle, quiet, caller, hinted>>
    BY <1>5, <1>a DEF LastGuardHint, Inside, TypeOK, OpStates
  <2> QED BY <1>a, <1>b, <2>1, HintInv DEF Inv, TypeOK, pubVars
<1>6. ASSUME NEW o \in Ops, NEW p \in Paths, Mutate(o, p)
      PROVE  Inv'
  BY <1>6, DiskInv DEF Mutate
<1>7. ASSUME NEW c \in Callers, NEW h \in HintSets, Refresh(c, h)
      PROVE  Inv'
  <2>1. /\ h \in SUBSET Paths /\ h # {} /\ Hint(h, TRUE) /\ Inside' = Inside
        /\ op' \in [Ops -> OpStates] /\ op' = op
        /\ UNCHANGED <<cancelled, pubVars, disk, entered>>
        /\ UNCHANGED <<idle, quiet, hinted>>
    BY <1>7, <1>a DEF HintSets, Refresh, Inside, TypeOK
  <2>2. caller' \in [Callers -> CallerRecords]
    BY <1>7, <1>a, <1>c, <2>1, WaitTypes DEF Refresh, TypeOK
  <2> QED BY <1>a, <1>b, <2>1, <2>2, HintInv DEF Inv, TypeOK, pubVars
<1>8. ASSUME NEW c \in Callers, Status(c)
      PROVE  Inv'
  <2>1. /\ Inside' = Inside /\ op' \in [Ops -> OpStates] /\ op' = op
        /\ UNCHANGED <<cancelled, pubVars, disk, entered>>
        /\ UNCHANGED <<idle, quiet, hinted>>
    BY <1>8, <1>a DEF Status, Inside, TypeOK
  <2>2. caller' \in [Callers -> CallerRecords]
    <3>1. CASE Ends(c, "done")
      BY <3>1, <1>a, EndTypes
    <3>2. CASE Wait(c, started + 1, owed) \/ Wait(c, started, owed)
      BY <3>2, <1>a, WaitTypes DEF TypeOK
    <3>3. CASE Wait(c, started + 1, Asked(Full))
      BY <3>3, <1>a, <1>b, <1>c, WaitTypes DEF TypeOK
    <3> QED BY <1>8, <3>1, <3>2, <3>3 DEF Status
  <2>3. CASE Hint(Full, TRUE)
    BY <1>a, <1>b, <2>1, <2>2, <2>3, HintInv DEF Inv, TypeOK, pubVars
  <2>4. CASE UNCHANGED <<lockVars, task, owed>>
    BY <1>a, <2>1, <2>2, <2>4, UntouchedInv
       DEF Inv, TypeOK, lockVars, pubVars, histVars
  <2> QED BY <1>8, <2>3, <2>4 DEF Status
<1>9. ASSUME NEW c \in Callers, WaitPublished(c)
      PROVE  Inv'
  <2>1. caller' \in [Callers -> CallerRecords]
    BY <1>9, <1>a, EndTypes DEF WaitPublished
  <2>2. UNCHANGED <<lockVars, cancelled, task, op, pubVars, disk, idle, quiet,
                    hinted, histVars>>
    BY <1>9 DEF WaitPublished
  <2> QED BY <1>a, <2>1, <2>2, UntouchedInv DEF Inv, TypeOK, lockVars, pubVars, histVars
<1>10. ASSUME NEW p \in Paths, Write(p)
       PROVE  Inv'
  BY <1>10, DiskInv DEF Write
<1>11. CASE UNCHANGED vars
  BY <1>a, <1>11, UntouchedInv DEF vars, Inv, TypeOK, lockVars, pubVars, histVars
<1> QED
  BY <1>1, <1>2, <1>3, <1>4, <1>5, <1>6, <1>7, <1>8, <1>9, <1>10, <1>11,
     BlockingInv, AcquireInv, DropInv, ShutdownInv DEF Next

-----------------------------------------------------------------------------
\* The inductive invariant holds in every reachable state of the queue.
THEOREM Invariance == Spec => []Inv
<1>1. Init => Inv
  BY InitInv
<1>2. Inv /\ [Next]_vars => Inv'
  BY NextInv
<1> QED BY <1>1, <1>2, PTL DEF Spec

\* The queue's state keeps its types; in particular the unsigned count of
\* blocking sections never goes below zero (BlockingGuard::drop).
THEOREM TypeCorrect == Spec => []TypeOK
<1>1. Inv => TypeOK
  BY DEF Inv
<1> QED BY <1>1, Invariance, PTL

\* However many threads hint, at most one driver or run exists (drive, hint).
THEOREM AtMostOneRun == Spec => []OneRun
<1>1. Inv => OneRun
  BY DEF Inv
<1> QED BY <1>1, Invariance, PTL

\* No hint is lost, whatever mutations drop meanwhile (hint, drive, blocking).
THEOREM NoHintLost == Spec => []HintIsCovered
<1>1. Inv => HintIsCovered
  BY DEF Inv
<1> QED BY <1>1, Invariance, PTL

\* Pending hints always have somebody to pick them up (hint, drive).
THEOREM PendingDriven == Spec => []PendingIsDriven
<1>1. Inv => PendingIsDriven
  BY DEF Inv
<1> QED BY <1>1, Invariance, PTL

\* Only Publish changes the published snapshot.
LEMMA OnlyPublish ==
  ASSUME [Next]_vars, ~(\E t \in Tasks : Publish(t))
  PROVE  UNCHANGED <<publishedSeq, view, blank>>
BY DEF Next, vars, pubVars, Drive, ExplorerHint, DebounceEnds, DebounceSleeps,
   Wake, Take, Compute, IdleFires, IdleHint, Blocking, AcquireWrite, Mutate,
   DropGuard, LastGuardHint, Refresh, Status, WaitPublished, Shutdown, Write

\* No snapshot is published from a run that overlapped a mutation (blocking's
\* invalidation, and the epoch test before publish).
THEOREM NoTornSnapshot == Spec => PublishedAfterMutation
<1>1. Inv /\ [Next]_vars =>
        [publishedSeq' # publishedSeq => publishedSeq' > entered /\ blocking = 0]_vars
  <2> SUFFICES ASSUME Inv, [Next]_vars, publishedSeq' # publishedSeq
               PROVE  publishedSeq' > entered /\ blocking = 0
    OBVIOUS
  <2>1. PICK t \in Tasks : Publish(t)
    BY OnlyPublish
  <2>2. /\ task[t].pc = "computed" /\ task[t].epoch = epoch
        /\ publishedSeq' = task[t].seq
    BY <2>1 DEF Publish, Published, pubVars
  <2> QED BY <2>2 DEF Inv, RunsValid, ValidRun
<1> QED BY <1>1, Invariance, PTL DEF Spec, PublishedAfterMutation

\* A publish never takes a path back to an older version (publish merges); a
\* run on which git failed only blanks it.
THEOREM ViewNeverGoesBack == Spec => ViewAdvances
<1>1. Inv /\ [Next]_vars => [\A p \in Paths : p \notin blank' => view'[p] >= view[p]]_vars
  <2> SUFFICES ASSUME Inv, [Next]_vars, NEW p \in Paths, p \notin blank'
               PROVE  view'[p] >= view[p]
    OBVIOUS
  <2>1. view[p] \in Nat
    BY DEF Inv, TypeOK, Versions
  <2>2. CASE \E t \in Tasks : Publish(t)
    <3>1. PICK t \in Tasks : Publish(t)
      BY <2>2
    <3>2. task[t].pc = "computed" /\ task[t].seen[p] \in Nat
      BY <3>1 DEF Publish, Inv, TypeOK, TaskRecords, Versions
    <3>3. CASE view' = Merged(task[t]) /\ task[t].epoch = epoch
      BY <2>1, <3>2, <3>3 DEF Merged, Inv, RunsValid, ValidRun
    <3>4. CASE view' = view
      BY <2>1, <3>4
    <3> QED BY <3>1, <3>3, <3>4 DEF Publish, Published, pubVars
  <2>3. CASE ~(\E t \in Tasks : Publish(t))
    BY <2>1, <2>3, OnlyPublish
  <2> QED BY <2>2, <2>3
<1> QED BY <1>1, Invariance, PTL DEF Spec, ViewAdvances

-----------------------------------------------------------------------------
(* Callers, as long as no run has been invalidated. *)

\* What a caller waits for is in the snapshot, or went blank, or is pending for
\* the run it waits for, or being computed by a run no later than that one.
Served(c, p) ==
  \/ caller[c].need[p] <= view[p]
  \/ p \in blank
  \/ p \in pending /\ caller[c].target = started + 1
  \/ \E t \in Computing :
       /\ p \in task[t].hints /\ task[t].seq <= caller[c].target
       /\ task[t].pc = "computed" /\ task[t].git = "ok" =>
            caller[c].need[p] <= task[t].seen[p]

\* A run that worked takes no path out of the blank without what a caller
\* waits for, unless that is pending again.
Brought(c, p) ==
  \A t \in Computing : p \in task[t].hints /\ task[t].pc = "computed" /\ task[t].git = "ok" =>
    \/ caller[c].need[p] <= task[t].seen[p]
    \/ p \in pending /\ caller[c].target = started + 1

WaitIsServed(c) ==
  caller[c].st = "waiting" =>
    \A p \in Paths : caller[c].need[p] <= disk[p] /\ Served(c, p) /\ Brought(c, p)

\* Nobody has invalidated a run: no session closed, no mutation begun, and a
\* computing run is later than the published one.
Calm ==
  /\ ~cancelled /\ \A o \in Ops : op[o] = "ready"
  /\ publishedSeq <= started
  /\ \A t \in Computing : publishedSeq < task[t].seq

Undisturbed == epoch = 0 => Calm /\ \A c \in Callers : WaitIsServed(c)

\* What a step that publishes nothing leaves of the promises: hints may join,
\* the worktree may advance, runs stay as they are.
Carries ==
  /\ pending \subseteq pending'
  /\ \A p \in Paths : disk[p] <= disk'[p]
  /\ Computing' = Computing
  /\ \A t \in Computing : task'[t] = task[t]
  /\ UNCHANGED <<started, epoch, cancelled, op, publishedSeq, view, blank>>

\* Such a step keeps the promise made to every caller it does not move.
LEMMA CarriesWaits ==
  ASSUME Inv, Carries, disk' \in Versions, NEW c \in Callers,
         WaitIsServed(c), caller'[c] = caller[c]
  PROVE  WaitIsServed(c)'
<1> SUFFICES ASSUME caller'[c].st = "waiting", NEW p \in Paths
             PROVE  caller'[c].need[p] <= disk'[p] /\ Served(c, p)' /\ Brought(c, p)'
  BY DEF WaitIsServed
<1>1. /\ caller[c].need[p] \in Nat /\ disk[p] \in Nat /\ disk'[p] \in Nat
      /\ disk[p] <= disk'[p]
  BY DEF Inv, TypeOK, Versions, CallerRecords, Carries
<1>2. caller[c].need[p] <= disk[p] /\ Served(c, p) /\ Brought(c, p)
  BY DEF WaitIsServed
<1>3. Served(c, p)' /\ Brought(c, p)'
  BY <1>2 DEF Served, Brought, Carries
<1> QED BY <1>1, <1>2, <1>3

\* And it keeps the calm.
LEMMA CarriesCalm ==
  ASSUME Carries, Calm
  PROVE  Calm'
BY DEF Carries, Calm

\* A hint carries everything over.
LEMMA HintCarries ==
  ASSUME Inv, NEW h \in SUBSET Paths, NEW now \in BOOLEAN, Hint(h, now),
         UNCHANGED <<cancelled, op, pubVars, disk>>
  PROVE  Carries /\ (~cancelled => h \subseteq pending')
<1> USE DEF pubVars
<1>0. \A p \in Paths : disk[p] <= disk[p]
  BY DEF Inv, TypeOK, Versions
<1>1. CASE cancelled
  <2>1. UNCHANGED <<pending, started, epoch, task>>
    BY <1>1 DEF Hint, lockVars
  <2> QED BY <1>0, <1>1, <2>1 DEF Carries, Computing
<1>2. CASE ~cancelled
  <2>1. /\ pending' = IF pending = {} THEN h ELSE Absorb(pending, h)
        /\ UNCHANGED <<started, epoch>>
    BY <1>2 DEF Hint
  <2>2. pending \subseteq pending' /\ h \subseteq pending'
    BY <2>1, HintJoins DEF Inv
  <2>3. \/ UNCHANGED task
        \/ \E t \in Tasks : /\ task[t].pc = "none"
                            /\ task' = [task EXCEPT ![t].pc = "debounce"]
    BY <1>2 DEF Hint, Spawn
  <2>4. Computing' = Computing /\ \A t \in Computing : task'[t] = task[t]
    BY <2>3 DEF Computing, Inv, TypeOK, TaskRecords
  <2> QED BY <1>0, <2>1, <2>2, <2>4 DEF Carries
<1> QED BY <1>1, <1>2

\* A step that carries everything over and moves no waiting caller.
LEMMA CarriesAll ==
  ASSUME Inv, Undisturbed, Carries, disk' \in Versions,
         \A c \in Callers : caller'[c] = caller[c] \/ caller'[c].st # "waiting"
  PROVE  Undisturbed'
<1> SUFFICES ASSUME epoch' = 0 PROVE Calm' /\ \A c \in Callers : WaitIsServed(c)'
  BY DEF Undisturbed
<1>1. Calm /\ \A c \in Callers : WaitIsServed(c)
  BY DEF Undisturbed, Carries
<1>2. ASSUME NEW c \in Callers PROVE WaitIsServed(c)'
  <2>1. CASE caller'[c] = caller[c]
    BY <1>1, <2>1, CarriesWaits
  <2>2. CASE caller'[c].st # "waiting"
    BY <2>2 DEF WaitIsServed
  <2> QED BY <2>1, <2>2
<1> QED BY <1>1, <1>2, CarriesCalm

\* A caller that starts to wait, with what it asks for served, is the only
\* one whose promise is new.
LEMMA NewWait ==
  ASSUME Inv, Undisturbed, Carries, disk' \in Versions, NEW c \in Callers,
         NEW n \in Nat, NEW need \in Versions, Wait(c, n, need),
         epoch = 0 => WaitIsServed(c)'
  PROVE  Undisturbed'
<1> SUFFICES ASSUME epoch' = 0 PROVE Calm' /\ \A d \in Callers : WaitIsServed(d)'
  BY DEF Undisturbed
<1>1. epoch = 0 /\ Calm /\ \A d \in Callers : WaitIsServed(d)
  BY DEF Undisturbed, Carries
<1>2. ASSUME NEW d \in Callers PROVE WaitIsServed(d)'
  <2>1. CASE d = c
    BY <1>1, <2>1
  <2>2. CASE d # c
    <3>1. caller'[d] = caller[d]
      BY <2>2 DEF Wait, Inv, TypeOK
    <3> QED BY <1>1, <3>1, CarriesWaits
  <2> QED BY <2>1, <2>2
<1> QED BY <1>1, <1>2, CarriesCalm

\* The take moves what callers wait for from the pending set into the run
\* they wait for.
LEMMA TakeServes ==
  ASSUME Inv, Undisturbed, NEW t \in Tasks, Take(t), blocking = 0, pending # {}
  PROVE  Undisturbed'
<1> SUFFICES ASSUME epoch' = 0 PROVE Calm' /\ \A c \in Callers : WaitIsServed(c)'
  BY DEF Undisturbed
<1> DEFINE r == [pc |-> "compute", seq |-> started + 1, epoch |-> epoch,
                 hints |-> pending, seen |-> Zero, git |-> "ok"]
<1>1. /\ started' = started + 1
      /\ task' = [task EXCEPT ![t] = r]
      /\ task[t].pc = "take"
      /\ UNCHANGED <<epoch, cancelled, op, publishedSeq, view, blank, disk, caller>>
  BY DEF Take, pubVars, histVars, Inv, TypeOK
<1>2. Heading = {t} /\ Computing = {}
  BY <1>1 DEF Inv, OneRun, Heading, Computing
<1>3. task'[t] = r
  BY <1>1 DEF Inv, TypeOK
<1>4. Computing' = {t}
  BY <1>1, <1>2, <1>3 DEF Computing, Inv, TypeOK
<1>5. Calm /\ \A c \in Callers : WaitIsServed(c)
  BY <1>1 DEF Undisturbed
<1>6. started \in Nat /\ publishedSeq \in Nat
  BY DEF Inv, TypeOK
<1>7. Calm'
  BY <1>1, <1>3, <1>4, <1>5, <1>6 DEF Calm
<1>8. ASSUME NEW c \in Callers PROVE WaitIsServed(c)'
  <2> SUFFICES ASSUME caller'[c].st = "waiting", NEW p \in Paths
               PROVE  caller'[c].need[p] <= disk'[p] /\ Served(c, p)' /\ Brought(c, p)'
    BY DEF WaitIsServed
  <2>1. caller[c].need[p] <= disk[p] /\ Served(c, p) /\ Brought(c, p)
    BY <1>1, <1>5 DEF WaitIsServed
  <2>1a. Brought(c, p)'
    BY <1>3, <1>4 DEF Brought
  <2>2. CASE caller[c].need[p] <= view[p] \/ p \in blank
    BY <2>1, <2>1a, <2>2, <1>1 DEF Served
  <2>3. CASE p \in pending /\ caller[c].target = started + 1
    <3>1. t \in Computing' /\ p \in task'[t].hints /\ task'[t].seq <= caller'[c].target
            /\ task'[t].pc # "computed"
      BY <2>3, <1>1, <1>3, <1>4, <1>6
    <3> QED BY <3>1, <2>1, <2>1a, <1>1 DEF Served
  <2> QED BY <2>1, <2>2, <2>3, <1>2 DEF Served
<1> QED BY <1>7, <1>8

\* An undisturbed walk sees the worktree, so at least what callers need.
LEMMA ComputeServes ==
  ASSUME Inv, Undisturbed, NEW t \in Tasks, Compute(t)
  PROVE  Undisturbed'
<1> SUFFICES ASSUME epoch' = 0 PROVE Calm' /\ \A c \in Callers : WaitIsServed(c)'
  BY DEF Undisturbed
<1>1. /\ task[t].pc = "compute"
      /\ UNCHANGED <<pending, started, epoch, cancelled, op, publishedSeq, view, blank,
                     disk, caller>>
  BY DEF Compute, lockVars, pubVars, histVars
<1>2. task[t].epoch = 0 /\ epoch = 0
  <2>1. task[t].epoch <= epoch /\ task[t].epoch \in Nat
    BY <1>1 DEF Inv, RunsValid, TypeOK, TaskRecords
  <2> QED BY <2>1, <1>1
<1>3. Computing = {t}
  BY <1>1 DEF Inv, OneRun, Heading, Computing
<1>3a. \/ task' = [task EXCEPT ![t].pc = "computed", ![t].seen = disk]
       \/ task' = [task EXCEPT ![t].pc = "computed", ![t].git = "failed"]
  BY <1>2 DEF Compute
<1>4. /\ task'[t].pc = "computed" /\ (task'[t].git = "ok" => task'[t].seen = disk)
      /\ task'[t].hints = task[t].hints /\ task'[t].seq = task[t].seq
  BY <1>3a DEF Inv, TypeOK, TaskRecords
<1>5. Computing' = {t}
  <2>1. \A u \in Tasks : u # t => task'[u] = task[u]
    BY <1>3a DEF Inv, TypeOK
  <2> QED BY <2>1, <1>3, <1>4 DEF Computing
<1>6. Calm /\ \A c \in Callers : WaitIsServed(c)
  BY <1>1 DEF Undisturbed
<1>7. Calm'
  BY <1>1, <1>3, <1>4, <1>5, <1>6 DEF Calm
<1>8. ASSUME NEW c \in Callers PROVE WaitIsServed(c)'
  <2> SUFFICES ASSUME caller'[c].st = "waiting", NEW p \in Paths
               PROVE  caller'[c].need[p] <= disk'[p] /\ Served(c, p)' /\ Brought(c, p)'
    BY DEF WaitIsServed
  <2>1. caller[c].need[p] <= disk[p] /\ Served(c, p) /\ Brought(c, p)
    BY <1>1, <1>6 DEF WaitIsServed
  <2>1a. Brought(c, p)'
    BY <2>1, <1>1, <1>4, <1>5 DEF Brought
  <2>2. CASE p \in task[t].hints /\ task[t].seq <= caller[c].target
    <3>1. /\ t \in Computing' /\ p \in task'[t].hints
          /\ task'[t].seq <= caller'[c].target
          /\ task'[t].git = "ok" => caller'[c].need[p] <= task'[t].seen[p]
      BY <2>1, <2>2, <1>1, <1>4, <1>5
    <3> QED BY <3>1, <2>1, <2>1a, <1>1 DEF Served
  <2>3. CASE ~(p \in task[t].hints /\ task[t].seq <= caller[c].target)
    BY <2>1, <2>1a, <2>3, <1>1, <1>3 DEF Served
  <2> QED BY <2>2, <2>3
<1> QED BY <1>7, <1>8

\* The publish delivers what the run computed; what is still pending is for
\* a later run.
LEMMA PublishServes ==
  ASSUME Inv, Undisturbed, NEW t \in Tasks, Publish(t)
  PROVE  Undisturbed'
<1> SUFFICES ASSUME epoch' = 0 PROVE Calm' /\ \A c \in Callers : WaitIsServed(c)'
  BY DEF Undisturbed
<1>1. /\ task[t].pc = "computed"
      /\ UNCHANGED <<pending, started, epoch, cancelled, op, disk, caller>>
      /\ Rerun(t, task[t].hints # Full) \/ Rerun(t, FALSE)
  BY DEF Publish
<1>2. Calm /\ (\A c \in Callers : WaitIsServed(c)) /\ epoch = 0
  BY <1>1 DEF Undisturbed
<1>3. task[t].epoch = epoch
  <2>1. task[t].epoch <= epoch /\ task[t].epoch \in Nat
    BY <1>1 DEF Inv, RunsValid, TypeOK, TaskRecords
  <2> QED BY <2>1, <1>2
<1>4. view' = Merged(task[t]) /\ blank' = Blanked(task[t]) /\ publishedSeq' = task[t].seq
  BY <1>2, <1>3 DEF Publish, Published, Calm
<1>5. Computing = {t}
  BY <1>1 DEF Inv, OneRun, Heading, Computing
<1>6. Computing' = {}
  <2>1. \A u \in Tasks : u # t => task'[u] = task[u]
    BY <1>1 DEF Inv, TypeOK, Rerun
  <2>2. task'[t].pc \notin {"compute", "computed"}
    BY <1>1 DEF Inv, TypeOK, Rerun, NoTask
  <2> QED BY <2>1, <2>2, <1>5 DEF Computing
<1>7. task[t].seq <= started
  BY <1>1 DEF Inv, RunsValid
<1>8. Calm'
  BY <1>1, <1>2, <1>4, <1>6, <1>7 DEF Calm
<1>9. ASSUME NEW c \in Callers PROVE WaitIsServed(c)'
  <2> SUFFICES ASSUME caller'[c].st = "waiting", NEW p \in Paths
               PROVE  caller'[c].need[p] <= disk'[p] /\ Served(c, p)' /\ Brought(c, p)'
    BY DEF WaitIsServed
  <2>1. caller[c].need[p] <= disk[p] /\ Served(c, p) /\ Brought(c, p)
    BY <1>1, <1>2 DEF WaitIsServed
  <2>1a. Brought(c, p)'
    BY <1>6 DEF Brought
  <2>2. /\ view[p] \in Nat /\ task[t].seen[p] \in Nat /\ caller[c].need[p] \in Nat
        /\ task[t].git = "ok" => view[p] <= task[t].seen[p]
        /\ task[t].git \in {"ok", "failed"}
    BY <1>1, <1>3 DEF Inv, RunsValid, ValidRun, TypeOK, TaskRecords, Versions,
       CallerRecords
  <2>3. /\ p \in task[t].hints /\ task[t].git = "ok" => view'[p] = task[t].seen[p]
        /\ p \in task[t].hints /\ task[t].git = "failed" => p \in blank'
        /\ p \notin task[t].hints => view'[p] = view[p] /\ (p \in blank => p \in blank')
    BY <1>4 DEF Merged, Blanked
  <2>4. CASE p \in pending /\ caller[c].target = started + 1
    BY <2>1, <2>1a, <2>4, <1>1 DEF Served
  <2>5. CASE p \in task[t].hints /\ task[t].git = "ok" /\ ~(p \in pending /\ caller[c].target = started + 1)
    <3>1. caller[c].need[p] <= task[t].seen[p]
      BY <2>1, <2>5, <1>1, <1>5 DEF Brought
    <3>2. caller[c].need[p] <= view'[p]
      BY <3>1, <2>3, <2>5
    <3> QED BY <3>2, <2>1, <2>1a, <1>1 DEF Served
  <2>6. CASE p \in task[t].hints /\ task[t].git = "failed"
    BY <2>1, <2>1a, <2>3, <2>6, <1>1 DEF Served
  <2>7. CASE p \notin task[t].hints /\ ~(p \in pending /\ caller[c].target = started + 1)
    <3>1. caller[c].need[p] <= view[p] \/ p \in blank
      BY <2>1, <2>7, <1>5 DEF Served
    <3> QED BY <3>1, <2>1, <2>1a, <2>3, <2>7, <1>1 DEF Served
  <2> QED BY <2>2, <2>4, <2>5, <2>6, <2>7
<1> QED BY <1>8, <1>9

\* A refresh waits for the run that will take its hint.
LEMMA RefreshServes ==
  ASSUME Inv, Undisturbed, NEW c \in Callers, NEW h \in SUBSET Paths,
         Hint(h, TRUE), Wait(c, started + 1, Asked(h)),
         UNCHANGED <<cancelled, op, pubVars, disk>>
  PROVE  Undisturbed'
<1>1. Carries /\ (~cancelled => h \subseteq pending') /\ TRUE \in BOOLEAN
  BY HintCarries
<1>2. Asked(h) \in Versions /\ started + 1 \in Nat /\ disk' \in Versions
  BY DEF Asked, Inv, TypeOK, Versions
<1>3. ASSUME epoch = 0 PROVE WaitIsServed(c)'
  <2>1. ~cancelled
    BY <1>3 DEF Undisturbed, Calm
  <2>2. /\ caller'[c].target = started + 1 /\ caller'[c].need = Asked(h)
        /\ started' = started /\ view' = view /\ disk' = disk
    BY <1>1 DEF Wait, Inv, TypeOK, pubVars, Carries
  <2> SUFFICES ASSUME NEW p \in Paths
               PROVE  caller'[c].need[p] <= disk'[p] /\ Served(c, p)' /\ Brought(c, p)'
    BY DEF WaitIsServed
  <2>3. disk[p] \in Nat /\ view[p] \in Nat
    BY DEF Inv, TypeOK, Versions
  <2>4. CASE p \in h
    <3>1. caller'[c].need[p] = disk[p] /\ p \in pending'
      BY <1>1, <2>1, <2>2, <2>4 DEF Asked
    <3> QED BY <3>1, <2>2, <2>3 DEF Served, Brought
  <2>5. CASE p \notin h
    <3>1. caller'[c].need[p] = 0
      BY <2>2, <2>5 DEF Asked
    <3>2. caller'[c].need[p] <= view'[p] /\ caller'[c].need[p] <= disk'[p]
      BY <3>1, <2>2, <2>3
    <3>3. \A t \in Computing' : task'[t].seen[p] \in Nat
      BY <1>1 DEF Carries, Computing, Inv, TypeOK, TaskRecords, Versions
    <3>4. Brought(c, p)'
      BY <3>1, <3>3 DEF Brought
    <3> QED BY <3>2, <3>4 DEF Served
  <2> QED BY <2>4, <2>5
<1> HIDE DEF Asked
<1> QED BY <1>1, <1>2, <1>3, NewWait

\* A status waits for the run that settles what was asked before it.
LEMMA StatusServes ==
  ASSUME Inv, Undisturbed, NEW c \in Callers, Status(c)
  PROVE  Undisturbed'
<1>1. UNCHANGED <<cancelled, op, pubVars, disk>>
  BY DEF Status
<1>2. disk' \in Versions
  BY <1>1 DEF Inv, TypeOK
<1>3. CASE Hint(Full, TRUE) /\ Wait(c, started + 1, Asked(Full))
  BY <1>1, <1>3, RefreshServes DEF Full
<1>4. CASE ~(Hint(Full, TRUE) /\ Wait(c, started + 1, Asked(Full)))
  <2>0. UNCHANGED <<lockVars, task, owed>>
    BY <1>4 DEF Status
  <2>1. Carries
    <3>1. \A p \in Paths : disk[p] <= disk'[p]
      BY <1>1 DEF Inv, TypeOK, Versions
    <3> QED BY <1>1, <2>0, <3>1 DEF Carries, lockVars, pubVars, Computing
  <2>2. CASE Ends(c, "done")
    <3>1. \A d \in Callers : caller'[d] = caller[d] \/ caller'[d].st # "waiting"
      BY <2>2 DEF Ends, NoWait, Inv, TypeOK
    <3> QED BY <2>1, <3>1, <1>2, CarriesAll
  <2>3. CASE \E n \in {started, started + 1} :
               /\ Wait(c, n, owed)
               /\ pending # {} => n = started + 1
    <3>1. PICK n \in {started, started + 1} :
               /\ Wait(c, n, owed)
               /\ pending # {} => n = started + 1
      BY <2>3
    <3>2. n \in Nat /\ owed \in Versions /\ started \in Nat
      BY <3>1 DEF Inv, TypeOK
    <3>3. ASSUME epoch = 0 PROVE WaitIsServed(c)'
      <4>1. Calm
        BY <3>3 DEF Undisturbed
      <4>2. /\ caller'[c].target = n /\ caller'[c].need = owed
            /\ started' = started /\ view' = view /\ disk' = disk
            /\ task' = task /\ Computing' = Computing /\ pending' = pending
            /\ epoch' = epoch
        BY <1>1, <2>0, <2>1, <3>1 DEF Wait, Inv, TypeOK, pubVars, lockVars, Carries
      <4> SUFFICES ASSUME NEW p \in Paths
                   PROVE  caller'[c].need[p] <= disk'[p] /\ Served(c, p)' /\ Brought(c, p)'
        BY DEF WaitIsServed
      <4>3. owed[p] <= disk[p] /\ owed[p] \in Nat /\ view[p] \in Nat
        BY DEF Inv, Bounded, TypeOK, Versions
      <4>3a. Brought(c, p)'
        <5>1. \A t \in Computing : task[t].epoch = epoch
          BY <3>3 DEF Inv, RunsValid, Computing, TypeOK, TaskRecords
        <5>2. ASSUME NEW t \in Computing, p \in task[t].hints, task[t].pc = "computed",
                     task[t].git = "ok", p \notin pending
              PROVE  owed[p] <= task[t].seen[p]
          BY <5>1, <5>2 DEF Inv, RunsValid, ValidRun, Computing
        <5> QED BY <5>2, <4>2, <3>1 DEF Brought
      <4>4. CASE owed[p] <= view[p]
        BY <4>2, <4>3, <4>3a, <4>4 DEF Served
      <4>5. CASE p \in pending
        BY <4>2, <4>3, <4>3a, <4>5, <3>1 DEF Served
      <4>6. CASE view[p] < owed[p] /\ p \notin pending
        <5>1. blocking = 0
          <6>1. Inside = {}
            BY <4>1 DEF Calm, Inside
          <6> QED BY <6>1, FS_EmptySet DEF Inv, BlockingCounts
        <5>2. PICK t \in Computing : task[t].epoch = epoch /\ p \in task[t].hints
          BY <4>1, <4>6, <5>1 DEF Inv, HintIsCovered, Calm
        <5>3. task[t].seq <= started /\ task[t].seq \in Nat
          BY <5>2 DEF Inv, RunsValid, Computing, TypeOK, TaskRecords
        <5>4. task[t].seq <= n
          BY <5>3, <3>1, <3>2
        <5>5. task[t].pc = "computed" /\ task[t].git = "ok" => owed[p] <= task[t].seen[p]
          BY <5>2, <4>6 DEF Inv, RunsValid, ValidRun, Computing
        <5> QED BY <5>2, <5>4, <5>5, <4>2, <4>3, <4>3a DEF Served
      <4> QED BY <4>3, <4>4, <4>5, <4>6
    <3> QED BY <2>1, <3>1, <3>2, <3>3, <1>2, NewWait
  <2> QED BY <2>2, <2>3, <1>4 DEF Status
<1> QED BY <1>3, <1>4

\* Every step keeps the promises made to callers while nothing is disturbed.
LEMMA NextServes == Inv /\ Undisturbed /\ [Next]_vars => Undisturbed'
<1> SUFFICES ASSUME Inv, Undisturbed, [Next]_vars PROVE Undisturbed'
  OBVIOUS
<1>a. TypeOK /\ \A p \in Paths : disk[p] <= disk[p]
  BY DEF Inv, TypeOK, Versions
<1>b. disk' \in Versions
  BY NextInv DEF Inv, TypeOK
<1>c. Full \in SUBSET Paths /\ TRUE \in BOOLEAN
  BY DEF Full
<1>1. ASSUME NEW h \in HintSets, NEW now \in BOOLEAN, ExplorerHint(h, now)
      PROVE  Undisturbed'
  <2>1. Carries /\ caller' = caller
    BY <1>1, HintCarries DEF ExplorerHint, HintSets
  <2> QED BY <1>b, <2>1, CarriesAll
<1>2. ASSUME NEW t \in Tasks, Drive(t)
      PROVE  Undisturbed'
  <2>1. ASSUME DebounceEnds(t) \/ DebounceSleeps(t) \/ Wake(t)
        PROVE  Undisturbed'
    <3>1. /\ UNCHANGED <<pending, started, epoch, cancelled, op, publishedSeq, view,
                         blank, disk, caller>>
          /\ task[t].pc \in {"debounce", "asleep"}
          /\ \/ \E pc \in {"take", "asleep", "debounce"} :
                  task' = [task EXCEPT ![t].pc = pc]
             \/ task' = [task EXCEPT ![t] = NoTask]
      BY <2>1 DEF DebounceEnds, DebounceSleeps, Wake, lockVars, pubVars
    <3>2. Computing' = Computing /\ \A u \in Computing : task'[u] = task[u]
      BY <1>a, <3>1 DEF Computing, TypeOK, TaskRecords, NoTask
    <3>3. Carries
      BY <1>a, <3>1, <3>2 DEF Carries
    <3> QED BY <1>b, <3>1, <3>3, CarriesAll
  <2>2. ASSUME Take(t) PROVE Undisturbed'
    <3>1. CASE blocking = 0 /\ pending # {}
      BY <2>2, <3>1, TakeServes
    <3>2. CASE ~(blocking = 0 /\ pending # {})
      <4>1. /\ UNCHANGED <<pending, started, epoch, cancelled, op, publishedSeq, view,
                           blank, disk, caller>>
            /\ task[t].pc = "take" /\ task' = [task EXCEPT ![t] = NoTask]
        BY <2>2, <3>2 DEF Take, pubVars
      <4>2. Computing' = Computing /\ \A u \in Computing : task'[u] = task[u]
        BY <1>a, <4>1 DEF Computing, TypeOK, TaskRecords, NoTask
      <4>3. Carries
        BY <1>a, <4>1, <4>2 DEF Carries
      <4> QED BY <1>b, <4>1, <4>3, CarriesAll
    <3> QED BY <3>1, <3>2
  <2> QED BY <1>2, <2>1, <2>2, ComputeServes, PublishServes DEF Drive
<1>3. ASSUME IdleHint
      PROVE  Undisturbed'
  <2>1. Carries /\ caller' = caller
    BY <1>3, <1>c, HintCarries DEF IdleHint
  <2> QED BY <1>b, <2>1, CarriesAll
<1>4. ASSUME NEW q \in idle, IdleFires(q)
      PROVE  Undisturbed'
  <2>1. Carries /\ caller' = caller
    BY <1>4, <1>a DEF IdleFires, Carries, Computing, lockVars, pubVars
  <2> QED BY <1>b, <2>1, CarriesAll
<1>5. ASSUME NEW o \in Ops, Blocking(o)
      PROVE  Undisturbed'
  <2>1. epoch' = epoch + 1 /\ epoch \in Nat
    BY <1>5, <1>a DEF Blocking, TypeOK
  <2> QED BY <2>1 DEF Undisturbed
<1>6. ASSUME NEW o \in Ops,
             \/ AcquireWrite(o) \/ DropGuard(o) \/ LastGuardHint(o)
             \/ \E p \in Paths : Mutate(o, p)
      PROVE  Undisturbed'
  \* Such a mutation has begun, so it has invalidated the queue already.
  <2>1. op[o] # "ready"
    BY <1>6 DEF AcquireWrite, DropGuard, LastGuardHint, Mutate
  <2>2. epoch # 0
    BY <2>1 DEF Undisturbed, Calm
  <2>3. epoch' = epoch
    BY <1>6 DEF AcquireWrite, DropGuard, LastGuardHint, Mutate, Hint, lockVars
  <2> QED BY <2>2, <2>3 DEF Undisturbed
<1>7. ASSUME NEW c \in Callers, NEW h \in HintSets, Refresh(c, h)
      PROVE  Undisturbed'
  BY <1>7, RefreshServes DEF Refresh, HintSets
<1>8. ASSUME NEW c \in Callers, WaitPublished(c)
      PROVE  Undisturbed'
  <2>1. Carries
    BY <1>8, <1>a DEF WaitPublished, Carries, Computing, lockVars, pubVars
  <2>2. \A d \in Callers : caller'[d] = caller[d] \/ caller'[d].st # "waiting"
    BY <1>8, <1>a DEF WaitPublished, Ends, NoWait, TypeOK
  <2> QED BY <1>b, <2>1, <2>2, CarriesAll
<1>9. ASSUME NEW p \in Paths, Write(p)
      PROVE  Undisturbed'
  <2>1. \A q \in Paths : disk[q] <= disk'[q]
    BY <1>9, <1>a DEF Write, TypeOK, Versions
  <2>2. Carries /\ caller' = caller
    BY <1>9, <2>1 DEF Write, Carries, Computing, lockVars, pubVars
  <2> QED BY <1>b, <2>2, CarriesAll
<1>10. CASE UNCHANGED vars
  <2>1. Carries /\ caller' = caller
    BY <1>10, <1>a DEF vars, Carries, Computing, lockVars, pubVars
  <2> QED BY <1>b, <2>1, CarriesAll
<1>11. ASSUME Shutdown PROVE Undisturbed'
  <2>1. epoch' = epoch + 1 /\ epoch \in Nat
    BY <1>11, <1>a DEF Shutdown, TypeOK
  <2> QED BY <2>1 DEF Undisturbed
<1> QED
  BY <1>1, <1>2, <1>3, <1>4, <1>5, <1>6, <1>7, <1>8, <1>9, <1>10, <1>11,
     StatusServes DEF Next

\* Until a mutation or the close invalidates a run, wait_published answers
\* every caller of refresh and of status with what it asked for, but for the
\* paths on which git failed, whatever was debouncing, computing or rescanning
\* when it called (settle_target).
THEOREM UndisturbedCallersAreFresh == Spec => []UndisturbedIsFresh
<1>1. Init => Undisturbed
  BY DEF Init, Undisturbed, Calm, Computing, NoTask, NoWait, WaitIsServed
<1>2. Inv /\ Undisturbed => UndisturbedIsFresh
  <2> SUFFICES ASSUME Inv, Undisturbed, epoch = 0, NEW c \in Callers,
                      caller[c].st = "waiting", publishedSeq >= caller[c].target,
                      NEW p \in Paths
               PROVE  view[p] >= caller[c].need[p] \/ p \in blank
    BY DEF UndisturbedIsFresh, CallerIsFresh
  <2>1. Calm /\ Served(c, p)
    BY DEF Undisturbed, WaitIsServed
  <2>2. /\ publishedSeq \in Nat /\ started \in Nat /\ caller[c].target \in Nat
        /\ caller[c].need[p] \in Nat /\ view[p] \in Nat
    BY DEF Inv, TypeOK, CallerRecords, Versions
  <2>3. \A t \in Computing : task[t].seq \in Nat
    BY DEF Inv, TypeOK, TaskRecords, Computing
  <2> QED BY <2>1, <2>2, <2>3 DEF Calm, Served
<1> QED BY <1>1, <1>2, NextServes, Invariance, PTL DEF Spec
=============================================================================
