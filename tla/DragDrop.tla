------------------------------ MODULE DragDrop ------------------------------
(***************************************************************************)
(* Drag and drop on the rows of a FileTree (mille-ui,                      *)
(* useFileTreeDragDrop.ts and useAutoExpandDwell.ts).                      *)
(*                                                                         *)
(* The refs and the state of the hook belong to one drag; a drop starts an *)
(* asynchronous batch that outlives the drag.  Between its awaits (the     *)
(* confirmation, the probe of the destination, the collision prompt, the   *)
(* engine call) the next drag can start and the tree can change.  Paths    *)
(* and MIME payloads are the dragged items themselves; the engine and the  *)
(* browser are external.                                                   *)
(***************************************************************************)
EXTENDS Naturals, Sequences, FiniteSets, SequencesExt

CONSTANTS
    Ids,            \* entries, rows of the tree
    Dirs,           \* those that are folders
    Parent,         \* [Ids -> Ids \cup {None}] where each one is at first
    Name,           \* [Ids \cup Paths -> names]
    Ignored,        \* entries ignored by git: folders decorated so, rows marked so
    Paths,          \* files of the desktop or of another window
    Selections,     \* bound: the sets of rows that are dragged together
    Places,         \* bound: the <<row, position>> the pointer passes
    Drops,          \* the drops of a behaviour
    collision,      \* option: the policy when nobody is asked
    Answers,        \* policies the prompt may return
    MaxElsewhere,   \* bound: changes of the tree by somebody else
    None            \* null

VARIABLES
    tree,           \* the engine's tree: parent of each entry, or "gone"
    made,           \* <<folder, name>> of the copies made
    snapshot,       \* snapshotRef: the tree as last rendered
    gesture,        \* the browser's drag: its source, payload, whether a drop is allowed
    sourceIds,      \* sourceIdsRef
    isInternal,     \* isInternalDragRef
    draggingIds, dropTarget, dropPosition,      \* what the rows show
    tracked,        \* the folder whose dwell timer runs
    opened,         \* the folders the engine was told to expand by it
    drop,           \* the batches
    lost,           \* history: <<batch, item, entry>> an item replaced an entry
    said,           \* history: what the prompts returned
    elsewhere

vars == <<tree, made, snapshot, gesture, sourceIds, isInternal, draggingIds, dropTarget,
          dropPosition, tracked, opened, drop, lost, said, elsewhere>>
engine == <<tree, made, lost>>
shown == <<draggingIds, dropTarget, dropPosition>>

Positions == {"self", "above", "below"}
NoGesture == [kind |-> "none", items |-> <<>>, allowed |-> FALSE]
NoDrop == [step |-> "idle", items |-> <<>>, target |-> None, op |-> "move", own |-> FALSE,
           index |-> 1, applied |-> None, policy |-> None, failures |-> 0]

Init ==
    /\ tree = Parent /\ snapshot = Parent /\ made = {}
    /\ gesture = NoGesture
    /\ sourceIds = {} /\ isInternal = FALSE
    /\ draggingIds = {} /\ dropTarget = None /\ dropPosition = None
    /\ tracked = None /\ opened = {}
    /\ drop = [d \in Drops |-> NoDrop]
    /\ lost = {} /\ said = {} /\ elsewhere = 0

-----------------------------------------------------------------------------
(* The snapshot and what is read from it. *)

Known(id) == id # None /\ snapshot[id] # "gone"

\* The entry and its ancestors in a tree.
Lineage(t, id) ==
    LET up[i \in Ids] == {i} \cup (IF t[i] \in Ids THEN up[t[i]] ELSE {}) IN up[id]

rootOf(id) == CHOOSE r \in Lineage(snapshot, id) : snapshot[r] \notin Ids

\* React renders the engine's latest snapshot.
Render ==
    /\ snapshot # tree
    /\ snapshot' = tree
    /\ UNCHANGED <<engine, gesture, sourceIds, isInternal, shown, tracked, drop, said, elsewhere, opened>>

resolveTargetParent(row, position) ==
    CASE ~Known(row) -> None
      [] Known(row) /\ position # "self" -> snapshot[row]
      [] Known(row) /\ position = "self" -> IF row \in Dirs THEN row ELSE snapshot[row]

\* Self-drops, cycles and drops on another root are refused.
validateSync(ids, row, position) ==
    LET target == resolveTargetParent(row, position) IN
    /\ ~(target = None /\ position = "self")
    /\ ~(position = "self" /\ ids = {row})
    /\ target # None =>
         \A id \in ids : Known(id) => /\ id \notin Lineage(snapshot, target)
                                      /\ rootOf(id) = rootOf(target)

-----------------------------------------------------------------------------
(* The drag. *)

\* The dwell timer runs only over the middle of a folder.
track(row, position) ==
    tracked' = IF position = "self" /\ Known(row) /\ row \in Dirs THEN row ELSE None

\* Bound: no drag is begun that no drop is left for.
Idle == gesture.kind = "none" /\ \E d \in Drops : drop[d].step = "idle"

\* A row of the selection carries the selection, in its order.
onDragStart(row) ==
    \E ids \in Selections :
       /\ Idle /\ row \in ids /\ \A i \in ids : Known(i) /\ snapshot[i] # None
       /\ \E items \in SetToSeqs(ids) :
             gesture' = [kind |-> "own", items |-> items, allowed |-> FALSE]
       /\ sourceIds' = ids
       /\ isInternal' = TRUE
       /\ draggingIds' = ids
       /\ UNCHANGED <<engine, snapshot, dropTarget, dropPosition, tracked, drop, said, elsewhere, opened>>

\* A drag of the desktop or of another window comes over the tree.
ForeignDrag ==
    \E files \in SUBSET Paths \ {{}} :
       /\ Idle
       /\ \E items \in SetToSeqs(files) :
             gesture' = [kind |-> "foreign", items |-> items, allowed |-> FALSE]
       /\ UNCHANGED <<engine, snapshot, sourceIds, isInternal, shown, tracked, drop, said, elsewhere, opened>>

Moving == gesture.kind \in {"own", "foreign"}

onDragEnter(row, position) ==
    /\ Moving /\ Known(row)
    /\ dropTarget' = row /\ dropPosition' = position
    /\ track(row, position)
    /\ UNCHANGED <<engine, snapshot, gesture, sourceIds, isInternal, draggingIds, drop, said,
                   elsewhere, opened>>

\* An invalid place shows as a target, refuses the drop and keeps the timer.
onDragOver(row, position) ==
    /\ Moving /\ Known(row)
    /\ LET ok == isInternal /\ sourceIds # {} => validateSync(sourceIds, row, position) IN
       /\ gesture' = [gesture EXCEPT !.allowed = ok]
       /\ IF ok THEN track(row, position) ELSE UNCHANGED tracked
    /\ dropTarget' = row /\ dropPosition' = position
    /\ UNCHANGED <<engine, snapshot, sourceIds, isInternal, draggingIds, drop, said, elsewhere, opened>>

\* The pointer leaves the row; a foreign drag may leave the window with it.
onDragLeave ==
    /\ Moving /\ tracked' = None
    /\ gesture' \in {[gesture EXCEPT !.allowed = FALSE]}
                    \cup (IF gesture.kind = "foreign" THEN {NoGesture} ELSE {})
    /\ UNCHANGED <<engine, snapshot, sourceIds, isInternal, shown, drop, said, elsewhere, opened>>

\* The dwell timer fires: the engine is told to expand the folder, if it is
\* still there (TreeNavigation has what that does to the tree).
Dwelled ==
    /\ tracked # None
    /\ tracked' = None
    /\ opened' = IF Known(tracked) THEN opened \cup {tracked} ELSE opened
    /\ UNCHANGED <<engine, snapshot, gesture, sourceIds, isInternal, shown, drop, said, elsewhere>>

onDragEnd ==
    /\ gesture.kind \in {"own", "dropped"}
    /\ gesture' = NoGesture
    /\ draggingIds' = {} /\ dropTarget' = None /\ dropPosition' = None
    /\ sourceIds' = {} /\ isInternal' = FALSE
    /\ tracked' = None
    /\ UNCHANGED <<engine, snapshot, drop, said, elsewhere, opened>>

-----------------------------------------------------------------------------
(* The drop and its batch. *)

\* gitignoreGate: the target or a source is ignored.
Confirms(ids, target) == target \in Ignored \/ \E id \in ids \cap Ignored : Known(id)

\* Mutant: the timer survives the drop.
onDropDwelling(d, alt) ==
    /\ Moving /\ gesture.allowed /\ dropTarget # None /\ drop[d].step = "idle"
    /\ drop' = [drop EXCEPT ![d] = [NoDrop EXCEPT !.step = "ignored"]]
    /\ gesture' = IF gesture.kind = "own" THEN [gesture EXCEPT !.kind = "dropped"] ELSE NoGesture
    /\ dropTarget' = None /\ dropPosition' = None
    /\ UNCHANGED <<engine, snapshot, sourceIds, isInternal, draggingIds, tracked, said, elsewhere, opened>>

\* onDrop, up to its first await.  The browser fires it where the last
\* dragover allowed it, and dragend follows a drag of our own.
onDrop(d, alt) ==
    LET target == resolveTargetParent(dropTarget, dropPosition)
        begun(items, op, step) ==
            [NoDrop EXCEPT !.step = step, !.items = items, !.target = target, !.op = op,
                           !.own = gesture.kind = "own"]
        accepted == /\ sourceIds # {} /\ validateSync(sourceIds, dropTarget, dropPosition)
                    /\ target # None
    IN
    /\ Moving /\ gesture.allowed /\ dropTarget # None
    /\ drop[d].step = "idle" /\ \A e \in Drops : e < d => drop[e].step # "idle"
    /\ drop' = [drop EXCEPT ![d] =
          IF isInternal
          THEN IF accepted
               THEN begun(gesture.items, IF alt THEN "copy" ELSE "move",
                          IF Confirms(sourceIds, target) THEN "confirm" ELSE "item")
               ELSE [NoDrop EXCEPT !.step = "ignored"]
          ELSE IF target # None THEN begun(gesture.items, "import", "item")
               ELSE [NoDrop EXCEPT !.step = "ignored"]]
    /\ gesture' = IF gesture.kind = "own" THEN [gesture EXCEPT !.kind = "dropped"] ELSE NoGesture
    /\ dropTarget' = None /\ dropPosition' = None /\ tracked' = None
    /\ UNCHANGED <<engine, snapshot, sourceIds, isInternal, draggingIds, said, elsewhere, opened>>

Update(d, fields) == drop' = [drop EXCEPT ![d] = fields]

\* onConfirm answers.
Confirm(d) ==
    /\ drop[d].step = "confirm"
    /\ \E yes \in BOOLEAN : Update(d, [drop[d] EXCEPT !.step = IF yes THEN "item" ELSE "ignored"])
    /\ UNCHANGED <<engine, snapshot, gesture, sourceIds, isInternal, shown, tracked, said, elsewhere, opened>>

Item(d) == drop[d].items[drop[d].index]

\* A destination in use, in a tree.
Occupants(t, target, item) == {i \in Ids \ {item} : t[i] = target /\ Name[i] = Name[item]}
Taken(t, target, item) ==
    Occupants(t, target, item) # {} \/ <<target, Name[item]>> \in made

\* The next item of the batch: one that is there already is passed over, an
\* answer for all is used, else the destination is probed.
NextItem(d) ==
    /\ drop[d].step = "item" /\ drop[d].index <= Len(drop[d].items)
    /\ Update(d,
         CASE drop[d].op = "move" /\ Known(Item(d)) /\ snapshot[Item(d)] = drop[d].target ->
                [drop[d] EXCEPT !.index = @ + 1]
           [] OTHER -> [drop[d] EXCEPT !.step = IF drop[d].applied # None THEN "run" ELSE "probe",
                                       !.policy = drop[d].applied])
    /\ UNCHANGED <<engine, snapshot, gesture, sourceIds, isInternal, shown, tracked, said, elsewhere, opened>>

\* probeCollision: free destinations take the option's policy.
Probe(d) ==
    /\ drop[d].step = "probe"
    /\ Update(d, IF Taken(tree, drop[d].target, Item(d))
                 THEN [drop[d] EXCEPT !.step = "ask"]
                 ELSE [drop[d] EXCEPT !.step = "run", !.policy = collision])
    /\ UNCHANGED <<engine, snapshot, gesture, sourceIds, isInternal, shown, tracked, said, elsewhere, opened>>

\* Mutant: the answer for all is kept in a ref of the hook.
AskOnce(d) ==
    /\ drop[d].step = "ask"
    /\ \E policy \in Answers, all \in BOOLEAN :
         /\ drop' = [e \in Drops |->
               LET b == IF all THEN [drop[e] EXCEPT !.applied = policy] ELSE drop[e]
               IN IF e = d THEN [b EXCEPT !.step = "run", !.policy = policy] ELSE b]
         /\ said' = said \cup {[drop |-> d, item |-> Item(d), policy |-> policy, all |-> all]}
    /\ UNCHANGED <<engine, snapshot, gesture, sourceIds, isInternal, shown, tracked, elsewhere, opened>>

\* onCollision answers, for this item or for the rest of the batch.
Ask(d) ==
    /\ drop[d].step = "ask"
    /\ \E policy \in Answers, all \in BOOLEAN :
         /\ Update(d, [drop[d] EXCEPT !.step = "run", !.policy = policy,
                                      !.applied = IF all THEN policy ELSE @])
         /\ said' = said \cup {[drop |-> d, item |-> Item(d), policy |-> policy, all |-> all]}
    /\ UNCHANGED <<engine, snapshot, gesture, sourceIds, isInternal, shown, tracked, elsewhere, opened>>

\* The engine's move, copy or import of one entry, or its refusal.
Refused(d) ==
    LET target == drop[d].target IN
    \/ Item(d) \in Ids /\ tree[Item(d)] = "gone"
    \/ tree[target] = "gone"
    \/ Item(d) \in Ids /\ Item(d) \in Lineage(tree, target)
    \/ drop[d].policy = "error" /\ Taken(tree, target, Item(d))

Apply(d) ==
    LET target == drop[d].target
        hit == IF drop[d].policy = "overwrite" THEN Occupants(tree, target, Item(d)) ELSE {}
        skipped == drop[d].policy = "skip" /\ Taken(tree, target, Item(d))
        moved == IF drop[d].op = "move" /\ ~skipped THEN {Item(d)} ELSE {}
    IN
    /\ tree' = [i \in Ids |-> IF i \in moved THEN target ELSE IF i \in hit THEN "gone" ELSE tree[i]]
    /\ made' = IF drop[d].op # "move" /\ ~skipped THEN made \cup {<<target, Name[Item(d)]>>} ELSE made
    /\ lost' = lost \cup {<<d, Item(d), i>> : i \in hit}

\* The end of a batch of our own clears the drag, also after a failure.
Cleared(own) ==
    IF own THEN draggingIds' = {} /\ sourceIds' = {} /\ isInternal' = FALSE
    ELSE UNCHANGED <<draggingIds, sourceIds, isInternal>>

\* One engine call ends.  A move or a copy that fails ends its batch; an
\* import goes on with the next path and reports the failures at the end.
Run(d) ==
    /\ drop[d].step = "run"
    /\ IF Refused(d) THEN UNCHANGED engine ELSE Apply(d)
    /\ LET ends == Refused(d) /\ drop[d].op # "import" IN
       /\ Update(d, [drop[d] EXCEPT !.step = IF ends THEN "failed" ELSE "item",
                                    !.index = @ + 1,
                                    !.failures = IF Refused(d) THEN @ + 1 ELSE @])
       /\ Cleared(ends)
    /\ UNCHANGED <<snapshot, gesture, dropTarget, dropPosition, tracked, said, elsewhere, opened>>

Finish(d) ==
    /\ drop[d].step = "item" /\ drop[d].index > Len(drop[d].items)
    /\ Update(d, [drop[d] EXCEPT !.step = IF drop[d].failures = 0 THEN "done" ELSE "failed"])
    /\ Cleared(drop[d].op # "import")
    /\ UNCHANGED <<engine, snapshot, gesture, dropTarget, dropPosition, tracked, said, elsewhere, opened>>

\* Somebody else removes an entry.
Elsewhere ==
    /\ elsewhere < MaxElsewhere
    /\ elsewhere' = elsewhere + 1
    /\ \E i \in Ids : /\ tree[i] \notin {None, "gone"} /\ \A j \in Ids : tree[j] # i
                      /\ tree' = [tree EXCEPT ![i] = "gone"]
    /\ UNCHANGED <<made, lost, snapshot, gesture, sourceIds, isInternal, shown, tracked, drop, said, opened>>

Next ==
    \/ Render \/ ForeignDrag \/ onDragLeave \/ Dwelled \/ onDragEnd \/ Elsewhere
    \/ \E row \in Ids : onDragStart(row)
    \/ \E place \in Places : onDragEnter(place[1], place[2]) \/ onDragOver(place[1], place[2])
    \/ \E d \in Drops : \/ \E alt \in BOOLEAN : onDrop(d, alt)
                        \/ Confirm(d) \/ NextItem(d) \/ Probe(d) \/ Ask(d) \/ Run(d) \/ Finish(d)

Spec == Init /\ [][Next]_vars

-----------------------------------------------------------------------------
(* Properties. *)

TypeOK ==
    /\ tree \in [Ids -> Ids \cup {None, "gone"}] /\ snapshot \in [Ids -> Ids \cup {None, "gone"}]
    /\ gesture.kind \in {"none", "own", "foreign", "dropped"}
    /\ sourceIds \subseteq Ids /\ isInternal \in BOOLEAN /\ draggingIds \subseteq Ids
    /\ dropTarget \in Ids \cup {None} /\ dropPosition \in Positions \cup {None}
    /\ tracked \in Dirs \cup {None} /\ opened \subseteq Dirs /\ elsewhere \in 0..MaxElsewhere

\* Rows look dragged, and a dwell timer can expand a folder, only while a
\* drag is under way, whatever earlier batches do (onDrop, onDragEnd).
DragStateIsLive ==
    /\ draggingIds # {} => gesture.kind \in {"own", "dropped"}
    /\ tracked # None => Moving

\* An entry is replaced only where the option says so, or where the prompt of
\* that very drop was answered so, for the item or for all: an answer never
\* decides another drop that runs at the same time (resolveItemCollision).
ReplacedByConsent ==
    \A hit \in lost :
       \/ collision = "overwrite"
       \/ \E a \in said : a.drop = hit[1] /\ a.policy = "overwrite" /\ (a.item = hit[2] \/ a.all)

(* Expectations the code does not meet. *)

\* A drag of our own rows is dropped as one (isInternalDragRef, "cleared on
\* dragend").
OwnDropIsInternal == \A d \in Drops : drop[d].own => drop[d].op # "import"

\* No row shows as the target when nothing is dragged.
HighlightEnds == gesture.kind = "none" => dropTarget = None

\* One item of a drop does not destroy another.
SourcesSurvive == \A hit \in lost : hit[3] \notin Range(drop[hit[1]].items)
=============================================================================
