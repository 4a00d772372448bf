--------------------------- MODULE TreeNavigation ---------------------------
(***************************************************************************)
(* Expansion, selection, focus and the asynchronous lookups of a FileTree  *)
(* (mille-ui, FileTree.tsx with useFileTreeKeyboard, useTypeahead,         *)
(* useFileTreeSelection, useExpandedSet, useSetExpandedBridge).            *)
(*                                                                         *)
(* The tree is drawn from a deferred snapshot of the engine's mirror of    *)
(* the host's tree.  A handler, the render it causes and the effects of    *)
(* that render are one step (React flushes them before the next event);    *)
(* what is awaited (a host typeahead, a path, a saved navigation state) is *)
(* answered in a later one.  The generation and revision counters are only *)
(* compared for equality, so they are the request they name, or None.      *)
(***************************************************************************)
EXTENDS Naturals, Sequences, FiniteSets, SequencesExt, FiniteSetsExt

CONSTANTS
    Order,          \* the entries, in the order of their rows
    Parent,         \* [entries -> entries \cup {None}]
    Above,          \* [entries -> each with its ancestors]
    Dirs,           \* the folders
    Name,           \* [entries -> sequences of characters]
    Chars,          \* characters typed
    Paths,          \* bound: the entries asked for by path, id or prop
    Saved,          \* navigation states saved earlier
    Budget,         \* rows a typeahead scans itself (512)
    Limit,          \* rows that are mounted
    Requests,       \* requests a behaviour makes
    MaxActs,        \* bound: what the user and the application do
    MaxChanges,     \* bound: entries deleted, listings that fail
    None            \* null

Ids == Range(Order)

ASSUME TreeNavigationAssumption ==
    /\ Dirs \subseteq Ids /\ Paths \subseteq Ids /\ None \notin Ids
    /\ \A i \in Ids : Above[i] = {i} \cup IF Parent[i] = None THEN {} ELSE Above[Parent[i]]
    /\ {Budget, Limit, MaxActs, MaxChanges} \subseteq Nat

VARIABLES
    tree,           \* the host's entries
    version,        \* and their version
    mirror,         \* the engine's snapshot: version, known entries, listed folders, failed listings
    snapshot,       \* the one rendered (useDeferredValue)
    ui,             \* expanded, selected, focused, anchor, pending (pendingRevealRef)
    offset,         \* rows above the mounted ones
    engine,         \* the engine's set of expanded folders
    lastFocused,    \* lastFocusedRef
    buffer, wanted, \* useTypeahead: bufferRef, the lookup of the current generation
    active,         \* the activeEntry prop
    awaited,        \* the resolution of the current revision
    request,        \* what is awaited
    event,          \* history: what the last step made of an answer
    direct,         \* history: folders the engine was asked for while they were shown collapsed
    unseen,         \* history: entries that went while not mounted, or were chosen by an answer
    skipped,        \* history: entries that went without a change of version
    acts, changes

vars == <<tree, version, mirror, snapshot, ui, offset, engine, lastFocused, buffer, wanted, active,
          awaited, request, event, direct, unseen, skipped, acts, changes>>
host == <<tree, version>>
world == <<host, mirror, snapshot>>
lookups == <<buffer, wanted, active, awaited, request>>

NoRequest == [kind |-> "none"]
NoEvent == [kind |-> "none", id |-> None, by |-> None, late |-> "no"]
NoReveal == [id |-> None, focus |-> FALSE, by |-> None, late |-> "no"]

Lineage(id) == Above[id]
Ancestors(id) == Lineage(id) \ {id}
Below(id) == {i \in Ids : id \in Lineage(i)}
Roots == {i \in Ids : Parent[i] = None}

\* snapshot.visibleRows({expanded}): known entries whose folders are expanded and listed.
Rows(snap, exp) ==
    SelectSeq(Order, LAMBDA i : Lineage(i) \subseteq snap.known /\ Ancestors(i) \subseteq exp \cap snap.listed)
Mounted(rows, off) == SubSeq(rows, off + 1, Min({off + Limit, Len(rows)}))
At(rows, id) == IF Contains(rows, id) THEN CHOOSE i \in 1..Len(rows) : rows[i] = id ELSE 0
rows == Rows(snapshot, ui.expanded)

Init ==
    /\ tree = Ids /\ version = 0
    /\ \E listed \in {{}, Dirs} :
          mirror = [version |-> 0, known |-> Roots \cup {i \in Ids : Parent[i] \in listed},
                    listed |-> listed, failed |-> {}]
    /\ snapshot = mirror
    /\ ui = [expanded |-> Roots, selected |-> {}, focused |-> None, anchor |-> None, pending |-> NoReveal]
    /\ offset = 0 /\ engine = Roots /\ lastFocused = None
    /\ buffer = <<>> /\ wanted = None
    /\ active = None /\ awaited = None
    /\ request = [q \in Requests |-> NoRequest]
    /\ event = NoEvent /\ direct = {} /\ unseen = {} /\ skipped = {}
    /\ acts = 0 /\ changes = 0

-----------------------------------------------------------------------------
(* What every render does. *)

\* Of the rows mounted before and after: what is gone of them moves to the
\* nearest row.
Repaired(u, before, after, known) ==
    LET survives == {i \in Ids : Contains(after, i) \/ ~Contains(before, i) \/ i \in known}
        kept == u.selected \cap survives
        moves == u.focused \notin survives \cup {None}
        nearest == IF after = <<>> THEN None ELSE after[Min({Max({At(before, u.focused), 1}), Len(after)})]
        focused == IF moves THEN nearest ELSE u.focused
    IN  [u EXCEPT !.focused = focused,
                  !.selected = IF moves /\ u.focused \in u.selected /\ kept = {} /\ focused # None
                               THEN {focused} ELSE kept,
                  !.anchor = IF @ \in survives \cup {None} THEN @ ELSE focused]

\* mutant: nothing is repaired
ReconciledNot(u, new) == u

\* The layout effect that keeps selection and focus on rows that exist: only
\* when the version moved, and only of entries that were mounted.
Reconciled(u, new) ==
    LET before == Mounted(Rows(snapshot, u.expanded), offset)
        after == Mounted(Rows(new, u.expanded), offset)
    IN  IF snapshot.version = new.version THEN u ELSE Repaired(u, before, after, new.known)

\* mutant: done as soon as the entry is known
PendedKnown(u, snap) ==
    IF u.pending.id = None \/ u.pending.id \notin snap.known THEN u
    ELSE [u EXCEPT !.expanded = @ \cup Ancestors(u.pending.id), !.pending = NoReveal]

\* The layout effect of a pending reveal.
Pended(u, snap) ==
    LET p == u.pending
        opened == [u EXCEPT !.expanded = @ \cup Ancestors(p.id)]
    IN  IF p.id = None THEN u
        ELSE IF p.id \notin snap.known THEN u
        ELSE IF ~Contains(Rows(snap, opened.expanded), p.id) THEN opened
        ELSE [opened EXCEPT !.focused = IF p.focus THEN p.id ELSE @, !.pending = NoReveal]

\* The bridge forwards what changed of the expanded set to the engine.
ForwardedOpen(set, old, new) == set \cup (new \ old)      \* mutant: forgets what was collapsed
Forwarded(set, old, new) == (set \cup (new \ old)) \ (old \ new)

\* A handler has made u of ui: render it on snap, and run the effects.  The
\* engine, at latest, forgets how the folders it is told of failed.
Render(u, snap, latest) ==
    \E settled \in {Pended(Reconciled(u, snap), snap)} :
    LET told == (settled.expanded \ ui.expanded) \cup (ui.expanded \ settled.expanded)
        count == Len(Rows(snap, settled.expanded))
    IN  /\ ui' = settled
        /\ snapshot' = snap
        /\ mirror' = [latest EXCEPT !.failed = @ \ told]
        /\ offset' = Min({offset, IF count > Limit THEN count - Limit ELSE 0})
        /\ engine' = Forwarded(engine, ui.expanded, settled.expanded)
        /\ lastFocused' = IF settled.focused = None THEN lastFocused ELSE settled.focused
        /\ direct' = direct \ told

Landing(u, snap) == IF u.pending.id # None /\ Pended(u, snap).pending.id = None
                    THEN [kind |-> "land", id |-> u.pending.id, by |-> u.pending.by, late |-> u.pending.late] ELSE NoEvent

\* What is pending or awaited was asked for before what the user does now.
Later(late, how) == IF late = "key" THEN late ELSE how
Overtaken(u, how) == IF u.pending.id = None THEN u ELSE [u EXCEPT !.pending.late = Later(@, how)]
Outrun(kinds, how) ==
    [q \in Requests |-> IF request[q].kind \in kinds THEN [request[q] EXCEPT !.late = Later(@, how)] ELSE request[q]]
Kinds == {"typeahead", "path", "active", "restore"}

-----------------------------------------------------------------------------
(* Selection (useFileTreeSelection). *)

selectOne(u, id) == [u EXCEPT !.selected = {id}, !.focused = id, !.anchor = id]
toggle(u, id) ==
    [u EXCEPT !.selected = IF id \in @ THEN @ \ {id} ELSE @ \cup {id}, !.focused = id, !.anchor = id]
selectRange(u, from, to) ==
    LET i == At(rows, from)  j == At(rows, to)
    IN  IF i = 0 \/ j = 0 THEN u
        ELSE [u EXCEPT !.selected = {rows[k] : k \in Min({i, j})..Max({i, j})}, !.focused = to, !.anchor = from]
Toggled(u, id) == [u EXCEPT !.expanded = IF id \in @ THEN @ \ {id} ELSE @ \cup {id}]

(* Reveal: closed over the snapshot and the expansion of a render. *)

revealResolvedId(u, id, focus, by, seen, latest) ==
    LET reveal == [id |-> id, focus |-> focus, by |-> by, late |-> "no"]
        focusing == [u EXCEPT !.focused = IF focus THEN id ELSE @]
    IN  IF id \in seen.snapshot.known
        THEN IF ~(Ancestors(id) \subseteq seen.expanded)
             THEN [focusing EXCEPT !.pending = reveal, !.expanded = @ \cup Ancestors(id)]
             ELSE IF Contains(Rows(seen.snapshot, seen.expanded), id)
             THEN [focusing EXCEPT !.pending = NoReveal]
             ELSE [focusing EXCEPT !.pending = reveal]
        ELSE [u EXCEPT !.pending = reveal,
                       !.expanded = IF id \in latest.known THEN @ \cup Ancestors(id) ELSE @]

Now == [snapshot |-> snapshot, expanded |-> ui.expanded]

-----------------------------------------------------------------------------
(* The keyboard. *)

\* mutant: the generation is not advanced
resetBuffer == buffer' = <<>> /\ UNCHANGED wanted

\* A named key leaves typeahead mode, so that a slower answer cannot steal focus.
reset == buffer' = <<>> /\ wanted' = None

UserActs == acts < MaxActs /\ acts' = acts + 1

Handled(u, how) ==
    /\ UserActs
    /\ Render(Overtaken(u, how), snapshot, mirror)
    /\ event' = NoEvent /\ request' = Outrun(Kinds, how)
    /\ UNCHANGED <<host, active, awaited, unseen, skipped, changes>>

Key(u) == rows # <<>> /\ Handled(u, "key") /\ reset

at == At(rows, ui.focused)
Targets == {rows[Min({at + 1, Len(rows)})], rows[Max({at - 1, 1})], rows[1], rows[Len(rows)]}

\* Arrows, Home, End; with Shift the range from the anchor.
Cursor == \E id \in Targets : Key(selectOne(ui, id))
Extend ==
    \E id \in Targets :
        LET from == IF ui.anchor # None THEN ui.anchor ELSE ui.focused
        IN  Key(IF from = None THEN selectOne(ui, id) ELSE selectRange(ui, from, id))

ExpandOrChild ==
    /\ at # 0 /\ ui.focused \in Dirs
    /\ IF ui.focused \notin ui.expanded THEN Key(Toggled(ui, ui.focused))
       ELSE /\ at < Len(rows) /\ Parent[rows[at + 1]] = ui.focused
            /\ Key(selectOne(ui, rows[at + 1]))

CollapseOrParent ==
    /\ at # 0
    /\ IF ui.focused \in Dirs \cap ui.expanded THEN Key(Toggled(ui, ui.focused))
       ELSE Parent[ui.focused] # None /\ Key(selectOne(ui, Parent[ui.focused]))

Space == ui.focused # None /\ Key(toggle(ui, ui.focused))
SelectAll == Key([ui EXCEPT !.selected = Range(rows)])
Escape == Key([ui EXCEPT !.selected = {}])

\* A printable key: the row after the focused one, round the rows.
Matches(list, from, buf) ==
    LET start == IF Len(buf) = 1 THEN At(list, from) ELSE Max({At(list, from), 1}) - 1
        Nth(k) == list[((start + k - 1) % Len(list)) + 1]
    IN  SelectSeq([k \in 1..Len(list) |-> Nth(k)], LAMBDA i : IsPrefix(buf, Name[i]))
Scanned(list, from, buf) ==
    LET start == IF Len(buf) = 1 THEN At(list, from) ELSE Max({At(list, from), 1}) - 1
        near == [k \in 1..Min({Budget, Len(list)}) |-> list[((start + k - 1) % Len(list)) + 1]]
    IN  SelectSeq(near, LAMBDA i : IsPrefix(buf, Name[i]))

Idle(q) == request[q].kind = "none" /\ \A p \in Requests : request[p].kind = "none" => q <= p

Type(c) ==
    LET buf == Append(buffer, c)
        near == Scanned(rows, ui.focused, buf)
        outrun == Outrun({"typeahead"}, "key")
    IN  /\ UserActs /\ rows # <<>>
        /\ buffer' = buf
        /\ event' = NoEvent
        /\ \/ /\ near # <<>>
              /\ wanted' = None /\ request' = outrun
              /\ Render(revealResolvedId(selectOne(ui, near[1]), near[1], TRUE, "typeahead", Now, mirror),
                        snapshot, mirror)
           \/ /\ near = <<>> /\ Len(rows) > Budget
              /\ \E q \in Requests :
                    /\ Idle(q) /\ wanted' = q
                    /\ request' = [outrun EXCEPT ![q] =
                          [kind |-> "typeahead", prefix |-> buf, from |-> ui.focused,
                           expanded |-> ui.expanded, late |-> "no"]]
              /\ UNCHANGED <<mirror, snapshot, ui, offset, engine, lastFocused, direct>>
           \/ /\ near = <<>> /\ Len(rows) <= Budget      \* no row begins so
              /\ wanted' = None /\ request' = outrun
              /\ UNCHANGED <<mirror, snapshot, ui, offset, engine, lastFocused, direct>>
        /\ UNCHANGED <<host, active, awaited, unseen, skipped, changes>>

\* 500 ms without a key.
TypeaheadTimeout ==
    /\ buffer # <<>>
    /\ reset
    /\ request' = Outrun({"typeahead"}, "key")
    /\ event' = NoEvent
    /\ UNCHANGED <<world, ui, offset, engine, lastFocused, active, awaited, direct, unseen, skipped, acts, changes>>

-----------------------------------------------------------------------------
(* The pointer and the application. *)

Pointed(u) == Handled(u, "pointer") /\ UNCHANGED <<buffer, wanted>>

Click ==
    \E id \in Range(Mounted(rows, offset)) :
        \/ Pointed(IF id \in Dirs THEN Toggled(selectOne(ui, id), id) ELSE selectOne(ui, id))
        \/ Pointed(toggle(ui, id))
        \/ LET from == CHOOSE i \in {ui.anchor, ui.focused, id} : \/ i = ui.anchor /\ i # None
                                                                  \/ ui.anchor = None /\ i = ui.focused /\ i # None
                                                                  \/ ui.anchor = None /\ ui.focused = None /\ i = id
           IN  Pointed(selectRange(ui, from, id))
Chevron == \E id \in Range(Mounted(rows, offset)) \cap Dirs : Pointed(Toggled(ui, id))
RowFocus == \E id \in Range(Mounted(rows, offset)) \ {ui.focused} : Pointed([ui EXCEPT !.focused = id])
ContainerFocus ==
    /\ ui.focused = None /\ rows # <<>>
    /\ Pointed([ui EXCEPT !.focused = IF Contains(rows, lastFocused) THEN lastFocused ELSE rows[1]])

\* fx.setExpanded({add}), past the tree's own set and the bridge.
AskEngine(ids) ==
    /\ UserActs
    /\ engine' = engine \cup ids
    /\ mirror' = [mirror EXCEPT !.failed = @ \ ids]
    /\ direct' = direct \cup (ids \ ui.expanded)
    /\ event' = NoEvent
    /\ UNCHANGED <<host, snapshot, ui, offset, lastFocused, lookups, unseen, skipped, changes>>

\* The badge of a row whose listing failed; a drag that dwells on a folder; the
\* command tree.revealPath.
Retry == \E d \in Range(Mounted(rows, offset)) \cap snapshot.failed : AskEngine({d})
Dwell == \E d \in Range(Mounted(rows, offset)) \cap Dirs : AskEngine({d})
RevealCommand(id) == id \in snapshot.known /\ Ancestors(id) # {} /\ AskEngine(Ancestors(id))

\* The wheel, and the browser.
Scroll(off) ==
    /\ off # offset /\ off + Limit <= Len(rows)
    /\ offset' = off /\ event' = NoEvent
    /\ UNCHANGED <<world, ui, engine, lastFocused, lookups, direct, unseen, skipped, acts, changes>>

\* FileTreeRef: collapseAll, expand.
CollapseAll == Pointed([ui EXCEPT !.expanded = {}])
Expand == \E d \in Dirs : Pointed([ui EXCEPT !.expanded = @ \cup {d}])

\* FileTreeRef.revealId, of an entry the rendered tree knows.
revealId(id) ==
    /\ UserActs
    /\ id \in snapshot.known
    /\ LET u == revealResolvedId(ui, id, TRUE, "api", Now, mirror)
       IN  Render(u, snapshot, mirror) /\ event' = Landing(u, snapshot)
    /\ UNCHANGED <<host, lookups, unseen, skipped, changes>>

-----------------------------------------------------------------------------
(* What is awaited. *)

\* FileTreeRef.revealPath keeps the callbacks of the render it was called in.
RevealPath(q, id) ==
    /\ UserActs /\ Idle(q)
    /\ request' = [request EXCEPT ![q] = [kind |-> "path", id |-> id, seen |-> Now, late |-> "no"]]
    /\ event' = NoEvent
    /\ UNCHANGED <<world, ui, offset, engine, lastFocused, buffer, wanted, active, awaited, direct, unseen, skipped, changes>>

\* The activeEntry prop names a path, or nothing.
Activate(q, id) ==
    /\ UserActs /\ id # active
    /\ active' = id
    /\ IF id = None THEN awaited' = None /\ UNCHANGED request
       ELSE /\ Idle(q)
            /\ request' = [request EXCEPT ![q] = [kind |-> "active", id |-> id, late |-> "no"]]
            /\ awaited' = q
    /\ ui' = IF ui.pending.by = "active" THEN Overtaken(ui, "pointer") ELSE ui
    /\ event' = NoEvent
    /\ UNCHANGED <<world, offset, engine, lastFocused, buffer, wanted, direct, unseen, skipped, changes>>

\* FileTreeRef.restoreNavigationState, and the initial one.
Restore(q, saved) ==
    /\ UserActs /\ Idle(q)
    /\ request' = [request EXCEPT ![q] = [kind |-> "restore", saved |-> saved, late |-> "no"]]
    /\ event' = NoEvent
    /\ UNCHANGED <<world, ui, offset, engine, lastFocused, buffer, wanted, active, awaited, direct, unseen, skipped, changes>>

\* An answer hydrates the entries from the target to the root, at the host's version.
Hydrated(ids) ==
    IF ids = {} THEN mirror
    ELSE [mirror EXCEPT !.known = @ \cup UNION {Lineage(i) : i \in ids}, !.version = version]

Answered(q, kind, ids) ==
    /\ request[q].kind = kind
    /\ request' = [request EXCEPT ![q] = NoRequest]
    /\ unseen' = unseen \cup (ids \ snapshot.known)
    /\ UNCHANGED <<host, buffer, active, skipped, acts, changes>>

Dropped(ids) ==
    /\ event' = NoEvent /\ mirror' = Hydrated(ids)
    /\ UNCHANGED <<snapshot, ui, offset, engine, lastFocused, direct>>

AnswerTypeahead(q) ==
    LET r == request[q]
        found == Matches(Rows([known |-> tree, listed |-> Dirs], r.expanded), r.from, r.prefix)
        id == found[1]
    IN  /\ Answered(q, "typeahead", IF found = <<>> THEN {} ELSE {id})
        /\ \/ (found = <<>> \/ wanted # q) /\ Dropped(IF found = <<>> THEN {} ELSE {id})
           \/ /\ found # <<>> /\ wanted = q
              /\ Render(revealResolvedId(selectOne(ui, id), id, TRUE, "typeahead", Now, Hydrated({id})),
                        snapshot, Hydrated({id}))
              /\ event' = [kind |-> "match", id |-> id, by |-> "typeahead", late |-> r.late]
        /\ wanted' = IF wanted = q THEN None ELSE wanted
        /\ UNCHANGED awaited

AnswerPath(q) ==
    LET r == request[q]
        ids == {r.id} \cap tree
        u == revealResolvedId(ui, r.id, TRUE, "api", r.seen, Hydrated(ids))
    IN  /\ Answered(q, "path", ids)
        /\ \/ ids = {} /\ Dropped(ids)
           \/ /\ ids # {} /\ Render(u, snapshot, Hydrated(ids))
              /\ event' = IF u.pending.id = None THEN [kind |-> "land", id |-> r.id, by |-> "path", late |-> r.late]
                          ELSE Landing(u, snapshot)
        /\ UNCHANGED <<wanted, awaited>>

\* Only the resolution of the current revision is reported; a missing entry is not revealed.
AnswerActive(q) ==
    LET r == request[q]
        ids == {r.id} \cap tree
        u == IF ids = {} THEN ui ELSE revealResolvedId(ui, r.id, FALSE, "active", Now, Hydrated(ids))
    IN  /\ Answered(q, "active", {})
        /\ \/ awaited # q /\ Dropped(ids) /\ UNCHANGED awaited
           \/ /\ awaited = q /\ awaited' = None
              /\ Render(u, snapshot, Hydrated(ids))
              /\ event' = [kind |-> "active", id |-> r.id, by |-> "active", late |-> "no"]
        /\ UNCHANGED wanted

AnswerRestore(q) ==
    LET r == request[q]
        focused == IF r.saved.focused \in tree THEN r.saved.focused ELSE None
        expanded == r.saved.expanded \cap tree
        selected == r.saved.selected \cap tree
        ids == expanded \cup selected \cup ({focused} \ {None})
    IN  /\ Answered(q, "restore", ids)
        /\ Render([ui EXCEPT !.expanded = expanded, !.selected = selected, !.focused = focused, !.anchor = focused],
                  snapshot, Hydrated(ids))
        /\ event' = [kind |-> "restore", id |-> None, by |-> "restore", late |-> r.late]
        /\ UNCHANGED <<wanted, awaited>>

-----------------------------------------------------------------------------
(* The host and the engine's mirror (external). *)

Change == changes < MaxChanges /\ changes' = changes + 1 /\ event' = NoEvent
NoUi == UNCHANGED <<snapshot, ui, offset, lastFocused, lookups, direct, unseen, skipped, acts>>

Delete(id) ==
    /\ Change /\ id \in tree \ Roots
    /\ tree' = tree \ Below(id) /\ version' = version + 1
    /\ NoUi /\ UNCHANGED <<mirror, engine>>

\* A delta; with the listing of an expanded folder when it loads.
Delta(listed) ==
    /\ mirror' = [mirror EXCEPT !.version = version, !.listed = @ \cup listed,
                                !.known = (@ \cap tree) \cup {i \in tree : Parent[i] \in listed}]
    /\ engine' = engine \ (mirror.known \ tree)
    /\ event' = NoEvent
    /\ NoUi /\ UNCHANGED <<host, changes>>

Deliver == ~(mirror.known \subseteq tree) /\ Delta({})
Loading(d) == d \in engine \cap mirror.known \cap tree /\ d \notin mirror.listed \cup mirror.failed
List(d) == Loading(d) /\ Delta({d})

ListFails(d) ==
    /\ Change /\ Loading(d)
    /\ mirror' = [mirror EXCEPT !.failed = @ \cup {d}]
    /\ NoUi /\ UNCHANGED <<host, engine>>

\* setViewport is answered with the window's rows at the host's version.
Viewport ==
    /\ mirror.version # version
    /\ mirror' = [mirror EXCEPT !.version = version]
    /\ event' = NoEvent
    /\ NoUi /\ UNCHANGED <<host, engine, changes>>

\* React renders the deferred snapshot.
Draw ==
    LET gone == snapshot.known \ mirror.known IN
    /\ snapshot # mirror
    /\ Render(ui, mirror, mirror)
    /\ event' = Landing(ui, mirror)
    /\ unseen' = unseen \cup (gone \ Range(Mounted(rows, offset)))
    /\ skipped' = skipped \cup IF mirror.version = snapshot.version THEN gone ELSE {}
    /\ UNCHANGED <<host, lookups, acts, changes>>

Next ==
    \/ Cursor \/ Extend \/ ExpandOrChild \/ CollapseOrParent \/ Space \/ SelectAll \/ Escape
    \/ (\E c \in Chars : Type(c)) \/ TypeaheadTimeout
    \/ Click \/ Chevron \/ RowFocus \/ ContainerFocus \/ Retry \/ Dwell
    \/ (\E off \in 0..Len(Order) : Scroll(off))
    \/ CollapseAll \/ Expand \/ (\E id \in Paths : revealId(id) \/ RevealCommand(id))
    \/ (\E q \in Requests :
          \/ (\E id \in Paths : RevealPath(q, id))
          \/ (\E id \in Paths \cup {None} : Activate(q, id))
          \/ (\E saved \in Saved : Restore(q, saved))
          \/ AnswerTypeahead(q) \/ AnswerPath(q) \/ AnswerActive(q) \/ AnswerRestore(q))
    \/ (\E id \in Ids : Delete(id)) \/ Deliver
    \/ (\E d \in Dirs : List(d) \/ ListFails(d))
    \/ Viewport \/ Draw

Spec == Init /\ [][Next]_vars

-----------------------------------------------------------------------------
(* Properties. *)

TypeOK ==
    /\ tree \subseteq Ids /\ version \in Nat
    /\ \A m \in {mirror, snapshot} : m.known \subseteq Ids /\ m.listed \cup m.failed \subseteq Dirs
    /\ ui.expanded \cup ui.selected \subseteq Ids
    /\ {ui.focused, ui.anchor, lastFocused} \subseteq Ids \cup {None}
    /\ engine \subseteq Ids /\ offset \in Nat
    /\ wanted \in Requests \cup {None} /\ awaited \in Requests \cup {None}

(* A typeahead match is applied only while its letters are the last key    *)
(* pressed, and the active entry reported is the one the application names *)
(* now (requestGenerationRef, activeResolutionRevisionRef).                *)
AnswerIsWanted ==
    /\ event.kind = "match" => event.late # "key"
    /\ event.kind = "active" => event.id = active

(* A reveal that counts as done shows its row; only revealPath, which ends *)
(* on the render it was called in, can miss what the user did meanwhile.   *)
RevealShows ==
    event.kind = "land" /\ (event.by = "path" => event.late = "no") => Contains(rows, event.id)

(* Focus and selection name an entry the tree no longer has only when it   *)
(* went while it was not mounted, or the version had moved before it, or   *)
(* it was chosen by an answer (Reconciled).                                *)
FocusIsReal ==
    ({ui.focused, ui.anchor} \cup ui.selected) \ {None} \subseteq snapshot.known \cup unseen \cup skipped

(* The engine loads the folders the tree shows expanded, unless they were  *)
(* deleted, and no others, unless it was asked for them past the tree's own *)
(* set while they were shown collapsed: by a retry, by a drag that dwelt on *)
(* them, by the reveal command.                                            *)
EngineFollows ==
    /\ engine \ ui.expanded \subseteq direct
    /\ ui.expanded \ engine \subseteq Ids \ mirror.known

-----------------------------------------------------------------------------
(* What the code does not do. *)

(* FileTree.tsx:444: "a deleted mounted focus repairs to the nearest row". *)
MountedFocusIsRepaired ==
    ({ui.focused, ui.anchor} \cup ui.selected) \ {None} \subseteq snapshot.known \cup unseen

(* useFileTreeKeyboard.ts:472: a named key "invalidates a slower host      *)
(* fallback so it cannot steal focus after the new action".                *)
NothingStealsFocus == event.by = "typeahead" => event.late # "key"

(* The same of the pointer. *)
NothingStealsFromPointer == event.kind = "match" => event.late = "no"

(* revealPath shows its row, whatever the user did while it resolved. *)
RevealAlwaysShows == event.kind = "land" => Contains(rows, event.id)

(* useAutoExpandDwell.ts:2: "When the user drags a row and hovers over a   *)
(* collapsed folder, the tree auto-expands that folder".  The engine is    *)
(* told, and lists it; the tree, which draws from its own set, is not.     *)
EngineFollowsAlways == engine \subseteq ui.expanded
=============================================================================
