----------------------------- MODULE MirrorSync -----------------------------
(***************************************************************************)
(* What a window shows of the tree.  The native store publishes a new      *)
(* snapshot and, in a second step, records what changed in the pending     *)
(* ChangeSet (store.rs).  The host's tick drains the ChangeSet, reads the  *)
(* then current snapshot and sends the session the part of it that the     *)
(* session is looking at: records of ids it knows, complete child lists of *)
(* folders it has expanded, rows that entered its viewport (host.ts,       *)
(* delta.ts).  The client merges that into a bounded mirror and rebuilds   *)
(* the rest from what it holds (mirror-reducer.ts).                        *)
(*                                                                         *)
(* One session whose window has the workspace root expanded.  The tree is  *)
(* the root, folders in it, and files in either.  A record is its parent,  *)
(* its name (a rank) and its mtime.  Sessions that come and go, and load   *)
(* tasks, are DirectoryLoads; versions and acknowledgements are HostAcks.  *)
(***************************************************************************)
EXTENDS Naturals, FiniteSets, SequencesExt

CONSTANTS
    Dirs, Files,   \* ids (numbers) the store may hand out; folders sort first
    Limit,         \* rows of a viewport window, overscan included
    Offsets,       \* where the window may start
    Cap,           \* mirrorCap, the root's record not counted
    ByModified,    \* sortBy is "modified" instead of "name"
    MaxSteps       \* bound: changes of the tree and requests of the window

Root == 0
Ids == Dirs \cup Files
Parents == Dirs \cup {Root}
Names == {0} \cup Files   \* ranks; an entry is made with its id for a name

VARIABLES
    tree,      \* the published snapshot
    fresh,     \* ids not handed out yet
    writing,   \* what the writer that holds write_lock has still to record
    changes,   \* pending_changes
    steps,     \* changes and requests so far
    sess,      \* the host's Session
    loading,   \* folders this session waits for a load task of
    js,        \* where the host's thread is between two reads of native state
    toHost, toClient,
    mirror,    \* MirrorWorking
    raced      \* history: a cached expansion overtook a change, see CachedReply

native == <<tree, fresh, writing>>
vars == <<native, changes, steps, sess, loading, js, toHost, toClient, mirror, raced>>

Record == [parent : Parents, name : Names \cup Ids, mtime : 0..MaxSteps]
Partial(D, R) == UNION {[S -> R] : S \in SUBSET D}
Change == [ids : SUBSET Ids, sets : SUBSET Parents, to : 0..MaxSteps]
NoChange == [ids |-> {}, sets |-> {}, to |-> 0]

-----------------------------------------------------------------------------
(* Reading a snapshot *)

Kids(t, p) == {i \in DOMAIN t.nodes : t.nodes[i].parent = p}

\* SiblingOrder::compare: folders first, then newest or by name.
Before(t, i, j) ==
    LET a == t.nodes[i]  b == t.nodes[j]
    IN  IF (i \in Dirs) # (j \in Dirs) THEN i \in Dirs
        ELSE IF ByModified /\ a.mtime # b.mtime THEN a.mtime > b.mtime
        ELSE a.name < b.name

Sorted(S, Precedes(_, _)) ==
    [k \in 1..Cardinality(S) |->
        CHOOSE i \in S : Cardinality({j \in S : Precedes(j, i)}) = k - 1]

ChildList(t, p) == Sorted(Kids(t, p), LAMBDA i, j : Before(t, i, j))

\* projectedChildCount: only a listed folder has one.
Counts(t, P) == [p \in P \cap t.loaded |-> Cardinality(Kids(t, p))]

\* visible_rows, in display order.
VisibleRows(t, expanded) ==
    LET list == ChildList(t, Root)
        block(i) == <<i>> \o (IF i \in expanded THEN ChildList(t, i) ELSE <<>>)
    IN  <<Root>> \o FlattenSeq([k \in DOMAIN list |-> block(list[k])])

Window(rows, offset) == {rows[k] : k \in DOMAIN rows \cap (offset + 1 .. offset + Limit)}

-----------------------------------------------------------------------------
(* The native store: publish under write_lock, then record *)

Init ==
    /\ \E in \in Partial(Ids, Parents) :
         LET nodes == [i \in DOMAIN in |-> [parent |-> in[i], name |-> i, mtime |-> 0]] IN
         /\ \A i \in DOMAIN in : in[i] \in {Root} \cup (DOMAIN in \cap Dirs)
         /\ \A d \in DOMAIN in \cap Dirs : in[d] = Root
         /\ \E listed \in SUBSET (DOMAIN nodes \cap Dirs) :
              tree = [nodes |-> nodes, loaded |-> {Root} \cup listed, version |-> 0]
         /\ fresh = Ids \ DOMAIN nodes
    /\ writing = NoChange /\ changes = NoChange /\ steps = 0
    /\ LET rows == Window(VisibleRows(tree, {Root}), 0)
       IN  /\ sess = [expanded |-> {Root}, known |-> rows, rows |-> rows, offset |-> 0]
           /\ mirror = [byId |-> [i \in rows \cap Ids |-> tree.nodes[i]],
                        lists |-> [p \in {Root} |-> ChildList(tree, Root)],
                        ordered |-> {Root},
                        counts |-> Counts(tree, rows),
                        expanded |-> {Root}, rows |-> rows]
    /\ loading = {} /\ js = [pc |-> "idle"] /\ raced = FALSE
    /\ toHost = <<>> /\ toClient = <<>>

Publish(nodes, loaded, ids, sets) ==
    /\ writing = NoChange /\ steps < MaxSteps
    /\ steps' = steps + 1
    /\ tree' = [nodes |-> nodes, loaded |-> loaded, version |-> tree.version + 1]
    /\ writing' = [ids |-> ids, sets |-> sets, to |-> tree.version + 1]
    /\ UNCHANGED <<changes, sess, loading, js, toHost, toClient, mirror, raced>>

\* path_to_id: two entries never have one path.
Free(p, n) == \A j \in Kids(tree, p) : tree.nodes[j].name # n

Insert(i, p) ==
    /\ i \in fresh /\ p \in {Root} \cup (DOMAIN tree.nodes \cap Dirs) /\ Free(p, i)
    /\ i \in Dirs => p = Root
    /\ fresh' = fresh \ {i}
    /\ Publish([j \in DOMAIN tree.nodes \cup {i} |->
                   IF j = i THEN [parent |-> p, name |-> i, mtime |-> 0] ELSE tree.nodes[j]],
               tree.loaded, {i}, {p})

\* remove_subtree
RemoveSubtree(i) ==
    LET gone == {i} \cup Kids(tree, i)
    IN  /\ i \in DOMAIN tree.nodes
        /\ Publish([j \in DOMAIN tree.nodes \ gone |-> tree.nodes[j]],
                   tree.loaded \ gone, gone, {tree.nodes[i].parent})
        /\ UNCHANGED fresh

\* A new mtime re-sorts the siblings when that is the order.
Update(i) ==
    /\ i \in DOMAIN tree.nodes
    /\ Publish([tree.nodes EXCEPT ![i].mtime = @ + 1], tree.loaded, {i}, {})
    /\ UNCHANGED fresh

\* A move that announces only where the file went.
RenameUnlisted(i, p, n) ==
    /\ i \in DOMAIN tree.nodes \cap Files
    /\ p \in {Root} \cup (DOMAIN tree.nodes \cap Dirs)
    /\ Free(p, n)
    /\ Publish([tree.nodes EXCEPT ![i].parent = p, ![i].name = n], tree.loaded, {i}, {p})
    /\ UNCHANGED fresh

\* In its folder, or out of it into another, to a path nobody has.
Rename(i, p, n) ==
    /\ i \in DOMAIN tree.nodes \cap Files
    /\ p \in {Root} \cup (DOMAIN tree.nodes \cap Dirs)
    /\ Free(p, n)
    /\ Publish([tree.nodes EXCEPT ![i].parent = p, ![i].name = n], tree.loaded,
               {i}, {p, tree.nodes[i].parent})
    /\ UNCHANGED fresh

\* mark_directories_children_loaded
MarkLoaded(d) ==
    /\ d \in (DOMAIN tree.nodes \cap Dirs) \ tree.loaded
    /\ Publish(tree.nodes, tree.loaded \cup {d}, {}, {d})
    /\ UNCHANGED fresh

RecordMutation ==
    /\ writing # NoChange
    /\ changes' = [ids |-> changes.ids \cup writing.ids,
                   sets |-> changes.sets \cup writing.sets, to |-> writing.to]
    /\ writing' = NoChange
    /\ UNCHANGED <<tree, fresh, steps, sess, loading, js, toHost, toClient, mirror, raced>>

-----------------------------------------------------------------------------
(* The host *)

\* collectViewportPatch: the rows of the window; those it did not have before
\* with their records.
PatchRows(t, s) == Window(VisibleRows(t, s.expanded), s.offset)

Patched(t, s) == [s EXCEPT !.known = @ \cup PatchRows(t, s), !.rows = PatchRows(t, s)]

Delta(t, s, ids, sets, listed, removed) ==
    LET rows == PatchRows(t, s)
        sent == (ids \cup (rows \ s.rows)) \cap DOMAIN t.nodes
    IN  [entries |-> [i \in sent |-> t.nodes[i]],
         sets |-> sets,
         lists |-> [p \in listed |-> ChildList(t, p)],
         counts |-> Counts(t, ids \cup sets \cup rows),
         removed |-> removed,
         rows |-> rows]

\* A filter on what the session shows, not on what it holds.
InterestingIfShown(c, s) ==
    [ids |-> c.ids \cap s.rows, sets |-> c.sets \cap (s.expanded \cup s.known)]

\* computeSessionDelta
Interesting(c, s) ==
    [ids |-> c.ids \cap s.known, sets |-> c.sets \cap (s.expanded \cup s.known)]

TickSend(c, t) ==
    LET d == Interesting(c, sess)
        removed == d.ids \ DOMAIN t.nodes
        s == [sess EXCEPT !.known = @ \ removed]
    IN  IF c.ids = {} /\ c.sets = {}
        THEN UNCHANGED <<sess, toClient>>
        ELSE /\ toClient' = Append(toClient,
                    Delta(t, s, d.ids \ removed, d.sets, d.sets \cap s.expanded, removed))
             /\ sess' = Patched(t, s)

\* tick: takePendingChanges and getSnapshot are two reads of native state.
TickTake ==
    /\ js.pc = "idle" /\ changes # NoChange
    /\ js' = [pc |-> "tick", taken |-> changes]
    /\ changes' = NoChange
    /\ UNCHANGED <<native, steps, sess, loading, toHost, toClient, mirror, raced>>

TickFanOut ==
    /\ js.pc = "tick"
    /\ TickSend(js.taken, tree)
    /\ js' = [pc |-> "idle"]
    /\ UNCHANGED <<native, changes, steps, loading, toHost, mirror, raced>>

\* The delta that answers an expansion, from snapshot t: the lists of the
\* folders added, unless nothing is known of them yet.
ExpansionReply(t, s, add) ==
    LET listed == {p \in add : Kids(t, p) # {} \/ p \in t.loaded}
    IN  Delta(t, s, {}, listed, listed, {})

Replies(t, s, add) ==
    /\ toClient' = Append(toClient, ExpansionReply(t, s, add))
    /\ sess' = Patched(t, s)

\* handleSetExpanded.  A folder that is listed already is flushed first, by a
\* tick between the read of the snapshot and its use; for one that is not, a
\* load task is joined.
SetExpanded ==
    /\ js.pc = "idle" /\ toHost # <<>> /\ "add" \in DOMAIN Head(toHost)
    /\ toHost' = Tail(toHost)
    /\ LET r == Head(toHost)
           s == [sess EXCEPT !.expanded = (@ \cup r.add) \ r.remove]
           cached == {d \in r.add \cap DOMAIN tree.nodes : d \in tree.loaded}
       IN  /\ loading' = (loading \ r.remove) \cup ((r.add \cap DOMAIN tree.nodes) \ cached)
           /\ IF cached = {}
              THEN Replies(tree, s, r.add) /\ UNCHANGED js
              ELSE /\ sess' = s
                   /\ js' = [pc |-> "cached", snap |-> tree, add |-> r.add]
                   /\ UNCHANGED toClient
    /\ UNCHANGED <<native, changes, steps, mirror, raced>>

CachedTake ==
    /\ js.pc = "cached"
    /\ js' = [pc |-> "flush", snap |-> js.snap, add |-> js.add, taken |-> changes]
    /\ changes' = NoChange
    /\ raced' = (raced \/ changes.to > js.snap.version)
    /\ UNCHANGED <<native, steps, sess, loading, toHost, toClient, mirror>>

CachedFanOut ==
    /\ js.pc = "flush"
    /\ TickSend(js.taken, tree)
    /\ js' = [pc |-> "reply", snap |-> js.snap, add |-> js.add]
    /\ UNCHANGED <<native, changes, steps, loading, toHost, mirror, raced>>

\* ... and then the lists and rows of the snapshot read before that tick.
CachedReply ==
    /\ js.pc = "reply"
    /\ Replies(js.snap, sess, js.add)
    /\ js' = [pc |-> "idle"]
    /\ UNCHANGED <<native, changes, steps, loading, toHost, mirror, raced>>

\* The load task's end: handleSetExpanded again, without starting a load.
FinishLoad(d) ==
    /\ js.pc = "idle" /\ d \in loading \cap tree.loaded
    /\ loading' = loading \ {d}
    /\ Replies(tree, sess, {d})
    /\ UNCHANGED <<native, changes, steps, js, toHost, mirror, raced>>

\* handleSetViewport
SetViewport ==
    /\ js.pc = "idle" /\ toHost # <<>> /\ "offset" \in DOMAIN Head(toHost)
    /\ toHost' = Tail(toHost)
    /\ LET s == [sess EXCEPT !.offset = Head(toHost).offset]
       IN  /\ toClient' = Append(toClient, Delta(tree, s, {}, {}, {}, {}))
           /\ sess' = Patched(tree, s)
    /\ UNCHANGED <<native, changes, steps, loading, js, mirror, raced>>

-----------------------------------------------------------------------------
(* The client *)

Ask(r) ==
    /\ steps < MaxSteps
    /\ steps' = steps + 1
    /\ toHost' = Append(toHost, r)
    /\ UNCHANGED <<native, changes, sess, loading, js, toClient, raced>>

Expand(d) ==
    /\ d \in DOMAIN mirror.byId \ mirror.expanded
    /\ mirror' = [mirror EXCEPT !.expanded = @ \cup {d}]
    /\ Ask([add |-> {d}, remove |-> {}])

Collapse(d) ==
    /\ d \in mirror.expanded
    /\ mirror' = [mirror EXCEPT !.expanded = @ \ {d}]
    /\ Ask([add |-> {}, remove |-> {d}])

Scroll(offset) ==
    /\ UNCHANGED mirror
    /\ Ask([offset |-> offset])

Without(f, S) == [x \in DOMAIN f \ S |-> f[x]]
Over(f, g) == [x \in DOMAIN f \cup DOMAIN g |-> IF x \in DOMAIN f THEN f[x] ELSE g[x]]

\* sortChildrenByName: the order the client gives a list it made itself.
\* A record it does not hold counts as a file without a name.
ByName(byId, S) ==
    LET rank(i) == IF i \in DOMAIN byId THEN byId[i].name ELSE 0
        dir(i) == i \in Dirs \cap DOMAIN byId
    IN  Sorted(S, LAMBDA i, j : IF dir(i) # dir(j) THEN dir(i)
                                ELSE IF rank(i) # rank(j) THEN rank(i) < rank(j) ELSE i < j)

\* Its own list of a parent's children: those it holds.
Held(byId, p) == ByName(byId, {i \in DOMAIN byId : byId[i].parent = p})

\* Parents without an incoming list whose children moved.
ToRebuild(m, f) ==
    LET moved == {i \in DOMAIN f.entries \cap DOMAIN m.byId :
                    f.entries[i].parent # m.byId[i].parent}
        new == (DOMAIN f.entries \ DOMAIN m.byId) \ f.rows
        gone == f.removed \cap DOMAIN m.byId
    IN  (f.sets \ DOMAIN f.lists)
          \cup {f.entries[i].parent : i \in moved \cup new}
          \cup {m.byId[i].parent : i \in moved \cup gone}

\* Taking "I hold none of its children" for "it has none".
MergedKnowingAll(m, f) ==
    LET byId == Without(Over(f.entries, m.byId), f.removed)
        own == [p \in ToRebuild(m, f) |-> Held(byId, p)]
    IN  [byId |-> byId,
         lists |-> Over(f.lists, Over(own, Without(m.lists, f.removed))),
         ordered |-> (m.ordered \ f.removed) \cup DOMAIN f.lists,
         counts |-> Over(f.counts, Without(m.counts, f.removed)),
         expanded |-> m.expanded \ f.removed,
         rows |-> f.rows \ f.removed]

Merged(m, f) ==
    LET byId == Without(Over(f.entries, m.byId), f.removed)
        rebuild == ToRebuild(m, f)
        own == [p \in {q \in rebuild : Held(byId, q) # <<>>} |-> Held(byId, p)]
    IN  [byId |-> byId,
         lists |-> Over(f.lists, Over(own, Without(m.lists, f.removed \cup rebuild))),
         ordered |-> (m.ordered \ (f.removed \cup rebuild)) \cup DOMAIN f.lists,
         counts |-> Over(f.counts, Without(m.counts, f.removed)),
         expanded |-> m.expanded \ f.removed,
         rows |-> f.rows \ f.removed]

\* evictToCap: the longest untouched of the records that are neither
\* expanded nor in the viewport; which those are is left open.
Evictable(m) ==
    LET idle == DOMAIN m.byId \ (m.expanded \cup m.rows)
        full(E) == Cardinality(DOMAIN m.byId \ E) > Cap
    IN  {E \in SUBSET idle : /\ full(E) => E = idle
                             /\ \A i \in E : full(E \ {i})}

\* applyDelta
ApplyDelta ==
    /\ toClient # <<>>
    /\ toClient' = Tail(toClient)
    /\ LET m == Merged(mirror, Head(toClient))
       IN  \E E \in Evictable(m) :
             mirror' = [m EXCEPT !.byId = Without(@, E), !.lists = Without(@, E),
                                 !.ordered = @ \ E, !.counts = Without(@, E)]
    /\ UNCHANGED <<native, changes, steps, sess, loading, js, toHost, raced>>

Next ==
    \/ \E i \in Ids, p \in Parents : Insert(i, p)
    \/ \E i \in Ids : RemoveSubtree(i)
    \/ \E i \in Files : Update(i)
    \/ \E i \in Files, p \in Parents, n \in Names : Rename(i, p, n)
    \/ \E d \in Dirs : MarkLoaded(d)
    \/ RecordMutation
    \/ TickTake \/ TickFanOut
    \/ SetExpanded \/ CachedTake \/ CachedFanOut \/ CachedReply
    \/ \E d \in Dirs : FinishLoad(d)
    \/ SetViewport
    \/ \E d \in Dirs : Expand(d) \/ Collapse(d)
    \/ \E o \in Offsets : Scroll(o)
    \/ ApplyDelta

Spec == Init /\ [][Next]_vars

-----------------------------------------------------------------------------
Delivered ==
    /\ writing = NoChange /\ changes = NoChange /\ js.pc = "idle"
    /\ toHost = <<>> /\ toClient = <<>> /\ loading \cap tree.loaded = {}

\* The order in which visibleRows shows a folder's children: the host's, or by
\* name when the client made the list itself.
Shown(p) ==
    IF p \in mirror.ordered THEN mirror.lists[p]
    ELSE ByName(mirror.byId, Range(mirror.lists[p]))

ListingsAreTheStores ==
    \A p \in sess.expanded \cap mirror.expanded \cap tree.loaded :
      p \in DOMAIN mirror.lists /\ Shown(p) = ChildList(tree, p)

\* Once everything is delivered, every expanded and listed folder shows its
\* children, all of them and in order, however deltas, expansions, scrolling,
\* half-published changes and the client's own rebuilding interleaved.
ListingIsCurrent == Delivered /\ ~raced => ListingsAreTheStores

\* ... every record the client holds is the store's, and every row of its
\* window has one: a change is filtered out for a session only if the session
\* does not hold the record.
RecordIsCurrent ==
    Delivered /\ ~raced =>
      /\ \A i \in DOMAIN mirror.byId : i \in DOMAIN tree.nodes /\ mirror.byId[i] = tree.nodes[i]
      /\ PatchRows(tree, sess) \cap Ids \subseteq DOMAIN mirror.byId

\* ... and a collapsed, listed folder in the window has a chevron exactly if
\* it has children (hasChildren), although the client is told only that its
\* child set changed.
ChevronIsTrue ==
    Delivered /\ ~raced =>
      \A d \in (Dirs \cap DOMAIN mirror.byId \cap tree.loaded) \ mirror.expanded :
        LET has == IF d \in DOMAIN mirror.lists /\
                      (mirror.lists[d] # <<>> \/ d \in mirror.ordered)
                   THEN mirror.lists[d] # <<>>
                   ELSE d \in DOMAIN mirror.counts => mirror.counts[d] > 0
        IN  has = (Kids(tree, d) # {})

\* Rows and chevrons together: what a row shows is what the store holds.
RowIsCurrent == RecordIsCurrent /\ ChevronIsTrue

\* ListingIsCurrent without the exception, which handleSetExpanded does not
\* keep: its reply is built from the snapshot it read before the tick it runs,
\* and that tick has drained what would correct the window later.
ReplyIsCurrent == Delivered => ListingsAreTheStores

TypeOK ==
    /\ tree.nodes \in Partial(Ids, Record) /\ tree.loaded \subseteq Parents
    /\ writing \in Change /\ changes \in Change
    /\ sess.known \subseteq Ids \cup {Root} /\ mirror.byId \in Partial(Ids, Record)
    /\ loading \subseteq Dirs /\ js.pc \in {"idle", "tick", "cached", "flush", "reply"}
=============================================================================
