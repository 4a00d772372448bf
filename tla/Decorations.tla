----------------------------- MODULE Decorations ----------------------------
(***************************************************************************)
(* Decorations: from a status service, through a provider of mille-ui and  *)
(* the windows of a host, to the badges every window shows.                *)
(*                                                                         *)
(* A provider (git, diagnostics, test-status, editor-state) recomputes its *)
(* map of badges when its service reports a change (batched) or refresh()  *)
(* is called; the call is asynchronous, and two may overlap.  It tells its *)
(* engine which ids changed.  In a window that is a port client, which     *)
(* pushes a frame to the host; in the host's process it writes the host's  *)
(* store itself.  A tick fans the changed ids out to every window.         *)
(*                                                                         *)
(* A badge is the version of the status it was computed from; 0 is none.   *)
(***************************************************************************)
EXTENDS Naturals, Sequences, FiniteSets, SequencesExt

CONSTANTS
    Ids,            \* entries
    Roots,          \* those a handshake sends; the others are listed on demand
    Windows,        \* windows of the host; 0 stands for the host's own process
    Slot,           \* [providers -> provider ids]
    Setups,         \* where providers are registered, and which keep a generation (all but git)
    Marks,          \* [0..MaxVersion -> SUBSET Ids]: the entries a version decorates
    Early,          \* windows attached from the start
    Jobs,           \* recomputes a provider runs at once
    MaxVersion,     \* bound: changes of the status
    MaxRuns,        \* bound: refreshes and failures
    MaxTree,        \* bound: entries deleted
    MaxWindows      \* bound: windows that attach late, list entries, close, or dispose

Providers == DOMAIN Slot
Slots == {Slot[p] : p \in Providers}

VARIABLES
    setup,          \* one of Setups
    status,         \* the service's version
    news,           \* providers the service has yet to tell
    batch,          \* providers with a change waiting for the debounce
    job,            \* [Providers -> [Jobs -> recompute]]
    generation,     \* [Providers -> Nat]
    map,            \* [Providers -> [Ids -> version]]: decorations
    disposed,       \* providers disposed
    overlapped,     \* history: providers that ran two recomputes at once
    behind,         \* history: providers whose last recompute failed
    tree,           \* the host's entries
    knownIds,       \* [Providers -> SUBSET Ids]: what the port client has pushed
    up,             \* [Windows -> frames to the host]
    store,          \* DecorationStore: [Slots -> [Ids -> version]]
    pending,        \* pendingDecorationChangedIds
    gone,           \* entries removed since the last tick
    window,         \* [Windows -> state (new, attached, closed), mirror (entries), shown (badges), late (history)]
    down,           \* [Windows -> deltas]
    runs, removals, moves

At == setup.at
Guarded == setup.guarded

provider == <<setup, status, news, batch, job, generation, map, disposed, overlapped, behind, runs>>
host == <<tree, store, pending, gone, removals>>
vars == <<provider, host, knownIds, up, window, down, moves>>

NoJob == [state |-> "none"]
Bare == [i \in Ids |-> 0]
NoEntries == [i \in {} |-> 0]
Blank == [s \in Slots |-> Bare]
Reach(w) == window[w].state = "attached"

Init ==
    /\ setup \in Setups
    /\ status = 0 /\ news = {} /\ batch = {}
    /\ job = [p \in Providers |-> [j \in Jobs |-> NoJob]]
    /\ generation = [p \in Providers |-> 0] /\ map = [p \in Providers |-> Bare]
    /\ disposed = {} /\ overlapped = {} /\ behind = Providers
    /\ tree = Ids /\ knownIds = [p \in Providers |-> {}]
    /\ up = [w \in Windows |-> <<>>]
    /\ store = Blank /\ pending = {} /\ gone = {}
    /\ window = [w \in Windows |->
          [state |-> IF w \in Early THEN "attached" ELSE "new", mirror |-> Roots, shown |-> Blank, late |-> FALSE]]
    /\ down = [w \in Windows |-> <<>>]
    /\ runs = 0 /\ removals = 0 /\ moves = 0

-----------------------------------------------------------------------------
(* DecorationStore, and the host. *)

\* setForProvider, and the ids it reports: a value set counts as a change.
Written(s, entries) == [store EXCEPT ![s] = [i \in Ids |-> IF i \in DOMAIN entries THEN entries[i] ELSE @[i]]]
Reported(s, entries) == {i \in DOMAIN entries : entries[i] # 0 \/ store[s][i] # 0}
removeProvider(s) == {i \in Ids : store[s][i] # 0}

\* handleDecorations: replaceAll clears the slot first; the cleared ids changed too.
handleDecorations(w) ==
    LET f == Head(up[w])
        s == Slot[f.by]
        cleared == IF f.replaceAll THEN removeProvider(s) ELSE {}
        all == [i \in DOMAIN f.entries \cup cleared |-> IF i \in DOMAIN f.entries THEN f.entries[i] ELSE 0]
    IN  /\ Reach(w) /\ up[w] # <<>>
        /\ up' = [up EXCEPT ![w] = Tail(@)]
        /\ store' = Written(s, all)
        /\ pending' = pending \cup cleared \cup Reported(s, f.entries)
        /\ UNCHANGED <<provider, tree, gone, removals, knownIds, window, down, moves>>

\* tick: the changed ids and their merged badges, and the entries removed, to
\* every window that has shaken hands.
Merged(ids) == [i \in ids |-> [s \in Slots |-> store[s][i]]]
Delta(decorations, added, removed) == [decorations |-> decorations, added |-> added, removed |-> removed]
tick ==
    /\ pending \cup gone # {}
    /\ \E w \in Windows : Reach(w)
    /\ down' = [w \in Windows |->
          IF Reach(w) THEN Append(down[w], Delta(Merged(pending), {}, gone)) ELSE down[w]]
    /\ pending' = {} /\ gone' = {}
    /\ UNCHANGED <<provider, tree, store, removals, knownIds, up, window, moves>>

\* Entries a window has expanded to, or scrolled to: without their badges.
Sent(w) == window[w].mirror \cup UNION {down[w][k].added : k \in DOMAIN down[w]}
List(w, ids) ==
    /\ moves < MaxWindows /\ moves' = moves + 1
    /\ Reach(w)
    /\ ids # {} /\ ids \subseteq tree \ Sent(w)
    /\ down' = [down EXCEPT ![w] = Append(@, Delta(NoEntries, ids, {}))]
    /\ UNCHANGED <<provider, host, knownIds, up, window>>

Delete(i) ==
    /\ removals < MaxTree /\ removals' = removals + 1
    /\ i \in tree
    /\ tree' = tree \ {i} /\ gone' = gone \cup {i}
    /\ UNCHANGED <<provider, store, pending, knownIds, up, window, down, moves>>

-----------------------------------------------------------------------------
(* The port client. *)

\* pushDecorationsForIds: the badges of ids, and a clear of what has none any
\* more, or is in cleared.  Without a record of what was pushed (mutant), only
\* the latter.
PushedUnrecorded(p, m, ids, cleared) ==
    [i \in {k \in ids : m[k] # 0 \/ k \in cleared} |-> m[i]]
Pushed(p, m, ids, cleared) ==
    [i \in {k \in ids : m[k] # 0 \/ k \in knownIds[p] \/ k \in cleared} |-> m[i]]

Frame(p, entries, all) == [by |-> p, entries |-> entries, replaceAll |-> all]
Recorded(p, entries) == (knownIds[p] \cup {i \in DOMAIN entries : entries[i] # 0})
                        \ {i \in DOMAIN entries : entries[i] = 0}

\* The provider tells its engine that ids changed, to what m says.
Told(p, m, ids) ==
    IF At[p] = 0
    THEN /\ store' = Written(Slot[p], [i \in ids |-> m[i]])
         /\ pending' = pending \cup Reported(Slot[p], [i \in ids |-> m[i]])
         /\ UNCHANGED <<knownIds, up>>
    ELSE LET entries == Pushed(p, m, ids, {})
         IN  /\ knownIds' = [knownIds EXCEPT ![p] = Recorded(p, entries)]
             /\ up' = IF DOMAIN entries = {} \/ ~Reach(At[p]) THEN up
                      ELSE [up EXCEPT ![At[p]] = Append(@, Frame(p, entries, FALSE))]
             /\ UNCHANGED <<store, pending>>

\* applyDelta, then recomputeDecorationsForNewIds: every provider of the window
\* pushes its badges of the entries that came, and for one that went what it
\* still says of it, or a clear.
handleDelta(w) ==
    LET d == Head(down[w])
        come == d.added \ window[w].mirror
        left == window[w].mirror \cap d.removed
        mine == {p \in Providers \ disposed : At[p] = w}
        shown == [s \in Slots |-> [i \in Ids |->
                    IF i \in d.removed THEN 0
                    ELSE IF i \in DOMAIN d.decorations THEN d.decorations[i][s] ELSE window[w].shown[s][i]]]
        entries(p) == Pushed(p, map[p], come \cup left, left)
        frames == {Frame(p, entries(p), FALSE) : p \in {q \in mine : DOMAIN entries(q) # {}}}
    IN  /\ Reach(w) /\ down[w] # <<>>
        /\ down' = [down EXCEPT ![w] = Tail(@)]
        /\ window' = [window EXCEPT ![w].shown = shown, ![w].mirror = (@ \cup d.added) \ d.removed]
        /\ knownIds' = [p \in Providers |-> IF p \in mine THEN Recorded(p, entries(p)) ELSE knownIds[p]]
        /\ \E fs \in SetToSeqs(frames) : up' = [up EXCEPT ![w] = @ \o fs]
        /\ UNCHANGED <<provider, host, moves>>

-----------------------------------------------------------------------------
(* The provider. *)

\* recompute: a new generation, where there are generations.
Began(p, j) ==
    /\ job' = [job EXCEPT ![p][j] = [state |-> "asked", generation |-> generation[p] + 1]]
    /\ generation' = [generation EXCEPT ![p] = @ + 1]
    /\ overlapped' = IF \E k \in Jobs : job[p][k] # NoJob THEN overlapped \cup {p} ELSE overlapped
Free(p, j) == job[p][j] = NoJob /\ \A k \in Jobs : job[p][k] = NoJob => j <= k
Live(p) == p \notin disposed /\ (At[p] # 0 => Reach(At[p]))

\* Registered: the first recompute (and a first frame, empty, that replaces all).
Start(p) ==
    /\ Live(p) /\ generation[p] = 0
    /\ \E j \in Jobs : Free(p, j) /\ Began(p, j)
    /\ up' = IF At[p] = 0 THEN up ELSE [up EXCEPT ![At[p]] = Append(@, Frame(p, NoEntries, TRUE))]
    /\ UNCHANGED <<setup, status, news, batch, map, disposed, behind, runs, host, knownIds, window, down, moves>>

Change ==
    /\ status < MaxVersion
    /\ status' = status + 1
    /\ news' = {p \in Providers : Live(p) /\ generation[p] > 0}
    /\ UNCHANGED <<setup, batch, job, generation, map, disposed, overlapped, behind, runs, host, knownIds, up, window, down, moves>>

\* client.onChange: into the batch.
Hear(p) ==
    /\ p \in news
    /\ news' = news \ {p}
    /\ batch' = IF Live(p) THEN batch \cup {p} ELSE batch
    /\ UNCHANGED <<setup, status, job, generation, map, disposed, overlapped, behind, runs, host, knownIds, up, window, down, moves>>

\* The debounce, or its longest wait, is over.
Drain(p, j) ==
    /\ p \in batch /\ Live(p) /\ Free(p, j)
    /\ batch' = batch \ {p}
    /\ Began(p, j)
    /\ UNCHANGED <<setup, status, news, map, disposed, behind, runs, host, knownIds, up, window, down, moves>>

\* refresh: cancels what is batched, and does it now.
refresh(p, j) ==
    /\ runs < MaxRuns /\ runs' = runs + 1
    /\ Live(p) /\ generation[p] > 0 /\ Free(p, j)
    /\ batch' = batch \ {p}
    /\ Began(p, j)
    /\ UNCHANGED <<setup, status, news, map, disposed, behind, host, knownIds, up, window, down, moves>>

\* The service reads its status, some time before it answers.
Read(p, j) ==
    /\ job[p][j].state = "asked"
    /\ job' = [job EXCEPT ![p][j] = [state |-> "read", generation |-> @.generation, got |-> status]]
    /\ UNCHANGED <<setup, status, news, batch, generation, map, disposed, overlapped, behind, runs, host, knownIds, up, window, down, moves>>

Newest(p, j) == job[p][j].generation = generation[p]

\* getStatus rejects.
Fail(p, j) ==
    /\ runs < MaxRuns /\ runs' = runs + 1
    /\ job[p][j].state = "asked"
    /\ job' = [job EXCEPT ![p][j] = NoJob]
    /\ behind' = IF Newest(p, j) THEN behind \cup {p} ELSE behind
    /\ UNCHANGED <<setup, status, news, batch, generation, map, disposed, overlapped, host, knownIds, up, window, down, moves>>

\* Each await is followed by this check; git makes it of disposed only, and
\* not after it has resolved the entries.
Unchecked(p, j) == job[p][j].state # "read" \/ p \notin disposed       \* mutant: what git does
Current(p, j) == IF p \in Guarded THEN p \notin disposed /\ Newest(p, j) ELSE Unchecked(p, j)

Reply(p, j) ==
    /\ job[p][j].state = "read"
    /\ job' = [job EXCEPT ![p][j] = IF Current(p, j) THEN [@ EXCEPT !.state = "resolving"] ELSE NoJob]
    /\ UNCHANGED <<setup, status, news, batch, generation, map, disposed, overlapped, behind, runs, host, knownIds, up, window, down, moves>>

\* The entries are resolved (those that went are not): the new map, and the
\* ids that changed.  git reports every id of either map.
Publish(p, j) ==
    LET v == job[p][j].got
        next == [i \in Ids |-> IF i \in Marks[v] \cap tree THEN v ELSE 0]
        changed == {i \in Ids : IF p \in Guarded THEN next[i] # map[p][i] ELSE next[i] # 0 \/ map[p][i] # 0}
    IN  /\ job[p][j].state = "resolving"
        /\ job' = [job EXCEPT ![p][j] = NoJob]
        /\ IF Current(p, j) THEN
              /\ map' = [map EXCEPT ![p] = next]
              /\ behind' = behind \ {p}
              /\ IF p \in disposed THEN UNCHANGED <<knownIds, up, store, pending>> ELSE Told(p, next, changed)
           ELSE UNCHANGED <<map, behind, knownIds, up, store, pending>>
        /\ UNCHANGED <<setup, status, news, batch, generation, disposed, overlapped, runs, tree, gone, removals, window, down, moves>>

\* dispose: the registration clears the slot.
dispose(p) ==
    /\ moves < MaxWindows /\ moves' = moves + 1
    /\ Live(p) /\ generation[p] > 0
    /\ disposed' = disposed \cup {p} /\ batch' = batch \ {p}
    /\ generation' = [generation EXCEPT ![p] = @ + 1]
    /\ map' = [map EXCEPT ![p] = Bare]
    /\ IF At[p] = 0 THEN /\ store' = [store EXCEPT ![Slot[p]] = Bare]
                         /\ pending' = pending \cup removeProvider(Slot[p]) /\ UNCHANGED up
       ELSE up' = [up EXCEPT ![At[p]] = Append(@, Frame(p, NoEntries, TRUE))] /\ UNCHANGED <<store, pending>>
    /\ UNCHANGED <<setup, status, news, job, overlapped, behind, runs, tree, gone, removals, knownIds, window, down>>

-----------------------------------------------------------------------------
(* Windows. *)

\* The handshake's snapshot has the roots and no badges.  A window that comes
\* back is a new session.
handleHandshake(w) ==
    /\ moves < MaxWindows /\ moves' = moves + 1
    /\ window[w].state = "new"
    /\ window' = [window EXCEPT ![w] = [state |-> "attached", mirror |-> tree \cap Roots, shown |-> Blank,
                                        late |-> store # Blank]]
    /\ UNCHANGED <<provider, host, knownIds, up, down>>

\* A window closes with its providers; the host forgets the session only.
detachSession(w) ==
    /\ moves < MaxWindows /\ moves' = moves + 1
    /\ Reach(w)
    /\ window' = [window EXCEPT ![w].state = "closed"]
    /\ up' = [up EXCEPT ![w] = <<>>] /\ down' = [down EXCEPT ![w] = <<>>]
    /\ disposed' = disposed \cup {p \in Providers : At[p] = w}
    /\ job' = [p \in Providers |-> IF At[p] = w THEN [j \in Jobs |-> NoJob] ELSE job[p]]
    /\ batch' = {p \in batch : At[p] # w}
    /\ UNCHANGED <<setup, status, news, generation, map, overlapped, behind, runs, host, knownIds>>

Next ==
    \/ Change
    \/ \E p \in Providers :
          \/ Start(p) \/ Hear(p) \/ dispose(p)
          \/ \E j \in Jobs : Drain(p, j) \/ refresh(p, j) \/ Read(p, j) \/ Reply(p, j) \/ Fail(p, j) \/ Publish(p, j)
    \/ \E w \in Windows : handleDecorations(w) \/ handleDelta(w) \/ handleHandshake(w) \/ detachSession(w)
    \/ \E w \in Windows, ids \in SUBSET Ids : List(w, ids)
    \/ tick
    \/ \E i \in Ids : Delete(i)

Spec == Init /\ [][Next]_vars

-----------------------------------------------------------------------------
(* Properties. *)

TypeOK ==
    /\ status \in 0..MaxVersion /\ news \cup batch \cup disposed \subseteq Providers
    /\ map \in [Providers -> [Ids -> 0..MaxVersion]] /\ store \in [Slots -> [Ids -> 0..MaxVersion]]
    /\ pending \cup gone \subseteq Ids /\ knownIds \in [Providers -> SUBSET Ids]

Quiet(p) == p \notin news \cup batch /\ \A j \in Jobs : job[p][j] = NoJob
AtRest ==
    /\ pending = {} /\ gone = {}
    /\ \A w \in Windows : up[w] = <<>> /\ down[w] = <<>>
    /\ \A p \in Providers : Quiet(p)

(* A provider whose recomputes are over has the badges of the service's    *)
(* present status, whatever order the answers came in: only one whose last *)
(* recompute failed has not, and git's after two that overlapped.          *)
StatusIsShown ==
    \A p \in Providers :
        Quiet(p) /\ Live(p) /\ p \notin behind /\ (p \in overlapped => p \in Guarded) =>
            \A i \in tree : map[p][i] = IF i \in Marks[status] THEN status ELSE 0

Owners(s) == {p \in Providers : Slot[p] = s}

(* At rest every window shows, for the entries of the tree, what the       *)
(* provider says, and nothing of a provider disposed: clears, replacements *)
(* and removals reach it.  Windows that attached late, and slots with an   *)
(* owner that was closed or with two owners, are the exceptions below.     *)
WindowsAgree ==
    AtRest => \A w \in Windows, s \in Slots, i \in tree :
        LET p == CHOOSE q \in Owners(s) : TRUE
        IN  Reach(w) /\ ~window[w].late /\ Owners(s) = {p} /\ (At[p] # 0 => Reach(At[p]))
              => window[w].shown[s][i] = IF p \in disposed THEN 0 ELSE map[p][i]

-----------------------------------------------------------------------------
(* What the code does not do. *)

(* The same of git with overlapping recomputes (provider.ts has no         *)
(* generation).                                                            *)
LatestStatusIsShown ==
    \A p \in Providers : Quiet(p) /\ Live(p) /\ p \notin behind =>
        \A i \in tree : map[p][i] = IF i \in Marks[status] THEN status ELSE 0

(* host.ts:651: "SCM status is observable across every window": a window   *)
(* that attaches late sees only what changes afterwards.                   *)
LateWindowsAgree ==
    AtRest => \A w \in Windows, s \in Slots, i \in tree : Reach(w) => window[w].shown[s][i] = store[s][i]

(* A window that closes takes its badges with it. *)
ClosedWindowIsForgotten ==
    AtRest => \A s \in Slots : (\A p \in Owners(s) : ~Live(p)) => \A i \in tree : store[s][i] = 0

(* Two windows may run a provider of the same id: one going away leaves    *)
(* the badges of the other.                                                *)
SlotIsOwned ==
    AtRest => \A p \in Providers : Live(p) /\ p \notin behind => \A i \in tree : store[Slot[p]][i] = map[p][i]

(* client-port.ts:1045: a removed id gets "an explicit clearing tuple".    *)
RemovedIsCleared == AtRest => \A s \in Slots, i \in Ids \ tree : store[s][i] = 0
=============================================================================
