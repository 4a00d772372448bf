----------------------------- MODULE TreeSearch -----------------------------
(***************************************************************************)
(* The filter input and the search list of a FileTree (mille-ui:           *)
(* FileTreeFilter, useFilterState, useSearchResults, SearchResultList, and *)
(* the search mode of FileTree.tsx), with the search call of a port client *)
(* and of its host.                                                        *)
(*                                                                         *)
(* The list is mounted while the mode is search and the filter not empty;  *)
(* its hook waits a debounce, calls the engine, and must show no answer    *)
(* but the last query's.  The tree behind it keeps its focus and selection.*)
(***************************************************************************)
EXTENDS Naturals, Sequences, FiniteSets, SequencesExt

CONSTANTS
    Texts,          \* queries typed, none of them empty
    Order,          \* the host's entries, as the engine ranks them
    Found,          \* [Texts -> SUBSET entries]: what a query matches
    Crossing,       \* entries beyond a symbolic link
    limit,          \* hits of a page
    TreeRows,       \* rows of the tree, in order
    Calls,          \* engine calls a behaviour makes
    MaxActs,        \* bound: what the user and the application do
    MaxChanges,     \* bound: entries deleted on the host
    None

VARIABLES
    filter,         \* FileTree's filterState
    input,          \* the text the embedded FileTreeFilter shows
    owned,          \* the application owns the filter text (the filter prop)
    mode,           \* searchMode
    restricted,     \* the session's policy is not admin
    list,           \* SearchResultList: mount, status, hits, of (history: their query), index
    generation,     \* generationRef of the mounted hook
    timer,          \* timerRef: the generation waiting for its debounce
    current,        \* abortRef: the call whose controller it is
    call,           \* engine calls: state, query, generation, mount, aborted
    tree,           \* the host's entries
    known,          \* the entries of the client's snapshot
    focused,        \* the tree's focused row
    selected,       \* the tree's selection
    ran,            \* history: what the last key did, and where
    acts, changes

ui == <<filter, input, owned, mode>>
hook == <<list, generation, timer, current, call>>
host == <<restricted, tree, known, changes>>
behind == <<focused, selected>>
vars == <<ui, hook, host, behind, ran, acts>>

Empty == ""         \* the text of an empty input
Idle == [state |-> "idle"]
Unmounted(n) == [mount |-> n, status |-> "none", hits |-> <<>>, of |-> None, index |-> 0]

Init ==
    /\ filter = Empty /\ input = Empty /\ mode \in {"off", "search"}
    /\ owned \in BOOLEAN /\ restricted \in BOOLEAN
    /\ list = Unmounted(0) /\ generation = 0 /\ timer = None /\ current = None
    /\ call = [c \in Calls |-> Idle]
    /\ tree = Range(Order) /\ known = Range(TreeRows)
    /\ focused \in {None, Head(TreeRows)} /\ selected = {focused} \ {None}
    /\ ran = {} /\ acts = 0 /\ changes = 0

-----------------------------------------------------------------------------
(* useSearchResults: the effect of a render. *)

InSearch(text, m) == m = "search" /\ text # Empty

\* The cleanup of the last pass: its timer is cleared and its call aborted.
Cancelled == [c \in Calls |-> IF c = current THEN [call[c] EXCEPT !.aborted = TRUE] ELSE call[c]]

\* A render with the query text in mode m.  A list that mounts has new refs.
Shown(text, m) ==
    LET new == ~InSearch(filter, mode)
        mine == IF new THEN 1 ELSE generation + 1
    IN  IF text = filter /\ InSearch(text, m) = InSearch(filter, mode) THEN UNCHANGED hook
        ELSE /\ call' = Cancelled /\ current' = None
             /\ IF InSearch(text, m)
                THEN /\ list' = [mount |-> list.mount + (IF new THEN 1 ELSE 0), status |-> "loading",
                                 hits |-> <<>>, of |-> None, index |-> 0]
                     /\ generation' = mine /\ timer' = mine
                ELSE list' = Unmounted(list.mount) /\ timer' = None /\ generation' = 0

\* The debounce is over: one call, under a controller of its own; the engine
\* may also refuse it at once.
TimerFires(c) ==
    /\ timer # None
    /\ call[c] = Idle /\ \A d \in Calls : call[d] = Idle => c <= d
    /\ timer' = None
    /\ \/ /\ call' = [call EXCEPT ![c] = [state |-> "sent", query |-> filter, generation |-> timer,
                                          mount |-> list.mount, aborted |-> FALSE]]
          /\ current' = c
          /\ UNCHANGED list
       \/ /\ timer = generation
          /\ list' = [list EXCEPT !.status = "error", !.hits = <<>>]
          /\ UNCHANGED <<call, current>>
    /\ ran' = {}
    /\ UNCHANGED <<ui, generation, host, behind, acts>>

\* The host's page: limit hits, by rank, of the limit + 1 it asks for to know
\* whether there are more; none of them beyond a link for a restricted session.
First(n, ranks) == {i \in ranks : Cardinality({j \in ranks : j <= i}) <= n}
Page(query) ==
    LET found == First(limit + 1, {i \in DOMAIN Order : Order[i] \in Found[query] \cap tree})
    IN  First(limit, {i \in found : ~(restricted /\ Order[i] \in Crossing)})
Listings(ranks) ==
    {s \in SeqOf(ranks, Len(Order)) : Range(s) = ranks /\ \A j, k \in DOMAIN s : j < k => s[j] < s[k]}

\* An answer sets the state of the hook that asked, if it is still that query's.
WantedMount(c) == call[c].mount = list.mount /\ list.status # "none"    \* mutant: any answer is shown
Wanted(c) == call[c].mount = list.mount /\ ~call[c].aborted /\ call[c].generation = generation

Answer(c) ==
    /\ call[c].state = "sent"
    /\ call' = [call EXCEPT ![c].state = "done"]
    /\ \E s \in Listings(Page(call[c].query)) :
          LET hits == [k \in DOMAIN s |-> Order[s[k]]]
          IN  /\ list' = IF Wanted(c)
                         THEN [list EXCEPT !.status = "ready", !.hits = hits, !.of = call[c].query, !.index = 0]
                         ELSE list
              /\ known' = IF call[c].aborted THEN known ELSE known \cup Range(hits)
    /\ ran' = {}
    /\ UNCHANGED <<ui, generation, timer, current, restricted, tree, changes, behind, acts>>

Refuse(c) ==
    /\ call[c].state = "sent"
    /\ call' = [call EXCEPT ![c].state = "done"]
    /\ list' = IF Wanted(c) THEN [list EXCEPT !.status = "error", !.hits = <<>>] ELSE list
    /\ ran' = {}
    /\ UNCHANGED <<ui, generation, timer, current, host, behind, acts>>

-----------------------------------------------------------------------------
(* The input, the toggle and FileTreeRef. *)

Acts == acts < MaxActs /\ acts' = acts + 1

\* filterState.setFilter.  The input shows the prop of an application that
\* owns the text, and its own state otherwise.
Refilter(text, m, typed) ==
    /\ filter' = text /\ mode' = m
    /\ input' = IF owned \/ typed THEN text ELSE input
    /\ Shown(text, m)
    /\ UNCHANGED <<owned, host>>

TypeText(text) == Acts /\ text # input /\ Refilter(text, mode, TRUE) /\ ran' = {} /\ UNCHANGED behind
InputEscape == Acts /\ Refilter(Empty, mode, TRUE) /\ ran' = {} /\ UNCHANGED behind
SetMode(m) == Acts /\ m # mode /\ Refilter(filter, m, FALSE) /\ ran' = {} /\ UNCHANGED behind
ClearFilter == Acts /\ Refilter(Empty, mode, FALSE) /\ ran' = {} /\ UNCHANGED behind
RestoreState(text, m) == Acts /\ Refilter(text, m, FALSE) /\ ran' = {} /\ UNCHANGED behind

-----------------------------------------------------------------------------
(* Keys outside the input.  In search mode the list sees them first, then  *)
(* the handler of the tree, on the element around both.                    *)

Keys == {"down", "up", "home", "end"}
Moved(i, key, last) ==
    CASE key = "down" -> IF i < last THEN i + 1 ELSE last
      [] key = "up" -> IF i > 0 THEN i - 1 ELSE 0
      [] key = "home" -> 0
      [] key = "end" -> last

Listed == list.status = "ready" /\ list.hits # <<>>
Place == CHOOSE i \in 1..Len(TreeRows) : TreeRows[i] = IF focused = None THEN Head(TreeRows) ELSE focused

\* The mark of the list, when it has the keyboard.
MarkedPast(i, key) == IF key = "down" THEN i + 1 ELSE Moved(i, key, Len(list.hits) - 1)     \* mutant: no bound
Marked(i, key) == Moved(i, key, Len(list.hits) - 1)

CursorKey(key, inList) ==
    /\ Acts /\ (inList => Listed)
    /\ list' = IF inList THEN [list EXCEPT !.index = Marked(@, key)] ELSE list
    /\ focused' = IF focused = None /\ key \in {"down", "up"} THEN Head(TreeRows)
                  ELSE TreeRows[Moved(Place - 1, key, Len(TreeRows) - 1) + 1]
    /\ selected' = {focused'}
    /\ ran' = {"tree"} \cup (IF inList THEN {"list"} ELSE {})
    /\ UNCHANGED <<ui, generation, timer, current, call, host>>

\* A click on a hit.
Pick(i) ==
    /\ Acts /\ Listed
    /\ i \in 0..(Len(list.hits) - 1)
    /\ list' = [list EXCEPT !.index = i]
    /\ ran' = {"list"}
    /\ UNCHANGED <<ui, generation, timer, current, call, host, behind>>

\* Enter opens the hit, if the snapshot has it, and the tree's focused row.
EnterKey(inList) ==
    /\ Acts /\ (inList => Listed)
    /\ ran' = (IF inList /\ list.hits[list.index + 1] \in known THEN {"list"} ELSE {})
              \cup (IF focused # None THEN {"tree"} ELSE {})
    /\ UNCHANGED <<ui, hook, host, behind>>

\* Delete dispatches file.delete for the tree's selection.
DeleteKey ==
    /\ Acts /\ selected # {}
    /\ ran' = {"tree"}
    /\ UNCHANGED <<ui, hook, host, behind>>

\* Escape clears the selection and the filter.
TreeEscape ==
    /\ Acts
    /\ Refilter(Empty, mode, FALSE)
    /\ selected' = {} /\ ran' = {"tree"} /\ UNCHANGED focused

HostDeletes(e) ==
    /\ changes < MaxChanges /\ changes' = changes + 1
    /\ e \in tree
    /\ tree' = tree \ {e}
    /\ ran' = {}
    /\ UNCHANGED <<ui, hook, restricted, known, behind, acts>>

Next ==
    \/ \E c \in Calls : TimerFires(c) \/ Answer(c) \/ Refuse(c)
    \/ \E t \in Texts : TypeText(t) \/ (\E m \in {"filter", "search"} : RestoreState(t, m))
    \/ InputEscape \/ (\E m \in {"filter", "search"} : SetMode(m)) \/ ClearFilter
    \/ \E inList \in BOOLEAN : (\E key \in Keys : CursorKey(key, inList)) \/ EnterKey(inList)
    \/ (\E i \in 0..limit : Pick(i)) \/ DeleteKey \/ TreeEscape
    \/ \E e \in Range(Order) : HostDeletes(e)

Spec == Init /\ [][Next]_vars

-----------------------------------------------------------------------------
(* Properties. *)

TypeOK ==
    /\ filter \in Texts \cup {Empty} /\ input \in Texts \cup {Empty} /\ mode \in {"off", "filter", "search"}
    /\ list.status \in {"none", "loading", "ready", "error"}
    /\ timer \in Nat \cup {None} /\ current \in Calls \cup {None}
    /\ tree \subseteq Range(Order) /\ focused \in Range(TreeRows) \cup {None}

(* Whatever order answers arrive in, the hits listed are those of the text *)
(* being searched for, and there is no list but in search mode.            *)
ResultsAreOfTheQuery ==
    /\ list.status = "ready" => list.of = filter
    /\ list.status # "none" <=> InSearch(filter, mode)

(* A result of a restricted session never lies beyond a symbolic link, and *)
(* Enter opens the hit that is marked: the mark is always on a hit.        *)
MarkIsAHit ==
    /\ Listed => list.index \in 0..(Len(list.hits) - 1)
    /\ restricted => Range(list.hits) \cap Crossing = {}

(* A search that shows as loading has a debounce or a call of its own      *)
(* behind it: it cannot stay so for ever.                                  *)
LoadingIsDriven ==
    list.status = "loading" =>
        \/ timer = generation
        \/ current # None /\ call[current].state = "sent" /\ Wanted(current)

-----------------------------------------------------------------------------
(* What the code does not do. *)

(* The input shows the text the tree is filtered by: false when the tree   *)
(* owns the text and Escape, FileTreeRef or a saved state changes it.      *)
InputShowsFilter == input = filter

(* A key acts on the list or on the tree: false in search mode, where the  *)
(* list lets its keys through to the tree it hides.                        *)
KeyIsForOneList == InSearch(filter, mode) => ~({"list", "tree"} \subseteq ran)
=============================================================================
