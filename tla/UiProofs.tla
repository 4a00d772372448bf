------------------------------ MODULE UiProofs ------------------------------
(***************************************************************************)
(* Theorems about what a FileTree shows and does: the search list          *)
(* (TreeSearch), the badges the windows of a host share (Decorations), and *)
(* the renames and drops whose answers come late (InlineRename, DragDrop), *)
(* for any texts, entries, ranking, windows, providers, rows and bounds.   *)
(***************************************************************************)
EXTENDS MCUi, FiniteSetTheorems, TLAPS

-----------------------------------------------------------------------------
(* The search list. *)

SearchEntries == Range(SearchOrder)
Asked == [state : {"sent", "done"}, query : Texts \cup {Search!Empty}, generation : Nat, mount : Nat,
          aborted : {TRUE, FALSE}]

SearchTyped ==
    /\ filter \in Texts \cup {Search!Empty} /\ input \in Texts \cup {Search!Empty} /\ mode \in {"off", "filter", "search"}
    /\ list \in [mount : Nat, status : {"none", "loading", "ready", "error"}, hits : Seq(SearchEntries),
                 of : Texts \cup {Search!Empty, None}, index : Nat]
    /\ tsGeneration \in Nat /\ timer \in Nat \cup {None} /\ current \in SearchCalls \cup {None}
    /\ call \in [SearchCalls -> {Search!Idle} \cup Asked]
    /\ tsTree \subseteq SearchEntries /\ focused \in Range(SearchRows) \cup {None}

\* A list is mounted in search mode, and one that loads waits for its timer or its call.
ListIsShown ==
    /\ list.status # "none" <=> Search!InSearch(filter, mode)
    /\ list.status = "ready" => list.of = filter
    /\ list.status = "loading" => timer # None \/ (current # None /\ call[current].state = "sent")

\* The timer is of the present query, and nothing has been asked for it yet.
TimerIsCurrent == timer # None => timer = tsGeneration /\ current = None /\ list.status = "loading"

\* The call whose controller the hook holds is of the present query; every
\* other call has been aborted.
CallIsCurrent ==
    /\ current # None =>
          /\ call[current] \in Asked /\ ~call[current].aborted
          /\ call[current].mount = list.mount /\ call[current].generation = tsGeneration
          /\ call[current].query = filter /\ list.status # "none"
    /\ \A c \in SearchCalls : call[c] \in Asked /\ c # current => call[c].aborted

SearchInv == SearchTyped /\ ListIsShown /\ TimerIsCurrent /\ CallIsCurrent /\ Search!MarkIsAHit

\* What is proved of a search implies what the run checks of it.
LEMMA SearchInvSuffices ==
    ASSUME SearchInv
    PROVE  Search!TypeOK /\ Search!ResultsAreOfTheQuery /\ Search!MarkIsAHit /\ Search!LoadingIsDriven
<1>1. Search!TypeOK
  BY DEF SearchInv, SearchTyped, Search!TypeOK, SearchEntries, Range, Search!Range
<1>2. Search!ResultsAreOfTheQuery /\ Search!MarkIsAHit
  BY DEF SearchInv, ListIsShown, Search!ResultsAreOfTheQuery
<1>3. Search!LoadingIsDriven
  BY DEF SearchInv, ListIsShown, TimerIsCurrent, CallIsCurrent, Search!LoadingIsDriven, Search!Wanted
<1> QED
  BY <1>1, <1>2, <1>3

\* The rows of a tree are not empty, so the first is one of them.
LEMMA SequenceFacts ==
    /\ SearchRows \in Seq(Range(SearchRows)) /\ Len(SearchRows) > 0
    /\ Head(SearchRows) \in Range(SearchRows)
<1>1. SearchRows \in Seq(Range(SearchRows)) /\ SearchRows # <<>>
  BY SearchAssumption
<1>2. Len(SearchRows) > 0
  BY <1>1
<1>3. Head(SearchRows) \in Range(SearchRows)
  BY <1>1
<1> QED
  BY <1>1, <1>2, <1>3

\* An empty sequence lists nothing.
LEMMA EmptyRange == ASSUME NEW S PROVE <<>> \in Seq(S) /\ {<<>>[x] : x \in DOMAIN <<>>} = {}
<1>1. <<>> \in Seq(S)
  OBVIOUS
<1>2. DOMAIN <<>> = {}
  OBVIOUS
<1> QED
  BY <1>1, <1>2

\* Nothing is listed, asked or awaited at first.
LEMMA SearchInitInv ==
    ASSUME Search!Init
    PROVE  SearchInv
<1> USE SearchAssumption DEF Search!Init, Search!Unmounted, Search!Idle, Search!Range
<1>0. /\ <<>> \in Seq(SearchEntries)
      /\ {<<>>[x] : x \in DOMAIN <<>>} = {}
  BY EmptyRange
<1>1. focused \in Range(SearchRows) \cup {None}
  BY SequenceFacts
<1>2. call \in [SearchCalls -> {Search!Idle} \cup Asked]
  OBVIOUS
<1>3. list \in [mount : Nat, status : {"none", "loading", "ready", "error"}, hits : Seq(SearchEntries),
                 of : Texts \cup {Search!Empty, None}, index : Nat]
  BY <1>0
<1>4. SearchTyped
  BY <1>1, <1>2, <1>3 DEF SearchTyped, SearchEntries, Range
<1>5. ListIsShown
  BY DEF ListIsShown, Search!InSearch
<1>6. TimerIsCurrent
  BY DEF TimerIsCurrent
<1>7. CallIsCurrent
  <2>1. \A c \in SearchCalls : call[c] = [state |-> "idle"]
    OBVIOUS
  <2>2. [state |-> "idle"] \notin Asked
    BY DEF Asked
  <2> QED
    BY <2>1, <2>2 DEF CallIsCurrent
<1>8. Search!MarkIsAHit
  BY <1>0 DEF Search!MarkIsAHit, Search!Listed, Range
<1> QED
  BY <1>4, <1>5, <1>6, <1>7, <1>8 DEF SearchInv

\* An engine call is idle or asked, never both.
LEMMA IdleOrAsked ==
    ASSUME SearchTyped, NEW c \in SearchCalls
    PROVE  /\ call[c] \in {Search!Idle} \cup Asked
           /\ call[c] = Search!Idle <=> call[c] \notin Asked
           /\ call[c].state = "sent" => call[c] \in Asked
<1>1. [state |-> "idle"] \notin Asked /\ [state |-> "idle"].state # "sent"
  BY DEF Asked
<1> QED
  BY <1>1 DEF SearchTyped, Search!Idle

\* The cleanup of an effect leaves no call that is not aborted.
LEMMA CancelsAll ==
    ASSUME SearchInv
    PROVE  /\ Search!Cancelled \in [SearchCalls -> {Search!Idle} \cup Asked]
           /\ \A c \in SearchCalls : Search!Cancelled[c] \in Asked => Search!Cancelled[c].aborted
<1> DEFINE C == Search!Cancelled
<1>1. ASSUME NEW c \in SearchCalls
      PROVE  C[c] \in {Search!Idle} \cup Asked /\ (C[c] \in Asked => C[c].aborted)
  <2>1. CASE c # current
    <3>1. C[c] = call[c]
      BY <2>1 DEF Search!Cancelled
    <3> QED
      BY <2>1, <3>1, IdleOrAsked DEF SearchInv, CallIsCurrent
  <2>2. CASE c = current
    <3>1. C[c] = [call[c] EXCEPT !.aborted = TRUE]
      BY <2>2 DEF Search!Cancelled
    <3>2. c # None
      BY SearchAssumption
    <3>3. call[c] \in Asked
      BY <2>2, <3>2 DEF SearchInv, CallIsCurrent
    <3>4. [call[c] EXCEPT !.aborted = TRUE] \in Asked
      BY <3>3 DEF Asked
    <3>5. [call[c] EXCEPT !.aborted = TRUE].aborted = TRUE
      BY <3>3 DEF Asked
    <3> QED
      BY <3>1, <3>4, <3>5
  <2> QED
    BY <2>1, <2>2
<1>2. C = [c \in SearchCalls |-> C[c]]
  BY DEF Search!Cancelled
<1> QED
  BY <1>1, <1>2

\* A render of the tree with another text or mode.
LEMMA ShownKeeps ==
    ASSUME SearchInv, NEW text \in Texts \cup {Search!Empty}, NEW m \in {"off", "filter", "search"},
           Search!Shown(text, m), filter' = text, mode' = m, input' \in Texts \cup {Search!Empty},
           tsTree' = tsTree, restricted' = restricted, focused' = focused
    PROVE  SearchInv'
<1> USE DEF Search!Shown, Search!InSearch
<1>0. \/ text = filter /\ Search!InSearch(text, m) = Search!InSearch(filter, mode)
      \/ ~(text = filter /\ Search!InSearch(text, m) = Search!InSearch(filter, mode))
  OBVIOUS
<1>1. CASE text = filter /\ Search!InSearch(text, m) = Search!InSearch(filter, mode)
  <2>1. /\ list' = list /\ tsGeneration' = tsGeneration /\ timer' = timer /\ current' = current /\ call' = call
    BY <1>1 DEF Search!hook
  <2>2. SearchTyped'
    BY <2>1 DEF SearchInv, SearchTyped
  <2>3. ListIsShown'
    BY <1>1, <2>1 DEF SearchInv, ListIsShown
  <2>4. TimerIsCurrent' /\ CallIsCurrent'
    BY <1>1, <2>1 DEF SearchInv, TimerIsCurrent, CallIsCurrent
  <2>5. Search!MarkIsAHit'
    BY <2>1 DEF SearchInv, Search!MarkIsAHit, Search!Listed
  <2> QED
    BY <2>2, <2>3, <2>4, <2>5 DEF SearchInv
<1>2. CASE ~(text = filter /\ Search!InSearch(text, m) = Search!InSearch(filter, mode))
  <2>1. call' = Search!Cancelled /\ current' = None
    BY <1>2
  <2>2. /\ call' \in [SearchCalls -> {Search!Idle} \cup Asked]
        /\ \A c \in SearchCalls : call'[c] \in Asked => call'[c].aborted
    BY <2>1, CancelsAll
  <2>3. CallIsCurrent'
    BY <2>1, <2>2 DEF CallIsCurrent
  <2>4. <<>> \in Seq(SearchEntries) /\ {<<>>[x] : x \in DOMAIN <<>>} = {}
    BY EmptyRange
  <2>5. CASE Search!InSearch(text, m)
    <3>1. PICK n \in Nat, g \in Nat :
             /\ list' = [mount |-> n, status |-> "loading", hits |-> <<>>, of |-> None, index |-> 0]
             /\ tsGeneration' = g /\ timer' = g
      <4>1. list.mount \in Nat /\ tsGeneration \in Nat
        BY DEF SearchInv, SearchTyped
      <4> DEFINE N == list.mount + (IF ~Search!InSearch(filter, mode) THEN 1 ELSE 0)
                 G == IF ~Search!InSearch(filter, mode) THEN 1 ELSE tsGeneration + 1
      <4>2. N \in Nat /\ G \in Nat
        BY <4>1
      <4>3. /\ list' = [mount |-> N, status |-> "loading", hits |-> <<>>, of |-> None, index |-> 0]
            /\ tsGeneration' = G /\ timer' = G
        BY <1>2, <2>5
      <4> QED
        BY <4>2, <4>3
    <3>2. SearchTyped'
      BY <2>1, <2>2, <2>4, <3>1 DEF SearchInv, SearchTyped
    <3>3. ListIsShown' /\ TimerIsCurrent'
      BY <2>1, <2>5, <3>1, SearchAssumption DEF ListIsShown, TimerIsCurrent
    <3>4. Search!MarkIsAHit'
      BY <2>4, <3>1 DEF Search!MarkIsAHit, Search!Listed, Search!Range
    <3> QED
      BY <2>3, <3>2, <3>3, <3>4 DEF SearchInv
  <2>6. CASE ~Search!InSearch(text, m)
    <3>1. list' = Search!Unmounted(list.mount) /\ timer' = None /\ tsGeneration' = 0
      BY <1>2, <2>6
    <3>2. SearchTyped'
      BY <2>1, <2>2, <2>4, <3>1 DEF SearchInv, SearchTyped, Search!Unmounted
    <3>3. ListIsShown' /\ TimerIsCurrent'
      BY <2>1, <2>6, <3>1 DEF ListIsShown, TimerIsCurrent, Search!Unmounted
    <3>4. Search!MarkIsAHit'
      BY <2>4, <3>1 DEF Search!MarkIsAHit, Search!Listed, Search!Range, Search!Unmounted
    <3> QED
      BY <2>3, <3>2, <3>3, <3>4 DEF SearchInv
  <2> QED
    BY <2>5, <2>6
<1> QED
  BY <1>1, <1>2

\* The debounce ends: the call is of the text the list shows.
LEMMA TimerFiresKeeps ==
    ASSUME SearchInv, NEW c \in SearchCalls, Search!TimerFires(c)
    PROVE  SearchInv'
<1> USE SearchAssumption DEF Search!ui, Search!host, Search!behind
<1>1. /\ timer # None /\ timer = tsGeneration /\ current = None /\ list.status = "loading"
      /\ timer \in Nat /\ call[c] = Search!Idle /\ timer' = None
      /\ filter' = filter /\ input' = input /\ mode' = mode /\ tsGeneration' = tsGeneration
      /\ restricted' = restricted /\ tsTree' = tsTree /\ focused' = focused
  BY DEF SearchInv, SearchTyped, TimerIsCurrent, Search!TimerFires
<1>2. TimerIsCurrent'
  BY <1>1 DEF TimerIsCurrent
<1>3. CASE /\ call' = [call EXCEPT ![c] = [state |-> "sent", query |-> filter, generation |-> timer,
                                           mount |-> list.mount, aborted |-> FALSE]]
           /\ current' = c
           /\ UNCHANGED list
  <2> DEFINE new == [state |-> "sent", query |-> filter, generation |-> timer, mount |-> list.mount,
                     aborted |-> FALSE]
  <2>1. new \in Asked /\ new.aborted = FALSE
    BY <1>1 DEF SearchInv, SearchTyped, Asked
  <2>2. call'[c] = new /\ \A d \in SearchCalls : d # c => call'[d] = call[d]
    BY <1>3 DEF SearchInv, SearchTyped
  <2>3. SearchTyped'
    <3>1. call' \in [SearchCalls -> {Search!Idle} \cup Asked]
      BY <1>3, <2>1 DEF SearchInv, SearchTyped
    <3> QED
      BY <1>1, <1>3, <3>1 DEF SearchInv, SearchTyped
  <2>4. ListIsShown'
    <3>1. current' # None /\ call'[current'].state = "sent"
      BY <1>3, <2>2
    <3> QED
      BY <1>1, <1>3, <3>1 DEF SearchInv, ListIsShown, Search!InSearch
  <2>5. CallIsCurrent'
    <3>1. c # None
      OBVIOUS
    <3>2. /\ call'[c] \in Asked /\ ~call'[c].aborted
          /\ call'[c].mount = list'.mount /\ call'[c].generation = tsGeneration'
          /\ call'[c].query = filter' /\ list'.status # "none"
      BY <1>1, <1>3, <2>1, <2>2
    <3>3. \A d \in SearchCalls : call'[d] \in Asked /\ d # c => call'[d].aborted
      BY <1>1, <2>2 DEF SearchInv, CallIsCurrent
    <3> QED
      BY <1>3, <3>1, <3>2, <3>3 DEF CallIsCurrent
  <2>6. Search!MarkIsAHit'
    BY <1>1, <1>3 DEF SearchInv, Search!MarkIsAHit, Search!Listed
  <2> QED
    BY <1>2, <2>3, <2>4, <2>5, <2>6 DEF SearchInv
<1>4. CASE /\ list' = [list EXCEPT !.status = "error", !.hits = <<>>]
           /\ UNCHANGED <<call, current>>
  <2>1. <<>> \in Seq(SearchEntries) /\ {<<>>[x] : x \in DOMAIN <<>>} = {}
    BY EmptyRange
  <2>2. /\ list' \in [mount : Nat, status : {"none", "loading", "ready", "error"}, hits : Seq(SearchEntries),
                      of : Texts \cup {Search!Empty, None}, index : Nat]
        /\ list'.status = "error" /\ list'.hits = <<>> /\ list'.mount = list.mount
    BY <1>4, <2>1 DEF SearchInv, SearchTyped
  <2>3. SearchTyped'
    BY <1>1, <1>4, <2>2 DEF SearchInv, SearchTyped
  <2>4. ListIsShown'
    BY <1>1, <2>2 DEF SearchInv, ListIsShown, Search!InSearch
  <2>5. CallIsCurrent'
    BY <1>1, <1>4 DEF SearchInv, CallIsCurrent
  <2>6. Search!MarkIsAHit'
    BY <2>1, <2>2 DEF Search!MarkIsAHit, Search!Listed, Search!Range
  <2> QED
    BY <1>2, <2>3, <2>4, <2>5, <2>6 DEF SearchInv
<1> QED
  BY <1>3, <1>4 DEF Search!TimerFires

\* A call that is done differs from what it was in nothing else.
LEMMA DoneCall ==
    ASSUME SearchTyped, NEW c \in SearchCalls, call[c] \in Asked,
           call' = [call EXCEPT ![c].state = "done"]
    PROVE  /\ call' \in [SearchCalls -> {Search!Idle} \cup Asked]
           /\ \A d \in SearchCalls : d # c => call'[d] = call[d]
           /\ call'[c] \in Asked /\ call'[c].aborted = call[c].aborted
           /\ call'[c].mount = call[c].mount /\ call'[c].generation = call[c].generation
           /\ call'[c].query = call[c].query
<1> DEFINE done == [call[c] EXCEPT !.state = "done"]
<1>1. done \in Asked
  BY DEF Asked
<1>2. /\ done.mount = call[c].mount /\ done.generation = call[c].generation /\ done.query = call[c].query
  BY DEF Asked
<1>3. done.aborted = call[c].aborted
  BY DEF Asked
<1>4. call' = [call EXCEPT ![c] = done]
  BY DEF SearchTyped
<1>5. call'[c] = done /\ \A d \in SearchCalls : d # c => call'[d] = call[d]
  BY <1>4 DEF SearchTyped
<1>6. call' \in [SearchCalls -> {Search!Idle} \cup Asked]
  BY <1>1, <1>4 DEF SearchTyped
<1> QED
  BY <1>1, <1>2, <1>3, <1>5, <1>6

\* The call that is still wanted is the one whose controller the hook holds.
LEMMA WantedIsCurrent ==
    ASSUME SearchInv, NEW c \in SearchCalls, call[c].state = "sent"
    PROVE  /\ call[c] \in Asked
           /\ Search!Wanted(c) => c = current /\ call[c].query = filter /\ list.status # "none" /\ timer = None
           /\ ~Search!Wanted(c) => c # current
<1>1. call[c] \in Asked
  BY IdleOrAsked DEF SearchInv
<1>2. c # None
  BY SearchAssumption
<1>3. Search!Wanted(c) => c = current
  BY <1>1 DEF SearchInv, CallIsCurrent, Search!Wanted
<1> QED
  BY <1>1, <1>2, <1>3 DEF SearchInv, CallIsCurrent, TimerIsCurrent, Search!Wanted

\* An answer, or a refusal, puts the list in a state that a call of its query ended in.
LEMMA SettledKeeps ==
    ASSUME SearchInv, NEW c \in SearchCalls, call[c].state = "sent",
           call' = [call EXCEPT ![c].state = "done"],
           \/ list' = list /\ ~Search!Wanted(c)
           \/ /\ Search!Wanted(c) /\ list'.status \in {"ready", "error"}
              /\ list'.status = "ready" => list'.of = call[c].query
              /\ list'.mount = list.mount,
           list' \in [mount : Nat, status : {"none", "loading", "ready", "error"}, hits : Seq(SearchEntries),
                      of : Texts \cup {Search!Empty, None}, index : Nat],
           Search!MarkIsAHit',
           UNCHANGED <<filter, input, mode, tsGeneration, timer, current, tsTree, focused>>
    PROVE  SearchInv'
<1>1. call[c] \in Asked
  BY WantedIsCurrent
<1>2. /\ call' \in [SearchCalls -> {Search!Idle} \cup Asked]
      /\ \A d \in SearchCalls : d # c => call'[d] = call[d]
      /\ call'[c] \in Asked /\ call'[c].aborted = call[c].aborted
      /\ call'[c].mount = call[c].mount /\ call'[c].generation = call[c].generation
      /\ call'[c].query = call[c].query
  BY <1>1, DoneCall DEF SearchInv
<1>3. SearchTyped'
  BY <1>2 DEF SearchInv, SearchTyped
<1>4. ListIsShown'
  <2>1. CASE list' = list /\ ~Search!Wanted(c)
    <3>1. c # current
      BY <2>1, WantedIsCurrent
    <3>2. current # None => current \in SearchCalls
      BY DEF SearchInv, SearchTyped
    <3>3. current # None => call'[current] = call[current]
      BY <1>2, <3>1, <3>2
    <3> QED
      BY <2>1, <3>3 DEF SearchInv, ListIsShown, Search!InSearch
  <2>2. CASE Search!Wanted(c) /\ list'.status \in {"ready", "error"} /\ (list'.status = "ready" => list'.of = call[c].query)
    BY <2>2, WantedIsCurrent DEF SearchInv, ListIsShown, Search!InSearch
  <2> QED
    BY <2>1, <2>2
<1>5. TimerIsCurrent'
  <2>1. list' = list \/ timer = None
    BY WantedIsCurrent
  <2> QED
    BY <2>1 DEF SearchInv, TimerIsCurrent
<1>6. CallIsCurrent'
  <2>1. \A d \in SearchCalls : /\ call'[d] \in Asked <=> call[d] \in Asked
                               /\ call'[d] \in Asked =>
                                    /\ call'[d].aborted = call[d].aborted /\ call'[d].mount = call[d].mount
                                    /\ call'[d].generation = call[d].generation
                                    /\ call'[d].query = call[d].query
    BY <1>1, <1>2
  <2>2. list'.mount = list.mount /\ (list.status # "none" => list'.status # "none")
    OBVIOUS
  <2>3. current # None => current \in SearchCalls
    BY DEF SearchInv, SearchTyped
  <2> QED
    BY <2>1, <2>2, <2>3 DEF SearchInv, CallIsCurrent
<1> QED
  BY <1>3, <1>4, <1>5, <1>6 DEF SearchInv

\* The listing of a page: entries of the host, none beyond a link if restricted.
LEMMA PageIsAdmitted ==
    ASSUME NEW query, NEW s \in Search!Listings(Search!Page(query))
    PROVE  LET hits == [k \in DOMAIN s |-> SearchOrder[s[k]]]
           IN  /\ hits \in Seq(SearchEntries)
               /\ restricted => Search!Range(hits) \cap Crossing = {}
<1> DEFINE P == Search!Page(query)
           hits == [k \in DOMAIN s |-> SearchOrder[s[k]]]
<1>1. DOMAIN SearchOrder = 1..Len(SearchOrder) /\ Len(SearchOrder) \in Nat
  BY SearchAssumption
<1>2. P \subseteq DOMAIN SearchOrder /\ \A i \in P : ~(restricted /\ SearchOrder[i] \in Crossing)
  BY DEF Search!Page, Search!First
<1>4. PICK n \in Nat : s \in [1..n -> P]
  BY <1>1 DEF Search!Listings, Search!SeqOf
<1> HIDE DEF P
<1>5. DOMAIN s = 1..n /\ \A k \in 1..n : s[k] \in P
  BY <1>4
<1>6. \A k \in 1..n : hits[k] \in SearchEntries /\ ~(restricted /\ hits[k] \in Crossing)
  BY <1>2, <1>5 DEF SearchEntries, Range
<1>7. hits \in [1..n -> SearchEntries]
  BY <1>5, <1>6
<1>8. hits \in Seq(SearchEntries)
  BY <1>7
<1>9. restricted => Search!Range(hits) \cap Crossing = {}
  BY <1>5, <1>6 DEF Search!Range
<1> QED
  BY <1>8, <1>9

\* An answer shows the hits of the text searched for, with the mark on the first.
LEMMA AnswerKeeps ==
    ASSUME SearchInv, NEW c \in SearchCalls, Search!Answer(c)
    PROVE  SearchInv'
<1> USE DEF Search!ui, Search!behind
<1>1. PICK s \in Search!Listings(Search!Page(call[c].query)) :
         list' = IF Search!Wanted(c)
                 THEN [list EXCEPT !.status = "ready", !.hits = [k \in DOMAIN s |-> SearchOrder[s[k]]],
                                   !.of = call[c].query, !.index = 0]
                 ELSE list
  BY DEF Search!Answer
<1>2. /\ call[c].state = "sent" /\ call' = [call EXCEPT ![c].state = "done"]
      /\ UNCHANGED <<filter, input, mode, tsGeneration, timer, current, tsTree, focused, restricted>>
  BY DEF Search!Answer
<1>3. PICK hits : hits = [k \in DOMAIN s |-> SearchOrder[s[k]]]
  OBVIOUS
<1>4. hits \in Seq(SearchEntries) /\ (restricted => Search!Range(hits) \cap Crossing = {})
  BY <1>3, PageIsAdmitted
<1>5. call[c] \in Asked
  BY <1>2, WantedIsCurrent
<1>6. CASE Search!Wanted(c)
  <2>1. list' = [list EXCEPT !.status = "ready", !.hits = hits, !.of = call[c].query, !.index = 0]
    BY <1>1, <1>3, <1>6
  <2>2. call[c].query \in Texts \cup {Search!Empty, None}
    BY <1>5 DEF Asked
  <2>3. /\ list' \in [mount : Nat, status : {"none", "loading", "ready", "error"}, hits : Seq(SearchEntries),
                      of : Texts \cup {Search!Empty, None}, index : Nat]
        /\ list'.status = "ready" /\ list'.hits = hits /\ list'.of = call[c].query
        /\ list'.index = 0 /\ list'.mount = list.mount
    BY <1>4, <2>1, <2>2 DEF SearchInv, SearchTyped
  <2>4. Search!MarkIsAHit'
    <3>1. hits # <<>> => 0 \in 0..(Len(hits) - 1)
      BY <1>4
    <3> QED
      BY <1>2, <1>4, <2>3, <3>1 DEF Search!MarkIsAHit, Search!Listed
  <2> QED
    BY <1>2, <1>6, <2>3, <2>4, SettledKeeps
<1>7. CASE ~Search!Wanted(c)
  <2>1. list' = list
    BY <1>1, <1>7
  <2>2. Search!MarkIsAHit'
    BY <1>2, <2>1 DEF SearchInv, Search!MarkIsAHit, Search!Listed
  <2>3. list' \in [mount : Nat, status : {"none", "loading", "ready", "error"}, hits : Seq(SearchEntries),
                   of : Texts \cup {Search!Empty, None}, index : Nat]
    BY <2>1 DEF SearchInv, SearchTyped
  <2> QED
    BY <1>2, <1>7, <2>1, <2>2, <2>3, SettledKeeps
<1> QED
  BY <1>6, <1>7

\* A refusal lists nothing.
LEMMA RefuseKeeps ==
    ASSUME SearchInv, NEW c \in SearchCalls, Search!Refuse(c)
    PROVE  SearchInv'
<1> USE DEF Search!ui, Search!behind, Search!host
<1>1. /\ call[c].state = "sent" /\ call' = [call EXCEPT ![c].state = "done"]
      /\ list' = IF Search!Wanted(c) THEN [list EXCEPT !.status = "error", !.hits = <<>>] ELSE list
      /\ UNCHANGED <<filter, input, mode, tsGeneration, timer, current, tsTree, focused, restricted>>
  BY DEF Search!Refuse
<1>2. CASE Search!Wanted(c)
  <2>1. <<>> \in Seq(SearchEntries) /\ {<<>>[x] : x \in DOMAIN <<>>} = {}
    BY EmptyRange
  <2>2. /\ list' \in [mount : Nat, status : {"none", "loading", "ready", "error"}, hits : Seq(SearchEntries),
                      of : Texts \cup {Search!Empty, None}, index : Nat]
        /\ list'.status = "error" /\ list'.hits = <<>> /\ list'.mount = list.mount
    BY <1>1, <1>2, <2>1 DEF SearchInv, SearchTyped
  <2>3. Search!MarkIsAHit'
    BY <2>1, <2>2 DEF Search!MarkIsAHit, Search!Listed, Search!Range
  <2> QED
    BY <1>1, <1>2, <2>2, <2>3, SettledKeeps
<1>3. CASE ~Search!Wanted(c)
  <2>1. list' = list
    BY <1>1, <1>3
  <2>2. Search!MarkIsAHit'
    BY <1>1, <2>1 DEF SearchInv, Search!MarkIsAHit, Search!Listed
  <2>3. list' \in [mount : Nat, status : {"none", "loading", "ready", "error"}, hits : Seq(SearchEntries),
                   of : Texts \cup {Search!Empty, None}, index : Nat]
    BY <2>1 DEF SearchInv, SearchTyped
  <2> QED
    BY <1>1, <1>3, <2>1, <2>2, <2>3, SettledKeeps
<1> QED
  BY <1>2, <1>3

\* A step that leaves the hook alone, but for the mark, and keeps the mark on a hit.
LEMMA MarkKeeps ==
    ASSUME SearchInv, NEW i \in Nat,
           \/ list' = list
           \/ list' = [list EXCEPT !.index = i] /\ i \in 0..(Len(list.hits) - 1),
           UNCHANGED <<filter, input, mode, tsGeneration, timer, current, call, restricted>>,
           tsTree' \subseteq tsTree, focused' \in Range(SearchRows) \cup {None}
    PROVE  SearchInv'
<1>1. /\ list' \in [mount : Nat, status : {"none", "loading", "ready", "error"}, hits : Seq(SearchEntries),
                    of : Texts \cup {Search!Empty, None}, index : Nat]
      /\ list'.mount = list.mount /\ list'.status = list.status /\ list'.hits = list.hits /\ list'.of = list.of
      /\ list'.index = list.index \/ list'.index \in 0..(Len(list.hits) - 1)
  BY DEF SearchInv, SearchTyped
<1>2. SearchTyped'
  BY <1>1 DEF SearchInv, SearchTyped
<1>3. ListIsShown'
  BY <1>1 DEF SearchInv, ListIsShown, Search!InSearch
<1>4. TimerIsCurrent'
  BY <1>1 DEF SearchInv, TimerIsCurrent
<1>5. CallIsCurrent'
  BY <1>1 DEF SearchInv, CallIsCurrent
<1>6. Search!MarkIsAHit'
  BY <1>1 DEF SearchInv, Search!MarkIsAHit, Search!Listed
<1> QED
  BY <1>2, <1>3, <1>4, <1>5, <1>6 DEF SearchInv

\* A cursor key stays within what it moves over.
LEMMA MovedStays ==
    ASSUME NEW last \in Nat, NEW i \in 0..last, NEW key \in Search!Keys
    PROVE  Search!Moved(i, key, last) \in 0..last
  BY DEF Search!Moved, Search!Keys

\* Keys of the cursor, in the list and in the tree behind it.
LEMMA CursorKeyKeeps ==
    ASSUME SearchInv, NEW key \in Search!Keys, NEW inList \in BOOLEAN, Search!CursorKey(key, inList)
    PROVE  SearchInv'
<1> USE DEF Search!ui, Search!host
<1>1. /\ inList => Search!Listed
      /\ list' = IF inList THEN [list EXCEPT !.index = Search!Marked(@, key)] ELSE list
      /\ focused' = IF focused = None /\ key \in {"down", "up"} THEN Head(SearchRows)
                    ELSE SearchRows[Search!Moved(Search!Place - 1, key, Len(SearchRows) - 1) + 1]
      /\ UNCHANGED <<filter, input, mode, tsGeneration, timer, current, call, restricted, tsTree>>
  BY DEF Search!CursorKey
<1>2. focused' \in Range(SearchRows) \cup {None}
  <2>1. /\ SearchRows \in Seq(Range(SearchRows)) /\ Len(SearchRows) \in Nat \ {0}
        /\ DOMAIN SearchRows = 1..Len(SearchRows)
        /\ Head(SearchRows) \in Range(SearchRows)
    BY SequenceFacts
  <2>2. focused \in Range(SearchRows) \cup {None}
    BY DEF SearchInv, SearchTyped
  <2>3. PICK row : row = IF focused = None THEN Head(SearchRows) ELSE focused
    OBVIOUS
  <2>4. \E i \in 1..Len(SearchRows) : SearchRows[i] = row
    BY <2>1, <2>2, <2>3 DEF Range
  <2>5. Search!Place \in 1..Len(SearchRows)
    BY <2>3, <2>4 DEF Search!Place
  <2>6. PICK j : j = Search!Moved(Search!Place - 1, key, Len(SearchRows) - 1)
    OBVIOUS
  <2>7. j \in 0..(Len(SearchRows) - 1)
    BY <2>1, <2>5, <2>6, MovedStays
  <2>8. SearchRows[j + 1] \in Range(SearchRows)
    BY <2>1, <2>7
  <2> QED
    BY <1>1, <2>1, <2>6, <2>8
<1>3. CASE inList
  <2>1. /\ list.index \in 0..(Len(list.hits) - 1) /\ Len(list.hits) \in Nat
    BY <1>1, <1>3 DEF SearchInv, SearchTyped, Search!MarkIsAHit
  <2>2. PICK i : i = Search!Marked(list.index, key)
    OBVIOUS
  <2>3. i \in 0..(Len(list.hits) - 1) /\ i \in Nat
    <3>1. Len(list.hits) - 1 \in Nat
      BY <2>1
    <3>2. i = Search!Moved(list.index, key, Len(list.hits) - 1)
      BY <2>2 DEF Search!Marked
    <3>3. i \in 0..(Len(list.hits) - 1)
      BY <2>1, <3>1, <3>2, MovedStays
    <3> QED
      BY <3>1, <3>3
  <2>4. list' = [list EXCEPT !.index = i]
    BY <1>1, <1>3, <2>2
  <2> QED
    BY <1>1, <1>2, <2>3, <2>4, MarkKeeps
<1>4. CASE ~inList
  <2>1. list' = list /\ 0 \in Nat
    BY <1>1, <1>4
  <2> QED
    BY <1>1, <1>2, <2>1, MarkKeeps
<1> QED
  BY <1>3, <1>4

\* A text typed, cleared, restored or searched for in another mode.
LEMMA RefilterKeeps ==
    ASSUME SearchInv, NEW text \in Texts \cup {Search!Empty}, NEW m \in {"off", "filter", "search"},
           NEW typed \in BOOLEAN, Search!Refilter(text, m, typed), focused' = focused
    PROVE  SearchInv'
<1>1. input' \in Texts \cup {Search!Empty}
  BY DEF SearchInv, SearchTyped, Search!Refilter
<1>2. filter' = text /\ mode' = m /\ Search!Shown(text, m) /\ tsTree' = tsTree /\ restricted' = restricted
  BY DEF Search!Refilter, Search!host
<1> QED
  BY <1>1, <1>2, ShownKeeps

\* Every step of the search list keeps its invariant.
LEMMA SearchNextInv ==
    ASSUME SearchInv, Search!Next
    PROVE  SearchInv'
<1> USE DEF Search!ui, Search!hook, Search!host, Search!behind
<1>0. /\ filter \in Texts \cup {Search!Empty} /\ mode \in {"off", "filter", "search"}
      /\ focused \in Range(SearchRows) \cup {None}
  BY DEF SearchInv, SearchTyped
<1>1. ASSUME NEW c \in SearchCalls, Search!TimerFires(c) \/ Search!Answer(c) \/ Search!Refuse(c)
      PROVE  SearchInv'
  BY <1>1, TimerFiresKeeps, AnswerKeeps, RefuseKeeps
<1>2. ASSUME NEW t \in Texts, Search!TypeText(t)
      PROVE  SearchInv'
  BY <1>0, <1>2, RefilterKeeps DEF Search!TypeText
<1>3. ASSUME NEW t \in Texts, NEW m \in {"filter", "search"}, Search!RestoreState(t, m)
      PROVE  SearchInv'
  BY <1>3, RefilterKeeps DEF Search!RestoreState
<1>4. CASE Search!InputEscape
  BY <1>0, <1>4, RefilterKeeps DEF Search!InputEscape
<1>5. ASSUME NEW m \in {"filter", "search"}, Search!SetMode(m)
      PROVE  SearchInv'
  BY <1>0, <1>5, RefilterKeeps DEF Search!SetMode
<1>6. CASE Search!ClearFilter
  BY <1>0, <1>6, RefilterKeeps DEF Search!ClearFilter
<1>7. ASSUME NEW inList \in BOOLEAN, NEW key \in Search!Keys, Search!CursorKey(key, inList)
      PROVE  SearchInv'
  BY <1>7, CursorKeyKeeps
<1>8. ASSUME NEW inList \in BOOLEAN, Search!EnterKey(inList)
      PROVE  SearchInv'
  BY <1>0, <1>8, MarkKeeps DEF Search!EnterKey
<1>9. ASSUME NEW i \in 0..SearchLimit, Search!Pick(i)
      PROVE  SearchInv'
  <2>1. /\ i \in 0..(Len(list.hits) - 1) /\ list' = [list EXCEPT !.index = i] /\ i \in Nat
        /\ UNCHANGED <<filter, input, mode, tsGeneration, timer, current, call, restricted, tsTree, focused>>
    BY <1>9 DEF Search!Pick
  <2> QED
    BY <1>0, <2>1, MarkKeeps
<1>10. CASE Search!DeleteKey
  BY <1>0, <1>10, MarkKeeps DEF Search!DeleteKey
<1>11. CASE Search!TreeEscape
  BY <1>0, <1>11, RefilterKeeps DEF Search!TreeEscape
<1>12. ASSUME NEW e \in Search!Range(SearchOrder), Search!HostDeletes(e)
       PROVE  SearchInv'
  <2>1. /\ list' = list /\ tsTree' \subseteq tsTree /\ 0 \in Nat
        /\ UNCHANGED <<filter, input, mode, tsGeneration, timer, current, call, restricted, focused>>
    BY <1>12 DEF Search!HostDeletes
  <2> QED
    BY <1>0, <2>1, MarkKeeps
<1> QED
  BY <1>1, <1>2, <1>3, <1>4, <1>5, <1>6, <1>7, <1>8, <1>9, <1>10, <1>11, <1>12 DEF Search!Next

(* For any texts, entries, ranking, page size and number of calls, and in  *)
(* whatever order timers, answers, refusals, keys and deletions come       *)
(* (useSearchResults.ts, SearchResultList.tsx, host.ts search): the hits   *)
(* listed are those of the text searched for, a restricted session is      *)
(* shown none beyond a link, the mark is on a hit, and a list that shows   *)
(* as loading has its timer or its call behind it.                         *)
THEOREM SearchStaysSound == UiSpec => []SearchIsSound
<1> DEFINE Inv == part = "search" => SearchInv
<1>1. UiInit => Inv
  BY SearchInitInv DEF UiInit
<1>2. Inv /\ [UiNext]_uiVars => Inv'
  <2> SUFFICES ASSUME Inv, [UiNext]_uiVars, part' = "search" PROVE SearchInv'
    OBVIOUS
  <2>1. part = "search" /\ SearchInv
    BY DEF UiNext, uiVars
  <2>2. CASE UiNext
    BY <2>1, <2>2, SearchNextInv DEF UiNext
  <2>3. CASE UNCHANGED uiVars
    <3>1. UNCHANGED <<filter, input, mode, tsGeneration, timer, current, call, restricted, list, tsTree, focused>>
      BY <2>3 DEF uiVars, searching
    <3>2. focused \in Range(SearchRows) \cup {None} /\ 0 \in Nat
      BY <2>1 DEF SearchInv, SearchTyped
    <3> QED
      BY <2>1, <3>1, <3>2, MarkKeeps
  <2> QED
    BY <2>2, <2>3
<1>3. Inv => SearchIsSound
  BY SearchInvSuffices DEF SearchIsSound
<1> QED
  BY <1>1, <1>2, <1>3, PTL DEF UiSpec

-----------------------------------------------------------------------------
(* The badges of the windows. *)

Versions == 0..MaxVersion
Entries == UNION {[D -> Versions] : D \in SUBSET BadgeIds}
Frames == [by : Badges!Providers, entries : Entries, replaceAll : {TRUE, FALSE}]
Badged == UNION {[D -> [Badges!Slots -> Versions]] : D \in SUBSET BadgeIds}
Deltas == [decorations : Badged, added : SUBSET BadgeIds, removed : SUBSET BadgeIds]
Shown == [Badges!Slots -> [BadgeIds -> Versions]]
WindowSet == [state : {"new", "attached", "closed"}, mirror : SUBSET BadgeIds, shown : Shown, late : {TRUE, FALSE}]
AskedJobs == [state : {"asked"}, generation : Nat]
ReadJobs == [state : {"read", "resolving"}, generation : Nat, got : Versions]
JobSet == {Badges!NoJob} \cup AskedJobs \cup ReadJobs

ProviderTyped ==
    /\ setup \in BadgeSetups /\ status \in Versions
    /\ news \subseteq Badges!Providers /\ batch \subseteq Badges!Providers /\ disposed \subseteq Badges!Providers
    /\ job \in [Badges!Providers -> [BadgeJobs -> JobSet]]
    /\ generation \in [Badges!Providers -> Nat]
    /\ map \in [Badges!Providers -> [BadgeIds -> Versions]]

HostTyped ==
    /\ store \in Shown /\ deTree \subseteq BadgeIds /\ pending \subseteq BadgeIds /\ gone \subseteq BadgeIds
    /\ knownIds \in [Badges!Providers -> SUBSET BadgeIds]
    /\ up \in [Windows -> Seq(Frames)] /\ down \in [Windows -> Seq(Deltas)]
    /\ window \in [Windows -> WindowSet]

\* Facts of the constants that every step below needs.
LEMMA BadgeFacts ==
    ASSUME setup \in BadgeSetups
    PROVE  /\ setup.at \in [Badges!Providers -> Windows \cup {0}] /\ 0 \notin Windows
           /\ 0 \in Versions /\ Versions \subseteq Nat /\ IsFiniteSet(Badges!Providers)
           /\ \A p \in Badges!Providers : BadgeSlot[p] \in Badges!Slots
  BY DecorationsAssumption DEF Badges!Providers, Badges!Slots, Versions

\* A function on some of the entries.
LEMMA EntriesFacts ==
    /\ \A D \in SUBSET BadgeIds : \A e \in [D -> Versions] : e \in Entries
    /\ \A e \in Entries : DOMAIN e \subseteq BadgeIds /\ \A i \in DOMAIN e : e[i] \in Versions
    /\ \A D \in SUBSET BadgeIds : \A e \in [D -> [Badges!Slots -> Versions]] : e \in Badged
    /\ \A e \in Badged : DOMAIN e \subseteq BadgeIds /\ \A i \in DOMAIN e : e[i] \in [Badges!Slots -> Versions]
<1>1. \A D \in SUBSET BadgeIds : \A e \in [D -> Versions] : e \in Entries
  BY DEF Entries
<1>2. \A e \in Entries : DOMAIN e \subseteq BadgeIds /\ \A i \in DOMAIN e : e[i] \in Versions
  BY DEF Entries
<1>3. \A D \in SUBSET BadgeIds : \A e \in [D -> [Badges!Slots -> Versions]] : e \in Badged
  BY DEF Badged
<1>4. \A e \in Badged : DOMAIN e \subseteq BadgeIds /\ \A i \in DOMAIN e : e[i] \in [Badges!Slots -> Versions]
  BY DEF Badged
<1> QED
  BY <1>1, <1>2, <1>3, <1>4

\* What a frame carries.
LEMMA FrameFacts ==
    ASSUME NEW p \in Badges!Providers, NEW e \in Entries, NEW all \in {TRUE, FALSE}
    PROVE  /\ Badges!Frame(p, e, all) \in Frames
           /\ Badges!Frame(p, e, all).by = p /\ Badges!Frame(p, e, all).entries = e
           /\ Badges!Frame(p, e, all).replaceAll = all
  BY DEF Badges!Frame, Frames

\* pushDecorationsForIds: what is pushed of a map, and what is recorded of it.
LEMMA PushedFacts ==
    ASSUME NEW p \in Badges!Providers, NEW m \in [BadgeIds -> Versions], NEW ids \in SUBSET BadgeIds,
           NEW cleared
    PROVE  LET e == Badges!Pushed(p, m, ids, cleared)
           IN  /\ e \in Entries /\ DOMAIN e \subseteq ids
               /\ \A i \in DOMAIN e : e[i] = m[i]
               /\ \A i \in ids : m[i] # 0 \/ i \in knownIds[p] => i \in DOMAIN e
<1> DEFINE D == {k \in ids : m[k] # 0 \/ k \in knownIds[p] \/ k \in cleared}
           e == [i \in D |-> m[i]]
<1>1. e \in [D -> Versions] /\ D \in SUBSET BadgeIds
  OBVIOUS
<1>2. e \in Entries
  BY <1>1, EntriesFacts
<1>3. Badges!Pushed(p, m, ids, cleared) = e
  BY DEF Badges!Pushed
<1> QED
  BY <1>2, <1>3

\* An empty frame carries no badge.
LEMMA NoEntriesFacts == Badges!NoEntries \in Entries /\ DOMAIN Badges!NoEntries = {}
<1>1. 0 \in Versions
  BY DecorationsAssumption DEF Versions
<1>2. Badges!NoEntries \in [{} -> Versions] /\ {} \in SUBSET BadgeIds
  BY <1>1 DEF Badges!NoEntries
<1> QED
  BY <1>2, EntriesFacts DEF Badges!NoEntries

-----------------------------------------------------------------------------
(* A provider and its recomputes. *)

Busy(p, j) == job[p][j] # Badges!NoJob
Coming(p) == p \in news \/ p \in batch
Right(p) == \A i \in deTree : map[p][i] = IF i \in BadgeMarks[status] THEN status ELSE 0
Running(p) == \E j \in BadgeJobs : Busy(p, j) /\ Badges!Newest(p, j)

\* Recomputes are numbered, and one that is not alone says so; a provider that
\* has begun is where it can be reached.
JobsNumbered(p) ==
    /\ \A j \in BadgeJobs : Busy(p, j) => job[p][j].generation <= generation[p] /\ generation[p] > 0
    /\ p \notin overlapped => \A j, k \in BadgeJobs : Busy(p, j) /\ Busy(p, k) => j = k
    /\ p \notin overlapped /\ p \notin disposed => \A j \in BadgeJobs : Busy(p, j) => Badges!Newest(p, j)
Begun(p) ==
    /\ generation[p] = 0 => p \in behind /\ map[p] = Badges!Bare
    /\ p \notin disposed /\ setup.at[p] # 0 =>
          /\ window[setup.at[p]].state # "closed"
          /\ window[setup.at[p]].state = "new" => generation[p] = 0

\* What the newest recompute read is the present status, unless the service's
\* news is still under way; so is the map, unless the newest has not ended.
ReadIsPresent(p) ==
    p \notin disposed => \A j \in BadgeJobs :
        job[p][j] \in ReadJobs /\ Badges!Newest(p, j) => job[p][j].got = status \/ Coming(p)
MapIsPresent(p) ==
    p \notin disposed /\ p \notin behind /\ (p \in overlapped => p \in setup.guarded) =>
        Right(p) \/ Coming(p) \/ Running(p)

ProviderOK(p) == JobsNumbered(p) /\ Begun(p) /\ ReadIsPresent(p) /\ MapIsPresent(p)

\* A job is idle, asked or read.
LEMMA JobKinds ==
    ASSUME ProviderTyped, NEW p \in Badges!Providers, NEW j \in BadgeJobs
    PROVE  /\ job[p][j] \in JobSet
           /\ job[p][j].state = "asked" <=> job[p][j] \in AskedJobs
           /\ job[p][j].state \in {"read", "resolving"} <=> job[p][j] \in ReadJobs
           /\ Busy(p, j) <=> job[p][j] \in AskedJobs \cup ReadJobs
           /\ ~(job[p][j] \in AskedJobs /\ job[p][j] \in ReadJobs)
           /\ Busy(p, j) => job[p][j].generation \in Nat
<1>1. job[p][j] \in JobSet
  BY DEF ProviderTyped
<1> QED
  BY <1>1 DEF JobSet, AskedJobs, ReadJobs, Badges!NoJob, Busy

\* A step that leaves a provider alone: entries may go, windows may attach.
LEMMA ProviderLeftAlone ==
    ASSUME NEW q \in Badges!Providers, ProviderOK(q),
           setup' = setup, status' = status, deTree' \subseteq deTree,
           job'[q] = job[q], generation'[q] = generation[q], map'[q] = map[q],
           q \in news' <=> q \in news, q \in batch' <=> q \in batch, q \in disposed' <=> q \in disposed,
           q \in overlapped' <=> q \in overlapped, q \in behind' <=> q \in behind,
           setup.at[q] # 0 => \/ window'[setup.at[q]].state = window[setup.at[q]].state
                              \/ window'[setup.at[q]].state = "attached"
    PROVE  ProviderOK(q)'
<1> USE DEF Busy, Coming, Badges!Newest
<1>1. JobsNumbered(q)'
  BY DEF ProviderOK, JobsNumbered
<1>2. Begun(q)'
  BY DEF ProviderOK, Begun
<1>3. ReadIsPresent(q)'
  BY DEF ProviderOK, ReadIsPresent
<1>4. MapIsPresent(q)'
  <2>1. Right(q) => Right(q)'
    BY DEF Right
  <2>2. Running(q) => Running(q)'
    BY DEF Running
  <2> QED
    BY <2>1, <2>2 DEF ProviderOK, MapIsPresent
<1> QED
  BY <1>1, <1>2, <1>3, <1>4 DEF ProviderOK

\* recompute: the new job is the newest.
LEMMA BeganJob ==
    ASSUME ProviderTyped, NEW p \in Badges!Providers, NEW j \in BadgeJobs, Badges!Free(p, j), Badges!Began(p, j)
    PROVE  /\ job' \in [Badges!Providers -> [BadgeJobs -> JobSet]]
           /\ generation' \in [Badges!Providers -> Nat] /\ generation'[p] = generation[p] + 1
           /\ job'[p][j] \in AskedJobs /\ job'[p][j].generation = generation'[p]
           /\ \A k \in BadgeJobs : k # j => job'[p][k] = job[p][k]
           /\ \A q \in Badges!Providers : q # p =>
                 /\ job'[q] = job[q] /\ generation'[q] = generation[q]
                 /\ q \in overlapped' <=> q \in overlapped
           /\ p \notin overlapped' => p \notin overlapped /\ \A k \in BadgeJobs : ~Busy(p, k)
<1> DEFINE new == [state |-> "asked", generation |-> generation[p] + 1]
<1>1. new \in AskedJobs /\ new \in JobSet
  BY DEF ProviderTyped, AskedJobs, JobSet
<1>2. job' = [job EXCEPT ![p] = [job[p] EXCEPT ![j] = new]]
  BY DEF ProviderTyped, Badges!Began
<1>3. [job[p] EXCEPT ![j] = new] \in [BadgeJobs -> JobSet]
  BY <1>1 DEF ProviderTyped
<1>4. job' \in [Badges!Providers -> [BadgeJobs -> JobSet]]
  BY <1>2, <1>3 DEF ProviderTyped
<1>5. job'[p] = [job[p] EXCEPT ![j] = new] /\ \A q \in Badges!Providers : q # p => job'[q] = job[q]
  BY <1>2 DEF ProviderTyped
<1>6. job'[p][j] = new /\ \A k \in BadgeJobs : k # j => job'[p][k] = job[p][k]
  BY <1>5 DEF ProviderTyped
<1>7. /\ generation' \in [Badges!Providers -> Nat] /\ generation'[p] = generation[p] + 1
      /\ \A q \in Badges!Providers : q # p => generation'[q] = generation[q]
  BY DEF ProviderTyped, Badges!Began
<1>8. /\ \A q \in Badges!Providers : q # p => (q \in overlapped' <=> q \in overlapped)
      /\ p \notin overlapped' => p \notin overlapped /\ \A k \in BadgeJobs : ~Busy(p, k)
  BY DEF Badges!Began, Busy
<1> QED
  BY <1>1, <1>4, <1>5, <1>6, <1>7, <1>8

\* A recompute that begins, whatever it takes from the batch.
LEMMA BeganKeeps ==
    ASSUME ProviderTyped, NEW p \in Badges!Providers, NEW j \in BadgeJobs, Badges!Free(p, j), Badges!Began(p, j),
           ProviderOK(p), Badges!Live(p),
           UNCHANGED <<setup, status, map, disposed, behind, deTree, window>>
    PROVE  ProviderOK(p)'
<1> USE DEF Busy, Badges!Newest
<1>1. /\ generation'[p] = generation[p] + 1 /\ generation[p] \in Nat
      /\ job'[p][j] \in AskedJobs /\ job'[p][j].generation = generation'[p]
      /\ \A k \in BadgeJobs : k # j => job'[p][k] = job[p][k]
      /\ p \notin overlapped' => p \notin overlapped /\ \A k \in BadgeJobs : ~Busy(p, k)
      /\ job'[p][j] # Badges!NoJob /\ job'[p][j] \notin ReadJobs
  <2>1. \A r \in AskedJobs : r # Badges!NoJob /\ r \notin ReadJobs
    BY DEF AskedJobs, ReadJobs, Badges!NoJob
  <2> QED
    BY <2>1, BeganJob DEF ProviderTyped
<1>2. ASSUME NEW k \in BadgeJobs, k # j, Busy(p, k)
      PROVE  job[p][k].generation \in Nat /\ job[p][k].generation <= generation[p] /\ job'[p][k] = job[p][k]
  BY <1>1, <1>2, JobKinds DEF ProviderOK, JobsNumbered
<1>3. JobsNumbered(p)'
  <2>1. ASSUME NEW k \in BadgeJobs, job'[p][k] # Badges!NoJob
        PROVE  job'[p][k].generation <= generation'[p] /\ generation'[p] > 0
    BY <1>1, <1>2, <2>1
  <2>2. ASSUME p \notin overlapped', NEW k \in BadgeJobs, job'[p][k] # Badges!NoJob
        PROVE  k = j
    BY <1>1, <2>2
  <2> QED
    BY <1>1, <2>1, <2>2 DEF JobsNumbered
<1>4. Begun(p)'
  BY <1>1 DEF ProviderOK, Begun, Badges!Live, Badges!Reach, Badges!At
<1>5. ReadIsPresent(p)'
  <2>1. ASSUME NEW k \in BadgeJobs, job'[p][k] \in ReadJobs
        PROVE  job'[p][k].generation # generation'[p]
    <3>1. k # j /\ job[p][k] \in ReadJobs
      BY <1>1, <2>1
    <3>2. Busy(p, k)
      BY <3>1, JobKinds
    <3> QED
      BY <1>1, <1>2, <3>1, <3>2
  <2> QED
    BY <2>1 DEF ReadIsPresent
<1>6. MapIsPresent(p)'
  BY <1>1 DEF MapIsPresent, Running
<1> QED
  BY <1>3, <1>4, <1>5, <1>6 DEF ProviderOK

ProviderInv == ProviderTyped /\ \A p \in Badges!Providers : ProviderOK(p)

\* A provider that has begun and is not disposed is reached.
LEMMA BegunIsLive ==
    ASSUME ProviderInv, HostTyped, NEW p \in Badges!Providers, p \notin disposed, generation[p] # 0
    PROVE  Badges!Live(p)
<1>1. setup.at[p] \in Windows \cup {0}
  BY BadgeFacts DEF ProviderInv, ProviderTyped
<1>2. \A w \in Windows : window[w].state \in {"new", "attached", "closed"}
  BY DEF HostTyped, WindowSet
<1>3. Begun(p)
  BY DEF ProviderInv, ProviderOK
<1> QED
  BY <1>1, <1>2, <1>3 DEF Begun, Badges!Live, Badges!Reach, Badges!At

\* The service's status changes: every provider that has begun is told.
LEMMA ChangeProvider ==
    ASSUME ProviderInv, HostTyped, Badges!Change
    PROVE  ProviderInv'
<1> USE DEF Badges!host
<1>1. /\ status < MaxVersion /\ status' = status + 1
      /\ news' = {p \in Badges!Providers : Badges!Live(p) /\ generation[p] > 0}
      /\ UNCHANGED <<setup, batch, job, generation, map, disposed, overlapped, behind, window, deTree>>
  BY DEF Badges!Change
<1>2. ProviderTyped'
  <2>1. status' \in Versions
    BY <1>1, DecorationsAssumption DEF ProviderInv, ProviderTyped, Versions
  <2> QED
    BY <1>1, <2>1 DEF ProviderInv, ProviderTyped
<1>3. ASSUME NEW p \in Badges!Providers
      PROVE  ProviderOK(p)'
  <2> USE DEF Busy, Coming, Badges!Newest
  <2>1. ProviderOK(p) /\ generation[p] \in Nat
    BY DEF ProviderInv, ProviderTyped
  <2>2. JobsNumbered(p)' /\ Begun(p)'
    BY <1>1, <2>1 DEF ProviderOK, JobsNumbered, Begun
  <2>3. p \notin disposed /\ generation[p] # 0 => p \in news'
    BY <1>1, <2>1, BegunIsLive
  <2>4. ReadIsPresent(p)'
    <3>1. ASSUME NEW j \in BadgeJobs, job[p][j] \in ReadJobs
          PROVE  generation[p] # 0
      BY <2>1, <3>1, JobKinds DEF ProviderInv, ProviderOK, JobsNumbered
    <3> QED
      BY <1>1, <2>3, <3>1 DEF ReadIsPresent
  <2>5. MapIsPresent(p)'
    BY <1>1, <2>1, <2>3 DEF ProviderOK, Begun, MapIsPresent
  <2> QED
    BY <2>2, <2>4, <2>5 DEF ProviderOK
<1> QED
  BY <1>2, <1>3 DEF ProviderInv

\* A recompute begins, by registration, from the batch or by refresh().
LEMMA BeganProvider ==
    ASSUME ProviderInv, NEW p \in Badges!Providers, NEW j \in BadgeJobs, Badges!Free(p, j), Badges!Began(p, j),
           Badges!Live(p), batch' = batch \ {p} \/ batch' = batch,
           UNCHANGED <<setup, status, news, map, disposed, behind, deTree, window>>
    PROVE  ProviderInv'
<1>1. ProviderTyped
  BY DEF ProviderInv
<1>2. ProviderTyped'
  BY <1>1, BeganJob DEF ProviderTyped
<1>3. ASSUME NEW q \in Badges!Providers
      PROVE  ProviderOK(q)'
  <2>1. CASE q = p
    BY <1>1, <2>1, BeganKeeps DEF ProviderInv
  <2>2. CASE q # p
    <3>1. ProviderOK(q) /\ (q \in batch' <=> q \in batch)
      BY <2>2 DEF ProviderInv
    <3>2. job'[q] = job[q] /\ generation'[q] = generation[q] /\ (q \in overlapped' <=> q \in overlapped)
      BY <1>1, <2>2, BeganJob
    <3> QED
      BY <3>1, <3>2, ProviderLeftAlone
  <2> QED
    BY <2>1, <2>2
<1> QED
  BY <1>2, <1>3 DEF ProviderInv

\* client.onChange.
LEMMA HearProvider ==
    ASSUME ProviderInv, HostTyped, NEW p \in Badges!Providers, Badges!Hear(p)
    PROVE  ProviderInv'
<1> USE DEF Badges!host
<1>1. /\ p \in news /\ news' = news \ {p}
      /\ batch' = IF Badges!Live(p) THEN batch \cup {p} ELSE batch
      /\ UNCHANGED <<setup, status, job, generation, map, disposed, overlapped, behind, window, deTree>>
  BY DEF Badges!Hear
<1>2. ProviderTyped'
  BY <1>1 DEF ProviderInv, ProviderTyped
<1>3. ASSUME NEW q \in Badges!Providers
      PROVE  ProviderOK(q)'
  <2> USE DEF Busy, Coming, Badges!Newest
  <2>1. CASE q # p
    <3>1. ProviderOK(q) /\ (q \in news' <=> q \in news) /\ (q \in batch' <=> q \in batch)
      BY <1>1, <2>1 DEF ProviderInv
    <3> QED
      BY <1>1, <3>1, ProviderLeftAlone
  <2>2. CASE q = p
    <3>1. ProviderOK(q)
      BY DEF ProviderInv
    <3>2. JobsNumbered(q)' /\ Begun(q)'
      BY <1>1, <3>1 DEF ProviderOK, JobsNumbered, Begun
    <3>3. q \notin disposed /\ generation[q] # 0 => q \in batch'
      BY <1>1, <2>2, BegunIsLive
    <3>4. ReadIsPresent(q)'
      <4>1. ASSUME NEW j \in BadgeJobs, job[q][j] \in ReadJobs
            PROVE  generation[q] # 0
        BY <3>1, <4>1, JobKinds DEF ProviderInv, ProviderTyped, ProviderOK, JobsNumbered
      <4> QED
        BY <1>1, <3>3, <4>1 DEF ReadIsPresent
    <3>5. MapIsPresent(q)'
      BY <1>1, <3>1, <3>3 DEF ProviderOK, Begun, MapIsPresent
    <3> QED
      BY <3>2, <3>4, <3>5 DEF ProviderOK
  <2> QED
    BY <2>1, <2>2
<1> QED
  BY <1>2, <1>3 DEF ProviderInv

\* dispose: the generation moves on, so what is under way is not published.
LEMMA DisposeProvider ==
    ASSUME ProviderInv, NEW p \in Badges!Providers, Badges!dispose(p)
    PROVE  ProviderInv'
<1>1. /\ disposed' = disposed \cup {p} /\ batch' = batch \ {p}
      /\ generation' = [generation EXCEPT ![p] = @ + 1] /\ map' = [map EXCEPT ![p] = Badges!Bare]
      /\ UNCHANGED <<setup, status, news, job, overlapped, behind, deTree, window>>
  BY DEF Badges!dispose
<1>2. Badges!Bare \in [BadgeIds -> Versions]
  BY DecorationsAssumption DEF Badges!Bare, Versions
<1>3. ProviderTyped'
  BY <1>1, <1>2 DEF ProviderInv, ProviderTyped
<1>4. ASSUME NEW q \in Badges!Providers
      PROVE  ProviderOK(q)'
  <2> USE DEF Busy, Badges!Newest
  <2>1. ProviderOK(q) /\ generation[q] \in Nat
    BY DEF ProviderInv, ProviderTyped
  <2>2. CASE q # p
    <3>1. generation'[q] = generation[q] /\ map'[q] = map[q]
      BY <1>1, <2>2 DEF ProviderInv, ProviderTyped
    <3>2. (q \in batch' <=> q \in batch) /\ (q \in disposed' <=> q \in disposed)
      BY <1>1, <2>2
    <3> QED
      BY <1>1, <2>1, <3>1, <3>2, ProviderLeftAlone
  <2>3. CASE q = p
    <3>1. q \in disposed' /\ generation'[q] = generation[q] + 1
      BY <1>1, <2>3 DEF ProviderInv, ProviderTyped
    <3>2. JobsNumbered(q)'
      <4>1. ASSUME NEW j \in BadgeJobs, Busy(q, j)
            PROVE  job[q][j].generation \in Nat /\ job[q][j].generation <= generation[q]
        BY <2>1, <4>1, JobKinds DEF ProviderInv, ProviderOK, JobsNumbered
      <4>2. \A j \in BadgeJobs : Busy(q, j) => job[q][j].generation <= generation'[q] /\ generation'[q] > 0
        BY <2>1, <3>1, <4>1
      <4> QED
        BY <1>1, <2>1, <3>1, <4>2 DEF ProviderOK, JobsNumbered
    <3>3. Begun(q)' /\ ReadIsPresent(q)' /\ MapIsPresent(q)'
      BY <2>1, <3>1 DEF Begun, ReadIsPresent, MapIsPresent
    <3> QED
      BY <3>2, <3>3 DEF ProviderOK
  <2> QED
    BY <2>2, <2>3
<1> QED
  BY <1>3, <1>4 DEF ProviderInv

\* One job of one provider becomes r.
LEMMA JobBecomes ==
    ASSUME ProviderTyped, NEW p \in Badges!Providers, NEW j \in BadgeJobs, NEW r \in JobSet,
           job' = [job EXCEPT ![p][j] = r]
    PROVE  /\ job' \in [Badges!Providers -> [BadgeJobs -> JobSet]]
           /\ job'[p][j] = r
           /\ \A k \in BadgeJobs : k # j => job'[p][k] = job[p][k]
           /\ \A q \in Badges!Providers : q # p => job'[q] = job[q]
<1>1. job' = [job EXCEPT ![p] = [job[p] EXCEPT ![j] = r]]
  BY DEF ProviderTyped
<1>2. [job[p] EXCEPT ![j] = r] \in [BadgeJobs -> JobSet]
  BY DEF ProviderTyped
<1>3. job' \in [Badges!Providers -> [BadgeJobs -> JobSet]]
  BY <1>1, <1>2 DEF ProviderTyped
<1>4. job'[p] = [job[p] EXCEPT ![j] = r] /\ \A q \in Badges!Providers : q # p => job'[q] = job[q]
  BY <1>1 DEF ProviderTyped
<1> QED
  BY <1>3, <1>4 DEF ProviderTyped

\* A job of a provider goes on, under its number, or ends.
LEMMA JobMoves ==
    ASSUME ProviderInv, NEW p \in Badges!Providers, NEW j \in BadgeJobs, Busy(p, j), NEW r \in JobSet,
           job' = [job EXCEPT ![p][j] = r], r # Badges!NoJob => r.generation = job[p][j].generation,
           UNCHANGED <<setup, status, news, batch, generation, disposed, overlapped, deTree, window>>,
           map' \in [Badges!Providers -> [BadgeIds -> Versions]],
           \A q \in Badges!Providers : q # p => map'[q] = map[q] /\ (q \in behind' <=> q \in behind),
           p \notin disposed /\ r \in ReadJobs /\ r.generation = generation[p] => r.got = status \/ Coming(p),
           MapIsPresent(p)'
    PROVE  ProviderInv'
<1>0. ProviderTyped
  BY DEF ProviderInv
<1>1. /\ job' \in [Badges!Providers -> [BadgeJobs -> JobSet]]
      /\ job'[p][j] = r
      /\ \A k \in BadgeJobs : k # j => job'[p][k] = job[p][k]
      /\ \A q \in Badges!Providers : q # p => job'[q] = job[q]
  BY <1>0, JobBecomes
<1>2. ProviderTyped'
  BY <1>0, <1>1 DEF ProviderTyped
<1>3. ASSUME NEW q \in Badges!Providers
      PROVE  ProviderOK(q)'
  <2> USE DEF Busy, Badges!Newest
  <2>1. ProviderOK(q)
    BY DEF ProviderInv
  <2>2. CASE q # p
    BY <1>1, <2>1, <2>2, ProviderLeftAlone
  <2>3. CASE q = p
    <3>0. generation[p] # 0
      BY <2>1, <2>3 DEF ProviderOK, JobsNumbered, ProviderInv, ProviderTyped
    <3>1. \A k \in BadgeJobs : job'[p][k] # Badges!NoJob =>
             Busy(p, k) /\ job'[p][k].generation = job[p][k].generation
      BY <1>1
    <3>2. JobsNumbered(q)'
      BY <2>1, <2>3, <3>1 DEF ProviderOK, JobsNumbered
    <3>3. Begun(q)'
      BY <2>1, <2>3, <3>0 DEF ProviderOK, Begun
    <3>4. ReadIsPresent(q)'
      <4>1. ASSUME p \notin disposed, NEW k \in BadgeJobs, job'[p][k] \in ReadJobs,
                   job'[p][k].generation = generation[p]
            PROVE  job'[p][k].got = status \/ Coming(p)
        BY <1>1, <2>1, <2>3, <4>1 DEF ProviderOK, ReadIsPresent
      <4> QED
        BY <2>3, <4>1 DEF ReadIsPresent, Coming
    <3> QED
      BY <2>3, <3>2, <3>3, <3>4 DEF ProviderOK
  <2> QED
    BY <2>2, <2>3
<1> QED
  BY <1>2, <1>3 DEF ProviderInv

\* While the newest job goes on, or one that is not the newest ends, the map is as present as it was.
LEMMA MapStaysPresent ==
    ASSUME ProviderInv, NEW p \in Badges!Providers, NEW j \in BadgeJobs, Busy(p, j), NEW r \in JobSet,
           job' = [job EXCEPT ![p][j] = r], r # Badges!NoJob => r.generation = job[p][j].generation,
           UNCHANGED <<setup, status, news, batch, generation, disposed, overlapped, deTree>>,
           map'[p] = map[p], p \in behind => p \in behind',
           r = Badges!NoJob /\ Badges!Newest(p, j) => p \in behind' \/ p \in disposed
    PROVE  MapIsPresent(p)'
<1> USE DEF Busy, Badges!Newest, Coming
<1>0. ProviderTyped /\ MapIsPresent(p)
  BY DEF ProviderInv, ProviderOK
<1>1. /\ job'[p][j] = r
      /\ \A k \in BadgeJobs : k # j => job'[p][k] = job[p][k]
  BY <1>0, JobBecomes
<1>2. Right(p) => Right(p)'
  BY DEF Right
<1>3. Running(p) => Running(p)' \/ p \in behind' \/ p \in disposed
  BY <1>1 DEF Running
<1> QED
  BY <1>0, <1>2, <1>3 DEF MapIsPresent

\* The service reads its status for a job.
LEMMA ReadProvider ==
    ASSUME ProviderInv, NEW p \in Badges!Providers, NEW j \in BadgeJobs, Badges!Read(p, j)
    PROVE  ProviderInv'
<1> USE DEF Badges!host
<1>1. /\ job[p][j].state = "asked"
      /\ job' = [job EXCEPT ![p][j] = [state |-> "read", generation |-> @.generation, got |-> status]]
      /\ UNCHANGED <<setup, status, news, batch, generation, map, disposed, overlapped, behind, deTree, window>>
  BY DEF Badges!Read
<1>2. PICK r : r = [state |-> "read", generation |-> job[p][j].generation, got |-> status]
  OBVIOUS
<1>3. job' = [job EXCEPT ![p][j] = r]
  BY <1>1, <1>2 DEF ProviderInv, ProviderTyped
<1>4. Busy(p, j) /\ job[p][j].generation \in Nat
  BY <1>1, JobKinds DEF ProviderInv
<1>5. r \in ReadJobs /\ r \in JobSet /\ r # Badges!NoJob /\ r.generation = job[p][j].generation /\ r.got = status
  BY <1>2, <1>4 DEF ProviderInv, ProviderTyped, ReadJobs, JobSet, Badges!NoJob
<1>6. MapIsPresent(p)'
  BY <1>1, <1>3, <1>4, <1>5, MapStaysPresent
<1> QED
  BY <1>1, <1>3, <1>4, <1>5, <1>6, JobMoves DEF ProviderInv, ProviderTyped

\* getStatus rejects.
LEMMA FailProvider ==
    ASSUME ProviderInv, NEW p \in Badges!Providers, NEW j \in BadgeJobs, Badges!Fail(p, j)
    PROVE  ProviderInv'
<1> USE DEF Badges!host
<1>1. /\ job[p][j].state = "asked"
      /\ job' = [job EXCEPT ![p][j] = Badges!NoJob]
      /\ behind' = IF Badges!Newest(p, j) THEN behind \cup {p} ELSE behind
      /\ UNCHANGED <<setup, status, news, batch, generation, map, disposed, overlapped, deTree, window>>
  BY DEF Badges!Fail
<1>2. Busy(p, j) /\ Badges!NoJob \in JobSet /\ Badges!NoJob \notin ReadJobs
  BY <1>1, JobKinds DEF ProviderInv, JobSet, ReadJobs, Badges!NoJob
<1>3. MapIsPresent(p)'
  BY <1>1, <1>2, MapStaysPresent
<1> QED
  BY <1>1, <1>2, <1>3, JobMoves DEF ProviderInv, ProviderTyped

\* The service answers: a job that is no longer the newest ends here.
LEMMA ReplyProvider ==
    ASSUME ProviderInv, NEW p \in Badges!Providers, NEW j \in BadgeJobs, Badges!Reply(p, j)
    PROVE  ProviderInv'
<1> USE DEF Badges!host
<1>1. /\ job[p][j].state = "read"
      /\ job' = [job EXCEPT ![p][j] = IF Badges!Current(p, j) THEN [@ EXCEPT !.state = "resolving"] ELSE Badges!NoJob]
      /\ UNCHANGED <<setup, status, news, batch, generation, map, disposed, overlapped, behind, deTree, window>>
  BY DEF Badges!Reply
<1>2. Busy(p, j) /\ job[p][j] \in ReadJobs
  BY <1>1, JobKinds DEF ProviderInv
<1>3. CASE Badges!Current(p, j)
  <2>1. PICK r : r = [job[p][j] EXCEPT !.state = "resolving"]
    OBVIOUS
  <2>2. job' = [job EXCEPT ![p][j] = r]
    BY <1>1, <1>3, <2>1 DEF ProviderInv, ProviderTyped
  <2>3. /\ r \in ReadJobs /\ r \in JobSet /\ r # Badges!NoJob /\ r.generation = job[p][j].generation
        /\ r.got = job[p][j].got
    BY <1>2, <2>1 DEF ReadJobs, JobSet, Badges!NoJob
  <2>4. MapIsPresent(p)'
    BY <1>1, <1>2, <2>2, <2>3, MapStaysPresent
  <2>5. p \notin disposed /\ r.generation = generation[p] => r.got = status \/ Coming(p)
    BY <1>2, <2>3 DEF ProviderInv, ProviderOK, ReadIsPresent, Badges!Newest
  <2> QED
    BY <1>1, <1>2, <2>2, <2>3, <2>4, <2>5, JobMoves DEF ProviderInv, ProviderTyped
<1>4. CASE ~Badges!Current(p, j)
  <2>1. job' = [job EXCEPT ![p][j] = Badges!NoJob]
    BY <1>1, <1>4 DEF ProviderInv, ProviderTyped
  <2>2. Badges!NoJob \in JobSet /\ Badges!NoJob \notin ReadJobs
    BY DEF JobSet, ReadJobs, Badges!NoJob
  <2>3. p \in disposed \/ ~Badges!Newest(p, j)
    BY <1>1, <1>4 DEF Badges!Current, Badges!Unchecked
  <2>4. MapIsPresent(p)'
    BY <1>1, <1>2, <2>1, <2>2, <2>3, MapStaysPresent
  <2> QED
    BY <1>1, <1>2, <2>1, <2>2, <2>4, JobMoves DEF ProviderInv, ProviderTyped
<1> QED
  BY <1>3, <1>4

\* The map of a recompute that is published, with the entries that have gone left out.
Computed(v) == [i \in BadgeIds |-> IF i \in BadgeMarks[v] /\ i \in deTree THEN v ELSE 0]

\* The new map is that of the present status, unless there is news.
LEMMA PublishProvider ==
    ASSUME ProviderInv, HostTyped, NEW p \in Badges!Providers, NEW j \in BadgeJobs, Badges!Publish(p, j)
    PROVE  ProviderInv'
<1>1. /\ job[p][j].state = "resolving" /\ job' = [job EXCEPT ![p][j] = Badges!NoJob]
      /\ UNCHANGED <<setup, status, news, batch, generation, disposed, overlapped, deTree, window>>
  BY DEF Badges!Publish
<1>2. Busy(p, j) /\ job[p][j] \in ReadJobs /\ Badges!NoJob \in JobSet /\ Badges!NoJob \notin ReadJobs
  BY <1>1, JobKinds DEF ProviderInv, JobSet, ReadJobs, Badges!NoJob
<1>3. CASE Badges!Current(p, j)
  <2>1. map' = [map EXCEPT ![p] = Computed(job[p][j].got)] /\ behind' = behind \ {p}
    BY <1>3 DEF Badges!Publish, Computed
  <2>2. job[p][j].got \in Versions
    BY <1>2 DEF ReadJobs
  <2>3. Computed(job[p][j].got) \in [BadgeIds -> Versions]
    BY <2>2, DecorationsAssumption DEF Computed, Versions
  <2>4. /\ map' \in [Badges!Providers -> [BadgeIds -> Versions]] /\ map'[p] = Computed(job[p][j].got)
        /\ \A q \in Badges!Providers : q # p => map'[q] = map[q] /\ (q \in behind' <=> q \in behind)
    BY <2>1, <2>3 DEF ProviderInv, ProviderTyped
  <2>5. MapIsPresent(p)'
    <3>1. SUFFICES ASSUME p \notin disposed, p \in overlapped => p \in setup.guarded
                   PROVE  Right(p)' \/ Coming(p)'
      BY <1>1 DEF MapIsPresent
    <3>2. Badges!Newest(p, j)
      <4>1. CASE p \in setup.guarded
        BY <1>3, <4>1 DEF Badges!Current, Badges!Guarded
      <4>2. CASE p \notin setup.guarded
        BY <1>2, <3>1, <4>2 DEF ProviderInv, ProviderOK, JobsNumbered
      <4> QED
        BY <4>1, <4>2
    <3>3. job[p][j].got = status \/ Coming(p)
      BY <1>2, <3>1, <3>2 DEF ProviderInv, ProviderOK, ReadIsPresent
    <3>4. job[p][j].got = status => Right(p)'
      <4>1. SUFFICES ASSUME job[p][j].got = status, NEW i \in deTree
                     PROVE  map'[p][i] = IF i \in BadgeMarks[status] THEN status ELSE 0
        BY <1>1 DEF Right
      <4>2. map'[p] = Computed(status)
        BY <2>4, <4>1
      <4>3. Computed(status)[i] = IF i \in BadgeMarks[status] THEN status ELSE 0
        <5>1. i \in BadgeIds
          BY DEF HostTyped
        <5> QED
          BY <5>1 DEF Computed
      <4> QED
        BY <4>2, <4>3
    <3> QED
      BY <1>1, <3>3, <3>4 DEF Coming
  <2> QED
    BY <1>1, <1>2, <2>4, <2>5, JobMoves
<1>4. CASE ~Badges!Current(p, j)
  <2>1. map' = map /\ behind' = behind
    BY <1>4 DEF Badges!Publish
  <2>2. p \in disposed \/ ~Badges!Newest(p, j)
    BY <1>1, <1>4 DEF Badges!Current, Badges!Unchecked
  <2>3. MapIsPresent(p)'
    BY <1>1, <1>2, <2>1, <2>2, MapStaysPresent
  <2> QED
    BY <1>1, <1>2, <2>1, <2>3, JobMoves DEF ProviderInv, ProviderTyped
<1> QED
  BY <1>3, <1>4

\* A window attaches: a provider in it has not begun.
LEMMA HandshakeProvider ==
    ASSUME ProviderInv, HostTyped, NEW w \in Windows, Badges!handleHandshake(w)
    PROVE  ProviderInv'
<1> USE DEF Badges!provider, Badges!host
<1>1. /\ \A v \in Windows : v # w => window'[v] = window[v]
      /\ window'[w].state = "attached"
      /\ UNCHANGED <<setup, status, news, batch, job, generation, map, disposed, overlapped, behind, deTree>>
  BY DEF Badges!handleHandshake, HostTyped
<1>2. ProviderTyped'
  BY <1>1 DEF ProviderInv, ProviderTyped
<1>3. ASSUME NEW q \in Badges!Providers
      PROVE  ProviderOK(q)'
  <2>1. setup.at[q] \in Windows \cup {0}
    BY BadgeFacts DEF ProviderInv, ProviderTyped
  <2> QED
    BY <1>1, <2>1, ProviderLeftAlone DEF ProviderInv
<1> QED
  BY <1>2, <1>3 DEF ProviderInv

\* A window closes: its providers are disposed, with what they were doing.
LEMMA DetachProvider ==
    ASSUME ProviderInv, HostTyped, NEW w \in Windows, Badges!detachSession(w)
    PROVE  ProviderInv'
<1> USE DEF Badges!host
<1>1. /\ \A v \in Windows : v # w => window'[v] = window[v]
      /\ disposed' = disposed \cup {p \in Badges!Providers : setup.at[p] = w}
      /\ job' = [p \in Badges!Providers |-> IF setup.at[p] = w THEN [j \in BadgeJobs |-> Badges!NoJob] ELSE job[p]]
      /\ batch' = {p \in batch : setup.at[p] # w}
      /\ UNCHANGED <<setup, status, news, generation, map, overlapped, behind, deTree>>
  BY DEF Badges!detachSession, HostTyped, Badges!At
<1>2. ProviderTyped'
  <2>1. Badges!NoJob \in JobSet
    BY DEF JobSet
  <2>2. [j \in BadgeJobs |-> Badges!NoJob] \in [BadgeJobs -> JobSet]
    BY <2>1
  <2>3. job' \in [Badges!Providers -> [BadgeJobs -> JobSet]]
    BY <1>1, <2>2 DEF ProviderInv, ProviderTyped
  <2> QED
    BY <1>1, <2>3 DEF ProviderInv, ProviderTyped
<1>3. ASSUME NEW q \in Badges!Providers
      PROVE  ProviderOK(q)'
  <2>0. setup.at[q] \in Windows \cup {0} /\ ProviderOK(q)
    BY BadgeFacts DEF ProviderInv, ProviderTyped
  <2>1. CASE setup.at[q] # w
    <3>1. /\ job'[q] = job[q] /\ (q \in disposed' <=> q \in disposed) /\ (q \in batch' <=> q \in batch)
      BY <1>1, <2>1
    <3>2. setup.at[q] # 0 => window'[setup.at[q]] = window[setup.at[q]]
      BY <1>1, <2>0, <2>1
    <3> QED
      BY <1>1, <2>0, <3>1, <3>2, ProviderLeftAlone
  <2>2. CASE setup.at[q] = w
    <3>1. q \in disposed' /\ \A j \in BadgeJobs : job'[q][j] = Badges!NoJob
      BY <1>1, <2>2
    <3> QED
      BY <1>1, <2>0, <3>1 DEF ProviderOK, JobsNumbered, Begun, ReadIsPresent, MapIsPresent, Busy
  <2> QED
    BY <2>1, <2>2
<1> QED
  BY <1>2, <1>3 DEF ProviderInv

\* Steps of the host, and of a window that applies a delta, leave the providers alone.
LEMMA OthersLeaveProvider ==
    ASSUME ProviderInv, deTree' \subseteq deTree,
           UNCHANGED <<setup, status, news, batch, job, generation, map, disposed, overlapped, behind>>,
           \A w \in Windows : window'[w].state = window[w].state
    PROVE  ProviderInv'
<1>1. ProviderTyped'
  BY DEF ProviderInv, ProviderTyped
<1>2. ASSUME NEW q \in Badges!Providers
      PROVE  ProviderOK(q)'
  <2>1. setup.at[q] \in Windows \cup {0}
    BY BadgeFacts DEF ProviderInv, ProviderTyped
  <2> QED
    BY <2>1, ProviderLeftAlone DEF ProviderInv
<1> QED
  BY <1>1, <1>2 DEF ProviderInv

\* Every step keeps what is said of providers.
LEMMA ProviderNext ==
    ASSUME ProviderInv, HostTyped, Badges!Next
    PROVE  ProviderInv'
<1> USE DEF Badges!provider, Badges!host
<1>1. CASE Badges!Change
  BY <1>1, ChangeProvider
<1>2. ASSUME NEW p \in Badges!Providers, Badges!Start(p)
      PROVE  ProviderInv'
  <2>1. PICK j \in BadgeJobs : Badges!Free(p, j) /\ Badges!Began(p, j)
    BY <1>2 DEF Badges!Start
  <2>2. Badges!Live(p) /\ UNCHANGED <<setup, status, news, batch, map, disposed, behind, deTree, window>>
    BY <1>2 DEF Badges!Start
  <2> QED
    BY <2>1, <2>2, BeganProvider
<1>3. ASSUME NEW p \in Badges!Providers, Badges!Hear(p) \/ Badges!dispose(p)
      PROVE  ProviderInv'
  BY <1>3, HearProvider, DisposeProvider
<1>4. ASSUME NEW p \in Badges!Providers, NEW j \in BadgeJobs, Badges!Drain(p, j) \/ Badges!refresh(p, j)
      PROVE  ProviderInv'
  <2>1. /\ Badges!Live(p) /\ Badges!Free(p, j) /\ Badges!Began(p, j) /\ batch' = batch \ {p}
        /\ UNCHANGED <<setup, status, news, map, disposed, behind, deTree, window>>
    BY <1>4 DEF Badges!Drain, Badges!refresh
  <2> QED
    BY <2>1, BeganProvider
<1>5. ASSUME NEW p \in Badges!Providers, NEW j \in BadgeJobs,
             Badges!Read(p, j) \/ Badges!Reply(p, j) \/ Badges!Fail(p, j) \/ Badges!Publish(p, j)
      PROVE  ProviderInv'
  BY <1>5, ReadProvider, ReplyProvider, FailProvider, PublishProvider
<1>6. ASSUME NEW w \in Windows, Badges!handleHandshake(w) \/ Badges!detachSession(w)
      PROVE  ProviderInv'
  BY <1>6, HandshakeProvider, DetachProvider
<1>7. ASSUME NEW w \in Windows, Badges!handleDecorations(w)
      PROVE  ProviderInv'
  <2>1. /\ UNCHANGED <<setup, status, news, batch, job, generation, map, disposed, overlapped, behind, deTree, window>>
    BY <1>7 DEF Badges!handleDecorations
  <2> QED
    BY <2>1, OthersLeaveProvider
<1>8. ASSUME NEW w \in Windows, Badges!handleDelta(w)
      PROVE  ProviderInv'
  <2>1. UNCHANGED <<setup, status, news, batch, job, generation, map, disposed, overlapped, behind, deTree>>
    BY <1>8 DEF Badges!handleDelta
  <2>2. \A v \in Windows : window'[v].state = window[v].state
    <3>1. \A v \in Windows : window[v] \in WindowSet /\ DOMAIN window = Windows
      BY DEF HostTyped
    <3> QED
      BY <1>8, <3>1 DEF Badges!handleDelta, WindowSet
  <2> QED
    BY <2>1, <2>2, OthersLeaveProvider
<1>9. CASE Badges!tick
  <2>1. UNCHANGED <<setup, status, news, batch, job, generation, map, disposed, overlapped, behind, deTree, window>>
    BY <1>9 DEF Badges!tick
  <2> QED
    BY <2>1, OthersLeaveProvider
<1>10. ASSUME NEW w \in Windows, NEW ids \in SUBSET BadgeIds, Badges!List(w, ids)
       PROVE  ProviderInv'
  <2>1. UNCHANGED <<setup, status, news, batch, job, generation, map, disposed, overlapped, behind, deTree, window>>
    BY <1>10 DEF Badges!List
  <2> QED
    BY <2>1, OthersLeaveProvider
<1>11. ASSUME NEW i \in BadgeIds, Badges!Delete(i)
       PROVE  ProviderInv'
  <2>1. /\ deTree' \subseteq deTree
        /\ UNCHANGED <<setup, status, news, batch, job, generation, map, disposed, overlapped, behind, window>>
    BY <1>11 DEF Badges!Delete
  <2> QED
    BY <2>1, OthersLeaveProvider
<1> QED
  BY <1>1, <1>2, <1>3, <1>4, <1>5, <1>6, <1>7, <1>8, <1>9, <1>10, <1>11 DEF Badges!Next

-----------------------------------------------------------------------------
(* From a provider to the store, and from the store to the windows. *)

\* What a slot should show of an entry, and the providers that own theirs alone.
Target(p, i) == IF p \in disposed THEN 0 ELSE map[p][i]
Sole(p) == \A q \in Badges!Providers : BadgeSlot[q] = BadgeSlot[p] => q = p

\* A queue of frames says v of entry i for provider p: its last frame about it
\* does or, if there is none, what is there already.
Mentions(f, p, i) == f.by = p /\ (f.replaceAll \/ i \in DOMAIN f.entries)
Says(f, i) == IF i \in DOMAIN f.entries THEN f.entries[i] ELSE 0
SaysLast(u, p, i, base, v) ==
    /\ \A k \in 1..Len(u) :
          Mentions(u[k], p, i) /\ (\A l \in 1..Len(u) : l > k => ~Mentions(u[l], p, i)) => Says(u[k], i) = v
    /\ (\A k \in 1..Len(u) : ~Mentions(u[k], p, i)) => base = v

\* The same of a queue of deltas, of entry i in slot s.
Covers(d, i) == i \in DOMAIN d.decorations
ShowsLast(u, i, s, base, v) ==
    /\ \A k \in 1..Len(u) :
          Covers(u[k], i) /\ (\A l \in 1..Len(u) : l > k => ~Covers(u[l], i)) => u[k].decorations[i][s] = v
    /\ (\A k \in 1..Len(u) : ~Covers(u[k], i)) => base = v

\* A frame about the entry, at the end of the queue, has the last word.
LEMMA SaysAppended ==
    ASSUME NEW u \in Seq(Frames), NEW f \in Frames, NEW p, NEW i, NEW base, NEW v, Mentions(f, p, i), Says(f, i) = v
    PROVE  SaysLast(Append(u, f), p, i, base, v)
<1> HIDE DEF Mentions, Says
<1>1. /\ Len(Append(u, f)) = Len(u) + 1 /\ Append(u, f)[Len(u) + 1] = f /\ Len(u) \in Nat
  OBVIOUS
<1> QED
  BY <1>1 DEF SaysLast

\* Frames about something else, or that say the same, change nothing.
LEMMA SaysConcat ==
    ASSUME NEW u \in Seq(Frames), NEW fs \in Seq(Frames), NEW p, NEW i, NEW base, NEW v,
           \A k \in 1..Len(fs) : Mentions(fs[k], p, i) => Says(fs[k], i) = v, SaysLast(u, p, i, base, v)
    PROVE  SaysLast(u \o fs, p, i, base, v)
<1> HIDE DEF Mentions, Says
<1>1. /\ Len(u \o fs) = Len(u) + Len(fs) /\ Len(u) \in Nat /\ Len(fs) \in Nat
      /\ \A k \in 1..Len(u) : (u \o fs)[k] = u[k]
      /\ \A k \in 1..Len(u \o fs) : k > Len(u) => (u \o fs)[k] = fs[k - Len(u)]
  OBVIOUS
<1>2. \A k \in 1..Len(u \o fs) : k \in 1..Len(u) \/ (k > Len(u) /\ k - Len(u) \in 1..Len(fs))
  BY <1>1
<1>3. ASSUME NEW k \in 1..Len(u \o fs), Mentions((u \o fs)[k], p, i),
             \A l \in 1..Len(u \o fs) : l > k => ~Mentions((u \o fs)[l], p, i)
      PROVE  Says((u \o fs)[k], i) = v
  <2>1. CASE k \in 1..Len(u)
    <3>1. (u \o fs)[k] = u[k]
      BY <1>1, <2>1
    <3>2. \A l \in 1..Len(u) : l > k => ~Mentions(u[l], p, i)
      BY <1>1, <1>3
    <3> QED
      BY <1>3, <2>1, <3>1, <3>2 DEF SaysLast
  <2>2. CASE k > Len(u) /\ k - Len(u) \in 1..Len(fs)
    <3>1. (u \o fs)[k] = fs[k - Len(u)]
      BY <1>1, <2>2
    <3> QED
      BY <1>3, <2>2, <3>1
  <2> QED
    BY <1>2, <2>1, <2>2
<1>4. ASSUME \A k \in 1..Len(u \o fs) : ~Mentions((u \o fs)[k], p, i)
      PROVE  base = v
  BY <1>1, <1>4 DEF SaysLast
<1> QED
  BY <1>3, <1>4 DEF SaysLast

\* One frame about something else.
LEMMA SaysOther ==
    ASSUME NEW u \in Seq(Frames), NEW f \in Frames, NEW p, NEW i, NEW base, NEW v,
           ~Mentions(f, p, i), SaysLast(u, p, i, base, v)
    PROVE  SaysLast(Append(u, f), p, i, base, v)
<1> HIDE DEF Mentions, Says
<1>1. /\ <<f>> \in Seq(Frames) /\ Append(u, f) = u \o <<f>>
      /\ \A k \in 1..Len(<<f>>) : <<f>>[k] = f
  OBVIOUS
<1> QED
  BY <1>1, SaysConcat

\* The frame at the head is applied.
LEMMA SaysTail ==
    ASSUME NEW u \in Seq(Frames), u # <<>>, NEW p, NEW i, NEW base, NEW v, NEW now, SaysLast(u, p, i, base, v),
           now = IF Mentions(Head(u), p, i) THEN Says(Head(u), i) ELSE base
    PROVE  SaysLast(Tail(u), p, i, now, v)
<1> HIDE DEF Mentions, Says
<1>1. /\ Len(Tail(u)) = Len(u) - 1 /\ Len(u) \in Nat \ {0} /\ Head(u) = u[1]
      /\ \A k \in 1..Len(Tail(u)) : Tail(u)[k] = u[k + 1]
      /\ \A k \in 1..Len(u) : k # 1 => k - 1 \in 1..Len(Tail(u)) /\ u[k] = Tail(u)[k - 1]
  OBVIOUS
<1>2. ASSUME NEW k \in 1..Len(Tail(u)), Mentions(Tail(u)[k], p, i),
             \A l \in 1..Len(Tail(u)) : l > k => ~Mentions(Tail(u)[l], p, i)
      PROVE  Says(Tail(u)[k], i) = v
  <2>1. k + 1 \in 1..Len(u) /\ Tail(u)[k] = u[k + 1]
    BY <1>1
  <2>2. ASSUME NEW l \in 1..Len(u), l > k + 1
        PROVE  ~Mentions(u[l], p, i)
    <3>1. l - 1 \in 1..Len(Tail(u)) /\ u[l] = Tail(u)[l - 1] /\ l - 1 > k
      BY <1>1, <2>2
    <3>2. ~Mentions(Tail(u)[l - 1], p, i)
      BY <1>2, <3>1
    <3> QED
      BY <3>1, <3>2
  <2> QED
    BY <1>2, <2>1, <2>2 DEF SaysLast
<1>3. ASSUME \A k \in 1..Len(Tail(u)) : ~Mentions(Tail(u)[k], p, i)
      PROVE  now = v
  <2>1. \A l \in 1..Len(u) : l # 1 => ~Mentions(u[l], p, i)
    BY <1>1, <1>3
  <2>2. 1 \in 1..Len(u)
    BY <1>1
  <2>3. CASE Mentions(u[1], p, i)
    <3>1. \A l \in 1..Len(u) : l > 1 => ~Mentions(u[l], p, i)
      BY <2>1
    <3> QED
      BY <1>1, <2>2, <2>3, <3>1 DEF SaysLast
  <2>4. CASE ~Mentions(u[1], p, i)
    BY <1>1, <2>1, <2>4 DEF SaysLast
  <2> QED
    BY <2>3, <2>4
<1> QED
  BY <1>2, <1>3 DEF SaysLast

\* A delta at the end of the queue: the last word on what it covers, no word on the rest.
LEMMA ShowsAppended ==
    ASSUME NEW u \in Seq(Deltas), NEW d \in Deltas, NEW i, NEW s, NEW base, NEW v,
           \/ Covers(d, i) /\ d.decorations[i][s] = v
           \/ ~Covers(d, i) /\ ShowsLast(u, i, s, base, v)
    PROVE  ShowsLast(Append(u, d), i, s, base, v)
<1> DEFINE a == Append(u, d)
<1>1. /\ Len(a) = Len(u) + 1 /\ a[Len(u) + 1] = d /\ Len(u) \in Nat
      /\ \A k \in 1..Len(u) : a[k] = u[k]
  OBVIOUS
<1> HIDE DEF a, Covers
<1>2. CASE Covers(d, i) /\ d.decorations[i][s] = v
  BY <1>1, <1>2 DEF ShowsLast
<1>3. CASE ~Covers(d, i) /\ ShowsLast(u, i, s, base, v)
  <2>1. ASSUME NEW k \in 1..Len(a), Covers(a[k], i), \A l \in 1..Len(a) : l > k => ~Covers(a[l], i)
        PROVE  a[k].decorations[i][s] = v
    <3>1. k \in 1..Len(u) /\ a[k] = u[k]
      BY <1>1, <1>3, <2>1
    <3>2. \A l \in 1..Len(u) : l > k => ~Covers(u[l], i)
      BY <1>1, <2>1
    <3> QED
      BY <1>3, <2>1, <3>1, <3>2 DEF ShowsLast
  <2>2. ASSUME \A k \in 1..Len(a) : ~Covers(a[k], i)
        PROVE  base = v
    BY <1>1, <1>3, <2>2 DEF ShowsLast
  <2> QED
    BY <2>1, <2>2 DEF ShowsLast
<1> QED
  BY <1>2, <1>3 DEF a

\* The delta at the head is applied.
LEMMA ShowsTail ==
    ASSUME NEW u \in Seq(Deltas), u # <<>>, NEW i, NEW s, NEW base, NEW v, NEW now, ShowsLast(u, i, s, base, v),
           now = IF Covers(Head(u), i) THEN Head(u).decorations[i][s] ELSE base
    PROVE  ShowsLast(Tail(u), i, s, now, v)
<1> HIDE DEF Covers
<1>1. /\ Len(Tail(u)) = Len(u) - 1 /\ Len(u) \in Nat \ {0} /\ Head(u) = u[1]
      /\ \A k \in 1..Len(Tail(u)) : Tail(u)[k] = u[k + 1]
      /\ \A k \in 1..Len(u) : k # 1 => k - 1 \in 1..Len(Tail(u)) /\ u[k] = Tail(u)[k - 1]
  OBVIOUS
<1>2. ASSUME NEW k \in 1..Len(Tail(u)), Covers(Tail(u)[k], i),
             \A l \in 1..Len(Tail(u)) : l > k => ~Covers(Tail(u)[l], i)
      PROVE  Tail(u)[k].decorations[i][s] = v
  <2>1. k + 1 \in 1..Len(u) /\ Tail(u)[k] = u[k + 1]
    BY <1>1
  <2>2. ASSUME NEW l \in 1..Len(u), l > k + 1
        PROVE  ~Covers(u[l], i)
    <3>1. l - 1 \in 1..Len(Tail(u)) /\ u[l] = Tail(u)[l - 1] /\ l - 1 > k
      BY <1>1, <2>2
    <3>2. ~Covers(Tail(u)[l - 1], i)
      BY <1>2, <3>1
    <3> QED
      BY <3>1, <3>2
  <2> QED
    BY <1>2, <2>1, <2>2 DEF ShowsLast
<1>3. ASSUME \A k \in 1..Len(Tail(u)) : ~Covers(Tail(u)[k], i)
      PROVE  now = v
  <2>1. \A l \in 1..Len(u) : l # 1 => ~Covers(u[l], i)
    BY <1>1, <1>3
  <2>2. 1 \in 1..Len(u)
    BY <1>1
  <2>3. CASE Covers(u[1], i)
    <3>1. \A l \in 1..Len(u) : l > 1 => ~Covers(u[l], i)
      BY <2>1
    <3> QED
      BY <1>1, <2>2, <2>3, <3>1 DEF ShowsLast
  <2>4. CASE ~Covers(u[1], i)
    BY <1>1, <2>1, <2>4 DEF ShowsLast
  <2> QED
    BY <2>3, <2>4
<1> QED
  BY <1>2, <1>3 DEF ShowsLast

\* An empty queue says what is there already.
LEMMA LastOfNone ==
    ASSUME NEW p, NEW i, NEW s, NEW base, NEW v
    PROVE  /\ SaysLast(<<>>, p, i, base, v) <=> base = v
           /\ ShowsLast(<<>>, i, s, base, v) <=> base = v
  BY DEF SaysLast, ShowsLast

\* Frames are where their provider is, and no delta takes an entry that is still there.
QueuesOK ==
    /\ gone \cap deTree = {}
    /\ \A w \in Windows :
          /\ \A k \in 1..Len(up[w]) : setup.at[up[w][k].by] = w
          /\ \A k \in 1..Len(down[w]) : down[w][k].removed \cap deTree = {}
          /\ window[w].state = "new" => up[w] = <<>> /\ down[w] = <<>>

\* A badge of a provider in a window has been recorded as pushed: else no
\* clear would follow it.
PushIsRecorded ==
    \A p \in Badges!Providers : p \notin disposed /\ setup.at[p] # 0 =>
        \A i \in deTree : map[p][i] # 0 => i \in knownIds[p]

\* With the frames under way, the store has what the provider says.
StoreOf(p, i) ==
    /\ setup.at[p] = 0 => store[BadgeSlot[p]][i] = Target(p, i)
    /\ setup.at[p] # 0 /\ window[setup.at[p]].state # "closed" =>
          SaysLast(up[setup.at[p]], p, i, store[BadgeSlot[p]][i], Target(p, i))
StoreFollows == \A p \in Badges!Providers : Sole(p) => \A i \in deTree : StoreOf(p, i)

\* With the deltas under way, and but for what waits for a tick, a window that
\* was there in time has what the store has.
WindowOf(w, s, i) == ShowsLast(down[w], i, s, window[w].shown[s][i], store[s][i])
WindowFollows ==
    \A w \in Windows : Badges!Reach(w) /\ ~window[w].late =>
        \A s \in Badges!Slots, i \in deTree : i \in pending \/ WindowOf(w, s, i)

ShareInv == HostTyped /\ QueuesOK /\ PushIsRecorded /\ StoreFollows /\ WindowFollows

\* At rest, nothing is under way.
LEMMA ShareSuffices ==
    ASSUME ProviderInv, ShareInv
    PROVE  Badges!WindowsAgree
<1>0. SUFFICES ASSUME Badges!AtRest, NEW w \in Windows, NEW s \in Badges!Slots, NEW i \in deTree
               PROVE  LET p == CHOOSE q \in Badges!Owners(s) : TRUE
                      IN  Badges!Reach(w) /\ ~window[w].late /\ Badges!Owners(s) = {p}
                          /\ (setup.at[p] # 0 => Badges!Reach(setup.at[p]))
                          => window[w].shown[s][i] = IF p \in disposed THEN 0 ELSE map[p][i]
  BY DEF Badges!WindowsAgree, Badges!At
<1> DEFINE p == CHOOSE q \in Badges!Owners(s) : TRUE
<1> HIDE DEF p
<1>1. SUFFICES ASSUME Badges!Reach(w), ~window[w].late, Badges!Owners(s) = {p},
                      setup.at[p] # 0 => Badges!Reach(setup.at[p])
               PROVE  window[w].shown[s][i] = IF p \in disposed THEN 0 ELSE map[p][i]
  BY DEF p
<1>2. p \in Badges!Providers /\ BadgeSlot[p] = s /\ Sole(p)
  <2>1. \A q : q \in Badges!Owners(s) <=> q \in Badges!Providers /\ BadgeSlot[q] = s
    BY DEF Badges!Owners
  <2>2. p \in Badges!Owners(s)
    BY <1>1
  <2> QED
    BY <1>1, <2>1, <2>2 DEF Sole
<1>3. pending = {} /\ \A v \in Windows : up[v] = <<>> /\ down[v] = <<>>
  BY <1>0 DEF Badges!AtRest
<1>4. window[w].shown[s][i] = store[s][i]
  <2>1. WindowOf(w, s, i)
    BY <1>1, <1>3 DEF ShareInv, WindowFollows
  <2> QED
    BY <1>3, <2>1, LastOfNone DEF WindowOf
<1>5. store[s][i] = Target(p, i)
  <2>1. StoreOf(p, i) /\ setup.at[p] \in Windows \cup {0}
    BY <1>1, <1>2, BadgeFacts DEF ShareInv, StoreFollows, ProviderInv, ProviderTyped
  <2>2. CASE setup.at[p] = 0
    BY <1>2, <2>1, <2>2 DEF StoreOf
  <2>3. CASE setup.at[p] # 0
    <3>1. window[setup.at[p]].state # "closed" /\ up[setup.at[p]] = <<>>
      BY <1>1, <1>3, <2>1, <2>3 DEF Badges!Reach
    <3> QED
      BY <1>2, <2>1, <2>3, <3>1, LastOfNone DEF StoreOf
  <2> QED
    BY <2>2, <2>3
<1> QED
  BY <1>4, <1>5 DEF Target

\* Steps of the service and of recomputes that publish nothing.
LEMMA ShareLeftAlone ==
    ASSUME ShareInv,
           UNCHANGED <<setup, map, disposed, deTree, store, pending, gone, knownIds, up, window, down>>
    PROVE  ShareInv'
<1>1. HostTyped'
  BY DEF ShareInv, HostTyped
<1>2. QueuesOK' /\ PushIsRecorded'
  BY DEF ShareInv, QueuesOK, PushIsRecorded
<1>3. StoreFollows'
  BY DEF ShareInv, StoreFollows, StoreOf, Target
<1>4. WindowFollows'
  BY DEF ShareInv, WindowFollows, WindowOf, Badges!Reach
<1> QED
  BY <1>1, <1>2, <1>3, <1>4 DEF ShareInv

\* An entry is deleted on the host.
LEMMA DeleteShare ==
    ASSUME ShareInv, NEW e \in BadgeIds, Badges!Delete(e)
    PROVE  ShareInv'
<1> USE DEF Badges!provider
<1>1. /\ deTree' = deTree \ {e} /\ gone' = gone \cup {e}
      /\ UNCHANGED <<setup, map, disposed, store, pending, knownIds, up, window, down>>
  BY DEF Badges!Delete
<1>2. HostTyped'
  BY <1>1 DEF ShareInv, HostTyped
<1>3. QueuesOK' /\ PushIsRecorded'
  BY <1>1 DEF ShareInv, QueuesOK, PushIsRecorded
<1>4. StoreFollows'
  BY <1>1 DEF ShareInv, StoreFollows, StoreOf, Target
<1>5. WindowFollows'
  BY <1>1 DEF ShareInv, WindowFollows, WindowOf, Badges!Reach
<1> QED
  BY <1>2, <1>3, <1>4, <1>5 DEF ShareInv

\* A change of the store that is noted for the next tick.
LEMMA NotedChange ==
    ASSUME ShareInv, UNCHANGED <<deTree, window, down>>, pending \subseteq pending',
           \A s \in Badges!Slots, i \in deTree : store'[s][i] = store[s][i] \/ i \in pending'
    PROVE  WindowFollows'
<1>1. SUFFICES ASSUME NEW w \in Windows, Badges!Reach(w), ~window[w].late, NEW s \in Badges!Slots, NEW i \in deTree,
                      i \notin pending'
               PROVE  WindowOf(w, s, i)'
  BY DEF WindowFollows, Badges!Reach
<1>2. i \notin pending /\ store'[s][i] = store[s][i]
  BY <1>1
<1>3. WindowOf(w, s, i)
  BY <1>1, <1>2 DEF ShareInv, WindowFollows
<1> QED
  BY <1>2, <1>3 DEF WindowOf

\* A frame is pushed, that says of its provider's slot what it should show.
LEMMA FramePushed ==
    ASSUME ProviderInv, ShareInv, NEW p \in Badges!Providers, setup.at[p] \in Windows, Badges!Reach(setup.at[p]),
           NEW f \in Frames, f.by = p,
           up' = [up EXCEPT ![setup.at[p]] = Append(@, f)],
           UNCHANGED <<setup, deTree, store, pending, gone, window, down>>,
           \A q \in Badges!Providers : q # p => \A i \in deTree : Target(q, i)' = Target(q, i),
           \A i \in deTree : IF Mentions(f, p, i) THEN Says(f, i) = Target(p, i)' ELSE Target(p, i)' = Target(p, i)
    PROVE  /\ up' \in [Windows -> Seq(Frames)]
           /\ QueuesOK' /\ StoreFollows' /\ WindowFollows'
<1>0. PICK w \in Windows : w = setup.at[p]
  OBVIOUS
<1>1. up[w] \in Seq(Frames)
  BY DEF ShareInv, HostTyped
<1>2. up'[w] = Append(up[w], f) /\ \A v \in Windows : v # w => up'[v] = up[v]
  BY <1>0 DEF ShareInv, HostTyped
<1>3. up' \in [Windows -> Seq(Frames)]
  <2>1. Append(up[w], f) \in Seq(Frames)
    BY <1>1
  <2> QED
    BY <1>0, <2>1 DEF ShareInv, HostTyped
<1>4. QueuesOK'
  <2>1. window[w].state # "new"
    BY <1>0 DEF Badges!Reach
  <2>2. \A k \in 1..Len(up'[w]) : setup.at[up'[w][k].by] = w
    <3>1. /\ Len(up'[w]) = Len(up[w]) + 1 /\ up'[w][Len(up[w]) + 1] = f /\ Len(up[w]) \in Nat
          /\ \A k \in 1..Len(up[w]) : up'[w][k] = up[w][k]
      BY <1>1, <1>2
    <3>2. \A k \in 1..Len(up[w]) : setup.at[up[w][k].by] = w
      BY DEF ShareInv, QueuesOK
    <3>3. \A k \in 1..Len(up'[w]) : k \in 1..Len(up[w]) \/ k = Len(up[w]) + 1
      BY <3>1
    <3> QED
      BY <1>0, <3>1, <3>2, <3>3
  <2>3. ASSUME NEW v \in Windows
        PROVE  /\ \A k \in 1..Len(up'[v]) : setup.at[up'[v][k].by] = v
               /\ \A k \in 1..Len(down[v]) : down[v][k].removed \cap deTree = {}
               /\ window[v].state = "new" => up'[v] = <<>> /\ down[v] = <<>>
    BY <1>2, <2>1, <2>2 DEF ShareInv, QueuesOK
  <2>4. gone \cap deTree = {}
    BY DEF ShareInv, QueuesOK
  <2> QED
    BY <2>3, <2>4 DEF QueuesOK
<1>5. StoreFollows'
  <2>1. SUFFICES ASSUME NEW q \in Badges!Providers, Sole(q), NEW i \in deTree
                 PROVE  StoreOf(q, i)'
    BY DEF StoreFollows
  <2>2. StoreOf(q, i) /\ setup.at[q] \in Windows \cup {0}
    BY <2>1, BadgeFacts DEF ShareInv, StoreFollows, ProviderInv, ProviderTyped
  <2>3. CASE q = p
    <3>1. setup.at[p] # 0 /\ window[w].state # "closed"
      BY <1>0, BadgeFacts DEF ProviderInv, ProviderTyped, Badges!Reach
    <3>2. SaysLast(up'[w], p, i, store[BadgeSlot[p]][i], Target(p, i)')
      <4>1. CASE Mentions(f, p, i)
        <5>1. Says(f, i) = Target(p, i)'
          BY <4>1
        <5>2. PICK v : v = Target(p, i)'
          OBVIOUS
        <5>3. SaysLast(Append(up[w], f), p, i, store[BadgeSlot[p]][i], v)
          BY <1>1, <4>1, <5>1, <5>2, SaysAppended
        <5> QED
          BY <1>2, <5>2, <5>3
      <4>2. CASE ~Mentions(f, p, i)
        <5>1. Target(p, i)' = Target(p, i)
          BY <4>2
        <5>2. SaysLast(up[w], p, i, store[BadgeSlot[p]][i], Target(p, i))
          BY <1>0, <2>2, <2>3, <3>1 DEF StoreOf
        <5>3. SaysLast(Append(up[w], f), p, i, store[BadgeSlot[p]][i], Target(p, i))
          BY <1>1, <4>2, <5>2, SaysOther
        <5> QED
          BY <1>2, <5>1, <5>3
      <4> QED
        BY <4>1, <4>2
    <3> QED
      BY <1>0, <2>3, <3>1, <3>2 DEF StoreOf
  <2>4. CASE q # p
    <3>1. Target(q, i)' = Target(q, i)
      BY <2>4
    <3>2. CASE setup.at[q] = 0
      BY <2>2, <3>1, <3>2 DEF StoreOf
    <3>3. CASE setup.at[q] # 0
      <4>1. SUFFICES ASSUME window[setup.at[q]].state # "closed"
                     PROVE  SaysLast(up'[setup.at[q]], q, i, store[BadgeSlot[q]][i], Target(q, i)')
        BY <3>3 DEF StoreOf
      <4>2. SaysLast(up[setup.at[q]], q, i, store[BadgeSlot[q]][i], Target(q, i))
        BY <2>2, <3>3, <4>1 DEF StoreOf
      <4>3. CASE setup.at[q] # w
        BY <1>2, <2>2, <3>1, <3>3, <4>2, <4>3
      <4>4. CASE setup.at[q] = w
        <5>1. ~Mentions(f, q, i)
          BY <2>4 DEF Mentions
        <5>2. SaysLast(Append(up[w], f), q, i, store[BadgeSlot[q]][i], Target(q, i))
          BY <1>1, <4>2, <4>4, <5>1, SaysOther
        <5> QED
          BY <1>2, <3>1, <4>4, <5>2
      <4> QED
        BY <4>3, <4>4
    <3> QED
      BY <3>2, <3>3
  <2> QED
    BY <2>3, <2>4
<1>6. WindowFollows'
  BY NotedChange
<1> QED
  BY <1>3, <1>4, <1>5, <1>6

\* The first frame of a provider is empty, and so is its map.
LEMMA StartShare ==
    ASSUME ProviderInv, ShareInv, NEW p \in Badges!Providers, Badges!Start(p)
    PROVE  ShareInv'
<1> USE DEF Badges!host
<1>1. /\ Badges!Live(p) /\ generation[p] = 0
      /\ up' = IF setup.at[p] = 0 THEN up
               ELSE [up EXCEPT ![setup.at[p]] = Append(@, Badges!Frame(p, Badges!NoEntries, TRUE))]
      /\ UNCHANGED <<setup, map, disposed, deTree, store, pending, gone, knownIds, window, down>>
  BY DEF Badges!Start, Badges!At
<1>2. setup.at[p] \in Windows \cup {0}
  BY BadgeFacts DEF ProviderInv, ProviderTyped
<1>3. CASE setup.at[p] = 0
  BY <1>1, <1>3, ShareLeftAlone
<1>4. CASE setup.at[p] # 0
  <2>1. PICK f : f = Badges!Frame(p, Badges!NoEntries, TRUE)
    OBVIOUS
  <2>2. f \in Frames /\ f.by = p /\ f.entries = Badges!NoEntries /\ f.replaceAll = TRUE
    BY <2>1, FrameFacts, NoEntriesFacts
  <2>3. map[p] = Badges!Bare
    BY <1>1 DEF ProviderInv, ProviderOK, Begun
  <2>4. \A q \in Badges!Providers, i \in deTree : Target(q, i)' = Target(q, i)
    BY <1>1 DEF Target
  <2>5. ASSUME NEW i \in deTree
        PROVE  Mentions(f, p, i) /\ Says(f, i) = Target(p, i)'
    <3>1. i \in BadgeIds
      BY DEF ShareInv, HostTyped
    <3> QED
      BY <1>1, <2>2, <2>3, <3>1, NoEntriesFacts DEF Mentions, Says, Target, Badges!Bare
  <2>6. setup.at[p] \in Windows /\ Badges!Reach(setup.at[p])
    BY <1>1, <1>2, <1>4 DEF Badges!Live, Badges!At
  <2>7. up' \in [Windows -> Seq(Frames)] /\ QueuesOK' /\ StoreFollows' /\ WindowFollows'
    <3>1. up' = [up EXCEPT ![setup.at[p]] = Append(@, f)]
      BY <1>1, <1>4, <2>1
    <3>2. \A q \in Badges!Providers : q # p => \A i \in deTree : Target(q, i)' = Target(q, i)
      BY <2>4
    <3>3. \A i \in deTree : IF Mentions(f, p, i) THEN Says(f, i) = Target(p, i)' ELSE Target(p, i)' = Target(p, i)
      BY <2>5
    <3> QED
      BY <1>1, <2>2, <2>6, <3>1, <3>2, <3>3, FramePushed
  <2>8. HostTyped' /\ PushIsRecorded'
    BY <1>1, <2>7 DEF ShareInv, HostTyped, PushIsRecorded
  <2> QED
    BY <2>7, <2>8 DEF ShareInv
<1> QED
  BY <1>3, <1>4

\* A provider in the host's process writes its slot, and notes what changed.
LEMMA SlotWritten ==
    ASSUME ProviderInv, ShareInv, NEW p \in Badges!Providers, setup.at[p] = 0,
           store' \in Shown, pending' \subseteq BadgeIds, pending \subseteq pending',
           \A s \in Badges!Slots : s # BadgeSlot[p] => store'[s] = store[s],
           \A i \in deTree : store'[BadgeSlot[p]][i] = store[BadgeSlot[p]][i] \/ i \in pending',
           Sole(p) => \A i \in deTree : store'[BadgeSlot[p]][i] = Target(p, i)',
           \A q \in Badges!Providers : q # p => \A i \in deTree : Target(q, i)' = Target(q, i),
           UNCHANGED <<setup, deTree, gone, knownIds, up, window, down>>
    PROVE  HostTyped' /\ QueuesOK' /\ StoreFollows' /\ WindowFollows'
<1>1. HostTyped' /\ QueuesOK'
  BY DEF ShareInv, HostTyped, QueuesOK
<1>2. WindowFollows'
  <2>1. \A s \in Badges!Slots, i \in deTree : store'[s][i] = store[s][i] \/ i \in pending'
    OBVIOUS
  <2> QED
    BY <2>1, NotedChange
<1>3. StoreFollows'
  <2>1. SUFFICES ASSUME NEW q \in Badges!Providers, Sole(q), NEW i \in deTree
                 PROVE  StoreOf(q, i)'
    BY DEF StoreFollows
  <2>2. CASE q = p
    BY <2>1, <2>2 DEF StoreOf
  <2>3. CASE q # p
    <3>1. BadgeSlot[q] # BadgeSlot[p] /\ BadgeSlot[q] \in Badges!Slots
      BY <2>1, <2>3, BadgeFacts DEF Sole, ProviderInv, ProviderTyped
    <3>2. store'[BadgeSlot[q]] = store[BadgeSlot[q]] /\ Target(q, i)' = Target(q, i)
      BY <2>3, <3>1
    <3>3. StoreOf(q, i)
      BY <2>1 DEF ShareInv, StoreFollows
    <3> QED
      BY <3>2, <3>3 DEF StoreOf
  <2> QED
    BY <2>2, <2>3
<1> QED
  BY <1>1, <1>2, <1>3

\* dispose clears the slot, or tells the host to.
LEMMA DisposeShare ==
    ASSUME ProviderInv, ShareInv, NEW p \in Badges!Providers, Badges!dispose(p)
    PROVE  ShareInv'
<1>1. /\ Badges!Live(p) /\ disposed' = disposed \cup {p} /\ map' = [map EXCEPT ![p] = Badges!Bare]
      /\ IF setup.at[p] = 0
         THEN /\ store' = [store EXCEPT ![BadgeSlot[p]] = Badges!Bare]
              /\ pending' = pending \cup Badges!removeProvider(BadgeSlot[p]) /\ up' = up
         ELSE /\ up' = [up EXCEPT ![setup.at[p]] = Append(@, Badges!Frame(p, Badges!NoEntries, TRUE))]
              /\ store' = store /\ pending' = pending
      /\ UNCHANGED <<setup, deTree, gone, knownIds, window, down>>
  BY DEF Badges!dispose, Badges!At
<1>2. setup.at[p] \in Windows \cup {0} /\ BadgeSlot[p] \in Badges!Slots /\ 0 \in Versions
  BY BadgeFacts DEF ProviderInv, ProviderTyped
<1>3. /\ \A q \in Badges!Providers : q # p => \A i \in deTree : Target(q, i)' = Target(q, i)
      /\ \A i \in deTree : Target(p, i)' = 0
  BY <1>1 DEF Target, ProviderInv, ProviderTyped
<1>4. PushIsRecorded'
  BY <1>1 DEF ShareInv, PushIsRecorded, ProviderInv, ProviderTyped
<1>5. CASE setup.at[p] = 0
  <2>1. /\ store' \in Shown /\ \A s \in Badges!Slots : s # BadgeSlot[p] => store'[s] = store[s]
        /\ store'[BadgeSlot[p]] = Badges!Bare
    <3>1. Badges!Bare \in [BadgeIds -> Versions]
      BY <1>2 DEF Badges!Bare
    <3>2. store' = [store EXCEPT ![BadgeSlot[p]] = Badges!Bare]
      BY <1>1, <1>5
    <3> QED
      BY <1>2, <3>1, <3>2 DEF ShareInv, HostTyped, Shown
  <2>2. pending' \subseteq BadgeIds /\ pending \subseteq pending'
    BY <1>1, <1>5 DEF ShareInv, HostTyped, Badges!removeProvider
  <2>3. ASSUME NEW i \in deTree
        PROVE  /\ store'[BadgeSlot[p]][i] = store[BadgeSlot[p]][i] \/ i \in pending'
               /\ store'[BadgeSlot[p]][i] = Target(p, i)'
    <3>1. i \in BadgeIds
      BY DEF ShareInv, HostTyped
    <3>2. store'[BadgeSlot[p]][i] = 0
      BY <2>1, <3>1 DEF Badges!Bare
    <3> QED
      BY <1>1, <1>3, <1>5, <3>1, <3>2 DEF Badges!removeProvider
  <2> QED
    BY <1>1, <1>3, <1>4, <1>5, <2>1, <2>2, <2>3, SlotWritten DEF ShareInv
<1>6. CASE setup.at[p] # 0
  <2>1. PICK f : f = Badges!Frame(p, Badges!NoEntries, TRUE)
    OBVIOUS
  <2>2. f \in Frames /\ f.by = p /\ f.entries = Badges!NoEntries /\ f.replaceAll = TRUE
    BY <2>1, FrameFacts, NoEntriesFacts
  <2>3. \A i \in deTree : Mentions(f, p, i) /\ Says(f, i) = 0
    BY <2>2, NoEntriesFacts DEF Mentions, Says
  <2>4. setup.at[p] \in Windows /\ Badges!Reach(setup.at[p])
    BY <1>1, <1>2, <1>6 DEF Badges!Live, Badges!At
  <2>5. up' \in [Windows -> Seq(Frames)] /\ QueuesOK' /\ StoreFollows' /\ WindowFollows'
    <3>1. \A i \in deTree : IF Mentions(f, p, i) THEN Says(f, i) = Target(p, i)' ELSE Target(p, i)' = Target(p, i)
      BY <1>3, <2>3
    <3>2. up' = [up EXCEPT ![setup.at[p]] = Append(@, f)] /\ UNCHANGED <<store, pending>>
      BY <1>1, <1>6, <2>1
    <3> QED
      BY <1>1, <1>3, <2>2, <2>4, <3>1, <3>2, FramePushed
  <2>6. HostTyped'
    BY <1>1, <1>6, <2>5 DEF ShareInv, HostTyped
  <2> QED
    BY <1>4, <2>5, <2>6 DEF ShareInv
<1> QED
  BY <1>5, <1>6

\* A slot is written entry by entry; a badge that was set or is cleared counts as changed.
LEMMA WrittenFacts ==
    ASSUME ShareInv, NEW s \in Badges!Slots, NEW e \in Entries
    PROVE  /\ Badges!Written(s, e) \in Shown
           /\ \A t \in Badges!Slots : t # s => Badges!Written(s, e)[t] = store[t]
           /\ \A i \in BadgeIds : Badges!Written(s, e)[s][i] = IF i \in DOMAIN e THEN e[i] ELSE store[s][i]
<1> DEFINE row == [i \in BadgeIds |-> IF i \in DOMAIN e THEN e[i] ELSE store[s][i]]
<1>1. row \in [BadgeIds -> Versions]
  BY EntriesFacts DEF ShareInv, HostTyped, Shown
<1>2. Badges!Written(s, e) = [store EXCEPT ![s] = row]
  BY DEF Badges!Written, ShareInv, HostTyped, Shown
<1> QED
  BY <1>1, <1>2 DEF ShareInv, HostTyped, Shown

\* The new map of a recompute is told to the engine: what is not told has not changed.
LEMMA PublishShare ==
    ASSUME ProviderInv, ShareInv, NEW p \in Badges!Providers, NEW j \in BadgeJobs, Badges!Publish(p, j)
    PROVE  ShareInv'
<1>1. job[p][j].state = "resolving" /\ UNCHANGED <<setup, disposed, deTree, gone, window, down>>
  BY DEF Badges!Publish
<1>2. job[p][j] \in ReadJobs /\ Busy(p, j) /\ generation[p] # 0
  BY <1>1, JobKinds DEF ProviderInv, ProviderTyped, ProviderOK, JobsNumbered
<1>3. CASE ~Badges!Current(p, j)
  <2>1. UNCHANGED <<map, knownIds, up, store, pending>>
    BY <1>3 DEF Badges!Publish
  <2> QED
    BY <1>1, <2>1, ShareLeftAlone
<1>4. CASE Badges!Current(p, j)
  <2>1. PICK next : next = Computed(job[p][j].got)
    OBVIOUS
  <2>2. next \in [BadgeIds -> Versions]
    BY <1>2, <2>1, DecorationsAssumption DEF Computed, Versions, ReadJobs
  <2>3. PICK changed : changed = {i \in BadgeIds : IF p \in setup.guarded THEN next[i] # map[p][i]
                                                   ELSE next[i] # 0 \/ map[p][i] # 0}
    OBVIOUS
  <2>4. /\ map' = [map EXCEPT ![p] = next]
        /\ IF p \in disposed THEN UNCHANGED <<knownIds, up, store, pending>> ELSE Badges!Told(p, next, changed)
    BY <1>4, <2>1, <2>3 DEF Badges!Publish, Computed, Badges!Guarded
  <2>5. map'[p] = next /\ \A q \in Badges!Providers : q # p => map'[q] = map[q]
    BY <2>4 DEF ProviderInv, ProviderTyped
  <2>6. \A q \in Badges!Providers : q # p => \A i \in deTree : Target(q, i)' = Target(q, i)
    BY <1>1, <2>5 DEF Target
  <2>7. /\ changed \in SUBSET BadgeIds
        /\ \A i \in BadgeIds : i \notin changed => next[i] = map[p][i]
        /\ \A i \in changed : next[i] # 0 \/ map[p][i] # 0
    <3>1. next \in [BadgeIds -> Nat] /\ map[p] \in [BadgeIds -> Nat]
      BY <2>2, DecorationsAssumption DEF ProviderInv, ProviderTyped, Versions
    <3> QED
      BY <2>3, <3>1
  <2>8. CASE p \in disposed
    <3>1. \A q \in Badges!Providers, i \in deTree : Target(q, i)' = Target(q, i)
      BY <1>1, <2>6, <2>8 DEF Target
    <3>2. UNCHANGED <<knownIds, up, store, pending>>
      BY <2>4, <2>8
    <3>3. HostTyped' /\ QueuesOK' /\ WindowFollows'
      BY <1>1, <3>2, NotedChange DEF ShareInv, HostTyped, QueuesOK
    <3>4. PushIsRecorded'
      BY <1>1, <2>5, <2>8, <3>2 DEF ShareInv, PushIsRecorded
    <3>5. StoreFollows'
      BY <1>1, <3>1, <3>2 DEF ShareInv, StoreFollows, StoreOf
    <3> QED
      BY <3>3, <3>4, <3>5 DEF ShareInv
  <2>9. CASE p \notin disposed /\ setup.at[p] = 0
    <3>1. PICK e : e = [i \in changed |-> next[i]]
      OBVIOUS
    <3>2. e \in Entries /\ DOMAIN e = changed /\ \A i \in changed : e[i] = next[i]
      <4>1. e \in [changed -> Versions]
        BY <2>2, <2>7, <3>1
      <4> QED
        BY <2>7, <3>1, <4>1, EntriesFacts
    <3>3. /\ store' = Badges!Written(BadgeSlot[p], e)
          /\ pending' = pending \cup Badges!Reported(BadgeSlot[p], e)
          /\ UNCHANGED <<knownIds, up>>
      BY <2>4, <2>9, <3>1 DEF Badges!Told, Badges!At
    <3>4. BadgeSlot[p] \in Badges!Slots
      BY BadgeFacts DEF ProviderInv, ProviderTyped
    <3>5. /\ store' \in Shown /\ \A s \in Badges!Slots : s # BadgeSlot[p] => store'[s] = store[s]
          /\ \A i \in BadgeIds : store'[BadgeSlot[p]][i] = IF i \in changed THEN next[i] ELSE store[BadgeSlot[p]][i]
      BY <3>2, <3>3, <3>4, WrittenFacts
    <3>6. pending' \subseteq BadgeIds /\ pending \subseteq pending'
      BY <2>7, <3>2, <3>3 DEF ShareInv, HostTyped, Badges!Reported
    <3>7. ASSUME NEW i \in deTree
          PROVE  store'[BadgeSlot[p]][i] = store[BadgeSlot[p]][i] \/ i \in pending'
      <4>1. i \in BadgeIds
        BY DEF ShareInv, HostTyped
      <4>2. i \in changed /\ i \notin pending' => next[i] = 0 /\ store[BadgeSlot[p]][i] = 0
        BY <3>2, <3>3 DEF Badges!Reported
      <4> QED
        BY <3>5, <4>1, <4>2
    <3>8. ASSUME Sole(p), NEW i \in deTree
          PROVE  store'[BadgeSlot[p]][i] = Target(p, i)'
      <4>1. i \in BadgeIds
        BY DEF ShareInv, HostTyped
      <4>2. store[BadgeSlot[p]][i] = map[p][i]
        BY <2>9, <3>8 DEF ShareInv, StoreFollows, StoreOf, Target
      <4>3. Target(p, i)' = next[i]
        BY <1>1, <2>5, <2>9 DEF Target
      <4> QED
        BY <2>7, <3>5, <4>1, <4>2, <4>3
    <3>9. HostTyped' /\ QueuesOK' /\ StoreFollows' /\ WindowFollows'
      BY <1>1, <2>6, <2>9, <3>3, <3>5, <3>6, <3>7, <3>8, SlotWritten
    <3>10. PushIsRecorded'
      BY <1>1, <2>5, <2>9, <3>3 DEF ShareInv, PushIsRecorded
    <3> QED
      BY <3>9, <3>10 DEF ShareInv
  <2>10. CASE p \notin disposed /\ setup.at[p] # 0
    <3>1. setup.at[p] \in Windows /\ Badges!Reach(setup.at[p])
      BY <1>2, <2>10, BegunIsLive, BadgeFacts DEF ShareInv, ProviderInv, ProviderTyped, Badges!Live, Badges!At
    <3>2. PICK e : e = Badges!Pushed(p, next, changed, {})
      OBVIOUS
    <3>3. /\ e \in Entries /\ DOMAIN e \subseteq changed
          /\ \A i \in DOMAIN e : e[i] = next[i]
          /\ \A i \in changed : next[i] # 0 \/ i \in knownIds[p] => i \in DOMAIN e
      BY <2>2, <2>7, <3>2, PushedFacts
    <3>4. /\ knownIds' = [knownIds EXCEPT ![p] = Badges!Recorded(p, e)]
          /\ up' = IF DOMAIN e = {} THEN up
                   ELSE [up EXCEPT ![setup.at[p]] = Append(@, Badges!Frame(p, e, FALSE))]
          /\ store' = store /\ pending' = pending
      BY <2>4, <2>10, <3>1, <3>2 DEF Badges!Told, Badges!At
    <3>5. /\ knownIds' \in [Badges!Providers -> SUBSET BadgeIds]
          /\ knownIds'[p] = Badges!Recorded(p, e) /\ \A q \in Badges!Providers : q # p => knownIds'[q] = knownIds[q]
      <4>1. Badges!Recorded(p, e) \subseteq BadgeIds
        BY <3>3, EntriesFacts DEF Badges!Recorded, ShareInv, HostTyped
      <4> QED
        BY <3>4, <4>1 DEF ShareInv, HostTyped
    <3>6. ASSUME NEW i \in deTree
          PROVE  i \in BadgeIds /\ (i \notin DOMAIN e => next[i] = map[p][i])
      <4>1. i \in BadgeIds
        BY DEF ShareInv, HostTyped
      <4>2. map[p][i] # 0 => i \in knownIds[p]
        BY <2>10 DEF ShareInv, PushIsRecorded
      <4> QED
        BY <2>7, <3>3, <4>1, <4>2
    <3>7. PushIsRecorded'
      <4>1. ASSUME NEW i \in deTree, next[i] # 0
            PROVE  i \in knownIds'[p]
        <5>1. CASE i \in DOMAIN e
          BY <3>3, <3>5, <4>1, <5>1 DEF Badges!Recorded
        <5>2. CASE i \notin DOMAIN e
          <6>1. i \in knownIds[p]
            BY <2>10, <3>6, <4>1, <5>2 DEF ShareInv, PushIsRecorded
          <6> QED
            BY <3>5, <5>2, <6>1 DEF Badges!Recorded
        <5> QED
          BY <5>1, <5>2
      <4> QED
        BY <1>1, <2>5, <3>5, <4>1 DEF ShareInv, PushIsRecorded
    <3>8. \A i \in deTree : Target(p, i)' = next[i] /\ Target(p, i) = map[p][i]
      BY <1>1, <2>5, <2>10 DEF Target
    <3>9. CASE DOMAIN e = {}
      <4>1. \A q \in Badges!Providers, i \in deTree : Target(q, i)' = Target(q, i)
        BY <2>6, <3>6, <3>8, <3>9
      <4>2. UNCHANGED <<up, store, pending>>
        BY <3>4, <3>9
      <4>3. HostTyped' /\ QueuesOK' /\ WindowFollows'
        BY <1>1, <3>5, <4>2, NotedChange DEF ShareInv, HostTyped, QueuesOK
      <4>4. StoreFollows'
        BY <1>1, <4>1, <4>2 DEF ShareInv, StoreFollows, StoreOf
      <4> QED
        BY <3>7, <4>3, <4>4 DEF ShareInv
    <3>10. CASE DOMAIN e # {}
      <4>1. PICK f : f = Badges!Frame(p, e, FALSE)
        OBVIOUS
      <4>2. f \in Frames /\ f.by = p /\ f.entries = e /\ f.replaceAll = FALSE
        BY <3>3, <4>1, FrameFacts
      <4>3. ASSUME NEW i \in deTree
            PROVE  IF Mentions(f, p, i) THEN Says(f, i) = Target(p, i)' ELSE Target(p, i)' = Target(p, i)
        BY <3>3, <3>6, <3>8, <4>2 DEF Mentions, Says
      <4>4. up' \in [Windows -> Seq(Frames)] /\ QueuesOK' /\ StoreFollows' /\ WindowFollows'
        BY <1>1, <2>6, <3>1, <3>4, <3>10, <4>1, <4>2, <4>3, FramePushed
      <4>5. HostTyped'
        BY <1>1, <3>4, <3>5, <4>4 DEF ShareInv, HostTyped
      <4> QED
        BY <3>7, <4>4, <4>5 DEF ShareInv
    <3> QED
      BY <3>9, <3>10
  <2> QED
    BY <2>8, <2>9, <2>10
<1> QED
  BY <1>3, <1>4

\* handleDecorations: the frame at the head reaches its provider's slot.
LEMMA DecorationsShare ==
    ASSUME ProviderInv, ShareInv, NEW w \in Windows, Badges!handleDecorations(w)
    PROVE  ShareInv'
<1> USE DEF Badges!provider
<1>1. PICK f : f = Head(up[w])
  OBVIOUS
<1>2. Badges!Reach(w) /\ up[w] \in Seq(Frames) /\ up[w] # <<>>
  BY DEF Badges!handleDecorations, ShareInv, HostTyped
<1>3. f \in Frames /\ setup.at[f.by] = w
  <2>1. f = up[w][1] /\ 1 \in 1..Len(up[w])
    BY <1>1, <1>2
  <2> QED
    BY <1>2, <2>1 DEF ShareInv, QueuesOK
<1>4. PICK p \in Badges!Providers : p = f.by
  BY <1>3 DEF Frames
<1>5. f.entries \in Entries /\ f.replaceAll \in {TRUE, FALSE}
  BY <1>3 DEF Frames
<1>6. PICK s \in Badges!Slots : s = BadgeSlot[p]
  BY BadgeFacts DEF ProviderInv, ProviderTyped
<1>7. PICK cleared : cleared = IF f.replaceAll THEN Badges!removeProvider(s) ELSE {}
  OBVIOUS
<1>8. PICK all : all = [i \in DOMAIN f.entries \cup cleared |-> IF i \in DOMAIN f.entries THEN f.entries[i] ELSE 0]
  OBVIOUS
<1>9. /\ up' = [up EXCEPT ![w] = Tail(@)]
      /\ store' = Badges!Written(s, all)
      /\ pending' = pending \cup cleared \cup Badges!Reported(s, f.entries)
      /\ UNCHANGED <<setup, map, disposed, deTree, gone, knownIds, window, down>>
  BY <1>1, <1>4, <1>6, <1>7, <1>8 DEF Badges!handleDecorations
<1>10. cleared \subseteq BadgeIds /\ DOMAIN f.entries \subseteq BadgeIds /\ 0 \in Versions
  BY <1>5, <1>7, EntriesFacts, BadgeFacts DEF Badges!removeProvider, ProviderInv, ProviderTyped
<1>11. all \in Entries /\ DOMAIN all = DOMAIN f.entries \cup cleared
  <2>1. all \in [DOMAIN f.entries \cup cleared -> Versions]
    BY <1>5, <1>8, <1>10, EntriesFacts
  <2> QED
    BY <1>8, <1>10, <2>1, EntriesFacts
<1>12. /\ store' \in Shown /\ \A t \in Badges!Slots : t # s => store'[t] = store[t]
       /\ \A i \in BadgeIds : store'[s][i] = IF i \in DOMAIN all THEN all[i] ELSE store[s][i]
  BY <1>9, <1>11, WrittenFacts
<1>13. ASSUME NEW i \in BadgeIds
       PROVE  /\ store'[s][i] = IF Mentions(f, p, i) THEN Says(f, i) ELSE store[s][i]
              /\ store'[s][i] = store[s][i] \/ i \in pending'
  <2>1. i \in cleared <=> f.replaceAll /\ store[s][i] # 0
    BY <1>7 DEF Badges!removeProvider
  <2>2. i \in DOMAIN f.entries => i \in pending' \/ (f.entries[i] = 0 /\ store[s][i] = 0)
    BY <1>9 DEF Badges!Reported
  <2>3. i \in DOMAIN all => all[i] = IF i \in DOMAIN f.entries THEN f.entries[i] ELSE 0
    BY <1>8, <1>11
  <2>4. i \in cleared => i \in pending'
    BY <1>9
  <2>5. CASE i \in DOMAIN f.entries
    BY <1>4, <1>11, <1>12, <2>2, <2>3, <2>5 DEF Mentions, Says
  <2>6. CASE i \notin DOMAIN f.entries
    BY <1>4, <1>11, <1>12, <2>1, <2>3, <2>4, <2>6 DEF Mentions, Says
  <2> QED
    BY <2>5, <2>6
<1>14. up'[w] = Tail(up[w]) /\ \A v \in Windows : v # w => up'[v] = up[v]
  BY <1>9 DEF ShareInv, HostTyped
<1>15. HostTyped'
  <2>1. Tail(up[w]) \in Seq(Frames)
    BY <1>2
  <2>2. up' \in [Windows -> Seq(Frames)]
    BY <1>9, <2>1 DEF ShareInv, HostTyped
  <2>3. pending' \subseteq BadgeIds
    BY <1>9, <1>10 DEF ShareInv, HostTyped, Badges!Reported
  <2> QED
    BY <1>9, <1>12, <2>2, <2>3 DEF ShareInv, HostTyped
<1>16. QueuesOK'
  <2>1. \A k \in 1..Len(up'[w]) : setup.at[up'[w][k].by] = w
    <3>1. \A k \in 1..Len(Tail(up[w])) : k + 1 \in 1..Len(up[w]) /\ Tail(up[w])[k] = up[w][k + 1]
      BY <1>2
    <3>2. \A k \in 1..Len(up[w]) : setup.at[up[w][k].by] = w
      BY DEF ShareInv, QueuesOK
    <3>3. ASSUME NEW k \in 1..Len(Tail(up[w]))
          PROVE  setup.at[Tail(up[w])[k].by] = w
      BY <3>1, <3>2
    <3> QED
      BY <1>14, <3>3
  <2>2. window[w].state # "new"
    BY <1>2 DEF Badges!Reach
  <2>3. ASSUME NEW v \in Windows
        PROVE  /\ \A k \in 1..Len(up'[v]) : setup.at[up'[v][k].by] = v
               /\ \A k \in 1..Len(down[v]) : down[v][k].removed \cap deTree = {}
               /\ window[v].state = "new" => up'[v] = <<>> /\ down[v] = <<>>
    BY <1>14, <2>1, <2>2 DEF ShareInv, QueuesOK
  <2>4. gone \cap deTree = {}
    BY DEF ShareInv, QueuesOK
  <2> QED
    BY <1>9, <2>3, <2>4 DEF QueuesOK
<1>17. PushIsRecorded'
  BY <1>9 DEF ShareInv, PushIsRecorded
<1>18. WindowFollows'
  <2>1. \A t \in Badges!Slots, i \in deTree : store'[t][i] = store[t][i] \/ i \in pending'
    BY <1>12, <1>13 DEF ShareInv, HostTyped
  <2>2. pending \subseteq pending'
    BY <1>9
  <2> QED
    BY <1>9, <2>1, <2>2, NotedChange
<1>19. StoreFollows'
  <2>1. SUFFICES ASSUME NEW q \in Badges!Providers, Sole(q), NEW i \in deTree
                 PROVE  StoreOf(q, i)'
    BY <1>9 DEF StoreFollows
  <2>2. /\ StoreOf(q, i) /\ setup.at[q] \in Windows \cup {0} /\ 0 \notin Windows /\ i \in BadgeIds
        /\ BadgeSlot[q] \in Badges!Slots
    BY <2>1, BadgeFacts DEF ShareInv, StoreFollows, ProviderInv, ProviderTyped, HostTyped
  <2>3. Target(q, i)' = Target(q, i)
    BY <1>9 DEF Target
  <2>4. q # p => BadgeSlot[q] # s
    BY <1>6, <2>1 DEF Sole
  <2>5. store'[BadgeSlot[q]][i] = IF Mentions(f, q, i) THEN Says(f, i) ELSE store[BadgeSlot[q]][i]
    <3>1. CASE q = p
      BY <1>6, <1>13, <2>2, <3>1
    <3>2. CASE q # p
      BY <1>4, <1>12, <2>2, <2>4, <3>2 DEF Mentions
    <3> QED
      BY <3>1, <3>2
  <2>6. CASE setup.at[q] = 0
    <3>1. ~Mentions(f, q, i)
      BY <1>3, <2>2, <2>6 DEF Mentions
    <3> QED
      BY <1>9, <2>2, <2>3, <2>5, <2>6, <3>1 DEF StoreOf
  <2>7. CASE setup.at[q] # 0
    <3>1. SUFFICES ASSUME window[setup.at[q]].state # "closed"
                   PROVE  SaysLast(up'[setup.at[q]], q, i, store'[BadgeSlot[q]][i], Target(q, i)')
      BY <1>9, <2>7 DEF StoreOf
    <3>2. SaysLast(up[setup.at[q]], q, i, store[BadgeSlot[q]][i], Target(q, i))
      BY <2>2, <2>7, <3>1 DEF StoreOf
    <3>3. CASE setup.at[q] # w
      <4>1. ~Mentions(f, q, i)
        BY <1>3, <3>3 DEF Mentions
      <4> QED
        BY <1>14, <2>2, <2>3, <2>5, <2>7, <3>2, <3>3, <4>1
    <3>4. CASE setup.at[q] = w
      <4>1. PICK now : now = store'[BadgeSlot[q]][i]
        OBVIOUS
      <4>2. now = IF Mentions(Head(up[w]), q, i) THEN Says(Head(up[w]), i) ELSE store[BadgeSlot[q]][i]
        BY <1>1, <2>5, <4>1
      <4>3. SaysLast(Tail(up[w]), q, i, now, Target(q, i))
        BY <1>2, <3>2, <3>4, <4>2, SaysTail
      <4> QED
        BY <1>14, <2>3, <3>4, <4>1, <4>3
    <3> QED
      BY <3>3, <3>4
  <2> QED
    BY <2>6, <2>7
<1> QED
  BY <1>15, <1>16, <1>17, <1>18, <1>19 DEF ShareInv

\* tick: what changed goes out to every window that has shaken hands.
LEMMA TickShare ==
    ASSUME ProviderInv, ShareInv, Badges!tick
    PROVE  ShareInv'
<1> USE DEF Badges!provider
<1>1. PICK d : d = Badges!Delta(Badges!Merged(pending), {}, gone)
  OBVIOUS
<1>2. /\ down' = [w \in Windows |-> IF Badges!Reach(w) THEN Append(down[w], d) ELSE down[w]]
      /\ pending' = {} /\ gone' = {}
      /\ UNCHANGED <<setup, map, disposed, deTree, store, knownIds, up, window>>
  BY <1>1 DEF Badges!tick
<1>3. /\ d \in Deltas /\ DOMAIN d.decorations = pending /\ d.removed = gone
      /\ \A i \in pending, s \in Badges!Slots : d.decorations[i][s] = store[s][i]
  <2>1. Badges!Merged(pending) = [i \in pending |-> [s \in Badges!Slots |-> store[s][i]]]
    BY DEF Badges!Merged
  <2>2. pending \in SUBSET BadgeIds /\ gone \in SUBSET BadgeIds /\ store \in [Badges!Slots -> [BadgeIds -> Versions]]
    BY DEF ShareInv, HostTyped, Shown
  <2>3. \A i \in pending : [s \in Badges!Slots |-> store[s][i]] \in [Badges!Slots -> Versions]
    BY <2>2
  <2>4. Badges!Merged(pending) \in [pending -> [Badges!Slots -> Versions]]
    BY <2>1, <2>3
  <2>5. Badges!Merged(pending) \in Badged
    BY <2>2, <2>4, EntriesFacts
  <2>6. d.decorations = Badges!Merged(pending) /\ d.removed = gone
    BY <1>1 DEF Badges!Delta
  <2>7. d \in Deltas
    BY <1>1, <2>2, <2>5 DEF Deltas, Badges!Delta
  <2> QED
    BY <2>1, <2>6, <2>7
<1>4. \A w \in Windows : down[w] \in Seq(Deltas)
  BY DEF ShareInv, HostTyped
<1>5. HostTyped'
  <2>1. \A w \in Windows : Append(down[w], d) \in Seq(Deltas)
    BY <1>3, <1>4
  <2>2. down' \in [Windows -> Seq(Deltas)]
    BY <1>2, <1>4, <2>1
  <2> QED
    BY <1>2, <2>2 DEF ShareInv, HostTyped
<1>6. QueuesOK'
  <2>1. gone \cap deTree = {}
    BY DEF ShareInv, QueuesOK
  <2>2. ASSUME NEW w \in Windows
        PROVE  /\ \A k \in 1..Len(down'[w]) : down'[w][k].removed \cap deTree = {}
               /\ window[w].state = "new" => down'[w] = <<>>
    <3>1. \A k \in 1..Len(down[w]) : down[w][k].removed \cap deTree = {}
      BY DEF ShareInv, QueuesOK
    <3>2. CASE Badges!Reach(w)
      <4>1. PICK a : a = down'[w]
        OBVIOUS
      <4>2. a = Append(down[w], d)
        BY <1>2, <3>2, <4>1
      <4>3. /\ Len(a) = Len(down[w]) + 1 /\ a[Len(down[w]) + 1] = d /\ Len(down[w]) \in Nat
            /\ \A k \in 1..Len(down[w]) : a[k] = down[w][k]
        BY <1>3, <1>4, <4>2
      <4>4. \A k \in 1..Len(a) : k \in 1..Len(down[w]) \/ k = Len(down[w]) + 1
        BY <4>3
      <4>5. \A k \in 1..Len(a) : a[k].removed \cap deTree = {}
        BY <1>3, <2>1, <3>1, <4>3, <4>4
      <4> QED
        BY <3>2, <4>1, <4>5 DEF Badges!Reach
    <3>3. CASE ~Badges!Reach(w)
      BY <1>2, <3>1, <3>3 DEF ShareInv, QueuesOK
    <3> QED
      BY <3>2, <3>3
  <2>3. \A w \in Windows :
            /\ \A k \in 1..Len(up[w]) : setup.at[up[w][k].by] = w
            /\ window[w].state = "new" => up[w] = <<>>
    BY DEF ShareInv, QueuesOK
  <2> QED
    BY <1>2, <2>2, <2>3 DEF QueuesOK
<1>7. PushIsRecorded' /\ StoreFollows'
  BY <1>2 DEF ShareInv, PushIsRecorded, StoreFollows, StoreOf, Target
<1>8. WindowFollows'
  <2>1. SUFFICES ASSUME NEW w \in Windows, Badges!Reach(w), ~window[w].late, NEW s \in Badges!Slots, NEW i \in deTree
                 PROVE  WindowOf(w, s, i)'
    BY <1>2 DEF WindowFollows, Badges!Reach
  <2>2. ShowsLast(Append(down[w], d), i, s, window[w].shown[s][i], store[s][i])
    <3>1. CASE i \in pending
      BY <1>3, <1>4, <3>1, ShowsAppended DEF Covers
    <3>2. CASE i \notin pending
      <4>1. ShowsLast(down[w], i, s, window[w].shown[s][i], store[s][i])
        BY <2>1, <3>2 DEF ShareInv, WindowFollows, WindowOf
      <4> QED
        BY <1>3, <1>4, <3>2, <4>1, ShowsAppended DEF Covers
    <3> QED
      BY <3>1, <3>2
  <2>3. down'[w] = Append(down[w], d)
    BY <1>2, <2>1
  <2> QED
    BY <1>2, <2>2, <2>3 DEF WindowOf
<1> QED
  BY <1>5, <1>6, <1>7, <1>8 DEF ShareInv

\* Entries listed for a window carry no badge, and take none away.
LEMMA ListShare ==
    ASSUME ProviderInv, ShareInv, NEW w \in Windows, NEW ids \in SUBSET BadgeIds, Badges!List(w, ids)
    PROVE  ShareInv'
<1> USE DEF Badges!provider, Badges!host
<1>1. PICK d : d = Badges!Delta(Badges!NoEntries, ids, {})
  OBVIOUS
<1>2. /\ Badges!Reach(w) /\ down' = [down EXCEPT ![w] = Append(@, d)]
      /\ UNCHANGED <<setup, map, disposed, deTree, store, pending, gone, knownIds, up, window>>
  BY <1>1 DEF Badges!List
<1>3. d \in Deltas /\ DOMAIN d.decorations = {} /\ d.removed = {}
  <2>1. Badges!NoEntries \in [{} -> [Badges!Slots -> Versions]] /\ {} \in SUBSET BadgeIds
    BY DEF Badges!NoEntries
  <2>2. Badges!NoEntries \in Badged
    BY <2>1, EntriesFacts
  <2>3. d.decorations = Badges!NoEntries /\ d.removed = {}
    BY <1>1 DEF Badges!Delta
  <2>4. d \in Deltas
    BY <1>1, <2>1, <2>2 DEF Deltas, Badges!Delta
  <2> QED
    BY <2>1, <2>3, <2>4
<1>4. \A v \in Windows : down[v] \in Seq(Deltas)
  BY DEF ShareInv, HostTyped
<1>5. down'[w] = Append(down[w], d) /\ \A v \in Windows : v # w => down'[v] = down[v]
  BY <1>2 DEF ShareInv, HostTyped
<1>6. HostTyped'
  <2>1. Append(down[w], d) \in Seq(Deltas)
    BY <1>3, <1>4
  <2>2. down' \in [Windows -> Seq(Deltas)]
    BY <1>2, <2>1 DEF ShareInv, HostTyped
  <2> QED
    BY <1>2, <2>2 DEF ShareInv, HostTyped
<1>7. QueuesOK'
  <2>1. ASSUME NEW v \in Windows
        PROVE  /\ \A k \in 1..Len(down'[v]) : down'[v][k].removed \cap deTree = {}
               /\ window[v].state = "new" => down'[v] = <<>>
    <3>1. CASE v = w
      <4>1. PICK a : a = down'[w]
        OBVIOUS
      <4>2. /\ Len(a) = Len(down[w]) + 1 /\ a[Len(down[w]) + 1] = d /\ Len(down[w]) \in Nat
            /\ \A k \in 1..Len(down[w]) : a[k] = down[w][k]
        BY <1>3, <1>4, <1>5, <4>1
      <4>3. \A k \in 1..Len(a) : k \in 1..Len(down[w]) \/ k = Len(down[w]) + 1
        BY <4>2
      <4>4. \A k \in 1..Len(down[w]) : down[w][k].removed \cap deTree = {}
        BY DEF ShareInv, QueuesOK
      <4>5. \A k \in 1..Len(a) : a[k].removed \cap deTree = {}
        BY <1>3, <4>2, <4>3, <4>4
      <4> QED
        BY <1>2, <3>1, <4>1, <4>5 DEF Badges!Reach
    <3>2. CASE v # w
      BY <1>5, <3>2 DEF ShareInv, QueuesOK
    <3> QED
      BY <3>1, <3>2
  <2>2. /\ gone \cap deTree = {}
        /\ \A v \in Windows :
              /\ \A k \in 1..Len(up[v]) : setup.at[up[v][k].by] = v
              /\ window[v].state = "new" => up[v] = <<>>
    BY DEF ShareInv, QueuesOK
  <2> QED
    BY <1>2, <2>1, <2>2 DEF QueuesOK
<1>8. PushIsRecorded' /\ StoreFollows'
  BY <1>2 DEF ShareInv, PushIsRecorded, StoreFollows, StoreOf, Target
<1>9. WindowFollows'
  <2>1. SUFFICES ASSUME NEW v \in Windows, Badges!Reach(v), ~window[v].late, NEW s \in Badges!Slots, NEW i \in deTree,
                        i \notin pending
                 PROVE  WindowOf(v, s, i)'
    BY <1>2 DEF WindowFollows, Badges!Reach
  <2>2. ShowsLast(down[v], i, s, window[v].shown[s][i], store[s][i])
    BY <2>1 DEF ShareInv, WindowFollows, WindowOf
  <2>3. CASE v = w
    <3>1. ShowsLast(Append(down[w], d), i, s, window[w].shown[s][i], store[s][i])
      BY <1>3, <1>4, <2>2, <2>3, ShowsAppended DEF Covers
    <3> QED
      BY <1>2, <1>5, <2>3, <3>1 DEF WindowOf
  <2>4. CASE v # w
    BY <1>2, <1>5, <2>2, <2>4 DEF WindowOf
  <2> QED
    BY <2>3, <2>4
<1> QED
  BY <1>6, <1>7, <1>8, <1>9 DEF ShareInv

\* A window shakes hands: its queues are empty, and it is in time only if the store is.
LEMMA HandshakeShare ==
    ASSUME ProviderInv, ShareInv, NEW w \in Windows, Badges!handleHandshake(w)
    PROVE  ShareInv'
<1> USE DEF Badges!provider, Badges!host
<1>1. PICK new : new = [state |-> "attached", mirror |-> deTree \cap BadgeRoots, shown |-> Badges!Blank,
                        late |-> store # Badges!Blank]
  OBVIOUS
<1>2. /\ window[w].state = "new" /\ window' = [window EXCEPT ![w] = new]
      /\ UNCHANGED <<setup, map, disposed, deTree, store, pending, gone, knownIds, up, down>>
  BY <1>1 DEF Badges!handleHandshake
<1>3. Badges!Blank \in Shown
  <2>1. Badges!Bare \in [BadgeIds -> Versions]
    BY BadgeFacts DEF Badges!Bare, ProviderInv, ProviderTyped
  <2> QED
    BY <2>1 DEF Badges!Blank, Shown
<1>4. new \in WindowSet /\ new.state = "attached" /\ new.shown = Badges!Blank /\ (~new.late => store = Badges!Blank)
  <2>1. new.state = "attached" /\ new.shown = Badges!Blank /\ new.mirror = deTree \cap BadgeRoots
    BY <1>1
  <2>2. new.late = (store # Badges!Blank)
    BY <1>1
  <2>3. deTree \cap BadgeRoots \in SUBSET BadgeIds /\ (store # Badges!Blank) \in {TRUE, FALSE}
    BY DEF ShareInv, HostTyped
  <2>4. new \in WindowSet
    BY <1>1, <1>3, <2>3 DEF WindowSet
  <2> QED
    BY <2>1, <2>2, <2>4
<1>5. window'[w] = new /\ \A v \in Windows : v # w => window'[v] = window[v]
  BY <1>2 DEF ShareInv, HostTyped
<1>6. HostTyped'
  BY <1>2, <1>4 DEF ShareInv, HostTyped
<1>7. QueuesOK' /\ PushIsRecorded'
  BY <1>2, <1>4, <1>5 DEF ShareInv, QueuesOK, PushIsRecorded
<1>8. StoreFollows'
  <2>1. SUFFICES ASSUME NEW q \in Badges!Providers, Sole(q), NEW i \in deTree
                 PROVE  StoreOf(q, i)'
    BY <1>2 DEF StoreFollows
  <2>2. StoreOf(q, i) /\ setup.at[q] \in Windows \cup {0} /\ Target(q, i)' = Target(q, i)
    BY <1>2, <2>1, BadgeFacts DEF ShareInv, StoreFollows, ProviderInv, ProviderTyped, Target
  <2>3. setup.at[q] # 0 /\ window'[setup.at[q]].state # "closed" => window[setup.at[q]].state # "closed"
    BY <1>2, <1>5, <2>2
  <2> QED
    BY <1>2, <2>2, <2>3 DEF StoreOf
<1>9. WindowFollows'
  <2>1. SUFFICES ASSUME NEW v \in Windows, Badges!Reach(v)', ~window'[v].late, NEW s \in Badges!Slots, NEW i \in deTree,
                        i \notin pending
                 PROVE  WindowOf(v, s, i)'
    BY <1>2 DEF WindowFollows
  <2>2. CASE v = w
    <3>1. window'[v].shown[s][i] = store[s][i] /\ down[v] = <<>>
      BY <1>2, <1>4, <1>5, <2>1, <2>2 DEF ShareInv, QueuesOK
    <3>2. ShowsLast(<<>>, i, s, window'[v].shown[s][i], store[s][i])
      BY <3>1, LastOfNone
    <3> QED
      BY <1>2, <3>1, <3>2 DEF WindowOf
  <2>3. CASE v # w
    BY <1>2, <1>5, <2>1, <2>3 DEF ShareInv, WindowFollows, WindowOf, Badges!Reach
  <2> QED
    BY <2>2, <2>3
<1> QED
  BY <1>6, <1>7, <1>8, <1>9 DEF ShareInv

\* A window closes: nothing is promised of its slots, nor shown by it, any more.
LEMMA DetachShare ==
    ASSUME ProviderInv, ShareInv, NEW w \in Windows, Badges!detachSession(w)
    PROVE  ShareInv'
<1> USE DEF Badges!host
<1>1. /\ Badges!Reach(w) /\ window' = [window EXCEPT ![w].state = "closed"]
      /\ up' = [up EXCEPT ![w] = <<>>] /\ down' = [down EXCEPT ![w] = <<>>]
      /\ disposed' = disposed \cup {p \in Badges!Providers : setup.at[p] = w}
      /\ UNCHANGED <<setup, map, deTree, store, pending, gone, knownIds>>
  BY DEF Badges!detachSession, Badges!At
<1>2. /\ window'[w] \in WindowSet /\ window'[w].state = "closed"
      /\ \A v \in Windows : v # w => window'[v] = window[v]
  <2>1. window[w] \in WindowSet /\ DOMAIN window = Windows
    BY DEF ShareInv, HostTyped
  <2>2. window'[w] = [window[w] EXCEPT !.state = "closed"]
    BY <1>1, <2>1
  <2> QED
    BY <1>1, <2>1, <2>2 DEF WindowSet
<1>3. /\ up'[w] = <<>> /\ down'[w] = <<>>
      /\ \A v \in Windows : v # w => up'[v] = up[v] /\ down'[v] = down[v]
  BY <1>1 DEF ShareInv, HostTyped
<1>4. HostTyped'
  <2>1. up' \in [Windows -> Seq(Frames)] /\ down' \in [Windows -> Seq(Deltas)]
    BY <1>1 DEF ShareInv, HostTyped
  <2>2. window' \in [Windows -> WindowSet]
    <3>1. DOMAIN window' = Windows /\ window' = [v \in Windows |-> window'[v]]
      BY <1>1 DEF ShareInv, HostTyped
    <3>2. \A v \in Windows : window'[v] \in WindowSet
      BY <1>2 DEF ShareInv, HostTyped
    <3> QED
      BY <3>1, <3>2
  <2> QED
    BY <1>1, <2>1, <2>2 DEF ShareInv, HostTyped
<1>5. QueuesOK'
  <2>1. ASSUME NEW v \in Windows
        PROVE  /\ \A k \in 1..Len(up'[v]) : setup.at[up'[v][k].by] = v
               /\ \A k \in 1..Len(down'[v]) : down'[v][k].removed \cap deTree = {}
               /\ window'[v].state = "new" => up'[v] = <<>> /\ down'[v] = <<>>
    <3>1. CASE v = w
      BY <1>3, <3>1
    <3>2. CASE v # w
      BY <1>2, <1>3, <3>2 DEF ShareInv, QueuesOK
    <3> QED
      BY <3>1, <3>2
  <2>2. gone \cap deTree = {}
    BY DEF ShareInv, QueuesOK
  <2> QED
    BY <1>1, <2>1, <2>2 DEF QueuesOK
<1>6. PushIsRecorded'
  BY <1>1 DEF ShareInv, PushIsRecorded
<1>7. StoreFollows'
  <2>1. SUFFICES ASSUME NEW q \in Badges!Providers, Sole(q), NEW i \in deTree
                 PROVE  StoreOf(q, i)'
    BY <1>1 DEF StoreFollows
  <2>2. StoreOf(q, i) /\ setup.at[q] \in Windows \cup {0} /\ 0 \notin Windows
    BY <2>1, BadgeFacts DEF ShareInv, StoreFollows, ProviderInv, ProviderTyped
  <2>3. CASE setup.at[q] = w
    BY <1>1, <1>2, <2>2, <2>3 DEF StoreOf
  <2>4. CASE setup.at[q] # w
    <3>1. Target(q, i)' = Target(q, i)
      BY <1>1, <2>4 DEF Target
    <3>2. setup.at[q] # 0 => up'[setup.at[q]] = up[setup.at[q]] /\ window'[setup.at[q]] = window[setup.at[q]]
      BY <1>2, <1>3, <2>2, <2>4
    <3> QED
      BY <1>1, <2>2, <3>1, <3>2 DEF StoreOf
  <2> QED
    BY <2>3, <2>4
<1>8. WindowFollows'
  <2>1. SUFFICES ASSUME NEW v \in Windows, Badges!Reach(v)', ~window'[v].late, NEW s \in Badges!Slots, NEW i \in deTree,
                        i \notin pending
                 PROVE  WindowOf(v, s, i)'
    BY <1>1 DEF WindowFollows
  <2>2. v # w
    BY <1>2, <2>1 DEF Badges!Reach
  <2> QED
    BY <1>1, <1>2, <1>3, <2>1, <2>2 DEF ShareInv, WindowFollows, WindowOf, Badges!Reach
<1> QED
  BY <1>4, <1>5, <1>6, <1>7, <1>8 DEF ShareInv

\* The frames of several providers, in some order, are a sequence of frames.
LEMMA FramesInOrder ==
    ASSUME NEW P, IsFiniteSet(P), NEW g \in [P -> Frames], NEW T, T = {g[p] : p \in P},
           NEW fs \in Badges!SetToSeqs(T)
    PROVE  fs \in Seq(Frames) /\ \A k \in 1..Len(fs) : \E p \in P : fs[k] = g[p]
<1>1. g \in Surjection(P, T)
  BY DEF Surjection
<1>2. IsFiniteSet(T)
  BY <1>1, FS_Surjection
<1>3. Cardinality(T) \in Nat
  BY <1>2, FS_CardinalityType
<1>4. Badges!Cardinality(T) = Cardinality(T)
  BY DEF Badges!Cardinality, Cardinality
<1>5. fs \in [1..Cardinality(T) -> T]
  BY <1>4 DEF Badges!SetToSeqs
<1>6. T \subseteq Frames
  OBVIOUS
<1>7. fs \in Seq(Frames) /\ Len(fs) = Cardinality(T)
  <2>1. PICK n \in Nat : n = Cardinality(T)
    BY <1>3
  <2>2. fs \in [1..n -> Frames]
    BY <1>5, <1>6, <2>1
  <2>3. fs \in Seq(Frames)
    BY <2>2
  <2>4. Len(fs) = n
    BY <2>2, <2>3
  <2> QED
    BY <2>1, <2>3, <2>4
<1> QED
  BY <1>5, <1>7

\* handleDelta: the badges of the delta at the head are shown; the providers of
\* the window push of the entries that came what they say of them already, and of
\* those that went.
LEMMA DeltaShare ==
    ASSUME ProviderInv, ShareInv, NEW w \in Windows, Badges!handleDelta(w)
    PROVE  ShareInv'
<1> USE DEF Badges!provider, Badges!host
<1>1. PICK d : d = Head(down[w])
  OBVIOUS
<1>2. Badges!Reach(w) /\ down[w] \in Seq(Deltas) /\ down[w] # <<>> /\ window[w] \in WindowSet
  BY DEF Badges!handleDelta, ShareInv, HostTyped
<1>3. d \in Deltas /\ d.removed \cap deTree = {}
  <2>1. d = down[w][1] /\ 1 \in 1..Len(down[w])
    BY <1>1, <1>2
  <2> QED
    BY <1>2, <2>1 DEF ShareInv, QueuesOK
<1>4. PICK left : left = window[w].mirror \cap d.removed
  OBVIOUS
<1>ids. PICK ids : ids = (d.added \ window[w].mirror) \cup left
  OBVIOUS
<1>5. PICK mine : mine = {p \in Badges!Providers \ disposed : setup.at[p] = w}
  OBVIOUS
<1>6. PICK shown : shown = [s \in Badges!Slots |-> [i \in BadgeIds |->
                       IF i \in d.removed THEN 0
                       ELSE IF i \in DOMAIN d.decorations THEN d.decorations[i][s] ELSE window[w].shown[s][i]]]
  OBVIOUS
<1>7. PICK g : g = [p \in mine |-> Badges!Frame(p, Badges!Pushed(p, map[p], ids, left), FALSE)]
  OBVIOUS
<1>8. /\ down' = [down EXCEPT ![w] = Tail(@)]
      /\ window' = [window EXCEPT ![w].shown = shown, ![w].mirror = (@ \cup d.added) \ d.removed]
      /\ knownIds' = [p \in Badges!Providers |->
             IF p \in mine THEN Badges!Recorded(p, Badges!Pushed(p, map[p], ids, left)) ELSE knownIds[p]]
      /\ UNCHANGED <<setup, map, disposed, deTree, store, pending, gone>>
  BY <1>1, <1>4, <1>5, <1>6, <1>ids DEF Badges!handleDelta, Badges!At
<1>9. ids \in SUBSET BadgeIds /\ d.removed \subseteq BadgeIds /\ d.added \subseteq BadgeIds
  BY <1>2, <1>3, <1>4, <1>ids DEF WindowSet, Deltas
<1>10. ASSUME NEW p \in mine
       PROVE  /\ p \in Badges!Providers /\ setup.at[p] = w /\ p \notin disposed
              /\ Badges!Pushed(p, map[p], ids, left) \in Entries
              /\ \A i \in DOMAIN Badges!Pushed(p, map[p], ids, left) :
                    i \in ids /\ Badges!Pushed(p, map[p], ids, left)[i] = map[p][i]
  <2>1. p \in Badges!Providers /\ setup.at[p] = w /\ p \notin disposed /\ map[p] \in [BadgeIds -> Versions]
    BY <1>5 DEF ProviderInv, ProviderTyped
  <2>2. PICK e : e = Badges!Pushed(p, map[p], ids, left)
    OBVIOUS
  <2>3. e \in Entries /\ DOMAIN e \subseteq ids /\ \A i \in DOMAIN e : e[i] = map[p][i]
    BY <1>9, <2>1, <2>2, PushedFacts
  <2> QED
    BY <2>1, <2>2, <2>3
<1>11. ASSUME NEW p \in mine
       PROVE  /\ g[p] \in Frames /\ setup.at[g[p].by] = w
              /\ \A q, i : Mentions(g[p], q, i) => Says(g[p], i) = Target(q, i)
  <2>1. PICK e : e = Badges!Pushed(p, map[p], ids, left)
    OBVIOUS
  <2>2. /\ e \in Entries /\ p \in Badges!Providers /\ setup.at[p] = w /\ p \notin disposed
        /\ \A i \in DOMAIN e : e[i] = map[p][i]
    BY <1>10, <2>1
  <2>3. PICK f : f = Badges!Frame(p, e, FALSE)
    OBVIOUS
  <2>4. f \in Frames /\ f.by = p /\ f.entries = e /\ f.replaceAll = FALSE
    BY <2>2, <2>3, FrameFacts
  <2>5. g[p] = f
    BY <1>7, <2>1, <2>3
  <2> QED
    BY <2>2, <2>4, <2>5 DEF Mentions, Says, Target
<1>12. PICK fs \in Seq(Frames) :
          /\ up' = [up EXCEPT ![w] = @ \o fs]
          /\ \A k \in 1..Len(fs) : /\ setup.at[fs[k].by] = w
                                   /\ \A q, i : Mentions(fs[k], q, i) => Says(fs[k], i) = Target(q, i)
  <2>1. PICK some : some = {p \in mine : DOMAIN Badges!Pushed(p, map[p], ids, left) # {}}
    OBVIOUS
  <2>2. PICK h : h = [p \in some |-> Badges!Frame(p, Badges!Pushed(p, map[p], ids, left), FALSE)]
    OBVIOUS
  <2>3. PICK T : T = {h[p] : p \in some}
    OBVIOUS
  <2>4. T = {Badges!Frame(p, Badges!Pushed(p, map[p], ids, left), FALSE) : p \in some}
    BY <2>2, <2>3
  <2>5. \E fs \in Badges!SetToSeqs(T) : up' = [up EXCEPT ![w] = @ \o fs]
    BY <1>1, <1>4, <1>5, <1>ids, <2>1, <2>4, ZenonT(40) DEF Badges!handleDelta, Badges!At
  <2>6. PICK fs \in Badges!SetToSeqs(T) : up' = [up EXCEPT ![w] = @ \o fs]
    BY <2>5
  <2>7. IsFiniteSet(some)
    <3>1. some \subseteq Badges!Providers
      BY <1>5, <2>1
    <3> QED
      BY <3>1, BadgeFacts, FS_Subset DEF ProviderInv, ProviderTyped
  <2>8. \A p \in some : p \in mine /\ h[p] = g[p]
    BY <1>7, <2>1, <2>2
  <2>9. h \in [some -> Frames]
    BY <1>11, <2>2, <2>8
  <2>10. fs \in Seq(Frames) /\ \A k \in 1..Len(fs) : \E p \in some : fs[k] = h[p]
    BY <2>3, <2>7, <2>9, FramesInOrder
  <2>11. ASSUME NEW k \in 1..Len(fs)
         PROVE  setup.at[fs[k].by] = w /\ \A q, i : Mentions(fs[k], q, i) => Says(fs[k], i) = Target(q, i)
    BY <1>11, <2>8, <2>10
  <2> QED
    BY <2>6, <2>10, <2>11
<1>13. /\ up[w] \in Seq(Frames) /\ up'[w] = up[w] \o fs /\ \A v \in Windows : v # w => up'[v] = up[v]
       /\ down'[w] = Tail(down[w]) /\ \A v \in Windows : v # w => down'[v] = down[v]
  BY <1>8, <1>12 DEF ShareInv, HostTyped
<1>14. shown \in Shown
  <2>1. ASSUME NEW s \in Badges!Slots, NEW i \in BadgeIds
        PROVE  (IF i \in d.removed THEN 0
                ELSE IF i \in DOMAIN d.decorations THEN d.decorations[i][s] ELSE window[w].shown[s][i]) \in Versions
    <3>1. d.decorations \in Badged /\ window[w].shown \in [Badges!Slots -> [BadgeIds -> Versions]] /\ 0 \in Versions
      BY <1>2, <1>3, BadgeFacts DEF Deltas, WindowSet, Shown, ProviderInv, ProviderTyped
    <3>2. i \in DOMAIN d.decorations => d.decorations[i] \in [Badges!Slots -> Versions]
      BY <3>1, EntriesFacts
    <3> QED
      BY <3>1, <3>2
  <2> QED
    BY <1>6, <2>1 DEF Shown
<1>15. /\ window'[w] \in WindowSet /\ window'[w].shown = shown
       /\ window'[w].state = window[w].state /\ window'[w].late = window[w].late
       /\ \A v \in Windows : v # w => window'[v] = window[v]
  <2>1. DOMAIN window = Windows
    BY DEF ShareInv, HostTyped
  <2>2. window'[w] = [window[w] EXCEPT !.shown = shown, !.mirror = (window[w].mirror \cup d.added) \ d.removed]
    BY <1>2, <1>8, <2>1 DEF WindowSet
  <2>3. window'[w].shown = shown /\ window'[w].mirror = (window[w].mirror \cup d.added) \ d.removed
    BY <1>2, <2>2 DEF WindowSet
  <2>4. window'[w].state = window[w].state /\ window'[w].late = window[w].late
    BY <1>2, <2>2 DEF WindowSet
  <2>5. window'[w] \in WindowSet
    BY <1>2, <1>9, <1>14, <2>2 DEF WindowSet
  <2>6. \A v \in Windows : v # w => window'[v] = window[v]
    BY <1>8, <2>1
  <2> QED
    BY <2>3, <2>4, <2>5, <2>6
<1>16. HostTyped'
  <2>1. up[w] \o fs \in Seq(Frames) /\ Tail(down[w]) \in Seq(Deltas)
    BY <1>2, <1>13
  <2>2. up' \in [Windows -> Seq(Frames)] /\ down' \in [Windows -> Seq(Deltas)]
    BY <1>8, <1>12, <2>1 DEF ShareInv, HostTyped
  <2>3. window' \in [Windows -> WindowSet]
    <3>1. window' = [v \in Windows |-> window'[v]]
      BY <1>8 DEF ShareInv, HostTyped
    <3>2. \A v \in Windows : window'[v] \in WindowSet
      BY <1>15 DEF ShareInv, HostTyped
    <3> QED
      BY <3>1, <3>2
  <2>4. knownIds' \in [Badges!Providers -> SUBSET BadgeIds]
    <3>1. ASSUME NEW p \in mine
          PROVE  Badges!Recorded(p, Badges!Pushed(p, map[p], ids, left)) \subseteq BadgeIds
      BY <1>9, <1>10 DEF Badges!Recorded, ShareInv, HostTyped
    <3> QED
      BY <1>8, <3>1 DEF ShareInv, HostTyped
  <2> QED
    BY <1>8, <2>2, <2>3, <2>4 DEF ShareInv, HostTyped
<1>17. QueuesOK'
  <2>1. ASSUME NEW k \in 1..Len(up[w] \o fs)
        PROVE  setup.at[(up[w] \o fs)[k].by] = w
    <3>1. /\ Len(up[w] \o fs) = Len(up[w]) + Len(fs) /\ Len(up[w]) \in Nat /\ Len(fs) \in Nat
          /\ k <= Len(up[w]) => (up[w] \o fs)[k] = up[w][k]
          /\ k > Len(up[w]) => (up[w] \o fs)[k] = fs[k - Len(up[w])]
      BY <1>13
    <3>2. CASE k <= Len(up[w])
      <4>1. k \in 1..Len(up[w])
        BY <3>1, <3>2
      <4> QED
        BY <3>1, <3>2, <4>1 DEF ShareInv, QueuesOK
    <3>3. CASE k > Len(up[w])
      <4>1. k - Len(up[w]) \in 1..Len(fs)
        BY <3>1, <3>3
      <4> QED
        BY <1>12, <3>1, <3>3, <4>1
    <3> QED
      BY <3>1, <3>2, <3>3
  <2>2. ASSUME NEW k \in 1..Len(Tail(down[w]))
        PROVE  Tail(down[w])[k].removed \cap deTree = {}
    <3>1. k + 1 \in 1..Len(down[w]) /\ Tail(down[w])[k] = down[w][k + 1]
      BY <1>2
    <3> QED
      BY <3>1 DEF ShareInv, QueuesOK
  <2>3. window[w].state # "new"
    BY <1>2 DEF Badges!Reach
  <2>4. ASSUME NEW v \in Windows
        PROVE  /\ \A k \in 1..Len(up'[v]) : setup.at[up'[v][k].by] = v
               /\ \A k \in 1..Len(down'[v]) : down'[v][k].removed \cap deTree = {}
               /\ window'[v].state = "new" => up'[v] = <<>> /\ down'[v] = <<>>
    <3>1. CASE v = w
      BY <1>13, <1>15, <2>1, <2>2, <2>3, <3>1
    <3>2. CASE v # w
      <4>1. up'[v] = up[v] /\ down'[v] = down[v] /\ window'[v] = window[v]
        BY <1>13, <1>15, <3>2
      <4> QED
        BY <4>1 DEF ShareInv, QueuesOK
    <3> QED
      BY <3>1, <3>2
  <2>5. gone \cap deTree = {}
    BY DEF ShareInv, QueuesOK
  <2> QED
    BY <1>8, <2>4, <2>5 DEF QueuesOK
<1>18. PushIsRecorded'
  <2>1. ASSUME NEW p \in Badges!Providers, NEW i \in deTree, i \in knownIds[p], map[p][i] # 0
        PROVE  i \in knownIds'[p]
    <3>1. CASE p \in mine
      <4>1. /\ Badges!Pushed(p, map[p], ids, left) \in Entries
            /\ i \in DOMAIN Badges!Pushed(p, map[p], ids, left) => Badges!Pushed(p, map[p], ids, left)[i] # 0
        BY <1>10, <2>1, <3>1
      <4>2. knownIds'[p] = Badges!Recorded(p, Badges!Pushed(p, map[p], ids, left))
        BY <1>8, <3>1
      <4> QED
        BY <2>1, <4>1, <4>2 DEF Badges!Recorded
    <3>2. CASE p \notin mine
      BY <1>8, <2>1, <3>2
    <3> QED
      BY <3>1, <3>2
  <2> QED
    BY <1>8, <2>1 DEF ShareInv, PushIsRecorded
<1>19. StoreFollows'
  <2>1. SUFFICES ASSUME NEW q \in Badges!Providers, Sole(q), NEW i \in deTree
                 PROVE  StoreOf(q, i)'
    BY <1>8 DEF StoreFollows
  <2>2. StoreOf(q, i) /\ setup.at[q] \in Windows \cup {0} /\ Target(q, i)' = Target(q, i)
    BY <1>8, <2>1, BadgeFacts DEF ShareInv, StoreFollows, ProviderInv, ProviderTyped, Target
  <2>3. CASE setup.at[q] = 0
    BY <1>8, <2>2, <2>3 DEF StoreOf
  <2>4. CASE setup.at[q] # 0
    <3>1. window'[setup.at[q]].state = window[setup.at[q]].state
      BY <1>15, <2>2, <2>4
    <3>2. SUFFICES ASSUME window[setup.at[q]].state # "closed"
                   PROVE  SaysLast(up'[setup.at[q]], q, i, store[BadgeSlot[q]][i], Target(q, i))
      BY <1>8, <2>2, <2>4, <3>1 DEF StoreOf
    <3>3. SaysLast(up[setup.at[q]], q, i, store[BadgeSlot[q]][i], Target(q, i))
      BY <2>2, <2>4, <3>2 DEF StoreOf
    <3>4. CASE setup.at[q] = w
      <4>1. \A k \in 1..Len(fs) : Mentions(fs[k], q, i) => Says(fs[k], i) = Target(q, i)
        BY <1>12
      <4>2. SaysLast(up[w] \o fs, q, i, store[BadgeSlot[q]][i], Target(q, i))
        BY <1>12, <1>13, <3>3, <3>4, <4>1, SaysConcat
      <4> QED
        BY <1>13, <3>4, <4>2
    <3>5. CASE setup.at[q] # w
      BY <1>13, <2>2, <2>4, <3>3, <3>5
    <3> QED
      BY <3>4, <3>5
  <2> QED
    BY <2>3, <2>4
<1>20. WindowFollows'
  <2>1. SUFFICES ASSUME NEW v \in Windows, Badges!Reach(v)', ~window'[v].late, NEW s \in Badges!Slots, NEW i \in deTree,
                        i \notin pending
                 PROVE  WindowOf(v, s, i)'
    BY <1>8 DEF WindowFollows
  <2>2. Badges!Reach(v) /\ ~window[v].late
    BY <1>15, <2>1 DEF Badges!Reach
  <2>3. ShowsLast(down[v], i, s, window[v].shown[s][i], store[s][i])
    BY <2>1, <2>2 DEF ShareInv, WindowFollows, WindowOf
  <2>4. CASE v = w
    <3>1. PICK now : now = window'[w].shown[s][i]
      OBVIOUS
    <3>2. now = IF Covers(Head(down[w]), i) THEN Head(down[w]).decorations[i][s] ELSE window[w].shown[s][i]
      <4>1. i \in BadgeIds /\ i \notin d.removed
        BY <1>3 DEF ShareInv, HostTyped
      <4>2. now = IF i \in DOMAIN d.decorations THEN d.decorations[i][s] ELSE window[w].shown[s][i]
        BY <1>6, <1>15, <3>1, <4>1
      <4> QED
        BY <1>1, <4>2 DEF Covers
    <3>3. ShowsLast(Tail(down[w]), i, s, now, store[s][i])
      BY <1>2, <2>3, <2>4, <3>2, ShowsTail
    <3> QED
      BY <1>8, <1>13, <2>4, <3>1, <3>3 DEF WindowOf
  <2>5. CASE v # w
    BY <1>8, <1>13, <1>15, <2>3, <2>5 DEF WindowOf
  <2> QED
    BY <2>4, <2>5
<1> QED
  BY <1>16, <1>17, <1>18, <1>19, <1>20 DEF ShareInv

\* Every step keeps what is said of the store and the windows.
LEMMA ShareNext ==
    ASSUME ProviderInv, ShareInv, Badges!Next
    PROVE  ShareInv'
<1> USE DEF Badges!host
<1>1. CASE Badges!Change
  BY <1>1, ShareLeftAlone DEF Badges!Change
<1>2. ASSUME NEW p \in Badges!Providers, Badges!Start(p)
      PROVE  ShareInv'
  BY <1>2, StartShare
<1>3. ASSUME NEW p \in Badges!Providers, Badges!Hear(p)
      PROVE  ShareInv'
  BY <1>3, ShareLeftAlone DEF Badges!Hear
<1>4. ASSUME NEW p \in Badges!Providers, Badges!dispose(p)
      PROVE  ShareInv'
  BY <1>4, DisposeShare
<1>5. ASSUME NEW p \in Badges!Providers, NEW j \in BadgeJobs,
             \/ Badges!Drain(p, j) \/ Badges!refresh(p, j) \/ Badges!Read(p, j)
             \/ Badges!Reply(p, j) \/ Badges!Fail(p, j)
      PROVE  ShareInv'
  <2>1. UNCHANGED <<setup, map, disposed, deTree, store, pending, gone, knownIds, up, window, down>>
    BY <1>5 DEF Badges!Drain, Badges!refresh, Badges!Read, Badges!Reply, Badges!Fail
  <2> QED
    BY <2>1, ShareLeftAlone
<1>6. ASSUME NEW p \in Badges!Providers, NEW j \in BadgeJobs, Badges!Publish(p, j)
      PROVE  ShareInv'
  BY <1>6, PublishShare
<1>7. ASSUME NEW w \in Windows, Badges!handleDecorations(w)
      PROVE  ShareInv'
  BY <1>7, DecorationsShare
<1>8. ASSUME NEW w \in Windows, Badges!handleDelta(w)
      PROVE  ShareInv'
  BY <1>8, DeltaShare
<1>9. ASSUME NEW w \in Windows, Badges!handleHandshake(w) \/ Badges!detachSession(w)
      PROVE  ShareInv'
  BY <1>9, HandshakeShare, DetachShare
<1>10. CASE Badges!tick
  BY <1>10, TickShare
<1>11. ASSUME NEW i \in BadgeIds, Badges!Delete(i)
       PROVE  ShareInv'
  BY <1>11, DeleteShare
<1>12. ASSUME NEW w \in Windows, NEW ids \in SUBSET BadgeIds, Badges!List(w, ids)
       PROVE  ShareInv'
  BY <1>12, ListShare
<1> QED
  BY <1>1, <1>2, <1>3, <1>4, <1>5, <1>6, <1>7, <1>8, <1>9, <1>10, <1>11, <1>12 DEF Badges!Next

\* Nothing has been computed, pushed or shown yet.
LEMMA BadgesInitInv ==
    ASSUME Badges!Init
    PROVE  ProviderInv /\ ShareInv
<1>1. /\ setup \in BadgeSetups
      /\ status = 0 /\ news = {} /\ batch = {} /\ disposed = {} /\ behind = Badges!Providers
      /\ job = [p \in Badges!Providers |-> [j \in BadgeJobs |-> Badges!NoJob]]
      /\ generation = [p \in Badges!Providers |-> 0] /\ map = [p \in Badges!Providers |-> Badges!Bare]
      /\ deTree = BadgeIds /\ knownIds = [p \in Badges!Providers |-> {}]
      /\ up = [w \in Windows |-> <<>>] /\ down = [w \in Windows |-> <<>>]
      /\ store = Badges!Blank /\ pending = {} /\ gone = {}
  BY DEF Badges!Init
<1>2. window = [w \in Windows |->
         [state |-> IF w \in Early THEN "attached" ELSE "new", mirror |-> BadgeRoots, shown |-> Badges!Blank,
          late |-> FALSE]]
  BY DEF Badges!Init
<1>3. Badges!Bare \in [BadgeIds -> Versions] /\ 0 \in Versions
  BY <1>1, BadgeFacts DEF Badges!Bare
<1>4. Badges!Blank \in Shown
  BY <1>3 DEF Badges!Blank, Shown
<1>5. ASSUME NEW w \in Windows
      PROVE  /\ window[w] \in WindowSet /\ window[w].state # "closed"
             /\ window[w].shown = Badges!Blank /\ window[w].late = FALSE
  BY <1>2, <1>4, DecorationsAssumption DEF WindowSet
<1>6. ProviderTyped
  <2>1. [j \in BadgeJobs |-> Badges!NoJob] \in [BadgeJobs -> JobSet]
    BY DEF JobSet
  <2> QED
    BY <1>1, <1>3, <2>1 DEF ProviderTyped
<1>7. ASSUME NEW p \in Badges!Providers
      PROVE  ProviderOK(p)
  <2>1. setup.at[p] \in Windows \cup {0}
    BY <1>1, BadgeFacts
  <2>2. \A j \in BadgeJobs : job[p][j] = Badges!NoJob
    BY <1>1
  <2>3. Badges!NoJob \notin ReadJobs
    BY DEF Badges!NoJob, ReadJobs
  <2>4. JobsNumbered(p) /\ ReadIsPresent(p) /\ MapIsPresent(p)
    BY <1>1, <2>2, <2>3 DEF JobsNumbered, ReadIsPresent, MapIsPresent, Busy
  <2>5. Begun(p)
    BY <1>1, <1>5, <2>1 DEF Begun
  <2> QED
    BY <2>4, <2>5 DEF ProviderOK
<1>8. HostTyped
  <2>1. window \in [Windows -> WindowSet]
    BY <1>2, <1>5
  <2>2. <<>> \in Seq(Frames) /\ <<>> \in Seq(Deltas)
    OBVIOUS
  <2> QED
    BY <1>1, <1>4, <2>1, <2>2 DEF HostTyped
<1>9. QueuesOK
  BY <1>1 DEF QueuesOK
<1>10. ASSUME NEW i \in deTree
       PROVE  /\ \A s \in Badges!Slots : store[s][i] = 0
              /\ \A p \in Badges!Providers : map[p][i] = 0 /\ Target(p, i) = 0
  BY <1>1, <1>10 DEF Badges!Blank, Badges!Bare, Target
<1>11. PushIsRecorded
  BY <1>10 DEF PushIsRecorded
<1>12. StoreFollows
  <2>1. SUFFICES ASSUME NEW p \in Badges!Providers, NEW i \in deTree
                 PROVE  StoreOf(p, i)
    BY DEF StoreFollows
  <2>2. store[BadgeSlot[p]][i] = Target(p, i) /\ setup.at[p] \in Windows \cup {0}
    BY <1>1, <1>10, BadgeFacts
  <2>3. setup.at[p] # 0 => up[setup.at[p]] = <<>>
    BY <1>1, <2>2
  <2> QED
    BY <2>2, <2>3, LastOfNone DEF StoreOf
<1>13. WindowFollows
  <2>1. SUFFICES ASSUME NEW w \in Windows, NEW s \in Badges!Slots, NEW i \in deTree
                 PROVE  WindowOf(w, s, i)
    BY DEF WindowFollows
  <2>2. down[w] = <<>> /\ window[w].shown[s][i] = store[s][i]
    BY <1>1, <1>5
  <2> QED
    BY <2>2, LastOfNone DEF WindowOf
<1> QED
  BY <1>6, <1>7, <1>8, <1>9, <1>11, <1>12, <1>13 DEF ProviderInv, ShareInv

\* A provider at rest has no recompute, and no news, that would still change its map.
LEMMA QuietIsPresent ==
    ASSUME ProviderInv
    PROVE  Badges!StatusIsShown
<1>1. SUFFICES ASSUME NEW p \in Badges!Providers, Badges!Quiet(p), Badges!Live(p), p \notin behind,
                      p \in overlapped => p \in setup.guarded, NEW i \in deTree
               PROVE  map[p][i] = IF i \in BadgeMarks[status] THEN status ELSE 0
  BY DEF Badges!StatusIsShown, Badges!Guarded
<1>2. p \notin disposed /\ ~Coming(p) /\ ~Running(p)
  BY <1>1 DEF Badges!Live, Badges!Quiet, Coming, Running, Busy
<1>3. Right(p)
  BY <1>1, <1>2 DEF ProviderInv, ProviderOK, MapIsPresent
<1> QED
  BY <1>3 DEF Right

(* For any windows, providers, places to register them, entries, versions  *)
(* and bounds, and in whatever order changes, answers, frames, ticks,      *)
(* deltas, disposals and closings come (mille-ui's providers,              *)
(* client-port.ts, host.ts): a provider whose recomputes are over has the  *)
(* present status, and at rest every window that was there in time shows   *)
(* what the one provider of a slot says, and nothing of one disposed.      *)
THEOREM DecorationsStayInStep == UiSpec => []DecorationsAgree
<1> DEFINE Inv == part = "badges" => ProviderInv /\ ShareInv
<1>1. UiInit => Inv
  BY BadgesInitInv DEF UiInit
<1>2. Inv /\ [UiNext]_uiVars => Inv'
  <2> SUFFICES ASSUME Inv, [UiNext]_uiVars, part' = "badges" PROVE ProviderInv' /\ ShareInv'
    OBVIOUS
  <2>1. part = "badges" /\ ProviderInv /\ ShareInv /\ HostTyped
    BY DEF UiNext, uiVars, ShareInv
  <2>2. CASE UiNext
    <3>1. Badges!Next
      BY <2>1, <2>2 DEF UiNext
    <3> QED
      BY <2>1, <3>1, ProviderNext, ShareNext
  <2>3. CASE UNCHANGED uiVars
    <3>1. UNCHANGED <<setup, status, news, batch, job, generation, map, disposed, overlapped, behind, deTree,
                      store, pending, gone, knownIds, up, window, down>>
      BY <2>3 DEF uiVars, decorating
    <3>2. ProviderInv'
      BY <2>1, <3>1, OthersLeaveProvider
    <3> QED
      BY <2>1, <3>1, <3>2, ShareLeftAlone
  <2> QED
    BY <2>2, <2>3
<1>3. Inv => DecorationsAgree
  <2> SUFFICES ASSUME ProviderInv, ShareInv
               PROVE  Badges!TypeOK /\ Badges!StatusIsShown /\ Badges!WindowsAgree
    BY DEF DecorationsAgree
  <2>1. Badges!TypeOK
    BY DEF Badges!TypeOK, ProviderInv, ProviderTyped, ShareInv, HostTyped, Shown, Versions
  <2> QED
    BY <2>1, QuietIsPresent, ShareSuffices
<1> QED
  BY <1>1, <1>2, <1>3, PTL DEF UiSpec

-----------------------------------------------------------------------------
(* Renames. *)

\* A call is made under a token of its own, which is the present one only
\* while the session that made it lasts, or the application put others in its
\* place.
CallsOfSessions ==
    /\ token \in Nat
    /\ calls = [c \in RenameCalls |-> calls[c]]
    /\ \A c \in RenameCalls :
          /\ calls[c] = [step |-> calls[c].step, id |-> calls[c].id, name |-> calls[c].name,
                         token |-> calls[c].token, session |-> calls[c].session]
          /\ calls[c].step # "idle" =>
                /\ calls[c].token \in Nat /\ calls[c].token <= token
                /\ calls[c].token = token => calls[c].session = session \/ steered = token

RenameInv == CallsOfSessions /\ Rename!TargetIsShown

\* No call has been made and no row is renamed at first.
LEMMA RenameInitInv == ASSUME Rename!Init PROVE RenameInv
<1>1. calls = [c \in RenameCalls |-> Rename!NoCall] /\ token = 0
  BY DEF Rename!Init
<1>2. CallsOfSessions
  BY <1>1 DEF CallsOfSessions, Rename!NoCall
<1> QED
  BY <1>2 DEF RenameInv, Rename!Init, Rename!TargetIsShown

\* A session that begins or ends leaves no call under the present token.
LEMMA TokenMoves ==
    ASSUME CallsOfSessions, UNCHANGED calls,
           token' = token + 1 \/ token' = token + 2
    PROVE  CallsOfSessions'
<1>1. token' \in Nat /\ token' > token
  BY DEF CallsOfSessions
<1>2. ASSUME NEW c \in RenameCalls, calls'[c].step # "idle"
      PROVE  calls'[c].token \in Nat /\ calls'[c].token < token'
  BY <1>1, <1>2 DEF CallsOfSessions
<1>3. ASSUME NEW c \in RenameCalls, calls'[c].step # "idle"
      PROVE  calls'[c].token <= token' /\ calls'[c].token # token'
  BY <1>1, <1>2, <1>3
<1> QED
  BY <1>1, <1>2, <1>3 DEF CallsOfSessions

\* A record with the fields of a call is made of its fields.
LEMMA CallRecord ==
    ASSUME NEW r, NEW s, NEW i, NEW n, NEW k, NEW e,
           r = [step |-> s, id |-> i, name |-> n, token |-> k, session |-> e]
    PROVE  /\ r.step = s /\ r.id = i /\ r.name = n /\ r.token = k /\ r.session = e
           /\ r = [step |-> r.step, id |-> r.id, name |-> r.name, token |-> r.token, session |-> r.session]
OBVIOUS

\* The step of a call is all that the engine and its answer change.
LEMMA CallSteps ==
    ASSUME CallsOfSessions, NEW c \in RenameCalls, NEW s,
           calls[c].step # "idle", calls' = [calls EXCEPT ![c].step = s],
           UNCHANGED <<token, session, steered>>
    PROVE  CallsOfSessions'
<1>1. calls' = [b \in RenameCalls |-> calls'[b]]
  BY DEF CallsOfSessions
<1>2. ASSUME NEW b \in RenameCalls
      PROVE  /\ calls'[b] = [step |-> IF b = c THEN s ELSE calls[b].step, id |-> calls[b].id,
                             name |-> calls[b].name, token |-> calls[b].token, session |-> calls[b].session]
  <2>1. calls[b] = [step |-> calls[b].step, id |-> calls[b].id, name |-> calls[b].name,
                    token |-> calls[b].token, session |-> calls[b].session]
    BY DEF CallsOfSessions
  <2>2. calls'[b] = IF b = c THEN [calls[b] EXCEPT !.step = s] ELSE calls[b]
    BY DEF CallsOfSessions
  <2>3. [calls[b] EXCEPT !.step = s]
          = [step |-> s, id |-> calls[b].id, name |-> calls[b].name,
             token |-> calls[b].token, session |-> calls[b].session]
    BY <2>1
  <2> QED
    BY <2>1, <2>2, <2>3
<1>3. ASSUME NEW b \in RenameCalls
      PROVE  /\ calls'[b].step = IF b = c THEN s ELSE calls[b].step
             /\ calls'[b].id = calls[b].id /\ calls'[b].name = calls[b].name
             /\ calls'[b].token = calls[b].token /\ calls'[b].session = calls[b].session
  <2> DEFINE k == IF b = c THEN s ELSE calls[b].step
  <2>1. calls'[b] = [step |-> k, id |-> calls[b].id, name |-> calls[b].name,
                     token |-> calls[b].token, session |-> calls[b].session]
    BY <1>2
  <2> HIDE DEF k
  <2>2. /\ calls'[b].step = k
        /\ calls'[b].id = calls[b].id /\ calls'[b].name = calls[b].name
        /\ calls'[b].token = calls[b].token /\ calls'[b].session = calls[b].session
    BY <2>1
  <2> QED
    BY <2>1, <2>2 DEF k
<1>4. ASSUME NEW b \in RenameCalls, calls'[b].step # "idle"
      PROVE  /\ calls'[b].token \in Nat /\ calls'[b].token <= token'
             /\ calls'[b].token = token' => calls'[b].session = session' \/ steered' = token'
  <2>1. calls[b].step # "idle"
    BY <1>3, <1>4
  <2> QED
    BY <1>3, <2>1 DEF CallsOfSessions
<1>5. ASSUME NEW b \in RenameCalls
      PROVE  calls'[b] = [step |-> calls'[b].step, id |-> calls'[b].id, name |-> calls'[b].name,
                          token |-> calls'[b].token, session |-> calls'[b].session]
  <2> DEFINE k == IF b = c THEN s ELSE calls[b].step
  <2>1. calls'[b] = [step |-> k, id |-> calls[b].id, name |-> calls[b].name,
                     token |-> calls[b].token, session |-> calls[b].session]
    BY <1>2
  <2> HIDE DEF k
  <2>2. /\ calls'[b].step = k
        /\ calls'[b].id = calls[b].id /\ calls'[b].name = calls[b].name
        /\ calls'[b].token = calls[b].token /\ calls'[b].session = calls[b].session
    BY <2>1
  <2> QED
    BY <2>1, <2>2 DEF k
<1>6. token' \in Nat
  BY DEF CallsOfSessions
<1> QED
  BY <1>1, <1>4, <1>5, <1>6 DEF CallsOfSessions

\* A commit takes the next token for the present session.
LEMMA CommitKeeps ==
    ASSUME RenameInv, NEW f, Rename!Commit(f)
    PROVE  RenameInv' /\ \A c \in RenameCalls : calls'[c] = calls[c] \/ calls'[c].step = "sent"
<1>1. PICK c \in RenameCalls :
        calls' = [calls EXCEPT ![c] = [step |-> "sent", id |-> target, name |-> irInput.value,
                                       token |-> token + 1, session |-> session]]
  BY DEF Rename!Commit
<1>2. token' = token + 1 /\ UNCHANGED <<irSnapshot, target, observed, session>> /\ token \in Nat
  BY DEF Rename!Commit, RenameInv, CallsOfSessions
<1>3. calls' = [b \in RenameCalls |-> IF b = c THEN [step |-> "sent", id |-> target, name |-> irInput.value,
                                       token |-> token + 1, session |-> session] ELSE calls[b]]
  BY <1>1 DEF RenameInv, CallsOfSessions
<1>4. ASSUME NEW b \in RenameCalls, b # c
      PROVE  /\ calls'[b] = calls[b]
             /\ calls'[b] = [step |-> calls'[b].step, id |-> calls'[b].id, name |-> calls'[b].name,
                             token |-> calls'[b].token, session |-> calls'[b].session]
             /\ calls'[b].step # "idle" => calls'[b].token \in Nat /\ calls'[b].token < token'
  BY <1>2, <1>3, <1>4 DEF RenameInv, CallsOfSessions
<1>5. ASSUME NEW b \in RenameCalls, b # c, calls'[b].step # "idle"
      PROVE  calls'[b].token \in Nat /\ calls'[b].token <= token' /\ calls'[b].token # token'
  <2>1. token' \in Nat
    BY <1>2
  <2>2. calls'[b].token \in Nat /\ calls'[b].token < token'
    BY <1>4, <1>5
  <2> QED
    BY <2>1, <2>2
<1>6. CallsOfSessions'
  BY <1>2, <1>3, <1>4, <1>5 DEF CallsOfSessions
<1>7. Rename!TargetIsShown'
  BY <1>2 DEF RenameInv, Rename!TargetIsShown
<1>8. \A b \in RenameCalls : calls'[b] = calls[b] \/ calls'[b].step = "sent"
  BY <1>3
<1> QED
  BY <1>6, <1>7, <1>8 DEF RenameInv

\* A session that begins has a row that is shown, or was never seen.
LEMMA StartedKeeps ==
    ASSUME RenameInv, NEW id, Rename!Started(id), UNCHANGED <<irSnapshot, calls>>
    PROVE  RenameInv'
<1>1. CallsOfSessions'
  BY TokenMoves DEF Rename!Started, RenameInv
<1>2. Rename!TargetIsShown'
  BY DEF Rename!Started, Rename!TargetIsShown
<1> QED
  BY <1>1, <1>2 DEF RenameInv

\* A session that ends leaves no target.
LEMMA EndedKeeps == ASSUME RenameInv, Rename!Ended, UNCHANGED calls PROVE RenameInv'
<1>1. CallsOfSessions'
  BY TokenMoves DEF Rename!Ended, RenameInv
<1>2. Rename!TargetIsShown'
  BY DEF Rename!Ended, Rename!TargetIsShown
<1> QED
  BY <1>1, <1>2 DEF RenameInv

\* What leaves the calls, the tokens and the target alone keeps the invariant.
LEMMA RenameLeftAlone ==
    ASSUME RenameInv, UNCHANGED <<calls, token, session, steered, irSnapshot, target, observed>>
    PROVE  RenameInv'
BY DEF RenameInv, CallsOfSessions, Rename!TargetIsShown

\* The answer to a call is applied by the session that made it, and by no other
\* but one the application put in its place.
LEMMA ReplyKeeps ==
    ASSUME RenameInv, NEW c \in RenameCalls, Rename!Reply(c)
    PROVE  /\ RenameInv'
           /\ \A b \in RenameCalls \ {c} : calls'[b] = calls[b]
           /\ calls[c].session # session => \/ UNCHANGED <<target, error, irInput>>
                                            \/ steered = calls[c].token /\ target = calls[c].id
<1> DEFINE mine == token = calls[c].token /\ target = calls[c].id
<1>1. /\ calls[c].step \in {"renamed", "refused"} /\ calls' = [calls EXCEPT ![c].step = "done"]
      /\ UNCHANGED <<irSnapshot, token, session, steered>>
  BY DEF Rename!Reply, Rename!Settled
<1>2. CallsOfSessions'
  <2>1. calls[c].step # "idle"
    BY <1>1
  <2> QED
    BY <1>1, <2>1, CallSteps DEF RenameInv
<1>3. /\ ~mine => UNCHANGED <<target, observed, error, irInput>>
      /\ target' = None \/ UNCHANGED <<target, observed>>
  <2>1. CASE ~mine
    BY <2>1 DEF Rename!Reply, Rename!Settled
  <2>2. CASE mine /\ calls[c].step = "renamed"
    BY <2>2 DEF Rename!Reply, Rename!Settled
  <2>3. CASE mine /\ calls[c].step = "refused"
    BY <2>3 DEF Rename!Reply, Rename!Settled
  <2> QED
    BY <1>1, <2>1, <2>2, <2>3
<1>4. Rename!TargetIsShown'
  BY <1>1, <1>3 DEF RenameInv, Rename!TargetIsShown
<1>5. mine => calls[c].session = session \/ (steered = calls[c].token /\ target = calls[c].id)
  BY <1>1 DEF RenameInv, CallsOfSessions
<1>6. \A b \in RenameCalls \ {c} : calls'[b] = calls[b]
  BY <1>1 DEF RenameInv, CallsOfSessions
<1> QED
  BY <1>2, <1>3, <1>4, <1>5, <1>6 DEF RenameInv

\* What one step of the calls may do: only an answer makes a call done.
AnsweredBySession == \A c \in RenameCalls :
    calls[c].step # "done" /\ calls'[c].step = "done" /\ calls[c].session # session
       => \/ UNCHANGED <<target, error, irInput>>
          \/ steered = calls[c].token /\ target = calls[c].id

\* Every step of a rename keeps the invariant, and applies an answer only in
\* the session that asked.
LEMMA RenameNextInv ==
    ASSUME RenameInv, Rename!Next
    PROVE  RenameInv' /\ AnsweredBySession
<1>1. ASSUME UNCHANGED calls PROVE AnsweredBySession
  BY <1>1 DEF AnsweredBySession
<1>2. CASE Rename!Render
  <2>1. CASE Rename!Ended
    BY <1>1, <1>2, <2>1, EndedKeeps DEF Rename!Render
  <2>2. CASE ~Rename!Ended
    <3>1. UNCHANGED <<calls, token, session, steered, target>> /\ irSnapshot' = irRows
      BY <1>2, <2>2 DEF Rename!Render
    <3>2. CallsOfSessions'
      BY <3>1 DEF RenameInv, CallsOfSessions
    <3>3. CASE target = None
      BY <1>1, <3>1, <3>2, <3>3 DEF RenameInv, Rename!TargetIsShown
    <3>4. CASE target # None /\ irRows[target] # "gone"
      BY <1>1, <3>1, <3>2, <3>4 DEF RenameInv, Rename!TargetIsShown
    <3>5. CASE target # None /\ irRows[target] = "gone"
      <4>1. observed # target /\ UNCHANGED observed
        BY <1>2, <2>2, <3>5 DEF Rename!Render
      <4> QED
        BY <1>1, <3>1, <3>2, <4>1 DEF RenameInv, Rename!TargetIsShown
    <3> QED
      BY <3>3, <3>4, <3>5
  <2> QED
    BY <2>1, <2>2
<1>3. CASE Rename!Enter \/ Rename!BlurCommits
  <2>1. PICK f \in BOOLEAN : Rename!Commit(f)
    BY <1>3 DEF Rename!Enter, Rename!BlurCommits
  <2> QED
    BY <2>1, CommitKeeps DEF AnsweredBySession
<1>4. CASE Rename!Escape
  BY <1>1, <1>4, EndedKeeps DEF Rename!Escape
<1>5. CASE Rename!onBlur
  <2>1. CASE Rename!Ended
    BY <1>1, <1>5, <2>1, EndedKeeps DEF Rename!onBlur
  <2>2. CASE ~Rename!Ended
    BY <1>1, <1>5, <2>2, RenameLeftAlone DEF Rename!onBlur
  <2> QED
    BY <2>1, <2>2
<1>6. CASE Rename!Refocus \/ Rename!onCreate \/ Rename!CreateRefused \/ Rename!Elsewhere
  BY <1>1, <1>6, RenameLeftAlone DEF Rename!Refocus, Rename!onCreate, Rename!CreateRefused, Rename!Elsewhere
<1>7. CASE Rename!Created
  BY <1>1, <1>7, StartedKeeps DEF Rename!Created
<1>8. ASSUME NEW id \in RowIds, Rename!startRename(id) PROVE RenameInv' /\ AnsweredBySession
  BY <1>1, <1>8, StartedKeeps DEF Rename!startRename
<1>9. ASSUME NEW v \in RowNames \cup {Rename!Empty}, Rename!onChange(v) PROVE RenameInv' /\ AnsweredBySession
  BY <1>1, <1>9, RenameLeftAlone DEF Rename!onChange
<1>10. ASSUME NEW c \in RenameCalls, Rename!Execute(c) PROVE RenameInv' /\ AnsweredBySession
  <2>1. PICK s \in {"renamed", "refused"} : calls' = [calls EXCEPT ![c].step = s]
    BY <1>10 DEF Rename!Execute
  <2>2. calls[c].step = "sent" /\ UNCHANGED <<irSnapshot, target, observed, token, session, steered>>
    BY <1>10 DEF Rename!Execute
  <2>3. calls[c].step # "idle"
    BY <2>2
  <2>4. CallsOfSessions'
    BY <2>1, <2>2, <2>3, CallSteps DEF RenameInv
  <2>5. Rename!TargetIsShown'
    BY <2>2 DEF RenameInv, Rename!TargetIsShown
  <2>6. \A b \in RenameCalls : calls'[b] = calls[b] \/ calls'[b].step = s
    <3>1. calls[c] = [step |-> calls[c].step, id |-> calls[c].id, name |-> calls[c].name,
                      token |-> calls[c].token, session |-> calls[c].session]
      BY DEF RenameInv, CallsOfSessions
    <3> QED
      BY <2>1, <3>1 DEF RenameInv, CallsOfSessions
  <2> QED
    BY <2>1, <2>4, <2>5, <2>6 DEF RenameInv, AnsweredBySession
<1>11. ASSUME NEW c \in RenameCalls, Rename!Reply(c) PROVE RenameInv' /\ AnsweredBySession
  BY <1>11, ReplyKeeps DEF AnsweredBySession
<1>12. ASSUME NEW id \in RowIds \cup {None}, Rename!SetTarget(id) PROVE RenameInv' /\ AnsweredBySession
  <2>1. UNCHANGED <<irSnapshot, calls>> /\ steered' = token
    BY <1>12 DEF Rename!SetTarget
  <2>2. CASE Rename!Ended
    BY <1>1, <2>1, <2>2, EndedKeeps
  <2>3. CASE ~Rename!Ended
    <3>1. /\ target' = id /\ UNCHANGED token
          /\ id = None \/ irSnapshot[id] # "gone" \/ observed # id
          /\ observed' = IF id = None \/ irSnapshot[id] # "gone" THEN id ELSE observed
      BY <1>12, <2>3 DEF Rename!SetTarget
    <3>2. CallsOfSessions'
      BY <2>1, <3>1 DEF RenameInv, CallsOfSessions
    <3>3. Rename!TargetIsShown'
      BY <2>1, <3>1 DEF Rename!TargetIsShown
    <3> QED
      BY <1>1, <2>1, <3>2, <3>3 DEF RenameInv
  <2> QED
    BY <2>2, <2>3
<1> QED
  BY <1>2, <1>3, <1>4, <1>5, <1>6, <1>7, <1>8, <1>9, <1>10, <1>11, <1>12 DEF Rename!Next

-----------------------------------------------------------------------------
(* Drag and drop. *)

IsGesture(g) == g = [kind |-> g.kind, items |-> g.items, allowed |-> g.allowed]
IsBatch(b) ==
    b = [step |-> b.step, items |-> b.items, target |-> b.target, op |-> b.op, own |-> b.own,
         index |-> b.index, applied |-> b.applied, policy |-> b.policy, failures |-> b.failures]

\* The policy a batch is about to use, and the one it keeps for its other
\* items, were answered in a prompt of that batch, or are the option's.
Consented(d, b, answers) ==
    /\ b.applied # None => \E a \in answers : a.drop = d /\ a.policy = b.applied /\ a.all
    /\ b.step = "run" =>
          \/ b.policy = collision
          \/ \E a \in answers : a.drop = d /\ a.policy = b.policy /\ (a.item = b.items[b.index] \/ a.all)

BatchesConsented ==
    /\ drop = [d \in Drops |-> drop[d]]
    /\ \A d \in Drops : IsBatch(drop[d]) /\ Consented(d, drop[d], said)

DragInv == IsGesture(gesture) /\ Drag!DragStateIsLive /\ BatchesConsented /\ Drag!ReplacedByConsent

\* A new gesture, or one of which a field changed, has the fields of one.
LEMMA GestureFacts ==
    /\ IsGesture(Drag!NoGesture) /\ Drag!NoGesture.kind = "none"
    /\ \A k, i, a : LET g == [kind |-> k, items |-> i, allowed |-> a] IN IsGesture(g) /\ g.kind = k
    /\ \A g, a : IsGesture(g) => LET h == [g EXCEPT !.allowed = a] IN IsGesture(h) /\ h.kind = g.kind
    /\ \A g, k : IsGesture(g) => LET h == [g EXCEPT !.kind = k] IN IsGesture(h) /\ h.kind = k
<1>1. IsGesture(Drag!NoGesture) /\ Drag!NoGesture.kind = "none"
  BY DEF IsGesture, Drag!NoGesture
<1>2. ASSUME NEW k, NEW i, NEW a
      PROVE  LET g == [kind |-> k, items |-> i, allowed |-> a] IN IsGesture(g) /\ g.kind = k
  BY DEF IsGesture
<1>3. ASSUME NEW g, NEW a, IsGesture(g)
      PROVE  LET h == [g EXCEPT !.allowed = a] IN IsGesture(h) /\ h.kind = g.kind
  <2>1. PICK k, i, b : g = [kind |-> k, items |-> i, allowed |-> b]
    BY <1>3 DEF IsGesture
  <2>2. [g EXCEPT !.allowed = a] = [kind |-> k, items |-> i, allowed |-> a]
    BY <2>1
  <2> QED
    BY <2>1, <2>2, <1>2
<1>4. ASSUME NEW g, NEW k, IsGesture(g)
      PROVE  LET h == [g EXCEPT !.kind = k] IN IsGesture(h) /\ h.kind = k
  <2>1. PICK j, i, b : g = [kind |-> j, items |-> i, allowed |-> b]
    BY <1>4 DEF IsGesture
  <2>2. [g EXCEPT !.kind = k] = [kind |-> k, items |-> i, allowed |-> b]
    BY <2>1
  <2> QED
    BY <2>2, <1>2
<1> QED
  BY <1>1, <1>2, <1>3, <1>4

\* Nothing is dragged and nothing was replaced at first.
LEMMA DragInitInv == ASSUME Drag!Init PROVE DragInv
<1>1. IsGesture(gesture) /\ Drag!DragStateIsLive
  BY GestureFacts DEF Drag!Init, Drag!DragStateIsLive
<1>2. IsBatch(Drag!NoDrop) /\ \A d \in Drops : Consented(d, Drag!NoDrop, said)
  BY DEF IsBatch, Consented, Drag!NoDrop
<1>3. BatchesConsented
  BY <1>2 DEF Drag!Init, BatchesConsented
<1>4. Drag!ReplacedByConsent
  BY DEF Drag!Init, Drag!ReplacedByConsent
<1> QED
  BY <1>1, <1>3, <1>4 DEF DragInv

\* An answer that was given stays given.
LEMMA ConsentGrows ==
    ASSUME NEW d, NEW b, NEW S, NEW T, S \subseteq T, Consented(d, b, S)
    PROVE  Consented(d, b, T)
BY DEF Consented

\* One batch moves on, with the consent its new state needs.
LEMMA BatchMoves ==
    ASSUME BatchesConsented, NEW d \in Drops, NEW b, IsBatch(b), Consented(d, b, said'),
           said \subseteq said', drop' = [drop EXCEPT ![d] = b]
    PROVE  BatchesConsented'
<1>1. drop' = [e \in Drops |-> IF e = d THEN b ELSE drop[e]]
  BY DEF BatchesConsented
<1>2. ASSUME NEW e \in Drops PROVE IsBatch(drop'[e]) /\ Consented(e, drop'[e], said')
  <2>1. CASE e = d
    BY <1>1, <2>1
  <2>2. CASE e # d
    <3>1. drop'[e] = drop[e]
      BY <1>1, <2>2
    <3>2. IsBatch(drop[e]) /\ Consented(e, drop[e], said)
      BY DEF BatchesConsented
    <3> QED
      BY <3>1, <3>2, ConsentGrows
  <2> QED
    BY <2>1, <2>2
<1>3. drop' = [e \in Drops |-> drop'[e]]
  BY <1>1
<1> QED
  BY <1>2, <1>3 DEF BatchesConsented

\* A batch that is about to run nothing needs no more consent than before.
LEMMA BatchRests ==
    ASSUME NEW d, NEW b, NEW c, NEW S, Consented(d, b, S), c.applied = b.applied, c.step # "run"
    PROVE  Consented(d, c, S)
BY DEF Consented

\* What leaves what was replaced alone, and takes no answer back, keeps its consent.
LEMMA ConsentStays ==
    ASSUME Drag!ReplacedByConsent, UNCHANGED lost, said \subseteq said'
    PROVE  Drag!ReplacedByConsent'
BY DEF Drag!ReplacedByConsent

\* What leaves the batches and what was replaced alone.
LEMMA BatchesLeftAlone ==
    ASSUME DragInv, UNCHANGED <<drop, said, lost>>
    PROVE  BatchesConsented' /\ Drag!ReplacedByConsent'
BY DEF DragInv, BatchesConsented, Drag!ReplacedByConsent

\* What leaves the drag and the marks of the rows alone.
LEMMA GestureLeftAlone ==
    ASSUME DragInv, UNCHANGED <<gesture, tracked>>, draggingIds' \in {draggingIds, {}}
    PROVE  IsGesture(gesture') /\ Drag!DragStateIsLive'
BY DEF DragInv, Drag!DragStateIsLive, Drag!Moving

\* The steps of a drag, up to the drop: rows are marked by a drag of our own
\* and a timer runs under one that moves.
LEMMA GestureSteps ==
    ASSUME DragInv,
           \/ Drag!Render \/ Drag!ForeignDrag \/ Drag!onDragLeave \/ Drag!Dwelled \/ Drag!onDragEnd \/ Drag!Elsewhere
           \/ \E row \in DragIds : Drag!onDragStart(row)
           \/ \E place \in Places : Drag!onDragEnter(place[1], place[2]) \/ Drag!onDragOver(place[1], place[2])
    PROVE  DragInv'
<1>1. IsGesture(gesture) /\ Drag!DragStateIsLive
  BY DEF DragInv
<1>2. CASE Drag!Render \/ Drag!Elsewhere
  <2>1. UNCHANGED <<gesture, tracked, draggingIds, drop, said, lost>>
    BY <1>2 DEF Drag!Render, Drag!Elsewhere, Drag!shown, Drag!engine
  <2> QED
    BY <2>1, GestureLeftAlone, BatchesLeftAlone DEF DragInv
<1>3. CASE Drag!ForeignDrag
  <2>1. PICK items : gesture' = [kind |-> "foreign", items |-> items, allowed |-> FALSE]
    BY <1>3 DEF Drag!ForeignDrag
  <2>2. gesture.kind = "none" /\ UNCHANGED <<tracked, draggingIds, drop, said, lost>>
    BY <1>3 DEF Drag!ForeignDrag, Drag!Idle, Drag!shown, Drag!engine
  <2>3. IsGesture(gesture') /\ gesture'.kind = "foreign"
    BY <2>1, GestureFacts
  <2>4. Drag!DragStateIsLive'
    BY <1>1, <2>2, <2>3 DEF Drag!DragStateIsLive, Drag!Moving
  <2> QED
    BY <2>2, <2>3, <2>4, BatchesLeftAlone DEF DragInv
<1>4. CASE Drag!onDragLeave
  <2>1. /\ tracked' = None /\ UNCHANGED <<draggingIds, drop, said, lost>>
        /\ gesture.kind \in {"own", "foreign"}
        /\ \/ gesture' = [gesture EXCEPT !.allowed = FALSE]
           \/ gesture.kind = "foreign" /\ gesture' = Drag!NoGesture
    BY <1>4 DEF Drag!onDragLeave, Drag!shown, Drag!engine, Drag!Moving
  <2>2. CASE gesture' = [gesture EXCEPT !.allowed = FALSE]
    <3>1. IsGesture(gesture') /\ gesture'.kind = gesture.kind
      BY <1>1, <2>2, GestureFacts
    <3>2. Drag!DragStateIsLive'
      BY <1>1, <2>1, <3>1 DEF Drag!DragStateIsLive, Drag!Moving
    <3> QED
      BY <2>1, <3>1, <3>2, BatchesLeftAlone DEF DragInv
  <2>3. CASE gesture.kind = "foreign" /\ gesture' = Drag!NoGesture
    <3>1. IsGesture(gesture')
      BY <2>3, GestureFacts
    <3>2. Drag!DragStateIsLive'
      BY <1>1, <2>1, <2>3 DEF Drag!DragStateIsLive, Drag!Moving
    <3> QED
      BY <2>1, <3>1, <3>2, BatchesLeftAlone DEF DragInv
  <2> QED
    BY <2>1, <2>2, <2>3
<1>5. CASE Drag!Dwelled \/ Drag!onDragEnd
  <2>1. /\ tracked' = None /\ UNCHANGED <<drop, said, lost>>
        /\ \/ UNCHANGED <<gesture, draggingIds>>
           \/ gesture' = Drag!NoGesture /\ draggingIds' = {}
    BY <1>5 DEF Drag!Dwelled, Drag!onDragEnd, Drag!shown, Drag!engine
  <2>2. IsGesture(gesture')
    BY <1>1, <2>1, GestureFacts
  <2>3. Drag!DragStateIsLive'
    BY <1>1, <2>1 DEF Drag!DragStateIsLive
  <2> QED
    BY <2>1, <2>2, <2>3, BatchesLeftAlone DEF DragInv
<1>6. ASSUME NEW row \in DragIds, Drag!onDragStart(row) PROVE DragInv'
  <2>1. PICK items : gesture' = [kind |-> "own", items |-> items, allowed |-> FALSE]
    BY <1>6 DEF Drag!onDragStart
  <2>2. gesture.kind = "none" /\ UNCHANGED <<tracked, drop, said, lost>>
    BY <1>6 DEF Drag!onDragStart, Drag!Idle, Drag!engine
  <2>3. IsGesture(gesture') /\ gesture'.kind = "own"
    BY <2>1, GestureFacts
  <2>4. Drag!DragStateIsLive'
    BY <1>1, <2>2, <2>3 DEF Drag!DragStateIsLive, Drag!Moving
  <2> QED
    BY <2>2, <2>3, <2>4, BatchesLeftAlone DEF DragInv
<1>7. ASSUME NEW place \in Places, Drag!onDragEnter(place[1], place[2]) \/ Drag!onDragOver(place[1], place[2])
      PROVE  DragInv'
  <2>1. /\ gesture.kind \in {"own", "foreign"} /\ UNCHANGED <<draggingIds, drop, said, lost>>
        /\ gesture' = gesture \/ \E ok : gesture' = [gesture EXCEPT !.allowed = ok]
    BY <1>7 DEF Drag!onDragEnter, Drag!onDragOver, Drag!engine, Drag!Moving
  <2>2. IsGesture(gesture') /\ gesture'.kind = gesture.kind
    <3>1. CASE gesture' = gesture
      BY <1>1, <3>1
    <3>2. ASSUME NEW ok, gesture' = [gesture EXCEPT !.allowed = ok] PROVE IsGesture(gesture') /\ gesture'.kind = gesture.kind
      BY <1>1, <3>2, GestureFacts
    <3> QED
      BY <2>1, <3>1, <3>2
  <2>3. Drag!DragStateIsLive'
    BY <1>1, <2>1, <2>2 DEF Drag!DragStateIsLive, Drag!Moving
  <2> QED
    BY <2>1, <2>2, <2>3, BatchesLeftAlone DEF DragInv
<1> QED
  BY <1>2, <1>3, <1>4, <1>5, <1>6, <1>7

\* A batch, by the fields the proofs look at.
Has(b, step, items, index, applied, policy) ==
    /\ IsBatch(b) /\ b.step = step /\ b.items = items /\ b.index = index
    /\ b.applied = applied /\ b.policy = policy

\* A record with the fields of a batch is one.
LEMMA BatchRecord ==
    ASSUME NEW c1, NEW c2, NEW c3, NEW c4, NEW c5, NEW c6, NEW c7, NEW c8, NEW c9, NEW b,
           b = [step |-> c1, items |-> c2, target |-> c3, op |-> c4, own |-> c5, index |-> c6, applied |-> c7,
                policy |-> c8, failures |-> c9]
    PROVE  Has(b, c1, c2, c6, c7, c8)
BY DEF IsBatch, Has

\* The fields of a batch.
LEMMA FieldsOfBatch ==
    ASSUME NEW b, IsBatch(b)
    PROVE  \E c1, c2, c3, c4, c5, c6, c7, c8, c9 :
              /\ b = [step |-> c1, items |-> c2, target |-> c3, op |-> c4, own |-> c5, index |-> c6,
                      applied |-> c7, policy |-> c8, failures |-> c9]
              /\ b.step = c1 /\ b.items = c2 /\ b.index = c6 /\ b.applied = c7 /\ b.policy = c8
BY DEF IsBatch

\* A batch takes a step.
LEMMA StepOfBatch ==
    ASSUME NEW b, IsBatch(b), NEW s
    PROVE  \A h : h = [b EXCEPT !.step = s] => Has(h, s, b.items, b.index, b.applied, b.policy)
<1>1. PICK c1, c2, c3, c4, c5, c6, c7, c8, c9 :
         /\ b = [step |-> c1, items |-> c2, target |-> c3, op |-> c4, own |-> c5, index |-> c6,
                 applied |-> c7, policy |-> c8, failures |-> c9]
         /\ b.step = c1 /\ b.items = c2 /\ b.index = c6 /\ b.applied = c7 /\ b.policy = c8
  BY FieldsOfBatch
<1>2. [b EXCEPT !.step = s]
        = [step |-> s, items |-> c2, target |-> c3, op |-> c4, own |-> c5,
           index |-> c6, applied |-> c7, policy |-> c8, failures |-> c9]
  BY <1>1
<1>3. \A h : h = [step |-> s, items |-> c2, target |-> c3, op |-> c4, own |-> c5,
           index |-> c6, applied |-> c7, policy |-> c8, failures |-> c9]
        => Has(h, s, c2, c6, c7, c8)
  BY BatchRecord
<1> QED
  BY <1>1, <1>2, <1>3

\* A batch begins.
LEMMA BegunBatch ==
    ASSUME NEW b, IsBatch(b), NEW s, NEW items, NEW t, NEW op, NEW own
    PROVE  \A h : h = [b EXCEPT !.step = s, !.items = items, !.target = t, !.op = op, !.own = own] => Has(h, s, items, b.index, b.applied, b.policy)
<1>1. PICK c1, c2, c3, c4, c5, c6, c7, c8, c9 :
         /\ b = [step |-> c1, items |-> c2, target |-> c3, op |-> c4, own |-> c5, index |-> c6,
                 applied |-> c7, policy |-> c8, failures |-> c9]
         /\ b.step = c1 /\ b.items = c2 /\ b.index = c6 /\ b.applied = c7 /\ b.policy = c8
  BY FieldsOfBatch
<1>2. PICK h1 : h1 = [b EXCEPT !.step = s]
  OBVIOUS
<1>3. h1 = [step |-> s, items |-> c2, target |-> c3, op |-> c4, own |-> c5,
            index |-> c6, applied |-> c7, policy |-> c8, failures |-> c9]
  BY <1>1, <1>2
<1>4. PICK h2 : h2 = [h1 EXCEPT !.items = items]
  OBVIOUS
<1>5. h2 = [step |-> s, items |-> items, target |-> c3, op |-> c4, own |-> c5,
            index |-> c6, applied |-> c7, policy |-> c8, failures |-> c9]
  BY <1>3, <1>4
<1>6. PICK h3 : h3 = [h2 EXCEPT !.target = t]
  OBVIOUS
<1>7. h3 = [step |-> s, items |-> items, target |-> t, op |-> c4, own |-> c5,
            index |-> c6, applied |-> c7, policy |-> c8, failures |-> c9]
  BY <1>5, <1>6
<1>8. PICK h4 : h4 = [h3 EXCEPT !.op = op]
  OBVIOUS
<1>9. h4 = [step |-> s, items |-> items, target |-> t, op |-> op, own |-> c5,
            index |-> c6, applied |-> c7, policy |-> c8, failures |-> c9]
  BY <1>7, <1>8
<1>10. [b EXCEPT !.step = s, !.items = items, !.target = t, !.op = op, !.own = own] = [h4 EXCEPT !.own = own]
  BY <1>2, <1>4, <1>6, <1>8
<1>11. [b EXCEPT !.step = s, !.items = items, !.target = t, !.op = op, !.own = own]
        = [step |-> s, items |-> items, target |-> t, op |-> op, own |-> own,
           index |-> c6, applied |-> c7, policy |-> c8, failures |-> c9]
  BY <1>9, <1>10
<1>12. \A h : h = [step |-> s, items |-> items, target |-> t, op |-> op, own |-> own,
           index |-> c6, applied |-> c7, policy |-> c8, failures |-> c9]
        => Has(h, s, items, c6, c7, c8)
  BY BatchRecord
<1> QED
  BY <1>1, <1>11, <1>12

\* A batch passes over an item.
LEMMA IndexOfBatch ==
    ASSUME NEW b, IsBatch(b), NEW k
    PROVE  \A h : h = [b EXCEPT !.index = k] => Has(h, b.step, b.items, k, b.applied, b.policy)
<1>1. PICK c1, c2, c3, c4, c5, c6, c7, c8, c9 :
         /\ b = [step |-> c1, items |-> c2, target |-> c3, op |-> c4, own |-> c5, index |-> c6,
                 applied |-> c7, policy |-> c8, failures |-> c9]
         /\ b.step = c1 /\ b.items = c2 /\ b.index = c6 /\ b.applied = c7 /\ b.policy = c8
  BY FieldsOfBatch
<1>2. [b EXCEPT !.index = k]
        = [step |-> c1, items |-> c2, target |-> c3, op |-> c4, own |-> c5,
           index |-> k, applied |-> c7, policy |-> c8, failures |-> c9]
  BY <1>1
<1>3. \A h : h = [step |-> c1, items |-> c2, target |-> c3, op |-> c4, own |-> c5,
           index |-> k, applied |-> c7, policy |-> c8, failures |-> c9]
        => Has(h, c1, c2, k, c7, c8)
  BY BatchRecord
<1> QED
  BY <1>1, <1>2, <1>3

\* A batch takes a policy for its item.
LEMMA PolicyOfBatch ==
    ASSUME NEW b, IsBatch(b), NEW s, NEW p
    PROVE  \A h : h = [b EXCEPT !.step = s, !.policy = p] => Has(h, s, b.items, b.index, b.applied, p)
<1>1. PICK c1, c2, c3, c4, c5, c6, c7, c8, c9 :
         /\ b = [step |-> c1, items |-> c2, target |-> c3, op |-> c4, own |-> c5, index |-> c6,
                 applied |-> c7, policy |-> c8, failures |-> c9]
         /\ b.step = c1 /\ b.items = c2 /\ b.index = c6 /\ b.applied = c7 /\ b.policy = c8
  BY FieldsOfBatch
<1>2. PICK h1 : h1 = [b EXCEPT !.step = s]
  OBVIOUS
<1>3. h1 = [step |-> s, items |-> c2, target |-> c3, op |-> c4, own |-> c5,
            index |-> c6, applied |-> c7, policy |-> c8, failures |-> c9]
  BY <1>1, <1>2
<1>4. [b EXCEPT !.step = s, !.policy = p] = [h1 EXCEPT !.policy = p]
  BY <1>2
<1>5. [b EXCEPT !.step = s, !.policy = p]
        = [step |-> s, items |-> c2, target |-> c3, op |-> c4, own |-> c5,
           index |-> c6, applied |-> c7, policy |-> p, failures |-> c9]
  BY <1>3, <1>4
<1>6. \A h : h = [step |-> s, items |-> c2, target |-> c3, op |-> c4, own |-> c5,
           index |-> c6, applied |-> c7, policy |-> p, failures |-> c9]
        => Has(h, s, c2, c6, c7, p)
  BY BatchRecord
<1> QED
  BY <1>1, <1>5, <1>6

\* A batch takes a policy, maybe for all its items.
LEMMA AnsweredBatch ==
    ASSUME NEW b, IsBatch(b), NEW s, NEW p, NEW q
    PROVE  \A h : h = [b EXCEPT !.step = s, !.policy = p, !.applied = q] => Has(h, s, b.items, b.index, q, p)
<1>1. PICK c1, c2, c3, c4, c5, c6, c7, c8, c9 :
         /\ b = [step |-> c1, items |-> c2, target |-> c3, op |-> c4, own |-> c5, index |-> c6,
                 applied |-> c7, policy |-> c8, failures |-> c9]
         /\ b.step = c1 /\ b.items = c2 /\ b.index = c6 /\ b.applied = c7 /\ b.policy = c8
  BY FieldsOfBatch
<1>2. PICK h1 : h1 = [b EXCEPT !.step = s]
  OBVIOUS
<1>3. h1 = [step |-> s, items |-> c2, target |-> c3, op |-> c4, own |-> c5,
            index |-> c6, applied |-> c7, policy |-> c8, failures |-> c9]
  BY <1>1, <1>2
<1>4. PICK h2 : h2 = [h1 EXCEPT !.policy = p]
  OBVIOUS
<1>5. h2 = [step |-> s, items |-> c2, target |-> c3, op |-> c4, own |-> c5,
            index |-> c6, applied |-> c7, policy |-> p, failures |-> c9]
  BY <1>3, <1>4
<1>6. [b EXCEPT !.step = s, !.policy = p, !.applied = q] = [h2 EXCEPT !.applied = q]
  BY <1>2, <1>4
<1>7. [b EXCEPT !.step = s, !.policy = p, !.applied = q]
        = [step |-> s, items |-> c2, target |-> c3, op |-> c4, own |-> c5,
           index |-> c6, applied |-> q, policy |-> p, failures |-> c9]
  BY <1>5, <1>6
<1>8. \A h : h = [step |-> s, items |-> c2, target |-> c3, op |-> c4, own |-> c5,
           index |-> c6, applied |-> q, policy |-> p, failures |-> c9]
        => Has(h, s, c2, c6, q, p)
  BY BatchRecord
<1> QED
  BY <1>1, <1>7, <1>8

\* A batch goes on after an engine call.
LEMMA RanBatch ==
    ASSUME NEW b, IsBatch(b), NEW s, NEW k, NEW n
    PROVE  \A h : h = [b EXCEPT !.step = s, !.index = k, !.failures = n] => Has(h, s, b.items, k, b.applied, b.policy)
<1>1. PICK c1, c2, c3, c4, c5, c6, c7, c8, c9 :
         /\ b = [step |-> c1, items |-> c2, target |-> c3, op |-> c4, own |-> c5, index |-> c6,
                 applied |-> c7, policy |-> c8, failures |-> c9]
         /\ b.step = c1 /\ b.items = c2 /\ b.index = c6 /\ b.applied = c7 /\ b.policy = c8
  BY FieldsOfBatch
<1>2. PICK h1 : h1 = [b EXCEPT !.step = s]
  OBVIOUS
<1>3. h1 = [step |-> s, items |-> c2, target |-> c3, op |-> c4, own |-> c5,
            index |-> c6, applied |-> c7, policy |-> c8, failures |-> c9]
  BY <1>1, <1>2
<1>4. PICK h2 : h2 = [h1 EXCEPT !.index = k]
  OBVIOUS
<1>5. h2 = [step |-> s, items |-> c2, target |-> c3, op |-> c4, own |-> c5,
            index |-> k, applied |-> c7, policy |-> c8, failures |-> c9]
  BY <1>3, <1>4
<1>6. [b EXCEPT !.step = s, !.index = k, !.failures = n] = [h2 EXCEPT !.failures = n]
  BY <1>2, <1>4
<1>7. [b EXCEPT !.step = s, !.index = k, !.failures = n]
        = [step |-> s, items |-> c2, target |-> c3, op |-> c4, own |-> c5,
           index |-> k, applied |-> c7, policy |-> c8, failures |-> n]
  BY <1>5, <1>6
<1>8. \A h : h = [step |-> s, items |-> c2, target |-> c3, op |-> c4, own |-> c5,
           index |-> k, applied |-> c7, policy |-> c8, failures |-> n]
        => Has(h, s, c2, k, c7, c8)
  BY BatchRecord
<1> QED
  BY <1>1, <1>7, <1>8

\* A drop starts a batch that has no answer yet; the drag moves no more.
LEMMA DropKeeps ==
    ASSUME DragInv, NEW d \in Drops, NEW alt \in BOOLEAN, Drag!onDrop(d, alt)
    PROVE  DragInv'
<1>1. IsGesture(gesture) /\ Drag!DragStateIsLive /\ BatchesConsented /\ Drag!ReplacedByConsent
  BY DEF DragInv
<1>2. /\ tracked' = None /\ UNCHANGED <<draggingIds, said, lost>>
      /\ gesture' = IF gesture.kind = "own" THEN [gesture EXCEPT !.kind = "dropped"] ELSE Drag!NoGesture
  BY DEF Drag!onDrop, Drag!engine
<1>3. IsGesture(gesture') /\ (gesture.kind = "own" => gesture'.kind = "dropped")
  BY <1>1, <1>2, GestureFacts
<1>4. gesture.kind \in {"own", "foreign"}
  BY DEF Drag!onDrop, Drag!Moving
<1>5. Drag!DragStateIsLive'
  BY <1>1, <1>2, <1>3, <1>4 DEF Drag!DragStateIsLive
<1>6. IsBatch(Drag!NoDrop) /\ Drag!NoDrop.applied = None
  BY BatchRecord DEF Has, Drag!NoDrop
<1>7. PICK b : IsBatch(b) /\ b.applied = None /\ b.step # "run" /\ drop' = [drop EXCEPT ![d] = b]
  <2>1. CASE drop' = [drop EXCEPT ![d] = [Drag!NoDrop EXCEPT !.step = "ignored"]]
    <3>1. PICK b : b = [Drag!NoDrop EXCEPT !.step = "ignored"]
      OBVIOUS
    <3>2. IsBatch(b) /\ b.applied = None /\ b.step = "ignored"
      BY <1>6, <3>1, StepOfBatch DEF Has
    <3> QED
      BY <2>1, <3>1, <3>2
  <2>2. CASE drop' # [drop EXCEPT ![d] = [Drag!NoDrop EXCEPT !.step = "ignored"]]
    <3>0. PICK s \in {"confirm", "item"}, op \in {"copy", "move", "import"} : \E t, own :
             drop' = [drop EXCEPT ![d] = [Drag!NoDrop EXCEPT !.step = s, !.items = gesture.items,
                         !.target = t, !.op = op, !.own = own]]
      BY <2>2 DEF Drag!onDrop
    <3>1. PICK t, own :
             drop' = [drop EXCEPT ![d] = [Drag!NoDrop EXCEPT !.step = s, !.items = gesture.items,
                         !.target = t, !.op = op, !.own = own]]
      BY <3>0
    <3>2. PICK b : b = [Drag!NoDrop EXCEPT !.step = s, !.items = gesture.items, !.target = t, !.op = op, !.own = own]
      OBVIOUS
    <3>3. IsBatch(b) /\ b.applied = None /\ b.step = s
      <4>1. Has(b, s, gesture.items, Drag!NoDrop.index, Drag!NoDrop.applied, Drag!NoDrop.policy)
        BY <1>6, <3>2, BegunBatch
      <4> QED
        BY <1>6, <4>1 DEF Has
    <3> QED
      BY <3>1, <3>2, <3>3
  <2> QED
    BY <2>1, <2>2
<1>8. Consented(d, b, said')
  BY <1>7 DEF Consented
<1>9. said \subseteq said'
  BY <1>2
<1>10. BatchesConsented'
  BY <1>1, <1>7, <1>8, <1>9, BatchMoves
<1>11. Drag!ReplacedByConsent'
  BY <1>1, <1>2, <1>9, ConsentStays
<1> QED
  BY <1>3, <1>5, <1>10, <1>11 DEF DragInv

\* A batch about to run nothing that keeps what it was answered.
LEMMA BatchWaits ==
    ASSUME DragInv, NEW d \in Drops, NEW b, IsBatch(b), b.applied = drop[d].applied, b.step # "run",
           drop' = [drop EXCEPT ![d] = b], UNCHANGED said
    PROVE  BatchesConsented'
<1>1. BatchesConsented /\ Consented(d, drop[d], said)
  BY DEF DragInv, BatchesConsented
<1>2. Consented(d, b, said') /\ said \subseteq said'
  BY <1>1, BatchRests
<1> QED
  BY <1>1, <1>2, BatchMoves

\* The confirmation, the probe and the next item.
LEMMA BatchSteps ==
    ASSUME DragInv, NEW d \in Drops, Drag!Confirm(d) \/ Drag!NextItem(d) \/ Drag!Probe(d)
    PROVE  DragInv'
<1>1. UNCHANGED <<gesture, tracked, draggingIds, said, lost>>
  BY DEF Drag!Confirm, Drag!NextItem, Drag!Probe, Drag!shown, Drag!engine
<1>2. IsGesture(gesture') /\ Drag!DragStateIsLive'
  BY <1>1, GestureLeftAlone
<1>3. Drag!ReplacedByConsent'
  BY <1>1, ConsentStays DEF DragInv
<1>4. BatchesConsented /\ IsBatch(drop[d]) /\ Consented(d, drop[d], said)
  BY DEF DragInv, BatchesConsented
<1>5. CASE Drag!Confirm(d)
  <2>1. PICK s \in {"item", "ignored"} : drop' = [drop EXCEPT ![d] = [drop[d] EXCEPT !.step = s]]
    BY <1>5 DEF Drag!Confirm, Drag!Update
  <2>2. PICK h : h = [drop[d] EXCEPT !.step = s]
    OBVIOUS
  <2>3. IsBatch(h) /\ h.applied = drop[d].applied /\ h.step = s
    BY <1>4, <2>2, StepOfBatch DEF Has
  <2> QED
    BY <1>1, <1>2, <1>3, <2>1, <2>2, <2>3, BatchWaits DEF DragInv
<1>6. CASE Drag!NextItem(d)
  <2>1. \/ drop' = [drop EXCEPT ![d] = [drop[d] EXCEPT !.index = @ + 1]]
        \/ drop' = [drop EXCEPT ![d] = [drop[d] EXCEPT
                        !.step = IF drop[d].applied # None THEN "run" ELSE "probe", !.policy = drop[d].applied]]
    BY <1>6 DEF Drag!NextItem, Drag!Update
  <2>2. drop[d].step = "item"
    BY <1>6 DEF Drag!NextItem
  <2>3. CASE drop' = [drop EXCEPT ![d] = [drop[d] EXCEPT !.index = @ + 1]]
    <3>1. PICK h : h = [drop[d] EXCEPT !.index = drop[d].index + 1]
      OBVIOUS
    <3>2. IsBatch(h) /\ h.applied = drop[d].applied /\ h.step = "item"
      BY <1>4, <2>2, <3>1, IndexOfBatch DEF Has
    <3>3. drop' = [drop EXCEPT ![d] = h]
      BY <2>3, <3>1
    <3> QED
      BY <1>1, <1>2, <1>3, <3>2, <3>3, BatchWaits DEF DragInv
  <2>4. CASE drop' = [drop EXCEPT ![d] = [drop[d] EXCEPT
                        !.step = IF drop[d].applied # None THEN "run" ELSE "probe", !.policy = drop[d].applied]]
    <3>1. PICK s : s = IF drop[d].applied # None THEN "run" ELSE "probe"
      OBVIOUS
    <3>2. PICK h : h = [drop[d] EXCEPT !.step = s, !.policy = drop[d].applied]
      OBVIOUS
    <3>3. IsBatch(h) /\ h.applied = drop[d].applied /\ h.policy = drop[d].applied /\ h.step = s
      <4>1. Has(h, s, drop[d].items, drop[d].index, drop[d].applied, drop[d].applied)
        BY <1>4, <3>2, PolicyOfBatch
      <4> QED
        BY <4>1 DEF Has
    <3>4. drop' = [drop EXCEPT ![d] = h] /\ said \subseteq said'
      BY <1>1, <2>4, <3>1, <3>2
    <3>5. Consented(d, h, said')
      BY <1>1, <1>4, <3>1, <3>3 DEF Consented
    <3>6. BatchesConsented'
      BY <1>4, <3>3, <3>4, <3>5, BatchMoves
    <3> QED
      BY <1>2, <1>3, <3>6 DEF DragInv
  <2> QED
    BY <2>1, <2>3, <2>4
<1>7. CASE Drag!Probe(d)
  <2>1. \/ drop' = [drop EXCEPT ![d] = [drop[d] EXCEPT !.step = "ask"]]
        \/ drop' = [drop EXCEPT ![d] = [drop[d] EXCEPT !.step = "run", !.policy = collision]]
    BY <1>7 DEF Drag!Probe, Drag!Update
  <2>2. CASE drop' = [drop EXCEPT ![d] = [drop[d] EXCEPT !.step = "ask"]]
    <3>1. PICK h : h = [drop[d] EXCEPT !.step = "ask"]
      OBVIOUS
    <3>2. IsBatch(h) /\ h.applied = drop[d].applied /\ h.step = "ask"
      BY <1>4, <3>1, StepOfBatch DEF Has
    <3> QED
      BY <1>1, <1>2, <1>3, <2>2, <3>1, <3>2, BatchWaits DEF DragInv
  <2>3. CASE drop' = [drop EXCEPT ![d] = [drop[d] EXCEPT !.step = "run", !.policy = collision]]
    <3>1. PICK h : h = [drop[d] EXCEPT !.step = "run", !.policy = collision]
      OBVIOUS
    <3>2. IsBatch(h) /\ h.applied = drop[d].applied /\ h.policy = collision
      <4>1. Has(h, "run", drop[d].items, drop[d].index, drop[d].applied, collision)
        BY <1>4, <3>1, PolicyOfBatch
      <4> QED
        BY <4>1 DEF Has
    <3>3. Consented(d, h, said') /\ said \subseteq said'
      BY <1>1, <1>4, <3>2 DEF Consented
    <3>4. BatchesConsented'
      BY <1>4, <2>3, <3>1, <3>2, <3>3, BatchMoves
    <3> QED
      BY <1>2, <1>3, <3>4 DEF DragInv
  <2> QED
    BY <2>1, <2>2, <2>3
<1> QED
  BY <1>5, <1>6, <1>7

\* The prompt of a batch is answered: the answer is that batch's.
LEMMA AskKeeps ==
    ASSUME DragInv, NEW d \in Drops, Drag!Ask(d)
    PROVE  DragInv'
<1>1. UNCHANGED <<gesture, tracked, draggingIds, lost>>
  BY DEF Drag!Ask, Drag!shown, Drag!engine
<1>2. PICK policy \in Answers, all \in BOOLEAN :
        /\ drop' = [drop EXCEPT ![d] = [drop[d] EXCEPT !.step = "run", !.policy = policy,
                                                       !.applied = IF all THEN policy ELSE @]]
        /\ said' = said \cup {[drop |-> d, item |-> Drag!Item(d), policy |-> policy, all |-> all]}
  BY DEF Drag!Ask, Drag!Update
<1>3. PICK q : q = IF all THEN policy ELSE drop[d].applied
  OBVIOUS
<1>4. PICK h : h = [drop[d] EXCEPT !.step = "run", !.policy = policy, !.applied = q]
  OBVIOUS
<1>5. BatchesConsented /\ IsBatch(drop[d]) /\ Consented(d, drop[d], said)
  BY DEF DragInv, BatchesConsented
<1>6. Has(h, "run", drop[d].items, drop[d].index, q, policy)
  BY <1>4, <1>5, AnsweredBatch
<1>7. PICK a : a = [drop |-> d, item |-> Drag!Item(d), policy |-> policy, all |-> all]
  OBVIOUS
<1>8. a \in said' /\ a.drop = d /\ a.item = drop[d].items[drop[d].index] /\ a.policy = policy /\ said \subseteq said'
  BY <1>2, <1>7 DEF Drag!Item
<1>9. all => a.all
  BY <1>7
<1>10. Consented(d, h, said')
  <2>1. h.applied # None => \E x \in said' : x.drop = d /\ x.policy = h.applied /\ x.all
    <3>1. CASE all
      BY <1>3, <1>6, <1>8, <1>9, <3>1 DEF Has
    <3>2. CASE ~all
      BY <1>3, <1>5, <1>6, <1>8, <3>2 DEF Has, Consented
    <3> QED
      BY <3>1, <3>2
  <2>2. \E x \in said' : x.drop = d /\ x.policy = h.policy /\ (x.item = h.items[h.index] \/ x.all)
    BY <1>6, <1>8 DEF Has
  <2> QED
    BY <2>1, <2>2 DEF Consented
<1>11. drop' = [drop EXCEPT ![d] = h]
  BY <1>2, <1>3, <1>4
<1>12. IsBatch(h)
  BY <1>6 DEF Has
<1>13. BatchesConsented'
  BY <1>5, <1>8, <1>10, <1>11, <1>12, BatchMoves
<1>14. Drag!ReplacedByConsent'
  BY <1>1, <1>8, ConsentStays DEF DragInv
<1> QED
  BY <1>1, <1>13, <1>14, GestureLeftAlone DEF DragInv

\* An engine call replaces entries only under a policy that was consented to.
LEMMA RunKeeps ==
    ASSUME DragInv, NEW d \in Drops, Drag!Run(d)
    PROVE  DragInv'
<1>1. UNCHANGED <<gesture, tracked, said>> /\ draggingIds' \in {draggingIds, {}}
  BY DEF Drag!Run, Drag!Cleared
<1>2. BatchesConsented /\ IsBatch(drop[d]) /\ Consented(d, drop[d], said) /\ drop[d].step = "run"
  BY DEF DragInv, BatchesConsented, Drag!Run
<1>0. PICK s \in {"failed", "item"} : \E n :
        drop' = [drop EXCEPT ![d] = [drop[d] EXCEPT !.step = s, !.index = @ + 1, !.failures = n]]
  BY DEF Drag!Run, Drag!Update
<1>3. PICK n :
        drop' = [drop EXCEPT ![d] = [drop[d] EXCEPT !.step = s, !.index = @ + 1, !.failures = n]]
  BY <1>0
<1>4. PICK h : h = [drop[d] EXCEPT !.step = s, !.index = drop[d].index + 1, !.failures = n]
  OBVIOUS
<1>5. IsBatch(h) /\ h.applied = drop[d].applied /\ h.step # "run"
  <2>1. Has(h, s, drop[d].items, drop[d].index + 1, drop[d].applied, drop[d].policy)
    BY <1>2, <1>4, RanBatch
  <2> QED
    BY <2>1 DEF Has
<1>6. drop' = [drop EXCEPT ![d] = h]
  BY <1>3, <1>4
<1>7. BatchesConsented'
  BY <1>1, <1>5, <1>6, BatchWaits
<1>8. Drag!ReplacedByConsent'
  <2>1. CASE UNCHANGED lost
    BY <1>1, <2>1, ConsentStays DEF DragInv
  <2>2. CASE ~UNCHANGED lost
    <3>1. PICK hit : /\ lost' = lost \cup {<<d, Drag!Item(d), i>> : i \in hit}
                     /\ hit # {} => drop[d].policy = "overwrite"
      BY <2>2 DEF Drag!Run, Drag!Apply, Drag!engine
    <3>2. ASSUME NEW x \in lost'
          PROVE  \/ collision = "overwrite"
                 \/ \E a \in said : a.drop = x[1] /\ a.policy = "overwrite" /\ (a.item = x[2] \/ a.all)
      <4>1. CASE x \in lost
        BY <4>1 DEF DragInv, Drag!ReplacedByConsent
      <4>2. CASE x \notin lost
        <5>1. PICK i \in hit : x = <<d, Drag!Item(d), i>>
          BY <3>1, <4>2
        <5>2. x[1] = d /\ x[2] = drop[d].items[drop[d].index] /\ drop[d].policy = "overwrite"
          BY <3>1, <5>1 DEF Drag!Item
        <5> QED
          BY <1>2, <5>2 DEF Consented
      <4> QED
        BY <4>1, <4>2
    <3> QED
      BY <1>1, <3>2 DEF Drag!ReplacedByConsent
  <2> QED
    BY <2>1, <2>2
<1> QED
  BY <1>1, <1>7, <1>8, GestureLeftAlone DEF DragInv

\* A batch ends.
LEMMA FinishKeeps ==
    ASSUME DragInv, NEW d \in Drops, Drag!Finish(d)
    PROVE  DragInv'
<1>1. UNCHANGED <<gesture, tracked, said, lost>> /\ draggingIds' \in {draggingIds, {}}
  BY DEF Drag!Finish, Drag!Cleared, Drag!engine
<1>2. IsBatch(drop[d])
  BY DEF DragInv, BatchesConsented
<1>3. PICK s \in {"done", "failed"} : drop' = [drop EXCEPT ![d] = [drop[d] EXCEPT !.step = s]]
  BY DEF Drag!Finish, Drag!Update
<1>4. PICK h : h = [drop[d] EXCEPT !.step = s]
  OBVIOUS
<1>5. IsBatch(h) /\ h.applied = drop[d].applied /\ h.step = s
  BY <1>2, <1>4, StepOfBatch DEF Has
<1>6. BatchesConsented'
  BY <1>1, <1>3, <1>4, <1>5, BatchWaits
<1>7. Drag!ReplacedByConsent'
  BY <1>1, ConsentStays DEF DragInv
<1> QED
  BY <1>1, <1>6, <1>7, GestureLeftAlone DEF DragInv

\* Every step of drag and drop keeps the invariant.
LEMMA DragNextInv == ASSUME DragInv, Drag!Next PROVE DragInv'
<1>1. ASSUME NEW d \in Drops,
             \/ \E alt \in BOOLEAN : Drag!onDrop(d, alt)
             \/ Drag!Confirm(d) \/ Drag!NextItem(d) \/ Drag!Probe(d) \/ Drag!Ask(d) \/ Drag!Run(d) \/ Drag!Finish(d)
      PROVE  DragInv'
  BY <1>1, DropKeeps, BatchSteps, AskKeeps, RunKeeps, FinishKeeps
<1>2. CASE \/ Drag!Render \/ Drag!ForeignDrag \/ Drag!onDragLeave \/ Drag!Dwelled \/ Drag!onDragEnd \/ Drag!Elsewhere
           \/ \E row \in DragIds : Drag!onDragStart(row)
           \/ \E place \in Places : Drag!onDragEnter(place[1], place[2]) \/ Drag!onDragOver(place[1], place[2])
  BY <1>2, GestureSteps
<1> QED
  BY <1>1, <1>2 DEF Drag!Next

\* Renames and drops that outlive the gesture that began them touch nothing
\* but their own: the result of fx.rename closes or marks the session that
\* asked, or one on the same id that the application put in its place by
\* setting the target, a session ends with its row, rows look dragged only
\* during a drag,
\* and an entry is replaced only by the consent given in that very drop.
THEOREM EditsStaySound == UiSpec => EditsAreSound
<1> DEFINE Inv == RenameInv /\ DragInv
<1>1. UiInit => Inv
  BY RenameInitInv, DragInitInv DEF UiInit
<1>2. ASSUME Inv, [UiNext]_uiVars PROVE Inv' /\ (AnsweredBySession \/ UNCHANGED renaming)
  <2>1. CASE part = "drag" /\ Drag!Next /\ UNCHANGED renaming
    <3>1. RenameInv'
      BY <2>1, <1>2, RenameLeftAlone DEF renaming
    <3> QED
      BY <1>2, <2>1, <3>1, DragNextInv
  <2>2. CASE part = "rename" /\ Rename!Next /\ UNCHANGED dragging
    <3>1. DragInv'
      BY <2>2, <1>2, BatchesLeftAlone, GestureLeftAlone DEF dragging, DragInv
    <3> QED
      BY <1>2, <2>2, <3>1, RenameNextInv
  <2>3. CASE UNCHANGED <<dragging, renaming>>
    <3>1. RenameInv'
      BY <2>3, <1>2, RenameLeftAlone DEF renaming
    <3>2. DragInv'
      BY <2>3, <1>2, BatchesLeftAlone, GestureLeftAlone DEF dragging, DragInv
    <3> QED
      BY <2>3, <3>1, <3>2
  <2> QED
    BY <1>2, <2>1, <2>2, <2>3 DEF UiNext, uiVars
<1>3. Inv => DragIsSound /\ Rename!TargetIsShown
  BY DEF DragIsSound, DragInv, RenameInv
<1>4. Inv /\ [UiNext]_uiVars =>
        [\A c \in RenameCalls :
           Rename!Stale(c) => \/ UNCHANGED <<target, error, irInput>>
                              \/ steered = calls[c].token /\ target = calls[c].id]_Rename!vars
  BY <1>2 DEF AnsweredBySession, Rename!Stale, Rename!vars, renaming
<1>5. Inv /\ [UiNext]_uiVars => Inv'
  BY <1>2
<1> QED
  BY <1>1, <1>3, <1>4, <1>5, PTL DEF UiSpec, EditsAreSound, Rename!ResultIsOfItsSession
=============================================================================
