-------------------------------- MODULE MCUi --------------------------------
(***************************************************************************)
(* One run for what a FileTree of mille-ui does between its awaits: drag   *)
(* and drop, renaming in place, navigation, search, and the decorations    *)
(* its windows share.  `part` is drawn once; that component runs under its *)
(* own specification and the others stay in an initial state, so the       *)
(* states are the sum of the components' states.                           *)
(***************************************************************************)
EXTENDS TreeNavigation

CONSTANTS
    \* DragDrop
    DragIds, DragDirs, DragParent, DragName, DragIgnored, DragPaths, Selections, Places, Drops, collision,
    Answers, DragElsewhere,
    \* InlineRename
    RowIds, RowNames, Provisional, RenameCalls, MaxSessions, MaxAttempts, RenameElsewhere,
    \* TreeSearch
    Texts, SearchOrder, SearchFound, Crossing, SearchLimit, SearchRows, SearchCalls, SearchActs, SearchChanges,
    \* Decorations
    BadgeIds, BadgeRoots, Windows, BadgeSlot, BadgeSetups, BadgeMarks, Early, BadgeJobs, MaxVersion, MaxRuns, MaxTree,
    MaxWindows

VARIABLES
    part,
    \* DragDrop
    ddTree, made, ddSnapshot, gesture, sourceIds, isInternal, draggingIds, dropTarget,
    dropPosition, tracked, opened, drop, lost, said, ddElsewhere,
    \* InlineRename
    irRows, irSnapshot, target, token, observed, error, irInput, calls, creating, session, steered,
    irElsewhere,
    fresh,          \* a tree whose folders are still to be listed
    \* TreeSearch
    filter, input, owned, mode, restricted, list, tsGeneration, timer, current, call, tsTree, known,
    focused, selected, ran, tsActs, tsChanges,
    \* Decorations
    setup, status, news, batch, job, generation, map, disposed, overlapped, behind, deTree,
    knownIds, up, store, pending, gone, window, down, runs, removals, moves

dragging == <<ddTree, made, ddSnapshot, gesture, sourceIds, isInternal, draggingIds, dropTarget,
              dropPosition, tracked, opened, drop, lost, said, ddElsewhere>>
renaming == <<irRows, irSnapshot, target, token, observed, error, irInput, calls, creating, session,
              steered, irElsewhere>>
navigating == <<vars, fresh>>
searching == <<filter, input, owned, mode, restricted, list, tsGeneration, timer, current, call,
               tsTree, known, focused, selected, ran, tsActs, tsChanges>>
decorating == <<setup, status, news, batch, job, generation, map, disposed, overlapped, behind,
                deTree, knownIds, up, store, pending, gone, window, down, runs, removals, moves>>
uiVars == <<part, dragging, renaming, navigating, searching, decorating>>

(* TreeNavigation: four rows of which three are mounted, and a typeahead   *)
(* that scans one row itself and asks the host for the rest.               *)
MCOrder == <<"r", "d", "f", "g">>
MCParent == [i \in {"r", "d", "f", "g"} |-> CASE i = "r" -> None [] i = "f" -> "d" [] OTHER -> "r"]
MCAbove == [i \in {"r", "d", "f", "g"} |-> CASE i = "f" -> {"r", "d", "f"} [] OTHER -> {"r", i}]
MCName == [r |-> <<"r">>, d |-> <<"a", "b">>, f |-> <<"a", "a">>, g |-> <<"b">>]
MCSaved == {[expanded |-> {"r", "d"}, selected |-> {"g"}, focused |-> "f"]}

(* A folder d with a file of the same name as one beside it, both dragged  *)
(* together, or the other alone: moved to either folder they collide.  The *)
(* folder is ignored, and so is the file in it.                            *)
MCDragParent == [i \in {"r", "d", "f", "g"} |-> CASE i = "r" -> None [] i = "g" -> "d" [] OTHER -> "r"]
MCDragName == [i \in {"r", "d", "f", "g", "p"} |-> IF i \in {"r", "d"} THEN i ELSE "x"]
MCSelections == {{"f", "g"}, {"f"}}
MCPlaces == {<<"d", "self">>, <<"f", "above">>}

Drag == INSTANCE DragDrop WITH
    Ids <- DragIds, Dirs <- DragDirs, Parent <- DragParent, Name <- DragName,
    Ignored <- DragIgnored, Paths <- DragPaths, MaxElsewhere <- DragElsewhere,
    tree <- ddTree, snapshot <- ddSnapshot, elsewhere <- ddElsewhere

(* Two ids, so that one can be used again while a call on it is out, and   *)
(* as many removals: a rename can then meet an id it has seen before.      *)
Rename == INSTANCE InlineRename WITH
    Ids <- RowIds, Names <- RowNames, Calls <- RenameCalls, MaxElsewhere <- RenameElsewhere,
    rows <- irRows, snapshot <- irSnapshot, input <- irInput, elsewhere <- irElsewhere

(* Two queries, one with more hits than a page. *)
MCSearchOrder == <<"x", "y", "z">>
MCSearchFound == [a |-> {"x", "y", "z"}, b |-> {"y"}]
MCSearchRows == <<"r", "x">>

ASSUME SearchAssumption ==
    /\ SearchRows \in Seq(Range(SearchRows)) /\ SearchRows # <<>>
    /\ SearchOrder \in Seq(Range(SearchOrder))
    /\ None \notin Nat \cup SearchCalls

Search == INSTANCE TreeSearch WITH
    Order <- SearchOrder, Found <- SearchFound, limit <- SearchLimit, TreeRows <- SearchRows,
    Calls <- SearchCalls, MaxActs <- SearchActs, MaxChanges <- SearchChanges,
    generation <- tsGeneration, tree <- tsTree, acts <- tsActs, changes <- tsChanges

(* Two windows, of which one comes later; a provider with generations in a *)
(* window, or one without in the host's process.                           *)
MCBadgeSlot == [p |-> "p"]
MCBadgeSetups == {[at |-> [p |-> 1], guarded |-> {"p"}], [at |-> [p |-> 0], guarded |-> {}]}
MCBadgeMarks == [v \in 0..2 |-> CASE v = 0 -> {} [] v = 1 -> {"a"} [] v = 2 -> {"b"}]

ASSUME DecorationsAssumption ==
    /\ IsFiniteSet(DOMAIN BadgeSlot) /\ 0 \notin Windows /\ BadgeRoots \subseteq BadgeIds
    /\ \A s \in BadgeSetups : s.at \in [DOMAIN BadgeSlot -> Windows \cup {0}]
    /\ MaxVersion \in Nat

Badges == INSTANCE Decorations WITH
    Ids <- BadgeIds, Roots <- BadgeRoots, Slot <- BadgeSlot, Setups <- BadgeSetups, Marks <- BadgeMarks, Jobs <- BadgeJobs,
    tree <- deTree

UiInit ==
    /\ part \in {"drag", "rename", "navigation", "search", "badges"}
    /\ Drag!Init /\ Rename!Init /\ Init /\ Search!Init /\ Badges!Init
    /\ part # "rename" => irRows = [i \in RowIds |-> "gone"]
    /\ fresh \in BOOLEAN /\ (part # "navigation" => ~fresh)
    /\ mirror.listed = IF fresh THEN {} ELSE Dirs
    /\ part # "search" => mode = "off" /\ ~owned /\ ~restricted /\ focused = None
    /\ part # "badges" => setup.guarded = {}

UiNext ==
    \/ part = "drag" /\ Drag!Next /\ UNCHANGED <<part, renaming, navigating, searching, decorating>>
    \/ part = "rename" /\ Rename!Next /\ UNCHANGED <<part, dragging, navigating, searching, decorating>>
    \/ /\ part = "navigation" /\ Next
       /\ fresh => \A q \in Requests : request'[q].kind \in {"none", "active"}
       /\ UNCHANGED <<part, fresh, dragging, renaming, searching, decorating>>
    \/ part = "search" /\ Search!Next /\ UNCHANGED <<part, dragging, renaming, navigating, decorating>>
    \/ part = "badges" /\ Badges!Next /\ UNCHANGED <<part, dragging, renaming, navigating, searching>>

UiSpec == UiInit /\ [][UiNext]_uiVars

-----------------------------------------------------------------------------
(* Rows look dragged only during a drag, and an entry is replaced only by  *)
(* the consent given in that drop, although batches outlive their drag.    *)
DragIsSound == Drag!DragStateIsLive /\ Drag!ReplacedByConsent

(* Besides, the result of a rename belongs to the session that asked for   *)
(* it, and a session ends with its row: an edit answered late touches      *)
(* nothing but its own.                                                    *)
EditsAreSound == []DragIsSound /\ Rename!ResultIsOfItsSession /\ []Rename!TargetIsShown

(* Late answers are applied only where still wanted, a finished reveal     *)
(* shows its row, focus stays on entries that exist, and the engine loads  *)
(* what the tree shows expanded.                                           *)
NavigationIsSound ==
    part = "navigation" => TypeOK /\ AnswerIsWanted /\ RevealShows /\ FocusIsReal /\ EngineFollows

(* The results listed are those of the text searched for, the mark is on   *)
(* one of them, and a search that shows as loading has something behind it.*)
SearchIsSound ==
    part = "search" =>
        Search!TypeOK /\ Search!ResultsAreOfTheQuery /\ Search!MarkIsAHit /\ Search!LoadingIsDriven

(* A provider at rest shows the present status, and every window shows     *)
(* what the provider says.                                                 *)
DecorationsAgree ==
    part = "badges" => Badges!TypeOK /\ Badges!StatusIsShown /\ Badges!WindowsAgree

(* Statements of comments that the model refutes (UiRefuted.cfg): a drag   *)
(* begun in this tree stays one until dragend; a late result leaves a newer *)
(* session alone; a folder a drag dwells on is expanded in the tree; a late *)
(* window shows what the others show; an entry that is removed is cleared.  *)
OwnDropIsInternal == Drag!OwnDropIsInternal
LateResultIsIgnored == Rename!LateResultIsIgnored
TreeFollows == part = "navigation" => EngineFollowsAlways
LateWindowsAgree == part = "badges" => Badges!LateWindowsAgree
RemovedIsCleared == part = "badges" => Badges!RemovedIsCleared
=============================================================================
