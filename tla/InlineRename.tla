---------------------------- MODULE InlineRename ----------------------------
(***************************************************************************)
(* Renaming a row in place (mille-ui): the state of useRenameState.ts, the *)
(* input of useFileRenameInput.ts, and the creation of entries by FileTree *)
(* (a provisional entry whose rename opens when the engine answers).       *)
(*                                                                         *)
(* A rename call is outstanding while the user goes on: the result must    *)
(* not be taken for that of a later session, not even one on the same id.  *)
(* Names are model values ("" is what the validator refuses); the engine   *)
(* is external and runs its calls in any order.  With the target controlled *)
(* by the application, which follows every onChange, it may also set one    *)
(* of its own.                                                             *)
(***************************************************************************)
EXTENDS Naturals

CONSTANTS
    Ids,            \* entry ids; one that is gone may be used again
    Names,          \* valid names
    Provisional,    \* the name an entry is created under
    Calls,          \* fx.rename calls
    MaxSessions,    \* bound: rename sessions
    MaxAttempts,    \* bound: names tried by a creation
    MaxElsewhere,   \* bound: removals by somebody else
    None

VARIABLES
    rows,           \* the engine's entries: their names, or "gone"
    snapshot,       \* as last rendered
    target,         \* renameTargetId
    token,          \* operationTokenRef
    observed,       \* observedTargetRef
    error,          \* errorState: whether there is one, and its revision
    input,          \* the mounted input, or NoInput
    calls,          \* the fx.rename calls
    creating,       \* attempts of the creation under way, None before and after
    session,        \* history: the number of the rename session
    steered,        \* history: the token when the application last set the target
    elsewhere

vars == <<rows, snapshot, target, token, observed, error, input, calls, creating, session,
          steered, elsewhere>>

Empty == ""      \* a name the validator refuses
NoInput == [id |-> None, value |-> Empty, initial |-> Empty, committed |-> FALSE, focused |-> FALSE]
NoCall == [step |-> "idle", id |-> None, name |-> Empty, token |-> 0, session |-> 0]
NoError == [shown |-> FALSE, revision |-> 0]

Init ==
    /\ rows \in [Ids -> Names \cup {"gone"}] /\ snapshot = rows
    /\ \A i, j \in Ids : rows[i] = rows[j] => i = j \/ rows[i] = "gone"
    /\ target = None /\ token = 0 /\ observed = None
    /\ error = NoError /\ input = NoInput
    /\ calls = [c \in Calls |-> NoCall]
    /\ creating = None /\ session = 0 /\ steered = 0 /\ elsewhere = 0

-----------------------------------------------------------------------------
(* The input is mounted on the row of the target, if that row is rendered; *)
(* a new error, or the end of one, makes it ready for another attempt.     *)
Mounted(t, rendered, e) ==
    IF t = None \/ rendered[t] = "gone" THEN NoInput
    ELSE IF input.id = t
         THEN [input EXCEPT !.committed = @ /\ e = error]
         ELSE [id |-> t, value |-> rendered[t], initial |-> rendered[t], committed |-> FALSE,
               focused |-> TRUE]

Cleared == [error EXCEPT !.shown = FALSE]

\* startRename, and the layout effect of the commit it causes: a row that is
\* rendered is observed at once, and one that never was may still come; but an
\* id that was observed before it was used again ends its session here.
Started(id) ==
    LET shown == snapshot[id] # "gone"
        ends == ~shown /\ observed = id
    IN
    /\ session < MaxSessions
    /\ token' = token + (IF ends THEN 2 ELSE 1)
    /\ session' = session + 1
    /\ error' = Cleared
    /\ target' = IF ends THEN None ELSE id
    /\ observed' = IF shown THEN id ELSE IF ends THEN None ELSE observed
    /\ input' = IF ends THEN NoInput ELSE Mounted(id, snapshot, Cleared)

\* cancel, and the end of a session whose row is gone.
Ended ==
    /\ token' = token + 1
    /\ session' = session + 1
    /\ observed' = None
    /\ error' = Cleared
    /\ target' = None
    /\ input' = NoInput

\* F2 on a row of the tree: the input, while it has the focus, keeps its keys.
startRename(id) ==
    /\ ~input.focused /\ snapshot[id] # "gone"
    /\ Started(id)
    /\ UNCHANGED <<rows, snapshot, calls, creating, steered, elsewhere>>

\* The application sets the controlled value: a render, and its layout effect.
\* No token is taken and no error cleared.
SetTarget(id) ==
    LET lives == id = None \/ snapshot[id] # "gone" \/ observed # id IN
    /\ session < MaxSessions /\ id # target
    /\ IF lives
       THEN /\ target' = id
            /\ observed' = IF id = None \/ snapshot[id] # "gone" THEN id ELSE observed
            /\ input' = Mounted(id, snapshot, error)
            /\ session' = session + 1
            /\ UNCHANGED <<token, error>>
       ELSE Ended
    /\ steered' = token
    /\ UNCHANGED <<rows, snapshot, calls, creating, elsewhere>>

\* The layout effect: a target that was rendered and is rendered no more ends
\* the session; one that never was may still come.
Render ==
    /\ snapshot # rows
    /\ snapshot' = rows
    /\ CASE target = None ->
              /\ observed' = None
              /\ UNCHANGED <<target, token, error, input, session>>
         [] target # None /\ rows[target] # "gone" ->
              /\ observed' = target
              /\ input' = Mounted(target, rows, error)
              /\ UNCHANGED <<target, token, error, session>>
         [] target # None /\ rows[target] = "gone" /\ observed # target ->
              /\ input' = NoInput
              /\ UNCHANGED <<target, token, observed, error, session>>
         [] target # None /\ rows[target] = "gone" /\ observed = target -> Ended
    /\ UNCHANGED <<rows, calls, creating, elsewhere, steered>>

-----------------------------------------------------------------------------
(* The input. *)

onChange(v) ==
    /\ input.focused /\ v # input.value
    /\ input' = [input EXCEPT !.value = v, !.committed = FALSE]
    /\ UNCHANGED <<rows, snapshot, target, token, observed, error, calls, creating, session, elsewhere, steered>>

\* doCommit and commit: the call goes out under a token of its own.
Commit(focused) ==
    /\ ~input.committed /\ input.value # Empty
    /\ \E c \in Calls :
         /\ calls[c].step = "idle" /\ \A b \in Calls : b < c => calls[b].step # "idle"
         /\ calls' = [calls EXCEPT ![c] =
               [step |-> "sent", id |-> target, name |-> input.value, token |-> token + 1,
                session |-> session]]
    /\ token' = token + 1
    /\ input' = [input EXCEPT !.committed = TRUE, !.focused = focused]
    /\ UNCHANGED <<rows, snapshot, target, observed, error, creating, session, elsewhere, steered>>

Enter == input.focused /\ Commit(TRUE)

\* Escape: doCancel does nothing while a commit is not settled.
Escape ==
    /\ input.focused /\ ~input.committed
    /\ Ended
    /\ UNCHANGED <<rows, snapshot, calls, creating, elsewhere, steered>>

\* Leaving the input commits a changed name and cancels otherwise.
onBlur ==
    /\ input.focused
    /\ \/ /\ input.committed
          /\ input' = [input EXCEPT !.focused = FALSE]
          /\ UNCHANGED <<target, token, observed, error, session, calls>>
       \/ /\ ~input.committed /\ input.value \in {input.initial, Empty}
          /\ Ended
          /\ UNCHANGED calls
    /\ UNCHANGED <<rows, snapshot, creating, elsewhere, steered>>

BlurCommits == input.focused /\ input.value # input.initial /\ Commit(FALSE)

Refocus ==
    /\ input # NoInput /\ ~input.focused
    /\ input' = [input EXCEPT !.focused = TRUE]
    /\ UNCHANGED <<rows, snapshot, target, token, observed, error, calls, creating, session, elsewhere, steered>>

-----------------------------------------------------------------------------
(* The engine's answers. *)

Free(id, n) == \A i \in Ids \ {id} : rows[i] # n

\* The engine renames, or refuses.
Execute(c) ==
    /\ calls[c].step = "sent"
    /\ LET ok == rows[calls[c].id] # "gone" /\ Free(calls[c].id, calls[c].name) IN
       /\ rows' = IF ok THEN [rows EXCEPT ![calls[c].id] = calls[c].name] ELSE rows
       /\ calls' = [calls EXCEPT ![c].step = IF ok THEN "renamed" ELSE "refused"]
    /\ UNCHANGED <<snapshot, target, token, observed, error, input, creating, session, elsewhere, steered>>

\* The result of a call: the session that made it closes, or shows the error.
Settled(c, mine) ==
    /\ calls[c].step \in {"renamed", "refused"}
    /\ calls' = [calls EXCEPT ![c].step = "done"]
    /\ CASE ~mine -> UNCHANGED <<target, observed, error, input>>
         [] mine /\ calls[c].step = "renamed" ->
              /\ target' = None /\ observed' = None /\ error' = Cleared /\ input' = NoInput
         [] mine /\ calls[c].step = "refused" ->
              /\ error' = [shown |-> TRUE, revision |-> error.revision + 1]
              /\ input' = Mounted(target, snapshot, error')
              /\ UNCHANGED <<target, observed>>
    /\ UNCHANGED <<rows, snapshot, token, creating, session, elsewhere, steered>>

\* Mutant: only the target tells sessions apart.
ReplyByTarget(c) == Settled(c, target = calls[c].id)

Reply(c) == Settled(c, token = calls[c].token /\ target = calls[c].id)

\* onCreate: names are tried until the engine takes one, and its rename opens.
onCreate ==
    /\ ~input.focused /\ creating = None /\ session < MaxSessions
    /\ creating' = 0
    /\ UNCHANGED <<rows, snapshot, target, token, observed, error, input, calls, session, elsewhere, steered>>

CreateRefused ==
    /\ creating # None
    /\ creating' = IF creating < MaxAttempts THEN creating + 1 ELSE None
    /\ UNCHANGED <<rows, snapshot, target, token, observed, error, input, calls, session, elsewhere, steered>>

Created ==
    /\ creating # None
    /\ \E id \in Ids :
         /\ rows[id] = "gone" /\ Free(id, Provisional)
         /\ rows' = [rows EXCEPT ![id] = Provisional]
         /\ Started(id)
    /\ creating' = None
    /\ UNCHANGED <<snapshot, calls, elsewhere, steered>>

\* Somebody else removes an entry.
Elsewhere ==
    /\ elsewhere < MaxElsewhere
    /\ elsewhere' = elsewhere + 1
    /\ \E id \in Ids : rows[id] # "gone" /\ rows' = [rows EXCEPT ![id] = "gone"]
    /\ UNCHANGED <<snapshot, target, token, observed, error, input, calls, creating, session, steered>>

Next ==
    \/ Render \/ Enter \/ Escape \/ onBlur \/ BlurCommits \/ Refocus
    \/ onCreate \/ CreateRefused \/ Created \/ Elsewhere
    \/ \E id \in Ids : startRename(id)
    \/ \E id \in Ids \cup {None} : SetTarget(id)
    \/ \E v \in Names \cup {Empty} : onChange(v)
    \/ \E c \in Calls : Execute(c) \/ Reply(c)

Spec == Init /\ [][Next]_vars

-----------------------------------------------------------------------------
(* Properties. *)

TypeOK ==
    /\ rows \in [Ids -> Names \cup {Provisional, "gone"}]
    /\ snapshot \in [Ids -> Names \cup {Provisional, "gone"}]
    /\ target \in Ids \cup {None} /\ observed \in Ids \cup {None}
    /\ token \in Nat /\ session \in Nat /\ steered \in 0..token /\ error.shown \in BOOLEAN
    /\ input.id \in {target, None}

\* The result of a rename closes, or shows its error in, the session that
\* asked for it and no later one, on the same id or after the id was used
\* again ("prevents a late async result from closing a newer rename
\* session", useRenameState.ts); unless the application set the controlled
\* target since, and has set it back to the id the call is about.
Stale(c) == calls[c].step # "done" /\ calls'[c].step = "done" /\ calls[c].session # session
ResultIsOfItsSession ==
    [][\A c \in Calls :
         Stale(c) => \/ UNCHANGED <<target, error, input>>
                     \/ steered = calls[c].token /\ target = calls[c].id]_vars

\* A session ends with its row: no target stays that was shown and is gone
\* ("its disappearance ends the inline session").
TargetIsShown == target # None /\ snapshot[target] = "gone" => observed # target

(* Expectations the code does not meet. *)

\* The comment on operationTokenRef, also where the target is controlled.
LateResultIsIgnored ==
    [][\A c \in Calls : Stale(c) => UNCHANGED <<target, error, input>>]_vars

\* An input with no call on its way can be left by Escape.
InputIsLive ==
    input # NoInput /\ input.committed =>
       \E c \in Calls : calls[c].step \notin {"idle", "done"} /\ calls[c].id = input.id
                        /\ calls[c].token = token

\* A name being typed is not thrown away by the engine's answer to a creation.
DraftIsKept ==
    [][creating # None /\ creating' = None /\ target' # target
         => input = NoInput \/ input.value = input.initial]_vars
=============================================================================
