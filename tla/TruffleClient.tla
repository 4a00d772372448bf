--------------------------- MODULE TruffleClient ---------------------------
(***************************************************************************)
(* connectMille (mille-truffle/src/client.ts): a facade that owns one live  *)
(* session at a time and dials again when it is lost, with the retry        *)
(* decision of state.ts.                                                    *)
(*                                                                         *)
(* An attempt dials, waits for the answer to its open request and for the   *)
(* explorer's handshake, and is adopted in a continuation of that wait: a   *)
(* close of the channel may be reported before the continuation runs.  The  *)
(* listeners of the facade and the snapshot it keeps are left out.          *)
(***************************************************************************)
EXTENDS Naturals, FiniteSets

CONSTANTS Attempts  \* attempts that may exist at once; an id is used again

ASSUME AttemptsAssumption == 0 \notin Attempts

VARIABLES
    options,    \* [reconnect, retryServerShutdown]
    state,      \* what the facade reports
    step,       \* step[a]: how far attemptConnect is, "held" once adopted
    up,         \* up[a]: its channel is open
    left,       \* a channel of a failed attempt is open, and nobody here holds it
    current,    \* the adopted attempt, or NoAttempt
    timers,     \* retry timers running
    ready,      \* the ready() promise
    returned,   \* connectMille returned the facade, rather than throw
    closed,     \* close() ran
    aborted     \* the caller's AbortSignal

vars == <<options, state, step, up, left, current, timers, ready, returned, closed, aborted>>

NoAttempt == 0
Pending == {"dial", "open", "shake", "shaken"}

TypeOK ==
    /\ options \in [reconnect : BOOLEAN, retryServerShutdown : BOOLEAN]
    /\ state \in {"connecting", "online", "stale", "reconnecting", "closed"}
    /\ step \in [Attempts -> Pending \cup {"held", "none"}]
    /\ up \in [Attempts -> BOOLEAN]
    /\ left \in BOOLEAN
    /\ current \in Attempts \cup {NoAttempt}
    /\ timers \in 0..Cardinality(Attempts)
    /\ ready \in {"pending", "resolved", "rejected"}
    /\ returned \in BOOLEAN /\ closed \in BOOLEAN /\ aborted \in BOOLEAN

-----------------------------------------------------------------------------
Rejections == {"ACCESS_DENIED", "PROTOCOL_MISMATCH", "LIMIT_EXCEEDED", "SERVER_SHUTTING_DOWN"}
Transient == {"TRANSPORT_ERROR", "TIMEOUT"}

(* shouldRetry *)
ShouldRetry(code) ==
    \/ code \notin Rejections
    \/ code = "SERVER_SHUTTING_DOWN" /\ options.retryServerShutdown

(* The catch of attemptConnect: the attempt is over, and either so is the   *)
(* connection or a retry is scheduled.                                      *)
FailUnscheduled(a, code) ==
    /\ step' = [step EXCEPT ![a] = "none"]
    /\ up' = [up EXCEPT ![a] = FALSE]
    /\ IF ShouldRetry(code) /\ options.reconnect /\ ~closed
       THEN /\ state' = "stale"
            /\ returned' = TRUE
            /\ UNCHANGED <<timers, ready>>
       ELSE /\ state' = "closed"
            /\ ready' = IF ready = "pending" THEN "rejected" ELSE ready
            /\ UNCHANGED <<timers, returned>>

Fail(a, code) ==
    /\ step' = [step EXCEPT ![a] = "none"]
    /\ up' = [up EXCEPT ![a] = FALSE]
    /\ IF ShouldRetry(code) /\ options.reconnect /\ ~closed
       THEN /\ state' = "stale"
            /\ timers' = timers + 1
            /\ returned' = TRUE
            /\ UNCHANGED ready
       ELSE /\ state' = "closed"
            /\ ready' = IF ready = "pending" THEN "rejected" ELSE ready
            /\ UNCHANGED <<timers, returned>>

(* The first attempt is under way, with a signal that may be aborted        *)
(* already: its listener then never runs.                                   *)
Init ==
    \E first \in Attempts :
       /\ options \in [reconnect : BOOLEAN, retryServerShutdown : BOOLEAN]
       /\ aborted \in BOOLEAN
       /\ state = "connecting"
       /\ step = [a \in Attempts |-> IF a = first THEN "dial" ELSE "none"]
       /\ up = [a \in Attempts |-> FALSE]
       /\ left = FALSE
       /\ current = NoAttempt
       /\ timers = 0
       /\ ready = "pending"
       /\ returned = FALSE
       /\ closed = FALSE

-----------------------------------------------------------------------------
(* The retry timer: attemptConnect. *)
AttemptConnect(a) ==
    /\ timers > 0
    /\ step[a] = "none"
    /\ timers' = timers - 1
    /\ state' = "reconnecting"
    /\ step' = [step EXCEPT ![a] = "dial"]
    /\ UNCHANGED <<options, up, left, current, ready, returned, closed, aborted>>

(* openOnce: an aborted signal refuses, a socket connects, or it fails.     *)
(* There is no deadline: openTimeoutMs starts once the socket is connected. *)
Dial(a) ==
    /\ step[a] = "dial"
    /\ \/ /\ aborted
          /\ Fail(a, "OFFLINE")
       \/ /\ ~aborted
          /\ step' = [step EXCEPT ![a] = "open"]
          /\ up' = [up EXCEPT ![a] = TRUE]
          /\ UNCHANGED <<state, timers, ready, returned>>
       \/ Fail(a, "TRANSPORT_ERROR")
    /\ UNCHANGED <<options, left, current, closed, aborted>>

(* The answer to the open request, the close of the channel, the deadline. *)
OpenReply(a) ==
    /\ step[a] = "open"
    /\ \/ /\ step' = [step EXCEPT ![a] = "shake"]
          /\ UNCHANGED <<up, state, timers, ready, returned>>
       \/ \E code \in Rejections \cup Transient : Fail(a, code)
    /\ UNCHANGED <<options, left, current, closed, aborted>>

(* connectFileExplorerChannel: the host's snapshot, a channel that closed   *)
(* before it (a fatal error frame closes it), or an error frame that is not *)
(* fatal: ready() rejects, and nobody closes the channel.                   *)
Handshake(a) ==
    /\ step[a] = "shake"
    /\ \/ /\ step' = [step EXCEPT ![a] = "shaken"]
          /\ UNCHANGED <<up, left, state, timers, ready, returned>>
       \/ Fail(a, "TRANSPORT_ERROR") /\ UNCHANGED left
       \/ Fail(a, "TRANSPORT_ERROR") /\ left' = TRUE
    /\ UNCHANGED <<options, current, closed, aborted>>

(* The host's end closes what this end forgot. *)
LeftEnds ==
    /\ left
    /\ left' = FALSE
    /\ UNCHANGED <<options, state, step, up, current, timers, ready, returned, closed, aborted>>

(* The continuation: adopt, or close what a closed facade no longer wants. *)
AdoptAlways(a) ==
    /\ step[a] = "shaken"
    /\ step' = [step EXCEPT ![a] = "held"]
    /\ current' = a
    /\ state' = "online"
    /\ ready' = IF ready = "pending" THEN "resolved" ELSE ready
    /\ returned' = TRUE
    /\ UNCHANGED <<options, up, left, timers, closed, aborted>>

Adopt(a) ==
    /\ step[a] = "shaken"
    /\ IF closed
       THEN /\ step' = [step EXCEPT ![a] = "none"]
            /\ up' = [up EXCEPT ![a] = FALSE]
            /\ UNCHANGED <<current, state, ready>>
       ELSE /\ step' = [step EXCEPT ![a] = "held"]
            /\ current' = a
            /\ state' = "online"
            /\ ready' = IF ready = "pending" THEN "resolved" ELSE ready
            /\ UNCHANGED up
    /\ returned' = TRUE
    /\ UNCHANGED <<options, left, timers, closed, aborted>>

(* onSessionLost: the adopted session's channel closed. *)
SessionLost(a) ==
    /\ step[a] = "held" /\ up[a]
    /\ step' = [step EXCEPT ![a] = "none"]
    /\ up' = [up EXCEPT ![a] = FALSE]
    /\ current' = NoAttempt
    /\ IF options.reconnect
       THEN state' = "stale" /\ timers' = timers + 1
       ELSE state' = "closed" /\ UNCHANGED timers
    /\ UNCHANGED <<options, left, ready, returned, closed, aborted>>

(* The channel closes before adopt subscribed to it: nobody is told. *)
LostUnheard(a) ==
    /\ step[a] = "shaken" /\ up[a]
    /\ up' = [up EXCEPT ![a] = FALSE]
    /\ UNCHANGED <<options, state, step, left, current, timers, ready, returned, closed, aborted>>

-----------------------------------------------------------------------------
(* close(): the timer is cleared and the session disposed.  An attempt that *)
(* is under way is left to its continuation.                                *)
Shut ==
    /\ closed' = TRUE
    /\ timers' = 0
    /\ current' = NoAttempt
    /\ state' = "closed"

Close ==
    /\ returned /\ ~closed
    /\ Shut
    /\ step' = [a \in Attempts |-> IF a = current THEN "none" ELSE step[a]]
    /\ up' = [a \in Attempts |-> up[a] /\ a # current]
    /\ UNCHANGED <<options, left, ready, returned, aborted>>

(* The caller aborts: close(), and openOnce gives up where it still listens. *)
Abort ==
    /\ ~aborted
    /\ aborted' = TRUE
    /\ LET gone == {a \in Attempts : step[a] \in {"dial", "open"}} \cup ({current} \ {NoAttempt})
       IN /\ step' = [a \in Attempts |-> IF a \in gone THEN "none" ELSE step[a]]
          /\ up' = [a \in Attempts |-> up[a] /\ a \notin gone]
          /\ ready' = IF ready = "pending" /\ \E a \in Attempts : step[a] \in {"dial", "open"}
                      THEN "rejected" ELSE ready
    /\ Shut
    /\ UNCHANGED <<options, left, returned>>

Next ==
    \/ \E a \in Attempts :
          \/ AttemptConnect(a) \/ Dial(a) \/ OpenReply(a) \/ Handshake(a)
          \/ Adopt(a) \/ SessionLost(a) \/ LostUnheard(a)
    \/ LeftEnds \/ Close \/ Abort

(* Timers fire and continuations run; an open ends by its deadline and a    *)
(* handshake by the answer of the host, which is immediate (handleHandshake  *)
(* of host.ts), or by the close of the channel.  A dial has no deadline and  *)
(* need not end, unless the signal was aborted before it began.              *)
Fairness ==
    \A a \in Attempts :
       /\ WF_vars(AttemptConnect(a)) /\ WF_vars(aborted /\ Dial(a))
       /\ WF_vars(OpenReply(a)) /\ WF_vars(Handshake(a)) /\ WF_vars(Adopt(a))

Spec == Init /\ [][Next]_vars
FairSpec == Spec /\ Fairness

-----------------------------------------------------------------------------
Driving == {a \in Attempts : step[a] \in Pending \cup {"held"}}

(* A connection that is not closed is driven by exactly one thing: an       *)
(* attempt, a session or a retry timer.  Two would open two sessions; none  *)
(* would leave a stale facade stale for good.                               *)
ExactlyOneDriver ==
    IF state = "closed" THEN timers = 0 /\ current = NoAttempt
    ELSE Cardinality(Driving) + timers = 1

(* After close() an attempt that has a socket ends with its channel closed  *)
(* and stays ended: the session, an attempt that close() overtook, and one  *)
(* whose dial was answered later.  A dial nobody answers holds no channel,  *)
(* but goes on (there is no deadline); a channel that a failed handshake    *)
(* left open is NothingIsLeft's.                                            *)
ClosedLeavesNoSession ==
    \A a \in Attempts :
       (closed /\ step[a] # "dial") ~> [](step[a] = "none" /\ ~up[a])

(* The rest of it: "the facade owns one live PortFileExplorer at a time"     *)
(* (client.ts), so a failed attempt leaves no channel open.                  *)
NothingIsLeft == []~left

(* RemoteFileExplorer.explorer: "The live session. Throws when offline." *)
OnlineIsLive == (current # NoAttempt /\ ~up[current]) ~> (state # "online")

(* ready() settles with the connection. *)
ReadySettles == (state = "closed") ~> (ready # "pending")

(* An aborted signal ends the connection. *)
AbortedStops == aborted ~> (state = "closed")
=============================================================================
