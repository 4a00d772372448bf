--------------------------- MODULE RemoteSession ---------------------------
(***************************************************************************)
(* One `mille.remote` session: serveRemoteSession (remote/server.ts) at one *)
(* end of a channel, openRemoteChannel (remote/client.ts) at the other.     *)
(*                                                                         *)
(* The channel is the contract of module Channel: frames in order, either   *)
(* end may close at any time and the other is told.  The server answers an  *)
(* open request with the verdict of an asynchronous authorize hook; the     *)
(* open deadline, a close or an abort may each come before the verdict.     *)
(***************************************************************************)
EXTENDS Naturals, Sequences

CONSTANTS MaxFrames,  \* bound: explorer frames the client sends
          MaxPings    \* bound: heartbeats the server sends

VARIABLES
    (* serveRemoteSession *)
    state,      \* "opening", "open" or "closed"
    openSeen,   \* an open request was taken
    verdict,    \* the request authorize is deciding, or NoRequest
    refusal,    \* why the session was refused, or "none"
    session,    \* the host session: "none", "attached" or "disposed"
    access,     \* the access of the effective policy, or "none"
    opened,     \* the `opened` promise: "pending", "resolved" or "rejected"
    quiet,      \* a ping went out and nothing came in since
    pings,      \* heartbeats sent
    heard,      \* explorer frames given to the host
    (* openRemoteChannel *)
    request,    \* the open request: [access, valid]
    outcome,    \* "pending", "accepted" or an error code
    reported,   \* the access `accepted` named, or "none"
    frames,     \* explorer frames the client sent
    (* the channel *)
    toServer, toClient,   \* frames on the way
    up,         \* up[e]: the end e of the channel is open
    why,        \* the close code the server chose, or "none"
    (* history *)
    granted     \* the access authorize granted, or "none"

server == <<state, openSeen, verdict, refusal, session, access, opened, quiet,
            pings, heard, granted>>
client == <<request, outcome, reported, frames>>
channel == <<toServer, toClient, up, why>>
vars == <<server, client, channel>>

(* What authorize may grant, and what a client can ask for: the request's   *)
(* vocabulary has no admin.                                                 *)
Accesses == {"read-only", "read-write", "admin"}
RemoteAccess == {"read-only", "read-write"}
NoRequest == [access |-> "none", valid |-> FALSE]
Frame(type, arg) == [type |-> type, arg |-> arg]

TypeOK ==
    /\ state \in {"opening", "open", "closed"}
    /\ verdict \in [access : RemoteAccess, valid : {TRUE}] \cup {NoRequest}
    /\ session \in {"none", "attached", "disposed"}
    /\ opened \in {"pending", "resolved", "rejected"}
    /\ access \in Accesses \cup {"none"}
    /\ up \in [{"server", "client"} -> BOOLEAN]
    /\ frames \in 0..MaxFrames /\ heard \in 0..MaxFrames /\ pings \in 0..MaxPings

(* The client has created its channel and sent the open request. *)
Init ==
    /\ state = "opening" /\ openSeen = FALSE /\ verdict = NoRequest
    /\ refusal = "none" /\ session = "none" /\ access = "none"
    /\ opened = "pending" /\ quiet = FALSE /\ pings = 0 /\ heard = 0
    /\ request \in [access : RemoteAccess, valid : BOOLEAN]
    /\ outcome = "pending" /\ reported = "none" /\ frames = 0
    /\ toServer = <<Frame("open", request)>> /\ toClient = <<>>
    /\ up = [e \in {"server", "client"} |-> TRUE] /\ why = "none"
    /\ granted = "none"

-----------------------------------------------------------------------------
(* Server *)

(* A teardown that leaves the host session attached. *)
TeardownForgetting(reason) ==
    /\ up' = [up EXCEPT !.server = FALSE]
    /\ state' = "closed"
    /\ opened' = IF state = "opening" THEN "rejected" ELSE opened
    /\ why' = reason
    /\ UNCHANGED session

(* teardown, run by the channel's close event: the timers stop, the host    *)
(* session is disposed, and `opened` rejects if the session never opened.   *)
Teardown(reason) ==
    /\ up' = [up EXCEPT !.server = FALSE]
    /\ state' = "closed"
    /\ session' = IF session = "attached" THEN "disposed" ELSE session
    /\ opened' = IF state = "opening" THEN "rejected" ELSE opened
    /\ why' = reason

(* refuse: the rejection goes out if the channel takes it, and the channel  *)
(* closes with a code the client can read.                                  *)
Refuse(code) ==
    /\ refusal' = code
    /\ \/ toClient' = Append(toClient, Frame("rejected", code))
       \/ UNCHANGED toClient
    /\ Teardown(CASE code = "ACCESS_DENIED" -> "AUTH_REJECTED"
                  [] code \in {"INVALID_REQUEST", "VERSION_UNSUPPORTED"} -> "PROTOCOL_ERROR"
                  [] OTHER -> "LOCAL_CLOSE")

EffectiveAccessWidened(grant, asked) == grant

(* effectivePolicy: asking for writes on a read-only grant is refused       *)
(* rather than downgraded, asking for less is allowed, and any other client *)
(* gets the grant as it is: one that asked for read-write may run as admin. *)
EffectiveAccess(grant, asked) ==
    CASE asked = "read-write" /\ grant = "read-only" -> "refused"
      [] asked = "read-only" -> "read-only"
      [] OTHER -> grant

(* reportedAccess: what `accepted` names, in the request's vocabulary. *)
ReportedAccess(a) == IF a = "read-only" THEN "read-only" ELSE "read-write"

(* handleService: a ping is answered, the first open request is taken and   *)
(* parsed, another is ignored; pongs need nothing.                          *)
HandleService(m) ==
    \/ /\ m.type = "open" /\ ~openSeen
       /\ openSeen' = TRUE
       /\ \/ /\ ~m.arg.valid
             /\ \E code \in {"INVALID_REQUEST", "VERSION_UNSUPPORTED"} : Refuse(code)
             /\ UNCHANGED verdict
          \/ /\ m.arg.valid
             /\ verdict' = m.arg
             /\ UNCHANGED <<state, session, opened, refusal, toClient, up, why>>
    \/ /\ m.type = "pong" \/ (m.type = "open" /\ openSeen)
       /\ UNCHANGED <<openSeen, verdict, state, session, opened, refusal, toClient, up, why>>

(* The channel's message listener: service frames are answered here, and an *)
(* explorer frame reaches the host only once the session is open.           *)
ServerReceive ==
    /\ up["server"] /\ toServer # <<>>
    /\ toServer' = Tail(toServer)
    /\ quiet' = FALSE
    /\ LET m == Head(toServer)
       IN \/ /\ m.type # "explorer"
             /\ HandleService(m)
             /\ UNCHANGED heard
          \/ /\ m.type = "explorer" /\ state = "open"
             /\ heard' = heard + 1
             /\ UNCHANGED <<openSeen, verdict, state, session, opened, refusal, toClient, up, why>>
          \/ /\ m.type = "explorer" /\ state # "open"
             /\ Teardown("PROTOCOL_ERROR")
             /\ UNCHANGED <<openSeen, verdict, refusal, toClient, heard>>
    /\ UNCHANGED <<access, pings, granted, client>>

(* open(), past the authorize hook: nothing when the session is no longer   *)
(* opening; a denial, a throw or a refusal; or a grant, which attaches the  *)
(* channel to the host and sends `accepted`.  The host may refuse the       *)
(* attach; the send may find the channel gone, which tears it down at once. *)
Denied ==
    /\ \E code \in {"ACCESS_DENIED", "LIMIT_EXCEEDED", "SERVER_SHUTTING_DOWN"} : Refuse(code)
    /\ UNCHANGED <<access, granted>>

AcceptReportingGrant(grant) ==
    LET a == EffectiveAccess(grant, verdict.access)
    IN /\ a # "refused"
       /\ granted' = grant
       /\ access' = a
       /\ state' = "open" /\ session' = "attached" /\ opened' = "resolved"
       /\ toClient' = Append(toClient, Frame("accepted", grant))
       /\ UNCHANGED <<refusal, up, why>>

Accept(grant) ==
    LET a == EffectiveAccess(grant, verdict.access)
    IN /\ granted' = grant
       /\ \/ /\ a = "refused"
             /\ Refuse("ACCESS_DENIED")
             /\ UNCHANGED access
          \/ /\ a # "refused"
             /\ access' = a
             /\ \/ /\ state' = "open" /\ session' = "attached" /\ opened' = "resolved"
                   /\ toClient' = Append(toClient, Frame("accepted", ReportedAccess(a)))
                   /\ UNCHANGED <<refusal, up, why>>
                \/ /\ state' = "closed" /\ session' = "disposed"
                   /\ up' = [up EXCEPT !.server = FALSE] /\ why' = "TRANSPORT_ERROR"
                   /\ UNCHANGED <<opened, refusal, toClient>>

(* The verdict of a hook whose client is gone, taken as if it were not. *)
AuthorizedLate ==
    /\ verdict # NoRequest
    /\ verdict' = NoRequest
    /\ Denied \/ \E grant \in Accesses : Accept(grant)
    /\ UNCHANGED <<openSeen, quiet, pings, heard, toServer, client>>

Authorized ==
    /\ verdict # NoRequest
    /\ verdict' = NoRequest
    /\ \/ /\ state # "opening"
          /\ UNCHANGED <<state, refusal, session, access, opened, granted, toClient, up, why>>
       \/ state = "opening" /\ Denied
       \/ state = "opening" /\ \E grant \in Accesses : Accept(grant)
    /\ UNCHANGED <<openSeen, quiet, pings, heard, toServer, client>>

(* The open deadline: from the accepted connection to `accepted`. *)
OpenTimeout ==
    /\ state = "opening"
    /\ refusal' = "TIMEOUT"
    /\ Teardown("LOCAL_CLOSE")
    /\ UNCHANGED <<openSeen, verdict, access, quiet, pings, heard, granted, toServer,
                   toClient, client>>

(* The heartbeat of an open session: a ping after some silence, a close     *)
(* after more of it, several pings later.                                   *)
Heartbeat ==
    /\ state = "open"
    /\ \/ /\ pings < MaxPings
          /\ pings' = pings + 1
          /\ quiet' = TRUE
          /\ toClient' = Append(toClient, Frame("ping", "none"))
          /\ UNCHANGED <<state, session, opened, up, why>>
       \/ /\ quiet
          /\ Teardown("LOCAL_CLOSE")
          /\ UNCHANGED <<quiet, pings, toClient>>
    /\ UNCHANGED <<openSeen, verdict, refusal, access, heard, granted, toServer, client>>

(* The embedder closes the session, or the channel reports that it is gone. *)
ServerClose ==
    /\ up["server"]
    /\ \E reason \in {"LOCAL_CLOSE", "TRANSPORT_ERROR"} : Teardown(reason)
    /\ UNCHANGED <<openSeen, verdict, refusal, access, quiet, pings, heard, granted,
                   toServer, toClient, client>>

ServerHearsClose ==
    /\ up["server"] /\ ~up["client"]
    /\ Teardown("REMOTE_CLOSE")
    /\ UNCHANGED <<openSeen, verdict, refusal, access, quiet, pings, heard, granted,
                   toServer, toClient, client>>

-----------------------------------------------------------------------------
(* Client *)

SettleOnlyOpen(result, stays) ==
    /\ outcome' = IF stays THEN result ELSE outcome
    /\ up' = [up EXCEPT !.client = stays]

Settle(result, stays) ==
    /\ outcome' = result
    /\ up' = [up EXCEPT !.client = stays]

(* The client's message listener: a ping is answered in any phase; the      *)
(* first reply settles the open, and a rejection closes the channel.        *)
ClientReceive ==
    /\ up["client"] /\ toClient # <<>>
    /\ toClient' = Tail(toClient)
    /\ LET m == Head(toClient)
       IN \/ /\ m.type = "ping"
             /\ toServer' = Append(toServer, Frame("pong", "none"))
             /\ UNCHANGED <<outcome, reported, up>>
          \/ /\ m.type = "accepted" /\ outcome = "pending"
             /\ Settle("accepted", TRUE)
             /\ reported' = m.arg
             /\ UNCHANGED toServer
          \/ /\ m.type = "rejected" /\ outcome = "pending"
             /\ Settle(m.arg, FALSE)
             /\ UNCHANGED <<reported, toServer>>
    /\ UNCHANGED <<request, frames, why, server>>

(* raw.onClose: a close coded AUTH_REJECTED is a denial even if the         *)
(* rejection was lost.                                                      *)
ClientHearsClose ==
    /\ up["client"] /\ ~up["server"]
    /\ Settle(IF outcome # "pending" THEN outcome
              ELSE IF why = "AUTH_REJECTED" THEN "ACCESS_DENIED" ELSE "CLOSED", FALSE)
    /\ UNCHANGED <<request, reported, frames, toServer, toClient, why, server>>

(* The deadline, the caller's AbortSignal, a broken connection. *)
GiveUp ==
    /\ outcome = "pending"
    /\ \E result \in {"TIMEOUT", "ABORTED", "CLOSED"} : Settle(result, FALSE)
    /\ UNCHANGED <<request, reported, frames, toServer, toClient, why, server>>

(* The opened channel in use, and its end. *)
ClientSend ==
    /\ outcome = "accepted" /\ up["client"]
    /\ frames < MaxFrames
    /\ frames' = frames + 1
    /\ toServer' = Append(toServer, Frame("explorer", "none"))
    /\ UNCHANGED <<request, outcome, reported, toClient, up, why, server>>

ClientClose ==
    /\ outcome = "accepted" /\ up["client"]
    /\ up' = [up EXCEPT !.client = FALSE]
    /\ UNCHANGED <<client, toServer, toClient, why, server>>

Next ==
    \/ ServerReceive \/ Authorized \/ OpenTimeout \/ Heartbeat
    \/ ServerClose \/ ServerHearsClose
    \/ ClientReceive \/ ClientHearsClose \/ GiveUp \/ ClientSend \/ ClientClose

(* Deadlines expire, the channel delivers frames and closes.  Nothing says  *)
(* that authorize answers, or that anybody closes.                          *)
Fairness ==
    /\ WF_vars(ServerReceive) /\ WF_vars(ServerHearsClose) /\ WF_vars(OpenTimeout)
    /\ WF_vars(ClientReceive) /\ WF_vars(ClientHearsClose) /\ WF_vars(GiveUp)

Spec == Init /\ [][Next]_vars
FairSpec == Spec /\ Fairness

-----------------------------------------------------------------------------
(* No host is touched before authorize granted the open.  The session runs  *)
(* read-only if the client asked for that, and as it was granted otherwise, *)
(* be that more than it asked for (admin); a client that wants to write is  *)
(* never left with a read-only session.                                     *)
AttachedByGrant ==
    session # "none" =>
       /\ granted # "none"
       /\ access = IF request.access = "read-only" THEN "read-only" ELSE granted
       /\ request.access = "read-write" => access # "read-only"

(* A host session ends with its channel: a verdict that arrives after the   *)
(* deadline or the close attaches nothing.                                  *)
AttachedIsUp == session = "attached" => up["server"]

(* What the client believes is what the server runs: an accepted open names *)
(* a session the server opened, and whether it may write there, which is    *)
(* what the client asked for; a server that refused has no client that      *)
(* thinks otherwise.                                                        *)
AcceptedIsOpened ==
    outcome = "accepted" =>
       /\ opened = "resolved" /\ refusal = "none"
       /\ reported = ReportedAccess(access) /\ reported = request.access

(* Every open settles at the client, whatever the server or authorize does. *)
OpenSettles == (outcome = "pending") ~> (outcome # "pending")

(* A client that gave up leaves no host session behind. *)
NoOrphanSession == (~up["client"]) ~> (session # "attached")

(* The doc of `opened` (server.ts): it "resolves on accept; rejects with a  *)
(* RemoteOpenError when the open fails".                                    *)
OpenedSettles == (state = "closed") ~> (opened # "pending")
=============================================================================
