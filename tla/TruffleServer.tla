--------------------------- MODULE TruffleServer ---------------------------
(***************************************************************************)
(* serveMille (mille-truffle/src/server.ts): one listener, one export, a    *)
(* refcounted cache of hosts with an idle lease, and the sessions of the    *)
(* connections that opened the export.                                      *)
(*                                                                         *)
(* An open passes two awaits, the authorize hook and the creation of a      *)
(* host, between its checks and its session.  The await of a host that is   *)
(* already there takes microtasks only: closes and timers cannot come in    *)
(* between (Quiet), other opens can.                                        *)
(***************************************************************************)
EXTENDS Naturals, FiniteSets, Sequences

CONSTANTS Conns,        \* accepted sockets
          Peer,         \* Peer[c]: the verified peer id of a socket
          MaxSessions,  \* the export's maxSessions
          MaxPerPeer    \* maxSessionsPerPeer

VARIABLES
    phase,      \* phase[c]: how far the connection is
    chan,       \* chan[c]: its channel is open
    holds,      \* holds[c]: the host entry it acquired, or 0
    entries,    \* the host entries created: [count, lease, alive]
    hosts,      \* the entry in the `hosts` map, or 0
    sessions,   \* the connections in the `sessions` map
    server      \* "up", "closing" (the listener is), "draining" or "down"

vars == <<phase, chan, holds, entries, hosts, sessions, server>>

Phases == {"idle", "waiting", "authorizing", "creating", "acquired", "attached", "over"}

TypeOK ==
    /\ phase \in [Conns -> Phases]
    /\ chan \in [Conns -> BOOLEAN]
    /\ hosts \in 0..Len(entries)
    /\ holds \in [Conns -> 0..Len(entries)]
    /\ sessions \subseteq Conns
    /\ \A e \in DOMAIN entries :
          entries[e] \in [count : 0..Cardinality(Conns), lease : BOOLEAN, alive : BOOLEAN]
    /\ server \in {"up", "closing", "draining", "down"}

Init ==
    /\ phase = [c \in Conns |-> "idle"]
    /\ chan = [c \in Conns |-> FALSE]
    /\ holds = [c \in Conns |-> 0]
    /\ entries = <<>> /\ hosts = 0
    /\ sessions = {}
    /\ server = "up"

Quiet == \A c \in Conns : phase[c] # "acquired"

-----------------------------------------------------------------------------
(* releaseHost: the last session starts the idle lease, unless the server   *)
(* is going down.                                                           *)
ReleaseHost(e) ==
    entries' = [entries EXCEPT ![e].count = @ - 1,
                               ![e].lease = entries[e].count = 1 /\ server = "up"]

(* The lease timer.  It drops the export's slot in the map, whichever entry *)
(* is in it.                                                                *)
LeaseExpires(e) ==
    /\ Quiet
    /\ entries[e].lease
    /\ IF entries[e].count > 0
       THEN /\ entries' = [entries EXCEPT ![e].lease = FALSE]
            /\ UNCHANGED hosts
       ELSE /\ entries' = [entries EXCEPT ![e].lease = FALSE, ![e].alive = FALSE]
            /\ hosts' = 0
    /\ UNCHANGED <<phase, chan, holds, sessions, server>>

(* acquireHost on a cached entry: the lease is cancelled. *)
AcquireUncounted(c) ==
    /\ entries' = [entries EXCEPT ![hosts].lease = FALSE]
    /\ holds' = [holds EXCEPT ![c] = hosts]

Acquire(c) ==
    /\ entries' = [entries EXCEPT ![hosts].count = @ + 1, ![hosts].lease = FALSE]
    /\ holds' = [holds EXCEPT ![c] = hosts]

-----------------------------------------------------------------------------
(* handleConnection: a socket that arrives during the shutdown is destroyed. *)
Connect(c) ==
    /\ Quiet
    /\ phase[c] = "idle"
    /\ \/ /\ server = "up"
          /\ phase' = [phase EXCEPT ![c] = "waiting"]
          /\ chan' = [chan EXCEPT ![c] = TRUE]
       \/ /\ server = "closing"
          /\ phase' = [phase EXCEPT ![c] = "over"]
          /\ UNCHANGED chan
    /\ UNCHANGED <<holds, entries, hosts, sessions, server>>

(* refuse, and the open deadline: the connection ends. *)
Over(c) ==
    /\ phase' = [phase EXCEPT ![c] = "over"]
    /\ chan' = [chan EXCEPT ![c] = FALSE]

OpenTimeout(c) ==
    /\ Quiet
    /\ phase[c] = "waiting"
    /\ Over(c)
    /\ UNCHANGED <<holds, entries, hosts, sessions, server>>

(* The open request: malformed, for an unknown export, or passed on to      *)
(* authorizePeer.                                                           *)
OpenWorkspace(c) ==
    /\ Quiet
    /\ phase[c] = "waiting" /\ chan[c]
    /\ \/ Over(c)
       \/ /\ phase' = [phase EXCEPT ![c] = "authorizing"]
          /\ UNCHANGED chan
    /\ UNCHANGED <<holds, entries, hosts, sessions, server>>

AtLimit(c) ==
    \/ Cardinality(sessions) >= MaxSessions
    \/ Cardinality({d \in sessions : Peer[d] = Peer[c]}) >= MaxPerPeer

(* authorizePeer answered: a denial, a limit, or a host to acquire. *)
Authorized(c) ==
    /\ phase[c] = "authorizing"
    /\ \/ /\ Over(c)
          /\ UNCHANGED <<holds, entries>>
       \/ /\ ~AtLimit(c)
          /\ hosts # 0
          /\ Acquire(c)
          /\ phase' = [phase EXCEPT ![c] = "acquired"]
          /\ UNCHANGED chan
       \/ /\ ~AtLimit(c)
          /\ hosts = 0
          /\ phase' = [phase EXCEPT ![c] = "creating"]
          /\ UNCHANGED <<chan, holds, entries>>
    /\ UNCHANGED <<hosts, sessions, server>>

(* createFileExplorerHost answered: its entry takes the export's slot.  A   *)
(* failure is an unhandled rejection; the connection gets no answer.        *)
HostCreated(c) ==
    /\ phase[c] = "creating"
    /\ entries' = Append(entries, [count |-> 1, lease |-> FALSE, alive |-> TRUE])
    /\ hosts' = Len(entries) + 1
    /\ holds' = [holds EXCEPT ![c] = Len(entries) + 1]
    /\ phase' = [phase EXCEPT ![c] = "acquired"]
    /\ UNCHANGED <<chan, sessions, server>>

CreateFails(c) ==
    /\ phase[c] = "creating"
    /\ phase' = [phase EXCEPT ![c] = "over"]
    /\ UNCHANGED <<chan, holds, entries, hosts, sessions, server>>

(* The rest of openWorkspace: a disposed host refuses the channel; any      *)
(* other takes it, open or closed, and the session is listed.               *)
Attach(c) ==
    /\ phase[c] = "acquired"
    /\ \/ /\ ~entries[holds[c]].alive
          /\ phase' = [phase EXCEPT ![c] = "over"]
          /\ UNCHANGED sessions
       \/ /\ entries[holds[c]].alive
          /\ phase' = [phase EXCEPT ![c] = "attached"]
          /\ sessions' = sessions \cup {c}
    /\ UNCHANGED <<chan, holds, entries, hosts, server>>

(* The channel's close event, whoever closed it: the peer, the idle timeout *)
(* of the heartbeat or the transport.  The session of an attached           *)
(* connection ends; an open that is still under way is not told.            *)
ChannelCloseUnreleased(c) ==
    /\ Quiet
    /\ chan[c]
    /\ chan' = [chan EXCEPT ![c] = FALSE]
    /\ phase' = [phase EXCEPT ![c] = IF @ = "waiting" THEN "over" ELSE @]
    /\ sessions' = sessions \ {c}
    /\ UNCHANGED <<holds, entries, hosts, server>>

ChannelClose(c) ==
    /\ Quiet
    /\ chan[c]
    /\ chan' = [chan EXCEPT ![c] = FALSE]
    /\ phase' = [phase EXCEPT ![c] = IF @ = "waiting" THEN "over" ELSE @]
    /\ IF c \in sessions
       THEN /\ sessions' = sessions \ {c}
            /\ ReleaseHost(holds[c])
       ELSE UNCHANGED <<sessions, entries>>
    /\ UNCHANGED <<holds, hosts, server>>

(* close(), up to its first await, once the listener closed, and once the   *)
(* cached host is disposed.                                                 *)
Close ==
    /\ Quiet
    /\ server = "up"
    /\ server' = "closing"
    /\ UNCHANGED <<phase, chan, holds, entries, hosts, sessions>>

ListenerClosed ==
    /\ Quiet
    /\ server = "closing"
    /\ server' = "draining"
    /\ chan' = [c \in Conns |-> chan[c] /\ c \notin sessions]
    /\ sessions' = {}
    /\ entries' = [e \in DOMAIN entries |->
                     IF e = hosts THEN [entries[e] EXCEPT !.lease = FALSE, !.alive = FALSE]
                                  ELSE entries[e]]
    /\ UNCHANGED <<phase, holds, hosts>>

Closed ==
    /\ server = "draining"
    /\ server' = "down"
    /\ hosts' = 0
    /\ UNCHANGED <<phase, chan, holds, entries, sessions>>

Next ==
    \/ \E c \in Conns :
          \/ Connect(c) \/ OpenTimeout(c) \/ OpenWorkspace(c) \/ Authorized(c)
          \/ HostCreated(c) \/ CreateFails(c) \/ Attach(c) \/ ChannelClose(c)
    \/ \E e \in DOMAIN entries : LeaseExpires(e)
    \/ Close \/ ListenerClosed \/ Closed

(* Timers fire and promise continuations run.  A channel need not close,    *)
(* and nobody need close the server.                                        *)
Fairness ==
    /\ \A c \in Conns : WF_vars(Attach(c)) /\ WF_vars(OpenTimeout(c))
    /\ WF_vars(ListenerClosed) /\ WF_vars(Closed)
    /\ \A e \in 1..Cardinality(Conns) : WF_vars(e \in DOMAIN entries /\ LeaseExpires(e))

Spec == Init /\ [][Next]_vars
FairSpec == Spec /\ Fairness

-----------------------------------------------------------------------------
(* A session works on a live host for as long as the server is up: no lease *)
(* and no other entry's timer takes the host away from under it, and an     *)
(* open that acquired a host never finds it disposed.                       *)
HostInUseIsAlive ==
    \A c \in Conns :
       (server = "up" /\ (c \in sessions \/ phase[c] = "acquired"))
          => entries[holds[c]].alive

(* Every host that nobody holds is on its way out: while the server is up a *)
(* live entry has a holder or a running lease, so hosts do not pile up.     *)
IdleHostIsLeased ==
    \A e \in DOMAIN entries :
       (server = "up" /\ entries[e].alive)
          => \/ entries[e].lease
             \/ \E c \in Conns : holds[c] = e /\ (c \in sessions \/ phase[c] = "acquired")

(* ServeMilleOptions.hostIdleTimeoutMs: how long an idle host stays alive   *)
(* after its last session.                                                  *)
HostEndsAfterLastSession ==
    \A e \in 1..Cardinality(Conns) :
       LET idle == /\ e \in DOMAIN entries
                   /\ entries[e].alive
                   /\ \A c \in Conns : holds[c] = e => ~chan[c]
       IN idle ~> ~idle

(* MilleExportConfig.maxSessions: concurrent sessions for this export. *)
SessionsWithinLimit == Cardinality(sessions) <= MaxSessions
=============================================================================
