----------------------------- MODULE MCSessions -----------------------------
(***************************************************************************)
(* One run for four small components that answer requests: the remote      *)
(* session protocol, mille-truffle's server and client, the read boundary. *)
(* `part` is drawn once; that component runs under its own specification   *)
(* and the others stay in an initial state, so the states are the sum of   *)
(* the components' states.  The client is this module's own: its variables  *)
(* and its constant keep their names.                                      *)
(***************************************************************************)
EXTENDS TruffleClient, Sequences

CONSTANTS MaxFrames, MaxPings,                          \* RemoteSession
          Conns, Peer, MaxSessions, MaxPerPeer,         \* TruffleServer
          MaxRequests, Paths, Below, Concurrency, MaxStuck,
          MaxTicks, MaxSpawnFails                       \* ReadBoundary

(* 0 stands for no path; a path starts with itself. *)
ASSUME ReadsAssumption ==
    /\ MaxRequests \in Nat /\ Concurrency \in Nat /\ MaxStuck \in Nat
    /\ 0 \notin Paths /\ \A p \in Paths : p \in Below[p]

VARIABLES
    part,
    \* RemoteSession
    rsState, openSeen, verdict, refusal, session, access, opened, quiet, pings,
    heard, request, outcome, reported, frames, toServer, toClient, rsUp, why, granted,
    \* TruffleServer
    phase, chan, holds, entries, hosts, sessions, server,
    \* ReadBoundary
    path, ticket, rbRequest, finished, late, flights, rbQueue, helper, reading,
    closing, rbClosed, ticks, spawnFails

remote == <<rsState, openSeen, verdict, refusal, session, access, opened, quiet,
            pings, heard, request, outcome, reported, frames, toServer, toClient,
            rsUp, why, granted>>
serving == <<phase, chan, holds, entries, hosts, sessions, server>>
dialling == vars
reads == <<path, ticket, rbRequest, finished, late, flights, rbQueue, helper,
           reading, closing, rbClosed, ticks, spawnFails>>
allVars == <<part, remote, serving, dialling, reads>>

Remote == INSTANCE RemoteSession WITH state <- rsState, up <- rsUp

(* Two sockets of one peer and one of another, with room for two sessions. *)
Server == INSTANCE TruffleServer
MCPeer == [c \in 1..3 |-> IF c = 3 THEN 2 ELSE 1]

(* Path 2 is a directory inside path 1. *)
Reads == INSTANCE ReadBoundary WITH
    request <- rbRequest, queue <- rbQueue, closed <- rbClosed
MCBelow == [p \in {1, 2} |-> 1..p]

SessionsInit ==
    /\ part \in {"remote", "server", "dialler", "reads"}
    /\ Remote!Init /\ Server!Init /\ Init /\ Reads!Init
    /\ part # "remote" => request = [access |-> "read-only", valid |-> TRUE]
    /\ part # "dialler" => /\ options = [reconnect |-> TRUE, retryServerShutdown |-> TRUE]
                           /\ ~aborted /\ step[1] = "dial"

SessionsNext ==
    \/ part = "remote" /\ Remote!Next /\ UNCHANGED <<part, serving, dialling, reads>>
    \/ part = "server" /\ Server!Next /\ UNCHANGED <<part, remote, dialling, reads>>
    \/ part = "dialler" /\ Next /\ UNCHANGED <<part, remote, serving, reads>>
    \/ part = "reads" /\ Reads!Next /\ UNCHANGED <<part, remote, serving, dialling>>

(* The fairness of the component that runs, as its module states it. *)
SessionsFairness ==
    /\ WF_remote(part = "remote" /\ Remote!ServerReceive)
    /\ WF_remote(part = "remote" /\ Remote!ServerHearsClose)
    /\ WF_remote(part = "remote" /\ Remote!OpenTimeout)
    /\ WF_remote(part = "remote" /\ Remote!ClientReceive)
    /\ WF_remote(part = "remote" /\ Remote!ClientHearsClose)
    /\ WF_remote(part = "remote" /\ Remote!GiveUp)
    /\ \A c \in Conns :
         /\ WF_serving(part = "server" /\ Server!Attach(c))
         /\ WF_serving(part = "server" /\ Server!OpenTimeout(c))
    /\ WF_serving(part = "server" /\ Server!ListenerClosed)
    /\ WF_serving(part = "server" /\ Server!Closed)
    /\ \A e \in 1..Cardinality(Conns) :
         WF_serving(part = "server" /\ e \in DOMAIN entries /\ Server!LeaseExpires(e))
    /\ \A a \in Attempts :
         /\ WF_dialling(part = "dialler" /\ AttemptConnect(a))
         /\ WF_dialling(part = "dialler" /\ aborted /\ Dial(a))
         /\ WF_dialling(part = "dialler" /\ OpenReply(a))
         /\ WF_dialling(part = "dialler" /\ Handshake(a))
         /\ WF_dialling(part = "dialler" /\ Adopt(a))
    /\ \A r \in Reads!Requests :
         /\ WF_reads(part = "reads" /\ Reads!Wait(r))
         /\ WF_reads(part = "reads" /\ Reads!Stall(r))
    /\ \A h \in Reads!Helpers :
         /\ WF_reads(part = "reads" /\ Reads!Look(h))
         /\ WF_reads(part = "reads" /\ Reads!Expire(h))
    /\ WF_reads(part = "reads" /\ Reads!CloseLocked)

SessionsSpec == SessionsInit /\ [][SessionsNext]_allVars /\ SessionsFairness

-----------------------------------------------------------------------------
(* serveRemoteSession: a host session exists only by grant, runs read-only  *)
(* if that was asked and else exactly as granted, and ends with its         *)
(* channel; a client told "accepted" runs against that very session, and    *)
(* may write there if and only if it asked to.                              *)
RemoteSessionIsGranted ==
    Remote!AttachedByGrant /\ Remote!AttachedIsUp /\ Remote!AcceptedIsOpened

(* Besides, every remote open settles at the client though authorize may   *)
(* never answer, and a client that gave up leaves no host session behind.  *)
RemoteOpenIsSound ==
    /\ []RemoteSessionIsGranted
    /\ (part = "remote" /\ outcome = "pending") ~> (outcome # "pending")
    /\ Remote!NoOrphanSession

(* serveMille: a session's host is alive, and a host nobody holds has its  *)
(* lease running, whatever the order of opens, closes, timers, failures.   *)
HostFollowsItsSessions == Server!HostInUseIsAlive /\ Server!IdleHostIsLeased

(* ReadBoundary: a call in the kernel is the registered one of its path,    *)
(* and no read is queued while a helper could be had for it.                *)
PoolIsAttended == Reads!CallIsRegistered /\ Reads!QueueIsAttended

(* Besides, every request is answered though the kernel may never return,   *)
(* and after close the helpers outside the kernel go away.                  *)
ReadsAreAttended == []PoolIsAttended /\ Reads!NobodyWaitsForTheKernel

(* Statements of the docs that the model refutes (SessionsRefuted.cfg): the  *)
(* `opened` promise settles; an export has at most maxSessions sessions and  *)
(* its host ends after the last one.  TruffleClient states the client's.     *)
OpenedSettles == (part = "remote" /\ rsState = "closed") ~> (opened # "pending")
SessionsWithinLimit == Server!SessionsWithinLimit
HostEndsAfterLastSession == part = "server" => Server!HostEndsAfterLastSession
=============================================================================
