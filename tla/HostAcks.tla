------------------------------ MODULE HostAcks ------------------------------
(***************************************************************************)
(* Mutations, calls and synchronization points of the host                 *)
(* (packages/mille/src/host.ts), with the native store's versions below    *)
(* them (crates/mille-core/src/store.rs) and the clients' mirrors above    *)
(* (packages/mille/src/client-port.ts).                                    *)
(*                                                                         *)
(* A request runs against the native tree on a worker thread, which        *)
(* publishes a new tree version and then records it in the pending         *)
(* ChangeSet.  The host's tick drains that set and posts a delta to every  *)
(* session.  A request ends with flushTickAcked: a tick whose deltas ask   *)
(* for an acknowledgement, and a wait until every session that can answer  *)
(* has; only then is the result sent.  Mutations run one at a time on the  *)
(* mutation queue; calls (resync, updateWorkspaceRoots...) do not queue.   *)
(*                                                                         *)
(* Abstractions.  A delta is the version it brings a mirror to; what it    *)
(* holds is modelled in DirectoryLoads.  A session's root list changes     *)
(* only with the ChangeSet; markers and decorations, which ride the same   *)
(* deltas, matter here only as the marker a resync ends with.  The two     *)
(* ends of a channel that closes learn of it independently, and what was   *)
(* under way on it is lost.                                                *)
(***************************************************************************)
EXTENDS Integers, Sequences, FiniteSets, SequencesExt

CONSTANTS
  Sessions,      \* sessions that may attach
  Early,         \* those that have attached and handshaken at the start
  VersionOnly,   \* those whose client acknowledges versions, without an id
  Jobs,          \* requests the clients make
  Owner,         \* job -> the session that makes it
  Calls,         \* jobs that are calls; the others are mutations
  Resyncs,       \* calls that resync, and end with a marker
  Fragile,       \* sessions whose channel may close or refuse a frame
  MaxExternal    \* bound: changes to the tree that no request made

ASSUME SessionAssumption ==
  /\ IsFiniteSet(Sessions) /\ IsFiniteSet(Jobs)
  /\ Early \subseteq Sessions /\ VersionOnly \subseteq Sessions /\ Fragile \subseteq Sessions 
  /\ Calls \subseteq Jobs /\ Resyncs \subseteq Calls
  /\ Owner \in [Jobs -> Sessions]
ASSUME AckBoundAssumption == MaxExternal \in Nat

VARIABLES
  version,     \* tree version published
  recorded,    \* version recorded in the ChangeSet; below version while a writer is between the two
  drained,     \* version the last non-empty ChangeSet that was taken went up to
  session,     \* the host's record of a session
  down,        \* session -> frames on their way to its client
  upward,      \* session -> frames on their way to the host
  mirror,      \* session -> treeVersion of its client's mirror, -1 before the snapshot
  held,        \* session -> version whose changes the mirror holds
  nextAckId,
  queue,       \* mutationQueue: mutations not yet finished
  job,         \* the request as the host runs it
  caller       \* job -> the promise its client holds

vars == <<version, recorded, drained, session, down, upward, mirror, held,
          nextAckId, queue, job, caller>>

MaxVersion == MaxExternal + Cardinality(Jobs)
Versions == -1..MaxVersion
AckIds   == 0..(Cardinality(Jobs) + 1)
NoId     == -1                          \* ackedId undefined

SessionRecords ==
  [state : {"new", "attached", "handshook", "gone"},
   ackedVersion : Versions, ackedId : AckIds \cup {NoId}, capable : BOOLEAN,
   owned : SUBSET Jobs]
JobRecords ==
  [phase : {"idle", "queued", "native", "landed", "waiting", "yielding", "done"},
   landed : Versions,                   \* version its change was published at
   ackId : AckIds, target : Versions,   \* what it waits for, and
   asked : SUBSET Sessions,             \* of whom
   confirmed : SUBSET Sessions]         \* those it counted as caught up
DownFrames ==
  [kind : {"snapshot", "delta"}, version : Versions, holds : Versions, ackId : AckIds]
    \cup [kind : {"result"}, job : Jobs]
UpFrames ==
  [kind : {"handshake", "dispose"}] \cup [kind : {"request"}, job : Jobs]
    \cup [kind : {"ack"}, version : Versions, ackId : AckIds]

TypeOK ==
  /\ version \in 0..MaxVersion /\ recorded \in 0..version /\ drained \in 0..recorded
  /\ session \in [Sessions -> SessionRecords]
  /\ down \in [Sessions -> Seq(DownFrames)]
  /\ upward \in [Sessions -> Seq(UpFrames)]
  /\ mirror \in [Sessions -> Versions] /\ held \in [Sessions -> Versions]
  /\ nextAckId \in AckIds \ {0}
  /\ queue \in Seq(Jobs) /\ IsInjective(queue)
  /\ job \in [Jobs -> JobRecords]
  /\ caller \in [Jobs -> {"none", "pending", "resolved", "rejected"}]

Open(s)   == session[s].state \in {"attached", "handshook"}
Live      == {s \in Sessions : session[s].state = "handshook"}
Writing   == recorded < version
Disposed(s) == \E i \in DOMAIN upward[s] : upward[s][i].kind = "dispose"
-----------------------------------------------------------------------------
(* The native store. *)

\* A writer publishes the next snapshot under the write lock.
Publish == ~Writing /\ version' = version + 1 /\ UNCHANGED recorded

\* Mutant: the ChangeSet is stamped one version ahead.
RecordAhead ==
  /\ Writing
  /\ recorded' = version + 1
  /\ UNCHANGED <<version, drained, session, down, upward, mirror, held, nextAckId,
                 queue, job, caller>>

\* record_mutation: the end of the writer's critical section.
Record ==
  /\ Writing
  /\ recorded' = version
  /\ UNCHANGED <<version, drained, session, down, upward, mirror, held, nextAckId,
                 queue, job, caller>>

\* The watcher, a walk, or the host's own process changes the tree; the
\* bound lets it only before the requests' own changes.
External ==
  /\ version < MaxExternal
  /\ Publish
  /\ UNCHANGED <<drained, session, down, upward, mirror, held, nextAckId,
                 queue, job, caller>>
-----------------------------------------------------------------------------
(* Fan-out. *)

\* detachSession: the listeners and the channel go, the claims with them.
Detached(S, gone) ==
  [s \in Sessions |-> IF s \in gone THEN [S[s] EXCEPT !.state = "gone", !.owned = {}] ELSE S[s]]

\* Mutant: a delta reports the version the tree is at by now.
DeltasOverstated(ackId, marked) ==
  LET delta(v, id) == [kind |-> "delta", version |-> version, holds |-> v, ackId |-> id]
      fresh(id) == IF drained < recorded THEN <<delta(recorded, id)>> ELSE <<>>
  IN  IF marked THEN fresh(0) \o <<delta(0, ackId)>> ELSE fresh(ackId)

\* tick: take the ChangeSet and post one delta per session, asking for an
\* acknowledgement of ackId unless that is 0.  A resync ticks first without
\* asking; its marker then rides a delta of its own, whose ChangeSet is empty
\* and has version 0.  A channel that refuses a frame is detached.
Changed == drained < recorded
Deltas(ackId, marked) ==
  LET delta(v, id) == [kind |-> "delta", version |-> v, holds |-> v, ackId |-> id]
      fresh(id) == IF Changed THEN <<delta(recorded, id)>> ELSE <<>>
  IN  IF marked THEN fresh(0) \o <<delta(0, ackId)>> ELSE fresh(ackId)

TickSends(ackId, marked, refusing) ==
  LET frames == Deltas(ackId, marked)
  IN  /\ refusing = {} \/ frames # <<>>
      /\ drained' = IF \E s \in Sessions : Open(s) THEN recorded ELSE drained
      /\ down' = [s \in Sessions |-> IF s \in refusing THEN <<>>
                                     ELSE IF s \in Live THEN down[s] \o frames ELSE down[s]]
      /\ upward' = [s \in Sessions |-> IF s \in refusing THEN <<>> ELSE upward[s]]

\* The interval's tick.
Tick ==
  \E refusing \in SUBSET (Live \cap Fragile) :
    /\ Changed /\ \E s \in Sessions : Open(s)
    /\ TickSends(0, FALSE, refusing)
    /\ session' = Detached(session, refusing)
    /\ UNCHANGED <<version, recorded, mirror, held, nextAckId, queue, job, caller>>

\* The sessions a synchronization point still waits for.
Pending(S, r) ==
  {s \in r.asked :
     /\ S[s].state \in {"attached", "handshook"} /\ S[s].capable
     /\ S[s].ackedVersion < r.target \/ (S[s].ackedId # NoId /\ S[s].ackedId < r.ackId)}

\* Those it may take to have applied its delta.
Believed(S, r) == {s \in r.asked : S[s].state = "handshook" /\ S[s].capable}

Satisfied(S, r) ==
  IF Pending(S, r) # {} THEN r
  ELSE [r EXCEPT !.phase = "yielding", !.confirmed = Believed(S, r)]

\* flushTickAcked: post, and unless nothing was posted wait for what is now
\* the tree's version.  With nobody attached it is flushTickNow.
Flush(j) ==
  \E refusing \in SUBSET (Live \cap Fragile) :
    /\ job[j].phase = "landed" /\ recorded >= job[j].landed
    /\ TickSends(IF Live = {} THEN 0 ELSE nextAckId, j \in Resyncs, refusing)
    /\ session' = Detached(session, refusing)
    /\ nextAckId' = IF Live = {} THEN nextAckId ELSE nextAckId + 1
    /\ job' = [job EXCEPT ![j] =
         IF Live = {} \/ Deltas(0, j \in Resyncs) = <<>> THEN [@ EXCEPT !.phase = "yielding"]
         ELSE Satisfied(session',
                [@ EXCEPT !.phase = "waiting", !.ackId = nextAckId, !.target = version,
                          !.asked = Live])]
    /\ UNCHANGED <<version, recorded, mirror, held, queue, caller>>

\* Mutant: the timer only looks again.
GiveUpNever(j) ==
  /\ job[j].phase = "waiting" /\ Pending(session, job[j]) = {}
  /\ job' = [job EXCEPT ![j] = Satisfied(session, @)]
  /\ UNCHANGED <<version, recorded, drained, session, down, upward, mirror, held, nextAckId,
                 queue, caller>>

\* giveUp: whoever is outstanding is not waited for again until it answers.
GiveUp(j) ==
  /\ job[j].phase = "waiting"
  /\ LET S == [s \in Sessions |-> IF s \in Pending(session, job[j])
                                  THEN [session[s] EXCEPT !.capable = FALSE] ELSE session[s]]
     IN  /\ session' = S
         /\ job' = [job EXCEPT ![j] = Satisfied(S, @)]
  /\ UNCHANGED <<version, recorded, drained, down, upward, mirror, held, nextAckId,
                 queue, caller>>
-----------------------------------------------------------------------------
(* Requests. *)

\* mutate and call: once the client has its snapshot.
Request(j) ==
  LET s == Owner[j]
  IN  /\ caller[j] = "none" /\ mirror[s] >= 0 /\ session[s].state # "gone" /\ ~Disposed(s)
      /\ caller' = [caller EXCEPT ![j] = "pending"]
      /\ upward' = [upward EXCEPT ![s] = Append(@, [kind |-> "request", job |-> j])]
      /\ UNCHANGED <<version, recorded, drained, session, down, mirror, held, nextAckId,
                     queue, job>>

\* claimOperation: ids are claimed one mutation at a time, so neither another
\* session's claim nor the budget of claims can refuse one.
Claimed(s, j) == [session EXCEPT ![s].owned = @ \cup {j}]

\* The head of the mutation queue is authorized, claims its operation id and
\* is dispatched; if it is refused it goes on to the flush of the catch block.
Dispatch(j) ==
  /\ job[j].phase = "queued" /\ Head(queue) = j
  /\ \/ job' = [job EXCEPT ![j].phase = "native"] /\ session' = Claimed(Owner[j], j)
     \/ job' = [job EXCEPT ![j].phase = "landed"] /\ UNCHANGED session
  /\ UNCHANGED <<version, recorded, drained, down, upward, mirror, held, nextAckId,
                 queue, caller>>

\* The native operation published a change, or it changed nothing.
Landing(j) ==
  /\ job[j].phase = "native"
  /\ \/ Publish /\ job' = [job EXCEPT ![j].phase = "landed", ![j].landed = version + 1]
     \/ UNCHANGED <<version, recorded>> /\ job' = [job EXCEPT ![j].phase = "landed"]
  /\ UNCHANGED <<drained, session, down, upward, mirror, held, nextAckId, queue, caller>>

\* dispatchMutation: one that fails flushes like one that does not.
LandMutation(j) == j \notin Calls /\ Landing(j)

\* dispatchCall: one that fails is answered at once.
LandCall(j) ==
  /\ j \in Calls
  /\ \/ Landing(j)
     \/ /\ job[j].phase = "native"
        /\ job' = [job EXCEPT ![j].phase = "yielding"]
        /\ UNCHANGED <<version, recorded, drained, session, down, upward, mirror, held,
                       nextAckId, queue, caller>>

\* OP_COMPLETE or OP_CANCELLED releases the claim of a live owner early.
Terminal(j) ==
  LET s == Owner[j]
  IN  /\ job[j].phase = "native" /\ Open(s) /\ j \in session[s].owned
      /\ session' = [session EXCEPT ![s].owned = @ \ {j}]
      /\ UNCHANGED <<version, recorded, drained, down, upward, mirror, held, nextAckId,
                     queue, job, caller>>

\* The result or the error goes to the initiator.
Answered(j) ==
  LET s == Owner[j]
  IN  /\ job[j].phase = "yielding"
      /\ job' = [job EXCEPT ![j].phase = "done"]
      /\ down' = [down EXCEPT ![s] = IF Open(s) THEN Append(@, [kind |-> "result", job |-> j])
                                     ELSE @]
      /\ UNCHANGED <<version, recorded, drained, upward, mirror, held, nextAckId, caller>>

\* Mutant: the claim is left to OP_COMPLETE.
ReplyMutationKeepingClaim(j) ==
  /\ j \notin Calls /\ Answered(j)
  /\ queue' = Tail(queue)
  /\ UNCHANGED session

\* The claim is released and the next mutation starts.
ReplyMutation(j) ==
  /\ j \notin Calls /\ Answered(j)
  /\ queue' = Tail(queue)
  /\ session' = [session EXCEPT ![Owner[j]].owned = @ \ {j}]

ReplyCall(j) == j \in Calls /\ Answered(j) /\ UNCHANGED <<queue, session>>
-----------------------------------------------------------------------------
(* handleMessage *)

HandleHandshake(s, rest) ==
  /\ session' = [session EXCEPT ![s].state = "handshook"]
  /\ down' = [down EXCEPT ![s] =
       Append(@, [kind |-> "snapshot", version |-> version, holds |-> version, ackId |-> 0])]
  /\ upward' = [upward EXCEPT ![s] = rest]
  /\ UNCHANGED <<queue, job>>

\* A mutation joins the queue; a call is dispatched at once.
HandleRequest(s, j, rest) ==
  /\ queue' = IF j \in Calls THEN queue ELSE Append(queue, j)
  /\ job' = [job EXCEPT ![j].phase = IF j \in Calls THEN "native" ELSE "queued"]
  /\ upward' = [upward EXCEPT ![s] = rest]
  /\ UNCHANGED <<session, down>>

\* An acknowledgement restores the session's standing and wakes the waiters.
HandleAck(s, f, rest) ==
  LET old == session[s]
      id == old.ackedId
      S == [session EXCEPT ![s] = [old EXCEPT
              !.capable = TRUE,
              !.ackedVersion = IF f.version > old.ackedVersion THEN f.version
                               ELSE old.ackedVersion,
              !.ackedId = IF f.ackId > 0 THEN (IF f.ackId > id THEN f.ackId ELSE id)
                          ELSE IF id = 0 THEN NoId ELSE id]]
  IN  /\ session' = S
      /\ job' = [j \in Jobs |->
           IF job[j].phase = "waiting" THEN Satisfied(S, job[j]) ELSE job[j]]
      /\ upward' = [upward EXCEPT ![s] = rest]
      /\ UNCHANGED <<down, queue>>

\* The client's dispose.  Waiters are not told.
HandleDispose(s) ==
  /\ session' = Detached(session, {s})
  /\ down' = [down EXCEPT ![s] = <<>>]
  /\ upward' = [upward EXCEPT ![s] = <<>>]
  /\ UNCHANGED <<queue, job>>

Handle(s) ==
  /\ Open(s) /\ upward[s] # <<>>
  /\ LET f == Head(upward[s])
         rest == Tail(upward[s])
     IN  \/ f.kind = "handshake" /\ HandleHandshake(s, rest)
         \/ f.kind = "request" /\ HandleRequest(s, f.job, rest)
         \/ f.kind = "ack" /\ HandleAck(s, f, rest)
         \/ f.kind = "dispose" /\ HandleDispose(s)
  /\ UNCHANGED <<version, recorded, drained, mirror, held, nextAckId, caller>>
-----------------------------------------------------------------------------
(* Channels and clients. *)

\* attachChannel, and the client's handshake on the new channel.
Attach(s) ==
  /\ session[s].state = "new"
  /\ session' = [session EXCEPT ![s].state = "attached"]
  /\ upward' = [upward EXCEPT ![s] = <<[kind |-> "handshake"]>>]
  /\ UNCHANGED <<version, recorded, drained, down, mirror, held, nextAckId, queue, job,
                 caller>>

\* The channel dies: the host detaches the session.
Break(s) ==
  /\ Open(s) /\ s \in Fragile
  /\ session' = Detached(session, {s})
  /\ down' = [down EXCEPT ![s] = <<>>]
  /\ upward' = [upward EXCEPT ![s] = <<>>]
  /\ UNCHANGED <<version, recorded, drained, mirror, held, nextAckId, queue, job, caller>>

Rejected(s) == [j \in Jobs |-> IF Owner[j] = s /\ caller[j] = "pending" THEN "rejected"
                               ELSE caller[j]]

\* handleChannelClose: the client hears of it and fails what is in flight.
HearClose(s) ==
  /\ session[s].state = "gone" /\ \E j \in Jobs : Owner[j] = s /\ caller[j] = "pending"
  /\ caller' = Rejected(s)
  /\ UNCHANGED <<version, recorded, drained, session, down, upward, mirror, held, nextAckId,
                 queue, job>>

\* The client disposes of its explorer; nothing it made is answered any more.
Dispose(s) ==
  /\ Open(s) /\ mirror[s] >= 0 /\ s \in Fragile
  /\ ~Disposed(s)
  /\ upward' = [upward EXCEPT ![s] = Append(@, [kind |-> "dispose"])]
  /\ down' = [down EXCEPT ![s] = <<>>]
  /\ caller' = Rejected(s)
  /\ UNCHANGED <<version, recorded, drained, session, mirror, held, nextAckId, queue, job>>

\* Mutant: the mirror takes a delta's version as it is.
ReceiveRegressing(s) ==
  /\ down[s] # <<>> /\ ~Disposed(s) /\ Head(down[s]).kind # "result"
  /\ LET f == Head(down[s])
     IN  /\ mirror' = [mirror EXCEPT ![s] = f.version]
         /\ held' = [held EXCEPT ![s] = f.holds]
         /\ upward' = [upward EXCEPT ![s] = IF f.ackId = 0 THEN @
              ELSE Append(@, [kind |-> "ack", version |-> f.version, ackId |-> f.ackId])]
  /\ down' = [down EXCEPT ![s] = Tail(@)]
  /\ UNCHANGED <<version, recorded, drained, session, nextAckId, queue, job, caller>>

\* A snapshot or a delta is applied, and then acknowledged if that was asked.
Receive(s) ==
  /\ down[s] # <<>> /\ ~Disposed(s) /\ Head(down[s]).kind # "result"
  /\ LET f == Head(down[s])
         v == IF f.version > mirror[s] THEN f.version ELSE mirror[s]
     IN  /\ mirror' = [mirror EXCEPT ![s] = v]
         /\ held' = [held EXCEPT ![s] = IF f.holds > @ THEN f.holds ELSE @]
         /\ upward' = [upward EXCEPT ![s] = IF f.ackId = 0 THEN @
              ELSE Append(@, [kind |-> "ack", version |-> v,
                              ackId |-> IF s \in VersionOnly THEN 0 ELSE f.ackId])]
  /\ down' = [down EXCEPT ![s] = Tail(@)]
  /\ UNCHANGED <<version, recorded, drained, session, nextAckId, queue, job, caller>>

\* handleResult
ReceiveResult(s) ==
  /\ down[s] # <<>> /\ ~Disposed(s) /\ Head(down[s]).kind = "result"
  /\ caller' = [caller EXCEPT ![Head(down[s]).job] = IF @ = "pending" THEN "resolved" ELSE @]
  /\ down' = [down EXCEPT ![s] = Tail(@)]
  /\ UNCHANGED <<version, recorded, drained, session, upward, mirror, held, nextAckId,
                 queue, job>>
-----------------------------------------------------------------------------
Init ==
  /\ version = 0 /\ recorded = 0 /\ drained = 0
  /\ session = [s \in Sessions |->
       [state |-> IF s \in Early THEN "handshook" ELSE "new", ackedVersion |-> -1, ackedId |-> 0,
        capable |-> TRUE, owned |-> {}]]
  /\ down = [s \in Sessions |-> <<>>] /\ upward = [s \in Sessions |-> <<>>]
  /\ mirror = [s \in Sessions |-> IF s \in Early THEN 0 ELSE -1] /\ held = mirror
  /\ nextAckId = 1 /\ queue = <<>>
  /\ job = [j \in Jobs |-> [phase |-> "idle", landed |-> -1, ackId |-> 0, target |-> -1,
                            asked |-> {}, confirmed |-> {}]]
  /\ caller = [j \in Jobs |-> "none"]

Run(j) == \/ Dispatch(j) \/ LandMutation(j) \/ LandCall(j) \/ Flush(j)
          \/ ReplyMutation(j) \/ ReplyCall(j)

Next ==
  \/ Record \/ External \/ Tick
  \/ \E j \in Jobs : Request(j) \/ Run(j) \/ Terminal(j) \/ GiveUp(j)
  \/ \E s \in Sessions : \/ Attach(s) \/ Handle(s) \/ Receive(s) \/ ReceiveResult(s)
                         \/ Break(s) \/ HearClose(s) \/ Dispose(s)

\* A writer leaves its critical section; the host's loop runs its interval,
\* its timers and what is queued on it; native work ends; channels deliver.
Fairness ==
  /\ WF_vars(Record) /\ WF_vars(Tick)
  /\ \A j \in Jobs : WF_vars(Run(j)) /\ WF_vars(GiveUp(j))
  /\ \A s \in Sessions : /\ WF_vars(Handle(s)) /\ WF_vars(HearClose(s))
                         /\ WF_vars(Receive(s)) /\ WF_vars(ReceiveResult(s))

Spec == Init /\ [][Next]_vars
FairSpec == Spec /\ Fairness
-----------------------------------------------------------------------------
(* Properties. *)

\* A session that a synchronization point counted as caught up when its wait
\* ended has the request's change in its mirror: versions acknowledged,
\* targets and ids of overlapping waits cannot be taken for one another
\* (flushTickAcked, "wait until every handshaked session confirms").
ConfirmedMeansApplied ==
  \A j \in Jobs : \A s \in job[j].confirmed : held[s] >= job[j].landed

\* An operation id is owned only while the mutation that claimed it runs,
\* whatever became of its session meanwhile: a claim that outlived it would
\* deny the id and eat the session's budget (handleMutate, finally).
ClaimIsRunning ==
  \A s \in Sessions : \A j \in session[s].owned :
    queue # <<>> /\ Head(queue) = j /\ Owner[j] = s

\* Every request is answered or fails: no wait, no detached session and no
\* failed operation holds up the mutation queue for good.
RequestSettles == \A j \in Jobs : caller[j] = "pending" ~> caller[j] # "pending"

\* A session that stays ends up with the tree's version in its mirror,
\* whenever it attached and whoever drained the changes.
MirrorCatchesUp ==
  \A s \in Sessions : <>[](session[s].state = "handshook" => held[s] = version)

\* A change is in every capable session's mirror before its initiator sees
\* the result, unless the wait for it ended by giving up ("a remote session
\* observes the state change before the initiator's own resolve", host.ts).
SeenBeforeResolved ==
  \A j \in Jobs \ Calls :
    /\ caller[j] = "resolved"
    /\ \A s \in job[j].asked : s \in job[j].confirmed \/ session[s].state = "gone"
    => \A s \in Live : session[s].capable /\ mirror[s] >= 0 => held[s] >= job[j].landed

\* Only a session that has not answered the request is written off ("Whoever
\* is still outstanding just demonstrated it does not answer", giveUp).
OnlyTheSilentAreWrittenOff ==
  [][\A j \in Jobs, s \in Sessions :
       GiveUp(j) /\ session[s].capable /\ ~session'[s].capable =>
         session[s].ackedId # NoId /\ session[s].ackedId < job[j].ackId]_vars
=============================================================================
