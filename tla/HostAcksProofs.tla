---------------------------- MODULE HostAcksProofs ----------------------------
(***************************************************************************)
(* Proofs about HostAcks for any sets of sessions, requests and calls, any *)
(* owners, any channels that fail, and any number of foreign changes.  Inv *)
(* is the inductive invariant; the properties the runs check follow.       *)
(***************************************************************************)
EXTENDS HostAcks, TLAPS

(* The types, without the bounds that only TLC's instances need. *)
States  == {"new", "attached", "handshook", "gone"}
Running == {"native", "landed", "waiting", "yielding"}
Phases  == {"idle", "queued", "done"} \cup Running

Records ==
  [state : States, ackedVersion : Int, ackedId : Int, capable : BOOLEAN, owned : SUBSET Jobs]
Requested ==
  [phase : Phases, landed : Int, ackId : Int, target : Int, asked : SUBSET Sessions,
   confirmed : SUBSET Sessions]
Downward ==
  [kind : {"snapshot", "delta"}, version : Int, holds : Int, ackId : Int]
    \cup [kind : {"result"}, job : Jobs]
Upward ==
  [kind : {"handshake", "dispose"}] \cup [kind : {"request"}, job : Jobs]
    \cup [kind : {"ack"}, version : Int, ackId : Int]

Typed ==
  /\ version \in Nat /\ recorded \in Nat /\ drained \in Nat
  /\ recorded <= version /\ drained <= recorded
  /\ session \in [Sessions -> Records]
  /\ down \in [Sessions -> Seq(Downward)]
  /\ upward \in [Sessions -> Seq(Upward)]
  /\ mirror \in [Sessions -> Int] /\ held \in [Sessions -> Int]
  /\ nextAckId \in Nat
  /\ queue \in Seq(Jobs)
  /\ job \in [Jobs -> Requested]
  /\ caller \in [Jobs -> {"none", "pending", "resolved", "rejected"}]

\* The mutation queue holds each unfinished mutation once, and only its head
\* is past waiting its turn; a claim is the head's.
HeadRuns ==
  \A j \in Jobs \ Calls : job[j].phase \in Running => queue # <<>> /\ Head(queue) = j
QueuedIsInQueue ==
  \A j \in Jobs : job[j].phase = "queued" =>
    j \notin Calls /\ \E i \in 1..Len(queue) : queue[i] = j
QueueIsUnfinished ==
  \A i \in 1..Len(queue) :
    queue[i] \notin Calls /\ job[queue[i]].phase \in Running \cup {"queued"}
QueueIsDistinct ==
  \A i, k \in 1..Len(queue) : queue[i] = queue[k] => i = k

Queued == HeadRuns /\ QueuedIsInQueue /\ QueueIsUnfinished /\ QueueIsDistinct /\ ClaimIsRunning

\* A request is under way once, on its owner's channel, before the host
\* starts it.
NotMadeIsIdle == \A j \in Jobs : caller[j] = "none" => job[j].phase = "idle"
RequestIsFresh ==
  \A s \in Sessions : \A i \in 1..Len(upward[s]) :
    upward[s][i].kind = "request" =>
      LET j == upward[s][i].job
      IN  Owner[j] = s /\ job[j].phase = "idle" /\ caller[j] # "none"
RequestIsOnce ==
  \A s \in Sessions : \A i, k \in 1..Len(upward[s]) :
    /\ upward[s][i].kind = "request" /\ upward[s][k].kind = "request"
    /\ upward[s][i].job = upward[s][k].job
    => i = k

Requests == NotMadeIsIdle /\ RequestIsFresh /\ RequestIsOnce

\* What a client's mirror is labelled with is what it holds; what it has
\* acknowledged, it held.
LabelIsContent ==
  /\ mirror = held
  /\ \A s \in Sessions : \A i \in 1..Len(down[s]) :
       down[s][i].kind # "result" => down[s][i].version = down[s][i].holds
AckIsHeld ==
  \A s \in Sessions :
    /\ session[s].ackedVersion <= held[s]
    /\ \A i \in 1..Len(upward[s]) :
         upward[s][i].kind = "ack" => upward[s][i].version <= held[s]

\* A wait is for at least the request's own change, and counts nobody before
\* it ends.
WaitCovers ==
  \A j \in Jobs :
    /\ job[j].landed <= version
    /\ job[j].phase = "waiting" => job[j].landed <= job[j].target
    /\ job[j].phase \notin {"yielding", "done"} => job[j].confirmed = {}

Acknowledged == LabelIsContent /\ AckIsHeld /\ WaitCovers /\ ConfirmedMeansApplied

Inv == Typed /\ Queued /\ Requests /\ Acknowledged

-----------------------------------------------------------------------------
(* Frames. *)

\* The frames that go to the host, and what they carry.
LEMMA UpwardFrames ==
  /\ [kind |-> "handshake"] \in Upward /\ [kind |-> "dispose"] \in Upward
  /\ \A j \in Jobs : [kind |-> "request", job |-> j] \in Upward
  /\ \A v, id \in Int : [kind |-> "ack", version |-> v, ackId |-> id] \in Upward
  /\ \A f \in Upward : f.kind = "request" => f.job \in Jobs
  /\ \A f \in Upward : f.kind = "ack" => f.version \in Int /\ f.ackId \in Int
BY DEF Upward

\* The frames that go to a client, and what they carry.
LEMMA DownwardFrames ==
  /\ \A v, w, id \in Int : \A k \in {"snapshot", "delta"} :
       [kind |-> k, version |-> v, holds |-> w, ackId |-> id] \in Downward
  /\ \A j \in Jobs : [kind |-> "result", job |-> j] \in Downward
  /\ \A f \in Downward : f.kind = "result" => f.job \in Jobs
  /\ \A f \in Downward : f.kind # "result" =>
       f.version \in Int /\ f.holds \in Int /\ f.ackId \in Int
BY DEF Downward

-----------------------------------------------------------------------------
\* Nothing is requested, queued or acknowledged at the start.
LEMMA InitInv == Init => Inv
<1> SUFFICES ASSUME Init PROVE Inv
  OBVIOUS
<1> USE SessionAssumption DEF Init
<1>1. Typed
  BY DEF Typed, Records, Requested, States, Phases
<1>2. Queued
  BY DEF Queued, HeadRuns, QueuedIsInQueue, QueueIsUnfinished, QueueIsDistinct, ClaimIsRunning,
         Running
<1>3. Requests
  BY DEF Requests, NotMadeIsIdle, RequestIsFresh, RequestIsOnce
<1>4. Acknowledged
  BY DEF Acknowledged, LabelIsContent, AckIsHeld, WaitCovers, ConfirmedMeansApplied
<1> QED BY <1>1, <1>2, <1>3, <1>4 DEF Inv

-----------------------------------------------------------------------------
(* What the actions have in common. *)

\* The queue's invariant is about who runs, who waits and who claims.
LEMMA QueuedStays ==
  ASSUME Typed, Typed', Queued, queue' = queue,
         \A j \in Jobs : /\ job'[j].phase \in Running <=> job[j].phase \in Running
                         /\ job'[j].phase = "queued" <=> job[j].phase = "queued",
         \A s \in Sessions : session'[s].owned \subseteq session[s].owned
  PROVE  Queued'
<1> USE DEF Queued, Typed
<1>1. HeadRuns'
  BY DEF HeadRuns
<1>2. QueuedIsInQueue'
  BY DEF QueuedIsInQueue
<1>3. QueueIsUnfinished'
  <2> SUFFICES ASSUME NEW i \in 1..Len(queue)
               PROVE  queue[i] \notin Calls /\ job'[queue[i]].phase \in Running \cup {"queued"}
    BY DEF QueueIsUnfinished
  <2>1. queue[i] \in Jobs
    OBVIOUS
  <2> QED BY <2>1 DEF QueueIsUnfinished
<1>4. QueueIsDistinct'
  BY DEF QueueIsDistinct
<1>5. ClaimIsRunning'
  BY DEF ClaimIsRunning, Records
<1> QED BY <1>1, <1>2, <1>3, <1>4, <1>5

\* How a channel's frames may change without a request among them starting.
Delivered(old, new) == old # <<>> /\ new = Tail(old)
Sent(old, new, f) == new = Append(old, f)

\* Each frame now under way was under way before, at its place or the next,
\* or is the one just sent.
Moved(old, new, f) ==
  new = old \/ new = <<>> \/ Delivered(old, new) \/ Sent(old, new, f)
Kept(old, new, f) ==
  \A i \in 1..Len(new) :
    \/ i \in 1..Len(old) /\ new[i] = old[i]
    \/ i + 1 \in 1..Len(old) /\ new[i] = old[i + 1]
    \/ new[i] = f

\* What is not the last of a longer queue is where it was.
LEMMA BeforeTheLast ==
  ASSUME NEW F, NEW q \in Seq(F), NEW f \in F, NEW r, r = Append(q, f),
         NEW x \in 1..Len(r), r[x] # f
  PROVE  x \in 1..Len(q) /\ r[x] = q[x]
<1>1. /\ Len(q) \in Nat /\ Len(r) = Len(q) + 1 /\ r[Len(q) + 1] = f
      /\ \A y \in 1..Len(q) : r[y] = q[y]
  OBVIOUS
<1>2. x # Len(q) + 1
  BY <1>1
<1> QED BY <1>1, <1>2

\* A queue that gains f at its end, loses its head or is emptied holds nothing new but f.
LEMMA MovedIsKept ==
  ASSUME NEW F, NEW old \in Seq(F), NEW new \in Seq(F), NEW f \in F, Moved(old, new, f)
  PROVE  Kept(old, new, f)
<1>1. CASE new = old
  BY <1>1 DEF Kept
<1>2. CASE new = <<>>
  BY <1>2 DEF Kept
<1>3. CASE old # <<>> /\ new = Tail(old)
  BY <1>3 DEF Kept
<1>4. CASE new = Append(old, f)
  BY <1>4 DEF Kept
<1> QED BY <1>1, <1>2, <1>3, <1>4 DEF Moved, Delivered, Sent

\* A request on its way is of a job its session owns, and that job has not begun.
LEMMA FreshRequest ==
  ASSUME RequestIsFresh, NEW s \in Sessions, NEW k \in 1..Len(upward[s]),
         upward[s][k].kind = "request"
  PROVE  Owner[upward[s][k].job] = s /\ job[upward[s][k].job].phase = "idle"
           /\ caller[upward[s][k].job] # "none"
BY DEF RequestIsFresh

\* Frames are delivered or lost, and others than requests are sent.
LEMMA RequestsStay ==
  ASSUME Typed, Typed', Requests,
         \A j \in Jobs : job[j].phase = "idle" <=> job'[j].phase = "idle",
         \A j \in Jobs : caller[j] = "none" <=> caller'[j] = "none",
         \A s \in Sessions :
           \/ upward'[s] = upward[s] \/ upward'[s] = <<>> \/ Delivered(upward[s], upward'[s])
           \/ \E f \in Upward : f.kind # "request" /\ Sent(upward[s], upward'[s], f)
  PROVE  Requests'
<1> USE DEF Requests, Typed
<1>1. NotMadeIsIdle'
  BY DEF NotMadeIsIdle
<1>2. \A s \in Sessions : \A i \in 1..Len(upward'[s]) :
        upward'[s][i].kind = "request" =>
          \/ i \in 1..Len(upward[s]) /\ upward'[s][i] = upward[s][i]
          \/ i + 1 \in 1..Len(upward[s]) /\ upward'[s][i] = upward[s][i + 1]
  <2> SUFFICES ASSUME NEW s \in Sessions, NEW i \in 1..Len(upward'[s]),
                      upward'[s][i].kind = "request"
               PROVE  \/ i \in 1..Len(upward[s]) /\ upward'[s][i] = upward[s][i]
                      \/ i + 1 \in 1..Len(upward[s]) /\ upward'[s][i] = upward[s][i + 1]
    OBVIOUS
  <2>1. upward[s] \in Seq(Upward) /\ upward'[s] \in Seq(Upward)
    OBVIOUS
  <2>2. PICK f \in Upward : f.kind # "request" /\ Moved(upward[s], upward'[s], f)
    BY UpwardFrames DEF Moved
  <2>3. Kept(upward[s], upward'[s], f)
    BY <2>1, <2>2, MovedIsKept, Zenon
  <2> QED BY <2>2, <2>3 DEF Kept
<1>3. RequestIsFresh'
  <2> SUFFICES ASSUME NEW s \in Sessions, NEW i \in 1..Len(upward'[s]),
                      upward'[s][i].kind = "request"
               PROVE  LET j == upward'[s][i].job
                      IN  Owner[j] = s /\ job'[j].phase = "idle" /\ caller'[j] # "none"
    BY DEF RequestIsFresh
  <2>1. PICK k \in 1..Len(upward[s]) : upward'[s][i] = upward[s][k]
    BY <1>2
  <2>2. upward[s][k] \in Upward
    OBVIOUS
  <2>3. upward[s][k].job \in Jobs
    BY <2>1, <2>2, UpwardFrames
  <2>4. Owner[upward[s][k].job] = s /\ job[upward[s][k].job].phase = "idle"
          /\ caller[upward[s][k].job] # "none"
    <3>1. upward[s][k].kind = "request"
      BY <2>1
    <3>2. RequestIsFresh
      OBVIOUS
    <3> HIDE DEF Requests, Typed
    <3> QED BY <3>1, <3>2, FreshRequest, Zenon
  <2> QED BY <2>1, <2>3, <2>4
<1>4. RequestIsOnce'
  <2> SUFFICES ASSUME NEW s \in Sessions, NEW i \in 1..Len(upward'[s]),
                      NEW k \in 1..Len(upward'[s]),
                      upward'[s][i].kind = "request", upward'[s][k].kind = "request",
                      upward'[s][i].job = upward'[s][k].job
               PROVE  i = k
    BY DEF RequestIsOnce
  <2>1. CASE upward'[s] = upward[s]
    BY <2>1 DEF RequestIsOnce
  <2>2. CASE upward'[s] = <<>>
    BY <2>2
  <2>3. CASE Delivered(upward[s], upward'[s])
    <3>1. /\ i + 1 \in 1..Len(upward[s]) /\ upward'[s][i] = upward[s][i + 1]
          /\ k + 1 \in 1..Len(upward[s]) /\ upward'[s][k] = upward[s][k + 1]
      BY <2>3 DEF Delivered
    <3>2. i + 1 = k + 1
      BY <3>1 DEF RequestIsOnce
    <3> QED BY <3>2
  <2>4. CASE \E f \in Upward : f.kind # "request" /\ Sent(upward[s], upward'[s], f)
    <3>1. PICK f \in Upward : f.kind # "request" /\ Sent(upward[s], upward'[s], f)
      BY <2>4
    <3>2. ASSUME NEW x \in 1..Len(upward'[s]), upward'[s][x].kind = "request"
          PROVE  x \in 1..Len(upward[s]) /\ upward'[s][x] = upward[s][x]
      <4>1. PICK q, r : q = upward[s] /\ r = upward'[s]
        OBVIOUS
      <4>2. r = Append(q, f) /\ q \in Seq(Upward) /\ x \in 1..Len(r) /\ r[x] # f
        BY <3>1, <3>2, <4>1 DEF Sent
      <4>3. x \in 1..Len(q) /\ r[x] = q[x]
        <5> HIDE DEF Typed, Requests
        <5> QED BY <4>2, BeforeTheLast
      <4> QED BY <4>1, <4>3
    <3>3. /\ i \in 1..Len(upward[s]) /\ upward'[s][i] = upward[s][i]
          /\ k \in 1..Len(upward[s]) /\ upward'[s][k] = upward[s][k]
      BY <3>2
    <3> QED BY <3>3 DEF RequestIsOnce
  <2> QED BY <2>1, <2>2, <2>3, <2>4
<1> QED BY <1>1, <1>3, <1>4

\* Frames are delivered or lost, and what is sent is labelled with its content.
LEMMA LabelStays ==
  ASSUME Typed, Typed', LabelIsContent, mirror' = held',
         \A s \in Sessions :
           \/ down'[s] = down[s] \/ down'[s] = <<>> \/ Delivered(down[s], down'[s])
           \/ \E f \in Downward : /\ f.kind = "result" \/ f.version = f.holds
                                  /\ Sent(down[s], down'[s], f)
  PROVE  LabelIsContent'
<1> USE DEF Typed
<1> SUFFICES ASSUME NEW s \in Sessions, NEW i \in 1..Len(down'[s]),
                    down'[s][i].kind # "result"
             PROVE  down'[s][i].version = down'[s][i].holds
  BY DEF LabelIsContent
<1>1. down[s] \in Seq(Downward) /\ down'[s] \in Seq(Downward)
  OBVIOUS
<1>2. PICK f \in Downward :
        (f.kind = "result" \/ f.version = f.holds) /\ Moved(down[s], down'[s], f)
  <2> DEFINE f == [kind |-> "delta", version |-> 0, holds |-> 0, ackId |-> 0]
  <2>1. f \in Downward /\ f.version = f.holds
    BY DEF Downward
  <2> QED BY <2>1 DEF Moved
<1>3. Kept(down[s], down'[s], f)
  BY <1>1, <1>2, MovedIsKept, Zenon
<1>4. \/ i \in 1..Len(down[s]) /\ down'[s][i] = down[s][i]
      \/ i + 1 \in 1..Len(down[s]) /\ down'[s][i] = down[s][i + 1]
      \/ down'[s][i] = f
  BY <1>3 DEF Kept
<1> QED BY <1>1, <1>2, <1>4 DEF LabelIsContent

\* Frames are delivered or lost, an acknowledgement that is sent or taken is
\* of what the mirror holds, and mirrors only move on.
LEMMA AcksStay ==
  ASSUME Typed, Typed', AckIsHeld,
         \A s \in Sessions : held[s] <= held'[s] /\ session'[s].ackedVersion <= held'[s],
         \A s \in Sessions :
           \/ upward'[s] = upward[s] \/ upward'[s] = <<>> \/ Delivered(upward[s], upward'[s])
           \/ \E f \in Upward : /\ f.kind = "ack" => f.version <= held'[s]
                                /\ Sent(upward[s], upward'[s], f)
  PROVE  AckIsHeld'
<1> USE DEF Typed
<1> SUFFICES ASSUME NEW s \in Sessions, NEW i \in 1..Len(upward'[s]),
                    upward'[s][i].kind = "ack"
             PROVE  upward'[s][i].version <= held'[s]
  BY DEF AckIsHeld
<1>1. upward[s] \in Seq(Upward) /\ upward'[s] \in Seq(Upward)
  OBVIOUS
<1>2. PICK f \in Upward :
        (f.kind = "ack" => f.version <= held'[s]) /\ Moved(upward[s], upward'[s], f)
  <2>1. [kind |-> "dispose"] \in Upward
    BY UpwardFrames
  <2> QED BY <2>1 DEF Moved
<1>3. Kept(upward[s], upward'[s], f)
  BY <1>1, <1>2, MovedIsKept, Zenon
<1>4. CASE upward'[s][i] = f
  BY <1>2, <1>4
<1>5. ASSUME NEW k \in 1..Len(upward[s]), upward'[s][i] = upward[s][k]
      PROVE  upward'[s][i].version <= held'[s]
  <2>1. upward[s][k] \in Upward /\ upward[s][k].kind = "ack"
    BY <1>1, <1>5
  <2>2. upward[s][k].version \in Int /\ upward[s][k].version <= held[s]
    BY <2>1, UpwardFrames DEF AckIsHeld
  <2>3. held[s] <= held'[s] /\ held[s] \in Int /\ held'[s] \in Int
    OBVIOUS
  <2> DEFINE v == upward[s][k].version
             h == held[s]
             n == held'[s]
  <2>4. v \in Int /\ h \in Int /\ n \in Int /\ v <= h /\ h <= n
    BY <2>2, <2>3
  <2> HIDE DEF v, h, n
  <2>5. v <= n
    BY <2>4
  <2> QED BY <1>5, <2>5 DEF v, n
<1> QED BY <1>3, <1>4, <1>5 DEF Kept

\* Requests keep what they wait for and whom they counted.
LEMMA WaitsStay ==
  ASSUME Typed, Typed', WaitCovers, ConfirmedMeansApplied, version <= version',
         \A s \in Sessions : held[s] <= held'[s],
         \A j \in Jobs :
           /\ job'[j].landed = job[j].landed /\ job'[j].target = job[j].target
           /\ job'[j].confirmed = job[j].confirmed
           /\ job'[j].phase = "waiting" => job[j].phase = "waiting"
           /\ job[j].phase \in {"yielding", "done"} => job'[j].phase \in {"yielding", "done"}
  PROVE  WaitCovers' /\ ConfirmedMeansApplied'
<1>1. WaitCovers'
  BY DEF WaitCovers, Requested, Typed
<1>2. ConfirmedMeansApplied'
  <2> SUFFICES ASSUME NEW j \in Jobs, NEW s \in job[j].confirmed
               PROVE  held'[s] >= job[j].landed
    BY DEF ConfirmedMeansApplied
  <2>1. s \in Sessions /\ job[j].landed \in Int
    BY DEF Typed, Requested
  <2>2. held[s] >= job[j].landed /\ held[s] <= held'[s]
    BY <2>1 DEF ConfirmedMeansApplied
  <2> QED BY <2>1, <2>2 DEF Typed
<1> QED BY <1>1, <1>2

\* Nothing was applied or acknowledged.
LEMMA AcknowledgedStays ==
  ASSUME Typed, Typed', Acknowledged, mirror' = mirror, held' = held, version <= version',
         \A s \in Sessions : session'[s].ackedVersion = session[s].ackedVersion,
         \A s \in Sessions :
           \/ upward'[s] = upward[s] \/ upward'[s] = <<>> \/ Delivered(upward[s], upward'[s])
           \/ \E f \in Upward : f.kind # "ack" /\ Sent(upward[s], upward'[s], f),
         \A s \in Sessions :
           \/ down'[s] = down[s] \/ down'[s] = <<>> \/ Delivered(down[s], down'[s])
           \/ \E f \in Downward : /\ f.kind = "result" \/ f.version = f.holds
                                  /\ Sent(down[s], down'[s], f),
         \A j \in Jobs :
           /\ job'[j].landed = job[j].landed /\ job'[j].target = job[j].target
           /\ job'[j].confirmed = job[j].confirmed
           /\ job'[j].phase = "waiting" => job[j].phase = "waiting"
           /\ job[j].phase \in {"yielding", "done"} => job'[j].phase \in {"yielding", "done"}
  PROVE  Acknowledged'
<1> USE DEF Acknowledged
<1>1. LabelIsContent'
  BY LabelStays DEF LabelIsContent
<1>2. \A s \in Sessions : held[s] <= held'[s] /\ session'[s].ackedVersion <= held'[s]
  <2>1. \A s \in Sessions : held[s] \in Int
    BY DEF Typed
  <2>2. \A s \in Sessions : session[s].ackedVersion <= held[s]
    BY DEF AckIsHeld
  <2> QED BY <2>1, <2>2
<1>3. AckIsHeld'
  BY <1>2, AcksStay
<1>4. WaitCovers' /\ ConfirmedMeansApplied'
  BY <1>2, WaitsStay
<1> QED BY <1>1, <1>3, <1>4

\* A request changes phase, and nothing else about it.
PhaseOnly(j, p) ==
  /\ job' \in [Jobs -> Requested]
  /\ \A k \in Jobs : job'[k].phase = IF k = j THEN p ELSE job[k].phase
  /\ \A k \in Jobs : /\ job'[k].landed = job[k].landed /\ job'[k].target = job[k].target
                     /\ job'[k].confirmed = job[k].confirmed

\* A job that changes phase keeps the other jobs as they are.
LEMMA PhaseChanges ==
  ASSUME Typed, NEW j \in Jobs, NEW p \in Phases, job' = [job EXCEPT ![j].phase = p]
  PROVE  PhaseOnly(j, p)
<1>1. job'[j] = [job[j] EXCEPT !.phase = p] /\ \A k \in Jobs : k # j => job'[k] = job[k]
  BY DEF Typed
<1>2. job[j] \in Requested
  BY DEF Typed
<1>3. [job[j] EXCEPT !.phase = p] \in Requested
  BY <1>2 DEF Requested
<1>4. job' \in [Jobs -> Requested]
  BY <1>1, <1>3 DEF Typed
<1>5. /\ job'[j].phase = p /\ job'[j].landed = job[j].landed /\ job'[j].target = job[j].target
      /\ job'[j].confirmed = job[j].confirmed
  BY <1>1, <1>2 DEF Requested
<1> QED BY <1>1, <1>4, <1>5 DEF PhaseOnly

\* A session's claims change, and nothing else about it.
OwnedOnly(s, owned) ==
  /\ session' \in [Sessions -> Records]
  /\ \A t \in Sessions : session'[t].owned = IF t = s THEN owned ELSE session[t].owned
  /\ \A t \in Sessions : session'[t].ackedVersion = session[t].ackedVersion

\* A session that gains or drops claims keeps its other fields, and the other sessions.
LEMMA OwnedChanges ==
  ASSUME Typed, NEW s \in Sessions, NEW owned \in SUBSET Jobs,
         session' = [session EXCEPT ![s].owned = owned]
  PROVE  OwnedOnly(s, owned)
<1>1. /\ session'[s] = [session[s] EXCEPT !.owned = owned]
      /\ \A t \in Sessions : t # s => session'[t] = session[t]
  BY DEF Typed
<1>2. session[s] \in Records
  BY DEF Typed
<1>3. [session[s] EXCEPT !.owned = owned] \in Records
  BY <1>2 DEF Records
<1>4. session' \in [Sessions -> Records]
  BY <1>1, <1>3 DEF Typed
<1>5. session'[s].owned = owned /\ session'[s].ackedVersion = session[s].ackedVersion
  BY <1>1, <1>2 DEF Records
<1> QED BY <1>1, <1>4, <1>5 DEF OwnedOnly

\* What the end of a wait does to a request.
LEMMA SatisfiedCounts ==
  ASSUME Typed, NEW S \in [Sessions -> Records], NEW r \in Requested, r.phase = "waiting",
         r.landed <= r.target, r.confirmed = {},
         \A s \in Sessions : S[s].ackedVersion <= held[s]
  PROVE  /\ Satisfied(S, r) \in Requested
         /\ Satisfied(S, r).phase \in {"waiting", "yielding"}
         /\ Satisfied(S, r).landed = r.landed /\ Satisfied(S, r).target = r.target
         /\ Satisfied(S, r).phase = "waiting" => Satisfied(S, r).confirmed = {}
         /\ \A s \in Satisfied(S, r).confirmed : held[s] >= r.landed
<1>1. CASE Pending(S, r) # {}
  BY <1>1 DEF Satisfied
<1>2. CASE Pending(S, r) = {}
  <2>1. Satisfied(S, r) = [r EXCEPT !.phase = "yielding", !.confirmed = Believed(S, r)]
    BY <1>2 DEF Satisfied
  <2>2. Believed(S, r) \subseteq Sessions
    BY DEF Believed, Requested
  <2>3. \A s \in Believed(S, r) : held[s] >= r.landed
    <3> SUFFICES ASSUME NEW s \in Believed(S, r) PROVE held[s] >= r.landed
      OBVIOUS
    <3>1. s \in r.asked /\ s \in Sessions /\ S[s].state = "handshook" /\ S[s].capable
      BY <2>2 DEF Believed
    <3>2. ~(S[s].ackedVersion < r.target)
      BY <1>2, <3>1 DEF Pending
    <3>3. S[s].ackedVersion \in Int /\ held[s] \in Int /\ r.target \in Int /\ r.landed \in Int
      BY <3>1 DEF Typed, Records, Requested
    <3> QED BY <3>1, <3>2, <3>3
  <2> QED BY <2>1, <2>2, <2>3 DEF Requested, Phases, Running
<1> QED BY <1>1, <1>2

-----------------------------------------------------------------------------
(* The native store. *)

\* record_mutation ends the writer's critical section.
LEMMA RecordInv == Inv /\ Record => Inv'
<1> SUFFICES ASSUME Inv, Record PROVE Inv'
  OBVIOUS
<1> USE DEF Inv, Record
<1>1. Typed'
  BY DEF Typed, Writing
<1>2. Queued'
  BY <1>1, QueuedStays DEF Typed
<1>3. Requests'
  BY <1>1, RequestsStay
<1>4. Acknowledged'
  BY <1>1, AcknowledgedStays DEF Typed
<1> QED BY <1>1, <1>2, <1>3, <1>4

\* The watcher, a walk or the host's own process changes the tree.
LEMMA ExternalInv == Inv /\ External => Inv'
<1> SUFFICES ASSUME Inv, External PROVE Inv'
  OBVIOUS
<1> USE DEF Inv, External, Publish
<1>1. Typed'
  BY DEF Typed
<1>2. Queued'
  BY <1>1, QueuedStays DEF Typed
<1>3. Requests'
  BY <1>1, RequestsStay
<1>4. Acknowledged'
  BY <1>1, AcknowledgedStays DEF Typed
<1> QED BY <1>1, <1>2, <1>3, <1>4

-----------------------------------------------------------------------------
(* Requests. *)

\* A client asks for a mutation or a call.
LEMMA RequestInv == ASSUME NEW j \in Jobs PROVE Inv /\ Request(j) => Inv'
<1> SUFFICES ASSUME Inv, Request(j) PROVE Inv'
  OBVIOUS
<1> DEFINE s == Owner[j]
           f == [kind |-> "request", job |-> j]
<1> USE DEF Inv
<1>0. s \in Sessions /\ f \in Upward
  BY SessionAssumption, UpwardFrames
<1>1. Typed'
  BY <1>0 DEF Typed, Request
<1>2. Queued'
  BY <1>1, QueuedStays DEF Typed, Request
<1>3. Requests'
  <2>1. /\ caller[j] = "none" /\ caller' = [caller EXCEPT ![j] = "pending"]
        /\ upward' = [upward EXCEPT ![s] = Append(@, f)] /\ job' = job
    BY DEF Request
  <2>2. NotMadeIsIdle'
    BY <2>1 DEF Typed, Requests, NotMadeIsIdle
  <2>3. \A t \in Sessions : \A i \in 1..Len(upward'[t]) :
          upward'[t][i].kind = "request" =>
            \/ i \in 1..Len(upward[t]) /\ upward'[t][i] = upward[t][i]
            \/ t = s /\ i = Len(upward[t]) + 1 /\ upward'[t][i] = f
    <3> SUFFICES ASSUME NEW t \in Sessions, NEW i \in 1..Len(upward'[t])
                 PROVE  \/ i \in 1..Len(upward[t]) /\ upward'[t][i] = upward[t][i]
                        \/ t = s /\ i = Len(upward[t]) + 1 /\ upward'[t][i] = f
      OBVIOUS
    <3> HIDE DEF f
    <3>1. CASE t = s
      <4>1. upward'[t] = Append(upward[t], f) /\ upward[t] \in Seq(Upward)
        BY <1>0, <2>1, <3>1 DEF Typed
      <4> QED BY <1>0, <3>1, <4>1
    <3>2. CASE t # s
      BY <2>1, <3>2 DEF Typed
    <3> QED BY <3>1, <3>2
  <2>4. \A t \in Sessions : \A i \in 1..Len(upward[t]) :
          upward[t][i].kind = "request" => upward[t][i].job # j /\ upward[t][i].job \in Jobs
    <3> SUFFICES ASSUME NEW t \in Sessions, NEW i \in 1..Len(upward[t]),
                        upward[t][i].kind = "request"
                 PROVE  upward[t][i].job # j /\ upward[t][i].job \in Jobs
      OBVIOUS
    <3>1. upward[t][i] \in Upward
      BY DEF Typed
    <3>2. caller[upward[t][i].job] # "none"
      BY DEF Requests, RequestIsFresh
    <3> QED BY <2>1, <3>1, <3>2, UpwardFrames
  <2>5. RequestIsFresh'
    <3> SUFFICES ASSUME NEW t \in Sessions, NEW i \in 1..Len(upward'[t]),
                        upward'[t][i].kind = "request"
                 PROVE  LET k == upward'[t][i].job
                        IN  Owner[k] = t /\ job'[k].phase = "idle" /\ caller'[k] # "none"
      BY DEF RequestIsFresh
    <3>1. CASE i \in 1..Len(upward[t]) /\ upward'[t][i] = upward[t][i]
      <4>1. LET k == upward[t][i].job
            IN  Owner[k] = t /\ job[k].phase = "idle" /\ caller[k] # "none"
        BY <3>1 DEF Requests, RequestIsFresh
      <4> QED BY <2>1, <2>4, <3>1, <4>1 DEF Typed
    <3>2. CASE t = s /\ upward'[t][i] = f
      BY <2>1, <3>2 DEF Requests, NotMadeIsIdle, Typed
    <3> QED BY <2>3, <3>1, <3>2
  <2>6. RequestIsOnce'
    BY <2>3, <2>4 DEF Requests, RequestIsOnce
  <2> QED BY <2>2, <2>5, <2>6 DEF Requests
<1>4. Acknowledged'
  <2>1. \A t \in Sessions : upward'[t] = upward[t] \/ Sent(upward[t], upward'[t], f)
    BY DEF Request, Typed, Sent
  <2>2. \A t \in Sessions :
           \/ upward'[t] = upward[t] \/ upward'[t] = <<>> \/ Delivered(upward[t], upward'[t])
           \/ \E g \in Upward : g.kind # "ack" /\ Sent(upward[t], upward'[t], g)
    BY <1>0, <2>1
  <2> QED BY <1>1, <2>2, AcknowledgedStays DEF Typed, Request
<1> QED BY <1>1, <1>2, <1>3, <1>4

\* The head of the mutation queue is dispatched, or refused.
LEMMA DispatchInv == ASSUME NEW j \in Jobs PROVE Inv /\ Dispatch(j) => Inv'
<1> SUFFICES ASSUME Inv, Dispatch(j) PROVE Inv'
  OBVIOUS
<1> USE DEF Inv
<1>0. Owner[j] \in Sessions
  BY SessionAssumption
<1>a. job[j].phase = "queued" /\ Head(queue) = j /\ queue' = queue
  BY DEF Dispatch
<1>b. PICK p \in {"native", "landed"} : PhaseOnly(j, p)
  <2>1. PICK p \in {"native", "landed"} : job' = [job EXCEPT ![j].phase = p]
    BY DEF Dispatch
  <2> QED BY <2>1, PhaseChanges DEF Phases, Running
<1>c. PICK owned \in SUBSET (session[Owner[j]].owned \cup {j}) : OwnedOnly(Owner[j], owned)
  <2>1. session[Owner[j]].owned \in SUBSET Jobs /\ session[Owner[j]] \in Records
    BY <1>0 DEF Typed, Records
  <2>2. CASE session' = Claimed(Owner[j], j)
    BY <1>0, <2>1, <2>2, OwnedChanges DEF Claimed
  <2>3. CASE UNCHANGED session
    BY <1>0, <2>1, <2>3 DEF OwnedOnly, Typed
  <2> QED BY <2>2, <2>3 DEF Dispatch
<1> USE DEF PhaseOnly, OwnedOnly
<1>1. Typed'
  BY <1>b, <1>c DEF Typed, Dispatch
<1>2. Queued'
  <2> USE DEF Queued, Typed
  <2>1. j \notin Calls /\ queue # <<>>
    BY <1>a, <1>b DEF QueuedIsInQueue
  <2>2. HeadRuns'
    BY <1>a, <1>b, <2>1 DEF HeadRuns
  <2>3. QueuedIsInQueue'
    BY <1>a, <1>b DEF QueuedIsInQueue
  <2>4. QueueIsUnfinished'
    <3> SUFFICES ASSUME NEW i \in 1..Len(queue)
                 PROVE  queue[i] \notin Calls /\ job'[queue[i]].phase \in Running \cup {"queued"}
      BY <1>a DEF QueueIsUnfinished
    <3>1. queue[i] \in Jobs
      OBVIOUS
    <3> QED BY <1>b, <3>1 DEF QueueIsUnfinished, Running
  <2>5. QueueIsDistinct'
    BY <1>a DEF QueueIsDistinct
  <2>6. ClaimIsRunning'
    <3> SUFFICES ASSUME NEW s \in Sessions, NEW k \in session'[s].owned
                 PROVE  queue # <<>> /\ Head(queue) = k /\ Owner[k] = s
      BY <1>a DEF ClaimIsRunning
    <3>1. k \in session[s].owned \/ (s = Owner[j] /\ k = j)
      BY <1>c
    <3> QED BY <3>1, <1>a, <2>1 DEF ClaimIsRunning
  <2> QED BY <2>2, <2>3, <2>4, <2>5, <2>6
<1>3. Requests'
  BY <1>1, <1>a, <1>b, RequestsStay DEF Dispatch
<1>4. Acknowledged'
  <2>1. \A k \in Jobs :
          /\ job'[k].landed = job[k].landed /\ job'[k].target = job[k].target
          /\ job'[k].confirmed = job[k].confirmed
          /\ job'[k].phase = "waiting" => job[k].phase = "waiting"
          /\ job[k].phase \in {"yielding", "done"} => job'[k].phase \in {"yielding", "done"}
    BY <1>a, <1>b
  <2>2. /\ mirror' = mirror /\ held' = held /\ version' = version /\ upward' = upward
        /\ down' = down
    BY DEF Dispatch
  <2>3. \A s \in Sessions : session'[s].ackedVersion = session[s].ackedVersion
    BY <1>c
  <2>4. version <= version'
    BY <2>2 DEF Typed
  <2> QED BY <1>1, <2>1, <2>2, <2>3, <2>4, AcknowledgedStays
<1> QED BY <1>1, <1>2, <1>3, <1>4

\* A native operation ended, whoever it was for.
LEMMA LandingInv == ASSUME NEW j \in Jobs PROVE Inv /\ Landing(j) => Inv'
<1> SUFFICES ASSUME Inv, Landing(j) PROVE Inv'
  OBVIOUS
<1> USE DEF Inv
<1>a. /\ job[j].phase = "native" /\ job[j] \in Requested
      /\ UNCHANGED <<drained, session, down, upward, mirror, held, nextAckId, queue, caller>>
      /\ recorded' = recorded
      /\ version \in Nat /\ job[j].landed <= version
  BY DEF Landing, Publish, Typed, Acknowledged, WaitCovers
<1>b. PICK r \in Requested : /\ job' = [job EXCEPT ![j] = r]
                             /\ r.phase = "landed" /\ r.confirmed = job[j].confirmed
                             /\ r.landed <= version'
                             /\ version' \in Nat /\ version <= version'
  <2>1. CASE Publish /\ job' = [job EXCEPT ![j].phase = "landed", ![j].landed = version + 1]
    <3> DEFINE r == [job[j] EXCEPT !.phase = "landed", !.landed = version + 1]
    <3>1. /\ r \in Requested /\ r.phase = "landed" /\ r.confirmed = job[j].confirmed
          /\ r.landed = version + 1
      <4> DEFINE q == [job[j] EXCEPT !.phase = "landed"]
      <4>1. q \in Requested /\ q.phase = "landed" /\ q.confirmed = job[j].confirmed
        BY <1>a DEF Requested, Phases, Running
      <4>2. r = [q EXCEPT !.landed = version + 1]
        BY <1>a DEF Requested
      <4>3. version + 1 \in Int
        BY <1>a
      <4> HIDE DEF q, r
      <4> QED BY <4>1, <4>2, <4>3 DEF Requested
    <3>2. job' = [job EXCEPT ![j] = r] /\ version' = version + 1
      BY <2>1 DEF Typed, Publish
    <3>3. r.landed <= version' /\ version' \in Nat /\ version <= version'
      BY <1>a, <3>1, <3>2
    <3> HIDE DEF r
    <3> QED BY <3>1, <3>2, <3>3
  <2>2. CASE UNCHANGED <<version, recorded>> /\ job' = [job EXCEPT ![j].phase = "landed"]
    <3> DEFINE r == [job[j] EXCEPT !.phase = "landed"]
    <3>1. /\ r \in Requested /\ r.phase = "landed" /\ r.confirmed = job[j].confirmed
          /\ r.landed = job[j].landed
      BY <1>a DEF Requested, Phases, Running
    <3>2. job' = [job EXCEPT ![j] = r] /\ version' = version
      BY <2>2 DEF Typed
    <3>3. r.landed <= version' /\ version' \in Nat /\ version <= version'
      BY <1>a, <3>1, <3>2
    <3> HIDE DEF r
    <3> QED BY <3>1, <3>2, <3>3
  <2> QED BY <2>1, <2>2 DEF Landing
<1>c. job'[j] = r /\ \A k \in Jobs : k # j => job'[k] = job[k]
  BY <1>b DEF Typed
<1>1. Typed'
  BY <1>a, <1>b DEF Typed
<1>2. Queued'
  BY <1>1, <1>a, <1>b, <1>c, QueuedStays DEF Running
<1>3. Requests'
  BY <1>1, <1>a, <1>b, <1>c, RequestsStay
<1>4. Acknowledged'
  <2> USE DEF Acknowledged
  <2>1. LabelIsContent'
    BY <1>a DEF LabelIsContent
  <2>2. AckIsHeld'
    BY <1>a DEF AckIsHeld
  <2>3. WaitCovers'
    <3>1. job[j].confirmed = {}
      BY <1>a DEF WaitCovers
    <3>2. /\ job'[j].landed <= version' /\ job'[j].phase # "waiting"
          /\ job'[j].confirmed = {}
      BY <1>b, <1>c, <3>1
    <3>3. ASSUME NEW k \in Jobs, k # j
          PROVE  /\ job'[k].landed <= version'
                 /\ job'[k].phase = "waiting" => job'[k].landed <= job'[k].target
                 /\ job'[k].phase \notin {"yielding", "done"} => job'[k].confirmed = {}
      <4>1. job'[k] = job[k]
        BY <1>c, <3>3
      <4>2. /\ job[k].landed \in Int /\ job[k].landed <= version
            /\ job[k].phase = "waiting" => job[k].landed <= job[k].target
            /\ job[k].phase \notin {"yielding", "done"} => job[k].confirmed = {}
        <5>1. job[k] \in Requested
          BY DEF Typed
        <5>2. job[k].landed \in Int
          BY <5>1 DEF Requested
        <5> QED BY <5>2 DEF WaitCovers
      <4>3. version \in Nat /\ version' \in Nat /\ version <= version'
        BY <1>a, <1>b
      <4> HIDE DEF Inv, Acknowledged
      <4> QED BY <4>1, <4>2, <4>3
    <3> HIDE DEF Inv, Acknowledged
    <3> QED BY <3>2, <3>3 DEF WaitCovers
  <2>4. ConfirmedMeansApplied'
    <3>1. job'[j].confirmed = {}
      BY <1>a, <1>b, <1>c DEF WaitCovers
    <3> QED BY <1>a, <1>c, <3>1 DEF ConfirmedMeansApplied
  <2> QED BY <2>1, <2>2, <2>3, <2>4
<1> QED BY <1>1, <1>2, <1>3, <1>4

\* A call lands, or fails and is answered.
LEMMA LandCallInv == ASSUME NEW j \in Jobs PROVE Inv /\ LandCall(j) => Inv'
<1> SUFFICES ASSUME Inv, LandCall(j), ~Landing(j) PROVE Inv'
  BY LandingInv DEF LandCall
<1> USE DEF Inv
<1>a. /\ job[j].phase = "native" /\ job' = [job EXCEPT ![j].phase = "yielding"]
      /\ UNCHANGED <<version, recorded, drained, session, down, upward, mirror, held,
                     nextAckId, queue, caller>>
  BY DEF LandCall
<1>b. PhaseOnly(j, "yielding")
  BY <1>a, PhaseChanges DEF Phases, Running
<1> USE DEF PhaseOnly
<1>1. Typed'
  BY <1>a, <1>b DEF Typed
<1>2. Queued'
  BY <1>1, <1>a, <1>b, QueuedStays DEF Running
<1>3. Requests'
  BY <1>1, <1>a, <1>b, RequestsStay
<1>4. Acknowledged'
  <2>1. version <= version'
    BY <1>a DEF Typed
  <2>2. \A k \in Jobs :
          /\ job'[k].phase = "waiting" => job[k].phase = "waiting"
          /\ job[k].phase \in {"yielding", "done"} => job'[k].phase \in {"yielding", "done"}
    BY <1>a, <1>b
  <2> QED BY <1>1, <1>a, <1>b, <2>1, <2>2, AcknowledgedStays
<1> QED BY <1>1, <1>2, <1>3, <1>4

\* OP_COMPLETE or OP_CANCELLED releases a claim.
LEMMA TerminalInv == ASSUME NEW j \in Jobs PROVE Inv /\ Terminal(j) => Inv'
<1> SUFFICES ASSUME Inv, Terminal(j) PROVE Inv'
  OBVIOUS
<1> USE DEF Inv
<1>a. /\ Owner[j] \in Sessions
      /\ session' = [session EXCEPT ![Owner[j]].owned = session[Owner[j]].owned \ {j}]
      /\ UNCHANGED <<version, recorded, drained, down, upward, mirror, held, nextAckId,
                     queue, job, caller>>
  BY SessionAssumption DEF Terminal
<1>b. OwnedOnly(Owner[j], session[Owner[j]].owned \ {j})
  <2>1. session[Owner[j]].owned \ {j} \in SUBSET Jobs
    BY <1>a DEF Typed, Records
  <2> QED BY <1>a, <2>1, OwnedChanges
<1> USE DEF OwnedOnly
<1>1. Typed'
  BY <1>a, <1>b DEF Typed
<1>2. Queued'
  BY <1>1, <1>a, <1>b, QueuedStays
<1>3. Requests'
  BY <1>1, <1>a, RequestsStay
<1>4. Acknowledged'
  <2>1. version <= version'
    BY <1>a DEF Typed
  <2> QED BY <1>1, <1>a, <1>b, <2>1, AcknowledgedStays
<1> QED BY <1>1, <1>2, <1>3, <1>4

\* The answer leaves, and the phase is the last.
LEMMA AnsweredKeeps ==
  ASSUME Inv, NEW j \in Jobs, Answered(j), Typed'
  PROVE  Requests' /\ (OwnedOnly(Owner[j], session[Owner[j]].owned \ {j}) => Acknowledged')
         /\ (session' = session => Acknowledged')
<1> DEFINE s == Owner[j]
           f == [kind |-> "result", job |-> j]
<1> USE DEF Inv
<1>a. /\ job[j].phase = "yielding"
      /\ down' = [down EXCEPT ![s] = IF Open(s) THEN Append(@, f) ELSE @]
      /\ UNCHANGED <<version, recorded, drained, upward, mirror, held, nextAckId, caller>>
  BY DEF Answered
<1>b. PhaseOnly(j, "done")
  BY PhaseChanges DEF Answered, Phases
<1>c. f \in Downward /\ f.kind = "result" /\ s \in Sessions
  BY SessionAssumption, DownwardFrames
<1>1. Requests'
  BY <1>a, <1>b, RequestsStay DEF PhaseOnly
<1>2. \A t \in Sessions : down'[t] = down[t] \/ Sent(down[t], down'[t], f)
  BY <1>a, <1>c DEF Typed, Sent
<1>3. \A t \in Sessions :
        \/ down'[t] = down[t] \/ down'[t] = <<>> \/ Delivered(down[t], down'[t])
        \/ \E g \in Downward : /\ g.kind = "result" \/ g.version = g.holds
                               /\ Sent(down[t], down'[t], g)
  <2> HIDE DEF f
  <2> QED BY <1>2, <1>c
<1>4. /\ version <= version'
      /\ \A k \in Jobs :
           /\ job'[k].landed = job[k].landed /\ job'[k].target = job[k].target
           /\ job'[k].confirmed = job[k].confirmed
           /\ job'[k].phase = "waiting" => job[k].phase = "waiting"
           /\ job[k].phase \in {"yielding", "done"} => job'[k].phase \in {"yielding", "done"}
  BY <1>a, <1>b DEF PhaseOnly, Typed
<1>5. ASSUME \A t \in Sessions : session'[t].ackedVersion = session[t].ackedVersion
      PROVE  Acknowledged'
  BY <1>3, <1>4, <1>5, <1>a, AcknowledgedStays
<1> QED BY <1>1, <1>5 DEF OwnedOnly

\* A mutation is answered and leaves the queue.
LEMMA ReplyMutationInv == ASSUME NEW j \in Jobs PROVE Inv /\ ReplyMutation(j) => Inv'
<1> SUFFICES ASSUME Inv, ReplyMutation(j) PROVE Inv'
  OBVIOUS
<1> USE DEF Inv
<1>a. /\ j \notin Calls /\ job[j].phase = "yielding" /\ queue' = Tail(queue)
      /\ session' = [session EXCEPT ![Owner[j]].owned = session[Owner[j]].owned \ {j}]
      /\ down' = [down EXCEPT ![Owner[j]] =
                    IF Open(Owner[j]) THEN Append(@, [kind |-> "result", job |-> j]) ELSE @]
      /\ UNCHANGED <<version, recorded, drained, upward, mirror, held, nextAckId, caller>>
  BY DEF ReplyMutation, Answered
<1>b. PhaseOnly(j, "done")
  BY PhaseChanges DEF ReplyMutation, Answered, Phases
<1>c. Owner[j] \in Sessions /\ [kind |-> "result", job |-> j] \in Downward
  BY SessionAssumption, DownwardFrames
<1>d. OwnedOnly(Owner[j], session[Owner[j]].owned \ {j})
  <2>1. session[Owner[j]].owned \ {j} \in SUBSET Jobs
    BY <1>c DEF Typed, Records
  <2> QED BY <1>a, <1>c, <2>1, OwnedChanges
<1>e. queue # <<>> /\ Head(queue) = j /\ queue \in Seq(Jobs)
  BY <1>a DEF Queued, HeadRuns, Running, Typed
<1>1. Typed'
  <2>1. down' \in [Sessions -> Seq(Downward)]
    BY <1>a, <1>c DEF Typed
  <2>2. queue' \in Seq(Jobs)
    BY <1>a, <1>e
  <2> QED BY <1>a, <1>b, <1>d, <2>1, <2>2 DEF Typed, PhaseOnly, OwnedOnly
<1>2. Queued'
  <2> USE DEF Queued, PhaseOnly, OwnedOnly
  <2>1. \A i \in 1..Len(queue') : i + 1 \in 1..Len(queue) /\ queue'[i] = queue[i + 1]
    BY <1>a, <1>e
  <2>2. \A i \in 1..Len(queue) : i # 1 => queue[i] # j /\ i - 1 \in 1..Len(queue')
                                          /\ queue'[i - 1] = queue[i]
    BY <1>a, <1>e DEF QueueIsDistinct
  <2>3. HeadRuns'
    BY <1>b, <1>e DEF HeadRuns, Running
  <2>4. QueuedIsInQueue'
    <3> SUFFICES ASSUME NEW k \in Jobs, job'[k].phase = "queued"
                 PROVE  k \notin Calls /\ \E i \in 1..Len(queue') : queue'[i] = k
      BY DEF QueuedIsInQueue
    <3>1. k # j /\ job[k].phase = "queued"
      BY <1>b
    <3>2. k \notin Calls /\ \E i \in 1..Len(queue) : queue[i] = k
      BY <3>1 DEF QueuedIsInQueue
    <3>3. PICK i \in 1..Len(queue) : queue[i] = k
      BY <3>2
    <3>4. i # 1
      BY <1>e, <3>1, <3>3
    <3> QED BY <2>2, <3>2, <3>3, <3>4
  <2>5. QueueIsUnfinished'
    <3> SUFFICES ASSUME NEW i \in 1..Len(queue')
                 PROVE  /\ queue'[i] \notin Calls
                        /\ job'[queue'[i]].phase \in Running \cup {"queued"}
      BY DEF QueueIsUnfinished
    <3>1. i + 1 \in 1..Len(queue) /\ queue'[i] = queue[i + 1] /\ i + 1 # 1
      BY <2>1
    <3>2. queue[i + 1] # j /\ queue[i + 1] \in Jobs
      BY <1>e, <2>2, <3>1
    <3> QED BY <1>b, <3>1, <3>2 DEF QueueIsUnfinished
  <2>6. QueueIsDistinct'
    <3> SUFFICES ASSUME NEW i \in 1..Len(queue'), NEW k \in 1..Len(queue'),
                        queue'[i] = queue'[k]
                 PROVE  i = k
      BY DEF QueueIsDistinct
    <3>1. i + 1 = k + 1
      BY <2>1 DEF QueueIsDistinct
    <3> QED BY <3>1
  <2>7. ClaimIsRunning'
    <3>1. \A t \in Sessions : session'[t].owned = {}
      <4> SUFFICES ASSUME NEW t \in Sessions, NEW k \in session'[t].owned PROVE FALSE
        OBVIOUS
      <4>1. k \in session[t].owned /\ (t = Owner[j] => k # j)
        BY <1>c, <1>d
      <4>2. Head(queue) = k /\ Owner[k] = t
        BY <4>1 DEF ClaimIsRunning
      <4> QED BY <1>e, <4>1, <4>2
    <3> QED BY <3>1 DEF ClaimIsRunning
  <2> QED BY <2>3, <2>4, <2>5, <2>6, <2>7
<1>3. Requests' /\ Acknowledged'
  BY <1>1, <1>d, AnsweredKeeps DEF ReplyMutation
<1> QED BY <1>1, <1>2, <1>3

\* A call is answered.
LEMMA ReplyCallInv == ASSUME NEW j \in Jobs PROVE Inv /\ ReplyCall(j) => Inv'
<1> SUFFICES ASSUME Inv, ReplyCall(j) PROVE Inv'
  OBVIOUS
<1> USE DEF Inv
<1>a. /\ j \in Calls /\ job[j].phase = "yielding" /\ queue' = queue /\ session' = session
      /\ down' = [down EXCEPT ![Owner[j]] =
                    IF Open(Owner[j]) THEN Append(@, [kind |-> "result", job |-> j]) ELSE @]
      /\ UNCHANGED <<version, recorded, drained, upward, mirror, held, nextAckId, caller>>
  BY DEF ReplyCall, Answered
<1>b. PhaseOnly(j, "done")
  BY PhaseChanges DEF ReplyCall, Answered, Phases
<1>c. Owner[j] \in Sessions /\ [kind |-> "result", job |-> j] \in Downward
  BY SessionAssumption, DownwardFrames
<1>1. Typed'
  <2>1. down' \in [Sessions -> Seq(Downward)]
    BY <1>a, <1>c DEF Typed
  <2> QED BY <1>a, <1>b, <2>1 DEF Typed, PhaseOnly
<1>2. Queued'
  <2>0. HeadRuns /\ QueuedIsInQueue /\ QueueIsUnfinished /\ QueueIsDistinct /\ ClaimIsRunning
    BY DEF Queued
  <2>p. \A k \in Jobs : job'[k].phase = IF k = j THEN "done" ELSE job[k].phase
    BY <1>b DEF PhaseOnly
  <2>1. HeadRuns'
    BY <1>a, <2>0, <2>p DEF HeadRuns, Running
  <2>2. QueuedIsInQueue'
    BY <1>a, <2>0, <2>p DEF QueuedIsInQueue
  <2>3. QueueIsDistinct' /\ ClaimIsRunning'
    BY <1>a, <2>0 DEF QueueIsDistinct, ClaimIsRunning
  <2>4. QueueIsUnfinished'
    <3> SUFFICES ASSUME NEW i \in 1..Len(queue)
                 PROVE  queue[i] \notin Calls /\ job'[queue[i]].phase \in Running \cup {"queued"}
      BY <1>a DEF QueueIsUnfinished
    <3>1. queue[i] \in Jobs
      BY DEF Typed
    <3>2. queue[i] \notin Calls /\ job[queue[i]].phase \in Running \cup {"queued"}
      BY <2>0 DEF QueueIsUnfinished
    <3> QED BY <1>a, <2>p, <3>1, <3>2
  <2> QED BY <2>1, <2>2, <2>3, <2>4 DEF Queued
<1>3. Requests' /\ Acknowledged'
  BY <1>1, <1>a, AnsweredKeeps DEF ReplyCall
<1> QED BY <1>1, <1>2, <1>3

-----------------------------------------------------------------------------
(* Fan-out. *)

\* A detached session keeps what it acknowledged, and loses its claims.
LEMMA DetachedKeeps ==
  ASSUME Typed, NEW gone \in SUBSET Sessions, session' = Detached(session, gone)
  PROVE  /\ session' \in [Sessions -> Records]
         /\ \A s \in Sessions : /\ session'[s].owned \subseteq session[s].owned
                                /\ session'[s].ackedVersion = session[s].ackedVersion
<1>1. \A s \in Sessions :
        /\ session[s] \in Records
        /\ session'[s] = session[s]
             \/ session'[s] = [session[s] EXCEPT !.state = "gone", !.owned = {}]
  BY DEF Detached, Typed
<1>2. \A r \in Records :
        LET q == [r EXCEPT !.state = "gone", !.owned = {}]
        IN  q \in Records /\ q.owned = {} /\ q.ackedVersion = r.ackedVersion
  <2> SUFFICES ASSUME NEW r \in Records
               PROVE  LET q == [r EXCEPT !.state = "gone", !.owned = {}]
                      IN  q \in Records /\ q.owned = {} /\ q.ackedVersion = r.ackedVersion
    OBVIOUS
  <2> DEFINE a == [r EXCEPT !.state = "gone"]
             q == [a EXCEPT !.owned = {}]
  <2>1. a \in Records /\ a.ackedVersion = r.ackedVersion
    BY DEF Records, States
  <2> HIDE DEF a
  <2>2. q \in Records /\ q.owned = {} /\ q.ackedVersion = r.ackedVersion
    BY <2>1 DEF Records
  <2> QED BY <2>2 DEF a
<1>3. \A s \in Sessions : /\ session'[s] \in Records
                          /\ session'[s].owned \subseteq session[s].owned
                          /\ session'[s].ackedVersion = session[s].ackedVersion
  <2> SUFFICES ASSUME NEW s \in Sessions
               PROVE  /\ session'[s] \in Records
                      /\ session'[s].owned \subseteq session[s].owned
                      /\ session'[s].ackedVersion = session[s].ackedVersion
    OBVIOUS
  <2> DEFINE r == session[s]
             q == [r EXCEPT !.state = "gone", !.owned = {}]
  <2>1. r \in Records /\ (session'[s] = r \/ session'[s] = q)
    BY <1>1
  <2>2. q \in Records /\ q.owned = {} /\ q.ackedVersion = r.ackedVersion
    BY <1>2, <2>1
  <2> HIDE DEF q
  <2> QED BY <2>1, <2>2
<1>4. session' = [s \in Sessions |-> session'[s]]
  BY DEF Detached
<1> QED BY <1>3, <1>4

\* Frames labelled with what they hold, one after the other.
Labelled(frames) ==
  \A i \in 1..Len(frames) : frames[i].kind # "result" => frames[i].version = frames[i].holds

\* Two runs of labelled frames, one after the other.
LEMMA JoinedIsLabelled ==
  ASSUME NEW x \in Seq(Downward), NEW y \in Seq(Downward), Labelled(x), Labelled(y)
  PROVE  x \o y \in Seq(Downward) /\ Labelled(x \o y)
<1> DEFINE z == x \o y
<1>0. z = x \o y
  OBVIOUS
<1> HIDE DEF z
<1>1. z \in Seq(Downward) /\ Len(z) = Len(x) + Len(y)
  BY <1>0
<1>2. ASSUME NEW i \in 1..Len(z)
      PROVE  \/ i \in 1..Len(x) /\ z[i] = x[i]
             \/ i - Len(x) \in 1..Len(y) /\ z[i] = y[i - Len(x)]
  <2>1. CASE i \in 1..Len(x)
    BY <1>0, <2>1
  <2>2. CASE i \notin 1..Len(x)
    <3>1. i - Len(x) \in 1..Len(y)
      BY <1>1, <2>2
    <3> QED BY <1>0, <2>2, <3>1
  <2> QED BY <2>1, <2>2
<1>3. Labelled(z)
  BY <1>2 DEF Labelled
<1> QED BY <1>0, <1>1, <1>3

\* The deltas of a tick are labelled with what they hold.
LEMMA DeltasAreLabelled ==
  ASSUME Typed, NEW ackId \in Nat, NEW marked \in BOOLEAN
  PROVE  /\ Deltas(ackId, marked) \in Seq(Downward)
         /\ Labelled(Deltas(ackId, marked))
<1> DEFINE d(v, id) == [kind |-> "delta", version |-> v, holds |-> v, ackId |-> id]
           fresh(id) == IF Changed THEN <<d(recorded, id)>> ELSE <<>>
           whole == IF marked THEN fresh(0) \o <<d(0, ackId)>> ELSE fresh(ackId)
<1>1. Deltas(ackId, marked) = whole
  BY DEF Deltas
<1>2. \A v, id \in Int : d(v, id) \in Downward /\ d(v, id).version = d(v, id).holds
  BY DownwardFrames
<1>3. recorded \in Int /\ ackId \in Int /\ 0 \in Int
  BY DEF Typed
<1> HIDE DEF d
<1>4. whole \in Seq(Downward) /\ Labelled(whole)
  <2>1. CASE marked /\ Changed
    <3>1. d(recorded, 0) \in Downward /\ d(0, ackId) \in Downward
      BY <1>2, <1>3
    <3> DEFINE x == <<d(recorded, 0)>>
               y == <<d(0, ackId)>>
    <3>2. /\ x \in Seq(Downward) /\ Len(x) = 1 /\ x[1].version = x[1].holds
          /\ y \in Seq(Downward) /\ Len(y) = 1 /\ y[1].version = y[1].holds
      BY <1>2, <1>3, <3>1
    <3>3. whole = x \o y
      BY <2>1
    <3> HIDE DEF x, y, whole
    <3>4. Labelled(x) /\ Labelled(y)
      BY <3>2 DEF Labelled
    <3> QED BY <3>2, <3>3, <3>4, JoinedIsLabelled
  <2>2. CASE marked /\ ~Changed
    <3>1. whole = <<d(0, ackId)>>
      BY <2>2
    <3> QED BY <3>1, <1>2, <1>3 DEF Labelled
  <2>3. CASE ~marked /\ Changed
    <3>1. whole = <<d(recorded, ackId)>>
      BY <2>3
    <3> QED BY <3>1, <1>2, <1>3 DEF Labelled
  <2>4. CASE ~marked /\ ~Changed
    <3>1. whole = <<>>
      BY <2>4
    <3> QED BY <3>1 DEF Labelled
  <2> QED BY <2>1, <2>2, <2>3, <2>4
<1> QED BY <1>1, <1>4

\* What a tick does to the channels.
LEMMA TickPosts ==
  ASSUME Typed, LabelIsContent, NEW ackId \in Nat, NEW marked \in BOOLEAN,
         NEW refusing \in SUBSET Sessions, TickSends(ackId, marked, refusing),
         mirror' = mirror, held' = held
  PROVE  /\ drained' \in Nat /\ drained' <= recorded
         /\ down' \in [Sessions -> Seq(Downward)] /\ upward' \in [Sessions -> Seq(Upward)]
         /\ LabelIsContent'
         /\ \A s \in Sessions : upward'[s] = upward[s] \/ upward'[s] = <<>>
<1> DEFINE frames == Deltas(ackId, marked)
<1>1. frames \in Seq(Downward) /\ Labelled(frames)
  BY DeltasAreLabelled
<1>2. /\ drained' = IF \E s \in Sessions : Open(s) THEN recorded ELSE drained
      /\ down' = [s \in Sessions |-> IF s \in refusing THEN <<>>
                                     ELSE IF s \in Live THEN down[s] \o frames ELSE down[s]]
      /\ upward' = [s \in Sessions |-> IF s \in refusing THEN <<>> ELSE upward[s]]
  BY DEF TickSends
<1> HIDE DEF frames
<1>3. drained' \in Nat /\ drained' <= recorded
  BY <1>2 DEF Typed
<1>4. down' \in [Sessions -> Seq(Downward)] /\ upward' \in [Sessions -> Seq(Upward)]
  BY <1>1, <1>2 DEF Typed
<1>5. LabelIsContent'
  <2> SUFFICES ASSUME NEW s \in Sessions PROVE Labelled(down'[s])
    BY DEF LabelIsContent, Labelled
  <2>1. down'[s] = <<>> \/ down'[s] = down[s] \o frames \/ down'[s] = down[s]
    BY <1>2
  <2>2. down[s] \in Seq(Downward) /\ Labelled(down[s])
    BY DEF Typed, LabelIsContent, Labelled
  <2>3. Labelled(<<>>)
    BY DEF Labelled
  <2>4. Labelled(down[s] \o frames)
    BY <1>1, <2>2, JoinedIsLabelled
  <2> QED BY <2>1, <2>2, <2>3, <2>4
<1>6. \A s \in Sessions : upward'[s] = upward[s] \/ upward'[s] = <<>>
  BY <1>2
<1> QED BY <1>3, <1>4, <1>5, <1>6

\* The fan-out tick.
LEMMA TickInv == Inv /\ Tick => Inv'
<1> SUFFICES ASSUME Inv, Tick PROVE Inv'
  OBVIOUS
<1> USE DEF Inv
<1>a. PICK refusing \in SUBSET Sessions :
        /\ TickSends(0, FALSE, refusing) /\ session' = Detached(session, refusing)
        /\ UNCHANGED <<version, recorded, mirror, held, nextAckId, queue, job, caller>>
  BY DEF Tick, Live
<1>b. /\ drained' \in Nat /\ drained' <= recorded
      /\ down' \in [Sessions -> Seq(Downward)] /\ upward' \in [Sessions -> Seq(Upward)]
      /\ LabelIsContent'
      /\ \A s \in Sessions : upward'[s] = upward[s] \/ upward'[s] = <<>>
  BY <1>a, TickPosts DEF Acknowledged
<1>c. /\ session' \in [Sessions -> Records]
      /\ \A s \in Sessions : /\ session'[s].owned \subseteq session[s].owned
                             /\ session'[s].ackedVersion = session[s].ackedVersion
  BY <1>a, DetachedKeeps
<1>1. Typed'
  BY <1>a, <1>b, <1>c DEF Typed
<1>2. Queued'
  BY <1>1, <1>a, <1>c, QueuedStays
<1>3. Requests'
  BY <1>1, <1>a, <1>b, RequestsStay
<1>4. Acknowledged'
  <2> USE DEF Acknowledged
  <2>1. \A s \in Sessions : held[s] <= held'[s] /\ session'[s].ackedVersion <= held'[s]
    BY <1>a, <1>c DEF AckIsHeld, Typed
  <2>2. AckIsHeld'
    BY <1>1, <1>b, <2>1, AcksStay
  <2>3. version <= version'
    BY <1>a DEF Typed
  <2>4. WaitCovers' /\ ConfirmedMeansApplied'
    BY <1>1, <1>a, <2>1, <2>3, WaitsStay
  <2> QED BY <1>b, <2>2, <2>4
<1> QED BY <1>1, <1>2, <1>3, <1>4

\* flushTickAcked posts and starts to wait.
LEMMA FlushInv == ASSUME NEW j \in Jobs PROVE Inv /\ Flush(j) => Inv'
<1> SUFFICES ASSUME Inv, Flush(j) PROVE Inv'
  OBVIOUS
<1> USE DEF Inv
<1> DEFINE id == IF Live = {} THEN 0 ELSE nextAckId
           old == job[j]
           asking == [old EXCEPT !.phase = "waiting", !.ackId = nextAckId, !.target = version,
                                 !.asked = Live]
           new == IF Live = {} \/ Deltas(0, j \in Resyncs) = <<>>
                  THEN [old EXCEPT !.phase = "yielding"] ELSE Satisfied(session', asking)
<1>a. PICK refusing \in SUBSET Sessions :
        /\ TickSends(id, j \in Resyncs, refusing) /\ session' = Detached(session, refusing)
        /\ UNCHANGED <<version, recorded, mirror, held, queue, caller>>
        /\ nextAckId' = IF Live = {} THEN nextAckId ELSE nextAckId + 1
        /\ old.phase = "landed" /\ recorded >= old.landed
        /\ job' = [job EXCEPT ![j] = new]
  BY DEF Flush, Live
<1>0. /\ id \in Nat /\ nextAckId' \in Nat /\ old \in Requested /\ (j \in Resyncs) \in BOOLEAN
      /\ version \in Nat /\ nextAckId \in Nat /\ Live \subseteq Sessions
      /\ old.landed <= version /\ old.confirmed = {}
  <2>1. id \in Nat /\ nextAckId' \in Nat /\ old \in Requested /\ version \in Nat /\ nextAckId \in Nat
    BY <1>a DEF Typed
  <2>2. (j \in Resyncs) \in BOOLEAN /\ Live \subseteq Sessions
    BY DEF Live
  <2>3. old.landed <= version /\ old.confirmed = {}
    BY <1>a DEF Acknowledged, WaitCovers
  <2> QED BY <2>1, <2>2, <2>3
<1>b. /\ drained' \in Nat /\ drained' <= recorded
      /\ down' \in [Sessions -> Seq(Downward)] /\ upward' \in [Sessions -> Seq(Upward)]
      /\ LabelIsContent'
      /\ \A s \in Sessions : upward'[s] = upward[s] \/ upward'[s] = <<>>
  <2> HIDE DEF id
  <2> QED BY <1>a, <1>0, TickPosts DEF Acknowledged
<1>c. /\ session' \in [Sessions -> Records]
      /\ \A s \in Sessions : /\ session'[s].owned \subseteq session[s].owned
                             /\ session'[s].ackedVersion = session[s].ackedVersion
  BY <1>a, DetachedKeeps
<1>d. \A s \in Sessions : held[s] <= held'[s] /\ session'[s].ackedVersion <= held'[s]
  <2>1. \A s \in Sessions : held[s] \in Int /\ session[s].ackedVersion <= held[s]
    BY DEF Acknowledged, AckIsHeld, Typed
  <2> QED BY <1>a, <1>c, <2>1
<1>e. /\ asking \in Requested /\ asking.phase = "waiting" /\ asking.landed = old.landed
      /\ asking.target = version /\ asking.confirmed = {}
  <2> DEFINE a == [old EXCEPT !.phase = "waiting"]
             b == [a EXCEPT !.ackId = nextAckId]
             c == [b EXCEPT !.target = version]
             d == [c EXCEPT !.asked = Live]
  <2>1. a \in Requested /\ a.phase = "waiting" /\ a.landed = old.landed /\ a.confirmed = {}
    BY <1>0 DEF Requested, Phases, Running
  <2>2. asking = d
    BY <1>0 DEF Requested
  <2> HIDE DEF a, asking
  <2>3. b \in Requested /\ b.phase = "waiting" /\ b.landed = old.landed /\ b.confirmed = {}
    BY <1>0, <2>1 DEF Requested
  <2> HIDE DEF b
  <2>4. /\ c \in Requested /\ c.phase = "waiting" /\ c.landed = old.landed /\ c.confirmed = {}
        /\ c.target = version
    BY <1>0, <2>3 DEF Requested
  <2> HIDE DEF c
  <2> QED BY <1>0, <2>2, <2>4 DEF Requested
<1>f. /\ new \in Requested /\ new.phase \in {"waiting", "yielding"} /\ new.landed = old.landed
      /\ new.phase = "waiting" => new.confirmed = {} /\ new.target = version
      /\ \A s \in new.confirmed : held[s] >= new.landed
  <2>1. CASE Live = {} \/ Deltas(0, j \in Resyncs) = <<>>
    BY <2>1, <1>0 DEF Requested, Phases, Running
  <2>2. CASE ~(Live = {} \/ Deltas(0, j \in Resyncs) = <<>>)
    <3> HIDE DEF asking
    <3>1. new = Satisfied(session', asking)
      BY <2>2
    <3>2. asking.landed <= asking.target /\ \A s \in Sessions : session'[s].ackedVersion <= held[s]
      BY <1>0, <1>a, <1>d, <1>e
    <3> HIDE DEF new
    <3>3. /\ new \in Requested /\ new.phase \in {"waiting", "yielding"}
          /\ new.landed = asking.landed /\ new.target = asking.target
          /\ new.phase = "waiting" => new.confirmed = {}
          /\ \A s \in new.confirmed : held[s] >= asking.landed
      BY <1>c, <1>e, <3>1, <3>2, SatisfiedCounts
    <3> QED BY <1>e, <3>3
  <2> QED BY <2>1, <2>2
<1> HIDE DEF id, new, asking
<1>g. job'[j] = new /\ \A k \in Jobs \ {j} : job'[k] = job[k]
  BY <1>a DEF Typed
<1>1. Typed'
  <2>1. job' \in [Jobs -> Requested]
    BY <1>a, <1>f DEF Typed
  <2> QED BY <1>a, <1>b, <1>c, <1>0, <2>1 DEF Typed
<1>h. \A k \in Jobs : /\ job'[k].phase \in Running <=> job[k].phase \in Running
                      /\ job'[k].phase = "queued" <=> job[k].phase = "queued"
                      /\ job'[k].phase = "idle" <=> job[k].phase = "idle"
  BY <1>a, <1>f, <1>g DEF Running
<1>2. Queued'
  BY <1>1, <1>a, <1>c, <1>h, QueuedStays
<1>3. Requests'
  BY <1>1, <1>a, <1>b, <1>h, RequestsStay
<1>4. Acknowledged'
  <2> USE DEF Acknowledged
  <2>1. AckIsHeld'
    BY <1>1, <1>b, <1>d, AcksStay
  <2>2. WaitCovers'
    BY <1>a, <1>0, <1>f, <1>g DEF WaitCovers
  <2>3. ConfirmedMeansApplied'
    BY <1>a, <1>f, <1>g DEF ConfirmedMeansApplied
  <2> QED BY <1>b, <2>1, <2>2, <2>3
<1> QED BY <1>1, <1>2, <1>3, <1>4

\* giveUp: the wait ends on its timer.
LEMMA GiveUpInv == ASSUME NEW j \in Jobs PROVE Inv /\ GiveUp(j) => Inv'
<1> SUFFICES ASSUME Inv, GiveUp(j) PROVE Inv'
  OBVIOUS
<1> USE DEF Inv
<1> DEFINE old == job[j]
           new == Satisfied(session', old)
<1>a. /\ old.phase = "waiting" /\ job' = [job EXCEPT ![j] = new]
      /\ session' = [s \in Sessions |-> IF s \in Pending(session, old)
                                        THEN [session[s] EXCEPT !.capable = FALSE] ELSE session[s]]
      /\ UNCHANGED <<version, recorded, drained, down, upward, mirror, held, nextAckId,
                     queue, caller>>
  BY DEF GiveUp
<1>0. /\ old \in Requested /\ old.landed <= old.target /\ old.confirmed = {}
  BY <1>a DEF Typed, Acknowledged, WaitCovers
<1>c. /\ session' \in [Sessions -> Records]
      /\ \A s \in Sessions : /\ session'[s].owned \subseteq session[s].owned
                             /\ session'[s].ackedVersion = session[s].ackedVersion
  <2>1. \A s \in Sessions : /\ session[s] \in Records
                            /\ \/ session'[s] = session[s]
                               \/ session'[s] = [session[s] EXCEPT !.capable = FALSE]
    BY <1>a DEF Typed
  <2>2. \A r \in Records : /\ [r EXCEPT !.capable = FALSE] \in Records
                           /\ [r EXCEPT !.capable = FALSE].owned = r.owned
                           /\ [r EXCEPT !.capable = FALSE].ackedVersion = r.ackedVersion
    BY DEF Records
  <2>3. session' = [s \in Sessions |-> session'[s]]
    BY <1>a
  <2> QED BY <2>1, <2>2, <2>3
<1>d. \A s \in Sessions : held[s] <= held'[s] /\ session'[s].ackedVersion <= held'[s]
  BY <1>a, <1>c DEF Acknowledged, AckIsHeld, Typed
<1>f. /\ new \in Requested /\ new.phase \in {"waiting", "yielding"} /\ new.landed = old.landed
      /\ new.target = old.target
      /\ new.phase = "waiting" => new.confirmed = {}
      /\ \A s \in new.confirmed : held[s] >= new.landed
  <2>1. \A s \in Sessions : session'[s].ackedVersion <= held[s]
    BY <1>a, <1>d
  <2> QED BY <1>0, <1>a, <1>c, <2>1, SatisfiedCounts
<1> HIDE DEF new
<1>g. job'[j] = new /\ \A k \in Jobs \ {j} : job'[k] = job[k]
  BY <1>a DEF Typed
<1>1. Typed'
  <2>1. job' \in [Jobs -> Requested]
    BY <1>a, <1>f DEF Typed
  <2> QED BY <1>a, <1>c, <2>1 DEF Typed
<1>h. \A k \in Jobs : /\ job'[k].phase \in Running <=> job[k].phase \in Running
                      /\ job'[k].phase = "queued" <=> job[k].phase = "queued"
                      /\ job'[k].phase = "idle" <=> job[k].phase = "idle"
  BY <1>a, <1>f, <1>g DEF Running
<1>2. Queued'
  BY <1>1, <1>a, <1>c, <1>h, QueuedStays
<1>3. Requests'
  BY <1>1, <1>a, <1>h, RequestsStay
<1>4. Acknowledged'
  <2> USE DEF Acknowledged
  <2>1. LabelIsContent'
    BY <1>a DEF LabelIsContent
  <2>2. AckIsHeld'
    BY <1>1, <1>a, <1>d, AcksStay
  <2>3. WaitCovers'
    BY <1>a, <1>0, <1>f, <1>g DEF WaitCovers
  <2>4. ConfirmedMeansApplied'
    BY <1>a, <1>f, <1>g DEF ConfirmedMeansApplied
  <2> QED BY <2>1, <2>2, <2>3, <2>4
<1> QED BY <1>1, <1>2, <1>3, <1>4

-----------------------------------------------------------------------------
(* handleMessage *)

\* The head of a channel is taken: what is left was there, one place further on.
LEMMA HeadTaken ==
  ASSUME Typed, NEW s \in Sessions, upward[s] # <<>>,
         upward' = [upward EXCEPT ![s] = Tail(upward[s])]
  PROVE  /\ upward' \in [Sessions -> Seq(Upward)]
         /\ Delivered(upward[s], upward'[s])
         /\ \A t \in Sessions : t # s => upward'[t] = upward[t]
         /\ Head(upward[s]) = upward[s][1] /\ Head(upward[s]) \in Upward
         /\ Len(upward[s]) > 0
BY DEF Typed, Delivered

\* A session that moves to another state keeps its other fields, and the other
\* sessions.
LEMMA StateChanges ==
  ASSUME Typed, NEW s \in Sessions, NEW x \in States, session' = [session EXCEPT ![s].state = x]
  PROVE  /\ session' \in [Sessions -> Records]
         /\ \A t \in Sessions : /\ session'[t].owned \subseteq session[t].owned
                                /\ session'[t].ackedVersion = session[t].ackedVersion
<1> DEFINE r == session[s]
           q == [r EXCEPT !.state = x]
<1>1. session \in [Sessions -> Records] /\ r \in Records
  BY DEF Typed
<1>2. q \in Records /\ q.owned = r.owned /\ q.ackedVersion = r.ackedVersion
  BY <1>1 DEF Records
<1>3. session' = [session EXCEPT ![s] = q]
  BY <1>1
<1> HIDE DEF q
<1> QED BY <1>1, <1>2, <1>3

\* The host takes a handshake.
LEMMA HandleHandshakeInv ==
  ASSUME Inv, NEW s \in Sessions, upward[s] # <<>>, HandleHandshake(s, Tail(upward[s])),
         UNCHANGED <<version, recorded, drained, mirror, held, nextAckId, caller>>
  PROVE  Inv'
<1> USE DEF Inv
<1> DEFINE f == [kind |-> "snapshot", version |-> version, holds |-> version, ackId |-> 0]
<1>a. /\ session' = [session EXCEPT ![s].state = "handshook"]
      /\ down' = [down EXCEPT ![s] = Append(@, f)]
      /\ upward' = [upward EXCEPT ![s] = Tail(upward[s])]
      /\ UNCHANGED <<queue, job>>
  BY DEF HandleHandshake
<1>b. f \in Downward /\ f.version = f.holds
  <2>1. version \in Int
    BY DEF Typed
  <2> QED BY <2>1 DEF Downward
<1> HIDE DEF f
<1>c. /\ session' \in [Sessions -> Records]
      /\ \A t \in Sessions : /\ session'[t].owned \subseteq session[t].owned
                             /\ session'[t].ackedVersion = session[t].ackedVersion
  BY <1>a, StateChanges DEF States
<1>d. /\ upward' \in [Sessions -> Seq(Upward)]
      /\ \A t \in Sessions : upward'[t] = upward[t] \/ Delivered(upward[t], upward'[t])
  BY <1>a, HeadTaken
<1>e. /\ down' \in [Sessions -> Seq(Downward)]
      /\ \A t \in Sessions : down'[t] = down[t] \/ Sent(down[t], down'[t], f)
  BY <1>a, <1>b DEF Typed, Sent
<1>1. Typed'
  BY <1>a, <1>c, <1>d, <1>e DEF Typed
<1>2. Queued'
  BY <1>1, <1>a, <1>c, QueuedStays
<1>3. Requests'
  BY <1>1, <1>a, <1>d, RequestsStay
<1>4. Acknowledged'
  <2>1. \A t \in Sessions :
          \/ down'[t] = down[t] \/ down'[t] = <<>> \/ Delivered(down[t], down'[t])
          \/ \E g \in Downward : /\ g.kind = "result" \/ g.version = g.holds
                                 /\ Sent(down[t], down'[t], g)
    BY <1>b, <1>e
  <2>2. version <= version'
    BY DEF Typed
  <2> QED BY <1>1, <1>a, <1>c, <1>d, <2>1, <2>2, AcknowledgedStays
<1> QED BY <1>1, <1>2, <1>3, <1>4

\* The host takes a request.
LEMMA HandleRequestInv ==
  ASSUME Inv, NEW s \in Sessions, upward[s] # <<>>, Head(upward[s]).kind = "request",
         HandleRequest(s, Head(upward[s]).job, Tail(upward[s])),
         UNCHANGED <<version, recorded, drained, mirror, held, nextAckId, caller>>
  PROVE  Inv'
<1> USE DEF Inv
<1> DEFINE j == Head(upward[s]).job
           p == IF j \in Calls THEN "native" ELSE "queued"
<1>a. /\ queue' = IF j \in Calls THEN queue ELSE Append(queue, j)
      /\ job' = [job EXCEPT ![j].phase = p]
      /\ upward' = [upward EXCEPT ![s] = Tail(upward[s])]
      /\ UNCHANGED <<session, down>>
  BY DEF HandleRequest
<1>b. /\ upward' \in [Sessions -> Seq(Upward)] /\ Delivered(upward[s], upward'[s])
      /\ \A t \in Sessions : t # s => upward'[t] = upward[t]
      /\ Head(upward[s]) = upward[s][1] /\ Head(upward[s]) \in Upward /\ 1 \in 1..Len(upward[s])
      /\ upward[s] \in Seq(Upward)
  <2>1. Len(upward[s]) \in Nat /\ upward[s] \in Seq(Upward)
    BY DEF Typed
  <2>2. upward' = [upward EXCEPT ![s] = Tail(upward[s])]
    BY <1>a
  <2>3. /\ upward' \in [Sessions -> Seq(Upward)] /\ Delivered(upward[s], upward'[s])
        /\ \A t \in Sessions : t # s => upward'[t] = upward[t]
        /\ Head(upward[s]) = upward[s][1] /\ Head(upward[s]) \in Upward /\ Len(upward[s]) > 0
    BY <2>2, HeadTaken
  <2> QED BY <2>1, <2>3
<1>c. j \in Jobs /\ Owner[j] = s /\ job[j].phase = "idle" /\ caller[j] # "none"
  BY <1>b, UpwardFrames DEF Requests, RequestIsFresh
<1>d. PhaseOnly(j, p)
  <2>1. p \in Phases
    BY DEF Phases, Running
  <2> HIDE DEF p
  <2> QED BY <1>a, <1>c, <2>1, PhaseChanges
<1> USE DEF PhaseOnly
<1> HIDE DEF j
<1>1. Typed'
  <2>1. queue' \in Seq(Jobs)
    BY <1>a, <1>c DEF Typed
  <2> QED BY <1>a, <1>b, <1>d, <2>1 DEF Typed
<1>2. Queued'
  <2> USE DEF Queued
  <2>0. /\ queue \in Seq(Jobs)
        /\ \A i \in 1..Len(queue) : queue[i] \in Jobs /\ queue[i] # j
    <3>1. queue \in Seq(Jobs)
      BY DEF Typed
    <3>2. \A i \in 1..Len(queue) : queue[i] \in Jobs
      BY <3>1
    <3>3. \A i \in 1..Len(queue) : job[queue[i]].phase # "idle"
      BY DEF QueueIsUnfinished, Running
    <3> QED BY <1>c, <3>1, <3>2, <3>3
  <2>1. /\ \A i \in 1..Len(queue) : i \in 1..Len(queue') /\ queue'[i] = queue[i]
        /\ j \in Calls => queue' = queue
        /\ j \notin Calls => Len(queue') = Len(queue) + 1 /\ queue'[Len(queue) + 1] = j
        /\ queue # <<>> => queue' # <<>> /\ Head(queue') = Head(queue)
    <3>1. CASE j \in Calls
      BY <1>a, <2>0, <3>1
    <3>2. CASE j \notin Calls
      <4>1. queue' = Append(queue, j)
        BY <1>a, <3>2
      <4> QED BY <1>c, <2>0, <3>2, <4>1
    <3> QED BY <3>1, <3>2
  <2>2. HeadRuns'
    BY <1>d, <2>1 DEF HeadRuns, Running
  <2>3. QueuedIsInQueue'
    <3> SUFFICES ASSUME NEW k \in Jobs, job'[k].phase = "queued"
                 PROVE  k \notin Calls /\ \E i \in 1..Len(queue') : queue'[i] = k
      BY DEF QueuedIsInQueue
    <3>1. CASE k = j
      <4>1. j \notin Calls
        BY <1>d, <3>1
      <4>2. Len(queue) + 1 \in 1..Len(queue')
        BY <2>0, <2>1, <4>1
      <4> QED BY <2>1, <3>1, <4>1, <4>2
    <3>2. CASE k # j
      <4>1. k \notin Calls /\ \E i \in 1..Len(queue) : queue[i] = k
        BY <1>d, <3>2 DEF QueuedIsInQueue
      <4> QED BY <2>1, <4>1
    <3> QED BY <3>1, <3>2
  <2>4. \A i \in 1..Len(queue') : \/ i \in 1..Len(queue) /\ queue'[i] = queue[i]
                                  \/ j \notin Calls /\ i = Len(queue) + 1 /\ queue'[i] = j
    BY <2>0, <2>1
  <2>5. QueueIsUnfinished'
    <3> SUFFICES ASSUME NEW i \in 1..Len(queue')
                 PROVE  /\ queue'[i] \notin Calls
                        /\ job'[queue'[i]].phase \in Running \cup {"queued"}
      BY DEF QueueIsUnfinished
    <3> QED BY <1>c, <1>d, <2>0, <2>4 DEF QueueIsUnfinished
  <2>6. QueueIsDistinct'
    BY <2>0, <2>4 DEF QueueIsDistinct
  <2>7. ClaimIsRunning'
    BY <1>a, <2>1 DEF ClaimIsRunning
  <2> QED BY <2>2, <2>3, <2>5, <2>6, <2>7
<1>3. Requests'
  <2> USE DEF Requests
  <2>1. NotMadeIsIdle'
    BY <1>c, <1>d DEF NotMadeIsIdle
  <2>2. \A t \in Sessions : \A i \in 1..Len(upward'[t]) :
          \/ t # s /\ i \in 1..Len(upward[t]) /\ upward'[t][i] = upward[t][i]
          \/ t = s /\ i + 1 \in 1..Len(upward[t]) /\ upward'[t][i] = upward[t][i + 1]
    <3> SUFFICES ASSUME NEW t \in Sessions, NEW i \in 1..Len(upward'[t])
                 PROVE  \/ t # s /\ i \in 1..Len(upward[t]) /\ upward'[t][i] = upward[t][i]
                        \/ /\ t = s /\ i + 1 \in 1..Len(upward[t])
                           /\ upward'[t][i] = upward[t][i + 1]
      OBVIOUS
    <3>1. CASE t # s
      BY <1>b, <3>1
    <3>2. CASE t = s
      <4>1. upward[s] # <<>> /\ upward'[s] = Tail(upward[s]) /\ upward[s] \in Seq(Upward)
        BY <1>b DEF Delivered
      <4> QED BY <3>2, <4>1
    <3> QED BY <3>1, <3>2
  <2>3. RequestIsFresh'
    <3> SUFFICES ASSUME NEW t \in Sessions, NEW i \in 1..Len(upward'[t]),
                        upward'[t][i].kind = "request"
                 PROVE  LET k == upward'[t][i].job
                        IN  Owner[k] = t /\ job'[k].phase = "idle" /\ caller'[k] # "none"
      BY DEF RequestIsFresh
    <3>1. PICK m \in 1..Len(upward[t]) : upward'[t][i] = upward[t][m] /\ (t = s => m # 1)
      BY <2>2
    <3>2. upward[t][m] \in Upward
      BY DEF Typed
    <3>3. LET k == upward[t][m].job
          IN  k \in Jobs /\ Owner[k] = t /\ job[k].phase = "idle" /\ caller[k] # "none"
      BY <3>1, <3>2, UpwardFrames DEF RequestIsFresh
    <3>4. upward[t][m].job # j
      BY <1>b, <1>c, <3>1, <3>3 DEF RequestIsOnce, j
    <3> QED BY <1>d, <3>1, <3>3, <3>4
  <2>4. RequestIsOnce'
    <3> SUFFICES ASSUME NEW t \in Sessions, NEW i \in 1..Len(upward'[t]),
                        NEW k \in 1..Len(upward'[t]),
                        upward'[t][i].kind = "request", upward'[t][k].kind = "request",
                        upward'[t][i].job = upward'[t][k].job
                 PROVE  i = k
      BY DEF RequestIsOnce
    <3>1. CASE t # s
      BY <2>2, <3>1 DEF RequestIsOnce
    <3>2. CASE t = s
      <4>1. /\ i + 1 \in 1..Len(upward[s]) /\ upward'[s][i] = upward[s][i + 1]
            /\ k + 1 \in 1..Len(upward[s]) /\ upward'[s][k] = upward[s][k + 1]
        BY <2>2, <3>2
      <4>2. i + 1 = k + 1
        BY <3>2, <4>1 DEF RequestIsOnce
      <4> QED BY <4>2
    <3> QED BY <3>1, <3>2
  <2> QED BY <2>1, <2>3, <2>4
<1>4. Acknowledged'
  <2>1. \A k \in Jobs :
          /\ job'[k].landed = job[k].landed /\ job'[k].target = job[k].target
          /\ job'[k].confirmed = job[k].confirmed
          /\ job'[k].phase = "waiting" => job[k].phase = "waiting"
          /\ job[k].phase \in {"yielding", "done"} => job'[k].phase \in {"yielding", "done"}
    BY <1>c, <1>d
  <2>2. \A t \in Sessions : upward'[t] = upward[t] \/ Delivered(upward[t], upward'[t])
    BY <1>b
  <2>3. version <= version'
    BY DEF Typed
  <2> QED BY <1>1, <1>a, <2>1, <2>2, <2>3, AcknowledgedStays
<1> QED BY <1>1, <1>2, <1>3, <1>4

\* The host takes an acknowledgement.
LEMMA HandleAckInv ==
  ASSUME Inv, NEW s \in Sessions, upward[s] # <<>>, Head(upward[s]).kind = "ack",
         HandleAck(s, Head(upward[s]), Tail(upward[s])),
         UNCHANGED <<version, recorded, drained, mirror, held, nextAckId, caller>>
  PROVE  Inv'
<1> USE DEF Inv
<1> DEFINE f == Head(upward[s])
           old == session[s]
           id == old.ackedId
           v == IF f.version > old.ackedVersion THEN f.version ELSE old.ackedVersion
           w == IF f.ackId > 0 THEN (IF f.ackId > id THEN f.ackId ELSE id)
                ELSE IF id = 0 THEN NoId ELSE id
           new == [old EXCEPT !.capable = TRUE, !.ackedVersion = v, !.ackedId = w]
<1>a. /\ session' = [session EXCEPT ![s] = new]
      /\ job' = [j \in Jobs |->
           IF job[j].phase = "waiting" THEN Satisfied(session', job[j]) ELSE job[j]]
      /\ upward' = [upward EXCEPT ![s] = Tail(upward[s])]
      /\ UNCHANGED <<down, queue>>
  BY DEF HandleAck
<1>b. /\ upward' \in [Sessions -> Seq(Upward)] /\ Delivered(upward[s], upward'[s])
      /\ \A t \in Sessions : t # s => upward'[t] = upward[t]
      /\ f = upward[s][1] /\ f \in Upward /\ 1 \in 1..Len(upward[s])
  <2>1. Len(upward[s]) \in Nat
    BY DEF Typed
  <2>2. upward' = [upward EXCEPT ![s] = Tail(upward[s])]
    BY <1>a
  <2>3. /\ upward' \in [Sessions -> Seq(Upward)] /\ Delivered(upward[s], upward'[s])
        /\ \A t \in Sessions : t # s => upward'[t] = upward[t]
        /\ Head(upward[s]) = upward[s][1] /\ Head(upward[s]) \in Upward /\ Len(upward[s]) > 0
    BY <2>2, HeadTaken
  <2> QED BY <2>1, <2>3
<1>c. f.version \in Int /\ f.ackId \in Int /\ f.version <= held[s] /\ held[s] \in Int
  <2>1. f.version <= held[s]
    BY <1>b DEF Acknowledged, AckIsHeld
  <2> QED BY <1>b, <2>1, UpwardFrames DEF Typed
<1> HIDE DEF f
<1>d. old \in Records /\ old.ackedVersion <= held[s] /\ old.ackedVersion \in Int /\ id \in Int
  BY DEF Typed, Records, Acknowledged, AckIsHeld
<1>e. v \in Int /\ w \in Int /\ v <= held[s]
  BY <1>c, <1>d DEF NoId
<1> HIDE DEF v, w
<1>f. new \in Records /\ new.ackedVersion = v /\ new.owned = old.owned
  <2> DEFINE a == [old EXCEPT !.capable = TRUE]
             b == [a EXCEPT !.ackedVersion = v]
             c == [b EXCEPT !.ackedId = w]
  <2>1. new = c
    BY <1>d DEF Records
  <2>2. a \in Records /\ a.owned = old.owned
    BY <1>d DEF Records
  <2> HIDE DEF a, new
  <2>3. b \in Records /\ b.owned = old.owned /\ b.ackedVersion = v
    BY <1>e, <2>2 DEF Records
  <2> HIDE DEF b
  <2> QED BY <1>e, <2>1, <2>3 DEF Records
<1> HIDE DEF new
<1>g. /\ session' \in [Sessions -> Records]
      /\ \A t \in Sessions : session'[t].owned \subseteq session[t].owned
      /\ \A t \in Sessions : held[t] <= held'[t] /\ session'[t].ackedVersion <= held'[t]
  <2>1. \A t \in Sessions : held[t] \in Int /\ session[t].ackedVersion <= held[t]
    BY DEF Typed, Acknowledged, AckIsHeld
  <2>2. session'[s] = new /\ \A t \in Sessions : t # s => session'[t] = session[t]
    BY <1>a DEF Typed
  <2>3. session' \in [Sessions -> Records]
    BY <1>a, <1>f DEF Typed
  <2> QED BY <1>e, <1>f, <2>1, <2>2, <2>3
<1>h. \A j \in Jobs :
        /\ job[j].phase # "waiting" => job'[j] = job[j]
        /\ job[j].phase = "waiting" =>
             /\ job'[j] \in Requested /\ job'[j].phase \in {"waiting", "yielding"}
             /\ job'[j].landed = job[j].landed /\ job'[j].target = job[j].target
             /\ job'[j].phase = "waiting" => job'[j].confirmed = {}
             /\ \A t \in job'[j].confirmed : held[t] >= job'[j].landed
  <2> SUFFICES ASSUME NEW j \in Jobs, job[j].phase = "waiting"
               PROVE  /\ job'[j] \in Requested /\ job'[j].phase \in {"waiting", "yielding"}
                      /\ job'[j].landed = job[j].landed /\ job'[j].target = job[j].target
                      /\ job'[j].phase = "waiting" => job'[j].confirmed = {}
                      /\ \A t \in job'[j].confirmed : held[t] >= job'[j].landed
    BY <1>a
  <2>1. job'[j] = Satisfied(session', job[j])
    BY <1>a
  <2>2. job[j] \in Requested /\ job[j].landed <= job[j].target /\ job[j].confirmed = {}
    BY DEF Typed, Acknowledged, WaitCovers
  <2>3. \A t \in Sessions : session'[t].ackedVersion <= held[t]
    BY <1>g
  <2> QED BY <1>g, <2>1, <2>2, <2>3, SatisfiedCounts
<1>1. Typed'
  <2>1. job' \in [Jobs -> Requested]
    <3>1. job' = [j \in Jobs |-> job'[j]] /\ \A j \in Jobs : job[j] \in Requested
      BY <1>a DEF Typed
    <3> QED BY <1>h, <3>1
  <2> QED BY <1>a, <1>b, <1>g, <2>1 DEF Typed
<1>i. \A j \in Jobs : /\ job'[j].phase \in Running <=> job[j].phase \in Running
                      /\ job'[j].phase = "queued" <=> job[j].phase = "queued"
                      /\ job'[j].phase = "idle" <=> job[j].phase = "idle"
  BY <1>h DEF Running
<1>j. \A t \in Sessions : upward'[t] = upward[t] \/ Delivered(upward[t], upward'[t])
  BY <1>b
<1>2. Queued'
  BY <1>1, <1>a, <1>g, <1>i, QueuedStays
<1>3. Requests'
  BY <1>1, <1>i, <1>j, RequestsStay
<1>4. Acknowledged'
  <2> USE DEF Acknowledged
  <2>1. LabelIsContent'
    BY <1>a DEF LabelIsContent
  <2>2. AckIsHeld'
    BY <1>1, <1>g, <1>j, AcksStay
  <2>3. WaitCovers'
    BY <1>h DEF WaitCovers
  <2>4. ConfirmedMeansApplied'
    BY <1>h DEF ConfirmedMeansApplied
  <2> QED BY <2>1, <2>2, <2>3, <2>4
<1> QED BY <1>1, <1>2, <1>3, <1>4

\* The session goes, and both directions of its channel with it.
LEMMA DetachInv ==
  ASSUME Inv, NEW s \in Sessions, session' = Detached(session, {s}),
         down' = [down EXCEPT ![s] = <<>>], upward' = [upward EXCEPT ![s] = <<>>],
         UNCHANGED <<version, recorded, drained, mirror, held, nextAckId, queue, job, caller>>
  PROVE  Inv'
<1> USE DEF Inv
<1>a. /\ session' \in [Sessions -> Records]
      /\ \A t \in Sessions : /\ session'[t].owned \subseteq session[t].owned
                             /\ session'[t].ackedVersion = session[t].ackedVersion
  BY DetachedKeeps
<1>b. /\ down' \in [Sessions -> Seq(Downward)] /\ upward' \in [Sessions -> Seq(Upward)]
      /\ \A t \in Sessions : /\ down'[t] = down[t] \/ down'[t] = <<>>
                             /\ upward'[t] = upward[t] \/ upward'[t] = <<>>
  BY DEF Typed
<1>1. Typed'
  BY <1>a, <1>b DEF Typed
<1>2. Queued'
  BY <1>1, <1>a, QueuedStays
<1>3. Requests'
  BY <1>1, <1>b, RequestsStay
<1>4. Acknowledged'
  <2>1. version <= version'
    BY DEF Typed
  <2> QED BY <1>1, <1>a, <1>b, <2>1, AcknowledgedStays
<1> QED BY <1>1, <1>2, <1>3, <1>4

\* handleMessage, whatever the frame.
LEMMA HandleInv == ASSUME NEW s \in Sessions PROVE Inv /\ Handle(s) => Inv'
<1> SUFFICES ASSUME Inv, Handle(s) PROVE Inv'
  OBVIOUS
<1>a. upward[s] # <<>> /\ UNCHANGED <<version, recorded, drained, mirror, held, nextAckId, caller>>
  BY DEF Handle
<1>1. CASE HandleHandshake(s, Tail(upward[s]))
  BY <1>1, <1>a, HandleHandshakeInv
<1>2. CASE Head(upward[s]).kind = "request" /\ HandleRequest(s, Head(upward[s]).job, Tail(upward[s]))
  BY <1>2, <1>a, HandleRequestInv
<1>3. CASE Head(upward[s]).kind = "ack" /\ HandleAck(s, Head(upward[s]), Tail(upward[s]))
  BY <1>3, <1>a, HandleAckInv
<1>4. CASE HandleDispose(s)
  BY <1>4, <1>a, DetachInv DEF HandleDispose
<1> QED BY <1>1, <1>2, <1>3, <1>4 DEF Handle

-----------------------------------------------------------------------------
(* Channels and clients. *)

\* A session attaches and greets.
LEMMA AttachInv == ASSUME NEW s \in Sessions PROVE Inv /\ Attach(s) => Inv'
<1> SUFFICES ASSUME Inv, Attach(s) PROVE Inv'
  OBVIOUS
<1> USE DEF Inv
<1> DEFINE f == [kind |-> "handshake"]
<1>a. /\ session' = [session EXCEPT ![s].state = "attached"]
      /\ upward' = [upward EXCEPT ![s] = <<f>>]
      /\ UNCHANGED <<version, recorded, drained, down, mirror, held, nextAckId, queue, job,
                     caller>>
  BY DEF Attach
<1>b. f \in Upward /\ f.kind = "handshake"
  BY UpwardFrames
<1> HIDE DEF f
<1>c. /\ session' \in [Sessions -> Records]
      /\ \A t \in Sessions : /\ session'[t].owned \subseteq session[t].owned
                             /\ session'[t].ackedVersion = session[t].ackedVersion
  BY <1>a, StateChanges DEF States
<1>d. /\ upward' \in [Sessions -> Seq(Upward)]
      /\ \A t \in Sessions : t # s => upward'[t] = upward[t]
      /\ upward'[s] = <<f>>
  BY <1>a, <1>b DEF Typed
<1>1. Typed'
  BY <1>a, <1>c, <1>d DEF Typed
<1>2. Queued'
  BY <1>1, <1>a, <1>c, QueuedStays
<1>e. \A t \in Sessions : \A i \in 1..Len(upward'[t]) :
        upward'[t][i].kind \in {"request", "ack"} => upward'[t] = upward[t]
  <2>1. \A i \in 1..Len(upward'[s]) : upward'[s][i] = f
    BY <1>d
  <2> QED BY <1>b, <1>d, <2>1
<1>3. Requests'
  <2> USE DEF Requests
  <2>1. NotMadeIsIdle'
    BY <1>a DEF NotMadeIsIdle
  <2>2. RequestIsFresh'
    BY <1>a, <1>e DEF RequestIsFresh
  <2>3. RequestIsOnce'
    BY <1>a, <1>e DEF RequestIsOnce
  <2> QED BY <2>1, <2>2, <2>3
<1>4. Acknowledged'
  <2> USE DEF Acknowledged
  <2>1. LabelIsContent'
    BY <1>a DEF LabelIsContent
  <2>2. AckIsHeld'
    BY <1>a, <1>c, <1>e DEF AckIsHeld
  <2>3. WaitCovers' /\ ConfirmedMeansApplied'
    BY <1>a DEF WaitCovers, ConfirmedMeansApplied
  <2> QED BY <2>1, <2>2, <2>3
<1> QED BY <1>1, <1>2, <1>3, <1>4

\* A channel dies.
LEMMA BreakInv == ASSUME NEW s \in Sessions PROVE Inv /\ Break(s) => Inv'
BY DetachInv DEF Break

\* The promises of a session's client fail.
LEMMA RejectedKeeps ==
  ASSUME Typed, NEW s \in Sessions, caller' = Rejected(s)
  PROVE  /\ caller' \in [Jobs -> {"none", "pending", "resolved", "rejected"}]
         /\ \A j \in Jobs : caller[j] = "none" <=> caller'[j] = "none"
BY DEF Rejected, Typed

\* The client hears that its channel closed.
LEMMA HearCloseInv == ASSUME NEW s \in Sessions PROVE Inv /\ HearClose(s) => Inv'
<1> SUFFICES ASSUME Inv, HearClose(s) PROVE Inv'
  OBVIOUS
<1> USE DEF Inv
<1>a. /\ caller' = Rejected(s)
      /\ UNCHANGED <<version, recorded, drained, session, down, upward, mirror, held, nextAckId,
                     queue, job>>
  BY DEF HearClose
<1>1. Typed'
  BY <1>a, RejectedKeeps DEF Typed
<1>2. Queued'
  BY <1>1, <1>a, QueuedStays
<1>3. Requests'
  BY <1>1, <1>a, RejectedKeeps, RequestsStay
<1>4. Acknowledged'
  <2>1. version <= version'
    BY <1>a DEF Typed
  <2> QED BY <1>1, <1>a, <2>1, AcknowledgedStays
<1> QED BY <1>1, <1>2, <1>3, <1>4

\* The client disposes of its explorer.
LEMMA DisposeInv == ASSUME NEW s \in Sessions PROVE Inv /\ Dispose(s) => Inv'
<1> SUFFICES ASSUME Inv, Dispose(s) PROVE Inv'
  OBVIOUS
<1> USE DEF Inv
<1> DEFINE f == [kind |-> "dispose"]
<1>a. /\ caller' = Rejected(s)
      /\ upward' = [upward EXCEPT ![s] = Append(@, f)] /\ down' = [down EXCEPT ![s] = <<>>]
      /\ UNCHANGED <<version, recorded, drained, session, mirror, held, nextAckId, queue, job>>
  BY DEF Dispose
<1>b. f \in Upward /\ f.kind # "request" /\ f.kind # "ack"
  BY UpwardFrames
<1> HIDE DEF f
<1>c. /\ upward' \in [Sessions -> Seq(Upward)] /\ down' \in [Sessions -> Seq(Downward)]
      /\ \A t \in Sessions : /\ upward'[t] = upward[t] \/ Sent(upward[t], upward'[t], f)
                             /\ down'[t] = down[t] \/ down'[t] = <<>>
  BY <1>a, <1>b DEF Typed, Sent
<1>1. Typed'
  BY <1>a, <1>c, RejectedKeeps DEF Typed
<1>2. Queued'
  BY <1>1, <1>a, QueuedStays
<1>d. \A t \in Sessions :
        \/ upward'[t] = upward[t] \/ upward'[t] = <<>> \/ Delivered(upward[t], upward'[t])
        \/ \E g \in Upward : /\ g.kind # "request" /\ g.kind # "ack"
                             /\ Sent(upward[t], upward'[t], g)
  BY <1>b, <1>c
<1>3. Requests'
  BY <1>1, <1>a, <1>d, RejectedKeeps, RequestsStay
<1>4. Acknowledged'
  <2>1. version <= version'
    BY <1>a DEF Typed
  <2> QED BY <1>1, <1>a, <1>c, <1>d, <2>1, AcknowledgedStays
<1> QED BY <1>1, <1>2, <1>3, <1>4

\* A client applies a snapshot or a delta.
LEMMA ReceiveInv == ASSUME NEW s \in Sessions PROVE Inv /\ Receive(s) => Inv'
<1> SUFFICES ASSUME Inv, Receive(s) PROVE Inv'
  OBVIOUS
<1> USE DEF Inv
<1> DEFINE f == Head(down[s])
           v == IF f.version > mirror[s] THEN f.version ELSE mirror[s]
           h == IF f.holds > held[s] THEN f.holds ELSE held[s]
           a == [kind |-> "ack", version |-> v,
                 ackId |-> IF s \in VersionOnly THEN 0 ELSE f.ackId]
<1>a. /\ down[s] # <<>> /\ f.kind # "result"
      /\ mirror' = [mirror EXCEPT ![s] = v] /\ held' = [held EXCEPT ![s] = h]
      /\ upward' = [upward EXCEPT ![s] = IF f.ackId = 0 THEN @ ELSE Append(@, a)]
      /\ down' = [down EXCEPT ![s] = Tail(@)]
      /\ UNCHANGED <<version, recorded, drained, session, nextAckId, queue, job, caller>>
  BY DEF Receive, Typed
<1>b. /\ f \in Downward /\ f = down[s][1] /\ 1 \in 1..Len(down[s])
      /\ down' \in [Sessions -> Seq(Downward)]
      /\ \A t \in Sessions : down'[t] = down[t] \/ Delivered(down[t], down'[t])
  <2>1. down[s] \in Seq(Downward) /\ down \in [Sessions -> Seq(Downward)]
    BY DEF Typed
  <2> QED BY <1>a, <2>1 DEF Delivered
<1>c. /\ f.version = f.holds /\ mirror = held
  BY <1>a, <1>b DEF Acknowledged, LabelIsContent
<1>d. f.version \in Int /\ f.ackId \in Int
  BY <1>a, <1>b, DownwardFrames
<1>e. mirror[s] \in Int /\ held[s] \in Int
  BY DEF Typed
<1> HIDE DEF f
<1>f. v = h /\ v \in Int /\ held[s] <= h
  BY <1>c, <1>d, <1>e
<1> HIDE DEF v, h
<1>g. a \in Upward /\ a.kind = "ack" /\ a.version = v
  BY <1>d, <1>f, UpwardFrames
<1> HIDE DEF a
<1>h. /\ upward' \in [Sessions -> Seq(Upward)]
      /\ \A t \in Sessions : upward'[t] = upward[t] \/ (t = s /\ Sent(upward[t], upward'[t], a))
  BY <1>a, <1>g DEF Typed, Sent
<1>i. /\ mirror' \in [Sessions -> Int] /\ held' \in [Sessions -> Int] /\ mirror' = held'
      /\ held'[s] = v /\ \A t \in Sessions : held[t] <= held'[t]
  BY <1>a, <1>c, <1>f DEF Typed
<1>1. Typed'
  BY <1>a, <1>b, <1>h, <1>i DEF Typed
<1>2. Queued'
  BY <1>1, <1>a, QueuedStays
<1>3. Requests'
  <2>1. \A t \in Sessions :
          \/ upward'[t] = upward[t] \/ upward'[t] = <<>> \/ Delivered(upward[t], upward'[t])
          \/ \E g \in Upward : g.kind # "request" /\ Sent(upward[t], upward'[t], g)
    BY <1>g, <1>h
  <2> QED BY <1>1, <1>a, <2>1, RequestsStay
<1>4. Acknowledged'
  <2> USE DEF Acknowledged
  <2>1. LabelIsContent'
    BY <1>1, <1>b, <1>i, LabelStays
  <2>2. \A t \in Sessions : held[t] <= held'[t] /\ session'[t].ackedVersion <= held'[t]
    <3>1. \A t \in Sessions : /\ session[t].ackedVersion <= held[t] /\ held[t] \in Int
                              /\ session[t].ackedVersion \in Int /\ held'[t] \in Int
      BY <1>i DEF AckIsHeld, Typed, Records
    <3> QED BY <1>a, <1>i, <3>1
  <2>3. \A t \in Sessions :
           \/ upward'[t] = upward[t] \/ upward'[t] = <<>> \/ Delivered(upward[t], upward'[t])
           \/ \E g \in Upward : /\ g.kind = "ack" => g.version <= held'[t]
                                /\ Sent(upward[t], upward'[t], g)
    <3>1. v <= v
      BY <1>f
    <3> QED BY <1>g, <1>h, <1>i, <3>1
  <2>4. AckIsHeld'
    BY <1>1, <2>2, <2>3, AcksStay
  <2>5. version <= version'
    BY <1>a DEF Typed
  <2>6. WaitCovers' /\ ConfirmedMeansApplied'
    BY <1>1, <1>a, <1>i, <2>5, WaitsStay
  <2> QED BY <2>1, <2>4, <2>6
<1> QED BY <1>1, <1>2, <1>3, <1>4

\* A client takes a result.
LEMMA ReceiveResultInv == ASSUME NEW s \in Sessions PROVE Inv /\ ReceiveResult(s) => Inv'
<1> SUFFICES ASSUME Inv, ReceiveResult(s) PROVE Inv'
  OBVIOUS
<1> USE DEF Inv
<1> DEFINE f == Head(down[s])
<1>a. /\ down[s] # <<>>
      /\ caller' = [caller EXCEPT ![f.job] = IF @ = "pending" THEN "resolved" ELSE @]
      /\ down' = [down EXCEPT ![s] = Tail(@)]
      /\ UNCHANGED <<version, recorded, drained, session, upward, mirror, held, nextAckId,
                     queue, job>>
  BY DEF ReceiveResult
<1>b. /\ down' \in [Sessions -> Seq(Downward)]
      /\ \A t \in Sessions : down'[t] = down[t] \/ Delivered(down[t], down'[t])
  <2>1. down[s] \in Seq(Downward) /\ down \in [Sessions -> Seq(Downward)]
    BY DEF Typed
  <2> QED BY <1>a, <2>1 DEF Delivered
<1>c. /\ caller' \in [Jobs -> {"none", "pending", "resolved", "rejected"}]
      /\ \A j \in Jobs : caller[j] = "none" <=> caller'[j] = "none"
  BY <1>a DEF Typed
<1>1. Typed'
  BY <1>a, <1>b, <1>c DEF Typed
<1>2. Queued'
  BY <1>1, <1>a, QueuedStays
<1>3. Requests'
  BY <1>1, <1>a, <1>c, RequestsStay
<1>4. Acknowledged'
  <2>1. version <= version'
    BY <1>a DEF Typed
  <2> QED BY <1>1, <1>a, <1>b, <2>1, AcknowledgedStays
<1> QED BY <1>1, <1>2, <1>3, <1>4

-----------------------------------------------------------------------------
\* Every step keeps the invariant.
LEMMA NextInv == Inv /\ [Next]_vars => Inv'
<1> SUFFICES ASSUME Inv, [Next]_vars PROVE Inv'
  OBVIOUS
<1>1. CASE Next
  <2>1. CASE Record \/ External \/ Tick
    BY <2>1, RecordInv, ExternalInv, TickInv
  <2>2. ASSUME NEW j \in Jobs, Request(j) \/ Run(j) \/ Terminal(j) \/ GiveUp(j)
        PROVE  Inv'
    BY <2>2, RequestInv, DispatchInv, LandingInv, LandCallInv, FlushInv, ReplyMutationInv,
       ReplyCallInv, TerminalInv, GiveUpInv DEF Run, LandMutation
  <2>3. ASSUME NEW s \in Sessions,
               \/ Attach(s) \/ Handle(s) \/ Receive(s) \/ ReceiveResult(s)
               \/ Break(s) \/ HearClose(s) \/ Dispose(s)
        PROVE  Inv'
    BY <2>3, AttachInv, HandleInv, ReceiveInv, ReceiveResultInv, BreakInv, HearCloseInv,
       DisposeInv
  <2> QED BY <1>1, <2>1, <2>2, <2>3 DEF Next
<1>2. CASE UNCHANGED vars
  BY <1>2 DEF vars, Inv, Typed, Queued, HeadRuns, QueuedIsInQueue, QueueIsUnfinished,
     QueueIsDistinct, ClaimIsRunning, Requests, NotMadeIsIdle, RequestIsFresh, RequestIsOnce,
     Acknowledged, LabelIsContent, AckIsHeld, WaitCovers, ConfirmedMeansApplied
<1> QED BY <1>1, <1>2

\* The inductive invariant holds in every reachable state.
LEMMA Invariant == Spec => []Inv
BY InitInv, NextInv, PTL DEF Spec

-----------------------------------------------------------------------------
(* The results. *)

\* A session counted as caught up when a synchronization point ended has the
\* request's change in its mirror, however waits, ticks, acknowledgements and
\* detaches overlapped (flushTickAcked).
THEOREM AcksMeanApplied == Spec => []ConfirmedMeansApplied
<1>1. Inv => ConfirmedMeansApplied
  BY DEF Inv, Acknowledged
<1> QED BY <1>1, Invariant, PTL

\* An operation id is owned only by the mutation at the head of the queue and
\* by the session that made it (handleMutate's finally).
THEOREM ClaimsAreRunning == Spec => []ClaimIsRunning
<1>1. Inv => ClaimIsRunning
  BY DEF Inv, Queued
<1> QED BY <1>1, Invariant, PTL

\* Mutations run one at a time, whatever becomes of their sessions: at most
\* one is past the mutation queue, and each is in it once (mutationQueue).
OneMutationRuns ==
  /\ \A j, k \in Jobs \ Calls :
       job[j].phase \in Running /\ job[k].phase \in Running => j = k
  /\ IsInjective(queue)

\* mutationQueue serializes the host's mutations for any number of sessions
\* and requests.
THEOREM MutationsTakeTurns == Spec => []OneMutationRuns
<1>1. Inv => OneMutationRuns
  <2> SUFFICES ASSUME Inv PROVE OneMutationRuns
    OBVIOUS
  <2>1. \A j, k \in Jobs \ Calls : job[j].phase \in Running /\ job[k].phase \in Running => j = k
    BY DEF Inv, Queued, HeadRuns
  <2>2. DOMAIN queue = 1..Len(queue)
    BY DEF Inv, Typed
  <2>3. IsInjective(queue)
    BY <2>2 DEF IsInjective, Inv, Queued, QueueIsDistinct
  <2> QED BY <2>1, <2>3 DEF OneMutationRuns
<1> QED BY <1>1, Invariant, PTL
=============================================================================
