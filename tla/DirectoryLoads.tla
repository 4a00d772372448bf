--------------------------- MODULE DirectoryLoads ---------------------------
(***************************************************************************)
(* Lazy directory hydration, as packages/mille/src/host.ts shares it among *)
(* the windows (sessions) attached to one host.                            *)
(*                                                                         *)
(* A session that expands a directory whose listing is not complete joins  *)
(* (or starts) one load task for that directory; every session that keeps  *)
(* the directory expanded is interested in it.  The task reads the         *)
(* directory, and then the single-directory chain below it that the        *)
(* compact-folder projection shows as one row, and ends with a frame to    *)
(* each interested session.  Meanwhile sessions collapse, come and go,     *)
(* resyncs supersede the task, and the directory may be deleted.           *)
(*                                                                         *)
(* The client half is the directory-load part of the mirror                *)
(* (mirror-reducer.ts, client-port.ts): a spinner must not outlive the     *)
(* host's promise to end it.                                               *)
(*                                                                         *)
(* Abstractions.  Entries are members of Dirs; Chain[d] is the longest     *)
(* chain d can head (<<d>> when compact folders are off), and the one the  *)
(* snapshot shows ends at the first directory that holds something else    *)
(* beside the next one, which the watcher may change at any time. Session  *)
(* ids are handed out in attach order, which is the order in which the     *)
(* host iterates its session map.  Attaching includes the handshake.  A    *)
(* request names one directory.  Frames about different directories        *)
(* commute in the mirror, so each (session, directory) pair has its own    *)
(* FIFO.  Of the delta frames only the removals matter here; one that      *)
(* carries a child count may clear a pending mark early, which is left     *)
(* out.  The depth bound of 256 on chains is never reached, and Dirs holds *)
(* directories only (a file that nests others is answered without a task). *)
(***************************************************************************)
EXTENDS Integers, Sequences

CONSTANTS
  Sessions,      \* session ids, in attach order
  Dirs,          \* expandable entries
  Chain,         \* Dirs -> Seq(Dirs): the longest compact chain of a directory
  SendMayFail,   \* whether a channel can refuse a send before the host
                 \* has been told that it closed
  MaxRequests,   \* bound: setExpanded requests made by all clients
  MaxResyncs     \* bound: resync calls that complete an open directory

ASSUME SessionsAssumption == Sessions \subseteq Nat
ASSUME DirsAssumption == Dirs # {}
ASSUME ChainAssumption ==
  /\ Chain \in [Dirs -> Seq(Dirs)]
  /\ \A d \in Dirs : Len(Chain[d]) > 0 /\ Chain[d][1] = d
  /\ \A d \in Dirs : \A i \in 1..Len(Chain[d]) :
       Chain[Chain[d][i]] = SubSeq(Chain[d], i, Len(Chain[d]))
ASSUME BoundAssumption == MaxRequests \in Nat /\ MaxResyncs \in Nat
ASSUME SendAssumption == SendMayFail \in BOOLEAN

VARIABLES
  port,        \* session -> life of its channel, seen from the host
  expanded,    \* session -> directories the host believes it has open
  present,     \* directories in the native snapshot
  loaded,      \* directories whose listing is complete in it
  forked,      \* directories with another child in it beside the chain's
  unsent,      \* removals not yet drained by a tick
  current,     \* the directoryLoads map: directory -> generation, 0 = none
  tasks,       \* generation -> load task
  nextGen,     \* nextDirectoryLoadGeneration
  told,        \* history: last load frame sent, per session and directory
  toHost,      \* session -> FIFO of setExpanded requests
  toClient,    \* session -> directory -> FIFO of load frames
  mirror,      \* session -> directory -> the client's view of it
  requests,    \* setExpanded requests so far
  resyncs      \* completing resync calls so far

vars == <<port, expanded, present, loaded, forked, unsent, current, tasks, nextGen,
          told, toHost, toClient, mirror, requests, resyncs>>

hostVars   == <<port, expanded, current, tasks, nextGen, told>>
nativeVars == <<present, loaded, forked, unsent>>
clientVars == <<toHost, mirror, requests, resyncs>>

\* A request or a resync takes at most one load generation.
MaxGen == MaxRequests + MaxResyncs
Gens == 1..MaxGen

Ports  == {"unattached", "open", "dead", "detached"}
Phases == {"check", "reading", "flush", "fail", "cancel", "done"}
States == {"none", "loading", "complete", "error", "cancelled", "removed"}

Tasks   == [dir : Dirs, interested : SUBSET Sessions, cancelled : BOOLEAN,
            phase : Phases, at : Nat, forks : SUBSET Dirs]
Frames  == [state : States, gen : Nat]
Records == [expanded : BOOLEAN, pending : BOOLEAN,
            load : {"none", "loading", "error"}, gen : Nat]

NoFrame  == [state |-> "none", gen |-> 0]
Removed  == [state |-> "removed", gen |-> 0]
NoRecord == [expanded |-> FALSE, pending |-> FALSE, load |-> "none", gen |-> 0]

\* A generation that names no live task.
NoTask == [dir |-> CHOOSE d \in Dirs : TRUE, interested |-> {},
           cancelled |-> TRUE, phase |-> "done", at |-> 0, forks |-> {}]

TypeOK ==
  /\ port \in [Sessions -> Ports]
  /\ expanded \in [Sessions -> SUBSET Dirs]
  /\ present \subseteq Dirs
  /\ loaded \subseteq Dirs
  /\ forked \subseteq Dirs
  /\ unsent \subseteq Dirs
  /\ current \in [Dirs -> 0..MaxGen]
  /\ tasks \in [Gens -> Tasks]
  /\ nextGen \in 1..(MaxGen + 1)
  /\ told \in [Sessions -> [Dirs -> Frames]]
  /\ toHost \in [Sessions -> Seq([op : {"add", "remove"}, dir : Dirs])]
  /\ toClient \in [Sessions -> [Dirs -> Seq(Frames)]]
  /\ mirror \in [Sessions -> [Dirs -> Records]]
  /\ requests \in 0..MaxRequests
  /\ resyncs \in 0..MaxResyncs

-----------------------------------------------------------------------------
(* The native snapshot. *)

\* Positions of d's chain, after the i-th, that still need a disk listing,
\* given the listings L and the forks F.  The loop asks for the root's own
\* listing even when the entry is gone; below it, the chain ends where an
\* entry is missing and at the first fork.
Unlisted(d, i, L, F) ==
  {j \in (i + 1)..Len(Chain[d]) :
     /\ Chain[d][j] \notin L
     /\ j = 1 \/ Chain[d][j] \in present
     /\ \A k \in i..(j - 1) : k = 0 \/ Chain[d][k] \notin F}

\* directoryChildrenLoaded(d) and not compactChainNeedsLoad(d).
Listed(d, L, F) == Unlisted(d, 0, L, F) = {}

First(S) == CHOOSE i \in S : \A j \in S : i <= j

Attached == {s \in Sessions : port[s] \in {"open", "dead"}}

-----------------------------------------------------------------------------
(* Frames and detaching. *)

\* Removal frames for the directories of R go to every attached session
\* (Dirs are rows every window has been shown), then one frame f per pair of
\* P.  Only an open channel takes them.
Post(R, P, f) ==
  /\ toClient' = [s \in Sessions |-> [d \in Dirs |->
       IF port[s] # "open" THEN toClient[s][d]
       ELSE toClient[s][d] \o (IF d \in R THEN <<Removed>> ELSE <<>>)
                           \o (IF <<s, d>> \in P THEN <<f>> ELSE <<>>)]]
  /\ told' = [s \in Sessions |-> [d \in Dirs |->
       IF port[s] # "open" THEN told[s][d]
       ELSE IF <<s, d>> \in P THEN f
       ELSE IF d \in R THEN Removed
       ELSE told[s][d]]]

\* Sessions whose channel throws on one of those frames: the host detaches
\* them there and then.
Failing(R, S) == {s \in Attached : port[s] = "dead" /\ (s \in S \/ R # {})}

\* releaseDirectoryLoad(p, d, false) for every p of B and every d that p has
\* expanded: the mapped tasks lose B, and one left with nobody is cancelled.
Release(T, cur, B) ==
  [g \in Gens |->
     IF cur[T[g].dir] = g /\ (\E p \in B : T[g].dir \in expanded[p])
     THEN [T[g] EXCEPT !.interested = T[g].interested \ B,
                       !.cancelled = T[g].cancelled \/ (T[g].interested \ B = {})]
     ELSE T[g]]

\* detachSession for every session of B, given the sets left expanded.
Detach(B, E) ==
  /\ port' = [s \in Sessions |-> IF s \in B THEN "detached" ELSE port[s]]
  /\ expanded' = [s \in Sessions |-> IF s \in B THEN {} ELSE E[s]]

\* What a closed connection leaves behind: nothing on the wire.
DropWire(s) ==
  /\ toHost' = [toHost EXCEPT ![s] = <<>>]
  /\ toClient' = [toClient EXCEPT ![s] = [d \in Dirs |-> <<>>]]
  /\ told' = [told EXCEPT ![s] = [d \in Dirs |-> NoFrame]]
  /\ mirror' = [mirror EXCEPT ![s] = [d \in Dirs |-> NoRecord]]

-----------------------------------------------------------------------------
(* Session lifecycle. *)

Attach(s) ==
  /\ port[s] = "unattached"
  /\ \A r \in Sessions : r < s => port[r] # "unattached"
  /\ port' = [port EXCEPT ![s] = "open"]
  /\ UNCHANGED <<expanded, nativeVars, current, tasks, nextGen, told, toClient,
                 clientVars>>

\* The peer is gone; the next send throws, the close event comes later.
Die(s) ==
  /\ SendMayFail
  /\ port[s] = "open"
  /\ port' = [port EXCEPT ![s] = "dead"]
  /\ DropWire(s)
  /\ UNCHANGED <<expanded, nativeVars, current, tasks, nextGen, requests, resyncs>>

\* channel.onClose, the client's dispose frame, or a send that failed in a tick.
DetachSession(s) ==
  /\ s \in Attached
  /\ Detach({s}, expanded)
  /\ tasks' = Release(tasks, current, {s})
  /\ DropWire(s)
  /\ UNCHANGED <<nativeVars, current, nextGen, requests, resyncs>>

-----------------------------------------------------------------------------
(* setExpanded on the host. *)

\* tick, then completeDirectoryLoads: retire the tasks of C and tell every
\* session that has one of them open, under a fresh generation.
CompleteDirectoryLoads(C, E) ==
  LET cur  == [d \in Dirs |-> IF d \in C THEN 0 ELSE current[d]]
      done == [g \in Gens |-> IF \E d \in C : current[d] = g
                              THEN [tasks[g] EXCEPT !.cancelled = TRUE]
                              ELSE tasks[g]]
      P    == {x \in Attached \X C : x[2] \in E[x[1]]}
      B    == Failing(unsent, {s \in Attached : E[s] \cap C # {}})
  IN  /\ nextGen <= MaxGen
      /\ current' = cur
      /\ tasks' = Release(done, cur, B)
      /\ Post(unsent, P, [state |-> "complete", gen |-> nextGen])
      /\ Detach(B, E)
      /\ nextGen' = nextGen + 1
      /\ unsent' = {}

\* joinDirectoryLoad: a task that was cancelled is replaced.  The session
\* loop sends one frame at a time; a peer that is detached in the loop
\* releases the task before the peers after it have joined, so the task is
\* cancelled exactly when the first peer's channel throws.
StartLoad(d, E) ==
  LET P   == {p \in Attached : d \in E[p]}
      B   == Failing({}, P)
      cur == [current EXCEPT ![d] = nextGen]
      new == [dir |-> d, interested |-> P \ B, cancelled |-> First(P) \in B,
              phase |-> "check", at |-> 0, forks |-> {}]
  IN  /\ nextGen <= MaxGen
      /\ current' = cur
      /\ tasks' = Release([tasks EXCEPT ![nextGen] = new], cur, B)
      /\ Post({}, P \X {d}, [state |-> "loading", gen |-> nextGen])
      /\ Detach(B, E)
      /\ nextGen' = nextGen + 1
      /\ UNCHANGED unsent

\* The bug a shared task invites: joining does not register the session.
JoinLoadUnregistered(s, d, E) ==
  /\ Post({}, {<<s, d>>}, [state |-> "loading", gen |-> current[d]])
  /\ expanded' = E
  /\ UNCHANGED <<port, current, nextGen, tasks, unsent>>

JoinLoad(s, d, E) ==
  /\ tasks' = [tasks EXCEPT ![current[d]].interested = @ \cup {s}]
  /\ Post({}, {<<s, d>>}, [state |-> "loading", gen |-> current[d]])
  /\ expanded' = E
  /\ UNCHANGED <<port, current, nextGen, unsent>>

HandleAdd(s, d) ==
  LET E    == [expanded EXCEPT ![s] = @ \cup {d}]
      live == current[d] # 0 /\ ~tasks[current[d]].cancelled
  IN  \/ /\ d \notin present
         /\ Post({}, {<<s, d>>}, [state |-> "error", gen |-> 0])
         /\ expanded' = E
         /\ UNCHANGED <<port, current, tasks, nextGen, unsent>>
      \/ /\ d \in present /\ Listed(d, loaded, forked)
         /\ CompleteDirectoryLoads({d}, E)
      \/ /\ d \in present /\ ~Listed(d, loaded, forked) /\ live
         /\ JoinLoad(s, d, E)
      \/ /\ d \in present /\ ~Listed(d, loaded, forked) /\ ~live
         /\ StartLoad(d, E)

\* A collapse that forgets the last window's interest.
HandleRemoveNoCancel(s, d) ==
  LET g == current[d]
      E == [expanded EXCEPT ![s] = @ \ {d}]
  IN  /\ expanded' = E
      /\ IF g = 0
         THEN UNCHANGED <<tasks, told, toClient>>
         ELSE /\ tasks' = [tasks EXCEPT ![g].interested = @ \ {s}]
              /\ Post({}, {<<s, d>>}, [state |-> "cancelled", gen |-> g])
      /\ UNCHANGED <<port, current, nextGen, unsent>>

\* releaseDirectoryLoad with its notification.
HandleRemove(s, d) ==
  LET g == current[d]
      E == [expanded EXCEPT ![s] = @ \ {d}]
  IN  /\ expanded' = E
      /\ IF g = 0
         THEN UNCHANGED <<tasks, told, toClient>>
         ELSE /\ tasks' = [tasks EXCEPT
                   ![g].interested = @ \ {s},
                   ![g].cancelled = @ \/ (tasks[g].interested \ {s} = {})]
              /\ Post({}, {<<s, d>>}, [state |-> "cancelled", gen |-> g])
      /\ UNCHANGED <<port, current, nextGen, unsent>>

HandleSetExpanded(s) ==
  /\ port[s] = "open"
  /\ toHost[s] # <<>>
  /\ LET r == Head(toHost[s])
     IN  IF r.op = "add" THEN HandleAdd(s, r.dir) ELSE HandleRemove(s, r.dir)
  /\ toHost' = [toHost EXCEPT ![s] = Tail(@)]
  /\ UNCHANGED <<present, loaded, forked, mirror, requests, resyncs>>

-----------------------------------------------------------------------------
(* runDirectoryLoad. *)

Superseded(g) == current[tasks[g].dir] # g

\* The finally block: leave the map if this task still owns its slot.
EndTask(g, T) ==
  /\ tasks' = [T EXCEPT ![g] = NoTask]
  /\ current' = [d \in Dirs |-> IF current[d] = g THEN 0 ELSE current[d]]

\* An await in the task: nothing on the wire, nobody leaves.
Quiet == UNCHANGED <<port, expanded, told, toClient, unsent>>

\* flushTickNow: the tick it starts with; the task resumes in phase ph.  The
\* forks are kept as history: the task has looked at them for the last time.
FlushTickNow(g, ph) ==
  LET B == Failing(unsent, {})
  IN  /\ Post(unsent, {}, NoFrame)
      /\ tasks' = Release([tasks EXCEPT ![g].phase = ph, ![g].forks = forked], current, B)
      /\ Detach(B, expanded)
      /\ unsent' = {}
      /\ UNCHANGED current

\* A loop that stops at the root although compact folders are on.
ContinueRootOnly(g, i, L) ==
  LET t == tasks[g]
  IN  \/ /\ i = 0 /\ t.dir \notin L
         /\ tasks' = [tasks EXCEPT ![g].phase = "reading", ![g].at = 1]
         /\ Quiet /\ UNCHANGED current
      \/ /\ i > 0 \/ t.dir \in L
         /\ FlushTickNow(g, "flush")

\* From position i of the chain (0: before the root) to the next await.  The
\* loop test runs again only while the chain goes on; the map is consulted
\* only after the loop.
Continue(g, i, L) ==
  LET t    == tasks[g]
      c    == Chain[t.dir]
      rest == Unlisted(t.dir, i, L, forked)
      loop == i > 0 => i < Len(c) /\ c[i + 1] \in present /\ c[i] \notin forked
      stop == \/ loop /\ (t.cancelled \/ t.interested = {})
              \/ rest = {} /\ (t.cancelled \/ Superseded(g))
  IN  \/ stop /\ EndTask(g, tasks) /\ Quiet
      \/ /\ ~stop /\ rest # {}
         /\ tasks' = [tasks EXCEPT ![g].phase = "reading", ![g].at = First(rest)]
         /\ Quiet /\ UNCHANGED current
      \/ ~stop /\ rest = {} /\ FlushTickNow(g, "flush")

RunDirectoryLoad(g) ==
  /\ tasks[g].phase = "check"
  /\ Continue(g, 0, loaded)
  /\ UNCHANGED <<nextGen, present, loaded, forked, clientVars>>

\* resyncProgressive resolved: the listing is complete and published.
ReadOk(g) ==
  LET d == Chain[tasks[g].dir][tasks[g].at]
  IN  /\ tasks[g].phase = "reading"
      /\ d \in present
      /\ loaded' = loaded \cup {d}
      /\ Continue(g, tasks[g].at, loaded \cup {d})
      /\ UNCHANGED <<nextGen, present, forked, clientVars>>

\* resyncProgressive rejected, with ECANCELED or another code.
ReadFails(g, code) ==
  /\ tasks[g].phase = "reading"
  /\ IF Superseded(g)
     THEN EndTask(g, tasks) /\ Quiet
     ELSE FlushTickNow(g, IF tasks[g].cancelled \/ code = "ECANCELED"
                          THEN "cancel" ELSE "fail")
  /\ UNCHANGED <<nextGen, present, loaded, forked, clientVars>>

\* A completion that does not look again after the flush.
FinishUnchecked(g) ==
  LET d == tasks[g].dir
      S == {s \in tasks[g].interested : s \in Attached /\ d \in expanded[s]}
      B == Failing({}, S)
  IN  /\ tasks[g].phase = "flush"
      /\ Post({}, S \X {d}, [state |-> "complete", gen |-> g])
      /\ EndTask(g, Release(tasks, current, B))
      /\ Detach(B, expanded)
      /\ UNCHANGED <<nextGen, nativeVars, clientVars>>

\* After flushTickNow: complete, unless cancelled or superseded meanwhile.
FinishOk(g) ==
  LET d    == tasks[g].dir
      S    == {s \in tasks[g].interested : s \in Attached /\ d \in expanded[s]}
      B    == Failing({}, S)
      skip == Superseded(g) \/ tasks[g].cancelled
  IN  /\ tasks[g].phase = "flush"
      /\ IF skip
         THEN /\ EndTask(g, tasks)
              /\ UNCHANGED <<port, expanded, told, toClient>>
         ELSE /\ Post({}, S \X {d}, [state |-> "complete", gen |-> g])
              /\ EndTask(g, Release(tasks, current, B))
              /\ Detach(B, expanded)
      /\ UNCHANGED <<nextGen, nativeVars, clientVars>>

\* After flushTickNow in the catch block.
FinishFailed(g) ==
  LET d == tasks[g].dir
      S == {s \in tasks[g].interested : s \in Attached}
      B == Failing({}, S)
  IN  /\ tasks[g].phase \in {"fail", "cancel"}
      /\ IF Superseded(g)
         THEN /\ EndTask(g, tasks)
              /\ UNCHANGED <<port, expanded, told, toClient>>
         ELSE /\ Post({}, S \X {d},
                     [state |-> IF tasks[g].phase = "fail"
                                THEN "error" ELSE "cancelled",
                      gen |-> g])
              /\ EndTask(g, Release(tasks, current, B))
              /\ Detach(B, expanded)
      /\ UNCHANGED <<nextGen, nativeVars, clientVars>>

-----------------------------------------------------------------------------
(* Resync, deletion and the tick. *)

\* Another native read (the watcher, a resync whose call has not returned)
\* publishes a complete listing.
NativeList(d) ==
  /\ d \in present \ loaded
  /\ loaded' = loaded \cup {d}
  /\ UNCHANGED <<hostVars, present, forked, unsent, toClient, clientVars>>

\* The watcher adds another child to a directory of a chain, or removes the
\* last one: the chain ends there, or goes on below.
Siblings(d) ==
  /\ d \in present /\ Len(Chain[d]) > 1
  /\ forked' = IF d \in forked THEN forked \ {d} ELSE forked \cup {d}
  /\ UNCHANGED <<hostVars, present, loaded, unsent, toClient, clientVars>>

\* completeDirectoryLoadsAfterResync: the open directories a resync of d
\* covers (all below d when recursive, and the compact ancestors of d) whose
\* chain is now known, given the listings L.
Recovered(d, recursive, L) ==
  LET chain == {Chain[d][i] : i \in 1..Len(Chain[d])}
      above == {a \in Dirs : \E i \in 1..Len(Chain[a]) : Chain[a][i] = d}
      open  == UNION {expanded[s] : s \in Attached}
      cover == above \cup (IF recursive THEN chain ELSE {d})
  IN  {c \in open \cap cover : c \in L /\ Listed(c, L, forked)}

\* A session's resync call returns, or resyncWorkspace when recursive from a
\* root: the first n directories from d down have been listed; a tick, and
\* every directory the call recovers is completed.
Resync(d, recursive, n) ==
  LET L == loaded \cup ({Chain[d][i] : i \in 1..n} \cap present)
      C == Recovered(d, recursive, L)
  IN  /\ d \in present
      /\ n = 1 \/ recursive
      /\ loaded' = L
      /\ \/ /\ C = {}
            /\ Post(unsent, {}, NoFrame)
            /\ tasks' = Release(tasks, current, Failing(unsent, {}))
            /\ Detach(Failing(unsent, {}), expanded)
            /\ unsent' = {}
            /\ UNCHANGED <<current, nextGen, resyncs>>
         \/ /\ C # {} /\ resyncs < MaxResyncs
            /\ CompleteDirectoryLoads(C, expanded)
            /\ resyncs' = resyncs + 1
      /\ UNCHANGED <<present, forked, toHost, mirror, requests>>

\* The directory disappears from the disk and from the snapshot, with the
\* chain below it.
RemoveDir(d) ==
  LET below == {Chain[d][i] : i \in 1..Len(Chain[d])}
  IN  /\ d \in present
      /\ present' = present \ below
      /\ loaded' = loaded \ below
      /\ unsent' = unsent \cup (below \cap present)
      /\ forked' = forked \ below
      /\ UNCHANGED <<hostVars, clientVars, toClient>>

\* The fan-out tick: every window drops the removed entries it knew.
Tick ==
  LET B == Failing(unsent, {})
  IN  /\ unsent # {}
      /\ Post(unsent, {}, NoFrame)
      /\ tasks' = Release(tasks, current, B)
      /\ Detach(B, expanded)
      /\ unsent' = {}
      /\ UNCHANGED <<present, loaded, forked, current, nextGen, clientVars>>

-----------------------------------------------------------------------------
(* The client. *)

Request(s, d, op) ==
  /\ port[s] = "open"
  /\ requests < MaxRequests
  /\ requests' = requests + 1
  /\ toHost' = [toHost EXCEPT ![s] = Append(@, [op |-> op, dir |-> d])]
  /\ UNCHANGED <<hostVars, nativeVars, toClient, resyncs>>

\* setExpanded({add: [d]}): pending until the host answers.  A retry after
\* an error adds a directory that is already expanded.
ClientExpand(s, d) ==
  /\ Request(s, d, "add")
  /\ mirror' = [mirror EXCEPT ![s][d] =
       [expanded |-> TRUE, pending |-> TRUE, load |-> "none", gen |-> 0]]

ClientCollapse(s, d) ==
  /\ mirror[s][d].expanded
  /\ Request(s, d, "remove")
  /\ mirror' = [mirror EXCEPT ![s][d] = NoRecord]

\* A mirror that keeps the last frame whatever it says.
RetainedAlways(r, f) ==
  [r EXCEPT !.pending = (f.state = "loading"), !.load = f.state, !.gen = f.gen]

\* The record a frame leaves: loading and error are retained with their
\* generation, the two other ends delete it.
Retained(r, f) ==
  LET kept == f.state \in {"loading", "error"}
  IN  [r EXCEPT !.pending = (f.state = "loading"),
                !.load = IF kept THEN f.state ELSE "none",
                !.gen  = IF kept THEN f.gen ELSE 0]

\* A staleness guard that also drops the frames of the same generation.
AppliedOnce(r, f) ==
  IF f.state = "removed" THEN NoRecord
  ELSE IF r.load # "none" /\ f.gen <= r.gen THEN r
  ELSE Retained(r, f)

\* applyDirectoryLoad, and the removal part of applyDelta.
Applied(r, f) ==
  IF f.state = "removed" THEN NoRecord
  ELSE IF r.load # "none" /\ f.gen < r.gen THEN r
  ELSE Retained(r, f)

ClientApply(s, d) ==
  /\ port[s] = "open"
  /\ toClient[s][d] # <<>>
  /\ mirror' = [mirror EXCEPT ![s][d] = Applied(@, Head(toClient[s][d]))]
  /\ toClient' = [toClient EXCEPT ![s][d] = Tail(@)]
  /\ UNCHANGED <<hostVars, nativeVars, toHost, requests, resyncs>>

-----------------------------------------------------------------------------
Init ==
  /\ port = [s \in Sessions |-> "unattached"]
  /\ expanded = [s \in Sessions |-> {}]
  /\ present = Dirs
  /\ loaded = {} /\ forked = {}
  /\ unsent = {}
  /\ current = [d \in Dirs |-> 0]
  /\ tasks = [g \in Gens |-> NoTask]
  /\ nextGen = 1
  /\ told = [s \in Sessions |-> [d \in Dirs |-> NoFrame]]
  /\ toHost = [s \in Sessions |-> <<>>]
  /\ toClient = [s \in Sessions |-> [d \in Dirs |-> <<>>]]
  /\ mirror = [s \in Sessions |-> [d \in Dirs |-> NoRecord]]
  /\ requests = 0
  /\ resyncs = 0

Next ==
  \/ \E s \in Sessions :
       \/ Attach(s)
       \/ Die(s)
       \/ DetachSession(s)
       \/ HandleSetExpanded(s)
       \/ \E d \in Dirs :
            ClientExpand(s, d) \/ ClientCollapse(s, d) \/ ClientApply(s, d)
  \/ \E g \in Gens :
       \/ RunDirectoryLoad(g)
       \/ ReadOk(g)
       \/ \E code \in {"ECANCELED", "EIO"} : ReadFails(g, code)
       \/ FinishOk(g)
       \/ FinishFailed(g)
  \/ \E d \in Dirs :
       \/ RemoveDir(d)
       \/ NativeList(d)
       \/ Siblings(d)
       \/ \E rec \in BOOLEAN, n \in 1..Len(Chain[d]) : Resync(d, rec, n)
  \/ Tick

\* The event loop runs what is queued on it, channels deliver, and every
\* native read settles one way or the other.  Users, the disk and
\* connections owe nothing.
Fairness ==
  /\ \A s \in Sessions :
       /\ WF_vars(HandleSetExpanded(s))
       /\ \A d \in Dirs : WF_vars(ClientApply(s, d))
  /\ \A g \in Gens :
       /\ WF_vars(RunDirectoryLoad(g))
       /\ WF_vars(ReadOk(g) \/ \E code \in {"ECANCELED", "EIO"} : ReadFails(g, code))
       /\ WF_vars(FinishOk(g) \/ FinishFailed(g))

Spec == Init /\ [][Next]_vars
FairSpec == Spec /\ Fairness

-----------------------------------------------------------------------------
(* Properties. *)

\* A session whose last word about a directory is "loading" is owed an end:
\* the host still has that very task in its map, not cancelled, with the
\* session among those it will answer.  Otherwise the spinner never stops
\* (host.ts joinDirectoryLoad / releaseDirectoryLoad / runDirectoryLoad).
LoadingIsOwed ==
  \A s \in Sessions, d \in Dirs :
    port[s] = "open" /\ told[s][d].state = "loading" =>
      /\ told[s][d].gen \in Gens
      /\ current[d] = told[s][d].gen
      /\ ~tasks[current[d]].cancelled
      /\ s \in tasks[current[d]].interested

\* A mapped task serves only sessions that have its directory open, and all
\* of them while the directory exists; it is cancelled exactly when nobody
\* is left.  No read goes on for a window that left, and no window is left
\* out of a shared one.
InterestIsExpansion ==
  \A d \in Dirs : current[d] # 0 =>
    LET t    == tasks[current[d]]
        open == {s \in Attached : d \in expanded[s]}
    IN  /\ t.interested \subseteq open
        /\ d \in present => t.interested = open
        /\ t.cancelled <=> (t.interested = {})

\* The stale-generation guard of applyDirectoryLoad never has to drop a
\* frame of a real generation: on each channel generations only grow, and
\* what the mirror retains is not newer than what is still in flight.
NoFrameIsStale ==
  \A s \in Sessions, d \in Dirs :
    LET q == toClient[s][d]
    IN  \A i \in 1..Len(q) : q[i].gen # 0 =>
          /\ mirror[s][d].load # "none" => mirror[s][d].gen <= q[i].gen
          /\ \A j \in 1..i : q[j].gen <= q[i].gen

\* The forks a task of generation g looked at before its flush.
Seen(g) == IF g \in Gens THEN tasks[g].forks ELSE {}

\* "complete" is only sent for a directory that still exists when its whole
\* compact chain is listed, however far the chain grew while the task read it.
\* Only what the watcher joins to the chain while the task waits for its last
\* tick is left out, since runDirectoryLoad does not look again after it.
CompleteMeansListed ==
  [][\A s \in Sessions, d \in Dirs :
       (told'[s][d].state = "complete" /\ told'[s][d] # told[s][d]
          /\ d \in present) =>
         Listed(d, loaded', forked' \cup Seen(told'[s][d].gen))]_vars

\* As the code puts it, without the exception: "Completion follows the
\* authoritative projected structure on the same ordered channel".
CompleteIsListed ==
  [][\A s \in Sessions, d \in Dirs :
       (told'[s][d].state = "complete" /\ told'[s][d] # told[s][d]
          /\ d \in present) => Listed(d, loaded', forked')]_vars

\* A window never spins for ever on a directory: a client that shows
\* "loading" (directoryLoadState) comes to show something else, or its
\* connection ends.
LoadSettles ==
  \A s \in Sessions, d \in Dirs :
    (port[s] = "open" /\ (mirror[s][d].pending \/ mirror[s][d].load = "loading"))
      ~> (port[s] # "open" \/ ~(mirror[s][d].pending \/ mirror[s][d].load = "loading"))
=============================================================================
