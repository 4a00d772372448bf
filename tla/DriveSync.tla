------------------------------ MODULE DriveSync ------------------------------
(***************************************************************************)
(* Replicas of a drive and the sync core that keeps them together          *)
(* (crates/mille-drive/src/sync.rs: frames in, actions out), with the host *)
(* loop that carries out its actions (packages/mille/src/drive/sync.ts)    *)
(* and the links and transfers it relies on.                               *)
(*                                                                         *)
(* Each drive has a document and a store.  Documents converge by version   *)
(* vector: a peer that says Hello is sent the changes it lacks, and is     *)
(* then believed to have them.  A drive asks its peers for the objects its *)
(* hold policy names (Want), hears who has them (Have), and has its host   *)
(* pull them; the back-off of holders that failed and the expiry of pulls  *)
(* that never settle count ticks.                                          *)
(*                                                                         *)
(* Abstractions.  A change is a number in the order of its making: it adds *)
(* a version with one object, known by the same number, and makes it       *)
(* current.  A version vector is the set of changes it covers, and         *)
(* concurrent writes of "current" are won by the later change (any total   *)
(* order that extends causality would do).  Ticks are counted down rather  *)
(* than up.  Frames fit max_frame_bytes, so updates are not cut in chunks, *)
(* and decode.  A frame is lost at the head of its link, which amounts to  *)
(* losing any part of what was sent.  An import and the reaction to it,    *)
(* two critical sections of the host's thread, are one step.  A copy that  *)
(* arrives is hashed and admitted, or refused, in one step.                *)
(***************************************************************************)
EXTENDS Integers, Sequences, FiniteSets

CONSTANTS
  Drives,        \* the replicas
  Nobody,        \* no replica: the source of no pull
  Authors,       \* replicas on which versions are made
  Links,         \* unordered pairs of them: sets {d, p} that can reach each other
  HoldAll,       \* hold every version (kept, KeptScope::All), or the current one
  PullLimit,     \* max_concurrent_pulls
  MaxBackoff,    \* MAX_BACKOFF_TICKS
  PullExpiry,    \* PULL_EXPIRY_TICKS
  MaxChanges,    \* bound: versions made
  MaxFaults,     \* bound: frames, connections, processes and transfers that fail
  MaxQueue,      \* bound: frames on a link when a tick comes
  MaxTransfers   \* bound: transfers of one object still running at a tick

ASSUME DrivesAssumption ==
  /\ IsFiniteSet(Drives) /\ Nobody \notin Drives /\ Authors \subseteq Drives
  /\ \A l \in Links : \E d, p \in Drives : d # p /\ l = {d, p}
ASSUME LimitAssumption ==
  /\ HoldAll \in BOOLEAN
  /\ PullLimit \in Nat \ {0} /\ MaxBackoff \in Nat \ {0} /\ PullExpiry \in Nat \ {0}
ASSUME DriveBoundAssumption ==
  MaxChanges \in Nat /\ MaxFaults \in Nat /\ MaxQueue \in Nat /\ MaxTransfers \in Nat

VARIABLES
  deps,        \* change -> changes its author had when it was made
  doc,         \* drive -> changes in its document
  parked,      \* drive -> changes whose dependencies it lacks
  store,       \* drive -> objects it holds
  sync,        \* drive -> SyncState
  changed,     \* drives whose host has a local change to report
  up,          \* drive -> peers its transport says are reachable
  net,         \* drive -> peer -> FIFO of frames
  transfers,   \* drive -> object -> pulls its host has not reported yet
  faults       \* faults so far

vars == <<deps, doc, parked, store, sync, changed, up, net, transfers, faults>>

Changes == 1..MaxChanges

Backoffs == [failures : Nat, wait : Nat]
Pulls    == [from : Drives \cup {Nobody}, age : Nat]
Frames   == [kind : {"hello", "updates", "want", "have"}, set : SUBSET Changes]
Actions  == [send : [Drives -> Seq(Frames)], pull : [Changes -> Drives \cup {Nobody}]]
Running  == [from : Drives, n : Nat, acts : Actions,
             phase : {"running", "landed", "acted", "refused"}]

SyncStates ==
  [peers    : SUBSET Drives,                    \* open peers
   known    : SUBSET Drives,                    \* those whose version vector is known
   vv       : [Drives -> SUBSET Changes],
   wanted   : [Drives -> SUBSET Changes],       \* asked of us and not held
   holders  : [Changes -> Seq(Drives)],
   failed   : [Changes -> [Drives -> Backoffs]],
   inflight : [Changes -> Pulls],
   asked    : SUBSET Changes]

NoBackoff == [failures |-> 0, wait |-> 0]
NoPull    == [from |-> Nobody, age |-> 0]
Closed ==
  [peers |-> {}, known |-> {},
   vv |-> [p \in Drives |-> {}], wanted |-> [p \in Drives |-> {}],
   holders |-> [o \in Changes |-> <<>>],
   failed |-> [o \in Changes |-> [p \in Drives |-> NoBackoff]],
   inflight |-> [o \in Changes |-> NoPull], asked |-> {}]

TypeOK ==
  /\ deps \in Seq(SUBSET Changes) /\ Len(deps) <= MaxChanges
  /\ doc \in [Drives -> SUBSET (1..Len(deps))]
  /\ parked \in [Drives -> SUBSET (1..Len(deps))]
  /\ store \in [Drives -> SUBSET (1..Len(deps))]
  /\ sync \in [Drives -> SyncStates]
  /\ changed \subseteq Drives
  /\ up \in [Drives -> SUBSET Drives]
  /\ net \in [Drives -> [Drives -> Seq(Frames)]]
  /\ transfers \in [Drives -> [Changes -> SUBSET Running]]
  /\ faults \in 0..MaxFaults
-----------------------------------------------------------------------------
(* What a drive wants, and the bookkeeping of pulls. *)

\* retained_by_policy: the objects the hold policy names, given a document.
Retained(D) == {c \in D : HoldAll \/ \A e \in D : e <= c}

\* missing
Wants(D, held) == Retained(D) \ held

\* Doubling with each failure in a row, up to MaxBackoff; further failures
\* are not told apart.
BackOff(b) ==
  LET n == IF b.failures < MaxBackoff THEN b.failures + 1 ELSE b.failures
  IN  [failures |-> n,
       wait |-> IF 2 ^ (n - 1) < MaxBackoff THEN 2 ^ (n - 1) ELSE MaxBackoff]

\* end_failed: only the pull in flight can fail.
EndFailed(S, o, p) ==
  IF S.inflight[o].from # p THEN S
  ELSE [S EXCEPT !.inflight[o] = NoPull, !.failed[o][p] = BackOff(@)]

\* digest_frames and update_frames: nothing to name, nothing to send.
Frame(kind, set) == IF set = {} THEN <<>> ELSE <<[kind |-> kind, set |-> set]>>
Hello(d) == <<[kind |-> "hello", set |-> doc[d]]>>

\* What a peer is sent when it becomes one: a greeting and all wants.
Greeting(d) == Hello(d) \o Frame("want", Wants(doc[d], store[d]))

Silence == [p \in Drives |-> <<>>]
NoActions == [send |-> Silence, pull |-> [o \in Changes |-> Nobody]]
To(p, frames) == [Silence EXCEPT ![p] = frames]

\* The first holder that is not backing off.
Ready(S, o) == {i \in DOMAIN S.holders[o] : S.failed[o][S.holders[o][i]].wait = 0}
Source(S, o) ==
  S.holders[o][CHOOSE i \in Ready(S, o) : \A j \in Ready(S, o) : i <= j]

\* A number no running transfer of X has.
Fresh(X) == CHOOSE n \in 1..(Cardinality(X) + 1) : \A t \in X : t.n # n

-----------------------------------------------------------------------------
(* react *)

\* Pulls to start, in digest order up to the limit.
Starting(S, wants) ==
  LET able == {o \in wants : S.inflight[o] = NoPull /\ Ready(S, o) # {}}
      free == PullLimit - Cardinality({o \in Changes : S.inflight[o] # NoPull})
  IN  {o \in able : Cardinality({e \in able : e < o}) < free}

\* What every trigger implies, from the document D and the state S it left and
\* the frames out it sent: send each peer the changes it lacks, ask for new
\* wants, answer peers whose wants are now held, forget what is no longer
\* wanted, and start pulls up to the limit.
React(d, D, S, out) ==
  LET wants  == Wants(D, store[d])
      behind == {p \in S.known : ~(D \subseteq S.vv[p])}
      fresh  == wants \ S.asked
      T == [S EXCEPT
              !.vv      = [p \in Drives |-> IF p \in behind THEN D ELSE S.vv[p]],
              !.asked   = wants,
              !.wanted  = [p \in Drives |-> S.wanted[p] \ store[d]],
              !.holders = [o \in Changes |-> IF o \in wants THEN S.holders[o] ELSE <<>>],
              !.failed  = [o \in Changes |-> IF o \in wants THEN S.failed[o]
                                             ELSE [p \in Drives |-> NoBackoff]]]
      start  == Starting(T, wants)
      pull   == [o \in Changes |-> IF o \in start THEN Source(T, o) ELSE Nobody]
  IN  [sync |-> [T EXCEPT !.inflight = [o \in Changes |->
                   IF o \in start THEN [from |-> pull[o], age |-> 0] ELSE @[o]]],
       acts |-> [send |-> [p \in Drives |->
                    out[p] \o Frame("updates", IF p \in behind THEN D \ S.vv[p] ELSE {})
                           \o Frame("want", IF p \in S.peers THEN fresh ELSE {})
                           \o Frame("have", S.wanted[p] \cap store[d])],
                 pull |-> pull]]

\* #run: the host sends the frames and begins the pulls, with N on the links
\* and X running.
Run(d, acts, N, X) ==
  /\ net' = [N EXCEPT ![d] = [p \in Drives |-> N[d][p] \o acts.send[p]]]
  /\ transfers' = [X EXCEPT ![d] = [o \in Changes |->
       IF acts.pull[o] = Nobody THEN X[d][o]
       ELSE X[d][o] \cup {[from |-> acts.pull[o], n |-> Fresh(X[d][o]),
                           acts |-> NoActions, phase |-> "running"]}]]

\* #step: ask the core and run what it says.
Step(d, D, S, out, N, X) ==
  LET r == React(d, D, S, out)
  IN  sync' = [sync EXCEPT ![d] = r.sync] /\ Run(d, r.acts, N, X)

-----------------------------------------------------------------------------
(* Local changes and peers coming and going. *)

\* Mutant: the host hears of a version that was not recorded.
AddVersionUnrecorded(d) ==
  LET c == Len(deps) + 1
  IN  /\ d \in Authors /\ c <= MaxChanges
      /\ doc' = [doc EXCEPT ![d] = @ \cup {c}]
      /\ store' = [store EXCEPT ![d] = @ \cup {c}]
      /\ changed' = changed \cup {d}
      /\ UNCHANGED <<deps, parked, sync, up, net, transfers, faults>>

\* put_bytes and add_version with make_current: the change is saved before
\* the host hears of it.
AddVersion(d) ==
  LET c == Len(deps) + 1
  IN  /\ d \in Authors /\ c <= MaxChanges
      /\ deps' = Append(deps, doc[d])
      /\ doc' = [doc EXCEPT ![d] = @ \cup {c}]
      /\ store' = [store EXCEPT ![d] = @ \cup {c}]
      /\ changed' = changed \cup {d}
      /\ UNCHANGED <<parked, sync, up, net, transfers, faults>>

\* gc
Gc(d) ==
  /\ store[d] \ Retained(doc[d]) # {}
  /\ store' = [store EXCEPT ![d] = @ \cap Retained(doc[d])]
  /\ UNCHANGED <<deps, doc, parked, sync, changed, up, net, transfers, faults>>

\* sync_local_changed
LocalChanged(d) ==
  /\ d \in changed
  /\ changed' = changed \ {d}
  /\ UNCHANGED <<deps, doc, parked, store, up, faults>>
  /\ Step(d, doc[d], sync[d], Silence, net, transfers)

\* sync_open
Open(d, p) ==
  /\ {d, p} \in Links /\ p \notin up[d]
  /\ up' = [up EXCEPT ![d] = @ \cup {p}]
  /\ UNCHANGED <<deps, doc, parked, store, changed, faults>>
  /\ Step(d, doc[d], [sync[d] EXCEPT !.peers = @ \cup {p}], To(p, Greeting(d)), net, transfers)

Fault == faults < MaxFaults /\ faults' = faults + 1

\* sync_close
Close(d, p) ==
  /\ p \in up[d]
  /\ \A o \in Changes : Cardinality(transfers[d][o]) < MaxTransfers
  /\ Fault
  /\ up' = [up EXCEPT ![d] = @ \ {p}]
  /\ sync' = [sync EXCEPT ![d] = [@ EXCEPT
       !.peers = @ \ {p}, !.known = @ \ {p},
       !.vv[p] = {}, !.wanted[p] = {},
       !.holders = [o \in Changes |-> SelectSeq(@[o], LAMBDA h : h # p)],
       !.failed = [o \in Changes |-> [@[o] EXCEPT ![p] = NoBackoff]],
       !.inflight = [o \in Changes |-> IF @[o].from = p THEN NoPull ELSE @[o]]]]
  /\ UNCHANGED <<deps, doc, parked, store, changed, net, transfers>>

\* The process ends and the drive is opened again: the document and the
\* objects are on disk, everything else is gone.
Restart(d) ==
  /\ Fault
  /\ sync' = [sync EXCEPT ![d] = Closed]
  /\ parked' = [parked EXCEPT ![d] = {}]
  /\ changed' = changed \ {d}
  /\ up' = [up EXCEPT ![d] = {}]
  /\ net' = [p \in Drives |-> [net[p] EXCEPT ![d] = <<>>]]
  /\ transfers' = [transfers EXCEPT ![d] = [o \in Changes |-> {}]]
  /\ UNCHANGED <<deps, doc, store>>

-----------------------------------------------------------------------------
(* sync_handle: a frame from p. *)

Taken(p, d) == [net EXCEPT ![p][d] = Tail(@)]

\* A Hello registers its sender, and answers a peer that was not open.
HandleHello(p, d, vv) ==
  /\ UNCHANGED <<deps, doc, parked, store, changed, up, faults>>
  /\ Step(d, doc[d], [sync[d] EXCEPT !.peers = @ \cup {p}, !.known = @ \cup {p}, !.vv[p] = vv],
           IF p \in sync[d].peers THEN Silence ELSE To(p, Greeting(d)),
           Taken(p, d), transfers)

\* Mutant: a peer that sent an update is taken to have what this drive has.
HandleUpdatesTrusting(p, d, set) ==
  LET U     == set \cup parked[d]
      after == doc[d] \cup {c \in U : deps[c] \subseteq doc[d] \cup U}
  IN  /\ doc' = [doc EXCEPT ![d] = after]
      /\ parked' = [parked EXCEPT ![d] = U \ after]
      /\ UNCHANGED <<deps, store, changed, up, faults>>
      /\ Step(d, after, [sync[d] EXCEPT !.vv[p] = after], Silence, Taken(p, d), transfers)

\* Import and save.  Changes whose dependencies are missing wait for them.
\* A peer that had everything before the import has everything after it.
HandleUpdates(p, d, set) ==
  LET U     == set \cup parked[d]
      after == doc[d] \cup {c \in U : deps[c] \subseteq doc[d] \cup U}
      S     == sync[d]
  IN  /\ doc' = [doc EXCEPT ![d] = after]
      /\ parked' = [parked EXCEPT ![d] = U \ after]
      /\ UNCHANGED <<deps, store, changed, up, faults>>
      /\ Step(d, after, IF p \in S.known /\ doc[d] \subseteq S.vv[p]
                  THEN [S EXCEPT !.vv[p] = after] ELSE S,
               Silence, Taken(p, d), transfers)

\* Mutant: only wants that are held are dealt with.
HandleWantForgetting(p, d, set) ==
  /\ UNCHANGED <<deps, doc, parked, store, changed, up, faults>>
  /\ Step(d, doc[d], sync[d], To(p, Frame("have", set \cap store[d])), Taken(p, d), transfers)

\* An open peer's wants that are not held are remembered.
HandleWant(p, d, set) ==
  LET S == sync[d]
  IN  /\ UNCHANGED <<deps, doc, parked, store, changed, up, faults>>
      /\ Step(d, doc[d], IF p \in S.peers THEN [S EXCEPT !.wanted[p] = @ \cup (set \ store[d])]
                  ELSE S,
               To(p, Frame("have", set \cap store[d])), Taken(p, d), transfers)

HandleHave(p, d, set) ==
  LET S     == sync[d]
      offer == set \cap Wants(doc[d], store[d])
      lacks(o) == \A i \in DOMAIN S.holders[o] : S.holders[o][i] # p
  IN  /\ UNCHANGED <<deps, doc, parked, store, changed, up, faults>>
      /\ Step(d, doc[d], [S EXCEPT !.holders = [o \in Changes |->
                     IF o \in offer /\ lacks(o) THEN Append(@[o], p) ELSE @[o]]],
               Silence, Taken(p, d), transfers)

Handle(p, d) ==
  /\ net[p][d] # <<>>
  /\ LET f == Head(net[p][d])
     IN  \/ f.kind = "hello"   /\ HandleHello(p, d, f.set)
         \/ f.kind = "updates" /\ HandleUpdates(p, d, f.set)
         \/ f.kind = "want"    /\ HandleWant(p, d, f.set)
         \/ f.kind = "have"    /\ HandleHave(p, d, f.set)

\* A frame is lost, or the update it carries cannot be saved and the document
\* is loaded again from disk.
Lose(p, d) ==
  /\ net[p][d] # <<>>
  /\ Fault
  /\ net' = Taken(p, d)
  /\ \/ UNCHANGED parked
     \/ /\ Head(net[p][d]).kind = "updates"
        /\ parked' = [parked EXCEPT ![d] = {}]
  /\ UNCHANGED <<deps, doc, store, sync, changed, up, transfers>>

-----------------------------------------------------------------------------
(* sync_tick *)

\* Mutant: a pull that never settles keeps its slot.
AgedPatiently(S) ==
  [S EXCEPT !.failed = [o \in Changes |-> [p \in Drives |->
     [@[o][p] EXCEPT !.wait = IF @ = 0 THEN 0 ELSE @ - 1]]]]

\* One tick later: waits shorten, pulls age, and one that has aged out fails.
Aged(S) ==
  LET old  == {o \in Changes : S.inflight[o] # NoPull /\ S.inflight[o].age + 1 >= PullExpiry}
      less(b) == [b EXCEPT !.wait = IF @ = 0 THEN 0 ELSE @ - 1]
  IN  [S EXCEPT
         !.inflight = [o \in Changes |->
            IF o \in old THEN NoPull
            ELSE IF @[o] = NoPull THEN NoPull ELSE [@[o] EXCEPT !.age = @ + 1]],
         !.failed = [o \in Changes |-> [p \in Drives |->
            IF o \in old /\ S.inflight[o].from = p THEN BackOff(@[o][p])
            ELSE less(@[o][p])]]]

\* Greet every peer again, and ask again for what none has offered.
Tick(d) ==
  LET S      == Aged(sync[d])
      lonely == {o \in Wants(doc[d], store[d]) :
                   S.holders[o] = <<>> /\ S.inflight[o] = NoPull}
  IN  /\ \A p \in Drives : Len(net[d][p]) + Len(net[p][d]) <= MaxQueue
      /\ \A o \in Changes : Cardinality(transfers[d][o]) < MaxTransfers
      /\ UNCHANGED <<deps, doc, parked, store, changed, up, faults>>
      /\ Step(d, doc[d], S, [p \in Drives |-> IF p \in S.peers
                                       THEN Hello(d) \o Frame("want", lonely) ELSE <<>>],
               net, transfers)

-----------------------------------------------------------------------------
(* Transfers, and the reports the host makes of them. *)

Done(d, o, t) == [transfers EXCEPT ![d][o] = @ \ {t}]
Becomes(d, o, t, ph) ==
  transfers' = [transfers EXCEPT ![d][o] = (@ \ {t}) \cup {[t EXCEPT !.phase = ph]}]

\* The copy is hashed and admitted, on a thread of its own.
Admit(d, o, t) ==
  /\ t.phase = "running" /\ o \in store[t.from]
  /\ store' = [store EXCEPT ![d] = @ \cup {o}]
  /\ Becomes(d, o, t, "landed")
  /\ UNCHANGED <<deps, doc, parked, sync, changed, up, net, faults>>

\* The rest of sync_pulled, on that thread: what it says to do reaches the
\* host's loop later.
Pulled(d, o, t) ==
  LET r == React(d, doc[d], [sync[d] EXCEPT !.inflight[o] = NoPull, !.holders[o] = <<>>,
                                            !.failed[o] = [p \in Drives |-> NoBackoff],
                                            !.asked = @ \ {o}], Silence)
  IN  /\ t.phase = "landed"
      /\ sync' = [sync EXCEPT ![d] = r.sync]
      /\ transfers' = [transfers EXCEPT ![d][o] =
           (@ \ {t}) \cup {[t EXCEPT !.phase = "acted", !.acts = r.acts]}]
      /\ UNCHANGED <<deps, doc, parked, store, changed, up, net, faults>>

\* The end of #pullOnce.
RunPulled(d, o, t) ==
  /\ t.phase = "acted"
  /\ UNCHANGED <<deps, doc, parked, store, sync, changed, up, faults>>
  /\ Run(d, t.acts, net, Done(d, o, t))

\* A damaged copy is refused, which is its holder's failure.
Refuse(d, o, t) ==
  /\ t.phase = "running" /\ o \in store[t.from]
  /\ Fault
  /\ sync' = [sync EXCEPT ![d] = EndFailed(@, o, t.from)]
  /\ Becomes(d, o, t, "refused")
  /\ UNCHANGED <<deps, doc, parked, store, changed, up, net>>

\* sync_pull_failed: after a refusal, or when the transport failed.
PullFailed(d, o, t) ==
  /\ \/ t.phase = "refused" /\ UNCHANGED faults
     \/ /\ t.phase = "running" /\ (o \notin store[t.from] \/ t.from \notin up[d])
        /\ UNCHANGED faults
     \/ t.phase = "running" /\ Fault
  /\ UNCHANGED <<deps, doc, parked, store, changed, up>>
  /\ Step(d, doc[d], EndFailed(sync[d], o, t.from), Silence, net, Done(d, o, t))

\* A transfer that never ends.
Hang(d, o, t) ==
  /\ t.phase = "running"
  /\ Fault
  /\ transfers' = Done(d, o, t)
  /\ UNCHANGED <<deps, doc, parked, store, sync, changed, up, net>>

-----------------------------------------------------------------------------
Init ==
  /\ deps = <<>>
  /\ doc = [d \in Drives |-> {}]
  /\ parked = [d \in Drives |-> {}]
  /\ store = [d \in Drives |-> {}]
  /\ sync = [d \in Drives |-> Closed]
  /\ changed = {}
  /\ up = [d \in Drives |-> {}]
  /\ net = [d \in Drives |-> [p \in Drives |-> <<>>]]
  /\ transfers = [d \in Drives |-> [o \in Changes |-> {}]]
  /\ faults = 0

Settle(d, o) ==
  \E t \in transfers[d][o] : \/ Admit(d, o, t) \/ Pulled(d, o, t)
                           \/ RunPulled(d, o, t) \/ PullFailed(d, o, t)

Next ==
  \E d \in Drives :
    \/ AddVersion(d)
    \/ LocalChanged(d)
    \/ Gc(d)
    \/ Restart(d)
    \/ Tick(d)
    \/ \E p \in Drives : Open(d, p) \/ Close(d, p) \/ Handle(p, d) \/ Lose(p, d)
    \/ \E o \in Changes :
         \/ Settle(d, o)
         \/ \E t \in transfers[d][o] : Refuse(d, o, t) \/ Hang(d, o, t)

\* The host's loop runs what is queued on it and its timer; links deliver;
\* peers come back; a transfer that does not hang ends.  The timer fires
\* whatever is queued: only the bounds in Tick's guard disable it, on and off.
Fairness ==
  \A d \in Drives :
    /\ WF_vars(LocalChanged(d)) /\ SF_vars(Tick(d))
    /\ \A p \in Drives : WF_vars(Open(d, p)) /\ WF_vars(Handle(p, d))
    /\ \A o \in Changes : WF_vars(Settle(d, o))

Spec == Init /\ [][Next]_vars
FairSpec == Spec /\ Fairness

-----------------------------------------------------------------------------
(* Properties. *)

\* A frame of this kind that names c is on the link from d to p, or among
\* what d's host is yet to send.
OnItsWay(d, p, kind, c) ==
  LET names(q) == \E i \in DOMAIN q : q[i].kind = kind /\ c \in q[i].set
  IN  names(net[d][p]) \/ \E o \in Changes : \E t \in transfers[d][o] : names(t.acts.send[p])

\* Of two drives, while nothing has failed, neither believes that the other has
\* a change which it neither has nor is about to be sent: react marks a peer as
\* up to date when the frame leaves, and again after an import, for a peer that
\* "already had everything this drive had before it" (Trigger::Imported).  With
\* a third drive the import may release what that one had sent and was parked.
BeliefIsCovered ==
  faults = 0 =>
    \A d \in Drives : \A p \in sync[d].known : \A c \in sync[d].vv[p] :
      c \in doc[p] \cup parked[p] \/ OnItsWay(d, p, "updates", c)

\* While nothing has failed, a want is never forgotten between two drives:
\* each open peer is about to be asked, remembers that it was, is about to
\* answer, or is on record as a holder (asked, wanted and holders).
WantIsKnown ==
  faults = 0 =>
    \A d \in Drives : \A p \in sync[d].peers : \A o \in Wants(doc[d], store[d]) :
      \/ OnItsWay(d, p, "want", o)
      \/ d \in sync[p].peers /\ o \in sync[p].wanted[d]
      \/ OnItsWay(p, d, "have", o)
      \/ \E i \in DOMAIN sync[d].holders[o] : sync[d].holders[o][i] = p

\* The second report of a refused copy finds no pull from that holder in
\* flight ("finds no pull in flight and counts nothing", end_failed).
RefusalCountsOnce ==
  \A d \in Drives, o \in Changes : \A t \in transfers[d][o] :
    t.phase = "refused" => sync[d].inflight[o].from # t.from

\* Once changes and faults stop, all replicas end up with the same document
\* and with every object their policy holds: what was lost is made up for by
\* the next Hello, the next holder or the next try.
Converges ==
  <>[](\A d, p \in Drives : doc[d] = doc[p] /\ Retained(doc[d]) \subseteq store[d])
=============================================================================
