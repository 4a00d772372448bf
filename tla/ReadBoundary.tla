---------------------------- MODULE ReadBoundary ----------------------------
(***************************************************************************)
(* The pool of helper threads that every directory listing and every stat  *)
(* goes through (crates/mille-core/src/read_boundary.rs).  A system call   *)
(* that is stuck in the kernel cannot be interrupted, so the requester     *)
(* waits on a ticket and leaves when the read has made no progress for its *)
(* deadline, while the helper stays in the kernel.                         *)
(*                                                                         *)
(* Time is abstracted to one flag for each read: `late' says that its last *)
(* activity is at least the applicable deadline ago (first response or     *)
(* stall).  Time sets it, progress clears it.  A read (a Flight) is named  *)
(* by the request that created it, and its key is its path: requests for   *)
(* the same path with different operations are different Paths here, each  *)
(* Below the other.  The code's counters threads, idle, spinning and       *)
(* interest are functions of where the helpers and the tickets are.        *)
(***************************************************************************)
EXTENDS Integers, Sequences, FiniteSets, SequencesExt

CONSTANTS
    MaxRequests,   \* bound: calls of submit
    Paths,
    Below,         \* Below[p]: the paths q such that p starts with q
    Concurrency,   \* options.concurrency
    MaxStuck,      \* options.max_stuck
    MaxTicks,      \* bound: signs of progress, over all reads
    MaxSpawnFails  \* bound: threads the system refuses to start

Requests == 1..MaxRequests
None == 0
MaxThreads == Concurrency + MaxStuck
Helpers == 1..MaxThreads

VARIABLES
    path,      \* the path of each flight
    ticket,    \* the flight each request waits on, or None
    request,   \* "new", "waits" on its ticket, or "done"
    finished,  \* flights that have an outcome
    late,      \* flights whose last activity is a deadline ago
    flights,   \* state.flights: the flight registered under each path, or None
    queue,     \* state.queue
    helper,    \* where each helper is
    reading,   \* the flight each helper has in its hands, or None
    closing,   \* shared.closed, the flag read without the lock
    closed,    \* state.closed
    ticks,     \* signs of progress so far
    spawnFails \* threads the system refused so far

reads == <<finished, late>>
pool == <<flights, queue, helper, reading>>
requesters == <<path, ticket, request>>
vars == <<reads, pool, requesters, closing, closed, ticks, spawnFails>>

(* Flight::is_stuck: in the kernel and past its deadline. *)
Stuck(f) ==
    f \in late /\ \E h \in Helpers : helper[h] = "kernel" /\ reading[h] = f

Registered == {flights[p] : p \in Paths} \ {None}

Interest(f) == Cardinality({r \in Requests : ticket[r] = f /\ request[r] = "waits"})

Live == {h \in Helpers : helper[h] # "none"}
(* A parked helper that was notified counts as idle until it has the lock. *)
Idle == {h \in Live : helper[h] \in {"spin", "parked", "woken", "expired"}}

Init ==
    /\ path = [r \in Requests |-> None]
    /\ ticket = [r \in Requests |-> None]
    /\ request = [r \in Requests |-> "new"]
    /\ finished = {} /\ late = {}
    /\ flights = [p \in Paths |-> None]
    /\ queue = <<>>
    /\ helper = [h \in Helpers |-> "none"]
    /\ reading = [h \in Helpers |-> None]
    /\ closing = FALSE /\ closed = FALSE
    /\ ticks = 0 /\ spawnFails = 0
-----------------------------------------------------------------------------
(* Requests come one after another: which names are used does not matter.  *)
Fresh(r) == request[r] = "new" /\ \A q \in Requests : q < r => request[q] # "new"

(* A ticket that is ready at once: Cancelled, Dataless, Stuck, Saturated.  *)
Refuse(r) ==
    /\ request' = [request EXCEPT ![r] = "done"]
    /\ UNCHANGED <<reads, pool, path, ticket, closing, closed, ticks, spawnFails>>

JoinableNever(p) == FALSE

(* The read already registered for p, when a new request may share it. *)
Joinable(p) ==
    flights[p] # None /\ flights[p] \notin finished /\ ~Stuck(flights[p])

NeedsHelperWhenNoneIdle(q) == Idle = {} /\ Cardinality(Live) < MaxThreads

(* A new helper for the read just queued: one more than the idle ones can  *)
(* take, and the pool has room.                                            *)
NeedsHelper(q) == Len(q) > Cardinality(Idle) /\ Cardinality(Live) < MaxThreads

(* notify_one wakes one helper that is parked, if there is one. *)
NotifyOne(at) ==
    LET parked == {h \in Helpers : at[h] = "parked"}
    IN  IF parked = {} THEN {at}
        ELSE {[at EXCEPT ![h] = "woken"] : h \in parked}

Spawned == [helper EXCEPT ![Min(Helpers \ Live)] = "ready"]

(* The last part of submit: a flight of its own, queued. *)
Launch(r, p) ==
    /\ path' = [path EXCEPT ![r] = p]
    /\ ticket' = [ticket EXCEPT ![r] = r]
    /\ request' = [request EXCEPT ![r] = "waits"]
    /\ flights' = [flights EXCEPT ![p] = r]
    /\ queue' = Append(queue, r)
    /\ \/ /\ ~NeedsHelper(queue')
          /\ helper' \in NotifyOne(helper)
          /\ UNCHANGED spawnFails
       \/ /\ NeedsHelper(queue')
          /\ helper' \in NotifyOne(Spawned)
          /\ UNCHANGED spawnFails
       \/ /\ NeedsHelper(queue')
          /\ spawnFails < MaxSpawnFails
          /\ spawnFails' = spawnFails + 1
          /\ helper' \in NotifyOne(helper)
    /\ UNCHANGED <<reads, reading, closing, closed, ticks>>

(* submit: refuse, join a read in progress, or start one. *)
Submit(r, p) ==
    LET stuck == {f \in Registered : Stuck(f)}
    IN  /\ Fresh(r)
        /\ IF closing \/ closed THEN Refuse(r)
           ELSE IF Joinable(p)
           THEN /\ ticket' = [ticket EXCEPT ![r] = flights[p]]
                /\ request' = [request EXCEPT ![r] = "waits"]
                /\ UNCHANGED <<reads, pool, path, closing, closed, ticks,
                               spawnFails>>
           ELSE IF \/ \E f \in stuck : path[f] \in Below[p]
                   \/ Cardinality(stuck) >= MaxStuck
           THEN Refuse(r)
           ELSE Launch(r, p)

(* submit_listing: a directory already seen to be dataless is not read. *)
SubmitDataless(r) == Fresh(r) /\ Refuse(r)
-----------------------------------------------------------------------------
Leave(r) ==
    /\ request' = [request EXCEPT ![r] = "done"]
    /\ ticket' = [ticket EXCEPT ![r] = None]
    /\ UNCHANGED <<reads, pool, path, closing, closed, ticks, spawnFails>>

VerdictWithoutDeadline(f) == f \in finished \/ closing

(* Ticket::wait_with and Ticket::poll have something to say: the outcome,  *)
(* Cancelled because the boundary is closed, or TimedOut.                  *)
Verdict(f) == f \in finished \/ closing \/ f \in late

Wait(r) == request[r] = "waits" /\ Verdict(ticket[r]) /\ Leave(r)

(* The requester's own cancellation, checked when there is no outcome yet. *)
Cancel(r) == request[r] = "waits" /\ ticket[r] \notin finished /\ Leave(r)
-----------------------------------------------------------------------------
(* remove_flight: only the registration that is the flight's own. *)
Without(gone) == [p \in Paths |-> IF flights[p] \in gone THEN None ELSE flights[p]]

(* How many flights at the head of the queue nobody wants: next_flight     *)
(* drops them unstarted.                                                   *)
Unwanted ==
    CHOOSE n \in 0..Len(queue) :
        /\ \A i \in 1..n : Interest(queue[i]) = 0
        /\ n < Len(queue) => Interest(queue[n + 1]) > 0

Goes(h, where) ==
    /\ helper' = [helper EXCEPT ![h] = where]
    /\ reading' = [reading EXCEPT ![h] = None]

(* What a helper does with an empty queue: one at a time spins, the others *)
(* park, and a helper that has spun parks.  A park that ran into the       *)
(* keep-alive ends the thread.                                             *)
Rest(h) ==
    CASE helper[h] = "expired" -> "none"
      [] helper[h] \in {"ready", "done"}
            /\ \A g \in Helpers : helper[g] # "spin" -> "spin"
      [] OTHER -> "parked"

(* next_flight, with the lock held and, for a helper that comes back from  *)
(* a read, remove_flight before it.                                        *)
Look(h) ==
    LET n == Unwanted
        dead == {queue[i] : i \in 1..n}
        mine == {reading[h]} \ {None}
    IN  /\ helper[h] \in {"ready", "spin", "woken", "expired", "done"}
        /\ IF closed
           THEN /\ Goes(h, "none")
                /\ flights' = Without(mine)
                /\ UNCHANGED <<reads, queue>>
           ELSE /\ flights' = Without(mine \cup dead)
                /\ finished' = finished \cup dead
                /\ IF n < Len(queue)
                   THEN LET f == queue[n + 1]
                        IN  /\ queue' = SubSeq(queue, n + 2, Len(queue))
                            /\ late' = late \ {f}
                            /\ helper' = [helper EXCEPT ![h] = "kernel"]
                            /\ reading' = [reading EXCEPT ![h] = f]
                   ELSE /\ queue' = <<>>
                        /\ Goes(h, Rest(h))
                        /\ UNCHANGED late
        /\ UNCHANGED <<requesters, closing, closed, ticks, spawnFails>>

(* IDLE_KEEPALIVE passed for a parked helper; it still has to take the lock. *)
Expire(h) ==
    /\ helper[h] = "parked"
    /\ helper' = [helper EXCEPT ![h] = "expired"]
    /\ UNCHANGED <<reads, flights, queue, reading, requesters, closing, closed,
                   ticks, spawnFails>>

(* ReadProgress::tick: an entry was read, or an lstat came back. *)
Tick(h) ==
    /\ helper[h] = "kernel"
    /\ ticks < MaxTicks
    /\ ticks' = ticks + 1
    /\ late' = late \ {reading[h]}
    /\ UNCHANGED <<finished, pool, requesters, closing, closed, spawnFails>>

(* The call returned, with an answer or an error, or the helper panicked:  *)
(* Flight::finish, without the pool's lock.                                *)
Return(h) ==
    /\ helper[h] = "kernel"
    /\ finished' = finished \cup {reading[h]}
    /\ late' = late \ {reading[h]}
    /\ helper' = [helper EXCEPT ![h] = "done"]
    /\ UNCHANGED <<flights, queue, reading, requesters, closing,
                   closed, ticks, spawnFails>>

(* A deadline passed without activity: the wait in the queue counts too. *)
Stall(f) ==
    /\ path[f] # None /\ f \notin finished /\ f \notin late
    /\ late' = late \cup {f}
    /\ UNCHANGED <<finished, pool, requesters, closing, closed, ticks,
                   spawnFails>>

(* close: the flag first, then the rest with the lock. *)
Close ==
    /\ ~closing
    /\ closing' = TRUE
    /\ UNCHANGED <<reads, pool, requesters, closed, ticks, spawnFails>>

CloseLocked ==
    LET dropped == ToSet(queue)
    IN  /\ closing /\ ~closed
        /\ closed' = TRUE
        /\ queue' = <<>>
        /\ flights' = Without(dropped)
        /\ finished' = finished \cup dropped
        /\ helper' = [h \in Helpers |-> IF helper[h] = "parked" THEN "woken"
                                        ELSE helper[h]]
        /\ UNCHANGED <<late, reading, requesters, closing, ticks,
                       spawnFails>>

Next ==
    \/ \E r \in Requests, p \in Paths : Submit(r, p)
    \/ \E r \in Requests : SubmitDataless(r) \/ Wait(r) \/ Cancel(r) \/ Stall(r)
    \/ \E h \in Helpers : Look(h) \/ Expire(h) \/ Tick(h) \/ Return(h)
    \/ Close
    \/ CloseLocked

Spec == Init /\ [][Next]_vars

(* Threads run and time passes.  Nothing is assumed of the kernel: a call  *)
(* may never return, and a read may never make progress.                   *)
Fairness ==
    /\ \A r \in Requests : WF_vars(Wait(r)) /\ WF_vars(Stall(r))
    /\ \A h \in Helpers : WF_vars(Look(h)) /\ WF_vars(Expire(h))
    /\ WF_vars(CloseLocked)

FairSpec == Spec /\ Fairness
-----------------------------------------------------------------------------
(* The types, and what they mean: a helper holds a flight while it is in   *)
(* the kernel or on its way back, and a request that waits has a ticket.   *)
TypeOK ==
    /\ path \in [Requests -> Paths \cup {None}]
    /\ ticket \in [Requests -> Requests \cup {None}]
    /\ request \in [Requests -> {"new", "waits", "done"}]
    /\ finished \subseteq Requests
    /\ late \subseteq Requests
    /\ flights \in [Paths -> Requests \cup {None}]
    /\ queue \in Seq(Requests)
    /\ helper \in [Helpers -> {"none", "ready", "spin", "parked", "woken",
                               "expired", "kernel", "done"}]
    /\ \A h \in Helpers : (reading[h] # None) <=> helper[h] \in {"kernel", "done"}
    /\ \A r \in Requests : (ticket[r] # None) <=> request[r] = "waits"

(* Every call in the kernel is the one registered for its path: no path    *)
(* has two, and the stuck ones are all seen by the checks of submit.       *)
CallIsRegistered ==
    \A h \in Helpers :
        helper[h] = "kernel" => flights[path[reading[h]]] = reading[h]

(* No read waits behind another while a helper could be had for it: when   *)
(* more are queued than there are helpers about to look at the queue, the  *)
(* pool is full and nobody is parked.  A thread the system refused to      *)
(* start is the only exception.                                            *)
QueueIsAttended ==
    LET attending == {h \in Live : helper[h] \notin {"kernel", "parked"}}
    IN  (spawnFails = 0 /\ Len(queue) > Cardinality(attending)) =>
            /\ Cardinality(Live) = MaxThreads
            /\ \A h \in Helpers : helper[h] # "parked"

(* Every request is answered whether or not the kernel ever returns, and   *)
(* after close every helper that is not in the kernel goes away.           *)
NobodyWaitsForTheKernel ==
    /\ \A r \in Requests : request[r] = "waits" ~> request[r] = "done"
    /\ closed ~> \A h \in Helpers : helper[h] \in {"none", "kernel"}
=============================================================================
