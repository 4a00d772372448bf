--------------------------- MODULE SessionsProofs ---------------------------
(***************************************************************************)
(* Proofs about the components MCSessions runs: mille-truffle's client, for *)
(* any set of attempt ids, finite or not, its server, for any set of        *)
(* sockets, peers and limits, a remote session, and the read boundary, for  *)
(* any requests, paths and limits.                                          *)
(***************************************************************************)
EXTENDS MCSessions, FiniteSetTheorems, WellFoundedInduction, TLAPS

-----------------------------------------------------------------------------
(* The client.  Inv is the inductive invariant: what drives the connection  *)
(* is kept as "a timer and no attempt, or one attempt and no timer", which  *)
(* says the same as the count that the run checks and is what each step     *)
(* preserves.                                                               *)

Typed ==
    /\ options \in [reconnect : BOOLEAN, retryServerShutdown : BOOLEAN]
    /\ state \in {"connecting", "online", "stale", "reconnecting", "closed"}
    /\ step \in [Attempts -> Pending \cup {"held", "none"}]
    /\ up \in [Attempts -> BOOLEAN]
    /\ current \in Attempts \cup {NoAttempt}
    /\ timers \in Nat
    /\ ready \in {"pending", "resolved", "rejected"}
    /\ returned \in BOOLEAN /\ closed \in BOOLEAN /\ aborted \in BOOLEAN

(* The adopted attempt is the current one. *)
CurrentIsHeld ==
    /\ \A a \in Attempts : step[a] = "held" => current = a
    /\ current # NoAttempt => step[current] = "held"

(* While the connection is not closed, one thing drives it. *)
Driven ==
    state # "closed" =>
      /\ ~closed
      /\ \/ timers = 1 /\ \A a \in Attempts : step[a] = "none"
         \/ /\ timers = 0
            /\ \E a \in Attempts : step[a] # "none" /\ \A b \in Attempts : b # a => step[b] = "none"

(* A closed one has no timer and no session, and unless it was close() that *)
(* ended it, no attempt either.                                             *)
Ended ==
    state = "closed" =>
      /\ timers = 0 /\ current = NoAttempt
      /\ ~closed => \A a \in Attempts : step[a] = "none"

Inv == Typed /\ CurrentIsHeld /\ Driven /\ Ended

-----------------------------------------------------------------------------
(* The state a fresh connectMille is in. *)
LEMMA InitInv == Init => Inv
<1> SUFFICES ASSUME Init PROVE Inv
  OBVIOUS
<1> PICK first \in Attempts :
       /\ step = [a \in Attempts |-> IF a = first THEN "dial" ELSE "none"]
  BY DEF Init
<1>1. Typed
  <2>1. step \in [Attempts -> Pending \cup {"held", "none"}]
    BY DEF Pending
  <2>2. up \in [Attempts -> BOOLEAN]
    BY DEF Init
  <2>3. returned \in BOOLEAN /\ closed \in BOOLEAN /\ aborted \in BOOLEAN
    BY Zenon DEF Init
  <2>4. /\ options \in [reconnect : BOOLEAN, retryServerShutdown : BOOLEAN]
        /\ state = "connecting" /\ current = NoAttempt /\ timers = 0 /\ ready = "pending"
    BY DEF Init
  <2> QED BY <2>1, <2>2, <2>3, <2>4 DEF Typed
<1>2. CurrentIsHeld
  BY DEF Init, CurrentIsHeld
<1>3. Driven
  BY DEF Init, Driven
<1>4. Ended
  BY DEF Init, Ended
<1> QED BY <1>1, <1>2, <1>3, <1>4 DEF Inv

(* The end of an attempt that was pending: it was the one driver, and what  *)
(* takes over is the timer or nothing.                                      *)
LEMMA FailInv ==
  ASSUME Inv, NEW a \in Attempts, step[a] \in Pending, NEW code, Fail(a, code),
         UNCHANGED <<options, current, closed, aborted>>
  PROVE  Inv'
<1> USE DEF Inv
<1>a. /\ step' = [step EXCEPT ![a] = "none"] /\ up' = [up EXCEPT ![a] = FALSE]
  BY DEF Fail
<1>b. \/ state' = "stale" /\ timers' = timers + 1 /\ ~closed /\ ready' = ready /\ returned' = TRUE
      \/ /\ state' = "closed" /\ timers' = timers /\ returned' = returned
         /\ ready' \in {ready, "rejected"}
  BY DEF Fail
<1>c. step'[a] = "none" /\ \A b \in Attempts : b # a => step'[b] = step[b]
  BY <1>a DEF Typed
<1>d. current # a
  BY AttemptsAssumption DEF CurrentIsHeld, Pending, NoAttempt
<1>1. Typed'
  <2>1. step' \in [Attempts -> Pending \cup {"held", "none"}] /\ up' \in [Attempts -> BOOLEAN]
    BY <1>a DEF Typed
  <2>2. /\ timers' \in Nat /\ ready' \in {"pending", "resolved", "rejected"}
        /\ state' \in {"stale", "closed"}
    BY <1>b DEF Typed
  <2>3. returned' \in BOOLEAN
    BY <1>b, Zenon DEF Typed
  <2> QED BY <2>1, <2>2, <2>3 DEF Typed
<1>2. CurrentIsHeld'
  BY <1>c, <1>d DEF CurrentIsHeld, Typed
<1>3. ~closed => timers = 0 /\ \A b \in Attempts : b # a => step[b] = "none"
  BY DEF Driven, Ended, Pending
<1>4. Driven'
  BY <1>b, <1>c, <1>3 DEF Driven, Typed
<1>5. Ended'
  <2>1. timers = 0 \/ ~closed
    BY DEF Driven, Ended
  <2>2. ~closed => current = NoAttempt
    BY <1>3, <1>d DEF CurrentIsHeld, Typed
  <2>3. closed => current = NoAttempt
    BY DEF Driven, Ended
  <2> QED BY <1>b, <1>c, <1>3, <2>1, <2>2, <2>3 DEF Ended
<1> QED BY <1>1, <1>2, <1>4, <1>5

(* A pending attempt that gets on, or whose channel closes unheard. *)
LEMMA GetsOnInv ==
  ASSUME Inv, NEW a \in Attempts, NEW next \in Pending, step[a] \in Pending,
         step' = [step EXCEPT ![a] = next], up' \in [Attempts -> BOOLEAN],
         UNCHANGED <<options, state, current, timers, ready, returned, closed, aborted>>
  PROVE  Inv'
<1> USE DEF Inv
<1>a. step'[a] = next /\ \A b \in Attempts : b # a => step'[b] = step[b]
  BY DEF Typed
<1>b. current # a /\ next # "none" /\ next # "held" /\ step[a] # "none"
  BY AttemptsAssumption DEF CurrentIsHeld, Pending, NoAttempt
<1>1. Typed'
  BY DEF Typed
<1>2. CurrentIsHeld'
  BY <1>a, <1>b DEF CurrentIsHeld, Typed
<1>3. Driven'
  BY <1>a, <1>b DEF Driven
<1>4. Ended'
  BY <1>a, <1>b DEF Ended
<1> QED BY <1>1, <1>2, <1>3, <1>4

\* The retry timer starts an attempt.
LEMMA AttemptConnectInv == ASSUME NEW a \in Attempts PROVE Inv /\ AttemptConnect(a) => Inv'
<1> SUFFICES ASSUME Inv, AttemptConnect(a) PROVE Inv'
  OBVIOUS
<1> USE DEF Inv, AttemptConnect
<1>a. timers = 1 /\ ~closed /\ \A b \in Attempts : step[b] = "none"
  BY DEF Driven, Ended
<1>b. step'[a] = "dial" /\ \A b \in Attempts : b # a => step'[b] = "none"
  BY <1>a DEF Typed
<1>c. current = NoAttempt
  BY <1>a DEF CurrentIsHeld, Typed
<1>1. Typed'
  BY <1>a DEF Typed, Pending
<1>2. CurrentIsHeld'
  BY <1>b, <1>c DEF CurrentIsHeld
<1>3. Driven'
  BY <1>a, <1>b DEF Driven
<1>4. Ended'
  BY DEF Ended
<1> QED BY <1>1, <1>2, <1>3, <1>4

\* An attempt dials.
LEMMA DialInv == ASSUME NEW a \in Attempts PROVE Inv /\ Dial(a) => Inv'
<1> SUFFICES ASSUME Inv, Dial(a) PROVE Inv'
  OBVIOUS
<1>1. CASE Fail(a, "OFFLINE") \/ Fail(a, "TRANSPORT_ERROR")
  BY <1>1, FailInv DEF Dial, Pending
<1>2. CASE ~(Fail(a, "OFFLINE") \/ Fail(a, "TRANSPORT_ERROR"))
  <2>1. /\ step[a] = "dial" /\ step' = [step EXCEPT ![a] = "open"]
        /\ up' = [up EXCEPT ![a] = TRUE]
        /\ UNCHANGED <<options, state, current, timers, ready, returned, closed, aborted>>
    BY <1>2 DEF Dial
  <2>2. up' \in [Attempts -> BOOLEAN]
    BY <2>1 DEF Inv, Typed
  <2> QED BY <2>1, <2>2, GetsOnInv DEF Pending
<1> QED BY <1>1, <1>2

\* The open is answered.
LEMMA OpenReplyInv == ASSUME NEW a \in Attempts PROVE Inv /\ OpenReply(a) => Inv'
<1> SUFFICES ASSUME Inv, OpenReply(a) PROVE Inv'
  OBVIOUS
<1>1. CASE \E code \in Rejections \cup Transient : Fail(a, code)
  BY <1>1, FailInv DEF OpenReply, Pending
<1>2. CASE ~\E code \in Rejections \cup Transient : Fail(a, code)
  BY <1>2, GetsOnInv DEF OpenReply, Pending, Inv, Typed
<1> QED BY <1>1, <1>2

\* The handshake ends.
LEMMA HandshakeInv == ASSUME NEW a \in Attempts PROVE Inv /\ Handshake(a) => Inv'
<1> SUFFICES ASSUME Inv, Handshake(a) PROVE Inv'
  OBVIOUS
<1>1. CASE Fail(a, "TRANSPORT_ERROR")
  BY <1>1, FailInv DEF Handshake, Pending
<1>2. CASE ~Fail(a, "TRANSPORT_ERROR")
  BY <1>2, GetsOnInv DEF Handshake, Pending, Inv, Typed
<1> QED BY <1>1, <1>2

\* The session is adopted, or closed because the facade was.
LEMMA AdoptInv == ASSUME NEW a \in Attempts PROVE Inv /\ Adopt(a) => Inv'
<1> SUFFICES ASSUME Inv, Adopt(a) PROVE Inv'
  OBVIOUS
<1> USE DEF Inv
<1>a. step[a] = "shaken" /\ current # a
  BY AttemptsAssumption DEF Adopt, CurrentIsHeld, NoAttempt
<1>1. CASE closed
  <2>a. /\ step' = [step EXCEPT ![a] = "none"] /\ up' = [up EXCEPT ![a] = FALSE]
        /\ UNCHANGED <<options, state, current, timers, ready, closed, aborted>> /\ returned' = TRUE
    BY <1>1 DEF Adopt
  <2>b. step'[a] = "none" /\ \A b \in Attempts : b # a => step'[b] = step[b]
    BY <2>a DEF Typed
  <2>1. Typed'
    BY <2>a DEF Typed
  <2>2. CurrentIsHeld'
    BY <1>a, <2>a, <2>b DEF CurrentIsHeld, Typed
  <2>3. Driven' /\ Ended'
    BY <1>1, <2>a DEF Driven, Ended
  <2> QED BY <2>1, <2>2, <2>3
<1>2. CASE ~closed
  <2>a. /\ step' = [step EXCEPT ![a] = "held"] /\ current' = a /\ state' = "online"
        /\ UNCHANGED <<options, up, timers, closed, aborted>> /\ returned' = TRUE
        /\ ready' \in {ready, "resolved"}
    BY <1>2 DEF Adopt
  <2>b. step'[a] = "held" /\ \A b \in Attempts : b # a => step'[b] = step[b]
    BY <2>a DEF Typed
  <2>c. timers = 0 /\ \A b \in Attempts : b # a => step[b] = "none"
    BY <1>a, <1>2 DEF Driven, Ended
  <2>1. Typed'
    BY <2>a DEF Typed
  <2>2. CurrentIsHeld'
    BY <2>a, <2>b, <2>c DEF CurrentIsHeld
  <2>3. Driven' /\ Ended'
    BY <1>2, <2>a, <2>b, <2>c DEF Driven, Ended
  <2> QED BY <2>1, <2>2, <2>3
<1> QED BY <1>1, <1>2 DEF Typed

\* The session is lost and its driver starts again.
LEMMA SessionLostInv == ASSUME NEW a \in Attempts PROVE Inv /\ SessionLost(a) => Inv'
<1> SUFFICES ASSUME Inv, SessionLost(a) PROVE Inv'
  OBVIOUS
<1> USE DEF Inv
<1>a. /\ step[a] = "held" /\ step' = [step EXCEPT ![a] = "none"] /\ up' = [up EXCEPT ![a] = FALSE]
      /\ current' = NoAttempt /\ UNCHANGED <<options, ready, returned, closed, aborted>>
      /\ \/ state' = "stale" /\ timers' = timers + 1
         \/ state' = "closed" /\ timers' = timers
  BY DEF SessionLost
<1>b. step'[a] = "none" /\ \A b \in Attempts : b # a => step'[b] = step[b]
  BY <1>a DEF Typed
<1>c. current = a /\ state # "closed"
  BY <1>a, AttemptsAssumption DEF CurrentIsHeld, Ended, NoAttempt
<1>d. ~closed /\ timers = 0 /\ \A b \in Attempts : b # a => step[b] = "none"
  BY <1>a, <1>c DEF Driven
<1>1. Typed'
  BY <1>a DEF Typed
<1>2. CurrentIsHeld'
  BY <1>a, <1>b, <1>d DEF CurrentIsHeld
<1>3. Driven' /\ Ended'
  BY <1>a, <1>b, <1>d DEF Driven, Ended
<1> QED BY <1>1, <1>2, <1>3

\* The session is lost with nobody listening.
LEMMA LostUnheardInv == ASSUME NEW a \in Attempts PROVE Inv /\ LostUnheard(a) => Inv'
BY DEF LostUnheard, Inv, Typed, CurrentIsHeld, Driven, Ended

\* The host closes a channel nobody holds.
LEMMA LeftEndsInv == Inv /\ LeftEnds => Inv'
BY DEF LeftEnds, Inv, Typed, CurrentIsHeld, Driven, Ended

\* The explorer closes.
LEMMA CloseInv == Inv /\ Close => Inv'
<1> SUFFICES ASSUME Inv, Close PROVE Inv'
  OBVIOUS
<1> USE DEF Inv, Close, Shut
<1>1. Typed'
  BY DEF Typed, Pending
<1>2. CurrentIsHeld'
  BY DEF CurrentIsHeld, Typed
<1>3. Driven' /\ Ended'
  BY DEF Driven, Ended
<1> QED BY <1>1, <1>2, <1>3

\* The caller aborts.
LEMMA AbortInv == Inv /\ Abort => Inv'
<1> SUFFICES ASSUME Inv, Abort PROVE Inv'
  OBVIOUS
<1> USE DEF Inv, Abort, Shut
<1>1. Typed'
  BY DEF Typed, Pending
<1>2. CurrentIsHeld'
  BY AttemptsAssumption DEF CurrentIsHeld, Typed, NoAttempt
<1>3. Driven' /\ Ended'
  BY DEF Driven, Ended
<1> QED BY <1>1, <1>2, <1>3

(* Every step keeps the invariant. *)
LEMMA NextInv == Inv /\ [Next]_vars => Inv'
<1> SUFFICES ASSUME Inv, [Next]_vars PROVE Inv'
  OBVIOUS
<1>1. CASE UNCHANGED vars
  BY <1>1 DEF vars, Inv, Typed, CurrentIsHeld, Driven, Ended
<1>2. CASE Next
  BY <1>2, AttemptConnectInv, DialInv, OpenReplyInv, HandshakeInv, AdoptInv, SessionLostInv,
     LostUnheardInv, LeftEndsInv, CloseInv, AbortInv DEF Next
<1> QED BY <1>1, <1>2

(* The inductive invariant holds in every reachable state. *)
LEMMA Invariant == Spec => []Inv
BY InitInv, NextInv, PTL DEF Spec

-----------------------------------------------------------------------------
(* A connection that is not closed is driven by exactly one attempt, session *)
(* or retry timer; a closed one by no timer and no session (connectMille).   *)
THEOREM OneDriver == Spec => []ExactlyOneDriver
<1>1. Inv => ExactlyOneDriver
  <2> SUFFICES ASSUME Inv PROVE ExactlyOneDriver
    OBVIOUS
  <2> USE DEF Inv
  <2>1. CASE state = "closed"
    BY <2>1 DEF Ended, ExactlyOneDriver
  <2>2. CASE state # "closed" /\ timers = 1 /\ \A a \in Attempts : step[a] = "none"
    <3>1. Driving = {}
      BY <2>2 DEF Driving, Pending
    <3>2. Cardinality(Driving) = 0
      BY <3>1, FS_EmptySet
    <3> QED BY <2>2, <3>2 DEF ExactlyOneDriver
  <2>3. CASE /\ state # "closed" /\ timers = 0
             /\ \E a \in Attempts :
                  step[a] # "none" /\ \A b \in Attempts : b # a => step[b] = "none"
    <3>1. PICK a \in Attempts : step[a] # "none" /\ \A b \in Attempts : b # a => step[b] = "none"
      BY <2>3
    <3>2. Driving = {a}
      BY <3>1 DEF Driving, Pending, Typed
    <3>3. Cardinality(Driving) = 1
      BY <3>2, FS_Singleton
    <3> QED BY <2>3, <3>3 DEF ExactlyOneDriver
  <2> QED BY <2>1, <2>2, <2>3 DEF Driven
<1> QED BY <1>1, Invariant, PTL

(* After close() or an abort the connection stays closed and no attempt     *)
(* begins: those under way may only end (close, and adopt's check of it).   *)
ClosedOnlyEnds ==
    closed => /\ closed' /\ state' = "closed" /\ current' = NoAttempt
              /\ \A a \in Attempts : step[a] = "none" => step'[a] = "none"

\* Whatever attempts were under way when close() or the abort came, none of
\* them reopens the connection (adopt's check of closed).
THEOREM ClosedStaysClosed == Spec => [][ClosedOnlyEnds]_vars
<1>1. Inv /\ Inv' /\ [Next]_vars => [ClosedOnlyEnds]_vars
  <2> SUFFICES ASSUME Inv, Inv', Next, closed PROVE ClosedOnlyEnds
    BY DEF ClosedOnlyEnds
  <2>1. state = "closed" /\ timers = 0
    BY DEF Inv, Driven, Ended
  <2>2. closed' 
    BY DEF Next, AttemptConnect, Dial, OpenReply, Handshake, Adopt, SessionLost, LostUnheard,
           LeftEnds, Close, Abort, Shut
  <2>3. state' = "closed" /\ current' = NoAttempt
    BY <2>2 DEF Inv, Driven, Ended
  <2>4. ASSUME NEW b \in Attempts, step[b] = "none" PROVE step'[b] = "none"
    <3>1. ASSUME NEW a \in Attempts, AttemptConnect(a) PROVE step'[b] = "none"
      BY <2>1, <3>1 DEF AttemptConnect
    <3>2. ASSUME NEW a \in Attempts, \/ Dial(a) \/ OpenReply(a) \/ Handshake(a) \/ Adopt(a)
                                     \/ SessionLost(a) \/ LostUnheard(a)
          PROVE  step'[b] = "none"
      BY <2>4, <3>2 DEF Dial, OpenReply, Handshake, Adopt, SessionLost, LostUnheard, Fail, Inv,
                        Typed
    <3>3. CASE LeftEnds \/ Close \/ Abort
      BY <2>4, <3>3 DEF LeftEnds, Close, Abort
    <3> QED BY <3>1, <3>2, <3>3 DEF Next
  <2> QED BY <2>2, <2>3, <2>4 DEF ClosedOnlyEnds
<1> QED BY <1>1, Invariant, PTL DEF Spec

-----------------------------------------------------------------------------
(* The server.  While it is up, an entry counts its users: the connections  *)
(* that acquired it and have a session, or are about to.  An entry without  *)
(* users is disposed or has its lease running, one with users neither, and  *)
(* the entry in the export's slot is not disposed.                          *)

Using(c) == c \in sessions \/ phase[c] = "acquired"
Users(e) == {c \in Conns : holds[c] = e /\ Using(c)}
Entries == [count : Nat, lease : BOOLEAN, alive : BOOLEAN]

ServerTyped ==
    /\ phase \in [Conns -> Server!Phases] /\ holds \in [Conns -> Nat]
    /\ sessions \subseteq Conns /\ hosts \in Nat
    /\ entries \in Seq(Entries)

Accounted(entry, users) ==
    /\ IsFiniteSet(users) /\ entry.count = Cardinality(users)
    /\ entry.lease => entry.count = 0
    /\ entry.count = 0 => entry.lease \/ ~entry.alive
    /\ entry.count > 0 => entry.alive

ServerInv ==
    server = "up" =>
      /\ ServerTyped
      /\ hosts # 0 => hosts \in DOMAIN entries /\ entries[hosts].alive
      /\ \A c \in sessions : phase[c] = "attached"
      /\ \A c \in Conns : Using(c) => holds[c] \in DOMAIN entries
      /\ \A e \in DOMAIN entries : Accounted(entries[e], Users(e))

(* Adding or removing one user changes the count by one. *)
LEMMA UsersCount ==
  /\ \A S, x : IsFiniteSet(S) /\ x \notin S
                 => IsFiniteSet(S \cup {x}) /\ Cardinality(S \cup {x}) = Cardinality(S) + 1
  /\ \A S, x : IsFiniteSet(S) /\ x \in S
                 => IsFiniteSet(S \ {x}) /\ Cardinality(S \ {x}) = Cardinality(S) - 1
                    /\ Cardinality(S) \in Nat /\ Cardinality(S) > 0
  /\ \A x : IsFiniteSet({x}) /\ Cardinality({x}) = 1
  /\ \A S : IsFiniteSet(S) => (Cardinality(S) = 0 <=> S = {}) /\ Cardinality(S) \in Nat
<1>1. ASSUME NEW S, NEW x, IsFiniteSet(S), x \notin S
      PROVE  IsFiniteSet(S \cup {x}) /\ Cardinality(S \cup {x}) = Cardinality(S) + 1
  BY <1>1, FS_AddElement
<1>2. ASSUME NEW S, NEW x, IsFiniteSet(S), x \in S
      PROVE  IsFiniteSet(S \ {x}) /\ Cardinality(S \ {x}) = Cardinality(S) - 1
             /\ Cardinality(S) \in Nat /\ Cardinality(S) > 0
  <2>1. IsFiniteSet(S \ {x}) /\ Cardinality(S \ {x}) = Cardinality(S) - 1
    BY <1>2, FS_RemoveElement
  <2>2. Cardinality(S) \in Nat /\ Cardinality(S \ {x}) \in Nat
    BY <1>2, <2>1, FS_CardinalityType
  <2> QED BY <2>1, <2>2
<1>3. ASSUME NEW x PROVE IsFiniteSet({x}) /\ Cardinality({x}) = 1
  BY FS_Singleton
<1>4. ASSUME NEW S, IsFiniteSet(S)
      PROVE  (Cardinality(S) = 0 <=> S = {}) /\ Cardinality(S) \in Nat
  BY <1>4, FS_EmptySet, FS_CardinalityType
<1> QED BY <1>1, <1>2, <1>3, <1>4

(* A server that listens: no host, nobody connected. *)
LEMMA ServerInit == Server!Init => ServerInv
BY DEF Server!Init, ServerInv, ServerTyped, Server!Phases, Using

(* A connection that holds no host moves on, and comes to hold none. *)
LEMMA OutsiderMoves ==
  ASSUME ServerInv, NEW c \in Conns, ~Using(c), NEW p \in Server!Phases \ {"acquired"},
         phase' = [phase EXCEPT ![c] = p],
         UNCHANGED <<holds, entries, hosts, sessions, server>>
  PROVE  ServerInv'
<1> SUFFICES ASSUME server = "up" PROVE ServerInv'
  BY DEF ServerInv
<1>1. ServerTyped /\ ServerTyped'
  BY DEF ServerInv, ServerTyped
<1>2. \A x \in Conns : Using(x)' = Using(x)
  BY <1>1 DEF Using, ServerTyped
<1>3. \A e : Users(e)' = Users(e)
  BY <1>2 DEF Users
<1>4. \A x \in sessions : phase'[x] = "attached"
  BY <1>1 DEF ServerInv, Using, ServerTyped
<1>5. \A x \in Conns : Using(x)' => holds[x] \in DOMAIN entries
  BY <1>2 DEF ServerInv
<1>6. \A e \in DOMAIN entries : Accounted(entries[e], Users(e)')
  BY <1>3 DEF ServerInv
<1> QED BY <1>1, <1>4, <1>5, <1>6 DEF ServerInv

(* acquireHost on the cached entry: one user more, and no lease. *)
LEMMA ServerAcquires ==
  ASSUME ServerInv, NEW c \in Conns, phase[c] = "authorizing", hosts # 0, Server!Acquire(c),
         phase' = [phase EXCEPT ![c] = "acquired"], UNCHANGED <<hosts, sessions, server>>
  PROVE  ServerInv'
<1> SUFFICES ASSUME server = "up" PROVE ServerInv'
  BY DEF ServerInv
<1> DEFINE h == [entries[hosts] EXCEPT !.count = @ + 1, !.lease = FALSE]
<1>1. ServerTyped /\ hosts \in DOMAIN entries /\ entries[hosts].alive /\ entries[hosts] \in Entries
  BY DEF ServerInv, ServerTyped
<1>2. entries' = [entries EXCEPT ![hosts] = h] /\ holds' = [holds EXCEPT ![c] = hosts]
  BY DEF Server!Acquire
<1>3. h \in Entries /\ h.count = entries[hosts].count + 1 /\ ~h.lease /\ h.alive
  <2> DEFINE n == entries[hosts].count + 1
  <2>1. h \in Entries /\ h.count = entries[hosts].count + 1
    <3>1. n \in Nat /\ h = [entries[hosts] EXCEPT !.count = n, !.lease = FALSE]
      BY <1>1 DEF Entries
    <3> HIDE DEF n, h
    <3>2. h \in Entries /\ h.count = n
      BY <1>1, <3>1 DEF Entries
    <3> QED BY <3>2 DEF n
  <2>2. h.lease = FALSE /\ h.alive = entries[hosts].alive
    BY <1>1 DEF Entries
  <2> QED BY <1>1, <2>1, <2>2, Zenon
<1> HIDE DEF h
<1>4. /\ ServerTyped' /\ DOMAIN entries' = DOMAIN entries /\ entries'[hosts] = h
      /\ \A e \in DOMAIN entries \ {hosts} : entries'[e] = entries[e]
  BY <1>1, <1>2, <1>3 DEF ServerTyped, Server!Phases
<1>5. ~Using(c) /\ Using(c)' /\ holds'[c] = hosts
  BY <1>1, <1>2 DEF Using, ServerInv, ServerTyped
<1>6. \A x \in Conns \ {c} : Using(x)' = Using(x) /\ holds'[x] = holds[x]
  BY <1>1, <1>2 DEF Using, ServerTyped
<1>7. Users(hosts)' = Users(hosts) \cup {c} /\ c \notin Users(hosts)
  BY <1>5, <1>6 DEF Users
<1>8. \A e \in DOMAIN entries \ {hosts} : Users(e)' = Users(e)
  BY <1>5, <1>6 DEF Users
<1>9. Accounted(h, Users(hosts)')
  <2>1. Accounted(entries[hosts], Users(hosts))
    BY <1>1 DEF ServerInv
  <2> QED BY <1>1, <1>3, <1>7, <2>1, UsersCount DEF Accounted, Entries
<1>10. \A e \in DOMAIN entries' : Accounted(entries'[e], Users(e)')
  BY <1>4, <1>8, <1>9 DEF ServerInv
<1>11. \A x \in sessions : phase'[x] = "attached"
  BY <1>1, <1>5 DEF ServerInv, Using, ServerTyped
<1>12. \A x \in Conns : Using(x)' => holds'[x] \in DOMAIN entries'
  BY <1>1, <1>4, <1>5, <1>6 DEF ServerInv
<1> QED BY <1>1, <1>3, <1>4, <1>10, <1>11, <1>12 DEF ServerInv

(* A host was created: its entry has the connection that waited for it. *)
LEMMA ServerCreates ==
  ASSUME ServerInv, NEW c \in Conns, Server!HostCreated(c)
  PROVE  ServerInv'
<1> SUFFICES ASSUME server = "up" PROVE ServerInv'
  BY DEF ServerInv, Server!HostCreated
<1> PICK n : n = Len(entries) + 1
  OBVIOUS
<1> DEFINE h == [count |-> 1, lease |-> FALSE, alive |-> TRUE]
<1>1. /\ ServerTyped /\ phase[c] = "creating" /\ entries' = Append(entries, h) /\ hosts' = n
      /\ holds' = [holds EXCEPT ![c] = n] /\ phase' = [phase EXCEPT ![c] = "acquired"]
      /\ UNCHANGED <<sessions, server>>
  BY DEF ServerInv, Server!HostCreated
<1>2. h \in Entries
  BY DEF Entries
<1>3. /\ n \in Nat /\ n # 0 /\ DOMAIN entries' = DOMAIN entries \cup {n} /\ n \notin DOMAIN entries
      /\ entries'[n] = h /\ \A e \in DOMAIN entries : entries'[e] = entries[e]
      /\ entries' \in Seq(Entries)
  <2> HIDE DEF h
  <2> QED BY <1>1, <1>2 DEF ServerTyped
<1>4. ServerTyped'
  <2> HIDE DEF h
  <2> QED BY <1>1, <1>3 DEF ServerTyped, Server!Phases
<1>5. ~Using(c) /\ Using(c)' /\ holds'[c] = n
  BY <1>1 DEF Using, ServerInv, ServerTyped
<1>6. \A x \in Conns \ {c} : Using(x)' = Using(x) /\ holds'[x] = holds[x]
  BY <1>1 DEF Using, ServerTyped
<1>7. \A x \in Conns : Using(x) => holds[x] \in DOMAIN entries
  BY DEF ServerInv
<1>8. Users(n)' = {c}
  <2>1. \A x \in Conns : (holds'[x] = n /\ Using(x)') <=> x = c
    BY <1>3, <1>5, <1>6, <1>7
  <2> QED BY <2>1, Zenon DEF Users
<1>9. \A e \in DOMAIN entries : Users(e)' = Users(e)
  BY <1>3, <1>5, <1>6 DEF Users
<1>10. Accounted(h, {c})
  BY UsersCount DEF Accounted
<1>11. \A e \in DOMAIN entries' : Accounted(entries'[e], Users(e)')
  <2> TAKE e \in DOMAIN entries'
  <2>1. CASE e = n
    BY <1>3, <1>8, <1>10, <2>1
  <2>2. CASE e \in DOMAIN entries
    <3>1. Accounted(entries[e], Users(e))
      BY <2>2 DEF ServerInv
    <3> QED BY <1>3, <1>9, <2>2, <3>1
  <2> QED BY <1>3, <2>1, <2>2
<1>12. \A x \in sessions : phase'[x] = "attached"
  BY <1>1, <1>5 DEF ServerInv, Using, ServerTyped
<1>13. \A x \in Conns : Using(x)' => holds'[x] \in DOMAIN entries'
  BY <1>3, <1>5, <1>6, <1>7
<1> QED BY <1>1, <1>3, <1>4, <1>11, <1>12, <1>13 DEF ServerInv

(* The session is listed: the connection stays a user of a host that is     *)
(* alive.                                                                   *)
LEMMA ServerAttaches ==
  ASSUME ServerInv, NEW c \in Conns, Server!Attach(c)
  PROVE  ServerInv'
<1> SUFFICES ASSUME server = "up" PROVE ServerInv'
  BY DEF ServerInv, Server!Attach
<1>1. ServerTyped /\ Using(c) /\ phase[c] = "acquired" /\ holds[c] \in DOMAIN entries
  BY DEF ServerInv, Server!Attach, Using
<1>2. entries[holds[c]].alive
  <2>1. Accounted(entries[holds[c]], Users(holds[c])) /\ c \in Users(holds[c])
    BY <1>1 DEF ServerInv, Users
  <2>2. entries[holds[c]].count > 0
    BY <2>1, UsersCount DEF Accounted
  <2> QED BY <2>1, <2>2 DEF Accounted
<1>3. /\ phase' = [phase EXCEPT ![c] = "attached"] /\ sessions' = sessions \cup {c}
      /\ UNCHANGED <<holds, entries, hosts, server>>
  BY <1>2 DEF Server!Attach
<1>4. ServerTyped' /\ \A x \in sessions' : phase'[x] = "attached"
  BY <1>1, <1>3 DEF ServerInv, ServerTyped, Server!Phases
<1>5. \A x \in Conns : Using(x)' = Using(x)
  BY <1>1, <1>3 DEF Using, ServerTyped
<1>6. \A e : Users(e)' = Users(e)
  BY <1>3, <1>5 DEF Users
<1>7. \A e \in DOMAIN entries' : Accounted(entries'[e], Users(e)')
  BY <1>3, <1>6 DEF ServerInv
<1>8. \A x \in Conns : Using(x)' => holds'[x] \in DOMAIN entries'
  BY <1>3, <1>5 DEF ServerInv
<1> QED BY <1>3, <1>4, <1>7, <1>8 DEF ServerInv

(* A session's channel closed: one user less, the last one starts the lease. *)
LEMMA ServerReleases ==
  ASSUME ServerInv, NEW c \in Conns, Server!ChannelClose(c), c \in sessions
  PROVE  ServerInv'
<1> SUFFICES ASSUME server = "up" PROVE ServerInv'
  BY DEF ServerInv, Server!ChannelClose
<1> PICK e : e = holds[c]
  OBVIOUS
<1> DEFINE h == [entries[e] EXCEPT !.count = @ - 1, !.lease = entries[e].count = 1 /\ server = "up"]
<1>1. /\ ServerTyped /\ Using(c) /\ phase[c] = "attached" /\ e \in DOMAIN entries
      /\ entries[e] \in Entries
  BY DEF ServerInv, ServerTyped, Using
<1>2. /\ phase' = phase /\ sessions' = sessions \ {c} /\ entries' = [entries EXCEPT ![e] = h]
      /\ UNCHANGED <<holds, hosts, server>>
  BY <1>1 DEF Server!ChannelClose, Server!ReleaseHost, ServerTyped
<1>3. c \in Users(e) /\ Accounted(entries[e], Users(e))
  BY <1>1 DEF ServerInv, Users
<1>4. entries[e].count > 0 /\ entries[e].alive
  BY <1>3, UsersCount DEF Accounted
<1>5. h \in Entries /\ h.count = entries[e].count - 1 /\ h.lease = (h.count = 0) /\ h.alive
  <2> DEFINE n == entries[e].count - 1
             l == entries[e].count = 1 /\ server = "up"
  <2>1. n \in Nat /\ l \in BOOLEAN /\ l = (n = 0)
    BY <1>1, <1>4 DEF Entries
  <2>2. h = [entries[e] EXCEPT !.count = n, !.lease = l]
    OBVIOUS
  <2> HIDE DEF n, l, h
  <2>3. h \in Entries /\ h.count = n
    BY <1>1, <2>1, <2>2 DEF Entries
  <2>4. h.lease = l /\ h.alive = entries[e].alive
    BY <1>1, <2>2 DEF Entries
  <2>5. h.count = entries[e].count - 1
    BY <2>3 DEF n
  <2>6. h.lease = (h.count = 0)
    BY <2>1, <2>3, <2>4, Zenon
  <2> QED BY <1>4, <2>3, <2>4, <2>5, <2>6, Zenon
<1> HIDE DEF h
<1>6. /\ ServerTyped' /\ DOMAIN entries' = DOMAIN entries /\ entries'[e] = h
      /\ \A x \in DOMAIN entries \ {e} : entries'[x] = entries[x]
  BY <1>1, <1>2, <1>5 DEF ServerTyped
<1>7. ~Using(c)' /\ \A x \in Conns \ {c} : Using(x)' = Using(x)
  BY <1>1, <1>2 DEF Using
<1>8. Users(e)' = Users(e) \ {c} /\ \A x \in DOMAIN entries \ {e} : Users(x)' = Users(x)
  BY <1>2, <1>7 DEF Users
<1>9. Accounted(h, Users(e)')
  BY <1>1, <1>3, <1>4, <1>5, <1>8, UsersCount DEF Accounted, Entries
<1>10. \A x \in DOMAIN entries' : Accounted(entries'[x], Users(x)')
  <2> TAKE x \in DOMAIN entries'
  <2>1. CASE x = e
    BY <1>6, <1>9, <2>1
  <2>2. CASE x # e
    <3>1. Accounted(entries[x], Users(x)) /\ entries'[x] = entries[x] /\ Users(x)' = Users(x)
      BY <1>6, <1>8, <2>2 DEF ServerInv
    <3> QED BY <3>1
  <2> QED BY <2>1, <2>2
<1>11. \A x \in Conns : Using(x)' => holds'[x] \in DOMAIN entries'
  BY <1>2, <1>6, <1>7 DEF ServerInv
<1>12. hosts # 0 => hosts \in DOMAIN entries' /\ entries'[hosts].alive
  BY <1>5, <1>6 DEF ServerInv
<1> QED BY <1>2, <1>6, <1>10, <1>11, <1>12 DEF ServerInv

(* The lease timer: only an entry without users is disposed, and then the    *)
(* export's slot is empty.                                                  *)
LEMMA ServerLeases ==
  ASSUME ServerInv, NEW e \in DOMAIN entries, Server!LeaseExpires(e)
  PROVE  ServerInv'
<1> SUFFICES ASSUME server = "up" PROVE ServerInv'
  BY DEF ServerInv, Server!LeaseExpires
<1> DEFINE h == [entries[e] EXCEPT !.lease = FALSE, !.alive = FALSE]
<1>1. ServerTyped /\ entries[e] \in Entries /\ Accounted(entries[e], Users(e)) /\ entries[e].lease
  BY DEF ServerInv, ServerTyped, Server!LeaseExpires
<1>2. entries[e].count = 0
  BY <1>1 DEF Accounted
<1>3. /\ entries' = [entries EXCEPT ![e] = h] /\ hosts' = 0
      /\ UNCHANGED <<phase, holds, sessions, server>>
  BY <1>2 DEF Server!LeaseExpires
<1>4. h \in Entries /\ h.count = 0 /\ ~h.lease /\ ~h.alive
  BY <1>1, <1>2 DEF Entries
<1> HIDE DEF h
<1>5. /\ ServerTyped' /\ DOMAIN entries' = DOMAIN entries /\ entries'[e] = h
      /\ \A x \in DOMAIN entries \ {e} : entries'[x] = entries[x]
  BY <1>1, <1>3, <1>4 DEF ServerTyped
<1>6. \A x : Users(x)' = Users(x)
  BY <1>3 DEF Users, Using
<1>7. Accounted(h, Users(e))
  BY <1>1, <1>2, <1>4 DEF Accounted
<1>8. \A x \in DOMAIN entries' : Accounted(entries'[x], Users(x)')
  BY <1>5, <1>6, <1>7 DEF ServerInv
<1>9. \A x \in Conns : Using(x)' => holds'[x] \in DOMAIN entries'
  BY <1>3, <1>5 DEF ServerInv, Using
<1>10. \A x \in sessions' : phase'[x] = "attached"
  BY <1>3 DEF ServerInv
<1> QED BY <1>3, <1>5, <1>8, <1>9, <1>10 DEF ServerInv

(* serveMille, with any sockets, peers and limits: as long as the server is *)
(* up, a session's host is alive, and a host that nobody uses has its lease  *)
(* running, whatever the order of opens, closes, timers and failures.        *)
THEOREM HostsFollow == Server!Spec => []HostFollowsItsSessions
<1>1. ServerInv /\ [Server!Next]_(Server!vars) => ServerInv'
  <2> SUFFICES ASSUME ServerInv, [Server!Next]_(Server!vars) PROVE ServerInv'
    OBVIOUS
  <2>1. CASE UNCHANGED Server!vars
    BY <2>1 DEF Server!vars, ServerInv, ServerTyped, Users, Using
  <2>2. CASE Server!Close \/ Server!ListenerClosed \/ Server!Closed
    BY <2>2 DEF Server!Close, Server!ListenerClosed, Server!Closed, ServerInv
  <2>3. ASSUME NEW c \in Conns, server # "up",
               \/ Server!Connect(c) \/ Server!OpenTimeout(c) \/ Server!OpenWorkspace(c)
               \/ Server!Authorized(c) \/ Server!CreateFails(c) \/ Server!ChannelClose(c)
        PROVE  ServerInv'
    BY <2>3 DEF Server!Connect, Server!OpenTimeout, Server!OpenWorkspace, Server!Authorized,
                Server!CreateFails, Server!ChannelClose, ServerInv
  <2>4. ASSUME NEW c \in Conns, ~Using(c), NEW p \in Server!Phases \ {"acquired"},
               phase' = [phase EXCEPT ![c] = p],
               UNCHANGED <<holds, entries, hosts, sessions, server>>
        PROVE  ServerInv'
    BY <2>4, OutsiderMoves
  <2>5. ASSUME NEW c \in Conns, server = "up",
               phase[c] \in {"idle", "waiting", "authorizing", "creating"}
        PROVE  ~Using(c)
    BY <2>5 DEF ServerInv, Using
  <2>6. ASSUME NEW c \in Conns, server = "up",
               \/ Server!Connect(c) \/ Server!OpenTimeout(c) \/ Server!OpenWorkspace(c)
               \/ Server!CreateFails(c)
        PROVE  ServerInv'
    BY <2>4, <2>5, <2>6 DEF Server!Connect, Server!OpenTimeout, Server!OpenWorkspace,
       Server!CreateFails, Server!Over, Server!Phases
  <2>7. ASSUME NEW c \in Conns, server = "up", Server!Authorized(c) PROVE ServerInv'
    <3>1. phase[c] = "authorizing" /\ ~Using(c) /\ UNCHANGED <<hosts, sessions, server>>
      BY <2>5, <2>7 DEF Server!Authorized
    <3>2. CASE Server!Over(c) /\ UNCHANGED <<holds, entries>>
      BY <2>4, <3>1, <3>2 DEF Server!Over, Server!Phases
    <3>3. CASE phase' = [phase EXCEPT ![c] = "creating"] /\ UNCHANGED <<holds, entries>>
      BY <2>4, <3>1, <3>3 DEF Server!Phases
    <3>4. CASE /\ hosts # 0 /\ Server!Acquire(c)
               /\ phase' = [phase EXCEPT ![c] = "acquired"]
      BY <3>1, <3>4, ServerAcquires
    <3> QED BY <2>7, <3>2, <3>3, <3>4 DEF Server!Authorized
  <2>8. ASSUME NEW c \in Conns, server = "up", Server!ChannelClose(c) PROVE ServerInv'
    <3>1. CASE c \in sessions
      BY <2>8, <3>1, ServerReleases
    <3>2. CASE c \notin sessions
      <4> DEFINE p == IF phase[c] = "waiting" THEN "over" ELSE phase[c]
      <4>1. phase[c] # "acquired" /\ ServerTyped
        BY <2>8 DEF Server!ChannelClose, Server!Quiet, ServerInv
      <4>2. /\ ~Using(c) /\ p \in Server!Phases \ {"acquired"} /\ phase' = [phase EXCEPT ![c] = p]
            /\ UNCHANGED <<holds, entries, hosts, sessions, server>>
        BY <2>8, <3>2, <4>1 DEF Server!ChannelClose, Using, ServerTyped, Server!Phases
      <4> HIDE DEF p
      <4> QED BY <2>4, <4>2
    <3> QED BY <3>1, <3>2
  <2> QED BY <2>1, <2>2, <2>3, <2>6, <2>7, <2>8, ServerCreates, ServerAttaches, ServerLeases
      DEF Server!Next
<1>2. ServerInv => HostFollowsItsSessions
  <2> SUFFICES ASSUME ServerInv, server = "up"
               PROVE  /\ \A c \in Conns : Using(c) => entries[holds[c]].alive
                      /\ \A e \in DOMAIN entries : entries[e].alive =>
                            entries[e].lease \/ \E c \in Conns : holds[c] = e /\ Using(c)
    BY DEF HostFollowsItsSessions, Server!HostInUseIsAlive, Server!IdleHostIsLeased, Using
  <2>1. ASSUME NEW c \in Conns, Using(c) PROVE entries[holds[c]].alive
    <3>1. /\ c \in Users(holds[c]) /\ Accounted(entries[holds[c]], Users(holds[c]))
      BY <2>1 DEF Users, ServerInv
    <3>2. entries[holds[c]].count > 0
      BY <3>1, UsersCount DEF Accounted
    <3> QED BY <3>1, <3>2 DEF Accounted
  <2>2. ASSUME NEW e \in DOMAIN entries, entries[e].alive, ~entries[e].lease
        PROVE  \E c \in Conns : holds[c] = e /\ Using(c)
    <3>1. Accounted(entries[e], Users(e))
      BY DEF ServerInv
    <3>2. Users(e) # {}
      BY <2>2, <3>1, UsersCount DEF Accounted
    <3> QED BY <3>2 DEF Users
  <2> QED BY <2>1, <2>2
<1> QED BY <1>1, <1>2, ServerInit, PTL DEF Server!Spec

-----------------------------------------------------------------------------
(* One remote session.  The open request travels unchanged to the verdict,  *)
(* `accepted` is sent by an open that succeeded and says if it may write,    *)
(* and nothing about a session changes once it is not "opening" any more     *)
(* except that it ends.                                                      *)

Requests == [access : Remote!RemoteAccess, valid : BOOLEAN]
ToServer(q) == {[type |-> "open", arg |-> q], [type |-> "pong", arg |-> "none"],
                [type |-> "explorer", arg |-> "none"]}
Codes == {"INVALID_REQUEST", "VERSION_UNSUPPORTED", "ACCESS_DENIED", "LIMIT_EXCEEDED",
          "SERVER_SHUTTING_DOWN"}
ToClient == [type : {"ping"}, arg : {"none"}] \cup [type : {"accepted"}, arg : Remote!RemoteAccess]
              \cup [type : {"rejected"}, arg : Codes]

RemoteTyped ==
    /\ rsUp \in [{"server", "client"} -> BOOLEAN]
    /\ request \in Requests
    /\ toServer \in Seq(ToServer(request)) /\ toClient \in Seq(ToClient)

Underway ==
    /\ rsState # "closed" => rsUp["server"]
    /\ verdict # Remote!NoRequest => verdict = request /\ openSeen
    /\ rsState = "opening" => session = "none" /\ opened # "resolved" /\ refusal = "none"
    /\ ~openSeen => session = "none" /\ opened # "resolved"
    /\ opened = "resolved" => session # "none"

AcceptedIsTrue ==
    /\ \A i \in 1..Len(toClient) : toClient[i].type = "accepted" =>
          opened = "resolved" /\ toClient[i].arg = Remote!ReportedAccess(access)
    /\ outcome = "accepted" => opened = "resolved" /\ reported = Remote!ReportedAccess(access)
    /\ opened = "resolved" => refusal = "none"

RemoteInv == RemoteTyped /\ Underway /\ AcceptedIsTrue /\ Remote!AttachedByGrant /\ Remote!AttachedIsUp

(* The request is on its way, and nothing else has happened. *)
LEMMA RemoteInit == Remote!Init => RemoteInv
<1> SUFFICES ASSUME Remote!Init PROVE RemoteInv
  OBVIOUS
<1>1. Remote!Frame("open", request) \in ToServer(request)
  BY DEF ToServer, Remote!Frame
<1>2. RemoteTyped
  <2>1. rsUp \in [{"server", "client"} -> BOOLEAN]
    BY DEF Remote!Init
  <2>2. toServer \in Seq(ToServer(request)) /\ toClient \in Seq(ToClient)
    BY <1>1 DEF Remote!Init
  <2>3. request \in Requests
    BY DEF Remote!Init, Requests
  <2> QED BY <2>1, <2>2, <2>3 DEF RemoteTyped
<1>3. Underway /\ AcceptedIsTrue /\ Remote!AttachedByGrant /\ Remote!AttachedIsUp
  BY DEF Remote!Init, Underway, AcceptedIsTrue, Remote!AttachedByGrant, Remote!AttachedIsUp
<1> QED BY <1>2, <1>3 DEF RemoteInv

(* The channel's end at the server is gone: the session ends with it. *)
LEMMA RemoteTeardown ==
  ASSUME RemoteInv, NEW why1, Remote!Teardown(why1),
         UNCHANGED <<verdict, access, granted, request, outcome, reported>>,
         openSeen => openSeen', refusal' = refusal \/ opened # "resolved",
         toServer' \in Seq(ToServer(request)), toClient' \in Seq(ToClient),
         \A i \in 1..Len(toClient') : toClient'[i].type = "accepted" =>
            opened = "resolved" /\ toClient'[i].arg = Remote!ReportedAccess(access)
  PROVE  RemoteInv'
<1>1. /\ rsUp' = [rsUp EXCEPT !["server"] = FALSE] /\ rsState' = "closed"
      /\ session' = IF session = "attached" THEN "disposed" ELSE session
      /\ opened' = IF rsState = "opening" THEN "rejected" ELSE opened
  BY DEF Remote!Teardown
<1>2. RemoteTyped'
  BY <1>1 DEF RemoteTyped, RemoteInv
<1>3. (opened' = "resolved") <=> (opened = "resolved")
  BY <1>1 DEF RemoteInv, Underway
<1>4. Underway'
  BY <1>1, <1>3 DEF RemoteInv, Underway
<1>5. AcceptedIsTrue'
  BY <1>3 DEF RemoteInv, AcceptedIsTrue
<1>6. Remote!AttachedByGrant'
  BY <1>1 DEF RemoteInv, Remote!AttachedByGrant
<1>7. Remote!AttachedIsUp'
  BY <1>1 DEF Remote!AttachedIsUp
<1> QED BY <1>2, <1>4, <1>5, <1>6, <1>7 DEF RemoteInv

(* Frames move, and the session stays as it is. *)
LEMMA RemoteFrames ==
  ASSUME RemoteInv, UNCHANGED <<rsState, session, opened, refusal, access, granted, request>>,
         UNCHANGED rsUp \/ \E b \in BOOLEAN : rsUp' = [rsUp EXCEPT !["client"] = b],
         openSeen => openSeen', verdict' # Remote!NoRequest => verdict' = request /\ openSeen',
         toServer' \in Seq(ToServer(request)), toClient' \in Seq(ToClient),
         \A i \in 1..Len(toClient') : toClient'[i].type = "accepted" =>
            opened = "resolved" /\ toClient'[i].arg = Remote!ReportedAccess(access),
         outcome' = "accepted" => opened = "resolved" /\ reported' = Remote!ReportedAccess(access)
  PROVE  RemoteInv'
<1>1. RemoteTyped' /\ rsUp'["server"] = rsUp["server"]
  BY DEF RemoteTyped, RemoteInv
<1>2. Underway'
  BY <1>1 DEF RemoteInv, Underway
<1>3. AcceptedIsTrue'
  BY DEF RemoteInv, AcceptedIsTrue
<1>4. Remote!AttachedByGrant' /\ Remote!AttachedIsUp'
  BY <1>1 DEF RemoteInv, Remote!AttachedByGrant, Remote!AttachedIsUp
<1> QED BY <1>1, <1>2, <1>3, <1>4 DEF RemoteInv

(* What a frame on its way says stays so when one is added or the first is  *)
(* taken.                                                                   *)
LEMMA FramesKept ==
  ASSUME RemoteInv
  PROVE  /\ \A m \in ToClient : /\ Append(toClient, m) \in Seq(ToClient)
                               /\ m.type # "accepted" =>
                                    \A i \in 1..Len(Append(toClient, m)) :
                                       Append(toClient, m)[i].type = "accepted" =>
                                          opened = "resolved" /\ Append(toClient, m)[i].arg = Remote!ReportedAccess(access)
         /\ toClient # <<>> => /\ Head(toClient) \in ToClient /\ Tail(toClient) \in Seq(ToClient)
                               /\ Head(toClient).type = "accepted" =>
                                    opened = "resolved" /\ Head(toClient).arg = Remote!ReportedAccess(access)
                               /\ \A i \in 1..Len(Tail(toClient)) :
                                    Tail(toClient)[i].type = "accepted" =>
                                       opened = "resolved" /\ Tail(toClient)[i].arg = Remote!ReportedAccess(access)
         /\ \A i \in 1..Len(toClient) : toClient[i].type = "accepted" =>
               opened = "resolved" /\ toClient[i].arg = Remote!ReportedAccess(access)
         /\ toServer # <<>> => Head(toServer) \in ToServer(request) /\ Tail(toServer) \in Seq(ToServer(request))
         /\ \A m \in ToServer(request) : Append(toServer, m) \in Seq(ToServer(request))
         /\ toServer \in Seq(ToServer(request)) /\ toClient \in Seq(ToClient)
<1>1. /\ toServer \in Seq(ToServer(request)) /\ toClient \in Seq(ToClient)
      /\ \A i \in 1..Len(toClient) : toClient[i].type = "accepted" =>
               opened = "resolved" /\ toClient[i].arg = Remote!ReportedAccess(access)
  BY DEF RemoteInv, RemoteTyped, AcceptedIsTrue
<1>2. /\ toServer # <<>> => Head(toServer) \in ToServer(request) /\ Tail(toServer) \in Seq(ToServer(request))
      /\ \A m \in ToServer(request) : Append(toServer, m) \in Seq(ToServer(request))
  BY <1>1
<1>3. ASSUME NEW m \in ToClient
      PROVE  /\ Append(toClient, m) \in Seq(ToClient)
             /\ m.type # "accepted" =>
                    \A i \in 1..Len(Append(toClient, m)) :
                       Append(toClient, m)[i].type = "accepted" =>
                          opened = "resolved" /\ Append(toClient, m)[i].arg = Remote!ReportedAccess(access)
  BY <1>1
<1>4. ASSUME toClient # <<>>
      PROVE  /\ Head(toClient) \in ToClient /\ Tail(toClient) \in Seq(ToClient)
             /\ Head(toClient).type = "accepted" =>
                  opened = "resolved" /\ Head(toClient).arg = Remote!ReportedAccess(access)
             /\ \A i \in 1..Len(Tail(toClient)) :
                  Tail(toClient)[i].type = "accepted" =>
                     opened = "resolved" /\ Tail(toClient)[i].arg = Remote!ReportedAccess(access)
  <2>1. /\ Head(toClient) = toClient[1] /\ 1 \in 1..Len(toClient)
        /\ Tail(toClient) \in Seq(ToClient) /\ Head(toClient) \in ToClient
        /\ \A i \in 1..Len(Tail(toClient)) : i + 1 \in 1..Len(toClient) /\ Tail(toClient)[i] = toClient[i + 1]
    BY <1>1, <1>4
  <2> QED BY <1>1, <2>1
<1> QED BY <1>1, <1>2, <1>3, <1>4

(* A refusal before the session opened tells the client nothing else. *)
LEMMA RejectionSent ==
  ASSUME RemoteInv, NEW code \in Codes, Remote!Refuse(code), opened # "resolved"
  PROVE  toClient' \in Seq(ToClient) /\ \A i \in 1..Len(toClient') : toClient'[i].type # "accepted"
<1> DEFINE f == Remote!Frame("rejected", code)
<1>1. f \in ToClient /\ f.type # "accepted"
  BY DEF ToClient, Remote!Frame
<1>2. toClient' = toClient \/ toClient' = Append(toClient, f)
  BY DEF Remote!Refuse
<1> HIDE DEF f
<1>3. CASE toClient' = toClient
  BY <1>3, FramesKept
<1>4. CASE toClient' = Append(toClient, f)
  <2>1. Append(toClient, f) \in Seq(ToClient) /\ \A i \in 1..Len(Append(toClient, f)) :
           Append(toClient, f)[i].type = "accepted" => opened = "resolved"
    BY <1>1, FramesKept
  <2> QED BY <1>4, <2>1
<1> QED BY <1>2, <1>3, <1>4

(* refuse, before the session opened. *)
LEMMA RemoteRefuse ==
  ASSUME RemoteInv, NEW code \in Codes, Remote!Refuse(code), opened # "resolved",
         UNCHANGED <<verdict, access, granted, request, outcome, reported>>,
         openSeen => openSeen', toServer' \in Seq(ToServer(request))
  PROVE  RemoteInv'
<1>1. \E w : Remote!Teardown(w)
  BY Zenon DEF Remote!Refuse
<1>2. toClient' \in Seq(ToClient) /\ \A i \in 1..Len(toClient') : toClient'[i].type # "accepted"
  BY RejectionSent
<1> QED BY <1>1, <1>2, RemoteTeardown

(* The channel's message listener at the server. *)
LEMMA RemoteReceive ==
  ASSUME RemoteInv, Remote!ServerReceive
  PROVE  RemoteInv'
<1> DEFINE m == Head(toServer)
<1>1. /\ toServer # <<>> /\ toServer' = Tail(toServer)
      /\ UNCHANGED <<access, granted, request, outcome, reported>>
  BY DEF Remote!ServerReceive, Remote!client
<1>2. m \in ToServer(request) /\ toServer' \in Seq(ToServer(request))
  BY <1>1, FramesKept
<1>3. m.type = "open" => m.arg = request
  BY <1>2 DEF ToServer
<1>4. /\ outcome = "accepted" => opened = "resolved" /\ reported = Remote!ReportedAccess(access)
      /\ verdict # Remote!NoRequest => verdict = request /\ openSeen
      /\ ~openSeen => opened # "resolved"
  BY DEF RemoteInv, AcceptedIsTrue, Underway
<1> HIDE DEF m
<1>5. ASSUME UNCHANGED <<rsState, session, opened, refusal, toClient, rsUp>>, openSeen => openSeen',
             verdict' = verdict \/ (verdict' = request /\ openSeen')
      PROVE  RemoteInv'
  BY <1>1, <1>2, <1>4, <1>5, FramesKept, RemoteFrames
<1>6. CASE Remote!HandleService(m)
  <2>1. ASSUME ~openSeen, openSeen', UNCHANGED verdict,
               NEW code \in {"INVALID_REQUEST", "VERSION_UNSUPPORTED"}, Remote!Refuse(code)
        PROVE  RemoteInv'
    <3>1. code \in Codes
      BY DEF Codes
    <3> QED BY <1>1, <1>2, <1>4, <2>1, <3>1, RemoteRefuse
  <2>2. CASE /\ m.type = "open" /\ ~openSeen /\ openSeen' = TRUE /\ verdict' = m.arg
             /\ UNCHANGED <<rsState, session, opened, refusal, toClient, rsUp, why>>
    BY <1>3, <1>5, <2>2
  <2>3. CASE UNCHANGED <<openSeen, verdict, rsState, session, opened, refusal, toClient, rsUp, why>>
    BY <1>5, <2>3
  <2> QED BY <1>6, <2>1, <2>2, <2>3, Zenon DEF Remote!HandleService
<1>7. CASE UNCHANGED <<openSeen, verdict, rsState, session, opened, refusal, toClient, rsUp, why>>
  BY <1>5, <1>7
<1>8. CASE Remote!Teardown("PROTOCOL_ERROR") /\ UNCHANGED <<openSeen, verdict, refusal, toClient, heard>>
  BY <1>1, <1>2, <1>8, FramesKept, RemoteTeardown
<1> QED BY <1>6, <1>7, <1>8 DEF Remote!ServerReceive, m

(* A grant: the session is read-only if that was asked and else what was    *)
(* granted, and `accepted` says whether it may write.                       *)
LEMMA RemoteAccept ==
  ASSUME RemoteInv, verdict # Remote!NoRequest, verdict' = Remote!NoRequest,
         rsState = "opening", NEW grant \in Remote!Accesses, Remote!Accept(grant),
         UNCHANGED <<openSeen, toServer, request, outcome, reported>>
  PROVE  RemoteInv'
<1> DEFINE a == Remote!EffectiveAccess(grant, verdict.access)
<1>1. /\ verdict = request /\ openSeen /\ session = "none" /\ opened # "resolved" /\ rsUp["server"]
      /\ RemoteTyped /\ request.access \in Remote!RemoteAccess /\ outcome # "accepted"
  BY DEF RemoteInv, Underway, RemoteTyped, Requests, AcceptedIsTrue
<1>2. \A i \in 1..Len(toClient) : toClient[i].type # "accepted"
  BY <1>1 DEF RemoteInv, AcceptedIsTrue
<1>3. granted' = grant
  BY DEF Remote!Accept
<1>4. CASE a = "refused" /\ Remote!Refuse("ACCESS_DENIED") /\ UNCHANGED access
  <2>1. PICK w : Remote!Teardown(w)
    BY <1>4, Zenon DEF Remote!Refuse
  <2>2. /\ rsUp' = [rsUp EXCEPT !["server"] = FALSE] /\ rsState' = "closed"
        /\ session' = "none" /\ opened' = "rejected"
    BY <1>1, <2>1 DEF Remote!Teardown
  <2>5. toClient' \in Seq(ToClient) /\ \A i \in 1..Len(toClient') : toClient'[i].type # "accepted"
    <3>1. "ACCESS_DENIED" \in Codes
      BY DEF Codes
    <3> QED BY <1>1, <1>4, <3>1, RejectionSent
  <2>6. RemoteTyped'
    BY <1>1, <2>2, <2>5 DEF RemoteTyped
  <2>7. Underway' /\ AcceptedIsTrue'
    BY <1>1, <2>2, <2>5 DEF Underway, AcceptedIsTrue
  <2> QED BY <2>2, <2>6, <2>7 DEF RemoteInv, Remote!AttachedByGrant, Remote!AttachedIsUp
<1>5. ASSUME a # "refused", access' = a
      PROVE  Remote!AttachedByGrant' /\ Remote!ReportedAccess(a) \in Remote!RemoteAccess
  BY <1>1, <1>3, <1>5 DEF Remote!EffectiveAccess, Remote!AttachedByGrant, Remote!Accesses,
     Remote!RemoteAccess, Remote!ReportedAccess
<1>6. CASE /\ a # "refused" /\ access' = a
           /\ rsState' = "open" /\ session' = "attached" /\ opened' = "resolved"
           /\ toClient' = Append(toClient, Remote!Frame("accepted", Remote!ReportedAccess(a)))
           /\ UNCHANGED <<refusal, rsUp, why>>
  <2> DEFINE f == Remote!Frame("accepted", Remote!ReportedAccess(a))
  <2>1. f \in ToClient /\ f.type = "accepted" /\ f.arg = Remote!ReportedAccess(access')
    BY <1>1, <1>5, <1>6 DEF ToClient, Remote!Frame
  <2> HIDE DEF f
  <2>2. /\ toClient' \in Seq(ToClient)
        /\ \A i \in 1..Len(toClient') : toClient'[i].type = "accepted" => toClient'[i].arg = Remote!ReportedAccess(access')
    <3>1. toClient' = Append(toClient, f) /\ toClient \in Seq(ToClient)
      BY <1>1, <1>6 DEF f, RemoteTyped
    <3> QED BY <1>2, <2>1, <3>1
  <2>3. RemoteTyped'
    BY <1>1, <1>6, <2>2 DEF RemoteTyped
  <2>4. Underway' /\ Remote!AttachedIsUp'
    BY <1>1, <1>6 DEF Underway, Remote!AttachedIsUp
  <2>5. refusal = "none"
    BY DEF RemoteInv, Underway
  <2> QED BY <1>1, <1>5, <1>6, <2>2, <2>3, <2>4, <2>5 DEF RemoteInv, AcceptedIsTrue
<1>7. CASE /\ a # "refused" /\ access' = a
           /\ rsState' = "closed" /\ session' = "disposed"
           /\ rsUp' = [rsUp EXCEPT !["server"] = FALSE]
           /\ UNCHANGED <<opened, refusal, toClient>>
  <2>1. RemoteTyped' /\ Underway' /\ Remote!AttachedIsUp'
    BY <1>1, <1>7 DEF RemoteTyped, Underway, Remote!AttachedIsUp
  <2>2. AcceptedIsTrue'
    BY <1>1, <1>2, <1>7 DEF AcceptedIsTrue
  <2> QED BY <1>5, <1>7, <2>1, <2>2 DEF RemoteInv
<1> QED BY <1>4, <1>6, <1>7 DEF Remote!Accept

(* The client: a reply, a close or giving up settles its open. *)
LEMMA RemoteClient ==
  ASSUME RemoteInv,
         \/ Remote!ClientReceive \/ Remote!ClientHearsClose \/ Remote!GiveUp
         \/ Remote!ClientSend \/ Remote!ClientClose
  PROVE  RemoteInv'
<1>1. UNCHANGED <<rsState, session, opened, refusal, access, granted, request, openSeen, verdict>>
  BY DEF Remote!ClientReceive, Remote!ClientHearsClose, Remote!GiveUp, Remote!ClientSend,
         Remote!ClientClose, Remote!server, Remote!client
<1>2. /\ verdict # Remote!NoRequest => verdict = request /\ openSeen
      /\ outcome = "accepted" => opened = "resolved" /\ reported = Remote!ReportedAccess(access)
  BY DEF RemoteInv, Underway, AcceptedIsTrue
<1>3. ASSUME UNCHANGED rsUp \/ \E b \in BOOLEAN : rsUp' = [rsUp EXCEPT !["client"] = b],
             toServer' \in Seq(ToServer(request)), toClient' \in Seq(ToClient),
             \A i \in 1..Len(toClient') : toClient'[i].type = "accepted" =>
                opened = "resolved" /\ toClient'[i].arg = Remote!ReportedAccess(access),
             outcome' = "accepted" => opened = "resolved" /\ reported' = Remote!ReportedAccess(access)
      PROVE  RemoteInv'
  BY <1>1, <1>2, <1>3, RemoteFrames
<1>4. CASE Remote!ClientReceive
  <2> DEFINE m == Head(toClient)
  <2>1. toClient # <<>> /\ toClient' = Tail(toClient)
    BY <1>4 DEF Remote!ClientReceive
  <2>2. /\ m \in ToClient /\ toClient' \in Seq(ToClient)
        /\ m.type = "accepted" => opened = "resolved" /\ m.arg = Remote!ReportedAccess(access)
        /\ \A i \in 1..Len(toClient') : toClient'[i].type = "accepted" =>
              opened = "resolved" /\ toClient'[i].arg = Remote!ReportedAccess(access)
    BY <2>1, FramesKept
  <2>3. m.type = "rejected" => m.arg # "accepted"
    BY <2>2 DEF ToClient, Codes
  <2> HIDE DEF m
  <2>4. CASE /\ toServer' = Append(toServer, Remote!Frame("pong", "none"))
             /\ UNCHANGED <<outcome, reported, rsUp>>
    <3>1. toServer' \in Seq(ToServer(request))
      <4>1. Remote!Frame("pong", "none") \in ToServer(request)
        BY DEF ToServer, Remote!Frame
      <4> QED BY <2>4, <4>1, FramesKept
    <3> QED BY <1>2, <1>3, <2>2, <2>4, <3>1
  <2>5. CASE m.type = "accepted" /\ Remote!Settle("accepted", TRUE) /\ reported' = m.arg /\ UNCHANGED toServer
    BY <1>3, <2>2, <2>5, FramesKept DEF Remote!Settle
  <2>6. CASE m.type = "rejected" /\ Remote!Settle(m.arg, FALSE) /\ UNCHANGED <<reported, toServer>>
    BY <1>3, <2>2, <2>3, <2>6, FramesKept DEF Remote!Settle
  <2> QED BY <1>4, <2>4, <2>5, <2>6 DEF Remote!ClientReceive, m
<1>5. CASE Remote!ClientHearsClose
  BY <1>2, <1>3, <1>5, FramesKept DEF Remote!ClientHearsClose, Remote!Settle
<1>6. CASE Remote!GiveUp
  BY <1>3, <1>6, FramesKept DEF Remote!GiveUp, Remote!Settle
<1>7. CASE Remote!ClientSend
  <2>1. Remote!Frame("explorer", "none") \in ToServer(request)
    BY DEF ToServer, Remote!Frame
  <2> QED BY <1>2, <1>3, <1>7, <2>1, FramesKept DEF Remote!ClientSend
<1>8. CASE Remote!ClientClose
  BY <1>2, <1>3, <1>8, FramesKept DEF Remote!ClientClose, Remote!client
<1> QED BY <1>4, <1>5, <1>6, <1>7, <1>8

(* One remote session under any verdict, deadline, close, abort and loss:   *)
(* a host session exists only by grant, runs read-only if that was asked    *)
(* and else exactly as granted, and ends with its channel; a client told    *)
(* "accepted" may write, if it asked to, in a session the server opened and *)
(* did not refuse.                                                          *)
THEOREM RemoteIsGranted == Remote!Spec => []RemoteSessionIsGranted
<1>1. RemoteInv /\ [Remote!Next]_(Remote!vars) => RemoteInv'
  <2> SUFFICES ASSUME RemoteInv, [Remote!Next]_(Remote!vars) PROVE RemoteInv'
    OBVIOUS
  <2>1. CASE UNCHANGED Remote!vars
    BY <2>1 DEF Remote!vars, Remote!server, Remote!client, Remote!channel, RemoteInv, RemoteTyped,
                Underway, AcceptedIsTrue, Remote!AttachedByGrant, Remote!AttachedIsUp
  <2>2. CASE Remote!Authorized
    <3>1. /\ verdict # Remote!NoRequest /\ verdict' = Remote!NoRequest
          /\ UNCHANGED <<openSeen, toServer, request, outcome, reported>>
      BY <2>2 DEF Remote!Authorized, Remote!client
    <3>2. CASE UNCHANGED <<rsState, refusal, session, access, opened, granted, toClient, rsUp, why>>
      <4>1. outcome = "accepted" => opened = "resolved" /\ reported = Remote!ReportedAccess(access)
        BY DEF RemoteInv, AcceptedIsTrue
      <4> QED BY <3>1, <3>2, <4>1, FramesKept, RemoteFrames
    <3>3. CASE rsState = "opening" /\ Remote!Denied
      <4>1. PICK code \in {"ACCESS_DENIED", "LIMIT_EXCEEDED", "SERVER_SHUTTING_DOWN"} :
               Remote!Refuse(code) /\ UNCHANGED <<access, granted>>
        BY <3>3 DEF Remote!Denied
      <4>2. PICK w : Remote!Teardown(w)
        BY <4>1, Zenon DEF Remote!Refuse
      <4>3. /\ rsUp' = [rsUp EXCEPT !["server"] = FALSE] /\ rsState' = "closed"
            /\ opened' = "rejected" /\ session' = session /\ opened # "resolved" /\ session = "none"
        BY <3>3, <4>2 DEF Remote!Teardown, RemoteInv, Underway
      <4>4. toClient' \in Seq(ToClient) /\ \A i \in 1..Len(toClient') : toClient'[i].type # "accepted"
        <5>1. code \in Codes
          BY DEF Codes
        <5> QED BY <4>1, <4>3, <5>1, RejectionSent
      <4>5. RemoteTyped'
        BY <3>1, <4>3, <4>4 DEF RemoteTyped, RemoteInv
      <4>6. Underway' /\ AcceptedIsTrue'
        BY <3>1, <4>3, <4>4 DEF Underway, AcceptedIsTrue, RemoteInv
      <4> QED BY <4>3, <4>5, <4>6 DEF RemoteInv, Remote!AttachedByGrant, Remote!AttachedIsUp
    <3>4. CASE rsState = "opening" /\ \E grant \in Remote!Accesses : Remote!Accept(grant)
      BY <3>1, <3>4, RemoteAccept
    <3> QED BY <2>2, <3>2, <3>3, <3>4 DEF Remote!Authorized
  <2>3. CASE Remote!OpenTimeout
    <3>1. /\ rsState = "opening" /\ Remote!Teardown("LOCAL_CLOSE")
          /\ UNCHANGED <<openSeen, verdict, access, granted, toServer, toClient, request, outcome, reported>>
      BY <2>3 DEF Remote!OpenTimeout, Remote!client
    <3>2. opened # "resolved"
      BY <3>1 DEF RemoteInv, Underway
    <3> QED BY <3>1, <3>2, FramesKept, RemoteTeardown
  <2>4. CASE Remote!Heartbeat
    <3>1. UNCHANGED <<openSeen, verdict, refusal, access, granted, toServer, request, outcome, reported>>
      BY <2>4 DEF Remote!Heartbeat, Remote!client
    <3>2. CASE /\ toClient' = Append(toClient, Remote!Frame("ping", "none"))
               /\ UNCHANGED <<rsState, session, opened, rsUp, why>>
      <4> DEFINE f == Remote!Frame("ping", "none")
      <4>1. f \in ToClient /\ f.type # "accepted"
        BY DEF ToClient, Remote!Frame
      <4> HIDE DEF f
      <4>2. toClient' \in Seq(ToClient) /\ \A i \in 1..Len(toClient') :
               toClient'[i].type = "accepted" => opened = "resolved" /\ toClient'[i].arg = Remote!ReportedAccess(access)
        <5>1. toClient' = Append(toClient, f)
          BY <3>2 DEF f
        <5> QED BY <4>1, <5>1, FramesKept
      <4>3. /\ outcome = "accepted" => opened = "resolved" /\ reported = Remote!ReportedAccess(access)
            /\ verdict # Remote!NoRequest => verdict = request /\ openSeen
        BY DEF RemoteInv, AcceptedIsTrue, Underway
      <4> QED BY <3>1, <3>2, <4>2, <4>3, FramesKept, RemoteFrames
    <3>3. CASE Remote!Teardown("LOCAL_CLOSE") /\ UNCHANGED toClient
      BY <3>1, <3>3, FramesKept, RemoteTeardown
    <3> QED BY <2>4, <3>2, <3>3 DEF Remote!Heartbeat
  <2>5. CASE Remote!ServerClose \/ Remote!ServerHearsClose
    <3>1. /\ \E w : Remote!Teardown(w)
          /\ UNCHANGED <<openSeen, verdict, refusal, access, granted, toServer, toClient,
                         request, outcome, reported>>
      BY <2>5, Zenon DEF Remote!ServerClose, Remote!ServerHearsClose, Remote!client
    <3> QED BY <3>1, FramesKept, RemoteTeardown
  <2> QED BY <2>1, <2>2, <2>3, <2>4, <2>5, RemoteReceive, RemoteClient DEF Remote!Next
<1>2. RemoteInv => RemoteSessionIsGranted
  <2> SUFFICES ASSUME RemoteInv, outcome = "accepted" PROVE Remote!AcceptedIsOpened
    BY DEF RemoteInv, RemoteSessionIsGranted, Remote!AcceptedIsOpened
  <2>1. /\ opened = "resolved" /\ refusal = "none" /\ session # "none"
        /\ reported = Remote!ReportedAccess(access) /\ request.access \in Remote!RemoteAccess
    BY DEF RemoteInv, AcceptedIsTrue, Underway, RemoteTyped, Requests
  <2>2. Remote!ReportedAccess(access) = request.access
    BY <2>1 DEF RemoteInv, Remote!AttachedByGrant, Remote!ReportedAccess, Remote!RemoteAccess
  <2> QED BY <2>1, <2>2 DEF Remote!AcceptedIsOpened
<1> QED BY <1>1, <1>2, RemoteInit, PTL DEF Remote!Spec

-----------------------------------------------------------------------------
(* The read boundary, for any number of requests, paths and helper threads. *)

HelperStates == {"none", "ready", "spin", "parked", "woken", "expired", "kernel", "done"}

PoolTyped ==
    /\ path \in [Reads!Requests -> Paths \cup {0}]
    /\ rbRequest \in [Reads!Requests -> {"new", "waits", "done"}]
    /\ flights \in [Paths -> Reads!Requests \cup {0}]
    /\ rbQueue \in Seq(Reads!Requests)
    /\ helper \in [Reads!Helpers -> HelperStates]
    /\ reading \in [Reads!Helpers -> Reads!Requests \cup {0}]
    /\ \A h \in Reads!Helpers : reading[h] # 0 => helper[h] \in {"kernel", "done"}
    /\ spawnFails \in Nat

(* A flight that is queued or in the kernel has no outcome yet, and is the  *)
(* one registered for its path.                                             *)
Own(f) ==
    /\ f \in Reads!Requests /\ rbRequest[f] # "new" /\ path[f] \in Paths
    /\ flights[path[f]] = f /\ f \notin finished

QueuedOnce ==
    /\ \A i \in 1..Len(rbQueue) : Own(rbQueue[i])
    /\ \A i, j \in 1..Len(rbQueue) : rbQueue[i] = rbQueue[j] => i = j
InKernelOnce ==
    /\ \A h \in Reads!Helpers : helper[h] = "kernel" =>
          Own(reading[h]) /\ \A i \in 1..Len(rbQueue) : rbQueue[i] # reading[h]
    /\ \A h, g \in Reads!Helpers :
          helper[h] = "kernel" /\ helper[g] = "kernel" /\ reading[h] = reading[g] => h = g
DoneIsFinished ==
    /\ \A h \in Reads!Helpers : helper[h] = "done" => reading[h] \in finished
    /\ \A f \in finished : f \in Reads!Requests /\ rbRequest[f] # "new"
ClosedIsEmpty == rbClosed => rbQueue = <<>>

FlightsInv == PoolTyped /\ QueuedOnce /\ InKernelOnce /\ DoneIsFinished /\ ClosedIsEmpty

(* The helpers about to look at the queue, and those there are. *)
Working(at) == {h \in Reads!Helpers : at[h] \notin {"none", "kernel", "parked"}}
Living(at) == {h \in Reads!Helpers : at[h] # "none"}
AttendedBy(at, n) ==
    n > Cardinality(Working(at)) =>
        /\ Cardinality(Living(at)) = Reads!MaxThreads
        /\ \A h \in Reads!Helpers : at[h] # "parked"

PoolInv == FlightsInv /\ (spawnFails = 0 => AttendedBy(helper, Len(rbQueue)))

(* A set of numbers that is not empty has a smallest one. *)
LEMMA LeastNumber ==
    ASSUME NEW S \in SUBSET Nat, S # {}
    PROVE  \E x \in S : \A y \in S : x <= y
<1> DEFINE R == OpToRel(<, Nat)
<1>1. IsWellFoundedOn(R, Nat)
  BY NatLessThanWellFounded
<1>2. \A x, y \in Nat : y < x => <<y, x>> \in R
  BY DEF OpToRel
<1> HIDE DEF R
<1>3. PICK x \in S : \A y \in S : ~(<<y, x>> \in R)
  BY <1>1, WFMin
<1>4. ASSUME NEW y \in S PROVE x <= y
  <2>1. x \in Nat /\ y \in Nat /\ ~(y < x)
    BY <1>2, <1>3, Zenon
  <2> QED
    BY <2>1
<1> QED
  BY <1>4

(* There are MaxThreads helpers at most, and 0 is none of the requests. *)
LEMMA PoolFacts ==
    /\ Reads!MaxThreads \in Nat /\ Reads!Helpers \subseteq Nat
    /\ IsFiniteSet(Reads!Helpers) /\ Cardinality(Reads!Helpers) = Reads!MaxThreads
    /\ 0 \notin Reads!Requests /\ Reads!None = 0
    /\ IsFiniteSet(Reads!Requests)
<1>1. Reads!MaxThreads \in Nat
  BY ReadsAssumption DEF Reads!MaxThreads
<1>2. IsFiniteSet(1..Reads!MaxThreads) /\ Cardinality(1..Reads!MaxThreads) = Reads!MaxThreads
  BY <1>1, FS_Interval
<1>3. IsFiniteSet(1..MaxRequests)
  BY ReadsAssumption, FS_Interval
<1> QED
  BY <1>1, <1>2, <1>3, ReadsAssumption DEF Reads!Helpers, Reads!Requests, Reads!None

(* What is counted is finite. *)
LEMMA CountFacts ==
    ASSUME NEW at
    PROVE  /\ IsFiniteSet(Working(at)) /\ Cardinality(Working(at)) \in Nat
           /\ IsFiniteSet(Living(at)) /\ Cardinality(Living(at)) \in Nat
           /\ Cardinality(Living(at)) <= Reads!MaxThreads
<1>1. Working(at) \in SUBSET Reads!Helpers /\ Living(at) \in SUBSET Reads!Helpers
  BY DEF Working, Living
<1>2. IsFiniteSet(Working(at)) /\ IsFiniteSet(Living(at)) /\ Cardinality(Living(at)) <= Reads!MaxThreads
  BY <1>1, PoolFacts, FS_Subset
<1> QED
  BY <1>2, FS_CardinalityType

(* How the counts change when one helper moves. *)
LEMMA OneMoves ==
    ASSUME NEW at \in [Reads!Helpers -> HelperStates], NEW b \in [Reads!Helpers -> HelperStates],
           NEW h \in Reads!Helpers, \A g \in Reads!Helpers : g # h => b[g] = at[g]
    PROVE  /\ b[h] \notin {"none", "kernel", "parked"} =>
                 /\ at[h] \in {"none", "kernel", "parked"} => Cardinality(Working(b)) = Cardinality(Working(at)) + 1
                 /\ at[h] \notin {"none", "kernel", "parked"} => Cardinality(Working(b)) = Cardinality(Working(at))
           /\ b[h] \in {"none", "kernel", "parked"} =>
                 /\ at[h] \in {"none", "kernel", "parked"} => Cardinality(Working(b)) = Cardinality(Working(at))
                 /\ at[h] \notin {"none", "kernel", "parked"} => Cardinality(Working(b)) = Cardinality(Working(at)) - 1
           /\ b[h] # "none" /\ at[h] = "none" => Cardinality(Living(b)) = Cardinality(Living(at)) + 1
           /\ b[h] # "none" /\ at[h] # "none" => Cardinality(Living(b)) = Cardinality(Living(at))
<1>1. /\ IsFiniteSet(Working(at)) /\ Cardinality(Working(at)) \in Nat
      /\ IsFiniteSet(Living(at)) /\ Cardinality(Living(at)) \in Nat
  BY CountFacts
<1>2. CASE b[h] \notin {"none", "kernel", "parked"}
  <2>1. Working(b) = Working(at) \cup {h}
    BY <1>2 DEF Working
  <2>2. h \in Working(at) <=> at[h] \notin {"none", "kernel", "parked"}
    BY DEF Working
  <2>3. Cardinality(Working(at) \cup {h}) = IF h \in Working(at) THEN Cardinality(Working(at)) ELSE Cardinality(Working(at)) + 1
    BY <1>1, FS_AddElement
  <2>4. Living(b) = Living(at) \cup {h}
    BY <1>2 DEF Living
  <2>5. Cardinality(Living(at) \cup {h}) = IF h \in Living(at) THEN Cardinality(Living(at)) ELSE Cardinality(Living(at)) + 1
    BY <1>1, FS_AddElement
  <2>6. h \in Living(at) <=> at[h] # "none"
    BY DEF Living
  <2>7. /\ at[h] \in {"none", "kernel", "parked"} => Cardinality(Working(b)) = Cardinality(Working(at)) + 1
        /\ at[h] \notin {"none", "kernel", "parked"} => Cardinality(Working(b)) = Cardinality(Working(at))
    BY <1>1, <2>1, <2>2, <2>3
  <2>8. /\ b[h] # "none" /\ at[h] = "none" => Cardinality(Living(b)) = Cardinality(Living(at)) + 1
        /\ b[h] # "none" /\ at[h] # "none" => Cardinality(Living(b)) = Cardinality(Living(at))
    BY <1>1, <1>2, <2>4, <2>5, <2>6
  <2> QED
    BY <1>2, <2>7, <2>8
<1>3. CASE b[h] \in {"none", "kernel", "parked"}
  <2>1. Working(b) = Working(at) \ {h}
    BY <1>3 DEF Working
  <2>2. h \in Working(at) <=> at[h] \notin {"none", "kernel", "parked"}
    BY DEF Working
  <2>3. Cardinality(Working(at) \ {h}) = IF h \in Working(at) THEN Cardinality(Working(at)) - 1 ELSE Cardinality(Working(at))
    BY <1>1, FS_RemoveElement
  <2>4. b[h] # "none" => Living(b) = Living(at) \cup {h}
    BY DEF Living
  <2>5. Cardinality(Living(at) \cup {h}) = IF h \in Living(at) THEN Cardinality(Living(at)) ELSE Cardinality(Living(at)) + 1
    BY <1>1, FS_AddElement
  <2>6. h \in Living(at) <=> at[h] # "none"
    BY DEF Living
  <2>7. /\ at[h] \in {"none", "kernel", "parked"} => Cardinality(Working(b)) = Cardinality(Working(at))
        /\ at[h] \notin {"none", "kernel", "parked"} => Cardinality(Working(b)) = Cardinality(Working(at)) - 1
    BY <1>1, <2>1, <2>2, <2>3
  <2>8. /\ b[h] # "none" /\ at[h] = "none" => Cardinality(Living(b)) = Cardinality(Living(at)) + 1
        /\ b[h] # "none" /\ at[h] # "none" => Cardinality(Living(b)) = Cardinality(Living(at))
    BY <1>1, <1>3, <2>4, <2>5, <2>6
  <2> QED
    BY <1>3, <2>7, <2>8
<1> QED
  BY <1>2, <1>3

(* notify_one wakes a parked helper, if there is one. *)
LEMMA NotifyOneFacts ==
    ASSUME NEW at \in [Reads!Helpers -> HelperStates], NEW b \in Reads!NotifyOne(at)
    PROVE  /\ b \in [Reads!Helpers -> HelperStates]
           /\ \A h \in Reads!Helpers : b[h] = at[h] \/ b[h] = "woken"
           /\ \/ b = at /\ \A h \in Reads!Helpers : at[h] # "parked"
              \/ \E h \in Reads!Helpers : at[h] = "parked" /\ b = [at EXCEPT ![h] = "woken"]
<1>1. CASE \A h \in Reads!Helpers : at[h] # "parked"
  <2>1. {h \in Reads!Helpers : at[h] = "parked"} = {}
    BY <1>1
  <2>2. b = at
    BY <2>1 DEF Reads!NotifyOne
  <2> QED
    BY <1>1, <2>2
<1>2. CASE \E h \in Reads!Helpers : at[h] = "parked"
  <2>1. {h \in Reads!Helpers : at[h] = "parked"} # {}
    BY <1>2
  <2>2. PICK h \in Reads!Helpers : at[h] = "parked" /\ b = [at EXCEPT ![h] = "woken"]
    BY <2>1 DEF Reads!NotifyOne
  <2>3. b \in [Reads!Helpers -> HelperStates] /\ \A g \in Reads!Helpers : b[g] = at[g] \/ b[g] = "woken"
    BY <2>2 DEF HelperStates
  <2> QED
    BY <2>2, <2>3
<1> QED
  BY <1>1, <1>2

(* One more read is queued and notify_one is called. *)
LEMMA OneMoreAttended ==
    ASSUME NEW at \in [Reads!Helpers -> HelperStates], NEW b \in Reads!NotifyOne(at), NEW n \in Nat, AttendedBy(at, n),
           (\E h \in Reads!Helpers : at[h] = "parked") \/ Cardinality(Living(at)) = Reads!MaxThreads
               \/ n + 1 <= Cardinality(Working(at))
    PROVE  AttendedBy(b, n + 1)
<1>0. Cardinality(Working(at)) \in Nat
  BY CountFacts
<1>1. CASE b = at /\ \A h \in Reads!Helpers : at[h] # "parked"
  BY <1>0, <1>1 DEF AttendedBy
<1>2. CASE \E h \in Reads!Helpers : at[h] = "parked" /\ b = [at EXCEPT ![h] = "woken"]
  <2>1. PICK h \in Reads!Helpers : at[h] = "parked" /\ b = [at EXCEPT ![h] = "woken"]
    BY <1>2
  <2>2. ~(n > Cardinality(Working(at)))
    BY <2>1 DEF AttendedBy
  <2>3. Cardinality(Working(b)) = Cardinality(Working(at)) + 1
    <3>1. b \in [Reads!Helpers -> HelperStates] /\ b[h] = "woken" /\ \A g \in Reads!Helpers : g # h => b[g] = at[g]
      BY <2>1, NotifyOneFacts
    <3> QED
      BY <2>1, <3>1, OneMoves
  <2>4. ~(n + 1 > Cardinality(Working(b)))
    BY <1>0, <2>2, <2>3
  <2> QED
    BY <2>4 DEF AttendedBy
<1> QED
  BY <1>1, <1>2, NotifyOneFacts

(* A thread is started for a helper that does not exist yet. *)
LEMMA SpawnedFacts ==
    ASSUME helper \in [Reads!Helpers -> HelperStates], Cardinality(Reads!Live) < Reads!MaxThreads
    PROVE  \E m \in Reads!Helpers : helper[m] = "none" /\ Reads!Spawned = [helper EXCEPT ![m] = "ready"]
<1>1. Reads!Live \in SUBSET Reads!Helpers
  BY DEF Reads!Live
<1>2. Reads!Helpers \ Reads!Live # {}
  <2>1. Reads!Live # Reads!Helpers
    BY <1>1, PoolFacts, CountFacts
  <2> QED
    BY <1>1, <2>1
<1>3. Reads!Helpers \ Reads!Live \in SUBSET Nat
  BY PoolFacts
<1>4. \E x \in Reads!Helpers \ Reads!Live : \A y \in Reads!Helpers \ Reads!Live : x <= y
  BY <1>2, <1>3, LeastNumber
<1>5. Reads!Min(Reads!Helpers \ Reads!Live) \in Reads!Helpers \ Reads!Live
  BY <1>4 DEF Reads!Min
<1>6. PICK m \in Reads!Helpers \ Reads!Live : m = Reads!Min(Reads!Helpers \ Reads!Live)
  BY <1>5
<1> QED
  BY <1>6 DEF Reads!Spawned, Reads!Live

(* Steps that leave the reads and the helpers alone. *)
LEMMA PoolLeftAlone ==
    ASSUME PoolInv, UNCHANGED <<path, finished, flights, rbQueue, helper, reading, rbClosed, spawnFails>>,
           rbRequest' \in [Reads!Requests -> {"new", "waits", "done"}],
           \A q \in Reads!Requests : rbRequest[q] # "new" => rbRequest'[q] # "new"
    PROVE  PoolInv'
<1>1. \A f : Own(f) => Own(f)'
  BY DEF Own
<1>2. PoolTyped'
  BY DEF PoolInv, FlightsInv, PoolTyped
<1>3. QueuedOnce' /\ InKernelOnce'
  BY <1>1 DEF PoolInv, FlightsInv, QueuedOnce, InKernelOnce
<1>4. DoneIsFinished' /\ ClosedIsEmpty'
  BY DEF PoolInv, FlightsInv, DoneIsFinished, ClosedIsEmpty
<1> QED
  BY <1>2, <1>3, <1>4 DEF PoolInv, FlightsInv

(* The module's own count is the one of the library's theorems. *)
LEMMA SameCount == \A T : Reads!Cardinality(T) = Cardinality(T)
BY DEF Reads!Cardinality, Cardinality

(* How many of the queue are dropped is a number. *)
LEMMA UnwantedFacts == ASSUME PoolTyped PROVE Reads!Unwanted \in 0..Len(rbQueue)
<1>0. Len(rbQueue) \in Nat
  BY DEF PoolTyped
<1>1. \A f : Reads!Interest(f) \in Nat
  <2> SUFFICES ASSUME NEW f PROVE Reads!Interest(f) \in Nat
    OBVIOUS
  <2>1. {r \in Reads!Requests : ticket[r] = f /\ rbRequest[r] = "waits"} \in SUBSET Reads!Requests
    OBVIOUS
  <2>2. IsFiniteSet({r \in Reads!Requests : ticket[r] = f /\ rbRequest[r] = "waits"})
    BY <2>1, PoolFacts, FS_Subset
  <2> QED
    BY <2>2, FS_CardinalityType, SameCount DEF Reads!Interest
<1> DEFINE W == {i \in 1..Len(rbQueue) : Reads!Interest(rbQueue[i]) > 0}
<1>2. \E n \in 0..Len(rbQueue) : /\ \A i \in 1..n : Reads!Interest(rbQueue[i]) = 0
                                 /\ n < Len(rbQueue) => Reads!Interest(rbQueue[n + 1]) > 0
  <2>1. CASE W = {}
    <3>1. \A i \in 1..Len(rbQueue) : Reads!Interest(rbQueue[i]) = 0
      BY <1>1, <2>1
    <3> QED
      BY <1>0, <3>1
  <2>2. CASE W # {}
    <3>1. W \in SUBSET Nat
      BY <1>0
    <3>2. PICK x \in W : \A y \in W : x <= y
      BY <2>2, <3>1, LeastNumber
    <3>3. \A i \in 1..(x - 1) : i \in 1..Len(rbQueue) /\ i \notin W
      BY <1>0, <3>1, <3>2
    <3>4. \A i \in 1..(x - 1) : Reads!Interest(rbQueue[i]) = 0
      BY <1>1, <3>3
    <3>5. x - 1 \in 0..Len(rbQueue) /\ (x - 1) + 1 = x /\ Reads!Interest(rbQueue[x]) > 0
      BY <1>0, <3>2
    <3> QED
      BY <3>4, <3>5
  <2> QED
    BY <2>1, <2>2
<1> QED
  BY <1>2 DEF Reads!Unwanted

(* submit's last part: the new read has a helper on its way, or the pool is *)
(* full and nobody parks.                                                   *)
LEMMA LaunchAttended ==
    ASSUME PoolInv, NEW r \in Reads!Requests, NEW p \in Paths, Reads!Launch(r, p)
    PROVE  /\ helper' \in [Reads!Helpers -> HelperStates] /\ spawnFails' \in Nat
           /\ \A h \in Reads!Helpers : helper'[h] \in {"kernel", "done"} => helper'[h] = helper[h]
           /\ \A h \in Reads!Helpers : helper[h] \in {"kernel", "done"} => helper'[h] = helper[h]
           /\ spawnFails' = 0 => AttendedBy(helper', Len(rbQueue) + 1)
<1>0. /\ helper \in [Reads!Helpers -> HelperStates] /\ rbQueue \in Seq(Reads!Requests) /\ spawnFails \in Nat
      /\ Len(rbQueue) \in Nat /\ Len(Append(rbQueue, r)) = Len(rbQueue) + 1 /\ rbQueue' = Append(rbQueue, r)
  BY DEF PoolInv, FlightsInv, PoolTyped, Reads!Launch
<1>1. /\ Reads!Live = Living(helper) /\ Reads!MaxThreads \in Nat
      /\ Cardinality(Living(helper)) \in Nat /\ Cardinality(Working(helper)) \in Nat
      /\ Cardinality(Living(helper)) <= Reads!MaxThreads
  BY CountFacts, PoolFacts DEF Reads!Live, Living
<1>2. CASE ~Reads!NeedsHelper(rbQueue') /\ helper' \in Reads!NotifyOne(helper) /\ UNCHANGED spawnFails
  <2>1. /\ helper' \in [Reads!Helpers -> HelperStates]
        /\ \A h \in Reads!Helpers : helper'[h] = helper[h] \/ helper'[h] = "woken"
        /\ \/ helper' = helper /\ \A h \in Reads!Helpers : helper[h] # "parked"
           \/ \E h \in Reads!Helpers : helper[h] = "parked" /\ helper' = [helper EXCEPT ![h] = "woken"]
    BY <1>0, <1>2, NotifyOneFacts
  <2>2. \A h \in Reads!Helpers : helper[h] \in {"kernel", "done"} => helper'[h] = helper[h]
    BY <1>0, <2>1
  <2>3. Cardinality(Living(helper)) = Reads!MaxThreads \/ Len(rbQueue) + 1 <= Cardinality(Reads!Idle)
    <3>1. Cardinality(Reads!Idle) \in Nat
      <4>1. Reads!Idle \in SUBSET Reads!Helpers
        BY DEF Reads!Idle, Reads!Live
      <4> QED
        BY <4>1, PoolFacts, FS_Subset, FS_CardinalityType
    <3> QED
      BY <1>0, <1>1, <1>2, <3>1, SameCount DEF Reads!NeedsHelper
  <2>4. (\A h \in Reads!Helpers : helper[h] # "parked") => Cardinality(Reads!Idle) <= Cardinality(Working(helper))
    <3> SUFFICES ASSUME \A h \in Reads!Helpers : helper[h] # "parked"
                 PROVE  Cardinality(Reads!Idle) <= Cardinality(Working(helper))
      OBVIOUS
    <3>1. Reads!Idle \in SUBSET Working(helper)
      BY DEF Reads!Idle, Reads!Live, Working
    <3> QED
      BY <3>1, CountFacts, FS_Subset
  <2>5. \/ \E h \in Reads!Helpers : helper[h] = "parked"
        \/ Cardinality(Living(helper)) = Reads!MaxThreads
        \/ Len(rbQueue) + 1 <= Cardinality(Working(helper))
    <3>1. Cardinality(Reads!Idle) \in Nat
      <4>1. Reads!Idle \in SUBSET Reads!Helpers
        BY DEF Reads!Idle, Reads!Live
      <4> QED
        BY <4>1, PoolFacts, FS_Subset, FS_CardinalityType
    <3> QED
      BY <1>0, <1>1, <2>3, <2>4, <3>1
  <2>6. ASSUME spawnFails' = 0 PROVE AttendedBy(helper', Len(rbQueue) + 1)
    <3>1. AttendedBy(helper, Len(rbQueue))
      BY <1>2, <2>6 DEF PoolInv
    <3>2. PICK n \in Nat : n = Len(rbQueue)
      BY <1>0
    <3>3. PICK b \in Reads!NotifyOne(helper) : b = helper'
      BY <1>2
    <3>4. AttendedBy(b, n + 1)
      BY <1>0, <2>5, <3>1, <3>2, OneMoreAttended
    <3> QED
      BY <3>2, <3>3, <3>4
  <2> QED
    BY <1>0, <1>2, <2>1, <2>2, <2>6
<1>3. CASE Reads!NeedsHelper(rbQueue') /\ helper' \in Reads!NotifyOne(Reads!Spawned) /\ UNCHANGED spawnFails
  <2>1. Cardinality(Reads!Live) < Reads!MaxThreads
    BY <1>3, SameCount DEF Reads!NeedsHelper
  <2>2. PICK m \in Reads!Helpers : helper[m] = "none" /\ Reads!Spawned = [helper EXCEPT ![m] = "ready"]
    BY <1>0, <2>1, SpawnedFacts
  <2>3. PICK at \in [Reads!Helpers -> HelperStates] : at = Reads!Spawned
    BY <1>0, <2>2 DEF HelperStates
  <2>4. at[m] = "ready" /\ \A g \in Reads!Helpers : g # m => at[g] = helper[g]
    BY <1>0, <2>2, <2>3
  <2>5. helper' \in Reads!NotifyOne(at)
    BY <1>3, <2>3
  <2>6. /\ helper' \in [Reads!Helpers -> HelperStates]
        /\ \A h \in Reads!Helpers : helper'[h] = at[h] \/ helper'[h] = "woken"
        /\ \/ helper' = at
           \/ \E h \in Reads!Helpers : at[h] = "parked" /\ helper' = [at EXCEPT ![h] = "woken"]
    BY <2>5, NotifyOneFacts
  <2>7. \A h \in Reads!Helpers : helper[h] \in {"kernel", "done"} => helper'[h] = helper[h]
    BY <1>0, <2>2, <2>4, <2>6
  <2>8. \A h \in Reads!Helpers : helper'[h] \in {"kernel", "done"} => helper'[h] = helper[h]
    BY <2>4, <2>6
  <2>9. ASSUME spawnFails' = 0 PROVE AttendedBy(helper', Len(rbQueue) + 1)
    <3>1. AttendedBy(helper, Len(rbQueue))
      BY <1>3, <2>9 DEF PoolInv
    <3>2. Len(rbQueue) <= Cardinality(Working(helper))
      BY <1>0, <1>1, <2>1, <3>1 DEF AttendedBy
    <3>3. Cardinality(Working(at)) = Cardinality(Working(helper)) + 1
      BY <1>0, <2>2, <2>4, OneMoves
    <3>4. PICK n \in Nat : n = Len(rbQueue)
      BY <1>0
    <3>5. n + 1 <= Cardinality(Working(at)) /\ AttendedBy(at, n)
      BY <1>1, <3>2, <3>3, <3>4 DEF AttendedBy
    <3>6. PICK b \in Reads!NotifyOne(at) : b = helper'
      BY <2>5
    <3>7. AttendedBy(b, n + 1)
      BY <3>5, OneMoreAttended
    <3> QED
      BY <3>4, <3>6, <3>7
  <2> QED
    BY <1>0, <1>3, <2>6, <2>7, <2>8, <2>9
<1>4. CASE spawnFails' = spawnFails + 1 /\ helper' \in Reads!NotifyOne(helper)
  <2>1. /\ helper' \in [Reads!Helpers -> HelperStates]
        /\ \A h \in Reads!Helpers : helper'[h] = helper[h] \/ helper'[h] = "woken"
        /\ \/ helper' = helper
           \/ \E h \in Reads!Helpers : helper[h] = "parked" /\ helper' = [helper EXCEPT ![h] = "woken"]
    BY <1>0, <1>4, NotifyOneFacts
  <2>2. \A h \in Reads!Helpers : helper[h] \in {"kernel", "done"} => helper'[h] = helper[h]
    BY <1>0, <2>1
  <2> QED
    BY <1>0, <1>4, <2>1, <2>2
<1> QED
  BY <1>2, <1>3, <1>4 DEF Reads!Launch

(* The new read takes over a registration that nobody in the kernel or in   *)
(* the queue has: a read that is under way is joined, or refuses the new    *)
(* one.                                                                     *)
LEMMA LaunchKeeps ==
    ASSUME PoolInv, NEW r \in Reads!Requests, NEW p \in Paths, Reads!Fresh(r), ~Reads!Joinable(p), ~rbClosed,
           ~\E f \in {g \in Reads!Registered : Reads!Stuck(g)} : path[f] \in Below[p],
           Reads!Launch(r, p)
    PROVE  PoolInv'
<1>0. /\ path \in [Reads!Requests -> Paths \cup {0}] /\ rbRequest \in [Reads!Requests -> {"new", "waits", "done"}]
      /\ flights \in [Paths -> Reads!Requests \cup {0}] /\ rbQueue \in Seq(Reads!Requests)
      /\ reading \in [Reads!Helpers -> Reads!Requests \cup {0}]
  BY DEF PoolInv, FlightsInv, PoolTyped
<1>1. /\ path' = [path EXCEPT ![r] = p] /\ rbRequest' = [rbRequest EXCEPT ![r] = "waits"]
      /\ flights' = [flights EXCEPT ![p] = r] /\ rbQueue' = Append(rbQueue, r)
      /\ UNCHANGED <<finished, reading, rbClosed>> /\ rbRequest[r] = "new"
  BY DEF Reads!Launch, Reads!Fresh, Reads!reads
<1>2. ASSUME NEW f, Own(f), \/ \E i \in 1..Len(rbQueue) : rbQueue[i] = f
                            \/ \E h \in Reads!Helpers : helper[h] = "kernel" /\ reading[h] = f
      PROVE  Own(f)' /\ f # r
  <2>1. f # r
    BY <1>1, <1>2 DEF Own
  <2>2. path[f] # p
    <3> SUFFICES ASSUME path[f] = p PROVE FALSE
      OBVIOUS
    <3>1. flights[p] = f /\ f \notin finished /\ f # 0
      BY <1>2, PoolFacts DEF Own
    <3>2. Reads!Stuck(f)
      BY <3>1, PoolFacts DEF Reads!Joinable
    <3>3. f \in Reads!Registered
      BY <3>1, PoolFacts DEF Reads!Registered
    <3>4. path[f] \in Below[p]
      BY ReadsAssumption
    <3> QED
      BY <3>2, <3>3, <3>4
  <2> QED
    BY <1>0, <1>1, <1>2, <2>1, <2>2 DEF Own
<1>3. Own(r)'
  <2>1. r \notin finished
    BY <1>1 DEF PoolInv, FlightsInv, DoneIsFinished
  <2> QED
    BY <1>0, <1>1, <2>1 DEF Own
<1>4. /\ helper' \in [Reads!Helpers -> HelperStates] /\ spawnFails' \in Nat
      /\ \A h \in Reads!Helpers : helper'[h] \in {"kernel", "done"} => helper'[h] = helper[h]
      /\ \A h \in Reads!Helpers : helper[h] \in {"kernel", "done"} => helper'[h] = helper[h]
      /\ spawnFails' = 0 => AttendedBy(helper', Len(rbQueue) + 1)
  BY LaunchAttended
<1>5. PoolTyped'
  <2>1. \A h \in Reads!Helpers : reading[h] # 0 => helper'[h] \in {"kernel", "done"}
    BY <1>4 DEF PoolInv, FlightsInv, PoolTyped
  <2> QED
    BY <1>0, <1>1, <1>4, <2>1 DEF PoolTyped
<1>6. /\ Len(rbQueue) \in Nat /\ Len(rbQueue') = Len(rbQueue) + 1
      /\ \A i \in 1..Len(rbQueue') : rbQueue'[i] = IF i = Len(rbQueue) + 1 THEN r ELSE rbQueue[i]
      /\ \A i \in 1..Len(rbQueue') : i = Len(rbQueue) + 1 \/ i \in 1..Len(rbQueue)
  BY <1>0, <1>1
<1>7. \A i \in 1..Len(rbQueue) : rbQueue[i] # r
  BY <1>2 DEF PoolInv, FlightsInv, QueuedOnce
<1>8. QueuedOnce'
  <2>1. ASSUME NEW i \in 1..Len(rbQueue') PROVE Own(rbQueue[i])'
    <3>1. CASE i = Len(rbQueue) + 1
      <4>1. rbQueue'[i] = r
        BY <1>6, <3>1
      <4> QED
        BY <1>3, <4>1
    <3>2. CASE i \in 1..Len(rbQueue)
      <4>1. PICK f : f = rbQueue[i]
        OBVIOUS
      <4>2. Own(f)
        BY <3>2, <4>1 DEF PoolInv, FlightsInv, QueuedOnce
      <4>3. Own(f)'
        BY <1>2, <3>2, <4>1, <4>2
      <4>4. rbQueue'[i] = f
        BY <1>0, <1>1, <3>2, <4>1
      <4> QED
        BY <4>3, <4>4
    <3> QED
      BY <1>6, <3>1, <3>2
  <2>2. ASSUME NEW i \in 1..Len(rbQueue'), NEW j \in 1..Len(rbQueue'), rbQueue'[i] = rbQueue'[j] PROVE i = j
    BY <1>6, <1>7, <2>2 DEF PoolInv, FlightsInv, QueuedOnce
  <2> QED
    BY <2>1, <2>2 DEF QueuedOnce
<1>9. InKernelOnce'
  <2>1. ASSUME NEW h \in Reads!Helpers, helper'[h] = "kernel"
        PROVE  Own(reading[h])' /\ \A i \in 1..Len(rbQueue') : rbQueue'[i] # reading'[h]
    <3>1. PICK f : f = reading[h]
      OBVIOUS
    <3>2. helper[h] = "kernel" /\ reading'[h] = f
      BY <1>1, <1>4, <2>1, <3>1
    <3>3. Own(f) /\ \A i \in 1..Len(rbQueue) : rbQueue[i] # f
      BY <3>1, <3>2 DEF PoolInv, FlightsInv, InKernelOnce
    <3>4. Own(f)' /\ f # r
      BY <1>2, <3>1, <3>2, <3>3
    <3> QED
      BY <1>6, <3>2, <3>3, <3>4
  <2>2. \A h, g \in Reads!Helpers :
           helper'[h] = "kernel" /\ helper'[g] = "kernel" /\ reading'[h] = reading'[g] => h = g
    BY <1>1, <1>4 DEF PoolInv, FlightsInv, InKernelOnce
  <2> QED
    BY <2>1, <2>2 DEF InKernelOnce
<1>10. DoneIsFinished' /\ ClosedIsEmpty'
  BY <1>0, <1>1, <1>4 DEF PoolInv, FlightsInv, DoneIsFinished, ClosedIsEmpty
<1> QED
  BY <1>4, <1>5, <1>6, <1>8, <1>9, <1>10 DEF PoolInv, FlightsInv

(* Flights are dropped or get their outcome: what is left in the queue and  *)
(* in the kernel keeps its registration.                                    *)
LEMMA FlightsGoOn ==
    ASSUME PoolInv, NEW old, old \subseteq finished, NEW gone \in SUBSET Reads!Requests,
           \A f \in gone : rbRequest[f] # "new",
           finished' = finished \cup gone, flights' \in {flights, Reads!Without(old \cup gone)},
           UNCHANGED <<path, rbRequest>>
    PROVE  /\ flights' \in [Paths -> Reads!Requests \cup {0}]
           /\ \A f \in finished' : f \in Reads!Requests /\ rbRequest'[f] # "new"
           /\ \A f : Own(f) /\ f \notin gone => Own(f)'
<1>0. flights \in [Paths -> Reads!Requests \cup {0}] /\ PoolTyped
  BY DEF PoolInv, FlightsInv, PoolTyped
<1>1. flights' \in [Paths -> Reads!Requests \cup {0}]
  BY <1>0, PoolFacts DEF Reads!Without
<1>2. \A f \in finished' : f \in Reads!Requests /\ rbRequest'[f] # "new"
  BY DEF PoolInv, FlightsInv, DoneIsFinished
<1>3. ASSUME NEW f, Own(f), f \notin gone PROVE Own(f)'
  <2>1. f \notin old \cup gone
    BY <1>3 DEF Own
  <2> QED
    BY <1>0, <1>3, <2>1 DEF Own, Reads!Without
<1> QED
  BY <1>1, <1>2, <1>3

(* The call of one helper returns: an outcome, for its own read only. *)
LEMMA ReturnKeeps ==
    ASSUME PoolInv, NEW h \in Reads!Helpers, Reads!Return(h)
    PROVE  PoolInv'
<1>0. /\ helper \in [Reads!Helpers -> HelperStates] /\ reading \in [Reads!Helpers -> Reads!Requests \cup {0}]
      /\ rbQueue \in Seq(Reads!Requests) /\ helper[h] = "kernel"
  BY DEF PoolInv, FlightsInv, PoolTyped, Reads!Return
<1>1. PICK f : f = reading[h]
  OBVIOUS
<1>2. /\ finished' = finished \cup {f} /\ helper' = [helper EXCEPT ![h] = "done"]
      /\ UNCHANGED <<flights, rbQueue, reading, path, rbRequest, rbClosed, spawnFails>>
  BY <1>1 DEF Reads!Return, Reads!requesters
<1>3. Own(f) /\ \A i \in 1..Len(rbQueue) : rbQueue[i] # f
  BY <1>0, <1>1 DEF PoolInv, FlightsInv, InKernelOnce
<1>4. /\ helper' \in [Reads!Helpers -> HelperStates] /\ helper'[h] = "done"
      /\ \A g \in Reads!Helpers : g # h => helper'[g] = helper[g]
  BY <1>0, <1>2 DEF HelperStates
<1>5. /\ \A g \in finished' : g \in Reads!Requests /\ rbRequest'[g] # "new"
      /\ \A g : Own(g) /\ g \notin {f} => Own(g)'
  <2>1. PICK old : old = {}
    OBVIOUS
  <2>2. PICK gone : gone = {f}
    OBVIOUS
  <2>3. gone \in SUBSET Reads!Requests /\ \A g \in gone : rbRequest[g] # "new"
    BY <1>3, <2>2 DEF Own
  <2>4. old \subseteq finished /\ finished' = finished \cup gone
    BY <1>2, <2>1, <2>2
  <2> QED
    BY <1>2, <2>2, <2>3, <2>4, FlightsGoOn
<1>6. PoolTyped'
  BY <1>2, <1>4 DEF PoolInv, FlightsInv, PoolTyped
<1>7. QueuedOnce'
  BY <1>2, <1>3, <1>5 DEF PoolInv, FlightsInv, QueuedOnce
<1>8. InKernelOnce'
  <2>1. ASSUME NEW g \in Reads!Helpers, helper'[g] = "kernel"
        PROVE  Own(reading[g])' /\ \A i \in 1..Len(rbQueue') : rbQueue'[i] # reading'[g]
    <3>1. g # h /\ helper[g] = "kernel" /\ reading[g] # f
      BY <1>0, <1>1, <1>4, <2>1 DEF PoolInv, FlightsInv, InKernelOnce
    <3>2. PICK k : k = reading[g]
      OBVIOUS
    <3>3. Own(k) /\ \A i \in 1..Len(rbQueue) : rbQueue[i] # k
      BY <3>1, <3>2 DEF PoolInv, FlightsInv, InKernelOnce
    <3>4. Own(k)'
      BY <1>5, <3>1, <3>2, <3>3
    <3> QED
      BY <1>2, <3>2, <3>3, <3>4
  <2>2. \A g, k \in Reads!Helpers :
           helper'[g] = "kernel" /\ helper'[k] = "kernel" /\ reading'[g] = reading'[k] => g = k
    BY <1>2, <1>4 DEF PoolInv, FlightsInv, InKernelOnce
  <2> QED
    BY <2>1, <2>2 DEF InKernelOnce
<1>9. DoneIsFinished' /\ ClosedIsEmpty'
  BY <1>1, <1>2, <1>4, <1>5 DEF PoolInv, FlightsInv, DoneIsFinished, ClosedIsEmpty
<1>10. spawnFails' = 0 => AttendedBy(helper', Len(rbQueue'))
  <2> SUFFICES ASSUME spawnFails' = 0 PROVE AttendedBy(helper', Len(rbQueue'))
    OBVIOUS
  <2>1. AttendedBy(helper, Len(rbQueue))
    BY <1>2 DEF PoolInv
  <2>2. PICK b \in [Reads!Helpers -> HelperStates] : b = helper'
    BY <1>4
  <2>3. b[h] = "done" /\ \A g \in Reads!Helpers : g # h => b[g] = helper[g]
    BY <1>4, <2>2
  <2>4. /\ Cardinality(Working(b)) = Cardinality(Working(helper)) + 1
        /\ Cardinality(Living(b)) = Cardinality(Living(helper))
    BY <1>0, <2>3, OneMoves
  <2>5. Cardinality(Working(helper)) \in Nat /\ Len(rbQueue) \in Nat
    BY <1>0, CountFacts
  <2>6. AttendedBy(b, Len(rbQueue))
    BY <2>1, <2>3, <2>4, <2>5 DEF AttendedBy
  <2> QED
    BY <1>2, <2>2, <2>6
<1> QED
  BY <1>6, <1>7, <1>8, <1>9, <1>10 DEF PoolInv, FlightsInv

(* A parked helper wakes up by itself: nobody parks while the queue is long. *)
LEMMA ExpireKeeps ==
    ASSUME PoolInv, NEW h \in Reads!Helpers, Reads!Expire(h)
    PROVE  PoolInv'
<1>0. /\ helper \in [Reads!Helpers -> HelperStates] /\ rbQueue \in Seq(Reads!Requests) /\ helper[h] = "parked"
      /\ helper' = [helper EXCEPT ![h] = "expired"]
      /\ UNCHANGED <<finished, flights, rbQueue, reading, path, rbRequest, rbClosed, spawnFails>>
  BY DEF PoolInv, FlightsInv, PoolTyped, Reads!Expire, Reads!requesters, Reads!reads
<1>1. /\ helper' \in [Reads!Helpers -> HelperStates] /\ helper'[h] = "expired"
      /\ \A g \in Reads!Helpers : g # h => helper'[g] = helper[g]
  BY <1>0 DEF HelperStates
<1>2. \A f : Own(f) => Own(f)'
  BY <1>0 DEF Own
<1>3. PoolTyped'
  BY <1>0, <1>1 DEF PoolInv, FlightsInv, PoolTyped
<1>4. QueuedOnce'
  BY <1>0, <1>2 DEF PoolInv, FlightsInv, QueuedOnce
<1>5. InKernelOnce'
  BY <1>0, <1>1, <1>2 DEF PoolInv, FlightsInv, InKernelOnce
<1>6. DoneIsFinished' /\ ClosedIsEmpty'
  BY <1>0, <1>1 DEF PoolInv, FlightsInv, DoneIsFinished, ClosedIsEmpty
<1>7. spawnFails' = 0 => AttendedBy(helper', Len(rbQueue'))
  <2> SUFFICES ASSUME spawnFails' = 0 PROVE AttendedBy(helper', Len(rbQueue'))
    OBVIOUS
  <2>1. Len(rbQueue) <= Cardinality(Working(helper)) /\ Cardinality(Working(helper)) \in Nat /\ Len(rbQueue) \in Nat
    BY <1>0, CountFacts DEF PoolInv, AttendedBy
  <2>2. PICK b \in [Reads!Helpers -> HelperStates] : b = helper'
    BY <1>1
  <2>3. b[h] = "expired" /\ \A g \in Reads!Helpers : g # h => b[g] = helper[g]
    BY <1>1, <2>2
  <2>4. Cardinality(Working(b)) = Cardinality(Working(helper)) + 1
    BY <1>0, <2>3, OneMoves
  <2>5. AttendedBy(b, Len(rbQueue))
    BY <2>1, <2>4 DEF AttendedBy
  <2> QED
    BY <1>0, <2>2, <2>5
<1> QED
  BY <1>3, <1>4, <1>5, <1>6, <1>7 DEF PoolInv, FlightsInv

(* close with the lock: the queue is dropped, the parked are woken. *)
LEMMA CloseKeeps == ASSUME PoolInv, Reads!CloseLocked PROVE PoolInv'
<1>0. /\ helper \in [Reads!Helpers -> HelperStates] /\ rbQueue \in Seq(Reads!Requests)
      /\ reading \in [Reads!Helpers -> Reads!Requests \cup {0}]
  BY DEF PoolInv, FlightsInv, PoolTyped
<1>1. PICK gone : gone = Reads!ToSet(rbQueue)
  OBVIOUS
<1>2. gone = {rbQueue[i] : i \in 1..Len(rbQueue)}
  BY <1>0, <1>1 DEF Reads!ToSet
<1>3. /\ rbQueue' = <<>> /\ flights' = Reads!Without(gone) /\ finished' = finished \cup gone
      /\ helper' = [h \in Reads!Helpers |-> IF helper[h] = "parked" THEN "woken" ELSE helper[h]]
      /\ UNCHANGED <<reading, path, rbRequest, spawnFails>>
  BY <1>1 DEF Reads!CloseLocked, Reads!requesters
<1>4. gone \in SUBSET Reads!Requests /\ \A f \in gone : rbRequest[f] # "new"
  BY <1>2 DEF PoolInv, FlightsInv, QueuedOnce, Own
<1>5. /\ flights' \in [Paths -> Reads!Requests \cup {0}]
      /\ \A f \in finished' : f \in Reads!Requests /\ rbRequest'[f] # "new"
      /\ \A f : Own(f) /\ f \notin gone => Own(f)'
  <2>1. PICK old : old = {}
    OBVIOUS
  <2>2. old \subseteq finished /\ old \cup gone = gone
    BY <2>1
  <2> QED
    BY <1>3, <1>4, <2>2, FlightsGoOn
<1>6. /\ helper' \in [Reads!Helpers -> HelperStates]
      /\ \A h \in Reads!Helpers : helper'[h] = helper[h] \/ (helper[h] = "parked" /\ helper'[h] = "woken")
  BY <1>0, <1>3 DEF HelperStates
<1>7. rbQueue' \in Seq(Reads!Requests) /\ Len(rbQueue') = 0
  BY <1>3
<1>8. PoolTyped'
  BY <1>3, <1>5, <1>6, <1>7 DEF PoolInv, FlightsInv, PoolTyped
<1>9. QueuedOnce' /\ ClosedIsEmpty'
  BY <1>3, <1>7 DEF QueuedOnce, ClosedIsEmpty
<1>10. InKernelOnce'
  <2>1. ASSUME NEW g \in Reads!Helpers, helper'[g] = "kernel" PROVE Own(reading[g])'
    <3>1. helper[g] = "kernel"
      BY <1>6, <2>1
    <3>2. PICK k : k = reading[g]
      OBVIOUS
    <3>3. Own(k) /\ k \notin gone
      BY <1>2, <3>1, <3>2 DEF PoolInv, FlightsInv, InKernelOnce
    <3> QED
      BY <1>3, <1>5, <3>2, <3>3
  <2> QED
    BY <1>3, <1>6, <1>7, <2>1 DEF PoolInv, FlightsInv, InKernelOnce
<1>11. DoneIsFinished'
  BY <1>3, <1>5, <1>6 DEF PoolInv, FlightsInv, DoneIsFinished
<1>12. AttendedBy(helper', Len(rbQueue'))
  BY <1>7, CountFacts DEF AttendedBy
<1> QED
  BY <1>8, <1>9, <1>10, <1>11, <1>12 DEF PoolInv, FlightsInv

(* What next_flight is about to drop and to take. *)
LEMMA LookKeeps ==
    ASSUME PoolInv, NEW h \in Reads!Helpers, Reads!Look(h)
    PROVE  PoolInv'
<1>0. /\ helper \in [Reads!Helpers -> HelperStates] /\ rbQueue \in Seq(Reads!Requests)
      /\ reading \in [Reads!Helpers -> Reads!Requests \cup {0}] /\ Len(rbQueue) \in Nat
      /\ helper[h] \in {"ready", "spin", "woken", "expired", "done"}
      /\ UNCHANGED <<path, rbRequest, rbClosed, spawnFails>>
  BY DEF PoolInv, FlightsInv, PoolTyped, Reads!Look, Reads!requesters
<1>1. PICK mine : mine = {reading[h]} \ {0}
  OBVIOUS
<1>2. mine \subseteq finished
  BY <1>0, <1>1 DEF PoolInv, FlightsInv, PoolTyped, DoneIsFinished
<1>3. PICK n \in 0..Len(rbQueue) : n = Reads!Unwanted
  BY UnwantedFacts DEF PoolInv, FlightsInv
<1>4. PICK dead : dead = {rbQueue[i] : i \in 1..n}
  OBVIOUS
<1>5. dead \in SUBSET Reads!Requests /\ \A f \in dead : rbRequest[f] # "new"
  <2>1. \A i \in 1..n : i \in 1..Len(rbQueue)
    BY <1>0
  <2> QED
    BY <1>4, <2>1 DEF PoolInv, FlightsInv, QueuedOnce, Own
<1>6. ASSUME NEW s \in {"none", "spin", "parked"}, NEW gone \in {{}, dead},
             helper' = [helper EXCEPT ![h] = s], reading' = [reading EXCEPT ![h] = 0],
             flights' = Reads!Without(mine \cup gone), finished' = finished \cup gone,
             rbQueue' = <<>>
      PROVE  PoolInv'
  <2>1. /\ flights' \in [Paths -> Reads!Requests \cup {0}]
        /\ \A f \in finished' : f \in Reads!Requests /\ rbRequest'[f] # "new"
        /\ \A f : Own(f) /\ f \notin gone => Own(f)'
    <3>1. gone \in SUBSET Reads!Requests /\ \A f \in gone : rbRequest[f] # "new"
      BY <1>5
    <3> QED
      BY <1>0, <1>2, <1>6, <3>1, FlightsGoOn
  <2>2. /\ helper' \in [Reads!Helpers -> HelperStates] /\ helper'[h] = s
        /\ \A g \in Reads!Helpers : g # h => helper'[g] = helper[g] /\ reading'[g] = reading[g]
        /\ reading' \in [Reads!Helpers -> Reads!Requests \cup {0}] /\ reading'[h] = 0
    BY <1>0, <1>6 DEF HelperStates
  <2>3. rbQueue' \in Seq(Reads!Requests) /\ Len(rbQueue') = 0
    BY <1>6
  <2>4. PoolTyped'
    BY <1>0, <2>1, <2>2, <2>3 DEF PoolInv, FlightsInv, PoolTyped
  <2>5. QueuedOnce' /\ ClosedIsEmpty'
    BY <1>6, <2>3 DEF QueuedOnce, ClosedIsEmpty
  <2>6. InKernelOnce'
    <3>1. ASSUME NEW g \in Reads!Helpers, helper'[g] = "kernel" PROVE Own(reading[g])'
      <4>1. g # h /\ helper[g] = "kernel" /\ reading'[g] = reading[g]
        BY <2>2, <3>1
      <4>2. PICK k : k = reading[g]
        OBVIOUS
      <4>3. Own(k) /\ k \notin gone
        <5>1. Own(k) /\ \A i \in 1..Len(rbQueue) : rbQueue[i] # k
          BY <4>1, <4>2 DEF PoolInv, FlightsInv, InKernelOnce
        <5>2. k \notin dead
          BY <1>0, <1>4, <5>1
        <5> QED
          BY <5>1, <5>2
      <4> QED
        BY <2>1, <4>1, <4>2, <4>3
    <3> QED
      BY <2>2, <2>3, <3>1 DEF PoolInv, FlightsInv, InKernelOnce
  <2>7. DoneIsFinished'
    BY <1>6, <2>1, <2>2 DEF PoolInv, FlightsInv, DoneIsFinished
  <2>8. AttendedBy(helper', Len(rbQueue'))
    BY <2>3, CountFacts DEF AttendedBy
  <2> QED
    BY <2>4, <2>5, <2>6, <2>7, <2>8 DEF PoolInv, FlightsInv
<1>7. CASE rbClosed
  <2>1. /\ helper' = [helper EXCEPT ![h] = "none"] /\ reading' = [reading EXCEPT ![h] = 0]
        /\ flights' = Reads!Without(mine) /\ UNCHANGED <<finished, rbQueue>>
    BY <1>1, <1>7, PoolFacts DEF Reads!Look, Reads!Goes, Reads!reads
  <2>2. PICK gone \in {{}, dead} : gone = {}
    OBVIOUS
  <2>3. mine \cup gone = mine /\ finished \cup gone = finished
    BY <2>2
  <2>4. rbQueue' = <<>>
    BY <1>7, <2>1 DEF PoolInv, FlightsInv, ClosedIsEmpty
  <2> QED
    BY <1>6, <2>1, <2>3, <2>4
<1>8. CASE ~rbClosed /\ ~(n < Len(rbQueue))
  <2>1. /\ flights' = Reads!Without(mine \cup dead) /\ finished' = finished \cup dead /\ rbQueue' = <<>>
        /\ helper' = [helper EXCEPT ![h] = Reads!Rest(h)] /\ reading' = [reading EXCEPT ![h] = 0]
    BY <1>1, <1>3, <1>4, <1>8, PoolFacts DEF Reads!Look, Reads!Goes
  <2>2. PICK s \in {"none", "spin", "parked"} : s = Reads!Rest(h)
    BY <1>0 DEF Reads!Rest
  <2> QED
    BY <1>6, <2>1, <2>2
<1>9. CASE ~rbClosed /\ n < Len(rbQueue)
  <2>1. PICK f : f = rbQueue[n + 1]
    OBVIOUS
  <2>2. /\ flights' = Reads!Without(mine \cup dead) /\ finished' = finished \cup dead
        /\ rbQueue' = SubSeq(rbQueue, n + 2, Len(rbQueue))
        /\ helper' = [helper EXCEPT ![h] = "kernel"] /\ reading' = [reading EXCEPT ![h] = f]
    BY <1>1, <1>3, <1>4, <1>9, <2>1, PoolFacts DEF Reads!Look
  <2>3. /\ flights' \in [Paths -> Reads!Requests \cup {0}]
        /\ \A g \in finished' : g \in Reads!Requests /\ rbRequest'[g] # "new"
        /\ \A g : Own(g) /\ g \notin dead => Own(g)'
    BY <1>0, <1>2, <1>5, <2>2, FlightsGoOn
  <2>4. n + 1 \in 1..Len(rbQueue) /\ Own(f) /\ f \in Reads!Requests
    BY <1>0, <1>9, <2>1 DEF PoolInv, FlightsInv, QueuedOnce, Own
  <2>5. /\ rbQueue' \in Seq(Reads!Requests) /\ Len(rbQueue') = Len(rbQueue) - n - 1
        /\ \A i \in 1..Len(rbQueue') : rbQueue'[i] = rbQueue[i + n + 1] /\ i + n + 1 \in (n + 2)..Len(rbQueue)
    <3>1. rbQueue' \in Seq(Reads!Requests) /\ Len(rbQueue') = Len(rbQueue) - n - 1
      BY <1>0, <1>9, <2>2
    <3>2. \A i \in 1..(Len(rbQueue) - n - 1) : i + n + 1 \in (n + 2)..Len(rbQueue) /\ rbQueue'[i] = rbQueue[i + n + 1]
      BY <1>0, <1>9, <2>2
    <3> QED
      BY <3>1, <3>2
  <2>6. /\ helper' \in [Reads!Helpers -> HelperStates] /\ helper'[h] = "kernel"
        /\ \A g \in Reads!Helpers : g # h => helper'[g] = helper[g] /\ reading'[g] = reading[g]
        /\ reading' \in [Reads!Helpers -> Reads!Requests \cup {0}] /\ reading'[h] = f
    BY <1>0, <2>2, <2>4 DEF HelperStates
  <2>7. \A i \in (n + 1)..Len(rbQueue) : i \in 1..Len(rbQueue) /\ Own(rbQueue[i]) /\ rbQueue[i] \notin dead
    BY <1>0, <1>4 DEF PoolInv, FlightsInv, QueuedOnce
  <2>8. PoolTyped'
    BY <1>0, <2>3, <2>5, <2>6 DEF PoolInv, FlightsInv, PoolTyped
  <2>9. QueuedOnce'
    <3>1. ASSUME NEW i \in 1..Len(rbQueue') PROVE Own(rbQueue[i])'
      <4>1. PICK g : g = rbQueue[i + n + 1]
        OBVIOUS
      <4>2. rbQueue'[i] = g /\ i + n + 1 \in (n + 1)..Len(rbQueue)
        BY <1>0, <2>5, <4>1
      <4>3. Own(g) /\ g \notin dead
        BY <2>7, <4>1, <4>2
      <4> QED
        BY <2>3, <4>2, <4>3
    <3>2. ASSUME NEW i \in 1..Len(rbQueue'), NEW j \in 1..Len(rbQueue'), rbQueue'[i] = rbQueue'[j] PROVE i = j
      <4>1. rbQueue[i + n + 1] = rbQueue[j + n + 1] /\ i + n + 1 \in 1..Len(rbQueue) /\ j + n + 1 \in 1..Len(rbQueue)
        BY <1>0, <2>5, <3>2
      <4>2. i + n + 1 = j + n + 1
        BY <4>1 DEF PoolInv, FlightsInv, QueuedOnce
      <4> QED
        BY <2>5, <4>2
    <3> QED
      BY <3>1, <3>2 DEF QueuedOnce
  <2>10. InKernelOnce'
    <3>1. ASSUME NEW g \in Reads!Helpers, g # h, helper'[g] = "kernel"
          PROVE  /\ Own(reading[g])' /\ reading'[g] # f
                 /\ \A i \in 1..Len(rbQueue') : rbQueue'[i] # reading'[g]
      <4>1. helper[g] = "kernel" /\ reading'[g] = reading[g]
        BY <2>6, <3>1
      <4>2. PICK k : k = reading[g]
        OBVIOUS
      <4>3. Own(k) /\ \A i \in 1..Len(rbQueue) : rbQueue[i] # k
        BY <4>1, <4>2 DEF PoolInv, FlightsInv, InKernelOnce
      <4>4. k \notin dead /\ k # f
        BY <1>0, <1>4, <2>1, <2>4, <4>3
      <4>5. Own(k)'
        BY <2>3, <4>3, <4>4
      <4>6. \A i \in 1..Len(rbQueue') : rbQueue'[i] # k
        BY <1>0, <2>5, <4>3
      <4> QED
        BY <4>1, <4>2, <4>4, <4>5, <4>6
    <3>2. Own(reading[h])' /\ \A i \in 1..Len(rbQueue') : rbQueue'[i] # reading'[h]
      <4>1. f \notin dead
        BY <1>0, <2>1, <2>4, <2>7
      <4>2. Own(f)'
        BY <2>3, <2>4, <4>1
      <4>3. ASSUME NEW i \in 1..Len(rbQueue') PROVE rbQueue'[i] # f
        <5>1. rbQueue'[i] = rbQueue[i + n + 1] /\ i + n + 1 \in 1..Len(rbQueue) /\ i + n + 1 # n + 1
          BY <1>0, <2>5
        <5> QED
          BY <2>1, <2>4, <5>1 DEF PoolInv, FlightsInv, QueuedOnce
      <4> QED
        BY <2>6, <4>2, <4>3
    <3>3. ASSUME NEW g \in Reads!Helpers, NEW k \in Reads!Helpers,
                 helper'[g] = "kernel", helper'[k] = "kernel", reading'[g] = reading'[k]
          PROVE  g = k
      <4>1. CASE g = h \/ k = h
        BY <2>6, <3>1, <3>3, <4>1
      <4>2. CASE g # h /\ k # h
        BY <2>6, <3>3, <4>2 DEF PoolInv, FlightsInv, InKernelOnce
      <4> QED
        BY <4>1, <4>2
    <3> QED
      BY <3>1, <3>2, <3>3 DEF InKernelOnce
  <2>11. DoneIsFinished' /\ ClosedIsEmpty'
    BY <1>0, <1>9, <2>2, <2>3, <2>6 DEF PoolInv, FlightsInv, DoneIsFinished, ClosedIsEmpty
  <2>12. ASSUME spawnFails' = 0 PROVE AttendedBy(helper', Len(rbQueue'))
    <3>1. AttendedBy(helper, Len(rbQueue))
      BY <1>0, <2>12 DEF PoolInv
    <3>2. PICK b \in [Reads!Helpers -> HelperStates] : b = helper'
      BY <2>6
    <3>3. b[h] = "kernel" /\ \A g \in Reads!Helpers : g # h => b[g] = helper[g]
      BY <2>6, <3>2
    <3>4. /\ Cardinality(Working(b)) = Cardinality(Working(helper)) - 1
          /\ Cardinality(Living(b)) = Cardinality(Living(helper))
      BY <1>0, <3>3, OneMoves
    <3>5. Cardinality(Working(helper)) \in Nat /\ Len(rbQueue') \in Nat
      BY <2>5, CountFacts
    <3>6. AttendedBy(b, Len(rbQueue'))
      <4> SUFFICES ASSUME Len(rbQueue') > Cardinality(Working(b))
                   PROVE  /\ Cardinality(Living(b)) = Reads!MaxThreads
                          /\ \A g \in Reads!Helpers : b[g] # "parked"
        BY DEF AttendedBy
      <4>1. Len(rbQueue) > Cardinality(Working(helper))
        BY <1>0, <2>5, <3>4, <3>5
      <4> QED
        BY <3>1, <3>3, <3>4, <4>1 DEF AttendedBy
    <3> QED
      BY <3>2, <3>6
  <2> QED
    BY <2>8, <2>9, <2>10, <2>11, <2>12 DEF PoolInv, FlightsInv
<1> QED
  BY <1>7, <1>8, <1>9

(* No request, no read and no thread. *)
LEMMA PoolInit == ASSUME Reads!Init PROVE PoolInv
<1>1. /\ path = [r \in Reads!Requests |-> 0] /\ rbRequest = [r \in Reads!Requests |-> "new"]
      /\ finished = {} /\ flights = [p \in Paths |-> 0] /\ rbQueue = <<>>
      /\ helper = [h \in Reads!Helpers |-> "none"] /\ reading = [h \in Reads!Helpers |-> 0] /\ spawnFails = 0
  BY PoolFacts DEF Reads!Init
<1>2. rbQueue \in Seq(Reads!Requests) /\ Len(rbQueue) = 0
  BY <1>1
<1>3. PoolTyped
  BY <1>1, <1>2 DEF PoolTyped, HelperStates
<1>4. QueuedOnce /\ InKernelOnce /\ DoneIsFinished /\ ClosedIsEmpty
  BY <1>1, <1>2 DEF QueuedOnce, InKernelOnce, DoneIsFinished, ClosedIsEmpty
<1>5. AttendedBy(helper, Len(rbQueue))
  BY <1>2, CountFacts DEF AttendedBy
<1> QED
  BY <1>3, <1>4, <1>5 DEF PoolInv, FlightsInv

(* A request is refused, joins a read or starts one. *)
LEMMA SubmitKeeps ==
    ASSUME PoolInv, NEW r \in Reads!Requests, NEW p \in Paths, Reads!Submit(r, p)
    PROVE  PoolInv'
<1>0. rbRequest \in [Reads!Requests -> {"new", "waits", "done"}]
  BY DEF PoolInv, FlightsInv, PoolTyped
<1>1. CASE Reads!Refuse(r)
  BY <1>0, <1>1, PoolLeftAlone DEF Reads!Refuse, Reads!reads, Reads!pool
<1>2. CASE rbRequest' = [rbRequest EXCEPT ![r] = "waits"]
           /\ UNCHANGED <<path, finished, flights, rbQueue, helper, reading, rbClosed, spawnFails>>
  BY <1>0, <1>2, PoolLeftAlone
<1>3. CASE /\ Reads!Fresh(r) /\ ~Reads!Joinable(p) /\ ~rbClosed /\ Reads!Launch(r, p)
           /\ ~\E f \in {g \in Reads!Registered : Reads!Stuck(g)} : path[f] \in Below[p]
  BY <1>3, LaunchKeeps
<1> QED
  BY <1>1, <1>2, <1>3 DEF Reads!Submit, Reads!reads, Reads!pool

(* Every step of requesters, helpers, the clock and close. *)
LEMMA PoolNext == ASSUME PoolInv, [Reads!Next]_(Reads!vars) PROVE PoolInv'
<1>0. rbRequest \in [Reads!Requests -> {"new", "waits", "done"}]
  BY DEF PoolInv, FlightsInv, PoolTyped
<1>1. CASE UNCHANGED Reads!vars
  BY <1>0, <1>1, PoolLeftAlone DEF Reads!vars, Reads!reads, Reads!pool, Reads!requesters
<1>2. ASSUME NEW r \in Reads!Requests, Reads!SubmitDataless(r) \/ Reads!Wait(r) \/ Reads!Cancel(r) \/ Reads!Stall(r)
      PROVE  PoolInv'
  <2>1. CASE Reads!SubmitDataless(r)
    BY <1>0, <2>1, PoolLeftAlone DEF Reads!SubmitDataless, Reads!Refuse, Reads!reads, Reads!pool
  <2>2. CASE Reads!Leave(r)
    BY <1>0, <2>2, PoolLeftAlone DEF Reads!Leave, Reads!reads, Reads!pool
  <2>3. CASE Reads!Stall(r)
    BY <1>0, <2>3, PoolLeftAlone DEF Reads!Stall, Reads!requesters, Reads!pool
  <2> QED
    BY <1>2, <2>1, <2>2, <2>3 DEF Reads!Wait, Reads!Cancel
<1>3. ASSUME NEW h \in Reads!Helpers, Reads!Tick(h) PROVE PoolInv'
  BY <1>0, <1>3, PoolLeftAlone DEF Reads!Tick, Reads!requesters, Reads!pool
<1>4. CASE Reads!Close
  BY <1>0, <1>4, PoolLeftAlone DEF Reads!Close, Reads!requesters, Reads!pool, Reads!reads
<1> QED
  BY <1>1, <1>2, <1>3, <1>4, SubmitKeeps, LookKeeps, ExpireKeeps, ReturnKeeps, CloseKeeps DEF Reads!Next

(* The read boundary under any requests, deadlines, cancellations, refused  *)
(* threads and a kernel that may never return: the call a helper is in is   *)
(* the one registered for its path, so submit sees every stuck one, and no  *)
(* read is queued while a parked helper or a free thread could take it.     *)
THEOREM PoolStaysAttended == Reads!Spec => []PoolIsAttended
<1>1. Reads!Init => PoolInv
  BY PoolInit
<1>2. PoolInv /\ [Reads!Next]_(Reads!vars) => PoolInv'
  BY PoolNext
<1>3. PoolInv => PoolIsAttended
  <2> SUFFICES ASSUME PoolInv PROVE PoolIsAttended
    OBVIOUS
  <2>1. Reads!CallIsRegistered
    BY DEF PoolInv, FlightsInv, InKernelOnce, Own, Reads!CallIsRegistered
  <2>2. /\ {h \in Reads!Live : helper[h] \notin {"kernel", "parked"}} = Working(helper)
        /\ Reads!Live = Living(helper)
    BY DEF Reads!Live, Working, Living
  <2>3. Reads!QueueIsAttended
    BY <2>2, SameCount DEF PoolInv, AttendedBy, Reads!QueueIsAttended
  <2> QED
    BY <2>1, <2>3 DEF PoolIsAttended
<1> QED
  BY <1>1, <1>2, <1>3, PTL DEF Reads!Spec
=============================================================================
