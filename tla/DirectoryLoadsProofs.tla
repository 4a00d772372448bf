------------------------ MODULE DirectoryLoadsProofs ------------------------
(***************************************************************************)
(* Proofs about DirectoryLoads for any number of windows, directories and  *)
(* chains.  Who is owed an answer is proved as long as no channel refuses  *)
(* a send before its close event (SendMayFail = FALSE; with it,            *)
(* DirectoryLoadsStranded.cfg shows that LoadingIsOwed fails); the order   *)
(* of frames and what a completion announces are proved with or without.   *)
(***************************************************************************)
EXTENDS DirectoryLoads, TLAPS, WellFoundedInduction

\* A session that is not open has nothing open and is waiting for nothing; a
\* mapped generation was handed out for the directory it is mapped to.
Shape ==
  /\ \A s \in Sessions : port[s] # "dead"
  /\ \A s \in Sessions : port[s] # "open" =>
       expanded[s] = {} /\ \A d \in Dirs : told[s][d].state # "loading"
  /\ \A d \in Dirs : current[d] # 0 =>
       current[d] < nextGen /\ tasks[current[d]].dir = d

Inv == TypeOK /\ Shape /\ InterestIsExpansion /\ LoadingIsOwed

\* The part of the invariant about the host's own state.
Core == Shape /\ InterestIsExpansion /\ LoadingIsOwed

-----------------------------------------------------------------------------
(* The operators. *)

\* Generations are positive naturals: 0 names no task.
LEMMA GensAreNat == MaxGen \in Nat /\ Gens \subseteq Nat /\ 0 \notin Gens
BY BoundAssumption DEF MaxGen, Gens

\* What a session was last told after frames were posted.
LEMMA PostTold ==
  ASSUME NEW R, NEW P, NEW f, Post(R, P, f), NEW s \in Sessions, NEW d \in Dirs
  PROVE  told'[s][d] = IF port[s] # "open" THEN told[s][d]
                       ELSE IF <<s, d>> \in P THEN f
                       ELSE IF d \in R THEN Removed
                       ELSE told[s][d]
BY DEF Post

\* Posting keeps the types of the wire.
LEMMA PostTypes ==
  ASSUME TypeOK, NEW R, NEW P, NEW f \in Frames, Post(R, P, f)
  PROVE  /\ told' \in [Sessions -> [Dirs -> Frames]]
         /\ toClient' \in [Sessions -> [Dirs -> Seq(Frames)]]
<1>1. Removed \in Frames
  BY DEF Removed, Frames, States
<1>2. told' \in [Sessions -> [Dirs -> Frames]]
  BY <1>1 DEF Post, TypeOK
<1>3. ASSUME NEW s \in Sessions, NEW d \in Dirs
      PROVE  (IF port[s] # "open" THEN toClient[s][d]
              ELSE toClient[s][d] \o (IF d \in R THEN <<Removed>> ELSE <<>>)
                                  \o (IF <<s, d>> \in P THEN <<f>> ELSE <<>>))
               \in Seq(Frames)
  <2>1. toClient[s][d] \in Seq(Frames)
    BY DEF TypeOK
  <2>2. (IF d \in R THEN <<Removed>> ELSE <<>>) \in Seq(Frames)
    BY <1>1
  <2>3. (IF <<s, d>> \in P THEN <<f>> ELSE <<>>) \in Seq(Frames)
    OBVIOUS
  <2> QED BY <2>1, <2>2, <2>3
<1> QED BY <1>2, <1>3 DEF Post

\* Without a dead channel nobody is detached by a send.
LEMMA NobodyFails ==
  ASSUME Shape, NEW R, NEW S
  PROVE  Failing(R, S) = {}
BY DEF Shape, Failing, Attached

\* The sessions attached are those with an open channel.
LEMMA AttachedOpen ==
  ASSUME Shape
  PROVE  Attached = {s \in Sessions : port[s] = "open"}
BY DEF Shape, Attached

\* Releasing for nobody changes no task.
LEMMA ReleaseNobody ==
  ASSUME NEW T \in [Gens -> Tasks], NEW cur
  PROVE  Release(T, cur, {}) = T
BY DEF Release

\* Detaching nobody leaves the sets E expanded and every port alone.
LEMMA DetachNobody ==
  ASSUME TypeOK, NEW E \in [Sessions -> SUBSET Dirs], Detach({}, E)
  PROVE  port' = port /\ expanded' = E
BY DEF Detach, TypeOK

\* The least element of a non-empty set of naturals, as First chooses it.
LEMMA FirstIsLeast ==
  ASSUME NEW S \in SUBSET Nat, S # {}
  PROVE  First(S) \in S /\ \A j \in S : First(S) <= j
<1> DEFINE R == {x \in Nat \X Nat : x[1] < x[2]}
<1>1. IsWellFoundedOn(R, Nat)
  BY NatLessThanWellFounded, Zenon DEF OpToRel
<1>2. PICK i \in S : \A j \in S : ~(<<j, i>> \in R)
  <2> HIDE DEF R
  <2> QED BY <1>1, WFMin
<1>3. ASSUME NEW j \in S PROVE i <= j
  <2>1. i \in Nat /\ j \in Nat
    OBVIOUS
  <2>2. j < i => <<j, i>> \in R
    BY <2>1
  <2>3. ~(j < i)
    BY <1>2, <2>2
  <2> QED BY <2>1, <2>3
<1> QED BY <1>3 DEF First

\* Changing whom a task serves, or whether it is cancelled, keeps its type.
LEMMA TaskChanges ==
  ASSUME NEW t \in Tasks, NEW I \in SUBSET Sessions, NEW c \in BOOLEAN
  PROVE  /\ [t EXCEPT !.interested = I, !.cancelled = c] \in Tasks
         /\ [t EXCEPT !.interested = I] \in Tasks
         /\ [t EXCEPT !.cancelled = c] \in Tasks
BY DEF Tasks

\* The record of an unused generation is a task record.
LEMMA NoTaskType == NoTask \in Tasks
<1>1. (CHOOSE x \in Dirs : TRUE) \in Dirs
  BY DirsAssumption
<1> QED BY <1>1 DEF NoTask, Tasks, Phases

-----------------------------------------------------------------------------
\* The fresh host satisfies the invariant.
LEMMA InitInv == Init => Inv
<1> SUFFICES ASSUME Init PROVE Inv
  OBVIOUS
<1> USE DEF Init
<1>1. TypeOK
  <2>1. NoFrame \in Frames /\ NoRecord \in Records
    BY DEF NoFrame, NoRecord, Frames, Records, States
  <2>2. tasks \in [Gens -> Tasks]
    BY NoTaskType
  <2>3. nextGen \in 1..(MaxGen + 1) /\ current \in [Dirs -> 0..MaxGen]
    BY GensAreNat
  <2>4. requests \in 0..MaxRequests /\ resyncs \in 0..MaxResyncs
    BY BoundAssumption
  <2>5. /\ told \in [Sessions -> [Dirs -> Frames]]
        /\ toClient \in [Sessions -> [Dirs -> Seq(Frames)]]
        /\ mirror \in [Sessions -> [Dirs -> Records]]
    BY <2>1
  <2>6. port \in [Sessions -> Ports]
    BY DEF Ports
  <2>7. toHost \in [Sessions -> Seq([op : {"add", "remove"}, dir : Dirs])]
    OBVIOUS
  <2> QED BY <2>2, <2>3, <2>4, <2>5, <2>6, <2>7 DEF TypeOK
<1>2. Shape
  BY DEF Shape, NoFrame
<1>3. InterestIsExpansion /\ LoadingIsOwed
  BY DEF InterestIsExpansion, LoadingIsOwed, NoFrame
<1> QED BY <1>1, <1>2, <1>3 DEF Inv

-----------------------------------------------------------------------------
(* Three shapes of step. *)

\* A step that moves tasks without changing whom they serve, and tells
\* nobody "loading".
LEMMA SameTasks ==
  ASSUME Inv,
         port' = port, expanded' = expanded, current' = current,
         nextGen' = nextGen, present' \subseteq present,
         \A g \in Gens : /\ tasks'[g].dir = tasks[g].dir
                         /\ tasks'[g].interested = tasks[g].interested
                         /\ tasks'[g].cancelled = tasks[g].cancelled,
         \A s \in Sessions, d \in Dirs :
           told'[s][d] = told[s][d] \/ told'[s][d].state # "loading"
  PROVE  Core'
<1>1. \A d \in Dirs : current[d] # 0 => current[d] \in Gens
  BY DEF Inv, TypeOK, Gens
<1>2. Shape'
  BY <1>1 DEF Inv, Shape
<1>3. InterestIsExpansion'
  BY <1>1 DEF Inv, InterestIsExpansion, Attached
<1>4. LoadingIsOwed'
  BY <1>1 DEF Inv, LoadingIsOwed
<1> QED BY <1>2, <1>3, <1>4 DEF Core

\* A task ends, once nobody is waiting for it.
LEMMA EndInv ==
  ASSUME Inv, NEW g \in Gens,
         tasks' = [tasks EXCEPT ![g] = NoTask],
         current' = [d \in Dirs |-> IF current[d] = g THEN 0 ELSE current[d]],
         port' = port, expanded' = expanded, nextGen' = nextGen,
         present' \subseteq present,
         \A s \in Sessions, d \in Dirs :
           told'[s][d] = told[s][d] \/ told'[s][d].state # "loading",
         \A s \in Sessions, d \in Dirs :
           port[s] = "open" /\ current[d] = g => told'[s][d].state # "loading"
  PROVE  Core' /\ tasks' \in [Gens -> Tasks] /\ current' \in [Dirs -> 0..MaxGen]
<1>1. \A d \in Dirs : current[d] # 0 => current[d] \in Gens
  BY DEF Inv, TypeOK, Gens
<1>2. tasks' \in [Gens -> Tasks]
  BY NoTaskType DEF Inv, TypeOK
<1>3. current' \in [Dirs -> 0..MaxGen]
  BY GensAreNat DEF Inv, TypeOK
<1>4. \A d \in Dirs : current'[d] # 0 =>
        /\ current'[d] = current[d] /\ current[d] \in Gens
        /\ tasks'[current[d]] = tasks[current[d]]
  BY <1>1 DEF Inv, TypeOK
<1>5. Shape'
  BY <1>4 DEF Inv, Shape
<1>6. InterestIsExpansion'
  BY <1>4 DEF Inv, InterestIsExpansion, Attached
<1>7. LoadingIsOwed'
  <2> SUFFICES ASSUME NEW s \in Sessions, NEW d \in Dirs, port'[s] = "open",
                      told'[s][d].state = "loading"
               PROVE  /\ told'[s][d].gen \in Gens
                      /\ current'[d] = told'[s][d].gen
                      /\ ~tasks'[current'[d]].cancelled
                      /\ s \in tasks'[current'[d]].interested
    BY DEF LoadingIsOwed
  <2>1. told'[s][d] = told[s][d] /\ current[d] # g
    OBVIOUS
  <2>2. current'[d] = current[d] /\ current[d] \in Gens /\ current[d] # 0
    BY <2>1, <1>1, GensAreNat DEF Inv, LoadingIsOwed
  <2> QED BY <2>1, <2>2, <1>4 DEF Inv, LoadingIsOwed
<1> QED BY <1>2, <1>3, <1>5, <1>6, <1>7 DEF Core

\* completeDirectoryLoads, for sessions whose open directories are E.
LEMMA CompleteInv ==
  ASSUME Inv, NEW C \in SUBSET Dirs, NEW E \in [Sessions -> SUBSET Dirs],
         \A s \in Sessions : /\ expanded[s] \subseteq E[s]
                             /\ E[s] \subseteq expanded[s] \cup C
                             /\ port[s] # "open" => E[s] = {},
         CompleteDirectoryLoads(C, E), present' \subseteq present
  PROVE  /\ Core' /\ port' = port /\ expanded' = E /\ unsent' = {}
         /\ tasks' \in [Gens -> Tasks] /\ current' \in [Dirs -> 0..MaxGen]
         /\ nextGen' \in 1..(MaxGen + 1)
         /\ told' \in [Sessions -> [Dirs -> Frames]]
         /\ toClient' \in [Sessions -> [Dirs -> Seq(Frames)]]
<1> DEFINE cur  == [d \in Dirs |-> IF d \in C THEN 0 ELSE current[d]]
           done == [g \in Gens |-> IF \E d \in C : current[d] = g
                                   THEN [tasks[g] EXCEPT !.cancelled = TRUE]
                                   ELSE tasks[g]]
           P    == {x \in Attached \X C : x[2] \in E[x[1]]}
           f    == [state |-> "complete", gen |-> nextGen]
           B    == Failing(unsent, {s \in Attached : E[s] \cap C # {}})
<1>1. /\ nextGen <= MaxGen /\ current' = cur /\ tasks' = Release(done, cur, B)
      /\ Post(unsent, P, f) /\ Detach(B, E) /\ nextGen' = nextGen + 1
      /\ unsent' = {}
  BY DEF CompleteDirectoryLoads
<1>2. B = {}
  BY NobodyFails DEF Inv
<1>3. done \in [Gens -> Tasks]
  <2>1. ASSUME NEW g \in Gens
        PROVE  tasks[g] \in Tasks /\ [tasks[g] EXCEPT !.cancelled = TRUE] \in Tasks
    <3>1. tasks[g] \in Tasks
      BY DEF Inv, TypeOK
    <3> QED BY <3>1, TaskChanges
  <2> QED BY <2>1
<1>4. tasks' = done
  BY <1>1, <1>2, <1>3, ReleaseNobody
<1>5. port' = port /\ expanded' = E
  <2>1. Detach({}, E)
    BY <1>1, <1>2
  <2> QED BY <2>1, DetachNobody DEF Inv
<1>6. nextGen \in Nat /\ nextGen' \in 1..(MaxGen + 1)
  BY <1>1, GensAreNat DEF Inv, TypeOK
<1>7. f \in Frames /\ f.state = "complete"
  BY <1>6 DEF Frames, States
<1>8. /\ told' \in [Sessions -> [Dirs -> Frames]]
      /\ toClient' \in [Sessions -> [Dirs -> Seq(Frames)]]
  <2> HIDE DEF P, f
  <2> QED BY <1>1, <1>7, PostTypes DEF Inv
<1>9. current' \in [Dirs -> 0..MaxGen]
  BY <1>1, GensAreNat DEF Inv, TypeOK
<1>10. \A d \in Dirs : current[d] # 0 => current[d] \in Gens
  BY DEF Inv, TypeOK, Gens
<1>11. \A d \in Dirs : current'[d] # 0 =>
         /\ d \notin C /\ current'[d] = current[d] /\ current[d] \in Gens
         /\ tasks'[current[d]] = tasks[current[d]]
  <2> SUFFICES ASSUME NEW d \in Dirs, current'[d] # 0
               PROVE  /\ d \notin C /\ current'[d] = current[d]
                      /\ current[d] \in Gens
                      /\ tasks'[current[d]] = tasks[current[d]]
    OBVIOUS
  <2>1. d \notin C /\ current'[d] = current[d] /\ current[d] \in Gens
    BY <1>1, <1>10
  <2>2. ~\E c \in C : current[c] = current[d]
    BY <2>1, GensAreNat DEF Inv, Shape
  <2> QED BY <2>1, <2>2, <1>4
<1>12. ASSUME NEW s \in Sessions, NEW d \in Dirs
       PROVE  /\ told'[s][d] = told[s][d] \/ told'[s][d].state # "loading"
              /\ port[s] = "open" /\ d \in C /\ d \in E[s] =>
                   told'[s][d].state # "loading"
  <2>1. told'[s][d] = IF port[s] # "open" THEN told[s][d]
                      ELSE IF <<s, d>> \in P THEN f
                      ELSE IF d \in unsent THEN Removed
                      ELSE told[s][d]
    <3> HIDE DEF P, f
    <3> QED BY <1>1, PostTold
  <2>2. port[s] = "open" /\ d \in C /\ d \in E[s] => <<s, d>> \in P
    BY DEF Attached
  <2>3. Removed.state # "loading"
    BY DEF Removed
  <2> QED BY <2>1, <2>2, <2>3, <1>7
<1>13. Shape'
  <2>1. \A s \in Sessions : port'[s] # "dead"
    BY <1>5 DEF Inv, Shape
  <2>2. ASSUME NEW s \in Sessions, port'[s] # "open"
        PROVE  expanded'[s] = {} /\ \A d \in Dirs : told'[s][d].state # "loading"
    BY <2>2, <1>5, <1>12 DEF Inv, Shape
  <2>3. ASSUME NEW d \in Dirs, current'[d] # 0
        PROVE  current'[d] < nextGen' /\ tasks'[current'[d]].dir = d
    <3>1. /\ current'[d] = current[d] /\ current[d] \in Nat /\ current[d] # 0
          /\ tasks'[current[d]] = tasks[current[d]]
      BY <2>3, <1>11, GensAreNat
    <3>2. current[d] < nextGen /\ tasks[current[d]].dir = d
      BY <3>1 DEF Inv, Shape
    <3>3. nextGen' = nextGen + 1
      BY <1>1
    <3> QED BY <3>1, <3>2, <3>3, <1>6
  <2> QED BY <2>1, <2>2, <2>3 DEF Shape
<1>14. InterestIsExpansion'
  <2> SUFFICES ASSUME NEW d \in Dirs, current'[d] # 0
               PROVE  LET t    == tasks'[current'[d]]
                          open == {s \in Attached' : d \in expanded'[s]}
                      IN  /\ t.interested \subseteq open
                          /\ d \in present' => t.interested = open
                          /\ t.cancelled <=> (t.interested = {})
    BY DEF InterestIsExpansion
  <2>1. {s \in Attached' : d \in expanded'[s]} = {s \in Attached : d \in expanded[s]}
    BY <1>5, <1>11 DEF Attached
  <2> QED BY <2>1, <1>11 DEF Inv, InterestIsExpansion
<1>15. LoadingIsOwed'
  <2> SUFFICES ASSUME NEW s \in Sessions, NEW d \in Dirs, port'[s] = "open",
                      told'[s][d].state = "loading"
               PROVE  /\ told'[s][d].gen \in Gens
                      /\ current'[d] = told'[s][d].gen
                      /\ ~tasks'[current'[d]].cancelled
                      /\ s \in tasks'[current'[d]].interested
    BY DEF LoadingIsOwed
  <2>1. told'[s][d] = told[s][d] /\ port[s] = "open"
    BY <1>5, <1>12
  <2>2. /\ current[d] = told[s][d].gen /\ current[d] \in Gens
        /\ s \in tasks[current[d]].interested
    BY <2>1 DEF Inv, LoadingIsOwed
  <2>3. d \in expanded[s]
    BY <2>2, GensAreNat DEF Inv, InterestIsExpansion
  <2>4. d \notin C
    BY <2>1, <2>3, <1>12
  <2>5. current'[d] = current[d] /\ current'[d] # 0
    BY <2>2, <2>4, <1>1, GensAreNat
  <2> QED BY <2>1, <2>2, <2>5, <1>11 DEF Inv, LoadingIsOwed
<1> QED BY <1>3, <1>4, <1>5, <1>1, <1>6, <1>8, <1>9, <1>13, <1>14, <1>15 DEF Core

-----------------------------------------------------------------------------
(* The branches of setExpanded.  Adding d to what s has open:               *)

\* What the host believes the sessions have open, once s has added d.
Added(s, d) == [expanded EXCEPT ![s] = @ \cup {d}]

\* The sets a request to add leaves, seen by the other sessions.
LEMMA AddedSets ==
  ASSUME Inv, NEW s \in Sessions, NEW d \in Dirs, port[s] = "open"
  PROVE  /\ Added(s, d) \in [Sessions -> SUBSET Dirs]
         /\ d \in Added(s, d)[s]
         /\ \A r \in Sessions :
              /\ expanded[r] \subseteq Added(s, d)[r]
              /\ Added(s, d)[r] \subseteq expanded[r] \cup {d}
              /\ port[r] # "open" => Added(s, d)[r] = {}
              /\ r # s => Added(s, d)[r] = expanded[r]
BY DEF Inv, TypeOK, Shape, Added

\* The branch that starts a task: no live one was mapped for d.
LEMMA StartInv ==
  ASSUME Inv, NEW s \in Sessions, NEW d \in Dirs, port[s] = "open",
         current[d] = 0 \/ tasks[current[d]].cancelled,
         StartLoad(d, Added(s, d)), present' = present
  PROVE  /\ Core' /\ port' = port /\ expanded' = Added(s, d) /\ unsent' = unsent
         /\ tasks' \in [Gens -> Tasks] /\ current' \in [Dirs -> 0..MaxGen]
         /\ nextGen' \in 1..(MaxGen + 1)
         /\ told' \in [Sessions -> [Dirs -> Frames]]
         /\ toClient' \in [Sessions -> [Dirs -> Seq(Frames)]]
<1> DEFINE E   == Added(s, d)
           P   == {p \in Attached : d \in E[p]}
           B   == Failing({}, P)
           cur == [current EXCEPT ![d] = nextGen]
           new == [dir |-> d, interested |-> P \ B, cancelled |-> First(P) \in B,
                   phase |-> "check", at |-> 0, forks |-> {}]
           f   == [state |-> "loading", gen |-> nextGen]
           T   == [tasks EXCEPT ![nextGen] = new]
<1>1. /\ nextGen <= MaxGen /\ current' = cur /\ tasks' = Release(T, cur, B)
      /\ Post({}, P \X {d}, f) /\ Detach(B, E) /\ nextGen' = nextGen + 1
      /\ unsent' = unsent
  BY DEF StartLoad
<1>2. B = {}
  BY NobodyFails DEF Inv
<1>3. E \in [Sessions -> SUBSET Dirs] /\ s \in P /\ P \subseteq Sessions
  BY AddedSets DEF Attached
<1>4. nextGen \in Gens /\ nextGen \in Nat /\ nextGen' \in 1..(MaxGen + 1)
  BY <1>1, GensAreNat DEF Inv, TypeOK, Gens
<1>5. /\ new \in Tasks /\ new.dir = d /\ new.interested = P /\ new.cancelled = FALSE
  <2> HIDE DEF P, B
  <2>1. (First(P) \in B) = FALSE
    <3>1. First(P) \notin B
      BY <1>2
    <3> QED BY <3>1
  <2>2. P \ B = P
    BY <1>2
  <2>3. new = [dir |-> d, interested |-> P, cancelled |-> FALSE,
               phase |-> "check", at |-> 0, forks |-> {}]
    BY <2>1, <2>2
  <2> HIDE DEF new
  <2> QED BY <2>3, <1>3 DEF Tasks, Phases
<1>6. T \in [Gens -> Tasks]
  BY <1>5 DEF Inv, TypeOK
<1>7. tasks' = T
  <2> HIDE DEF T, cur
  <2> QED BY <1>1, <1>2, <1>6, ReleaseNobody
<1>8. port' = port /\ expanded' = E
  <2> HIDE DEF E
  <2>1. Detach({}, E)
    BY <1>1, <1>2
  <2> QED BY <2>1, <1>3, DetachNobody DEF Inv
<1>9. f \in Frames /\ f.state = "loading" /\ f.gen = nextGen
  BY <1>4 DEF Frames, States
<1>10. /\ told' \in [Sessions -> [Dirs -> Frames]]
       /\ toClient' \in [Sessions -> [Dirs -> Seq(Frames)]]
  <2> HIDE DEF P, f
  <2> QED BY <1>1, <1>9, PostTypes DEF Inv
<1>11. current' \in [Dirs -> 0..MaxGen] /\ current'[d] = nextGen
  BY <1>1, <1>4, GensAreNat DEF Inv, TypeOK, Gens
<1>12. tasks'[nextGen] = new
  BY <1>4, <1>7 DEF Inv, TypeOK
<1>13. \A c \in Dirs : c # d /\ current[c] # 0 =>
         /\ current'[c] = current[c] /\ current[c] \in Gens /\ current[c] < nextGen
         /\ tasks'[current[c]] = tasks[current[c]]
  <2> SUFFICES ASSUME NEW c \in Dirs, c # d, current[c] # 0
               PROVE  /\ current'[c] = current[c] /\ current[c] \in Gens
                      /\ current[c] < nextGen
                      /\ tasks'[current[c]] = tasks[current[c]]
    OBVIOUS
  <2>1. current'[c] = current[c] /\ current[c] \in Gens
    BY <1>1 DEF Inv, TypeOK, Gens
  <2>2. current[c] < nextGen
    BY DEF Inv, Shape
  <2>3. current[c] # nextGen
    BY <2>1, <2>2, <1>4, GensAreNat
  <2> HIDE DEF new
  <2> QED BY <2>1, <2>2, <2>3, <1>7 DEF Inv, TypeOK
<1>14. \A c \in Dirs : c # d => current'[c] = current[c]
  BY <1>1 DEF Inv, TypeOK
<1>15. ASSUME NEW r \in Sessions, NEW c \in Dirs
       PROVE  told'[r][c] = IF port[r] = "open" /\ r \in P /\ c = d
                            THEN f ELSE told[r][c]
  <2>1. told'[r][c] = IF port[r] # "open" THEN told[r][c]
                      ELSE IF <<r, c>> \in P \X {d} THEN f
                      ELSE IF c \in {} THEN Removed
                      ELSE told[r][c]
    <3> HIDE DEF P, f
    <3> QED BY <1>1, PostTold
  <2> QED BY <2>1
<1>16. Shape'
  <2>1. \A r \in Sessions : port'[r] # "dead"
    BY <1>8 DEF Inv, Shape
  <2>2. ASSUME NEW r \in Sessions, port'[r] # "open"
        PROVE  expanded'[r] = {} /\ \A c \in Dirs : told'[r][c].state # "loading"
    <3>1. expanded'[r] = {}
      BY <2>2, <1>8, AddedSets
    <3>2. \A c \in Dirs : told'[r][c] = told[r][c]
      BY <2>2, <1>8, <1>15
    <3> QED BY <2>2, <3>1, <3>2, <1>8 DEF Inv, Shape
  <2>3. ASSUME NEW c \in Dirs, current'[c] # 0
        PROVE  current'[c] < nextGen' /\ tasks'[current'[c]].dir = c
    <3>1. CASE c = d
      BY <3>1, <1>1, <1>4, <1>5, <1>11, <1>12
    <3>2. CASE c # d
      <4>1. /\ current'[c] = current[c] /\ current[c] # 0 /\ current[c] \in Nat
            /\ current[c] < nextGen /\ tasks'[current[c]] = tasks[current[c]]
        BY <2>3, <3>2, <1>13, <1>14, GensAreNat
      <4>2. tasks[current[c]].dir = c
        BY <4>1 DEF Inv, Shape
      <4>3. current[c] < nextGen + 1
        BY <4>1, <1>4
      <4> QED BY <4>1, <4>2, <4>3, <1>1
    <3> QED BY <3>1, <3>2
  <2> QED BY <2>1, <2>2, <2>3 DEF Shape
<1>17. InterestIsExpansion'
  <2> SUFFICES ASSUME NEW c \in Dirs, current'[c] # 0
               PROVE  LET t    == tasks'[current'[c]]
                          open == {r \in Attached' : c \in expanded'[r]}
                      IN  /\ t.interested \subseteq open
                          /\ c \in present' => t.interested = open
                          /\ t.cancelled <=> (t.interested = {})
    BY DEF InterestIsExpansion
  <2>0. Attached' = Attached
    BY <1>8 DEF Attached
  <2>1. CASE c = d
    <3>1. tasks'[current'[c]] = new
      BY <2>1, <1>11, <1>12
    <3>2. {r \in Attached' : c \in expanded'[r]} = P
      BY <2>0, <2>1, <1>8
    <3> HIDE DEF new, P
    <3> QED BY <3>1, <3>2, <1>3, <1>5
  <2>2. CASE c # d
    <3>1. {r \in Attached' : c \in expanded'[r]} = {r \in Attached : c \in expanded[r]}
      <4>1. \A r \in Sessions : c \in expanded'[r] <=> c \in expanded[r]
        BY <2>2, <1>8, AddedSets
      <4> QED BY <2>0, <4>1 DEF Attached
    <3>2. current[c] # 0 /\ tasks'[current'[c]] = tasks[current[c]]
      BY <2>2, <1>13, <1>14
    <3> QED BY <3>1, <3>2 DEF Inv, InterestIsExpansion
  <2> QED BY <2>1, <2>2
<1>18. LoadingIsOwed'
  <2> SUFFICES ASSUME NEW r \in Sessions, NEW c \in Dirs, port'[r] = "open",
                      told'[r][c].state = "loading"
               PROVE  /\ told'[r][c].gen \in Gens
                      /\ current'[c] = told'[r][c].gen
                      /\ ~tasks'[current'[c]].cancelled
                      /\ r \in tasks'[current'[c]].interested
    BY DEF LoadingIsOwed
  <2>1. CASE c = d /\ r \in P
    <3>1. told'[r][c] = f
      BY <2>1, <1>8, <1>15
    <3> HIDE DEF f, new
    <3> QED BY <2>1, <3>1, <1>4, <1>5, <1>9, <1>11, <1>12
  <2>2. CASE ~(c = d /\ r \in P)
    <3>1. told'[r][c] = told[r][c] /\ port[r] = "open"
      BY <2>2, <1>8, <1>15
    <3>2. /\ told[r][c].gen \in Gens /\ current[c] = told[r][c].gen
          /\ ~tasks[current[c]].cancelled /\ r \in tasks[current[c]].interested
      BY <3>1 DEF Inv, LoadingIsOwed
    <3>3. c # d
      BY <3>2, GensAreNat
    <3> QED BY <3>1, <3>2, <3>3, <1>13, GensAreNat
  <2> QED BY <2>1, <2>2
<1> QED BY <1>1, <1>4, <1>6, <1>7, <1>8, <1>10, <1>11, <1>16, <1>17, <1>18 DEF Core

\* A step that changes who waits for one mapped task, of directory d, and what
\* session s was told about d; s alone opened or closed d.
LEMMA OneTaskInv ==
  ASSUME Inv, NEW s \in Sessions, NEW d \in Dirs, port[s] = "open",
         NEW n \in Tasks, current[d] # 0, n.dir = d,
         tasks' = [tasks EXCEPT ![current[d]] = n],
         expanded' \in [Sessions -> SUBSET Dirs],
         \A r \in Sessions, c \in Dirs :
           c # d \/ r # s => (c \in expanded'[r] <=> c \in expanded[r]),
         port' = port, current' = current, nextGen' = nextGen, present' = present,
         \A r \in Sessions, c \in Dirs : r # s \/ c # d => told'[r][c] = told[r][c],
         told'[s][d].state = "loading" =>
           told'[s][d].gen = current[d] /\ s \in n.interested,
         \A r \in n.interested : r \in Attached /\ d \in expanded'[r],
         d \in present => \A r \in Attached : d \in expanded'[r] => r \in n.interested,
         n.cancelled <=> (n.interested = {}),
         tasks[current[d]].interested \subseteq n.interested \cup {s}
  PROVE  Core' /\ tasks' \in [Gens -> Tasks]
<1> DEFINE g == current[d]
<1>1. g \in Gens
  BY DEF Inv, TypeOK, Gens
<1>4. tasks' \in [Gens -> Tasks] /\ tasks'[g] = n
  BY <1>1 DEF Inv, TypeOK
<1>5. \A c \in Dirs : c # d /\ current[c] # 0 =>
        /\ current[c] \in Gens /\ tasks'[current[c]] = tasks[current[c]]
  <2> SUFFICES ASSUME NEW c \in Dirs, c # d, current[c] # 0
               PROVE  current[c] \in Gens /\ tasks'[current[c]] = tasks[current[c]]
    OBVIOUS
  <2>1. current[c] \in Gens
    BY DEF Inv, TypeOK, Gens
  <2>2. current[c] # g
    BY DEF Inv, Shape
  <2> QED BY <2>1, <2>2 DEF Inv, TypeOK
<1>6. Shape'
  <2>1. \A r \in Sessions : port'[r] # "dead"
    BY DEF Inv, Shape
  <2>2. ASSUME NEW r \in Sessions, port'[r] # "open"
        PROVE  expanded'[r] = {} /\ \A c \in Dirs : told'[r][c].state # "loading"
    <3>1. r # s
      BY <2>2
    <3>2. expanded'[r] = expanded[r]
      BY <3>1 DEF Inv, TypeOK
    <3> QED BY <2>2, <3>1, <3>2 DEF Inv, Shape
  <2>3. ASSUME NEW c \in Dirs, current'[c] # 0
        PROVE  current'[c] < nextGen' /\ tasks'[current'[c]].dir = c
    <3>1. CASE c = d
      BY <2>3, <3>1, <1>4 DEF Inv, Shape
    <3>2. CASE c # d
      BY <2>3, <3>2, <1>5 DEF Inv, Shape
    <3> QED BY <3>1, <3>2
  <2> QED BY <2>1, <2>2, <2>3 DEF Shape
<1>7. InterestIsExpansion'
  <2> SUFFICES ASSUME NEW c \in Dirs, current'[c] # 0
               PROVE  LET t    == tasks'[current'[c]]
                          open == {r \in Attached' : c \in expanded'[r]}
                      IN  /\ t.interested \subseteq open
                          /\ c \in present' => t.interested = open
                          /\ t.cancelled <=> (t.interested = {})
    BY DEF InterestIsExpansion
  <2>0. Attached' = Attached
    BY DEF Attached
  <2>1. CASE c = d
    BY <2>0, <2>1, <1>4
  <2>2. CASE c # d
    <3>1. {r \in Attached' : c \in expanded'[r]} = {r \in Attached : c \in expanded[r]}
      BY <2>0, <2>2 DEF Attached
    <3>2. current[c] # 0 /\ tasks'[current'[c]] = tasks[current[c]]
      BY <2>2, <1>5
    <3>3. InterestIsExpansion
      BY DEF Inv
    <3>4. LET t    == tasks[current[c]]
              open == {r \in Attached : c \in expanded[r]}
          IN  /\ t.interested \subseteq open
              /\ c \in present => t.interested = open
              /\ t.cancelled <=> (t.interested = {})
      BY <3>2, <3>3, Zenon DEF InterestIsExpansion
    <3> QED BY <3>1, <3>2, <3>4
  <2> QED BY <2>1, <2>2
<1>8. LoadingIsOwed'
  <2> SUFFICES ASSUME NEW r \in Sessions, NEW c \in Dirs, port'[r] = "open",
                      told'[r][c].state = "loading"
               PROVE  /\ told'[r][c].gen \in Gens
                      /\ current'[c] = told'[r][c].gen
                      /\ ~tasks'[current'[c]].cancelled
                      /\ r \in tasks'[current'[c]].interested
    BY DEF LoadingIsOwed
  <2>1. CASE c = d /\ r = s
    BY <2>1, <1>1, <1>4
  <2>2. CASE c = d /\ r # s
    <3>1. told'[r][c] = told[r][c]
      BY <2>2
    <3>2. /\ told[r][c].gen = g /\ ~tasks[g].cancelled /\ r \in tasks[g].interested
      BY <2>2, <3>1 DEF Inv, LoadingIsOwed
    <3>3. r \in n.interested
      BY <2>2, <3>2
    <3> QED BY <2>2, <3>1, <3>2, <3>3, <1>1, <1>4
  <2>3. CASE c # d
    <3>1. told'[r][c] = told[r][c]
      BY <2>3
    <3>2. /\ told[r][c].gen \in Gens /\ current[c] = told[r][c].gen
          /\ ~tasks[current[c]].cancelled /\ r \in tasks[current[c]].interested
      BY <3>1 DEF Inv, LoadingIsOwed
    <3>3. tasks'[current[c]] = tasks[current[c]]
      BY <2>3, <3>2, <1>5, GensAreNat
    <3> QED BY <3>1, <3>2, <3>3
  <2> QED BY <2>1, <2>2, <2>3
<1> QED BY <1>4, <1>6, <1>7, <1>8 DEF Core

\* A request that touches no task: d has none, or is gone from the snapshot.
LEMMA NoTaskInv ==
  ASSUME Inv, NEW s \in Sessions, NEW d \in Dirs, port[s] = "open",
         tasks' = tasks, current' = current, nextGen' = nextGen,
         port' = port, present' = present,
         expanded' \in [Sessions -> SUBSET Dirs],
         \A r \in Sessions, c \in Dirs :
           c # d \/ r # s => (c \in expanded'[r] <=> c \in expanded[r]),
         current[d] # 0 => d \notin present /\ d \in expanded'[s],
         \A r \in Sessions, c \in Dirs :
           told'[r][c] = told[r][c] \/ told'[r][c].state # "loading"
  PROVE  Core'
<1>1. Shape'
  <2>1. ASSUME NEW r \in Sessions, port[r] # "open" PROVE expanded'[r] = expanded[r]
    BY <2>1 DEF Inv, TypeOK
  <2> QED BY <2>1 DEF Inv, Shape
<1>2. InterestIsExpansion'
  <2> SUFFICES ASSUME NEW c \in Dirs, current[c] # 0
               PROVE  LET t    == tasks[current[c]]
                          open == {r \in Attached : c \in expanded'[r]}
                      IN  /\ t.interested \subseteq open
                          /\ c \in present => t.interested = open
                          /\ t.cancelled <=> (t.interested = {})
    BY DEF InterestIsExpansion, Attached
  <2>1. InterestIsExpansion
    BY DEF Inv
  <2>2. LET t    == tasks[current[c]]
            open == {r \in Attached : c \in expanded[r]}
        IN  /\ t.interested \subseteq open
            /\ c \in present => t.interested = open
            /\ t.cancelled <=> (t.interested = {})
    BY <2>1, Zenon DEF InterestIsExpansion
  <2>3. CASE c # d
    <3>1. {r \in Attached : c \in expanded'[r]} = {r \in Attached : c \in expanded[r]}
      BY <2>3 DEF Attached
    <3> QED BY <3>1, <2>2
  <2>4. CASE c = d
    <3>1. {r \in Attached : c \in expanded[r]} \subseteq {r \in Attached : c \in expanded'[r]}
      BY <2>4 DEF Attached
    <3> QED BY <3>1, <2>2, <2>4
  <2> QED BY <2>3, <2>4
<1>3. LoadingIsOwed'
  BY DEF Inv, LoadingIsOwed
<1> QED BY <1>1, <1>2, <1>3 DEF Core

\* Handling a setExpanded request, add or remove, preserves the invariant.
LEMMA HandleInv ==
  ASSUME Inv, NEW s \in Sessions, HandleSetExpanded(s)
  PROVE  Inv'
<1> DEFINE r == Head(toHost[s])
           d == r.dir
           Ops == [op : {"add", "remove"}, dir : Dirs]
<1>1. /\ port[s] = "open" /\ toHost[s] # <<>> /\ toHost[s] \in Seq(Ops)
      /\ toHost' = [toHost EXCEPT ![s] = Tail(@)]
      /\ present' = present /\ loaded' = loaded /\ forked' = forked /\ mirror' = mirror
      /\ requests' = requests /\ resyncs' = resyncs
      /\ IF r.op = "add" THEN HandleAdd(s, r.dir) ELSE HandleRemove(s, r.dir)
  BY DEF HandleSetExpanded, Inv, TypeOK
<1>2. r \in Ops /\ Tail(toHost[s]) \in Seq(Ops)
  <2> HIDE DEF Ops
  <2> QED BY <1>1
<1>3. d \in Dirs
  BY <1>2
<1>4. toHost' \in [Sessions -> Seq(Ops)]
  BY <1>1, <1>2 DEF Inv, TypeOK
<1> HIDE DEF r, d
<1>5. SUFFICES
        /\ Core' /\ port' = port /\ expanded' \in [Sessions -> SUBSET Dirs]
        /\ unsent' \subseteq Dirs
        /\ tasks' \in [Gens -> Tasks] /\ current' \in [Dirs -> 0..MaxGen]
        /\ nextGen' \in 1..(MaxGen + 1)
        /\ told' \in [Sessions -> [Dirs -> Frames]]
        /\ toClient' \in [Sessions -> [Dirs -> Seq(Frames)]]
  BY <1>1, <1>4 DEF Inv, Core, TypeOK
<1>6. /\ Added(s, d) \in [Sessions -> SUBSET Dirs]
      /\ \A q \in Sessions, c \in Dirs :
           c # d \/ q # s => (c \in Added(s, d)[q] <=> c \in expanded[q])
      /\ d \in Added(s, d)[s]
  BY <1>1, <1>3, AddedSets
<1>7. ASSUME d \notin present, expanded' = Added(s, d),
             Post({}, {<<s, d>>}, [state |-> "error", gen |-> 0]),
             UNCHANGED <<port, current, tasks, nextGen, unsent>>
      PROVE  /\ Core' /\ told' \in [Sessions -> [Dirs -> Frames]]
             /\ toClient' \in [Sessions -> [Dirs -> Seq(Frames)]]
  <2> DEFINE f == [state |-> "error", gen |-> 0]
  <2>1. f \in Frames /\ f.state # "loading"
    BY DEF Frames, States
  <2> HIDE DEF f
  <2>2. Post({}, {<<s, d>>}, f)
    BY <1>7 DEF f
  <2>3. \A q \in Sessions, c \in Dirs :
          told'[q][c] = told[q][c] \/ told'[q][c].state # "loading"
    BY <1>1, <1>3, <2>1, <2>2 DEF Post
  <2>4. Core'
    BY <1>1, <1>3, <1>6, <1>7, <2>3, NoTaskInv
  <2> QED BY <2>1, <2>2, <2>4, PostTypes DEF Inv
<1>8. ASSUME CompleteDirectoryLoads({d}, Added(s, d))
      PROVE  /\ Core' /\ port' = port /\ expanded' = Added(s, d) /\ unsent' = {}
             /\ tasks' \in [Gens -> Tasks] /\ current' \in [Dirs -> 0..MaxGen]
             /\ nextGen' \in 1..(MaxGen + 1)
             /\ told' \in [Sessions -> [Dirs -> Frames]]
             /\ toClient' \in [Sessions -> [Dirs -> Seq(Frames)]]
  <2> DEFINE C == {d}
             E == Added(s, d)
  <2>1. C \in SUBSET Dirs /\ E \in [Sessions -> SUBSET Dirs]
    BY <1>3, <1>6
  <2>2. \A q \in Sessions : /\ expanded[q] \subseteq E[q]
                            /\ E[q] \subseteq expanded[q] \cup C
                            /\ port[q] # "open" => E[q] = {}
    BY <1>1, <1>3, AddedSets
  <2>3. CompleteDirectoryLoads(C, E)
    BY <1>8
  <2> HIDE DEF C, E
  <2>4. present' \subseteq present
    BY <1>1
  <2>5. Core' /\ port' = port /\ expanded' = E /\ unsent' = {}
         /\ tasks' \in [Gens -> Tasks] /\ current' \in [Dirs -> 0..MaxGen]
         /\ nextGen' \in 1..(MaxGen + 1)
         /\ told' \in [Sessions -> [Dirs -> Frames]]
         /\ toClient' \in [Sessions -> [Dirs -> Seq(Frames)]]
    BY <2>1, <2>2, <2>3, <2>4, CompleteInv
  <2> QED BY <2>5 DEF E
<1>9. ASSUME d \in present, current[d] # 0, ~tasks[current[d]].cancelled,
             JoinLoad(s, d, Added(s, d))
      PROVE  /\ Core' /\ port' = port /\ expanded' = Added(s, d) /\ unsent' = unsent
             /\ tasks' \in [Gens -> Tasks] /\ current' = current
             /\ nextGen' = nextGen
             /\ told' \in [Sessions -> [Dirs -> Frames]]
             /\ toClient' \in [Sessions -> [Dirs -> Seq(Frames)]]
  <2> DEFINE g == current[d]
             f == [state |-> "loading", gen |-> g]
             n == [tasks[g] EXCEPT !.interested = @ \cup {s}]
  <2>1. g \in Gens /\ tasks[g] \in Tasks /\ g \in Nat
    BY <1>3, <1>9, GensAreNat DEF Inv, TypeOK, Gens
  <2>2. tasks' = [tasks EXCEPT ![g] = n]
    BY <1>9 DEF JoinLoad
  <2>3. /\ n \in Tasks /\ n.dir = tasks[g].dir /\ n.cancelled = tasks[g].cancelled
        /\ n.interested = tasks[g].interested \cup {s}
    BY <2>1 DEF Tasks
  <2>4. n.dir = d
    BY <1>3, <1>9, <2>3 DEF Inv, Shape
  <2>6. f \in Frames /\ f.gen = g
    BY <2>1 DEF Frames, States
  <2>7. /\ Post({}, {<<s, d>>}, f) /\ expanded' = Added(s, d)
        /\ UNCHANGED <<port, current, nextGen, unsent>>
    BY <1>9 DEF JoinLoad
  <2> HIDE DEF f
  <2>8. \A q \in Sessions, c \in Dirs :
          told'[q][c] = IF q = s /\ c = d THEN f ELSE told[q][c]
    BY <1>1, <1>3, <2>7 DEF Post
  <2>9. tasks[g].interested = {q \in Attached : d \in expanded[q]}
    <3>1. InterestIsExpansion
      BY DEF Inv
    <3> QED BY <1>3, <1>9, <3>1 DEF InterestIsExpansion
  <2>10. /\ \A q \in n.interested : q \in Attached /\ d \in expanded'[q]
         /\ \A q \in Attached : d \in expanded'[q] => q \in n.interested
    <3>1. s \in Attached /\ Attached \subseteq Sessions
      BY <1>1 DEF Attached
    <3> QED BY <1>3, <1>6, <2>3, <2>7, <2>9, <3>1
  <2>12. told'[s][d].state = "loading" => told'[s][d].gen = current[d]
    BY <1>3, <2>6, <2>8
  <2>13. expanded' \in [Sessions -> SUBSET Dirs]
    BY <1>6, <2>7
  <2>14. \A q \in Sessions, c \in Dirs :
           c # d \/ q # s => (c \in expanded'[q] <=> c \in expanded[q])
    BY <1>6, <2>7
  <2>15. \A q \in Sessions, c \in Dirs : q # s \/ c # d => told'[q][c] = told[q][c]
    BY <2>8
  <2>16. Core' /\ tasks' \in [Gens -> Tasks]
    <3> HIDE DEF n
    <3>1. n.cancelled <=> (n.interested = {})
      BY <1>9, <2>3
    <3>2. tasks[g].interested \subseteq n.interested \cup {s} /\ s \in n.interested
      BY <2>3
    <3>3. told'[s][d].state = "loading" =>
            told'[s][d].gen = current[d] /\ s \in n.interested
      BY <2>12, <3>2
    <3>4. /\ current[d] # 0 /\ port[s] = "open" /\ Inv /\ present' = present
          /\ port' = port /\ current' = current /\ nextGen' = nextGen
      BY <1>1, <1>9, <2>7
    <3>5. /\ tasks' = [tasks EXCEPT ![current[d]] = n]
          /\ tasks[current[d]].interested \subseteq n.interested \cup {s}
      BY <2>2, <3>2
    <3>6. n \in Tasks /\ n.dir = d
      BY <2>3, <2>4
    <3> QED BY <1>3, <2>10, <2>13, <2>14, <2>15, <3>1, <3>3, <3>4, <3>5, <3>6,
               OneTaskInv, ZenonT(60)
  <2> QED BY <2>6, <2>7, <2>16, PostTypes DEF Inv
<1>10. ASSUME HandleRemove(s, d), current[d] # 0
       PROVE  /\ Core' /\ port' = port /\ expanded' \in [Sessions -> SUBSET Dirs]
              /\ unsent' = unsent /\ tasks' \in [Gens -> Tasks]
              /\ current' = current /\ nextGen' = nextGen
              /\ told' \in [Sessions -> [Dirs -> Frames]]
              /\ toClient' \in [Sessions -> [Dirs -> Seq(Frames)]]
  <2> DEFINE g == current[d]
             f == [state |-> "cancelled", gen |-> g]
             I == tasks[g].interested \ {s}
             n == [tasks[g] EXCEPT !.interested = I,
                                   !.cancelled = tasks[g].cancelled \/ (I = {})]
  <2>1. g \in Gens /\ tasks[g] \in Tasks /\ g \in Nat
    BY <1>3, <1>10, GensAreNat DEF Inv, TypeOK, Gens
  <2>2. tasks' = [tasks EXCEPT ![g] = n]
    BY <1>10, <2>1 DEF HandleRemove, Inv, TypeOK, Tasks
  <2>3. /\ Post({}, {<<s, d>>}, f)
        /\ expanded' = [expanded EXCEPT ![s] = @ \ {d}]
        /\ UNCHANGED <<port, current, nextGen, unsent>>
    BY <1>10 DEF HandleRemove
  <2>4. I \in SUBSET Sessions /\ tasks[g].interested \subseteq I \cup {s}
    BY <2>1 DEF Tasks
  <2>5. /\ n \in Tasks /\ n.dir = d /\ n.interested = I
        /\ n.cancelled <=> (tasks[g].cancelled \/ (I = {}))
    <3>1. (tasks[g].cancelled \/ (I = {})) \in BOOLEAN
      BY Zenon
    <3>2. n \in Tasks
      BY <2>1, <2>4, <3>1, TaskChanges
    <3>3. tasks[g].dir = d
      BY <1>3, <1>10 DEF Inv, Shape
    <3> QED BY <2>1, <3>2, <3>3 DEF Tasks
  <2>6. f \in Frames /\ f.state # "loading"
    BY <2>1 DEF Frames, States
  <2> HIDE DEF f
  <2>7. \A q \in Sessions, c \in Dirs :
          told'[q][c] = IF q = s /\ c = d THEN f ELSE told[q][c]
    BY <1>1, <1>3, <2>3 DEF Post
  <2>8. /\ expanded' \in [Sessions -> SUBSET Dirs]
        /\ \A q \in Sessions, c \in Dirs :
             c # d \/ q # s => (c \in expanded'[q] <=> c \in expanded[q])
        /\ d \notin expanded'[s]
    BY <1>3, <2>3 DEF Inv, TypeOK
  <2>9. LET t    == tasks[g]
            open == {q \in Attached : d \in expanded[q]}
        IN  /\ t.interested \subseteq open
            /\ d \in present => t.interested = open
            /\ t.cancelled <=> (t.interested = {})
    <3>1. InterestIsExpansion
      BY DEF Inv
    <3> QED BY <1>3, <1>10, <3>1, Zenon DEF InterestIsExpansion
  <2>10. /\ I \subseteq {q \in Attached : d \in expanded'[q]}
         /\ d \in present => I = {q \in Attached : d \in expanded'[q]}
    <3>1. {q \in Attached : d \in expanded'[q]} = {q \in Attached : d \in expanded[q]} \ {s}
      BY <1>3, <2>8 DEF Attached
    <3> QED BY <2>9, <3>1
  <2>11. n.cancelled <=> (n.interested = {})
    BY <2>5, <2>9
  <2>12. /\ \A q \in Sessions, c \in Dirs : q # s \/ c # d => told'[q][c] = told[q][c]
         /\ told'[s][d].state # "loading"
    BY <1>3, <2>6, <2>7
  <2> HIDE DEF I, n
  <2>13. tasks[g].interested \subseteq n.interested \cup {s}
    BY <2>4, <2>5
  <2>14. /\ \A q \in n.interested : q \in Attached /\ d \in expanded'[q]
         /\ d \in present => \A q \in Attached : d \in expanded'[q] => q \in n.interested
    BY <2>5, <2>10
  <2>15. /\ port' = port /\ current' = current /\ nextGen' = nextGen
         /\ present' = present /\ n \in Tasks /\ n.dir = d
    BY <1>1, <2>3, <2>5
  <2>16. Core' /\ tasks' \in [Gens -> Tasks]
    <3>1. told'[s][d].state = "loading" =>
            told'[s][d].gen = current[d] /\ s \in n.interested
      BY <2>12
    <3>2. tasks' = [tasks EXCEPT ![current[d]] = n]
      BY <2>2
    <3>3. tasks[current[d]].interested \subseteq n.interested \cup {s}
      BY <2>13
    <3>4. current[d] # 0 /\ port[s] = "open" /\ Inv
      BY <1>1, <1>10
    <3> HIDE DEF g
    <3> QED BY <1>3, <2>8, <2>11, <2>12, <2>14, <2>15, <3>1, <3>2, <3>3, <3>4,
               OneTaskInv, ZenonT(60)
  <2> QED BY <2>3, <2>6, <2>8, <2>16, PostTypes DEF Inv
<1>11. ASSUME HandleRemove(s, d), current[d] = 0
       PROVE  /\ Core' /\ expanded' \in [Sessions -> SUBSET Dirs]
              /\ UNCHANGED <<port, current, nextGen, tasks, unsent, told, toClient>>
  <2>1. /\ expanded' = [expanded EXCEPT ![s] = @ \ {d}]
        /\ UNCHANGED <<port, current, nextGen, tasks, unsent, told, toClient>>
    BY <1>11 DEF HandleRemove
  <2>2. /\ expanded' \in [Sessions -> SUBSET Dirs]
        /\ \A q \in Sessions, c \in Dirs :
             c # d \/ q # s => (c \in expanded'[q] <=> c \in expanded[q])
    BY <1>3, <2>1 DEF Inv, TypeOK
  <2>3. Core'
    BY <1>1, <1>3, <1>11, <2>1, <2>2, NoTaskInv
  <2> QED BY <2>1, <2>2, <2>3
<1>12. unsent \subseteq Dirs /\ current \in [Dirs -> 0..MaxGen]
       /\ nextGen \in 1..(MaxGen + 1) /\ tasks \in [Gens -> Tasks]
       /\ told \in [Sessions -> [Dirs -> Frames]]
       /\ toClient \in [Sessions -> [Dirs -> Seq(Frames)]]
  BY DEF Inv, TypeOK
<1>13. CASE r.op = "add"
  <2>1. HandleAdd(s, d)
    BY <1>1, <1>13 DEF d
  <2>2. CASE /\ d \notin present /\ expanded' = Added(s, d)
             /\ Post({}, {<<s, d>>}, [state |-> "error", gen |-> 0])
             /\ UNCHANGED <<port, current, tasks, nextGen, unsent>>
    BY <2>2, <1>6, <1>7, <1>12
  <2>3. CASE CompleteDirectoryLoads({d}, Added(s, d))
    BY <2>3, <1>6, <1>8
  <2>4. CASE /\ d \in present /\ current[d] # 0 /\ ~tasks[current[d]].cancelled
             /\ JoinLoad(s, d, Added(s, d))
    BY <2>4, <1>6, <1>9, <1>12
  <2>5. CASE /\ ~(current[d] # 0 /\ ~tasks[current[d]].cancelled)
             /\ StartLoad(d, Added(s, d))
    <3>1. current[d] = 0 \/ tasks[current[d]].cancelled
      BY <2>5
    <3> QED BY <2>5, <3>1, <1>1, <1>3, <1>6, <1>12, StartInv
  <2> QED BY <2>1, <2>2, <2>3, <2>4, <2>5 DEF HandleAdd, Added
<1>14. CASE r.op # "add"
  <2>1. HandleRemove(s, d)
    BY <1>1, <1>14 DEF d
  <2> QED BY <2>1, <1>10, <1>11, <1>12
<1> QED BY <1>13, <1>14

-----------------------------------------------------------------------------
(* Sessions, ticks and tasks. *)

\* A tick, on its own or inside a flush, that may also move a task's phase.
LEMMA TickInv ==
  ASSUME Inv, NEW T \in [Gens -> Tasks],
         \A g \in Gens : /\ T[g].dir = tasks[g].dir
                         /\ T[g].interested = tasks[g].interested
                         /\ T[g].cancelled = tasks[g].cancelled,
         Post(unsent, {}, NoFrame),
         tasks' = Release(T, current, Failing(unsent, {})),
         Detach(Failing(unsent, {}), expanded),
         current' = current, nextGen' = nextGen, present' = present
  PROVE  /\ Core' /\ port' = port /\ expanded' = expanded /\ tasks' = T
         /\ told' \in [Sessions -> [Dirs -> Frames]]
         /\ toClient' \in [Sessions -> [Dirs -> Seq(Frames)]]
<1>1. Failing(unsent, {}) = {}
  BY NobodyFails DEF Inv
<1>2. tasks' = T
  <2>1. tasks' = Release(T, current, {})
    BY <1>1
  <2> QED BY <2>1, ReleaseNobody
<1>3. port' = port /\ expanded' = expanded
  <2>1. Detach({}, expanded)
    BY <1>1
  <2>2. expanded \in [Sessions -> SUBSET Dirs]
    BY DEF Inv, TypeOK
  <2> QED BY <2>1, <2>2, DetachNobody DEF Inv
<1>4. /\ told' \in [Sessions -> [Dirs -> Frames]]
      /\ toClient' \in [Sessions -> [Dirs -> Seq(Frames)]]
  <2>1. NoFrame \in Frames
    BY DEF NoFrame, Frames, States
  <2> QED BY <2>1, PostTypes DEF Inv
<1>5. \A s \in Sessions, d \in Dirs :
        told'[s][d] = told[s][d] \/ told'[s][d].state # "loading"
  BY DEF Post, Removed
<1>6. Core'
  BY <1>2, <1>3, <1>5, SameTasks
<1> QED BY <1>2, <1>3, <1>4, <1>6

\* Attaching a session.
LEMMA AttachInv ==
  ASSUME Inv, NEW s \in Sessions, Attach(s)
  PROVE  Inv'
<1>1. /\ port[s] = "unattached" /\ port' = [port EXCEPT ![s] = "open"]
      /\ UNCHANGED <<expanded, present, loaded, forked, unsent, current, tasks, nextGen,
                     told, toClient, toHost, mirror, requests, resyncs>>
  BY DEF Attach, nativeVars, clientVars
<1>2. TypeOK'
  BY <1>1 DEF Inv, TypeOK, Ports
<1>3. /\ port'[s] = "open" /\ \A r \in Sessions : r # s => port'[r] = port[r]
      /\ expanded[s] = {} /\ \A d \in Dirs : told[s][d].state # "loading"
  BY <1>1 DEF Inv, TypeOK, Shape
<1>4. Shape'
  BY <1>1, <1>3 DEF Inv, Shape
<1>5. \A d \in Dirs : {r \in Attached' : d \in expanded'[r]}
                        = {r \in Attached : d \in expanded[r]}
  BY <1>1, <1>3 DEF Attached
<1>6. InterestIsExpansion'
  BY <1>1, <1>5 DEF Inv, InterestIsExpansion
<1>7. LoadingIsOwed'
  BY <1>1, <1>3 DEF Inv, LoadingIsOwed
<1> QED BY <1>2, <1>4, <1>6, <1>7 DEF Inv

\* Detaching a session: its tasks lose it, and one left with nobody is
\* cancelled.
LEMMA DetachInv ==
  ASSUME Inv, NEW s \in Sessions, DetachSession(s)
  PROVE  Inv'
<1> DEFINE gone(g) == current[tasks[g].dir] = g /\ tasks[g].dir \in expanded[s]
           I(g)    == tasks[g].interested \ {s}
           n(g)    == [tasks[g] EXCEPT !.interested = I(g),
                                       !.cancelled = tasks[g].cancelled \/ (I(g) = {})]
<1>1. /\ s \in Attached /\ Detach({s}, expanded)
      /\ tasks' = Release(tasks, current, {s}) /\ DropWire(s)
      /\ UNCHANGED <<present, loaded, forked, unsent, current, nextGen, requests, resyncs>>
  BY DEF DetachSession, nativeVars
<1>2. tasks' = [g \in Gens |-> IF gone(g) THEN n(g) ELSE tasks[g]]
  BY <1>1 DEF Release
<1>3. ASSUME NEW g \in Gens
      PROVE  /\ n(g) \in Tasks /\ tasks[g] \in Tasks /\ n(g).dir = tasks[g].dir
             /\ n(g).interested = I(g)
             /\ n(g).cancelled <=> (tasks[g].cancelled \/ (I(g) = {}))
  <2>1. tasks[g] \in Tasks
    BY DEF Inv, TypeOK
  <2>2. I(g) \in SUBSET Sessions
    BY <2>1 DEF Tasks
  <2>3. (tasks[g].cancelled \/ (I(g) = {})) \in BOOLEAN
    BY Zenon
  <2>4. n(g) \in Tasks
    BY <2>1, <2>2, <2>3, TaskChanges
  <2> QED BY <2>1, <2>4 DEF Tasks
<1>4. tasks' \in [Gens -> Tasks]
  <2> HIDE DEF n, gone
  <2> QED BY <1>2, <1>3
<1>5. /\ port' = [r \in Sessions |-> IF r = s THEN "detached" ELSE port[r]]
      /\ expanded' = [r \in Sessions |-> IF r = s THEN {} ELSE expanded[r]]
  BY <1>1 DEF Detach
<1>6. /\ toHost' = [toHost EXCEPT ![s] = <<>>]
      /\ toClient' = [toClient EXCEPT ![s] = [d \in Dirs |-> <<>>]]
      /\ told' = [told EXCEPT ![s] = [d \in Dirs |-> NoFrame]]
      /\ mirror' = [mirror EXCEPT ![s] = [d \in Dirs |-> NoRecord]]
  BY <1>1 DEF DropWire
<1>7. TypeOK'
  <2>1. NoFrame \in Frames /\ NoRecord \in Records
    BY DEF NoFrame, NoRecord, Frames, Records, States
  <2>2. port' \in [Sessions -> Ports] /\ expanded' \in [Sessions -> SUBSET Dirs]
    BY <1>5 DEF Inv, TypeOK, Ports
  <2>3. /\ toHost' \in [Sessions -> Seq([op : {"add", "remove"}, dir : Dirs])]
        /\ toClient' \in [Sessions -> [Dirs -> Seq(Frames)]]
        /\ told' \in [Sessions -> [Dirs -> Frames]]
        /\ mirror' \in [Sessions -> [Dirs -> Records]]
    <3>1. toHost' \in [Sessions -> Seq([op : {"add", "remove"}, dir : Dirs])]
      <4> DEFINE Ops == [op : {"add", "remove"}, dir : Dirs]
      <4>1. toHost \in [Sessions -> Seq(Ops)]
        BY DEF Inv, TypeOK
      <4> HIDE DEF Ops
      <4>2. toHost' \in [Sessions -> Seq(Ops)]
        BY <1>6, <4>1
      <4> QED BY <4>2 DEF Ops
    <3>2. [d \in Dirs |-> <<>>] \in [Dirs -> Seq(Frames)]
      OBVIOUS
    <3>3. toClient' \in [Sessions -> [Dirs -> Seq(Frames)]]
      BY <1>6, <3>2 DEF Inv, TypeOK
    <3>4. /\ told' \in [Sessions -> [Dirs -> Frames]]
          /\ mirror' \in [Sessions -> [Dirs -> Records]]
      BY <1>6, <2>1 DEF Inv, TypeOK
    <3> QED BY <3>1, <3>3, <3>4
  <2> QED BY <1>1, <1>4, <2>2, <2>3 DEF Inv, TypeOK
<1>8. \A r \in Sessions : /\ r # s => port'[r] = port[r] /\ expanded'[r] = expanded[r]
                          /\ port'[s] = "detached" /\ expanded'[s] = {}
  BY <1>5
<1>9. \A r \in Sessions, d \in Dirs :
        told'[r][d] = IF r = s THEN NoFrame ELSE told[r][d]
  BY <1>6 DEF Inv, TypeOK
<1>10. \A d \in Dirs : current[d] # 0 => current[d] \in Gens
  BY DEF Inv, TypeOK, Gens
<1>11. ASSUME NEW d \in Dirs, current[d] # 0
       PROVE  /\ tasks'[current[d]].dir = d
              /\ tasks'[current[d]].interested
                   = tasks[current[d]].interested \ {s}
              /\ tasks'[current[d]].cancelled
                   <=> (tasks'[current[d]].interested = {})
  <2> DEFINE g == current[d]
  <2>1. g \in Gens /\ tasks[g].dir = d
    BY <1>10, <1>11 DEF Inv, Shape
  <2>2. /\ tasks[g].interested \subseteq {r \in Attached : d \in expanded[r]}
        /\ tasks[g].cancelled <=> (tasks[g].interested = {})
    <3>1. InterestIsExpansion
      BY DEF Inv
    <3> QED BY <1>11, <3>1, Zenon DEF InterestIsExpansion
  <2>3. CASE d \in expanded[s]
    <3>1. tasks'[g] = n(g)
      <4>1. gone(g)
        BY <2>1, <2>3
      <4> HIDE DEF n, gone
      <4> QED BY <2>1, <4>1, <1>2
    <3> HIDE DEF n
    <3> QED BY <2>1, <2>2, <3>1, <1>3
  <2>4. CASE d \notin expanded[s]
    <3>1. tasks'[g] = tasks[g]
      <4>1. ~gone(g)
        BY <2>1, <2>4
      <4> HIDE DEF n, gone
      <4> QED BY <2>1, <4>1, <1>2
    <3>2. s \notin tasks[g].interested
      BY <2>2, <2>4
    <3> QED BY <2>1, <2>2, <3>1, <3>2
  <2> QED BY <2>3, <2>4
<1>12. Shape'
  <2>1. ASSUME NEW r \in Sessions
        PROVE  /\ port'[r] # "dead"
               /\ port'[r] # "open" =>
                    expanded'[r] = {} /\ \A d \in Dirs : told'[r][d].state # "loading"
    <3>1. CASE r = s
      BY <3>1, <1>8, <1>9 DEF NoFrame
    <3>2. CASE r # s
      BY <3>2, <1>8, <1>9 DEF Inv, Shape
    <3> QED BY <3>1, <3>2
  <2>2. ASSUME NEW d \in Dirs, current'[d] # 0
        PROVE  current'[d] < nextGen' /\ tasks'[current'[d]].dir = d
    BY <2>2, <1>1, <1>11 DEF Inv, Shape
  <2> QED BY <2>1, <2>2 DEF Shape
<1>13. InterestIsExpansion'
  <2> SUFFICES ASSUME NEW d \in Dirs, current[d] # 0
               PROVE  LET t    == tasks'[current[d]]
                          open == {r \in Attached' : d \in expanded'[r]}
                      IN  /\ t.interested \subseteq open
                          /\ d \in present => t.interested = open
                          /\ t.cancelled <=> (t.interested = {})
    BY <1>1 DEF InterestIsExpansion
  <2>1. {r \in Attached' : d \in expanded'[r]}
          = {r \in Attached : d \in expanded[r]} \ {s}
    BY <1>8 DEF Attached
  <2>2. LET open == {r \in Attached : d \in expanded[r]}
        IN  /\ tasks[current[d]].interested \subseteq open
            /\ d \in present => tasks[current[d]].interested = open
    <3>1. InterestIsExpansion
      BY DEF Inv
    <3> QED BY <3>1, Zenon DEF InterestIsExpansion
  <2> QED BY <2>1, <2>2, <1>11
<1>14. LoadingIsOwed'
  <2> SUFFICES ASSUME NEW r \in Sessions, NEW d \in Dirs, port'[r] = "open",
                      told'[r][d].state = "loading"
               PROVE  /\ told'[r][d].gen \in Gens
                      /\ current'[d] = told'[r][d].gen
                      /\ ~tasks'[current'[d]].cancelled
                      /\ r \in tasks'[current'[d]].interested
    BY DEF LoadingIsOwed
  <2>1. r # s /\ told'[r][d] = told[r][d] /\ port[r] = "open"
    BY <1>8, <1>9
  <2>2. /\ told[r][d].gen \in Gens /\ current[d] = told[r][d].gen
        /\ r \in tasks[current[d]].interested
    BY <2>1 DEF Inv, LoadingIsOwed
  <2>3. current[d] # 0 /\ current'[d] = current[d]
    BY <2>2, <1>1, GensAreNat
  <2>4. r \in tasks'[current[d]].interested
    BY <2>1, <2>2, <2>3, <1>11
  <2>5. ~tasks'[current[d]].cancelled
    BY <2>3, <2>4, <1>11
  <2> QED BY <2>1, <2>2, <2>3, <2>4, <2>5
<1> QED BY <1>7, <1>12, <1>13, <1>14 DEF Inv

\* The finally block, on a step that posts nothing: the task was cancelled, or
\* nobody waits for it, or another one has taken its slot.
LEMMA EndQuietInv ==
  ASSUME Inv, NEW g \in Gens, EndTask(g, tasks),
         tasks[g].cancelled \/ tasks[g].interested = {} \/ Superseded(g),
         port' = port, expanded' = expanded, told' = told, nextGen' = nextGen,
         present' = present
  PROVE  Core' /\ tasks' \in [Gens -> Tasks] /\ current' \in [Dirs -> 0..MaxGen]
<1>1. /\ tasks' = [tasks EXCEPT ![g] = NoTask]
      /\ current' = [d \in Dirs |-> IF current[d] = g THEN 0 ELSE current[d]]
  BY DEF EndTask
<1>2. ASSUME NEW s \in Sessions, NEW d \in Dirs, port[s] = "open", current[d] = g
      PROVE  told[s][d].state # "loading"
  <2>1. tasks[g].dir = d
    BY <1>2, GensAreNat DEF Inv, Shape
  <2>2. tasks[g].cancelled \/ tasks[g].interested = {}
    BY <1>2, <2>1 DEF Superseded
  <2> QED BY <1>2, <2>2 DEF Inv, LoadingIsOwed
<1>3. /\ \A s \in Sessions, d \in Dirs :
           told'[s][d] = told[s][d] \/ told'[s][d].state # "loading"
      /\ \A s \in Sessions, d \in Dirs :
           port[s] = "open" /\ current[d] = g => told'[s][d].state # "loading"
      /\ present' \subseteq present
  BY <1>2
<1> QED BY <1>1, <1>3, EndInv

\* A task goes on from position i of its chain.
LEMMA ContinueInv ==
  ASSUME Inv, NEW g \in Gens, NEW i \in Nat, NEW L, Continue(g, i, L),
         nextGen' = nextGen, present' = present
  PROVE  /\ Core' /\ port' = port /\ expanded' = expanded
         /\ unsent' \subseteq Dirs
         /\ tasks' \in [Gens -> Tasks] /\ current' \in [Dirs -> 0..MaxGen]
         /\ told' \in [Sessions -> [Dirs -> Frames]]
         /\ toClient' \in [Sessions -> [Dirs -> Seq(Frames)]]
<1> DEFINE t    == tasks[g]
           c    == Chain[t.dir]
           rest == Unlisted(t.dir, i, L, forked)
           loop == i > 0 => i < Len(c) /\ c[i + 1] \in present /\ c[i] \notin forked
           stop == \/ loop /\ (t.cancelled \/ t.interested = {})
                   \/ rest = {} /\ (t.cancelled \/ Superseded(g))
<1>1. \/ stop /\ EndTask(g, tasks) /\ Quiet
      \/ /\ ~stop /\ rest # {}
         /\ tasks' = [tasks EXCEPT ![g].phase = "reading", ![g].at = First(rest)]
         /\ Quiet /\ current' = current
      \/ FlushTickNow(g, "flush")
  BY DEF Continue
<1>2. /\ current \in [Dirs -> 0..MaxGen] /\ t \in Tasks /\ unsent \subseteq Dirs
      /\ told \in [Sessions -> [Dirs -> Frames]]
      /\ toClient \in [Sessions -> [Dirs -> Seq(Frames)]]
  BY DEF Inv, TypeOK
<1>3. CASE stop /\ EndTask(g, tasks) /\ Quiet
  <2>1. t.cancelled \/ t.interested = {} \/ Superseded(g)
    BY <1>3
  <2>2. UNCHANGED <<port, expanded, told, toClient, unsent>>
    BY <1>3 DEF Quiet
  <2> HIDE DEF stop
  <2> QED BY <1>2, <1>3, <2>1, <2>2, EndQuietInv
<1>4. CASE /\ ~stop /\ rest # {}
           /\ tasks' = [tasks EXCEPT ![g].phase = "reading", ![g].at = First(rest)]
           /\ Quiet /\ current' = current
  <2>1. Len(c) \in Nat
    BY <1>2, ChainAssumption DEF Tasks
  <2>2. rest \subseteq Nat
    BY <2>1 DEF Unlisted
  <2>3. First(rest) \in Nat
    <3> HIDE DEF rest
    <3> QED BY <1>4, <2>2, FirstIsLeast
  <2>4. [t EXCEPT !.phase = "reading", !.at = First(rest)] \in Tasks
    <3> HIDE DEF rest
    <3> QED BY <1>2, <2>3 DEF Tasks, Phases
  <2> DEFINE n == [t EXCEPT !.phase = "reading", !.at = First(rest)]
  <2>5. tasks' = [tasks EXCEPT ![g] = n]
    BY <1>4 DEF Inv, TypeOK
  <2>6. n \in Tasks /\ n.dir = t.dir /\ n.interested = t.interested
        /\ n.cancelled = t.cancelled
    <3> HIDE DEF rest
    <3> QED BY <1>2, <2>4 DEF Tasks
  <2> HIDE DEF n
  <2>7. tasks' \in [Gens -> Tasks]
    BY <2>5, <2>6 DEF Inv, TypeOK
  <2>8. \A h \in Gens : /\ tasks'[h].dir = tasks[h].dir
                        /\ tasks'[h].interested = tasks[h].interested
                        /\ tasks'[h].cancelled = tasks[h].cancelled
    BY <2>5, <2>6 DEF Inv, TypeOK
  <2>9. UNCHANGED <<port, expanded, told, toClient, unsent, current>>
    BY <1>4 DEF Quiet
  <2>10. Core'
    BY <2>8, <2>9, SameTasks
  <2> QED BY <1>2, <2>7, <2>9, <2>10
<1>5. CASE FlushTickNow(g, "flush")
  <2> DEFINE T == [tasks EXCEPT ![g].phase = "flush", ![g].forks = forked]
  <2>1. /\ Post(unsent, {}, NoFrame)
        /\ tasks' = Release(T, current, Failing(unsent, {}))
        /\ Detach(Failing(unsent, {}), expanded)
        /\ unsent' = {} /\ current' = current
    BY <1>5 DEF FlushTickNow
  <2>2. T \in [Gens -> Tasks]
    <3>1. tasks \in [Gens -> Tasks]
      BY DEF Inv, TypeOK
    <3>2. \A u \in Tasks : [u EXCEPT !.phase = "flush", !.forks = forked] \in Tasks
      BY DEF Tasks, Phases, Inv, TypeOK
    <3>3. T = [tasks EXCEPT ![g] = [tasks[g] EXCEPT !.phase = "flush", !.forks = forked]]
      BY <3>1
    <3> QED BY <3>1, <3>2, <3>3
  <2>3. \A h \in Gens : /\ T[h].dir = tasks[h].dir
                        /\ T[h].interested = tasks[h].interested
                        /\ T[h].cancelled = tasks[h].cancelled
    BY DEF Inv, TypeOK, Tasks
  <2> HIDE DEF T
  <2> QED BY <1>2, <2>1, <2>2, <2>3, TickInv
<1> HIDE DEF stop, rest
<1> QED BY <1>1, <1>3, <1>4, <1>5

\* The finally block after the final frame to the sessions of S, which are
\* all those the task has promised an end.
LEMMA EndPostInv ==
  ASSUME Inv, NEW g \in Gens, NEW S \in SUBSET Sessions, NEW f \in Frames,
         f.state # "loading",
         \A s \in tasks[g].interested :
           s \in Attached /\ tasks[g].dir \in expanded[s] => s \in S,
         Post({}, S \X {tasks[g].dir}, f),
         EndTask(g, Release(tasks, current, Failing({}, S))),
         Detach(Failing({}, S), expanded),
         nextGen' = nextGen, present' = present
  PROVE  /\ Core' /\ port' = port /\ expanded' = expanded
         /\ tasks' \in [Gens -> Tasks] /\ current' \in [Dirs -> 0..MaxGen]
         /\ told' \in [Sessions -> [Dirs -> Frames]]
         /\ toClient' \in [Sessions -> [Dirs -> Seq(Frames)]]
<1> DEFINE P == S \X {tasks[g].dir}
<1>1. Failing({}, S) = {}
  BY NobodyFails DEF Inv
<1>2. port' = port /\ expanded' = expanded
  <2>1. Detach({}, expanded)
    BY <1>1
  <2>2. expanded \in [Sessions -> SUBSET Dirs]
    BY DEF Inv, TypeOK
  <2> QED BY <2>1, <2>2, DetachNobody DEF Inv
<1>3. Release(tasks, current, Failing({}, S)) = tasks
  <2>1. tasks \in [Gens -> Tasks]
    BY DEF Inv, TypeOK
  <2> QED BY <1>1, <2>1, ReleaseNobody
<1>4. /\ tasks' = [tasks EXCEPT ![g] = NoTask]
      /\ current' = [d \in Dirs |-> IF current[d] = g THEN 0 ELSE current[d]]
  BY <1>3 DEF EndTask
<1>5. /\ told' \in [Sessions -> [Dirs -> Frames]]
      /\ toClient' \in [Sessions -> [Dirs -> Seq(Frames)]]
  <2> HIDE DEF P
  <2>1. Post({}, P, f)
    BY DEF P
  <2> QED BY <2>1, PostTypes DEF Inv
<1>6. ASSUME NEW s \in Sessions, NEW d \in Dirs
      PROVE  told'[s][d] = IF port[s] = "open" /\ s \in S /\ d = tasks[g].dir
                           THEN f ELSE told[s][d]
  BY DEF Post
<1>7. ASSUME NEW s \in Sessions, NEW d \in Dirs, port[s] = "open", current[d] = g,
             told'[s][d].state = "loading"
      PROVE  FALSE
  <2>1. tasks[g].dir = d /\ current[d] # 0
    BY <1>7, GensAreNat DEF Inv, Shape
  <2>2. s \notin S /\ told'[s][d] = told[s][d]
    BY <1>6, <1>7, <2>1
  <2>3. s \in tasks[g].interested
    BY <1>7, <2>2 DEF Inv, LoadingIsOwed
  <2>4. s \in Attached /\ d \in expanded[s]
    <3>1. InterestIsExpansion
      BY DEF Inv
    <3> QED BY <1>7, <2>1, <2>3, <3>1 DEF InterestIsExpansion
  <2> QED BY <2>1, <2>2, <2>3, <2>4
<1>8. /\ \A s \in Sessions, d \in Dirs :
           told'[s][d] = told[s][d] \/ told'[s][d].state # "loading"
      /\ \A s \in Sessions, d \in Dirs :
           port[s] = "open" /\ current[d] = g => told'[s][d].state # "loading"
      /\ present' \subseteq present
  BY <1>6, <1>7
<1>9. Core' /\ tasks' \in [Gens -> Tasks] /\ current' \in [Dirs -> 0..MaxGen]
  BY <1>2, <1>4, <1>8, EndInv
<1> QED BY <1>2, <1>5, <1>9

\* The steps of a load task.
LEMMA TaskInv ==
  ASSUME Inv, NEW g \in Gens,
         \/ RunDirectoryLoad(g)
         \/ ReadOk(g)
         \/ \E code \in {"ECANCELED", "EIO"} : ReadFails(g, code)
         \/ FinishOk(g)
         \/ FinishFailed(g)
  PROVE  Inv'
<1> DEFINE Good == /\ Core' /\ port' = port /\ expanded' = expanded
                   /\ unsent' \subseteq Dirs
                   /\ tasks' \in [Gens -> Tasks] /\ current' \in [Dirs -> 0..MaxGen]
                   /\ told' \in [Sessions -> [Dirs -> Frames]]
                   /\ toClient' \in [Sessions -> [Dirs -> Seq(Frames)]]
<1>1. /\ tasks[g] \in Tasks /\ unsent \subseteq Dirs
      /\ current \in [Dirs -> 0..MaxGen] /\ g \in Nat
      /\ told \in [Sessions -> [Dirs -> Frames]]
      /\ toClient \in [Sessions -> [Dirs -> Seq(Frames)]]
  BY GensAreNat DEF Inv, TypeOK
<1>2. ASSUME Good, nextGen' = nextGen, present' = present, loaded' \subseteq Dirs,
             forked' = forked, UNCHANGED clientVars
      PROVE  Inv'
  BY <1>2 DEF clientVars, Inv, Core, TypeOK
<1>3. CASE RunDirectoryLoad(g)
  <2>1. Continue(g, 0, loaded) /\ UNCHANGED <<nextGen, present, loaded, forked, clientVars>>
    BY <1>3 DEF RunDirectoryLoad
  <2>2. Good
    BY <2>1, ContinueInv
  <2>3. loaded' \subseteq Dirs
    BY <2>1 DEF Inv, TypeOK
  <2> HIDE DEF Good
  <2> QED BY <1>2, <2>1, <2>2, <2>3
<1>4. CASE ReadOk(g)
  <2> DEFINE d == Chain[tasks[g].dir][tasks[g].at]
  <2>1. /\ d \in present /\ loaded' = loaded \cup {d}
        /\ Continue(g, tasks[g].at, loaded \cup {d})
        /\ UNCHANGED <<nextGen, present, forked, clientVars>>
    BY <1>4 DEF ReadOk
  <2>2. tasks[g].at \in Nat
    BY <1>1 DEF Tasks
  <2>3. loaded' \subseteq Dirs
    BY <2>1 DEF Inv, TypeOK
  <2> HIDE DEF d
  <2>4. Good
    BY <2>1, <2>2, ContinueInv
  <2> HIDE DEF Good
  <2> QED BY <1>2, <2>1, <2>3, <2>4
<1>5. ASSUME NEW code \in {"ECANCELED", "EIO"}, ReadFails(g, code)
      PROVE  Inv'
  <2> DEFINE ph == IF tasks[g].cancelled \/ code = "ECANCELED"
                   THEN "cancel" ELSE "fail"
  <2>1. /\ IF Superseded(g) THEN EndTask(g, tasks) /\ Quiet
                            ELSE FlushTickNow(g, ph)
        /\ UNCHANGED <<nextGen, present, loaded, forked, clientVars>>
    BY <1>5 DEF ReadFails
  <2>2. ph \in Phases
    BY DEF Phases
  <2>3. loaded' \subseteq Dirs
    BY <2>1 DEF Inv, TypeOK
  <2> HIDE DEF ph
  <2>4. CASE Superseded(g) /\ EndTask(g, tasks) /\ Quiet
    <3>1. UNCHANGED <<port, expanded, told, toClient, unsent>>
      BY <2>4 DEF Quiet
    <3>2. Good
      BY <1>1, <2>1, <2>4, <3>1, EndQuietInv
    <3> HIDE DEF Good
    <3> QED BY <1>2, <2>1, <2>3, <3>2
  <2>5. CASE FlushTickNow(g, ph)
    <3> DEFINE T == [tasks EXCEPT ![g].phase = ph, ![g].forks = forked]
    <3>1. /\ Post(unsent, {}, NoFrame)
          /\ tasks' = Release(T, current, Failing(unsent, {}))
          /\ Detach(Failing(unsent, {}), expanded)
          /\ unsent' = {} /\ current' = current
      BY <2>5 DEF FlushTickNow
    <3>2. T \in [Gens -> Tasks]
      <4>1. tasks \in [Gens -> Tasks]
        BY DEF Inv, TypeOK
      <4>2. \A u \in Tasks : [u EXCEPT !.phase = ph, !.forks = forked] \in Tasks
        BY <2>2 DEF Tasks, Inv, TypeOK
      <4>3. T = [tasks EXCEPT ![g] = [tasks[g] EXCEPT !.phase = ph, !.forks = forked]]
        BY <4>1
      <4> QED BY <4>1, <4>2, <4>3
    <3>3. \A h \in Gens : /\ T[h].dir = tasks[h].dir
                          /\ T[h].interested = tasks[h].interested
                          /\ T[h].cancelled = tasks[h].cancelled
      BY DEF Inv, TypeOK, Tasks
    <3> HIDE DEF T
    <3>4. Good
      BY <1>1, <2>1, <3>1, <3>2, <3>3, TickInv
    <3> HIDE DEF Good
    <3> QED BY <1>2, <2>1, <2>3, <3>4
  <2> QED BY <2>1, <2>4, <2>5
<1>6. ASSUME UNCHANGED <<nextGen, nativeVars, clientVars>>,
             tasks[g].cancelled \/ Superseded(g), EndTask(g, tasks),
             UNCHANGED <<port, expanded, told, toClient>>
      PROVE  Inv'
  <2>1. present' = present /\ unsent' = unsent /\ loaded' \subseteq Dirs /\ forked' = forked
    BY <1>6 DEF Inv, TypeOK, nativeVars
  <2>2. Good
    BY <1>1, <1>6, <2>1, EndQuietInv
  <2> HIDE DEF Good
  <2> QED BY <1>2, <1>6, <2>1, <2>2
<1>7. ASSUME UNCHANGED <<nextGen, nativeVars, clientVars>>,
             NEW S \in SUBSET Sessions, NEW f \in Frames, f.state # "loading",
             \A s \in tasks[g].interested :
               s \in Attached /\ tasks[g].dir \in expanded[s] => s \in S,
             Post({}, S \X {tasks[g].dir}, f),
             EndTask(g, Release(tasks, current, Failing({}, S))),
             Detach(Failing({}, S), expanded)
      PROVE  Inv'
  <2>1. present' = present /\ unsent' = unsent /\ loaded' \subseteq Dirs /\ forked' = forked
    BY <1>7 DEF Inv, TypeOK, nativeVars
  <2>2. Good
    BY <1>1, <1>7, <2>1, EndPostInv
  <2> HIDE DEF Good
  <2> QED BY <1>2, <1>7, <2>1, <2>2
<1>8. CASE FinishOk(g)
  <2> DEFINE S == {s \in tasks[g].interested :
                     s \in Attached /\ tasks[g].dir \in expanded[s]}
             f == [state |-> "complete", gen |-> g]
  <2>1. /\ IF Superseded(g) \/ tasks[g].cancelled
           THEN /\ EndTask(g, tasks)
                /\ UNCHANGED <<port, expanded, told, toClient>>
           ELSE /\ Post({}, S \X {tasks[g].dir}, f)
                /\ EndTask(g, Release(tasks, current, Failing({}, S)))
                /\ Detach(Failing({}, S), expanded)
        /\ UNCHANGED <<nextGen, nativeVars, clientVars>>
    BY <1>8 DEF FinishOk
  <2>2. S \in SUBSET Sessions /\ f \in Frames /\ f.state # "loading"
    BY <1>1 DEF Tasks, Frames, States
  <2>3. \A s \in tasks[g].interested :
          s \in Attached /\ tasks[g].dir \in expanded[s] => s \in S
    OBVIOUS
  <2> HIDE DEF S, f, Good
  <2> QED BY <2>1, <2>2, <2>3, <1>6, <1>7
<1>9. CASE FinishFailed(g)
  <2> DEFINE S == {s \in tasks[g].interested : s \in Attached}
             f == [state |-> IF tasks[g].phase = "fail" THEN "error" ELSE "cancelled",
                   gen |-> g]
  <2>1. /\ IF Superseded(g)
           THEN /\ EndTask(g, tasks)
                /\ UNCHANGED <<port, expanded, told, toClient>>
           ELSE /\ Post({}, S \X {tasks[g].dir}, f)
                /\ EndTask(g, Release(tasks, current, Failing({}, S)))
                /\ Detach(Failing({}, S), expanded)
        /\ UNCHANGED <<nextGen, nativeVars, clientVars>>
    BY <1>9 DEF FinishFailed
  <2>2. S \in SUBSET Sessions /\ f \in Frames /\ f.state # "loading"
    BY <1>1 DEF Tasks, Frames, States
  <2>3. \A s \in tasks[g].interested :
          s \in Attached /\ tasks[g].dir \in expanded[s] => s \in S
    OBVIOUS
  <2> HIDE DEF S, f, Good
  <2> QED BY <2>1, <2>2, <2>3, <1>6, <1>7
<1> QED BY <1>3, <1>4, <1>5, <1>8, <1>9

-----------------------------------------------------------------------------
(* The snapshot and the clients. *)

\* A resync call returns: it completes open directories, or only ticks.
LEMMA ResyncInv ==
  ASSUME Inv, NEW d \in Dirs, NEW rec \in BOOLEAN, NEW k \in 1..Len(Chain[d]),
         Resync(d, rec, k)
  PROVE  Inv'
<1> DEFINE L == loaded \cup ({Chain[d][i] : i \in 1..k} \cap present)
           C == Recovered(d, rec, L)
<1>1. /\ loaded' = L
      /\ UNCHANGED <<present, forked, toHost, mirror, requests>>
      /\ \/ /\ Post(unsent, {}, NoFrame)
            /\ tasks' = Release(tasks, current, Failing(unsent, {}))
            /\ Detach(Failing(unsent, {}), expanded)
            /\ unsent' = {}
            /\ UNCHANGED <<current, nextGen, resyncs>>
         \/ /\ resyncs < MaxResyncs
            /\ CompleteDirectoryLoads(C, expanded)
            /\ resyncs' = resyncs + 1
  BY DEF Resync
<1>2. loaded' \subseteq Dirs
  BY <1>1 DEF Inv, TypeOK
<1>3. C \in SUBSET Dirs /\ expanded \in [Sessions -> SUBSET Dirs]
  BY DEF Inv, TypeOK, Attached, Recovered
<1> HIDE DEF C, L
<1>4. CASE /\ Post(unsent, {}, NoFrame)
           /\ tasks' = Release(tasks, current, Failing(unsent, {}))
           /\ Detach(Failing(unsent, {}), expanded)
           /\ unsent' = {}
           /\ UNCHANGED <<current, nextGen, resyncs>>
  <2>1. tasks \in [Gens -> Tasks]
    BY DEF Inv, TypeOK
  <2>2. /\ Core' /\ port' = port /\ expanded' = expanded /\ tasks' = tasks
        /\ told' \in [Sessions -> [Dirs -> Frames]]
        /\ toClient' \in [Sessions -> [Dirs -> Seq(Frames)]]
    BY <1>1, <1>4, <2>1, TickInv
  <2> QED BY <1>1, <1>2, <1>4, <2>2 DEF Inv, Core, TypeOK
<1>5. CASE /\ resyncs < MaxResyncs
           /\ CompleteDirectoryLoads(C, expanded)
           /\ resyncs' = resyncs + 1
  <2>1. \A s \in Sessions : /\ expanded[s] \subseteq expanded[s]
                            /\ expanded[s] \subseteq expanded[s] \cup C
                            /\ port[s] # "open" => expanded[s] = {}
    BY DEF Inv, Shape
  <2>2. /\ Core' /\ port' = port /\ expanded' = expanded /\ unsent' = {}
        /\ tasks' \in [Gens -> Tasks] /\ current' \in [Dirs -> 0..MaxGen]
        /\ nextGen' \in 1..(MaxGen + 1)
        /\ told' \in [Sessions -> [Dirs -> Frames]]
        /\ toClient' \in [Sessions -> [Dirs -> Seq(Frames)]]
    BY <1>1, <1>3, <1>5, <2>1, CompleteInv
  <2>3. resyncs' \in 0..MaxResyncs
    BY <1>5, BoundAssumption DEF Inv, TypeOK
  <2> QED BY <1>1, <1>2, <1>3, <2>2, <2>3 DEF Inv, Core, TypeOK
<1> QED BY <1>1, <1>4, <1>5

\* Deletion, another read's listing, a chain that ends or goes on, and the
\* fan-out tick.
LEMMA NativeInv ==
  ASSUME Inv, \/ Tick
              \/ \E d \in Dirs : RemoveDir(d) \/ NativeList(d) \/ Siblings(d)
  PROVE  Inv'
<1>1. tasks \in [Gens -> Tasks]
  BY DEF Inv, TypeOK
<1>2. CASE Tick
  <2>1. /\ Post(unsent, {}, NoFrame)
        /\ tasks' = Release(tasks, current, Failing(unsent, {}))
        /\ Detach(Failing(unsent, {}), expanded)
        /\ unsent' = {}
        /\ UNCHANGED <<present, loaded, forked, current, nextGen, clientVars>>
    BY <1>2 DEF Tick
  <2>2. /\ Core' /\ port' = port /\ expanded' = expanded /\ tasks' = tasks
        /\ told' \in [Sessions -> [Dirs -> Frames]]
        /\ toClient' \in [Sessions -> [Dirs -> Seq(Frames)]]
    BY <1>1, <2>1, TickInv
  <2> QED BY <2>1, <2>2 DEF Inv, Core, TypeOK, clientVars
<1>3. ASSUME NEW d \in Dirs, RemoveDir(d) \/ NativeList(d) \/ Siblings(d)
      PROVE  Inv'
  <2>1. /\ UNCHANGED <<hostVars, toClient, clientVars>>
        /\ present' \subseteq present /\ loaded' \subseteq Dirs
        /\ unsent' \subseteq Dirs /\ forked' \subseteq Dirs
    BY <1>3 DEF RemoveDir, NativeList, Siblings, Inv, TypeOK
  <2>2. UNCHANGED <<port, expanded, current, tasks, nextGen, told>>
    BY <2>1 DEF hostVars
  <2>3. Core'
    BY <2>1, <2>2, SameTasks
  <2> QED BY <2>1, <2>2, <2>3 DEF Inv, Core, TypeOK, clientVars
<1> QED BY <1>2, <1>3

\* The clients' own steps leave the host's state alone.
LEMMA ClientInv ==
  ASSUME Inv, NEW s \in Sessions, NEW d \in Dirs,
         ClientExpand(s, d) \/ ClientCollapse(s, d) \/ ClientApply(s, d)
  PROVE  Inv'
<1> DEFINE Ops == [op : {"add", "remove"}, dir : Dirs]
<1>1. /\ mirror \in [Sessions -> [Dirs -> Records]] /\ toHost \in [Sessions -> Seq(Ops)]
      /\ toClient \in [Sessions -> [Dirs -> Seq(Frames)]]
  BY DEF Inv, TypeOK
<1>2. UNCHANGED <<port, expanded, present, loaded, forked, unsent, current, tasks, nextGen,
                  told, resyncs>>
  BY DEF ClientExpand, ClientCollapse, ClientApply, Request, hostVars, nativeVars
<1>3. Core'
  BY <1>2, SameTasks
<1>4. ASSUME NEW op \in {"add", "remove"}, NEW x \in Records, Request(s, d, op),
             mirror' = [mirror EXCEPT ![s][d] = x]
      PROVE  Inv'
  <2>1. [op |-> op, dir |-> d] \in Ops
    OBVIOUS
  <2>2. toHost' \in [Sessions -> Seq(Ops)]
    <3> DEFINE o == [op |-> op, dir |-> d]
    <3>1. toHost' = [toHost EXCEPT ![s] = Append(@, o)]
      BY <1>4 DEF Request
    <3> HIDE DEF Ops, o
    <3> QED BY <1>1, <2>1, <3>1 DEF o
  <2>3. requests' \in 0..MaxRequests /\ toClient' = toClient
    BY <1>4, BoundAssumption DEF Request, Inv, TypeOK
  <2>4. mirror' \in [Sessions -> [Dirs -> Records]]
    BY <1>1, <1>4
  <2> QED BY <1>2, <1>3, <2>2, <2>3, <2>4 DEF Inv, Core, TypeOK
<1>5. CASE ClientExpand(s, d)
  <2>1. [expanded |-> TRUE, pending |-> TRUE, load |-> "none", gen |-> 0] \in Records
    BY DEF Records
  <2> QED BY <1>4, <1>5, <2>1 DEF ClientExpand
<1>6. CASE ClientCollapse(s, d)
  <2>1. NoRecord \in Records
    BY DEF Records, NoRecord
  <2> QED BY <1>4, <1>6, <2>1 DEF ClientCollapse
<1>7. CASE ClientApply(s, d)
  <2> DEFINE f == Head(toClient[s][d])
             r == mirror[s][d]
  <2>1. /\ toClient[s][d] # <<>> /\ toClient[s][d] \in Seq(Frames)
        /\ mirror' = [mirror EXCEPT ![s][d] = Applied(r, f)]
        /\ toClient' = [toClient EXCEPT ![s][d] = Tail(toClient[s][d])]
        /\ toHost' = toHost /\ requests' = requests
    BY <1>1, <1>7 DEF ClientApply
  <2>2. f \in Frames /\ r \in Records /\ Tail(toClient[s][d]) \in Seq(Frames)
    <3>1. r \in Records
      BY <1>1
    <3> QED BY <2>1, <3>1
  <2>3. Applied(r, f) \in Records
    <3> HIDE DEF f, r
    <3>1. (f.state = "loading") \in BOOLEAN /\ NoRecord \in Records
      BY DEF NoRecord, Records
    <3>2. Retained(r, f) \in Records
      BY <2>2, <3>1 DEF Retained, Records, Frames
    <3> QED BY <2>2, <3>1, <3>2 DEF Applied
  <2>4. toClient' \in [Sessions -> [Dirs -> Seq(Frames)]]
    BY <1>1, <2>1, <2>2
  <2> HIDE DEF f, r
  <2>5. mirror' \in [Sessions -> [Dirs -> Records]]
    BY <1>1, <2>1, <2>3
  <2>6. toHost' \in [Sessions -> Seq(Ops)]
    BY <1>1, <2>1
  <2> QED BY <1>2, <1>3, <2>1, <2>4, <2>5, <2>6 DEF Inv, Core, TypeOK
<1> QED BY <1>5, <1>6, <1>7

-----------------------------------------------------------------------------
(* The theorems. *)

\* Every step preserves the inductive invariant.
LEMMA NextInv ==
  ASSUME ~SendMayFail, Inv, [Next]_vars
  PROVE  Inv'
<1>1. CASE UNCHANGED vars
  <2>1. TypeOK'
    BY <1>1 DEF vars, Inv, TypeOK
  <2>2. Core'
    BY <1>1, SameTasks DEF vars
  <2> QED BY <2>1, <2>2 DEF Inv, Core
<1>2. ASSUME NEW s \in Sessions, Attach(s) PROVE Inv'
  BY <1>2, AttachInv
<1>3. ASSUME NEW s \in Sessions, Die(s) PROVE Inv'
  BY <1>3 DEF Die
<1>4. ASSUME NEW s \in Sessions, DetachSession(s) PROVE Inv'
  BY <1>4, DetachInv
<1>5. ASSUME NEW s \in Sessions, HandleSetExpanded(s) PROVE Inv'
  BY <1>5, HandleInv
<1>6. ASSUME NEW s \in Sessions, NEW d \in Dirs,
             ClientExpand(s, d) \/ ClientCollapse(s, d) \/ ClientApply(s, d)
      PROVE  Inv'
  BY <1>6, ClientInv
<1>7. ASSUME NEW g \in Gens,
             \/ RunDirectoryLoad(g)
             \/ ReadOk(g)
             \/ \E code \in {"ECANCELED", "EIO"} : ReadFails(g, code)
             \/ FinishOk(g)
             \/ FinishFailed(g)
      PROVE  Inv'
  BY <1>7, TaskInv
<1>8. ASSUME NEW d \in Dirs, NEW rec \in BOOLEAN, NEW k \in 1..Len(Chain[d]),
             Resync(d, rec, k)
      PROVE  Inv'
  BY <1>8, ResyncInv
<1>9. CASE Tick \/ \E d \in Dirs : RemoveDir(d) \/ NativeList(d) \/ Siblings(d)
  BY <1>9, NativeInv
<1>10. CASE Next
  BY <1>10, <1>2, <1>3, <1>4, <1>5, <1>6, <1>7, <1>8, <1>9 DEF Next
<1> QED BY <1>1, <1>10

\* Without failing sends, the invariant holds in every reachable state.
THEOREM Invariance ==
  ASSUME ~SendMayFail
  PROVE  Spec => []Inv
<1>1. Inv /\ [Next]_vars => Inv'
  BY NextInv
<1> QED BY <1>1, InitInv, PTL DEF Spec

\* Every variable keeps its type: in particular the generation counter never
\* leaves its range and a mapped generation is one that was handed out.
THEOREM TypeCorrect ==
  ASSUME ~SendMayFail
  PROVE  Spec => []TypeOK
<1>1. Inv => TypeOK
  BY DEF Inv
<1> QED BY <1>1, Invariance, PTL

\* Whatever windows, directories and chains there are, a window that was told
\* "loading" is among those its directory's mapped, live task will answer
\* (joinDirectoryLoad, releaseDirectoryLoad, runDirectoryLoad in host.ts).
THEOREM NoSpinnerForgotten ==
  ASSUME ~SendMayFail
  PROVE  Spec => []LoadingIsOwed
<1>1. Inv => LoadingIsOwed
  BY DEF Inv
<1> QED BY <1>1, Invariance, PTL

\* A mapped task serves exactly the windows that have its directory open, and
\* is cancelled exactly when none is left.
THEOREM TasksServeWindows ==
  ASSUME ~SendMayFail
  PROVE  Spec => []InterestIsExpansion
<1>1. Inv => InterestIsExpansion
  BY DEF Inv
<1> QED BY <1>1, Invariance, PTL

-----------------------------------------------------------------------------
(* The order of generations on the wire; here sends may fail too. *)

\* The highest generation a frame about d may carry so far: no later frame
\* about d carries a lower one, unless it carries none (0).
Latest(d) == IF current[d] # 0 THEN current[d] ELSE nextGen - 1

\* The frames of q are in generation order, and none of a real generation is
\* older than what the record r retains.
InOrder(q, r) ==
  \A i \in 1..Len(q) : q[i].gen # 0 =>
    /\ r.load # "none" => r.gen <= q[i].gen
    /\ \A j \in 1..i : q[j].gen <= q[i].gen

\* Nothing in q or retained in r is newer than n.
UpTo(q, r, n) ==
  /\ r.load # "none" => r.gen <= n
  /\ \A i \in 1..Len(q) : q[i].gen <= n

Counters ==
  /\ current \in [Dirs -> Nat] /\ nextGen \in Nat
  /\ \A d \in Dirs : current[d] < nextGen

WireTyped ==
  /\ toClient \in [Sessions -> [Dirs -> Seq(Frames)]]
  /\ mirror \in [Sessions -> [Dirs -> Records]]

\* The channel of a session and a directory is in order and not ahead.
Line(s, d) ==
  /\ InOrder(toClient[s][d], mirror[s][d])
  /\ UpTo(toClient[s][d], mirror[s][d], Latest(d))

Wire == Counters /\ WireTyped /\ \A s \in Sessions, d \in Dirs : Line(s, d)

\* A frame without a generation, or one no older than what was sent, may be
\* added at the end.
LEMMA OneMore ==
  ASSUME NEW q \in Seq(Frames), NEW r \in Records, NEW n \in Nat, NEW m \in Nat,
         NEW f \in Frames, InOrder(q, r), UpTo(q, r, n), n <= m,
         f.gen = 0 \/ (n <= f.gen /\ f.gen <= m)
  PROVE  /\ Append(q, f) \in Seq(Frames)
         /\ InOrder(Append(q, f), r) /\ UpTo(Append(q, f), r, m)
<1> DEFINE a == Append(q, f)
<1>1. /\ a \in Seq(Frames) /\ Len(a) = Len(q) + 1 /\ Len(q) \in Nat
      /\ \A i \in 1..Len(q) : a[i] = q[i]
      /\ a[Len(q) + 1] = f
  OBVIOUS
<1>2. f.gen \in Nat /\ r.gen \in Nat /\ \A i \in 1..Len(q) : q[i].gen \in Nat
  <2>1. \A i \in 1..Len(q) : q[i] \in Frames
    OBVIOUS
  <2> QED BY <2>1 DEF Frames, Records
<1> HIDE DEF a
<1>3. UpTo(a, r, m)
  <2>1. r.load # "none" => r.gen <= m
    BY <1>2 DEF UpTo
  <2>2. ASSUME NEW i \in 1..Len(a) PROVE a[i].gen <= m
    <3>1. CASE i \in 1..Len(q)
      BY <1>1, <1>2, <3>1 DEF UpTo
    <3>2. CASE i = Len(q) + 1
      BY <1>1, <1>2, <3>2
    <3> QED BY <1>1, <3>1, <3>2
  <2> QED BY <2>1, <2>2 DEF UpTo
<1>4. InOrder(a, r)
  <2> SUFFICES ASSUME NEW i \in 1..Len(a), a[i].gen # 0
               PROVE  /\ r.load # "none" => r.gen <= a[i].gen
                      /\ \A j \in 1..i : a[j].gen <= a[i].gen
    BY DEF InOrder
  <2>1. CASE i \in 1..Len(q)
    <3>1. a[i] = q[i] /\ \A j \in 1..i : a[j] = q[j]
      BY <1>1, <2>1
    <3> QED BY <2>1, <3>1 DEF InOrder
  <2>2. CASE i = Len(q) + 1
    <3>1. a[i].gen = f.gen /\ n <= f.gen
      BY <1>1, <2>2
    <3>2. r.load # "none" => r.gen <= f.gen
      BY <1>2, <3>1 DEF UpTo
    <3>3. ASSUME NEW j \in 1..i PROVE a[j].gen <= f.gen
      <4>1. CASE j \in 1..Len(q)
        <5>1. a[j].gen = q[j].gen /\ q[j].gen <= n /\ q[j].gen \in Nat
          BY <1>1, <1>2, <4>1 DEF UpTo
        <5> QED BY <1>2, <3>1, <5>1
      <4>2. CASE j = Len(q) + 1
        BY <1>1, <1>2, <4>2
      <4> QED BY <1>1, <2>2, <4>1, <4>2
    <3> QED BY <3>1, <3>2, <3>3
  <2> QED BY <1>1, <2>1, <2>2
<1> QED BY <1>1, <1>3, <1>4 DEF a

\* A higher limit is kept as well.
LEMMA Higher ==
  ASSUME NEW q \in Seq(Frames), NEW r \in Records, NEW n \in Nat, NEW m \in Nat,
         UpTo(q, r, n), n <= m
  PROVE  UpTo(q, r, m)
<1>1. r.gen \in Nat /\ \A i \in 1..Len(q) : q[i].gen \in Nat
  <2>1. \A i \in 1..Len(q) : q[i] \in Frames
    OBVIOUS
  <2> QED BY <2>1 DEF Frames, Records
<1> QED BY <1>1 DEF UpTo

\* A record that retains nothing, or a wire that was dropped, is in order.
LEMMA Forgetting ==
  ASSUME NEW q, NEW r, NEW x, x.load = "none"
  PROVE  /\ InOrder(q, r) => InOrder(q, x)
         /\ \A n : UpTo(q, r, n) => UpTo(q, x, n)
         /\ InOrder(<<>>, x) /\ \A n : UpTo(<<>>, x, n)
BY DEF InOrder, UpTo

\* The mirror's record of a frame is a record, and retains the frame's
\* generation, the one it had, or nothing.
LEMMA AppliedRetains ==
  ASSUME NEW r \in Records, NEW f \in Frames
  PROVE  /\ Applied(r, f) \in Records
         /\ \/ Applied(r, f).load = "none"
            \/ Applied(r, f) = r /\ f.gen < r.gen
            \/ Applied(r, f).gen = f.gen
<1>1. (f.state = "loading") \in BOOLEAN /\ NoRecord \in Records
  BY DEF NoRecord, Records
<1>2. /\ Retained(r, f) \in Records
      /\ Retained(r, f).load = "none" \/ Retained(r, f).gen = f.gen
  BY <1>1 DEF Retained, Records, Frames
<1>3. NoRecord.load = "none"
  BY DEF NoRecord
<1> QED BY <1>1, <1>2, <1>3 DEF Applied

\* Applying the head of a channel in order leaves the rest in order.
LEMMA AppliesInOrder ==
  ASSUME NEW q \in Seq(Frames), q # <<>>, NEW r \in Records, NEW n \in Nat,
         InOrder(q, r), UpTo(q, r, n)
  PROVE  /\ InOrder(Tail(q), Applied(r, Head(q)))
         /\ UpTo(Tail(q), Applied(r, Head(q)), n)
<1> DEFINE t == Tail(q)
           x == Applied(r, Head(q))
<1>1. /\ Len(q) \in Nat /\ Len(q) > 0 /\ Len(t) = Len(q) - 1
      /\ \A i \in 1..Len(t) : t[i] = q[i + 1]
      /\ Head(q) = q[1]
  OBVIOUS
<1>2. /\ q[1] \in Frames /\ q[1].gen \in Nat /\ r.gen \in Nat
      /\ \A i \in 1..Len(q) : q[i].gen \in Nat
  <2>1. \A i \in 1..Len(q) : q[i] \in Frames
    OBVIOUS
  <2> QED BY <1>1, <2>1 DEF Frames, Records
<1>3. \/ x.load = "none"
      \/ x = r
      \/ x.gen = q[1].gen
  BY <1>1, <1>2, AppliedRetains
<1> HIDE DEF t, x
<1>4. UpTo(t, x, n)
  <2>1. x.load # "none" => x.gen <= n
    BY <1>1, <1>2, <1>3 DEF UpTo
  <2>2. ASSUME NEW i \in 1..Len(t) PROVE t[i].gen <= n
    <3>1. i + 1 \in 1..Len(q) /\ t[i] = q[i + 1]
      BY <1>1
    <3> QED BY <3>1 DEF UpTo
  <2> QED BY <2>1, <2>2 DEF UpTo
<1>5. InOrder(t, x)
  <2> SUFFICES ASSUME NEW i \in 1..Len(t), t[i].gen # 0
               PROVE  /\ x.load # "none" => x.gen <= t[i].gen
                      /\ \A j \in 1..i : t[j].gen <= t[i].gen
    BY DEF InOrder
  <2>1. i + 1 \in 1..Len(q) /\ t[i] = q[i + 1]
    BY <1>1
  <2>2. /\ r.load # "none" => r.gen <= q[i + 1].gen
        /\ \A j \in 1..(i + 1) : q[j].gen <= q[i + 1].gen
    BY <2>1 DEF InOrder
  <2>3. 1 \in 1..(i + 1) /\ q[1].gen <= q[i + 1].gen
    BY <2>1, <2>2
  <2>4. ASSUME NEW j \in 1..i PROVE t[j].gen <= t[i].gen
    <3>1. j \in 1..Len(t) /\ j + 1 \in 1..(i + 1)
      BY <1>1
    <3> QED BY <1>1, <2>1, <2>2, <3>1
  <2> QED BY <1>3, <2>1, <2>2, <2>3, <2>4
<1> QED BY <1>4, <1>5 DEF t, x

-----------------------------------------------------------------------------
(* The steps. *)

\* How the map and the counter may move: an entry stays, or is cleared, or
\* takes the generation the counter hands out.
Advances ==
  /\ nextGen' = nextGen \/ nextGen' = nextGen + 1
  /\ current' \in [Dirs -> Nat]
  /\ \A d \in Dirs :
       \/ current'[d] = current[d]
       \/ current'[d] = 0
       \/ current'[d] = nextGen /\ nextGen' = nextGen + 1

\* Then the limits only rise.
LEMMA LimitsRise ==
  ASSUME Counters, Advances
  PROVE  /\ Counters'
         /\ \A d \in Dirs : /\ Latest(d) \in Nat /\ Latest(d)' \in Nat
                            /\ Latest(d) <= Latest(d)'
                            /\ nextGen > Latest(d)
                            /\ current[d] # 0 => Latest(d) = current[d]
<1>1. Counters'
  BY DEF Counters, Advances
<1>2. ASSUME NEW d \in Dirs
      PROVE  /\ Latest(d) \in Nat /\ Latest(d)' \in Nat
             /\ Latest(d) <= Latest(d)' /\ nextGen > Latest(d)
             /\ current[d] # 0 => Latest(d) = current[d]
  <2>1. current[d] \in Nat /\ nextGen \in Nat /\ current[d] < nextGen
    BY DEF Counters
  <2>2. \/ current'[d] = current[d]
        \/ current'[d] = 0
        \/ current'[d] = nextGen /\ nextGen' = nextGen + 1
    BY DEF Advances
  <2>3. nextGen' = nextGen \/ nextGen' = nextGen + 1
    BY DEF Advances
  <2> QED BY <2>1, <2>2, <2>3 DEF Latest
<1> QED BY <1>1, <1>2

\* A step that sends nothing, and whose clients at most forget.
LEMMA SilentStep ==
  ASSUME Wire, Advances, toClient' = toClient, mirror' = mirror
  PROVE  Wire'
<1>1. WireTyped'
  BY DEF Wire, WireTyped
<1>2. ASSUME NEW s \in Sessions, NEW d \in Dirs PROVE Line(s, d)'
  <2>1. /\ Latest(d) \in Nat /\ Latest(d)' \in Nat /\ Latest(d) <= Latest(d)'
    BY LimitsRise DEF Wire
  <2>2. toClient[s][d] \in Seq(Frames) /\ mirror[s][d] \in Records /\ Line(s, d)
    BY DEF Wire, WireTyped
  <2>3. UpTo(toClient[s][d], mirror[s][d], Latest(d)')
    BY <2>1, <2>2, Higher DEF Line
  <2> QED BY <2>2, <2>3 DEF Line
<1> QED BY <1>1, <1>2, LimitsRise DEF Wire

\* A step that posts frames about the pairs of P under the generation f.gen,
\* which is the latest or a fresh one for their directories.
LEMMA PostStep ==
  ASSUME Wire, Advances, NEW R, NEW P, NEW f \in Frames, Post(R, P, f),
         mirror' = mirror,
         \A s \in Sessions, d \in Dirs : <<s, d>> \in P =>
           f.gen = 0 \/ (Latest(d) <= f.gen /\ f.gen <= Latest(d)')
  PROVE  Wire'
<1>0. Removed \in Frames /\ Removed.gen = 0
  BY DEF Removed, Frames, States
<1>1. ASSUME NEW s \in Sessions, NEW d \in Dirs
      PROVE  toClient'[s][d] \in Seq(Frames) /\ Line(s, d)'
  <2> DEFINE q == toClient[s][d]
             r == mirror[s][d]
             q1 == IF d \in R THEN Append(q, Removed) ELSE q
             q2 == IF <<s, d>> \in P THEN Append(q1, f) ELSE q1
             n == Latest(d)
             m == Latest(d)'
  <2>1. n \in Nat /\ m \in Nat /\ n <= m
    BY LimitsRise DEF Wire
  <2>2. q \in Seq(Frames) /\ r \in Records /\ InOrder(q, r) /\ UpTo(q, r, n)
    BY DEF Wire, WireTyped, Line
  <2>3. q1 \in Seq(Frames) /\ InOrder(q1, r) /\ UpTo(q1, r, n)
    <3> HIDE DEF q, r, n, m
    <3>1. CASE d \in R
      BY <1>0, <2>1, <2>2, <3>1, OneMore
    <3>2. CASE d \notin R
      BY <2>2, <3>2
    <3> QED BY <3>1, <3>2
  <2>4. q2 \in Seq(Frames) /\ InOrder(q2, r) /\ UpTo(q2, r, m)
    <3>1. <<s, d>> \in P => f.gen = 0 \/ (n <= f.gen /\ f.gen <= m)
      OBVIOUS
    <3> HIDE DEF q, r, n, m, q1
    <3>2. CASE <<s, d>> \in P
      BY <2>1, <2>2, <2>3, <3>1, <3>2, OneMore
    <3>3. CASE <<s, d>> \notin P
      BY <2>1, <2>2, <2>3, <3>3, Higher
    <3> QED BY <3>2, <3>3
  <2>5. UpTo(q, r, m)
    <3> HIDE DEF q, r, n, m
    <3> QED BY <2>1, <2>2, Higher
  <2>6. toClient'[s][d] = q \/ toClient'[s][d] = q2
    <3>1. toClient'[s][d] =
            IF port[s] # "open" THEN q
            ELSE q \o (IF d \in R THEN <<Removed>> ELSE <<>>)
                   \o (IF <<s, d>> \in P THEN <<f>> ELSE <<>>)
      BY DEF Post
    <3> HIDE DEF q
    <3>2. q \o (IF d \in R THEN <<Removed>> ELSE <<>>) = q1
      BY <1>0, <2>2
    <3> HIDE DEF q1
    <3>3. q1 \o (IF <<s, d>> \in P THEN <<f>> ELSE <<>>) = q2
      BY <2>3
    <3> QED BY <3>1, <3>2, <3>3
  <2>7. mirror'[s][d] = r
    OBVIOUS
  <2> HIDE DEF q, r, q1, q2
  <2> QED BY <2>2, <2>4, <2>5, <2>6, <2>7 DEF Line
<1>2. WireTyped'
  <2>1. toClient' \in [Sessions -> [Dirs -> Seq(Frames)]]
    BY <1>1 DEF Post
  <2> QED BY <2>1 DEF Wire, WireTyped
<1> QED BY <1>1, <1>2, LimitsRise DEF Wire

\* A tick posts removals only.
LEMMA RemovalsStep ==
  ASSUME Wire, Advances, NEW R, Post(R, {}, NoFrame), mirror' = mirror
  PROVE  Wire'
<1>1. NoFrame \in Frames
  BY DEF NoFrame, Frames, States
<1> QED BY <1>1, PostStep

\* The connection of s is gone, and its channels with it.
LEMMA DropStep ==
  ASSUME Wire, Advances, NEW s \in Sessions, DropWire(s)
  PROVE  Wire'
<1>1. NoRecord \in Records /\ NoRecord.load = "none" /\ <<>> \in Seq(Frames)
  BY DEF NoRecord, Records
<1>2. ASSUME NEW p \in Sessions, NEW d \in Dirs
      PROVE  /\ p = s => toClient'[p][d] = <<>> /\ mirror'[p][d] = NoRecord
             /\ p # s => toClient'[p] = toClient[p] /\ mirror'[p] = mirror[p]
  BY DEF DropWire, Wire, WireTyped
<1>3. WireTyped'
  BY <1>1 DEF DropWire, Wire, WireTyped
<1>4. ASSUME NEW p \in Sessions, NEW d \in Dirs PROVE Line(p, d)'
  <2>1. CASE p = s
    BY <1>1, <1>2, <2>1, Forgetting DEF Line
  <2>2. CASE p # s
    <3>1. /\ Latest(d) \in Nat /\ Latest(d)' \in Nat /\ Latest(d) <= Latest(d)'
      BY LimitsRise DEF Wire
    <3>2. toClient[p][d] \in Seq(Frames) /\ mirror[p][d] \in Records /\ Line(p, d)
      BY DEF Wire, WireTyped
    <3>3. UpTo(toClient[p][d], mirror[p][d], Latest(d)')
      BY <3>1, <3>2, Higher DEF Line
    <3> QED BY <1>2, <2>2, <3>2, <3>3 DEF Line
  <2> QED BY <2>1, <2>2
<1> QED BY <1>3, <1>4, LimitsRise DEF Wire

\* One channel or one record moves, and is in order afterwards.
LEMMA OneLineStep ==
  ASSUME Wire, NEW s \in Sessions, NEW d \in Dirs,
         NEW q \in Seq(Frames), NEW r \in Records,
         toClient' = [toClient EXCEPT ![s][d] = q],
         mirror' = [mirror EXCEPT ![s][d] = r],
         InOrder(q, r), UpTo(q, r, Latest(d)), UNCHANGED <<current, nextGen>>
  PROVE  Wire'
<1>1. WireTyped' /\ Counters'
  BY DEF Wire, WireTyped, Counters
<1>2. ASSUME NEW p \in Sessions, NEW c \in Dirs PROVE Line(p, c)'
  <2>1. Latest(c)' = Latest(c)
    BY DEF Latest
  <2>2. CASE p = s /\ c = d
    <3>1. toClient'[p][c] = q /\ mirror'[p][c] = r
      BY <2>2 DEF Wire, WireTyped
    <3> QED BY <2>1, <2>2, <3>1 DEF Line
  <2>3. CASE ~(p = s /\ c = d)
    <3>1. toClient'[p][c] = toClient[p][c] /\ mirror'[p][c] = mirror[p][c]
      BY <2>3 DEF Wire, WireTyped
    <3> QED BY <2>1, <3>1 DEF Line, Wire
  <2> QED BY <2>2, <2>3
<1> QED BY <1>1, <1>2 DEF Wire

\* completeDirectoryLoads clears the entries it completes and sends under a
\* fresh generation.
LEMMA CompleteStep ==
  ASSUME Wire, NEW C, NEW E, CompleteDirectoryLoads(C, E), mirror' = mirror
  PROVE  Wire'
<1> DEFINE P == {x \in Attached \X C : x[2] \in E[x[1]]}
           f == [state |-> "complete", gen |-> nextGen]
<1>1. /\ current' = [d \in Dirs |-> IF d \in C THEN 0 ELSE current[d]]
      /\ Post(unsent, P, f)
      /\ nextGen' = nextGen + 1
  BY DEF CompleteDirectoryLoads
<1>2. Advances
  BY <1>1 DEF Wire, Counters, Advances
<1>3. f \in Frames /\ f.gen = nextGen /\ nextGen \in Nat
  BY DEF Frames, States, Wire, Counters
<1>4. ASSUME NEW s \in Sessions, NEW d \in Dirs, <<s, d>> \in P
      PROVE  Latest(d) <= f.gen /\ f.gen <= Latest(d)'
  <2>1. d \in C
    BY <1>4
  <2>2. current'[d] = 0 /\ Latest(d)' = nextGen
    BY <1>1, <1>3, <2>1 DEF Latest
  <2>3. Latest(d) < nextGen /\ Latest(d) \in Nat
    BY <1>2, LimitsRise DEF Wire
  <2> QED BY <1>3, <2>2, <2>3
<1> HIDE DEF P, f
<1> QED BY <1>1, <1>2, <1>3, <1>4, PostStep

\* startDirectoryLoad maps the fresh generation it sends.
LEMMA StartStep ==
  ASSUME Wire, NEW c, NEW E, StartLoad(c, E), mirror' = mirror
  PROVE  Wire'
<1> DEFINE P == {p \in Attached : c \in E[p]} \X {c}
           f == [state |-> "loading", gen |-> nextGen]
<1>1. /\ current' = [current EXCEPT ![c] = nextGen]
      /\ Post({}, P, f)
      /\ nextGen' = nextGen + 1
  BY DEF StartLoad
<1>2. Advances
  BY <1>1 DEF Wire, Counters, Advances
<1>3. f \in Frames /\ f.gen = nextGen /\ nextGen \in Nat
  BY DEF Frames, States, Wire, Counters
<1>4. ASSUME NEW s \in Sessions, NEW d \in Dirs, <<s, d>> \in P
      PROVE  f.gen = 0 \/ (Latest(d) <= f.gen /\ f.gen <= Latest(d)')
  <2>1. d = c
    BY <1>4
  <2>2. current'[d] = nextGen
    BY <1>1, <2>1 DEF Wire, Counters
  <2>3. Latest(d) < nextGen /\ Latest(d) \in Nat
    BY <1>2, LimitsRise DEF Wire
  <2>4. nextGen # 0 => Latest(d)' = nextGen
    BY <2>2 DEF Latest
  <2> QED BY <1>3, <2>3, <2>4
<1> HIDE DEF P, f
<1> QED BY <1>1, <1>2, <1>3, <1>4, PostStep

\* Frames of the mapped generation, or of none, about one directory.
LEMMA MappedStep ==
  ASSUME Wire, Advances, NEW S, NEW c, NEW f \in Frames, Post({}, S \X {c}, f),
         f.gen = 0 \/ (f.gen = current[c] /\ f.gen # 0), mirror' = mirror
  PROVE  Wire'
<1>1. ASSUME NEW s \in Sessions, NEW d \in Dirs, <<s, d>> \in S \X {c}
      PROVE  f.gen = 0 \/ (Latest(d) <= f.gen /\ f.gen <= Latest(d)')
  <2>1. d = c
    BY <1>1
  <2>2. /\ Latest(d) \in Nat /\ Latest(d)' \in Nat /\ Latest(d) <= Latest(d)'
        /\ current[d] # 0 => Latest(d) = current[d]
    BY LimitsRise DEF Wire
  <2> QED BY <2>1, <2>2
<1> QED BY <1>1, PostStep

\* A setExpanded request on the host.
LEMMA HandleStep ==
  ASSUME Wire, NEW s \in Sessions, HandleSetExpanded(s)
  PROVE  Wire'
<1> DEFINE c == Head(toHost[s]).dir
           g == current[c]
<1>1. mirror' = mirror /\ (HandleAdd(s, c) \/ HandleRemove(s, c))
  BY DEF HandleSetExpanded
<1>2. {<<s, c>>} = {s} \X {c}
  OBVIOUS
<1>3. ASSUME UNCHANGED <<current, nextGen>> PROVE Advances
  BY <1>3 DEF Advances, Wire, Counters
<1>4. ASSUME NEW f, f.gen = 0 \/ f.gen = g, f \in Frames, Post({}, {<<s, c>>}, f),
             UNCHANGED <<current, nextGen>>
      PROVE  Wire'
  <2>1. Advances
    BY <1>3, <1>4
  <2>2. Post({}, {s} \X {c}, f)
    BY <1>2, <1>4
  <2>3. f.gen = 0 \/ (f.gen = current[c] /\ f.gen # 0)
    BY <1>4
  <2> HIDE DEF c, g
  <2> QED BY <1>1, <1>4, <2>1, <2>2, <2>3, MappedStep
<1>5. ASSUME NEW d \in Dirs PROVE current[d] \in Nat
  BY DEF Wire, Counters
<1>6. CASE HandleAdd(s, c)
  <2>1. CASE Post({}, {<<s, c>>}, [state |-> "error", gen |-> 0])
               /\ UNCHANGED <<current, nextGen>>
    <3>1. [state |-> "error", gen |-> 0] \in Frames
      BY DEF Frames, States
    <3> HIDE DEF c, g
    <3> QED BY <1>4, <2>1, <3>1
  <2>2. CASE \E E : CompleteDirectoryLoads({c}, E)
    BY <1>1, <2>2, CompleteStep
  <2>3. CASE \E E : StartLoad(c, E)
    BY <1>1, <2>3, StartStep
  <2>4. CASE \E E : JoinLoad(s, c, E) /\ c \in present
    <3>1. /\ Post({}, {<<s, c>>}, [state |-> "loading", gen |-> g])
          /\ UNCHANGED <<current, nextGen>>
      BY <2>4 DEF JoinLoad
    <3>2. CASE c \in Dirs
      <4>1. [state |-> "loading", gen |-> g] \in Frames
        BY <1>5, <3>2 DEF Frames, States
      <4> HIDE DEF c, g
      <4> QED BY <1>4, <3>1, <4>1
    <3>3. CASE c \notin Dirs
      <4>1. Post({}, {}, NoFrame)
        BY <3>1, <3>3 DEF Post
      <4> QED BY <1>1, <1>3, <3>1, <4>1, RemovalsStep
    <3> QED BY <3>2, <3>3
  <2> HIDE DEF c, g
  <2> QED BY <1>6, <2>1, <2>2, <2>3, <2>4 DEF HandleAdd
<1>7. CASE HandleRemove(s, c)
  <2>1. UNCHANGED <<current, nextGen>>
    BY <1>7 DEF HandleRemove
  <2>2. CASE g = 0
    <3>1. toClient' = toClient
      BY <1>7, <2>2 DEF HandleRemove
    <3> QED BY <1>1, <1>3, <2>1, <3>1, SilentStep
  <2>3. CASE g # 0
    <3>1. Post({}, {<<s, c>>}, [state |-> "cancelled", gen |-> g])
      BY <1>7, <2>3 DEF HandleRemove
    <3>2. CASE c \in Dirs
      <4>1. [state |-> "cancelled", gen |-> g] \in Frames
        BY <1>5, <3>2 DEF Frames, States
      <4> HIDE DEF c, g
      <4> QED BY <1>4, <2>1, <3>1, <4>1
    <3>3. CASE c \notin Dirs
      <4>1. Post({}, {}, NoFrame)
        BY <3>1, <3>3 DEF Post
      <4> QED BY <1>1, <1>3, <2>1, <4>1, RemovalsStep
    <3> QED BY <3>2, <3>3
  <2> QED BY <2>2, <2>3
<1> HIDE DEF c
<1> QED BY <1>1, <1>6, <1>7

\* A step of a load task.
LEMMA TaskStep ==
  ASSUME Wire, NEW g \in Gens,
         \/ RunDirectoryLoad(g)
         \/ ReadOk(g)
         \/ \E code \in {"ECANCELED", "EIO"} : ReadFails(g, code)
         \/ FinishOk(g)
         \/ FinishFailed(g)
  PROVE  Wire'
<1>1. mirror' = mirror /\ nextGen' = nextGen
  BY DEF RunDirectoryLoad, ReadOk, ReadFails, FinishOk, FinishFailed, clientVars
<1>2. ASSUME NEW T, EndTask(g, T) PROVE Advances
  BY <1>1, <1>2 DEF EndTask, Advances, Wire, Counters
<1>3. ASSUME NEW ph, FlushTickNow(g, ph) PROVE Wire'
  <2>1. Advances
    BY <1>1, <1>3 DEF FlushTickNow, Advances, Wire, Counters
  <2>2. Post(unsent, {}, NoFrame)
    BY <1>3 DEF FlushTickNow
  <2> QED BY <1>1, <2>1, <2>2, RemovalsStep
<1>4. ASSUME NEW T, EndTask(g, T), toClient' = toClient PROVE Wire'
  BY <1>1, <1>2, <1>4, SilentStep
<1>5. ASSUME NEW i, NEW L, Continue(g, i, L) PROVE Wire'
  <2>1. CASE EndTask(g, tasks) /\ Quiet
    BY <1>4, <2>1 DEF Quiet
  <2>2. CASE Quiet /\ UNCHANGED current
    <3>1. Advances
      BY <1>1, <2>2 DEF Advances, Wire, Counters
    <3> QED BY <1>1, <2>2, <3>1, SilentStep DEF Quiet
  <2>3. CASE FlushTickNow(g, "flush")
    BY <1>3, <2>3
  <2> QED BY <1>5, <2>1, <2>2, <2>3 DEF Continue
<1>6. ASSUME NEW code, ReadFails(g, code) PROVE Wire'
  <2>1. CASE Superseded(g)
    BY <1>4, <1>6, <2>1 DEF ReadFails, Quiet
  <2>2. CASE ~Superseded(g)
    BY <1>3, <1>6, <2>2 DEF ReadFails
  <2> QED BY <2>1, <2>2
<1>7. ASSUME NEW S, NEW T, NEW st \in {"complete", "error", "cancelled"},
             ~Superseded(g), EndTask(g, T),
             Post({}, S \X {tasks[g].dir}, [state |-> st, gen |-> g])
      PROVE  Wire'
  <2> DEFINE f == [state |-> st, gen |-> g]
  <2>1. f \in Frames /\ f.gen = g /\ g # 0
    BY GensAreNat DEF Frames, States
  <2>2. f.gen = current[tasks[g].dir]
    BY <1>7, <2>1 DEF Superseded
  <2>3. Advances
    BY <1>2, <1>7
  <2>4. Post({}, S \X {tasks[g].dir}, f)
    BY <1>7
  <2> HIDE DEF f
  <2> QED BY <1>1, <2>1, <2>2, <2>3, <2>4, MappedStep
<1>8. ASSUME FinishOk(g) PROVE Wire'
  <2>1. CASE Superseded(g) \/ tasks[g].cancelled
    BY <1>4, <1>8, <2>1 DEF FinishOk
  <2>2. CASE ~(Superseded(g) \/ tasks[g].cancelled)
    BY <1>7, <1>8, <2>2 DEF FinishOk
  <2> QED BY <2>1, <2>2
<1>9. ASSUME FinishFailed(g) PROVE Wire'
  <2>1. CASE Superseded(g)
    BY <1>4, <1>9, <2>1 DEF FinishFailed
  <2>2. CASE ~Superseded(g)
    BY <1>7, <1>9, <2>2 DEF FinishFailed
  <2> QED BY <2>1, <2>2
<1> QED BY <1>5, <1>6, <1>8, <1>9 DEF RunDirectoryLoad, ReadOk

\* A step of a client.
LEMMA ClientStep ==
  ASSUME Wire, NEW s \in Sessions, NEW d \in Dirs,
         ClientExpand(s, d) \/ ClientCollapse(s, d) \/ ClientApply(s, d)
  PROVE  Wire'
<1>1. UNCHANGED <<current, nextGen>>
  BY DEF ClientExpand, ClientCollapse, ClientApply, Request, hostVars
<1>2. toClient[s][d] \in Seq(Frames) /\ mirror[s][d] \in Records /\ Line(s, d)
  BY DEF Wire, WireTyped
<1>3. ASSUME NEW x \in Records, x.load = "none", toClient' = toClient,
             mirror' = [mirror EXCEPT ![s][d] = x]
      PROVE  Wire'
  <2>1. toClient' = [toClient EXCEPT ![s][d] = toClient[s][d]]
    BY <1>3 DEF Wire, WireTyped
  <2>2. InOrder(toClient[s][d], x) /\ UpTo(toClient[s][d], x, Latest(d))
    BY <1>2, <1>3, Forgetting DEF Line
  <2> QED BY <1>1, <1>2, <1>3, <2>1, <2>2, OneLineStep
<1>4. CASE ClientExpand(s, d)
  <2>1. [expanded |-> TRUE, pending |-> TRUE, load |-> "none", gen |-> 0] \in Records
    BY DEF Records
  <2> QED BY <1>3, <1>4, <2>1 DEF ClientExpand, Request
<1>5. CASE ClientCollapse(s, d)
  <2>1. NoRecord \in Records /\ NoRecord.load = "none"
    BY DEF Records, NoRecord
  <2> QED BY <1>3, <1>5, <2>1 DEF ClientCollapse, Request
<1>6. CASE ClientApply(s, d)
  <2> DEFINE q == toClient[s][d]
             r == mirror[s][d]
  <2>1. /\ q # <<>>
        /\ mirror' = [mirror EXCEPT ![s][d] = Applied(r, Head(q))]
        /\ toClient' = [toClient EXCEPT ![s][d] = Tail(q)]
    BY <1>6 DEF ClientApply, Wire, WireTyped
  <2>2. Latest(d) \in Nat
    BY DEF Latest, Wire, Counters
  <2>3. Head(q) \in Frames /\ Tail(q) \in Seq(Frames)
    BY <1>2, <2>1
  <2>4. InOrder(q, r) /\ UpTo(q, r, Latest(d))
    BY <1>2 DEF Line
  <2> HIDE DEF q, r
  <2>5. q \in Seq(Frames) /\ r \in Records
    BY <1>2 DEF q, r
  <2>6. Applied(r, Head(q)) \in Records
    BY <2>3, <2>5, AppliedRetains
  <2>7. /\ InOrder(Tail(q), Applied(r, Head(q)))
        /\ UpTo(Tail(q), Applied(r, Head(q)), Latest(d))
    BY <2>1, <2>2, <2>4, <2>5, AppliesInOrder
  <2> QED BY <1>1, <2>1, <2>3, <2>6, <2>7, OneLineStep
<1> QED BY <1>4, <1>5, <1>6

\* Every step keeps the wire in order.
LEMMA NextWire == Wire /\ [Next]_vars => Wire'
<1> SUFFICES ASSUME Wire, [Next]_vars PROVE Wire'
  OBVIOUS
<1>0. ASSUME UNCHANGED <<current, nextGen>> PROVE Advances
  BY <1>0 DEF Advances, Wire, Counters
<1>1. CASE UNCHANGED vars
  BY <1>0, <1>1, SilentStep DEF vars
<1>2. ASSUME NEW s \in Sessions, Attach(s) PROVE Wire'
  BY <1>0, <1>2, SilentStep DEF Attach, clientVars
<1>3. ASSUME NEW s \in Sessions, Die(s) \/ DetachSession(s) PROVE Wire'
  BY <1>0, <1>3, DropStep DEF Die, DetachSession
<1>4. ASSUME NEW d \in Dirs, NEW rec \in BOOLEAN, NEW k \in 1..Len(Chain[d]),
             Resync(d, rec, k)
      PROVE  Wire'
  <2>1. mirror' = mirror
    BY <1>4 DEF Resync
  <2>2. CASE Post(unsent, {}, NoFrame) /\ UNCHANGED <<current, nextGen>>
    BY <1>0, <2>1, <2>2, RemovalsStep
  <2>3. CASE \E C : CompleteDirectoryLoads(C, expanded)
    BY <2>1, <2>3, CompleteStep
  <2> QED BY <1>4, <2>2, <2>3 DEF Resync
<1>5. CASE Tick
  BY <1>0, <1>5, RemovalsStep DEF Tick, clientVars
<1>6. ASSUME NEW d \in Dirs, RemoveDir(d) \/ NativeList(d) \/ Siblings(d) PROVE Wire'
  BY <1>0, <1>6, SilentStep DEF RemoveDir, NativeList, Siblings, hostVars, clientVars
<1>7. CASE Next
  BY <1>7, <1>2, <1>3, <1>4, <1>5, <1>6, HandleStep, TaskStep, ClientStep DEF Next
<1> QED BY <1>1, <1>7

\* Whether or not sends fail, on every channel the generations about a
\* directory only grow and none is older than what the mirror retains: the
\* guard of applyDirectoryLoad (mirror-reducer.ts) never drops a real frame,
\* however tasks are superseded, completed by a resync or cancelled.
THEOREM FramesInOrder == Spec => []NoFrameIsStale
<1>1. Init => Wire
  <2> SUFFICES ASSUME Init PROVE Wire
    OBVIOUS
  <2>1. NoRecord \in Records /\ NoRecord.load = "none" /\ <<>> \in Seq(Frames)
    BY DEF NoRecord, Records
  <2>2. WireTyped /\ Counters
    BY <2>1 DEF Init, WireTyped, Counters
  <2>3. ASSUME NEW s \in Sessions, NEW d \in Dirs PROVE Line(s, d)
    BY <2>1, Forgetting DEF Init, Line
  <2> QED BY <2>2, <2>3 DEF Wire
<1>2. Wire => NoFrameIsStale
  BY DEF Wire, Line, InOrder, NoFrameIsStale
<1> QED BY <1>1, <1>2, NextWire, PTL DEF Spec

-----------------------------------------------------------------------------
(* What a completion announces; sends may fail here as well. *)

\* A task that is reading has left nothing unlisted above its position, forks
\* or not, and one that is about to complete has left nothing at all above
\* the forks it looked at last.
ReadSoFar(g) ==
  tasks[g].dir \in present =>
    /\ tasks[g].phase = "reading" =>
         \A j \in Nat : j < tasks[g].at => j \notin Unlisted(tasks[g].dir, 0, loaded, {})
    /\ tasks[g].phase = "flush" => Listed(tasks[g].dir, loaded, tasks[g].forks)

Requests == [op : {"add", "remove"}, dir : Dirs]

Read ==
  /\ tasks \in [Gens -> Tasks]
  /\ toHost \in [Sessions -> Seq(Requests)]
  /\ forked \in SUBSET Dirs
  /\ \A g \in Gens : ReadSoFar(g)

\* Two tasks at the same place of the same read.
SamePlace(t, u) ==
  t.dir = u.dir /\ t.phase = u.phase /\ t.at = u.at /\ t.forks = u.forks

\* Whom a task serves may change without moving it.
LEMMA Served ==
  ASSUME NEW t \in Tasks, NEW I \in SUBSET Sessions, NEW c \in BOOLEAN
  PROVE  /\ SamePlace([t EXCEPT !.interested = I, !.cancelled = c], t)
         /\ SamePlace([t EXCEPT !.interested = I], t)
         /\ SamePlace([t EXCEPT !.cancelled = c], t)
BY DEF Tasks, SamePlace

\* Releasing sessions moves no task.
LEMMA ReleaseStays ==
  ASSUME NEW T \in [Gens -> Tasks], NEW cur, NEW B
  PROVE  /\ Release(T, cur, B) \in [Gens -> Tasks]
         /\ \A g \in Gens : SamePlace(Release(T, cur, B)[g], T[g])
<1>1. ASSUME NEW g \in Gens
      PROVE  Release(T, cur, B)[g] \in Tasks /\ SamePlace(Release(T, cur, B)[g], T[g])
  <2> DEFINE I == T[g].interested \ B
             c == T[g].cancelled \/ (T[g].interested \ B = {})
  <2>1. T[g] \in Tasks
    OBVIOUS
  <2>2. I \in SUBSET Sessions
    BY <2>1 DEF Tasks
  <2>3. c \in BOOLEAN
    BY <2>1, Zenon DEF Tasks
  <2>4. \/ Release(T, cur, B)[g] = T[g]
        \/ Release(T, cur, B)[g] = [T[g] EXCEPT !.interested = I, !.cancelled = c]
    BY DEF Release
  <2> HIDE DEF I, c
  <2>5. SamePlace(T[g], T[g])
    BY DEF SamePlace
  <2>6. CASE Release(T, cur, B)[g] = T[g]
    BY <2>1, <2>5, <2>6
  <2>7. CASE Release(T, cur, B)[g] = [T[g] EXCEPT !.interested = I, !.cancelled = c]
    <3> DEFINE n == [T[g] EXCEPT !.interested = I, !.cancelled = c]
    <3>1. n \in Tasks
      BY <2>1, <2>2, <2>3, TaskChanges
    <3>2. SamePlace(n, T[g])
      BY <2>1, <2>2, <2>3, Served
    <3> HIDE DEF n
    <3> QED BY <2>7, <3>1, <3>2 DEF n
  <2> QED BY <2>4, <2>6, <2>7
<1> QED BY <1>1 DEF Release

\* What the disk may do in a step: entries go, and what is left of a chain is
\* listed as far as it was.
NativeShrinks ==
  /\ present' \subseteq present /\ forked' \in SUBSET Dirs
  /\ \A d \in Dirs, F \in SUBSET Dirs : d \in present' =>
       Unlisted(d, 0, loaded, F)' \subseteq Unlisted(d, 0, loaded, F)

\* More listings leave less unlisted.
LEMMA ListingShrinks ==
  ASSUME present' = present, loaded \subseteq loaded', forked' \in SUBSET Dirs
  PROVE  NativeShrinks
BY DEF NativeShrinks, Unlisted

\* Such a step keeps what tasks have read, if they stay where they are, stop
\* reading, or have read enough.
LEMMA ReadStep ==
  ASSUME Read, NativeShrinks, tasks' \in [Gens -> Tasks],
         toHost' \in [Sessions -> Seq(Requests)],
         \A g \in Gens : \/ SamePlace(tasks'[g], tasks[g])
                         \/ tasks'[g].phase \notin {"reading", "flush"}
                         \/ ReadSoFar(g)'
  PROVE  Read'
<1> SUFFICES ASSUME NEW g \in Gens PROVE ReadSoFar(g)'
  BY DEF Read, NativeShrinks
<1>1. CASE SamePlace(tasks'[g], tasks[g])
  <2>1. tasks[g].dir \in Dirs /\ tasks[g].forks \in SUBSET Dirs /\ {} \in SUBSET Dirs
    BY DEF Read, Tasks
  <2>2. ReadSoFar(g)
    BY DEF Read
  <2> QED BY <1>1, <2>1, <2>2 DEF SamePlace, ReadSoFar, NativeShrinks, Listed
<1>2. CASE tasks'[g].phase \notin {"reading", "flush"}
  BY <1>2 DEF ReadSoFar
<1> QED BY <1>1, <1>2

\* flushTickNow moves its task to phase ph and no other.
LEMMA FlushReads ==
  ASSUME Read, NativeShrinks, toHost' = toHost, NEW g \in Gens,
         NEW ph \in Phases, FlushTickNow(g, ph), NEW d \in Dirs, tasks[g].dir = d,
         ph \in {"reading", "flush"} =>
           ph = "flush" /\ \A F : F = forked => (d \in present' => Listed(d, loaded, F)')
  PROVE  Read'
<1> DEFINE T == [tasks EXCEPT ![g].phase = ph, ![g].forks = forked]
           B == Failing(unsent, {})
<1>1. tasks' = Release(T, current, B)
  BY DEF FlushTickNow
<1>2. /\ T \in [Gens -> Tasks] /\ T[g].phase = ph /\ T[g].dir = tasks[g].dir
      /\ T[g].forks = forked
      /\ \A x \in Gens : x # g => T[x] = tasks[x]
  <2>1. tasks \in [Gens -> Tasks] /\ tasks[g] \in Tasks /\ 0 \in Nat
          /\ forked \in SUBSET Dirs
    BY DEF Read
  <2>2. T = [tasks EXCEPT ![g] = [tasks[g] EXCEPT !.phase = ph, !.forks = forked]]
    BY <2>1
  <2>3. [tasks[g] EXCEPT !.phase = ph, !.forks = forked] \in Tasks
    BY <2>1 DEF Tasks
  <2>4. /\ [tasks[g] EXCEPT !.phase = ph, !.forks = forked].phase = ph
        /\ [tasks[g] EXCEPT !.phase = ph, !.forks = forked].dir = tasks[g].dir
        /\ [tasks[g] EXCEPT !.phase = ph, !.forks = forked].forks = forked
    BY <2>1 DEF Tasks
  <2> QED BY <2>1, <2>2, <2>3, <2>4
<1> HIDE DEF T, B
<1>3. tasks' \in [Gens -> Tasks] /\ \A x \in Gens : SamePlace(tasks'[x], T[x])
  BY <1>1, <1>2, ReleaseStays
<1>4. ASSUME NEW x \in Gens
      PROVE  \/ SamePlace(tasks'[x], tasks[x])
             \/ tasks'[x].phase \notin {"reading", "flush"}
             \/ ReadSoFar(x)'
  <2>1. CASE x # g
    BY <1>2, <1>3, <2>1
  <2>2. CASE x = g
    <3>1. tasks'[x].phase = ph /\ tasks'[x].dir = d /\ tasks'[x].forks = forked
      BY <1>2, <1>3, <2>2 DEF SamePlace
    <3> QED BY <3>1, <2>2 DEF ReadSoFar, Listed, Unlisted
  <2> QED BY <2>1, <2>2
<1> QED BY <1>3, <1>4, ReadStep DEF Read

\* The task leaves.
LEMMA EndReads ==
  ASSUME Read, NativeShrinks, toHost' = toHost, NEW g \in Gens,
         NEW T \in [Gens -> Tasks], \A x \in Gens : SamePlace(T[x], tasks[x]),
         EndTask(g, T)
  PROVE  Read'
<1>1. tasks' = [T EXCEPT ![g] = NoTask]
  BY DEF EndTask
<1>2. NoTask.phase = "done"
  BY DEF NoTask
<1>3. tasks' \in [Gens -> Tasks]
  BY <1>1, NoTaskType
<1>4. ASSUME NEW x \in Gens
      PROVE  \/ SamePlace(tasks'[x], tasks[x])
             \/ tasks'[x].phase \notin {"reading", "flush"}
  BY <1>1, <1>2
<1> QED BY <1>3, <1>4, ReadStep DEF Read

\* The loop of runDirectoryLoad, from a position above which everything is
\* listed in L.
LEMMA ContinueReads ==
  ASSUME Read, NativeShrinks, toHost' = toHost, NEW g \in Gens, NEW i \in Nat, NEW L,
         loaded' = L, present' = present, Continue(g, i, L),
         tasks[g].dir \in present =>
           \A j \in Nat : j <= i => j \notin Unlisted(tasks[g].dir, 0, L, {})
  PROVE  Read'
<1>0. PICK d \in Dirs : d = tasks[g].dir
  BY DEF Read, Tasks
<1> DEFINE rest == Unlisted(d, i, L, forked)
<1>1. tasks \in [Gens -> Tasks] /\ tasks[g] \in Tasks
  BY DEF Read
<1>2. \A x \in Gens : SamePlace(tasks[x], tasks[x])
  BY DEF SamePlace
<1>3. Len(Chain[d]) \in Nat
  BY <1>1, ChainAssumption
<1>4. \A j \in Unlisted(d, 0, L, forked) : /\ j \in Nat /\ (j > i => j \in rest)
                                           /\ j \in Unlisted(d, 0, L, {})
  BY <1>3 DEF Unlisted
<1>5. rest \in SUBSET Nat
  BY <1>3 DEF Unlisted
<1>6. CASE EndTask(g, tasks)
  BY <1>1, <1>2, <1>6, EndReads
<1>7. CASE rest = {} /\ FlushTickNow(g, "flush")
  <2>1. d \in present => Listed(d, L, forked)
    BY <1>0, <1>4, <1>7 DEF Listed
  <2>2. ASSUME NEW F, F = forked, d \in present PROVE Listed(d, loaded, F)'
    BY <2>1, <2>2 DEF Listed, Unlisted
  <2>3. "flush" \in Phases
    BY DEF Phases
  <2> HIDE DEF rest
  <2> QED BY <1>0, <1>7, <2>1, <2>2, <2>3, FlushReads
<1>8. CASE /\ rest # {}
           /\ tasks' = [tasks EXCEPT ![g].phase = "reading", ![g].at = First(rest)]
  <2> DEFINE k == First(rest)
             t == [tasks[g] EXCEPT !.phase = "reading", !.at = k]
  <2>1. k \in Nat /\ k \in rest /\ \A j \in rest : k <= j
    BY <1>5, <1>8, FirstIsLeast
  <2>1b. ASSUME NEW j \in Nat, i < j, j < k PROVE j \notin Unlisted(d, 0, L, {})
    <3>1. j \notin rest
      BY <2>1, <2>1b
    <3>2. k \in (i + 1)..Len(Chain[d]) /\ \A m \in i..(k - 1) : m = 0 \/ Chain[d][m] \notin forked
      BY <2>1 DEF Unlisted
    <3>3. j \in (i + 1)..Len(Chain[d]) /\ \A m \in i..(j - 1) : m = 0 \/ Chain[d][m] \notin forked
      BY <1>3, <2>1, <2>1b, <3>2
    <3> QED BY <3>1, <3>3 DEF Unlisted
  <2> HIDE DEF k, rest
  <2>2. tasks' = [tasks EXCEPT ![g] = t]
    BY <1>1, <1>8 DEF k
  <2>1a. "reading" \in Phases
    BY DEF Phases
  <2>3. t \in Tasks /\ t.phase = "reading" /\ t.dir = d /\ t.at = k
    <3>1. \A u \in Tasks : LET v == [u EXCEPT !.phase = "reading", !.at = k]
                           IN  /\ v \in Tasks /\ v.phase = "reading"
                               /\ v.dir = u.dir /\ v.at = k
      BY <2>1, <2>1a DEF Tasks
    <3> QED BY <1>0, <1>1, <3>1
  <2> HIDE DEF t
  <2>4. tasks' \in [Gens -> Tasks] /\ tasks'[g] = t
          /\ \A x \in Gens : x # g => tasks'[x] = tasks[x]
    BY <1>1, <2>2, <2>3
  <2>5. ReadSoFar(g)'
    <3> SUFFICES ASSUME d \in present, NEW j \in Nat, j < k
                 PROVE  j \notin Unlisted(d, 0, loaded, {})'
      BY <2>3, <2>4 DEF ReadSoFar
    <3>1. Unlisted(d, 0, loaded, {})' = Unlisted(d, 0, L, {})
      BY DEF Unlisted
    <3> QED BY <1>0, <2>1b, <3>1
  <2>6. ASSUME NEW x \in Gens
        PROVE  SamePlace(tasks'[x], tasks[x]) \/ ReadSoFar(x)'
    BY <1>2, <2>4, <2>5
  <2> QED BY <2>4, <2>6, ReadStep DEF Read
<1> QED BY <1>0, <1>6, <1>7, <1>8 DEF Continue

\* A step of a load task.
LEMMA TaskReads ==
  ASSUME Read, NEW g \in Gens,
         \/ RunDirectoryLoad(g)
         \/ ReadOk(g)
         \/ \E code \in {"ECANCELED", "EIO"} : ReadFails(g, code)
         \/ FinishOk(g)
         \/ FinishFailed(g)
  PROVE  Read'
<1>0. PICK d \in Dirs : d = tasks[g].dir
  BY DEF Read, Tasks
<1>1. toHost' = toHost /\ present' = present /\ loaded \subseteq loaded'
        /\ forked' = forked
  BY DEF RunDirectoryLoad, ReadOk, ReadFails, FinishOk, FinishFailed, clientVars,
     nativeVars
<1>2. NativeShrinks
  BY <1>1, ListingShrinks DEF Read
<1>3. /\ tasks \in [Gens -> Tasks] /\ \A x \in Gens : SamePlace(tasks[x], tasks[x])
      /\ tasks[g] \in Tasks /\ tasks[g].at \in Nat
  BY DEF Read, Tasks, SamePlace
<1>4. CASE RunDirectoryLoad(g)
  <2>1. Continue(g, 0, loaded) /\ loaded' = loaded
    BY <1>4 DEF RunDirectoryLoad
  <2>2. \A j \in Nat : j <= 0 => j \notin Unlisted(tasks[g].dir, 0, loaded, {})
    <3>1. Len(Chain[d]) \in Nat
      BY ChainAssumption
    <3> QED BY <1>0, <3>1 DEF Unlisted
  <2> QED BY <1>1, <1>2, <2>1, <2>2, ContinueReads
<1>5. CASE ReadOk(g)
  <2> DEFINE k == tasks[g].at
             L == loaded \cup {Chain[d][k]}
  <2>1. Continue(g, k, L) /\ loaded' = L /\ tasks[g].phase = "reading"
    BY <1>0, <1>5 DEF ReadOk
  <2>2. ASSUME d \in present, NEW j \in Nat, j <= k
        PROVE  j \notin Unlisted(d, 0, L, {})
    <3>1. CASE j = k
      BY <3>1 DEF Unlisted
    <3>2. CASE j < k
      <4>1. j \notin Unlisted(d, 0, loaded, {})
        BY <1>0, <2>1, <2>2, <3>2 DEF Read, ReadSoFar
      <4> QED BY <4>1 DEF Unlisted
    <3> QED BY <1>3, <2>2, <3>1, <3>2
  <2> HIDE DEF L, k
  <2>3. k \in Nat
    BY <1>3 DEF k
  <2> QED BY <1>0, <1>1, <1>2, <2>1, <2>2, <2>3, ContinueReads
<1>6. ASSUME NEW code, ReadFails(g, code) PROVE Read'
  <2>1. CASE Superseded(g)
    BY <1>1, <1>2, <1>3, <1>6, <2>1, EndReads DEF ReadFails
  <2>2. CASE ~Superseded(g)
    <3>1. PICK ph \in {"cancel", "fail"} : FlushTickNow(g, ph)
      BY <1>6, <2>2 DEF ReadFails
    <3>2. ph \in Phases /\ ph \notin {"reading", "flush"}
      BY DEF Phases
    <3> QED BY <1>0, <1>1, <1>2, <3>1, <3>2, FlushReads
  <2> QED BY <2>1, <2>2
<1>7. ASSUME FinishOk(g) \/ FinishFailed(g) PROVE Read'
  <2>1. \/ EndTask(g, tasks)
        \/ \E B : EndTask(g, Release(tasks, current, B))
    BY <1>7 DEF FinishOk, FinishFailed
  <2>2. CASE EndTask(g, tasks)
    BY <1>1, <1>2, <1>3, <2>2, EndReads
  <2>3. ASSUME NEW B, EndTask(g, Release(tasks, current, B)) PROVE Read'
    <3>1. /\ Release(tasks, current, B) \in [Gens -> Tasks]
          /\ \A x \in Gens : SamePlace(Release(tasks, current, B)[x], tasks[x])
      BY <1>3, ReleaseStays
    <3> QED BY <1>1, <1>2, <2>3, <3>1, EndReads
  <2> QED BY <2>1, <2>2, <2>3
<1> QED BY <1>4, <1>5, <1>6, <1>7

\* completeDirectoryLoads moves no task.
LEMMA CompleteReads ==
  ASSUME Read, NativeShrinks, NEW C, NEW E, CompleteDirectoryLoads(C, E),
         toHost' \in [Sessions -> Seq(Requests)]
  PROVE  Read'
<1> DEFINE done == [g \in Gens |-> IF \E d \in C : current[d] = g
                                   THEN [tasks[g] EXCEPT !.cancelled = TRUE]
                                   ELSE tasks[g]]
<1>1. PICK cur, B : tasks' = Release(done, cur, B)
  BY DEF CompleteDirectoryLoads
<1>2. ASSUME NEW g \in Gens PROVE done[g] \in Tasks /\ SamePlace(done[g], tasks[g])
  <2>1. tasks[g] \in Tasks /\ {} \in SUBSET Sessions
    BY DEF Read
  <2>2. /\ [tasks[g] EXCEPT !.cancelled = TRUE] \in Tasks
        /\ SamePlace([tasks[g] EXCEPT !.cancelled = TRUE], tasks[g])
        /\ SamePlace(tasks[g], tasks[g])
    BY <2>1, TaskChanges, Served DEF SamePlace
  <2> QED BY <2>1, <2>2
<1>3. done \in [Gens -> Tasks]
  BY <1>2
<1> HIDE DEF done
<1>4. tasks' \in [Gens -> Tasks] /\ \A g \in Gens : SamePlace(tasks'[g], done[g])
  BY <1>1, <1>3, ReleaseStays
<1>5. \A g \in Gens : SamePlace(tasks'[g], tasks[g])
  BY <1>2, <1>4 DEF SamePlace
<1> QED BY <1>4, <1>5, ReadStep

\* A setExpanded request on the host.
LEMMA HandleReads ==
  ASSUME Read, NEW s \in Sessions, HandleSetExpanded(s)
  PROVE  Read'
<1>1. /\ toHost \in [Sessions -> Seq(Requests)] /\ toHost[s] # <<>>
      /\ toHost' = [toHost EXCEPT ![s] = Tail(toHost[s])]
      /\ present' = present /\ loaded' = loaded /\ forked' = forked
  BY DEF HandleSetExpanded, Read
<1>2. Head(toHost[s]) \in Requests /\ Tail(toHost[s]) \in Seq(Requests)
  <2>1. toHost[s] \in Seq(Requests)
    BY <1>1
  <2> HIDE DEF Requests
  <2> QED BY <1>1, <2>1
<1>3. toHost' \in [Sessions -> Seq(Requests)]
  BY <1>1, <1>2
<1>4. NativeShrinks
  BY <1>1, ListingShrinks DEF Read
<1>5. PICK d \in Dirs : HandleAdd(s, d) \/ HandleRemove(s, d)
  <2>1. Head(toHost[s]).dir \in Dirs
    BY <1>2 DEF Requests
  <2> QED BY <2>1 DEF HandleSetExpanded
<1>6. tasks \in [Gens -> Tasks] /\ \A x \in Gens : SamePlace(tasks[x], tasks[x])
  BY DEF Read, SamePlace
<1>7. ASSUME tasks' = tasks PROVE Read'
  BY <1>3, <1>4, <1>6, <1>7, ReadStep
<1>8. ASSUME NEW g \in Gens, NEW t \in Tasks, SamePlace(t, tasks[g]),
             tasks' = [tasks EXCEPT ![g] = t]
      PROVE  Read'
  <2>1. tasks' \in [Gens -> Tasks] /\ \A x \in Gens : SamePlace(tasks'[x], tasks[x])
    BY <1>6, <1>8
  <2> QED BY <1>3, <1>4, <2>1, ReadStep
<1>9. CASE HandleAdd(s, d)
  <2> DEFINE g == current[d]
  <2>1. ASSUME NEW E, JoinLoad(s, d, E) PROVE Read'
    <3>1. tasks' = [tasks EXCEPT ![g].interested = @ \cup {s}]
      BY <2>1 DEF JoinLoad
    <3>2. CASE g \notin Gens
      <4>1. tasks' = tasks
        BY <1>6, <3>1, <3>2
      <4> QED BY <1>7, <4>1
    <3>3. CASE g \in Gens
      <4> DEFINE I == tasks[g].interested \cup {s}
      <4>1. tasks[g] \in Tasks /\ I \in SUBSET Sessions
        BY <1>6, <3>3 DEF Tasks
      <4>2. tasks' = [tasks EXCEPT ![g] = [tasks[g] EXCEPT !.interested = I]]
        BY <1>6, <3>1, <3>3
      <4> HIDE DEF I, g
      <4>3. /\ [tasks[g] EXCEPT !.interested = I] \in Tasks
            /\ SamePlace([tasks[g] EXCEPT !.interested = I], tasks[g])
        BY <4>1, TaskChanges, Served
      <4> QED BY <1>8, <3>3, <4>2, <4>3
    <3> QED BY <3>2, <3>3
  <2>2. ASSUME NEW E, StartLoad(d, E) PROVE Read'
    <3> DEFINE P == {p \in Attached : d \in E[p]}
               new == [dir |-> d, interested |-> P \ Failing({}, P),
                       cancelled |-> First(P) \in Failing({}, P),
                       phase |-> "check", at |-> 0, forks |-> {}]
               T == [tasks EXCEPT ![nextGen] = new]
    <3>1. PICK cur, B : tasks' = Release(T, cur, B)
      BY <2>2 DEF StartLoad
    <3>2. P \ Failing({}, P) \in SUBSET Sessions
      BY DEF Attached
    <3>3. (First(P) \in Failing({}, P)) \in BOOLEAN
      OBVIOUS
    <3>4. new \in Tasks /\ new.phase = "check"
      BY <3>2, <3>3 DEF Tasks, Phases
    <3> HIDE DEF new
    <3>5. T \in [Gens -> Tasks] /\ \A x \in Gens : T[x] = tasks[x] \/ T[x] = new
      BY <1>6, <3>4
    <3> HIDE DEF T
    <3>6. tasks' \in [Gens -> Tasks] /\ \A x \in Gens : SamePlace(tasks'[x], T[x])
      BY <3>1, <3>5, ReleaseStays
    <3>7. \A x \in Gens : \/ SamePlace(tasks'[x], tasks[x])
                          \/ tasks'[x].phase \notin {"reading", "flush"}
      BY <3>4, <3>5, <3>6 DEF SamePlace
    <3> QED BY <1>3, <1>4, <3>6, <3>7, ReadStep
  <2>3. ASSUME NEW E, CompleteDirectoryLoads({d}, E) PROVE Read'
    BY <1>3, <1>4, <2>3, CompleteReads
  <2> QED BY <1>7, <1>9, <2>1, <2>2, <2>3 DEF HandleAdd
<1>10. CASE HandleRemove(s, d)
  <2> DEFINE g == current[d]
  <2>1. CASE g = 0
    BY <1>7, <1>10, <2>1 DEF HandleRemove
  <2>2. CASE g # 0 /\ g \in Gens
    <3> DEFINE I == tasks[g].interested \ {s}
               c == tasks[g].cancelled \/ (tasks[g].interested \ {s} = {})
    <3>1. tasks[g] \in Tasks
      BY <1>6, <2>2
    <3>2. I \in SUBSET Sessions
      BY <3>1 DEF Tasks
    <3>3. c \in BOOLEAN
      BY <3>1, Zenon DEF Tasks
    <3>4. tasks' = [tasks EXCEPT ![g] = [tasks[g] EXCEPT !.interested = I, !.cancelled = c]]
      <4>1. tasks' = [tasks EXCEPT ![g].interested = @ \ {s},
                                   ![g].cancelled = @ \/ (tasks[g].interested \ {s} = {})]
        BY <1>10, <2>2 DEF HandleRemove
      <4> QED BY <1>6, <2>2, <4>1
    <3> HIDE DEF I, c, g
    <3>5. /\ [tasks[g] EXCEPT !.interested = I, !.cancelled = c] \in Tasks
          /\ SamePlace([tasks[g] EXCEPT !.interested = I, !.cancelled = c], tasks[g])
      BY <3>1, <3>2, <3>3, TaskChanges, Served
    <3> QED BY <1>8, <2>2, <3>4, <3>5
  <2>3. CASE g # 0 /\ g \notin Gens
    <3>1. tasks' = [tasks EXCEPT ![g].interested = @ \ {s},
                                 ![g].cancelled = @ \/ (tasks[g].interested \ {s} = {})]
      BY <1>10, <2>3 DEF HandleRemove
    <3>2. tasks' = tasks
      BY <1>6, <2>3, <3>1
    <3> QED BY <1>7, <3>2
  <2> QED BY <2>1, <2>2, <2>3
<1> QED BY <1>5, <1>9, <1>10

\* Every step keeps what tasks have read.
LEMMA NextRead == Read /\ [Next]_vars => Read'
<1> SUFFICES ASSUME Read, [Next]_vars PROVE Read'
  OBVIOUS
<1>1. /\ tasks \in [Gens -> Tasks] /\ toHost \in [Sessions -> Seq(Requests)]
      /\ \A g \in Gens : SamePlace(tasks[g], tasks[g])
  BY DEF Read, SamePlace
<1>2. ASSUME NEW B, tasks' = tasks \/ tasks' = Release(tasks, current, B),
             toHost' \in [Sessions -> Seq(Requests)], NativeShrinks
      PROVE  Read'
  <2>1. tasks' \in [Gens -> Tasks] /\ \A g \in Gens : SamePlace(tasks'[g], tasks[g])
    BY <1>1, <1>2, ReleaseStays
  <2> QED BY <1>2, <2>1, ReadStep
<1>3. ASSUME UNCHANGED <<present, loaded>>, forked' \in SUBSET Dirs PROVE NativeShrinks
  BY <1>3, ListingShrinks
<1>3a. forked \in SUBSET Dirs
  BY DEF Read
<1>4. CASE UNCHANGED vars
  BY <1>1, <1>2, <1>3, <1>3a, <1>4 DEF vars
<1>5. ASSUME NEW s \in Sessions, Attach(s) PROVE Read'
  BY <1>1, <1>2, <1>3, <1>3a, <1>5 DEF Attach, nativeVars, clientVars
<1>6. ASSUME NEW s \in Sessions, Die(s) \/ DetachSession(s) PROVE Read'
  <2>1. toHost' = [toHost EXCEPT ![s] = <<>>] /\ UNCHANGED <<present, loaded, forked>>
    BY <1>6 DEF Die, DetachSession, DropWire, nativeVars
  <2>2. toHost' \in [Sessions -> Seq(Requests)]
    <3>1. <<>> \in Seq(Requests)
      OBVIOUS
    <3> QED BY <1>1, <2>1, <3>1
  <2>3. tasks' = tasks \/ tasks' = Release(tasks, current, {s})
    BY <1>6 DEF Die, DetachSession
  <2> QED BY <1>2, <1>3, <1>3a, <2>1, <2>2, <2>3
<1>7. ASSUME NEW s \in Sessions, NEW d \in Dirs,
             ClientExpand(s, d) \/ ClientCollapse(s, d) \/ ClientApply(s, d)
      PROVE  Read'
  <2>1. tasks' = tasks /\ UNCHANGED <<present, loaded, forked>>
    BY <1>7 DEF ClientExpand, ClientCollapse, ClientApply, Request, hostVars, nativeVars
  <2>2. ASSUME NEW op \in {"add", "remove"}, Request(s, d, op)
        PROVE  toHost' \in [Sessions -> Seq(Requests)]
    <3> DEFINE r == [op |-> op, dir |-> d]
    <3>1. r \in Requests
      BY DEF Requests
    <3>2. toHost' = [toHost EXCEPT ![s] = Append(@, r)]
      BY <2>2 DEF Request
    <3> HIDE DEF r
    <3> QED BY <1>1, <3>1, <3>2
  <2>3. toHost' \in [Sessions -> Seq(Requests)]
    BY <1>1, <1>7, <2>2 DEF ClientExpand, ClientCollapse, ClientApply
  <2> QED BY <1>2, <1>3, <1>3a, <2>1, <2>3
<1>8. ASSUME NEW d \in Dirs, NEW rec \in BOOLEAN, NEW k \in 1..Len(Chain[d]),
             Resync(d, rec, k)
      PROVE  Read'
  <2>1. toHost' = toHost /\ present' = present /\ loaded \subseteq loaded'
          /\ forked' = forked
    BY <1>8 DEF Resync
  <2>2. NativeShrinks
    BY <1>3a, <2>1, ListingShrinks
  <2>3. CASE \E C : CompleteDirectoryLoads(C, expanded)
    BY <1>1, <2>1, <2>2, <2>3, CompleteReads
  <2>4. CASE \E B : tasks' = Release(tasks, current, B)
    BY <1>1, <1>2, <2>1, <2>2, <2>4
  <2> QED BY <1>8, <2>3, <2>4 DEF Resync
<1>9. CASE Tick
  BY <1>1, <1>2, <1>3, <1>3a, <1>9 DEF Tick, clientVars
<1>10. ASSUME NEW d \in Dirs, NativeList(d) \/ Siblings(d) PROVE Read'
  <2>1. forked' \in SUBSET Dirs /\ present' = present /\ loaded \subseteq loaded'
    BY <1>3a, <1>10 DEF NativeList, Siblings
  <2>2. NativeShrinks
    BY <2>1, ListingShrinks
  <2> QED BY <1>1, <1>2, <1>10, <2>2 DEF NativeList, Siblings, hostVars, clientVars
<1>11. ASSUME NEW d \in Dirs, RemoveDir(d) PROVE Read'
  <2> DEFINE below == {Chain[d][i] : i \in 1..Len(Chain[d])}
  <2>1. present' = present \ below /\ loaded' = loaded \ below /\ forked' = forked \ below
    BY <1>11 DEF RemoveDir
  <2> HIDE DEF below
  <2>2. ASSUME NEW c \in Dirs, NEW F \in SUBSET Dirs, c \in present'
        PROVE  Unlisted(c, 0, loaded, F)' \subseteq Unlisted(c, 0, loaded, F)
    <3>1. Chain[c][1] = c
      BY ChainAssumption
    <3> QED BY <2>1, <2>2, <3>1 DEF Unlisted
  <2>3. NativeShrinks
    BY <1>3a, <2>1, <2>2 DEF NativeShrinks
  <2> QED BY <1>1, <1>2, <1>11, <2>3 DEF RemoveDir, hostVars, clientVars
<1>12. CASE Next
  BY <1>12, <1>5, <1>6, <1>7, <1>8, <1>9, <1>10, <1>11, HandleReads, TaskReads DEF Next
<1> QED BY <1>4, <1>12

\* Frames that are posted, and say "complete" of listed directories only.
Announces(R, P, f) ==
  /\ Post(R, P, f)
  /\ f.state = "complete" =>
       \A s \in Sessions, d \in Dirs :
         <<s, d>> \in P /\ d \in present => Listed(d, loaded', forked' \cup Seen(f.gen))

\* A fork more leaves no more to list.
LEMMA MoreForks ==
  ASSUME NEW d \in Dirs, NEW L, NEW F, NEW G, Listed(d, L, F)
  PROVE  Listed(d, L, F \cup G)
BY DEF Listed, Unlisted

\* What a step does to what sessions were told.
Tells ==
  \/ told' = told
  \/ \E s \in Sessions : DropWire(s)
  \/ \E R, P, f : Announces(R, P, f)

\* A tick announces no completion.
LEMMA TickTells ==
  ASSUME NEW R, Post(R, {}, NoFrame)
  PROVE  Tells
<1>1. NoFrame.state # "complete"
  BY DEF NoFrame
<1>2. Announces(R, {}, NoFrame)
  BY <1>1 DEF Announces
<1> QED BY <1>2 DEF Tells

\* completeDirectoryLoads announces the directories it was given.
LEMMA CompleteTells ==
  ASSUME NEW C, NEW E, CompleteDirectoryLoads(C, E),
         \A d \in Dirs : d \in C => Listed(d, loaded', forked')
  PROVE  Tells
<1> DEFINE P == {x \in Attached \X C : x[2] \in E[x[1]]}
           f == [state |-> "complete", gen |-> nextGen]
<1>1. Post(unsent, P, f)
  BY DEF CompleteDirectoryLoads
<1>2. \A s \in Sessions, d \in Dirs : <<s, d>> \in P => d \in C
  OBVIOUS
<1> HIDE DEF P, f
<1>3. Announces(unsent, P, f)
  BY <1>1, <1>2, MoreForks DEF Announces
<1> QED BY <1>3 DEF Tells

\* A step of a load task: it completes only what it has read.
LEMMA TaskTells ==
  ASSUME Read, NEW g \in Gens,
         \/ RunDirectoryLoad(g)
         \/ ReadOk(g)
         \/ \E code \in {"ECANCELED", "EIO"} : ReadFails(g, code)
         \/ FinishOk(g)
         \/ FinishFailed(g)
  PROVE  Tells
<1>1. ASSUME NEW ph, FlushTickNow(g, ph) PROVE Tells
  BY <1>1, TickTells DEF FlushTickNow
<1>2. ASSUME NEW i, NEW L, Continue(g, i, L) PROVE Tells
  BY <1>1, <1>2 DEF Continue, Quiet, Tells
<1>3. ASSUME NEW code, ReadFails(g, code) PROVE Tells
  BY <1>1, <1>3 DEF ReadFails, Quiet, Tells
<1>4. ASSUME FinishOk(g) PROVE Tells
  <2>1. CASE Superseded(g) \/ tasks[g].cancelled
    BY <1>4, <2>1 DEF FinishOk, Tells
  <2>2. CASE ~(Superseded(g) \/ tasks[g].cancelled)
    <3> DEFINE f == [state |-> "complete", gen |-> g]
    <3>1. PICK S : Post({}, S \X {tasks[g].dir}, f)
      BY <1>4, <2>2 DEF FinishOk
    <3>2. PICK d \in Dirs : d = tasks[g].dir
      BY DEF Read, Tasks
    <3>3. d \in present => Listed(d, loaded, tasks[g].forks)
      BY <1>4, <3>2 DEF FinishOk, Read, ReadSoFar
    <3>4. d \in present => Listed(d, loaded', forked' \cup Seen(f.gen))
      <4>1. loaded' = loaded /\ Seen(f.gen) = tasks[g].forks
        BY <1>4 DEF FinishOk, nativeVars, Seen
      <4>2. d \in present => Listed(d, loaded, tasks[g].forks \cup forked')
        BY <3>3, MoreForks
      <4>3. tasks[g].forks \cup forked' = forked' \cup tasks[g].forks
        OBVIOUS
      <4> QED BY <4>1, <4>2, <4>3
    <3>5. \A x \in Sessions, c \in Dirs : <<x, c>> \in S \X {d} => c = d
      OBVIOUS
    <3>6. Post({}, S \X {d}, f)
      BY <3>1, <3>2
    <3> HIDE DEF f
    <3>7. Announces({}, S \X {d}, f)
      BY <3>4, <3>5, <3>6 DEF Announces
    <3> QED BY <3>7 DEF Tells
  <2> QED BY <2>1, <2>2
<1>5. ASSUME FinishFailed(g) PROVE Tells
  <2>1. CASE Superseded(g)
    BY <1>5, <2>1 DEF FinishFailed, Tells
  <2>2. CASE ~Superseded(g)
    <3>1. PICK S, st : /\ st \in {"error", "cancelled"}
                       /\ Post({}, S \X {tasks[g].dir}, [state |-> st, gen |-> g])
      BY <1>5, <2>2 DEF FinishFailed
    <3>2. [state |-> st, gen |-> g].state # "complete"
      BY <3>1
    <3>3. Announces({}, S \X {tasks[g].dir}, [state |-> st, gen |-> g])
      BY <3>1, <3>2 DEF Announces
    <3> QED BY <3>3 DEF Tells
  <2> QED BY <2>1, <2>2
<1> QED BY <1>2, <1>3, <1>4, <1>5 DEF RunDirectoryLoad, ReadOk

\* A setExpanded request: a directory is completed at once only if listed.
LEMMA HandleTells ==
  ASSUME Read, NEW s \in Sessions, HandleSetExpanded(s)
  PROVE  Tells
<1>1. UNCHANGED <<loaded, forked>>
  BY DEF HandleSetExpanded
<1>2. PICK d \in Dirs : HandleAdd(s, d) \/ HandleRemove(s, d)
  <2>1. Head(toHost[s]) \in Requests
    <3>1. toHost[s] \in Seq(Requests) /\ toHost[s] # <<>>
      BY DEF HandleSetExpanded, Read
    <3> HIDE DEF Requests
    <3> QED BY <3>1
  <2>2. Head(toHost[s]).dir \in Dirs
    BY <2>1 DEF Requests
  <2> QED BY <2>2 DEF HandleSetExpanded
<1>3. ASSUME NEW R, NEW P, NEW st \in {"error", "loading", "cancelled"}, NEW n,
             Post(R, P, [state |-> st, gen |-> n])
      PROVE  Tells
  <2>1. [state |-> st, gen |-> n].state # "complete"
    OBVIOUS
  <2>2. Announces(R, P, [state |-> st, gen |-> n])
    BY <1>3, <2>1 DEF Announces
  <2> QED BY <2>2 DEF Tells
<1>4. CASE HandleRemove(s, d)
  BY <1>3, <1>4 DEF HandleRemove, Tells
<1>5. CASE HandleAdd(s, d)
  <2>1. ASSUME NEW E, Listed(d, loaded, forked), CompleteDirectoryLoads({d}, E) PROVE Tells
    BY <1>1, <2>1, CompleteTells
  <2>2. ASSUME NEW E, JoinLoad(s, d, E) PROVE Tells
    BY <1>3, <2>2 DEF JoinLoad
  <2>3. ASSUME NEW E, StartLoad(d, E) PROVE Tells
    BY <1>3, <2>3 DEF StartLoad
  <2> QED BY <1>3, <1>5, <2>1, <2>2, <2>3 DEF HandleAdd
<1> QED BY <1>2, <1>4, <1>5

\* Every step announces listed directories only.
LEMMA NextTells ==
  ASSUME Read, [Next]_vars
  PROVE  Tells
<1>1. ASSUME NEW d \in Dirs, NEW rec \in BOOLEAN, NEW k \in 1..Len(Chain[d]),
             Resync(d, rec, k)
      PROVE  Tells
  <2> DEFINE L == loaded \cup ({Chain[d][i] : i \in 1..k} \cap present)
             C == Recovered(d, rec, L)
  <2>1. loaded' = L /\ forked' = forked
    BY <1>1 DEF Resync
  <2>2. ASSUME NEW c \in Dirs, c \in C PROVE Listed(c, loaded', forked')
    <3>1. Listed(c, L, forked)
      BY <2>2 DEF Recovered
    <3> HIDE DEF L
    <3> QED BY <2>1, <3>1
  <2>3. CASE CompleteDirectoryLoads(C, expanded)
    BY <2>2, <2>3, CompleteTells
  <2>4. CASE Post(unsent, {}, NoFrame)
    BY <2>4, TickTells
  <2> QED BY <1>1, <2>3, <2>4 DEF Resync
<1>2. CASE Tick
  BY <1>2, TickTells DEF Tick
<1>3. CASE Next
  BY <1>1, <1>2, <1>3, HandleTells, TaskTells
     DEF Next, Tells, Attach, Die, DetachSession, ClientExpand, ClientCollapse,
         ClientApply, Request, RemoveDir, NativeList, Siblings, hostVars
<1> QED BY <1>3 DEF vars, Tells

\* What was told is kept per session.
ToldShape == told = [s \in Sessions |-> told[s]]

\* Whether or not sends fail and however the chain changes, a window is told
\* "complete" of a directory that still exists only when its whole compact
\* chain is listed, but for what joined it during the task's last tick
\* (runDirectoryLoad, completeDirectoryLoads).
THEOREM CompletesWhatIsListed == Spec => CompleteMeansListed
<1>1. Init => Read /\ ToldShape
  <2> SUFFICES ASSUME Init PROVE Read /\ ToldShape
    OBVIOUS
  <2>1. tasks \in [Gens -> Tasks] /\ \A g \in Gens : tasks[g].phase = "done"
    BY NoTaskType DEF Init, NoTask
  <2>2. toHost \in [Sessions -> Seq(Requests)]
    <3>1. <<>> \in Seq(Requests)
      OBVIOUS
    <3> QED BY <3>1 DEF Init
  <2> QED BY <2>1, <2>2 DEF Init, Read, ReadSoFar, ToldShape
<1>2. Read /\ ToldShape /\ [Next]_vars => ToldShape'
  <2> SUFFICES ASSUME Read, ToldShape, [Next]_vars PROVE ToldShape'
    OBVIOUS
  <2>1. Tells
    BY NextTells
  <2>2. ASSUME NEW R, NEW P, NEW f, Post(R, P, f) PROVE ToldShape'
    BY <2>2 DEF Post, ToldShape
  <2>3. ASSUME NEW s \in Sessions, DropWire(s) PROVE ToldShape'
    BY <2>3 DEF DropWire, ToldShape
  <2> QED BY <2>1, <2>2, <2>3 DEF Tells, Announces, ToldShape
<1>3. Read /\ ToldShape /\ [Next]_vars =>
        [\A s \in Sessions, d \in Dirs :
           (told'[s][d].state = "complete" /\ told'[s][d] # told[s][d]
              /\ d \in present) =>
             Listed(d, loaded', forked' \cup Seen(told'[s][d].gen))]_vars
  <2> SUFFICES ASSUME Read, ToldShape, [Next]_vars, NEW s \in Sessions,
                      NEW d \in Dirs, told'[s][d].state = "complete",
                      told'[s][d] # told[s][d], d \in present
               PROVE  Listed(d, loaded', forked' \cup Seen(told'[s][d].gen))
    OBVIOUS
  <2>1. Tells
    BY NextTells
  <2>2. ASSUME NEW p \in Sessions, DropWire(p) PROVE FALSE
    <3>1. told' = [told EXCEPT ![p] = [x \in Dirs |-> NoFrame]]
      BY <2>2 DEF DropWire
    <3>2. told'[s] = told[s] \/ told'[s][d] = NoFrame
      BY <3>1 DEF ToldShape
    <3> QED BY <3>2 DEF NoFrame
  <2>3. ASSUME NEW R, NEW P, NEW f, Announces(R, P, f)
        PROVE  Listed(d, loaded', forked' \cup Seen(told'[s][d].gen))
    <3>1. told'[s][d] = IF port[s] # "open" THEN told[s][d]
                        ELSE IF <<s, d>> \in P THEN f
                        ELSE IF d \in R THEN Removed
                        ELSE told[s][d]
      BY <2>3, PostTold DEF Announces
    <3>2. told'[s][d] = f /\ <<s, d>> \in P
      BY <3>1 DEF Removed
    <3> QED BY <2>3, <3>2 DEF Announces
  <2> QED BY <2>1, <2>2, <2>3 DEF Tells
<1> QED BY <1>1, <1>2, <1>3, NextRead, PTL DEF Spec, CompleteMeansListed
=============================================================================
