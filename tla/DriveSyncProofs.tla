--------------------------- MODULE DriveSyncProofs ---------------------------
(***************************************************************************)
(* Proofs about DriveSync for any number of replicas, links and changes.   *)
(*                                                                         *)
(* A want is a conversation: the asker names the object, the asked peer    *)
(* remembers it until it holds the object and then answers, and the asker  *)
(* records the answer.  WantIsKnown says that the conversation is always   *)
(* somewhere.  What makes it inductive is that no peer asks before it has  *)
(* said Hello (Hailed), for a Want from a stranger is not remembered; that *)
(* what was asked for is in the document already (Asked), so that a wider  *)
(* document makes nothing wanted again; and that a copy that has landed is *)
(* never wanted again, since its report forgets the holders (Moving).      *)
(***************************************************************************)
EXTENDS DriveSync, TLAPS

-----------------------------------------------------------------------------
(* Sequences of frames. *)

\* A frame of this kind in q names c.
Names(q, kind, c) == \E i \in DOMAIN q : q[i].kind = kind /\ c \in q[i].set

NoWant(q) == \A i \in DOMAIN q : q[i].kind # "want"

\* q holds a Hello, and no Want before it.
HelloFirst(q) ==
  \E i \in DOMAIN q : q[i].kind = "hello" /\ \A j \in 1..i : q[j].kind # "want"

\* Frames one after the other name what either names, and stay in order.
LEMMA Joined ==
  ASSUME NEW a \in Seq(Frames), NEW b \in Seq(Frames)
  PROVE  /\ a \o b \in Seq(Frames)
         /\ \A k, c : Names(a, k, c) => Names(a \o b, k, c)
         /\ \A k, c : Names(b, k, c) => Names(a \o b, k, c)
         /\ NoWant(a) /\ NoWant(b) => NoWant(a \o b)
         /\ HelloFirst(a) => HelloFirst(a \o b)
         /\ NoWant(a) /\ HelloFirst(b) => HelloFirst(a \o b)
<1>0. /\ a \o b \in Seq(Frames) /\ Len(a \o b) = Len(a) + Len(b)
      /\ Len(a) \in Nat /\ Len(b) \in Nat
      /\ DOMAIN a = 1..Len(a) /\ DOMAIN b = 1..Len(b)
      /\ DOMAIN (a \o b) = 1..(Len(a) + Len(b))
  OBVIOUS
<1>1. \A i \in 1..Len(a) : i \in DOMAIN (a \o b) /\ (a \o b)[i] = a[i]
  BY <1>0
<1>2. \A i \in 1..Len(b) : Len(a) + i \in DOMAIN (a \o b) /\ (a \o b)[Len(a) + i] = b[i]
  BY <1>0
<1>3. \A i \in DOMAIN (a \o b) : i \in 1..Len(a) \/ \E j \in 1..Len(b) : i = Len(a) + j
  <2> SUFFICES ASSUME NEW i \in 1..(Len(a) + Len(b)), ~(i <= Len(a))
               PROVE  \E j \in 1..Len(b) : i = Len(a) + j
    BY <1>0
  <2>1. i - Len(a) \in 1..Len(b) /\ i = Len(a) + (i - Len(a))
    BY <1>0
  <2> QED BY <2>1
<1>4. \A k, c : Names(a, k, c) => Names(a \o b, k, c)
  BY <1>0, <1>1 DEF Names
<1>5. \A k, c : Names(b, k, c) => Names(a \o b, k, c)
  BY <1>0, <1>2 DEF Names
<1>6. NoWant(a) /\ NoWant(b) => NoWant(a \o b)
  BY <1>0, <1>1, <1>2, <1>3 DEF NoWant
<1>7. HelloFirst(a) => HelloFirst(a \o b)
  <2> SUFFICES ASSUME NEW i \in 1..Len(a), a[i].kind = "hello",
                      \A j \in 1..i : a[j].kind # "want"
               PROVE  HelloFirst(a \o b)
    BY <1>0 DEF HelloFirst
  <2>1. \A j \in 1..i : (a \o b)[j].kind # "want"
    BY <1>0, <1>1
  <2> QED BY <1>1, <2>1 DEF HelloFirst
<1>8. NoWant(a) /\ HelloFirst(b) => HelloFirst(a \o b)
  <2> SUFFICES ASSUME NoWant(a), NEW i \in 1..Len(b), b[i].kind = "hello",
                      \A j \in 1..i : b[j].kind # "want"
               PROVE  HelloFirst(a \o b)
    BY <1>0 DEF HelloFirst
  <2>1. Len(a) + i \in DOMAIN (a \o b) /\ (a \o b)[Len(a) + i].kind = "hello"
    BY <1>2
  <2>2. ASSUME NEW j \in 1..(Len(a) + i) PROVE (a \o b)[j].kind # "want"
    <3>1. CASE j <= Len(a)
      BY <3>1, <1>0, <1>1 DEF NoWant
    <3>2. CASE ~(j <= Len(a))
      <4>1. j - Len(a) \in 1..i /\ j = Len(a) + (j - Len(a))
        BY <3>2, <1>0
      <4>2. (a \o b)[Len(a) + (j - Len(a))] = b[j - Len(a)]
        BY <4>1, <1>0, <1>2
      <4> QED BY <4>1, <4>2
    <3> QED BY <3>1, <3>2
  <2> QED BY <2>1, <2>2 DEF HelloFirst
<1> QED BY <1>0, <1>4, <1>5, <1>6, <1>7, <1>8

\* Taking the first frame leaves the others, in order.
LEMMA TakenOff ==
  ASSUME NEW q \in Seq(Frames), q # <<>>
  PROVE  /\ Tail(q) \in Seq(Frames) /\ Head(q) \in Frames
         /\ \A k, c : Names(q, k, c) => Names(Tail(q), k, c) \/ (k = Head(q).kind /\ c \in Head(q).set)
         /\ NoWant(q) => NoWant(Tail(q))
         /\ HelloFirst(q) => \/ Head(q).kind = "hello"
                             \/ Head(q).kind # "want" /\ HelloFirst(Tail(q))
<1>0. /\ Tail(q) \in Seq(Frames) /\ Head(q) \in Frames /\ Head(q) = q[1]
      /\ Len(q) \in Nat /\ Len(q) >= 1 /\ DOMAIN q = 1..Len(q)
      /\ DOMAIN Tail(q) = 1..(Len(q) - 1)
      /\ \A i \in 1..(Len(q) - 1) : Tail(q)[i] = q[i + 1]
  OBVIOUS
<1>1. \A i \in 1..Len(q) : i # 1 => i - 1 \in 1..(Len(q) - 1) /\ Tail(q)[i - 1] = q[i]
  <2> SUFFICES ASSUME NEW i \in 1..Len(q), i # 1
               PROVE  i - 1 \in 1..(Len(q) - 1) /\ Tail(q)[i - 1] = q[i]
    OBVIOUS
  <2>1. i - 1 \in 1..(Len(q) - 1) /\ (i - 1) + 1 = i
    BY <1>0
  <2> QED BY <1>0, <2>1
<1>2. \A k, c : Names(q, k, c) => Names(Tail(q), k, c) \/ (k = Head(q).kind /\ c \in Head(q).set)
  BY <1>0, <1>1 DEF Names
<1>3. NoWant(q) => NoWant(Tail(q))
  <2> SUFFICES ASSUME NoWant(q), NEW i \in 1..(Len(q) - 1) PROVE Tail(q)[i].kind # "want"
    BY <1>0 DEF NoWant
  <2>1. i + 1 \in 1..Len(q)
    BY <1>0
  <2> QED BY <1>0, <2>1 DEF NoWant
<1>4. HelloFirst(q) => \/ Head(q).kind = "hello"
                       \/ Head(q).kind # "want" /\ HelloFirst(Tail(q))
  <2> SUFFICES ASSUME NEW i \in 1..Len(q), q[i].kind = "hello",
                      \A j \in 1..i : q[j].kind # "want", Head(q).kind # "hello"
               PROVE  Head(q).kind # "want" /\ HelloFirst(Tail(q))
    BY <1>0 DEF HelloFirst
  <2>1. i # 1
    BY <1>0
  <2>2. i - 1 \in 1..(Len(q) - 1) /\ Tail(q)[i - 1].kind = "hello"
    BY <2>1, <1>1
  <2>3. ASSUME NEW j \in 1..(i - 1) PROVE Tail(q)[j].kind # "want"
    <3>1. j + 1 \in 1..i /\ j \in 1..(Len(q) - 1)
      BY <1>0
    <3> QED BY <3>1, <1>0
  <2>4. HelloFirst(Tail(q))
    BY <1>0, <2>2, <2>3 DEF HelloFirst
  <2>5. 1 \in 1..i
    BY <1>0
  <2> QED BY <1>0, <2>4, <2>5
<1> QED BY <1>0, <1>2, <1>3, <1>4

\* No frame.
LEMMA Empty == <<>> \in Seq(Frames) /\ NoWant(<<>>)
BY DEF NoWant

\* One frame, unless it would name nothing.
LEMMA OneFrame ==
  ASSUME NEW kind \in {"hello", "updates", "want", "have"}, NEW set \in SUBSET Changes
  PROVE  /\ Frame(kind, set) \in Seq(Frames)
         /\ \A c \in set : Names(Frame(kind, set), kind, c)
         /\ kind # "want" \/ set = {} => NoWant(Frame(kind, set))
<1>1. CASE set = {}
  BY <1>1, Empty DEF Frame
<1>2. CASE set # {}
  <2> DEFINE f == [kind |-> kind, set |-> set]
  <2>1. f \in Frames /\ f.kind = kind /\ f.set = set
    BY DEF Frames
  <2> HIDE DEF f
  <2>2. <<f>> \in Seq(Frames) /\ DOMAIN <<f>> = {1} /\ <<f>>[1] = f
    BY <2>1
  <2>3. Frame(kind, set) = <<f>>
    BY <1>2 DEF Frame, f
  <2> QED BY <1>2, <2>1, <2>2, <2>3 DEF Names, NoWant
<1> QED BY <1>1, <1>2

-----------------------------------------------------------------------------
(* The invariant. *)

\* A value with the fields of a SyncState.
IsSync(S) ==
  S = [peers |-> S.peers, known |-> S.known, vv |-> S.vv, wanted |-> S.wanted,
       holders |-> S.holders, failed |-> S.failed, inflight |-> S.inflight,
       asked |-> S.asked]

SyncTyped(S) ==
  /\ IsSync(S)
  /\ S.peers \subseteq Drives
  /\ S.wanted \in [Drives -> SUBSET Changes]
  /\ S.holders \in [Changes -> Seq(Drives)]

Sends == [Drives -> Seq(Frames)]

\* A table with a row for each drive and a column for each change.
IsTable(X) == X = [d \in Drives |-> [o \in Changes |-> X[d][o]]]

Typed ==
  /\ deps \in Seq(SUBSET Changes)
  /\ doc \in [Drives -> SUBSET Changes]
  /\ parked \in [Drives -> SUBSET Changes]
  /\ store \in [Drives -> SUBSET Changes]
  /\ net \in [Drives -> Sends]
  /\ sync = [d \in Drives |-> sync[d]]
  /\ \A d \in Drives : SyncTyped(sync[d])
  /\ IsTable(transfers)

\* What a drive has asked for is in its document.
Asked == \A d \in Drives : sync[d].asked \subseteq doc[d]

\* Actions the core has returned: pulls of objects the document names.
ActsTyped(d, acts) ==
  /\ acts.send \in Sends
  /\ \A o \in Changes : acts.pull[o] # Nobody => o \in doc[d]

\* A transfer is of an object the document names; until its report is back it
\* has nothing to send; and once the copy has landed it is no longer wanted.
TransferOK(d, o, t) ==
  /\ t = [from |-> t.from, n |-> t.n, acts |-> t.acts, phase |-> t.phase]
  /\ o \in doc[d]
  /\ ActsTyped(d, t.acts)
  /\ t.phase # "acted" => t.acts.send = Silence
  /\ t.phase = "landed" => o \notin Wants(doc[d], store[d])

Moving == \A d \in Drives, o \in Changes : \A t \in transfers[d][o] : TransferOK(d, o, t)

\* With the frames q on a link: its sender is known at the other end, or will
\* be by the time a Want comes off the link, or has not opened it and asks for
\* nothing.
Hail(q, heard, open, quiet) ==
  heard \/ HelloFirst(q) \/ (~open /\ NoWant(q) /\ quiet)

\* No report that is not back yet asks p for anything.
Quiet(d, p) == \A o \in Changes : \A t \in transfers[d][o] : NoWant(t.acts.send[p])

Hailed ==
  \A d, p \in Drives : Hail(net[d][p], d \in sync[p].peers, p \in sync[d].peers, Quiet(d, p))

\* WantIsKnown, for one drive, peer and object.
Holds(S, o, p) == \E i \in DOMAIN S.holders[o] : S.holders[o][i] = p

KnownTo(d, p, o) ==
  \/ OnItsWay(d, p, "want", o)
  \/ d \in sync[p].peers /\ o \in sync[p].wanted[d]
  \/ OnItsWay(p, d, "have", o)
  \/ Holds(sync[d], o, p)

Known ==
  \A d \in Drives : \A p \in sync[d].peers : \A o \in Wants(doc[d], store[d]) : KnownTo(d, p, o)

Good == Typed /\ Asked /\ Moving /\ Hailed /\ Known

\* Faults are counted from none, and until there is one all is good.
Inv == faults \in Nat /\ (faults = 0 => Good)

\* The invariant contains the property.
LEMMA KnownIsWantIsKnown == ASSUME Inv PROVE WantIsKnown
BY DEF Inv, Good, Known, KnownTo, Holds, WantIsKnown

-----------------------------------------------------------------------------
(* What is wanted. *)

\* Of the changes a drive knew, a wider document wants no others.
LEMMA NothingWantedAgain ==
  ASSUME NEW D, NEW E, D \subseteq E, NEW H, NEW o \in D, o \in Wants(E, H)
  PROVE  o \in Wants(D, H)
BY DEF Wants, Retained

\* Wants come from the document and are not held.
LEMMA WantedIsNamed ==
  ASSUME NEW D, NEW H
  PROVE  Wants(D, H) \subseteq D /\ \A o \in Wants(D, H) : o \notin H
BY DEF Wants, Retained

-----------------------------------------------------------------------------
(* What the core says to send. *)

\* A greeting opens with a Hello and names every want.
LEMMA Greets ==
  ASSUME Typed, NEW d \in Drives
  PROVE  /\ Hello(d) \in Seq(Frames) /\ NoWant(Hello(d)) /\ HelloFirst(Hello(d))
         /\ Greeting(d) \in Seq(Frames) /\ HelloFirst(Greeting(d))
         /\ \A c \in Wants(doc[d], store[d]) : Names(Greeting(d), "want", c)
<1> DEFINE f == [kind |-> "hello", set |-> doc[d]]
<1>1. f \in Frames /\ f.kind = "hello"
  BY DEF Frames, Typed
<1>2. Hello(d) = <<f>>
  BY DEF Hello
<1> HIDE DEF f
<1>3. <<f>> \in Seq(Frames) /\ DOMAIN <<f>> = {1} /\ <<f>>[1] = f
  BY <1>1
<1>4. Hello(d) \in Seq(Frames) /\ NoWant(Hello(d))
  BY <1>1, <1>2, <1>3 DEF NoWant
<1>5. HelloFirst(Hello(d))
  <2>1. \A j \in 1..1 : j = 1
    OBVIOUS
  <2> QED BY <1>1, <1>2, <1>3, <2>1 DEF HelloFirst
<1> DEFINE W == Wants(doc[d], store[d])
<1>6. W \in SUBSET Changes
  BY WantedIsNamed DEF Typed
<1>7. /\ Frame("want", W) \in Seq(Frames)
      /\ \A c \in W : Names(Frame("want", W), "want", c)
  BY <1>6, OneFrame
<1>8. Greeting(d) = Hello(d) \o Frame("want", W)
  BY DEF Greeting
<1> HIDE DEF W
<1>9. /\ Greeting(d) \in Seq(Frames) /\ HelloFirst(Greeting(d))
      /\ \A c \in W : Names(Greeting(d), "want", c)
  BY <1>4, <1>5, <1>7, <1>8, Joined
<1> QED BY <1>4, <1>5, <1>9 DEF W

\* The state the core ends in.
LEMMA ReactState ==
  ASSUME NEW d, NEW D, NEW S, NEW out, IsSync(S)
  PROVE  LET r == React(d, D, S, out).sync
         IN  /\ IsSync(r)
             /\ r.peers = S.peers
             /\ r.asked = Wants(D, store[d])
             /\ r.wanted = [p \in Drives |-> S.wanted[p] \ store[d]]
             /\ r.holders = [o \in Changes |->
                  IF o \in Wants(D, store[d]) THEN S.holders[o] ELSE <<>>]
BY DEF IsSync, React

\* Its frames follow those of the trigger: new wants go to the open peers, and
\* answers to those whose wants are now held.  Its pulls are of wants.
LEMMA ReactActs ==
  ASSUME Typed, NEW d \in Drives, NEW D \in SUBSET Changes, NEW S, SyncTyped(S),
         NEW out \in Sends
  PROVE  LET acts == React(d, D, S, out).acts
         IN  /\ acts.send \in Sends
             /\ \A p \in Drives : \A k, c : Names(out[p], k, c) => Names(acts.send[p], k, c)
             /\ \A p \in Drives : HelloFirst(out[p]) => HelloFirst(acts.send[p])
             /\ \A p \in Drives : NoWant(out[p]) /\ p \notin S.peers => NoWant(acts.send[p])
             /\ \A p \in S.peers : \A c \in Wants(D, store[d]) \ S.asked :
                  Names(acts.send[p], "want", c)
             /\ \A p \in Drives : \A c \in S.wanted[p] \cap store[d] :
                  Names(acts.send[p], "have", c)
             /\ \A o \in Changes : acts.pull[o] # Nobody => o \in Wants(D, store[d])
<1> DEFINE acts == React(d, D, S, out).acts
           W    == Wants(D, store[d])
           U(p) == IF p \in {e \in S.known : ~(D \subseteq S.vv[e])} THEN D \ S.vv[p] ELSE {}
           A(p) == IF p \in S.peers THEN W \ S.asked ELSE {}
           H(p) == S.wanted[p] \cap store[d]
           F(p) == out[p] \o Frame("updates", U(p)) \o Frame("want", A(p)) \o Frame("have", H(p))
<1>1. acts.send = [p \in Drives |-> F(p)]
  BY DEF React
<1>2. \A o \in Changes : acts.pull[o] # Nobody => o \in W
  BY DEF React, Starting
<1>3. W \in SUBSET Changes
  BY WantedIsNamed
<1> HIDE DEF acts
<1>4. ASSUME NEW p \in Drives
      PROVE  /\ F(p) \in Seq(Frames)
             /\ \A k, c : Names(out[p], k, c) => Names(F(p), k, c)
             /\ HelloFirst(out[p]) => HelloFirst(F(p))
             /\ NoWant(out[p]) /\ p \notin S.peers => NoWant(F(p))
             /\ \A c \in A(p) : Names(F(p), "want", c)
             /\ \A c \in H(p) : Names(F(p), "have", c)
  <2>1. out[p] \in Seq(Frames)
    BY DEF Sends
  <2>2. U(p) \in SUBSET Changes /\ A(p) \in SUBSET Changes /\ H(p) \in SUBSET Changes
    BY <1>3 DEF Typed
  <2>3. /\ Frame("updates", U(p)) \in Seq(Frames) /\ NoWant(Frame("updates", U(p)))
        /\ Frame("want", A(p)) \in Seq(Frames) /\ (A(p) = {} => NoWant(Frame("want", A(p))))
        /\ \A c \in A(p) : Names(Frame("want", A(p)), "want", c)
        /\ Frame("have", H(p)) \in Seq(Frames) /\ NoWant(Frame("have", H(p)))
        /\ \A c \in H(p) : Names(Frame("have", H(p)), "have", c)
    BY <2>2, OneFrame
  <2>4. p \notin S.peers => A(p) = {}
    OBVIOUS
  <2> DEFINE q1 == out[p] \o Frame("updates", U(p))
             q2 == q1 \o Frame("want", A(p))
  <2>5. /\ q1 \in Seq(Frames)
        /\ \A k, c : Names(out[p], k, c) => Names(q1, k, c)
        /\ HelloFirst(out[p]) => HelloFirst(q1)
        /\ NoWant(out[p]) => NoWant(q1)
    <3> HIDE DEF U, A, H
    <3> QED BY <2>1, <2>3, Joined
  <2> HIDE DEF q1
  <2>6. /\ q2 \in Seq(Frames)
        /\ \A k, c : Names(q1, k, c) => Names(q2, k, c)
        /\ HelloFirst(q1) => HelloFirst(q2)
        /\ NoWant(q1) /\ p \notin S.peers => NoWant(q2)
        /\ \A c \in A(p) : Names(q2, "want", c)
    <3> HIDE DEF U, A, H
    <3> QED BY <2>3, <2>4, <2>5, Joined
  <2>7. F(p) = q2 \o Frame("have", H(p))
    BY DEF q1
  <2> HIDE DEF q2, F
  <2>8. /\ F(p) \in Seq(Frames)
        /\ \A k, c : Names(q2, k, c) => Names(F(p), k, c)
        /\ HelloFirst(q2) => HelloFirst(F(p))
        /\ NoWant(q2) => NoWant(F(p))
        /\ \A c \in H(p) : Names(F(p), "have", c)
    <3> HIDE DEF U, A, H
    <3> QED BY <2>3, <2>6, <2>7, Joined
  <2> HIDE DEF U, A, H
  <2> QED BY <2>5, <2>6, <2>8
<1>5. acts.send \in Sends /\ \A p \in Drives : acts.send[p] = F(p)
  <2> HIDE DEF F
  <2> QED BY <1>1, <1>4 DEF Sends
<1>6. \A p \in S.peers : p \in Drives /\ A(p) = W \ S.asked
  BY DEF SyncTyped
<1> HIDE DEF F
<1> QED BY <1>2, <1>4, <1>5, <1>6 DEF acts

-----------------------------------------------------------------------------
(* What a step of the core and of its host changes. *)

\* A transfer that has just begun.
Begun(t) == t = [from |-> t.from, n |-> t.n, acts |-> NoActions, phase |-> "running"]

\* What Run does, with N on the links and X running: d's frames are on its
\* links, and each of its pulls has begun.
Carried(d, acts, N, X) ==
  /\ net' \in [Drives -> Sends]
  /\ \A e \in Drives : e # d => net'[e] = N[e]
  /\ \A p \in Drives : net'[d][p] = N[d][p] \o acts.send[p]
  /\ IsTable(transfers')
  /\ \A e \in Drives : e # d => transfers'[e] = X[e]
  /\ \A o \in Changes : X[d][o] \subseteq transfers'[d][o]
  /\ \A o \in Changes : \A t \in transfers'[d][o] : t \notin X[d][o] =>
       acts.pull[o] # Nobody /\ Begun(t)

\* The host puts the frames on its links and starts a transfer for each pull.
LEMMA RunEffect ==
  ASSUME NEW d \in Drives, NEW acts, acts.send \in Sends, NEW N \in [Drives -> Sends], NEW X,
         IsTable(X), Run(d, acts, N, X)
  PROVE  Carried(d, acts, N, X)
<1> DEFINE row == [p \in Drives |-> N[d][p] \o acts.send[p]]
           new(o) == [from |-> acts.pull[o], n |-> Fresh(X[d][o]),
                      acts |-> NoActions, phase |-> "running"]
           mine == [o \in Changes |-> IF acts.pull[o] = Nobody THEN X[d][o]
                                      ELSE X[d][o] \cup {new(o)}]
<1>1. net' = [N EXCEPT ![d] = row] /\ transfers' = [X EXCEPT ![d] = mine]
  BY DEF Run
<1>2. row \in Sends
  BY Joined DEF Sends
<1>3. /\ net' \in [Drives -> Sends]
      /\ \A e \in Drives : e # d => net'[e] = N[e]
      /\ net'[d] = row
  <2> HIDE DEF row, mine
  <2> QED BY <1>1, <1>2
<1>4. \A p \in Drives : row[p] = N[d][p] \o acts.send[p]
  OBVIOUS
<1>5. /\ DOMAIN transfers' = Drives /\ transfers'[d] = mine
      /\ transfers' = [e \in Drives |-> transfers'[e]]
      /\ \A e \in Drives : e # d => transfers'[e] = X[e]
  <2> HIDE DEF row, mine
  <2>1. DOMAIN X = Drives
    BY DEF IsTable
  <2> QED BY <1>1, <2>1
<1>6. mine = [o \in Changes |-> mine[o]] /\ \A e \in Drives : X[e] = [o \in Changes |-> X[e][o]]
  BY DEF IsTable
<1>7. IsTable(transfers')
  <2> HIDE DEF mine
  <2> QED BY <1>5, <1>6 DEF IsTable
<1>8. \A o \in Changes : X[d][o] \subseteq mine[o]
  OBVIOUS
<1>9. ASSUME NEW o \in Changes, NEW t \in mine[o], t \notin X[d][o]
      PROVE  /\ acts.pull[o] # Nobody
             /\ Begun(t)
  <2>1. acts.pull[o] # Nobody /\ t = new(o)
    BY <1>9
  <2> QED BY <2>1 DEF Begun
<1> HIDE DEF mine, row
<1> QED BY <1>3, <1>4, <1>5, <1>7, <1>8, <1>9 DEF Carried

\* OnItsWay in terms of Names, before and after a step.
LEMMA Way ==
  ASSUME NEW d, NEW p, NEW k, NEW c
  PROVE  /\ OnItsWay(d, p, k, c) <=>
              \/ Names(net[d][p], k, c)
              \/ \E o \in Changes : \E t \in transfers[d][o] : Names(t.acts.send[p], k, c)
         /\ OnItsWay(d, p, k, c)' <=>
              \/ Names(net'[d][p], k, c)
              \/ \E o \in Changes : \E t \in transfers'[d][o] : Names(t.acts.send[p], k, c)
BY DEF OnItsWay, Names

\* Nothing is named in silence.
LEMMA Silent ==
  /\ Silence \in Sends
  /\ \A p \in Drives : NoWant(Silence[p]) /\ Silence[p] = <<>>
  /\ \A p \in Drives : \A k, c : ~Names(Silence[p], k, c)
<1>1. \A k, c : ~Names(<<>>, k, c)
  BY DEF Names
<1> QED BY <1>1, Empty DEF Silence, Sends

\* Taking frames off a link keeps it in order: a Hello makes its sender heard.
LEMMA HailTaken ==
  ASSUME NEW q \in Seq(Frames), q # <<>>, NEW heard, NEW now, NEW open, NEW quiet,
         Hail(q, heard, open, quiet), heard => now, Head(q).kind = "hello" => now
  PROVE  Hail(Tail(q), now, open, quiet)
BY TakenOff DEF Hail

\* Sending keeps it in order, if the first frames to a new peer are a greeting
\* and only peers are asked.
LEMMA HailSent ==
  ASSUME NEW q \in Seq(Frames), NEW s \in Seq(Frames),
         NEW heard, NEW now, NEW open, NEW opened, NEW quiet, NEW still,
         Hail(q, heard, open, quiet), heard => now,
         opened /\ ~open => HelloFirst(s),
         ~opened => ~open,
         ~opened /\ quiet => NoWant(s) /\ still
  PROVE  Hail(q \o s, now, opened, still)
BY Joined DEF Hail

\* N is what is left on the links when d has taken from q a frame of kind g
\* naming C, or nothing; after a Hello its sender is among the peers P.
OffLinks(d, P, N, q, g, C) ==
  /\ N \in [Drives -> Sends]
  /\ \A x, y \in Drives :
       \/ N[x][y] = net[x][y]
       \/ /\ y = d /\ net[x][y] # <<>> /\ N[x][y] = Tail(net[x][y])
          /\ Head(net[x][y]).kind = "hello" => x \in P
  /\ \A x, y \in Drives : \A k, c : Names(net[x][y], k, c) =>
       Names(N[x][y], k, c) \/ (x = q /\ y = d /\ k = g /\ c \in C)

\* d sends, with N on the links.
Sent(d, N, send) ==
  /\ send \in Sends
  /\ \A e \in Drives : e # d => net'[e] = N[e]
  /\ \A p \in Drives : net'[d][p] = N[d][p] \o send[p]

\* Hailed after a step of d that may take one frame and sends some.
LEMMA HailedNext ==
  ASSUME Typed, Hailed, NEW d \in Drives, NEW P, NEW N, NEW send, NEW q, NEW g, NEW C,
         OffLinks(d, P, N, q, g, C), Sent(d, N, send),
         sync[d].peers \subseteq P, sync'[d].peers = P,
         \A e \in Drives : e # d => sync'[e].peers = sync[e].peers,
         \A p \in P \ sync[d].peers : HelloFirst(send[p]),
         \A p \in Drives \ P : Quiet(d, p) => NoWant(send[p]) /\ Quiet(d, p)',
         \A e, p \in Drives : e # d /\ Quiet(e, p) => Quiet(e, p)'
  PROVE  Hailed'
<1> SUFFICES ASSUME NEW x \in Drives, NEW y \in Drives
             PROVE  Hail(net'[x][y], x \in sync'[y].peers, y \in sync'[x].peers, Quiet(x, y)')
  BY DEF Hailed, Hail
<1> DEFINE heard == x \in sync[y].peers
           now   == x \in sync'[y].peers
           open  == y \in sync[x].peers
           opens == y \in sync'[x].peers
           qu    == Quiet(x, y)
           qv    == Quiet(x, y)'
<1>1. (heard => now) /\ (open => opens)
  BY DEF Typed
<1>2. net[x][y] \in Seq(Frames) /\ N[x][y] \in Seq(Frames) /\ send[y] \in Seq(Frames)
  BY DEF Typed, Sends, OffLinks, Sent
<1>3. Hail(net[x][y], heard, open, qu)
  BY DEF Hailed
<1>4. Hail(N[x][y], now, open, qu)
  <2>1. CASE N[x][y] = net[x][y]
    BY <2>1, <1>1, <1>3 DEF Hail
  <2>2. CASE /\ y = d /\ net[x][y] # <<>> /\ N[x][y] = Tail(net[x][y])
             /\ Head(net[x][y]).kind = "hello" => x \in P
    <3>1. Head(net[x][y]).kind = "hello" => now
      BY <2>2
    <3> HIDE DEF heard, now, open, opens, qu, qv
    <3> QED BY <2>2, <3>1, <1>1, <1>2, <1>3, HailTaken
  <2> QED BY <2>1, <2>2 DEF OffLinks
<1>5. CASE x = d
  <2>1. opens /\ ~open => HelloFirst(send[y])
    BY <1>5
  <2>2. ~opens /\ qu => NoWant(send[y]) /\ qv
    BY <1>5
  <2>3. net'[x][y] = N[x][y] \o send[y]
    BY <1>5 DEF Sent
  <2>4. Hail(N[x][y] \o send[y], now, opens, qv)
    <3> HIDE DEF heard, now, open, opens, qu, qv
    <3> QED BY <2>1, <2>2, <1>1, <1>2, <1>4, HailSent
  <2> QED BY <2>3, <2>4
<1>6. CASE x # d
  <2>1. net'[x][y] = N[x][y] /\ (opens <=> open) /\ (qu => qv)
    BY <1>6 DEF Sent
  <2> QED BY <2>1, <1>4 DEF Hail
<1> QED BY <1>5, <1>6

\* A transfer stays sound while the document grows and wants nothing again.
LEMMA TransferStays ==
  ASSUME NEW e \in Drives, NEW o, NEW t, TransferOK(e, o, t), doc[e] \subseteq doc'[e],
         \A c \in doc[e] : c \in Wants(doc'[e], store'[e]) => c \in Wants(doc[e], store[e])
  PROVE  TransferOK(e, o, t)'
BY DEF TransferOK, ActsTyped

\* All that is on its way stays so, but the frame of kind g naming C that d
\* takes from q.
WayKept(d, q, g, C) ==
  \A x, y \in Drives : \A k, c : OnItsWay(x, y, k, c) =>
    OnItsWay(x, y, k, c)' \/ (x = q /\ y = d /\ k = g /\ c \in C)

\* X is what is left of the transfers when some with nothing to send have ended.
LeftOf(X) ==
  /\ IsTable(X)
  /\ \A e \in Drives, o \in Changes :
       /\ X[e][o] \subseteq transfers[e][o]
       /\ \A t \in transfers[e][o] : t \in X[e][o] \/ t.acts.send = Silence

\* Carrying out actions loses nothing, and puts on its way what they send.
LEMMA CarriedKeeps ==
  ASSUME NEW d \in Drives, NEW acts, NEW N, NEW X, NEW P, NEW q, NEW g, NEW C,
         acts.send \in Sends, OffLinks(d, P, N, q, g, C), LeftOf(X), Carried(d, acts, N, X)
  PROVE  /\ WayKept(d, q, g, C)
         /\ \A p \in Drives : \A k, c : Names(acts.send[p], k, c) => OnItsWay(d, p, k, c)'
<1> DEFINE send == acts.send
<1>0. \A x, y \in Drives : N[x][y] \in Seq(Frames) /\ send[y] \in Seq(Frames)
  BY DEF Sends, OffLinks
<1>1. \A x, y \in Drives : \A k, c : Names(N[x][y], k, c) => Names(net'[x][y], k, c)
  <2> SUFFICES ASSUME NEW x \in Drives, NEW y \in Drives, NEW k, NEW c, Names(N[x][y], k, c)
               PROVE  Names(net'[x][y], k, c)
    OBVIOUS
  <2>1. CASE x = d
    <3>1. net'[x][y] = N[d][y] \o send[y] /\ Names(N[d][y], k, c)
      BY <2>1 DEF Carried
    <3> QED BY <3>1, <1>0, Joined
  <2>2. CASE x # d
    BY <2>2 DEF Carried
  <2> QED BY <2>1, <2>2
<1>2. WayKept(d, q, g, C)
  <2> SUFFICES ASSUME NEW x \in Drives, NEW y \in Drives, NEW k, NEW c, OnItsWay(x, y, k, c)
               PROVE  OnItsWay(x, y, k, c)' \/ (x = q /\ y = d /\ k = g /\ c \in C)
    BY DEF WayKept
  <2>1. CASE Names(net[x][y], k, c)
    BY <2>1, <1>1, Way DEF OffLinks
  <2>2. ASSUME NEW o \in Changes, NEW t \in transfers[x][o], Names(t.acts.send[y], k, c)
        PROVE  OnItsWay(x, y, k, c)'
    <3>1. t.acts.send # Silence
      BY <2>2, Silent
    <3>2. t \in X[x][o]
      BY <3>1 DEF LeftOf
    <3>3. t \in transfers'[x][o]
      BY <3>2 DEF Carried
    <3> QED BY <2>2, <3>3, Way
  <2> QED BY <2>1, <2>2, Way
<1>3. \A p \in Drives : \A k, c : Names(send[p], k, c) => OnItsWay(d, p, k, c)'
  <2> SUFFICES ASSUME NEW p \in Drives, NEW k, NEW c, Names(send[p], k, c)
               PROVE  OnItsWay(d, p, k, c)'
    OBVIOUS
  <2>1. net'[d][p] = N[d][p] \o send[p]
    BY DEF Carried
  <2>2. Names(net'[d][p], k, c)
    BY <2>1, <1>0, Joined
  <2> QED BY <2>2, Way
<1> QED BY <1>2, <1>3

\* A step in which d reacts from the state S, after it took from q a frame of
\* kind g naming C (or nothing, with C empty), leaves every want known.
LEMMA KnownReacts ==
  ASSUME Typed, Known, NEW d \in Drives, NEW D, NEW S, NEW q, NEW g, NEW C,
         doc'[d] = D, doc[d] \subseteq D, store' = store,
         \A e \in Drives : e # d => doc'[e] = doc[e] /\ sync'[e] = sync[e],
         sync'[d].peers = S.peers, S.peers \subseteq Drives, sync[d].peers \subseteq S.peers,
         S.asked \subseteq doc[d],
         \A p \in Drives : sync'[d].wanted[p] = S.wanted[p] \ store[d],
         \A p \in Drives : sync[d].wanted[p] \subseteq S.wanted[p],
         \A o \in Wants(D, store[d]), p \in Drives : Holds(S, o, p) => Holds(sync'[d], o, p),
         \A o \in Wants(D, store[d]), p \in Drives : Holds(sync[d], o, p) => Holds(S, o, p),
         WayKept(d, q, g, C),
         \A p \in S.peers : \A c \in Wants(D, store[d]) \ S.asked : OnItsWay(d, p, "want", c)',
         \A p \in S.peers \ sync[d].peers : \A c \in Wants(D, store[d]) :
           OnItsWay(d, p, "want", c)',
         \A p \in Drives : \A c \in S.wanted[p] \cap store[d] : OnItsWay(d, p, "have", c)',
         g = "want" => \A c \in C : \/ q \in S.peers /\ c \in S.wanted[q]
                                    \/ OnItsWay(d, q, "have", c)',
         g = "have" => \A c \in C \cap Wants(D, store[d]) : Holds(S, c, q)
  PROVE  Known'
<1> SUFFICES ASSUME NEW e \in Drives, NEW p \in sync'[e].peers, NEW o \in Wants(doc'[e], store'[e])
             PROVE  \/ OnItsWay(e, p, "want", o)'
                    \/ e \in sync'[p].peers /\ o \in sync'[p].wanted[e]
                    \/ OnItsWay(p, e, "have", o)'
                    \/ Holds(sync'[e], o, p)
  BY DEF Known, KnownTo, Holds
<1>0. p \in Drives /\ sync[e].peers \subseteq Drives
  BY DEF Typed, SyncTyped
<1> DEFINE Kept == \/ OnItsWay(e, p, "want", o)'
                   \/ e \in sync'[p].peers /\ o \in sync'[p].wanted[e]
                   \/ OnItsWay(p, e, "have", o)'
                   \/ Holds(sync'[e], o, p)
\* An entry of S.wanted stays, or is answered.
<1>1. ASSUME NEW a \in Drives, a \in S.peers, o \in S.wanted[a]
      PROVE  \/ a \in sync'[d].peers /\ o \in sync'[d].wanted[a]
             \/ OnItsWay(d, a, "have", o)'
  BY <1>1
\* An asked peer stays asked.
<1>2. ASSUME p \in sync[e].peers, o \in Wants(doc[e], store[e])
      PROVE  Kept
  <2>1. KnownTo(e, p, o)
    BY <1>2 DEF Known
  <2>2. CASE OnItsWay(e, p, "want", o)
    <3>1. CASE OnItsWay(e, p, "want", o)'
      BY <3>1
    <3>2. CASE e = q /\ p = d /\ "want" = g /\ o \in C
      BY <3>2, <1>1
    <3> QED BY <2>2, <3>1, <3>2, <1>0 DEF WayKept
  <2>3. CASE e \in sync[p].peers /\ o \in sync[p].wanted[e]
    <3>1. CASE p = d
      <4>1. e \in S.peers /\ o \in S.wanted[e]
        BY <2>3, <3>1
      <4> QED BY <4>1, <3>1, <1>1
    <3>2. CASE p # d
      BY <2>3, <3>2, <1>0
    <3> QED BY <3>1, <3>2
  <2>4. CASE OnItsWay(p, e, "have", o)
    <3>1. CASE OnItsWay(p, e, "have", o)'
      BY <3>1
    <3>2. CASE p = q /\ e = d /\ "have" = g /\ o \in C
      <4>1. o \in Wants(D, store[d])
        BY <3>2
      <4>2. Holds(S, o, q)
        BY <4>1, <3>2
      <4> QED BY <4>1, <4>2, <3>2, <1>0
    <3> QED BY <2>4, <3>1, <3>2, <1>0 DEF WayKept
  <2>5. CASE Holds(sync[e], o, p)
    <3>1. CASE e = d
      BY <2>5, <3>1, <1>0
    <3>2. CASE e # d
      BY <2>5, <3>2
    <3> QED BY <3>1, <3>2
  <2> QED BY <2>1, <2>2, <2>3, <2>4, <2>5 DEF KnownTo
<1>3. CASE e = d
  <2>1. p \in S.peers /\ o \in Wants(D, store[d])
    BY <1>3
  <2>2. CASE o \notin S.asked \/ p \notin sync[d].peers
    BY <2>1, <2>2, <1>3
  <2>3. CASE o \in S.asked /\ p \in sync[d].peers
    <3>1. o \in Wants(doc[d], store[d])
      BY <2>1, <2>3, NothingWantedAgain
    <3> QED BY <3>1, <2>3, <1>2, <1>3
  <2> QED BY <2>2, <2>3
<1>4. CASE e # d
  <2>1. p \in sync[e].peers /\ o \in Wants(doc[e], store[e])
    BY <1>4
  <2> QED BY <2>1, <1>2
<1> QED BY <1>3, <1>4

\* S only adds to what d knew, as far as D still wants it.
Extends(d, D, S) ==
  /\ SyncTyped(S)
  /\ S.asked \subseteq doc[d]
  /\ sync[d].peers \subseteq S.peers
  /\ \A p \in Drives : sync[d].wanted[p] \subseteq S.wanted[p]
  /\ \A o \in Wants(D, store[d]), p \in Drives : Holds(sync[d], o, p) => Holds(S, o, p)

\* out greets new peers with all of d's wants, and asks nobody else.
Greeted(d, D, S, out) ==
  /\ out \in Sends
  /\ \A p \in S.peers \ sync[d].peers :
       HelloFirst(out[p]) /\ \A c \in Wants(D, store[d]) : Names(out[p], "want", c)
  /\ \A p \in Drives \ S.peers : NoWant(out[p])

\* What the frame asked is remembered or answered, what it offered recorded.
Answered(d, D, S, out, q, g, C) ==
  /\ g = "want" => \A c \in C : \/ q \in S.peers /\ c \in S.wanted[q]
                                \/ q \in Drives /\ Names(out[q], "have", c)
  /\ g = "have" => \A c \in C \cap Wants(D, store[d]) : Holds(S, c, q)

\* Every reaction that the host carries out at once keeps the invariant, if it
\* starts from a state and frames like these.
LEMMA StepGood ==
  ASSUME Good, NEW d \in Drives, NEW D \in SUBSET Changes, NEW S, NEW out,
         NEW N, NEW X, NEW q, NEW g, NEW C,
         Extends(d, D, S), OffLinks(d, S.peers, N, q, g, C), LeftOf(X),
         Greeted(d, D, S, out), Answered(d, D, S, out, q, g, C),
         doc' = [doc EXCEPT ![d] = D], doc[d] \subseteq D, store' = store, deps' = deps,
         parked' \in [Drives -> SUBSET Changes],
         Step(d, D, S, out, N, X)
  PROVE  Good'
<1> DEFINE r == React(d, D, S, out)
<1>0. Typed /\ Asked /\ Moving /\ Hailed /\ Known
  BY DEF Good
<1>1. sync' = [sync EXCEPT ![d] = r.sync] /\ Run(d, r.acts, N, X)
  BY DEF Step
<1>2. /\ IsSync(r.sync) /\ r.sync.peers = S.peers /\ r.sync.asked = Wants(D, store[d])
      /\ r.sync.wanted = [p \in Drives |-> S.wanted[p] \ store[d]]
      /\ r.sync.holders = [o \in Changes |->
           IF o \in Wants(D, store[d]) THEN S.holders[o] ELSE <<>>]
  <2>1. IsSync(S)
    BY DEF Extends, SyncTyped
  <2> QED BY <2>1, ReactState
<1>3. /\ r.acts.send \in Sends
      /\ \A p \in Drives : \A k, c : Names(out[p], k, c) => Names(r.acts.send[p], k, c)
      /\ \A p \in Drives : HelloFirst(out[p]) => HelloFirst(r.acts.send[p])
      /\ \A p \in Drives : NoWant(out[p]) /\ p \notin S.peers => NoWant(r.acts.send[p])
      /\ \A p \in S.peers : \A c \in Wants(D, store[d]) \ S.asked :
           Names(r.acts.send[p], "want", c)
      /\ \A p \in Drives : \A c \in S.wanted[p] \cap store[d] : Names(r.acts.send[p], "have", c)
      /\ \A o \in Changes : r.acts.pull[o] # Nobody => o \in Wants(D, store[d])
  <2>1. out \in Sends /\ SyncTyped(S)
    BY DEF Extends, Greeted
  <2> QED BY <2>1, <1>0, ReactActs
<1> HIDE DEF r
<1>3a. N \in [Drives -> Sends] /\ SyncTyped(S) /\ S.peers \subseteq Drives
  BY DEF OffLinks, Extends, SyncTyped
<1> DEFINE send == r.acts.send
<1>3b. Carried(d, r.acts, N, X)
  <2>1. IsTable(X)
    BY DEF LeftOf
  <2> DEFINE acts == r.acts
  <2>2. Run(d, acts, N, X) /\ acts.send \in Sends
    BY <1>1, <1>3
  <2> HIDE DEF acts
  <2>3. Carried(d, acts, N, X)
    BY <2>1, <2>2, <1>3a, RunEffect
  <2> QED BY <2>3 DEF acts
<1>4. /\ net' \in [Drives -> Sends]
      /\ \A e \in Drives : e # d => net'[e] = N[e]
      /\ \A p \in Drives : net'[d][p] = N[d][p] \o send[p]
      /\ IsTable(transfers')
      /\ \A e \in Drives : e # d => transfers'[e] = X[e]
      /\ \A o \in Changes : X[d][o] \subseteq transfers'[d][o]
      /\ \A o \in Changes : \A t \in transfers'[d][o] : t \notin X[d][o] =>
           /\ r.acts.pull[o] # Nobody
           /\ Begun(t)
  BY <1>3b DEF Carried
<1>5. /\ sync'[d] = r.sync /\ sync' = [e \in Drives |-> sync'[e]]
      /\ \A e \in Drives : e # d => sync'[e] = sync[e]
  <2>1. sync = [e \in Drives |-> sync[e]]
    BY <1>0 DEF Typed
  <2>2. DOMAIN sync = Drives
    BY <2>1
  <2> HIDE DEF r
  <2> QED BY <1>1, <2>2
<1>6. /\ doc' \in [Drives -> SUBSET Changes] /\ doc'[d] = D
      /\ \A e \in Drives : e # d => doc'[e] = doc[e]
  BY <1>0 DEF Typed
<1>7. SyncTyped(r.sync)
  <2>1. S.wanted \in [Drives -> SUBSET Changes] /\ S.holders \in [Changes -> Seq(Drives)]
        /\ S.peers \subseteq Drives
    BY <1>3a DEF SyncTyped
  <2>2. r.sync.wanted \in [Drives -> SUBSET Changes]
    BY <1>2, <2>1
  <2>3. r.sync.holders \in [Changes -> Seq(Drives)]
    BY <1>2, <2>1
  <2> QED BY <1>2, <2>1, <2>2, <2>3 DEF SyncTyped
<1>8. Typed'
  <2>1. \A e \in Drives : SyncTyped(sync'[e])
    BY <1>0, <1>5, <1>7 DEF Typed
  <2>2. \A e \in Drives : SyncTyped(sync[e])'
    BY <2>1 DEF SyncTyped, IsSync
  <2> QED BY <1>0, <1>4, <1>5, <1>6, <2>2 DEF Typed, IsTable
<1>9. Asked'
  BY <1>0, <1>2, <1>5, <1>6, WantedIsNamed DEF Asked
<1>10. Moving'
  <2> SUFFICES ASSUME NEW e \in Drives, NEW o \in Changes, NEW t \in transfers'[e][o]
               PROVE  TransferOK(e, o, t)'
    BY DEF Moving
  <2>1. /\ doc[e] \subseteq doc'[e]
        /\ \A c \in doc[e] : c \in Wants(doc'[e], store'[e]) => c \in Wants(doc[e], store[e])
    BY <1>6, NothingWantedAgain
  <2>2. CASE t \in X[e][o]
    BY <2>1, <2>2, <1>0, TransferStays DEF Moving, LeftOf
  <2>3. CASE t \notin X[e][o]
    <3>1. e = d
      BY <2>3, <1>4
    <3>2. /\ r.acts.pull[o] # Nobody
          /\ Begun(t)
      BY <2>3, <3>1, <1>4
    <3>3. t.acts = NoActions /\ t.phase = "running"
          /\ t = [from |-> t.from, n |-> t.n, acts |-> t.acts, phase |-> t.phase]
      BY <3>2 DEF Begun
    <3>4. o \in doc'[e]
      BY <3>1, <3>2, <1>3, <1>6, WantedIsNamed
    <3>5. NoActions.send = Silence /\ \A c \in Changes : NoActions.pull[c] = Nobody
      BY DEF NoActions
    <3>6. ActsTyped(e, t.acts)'
      BY <3>3, <3>5, Silent DEF ActsTyped
    <3> HIDE DEF send
    <3> QED BY <3>3, <3>4, <3>5, <3>6 DEF TransferOK
  <2> QED BY <2>2, <2>3
<1>11. \A e, p \in Drives : Quiet(e, p) => Quiet(e, p)'
  <2> SUFFICES ASSUME NEW e \in Drives, NEW p \in Drives, Quiet(e, p),
                      NEW o \in Changes, NEW t \in transfers'[e][o]
               PROVE  NoWant(t.acts.send[p])
    BY DEF Quiet
  <2>1. CASE t \in X[e][o]
    BY <2>1 DEF Quiet, LeftOf
  <2>2. CASE t \notin X[e][o]
    <3>1. Begun(t)
      BY <2>2, <1>4
    <3>2. t.acts = NoActions
      BY <3>1 DEF Begun
    <3> QED BY <3>2, Silent DEF NoActions
  <2> QED BY <2>1, <2>2
<1>12. Hailed'
  <2>1. sync'[d].peers = S.peers /\ \A e \in Drives : e # d => sync'[e].peers = sync[e].peers
    BY <1>2, <1>5
  <2>2. \A p \in S.peers \ sync[d].peers : HelloFirst(send[p])
    BY <1>3, <1>3a DEF Greeted
  <2>3. \A p \in Drives \ S.peers : Quiet(d, p) => NoWant(send[p]) /\ Quiet(d, p)'
    BY <1>3, <1>11 DEF Greeted
  <2>5. sync[d].peers \subseteq S.peers
    BY DEF Extends
  <2>6. Sent(d, N, send)
    BY <1>3, <1>4 DEF Sent
  <2> HIDE DEF send
  <2> QED BY <2>1, <2>2, <2>3, <2>5, <2>6, <1>0, <1>11, HailedNext
<1>14. /\ WayKept(d, q, g, C)
       /\ \A p \in Drives : \A k, c : Names(send[p], k, c) => OnItsWay(d, p, k, c)'
  <2> DEFINE acts == r.acts
  <2>1. Carried(d, acts, N, X) /\ acts.send \in Sends
    BY <1>3, <1>3b
  <2> HIDE DEF acts
  <2>2. /\ WayKept(d, q, g, C)
        /\ \A p \in Drives : \A k, c : Names(acts.send[p], k, c) => OnItsWay(d, p, k, c)'
    BY <2>1, CarriedKeeps
  <2> QED BY <2>2 DEF acts
<1>16. Known'
  <2>1. S.peers \subseteq Drives
    BY <1>3a
  <2>2. \A p \in Drives : sync'[d].wanted[p] = S.wanted[p] \ store[d]
    BY <1>2, <1>5
  <2>3. \A o \in Wants(D, store[d]), p \in Drives : Holds(S, o, p) => Holds(sync'[d], o, p)
    <3>1. \A o \in Wants(D, store[d]) : o \in Changes
      BY WantedIsNamed
    <3>2. \A o \in Wants(D, store[d]) : sync'[d].holders[o] = S.holders[o]
      BY <3>1, <1>2, <1>5
    <3> QED BY <3>2 DEF Holds
  <2>4. \A p \in S.peers : \A c \in Wants(D, store[d]) \ S.asked : OnItsWay(d, p, "want", c)'
    BY <2>1, <1>3, <1>14
  <2>5. \A p \in S.peers \ sync[d].peers : \A c \in Wants(D, store[d]) :
          OnItsWay(d, p, "want", c)'
    BY <2>1, <1>3, <1>14 DEF Greeted
  <2>6. \A p \in Drives : \A c \in S.wanted[p] \cap store[d] : OnItsWay(d, p, "have", c)'
    BY <1>3, <1>14
  <2>7. g = "want" => \A c \in C : \/ q \in S.peers /\ c \in S.wanted[q]
                                   \/ OnItsWay(d, q, "have", c)'
    BY <1>3, <1>14 DEF Answered
  <2>8. \A e \in Drives : e # d => doc'[e] = doc[e] /\ sync'[e] = sync[e]
    BY <1>5, <1>6
  <2>9. sync'[d].peers = S.peers /\ doc'[d] = D
    BY <1>2, <1>5, <1>6
  <2>10. /\ sync[d].peers \subseteq S.peers /\ S.asked \subseteq doc[d]
         /\ \A p \in Drives : sync[d].wanted[p] \subseteq S.wanted[p]
         /\ \A o \in Wants(D, store[d]), p \in Drives : Holds(sync[d], o, p) => Holds(S, o, p)
         /\ g = "have" => \A c \in C \cap Wants(D, store[d]) : Holds(S, c, q)
    BY DEF Extends, Answered
  <2> HIDE DEF send
  <2> QED
    BY <2>1, <2>2, <2>3, <2>4, <2>5, <2>6, <2>7, <2>8, <2>9, <2>10, <1>0, <1>14, KnownReacts
<1> QED BY <1>8, <1>9, <1>10, <1>12, <1>16 DEF Good

-----------------------------------------------------------------------------
(* The states the core reacts from. *)

\* S differs from s in version vectors, failures and pulls at most.
Like(S, s) ==
  /\ IsSync(S)
  /\ S.peers = s.peers /\ S.wanted = s.wanted /\ S.holders = s.holders /\ S.asked = s.asked

\* Fields that wants do not depend on.
LEMMA OtherFields ==
  ASSUME NEW s, IsSync(s), NEW x
  PROVE  /\ Like(s, s)
         /\ Like([s EXCEPT !.known = x], s)
         /\ Like([s EXCEPT !.vv = x], s)
         /\ Like([s EXCEPT !.inflight = x], s)
         /\ Like([s EXCEPT !.failed = x], s)
BY DEF IsSync, Like

\* Hello and the other handlers that put a peer on record (sync.rs known) keep the rest.
LEMMA KnownWiderIsLike ==
  ASSUME NEW s, IsSync(s), NEW p, NEW x
  PROVE  Like([s EXCEPT !.vv[p] = x], s)
BY DEF IsSync, Like

\* pull_failed drops one holder and one pull, and keeps what is open and asked.
LEMMA EndFailedIsLike ==
  ASSUME NEW s, IsSync(s), NEW o, NEW p
  PROVE  Like(EndFailed(s, o, p), s)
<1> DEFINE x == [s.inflight EXCEPT ![o] = NoPull]
           f == [s.failed EXCEPT ![o][p] = BackOff(@)]
           a == [s EXCEPT !.inflight = x]
           b == [a EXCEPT !.failed = f]
<1>1. [s EXCEPT !.inflight[o] = NoPull, !.failed[o][p] = BackOff(@)] = b
  BY DEF IsSync
<1>2. Like(a, s)
  <2> HIDE DEF x, f
  <2> QED BY OtherFields
<1>3. Like(b, a)
  <2> HIDE DEF x, f, a
  <2> QED BY <1>2, OtherFields DEF Like
<1>4. Like(b, s)
  <2> HIDE DEF x, f, a, b
  <2> QED BY <1>2, <1>3 DEF Like
<1>5. EndFailed(s, o, p) \in {s, b}
  <2> HIDE DEF b
  <2> QED BY <1>1 DEF EndFailed
<1> HIDE DEF b
<1> QED BY <1>4, <1>5, OtherFields

\* A tick that gives up overdue pulls keeps what is open and asked.
LEMMA AgedIsLike ==
  ASSUME NEW s, IsSync(s)
  PROVE  Like(Aged(s), s)
<1> SUFFICES ASSUME NEW x, NEW f PROVE Like([s EXCEPT !.inflight = x, !.failed = f], s)
  BY DEF Aged
<1> DEFINE a == [s EXCEPT !.inflight = x]
           b == [a EXCEPT !.failed = f]
<1>1. [s EXCEPT !.inflight = x, !.failed = f] = b
  BY DEF IsSync
<1>2. Like(a, s)
  BY OtherFields
<1>3. Like(b, a)
  <2> HIDE DEF a
  <2> QED BY <1>2, OtherFields DEF Like
<1> HIDE DEF a, b
<1> QED BY <1>1, <1>2, <1>3 DEF Like

\* What a Hello from p makes of s.
Registered(s, p, x) ==
  [s EXCEPT !.peers = @ \cup {p}, !.known = @ \cup {p}, !.vv[p] = x]

\* What handle's hello arm makes of the state.
LEMMA HelloState ==
  ASSUME NEW s, IsSync(s), NEW p, NEW x
  PROVE  LET S == Registered(s, p, x)
         IN  /\ IsSync(S) /\ S.peers = s.peers \cup {p}
             /\ S.wanted = s.wanted /\ S.holders = s.holders /\ S.asked = s.asked
<1> DEFINE a == [s EXCEPT !.peers = @ \cup {p}]
           b == [a EXCEPT !.known = @ \cup {p}]
           c == [b EXCEPT !.vv[p] = x]
<1>1. Registered(s, p, x) = c
  BY DEF IsSync, Registered
<1>2. /\ IsSync(a) /\ a.peers = s.peers \cup {p}
      /\ a.wanted = s.wanted /\ a.holders = s.holders /\ a.asked = s.asked
  BY DEF IsSync
<1> HIDE DEF a
<1>3. Like(b, a)
  BY <1>2, OtherFields
<1> HIDE DEF b
<1>4. Like(c, b)
  BY <1>3, KnownWiderIsLike DEF Like
<1> HIDE DEF c
<1> QED BY <1>1, <1>2, <1>3, <1>4 DEF Like

\* What the end of a pull of o makes of s.
Reported(s, o) ==
  [s EXCEPT !.inflight[o] = NoPull, !.holders[o] = <<>>,
            !.failed[o] = [p \in Drives |-> NoBackoff], !.asked = @ \ {o}]

\* What pulled makes of the state.
LEMMA PulledState ==
  ASSUME NEW s, IsSync(s), NEW o
  PROVE  LET S == Reported(s, o)
         IN  /\ IsSync(S) /\ S.peers = s.peers /\ S.wanted = s.wanted
             /\ S.holders = [s.holders EXCEPT ![o] = <<>>] /\ S.asked = s.asked \ {o}
<1> DEFINE z == [p \in Drives |-> NoBackoff]
           a == [s EXCEPT !.inflight[o] = NoPull]
           b == [a EXCEPT !.holders[o] = <<>>]
           c == [b EXCEPT !.failed[o] = z]
           e == [c EXCEPT !.asked = @ \ {o}]
<1>1. Reported(s, o) = e
  BY DEF IsSync, Reported
<1> HIDE DEF z
<1>2. Like(a, s)
  BY DEF IsSync, Like
<1> HIDE DEF a
<1>3. /\ IsSync(b) /\ b.peers = a.peers /\ b.wanted = a.wanted
      /\ b.holders = [a.holders EXCEPT ![o] = <<>>] /\ b.asked = a.asked
  BY <1>2 DEF IsSync, Like
<1> HIDE DEF b
<1>4. Like(c, b)
  BY <1>3 DEF IsSync, Like
<1> HIDE DEF c
<1>5. /\ IsSync(e) /\ e.peers = c.peers /\ e.wanted = c.wanted
      /\ e.holders = c.holders /\ e.asked = c.asked \ {o}
  BY <1>4 DEF IsSync, Like
<1> HIDE DEF e
<1> QED BY <1>1, <1>2, <1>3, <1>4, <1>5 DEF Like

\* Reacting from a state like the present one adds nothing.
LEMMA LikeExtends ==
  ASSUME Good, NEW d \in Drives, NEW D, NEW S, Like(S, sync[d])
  PROVE  Extends(d, D, S) /\ S.peers = sync[d].peers
<1>1. SyncTyped(sync[d]) /\ sync[d].asked \subseteq doc[d]
  BY DEF Good, Typed, Asked
<1>2. SyncTyped(S)
  BY <1>1 DEF SyncTyped, Like
<1>3. \A o, p : Holds(sync[d], o, p) => Holds(S, o, p)
  BY DEF Holds, Like
<1> QED BY <1>1, <1>2, <1>3 DEF Extends, Like

\* Nothing is taken off the links and no transfer ends.
LEMMA NothingTaken ==
  ASSUME Good, NEW d, NEW P
  PROVE  OffLinks(d, P, net, d, "none", {}) /\ LeftOf(transfers)
BY DEF Good, Typed, OffLinks, LeftOf

\* The first frame from p is taken.
LEMMA OneTaken ==
  ASSUME Good, NEW d \in Drives, NEW p \in Drives, net[p][d] # <<>>, NEW P,
         Head(net[p][d]).kind = "hello" => p \in P
  PROVE  OffLinks(d, P, Taken(p, d), p, Head(net[p][d]).kind, Head(net[p][d]).set)
<1> DEFINE N == Taken(p, d)
<1>1. net \in [Drives -> [Drives -> Seq(Frames)]] /\ net[p][d] \in Seq(Frames)
  BY DEF Good, Typed, Sends
<1>2. Tail(net[p][d]) \in Seq(Frames)
  BY <1>1, TakenOff
<1>3. /\ N \in [Drives -> [Drives -> Seq(Frames)]]
      /\ N[p][d] = Tail(net[p][d])
      /\ \A x, y \in Drives : ~(x = p /\ y = d) => N[x][y] = net[x][y]
  BY <1>1, <1>2 DEF Taken
<1> HIDE DEF N
<1>4. \A k, c : Names(net[p][d], k, c) =>
        Names(N[p][d], k, c) \/ (k = Head(net[p][d]).kind /\ c \in Head(net[p][d]).set)
  BY <1>1, <1>3, TakenOff
<1>5. OffLinks(d, P, N, p, Head(net[p][d]).kind, Head(net[p][d]).set)
  BY <1>3, <1>4 DEF OffLinks, Sends
<1> QED BY <1>5 DEF N

\* Silence greets no one, and a reply of some frames only asks a peer.
LEMMA QuietOut ==
  ASSUME NEW d \in Drives, NEW D, NEW S, S.peers = sync[d].peers
  PROVE  Greeted(d, D, S, Silence)
BY Silent DEF Greeted

\* Frames for one peer.
LEMMA Addressed ==
  ASSUME NEW p \in Drives, NEW q \in Seq(Frames)
  PROVE  /\ To(p, q) \in Sends /\ To(p, q)[p] = q
         /\ \A e \in Drives : e # p => To(p, q)[e] = <<>>
BY Silent DEF To, Sends

-----------------------------------------------------------------------------
(* Each action keeps the invariant, if it is no fault. *)

\* A document that stays is its own extension.
LEMMA SameDoc ==
  ASSUME Good, NEW d \in Drives, doc' = doc
  PROVE  doc' = [doc EXCEPT ![d] = doc[d]] /\ doc[d] \in SUBSET Changes
BY DEF Good, Typed

\* What is parked stays typed.
LEMMA ParkedStays ==
  ASSUME Good, parked' = parked
  PROVE  parked' \in [Drives -> SUBSET Changes]
BY DEF Good, Typed

\* local_changed.
LEMMA LocalChangedGood ==
  ASSUME Good, NEW d \in Drives, LocalChanged(d)
  PROVE  Good'
<1>1. /\ doc' = doc /\ store' = store /\ deps' = deps /\ parked' = parked
      /\ Step(d, doc[d], sync[d], Silence, net, transfers)
  BY DEF LocalChanged
<1>2. Like(sync[d], sync[d])
  BY OtherFields DEF Good, Typed, SyncTyped
<1>3. Extends(d, doc[d], sync[d])
  BY <1>2, LikeExtends
<1>4. Greeted(d, doc[d], sync[d], Silence)
  BY QuietOut
<1>5. Answered(d, doc[d], sync[d], Silence, d, "none", {})
  BY DEF Answered
<1> QED BY <1>1, <1>3, <1>4, <1>5, SameDoc, ParkedStays, NothingTaken, StepGood

\* tick: overdue pulls, then a greeting and the lonely wants to every peer.
LEMMA TickGood ==
  ASSUME Good, NEW d \in Drives, Tick(d)
  PROVE  Good'
<1> DEFINE S == Aged(sync[d])
           lonely == {o \in Wants(doc[d], store[d]) :
                        S.holders[o] = <<>> /\ S.inflight[o] = NoPull}
           out == [p \in Drives |-> IF p \in S.peers
                     THEN Hello(d) \o Frame("want", lonely) ELSE <<>>]
<1>1. /\ doc' = doc /\ store' = store /\ deps' = deps /\ parked' = parked
      /\ Step(d, doc[d], S, out, net, transfers)
  BY DEF Tick
<1>2. Like(S, sync[d])
  BY AgedIsLike DEF Good, Typed, SyncTyped
<1>3. Extends(d, doc[d], S) /\ S.peers = sync[d].peers
  <2> HIDE DEF S
  <2> QED BY <1>2, LikeExtends
<1>4. Hello(d) \o Frame("want", lonely) \in Seq(Frames)
  <2>1. lonely \in SUBSET Changes
    BY WantedIsNamed DEF Good, Typed
  <2> HIDE DEF lonely
  <2>2. Frame("want", lonely) \in Seq(Frames) /\ Hello(d) \in Seq(Frames)
    BY <2>1, OneFrame, Greets DEF Good
  <2> QED BY <2>2, Joined
<1>5. Greeted(d, doc[d], S, out)
  <2> HIDE DEF S, lonely
  <2> QED BY <1>3, <1>4, Empty DEF Greeted, Sends
<1>6. Answered(d, doc[d], S, out, d, "none", {})
  BY DEF Answered
<1> HIDE DEF S, out
<1> QED BY <1>1, <1>3, <1>5, <1>6, SameDoc, ParkedStays, NothingTaken, StepGood

\* A greeting to p, which is then a peer.
LEMMA GreetsNew ==
  ASSUME Good, NEW d \in Drives, NEW p \in Drives, NEW S, S.peers = sync[d].peers \cup {p}
  PROVE  Greeted(d, doc[d], S, To(p, Greeting(d)))
<1>1. Greeting(d) \in Seq(Frames) /\ HelloFirst(Greeting(d))
      /\ \A c \in Wants(doc[d], store[d]) : Names(Greeting(d), "want", c)
  BY Greets DEF Good
<1>2. /\ To(p, Greeting(d)) \in Sends /\ To(p, Greeting(d))[p] = Greeting(d)
      /\ \A e \in Drives : e # p => To(p, Greeting(d))[e] = <<>>
  BY <1>1, Addressed
<1>3. \A e \in S.peers \ sync[d].peers : e = p
  OBVIOUS
<1>4. \A e \in Drives \ S.peers : e # p
  OBVIOUS
<1> QED BY <1>1, <1>2, <1>3, <1>4, Empty DEF Greeted

\* open.
LEMMA OpenGood ==
  ASSUME Good, NEW d \in Drives, NEW p \in Drives, Open(d, p)
  PROVE  Good'
<1> DEFINE S == [sync[d] EXCEPT !.peers = @ \cup {p}]
           out == To(p, Greeting(d))
<1>1. /\ doc' = doc /\ store' = store /\ deps' = deps /\ parked' = parked
      /\ Step(d, doc[d], S, out, net, transfers)
  BY DEF Open
<1>2. SyncTyped(sync[d]) /\ IsSync(sync[d]) /\ sync[d].asked \subseteq doc[d]
  BY DEF Good, Typed, SyncTyped, Asked
<1>3. /\ IsSync(S) /\ S.peers = sync[d].peers \cup {p} /\ S.wanted = sync[d].wanted
      /\ S.holders = sync[d].holders /\ S.asked = sync[d].asked
  BY <1>2 DEF IsSync
<1> HIDE DEF S
<1>4. Extends(d, doc[d], S)
  BY <1>2, <1>3 DEF Extends, SyncTyped, Holds
<1>5. Greeted(d, doc[d], S, out)
  BY <1>3, GreetsNew
<1>6. Answered(d, doc[d], S, out, d, "none", {})
  BY DEF Answered
<1> HIDE DEF out
<1> QED BY <1>1, <1>4, <1>5, <1>6, SameDoc, ParkedStays, NothingTaken, StepGood

\* handle, the hello arm.
LEMMA HandleHelloGood ==
  ASSUME Good, NEW d \in Drives, NEW p \in Drives, net[p][d] # <<>>,
         Head(net[p][d]).kind = "hello", HandleHello(p, d, Head(net[p][d]).set)
  PROVE  Good'
<1> DEFINE f == Head(net[p][d])
           S == Registered(sync[d], p, f.set)
           out == IF p \in sync[d].peers THEN Silence ELSE To(p, Greeting(d))
<1>1. /\ doc' = doc /\ store' = store /\ deps' = deps /\ parked' = parked
      /\ Step(d, doc[d], S, out, Taken(p, d), transfers)
  BY DEF HandleHello, Registered
<1>2. SyncTyped(sync[d]) /\ IsSync(sync[d]) /\ sync[d].asked \subseteq doc[d]
  BY DEF Good, Typed, SyncTyped, Asked
<1>3. /\ IsSync(S) /\ S.peers = sync[d].peers \cup {p} /\ S.wanted = sync[d].wanted
      /\ S.holders = sync[d].holders /\ S.asked = sync[d].asked
  <2> HIDE DEF f
  <2> QED BY <1>2, HelloState
<1> HIDE DEF S
<1>4. Extends(d, doc[d], S)
  BY <1>2, <1>3 DEF Extends, SyncTyped, Holds
<1>5. Greeted(d, doc[d], S, out)
  <2>1. CASE p \in sync[d].peers
    <3>1. S.peers = sync[d].peers
      BY <2>1, <1>3
    <3> QED BY <3>1, <2>1, QuietOut
  <2>2. CASE p \notin sync[d].peers
    BY <2>2, <1>3, GreetsNew
  <2> QED BY <2>1, <2>2
<1>6. Answered(d, doc[d], S, out, p, f.kind, f.set)
  BY DEF Answered
<1>7. OffLinks(d, S.peers, Taken(p, d), p, f.kind, f.set)
  BY <1>3, OneTaken
<1> HIDE DEF out, f
<1> QED BY <1>1, <1>4, <1>5, <1>6, <1>7, SameDoc, ParkedStays, NothingTaken, StepGood

\* handle, the updates arm.
LEMMA HandleUpdatesGood ==
  ASSUME Good, NEW d \in Drives, NEW p \in Drives, net[p][d] # <<>>,
         Head(net[p][d]).kind = "updates", HandleUpdates(p, d, Head(net[p][d]).set)
  PROVE  Good'
<1> DEFINE f == Head(net[p][d])
           U == f.set \cup parked[d]
           after == doc[d] \cup {c \in U : deps[c] \subseteq doc[d] \cup U}
           s == sync[d]
           S == IF p \in s.known /\ doc[d] \subseteq s.vv[p] THEN [s EXCEPT !.vv[p] = after] ELSE s
<1>1. /\ doc' = [doc EXCEPT ![d] = after] /\ store' = store /\ deps' = deps
      /\ parked' = [parked EXCEPT ![d] = U \ after]
      /\ Step(d, after, S, Silence, Taken(p, d), transfers)
  BY DEF HandleUpdates
<1>2. f \in Frames
  BY TakenOff DEF Good, Typed, Sends
<1>3. U \in SUBSET Changes
  BY <1>2 DEF Good, Typed, Frames
<1>4. after \in SUBSET Changes /\ doc[d] \subseteq after
  <2> HIDE DEF U
  <2> QED BY <1>3 DEF Good, Typed
<1>5. parked' \in [Drives -> SUBSET Changes]
  <2> HIDE DEF U, after
  <2> QED BY <1>1, <1>3 DEF Good, Typed
<1>6. Like(S, sync[d])
  <2>1. IsSync(sync[d])
    BY DEF Good, Typed, SyncTyped
  <2> HIDE DEF after
  <2> QED BY <2>1, OtherFields, KnownWiderIsLike
<1> HIDE DEF S
<1>7. Extends(d, after, S) /\ S.peers = sync[d].peers
  <2> HIDE DEF after
  <2> QED BY <1>6, LikeExtends
<1>8. Greeted(d, after, S, Silence)
  <2> HIDE DEF after
  <2> QED BY <1>7, QuietOut
<1>9. Answered(d, after, S, Silence, p, f.kind, f.set)
  BY DEF Answered
<1>10. OffLinks(d, S.peers, Taken(p, d), p, f.kind, f.set)
  BY OneTaken
<1> HIDE DEF f, after
<1> QED BY <1>1, <1>4, <1>5, <1>7, <1>8, <1>9, <1>10, NothingTaken, StepGood

\* A Want that comes off a link is from a peer.
LEMMA AskerIsKnown ==
  ASSUME Good, NEW d \in Drives, NEW p \in Drives, net[p][d] # <<>>,
         Head(net[p][d]).kind = "want"
  PROVE  p \in sync[d].peers
<1> DEFINE q == net[p][d]
<1>1. q \in Seq(Frames) /\ q # <<>> /\ Head(q).kind = "want"
  BY DEF Good, Typed, Sends
<1>2. Hail(q, p \in sync[d].peers, d \in sync[p].peers, Quiet(p, d))
  BY DEF Good, Hailed
<1> HIDE DEF q
<1>3. ~HelloFirst(q)
  BY <1>1, TakenOff
<1>4. ~NoWant(q)
  <2>1. 1 \in DOMAIN q /\ q[1] = Head(q)
    BY <1>1
  <2> QED BY <1>1, <2>1 DEF NoWant
<1> QED BY <1>2, <1>3, <1>4 DEF Hail

\* handle, the want arm.
LEMMA HandleWantGood ==
  ASSUME Good, NEW d \in Drives, NEW p \in Drives, net[p][d] # <<>>,
         Head(net[p][d]).kind = "want", HandleWant(p, d, Head(net[p][d]).set)
  PROVE  Good'
<1> DEFINE f == Head(net[p][d])
           s == sync[d]
           S == [s EXCEPT !.wanted[p] = @ \cup (f.set \ store[d])]
           q == Frame("have", f.set \cap store[d])
           out == To(p, q)
<1>0. p \in sync[d].peers
  BY AskerIsKnown
<1>1. /\ doc' = doc /\ store' = store /\ deps' = deps /\ parked' = parked
      /\ Step(d, doc[d], S, out, Taken(p, d), transfers)
  BY <1>0 DEF HandleWant
<1>2. f \in Frames
  BY TakenOff DEF Good, Typed, Sends
<1>3. f.set \in SUBSET Changes /\ f.kind = "want"
  BY <1>2 DEF Frames
<1>4. SyncTyped(s) /\ IsSync(s) /\ s.asked \subseteq doc[d]
  BY DEF Good, Typed, SyncTyped, Asked
<1>5. /\ IsSync(S) /\ S.peers = s.peers /\ S.holders = s.holders /\ S.asked = s.asked
      /\ S.wanted = [s.wanted EXCEPT ![p] = @ \cup (f.set \ store[d])]
  <2> DEFINE w == [s.wanted EXCEPT ![p] = @ \cup (f.set \ store[d])]
  <2> HIDE DEF f, s
  <2>1. S = [s EXCEPT !.wanted = w]
    BY <1>4 DEF IsSync
  <2> HIDE DEF S, w
  <2>2. /\ IsSync(S) /\ S.peers = s.peers /\ S.holders = s.holders /\ S.asked = s.asked
        /\ S.wanted = w
    BY <1>4, <2>1 DEF IsSync
  <2> QED BY <2>2 DEF w
<1> HIDE DEF S
<1>6. /\ S.wanted \in [Drives -> SUBSET Changes]
      /\ \A e \in Drives : s.wanted[e] \subseteq S.wanted[e]
      /\ f.set \ store[d] \subseteq S.wanted[p]
  <2> HIDE DEF f, s
  <2> QED BY <1>3, <1>4, <1>5 DEF SyncTyped
<1>7. Extends(d, doc[d], S)
  <2>1. SyncTyped(S)
    <3> HIDE DEF f, s
    <3> QED BY <1>4, <1>5, <1>6 DEF SyncTyped
  <2> QED BY <2>1, <1>4, <1>5, <1>6 DEF Extends, Holds
<1>8. q \in Seq(Frames) /\ NoWant(q) /\ \A c \in f.set \cap store[d] : Names(q, "have", c)
  <2> HIDE DEF f
  <2>1. f.set \cap store[d] \in SUBSET Changes
    BY <1>3
  <2> QED BY <2>1, OneFrame
<1> HIDE DEF q
<1>9. /\ out \in Sends /\ out[p] = q /\ \A e \in Drives : e # p => out[e] = <<>>
  BY <1>8, Addressed
<1> HIDE DEF out
<1>10. Greeted(d, doc[d], S, out)
  BY <1>5, <1>8, <1>9, Empty DEF Greeted
<1>11. Answered(d, doc[d], S, out, p, f.kind, f.set)
  <2>1. \A c \in f.set : (p \in S.peers /\ c \in S.wanted[p]) \/ Names(out[p], "have", c)
    <3> HIDE DEF f
    <3> QED BY <1>0, <1>5, <1>6, <1>8, <1>9
  <2> QED BY <2>1, <1>3 DEF Answered
<1>12. OffLinks(d, S.peers, Taken(p, d), p, f.kind, f.set)
  BY OneTaken
<1> HIDE DEF f
<1> QED BY <1>1, <1>7, <1>10, <1>11, <1>12, SameDoc, ParkedStays, NothingTaken, StepGood

\* An element more at the end of a sequence.
LEMMA Appended ==
  ASSUME NEW T, NEW a \in Seq(T), NEW x \in T
  PROVE  /\ Append(a, x) \in Seq(T) /\ Len(a) \in Nat /\ DOMAIN a = 1..Len(a)
         /\ DOMAIN Append(a, x) = 1..(Len(a) + 1)
         /\ \A i \in 1..Len(a) : Append(a, x)[i] = a[i]
         /\ Append(a, x)[Len(a) + 1] = x
OBVIOUS

\* handle, the have arm.
LEMMA HandleHaveGood ==
  ASSUME Good, NEW d \in Drives, NEW p \in Drives, net[p][d] # <<>>,
         Head(net[p][d]).kind = "have", HandleHave(p, d, Head(net[p][d]).set)
  PROVE  Good'
<1> DEFINE f == Head(net[p][d])
           s == sync[d]
           offer == f.set \cap Wants(doc[d], store[d])
           lacks(o) == \A i \in DOMAIN s.holders[o] : s.holders[o][i] # p
           h == [o \in Changes |->
                   IF o \in offer /\ lacks(o) THEN Append(s.holders[o], p) ELSE s.holders[o]]
           S == [s EXCEPT !.holders = h]
<1>1. /\ doc' = doc /\ store' = store /\ deps' = deps /\ parked' = parked
      /\ Step(d, doc[d], S, Silence, Taken(p, d), transfers)
  BY DEF HandleHave
<1>2. f \in Frames
  BY TakenOff DEF Good, Typed, Sends
<1>3. f.set \in SUBSET Changes
  BY <1>2 DEF Frames
<1>4. SyncTyped(s) /\ IsSync(s) /\ s.asked \subseteq doc[d]
  BY DEF Good, Typed, SyncTyped, Asked
<1>5. /\ IsSync(S) /\ S.peers = s.peers /\ S.wanted = s.wanted /\ S.asked = s.asked
      /\ S.holders = h
  <2> HIDE DEF f, s, h
  <2> QED BY <1>4 DEF IsSync
<1> HIDE DEF S
<1>6. ASSUME NEW o \in Changes
      PROVE  /\ h[o] \in Seq(Drives)
             /\ \A e \in Drives : Holds(s, o, e) => \E i \in DOMAIN h[o] : h[o][i] = e
             /\ o \in offer => \E i \in DOMAIN h[o] : h[o][i] = p
  <2>1. s.holders[o] \in Seq(Drives)
    BY <1>4 DEF SyncTyped
  <2>2. CASE o \in offer /\ lacks(o)
    <3> DEFINE a == s.holders[o]
    <3>1. h[o] = Append(a, p)
      BY <2>2
    <3> HIDE DEF a, h, offer
    <3>0. a \in Seq(Drives)
      BY <2>1 DEF a
    <3>2. /\ Append(a, p) \in Seq(Drives) /\ Len(a) \in Nat /\ DOMAIN a = 1..Len(a)
          /\ DOMAIN Append(a, p) = 1..(Len(a) + 1)
          /\ \A i \in 1..Len(a) : Append(a, p)[i] = a[i]
          /\ Append(a, p)[Len(a) + 1] = p
      BY <3>0, Appended
    <3>3. Len(a) + 1 \in DOMAIN Append(a, p) /\ \A i \in DOMAIN a : i \in DOMAIN Append(a, p)
      BY <3>2
    <3>4. \A e : Holds(s, o, e) => \E i \in DOMAIN a : a[i] = e
      BY DEF Holds, a
    <3> QED BY <3>1, <3>2, <3>3, <3>4
  <2>3. CASE ~(o \in offer /\ lacks(o))
    <3>1. h[o] = s.holders[o]
      BY <2>3
    <3>2. o \in offer => ~lacks(o)
      BY <2>3
    <3> HIDE DEF h, offer
    <3> QED BY <2>1, <3>1, <3>2 DEF Holds
  <2> QED BY <2>2, <2>3
<1>7. S.holders \in [Changes -> Seq(Drives)]
  <2>1. h = [o \in Changes |-> h[o]]
    OBVIOUS
  <2> HIDE DEF h
  <2> QED BY <1>5, <1>6, <2>1
<1> HIDE DEF h
<1>8. Wants(doc[d], store[d]) \subseteq Changes
  BY WantedIsNamed DEF Good, Typed
<1>9. Extends(d, doc[d], S)
  <2>1. SyncTyped(S)
    <3> HIDE DEF f, s
    <3> QED BY <1>4, <1>5, <1>7 DEF SyncTyped
  <2>2. \A o \in Changes, e \in Drives : Holds(s, o, e) => Holds(S, o, e)
    BY <1>5, <1>6 DEF Holds
  <2> QED BY <2>1, <2>2, <1>4, <1>5, <1>8 DEF Extends
<1>10. Greeted(d, doc[d], S, Silence)
  BY <1>5, QuietOut
<1>11. Answered(d, doc[d], S, Silence, p, f.kind, f.set)
  <2>1. \A c \in f.set \cap Wants(doc[d], store[d]) : Holds(S, c, p)
    BY <1>5, <1>6, <1>8 DEF Holds
  <2> QED BY <2>1 DEF Answered
<1>12. OffLinks(d, S.peers, Taken(p, d), p, f.kind, f.set)
  BY OneTaken
<1> HIDE DEF f
<1> QED BY <1>1, <1>9, <1>10, <1>11, <1>12, SameDoc, ParkedStays, NothingTaken, StepGood

\* A transfer that ends before its report is back takes no frame with it.
LEMMA SilentLeft ==
  ASSUME Good, NEW d \in Drives, NEW o \in Changes, NEW t \in transfers[d][o],
         t.phase # "acted"
  PROVE  LeftOf(Done(d, o, t))
<1> DEFINE X == Done(d, o, t)
<1>1. t.acts.send = Silence
  BY DEF Good, Moving, TransferOK
<1>2. IsTable(transfers)
  BY DEF Good, Typed
<1>3. IsTable(X)
  BY <1>2 DEF IsTable, Done
<1>4. /\ X[d][o] = transfers[d][o] \ {t}
      /\ \A e \in Drives, c \in Changes : ~(e = d /\ c = o) => X[e][c] = transfers[e][c]
  BY <1>2 DEF IsTable, Done
<1>5. LeftOf(X)
  <2> HIDE DEF X
  <2> QED BY <1>1, <1>3, <1>4 DEF LeftOf
<1> QED BY <1>5

\* pull_failed, of a transfer without faults.
LEMMA PullFailedGood ==
  ASSUME Good, NEW d \in Drives, NEW o \in Changes, NEW t \in transfers[d][o],
         PullFailed(d, o, t)
  PROVE  Good'
<1> DEFINE S == EndFailed(sync[d], o, t.from)
           X == Done(d, o, t)
<1>1. /\ doc' = doc /\ store' = store /\ deps' = deps /\ parked' = parked
      /\ Step(d, doc[d], S, Silence, net, X) /\ t.phase # "acted"
  BY DEF PullFailed
<1>2. Like(S, sync[d])
  BY EndFailedIsLike DEF Good, Typed, SyncTyped
<1> HIDE DEF S
<1>3. Extends(d, doc[d], S) /\ S.peers = sync[d].peers
  BY <1>2, LikeExtends
<1>4. Greeted(d, doc[d], S, Silence)
  BY <1>3, QuietOut
<1>5. Answered(d, doc[d], S, Silence, d, "none", {})
  BY DEF Answered
<1>6. LeftOf(X)
  BY <1>1, SilentLeft
<1> HIDE DEF X
<1> QED BY <1>1, <1>3, <1>4, <1>5, <1>6, SameDoc, ParkedStays, NothingTaken, StepGood

\* Without a reaction, wants stay known while none is added and nothing that
\* is on its way is lost.
LEMMA KnownStays ==
  ASSUME Typed, Known, sync' = sync,
         \A e \in Drives : Wants(doc'[e], store'[e]) \subseteq Wants(doc[e], store[e]),
         \A x, y \in Drives : \A k, c : OnItsWay(x, y, k, c) => OnItsWay(x, y, k, c)'
  PROVE  Known'
<1> SUFFICES ASSUME NEW e \in Drives, NEW p \in sync'[e].peers, NEW o \in Wants(doc'[e], store'[e])
             PROVE  \/ OnItsWay(e, p, "want", o)'
                    \/ e \in sync'[p].peers /\ o \in sync'[p].wanted[e]
                    \/ OnItsWay(p, e, "have", o)'
                    \/ Holds(sync'[e], o, p)
  BY DEF Known, KnownTo, Holds
<1>1. p \in Drives
  BY DEF Typed, SyncTyped
<1>2. KnownTo(e, p, o)
  BY DEF Known
<1> QED BY <1>1, <1>2 DEF KnownTo

\* A change in the documents or the stores only.
LEMMA OnlyDocs ==
  ASSUME Good, sync' = sync, net' = net, transfers' = transfers, parked' = parked,
         deps' \in Seq(SUBSET Changes), doc' \in [Drives -> SUBSET Changes],
         store' \in [Drives -> SUBSET Changes],
         \A e \in Drives : doc[e] \subseteq doc'[e],
         \A e \in Drives : Wants(doc'[e], store'[e]) \subseteq Wants(doc[e], store[e])
  PROVE  Good'
<1>0. Typed /\ Asked /\ Moving /\ Hailed /\ Known
  BY DEF Good
<1>1. Typed'
  BY <1>0 DEF Typed, SyncTyped, IsSync, IsTable
<1>2. Asked'
  BY <1>0 DEF Asked
<1>3. Moving'
  <2> SUFFICES ASSUME NEW e \in Drives, NEW o \in Changes, NEW t \in transfers[e][o]
               PROVE  TransferOK(e, o, t)'
    BY DEF Moving
  <2>1. TransferOK(e, o, t)
    BY <1>0 DEF Moving
  <2> QED BY <2>1, TransferStays
<1>4. Hailed'
  BY <1>0 DEF Hailed, Hail, Quiet
<1>5. \A x, y \in Drives : \A k, c : OnItsWay(x, y, k, c) => OnItsWay(x, y, k, c)'
  BY Way
<1>6. Known'
  BY <1>0, <1>5, KnownStays
<1> QED BY <1>1, <1>2, <1>3, <1>4, <1>6 DEF Good

\* A version is added to the document.
LEMMA AddVersionGood ==
  ASSUME Good, NEW d \in Drives, AddVersion(d)
  PROVE  Good'
<1> DEFINE c == Len(deps) + 1
<1>0. Typed
  BY DEF Good
<1>1. /\ c <= MaxChanges /\ deps' = Append(deps, doc[d])
      /\ doc' = [doc EXCEPT ![d] = doc[d] \cup {c}]
      /\ store' = [store EXCEPT ![d] = store[d] \cup {c}]
      /\ sync' = sync /\ net' = net /\ transfers' = transfers /\ parked' = parked
  BY DEF AddVersion
<1>2. c \in Changes
  <2>1. Len(deps) \in Nat
    BY <1>0 DEF Typed
  <2> QED BY <1>1, <2>1, DriveBoundAssumption DEF Changes
<1>3. deps' \in Seq(SUBSET Changes)
  <2>1. deps \in Seq(SUBSET Changes) /\ doc[d] \in SUBSET Changes
    BY <1>0 DEF Typed
  <2> QED BY <1>1, <2>1
<1> HIDE DEF c
<1>4. /\ doc' \in [Drives -> SUBSET Changes] /\ store' \in [Drives -> SUBSET Changes]
      /\ doc'[d] = doc[d] \cup {c} /\ store'[d] = store[d] \cup {c}
      /\ \A e \in Drives : e # d => doc'[e] = doc[e] /\ store'[e] = store[e]
  BY <1>0, <1>1, <1>2 DEF Typed
<1>5. Wants(doc[d] \cup {c}, store[d] \cup {c}) \subseteq Wants(doc[d], store[d])
  BY DEF Wants, Retained
<1>6. \A e \in Drives : doc[e] \subseteq doc'[e]
  BY <1>4
<1>7. \A e \in Drives : Wants(doc'[e], store'[e]) \subseteq Wants(doc[e], store[e])
  BY <1>4, <1>5
<1> QED BY <1>1, <1>3, <1>4, <1>6, <1>7, OnlyDocs

\* Objects are collected.
LEMMA GcGood ==
  ASSUME Good, NEW d \in Drives, Gc(d)
  PROVE  Good'
<1>0. Typed
  BY DEF Good
<1>1. /\ store' = [store EXCEPT ![d] = store[d] \cap Retained(doc[d])]
      /\ deps' = deps /\ doc' = doc
      /\ sync' = sync /\ net' = net /\ transfers' = transfers /\ parked' = parked
  BY DEF Gc
<1>2. Wants(doc[d], store[d] \cap Retained(doc[d])) \subseteq Wants(doc[d], store[d])
  BY DEF Wants
<1>3. \A e \in Drives : Wants(doc'[e], store'[e]) \subseteq Wants(doc[e], store[e])
  BY <1>0, <1>1, <1>2 DEF Typed
<1>4. store' \in [Drives -> SUBSET Changes]
  BY <1>0, <1>1 DEF Typed
<1> QED BY <1>0, <1>1, <1>3, <1>4, OnlyDocs DEF Typed

\* The transfer t of o becomes u.
Exchange(d, o, t, u) ==
  /\ IsTable(transfers)' /\ u \in transfers'[d][o]
  /\ \A e \in Drives, c \in Changes : \A x \in transfers[e][c] :
       x \in transfers'[e][c] \/ (e = d /\ c = o /\ x = t)
  /\ \A e \in Drives, c \in Changes : \A x \in transfers'[e][c] :
       x \in transfers[e][c] \/ (e = d /\ c = o /\ x = u)

\* Becomes does that.
LEMMA Exchanged ==
  ASSUME Good, NEW d \in Drives, NEW o \in Changes, NEW t, NEW u,
         transfers' = [transfers EXCEPT ![d][o] = (@ \ {t}) \cup {u}]
  PROVE  Exchange(d, o, t, u)
<1>1. IsTable(transfers)
  BY DEF Good, Typed
<1>2. /\ transfers'[d][o] = (transfers[d][o] \ {t}) \cup {u}
      /\ \A e \in Drives, c \in Changes : ~(e = d /\ c = o) => transfers'[e][c] = transfers[e][c]
  BY <1>1 DEF IsTable
<1>3. IsTable(transfers')
  BY <1>1 DEF IsTable
<1> QED BY <1>2, <1>3 DEF IsTable, Exchange

\* A pulled object lands in the store.
LEMMA AdmitGood ==
  ASSUME Good, NEW d \in Drives, NEW o \in Changes, NEW t \in transfers[d][o], Admit(d, o, t)
  PROVE  Good'
<1> DEFINE u == [t EXCEPT !.phase = "landed"]
<1>0. Typed /\ Asked /\ Moving /\ Hailed /\ Known
  BY DEF Good
<1>1. /\ t.phase = "running" /\ store' = [store EXCEPT ![d] = store[d] \cup {o}]
      /\ transfers' = [transfers EXCEPT ![d][o] = (@ \ {t}) \cup {u}]
      /\ doc' = doc /\ sync' = sync /\ net' = net /\ deps' = deps /\ parked' = parked
  BY DEF Admit, Becomes
<1>2. TransferOK(d, o, t)
  BY <1>0 DEF Moving
<1>3. /\ u.acts = t.acts /\ u.phase = "landed"
      /\ u = [from |-> u.from, n |-> u.n, acts |-> u.acts, phase |-> u.phase]
  BY <1>2 DEF TransferOK
<1>4. t.acts.send = Silence
  BY <1>1, <1>2 DEF TransferOK
<1> HIDE DEF u
<1>5. /\ IsTable(transfers)' /\ u \in transfers'[d][o]
      /\ \A e \in Drives, c \in Changes : \A x \in transfers[e][c] :
           x \in transfers'[e][c] \/ (e = d /\ c = o /\ x = t)
      /\ \A e \in Drives, c \in Changes : \A x \in transfers'[e][c] :
           x \in transfers[e][c] \/ (e = d /\ c = o /\ x = u)
  <2>1. Exchange(d, o, t, u)
    BY <1>1, Exchanged
  <2> QED BY <2>1 DEF Exchange
<1>6. /\ store' \in [Drives -> SUBSET Changes] /\ store'[d] = store[d] \cup {o}
      /\ \A e \in Drives : e # d => store'[e] = store[e]
  BY <1>0, <1>1 DEF Typed
<1>7. \A e \in Drives : Wants(doc'[e], store'[e]) \subseteq Wants(doc[e], store[e])
  BY <1>1, <1>6 DEF Wants
<1>8. Typed'
  BY <1>0, <1>1, <1>5, <1>6 DEF Typed, SyncTyped, IsSync
<1>9. Asked'
  BY <1>0, <1>1 DEF Asked
<1>10. Moving'
  <2> SUFFICES ASSUME NEW e \in Drives, NEW c \in Changes, NEW x \in transfers'[e][c]
               PROVE  TransferOK(e, c, x)'
    BY DEF Moving
  <2>1. CASE x \in transfers[e][c]
    <3>1. TransferOK(e, c, x)
      BY <2>1, <1>0 DEF Moving
    <3> QED BY <3>1, <1>1, <1>7, TransferStays
  <2>2. CASE e = d /\ c = o /\ x = u
    <3>1. o \notin Wants(doc'[d], store'[d])
      BY <1>6 DEF Wants
    <3>2. ActsTyped(d, u.acts)' /\ o \in doc'[d]
      BY <1>1, <1>2, <1>3 DEF TransferOK, ActsTyped
    <3>3. TransferOK(d, o, u)'
      BY <3>1, <3>2, <1>3, <1>4 DEF TransferOK
    <3> QED BY <3>3, <2>2
  <2> QED BY <2>1, <2>2, <1>5
<1>11. \A e, p \in Drives : Quiet(e, p) => Quiet(e, p)'
  <2> SUFFICES ASSUME NEW e \in Drives, NEW p \in Drives, Quiet(e, p),
                      NEW c \in Changes, NEW x \in transfers'[e][c]
               PROVE  NoWant(x.acts.send[p])
    BY DEF Quiet
  <2>1. CASE x \in transfers[e][c]
    BY <2>1 DEF Quiet
  <2>2. CASE x = u
    BY <2>2, <1>3, <1>4, Silent
  <2> QED BY <2>1, <2>2, <1>5
<1>12. Hailed'
  BY <1>0, <1>1, <1>11 DEF Hailed, Hail
<1>13. \A x, y \in Drives : \A k, c : OnItsWay(x, y, k, c) => OnItsWay(x, y, k, c)'
  <2> SUFFICES ASSUME NEW x \in Drives, NEW y \in Drives, NEW k, NEW c, OnItsWay(x, y, k, c)
               PROVE  OnItsWay(x, y, k, c)'
    OBVIOUS
  <2>1. CASE Names(net[x][y], k, c)
    BY <2>1, <1>1, Way
  <2>2. ASSUME NEW b \in Changes, NEW r \in transfers[x][b], Names(r.acts.send[y], k, c)
        PROVE  OnItsWay(x, y, k, c)'
    <3>1. r # t
      BY <2>2, <1>4, Silent
    <3>2. r \in transfers'[x][b]
      BY <3>1, <1>5
    <3> QED BY <2>2, <3>2, Way
  <2> QED BY <2>1, <2>2, Way
<1>14. Known'
  BY <1>0, <1>1, <1>7, <1>13, KnownStays
<1> QED BY <1>8, <1>9, <1>10, <1>12, <1>14 DEF Good

\* pulled: the state now, the actions later.
LEMMA PulledGood ==
  ASSUME Good, NEW d \in Drives, NEW o \in Changes, NEW t \in transfers[d][o], Pulled(d, o, t)
  PROVE  Good'
<1> DEFINE S == Reported(sync[d], o)
           D == doc[d]
           W == Wants(D, store[d])
           r == React(d, D, S, Silence)
<1>u. PICK u : u = [t EXCEPT !.phase = "acted", !.acts = r.acts]
  OBVIOUS
<1>0. Typed /\ Asked /\ Moving /\ Hailed /\ Known
  BY DEF Good
<1>1. /\ t.phase = "landed" /\ sync' = [sync EXCEPT ![d] = r.sync]
      /\ transfers' = [transfers EXCEPT ![d][o] = (@ \ {t}) \cup {u}]
      /\ doc' = doc /\ store' = store /\ net' = net /\ deps' = deps /\ parked' = parked
  BY <1>u DEF Pulled, Reported
<1>2. TransferOK(d, o, t)
  BY <1>0 DEF Moving
<1>3. o \notin W /\ t.acts.send = Silence
  BY <1>1, <1>2 DEF TransferOK
<1>4. SyncTyped(sync[d]) /\ IsSync(sync[d]) /\ sync[d].asked \subseteq D
  BY <1>0 DEF Typed, SyncTyped, Asked
<1>5. /\ IsSync(S) /\ S.peers = sync[d].peers /\ S.wanted = sync[d].wanted
      /\ S.holders = [sync[d].holders EXCEPT ![o] = <<>>] /\ S.asked = sync[d].asked \ {o}
  BY <1>4, PulledState
<1> HIDE DEF S
<1>6. SyncTyped(S)
  <2>1. sync[d].holders \in [Changes -> Seq(Drives)] /\ <<>> \in Seq(Drives)
    BY <1>4 DEF SyncTyped
  <2>2. S.holders \in [Changes -> Seq(Drives)]
    BY <1>5, <2>1
  <2> QED BY <1>4, <1>5, <2>2 DEF SyncTyped
<1>7. /\ IsSync(r.sync) /\ r.sync.peers = S.peers /\ r.sync.asked = W
      /\ r.sync.wanted = [p \in Drives |-> S.wanted[p] \ store[d]]
      /\ r.sync.holders = [c \in Changes |-> IF c \in W THEN S.holders[c] ELSE <<>>]
  <2>1. IsSync(S)
    BY <1>5
  <2> HIDE DEF D
  <2> QED BY <2>1, ReactState
<1>8. D \in SUBSET Changes /\ W \subseteq Changes
  BY <1>0, WantedIsNamed DEF Typed
<1>9. /\ r.acts.send \in Sends
      /\ \A p \in Drives : p \notin S.peers => NoWant(r.acts.send[p])
      /\ \A p \in S.peers : \A c \in W \ S.asked : Names(r.acts.send[p], "want", c)
      /\ \A p \in Drives : \A c \in S.wanted[p] \cap store[d] : Names(r.acts.send[p], "have", c)
      /\ \A c \in Changes : r.acts.pull[c] # Nobody => c \in W
  <2> HIDE DEF D
  <2> QED BY <1>0, <1>6, <1>8, Silent, ReactActs
<1>10. /\ u.acts = r.acts /\ u.phase = "acted"
       /\ u = [from |-> u.from, n |-> u.n, acts |-> u.acts, phase |-> u.phase]
  <2> DEFINE v == [t EXCEPT !.phase = "acted"]
             a == r.acts
  <2>1. t = [from |-> t.from, n |-> t.n, acts |-> t.acts, phase |-> t.phase]
    BY <1>2 DEF TransferOK
  <2> HIDE DEF r
  <2>2. u = [v EXCEPT !.acts = a]
    BY <1>u, <2>1
  <2>3. v.phase = "acted" /\ v = [from |-> v.from, n |-> v.n, acts |-> v.acts, phase |-> v.phase]
    BY <2>1
  <2> HIDE DEF v, a
  <2>4. /\ u.acts = a /\ u.phase = "acted"
        /\ u = [from |-> u.from, n |-> u.n, acts |-> u.acts, phase |-> u.phase]
    BY <2>2, <2>3
  <2> QED BY <2>4 DEF a
<1> HIDE DEF r
<1>11. /\ IsTable(transfers)' /\ u \in transfers'[d][o]
       /\ \A e \in Drives, c \in Changes : \A x \in transfers[e][c] :
            x \in transfers'[e][c] \/ (e = d /\ c = o /\ x = t)
       /\ \A e \in Drives, c \in Changes : \A x \in transfers'[e][c] :
            x \in transfers[e][c] \/ (e = d /\ c = o /\ x = u)
  <2>1. Exchange(d, o, t, u)
    BY <1>1, Exchanged
  <2> QED BY <2>1 DEF Exchange
<1>12. /\ sync'[d] = r.sync /\ sync' = [e \in Drives |-> sync'[e]]
       /\ \A e \in Drives : e # d => sync'[e] = sync[e]
  <2>1. sync = [e \in Drives |-> sync[e]]
    BY <1>0 DEF Typed
  <2>2. DOMAIN sync = Drives
    BY <2>1
  <2> QED BY <1>1, <2>2
<1>13. SyncTyped(r.sync)
  <2>1. S.wanted \in [Drives -> SUBSET Changes] /\ S.holders \in [Changes -> Seq(Drives)]
        /\ S.peers \subseteq Drives
    BY <1>6 DEF SyncTyped
  <2>2. r.sync.wanted \in [Drives -> SUBSET Changes]
    BY <1>7, <2>1
  <2>3. r.sync.holders \in [Changes -> Seq(Drives)]
    <3> HIDE DEF W
    <3> QED BY <1>7, <2>1
  <2> QED BY <1>7, <2>1, <2>2, <2>3 DEF SyncTyped
<1>14. Typed'
  <2>1. \A e \in Drives : SyncTyped(sync'[e])
    BY <1>0, <1>12, <1>13 DEF Typed
  <2>2. \A e \in Drives : SyncTyped(sync[e])'
    BY <2>1 DEF SyncTyped, IsSync
  <2> QED BY <1>0, <1>1, <1>11, <1>12, <2>2 DEF Typed
<1>15. Asked'
  BY <1>0, <1>1, <1>7, <1>12, WantedIsNamed DEF Asked
<1>16. Moving'
  <2> SUFFICES ASSUME NEW e \in Drives, NEW c \in Changes, NEW x \in transfers'[e][c]
               PROVE  TransferOK(e, c, x)'
    BY DEF Moving
  <2>1. CASE x \in transfers[e][c]
    <3>1. TransferOK(e, c, x)
      BY <2>1, <1>0 DEF Moving
    <3> QED BY <3>1, <1>1, TransferStays
  <2>2. CASE e = d /\ c = o /\ x = u
    <3>1. o \in doc'[d]
      BY <1>1, <1>2 DEF TransferOK
    <3>2. ActsTyped(d, u.acts)'
      BY <1>1, <1>9, <1>10, WantedIsNamed DEF ActsTyped
    <3>3. TransferOK(d, o, u)'
      BY <3>1, <3>2, <1>10 DEF TransferOK
    <3> QED BY <3>3, <2>2
  <2> QED BY <2>1, <2>2, <1>11
<1>17. \A e \in Drives : sync'[e].peers = sync[e].peers
  BY <1>5, <1>7, <1>12
<1>18. Hailed'
  <2>1. \A e, p \in Drives : p \notin sync[e].peers /\ Quiet(e, p) => Quiet(e, p)'
    <3> SUFFICES ASSUME NEW e \in Drives, NEW p \in Drives, p \notin sync[e].peers, Quiet(e, p),
                        NEW c \in Changes, NEW x \in transfers'[e][c]
                 PROVE  NoWant(x.acts.send[p])
      BY DEF Quiet
    <3>1. CASE x \in transfers[e][c]
      BY <3>1 DEF Quiet
    <3>2. CASE e = d /\ x = u
      BY <3>2, <1>5, <1>9, <1>10
    <3> QED BY <3>1, <3>2, <1>11
  <2> SUFFICES ASSUME NEW x \in Drives, NEW y \in Drives
               PROVE  Hail(net'[x][y], x \in sync'[y].peers, y \in sync'[x].peers, Quiet(x, y)')
    BY DEF Hailed, Hail
  <2>2. Hail(net[x][y], x \in sync[y].peers, y \in sync[x].peers, Quiet(x, y))
    BY <1>0 DEF Hailed
  <2> QED BY <2>1, <2>2, <1>1, <1>17 DEF Hail
<1>19. \A x, y \in Drives : \A k, c : OnItsWay(x, y, k, c) => OnItsWay(x, y, k, c)'
  <2> SUFFICES ASSUME NEW x \in Drives, NEW y \in Drives, NEW k, NEW c, OnItsWay(x, y, k, c)
               PROVE  OnItsWay(x, y, k, c)'
    OBVIOUS
  <2>1. CASE Names(net[x][y], k, c)
    BY <2>1, <1>1, Way
  <2>2. ASSUME NEW b \in Changes, NEW z \in transfers[x][b], Names(z.acts.send[y], k, c)
        PROVE  OnItsWay(x, y, k, c)'
    <3>1. z # t
      BY <2>2, <1>3, Silent
    <3>2. z \in transfers'[x][b]
      BY <3>1, <1>11
    <3> QED BY <2>2, <3>2, Way
  <2> QED BY <2>1, <2>2, Way
<1>20. \A p, k, c : Names(r.acts.send[p], k, c) => OnItsWay(d, p, k, c)'
  BY <1>10, <1>11, Way
<1>21. Known'
  <2>1. /\ doc'[d] = D /\ doc[d] \subseteq D /\ store' = store
        /\ \A e \in Drives : e # d => doc'[e] = doc[e] /\ sync'[e] = sync[e]
    BY <1>1, <1>12
  <2>2. /\ sync'[d].peers = S.peers /\ S.peers \subseteq Drives /\ sync[d].peers \subseteq S.peers
        /\ S.asked \subseteq doc[d]
    BY <1>4, <1>5, <1>7, <1>12 DEF SyncTyped
  <2>3. \A p \in Drives : sync'[d].wanted[p] = S.wanted[p] \ store[d]
    BY <1>7, <1>12
  <2>4. \A p \in Drives : sync[d].wanted[p] \subseteq S.wanted[p]
    BY <1>5
  <2>5. \A c \in Wants(D, store[d]), p \in Drives : Holds(S, c, p) => Holds(sync'[d], c, p)
    <3>1. \A c \in W : sync'[d].holders[c] = S.holders[c]
      BY <1>7, <1>8, <1>12
    <3> QED BY <3>1 DEF Holds
  <2>6. \A c \in Wants(D, store[d]), p \in Drives : Holds(sync[d], c, p) => Holds(S, c, p)
    <3>1. \A c \in W : S.holders[c] = sync[d].holders[c]
      <4>1. \A c \in W : c # o /\ c \in Changes
        BY <1>3, <1>8
      <4>2. sync[d].holders \in [Changes -> Seq(Drives)]
        BY <1>4 DEF SyncTyped
      <4> HIDE DEF W
      <4> QED BY <4>1, <4>2, <1>5
    <3> QED BY <3>1 DEF Holds
  <2>7. \A p \in S.peers : \A c \in Wants(D, store[d]) \ S.asked : OnItsWay(d, p, "want", c)'
    BY <1>9, <1>20
  <2>8. \A p \in S.peers \ sync[d].peers : \A c \in Wants(D, store[d]) :
          OnItsWay(d, p, "want", c)'
    BY <1>5
  <2>9. \A p \in Drives : \A c \in S.wanted[p] \cap store[d] : OnItsWay(d, p, "have", c)'
    BY <1>9, <1>20
  <2>10. WayKept(d, d, "none", {})
    BY <1>19 DEF WayKept
  <2> HIDE DEF D, W
  <2> QED
    BY <2>1, <2>2, <2>3, <2>4, <2>5, <2>6, <2>7, <2>8, <2>9, <2>10, <1>0, KnownReacts
<1> QED BY <1>14, <1>15, <1>16, <1>18, <1>21 DEF Good

\* The report of a pull moves its frames to the links.
LEMMA RunPulledKeeps ==
  ASSUME Good, NEW d \in Drives, NEW o \in Changes, NEW t \in transfers[d][o], RunPulled(d, o, t)
  PROVE  /\ Carried(d, t.acts, net, Done(d, o, t)) /\ t.acts.send \in Sends
         /\ \A e \in Drives, c \in Changes : Done(d, o, t)[e][c] \subseteq transfers[e][c]
         /\ \A x, y \in Drives : \A k, c : OnItsWay(x, y, k, c) => OnItsWay(x, y, k, c)'
<1> DEFINE X == Done(d, o, t)
           send == t.acts.send
<1>0. Typed /\ Run(d, t.acts, net, X) /\ net \in [Drives -> Sends]
  BY DEF Good, Typed, RunPulled
<1>1. send \in Sends
  BY DEF Good, Moving, TransferOK, ActsTyped
<1>2. /\ IsTable(X) /\ X[d][o] = transfers[d][o] \ {t}
      /\ \A e \in Drives, c \in Changes : ~(e = d /\ c = o) => X[e][c] = transfers[e][c]
  <2>1. IsTable(transfers)
    BY <1>0 DEF Typed
  <2> QED BY <2>1 DEF IsTable, Done
<1> HIDE DEF X
<1>3. Carried(d, t.acts, net, X)
  BY <1>0, <1>1, <1>2, RunEffect
<1>4. \A p \in Drives : \A k, c :
        Names(net[d][p], k, c) \/ Names(send[p], k, c) => Names(net'[d][p], k, c)
  <2> SUFFICES ASSUME NEW p \in Drives, NEW k, NEW c,
                      Names(net[d][p], k, c) \/ Names(send[p], k, c)
               PROVE  Names(net'[d][p], k, c)
    OBVIOUS
  <2>1. net[d][p] \in Seq(Frames) /\ send[p] \in Seq(Frames)
    BY <1>0, <1>1 DEF Sends
  <2>2. net'[d][p] = net[d][p] \o send[p]
    BY <1>3 DEF Carried
  <2> QED BY <2>1, <2>2, Joined
<1>5. ASSUME NEW x \in Drives, NEW y \in Drives, NEW k, NEW c, OnItsWay(x, y, k, c)
      PROVE  OnItsWay(x, y, k, c)'
  <2>1. CASE Names(net[x][y], k, c)
    <3>1. Names(net'[x][y], k, c)
      <4>1. CASE x = d
        BY <4>1, <2>1, <1>4
      <4>2. CASE x # d
        BY <4>2, <2>1, <1>3 DEF Carried
      <4> QED BY <4>1, <4>2
    <3> QED BY <3>1, Way
  <2>2. ASSUME NEW b \in Changes, NEW z \in transfers[x][b], Names(z.acts.send[y], k, c)
        PROVE  OnItsWay(x, y, k, c)'
    <3>1. CASE x = d /\ b = o /\ z = t
      <4>1. Names(net'[x][y], k, c)
        BY <2>2, <3>1, <1>4
      <4> QED BY <4>1, Way
    <3>2. CASE ~(x = d /\ b = o /\ z = t)
      <4>1. z \in X[x][b]
        BY <3>2, <1>2
      <4>2. z \in transfers'[x][b]
        BY <4>1, <1>3 DEF Carried
      <4> QED BY <2>2, <4>2, Way
    <3> QED BY <3>1, <3>2
  <2> QED BY <2>1, <2>2, <1>5, Way
<1>6. \A e \in Drives, c \in Changes : X[e][c] \subseteq transfers[e][c]
  BY <1>2
<1> QED BY <1>1, <1>3, <1>5, <1>6 DEF X

\* The actions pulled returned are run.
LEMMA RunPulledGood ==
  ASSUME Good, NEW d \in Drives, NEW o \in Changes, NEW t \in transfers[d][o], RunPulled(d, o, t)
  PROVE  Good'
<1> DEFINE X == Done(d, o, t)
           send == t.acts.send
<1>0. Typed /\ Asked /\ Moving /\ Hailed /\ Known
  BY DEF Good
<1>1. /\ doc' = doc /\ store' = store /\ sync' = sync /\ deps' = deps /\ parked' = parked
      /\ Run(d, t.acts, net, X)
  BY DEF RunPulled
<1>2. TransferOK(d, o, t)
  BY <1>0 DEF Moving
<1>3. send \in Sends /\ \A c \in Changes : t.acts.pull[c] # Nobody => c \in doc[d]
  BY <1>2 DEF TransferOK, ActsTyped
<1>4. /\ IsTable(X) /\ X[d][o] = transfers[d][o] \ {t}
      /\ \A e \in Drives, c \in Changes : ~(e = d /\ c = o) => X[e][c] = transfers[e][c]
  <2>1. IsTable(transfers)
    BY <1>0 DEF Typed
  <2> QED BY <2>1 DEF IsTable, Done
<1> HIDE DEF X
<1>5. net \in [Drives -> Sends]
  BY <1>0 DEF Typed
<1>6. /\ net' \in [Drives -> Sends]
      /\ \A e \in Drives : e # d => net'[e] = net[e]
      /\ \A p \in Drives : net'[d][p] = net[d][p] \o send[p]
      /\ IsTable(transfers')
      /\ \A e \in Drives : e # d => transfers'[e] = X[e]
      /\ \A c \in Changes : X[d][c] \subseteq transfers'[d][c]
      /\ \A c \in Changes : \A x \in transfers'[d][c] : x \notin X[d][c] =>
           t.acts.pull[c] # Nobody /\ Begun(x)
  <2>1. Carried(d, t.acts, net, X)
    BY <1>1, <1>3, <1>4, <1>5, RunEffect
  <2> QED BY <2>1 DEF Carried
<1> HIDE DEF send
<1>7. Typed'
  BY <1>0, <1>1, <1>6 DEF Typed, SyncTyped, IsSync, IsTable
<1>8. Asked'
  BY <1>0, <1>1 DEF Asked
<1>9. ASSUME NEW e \in Drives, NEW c \in Changes, NEW x \in transfers'[e][c]
      PROVE  \/ x \in transfers[e][c]
             \/ e = d /\ Begun(x) /\ c \in doc[d]
  BY <1>3, <1>4, <1>6
<1>10. \A x : Begun(x) => /\ x.acts = NoActions /\ x.acts.send = Silence
                          /\ x.phase = "running"
                          /\ x = [from |-> x.from, n |-> x.n, acts |-> x.acts, phase |-> x.phase]
  BY DEF Begun, NoActions
<1>11. Moving'
  <2> SUFFICES ASSUME NEW e \in Drives, NEW c \in Changes, NEW x \in transfers'[e][c]
               PROVE  TransferOK(e, c, x)'
    BY DEF Moving
  <2>1. CASE x \in transfers[e][c]
    <3>1. TransferOK(e, c, x)
      BY <2>1, <1>0 DEF Moving
    <3> QED BY <3>1, <1>1, TransferStays
  <2>2. CASE e = d /\ Begun(x) /\ c \in doc[d]
    <3>1. \A b \in Changes : NoActions.pull[b] = Nobody
      BY DEF NoActions
    <3>2. ActsTyped(e, x.acts)'
      BY <2>2, <3>1, <1>10, Silent DEF ActsTyped
    <3> QED BY <2>2, <3>2, <1>1, <1>10 DEF TransferOK
  <2> QED BY <2>1, <2>2, <1>9
<1>12. \A e, p \in Drives : Quiet(e, p) => Quiet(e, p)'
  <2> SUFFICES ASSUME NEW e \in Drives, NEW p \in Drives, Quiet(e, p),
                      NEW c \in Changes, NEW x \in transfers'[e][c]
               PROVE  NoWant(x.acts.send[p])
    BY DEF Quiet
  <2>1. CASE x \in transfers[e][c]
    BY <2>1 DEF Quiet
  <2>2. CASE Begun(x)
    BY <2>2, <1>10, Silent
  <2> QED BY <2>1, <2>2, <1>9
<1>13. Hailed'
  <2> PICK P : P = sync[d].peers
    OBVIOUS
  <2>1. OffLinks(d, P, net, d, "none", {})
    BY NothingTaken
  <2>2. Sent(d, net, send)
    BY <1>3, <1>6 DEF Sent
  <2>3. sync[d].peers \subseteq P /\ sync'[d].peers = P /\ P \ sync[d].peers = {}
        /\ \A e \in Drives : sync'[e].peers = sync[e].peers
    BY <1>1
  <2>4. \A p \in Drives : Quiet(d, p) => NoWant(send[p]) /\ Quiet(d, p)'
    BY <1>12 DEF Quiet, send
  <2> QED BY <2>1, <2>2, <2>3, <2>4, <1>0, <1>12, HailedNext
<1>14. \A x, y \in Drives : \A k, c : OnItsWay(x, y, k, c) => OnItsWay(x, y, k, c)'
  BY RunPulledKeeps
<1>15. Known'
  <2>1. \A e \in Drives : Wants(doc'[e], store'[e]) \subseteq Wants(doc[e], store[e])
    BY <1>1
  <2> QED BY <2>1, <1>0, <1>1, <1>14, KnownStays
<1> QED BY <1>7, <1>8, <1>11, <1>13, <1>15 DEF Good

-----------------------------------------------------------------------------
(* The theorem. *)

\* Every drive starts closed.
LEMMA InitInv == ASSUME Init PROVE Inv
<1>1. IsSync(Closed) /\ Closed.peers = {} /\ Closed.asked = {}
      /\ Closed.wanted = [p \in Drives |-> {}] /\ Closed.holders = [o \in Changes |-> <<>>]
  BY DEF Closed, IsSync
<1>2. SyncTyped(Closed)
  <2>1. <<>> \in Seq(Drives)
    OBVIOUS
  <2> QED BY <1>1, <2>1 DEF SyncTyped
<1>3. /\ deps = <<>> /\ doc = [d \in Drives |-> {}] /\ parked = [d \in Drives |-> {}]
      /\ store = [d \in Drives |-> {}] /\ net = [d \in Drives |-> [p \in Drives |-> <<>>]]
      /\ sync = [d \in Drives |-> Closed] /\ faults = 0
      /\ transfers = [d \in Drives |-> [o \in Changes |-> {}]]
  BY DEF Init
<1>4. \A d \in Drives : sync[d] = Closed /\ \A o \in Changes : transfers[d][o] = {}
  BY <1>3
<1>5. Typed
  <2>1. net \in [Drives -> Sends]
    BY <1>3, Empty DEF Sends
  <2>2. IsTable(transfers)
    BY <1>3 DEF IsTable
  <2>3. sync = [d \in Drives |-> sync[d]]
    BY <1>3, <1>4
  <2>4. deps \in Seq(SUBSET Changes)
    BY <1>3
  <2> QED BY <1>2, <1>3, <1>4, <2>1, <2>2, <2>3, <2>4 DEF Typed
<1>6. Asked /\ Moving /\ Known
  BY <1>1, <1>4 DEF Asked, Moving, Known
<1>7. Hailed
  <2>1. \A d, p \in Drives : net[d][p] = <<>> /\ Quiet(d, p) /\ p \notin sync[d].peers
    BY <1>1, <1>3, <1>4 DEF Quiet
  <2> QED BY <2>1, Empty DEF Hailed, Hail
<1> QED BY <1>3, <1>5, <1>6, <1>7 DEF Inv, Good

\* Faults are counted up.
LEMMA FaultsCount ==
  ASSUME faults \in Nat, [Next]_vars
  PROVE  faults' \in Nat /\ (faults' = 0 => faults = 0)
<1> USE DEF Fault
<1>1. CASE UNCHANGED vars
  BY <1>1 DEF vars
<1>2. ASSUME NEW d \in Drives, NEW p \in Drives, Handle(p, d)
      PROVE  faults' = faults
  BY <1>2 DEF Handle, HandleHello, HandleUpdates, HandleWant, HandleHave
<1>3. ASSUME NEW d \in Drives, NEW o \in Changes, NEW t, PullFailed(d, o, t)
      PROVE  faults' = faults \/ faults' = faults + 1
  BY <1>3 DEF PullFailed
<1>4. ASSUME NEW d \in Drives, NEW o \in Changes, Settle(d, o)
      PROVE  faults' = faults \/ faults' = faults + 1
  BY <1>3, <1>4 DEF Settle, Admit, Pulled, RunPulled
<1>5. ASSUME NEW d \in Drives,
             AddVersion(d) \/ LocalChanged(d) \/ Gc(d) \/ Restart(d) \/ Tick(d)
      PROVE  faults' = faults \/ faults' = faults + 1
  BY <1>5 DEF AddVersion, LocalChanged, Gc, Restart, Tick
<1>6. ASSUME NEW d \in Drives, NEW p \in Drives, Open(d, p) \/ Close(d, p) \/ Lose(p, d)
      PROVE  faults' = faults \/ faults' = faults + 1
  BY <1>6 DEF Open, Close, Lose
<1>7. ASSUME NEW d, NEW o, NEW t, Refuse(d, o, t) \/ Hang(d, o, t)
      PROVE  faults' = faults + 1
  BY <1>7 DEF Refuse, Hang
<1>8. CASE Next
  <2>1. faults' = faults \/ faults' = faults + 1
    BY <1>2, <1>4, <1>5, <1>6, <1>7, <1>8 DEF Next
  <2> QED BY <2>1
<1> QED BY <1>1, <1>8

\* One step per action; a step that counts a fault has nothing to keep.
LEMMA NextInv == ASSUME Inv, [Next]_vars PROVE Inv'
<1>0. faults \in Nat /\ faults' \in Nat /\ (faults' = 0 => faults = 0)
  BY FaultsCount DEF Inv
<1> SUFFICES ASSUME faults' = 0 PROVE Good'
  BY <1>0 DEF Inv
<1>1. Good
  BY <1>0 DEF Inv
<1>2. ~Fault
  BY <1>0 DEF Fault
<1>3. CASE UNCHANGED vars
  <2>1. /\ deps' = deps /\ doc' = doc /\ parked' = parked /\ store' = store /\ sync' = sync
        /\ net' = net /\ transfers' = transfers
    BY <1>3 DEF vars
  <2>2. Typed
    BY <1>1 DEF Good
  <2> QED BY <1>1, <2>1, <2>2, OnlyDocs DEF Typed
<1>4. CASE Next
  <2> PICK d \in Drives :
        \/ AddVersion(d) \/ LocalChanged(d) \/ Gc(d) \/ Restart(d) \/ Tick(d)
        \/ \E p \in Drives : Open(d, p) \/ Close(d, p) \/ Handle(p, d) \/ Lose(p, d)
        \/ \E o \in Changes : \/ Settle(d, o)
                              \/ \E t \in transfers[d][o] : Refuse(d, o, t) \/ Hang(d, o, t)
    BY <1>4 DEF Next
  <2>1. CASE AddVersion(d)
    BY <1>1, <2>1, AddVersionGood
  <2>2. CASE LocalChanged(d)
    BY <1>1, <2>2, LocalChangedGood
  <2>3. CASE Gc(d)
    BY <1>1, <2>3, GcGood
  <2>4. CASE Restart(d)
    BY <1>2, <2>4 DEF Restart
  <2>5. CASE Tick(d)
    BY <1>1, <2>5, TickGood
  <2>6. ASSUME NEW p \in Drives, Open(d, p) PROVE Good'
    BY <1>1, <2>6, OpenGood
  <2>7. ASSUME NEW p \in Drives, Close(d, p) \/ Lose(p, d) PROVE Good'
    BY <1>2, <2>7 DEF Close, Lose
  <2>8. ASSUME NEW p \in Drives, Handle(p, d) PROVE Good'
    BY <1>1, <2>8, HandleHelloGood, HandleUpdatesGood, HandleWantGood, HandleHaveGood DEF Handle
  <2>9. ASSUME NEW o \in Changes, NEW t \in transfers[d][o], Refuse(d, o, t) \/ Hang(d, o, t)
        PROVE  Good'
    BY <1>2, <2>9 DEF Refuse, Hang
  <2>10. ASSUME NEW o \in Changes, Settle(d, o) PROVE Good'
    BY <1>1, <2>10, AdmitGood, PulledGood, RunPulledGood, PullFailedGood DEF Settle
  <2> QED BY <2>1, <2>2, <2>3, <2>4, <2>5, <2>6, <2>7, <2>8, <2>9, <2>10
<1> QED BY <1>3, <1>4

\* While nothing fails, no want is forgotten between two drives, however many
\* there are: from sync_open on, each open peer is about to be asked for what a
\* drive lacks, remembers that it was asked (PeerState.wanted), is about to
\* answer, or is on record as a holder.
THEOREM WantsAreNotForgotten == Spec => []WantIsKnown
<1>1. Init => Inv
  BY InitInv
<1>2. Inv /\ [Next]_vars => Inv'
  BY NextInv
<1>3. Inv => WantIsKnown
  BY KnownIsWantIsKnown
<1> QED BY <1>1, <1>2, <1>3, PTL DEF Spec

-----------------------------------------------------------------------------
(* Version vectors.  A drive takes a peer to have what it sent it, and what    *)
(* the peer has said it has.  That is sound between two drives, because what   *)
(* a drive has parked can then only be the other's (Gathered); with a third,   *)
(* a change parked from it and released by a peer's update is taken to be that *)
(* peer's.                                                                     *)

\* Frames that speak for a document name nothing outside D.
Truthful(q, D) ==
  \A i \in DOMAIN q : q[i].kind \in {"hello", "updates"} => q[i].set \subseteq D

BeliefTyped(S) == S.known \subseteq Drives /\ S.vv \in [Drives -> SUBSET Changes]

\* What a drive sends, or is yet to send, of its document, it has.
Truth ==
  \A d, p \in Drives :
    /\ Truthful(net[d][p], doc[d])
    /\ \A o \in Changes : \A t \in transfers[d][o] : Truthful(t.acts.send[p], doc[d])

\* What is parked, somebody has.
Gathered == \A d \in Drives : \A c \in parked[d] : \E x \in Drives : c \in doc[x]

\* BeliefIsCovered, for one drive, peer and change.
Covered(d, p, c) == c \in doc[p] \cup parked[p] \/ OnItsWay(d, p, "updates", c)

Believed == \A d \in Drives : \A p \in sync[d].known : \A c \in sync[d].vv[p] : Covered(d, p, c)

Sound == (\A d \in Drives : BeliefTyped(sync[d])) /\ Truth /\ Gathered /\ Believed

PairInv == Inv /\ (faults = 0 => Sound)

\* The invariant gives the property.
LEMMA SoundIsBeliefIsCovered == ASSUME PairInv PROVE BeliefIsCovered
BY DEF PairInv, Sound, Believed, Covered, BeliefIsCovered

\* Frames one after the other, and the first taken off.
LEMMA TruthJoined ==
  ASSUME NEW a \in Seq(Frames), NEW b \in Seq(Frames), NEW D, Truthful(a, D), Truthful(b, D)
  PROVE  Truthful(a \o b, D)
<1> SUFFICES ASSUME NEW i \in DOMAIN (a \o b), (a \o b)[i].kind \in {"hello", "updates"}
             PROVE  (a \o b)[i].set \subseteq D
  BY DEF Truthful
<1>0. /\ Len(a) \in Nat /\ Len(b) \in Nat /\ DOMAIN a = 1..Len(a) /\ DOMAIN b = 1..Len(b)
      /\ i \in 1..(Len(a) + Len(b))
  OBVIOUS
<1>1. CASE i <= Len(a)
  <2>1. i \in DOMAIN a /\ (a \o b)[i] = a[i]
    BY <1>0, <1>1
  <2> QED BY <2>1 DEF Truthful
<1>2. CASE ~(i <= Len(a))
  <2>1. i - Len(a) \in DOMAIN b /\ (a \o b)[i] = b[i - Len(a)]
    BY <1>0, <1>2
  <2> QED BY <2>1 DEF Truthful
<1> QED BY <1>1, <1>2

\* What is left of a link, and the frame taken off it.
LEMMA TruthTaken ==
  ASSUME NEW q \in Seq(Frames), q # <<>>, NEW D, Truthful(q, D)
  PROVE  /\ Truthful(Tail(q), D)
         /\ Head(q).kind \in {"hello", "updates"} => Head(q).set \subseteq D
<1>0. /\ Head(q) = q[1] /\ Len(q) \in Nat /\ DOMAIN q = 1..Len(q) /\ 1 \in DOMAIN q
      /\ DOMAIN Tail(q) = 1..(Len(q) - 1)
      /\ \A i \in 1..(Len(q) - 1) : Tail(q)[i] = q[i + 1] /\ i + 1 \in DOMAIN q
  OBVIOUS
<1> QED BY <1>0 DEF Truthful

\* A document that grows makes no frame untrue.
LEMMA TruthGrows ==
  ASSUME NEW q, NEW D, NEW E, D \subseteq E, Truthful(q, D)
  PROVE  Truthful(q, E)
BY DEF Truthful

\* Single frames, and none.
LEMMA TruthOfOne ==
  ASSUME NEW kind \in {"hello", "updates", "want", "have"}, NEW set \in SUBSET Changes, NEW D,
         kind \in {"hello", "updates"} => set \subseteq D
  PROVE  Truthful(<<>>, D) /\ Truthful(Frame(kind, set), D)
<1>0. Truthful(<<>>, D)
  BY DEF Truthful
<1>1. CASE set = {}
  BY <1>0, <1>1 DEF Frame
<1>2. CASE set # {}
  <2> DEFINE f == [kind |-> kind, set |-> set]
  <2>1. f.kind = kind /\ f.set = set
    OBVIOUS
  <2> HIDE DEF f
  <2>2. DOMAIN <<f>> = {1} /\ <<f>>[1] = f
    OBVIOUS
  <2>3. Frame(kind, set) = <<f>>
    BY <1>2 DEF Frame, f
  <2> QED BY <1>0, <2>1, <2>2, <2>3 DEF Truthful
<1> QED BY <1>1, <1>2

\* A greeting speaks for the document it is made from.
LEMMA TruthOfGreeting ==
  ASSUME Typed, NEW d \in Drives
  PROVE  Truthful(Hello(d), doc[d]) /\ Truthful(Greeting(d), doc[d])
<1> DEFINE f == [kind |-> "hello", set |-> doc[d]]
           W == Wants(doc[d], store[d])
<1>1. f.kind = "hello" /\ f.set = doc[d]
  OBVIOUS
<1>2. Hello(d) = <<f>>
  BY DEF Hello
<1> HIDE DEF f
<1>3. DOMAIN <<f>> = {1} /\ <<f>>[1] = f
  OBVIOUS
<1>4. Truthful(Hello(d), doc[d])
  BY <1>1, <1>2, <1>3 DEF Truthful
<1>5. W \in SUBSET Changes
  BY WantedIsNamed DEF Typed
<1>6. Greeting(d) = Hello(d) \o Frame("want", W)
  BY DEF Greeting
<1> HIDE DEF W
<1>7. Frame("want", W) \in Seq(Frames) /\ Truthful(Frame("want", W), doc[d])
  BY <1>5, OneFrame, TruthOfOne
<1> QED BY <1>4, <1>6, <1>7, Greets, TruthJoined

\* What the core believes after it reacted, and what it sends for that.
LEMMA ReactBeliefs ==
  ASSUME Typed, NEW d \in Drives, NEW D \in SUBSET Changes, NEW S, IsSync(S), BeliefTyped(S),
         NEW out \in Sends, \A p \in Drives : Truthful(out[p], D)
  PROVE  LET r == React(d, D, S, out)
         IN  /\ r.sync.known = S.known
             /\ BeliefTyped(r.sync)
             /\ r.acts.send \in Sends
             /\ \A p \in Drives : Truthful(r.acts.send[p], D)
             /\ \A p \in S.known : \A c \in r.sync.vv[p] :
                  c \in S.vv[p] \/ Names(r.acts.send[p], "updates", c)
<1> DEFINE r    == React(d, D, S, out)
           W    == Wants(D, store[d])
           behind == {e \in S.known : ~(D \subseteq S.vv[e])}
           U(p) == IF p \in behind THEN D \ S.vv[p] ELSE {}
           A(p) == IF p \in S.peers THEN W \ S.asked ELSE {}
           H(p) == S.wanted[p] \cap store[d]
           F(p) == out[p] \o Frame("updates", U(p)) \o Frame("want", A(p)) \o Frame("have", H(p))
<1>1. r.acts.send = [p \in Drives |-> F(p)]
  BY DEF React
<1>2. r.sync.known = S.known
      /\ r.sync.vv = [p \in Drives |-> IF p \in behind THEN D ELSE S.vv[p]]
  BY DEF React, IsSync
<1>3. W \in SUBSET Changes
  BY WantedIsNamed
<1> HIDE DEF r
<1>4. ASSUME NEW p \in Drives
      PROVE  /\ F(p) \in Seq(Frames) /\ Truthful(F(p), D)
             /\ \A c \in U(p) : Names(F(p), "updates", c)
  <2>1. out[p] \in Seq(Frames)
    BY DEF Sends
  <2>2. /\ U(p) \in SUBSET Changes /\ A(p) \in SUBSET Changes /\ H(p) \in SUBSET Changes
        /\ U(p) \subseteq D
    BY <1>3 DEF Typed
  <2> HIDE DEF U, A, H
  <2>3. /\ Frame("updates", U(p)) \in Seq(Frames) /\ Truthful(Frame("updates", U(p)), D)
        /\ \A c \in U(p) : Names(Frame("updates", U(p)), "updates", c)
        /\ Frame("want", A(p)) \in Seq(Frames) /\ Truthful(Frame("want", A(p)), D)
        /\ Frame("have", H(p)) \in Seq(Frames) /\ Truthful(Frame("have", H(p)), D)
    BY <2>2, OneFrame, TruthOfOne
  <2> DEFINE q1 == out[p] \o Frame("updates", U(p))
             q2 == q1 \o Frame("want", A(p))
  <2>4. q1 \in Seq(Frames) /\ Truthful(q1, D) /\ \A c \in U(p) : Names(q1, "updates", c)
    BY <2>1, <2>3, Joined, TruthJoined
  <2> HIDE DEF q1
  <2>5. q2 \in Seq(Frames) /\ Truthful(q2, D) /\ \A c \in U(p) : Names(q2, "updates", c)
    BY <2>3, <2>4, Joined, TruthJoined
  <2>6. F(p) = q2 \o Frame("have", H(p))
    BY DEF q1
  <2> HIDE DEF q2, F
  <2> QED BY <2>3, <2>5, <2>6, Joined, TruthJoined
<1>5. r.acts.send \in Sends /\ \A p \in Drives : Truthful(r.acts.send[p], D)
  <2> HIDE DEF F
  <2> QED BY <1>1, <1>4 DEF Sends
<1>6. BeliefTyped(r.sync)
  <2> HIDE DEF behind
  <2> QED BY <1>2 DEF BeliefTyped
<1>7. ASSUME NEW p \in S.known, NEW c \in r.sync.vv[p]
      PROVE  c \in S.vv[p] \/ Names(r.acts.send[p], "updates", c)
  <2>1. p \in Drives
    BY DEF BeliefTyped
  <2>2. c \in S.vv[p] \/ c \in U(p)
    BY <2>1, <1>2, <1>7
  <2>3. r.acts.send[p] = F(p)
    <3> HIDE DEF F
    <3> QED BY <2>1, <1>1
  <2> HIDE DEF F, U
  <2> QED BY <2>1, <2>2, <2>3, <1>4
<1> QED BY <1>2, <1>5, <1>6, <1>7 DEF r

\* d's document becomes D and keeps what was parked and, if they are updates,
\* the changes C; what is parked then was somebody's.
Imports(d, D, g, C) ==
  /\ doc' = [doc EXCEPT ![d] = D] /\ doc[d] \subseteq D
  /\ \A e \in Drives : e # d => parked'[e] = parked[e]
  /\ parked[d] \subseteq D \cup parked'[d]
  /\ g = "updates" => C \subseteq D \cup parked'[d]
  /\ \A c \in parked'[d] : \E x \in Drives : c \in doc[x]

\* S believes of a peer what d did, or what that peer has.
Trusts(d, S) ==
  \A p \in S.known : \A c \in S.vv[p] :
    \/ p \in sync[d].known /\ c \in sync[d].vv[p]
    \/ c \in doc'[p] \cup parked'[p]

\* What d imports is kept by all.
LEMMA Grows ==
  ASSUME Typed, NEW d \in Drives, NEW D, NEW g, NEW C, Imports(d, D, g, C)
  PROVE  /\ doc'[d] = D
         /\ \A e \in Drives : doc[e] \subseteq doc'[e]
         /\ \A e \in Drives : doc[e] \cup parked[e] \subseteq doc'[e] \cup parked'[e]
<1>1. doc'[d] = D /\ \A e \in Drives : e # d => doc'[e] = doc[e]
  BY DEF Typed, Imports
<1> QED BY <1>1 DEF Imports

\* An import parks only what came from a document.
LEMMA GatheredNext ==
  ASSUME Typed, Gathered, NEW d \in Drives, NEW D, NEW g, NEW C, Imports(d, D, g, C)
  PROVE  Gathered'
<1>1. \A e \in Drives : doc[e] \subseteq doc'[e]
  BY Grows
<1>2. \A e \in Drives : \A c \in parked'[e] : \E x \in Drives : c \in doc[x]
  BY DEF Gathered, Imports
<1> QED BY <1>1, <1>2 DEF Gathered

\* A reaction of d keeps beliefs covered, if those it starts from are.
LEMMA BelievedNext ==
  ASSUME Typed, Believed, NEW d \in Drives, NEW D, NEW S, NEW q, NEW g, NEW C,
         \A e \in Drives : BeliefTyped(sync[e]), BeliefTyped(S),
         Imports(d, D, g, C), Trusts(d, S), WayKept(d, q, g, C),
         \A e \in Drives : e # d => sync'[e] = sync[e],
         sync'[d].known = S.known,
         \A p \in S.known : \A c \in sync'[d].vv[p] :
           c \in S.vv[p] \/ OnItsWay(d, p, "updates", c)'
  PROVE  Believed'
<1> SUFFICES ASSUME NEW e \in Drives, NEW p \in sync'[e].known, NEW c \in sync'[e].vv[p]
             PROVE  c \in doc'[p] \cup parked'[p] \/ OnItsWay(e, p, "updates", c)'
  BY DEF Believed, Covered
<1>0. p \in Drives
  BY DEF BeliefTyped
<1>1. /\ doc'[d] = D
      /\ \A x \in Drives : doc[x] \cup parked[x] \subseteq doc'[x] \cup parked'[x]
  BY Grows
\* A belief that was covered still is.
<1>2. ASSUME p \in sync[e].known, c \in sync[e].vv[p]
      PROVE  c \in doc'[p] \cup parked'[p] \/ OnItsWay(e, p, "updates", c)'
  <2>1. Covered(e, p, c)
    BY <1>2 DEF Believed
  <2>2. CASE c \in doc[p] \cup parked[p]
    BY <2>2, <1>0, <1>1
  <2>3. CASE OnItsWay(e, p, "updates", c)
    <3>1. OnItsWay(e, p, "updates", c)' \/ (e = q /\ p = d /\ "updates" = g /\ c \in C)
      BY <2>3, <1>0 DEF WayKept
    <3>2. CASE e = q /\ p = d /\ "updates" = g /\ c \in C
      BY <3>2, <1>1 DEF Imports
    <3> QED BY <3>1, <3>2
  <2> QED BY <2>1, <2>2, <2>3 DEF Covered
<1>3. CASE e # d
  BY <1>2, <1>3
<1>4. CASE e = d
  <2>1. p \in S.known /\ (c \in S.vv[p] \/ OnItsWay(d, p, "updates", c)')
    BY <1>4
  <2>2. CASE c \in S.vv[p]
    <3>1. (p \in sync[d].known /\ c \in sync[d].vv[p]) \/ c \in doc'[p] \cup parked'[p]
      BY <2>1, <2>2 DEF Trusts
    <3> QED BY <3>1, <1>2, <1>4
  <2> QED BY <2>1, <2>2, <1>4
<1> QED BY <1>3, <1>4

\* Carrying out truthful actions keeps what is sent true.
LEMMA TruthNext ==
  ASSUME Typed, Truth, NEW d \in Drives, NEW acts, NEW N, NEW X, NEW P, NEW q, NEW g, NEW C,
         acts.send \in Sends, OffLinks(d, P, N, q, g, C), Carried(d, acts, N, X),
         \A e \in Drives, o \in Changes : X[e][o] \subseteq transfers[e][o],
         \A e \in Drives : doc[e] \subseteq doc'[e],
         \A p \in Drives : Truthful(acts.send[p], doc'[d])
  PROVE  Truth'
<1> DEFINE send == acts.send
<1>1. ASSUME NEW x \in Drives, NEW y \in Drives PROVE Truthful(net'[x][y], doc'[x])
  <2>0. /\ net[x][y] \in Seq(Frames) /\ N[x][y] \in Seq(Frames) /\ send[y] \in Seq(Frames)
        /\ doc[x] \subseteq doc'[x] /\ Truthful(net[x][y], doc[x])
    <3>1. net \in [Drives -> Sends] /\ N \in [Drives -> Sends] /\ send \in Sends
      BY DEF Typed, OffLinks
    <3>2. net[x] \in Sends /\ N[x] \in Sends
      BY <3>1
    <3>3. Truthful(net[x][y], doc[x])
      BY DEF Truth
    <3> QED BY <3>1, <3>2, <3>3 DEF Sends
  <2>1. Truthful(N[x][y], doc[x])
    <3>1. N[x][y] = net[x][y] \/ (net[x][y] # <<>> /\ N[x][y] = Tail(net[x][y]))
      BY DEF OffLinks
    <3> QED BY <3>1, <2>0, TruthTaken
  <2>2. Truthful(N[x][y], doc'[x])
    BY <2>0, <2>1, TruthGrows
  <2>3. CASE x = d
    <3>1. net'[x][y] = N[x][y] \o send[y] /\ Truthful(send[y], doc'[x])
      BY <2>3 DEF Carried
    <3> QED BY <3>1, <2>0, <2>2, TruthJoined
  <2>4. CASE x # d
    BY <2>4, <2>2 DEF Carried
  <2> QED BY <2>3, <2>4
<1>2. ASSUME NEW x \in Drives, NEW y \in Drives, NEW o \in Changes, NEW t \in transfers'[x][o]
      PROVE  Truthful(t.acts.send[y], doc'[x])
  <2>1. CASE t \in X[x][o]
    <3>1. Truthful(t.acts.send[y], doc[x])
      BY <2>1 DEF Truth
    <3> QED BY <3>1, TruthGrows
  <2>2. CASE t \notin X[x][o]
    <3>1. Begun(t)
      BY <2>2 DEF Carried
    <3>2. t.acts = NoActions
      BY <3>1 DEF Begun
    <3>3. t.acts.send[y] = <<>>
      BY <3>2, Silent DEF NoActions
    <3> QED BY <3>3 DEF Truthful
  <2> QED BY <2>1, <2>2
<1> QED BY <1>1, <1>2 DEF Truth

\* Every reaction that the host carries out at once keeps beliefs sound, if it
\* starts from sound beliefs and true frames.
LEMMA StepSound ==
  ASSUME Typed, Sound, NEW d \in Drives, NEW D \in SUBSET Changes, NEW S, NEW out \in Sends,
         NEW N, NEW X, NEW P, NEW q, NEW g, NEW C,
         IsSync(S), BeliefTyped(S), OffLinks(d, P, N, q, g, C), LeftOf(X),
         \A p \in Drives : Truthful(out[p], D),
         Imports(d, D, g, C), Trusts(d, S), Step(d, D, S, out, N, X)
  PROVE  Sound'
<1> DEFINE r == React(d, D, S, out)
<1>0. (\A e \in Drives : BeliefTyped(sync[e])) /\ Truth /\ Gathered /\ Believed
  BY DEF Sound
<1>1. sync' = [sync EXCEPT ![d] = r.sync] /\ Run(d, r.acts, N, X)
  BY DEF Step
<1>2. /\ r.sync.known = S.known /\ BeliefTyped(r.sync) /\ r.acts.send \in Sends
      /\ \A p \in Drives : Truthful(r.acts.send[p], D)
      /\ \A p \in S.known : \A c \in r.sync.vv[p] :
           c \in S.vv[p] \/ Names(r.acts.send[p], "updates", c)
  BY ReactBeliefs
<1> HIDE DEF r
<1> DEFINE acts == r.acts
<1>3. /\ sync'[d] = r.sync
      /\ \A e \in Drives : e # d => sync'[e] = sync[e]
  <2>1. sync = [e \in Drives |-> sync[e]]
    BY DEF Typed
  <2>2. DOMAIN sync = Drives
    BY <2>1
  <2> QED BY <1>1, <2>2
<1>4. /\ Run(d, acts, N, X) /\ acts.send \in Sends
      /\ \A p \in Drives : Truthful(acts.send[p], D)
  BY <1>1, <1>2
<1> HIDE DEF acts
<1>5. Carried(d, acts, N, X)
  <2>1. N \in [Drives -> Sends] /\ IsTable(X)
    BY DEF OffLinks, LeftOf
  <2> QED BY <2>1, <1>4, RunEffect
<1>6. /\ WayKept(d, q, g, C)
      /\ \A p \in Drives : \A k, c : Names(acts.send[p], k, c) => OnItsWay(d, p, k, c)'
  BY <1>4, <1>5, CarriedKeeps
<1>7. doc'[d] = D /\ \A e \in Drives : doc[e] \subseteq doc'[e]
  BY Grows
<1>8. Truth'
  <2>1. \A e \in Drives, o \in Changes : X[e][o] \subseteq transfers[e][o]
    BY DEF LeftOf
  <2> QED BY <2>1, <1>0, <1>4, <1>5, <1>7, TruthNext
<1>9. Gathered'
  BY <1>0, GatheredNext
<1>10. Believed'
  <2>1. sync'[d].known = S.known
    BY <1>2, <1>3
  <2>2. \A p \in S.known : \A c \in sync'[d].vv[p] :
          c \in S.vv[p] \/ OnItsWay(d, p, "updates", c)'
    <3>1. S.known \subseteq Drives
      BY DEF BeliefTyped
    <3>2. \A p \in S.known : \A c \in sync'[d].vv[p] :
            c \in S.vv[p] \/ Names(acts.send[p], "updates", c)
      BY <1>2, <1>3 DEF acts
    <3> QED BY <3>1, <3>2, <1>6
  <2> QED BY <2>1, <2>2, <1>0, <1>3, <1>6, BelievedNext
<1>11. \A e \in Drives : BeliefTyped(sync[e])'
  <2>1. \A e \in Drives : BeliefTyped(sync'[e])
    BY <1>0, <1>2, <1>3
  <2> QED BY <2>1 DEF BeliefTyped
<1> QED BY <1>8, <1>9, <1>10, <1>11 DEF Sound

\* S believes what s does.
SameBeliefs(S, s) == IsSync(S) /\ S.known = s.known /\ S.vv = s.vv

\* Fields other than known and vv carry no belief.
LEMMA SameFields ==
  ASSUME NEW s, IsSync(s), NEW x
  PROVE  /\ SameBeliefs(s, s)
         /\ SameBeliefs([s EXCEPT !.peers = x], s)
         /\ SameBeliefs([s EXCEPT !.wanted = x], s)
         /\ SameBeliefs([s EXCEPT !.holders = x], s)
BY DEF IsSync, SameBeliefs

\* pull_failed changes no belief.
LEMMA SameWhenFailed ==
  ASSUME NEW s, IsSync(s), NEW o, NEW p
  PROVE  SameBeliefs(EndFailed(s, o, p), s)
<1>1. EndFailed(s, o, p).known = s.known /\ EndFailed(s, o, p).vv = s.vv
  BY DEF IsSync, EndFailed
<1> QED BY <1>1, EndFailedIsLike DEF Like, SameBeliefs

\* tick changes no belief.
LEMMA SameWhenAged ==
  ASSUME NEW s, IsSync(s)
  PROVE  SameBeliefs(Aged(s), s)
<1>1. Aged(s).known = s.known /\ Aged(s).vv = s.vv
  <2> SUFFICES ASSUME NEW x, NEW f
               PROVE  LET S == [s EXCEPT !.inflight = x, !.failed = f]
                      IN  S.known = s.known /\ S.vv = s.vv
    BY DEF Aged
  <2> QED BY DEF IsSync
<1> QED BY <1>1, AgedIsLike DEF Like, SameBeliefs

\* pulled changes no belief.
LEMMA SameWhenReported ==
  ASSUME NEW s, IsSync(s), NEW o
  PROVE  SameBeliefs(Reported(s, o), s)
<1>1. Reported(s, o).known = s.known /\ Reported(s, o).vv = s.vv
  BY DEF IsSync, Reported
<1> QED BY <1>1, PulledState DEF SameBeliefs

\* Beliefs that stay are trusted.
LEMMA SameIsTrusted ==
  ASSUME Sound, NEW d \in Drives, NEW S, SameBeliefs(S, sync[d])
  PROVE  BeliefTyped(S) /\ Trusts(d, S)
BY DEF Sound, SameBeliefs, BeliefTyped, Trusts

\* Nothing is imported.
LEMMA NoImport ==
  ASSUME Typed, Gathered, NEW d \in Drives, NEW g, NEW C, doc' = doc, parked' = parked,
         g = "updates" => C = {}
  PROVE  Imports(d, doc[d], g, C)
BY DEF Typed, Gathered, Imports

\* Saying nothing is saying nothing untrue.
LEMMA SilenceIsTrue == \A p \in Drives : \A D : Truthful(Silence[p], D)
BY Silent DEF Truthful

\* local_changed.
LEMMA LocalChangedSound ==
  ASSUME Good, Sound, NEW d \in Drives, LocalChanged(d)
  PROVE  Sound'
<1>0. Typed /\ Gathered /\ IsSync(sync[d]) /\ doc[d] \in SUBSET Changes
  BY DEF Good, Sound, Typed, SyncTyped
<1>1. doc' = doc /\ parked' = parked /\ Step(d, doc[d], sync[d], Silence, net, transfers)
  BY DEF LocalChanged
<1>2. BeliefTyped(sync[d]) /\ Trusts(d, sync[d])
  BY <1>0, SameFields, SameIsTrusted
<1>3. Imports(d, doc[d], "none", {})
  BY <1>0, <1>1, NoImport
<1>4. OffLinks(d, {}, net, d, "none", {}) /\ LeftOf(transfers)
  BY NothingTaken
<1> QED BY <1>0, <1>1, <1>2, <1>3, <1>4, Silent, SilenceIsTrue, StepSound

\* tick.
LEMMA TickSound ==
  ASSUME Good, Sound, NEW d \in Drives, Tick(d)
  PROVE  Sound'
<1> DEFINE S == Aged(sync[d])
           lonely == {o \in Wants(doc[d], store[d]) :
                        S.holders[o] = <<>> /\ S.inflight[o] = NoPull}
           q == Hello(d) \o Frame("want", lonely)
           out == [p \in Drives |-> IF p \in S.peers THEN q ELSE <<>>]
<1>0. Typed /\ Gathered /\ IsSync(sync[d]) /\ doc[d] \in SUBSET Changes
  BY DEF Good, Sound, Typed, SyncTyped
<1>1. doc' = doc /\ parked' = parked /\ Step(d, doc[d], S, out, net, transfers)
  BY DEF Tick
<1>2. IsSync(S) /\ BeliefTyped(S) /\ Trusts(d, S)
  <2>1. SameBeliefs(S, sync[d])
    BY <1>0, SameWhenAged
  <2> HIDE DEF S
  <2> QED BY <2>1, SameIsTrusted DEF SameBeliefs
<1>3. q \in Seq(Frames) /\ Truthful(q, doc[d])
  <2>1. lonely \in SUBSET Changes
    BY <1>0, WantedIsNamed
  <2> HIDE DEF lonely
  <2>2. /\ Frame("want", lonely) \in Seq(Frames) /\ Hello(d) \in Seq(Frames)
        /\ Truthful(Frame("want", lonely), doc[d]) /\ Truthful(Hello(d), doc[d])
    BY <2>1, <1>0, OneFrame, Greets, TruthOfOne, TruthOfGreeting
  <2> QED BY <2>2, Joined, TruthJoined
<1> HIDE DEF S, q
<1>4. out \in Sends /\ \A p \in Drives : Truthful(out[p], doc[d])
  <2>1. Truthful(<<>>, doc[d])
    BY DEF Truthful
  <2> QED BY <1>3, <2>1, Empty DEF Sends
<1>5. Imports(d, doc[d], "none", {})
  BY <1>0, <1>1, NoImport
<1>6. OffLinks(d, {}, net, d, "none", {}) /\ LeftOf(transfers)
  BY NothingTaken
<1> HIDE DEF out
<1> QED BY <1>0, <1>1, <1>2, <1>4, <1>5, <1>6, StepSound

\* A greeting, or silence.
LEMMA GreetingIsTrue ==
  ASSUME Typed, NEW d \in Drives, NEW p \in Drives
  PROVE  /\ To(p, Greeting(d)) \in Sends
         /\ \A e \in Drives : Truthful(To(p, Greeting(d))[e], doc[d])
<1>1. Greeting(d) \in Seq(Frames) /\ Truthful(Greeting(d), doc[d])
  BY Greets, TruthOfGreeting
<1>2. /\ To(p, Greeting(d)) \in Sends /\ To(p, Greeting(d))[p] = Greeting(d)
      /\ \A e \in Drives : e # p => To(p, Greeting(d))[e] = <<>>
  BY <1>1, Addressed
<1>3. Truthful(<<>>, doc[d])
  BY DEF Truthful
<1> QED BY <1>1, <1>2, <1>3

\* open.
LEMMA OpenSound ==
  ASSUME Good, Sound, NEW d \in Drives, NEW p \in Drives, Open(d, p)
  PROVE  Sound'
<1> DEFINE S == [sync[d] EXCEPT !.peers = @ \cup {p}]
           out == To(p, Greeting(d))
<1>0. Typed /\ Gathered /\ IsSync(sync[d]) /\ doc[d] \in SUBSET Changes
  BY DEF Good, Sound, Typed, SyncTyped
<1>1. doc' = doc /\ parked' = parked /\ Step(d, doc[d], S, out, net, transfers)
  BY DEF Open
<1>2. IsSync(S) /\ BeliefTyped(S) /\ Trusts(d, S)
  <2>1. SameBeliefs(S, sync[d])
    BY <1>0, SameFields
  <2> HIDE DEF S
  <2> QED BY <2>1, SameIsTrusted DEF SameBeliefs
<1>3. out \in Sends /\ \A e \in Drives : Truthful(out[e], doc[d])
  BY <1>0, GreetingIsTrue
<1>4. Imports(d, doc[d], "none", {})
  BY <1>0, <1>1, NoImport
<1>5. OffLinks(d, {}, net, d, "none", {}) /\ LeftOf(transfers)
  BY NothingTaken
<1> HIDE DEF S, out
<1> QED BY <1>0, <1>1, <1>2, <1>3, <1>4, <1>5, StepSound

\* A frame that speaks for its sender's document is true of it.
LEMMA HeadIsTrue ==
  ASSUME Good, Sound, NEW d \in Drives, NEW p \in Drives, net[p][d] # <<>>
  PROVE  /\ Head(net[p][d]) \in Frames
         /\ Head(net[p][d]).kind \in {"hello", "updates"} => Head(net[p][d]).set \subseteq doc[p]
<1>1. net[p][d] \in Seq(Frames) /\ Truthful(net[p][d], doc[p])
  BY DEF Good, Typed, Sends, Sound, Truth
<1> QED BY <1>1, TakenOff, TruthTaken

\* handle, the hello arm.
LEMMA HandleHelloSound ==
  ASSUME Good, Sound, NEW d \in Drives, NEW p \in Drives, net[p][d] # <<>>,
         Head(net[p][d]).kind = "hello", HandleHello(p, d, Head(net[p][d]).set)
  PROVE  Sound'
<1> DEFINE f == Head(net[p][d])
           s == sync[d]
           S == Registered(s, p, f.set)
           out == IF p \in s.peers THEN Silence ELSE To(p, Greeting(d))
<1>0. Typed /\ Gathered /\ IsSync(s) /\ doc[d] \in SUBSET Changes /\ BeliefTyped(s)
  BY DEF Good, Sound, Typed, SyncTyped
<1>1. doc' = doc /\ parked' = parked /\ Step(d, doc[d], S, out, Taken(p, d), transfers)
  BY DEF HandleHello, Registered
<1>2. f.set \in SUBSET Changes /\ f.set \subseteq doc[p]
  BY HeadIsTrue DEF Frames
<1>3. IsSync(S) /\ S.known = s.known \cup {p} /\ S.vv = [s.vv EXCEPT ![p] = f.set]
  <2> HIDE DEF f, s
  <2>1. IsSync(S)
    BY <1>0, HelloState
  <2>2. S.known = s.known \cup {p} /\ S.vv = [s.vv EXCEPT ![p] = f.set]
    BY <1>0 DEF IsSync, Registered
  <2> QED BY <2>1, <2>2
<1> HIDE DEF S
<1>4. BeliefTyped(S)
  <2> HIDE DEF f, s
  <2> QED BY <1>0, <1>2, <1>3 DEF BeliefTyped
<1>5. S.vv[p] = f.set /\ \A e \in s.known : e # p => S.vv[e] = s.vv[e]
  <2> HIDE DEF f, s
  <2> QED BY <1>0, <1>3 DEF BeliefTyped
<1>6. Trusts(d, S)
  BY <1>1, <1>2, <1>3, <1>5 DEF Trusts
<1>7. out \in Sends /\ \A e \in Drives : Truthful(out[e], doc[d])
  BY <1>0, GreetingIsTrue, Silent, SilenceIsTrue
<1>8. Imports(d, doc[d], f.kind, f.set)
  BY <1>0, <1>1, NoImport
<1>9. OffLinks(d, {p}, Taken(p, d), p, f.kind, f.set) /\ LeftOf(transfers)
  BY OneTaken, NothingTaken
<1> HIDE DEF out, f
<1> QED BY <1>0, <1>1, <1>3, <1>4, <1>6, <1>7, <1>8, <1>9, StepSound

\* With two drives, what an update releases is the sender's: a peer that had
\* everything before the import has everything after it.
LEMMA HandleUpdatesSound ==
  ASSUME Good, Sound, NEW a, NEW b, Drives = {a, b},
         NEW d \in Drives, NEW p \in Drives, net[p][d] # <<>>,
         Head(net[p][d]).kind = "updates", HandleUpdates(p, d, Head(net[p][d]).set)
  PROVE  Sound'
<1> DEFINE f == Head(net[p][d])
           U == f.set \cup parked[d]
           after == doc[d] \cup {c \in U : deps[c] \subseteq doc[d] \cup U}
           s == sync[d]
           trusting == p \in s.known /\ doc[d] \subseteq s.vv[p]
           S == IF trusting THEN [s EXCEPT !.vv[p] = after] ELSE s
<1>0. /\ Typed /\ Gathered /\ IsSync(s) /\ doc[d] \in SUBSET Changes /\ BeliefTyped(s)
      /\ parked \in [Drives -> SUBSET Changes] /\ doc \in [Drives -> SUBSET Changes]
  BY DEF Good, Sound, Typed, SyncTyped
<1>1. /\ doc' = [doc EXCEPT ![d] = after]
      /\ parked' = [parked EXCEPT ![d] = U \ after]
      /\ Step(d, after, S, Silence, Taken(p, d), transfers)
  BY DEF HandleUpdates
<1>2. f.set \in SUBSET Changes /\ f.set \subseteq doc[p]
  BY HeadIsTrue DEF Frames
<1>3. U \in SUBSET Changes /\ \A c \in U : c \in f.set \/ c \in parked[d]
  BY <1>0, <1>2
<1>4. after \in SUBSET Changes /\ doc[d] \subseteq after /\ after \subseteq doc[d] \cup U
  <2> HIDE DEF U
  <2> QED BY <1>0, <1>3
<1>5. f.set \subseteq U /\ parked[d] \subseteq U
  OBVIOUS
<1> HIDE DEF U, after, f
<1>6. /\ doc'[d] = after /\ parked'[d] = U \ after
      /\ \A e \in Drives : e # d => doc'[e] = doc[e] /\ parked'[e] = parked[e]
  BY <1>0, <1>1
<1>7. \A c \in U : \E x \in Drives : c \in doc[x]
  BY <1>0, <1>2, <1>3 DEF Gathered
<1>8. Imports(d, after, f.kind, f.set)
  BY <1>1, <1>4, <1>5, <1>6, <1>7 DEF Imports
<1>9. ASSUME trusting PROVE IsSync(S) /\ BeliefTyped(S) /\ Trusts(d, S)
  <2>1. S = [s EXCEPT !.vv[p] = after]
    BY <1>9
  <2>2. IsSync(S) /\ S.known = s.known /\ S.vv = [s.vv EXCEPT ![p] = after]
    <3> HIDE DEF s, S
    <3> DEFINE v == [s.vv EXCEPT ![p] = after]
    <3>1. S = [s EXCEPT !.vv = v]
      BY <2>1, <1>0 DEF IsSync
    <3> HIDE DEF v
    <3>2. IsSync(S) /\ S.known = s.known /\ S.vv = v
      BY <3>1, <1>0 DEF IsSync
    <3> QED BY <3>2 DEF v
  <2> HIDE DEF S
  <2>3. BeliefTyped(S) /\ S.vv[p] = after /\ \A e \in s.known : e # p => S.vv[e] = s.vv[e]
    <3> HIDE DEF s
    <3> QED BY <2>2, <1>0, <1>4 DEF BeliefTyped
  <2>4. ASSUME NEW c \in after PROVE c \in s.vv[p] \/ c \in doc'[p] \cup parked'[p]
    <3>1. CASE p = d
      BY <3>1, <1>6
    <3>2. CASE p # d
      <4>1. Drives = {d, p} /\ doc'[p] = doc[p]
        BY <3>2, <1>6
      <4>2. c \in doc[d] \/ c \in doc[p]
        BY <4>1, <1>4, <1>7
      <4> QED BY <4>1, <4>2, <1>9
    <3> QED BY <3>1, <3>2
  <2>5. Trusts(d, S)
    BY <2>2, <2>3, <2>4, <1>9 DEF Trusts
  <2> QED BY <2>2, <2>3, <2>5
<1>10. ASSUME ~trusting PROVE IsSync(S) /\ BeliefTyped(S) /\ Trusts(d, S)
  <2>1. SameBeliefs(S, s)
    BY <1>10, <1>0, SameFields
  <2> HIDE DEF S
  <2> QED BY <2>1, SameIsTrusted DEF SameBeliefs
<1>11. IsSync(S) /\ BeliefTyped(S) /\ Trusts(d, S)
  BY <1>9, <1>10
<1>12. OffLinks(d, {}, Taken(p, d), p, f.kind, f.set) /\ LeftOf(transfers)
  BY OneTaken, NothingTaken DEF f
<1> HIDE DEF S
<1> QED BY <1>0, <1>1, <1>4, <1>8, <1>11, <1>12, Silent, SilenceIsTrue, StepSound

\* handle, the want arm.
LEMMA HandleWantSound ==
  ASSUME Good, Sound, NEW d \in Drives, NEW p \in Drives, net[p][d] # <<>>,
         Head(net[p][d]).kind = "want", HandleWant(p, d, Head(net[p][d]).set)
  PROVE  Sound'
<1> DEFINE f == Head(net[p][d])
           s == sync[d]
           S == IF p \in s.peers THEN [s EXCEPT !.wanted[p] = @ \cup (f.set \ store[d])] ELSE s
           q == Frame("have", f.set \cap store[d])
           out == To(p, q)
<1>0. Typed /\ Gathered /\ IsSync(s) /\ doc[d] \in SUBSET Changes
  BY DEF Good, Sound, Typed, SyncTyped
<1>1. doc' = doc /\ parked' = parked /\ Step(d, doc[d], S, out, Taken(p, d), transfers)
  BY DEF HandleWant
<1>2. f.set \cap store[d] \in SUBSET Changes
  BY HeadIsTrue DEF Frames
<1>3. IsSync(S) /\ BeliefTyped(S) /\ Trusts(d, S)
  <2>1. SameBeliefs(S, s)
    <3> HIDE DEF f, s
    <3> DEFINE w == [s.wanted EXCEPT ![p] = @ \cup (f.set \ store[d])]
    <3>1. S \in {s, [s EXCEPT !.wanted = w]}
      BY <1>0 DEF IsSync
    <3> HIDE DEF S, w
    <3> QED BY <3>1, <1>0, SameFields
  <2> HIDE DEF S
  <2> QED BY <2>1, SameIsTrusted DEF SameBeliefs
<1>4. q \in Seq(Frames) /\ Truthful(q, doc[d]) /\ Truthful(<<>>, doc[d])
  <2> HIDE DEF f
  <2> QED BY <1>2, OneFrame, TruthOfOne
<1> HIDE DEF q, S
<1>5. out \in Sends /\ \A e \in Drives : Truthful(out[e], doc[d])
  BY <1>4, Addressed
<1>6. Imports(d, doc[d], f.kind, f.set)
  BY <1>0, <1>1, NoImport
<1>7. OffLinks(d, {}, Taken(p, d), p, f.kind, f.set) /\ LeftOf(transfers)
  BY OneTaken, NothingTaken
<1> HIDE DEF out, f
<1> QED BY <1>0, <1>1, <1>3, <1>5, <1>6, <1>7, StepSound

\* handle, the have arm.
LEMMA HandleHaveSound ==
  ASSUME Good, Sound, NEW d \in Drives, NEW p \in Drives, net[p][d] # <<>>,
         Head(net[p][d]).kind = "have", HandleHave(p, d, Head(net[p][d]).set)
  PROVE  Sound'
<1> DEFINE f == Head(net[p][d])
           s == sync[d]
           offer == f.set \cap Wants(doc[d], store[d])
           lacks(o) == \A i \in DOMAIN s.holders[o] : s.holders[o][i] # p
           h == [o \in Changes |->
                   IF o \in offer /\ lacks(o) THEN Append(s.holders[o], p) ELSE s.holders[o]]
           S == [s EXCEPT !.holders = h]
<1>0. Typed /\ Gathered /\ IsSync(s) /\ doc[d] \in SUBSET Changes
  BY DEF Good, Sound, Typed, SyncTyped
<1>1. doc' = doc /\ parked' = parked /\ Step(d, doc[d], S, Silence, Taken(p, d), transfers)
  BY DEF HandleHave
<1>2. IsSync(S) /\ BeliefTyped(S) /\ Trusts(d, S)
  <2>1. SameBeliefs(S, s)
    <3> HIDE DEF s, h
    <3> QED BY <1>0, SameFields
  <2> HIDE DEF S
  <2> QED BY <2>1, SameIsTrusted DEF SameBeliefs
<1>3. Imports(d, doc[d], f.kind, f.set)
  BY <1>0, <1>1, NoImport
<1>4. OffLinks(d, {}, Taken(p, d), p, f.kind, f.set) /\ LeftOf(transfers)
  BY OneTaken, NothingTaken
<1> HIDE DEF S, f
<1> QED BY <1>0, <1>1, <1>2, <1>3, <1>4, Silent, SilenceIsTrue, StepSound

\* pull_failed.
LEMMA PullFailedSound ==
  ASSUME Good, Sound, NEW d \in Drives, NEW o \in Changes, NEW t \in transfers[d][o],
         PullFailed(d, o, t)
  PROVE  Sound'
<1> DEFINE S == EndFailed(sync[d], o, t.from)
           X == Done(d, o, t)
<1>0. Typed /\ Gathered /\ IsSync(sync[d]) /\ doc[d] \in SUBSET Changes
  BY DEF Good, Sound, Typed, SyncTyped
<1>1. /\ doc' = doc /\ parked' = parked /\ t.phase # "acted"
      /\ Step(d, doc[d], S, Silence, net, X)
  BY DEF PullFailed
<1>2. IsSync(S) /\ BeliefTyped(S) /\ Trusts(d, S)
  <2>1. SameBeliefs(S, sync[d])
    BY <1>0, SameWhenFailed
  <2> HIDE DEF S
  <2> QED BY <2>1, SameIsTrusted DEF SameBeliefs
<1>3. Imports(d, doc[d], "none", {})
  BY <1>0, <1>1, NoImport
<1>4. OffLinks(d, {}, net, d, "none", {})
  BY NothingTaken
<1>5. LeftOf(X)
  BY <1>1, SilentLeft
<1> HIDE DEF S, X
<1> QED BY <1>0, <1>1, <1>2, <1>3, <1>4, <1>5, Silent, SilenceIsTrue, StepSound

\* Steps that react to nothing: no belief is added and nothing is lost.
LEMMA SoundStays ==
  ASSUME Typed, Sound, sync' = sync, parked' = parked,
         \A e \in Drives : doc[e] \subseteq doc'[e],
         \A x, y \in Drives : \A k, c : OnItsWay(x, y, k, c) => OnItsWay(x, y, k, c)',
         Truth'
  PROVE  Sound'
<1>0. (\A e \in Drives : BeliefTyped(sync[e])) /\ Truth /\ Gathered /\ Believed
  BY DEF Sound
<1>1. \A e \in Drives : BeliefTyped(sync[e])'
  BY <1>0 DEF BeliefTyped
<1>2. Gathered'
  BY <1>0 DEF Gathered
<1>3. Believed'
  <2> SUFFICES ASSUME NEW e \in Drives, NEW p \in sync[e].known, NEW c \in sync[e].vv[p]
               PROVE  c \in doc'[p] \cup parked'[p] \/ OnItsWay(e, p, "updates", c)'
    BY DEF Believed, Covered
  <2>1. p \in Drives /\ Covered(e, p, c)
    BY <1>0 DEF BeliefTyped, Believed
  <2> QED BY <2>1 DEF Covered
<1> QED BY <1>1, <1>2, <1>3 DEF Sound

\* A version is added, or objects are collected.
LEMMA AddVersionOrGcSound ==
  ASSUME Good, Sound, NEW d \in Drives, AddVersion(d) \/ Gc(d)
  PROVE  Sound'
<1>0. Typed /\ Truth
  BY DEF Good, Sound
<1>1. sync' = sync /\ net' = net /\ transfers' = transfers /\ parked' = parked
  BY DEF AddVersion, Gc
<1>2. \A e \in Drives : doc[e] \subseteq doc'[e]
  <2>1. CASE Gc(d)
    BY <2>1 DEF Gc
  <2>2. CASE AddVersion(d)
    <3> DEFINE c == Len(deps) + 1
    <3>1. doc' = [doc EXCEPT ![d] = doc[d] \cup {c}]
      BY <2>2 DEF AddVersion
    <3> HIDE DEF c
    <3> QED BY <3>1, <1>0 DEF Typed
  <2> QED BY <2>1, <2>2
<1>3. \A x, y \in Drives : \A k, c : OnItsWay(x, y, k, c) => OnItsWay(x, y, k, c)'
  BY <1>1, Way
<1>4. Truth'
  BY <1>0, <1>1, <1>2, TruthGrows DEF Truth
<1> QED BY <1>0, <1>1, <1>2, <1>3, <1>4, SoundStays

\* One transfer becomes another that sends the truth; the first had nothing to
\* send.
LEMMA ExchangedIsTrue ==
  ASSUME Good, Truth, NEW d \in Drives, NEW o \in Changes, NEW t \in transfers[d][o], NEW u,
         t.phase # "acted", \A p \in Drives : Truthful(u.acts.send[p], doc[d]),
         Exchange(d, o, t, u), net' = net, doc' = doc
  PROVE  /\ Truth' /\ u \in transfers'[d][o]
         /\ \A x, y \in Drives : \A k, c : OnItsWay(x, y, k, c) => OnItsWay(x, y, k, c)'
<1>1. t.acts.send = Silence
  BY DEF Good, Moving, TransferOK
<1>2. /\ IsTable(transfers)' /\ u \in transfers'[d][o]
      /\ \A e \in Drives, c \in Changes : \A x \in transfers[e][c] :
           x \in transfers'[e][c] \/ (e = d /\ c = o /\ x = t)
      /\ \A e \in Drives, c \in Changes : \A x \in transfers'[e][c] :
           x \in transfers[e][c] \/ (e = d /\ c = o /\ x = u)
  BY DEF Exchange
<1>3. Truth'
  BY <1>2 DEF Truth
<1>4. \A x, y \in Drives : \A k, c : OnItsWay(x, y, k, c) => OnItsWay(x, y, k, c)'
  <2> SUFFICES ASSUME NEW x \in Drives, NEW y \in Drives, NEW k, NEW c, OnItsWay(x, y, k, c)
               PROVE  OnItsWay(x, y, k, c)'
    OBVIOUS
  <2>1. CASE Names(net[x][y], k, c)
    BY <2>1, Way
  <2>2. ASSUME NEW b \in Changes, NEW z \in transfers[x][b], Names(z.acts.send[y], k, c)
        PROVE  OnItsWay(x, y, k, c)'
    <3>1. z # t
      BY <2>2, <1>1, Silent
    <3>2. z \in transfers'[x][b]
      BY <3>1, <1>2
    <3> QED BY <2>2, <3>2, Way
  <2> QED BY <2>1, <2>2, Way
<1> QED BY <1>2, <1>3, <1>4

\* A pulled object lands in the store.
LEMMA AdmitSound ==
  ASSUME Good, Sound, NEW d \in Drives, NEW o \in Changes, NEW t \in transfers[d][o],
         Admit(d, o, t)
  PROVE  Sound'
<1> DEFINE u == [t EXCEPT !.phase = "landed"]
<1>0. Typed /\ Truth /\ TransferOK(d, o, t)
  BY DEF Good, Sound, Moving
<1>1. /\ t.phase = "running"
      /\ transfers' = [transfers EXCEPT ![d][o] = (@ \ {t}) \cup {u}]
      /\ doc' = doc /\ sync' = sync /\ net' = net /\ parked' = parked
  BY DEF Admit, Becomes
<1>2. u.acts = t.acts
  BY <1>0 DEF TransferOK
<1> HIDE DEF u
<1>3. \A p \in Drives : Truthful(u.acts.send[p], doc[d])
  BY <1>0, <1>2 DEF Truth
<1>4. /\ Truth'
      /\ \A x, y \in Drives : \A k, c : OnItsWay(x, y, k, c) => OnItsWay(x, y, k, c)'
  <2>1. Exchange(d, o, t, u)
    BY <1>1, Exchanged
  <2> QED BY <1>0, <1>1, <1>3, <2>1, ExchangedIsTrue
<1> QED BY <1>0, <1>1, <1>4, SoundStays

\* pulled.
LEMMA PulledSound ==
  ASSUME Good, Sound, NEW d \in Drives, NEW o \in Changes, NEW t \in transfers[d][o],
         Pulled(d, o, t)
  PROVE  Sound'
<1> DEFINE S == Reported(sync[d], o)
           r == React(d, doc[d], S, Silence)
<1>u. PICK u : u = [t EXCEPT !.phase = "acted", !.acts = r.acts]
  OBVIOUS
<1>0. /\ Typed /\ TransferOK(d, o, t) /\ IsSync(sync[d]) /\ doc[d] \in SUBSET Changes
      /\ (\A e \in Drives : BeliefTyped(sync[e])) /\ Truth /\ Gathered /\ Believed
  BY DEF Good, Sound, Moving, Typed, SyncTyped
<1>1. /\ t.phase = "landed" /\ sync' = [sync EXCEPT ![d] = r.sync]
      /\ transfers' = [transfers EXCEPT ![d][o] = (@ \ {t}) \cup {u}]
      /\ doc' = doc /\ net' = net /\ parked' = parked
  BY <1>u DEF Pulled, Reported
<1>2. IsSync(S) /\ BeliefTyped(S) /\ Trusts(d, S)
  <2>1. SameBeliefs(S, sync[d])
    BY <1>0, SameWhenReported
  <2> HIDE DEF S
  <2> QED BY <2>1, SameIsTrusted DEF SameBeliefs
<1> HIDE DEF S
<1>3. /\ r.sync.known = S.known /\ BeliefTyped(r.sync)
      /\ \A p \in Drives : Truthful(r.acts.send[p], doc[d])
      /\ \A p \in S.known : \A c \in r.sync.vv[p] :
           c \in S.vv[p] \/ Names(r.acts.send[p], "updates", c)
  <2> DEFINE D == doc[d]
  <2>1. Typed /\ D \in SUBSET Changes /\ IsSync(S) /\ BeliefTyped(S)
    BY <1>0, <1>2
  <2>2. Silence \in Sends /\ \A p \in Drives : Truthful(Silence[p], D)
    BY Silent, SilenceIsTrue
  <2> HIDE DEF D
  <2>3. LET x == React(d, D, S, Silence)
        IN  /\ x.sync.known = S.known /\ BeliefTyped(x.sync)
            /\ \A p \in Drives : Truthful(x.acts.send[p], D)
            /\ \A p \in S.known : \A c \in x.sync.vv[p] :
                 c \in S.vv[p] \/ Names(x.acts.send[p], "updates", c)
    BY <2>1, <2>2, ReactBeliefs
  <2> QED BY <2>3 DEF D
<1>4. u.acts = r.acts
  <2> DEFINE v == [t EXCEPT !.phase = "acted"]
             a == r.acts
  <2>1. t = [from |-> t.from, n |-> t.n, acts |-> t.acts, phase |-> t.phase]
    BY <1>0 DEF TransferOK
  <2> HIDE DEF r
  <2>2. u = [v EXCEPT !.acts = a]
    BY <1>u, <2>1
  <2>3. v = [from |-> v.from, n |-> v.n, acts |-> v.acts, phase |-> v.phase]
    BY <2>1
  <2> HIDE DEF v, a
  <2>4. u.acts = a
    BY <2>2, <2>3
  <2> QED BY <2>4 DEF a
<1> HIDE DEF r
<1>5. /\ Truth' /\ u \in transfers'[d][o]
      /\ \A x, y \in Drives : \A k, c : OnItsWay(x, y, k, c) => OnItsWay(x, y, k, c)'
  <2>1. Exchange(d, o, t, u)
    BY <1>1, Exchanged
  <2> QED BY <1>0, <1>1, <1>3, <1>4, <2>1, ExchangedIsTrue
<1>6. WayKept(d, d, "none", {})
  BY <1>5 DEF WayKept
<1>7. \A p, k, c : Names(r.acts.send[p], k, c) => OnItsWay(d, p, k, c)'
  BY <1>4, <1>5, Way
<1>8. sync'[d] = r.sync /\ \A e \in Drives : e # d => sync'[e] = sync[e]
  <2>1. sync = [e \in Drives |-> sync[e]]
    BY <1>0 DEF Typed
  <2>2. DOMAIN sync = Drives
    BY <2>1
  <2> QED BY <1>1, <2>2
<1>9. Imports(d, doc[d], "none", {})
  BY <1>0, <1>1, NoImport
<1>10. Believed'
  <2>1. sync'[d].known = S.known
    BY <1>3, <1>8
  <2>2. \A p \in S.known : \A c \in sync'[d].vv[p] :
          c \in S.vv[p] \/ OnItsWay(d, p, "updates", c)'
    BY <1>3, <1>7, <1>8
  <2> QED BY <2>1, <2>2, <1>0, <1>2, <1>6, <1>8, <1>9, BelievedNext
<1>11. Gathered'
  BY <1>0, <1>1 DEF Gathered
<1>12. \A e \in Drives : BeliefTyped(sync[e])'
  <2>1. \A e \in Drives : BeliefTyped(sync'[e])
    BY <1>0, <1>3, <1>8
  <2> QED BY <2>1 DEF BeliefTyped
<1> QED BY <1>5, <1>10, <1>11, <1>12 DEF Sound

\* The actions pulled returned are run.
LEMMA RunPulledSound ==
  ASSUME Good, Sound, NEW d \in Drives, NEW o \in Changes, NEW t \in transfers[d][o],
         RunPulled(d, o, t)
  PROVE  Sound'
<1>0. Typed /\ Truth
  BY DEF Good, Sound
<1>1. doc' = doc /\ sync' = sync /\ parked' = parked
  BY DEF RunPulled
<1>2. /\ Carried(d, t.acts, net, Done(d, o, t)) /\ t.acts.send \in Sends
      /\ \A e \in Drives, c \in Changes : Done(d, o, t)[e][c] \subseteq transfers[e][c]
      /\ \A x, y \in Drives : \A k, c : OnItsWay(x, y, k, c) => OnItsWay(x, y, k, c)'
  BY RunPulledKeeps
<1>3. \A p \in Drives : Truthful(t.acts.send[p], doc'[d])
  BY <1>0, <1>1 DEF Truth
<1>4. OffLinks(d, {}, net, d, "none", {})
  BY NothingTaken
<1>5. Truth'
  BY <1>0, <1>1, <1>2, <1>3, <1>4, TruthNext
<1> QED BY <1>0, <1>1, <1>2, <1>5, SoundStays

\* Every drive starts knowing nobody.
LEMMA InitSound == ASSUME Init PROVE PairInv
<1>1. /\ \A d, p \in Drives : net[d][p] = <<>> /\ doc[d] = {} /\ parked[d] = {}
      /\ \A d \in Drives : sync[d] = Closed /\ \A o \in Changes : transfers[d][o] = {}
  BY DEF Init
<1>2. Closed.known = {} /\ Closed.vv = [p \in Drives |-> {}]
  BY DEF Closed
<1>3. Truth
  BY <1>1 DEF Truth, Truthful
<1>4. Gathered
  BY <1>1 DEF Gathered
<1>5. Believed
  BY <1>1, <1>2 DEF Believed
<1>6. \A d \in Drives : BeliefTyped(sync[d])
  BY <1>1, <1>2 DEF BeliefTyped
<1> QED BY <1>3, <1>4, <1>5, <1>6, InitInv DEF PairInv, Sound

\* One step per action; only the updates arm needs that there are two drives.
LEMMA NextPair ==
  ASSUME NEW a, NEW b, Drives = {a, b}, PairInv, [Next]_vars
  PROVE  PairInv'
<1>0. Inv /\ faults \in Nat /\ faults' \in Nat /\ (faults' = 0 => faults = 0)
  BY FaultsCount DEF Inv, PairInv
<1>1. Inv'
  BY <1>0, NextInv
<1> SUFFICES ASSUME faults' = 0 PROVE Sound'
  BY <1>1 DEF PairInv
<1>2. Good /\ Sound /\ ~Fault
  BY <1>0 DEF Inv, PairInv, Fault
<1>3. CASE UNCHANGED vars
  <2>1. /\ doc' = doc /\ parked' = parked /\ sync' = sync
        /\ net' = net /\ transfers' = transfers
    BY <1>3 DEF vars
  <2>2. Typed /\ Truth
    BY <1>2 DEF Good, Sound
  <2>3. Truth'
    BY <2>1, <2>2 DEF Truth
  <2>4. \A x, y \in Drives : \A k, c : OnItsWay(x, y, k, c) => OnItsWay(x, y, k, c)'
    BY <2>1, Way
  <2> QED BY <1>2, <2>1, <2>2, <2>3, <2>4, SoundStays
<1>4. CASE Next
  <2> PICK d \in Drives :
        \/ AddVersion(d) \/ LocalChanged(d) \/ Gc(d) \/ Restart(d) \/ Tick(d)
        \/ \E p \in Drives : Open(d, p) \/ Close(d, p) \/ Handle(p, d) \/ Lose(p, d)
        \/ \E o \in Changes : \/ Settle(d, o)
                              \/ \E t \in transfers[d][o] : Refuse(d, o, t) \/ Hang(d, o, t)
    BY <1>4 DEF Next
  <2>1. CASE AddVersion(d) \/ Gc(d)
    BY <1>2, <2>1, AddVersionOrGcSound
  <2>2. CASE LocalChanged(d)
    BY <1>2, <2>2, LocalChangedSound
  <2>3. CASE Restart(d)
    BY <1>2, <2>3 DEF Restart
  <2>4. CASE Tick(d)
    BY <1>2, <2>4, TickSound
  <2>5. ASSUME NEW p \in Drives, Open(d, p) PROVE Sound'
    BY <1>2, <2>5, OpenSound
  <2>6. ASSUME NEW p \in Drives, Close(d, p) \/ Lose(p, d) PROVE Sound'
    BY <1>2, <2>6 DEF Close, Lose
  <2>7. ASSUME NEW p \in Drives, Handle(p, d) PROVE Sound'
    <3> DEFINE f == Head(net[p][d])
    <3>1. net[p][d] # <<>>
      BY <2>7 DEF Handle
    <3>2. CASE f.kind = "updates" /\ HandleUpdates(p, d, f.set)
      BY <1>2, <3>1, <3>2, HandleUpdatesSound
    <3>3. CASE ~(f.kind = "updates" /\ HandleUpdates(p, d, f.set))
      BY <1>2, <2>7, <3>3, HandleHelloSound, HandleWantSound, HandleHaveSound DEF Handle
    <3> QED BY <3>2, <3>3
  <2>8. ASSUME NEW o \in Changes, NEW t \in transfers[d][o], Refuse(d, o, t) \/ Hang(d, o, t)
        PROVE  Sound'
    BY <1>2, <2>8 DEF Refuse, Hang
  <2>9. ASSUME NEW o \in Changes, Settle(d, o) PROVE Sound'
    BY <1>2, <2>9, AdmitSound, PulledSound, RunPulledSound, PullFailedSound DEF Settle
  <2> QED BY <2>1, <2>2, <2>3, <2>4, <2>5, <2>6, <2>7, <2>8, <2>9
<1> QED BY <1>3, <1>4

\* Between two drives, while nothing fails, sync.rs's picture of the peer
\* (PeerState.vv) never runs ahead: what it takes the peer to have, the peer
\* has, has parked, or is being sent.  So an update left out of react's next
\* frame is never one the peer goes without.
THEOREM BeliefsOfAPair ==
  ASSUME NEW a, NEW b, Drives = {a, b}
  PROVE  Spec => []BeliefIsCovered
<1>1. Init => PairInv
  BY InitSound
<1>2. PairInv /\ [Next]_vars => PairInv'
  BY NextPair
<1>3. PairInv => BeliefIsCovered
  BY SoundIsBeliefIsCovered
<1> QED BY <1>1, <1>2, <1>3, PTL DEF Spec
=============================================================================
