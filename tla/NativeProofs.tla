---------------------------- MODULE NativeProofs ----------------------------
(***************************************************************************)
(* Proofs about the native engine's components that MCNative runs: restart *)
(* by replay (Replay), the drive's store and the undo journal (Undo), for  *)
(* every set of names, digests, versions and inodes, and every value of    *)
(* the bounds.                                                             *)
(***************************************************************************)
EXTENDS MCNative, SequenceTheorems, TLAPS

-----------------------------------------------------------------------------
(* Restart by replay.  What the durable index owes to the tree is paid by  *)
(* the journal's records after the saved token, and while a catch-up is    *)
(* being applied also by the records after the next token together with    *)
(* the listings still to do.                                               *)

Absent == Replay!Absent
Entries == Replay!Entries
Records == {r \in [name : Entries \cup {"root"}, deep : BOOLEAN, lost : BOOLEAN] :
              r.name = "root" => r.lost}

(* A record after t, or a journal that is not t's, makes the replay list    *)
(* n's place; or n itself.                                                  *)
Touched(n, t) ==
    \/ t.volume # volume
    \/ \E i \in (t.id + 1)..Len(rrJournal) : rrJournal[i].name \in {n, "root"}
Walked(n, t) ==
    \/ t.volume # volume
    \/ \E i \in (t.id + 1)..Len(rrJournal) :
          \/ rrJournal[i].name = "root"
          \/ rrJournal[i].name = n /\ (rrJournal[i].deep \/ rrJournal[i].lost)

(* Listings that read n itself, and those that list its place. *)
Reads(n, units) ==
    Replay!Everything \in units \/ Replay!Tree(n) \in units \/ Replay!List(n) \in units

(* The index has n as a directory whose content is not that of the          *)
(* directory there, or of the one that would be made there again.           *)
Outdated(n) ==
    /\ n \in Dirs \ moved
    /\ index[n] # Absent
    /\ index[n] # IF rrDisk[n] = Absent THEN 0 ELSE rrDisk[n]

PaidBy(t) ==
    \A n \in Entries : /\ index[n] # rrDisk[n] => Touched(n, t)
                       /\ Outdated(n) => Walked(n, t)
PaidWith(t, units) ==
    \A n \in Entries :
       /\ index[n] # rrDisk[n] => Touched(n, t) \/ Reads(n, units) \/ Replay!Root \in units
       /\ Outdated(n) => Walked(n, t) \/ Reads(n, units)

ReplayTyped ==
    /\ rrDisk \in [Entries -> Int] /\ index \in [Entries -> Int]
    /\ rrJournal \in Seq(Records) /\ volume \in Int
    /\ used \subseteq Dirs
    /\ token \in [id : Nat, volume : Int] /\ next \in [id : Nat, volume : Int]

(* A token is of this journal and not ahead of it, or of an earlier one. *)
TokensArePast ==
    \A t \in {token, next} :
       t.volume <= volume /\ (t.volume = volume => t.id <= Len(rrJournal))

(* A name whose directory was moved away stays empty, and one that never    *)
(* was a directory is not one in the index either.                          *)
NamesAreNew ==
    /\ \A d \in moved : d \in used /\ rrDisk[d] = Absent
    /\ \A d \in Dirs \ used : rrDisk[d] = Absent /\ index[d] = Absent

ReplayInv ==
    /\ ReplayTyped /\ TokensArePast /\ NamesAreNew
    /\ PaidBy(token)
    /\ rrPhase = "applying" => PaidWith(next, todo)

(* The tree as it is found, with an index that is right. *)
LEMMA ReplayInit == Replay!Init => ReplayInv
<1> SUFFICES ASSUME Replay!Init PROVE ReplayInv
  OBVIOUS
<1> USE DEF Replay!Init, Replay!Capture, Replay!Absent, Absent, Entries, Replay!Entries
<1>1. ReplayTyped
  BY DEF ReplayTyped
<1>2. TokensArePast
  BY <1>1 DEF TokensArePast, ReplayTyped
<1>3. NamesAreNew
  BY DEF NamesAreNew
<1>4. PaidBy(token)
  BY DEF PaidBy, Outdated
<1> QED BY <1>1, <1>2, <1>3, <1>4 DEF ReplayInv

(* What the records after a token make the replay list. *)
LEMMA ListingsPay ==
  ASSUME ReplayTyped, NEW t \in [id : Nat, volume : Int], NEW n \in Entries,
         t.volume = volume => t.id <= Len(rrJournal)
  PROVE  /\ Walked(n, t) => Reads(n, Replay!Listings(t))
         /\ Touched(n, t) => Reads(n, Replay!Listings(t)) \/ Replay!Root \in Replay!Listings(t)
<1> DEFINE recs == Replay!RecordsSince(t)
           subtrees == {r.name : r \in {x \in recs : x.lost}}
           changed == {r \in recs : r.name \notin subtrees}
<1> USE DEF ReplayTyped
<1>1. CASE t.volume # volume \/ "root" \in subtrees
  <2>1. Replay!Listings(t) = {Replay!Everything}
    BY <1>1 DEF Replay!Listings
  <2> QED BY <2>1 DEF Reads
<1>2. CASE t.volume = volume /\ "root" \notin subtrees
  <2>1. t.id <= Len(rrJournal)
    BY <1>2
  <2>2. Replay!Listings(t) =
          {IF r.deep THEN Replay!List(r.name) ELSE Replay!Root : r \in changed}
             \cup {Replay!Tree(d) : d \in subtrees}
    BY <1>2, <2>1 DEF Replay!Listings
  <2>3. \A i \in (t.id + 1)..Len(rrJournal) :
          /\ rrJournal[i] \in recs /\ rrJournal[i] \in Records
          /\ rrJournal[i].name # "root"
    <3> TAKE i \in (t.id + 1)..Len(rrJournal)
    <3>1. rrJournal[i] \in Records
      OBVIOUS
    <3>2. rrJournal[i] \in recs
      BY DEF Replay!RecordsSince
    <3> QED BY <1>2, <3>1, <3>2 DEF Records
  <2>4. ASSUME Walked(n, t) PROVE Reads(n, Replay!Listings(t))
    <3>1. PICK i \in (t.id + 1)..Len(rrJournal) :
             rrJournal[i].name = n /\ (rrJournal[i].deep \/ rrJournal[i].lost)
      BY <1>2, <2>3, <2>4 DEF Walked
    <3>2. CASE n \in subtrees
      BY <2>2, <3>2 DEF Reads
    <3>3. CASE n \notin subtrees
      <4>1. rrJournal[i] \in changed /\ rrJournal[i].deep
        BY <2>3, <3>1, <3>3
      <4>2. Replay!List(n) \in Replay!Listings(t)
        BY <2>2, <3>1, <4>1
      <4> QED BY <4>2 DEF Reads
    <3> QED BY <3>2, <3>3
  <2>5. ASSUME Touched(n, t)
        PROVE  Reads(n, Replay!Listings(t)) \/ Replay!Root \in Replay!Listings(t)
    <3>1. PICK i \in (t.id + 1)..Len(rrJournal) : rrJournal[i].name = n
      BY <1>2, <2>3, <2>5 DEF Touched
    <3>2. CASE n \in subtrees
      BY <2>2, <3>2 DEF Reads
    <3>3. CASE n \notin subtrees
      <4>1. rrJournal[i] \in changed
        BY <2>3, <3>1, <3>3
      <4>2. (IF rrJournal[i].deep THEN Replay!List(n) ELSE Replay!Root) \in Replay!Listings(t)
        BY <2>2, <3>1, <4>1
      <4> QED BY <4>2 DEF Reads
    <3> QED BY <3>2, <3>3
  <2> QED BY <2>4, <2>5
<1> QED BY <1>1, <1>2

(* An index that agrees with the disk on some entries and is otherwise the  *)
(* same owes no more than before.                                           *)
LEMMA IndexCatchesUp ==
  ASSUME ReplayInv, rrDisk' = rrDisk, rrJournal' = rrJournal, volume' = volume,
         used' = used, moved' = moved, token' = token, next' = next,
         index' \in [Entries -> Int],
         \A n \in Entries : index'[n] \in {index[n], rrDisk[n]}
  PROVE  ReplayTyped' /\ TokensArePast' /\ NamesAreNew' /\ PaidBy(token)'
<1> USE DEF ReplayInv, ReplayTyped
<1>1. ReplayTyped'
  OBVIOUS
<1>2. TokensArePast'
  BY DEF TokensArePast
<1>3. NamesAreNew'
  BY DEF NamesAreNew, Entries, Replay!Entries
<1>4. PaidBy(token)'
  <2> SUFFICES ASSUME NEW n \in Entries
               PROVE  /\ index'[n] # rrDisk[n] => Touched(n, token)
                      /\ Outdated(n)' => Walked(n, token)
    BY DEF PaidBy, Touched, Walked
  <2>1. CASE index'[n] = index[n]
    BY <2>1 DEF PaidBy, Outdated
  <2>2. CASE index'[n] = rrDisk[n]
    BY <2>2 DEF Outdated
  <2> QED BY <2>1, <2>2
<1> QED BY <1>1, <1>2, <1>3, <1>4

(* A listing that is applied pays for what it leaves the list. *)
LEMMA ReplayApply ==
  ASSUME ReplayInv, NEW u \in todo, Replay!Apply(u)
  PROVE  ReplayInv'
<1> USE DEF Absent, Replay!Absent
<1>1. /\ rrPhase = "applying" /\ rrPhase' = rrPhase /\ todo' = todo \ {u}
      /\ index' = Replay!Applied(index, {u})
      /\ UNCHANGED <<rrDisk, rrJournal, volume, used, moved, token, next>>
  BY DEF Replay!Apply, Replay!external
<1>2. \A n \in Entries :
        index'[n] = IF \/ u \in {Replay!Everything, Replay!Tree(n), Replay!List(n)}
                       \/ u = Replay!Root /\ (n \in Files \/ Absent \in {rrDisk[n], index[n]})
                    THEN rrDisk[n] ELSE index[n]
  BY <1>1 DEF Replay!Applied, Entries
<1>3. index' \in [Entries -> Int]
  <2>1. \A n \in Entries : rrDisk[n] \in Int /\ index[n] \in Int
    BY DEF ReplayInv, ReplayTyped
  <2>2. index' = [n \in Entries |-> index'[n]]
    BY <1>1 DEF Replay!Applied, Entries
  <2> QED BY <1>2, <2>1, <2>2
<1>4. ReplayTyped' /\ TokensArePast' /\ NamesAreNew' /\ PaidBy(token)'
  BY <1>1, <1>2, <1>3, IndexCatchesUp
<1>5. PaidWith(next, todo)'
  <2> SUFFICES ASSUME NEW n \in Entries
               PROVE  /\ index'[n] # rrDisk[n]
                           => \/ Touched(n, next) \/ Reads(n, todo') \/ Replay!Root \in todo'
                      /\ Outdated(n)' => Walked(n, next) \/ Reads(n, todo')
    BY <1>1 DEF PaidWith, Touched, Walked, Reads, Replay!Root, Replay!Everything, Replay!Tree,
                Replay!List
  <2>1. CASE index'[n] = rrDisk[n]
    BY <1>1, <2>1 DEF Outdated
  <2>2. CASE index'[n] # rrDisk[n]
    <3>1. /\ index'[n] = index[n]
          /\ u \notin {Replay!Everything, Replay!Tree(n), Replay!List(n)}
          /\ u = Replay!Root => n \notin Files /\ Absent \notin {rrDisk[n], index[n]}
      BY <1>2, <2>2
    <3>2. /\ Touched(n, next) \/ Reads(n, todo) \/ Replay!Root \in todo
          /\ Outdated(n) => Walked(n, next) \/ Reads(n, todo)
      BY <1>1, <2>2, <3>1 DEF ReplayInv, PaidWith
    <3>3. Reads(n, todo) => Reads(n, todo')
      BY <1>1, <3>1 DEF Reads
    <3>4. Outdated(n)' = Outdated(n)
      BY <1>1, <3>1 DEF Outdated
    <3>5. u = Replay!Root => Outdated(n)
      BY <2>2, <3>1 DEF Outdated, ReplayInv, NamesAreNew, Entries, Replay!Entries
    <3>6. Replay!Root \in todo => u = Replay!Root \/ Replay!Root \in todo'
      BY <1>1
    <3>7. Walked(n, next) => Touched(n, next)
      BY DEF Walked, Touched
    <3> QED BY <3>2, <3>3, <3>4, <3>5, <3>6, <3>7
  <2> QED BY <2>1, <2>2
<1> QED BY <1>1, <1>4, <1>5 DEF ReplayInv

(* The live watcher applies one change. *)
LEMMA ReplayWatch ==
  ASSUME ReplayInv, NEW w \in Entries, Replay!Watch(w)
  PROVE  ReplayInv'
<1>1. /\ rrPhase' = rrPhase /\ todo' = todo
      /\ index' = Replay!Applied(index, {Replay!Tree(w)})
      /\ UNCHANGED <<rrDisk, rrJournal, volume, used, moved, token, next>>
  BY DEF Replay!Watch, Replay!external
<1>2. \A n \in Entries : index'[n] \in {index[n], rrDisk[n]}
  BY <1>1 DEF Replay!Applied, Entries
<1>3. index' \in [Entries -> Int]
  <2>1. \A n \in Entries : rrDisk[n] \in Int /\ index[n] \in Int
    BY DEF ReplayInv, ReplayTyped
  <2>2. index' = [n \in Entries |-> index'[n]]
    BY <1>1 DEF Replay!Applied, Entries
  <2> QED BY <1>2, <2>1, <2>2
<1>4. ReplayTyped' /\ TokensArePast' /\ NamesAreNew' /\ PaidBy(token)'
  BY <1>1, <1>2, <1>3, IndexCatchesUp
<1>5. ASSUME PaidWith(next, todo) PROVE PaidWith(next, todo)'
  <2> SUFFICES ASSUME NEW n \in Entries
               PROVE  /\ index'[n] # rrDisk[n]
                           => \/ Touched(n, next) \/ Reads(n, todo) \/ Replay!Root \in todo
                      /\ Outdated(n)' => Walked(n, next) \/ Reads(n, todo)
    BY <1>1 DEF PaidWith, Touched, Walked, Reads, Replay!Root, Replay!Everything, Replay!Tree,
                Replay!List
  <2>1. CASE index'[n] = index[n]
    BY <1>1, <1>5, <2>1 DEF PaidWith, Outdated
  <2>2. CASE index'[n] = rrDisk[n]
    BY <1>1, <2>2 DEF Outdated
  <2> QED BY <1>2, <2>1, <2>2
<1> QED BY <1>1, <1>4, <1>5 DEF ReplayInv

(* A record that is appended pays for its own change, and leaves what the   *)
(* others pay for.                                                          *)
LEMMA RecordPays ==
  ASSUME ReplayTyped, NEW r \in Records, rrJournal' = Append(rrJournal, r), volume' = volume,
         NEW t \in [id : Nat, volume : Int], t.volume = volume => t.id <= Len(rrJournal)
  PROVE  /\ \A n : /\ Touched(n, t) => Touched(n, t)'
                   /\ Walked(n, t) => Walked(n, t)'
         /\ Touched(r.name, t)'
         /\ r.deep => Walked(r.name, t)'
         /\ Len(rrJournal') = Len(rrJournal) + 1
<1> USE DEF ReplayTyped
<1>1. /\ Len(rrJournal') = Len(rrJournal) + 1 /\ Len(rrJournal) \in Nat
      /\ \A i \in 1..Len(rrJournal) : rrJournal'[i] = rrJournal[i]
      /\ rrJournal'[Len(rrJournal) + 1] = r
  OBVIOUS
<1>2. ASSUME NEW n, Touched(n, t) PROVE Touched(n, t)'
  BY <1>1, <1>2 DEF Touched
<1>3. ASSUME NEW n, Walked(n, t) PROVE Walked(n, t)'
  BY <1>1, <1>3 DEF Walked
<1>4. Touched(r.name, t)'
  BY <1>1 DEF Touched
<1>5. ASSUME r.deep PROVE Walked(r.name, t)'
  <2>1. CASE t.volume # volume
    BY <2>1 DEF Walked
  <2>2. CASE t.volume = volume
    <3>1. Len(rrJournal) + 1 \in (t.id + 1)..Len(rrJournal')
      BY <1>1, <2>2
    <3> QED BY <1>1, <1>5, <3>1 DEF Walked
  <2> QED BY <2>1, <2>2
<1> QED BY <1>1, <1>2, <1>3, <1>4, <1>5

(* A change of one entry that is recorded, of whatever kind, if what it      *)
(* makes outdated it makes the replay read.                                 *)
LEMMA ReplayRecorded ==
  ASSUME ReplayInv, NEW n \in Entries, NEW v \in Int, NEW deep \in BOOLEAN,
         Replay!Recorded(n, v, deep), moved' \in {moved, moved \cup {n}},
         NamesAreNew',
         Outdated(n)' => deep \/ Outdated(n)
  PROVE  ReplayInv'
<1> USE DEF Replay!Entries, Entries
<1>1. /\ rrDisk' = [rrDisk EXCEPT ![n] = v]
      /\ rrJournal' = Append(rrJournal, Replay!Record(n, deep))
      /\ used' = used \cup ({n} \cap Dirs)
      /\ UNCHANGED <<volume, index, token, next, todo, rrPhase>>
  BY DEF Replay!Recorded, Replay!caller
<1> DEFINE r == Replay!Record(n, deep)
<1>2. r \in Records /\ r.name = n /\ r.deep = deep
  BY EntriesAreNamed DEF Replay!Record, Records
<1> HIDE DEF r
<1>3. ReplayTyped'
  BY <1>1, <1>2 DEF ReplayInv, ReplayTyped, r
<1>4. ASSUME NEW t \in {token, next}
      PROVE  /\ \A m : /\ Touched(m, t) => Touched(m, t)'
                       /\ Walked(m, t) => Walked(m, t)'
             /\ Touched(n, t)' /\ (deep => Walked(n, t)')
             /\ Len(rrJournal') = Len(rrJournal) + 1
  <2>1. t \in [id : Nat, volume : Int] /\ (t.volume = volume => t.id <= Len(rrJournal))
    BY DEF ReplayInv, ReplayTyped, TokensArePast
  <2> QED BY <1>1, <1>2, <2>1, RecordPays DEF ReplayInv, r
<1>5. TokensArePast'
  BY <1>1, <1>4 DEF ReplayInv, ReplayTyped, TokensArePast
<1>6. \A m \in Entries \ {n} : /\ rrDisk'[m] = rrDisk[m] /\ index'[m] = index[m]
                               /\ Outdated(m)' => Outdated(m)
  BY <1>1 DEF ReplayInv, ReplayTyped, Outdated
<1>7. PaidBy(token)'
  <2> SUFFICES ASSUME NEW m \in Entries
               PROVE  /\ index'[m] # rrDisk'[m] => Touched(m, token)'
                      /\ Outdated(m)' => Walked(m, token)'
    BY <1>1 DEF PaidBy, Touched, Walked
  <2> QED BY <1>1, <1>4, <1>6 DEF ReplayInv, PaidBy
<1>8. ASSUME PaidWith(next, todo) PROVE PaidWith(next, todo)'
  <2> SUFFICES ASSUME NEW m \in Entries
               PROVE  /\ index'[m] # rrDisk'[m]
                           => Touched(m, next)' \/ Reads(m, todo) \/ Replay!Root \in todo
                      /\ Outdated(m)' => Walked(m, next)' \/ Reads(m, todo)
    BY <1>1 DEF PaidWith, Touched, Walked, Reads, Replay!Root, Replay!Everything, Replay!Tree,
                Replay!List
  <2> QED BY <1>1, <1>4, <1>6, <1>8 DEF PaidWith
<1> QED BY <1>1, <1>3, <1>5, <1>7, <1>8 DEF ReplayInv

(* Files are written, directories made, removed and moved. *)
LEMMA ReplayChange ==
  ASSUME ReplayInv, ~Replacement, NEW n \in Entries,
         \/ Replay!WriteFile(n)
         \/ n \in Dirs /\ (Replay!MakeOrRemove(n) \/ Replay!MoveOut(n) \/ Replay!MoveIn(n))
  PROVE  ReplayInv'
<1> USE EntriesAreNamed DEF Replay!Entries, Entries, Absent, Replay!Absent
<1>0. /\ rrDisk \in [Entries -> Int] /\ index \in [Entries -> Int]
      /\ \A d \in moved : d \in used /\ rrDisk[d] = Absent
      /\ \A d \in Dirs \ used : rrDisk[d] = Absent /\ index[d] = Absent
      /\ used \subseteq Dirs
  BY DEF ReplayInv, ReplayTyped, NamesAreNew
<1>1. ASSUME NEW v \in Int, n \in Files, Replay!Change(n, v, FALSE) PROVE ReplayInv'
  <2>1. /\ rrDisk' = [rrDisk EXCEPT ![n] = v] /\ used' = used \cup ({n} \cap Dirs)
        /\ moved' = moved /\ index' = index /\ Replay!Recorded(n, v, FALSE)
    BY <1>1 DEF Replay!Change, Replay!Recorded, Replay!caller
  <2>2. NamesAreNew'
    BY <1>0, <1>1, <2>1 DEF NamesAreNew
  <2>3. ~Outdated(n)'
    BY <1>1, <2>1 DEF Outdated
  <2> QED BY <2>1, <2>2, <2>3, ReplayRecorded
<1>2. ASSUME NEW v \in Int, n \in Dirs, rrDisk[n] # Absent, v # Absent, Replay!Change(n, v, TRUE)
      PROVE  ReplayInv'
  <2>1. /\ rrDisk' = [rrDisk EXCEPT ![n] = v] /\ used' = used \cup ({n} \cap Dirs)
        /\ moved' = moved /\ index' = index /\ Replay!Recorded(n, v, TRUE)
    BY <1>2 DEF Replay!Change, Replay!Recorded, Replay!caller
  <2>2. NamesAreNew'
    BY <1>0, <1>2, <2>1 DEF NamesAreNew
  <2> QED BY <2>1, <2>2, ReplayRecorded
<1>3. ASSUME NEW v \in Int, n \in Dirs, Replay!Change(n, v, FALSE),
             \/ rrDisk[n] = Absent /\ v = 0 /\ n \notin moved
             \/ rrDisk[n] = 0 /\ v = Absent
      PROVE  ReplayInv'
  <2>1. /\ rrDisk' = [rrDisk EXCEPT ![n] = v] /\ used' = used \cup ({n} \cap Dirs)
        /\ moved' = moved /\ index' = index /\ Replay!Recorded(n, v, FALSE)
    BY <1>3 DEF Replay!Change, Replay!Recorded, Replay!caller
  <2>2. NamesAreNew'
    BY <1>0, <1>3, <2>1 DEF NamesAreNew
  <2>3. Outdated(n)' => Outdated(n)
    BY <1>0, <1>3, <2>1 DEF Outdated
  <2> QED BY <2>1, <2>2, <2>3, ReplayRecorded
<1>4. ASSUME n \in Dirs, Replay!MoveOut(n) PROVE ReplayInv'
  <2>1. /\ rrDisk' = [rrDisk EXCEPT ![n] = Absent] /\ used' = used \cup ({n} \cap Dirs)
        /\ moved' = moved \cup {n} /\ index' = index /\ Replay!Recorded(n, Absent, FALSE)
    BY <1>4 DEF Replay!MoveOut, Replay!Recorded, Replay!caller
  <2>2. NamesAreNew'
    BY <1>0, <1>4, <2>1 DEF NamesAreNew
  <2>3. ~Outdated(n)'
    BY <2>1 DEF Outdated
  <2>4. Absent \in Int /\ moved' \in {moved, moved \cup {n}} /\ FALSE \in BOOLEAN
    BY <2>1
  <2> QED BY <2>1, <2>2, <2>3, <2>4, ReplayRecorded
<1>5. ASSUME n \in Dirs, Replay!MoveIn(n) PROVE ReplayInv'
  <2>1. PICK v \in Int : n \notin used /\ Replay!Change(n, v, FALSE)
    <3>1. PICK v \in 1..MaxVersion : n \notin used /\ Replay!Change(n, v, FALSE)
      BY <1>5, Zenon DEF Replay!MoveIn
    <3>2. v \in Int
      BY VersionsAreNumbers
    <3> QED BY <3>1, <3>2, Zenon
  <2>2. /\ rrDisk' = [rrDisk EXCEPT ![n] = v] /\ used' = used \cup ({n} \cap Dirs)
        /\ moved' = moved /\ index' = index /\ Replay!Recorded(n, v, FALSE)
    BY <2>1 DEF Replay!Change, Replay!Recorded, Replay!caller
  <2>3. NamesAreNew'
    BY <1>0, <1>5, <2>1, <2>2 DEF NamesAreNew
  <2>4. ~Outdated(n)'
    BY <1>0, <1>5, <2>1, <2>2 DEF Outdated
  <2> QED BY <2>2, <2>3, <2>4, ReplayRecorded
<1>6. CASE Replay!WriteFile(n)
  <2>1. PICK v \in Int : \/ n \in Files /\ Replay!Change(n, v, FALSE)
                         \/ /\ n \in Dirs /\ rrDisk[n] # Absent /\ v # Absent
                            /\ Replay!Change(n, v, TRUE)
    <3>1. PICK v \in Absent..MaxVersion :
             \/ n \in Files /\ Replay!Change(n, v, FALSE)
             \/ /\ n \in Dirs /\ rrDisk[n] # Absent /\ v # Absent
                /\ Replay!Change(n, v, TRUE)
      BY <1>6, Zenon DEF Replay!WriteFile
    <3>2. v \in Int
      BY VersionsAreNumbers
    <3> QED BY <3>1, <3>2, Zenon
  <2> QED BY <1>1, <1>2, <2>1
<1>7. CASE n \in Dirs /\ Replay!MakeOrRemove(n)
  <2>1. \/ rrDisk[n] = Absent /\ n \notin moved /\ Replay!Change(n, 0, FALSE)
        \/ rrDisk[n] = 0 /\ Replay!Change(n, Absent, FALSE)
    BY <1>7 DEF Replay!MakeOrRemove
  <2>2. 0 \in Int /\ Absent \in Int
    OBVIOUS
  <2> QED BY <1>3, <1>7, <2>1, <2>2
<1> QED BY <1>4, <1>5, <1>6, <1>7

(* The payments stand when the journal still pays for all that it paid for. *)
LEMMA JournalKeepsPaying ==
  ASSUME ReplayInv, ReplayTyped', TokensArePast',
         UNCHANGED <<rrDisk, used, moved, index, token, next, todo, rrPhase>>,
         \A n \in Entries : \A t \in {token, next} :
            (Touched(n, t) => Touched(n, t)') /\ (Walked(n, t) => Walked(n, t)')
  PROVE  ReplayInv'
<1>1. NamesAreNew'
  BY DEF ReplayInv, NamesAreNew
<1>2. \A n \in Entries : Outdated(n)' = Outdated(n)
  BY DEF Outdated
<1>3. PaidBy(token)'
  <2> SUFFICES ASSUME NEW n \in Entries
               PROVE  /\ index'[n] # rrDisk'[n] => Touched(n, token)'
                      /\ Outdated(n)' => Walked(n, token)'
    BY DEF PaidBy, Touched, Walked
  <2> QED BY <1>2 DEF ReplayInv, PaidBy
<1>4. ASSUME PaidWith(next, todo) PROVE PaidWith(next, todo)'
  <2> SUFFICES ASSUME NEW n \in Entries
               PROVE  /\ index'[n] # rrDisk'[n]
                           => Touched(n, next)' \/ Reads(n, todo) \/ Replay!Root \in todo
                      /\ Outdated(n)' => Walked(n, next)' \/ Reads(n, todo)
    BY DEF PaidWith, Touched, Walked, Reads, Replay!Root, Replay!Everything, Replay!Tree,
           Replay!List
  <2> QED BY <1>2, <1>4 DEF PaidWith
<1> QED BY <1>1, <1>3, <1>4 DEF ReplayInv

(* The journal drops what it knows, and says so. *)
LEMMA ReplayLoseHistory ==
  ASSUME ReplayInv, NEW at \in Dirs \cup {"root"}, Replay!LoseHistory(at)
  PROVE  ReplayInv'
<1> DEFINE lostAt == [name |-> at, deep |-> FALSE, lost |-> TRUE]
<1>1. /\ rrJournal' = [i \in DOMAIN rrJournal |->
                         IF at = "root" \/ (rrJournal[i].name = at /\ rrJournal[i].deep)
                         THEN lostAt ELSE rrJournal[i]]
      /\ UNCHANGED <<rrDisk, volume, used, moved, index, token, next, todo, rrPhase>>
  BY DEF Replay!LoseHistory, Replay!caller
<1>2. lostAt \in Records
  BY DEF Records, Entries, Replay!Entries
<1>3. rrJournal \in Seq(Records)
  BY DEF ReplayInv, ReplayTyped
<1>4. /\ rrJournal' \in Seq(Records) /\ Len(rrJournal') = Len(rrJournal)
      /\ \A i \in 1..Len(rrJournal) :
            rrJournal'[i] = IF at = "root" \/ (rrJournal[i].name = at /\ rrJournal[i].deep)
                            THEN lostAt ELSE rrJournal[i]
  <2> HIDE DEF lostAt
  <2> QED BY <1>1, <1>2, <1>3
<1>5. ReplayTyped' /\ TokensArePast'
  BY <1>1, <1>4 DEF ReplayInv, ReplayTyped, TokensArePast
<1>6. ASSUME NEW n \in Entries, NEW t \in {token, next}
      PROVE  (Touched(n, t) => Touched(n, t)') /\ (Walked(n, t) => Walked(n, t)')
  <2>1. t \in [id : Nat, volume : Int] /\ t' = t
    BY <1>1 DEF ReplayInv, ReplayTyped
  <2>2. (t.id + 1)..Len(rrJournal) \subseteq 1..Len(rrJournal)
    BY <2>1
  <2>3. \A i \in (t.id + 1)..Len(rrJournal) :
          /\ rrJournal[i].name \in {n, "root"} => rrJournal'[i].name \in {n, "root"}
          /\ rrJournal[i].name = "root" => rrJournal'[i].name = "root"
          /\ (rrJournal[i].name = n /\ (rrJournal[i].deep \/ rrJournal[i].lost))
               => \/ rrJournal'[i].name = "root"
                  \/ rrJournal'[i].name = n /\ (rrJournal'[i].deep \/ rrJournal'[i].lost)
    <3> TAKE i \in (t.id + 1)..Len(rrJournal)
    <3>1. CASE at = "root"
      BY <1>4, <2>2, <3>1
    <3>2. CASE at # "root" /\ rrJournal[i].name = at /\ rrJournal[i].deep
      BY <1>4, <2>2, <3>2
    <3>3. CASE rrJournal'[i] = rrJournal[i]
      BY <3>3
    <3> QED BY <1>4, <2>2, <3>1, <3>2, <3>3
  <2>4. ASSUME Touched(n, t) PROVE Touched(n, t)'
    BY <1>1, <1>4, <2>1, <2>3, <2>4 DEF Touched
  <2>5. ASSUME Walked(n, t) PROVE Walked(n, t)'
    BY <1>1, <1>4, <2>1, <2>3, <2>5 DEF Walked
  <2> QED BY <2>4, <2>5
<1> QED BY <1>1, <1>5, <1>6, JournalKeepsPaying

(* A new journal: every saved token is of an earlier volume, and pays. *)
LEMMA ReplayResetJournal == ReplayInv /\ Replay!ResetJournal => ReplayInv'
<1> SUFFICES ASSUME ReplayInv, Replay!ResetJournal PROVE ReplayInv'
  OBVIOUS
<1>1. /\ rrJournal' = <<>> /\ volume' = volume + 1
      /\ UNCHANGED <<rrDisk, used, moved, index, token, next, todo, rrPhase>>
  BY DEF Replay!ResetJournal, Replay!caller
<1>2. ReplayTyped'
  BY <1>1 DEF ReplayInv, ReplayTyped
<1>3. \A t \in {token, next} : t.volume \in Int /\ t.volume < volume' /\ volume' \in Int
  BY <1>1 DEF ReplayInv, ReplayTyped, TokensArePast
<1>4. TokensArePast'
  BY <1>1, <1>3 DEF TokensArePast
<1>5. \A n \in Entries : \A t \in {token, next} : Touched(n, t)' /\ Walked(n, t)'
  BY <1>1, <1>3 DEF Touched, Walked
<1> QED BY <1>1, <1>2, <1>4, <1>5, JournalKeepsPaying

(* The caller's own steps. *)
LEMMA ReplayCaller ==
  ASSUME ReplayInv,
         \/ Replay!Restart \/ Replay!Replay \/ Replay!Incomplete \/ Replay!Save
         \/ Replay!Checkpoint \/ Replay!Crash
  PROVE  ReplayInv'
<1> USE DEF Replay!external
<1>0. \A t \in [id : Nat, volume : Int] : UNCHANGED <<volume, rrJournal>> =>
         \A n \in Entries : Touched(n, t)' = Touched(n, t) /\ Walked(n, t)' = Walked(n, t)
  BY DEF Touched, Walked
<1>a. token \in [id : Nat, volume : Int] /\ next \in [id : Nat, volume : Int]
  BY DEF ReplayInv, ReplayTyped
<1>b. ASSUME UNCHANGED <<rrDisk, rrJournal, volume, used, moved, index>>,
             token' \in {token, next}, next' \in {token, next, Replay!Capture}
      PROVE  ReplayTyped' /\ TokensArePast' /\ NamesAreNew'
  <2>1. /\ Replay!Capture \in [id : Nat, volume : Int]
        /\ Replay!Capture.volume = volume /\ Replay!Capture.id = Len(rrJournal)
    BY DEF Replay!Capture, ReplayInv, ReplayTyped
  <2>2. ReplayTyped'
    BY <1>b, <2>1 DEF ReplayInv, ReplayTyped
  <2>3. TokensArePast'
    BY <1>b, <2>1, <2>2 DEF ReplayInv, ReplayTyped, TokensArePast
  <2>4. NamesAreNew'
    BY <1>b DEF ReplayInv, NamesAreNew
  <2> QED BY <2>2, <2>3, <2>4
<1>c. ASSUME UNCHANGED <<rrDisk, rrJournal, volume, moved, index, token>>
      PROVE  PaidBy(token)'
  BY <1>c DEF ReplayInv, PaidBy, Touched, Walked, Outdated
<1>1. CASE Replay!Restart
  BY <1>b, <1>c, <1>1 DEF Replay!Restart, ReplayInv
<1>2. CASE Replay!Replay
  <2>1. /\ rrPhase' = "applying" /\ todo' \in {Replay!Listings(token), {Replay!Everything}}
        /\ UNCHANGED <<rrDisk, rrJournal, volume, used, moved, index, token, next>>
    BY <1>2 DEF Replay!Replay
  <2>2. ASSUME NEW n \in Entries
        PROVE  /\ Walked(n, token) => Reads(n, todo')
               /\ Touched(n, token) => Reads(n, todo') \/ Replay!Root \in todo'
    <3>1. CASE todo' = Replay!Listings(token)
      <4>1. ReplayTyped /\ (token.volume = volume => token.id <= Len(rrJournal))
        BY DEF ReplayInv, TokensArePast
      <4> QED BY <1>a, <3>1, <4>1, ListingsPay
    <3>2. CASE todo' = {Replay!Everything}
      BY <3>2 DEF Reads
    <3> QED BY <2>1, <3>1, <3>2
  <2>3. PaidWith(next, todo)'
    <3> SUFFICES ASSUME NEW n \in Entries
                 PROVE  /\ index[n] # rrDisk[n] => Reads(n, todo') \/ Replay!Root \in todo'
                        /\ Outdated(n) => Reads(n, todo')
      BY <2>1 DEF PaidWith, Outdated, Reads, Replay!Root, Replay!Everything, Replay!Tree,
                  Replay!List
    <3> QED BY <2>2 DEF ReplayInv, PaidBy
  <2> QED BY <1>b, <1>c, <2>1, <2>3 DEF ReplayInv
<1>3. CASE Replay!Save
  <2>1. /\ rrPhase = "applying" /\ todo = {} /\ token' = next /\ rrPhase' = "running"
        /\ UNCHANGED <<rrDisk, rrJournal, volume, used, moved, index, next>>
    BY <1>3 DEF Replay!Save
  <2>2. PaidWith(next, {})
    BY <2>1 DEF ReplayInv
  <2>3. PaidBy(token)'
    BY <2>1, <2>2 DEF PaidBy, PaidWith, Reads, Touched, Walked, Outdated
  <2> QED BY <1>b, <2>1, <2>3 DEF ReplayInv
<1>4. CASE Replay!Checkpoint
  <2>1. /\ todo' = {Replay!Everything} /\ next' = Replay!Capture
        /\ UNCHANGED <<rrDisk, rrJournal, volume, used, moved, index, token>>
    BY <1>4 DEF Replay!Checkpoint
  <2>2. PaidWith(next, todo)'
    BY <2>1 DEF PaidWith, Reads, Replay!Everything, Replay!Tree
  <2> QED BY <1>b, <1>c, <2>1, <2>2 DEF ReplayInv
<1>5. CASE Replay!Crash
  BY <1>b, <1>c, <1>5 DEF Replay!Crash, ReplayInv
<1>6. CASE Replay!Incomplete
  BY <1>b, <1>c, <1>6 DEF Replay!Incomplete, ReplayInv
<1> QED BY <1>1, <1>2, <1>3, <1>4, <1>5, <1>6

(* The index, caught up from the saved token, is the tree. *)
LEMMA PaidIsRecovered == ReplayInv => RestartRecovers
<1> SUFFICES ASSUME ReplayInv PROVE RestartRecovers
  OBVIOUS
<1> DEFINE units == Replay!Listings(token)
<1>1. ASSUME NEW n \in Entries
      PROVE  \/ index[n] = rrDisk[n]
             \/ Reads(n, units)
             \/ Replay!Root \in units /\ (n \in Files \/ Absent \in {rrDisk[n], index[n]})
  <2>1. /\ Walked(n, token) => Reads(n, units)
        /\ Touched(n, token) => Reads(n, units) \/ Replay!Root \in units
    BY ListingsPay DEF ReplayInv, ReplayTyped, TokensArePast
  <2>2. (index[n] # rrDisk[n] => Touched(n, token)) /\ (Outdated(n) => Walked(n, token))
    BY DEF ReplayInv, PaidBy
  <2>3. (index[n] # rrDisk[n] /\ n \notin Files /\ Absent \notin {rrDisk[n], index[n]})
          => Outdated(n)
    BY DEF Outdated, ReplayInv, NamesAreNew, Entries, Replay!Entries
  <2> QED BY <2>1, <2>2, <2>3
<1>2. Replay!Applied(index, units) = [n \in Entries |-> rrDisk[n]]
  BY <1>1 DEF Replay!Applied, Reads, Entries, Absent
<1>3. rrDisk = [n \in Entries |-> rrDisk[n]]
  BY DEF ReplayInv, ReplayTyped
<1> QED BY <1>2, <1>3 DEF RestartRecovers, Replay!RestartRecovers

(* Restart without a rescan (history.rs, resume.rs): whatever changes, is     *)
(* dropped from the journal or resets it, and wherever a crash cuts the        *)
(* protocol of capture, apply and save, the durable index caught up from the   *)
(* saved token is the tree.  For every set of names and number of changes and  *)
(* faults, as long as no directory is moved to a name that was one's before    *)
(* (RestartRecovers fails with Replacement, as the findings say).              *)
THEOREM NothingIsLost == ~Replacement /\ Replay!Spec => []RestartRecovers
<1>1. Replay!Init => ReplayInv
  BY ReplayInit
<1>2. ASSUME ~Replacement PROVE ReplayInv /\ [Replay!Next]_(Replay!vars) => ReplayInv'
  <2> SUFFICES ASSUME ReplayInv, [Replay!Next]_(Replay!vars) PROVE ReplayInv'
    OBVIOUS
  <2>1. CASE \E n \in Entries : Replay!WriteFile(n)
    BY <1>2, <2>1, ReplayChange
  <2>2. CASE \E n \in Entries : Replay!Watch(n)
    BY <2>2, ReplayWatch
  <2>3. CASE \E d \in Dirs : Replay!MakeOrRemove(d) \/ Replay!MoveOut(d) \/ Replay!MoveIn(d)
    BY <1>2, <2>3, ReplayChange DEF Entries, Replay!Entries
  <2>4. CASE \E at \in Dirs \cup {"root"} : Replay!LoseHistory(at)
    BY <2>4, ReplayLoseHistory
  <2>5. CASE Replay!ResetJournal
    BY <2>5, ReplayResetJournal
  <2>6. CASE \E u \in todo : Replay!Apply(u)
    BY <2>6, ReplayApply
  <2>7. CASE \/ Replay!Restart \/ Replay!Replay \/ Replay!Incomplete \/ Replay!Save
             \/ Replay!Checkpoint \/ Replay!Crash
    BY <2>7, ReplayCaller
  <2>8. CASE UNCHANGED Replay!vars
    BY <2>8 DEF Replay!vars, Replay!external, Replay!caller, ReplayInv, ReplayTyped,
                TokensArePast, NamesAreNew, PaidBy, PaidWith, Touched, Walked, Reads, Outdated
  <2> QED BY <2>1, <2>2, <2>3, <2>4, <2>5, <2>6, <2>7, <2>8, Zenon DEF Replay!Next, Entries
<1>3. ReplayInv => RestartRecovers
  BY PaidIsRecovered
<1>4. ASSUME ~Replacement PROVE Replay!Spec => []RestartRecovers
  <2>1. ReplayInv /\ [Replay!Next]_(Replay!vars) => ReplayInv'
    BY <1>2, <1>4
  <2> QED BY <1>1, <1>3, <2>1, PTL DEF Replay!Spec
<1> QED BY <1>4

-----------------------------------------------------------------------------
(* The drive's store.  Every inode that something names as a digest has    *)
(* that digest's bytes or is in `late`; for a put on its way this is owed   *)
(* only if its comparison of stats will succeed.  The operators take the    *)
(* files as arguments, so that a lemma can speak of them before and after.  *)

Vouched(i, d, by, la) == by[i] = d \/ i \in la
Whole(v, tree, by, la) ==
    /\ DOMAIN tree = Names[v]
    /\ \A d \in Names[v] : tree[d] \in Inodes /\ Vouched(tree[d], d, by, la)
SomeWhole(tree, by, la) == \E v \in Versions : Whole(v, tree, by, la)
Begun(v, tree, rest, by, la) ==
    /\ DOMAIN tree \cup rest = Names[v]
    /\ \A d \in DOMAIN tree : tree[d] \in Inodes /\ Vouched(tree[d], d, by, la)

(* Where a call stands, and what it holds there. *)
Sound(r, by, mt, so, la) ==
    /\ "at" \in DOMAIN r
    /\ r.at \in {"hash", "link", "check"} =>
         /\ "before" \in DOMAIN r /\ r.before.inode \in Inodes /\ r.before.mtime \in Nat
         /\ r.before.mtime <= mt[r.before.inode]
    /\ r.at \in {"check", "publish", "admit"} => "tmp" \in DOMAIN r /\ r.tmp \in Inodes
    /\ r.at \in {"link", "check", "publish", "admit"} => r.digest \in Digests
    /\ (r.at = "link" /\ r.before.inode = so /\ r.before.mtime = mt[so])
         => Vouched(so, r.digest, by, la)
    /\ (r.at = "check" /\ r.before.inode = r.tmp /\ r.before.mtime = mt[r.tmp])
         => Vouched(r.tmp, r.digest, by, la)
    /\ r.at = "publish" => Vouched(r.tmp, r.digest, by, la)
    /\ r.at \in {"mutate", "persist", "make", "place", "rename"} => r.v \in Versions
    /\ r.at = "place" => /\ "tree" \in DOMAIN r /\ "todo" \in DOMAIN r
                         /\ Begun(r.v, r.tree, r.todo, by, la)
    /\ r.at = "rename" => "tree" \in DOMAIN r /\ Whole(r.v, r.tree, by, la)
    /\ r.at = "swap" => /\ "tree" \in DOMAIN r /\ SomeWhole(r.tree, by, la)
                        /\ "old" \in DOMAIN r /\ SomeWhole(r.old, by, la)

ObjectsSound(ob, by, la) ==
    /\ DOMAIN ob \subseteq Digests
    /\ \A d \in DOMAIN ob : ob[d] \in Inodes /\ Vouched(ob[d], d, by, la)
TreesSound(bu, vi, by, la) ==
    /\ \A v \in DOMAIN bu : v \in Versions /\ Whole(v, bu[v], by, la)
    /\ vi # NoTree => SomeWhole(vi, by, la)

FilesTyped == bytes \in [Inodes -> Digests] /\ mtime \in [Inodes -> Nat] /\ src \in Inodes
FilesInv ==
    /\ FilesTyped
    /\ ObjectsSound(objects, bytes, late)
    /\ TreesSound(built, view, bytes, late)
    /\ DOMAIN call = Calls
    /\ \A c \in Calls : Sound(call[c], bytes, mtime, src, late)

(* A call that is idle or about to copy holds nothing. *)
LEMMA BareIsSound ==
  ASSUME NEW by, NEW mt, NEW so, NEW la
  PROVE  Sound(Idle, by, mt, so, la) /\ Sound([at |-> "copy"], by, mt, so, la)
BY DEF Sound, Idle

(* A root as it is opened: the objects it has are the seed's, and right. *)
LEMMA FilesInit == Init => FilesInv
<1> SUFFICES ASSUME Init PROVE FilesInv
  OBVIOUS
<1>1. \A d \in Digests : Seed[d] \in Inodes
  BY StoreAssumption
<1>2. DOMAIN Seed = Digests /\ InodesOf(Seed) = {Seed[d] : d \in Digests}
  BY StoreAssumption DEF InodesOf
<1>3. PICK d0 \in Digests :
         bytes = [i \in Inodes |-> IF i \in InodesOf(Seed)
                                  THEN CHOOSE d \in Digests : Seed[d] = i ELSE d0]
  BY DEF Init
<1>4. \A d \in Digests : bytes[Seed[d]] = d
  <2> TAKE d \in Digests
  <2>1. bytes[Seed[d]] = CHOOSE e \in Digests : Seed[e] = Seed[d]
    BY <1>1, <1>2, <1>3
  <2>2. (CHOOSE e \in Digests : Seed[e] = Seed[d]) \in {e \in Digests : Seed[e] = Seed[d]}
    OBVIOUS
  <2> QED BY <2>1, <2>2, StoreAssumption
<1>5. FilesTyped
  <2>1. bytes \in [Inodes -> Digests]
    <3>1. \A i \in InodesOf(Seed) : (CHOOSE d \in Digests : Seed[d] = i) \in Digests
      BY <1>2
    <3> QED BY <1>3, <3>1
  <2>2. src \in Inodes
    <3>1. Inodes \ InodesOf(Seed) # {}
      BY <1>2, StoreAssumption
    <3> QED BY <3>1 DEF Init, Fresh
  <2>3. mtime \in [Inodes -> Nat]
    BY DEF Init
  <2> QED BY <2>1, <2>2, <2>3 DEF FilesTyped
<1>6. ObjectsSound(objects, bytes, late)
  <2>1. CASE objects = Seed
    BY <1>1, <1>2, <1>4, <2>1 DEF ObjectsSound, Vouched
  <2>2. CASE objects = <<>>
    BY <2>2 DEF ObjectsSound
  <2> QED BY <2>1, <2>2 DEF Init
<1>7. TreesSound(built, view, bytes, late)
  BY DEF Init, TreesSound
<1>8. DOMAIN call = Calls /\ \A c \in Calls : call[c] = Idle
  BY DEF Init
<1> QED BY <1>5, <1>6, <1>7, <1>8, BareIsSound DEF FilesInv

(* One call moves on and the files stay as they are. *)
LEMMA CallMoves ==
  ASSUME FilesInv, NEW c \in Calls, NEW r, Goto(c, r),
         UNCHANGED <<bytes, mtime, src, late>>,
         Sound(r, bytes, mtime, src, late),
         ObjectsSound(objects', bytes, late), TreesSound(built', view', bytes, late)
  PROVE  FilesInv'
<1>1. /\ DOMAIN call' = Calls
      /\ call'[c] = r /\ \A x \in Calls \ {c} : call'[x] = call[x]
  BY DEF Goto, FilesInv
<1>2. \A x \in Calls : Sound(call'[x], bytes', mtime', src', late')
  <2> TAKE x \in Calls
  <2>1. Sound(call'[x], bytes, mtime, src, late)
    BY <1>1 DEF FilesInv
  <2> QED BY <2>1
<1>3. FilesTyped'
  BY DEF FilesInv, FilesTyped
<1>4. ObjectsSound(objects', bytes', late') /\ TreesSound(built', view', bytes', late')
  OBVIOUS
<1> QED BY <1>1, <1>2, <1>3, <1>4 DEF FilesInv

(* The same, with no tree and no object touched. *)
LEMMA CallMovesAlone ==
  ASSUME FilesInv, NEW c \in Calls, NEW r, Goto(c, r),
         UNCHANGED <<bytes, mtime, src, late, objects, built, view>>,
         Sound(r, bytes, mtime, src, late)
  PROVE  FilesInv'
BY CallMoves DEF FilesInv

(* The steps of a put that only look: a put by link takes the source's      *)
(* digest, then its inode, and goes on if the stats still are the same.     *)
LEMMA PutLooks ==
  ASSUME FilesInv, NEW c \in Calls,
         PutFile(c) \/ PutHash(c) \/ PutLink(c) \/ PutCheck(c) \/ AdmitHash(c)
  PROVE  FilesInv'
<1>1. Sound(call[c], bytes, mtime, src, late) /\ FilesTyped
  BY DEF FilesInv
<1>2. CASE PutFile(c)
  <2>1. PICK mode \in {"link", "copy", "linkOrCopy"} :
           Arrive(c, IF mode = "copy" THEN [at |-> "copy"]
                     ELSE [at |-> "hash", mode |-> mode, before |-> Stat(src)])
    BY <1>2 DEF PutFile
  <2>2. Sound([at |-> "hash", mode |-> mode, before |-> Stat(src)], bytes, mtime, src, late)
    BY <1>1 DEF Sound, Stat, FilesTyped
  <2>3. Sound(IF mode = "copy" THEN [at |-> "copy"]
                     ELSE [at |-> "hash", mode |-> mode, before |-> Stat(src)],
              bytes, mtime, src, late)
    BY <2>2, BareIsSound
  <2> QED BY <1>2, <2>1, <2>3, CallMovesAlone DEF PutFile, Arrive, files, trees
<1>3. CASE PutHash(c)
  <2> DEFINE r == [at |-> "link", mode |-> call[c].mode, before |-> call[c].before,
                   digest |-> bytes[src]]
  <2>1. call[c].at = "hash"
    BY <1>3 DEF PutHash, At
  <2>2. Sound(r, bytes, mtime, src, late)
    BY <1>1, <2>1 DEF Sound, FilesTyped, Vouched
  <2> DEFINE s == IF bytes[src] \in DOMAIN objects THEN Idle ELSE r
  <2>3. Sound(s, bytes, mtime, src, late)
    BY <2>2, BareIsSound
  <2>4. Goto(c, s) /\ UNCHANGED <<bytes, mtime, src, late, objects, built, view>>
    BY <1>3 DEF PutHash, files, trees
  <2> HIDE DEF s
  <2> QED BY <2>3, <2>4, CallMovesAlone
<1>4. CASE PutLink(c)
  <2> DEFINE r == [at |-> "check", before |-> call[c].before, digest |-> call[c].digest,
                   tmp |-> src]
             s == IF call[c].mode = "link" THEN Idle ELSE [at |-> "copy"]
  <2>1. call[c].at = "link"
    BY <1>4 DEF PutLink, At
  <2>2. Sound(r, bytes, mtime, src, late)
    BY <1>1, <2>1 DEF Sound, FilesTyped
  <2>3. Sound(s, bytes, mtime, src, late)
    BY BareIsSound
  <2>4. (Goto(c, r) \/ Goto(c, s)) /\ UNCHANGED <<bytes, mtime, src, late, objects, built, view>>
    BY <1>4 DEF PutLink, files, trees
  <2> HIDE DEF r, s
  <2> QED BY <2>2, <2>3, <2>4, CallMovesAlone
<1>5. CASE PutCheck(c)
  <2> DEFINE r == [at |-> "publish", tmp |-> call[c].tmp, digest |-> call[c].digest]
             s == IF SameFile(call[c].before, Stat(call[c].tmp)) THEN r ELSE Idle
  <2>1. call[c].at = "check"
    BY <1>5 DEF PutCheck, At
  <2>2. ASSUME SameFile(call[c].before, Stat(call[c].tmp))
        PROVE  Sound(r, bytes, mtime, src, late)
    <3>1. call[c].before.inode = call[c].tmp /\ call[c].before.mtime = mtime[call[c].tmp]
      BY <2>2 DEF SameFile, Stat
    <3> QED BY <1>1, <2>1, <3>1 DEF Sound
  <2>3. Sound(s, bytes, mtime, src, late)
    BY <2>2, BareIsSound
  <2>4. Goto(c, s) /\ UNCHANGED <<bytes, mtime, src, late, objects, built, view>>
    BY <1>5 DEF PutCheck, files, trees
  <2> HIDE DEF s
  <2> QED BY <2>3, <2>4, CallMovesAlone
<1>6. CASE AdmitHash(c)
  <2> DEFINE r == [call[c] EXCEPT !.at = "publish"]
             s == IF Matches(call[c].tmp, call[c].digest) THEN r ELSE Idle
  <2>1. call[c].at = "admit"
    BY <1>6 DEF AdmitHash, At
  <2>2. ASSUME Matches(call[c].tmp, call[c].digest)
        PROVE  Sound(r, bytes, mtime, src, late)
    BY <1>1, <2>1, <2>2 DEF Sound, Vouched, Matches
  <2>3. Sound(s, bytes, mtime, src, late)
    BY <2>2, BareIsSound
  <2>4. Goto(c, s) /\ UNCHANGED <<bytes, mtime, src, late, objects, built, view>>
    BY <1>6 DEF AdmitHash, files, trees
  <2> HIDE DEF s
  <2> QED BY <2>3, <2>4, CallMovesAlone
<1> QED BY <1>2, <1>3, <1>4, <1>5, <1>6

(* Steps on the document, and those of gc and of a build that only read. *)
LEMMA OthersLook ==
  ASSUME FilesInv, NEW c \in Calls,
         \/ \E v \in Versions : AddVersion(c, v) \/ Edit(c, v) \/ Buildable(c, v)
         \/ Mutate(c) \/ Persist(c) \/ PersistFails(c)
         \/ GcCatalog(c) \/ GcBuilt(c) \/ GcList(c)
  PROVE  FilesInv'
<1>1. Sound(call[c], bytes, mtime, src, late)
  BY DEF FilesInv
<1>2. UNCHANGED <<bytes, mtime, src, late, objects, built, view>>
  BY Zenon DEF AddVersion, Edit, Buildable, Mutate, Persist, PersistFails, GcCatalog, GcBuilt, GcList,
         files, trees
<1>3. \A r : Goto(c, r) /\ Sound(r, bytes, mtime, src, late) => FilesInv'
  BY <1>2, CallMovesAlone
<1>4. ASSUME NEW v \in Versions, AddVersion(c, v) \/ Edit(c, v) \/ Buildable(c, v)
      PROVE  FilesInv'
  <2>1. \A x, y : Sound([at |-> "mutate", op |-> x, v |-> v, cur |-> y], bytes, mtime, src, late)
    BY DEF Sound
  <2>2. \A x, y : Sound([at |-> "make", v |-> v, into |-> x, exists |-> y], bytes, mtime, src, late)
    BY DEF Sound
  <2> QED BY <1>3, <1>4, <2>1, <2>2, Zenon DEF AddVersion, Edit, Buildable, Arrive
<1>5. CASE Mutate(c)
  <2>1. call[c].at = "mutate"
    BY <1>5 DEF Mutate, At
  <2>2. Sound([call[c] EXCEPT !.at = "persist"], bytes, mtime, src, late)
    BY <1>1, <2>1 DEF Sound
  <2>3. Goto(c, Idle) \/ Goto(c, [call[c] EXCEPT !.at = "persist"])
    BY <1>5 DEF Mutate
  <2> QED BY <1>3, <2>2, <2>3, BareIsSound
<1>6. CASE Persist(c) \/ PersistFails(c)
  BY <1>3, <1>6, BareIsSound DEF Persist, PersistFails
<1>7. CASE GcCatalog(c) \/ GcBuilt(c) \/ GcList(c)
  <2>1. \A x : /\ Sound([at |-> "gcBuilt", doc |-> x], bytes, mtime, src, late)
               /\ Sound([at |-> "gcList", retained |-> x], bytes, mtime, src, late)
               /\ Sound([at |-> "gcRemove", todo |-> x], bytes, mtime, src, late)
    BY DEF Sound
  <2> QED BY <1>3, <1>7, <2>1, Zenon DEF GcCatalog, GcBuilt, GcList, Arrive
<1> QED BY <1>4, <1>5, <1>6, <1>7

(* What enters objects/ was vouched for, and a removal takes one name. *)
LEMMA ObjectsChange ==
  ASSUME FilesInv, NEW c \in Calls, Publish(c) \/ GcRemove(c)
  PROVE  FilesInv'
<1>1. /\ Sound(call[c], bytes, mtime, src, late) /\ ObjectsSound(objects, bytes, late)
      /\ TreesSound(built, view, bytes, late)
  BY DEF FilesInv
<1>2. UNCHANGED <<bytes, mtime, src, late, built, view>>
  BY DEF Publish, GcRemove, files, trees
<1>3. CASE Publish(c)
  <2>1. call[c].at = "publish"
    BY <1>3 DEF Publish, At
  <2>2. ObjectsSound(With(objects, call[c].digest, call[c].tmp), bytes, late)
    BY <1>1, <2>1 DEF ObjectsSound, Sound, With
  <2>3. ObjectsSound(objects', bytes, late)
    BY <1>1, <1>3, <2>2 DEF Publish
  <2>4. Goto(c, Idle) /\ TreesSound(built', view', bytes, late)
    BY <1>1, <1>2, <1>3 DEF Publish
  <2> QED BY <1>2, <2>3, <2>4, BareIsSound, CallMoves
<1>4. CASE GcRemove(c)
  <2>1. call[c].at = "gcRemove"
    BY <1>4 DEF GcRemove, At
  <2>2. \A d : ObjectsSound(Without(objects, d), bytes, late)
    BY <1>1 DEF ObjectsSound, Without
  <2>3. \A d : Sound([call[c] EXCEPT !.todo = @ \ {d}], bytes, mtime, src, late)
    BY <1>1, <2>1 DEF Sound
  <2>4. \E r : Goto(c, r) /\ Sound(r, bytes, mtime, src, late)
    BY <1>4, <2>3, BareIsSound DEF GcRemove
  <2>5. ObjectsSound(objects', bytes, late)
    BY <1>1, <1>4, <2>2 DEF GcRemove
  <2>6. TreesSound(built', view', bytes, late)
    BY <1>1, <1>2
  <2> QED BY <1>2, <2>4, <2>5, <2>6, CallMoves
<1> QED BY <1>3, <1>4

(* One more file of a tree that is being assembled. *)
LEMMA OneMorePlaced ==
  ASSUME NEW r, NEW by, NEW mt, NEW so, NEW la, NEW i \in Inodes, NEW d,
         Sound(r, by, mt, so, la), r.at = "place", d \in r.todo, Vouched(i, d, by, la)
  PROVE  Sound([r EXCEPT !.todo = @ \ {d}, !.tree = With(@, d, i)], by, mt, so, la)
<1> DEFINE t == With(r.tree, d, i)
           s == [r EXCEPT !.todo = @ \ {d}, !.tree = With(@, d, i)]
<1>1. "at" \in DOMAIN r /\ "tree" \in DOMAIN r /\ "todo" \in DOMAIN r
  BY DEF Sound
<1>2. s.at = "place" /\ s.v = r.v /\ s.tree = t /\ s.todo = r.todo \ {d} /\ DOMAIN s = DOMAIN r
  BY <1>1
<1>3. Begun(r.v, r.tree, r.todo, by, la) /\ r.v \in Versions
  BY DEF Sound
<1>4. Begun(r.v, t, r.todo \ {d}, by, la)
  BY <1>3 DEF Begun, With
<1> HIDE DEF s, t
<1>5. Sound(s, by, mt, so, la)
  BY <1>1, <1>2, <1>3, <1>4 DEF Sound
<1> QED BY <1>5 DEF s

(* The steps of placing that write no file: an object is linked, all of    *)
(* them are, or the build fails.                                           *)
LEMMA FilesLinked ==
  ASSUME FilesInv, NEW c \in Calls, At(c, "place"),
         UNCHANGED <<mtime, src, objects, built, view>>,
         \/ /\ call[c].todo = {} /\ UNCHANGED <<bytes, late>>
            /\ Goto(c, [at |-> "rename", v |-> call[c].v, into |-> call[c].into,
                        exists |-> call[c].exists, tree |-> call[c].tree])
         \/ \E d \in call[c].todo : PlaceLink(c, d)
         \/ PlaceFails(c)
  PROVE  FilesInv'
<1>1. /\ Sound(call[c], bytes, mtime, src, late) /\ ObjectsSound(objects, bytes, late)
      /\ call[c].at = "place"
  BY DEF FilesInv, At
<1>2. UNCHANGED <<bytes, mtime, src, late, objects, built, view>>
  BY DEF PlaceLink, PlaceFails
<1>3. \A r : Goto(c, r) /\ Sound(r, bytes, mtime, src, late) => FilesInv'
  BY <1>2, CallMovesAlone
<1>4. CASE call[c].todo = {} /\ Goto(c, [at |-> "rename", v |-> call[c].v, into |-> call[c].into,
                                         exists |-> call[c].exists, tree |-> call[c].tree])
  <2>1. Whole(call[c].v, call[c].tree, bytes, late) /\ call[c].v \in Versions
    BY <1>1, <1>4 DEF Sound, Begun, Whole
  <2>2. Sound([at |-> "rename", v |-> call[c].v, into |-> call[c].into,
               exists |-> call[c].exists, tree |-> call[c].tree], bytes, mtime, src, late)
    BY <2>1 DEF Sound
  <2> QED BY <1>3, <1>4, <2>2
<1>5. ASSUME NEW d \in call[c].todo, PlaceLink(c, d) PROVE FilesInv'
  <2>1. objects[d] \in Inodes /\ Vouched(objects[d], d, bytes, late)
    BY <1>1, <1>5 DEF PlaceLink, ObjectsSound
  <2>2. Sound([call[c] EXCEPT !.todo = @ \ {d}, !.tree = With(@, d, objects[d])],
              bytes, mtime, src, late)
    BY <1>1, <2>1, OneMorePlaced
  <2> QED BY <1>3, <1>5, <2>2 DEF PlaceLink, NextPlaced
<1>6. CASE PlaceFails(c)
  BY <1>3, <1>6, BareIsSound DEF PlaceFails
<1> QED BY <1>4, <1>5, <1>6

(* A build: the tree assembled is whole, and stays so on its way in. *)
LEMMA TreesChange ==
  ASSUME FilesInv, NEW c \in Calls,
         \/ Materialize(c) \/ Rename(c) \/ SwapIn(c)
         \/ \E v \in Versions : Unbuild(c, v)
  PROVE  FilesInv'
<1>1. /\ Sound(call[c], bytes, mtime, src, late) /\ ObjectsSound(objects, bytes, late)
      /\ TreesSound(built, view, bytes, late)
  BY DEF FilesInv
<1>2. UNCHANGED <<bytes, mtime, src, late, objects>>
  BY DEF Materialize, Rename, SwapIn, Unbuild, files
<1>3. \A r : Goto(c, r) /\ Sound(r, bytes, mtime, src, late)
               /\ TreesSound(built', view', bytes, late) => FilesInv'
  BY <1>1, <1>2, CallMoves
<1>4. \A w, t : Whole(w, t, bytes, late) /\ w \in Versions
        => TreesSound(With(built, w, t), view, bytes, late) /\ SomeWhole(t, bytes, late)
  BY <1>1 DEF TreesSound, With, SomeWhole
<1>5. CASE Materialize(c)
  <2> DEFINE v == call[c].v
             r == [at |-> "place", v |-> v, into |-> call[c].into,
                   exists |-> call[c].exists, todo |-> Names[v], tree |-> NoTree]
  <2>1. call[c].at = "make" /\ v \in Versions
    BY <1>1, <1>5 DEF Materialize, At, Sound
  <2>2. Begun(v, NoTree, Names[v], bytes, late)
    BY DEF Begun, NoTree
  <2>3. Sound(r, bytes, mtime, src, late)
    BY <2>1, <2>2 DEF Sound
  <2>4. Goto(c, Idle) \/ Goto(c, r)
    BY <1>5 DEF Materialize
  <2>5. TreesSound(built', view', bytes, late)
    BY <1>1, <1>5 DEF Materialize, trees
  <2> HIDE DEF r
  <2> QED BY <1>3, <2>3, <2>4, <2>5, BareIsSound
<1>6. CASE Rename(c)
  <2> DEFINE r == call[c]
             s == [at |-> "swap", tree |-> r.tree, old |-> view]
  <2>1. r.at = "rename" /\ r.v \in Versions /\ Whole(r.v, r.tree, bytes, late)
    BY <1>1, <1>6 DEF Rename, At, Sound
  <2>2. SomeWhole(r.tree, bytes, late) /\ TreesSound(With(built, r.v, r.tree), view, bytes, late)
    BY <1>4, <2>1
  <2>3. TreesSound(built, r.tree, bytes, late) /\ TreesSound(built, NoTree, bytes, late)
    BY <1>1, <2>2 DEF TreesSound
  <2>4. TreesSound(built', view', bytes, late)
    BY <1>1, <1>6, <2>2, <2>3 DEF Rename
  <2>5. ASSUME view # NoTree PROVE Sound(s, bytes, mtime, src, late)
    BY <1>1, <2>2, <2>5 DEF Sound, TreesSound
  <2>6. Goto(c, Idle) \/ (view # NoTree /\ Goto(c, s))
    BY <1>6 DEF Rename
  <2> QED BY <1>3, <2>4, <2>5, <2>6, BareIsSound
<1>7. CASE SwapIn(c)
  <2>1. SomeWhole(call[c].tree, bytes, late) /\ SomeWhole(call[c].old, bytes, late)
    BY <1>1, <1>7 DEF SwapIn, At, Sound
  <2>2. TreesSound(built', view', bytes, late)
    BY <1>1, <1>7, <2>1 DEF TreesSound, SwapIn
  <2> QED BY <1>3, <1>7, <2>2, BareIsSound DEF SwapIn
<1>8. ASSUME NEW v \in Versions, Unbuild(c, v) PROVE FilesInv'
  <2>1. TreesSound(built', view', bytes, late)
    BY <1>1, <1>8 DEF TreesSound, Unbuild, Without
  <2>2. UNCHANGED call
    BY <1>8 DEF Unbuild
  <2>3. TreesSound(built', view', bytes', late') /\ FilesTyped'
    BY <1>2, <2>1 DEF FilesInv, FilesTyped
  <2> QED BY <1>2, <2>2, <2>3 DEF FilesInv
<1> QED BY <1>5, <1>6, <1>7, <1>8

(* A file's bytes change, and everything that vouched for it still does. *)
Stays(i) == \A d : Vouched(i, d, bytes, late) => Vouched(i, d, bytes', late')

LEMMA WholeStays ==
  ASSUME NEW v \in Versions, NEW tree, Whole(v, tree, bytes, late),
         \A d \in DOMAIN tree : tree[d] \in Inodes => Stays(tree[d])
  PROVE  Whole(v, tree, bytes', late')
BY DEF Whole, Stays

LEMMA BegunStays ==
  ASSUME NEW v, NEW tree, NEW rest, Begun(v, tree, rest, bytes, late),
         \A d \in DOMAIN tree : tree[d] \in Inodes => Stays(tree[d])
  PROVE  Begun(v, tree, rest, bytes', late')
BY DEF Begun, Stays

(* Every object and every tree anyone reads or is about to put in place. *)
LEMMA LinkedStays ==
  ASSUME FilesInv, \A i \in Linked : i \in Inodes => Stays(i)
  PROVE  /\ ObjectsSound(objects, bytes', late')
         /\ TreesSound(built, view, bytes', late')
         /\ \A c \in Calls : call[c].at = "place" =>
               Begun(call[c].v, call[c].tree, call[c].todo, bytes', late')
         /\ \A c \in Calls : call[c].at = "rename" => Whole(call[c].v, call[c].tree, bytes', late')
         /\ \A c \in Calls : call[c].at = "swap" => /\ SomeWhole(call[c].tree, bytes', late')
                                                   /\ SomeWhole(call[c].old, bytes', late')
<1>1. \A t \in TreesNow : \A d \in DOMAIN t : t[d] \in Linked
  <2> TAKE t \in TreesNow
  <2> TAKE d \in DOMAIN t
  <2>1. InodesOf(t) \in {InodesOf(u) : u \in TreesNow} /\ t[d] \in InodesOf(t)
    BY Zenon DEF InodesOf
  <2> QED BY <2>1, Zenon DEF Linked
<1>2. ASSUME NEW v \in Versions, NEW t \in TreesNow, Whole(v, t, bytes, late)
      PROVE  Whole(v, t, bytes', late')
  BY <1>1, <1>2, WholeStays
<1>3. ASSUME NEW t \in TreesNow, SomeWhole(t, bytes, late)
      PROVE  SomeWhole(t, bytes', late')
  BY <1>2, <1>3, Zenon DEF SomeWhole
<1>4. ObjectsSound(objects, bytes', late')
  <2>1. \A d \in DOMAIN objects : objects[d] \in Inodes => Stays(objects[d])
    BY Zenon DEF Linked, InodesOf
  <2> QED BY <2>1 DEF FilesInv, ObjectsSound, Stays
<1>5. view \in TreesNow /\ \A v \in DOMAIN built : built[v] \in TreesNow
  BY Zenon DEF TreesNow
<1>6. TreesSound(built, view, bytes', late')
  BY <1>2, <1>3, <1>5, Zenon DEF FilesInv, TreesSound
<1>7. ASSUME NEW c \in Calls, call[c].at = "rename"
      PROVE  Whole(call[c].v, call[c].tree, bytes', late')
  <2>1. "tree" \in DOMAIN call[c] /\ call[c].v \in Versions /\ Whole(call[c].v, call[c].tree, bytes, late)
    BY <1>7 DEF FilesInv, Sound
  <2>2. call[c].tree \in TreesNow
    BY <2>1, Zenon DEF TreesNow
  <2> QED BY <1>2, <2>1, <2>2
<1>8. ASSUME NEW c \in Calls, call[c].at = "swap"
      PROVE  SomeWhole(call[c].tree, bytes', late') /\ SomeWhole(call[c].old, bytes', late')
  <2>1. /\ "tree" \in DOMAIN call[c] /\ SomeWhole(call[c].tree, bytes, late)
        /\ "old" \in DOMAIN call[c] /\ SomeWhole(call[c].old, bytes, late)
    BY <1>8 DEF FilesInv, Sound
  <2>2. call[c].tree \in TreesNow /\ call[c].old \in TreesNow
    BY <2>1, Zenon DEF TreesNow
  <2> QED BY <1>3, <2>1, <2>2
<1>9. ASSUME NEW c \in Calls, call[c].at = "place"
      PROVE  Begun(call[c].v, call[c].tree, call[c].todo, bytes', late')
  <2>1. "tree" \in DOMAIN call[c] /\ Begun(call[c].v, call[c].tree, call[c].todo, bytes, late)
    BY <1>9 DEF FilesInv, Sound
  <2>2. call[c].tree \in TreesNow
    BY <2>1, Zenon DEF TreesNow
  <2>3. \A d \in DOMAIN call[c].tree : call[c].tree[d] \in Inodes => Stays(call[c].tree[d])
    BY <1>1, <2>2
  <2> QED BY <2>1, <2>3, BegunStays
<1> QED BY <1>4, <1>6, <1>7, <1>8, <1>9, Zenon

(* A new file takes an inode nothing names. *)
LEMMA FileIsNew ==
  ASSUME FilesInv, NEW i \in FreeInodes, NEW d \in Digests,
         bytes' = [bytes EXCEPT ![i] = d], late \ {i} \subseteq late', UNCHANGED mtime
  PROVE  /\ ObjectsSound(objects, bytes', late') /\ TreesSound(built, view, bytes', late')
         /\ i \in Inodes /\ i # src /\ bytes' \in [Inodes -> Digests] /\ bytes'[i] = d
         /\ \A c \in Calls : Sound(call[c], bytes', mtime', src, late')
<1>1. /\ i \in Inodes /\ i # src /\ bytes' \in [Inodes -> Digests] /\ bytes'[i] = d
      /\ i \notin Linked /\ i \notin Temps
  BY DEF FilesInv, FilesTyped, FreeInodes
<1>2. \A j \in Inodes \ {i} : Stays(j)
  BY DEF Stays, Vouched, FilesInv, FilesTyped
<1>3. \A j \in Linked : j \in Inodes => Stays(j)
  BY <1>1, <1>2
<1>4. ASSUME NEW c \in Calls PROVE Sound(call[c], bytes', mtime', src, late')
  <2>1. Sound(call[c], bytes, mtime, src, late) /\ src \in Inodes
    BY DEF FilesInv, FilesTyped
  <2>2. "tmp" \in DOMAIN call[c] => call[c].tmp # i
    BY <1>1, Zenon DEF Temps
  <2>3. \A e : Vouched(src, e, bytes, late) => Vouched(src, e, bytes', late')
    BY <1>1, <1>2, <2>1 DEF Stays
  <2>4. ASSUME call[c].at \in {"check", "publish", "admit"}
        PROVE  \A e : Vouched(call[c].tmp, e, bytes, late) => Vouched(call[c].tmp, e, bytes', late')
    BY <1>2, <2>1, <2>2, <2>4 DEF Sound, Stays
  <2>5. /\ call[c].at = "place" => Begun(call[c].v, call[c].tree, call[c].todo, bytes', late')
        /\ call[c].at = "rename" => Whole(call[c].v, call[c].tree, bytes', late')
        /\ call[c].at = "swap" => /\ SomeWhole(call[c].tree, bytes', late')
                                  /\ SomeWhole(call[c].old, bytes', late')
    BY <1>3, LinkedStays
  <2> QED BY <2>1, <2>3, <2>4, <2>5 DEF Sound
<1> QED BY <1>1, <1>3, <1>4, LinkedStays, Zenon

(* A copy, a put of bytes and an admission write a file of their own. *)
LEMMA CallWrites ==
  ASSUME FilesInv, NEW c \in Calls,
         PutCopy(c) \/ \E d \in Digests : PutBytes(c, d) \/ AdmitMove(c, d)
  PROVE  FilesInv'
<1>1. UNCHANGED <<mtime, src, objects, built, view>>
  BY Zenon DEF PutCopy, PutBytes, AdmitMove, trees
<1>2. PICK d \in Digests, e \in Digests :
         /\ NewFile(d)
         /\ \E x \in {[at |-> "publish", tmp |-> NewInode, digest |-> d],
                     [at |-> "admit", tmp |-> NewInode, digest |-> e]} : Goto(c, x)
  <2>1. bytes[src] \in Digests
    BY DEF FilesInv, FilesTyped
  <2> QED BY <2>1, Zenon DEF PutCopy, PutBytes, AdmitMove, Arrive
<1>9. PICK r \in {[at |-> "publish", tmp |-> NewInode, digest |-> d],
                 [at |-> "admit", tmp |-> NewInode, digest |-> e]} : Goto(c, r)
  BY <1>2
<1>3. NewInode \in FreeInodes
  BY <1>2 DEF NewInode, Fresh, NewFile
<1>4. /\ ObjectsSound(objects, bytes', late') /\ TreesSound(built, view, bytes', late')
      /\ NewInode \in Inodes /\ bytes' \in [Inodes -> Digests] /\ bytes'[NewInode] = d
      /\ \A x \in Calls : Sound(call[x], bytes', mtime', src, late')
  <2> DEFINE i == NewInode
  <2>1. i \in FreeInodes /\ bytes' = [bytes EXCEPT ![i] = d] /\ late \ {i} \subseteq late'
    BY <1>2, <1>3 DEF NewFile
  <2> HIDE DEF i
  <2>2. /\ ObjectsSound(objects, bytes', late') /\ TreesSound(built, view, bytes', late')
        /\ i \in Inodes /\ bytes' \in [Inodes -> Digests] /\ bytes'[i] = d
        /\ \A x \in Calls : Sound(call[x], bytes', mtime', src, late')
    BY <1>1, <2>1, FileIsNew
  <2> QED BY <2>2 DEF i
<1>5. Sound(r, bytes', mtime', src, late')
  BY <1>4, <1>9 DEF Sound, Vouched
<1>6. DOMAIN call' = Calls /\ call'[c] = r /\ \A x \in Calls \ {c} : call'[x] = call[x]
  BY <1>9 DEF Goto, FilesInv
<1>7. \A x \in Calls : Sound(call'[x], bytes', mtime', src', late')
  BY <1>1, <1>4, <1>5, <1>6
<1>8. ObjectsSound(objects', bytes', late') /\ TreesSound(built', view', bytes', late') /\ FilesTyped'
  BY <1>1, <1>4 DEF FilesInv, FilesTyped
<1> QED BY <1>6, <1>7, <1>8 DEF FilesInv

(* A file of a tree is copied: the copy is as good as the object it is of. *)
LEMMA FileCopied ==
  ASSUME FilesInv, NEW c \in Calls, At(c, "place"),
         UNCHANGED <<mtime, src, objects, built, view>>,
         NEW d \in call[c].todo, PlaceCopy(c, d)
  PROVE  FilesInv'
<1> DEFINE i == NewInode
           e == bytes[objects[d]]
           r == [call[c] EXCEPT !.todo = @ \ {d}, !.tree = With(@, d, i)]
<1>1. objects[d] \in Inodes /\ Vouched(objects[d], d, bytes, late) /\ e \in Digests
  BY DEF PlaceCopy, FilesInv, ObjectsSound, FilesTyped
<1>2. /\ i \in FreeInodes /\ bytes' = [bytes EXCEPT ![i] = e] /\ Goto(c, r)
      /\ late' = IF objects[d] \in late THEN late \cup {i} ELSE late \ {i}
  BY DEF PlaceCopy, NextPlaced, NewInode, Fresh
<1> HIDE DEF i, e
<1>3. late \ {i} \subseteq late'
  BY <1>2
<1>4. /\ ObjectsSound(objects, bytes', late') /\ TreesSound(built, view, bytes', late')
      /\ i \in Inodes /\ bytes' \in [Inodes -> Digests] /\ bytes'[i] = e
      /\ \A x \in Calls : Sound(call[x], bytes', mtime', src, late')
  BY <1>1, <1>2, <1>3, FileIsNew
<1>5. Vouched(i, d, bytes', late')
  BY <1>1, <1>2, <1>4 DEF Vouched, e
<1>6. Sound(r, bytes', mtime', src, late')
  BY <1>4, <1>5, OneMorePlaced DEF At
<1> HIDE DEF r
<1>7. DOMAIN call' = Calls /\ call'[c] = r /\ \A x \in Calls \ {c} : call'[x] = call[x]
  BY <1>2 DEF Goto, FilesInv
<1>8. \A x \in Calls : Sound(call'[x], bytes', mtime', src', late')
  BY <1>4, <1>6, <1>7
<1>9. ObjectsSound(objects', bytes', late') /\ TreesSound(built', view', bytes', late') /\ FilesTyped'
  BY <1>4 DEF FilesInv, FilesTyped
<1> QED BY <1>7, <1>8, <1>9 DEF FilesInv

LEMMA FilesPlaced == ASSUME FilesInv, NEW c \in Calls, Place(c) PROVE FilesInv'
<1>1. At(c, "place") /\ UNCHANGED <<mtime, src, objects, built, view>>
  BY DEF Place, trees
<1> QED BY <1>1, FilesLinked, FileCopied, Zenon DEF Place

(* Somebody swaps the source: a file no put has looked at refutes every     *)
(* comparison under way, and one that was looked at before is in `late`.    *)
LEMMA SourceSwapped == FilesInv /\ Swap => FilesInv'
<1> SUFFICES ASSUME FilesInv, Swap PROVE FilesInv'
  OBVIOUS
<1>1. PICK i \in FreeInodes, d \in Digests :
         /\ bytes' = [bytes EXCEPT ![i] = d]
         /\ late' = IF i \in Statted THEN late \cup {i} ELSE late \ {i}
         /\ src' = i
  BY Zenon DEF Swap
<1>2. UNCHANGED <<mtime, objects, built, view, call>>
  BY DEF Swap, trees
<1>3. /\ ObjectsSound(objects, bytes', late') /\ TreesSound(built, view, bytes', late')
      /\ i \in Inodes /\ bytes' \in [Inodes -> Digests]
      /\ \A c \in Calls : Sound(call[c], bytes', mtime', src, late')
  <2>1. late \ {i} \subseteq late'
    BY <1>1
  <2> QED BY <1>1, <1>2, <2>1, FileIsNew
<1>4. ASSUME NEW c \in Calls PROVE Sound(call'[c], bytes', mtime', src', late')
  <2>1. Sound(call[c], bytes', mtime', src, late')
    BY <1>3
  <2>2. "before" \in DOMAIN call[c] => call[c].before.inode \in Statted
    BY Zenon DEF Statted
  <2>3. (call[c].at = "link" /\ call[c].before.inode = i) => i \in late'
    BY <1>1, <2>1, <2>2 DEF Sound
  <2>4. Sound(call[c], bytes', mtime', i, late')
    BY <2>1, <2>3 DEF Sound, Vouched
  <2> QED BY <1>1, <1>2, <2>4
<1>5. ObjectsSound(objects', bytes', late') /\ TreesSound(built', view', bytes', late') /\ FilesTyped'
  BY <1>1, <1>2, <1>3 DEF FilesInv, FilesTyped
<1> QED BY <1>2, <1>4, <1>5 DEF FilesInv

(* Somebody writes into the source: its time moves on, so a put that has    *)
(* still to compare it fails, or does not, and then every put that looked   *)
(* at it finds it in `late`, as one that has compared it does anyway.       *)
LEMMA SourceWritten == FilesInv /\ WriteInPlace => FilesInv'
<1> SUFFICES ASSUME FilesInv, WriteInPlace PROVE FilesInv'
  OBVIOUS
<1>1. PICK d \in Digests : bytes' = [bytes EXCEPT ![src] = d]
  BY DEF WriteInPlace
<1>2. UNCHANGED <<src, objects, built, view, call>>
  BY DEF WriteInPlace, trees
<1>3. /\ FilesTyped /\ FilesTyped' /\ late \subseteq late'
      /\ mtime'[src] = mtime[src] + 1 \/ (mtime' = mtime /\ (src \in Statted => src \in late'))
      /\ \A j \in Inodes \ {src} : mtime'[j] = mtime[j]
  BY <1>1 DEF WriteInPlace, FilesInv, FilesTyped
<1>4. \A j \in Inodes : j # src \/ j \in Looked => Stays(j)
  BY <1>1, <1>3 DEF Stays, Vouched, FilesTyped, WriteInPlace
<1>5. \A j \in Linked : j \in Inodes => Stays(j)
  BY <1>4 DEF Looked
<1>6. ASSUME NEW c \in Calls PROVE Sound(call[c], bytes', mtime', src, late')
  <2>1. Sound(call[c], bytes, mtime, src, late)
    BY DEF FilesInv
  <2>2. call[c].at = "publish" => call[c].tmp \in Looked
    BY Zenon DEF Looked
  <2>3. call[c].at = "publish" => Vouched(call[c].tmp, call[c].digest, bytes', late')
    BY <1>4, <2>1, <2>2 DEF Sound, Stays
  <2>4. call[c].at \in {"hash", "link", "check"} => call[c].before.mtime <= mtime'[call[c].before.inode]
    BY <1>3, <2>1 DEF Sound, FilesTyped
  <2>8. "before" \in DOMAIN call[c] => call[c].before.inode \in Statted
    BY Zenon DEF Statted
  <2>5. (call[c].at = "link" /\ call[c].before.inode = src /\ call[c].before.mtime = mtime'[src])
          => src \in late'
    BY <1>3, <2>1, <2>8 DEF Sound, FilesTyped
  <2>6. (call[c].at = "check" /\ call[c].before.inode = call[c].tmp
                              /\ call[c].before.mtime = mtime'[call[c].tmp])
          => Vouched(call[c].tmp, call[c].digest, bytes', late')
    <3> SUFFICES ASSUME call[c].at = "check", call[c].before.inode = call[c].tmp,
                        call[c].before.mtime = mtime'[call[c].tmp]
                 PROVE  Vouched(call[c].tmp, call[c].digest, bytes', late')
      OBVIOUS
    <3>1. call[c].tmp \in Inodes /\ (call[c].tmp = src => src \in late')
      BY <1>3, <2>1, <2>8 DEF Sound, FilesTyped
    <3>2. CASE call[c].tmp = src
      BY <3>1, <3>2 DEF Vouched
    <3>3. CASE call[c].tmp # src
      BY <1>3, <1>4, <2>1, <3>1, <3>3 DEF Sound, Stays
    <3> QED BY <3>2, <3>3
  <2>7. /\ call[c].at = "place" => Begun(call[c].v, call[c].tree, call[c].todo, bytes', late')
        /\ call[c].at = "rename" => Whole(call[c].v, call[c].tree, bytes', late')
        /\ call[c].at = "swap" => /\ SomeWhole(call[c].tree, bytes', late')
                                  /\ SomeWhole(call[c].old, bytes', late')
    BY <1>5, LinkedStays
  <2>9. (call[c].at = "link" /\ call[c].before.inode = src /\ call[c].before.mtime = mtime'[src])
          => Vouched(src, call[c].digest, bytes', late')
    BY <2>5 DEF Vouched
  <2> QED BY <2>1, <2>3, <2>4, <2>6, <2>7, <2>9 DEF Sound
<1>7. ObjectsSound(objects, bytes', late') /\ TreesSound(built, view, bytes', late')
  BY <1>5, LinkedStays, Zenon
<1>8. /\ ObjectsSound(objects', bytes', late') /\ TreesSound(built', view', bytes', late')
      /\ \A c \in Calls : Sound(call'[c], bytes', mtime', src', late')
  BY <1>2, <1>6, <1>7
<1> QED BY <1>2, <1>3, <1>8 DEF FilesInv

(* A crash ends every call; opening again reads the document only. *)
LEMMA FilesSurvive == FilesInv /\ (Crash \/ Open) => FilesInv'
<1> SUFFICES ASSUME FilesInv, Crash \/ Open PROVE FilesInv'
  OBVIOUS
<1>1. UNCHANGED <<bytes, mtime, src, late, objects, built, view>>
  BY DEF Crash, Open, files, trees
<1>2. DOMAIN call' = Calls /\ \A c \in Calls : call'[c] \in {call[c], Idle}
  BY DEF Crash, Open, FilesInv
<1>3. ASSUME NEW c \in Calls PROVE Sound(call'[c], bytes', mtime', src', late')
  <2>1. Sound(call[c], bytes, mtime, src, late) /\ Sound(Idle, bytes, mtime, src, late)
    BY BareIsSound DEF FilesInv
  <2>2. Sound(call'[c], bytes, mtime, src, late)
    BY <1>2, <2>1
  <2> QED BY <1>1, <2>2
<1>4. ObjectsSound(objects', bytes', late') /\ TreesSound(built', view', bytes', late') /\ FilesTyped'
  BY <1>1 DEF FilesInv, FilesTyped
<1> QED BY <1>2, <1>3, <1>4 DEF FilesInv

(* The document.  The call that writes it holds the mutex, memory has what  *)
(* the disk has and more, and the version being added is in memory.         *)
DocInv ==
    /\ mem \in Doc /\ disk \in Doc
    /\ disk.versions \subseteq mem.versions /\ acked \subseteq disk.versions \cup unsaved
    /\ \A c \in Calls : call[c].at = "persist" =>
          open /\ doclock = c /\ (call[c].op = "add" => call[c].v \in mem.versions)
    /\ (open /\ doclock = 0 /\ ~diverged) => mem = disk

(* A root as it is opened: what is in memory is what is on disk. *)
LEMMA DocInit == Init => DocInv
<1> SUFFICES ASSUME Init PROVE DocInv
  OBVIOUS
<1>1. PICK vs \in {{}, Versions} : \E cur \in vs \cup {None} :
         mem = [versions |-> vs, current |-> cur, kept |-> FALSE]
  BY Zenon DEF Init
<1>2. mem \in Doc
  BY <1>1 DEF Doc
<1>3. \A c \in Calls : call[c].at = "idle"
  BY DEF Init, Idle
<1> QED BY <1>2, <1>3 DEF Init, DocInv

(* A step that leaves the document alone, and puts no call inside it. *)
LEMMA DocAlone ==
  ASSUME DocInv, UNCHANGED <<mem, disk, doclock, acked, unsaved, diverged, open>>,
         \A c \in Calls : call'[c].at = "persist" => call'[c] = call[c]
  PROVE  DocInv'
BY DEF DocInv

(* The change in memory, under the mutex. *)
LEMMA DocMutated ==
  ASSUME DocInv, FilesInv, NEW c \in Calls, Mutate(c)
  PROVE  DocInv'
<1> DEFINE r == call[c]
<1>1. r.at = "mutate" /\ r.v \in Versions /\ doclock = 0 /\ open /\ "at" \in DOMAIN r
  BY DEF Mutate, At, FilesInv, Sound
<1>2. \A x \in Calls : call[x].at # "persist"
  BY <1>1, StoreAssumption DEF DocInv
<1>3. CASE /\ Refused(r) \/ Written(r) = mem
           /\ Goto(c, Idle) /\ UNCHANGED docs
           /\ acked' = acked \cup (IF r.op = "add" THEN {r.v} ELSE {})
           /\ unsaved' = IF diverged THEN unsaved \cup (IF r.op = "add" THEN {r.v} ELSE {})
                        ELSE unsaved
  <2>1. \A x \in Calls : call'[x].at # "persist"
    BY <1>2, <1>3 DEF Goto, Idle, FilesInv
  <2>2. UNCHANGED <<mem, disk, doclock, diverged, open>>
    BY <1>3 DEF Mutate, docs
  <2>3. r.op = "add" => r.v \in mem.versions
    <3> SUFFICES ASSUME r.op = "add" PROVE r.v \in mem.versions
      OBVIOUS
    <3>1. Written(r) = mem
      BY <1>3 DEF Refused
    <3>2. Written(r).versions = mem.versions \cup {r.v}
      BY DEF Written, DocInv, Doc
    <3> QED BY <3>1, <3>2
  <2>4. ~diverged => mem = disk
    BY <1>1 DEF DocInv
  <2>5. acked' \subseteq disk.versions \cup unsaved'
    BY <1>3, <2>3, <2>4 DEF DocInv
  <2> QED BY <2>1, <2>2, <2>5 DEF DocInv
<1>4. CASE /\ mem' = Written(r) /\ doclock' = c /\ UNCHANGED disk
           /\ Goto(c, [r EXCEPT !.at = "persist"]) /\ UNCHANGED <<acked, unsaved>>
  <2>1. /\ Written(r) \in Doc /\ mem.versions \subseteq Written(r).versions
        /\ r.op = "add" => r.v \in Written(r).versions
    <3>1. CASE r.op = "current"
      BY <1>1, <3>1 DEF Written, Doc, DocInv
    <3>2. CASE r.op = "keep"
      BY <1>1, <3>2 DEF Written, Doc, DocInv
    <3>3. CASE r.op # "current" /\ r.op # "keep"
      BY <1>1, <3>3 DEF Written, Doc, DocInv
    <3> QED BY <3>1, <3>2, <3>3
  <2>2. call'[c] = [r EXCEPT !.at = "persist"] /\ \A x \in Calls \ {c} : call'[x] = call[x]
    BY <1>4 DEF Goto, FilesInv
  <2>3. call'[c].op = r.op /\ call'[c].v = r.v
    BY <2>2
  <2>4. doclock' # 0
    BY <1>4, StoreAssumption
  <2>5. UNCHANGED <<acked, unsaved, diverged, open>>
    BY <1>4 DEF Mutate
  <2> QED BY <1>1, <1>2, <1>4, <2>1, <2>2, <2>3, <2>4, <2>5 DEF DocInv
<1> QED BY <1>3, <1>4 DEF Mutate

(* The save, or its failure with what is on disk put back, or not. *)
LEMMA DocSaved ==
  ASSUME DocInv, FilesInv, NEW c \in Calls, Persist(c) \/ PersistFails(c)
  PROVE  DocInv'
<1>1. call[c].at = "persist" /\ open
  BY DEF Persist, PersistFails, At
<1>2. \A x \in Calls : call'[x].at # "persist"
  <2>1. Goto(c, Idle)
    BY DEF Persist, PersistFails
  <2>2. call'[c] = Idle /\ \A x \in Calls \ {c} : call'[x] = call[x]
    BY <2>1 DEF Goto, FilesInv
  <2>3. \A x \in Calls \ {c} : call[x].at # "persist"
    BY <1>1 DEF DocInv
  <2> QED BY <2>2, <2>3 DEF Idle
<1>3. CASE Persist(c)
  BY <1>1, <1>2, <1>3 DEF Persist, DocInv
<1>4. CASE PersistFails(c)
  BY <1>1, <1>2, <1>4 DEF PersistFails, Reloaded, DocInv
<1> QED BY <1>3, <1>4

(* The rest. *)
LEMMA DocNext ==
  ASSUME DocInv, FilesInv, Next
  PROVE  DocInv'
<1>1. CASE Open
  <2>1. UNCHANGED <<disk, doclock, acked, unsaved, call>> /\ mem' = disk
    BY <1>1 DEF Open
  <2>2. \A c \in Calls : call[c].at # "persist"
    BY <1>1 DEF Open, DocInv
  <2> QED BY <2>1, <2>2 DEF DocInv
<1>2. CASE Crash
  <2>1. \A c \in Calls : call'[c].at # "persist"
    BY <1>2 DEF Crash, Idle
  <2> QED BY <1>2, <2>1 DEF Crash, DocInv
<1>3. CASE Swap \/ WriteInPlace
  BY <1>3, DocAlone DEF Swap, WriteInPlace, docs
<1>4. ASSUME NEW c \in Calls, NEW r, Goto(c, r), r.at # "persist",
             UNCHANGED <<mem, disk, doclock, acked, unsaved, diverged, open>>
      PROVE  DocInv'
  <2>1. call'[c] = r /\ \A x \in Calls \ {c} : call'[x] = call[x]
    BY <1>4 DEF Goto, FilesInv
  <2> QED BY <1>4, <2>1, DocAlone
<1>5. ASSUME NEW c \in Calls,
             PutFile(c) \/ PutHash(c) \/ PutLink(c) \/ PutCheck(c) \/ PutCopy(c)
               \/ AdmitHash(c) \/ Publish(c)
      PROVE  DocInv'
  <2>1. UNCHANGED <<mem, disk, doclock, acked, unsaved, diverged, open>>
    BY <1>5, Zenon DEF PutFile, PutHash, PutLink, PutCheck, PutCopy, AdmitHash, Publish, docs
  <2>2. "at" \in DOMAIN call[c]
    BY DEF FilesInv, Sound
  <2>3. [call[c] EXCEPT !.at = "publish"].at = "publish"
    BY <2>2
  <2>4. \E r : Goto(c, r) /\ r.at # "persist"
    <3>1. CASE PutFile(c)
      BY <3>1 DEF PutFile, Arrive
    <3>2. CASE PutHash(c)
      BY <3>2 DEF PutHash, Idle
    <3>3. CASE PutLink(c)
      BY <3>3 DEF PutLink, Idle
    <3>4. CASE PutCheck(c)
      BY <3>4 DEF PutCheck, Idle
    <3>5. CASE PutCopy(c) \/ Publish(c)
      BY <3>5 DEF PutCopy, Publish, Idle
    <3>6. CASE AdmitHash(c)
      <4>1. Goto(c, [call[c] EXCEPT !.at = "publish"]) \/ Goto(c, Idle)
        BY <3>6 DEF AdmitHash
      <4>2. Idle.at # "persist" /\ [call[c] EXCEPT !.at = "publish"].at # "persist"
        BY <2>3 DEF Idle
      <4> QED BY <4>1, <4>2, Zenon
    <3> QED BY <1>5, <3>1, <3>2, <3>3, <3>4, <3>5, <3>6
  <2> QED BY <1>4, <2>1, <2>4
<1>6. ASSUME NEW c \in Calls, NEW d \in Digests, PutBytes(c, d) \/ AdmitMove(c, d)
      PROVE  DocInv'
  <2>1. UNCHANGED <<mem, disk, doclock, acked, unsaved, diverged, open>>
    BY <1>6, Zenon DEF PutBytes, AdmitMove, docs
  <2>2. \E r : Goto(c, r) /\ r.at # "persist"
    BY <1>6 DEF PutBytes, AdmitMove, Arrive
  <2> QED BY <1>4, <2>1, <2>2
<1>7. ASSUME NEW c \in Calls, NEW v \in Versions, AddVersion(c, v) \/ Edit(c, v) \/ Buildable(c, v)
      PROVE  DocInv'
  <2>1. UNCHANGED <<mem, disk, doclock, acked, unsaved, diverged, open>>
    BY <1>7, Zenon DEF AddVersion, Edit, Buildable, docs
  <2>2. \E r : Goto(c, r) /\ r.at # "persist"
    <3>1. \A x, y : [at |-> "mutate", op |-> x, v |-> v, cur |-> y].at # "persist"
      OBVIOUS
    <3>2. \A x, y : [at |-> "make", v |-> v, into |-> x, exists |-> y].at # "persist"
      OBVIOUS
    <3>3. CASE AddVersion(c, v) \/ Edit(c, v)
      BY <3>1, <3>3, Zenon DEF AddVersion, Edit, Arrive
    <3>4. CASE Buildable(c, v)
      BY <3>2, <3>4, Zenon DEF Buildable, Arrive
    <3> QED BY <1>7, <3>3, <3>4
  <2> QED BY <1>4, <2>1, <2>2
<1>8. ASSUME NEW c \in Calls, NEW v \in Versions, Unbuild(c, v) PROVE DocInv'
  BY <1>8, DocAlone DEF Unbuild, docs
<1>9. ASSUME NEW c \in Calls, GcCatalog(c) \/ GcBuilt(c) \/ GcList(c) \/ GcRemove(c)
      PROVE  DocInv'
  <2>1. UNCHANGED <<mem, disk, doclock, acked, unsaved, diverged, open>>
    BY <1>9, Zenon DEF GcCatalog, GcBuilt, GcList, GcRemove, docs
  <2>2. call[c].at = "gcRemove" => \A d : [call[c] EXCEPT !.todo = @ \ {d}].at = "gcRemove"
    BY DEF FilesInv, Sound
  <2>3. \E r : Goto(c, r) /\ r.at # "persist"
    <3>1. CASE GcCatalog(c) \/ GcBuilt(c) \/ GcList(c)
      BY <3>1 DEF GcCatalog, GcBuilt, GcList, Arrive
    <3>2. CASE GcRemove(c)
      <4>1. Goto(c, Idle) \/ \E d : Goto(c, [call[c] EXCEPT !.todo = @ \ {d}])
        BY <3>2 DEF GcRemove
      <4>2. Idle.at # "persist" /\ \A d : [call[c] EXCEPT !.todo = @ \ {d}].at # "persist"
        BY <2>2, <3>2 DEF GcRemove, At, Idle
      <4> QED BY <4>1, <4>2, Zenon
    <3> QED BY <1>9, <3>1, <3>2
  <2> QED BY <1>4, <2>1, <2>3
<1>11. ASSUME NEW c \in Calls, Place(c) PROVE DocInv'
  <2>1. UNCHANGED <<mem, disk, doclock, acked, unsaved, diverged, open>> /\ call[c].at = "place"
    BY <1>11, Zenon DEF Place, At, docs
  <2>2. "at" \in DOMAIN call[c]
    BY DEF FilesInv, Sound
  <2>3. \A d, i : [call[c] EXCEPT !.todo = @ \ {d}, !.tree = With(@, d, i)].at = "place"
    BY <2>1, <2>2
  <2>4. \/ Goto(c, Idle)
        \/ \E d, i : Goto(c, [call[c] EXCEPT !.todo = @ \ {d}, !.tree = With(@, d, i)])
        \/ Goto(c, [at |-> "rename", v |-> call[c].v, into |-> call[c].into,
                    exists |-> call[c].exists, tree |-> call[c].tree])
    BY <1>11, Zenon DEF Place, PlaceLink, PlaceCopy, PlaceFails, NextPlaced
  <2>5. \E r : Goto(c, r) /\ r.at # "persist"
    <3>1. CASE Goto(c, Idle)
      BY <3>1 DEF Idle
    <3>2. ASSUME NEW d, NEW i,
                 Goto(c, [call[c] EXCEPT !.todo = @ \ {d}, !.tree = With(@, d, i)])
          PROVE  \E r : Goto(c, r) /\ r.at # "persist"
      <4>1. [call[c] EXCEPT !.todo = @ \ {d}, !.tree = With(@, d, i)].at # "persist"
        BY <2>3
      <4> QED BY <3>2, <4>1, Zenon
    <3>3. CASE Goto(c, [at |-> "rename", v |-> call[c].v, into |-> call[c].into,
                        exists |-> call[c].exists, tree |-> call[c].tree])
      BY <3>3
    <3> QED BY <2>4, <3>1, <3>2, <3>3
  <2> QED BY <1>4, <2>1, <2>5
<1>10. ASSUME NEW c \in Calls, Materialize(c) \/ Rename(c) \/ SwapIn(c) PROVE DocInv'
  <2>1. UNCHANGED <<mem, disk, doclock, acked, unsaved, diverged, open>>
    BY <1>10, Zenon DEF Materialize, Rename, SwapIn, docs
  <2>2. \E r : Goto(c, r) /\ r.at # "persist"
    BY <1>10 DEF Materialize, Rename, SwapIn, Idle
  <2> QED BY <1>4, <2>1, <2>2
<1> QED BY <1>1, <1>2, <1>3, <1>5, <1>6, <1>7, <1>8, <1>9, <1>10, <1>11, DocMutated, DocSaved, Zenon DEF Next

(* However its calls overlap, and whatever crashes: an object has the bytes *)
(* its name says (but for the ways past put_by_link's comparison), a folder   *)
(* that is there is a whole version, and what a listener can read of the     *)
(* document, and every version add_version returned for, is on disk, unless *)
(* a failed write of the document could not be undone either.                *)
THEOREM DriveStaysSound == Spec => []DriveIsSound
<1>1. Init => FilesInv /\ DocInv
  BY FilesInit, DocInit
<1>2. FilesInv /\ DocInv /\ [Next]_vars => FilesInv' /\ DocInv'
  <2> SUFFICES ASSUME FilesInv, DocInv, [Next]_vars PROVE FilesInv' /\ DocInv'
    OBVIOUS
  <2>1. CASE UNCHANGED vars
    <3>1. UNCHANGED <<bytes, mtime, src, late, objects, built, view, call>>
      BY <2>1 DEF vars, files, trees
    <3>2. UNCHANGED <<mem, disk, doclock, acked, unsaved, diverged, open, call>>
      BY <2>1 DEF vars, docs
    <3>3. FilesInv'
      BY <3>1 DEF FilesInv, FilesTyped
    <3> QED BY <3>2, <3>3, DocAlone
  <2>2. CASE Next
    <3>1. FilesInv'
      BY <2>2, SourceSwapped, SourceWritten, FilesSurvive, PutLooks, OthersLook, ObjectsChange,
         TreesChange, CallWrites, FilesPlaced, Zenon DEF Next
    <3> QED BY <2>2, <3>1, DocNext
  <2> QED BY <2>1, <2>2
<1>3. FilesInv /\ DocInv => DriveIsSound
  <2> SUFFICES ASSUME FilesInv, DocInv PROVE DriveIsSound
    OBVIOUS
  <2>1. ObjectIsItsName
    BY DEF ObjectIsItsName, Right, FilesInv, ObjectsSound, Vouched
  <2>2. \A v, t : Whole(v, t, bytes, late) => DOMAIN t = Names[v] /\ Right(t)
    BY DEF Whole, Right, Vouched
  <2>3. BuiltIsWhole
    BY <2>2, Zenon DEF BuiltIsWhole, FilesInv, TreesSound, SomeWhole
  <2>4. ReadIsSaved
    BY DEF ReadIsSaved, DocInv
  <2> QED BY <2>1, <2>3, <2>4 DEF DriveIsSound
<1> QED BY <1>1, <1>2, <1>3, PTL DEF Spec

-----------------------------------------------------------------------------
(* The undo journal, when calls are made one at a time and other programs   *)
(* change nothing while one is under way.                                   *)

UndoFiles == [ino : UndoInodes \cup {0}, len : {0, 1}, gen : Nat]
Disks == [UndoNames -> UndoFiles]
Slots == 1..MaxUndoOps
Ways == {"rename", "move", "overwrite"}
Journaled == [kind : {"create", "rename", "delete"}, eid : Nat, from : UndoNames, to : UndoNames,
              fs : [ino : UndoInodes \cup {0}, len : {0, 1}], gen : Nat, slot : Nat,
              before : Disks, after : Disks]

(* A file with this inode number is the one that had it when it was pinned. *)
Sole(i, g, d, r) ==
    /\ \A n \in UndoNames : d[n].ino = i => d[n].gen = g
    /\ \A k \in Slots : r[k].ino = i => r[k].gen = g

(* What the journal knows of an operation is what the operation did, and    *)
(* what its undo needs is still there, or was used.                         *)
Faithful(e, d, r, o) ==
    /\ e.kind = "create" =>
          /\ e.before[e.to] = Undo!None /\ e.after = [e.before EXCEPT ![e.to] = e.after[e.to]]
          /\ e.fs.ino # 0 /\ Sole(e.fs.ino, e.gen, d, r)
    /\ e.kind = "rename" =>
          /\ e.from # e.to /\ e.before[e.to] = Undo!None
          /\ e.after = [e.before EXCEPT ![e.from] = Undo!None, ![e.to] = e.before[e.from]]
    /\ e.kind = "delete" =>
          /\ e.slot \in 1..o /\ e.after = [e.before EXCEPT ![e.from] = Undo!None]
          /\ r[e.slot] \in {e.before[e.from], Undo!None}

UndoTyped ==
    /\ ujDisk \in Disks /\ recycle \in [Slots -> UndoFiles] /\ store \in [UndoNames -> Nat]
    /\ journal \in Seq(Journaled) /\ ujOps \in 0..MaxUndoOps /\ serial \in Nat
    /\ ujCall = [c \in UndoCalls |-> ujCall[c]]

JournalIsFaithful == \A i \in 1..Len(journal) : Faithful(journal[i], ujDisk, recycle, ujOps)

(* Where a call is, and what it knows of the disk there. *)
CreateChecked(k) == \E n \in UndoNames : k = [op |-> "create", at |-> "checked", to |-> n]
CreateDone(k) ==
    \E n \in UndoNames, b \in Disks :
       /\ k = [op |-> "create", at |-> "done", to |-> n, before |-> b]
       /\ b[n] = Undo!None /\ ujDisk = [b EXCEPT ![n] = ujDisk[n]]
       /\ ujDisk[n].ino # 0 /\ Sole(ujDisk[n].ino, ujDisk[n].gen, ujDisk, recycle)
RenameKnows(at, n, m, by, b) ==
    /\ at = "checked" /\ by # "overwrite" => ujDisk[m] = Undo!None
    /\ at = "cleared" => ujDisk[m] = Undo!None
    /\ at \in {"renamed", "done"} => /\ by # "overwrite" => b[m] = Undo!None
                                    /\ ujDisk = [b EXCEPT ![n] = Undo!None, ![m] = b[n]]
RenamePlace(k) ==
    \E at \in {"checked", "rowless", "cleared", "renamed", "refused", "done"},
       n \in UndoNames, m \in UndoNames, i \in Nat, by \in Ways, b \in Disks :
       /\ k = [op |-> "rename", at |-> at, eid |-> i, from |-> n, to |-> m, by |-> by, before |-> b]
       /\ n # m /\ RenameKnows(at, n, m, by, b)
DeletePlace(k) ==
    \E at \in {"checked", "done"}, n \in UndoNames, i \in Nat, trash \in BOOLEAN, b \in Disks :
       /\ k = [op |-> "delete", at |-> at, eid |-> i, from |-> n, trash |-> trash, slot |-> ujOps, before |-> b]
       /\ ujOps \in Slots
       /\ \A j \in 1..Len(journal) : journal[j].kind = "delete" => journal[j].slot # ujOps
       /\ at = "done" => /\ ujDisk = [b EXCEPT ![n] = Undo!None]
                         /\ trash => recycle[ujOps] = b[n]
UndoChecked(k) ==
    \E e \in Journaled :
       /\ k = [op |-> "undo", at |-> "checked", entry |-> e]
       /\ e.kind = "create" => Undo!PinnedMatches(e)
       /\ e.kind = "delete" => e.slot \in Slots
UndoDone(k) ==
    \E at \in {"returned", "done"}, e \in Journaled : k = [op |-> "undo", at |-> at, entry |-> e]

AtPlace(k) ==
    \/ k = Undo!Idle
    \/ CreateChecked(k) \/ CreateDone(k) \/ RenamePlace(k) \/ DeletePlace(k)
    \/ UndoChecked(k) \/ UndoDone(k)

UndoInv == UndoTyped /\ JournalIsFaithful /\ \A c \in UndoCalls : AtPlace(ujCall[c])

OneAtATime == ~MidCall /\ \A c, d \in UndoCalls : c = d

(* No file, and what is known of it. *)
LEMMA NoFile == Undo!None \in UndoFiles /\ Undo!None.ino = 0 /\ \A f \in UndoFiles : f.ino # 0 => f # Undo!None
BY DEF Undo!None, UndoFiles

(* One file, nothing journaled and no call. *)
LEMMA UndoInitInv == Undo!Init => UndoInv
<1> SUFFICES ASSUME Undo!Init PROVE UndoInv
  OBVIOUS
<1>1. PICK n \in UndoNames :
        /\ ujDisk = [m \in UndoNames |-> IF m = n THEN [ino |-> CHOOSE i \in UndoInodes : TRUE, len |-> 1, gen |-> 1]
                                         ELSE Undo!None]
        /\ store = [m \in UndoNames |-> IF m = n THEN 1 ELSE 0]
  BY DEF Undo!Init
<1>2. (CHOOSE i \in UndoInodes : TRUE) \in UndoInodes
  BY UndoAssumption
<1>3. [ino |-> CHOOSE i \in UndoInodes : TRUE, len |-> 1, gen |-> 1] \in UndoFiles
  BY <1>2 DEF UndoFiles
<1>4. ujDisk \in Disks
  BY <1>1, <1>3, NoFile DEF Disks
<1>5. recycle \in [Slots -> UndoFiles] /\ journal = <<>> /\ ujOps = 0 /\ serial = 1
  BY NoFile DEF Undo!Init, Slots
<1>6. journal \in Seq(Journaled) /\ Len(journal) = 0
  BY <1>5
<1>7. ujCall = [c \in UndoCalls |-> Undo!Idle]
  BY DEF Undo!Init
<1>8. UndoTyped
  BY <1>1, <1>4, <1>5, <1>6, <1>7, UndoAssumption DEF UndoTyped
<1>9. JournalIsFaithful
  BY <1>6 DEF JournalIsFaithful
<1>10. \A c \in UndoCalls : AtPlace(ujCall[c])
  BY <1>7 DEF AtPlace
<1> QED
  BY <1>8, <1>9, <1>10 DEF UndoInv

(* What enters a full journal drops the oldest entry and changes no other. *)
LEMMA PushedKeeps ==
    ASSUME journal \in Seq(Journaled), NEW e \in Journaled
    PROVE  /\ Undo!Pushed(e) \in Seq(Journaled)
           /\ \A i \in 1..Len(Undo!Pushed(e)) :
                 Undo!Pushed(e)[i] = e \/ \E j \in 1..Len(journal) : Undo!Pushed(e)[i] = journal[j]
<1> DEFINE grown == Append(journal, e)
           n == Undo!Min({Capacity, Len(grown)})
           m == Len(grown) - n + 1
<1>1. /\ grown \in Seq(Journaled) /\ Len(grown) = Len(journal) + 1 /\ Len(journal) \in Nat
      /\ \A j \in 1..Len(grown) : grown[j] = e \/ (j \in 1..Len(journal) /\ grown[j] = journal[j])
  OBVIOUS
<1>2. n \in Nat /\ n <= Len(grown)
  <2>1. \E x \in {Capacity, Len(grown)} : \A y \in {Capacity, Len(grown)} : x =< y
    BY <1>1, UndoAssumption
  <2>2. n \in {Capacity, Len(grown)} /\ \A y \in {Capacity, Len(grown)} : n =< y
    BY <2>1 DEF Undo!Min
  <2> QED
    BY <1>1, <2>2, UndoAssumption
<1> HIDE DEF n
<1>3. m \in Int /\ Len(grown) \in Int /\ m >= 1 /\ Len(grown) - m + 1 = n
  BY <1>1, <1>2
<1>4. \A j \in m..Len(grown) : grown[j] \in Journaled
  BY <1>1, <1>3
<1> HIDE DEF grown
<1>5. /\ SubSeq(grown, m, Len(grown)) \in Seq(Journaled)
      /\ Len(SubSeq(grown, m, Len(grown))) = n
      /\ \A i \in 1..n : SubSeq(grown, m, Len(grown))[i] = grown[m + i - 1]
  <2>1. /\ SubSeq(grown, m, Len(grown)) \in Seq(Journaled)
        /\ Len(SubSeq(grown, m, Len(grown))) = IF m <= Len(grown) THEN Len(grown) - m + 1 ELSE 0
        /\ \A i \in 1..(Len(grown) - m + 1) : SubSeq(grown, m, Len(grown))[i] = grown[m + i - 1]
    BY <1>3, <1>4, SubSeqProperties
  <2> QED
    BY <1>2, <1>3, <2>1
<1>6. Undo!Pushed(e) = SubSeq(grown, m, Len(grown))
  BY DEF Undo!Pushed, n, grown
<1>7. ASSUME NEW i \in 1..n PROVE m + i - 1 \in 1..Len(grown)
  BY <1>1, <1>2, <1>3
<1> QED
  BY <1>1, <1>5, <1>6, <1>7

(* The last entry is dropped, and the others stay. *)
LEMMA PoppedKeeps ==
    ASSUME journal \in Seq(Journaled), journal # <<>>
    PROVE  /\ Undo!Front(journal) \in Seq(Journaled)
           /\ \A i \in 1..Len(Undo!Front(journal)) : \E j \in 1..Len(journal) : Undo!Front(journal)[i] = journal[j]
<1>1. Len(journal) \in Nat /\ Len(journal) > 0
  OBVIOUS
<1>2. \A i \in 1..(Len(journal) - 1) : journal[i] \in Journaled
  BY <1>1
<1>3. /\ SubSeq(journal, 1, Len(journal) - 1) \in Seq(Journaled)
      /\ Len(SubSeq(journal, 1, Len(journal) - 1)) = IF 1 <= Len(journal) - 1 THEN Len(journal) - 1 ELSE 0
      /\ \A i \in 1..(Len(journal) - 1) : SubSeq(journal, 1, Len(journal) - 1)[i] = journal[i]
  <2>1. \A i \in 1..(Len(journal) - 1 - 1 + 1) : SubSeq(journal, 1, Len(journal) - 1)[i] = journal[1 + i - 1]
    BY <1>1, <1>2, SubSeqProperties
  <2>2. /\ SubSeq(journal, 1, Len(journal) - 1) \in Seq(Journaled)
        /\ Len(SubSeq(journal, 1, Len(journal) - 1)) = IF 1 <= Len(journal) - 1 THEN Len(journal) - 1 - 1 + 1 ELSE 0
    BY <1>1, <1>2, SubSeqProperties
  <2> QED
    BY <1>1, <2>1, <2>2
<1> QED
  BY <1>1, <1>3 DEF Undo!Front

(* A file that was there before, under some name or in the recycle directory. *)
Kept(f) ==
    \/ f.ino = 0
    \/ \E m \in UndoNames : f.ino = ujDisk[m].ino /\ f.gen = ujDisk[m].gen
    \/ \E k \in Slots : f.ino = recycle[k].ino /\ f.gen = recycle[k].gen

(* What keeps the files, or takes inode numbers that are not pinned, leaves *)
(* the journal faithful.                                                    *)
LEMMA JournalStays ==
    ASSUME UndoInv, ujOps' \in Nat, ujOps <= ujOps',
           \A n \in UndoNames : Kept(ujDisk'[n]) \/ ujDisk'[n].ino \in Undo!FreeInodes,
           \A k \in Slots : Kept(recycle'[k]),
           \A k \in Slots : \/ recycle'[k] \in {recycle[k], Undo!None}
                             \/ \A j \in 1..Len(journal) : journal[j].kind = "delete" => journal[j].slot # k,
           NEW j \in 1..Len(journal)
    PROVE  Faithful(journal[j], ujDisk', recycle', ujOps')
<1>1. PICK e \in Journaled : e = journal[j] /\ Faithful(e, ujDisk, recycle, ujOps)
  BY DEF UndoInv, UndoTyped, JournalIsFaithful
<1>2. CASE e.kind = "create"
  <2>1. e.fs.ino # 0 /\ Sole(e.fs.ino, e.gen, ujDisk, recycle)
    BY <1>1, <1>2 DEF Faithful
  <2>2. e.fs.ino \notin Undo!FreeInodes
    <3>1. j \in DOMAIN journal
      BY DEF UndoInv, UndoTyped
    <3>2. e.fs.ino \in Undo!Pinned
      BY <1>1, <1>2, <3>1 DEF Undo!Pinned
    <3> QED
      BY <3>2 DEF Undo!FreeInodes
  <2>3. ASSUME NEW f, Kept(f), f.ino = e.fs.ino PROVE f.gen = e.gen
    BY <2>1, <2>3 DEF Kept, Sole
  <2>4. Sole(e.fs.ino, e.gen, ujDisk', recycle')
    BY <2>2, <2>3 DEF Sole
  <2> QED
    BY <1>1, <1>2, <2>4 DEF Faithful
<1>3. CASE e.kind = "rename"
  BY <1>1, <1>3 DEF Faithful
<1>4. CASE e.kind = "delete"
  <2>1. e.slot \in 1..ujOps /\ recycle[e.slot] \in {e.before[e.from], Undo!None} /\ ujOps \in 0..MaxUndoOps
    BY <1>1, <1>4 DEF Faithful, UndoInv, UndoTyped
  <2>2. e.slot \in Slots /\ e.slot \in 1..ujOps'
    BY <2>1, UndoAssumption DEF Slots
  <2>3. recycle'[e.slot] \in {recycle[e.slot], Undo!None}
    BY <1>1, <1>4, <2>2
  <2> QED
    BY <1>1, <1>4, <2>1, <2>2, <2>3 DEF Faithful
<1> QED
  BY <1>1, <1>2, <1>3, <1>4 DEF Journaled

(* The files are those there were. *)
LEMMA FilesStay ==
    ASSUME UndoInv, UNCHANGED <<ujDisk, recycle>>
    PROVE  /\ \A n \in UndoNames : Kept(ujDisk'[n])
           /\ \A k \in Slots : Kept(recycle'[k]) /\ recycle'[k] = recycle[k]
BY DEF Kept

(* Of one call, where it is now is where every call is. *)
LEMMA CallBecomes ==
    ASSUME OneAtATime, UndoInv, NEW c \in UndoCalls, NEW k, ujCall' = [ujCall EXCEPT ![c] = k], AtPlace(k)'
    PROVE  /\ ujCall' = [d \in UndoCalls |-> ujCall'[d]]
           /\ \A d \in UndoCalls : AtPlace(ujCall[d])'
<1>1. ujCall' = [d \in UndoCalls |-> k]
  BY DEF OneAtATime, UndoInv, UndoTyped
<1>2. \A d \in UndoCalls : ujCall'[d] = k
  BY <1>1
<1> QED
  BY <1>1, <1>2

(* A call that ends is nowhere, whatever the disk is. *)
LEMMA IdlePlace == AtPlace(Undo!Idle)'
BY DEF AtPlace, Undo!Idle

(* A call begins: only its place and the count of calls change. *)
LEMMA CallBegins ==
    ASSUME OneAtATime, UndoInv, NEW c \in UndoCalls, NEW k, Undo!Begin(c, k),
           AtPlace(k)'
    PROVE  UndoInv'
<1>1. /\ ujOps' = ujOps + 1 /\ ujOps < MaxUndoOps /\ ujCall' = [ujCall EXCEPT ![c] = k]
      /\ UNCHANGED <<ujDisk, recycle, store, journal, serial>>
  BY DEF Undo!Begin
<1>2. ujOps \in 0..MaxUndoOps /\ ujOps' \in 0..MaxUndoOps /\ ujOps' \in Nat /\ ujOps <= ujOps'
  BY <1>1, UndoAssumption DEF UndoInv, UndoTyped
<1>3. JournalIsFaithful'
  BY <1>1, <1>2, FilesStay, JournalStays DEF JournalIsFaithful
<1>4. UndoTyped'
  BY <1>1, <1>2, CallBecomes DEF UndoInv, UndoTyped
<1> QED
  BY <1>1, <1>3, <1>4, CallBecomes DEF UndoInv

(* A call fails: nothing but its place changes. *)
LEMMA CallFails ==
    ASSUME OneAtATime, UndoInv, NEW c \in UndoCalls, Undo!Fail(c)
    PROVE  UndoInv'
<1>1. ujCall' = [ujCall EXCEPT ![c] = Undo!Idle] /\ UNCHANGED <<ujDisk, recycle, store, journal, ujOps, serial>>
  BY DEF Undo!Fail
<1>2. PICK k : k = Undo!Idle
  OBVIOUS
<1>3. AtPlace(k)' /\ ujCall' = [ujCall EXCEPT ![c] = k]
  BY <1>1, <1>2 DEF AtPlace, Undo!Idle
<1>4. UndoTyped'
  BY <1>1, <1>3, CallBecomes DEF UndoInv, UndoTyped
<1>5. JournalIsFaithful'
  BY <1>1 DEF UndoInv, JournalIsFaithful
<1> QED
  BY <1>3, <1>4, <1>5, CallBecomes DEF UndoInv

(* The calls as they begin. *)
LEMMA UndoBegins ==
    ASSUME OneAtATime, UndoInv, NEW c \in UndoCalls,
           \/ \E n \in UndoNames : Undo!BeginCreate(c, n)
           \/ \E n, m \in UndoNames, by \in Ways : Undo!BeginRename(c, n, m, by)
           \/ \E n \in UndoNames, trash \in BOOLEAN : Undo!BeginDelete(c, n, trash)
           \/ Undo!BeginUndo(c)
    PROVE  UndoInv'
<1>0. /\ store \in [UndoNames -> Nat] /\ journal \in Seq(Journaled) /\ ujOps \in 0..MaxUndoOps
      /\ JournalIsFaithful /\ ujDisk \in Disks
  BY DEF UndoInv, UndoTyped
<1>1. ASSUME NEW n \in UndoNames, Undo!BeginCreate(c, n) PROVE UndoInv'
  <2>1. PICK k : k = [op |-> "create", at |-> "checked", to |-> n]
    OBVIOUS
  <2>2. Undo!Begin(c, k)
    BY <1>1, <2>1 DEF Undo!BeginCreate
  <2>3. AtPlace(k)'
    BY <2>1 DEF AtPlace, CreateChecked
  <2> QED
    BY <2>2, <2>3, CallBegins
<1>2. ASSUME NEW n \in UndoNames, NEW m \in UndoNames, NEW by \in Ways, Undo!BeginRename(c, n, m, by)
      PROVE  UndoInv'
  <2>1. PICK i \in Nat, b \in Disks : i = store[n] /\ b = ujDisk
    BY <1>0
  <2>2. PICK k : k = [op |-> "rename", at |-> "checked", eid |-> i, from |-> n, to |-> m, by |-> by, before |-> b]
    OBVIOUS
  <2>3. Undo!Begin(c, k)
    BY <1>2, <2>1, <2>2 DEF Undo!BeginRename
  <2>4. n # m /\ (by # "overwrite" => ujDisk[m] = Undo!None) /\ UNCHANGED ujDisk
    BY <1>2 DEF Undo!BeginRename, Undo!Begin
  <2>5. RenameKnows("checked", n, m, by, b)'
    BY <2>4 DEF RenameKnows
  <2>6. RenamePlace(k)'
    BY <2>2, <2>4, <2>5 DEF RenamePlace
  <2>7. AtPlace(k)'
    BY <2>6 DEF AtPlace
  <2> QED
    BY <2>3, <2>7, CallBegins
<1>3. ASSUME NEW n \in UndoNames, NEW trash \in BOOLEAN, Undo!BeginDelete(c, n, trash) PROVE UndoInv'
  <2>1. PICK i \in Nat, b \in Disks : i = store[n] /\ b = ujDisk
    BY <1>0
  <2>2. PICK o : o = ujOps + 1
    OBVIOUS
  <2>3. PICK k : k = [op |-> "delete", at |-> "checked", eid |-> i, from |-> n, trash |-> trash, slot |-> o, before |-> b]
    OBVIOUS
  <2>4. Undo!Begin(c, k)
    BY <1>3, <2>1, <2>2, <2>3 DEF Undo!BeginDelete
  <2>5. ujOps' = o /\ o \in Slots /\ UNCHANGED journal
    BY <1>0, <2>2, <2>4, UndoAssumption DEF Undo!Begin, Slots
  <2>6. ASSUME NEW j \in 1..Len(journal), journal[j].kind = "delete" PROVE journal[j].slot # o
    <3>1. journal[j].slot \in 1..ujOps
      BY <1>0, <2>6 DEF JournalIsFaithful, Faithful
    <3> QED
      BY <1>0, <2>2, <3>1
  <2>7. DeletePlace(k)'
    BY <2>3, <2>5, <2>6 DEF DeletePlace
  <2>8. AtPlace(k)'
    BY <2>7 DEF AtPlace
  <2> QED
    BY <2>4, <2>8, CallBegins
<1>4. CASE Undo!BeginUndo(c)
  <2>1. journal # <<>> /\ Len(journal) \in 1..Len(journal)
    BY <1>0, <1>4 DEF Undo!BeginUndo
  <2>2. PICK e \in Journaled : e = journal[Len(journal)] /\ Faithful(e, ujDisk, recycle, ujOps)
    BY <1>0, <2>1 DEF JournalIsFaithful
  <2>3. PICK k : k = [op |-> "undo", at |-> "checked", entry |-> e]
    OBVIOUS
  <2>4. Undo!Begin(c, k)
    BY <1>4, <2>2, <2>3 DEF Undo!BeginUndo, Undo!Last
  <2>5. e.kind = "create" => Undo!PinnedMatches(e)
    BY <1>4, <2>2 DEF Undo!BeginUndo, Undo!Last, Undo!MayUndo
  <2>6. e.kind = "delete" => e.slot \in Slots
    BY <1>0, <2>2, UndoAssumption DEF Faithful, Slots
  <2>7. UNCHANGED ujDisk
    BY <2>4 DEF Undo!Begin
  <2>8. AtPlace(k)'
    BY <2>3, <2>5, <2>6, <2>7 DEF AtPlace, UndoChecked, Undo!PinnedMatches
  <2> QED
    BY <2>4, <2>8, CallBegins
<1> QED
  BY <1>1, <1>2, <1>3, <1>4

(* Where a call is, by what it says. *)
LEMMA PlaceOf ==
    ASSUME NEW k, AtPlace(k)
    PROVE  /\ k.op = "create" /\ k.at = "checked" => CreateChecked(k)
           /\ k.op = "create" /\ k.at = "done" => CreateDone(k)
           /\ k.op = "rename" => RenamePlace(k)
           /\ k.op = "delete" => DeletePlace(k)
           /\ k.op = "undo" /\ k.at = "checked" => UndoChecked(k)
           /\ k.op = "undo" /\ k.at # "checked" => UndoDone(k)
<1>1. CASE k = Undo!Idle
  BY <1>1 DEF Undo!Idle
<1>2. CASE CreateChecked(k)
  BY <1>2 DEF CreateChecked
<1>3. CASE CreateDone(k)
  <2>1. k.op = "create" /\ k.at = "done"
    BY <1>3 DEF CreateDone
  <2> QED
    BY <1>3, <2>1
<1>4. CASE RenamePlace(k)
  <2>1. k.op = "rename"
    BY <1>4 DEF RenamePlace
  <2> QED
    BY <1>4, <2>1
<1>6. CASE DeletePlace(k)
  <2>1. k.op = "delete"
    BY <1>6 DEF DeletePlace
  <2> QED
    BY <1>6, <2>1
<1>7. CASE UndoChecked(k)
  <2>1. k.op = "undo" /\ k.at = "checked"
    BY <1>7 DEF UndoChecked
  <2> QED
    BY <1>7, <2>1
<1>8. CASE UndoDone(k)
  <2>1. k.op = "undo" /\ k.at # "checked"
    BY <1>8 DEF UndoDone
  <2> QED
    BY <1>8, <2>1
<1> QED
  BY <1>1, <1>2, <1>3, <1>4, <1>6, <1>7, <1>8 DEF AtPlace

(* A call moves on: the files are kept or new, and what the journal gains   *)
(* is faithful.                                                             *)
LEMMA CallGoesOn ==
    ASSUME OneAtATime, UndoInv, NEW c \in UndoCalls, NEW k, ujCall' = [ujCall EXCEPT ![c] = k], AtPlace(k)',
           ujDisk' \in Disks, recycle' \in [Slots -> UndoFiles], store' \in [UndoNames -> Nat], serial' \in Nat,
           UNCHANGED ujOps,
           \A n \in UndoNames : Kept(ujDisk'[n]) \/ ujDisk'[n].ino \in Undo!FreeInodes,
           \A s \in Slots : Kept(recycle'[s]),
           \A s \in Slots : \/ recycle'[s] \in {recycle[s], Undo!None}
                            \/ \A j \in 1..Len(journal) : journal[j].kind = "delete" => journal[j].slot # s,
           journal' \in Seq(Journaled),
           \A i \in 1..Len(journal') : \/ Faithful(journal'[i], ujDisk', recycle', ujOps')
                                       \/ \E j \in 1..Len(journal) : journal'[i] = journal[j]
    PROVE  UndoInv'
<1>1. ujOps' \in Nat /\ ujOps <= ujOps'
  BY UndoAssumption DEF UndoInv, UndoTyped
<1>2. \A j \in 1..Len(journal) : Faithful(journal[j], ujDisk', recycle', ujOps')
  BY <1>1, JournalStays
<1>3. JournalIsFaithful'
  <2>1. ASSUME NEW i \in 1..Len(journal') PROVE Faithful(journal'[i], ujDisk', recycle', ujOps')
    BY <1>2
  <2> QED
    BY <2>1 DEF JournalIsFaithful
<1>4. /\ ujCall' = [d \in UndoCalls |-> ujCall'[d]]
      /\ \A d \in UndoCalls : AtPlace(ujCall[d])'
  BY CallBecomes
<1>5. UndoTyped'
  BY <1>4 DEF UndoInv, UndoTyped
<1> QED
  BY <1>3, <1>4, <1>5 DEF UndoInv

(* The same, when it looks at the disk only and ends. *)
LEMMA CallJournals ==
    ASSUME OneAtATime, UndoInv, NEW c \in UndoCalls, ujCall' = [ujCall EXCEPT ![c] = Undo!Idle],
           UNCHANGED <<ujDisk, recycle, ujOps>>, store' \in [UndoNames -> Nat], serial' \in Nat,
           NEW e \in Journaled, Faithful(e, ujDisk, recycle, ujOps), journal' = Undo!Pushed(e)
    PROVE  UndoInv'
<1>1. ujDisk \in Disks /\ recycle \in [Slots -> UndoFiles] /\ journal \in Seq(Journaled)
  BY DEF UndoInv, UndoTyped
<1>2. journal' \in Seq(Journaled) /\ \A i \in 1..Len(journal') :
          journal'[i] = e \/ \E j \in 1..Len(journal) : journal'[i] = journal[j]
  BY <1>1, PushedKeeps
<1>3. Faithful(e, ujDisk', recycle', ujOps')
  OBVIOUS
<1>4. \A i \in 1..Len(journal') : \/ Faithful(journal'[i], ujDisk', recycle', ujOps')
                                  \/ \E j \in 1..Len(journal) : journal'[i] = journal[j]
  BY <1>2, <1>3
<1>5. PICK k : k = Undo!Idle
  OBVIOUS
<1>6. AtPlace(k)' /\ ujCall' = [ujCall EXCEPT ![c] = k]
  BY <1>5 DEF AtPlace, Undo!Idle
<1>7. /\ \A n \in UndoNames : Kept(ujDisk'[n])
      /\ \A s \in Slots : Kept(recycle'[s]) /\ recycle'[s] = recycle[s]
  BY FilesStay
<1>8. /\ \A n \in UndoNames : Kept(ujDisk'[n]) \/ ujDisk'[n].ino \in Undo!FreeInodes
      /\ \A s \in Slots : Kept(recycle'[s])
      /\ \A s \in Slots : \/ recycle'[s] \in {recycle[s], Undo!None}
                          \/ \A j \in 1..Len(journal) : journal[j].kind = "delete" => journal[j].slot # s
  BY <1>7
<1>9. ujDisk' \in Disks /\ recycle' \in [Slots -> UndoFiles]
  BY <1>1
<1> QED
  BY <1>2, <1>4, <1>6, <1>8, <1>9, CallGoesOn

(* create. *)
LEMMA UndoCreates ==
    ASSUME OneAtATime, UndoInv, NEW c \in UndoCalls, Undo!DoCreate(c) \/ Undo!RecordCreate(c)
    PROVE  UndoInv'
<1>0. /\ ujDisk \in Disks /\ recycle \in [Slots -> UndoFiles] /\ store \in [UndoNames -> Nat]
      /\ journal \in Seq(Journaled) /\ serial \in Nat /\ AtPlace(ujCall[c])
  BY DEF UndoInv, UndoTyped
<1>1. CASE Undo!Fail(c)
  BY <1>1, CallFails
<1>2. CASE Undo!DoCreate(c) /\ ~Undo!Fail(c)
  <2>1. PICK n \in UndoNames : ujCall[c].to = n
    <3>1. CreateChecked(ujCall[c])
      BY <1>0, <1>2, PlaceOf DEF Undo!DoCreate
    <3> QED
      BY <3>1 DEF CreateChecked
  <2>2. PICK i \in Undo!FreeInodes :
          /\ ujDisk[n] = Undo!None
          /\ ujDisk' = [ujDisk EXCEPT ![n] = [ino |-> i, len |-> 0, gen |-> serial + 1]]
          /\ serial' = serial + 1 /\ UNCHANGED <<recycle, store, journal, ujOps>>
          /\ ujCall' = [ujCall EXCEPT ![c] = [op |-> "create", at |-> "done", to |-> n, before |-> ujDisk]]
    BY <1>2, <2>1 DEF Undo!DoCreate
  <2>3. PICK f, b : f = [ino |-> i, len |-> 0, gen |-> serial + 1] /\ b = ujDisk
    OBVIOUS
  <2>4. PICK k : k = [op |-> "create", at |-> "done", to |-> n, before |-> b]
    OBVIOUS
  <2>5. /\ i \in UndoInodes /\ i # 0 /\ \A m \in UndoNames : ujDisk[m].ino # i
        /\ \A s \in Slots : recycle[s].ino # i
    BY UndoAssumption DEF Undo!FreeInodes, Slots
  <2>6. f \in UndoFiles /\ f.ino = i /\ f.gen = serial + 1
    BY <1>0, <2>3, <2>5 DEF UndoFiles
  <2>7. /\ ujDisk' = [m \in UndoNames |-> IF m = n THEN f ELSE ujDisk[m]] /\ ujDisk' \in Disks
        /\ ujDisk'[n] = f /\ \A m \in UndoNames \ {n} : ujDisk'[m] = ujDisk[m]
    BY <1>0, <2>2, <2>3, <2>6 DEF Disks
  <2>8. Sole(f.ino, f.gen, ujDisk', recycle')
    BY <2>2, <2>5, <2>6, <2>7 DEF Sole
  <2>9. CreateDone(k)'
    <3>1. b \in Disks /\ b[n] = Undo!None /\ ujDisk' = [b EXCEPT ![n] = ujDisk'[n]] /\ ujDisk'[n].ino # 0
      BY <1>0, <2>2, <2>3, <2>5, <2>6, <2>7 DEF Disks
    <3>2. Sole(ujDisk'[n].ino, ujDisk'[n].gen, ujDisk', recycle')
      BY <2>7, <2>8
    <3> QED
      BY <2>4, <3>1, <3>2 DEF CreateDone
  <2>10. AtPlace(k)' /\ ujCall' = [ujCall EXCEPT ![c] = k]
    BY <2>2, <2>3, <2>4, <2>9 DEF AtPlace
  <2>11. /\ \A m \in UndoNames : Kept(ujDisk'[m]) \/ ujDisk'[m].ino \in Undo!FreeInodes
         /\ \A s \in Slots : Kept(recycle'[s]) /\ recycle'[s] = recycle[s]
    BY <2>2, <2>6, <2>7 DEF Kept
  <2>12. /\ \A s \in Slots : Kept(recycle'[s])
         /\ \A s \in Slots : \/ recycle'[s] \in {recycle[s], Undo!None}
                             \/ \A j \in 1..Len(journal) : journal[j].kind = "delete" => journal[j].slot # s
    BY <2>11
  <2>13. journal' \in Seq(Journaled) /\ \A j \in 1..Len(journal') :
            \/ Faithful(journal'[j], ujDisk', recycle', ujOps') \/ \E l \in 1..Len(journal) : journal'[j] = journal[l]
    BY <1>0, <2>2
  <2>14. recycle' \in [Slots -> UndoFiles] /\ store' \in [UndoNames -> Nat] /\ serial' \in Nat /\ UNCHANGED ujOps
    BY <1>0, <2>2
  <2> QED
    BY <2>7, <2>10, <2>11, <2>12, <2>13, <2>14, CallGoesOn
<1>3. CASE Undo!RecordCreate(c) /\ ~Undo!Fail(c)
  <2>1. PICK n \in UndoNames, b \in Disks :
          /\ ujCall[c].to = n /\ ujCall[c].before = b
          /\ b[n] = Undo!None /\ ujDisk = [b EXCEPT ![n] = ujDisk[n]]
          /\ ujDisk[n].ino # 0 /\ Sole(ujDisk[n].ino, ujDisk[n].gen, ujDisk, recycle)
    <3>1. CreateDone(ujCall[c])
      BY <1>0, <1>3, PlaceOf DEF Undo!RecordCreate
    <3> QED
      BY <3>1 DEF CreateDone
  <2>2. PICK i : i = Undo!IdFor(n)
    OBVIOUS
  <2>3. i \in Nat
    BY <1>0, <2>2 DEF Undo!IdFor
  <2>4. PICK e : e = Undo!Entry("create", i, n, n, ujDisk[n], 0, b)
    OBVIOUS
  <2>5. /\ store' = [store EXCEPT ![n] = i] /\ serial' = serial + 1 /\ journal' = Undo!Pushed(e)
        /\ ujCall' = [ujCall EXCEPT ![c] = Undo!Idle] /\ UNCHANGED <<ujDisk, recycle, ujOps>>
    BY <1>3, <2>1, <2>2, <2>4 DEF Undo!RecordCreate
  <2>6. ujDisk[n] \in UndoFiles
    BY <1>0 DEF Disks
  <2>7. e = [kind |-> "create", eid |-> i, from |-> n, to |-> n, fs |-> [ino |-> ujDisk[n].ino, len |-> ujDisk[n].len],
             gen |-> ujDisk[n].gen, slot |-> 0, before |-> b, after |-> ujDisk]
    BY <2>4 DEF Undo!Entry, Undo!Fs
  <2>8. e \in Journaled
    BY <1>0, <2>1, <2>3, <2>6, <2>7 DEF Journaled, UndoFiles
  <2>9. Faithful(e, ujDisk, recycle, ujOps)
    BY <2>1, <2>7 DEF Faithful
  <2>10. store' \in [UndoNames -> Nat] /\ serial' \in Nat
    BY <1>0, <2>3, <2>5
  <2> QED
    BY <2>5, <2>8, <2>9, <2>10, CallJournals
<1> QED
  BY <1>1, <1>2, <1>3

(* A call moves on and changes the disk and the rows only: it moves files,  *)
(* or removes them.                                                         *)
LEMMA FilesMove ==
    ASSUME OneAtATime, UndoInv, NEW c \in UndoCalls, NEW k, ujCall' = [ujCall EXCEPT ![c] = k], AtPlace(k)',
           ujDisk' \in Disks, store' \in [UndoNames -> Nat], UNCHANGED <<recycle, journal, ujOps, serial>>,
           \A l \in UndoNames : ujDisk'[l] = Undo!None \/ \E m \in UndoNames : ujDisk'[l] = ujDisk[m]
    PROVE  UndoInv'
<1>0. recycle' = recycle /\ journal' = journal /\ serial' = serial /\ ujOps' = ujOps
  OBVIOUS
<1>1. recycle' \in [Slots -> UndoFiles] /\ journal' \in Seq(Journaled) /\ serial' \in Nat
  BY <1>0 DEF UndoInv, UndoTyped
<1>2. \A l \in UndoNames : Kept(ujDisk'[l]) \/ ujDisk'[l].ino \in Undo!FreeInodes
  BY NoFile DEF Kept
<1>3. /\ \A s \in Slots : Kept(recycle'[s])
      /\ \A s \in Slots : \/ recycle'[s] \in {recycle[s], Undo!None}
                          \/ \A j \in 1..Len(journal) : journal[j].kind = "delete" => journal[j].slot # s
  BY DEF Kept
<1>4. \A j \in 1..Len(journal') :
         \/ Faithful(journal'[j], ujDisk', recycle', ujOps') \/ \E l \in 1..Len(journal) : journal'[j] = journal[l]
  OBVIOUS
<1> QED
  BY <1>1, <1>2, <1>3, <1>4, CallGoesOn

(* What TreeStore::rename leaves is a table of ids. *)
LEMMA RenamedRows ==
    ASSUME store \in [UndoNames -> Nat], NEW i \in Nat, NEW m \in UndoNames
    PROVE  Undo!Renamed(i, m) \in [UndoNames -> Nat]
BY DEF Undo!Renamed

(* rename and move. *)
LEMMA UndoRenames ==
    ASSUME OneAtATime, UndoInv, NEW c \in UndoCalls,
           \/ Undo!ClearRow(c) \/ Undo!ClearFile(c) \/ Undo!DoRename(c) \/ Undo!RenameRow(c) \/ Undo!PutBack(c)
           \/ Undo!RecordRename(c)
    PROVE  UndoInv'
<1>0. /\ ujDisk \in Disks /\ recycle \in [Slots -> UndoFiles] /\ store \in [UndoNames -> Nat]
      /\ journal \in Seq(Journaled) /\ serial \in Nat /\ AtPlace(ujCall[c])
  BY DEF UndoInv, UndoTyped
<1>1. CASE Undo!Fail(c)
  BY <1>1, CallFails
<1>2. ujCall[c].op = "rename"
  BY DEF Undo!ClearRow, Undo!ClearFile, Undo!DoRename, Undo!RenameRow, Undo!PutBack, Undo!RecordRename
<1>3. PICK at \in {"checked", "rowless", "cleared", "renamed", "refused", "done"},
           n \in UndoNames, m \in UndoNames, i \in Nat, by \in Ways, b \in Disks :
        /\ ujCall[c] = [op |-> "rename", at |-> at, eid |-> i, from |-> n, to |-> m, by |-> by, before |-> b]
        /\ n # m /\ RenameKnows(at, n, m, by, b)
  <2>1. RenamePlace(ujCall[c])
    BY <1>0, <1>2, PlaceOf
  <2> QED
    BY <2>1 DEF RenamePlace
<1>4. /\ ujCall[c].at = at /\ ujCall[c].eid = i /\ ujCall[c].from = n /\ ujCall[c].to = m
      /\ ujCall[c].by = by /\ ujCall[c].before = b
  BY <1>3
<1> DEFINE Call(a, w, d) == [op |-> "rename", at |-> a, eid |-> i, from |-> n, to |-> m, by |-> w, before |-> d]
<1>5. ASSUME NEW a PROVE [ujCall[c] EXCEPT !.at = a] = Call(a, by, b)
  BY <1>3
<1>6. ASSUME NEW a \in {"checked", "rowless", "cleared", "renamed", "refused", "done"},
             NEW w \in Ways, NEW d \in Disks, NEW k, k = Call(a, w, d),
             RenameKnows(a, n, m, w, d)'
      PROVE  AtPlace(k)'
  <2>1. RenamePlace(k)'
    BY <1>3, <1>6 DEF RenamePlace
  <2> QED
    BY <2>1 DEF AtPlace
<1> HIDE DEF Call
<1>7. CASE Undo!ClearRow(c) /\ ~Undo!Fail(c)
  <2>1. /\ store' = [store EXCEPT ![m] = 0] /\ UNCHANGED <<ujDisk, recycle, journal, ujOps, serial>>
        /\ ujCall' = [ujCall EXCEPT ![c] = [ujCall[c] EXCEPT !.at = "rowless"]]
    BY <1>4, <1>7 DEF Undo!ClearRow
  <2>2. PICK k : k = Call("rowless", by, b)
    OBVIOUS
  <2>3. RenameKnows("rowless", n, m, by, b)'
    BY DEF RenameKnows
  <2>4. AtPlace(k)' /\ ujCall' = [ujCall EXCEPT ![c] = k]
    BY <1>5, <1>6, <2>1, <2>2, <2>3
  <2> QED
    BY <1>0, <2>1, <2>4, FilesMove
<1>8. CASE Undo!ClearFile(c)
  <2>1. PICK w \in Ways : w = IF ujDisk[m] = Undo!None THEN "move" ELSE "overwrite"
    BY DEF Ways
  <2>2. /\ ujDisk' = [ujDisk EXCEPT ![m] = Undo!None] /\ UNCHANGED <<recycle, store, journal, ujOps, serial>>
        /\ ujCall' = [ujCall EXCEPT ![c] = Undo!RenameAt(c, "cleared", w, b)]
    BY <1>4, <1>8, <2>1 DEF Undo!ClearFile
  <2>3. PICK k : k = Call("cleared", w, b)
    OBVIOUS
  <2>4. /\ ujDisk' \in Disks /\ ujDisk'[m] = Undo!None
        /\ \A l \in UndoNames : ujDisk'[l] = Undo!None \/ \E o \in UndoNames : ujDisk'[l] = ujDisk[o]
    BY <1>0, <2>2, NoFile DEF Disks
  <2>5. RenameKnows("cleared", n, m, w, b)'
    BY <2>4 DEF RenameKnows
  <2>6. AtPlace(k)' /\ ujCall' = [ujCall EXCEPT ![c] = k]
    <3>1. AtPlace(k)'
      BY <1>6, <2>3, <2>5
    <3>2. ujCall' = [ujCall EXCEPT ![c] = k]
      BY <1>4, <2>2, <2>3 DEF Call, Undo!RenameAt
    <3> QED
      BY <3>1, <3>2
  <2> QED
    BY <1>0, <2>2, <2>4, <2>6, FilesMove
<1>9. CASE Undo!DoRename(c) /\ ~Undo!Fail(c)
  <2>1. /\ ujDisk' = [ujDisk EXCEPT ![n] = Undo!None, ![m] = ujDisk[n]]
        /\ UNCHANGED <<recycle, store, journal, ujOps, serial>>
        /\ ujCall' = [ujCall EXCEPT ![c] = Undo!RenameAt(c, "renamed", by, ujDisk)]
        /\ at = "cleared" \/ (at = "checked" /\ by # "overwrite")
    BY <1>4, <1>9 DEF Undo!DoRename
  <2>2. PICK d \in Disks : d = ujDisk
    BY <1>0
  <2>3. PICK k : k = Call("renamed", by, d)
    OBVIOUS
  <2>4. d[m] = Undo!None
    BY <1>3, <2>1, <2>2 DEF RenameKnows
  <2>5. RenameKnows("renamed", n, m, by, d)'
    BY <2>1, <2>2, <2>4 DEF RenameKnows
  <2>6. AtPlace(k)' /\ ujCall' = [ujCall EXCEPT ![c] = k]
    <3>1. AtPlace(k)'
      BY <1>6, <2>3, <2>5
    <3>2. ujCall' = [ujCall EXCEPT ![c] = k]
      BY <1>4, <2>1, <2>2, <2>3 DEF Call, Undo!RenameAt
    <3> QED
      BY <3>1, <3>2
  <2>7. /\ ujDisk' \in Disks
        /\ \A l \in UndoNames : ujDisk'[l] = Undo!None \/ \E o \in UndoNames : ujDisk'[l] = ujDisk[o]
    BY <1>0, <1>3, <2>1, NoFile DEF Disks
  <2> QED
    BY <1>0, <2>1, <2>6, <2>7, FilesMove
<1>10. CASE Undo!RenameRow(c) /\ ~Undo!Fail(c)
  <2>1. PICK a \in {"done", "refused"} :
          ujCall' = [ujCall EXCEPT ![c] = [ujCall[c] EXCEPT !.at = a]]
    BY <1>10 DEF Undo!RenameRow
  <2>2. /\ at = "renamed" /\ UNCHANGED <<ujDisk, recycle, journal, ujOps, serial>>
        /\ store' \in {store, Undo!Renamed(i, m)}
    BY <1>4, <1>10 DEF Undo!RenameRow
  <2>3. PICK k : k = Call(a, by, b)
    OBVIOUS
  <2>4. RenameKnows(a, n, m, by, b)'
    BY <1>3, <2>2 DEF RenameKnows
  <2>5. AtPlace(k)' /\ ujCall' = [ujCall EXCEPT ![c] = k]
    <3>1. AtPlace(k)'
      BY <1>6, <2>3, <2>4
    <3>2. ujCall' = [ujCall EXCEPT ![c] = k]
      BY <1>5, <2>1, <2>3
    <3> QED
      BY <3>1, <3>2
  <2>6. store' \in [UndoNames -> Nat]
    BY <1>0, <2>2, RenamedRows
  <2> QED
    BY <1>0, <2>2, <2>5, <2>6, FilesMove
<1>11. CASE Undo!PutBack(c)
  <2>1. /\ ujDisk' = IF ujDisk[m] = Undo!None THEN ujDisk ELSE [ujDisk EXCEPT ![n] = ujDisk[m], ![m] = Undo!None]
        /\ ujCall' = [ujCall EXCEPT ![c] = Undo!Idle] /\ UNCHANGED <<recycle, store, journal, ujOps, serial>>
    BY <1>4, <1>11 DEF Undo!PutBack
  <2>2. PICK k : k = Undo!Idle
    OBVIOUS
  <2>3. AtPlace(k)' /\ ujCall' = [ujCall EXCEPT ![c] = k]
    BY <2>1, <2>2 DEF AtPlace, Undo!Idle
  <2>4. /\ ujDisk' \in Disks
        /\ \A l \in UndoNames : ujDisk'[l] = Undo!None \/ \E o \in UndoNames : ujDisk'[l] = ujDisk[o]
    BY <1>0, <1>3, <2>1, NoFile DEF Disks
  <2> QED
    BY <1>0, <2>1, <2>3, <2>4, FilesMove
<1>12. CASE Undo!RecordRename(c) /\ ~Undo!Fail(c)
  <2>1. PICK f : /\ f = ujDisk[m] \/ f = [b[n] EXCEPT !.ino = 0]
                 /\ by # "overwrite" /\ at = "done" /\ Undo!Journals(c, f)
    BY <1>4, <1>12 DEF Undo!RecordRename
  <2>2. PICK e : e = Undo!Entry("rename", i, n, m, f, 0, b)
    OBVIOUS
  <2>3. /\ journal' = Undo!Pushed(e)
        /\ ujCall' = [ujCall EXCEPT ![c] = Undo!Idle] /\ UNCHANGED <<ujDisk, recycle, store, ujOps, serial>>
    BY <1>4, <2>1, <2>2 DEF Undo!Journals
  <2>4. f \in UndoFiles
    <3>1. ujDisk[m] \in UndoFiles /\ b[n] \in UndoFiles
      BY <1>0 DEF Disks
    <3>2. [b[n] EXCEPT !.ino = 0] \in UndoFiles
      BY <3>1 DEF UndoFiles
    <3> QED
      BY <2>1, <3>1, <3>2
  <2>5. e = [kind |-> "rename", eid |-> i, from |-> n, to |-> m, fs |-> [ino |-> f.ino, len |-> f.len],
             gen |-> f.gen, slot |-> 0, before |-> b, after |-> ujDisk]
    BY <2>2 DEF Undo!Entry, Undo!Fs
  <2>6. e \in Journaled
    BY <1>0, <2>4, <2>5 DEF Journaled, UndoFiles
  <2>7. b[m] = Undo!None /\ ujDisk = [b EXCEPT ![n] = Undo!None, ![m] = b[n]]
    BY <1>3, <2>1 DEF RenameKnows
  <2>8. Faithful(e, ujDisk, recycle, ujOps)
    BY <1>3, <2>5, <2>7 DEF Faithful
  <2>9. store' \in [UndoNames -> Nat] /\ serial' \in Nat
    BY <1>0, <2>3
  <2> QED
    BY <2>3, <2>6, <2>8, <2>9, CallJournals
<1> QED
  BY <1>1, <1>7, <1>8, <1>9, <1>10, <1>11, <1>12

(* delete, for good or into a place of the recycle directory that no other  *)
(* delete has used.                                                         *)
LEMMA UndoDeletes ==
    ASSUME OneAtATime, UndoInv, NEW c \in UndoCalls, Undo!DoDelete(c) \/ Undo!RecordDelete(c)
    PROVE  UndoInv'
<1>0. /\ ujDisk \in Disks /\ recycle \in [Slots -> UndoFiles] /\ store \in [UndoNames -> Nat]
      /\ journal \in Seq(Journaled) /\ serial \in Nat /\ AtPlace(ujCall[c])
  BY DEF UndoInv, UndoTyped
<1>1. CASE Undo!Fail(c)
  BY <1>1, CallFails
<1>2. PICK at \in {"checked", "done"}, n \in UndoNames, i \in Nat, trash \in BOOLEAN, b \in Disks :
        /\ ujCall[c] = [op |-> "delete", at |-> at, eid |-> i, from |-> n, trash |-> trash, slot |-> ujOps,
                        before |-> b]
        /\ ujOps \in Slots
        /\ \A j \in 1..Len(journal) : journal[j].kind = "delete" => journal[j].slot # ujOps
        /\ at = "done" => /\ ujDisk = [b EXCEPT ![n] = Undo!None]
                          /\ trash => recycle[ujOps] = b[n]
  <2>1. DeletePlace(ujCall[c])
    BY <1>0, PlaceOf DEF Undo!DoDelete, Undo!RecordDelete
  <2> QED
    BY <2>1 DEF DeletePlace
<1>3. /\ ujCall[c].at = at /\ ujCall[c].eid = i /\ ujCall[c].from = n /\ ujCall[c].trash = trash
      /\ ujCall[c].slot = ujOps /\ ujCall[c].before = b
  BY <1>2
<1>4. CASE Undo!DoDelete(c) /\ ~Undo!Fail(c)
  <2>1. /\ ujDisk' = [ujDisk EXCEPT ![n] = Undo!None]
        /\ recycle' = IF trash THEN [recycle EXCEPT ![ujOps] = ujDisk[n]] ELSE recycle
        /\ ujCall' = [ujCall EXCEPT ![c] = [op |-> "delete", at |-> "done", eid |-> i, from |-> n, trash |-> trash,
                                            slot |-> ujOps, before |-> ujDisk]]
        /\ UNCHANGED <<store, journal, ujOps, serial>>
    BY <1>3, <1>4 DEF Undo!DoDelete
  <2>2. PICK d \in Disks : d = ujDisk
    BY <1>0
  <2>3. PICK k : k = [op |-> "delete", at |-> "done", eid |-> i, from |-> n, trash |-> trash, slot |-> ujOps,
                      before |-> d]
    OBVIOUS
  <2>4. /\ ujDisk' \in Disks /\ ujDisk'[n] = Undo!None /\ ujDisk[n] \in UndoFiles
        /\ \A l \in UndoNames \ {n} : ujDisk'[l] = ujDisk[l]
    BY <1>0, <2>1, NoFile DEF Disks
  <2>5. /\ recycle' \in [Slots -> UndoFiles] /\ recycle'[ujOps] = IF trash THEN ujDisk[n] ELSE recycle[ujOps]
        /\ \A s \in Slots \ {ujOps} : recycle'[s] = recycle[s]
    BY <1>0, <1>2, <2>1, <2>4
  <2>6. DeletePlace(k)'
    BY <1>2, <2>1, <2>2, <2>3, <2>5 DEF DeletePlace
  <2>7. AtPlace(k)' /\ ujCall' = [ujCall EXCEPT ![c] = k]
    BY <2>1, <2>2, <2>3, <2>6 DEF AtPlace
  <2>8. \A l \in UndoNames : Kept(ujDisk'[l]) \/ ujDisk'[l].ino \in Undo!FreeInodes
    BY <2>4, NoFile DEF Kept
  <2>9. /\ \A s \in Slots : Kept(recycle'[s])
        /\ \A s \in Slots : \/ recycle'[s] \in {recycle[s], Undo!None}
                            \/ \A j \in 1..Len(journal) : journal[j].kind = "delete" => journal[j].slot # s
    BY <1>2, <2>5 DEF Kept
  <2>10. journal' \in Seq(Journaled) /\ \A j \in 1..Len(journal') :
            \/ Faithful(journal'[j], ujDisk', recycle', ujOps') \/ \E l \in 1..Len(journal) : journal'[j] = journal[l]
    BY <1>0, <2>1
  <2>11. store' \in [UndoNames -> Nat] /\ serial' \in Nat /\ UNCHANGED ujOps
    BY <1>0, <2>1
  <2> QED
    BY <2>4, <2>5, <2>7, <2>8, <2>9, <2>10, <2>11, CallGoesOn
<1>5. CASE Undo!RecordDelete(c) /\ ~Undo!Fail(c)
  <2>1. PICK e : e = Undo!Entry("delete", i, n, n, recycle[ujOps], ujOps, b)
    OBVIOUS
  <2>2. /\ at = "done" /\ store' = [l \in UndoNames |-> IF store[l] = i THEN 0 ELSE store[l]]
        /\ journal' = IF trash THEN Undo!Pushed(e) ELSE journal
        /\ ujCall' = [ujCall EXCEPT ![c] = Undo!Idle] /\ UNCHANGED <<ujDisk, recycle, ujOps, serial>>
    BY <1>3, <1>5, <2>1 DEF Undo!RecordDelete
  <2>3. store' \in [UndoNames -> Nat] /\ serial' \in Nat
    BY <1>0, <2>2
  <2>4. CASE ~trash
    <3>1. PICK k : k = Undo!Idle
      OBVIOUS
    <3>2. AtPlace(k)' /\ ujCall' = [ujCall EXCEPT ![c] = k]
      BY <2>2, <3>1 DEF AtPlace, Undo!Idle
    <3> QED
      BY <1>0, <2>2, <2>3, <2>4, <3>2, FilesMove
  <2>5. CASE trash
    <3>1. recycle[ujOps] \in UndoFiles
      BY <1>0, <1>2
    <3>2. e = [kind |-> "delete", eid |-> i, from |-> n, to |-> n,
               fs |-> [ino |-> recycle[ujOps].ino, len |-> recycle[ujOps].len],
               gen |-> recycle[ujOps].gen, slot |-> ujOps, before |-> b, after |-> ujDisk]
      BY <2>1 DEF Undo!Entry, Undo!Fs
    <3>3. ujOps \in Nat /\ ujOps \in 1..ujOps
      BY <1>2, UndoAssumption DEF Slots
    <3>4. e \in Journaled
      BY <1>0, <3>1, <3>2, <3>3 DEF Journaled, UndoFiles
    <3>5. Faithful(e, ujDisk, recycle, ujOps)
      BY <1>2, <2>2, <2>5, <3>2, <3>3 DEF Faithful
    <3> QED
      BY <2>2, <2>3, <2>5, <3>4, <3>5, CallJournals
  <2> QED
    BY <2>4, <2>5
<1> QED
  BY <1>1, <1>4, <1>5

(* An undo puts back what its entry names, and uses up what it took. *)
LEMMA UndoUndoes ==
    ASSUME OneAtATime, UndoInv, NEW c \in UndoCalls, Undo!DoUndo(c) \/ Undo!UndoRow(c) \/ Undo!PopUndone(c)
    PROVE  UndoInv'
<1>0. /\ ujDisk \in Disks /\ recycle \in [Slots -> UndoFiles] /\ store \in [UndoNames -> Nat]
      /\ journal \in Seq(Journaled) /\ serial \in Nat /\ AtPlace(ujCall[c])
  BY DEF UndoInv, UndoTyped
<1>1. CASE Undo!Fail(c)
  BY <1>1, CallFails
<1>2. CASE Undo!DoUndo(c) /\ ~Undo!Fail(c)
  <2>1. PICK e \in Journaled :
          /\ ujCall[c] = [op |-> "undo", at |-> "checked", entry |-> e]
          /\ e.kind = "delete" => e.slot \in Slots
    <3>1. UndoChecked(ujCall[c])
      BY <1>0, <1>2, PlaceOf DEF Undo!DoUndo
    <3> QED
      BY <3>1 DEF UndoChecked
  <2>2. ujCall[c].entry = e /\ [ujCall[c] EXCEPT !.at = "returned"] = [op |-> "undo", at |-> "returned", entry |-> e]
    BY <2>1
  <2>3. PICK k : k = [op |-> "undo", at |-> "returned", entry |-> e]
    OBVIOUS
  <2>4. /\ ujDisk' = Undo!Returned(e, ujDisk)
        /\ recycle' = IF e.kind = "delete" THEN [recycle EXCEPT ![e.slot] = Undo!None] ELSE recycle
        /\ ujCall' = [ujCall EXCEPT ![c].at = "returned"]
        /\ UNCHANGED <<store, journal, ujOps, serial>>
    BY <1>2, <2>2 DEF Undo!DoUndo
  <2>5. store' \in [UndoNames -> Nat]
    BY <1>0, <2>4
  <2>6. AtPlace(k)' /\ ujCall' = [ujCall EXCEPT ![c] = k]
    <3>1. AtPlace(k)'
      BY <2>3 DEF AtPlace, UndoDone
    <3>2. ujCall' = [ujCall EXCEPT ![c] = [ujCall[c] EXCEPT !.at = "returned"]]
      BY <2>4
    <3> QED
      BY <2>2, <2>3, <3>1, <3>2
  <2>7. e.from \in UndoNames /\ e.to \in UndoNames
    BY DEF Journaled
  <2>8. ujDisk' \in Disks /\ \A l \in UndoNames : Kept(ujDisk'[l])
    <3>1. CASE e.kind = "create"
      <4>1. ujDisk' = [ujDisk EXCEPT ![e.to] = Undo!None]
        BY <2>4, <3>1 DEF Undo!Returned, Undo!Emptied
      <4> QED
        BY <1>0, <2>7, <4>1, NoFile DEF Disks, Kept
    <3>2. CASE e.kind = "rename"
      <4>1. ujDisk' = [ujDisk EXCEPT ![e.from] = ujDisk[e.to], ![e.to] = Undo!None]
        BY <2>4, <3>2 DEF Undo!Returned
      <4> QED
        BY <1>0, <2>7, <4>1, NoFile DEF Disks, Kept
    <3>3. CASE e.kind = "delete"
      <4>1. ujDisk' = [ujDisk EXCEPT ![e.from] = recycle[e.slot]] /\ e.slot \in Slots
        BY <2>1, <2>4, <3>3 DEF Undo!Returned
      <4> QED
        BY <1>0, <2>7, <4>1 DEF Disks, Kept
    <3> QED
      BY <3>1, <3>2, <3>3 DEF Journaled
  <2>9. /\ recycle' \in [Slots -> UndoFiles]
        /\ \A s \in Slots : recycle'[s] \in {recycle[s], Undo!None}
    BY <1>0, <2>1, <2>4, NoFile
  <2>10. \A s \in Slots : Kept(recycle'[s])
    BY <2>9, NoFile DEF Kept
  <2>11. journal' \in Seq(Journaled) /\ \A j \in 1..Len(journal') :
            \/ Faithful(journal'[j], ujDisk', recycle', ujOps') \/ \E l \in 1..Len(journal) : journal'[j] = journal[l]
    BY <1>0, <2>4
  <2>12. serial' \in Nat /\ UNCHANGED ujOps
    BY <1>0, <2>4
  <2> QED
    BY <2>5, <2>6, <2>8, <2>9, <2>10, <2>11, <2>12, CallGoesOn
<1>4. CASE Undo!UndoRow(c) /\ ~Undo!Fail(c)
  <2>1. PICK at \in {"returned", "done"}, e \in Journaled : ujCall[c] = [op |-> "undo", at |-> at, entry |-> e]
    <3>1. UndoDone(ujCall[c])
      BY <1>0, <1>4, PlaceOf DEF Undo!UndoRow
    <3> QED
      BY <3>1 DEF UndoDone
  <2>2. ujCall[c].entry = e /\ [ujCall[c] EXCEPT !.at = "done"] = [op |-> "undo", at |-> "done", entry |-> e]
    BY <2>1
  <2>3. PICK k : k = [op |-> "undo", at |-> "done", entry |-> e]
    OBVIOUS
  <2>4. /\ serial' = IF e.kind = "delete" THEN serial + 1 ELSE serial
        /\ ujCall' = [ujCall EXCEPT ![c].at = "done"]
        /\ UNCHANGED <<ujDisk, recycle, journal, ujOps>>
    BY <1>4, <2>2 DEF Undo!UndoRow
  <2>5. e.from \in UndoNames /\ e.eid \in Nat
    BY DEF Journaled
  <2>6. store' \in [UndoNames -> Nat]
    <3>1. CASE e.kind = "create"
      <4>1. store' = [l \in UndoNames |-> IF store[l] = e.eid THEN 0 ELSE store[l]]
        BY <1>4, <2>2, <3>1 DEF Undo!UndoRow
      <4> QED
        BY <1>0, <4>1
    <3>2. CASE e.kind = "rename"
      <4>1. store' = Undo!Renamed(e.eid, e.from)
        BY <1>4, <2>2, <3>2 DEF Undo!UndoRow
      <4> QED
        BY <1>0, <2>5, <4>1, RenamedRows
    <3>3. CASE e.kind = "delete"
      <4>1. store' = [store EXCEPT ![e.from] = Undo!IdFor(e.from)]
        BY <1>4, <2>2, <3>3 DEF Undo!UndoRow
      <4>2. Undo!IdFor(e.from) \in Nat
        BY <1>0, <2>5 DEF Undo!IdFor
      <4> QED
        BY <1>0, <4>1, <4>2
    <3> QED
      BY <3>1, <3>2, <3>3 DEF Journaled
  <2>7. AtPlace(k)' /\ ujCall' = [ujCall EXCEPT ![c] = k]
    <3>1. AtPlace(k)'
      BY <2>3 DEF AtPlace, UndoDone
    <3>2. ujCall' = [ujCall EXCEPT ![c] = [ujCall[c] EXCEPT !.at = "done"]]
      BY <2>4
    <3> QED
      BY <2>2, <2>3, <3>1, <3>2
  <2>8. /\ \A n \in UndoNames : Kept(ujDisk'[n])
        /\ \A s \in Slots : Kept(recycle'[s]) /\ recycle'[s] = recycle[s]
    BY <2>4, FilesStay
  <2>9. journal' \in Seq(Journaled) /\ \A j \in 1..Len(journal') :
            \/ Faithful(journal'[j], ujDisk', recycle', ujOps') \/ \E l \in 1..Len(journal) : journal'[j] = journal[l]
    BY <1>0, <2>4
  <2>10. ujDisk' \in Disks /\ recycle' \in [Slots -> UndoFiles] /\ serial' \in Nat /\ UNCHANGED ujOps
    BY <1>0, <2>4
  <2> QED
    BY <2>6, <2>7, <2>8, <2>9, <2>10, CallGoesOn
<1>3. CASE Undo!PopUndone(c)
  <2>1. /\ journal' = IF journal = <<>> THEN journal ELSE Undo!Front(journal)
        /\ ujCall' = [ujCall EXCEPT ![c] = Undo!Idle] /\ UNCHANGED <<ujDisk, recycle, store, ujOps, serial>>
    BY <1>3 DEF Undo!PopUndone
  <2>2. journal' \in Seq(Journaled) /\ \A j \in 1..Len(journal') :
            \/ Faithful(journal'[j], ujDisk', recycle', ujOps') \/ \E l \in 1..Len(journal) : journal'[j] = journal[l]
    <3>1. CASE journal = <<>>
      BY <1>0, <2>1, <3>1
    <3>2. CASE journal # <<>>
      BY <1>0, <2>1, <3>2, PoppedKeeps
    <3> QED
      BY <3>1, <3>2
  <2>3. PICK k : k = Undo!Idle
    OBVIOUS
  <2>4. AtPlace(k)' /\ ujCall' = [ujCall EXCEPT ![c] = k]
    BY <2>1, <2>3 DEF AtPlace, Undo!Idle
  <2>5. /\ \A n \in UndoNames : Kept(ujDisk'[n])
        /\ \A s \in Slots : Kept(recycle'[s]) /\ recycle'[s] = recycle[s]
    BY <2>1, FilesStay
  <2>6. /\ ujDisk' \in Disks /\ recycle' \in [Slots -> UndoFiles] /\ store' \in [UndoNames -> Nat]
        /\ serial' \in Nat /\ UNCHANGED ujOps
    BY <1>0, <2>1
  <2>7. \A s \in Slots : recycle'[s] \in {recycle[s], Undo!None}
    BY <2>5
  <2> QED
    BY <2>2, <2>4, <2>5, <2>6, <2>7, CallGoesOn
<1> QED
  BY <1>1, <1>2, <1>3, <1>4

(* Other programs write between calls only, into files of their own inodes. *)
LEMMA OthersWrite ==
    ASSUME OneAtATime, UndoInv, NEW n \in UndoNames, NEW f \in UndoFiles, Undo!Foreign(n, f),
           Kept(f) \/ f.ino \in Undo!FreeInodes
    PROVE  UndoInv'
<1>0. /\ ujDisk \in Disks /\ recycle \in [Slots -> UndoFiles] /\ ujOps \in 0..MaxUndoOps /\ serial \in Nat
  BY DEF UndoInv, UndoTyped
<1>1. /\ ujDisk' = [ujDisk EXCEPT ![n] = f] /\ serial' = serial + 1
      /\ UNCHANGED <<recycle, store, journal, ujCall, ujOps>>
      /\ \A c \in UndoCalls : ujCall[c].op = "idle"
  BY DEF Undo!Foreign, OneAtATime, Undo!Waiting
<1>2. ujDisk' \in Disks /\ ujDisk'[n] = f /\ \A l \in UndoNames \ {n} : ujDisk'[l] = ujDisk[l]
  BY <1>0, <1>1 DEF Disks
<1>3. /\ \A l \in UndoNames : Kept(ujDisk'[l]) \/ ujDisk'[l].ino \in Undo!FreeInodes
      /\ \A s \in Slots : Kept(recycle'[s])
      /\ \A s \in Slots : recycle'[s] \in {recycle[s], Undo!None}
  BY <1>1, <1>2 DEF Kept
<1>4. ujOps' \in Nat /\ ujOps <= ujOps'
  BY <1>0, <1>1, UndoAssumption
<1>5. JournalIsFaithful'
  <2>1. \A j \in 1..Len(journal) : Faithful(journal[j], ujDisk', recycle', ujOps')
    BY <1>3, <1>4, JournalStays
  <2> QED
    BY <1>1, <2>1 DEF JournalIsFaithful
<1>6. ASSUME NEW c \in UndoCalls PROVE AtPlace(ujCall[c])'
  <2>1. PICK k : k = ujCall[c]
    OBVIOUS
  <2>2. AtPlace(k) /\ k.op = "idle"
    BY <1>1, <2>1 DEF UndoInv
  <2>3. k = Undo!Idle
    BY <2>2 DEF AtPlace, CreateChecked, CreateDone, RenamePlace, DeletePlace, UndoChecked, UndoDone
  <2>4. AtPlace(k)'
    BY <2>3 DEF AtPlace, Undo!Idle
  <2> QED
    BY <1>1, <2>1, <2>4
<1>7. UndoTyped'
  BY <1>0, <1>1, <1>2 DEF UndoInv, UndoTyped
<1> QED
  BY <1>5, <1>6, <1>7 DEF UndoInv

(* A place says nothing of what the watcher changes. *)
LEMMA PlaceStays ==
    ASSUME NEW k, AtPlace(k), UNCHANGED <<ujDisk, recycle, journal, ujOps>>
    PROVE  AtPlace(k)'
<1>1. CASE k = Undo!Idle
  BY <1>1 DEF AtPlace, Undo!Idle
<1>2. CASE CreateChecked(k)
  BY <1>2 DEF AtPlace, CreateChecked
<1>3. CASE CreateDone(k)
  <2>1. CreateDone(k)'
    BY <1>3 DEF CreateDone
  <2> QED
    BY <2>1 DEF AtPlace
<1>4. CASE RenamePlace(k)
  <2>1. RenamePlace(k)'
    <3>1. PICK at \in {"checked", "rowless", "cleared", "renamed", "refused", "done"},
              n \in UndoNames, m \in UndoNames, i \in Nat, by \in Ways, b \in Disks :
            /\ k = [op |-> "rename", at |-> at, eid |-> i, from |-> n, to |-> m, by |-> by, before |-> b]
            /\ n # m /\ RenameKnows(at, n, m, by, b)
      BY <1>4 DEF RenamePlace
    <3>2. RenameKnows(at, n, m, by, b)'
      BY <3>1 DEF RenameKnows
    <3> QED
      BY <3>1, <3>2 DEF RenamePlace
  <2> QED
    BY <2>1 DEF AtPlace
<1>6. CASE DeletePlace(k)
  <2>1. DeletePlace(k)'
    <3>1. ujDisk' = ujDisk /\ recycle' = recycle /\ journal' = journal /\ ujOps' = ujOps
      OBVIOUS
    <3>2. PICK at \in {"checked", "done"}, n \in UndoNames, i \in Nat, trash \in BOOLEAN, b \in Disks :
            /\ k = [op |-> "delete", at |-> at, eid |-> i, from |-> n, trash |-> trash, slot |-> ujOps, before |-> b]
            /\ ujOps \in Slots
            /\ \A j \in 1..Len(journal) : journal[j].kind = "delete" => journal[j].slot # ujOps
            /\ at = "done" => ujDisk = [b EXCEPT ![n] = Undo!None] /\ (trash => recycle[ujOps] = b[n])
      BY <1>6 DEF DeletePlace
    <3> QED
      BY <3>1, <3>2 DEF DeletePlace
  <2> QED
    BY <2>1 DEF AtPlace
<1>7. CASE UndoChecked(k)
  <2>1. UndoChecked(k)'
    BY <1>7 DEF UndoChecked, Undo!PinnedMatches
  <2> QED
    BY <2>1 DEF AtPlace
<1>8. CASE UndoDone(k)
  BY <1>8 DEF AtPlace, UndoDone
<1> QED
  BY <1>1, <1>2, <1>3, <1>4, <1>6, <1>7, <1>8 DEF AtPlace

(* The other programs, and the watcher. *)
LEMMA UndoOthers ==
    ASSUME OneAtATime, UndoInv, NEW n \in UndoNames,
           Undo!ForeignRemove(n) \/ Undo!ForeignWrite(n) \/ Undo!ForeignCreate(n) \/ Undo!Watch(n)
    PROVE  UndoInv'
<1>0. ujDisk[n] \in UndoFiles /\ store \in [UndoNames -> Nat] /\ serial \in Nat
  BY DEF UndoInv, UndoTyped, Disks
<1>1. CASE Undo!ForeignRemove(n)
  <2>1. PICK f \in UndoFiles : f = Undo!None
    BY NoFile
  <2>2. Undo!Foreign(n, f) /\ Kept(f)
    BY <1>1, <2>1, NoFile DEF Undo!ForeignRemove, Kept
  <2> QED
    BY <2>2, OthersWrite
<1>2. CASE Undo!ForeignWrite(n)
  <2>1. PICK f : f = [ujDisk[n] EXCEPT !.len = 1 - @]
    OBVIOUS
  <2>2. f \in UndoFiles /\ f.ino = ujDisk[n].ino /\ f.gen = ujDisk[n].gen
    BY <1>0, <2>1 DEF UndoFiles
  <2>3. Undo!Foreign(n, f) /\ Kept(f)
    BY <1>2, <2>1, <2>2 DEF Undo!ForeignWrite, Kept
  <2> QED
    BY <2>2, <2>3, OthersWrite
<1>3. CASE Undo!ForeignCreate(n)
  <2>1. PICK i \in Undo!FreeInodes, l \in 0..1 : Undo!Foreign(n, [ino |-> i, len |-> l, gen |-> serial + 1])
    BY <1>3 DEF Undo!ForeignCreate
  <2>2. PICK f : f = [ino |-> i, len |-> l, gen |-> serial + 1]
    OBVIOUS
  <2>3. f \in UndoFiles /\ f.ino = i
    BY <1>0, <2>2 DEF UndoFiles, Undo!FreeInodes
  <2> QED
    BY <2>1, <2>2, <2>3, OthersWrite
<1>4. CASE Undo!Watch(n)
  <2>1. /\ UNCHANGED <<ujDisk, recycle, journal, ujCall, ujOps>> /\ serial' = serial + 1
        /\ store' = [store EXCEPT ![n] = IF ujDisk[n] = Undo!None THEN 0 ELSE serial + 1]
    BY <1>4 DEF Undo!Watch
  <2>2. UndoTyped'
    BY <1>0, <2>1 DEF UndoInv, UndoTyped
  <2>3. JournalIsFaithful'
    BY <2>1 DEF UndoInv, JournalIsFaithful
  <2>4. ASSUME NEW c \in UndoCalls PROVE AtPlace(ujCall[c])'
    <3>1. PICK k : k = ujCall[c]
      OBVIOUS
    <3>2. AtPlace(k)
      BY <3>1 DEF UndoInv
    <3>3. AtPlace(k)'
      BY <2>1, <3>2, PlaceStays
    <3> QED
      BY <2>1, <3>1, <3>3
  <2> QED
    BY <2>2, <2>3, <2>4 DEF UndoInv
<1> QED
  BY <1>1, <1>2, <1>3, <1>4

(* Every step of the journal's calls keeps it faithful. *)
LEMMA UndoNextInv == ASSUME OneAtATime, UndoInv, Undo!Next PROVE UndoInv'
<1>1. ASSUME NEW c \in UndoCalls,
             \/ \E n \in UndoNames : Undo!BeginCreate(c, n)
             \/ \E n, m \in UndoNames, by \in Ways : Undo!BeginRename(c, n, m, by)
             \/ \E n \in UndoNames, trash \in BOOLEAN : Undo!BeginDelete(c, n, trash)
             \/ Undo!BeginUndo(c)
      PROVE  UndoInv'
  BY <1>1, UndoBegins
<1>2. ASSUME NEW c \in UndoCalls,
             \/ Undo!DoCreate(c) \/ Undo!RecordCreate(c) \/ Undo!ClearRow(c) \/ Undo!ClearFile(c)
             \/ Undo!DoRename(c) \/ Undo!RenameRow(c) \/ Undo!PutBack(c) \/ Undo!RecordRename(c)
             \/ Undo!DoDelete(c) \/ Undo!RecordDelete(c) \/ Undo!DoUndo(c) \/ Undo!UndoRow(c)
             \/ Undo!PopUndone(c)
      PROVE  UndoInv'
  BY <1>2, UndoCreates, UndoRenames, UndoDeletes, UndoUndoes
<1>3. ASSUME NEW n \in UndoNames,
             Undo!ForeignRemove(n) \/ Undo!ForeignWrite(n) \/ Undo!ForeignCreate(n) \/ Undo!Watch(n)
      PROVE  UndoInv'
  BY <1>3, UndoOthers
<1> QED
  BY <1>1, <1>2, <1>3 DEF Undo!Next, Ways

(* The step in which an undo acts is DoUndo, and it did not fail. *)
LEMMA OnlyDoUndo ==
    ASSUME OneAtATime, Undo!Next, NEW c \in UndoCalls, NEW e, Undo!Undoes(c, e)
    PROVE  Undo!DoUndo(c) /\ ~Undo!Fail(c)
<1>1. /\ ujCall[c].op = "undo" /\ ujCall[c].at = "checked"
      /\ ujCall'[c] # ujCall[c] /\ ujCall'[c].op = "undo"
  BY DEF Undo!Undoes
<1>2. Undo!Waiting(c)
  BY <1>1 DEF Undo!Waiting
<1>3. ~Undo!Fail(c)
  <2> SUFFICES ASSUME Undo!Fail(c) PROVE FALSE
    OBVIOUS
  <2>1. ujCall' = [ujCall EXCEPT ![c] = Undo!Idle]
    BY DEF Undo!Fail
  <2>2. ujCall'[c] \in {ujCall[c], Undo!Idle}
    BY <2>1
  <2> QED
    BY <1>1, <2>2 DEF Undo!Idle
<1>4. \A k : ~Undo!Begin(c, k)
  BY <1>2 DEF Undo!Begin
<1>5. ASSUME NEW n \in UndoNames, NEW f PROVE ~Undo!Foreign(n, f)
  BY <1>2 DEF Undo!Foreign, OneAtATime
<1>6. ASSUME NEW n \in UndoNames
      PROVE  ~(Undo!ForeignRemove(n) \/ Undo!ForeignWrite(n) \/ Undo!ForeignCreate(n) \/ Undo!Watch(n))
  <2>1. ~Undo!Watch(n)
    BY <1>1 DEF Undo!Watch
  <2> QED
    BY <1>5, <2>1 DEF Undo!ForeignRemove, Undo!ForeignWrite, Undo!ForeignCreate
<1>7. ~\E n \in UndoNames : Undo!BeginCreate(c, n)
  BY <1>4 DEF Undo!BeginCreate
<1>8. ~\E n, m \in UndoNames, by \in Ways : Undo!BeginRename(c, n, m, by)
  BY <1>4 DEF Undo!BeginRename
<1>9. ~\E n \in UndoNames, trash \in BOOLEAN : Undo!BeginDelete(c, n, trash)
  BY <1>4 DEF Undo!BeginDelete
<1>10. ~Undo!BeginUndo(c)
  BY <1>4 DEF Undo!BeginUndo
<1>11. /\ ~Undo!DoCreate(c) /\ ~Undo!RecordCreate(c) /\ ~Undo!DoRename(c) /\ ~Undo!RecordRename(c)
       /\ ~Undo!ClearRow(c) /\ ~Undo!ClearFile(c) /\ ~Undo!RenameRow(c) /\ ~Undo!PutBack(c)
       /\ ~Undo!DoDelete(c) /\ ~Undo!RecordDelete(c) /\ ~Undo!UndoRow(c) /\ ~Undo!PopUndone(c)
  BY <1>1 DEF Undo!DoCreate, Undo!RecordCreate, Undo!DoRename, Undo!RecordRename, Undo!DoDelete, Undo!PopUndone,
              Undo!ClearRow, Undo!ClearFile, Undo!RenameRow, Undo!PutBack, Undo!RecordDelete, Undo!UndoRow
<1>12. \A d \in UndoCalls : d = c
  BY DEF OneAtATime
<1> QED
  BY <1>3, <1>6, <1>7, <1>8, <1>9, <1>10, <1>11, <1>12 DEF Undo!Next, Ways

(* What an undo that acts knows of its entry, and what it does to the disk. *)
LEMMA UndoActs ==
    ASSUME OneAtATime, UndoInv, Undo!Next, NEW c \in UndoCalls, NEW e \in Undo!ToSet(journal), Undo!Undoes(c, e)
    PROVE  /\ e \in Journaled /\ Faithful(e, ujDisk, recycle, ujOps)
           /\ e.kind = "create" => Undo!PinnedMatches(e)
           /\ e.kind = "delete" => recycle[e.slot] # Undo!None
           /\ ujDisk' = Undo!Returned(e, ujDisk)
<1>1. Undo!DoUndo(c) /\ ~Undo!Fail(c)
  BY OnlyDoUndo
<1>2. ujCall[c].op = "undo" /\ ujCall[c].at = "checked" /\ ujCall[c].entry = e
  BY DEF Undo!Undoes
<1>3. journal \in Seq(Journaled) /\ AtPlace(ujCall[c])
  BY DEF UndoInv, UndoTyped
<1>4. PICK i \in 1..Len(journal) : journal[i] = e
  BY <1>3 DEF Undo!ToSet
<1>5. e \in Journaled /\ Faithful(e, ujDisk, recycle, ujOps)
  BY <1>3, <1>4 DEF UndoInv, JournalIsFaithful
<1>6. e.kind = "create" => Undo!PinnedMatches(e)
  <2>1. UndoChecked(ujCall[c])
    BY <1>2, <1>3, PlaceOf
  <2> QED
    BY <1>2, <2>1 DEF UndoChecked
<1>7. /\ e.kind = "delete" => recycle[e.slot] # Undo!None
      /\ ujDisk' = Undo!Returned(e, ujDisk)
  BY <1>1, <1>2 DEF Undo!DoUndo
<1> QED
  BY <1>5, <1>6, <1>7

(* A file that the pinned inode number names is the created one. *)
LEMMA RemovesItsFile ==
    ASSUME OneAtATime, UndoInv, Undo!Next, NEW c \in UndoCalls, NEW e \in Undo!ToSet(journal), Undo!Undoes(c, e),
           e.kind = "create", ujDisk[e.to] # Undo!None
    PROVE  ujDisk[e.to].gen = e.gen
<1>1. e \in Journaled /\ Faithful(e, ujDisk, recycle, ujOps) /\ Undo!PinnedMatches(e)
  BY UndoActs
<1>2. e.to \in UndoNames /\ ujDisk[e.to].ino = e.fs.ino
  BY <1>1 DEF Journaled, Undo!PinnedMatches
<1>3. Sole(e.fs.ino, e.gen, ujDisk, recycle)
  BY <1>1 DEF Faithful
<1> QED
  BY <1>2, <1>3 DEF Sole

(* On the disk the operation left, the undo gives back the disk it found.   *)
LEMMA RestoresTheDisk ==
    ASSUME OneAtATime, UndoInv, Undo!Next, NEW c \in UndoCalls, NEW e \in Undo!ToSet(journal), Undo!Undoes(c, e),
           ujDisk = e.after
    PROVE  ujDisk' = e.before
<1>1. e \in Journaled /\ Faithful(e, ujDisk, recycle, ujOps) /\ ujDisk' = Undo!Returned(e, ujDisk)
  BY UndoActs
<1>2. e.before \in [UndoNames -> UndoFiles] /\ e.from \in UndoNames /\ e.to \in UndoNames
  BY <1>1 DEF Journaled, Disks
<1>3. CASE e.kind = "create"
  <2>1. /\ e.before[e.to] = Undo!None /\ ujDisk = [e.before EXCEPT ![e.to] = ujDisk[e.to]]
        /\ ujDisk' = [ujDisk EXCEPT ![e.to] = Undo!None]
    BY <1>1, <1>3 DEF Faithful, Undo!Returned, Undo!Emptied
  <2> QED
    BY <1>2, <2>1
<1>4. CASE e.kind = "rename"
  <2>1. /\ e.from # e.to /\ e.before[e.to] = Undo!None
        /\ ujDisk = [e.before EXCEPT ![e.from] = Undo!None, ![e.to] = e.before[e.from]]
        /\ ujDisk' = [ujDisk EXCEPT ![e.from] = ujDisk[e.to], ![e.to] = Undo!None]
    BY <1>1, <1>4 DEF Faithful, Undo!Returned
  <2> QED
    BY <1>2, <2>1
<1>5. CASE e.kind = "delete"
  <2>1. recycle[e.slot] # Undo!None
    BY <1>5, UndoActs
  <2>2. /\ ujDisk = [e.before EXCEPT ![e.from] = Undo!None] /\ recycle[e.slot] = e.before[e.from]
        /\ ujDisk' = [ujDisk EXCEPT ![e.from] = recycle[e.slot]]
    BY <1>1, <1>5, <2>1 DEF Faithful, Undo!Returned
  <2> QED
    BY <1>2, <2>2
<1> QED
  BY <1>1, <1>3, <1>4, <1>5 DEF Journaled

(* Calls made one at a time, and other programs that keep still during a    *)
(* call: undoing a create removes that file and no other, inode numbers     *)
(* used again included, and an undo on the disk its operation left restores *)
(* the disk the operation found (undo_create, undo_rename_or_move,          *)
(* undo_soft_delete), whatever the journal's capacity evicted.              *)
THEOREM UndoStaysExact == OneAtATime /\ Undo!Spec => UndoIsExact
<1> SUFFICES ASSUME OneAtATime PROVE Undo!Spec => UndoIsExact
  OBVIOUS
<1>1. Undo!Init => UndoInv
  BY UndoInitInv
<1>2. UndoInv /\ [Undo!Next]_(Undo!vars) => UndoInv'
  <2>1. UndoInv /\ Undo!Next => UndoInv'
    BY UndoNextInv
  <2>2. UndoInv /\ UNCHANGED Undo!vars => UndoInv'
    <3> SUFFICES ASSUME UndoInv, UNCHANGED Undo!vars PROVE UndoInv'
      OBVIOUS
    <3>1. UNCHANGED <<ujDisk, recycle, store, journal, ujCall, ujOps, serial>>
      BY DEF Undo!vars
    <3>2. UndoTyped' /\ JournalIsFaithful'
      BY <3>1 DEF UndoInv, UndoTyped, JournalIsFaithful
    <3>3. ASSUME NEW c \in UndoCalls PROVE AtPlace(ujCall[c])'
      <4>1. PICK k : k = ujCall[c]
        OBVIOUS
      <4>2. AtPlace(k)
        BY <4>1 DEF UndoInv
      <4>3. AtPlace(k)'
        BY <3>1, <4>2, PlaceStays
      <4> QED
        BY <3>1, <4>1, <4>3
    <3> QED
      BY <3>2, <3>3 DEF UndoInv
  <2> QED
    BY <2>1, <2>2
<1>3. ASSUME UndoInv, [Undo!Next]_(Undo!vars)
      PROVE  [\A c \in UndoCalls : \A e \in Undo!ToSet(journal) :
                Undo!Undoes(c, e) /\ e.kind = "create" /\ ujDisk[e.to] # Undo!None
                    => ujDisk[e.to].gen = e.gen]_(Undo!vars)
  BY <1>3, RemovesItsFile
<1>4. ASSUME UndoInv, [Undo!Next]_(Undo!vars)
      PROVE  [\A c \in UndoCalls : \A e \in Undo!ToSet(journal) :
                Undo!Undoes(c, e) /\ ujDisk = e.after => ujDisk' = e.before]_(Undo!vars)
  BY <1>4, RestoresTheDisk
<1> QED
  BY <1>1, <1>2, <1>3, <1>4, PTL DEF Undo!Spec, UndoIsExact, Undo!UndoRemovesItsFile, Undo!UndoRestores
=============================================================================
