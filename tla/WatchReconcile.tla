--------------------------- MODULE WatchReconcile ---------------------------
(***************************************************************************)
(* How the tree store follows the disk: the watcher's raw events of one    *)
(* debounce window are coalesced, paired into renames, matched against the *)
(* engine's own mutations, and what is left is reconciled with fresh reads *)
(* of the disk (crates/mille-core/src/watcher.rs and intent.rs,            *)
(* crates/mille-binding/src/watch_runtime.rs, and the mutations and        *)
(* listings of explorer.rs).                                               *)
(*                                                                         *)
(* One watched directory, listed, whose entries are the Names.  What is    *)
(* below an entry is left out; so is the loss of the watched directory     *)
(* itself.  Other programs change the disk at any moment; the OS reports   *)
(* each change, in order, some time later.                                 *)
(***************************************************************************)
EXTENDS Naturals, Sequences, FiniteSets, SequencesExt

CONSTANTS
    Names,        \* the entries' names
    ByInode,      \* TRUE: macOS's try_pair_impl; FALSE: arrival order
    MaxActs       \* bound: changes other programs make, mutations, listings
                  \* asked for, backlog overflows and failed reads, together

VARIABLES
    disk,      \* disk[n]: [kind, ino], or None
    rows,      \* rows[n]: the store's entry, [kind, id], or None
    raw,       \* events the OS has reported and the window has not closed on
    batch,     \* what is left of the batch process_batch works on
    work,      \* the event being reconciled, and how far it got
    gate,      \* policy_gate: "free", "batch" or "load"
    load,      \* a listing in progress: what it has read so far
    intents,   \* IntentCache's entries, oldest first
    own,       \* the engine's own mutation in progress
    acts,      \* how many acts there were
    lost       \* history: names a change of was dropped

vars == <<disk, rows, raw, batch, work, gate, load, intents, own, acts, lost>>

None == [kind |-> "none", id |-> 0]
Kinds == {"file", "dir"}
NoWork == [at |-> "none"]
NoLoad == [at |-> "none"]
Ev(kind, n) == [kind |-> kind, path |-> n]
Absent(n) == disk[n] = None
KnownDir(n) == rows[n].kind = "dir"
IsDir(n) == disk[n].kind = "dir"
Act == acts < MaxActs /\ acts' = acts + 1

(* Inodes and entry ids: any number nothing still refers to will do.       *)
Index(n) == SelectInSeq(SetToSeq(Names), LAMBDA x : x = n)
InUse == {disk[n].id : n \in Names} \cup {rows[n].id : n \in Names}
         \cup (IF "id" \in DOMAIN own THEN {own.id} ELSE {})
         \cup (IF "after" \in DOMAIN own THEN {own.after[n].id : n \in DOMAIN own.after} ELSE {})
Unused == LET free(i) == InUse \cap i..(i + Cardinality(Names)) = {}
          IN CHOOSE i \in 1..(Max(InUse) + 1) : free(i) /\ \A j \in 1..(i - 1) : ~free(j)

Init ==
    /\ \E f \in [Names -> {"none"} \cup Kinds] :
         disk = [n \in Names |-> IF f[n] = "none" THEN None
                                 ELSE [kind |-> f[n], id |-> Index(n)]]
    /\ rows = disk
    /\ raw = <<>> /\ batch = <<>> /\ work = NoWork
    /\ gate = "free" /\ load = NoLoad
    /\ intents = <<>> /\ own = [at |-> "none"]
    /\ lost = {}
    /\ acts = 0

----------------------------------------------------------------------------
(* The disk, and what the OS says of a change to it.                       *)

Made(n, k) == disk' = [disk EXCEPT ![n] = [kind |-> k, id |-> Unused]]
Says(evs) == raw' = raw \o evs

CreateOnDisk(n, k) == Absent(n) /\ Made(n, k) /\ Says(<<Ev("C", n)>>)
DeleteOnDisk(n) ==
    /\ ~Absent(n)
    /\ disk' = [disk EXCEPT ![n] = None]
    /\ Says(<<Ev("D", n)>>)
RenameOnDisk(n, m) ==
    /\ n # m /\ ~Absent(n) /\ disk[m].kind \in {"none", "file"} /\ (IsDir(n) => Absent(m))
    /\ disk' = [disk EXCEPT ![n] = None, ![m] = disk[n]]
    /\ Says(<<Ev("Any", n), Ev("Any", m)>>)

(* A program writes an entry (a data event), changes its attributes (an    *)
(* ambiguous one), makes, removes or renames it, or moves it out.          *)
Foreign ==
    /\ Act
    /\ \E n \in Names :
         \/ \E k \in Kinds : CreateOnDisk(n, k)
         \/ DeleteOnDisk(n)
         \/ \E m \in Names : RenameOnDisk(n, m)
         \/ /\ ~Absent(n) /\ \E e \in {"M", "Any"} : Says(<<Ev(e, n)>>)
            /\ UNCHANGED disk
    /\ UNCHANGED <<rows, batch, work, gate, load, intents, own, lost>>

Overflow ==
    /\ Act
    /\ raw' = <<Ev("Overflow", CHOOSE n \in Names : TRUE)>>
    /\ UNCHANGED <<disk, rows, batch, work, gate, load, intents, own, lost>>

----------------------------------------------------------------------------
(* coalesce_events: per path, the net effect of the window's events where   *)
(* the first of them stood; an overflow stays in its place.                *)

Transition(prev, ev) ==
    CASE ev = "C" -> "Created"
      [] ev = "D" -> IF prev = "Created" THEN "Cancelled" ELSE "Deleted"
      [] ev = "M" -> IF prev \in {"Created", "Deleted"} THEN prev ELSE "Modified"
      [] ev = "Any" -> IF prev \in {"none", "Cancelled"} THEN "Unknown" ELSE prev
IsOf(e, n) == e.kind # "Overflow" /\ e.path = n
Net(evs, n) == FoldLeft(LAMBDA s, e : IF IsOf(e, n) THEN Transition(s, e.kind) ELSE s,
                        "none", evs)

Coalesce(evs) ==
    LET again(i) == \E j \in 1..(i - 1) : IsOf(evs[j], evs[i].path)
        slot(i) == CASE evs[i].kind = "Overflow" -> "Coarse"
                     [] evs[i].kind # "Overflow" /\ again(i) -> "again"
                     [] OTHER -> Net(evs, evs[i].path)
    IN SelectSeq([i \in 1..Len(evs) |-> Ev(slot(i), evs[i].path)],
                 LAMBDA e : e.kind \notin {"again", "Cancelled"})

(* Names created and deleted within the window: nothing is said of them.   *)
Cancelled(evs) == {n \in Names : Net(evs, n) = "Cancelled"}

(* RenamePairer::feed, then flush: halves pair within the batch, and one   *)
(* that finds no partner is degraded at the batch's end.                   *)
Partner(pending, n) ==
    IF ByInode
    THEN LET same == {i \in DOMAIN pending : ~Absent(n) /\ pending[i].stat = disk[n].id}
             other == {i \in DOMAIN pending : (pending[i].stat = 0) # Absent(n)}
             oldest(S) == CHOOSE i \in S : \A j \in S : i <= j
         IN IF same # {} THEN oldest(same) ELSE IF other # {} THEN oldest(other) ELSE 0
    ELSE IF pending = <<>> THEN 0 ELSE 1

Paired(p, n) == IF ByInode /\ Absent(n)
                THEN [kind |-> "Renamed", path |-> n, to |-> p]
                ELSE [kind |-> "Renamed", path |-> p, to |-> n]

Feed(s, e) ==
    IF e.kind # "Unknown" THEN [s EXCEPT !.out = Append(@, e)]
    ELSE LET i == Partner(s.pending, e.path)
         IN IF i = 0
            THEN [s EXCEPT !.pending = Append(@, [path |-> e.path, stat |-> disk[e.path].id])]
            ELSE [out |-> Append(s.out, Paired(s.pending[i].path, e.path)),
                  pending |-> RemoveAt(s.pending, i)]

FlushNothing(s) == s.out
Flush(s) == s.out \o [i \in 1..Len(s.pending) |-> Ev("Degraded", s.pending[i].path)]
Pair(evs) == Flush(FoldLeft(Feed, [out |-> <<>>, pending |-> <<>>], evs))

(* consume_intent: an event the engine's own mutation explains is dropped. *)
Intent(n, k) == [path |-> n, kind |-> k]
Wanted(e) ==
    CASE e.kind = "Created" -> <<Intent(e.path, "Create")>>
      [] e.kind = "Modified" -> <<Intent(e.path, "Modify")>>
      [] e.kind = "Deleted" -> <<Intent(e.path, "Delete")>>
      [] e.kind = "Renamed" -> <<Intent(e.path, "Rename"), Intent(e.to, "Rename")>>
      [] OTHER -> <<>>
Consume(cache, want) ==
    LET at == SelectInSeq(cache, LAMBDA x : x = want)
    IN IF at = 0 THEN cache ELSE RemoveAt(cache, at)
Filter(s, e) ==
    LET want == Wanted(e)
        left == FoldLeft(Consume, s.cache, want)
        hit == want # <<>> /\ Len(s.cache) - Len(left) = Len(want)
    IN [cache |-> left, kept |-> IF hit THEN s.kept ELSE Append(s.kept, e),
        hits |-> IF hit THEN s.hits \cup {want[i].path : i \in DOMAIN want} ELSE s.hits]

(* process_batch begins: the window closes on what the OS has reported so  *)
(* far, under policy_gate.                                                 *)
Deliver ==
    /\ gate = "free" /\ raw # <<>>
    /\ \E k \in 1..Len(raw) :
         LET evs == SubSeq(raw, 1, k)
             done == FoldLeft(Filter, [cache |-> intents, kept |-> <<>>, hits |-> {}],
                              Pair(Coalesce(evs)))
         IN /\ raw' = SubSeq(raw, k + 1, Len(raw))
            /\ batch' = done.kept
            /\ gate' = IF done.kept = <<>> THEN "free" ELSE "batch"
            /\ intents' = done.cache
            /\ lost' = lost \cup Cancelled(evs) \cup done.hits
    /\ UNCHANGED <<disk, rows, work, load, own, acts>>

Expire ==
    /\ intents # <<>>
    /\ intents' = Tail(intents)
    /\ UNCHANGED <<disk, rows, raw, batch, work, gate, load, own, acts, lost>>

----------------------------------------------------------------------------
(* reconcile_event: which directory to read again.                         *)

All == "all"     \* the scope that is the watched directory, depth one
NearestParent(n) == IF IsDir(n) /\ KnownDir(n) THEN n ELSE All

\* history: a row removed on an event's word while its entry is on disk
Forgotten(n) == IF Absent(n) THEN {} ELSE {n}

(* An event that needs no read, or the choice of a scope.                  *)
Begin ==
    /\ gate = "batch" /\ work = NoWork /\ batch # <<>>
    /\ LET e == Head(batch)
           n == e.path
       IN IF e.kind = "Deleted" /\ rows[n] # None
          THEN /\ rows' = [rows EXCEPT ![n] = None]
               /\ lost' = lost \cup Forgotten(n)
               /\ batch' = Tail(batch)
               /\ gate' = IF Tail(batch) = <<>> THEN "free" ELSE gate
               /\ UNCHANGED work
          ELSE /\ work' = [at |-> "read", e |-> e, toDir |-> FALSE,
                           scope |->
                 CASE e.kind = "Created" /\ rows[n] = None /\ IsDir(n) -> All
                   [] e.kind = "Renamed" /\ rows[n] = None ->
                        IF IsDir(e.to) THEN e.to ELSE NearestParent(e.to)
                   [] e.kind = "Renamed" /\ rows[n] # None ->
                        IF IsDir(e.to) /\ KnownDir(n) THEN e.to ELSE All
                   [] e.kind = "Coarse" -> All
                   [] OTHER -> NearestParent(n)]
               /\ UNCHANGED <<rows, batch, gate, lost>>
    /\ UNCHANGED <<disk, raw, load, intents, own, acts>>

Covered(scope) == IF scope = All THEN Names ELSE {scope}
Read ==
    /\ work.at = "read"
    /\ work' = [work EXCEPT !.at = "apply", !.toDir = work.e.kind = "Renamed" /\ IsDir(work.e.to)]
                  @@ [listing |-> [n \in Covered(work.scope) |-> disk[n].kind]]
    /\ UNCHANGED <<disk, rows, raw, batch, gate, load, intents, own, acts, lost>>

(* apply_directory: an entry the listing lacks goes; a directory replaced  *)
(* by something else gets a new id; the rest are updated in place.         *)
Row(n, old, kind) ==
    IF kind = "none" THEN None
    ELSE IF old = None \/ (old.kind = "dir" /\ kind # "dir")
    THEN [kind |-> kind, id |-> Unused + Index(n)]
    ELSE [old EXCEPT !.kind = kind]
Applied(store, listing) ==
    [n \in Names |-> IF n \in DOMAIN listing THEN Row(n, store[n], listing[n]) ELSE store[n]]

Done ==
    /\ batch' = Tail(batch) /\ work' = NoWork
    /\ gate' = IF Tail(batch) = <<>> THEN "free" ELSE gate

(* A rename the store can make is made first, keeping the id; one it       *)
(* refuses is a removal and a reconciliation of the destination.           *)
Renaming == work.e.kind = "Renamed" /\ rows[work.e.path] # None /\ ~("retry" \in DOMAIN work)
Moved(n, m) == [rows EXCEPT ![m] = rows[n], ![n] = None]
Apply ==
    /\ work.at = "apply"
    /\ LET n == work.e.path IN
       \/ /\ ~Renaming
          /\ rows' = Applied(rows, work.listing)
          /\ lost' = (lost \cup (IF work.e.kind = "Renamed" THEN Forgotten(n) ELSE {}))
                        \ DOMAIN work.listing
          /\ Done
       \/ /\ Renaming /\ rows[work.e.to] = None
          /\ rows' = Applied(Moved(n, work.e.to), work.listing)
          /\ lost' = (lost \cup Forgotten(n)) \ DOMAIN work.listing
          /\ Done
       \/ /\ Renaming /\ rows[work.e.to] # None
          /\ rows' = [rows EXCEPT ![n] = None]
          /\ lost' = lost \cup Forgotten(n)
          /\ work' = [at |-> "read", e |-> work.e, toDir |-> FALSE, retry |-> TRUE,
                      scope |-> IF work.toDir THEN work.e.to ELSE NearestParent(work.e.to)]
          /\ UNCHANGED <<batch, gate>>
    /\ UNCHANGED <<disk, raw, load, intents, own, acts>>

(* A read of the bounded pool fails (an OS error, a call that never comes   *)
(* back, a closed pool): the event is given up and only reported.  A rename *)
(* of a known entry is made, or refused and removed, all the same.          *)
PathsOf(e) == CASE e.kind = "Renamed" -> {e.path, e.to}
                [] e.kind = "Coarse" -> Names
                [] OTHER -> {e.path}
ReadFails ==
    /\ work.at = "read" /\ Act
    /\ rows' = IF ~Renaming THEN rows
               ELSE IF rows[work.e.to] = None THEN Moved(work.e.path, work.e.to)
               ELSE [rows EXCEPT ![work.e.path] = None]
    /\ lost' = lost \cup PathsOf(work.e)
    /\ Done
    /\ UNCHANGED <<disk, raw, load, intents, own>>

----------------------------------------------------------------------------
(* A listing somebody asked for (resync, expand): names are read one page  *)
(* at a time and published as they come; only the end of the directory     *)
(* removes what was not seen.  A cancelled one removes nothing.            *)

LoadBegin ==
    /\ gate = "free" /\ Act
    /\ gate' = "load" /\ load' = [at |-> "page", seen |-> {}, todo |-> Names]
    /\ UNCHANGED <<disk, rows, raw, batch, work, intents, own, lost>>

LoadPage ==
    /\ load.at = "page"
    /\ \E n \in load.todo :
         /\ load' = [load EXCEPT !.todo = @ \ {n}, !.seen = IF Absent(n) THEN @ ELSE @ \cup {n}]
         /\ rows' = IF Absent(n) THEN rows
                    ELSE [rows EXCEPT ![n] = Row(n, @, disk[n].kind)]
         /\ lost' = IF Absent(n) THEN lost ELSE lost \ {n}
         /\ UNCHANGED <<disk, raw, batch, work, gate, intents, own, acts>>

LoadEnd ==
    /\ load.at = "page"
    /\ \/ /\ load.todo = {}
          /\ rows' = [n \in Names |-> IF n \in load.seen THEN rows[n] ELSE None]
          /\ lost' = lost \cap load.seen
       \/ UNCHANGED <<rows, lost>>
    /\ load' = NoLoad /\ gate' = "free"
    /\ UNCHANGED <<disk, raw, batch, work, intents, own, acts>>

----------------------------------------------------------------------------
(* The engine's own mutations: the disk first, then the intent, then the   *)
(* store.                                                                  *)

After(touched) == [x \in touched |-> disk'[x]]
OwnCreate(n) ==
    /\ \E k \in Kinds : CreateOnDisk(n, k)
    /\ own' = [at |-> "intent", op |-> "create", n |-> n, after |-> After({n})]
OwnDelete(n) ==
    /\ rows[n] # None /\ DeleteOnDisk(n)
    /\ own' = [at |-> "intent", op |-> "delete", n |-> n, id |-> rows[n].id,
               after |-> After({n})]
OwnRename(n, m) ==
    /\ rows[n] # None /\ Absent(m) /\ RenameOnDisk(n, m)
    /\ own' = [at |-> "intent", op |-> "rename", n |-> n, m |-> m, id |-> rows[n].id,
               after |-> After({n, m})]

OwnBegin ==
    /\ own.at = "none" /\ Act
    /\ \E n \in Names : OwnCreate(n) \/ OwnDelete(n) \/ \E m \in Names : OwnRename(n, m)
    /\ UNCHANGED <<rows, batch, work, gate, load, intents, lost>>

(* The intent is recorded; create also stats what it made, and fails when  *)
(* it is gone already.                                                     *)
OwnIntent ==
    /\ own.at = "intent"
    /\ intents' = intents \o
         (CASE own.op = "create" -> <<Intent(own.n, "Create")>>
            [] own.op = "delete" -> <<Intent(own.n, "Delete")>>
            [] own.op = "rename" -> <<Intent(own.n, "Rename"), Intent(own.m, "Rename")>>)
    /\ own' = IF own.op = "create" /\ Absent(own.n) THEN [at |-> "none"]
              ELSE IF own.op = "create"
              THEN [own EXCEPT !.at = "store"] @@ [kind |-> disk[own.n].kind]
              ELSE [own EXCEPT !.at = "store"]
    /\ UNCHANGED <<disk, rows, raw, batch, work, gate, load, acts, lost>>

At(id) == {n \in Names : rows[n] # None /\ rows[n].id = id}
OwnStore ==
    /\ own.at = "store" /\ (own.op # "delete" => gate = "free")
    /\ own' = [at |-> "none"]
    /\ CASE own.op = "create" -> rows' = [rows EXCEPT ![own.n] = Row(own.n, @, own.kind)]
         [] own.op = "delete" -> rows' = [n \in Names |-> IF n \in At(own.id) THEN None ELSE rows[n]]
         [] own.op = "rename" ->
              rows' = IF rows[own.m] # None \/ At(own.id) = {} THEN rows
                      ELSE Moved(CHOOSE n \in At(own.id) : TRUE, own.m)
    /\ lost' = lost \cup {n \in DOMAIN own.after : disk[n] # own.after[n]}
                    \cup (IF own.op = "create" THEN {} ELSE At(own.id) \ DOMAIN own.after)
    /\ UNCHANGED <<disk, raw, batch, work, gate, load, intents, acts>>

Next == \/ Foreign \/ Overflow \/ Deliver \/ Expire \/ Begin \/ Read \/ ReadFails \/ Apply
        \/ LoadBegin \/ LoadPage \/ LoadEnd \/ OwnBegin \/ OwnIntent \/ OwnStore

Spec == Init /\ [][Next]_vars

----------------------------------------------------------------------------
EntryType(e) == e = None \/ (e.kind \in Kinds /\ e.id \in Nat \ {0})
TypeOK ==
    /\ DOMAIN disk = Names /\ DOMAIN rows = Names
    /\ \A n \in Names : EntryType(disk[n]) /\ EntryType(rows[n])
    /\ gate \in {"free", "batch", "load"} /\ lost \subseteq Names
    /\ gate = "batch" <=> batch # <<>>

(* When nothing is on its way (no event, batch, listing or mutation), the  *)
(* store says what the disk says: no row for what is gone, none missing,   *)
(* none of the wrong kind.                                                 *)
Quiet == raw = <<>> /\ gate = "free" /\ own.at = "none"
Agrees(n) == rows[n].kind = disk[n].kind
QuietIsAccurate == Quiet => \A n \in Names : Agrees(n)

(* However foreign changes, renames paired rightly or wrongly, overflows,  *)
(* listings, cancelled listings and own mutations interleave, the store    *)
(* disagrees with the disk at rest only about an entry of which one of     *)
(* these dropped a change: a create and a delete that cancelled out; an    *)
(* intent that swallowed the event; a row removed or moved on an event's   *)
(* word while its entry is on disk (a delete undone since, two ambiguous   *)
(* events of directories taken for a rename); an own mutation whose entry  *)
(* somebody changed or renamed before the store had it; an event given up  *)
(* because its read failed.  A listing heals it.                           *)
DivergenceIsDropped == Quiet => \A n \in Names : Agrees(n) \/ n \in lost
=============================================================================
