---------------------------- MODULE UndoJournal -----------------------------
(***************************************************************************)
(* The native explorer's mutations and the journal behind undo():          *)
(* create, rename, move, delete and undo of                                *)
(* crates/mille-binding/src/explorer.rs over the OperationJournal of       *)
(* journal.rs.  Every mutation is an async call: it checks, awaits the     *)
(* file system, and journals what it did, so several may be under way and  *)
(* other programs may touch the same files.                                *)
(*                                                                         *)
(* Entries are files.  A name stands for a path, whatever its directory: a *)
(* move without overwriting is a rename here.  A file is its inode number, *)
(* its length, and a serial number gen that no code can see.               *)
(***************************************************************************)
EXTENDS Integers, Sequences, FiniteSets, SequencesExt

CONSTANTS
    Names,
    Inodes,       \* inode numbers: the file system reuses them
    Calls,        \* mutations that may be under way at once
    Capacity,     \* bound: the journal's capacity (64 in the code)
    MaxOps,       \* bound: mutations started
    MaxForeign,   \* bound: changes made by other programs
    MidCall       \* other programs change files during a call, too

VARIABLES
    disk,      \* the file under each name, or None
    recycle,   \* the file each soft delete moved away, by the delete's number
    store,     \* path_to_id: the entry id under each name, or 0
    journal,   \* OperationJournal.stack
    call,      \* where each call is
    ops,       \* mutations started
    foreign,   \* changes made by others
    serial     \* the last gen, and the last entry id, given out

vars == <<disk, recycle, store, journal, call, ops, foreign, serial>>

None == [ino |-> 0, len |-> 0, gen |-> 0]
Idle == [op |-> "idle"]
Waiting(c) == call[c].op # "idle"

(* FsIdentity: device and inode, and the length of a file. *)
Fs(file) == [ino |-> file.ino, len |-> file.len]

PinnedNothing == {}

(* An inode number is taken while a name, the recycle directory or an open *)
(* handle (CreateIdentity::pin) keeps the file.                            *)
Pinned == {journal[i].fs.ino : i \in {j \in DOMAIN journal : journal[j].kind = "create"}}
FreeInodes ==
    Inodes \ ({disk[n].ino : n \in Names} \cup {recycle[k].ino : k \in 1..MaxOps}
              \cup Pinned)

Init ==
    /\ \E n \in Names :
          /\ disk = [m \in Names |-> IF m = n
                                     THEN [ino |-> CHOOSE i \in Inodes : TRUE, len |-> 1, gen |-> 1]
                                     ELSE None]
          /\ store = [m \in Names |-> IF m = n THEN 1 ELSE 0]
    /\ recycle = [k \in 1..MaxOps |-> None]
    /\ journal = <<>>
    /\ call = [c \in Calls |-> Idle]
    /\ ops = 0 /\ foreign = 0 /\ serial = 1

Begin(c, at) ==
    /\ ~Waiting(c) /\ ops < MaxOps
    /\ ops' = ops + 1
    /\ call' = [call EXCEPT ![c] = at]
    /\ UNCHANGED <<disk, recycle, store, journal, foreign, serial>>

(* The call failed: an error to the caller, nothing journaled. *)
Fail(c) ==
    /\ call' = [call EXCEPT ![c] = Idle]
    /\ UNCHANGED <<disk, recycle, store, journal, ops, foreign, serial>>

(* push_undoable: a full stack drops its oldest entry.  cleanup_evicted    *)
(* calls remove_dir_all on the recycled file, which refuses what is not a  *)
(* directory, so the file stays.                                           *)
Pushed(entry) ==
    LET grown == Append(journal, entry)
    IN  SubSeq(grown, Len(grown) - Min({Capacity, Len(grown)}) + 1, Len(grown))

(* What is journaled, with two things for the properties: the disk before  *)
(* the operation and after it.                                             *)
Entry(kind, eid, from, to, file, slot, before) ==
    [kind |-> kind, eid |-> eid, from |-> from, to |-> to, fs |-> Fs(file),
     gen |-> file.gen, slot |-> slot, before |-> before, after |-> disk]
-----------------------------------------------------------------------------
(* create: the destination must be free, when it is checked and again when *)
(* create_new opens it; then the file is looked at, inserted and journaled.*)
BeginCreate(c, n) ==
    /\ disk[n] = None
    /\ Begin(c, [op |-> "create", at |-> "checked", to |-> n])

DoCreate(c) ==
    LET n == call[c].to
    IN  /\ call[c].op = "create" /\ call[c].at = "checked"
        /\ \/ disk[n] # None /\ Fail(c)
           \/ /\ disk[n] = None
              /\ \E i \in FreeInodes :
                    disk' = [disk EXCEPT ![n] = [ino |-> i, len |-> 0,
                                                 gen |-> serial + 1]]
              /\ serial' = serial + 1
              /\ call' = [call EXCEPT ![c] = [op |-> "create", at |-> "done",
                                              to |-> n, before |-> disk]]
              /\ UNCHANGED <<recycle, store, journal, ops, foreign>>

(* TreeStore::insert: the id of the path if it has one, else a new one. *)
IdFor(n) == IF store[n] # 0 THEN store[n] ELSE serial + 1

RecordCreate(c) ==
    LET n == call[c].to
    IN  /\ call[c].op = "create" /\ call[c].at = "done"
        /\ \/ disk[n] = None /\ Fail(c)
           \/ /\ disk[n] # None
              /\ store' = [store EXCEPT ![n] = IdFor(n)]
              /\ serial' = serial + 1
              /\ journal' = Pushed(Entry("create", IdFor(n), n, n, disk[n], 0,
                                         call[c].before))
              /\ call' = [call EXCEPT ![c] = Idle]
              /\ UNCHANGED <<disk, recycle, ops, foreign>>

(* rename, and move_entry under a collision policy.  Only an overwriting   *)
(* move takes a destination that is not free.                              *)
BeginRename(c, n, m, by) ==
    /\ store[n] # 0 /\ n # m
    /\ by = "overwrite" <=> disk[m] # None
    /\ Begin(c, [op |-> "rename", at |-> "checked", eid |-> store[n],
                 from |-> n, to |-> m, by |-> by, before |-> disk])

(* Where a rename is: `by' what kind, and from which disk it took the file. *)
RenameAt(c, at, by, before) ==
    [op |-> "rename", at |-> at, eid |-> call[c].eid, from |-> call[c].from,
     to |-> call[c].to, by |-> by, before |-> before]

(* An overwriting move drops the row of its destination, then the file; if *)
(* there is none by now, it is a move like any other.                      *)
ClearRow(c) ==
    /\ call[c].op = "rename" /\ call[c].at = "checked" /\ call[c].by = "overwrite"
    /\ \/ store[call[c].to] = call[c].eid /\ Fail(c)
       \/ /\ store[call[c].to] # call[c].eid
          /\ store' = [store EXCEPT ![call[c].to] = 0]
          /\ call' = [call EXCEPT ![c].at = "rowless"]
          /\ UNCHANGED <<disk, recycle, journal, ops, foreign, serial>>

ClearFile(c) ==
    LET m == call[c].to
    IN  /\ call[c].op = "rename" /\ call[c].at = "rowless"
        /\ disk' = [disk EXCEPT ![m] = None]
        /\ call' = [call EXCEPT ![c] =
                       RenameAt(c, "cleared", IF disk[m] = None THEN "move" ELSE "overwrite",
                                call[c].before)]
        /\ UNCHANGED <<recycle, store, journal, ops, foreign, serial>>

(* The rename itself replaces whatever is there by then. *)
DoRename(c) ==
    LET n == call[c].from
        m == call[c].to
    IN  /\ call[c].op = "rename"
        /\ call[c].at = "cleared" \/ (call[c].at = "checked" /\ call[c].by # "overwrite")
        /\ \/ disk[n] = None /\ Fail(c)
           \/ /\ disk[n] # None
              /\ disk' = [disk EXCEPT ![n] = None, ![m] = disk[n]]
              /\ call' = [call EXCEPT ![c] = RenameAt(c, "renamed", call[c].by, disk)]
              /\ UNCHANGED <<recycle, store, journal, ops, foreign, serial>>

(* TreeStore::rename refuses an id that is gone and a path that another    *)
(* entry has.                                                              *)
Renamable(eid, m) ==
    /\ \E n \in Names : store[n] = eid
    /\ store[m] \in {0, eid}
Renamed(eid, m) ==
    [k \in Names |-> IF k = m THEN eid ELSE IF store[k] = eid THEN 0 ELSE store[k]]

(* When the store refuses, rename fails with the file renamed; a move goes *)
(* on to put it back.                                                      *)
RenameRow(c) ==
    /\ call[c].op = "rename" /\ call[c].at = "renamed"
    /\ \/ /\ Renamable(call[c].eid, call[c].to)
          /\ store' = Renamed(call[c].eid, call[c].to)
          /\ call' = [call EXCEPT ![c].at = "done"]
          /\ UNCHANGED <<disk, recycle, journal, ops, foreign, serial>>
       \/ /\ ~Renamable(call[c].eid, call[c].to)
          /\ IF call[c].by = "rename" THEN Fail(c)
             ELSE /\ call' = [call EXCEPT ![c].at = "refused"]
                  /\ UNCHANGED <<disk, recycle, store, journal, ops, foreign, serial>>

PutBack(c) ==
    LET n == call[c].from
        m == call[c].to
    IN  /\ call[c].op = "rename" /\ call[c].at = "refused"
        /\ disk' = IF disk[m] = None THEN disk
                   ELSE [disk EXCEPT ![n] = disk[m], ![m] = None]
        /\ call' = [call EXCEPT ![c] = Idle]
        /\ UNCHANGED <<recycle, store, journal, ops, foreign, serial>>

(* An overwritten destination is reported, not journaled.  The file may    *)
(* fail to be looked at: rename then ends with an error, and a move        *)
(* journals what the store knew of the file, without an inode.             *)
Journals(c, file) ==
    /\ journal' = Pushed(Entry("rename", call[c].eid, call[c].from, call[c].to, file, 0,
                               call[c].before))
    /\ call' = [call EXCEPT ![c] = Idle]
    /\ UNCHANGED <<disk, recycle, store, ops, foreign, serial>>

RecordRename(c) ==
    /\ call[c].op = "rename" /\ call[c].at = "done"
    /\ \/ call[c].by # "move" /\ Fail(c)
       \/ call[c].by = "move" /\ Journals(c, [call[c].before[call[c].from] EXCEPT !.ino = 0])
       \/ /\ call[c].by # "overwrite" /\ disk[call[c].to] # None
          /\ Journals(c, disk[call[c].to])

(* delete: into the recycle directory, or for good (trash: false). *)
BeginDelete(c, n, trash) ==
    /\ store[n] # 0
    /\ Begin(c, [op |-> "delete", at |-> "checked", eid |-> store[n], from |-> n,
                 trash |-> trash, slot |-> ops + 1, before |-> disk])

DoDelete(c) ==
    LET n == call[c].from
    IN  /\ call[c].op = "delete" /\ call[c].at = "checked"
        /\ \/ disk[n] = None /\ Fail(c)
           \/ /\ disk[n] # None
              /\ disk' = [disk EXCEPT ![n] = None]
              /\ recycle' = IF call[c].trash THEN [recycle EXCEPT ![call[c].slot] = disk[n]]
                            ELSE recycle
              /\ call' = [call EXCEPT ![c] =
                             [op |-> "delete", at |-> "done", eid |-> call[c].eid, from |-> n,
                              trash |-> call[c].trash, slot |-> call[c].slot, before |-> disk]]
              /\ UNCHANGED <<store, journal, ops, foreign, serial>>

(* The recycled file is looked at before its row goes and the delete is    *)
(* journaled: if that fails, the row stays and nothing is journaled.       *)
RecordDelete(c) ==
    LET n == call[c].from
        e == Entry("delete", call[c].eid, n, n, recycle[call[c].slot], call[c].slot,
                   call[c].before)
    IN  /\ call[c].op = "delete" /\ call[c].at = "done"
        /\ \/ call[c].trash /\ Fail(c)
           \/ /\ store' = [k \in Names |-> IF store[k] = call[c].eid THEN 0 ELSE store[k]]
              /\ journal' = IF call[c].trash THEN Pushed(e) ELSE journal
              /\ call' = [call EXCEPT ![c] = Idle]
              /\ UNCHANGED <<disk, recycle, ops, foreign, serial>>
-----------------------------------------------------------------------------
(* CreateIdentity::pinned_matches_disk: the handle kept open names the     *)
(* inode, and the length it compares is the one the handle reads now.      *)
PinnedMatches(e) == disk[e.to] # None => disk[e.to].ino = e.fs.ino

(* FsIdentity::matches_disk: without an inode, the length and timestamps,   *)
(* which another file does not have.                                       *)
Matches(e, file) ==
    IF e.fs.ino # 0 THEN Fs(file) = e.fs ELSE file.gen = e.gen /\ file.len = e.fs.len

(* The checks of undo_create, undo_rename_or_move and undo_soft_delete. *)
MayUndo(e) ==
    CASE e.kind = "create" -> store[e.to] = e.eid /\ PinnedMatches(e)
      [] e.kind = "rename" -> /\ disk[e.to] # None /\ disk[e.from] = None
                              /\ store[e.to] = e.eid
                              /\ Matches(e, disk[e.to])
      [] e.kind = "delete" -> /\ recycle[e.slot] # None /\ disk[e.from] = None
                              /\ Matches(e, recycle[e.slot])

BeginUndo(c) ==
    /\ journal # <<>>
    /\ MayUndo(Last(journal))
    /\ Begin(c, [op |-> "undo", at |-> "checked", entry |-> Last(journal)])

Emptied(e, where) == [where EXCEPT ![e.to] = None]
ReturnedByCopy(e, where) ==
    CASE e.kind = "create" -> Emptied(e, where)
      [] e.kind = "rename" -> [where EXCEPT ![e.from] = where[e.to]]
      [] e.kind = "delete" -> [where EXCEPT ![e.from] = recycle[e.slot]]

Returned(e, where) ==
    CASE e.kind = "create" -> Emptied(e, where)
      [] e.kind = "rename" -> [where EXCEPT ![e.from] = where[e.to], ![e.to] = None]
      [] e.kind = "delete" -> [where EXCEPT ![e.from] = recycle[e.slot]]

DoUndo(c) ==
    LET e == call[c].entry
        gone == (e.kind = "rename" /\ disk[e.to] = None)
                    \/ (e.kind = "delete" /\ recycle[e.slot] = None)
    IN  /\ call[c].op = "undo" /\ call[c].at = "checked"
        /\ \/ gone /\ Fail(c)
           \/ /\ ~gone
              /\ disk' = Returned(e, disk)
              /\ recycle' = IF e.kind = "delete" THEN [recycle EXCEPT ![e.slot] = None]
                            ELSE recycle
              /\ call' = [call EXCEPT ![c].at = "returned"]
              /\ UNCHANGED <<store, journal, ops, foreign, serial>>

(* The rows after an undo.  A restored file is inserted like a new one: it *)
(* gets an id of its own.                                                  *)
UndoRow(c) ==
    LET e == call[c].entry
        fails == \/ e.kind = "rename" /\ ~Renamable(e.eid, e.from)
                 \/ e.kind = "delete" /\ disk[e.from] = None
    IN  /\ call[c].op = "undo" /\ call[c].at = "returned"
        /\ \/ fails /\ Fail(c)
           \/ /\ ~fails
              /\ store' =
                    CASE e.kind = "create" ->
                            [k \in Names |-> IF store[k] = e.eid THEN 0 ELSE store[k]]
                      [] e.kind = "rename" -> Renamed(e.eid, e.from)
                      [] e.kind = "delete" -> [store EXCEPT ![e.from] = IdFor(e.from)]
              /\ serial' = IF e.kind = "delete" THEN serial + 1 ELSE serial
              /\ call' = [call EXCEPT ![c].at = "done"]
              /\ UNCHANGED <<disk, recycle, journal, ops, foreign>>

(* The journal's last entry is dropped, whichever it is by now. *)
PopUndone(c) ==
    /\ call[c].op = "undo" /\ call[c].at = "done"
    /\ journal' = IF journal = <<>> THEN journal ELSE Front(journal)
    /\ call' = [call EXCEPT ![c] = Idle]
    /\ UNCHANGED <<disk, recycle, store, ops, foreign, serial>>
-----------------------------------------------------------------------------
(* Other programs, and the watcher that brings the store up to date. *)
Foreign(n, file) ==
    /\ MidCall \/ \A c \in Calls : ~Waiting(c)
    /\ foreign < MaxForeign
    /\ foreign' = foreign + 1
    /\ disk' = [disk EXCEPT ![n] = file]
    /\ serial' = serial + 1
    /\ UNCHANGED <<recycle, store, journal, call, ops>>

ForeignRemove(n) == disk[n] # None /\ Foreign(n, None)
ForeignWrite(n) == disk[n] # None /\ Foreign(n, [disk[n] EXCEPT !.len = 1 - @])
ForeignCreate(n) ==
    /\ disk[n] = None
    /\ \E i \in FreeInodes, len \in 0..1 :
          Foreign(n, [ino |-> i, len |-> len, gen |-> serial + 1])

(* The watcher reads a row anew.  It is told of what other programs did:    *)
(* the events of own calls are taken back by their intents.                *)
Watch(n) ==
    /\ (disk[n] = None) # (store[n] = 0)
    /\ foreign > 0
    /\ store' = [store EXCEPT ![n] = IF disk[n] = None THEN 0 ELSE serial + 1]
    /\ serial' = serial + 1
    /\ UNCHANGED <<disk, recycle, journal, call, ops, foreign>>

Next ==
    \/ \E c \in Calls :
        \/ \E n \in Names : BeginCreate(c, n)
        \/ \E n, m \in Names, by \in {"rename", "move", "overwrite"} : BeginRename(c, n, m, by)
        \/ \E n \in Names, trash \in BOOLEAN : BeginDelete(c, n, trash)
        \/ BeginUndo(c)
        \/ DoCreate(c) \/ RecordCreate(c)
        \/ ClearRow(c) \/ ClearFile(c) \/ DoRename(c) \/ RenameRow(c) \/ PutBack(c)
        \/ RecordRename(c)
        \/ DoDelete(c) \/ RecordDelete(c)
        \/ DoUndo(c) \/ UndoRow(c) \/ PopUndone(c)
    \/ \E n \in Names : ForeignRemove(n) \/ ForeignWrite(n) \/ ForeignCreate(n) \/ Watch(n)

Spec == Init /\ [][Next]_vars
-----------------------------------------------------------------------------
Undoes(c, e) ==
    /\ call[c].op = "undo" /\ call[c].at = "checked" /\ call[c].entry = e
    /\ call'[c] # call[c] /\ call'[c].op = "undo"

(* Every entry id is under one name, and no two names share a file. *)
TypeOK ==
    /\ \A n, m \in Names : n # m /\ store[n] = store[m] => store[n] = 0
    /\ \A n, m \in Names : n # m /\ disk[n].gen = disk[m].gen => disk[n] = None
    /\ Len(journal) <= Capacity
    /\ ops \in 0..MaxOps /\ foreign \in 0..MaxForeign

(* Undoing a create removes the file that was created and no other, even   *)
(* when the file was replaced by one that got a recycled inode number.     *)
UndoRemovesItsFile ==
    [][\A c \in Calls : \A e \in ToSet(journal) :
          Undoes(c, e) /\ e.kind = "create" /\ disk[e.to] # None
              => disk[e.to].gen = e.gen]_vars

(* An undo on the disk the operation left behind gives back the disk the   *)
(* operation found.                                                        *)
UndoRestores ==
    [][\A c \in Calls : \A e \in ToSet(journal) :
          Undoes(c, e) /\ disk = e.after => disk' = e.before]_vars

(* EMBEDDING.md on undoing a create: "Removes the path only if store       *)
(* identity + size still match".                                           *)
WrittenFileIsKept ==
    [][\A c \in Calls : \A e \in ToSet(journal) :
          Undoes(c, e) /\ e.kind = "create" /\ disk[e.to] # None
              => disk[e.to].len = e.fs.len]_vars

(* undo: "The journal entry is removed only after a fully successful       *)
(* reverse mutation": what leaves the stack at its end is what was undone. *)
PoppedWasUndone ==
    [][\A c \in Calls :
          call[c].op = "undo" /\ call[c].at = "done" /\ call'[c].op = "idle"
              => journal # <<>> /\ Last(journal) = call[c].entry]_vars

(* undo() "can reverse the most recent undoable action": it is not refused *)
(* on the disk that the action left behind.                                *)
UntouchedIsUndoable ==
    (foreign = 0 /\ journal # <<>> /\ \A c \in Calls : ~Waiting(c)) =>
        (disk = Last(journal).after => MayUndo(Last(journal)))
=============================================================================
