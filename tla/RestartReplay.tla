--------------------------- MODULE RestartReplay ---------------------------
(***************************************************************************)
(* Restart without a rescan (mille-core history.rs and resume.rs): an       *)
(* index, a saved token, and the volume's change journal to replay from it. *)
(*                                                                         *)
(* The tree has files and directories at the top and one file in each       *)
(* directory; what a listing can tell about an entry is its version.  The   *)
(* journal numbers every change by the path it names: moving a directory    *)
(* in or out of the tree names the directory and nothing below it.  The     *)
(* caller follows the protocol of history.rs: capture, apply, then save.    *)
(***************************************************************************)
EXTENDS Integers, Sequences, FiniteSets

CONSTANTS Files, Dirs,    \* the names at the top of the tree
          MaxVersion,     \* bound: versions of a file
          MaxChanges,     \* bound: changes to the tree
          MaxFaults,      \* bound: journal faults
          Replacement     \* a directory may be moved to a name used before

VARIABLES
    disk,      \* disk[n]: version of a file; of the file in a directory
    journal,   \* the volume's journal: [name, deep, lost]; an id is a position
    volume,    \* the journal's UUID
    used,      \* names that were directories
    moved,     \* names whose directory was moved out as it was
    faults,    \* journal faults so far
    index,     \* what the caller has applied
    token,     \* the saved token: [id, volume]
    next,      \* the token to save once the catch-up is applied
    todo,      \* listings left to apply
    phase      \* "down", "replaying", "applying" or "running"

external == <<disk, journal, volume, used, moved, faults>>
caller == <<index, token, next, todo, phase>>
vars == <<external, caller>>

Entries == Files \cup Dirs
Absent == -1     \* no such entry; a directory without its file is 0

\* What a catch-up lists: the root, one directory, a subtree or everything.
List(d) == [kind |-> "list", dir |-> d]
Tree(d) == [kind |-> "tree", dir |-> d]
Root == List("root")
Everything == Tree("root")

TypeOK ==
    /\ disk \in [Entries -> Absent..MaxVersion] /\ index \in [Entries -> Absent..MaxVersion]
    /\ used \subseteq Dirs /\ moved \subseteq used
    /\ token.id \in 0..Len(journal) \/ token.volume # volume
    /\ todo \subseteq {Root, Everything} \cup {List(d) : d \in Dirs} \cup {Tree(d) : d \in Dirs}
    /\ phase \in {"down", "replaying", "applying", "running"}

-----------------------------------------------------------------------------
(* HistoryToken::capture *)
Capture == [id |-> Len(journal), volume |-> volume]

(* The records stream_history delivers: everything after the token. *)
RecordsSince(t) == {journal[i] : i \in (t.id + 1)..Len(journal)}

(* replay_since and interpret: another journal or lost history asks for a   *)
(* walk; otherwise the parents of the changed paths are listed again, and   *)
(* the subtrees that lost history are walked, covering what is below them.  *)
Listings(t) ==
    LET recs == RecordsSince(t)
        subtrees == {r.name : r \in {x \in recs : x.lost}}
        changed == {r \in recs : r.name \notin subtrees}
    IN IF t.volume # volume \/ t.id > Len(journal) \/ "root" \in subtrees
       THEN {Everything}
       ELSE {IF r.deep THEN List(r.name) ELSE Root : r \in changed}
               \cup {Tree(d) : d \in subtrees}

(* What applying listings to an index leaves: the root's listing finds what *)
(* is gone and walks a directory that appeared; a directory's own listing   *)
(* finds its file; a walk finds everything (events_since).                  *)
Applied(idx, units) ==
    [n \in Entries |->
       IF \/ Everything \in units \/ Tree(n) \in units
          \/ Root \in units /\ (n \in Files \/ Absent \in {disk[n], idx[n]})
          \/ List(n) \in units
       THEN disk[n] ELSE idx[n]]

-----------------------------------------------------------------------------
(* The tree and its journal. *)

Record(n, deep) == [name |-> n, deep |-> deep, lost |-> FALSE]

Recorded(n, v, deep) ==
    /\ Len(journal) < MaxChanges
    /\ disk[n] # v
    /\ disk' = [disk EXCEPT ![n] = v]
    /\ journal' = Append(journal, Record(n, deep))
    /\ used' = used \cup ({n} \cap Dirs)
    /\ UNCHANGED <<volume, faults, caller>>

Change(n, v, deep) == Recorded(n, v, deep) /\ UNCHANGED moved

(* A file is created, written or removed; a file in a directory is. *)
WriteFile(n) ==
    \E v \in Absent..MaxVersion :
       \/ n \in Files /\ Change(n, v, FALSE)
       \/ n \in Dirs /\ disk[n] # Absent /\ v # Absent /\ Change(n, v, TRUE)

(* A directory is made or removed empty, or moved in or out as it is. *)
MakeOrRemove(d) ==
    \/ disk[d] = Absent /\ (Replacement \/ d \notin moved) /\ Change(d, 0, FALSE)
    \/ disk[d] = 0 /\ Change(d, Absent, FALSE)

MoveOut(d) ==
    /\ disk[d] # Absent
    /\ moved' = moved \cup {d}
    /\ Recorded(d, Absent, FALSE)

MoveIn(d) ==
    /\ disk[d] = Absent
    /\ Replacement \/ d \notin used
    /\ \E v \in 1..MaxVersion : Change(d, v, FALSE)

(* FSEvents drops the records below a directory, or all of them, and says   *)
(* so with MustScanSubDirs.                                                 *)
LoseHistory(at) ==
    /\ faults < MaxFaults
    /\ faults' = faults + 1
    /\ journal' = [i \in DOMAIN journal |->
                     IF at = "root" \/ (journal[i].name = at /\ journal[i].deep)
                     THEN [name |-> at, deep |-> FALSE, lost |-> TRUE]
                     ELSE journal[i]]
    /\ UNCHANGED <<disk, volume, used, moved, caller>>

(* The journal is reset: another UUID, and ids from the start. *)
ResetJournal ==
    /\ faults < MaxFaults
    /\ faults' = faults + 1
    /\ volume' = volume + 1
    /\ journal' = <<>>
    /\ UNCHANGED <<disk, used, moved, caller>>

-----------------------------------------------------------------------------
(* The caller. *)

(* Restart: the watcher is started, the token is read, and replay_since     *)
(* captures the next one before it asks the journal.                        *)
Restart ==
    /\ phase = "down"
    /\ phase' = "replaying"
    /\ next' = Capture
    /\ UNCHANGED <<external, index, token, todo>>

(* The replay's answer.  A token that is too old, a replay that overflows   *)
(* or times out asks for a walk whatever the journal holds.                 *)
Replay ==
    /\ phase = "replaying"
    /\ phase' = "applying"
    /\ \E answer \in {Listings(token), {Everything}} : todo' = answer
    /\ UNCHANGED <<external, index, token, next>>

(* One listing is read and applied.  The live watcher, which was started    *)
(* first, applies a change of its own at any time.                          *)
Apply(u) ==
    /\ phase = "applying"
    /\ index' = Applied(index, {u})
    /\ todo' = todo \ {u}
    /\ UNCHANGED <<external, token, next, phase>>

(* A directory does not answer: events_since fails as Incomplete, and what  *)
(* was not read may not be diffed.  The catch-up is given up, its token is  *)
(* not saved, and the caller goes on with its watcher.                      *)
Incomplete ==
    /\ phase = "applying" /\ todo # {}
    /\ phase' = "running"
    /\ todo' = {}
    /\ next' = token
    /\ UNCHANGED <<external, index, token>>

Watch(n) ==
    /\ phase # "down"
    /\ index' = Applied(index, {Tree(n)})
    /\ UNCHANGED <<external, token, next, todo, phase>>

SaveEarly ==
    /\ phase = "applying"
    /\ token' = next
    /\ phase' = "running"
    /\ UNCHANGED <<external, index, next, todo>>

(* HistoryToken::write, once everything is applied: a crash leaves the old  *)
(* token or the new one.                                                    *)
Save ==
    /\ phase = "applying" /\ todo = {}
    /\ token' = next
    /\ phase' = "running"
    /\ UNCHANGED <<external, index, next, todo>>

(* While running, a fresh token is captured before a full scan and saved    *)
(* after it: the caller's step, as history.rs tells it to.                  *)
Checkpoint ==
    /\ phase = "running"
    /\ phase' = "applying"
    /\ next' = Capture
    /\ todo' = {Everything}
    /\ UNCHANGED <<external, index, token>>

Crash ==
    /\ phase # "down"
    /\ phase' = "down"
    /\ todo' = {}
    /\ next' = token
    /\ UNCHANGED <<external, index, token>>

Init ==
    /\ disk \in [Entries -> {Absent, 1}]
    /\ journal = <<>> /\ volume = 0 /\ faults = 0
    /\ used = {d \in Dirs : disk[d] # Absent}
    /\ moved = {}
    /\ index = disk
    /\ token = Capture /\ next = token
    /\ todo = {}
    /\ phase = "down"

Next ==
    \/ \E n \in Entries : WriteFile(n) \/ Watch(n)
    \/ \E d \in Dirs : MakeOrRemove(d) \/ MoveOut(d) \/ MoveIn(d)
    \/ \E at \in Dirs \cup {"root"} : LoseHistory(at)
    \/ ResetJournal
    \/ \E u \in todo : Apply(u)
    \/ Restart \/ Replay \/ Incomplete \/ Save \/ Checkpoint \/ Crash

Spec == Init /\ [][Next]_vars

-----------------------------------------------------------------------------
(* A crash at any moment loses nothing: catching the durable index up from  *)
(* the saved token, with the listings the replay asks for, gives the tree.  *)
(* It covers a crash between two listings, history the journal dropped or   *)
(* reset, and changes made while the catch-up runs.                         *)
RestartRecovers == Applied(index, Listings(token)) = disk
=============================================================================
