------------------------------ MODULE MCNative ------------------------------
(***************************************************************************)
(* One run for the components of the native engine that keep files and     *)
(* rows in step: the watcher's reconciliation, the undo journal, restart   *)
(* by replay, and the drive's store.  `part` is drawn once; that component *)
(* runs under its own specification and the others stay in an initial      *)
(* state, so the states are the sum of the components' states.  The drive  *)
(* is this module's own: its variables and constants keep their names.     *)
(***************************************************************************)
EXTENDS DriveStore, Integers, Sequences

CONSTANTS
    UndoNames, UndoInodes, UndoCalls, Capacity, MaxUndoOps, MaxForeign, MidCall,     \* UndoJournal
    Files, Dirs, MaxVersion, MaxChanges, MaxFaults, Replacement              \* RestartReplay

(* An entry at the top is a file or a directory, and none has the name the *)
(* replay uses for the tree itself.                                        *)
ASSUME EntriesAreNamed == Files \cap Dirs = {} /\ "root" \notin Files \cup Dirs
ASSUME VersionsAreNumbers == MaxVersion \in Nat

(* Inode 0 stands for no file. *)
ASSUME UndoAssumption ==
    /\ UndoInodes # {} /\ 0 \notin UndoInodes
    /\ Capacity \in Nat /\ MaxUndoOps \in Nat

VARIABLES
    part,
    \* WatchReconcile
    wrDisk, rows, raw, batch, work, wrGate, load, intents, own, acts, lost,
    \* UndoJournal
    ujDisk, recycle, store, journal, ujCall, ujOps, foreign, serial,
    \* RestartReplay
    rrDisk, rrJournal, volume, used, moved, faults, index, token, next, todo, rrPhase

watch == <<wrDisk, rows, raw, batch, work, wrGate, load, intents, own, acts, lost>>
undo == <<ujDisk, recycle, store, journal, ujCall, ujOps, foreign, serial>>
restart == <<rrDisk, rrJournal, volume, used, moved, faults, index, token, next, todo, rrPhase>>
drive == vars
nativeVars == <<part, watch, undo, restart, drive>>

(* Two names are what a rename needs; three acts a delete, a create and a  *)
(* delete in one window.                                                   *)
Watch == INSTANCE WatchReconcile WITH
    Names <- {"a", "b"}, ByInode <- FALSE, MaxActs <- 3,
    disk <- wrDisk, gate <- wrGate

(* Three inode numbers, so that one can be used again. *)
Undo == INSTANCE UndoJournal WITH
    Names <- UndoNames, Inodes <- UndoInodes, Calls <- UndoCalls, MaxOps <- MaxUndoOps,
    disk <- ujDisk, call <- ujCall, ops <- ujOps

Replay == INSTANCE RestartReplay WITH
    disk <- rrDisk, journal <- rrJournal, phase <- rrPhase

(* The drive: version v2 shares an object with v1. *)
MCNames == [v \in {"v1", "v2"} |-> IF v = "v1" THEN {"a"} ELSE {"a", "b"}]
MCSeed == [d \in {"a", "b"} |-> IF d = "a" THEN 1 ELSE 2]

NativeInit ==
    /\ part \in {"watch", "undo", "replay", "drive"}
    /\ Watch!Init /\ Undo!Init /\ Replay!Init /\ Init
    /\ LET rank == [none |-> 0, file |-> 1, dir |-> 2]   \* the names are interchangeable
       IN rank[wrDisk["a"].kind] >= rank[wrDisk["b"].kind]
    /\ part # "watch" => \A n \in {"a", "b"} : wrDisk[n].kind = "none"
    /\ part # "undo" => store[CHOOSE n \in UndoNames : TRUE] = 1
    /\ part # "replay" => rrDisk = [n \in Files \cup Dirs |-> 1]
    /\ part # "drive" => objects = <<>> /\ bytes[src] = "a" /\ mem.versions = {} 

NativeNext ==
    \/ part = "watch" /\ Watch!Next /\ UNCHANGED <<part, undo, restart, drive>>
    \/ part = "undo" /\ Undo!Next /\ UNCHANGED <<part, watch, restart, drive>>
    \/ part = "replay" /\ Replay!Next /\ UNCHANGED <<part, watch, undo, drive>>
    \/ part = "drive" /\ Next /\ UNCHANGED <<part, watch, undo, restart>>

NativeSpec == NativeInit /\ [][NativeNext]_nativeVars

-----------------------------------------------------------------------------
(* The store disagrees with the disk at rest only about an entry of which  *)
(* the watcher's pipeline, an intent or an own mutation dropped a change,  *)
(* and a listing heals it (WatchReconcile names the ways).                 *)
DivergenceIsDropped == Watch!DivergenceIsDropped

(* Undoing a create removes that file and no other, inode numbers used     *)
(* again included; any undo on an untouched disk restores what was there.  *)
UndoIsExact == Undo!UndoRemovesItsFile /\ Undo!UndoRestores

(* A crash at any moment loses nothing: the durable index, caught up from  *)
(* the saved token, is the tree.                                           *)
RestartRecovers == Replay!RestartRecovers

(* Statements of the docs that the model refutes (NativeRefuted.cfg), and   *)
(* DriveStore's: at rest the rows are the disk's; an undo undoes what it    *)
(* took off the journal and keeps what was written since (UndoJournal).     *)
QuietIsAccurate == Watch!QuietIsAccurate
UntouchedIsUndoable == Undo!UntouchedIsUndoable
WrittenFileIsKept == Undo!WrittenFileIsKept
PoppedWasUndone == Undo!PoppedWasUndone
=============================================================================
