----------------------------- MODULE DriveStore -----------------------------
(***************************************************************************)
(* One drive root (crates/mille-drive): the object store, the document in  *)
(* memory and on disk, the builds, and garbage collection, under calls     *)
(* that run on several threads of the host's pool, and under crashes.      *)
(*                                                                         *)
(* A content and its digest are one value (a member of Digests), so an     *)
(* object is right when its file's bytes equal the name it has.  Sizes are *)
(* left out: two contents may have the same length, which is the case in   *)
(* which only the inode and the time can tell them apart.  Hard links are  *)
(* what the store is about, so files are inodes: the source, a staged      *)
(* temporary, an object and a built file may all name the same one.        *)
(*                                                                         *)
(* The document (a CRDT) is what its reader sees: the item's versions, the *)
(* current one and the keep intent.  A crash ends the process: the OS      *)
(* releases LOCK, and files that were renamed stay renamed.                *)
(***************************************************************************)
EXTENDS Naturals, FiniteSets

CONSTANTS
    Calls,         \* calls in flight at once, each on a thread of its own
    Digests,       \* file contents, each named by its digest
    Versions,      \* version ids
    Names,         \* Names[v]: the digests version v's manifest names
    KeptAll,       \* HoldPolicy.kept_versions = KeptScope::All
    Seed,          \* the inodes of the objects a root already holds
    Inodes,        \* bound: files that exist at once
    MaxOps,        \* bound: calls made
    MaxTouches,    \* bound: times somebody swaps or writes the source file
    MaxFails,      \* bound: writes of the document that fail
    MaxReloads,    \* bound: reloads that fail too
    MaxCrashes     \* bound: crashes

ASSUME StoreAssumption ==
    /\ Names \in [Versions -> SUBSET Digests]
    /\ Seed \in [Digests -> Inodes] /\ \A d, e \in Digests : Seed[d] = Seed[e] => d = e
    /\ \E i \in Inodes : \A d \in Digests : Seed[d] # i
    /\ 0 \notin Calls

VARIABLES
    bytes,     \* bytes[i]: the content of inode i
    mtime,     \* mtime[i]: its modification time
    src,       \* the inode the put's source path names
    objects,   \* objects/: a function from the held digests to inodes
    built,     \* built/<item>/: from the built versions to their trees
    view,      \* a host's own folder, the `dest` of build_into
    mem,       \* the document in memory
    disk,      \* drive.loro
    open,      \* the LOCK is held by a live Drive
    doclock,   \* the call inside the document's mutex, or 0
    gate,      \* the call holding build_gate, or 0
    call,      \* call[c]: where call c stands
    ops, touches, fails, reloads, crashes,
    \* history
    late,      \* inodes a put's comparison of stats cannot vouch for
    acked,     \* versions add_version returned for
    unsaved,   \* of these, the ones it found in a document that was not saved
    diverged   \* a write of the document and the reload both failed

files == <<bytes, mtime, src>>
trees == <<built, view>>
docs == <<mem, disk, doclock>>
bounds == <<touches, fails, reloads, crashes>>
vars == <<files, objects, trees, docs, open, gate, call, ops, bounds,
          late, acked, unsaved, diverged>>

None == "none"
Idle == [at |-> "idle"]
NoTree == <<>>
InodesOf(tree) == {tree[d] : d \in DOMAIN tree}
Fresh(free) == CHOOSE i \in free : TRUE
With(f, x, y) == [z \in DOMAIN f \cup {x} |-> IF z = x THEN y ELSE f[z]]
Without(f, x) == [z \in DOMAIN f \ {x} |-> f[z]]
At(c, s) == open /\ call[c].at = s
Goto(c, r) == call' = [call EXCEPT ![c] = r]

(* A drive opened on a root: a new one, or one that holds every object, or *)
(* one whose document came from a peer and whose objects have not.         *)
Init ==
    /\ mtime = [i \in Inodes |-> 0]
    /\ src = Fresh(Inodes \ InodesOf(Seed))
    /\ objects \in {Seed, <<>>}
    /\ \E d0 \in Digests :
         bytes = [i \in Inodes |-> IF i \in InodesOf(Seed)
                                  THEN CHOOSE d \in Digests : Seed[d] = i ELSE d0]
    /\ built = <<>> /\ view = NoTree
    /\ \E vs \in {{}, Versions} : \E cur \in vs \cup {None} :
         mem = [versions |-> vs, current |-> cur, kept |-> FALSE]
    /\ disk = mem /\ doclock = 0
    /\ open = TRUE /\ gate = 0
    /\ call = [c \in Calls |-> Idle]
    /\ ops = 0 /\ touches = 0 /\ fails = 0 /\ reloads = 0 /\ crashes = 0
    /\ late = {} /\ acked = {} /\ unsaved = {} /\ diverged = FALSE

(***************************************************************************)
(* A call arrives while its thread is free.                                *)
(***************************************************************************)
Arrive(c, r) ==
    /\ At(c, "idle") /\ ops < MaxOps
    /\ ops' = ops + 1
    /\ Goto(c, r)

Temps == {call[c].tmp : c \in {x \in Calls : "tmp" \in DOMAIN call[x]}}
TreesNow == {built[v] : v \in DOMAIN built} \cup {view} \cup
            {call[c].tree : c \in {x \in Calls : "tree" \in DOMAIN call[x]}} \cup
            {call[c].old : c \in {x \in Calls : "old" \in DOMAIN call[x]}}
Linked == InodesOf(objects) \cup UNION {InodesOf(t) : t \in TreesNow}
FreeInodes == Inodes \ ({src} \cup Linked \cup Temps)

\* A new file with these bytes, on the next free inode.
NewInode == Fresh(FreeInodes)
NewFile(d) ==
    /\ FreeInodes # {}
    /\ bytes' = [bytes EXCEPT ![NewInode] = d]
    /\ late' = late \ {NewInode}

\* The files the puts under way compared, or will compare, the source with.
Statted == {call[c].before.inode : c \in {x \in Calls : "before" \in DOMAIN call[x]}}

----------------------------------------------------------------------------
(* Objects: every way in stages the bytes, hashes them, and publishes.     *)

Stat(i) == [inode |-> i, mtime |-> mtime[i]]

SameFile(before, after) == before = after

PutFile(c) ==
    /\ \E mode \in {"link", "copy", "linkOrCopy"} :
         Arrive(c, IF mode = "copy" THEN [at |-> "copy"]
                   ELSE [at |-> "hash", mode |-> mode, before |-> Stat(src)])
    /\ UNCHANGED <<files, objects, trees, docs, open, gate, bounds, late, acked, unsaved, diverged>>

(* put_by_link: hash in place; an object already held costs no link.       *)
PutHash(c) ==
    /\ At(c, "hash")
    /\ Goto(c, IF bytes[src] \in DOMAIN objects THEN Idle
               ELSE [at |-> "link", mode |-> call[c].mode, before |-> call[c].before,
                     digest |-> bytes[src]])
    /\ UNCHANGED <<files, objects, trees, docs, open, gate, ops, bounds, late, acked, unsaved, diverged>>

(* The link is made, or the volume refuses it: `Link` fails, `LinkOrCopy`  *)
(* copies.                                                                 *)
PutLink(c) ==
    /\ At(c, "link")
    /\ \/ Goto(c, [at |-> "check", before |-> call[c].before, digest |-> call[c].digest,
                    tmp |-> src])
       \/ Goto(c, IF call[c].mode = "link" THEN Idle ELSE [at |-> "copy"])
    /\ UNCHANGED <<files, objects, trees, docs, open, gate, ops, bounds, late, acked, unsaved, diverged>>

PutCheck(c) ==
    /\ At(c, "check")
    /\ Goto(c, IF SameFile(call[c].before, Stat(call[c].tmp))
               THEN [at |-> "publish", tmp |-> call[c].tmp, digest |-> call[c].digest]
               ELSE Idle)
    /\ UNCHANGED <<files, objects, trees, docs, open, gate, ops, bounds, late, acked, unsaved, diverged>>

PutCopy(c) ==
    /\ At(c, "copy")
    /\ NewFile(bytes[src])
    /\ Goto(c, [at |-> "publish", tmp |-> NewInode, digest |-> bytes[src]])
    /\ UNCHANGED <<mtime, src, objects, trees, docs, open, gate, ops, bounds, acked, unsaved, diverged>>

(* put_bytes, and the first half of admit: a file a transport landed is    *)
(* moved in before it is hashed, whatever its bytes really are.            *)
PutBytes(c, d) ==
    /\ d \notin DOMAIN objects
    /\ NewFile(d)
    /\ Arrive(c, [at |-> "publish", tmp |-> NewInode, digest |-> d])
    /\ UNCHANGED <<mtime, src, objects, trees, docs, open, gate, bounds, acked, unsaved, diverged>>

AdmitMove(c, expected) ==
    /\ \E d \in Digests : NewFile(d)
    /\ Arrive(c, [at |-> "admit", tmp |-> NewInode, digest |-> expected])
    /\ UNCHANGED <<mtime, src, objects, trees, docs, open, gate, bounds, acked, unsaved, diverged>>

Matches(i, expected) == bytes[i] = expected

AdmitHash(c) ==
    /\ At(c, "admit")
    /\ Goto(c, IF Matches(call[c].tmp, call[c].digest)
               THEN [call[c] EXCEPT !.at = "publish"] ELSE Idle)
    /\ UNCHANGED <<files, objects, trees, docs, open, gate, ops, bounds, late, acked, unsaved, diverged>>

(* publish: a rename under the gate; the first writer of a name wins.      *)
Publish(c) ==
    /\ At(c, "publish")
    /\ objects' = IF call[c].digest \in DOMAIN objects THEN objects
                  ELSE With(objects, call[c].digest, call[c].tmp)
    /\ Goto(c, Idle)
    /\ UNCHANGED <<files, trees, docs, open, gate, ops, bounds, late, acked, unsaved, diverged>>

(* Somebody else replaces the source by a rename, with another file or with *)
(* one that was there before, or writes into it.  What stat cannot tell goes *)
(* into `late`: a file that comes back during a put that had looked at it, a *)
(* write that leaves the modification time of such a file as it was, and a   *)
(* write after the put's last look.                                         *)
Swap ==
    /\ touches < MaxTouches /\ touches' = touches + 1
    /\ \E i \in FreeInodes :
         /\ i = NewInode \/ i \in Statted
         /\ \E d \in Digests : bytes' = [bytes EXCEPT ![i] = d]
         /\ late' = IF i \in Statted THEN late \cup {i} ELSE late \ {i}
         /\ src' = i
    /\ UNCHANGED <<mtime, objects, trees, docs, open, gate, call, ops, fails, reloads,
                   crashes, acked, unsaved, diverged>>

Looked == Linked \cup {call[c].tmp : c \in {x \in Calls : call[x].at = "publish"}}
WriteInPlace ==
    /\ touches < MaxTouches /\ touches' = touches + 1
    /\ \E d \in Digests : bytes' = [bytes EXCEPT ![src] = d]
    /\ \/ /\ mtime' = [mtime EXCEPT ![src] = @ + 1]
          /\ late' = late \cup ({src} \cap Looked)
       \/ /\ mtime' = mtime     \* within a tick of the volume's clock
          /\ late' = late \cup ({src} \cap (Looked \cup Statted))
    /\ UNCHANGED <<src, objects, trees, docs, open, gate, call, ops, fails, reloads,
                   crashes, acked, unsaved, diverged>>

----------------------------------------------------------------------------
(* The document: mutate and import_inner run under its mutex; the change   *)
(* is saved before anybody hears of it, or put back.  A write that changes *)
(* nothing is not saved, and its caller is told Ok.                        *)

Held(v) == Names[v] \subseteq DOMAIN objects

AddVersion(c, v) ==
    /\ Held(v)
    /\ \E cur \in BOOLEAN : Arrive(c, [at |-> "mutate", op |-> "add", v |-> v, cur |-> cur])
    /\ UNCHANGED <<files, objects, trees, docs, open, gate, bounds, late, acked, unsaved, diverged>>

(* set_current, set_kept, and a peer's update naming a version.            *)
Edit(c, v) ==
    /\ \E op \in {"current", "keep", "import"} :
         Arrive(c, [at |-> "mutate", op |-> op, v |-> v, cur |-> op = "import"])
    /\ UNCHANGED <<files, objects, trees, docs, open, gate, bounds, late, acked, unsaved, diverged>>

Refused(r) == \/ r.op = "current" /\ r.v \notin mem.versions
              \/ r.op = "keep" /\ mem.versions = {}
Written(r) ==
    CASE r.op = "current" -> [mem EXCEPT !.current = r.v]
      [] r.op = "keep" -> [mem EXCEPT !.kept = ~@]
      [] OTHER -> [mem EXCEPT !.versions = @ \cup {r.v},
                              !.current = IF r.cur THEN r.v ELSE @]

Mutate(c) ==
    /\ At(c, "mutate") /\ doclock = 0
    /\ IF Refused(call[c]) \/ Written(call[c]) = mem
       THEN /\ Goto(c, Idle)
            /\ LET told == IF call[c].op = "add" THEN {call[c].v} ELSE {}
               IN /\ acked' = acked \cup told
                  /\ unsaved' = IF diverged THEN unsaved \cup told ELSE unsaved
            /\ UNCHANGED docs
       ELSE /\ mem' = Written(call[c])
            /\ doclock' = c
            /\ Goto(c, [call[c] EXCEPT !.at = "persist"])
            /\ UNCHANGED <<disk, acked, unsaved>>
    /\ UNCHANGED <<files, objects, trees, open, gate, ops, bounds, late, diverged>>

(* write_atomic: a sibling, flushed, renamed over.                         *)
Persist(c) ==
    /\ At(c, "persist")
    /\ disk' = mem /\ doclock' = 0
    /\ acked' = IF call[c].op = "add" THEN acked \cup {call[c].v} ELSE acked
    /\ unsaved' = unsaved \ mem.versions
    /\ diverged' = FALSE
    /\ Goto(c, Idle)
    /\ UNCHANGED <<files, objects, trees, mem, open, gate, ops, bounds, late>>

(* persist_or_reload: the save failed; put back what is on disk, if that   *)
(* can be read.                                                            *)
ReloadedNothing == mem
Reloaded == disk
PersistFails(c) ==
    /\ At(c, "persist") /\ fails < MaxFails
    /\ fails' = fails + 1
    /\ \/ mem' = Reloaded /\ UNCHANGED <<reloads, diverged>>
       \/ /\ reloads < MaxReloads /\ reloads' = reloads + 1
          /\ mem' = mem /\ diverged' = TRUE
    /\ doclock' = 0
    /\ Goto(c, Idle)
    /\ UNCHANGED <<files, objects, trees, disk, open, gate, ops, touches, crashes,
                   late, acked, unsaved>>

----------------------------------------------------------------------------
(* gc: the catalog, the built versions, the list, and the removals are     *)
(* separate reads; no lock spans them.                                     *)

NamesOf(vs) == UNION {Names[v] : v \in vs}
RetainedByPolicy(doc) ==
    NamesOf((doc.versions \cap {doc.current})
            \cup IF doc.kept /\ KeptAll THEN doc.versions ELSE {})

GcCatalog(c) ==
    /\ doclock = 0
    /\ Arrive(c, [at |-> "gcBuilt", doc |-> mem])
    /\ UNCHANGED <<files, objects, trees, docs, open, gate, bounds, late, acked, unsaved, diverged>>

GcBuilt(c) ==
    /\ At(c, "gcBuilt")
    /\ LET doc == call[c].doc
       IN Goto(c, [at |-> "gcList", retained |-> RetainedByPolicy(doc)
                        \cup NamesOf(DOMAIN built \cap doc.versions)])
    /\ UNCHANGED <<files, objects, trees, docs, open, gate, ops, bounds, late, acked, unsaved, diverged>>

GcList(c) ==
    /\ At(c, "gcList")
    /\ Goto(c, [at |-> "gcRemove", todo |-> DOMAIN objects \ call[c].retained])
    /\ UNCHANGED <<files, objects, trees, docs, open, gate, ops, bounds, late, acked, unsaved, diverged>>

GcRemove(c) ==
    /\ At(c, "gcRemove")
    /\ IF call[c].todo = {} THEN Goto(c, Idle) /\ UNCHANGED objects
       ELSE \E d \in call[c].todo :
              /\ objects' = Without(objects, d)
              /\ Goto(c, [call[c] EXCEPT !.todo = @ \ {d}])
    /\ UNCHANGED <<files, trees, docs, open, gate, ops, bounds, late, acked, unsaved, diverged>>

----------------------------------------------------------------------------
(* Builds: a tree of links assembled under a temporary name, renamed in.   *)

(* build, build_into with `replace`: what the version names is read first, *)
(* and for build_into whether `dest` exists.                               *)
Buildable(c, v) ==
    /\ doclock = 0 /\ v \in mem.versions
    /\ \E into \in BOOLEAN :
         Arrive(c, [at |-> "make", v |-> v, into |-> into, exists |-> view # NoTree])
    /\ UNCHANGED <<files, objects, trees, docs, open, gate, bounds, late, acked, unsaved, diverged>>

(* The gate, and a built version is returned as it is. *)
Materialize(c) ==
    /\ At(c, "make") /\ gate = 0
    /\ LET v == call[c].v
       IN IF ~call[c].into /\ v \in DOMAIN built
          THEN Goto(c, Idle) /\ UNCHANGED gate
          ELSE /\ gate' = c
               /\ Goto(c, [at |-> "place", v |-> v, into |-> call[c].into,
                           exists |-> call[c].exists, todo |-> Names[v], tree |-> NoTree])
    /\ UNCHANGED <<files, objects, trees, docs, open, ops, bounds, late, acked, unsaved, diverged>>

(* materialize places one file after the other, with collections running   *)
(* in between: an object that is not held any more, or a link and a copy    *)
(* that fail, end the build and remove the tree.                            *)
NextPlaced(c, d, i) ==
    Goto(c, [call[c] EXCEPT !.todo = @ \ {d}, !.tree = With(@, d, i)])

PlaceLink(c, d) ==
    /\ d \in DOMAIN objects
    /\ NextPlaced(c, d, objects[d])
    /\ UNCHANGED <<bytes, late, gate>>

PlaceCopy(c, d) ==
    /\ d \in DOMAIN objects /\ FreeInodes # {}
    /\ bytes' = [bytes EXCEPT ![NewInode] = bytes[objects[d]]]
    /\ late' = IF objects[d] \in late THEN late \cup {NewInode} ELSE late \ {NewInode}
    /\ NextPlaced(c, d, NewInode)
    /\ UNCHANGED gate

PlaceFails(c) ==
    /\ gate' = 0
    /\ Goto(c, Idle)
    /\ UNCHANGED <<bytes, late>>

Place(c) ==
    /\ At(c, "place")
    /\ \/ /\ call[c].todo = {}
          /\ Goto(c, [at |-> "rename", v |-> call[c].v, into |-> call[c].into,
                      exists |-> call[c].exists, tree |-> call[c].tree])
          /\ UNCHANGED <<bytes, late, gate>>
       \/ \E d \in call[c].todo : PlaceLink(c, d) \/ PlaceCopy(c, d)
       \/ call[c].todo # {} /\ PlaceFails(c)
    /\ UNCHANGED <<mtime, src, objects, trees, docs, open, ops, bounds, acked, unsaved, diverged>>

(* The rename into place.  build_into over an existing folder moves the    *)
(* old tree aside first; a `dest` that appeared or went since fails it.    *)
Rename(c) ==
    /\ At(c, "rename")
    /\ LET r == call[c] IN
       \/ /\ ~r.into
          /\ built' = With(built, r.v, r.tree)
          /\ gate' = 0 /\ Goto(c, Idle) /\ UNCHANGED view
       \/ /\ r.into /\ ~r.exists
          /\ view' = IF view = NoTree THEN r.tree ELSE view
          /\ gate' = 0 /\ Goto(c, Idle) /\ UNCHANGED built
       \/ /\ r.into /\ r.exists
          /\ IF view = NoTree THEN gate' = 0 /\ Goto(c, Idle) /\ UNCHANGED view
             ELSE /\ view' = NoTree
                  /\ Goto(c, [at |-> "swap", tree |-> r.tree, old |-> view])
                  /\ UNCHANGED gate
          /\ UNCHANGED built
    /\ UNCHANGED <<files, objects, docs, open, ops, bounds, late, acked, unsaved, diverged>>

(* The second rename, or the old tree put back when it fails.              *)
SwapIn(c) ==
    /\ At(c, "swap")
    /\ view' \in {call[c].tree, call[c].old}
    /\ gate' = 0 /\ Goto(c, Idle)
    /\ UNCHANGED <<files, objects, built, docs, open, ops, bounds, late, acked, unsaved, diverged>>

Unbuild(c, v) ==
    /\ At(c, "idle") /\ gate = 0 /\ v \in DOMAIN built
    /\ built' = Without(built, v)
    /\ UNCHANGED <<files, objects, view, docs, open, gate, call, ops, bounds, late,
                   acked, unsaved, diverged>>

----------------------------------------------------------------------------
Crash ==
    /\ open /\ crashes < MaxCrashes
    /\ crashes' = crashes + 1
    /\ open' = FALSE /\ doclock' = 0 /\ gate' = 0
    /\ call' = [c \in Calls |-> Idle]
    /\ UNCHANGED <<files, objects, trees, mem, disk, ops, touches, fails, reloads,
                   late, acked, unsaved, diverged>>

(* Drive::open: take LOCK, sweep the temporaries (nothing names them any   *)
(* more), load the document.                                               *)
Open ==
    /\ ~open
    /\ open' = TRUE
    /\ mem' = disk /\ diverged' = FALSE
    /\ UNCHANGED <<files, objects, trees, disk, doclock, gate, call, ops, bounds, late, acked, unsaved>>

Next ==
    \/ Swap \/ WriteInPlace \/ Crash \/ Open
    \/ \E c \in Calls :
         \/ PutFile(c) \/ PutHash(c) \/ PutLink(c) \/ PutCheck(c) \/ PutCopy(c)
         \/ AdmitHash(c) \/ Publish(c)
         \/ \E d \in Digests : PutBytes(c, d) \/ AdmitMove(c, d)
         \/ \E v \in Versions : AddVersion(c, v) \/ Edit(c, v) \/ Buildable(c, v) \/ Unbuild(c, v)
         \/ Mutate(c) \/ Persist(c) \/ PersistFails(c)
         \/ GcCatalog(c) \/ GcBuilt(c) \/ GcList(c) \/ GcRemove(c)
         \/ Materialize(c) \/ Place(c) \/ Rename(c) \/ SwapIn(c)

Spec == Init /\ [][Next]_vars

----------------------------------------------------------------------------
Doc == [versions : SUBSET Versions, current : Versions \cup {None}, kept : BOOLEAN]
TypeOK ==
    /\ bytes \in [Inodes -> Digests] /\ src \in Inodes
    /\ DOMAIN objects \subseteq Digests /\ InodesOf(objects) \subseteq Inodes
    /\ DOMAIN built \subseteq Versions
    /\ mem \in Doc /\ disk \in Doc
    /\ doclock \in Calls \cup {0} /\ gate \in Calls \cup {0}
    /\ unsaved \subseteq acked /\ acked \subseteq Versions /\ late \subseteq Inodes

(* Every object's bytes are the ones its name says, however puts by link,  *)
(* copies, admissions of wrong bytes, swaps of the source, collections and *)
(* crashes interleave.  There are three exceptions: the one put_by_link's   *)
(* comment leaves to `verify`, an in-place write into a linked inode after  *)
(* the put compared its stats; one during the put that the clock of the     *)
(* volume is too coarse to show (same_file); and a source that was swapped  *)
(* for another file and back while it was put (SwappedIsRefused).           *)
Right(tree) == \A d \in DOMAIN tree : bytes[tree[d]] = d \/ tree[d] \in late
ObjectIsItsName == Right(objects)

(* A folder somebody reads is a whole version with the right bytes, or it  *)
(* is not there: no collection, failed build or crash leaves a part of one *)
(* (build.rs: "a reader sees no folder or the whole one").                 *)
BuiltIsWhole ==
    /\ \A v \in DOMAIN built : DOMAIN built[v] = Names[v] /\ Right(built[v])
    /\ view # NoTree => Right(view) /\ \E v \in Versions : DOMAIN view = Names[v]

(* put_by_link's promise: "a source swapped for another file in between is  *)
(* refused rather than published under a stale name".  Swapped twice, the   *)
(* second time back, it passes: the other file was hashed, this one linked, *)
(* and the stats taken before and after are both this one's.                *)
SwappedIsRefused ==
    [][\A c \in Calls : (call[c].at = "check" /\ call'[c].at = "publish")
                            => bytes[call[c].tmp] = call[c].digest]_vars

(* What a sync or a listener can read of the document is on disk, except   *)
(* after a reload that failed too; and a version add_version returned for  *)
(* is on disk, whatever crashes, except one it found in such a document.   *)
ReadIsSaved ==
    /\ (open /\ doclock = 0 /\ ~diverged) => mem = disk
    /\ acked \subseteq disk.versions \cup unsaved

(* The objects, the folders and the document of one drive whose calls       *)
(* overlap are sound at any moment, and after any crash.                    *)
DriveIsSound == ObjectIsItsName /\ BuiltIsWhole /\ ReadIsSaved

(* add_version's promise, "Every object it names must be held": when it    *)
(* has made a version current, which the hold policy retains, they are.    *)
(* The check runs before the document is locked and gc may be past its     *)
(* read of the catalog, so the code does not keep it.                      *)
AddedIsHeld ==
    [][\A v \in acked' \ acked : mem.current = v => Names[v] \subseteq DOMAIN objects']_vars

(* persist_or_reload's promise, without the exceptions ReadIsSaved makes:  *)
(* a change that failed is not kept in memory, and so cannot be what a      *)
(* retried add_version, which has nothing left to write, returns Ok for.    *)
FailedChangeIsGone == (open /\ doclock = 0) => mem = disk
AckedIsSaved == acked \subseteq disk.versions
=============================================================================
