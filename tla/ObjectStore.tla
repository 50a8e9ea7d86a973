---------------------------- MODULE ObjectStore ----------------------------
(***************************************************************************)
(* The publication path of one node's object store                         *)
(* (internal/storage: store.go, fsutil.go, key.go): concurrent Store.Put   *)
(* calls that stream into a temp file, fsync it, rename it into a shard    *)
(* directory and fsync that directory; the unlink of Delete and            *)
(* DeleteFile; Close; a kill of the process; a power loss; and Open.       *)
(*                                                                         *)
(* The file system is modelled by what the code may rely on.  A rename and *)
(* an unlink take effect at once for every process, and reach stable       *)
(* storage when the directory that holds the name is fsynced, or earlier   *)
(* if the kernel writes it back.  Data reaches stable storage when the     *)
(* file is fsynced.  A directory's own name lives in its parent.           *)
(*                                                                         *)
(* The metadata index is the subject of module Quota.                      *)
(***************************************************************************)
EXTENDS Integers, FiniteSets

CONSTANTS
    Writers,           \* concurrent calls of Store.Put
    CasRefs,           \* objects of the CAS namespace, named by their digest
    AcRefs,            \* objects of the action-cache namespace
    Shards,            \* leaf shard directories
    ShardOf,           \* the directory of each object (ObjectPath)
    Bodies,            \* byte strings a client may send
    DigestOf,          \* SHA-256 of each body
    SizeOf,            \* length of each body
    MaxObjectBytes,    \* per-object limit, 0 for none
    DirSyncSupported,  \* whether the file system can fsync a directory
    Torn,              \* content of a file whose data was never fsynced
    NoFile,            \* a name that does not resolve
    NoRef              \* what a Put that is not running writes

Refs == CasRefs \cup AcRefs

ASSUME StoreAssumption ==
    /\ CasRefs \cap AcRefs = {}
    /\ ShardOf \in [Refs -> Shards]
    /\ DOMAIN DigestOf = Bodies
    /\ SizeOf \in [Bodies -> Nat]
    /\ MaxObjectBytes \in Nat
    /\ DirSyncSupported \in BOOLEAN
    /\ Torn \notin Bodies
    /\ NoRef \notin Refs

\* An inode: its bytes, and whether they are on stable storage.
Files == [body : Bodies \cup {Torn}, synced : BOOLEAN]

ASSUME NoFileAssumption == NoFile \notin Files /\ NoFile \notin Bodies

VARIABLES
    status,    \* "open", "closed" (Store.closed), "down" or "opening"
    pc,        \* where each Put is
    ref,       \* the object each Put writes
    tmp,       \* each Put's incoming-* file
    stray,     \* incoming-* files of no Put: "ours" (a failed os.Remove), "stale"
    dir,       \* what each object's name resolves to
    disk,      \* what each name may resolve to after a power loss
    shard,     \* each shard directory: "absent", "volatile" or "durable"
    seen,      \* dirCache.seen
    unlinked,  \* history: Puts whose object was unlinked after they saw it
    acks       \* history: durable:true results given and not since deleted

vars == <<status, pc, ref, tmp, stray, dir, disk, shard, seen, unlinked, acks>>

PutSteps == {"idle", "drain", "copy", "fsync", "rename", "syncdir",
             "reply", "replyDurable"}

\* The object's name has been seen or made by the call, which has yet to answer.
Answering == {"drain", "syncdir", "reply", "replyDurable"}

\* The result of a Put that says Durable: true.
Acks == [ref : Refs, path : {"publish", "duplicate"},
         shard : {"volatile", "durable"}]

\* Type invariant: files, names and what the disk holds for each of them.
TypeOK ==
    /\ status \in {"open", "closed", "down", "opening"}
    /\ pc \in [Writers -> PutSteps]
    /\ ref \in [Writers -> Refs \cup {NoRef}]
    /\ tmp \in [Writers -> Files \cup {NoFile}]
    /\ stray \subseteq {"ours", "stale"}
    /\ dir \in [Refs -> Files \cup {NoFile}]
    /\ disk \in [Refs -> SUBSET (Files \cup {NoFile})]
    /\ shard \in [Shards -> {"absent", "volatile", "durable"}]
    /\ seen \subseteq Shards
    /\ unlinked \subseteq Writers
    /\ acks \subseteq Acks

ContentAddressed(r) == r \in CasRefs

\* An empty data directory, about to be opened for the first time.
Init ==
    /\ status = "opening"
    /\ pc = [w \in Writers |-> "idle"]
    /\ ref = [w \in Writers |-> NoRef]
    /\ tmp = [w \in Writers |-> NoFile]
    /\ stray = {}
    /\ dir = [r \in Refs |-> NoFile]
    /\ disk = [r \in Refs |-> {NoFile}]
    /\ shard = [s \in Shards |-> "absent"]
    /\ seen = {}
    /\ unlinked = {}
    /\ acks = {}

-----------------------------------------------------------------------------
(* Store.Put *)

\* A directory, once fsynced, holds on disk exactly the names it holds now.
Flushed(s) ==
    [r \in Refs |-> IF ShardOf[r] = s THEN {dir[r]} ELSE disk[r]]

\* dirCache.ensure: MkdirAll unless the cache has the directory.  Nothing
\* fsyncs the parent, so a directory made here is not yet durable.
EnsureDir(s) ==
    /\ seen' = seen \cup {s}
    /\ shard' = IF s \notin seen /\ shard[s] = "absent"
                THEN [shard EXCEPT ![s] = "volatile"]
                ELSE shard

\* The call passes the closed check, makes the shard directory, and finds a CAS
\* object already there: it will only drain the body.
PutFindsDuplicate(w, r) ==
    /\ status = "open"
    /\ pc[w] = "idle"
    /\ ContentAddressed(r)
    /\ dir[r] # NoFile
    /\ EnsureDir(ShardOf[r])
    /\ pc' = [pc EXCEPT ![w] = "drain"]
    /\ ref' = [ref EXCEPT ![w] = r]
    /\ UNCHANGED <<status, tmp, stray, dir, disk, unlinked, acks>>

\* Or it creates its temp file.
PutCreatesTemp(w, r) ==
    /\ status = "open"
    /\ pc[w] = "idle"
    /\ ~(ContentAddressed(r) /\ dir[r] # NoFile)
    /\ EnsureDir(ShardOf[r])
    /\ tmp' = [tmp EXCEPT ![w] = [body |-> Torn, synced |-> FALSE]]
    /\ pc' = [pc EXCEPT ![w] = "copy"]
    /\ ref' = [ref EXCEPT ![w] = r]
    /\ UNCHANGED <<status, stray, dir, disk, unlinked, acks>>

\* Mutant of Acceptable: no digest check.
AcceptableUnhashed(r, sent, written, declared) ==
    /\ MaxObjectBytes > 0 => declared <= MaxObjectBytes /\ written <= MaxObjectBytes
    /\ declared >= 0 => written = declared

\* What Put demands before anything is published, when a client sent one body
\* with this Content-Length (-1 when unknown) and so many bytes arrived.
Acceptable(r, sent, written, declared) ==
    /\ MaxObjectBytes > 0 => declared <= MaxObjectBytes /\ written <= MaxObjectBytes
    /\ declared >= 0 => written = declared
    /\ ContentAddressed(r) => written = SizeOf[sent] /\ DigestOf[sent] = r

\* The stream has ended without an error and the body passes the checks.  A
\* body of unknown length that breaks off is a read error, not an early end.
PutCopies(w) ==
    \E sent \in Bodies :
    \E written \in 0..SizeOf[sent], declared \in {-1, SizeOf[sent]} :
        /\ pc[w] = "copy"
        /\ declared = -1 => written = SizeOf[sent]
        /\ Acceptable(ref[w], sent, written, declared)
        /\ tmp' = [tmp EXCEPT ![w] =
                      [body |-> IF written = SizeOf[sent] THEN sent ELSE Torn,
                       synced |-> FALSE]]
        /\ pc' = [pc EXCEPT ![w] = "fsync"]
        /\ UNCHANGED <<status, ref, stray, dir, disk, shard, seen, unlinked, acks>>

\* Mutant of PutFsyncs: the file is closed but not fsynced.
PutOnlyCloses(w) ==
    /\ pc[w] = "fsync"
    /\ pc' = [pc EXCEPT ![w] = "rename"]
    /\ UNCHANGED <<status, ref, tmp, stray, dir, disk, shard, seen, unlinked, acks>>

\* tmp.Sync and tmp.Close.
PutFsyncs(w) ==
    /\ pc[w] = "fsync"
    /\ tmp' = [tmp EXCEPT ![w].synced = TRUE]
    /\ pc' = [pc EXCEPT ![w] = "rename"]
    /\ UNCHANGED <<status, ref, stray, dir, disk, shard, seen, unlinked, acks>>

\* Any error before the rename (a broken body, a cancelled context, a refused
\* body, a failed fsync, close or rename): the deferred function removes the temp,
\* or logs that it cannot and leaves it.
PutAbandons(w) ==
    /\ pc[w] \in {"copy", "fsync", "rename"}
    /\ tmp' = [tmp EXCEPT ![w] = NoFile]
    /\ stray' \in {stray, stray \cup {"ours"}}
    /\ pc' = [pc EXCEPT ![w] = "idle"]
    /\ ref' = [ref EXCEPT ![w] = NoRef]
    /\ UNCHANGED <<status, dir, disk, shard, seen, unlinked, acks>>

\* os.Rename onto the object's name: visible at once, durable or not later.
PutRenames(w) ==
    /\ pc[w] = "rename"
    /\ shard[ShardOf[ref[w]]] # "absent"
    /\ dir' = [dir EXCEPT ![ref[w]] = tmp[w]]
    /\ disk' = [disk EXCEPT ![ref[w]] = @ \cup {tmp[w]}]
    /\ tmp' = [tmp EXCEPT ![w] = NoFile]
    /\ pc' = [pc EXCEPT ![w] = "syncdir"]
    /\ UNCHANGED <<status, stray, ref, shard, seen, unlinked, acks>>

\* Mutant of PutSyncsDir: the directory fsync is left out.
PutSkipsSyncDir(w) ==
    /\ pc[w] = "syncdir"
    /\ DirSyncSupported
    /\ pc' = [pc EXCEPT ![w] = "replyDurable"]
    /\ UNCHANGED <<status, ref, tmp, stray, dir, disk, shard, seen, unlinked, acks>>

\* syncDir succeeds.
PutSyncsDir(w) ==
    /\ pc[w] = "syncdir"
    /\ DirSyncSupported
    /\ disk' = Flushed(ShardOf[ref[w]])
    /\ pc' = [pc EXCEPT ![w] = "replyDurable"]
    /\ UNCHANGED <<status, ref, tmp, stray, dir, shard, seen, unlinked, acks>>

\* syncDir is unsupported or fails: durable = false, and the write goes on.
PutCannotSyncDir(w) ==
    /\ pc[w] = "syncdir"
    /\ pc' = [pc EXCEPT ![w] = "reply"]
    /\ UNCHANGED <<status, ref, tmp, stray, dir, disk, shard, seen, unlinked, acks>>

\* Durable: true, unless the object was deleted while the call was finishing.
Acknowledged(w, path) ==
    IF w \in unlinked THEN acks
    ELSE acks \cup {[ref |-> ref[w], path |-> path, shard |-> shard[ShardOf[ref[w]]]]}

\* Put returns.  Its AlreadyStored answer always says Durable: true.
PutReturns(w) ==
    /\ pc[w] \in {"drain", "reply", "replyDurable"}
    /\ acks' = CASE pc[w] = "drain"        -> Acknowledged(w, "duplicate")
                 [] pc[w] = "replyDurable" -> Acknowledged(w, "publish")
                 [] pc[w] = "reply"        -> acks
    /\ pc' = [pc EXCEPT ![w] = "idle"]
    /\ ref' = [ref EXCEPT ![w] = NoRef]
    /\ unlinked' = unlinked \ {w}
    /\ UNCHANGED <<status, tmp, stray, dir, disk, shard, seen>>

-----------------------------------------------------------------------------
(* Delete, Close, the machine, and Open *)

\* The unlink of Store.Delete and Store.DeleteFile.  No fsync follows it.
Unlink(r) ==
    /\ status \in {"open", "closed"}
    /\ dir[r] # NoFile
    /\ dir' = [dir EXCEPT ![r] = NoFile]
    /\ disk' = [disk EXCEPT ![r] = @ \cup {NoFile}]
    /\ unlinked' = unlinked \cup {w \in Writers : pc[w] \in Answering /\ ref[w] = r}
    /\ acks' = {a \in acks : a.ref # r}
    /\ UNCHANGED <<status, pc, ref, tmp, stray, shard, seen>>

\* Store.Close: new calls are refused, calls in flight go on.
Close ==
    /\ status = "open"
    /\ status' = "closed"
    /\ UNCHANGED <<pc, ref, tmp, stray, dir, disk, shard, seen, unlinked, acks>>

\* The memory of the process is gone, and with it every call in flight.
NoCallRuns ==
    /\ pc' = [w \in Writers |-> "idle"]
    /\ ref' = [w \in Writers |-> NoRef]
    /\ unlinked' = {}

\* What it could not remove is still there.
Stale == IF stray = {} THEN {} ELSE {"stale"}

\* The process ends, by itself or by a kill: calls in flight never answer.
ProcessExits ==
    /\ status # "down"
    /\ status' = "down"
    /\ NoCallRuns
    /\ stray' = Stale
    /\ UNCHANGED <<tmp, dir, disk, shard, seen, acks>>

\* The kernel writes a shard directory and its name back on its own.
Writeback(s) ==
    /\ shard[s] # "absent"
    /\ shard' = [shard EXCEPT ![s] = "durable"]
    /\ disk' = Flushed(s)
    /\ UNCHANGED <<status, pc, ref, tmp, stray, dir, seen, unlinked, acks>>

\* What may be left of a file: synced data survives, other data may not.
Remains(f) ==
    IF f = NoFile \/ f.synced THEN {f}
    ELSE {[body |-> f.body, synced |-> TRUE], [body |-> Torn, synced |-> TRUE]}

\* What may be found in place of any of these files, or of none.
Leftovers(files) == {NoFile} \cup UNION {Remains(f) : f \in files}

\* A shard directory whose name never reached the disk goes with all it holds.
PowerLoss ==
    \E lost \in SUBSET {s \in Shards : shard[s] = "volatile"} :
        /\ status' = "down"
        /\ NoCallRuns
        /\ shard' = [s \in Shards |->
                        IF s \in lost \/ shard[s] = "absent" THEN "absent" ELSE "durable"]
        /\ dir' \in [Refs -> Leftovers(UNION {disk[r] : r \in Refs})]
        /\ \A r \in Refs : IF ShardOf[r] \in lost THEN dir'[r] = NoFile
                           ELSE \E f \in disk[r] : dir'[r] \in Remains(f)
        /\ disk' = [r \in Refs |-> {dir'[r]}]
        /\ tmp' \in [Writers -> Leftovers({tmp[w] : w \in Writers})]
        /\ \A w \in Writers : tmp'[w] \in Remains(tmp[w]) \cup {NoFile}
        /\ stray' = Stale
        /\ UNCHANGED <<seen, acks>>

\* Open starts: a new Store, with an empty dirCache.
OpenBegins ==
    /\ status = "down"
    /\ status' = "opening"
    /\ seen' = {}
    /\ UNCHANGED <<pc, ref, tmp, stray, dir, disk, shard, unlinked, acks>>

\* Removals of sweepTemps: of what a Put was writing when its process ended, and of
\* what earlier Puts could not remove.  One that fails fails Open: ProcessExits.
SweepTemp(w) ==
    /\ status = "opening"
    /\ tmp[w] # NoFile
    /\ tmp' = [tmp EXCEPT ![w] = NoFile]
    /\ UNCHANGED <<status, pc, ref, stray, dir, disk, shard, seen, unlinked, acks>>

SweepStray ==
    /\ status = "opening"
    /\ stray # {}
    /\ stray' = {}
    /\ UNCHANGED <<status, pc, ref, tmp, dir, disk, shard, seen, unlinked, acks>>

\* Mutant of OpenReturns: the store is handed out without waiting for the sweep.
OpenReturnsUnswept ==
    /\ status = "opening"
    /\ status' = "open"
    /\ UNCHANGED <<pc, ref, tmp, stray, dir, disk, shard, seen, unlinked, acks>>

\* The sweep is done and the store is handed out.
OpenReturns ==
    /\ status = "opening"
    /\ stray = {} /\ \A w \in Writers : tmp[w] = NoFile
    /\ status' = "open"
    /\ UNCHANGED <<pc, ref, tmp, stray, dir, disk, shard, seen, unlinked, acks>>

PutStep(w) ==
    \/ \E r \in Refs : PutFindsDuplicate(w, r) \/ PutCreatesTemp(w, r)
    \/ PutCopies(w)
    \/ PutFsyncs(w)
    \/ PutAbandons(w)
    \/ PutRenames(w)
    \/ PutSyncsDir(w)
    \/ PutCannotSyncDir(w)
    \/ PutReturns(w)

Next ==
    \/ \E w \in Writers : PutStep(w) \/ SweepTemp(w)
    \/ \E r \in Refs : Unlink(r)
    \/ \E s \in Shards : Writeback(s)
    \/ Close \/ ProcessExits \/ PowerLoss \/ OpenBegins \/ SweepStray \/ OpenReturns

Spec == Init /\ [][Next]_vars

-----------------------------------------------------------------------------
(* Properties *)

\* Put never publishes CAS bytes under a name that is not their digest, and a
\* power loss at any moment leaves none either: the digest check precedes the
\* rename, and the fsync of the data precedes it too.
CasIntegrity ==
    \A r \in CasRefs : \A f \in {dir[r]} \cup disk[r] :
        f # NoFile => f.body \in Bodies /\ DigestOf[f.body] = r

\* A name never resolves to a torn file, before or after a power loss, in either
\* namespace: an incomplete upload is never visible.
NoPartialObject ==
    \A r \in Refs : \A f \in {dir[r]} \cup disk[r] :
        f # NoFile => f.synced /\ f.body # Torn

\* A Put that published the object itself and answered Durable: true, in a shard
\* directory whose own name was on stable storage, is there after any number of
\* kills and power losses until something deletes it.
PublishAckSurvives ==
    \A a \in acks : a.path = "publish" /\ a.shard = "durable" => dir[a.ref] # NoFile

\* The same without the condition on the shard directory, as ADR-0003 states it.
AnyPublishAckSurvives ==
    \A a \in acks : a.path = "publish" => dir[a.ref] # NoFile

\* The same for the answer given when the CAS object was already present.
DuplicateAckSurvives ==
    \A a \in acks : a.path = "duplicate" /\ a.shard = "durable" => dir[a.ref] # NoFile

\* On a file system that cannot fsync a directory no Put says Durable: true.
NoDurableClaimWithoutDirSync ==
    DirSyncSupported \/ acks = {}

\* A directory fsync that fails with an I/O error fails the write.
DirSyncErrorFailsPut ==
    DirSyncSupported => \A w \in Writers : pc[w] # "reply"

\* While the store serves, a temp file is one a Put is writing, or one that a Put of
\* this process failed to remove: what an earlier process left, by a crash or by such
\* failures, is gone before Open returns.
NoTempFromBefore ==
    status \in {"open", "closed"} =>
        /\ \A w \in Writers : tmp[w] # NoFile => pc[w] \in {"copy", "fsync", "rename"}
        /\ "stale" \notin stray

-----------------------------------------------------------------------------
(* The store as its callers see it *)

\* The bodies that may be stored under a name, in either namespace.
Storable(r) ==
    {b \in Bodies : /\ ContentAddressed(r) => DigestOf[b] = r
                    /\ MaxObjectBytes > 0 => SizeOf[b] <= MaxObjectBytes}

\* What a reader of a file gets.
BytesOf(f) == IF f = NoFile THEN NoFile ELSE f.body

\* A directory whose own name is not durable may take its names with it.
FallbackOf(r) ==
    {BytesOf(f) : f \in disk[r]} \cup (IF shard[ShardOf[r]] = "durable" THEN {} ELSE {NoFile})

PromisedRefs ==
    {r \in Refs : \E a \in acks : a.ref = r /\ a.path = "publish" /\ a.shard = "durable"}

Durable == INSTANCE DurableStore WITH
    Names    <- Refs,
    Content  <- [r \in Refs |-> Storable(r)],
    Absent   <- NoFile,
    value    <- [r \in Refs |-> BytesOf(dir[r])],
    fallback <- [r \in Refs |-> FallbackOf(r)],
    promised <- PromisedRefs

\* The whole of it: to its callers the many steps of concurrent Puts, with the
\* temp files, fsyncs, caches and crashes in between, look like single writes of
\* whole, acceptable bodies; a kill changes nothing, a power loss brings back only
\* what an earlier write left, and a Durable: true that a publishing Put gave in a
\* durable shard directory is given only when nothing can undo the write.
ImplementsDurableStore == Durable!Spec
=============================================================================
