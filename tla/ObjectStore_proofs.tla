------------------------- MODULE ObjectStore_proofs -------------------------
(***************************************************************************)
(* The safety of Store.Put for any number of writers, objects, shard       *)
(* directories and bodies.  Everything follows from one inductive          *)
(* invariant, Inv: what the temp file of a Put is worth at each step of    *)
(* the call, what the names can resolve to now and after a power loss, and *)
(* what has been promised about them.                                      *)
(***************************************************************************)
EXTENDS ObjectStore, TLAPS

\* A file that may carry the name r: whole, on stable storage, within the size
\* limit and of the right digest in the CAS namespace.
Whole(r, f) ==
    /\ f \in Files
    /\ f.body \in Storable(r)

Publishable(r, f) == Whole(r, f) /\ f.synced

Writing == {"copy", "fsync", "rename"}

\* Where each call is determines its temp file, its object and its directory.
CallInv ==
    \A w \in Writers :
        /\ pc[w] # "idle" => /\ status \in {"open", "closed"}
                             /\ ref[w] \in Refs
                             /\ shard[ShardOf[ref[w]]] # "absent"
        /\ pc[w] \in Writing => tmp[w] # NoFile
        /\ pc[w] = "fsync" => Whole(ref[w], tmp[w])
        /\ pc[w] = "rename" => Publishable(ref[w], tmp[w])
        /\ status \in {"open", "closed"} /\ pc[w] \notin Writing => tmp[w] = NoFile

\* Every file a name resolves to, or may after a power loss, is publishable.
NameInv ==
    \A r \in Refs :
        /\ dir[r] \in disk[r]
        /\ \A f \in disk[r] : f # NoFile => Publishable(r, f)
        /\ shard[ShardOf[r]] = "absent" => disk[r] = {NoFile}

\* The directory cache of a live process names only directories that exist, and a
\* process that serves has only litter of its own.
CacheInv ==
    /\ status # "down" => \A s \in seen : shard[s] # "absent"
    /\ status \in {"open", "closed"} => "stale" \notin stray

\* A call about to claim durability, and a claim made, exclude that the name is
\* missing on disk.
AckInv ==
    /\ \A w \in Writers \ unlinked :
        /\ pc[w] = "syncdir" => dir[ref[w]] # NoFile
        /\ pc[w] = "replyDurable" => NoFile \notin disk[ref[w]]
    /\ \A a \in acks : a.path = "publish" /\ a.shard = "durable" =>
        /\ shard[ShardOf[a.ref]] = "durable"
        /\ NoFile \notin disk[a.ref]

Inv == TypeOK /\ CallInv /\ NameInv /\ CacheInv /\ AckInv

-----------------------------------------------------------------------------
(* Inv is inductive *)

\* The early return of Put for a CAS object that is present changes no name.
LEMMA PutFindsDuplicateKeepsInv ==
    ASSUME NEW w \in Writers, NEW r \in Refs, Inv, PutFindsDuplicate(w, r)
    PROVE  Inv'
<1> USE StoreAssumption, NoFileAssumption DEF Inv, TypeOK, Refs, Files, Acks, PutSteps
<1>1. TypeOK'
    BY DEF PutFindsDuplicate, EnsureDir
<1>2. CallInv'
    BY DEF PutFindsDuplicate, EnsureDir, CallInv, CacheInv, Writing
<1>3. NameInv'
    BY DEF PutFindsDuplicate, EnsureDir, NameInv
<1>4. CacheInv'
    BY DEF PutFindsDuplicate, EnsureDir, CacheInv
<1>5. AckInv'
    BY DEF PutFindsDuplicate, EnsureDir, AckInv
<1> QED  BY <1>1, <1>2, <1>3, <1>4, <1>5

\* Put starts with an ensured directory and an empty temp file.
LEMMA PutCreatesTempKeepsInv ==
    ASSUME NEW w \in Writers, NEW r \in Refs, Inv, PutCreatesTemp(w, r)
    PROVE  Inv'
<1> USE StoreAssumption, NoFileAssumption DEF Inv, TypeOK, Refs, Files, Acks, PutSteps
<1>1. TypeOK'
    BY DEF PutCreatesTemp, EnsureDir
<1>2. CallInv'
  <2>1. [body |-> Torn, synced |-> FALSE] \in Files
    OBVIOUS
  <2>2. tmp'[w] # NoFile
    BY <2>1 DEF PutCreatesTemp
  <2> QED
    BY <2>2 DEF PutCreatesTemp, EnsureDir, CallInv, CacheInv, Writing
<1>3. NameInv'
    BY DEF PutCreatesTemp, EnsureDir, NameInv
<1>4. CacheInv'
    BY DEF PutCreatesTemp, EnsureDir, CacheInv
<1>5. AckInv'
    BY DEF PutCreatesTemp, EnsureDir, AckInv
<1> QED  BY <1>1, <1>2, <1>3, <1>4, <1>5

\* A body shorter than declared is refused, so what Put accepts is all of what
\* the client sent, with the right digest in the CAS namespace.
LEMMA PutCopiesAllOfIt ==
    ASSUME NEW w \in Writers, PutCopies(w)
    PROVE  \E sent \in Storable(ref[w]) :
              tmp' = [tmp EXCEPT ![w] = [body |-> sent, synced |-> FALSE]]
<1>1. ASSUME NEW sent \in Bodies,
             NEW written \in 0..SizeOf[sent], NEW declared \in {-1, SizeOf[sent]},
             declared = -1 => written = SizeOf[sent],
             Acceptable(ref[w], sent, written, declared)
      PROVE  written = SizeOf[sent] /\ sent \in Storable(ref[w])
  <2>1. SizeOf[sent] \in Nat /\ written = SizeOf[sent]
    BY <1>1, StoreAssumption DEF Acceptable
  <2>2. ContentAddressed(ref[w]) => DigestOf[sent] = ref[w]
    BY <1>1 DEF Acceptable
  <2>3. MaxObjectBytes > 0 => SizeOf[sent] <= MaxObjectBytes
    BY <1>1, <2>1 DEF Acceptable
  <2> QED
    BY <2>1, <2>2, <2>3 DEF Storable
<1>2. PICK sent \in Bodies :
        \E written \in 0..SizeOf[sent], declared \in {-1, SizeOf[sent]} :
            /\ declared = -1 => written = SizeOf[sent]
            /\ Acceptable(ref[w], sent, written, declared)
            /\ tmp' = [tmp EXCEPT ![w] =
                          [body |-> IF written = SizeOf[sent] THEN sent ELSE Torn,
                           synced |-> FALSE]]
    BY DEF PutCopies
<1>3. /\ sent \in Storable(ref[w])
      /\ tmp' = [tmp EXCEPT ![w] = [body |-> sent, synced |-> FALSE]]
    BY <1>1, <1>2
<1> QED
    BY <1>3

\* What the copy loop accepts is fit to be published.
LEMMA PutCopiesKeepsInv ==
    ASSUME NEW w \in Writers, Inv, PutCopies(w)
    PROVE  Inv'
<1> USE StoreAssumption, NoFileAssumption DEF Inv, TypeOK, Refs, Files, Acks, PutSteps
<1>1. TypeOK'
    BY DEF PutCopies
<1>2. CallInv'
  <2>1. PICK sent \in Storable(ref[w]) :
          tmp' = [tmp EXCEPT ![w] = [body |-> sent, synced |-> FALSE]]
    BY PutCopiesAllOfIt
  <2>2. [body |-> sent, synced |-> FALSE] \in Files
    BY DEF Storable
  <2>3. Whole(ref[w], tmp'[w]) /\ tmp'[w] # NoFile
    BY <2>1, <2>2 DEF Whole
  <2> QED
    BY <2>1, <2>3 DEF PutCopies, CallInv, Writing
<1>3. NameInv'
    BY DEF PutCopies, NameInv
<1>4. CacheInv'
    BY DEF PutCopies, CacheInv
<1>5. AckInv'
    BY DEF PutCopies, AckInv
<1> QED  BY <1>1, <1>2, <1>3, <1>4, <1>5

\* After the fsync the temp file cannot be torn any more.
LEMMA PutFsyncsKeepsInv ==
    ASSUME NEW w \in Writers, Inv, PutFsyncs(w)
    PROVE  Inv'
<1> USE StoreAssumption, NoFileAssumption DEF Inv, TypeOK, Refs, Files, Acks, PutSteps
<1>1. /\ tmp[w] \in Files
      /\ Whole(ref[w], tmp[w])
    BY DEF PutFsyncs, CallInv, Writing
<1>2. /\ tmp'[w] \in Files
      /\ Publishable(ref[w], tmp'[w])
    BY <1>1 DEF PutFsyncs, Whole, Publishable
<1>3. \A v \in Writers \ {w} : tmp'[v] = tmp[v]
    BY DEF PutFsyncs
<1>4. TypeOK'
  <2>1. tmp' = [v \in Writers |-> tmp'[v]]
    BY DEF PutFsyncs
  <2>2. tmp' \in [Writers -> Files \cup {NoFile}]
    BY <2>1, <1>2, <1>3
  <2> QED
    BY <2>2 DEF PutFsyncs
<1>5. CallInv'
  <2>1. /\ pc' = [pc EXCEPT ![w] = "rename"] /\ pc[w] = "fsync"
        /\ UNCHANGED <<status, ref, shard>>
    BY DEF PutFsyncs
  <2> SUFFICES ASSUME NEW v \in Writers
               PROVE  /\ pc'[v] # "idle" => /\ status' \in {"open", "closed"}
                                            /\ ref'[v] \in Refs
                                            /\ shard'[ShardOf[ref'[v]]] # "absent"
                      /\ pc'[v] \in Writing => tmp'[v] # NoFile
                      /\ pc'[v] = "fsync" => Whole(ref'[v], tmp'[v])
                      /\ pc'[v] = "rename" => Publishable(ref'[v], tmp'[v])
                      /\ status' \in {"open", "closed"} /\ pc'[v] \notin Writing
                         => tmp'[v] = NoFile
    BY DEF CallInv
  <2>2. CASE v = w
    BY <1>2, <2>1, <2>2 DEF CallInv, Writing
  <2>3. CASE v # w
    BY <1>3, <2>1, <2>3 DEF CallInv, Writing
  <2> QED
    BY <2>2, <2>3
<1>6. NameInv'
    BY DEF PutFsyncs, NameInv
<1>7. CacheInv'
    BY DEF PutFsyncs, CacheInv
<1>8. AckInv'
    BY DEF PutFsyncs, AckInv
<1> QED  BY <1>4, <1>5, <1>6, <1>7, <1>8

\* The deferred removal, whether it succeeds or not, publishes nothing.
LEMMA PutAbandonsKeepsInv ==
    ASSUME NEW w \in Writers, Inv, PutAbandons(w)
    PROVE  Inv'
<1> USE StoreAssumption, NoFileAssumption DEF Inv, TypeOK, Refs, Files, Acks, PutSteps
<1>1. TypeOK'
    BY DEF PutAbandons
<1>2. CallInv'
    BY DEF PutAbandons, CallInv, Writing
<1>3. NameInv'
    BY DEF PutAbandons, NameInv
<1>4. CacheInv'
    BY DEF PutAbandons, CacheInv
<1>5. AckInv'
    BY DEF PutAbandons, AckInv
<1> QED  BY <1>1, <1>2, <1>3, <1>4, <1>5

\* The rename publishes a whole, synced file.
LEMMA PutRenamesKeepsInv ==
    ASSUME NEW w \in Writers, Inv, PutRenames(w)
    PROVE  Inv'
<1> USE StoreAssumption, NoFileAssumption DEF Inv, TypeOK, Refs, Files, Acks, PutSteps
<1>1. TypeOK'
    BY DEF PutRenames, CallInv
<1>2. CallInv'
    BY DEF PutRenames, CallInv, Writing
<1>3. NameInv'
    BY DEF PutRenames, NameInv, CallInv
<1>4. CacheInv'
    BY DEF PutRenames, CacheInv
<1>5. AckInv'
    BY DEF PutRenames, AckInv, CallInv, Publishable, Whole
<1> QED  BY <1>1, <1>2, <1>3, <1>4, <1>5

\* syncDir brings the published name to disk before Put may claim so.
LEMMA PutSyncsDirKeepsInv ==
    ASSUME NEW w \in Writers, Inv, PutSyncsDir(w)
    PROVE  Inv'
<1> USE StoreAssumption, NoFileAssumption DEF Inv, TypeOK, Refs, Files, Acks, PutSteps
<1>1. TypeOK'
    BY DEF PutSyncsDir, Flushed
<1>2. CallInv'
    BY DEF PutSyncsDir, CallInv, Writing
<1>3. NameInv'
    BY DEF PutSyncsDir, Flushed, NameInv
<1>4. CacheInv'
    BY DEF PutSyncsDir, CacheInv
<1>5. AckInv'
    BY DEF PutSyncsDir, Flushed, AckInv, CallInv, NameInv
<1> QED  BY <1>1, <1>2, <1>3, <1>4, <1>5

\* A failed syncDir takes the durable claim away from the answer.
LEMMA PutCannotSyncDirKeepsInv ==
    ASSUME NEW w \in Writers, Inv, PutCannotSyncDir(w)
    PROVE  Inv'
<1> USE StoreAssumption, NoFileAssumption DEF Inv, TypeOK, Refs, Files, Acks, PutSteps
<1>1. TypeOK'
    BY DEF PutCannotSyncDir
<1>2. CallInv'
    BY DEF PutCannotSyncDir, CallInv, Writing
<1>3. NameInv'
    BY DEF PutCannotSyncDir, NameInv
<1>4. CacheInv'
    BY DEF PutCannotSyncDir, CacheInv
<1>5. AckInv'
    BY DEF PutCannotSyncDir, AckInv
<1> QED  BY <1>1, <1>2, <1>3, <1>4, <1>5

\* Put answers, and only a name on disk is acknowledged as durable.
LEMMA PutReturnsKeepsInv ==
    ASSUME NEW w \in Writers, Inv, PutReturns(w)
    PROVE  Inv'
<1> USE StoreAssumption, NoFileAssumption DEF Inv, TypeOK, Refs, Files, Acks, PutSteps
<1>1. TypeOK'
    BY DEF PutReturns, Acknowledged, CallInv
<1>2. CallInv'
    BY DEF PutReturns, CallInv, Writing
<1>3. NameInv'
    BY DEF PutReturns, NameInv
<1>4. CacheInv'
    BY DEF PutReturns, CacheInv
<1>5. AckInv'
    BY DEF PutReturns, Acknowledged, AckInv
<1> QED  BY <1>1, <1>2, <1>3, <1>4, <1>5

\* The startup sweep removes temp files only.
LEMMA SweepTempKeepsInv ==
    ASSUME NEW w \in Writers, Inv, SweepTemp(w)
    PROVE  Inv'
<1> USE StoreAssumption, NoFileAssumption DEF Inv, TypeOK, Refs, Files, Acks, PutSteps
<1>1. TypeOK'
    BY DEF SweepTemp
<1>2. CallInv'
    BY DEF SweepTemp, CallInv, Writing
<1>3. NameInv'
    BY DEF SweepTemp, NameInv
<1>4. CacheInv'
    BY DEF SweepTemp, CacheInv
<1>5. AckInv'
    BY DEF SweepTemp, AckInv
<1> QED  BY <1>1, <1>2, <1>3, <1>4, <1>5

\* Nor does its removal of what earlier Puts could not remove.
LEMMA SweepStrayKeepsInv ==
    ASSUME Inv, SweepStray
    PROVE  Inv'
<1> USE StoreAssumption, NoFileAssumption DEF Inv, TypeOK, Refs, Files, Acks, PutSteps
<1>1. TypeOK'
    BY DEF SweepStray
<1>2. CallInv'
    BY DEF SweepStray, CallInv, Writing
<1>3. NameInv'
    BY DEF SweepStray, NameInv
<1>4. CacheInv'
    BY DEF SweepStray, CacheInv
<1>5. AckInv'
    BY DEF SweepStray, AckInv
<1> QED  BY <1>1, <1>2, <1>3, <1>4, <1>5

\* A deletion takes its acknowledgements with it.
LEMMA UnlinkKeepsInv ==
    ASSUME NEW r \in Refs, Inv, Unlink(r)
    PROVE  Inv'
<1> USE StoreAssumption, NoFileAssumption DEF Inv, TypeOK, Refs, Files, Acks, PutSteps
<1>1. TypeOK'
    BY DEF Unlink
<1>2. CallInv'
    BY DEF Unlink, CallInv
<1>3. NameInv'
    BY DEF Unlink, NameInv
<1>4. CacheInv'
    BY DEF Unlink, CacheInv
<1>5. AckInv'
    BY DEF Unlink, Answering, AckInv
<1> QED  BY <1>1, <1>2, <1>3, <1>4, <1>5

\* The kernel may flush a directory at any time.
LEMMA WritebackKeepsInv ==
    ASSUME NEW s \in Shards, Inv, Writeback(s)
    PROVE  Inv'
<1> USE StoreAssumption, NoFileAssumption DEF Inv, TypeOK, Refs, Files, Acks, PutSteps
<1>1. TypeOK'
    BY DEF Writeback, Flushed
<1>2. CallInv'
    BY DEF Writeback, CallInv
<1>3. NameInv'
    BY DEF Writeback, Flushed, NameInv
<1>4. CacheInv'
    BY DEF Writeback, CacheInv
<1>5. AckInv'
    BY DEF Writeback, Flushed, AckInv, CallInv, NameInv
<1> QED  BY <1>1, <1>2, <1>3, <1>4, <1>5

\* Close stops new calls and touches no file.
LEMMA CloseKeepsInv ==
    ASSUME Inv, Close
    PROVE  Inv'
<1> USE StoreAssumption, NoFileAssumption DEF Inv, TypeOK, Refs, Files, Acks, PutSteps
<1>1. TypeOK'
    BY DEF Close
<1>2. CallInv'
    BY DEF Close, CallInv
<1>3. NameInv'
    BY DEF Close, NameInv
<1>4. CacheInv'
    BY DEF Close, CacheInv
<1>5. AckInv'
    BY DEF Close, AckInv
<1> QED  BY <1>1, <1>2, <1>3, <1>4, <1>5

\* A killed process leaves the disk and the page cache as they are.
LEMMA ProcessExitsKeepsInv ==
    ASSUME Inv, ProcessExits
    PROVE  Inv'
<1> USE StoreAssumption, NoFileAssumption DEF Inv, TypeOK, Refs, Files, Acks, PutSteps
<1>1. TypeOK'
    BY DEF ProcessExits, NoCallRuns, Stale
<1>2. CallInv'
    BY DEF ProcessExits, NoCallRuns, CallInv, Writing
<1>3. NameInv'
    BY DEF ProcessExits, NameInv
<1>4. CacheInv'
    BY DEF ProcessExits, CacheInv, Stale
<1>5. AckInv'
    BY DEF ProcessExits, NoCallRuns, AckInv
<1> QED  BY <1>1, <1>2, <1>3, <1>4, <1>5

\* A power loss leaves of each name what is on disk, and that is whole.
LEMMA PowerLossKeepsInv ==
    ASSUME Inv, PowerLoss
    PROVE  Inv'
<1> USE StoreAssumption, NoFileAssumption DEF Inv, TypeOK, Refs, Files, Acks, PutSteps
<1>1. TypeOK'
  <2>0. ASSUME NEW f \in Files \cup {NoFile} PROVE Remains(f) \subseteq Files \cup {NoFile}
    <3>1. CASE f = NoFile
      BY <3>1 DEF Remains
    <3>2. CASE f \in Files
      <4>1. f.body \in Bodies \cup {Torn}
        BY <3>2
      <4>2. {[body |-> f.body, synced |-> TRUE], [body |-> Torn, synced |-> TRUE]} \subseteq Files
        BY <4>1
      <4>3. \/ Remains(f) = {f}
            \/ Remains(f) = {[body |-> f.body, synced |-> TRUE], [body |-> Torn, synced |-> TRUE]}
        BY Zenon DEF Remains
      <4> HIDE DEF Files
      <4> QED
        BY <3>2, <4>2, <4>3
    <3> QED
      BY <3>1, <3>2
  <2>1. ASSUME NEW S \in SUBSET (Files \cup {NoFile})
        PROVE  Leftovers(S) \subseteq Files \cup {NoFile}
    <3> SUFFICES ASSUME NEW f \in S, NEW g \in Remains(f) PROVE g \in Files \cup {NoFile}
      BY DEF Leftovers
    <3> QED
      BY <2>0
  <2>2. /\ UNION {disk[r] : r \in Refs} \in SUBSET (Files \cup {NoFile})
        /\ {tmp[w] : w \in Writers} \in SUBSET (Files \cup {NoFile})
    OBVIOUS
  <2>3. dir' \in [Refs -> Files \cup {NoFile}]
    BY <2>1, <2>2 DEF PowerLoss
  <2>4. tmp' \in [Writers -> Files \cup {NoFile}]
    BY <2>1, <2>2 DEF PowerLoss
  <2> QED
    BY <2>3, <2>4 DEF PowerLoss, NoCallRuns, Stale
<1>2. CallInv'
    BY DEF PowerLoss, NoCallRuns, CallInv, Writing
\* Whatever a name may resolve to on disk is fsynced, so it survives as it is.
<1>3. \A r \in Refs : \A f \in disk[r] : Remains(f) = {f}
    BY DEF NameInv, Publishable, Remains
<1>4. PICK lost \in SUBSET {s \in Shards : shard[s] = "volatile"} :
        \A r \in Refs : IF ShardOf[r] \in lost THEN dir'[r] = NoFile
                        ELSE \E f \in disk[r] : dir'[r] \in Remains(f)
    BY DEF PowerLoss
<1>5. \A r \in Refs : IF ShardOf[r] \in lost THEN dir'[r] = NoFile ELSE dir'[r] \in disk[r]
    BY <1>3, <1>4
<1>6. \A r \in Refs : disk'[r] = {dir'[r]}
    BY DEF PowerLoss
<1>7. NameInv'
    BY <1>5, <1>6 DEF NameInv, PowerLoss
<1>8. CacheInv'
    BY DEF PowerLoss, CacheInv, Stale
<1>9. AckInv'
    BY <1>5, <1>6 DEF PowerLoss, NoCallRuns, AckInv
<1> QED  BY <1>1, <1>2, <1>7, <1>8, <1>9

\* Open starts with an empty directory cache.
LEMMA OpenBeginsKeepsInv ==
    ASSUME Inv, OpenBegins
    PROVE  Inv'
<1> USE StoreAssumption, NoFileAssumption DEF Inv, TypeOK, Refs, Files, Acks, PutSteps
<1>1. TypeOK'
    BY DEF OpenBegins
<1>2. CallInv'
    BY DEF OpenBegins, CallInv
<1>3. NameInv'
    BY DEF OpenBegins, NameInv
<1>4. CacheInv'
    BY DEF OpenBegins, CacheInv
<1>5. AckInv'
    BY DEF OpenBegins, AckInv
<1> QED  BY <1>1, <1>2, <1>3, <1>4, <1>5

\* Open returns once no temp file is left.
LEMMA OpenReturnsKeepsInv ==
    ASSUME Inv, OpenReturns
    PROVE  Inv'
<1> USE StoreAssumption, NoFileAssumption DEF Inv, TypeOK, Refs, Files, Acks, PutSteps
<1>1. TypeOK'
    BY DEF OpenReturns
<1>2. CallInv'
    BY DEF OpenReturns, CallInv
<1>3. NameInv'
    BY DEF OpenReturns, NameInv
<1>4. CacheInv'
    BY DEF OpenReturns, CacheInv
<1>5. AckInv'
    BY DEF OpenReturns, AckInv
<1> QED  BY <1>1, <1>2, <1>3, <1>4, <1>5

\* A step that changes no variable keeps the invariant.
LEMMA StutterKeepsInv ==
    ASSUME Inv, UNCHANGED vars
    PROVE  Inv'
BY DEF vars, Inv, TypeOK, CallInv, NameInv, CacheInv, AckInv

\* A fresh data directory satisfies the invariant.
LEMMA InitInv == Init => Inv
BY StoreAssumption, NoFileAssumption
   DEF Init, Inv, TypeOK, CallInv, NameInv, CacheInv, AckInv, Refs, Files, Acks, PutSteps, Writing

\* Every step of the store and of the machine keeps the invariant.
LEMMA NextKeepsInv == Inv /\ [Next]_vars => Inv'
<1> SUFFICES ASSUME Inv, [Next]_vars PROVE Inv'
    OBVIOUS
<1>1. ASSUME NEW w \in Writers, PutStep(w) PROVE Inv'
    BY <1>1, PutFindsDuplicateKeepsInv, PutCreatesTempKeepsInv, PutCopiesKeepsInv,
       PutFsyncsKeepsInv, PutAbandonsKeepsInv, PutRenamesKeepsInv, PutSyncsDirKeepsInv,
       PutCannotSyncDirKeepsInv, PutReturnsKeepsInv DEF PutStep
<1>2. ASSUME NEW w \in Writers, SweepTemp(w) PROVE Inv'
    BY <1>2, SweepTempKeepsInv
<1>3. ASSUME NEW r \in Refs, Unlink(r) PROVE Inv'
    BY <1>3, UnlinkKeepsInv
<1>4. ASSUME NEW s \in Shards, Writeback(s) PROVE Inv'
    BY <1>4, WritebackKeepsInv
<1>5. CASE Close
    BY <1>5, CloseKeepsInv
<1>6. CASE ProcessExits
    BY <1>6, ProcessExitsKeepsInv
<1>7. CASE PowerLoss
    BY <1>7, PowerLossKeepsInv
<1>8. CASE OpenBegins
    BY <1>8, OpenBeginsKeepsInv
<1>9. CASE OpenReturns
    BY <1>9, OpenReturnsKeepsInv
<1>10. CASE SweepStray
    BY <1>10, SweepStrayKeepsInv
<1>11. CASE UNCHANGED vars
    BY <1>11, StutterKeepsInv
<1> QED
    BY <1>1, <1>2, <1>3, <1>4, <1>5, <1>6, <1>7, <1>8, <1>9, <1>10, <1>11 DEF Next

\* The inductive invariant holds in every state of the store, whatever the
\* interleaving of writers, deletions, kills and power losses.
THEOREM InvHolds == Spec => []Inv
BY InitInv, NextKeepsInv, PTL DEF Spec

-----------------------------------------------------------------------------
(* What follows from Inv *)

\* The variables keep their types.
THEOREM TypeCorrect == Spec => []TypeOK
BY InvHolds, PTL DEF Inv

\* Put and PowerLoss together never leave CAS bytes under a name that is not
\* their digest.
THEOREM CasIntegrityHolds == Spec => []CasIntegrity
<1>1. Inv => CasIntegrity
    BY DEF Inv, NameInv, Publishable, Whole, Storable, CasIntegrity, ContentAddressed, Refs
<1> QED  BY <1>1, InvHolds, PTL

\* An incomplete upload never carries an object's name.
THEOREM NoPartialObjectHolds == Spec => []NoPartialObject
<1>1. Inv => NoPartialObject
    BY StoreAssumption DEF Inv, NameInv, Publishable, Whole, Storable, NoPartialObject
<1> QED  BY <1>1, InvHolds, PTL

\* What Put acknowledged as durable after publishing it into a durable shard
\* directory survives kills and power losses until it is deleted.
THEOREM PublishAckSurvivesHolds == Spec => []PublishAckSurvives
<1>1. Inv => PublishAckSurvives
    BY DEF Inv, TypeOK, Acks, NameInv, AckInv, PublishAckSurvives
<1> QED  BY <1>1, InvHolds, PTL

\* Once Open has returned no temp file of an earlier process is left, whatever ended
\* it, and sweepTemps removes what its Puts could not.
THEOREM NoTempFromBeforeHolds == Spec => []NoTempFromBefore
<1>1. Inv => NoTempFromBefore
    BY DEF Inv, CallInv, CacheInv, Writing, NoTempFromBefore
<1> QED  BY <1>1, InvHolds, PTL

-----------------------------------------------------------------------------
(* ObjectStore implements DurableStore *)

\* The mapped variables, by the names they have in the proof.
valueBar == [r \in Refs |-> BytesOf(dir[r])]
fallbackBar == [r \in Refs |-> FallbackOf(r)]
barVars == <<valueBar, fallbackBar, PromisedRefs>>

\* What a name leads to is among what it may lead to after a power loss.
LEMMA ValueInFallback ==
    ASSUME Inv, NEW r \in Refs
    PROVE  valueBar[r] \in fallbackBar[r]
BY DEF Inv, NameInv, valueBar, fallbackBar, FallbackOf

\* Steps of a Put that move no name and answer nothing, and those of Open, Close
\* and a kill, cannot be seen by a caller.
LEMMA InvisibleSteps ==
    ASSUME Inv, UNCHANGED <<dir, disk, acks>>,
           \A s \in Shards : (shard'[s] = "durable") <=> (shard[s] = "durable")
    PROVE  UNCHANGED barVars
<1>1. \A r \in Refs : (shard'[ShardOf[r]] = "durable") <=> (shard[ShardOf[r]] = "durable")
    BY StoreAssumption
<1>2. valueBar' = valueBar /\ PromisedRefs' = PromisedRefs
    BY DEF valueBar, PromisedRefs, BytesOf
<1>3. \A r \in Refs : FallbackOf(r)' = FallbackOf(r)
    BY <1>1 DEF FallbackOf, BytesOf
<1> QED
    BY <1>2, <1>3 DEF barVars, fallbackBar

\* The rename is the write.
LEMMA RenameIsWrite ==
    ASSUME Inv, NEW w \in Writers, PutRenames(w)
    PROVE  \E r \in Refs : \E v \in Storable(r) \ {NoFile} : Durable!Write(r, v)
<1> USE StoreAssumption, NoFileAssumption DEF Inv, TypeOK
<1>1. PICK r \in Refs, f \in Files :
        r = ref[w] /\ f = tmp[w] /\ f # NoFile /\ f.body \in Storable(r) \ {NoFile}
    BY DEF CallInv, PutRenames, Publishable, Whole, Storable
<1>2. valueBar' = [valueBar EXCEPT ![r] = f.body]
    BY <1>1 DEF PutRenames, valueBar, BytesOf
<1>3. fallbackBar' = [fallbackBar EXCEPT ![r] = @ \cup {f.body}]
  <2>1. ASSUME NEW q \in Refs, q # r PROVE FallbackOf(q)' = FallbackOf(q)
    BY <1>1, <2>1 DEF PutRenames, FallbackOf, BytesOf
  <2>2. FallbackOf(r)' = FallbackOf(r) \cup {f.body}
    <3>1. disk'[r] = disk[r] \cup {f} /\ shard' = shard /\ BytesOf(f) = f.body
      BY <1>1 DEF PutRenames, BytesOf
    <3>2. {BytesOf(g) : g \in disk[r] \cup {f}} = {BytesOf(g) : g \in disk[r]} \cup {f.body}
      BY <3>1
    <3>3. FallbackOf(r)' = {BytesOf(g) : g \in disk'[r]}
                             \cup (IF shard'[ShardOf[r]] = "durable" THEN {} ELSE {NoFile})
      BY DEF FallbackOf, BytesOf, PutRenames
    <3> QED
      BY <3>1, <3>2, <3>3 DEF FallbackOf
  <2> QED
    BY <1>1, <2>1, <2>2 DEF fallbackBar
<1>4. PromisedRefs' = PromisedRefs
    BY DEF PutRenames, PromisedRefs
<1>5. Durable!Write(r, f.body)
    BY <1>2, <1>3, <1>4 DEF Durable!Write, valueBar, fallbackBar
<1> QED
    BY <1>1, <1>5

\* An fsync of a shard directory, by Put or by the kernel, only settles names.
LEMMA FlushIsPersist ==
    ASSUME Inv, NEW s \in Shards, disk' = Flushed(s), UNCHANGED <<dir, acks>>,
           shard' = shard \/ shard' = [shard EXCEPT ![s] = "durable"]
    PROVE  Durable!Persist
<1> USE StoreAssumption DEF Inv, TypeOK
<1>1. valueBar' = valueBar /\ PromisedRefs' = PromisedRefs
    BY DEF valueBar, PromisedRefs, BytesOf
<1>2. ASSUME NEW r \in Refs
      PROVE  FallbackOf(r)' \subseteq FallbackOf(r) /\ BytesOf(dir[r]) \in FallbackOf(r)'
  <2>1. disk'[r] \subseteq disk[r] /\ dir[r] \in disk'[r]
    BY DEF Flushed, NameInv
  <2>2. shard[ShardOf[r]] = "durable" => shard'[ShardOf[r]] = "durable"
    OBVIOUS
  <2>3. FallbackOf(r)' = {BytesOf(f) : f \in disk'[r]}
                           \cup (IF shard'[ShardOf[r]] = "durable" THEN {} ELSE {NoFile})
    BY DEF FallbackOf, BytesOf
  <2> QED
    BY <2>1, <2>2, <2>3 DEF FallbackOf
<1>3. /\ fallbackBar' \in [Refs -> SUBSET UNION {fallbackBar[n] : n \in Refs}]
      /\ \A n \in Refs : valueBar[n] \in fallbackBar'[n] /\ fallbackBar'[n] \subseteq fallbackBar[n]
    BY <1>2 DEF fallbackBar, valueBar
<1> QED
    BY <1>1, <1>3 DEF Durable!Persist, valueBar, fallbackBar

\* The unlink is the removal.
LEMMA UnlinkIsRemove ==
    ASSUME Inv, NEW r \in Refs, Unlink(r)
    PROVE  Durable!Remove(r)
<1> USE StoreAssumption, NoFileAssumption DEF Inv, TypeOK
<1>1. valueBar' = [valueBar EXCEPT ![r] = NoFile]
    BY DEF Unlink, valueBar, BytesOf
<1>2. fallbackBar' = [fallbackBar EXCEPT ![r] = @ \cup {NoFile}]
  <2>1. ASSUME NEW q \in Refs, q # r PROVE FallbackOf(q)' = FallbackOf(q)
    BY <2>1 DEF Unlink, FallbackOf, BytesOf
  <2>2. FallbackOf(r)' = FallbackOf(r) \cup {NoFile}
    <3>1. disk'[r] = disk[r] \cup {NoFile} /\ shard' = shard /\ BytesOf(NoFile) = NoFile
      BY DEF Unlink, BytesOf
    <3>2. {BytesOf(g) : g \in disk[r] \cup {NoFile}} = {BytesOf(g) : g \in disk[r]} \cup {NoFile}
      BY <3>1
    <3>3. FallbackOf(r)' = {BytesOf(g) : g \in disk'[r]}
                             \cup (IF shard'[ShardOf[r]] = "durable" THEN {} ELSE {NoFile})
      BY DEF FallbackOf, BytesOf
    <3> QED
      BY <3>1, <3>2, <3>3 DEF FallbackOf
  <2> QED
    BY <2>1, <2>2 DEF fallbackBar
<1>3. PromisedRefs' = PromisedRefs \ {r}
    BY DEF Unlink, PromisedRefs
<1> QED
    BY <1>1, <1>2, <1>3 DEF Durable!Remove, valueBar, fallbackBar

\* An answer promises what is on disk, or promises nothing new.
LEMMA ReturnIsPromise ==
    ASSUME Inv, NEW w \in Writers, PutReturns(w)
    PROVE  UNCHANGED barVars \/ \E r \in Refs : Durable!Promise(r)
<1> USE StoreAssumption DEF Inv, TypeOK
<1>1. valueBar' = valueBar /\ fallbackBar' = fallbackBar
    BY DEF PutReturns, valueBar, fallbackBar, FallbackOf, BytesOf
<1>2. CASE pc[w] = "replyDurable" /\ w \notin unlinked /\ shard[ShardOf[ref[w]]] = "durable"
  <2>1. PICK r \in Refs : r = ref[w]
    BY <1>2 DEF CallInv
  <2>2. PromisedRefs' = PromisedRefs \cup {r}
    <3> DEFINE ack == [ref |-> r, path |-> "publish", shard |-> "durable"]
    <3>1. acks' = acks \cup {ack}
      BY <1>2, <2>1 DEF PutReturns, Acknowledged
    <3>2. ack.ref = r /\ ack.path = "publish" /\ ack.shard = "durable"
      OBVIOUS
    <3> HIDE DEF ack
    <3>3. \A q \in Refs : q \in PromisedRefs' <=> q \in PromisedRefs \cup {r}
      BY <3>1, <3>2 DEF PromisedRefs
    <3>4. PromisedRefs' \subseteq Refs /\ PromisedRefs \subseteq Refs
      BY DEF PromisedRefs
    <3> QED
      BY <3>3, <3>4
  <2>3. NoFile \notin disk[r] /\ \A f \in disk[r] : f.body \in Bodies
    BY <1>2, <2>1 DEF AckInv, NameInv, Publishable, Whole, Storable
  <2>4. NoFile \notin FallbackOf(r)
    BY <1>2, <2>1, <2>3, NoFileAssumption DEF FallbackOf, BytesOf
  <2>5. Durable!Promise(r)
    BY <1>1, <2>2, <2>4 DEF Durable!Promise, valueBar, fallbackBar
  <2> QED
    BY <2>5
<1>3. CASE ~(pc[w] = "replyDurable" /\ w \notin unlinked /\ shard[ShardOf[ref[w]]] = "durable")
  <2>0. \/ acks' = acks
        \/ \E a : acks' = acks \cup {a} /\ ~(a.path = "publish" /\ a.shard = "durable")
    <3>1. CASE pc[w] = "drain" /\ w \notin unlinked
      <4>1. acks' = acks \cup {[ref |-> ref[w], path |-> "duplicate", shard |-> shard[ShardOf[ref[w]]]]}
        BY <3>1 DEF PutReturns, Acknowledged
      <4> QED
        BY <4>1
    <3>2. CASE pc[w] = "replyDurable" /\ w \notin unlinked
      <4>1. acks' = acks \cup {[ref |-> ref[w], path |-> "publish", shard |-> shard[ShardOf[ref[w]]]]}
        BY <3>2 DEF PutReturns, Acknowledged
      <4> QED
        BY <4>1, <1>3, <3>2
    <3>3. CASE pc[w] = "reply" \/ w \in unlinked
      BY <3>3 DEF PutReturns, Acknowledged
    <3> QED
      BY <3>1, <3>2, <3>3 DEF PutReturns
  <2>1. PromisedRefs' = PromisedRefs
    BY <2>0 DEF PromisedRefs
  <2> QED
    BY <1>1, <2>1 DEF barVars
<1> QED
    BY <1>2, <1>3

\* A power loss brings back what the mapping says it may.
LEMMA PowerLossIsPowerLoss ==
    ASSUME Inv, PowerLoss
    PROVE  Durable!PowerLoss
<1> USE StoreAssumption DEF Inv, TypeOK
<1>1. \A r \in Refs : \A f \in disk[r] : Remains(f) = {f}
    BY DEF NameInv, Publishable, Remains
<1>2. PICK lost \in SUBSET {s \in Shards : shard[s] = "volatile"} :
        /\ shard' = [s \in Shards |->
                        IF s \in lost \/ shard[s] = "absent" THEN "absent" ELSE "durable"]
        /\ \A r \in Refs : IF ShardOf[r] \in lost THEN dir'[r] = NoFile
                           ELSE \E f \in disk[r] : dir'[r] \in Remains(f)
    BY DEF PowerLoss
<1>3. ASSUME NEW r \in Refs
      PROVE  BytesOf(dir'[r]) \in FallbackOf(r) /\ FallbackOf(r)' = {BytesOf(dir'[r])}
  <2>1. IF ShardOf[r] \in lost THEN dir'[r] = NoFile ELSE dir'[r] \in disk[r]
    BY <1>1, <1>2
  <2>2. BytesOf(dir'[r]) \in FallbackOf(r)
    BY <1>2, <2>1 DEF FallbackOf, BytesOf
  <2>3. shard'[ShardOf[r]] # "durable" => dir'[r] = NoFile
    BY <1>2, <2>1 DEF NameInv
  <2>4. disk'[r] = {dir'[r]}
    BY DEF PowerLoss
  <2>5. FallbackOf(r)' = {BytesOf(f) : f \in disk'[r]}
                           \cup (IF shard'[ShardOf[r]] = "durable" THEN {} ELSE {NoFile})
    BY DEF FallbackOf, BytesOf
  <2>6. {BytesOf(f) : f \in disk'[r]} = {BytesOf(dir'[r])}
    BY <2>4
  <2> QED
    BY <2>2, <2>3, <2>5, <2>6 DEF BytesOf
<1>4. \A r \in Refs : valueBar'[r] = BytesOf(dir'[r])
    BY DEF valueBar, BytesOf
<1>5. /\ valueBar' \in [Refs -> UNION {fallbackBar[n] : n \in Refs}]
      /\ \A n \in Refs : valueBar'[n] \in fallbackBar[n]
  <2>1. \A n \in Refs : valueBar'[n] \in fallbackBar[n]
    BY <1>3, <1>4 DEF fallbackBar
  <2>2. valueBar' = [n \in Refs |-> valueBar'[n]]
    BY DEF valueBar
  <2> QED
    BY <2>1, <2>2
<1>6. fallbackBar' = [n \in Refs |-> {valueBar'[n]}]
    BY <1>3, <1>4 DEF fallbackBar
<1>7. PromisedRefs' = PromisedRefs
    BY DEF PowerLoss, PromisedRefs
<1> QED
    BY <1>5, <1>6, <1>7 DEF Durable!PowerLoss, valueBar, fallbackBar

\* Every step of ObjectStore is a step of DurableStore or not visible there.
LEMMA StepsImplement ==
    ASSUME Inv, [Next]_vars
    PROVE  [Durable!Next]_(Durable!vars)
<1> USE StoreAssumption DEF Inv, TypeOK
<1>0. barVars = Durable!vars /\ (UNCHANGED barVars => UNCHANGED Durable!vars)
    BY DEF barVars, valueBar, fallbackBar, Durable!vars
<1> SUFFICES Durable!Next \/ UNCHANGED barVars
    BY <1>0
<1>1. ASSUME NEW w \in Writers, NEW r \in Refs, PutFindsDuplicate(w, r) \/ PutCreatesTemp(w, r)
      PROVE  UNCHANGED barVars
    BY <1>1, InvisibleSteps DEF PutFindsDuplicate, PutCreatesTemp, EnsureDir
<1>2. ASSUME NEW w \in Writers,
             PutCopies(w) \/ PutFsyncs(w) \/ PutAbandons(w) \/ PutCannotSyncDir(w) \/ SweepTemp(w)
      PROVE  UNCHANGED barVars
    BY <1>2, InvisibleSteps DEF PutCopies, PutFsyncs, PutAbandons, PutCannotSyncDir, SweepTemp
<1>3. ASSUME NEW w \in Writers, PutRenames(w) PROVE Durable!Next
    BY <1>3, RenameIsWrite DEF Durable!Next
<1>4. ASSUME NEW w \in Writers, PutSyncsDir(w) PROVE Durable!Next
  <2>1. ShardOf[ref[w]] \in Shards
    BY <1>4 DEF CallInv, PutSyncsDir
  <2> QED
    BY <1>4, <2>1, FlushIsPersist DEF PutSyncsDir, Durable!Next
<1>5. ASSUME NEW s \in Shards, Writeback(s) PROVE Durable!Next
    BY <1>5, FlushIsPersist DEF Writeback, Durable!Next
<1>6. ASSUME NEW w \in Writers, PutReturns(w) PROVE Durable!Next \/ UNCHANGED barVars
    BY <1>6, ReturnIsPromise DEF Durable!Next
<1>7. ASSUME NEW r \in Refs, Unlink(r) PROVE Durable!Next
    BY <1>7, UnlinkIsRemove DEF Durable!Next
<1>8. ASSUME PowerLoss PROVE Durable!Next
    BY <1>8, PowerLossIsPowerLoss DEF Durable!Next
<1>9. ASSUME Close \/ ProcessExits \/ OpenBegins \/ SweepStray \/ OpenReturns \/ UNCHANGED vars
      PROVE  UNCHANGED barVars
    BY <1>9, InvisibleSteps DEF Close, ProcessExits, OpenBegins, SweepStray, OpenReturns, vars
<1> QED
    BY <1>1, <1>2, <1>3, <1>4, <1>5, <1>6, <1>7, <1>8, <1>9 DEF Next, PutStep

\* To its callers the store is a map with atomic, whole writes, of which a power
\* loss undoes only those that nobody was told to be durable: the many steps of
\* concurrent Put calls, of Open and of the file system implement DurableStore.
THEOREM StoreImplements == Spec => ImplementsDurableStore
<1>1. Init => Durable!Init
  <2>1. ASSUME Init
        PROVE  /\ valueBar = [r \in Refs |-> NoFile]
               /\ fallbackBar = [r \in Refs |-> {NoFile}]
               /\ PromisedRefs = {}
    BY <2>1, StoreAssumption DEF Init, valueBar, fallbackBar, FallbackOf, BytesOf, PromisedRefs
  <2> QED
    BY <2>1 DEF Durable!Init, valueBar, fallbackBar
<1> QED
    BY <1>1, InvHolds, StepsImplement, PTL DEF Spec, ImplementsDurableStore, Durable!Spec
=============================================================================
