# Kilncache: specifications, model checks and proofs

Kilncache is a Bazel HTTP remote cache for a small, static cluster. This directory
holds TLA+ models of its parts, the TLC configurations that check them on small
instances, and TLAPS proofs of the most important safety properties for every
instance. `PROJECT.json` lists components, runs, mutants, the lines each definition
models, findings, hazards and theorems. Paths below are relative to the repository.

## 1. The system

| Part | State | Operations | What makes it hard |
|---|---|---|---|
| Object store (`internal/storage/store.go`, `fsutil.go`, `key.go`) | files in shard directories, temp files, directory cache, closed flag | Open, Put, Get, Stat, Verify, Delete, DeleteFile, Reconcile, Close | concurrent Puts of one key; kill and power loss between write, fsync, rename and directory fsync |
| Index (`index.go`) | SQLite rows (size, last access), queue of touches | Upsert, Remove, RemoveBatch, ReplaceAll, Touch, FlushTouches, ColdestN, PageAfter, Totals, Close | rows and files change in separate steps; three goroutines flush one queue; calls fail |
| Evictor (`evict.go`) | wake channel, the locals of a sweep | Wake, Run, Sweep | uploads between any two steps of a sweep; files that cannot be unlinked |
| Placement (`cluster/ring.go`) | members, weights | New, Owners, Holders | ties; edited peer lists; more replicas asked for than members |
| Coordinator, peer client (`cluster/coordinator.go`, `client.go`) | nothing lasting: calls under way | Put (local, coordinated, proxied), Open, Stat | partial success, lost answers, timeouts, crashes, concurrent eviction |
| Hop roles (`protocol/protocol.go`) | the hop header | ParseHop, Terminal | nodes whose peer lists or versions differ |
| Repair (`repair/repair.go`) | cursor, page, queue, pool | Run, auditPass, enqueue, repair, sendCopy | a full queue, an index that changes during the walk, shutdown |
| HTTP handler (`httpapi/cache.go`) | request under way | servePut, serveGet | files replaced, evicted or damaged while streamed; status against effect |
| Node (`node/node.go`, `httpapi/server.go`, `health.go`, `cmd/kilncache/main.go`) | readiness, workers, store handle | New, Run, drain, Close | signals at any moment, handlers and workers that do not end |
| Configuration (`config/config.go`, `load.go`) | the resolved settings | Load, Validate | flag against environment against default; what one check lets through and the next part relies on |
| Chaos runner (`cmd/chaos`) | ledger, counters, report | workers, injectFaults, restoreAll, measureConvergence, finalVerify, verdict | signals, failed docker commands, a cluster that evicts and repairs while it is judged |

How they interact: a PUT reaches any node. By its ring the node is a holder and
*coordinates* (stores, reopens the file and sends it to the other holders, and answers
2xx only when each has confirmed), or it *proxies* the body to the first holder. A read
looks locally, then asks the peers in preference order. `Store.Put` publishes the file,
upserts its row and wakes the evictor when the rows add up to more than the high-water
mark. The repair worker walks the index and sends copies to holders that lack one.
The receiving node declines such a copy with a 507 while it is above its high-water mark.
`Node` starts all of it from a validated configuration, reports readiness, drains and
closes. The chaos runner is a client of a whole cluster: it writes, reads, stops and starts
nodes, and judges what it finds.

## 2. Modules and the code

Each component has a module; `MC<Module>` instantiates it for TLC, and
`<Module>_proofs` holds its theorems, except that `Routing_proofs` is about `Placement`,
`Configuration` and `Forwarding`, and `Eviction_proofs` about `AccessTimes` and `Quota`.
Modules that share a proof module name their state and specification apart
(`RingSpec`, `ConfSpec`, `TouchSpec`). An operator that is introduced as a mutant
changes one definition the way a plausible bug would; it is used by no specification
and serves to show that a property can fail.

**ObjectStore.** `pc[w]` is where call `w` of `Store.Put` is: the duplicate check,
temp file, copy, length and digest checks, fsync, rename, directory fsync and answer
are steps of their own with their error exits. `dir` is what a name leads to now and
`disk` what it may lead to after a power loss; data is durable after the file's fsync,
a name after the directory's fsync or when the kernel writes it back, and a shard
directory's own name when the kernel writes back its parent. `ProcessExits` keeps `dir`, `PowerLoss` falls
back to `disk`, and `Open` sweeps temp files before it serves. `stray` holds temp files that
a Put could not remove, marked stale once the process that left them is gone. Bodies are
model values with a digest and a length.

**DurableStore** is what a caller may rely on, and models no code of its own: a name
holds one whole value or none, writes and removals are single steps, a power loss may bring
back an earlier value until it has been forced out, and `Durable: true` is answered only
when nothing can undo the write. `ObjectStore` implements it under a mapping that reads
`value` from `dir`, `fallback` (what a power loss may bring back) from `disk` and the
state of the shard directory, and `promised` from the acknowledgements of publishing Puts
in durable shards. The other acknowledgements are the subject of section 3.

**Quota.** `file` and `row` are the two views of usage. A `Put` that has renamed its
file upserts the row and then wakes the evictor; `Sweep` computes `mustFree`, reads a
batch, unlinks its members one by one and removes the rows in one transaction, with
every early return. Kills stop all of it, and `Reconcile` rebuilds the rows from the
files at startup. Victims are taken in any order, so no property depends on the score.
Objects may be empty and the two marks may be equal, as `Validate` allows.
Repair copies come from other holders without end: `RepairProbed` is the quota probe of
`Coordinator.Put` with `HopRepair`, and `RepairStores` the rename that may follow long
after it. So `QuotaDrains` speaks of eviction and repair together: without the probe
the two chase each other for ever, which is the mutant of that property.

**AccessTimes.** The touch queue with its limit, the flush mutex, the three flushers
(ticker, evictor, closing goroutine), `Upsert`, and `RemoveBatch`, which drops the
touches of its victims before their rows. `Touch` and `Upsert` read the clock before they
wait for the queue's mutex or the connection, so a use is stamped in one step (`Stamp`)
and recorded in another, and later stamps may be recorded first. Cancelling the background
context makes a flush that is under way fail.

**Replication.** One key in a cluster that agrees on placement. `stage` follows each
client PUT at its coordinator, `net` holds replica and repair writes that the peer has
yet to store, and a write may be lost, answered after the sender's timeout, or answered
into the void. Nodes crash and restart with their disk. A read tries the local copy and
then the peers. `indexed` says whose index has a row: the Upsert at the end of `Store.Put`
may fail, eviction deletes the file first and the row in a later step that also takes the
row of a copy stored in between, and a restart reconciles. Repair starts from a row, and
sends a copy after a HEAD that said it is missing.

**Forwarding.** One request among nodes whose preference lists are arbitrary, and whose
hop headers may come from another version: `ParseHop`, `inboundHop`, `Terminal` and the
routing of `Coordinator.Put` and `Open`. A body may stall (`BodyStalls`) wherever nothing
limits its time: `HTTPPeerClient.Put` has a deadline for the whole transfer, while that of
`Get` ends with the headers, and the server has no read timeout and by default no write
timeout.

**RepairAudit.** `Run`, `auditPass`, the bounded queue and the worker pool over an
index that is changed meanwhile; rows are numbers in `PageAfter`'s order.

**Placement.** `Owners` and `Holders` for one key with arbitrary weights, and the edits
of a static peer list.

**Configuration** extends it: a step is a restart of the node with other settings. `Load`
resolves peer list and replica count from flag, environment and default, `Validate` and
then `cluster.New` accept or refuse, and a node that starts has the ring and the byte marks
that follow. Names may be written with blanks: `ParsePeers` and `New` trim the names of a
list, nothing trims the node's own name, and `Validate` compares names as they are written.
The marks are products of float64 numbers: `Round` is any rounding to a nearest member of
`Floats`, fractions are counted in parts of `One`, and what the conversion to int64 makes
of NaN, or of a product too large for it, is left open between the results of processors.
NaN, which `ParseFloat` accepts, is a value that every comparison is false for. `Placement`
is the abstract specification: whatever the settings, the membership changes as `RingNext`
says or not at all.

**Lifecycle.** The main goroutine from `main` through `New`, `Run`, the drain and
`Close`; the goroutine of `srv.Serve`, which may fail, or be shut down before it begins;
connections, and handlers and workers that may never end; signals at any moment. The flush
of access times is there because its mutex is what `Index.Close` waits for. `net/http` is
taken at its documentation: after `Shutdown` or `Close` no connection is accepted, and
`Shutdown` returns when none is left. SQLite's `Close` is taken not to wait for a
connection in use.

**Serving.** Two-node view of the HTTP face: an owner and a front door. `put` follows an
upload to the status its client sees; `get` follows a download block by block from an
inode that may lose its name, be truncated or be damaged meanwhile. Verified reads are
on, as is the default of `--verify-reads`.

**Chaos.** One run of `cmd/chaos`. `phase` is where `runChaos` is, from `waitAllReady` to
its error; the workers and the fault injector run beside it during the traffic. The ledger
is the sets `want` and `refused`, counters are zero or not, and a sample is all keys. The
cluster is external and as weak as the rest of this directory shows it to be: it stores an
acknowledged object on both holders, evicts and repairs when it likes, answers with any
live copy, damaged or not, and forgets its eviction counters with its process. A docker
command may fail and have had its effect or not. After such a failure the next
victim may join one that is still down, so `AckedHasLiveHolder` is about runs without one.

### Not modelled, and why

- The texts of the configuration (`name=url`, sizes, durations) and the settings that are
  only range-checked or passed on: functions of their input that unit tests reach.
- Metrics, logging, build information, the router, the middleware and the stats endpoint:
  no state that another part looks at.
- The SQLite schema and its metadata table, the distribution of the placement hash, HTTP
  header syntax.
- The benchmark client and the health check command: clients that draw no conclusion from
  an interleaving.
- Lengths of action results on their way between nodes. `replicateOne` sends the size its
  own `Put` stored with the file the name leads to by then; what a peer stores of a body
  that is longer than its Content-Length depends on where net/http's write buffer ends.
- Recovery of a damaged copy. Neither repair, which asks with HEAD, nor another upload,
  which finds the name, replaces it, and no document says how it should be done.

## 3. What TLC checks

All runs are exhaustive for their bounds. `tlc -config X.cfg MCModule` repeats one.

| Run | Instance | Properties |
|---|---|---|
| `store` (829k states) | 2 Puts, a CAS and an AC key in 1 shard, 3 bodies of which one is the CAS key's and one too large | CAS names lead to their digest; published and acknowledged survives; no temp file of an earlier process; implements `DurableStore` |
| `quota` (936k) | 1 putter and 1 repairer, 2 CAS objects and 1 AC object that may be empty, high 2, low 1, batch 2, 1 upload and any number of repair copies, 1 fault, all files removable or one not | types; no lost wake-up; an undisturbed sweep ends at the low mark; usage above the mark is drained; a sweep ends unless empty objects keep arriving |
| `access_times` (3.8M) | 2 keys, queue of 1, 4 uses, 1 database error | types; a flushed read is not taken back past the uses beside it; a sweep ranks by all reads queued before it |
| `replication` (1.6M) | 3 nodes, 2 holders, 1 write, 1 read, 3 faults | acknowledged means stored on every holder; copies only on holders; acknowledged is not 404; missing copies come back from copies that are indexed |
| `forwarding` (188k) | 3 nodes, all combinations of lists, known and unknown roles, stalling bodies | at most three nodes in a row; at most one surplus copy; requests end if bodies go on, and PUTs between nodes in any case |
| `repair_audit` (182k) | 4 rows of which 3 are ours, page 2, budget 2, queue 1, 2 changes, 1 fault | nothing skipped; every object audited for ever; shutdown completes |
| `placement` (4.7k) | 4 names of which 2 also with a blank, weights 0 and 1, all accepted peer lists, lists with duplicates and malformed peers, 256 combinations of name, flag, environment and count, 180 quotas, floats of 3 bits, int64 up to 15 | exactly replica_count holders; marks in order; implements `Placement`; order of peers irrelevant; minimal movement |
| `lifecycle` (38k) | evictor, flusher and repair, 2 connections | who is told ready has an open node; clean stop is quiet; no exit with an open store; a signal ends the node if flushes end |
| `serving` (9.5M) | 2 uploads and 1 download of a CAS or AC key, 2 files of up to 2 blocks, 1 damage | complete bodies are one file; damage is counted; refusals publish nothing; successes were stored |
| `chaos` (778k) | 3 nodes, 1 key with 2 holders, 2 workers, 1 failed command, 1 damaged copy, with and without faults | acknowledged keeps a running holder; missing was evicted; the cluster is left running; served damage fails the run; the run ends |

The type invariants of the other modules, and `NoPartialObject`, are proved (section 4)
and not run again.

Why the bounds are enough for the cases in question: two Puts meet in every pair of
steps of `Put`, and a call that has ended may begin again and overwrite. One fault is enough for a sweep that
loses its RemoveBatch or its process, three for a write that misses a holder, a crash
and an eviction. A queue, a budget and a page smaller than the index make a pass end in each
of its ways. Three nodes give a front door, a primary and another holder. Two blocks are
the least for a body that is cut in its middle. One failed docker command is the least
that leaves a node down behind the injector's back; one key is enough because the runner
treats keys alike, and the proofs are for any number. The counters that are capped
(`MaxPuts`, `MaxFaults`, `MaxErrors`, `MaxClock`, `MaxChanges`, `MaxFiles`, `MaxDamage`,
`MaxCommandErrs`) occur only in guards.

Deadlock checking is off where the bounds, or the end of a request or process, stop a
behaviour; it is on for `ObjectStore` and `Configuration`, which never stop.

Fairness is weak fairness of what the Go scheduler and timers guarantee: a goroutine
that can step does so, calls to the local disk and database returning (`Quota`: Puts, the
sweep, the ticker, the restart; `Replication`: coordinators, delivery, repair, restart;
`RepairAudit`: passes and workers). In `Forwarding` a handler that waits for no body runs:
a transfer between nodes by PUT has the deadline of `HTTPPeerClient.Put`, and nothing is
assumed of any other body. `RunCloses` in `RepairAudit` has strong
fairness, because Go's `select` chooses at random between a ready timer and a cancelled
context. `Lifecycle` assumes progress of the main goroutine, and that `Serve` returns once its
listener is closed: neither handlers nor workers nor `storage.Open` need ever return.
`SignalEndsNode` has a condition instead, that no flush holds its mutex for ever. `Chaos` assumes that the HTTP client's
timeout of thirty seconds ends a request, that the timers of the run and of the
convergence wait fire, and that a docker command returns. In `ReplicationConverges` faults are
bounded, and the refusals of a holder that is over its quota are among them: a holder that
stays full is outside that property. So are copies without an index row, which the auditor
never meets, and a cluster started with `--repair-workers=0`, which repairs nothing.

### Where code and documentation disagree

These end in a counterexample; each property states what the cited line says. The first
two are runs of `PROJECT.json`. The others have a configuration too, and
`tlc -config <cfg> <MC module>` shows the behaviour. `ConfigurationRefuted.cfg` has three
properties; TLC stops at the first, so leave in the file the one to look at.
`UnindexedConverges` goes into `Replication.cfg` in place of `ReplicationConverges`.

| Property (configuration) | Code | Said by |
|---|---|---|
| `DuplicateAckSurvives` (run `store_duplicate_ack`) | a duplicate upload is told *durable* between the first one's rename and directory fsync | `docs/adr/0003-durability.md:14` |
| `NoFileWithoutRow` (run `quota_orphan`) | an upload between a sweep's unlink and RemoveBatch ends as a file without a row | `docs/adr/0006-eviction-policy.md:109` |
| `CleanShutdownLosesNothing` (`AccessTimesShutdown`) | a flush cancelled by shutdown loses its touches | `internal/storage/index.go:630` |
| `AnyPublishAckSurvives` (`ObjectStoreFreshShardAck`) | nothing fsyncs the parent of a new shard directory | `docs/adr/0003-durability.md:14` |
| `NoDurableClaimWithoutDirSync` (`ObjectStoreNoDirSync`) | a duplicate upload is told *durable* where directories cannot be fsynced | `docs/failure-model.md:73` |
| `DirSyncErrorFailsPut` (`ObjectStoreDirSyncError`) | an I/O error of the directory fsync does not fail the write | `internal/storage/fsutil.go:70` |
| `UsedWithinTolerance` (`QuotaTolerance`) | several uploads pass the mark before a sweep | `docs/adr/0006-eviction-policy.md:120` |
| `HeldWhenAcked` (`ReplicationAck`) | a copy may be evicted before the acknowledgement | `docs/failure-model.md:35` |
| `SequentialWritesAgree` (`ReplicationSequential`) | a late repair copy overwrites a newer action result | `docs/failure-model.md:49` |
| `UnindexedConverges` (`Replication`) | an object whose row is missing is not only miscounted, it is never repaired | `internal/storage/store.go:550` |
| `UnnamedHopIsTerminal` (`ForwardingUnnamed`) | an empty hop header is a client's | `internal/httpapi/cache.go:160` |
| `NoRequestUsesClosedStore` (`LifecycleLateRequest`) | a handler outlives the store after an overrun | `internal/node/node.go:533` |
| `SignalEndsStuckOpen` (`LifecycleStuckOpen`) | a signal during `storage.Open` is caught and ignored | `cmd/kilncache/main.go:58` |
| `HungWorkerBlocksNobody` (`LifecycleHungFlush`) | a worker that hangs in a flush blocks `Index.Close`, and with it the exit, for ever | `internal/node/node.go:520` |
| `GetMatchesKey` (`ServingCorrupt`) | the digest is compared after the last byte is sent | `docs/failure-model.md:28` |
| `MismatchIsBadRequest` (`ServingMismatch`) | an owner's 400 becomes a 503 at the front door | `docs/protocol.md:38` |
| `UsableMarks` (`ConfigurationRefuted`) | a quota so small that its marks meet at the same byte, with NaN for a mark, or whose rounded high mark int64 cannot hold, is accepted | `internal/config/config.go:5` ("Every setting is validated up front") |
| `ExplicitFlagWins` (`ConfigurationRefuted`) | an explicit, empty `--peers=` loses to `KILNCACHE_PEERS` | `internal/config/load.go:13` |
| `ValidatedRuns` (`ConfigurationRefuted`) | a node name with a blank passes `Validate` where `cluster.New` refuses it | `internal/config/config.go:106` |
| `GoneMeansLost` (`ChaosGone`) | counters that a restart reset, or evictions after they were read, make evicted objects a verdict of lost data | `cmd/chaos/chaos.go:376`, `faults.go:278` |
| `ConvergedMeansReplicated` (`ChaosConverged`) | a copy on a node that does not answer counts as absent, and absent objects do not hold up convergence | `cmd/chaos/faults.go:134`, `faults.go:261` |

`PublishAckSurvives`, which holds and is proved, is what remains of the durability promise:
an object that this Put published, in a shard directory that is durable.

## 4. What TLAPS proves

For every value of the constants that satisfies the named assumptions.

**ObjectStore_proofs** (`StoreAssumption`, `NoFileAssumption`). `Inv` is the type
invariant with four parts: `CallInv` (a call past its checks has a temp file with
acceptable bytes, fsynced where it must be), `NameInv` (every name, now and on disk, leads
to a synced file whose bytes were acceptable), `CacheInv` (directories that the cache or a call
relies on exist) and `AckInv` (what is acknowledged, or about to be, is on disk in a
durable shard). None of the properties is inductive alone: `CasIntegrity` needs to know
what a call about to rename holds, and `PublishAckSurvives` what one about to answer has
synced. From `Inv`: `TypeOK`, `CasIntegrity`, `NoPartialObject`, `PublishAckSurvives`,
`NoTempFromBefore`. `StoreImplements` is the refinement: the rename is the abstract write,
the unlink the removal, an fsync or a writeback settles values, the answer is the promise
(`AckInv` is what makes it true), a power loss is a power loss, and every other step
cannot be seen by a caller.

**Replication_proofs** (`ReplicationAssumption`). `Inv` adds `PutInv` (who a coordinator
has sent to and heard from, and that each confirmed node stored this write), `PlaceInv`
(copies, writes and repairs concern holders only), `KeptInv` (with no eviction, who
stored still holds) and `ReadInv` (how far a read has come without having met a copy).
From it: `TypeOK`, `AckedOnEveryHolder`, `CopiesOnlyOnHolders`, `AckedIsNotMissed`, for
any cluster size, replica count, number of writes and of faults.

**RepairAudit_proofs** (`AuditAssumption`). `NothingSkipped` from `PageInv` (what the page
still holds lies after the position) and `Covered`: every row of ours up to the cursor,
and during a pass up to its position, that was there all along has been taken by the
queue.

**Routing_proofs** (`PlacementAssumption`, `NamesAssumption`, `FloatAssumption`,
`SettingsAssumption`, `ForwardingAssumption`).
Placement: `ReorderMovesNothing` and `OnlyNewcomersGain`, from lemmas on ranks: members
that join can only push another's rank down the list, so no member becomes a holder because
others joined, and none ceases to be one because others left. Configuration:
`ConfigurationImplements`, because what `cluster.New` accepts is, without its blanks, a list
of different names that are well formed, so every restart is a step of `Placement` or
changes nothing; the two properties then hold of every edit of the settings. (`Validate`
alone would not do: `ValidatedRuns`.) `ConfInv` says that a running node asks for no more
copies than it has members, which survives the trimming because that keeps the length of
the list, and that its quota has passed `Validate`. From it `HoldersAreReplicaCount`: ranks
are a bijection from the members to `0 .. n-1` (different members have different ranks, by
the tie-break on names), so as many members as copies are asked for rank below that number;
and `MarksInOrder`: rounding to a nearest float64 is monotonic, whichever way ties go, so the
products are in the order of the fractions, and a fraction of at most one makes a product of
at most the rounded quota, which is itself a float64. `FloatAssumption` says no more of
float64 than that, and that a whole number that is a float64 stays one in parts of `One`.
Forwarding: `ChainIsBounded`, as a request's role bounds its depth (a client's is at depth 1,
a coordinator's at most 2, a terminal one at most 3), whatever the rings. That theorem
assumes `"client" \notin PeerHeaders`: with the empty header the bound does not hold, as
`UnnamedHopIsTerminal` shows. `CopiesAreBounded` needs no such assumption: `CopyInv` says
that nothing is stored and one write at most is on its way until one node coordinates, and
after that copies and writes are confined to that node and the holders its own ring names.

**Lifecycle_proofs** (`LifecycleAssumption`). `LifeInv` adds `StageInv` (where the main goroutine is says
what the store and the workers are), `ReadyInv` (readiness ends with the shutdown or, when
`Serve` failed, is heard by nobody from `server.Close` on) and `QuietInv` (while no grace
period was overrun, a handler has its connection, no connection outlives the drain and no
worker the stop). From it: `TypeOK`, `ReadyMeansOpen`, `CleanStopIsQuiet`, `ExitsClosed`.

**Serving_proofs** (`ServingAssumption`). `ServInv` has `FileInv` (an undamaged file is as
long as when it was published), `PutOK` for each upload (what each phase has published, and which
statuses are still possible), `GetOK` for each download (all its blocks come from the inode
it opened, and neither end is ahead of what was announced) and `CountInv`, which relates
the failure counter to the cardinality of the downloads that ended differing: needed
because `DamageIsCounted` compares a counter with a set. From it: `TypeOK`,
`CompleteIsOneFile`, `DamageIsCounted`, `RefusalPublishesNothing` and `SuccessWasStored`.

**Chaos_proofs** (`ChaosAssumption`). `ChaosInv` has `ClusterInv` (a copy of an acknowledged
object leaves a holder by eviction only), `WorkerInv` (requests only during the traffic),
`FaultInv` (without a failed command only the victim is down), `PhaseInv` (what
`restoreAll` has yet to start covers every node that is down) and `ReportInv`. From it:
`TypeOK`, `AckedHasLiveHolder` (two holders, at most one node down), `MissingWasEvicted`,
`ExitLeavesClusterUp`, `ServedDamageFails`.

**Eviction_proofs** (`AccessAssumption`, `QuotaAssumption`).
AccessTimes: `TouchInv` adds `MutexInv` (who flushes has the mutex, nobody else has a batch),
`TimeInv` (a use still to be recorded is no older than the oldest one beside the touch that
was queued last), `RecordInv` (the last touch of a key is in the queue, else in the batch
under way, else in its row) and `RankInv` (from its flush on, what was due when the sweep began is in
the rows or the evictor's batch, and no batch written later is older). `RankInv` is needed
because the ticker may commit between the evictor's flush and its ranking, and a commit
replaces the row's time whatever it was. From it: `TouchTypeOK`, `FlushedTouchIsKept`,
`SweepSeesQueuedReads`.
Quota: `QuotaInv` adds `ColumnInv`, `IdleInv`, `SweepInv` (the accounts of an undisturbed
sweep: what is left without the files already unlinked, and what was freed, make up what was
used when it began; the batch still agrees with the rows; a batch that is removed has
unlinked something) and `WakeInv` (who indexed something during a sweep has woken the evictor
or is about to). From it: `TypeOK`, `OverQuotaIsNoticed` and the action property
`QuietSweepLandsAtLow`. `OverQuotaIsNoticed` rests on both: a sweep nobody wrote into ends
below the mark, which is `SweepInv`, and into any other somebody wrote, which is `WakeInv`.
`Total` is the sum of the community modules, a recursion on finite sets. The library's
induction cannot be used for it, so each fact (`SumNat`, `SumRemove`, `SumAgree`, the
existence and uniqueness of the recursive function itself) is shown for a smallest set it
fails for, which `Minimal` takes from the well-foundedness of strict inclusion. The
assumptions are that there are objects, finitely many of finitely many sizes, empty ones
included, and that the low mark is not above the high one. The last is `MarksInOrder`; that
they differ, which `UsableMarks` shows `Validate` not to guarantee, is not needed.

Only model-checked: the liveness properties (`QuotaDrains`, `SweepEnds`,
`ReplicationConverges`, `RequestsEnd`, `EveryObjectIsAudited`, `ShutdownCompletes`,
`SignalEndsNode`, `RunEnds`), because TLAPS 1.4.5 does not treat fairness and ENABLED. Every
safety property of a passing run is also proved.

## 5. What could come next

1. `Replication` with each node's own ring, so that reads during a change of membership are
   covered, and an abstract register of copies for it.
2. `Reconcile` step by step, and the order of AC renames and upserts.
