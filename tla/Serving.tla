------------------------------- MODULE Serving -------------------------------
(***************************************************************************)
(* The HTTP face of one key: how servePut and proxyPut turn what happened  *)
(* to an upload into a status, and how serveGet streams a file that is     *)
(* replaced, evicted or damaged while it is being read, directly or        *)
(* through a peer.                                                         *)
(*                                                                         *)
(* An owner of the key and a front door that is not one.  A request        *)
(* reaches the owner directly or through the front door.  A file is an     *)
(* inode: it lives on for those who have it open when its name is taken    *)
(* from it.  Its content is a number of blocks.                            *)
(***************************************************************************)
EXTENDS Naturals, FiniteSets

CONSTANTS
    Puts, Gets,         \* requests
    Namespaces,         \* those the key may be in: cas, ac
    MaxFiles,           \* bound: files published
    MaxBlocks,          \* bound: blocks of a file
    MaxDamage           \* bound: times the disk damages a file

ASSUME ServingAssumption ==
    /\ Namespaces \subseteq {"cas", "ac"}
    /\ IsFiniteSet(Gets)
    /\ MaxFiles \in Nat /\ MaxBlocks \in Nat \ {0} /\ MaxDamage \in Nat

VARIABLES
    namespace, \* the key's
    name,      \* the inode the key's path leads to, 0 if none
    files,     \* inodes published so far are 1..files
    length,    \* how many blocks each inode was published with
    blocks,    \* how many it has now
    damaged,   \* inodes whose bytes are no longer those published
    closed,    \* the owner's store is closed
    put,       \* the uploads
    get,       \* the downloads
    failures   \* stats.VerifyFailures of the owner

fileVars == <<namespace, name, files, length, blocks, damaged>>
vars == <<fileVars, closed, put, get, failures>>

Inodes == 1..MaxFiles

\* Namespace.ContentAddressed.
ContentAddressed == namespace = "cas"

\* What a client can send: the body it announced under the right key; one that
\* hashes to another; one that ends early; one too large, by its Content-Length
\* or only once it is streamed.
Bodies == {"good", "mismatch", "short", "announced oversize", "oversize"}

\* "owner" is the status the owner answers with, "status" the one the client
\* is sent; 0 is none yet.
Statuses == {0, 200, 201, 400, 413, 499, 500, 503}

Uploads == [phase : {"none", "arriving", "storing", "replicating", "answered"},
            body : Bodies,
            proxied : BOOLEAN, gone : BOOLEAN, stored : 0..MaxFiles, fresh : BOOLEAN,
            owner : Statuses, status : Statuses]

\* "sent" blocks have left the owner and "got" have reached the client; "from"
\* is the inodes they were read from, "bad" that one was not as published.
Downloads == [phase : {"none", "streaming", "ended", "refused"}, proxied : BOOLEAN,
              inode : 0..MaxFiles, want : 0..MaxBlocks, sent : 0..MaxBlocks,
              got : 0..MaxBlocks, from : SUBSET Inodes, bad : BOOLEAN, cut : BOOLEAN]

(***************************************************************************)
(* Type invariant.                                                         *)
(***************************************************************************)
TypeOK ==
    /\ namespace \in Namespaces
    /\ name \in 0..files /\ files \in 0..MaxFiles
    /\ length \in [Inodes -> 0..MaxBlocks]
    /\ blocks \in [Inodes -> 0..MaxBlocks]
    /\ damaged \subseteq Inodes
    /\ closed \in BOOLEAN
    /\ put \in [Puts -> Uploads]
    /\ get \in [Gets -> Downloads]
    /\ failures \in 0..Cardinality(Gets)

Init ==
    /\ namespace \in Namespaces
    /\ name = 0 /\ files = 0
    /\ length = [i \in Inodes |-> 0] /\ blocks = [i \in Inodes |-> 0]
    /\ damaged = {}
    /\ closed = FALSE
    /\ put = [p \in Puts |-> [phase |-> "none", body |-> "good", proxied |-> FALSE,
                              gone |-> FALSE, stored |-> 0, fresh |-> FALSE,
                              owner |-> 0, status |-> 0]]
    /\ get = [g \in Gets |-> [phase |-> "none", proxied |-> FALSE, inode |-> 0, want |-> 0,
                              sent |-> 0, got |-> 0, from |-> {}, bad |-> FALSE, cut |-> FALSE]]
    /\ failures = 0

-----------------------------------------------------------------------------
(***************************************************************************)
(* Uploads.                                                                *)
(***************************************************************************)
\* servePut refuses an announced size before it reads; otherwise the owner
\* gets the body, from the client or from the front door.
ClientPuts(p, body, proxied) ==
    /\ put[p].phase = "none"
    /\ put' = [put EXCEPT ![p].body = body, ![p].proxied = proxied,
                          ![p].phase = IF body = "announced oversize" THEN "answered" ELSE "arriving",
                          ![p].status = IF body = "announced oversize" THEN 413 ELSE 0]
    /\ UNCHANGED <<fileVars, closed, get, failures>>

\* A mutant: the owner answered, so the object is stored.
ProxyStatusOptimistic(owner) == IF owner # 500 THEN 201 ELSE 503

\* proxyPut: any answer that is not a 2xx is too few replicas, and an
\* upload it relayed is never reported as already stored.
ProxyStatus(owner) == IF owner \in {200, 201} THEN 201 ELSE 503

\* The owner answers, and the answer goes back the way the request came, unless
\* the client already has one.
Answers(p, owner) ==
    put' = [put EXCEPT ![p].phase = "answered", ![p].owner = owner,
                       ![p].status = IF @ # 0 THEN @
                                     ELSE IF put[p].proxied THEN ProxyStatus(owner) ELSE owner]

\* Store.Put begins: a closed store takes nothing.
StoreIsClosed(p) ==
    /\ put[p].phase = "arriving"
    /\ closed
    /\ Answers(p, 503)
    /\ UNCHANGED <<fileVars, closed, get, failures>>

\* A CAS object that is present: the body is drained, whatever it holds.
StoreFindsDuplicate(p) ==
    /\ put[p].phase = "arriving"
    /\ ~closed /\ ContentAddressed /\ name # 0
    /\ put' = [put EXCEPT ![p].phase = "replicating", ![p].stored = name]
    /\ UNCHANGED <<fileVars, closed, get, failures>>

StoreStreams(p) ==
    /\ put[p].phase = "arriving"
    /\ ~closed /\ (ContentAddressed => name = 0)
    /\ put' = [put EXCEPT ![p].phase = "storing"]
    /\ UNCHANGED <<fileVars, closed, get, failures>>

\* writePutError of what Store.Put returns: the disk fails; the digest or the
\* length is wrong; the body grows too large; or the client's connection
\* breaks, seen as an error of the body or of ctx.
StoreErrors(p) ==
    {s \in Statuses : \/ s = 500
                      \/ s = 400 /\ put[p].body = "mismatch" /\ ContentAddressed
                      \/ s = 400 /\ put[p].body = "short"
                      \/ s = 413 /\ put[p].body = "oversize"
                      \/ s \in {400, 499} /\ put[p].gone}

\* The upload is refused before anything is published.
StoreRefuses(p, status) ==
    /\ put[p].phase = "storing"
    /\ status \in StoreErrors(p)
    /\ Answers(p, status)
    /\ UNCHANGED <<fileVars, closed, get, failures>>

\* The rename: the key's path leads to a new inode.
StorePublishes(p, size) ==
    /\ put[p].phase = "storing"
    /\ put[p].body = "good" \/ (put[p].body = "mismatch" /\ ~ContentAddressed)
    /\ files < MaxFiles
    /\ files' = files + 1
    /\ name' = files'
    /\ length' = [length EXCEPT ![files'] = size]
    /\ blocks' = [blocks EXCEPT ![files'] = size]
    /\ put' = [put EXCEPT ![p].phase = "replicating", ![p].stored = files', ![p].fresh = TRUE]
    /\ UNCHANGED <<namespace, damaged, closed, get, failures>>

\* A mutant: a client that has gone is reported as such whatever is stored.
ReplicatesGone(p) ==
    /\ put[p].phase = "replicating"
    /\ \/ ~put[p].gone /\ Answers(p, IF put[p].fresh THEN 201 ELSE 200)
       \/ Answers(p, IF put[p].gone THEN 499 ELSE 503)
    /\ UNCHANGED <<fileVars, closed, get, failures>>

\* coordinate, after the local copy: every replica is written, or one is not,
\* as when ctx is done: the client has gone.
Replicates(p) ==
    /\ put[p].phase = "replicating"
    /\ \/ ~put[p].gone /\ Answers(p, IF put[p].fresh THEN 201 ELSE 200)
       \/ Answers(p, 503)
    /\ UNCHANGED <<fileVars, closed, get, failures>>

\* The owner's caller goes: the client, or the front door whose deadline for
\* the hop has passed and which answers 503 itself.
CallerGoes(p) ==
    /\ put[p].phase \in {"arriving", "storing", "replicating"}
    /\ ~put[p].gone
    /\ put' = [put EXCEPT ![p].gone = TRUE, ![p].status = IF put[p].proxied THEN 503 ELSE 0]
    /\ UNCHANGED <<fileVars, closed, get, failures>>

-----------------------------------------------------------------------------
(***************************************************************************)
(* Downloads.                                                              *)
(***************************************************************************)
\* Store.Get: open, then stat what was opened; serveGet announces that size.
\* The front door relays the length its peer announced.
GetOpens(g, proxied) ==
    /\ get[g].phase = "none"
    /\ ~closed /\ name # 0
    /\ get' = [get EXCEPT ![g].phase = "streaming", ![g].proxied = proxied,
                          ![g].inode = name, ![g].want = blocks[name]]
    /\ UNCHANGED <<fileVars, closed, put, failures>>

\* 404, or 503 when the store is closed.
GetRefused(g) ==
    /\ get[g].phase = "none"
    /\ closed \/ name = 0
    /\ get' = [get EXCEPT ![g].phase = "refused"]
    /\ UNCHANGED <<fileVars, closed, put, failures>>

\* A mutant: each block is read from the path, not from the open file.
CopyBlockByPath(g) ==
    /\ get[g].phase = "streaming"
    /\ ~get[g].cut
    /\ name # 0
    /\ get[g].sent < blocks[name] /\ get[g].sent < get[g].want
    /\ get' = [get EXCEPT ![g].sent = @ + 1, ![g].from = @ \cup {name},
                          ![g].got = IF get[g].proxied THEN @ ELSE @ + 1]
    /\ UNCHANGED <<fileVars, closed, put, failures>>

\* copyVerified: a block is read, hashed and written.
CopyBlock(g) ==
    /\ get[g].phase = "streaming"
    /\ ~get[g].cut
    /\ get[g].sent < blocks[get[g].inode]
    /\ get' = [get EXCEPT ![g].sent = @ + 1, ![g].from = @ \cup {get[g].inode},
                          ![g].bad = @ \/ get[g].inode \in damaged,
                          ![g].got = IF get[g].proxied THEN @ ELSE @ + 1]
    /\ UNCHANGED <<fileVars, closed, put, failures>>

\* peerObject.WriteTo: the front door passes a block on.
RelayBlock(g) ==
    /\ get[g].proxied
    /\ get[g].got < get[g].sent
    /\ ~get[g].cut
    /\ get' = [get EXCEPT ![g].got = @ + 1]
    /\ UNCHANGED <<fileVars, closed, put, failures>>

\* A mutant: the bytes are compared in number only.
VerifyMeasures(g) == ContentAddressed /\ get[g].sent # length[get[g].inode]

\* Object.Verify: the digest of what was read is not the key.
VerifyFails(g) == ContentAddressed /\ (get[g].bad \/ get[g].sent # length[get[g].inode])

\* The read meets the end of the file, and Verify counts a digest that differs.
CopyEnds(g) ==
    /\ get[g].phase = "streaming"
    /\ get[g].sent >= blocks[get[g].inode]
    /\ get' = [get EXCEPT ![g].phase = "ended"]
    /\ failures' = IF VerifyFails(g) THEN failures + 1 ELSE failures
    /\ UNCHANGED <<fileVars, closed, put>>

\* A connection on the way breaks with blocks outstanding: the copy returns an
\* error and the client is left short.
ConnectionBreaks(g) ==
    /\ get[g].phase \in {"streaming", "ended"}
    /\ get[g].got < get[g].want
    /\ ~get[g].cut
    /\ get' = [get EXCEPT ![g].phase = "ended", ![g].cut = TRUE]
    /\ UNCHANGED <<fileVars, closed, put, failures>>

-----------------------------------------------------------------------------
(***************************************************************************)
(* The rest of the node, and the disk.                                     *)
(***************************************************************************)
Evicts ==
    /\ name # 0
    /\ name' = 0
    /\ UNCHANGED <<namespace, files, length, blocks, damaged, closed, put, get, failures>>

StoreCloses ==
    /\ ~closed
    /\ closed' = TRUE
    /\ UNCHANGED <<fileVars, put, get, failures>>

\* Bytes of a file change, or the file is cut short, under its inode.
DiskDamages(i) ==
    /\ i <= files /\ i \notin damaged
    /\ Cardinality(damaged) < MaxDamage
    /\ damaged' = damaged \cup {i}
    /\ \/ UNCHANGED blocks
       \/ blocks[i] > 0 /\ blocks' = [blocks EXCEPT ![i] = @ - 1]
    /\ UNCHANGED <<namespace, name, files, length, closed, put, get, failures>>

Next ==
    \/ \E p \in Puts :
        \/ \E body \in Bodies, proxied \in BOOLEAN : ClientPuts(p, body, proxied)
        \/ \E status \in Statuses : StoreRefuses(p, status)
        \/ StoreIsClosed(p) \/ StoreFindsDuplicate(p) \/ StoreStreams(p)
        \/ \E size \in 0..MaxBlocks : StorePublishes(p, size)
        \/ Replicates(p) \/ CallerGoes(p)
    \/ \E g \in Gets :
        \/ \E proxied \in BOOLEAN : GetOpens(g, proxied)
        \/ GetRefused(g) \/ CopyBlock(g) \/ RelayBlock(g) \/ CopyEnds(g) \/ ConnectionBreaks(g)
    \/ Evicts \/ StoreCloses
    \/ \E i \in Inodes : DiskDamages(i)

Spec == Init /\ [][Next]_vars

-----------------------------------------------------------------------------
\* The client holds as many bytes as Content-Length announced.
Complete(g) == get[g].phase \in {"streaming", "ended"} /\ get[g].got = get[g].want

\* What was read is not what was published.
Corrupt(g) == get[g].bad \/ get[g].want # length[get[g].inode]

(***************************************************************************)
(* A response that is as long as it said is one file, whole: overwrites    *)
(* and evictions during the read never mix two files into one body, and a  *)
(* break anywhere on the way leaves a body the client can tell is short.   *)
(* (Of a file the disk has damaged nothing is said.)                       *)
(***************************************************************************)
CompleteIsOneFile ==
    \A g \in Gets :
        Complete(g) => \/ get[g].inode \in damaged
                       \/ /\ get[g].want = length[get[g].inode]
                          /\ get[g].from \subseteq {get[g].inode}

(***************************************************************************)
(* Damage that reaches a client is counted: once the owner is done with a  *)
(* CAS read, a complete body with bytes of a damaged file is one of        *)
(* stats.VerifyFailures.                                                   *)
(***************************************************************************)
DamageIsCounted ==
    ContentAddressed =>
        Cardinality({g \in Gets : get[g].phase = "ended" /\ Complete(g) /\ Corrupt(g)}) <= failures

(***************************************************************************)
(* A refusal publishes nothing: an upload answered 400, 413 or 499 has put *)
(* no file under the key, on the owner or behind the front door.           *)
(***************************************************************************)
RefusalPublishesNothing ==
    \A p \in Puts : put[p].status \in {400, 413, 499} => ~put[p].fresh

(***************************************************************************)
(* A 2xx is an object that was there: the owner published a file for it or *)
(* found one.                                                              *)
(***************************************************************************)
SuccessWasStored ==
    \A p \in Puts : put[p].status \in {200, 201} => put[p].stored # 0

(***************************************************************************)
(* docs/failure-model.md: a GET never returns bytes that do not match      *)
(* their key.                                                              *)
(***************************************************************************)
GetMatchesKey == ContentAddressed => \A g \in Gets : Complete(g) => ~Corrupt(g)

(***************************************************************************)
(* docs/protocol.md: a PUT whose body does not hash to its key is answered *)
(* 400.                                                                    *)
(***************************************************************************)
MismatchIsBadRequest ==
    ContentAddressed =>
        \A p \in Puts :
            (put[p].body = "mismatch" /\ put[p].owner = 400 /\ ~put[p].gone) => put[p].status = 400
=============================================================================
