---------------------------- MODULE Serving_proofs ----------------------------
(***************************************************************************)
(* What a status and a complete body mean, for any number of uploads,      *)
(* downloads, files and blocks.                                            *)
(***************************************************************************)
EXTENDS Serving, FiniteSetTheorems, TLAPS

\* The variables of the owner's disk.
FileInv ==
    /\ namespace \in Namespaces
    /\ name \in 0..files /\ files \in 0..MaxFiles
    /\ length \in [Inodes -> 0..MaxBlocks]
    /\ blocks \in [Inodes -> 0..MaxBlocks]
    /\ damaged \subseteq Inodes
    /\ closed \in BOOLEAN
    /\ \A i \in Inodes : i \notin damaged => blocks[i] = length[i]

\* An upload: a file is published only on the way to replication, and the
\* client has no answer before the end but the front door's 503.
PutOK(u) ==
    /\ u \in Uploads
    /\ u.phase \in {"none", "arriving", "storing"} => ~u.fresh
    /\ u.phase = "replicating" => u.stored # 0
    /\ u.phase # "answered" => u.status \in {0, 503}
    /\ u.fresh => u.status \notin {400, 413, 499}
    /\ u.status \in {200, 201} => u.stored # 0

PutInv == put \in [Puts -> Uploads] /\ \A p \in Puts : PutOK(put[p])

\* A download reads the one inode it opened, and neither end is ahead of what
\* was announced.
GetOK(r) ==
    /\ r \in Downloads
    /\ r.phase \in {"none", "refused"} => r.sent = 0 /\ r.got = 0 /\ r.from = {} /\ ~r.cut
    /\ r.phase \in {"streaming", "ended"} =>
        /\ r.inode \in 1..files
        /\ r.from \subseteq {r.inode}
        /\ r.inode \notin damaged => r.want = length[r.inode]
        /\ blocks[r.inode] <= r.want
        /\ r.sent <= r.want
        /\ r.got <= r.sent
        /\ r.cut => r.got < r.want

GetInv == get \in [Gets -> Downloads] /\ \A g \in Gets : GetOK(get[g])

\* Downloads the owner has finished, and those of them it found to differ.
Ended == {g \in Gets : get[g].phase = "ended"}
Differing == {g \in Ended : ~get[g].cut /\ (get[g].bad \/ get[g].sent # length[get[g].inode])}

\* Every finished download has been counted once at most, and a differing one
\* that was not cut off has been.
CountInv ==
    /\ failures \in Nat
    /\ failures <= Cardinality(Ended)
    /\ ContentAddressed => Cardinality(Differing) <= failures

ServInv == FileInv /\ PutInv /\ GetInv /\ CountInv

-----------------------------------------------------------------------------
(* Uploads *)

(***************************************************************************)
(* A step that leaves one upload in order leaves them all in order.        *)
(***************************************************************************)
LEMMA PutOne ==
    ASSUME PutInv, NEW p \in Puts, NEW u, PutOK(u), put' = [put EXCEPT ![p] = u]
    PROVE  PutInv'
BY DEF PutInv, PutOK

(***************************************************************************)
(* Answers keeps PutInv when the owner's status suits what was stored,     *)
(* whether or not proxyPut stands in between.                              *)
(***************************************************************************)
LEMMA AnswersStep ==
    ASSUME NEW p \in Puts, NEW s \in Statuses, PutInv, Answers(p, s),
           put[p].fresh => s \notin {400, 413, 499},
           s \in {200, 201} => put[p].stored # 0
    PROVE  PutInv'
<1> DEFINE st == IF put[p].status # 0 THEN put[p].status
                 ELSE IF put[p].proxied THEN ProxyStatus(s) ELSE s
           u == [put[p] EXCEPT !.phase = "answered", !.owner = s, !.status = st]
<1>1. PutOK(put[p]) /\ put[p] \in Uploads
  BY DEF PutInv, PutOK
<1>2. put[p].status \in Statuses
  BY <1>1 DEF Uploads
<1>3. /\ st \in Statuses
      /\ put[p].fresh => st \notin {400, 413, 499}
      /\ st \in {200, 201} => put[p].stored # 0
  BY <1>1, <1>2 DEF Statuses, ProxyStatus, PutOK
<1>4. put' = [put EXCEPT ![p] = u]
  BY DEF Answers, PutInv
<1> HIDE DEF st
<1>5. u \in Uploads
  BY <1>1, <1>3 DEF Uploads
<1>6. u.phase = "answered" /\ u.status = st /\ u.fresh = put[p].fresh /\ u.stored = put[p].stored
  BY <1>1 DEF Uploads
<1>7. PutOK(u)
  BY <1>1, <1>3, <1>5, <1>6 DEF PutOK
<1> QED
  BY <1>4, <1>7, PutOne

(***************************************************************************)
(* servePut's arrival, with its early 413, keeps PutInv.                   *)
(***************************************************************************)
LEMMA ClientPutsStep ==
    ASSUME NEW p \in Puts, NEW body \in Bodies, NEW proxied \in BOOLEAN, PutInv,
           ClientPuts(p, body, proxied)
    PROVE  PutInv'
<1> DEFINE ph == IF body = "announced oversize" THEN "answered" ELSE "arriving"
           st == IF body = "announced oversize" THEN 413 ELSE 0
           u == [put[p] EXCEPT !.body = body, !.proxied = proxied, !.phase = ph, !.status = st]
<1>1. /\ ph \in {"arriving", "answered"} /\ st \in Statuses \ {200, 201}
      /\ ph = "answered" \/ st = 0
  BY DEF Statuses
<1>2. put' = [put EXCEPT ![p] = u]
  BY DEF ClientPuts, PutInv
<1>3. put[p] \in Uploads /\ ~put[p].fresh
  BY DEF PutInv, PutOK, ClientPuts
<1> HIDE DEF ph, st
<1>4. u \in Uploads
  BY <1>1, <1>3 DEF Uploads
<1>5. u.phase = ph /\ u.status = st /\ u.fresh = put[p].fresh
  BY <1>3 DEF Uploads
<1>6. PutOK(u)
  BY <1>1, <1>3, <1>4, <1>5 DEF PutOK
<1> QED
  BY <1>2, <1>6, PutOne

(***************************************************************************)
(* Finding a duplicate, streaming, the rename and the caller's departure   *)
(* keep PutInv.                                                            *)
(***************************************************************************)
LEMMA StoreStep ==
    ASSUME NEW p \in Puts, PutInv, FileInv,
           \/ StoreFindsDuplicate(p) \/ StoreStreams(p)
           \/ \E size \in 0..MaxBlocks : StorePublishes(p, size)
           \/ CallerGoes(p)
    PROVE  PutInv'
<1>1. PutOK(put[p]) /\ put[p] \in Uploads
  BY DEF PutInv, PutOK
<1>2. CASE StoreFindsDuplicate(p)
  <2> DEFINE u == [put[p] EXCEPT !.phase = "replicating", !.stored = name]
  <2>1. put' = [put EXCEPT ![p] = u]
    BY <1>2 DEF StoreFindsDuplicate, PutInv
  <2>2. name \in 0..MaxFiles /\ name # 0
    BY <1>2, ServingAssumption DEF StoreFindsDuplicate, FileInv
  <2>3. u \in Uploads
    BY <1>1, <2>2 DEF Uploads
  <2>4. /\ u.phase = "replicating" /\ u.stored = name
        /\ u.fresh = put[p].fresh /\ u.status = put[p].status
    BY <1>1 DEF Uploads
  <2>5. PutOK(u)
    BY <1>1, <1>2, <2>2, <2>3, <2>4 DEF PutOK, StoreFindsDuplicate
  <2> QED
    BY <2>1, <2>5, PutOne
<1>3. CASE StoreStreams(p)
  <2> DEFINE u == [put[p] EXCEPT !.phase = "storing"]
  <2>1. put' = [put EXCEPT ![p] = u]
    BY <1>3 DEF StoreStreams, PutInv
  <2>2. u \in Uploads
    BY <1>1 DEF Uploads
  <2>3. /\ u.phase = "storing" /\ u.stored = put[p].stored
        /\ u.fresh = put[p].fresh /\ u.status = put[p].status
    BY <1>1 DEF Uploads
  <2>4. PutOK(u)
    BY <1>1, <1>3, <2>2, <2>3 DEF PutOK, StoreStreams
  <2> QED
    BY <2>1, <2>4, PutOne
<1>4. ASSUME NEW size \in 0..MaxBlocks, StorePublishes(p, size) PROVE PutInv'
  <2> DEFINE u == [put[p] EXCEPT !.phase = "replicating", !.stored = files + 1, !.fresh = TRUE]
  <2>1. put' = [put EXCEPT ![p] = u]
    BY <1>4 DEF StorePublishes, PutInv
  <2>2. files + 1 \in 0..MaxFiles /\ files + 1 # 0
    BY <1>4, ServingAssumption DEF StorePublishes, FileInv
  <2>3. u \in Uploads
    BY <1>1, <2>2 DEF Uploads
  <2>4. /\ u.phase = "replicating" /\ u.stored = files + 1 /\ u.fresh
        /\ u.status = put[p].status
    BY <1>1 DEF Uploads
  <2>5. PutOK(u)
    BY <1>1, <1>4, <2>2, <2>3, <2>4 DEF PutOK, StorePublishes
  <2> QED
    BY <2>1, <2>5, PutOne
<1>5. CASE CallerGoes(p)
  <2> DEFINE st == IF put[p].proxied THEN 503 ELSE 0
             u == [put[p] EXCEPT !.gone = TRUE, !.status = st]
  <2>1. put' = [put EXCEPT ![p] = u]
    BY <1>5 DEF CallerGoes, PutInv
  <2>2. st \in Statuses /\ st \in {0, 503}
    BY DEF Statuses
  <2> HIDE DEF st
  <2>3. u \in Uploads
    BY <1>1, <2>2 DEF Uploads
  <2>4. /\ u.phase = put[p].phase /\ u.stored = put[p].stored
        /\ u.fresh = put[p].fresh /\ u.status = st
    BY <1>1 DEF Uploads
  <2>5. PutOK(u)
    BY <1>1, <2>2, <2>3, <2>4 DEF PutOK
  <2> QED
    BY <2>1, <2>5, PutOne
<1> QED
  BY <1>2, <1>3, <1>4, <1>5

(***************************************************************************)
(* Every step keeps PutInv: no status is sent that the store's outcome     *)
(* does not bear out.                                                      *)
(***************************************************************************)
LEMMA PutStep == FileInv /\ PutInv /\ [Next]_vars => PutInv'
<1> SUFFICES ASSUME FileInv, PutInv, [Next]_vars PROVE PutInv'
  OBVIOUS
<1>1. CASE put' = put
  BY <1>1 DEF PutInv, PutOK
<1>2. ASSUME NEW p \in Puts, NEW status \in Statuses, StoreRefuses(p, status) PROVE PutInv'
  <2>1. status \notin {200, 201}
    BY <1>2 DEF StoreRefuses, StoreErrors
  <2>2. ~put[p].fresh
    BY <1>2 DEF StoreRefuses, PutInv, PutOK
  <2> QED
    BY <1>2, <2>1, <2>2, AnswersStep DEF StoreRefuses
<1>3. ASSUME NEW p \in Puts, StoreIsClosed(p) PROVE PutInv'
  <2>1. 503 \in Statuses /\ 503 \notin {400, 413, 499} /\ 503 \notin {200, 201}
    BY DEF Statuses
  <2> QED
    BY <1>3, <2>1, AnswersStep DEF StoreIsClosed
<1>4. ASSUME NEW p \in Puts, Replicates(p) PROVE PutInv'
  <2>1. put[p].stored # 0
    BY <1>4 DEF Replicates, PutInv, PutOK
  <2>2. PICK s \in {200, 201, 503} : Answers(p, s)
    BY <1>4 DEF Replicates
  <2>3. s \in Statuses /\ s \notin {400, 413, 499}
    BY <2>2 DEF Statuses
  <2> QED
    BY <2>1, <2>2, <2>3, AnswersStep
<1>5. ASSUME NEW g \in Gets PROVE
        /\ \A proxied \in BOOLEAN : GetOpens(g, proxied) => put' = put
        /\ GetRefused(g) \/ CopyBlock(g) \/ RelayBlock(g) \/ CopyEnds(g) \/ ConnectionBreaks(g) => put' = put
  BY DEF GetOpens, GetRefused, CopyBlock, RelayBlock, CopyEnds, ConnectionBreaks
<1>6. Evicts \/ StoreCloses \/ (\E i \in Inodes : DiskDamages(i)) \/ UNCHANGED vars => put' = put
  BY DEF Evicts, StoreCloses, DiskDamages, vars
<1> QED
  BY <1>1, <1>2, <1>3, <1>4, <1>5, <1>6, ClientPutsStep, StoreStep DEF Next

-----------------------------------------------------------------------------
(* The disk *)

(***************************************************************************)
(* Only the rename, an eviction, Close and the disk itself touch the       *)
(* owner's files, and an inode that is not damaged keeps its length.       *)
(***************************************************************************)
LEMMA FileStep == FileInv /\ [Next]_vars => FileInv'
<1> SUFFICES ASSUME FileInv, [Next]_vars PROVE FileInv'
  OBVIOUS
<1> USE ServingAssumption DEF Inodes
<1>1. CASE UNCHANGED <<fileVars, closed>>
  BY <1>1 DEF FileInv, fileVars
<1>2. ASSUME NEW p \in Puts, NEW size \in 0..MaxBlocks, StorePublishes(p, size) PROVE FileInv'
  BY <1>2 DEF FileInv, StorePublishes
<1>3. CASE Evicts
  BY <1>3 DEF FileInv, Evicts
<1>4. CASE StoreCloses
  BY <1>4 DEF FileInv, StoreCloses, fileVars
<1>5. ASSUME NEW i \in Inodes, DiskDamages(i) PROVE FileInv'
  <2>1. /\ blocks' = blocks \/ (blocks[i] > 0 /\ blocks' = [blocks EXCEPT ![i] = blocks[i] - 1])
        /\ damaged' = damaged \cup {i}
        /\ UNCHANGED <<namespace, name, files, length, closed>>
    BY <1>5 DEF DiskDamages
  <2>2. blocks \in [Inodes -> 0 .. MaxBlocks] /\ MaxBlocks \in Nat
    BY DEF FileInv
  <2>3. blocks[i] > 0 => blocks[i] - 1 \in 0 .. MaxBlocks
    BY <2>2
  <2>4. blocks' \in [Inodes -> 0 .. MaxBlocks]
    BY <2>1, <2>2, <2>3
  <2>5. \A j \in Inodes : j \notin damaged' => j \notin damaged /\ blocks'[j] = blocks[j]
    BY <2>1, <2>2
  <2> QED
    BY <2>1, <2>4, <2>5 DEF FileInv
<1>6. ASSUME NEW p \in Puts PROVE
        /\ \A body \in Bodies, proxied \in BOOLEAN : ClientPuts(p, body, proxied) => UNCHANGED <<fileVars, closed>>
        /\ \A status \in Statuses : StoreRefuses(p, status) => UNCHANGED <<fileVars, closed>>
        /\ StoreIsClosed(p) \/ StoreFindsDuplicate(p) \/ StoreStreams(p) \/ Replicates(p) \/ CallerGoes(p)
             => UNCHANGED <<fileVars, closed>>
  BY DEF ClientPuts, StoreRefuses, StoreIsClosed, StoreFindsDuplicate, StoreStreams, Replicates, CallerGoes
<1>7. ASSUME NEW g \in Gets PROVE
        /\ \A proxied \in BOOLEAN : GetOpens(g, proxied) => UNCHANGED <<fileVars, closed>>
        /\ GetRefused(g) \/ CopyBlock(g) \/ RelayBlock(g) \/ CopyEnds(g) \/ ConnectionBreaks(g)
             => UNCHANGED <<fileVars, closed>>
  BY DEF GetOpens, GetRefused, CopyBlock, RelayBlock, CopyEnds, ConnectionBreaks
<1>8. UNCHANGED vars => UNCHANGED <<fileVars, closed>>
  BY DEF vars
<1> QED
  BY <1>1, <1>2, <1>3, <1>4, <1>5, <1>6, <1>7, <1>8 DEF Next

-----------------------------------------------------------------------------
(* Downloads *)

(***************************************************************************)
(* A step that leaves one download in order, and the files alone, leaves   *)
(* them all in order.                                                      *)
(***************************************************************************)
LEMMA GetOne ==
    ASSUME GetInv, NEW g \in Gets, NEW r, GetOK(r), get' = [get EXCEPT ![g] = r], UNCHANGED fileVars
    PROVE  GetInv'
<1>1. get' \in [Gets -> Downloads]
  BY DEF GetInv, GetOK
<1>2. \A h \in Gets : get'[h] = IF h = g THEN r ELSE get[h]
  BY DEF GetInv
<1>3. \A h \in Gets : GetOK(get'[h])
  BY <1>2 DEF GetInv
<1>4. \A h \in Gets : GetOK(get[h])'
  BY <1>3 DEF GetOK, fileVars
<1> QED
  BY <1>1, <1>4 DEF GetInv

(***************************************************************************)
(* A new file, a new name or damage leaves every download in order: its    *)
(* inode lives on, and what was announced stays at least what is there.    *)
(***************************************************************************)
LEMMA GetKept ==
    ASSUME FileInv, GetInv, get' = get, files' \in Nat, files <= files',
           length' \in [Inodes -> 0..MaxBlocks], blocks' \in [Inodes -> 0..MaxBlocks],
           damaged \subseteq damaged',
           \A i \in 1..files : length'[i] = length[i] /\ blocks'[i] <= blocks[i]
    PROVE  GetInv'
<1> SUFFICES ASSUME NEW g \in Gets PROVE GetOK(get[g])'
  BY DEF GetInv
<1>1. GetOK(get[g]) /\ get'[g] = get[g] /\ get[g] \in Downloads
  BY DEF GetInv
<1>2. get[g].phase \in {"streaming", "ended"} =>
        /\ get[g].inode \in 1..files' /\ get[g].inode \in Inodes
        /\ get[g].inode \notin damaged' => get[g].want = length'[get[g].inode]
        /\ blocks'[get[g].inode] <= get[g].want
  <2> SUFFICES ASSUME get[g].phase \in {"streaming", "ended"}
               PROVE  /\ get[g].inode \in 1..files' /\ get[g].inode \in Inodes
                      /\ get[g].inode \notin damaged' => get[g].want = length'[get[g].inode]
                      /\ blocks'[get[g].inode] <= get[g].want
    OBVIOUS
  <2>1. PICK i : i = get[g].inode
    OBVIOUS
  <2>2. i \in 1..files /\ blocks[i] <= get[g].want /\ (i \notin damaged => get[g].want = length[i])
    BY <1>1, <2>1 DEF GetOK
  <2>3. i \in Inodes /\ i \in 1..files'
    BY <2>2, ServingAssumption DEF Inodes, FileInv
  <2>4. blocks[i] \in 0..MaxBlocks /\ blocks'[i] \in 0..MaxBlocks /\ get[g].want \in 0..MaxBlocks
    BY <1>1, <2>3 DEF FileInv, Downloads
  <2>5. blocks'[i] <= get[g].want
    BY <2>2, <2>4, ServingAssumption
  <2> QED
    BY <2>1, <2>2, <2>3, <2>5
<1> QED
  BY <1>1, <1>2 DEF GetOK

(***************************************************************************)
(* Store.Get opens what the name leads to, and announces its size.         *)
(***************************************************************************)
LEMMA GetOpensStep ==
    ASSUME FileInv, GetInv, NEW g \in Gets, NEW proxied \in BOOLEAN, GetOpens(g, proxied)
    PROVE  GetInv'
<1> DEFINE w == blocks[name]
           r == [get[g] EXCEPT !.phase = "streaming", !.proxied = proxied, !.inode = name, !.want = w]
<1>1. get' = [get EXCEPT ![g] = r] /\ UNCHANGED fileVars
  BY DEF GetOpens, GetInv
<1>2. get[g] \in Downloads /\ get[g].sent = 0 /\ get[g].got = 0 /\ get[g].from = {} /\ ~get[g].cut
  BY DEF GetInv, GetOK, GetOpens
<1>3. name \in 1..files /\ name \in Inodes /\ name \in 0..MaxFiles
  BY ServingAssumption DEF FileInv, GetOpens, Inodes
<1>4. w \in 0..MaxBlocks /\ w >= 0 /\ (name \notin damaged => w = length[name]) /\ blocks[name] <= w
  BY <1>3, ServingAssumption DEF FileInv
<1>5. w = blocks[name]
  OBVIOUS
<1> HIDE DEF w
<1>6. r \in Downloads
  BY <1>2, <1>3, <1>4 DEF Downloads
<1>7. /\ r.phase = "streaming" /\ r.inode = name /\ r.want = w
      /\ r.sent = 0 /\ r.got = 0 /\ r.from = {} /\ r.cut = get[g].cut
  BY <1>2 DEF Downloads
<1>8. GetOK(r)
  BY <1>2, <1>3, <1>4, <1>6, <1>7 DEF GetOK
<1> QED
  BY <1>1, <1>8, GetOne

(***************************************************************************)
(* copyVerified reads the open inode only, and not past what is there.     *)
(***************************************************************************)
LEMMA CopyBlockStep ==
    ASSUME FileInv, GetInv, NEW g \in Gets, CopyBlock(g)
    PROVE  GetInv'
<1> DEFINE sn == get[g].sent + 1
           fr == get[g].from \cup {get[g].inode}
           bd == get[g].bad \/ get[g].inode \in damaged
           gt == IF get[g].proxied THEN get[g].got ELSE get[g].got + 1
           r == [get[g] EXCEPT !.sent = sn, !.from = fr, !.bad = bd, !.got = gt]
<1>1. get' = [get EXCEPT ![g] = r] /\ UNCHANGED fileVars
  BY DEF CopyBlock, GetInv
<1>2. /\ get[g] \in Downloads /\ get[g].phase = "streaming" /\ ~get[g].cut
      /\ get[g].inode \in 1..files /\ get[g].from \subseteq {get[g].inode}
      /\ get[g].inode \notin damaged => get[g].want = length[get[g].inode]
      /\ blocks[get[g].inode] <= get[g].want /\ get[g].got <= get[g].sent
      /\ get[g].sent < blocks[get[g].inode]
  BY DEF GetInv, GetOK, CopyBlock
<1>3. get[g].inode \in Inodes
  BY <1>2, ServingAssumption DEF FileInv, Inodes
<1>4. /\ blocks[get[g].inode] \in 0..MaxBlocks /\ get[g].want \in 0..MaxBlocks
      /\ get[g].sent \in 0..MaxBlocks /\ get[g].got \in 0..MaxBlocks
  BY <1>2, <1>3 DEF FileInv, Downloads
<1>5. sn \in 0..MaxBlocks /\ gt \in 0..MaxBlocks /\ sn <= get[g].want /\ gt <= sn
  BY <1>2, <1>4, ServingAssumption
<1>6. fr \in SUBSET Inodes /\ fr \subseteq {get[g].inode} /\ bd \in BOOLEAN
  BY <1>2, <1>3
<1> HIDE DEF sn, fr, bd, gt
<1>7. r \in Downloads
  BY <1>2, <1>5, <1>6 DEF Downloads
<1>8. /\ r.phase = get[g].phase /\ r.inode = get[g].inode /\ r.want = get[g].want
      /\ r.sent = sn /\ r.got = gt /\ r.from = fr /\ r.cut = get[g].cut
  BY <1>2 DEF Downloads
<1>9. GetOK(r)
  BY <1>2, <1>5, <1>6, <1>7, <1>8 DEF GetOK
<1> QED
  BY <1>1, <1>9, GetOne

(***************************************************************************)
(* A refusal, a relayed block, the end of the copy and a broken connection *)
(* keep GetInv.                                                            *)
(***************************************************************************)
LEMMA GetEndsStep ==
    ASSUME FileInv, GetInv, NEW g \in Gets,
           GetRefused(g) \/ RelayBlock(g) \/ CopyEnds(g) \/ ConnectionBreaks(g)
    PROVE  GetInv'
<1>1. GetOK(get[g]) /\ get[g] \in Downloads
  BY DEF GetInv
<1>2. CASE GetRefused(g)
  <2> DEFINE r == [get[g] EXCEPT !.phase = "refused"]
  <2>1. get' = [get EXCEPT ![g] = r] /\ UNCHANGED fileVars
    BY <1>2 DEF GetRefused, GetInv
  <2>2. r \in Downloads
    BY <1>1 DEF Downloads
  <2>3. r.phase = "refused" /\ r.sent = get[g].sent /\ r.got = get[g].got /\ r.from = get[g].from /\ r.cut = get[g].cut
    BY <1>1 DEF Downloads
  <2>4. GetOK(r)
    BY <1>1, <1>2, <2>2, <2>3 DEF GetOK, GetRefused
  <2> QED
    BY <2>1, <2>4, GetOne
<1>3. CASE RelayBlock(g)
  <2> DEFINE gt == get[g].got + 1
             r == [get[g] EXCEPT !.got = gt]
  <2>1. get' = [get EXCEPT ![g] = r] /\ UNCHANGED fileVars
    BY <1>3 DEF RelayBlock, GetInv
  <2>2. get[g].got \in 0..MaxBlocks /\ get[g].sent \in 0..MaxBlocks /\ get[g].got < get[g].sent /\ ~get[g].cut
    BY <1>1, <1>3 DEF RelayBlock, Downloads
  <2>3. gt \in 0..MaxBlocks /\ gt <= get[g].sent /\ get[g].sent # 0
    BY <2>2, ServingAssumption
  <2> HIDE DEF gt
  <2>4. r \in Downloads
    BY <1>1, <2>3 DEF Downloads
  <2>5. /\ r.phase = get[g].phase /\ r.inode = get[g].inode /\ r.want = get[g].want
        /\ r.sent = get[g].sent /\ r.got = gt /\ r.from = get[g].from /\ r.cut = get[g].cut
    BY <1>1 DEF Downloads
  <2>6. GetOK(r)
    BY <1>1, <2>2, <2>3, <2>4, <2>5 DEF GetOK
  <2> QED
    BY <2>1, <2>6, GetOne
<1>4. CASE CopyEnds(g)
  <2> DEFINE r == [get[g] EXCEPT !.phase = "ended"]
  <2>1. get' = [get EXCEPT ![g] = r] /\ UNCHANGED fileVars
    BY <1>4 DEF CopyEnds, GetInv
  <2>2. r \in Downloads
    BY <1>1 DEF Downloads
  <2>3. /\ r.phase = "ended" /\ r.inode = get[g].inode /\ r.want = get[g].want
        /\ r.sent = get[g].sent /\ r.got = get[g].got /\ r.from = get[g].from /\ r.cut = get[g].cut
    BY <1>1 DEF Downloads
  <2>4. GetOK(r)
    BY <1>1, <1>4, <2>2, <2>3 DEF GetOK, CopyEnds
  <2> QED
    BY <2>1, <2>4, GetOne
<1>5. CASE ConnectionBreaks(g)
  <2> DEFINE r == [get[g] EXCEPT !.phase = "ended", !.cut = TRUE]
  <2>1. get' = [get EXCEPT ![g] = r] /\ UNCHANGED fileVars
    BY <1>5 DEF ConnectionBreaks, GetInv
  <2>2. r \in Downloads
    BY <1>1 DEF Downloads
  <2>3. /\ r.phase = "ended" /\ r.inode = get[g].inode /\ r.want = get[g].want
        /\ r.sent = get[g].sent /\ r.got = get[g].got /\ r.from = get[g].from /\ r.cut
    BY <1>1 DEF Downloads
  <2>4. GetOK(r)
    BY <1>1, <1>5, <2>2, <2>3 DEF GetOK, ConnectionBreaks
  <2> QED
    BY <2>1, <2>4, GetOne
<1> QED
  BY <1>2, <1>3, <1>4, <1>5

(***************************************************************************)
(* Every step keeps GetInv: no step mixes two inodes into one body.        *)
(***************************************************************************)
LEMMA GetStep == FileInv /\ GetInv /\ [Next]_vars => GetInv'
<1> SUFFICES ASSUME FileInv, GetInv, [Next]_vars PROVE GetInv'
  OBVIOUS
<1>1. FileInv'
  BY FileStep
<1>2. CASE get' = get /\ UNCHANGED <<files, length, blocks, damaged>>
  BY <1>2 DEF GetInv, GetOK
<1>3. ASSUME NEW p \in Puts, NEW size \in 0..MaxBlocks, StorePublishes(p, size) PROVE GetInv'
  <2>1. get' = get /\ damaged' = damaged /\ files \in Nat /\ files' = files + 1
    BY <1>3, ServingAssumption DEF StorePublishes, FileInv
  <2>2. \A i \in 1..files : i \in Inodes /\ i # files + 1
    BY <2>1, ServingAssumption DEF FileInv, Inodes
  <2>3. \A i \in 1..files : length'[i] = length[i] /\ blocks'[i] = blocks[i] /\ blocks[i] \in 0..MaxBlocks
    BY <1>3, <2>1, <2>2 DEF StorePublishes, FileInv
  <2>4. files <= files' /\ files' \in Nat /\ \A i \in 1..files : blocks'[i] <= blocks[i]
    BY <2>1, <2>3, ServingAssumption
  <2> QED
    BY <1>1, <2>1, <2>3, <2>4, GetKept DEF FileInv
<1>4. ASSUME NEW j \in Inodes, DiskDamages(j) PROVE GetInv'
  <2>1. get' = get /\ damaged \subseteq damaged' /\ files \in Nat /\ files' = files /\ length' = length
    BY <1>4, ServingAssumption DEF DiskDamages, FileInv
  <2>2. \A i \in 1..files : i \in Inodes
    BY <2>1, ServingAssumption DEF FileInv, Inodes
  <2>3. \A i \in 1..files : blocks'[i] <= blocks[i]
    BY <1>4, <2>2, ServingAssumption DEF DiskDamages, FileInv
  <2> QED
    BY <1>1, <2>1, <2>3, GetKept DEF FileInv
<1>5. ASSUME NEW p \in Puts PROVE
        /\ \A body \in Bodies, proxied \in BOOLEAN :
             ClientPuts(p, body, proxied) => get' = get /\ UNCHANGED fileVars
        /\ \A status \in Statuses : StoreRefuses(p, status) => get' = get /\ UNCHANGED fileVars
        /\ StoreIsClosed(p) \/ StoreFindsDuplicate(p) \/ StoreStreams(p) \/ Replicates(p) \/ CallerGoes(p)
             => get' = get /\ UNCHANGED fileVars
  BY DEF ClientPuts, StoreRefuses, StoreIsClosed, StoreFindsDuplicate, StoreStreams, Replicates, CallerGoes
<1>6. Evicts \/ StoreCloses \/ UNCHANGED vars => get' = get /\ UNCHANGED <<files, length, blocks, damaged>>
  BY DEF Evicts, StoreCloses, vars, fileVars
<1>7. UNCHANGED fileVars => UNCHANGED <<files, length, blocks, damaged>>
  BY DEF fileVars
<1> QED
  BY <1>2, <1>3, <1>4, <1>5, <1>6, <1>7, GetOpensStep, CopyBlockStep, GetEndsStep DEF Next

-----------------------------------------------------------------------------
(* stats.VerifyFailures *)

(***************************************************************************)
(* A step that counts nothing, ends no download as differing and reopens   *)
(* none keeps CountInv.                                                    *)
(***************************************************************************)
LEMMA CountKept ==
    ASSUME CountInv, failures' = failures, namespace' = namespace,
           Ended \subseteq Ended', Differing' \subseteq Differing
    PROVE  CountInv'
<1>1. IsFiniteSet(Gets) /\ Ended \subseteq Gets /\ Ended' \subseteq Gets /\ Differing \subseteq Gets
  BY ServingAssumption DEF Ended, Differing
<1>2. IsFiniteSet(Ended') /\ IsFiniteSet(Differing)
  BY <1>1, FS_Subset
<1>3. /\ Cardinality(Ended) <= Cardinality(Ended') /\ Cardinality(Differing') <= Cardinality(Differing)
      /\ IsFiniteSet(Ended) /\ IsFiniteSet(Differing')
  BY <1>2, FS_Subset
<1>4. /\ Cardinality(Ended) \in Nat /\ Cardinality(Ended') \in Nat
      /\ Cardinality(Differing) \in Nat /\ Cardinality(Differing') \in Nat
  BY <1>2, <1>3, FS_CardinalityType
<1>5. ContentAddressed' = ContentAddressed
  BY DEF ContentAddressed
<1>6. failures \in Nat /\ failures <= Cardinality(Ended)
  BY DEF CountInv
<1>7. failures' <= Cardinality(Ended')
  BY <1>3, <1>4, <1>6
<1>8. ContentAddressed => Cardinality(Differing) <= failures
  BY DEF CountInv
<1>9. ContentAddressed => Cardinality(Differing') <= failures'
  BY <1>3, <1>4, <1>6, <1>8
<1> QED
  BY <1>5, <1>6, <1>7, <1>9 DEF CountInv

(***************************************************************************)
(* Object.Verify's count goes up by one at most with each download that    *)
(* ends, and does when the digest differs.                                 *)
(***************************************************************************)
LEMMA CopyEndsCounts ==
    ASSUME FileInv, GetInv, CountInv, NEW g \in Gets, CopyEnds(g)
    PROVE  CountInv'
<1>1. /\ get[g].phase = "streaming" /\ get' = [get EXCEPT ![g].phase = "ended"]
      /\ failures' = IF VerifyFails(g) THEN failures + 1 ELSE failures
      /\ length' = length /\ namespace' = namespace
  BY DEF CopyEnds, fileVars
<1>2. /\ get'[g].phase = "ended" /\ get'[g].bad = get[g].bad /\ get'[g].sent = get[g].sent
      /\ get'[g].inode = get[g].inode
      /\ \A h \in Gets \ {g} : get'[h] = get[h]
  BY <1>1 DEF GetInv, Downloads
<1>3. Ended' = Ended \cup {g} /\ g \notin Ended
  BY <1>1, <1>2 DEF Ended
<1>4. Differing' \subseteq Differing \cup {g}
  BY <1>1, <1>2 DEF Differing, Ended
<1>5. ContentAddressed /\ ~VerifyFails(g) => Differing' \subseteq Differing
  BY <1>1, <1>2 DEF Differing, Ended, VerifyFails
<1>6. IsFiniteSet(Ended) /\ IsFiniteSet(Differing)
  <2>1. IsFiniteSet(Gets) /\ Ended \subseteq Gets /\ Differing \subseteq Gets
    BY ServingAssumption DEF Ended, Differing
  <2> QED
    BY <2>1, FS_Subset
<1>7. /\ IsFiniteSet(Ended') /\ Cardinality(Ended') = Cardinality(Ended) + 1
      /\ Cardinality(Ended) \in Nat /\ Cardinality(Differing) \in Nat
  BY <1>3, <1>6, FS_AddElement, FS_CardinalityType
<1>8. IsFiniteSet(Differing \cup {g}) /\ Cardinality(Differing \cup {g}) \in Nat
      /\ Cardinality(Differing \cup {g}) <= Cardinality(Differing) + 1
  <2>1. CASE g \in Differing
    <3>1. Differing \cup {g} = Differing
      BY <2>1
    <3> QED
      BY <1>6, <1>7, <3>1
  <2>2. CASE g \notin Differing
    BY <1>6, <1>7, <2>2, FS_AddElement
  <2> QED
    BY <2>1, <2>2
<1>9. Cardinality(Differing') \in Nat /\ Cardinality(Differing') <= Cardinality(Differing) + 1
  <2>1. IsFiniteSet(Differing') /\ Cardinality(Differing') <= Cardinality(Differing \cup {g})
    BY <1>4, <1>8, FS_Subset
  <2>2. Cardinality(Differing') \in Nat
    BY <2>1, FS_CardinalityType
  <2> QED
    BY <1>7, <1>8, <2>1, <2>2
<1>10. ContentAddressed /\ ~VerifyFails(g) => Cardinality(Differing') <= Cardinality(Differing)
  BY <1>5, <1>6, FS_Subset
<1>11. failures \in Nat /\ failures <= Cardinality(Ended)
  BY DEF CountInv
<1>12. ContentAddressed => Cardinality(Differing) <= failures
  BY DEF CountInv
<1>13. failures' \in Nat /\ failures' <= Cardinality(Ended')
  BY <1>1, <1>7, <1>11
<1>14. ContentAddressed => Cardinality(Differing') <= failures'
  BY <1>1, <1>7, <1>9, <1>10, <1>11, <1>12
<1>15. ContentAddressed' = ContentAddressed
  BY <1>1 DEF ContentAddressed
<1> QED
  BY <1>13, <1>14, <1>15 DEF CountInv

(***************************************************************************)
(* The other steps of a download count nothing, and change nothing of one  *)
(* that has ended but what the front door still relays.                    *)
(***************************************************************************)
LEMMA OtherGetsCountNothing ==
    ASSUME FileInv, GetInv, CountInv, NEW g \in Gets,
           \/ \E proxied \in BOOLEAN : GetOpens(g, proxied)
           \/ GetRefused(g) \/ CopyBlock(g) \/ RelayBlock(g) \/ ConnectionBreaks(g)
    PROVE  CountInv'
<1>1. failures' = failures /\ UNCHANGED fileVars
  BY DEF GetOpens, GetRefused, CopyBlock, RelayBlock, ConnectionBreaks
<1>2. namespace' = namespace /\ length' = length
  BY <1>1 DEF fileVars
<1>3. \A h \in Gets \ {g} : get'[h] = get[h]
  BY DEF GetOpens, GetRefused, CopyBlock, RelayBlock, ConnectionBreaks, GetInv
<1>4. ASSUME NEW proxied \in BOOLEAN, GetOpens(g, proxied)
      PROVE  get[g].phase = "none" /\ get'[g].phase = "streaming"
  <2> DEFINE r == [get[g] EXCEPT !.phase = "streaming", !.proxied = proxied, !.inode = name,
                                 !.want = blocks[name]]
  <2>1. get[g].phase = "none" /\ get'[g] = r
    BY <1>4 DEF GetOpens, GetInv
  <2>2. r.phase = "streaming"
    BY DEF GetInv, Downloads
  <2> QED
    BY <2>1, <2>2
<1>5. GetRefused(g) => get[g].phase = "none" /\ get'[g].phase = "refused"
  BY DEF GetRefused, GetInv, Downloads
<1>6. CopyBlock(g) => get[g].phase = "streaming" /\ get'[g].phase = "streaming"
  BY DEF CopyBlock, GetInv, Downloads
<1>7. RelayBlock(g) => /\ get'[g].phase = get[g].phase /\ get'[g].cut = get[g].cut
                       /\ get'[g].bad = get[g].bad /\ get'[g].sent = get[g].sent
                       /\ get'[g].inode = get[g].inode
  BY DEF RelayBlock, GetInv, Downloads
<1>8. ConnectionBreaks(g) => get'[g].phase = "ended" /\ get'[g].cut
  BY DEF ConnectionBreaks, GetInv, Downloads
<1>9. /\ get[g].phase = "ended" => get'[g].phase = "ended"
      /\ get'[g].phase = "ended" /\ ~get'[g].cut =>
            /\ get[g].phase = "ended" /\ ~get[g].cut
            /\ get'[g].bad = get[g].bad /\ get'[g].sent = get[g].sent
            /\ get'[g].inode = get[g].inode
  BY <1>4, <1>5, <1>6, <1>7, <1>8
<1>10. Ended \subseteq Ended'
  BY <1>3, <1>9 DEF Ended
<1>11. Differing' \subseteq Differing
  BY <1>2, <1>3, <1>9 DEF Ended, Differing
<1> QED
  BY <1>1, <1>2, <1>10, <1>11, CountKept

(***************************************************************************)
(* Every step keeps CountInv.                                              *)
(***************************************************************************)
LEMMA CountStep == FileInv /\ GetInv /\ CountInv /\ [Next]_vars => CountInv'
<1> SUFFICES ASSUME FileInv, GetInv, CountInv, [Next]_vars PROVE CountInv'
  OBVIOUS
<1>1. ASSUME get' = get, failures' = failures, namespace' = namespace,
             \A i \in 1..files : length'[i] = length[i]
      PROVE  CountInv'
  <2>1. Ended' = Ended /\ \A g \in Ended : get[g].inode \in 1..files
    BY <1>1 DEF Ended, GetInv, GetOK
  <2>2. Differing' \subseteq Differing
    BY <1>1, <2>1 DEF Differing
  <2> QED
    BY <1>1, <2>1, <2>2, CountKept
<1>2. ASSUME NEW p \in Puts, NEW size \in 0..MaxBlocks, StorePublishes(p, size) PROVE CountInv'
  <2>1. \A i \in 1..files : length'[i] = length[i]
    <3>1. files \in Nat /\ files' = files + 1
      BY <1>2, ServingAssumption DEF StorePublishes, FileInv
    <3>2. \A i \in 1..files : i \in Inodes /\ i # files + 1
      BY <3>1, ServingAssumption DEF FileInv, Inodes
    <3> QED
      BY <1>2, <3>1, <3>2 DEF StorePublishes, FileInv
  <2> QED
    BY <1>1, <1>2, <2>1 DEF StorePublishes
<1>3. ASSUME NEW p \in Puts PROVE
        /\ \A body \in Bodies, proxied \in BOOLEAN :
             ClientPuts(p, body, proxied) => UNCHANGED <<get, failures, namespace, length>>
        /\ \A status \in Statuses : StoreRefuses(p, status) => UNCHANGED <<get, failures, namespace, length>>
        /\ StoreIsClosed(p) \/ StoreFindsDuplicate(p) \/ StoreStreams(p) \/ Replicates(p) \/ CallerGoes(p)
             => UNCHANGED <<get, failures, namespace, length>>
  BY DEF ClientPuts, StoreRefuses, StoreIsClosed, StoreFindsDuplicate, StoreStreams, Replicates, CallerGoes,
         fileVars
<1>4. Evicts \/ StoreCloses \/ (\E i \in Inodes : DiskDamages(i)) \/ UNCHANGED vars
        => UNCHANGED <<get, failures, namespace, length>>
  BY DEF Evicts, StoreCloses, DiskDamages, vars, fileVars
<1>5. UNCHANGED <<get, failures, namespace, length>> => CountInv'
  BY <1>1
<1> QED
  BY <1>2, <1>3, <1>4, <1>5, CopyEndsCounts, OtherGetsCountNothing DEF Next

-----------------------------------------------------------------------------
(* The theorems *)

(***************************************************************************)
(* Before the first request everything is in order.                        *)
(***************************************************************************)
LEMMA ServInit == Init => ServInv
<1> SUFFICES ASSUME Init PROVE ServInv
  OBVIOUS
<1>1. FileInv
  <2>1. 0 \in 0..MaxFiles /\ 0 \in 0..MaxBlocks /\ 0 \in 0..0
    BY ServingAssumption
  <2>2. closed \in BOOLEAN
    BY DEF Init
  <2> QED
    BY <2>1, <2>2 DEF Init, FileInv
<1>2. PutInv
  <2> DEFINE u == [phase |-> "none", body |-> "good", proxied |-> FALSE, gone |-> FALSE,
                   stored |-> 0, fresh |-> FALSE, owner |-> 0, status |-> 0]
  <2>1. 0 \in Statuses /\ "good" \in Bodies /\ 0 \in 0..MaxFiles
    BY ServingAssumption DEF Statuses, Bodies
  <2>2. u \in Uploads
    BY <2>1 DEF Uploads
  <2>3. PutOK(u)
    BY <2>2 DEF PutOK
  <2> QED
    BY <2>2, <2>3 DEF Init, PutInv
<1>3. GetInv
  <2> DEFINE r == [phase |-> "none", proxied |-> FALSE, inode |-> 0, want |-> 0,
                   sent |-> 0, got |-> 0, from |-> {}, bad |-> FALSE, cut |-> FALSE]
  <2>1. 0 \in 0..MaxBlocks /\ 0 \in 0..MaxFiles
    BY ServingAssumption
  <2>2. r \in Downloads
    BY <2>1 DEF Downloads
  <2>3. GetOK(r)
    BY <2>2 DEF GetOK
  <2> QED
    BY <2>2, <2>3 DEF Init, GetInv
<1>4. CountInv
  <2>1. Ended = {} /\ Differing = {}
    BY DEF Init, Ended, Differing
  <2>2. Cardinality(Ended) = 0 /\ Cardinality(Differing) = 0
    BY <2>1, FS_EmptySet
  <2> QED
    BY <2>2 DEF Init, CountInv
<1> QED
  BY <1>1, <1>2, <1>3, <1>4 DEF ServInv

(***************************************************************************)
(* The four invariants together hold in every reachable state.             *)
(***************************************************************************)
THEOREM ServInvariant == Spec => []ServInv
<1>1. ServInv /\ [Next]_vars => ServInv'
  BY FileStep, PutStep, GetStep, CountStep DEF ServInv
<1> QED
  BY <1>1, ServInit, PTL DEF Spec

(***************************************************************************)
(* TypeOK always holds; the counter never exceeds the number of downloads. *)
(***************************************************************************)
THEOREM TypeCorrect == Spec => []TypeOK
<1>1. ServInv => TypeOK
  <2> SUFFICES ASSUME ServInv PROVE TypeOK
    OBVIOUS
  <2>1. IsFiniteSet(Gets) /\ Ended \subseteq Gets
    BY ServingAssumption DEF Ended
  <2>2. IsFiniteSet(Ended) /\ Cardinality(Ended) <= Cardinality(Gets)
    BY <2>1, FS_Subset
  <2>3. Cardinality(Ended) \in Nat /\ Cardinality(Gets) \in Nat
    BY <2>1, <2>2, FS_CardinalityType
  <2>4. failures \in 0..Cardinality(Gets)
    BY <2>2, <2>3 DEF ServInv, CountInv
  <2> QED
    BY <2>4 DEF ServInv, FileInv, PutInv, GetInv, TypeOK
<1> QED
  BY <1>1, ServInvariant, PTL

(***************************************************************************)
(* serveGet and proxyGet: a body as long as announced is one file, whole.  *)
(***************************************************************************)
THEOREM CompleteIsOneFileHolds == Spec => []CompleteIsOneFile
<1>1. ServInv => CompleteIsOneFile
  BY DEF ServInv, GetInv, GetOK, CompleteIsOneFile, Complete
<1> QED
  BY <1>1, ServInvariant, PTL

(***************************************************************************)
(* Object.Verify: damage that reached a client in full has been counted,   *)
(* whatever the front door still had to relay when the owner was done.     *)
(***************************************************************************)
THEOREM DamageIsCountedHolds == Spec => []DamageIsCounted
<1>1. ServInv => DamageIsCounted
  <2> SUFFICES ASSUME ServInv, ContentAddressed
               PROVE  Cardinality({g \in Gets : get[g].phase = "ended" /\ Complete(g) /\ Corrupt(g)}) <= failures
    BY DEF DamageIsCounted
  <2> DEFINE served == {g \in Gets : get[g].phase = "ended" /\ Complete(g) /\ Corrupt(g)}
  <2>1. ASSUME NEW g \in served PROVE g \in Differing
    <3>1. /\ g \in Gets /\ get[g].phase = "ended" /\ get[g].got = get[g].want
          /\ get[g].bad \/ get[g].want # length[get[g].inode]
      BY <2>1 DEF Complete, Corrupt
    <3>2. /\ get[g].sent <= get[g].want /\ get[g].got <= get[g].sent
          /\ get[g].cut => get[g].got < get[g].want
      BY <3>1 DEF ServInv, GetInv, GetOK
    <3>3. get[g].sent \in 0..MaxBlocks /\ get[g].got \in 0..MaxBlocks /\ get[g].want \in 0..MaxBlocks
      BY <3>1 DEF ServInv, GetInv, Downloads
    <3>4. get[g].sent = get[g].want /\ ~get[g].cut
      BY <3>1, <3>2, <3>3, ServingAssumption
    <3> QED
      BY <3>1, <3>4 DEF Differing, Ended
  <2>2. IsFiniteSet(Gets) /\ Differing \subseteq Gets
    BY ServingAssumption DEF Differing, Ended
  <2>3. IsFiniteSet(Differing)
    BY <2>2, FS_Subset
  <2>4. Cardinality(served) <= Cardinality(Differing) /\ IsFiniteSet(served)
    <3>1. served \subseteq Differing
      BY <2>1
    <3> QED
      BY <2>3, <3>1, FS_Subset
  <2>5. Cardinality(served) \in Nat /\ Cardinality(Differing) \in Nat
    BY <2>3, <2>4, FS_CardinalityType
  <2>6. Cardinality(Differing) <= failures /\ failures \in Nat
    BY DEF ServInv, CountInv
  <2> QED
    BY <2>4, <2>5, <2>6
<1> QED
  BY <1>1, ServInvariant, PTL

(***************************************************************************)
(* RefusalPublishesNothing: servePut, proxyPut and writePutError answer    *)
(* 400, 413 or 499 only for an upload that has published nothing.          *)
(***************************************************************************)
THEOREM RefusalPublishesNothingHolds == Spec => []RefusalPublishesNothing
<1>1. ServInv => RefusalPublishesNothing
  BY DEF ServInv, PutInv, PutOK, RefusalPublishesNothing
<1> QED
  BY <1>1, ServInvariant, PTL

(***************************************************************************)
(* SuccessWasStored: a 2xx, passed on by a front door or not, has an       *)
(* object of its owner behind it.                                          *)
(***************************************************************************)
THEOREM SuccessWasStoredHolds == Spec => []SuccessWasStored
<1>1. ServInv => SuccessWasStored
  BY DEF ServInv, PutInv, PutOK, SuccessWasStored
<1> QED
  BY <1>1, ServInvariant, PTL
=============================================================================
