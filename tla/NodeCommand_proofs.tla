------------------------ MODULE NodeCommand_proofs ------------------------
(***************************************************************************)
(* Proofs about the processes that talk to a Vara node, for any number of  *)
(* processes, command lines, caches and runtime upgrades: what a process   *)
(* holds open, what it makes of a poisoned cache, what it reports of its   *)
(* extrinsic, and what pruning spares.                                     *)
(***************************************************************************)
EXTENDS NodeCommand, FiniteSetTheorems, SequenceTheorems, TLAPS

\* One provider while an attempt is in flight, and one for the api.
SocketInv(s) ==
  /\ s.step \in {"start", "backoff"} => s.sockets = 0 /\ ~s.api
  /\ s.step \in {"handshake", "create"} => s.sockets = 1 /\ ~s.api
  /\ s.step \notin {"start", "backoff", "handshake", "create"} /\ s.api => s.sockets = 1
  /\ s.step \notin {"start", "backoff", "handshake", "create"} /\ ~s.api =>
       s.sockets = 0 \/ (s.step = "exited" /\ s.sockets = 1)

\* The recovery leaves nothing of what was read from the cache.
RecoverInv(s) ==
  /\ s.recovered => s.loaded = {}
  /\ s.step = "start" => ~s.recovered /\ s.attempt = 0

\* What a result says of the extrinsic.
Tells(result, tx, kind) ==
  /\ result = "ok" => tx = "included" \/ kind \in {"query", "clear"}
  /\ result = "TX_FAILED" => tx = "failed"
  /\ result \in {"TRANSPORT_ERROR", "REFUSED", "already_funded", "preview"} => tx = "none"
  /\ result # "METADATA_ERROR"

\* There is an extrinsic only once it was submitted, and a result only at the end.
TxInv(s) ==
  /\ s.step \notin {"done", "exited"} => s.result = ""
  /\ s.step \notin {"pending", "header", "done", "exited"} => s.tx = "none"
  /\ s.step = "header" => s.tx = "included"
  /\ Tells(s.result, s.tx, s.job.kind)

\* Nothing was written after now, and nothing listed for eviction was written last.
Written(files, now) == \A entry \in files : entry.mtime <= now
ListedInv(s, now) == \A stale \in s.victims : stale.mtime < now

ProcInv(s, now) == SocketInv(s) /\ RecoverInv(s) /\ TxInv(s) /\ ListedInv(s, now)

IInv ==
  /\ TypeOK /\ Written(cache, clock)
  /\ \A p \in Processes : ProcInv(proc[p], clock)
-----------------------------------------------------------------------------
(* One process takes a step                                                *)

LEMMA ProcessIs ==
  ASSUME IInv, NEW p \in Processes
  PROVE  /\ proc[p] \in Process /\ ProcInv(proc[p], clock) /\ spec \in 0..LastSpec
         /\ clock \in Nat /\ cache \subseteq CachedEntry /\ LastSpec \in Nat
  BY NodeCommandAssumption DEF IInv, TypeOK

\* Of the other processes, what is listed stays older than the clock.
LEMMA OneStep ==
  ASSUME IInv, NEW p \in Processes, NEW s \in Process, Becomes(p, s), ProcInv(s, clock), spec' = spec,
         clock' \in Nat, clock' >= clock, cache' \subseteq CachedEntry, Written(cache', clock')
  PROVE  IInv'
<1>1. proc' = [proc EXCEPT ![p] = s] /\ proc \in [Processes -> Process] /\ clock \in Nat
  BY DEF Becomes, IInv, TypeOK
<1>2. TypeOK'
  BY <1>1 DEF IInv, TypeOK
<1>3. ASSUME NEW q \in Processes
      PROVE  ProcInv(proc'[q], clock')
  <2>1. proc'[q] \in Process /\ ProcInv(proc'[q], clock)
    BY <1>1 DEF IInv
  <2>2. ASSUME NEW stale \in proc'[q].victims
        PROVE  stale.mtime < clock'
    <3>1. stale.mtime \in Nat /\ stale.mtime < clock
      BY <2>1, <2>2 DEF Process, CachedEntry, ProcInv, ListedInv
    <3> QED
      BY <1>1, <3>1
  <2> QED
    BY <2>1, <2>2 DEF ProcInv, ListedInv
<1> QED
  BY <1>2, <1>3 DEF IInv

\* Most steps leave the cache alone.
LEMMA QuietStep ==
  ASSUME IInv, NEW p \in Processes, NEW s \in Process, Becomes(p, s), ProcInv(s, clock),
         UNCHANGED <<cache, clock, spec>>
  PROVE  IInv'
<1>1. cache' = cache /\ clock' = clock /\ spec' = spec
  OBVIOUS
<1>2. clock' \in Nat /\ clock' >= clock /\ cache' \subseteq CachedEntry /\ Written(cache', clock')
  BY <1>1 DEF IInv, TypeOK
<1> QED
  BY <1>1, <1>2, OneStep

\* Others only take files away.
LEMMA FewerStep ==
  ASSUME IInv, NEW p \in Processes, NEW s \in Process, Becomes(p, s), ProcInv(s, clock),
         cache' \subseteq cache, clock' = clock, spec' = spec
  PROVE  IInv'
<1>1. clock' \in Nat /\ clock' >= clock /\ cache' \subseteq CachedEntry /\ Written(cache', clock')
  BY DEF IInv, TypeOK, Written
<1> QED
  BY <1>1, OneStep

\* What a process keeps through a step that is about neither its sockets nor its cache.
Keeps(t, s) ==
  /\ t.job = s.job /\ t.sockets = s.sockets /\ t.api = s.api /\ t.victims = s.victims
  /\ t.shuttingDown = s.shuttingDown

LEMMA KeyIs == <<Chain, 0>> \in Key
  BY NodeCommandAssumption DEF Key

LEMMA ConnectedIs ==
  ASSUME NEW s \in Process
  PROVE  LET t == Connected(s) IN
         /\ t \in Process /\ Keeps(t, s) /\ ~t.recovered /\ t.loaded = {}
         /\ t.step = s.step /\ t.tx = s.tx /\ t.result = s.result /\ t.attempt = 0
<1> DEFINE t == Connected(s)
<1>1. t = [s EXCEPT !.attempt = 0, !.loaded = {}, !.recovered = FALSE]
  BY DEF Connected
<1>2. 0 \in 0..MaxAttempts - 1 /\ {} \in SUBSET CachedEntry /\ FALSE \in BOOLEAN
  BY DEF MaxAttempts
<1> HIDE DEF t
<1>3. /\ t \in Process /\ Keeps(t, s) /\ ~t.recovered /\ t.loaded = {}
      /\ t.step = s.step /\ t.tx = s.tx /\ t.result = s.result /\ t.attempt = 0
  BY <1>1, <1>2 DEF Process, Keeps
<1> QED
  BY <1>3 DEF t

LEMMA EndedIs ==
  ASSUME NEW s \in Process, NEW result \in Results
  PROVE  LET t == Ended(s, result) IN
         /\ t \in Process /\ Keeps(t, s) /\ ~t.recovered /\ t.loaded = {} /\ t.step = "done"
         /\ t.result = result /\ t.tx = s.tx
<1> DEFINE c == Connected(s)
           t == Ended(s, result)
<1>1. t = [c EXCEPT !.step = "done", !.result = result, !.key = <<Chain, 0>>, !.checks = <<>>]
  BY DEF Ended
<1>2. c \in Process /\ Keeps(c, s) /\ ~c.recovered /\ c.loaded = {} /\ c.tx = s.tx
  BY ConnectedIs
<1>3. <<>> \in Seq(CheckNames) /\ <<Chain, 0>> \in Key /\ "done" \in Steps
  BY KeyIs DEF Steps
<1> HIDE DEF c
<1>4. t \in Process /\ Keeps(t, c) /\ ~t.recovered /\ t.loaded = {} /\ t.step = "done"
      /\ t.result = result /\ t.tx = c.tx
  BY <1>1, <1>2, <1>3, ZenonT(30) DEF Process, Keeps
<1> HIDE DEF t
<1> QED
  BY <1>2, <1>4 DEF t, Keeps

\* An end keeps the invariant when nothing is left open and the result is so.
LEMMA EndKeeps ==
  ASSUME NEW s \in Process, NEW result \in Results, NEW now, ListedInv(s, now),
         s.sockets = IF s.api THEN 1 ELSE 0, Tells(result, s.tx, s.job.kind)
  PROVE  Ended(s, result) \in Process /\ ProcInv(Ended(s, result), now)
<1> DEFINE t == Ended(s, result)
<1>1. /\ t \in Process /\ Keeps(t, s) /\ ~t.recovered /\ t.loaded = {} /\ t.step = "done"
      /\ t.result = result /\ t.tx = s.tx
  BY EndedIs
<1> HIDE DEF t
<1>2. ProcInv(t, now)
  BY <1>1 DEF ProcInv, SocketInv, RecoverInv, TxInv, ListedInv, Keeps
<1> QED
  BY <1>1, <1>2 DEF t

\* Checks of a command are a sequence of the known ones.
LEMMA ChecksAre ==
  ASSUME NEW j \in Job
  PROVE  Checks(j) \in Seq(CheckNames)
<1>1. /\ \A given : GasUnless(given) \in {<<>>, <<"gas">>} /\ VoucherIf(given) \in {<<>>, <<"voucher">>}
      /\ <<"gas">> \in Seq(CheckNames) /\ <<"voucher">> \in Seq(CheckNames)
  BY DEF GasUnless, VoucherIf, CheckNames
<1>2. <<>> \in Seq(CheckNames) /\ <<"file">> \in Seq(CheckNames) /\ <<"pallet">> \in Seq(CheckNames)
      /\ <<"balance">> \in Seq(CheckNames) /\ <<"funded", "challenge">> \in Seq(CheckNames)
  BY DEF CheckNames
<1>3. \A one, other \in Seq(CheckNames) : one \o other \in Seq(CheckNames)
  OBVIOUS
<1>4. MessageSend(j) \in Seq(CheckNames) /\ MessageReply(j) \in Seq(CheckNames)
  BY <1>1, <1>2, <1>3 DEF MessageSend, MessageReply
<1>5. ProgramUpload(j) \in Seq(CheckNames) /\ ProgramDeploy(j) \in Seq(CheckNames)
  BY <1>1, <1>2 DEF ProgramUpload, ProgramDeploy
<1>6. CodeUpload(j) \in Seq(CheckNames)
  BY <1>1, <1>2, <1>3 DEF CodeUpload
<1>7. /\ VoucherIssue(j) \in Seq(CheckNames) /\ VoucherRevoke(j) \in Seq(CheckNames)
      /\ Tx(j) \in Seq(CheckNames) /\ Transfer(j) \in Seq(CheckNames) /\ Faucet(j) \in Seq(CheckNames)
  BY <1>2 DEF VoucherIssue, VoucherRevoke, Tx, Transfer, Faucet
<1>8. j.kind \in Kinds
  BY DEF Job
<1>9. ChecksOfKind(j) \in Seq(CheckNames)
  <2> HIDE <1>3
  <2> QED
    BY <1>2, <1>4, <1>5, <1>6, <1>7, <1>8 DEF ChecksOfKind, Kinds
<1>10. <<"account">> \in Seq(CheckNames)
  BY DEF CheckNames
<1>11. <<"account">> \o ChecksOfKind(j) \in Seq(CheckNames)
  BY <1>3, <1>9, <1>10
<1> QED
  BY <1>2, <1>11 DEF Checks
-----------------------------------------------------------------------------
(* Connecting                                                              *)

\* An attempt opens a provider where none is open.
LEMMA ConnectingIs ==
  ASSUME NEW s \in Process, s.sockets = 0
  PROVE  LET t == Connecting(s) IN
         /\ t \in Process /\ t.step = "handshake" /\ t.sockets = 1 /\ t.api = s.api /\ t.job = s.job
         /\ t.victims = s.victims /\ t.recovered = s.recovered /\ t.loaded = s.loaded
         /\ t.tx = s.tx /\ t.result = s.result /\ t.attempt = s.attempt
<1> DEFINE t == Connecting(s)
           one == s.sockets + 1
<1>1. t = [s EXCEPT !.step = "handshake", !.sockets = one]
  BY DEF Connecting
<1>2. one = 1 /\ one \in 0..MaxAttempts + 1 /\ "handshake" \in Steps
  BY DEF MaxAttempts, Steps
<1> HIDE DEF t, one
<1>3. /\ t \in Process /\ t.step = "handshake" /\ t.sockets = one /\ t.api = s.api /\ t.job = s.job
      /\ t.victims = s.victims /\ t.recovered = s.recovered /\ t.loaded = s.loaded
      /\ t.tx = s.tx /\ t.result = s.result /\ t.attempt = s.attempt
  BY <1>1, <1>2, ZenonT(30) DEF Process
<1> QED
  BY <1>2, <1>3 DEF t

\* Releasing the provider of an attempt leaves none.
LEMMA ReleaseIs ==
  ASSUME NEW s \in Process, s.sockets = 1
  PROVE  LET t == Release(s) IN
         /\ t \in Process /\ t.step = s.step /\ t.sockets = 0 /\ t.api = s.api /\ t.job = s.job
         /\ t.victims = s.victims /\ t.recovered = s.recovered /\ t.loaded = s.loaded
         /\ t.tx = s.tx /\ t.result = s.result /\ t.attempt = s.attempt
         /\ t.shuttingDown = s.shuttingDown
<1> DEFINE t == Release(s)
           left == s.sockets - 1
<1>1. t = [s EXCEPT !.sockets = left]
  BY DEF Release
<1>2. left = 0 /\ left \in 0..MaxAttempts + 1
  BY DEF MaxAttempts
<1> HIDE DEF t, left
<1>3. /\ t \in Process /\ t.step = s.step /\ t.sockets = left /\ t.api = s.api /\ t.job = s.job
      /\ t.victims = s.victims /\ t.recovered = s.recovered /\ t.loaded = s.loaded
      /\ t.tx = s.tx /\ t.result = s.result /\ t.attempt = s.attempt
      /\ t.shuttingDown = s.shuttingDown
  BY <1>1, <1>2 DEF Process
<1> QED
  BY <1>2, <1>3 DEF t

LEMMA StartKeeps ==
  ASSUME IInv, NEW p \in Processes, Start(p)
  PROVE  IInv'
<1> DEFINE s == proc[p]
<1>1. s \in Process /\ ProcInv(s, clock) /\ cache \subseteq CachedEntry
  BY ProcessIs
<1>2. s.step = "start" /\ clock' = clock /\ spec' = spec
  BY DEF Start
<1>3. s.sockets = 0 /\ ~s.api /\ s.tx = "none" /\ s.result = "" /\ ~s.recovered /\ ListedInv(s, clock)
  BY <1>1, <1>2 DEF ProcInv, SocketInv, RecoverInv, TxInv
<1>4. CASE s.job.dryRun
  <2>1. Becomes(p, Ended(s, "preview")) /\ cache' = cache
    BY <1>4 DEF Start
  <2>2. "preview" \in Results /\ Tells("preview", s.tx, s.job.kind)
    BY <1>3 DEF Results, Tells
  <2>3. Ended(s, "preview") \in Process /\ ProcInv(Ended(s, "preview"), clock)
    BY <1>1, <1>3, <2>2, EndKeeps
  <2> QED
    BY <1>2, <2>1, <2>3, QuietStep
<1>5. CASE ~s.job.dryRun /\ s.job.kind = "clear"
  <2>1. Becomes(p, Ended(s, "ok")) /\ cache' = {}
    BY <1>5 DEF Start, Cleared
  <2>2. "ok" \in Results /\ Tells("ok", s.tx, s.job.kind)
    BY <1>5 DEF Results, Tells
  <2>3. Ended(s, "ok") \in Process /\ ProcInv(Ended(s, "ok"), clock)
    BY <1>1, <1>3, <2>2, EndKeeps
  <2> QED
    BY <1>2, <2>1, <2>3, FewerStep
<1>6. CASE ~s.job.dryRun /\ s.job.kind # "clear"
  <2> DEFINE files == Readable(cache)
             r == [s EXCEPT !.loaded = files]
             t == Connecting(r)
  <2>1. cache' = files /\ Becomes(p, t)
    BY <1>6 DEF Start
  <2>2. files \subseteq cache
    BY DEF Readable
  <2> HIDE DEF files
  <2>3. /\ r \in Process /\ r.sockets = 0 /\ r.api = s.api /\ r.job = s.job /\ r.victims = s.victims
        /\ r.recovered = s.recovered /\ r.tx = s.tx /\ r.result = s.result
    BY <1>1, <1>3, <2>2 DEF Process
  <2> HIDE DEF r
  <2>4. /\ t \in Process /\ t.step = "handshake" /\ t.sockets = 1 /\ t.api = s.api /\ t.job = s.job
        /\ t.victims = s.victims /\ t.recovered = s.recovered /\ t.tx = s.tx /\ t.result = s.result
    BY <2>3, ConnectingIs
  <2> HIDE DEF t
  <2>5. ProcInv(t, clock)
    BY <1>3, <2>4 DEF ProcInv, SocketInv, RecoverInv, TxInv, ListedInv, Tells
  <2> QED
    BY <1>2, <2>1, <2>2, <2>4, <2>5, FewerStep
<1> QED
  BY <1>4, <1>5, <1>6

LEMMA HandshakeKeeps ==
  ASSUME IInv, NEW p \in Processes, Handshake(p)
  PROVE  IInv'
<1> DEFINE s == proc[p]
           t == [s EXCEPT !.step = "create"]
<1>1. s \in Process /\ ProcInv(s, clock)
  BY ProcessIs
<1>2. s.step = "handshake" /\ UNCHANGED <<cache, clock, spec>> /\ Becomes(p, t)
  BY DEF Handshake
<1>3. /\ t \in Process /\ Keeps(t, s) /\ t.step = "create" /\ t.recovered = s.recovered
      /\ t.loaded = s.loaded /\ t.tx = s.tx /\ t.result = s.result
  BY <1>1 DEF Process, Steps, Keeps
<1> HIDE DEF t
<1>4. ProcInv(t, clock)
  BY <1>1, <1>2, <1>3 DEF ProcInv, SocketInv, RecoverInv, TxInv, ListedInv, Keeps
<1> QED
  BY <1>2, <1>3, <1>4, QuietStep

LEMMA CreateKeeps ==
  ASSUME IInv, NEW p \in Processes, Create(p)
  PROVE  IInv'
<1> DEFINE s == proc[p]
           c == Connected(s)
           t == [c EXCEPT !.step = "save", !.api = TRUE, !.key = <<Chain, spec>>]
<1>1. s \in Process /\ ProcInv(s, clock) /\ spec \in 0..LastSpec
  BY ProcessIs
<1>2. s.step = "create" /\ UNCHANGED <<cache, clock, spec>> /\ Becomes(p, t)
  BY DEF Create
<1>3. <<Chain, spec>> \in Key /\ "save" \in Steps
  BY <1>1 DEF Key, Steps
<1>4. c \in Process /\ Keeps(c, s) /\ ~c.recovered /\ c.tx = s.tx /\ c.result = s.result
  BY <1>1, ConnectedIs
<1> HIDE DEF c
<1>5. /\ t \in Process /\ t.step = "save" /\ t.api = TRUE /\ t.sockets = c.sockets /\ t.job = c.job
      /\ t.victims = c.victims /\ t.recovered = c.recovered /\ t.tx = c.tx /\ t.result = c.result
  BY <1>3, <1>4 DEF Process
<1> HIDE DEF t
<1>6. ProcInv(t, clock)
  BY <1>1, <1>2, <1>4, <1>5 DEF ProcInv, SocketInv, RecoverInv, TxInv, ListedInv, Keeps
<1> QED
  BY <1>2, <1>5, <1>6, QuietStep

\* A connection that cannot be made ends the command.
LEMMA TransportError ==
  ASSUME NEW s \in Process, s.sockets = 0, ~s.api, s.tx = "none", ListedInv(s, clock)
  PROVE  Ended(s, "TRANSPORT_ERROR") \in Process /\ ProcInv(Ended(s, "TRANSPORT_ERROR"), clock)
<1>1. "TRANSPORT_ERROR" \in Results /\ Tells("TRANSPORT_ERROR", s.tx, s.job.kind)
  BY DEF Results, Tells
<1> QED
  BY <1>1, EndKeeps

LEMMA FailKeeps ==
  ASSUME IInv, NEW p \in Processes, NEW retriable \in BOOLEAN, Fail(p, retriable)
  PROVE  IInv'
<1> DEFINE before == proc[p]
           s == Release(before)
<1>1. before \in Process /\ ProcInv(before, clock)
  BY ProcessIs
<1>2. before.step \in {"handshake", "create"} /\ UNCHANGED <<cache, clock, spec>>
  BY DEF Fail
<1>3. before.sockets = 1 /\ ~before.api /\ before.tx = "none" /\ before.result = ""
  BY <1>1, <1>2 DEF ProcInv, SocketInv, TxInv
<1>4. \/ RetriesLeft(s) /\ Becomes(p, [s EXCEPT !.step = "backoff", !.attempt = @ + 1])
      \/ Becomes(p, Ended(s, "TRANSPORT_ERROR"))
  BY DEF Fail
<1>5. /\ s \in Process /\ s.sockets = 0 /\ s.api = before.api /\ s.job = before.job
      /\ s.victims = before.victims /\ s.recovered = before.recovered /\ s.loaded = before.loaded
      /\ s.tx = before.tx /\ s.result = before.result
  BY <1>1, <1>3, ReleaseIs
<1> HIDE DEF s
<1>6. ListedInv(s, clock)
  BY <1>1, <1>5 DEF ProcInv, ListedInv
<1>7. CASE RetriesLeft(s) /\ Becomes(p, [s EXCEPT !.step = "backoff", !.attempt = @ + 1])
  <2> DEFINE next == s.attempt + 1
             t == [s EXCEPT !.step = "backoff", !.attempt = next]
  <2>1. next \in 0..MaxAttempts - 1
    BY <1>5, <1>7 DEF RetriesLeft, MaxAttempts, Process
  <2>2. Becomes(p, t)
    BY <1>7
  <2> HIDE DEF next
  <2>3. /\ t \in Process /\ t.step = "backoff" /\ t.sockets = s.sockets /\ t.api = s.api /\ t.job = s.job
        /\ t.victims = s.victims /\ t.recovered = s.recovered /\ t.loaded = s.loaded
        /\ t.tx = s.tx /\ t.result = s.result
    BY <1>5, <2>1, ZenonT(30) DEF Process, Steps
  <2> HIDE DEF t
  <2>4. ProcInv(t, clock)
    BY <1>1, <1>3, <1>5, <1>6, <2>3 DEF ProcInv, SocketInv, RecoverInv, TxInv, ListedInv, Tells
  <2> QED
    BY <1>2, <2>2, <2>3, <2>4, QuietStep
<1>8. CASE Becomes(p, Ended(s, "TRANSPORT_ERROR"))
  BY <1>2, <1>3, <1>5, <1>6, <1>8, TransportError, QuietStep
<1> QED
  BY <1>4, <1>7, <1>8

LEMMA BackoffKeeps ==
  ASSUME IInv, NEW p \in Processes, Backoff(p)
  PROVE  IInv'
<1> DEFINE s == proc[p]
<1>1. s \in Process /\ ProcInv(s, clock)
  BY ProcessIs
<1>2. s.step = "backoff" /\ UNCHANGED <<cache, clock, spec>>
  BY DEF Backoff
<1>3. s.sockets = 0 /\ ~s.api /\ s.tx = "none" /\ s.result = "" /\ ListedInv(s, clock)
  BY <1>1, <1>2 DEF ProcInv, SocketInv, TxInv
<1>4. Becomes(p, Ended(s, "TRANSPORT_ERROR")) \/ Becomes(p, Connecting(s))
  BY DEF Backoff
<1>5. CASE Becomes(p, Connecting(s))
  <2> DEFINE t == Connecting(s)
  <2>1. /\ t \in Process /\ t.step = "handshake" /\ t.sockets = 1 /\ t.api = s.api /\ t.job = s.job
        /\ t.victims = s.victims /\ t.recovered = s.recovered /\ t.loaded = s.loaded
        /\ t.tx = s.tx /\ t.result = s.result
    BY <1>1, <1>3, ConnectingIs
  <2>2. Becomes(p, t)
    BY <1>5
  <2> HIDE DEF t
  <2>3. ProcInv(t, clock)
    BY <1>1, <1>3, <2>1 DEF ProcInv, SocketInv, RecoverInv, TxInv, ListedInv
  <2> QED
    BY <1>2, <2>1, <2>2, <2>3, QuietStep
<1>6. CASE Becomes(p, Ended(s, "TRANSPORT_ERROR"))
  BY <1>1, <1>2, <1>3, <1>6, TransportError, QuietStep
<1> QED
  BY <1>4, <1>5, <1>6

\* After the recovery nothing from the cache is left to fail on.
LEMMA CreateFailsOnMetadataKeeps ==
  ASSUME IInv, NEW p \in Processes, CreateFailsOnMetadata(p)
  PROVE  IInv'
<1> DEFINE s == proc[p]
           r == Release(s)
           c == [r EXCEPT !.recovered = TRUE, !.attempt = 0, !.loaded = {}]
           t == Connecting(c)
<1>1. s \in Process /\ ProcInv(s, clock)
  BY ProcessIs
<1>2. s.step = "create" /\ Poisoned(s) /\ clock' = clock /\ spec' = spec
  BY DEF CreateFailsOnMetadata
<1>3. s.sockets = 1 /\ ~s.api /\ s.tx = "none" /\ s.result = "" /\ ListedInv(s, clock)
  BY <1>1, <1>2 DEF ProcInv, SocketInv, TxInv
<1>4. ~s.recovered
  BY <1>1, <1>2 DEF ProcInv, RecoverInv, Poisoned, Has
<1>5. Becomes(p, t) /\ cache' = {}
  BY <1>4 DEF CreateFailsOnMetadata, Recover, Cleared
<1>6. /\ r \in Process /\ r.sockets = 0 /\ r.api = s.api /\ r.job = s.job
      /\ r.victims = s.victims /\ r.tx = s.tx /\ r.result = s.result
  BY <1>1, <1>3, ReleaseIs
<1> HIDE DEF r
<1>7. /\ c \in Process /\ c.sockets = r.sockets /\ c.api = r.api /\ c.job = r.job
      /\ c.victims = r.victims /\ c.tx = r.tx /\ c.result = r.result /\ c.loaded = {}
  <2>1. 0 \in 0..MaxAttempts - 1 /\ {} \in SUBSET CachedEntry
    BY DEF MaxAttempts
  <2> QED
    BY <1>6, <2>1 DEF Process
<1> HIDE DEF c
<1>8. /\ t \in Process /\ t.step = "handshake" /\ t.sockets = 1 /\ t.api = s.api /\ t.job = s.job
      /\ t.victims = s.victims /\ t.loaded = {} /\ t.tx = s.tx /\ t.result = s.result
  BY <1>6, <1>7, ConnectingIs
<1> HIDE DEF t
<1>9. ProcInv(t, clock)
  BY <1>3, <1>8 DEF ProcInv, SocketInv, RecoverInv, TxInv, ListedInv, Tells
<1> QED
  BY <1>2, <1>5, <1>8, <1>9, FewerStep
-----------------------------------------------------------------------------
(* The metadata of the runtime                                             *)

\* The checks of a command follow, or its answer where it has nothing to submit.
LEMMA StartChecksIs ==
  ASSUME NEW s \in Process, NEW now, ProcInv(s, now), s.step \in {"save", "write", "unlink"}
  PROVE  LET t == StartChecks(s) IN
         t \in Process /\ ProcInv(t, now) /\ Keeps(t, s)
<1> DEFINE t == StartChecks(s)
<1>1. s.tx = "none" /\ s.result = "" /\ ListedInv(s, now) /\ s.sockets = IF s.api THEN 1 ELSE 0
  BY DEF ProcInv, SocketInv, TxInv, Process
<1>2. CASE s.job.kind = "query"
  <2>1. t = Ended(s, "ok") /\ "ok" \in Results /\ Tells("ok", s.tx, s.job.kind)
    BY <1>2 DEF StartChecks, Results, Tells
  <2> HIDE DEF t
  <2>2. t \in Process /\ ProcInv(t, now) /\ Keeps(t, s)
    BY <1>1, <2>1, EndKeeps, EndedIs
  <2> QED
    BY <2>2 DEF t
<1>3. CASE s.job.kind # "query"
  <2> DEFINE checks == Checks(s.job)
  <2>1. t = [s EXCEPT !.step = "check", !.checks = checks, !.key = <<Chain, 0>>]
    BY <1>3 DEF StartChecks
  <2>2. checks \in Seq(CheckNames) /\ <<Chain, 0>> \in Key /\ "check" \in Steps
    BY ChecksAre, KeyIs DEF Process, Steps
  <2> HIDE DEF t, checks
  <2>3. /\ t \in Process /\ Keeps(t, s) /\ t.step = "check" /\ t.recovered = s.recovered
        /\ t.loaded = s.loaded /\ t.tx = s.tx /\ t.result = s.result
    BY <2>1, <2>2 DEF Process, Keeps
  <2>4. ProcInv(t, now)
    BY <1>1, <2>3 DEF ProcInv, SocketInv, RecoverInv, TxInv, ListedInv, Keeps
  <2> QED
    BY <2>3, <2>4 DEF t
<1> QED
  BY <1>2, <1>3

LEMMA SaveMetadataKeeps ==
  ASSUME IInv, NEW p \in Processes, SaveMetadata(p)
  PROVE  IInv'
<1> DEFINE s == proc[p]
<1>1. s \in Process /\ ProcInv(s, clock)
  BY ProcessIs
<1>2. s.step = "save" /\ UNCHANGED <<cache, clock, spec>>
  BY DEF SaveMetadata
<1>3. Becomes(p, StartChecks(s)) \/ Becomes(p, [s EXCEPT !.step = "write"])
  BY DEF SaveMetadata
<1>4. CASE Becomes(p, StartChecks(s))
  BY <1>1, <1>2, <1>4, StartChecksIs, QuietStep
<1>5. CASE Becomes(p, [s EXCEPT !.step = "write"])
  <2> DEFINE t == [s EXCEPT !.step = "write"]
  <2>1. /\ t \in Process /\ Keeps(t, s) /\ t.step = "write" /\ t.recovered = s.recovered
        /\ t.loaded = s.loaded /\ t.tx = s.tx /\ t.result = s.result
    BY <1>1 DEF Process, Steps, Keeps
  <2>2. Becomes(p, t)
    BY <1>5
  <2> HIDE DEF t
  <2>3. ProcInv(t, clock)
    BY <1>1, <1>2, <2>1 DEF ProcInv, SocketInv, RecoverInv, TxInv, ListedInv, Keeps
  <2> QED
    BY <1>2, <2>1, <2>2, <2>3, QuietStep
<1> QED
  BY <1>3, <1>4, <1>5

LEMMA WriteMetadataKeeps ==
  ASSUME IInv, NEW p \in Processes, WriteMetadata(p)
  PROVE  IInv'
<1> DEFINE s == proc[p]
           t == [s EXCEPT !.step = "list"]
           now == clock + 1
           entry == [key |-> s.key, content |-> "good", mtime |-> now]
<1>1. s \in Process /\ ProcInv(s, clock) /\ clock \in Nat /\ cache \subseteq CachedEntry
  BY ProcessIs
<1>2. s.step = "write" /\ spec' = spec /\ Becomes(p, t) /\ clock' = now
  BY DEF WriteMetadata
<1>3. cache' = {other \in cache : other.key # s.key} \cup {entry}
  BY DEF WriteMetadata, Saved
<1>4. now \in Nat /\ now >= clock /\ s.key \in Key
  BY <1>1 DEF Process
<1>5. entry \in CachedEntry /\ entry.mtime = now
  BY <1>4 DEF CachedEntry, Contents
<1> HIDE DEF entry
<1>6. cache' \subseteq CachedEntry
  BY <1>1, <1>3, <1>5
<1>7. Written(cache', clock')
  <2>1. ASSUME NEW other \in cache
        PROVE  other.mtime <= now
    <3>1. other.mtime \in Nat /\ other.mtime <= clock
      BY <1>1, <2>1 DEF CachedEntry, IInv, Written
    <3> QED
      BY <1>1, <3>1
  <2>2. now <= now
    BY <1>4
  <2> HIDE DEF now
  <2> QED
    BY <1>2, <1>3, <1>5, <2>1, <2>2 DEF Written
<1> HIDE DEF now
<1>8. /\ t \in Process /\ Keeps(t, s) /\ t.step = "list" /\ t.recovered = s.recovered
      /\ t.loaded = s.loaded /\ t.tx = s.tx /\ t.result = s.result
  BY <1>1 DEF Process, Steps, Keeps
<1> HIDE DEF t
<1>9. ProcInv(t, clock)
  BY <1>1, <1>2, <1>8 DEF ProcInv, SocketInv, RecoverInv, TxInv, ListedInv, Keeps
<1> QED
  BY <1>2, <1>4, <1>6, <1>7, <1>8, <1>9, OneStep

LEMMA WriteFailsKeeps ==
  ASSUME IInv, NEW p \in Processes, WriteFails(p)
  PROVE  IInv'
<1>1. proc[p] \in Process /\ ProcInv(proc[p], clock)
  BY ProcessIs
<1>2. proc[p].step = "write" /\ UNCHANGED <<cache, clock, spec>> /\ Becomes(p, StartChecks(proc[p]))
  BY DEF WriteFails
<1> QED
  BY <1>1, <1>2, StartChecksIs, QuietStep

\* What is listed for eviction has a file that was written later.
LEMMA VictimsAreOlder ==
  ASSUME Written(cache, clock), cache \subseteq CachedEntry, clock \in Nat
  PROVE  Victims(cache, Chain) \subseteq cache /\ \A stale \in Victims(cache, Chain) : stale.mtime < clock
<1> DEFINE mine == OfChain(cache, Chain)
           later(entry) == {other \in mine : other.mtime > entry.mtime}
<1>1. Victims(cache, Chain) = {entry \in mine : Cardinality(later(entry)) >= MaxEntriesPerChain}
  BY DEF Victims
<1>2. mine \subseteq cache
  BY DEF OfChain
<1>3. ASSUME NEW stale \in mine, Cardinality(later(stale)) >= MaxEntriesPerChain
      PROVE  stale.mtime < clock
  <2>1. later(stale) # {}
    <3>1. ASSUME later(stale) = {}
          PROVE  FALSE
      <4>1. Cardinality(later(stale)) = 0
        BY <3>1, FS_EmptySet
      <4> QED
        BY <1>3, <4>1, MetadataCacheAssumption
    <3> QED
      BY <3>1
  <2>2. PICK other \in mine : other.mtime > stale.mtime
    BY <2>1
  <2>3. other.mtime \in Nat /\ stale.mtime \in Nat /\ other.mtime <= clock
    BY <1>2 DEF Written, CachedEntry
  <2> QED
    BY <2>2, <2>3
<1> QED
  BY <1>1, <1>2, <1>3

LEMMA PruneListKeeps ==
  ASSUME IInv, NEW p \in Processes, PruneList(p)
  PROVE  IInv'
<1> DEFINE s == proc[p]
           listed == Victims(cache, Chain)
           t == [s EXCEPT !.step = "unlink", !.victims = listed]
<1>1. s \in Process /\ ProcInv(s, clock) /\ clock \in Nat /\ cache \subseteq CachedEntry /\ Written(cache, clock)
  BY ProcessIs DEF IInv
<1>2. s.step = "list" /\ UNCHANGED <<cache, clock, spec>> /\ Becomes(p, t)
  BY DEF PruneList
<1>3. listed \subseteq CachedEntry /\ \A stale \in listed : stale.mtime < clock
  BY <1>1, VictimsAreOlder
<1> HIDE DEF listed
<1>4. /\ t \in Process /\ t.victims = listed /\ t.step = "unlink" /\ t.recovered = s.recovered
      /\ t.loaded = s.loaded /\ t.tx = s.tx /\ t.result = s.result
      /\ t.sockets = s.sockets /\ t.api = s.api /\ t.job = s.job
  BY <1>1, <1>3 DEF Process, Steps
<1> HIDE DEF t
<1>5. ProcInv(t, clock)
  BY <1>1, <1>2, <1>3, <1>4 DEF ProcInv, SocketInv, RecoverInv, TxInv, ListedInv
<1> QED
  BY <1>2, <1>4, <1>5, QuietStep

LEMMA PruneUnlinkKeeps ==
  ASSUME IInv, NEW p \in Processes, PruneUnlink(p)
  PROVE  IInv'
<1> DEFINE s == proc[p]
           c == StartChecks(s)
           t == [c EXCEPT !.victims = {}]
<1>1. s \in Process /\ ProcInv(s, clock)
  BY ProcessIs
<1>2. s.step = "unlink" /\ clock' = clock /\ spec' = spec /\ Becomes(p, t) /\ cache' \subseteq cache
  BY DEF PruneUnlink, Unlinked
<1>3. c \in Process /\ ProcInv(c, clock)
  BY <1>1, <1>2, StartChecksIs
<1> HIDE DEF c
<1>4. /\ t \in Process /\ t.victims = {} /\ t.step = c.step /\ t.recovered = c.recovered
      /\ t.loaded = c.loaded /\ t.tx = c.tx /\ t.result = c.result /\ t.attempt = c.attempt
      /\ t.sockets = c.sockets /\ t.api = c.api /\ t.job = c.job
  BY <1>3 DEF Process
<1> HIDE DEF t
<1>5. ProcInv(t, clock)
  BY <1>3, <1>4 DEF ProcInv, SocketInv, RecoverInv, TxInv, ListedInv
<1> QED
  BY <1>2, <1>4, <1>5, FewerStep
-----------------------------------------------------------------------------
(* The checks and the extrinsic                                            *)

\* While a command works it has one provider, or none once it was interrupted.
Working == {"check", "submit", "pending", "header"}
LEMMA WorkingIs ==
  ASSUME NEW s \in Process, NEW now, ProcInv(s, now), s.step \in Working
  PROVE  /\ s.sockets = IF s.api THEN 1 ELSE 0
         /\ s.result = "" /\ ListedInv(s, now) /\ ~(s.step \in {"check", "submit"} /\ s.tx # "none")
  BY DEF ProcInv, SocketInv, TxInv, Working, Process

\* A step between two of these that keeps what the process holds.
LEMMA WorkKeeps ==
  ASSUME NEW s \in Process, NEW now, ProcInv(s, now), s.step \in Working,
         NEW t \in Process, Keeps(t, s), t.step \in Working, t.recovered = s.recovered, t.loaded = s.loaded,
         t.result = s.result, t.step \in {"check", "submit"} => t.tx = "none", t.step = "header" => t.tx = "included"
  PROVE  ProcInv(t, now)
  BY DEF ProcInv, SocketInv, RecoverInv, TxInv, ListedInv, Working, Keeps, Tells

LEMMA PassedIs ==
  ASSUME NEW s \in Process, s.checks # <<>>
  PROVE  LET t == Passed(s) IN
         /\ t \in Process /\ Keeps(t, s) /\ t.step = s.step /\ t.recovered = s.recovered
         /\ t.loaded = s.loaded /\ t.tx = s.tx /\ t.result = s.result
<1> DEFINE rest == Tail(s.checks)
           t == Passed(s)
<1>1. t = [s EXCEPT !.checks = rest]
  BY DEF Passed
<1>2. rest \in Seq(CheckNames)
  BY HeadTailProperties DEF Process
<1> HIDE DEF t, rest
<1>3. /\ t \in Process /\ Keeps(t, s) /\ t.step = s.step /\ t.recovered = s.recovered
      /\ t.loaded = s.loaded /\ t.tx = s.tx /\ t.result = s.result
  BY <1>1, <1>2 DEF Process, Keeps
<1> QED
  BY <1>3 DEF t

LEMMA CheckPassesKeeps ==
  ASSUME IInv, NEW p \in Processes, CheckPasses(p)
  PROVE  IInv'
<1> DEFINE s == proc[p]
           t == Passed(s)
<1>1. s \in Process /\ ProcInv(s, clock)
  BY ProcessIs
<1>2. s.step = "check" /\ s.checks # <<>> /\ UNCHANGED <<cache, clock, spec>> /\ Becomes(p, t)
  BY DEF CheckPasses
<1>3. /\ t \in Process /\ Keeps(t, s) /\ t.step = s.step /\ t.recovered = s.recovered
      /\ t.loaded = s.loaded /\ t.tx = s.tx /\ t.result = s.result
  BY <1>1, <1>2, PassedIs
<1> HIDE DEF t
<1>4. "check" \in Working /\ s.tx = "none"
  BY <1>1, <1>2, WorkingIs DEF Working
<1>5. ProcInv(t, clock)
  BY <1>1, <1>2, <1>3, <1>4, WorkKeeps
<1> QED
  BY <1>2, <1>3, <1>5, QuietStep

\* A command that ends while it works owes only the truth about its extrinsic.
LEMMA WorkEnds ==
  ASSUME IInv, NEW p \in Processes, proc[p].step \in Working, NEW result \in Results,
         Tells(result, proc[p].tx, proc[p].job.kind), Becomes(p, Ended(proc[p], result)),
         UNCHANGED <<cache, clock, spec>>
  PROVE  IInv'
<1>1. proc[p] \in Process /\ ProcInv(proc[p], clock)
  BY ProcessIs
<1>2. Ended(proc[p], result) \in Process /\ ProcInv(Ended(proc[p], result), clock)
  BY <1>1, WorkingIs, EndKeeps
<1> QED
  BY <1>2, QuietStep

LEMMA RefuseKeeps ==
  ASSUME IInv, NEW p \in Processes, Refuse(p)
  PROVE  IInv'
<1>1. proc[p] \in Process /\ ProcInv(proc[p], clock)
  BY ProcessIs
<1>2. /\ proc[p].step = "start" /\ UNCHANGED <<cache, clock, spec>>
      /\ Becomes(p, Ended(proc[p], "REFUSED"))
  BY DEF Refuse
<1>3. /\ proc[p].sockets = 0 /\ ~proc[p].api /\ ListedInv(proc[p], clock)
      /\ "REFUSED" \in Results /\ Tells("REFUSED", proc[p].tx, proc[p].job.kind)
  BY <1>1, <1>2 DEF ProcInv, SocketInv, TxInv, Results, Tells
<1>4. Ended(proc[p], "REFUSED") \in Process /\ ProcInv(Ended(proc[p], "REFUSED"), clock)
  BY <1>1, <1>3, EndKeeps
<1> QED
  BY <1>2, <1>4, QuietStep

LEMMA CheckEndsKeeps ==
  ASSUME IInv, NEW p \in Processes, CheckFails(p) \/ AlreadyFunded(p)
  PROVE  IInv'
<1>1. proc[p] \in Process /\ ProcInv(proc[p], clock)
  BY ProcessIs
<1>2. proc[p].step = "check" /\ UNCHANGED <<cache, clock, spec>>
  BY DEF CheckFails, AlreadyFunded, Checking
<1>3. "check" \in Working /\ proc[p].tx = "none"
  BY <1>1, <1>2, WorkingIs DEF Working
<1>4. PICK result \in {"REFUSED", "already_funded"} : Becomes(p, Ended(proc[p], result))
  BY DEF CheckFails, AlreadyFunded
<1>5. result \in Results /\ Tells(result, proc[p].tx, proc[p].job.kind)
  BY <1>3 DEF Results, Tells
<1> QED
  BY <1>2, <1>3, <1>4, <1>5, WorkEnds

LEMMA GasForUserKeeps ==
  ASSUME IInv, NEW p \in Processes, GasForUser(p)
  PROVE  IInv'
<1> DEFINE s == proc[p]
           c == Passed(s)
           t == [c EXCEPT !.gasZero = TRUE]
<1>1. s \in Process /\ ProcInv(s, clock)
  BY ProcessIs
<1>2. s.step = "check" /\ s.checks # <<>> /\ UNCHANGED <<cache, clock, spec>> /\ Becomes(p, t)
  BY DEF GasForUser, Checking
<1>3. /\ c \in Process /\ Keeps(c, s) /\ c.step = s.step /\ c.recovered = s.recovered
      /\ c.loaded = s.loaded /\ c.tx = s.tx /\ c.result = s.result
  BY <1>1, <1>2, PassedIs
<1> HIDE DEF c
<1>4. /\ t \in Process /\ Keeps(t, c) /\ t.step = c.step /\ t.recovered = c.recovered
      /\ t.loaded = c.loaded /\ t.tx = c.tx /\ t.result = c.result
  BY <1>3 DEF Process, Keeps
<1> HIDE DEF t
<1>5. "check" \in Working /\ s.tx = "none"
  BY <1>1, <1>2, WorkingIs DEF Working
<1>6. ProcInv(t, clock)
  BY <1>1, <1>2, <1>3, <1>4, <1>5, WorkKeeps DEF Keeps
<1> QED
  BY <1>2, <1>4, <1>6, QuietStep

LEMMA SignAndSendKeeps ==
  ASSUME IInv, NEW p \in Processes, SignAndSend(p)
  PROVE  IInv'
<1> DEFINE s == proc[p]
           t == [s EXCEPT !.step = "submit", !.timer = "on"]
<1>1. s \in Process /\ ProcInv(s, clock)
  BY ProcessIs
<1>2. s.step = "check" /\ UNCHANGED <<cache, clock, spec>> /\ Becomes(p, t)
  BY DEF SignAndSend
<1>3. /\ t \in Process /\ Keeps(t, s) /\ t.step = "submit" /\ t.recovered = s.recovered
      /\ t.loaded = s.loaded /\ t.tx = s.tx /\ t.result = s.result
  BY <1>1 DEF Process, Steps, Keeps
<1> HIDE DEF t
<1>4. {"check", "submit"} \subseteq Working /\ s.tx = "none"
  BY <1>1, <1>2, WorkingIs DEF Working
<1>5. ProcInv(t, clock)
  BY <1>1, <1>2, <1>3, <1>4, WorkKeeps
<1> QED
  BY <1>2, <1>3, <1>5, QuietStep

LEMMA AcceptedKeeps ==
  ASSUME IInv, NEW p \in Processes, Accepted(p)
  PROVE  IInv'
<1> DEFINE s == proc[p]
           t == [s EXCEPT !.step = "pending", !.tx = "pool"]
<1>1. s \in Process /\ ProcInv(s, clock)
  BY ProcessIs
<1>2. s.step = "submit" /\ UNCHANGED <<cache, clock, spec>> /\ Becomes(p, t)
  BY DEF Accepted
<1>3. /\ t \in Process /\ Keeps(t, s) /\ t.step = "pending" /\ t.recovered = s.recovered
      /\ t.loaded = s.loaded /\ t.tx = "pool" /\ t.result = s.result
  BY <1>1 DEF Process, Steps, Keeps
<1> HIDE DEF t
<1>4. {"pending", "submit"} \subseteq Working
  BY DEF Working
<1>5. ProcInv(t, clock)
  BY <1>1, <1>2, <1>3, <1>4, WorkKeeps
<1> QED
  BY <1>2, <1>3, <1>5, QuietStep

\* The end of an extrinsic that has its timer and its place on chain set first.
LEMMA ExtrinsicEnds ==
  ASSUME IInv, NEW p \in Processes, proc[p].step \in Working, NEW timer \in {"off", "on", "fired"},
         NEW tx \in {"none", "pool", "included", "failed", "dropped"}, NEW result \in Results,
         Tells(result, tx, proc[p].job.kind), UNCHANGED <<cache, clock, spec>>,
         Becomes(p, Ended([proc[p] EXCEPT !.timer = timer, !.tx = tx], result))
  PROVE  IInv'
<1> DEFINE s == proc[p]
           c == [s EXCEPT !.timer = timer, !.tx = tx]
<1>1. s \in Process /\ ProcInv(s, clock)
  BY ProcessIs
<1>2. c \in Process /\ Keeps(c, s) /\ c.tx = tx
  BY <1>1 DEF Process, Keeps
<1>3. Becomes(p, Ended(c, result))
  OBVIOUS
<1> HIDE DEF c
<1>4. ListedInv(c, clock) /\ c.sockets = (IF c.api THEN 1 ELSE 0) /\ Tells(result, c.tx, c.job.kind)
  BY <1>1, <1>2, WorkingIs DEF ListedInv, Keeps
<1>5. Ended(c, result) \in Process /\ ProcInv(Ended(c, result), clock)
  BY <1>2, <1>4, EndKeeps
<1> QED
  BY <1>3, <1>5, QuietStep

LEMMA SubmitFailsKeeps ==
  ASSUME IInv, NEW p \in Processes, SubmitFails(p)
  PROVE  IInv'
<1>1. PICK tx \in {"none", "pool"} :
        Becomes(p, Ended([proc[p] EXCEPT !.timer = "off", !.tx = tx], "TX_SUBMIT_FAILED"))
  BY DEF SubmitFails
<1>2. "TX_SUBMIT_FAILED" \in Results /\ Tells("TX_SUBMIT_FAILED", tx, proc[p].job.kind)
  BY DEF Results, Tells
<1>3. proc[p].step \in Working /\ UNCHANGED <<cache, clock, spec>>
  BY DEF SubmitFails, Working
<1> QED
  BY <1>1, <1>2, <1>3, ExtrinsicEnds

LEMMA TimerFiresKeeps ==
  ASSUME IInv, NEW p \in Processes, TimerFires(p)
  PROVE  IInv'
<1>1. proc[p].tx \in {"none", "pool", "included", "failed", "dropped"}
  BY ProcessIs DEF Process
<1>2. PICK tx \in {"none", "pool", proc[p].tx} :
        Becomes(p, Ended([proc[p] EXCEPT !.timer = "fired", !.tx = tx], "TX_TIMEOUT"))
  BY DEF TimerFires
<1>3. "TX_TIMEOUT" \in Results /\ Tells("TX_TIMEOUT", tx, proc[p].job.kind)
  BY DEF Results, Tells
<1>4. proc[p].step \in Working /\ UNCHANGED <<cache, clock, spec>>
  BY DEF TimerFires, Working
<1> QED
  BY <1>1, <1>2, <1>3, <1>4, ExtrinsicEnds

LEMMA OnStatusKeeps ==
  ASSUME IInv, NEW p \in Processes, OnStatus(p)
  PROVE  IInv'
<1> DEFINE s == proc[p]
<1>1. s \in Process /\ ProcInv(s, clock)
  BY ProcessIs
<1>2. s.step = "pending" /\ s.tx \in {"included", "failed"} /\ UNCHANGED <<cache, clock, spec>>
      /\ "pending" \in Working /\ "header" \in Working
  BY DEF OnStatus, Working
<1>3. CASE s.tx = "failed"
  <2> DEFINE c == [s EXCEPT !.timer = "off"]
  <2>1. Becomes(p, Ended(c, "TX_FAILED"))
    BY <1>3 DEF OnStatus, InBlock
  <2>2. c \in Process /\ Keeps(c, s) /\ c.tx = "failed"
    BY <1>1, <1>3 DEF Process, Keeps
  <2> HIDE DEF c
  <2>3. "TX_FAILED" \in Results /\ Tells("TX_FAILED", c.tx, c.job.kind)
    BY <2>2 DEF Results, Tells
  <2>4. ListedInv(c, clock) /\ c.sockets = IF c.api THEN 1 ELSE 0
    BY <1>1, <1>2, <2>2, WorkingIs DEF ListedInv, Keeps
  <2>5. Ended(c, "TX_FAILED") \in Process /\ ProcInv(Ended(c, "TX_FAILED"), clock)
    BY <2>2, <2>3, <2>4, EndKeeps
  <2> QED
    BY <1>2, <2>1, <2>5, QuietStep
<1>4. CASE s.tx = "included"
  <2> DEFINE t == [s EXCEPT !.timer = "off", !.step = "header"]
  <2>1. Becomes(p, t)
    BY <1>4 DEF OnStatus, InBlock
  <2>2. /\ t \in Process /\ Keeps(t, s) /\ t.step = "header" /\ t.recovered = s.recovered
        /\ t.loaded = s.loaded /\ t.tx = "included" /\ t.result = s.result
    BY <1>1, <1>4 DEF Process, Steps, Keeps
  <2> HIDE DEF t
  <2>3. ProcInv(t, clock)
    BY <1>1, <1>2, <2>2, WorkKeeps
  <2> QED
    BY <1>2, <2>1, <2>2, <2>3, QuietStep
<1> QED
  BY <1>2, <1>3, <1>4

LEMMA ResolveBlockNumberKeeps ==
  ASSUME IInv, NEW p \in Processes, ResolveBlockNumber(p)
  PROVE  IInv'
<1>1. proc[p] \in Process /\ ProcInv(proc[p], clock)
  BY ProcessIs
<1>2. proc[p].step = "header" /\ UNCHANGED <<cache, clock, spec>> /\ Becomes(p, Ended(proc[p], "ok"))
      /\ "header" \in Working
  BY DEF ResolveBlockNumber, Working
<1>3. proc[p].tx = "included"
  BY <1>1, <1>2 DEF ProcInv, TxInv
<1>4. "ok" \in Results /\ Tells("ok", proc[p].tx, proc[p].job.kind)
  BY <1>3 DEF Results, Tells
<1> QED
  BY <1>2, <1>4, WorkEnds
-----------------------------------------------------------------------------
(* The way out                                                             *)

\* The api takes its provider with it; an attempt in flight keeps its own.
LEMMA DisconnectedIs ==
  ASSUME NEW s \in Process, NEW now, ProcInv(s, now)
  PROVE  LET t == Disconnected(s) IN
         /\ t \in Process /\ t.step = s.step /\ ~t.api /\ t.job = s.job
         /\ t.sockets = IF s.api THEN 0 ELSE s.sockets
         /\ t.victims = s.victims /\ t.recovered = s.recovered /\ t.loaded = s.loaded
         /\ t.tx = s.tx /\ t.result = s.result /\ t.attempt = s.attempt
<1> DEFINE t == Disconnected(s)
           left == IF s.api THEN s.sockets - 1 ELSE s.sockets
<1>1. t = [s EXCEPT !.shuttingDown = TRUE, !.api = FALSE, !.sockets = left]
  BY DEF Disconnected
<1>2. s.api => s.sockets = 1
  BY DEF ProcInv, SocketInv
<1>3. left = (IF s.api THEN 0 ELSE s.sockets) /\ left \in 0..MaxAttempts + 1
  BY <1>2 DEF Process, MaxAttempts
<1> HIDE DEF t, left
<1>4. /\ t \in Process /\ t.step = s.step /\ ~t.api /\ t.job = s.job /\ t.sockets = left
      /\ t.victims = s.victims /\ t.recovered = s.recovered /\ t.loaded = s.loaded
      /\ t.tx = s.tx /\ t.result = s.result /\ t.attempt = s.attempt
  BY <1>1, <1>3 DEF Process
<1> QED
  BY <1>3, <1>4 DEF t

LEMMA InterruptKeeps ==
  ASSUME IInv, NEW p \in Processes, Interrupt(p)
  PROVE  IInv'
<1> DEFINE s == proc[p]
           t == Disconnected(s)
<1>1. s \in Process /\ ProcInv(s, clock)
  BY ProcessIs
<1>2. s.step \notin {"done", "exited"} /\ UNCHANGED <<cache, clock, spec>> /\ Becomes(p, t)
  BY DEF Interrupt
<1>3. /\ t \in Process /\ t.step = s.step /\ ~t.api /\ t.job = s.job
      /\ t.sockets = IF s.api THEN 0 ELSE s.sockets
      /\ t.victims = s.victims /\ t.recovered = s.recovered /\ t.loaded = s.loaded
      /\ t.tx = s.tx /\ t.result = s.result /\ t.attempt = s.attempt
  BY <1>1, DisconnectedIs
<1> HIDE DEF t
<1>4. ProcInv(t, clock)
  BY <1>1, <1>2, <1>3 DEF ProcInv, SocketInv, RecoverInv, TxInv, ListedInv, Process
<1> QED
  BY <1>2, <1>3, <1>4, QuietStep

LEMMA ExitKeeps ==
  ASSUME IInv, NEW p \in Processes, Exit(p)
  PROVE  IInv'
<1> DEFINE s == proc[p]
           result == s.result
           c == Disconnected(s)
           e == Ended(c, result)
           t == [e EXCEPT !.step = "exited", !.victims = {}]
<1>1. s \in Process /\ ProcInv(s, clock) /\ result \in Results
  BY ProcessIs DEF Process
<1>2. UNCHANGED <<cache, clock, spec>> /\ Becomes(p, t) /\ s.step # "exited"
  BY DEF Exit
<1>3. /\ c \in Process /\ ~c.api /\ c.job = s.job /\ c.tx = s.tx
      /\ c.sockets = IF s.api THEN 0 ELSE s.sockets
  BY <1>1, DisconnectedIs
<1> HIDE DEF c, result
<1>4. e \in Process /\ Keeps(e, c) /\ ~e.recovered /\ e.tx = c.tx /\ e.result = result
  BY <1>1, <1>3, EndedIs
<1> HIDE DEF e
<1>5. /\ t \in Process /\ t.step = "exited" /\ t.victims = {} /\ t.api = e.api /\ t.job = e.job
      /\ t.sockets = e.sockets /\ t.recovered = e.recovered /\ t.tx = e.tx /\ t.result = e.result
  BY <1>4 DEF Process, Steps
<1> HIDE DEF t
<1>6. t.sockets \in {0, 1} /\ ~t.api
  BY <1>1, <1>3, <1>4, <1>5 DEF Keeps, ProcInv, SocketInv
<1>7. Tells(t.result, t.tx, t.job.kind)
  BY <1>1, <1>3, <1>4, <1>5 DEF Keeps, ProcInv, TxInv, result
<1>8. ProcInv(t, clock)
  BY <1>4, <1>5, <1>6, <1>7 DEF ProcInv, SocketInv, RecoverInv, TxInv, ListedInv
<1> QED
  BY <1>2, <1>5, <1>8, QuietStep

\* The chain only settles what is in its pool.
LEMMA SettleKeeps ==
  ASSUME IInv, NEW p \in Processes, Settle(p)
  PROVE  IInv'
<1> DEFINE s == proc[p]
<1>1. s \in Process /\ ProcInv(s, clock)
  BY ProcessIs
<1>2. s.tx = "pool" /\ UNCHANGED <<cache, clock, spec>>
  BY DEF Settle
<1>3. PICK tx \in {"included", "failed", "dropped"} : Becomes(p, [s EXCEPT !.tx = tx])
  BY DEF Settle
<1> DEFINE t == [s EXCEPT !.tx = tx]
<1>4. /\ t \in Process /\ Keeps(t, s) /\ t.step = s.step /\ t.recovered = s.recovered
      /\ t.loaded = s.loaded /\ t.tx = tx /\ t.result = s.result /\ t.attempt = s.attempt
  BY <1>1 DEF Process, Keeps
<1>5. Becomes(p, t)
  BY <1>3
<1> HIDE DEF t
<1>6. ProcInv(t, clock)
  BY <1>1, <1>2, <1>4 DEF ProcInv, SocketInv, RecoverInv, TxInv, ListedInv, Keeps, Tells
<1> QED
  BY <1>2, <1>4, <1>5, <1>6, QuietStep
-----------------------------------------------------------------------------
(* The specification                                                       *)

LEMMA InitFits ==
  ASSUME Init
  PROVE  IInv
<1>1. PICK job \in Assignments : proc = [p \in Processes |-> Fresh(job[p])]
  BY DEF Init
<1>2. /\ cache \in Caches /\ clock = Cardinality(cache) /\ spec = 0 /\ cache \subseteq CachedEntry
      /\ clock \in Nat /\ Written(cache, clock) /\ spec \in 0..LastSpec
  BY NodeCommandAssumption DEF Init, Written
<1>3. ASSUME NEW p \in Processes
      PROVE  proc[p] \in Process /\ ProcInv(proc[p], clock)
  <2> DEFINE j == job[p]
             s == [job |-> j, step |-> "start", attempt |-> 0, loaded |-> {}, recovered |-> FALSE, sockets |-> 0,
                   api |-> FALSE, key |-> <<Chain, 0>>, victims |-> {}, checks |-> <<>>, timer |-> "off",
                   tx |-> "none", gasZero |-> FALSE, shuttingDown |-> FALSE, result |-> ""]
  <2>1. j \in Job
    BY NodeCommandAssumption
  <2>6. proc[p] = Fresh(j)
    BY <1>1
  <2>7. Fresh(j) = s
    BY DEF Fresh
  <2>2. 0 \in 0..MaxAttempts - 1 /\ 0 \in 0..MaxAttempts + 1 /\ <<>> \in Seq(CheckNames)
    BY DEF MaxAttempts
  <2> HIDE DEF j
  <2>3. s \in Process
    BY <2>1, <2>2, KeyIs DEF Process, Steps, Results
  <2>4. /\ s.step = "start" /\ s.sockets = 0 /\ ~s.api /\ ~s.recovered /\ s.attempt = 0
        /\ s.tx = "none" /\ s.result = "" /\ s.victims = {}
    OBVIOUS
  <2> HIDE DEF s
  <2>5. ProcInv(s, clock)
    BY <2>4 DEF ProcInv, SocketInv, RecoverInv, TxInv, ListedInv, Tells
  <2> QED
    BY <2>6, <2>7, <2>3, <2>5
<1>4. proc \in [Processes -> Process]
  BY <1>1, <1>3
<1> QED
  BY <1>2, <1>3, <1>4 DEF IInv, TypeOK

LEMMA NextKeeps ==
  ASSUME IInv, [Next]_vars
  PROVE  IInv'
<1>1. ASSUME NEW p \in Processes, Step(p)
      PROVE  IInv'
  BY <1>1, StartKeeps, RefuseKeeps, HandshakeKeeps, CreateKeeps, BackoffKeeps, CreateFailsOnMetadataKeeps,
     SaveMetadataKeeps, WriteMetadataKeeps, WriteFailsKeeps, PruneListKeeps, PruneUnlinkKeeps,
     CheckPassesKeeps, CheckEndsKeeps, GasForUserKeeps, SignAndSendKeeps, AcceptedKeeps,
     SubmitFailsKeeps, OnStatusKeeps, TimerFiresKeeps, ResolveBlockNumberKeeps, ExitKeeps DEF Step
<1>2. ASSUME NEW p \in Processes, (\E retriable \in BOOLEAN : Fail(p, retriable)) \/ Interrupt(p) \/ Settle(p)
      PROVE  IInv'
  BY <1>2, FailKeeps, InterruptKeeps, SettleKeeps
<1>3. CASE Upgrade
  <2>1. cache' = cache /\ clock' = clock /\ proc' = proc /\ spec' = spec + 1 /\ spec < LastSpec
    BY <1>3 DEF Upgrade
  <2>2. spec' \in 0..LastSpec
    BY <2>1, NodeCommandAssumption DEF IInv, TypeOK
  <2> QED
    BY <2>1, <2>2 DEF IInv, TypeOK
<1>4. CASE UNCHANGED vars
  <2>1. cache' = cache /\ clock' = clock /\ proc' = proc /\ spec' = spec
    BY <1>4 DEF vars
  <2> QED
    BY <2>1 DEF IInv, TypeOK
<1> QED
  BY <1>1, <1>2, <1>3, <1>4 DEF Next

\* Cache files have names and times of their own, and what each process holds (provider,
\* recovery, extrinsic, listing) agrees with where it stands.
THEOREM Invariance == Spec => []IInv
<1>1. Init => IInv
  BY InitFits
<1>2. IInv /\ [Next]_vars => IInv'
  BY NextKeeps
<1> QED
  BY <1>1, <1>2, PTL DEF Spec

\* The cache and every process keep their types: no provider is released twice, and no
\* attempt is made beyond the third.
THEOREM NodeTypes == Spec => []TypeOK
<1>1. IInv => TypeOK
  BY DEF IInv
<1> QED
  BY <1>1, Invariance, PTL

\* However attempts end, a process holds at most one provider.
THEOREM OneProvider == Spec => []OneSocket
<1>1. ASSUME IInv
      PROVE  OneSocket
  <2>1. ASSUME NEW p \in Processes
        PROVE  proc[p].sockets <= 1
    <3>1. proc[p] \in Process /\ SocketInv(proc[p])
      BY <1>1, ProcessIs DEF ProcInv
    <3>2. proc[p].sockets \in {0, 1}
      BY <3>1 DEF SocketInv, Process
    <3> QED
      BY <3>2
  <2> QED
    BY <2>1 DEF OneSocket
<1> QED
  BY <1>1, Invariance, PTL

\* Whatever the cache holds, and however often other processes clear or fill it meanwhile,
\* no command fails on metadata that was cached.
THEOREM CacheNeverFails == Spec => []CacheRecovers
<1>1. IInv => CacheRecovers
  BY ProcessIs DEF CacheRecovers, ProcInv, TxInv, Tells
<1> QED
  BY <1>1, Invariance, PTL

\* What a command reports of its extrinsic is what became of it on chain.
THEOREM ResultsTrue == Spec => []ResultTruth
<1>1. IInv => ResultTruth
  BY ProcessIs DEF ResultTruth, ProcInv, TxInv, Tells
<1> QED
  BY <1>1, Invariance, PTL
-----------------------------------------------------------------------------
(* What a step may never do                                                *)

\* Of the processes at most one goes on.
LEMMA OtherStays ==
  ASSUME IInv, NEW p \in Processes, NEW q \in Processes, NEW s, Becomes(q, s), proc'[p] # proc[p]
  PROVE  p = q /\ proc'[p] = s
  BY DEF IInv, TypeOK, Becomes

\* The steps but these three either stay at a step or go on to another than a handshake.
NoAttempt(p) == \E t : Becomes(p, t) /\ (t.step # "handshake" \/ t.step = proc[p].step)

LEMMA NoAttemptEnded ==
  ASSUME NEW p, NEW s \in Process, NEW result \in Results, Becomes(p, Ended(s, result))
  PROVE  NoAttempt(p)
<1>1. Ended(s, result).step = "done"
  BY EndedIs
<1> QED
  BY <1>1 DEF NoAttempt

LEMMA NoAttemptChecks ==
  ASSUME NEW s \in Process
  PROVE  StartChecks(s) \in Process /\ StartChecks(s).step # "handshake"
<1> DEFINE t == StartChecks(s)
<1>1. CASE s.job.kind = "query"
  <2>1. t = Ended(s, "ok") /\ "ok" \in Results
    BY <1>1 DEF StartChecks, Results
  <2> QED
    BY <2>1, EndedIs
<1>2. CASE s.job.kind # "query"
  <2> DEFINE checks == Checks(s.job)
  <2>1. t = [s EXCEPT !.step = "check", !.checks = checks, !.key = <<Chain, 0>>]
    BY <1>2 DEF StartChecks
  <2>2. checks \in Seq(CheckNames) /\ <<Chain, 0>> \in Key /\ "check" \in Steps
    BY ChecksAre, KeyIs DEF Process, Steps
  <2> HIDE DEF t, checks
  <2>3. t \in Process /\ t.step = "check"
    BY <2>1, <2>2 DEF Process
  <2> QED
    BY <2>3 DEF t
<1> QED
  BY <1>1, <1>2

LEMMA NoAttemptConnecting ==
  ASSUME IInv, NEW p \in Processes, Handshake(p) \/ Create(p) \/ \E retriable \in BOOLEAN : Fail(p, retriable)
  PROVE  NoAttempt(p)
<1> DEFINE s == proc[p]
<1>1. s \in Process /\ ProcInv(s, clock)
  BY ProcessIs
<1>2. CASE Handshake(p)
  <2> DEFINE t == [s EXCEPT !.step = "create"]
  <2>1. Becomes(p, t)
    BY <1>2 DEF Handshake
  <2>2. t.step = "create"
    BY <1>1 DEF Process
  <2> QED
    BY <2>1, <2>2 DEF NoAttempt
<1>3. CASE Create(p)
  <2> DEFINE c == Connected(s)
             key == <<Chain, spec>>
             t == [c EXCEPT !.step = "save", !.api = TRUE, !.key = key]
  <2>1. Becomes(p, t)
    BY <1>3 DEF Create
  <2>2. c \in Process
    BY <1>1, ConnectedIs
  <2> HIDE DEF c, key
  <2>3. t.step = "save"
    BY <2>2 DEF Process
  <2> QED
    BY <2>1, <2>3 DEF NoAttempt
<1>4. CASE \E retriable \in BOOLEAN : Fail(p, retriable)
  <2> DEFINE c == Release(s)
             next == c.attempt + 1
             t == [c EXCEPT !.step = "backoff", !.attempt = next]
  <2>1. Becomes(p, Ended(c, "TRANSPORT_ERROR")) \/ Becomes(p, t)
    BY <1>4 DEF Fail
  <2>2. s.sockets = 1
    BY <1>1, <1>4 DEF Fail, ProcInv, SocketInv
  <2>3. c \in Process /\ "TRANSPORT_ERROR" \in Results
    BY <1>1, <2>2, ReleaseIs DEF Results
  <2> HIDE DEF c, next
  <2>4. t.step = "backoff"
    BY <2>3 DEF Process
  <2> HIDE DEF t
  <2> QED
    BY <2>1, <2>3, <2>4, NoAttemptEnded DEF NoAttempt
<1> QED
  BY <1>2, <1>3, <1>4

LEMMA NoAttemptMetadata ==
  ASSUME IInv, NEW p \in Processes,
         SaveMetadata(p) \/ WriteMetadata(p) \/ WriteFails(p) \/ PruneList(p) \/ PruneUnlink(p)
  PROVE  NoAttempt(p)
<1> DEFINE s == proc[p]
           c == StartChecks(s)
           listed == Victims(cache, Chain)
<1>1. s \in Process /\ c \in Process /\ c.step # "handshake"
  BY ProcessIs, NoAttemptChecks
<1>2. \/ Becomes(p, c) \/ Becomes(p, [s EXCEPT !.step = "write"])
      \/ Becomes(p, [s EXCEPT !.step = "list"])
      \/ Becomes(p, [s EXCEPT !.step = "unlink", !.victims = listed])
      \/ Becomes(p, [c EXCEPT !.victims = {}])
  <2>1. CASE SaveMetadata(p)
    BY <2>1 DEF SaveMetadata
  <2>2. CASE WriteMetadata(p)
    BY <2>2 DEF WriteMetadata
  <2>3. CASE WriteFails(p)
    BY <2>3 DEF WriteFails
  <2>4. CASE PruneList(p)
    BY <2>4 DEF PruneList
  <2>5. CASE PruneUnlink(p)
    BY <2>5 DEF PruneUnlink
  <2> QED
    BY <2>1, <2>2, <2>3, <2>4, <2>5
<1> HIDE DEF c
<1>3. /\ [s EXCEPT !.step = "write"].step = "write" /\ [s EXCEPT !.step = "list"].step = "list"
      /\ [s EXCEPT !.step = "unlink", !.victims = listed].step = "unlink"
      /\ [c EXCEPT !.victims = {}].step = c.step
  BY <1>1 DEF Process
<1> QED
  BY <1>1, <1>2, <1>3 DEF NoAttempt

LEMMA NoAttemptWorking ==
  ASSUME IInv, NEW p \in Processes,
         \/ CheckPasses(p) \/ CheckFails(p) \/ GasForUser(p) \/ AlreadyFunded(p) \/ SignAndSend(p)
         \/ Accepted(p) \/ ResolveBlockNumber(p) \/ Settle(p) \/ Refuse(p)
  PROVE  NoAttempt(p)
<1> DEFINE s == proc[p]
           c == Passed(s)
           g == [c EXCEPT !.gasZero = TRUE]
<1>1. s \in Process
  BY ProcessIs
<1>2. CASE CheckPasses(p) \/ GasForUser(p)
  <2>1. s.checks # <<>> /\ (Becomes(p, c) \/ Becomes(p, g))
    BY <1>2 DEF CheckPasses, GasForUser, Checking
  <2>2. c \in Process /\ c.step = s.step
    BY <1>1, <2>1, PassedIs
  <2> HIDE DEF c
  <2>3. g.step = c.step
    BY <2>2 DEF Process
  <2> HIDE DEF g
  <2> QED
    BY <2>1, <2>2, <2>3 DEF NoAttempt
<1>3. CASE CheckFails(p) \/ AlreadyFunded(p) \/ ResolveBlockNumber(p) \/ Refuse(p)
  <2>1. PICK result \in {"REFUSED", "already_funded", "ok"} : Becomes(p, Ended(s, result))
    BY <1>3 DEF CheckFails, AlreadyFunded, ResolveBlockNumber, Refuse
  <2>2. result \in Results
    BY DEF Results
  <2> QED
    BY <1>1, <2>1, <2>2, NoAttemptEnded
<1>4. CASE SignAndSend(p) \/ Accepted(p)
  <2> DEFINE t == [s EXCEPT !.step = "submit", !.timer = "on"]
             u == [s EXCEPT !.step = "pending", !.tx = "pool"]
  <2>1. Becomes(p, t) \/ Becomes(p, u)
    BY <1>4 DEF SignAndSend, Accepted
  <2>2. t.step = "submit" /\ u.step = "pending"
    BY <1>1 DEF Process
  <2> HIDE DEF t, u
  <2> QED
    BY <2>1, <2>2 DEF NoAttempt
<1>5. CASE Settle(p)
  <2>1. PICK tx : Becomes(p, [s EXCEPT !.tx = tx])
    BY <1>5 DEF Settle
  <2>2. [s EXCEPT !.tx = tx].step = s.step
    BY <1>1 DEF Process
  <2> QED
    BY <2>1, <2>2 DEF NoAttempt
<1> QED
  BY <1>2, <1>3, <1>4, <1>5

LEMMA NoAttemptExtrinsic ==
  ASSUME IInv, NEW p \in Processes, SubmitFails(p) \/ OnStatus(p) \/ TimerFires(p)
  PROVE  NoAttempt(p)
<1> DEFINE s == proc[p]
           h == [s EXCEPT !.timer = "off", !.step = "header"]
           f == [s EXCEPT !.timer = "off"]
<1>1. s \in Process
  BY ProcessIs
<1>2. CASE SubmitFails(p)
  <2>1. PICK tx \in {"none", "pool"} :
          Becomes(p, Ended([s EXCEPT !.timer = "off", !.tx = tx], "TX_SUBMIT_FAILED"))
    BY <1>2 DEF SubmitFails
  <2>2. [s EXCEPT !.timer = "off", !.tx = tx] \in Process
    BY <1>1 DEF Process
  <2>3. "TX_SUBMIT_FAILED" \in Results
    BY DEF Results
  <2> QED
    BY <2>1, <2>2, <2>3, NoAttemptEnded
<1>3. CASE TimerFires(p)
  <2>1. PICK tx \in {"none", "pool", s.tx} :
          Becomes(p, Ended([s EXCEPT !.timer = "fired", !.tx = tx], "TX_TIMEOUT"))
    BY <1>3 DEF TimerFires
  <2>2. [s EXCEPT !.timer = "fired", !.tx = tx] \in Process
    BY <1>1 DEF Process
  <2>3. "TX_TIMEOUT" \in Results
    BY DEF Results
  <2> QED
    BY <2>1, <2>2, <2>3, NoAttemptEnded
<1>4. CASE OnStatus(p)
  <2>1. Becomes(p, Ended(f, "TX_FAILED")) \/ Becomes(p, h)
    BY <1>4 DEF OnStatus, InBlock
  <2>2. f \in Process /\ h.step = "header"
    BY <1>1 DEF Process
  <2>3. "TX_FAILED" \in Results
    BY DEF Results
  <2> HIDE DEF f, h
  <2> QED
    BY <2>1, <2>2, <2>3, NoAttemptEnded DEF NoAttempt
<1> QED
  BY <1>2, <1>3, <1>4

LEMMA NoAttemptOut ==
  ASSUME IInv, NEW p \in Processes, Interrupt(p) \/ Exit(p)
  PROVE  NoAttempt(p)
<1> DEFINE s == proc[p]
           c == Disconnected(s)
           result == s.result
           e == Ended(c, result)
           t == [e EXCEPT !.step = "exited", !.victims = {}]
<1>1. s \in Process /\ ProcInv(s, clock) /\ result \in Results
  BY ProcessIs DEF Process
<1>2. c \in Process /\ c.step = s.step
  BY <1>1, DisconnectedIs
<1>3. Becomes(p, c) \/ Becomes(p, t)
  BY DEF Interrupt, Exit
<1> HIDE DEF c, result
<1>4. e \in Process
  BY <1>1, <1>2, EndedIs
<1> HIDE DEF e
<1>5. t.step = "exited"
  BY <1>4 DEF Process
<1> HIDE DEF t
<1> QED
  BY <1>2, <1>3, <1>5 DEF NoAttempt

\* Of the steps to another handshake that an interrupted process may take, none is a retry.
LEMMA NoRetry ==
  ASSUME IInv, [Next]_vars, NEW p \in Processes, proc[p].shuttingDown, proc[p].step # "handshake",
         proc'[p].step = "handshake"
  PROVE  proc'[p].attempt = 0
<1> DEFINE s == proc[p]
<1>1. s \in Process /\ ProcInv(s, clock) /\ proc'[p] # s
  BY ProcessIs
<1>2. CASE Start(p)
  <2>1. s.step = "start" /\ s.sockets = 0 /\ s.attempt = 0
    BY <1>1, <1>2 DEF Start, ProcInv, SocketInv, RecoverInv
  <2>2. PICK t : Becomes(p, t) /\ (t.step = "handshake" => t = Connecting([s EXCEPT !.loaded = Readable(cache)]))
    <3>1. CASE s.job.dryRun
      <4>1. Becomes(p, Ended(s, "preview")) /\ Ended(s, "preview").step = "done"
        BY <1>1, <1>2, <3>1, EndedIs DEF Start, Results
      <4> QED
        BY <4>1
    <3>2. CASE ~s.job.dryRun /\ s.job.kind = "clear"
      <4>1. Becomes(p, Ended(s, "ok")) /\ Ended(s, "ok").step = "done"
        BY <1>1, <1>2, <3>2, EndedIs DEF Start, Results
      <4> QED
        BY <4>1
    <3>3. CASE ~s.job.dryRun /\ s.job.kind # "clear"
      BY <1>2, <3>3 DEF Start
    <3> QED
      BY <3>1, <3>2, <3>3
  <2>3. proc'[p] = t
    BY <1>1, <2>2, OtherStays
  <2> DEFINE files == Readable(cache)
             r == [s EXCEPT !.loaded = files]
  <2>4. files \in SUBSET CachedEntry
    BY ProcessIs DEF Readable
  <2> HIDE DEF files
  <2>5. r \in Process /\ r.sockets = 0 /\ r.attempt = 0
    BY <1>1, <2>1, <2>4 DEF Process
  <2>6. t = Connecting(r)
    BY <2>2, <2>3 DEF files
  <2> HIDE DEF r
  <2> QED
    BY <2>3, <2>5, <2>6, ConnectingIs
<1>3. CASE CreateFailsOnMetadata(p)
  <2> DEFINE r == Release(s)
             c == [r EXCEPT !.recovered = TRUE, !.attempt = 0, !.loaded = {}]
  <2>1. s.step = "create" /\ ~s.recovered /\ s.sockets = 1
    BY <1>1, <1>3 DEF CreateFailsOnMetadata, ProcInv, SocketInv, RecoverInv, Poisoned, Has
  <2>2. Becomes(p, Connecting(c))
    BY <1>3, <2>1 DEF CreateFailsOnMetadata, Recover
  <2>3. r \in Process /\ r.sockets = 0
    BY <1>1, <2>1, ReleaseIs
  <2> HIDE DEF r
  <2>4. 0 \in 0..MaxAttempts - 1 /\ {} \in SUBSET CachedEntry
    BY DEF MaxAttempts
  <2>5. c \in Process /\ c.sockets = 0 /\ c.attempt = 0
    BY <2>3, <2>4 DEF Process
  <2> HIDE DEF c
  <2> QED
    BY <1>1, <2>2, <2>5, ConnectingIs, OtherStays
<1>4. CASE Backoff(p)
  <2>1. Becomes(p, Ended(s, "TRANSPORT_ERROR"))
    BY <1>4 DEF Backoff
  <2>2. Ended(s, "TRANSPORT_ERROR").step = "done"
    BY <1>1, EndedIs DEF Results
  <2> QED
    BY <1>1, <2>1, <2>2, OtherStays
<1>5. CASE NoAttempt(p)
  BY <1>1, <1>5, OtherStays DEF NoAttempt
<1>6. PICK q \in Processes : \/ Step(q) \/ (\E retriable \in BOOLEAN : Fail(q, retriable))
                            \/ Interrupt(q) \/ Settle(q)
  BY <1>1 DEF Next, vars, Upgrade
<1>7. Start(q) \/ Backoff(q) \/ CreateFailsOnMetadata(q) \/ NoAttempt(q)
  BY <1>6, NoAttemptConnecting, NoAttemptMetadata, NoAttemptWorking, NoAttemptExtrinsic, NoAttemptOut DEF Step
<1>8. p = q
  <2>1. \E t : Becomes(q, t)
    BY <1>7 DEF Start, Backoff, CreateFailsOnMetadata, NoAttempt
  <2> QED
    BY <1>1, <2>1, OtherStays
<1> QED
  BY <1>2, <1>3, <1>4, <1>5, <1>7, <1>8

\* An interrupted process makes no retry.
THEOREM InterruptedNeverRetries == Spec => NoRetryAfterInterrupt
<1> DEFINE NoneRetries == \A p \in Processes :
             /\ proc[p].shuttingDown
             /\ proc[p].step # "handshake" /\ proc'[p].step = "handshake"
             => proc'[p].attempt = 0
<1>1. IInv /\ [Next]_vars => [NoneRetries]_vars
  BY NoRetry
<1> QED
  BY <1>1, Invariance, PTL DEF Spec, NoRetryAfterInterrupt

LEMMA LastWrittenKept ==
  ASSUME IInv, [Next]_vars, NEW p \in Processes, NEW newest \in cache, proc[p].step = "unlink",
         proc'[p].step \in {"check", "done"}, newest.mtime = clock
  PROVE  \/ newest \in cache'
         \/ \E stale \in proc[p].victims : stale.key = newest.key /\ stale.mtime < newest.mtime
<1>1. proc'[p] # proc[p] /\ proc[p] \in Process /\ ProcInv(proc[p], clock)
  BY ProcessIs
<1>2. CASE PruneUnlink(p)
  <2>1. CASE Has(proc[p].victims, newest.key)
    BY <1>1, <2>1 DEF Has, ProcInv, ListedInv
  <2>2. CASE ~Has(proc[p].victims, newest.key)
    BY <1>2, <2>2 DEF PruneUnlink, Unlinked
  <2> QED
    BY <2>1, <2>2
<1>3. CASE cache' = cache
  BY <1>3
<1>4. CASE cache' # cache
  <2>1. PICK q \in Processes : Start(q) \/ CreateFailsOnMetadata(q) \/ WriteMetadata(q) \/ PruneUnlink(q)
    BY <1>4 DEF Next, vars, Upgrade, Step, Refuse, Handshake, Create, Backoff, SaveMetadata, WriteFails, PruneList,
       CheckPasses, CheckFails, GasForUser, AlreadyFunded, Checking, SignAndSend, Accepted, SubmitFails,
       OnStatus, TimerFires, ResolveBlockNumber, Exit, Fail, Interrupt, Settle
  <2>2. \E t : Becomes(q, t)
    BY <2>1 DEF Start, CreateFailsOnMetadata, WriteMetadata, PruneUnlink
  <2>3. p = q
    BY <1>1, <2>2, OtherStays
  <2> QED
    BY <1>2, <2>1, <2>3 DEF Start, CreateFailsOnMetadata, WriteMetadata
<1> QED
  BY <1>3, <1>4

\* Pruning evicts the entry written last only if it was written after an earlier file of
\* that name had been listed.
THEOREM LastWrittenStays == Spec => NewestKept
<1> DEFINE Kept == \A p \in Processes, newest \in cache :
       /\ proc[p].step = "unlink" /\ proc'[p].step \in {"check", "done"}
       /\ newest.mtime = clock
       => \/ newest \in cache'
          \/ \E stale \in proc[p].victims : stale.key = newest.key /\ stale.mtime < newest.mtime
<1>1. IInv /\ [Next]_vars => [Kept]_vars
  BY LastWrittenKept
<1> QED
  BY <1>1, Invariance, PTL DEF Spec, NewestKept
=============================================================================
