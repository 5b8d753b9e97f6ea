----------------------- MODULE IdlResolution_proofs -----------------------
(***************************************************************************)
(* Proofs about the loads of IDLs and the commands that edit their cache,  *)
(* for any number of processes, codes, methods and command lines: what is  *)
(* in the cache never costs a load the IDL it could have, and a load that  *)
(* is served leaves an imported entry alone.                               *)
(***************************************************************************)
EXTENDS IdlResolution, SequenceTheorems, TLAPS

\* The own IDL of the code a process asks for.
Own(s) == section[s.job.code]

\* What a chain entry holds is what the code embeds.
ChainEntry(entry, own) ==
  entry.state = "present" /\ entry.source = "chain" /\ own.state = "idl" => entry.idl = own.idl
CacheInv == \A code \in Codes : ChainEntry(cache[code], section[code])

Imported(s) == s.seen.source = "import" /\ s.job.kind \in {"generic", "watch"}

\* NeverBlocked, of a load that has ended.
Ends(s, own) ==
  Loads(s) /\ s.job.file.state = "none" /\ s.result # "served" =>
    /\ s.fault \/ s.hit \/ Imported(s) \/ own.state # "idl" \/ ~Usable(s, own.idl)
    /\ s.job.kind = "standard" =>
         \/ s.result = "IDL_PARSE_ERROR" /\ own.state = "malformed"
         \/ s.result = "IO_ERROR"
         \/ ~\E idl \in s.job.bundled : Usable(s, idl)

\* What a process holds at each step, of the IDLs it has seen and of its command line.
Holds(s, own) ==
  CASE s.step = "start" -> TRUE
    [] s.step = "codeId" ->
         IF Loads(s) THEN s.job.file.state = "none" ELSE s.job.kind = "importByProgram"
    [] s.step = "read" -> Loads(s) /\ s.job.file.state = "none"
    [] s.step = "evict" -> Loads(s) /\ s.job.file.state = "none" /\ ~Accepts(s, s.seen.idl)
    [] s.step = "chain" ->
         Loads(s) /\ s.job.file.state = "none" /\ (s.seen = Absent \/ ~Accepts(s, s.seen.idl))
    [] s.step = "write" ->
         /\ Loads(s) /\ s.job.file.state = "none" /\ (s.seen = Absent \/ ~Accepts(s, s.seen.idl))
         /\ own.state = "idl" /\ s.idl = own.idl /\ Accepts(s, s.idl)
    [] s.step = "bundled" ->
         /\ Loads(s) /\ s.job.file.state = "none" /\ ~OnVaraEth(s)
         /\ s.fault \/ own.state # "idl" \/ ~Usable(s, own.idl)
    [] s.step = "use" ->
         /\ Loads(s)
         /\ s.job.file.state = "none" =>
              \/ s.hit /\ s.job.kind # "standard"
              \/ /\ Accepts(s, s.idl)
                 /\ s.job.kind \in {"generic", "watch"} => Imported(s) \/ own.state # "idl" \/ s.idl = own.idl
    [] s.step = "seed" -> s.job.kind \in {"import", "importByProgram"}
    [] s.step = "unlink" -> s.job.kind = "clear"
    [] s.step = "done" -> Ends(s, own)

\* A session alone holds an IDL from one request to the next.
HeldInv(s) == s.held # NoIdl => s.job.kind = "session"

LoadInv(s, own) == Holds(s, own) /\ HeldInv(s)

IInv ==
  /\ TypeOK /\ CacheInv
  /\ \A p \in Processes : LoadInv(proc[p], Own(proc[p]))
-----------------------------------------------------------------------------
(* Types                                                                   *)

LEMMA EntryFields ==
  ASSUME NEW entry \in Entry
  PROVE  /\ entry.idl \in Idl /\ entry.source \in {"chain", "import"}
         /\ entry.state \in {"absent", "corrupt", "present"}
         /\ entry.state = "absent" => entry = Absent
<1>1. Absent.idl = NoIdl /\ Absent.source = "chain" /\ Absent.state = "absent" /\ NoIdl \in Idl
  BY DEF Absent, NoIdl, Idl
<1>2. Corrupt = [state |-> "corrupt", idl |-> NoIdl, source |-> "chain"]
  BY DEF Corrupt, Absent
<1>3. Corrupt.idl = NoIdl /\ Corrupt.source = "chain" /\ Corrupt.state = "corrupt"
  BY <1>2
<1>4. CASE entry = Absent
  BY <1>1, <1>4
<1>5. CASE entry = Corrupt
  BY <1>1, <1>3, <1>5
<1>6. CASE \E idl \in Idl, source \in {"chain", "import"} : entry = Cached(idl, source)
  <2> PICK idl \in Idl, source \in {"chain", "import"} : entry = Cached(idl, source)
    BY <1>6
  <2> QED
    BY DEF Cached
<1>7. entry \in {Absent, Corrupt} \/ entry \in {Cached(idl, source) : idl \in Idl, source \in {"chain", "import"}}
  BY DEF Entry
<1>8. entry \in {Cached(idl, source) : idl \in Idl, source \in {"chain", "import"}}
      => \E idl \in Idl, source \in {"chain", "import"} : entry = Cached(idl, source)
  OBVIOUS
<1> QED
  BY <1>4, <1>5, <1>6, <1>7, <1>8

LEMMA Entries ==
  /\ Absent \in Entry /\ Corrupt \in Entry /\ NoIdl \in Idl
  /\ \A idl \in Idl, source \in {"chain", "import"} :
       /\ Cached(idl, source) \in Entry /\ Cached(idl, source).idl = idl
       /\ Cached(idl, source).source = source /\ Cached(idl, source).state = "present"
<1>1. Absent \in Entry /\ Corrupt \in Entry
  BY DEF Entry
<1>2. NoIdl \in Idl
  BY DEF NoIdl, Idl
<1>3. \A idl \in Idl, source \in {"chain", "import"} : Cached(idl, source) \in Entry
  BY DEF Entry
<1>4. \A idl \in Idl, source \in {"chain", "import"} :
        /\ Cached(idl, source).idl = idl
        /\ Cached(idl, source).source = source /\ Cached(idl, source).state = "present"
  BY DEF Cached
<1> QED
  BY <1>1, <1>2, <1>3, <1>4

LEMMA ProcessFields ==
  ASSUME NEW s \in Process
  PROVE  /\ s.job \in Job /\ s.job.code \in Codes /\ s.job.kind \in Kinds /\ s.job.file.idl \in Idl
         /\ s.job.file.state \in {"none", "unreadable", "text"} /\ s.job.bundled \subseteq Idl
         /\ s.step \in Steps /\ s.seen \in Entry /\ s.idl \in Idl /\ s.held \in Idl
         /\ s.hit \in BOOLEAN /\ s.fault \in BOOLEAN /\ s.listed \subseteq Codes /\ s.result \in Results
         /\ s.todo \in Seq(Methods \cup {none})
  BY Entries DEF Process, Job, File

\* The IDL that a code on chain embeds is one.
LEMMA OwnFields ==
  ASSUME section \in Sections, NEW code \in Codes
  PROVE  /\ section[code].state \in {"idl", "no-section", "malformed", "unavailable"}
         /\ section[code].idl \in Idl
  BY IdlResolutionAssumption DEF Section

\* What the end of a load leaves as it was.
LEMMA EndedIs ==
  ASSUME NEW s \in Process, NEW result \in Results
  PROVE  /\ Ended(s, result) \in Process /\ Ended(s, result).job = s.job /\ Ended(s, result).step = "done"
         /\ Ended(s, result).todo = s.todo /\ Ended(s, result).seen = s.seen
         /\ Ended(s, result).held = s.held /\ Ended(s, result).hit = s.hit
         /\ Ended(s, result).fault = s.fault
         /\ Ended(s, result).result \in {result, "raw"}
         /\ s.job.kind # "watch" \/ result = "served" => Ended(s, result).result = result
<1> DEFINE last == IF s.job.kind = "watch" /\ s.job.file.state = "none" /\ result # "served" THEN "raw" ELSE result
<1>1. Ended(s, result) = [s EXCEPT !.step = "done", !.result = last]
  BY DEF Ended
<1>2. last \in Results /\ last \in {result, "raw"} /\ (s.job.kind # "watch" \/ result = "served" => last = result)
  BY DEF Results
<1> HIDE DEF last
<1> QED
  BY <1>1, <1>2 DEF Process, Steps

LEMMA FailedIs ==
  ASSUME NEW s \in Process, NEW result \in Results
  PROVE  /\ Failed(s, result) \in Process /\ Failed(s, result).job = s.job /\ Failed(s, result).step = "done"
         /\ Failed(s, result).todo = s.todo /\ Failed(s, result).seen = s.seen
         /\ Failed(s, result).held = s.held /\ Failed(s, result).hit = s.hit
         /\ Failed(s, result).fault = TRUE
         /\ Failed(s, result).result \in {result, "raw"}
         /\ s.job.kind # "watch" \/ result = "served" => Failed(s, result).result = result
<1> DEFINE c == Ended(s, result)
<1>1. Failed(s, result) = [c EXCEPT !.fault = TRUE]
  BY DEF Failed
<1>2. /\ c \in Process /\ c.job = s.job /\ c.step = "done" /\ c.todo = s.todo /\ c.seen = s.seen
      /\ c.held = s.held /\ c.hit = s.hit /\ c.result \in {result, "raw"}
      /\ s.job.kind # "watch" \/ result = "served" => c.result = result
  BY EndedIs
<1> HIDE DEF c
<1> QED
  BY <1>1, <1>2 DEF Process
-----------------------------------------------------------------------------
(* One process takes a step                                                *)

\* One process goes on, and the cache still holds of each code what it may.
LEMMA Step ==
  ASSUME IInv, NEW p \in Processes, NEW s \in Process, Becomes(p, s), LoadInv(s, Own(s)),
         section' = section, cache' \in [Codes -> Entry], CacheInv'
  PROVE  IInv'
<1>1. proc' = [proc EXCEPT ![p] = s] /\ proc \in [Processes -> Process]
  BY DEF Becomes, IInv, TypeOK
<1>2. TypeOK'
  BY <1>1 DEF IInv, TypeOK
<1>3. ASSUME NEW q \in Processes
      PROVE  LoadInv(proc'[q], section'[proc'[q].job.code])
  BY <1>1 DEF IInv, Own
<1> QED
  BY <1>2, <1>3 DEF IInv, Own

\* Most steps leave the cache alone.
LEMMA QuietStep ==
  ASSUME IInv, NEW p \in Processes, NEW s \in Process, Becomes(p, s), LoadInv(s, Own(s)),
         UNCHANGED <<cache, section>>
  PROVE  IInv'
<1>1. cache' = cache /\ section' = section
  OBVIOUS
<1>2. cache' \in [Codes -> Entry]
  BY <1>1 DEF IInv, TypeOK
<1>3. CacheInv'
  BY <1>1 DEF IInv, CacheInv
<1> QED
  BY <1>1, <1>2, <1>3, Step

\* An entry may always go, and what comes is imported or the code's own.
LEMMA CacheStep ==
  ASSUME IInv, NEW code \in Codes, NEW entry \in Entry, ChainEntry(entry, section[code]), section' = section,
         cache' = [cache EXCEPT ![code] = entry]
  PROVE  cache' \in [Codes -> Entry] /\ CacheInv'
<1>1. cache \in [Codes -> Entry] /\ \A c \in Codes : ChainEntry(cache[c], section[c])
  BY DEF IInv, TypeOK, CacheInv
<1>2. ASSUME NEW c \in Codes
      PROVE  ChainEntry(cache'[c], section'[c])
  BY <1>1
<1> QED
  BY <1>1, <1>2 DEF CacheInv

LEMMA EvictStep ==
  ASSUME IInv, NEW code \in Codes, section' = section, cache' = EvictCachedIdl(cache, code)
  PROVE  cache' \in [Codes -> Entry] /\ CacheInv'
  BY CacheStep, Entries DEF EvictCachedIdl, ChainEntry, Absent

LEMMA ProcessIs ==
  ASSUME IInv, NEW p \in Processes
  PROVE  proc[p] \in Process /\ LoadInv(proc[p], Own(proc[p])) /\ section \in Sections
  BY DEF IInv, TypeOK

\* A process that only goes on to another step.
LEMMA GoesIs ==
  ASSUME NEW s \in Process, NEW step \in Steps
  PROVE  LET t == [s EXCEPT !.step = step] IN
         /\ t \in Process /\ t.step = step /\ t.job = s.job /\ t.todo = s.todo /\ t.seen = s.seen
         /\ t.idl = s.idl /\ t.held = s.held /\ t.hit = s.hit /\ t.fault = s.fault /\ t.result = s.result
  BY DEF Process
-----------------------------------------------------------------------------
(* The loads                                                               *)

LEMMA LoadKeeps ==
  ASSUME IInv, NEW p \in Processes, Load(p)
  PROVE  IInv'
<1> DEFINE s == proc[p]
<1>1. s \in Process /\ LoadInv(s, Own(s))
  BY ProcessIs
<1>2. s.step = "start" /\ Loads(s) /\ UNCHANGED <<cache, section>>
  BY DEF Load
<1>3. CASE s.held # NoIdl /\ Becomes(p, [s EXCEPT !.step = "use", !.idl = s.held, !.hit = TRUE])
  <2> DEFINE t == [s EXCEPT !.step = "use", !.idl = s.held, !.hit = TRUE]
  <2>1. s.job.kind = "session" /\ s.held \in Idl
    BY <1>1, <1>3, ProcessFields DEF LoadInv, HeldInv
  <2>2. t \in Process /\ t.step = "use" /\ t.job = s.job /\ t.hit = TRUE
    BY <1>1, <2>1 DEF Process, Steps
  <2>3. Becomes(p, t)
    BY <1>3
  <2> HIDE DEF t
  <2>4. LoadInv(t, Own(t))
    BY <1>2, <2>1, <2>2 DEF LoadInv, Holds, HeldInv, Loads, Loaders
  <2> QED
    BY <1>2, <2>2, <2>3, <2>4, QuietStep
<1>4. CASE s.held = NoIdl /\ s.job.file.state = "none" /\ Goes(p, "codeId")
  <2> DEFINE t == [s EXCEPT !.step = "codeId"]
  <2>0. "codeId" \in Steps
    BY DEF Steps
  <2>1. t \in Process /\ t.step = "codeId" /\ t.job = s.job /\ t.held = s.held
    BY <1>1, <2>0, GoesIs
  <2>2. Becomes(p, t)
    BY <1>4 DEF Goes
  <2> HIDE DEF t
  <2>3. LoadInv(t, Own(t))
    BY <1>2, <1>4, <2>1 DEF LoadInv, Holds, HeldInv, Loads
  <2> QED
    BY <1>2, <2>1, <2>2, <2>3, QuietStep
<1>5. CASE s.held = NoIdl /\ s.job.file.state = "text" /\ Becomes(p, [s EXCEPT !.step = "use", !.idl = s.job.file.idl])
  <2> DEFINE t == [s EXCEPT !.step = "use", !.idl = s.job.file.idl]
  <2>1. s.job.file.idl \in Idl
    BY <1>1, ProcessFields
  <2>2. t \in Process /\ t.step = "use" /\ t.job = s.job /\ t.held = s.held
    BY <1>1, <2>1 DEF Process, Steps
  <2>3. Becomes(p, t)
    BY <1>5
  <2> HIDE DEF t
  <2>4. LoadInv(t, Own(t))
    BY <1>2, <1>5, <2>2 DEF LoadInv, Holds, HeldInv, Loads
  <2> QED
    BY <1>2, <2>2, <2>3, <2>4, QuietStep
<1>6. CASE s.held = NoIdl /\ s.job.file.state = "unreadable" /\ Becomes(p, Failed(s, "IDL_FILE_ERROR"))
  <2> DEFINE t == Failed(s, "IDL_FILE_ERROR")
  <2>0. "IDL_FILE_ERROR" \in Results
    BY DEF Results
  <2>1. t \in Process /\ t.step = "done" /\ t.job = s.job /\ t.held = s.held
    BY <1>1, <2>0, FailedIs
  <2>2. Becomes(p, t)
    BY <1>6
  <2> HIDE DEF t
  <2>3. LoadInv(t, Own(t))
    BY <1>6, <2>1 DEF LoadInv, Holds, HeldInv, Ends
  <2> QED
    BY <1>2, <2>1, <2>2, <2>3, QuietStep
<1>7. \/ s.held # NoIdl
      \/ s.held = NoIdl /\ s.job.file.state = "none"
      \/ s.held = NoIdl /\ s.job.file.state = "text"
      \/ s.held = NoIdl /\ s.job.file.state = "unreadable"
  BY <1>1, ProcessFields
<1> QED
  BY <1>3, <1>4, <1>5, <1>6, <1>7 DEF Load

LEMMA CodeIdKeeps ==
  ASSUME IInv, NEW p \in Processes, CodeId(p)
  PROVE  IInv'
<1> DEFINE s == proc[p]
           step == IF Loads(s) THEN "read" ELSE "seed"
           t == [s EXCEPT !.step = step]
<1>1. s \in Process /\ LoadInv(s, Own(s))
  BY ProcessIs
<1>2. s.step = "codeId" /\ UNCHANGED <<cache, section>> /\ Becomes(p, t)
  BY DEF CodeId, Goes
<1>3. step \in Steps /\ (Loads(s) => step = "read") /\ (~Loads(s) => step = "seed")
  BY DEF Steps
<1> HIDE DEF step
<1>4. t \in Process /\ t.step = step /\ t.job = s.job /\ t.held = s.held
  BY <1>1, <1>3, GoesIs
<1> HIDE DEF t
<1>5. LoadInv(t, Own(t))
  BY <1>1, <1>2, <1>3, <1>4 DEF LoadInv, Holds, HeldInv, Loads
<1> QED
  BY <1>2, <1>4, <1>5, QuietStep

\* Without the code, Vara.eth has no IDL, and the others have their bundled ones.
LEMMA WithoutCodeIs ==
  ASSUME NEW s \in Process, NEW own, HeldInv(s), Loads(s), s.job.file.state = "none"
  PROVE  LET t == [WithoutCode(s) EXCEPT !.fault = TRUE] IN
         t \in Process /\ LoadInv(t, own) /\ t.job = s.job
<1> DEFINE c == WithoutCode(s)
           t == [c EXCEPT !.fault = TRUE]
<1>1. /\ c \in Process /\ c.job = s.job /\ c.held = s.held
      /\ \/ OnVaraEth(s) /\ c.step = "done"
         \/ ~OnVaraEth(s) /\ c.step = "bundled"
  <2>1. CASE OnVaraEth(s)
    <3>1. PICK result \in Results : c = Ended(s, result)
      BY <2>1 DEF WithoutCode, Results
    <3> QED
      BY <2>1, <3>1, EndedIs
  <2>2. CASE ~OnVaraEth(s)
    <3>1. c = [s EXCEPT !.step = "bundled"] /\ "bundled" \in Steps
      BY <2>2 DEF WithoutCode, Steps
    <3>2. c \in Process /\ c.job = s.job /\ c.held = s.held /\ c.step = "bundled"
      BY <3>1, GoesIs
    <3> QED
      BY <2>2, <3>2
  <2> QED
    BY <2>1, <2>2
<1> HIDE DEF c
<1>2. t \in Process /\ t.job = s.job /\ t.held = s.held /\ t.step = c.step /\ t.fault = TRUE
  BY <1>1 DEF Process
<1> HIDE DEF t
<1>3. OnVaraEth(s) => s.job.kind # "standard"
  BY DEF OnVaraEth
<1>4. LoadInv(t, own)
  BY <1>1, <1>2, <1>3 DEF LoadInv, Holds, HeldInv, Ends, Loads, OnVaraEth
<1> QED
  BY <1>2, <1>4 DEF t, c

LEMMA CodeIdFailsKeeps ==
  ASSUME IInv, NEW p \in Processes, CodeIdFails(p)
  PROVE  IInv'
<1> DEFINE s == proc[p]
<1>1. s \in Process /\ LoadInv(s, Own(s))
  BY ProcessIs
<1>2. s.step = "codeId" /\ UNCHANGED <<cache, section>>
  BY DEF CodeIdFails
<1>3. CASE Loads(s)
  <2> DEFINE t == [WithoutCode(s) EXCEPT !.fault = TRUE]
  <2>1. Becomes(p, t)
    BY <1>3 DEF CodeIdFails
  <2>2. HeldInv(s) /\ s.job.file.state = "none"
    BY <1>1, <1>2, <1>3 DEF LoadInv, Holds
  <2>3. t \in Process /\ LoadInv(t, Own(s)) /\ t.job = s.job
    BY <1>1, <1>3, <2>2, WithoutCodeIs
  <2> HIDE DEF t
  <2>4. LoadInv(t, Own(t))
    BY <2>3 DEF Own
  <2> QED
    BY <1>2, <2>1, <2>3, <2>4, QuietStep
<1>4. CASE ~Loads(s)
  <2> DEFINE t == Failed(s, "TRANSPORT_ERROR")
  <2>0. "TRANSPORT_ERROR" \in Results
    BY DEF Results
  <2>1. t \in Process /\ t.step = "done" /\ t.job = s.job /\ t.held = s.held
    BY <1>1, <2>0, FailedIs
  <2>2. Becomes(p, t)
    BY <1>4 DEF CodeIdFails
  <2> HIDE DEF t
  <2>3. LoadInv(t, Own(t))
    BY <1>1, <1>4, <2>1 DEF LoadInv, Holds, HeldInv, Ends, Loads
  <2> QED
    BY <1>2, <2>1, <2>2, <2>3, QuietStep
<1> QED
  BY <1>3, <1>4

\* What a process reads is what the cache holds; an entry from the chain is the code's own.
LEMMA ReadIs ==
  ASSUME IInv, NEW code \in Codes
  PROVE  LET entry == ReadCachedIdl(cache, code) IN
         /\ entry \in Entry /\ entry.state \in {"absent", "present"}
         /\ ChainEntry(entry, section[code])
<1>1. cache[code] \in Entry /\ ChainEntry(cache[code], section[code])
  BY DEF IInv, TypeOK, CacheInv
<1>2. Absent \in Entry /\ Absent.state = "absent"
  BY Entries DEF Absent
<1> QED
  BY <1>1, <1>2, EntryFields DEF ReadCachedIdl, ChainEntry

LEMMA ReadCacheKeeps ==
  ASSUME IInv, NEW p \in Processes, ReadCache(p)
  PROVE  IInv'
<1> DEFINE s == proc[p]
           entry == ReadCachedIdl(cache, s.job.code)
<1>1. s \in Process /\ LoadInv(s, Own(s)) /\ s.job.code \in Codes
  BY ProcessIs, ProcessFields
<1>2. s.step = "read" /\ UNCHANGED <<cache, section>>
  BY DEF ReadCache
<1>3. Loads(s) /\ s.job.file.state = "none" /\ HeldInv(s)
  BY <1>1, <1>2 DEF LoadInv, Holds
<1>4. /\ entry \in Entry /\ entry.state \in {"absent", "present"} /\ ChainEntry(entry, Own(s))
      /\ entry.idl \in Idl /\ NoIdl \in Idl /\ (entry.state = "absent" => entry = Absent)
      /\ entry.source \in {"chain", "import"}
  BY <1>1, ReadIs, EntryFields, Entries DEF Own
<1>5. \E next \in {"chain", "use", "evict"}, idl \in Idl :
        /\ Becomes(p, [s EXCEPT !.step = next, !.seen = entry, !.idl = idl])
        /\ next = "chain" => entry.state = "absent"
        /\ next = "use" => entry.state = "present" /\ Accepts(s, entry.idl) /\ idl = entry.idl
        /\ next = "evict" => ~Accepts(s, entry.idl)
  <2>1. CASE entry.state = "absent"
    BY <2>1, <1>4 DEF ReadCache
  <2>2. CASE entry.state = "present" /\ Accepts(s, entry.idl)
    BY <2>2, <1>4 DEF ReadCache
  <2>3. CASE entry.state = "present" /\ ~Accepts(s, entry.idl)
    BY <2>3, <1>4 DEF ReadCache
  <2> QED
    BY <1>4, <2>1, <2>2, <2>3
<1> HIDE DEF entry
<1>6. PICK next \in {"chain", "use", "evict"}, idl \in Idl :
        /\ Becomes(p, [s EXCEPT !.step = next, !.seen = entry, !.idl = idl])
        /\ next = "chain" => entry.state = "absent"
        /\ next = "use" => entry.state = "present" /\ Accepts(s, entry.idl) /\ idl = entry.idl
        /\ next = "evict" => ~Accepts(s, entry.idl)
  BY <1>5
<1> DEFINE t == [s EXCEPT !.step = next, !.seen = entry, !.idl = idl]
<1>7. /\ t \in Process /\ t.step = next /\ t.seen = entry /\ t.idl = idl /\ t.job = s.job
      /\ t.held = s.held /\ t.todo = s.todo
  BY <1>1, <1>4 DEF Process, Steps
<1>8. Becomes(p, t)
  BY <1>6
<1> HIDE DEF t
<1>9. \A i \in Idl : Accepts(t, i) <=> Accepts(s, i)
  BY <1>7 DEF Accepts, OnVaraEth, Wanted
<1>10. LoadInv(t, Own(t))
  <2>1. HeldInv(t) /\ Loads(t) /\ t.job.file.state = "none" /\ Own(t) = Own(s)
    BY <1>3, <1>7 DEF HeldInv, Loads, Own
  <2>2. CASE next = "chain"
    BY <1>4, <1>6, <1>7, <2>1, <2>2 DEF LoadInv, Holds
  <2>3. CASE next = "evict"
    BY <1>4, <1>6, <1>7, <1>9, <2>1, <2>3 DEF LoadInv, Holds
  <2>4. CASE next = "use"
    BY <1>4, <1>6, <1>7, <1>9, <2>1, <2>4 DEF LoadInv, Holds, ChainEntry, Imported
  <2> QED
    BY <2>2, <2>3, <2>4
<1> QED
  BY <1>2, <1>7, <1>8, <1>10, QuietStep

LEMMA EvictKeeps ==
  ASSUME IInv, NEW p \in Processes, Evict(p)
  PROVE  IInv'
<1> DEFINE s == proc[p]
           t == [s EXCEPT !.step = "chain"]
<1>1. s \in Process /\ LoadInv(s, Own(s)) /\ s.job.code \in Codes
  BY ProcessIs, ProcessFields
<1>2. s.step = "evict" /\ section' = section /\ Becomes(p, t)
  BY DEF Evict, Goes
<1>3. cache' = cache \/ cache' = EvictCachedIdl(cache, s.job.code)
  BY DEF Evict
<1>4. /\ t \in Process /\ t.step = "chain" /\ t.seen = s.seen /\ t.job = s.job
      /\ t.held = s.held /\ t.todo = s.todo
  <2>1. "chain" \in Steps
    BY DEF Steps
  <2> QED
    BY <1>1, <2>1, GoesIs
<1> HIDE DEF t
<1>5. Accepts(t, t.seen.idl) <=> Accepts(s, s.seen.idl)
  BY <1>4 DEF Accepts, OnVaraEth, Wanted
<1>6. LoadInv(t, Own(t))
  BY <1>1, <1>2, <1>4, <1>5 DEF LoadInv, Holds, HeldInv, Loads
<1>7. CASE cache' = cache
  BY <1>2, <1>4, <1>6, <1>7, QuietStep
<1>8. CASE cache' = EvictCachedIdl(cache, s.job.code)
  <2>1. cache' \in [Codes -> Entry] /\ CacheInv'
    BY <1>1, <1>2, <1>8, EvictStep
  <2> QED
    BY <1>2, <1>4, <1>6, <2>1, Step
<1> QED
  BY <1>3, <1>7, <1>8

\* The command ends here without an IDL, though the node did not fail it.
LEMMA WithoutSectionIs ==
  ASSUME NEW s \in Process, section \in Sections, s.job.code \in Codes, HeldInv(s), Loads(s),
         s.job.file.state = "none", Own(s).state # "idl" \/ ~Usable(s, Own(s).idl)
  PROVE  LET t == WithoutSection(s) IN
         t \in Process /\ LoadInv(t, Own(s)) /\ t.job = s.job
<1> DEFINE t == WithoutSection(s)
<1>1. CASE ~OnVaraEth(s)
  <2>1. t = [s EXCEPT !.step = "bundled"] /\ "bundled" \in Steps
    BY <1>1 DEF WithoutSection, Steps
  <2> HIDE DEF t
  <2>2. t \in Process /\ t.job = s.job /\ t.held = s.held /\ t.step = "bundled" /\ t.todo = s.todo
    BY <2>1, GoesIs
  <2>3. LoadInv(t, Own(s))
    BY <1>1, <2>2 DEF LoadInv, Holds, HeldInv, Loads, OnVaraEth, Usable, Wanted
  <2> QED
    BY <2>2, <2>3 DEF t
<1>2. CASE OnVaraEth(s)
  <2>1. PICK result \in {"IDL_NOT_FOUND", "IDL_PARSE_ERROR", "METHOD_NOT_FOUND"} : t = Ended(s, result)
    BY <1>2 DEF WithoutSection, Own
  <2>2. result \in Results
    BY DEF Results
  <2> HIDE DEF t
  <2>3. t \in Process /\ t.job = s.job /\ t.held = s.held /\ t.step = "done" /\ t.todo = s.todo
    BY <2>1, <2>2, EndedIs
  <2>4. s.job.kind # "standard"
    BY <1>2 DEF OnVaraEth
  <2>5. LoadInv(t, Own(s))
    BY <2>3, <2>4 DEF LoadInv, Holds, HeldInv, Ends, Usable, Wanted
  <2> QED
    BY <2>3, <2>5 DEF t
<1> QED
  BY <1>1, <1>2

\* What a loader accepts, of a source that cannot be wrong, and what it can use.
LEMMA AcceptsUsable ==
  ASSUME NEW s, Loads(s), NEW idl, ~Accepts(s, idl)
  PROVE  ~Usable(s, idl)
  BY DEF Accepts, Usable, Loads, Loaders, OnVaraEth

LEMMA AcceptsStandard ==
  ASSUME NEW s, s.job.kind = "standard", NEW idl
  PROVE  Accepts(s, idl) <=> ValidateIdlAgainst(idl, Wanted(s))
  BY DEF Accepts, ValidateIdlAgainst, OnVaraEth

LEMMA ExtractFromChainKeeps ==
  ASSUME IInv, NEW p \in Processes, ExtractFromChain(p)
  PROVE  IInv'
<1> DEFINE s == proc[p]
           found == section[s.job.code]
<1>1. s \in Process /\ LoadInv(s, Own(s)) /\ s.job.code \in Codes /\ section \in Sections
  BY ProcessIs, ProcessFields
<1>2. s.step = "chain" /\ UNCHANGED <<cache, section>>
  BY DEF ExtractFromChain
<1>3. Loads(s) /\ s.job.file.state = "none" /\ HeldInv(s) /\ (s.seen = Absent \/ ~Accepts(s, s.seen.idl))
  BY <1>1, <1>2 DEF LoadInv, Holds
<1>4. found \in Section /\ found.idl \in Idl /\ found = Own(s)
  BY <1>1, OwnFields, IdlResolutionAssumption DEF Own
<1> HIDE DEF found
<1>5. CASE found.state = "malformed" /\ Becomes(p, Ended(s, "IDL_PARSE_ERROR"))
  <2> DEFINE t == Ended(s, "IDL_PARSE_ERROR")
  <2>1. "IDL_PARSE_ERROR" \in Results
    BY DEF Results
  <2>2. /\ t \in Process /\ t.step = "done" /\ t.job = s.job /\ t.held = s.held
        /\ s.job.kind # "watch" => t.result = "IDL_PARSE_ERROR"
    BY <1>1, <2>1, EndedIs
  <2>3. Becomes(p, t)
    BY <1>5
  <2> HIDE DEF t
  <2>4. Own(t).state = "malformed"
    BY <1>4, <1>5, <2>2 DEF Own
  <2>5. LoadInv(t, Own(t))
    BY <1>3, <2>2, <2>4 DEF LoadInv, Holds, HeldInv, Ends
  <2> QED
    BY <1>2, <2>2, <2>3, <2>5, QuietStep
<1>6. CASE /\ found.state = "idl" /\ Accepts(s, found.idl)
           /\ Becomes(p, [s EXCEPT !.step = "write", !.idl = found.idl])
  <2> DEFINE t == [s EXCEPT !.step = "write", !.idl = found.idl]
  <2>1. /\ t \in Process /\ t.step = "write" /\ t.idl = found.idl /\ t.job = s.job /\ t.held = s.held
        /\ t.seen = s.seen /\ t.todo = s.todo
    BY <1>1, <1>4 DEF Process, Steps
  <2>2. Becomes(p, t)
    BY <1>6
  <2> HIDE DEF t
  <2>3. /\ Accepts(t, t.idl) <=> Accepts(s, found.idl)
        /\ Accepts(t, t.seen.idl) <=> Accepts(s, s.seen.idl)
        /\ Own(t) = found
    BY <1>4, <2>1 DEF Accepts, OnVaraEth, Wanted, Own
  <2>4. LoadInv(t, Own(t))
    BY <1>3, <1>6, <2>1, <2>3 DEF LoadInv, Holds, HeldInv, Loads
  <2> QED
    BY <1>2, <2>1, <2>2, <2>4, QuietStep
<1>7. CASE /\ found.state # "idl" \/ ~Accepts(s, found.idl)
           /\ Becomes(p, WithoutSection(s))
  <2> DEFINE t == WithoutSection(s)
  <2>1. Own(s).state # "idl" \/ ~Usable(s, Own(s).idl)
    BY <1>3, <1>4, <1>7, AcceptsUsable
  <2>2. t \in Process /\ LoadInv(t, Own(s)) /\ t.job = s.job
    BY <1>1, <1>3, <2>1, WithoutSectionIs
  <2>3. Becomes(p, t)
    BY <1>7
  <2> HIDE DEF t
  <2>4. LoadInv(t, Own(t))
    BY <2>2 DEF Own
  <2> QED
    BY <1>2, <2>2, <2>3, <2>4, QuietStep
<1>8. \/ found.state = "malformed" /\ Becomes(p, Ended(s, "IDL_PARSE_ERROR"))
      \/ /\ found.state = "idl" /\ Accepts(s, found.idl)
         /\ Becomes(p, [s EXCEPT !.step = "write", !.idl = found.idl])
      \/ /\ found.state # "idl" \/ ~Accepts(s, found.idl)
         /\ Becomes(p, WithoutSection(s))
  BY DEF ExtractFromChain, found
<1> QED
  BY <1>5, <1>6, <1>7, <1>8

LEMMA ExtractFailsKeeps ==
  ASSUME IInv, NEW p \in Processes, ExtractFails(p)
  PROVE  IInv'
<1> DEFINE s == proc[p]
           t == [WithoutCode(s) EXCEPT !.fault = TRUE]
<1>1. s \in Process /\ LoadInv(s, Own(s))
  BY ProcessIs
<1>2. s.step = "chain" /\ UNCHANGED <<cache, section>> /\ Becomes(p, t)
  BY DEF ExtractFails
<1>3. HeldInv(s) /\ Loads(s) /\ s.job.file.state = "none"
  BY <1>1, <1>2 DEF LoadInv, Holds
<1>4. t \in Process /\ LoadInv(t, Own(s)) /\ t.job = s.job
  BY <1>1, <1>3, WithoutCodeIs
<1> HIDE DEF t
<1>5. LoadInv(t, Own(t))
  BY <1>4 DEF Own
<1> QED
  BY <1>2, <1>4, <1>5, QuietStep

LEMMA CacheSectionKeeps ==
  ASSUME IInv, NEW p \in Processes, CacheSection(p)
  PROVE  IInv'
<1> DEFINE s == proc[p]
           t == [s EXCEPT !.step = "use"]
           entry == Cached(s.idl, "chain")
<1>1. s \in Process /\ LoadInv(s, Own(s)) /\ s.job.code \in Codes /\ s.idl \in Idl
  BY ProcessIs, ProcessFields
<1>2. s.step = "write" /\ section' = section /\ Becomes(p, t) /\ cache' = [cache EXCEPT ![s.job.code] = entry]
  BY DEF CacheSection, Goes, WriteCachedIdl
<1>3. /\ Loads(s) /\ s.job.file.state = "none" /\ HeldInv(s)
      /\ Own(s).state = "idl" /\ s.idl = Own(s).idl /\ Accepts(s, s.idl)
  BY <1>1, <1>2 DEF LoadInv, Holds
<1>4. entry \in Entry /\ ChainEntry(entry, section[s.job.code])
  BY <1>1, <1>3, Entries DEF ChainEntry, Own
<1> HIDE DEF entry
<1>5. cache' \in [Codes -> Entry] /\ CacheInv'
  BY <1>1, <1>2, <1>4, CacheStep
<1>6. "use" \in Steps
  BY DEF Steps
<1>7. /\ t \in Process /\ t.step = "use" /\ t.seen = s.seen /\ t.job = s.job /\ t.idl = s.idl
      /\ t.held = s.held /\ t.todo = s.todo
  BY <1>1, <1>6, GoesIs
<1> HIDE DEF t
<1>8. (Accepts(t, t.idl) <=> Accepts(s, s.idl)) /\ Own(t) = Own(s)
  BY <1>7 DEF Accepts, OnVaraEth, Wanted, Own
<1>9. LoadInv(t, Own(t))
  BY <1>3, <1>7, <1>8 DEF LoadInv, Holds, HeldInv, Loads
<1> QED
  BY <1>2, <1>5, <1>7, <1>9, Step

\* An end by an error that is nobody's fault but the file's.
LEMMA FailedKeeps ==
  ASSUME NEW s \in Process, NEW own, NEW result \in Results, HeldInv(s),
         Loads(s) /\ s.job.kind = "standard" => result = "IO_ERROR"
  PROVE  LoadInv(Failed(s, result), own)
<1> DEFINE t == Failed(s, result)
<1>1. /\ t \in Process /\ t.step = "done" /\ t.job = s.job /\ t.held = s.held /\ t.fault = TRUE
      /\ s.job.kind # "watch" => t.result = result
  BY FailedIs
<1> HIDE DEF t
<1>2. LoadInv(t, own)
  BY <1>1 DEF LoadInv, Holds, HeldInv, Ends, Loads
<1> QED
  BY <1>2 DEF t

LEMMA WriteFailsKeeps ==
  ASSUME IInv, NEW p \in Processes, WriteFails(p)
  PROVE  IInv'
<1> DEFINE s == proc[p]
           t == Failed(s, "IO_ERROR")
<1>1. s \in Process /\ LoadInv(s, Own(s)) /\ "IO_ERROR" \in Results
  BY ProcessIs DEF Results
<1>2. UNCHANGED <<cache, section>> /\ Becomes(p, t)
  BY DEF WriteFails
<1>3. t \in Process /\ LoadInv(t, Own(t))
  BY <1>1, FailedIs, FailedKeeps DEF LoadInv
<1> HIDE DEF t
<1> QED
  BY <1>2, <1>3, QuietStep

LEMMA BundledKeeps ==
  ASSUME IInv, NEW p \in Processes, Bundled(p)
  PROVE  IInv'
<1> DEFINE s == proc[p]
           fitting == {idl \in s.job.bundled : ValidateIdlAgainst(idl, Wanted(s))}
<1>1. s \in Process /\ LoadInv(s, Own(s)) /\ s.job.bundled \subseteq Idl
  BY ProcessIs, ProcessFields
<1>2. s.step = "bundled" /\ UNCHANGED <<cache, section>>
  BY DEF Bundled
<1>3. /\ Loads(s) /\ s.job.file.state = "none" /\ HeldInv(s)
      /\ s.fault \/ Own(s).state # "idl" \/ ~Usable(s, Own(s).idl)
  BY <1>1, <1>2 DEF LoadInv, Holds
<1>4. ASSUME s.job.kind = "standard", NEW idl \in fitting, Becomes(p, [s EXCEPT !.step = "use", !.idl = idl])
      PROVE  IInv'
  <2> DEFINE t == [s EXCEPT !.step = "use", !.idl = idl]
  <2>1. idl \in Idl /\ ValidateIdlAgainst(idl, Wanted(s))
    BY <1>1, <1>4
  <2>2. /\ t \in Process /\ t.step = "use" /\ t.job = s.job /\ t.idl = idl
        /\ t.held = s.held /\ t.todo = s.todo
    BY <1>1, <2>1 DEF Process, Steps
  <2>3. Becomes(p, t)
    BY <1>4
  <2> HIDE DEF t
  <2> HIDE DEF s
  <2>0. t.job.kind = "standard"
    BY <1>4, <2>2
  <2>4. Accepts(t, t.idl)
    BY <2>0, <2>1, <2>2, AcceptsStandard DEF Wanted
  <2>5. LoadInv(t, Own(t))
    BY <1>3, <1>4, <2>2, <2>4 DEF LoadInv, Holds, HeldInv, Loads
  <2> QED
    BY <1>2, <2>2, <2>3, <2>5, QuietStep
<1>5. ASSUME ~(s.job.kind = "standard" /\ fitting # {}), Becomes(p, Ended(s, "IDL_NOT_FOUND"))
      PROVE  IInv'
  <2> DEFINE t == Ended(s, "IDL_NOT_FOUND")
  <2>1. "IDL_NOT_FOUND" \in Results
    BY DEF Results
  <2>2. /\ t \in Process /\ t.step = "done" /\ t.job = s.job /\ t.held = s.held /\ t.todo = s.todo
        /\ t.fault = s.fault
    BY <1>1, <2>1, EndedIs
  <2>3. Becomes(p, t)
    BY <1>5
  <2> HIDE DEF t
  <2>4. s.job.kind = "standard" => ~\E idl \in s.job.bundled : Usable(s, idl)
    BY <1>5 DEF Usable
  <2>5. (\A idl : Usable(t, idl) <=> Usable(s, idl)) /\ Own(t) = Own(s)
    BY <2>2 DEF Usable, Wanted, Own
  <2>6. Ends(t, Own(t))
    BY <1>3, <2>2, <2>4, <2>5 DEF Ends
  <2>7. LoadInv(t, Own(t))
    BY <1>3, <2>2, <2>6 DEF LoadInv, Holds, HeldInv
  <2> QED
    BY <1>2, <2>2, <2>3, <2>7, QuietStep
<1> QED
  BY <1>4, <1>5 DEF Bundled

LEMMA UseKeeps ==
  ASSUME IInv, NEW p \in Processes, Use(p)
  PROVE  IInv'
<1> DEFINE own == Own(proc[p])
           keeps == proc[p].job.kind = "session" /\ ParsesAuto(proc[p].idl)
           s == IF keeps THEN [proc[p] EXCEPT !.held = proc[p].idl] ELSE proc[p]
           result == CASE ~Parsed(s) -> "IDL_PARSE_ERROR"
                       [] Parsed(s) /\ Declares(s.idl, Wanted(s)) -> "served"
                       [] Parsed(s) /\ ~Declares(s.idl, Wanted(s)) -> "METHOD_NOT_FOUND"
           t == Ended(s, result)
<1>1. proc[p] \in Process /\ LoadInv(proc[p], own) /\ proc[p].idl \in Idl
  BY ProcessIs, ProcessFields
<1>2. s.step = "use" /\ UNCHANGED <<cache, section>> /\ Becomes(p, t)
  BY DEF Use
<1>3. /\ s \in Process /\ s.step = proc[p].step /\ s.job = proc[p].job /\ s.idl = proc[p].idl
      /\ s.todo = proc[p].todo /\ s.seen = proc[p].seen /\ s.hit = proc[p].hit /\ s.fault = proc[p].fault
      /\ HeldInv(s)
  <2>1. CASE keeps
    <3>1. s = [proc[p] EXCEPT !.held = proc[p].idl]
      BY <2>1
    <3> QED
      BY <1>1, <2>1, <3>1 DEF Process, HeldInv
  <2>2. CASE ~keeps
    <3>1. s = proc[p]
      BY <2>2
    <3> QED
      BY <1>1, <3>1 DEF LoadInv
  <2> QED
    BY <2>1, <2>2
<1> HIDE DEF s
<1>4. /\ result \in {"IDL_PARSE_ERROR", "served", "METHOD_NOT_FOUND"}
      /\ Parsed(s) /\ Declares(s.idl, Wanted(s)) => result = "served"
  OBVIOUS
<1>5. result \in Results
  BY <1>4 DEF Results
<1> HIDE DEF result
<1>6. Loads(s) /\ (s.job.file.state = "none" =>
                     \/ s.hit /\ s.job.kind # "standard"
                     \/ /\ Accepts(s, s.idl)
                        /\ s.job.kind \in {"generic", "watch"} =>
                             Imported(s) \/ own.state # "idl" \/ s.idl = own.idl)
  <2>1. proc[p].step = "use"
    BY <1>2, <1>3
  <2>2. Holds(proc[p], own)
    BY <1>1 DEF LoadInv
  <2>3. Loads(proc[p]) /\ (proc[p].job.file.state = "none" =>
                     \/ proc[p].hit /\ proc[p].job.kind # "standard"
                     \/ /\ Accepts(proc[p], proc[p].idl)
                        /\ proc[p].job.kind \in {"generic", "watch"} =>
                             Imported(proc[p]) \/ own.state # "idl" \/ proc[p].idl = own.idl)
    BY <2>1, <2>2 DEF Holds
  <2>4. (Accepts(proc[p], proc[p].idl) <=> Accepts(s, s.idl)) /\ (Imported(proc[p]) <=> Imported(s))
        /\ (Loads(proc[p]) <=> Loads(s))
    BY <1>3 DEF Accepts, Imported, OnVaraEth, Wanted, Loads
  <2> QED
    BY <1>3, <2>3, <2>4
<1>7. /\ t \in Process /\ t.step = "done" /\ t.job = s.job /\ t.held = s.held /\ t.todo = s.todo
      /\ t.seen = s.seen /\ t.hit = s.hit
      /\ result = "served" => t.result = "served"
  BY <1>3, <1>5, EndedIs
<1> HIDE DEF t
<1>8. ASSUME s.job.file.state = "none", result # "served"
      PROVE  s.job.kind # "standard" /\ (s.hit \/ Imported(s) \/ own.state # "idl" \/ ~Usable(s, own.idl))
  <2> DEFINE k == s.job.kind
  <2>1. (s.hit /\ k # "standard") \/ Accepts(s, s.idl)
    BY <1>6, <1>8
  <2>2. ~(Parsed(s) /\ Declares(s.idl, Wanted(s)))
    BY <1>4, <1>8
  <2>3. CASE k = "standard"
    <3>1. ~Accepts(s, s.idl)
      BY <2>2, <2>3, AcceptsStandard DEF Parsed, ValidateIdlAgainst
    <3> QED
      BY <2>1, <2>3, <3>1
  <2>4. CASE k \in {"eth", "session"}
    <3>1. ~Accepts(s, s.idl)
      BY <2>2, <2>4 DEF Accepts, Parsed, MatchesRequirement, OnVaraEth
    <3> QED
      BY <2>1, <2>4, <3>1
  <2>5. CASE k \in {"generic", "watch"}
    <3>1. ~Usable(s, s.idl)
      BY <2>2, <2>5 DEF Usable, Parsed, MatchesRequirement
    <3> QED
      BY <1>6, <1>8, <2>5, <3>1
  <2> QED
    BY <1>6, <2>3, <2>4, <2>5 DEF Loads, Loaders
<1>9. Ends(t, own)
  <2>1. (\A idl : Usable(t, idl) <=> Usable(s, idl)) /\ (Imported(t) <=> Imported(s))
    BY <1>7 DEF Usable, Wanted, Imported
  <2> QED
    BY <1>7, <1>8, <2>1 DEF Ends
<1>10. LoadInv(t, Own(t))
  BY <1>3, <1>7, <1>9 DEF LoadInv, Holds, HeldInv, Own
<1> QED
  BY <1>2, <1>7, <1>10, QuietStep

LEMMA NextRequestKeeps ==
  ASSUME IInv, NEW p \in Processes, NextRequest(p)
  PROVE  IInv'
<1> DEFINE s == proc[p]
           rest == Tail(s.todo)
           t == [s EXCEPT !.step = "start", !.todo = rest, !.seen = Absent, !.idl = NoIdl,
                          !.hit = FALSE, !.fault = FALSE, !.result = ""]
<1>1. s \in Process /\ LoadInv(s, Own(s)) /\ s.todo \in Seq(Methods \cup {none})
  BY ProcessIs, ProcessFields
<1>2. Loads(s) /\ Len(s.todo) > 1 /\ UNCHANGED <<cache, section>>
  BY DEF NextRequest
<1>3. Becomes(p, t)
  BY DEF NextRequest
<1>4. rest \in Seq(Methods \cup {none})
  <2>1. s.todo # <<>>
    BY <1>1, <1>2
  <2> QED
    BY <1>1, <2>1, HeadTailProperties
<1> HIDE DEF rest
<1>5. Absent \in Entry /\ NoIdl \in Idl /\ "start" \in Steps /\ "" \in Results
  BY Entries DEF Steps, Results
<1>6. t \in Process /\ t.step = "start" /\ t.job = s.job /\ t.held = s.held
  BY <1>1, <1>4, <1>5 DEF Process
<1> HIDE DEF t
<1>7. LoadInv(t, Own(t))
  BY <1>1, <1>6 DEF LoadInv, Holds, HeldInv
<1> QED
  BY <1>2, <1>3, <1>6, <1>7, QuietStep
-----------------------------------------------------------------------------
(* The commands that edit the cache                                        *)

\* What ends without having loaded owes nothing to any IDL.
LEMMA EndsEditing ==
  ASSUME NEW s \in Process, NEW result \in Results, HeldInv(s), ~Loads(s)
  PROVE  Ended(s, result) \in Process /\ LoadInv(Ended(s, result), Own(Ended(s, result)))
<1> DEFINE t == Ended(s, result)
<1>1. t \in Process /\ t.step = "done" /\ t.job = s.job /\ t.held = s.held
  BY EndedIs
<1> HIDE DEF t
<1>2. LoadInv(t, Own(t))
  BY <1>1 DEF LoadInv, Holds, HeldInv, Ends, Loads
<1> QED
  BY <1>1, <1>2 DEF t

LEMMA ImportKeeps ==
  ASSUME IInv, NEW p \in Processes, Import(p)
  PROVE  IInv'
<1> DEFINE s == proc[p]
<1>1. s \in Process /\ LoadInv(s, Own(s)) /\ HeldInv(s)
  BY ProcessIs DEF LoadInv
<1>2. s.job.kind \in {"import", "importByProgram"} /\ UNCHANGED <<cache, section>>
  BY DEF Import
<1>3. ~Loads(s)
  BY <1>2 DEF Loads, Loaders
<1>4. CASE Becomes(p, Failed(s, "IDL_FILE_ERROR"))
  <2> DEFINE t == Failed(s, "IDL_FILE_ERROR")
  <2>1. "IDL_FILE_ERROR" \in Results
    BY DEF Results
  <2>2. t \in Process /\ LoadInv(t, Own(t))
    BY <1>1, <1>3, <2>1, FailedIs, FailedKeeps
  <2>3. Becomes(p, t)
    BY <1>4
  <2> HIDE DEF t
  <2> QED
    BY <1>2, <2>2, <2>3, QuietStep
<1>5. ASSUME NEW step \in {"seed", "codeId"}, step = "codeId" => s.job.kind = "importByProgram", Goes(p, step)
      PROVE  IInv'
  <2> DEFINE t == [s EXCEPT !.step = step]
  <2>1. step \in Steps
    BY DEF Steps
  <2>2. t \in Process /\ t.step = step /\ t.job = s.job /\ t.held = s.held
    BY <1>1, <2>1, GoesIs
  <2>3. Becomes(p, t)
    BY <1>5 DEF Goes
  <2> HIDE DEF t
  <2>4. LoadInv(t, Own(t))
    BY <1>1, <1>2, <1>3, <1>5, <2>2 DEF LoadInv, Holds, HeldInv, Loads
  <2> QED
    BY <1>2, <2>2, <2>3, <2>4, QuietStep
<1>6. \/ Becomes(p, Failed(s, "IDL_FILE_ERROR"))
      \/ Goes(p, "seed")
      \/ s.job.kind = "importByProgram" /\ Goes(p, "codeId")
  BY <1>2 DEF Import
<1> QED
  BY <1>4, <1>5, <1>6

LEMMA SeedKeeps ==
  ASSUME IInv, NEW p \in Processes, Seed(p)
  PROVE  IInv'
<1> DEFINE s == proc[p]
           t == Ended(s, "imported")
           entry == Cached(s.job.file.idl, "import")
<1>1. s \in Process /\ LoadInv(s, Own(s)) /\ s.job.code \in Codes /\ s.job.file.idl \in Idl
  BY ProcessIs, ProcessFields
<1>2. s.step = "seed" /\ section' = section /\ Becomes(p, t) /\ cache' = [cache EXCEPT ![s.job.code] = entry]
  BY DEF Seed, WriteCachedIdl
<1>3. HeldInv(s) /\ ~Loads(s)
  BY <1>1, <1>2 DEF LoadInv, Holds, Loads, Loaders
<1>4. entry \in Entry /\ ChainEntry(entry, section[s.job.code])
  BY <1>1, Entries DEF ChainEntry
<1> HIDE DEF entry
<1>5. cache' \in [Codes -> Entry] /\ CacheInv'
  BY <1>1, <1>2, <1>4, CacheStep
<1>6. "imported" \in Results
  BY DEF Results
<1>7. t \in Process /\ LoadInv(t, Own(t))
  BY <1>1, <1>3, <1>6, EndsEditing
<1> HIDE DEF t
<1> QED
  BY <1>2, <1>5, <1>7, Step

LEMMA RemoveKeeps ==
  ASSUME IInv, NEW p \in Processes, Remove(p)
  PROVE  IInv'
<1> DEFINE s == proc[p]
           result == IF cache[s.job.code].state = "absent" THEN "nothing" ELSE "removed"
           t == Ended(s, result)
<1>1. s \in Process /\ LoadInv(s, Own(s)) /\ s.job.code \in Codes /\ HeldInv(s)
  BY ProcessIs, ProcessFields DEF LoadInv
<1>2. /\ s.job.kind = "remove" /\ section' = section /\ Becomes(p, t)
      /\ cache' = EvictCachedIdl(cache, s.job.code)
  BY DEF Remove
<1>3. ~Loads(s) /\ result \in Results
  BY <1>2 DEF Loads, Loaders, Results
<1> HIDE DEF result
<1>4. t \in Process /\ LoadInv(t, Own(t))
  BY <1>1, <1>3, EndsEditing
<1> HIDE DEF t
<1>5. cache' \in [Codes -> Entry] /\ CacheInv'
  BY <1>1, <1>2, EvictStep
<1> QED
  BY <1>2, <1>4, <1>5, Step

LEMMA EnumerateKeeps ==
  ASSUME IInv, NEW p \in Processes, Enumerate(p)
  PROVE  IInv'
<1> DEFINE s == proc[p]
           entries == EnumerateCacheEntries(cache)
<1>1. s \in Process /\ LoadInv(s, Own(s)) /\ HeldInv(s)
  BY ProcessIs DEF LoadInv
<1>2. s.job.kind \in {"list", "preview", "clear"} /\ UNCHANGED <<cache, section>>
  BY DEF Enumerate
<1>3. CASE s.job.kind = "clear"
  <2> DEFINE t == [s EXCEPT !.step = "unlink", !.listed = entries]
  <2>1. entries \subseteq Codes
    BY DEF EnumerateCacheEntries
  <2>2. Becomes(p, t)
    BY <1>3 DEF Enumerate
  <2> HIDE DEF entries
  <2>3. t \in Process /\ t.step = "unlink" /\ t.job = s.job /\ t.held = s.held
    BY <1>1, <2>1 DEF Process, Steps
  <2> HIDE DEF t
  <2>4. LoadInv(t, Own(t))
    BY <1>1, <1>3, <2>3 DEF LoadInv, Holds, HeldInv
  <2> QED
    BY <1>2, <2>2, <2>3, <2>4, QuietStep
<1>4. CASE s.job.kind # "clear"
  <2> DEFINE t == Ended(s, "listed")
  <2>1. Becomes(p, t)
    BY <1>4 DEF Enumerate
  <2>2. ~Loads(s) /\ "listed" \in Results
    BY <1>2 DEF Loads, Loaders, Results
  <2>3. t \in Process /\ LoadInv(t, Own(t))
    BY <1>1, <2>2, EndsEditing
  <2> HIDE DEF t
  <2> QED
    BY <1>2, <2>1, <2>3, QuietStep
<1> QED
  BY <1>3, <1>4

LEMMA ClearOneKeeps ==
  ASSUME IInv, NEW p \in Processes, ClearOne(p)
  PROVE  IInv'
<1> DEFINE s == proc[p]
<1>1. s \in Process /\ LoadInv(s, Own(s)) /\ s.listed \subseteq Codes
  BY ProcessIs, ProcessFields
<1>2. s.step = "unlink" /\ section' = section
  BY DEF ClearOne
<1>3. HeldInv(s) /\ s.job.kind = "clear" /\ ~Loads(s)
  BY <1>1, <1>2 DEF LoadInv, Holds, Loads, Loaders
<1>4. CASE s.listed = {}
  <2> DEFINE t == Ended(s, "removed")
  <2>1. Becomes(p, t) /\ cache' = cache
    BY <1>4 DEF ClearOne
  <2>2. "removed" \in Results
    BY DEF Results
  <2>3. t \in Process /\ LoadInv(t, Own(t))
    BY <1>1, <1>3, <2>2, EndsEditing
  <2> HIDE DEF t
  <2> QED
    BY <1>2, <2>1, <2>3, QuietStep
<1>5. ASSUME NEW code \in s.listed, Becomes(p, [s EXCEPT !.listed = @ \ {code}]),
             cache' = EvictCachedIdl(cache, code)
      PROVE  IInv'
  <2> DEFINE t == [s EXCEPT !.listed = @ \ {code}]
  <2>1. t \in Process /\ t.step = "unlink" /\ t.job = s.job /\ t.held = s.held
    BY <1>1, <1>2 DEF Process
  <2>2. Becomes(p, t)
    BY <1>5
  <2> HIDE DEF t
  <2>3. LoadInv(t, Own(t))
    BY <1>3, <2>1 DEF LoadInv, Holds, HeldInv
  <2>4. cache' \in [Codes -> Entry] /\ CacheInv'
    BY <1>1, <1>2, <1>5, EvictStep
  <2> QED
    BY <1>2, <2>1, <2>2, <2>3, <2>4, Step
<1> QED
  BY <1>4, <1>5 DEF ClearOne
-----------------------------------------------------------------------------
(* The specification                                                       *)

LEMMA InitFits ==
  ASSUME Init
  PROVE  IInv
<1>1. PICK job \in Assignments :
       proc = [p \in Processes |->
                 [job |-> job[p], step |-> "start", todo |-> job[p].wants, seen |-> Absent, idl |-> NoIdl,
                  held |-> NoIdl, hit |-> FALSE, fault |-> FALSE, listed |-> {}, result |-> ""]]
  BY DEF Init
<1>2. cache \in Caches /\ section \in Sections /\ cache \in [Codes -> Entry]
  BY IdlResolutionAssumption DEF Init
<1>3. ASSUME NEW p \in Processes
      PROVE  proc[p] \in Process /\ LoadInv(proc[p], Own(proc[p]))
  <2>1. job[p] \in Job
    BY IdlResolutionAssumption
  <2> DEFINE wants == job[p].wants
             s == [job |-> job[p], step |-> "start", todo |-> wants, seen |-> Absent, idl |-> NoIdl,
                   held |-> NoIdl, hit |-> FALSE, fault |-> FALSE, listed |-> {}, result |-> ""]
  <2>2. proc[p] = s
    BY <1>1
  <2>3. Absent \in Entry /\ NoIdl \in Idl /\ wants \in Seq(Methods \cup {none})
    BY <2>1, Entries DEF Job
  <2> HIDE DEF wants
  <2>4. s \in Process
    BY <2>1, <2>3 DEF Process, Steps, Results
  <2>5. s.step = "start" /\ s.held = NoIdl
    OBVIOUS
  <2> HIDE DEF s
  <2>6. LoadInv(proc[p], Own(proc[p]))
    BY <2>2, <2>5 DEF LoadInv, Holds, HeldInv
  <2> QED
    BY <2>2, <2>4, <2>6
<1>4. proc \in [Processes -> Process]
  BY <1>1, <1>3
<1>5. CacheInv
  BY <1>2, IdlResolutionAssumption DEF CacheInv, ChainEntry
<1> QED
  BY <1>2, <1>3, <1>4, <1>5 DEF IInv, TypeOK

LEMMA NextKeeps ==
  ASSUME IInv, [Next]_vars
  PROVE  IInv'
<1>1. ASSUME NEW p \in Processes,
             \/ Load(p) \/ CodeId(p) \/ CodeIdFails(p) \/ ReadCache(p) \/ Evict(p)
             \/ ExtractFromChain(p) \/ ExtractFails(p) \/ CacheSection(p) \/ WriteFails(p)
             \/ Bundled(p) \/ Use(p) \/ NextRequest(p)
             \/ Import(p) \/ Seed(p) \/ Remove(p) \/ Enumerate(p) \/ ClearOne(p)
      PROVE  IInv'
  BY <1>1, LoadKeeps, CodeIdKeeps, CodeIdFailsKeeps, ReadCacheKeeps, EvictKeeps, ExtractFromChainKeeps,
     ExtractFailsKeeps, CacheSectionKeeps, WriteFailsKeeps, BundledKeeps, UseKeeps, NextRequestKeeps,
     ImportKeeps, SeedKeeps, RemoveKeeps, EnumerateKeeps, ClearOneKeeps
<1>2. CASE UNCHANGED vars
  <2>1. cache' = cache /\ section' = section /\ proc' = proc
    BY <1>2 DEF vars
  <2> QED
    BY <2>1 DEF IInv, TypeOK, CacheInv, Own
<1> QED
  BY <1>1, <1>2 DEF Next

\* The cache holds, beside imports, only what the chain holds; each load's locals agree with it.
THEOREM Invariance == Spec => []IInv
<1>1. Init => IInv
  BY InitFits
<1>2. IInv /\ [Next]_vars => IInv'
  BY NextKeeps
<1> QED
  BY <1>1, <1>2, PTL DEF Spec

\* The cache, the code on chain and every process keep their types.
THEOREM ResolutionTypes == Spec => []TypeOK
<1>1. IInv => TypeOK
  BY DEF IInv
<1> QED
  BY <1>1, Invariance, PTL

\* Whatever is in the cache, and whatever others do to it meanwhile, a load that nothing failed
\* gets the IDL of the code where that serves, and a standard one a bundled IDL that serves.
THEOREM LoadsNeverBlocked == Spec => []NeverBlocked
<1>1. ASSUME IInv
      PROVE  NeverBlocked
  <2>1. ASSUME NEW p \in Processes, proc[p].step = "done"
        PROVE  Ends(proc[p], Own(proc[p]))
    BY <1>1, <2>1, ProcessIs DEF LoadInv, Holds
  <2> QED
    BY <2>1 DEF NeverBlocked, Ends, Own, Imported
<1> QED
  BY <1>1, Invariance, PTL

\* A load with an entry it has not read or cannot use, or an idl command.
MayReplace(s, entry) == Loads(s) => s.seen # entry \/ ~Usable(s, entry.idl)

\* Of the cached entries a step replaces or removes at most one, and the process that does
\* so goes on.
LEMMA Replaces ==
  ASSUME IInv, NEW p \in Processes, NEW code \in Codes, cache[code].source = "import",
         NEW t, Becomes(p, t), t # proc[p], NEW new \in Codes, NEW entry, cache' = [cache EXCEPT ![new] = entry],
         cache[new].source # "import" \/ MayReplace(proc[p], cache[new]),
         cache'[code] # cache[code]
  PROVE  \E q \in Processes : proc'[q] # proc[q] /\ MayReplace(proc[q], cache[code])
<1>1. cache \in [Codes -> Entry] /\ proc \in [Processes -> Process]
  BY DEF IInv, TypeOK
<1>2. new = code
  BY <1>1
<1>3. proc'[p] = t
  BY <1>1 DEF Becomes
<1> QED
  BY <1>2, <1>3

LEMMA AbsentIs == Absent.source = "chain" /\ Absent.state = "absent"
  BY DEF Absent

LEMMA EvictReplaces ==
  ASSUME IInv, NEW p \in Processes, Evict(p), NEW code \in Codes, cache[code].source = "import",
         cache'[code] # cache[code]
  PROVE  \E q \in Processes : proc'[q] # proc[q] /\ MayReplace(proc[q], cache[code])
<1> DEFINE s == proc[p]
           t == [s EXCEPT !.step = "chain"]
<1>1. s \in Process /\ LoadInv(s, Own(s)) /\ s.job.code \in Codes
  BY ProcessIs, ProcessFields
<1>2. s.step = "evict" /\ Becomes(p, t) /\ cache' = [cache EXCEPT ![s.job.code] = Absent]
  BY DEF Evict, Goes, EvictCachedIdl
<1>3. ~Accepts(s, s.seen.idl) /\ Loads(s)
  BY <1>1, <1>2 DEF LoadInv, Holds
<1>4. MayReplace(s, cache[s.job.code])
  BY <1>3, AcceptsUsable DEF MayReplace
<1>5. t.step = "chain"
  BY <1>1 DEF Process
<1>6. t # s
  BY <1>2, <1>5
<1> HIDE DEF t
<1> QED
  BY <1>1, <1>2, <1>4, <1>6, Replaces

LEMMA CacheSectionReplaces ==
  ASSUME IInv, NEW p \in Processes, CacheSection(p), NEW code \in Codes, cache[code].source = "import",
         cache'[code] # cache[code]
  PROVE  \E q \in Processes : proc'[q] # proc[q] /\ MayReplace(proc[q], cache[code])
<1> DEFINE s == proc[p]
           t == [s EXCEPT !.step = "use"]
           entry == Cached(s.idl, "chain")
<1>1. s \in Process /\ LoadInv(s, Own(s)) /\ s.job.code \in Codes
  BY ProcessIs, ProcessFields
<1>2. s.step = "write" /\ Becomes(p, t) /\ cache' = [cache EXCEPT ![s.job.code] = entry]
  BY DEF CacheSection, Goes, WriteCachedIdl
<1>3. (s.seen = Absent \/ ~Accepts(s, s.seen.idl)) /\ Loads(s)
  BY <1>1, <1>2 DEF LoadInv, Holds
<1>4. cache[s.job.code].source # "import" \/ MayReplace(s, cache[s.job.code])
  BY <1>3, AcceptsUsable, AbsentIs DEF MayReplace
<1>5. t.step = "use"
  BY <1>1 DEF Process
<1>6. t # s
  BY <1>2, <1>5
<1> HIDE DEF t, entry
<1> QED
  BY <1>1, <1>2, <1>4, <1>6, Replaces

LEMMA EditReplaces ==
  ASSUME IInv, NEW p \in Processes, Seed(p) \/ Remove(p) \/ ClearOne(p), NEW code \in Codes,
         cache[code].source = "import", cache'[code] # cache[code]
  PROVE  \E q \in Processes : proc'[q] # proc[q] /\ MayReplace(proc[q], cache[code])
<1> DEFINE s == proc[p]
<1>1. s \in Process /\ LoadInv(s, Own(s)) /\ s.job.code \in Codes /\ s.listed \subseteq Codes
  BY ProcessIs, ProcessFields
<1>2. \A entry : MayReplace(s, entry)
  <2>1. CASE Seed(p)
    BY <1>1, <2>1 DEF Seed, LoadInv, Holds, Loads, Loaders, MayReplace
  <2>2. CASE Remove(p)
    BY <2>2 DEF Remove, Loads, Loaders, MayReplace
  <2>3. CASE ClearOne(p)
    BY <1>1, <2>3 DEF ClearOne, LoadInv, Holds, Loads, Loaders, MayReplace
  <2> QED
    BY <2>1, <2>2, <2>3
<1>3. CASE Seed(p)
  <2> DEFINE t == Ended(s, "imported")
  <2> DEFINE entry == Cached(s.job.file.idl, "import")
  <2>1. s.step = "seed" /\ Becomes(p, t) /\ cache' = [cache EXCEPT ![s.job.code] = entry]
    BY <1>3 DEF Seed, WriteCachedIdl
  <2>2. "imported" \in Results
    BY DEF Results
  <2>3. t # s
    BY <1>1, <2>1, <2>2, EndedIs
  <2> HIDE DEF t, entry
  <2>4. MayReplace(s, cache[s.job.code])
    BY <1>2
  <2> QED
    BY <1>1, <2>1, <2>3, <2>4, Replaces
<1>4. CASE Remove(p)
  <2> DEFINE result == IF cache[s.job.code].state = "absent" THEN "nothing" ELSE "removed"
             t == Ended(s, result)
  <2>1. s.step = "start" /\ Becomes(p, t) /\ cache' = [cache EXCEPT ![s.job.code] = Absent]
    BY <1>4 DEF Remove, EvictCachedIdl
  <2>2. result \in Results
    BY DEF Results
  <2> HIDE DEF result
  <2>3. t # s
    BY <1>1, <2>1, <2>2, EndedIs
  <2> HIDE DEF t
  <2>4. MayReplace(s, cache[s.job.code])
    BY <1>2
  <2> QED
    BY <1>1, <2>1, <2>3, <2>4, Replaces
<1>5. CASE ClearOne(p)
  <2>1. s.listed # {}
    BY <1>5 DEF ClearOne
  <2>2. PICK new \in s.listed : /\ Becomes(p, [s EXCEPT !.listed = @ \ {new}])
                                /\ cache' = [cache EXCEPT ![new] = Absent]
    BY <1>5, <2>1 DEF ClearOne, EvictCachedIdl
  <2> DEFINE t == [s EXCEPT !.listed = @ \ {new}]
  <2>3. t.listed = s.listed \ {new}
    BY <1>1 DEF Process
  <2>4. t # s
    BY <2>3
  <2> HIDE DEF t
  <2> QED
    BY <1>1, <1>2, <2>2, <2>4, Replaces DEF t
<1> QED
  BY <1>3, <1>4, <1>5

\* An imported IDL survives every load it serves, whatever else happens to the cache.
THEOREM ImportsSurvive == Spec => ImportKept
<1> DEFINE Kept == \A code \in Codes :
             /\ cache[code].source = "import" /\ cache'[code] # cache[code]
             => \E p \in Processes :
                  /\ proc'[p] # proc[p]
                  /\ Loads(proc[p]) => proc[p].seen # cache[code] \/ ~Usable(proc[p], cache[code].idl)
<1>1. ASSUME IInv, [Next]_vars
      PROVE  [Kept]_vars
  <2> SUFFICES ASSUME NEW code \in Codes, cache[code].source = "import", cache'[code] # cache[code]
               PROVE  \E q \in Processes : proc'[q] # proc[q] /\ MayReplace(proc[q], cache[code])
    BY DEF MayReplace
  <2>1. cache' # cache
    OBVIOUS
  <2>2. PICK p \in Processes : Evict(p) \/ CacheSection(p) \/ Seed(p) \/ Remove(p) \/ ClearOne(p)
    BY <1>1, <2>1 DEF Next, vars, Load, CodeId, CodeIdFails, ReadCache, ExtractFromChain, ExtractFails,
       WriteFails, Bundled, Use, NextRequest, Import, Enumerate
  <2> QED
    BY <1>1, <2>2, EvictReplaces, CacheSectionReplaces, EditReplaces
<1>2. IInv /\ [Next]_vars => [Kept]_vars
  BY <1>1
<1> QED
  BY <1>2, Invariance, PTL DEF Spec, ImportKept
=============================================================================
