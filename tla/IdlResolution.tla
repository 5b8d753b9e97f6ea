--------------------------- MODULE IdlResolution ---------------------------
(***************************************************************************)
(* Where a command takes the IDL of a program from: a local file, the      *)
(* cache, the program's WASM, the bundled IDLs (src/src/services/sails.ts, *)
(* src/src/services/vara-eth/sails-idl.ts), beside the commands that edit  *)
(* the cache (src/src/commands/idl.ts).  Processes share the cache without *)
(* a lock; within a process every await, and between processes every file  *)
(* operation, is a step.                                                   *)
(***************************************************************************)
EXTENDS IdlCache, Sequences

CONSTANTS Processes,
          Assignments, \* which process runs which command line
          Caches,      \* what earlier runs left in the cache
          Sections     \* what the code on chain may embed

\* standard: vft and dex, which bring a validator and bundled IDLs; generic: call,
\* discover, encode and decode; watch: decoding is optional; eth: the Vara.eth commands;
\* session: vara-eth:session, one request after the other.
Loaders == {"standard", "generic", "watch", "eth", "session"}
Kinds == Loaders \cup {"import", "importByProgram", "list", "remove", "preview", "clear"}
File == [state : {"none", "unreadable", "text"}, idl : Idl]
\* wants: the methods requested, one for each request; none asks for no method.
none == "none"
Job == [kind : Kinds, code : Codes, file : File, wants : Seq(Methods \cup {none}), bundled : SUBSET Idl]

Section == [state : {"idl", "no-section", "malformed", "unavailable"}, idl : Idl]

ASSUME IdlResolutionAssumption ==
  /\ none \notin Methods
  /\ Sections \subseteq [Codes -> Section] /\ Caches \subseteq [Codes -> Entry]
  /\ Assignments \subseteq [Processes -> Job]
  /\ \A job \in Assignments, p \in Processes :
       /\ job[p].kind \in Loaders => job[p].wants # <<>>
       /\ job[p].kind \notin {"session"} => Len(job[p].wants) <= 1
  \* A code id is the hash of the code: what was cached from it once is what it embeds.
  /\ \A entries \in Caches, embedded \in Sections, code \in Codes :
       /\ entries[code].state = "present" /\ entries[code].source = "chain"
       /\ embedded[code].state = "idl"
       => entries[code].idl = embedded[code].idl

VARIABLES cache, section, proc
vars == <<cache, section, proc>>

Steps == {"start", "codeId", "read", "evict", "chain", "write", "bundled", "use",
          "seed", "unlink", "done"}
Results == {"", "served", "raw", "IDL_FILE_ERROR", "IDL_NOT_FOUND", "IDL_PARSE_ERROR", "METHOD_NOT_FOUND",
            "TRANSPORT_ERROR", "IO_ERROR", "imported", "nothing", "removed", "listed"}
\* seen: the entry read; idl: the IDL in hand; held: a session's IDL of the program;
\* fault: an RPC, a file read or a cache write failed for the request; hit: served by held;
\* listed: the entries clear still has to unlink.
Process ==
  [job : Job, step : Steps, todo : Seq(Methods \cup {none}), seen : Entry, idl : Idl,
   held : {NoIdl} \cup Idl, hit : BOOLEAN, fault : BOOLEAN, listed : SUBSET Codes, result : Results]

Becomes(p, s) == proc' = [proc EXCEPT ![p] = s]
Goes(p, step) == Becomes(p, [proc[p] EXCEPT !.step = step])
Loads(s) == s.job.kind \in Loaders
OnVaraEth(s) == s.job.kind \in {"eth", "session"}
Wanted(s) == Head(s.todo)

\* The v1 parser alone, or either of the two.
ParsesV1(idl) == "v1" \in idl.parses
ParsesAuto(idl) == idl.parses # {}
Declares(idl, method) == method = none \/ method \in idl.methods

\* validateIdlAgainst and matchesRequirement; a generic load asks nothing of its source.
MatchesRequirement(idl, method) == ParsesAuto(idl) /\ Declares(idl, method)
ValidateIdlAgainst(idl, method) == ParsesV1(idl) /\ Declares(idl, method)
AcceptsAnything(s, idl) == TRUE
AcceptsV1Only(s, idl) == IF s.job.kind \in {"generic", "watch"} THEN TRUE ELSE ValidateIdlAgainst(idl, Wanted(s))
Accepts(s, idl) ==
  CASE s.job.kind = "standard" -> ValidateIdlAgainst(idl, Wanted(s))
    [] OnVaraEth(s) -> MatchesRequirement(idl, Wanted(s))
    [] s.job.kind \in {"generic", "watch"} -> TRUE

\* What has been resolved is parsed: by the v1 parser where a validator was given.
Parsed(s) == IF s.job.kind = "standard" THEN ParsesV1(s.idl) ELSE ParsesAuto(s.idl)

\* What the command can work with once the load has returned.
Usable(s, idl) ==
  IF s.job.kind = "standard" THEN ValidateIdlAgainst(idl, Wanted(s)) ELSE MatchesRequirement(idl, Wanted(s))


\* watch goes on undecoded, unless it was told where the IDL is.
Ended(s, result) ==
  [s EXCEPT !.step = "done",
            !.result = IF s.job.kind = "watch" /\ s.job.file.state = "none" /\ result # "served"
                       THEN "raw" ELSE result]
Failed(s, result) == [Ended(s, result) EXCEPT !.fault = TRUE]
-----------------------------------------------------------------------------
(* One load.  resolveIdl serves standard and generic, loadVaraEthSails eth. *)

\* A local file always wins, and nothing validates it; a session loads a program once.
Load(p) ==
  LET s == proc[p]
  IN  /\ s.step = "start" /\ Loads(s)
      /\ CASE s.held # NoIdl -> Becomes(p, [s EXCEPT !.step = "use", !.idl = s.held, !.hit = TRUE])
           [] s.held = NoIdl /\ s.job.file.state = "none" -> Goes(p, "codeId")
           [] s.held = NoIdl /\ s.job.file.state = "text" ->
                Becomes(p, [s EXCEPT !.step = "use", !.idl = s.job.file.idl])
           [] s.held = NoIdl /\ s.job.file.state = "unreadable" -> Becomes(p, Failed(s, "IDL_FILE_ERROR"))
      /\ UNCHANGED <<cache, section>>

CodeId(p) ==
  /\ proc[p].step = "codeId"
  /\ Goes(p, IF Loads(proc[p]) THEN "read" ELSE "seed")
  /\ UNCHANGED <<cache, section>>

\* Vara.eth has no bundled IDLs; elsewhere only the sources keyed by the code are lost.
WithoutCode(s) == IF OnVaraEth(s) THEN Ended(s, "IDL_NOT_FOUND") ELSE [s EXCEPT !.step = "bundled"]
CodeIdFails(p) ==
  /\ proc[p].step = "codeId"
  /\ Becomes(p, IF Loads(proc[p]) THEN [WithoutCode(proc[p]) EXCEPT !.fault = TRUE]
               ELSE Failed(proc[p], "TRANSPORT_ERROR"))
  /\ UNCHANGED <<cache, section>>

ReadCache(p) ==
  LET s == proc[p]
      entry == ReadCachedIdl(cache, s.job.code)
      next == CASE entry.state = "absent" -> "chain"
                [] entry.state = "present" /\ Accepts(s, entry.idl) -> "use"
                [] entry.state = "present" /\ ~Accepts(s, entry.idl) -> "evict"
  IN  /\ s.step = "read"
      /\ Becomes(p, [s EXCEPT !.step = next, !.seen = entry,
                              !.idl = IF next = "use" THEN entry.idl ELSE NoIdl])
      /\ UNCHANGED <<cache, section>>

\* Whatever entry is there by now goes; an error of unlink is only logged.
Evict(p) ==
  /\ proc[p].step = "evict"
  /\ Goes(p, "chain")
  /\ cache' \in {cache, EvictCachedIdl(cache, proc[p].job.code)}
  /\ UNCHANGED section

\* No IDL in the code, or none that the command accepts.
WithoutSection(s) ==
  IF ~OnVaraEth(s) THEN [s EXCEPT !.step = "bundled"]
  ELSE Ended(s, CASE section[s.job.code].state # "idl" -> "IDL_NOT_FOUND"
                  [] section[s.job.code].state = "idl" /\ ~ParsesAuto(section[s.job.code].idl) -> "IDL_PARSE_ERROR"
                  [] section[s.job.code].state = "idl" /\ ParsesAuto(section[s.job.code].idl) -> "METHOD_NOT_FOUND")

ExtractFromChain(p) ==
  LET s == proc[p]
      found == section[s.job.code]
  IN  /\ s.step = "chain"
      /\ Becomes(p, CASE found.state = "malformed" -> Ended(s, "IDL_PARSE_ERROR")
                      [] found.state = "idl" /\ Accepts(s, found.idl) ->
                           [s EXCEPT !.step = "write", !.idl = found.idl]
                      [] OTHER -> WithoutSection(s))
      /\ UNCHANGED <<cache, section>>

ExtractFails(p) ==
  /\ proc[p].step = "chain"
  /\ Becomes(p, [WithoutCode(proc[p]) EXCEPT !.fault = TRUE])
  /\ UNCHANGED <<cache, section>>

CacheSectionAsLocal(p) ==
  /\ proc[p].step = "write"
  /\ Goes(p, "use")
  /\ cache' = WriteCachedIdl(cache, proc[p].job.code, proc[p].idl, "local")
  /\ UNCHANGED section
CacheSection(p) ==
  /\ proc[p].step = "write"
  /\ Goes(p, "use")
  /\ cache' = WriteCachedIdl(cache, proc[p].job.code, proc[p].idl, "chain")
  /\ UNCHANGED section

\* An IDL in hand that cannot be cached is not used either.
WriteFails(p) ==
  /\ proc[p].step \in {"write", "seed"}
  /\ Becomes(p, Failed(proc[p], "IO_ERROR"))
  /\ UNCHANGED <<cache, section>>

\* The bundled IDLs, in order, for the commands that validate.
Bundled(p) ==
  LET s == proc[p]
      fitting == {idl \in s.job.bundled : ValidateIdlAgainst(idl, Wanted(s))}
  IN  /\ s.step = "bundled"
      /\ IF s.job.kind = "standard" /\ fitting # {}
         THEN \E idl \in fitting : Becomes(p, [s EXCEPT !.step = "use", !.idl = idl])
         ELSE Becomes(p, Ended(s, "IDL_NOT_FOUND"))
      /\ UNCHANGED <<cache, section>>

\* The load returns; the method is looked up in what it returned.
Use(p) ==
  LET s == IF proc[p].job.kind = "session" /\ ParsesAuto(proc[p].idl)
           THEN [proc[p] EXCEPT !.held = proc[p].idl] ELSE proc[p]
  IN  /\ s.step = "use"
      /\ Becomes(p, Ended(s, CASE ~Parsed(s) -> "IDL_PARSE_ERROR"
                               [] Parsed(s) /\ Declares(s.idl, Wanted(s)) -> "served"
                               [] Parsed(s) /\ ~Declares(s.idl, Wanted(s)) -> "METHOD_NOT_FOUND"))
      /\ UNCHANGED <<cache, section>>

\* A session reports every request and takes the next.
NextRequest(p) ==
  LET s == proc[p]
  IN  /\ s.step = "done" /\ Loads(s) /\ Len(s.todo) > 1
      /\ Becomes(p, [s EXCEPT !.step = "start", !.todo = Tail(@), !.seen = Absent, !.idl = NoIdl,
                              !.hit = FALSE, !.fault = FALSE, !.result = ""])
      /\ UNCHANGED <<cache, section>>
-----------------------------------------------------------------------------
(* The commands that edit the cache. *)

\* idl import reads its file first, and with --program asks the node for the code id.
Import(p) ==
  LET s == proc[p]
  IN  /\ s.step = "start" /\ s.job.kind \in {"import", "importByProgram"}
      /\ CASE s.job.file.state # "text" -> Becomes(p, Failed(s, "IDL_FILE_ERROR"))
           [] s.job.file.state = "text" /\ s.job.kind = "import" -> Goes(p, "seed")
           [] s.job.file.state = "text" /\ s.job.kind = "importByProgram" -> Goes(p, "codeId")
      /\ UNCHANGED <<cache, section>>

\* Nothing is parsed: any text is imported.
Seed(p) ==
  /\ proc[p].step = "seed"
  /\ Becomes(p, Ended(proc[p], "imported"))
  /\ cache' = WriteCachedIdl(cache, proc[p].job.code, proc[p].job.file.idl, "import")
  /\ UNCHANGED section

Remove(p) ==
  LET s == proc[p]
  IN  /\ s.step = "start" /\ s.job.kind = "remove"
      /\ Becomes(p, Ended(s, IF cache[s.job.code].state = "absent" THEN "nothing" ELSE "removed"))
      /\ cache' = EvictCachedIdl(cache, s.job.code)
      /\ UNCHANGED section

\* idl list, and idl clear: without --yes it only says what it would remove.
Enumerate(p) ==
  LET s == proc[p]
  IN  /\ s.step = "start" /\ s.job.kind \in {"list", "preview", "clear"}
      /\ Becomes(p, IF s.job.kind = "clear"
                    THEN [s EXCEPT !.step = "unlink", !.listed = EnumerateCacheEntries(cache)]
                    ELSE Ended(s, "listed"))
      /\ UNCHANGED <<cache, section>>

ClearOne(p) ==
  LET s == proc[p]
  IN  /\ s.step = "unlink"
      /\ IF s.listed = {} THEN Becomes(p, Ended(s, "removed")) /\ UNCHANGED cache
         ELSE \E code \in s.listed :
                /\ Becomes(p, [s EXCEPT !.listed = @ \ {code}])
                /\ cache' = EvictCachedIdl(cache, code)
      /\ UNCHANGED section

Init ==
  /\ cache \in Caches /\ section \in Sections
  /\ \E job \in Assignments :
       proc = [p \in Processes |->
                 [job |-> job[p], step |-> "start", todo |-> job[p].wants, seen |-> Absent, idl |-> NoIdl,
                  held |-> NoIdl, hit |-> FALSE, fault |-> FALSE, listed |-> {}, result |-> ""]]

Next ==
  \E p \in Processes :
    \/ Load(p) \/ CodeId(p) \/ CodeIdFails(p) \/ ReadCache(p) \/ Evict(p)
    \/ ExtractFromChain(p) \/ ExtractFails(p) \/ CacheSection(p) \/ WriteFails(p)
    \/ Bundled(p) \/ Use(p) \/ NextRequest(p)
    \/ Import(p) \/ Seed(p) \/ Remove(p) \/ Enumerate(p) \/ ClearOne(p)

Spec == Init /\ [][Next]_vars
-----------------------------------------------------------------------------
TypeOK ==
  /\ cache \in [Codes -> Entry] /\ section \in Sections
  /\ proc \in [Processes -> Process]

\* What is in the cache never costs a command an IDL: a load that no RPC and no file
\* operation failed is served whenever the code's own IDL serves it, and a standard one
\* whenever a bundled IDL does, even without the node.  Spared are only an IDL passed as a
\* file, an import that a generic load takes as it is, and a session's first choice.
NeverBlocked ==
  \A p \in Processes :
    LET s == proc[p]
        own == section[s.job.code]
    IN  /\ s.step = "done" /\ Loads(s) /\ s.job.file.state = "none" /\ s.result # "served"
        => /\ \/ s.fault \/ s.hit
              \/ s.seen.source = "import" /\ s.job.kind \in {"generic", "watch"}
              \/ own.state # "idl" \/ ~Usable(s, own.idl)
           /\ s.job.kind = "standard" =>
                \/ s.result = "IDL_PARSE_ERROR" /\ own.state = "malformed"
                \/ s.result = "IO_ERROR"
                \/ ~\E idl \in s.job.bundled : Usable(s, idl)

\* An imported IDL survives every load it serves: a load that replaces or removes it had
\* read another entry or none, or cannot parse it, or needs a method that it lacks.
ImportKept ==
  [][\A code \in Codes :
       /\ cache[code].source = "import" /\ cache'[code] # cache[code]
       => \E p \in Processes :
            /\ proc'[p] # proc[p]
            /\ Loads(proc[p]) => proc[p].seen # cache[code] \/ ~Usable(proc[p], cache[code].idl)]_vars
=============================================================================
