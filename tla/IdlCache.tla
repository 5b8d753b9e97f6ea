------------------------------ MODULE IdlCache ------------------------------
(***************************************************************************)
(* The directory of cached Sails IDLs (src/src/services/idl-cache.ts): one *)
(* file per code id.  An IDL text is what the two parsers and the commands *)
(* tell apart of it: which parser accepts it, and the methods it declares. *)
(***************************************************************************)
EXTENDS Naturals, FiniteSets

CONSTANTS Codes, Methods

Idl == [parses : SUBSET {"v1", "v2"}, methods : SUBSET Methods]
NoIdl == [parses |-> {}, methods |-> {}]

\* corrupt: a file that is not the JSON of an entry.
Absent == [state |-> "absent", idl |-> NoIdl, source |-> "chain"]
Corrupt == [Absent EXCEPT !.state = "corrupt"]
Cached(idl, source) == [state |-> "present", idl |-> idl, source |-> source]
Entry == {Absent, Corrupt} \cup {Cached(idl, source) : idl \in Idl, source \in {"chain", "import"}}

\* A corrupt file reads as a miss.
ReadCachedIdl(cache, code) == IF cache[code].state = "corrupt" THEN Absent ELSE cache[code]

\* Temporary file and rename: the entry is whole, and the last writer's.
WriteCachedIdl(cache, code, idl, source) == [cache EXCEPT ![code] = Cached(idl, source)]

\* A file that is not there is as good as removed.
EvictCachedIdl(cache, code) == [cache EXCEPT ![code] = Absent]

\* Corrupt entries are listed too, so that they can be removed.
EnumerateCacheEntries(cache) == {code \in Codes : cache[code].state # "absent"}
=============================================================================
