--------------------------- MODULE MetadataCache ---------------------------
(***************************************************************************)
(* The directory of cached runtime metadata                                *)
(* (src/src/services/metadata-cache.ts): one file per chain and spec       *)
(* version, with its modification time; no two files have the same time.   *)
(***************************************************************************)
EXTENDS Naturals, FiniteSets

CONSTANT MaxEntriesPerChain

ASSUME MetadataCacheAssumption == MaxEntriesPerChain \in Nat \ {0}

\* good; corrupt: right magic prefix, undecodable; torn: wrong prefix.
Contents == {"good", "corrupt", "torn"}

Has(cache, key) == \E entry \in cache : entry.key = key
Content(cache, key) == (CHOOSE entry \in cache : entry.key = key).content

\* Loading drops, and unlinks, what does not start like metadata.
Readable(cache) == {entry \in cache : entry.content # "torn"}

\* Rename over the target: the entry is whole, and written now.
Saved(cache, key, now) ==
  {entry \in cache : entry.key # key} \cup {[key |-> key, content |-> "good", mtime |-> now]}

OfChain(cache, chain) == {entry \in cache : entry.key[1] = chain}

\* All but the MaxEntriesPerChain most recent of one chain.
VictimsNewestFirst(cache, chain) ==
  LET mine == OfChain(cache, chain)
  IN  {entry \in mine : Cardinality({other \in mine : other.mtime < entry.mtime}) >= MaxEntriesPerChain}
Victims(cache, chain) ==
  LET mine == OfChain(cache, chain)
  IN  {entry \in mine : Cardinality({other \in mine : other.mtime > entry.mtime}) >= MaxEntriesPerChain}

\* By their paths, whatever they hold by now.
Unlinked(cache, stale) == {entry \in cache : ~Has(stale, entry.key)}

Cleared == {}
=============================================================================
