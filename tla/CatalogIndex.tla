---------------------------- MODULE CatalogIndex ----------------------------
(***************************************************************************)
(* The community feed: the index of the curated repository with its cache  *)
(* on disk (kernel/skills/catalog.py), and its merge with the marketplace  *)
(* and the local agents (catalog/merge.py, GET /catalog/community in       *)
(* routers/catalog.py).  The feed refreshes the one source "kali";         *)
(* refresh_all has no caller that a request reaches, so nothing else is    *)
(* ever indexed.  An index is the sequence of the skills' names.           *)
(***************************************************************************)
EXTENDS Integers, SequencesExt

CONSTANTS
  Lists,       \* bound: the sequences of names that an index can be, with their parts
  slugify,     \* slugify[n]: the key under which cards of one skill collide
  Blank,       \* the key of a name without letters or digits
  CACHE_TTL,   \* ticks of the clock for which a cached index is used
  None

\* The parts of a sequence that an index can be.
Kept(names, got) == SelectSeq(names, LAMBDA n : n \in got)

\* An index is a sequence of names, and so are its parts.
IndexAssumption ==
  /\ <<>> \in Lists /\ CACHE_TTL \in Nat
  /\ \A l \in Lists : /\ l \in Seq(DOMAIN slugify)
                      /\ \A got \in SUBSET ToSet(l) : Kept(l, got) \in Lists

VARIABLES
  remote,      \* what the repository holds
  entries,     \* SkillsCatalog._entries["kali"]
  cache,       \* its file: None (missing or torn) or what it holds, and its age
  ugc,         \* approved skills that the marketplace answered last
  local        \* the agents that are installed here

vars == <<remote, entries, cache, ugc, local>>

TypeOK ==
  /\ remote \in Lists /\ entries \in Lists /\ ugc \in Lists /\ local \in Lists
  /\ cache \in [names : Lists, age: 0..CACHE_TTL + 1] \cup {None}

Init == remote \in Lists /\ entries = <<>> /\ cache = None /\ ugc = <<>> /\ local \in Lists

\* The world: the repository changes, time passes, agents come and go.
Push == remote' \in Lists /\ UNCHANGED <<entries, cache, ugc, local>>
Tick ==
  /\ cache # None /\ cache.age <= CACHE_TTL /\ cache' = [cache EXCEPT !.age = @ + 1]
  /\ UNCHANGED <<remote, entries, ugc, local>>
Local == local' \in Lists /\ UNCHANGED <<remote, entries, cache, ugc>>

\* _load_cached: an index that is not too old.
Fresh == cache # None /\ cache.age <= CACHE_TTL

\* _save_cached: a write may not begin, and it may break off.
_save_cached(names) == cache' \in {[names |-> names, age |-> 0], cache, None}

\* _fetch_source: the tree, then every SKILL.md; those that cannot be fetched or
\* read are passed over.
_fetch_source == {Kept(remote, got) : got \in SUBSET ToSet(remote)}

\* refresh_source("kali"): the cache while it is fresh, else the repository; a
\* failed look at the tree leaves everything as it is.
refresh_source ==
  IF Fresh THEN entries' = cache.names /\ UNCHANGED cache
  ELSE \/ UNCHANGED <<entries, cache>>
       \/ \E names \in _fetch_source : entries' = names /\ _save_cached(names)

\* catalog_community: the marketplace answers, or is not there.
catalog_community ==
  /\ ugc' \in Lists
  /\ refresh_source
  /\ UNCHANGED <<remote, local>>

\* The kernel starts again.
Restart == entries' = <<>> /\ ugc' = <<>> /\ UNCHANGED <<remote, cache, local>>

Next == Push \/ Tick \/ Local \/ catalog_community \/ Restart

Spec == Init /\ [][Next]_vars

-----------------------------------------------------------------------------
(* The merge.                                                              *)

Cards(names, source) == [i \in DOMAIN names |-> [source |-> source, key |-> slugify[names[i]]]]

\* Mutant: curated cards do not claim their key.
claim_unmarked(out, card) ==
  IF card.key = Blank \/ \E c \in ToSet(out) : c.key = card.key /\ c.source # "curated"
  THEN out ELSE Append(out, card)

\* One round of a loop: a card is taken if its key is new.
claim(out, card) ==
  IF card.key = Blank \/ \E c \in ToSet(out) : c.key = card.key THEN out ELSE Append(out, card)

\* merge_community: one loop after the other.
merge_community ==
  LET cards == Cards(ugc, "ugc") \o Cards(entries, "curated") \o Cards(local, "local")
      out[n \in 0..Len(cards)] == IF n = 0 THEN <<>> ELSE claim(out[n - 1], cards[n])
  IN out[Len(cards)]

-----------------------------------------------------------------------------

\* Every skill any of the three knows has one card, from the first that knows it,
\* and the three follow each other (merge_community: "UGC wins a collision ...;
\* curated wins over local.  Order is preserved").
Rank == [ugc |-> 1, curated |-> 2, local |-> 3]
Known(source) == {slugify[n] : n \in ToSet(CASE source = "ugc" -> ugc [] source = "curated" -> entries
                                               [] OTHER -> local)} \ {Blank}
FirstKnows(c) == c.key \in Known(c.source)
                 /\ \A s \in DOMAIN Rank : Rank[s] < Rank[c.source] => c.key \notin Known(s)
MergeIsPrecedence ==
  LET feed == merge_community IN
  /\ {c.key : c \in ToSet(feed)} = UNION {Known(s) : s \in DOMAIN Rank}
  /\ \A c \in ToSet(feed) : FirstKnows(c)
  /\ \A i, j \in DOMAIN feed : i < j =>
       feed[i].key # feed[j].key /\ Rank[feed[i].source] <= Rank[feed[j].source]
=============================================================================
