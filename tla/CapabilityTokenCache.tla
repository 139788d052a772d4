------------------------- MODULE CapabilityTokenCache -------------------------
(***************************************************************************)
(* McpCapabilityTokenCache: capability tokens by intent, with a time to    *)
(* live and a bound on the entries.  The OrderedDict is a function of its  *)
(* keys; idle, the number of entries used since, is the order it keeps.    *)
(***************************************************************************)
EXTENDS Integers, FiniteSets, Functions

CONSTANTS
  ttl_sec,      \* an entry older than this is expired
  max_entries   \* of the cache

ASSUME TtlAssumption == ttl_sec \in Nat
ASSUME MaxEntriesAssumption == max_entries \in Nat \ {0}

NoEntries == [i \in {} |-> [token |-> "minted", stored_at |-> 0, idle |-> 0]]

expired(entry, now) == now - entry.stored_at > ttl_sec

(* Mutant: nothing expires.                                                *)
EvictNothing(entries, now) == entries

_evict_expired(entries, now) ==
  Restrict(entries, {i \in DOMAIN entries : ~expired(entries[i], now)})

(* move_to_end: all the others have become less recent.                    *)
move_to_end(entries, intent) ==
  [i \in DOMAIN entries |->
     [entries[i] EXCEPT !.idle = IF i = intent THEN 0 ELSE @ + 1]]

WithoutOldest(entries) ==
  Restrict(entries, {i \in DOMAIN entries :
                       \E j \in DOMAIN entries : entries[j].idle > entries[i].idle})

(* Mutant: one entry too many is kept.                                     *)
EvictOverflowLate(entries) ==
  IF Cardinality(DOMAIN entries) > max_entries + 1 THEN WithoutOldest(entries) ELSE entries

(* store adds one entry at most, so the loop runs once at most.            *)
_evict_overflow(entries) ==
  IF Cardinality(DOMAIN entries) > max_entries THEN WithoutOldest(entries) ELSE entries

store(entries, intent, token, now) ==
  LET live == _evict_expired(entries, now)
      kept == [i \in DOMAIN live \union {intent} |->
                 IF i = intent THEN [token |-> token, stored_at |-> now, idle |-> 0]
                 ELSE live[i]] IN
  _evict_overflow(move_to_end(kept, intent))

(* What resolve finds, and the entries after it: a hit moves to the end.   *)
cached(entries, intent, now) ==
  LET live == _evict_expired(entries, now) IN
  {live[i] : i \in DOMAIN live \intersect {intent}}

resolve(entries, intent, now) ==
  LET live == _evict_expired(entries, now) IN
  IF intent \in DOMAIN live THEN move_to_end(live, intent) ELSE live
=============================================================================
