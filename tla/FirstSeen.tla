------------------------------ MODULE FirstSeen ------------------------------
(***************************************************************************)
(* The caches of first-seen times of setupPeerInfoLogging (peer-logging.ts)*)
(* for blocks, microblocks and transactions: the first time a hash is seen *)
(* is remembered, each later time is reported as a latency.  The caches    *)
(* are bounded, so that a hash may be forgotten and be "first" seen again. *)
(* Of a time only matters whether it is that of the first observation.     *)
(***************************************************************************)
EXTENDS Naturals, Sequences, SequencesExt

CONSTANTS
  Hash,   \* hashes of one kind
  MaxSeen \* the "max" of its LRUCache

ASSUME FirstSeenAssumption == MaxSeen \in Nat \ {0}

VARIABLES
  seen,    \* the keys of the cache, the least recently used first
  exact,   \* the keys whose time is that of the first observation
  history, \* every hash observed so far, in the order of its last observation
  crowded  \* hashes that once had MaxSeen others between two observations

seenVars == <<seen, exact, history, crowded>>

SeenInit == seen = <<>> /\ exact = {} /\ history = <<>> /\ crowded = {}

Members(s) == {s[i] : i \in DOMAIN s}

Place(s, h) == CHOOSE i \in DOMAIN s : s[i] = h

\* s with h as its last element.
Latest(s, h) == Append(IF h \in Members(s) THEN RemoveAt(s, Place(s, h)) ELSE s, h)

\* How many hashes were observed since h was.
Since(h) == Len(history) - Place(history, h)

UsedMutant(h) == seen

\* LRUCache.get makes h the most recently used key.
Used(h) == Latest(seen, h)

\* LRUCache.set of a new key evicts the least recently used one of a full cache.
Put(h) == IF Len(seen) < MaxSeen THEN Append(seen, h) ELSE Append(Tail(seen), h)

\* observeBlock, observeMicroblock, observeTransaction.
Observe(h) ==
  /\ \/ h \in Members(seen) /\ seen' = Used(h) /\ UNCHANGED exact
     \/ /\ h \notin Members(seen) /\ seen' = Put(h)
        /\ exact' = {g \in exact : g \in Members(Put(h))}
                      \cup (IF h \in Members(history) THEN {} ELSE {h})
  /\ history' = Latest(history, h)
  /\ crowded' = IF h \in Members(history) /\ Since(h) >= MaxSeen
                  THEN crowded \cup {h} ELSE crowded

SeenNext == \E h \in Hash : Observe(h)

SeenSpec == SeenInit /\ [][SeenNext]_seenVars

-----------------------------------------------------------------------------
(* Properties *)

\* A latency is the time since the first observation of its hash unless, between
\* two observations of it, as many others were seen as the cache holds: however
\* often and in whatever order the peers announce what they have.
LatencyFromFirst ==
  \A h \in Members(history) \ crowded :
    Since(h) < MaxSeen => h \in Members(seen) /\ h \in exact
=============================================================================
