-------------------------- MODULE FirstSeenProofs --------------------------
(***************************************************************************)
(* What FirstSeen promises of a cache of any size, however many hashes are *)
(* observed and in whatever order: it holds the ones observed last, and a  *)
(* latency is the time since the first observation of its hash unless as   *)
(* many others came in between as the cache holds.                         *)
(***************************************************************************)
EXTENDS FirstSeen, SequenceTheorems, TLAPS

-----------------------------------------------------------------------------
(* Making a hash the last one.                                             *)

Once(s) == \A i, j \in DOMAIN s : s[i] = s[j] => i = j

LEMMA PlaceOf ==
  ASSUME NEW s \in Seq(Hash), NEW h \in Members(s)
  PROVE  Place(s, h) \in 1 .. Len(s) /\ s[Place(s, h)] = h
<1>1. \E i \in DOMAIN s : s[i] = h
  BY DEF Members
<1>2. Place(s, h) \in DOMAIN s /\ s[Place(s, h)] = h
  BY <1>1 DEF Place
<1> QED
  BY <1>2

LEMMA JoinType ==
  ASSUME NEW S, NEW s \in Seq(S), NEW t \in Seq(S)
  PROVE  /\ s \o t \in Seq(S) /\ Len(s \o t) = Len(s) + Len(t)
         /\ \A i \in 1 .. Len(s) : (s \o t)[i] = s[i]
         /\ \A i \in 1 .. Len(t) : (s \o t)[Len(s) + i] = t[i]
  BY ConcatProperties

\* What came after h moves up by one place, and h is the last.
LEMMA LatestOld ==
  ASSUME NEW s \in Seq(Hash), NEW h \in Members(s)
  PROVE  /\ Latest(s, h) \in Seq(Hash) /\ Len(Latest(s, h)) = Len(s)
         /\ Latest(s, h)[Len(s)] = h
         /\ \A i \in 1 .. Len(s) - 1 :
              /\ i < Place(s, h) => Latest(s, h)[i] = s[i]
              /\ i >= Place(s, h) => Latest(s, h)[i] = s[i + 1]
<1>1. PICK p \in 1 .. Len(s) : p = Place(s, h) /\ s[p] = h
  BY PlaceOf
<1>2. h \in Hash /\ Len(s) \in Nat /\ p \in Nat /\ 0 < p /\ p <= Len(s)
  BY <1>1
<1> DEFINE a == SubSeq(s, 1, p - 1)
           b == SubSeq(s, p + 1, Len(s))
           r == a \o b
<1>3. /\ a \in Seq(Hash) /\ Len(a) = p - 1
      /\ \A i \in 1 .. p - 1 : a[i] = s[i]
  BY <1>2, SubSeqProperties
<1>4. /\ b \in Seq(Hash) /\ Len(b) = Len(s) - p
      /\ \A i \in 1 .. Len(s) - p : b[i] = s[p + i]
  BY <1>2, SubSeqProperties
<1>5. Latest(s, h) = Append(r, h)
  BY <1>1 DEF Latest, RemoveAt
<1> HIDE DEF a, b
<1>6. /\ r \in Seq(Hash) /\ Len(r) = Len(a) + Len(b)
      /\ \A i \in 1 .. Len(a) : r[i] = a[i]
      /\ \A i \in 1 .. Len(b) : r[Len(a) + i] = b[i]
  <2>1. a \in Seq(Hash) /\ b \in Seq(Hash)
    BY <1>3, <1>4
  <2> QED BY <2>1, JoinType
<1> HIDE DEF r
<1>7. Len(r) = Len(s) - 1
  BY <1>2, <1>3, <1>4, <1>6
<1>8. ASSUME NEW i \in 1 .. Len(s) - 1
      PROVE  /\ i < p => r[i] = s[i]
             /\ i >= p => r[i] = s[i + 1]
  <2>1. CASE i < p
    <3>1. i \in 1 .. p - 1
      BY <1>2, <2>1
    <3> QED BY <1>2, <1>3, <1>6, <2>1, <3>1
  <2>2. CASE i >= p
    <3> DEFINE j == i - p + 1
    <3>1. /\ j \in 1 .. Len(s) - p /\ j \in 1 .. Len(b)
          /\ Len(a) + j = i /\ p + j = i + 1
      BY <1>2, <1>3, <1>4, <2>2
    <3> HIDE DEF j
    <3>2. r[i] = s[i + 1]
      BY <1>4, <1>6, <3>1
    <3> QED BY <1>2, <2>2, <3>2
  <2> QED BY <1>2, <2>1, <2>2
<1>9. /\ Append(r, h) \in Seq(Hash) /\ Len(Append(r, h)) = Len(s)
      /\ Append(r, h)[Len(s)] = h
      /\ \A i \in 1 .. Len(s) - 1 : Append(r, h)[i] = r[i]
  BY <1>2, <1>6, <1>7
<1> QED
  BY <1>1, <1>5, <1>8, <1>9

LEMMA LatestNew ==
  ASSUME NEW s \in Seq(Hash), NEW h \in Hash, h \notin Members(s)
  PROVE  /\ Latest(s, h) \in Seq(Hash) /\ Len(Latest(s, h)) = Len(s) + 1
         /\ \A i \in 1 .. Len(s) : Latest(s, h)[i] = s[i]
         /\ Latest(s, h)[Len(s) + 1] = h
<1>1. Latest(s, h) = Append(s, h)
  BY DEF Latest
<1> QED
  BY <1>1

LEMMA LatestOnce ==
  ASSUME NEW s \in Seq(Hash), NEW h \in Hash, Once(s)
  PROVE  /\ Once(Latest(s, h))
         /\ Members(Latest(s, h)) = Members(s) \cup {h}
<1> DEFINE t == Latest(s, h)
<1>1. DOMAIN s = 1 .. Len(s) /\ Len(s) \in Nat
  OBVIOUS
<1>2. CASE h \in Members(s)
  <2>1. PICK p \in 1 .. Len(s) : p = Place(s, h) /\ s[p] = h
    BY <1>2, PlaceOf
  <2>2. /\ DOMAIN t = 1 .. Len(s) /\ t[Len(s)] = s[p]
        /\ \A i \in 1 .. Len(s) - 1 :
             (i < p => t[i] = s[i]) /\ (i >= p => t[i] = s[i + 1])
    BY <1>2, <2>1, LatestOld
  <2> HIDE DEF t
  <2>3. ASSUME NEW i \in 1 .. Len(s)
        PROVE  \/ i = Len(s) /\ t[i] = s[p]
               \/ i < p /\ i < Len(s) /\ t[i] = s[i]
               \/ p <= i /\ i < Len(s) /\ i + 1 \in 1 .. Len(s) /\ t[i] = s[i + 1]
    BY <1>1, <2>1, <2>2
  <2>4. Once(t)
    <3> SUFFICES ASSUME NEW i \in 1 .. Len(s), NEW j \in 1 .. Len(s), t[i] = t[j]
                 PROVE  i = j
      BY <2>2 DEF Once
    <3>1. \A k, l \in 1 .. Len(s) : s[k] = s[l] => k = l
      BY <1>1 DEF Once
    <3>2. \/ i = Len(s) /\ t[i] = s[p]
          \/ i < p /\ i < Len(s) /\ t[i] = s[i]
          \/ p <= i /\ i < Len(s) /\ i + 1 \in 1 .. Len(s) /\ t[i] = s[i + 1]
      BY <2>3
    <3>3. \/ j = Len(s) /\ t[j] = s[p]
          \/ j < p /\ j < Len(s) /\ t[j] = s[j]
          \/ p <= j /\ j < Len(s) /\ j + 1 \in 1 .. Len(s) /\ t[j] = s[j + 1]
      BY <2>3
    <3>4. i \in Nat /\ j \in Nat /\ p \in Nat /\ Len(s) \in Nat
      BY <1>1
    <3>5. CASE i = Len(s)
      BY <2>1, <3>1, <3>2, <3>3, <3>4, <3>5
    <3>6. CASE i < p /\ t[i] = s[i]
      BY <2>1, <3>1, <3>3, <3>4, <3>6
    <3>7. CASE p <= i /\ i + 1 \in 1 .. Len(s) /\ t[i] = s[i + 1]
      BY <2>1, <3>1, <3>3, <3>4, <3>7
    <3> QED BY <3>2, <3>5, <3>6, <3>7
  <2>5. Members(t) \subseteq Members(s)
    <3>1. \A i \in DOMAIN t : t[i] \in {s[k] : k \in 1 .. Len(s)}
      BY <2>1, <2>2, <2>3
    <3> QED BY <1>1, <3>1 DEF Members
  <2>6. ASSUME NEW k \in 1 .. Len(s) PROVE \E i \in 1 .. Len(s) : t[i] = s[k]
    <3>1. CASE k = p
      BY <1>1, <2>2, <3>1
    <3>2. CASE k < p
      BY <1>1, <2>1, <2>2, <3>2
    <3>3. CASE k > p
      <4>1. PICK i \in 1 .. Len(s) - 1 : i >= p /\ i + 1 = k
        <5>1. k - 1 \in 1 .. Len(s) - 1 /\ k - 1 >= p /\ (k - 1) + 1 = k
          BY <1>1, <2>1, <3>3
        <5> QED BY <5>1
      <4>2. i \in 1 .. Len(s) /\ t[i] = s[k]
        BY <1>1, <2>2, <4>1
      <4> QED BY <4>2
    <3> QED BY <1>1, <2>1, <3>1, <3>2, <3>3
  <2>7. Members(s) \subseteq Members(t)
    <3>1. \A k \in DOMAIN s : s[k] \in {t[i] : i \in 1 .. Len(s)}
      BY <1>1, <2>6
    <3> QED BY <2>2, <3>1 DEF Members
  <2> QED BY <1>2, <2>4, <2>5, <2>7 DEF t
<1>3. CASE h \notin Members(s)
  <2>1. /\ DOMAIN t = 1 .. Len(s) + 1
        /\ \A i \in 1 .. Len(s) : t[i] = s[i]
        /\ t[Len(s) + 1] = h
    BY <1>3, LatestNew
  <2> HIDE DEF t
  <2>2. \A i \in 1 .. Len(s) + 1 : i \in 1 .. Len(s) \/ i = Len(s) + 1
    BY <1>1
  <2>3. \A i \in 1 .. Len(s) : s[i] # h /\ i \in 1 .. Len(s) + 1
    BY <1>1, <1>3 DEF Members
  <2>4. Once(t)
    BY <1>1, <2>1, <2>2, <2>3 DEF Once
  <2>5. Len(s) + 1 \in 1 .. Len(s) + 1
    BY <1>1
  <2>6. Members(t) = Members(s) \cup {h}
    BY <1>1, <2>1, <2>2, <2>3, <2>5 DEF Members
  <2> QED BY <2>4, <2>6 DEF t
<1> QED
  BY <1>2, <1>3

-----------------------------------------------------------------------------
(* The cache.                                                              *)

SeenTypeOK == seen \in Seq(Hash) /\ history \in Seq(Hash) /\ Once(history)

\* The cache holds, in their order, the hashes observed last: all of them, or as
\* many as it has room for.
Older == Len(history) - Len(seen)

CacheIsLatest ==
  /\ Older >= 0 /\ Len(seen) <= MaxSeen
  /\ Older > 0 => Len(seen) = MaxSeen
  /\ \A i \in DOMAIN seen : seen[i] = history[Older + i]

\* A time that is kept and is not that of the first observation belongs to a hash
\* that was away for long enough to be evicted.
ExactUnlessCrowded == Members(seen) \subseteq exact \cup crowded

SeenInv == SeenTypeOK /\ CacheIsLatest /\ ExactUnlessCrowded

\* The caches start empty.
LEMMA SeenInvInit == SeenInit => SeenInv
  BY FirstSeenAssumption DEF SeenInit, SeenInv, SeenTypeOK, CacheIsLatest, Older,
     ExactUnlessCrowded, Once, Members

LEMMA InvFacts ==
  ASSUME SeenInv
  PROVE  /\ seen \in Seq(Hash) /\ history \in Seq(Hash) /\ Once(history)
         /\ Len(seen) \in Nat /\ Len(history) \in Nat /\ Older \in Nat
         /\ Len(history) = Older + Len(seen)
         /\ DOMAIN seen = 1 .. Len(seen) /\ DOMAIN history = 1 .. Len(history)
         /\ \A i \in 1 .. Len(seen) : /\ Older + i \in 1 .. Len(history)
                                      /\ seen[i] = history[Older + i]
         /\ Len(seen) <= MaxSeen /\ (Len(seen) < MaxSeen => Older = 0)
         /\ MaxSeen \in Nat /\ MaxSeen > 0
<1>1. /\ seen \in Seq(Hash) /\ history \in Seq(Hash) /\ Once(history)
      /\ Len(seen) \in Nat /\ Len(history) \in Nat
      /\ DOMAIN seen = 1 .. Len(seen) /\ DOMAIN history = 1 .. Len(history)
  BY DEF SeenInv, SeenTypeOK
<1>2. Older \in Nat /\ Len(history) = Older + Len(seen)
  BY <1>1 DEF SeenInv, CacheIsLatest, Older
<1>3. MaxSeen \in Nat /\ MaxSeen > 0
  BY FirstSeenAssumption
<1>4. Len(seen) <= MaxSeen /\ (Len(seen) < MaxSeen => Older = 0)
  <2>1. Len(seen) <= MaxSeen /\ (Older > 0 => Len(seen) = MaxSeen)
    BY DEF SeenInv, CacheIsLatest
  <2>2. ASSUME Len(seen) < MaxSeen PROVE Older = 0
    <3>1. Len(seen) # MaxSeen
      BY <1>3, <2>2
    <3>2. ~ (Older > 0)
      BY <2>1, <3>1
    <3> QED BY <1>2, <3>2
  <2> QED BY <2>1, <2>2
<1>5. \A i \in 1 .. Len(seen) : Older + i \in 1 .. Len(history)
  BY <1>1, <1>2
<1>6. \A i \in 1 .. Len(seen) : seen[i] = history[Older + i]
  BY <1>1 DEF SeenInv, CacheIsLatest
<1> QED
  BY <1>1, <1>2, <1>3, <1>4, <1>5, <1>6

\* Observing a hash keeps the types.
LEMMA TypeStep == SeenInv /\ [SeenNext]_seenVars => SeenTypeOK'
<1> SUFFICES ASSUME SeenInv, [SeenNext]_seenVars PROVE SeenTypeOK'
  OBVIOUS
<1>1. CASE UNCHANGED seenVars
  BY <1>1 DEF seenVars, SeenInv, SeenTypeOK
<1>2. ASSUME NEW h \in Hash, Observe(h) PROVE SeenTypeOK'
  <2>1. history' = Latest(history, h)
    BY <1>2 DEF Observe
  <2>2. history' \in Seq(Hash) /\ Once(history')
    BY <2>1, InvFacts, LatestOld, LatestNew, LatestOnce
  <2>3. seen' \in Seq(Hash)
    <3>1. CASE h \in Members(seen) /\ seen' = Used(h)
      BY <3>1, InvFacts, LatestOld DEF Used
    <3>2. CASE seen' = Put(h)
      <4>1. CASE Len(seen) < MaxSeen
        BY <3>2, <4>1, InvFacts DEF Put
      <4>2. CASE ~ (Len(seen) < MaxSeen)
        <5>1. seen # <<>>
          BY <4>2, InvFacts
        <5>2. Tail(seen) \in Seq(Hash)
          BY <5>1, InvFacts
        <5> QED BY <3>2, <4>2, <5>2 DEF Put
      <4> QED BY <4>1, <4>2
    <3> QED BY <1>2, <3>1, <3>2 DEF Observe
  <2> QED BY <2>2, <2>3 DEF SeenTypeOK
<1> QED
  BY <1>1, <1>2 DEF SeenNext

\* A hash the cache holds is as far from the end in the history.
LEMMA UseKeepsLatest ==
  ASSUME SeenInv, NEW h \in Hash, h \in Members(seen),
         seen' = Used(h), history' = Latest(history, h)
  PROVE  CacheIsLatest'
<1>1. PICK p \in 1 .. Len(seen) : p = Place(seen, h) /\ seen[p] = h
  BY InvFacts, PlaceOf
<1>2. h \in Members(history)
  BY <1>1, InvFacts DEF Members
<1>3. Place(history, h) = Older + p
  <2>1. Place(history, h) \in DOMAIN history /\ history[Place(history, h)] = h
    BY <1>2, InvFacts, PlaceOf
  <2>2. Older + p \in DOMAIN history /\ history[Older + p] = h
    BY <1>1, InvFacts
  <2> QED BY <2>1, <2>2, InvFacts DEF Once
<1>4. /\ Len(seen') = Len(seen) /\ seen'[Len(seen)] = h /\ DOMAIN seen' = 1 .. Len(seen)
      /\ \A i \in 1 .. Len(seen) - 1 :
           (i < p => seen'[i] = seen[i]) /\ (i >= p => seen'[i] = seen[i + 1])
  <2>1. seen \in Seq(Hash) /\ seen' = Latest(seen, h)
    BY InvFacts DEF Used
  <2>2. /\ Latest(seen, h) \in Seq(Hash) /\ Len(Latest(seen, h)) = Len(seen)
        /\ Latest(seen, h)[Len(seen)] = h
        /\ \A i \in 1 .. Len(seen) - 1 :
             /\ i < Place(seen, h) => Latest(seen, h)[i] = seen[i]
             /\ i >= Place(seen, h) => Latest(seen, h)[i] = seen[i + 1]
    BY <2>1, LatestOld
  <2>3. DOMAIN seen' = 1 .. Len(seen)
    BY <2>1, <2>2
  <2> QED BY <1>1, <2>1, <2>2, <2>3
<1>5. /\ Len(history') = Len(history) /\ history'[Len(history)] = h
      /\ \A i \in 1 .. Len(history) - 1 :
           /\ i < Older + p => history'[i] = history[i]
           /\ i >= Older + p => history'[i] = history[i + 1]
  BY <1>2, <1>3, InvFacts, LatestOld
<1>6. Older' = Older
  BY <1>4, <1>5 DEF Older
<1>7. ASSUME NEW i \in 1 .. Len(seen) PROVE seen'[i] = history'[Older + i]
  <2>1. /\ i \in Nat /\ p \in Nat /\ Older \in Nat /\ Len(seen) \in Nat
        /\ Len(history) = Older + Len(seen)
    BY InvFacts
  <2>2. CASE i = Len(seen)
    BY <1>4, <1>5, <2>1, <2>2
  <2>3. CASE i < Len(seen) /\ i < p
    <3>1. /\ Older + i \in 1 .. Len(history) - 1 /\ Older + i < Older + p
          /\ i \in 1 .. Len(seen) - 1
      BY <2>1, <2>3
    <3>2. seen[i] = history[Older + i]
      BY InvFacts
    <3> QED BY <1>4, <1>5, <2>3, <3>1, <3>2
  <2>4. CASE i < Len(seen) /\ i >= p
    <3>1. /\ Older + i \in 1 .. Len(history) - 1 /\ Older + i >= Older + p
          /\ i \in 1 .. Len(seen) - 1 /\ i + 1 \in 1 .. Len(seen)
          /\ Older + (i + 1) = (Older + i) + 1
      BY <2>1, <2>4
    <3>2. seen[i + 1] = history[Older + (i + 1)]
      BY <3>1, InvFacts
    <3> QED BY <1>4, <1>5, <2>4, <3>1, <3>2
  <2> QED BY <2>1, <2>2, <2>3, <2>4
<1> QED
  BY <1>4, <1>6, <1>7, InvFacts DEF CacheIsLatest

\* As long as there is room nothing was ever evicted: what is new is new.
LEMMA AddKeepsLatest ==
  ASSUME SeenInv, NEW h \in Hash, h \notin Members(seen), Len(seen) < MaxSeen,
         seen' = Put(h), history' = Latest(history, h)
  PROVE  CacheIsLatest' /\ h \notin Members(history)
<1>1. Older = 0 /\ Len(history) = Len(seen)
  BY InvFacts
<1>2. \A i \in 1 .. Len(history) : history[i] = seen[i]
  BY <1>1, InvFacts
<1>3. h \notin Members(history)
  BY <1>1, <1>2, InvFacts DEF Members
<1>4. /\ Len(history') = Len(history) + 1 /\ history'[Len(history) + 1] = h
      /\ \A i \in 1 .. Len(history) : history'[i] = history[i]
  BY <1>3, InvFacts, LatestNew
<1>5. /\ Len(seen') = Len(seen) + 1 /\ seen'[Len(seen) + 1] = h
      /\ \A i \in 1 .. Len(seen) : seen'[i] = seen[i]
      /\ DOMAIN seen' = 1 .. Len(seen) + 1
  BY InvFacts DEF Put
<1>6. Older' = 0
  BY <1>1, <1>4, <1>5, InvFacts DEF Older
<1>7. \A i \in 1 .. Len(seen) + 1 : seen'[i] = history'[0 + i]
  BY <1>1, <1>2, <1>4, <1>5, InvFacts
<1>8. Len(seen') <= MaxSeen
  BY <1>5, InvFacts
<1> QED
  BY <1>3, <1>5, <1>6, <1>7, <1>8 DEF CacheIsLatest

\* A hash a full cache does not hold is not among the last MaxSeen of the history.
LEMMA MissingIsOld ==
  ASSUME SeenInv, NEW h \in Members(history), h \notin Members(seen)
  PROVE  Place(history, h) \in 1 .. Older /\ history[Place(history, h)] = h
<1>1. PICK q \in 1 .. Len(history) : q = Place(history, h) /\ history[q] = h
  BY InvFacts, PlaceOf
<1>2. ASSUME q > Older PROVE FALSE
  <2>1. PICK i \in 1 .. Len(seen) : Older + i = q
    <3>1. q - Older \in 1 .. Len(seen) /\ Older + (q - Older) = q
      BY <1>2, InvFacts
    <3> QED BY <3>1
  <2>2. seen[i] = h /\ i \in DOMAIN seen
    BY <1>1, <2>1, InvFacts
  <2> QED BY <2>2 DEF Members
<1> QED
  BY <1>1, <1>2, InvFacts

LEMMA EvictKeepsLatest ==
  ASSUME SeenInv, NEW h \in Hash, h \notin Members(seen), ~ (Len(seen) < MaxSeen),
         seen' = Put(h), history' = Latest(history, h)
  PROVE  CacheIsLatest'
<1>1. Len(seen) = MaxSeen /\ Len(seen) \in Nat /\ 0 < Len(seen) /\ seen # <<>>
  BY InvFacts
<1>2. /\ Len(seen') = Len(seen) /\ seen'[Len(seen)] = h /\ DOMAIN seen' = 1 .. Len(seen)
      /\ \A i \in 1 .. Len(seen) - 1 : seen'[i] = seen[i + 1]
  <2>1. /\ Tail(seen) \in Seq(Hash) /\ Len(Tail(seen)) = Len(seen) - 1
        /\ \A i \in 1 .. Len(seen) - 1 : Tail(seen)[i] = seen[i + 1]
    BY <1>1, InvFacts
  <2>2. seen' = Append(Tail(seen), h)
    BY DEF Put
  <2> QED BY <1>1, <2>1, <2>2
<1>3. \A i \in 1 .. Len(seen) - 1 :
        i + 1 \in 1 .. Len(seen) /\ seen[i + 1] = history[Older + (i + 1)]
  <2>1. \A i \in 1 .. Len(seen) - 1 : i + 1 \in 1 .. Len(seen)
    BY <1>1
  <2> QED BY <2>1, InvFacts
<1>4. Older \in Nat /\ Len(history) \in Nat /\ Len(history) = Older + Len(seen)
  BY InvFacts
<1>5. CASE h \in Members(history)
  <2>1. Place(history, h) \in 1 .. Older
    BY <1>5, MissingIsOld
  <2>2. /\ Len(history') = Len(history) /\ history'[Len(history)] = h
        /\ \A i \in 1 .. Len(history) - 1 :
             i >= Place(history, h) => history'[i] = history[i + 1]
    BY <1>5, InvFacts, LatestOld
  <2>3. Older' = Older
    BY <1>2, <2>2 DEF Older
  <2>4. ASSUME NEW i \in 1 .. Len(seen) PROVE seen'[i] = history'[Older + i]
    <3>1. CASE i = Len(seen)
      BY <1>2, <1>4, <2>2, <3>1
    <3>2. CASE i # Len(seen)
      <4>1. i \in 1 .. Len(seen) - 1
        BY <1>1, <3>2
      <4>2. /\ Older + i \in 1 .. Len(history) - 1 /\ Older + i >= Place(history, h)
            /\ Older + (i + 1) = (Older + i) + 1
        BY <1>1, <1>4, <2>1, <4>1
      <4>3. history'[Older + i] = history[(Older + i) + 1]
        BY <2>2, <4>2
      <4> QED BY <1>2, <1>3, <4>1, <4>2, <4>3
    <3> QED BY <3>1, <3>2
  <2> QED BY <1>1, <1>2, <1>4, <2>3, <2>4, InvFacts DEF CacheIsLatest
<1>6. CASE h \notin Members(history)
  <2>1. /\ Len(history') = Len(history) + 1 /\ history'[Len(history) + 1] = h
        /\ \A i \in 1 .. Len(history) : history'[i] = history[i]
    BY <1>6, InvFacts, LatestNew
  <2>2. Older' = Older + 1
    <3>1. Older' = Len(history') - Len(seen')
      BY DEF Older
    <3>2. Older' = Len(history) + 1 - Len(seen)
      BY <1>2, <2>1, <3>1
    <3> QED BY <1>1, <1>4, <3>2
  <2>3. ASSUME NEW i \in 1 .. Len(seen) PROVE seen'[i] = history'[Older + 1 + i]
    <3>1. CASE i = Len(seen)
      <4>1. Older + 1 + i = Len(history) + 1
        BY <1>1, <1>4, <3>1
      <4> QED BY <1>2, <2>1, <3>1, <4>1
    <3>2. CASE i # Len(seen)
      <4>1. i \in 1 .. Len(seen) - 1
        BY <1>1, <3>2
      <4>2. /\ Older + (i + 1) \in 1 .. Len(history)
            /\ Older + (i + 1) = Older + 1 + i
        BY <1>1, <1>4, <4>1
      <4> QED BY <1>2, <1>3, <2>1, <4>1, <4>2
    <3> QED BY <3>1, <3>2
  <2> QED BY <1>1, <1>2, <1>4, <2>2, <2>3, InvFacts DEF CacheIsLatest
<1> QED
  BY <1>5, <1>6

\* Observing a hash keeps the cache the latest hashes, in order.
LEMMA CacheStep == SeenInv /\ [SeenNext]_seenVars => CacheIsLatest'
<1> SUFFICES ASSUME SeenInv, [SeenNext]_seenVars PROVE CacheIsLatest'
  OBVIOUS
<1>1. CASE UNCHANGED seenVars
  BY <1>1 DEF seenVars, SeenInv, CacheIsLatest, Older
<1>2. ASSUME NEW h \in Hash, Observe(h) PROVE CacheIsLatest'
  BY <1>2, UseKeepsLatest, AddKeepsLatest, EvictKeepsLatest DEF Observe
<1> QED
  BY <1>1, <1>2 DEF SeenNext

\* A hash that is missing was evicted, and then as many others came after it as the
\* cache holds; one never observed gets the time of its first observation.
LEMMA ExactStep == SeenInv /\ [SeenNext]_seenVars => ExactUnlessCrowded'
<1> SUFFICES ASSUME SeenInv, [SeenNext]_seenVars PROVE ExactUnlessCrowded'
  OBVIOUS
<1>1. CASE UNCHANGED seenVars
  BY <1>1 DEF seenVars, SeenInv, ExactUnlessCrowded, Members
<1>2. ASSUME NEW h \in Hash, Observe(h) PROVE ExactUnlessCrowded'
  <2>1. /\ Members(seen) \subseteq exact \cup crowded
        /\ crowded' = IF h \in Members(history) /\ Since(h) >= MaxSeen
                      THEN crowded \cup {h} ELSE crowded
    BY <1>2 DEF SeenInv, ExactUnlessCrowded, Observe
  <2>2. CASE h \in Members(seen) /\ seen' = Used(h) /\ UNCHANGED exact
    <3>1. Once(seen)
      <4>1. ASSUME NEW i \in DOMAIN seen, NEW j \in DOMAIN seen, seen[i] = seen[j]
            PROVE  i = j
        <5>1. Older + i = Older + j
          BY <4>1, InvFacts DEF Once
        <5>2. i \in Nat /\ j \in Nat /\ Older \in Nat
          BY InvFacts
        <5> QED BY <5>1, <5>2
      <4> QED BY <4>1 DEF Once
    <3>2. Members(seen') = Members(seen) \cup {h}
      BY <2>2, <3>1, InvFacts, LatestOnce DEF Used
    <3>3. Members(seen)' = Members(seen')
      BY DEF Members
    <3> QED BY <2>1, <2>2, <3>2, <3>3 DEF ExactUnlessCrowded
  <2>3. CASE /\ h \notin Members(seen) /\ seen' = Put(h)
             /\ exact' = {g \in exact : g \in Members(Put(h))}
                           \cup (IF h \in Members(history) THEN {} ELSE {h})
    <3>1. Members(Put(h)) \subseteq Members(seen) \cup {h}
      <4>1. CASE Len(seen) < MaxSeen
        BY <4>1, InvFacts DEF Put, Members
      <4>2. CASE ~ (Len(seen) < MaxSeen)
        <5>1. seen # <<>> /\ Len(seen) \in Nat
          BY <4>2, InvFacts
        <5>2. /\ Tail(seen) \in Seq(Hash) /\ Len(Tail(seen)) = Len(seen) - 1
              /\ \A i \in 1 .. Len(seen) - 1 :
                   i + 1 \in DOMAIN seen /\ Tail(seen)[i] = seen[i + 1]
          BY <5>1, InvFacts
        <5>3. Put(h) = Append(Tail(seen), h)
          BY <4>2 DEF Put
        <5>4. \A i \in DOMAIN Put(h) : Put(h)[i] = h \/ \E j \in DOMAIN seen : Put(h)[i] = seen[j]
          BY <5>1, <5>2, <5>3
        <5> QED BY <5>4 DEF Members
      <4> QED BY <4>1, <4>2
    <3>2. h \in Members(history) => h \in crowded'
      <4> SUFFICES ASSUME h \in Members(history) PROVE Since(h) >= MaxSeen
        BY <2>1
      <4>1. ~ (Len(seen) < MaxSeen)
        BY <1>2, <2>3, AddKeepsLatest DEF Observe
      <4>2. Place(history, h) \in 1 .. Older
        BY <2>3, MissingIsOld
      <4> QED BY <4>1, <4>2, InvFacts DEF Since
    <3>3. Members(seen)' = Members(Put(h))
      BY <2>3 DEF Members
    <3> QED BY <2>1, <2>3, <3>1, <3>2, <3>3 DEF ExactUnlessCrowded
  <2> QED BY <1>2, <2>2, <2>3 DEF Observe
<1> QED
  BY <1>1, <1>2 DEF SeenNext

\* The inductive invariant of the caches.
LEMMA SeenInvariant == SeenSpec => []SeenInv
<1>1. SeenInv /\ [SeenNext]_seenVars => SeenInv'
  BY TypeStep, CacheStep, ExactStep DEF SeenInv
<1> QED
  BY <1>1, SeenInvInit, PTL DEF SeenSpec

\* The cache of the model is one that evicts what was used longest ago: what it holds
\* is what was observed last.
THEOREM HoldsTheLatest == SeenSpec => []CacheIsLatest
  BY SeenInvariant, PTL DEF SeenInv

\* However often and in whatever order the peers announce what they have, a latency is
\* the time since the first observation of its hash unless MaxSeen others were seen
\* between two observations of it.
THEOREM LatencyIsFromFirst == SeenSpec => []LatencyFromFirst
<1>1. SeenInv => LatencyFromFirst
  <2> SUFFICES ASSUME SeenInv, NEW h \in Members(history) \ crowded, Since(h) < MaxSeen
               PROVE  h \in Members(seen) /\ h \in exact
    BY DEF LatencyFromFirst
  <2>1. h \in Members(seen)
    <3> SUFFICES ASSUME h \notin Members(seen) PROVE FALSE
      OBVIOUS
    <3>1. Place(history, h) \in 1 .. Older
      BY MissingIsOld
    <3> QED BY <3>1, InvFacts DEF Since
  <2> QED BY <2>1 DEF SeenInv, ExactUnlessCrowded
<1> QED
  BY <1>1, SeenInvariant, PTL
=============================================================================
