-------------------------- MODULE PeerEndpointProofs --------------------------
(***************************************************************************)
(* There is one PeerEndpoint object per name, up to the finalizers that    *)
(* come late, for any set of names and objects.                            *)
(***************************************************************************)
EXTENDS PeerEndpoint, TLAPS

\* What is referred to lives; what a callback is due for was constructed.
Alive ==
  /\ \A o \in reachable : Live(o)
  /\ \A o \in finalizers : name[o] # NoName

\* An entry is found under the name of its object.
KeysMatch == \A n \in Name : cache[n] # NoObject => name[cache[n]] = n

\* An object that lives has its entry, unless a callback came late.
LiveIsCached ==
  \A o \in Object : Live(o) /\ name[o] \notin late => cache[name[o]] = o

\* A callback that would delete a live object's entry comes late.
DueIsLate ==
  \A o \in Object, d \in finalizers : Live(o) /\ name[d] = name[o] => name[o] \in late

\* The inductive invariant.
EndpointInv ==
  /\ EndpointTypeOK
  /\ Alive
  /\ KeysMatch
  /\ LiveIsCached
  /\ DueIsLate

USE PeerEndpointAssumption

\* The invariant holds initially.
LEMMA EndpointInitially == EndpointInit => EndpointInv
  BY DEF EndpointInit, EndpointInv, EndpointTypeOK, Alive, KeysMatch, LiveIsCached, DueIsLate, Live

\* An object that the constructor finds and returns.
LEMMA FoundKeeps ==
  ASSUME EndpointInv, NEW n \in Name, Get(n) # NoObject,
         reachable' = reachable \cup {Get(n)},
         UNCHANGED <<name, cache, late, finalizers>>
  PROVE  EndpointInv'
<1>1. Get(n) \in Object /\ Live(Get(n))
  BY DEF EndpointInv, EndpointTypeOK, Get
<1> QED
  BY <1>1 DEF EndpointInv, EndpointTypeOK, Alive, KeysMatch, LiveIsCached, DueIsLate, Live

\* An object that the constructor makes: no other of its name is found, so that
\* one that lives has lost its entry to a late callback.
LEMMA MadeKeeps ==
  ASSUME EndpointInv, NEW n \in Name, NEW o \in Object, name[o] = NoName,
         Get(n) = NoObject,
         reachable' = reachable \cup {o},
         name' = [name EXCEPT ![o] = n],
         cache' = Set(n, o),
         late' = IF \E d \in finalizers : name[d] = n THEN late \cup {n} ELSE late,
         UNCHANGED finalizers
  PROVE  EndpointInv'
<1>1. EndpointTypeOK'
  BY DEF EndpointInv, EndpointTypeOK, Set
<1>2. /\ o \notin reachable /\ o \notin finalizers
      /\ name'[o] = n /\ \A p \in Object \ {o} : name'[p] = name[p]
      /\ cache'[n] = o /\ \A m \in Name \ {n} : cache'[m] = cache[m]
  BY DEF EndpointInv, EndpointTypeOK, Alive, Live, Set
<1>3. \A p \in Object \ {o} : Live(p)' <=> Live(p)
  BY <1>2 DEF Live
<1>4. Live(o)'
  BY <1>2 DEF Live
<1>5. ASSUME NEW p \in Object, Live(p), name[p] = n
      PROVE  n \in late
  BY <1>5 DEF EndpointInv, LiveIsCached, Get
<1>6. Alive'
  BY <1>2, <1>3, <1>4 DEF EndpointInv, EndpointTypeOK, Alive
<1>7. KeysMatch'
  BY <1>2 DEF EndpointInv, EndpointTypeOK, KeysMatch
<1>8. LiveIsCached'
  BY <1>2, <1>3, <1>5 DEF EndpointInv, EndpointTypeOK, LiveIsCached, Live
<1>9. DueIsLate'
  BY <1>2, <1>3 DEF EndpointInv, EndpointTypeOK, DueIsLate
<1> QED
  BY <1>1, <1>6, <1>7, <1>8, <1>9 DEF EndpointInv

\* new PeerEndpoint.
LEMMA ConstructKeeps ==
  ASSUME EndpointInv, NEW n \in Name, NEW o \in Object, Construct(n, o)
  PROVE  EndpointInv'
  BY FoundKeeps, MadeKeeps DEF Construct

\* A reference that goes.
LEMMA ReleaseKeeps ==
  ASSUME EndpointInv, NEW o \in Object, Release(o)
  PROVE  EndpointInv'
  BY DEF Release, EndpointInv, EndpointTypeOK, Alive, KeysMatch, LiveIsCached, DueIsLate, Live

\* An object that is collected, whose callback is then due: if another of its
\* name lives, a callback had come late before.
LEMMA CollectKeeps ==
  ASSUME EndpointInv, NEW o \in Object, Collect(o)
  PROVE  EndpointInv'
<1>1. EndpointTypeOK' /\ Alive' /\ KeysMatch' /\ LiveIsCached'
  BY DEF Collect, Due, EndpointInv, EndpointTypeOK, Alive, KeysMatch, LiveIsCached, Live
<1>2. ASSUME NEW p \in Object \ {o}, Live(p), name[p] = name[o]
      PROVE  name[p] \in late
  BY <1>2 DEF Collect, EndpointInv, LiveIsCached
<1>3. DueIsLate'
  BY <1>2 DEF Collect, Due, EndpointInv, EndpointTypeOK, DueIsLate, Live
<1> QED
  BY <1>1, <1>3 DEF EndpointInv

\* A callback that deletes an entry, of its own object or of another.
LEMMA FinalizeKeeps ==
  ASSUME EndpointInv, NEW o \in Object, Finalize(o)
  PROVE  EndpointInv'
<1>1. /\ name[o] \in Name /\ o \notin reachable
      /\ name'[o] = NoName /\ \A p \in Object \ {o} : name'[p] = name[p]
      /\ cache'[name[o]] = NoObject
      /\ \A m \in Name \ {name[o]} : cache'[m] = cache[m]
      /\ finalizers' = finalizers \ {o} /\ UNCHANGED reachable
      /\ late' \subseteq late /\ late \ late' \subseteq {name[o]}
      /\ \A p \in Object \ {o} : name[p] = name[o] => late' = late
  BY DEF Finalize, LateAfter, EndpointInv, EndpointTypeOK, Alive, Live
<1>2. EndpointTypeOK'
  BY <1>1 DEF Finalize, EndpointInv, EndpointTypeOK
<1>3. /\ ~Live(o)'
      /\ \A p \in Object \ {o} : Live(p)' <=> Live(p)
  BY <1>1 DEF Live
<1>4. Alive'
  BY <1>1, <1>3 DEF EndpointInv, EndpointTypeOK, Alive
<1>5. KeysMatch'
  BY <1>1, <1>2 DEF EndpointInv, EndpointTypeOK, KeysMatch
<1>6. LiveIsCached'
  BY <1>1, <1>3 DEF Finalize, EndpointInv, EndpointTypeOK, LiveIsCached, DueIsLate, Live
<1>7. DueIsLate'
  BY <1>1, <1>3 DEF EndpointInv, EndpointTypeOK, DueIsLate
<1> QED
  BY <1>2, <1>4, <1>5, <1>6, <1>7 DEF EndpointInv

\* Every step keeps the invariant.
LEMMA EndpointInductive == EndpointInv /\ [EndpointNext]_endpointVars => EndpointInv'
<1> SUFFICES ASSUME EndpointInv, [EndpointNext]_endpointVars PROVE EndpointInv'
  OBVIOUS
<1>1. CASE UNCHANGED endpointVars
  BY <1>1 DEF endpointVars, EndpointInv, EndpointTypeOK, Alive, KeysMatch, LiveIsCached,
     DueIsLate, Live
<1>2. CASE EndpointNext
  BY <1>2, ConstructKeeps, ReleaseKeeps, CollectKeeps, FinalizeKeeps DEF EndpointNext
<1> QED
  BY <1>1, <1>2

\* The inductive invariant, which the theorems below follow from.
THEOREM EndpointInvariant == EndpointSpec => []EndpointInv
  BY EndpointInitially, EndpointInductive, PTL DEF EndpointSpec

\* Every reachable state of the dictionary and of the objects has its type.
THEOREM EndpointTypeCorrect == EndpointSpec => []EndpointTypeOK
<1>1. EndpointInv => EndpointTypeOK
  BY DEF EndpointInv
<1> QED
  BY <1>1, EndpointInvariant, PTL

\* An endpoint that is held is the one that is constructed again, unless a
\* finalizer of the WeakDictionary came late.
THEOREM HeldEndpointIsFound == EndpointSpec => []HeldIsFound
<1>1. EndpointInv => HeldIsFound
  BY DEF EndpointInv, EndpointTypeOK, Alive, LiveIsCached, HeldIsFound, Get
<1> QED
  BY <1>1, EndpointInvariant, PTL

\* Every entry without an object is deleted when the callbacks have run.
THEOREM EntriesDoNotLeak == EndpointSpec => []NoEntryLeaks
<1>1. EndpointInv => NoEntryLeaks
  BY DEF EndpointInv, EndpointTypeOK, KeysMatch, NoEntryLeaks, Live
<1> QED
  BY <1>1, EndpointInvariant, PTL
=============================================================================
