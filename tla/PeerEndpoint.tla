----------------------------- MODULE PeerEndpoint -----------------------------
(***************************************************************************)
(* One PeerEndpoint object per address and port (peer-endpoint.ts), under  *)
(* garbage collection.  The constructor returns the object that the        *)
(* WeakDictionary (util.ts) still finds under the same name; the           *)
(* dictionary holds WeakRefs, and a callback the engine runs some time     *)
(* after an object was collected deletes the key.  The maps of the monitor *)
(* tell endpoints apart by identity and rely on there being one object.    *)
(***************************************************************************)
EXTENDS Naturals

CONSTANTS
  Name,     \* what toString gives: address and port
  Object,   \* objects that may exist at once
  NoObject, \* no entry, or nothing to dereference
  NoName    \* the name of an object that does not exist

ASSUME PeerEndpointAssumption ==
  /\ NoObject \notin Object
  /\ NoName \notin Name

VARIABLES
  name,       \* of each object, NoName if it was not constructed or is gone
  cache,      \* WeakDictionary._cache: the object behind each key's WeakRef
  reachable,  \* the objects the program refers to
  finalizers, \* the collected objects whose callback has not run
  late        \* names with an object made while a callback for them was due, until
              \* no object of the name is left (remembered for the properties)

endpointVars == <<name, cache, reachable, finalizers, late>>

EndpointInit ==
  /\ name = [o \in Object |-> NoName]
  /\ cache = [n \in Name |-> NoObject]
  /\ reachable = {} /\ finalizers = {} /\ late = {}

\* An object lives from its construction until it is collected.
Live(o) == name[o] # NoName /\ o \notin finalizers

\* Not giving back an object that was let go of and is not collected yet.
GetMutant(n) == IF cache[n] # NoObject /\ cache[n] \in reachable
                  THEN cache[n] ELSE NoObject

\* WeakDictionary.get: a WeakRef to a collected object gives undefined.
Get(n) == IF cache[n] # NoObject /\ Live(cache[n]) THEN cache[n] ELSE NoObject

\* The FinalizationRegistry's records that are due once o was collected.
Due(o) == finalizers \cup {o}

\* WeakDictionary.set of a name that get did not find.
Set(n, o) == [cache EXCEPT ![n] = o]

\* new PeerEndpoint: the object that is found, which may be one the program had
\* let go of, or else the new one, o, under its name.
Construct(n, o) ==
  /\ name[o] = NoName
  /\ IF Get(n) # NoObject
       THEN /\ reachable' = reachable \cup {Get(n)}
            /\ UNCHANGED <<name, cache, late>>
       ELSE /\ reachable' = reachable \cup {o}
            /\ name' = [name EXCEPT ![o] = n]
            /\ cache' = Set(n, o)
            /\ late' = IF \E d \in finalizers : name[d] = n
                         THEN late \cup {n} ELSE late
  /\ UNCHANGED finalizers

\* The last reference to an object goes.
Release(o) ==
  /\ o \in reachable
  /\ reachable' = reachable \ {o}
  /\ UNCHANGED <<name, cache, finalizers, late>>

\* The garbage collector finds o unreachable: its WeakRef is cleared, its
\* callback is due.
Collect(o) ==
  /\ Live(o) /\ o \notin reachable
  /\ finalizers' = Due(o)
  /\ UNCHANGED <<name, cache, reachable, late>>

\* The trouble with a name is over when its last object is gone.
LateAfter(o) == IF \E p \in Object \ {o} : name[p] = name[o]
                  THEN late ELSE late \ {name[o]}

\* Deleting only what get still finds.
FinalizeMutant(o) ==
  /\ o \in finalizers
  /\ cache' = [cache EXCEPT ![name[o]] = IF Get(name[o]) # NoObject THEN NoObject ELSE @]
  /\ name' = [name EXCEPT ![o] = NoName]
  /\ finalizers' = finalizers \ {o}
  /\ late' = LateAfter(o)
  /\ UNCHANGED reachable

\* The callback: the key is deleted, whatever it holds by now.
Finalize(o) ==
  /\ o \in finalizers
  /\ cache' = [cache EXCEPT ![name[o]] = NoObject]
  /\ name' = [name EXCEPT ![o] = NoName]
  /\ finalizers' = finalizers \ {o}
  /\ late' = LateAfter(o)
  /\ UNCHANGED reachable

EndpointNext ==
  \/ \E n \in Name, o \in Object : Construct(n, o)
  \/ \E o \in Object : Release(o) \/ Collect(o) \/ Finalize(o)

EndpointSpec == EndpointInit /\ [][EndpointNext]_endpointVars

-----------------------------------------------------------------------------
(* Properties *)

EndpointTypeOK ==
  /\ name \in [Object -> Name \cup {NoName}]
  /\ cache \in [Name -> Object \cup {NoObject}]
  /\ reachable \subseteq Object
  /\ finalizers \subseteq Object
  /\ late \subseteq Name

\* An object the program holds is the one the constructor would return again,
\* unless it, or one of its name that is still there, was made while the callback
\* of an older one was due (WeakDictionary's finalizer).  So two objects of one
\* name exist only then, and the harm ends when the last of them is gone.
HeldIsFound ==
  \A o \in reachable : name[o] \notin late => Get(name[o]) = o

\* The dictionary does not leak: an entry whose object was collected has a
\* callback due that deletes it (WeakDictionary.set registers every value).
NoEntryLeaks ==
  \A n \in Name : cache[n] # NoObject /\ ~Live(cache[n]) => cache[n] \in finalizers
=============================================================================
