-------------------------------- MODULE MCParts --------------------------------
(* The parts that keep state of their own and share none, each checked in full *)
(* behind one choice: the bitcoin tip, the endpoint objects, the first-seen     *)
(* caches, the byte stream and the codec.                                       *)
EXTENDS BitcoinNet, PeerEndpoint, FirstSeen, ByteStream, Codec

VARIABLES
  part, \* the one that runs
  free  \* how many of the fields to be written next may hold any value

\* One byte, two, and three at once: within the buffer, doubling it, beyond that.
Chunks == {<<>>, <<1>>, <<2, 1>>, <<1, 2, 2>>}

PartsInit ==
  /\ part \in {"tip", "endpoints", "seen", "stream", "codec"}
  /\ TipInit /\ (part # "tip" => network = "mempool" /\ tip = 0)
  /\ EndpointInit /\ SeenInit /\ StreamInit
  /\ IF part = "codec" THEN CodecInit
     ELSE activity = "write" /\ todo = <<>> /\ stream = <<>> /\ size = 0 /\ received = <<>>
  /\ free = Len(todo)

\* The messages that are tried differ from a first one in at most one field of every
\* structure: once a field holds another value than its first, the fields behind what
\* follows from it hold their first.  In a vector only the first element varies.
OneChoiceEach ==
  IF activity = "write" /\ todo # <<>>
  THEN LET f == Head(todo)
           v == Last(stream').v
           inner == IF f.kind = "vector" /\ v > 0 THEN Len(f.of)
                    ELSE Len(Following(f, v))
       IN  IF v = CHOOSE first \in MayHold(f) : TRUE
           THEN free' = IF free = 0 THEN 0 ELSE free - 1 + inner
           ELSE free > 0 /\ free' = inner
  ELSE free' = 0

partsVars == <<part, free, tipVars, endpointVars, seenVars, streamVars, codecVars>>

PartsNext ==
  /\ UNCHANGED part
  /\ \/ /\ part = "tip" /\ TipNext
        /\ UNCHANGED <<free, endpointVars, seenVars, streamVars, codecVars>>
     \/ /\ part = "endpoints" /\ EndpointNext
        /\ UNCHANGED <<free, tipVars, seenVars, streamVars, codecVars>>
     \/ /\ part = "seen" /\ SeenNext
        /\ UNCHANGED <<free, tipVars, endpointVars, streamVars, codecVars>>
     \/ /\ part = "stream" /\ StreamNext
        /\ UNCHANGED <<free, tipVars, endpointVars, seenVars, codecVars>>
     \/ /\ part = "codec" /\ CodecNext /\ OneChoiceEach
        /\ UNCHANGED <<tipVars, endpointVars, seenVars, streamVars>>

PartsSpec == PartsInit /\ [][PartsNext]_partsVars
=============================================================================
