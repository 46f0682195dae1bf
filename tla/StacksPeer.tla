----------------------------- MODULE StacksPeer -----------------------------
(***************************************************************************)
(* One connection: the requests a StacksPeer of src/peer-handler.ts has    *)
(* under way, its responders and its sequence numbers.                     *)
(*                                                                         *)
(* An async method is a task; its stage is the await it is at.  A step     *)
(* takes a task from one await to the next, or is a message of the peer,   *)
(* which every listener handles in one turn.  Signing awaits the tip of    *)
(* the bitcoin chain; on regtest each message asks for it separately, so   *)
(* signatures finish in any order, and any of them may fail.               *)
(***************************************************************************)
EXTENDS Integers, FiniteSets

CONSTANTS
    Scan,           \* neighbor queries that may be out at once (bounds the model)
    Responder,      \* answers that may be in the making (bounds the model)
    MaxSeq,         \* INT.MAX_U32
    MaxAsked,       \* how many requests of a type are told apart (bounds the model)
    MayFail         \* whether the tip of the bitcoin chain may not be had

ASSUME StacksPeerAssumption ==
    /\ Scan \cap Responder = {}
    /\ {"handshake", "ping"} \cap (Scan \cup Responder) = {}
    /\ IsFiniteSet(Scan \cup Responder)
    /\ MaxSeq \in Nat /\ MaxAsked \in Nat \ {0}
    /\ MayFail \in BOOLEAN

VARIABLES
    socketOpen,             \* ~socket.closed
    lastMessageSeqNumber,   \* the field of that name
    handshakeCompleted,     \* the field of that name
    task,                   \* stage and sequence number of every async method
    requested,              \* which fields of lastRequestMessageSent are set
    settled,                \* envelopes whose signing is over, mod MaxSeq + 1
    asked,                  \* requests the peer has and did not answer or ignore
    lied,                   \* the peer has sent an answer to no request
    measured                \* the last messageResponseDurationMeasured

vars == <<socketOpen, lastMessageSeqNumber, handshakeCompleted, task, requested,
          settled, asked, lied, measured>>

Request == {"handshake", "ping", "getNeighbors"}
Task == {"handshake", "ping"} \cup Scan \cup Responder

\* The request a task sends.
RequestOf(t) == IF t \in Scan THEN "getNeighbors" ELSE t

\* shake: the ping loop awaits an accept; sleep: its timer;
\* address: getPublicIP; sign: getLatestBlock; reply: waitForMessage.
Stage == {"idle", "shake", "sleep", "address", "sign", "reply", "over"}

\* From when a duration is measured: from the request that is answered, from a
\* later one of its type, from one answered before, or from the epoch.
Since == {"own", "later", "answered", "epoch"}

Signing == {t \in Task : task[t].stage = "sign"}
At(stage, seq) == [stage |-> stage, seq |-> seq]
Move(t, stage) == task' = [task EXCEPT ![t] = At(stage, 0)]

TypeOK ==
    /\ socketOpen \in BOOLEAN /\ handshakeCompleted \in BOOLEAN /\ lied \in BOOLEAN
    /\ lastMessageSeqNumber \in 0 .. MaxSeq
    /\ task \in [Task -> [stage : Stage, seq : 0 .. MaxSeq]]
    /\ requested \subseteq Request
    /\ settled \in 0 .. MaxSeq
    /\ asked \in [Request -> 0 .. MaxAsked]
    /\ measured \in [of : Request \cup {"none"}, since : Since]

\* The constructor and the performHandshake that follows it, unless the monitor
\* refused the peer.
Init ==
    /\ socketOpen = TRUE
    /\ lastMessageSeqNumber = 0
    /\ handshakeCompleted = FALSE
    /\ \E first \in {"address", "over"} :
         task = [t \in Task |-> At(CASE t = "handshake" -> first
                                     [] t = "ping" -> "shake"
                                     [] OTHER -> "idle", 0)]
    /\ requested = {}
    /\ settled = 0
    /\ asked = [r \in Request |-> 0]
    /\ lied = FALSE
    /\ measured = [of |-> "none", since |-> "epoch"]

-----------------------------------------------------------------------------
(* Sending.                                                                *)

\* Mutant: the counter is tested after the number that no longer fits.
NextSeqNumberMutant ==
    IF lastMessageSeqNumber > MaxSeq THEN 0 ELSE lastMessageSeqNumber + 1

\* getNextSeqNumber leaves the next number behind, wrapping if necessary.
NextSeqNumber ==
    IF lastMessageSeqNumber >= MaxSeq THEN 0 ELSE lastMessageSeqNumber + 1

\* createAndSignEnvelope up to its await: the number is taken first.
StartSigning(t) ==
    /\ task' = [task EXCEPT ![t] = At("sign", lastMessageSeqNumber)]
    /\ lastMessageSeqNumber' = NextSeqNumber

\* createHandshakeData and setupNeighborsResponder know the own address; getPublicIP
\* never fails, it falls back on the last answer.
AddressKnown(t) ==
    /\ task[t].stage = "address"
    /\ StartSigning(t)
    /\ UNCHANGED <<socketOpen, handshakeCompleted, requested, settled, asked, lied, measured>>

Settled == settled' = (settled + 1) % (MaxSeq + 1)

\* Where a method goes when it throws.  The ping loop logs and goes on.
\* Mutant: the loop has no catch.
AfterErrorMutant(t) == IF t \in {"handshake", "ping"} THEN "over" ELSE "idle"

AfterErrorMutantForever(t) == \* Mutant: it does not look at the socket again.
    CASE t = "handshake" -> "over" [] t = "ping" -> "sleep" [] OTHER -> "idle"

AfterError(t) ==
    CASE t = "handshake" -> "over"
      [] t = "ping" -> IF socketOpen THEN "sleep" ELSE "over"
      [] OTHER -> "idle"

\* The number that was taken is not given back.
SigningFails(t) ==
    /\ MayFail
    /\ t \in Signing
    /\ Move(t, AfterError(t))
    /\ Settled
    /\ UNCHANGED <<socketOpen, lastMessageSeqNumber, handshakeCompleted, requested,
                   asked, lied, measured>>

\* Mutant: a request is stamped only when it is answered.
StampMutant(r) == requested

\* messageSent, as the listener in setupMessageDurationTimers takes it.
Stamp(r) == requested \cup ({r} \cap Request)

\* The envelope is written; a request then waits for its answer.  The write
\* callback stamps the request before any answer can come in, and it also runs
\* when the socket is closed, where nothing reaches the peer.
Sent(t) ==
    LET r == RequestOf(t)
    IN  /\ t \in Signing
        /\ Settled
        /\ Move(t, IF r \in Request THEN "reply" ELSE "idle")
        /\ requested' = Stamp(r)
        /\ asked' = [q \in Request |->
                        IF q = r /\ socketOpen /\ asked[q] < MaxAsked
                        THEN asked[q] + 1 ELSE asked[q]]
        /\ UNCHANGED <<socketOpen, lastMessageSeqNumber, handshakeCompleted, lied, measured>>

-----------------------------------------------------------------------------
(* Timers.                                                                 *)

\* Mutant: a ping need not be answered before the next is sent.
PingDueMutant == task["ping"].stage \in {"sleep", "reply"}

\* The timeout of the loop is over.  The loop tests the socket before it sleeps
\* and not after.
PingDue == task["ping"].stage = "sleep"

PingTimer ==
    /\ PingDue
    /\ StartSigning("ping")
    /\ UNCHANGED <<socketOpen, handshakeCompleted, requested, settled, asked, lied, measured>>

\* The monitor's scan timer calls requestNeighbors whether or not the last query
\* was answered.
RequestNeighbors(s) ==
    /\ socketOpen /\ handshakeCompleted
    /\ task[s].stage = "idle"
    /\ asked["getNeighbors"] + Cardinality(Signing \cap Scan) < MaxAsked
    /\ StartSigning(s)
    /\ UNCHANGED <<socketOpen, handshakeCompleted, requested, settled, asked, lied, measured>>

-----------------------------------------------------------------------------
(* Messages of the peer.  It may answer the oldest request of a type,      *)
(* ignore it, or send an answer nobody asked for.                          *)

\* The duration setupMessageDurationTimers emits for an answer to r.
Measure(r) ==
    measured' = [of |-> r, since |-> CASE r \notin requested -> "epoch"
                                       [] asked[r] = 0 -> "answered"
                                       [] asked[r] = 1 -> "own"
                                       [] OTHER -> "later"]

Answer(r) ==
    /\ IF asked[r] > 0
       THEN asked' = [asked EXCEPT ![r] = @ - 1] /\ UNCHANGED lied
       ELSE lied' = TRUE /\ UNCHANGED asked
    /\ Measure(r)

Ignore(r) ==
    /\ asked[r] > 0
    /\ asked' = [asked EXCEPT ![r] = @ - 1]
    /\ UNCHANGED <<socketOpen, lastMessageSeqNumber, handshakeCompleted, task,
                   requested, settled, lied, measured>>

\* Every waitForMessage whose predicate holds resolves.
ReceiveAccept ==
    /\ socketOpen
    /\ Answer("handshake")
    /\ handshakeCompleted' = TRUE
    /\ task' = [task EXCEPT
            !["handshake"] = IF @.stage = "reply" THEN At("over", 0) ELSE @,
            !["ping"]      = IF @.stage = "shake" THEN At("sleep", 0) ELSE @]
    /\ UNCHANGED <<socketOpen, lastMessageSeqNumber, requested, settled>>

\* performHandshake throws; it is not tried again.
ReceiveReject ==
    /\ socketOpen
    /\ task["handshake"].stage = "reply"
    /\ asked' = [asked EXCEPT !["handshake"] = 0]
    /\ lied' = (lied \/ asked["handshake"] = 0)
    /\ Move("handshake", "over")
    /\ UNCHANGED <<socketOpen, lastMessageSeqNumber, handshakeCompleted, requested,
                   settled, measured>>

\* The duration is measured whatever the nonce; the loop goes on if it matches.
ReceivePong ==
    /\ socketOpen
    /\ Answer("ping")
    /\ \E matches \in IF lied' THEN BOOLEAN ELSE {TRUE} :
         task' = [task EXCEPT !["ping"] =
                     IF matches /\ @.stage = "reply" THEN At("sleep", 0) ELSE @]
    /\ UNCHANGED <<socketOpen, lastMessageSeqNumber, handshakeCompleted, requested, settled>>

\* One Neighbors message answers every query that waits.
ReceiveNeighbors ==
    /\ socketOpen
    /\ Answer("getNeighbors")
    /\ task' = [t \in Task |-> IF t \in Scan /\ task[t].stage = "reply"
                               THEN At("idle", 0) ELSE task[t]]
    /\ UNCHANGED <<socketOpen, lastMessageSeqNumber, handshakeCompleted, requested, settled>>

\* A Handshake or a GetNeighbors: the responder awaits the own address first.
ReceiveQuestion(t, isHandshake) ==
    /\ socketOpen
    /\ task[t].stage = "idle"
    /\ Move(t, "address")
    /\ handshakeCompleted' = (handshakeCompleted \/ isHandshake)
    /\ UNCHANGED <<socketOpen, lastMessageSeqNumber, requested, settled, asked, lied, measured>>

\* A Ping: the responder signs its Pong at once.
ReceivePing(t) ==
    /\ socketOpen
    /\ task[t].stage = "idle"
    /\ StartSigning(t)
    /\ UNCHANGED <<socketOpen, handshakeCompleted, requested, settled, asked, lied, measured>>

\* The 'close' event: a ping loop that waits for an accept returns, one that waits
\* for a pong leaves its race.  The other tasks are not cancelled.
SocketClosed ==
    /\ socketOpen
    /\ socketOpen' = FALSE
    /\ task' = [task EXCEPT !["ping"] =
                   IF @.stage \in {"shake", "reply"} THEN At("over", 0) ELSE @]
    /\ asked' = [r \in Request |-> 0]
    /\ UNCHANGED <<lastMessageSeqNumber, handshakeCompleted, requested, settled, lied, measured>>

-----------------------------------------------------------------------------
Async(t) == AddressKnown(t) \/ SigningFails(t) \/ Sent(t)

Message ==
    \/ ReceiveAccept \/ ReceiveReject \/ ReceivePong \/ ReceiveNeighbors
    \/ \E t \in Responder : \/ \E isHandshake \in BOOLEAN : ReceiveQuestion(t, isHandshake)
                            \/ ReceivePing(t)
    \/ \E r \in Request : Ignore(r)

Next ==
    \/ \E t \in Task : Async(t)
    \/ PingTimer
    \/ \E s \in Scan : RequestNeighbors(s)
    \/ Message
    \/ SocketClosed

Spec == Init /\ [][Next]_vars

\* Requests to the bitcoin node and for the own address end, one way or the other,
\* and a timeout expires.  Nothing is assumed of the peer.
Fairness ==
    /\ \A t \in Task : WF_vars(Async(t))
    /\ WF_vars(PingTimer)

FairSpec == Spec /\ Fairness

-----------------------------------------------------------------------------
(* Properties.                                                             *)

\* Every number taken belongs to one envelope that was sent, has failed or is
\* being signed, wrap-around included: however methods overlap at their awaits,
\* a number is neither skipped nor, within one round of the counter, taken twice.
SeqAccounted ==
    (settled + Cardinality(Signing)) % (MaxSeq + 1) = lastMessageSeqNumber

\* Of a peer that only answers what it was asked, the response time of a ping or a
\* handshake is that of the request it answers, and no response time is
\* measured from the epoch, which would put decades into the histogram.  (Of
\* neighbor queries several are out at once, and an answer to the first is
\* measured from the last.)
DurationsAreReal ==
    ~lied /\ measured.of # "none" =>
        /\ measured.since \in {"own", "later"}
        /\ measured.of # "getNeighbors" => measured.since = "own"

\* While a connection stays open and the handshake was accepted, only a ping that
\* is not answered stops the pings: errors do not, and neither do queries,
\* responders or unasked answers.
PingsUnlessUnanswered ==
    <>[](socketOpen /\ task["ping"].stage # "shake")
        => []<>(task["ping"].stage = "sleep") \/ <>[](task["ping"].stage = "reply")

\* Once a connection is closed its tasks come to rest, the loop after at most one
\* more ping to nobody, and nothing is signed for it any more.
Quiet == /\ \A t \in Task : task[t].stage \notin {"address", "sign"}
         /\ task["ping"].stage # "sleep"
ClosedComesToRest == ~socketOpen ~> []Quiet

\* The comment on sign, "Set the preamble.seq field to be the number of messages
\* sent to this peer so far" (here without failures, so that each settled
\* envelope was sent).
SeqCountsMessages ==
    [][~MayFail => \A t \in Signing : Sent(t) => task[t].seq = settled]_vars
=============================================================================
