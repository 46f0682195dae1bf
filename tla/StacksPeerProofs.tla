--------------------------- MODULE StacksPeerProofs ---------------------------
(***************************************************************************)
(* The invariants of StacksPeer for any number of neighbor queries and     *)
(* responders, every maximal sequence number and every bound on requests.  *)
(***************************************************************************)
EXTENDS StacksPeer, FiniteSetTheorems, TLAPS

-----------------------------------------------------------------------------
(* Sequence numbers are counted modulo MaxSeq + 1.                           *)


\* Quotient and remainder.
LEMMA Division ==
  ASSUME NEW n \in Nat \ {0}, NEW a \in Nat
  PROVE  /\ a \div n \in Nat
         /\ a % n \in 0 .. n - 1
         /\ a = (n * (a \div n)) + (a % n)
  OBVIOUS

\* They are unique.
LEMMA Remainder ==
  ASSUME NEW n \in Nat \ {0}, NEW a \in Nat, NEW q \in Nat, NEW r \in 0 .. n - 1,
         a = n * q + r
  PROVE  a % n = r
<1> DEFINE p == a \div n
           s == a % n
<1>1. p \in Nat /\ s \in 0 .. n - 1 /\ a = n * p + s
  BY Division
<1> HIDE DEF p, s
<1>2. n * p + s = n * q + r
  BY <1>1
<1>3. n * (p - q) = r - s
  BY <1>1, <1>2
<1>4. ~ (p - q >= 1)
  <2> SUFFICES ASSUME p - q >= 1 PROVE FALSE
    OBVIOUS
  <2>1. n * (p - q) >= n
    BY <1>1
  <2> QED
    BY <1>1, <1>3, <2>1
<1>5. ~ (q - p >= 1)
  <2> SUFFICES ASSUME q - p >= 1 PROVE FALSE
    OBVIOUS
  <2>1. n * (q - p) >= n
    BY <1>1
  <2>2. n * (q - p) = s - r
    BY <1>1, <1>3
  <2> QED
    BY <1>1, <2>1, <2>2
<1>6. p = q
  BY <1>1, <1>4, <1>5
<1>7. s = r
  BY <1>1, <1>2, <1>6
<1> QED
  BY <1>7 DEF s

\* One more, modulo n.
LEMMA NextModulo ==
  ASSUME NEW n \in Nat \ {0}, NEW a \in Nat
  PROVE  (a + 1) % n = IF (a % n) = n - 1 THEN 0 ELSE (a % n) + 1
<1> DEFINE q == a \div n
           r == a % n
<1>1. q \in Nat /\ r \in 0 .. n - 1 /\ a = n * q + r
  BY Division
<1> HIDE DEF q, r
<1>2. CASE r = n - 1
  <2>1. a + 1 = n * (q + 1) + 0
    BY <1>1, <1>2
  <2>2. (a + 1) % n = 0
    BY <1>1, <2>1, Remainder
  <2> QED
    BY <1>2, <2>2 DEF r
<1>3. CASE r # n - 1
  <2>1. a + 1 = n * q + (r + 1) /\ r + 1 \in 0 .. n - 1
    BY <1>1, <1>3
  <2>2. (a + 1) % n = r + 1
    BY <1>1, <2>1, Remainder
  <2> QED
    BY <1>3, <2>2 DEF r
<1> QED
  BY <1>2, <1>3

\* A multiple of n more makes no difference.
LEMMA OnceAround ==
  ASSUME NEW n \in Nat \ {0}, NEW a \in Nat
  PROVE  (a + n) % n = a % n
<1> DEFINE q == a \div n
           r == a % n
<1>1. q \in Nat /\ r \in 0 .. n - 1 /\ a = (n * q) + r
  BY Division
<1> HIDE DEF q, r
<1>2. a + n = (n * (q + 1)) + r
  BY <1>1
<1>3. (a + n) % n = r
  BY <1>1, <1>2, Remainder
<1> QED
  BY <1>3 DEF r

\* A number below n is its own remainder.
LEMMA SmallModulo ==
  ASSUME NEW n \in Nat \ {0}, NEW a \in 0 .. n - 1
  PROVE  a % n = a
  OBVIOUS

-----------------------------------------------------------------------------
(* Types.                                                                    *)

TaskState == [stage : Stage, seq : 0 .. MaxSeq]

\* What tasks are, as a state of each.
LEMMA TaskStates ==
  /\ \A stage \in Stage, seq \in 0 .. MaxSeq : At(stage, seq) \in TaskState
  /\ \A state \in TaskState : state.stage \in Stage
  /\ \A stage, seq : At(stage, seq).stage = stage
  BY DEF At, TaskState

\* The tasks that are named are tasks, and different ones.
LEMMA NamedTasks ==
  /\ {"handshake", "ping"} \subseteq Task
  /\ Scan \subseteq Task /\ Responder \subseteq Task
  /\ "handshake" \notin Scan \cup Responder
  /\ "ping" \notin Scan \cup Responder
  BY StacksPeerAssumption DEF Task

\* The initial states are well typed.
LEMMA InitTypes == Init => TypeOK
<1> SUFFICES ASSUME Init PROVE TypeOK
  OBVIOUS
<1>1. PICK first \in {"address", "over"} :
        task = [t \in Task |-> At(CASE t = "handshake" -> first
                                    [] t = "ping" -> "shake"
                                    [] OTHER -> "idle", 0)]
  BY DEF Init
<1>2. 0 \in 0 .. MaxSeq /\ 0 \in 0 .. MaxAsked
  BY StacksPeerAssumption
<1>3. \A t \in Task : (CASE t = "handshake" -> first
                         [] t = "ping" -> "shake"
                         [] OTHER -> "idle") \in Stage
  BY DEF Stage
<1>4. task \in [Task -> TaskState]
  BY <1>1, <1>2, <1>3, TaskStates
<1>5. task \in [Task -> [stage : Stage, seq : 0 .. MaxSeq]]
  BY <1>4 DEF TaskState
<1> QED
  BY <1>2, <1>5 DEF Init, TypeOK, Since, Request

\* Taking a number and beginning to sign with it.
LEMMA StartSigningTypes ==
  ASSUME TypeOK, NEW t \in Task, StartSigning(t)
  PROVE  /\ task' \in [Task -> TaskState]
         /\ lastMessageSeqNumber' \in 0 .. MaxSeq
<1>1. At("sign", lastMessageSeqNumber) \in TaskState
  BY TaskStates DEF TypeOK, Stage
<1>2. task \in [Task -> TaskState]
  BY DEF TypeOK, TaskState
<1> QED
  BY <1>1, <1>2, StacksPeerAssumption DEF StartSigning, NextSeqNumber, TypeOK

\* The other ways a task moves.
LEMMA MoveTypes ==
  ASSUME TypeOK, NEW t \in Task, NEW stage \in Stage, Move(t, stage)
  PROVE  task' \in [Task -> TaskState]
<1>1. At(stage, 0) \in TaskState
  BY TaskStates, StacksPeerAssumption
<1>2. task \in [Task -> TaskState]
  BY DEF TypeOK, TaskState
<1> QED
  BY <1>1, <1>2 DEF Move

\* Counting a settled envelope.
LEMMA SettledTypes ==
  ASSUME TypeOK, Settled
  PROVE  settled' \in 0 .. MaxSeq
<1>1. MaxSeq + 1 \in Nat \ {0} /\ settled + 1 \in Nat
  BY StacksPeerAssumption DEF TypeOK
<1>2. (settled + 1) % (MaxSeq + 1) \in 0 .. (MaxSeq + 1) - 1
  BY <1>1, Division
<1> QED
  BY <1>2, StacksPeerAssumption DEF Settled

\* Being answered, and measuring how long it took.
LEMMA AnswerTypes ==
  ASSUME TypeOK, NEW r \in Request, Answer(r)
  PROVE  /\ asked' \in [Request -> 0 .. MaxAsked]
         /\ lied' \in BOOLEAN
         /\ measured' \in [of : Request \cup {"none"}, since : Since]
<1>1. asked' \in [Request -> 0 .. MaxAsked] /\ lied' \in BOOLEAN
  <2>1. CASE asked[r] > 0
    <3>1. asked[r] - 1 \in 0 .. MaxAsked
      BY <2>1, StacksPeerAssumption DEF TypeOK
    <3> QED
      BY <2>1, <3>1 DEF TypeOK, Answer
  <2>2. CASE ~ (asked[r] > 0)
    BY <2>2 DEF TypeOK, Answer
  <2> QED
    BY <2>1, <2>2
<1>2. (CASE r \notin requested -> "epoch"
         [] asked[r] = 0 -> "answered"
         [] asked[r] = 1 -> "own"
         [] OTHER -> "later") \in Since
  BY DEF Since
<1>3. measured' \in [of : Request \cup {"none"}, since : Since]
  BY <1>2 DEF Answer, Measure
<1> QED
  BY <1>1, <1>3

\* Every step keeps the types.
LEMMA StepTypes ==
  ASSUME TypeOK, [Next]_vars
  PROVE  TypeOK'
<1> DEFINE TypeOKNext ==
      /\ socketOpen' \in BOOLEAN /\ handshakeCompleted' \in BOOLEAN /\ lied' \in BOOLEAN
      /\ lastMessageSeqNumber' \in 0 .. MaxSeq
      /\ task' \in [Task -> TaskState]
      /\ requested' \subseteq Request
      /\ settled' \in 0 .. MaxSeq
      /\ asked' \in [Request -> 0 .. MaxAsked]
      /\ measured' \in [of : Request \cup {"none"}, since : Since]
<1>0. SUFFICES TypeOKNext
  BY DEF TypeOK, TaskState
<1>a. /\ task \in [Task -> TaskState]
      /\ {"handshake", "ping", "getNeighbors"} = Request
      /\ {"idle", "sleep", "address", "sign", "reply", "over"} \subseteq Stage
      /\ 0 \in 0 .. MaxSeq /\ 0 \in 0 .. MaxAsked
  BY StacksPeerAssumption DEF TypeOK, TaskState, Request, Stage
<1>b. /\ \A stage \in Stage : At(stage, 0) \in TaskState
      /\ {"handshake", "ping"} \subseteq Task
  BY <1>a, TaskStates, NamedTasks
<1>1. ASSUME NEW t \in Task, AddressKnown(t) PROVE TypeOKNext
  BY <1>1, StartSigningTypes DEF AddressKnown, TypeOK
<1>2. ASSUME NEW t \in Task, SigningFails(t) PROVE TypeOKNext
  <2>1. AfterError(t) \in Stage
    BY <1>a DEF AfterError
  <2> QED
    BY <1>2, <2>1, MoveTypes, SettledTypes DEF SigningFails, TypeOK
<1>3. ASSUME NEW t \in Task, Sent(t) PROVE TypeOKNext
  <2>1. task' \in [Task -> TaskState]
    BY <1>3, <1>a, MoveTypes DEF Sent
  <2>2. requested' \subseteq Request
    BY <1>3 DEF Sent, Stamp, TypeOK
  <2>3. asked' \in [Request -> 0 .. MaxAsked]
    BY <1>3, StacksPeerAssumption DEF Sent, TypeOK
  <2>4. settled' \in 0 .. MaxSeq
    BY <1>3, SettledTypes DEF Sent
  <2> QED
    BY <1>3, <2>1, <2>2, <2>3, <2>4 DEF Sent, TypeOK
<1>4. ASSUME PingTimer PROVE TypeOKNext
  BY <1>4, <1>b, StartSigningTypes DEF PingTimer, TypeOK
<1>5. ASSUME NEW s \in Scan, RequestNeighbors(s) PROVE TypeOKNext
  BY <1>5, NamedTasks, StartSigningTypes DEF RequestNeighbors, TypeOK
<1>6. ASSUME ReceiveAccept PROVE TypeOKNext
  <2>1. task' \in [Task -> TaskState]
    BY <1>6, <1>a, <1>b DEF ReceiveAccept
  <2> QED
    BY <1>6, <2>1, <1>a, AnswerTypes DEF ReceiveAccept, TypeOK
<1>7. ASSUME ReceiveReject PROVE TypeOKNext
  <2>1. task' \in [Task -> TaskState]
    BY <1>7, <1>a, <1>b, MoveTypes DEF ReceiveReject
  <2>2. asked' \in [Request -> 0 .. MaxAsked]
    BY <1>7, <1>a DEF ReceiveReject, TypeOK
  <2>3. lied' \in BOOLEAN
    BY <1>7 DEF ReceiveReject, TypeOK
  <2> QED
    BY <1>7, <2>1, <2>2, <2>3 DEF ReceiveReject, TypeOK
<1>8. ASSUME ReceivePong PROVE TypeOKNext
  <2>1. task' \in [Task -> TaskState]
    BY <1>8, <1>a, <1>b DEF ReceivePong
  <2> QED
    BY <1>8, <2>1, <1>a, AnswerTypes DEF ReceivePong, TypeOK
<1>9. ASSUME ReceiveNeighbors PROVE TypeOKNext
  <2>1. task' \in [Task -> TaskState]
    BY <1>9, <1>a, <1>b DEF ReceiveNeighbors
  <2> QED
    BY <1>9, <2>1, <1>a, AnswerTypes DEF ReceiveNeighbors, TypeOK
<1>10. ASSUME NEW t \in Responder, NEW isHandshake \in BOOLEAN,
              ReceiveQuestion(t, isHandshake)
       PROVE  TypeOKNext
  <2>1. task' \in [Task -> TaskState]
    BY <1>10, <1>a, NamedTasks, MoveTypes DEF ReceiveQuestion
  <2>2. handshakeCompleted' \in BOOLEAN
    BY <1>10 DEF ReceiveQuestion, TypeOK
  <2> QED
    BY <1>10, <2>1, <2>2 DEF ReceiveQuestion, TypeOK
<1>11. ASSUME NEW t \in Responder, ReceivePing(t) PROVE TypeOKNext
  BY <1>11, NamedTasks, StartSigningTypes DEF ReceivePing, TypeOK
<1>12. ASSUME NEW r \in Request, Ignore(r) PROVE TypeOKNext
  <2>1. asked[r] - 1 \in 0 .. MaxAsked
    BY <1>12, StacksPeerAssumption DEF Ignore, TypeOK
  <2>2. asked' \in [Request -> 0 .. MaxAsked]
    BY <1>12, <2>1 DEF Ignore, TypeOK
  <2> QED
    BY <1>12, <1>a, <2>2 DEF Ignore, TypeOK
<1>13. ASSUME SocketClosed PROVE TypeOKNext
  <2>1. task' \in [Task -> TaskState]
    BY <1>13, <1>a, <1>b DEF SocketClosed
  <2>2. asked' \in [Request -> 0 .. MaxAsked]
    BY <1>13, <1>a DEF SocketClosed
  <2> QED
    BY <1>13, <2>1, <2>2 DEF SocketClosed, TypeOK
<1>14. ASSUME UNCHANGED vars PROVE TypeOKNext
  BY <1>14, <1>a DEF vars, TypeOK
<1> QED
  BY <1>1, <1>2, <1>3, <1>4, <1>5, <1>6, <1>7, <1>8, <1>9, <1>10, <1>11, <1>12,
     <1>13, <1>14 DEF Next, Async, Message

-----------------------------------------------------------------------------
(* Sequence numbers: what is being signed is a finite set of tasks, and a     *)
(* step adds one to it or takes one from it.                                 *)

\* There are finitely many tasks.
LEMMA FiniteSigning ==
  /\ IsFiniteSet(Signing) /\ Cardinality(Signing) \in Nat
  /\ IsFiniteSet(Signing') /\ Cardinality(Signing)' \in Nat
<1>1. IsFiniteSet((Scan \cup Responder) \cup {"handshake"})
  BY StacksPeerAssumption, FS_AddElement
<1>2. IsFiniteSet(((Scan \cup Responder) \cup {"handshake"}) \cup {"ping"})
  BY <1>1, FS_AddElement
<1>3. Task = ((Scan \cup Responder) \cup {"handshake"}) \cup {"ping"}
  BY DEF Task
<1>4. IsFiniteSet(Task)
  BY <1>2, <1>3
<1>5. Signing \in SUBSET Task /\ Signing' \in SUBSET Task
  BY DEF Signing
<1>6. IsFiniteSet(Signing) /\ IsFiniteSet(Signing')
  BY <1>4, <1>5, FS_Subset
<1>7. Cardinality(Signing) \in Nat /\ Cardinality(Signing') \in Nat
  BY <1>6, FS_CardinalityType
<1> QED
  BY <1>6, <1>7

\* A number that is taken is one more that is accounted for.
LEMMA StartAccounted ==
  ASSUME TypeOK, SeqAccounted, NEW t \in Task, t \notin Signing, StartSigning(t),
         UNCHANGED settled
  PROVE  SeqAccounted'
<1> DEFINE n == MaxSeq + 1
           c == Cardinality(Signing)
<1>1. Signing' = Signing \cup {t}
  BY DEF StartSigning, Signing, At, TypeOK
<1>2. Cardinality(Signing') = c + 1
  BY <1>1, FiniteSigning, FS_AddElement
<1>3. /\ n \in Nat \ {0} /\ c \in Nat /\ settled \in Nat
      /\ lastMessageSeqNumber \in 0 .. MaxSeq /\ MaxSeq \in Nat
      /\ (settled + c) % n = lastMessageSeqNumber
  BY StacksPeerAssumption, FiniteSigning DEF TypeOK, SeqAccounted
<1> HIDE DEF n, c
<1>4. ((settled + c) + 1) % n = IF ((settled + c) % n) = n - 1 THEN 0
                                ELSE ((settled + c) % n) + 1
  <2>1. settled + c \in Nat
    BY <1>3
  <2> QED
    BY <1>3, <2>1, NextModulo
<1>5. lastMessageSeqNumber' = IF lastMessageSeqNumber = n - 1 THEN 0
                              ELSE lastMessageSeqNumber + 1
  BY <1>3 DEF StartSigning, NextSeqNumber, n
<1>6. (settled + c) + 1 = settled' + Cardinality(Signing')
  BY <1>2, <1>3
<1>7. (settled' + Cardinality(Signing')) % n = lastMessageSeqNumber'
  BY <1>3, <1>4, <1>5, <1>6
<1> QED
  BY <1>7 DEF SeqAccounted, n

\* An envelope that is settled is accounted for as such.
LEMMA EndAccounted ==
  ASSUME TypeOK, SeqAccounted, NEW t \in Signing, NEW stage, stage # "sign",
         Move(t, stage), Settled, UNCHANGED lastMessageSeqNumber
  PROVE  SeqAccounted'
<1> DEFINE n == MaxSeq + 1
           c == Cardinality(Signing)
<1>1. Signing' = Signing \ {t}
  BY DEF Move, Signing, At, TypeOK
<1>2. Cardinality(Signing') = c - 1 /\ c - 1 \in Nat
  <2>1. Cardinality(Signing') = c - 1
    BY <1>1, FiniteSigning, FS_RemoveElement
  <2> QED
    BY <2>1, FiniteSigning
<1>3. /\ n \in Nat \ {0} /\ c \in Nat /\ settled \in 0 .. n - 1
      /\ (settled + c) % n = lastMessageSeqNumber
  BY StacksPeerAssumption, FiniteSigning DEF TypeOK, SeqAccounted
<1>4. settled' = (settled + 1) % n
  BY DEF Settled
<1> HIDE DEF n, c
<1>5. settled % n = settled
  BY <1>3, SmallModulo
<1>6. settled' = IF settled = n - 1 THEN 0 ELSE settled + 1
  <2>1. settled \in Nat
    BY <1>3
  <2>2. (settled + 1) % n = IF (settled % n) = n - 1 THEN 0 ELSE (settled % n) + 1
    BY <1>3, <2>1, NextModulo
  <2> QED
    BY <1>4, <1>5, <2>2
<1>7. (settled' + (c - 1)) % n = (settled + c) % n
  <2>1. CASE settled = n - 1
    <3>1. ((c - 1) + n) % n = (c - 1) % n
      BY <1>2, <1>3, OnceAround
    <3>2. settled + c = (c - 1) + n /\ settled' + (c - 1) = c - 1
      BY <1>2, <1>3, <1>6, <2>1
    <3> QED
      BY <3>1, <3>2
  <2>2. CASE settled # n - 1
    <3>1. settled' + (c - 1) = settled + c
      BY <1>2, <1>3, <1>6, <2>2
    <3> QED
      BY <3>1
  <2> QED
    BY <2>1, <2>2
<1>8. (settled' + Cardinality(Signing')) % n = lastMessageSeqNumber'
  BY <1>2, <1>3, <1>7
<1> QED
  BY <1>8 DEF SeqAccounted, n

\* Whoever signs goes on, and nobody begins.
LEMMA StayAccounted ==
  ASSUME SeqAccounted, UNCHANGED <<settled, lastMessageSeqNumber>>,
         \A t \in Task : task'[t].stage = "sign" <=> task[t].stage = "sign"
  PROVE  SeqAccounted'
<1>1. Signing' = Signing
  BY DEF Signing
<1> QED
  BY <1>1 DEF SeqAccounted

\* At first nothing is signed.
LEMMA InitAccounted == Init => SeqAccounted
<1> SUFFICES ASSUME Init PROVE SeqAccounted
  OBVIOUS
<1>1. Signing = {}
  BY DEF Init, Signing, At
<1>2. Cardinality(Signing) = 0
  BY <1>1, FS_EmptySet
<1>3. MaxSeq + 1 \in Nat \ {0} /\ 0 \in 0 .. (MaxSeq + 1) - 1
  BY StacksPeerAssumption
<1>4. 0 % (MaxSeq + 1) = 0
  BY <1>3, SmallModulo
<1> QED
  BY <1>2, <1>4 DEF SeqAccounted, Init

\* Every step keeps account of the numbers.
LEMMA StepAccounted ==
  ASSUME TypeOK, SeqAccounted, [Next]_vars
  PROVE  SeqAccounted'
<1>a. task \in [Task -> TaskState] /\ \A stage, seq : At(stage, seq).stage = stage
  BY TaskStates DEF TypeOK, TaskState
<1>1. ASSUME NEW t \in Task, AddressKnown(t) PROVE SeqAccounted'
  <2>1. t \notin Signing
    BY <1>1 DEF AddressKnown, Signing
  <2> QED
    BY <1>1, <2>1, StartAccounted DEF AddressKnown
<1>2. ASSUME NEW t \in Task, SigningFails(t) PROVE SeqAccounted'
  <2>1. AfterError(t) # "sign"
    BY DEF AfterError
  <2> QED
    BY <1>2, <2>1, EndAccounted DEF SigningFails
<1>3. ASSUME NEW t \in Task, Sent(t) PROVE SeqAccounted'
  BY <1>3, EndAccounted DEF Sent
<1>4. ASSUME PingTimer PROVE SeqAccounted'
  <2>1. "ping" \in Task /\ "ping" \notin Signing
    BY <1>4, NamedTasks DEF PingTimer, PingDue, Signing
  <2> QED
    BY <1>4, <2>1, StartAccounted DEF PingTimer
<1>5. ASSUME NEW s \in Scan, RequestNeighbors(s) PROVE SeqAccounted'
  <2>1. s \in Task /\ s \notin Signing
    BY <1>5, NamedTasks DEF RequestNeighbors, Signing
  <2> QED
    BY <1>5, <2>1, StartAccounted DEF RequestNeighbors
<1>6. ASSUME ReceiveAccept PROVE SeqAccounted'
  BY <1>6, <1>a, StayAccounted DEF ReceiveAccept
<1>7. ASSUME ReceiveReject PROVE SeqAccounted'
  BY <1>7, <1>a, StayAccounted DEF ReceiveReject, Move
<1>8. ASSUME ReceivePong PROVE SeqAccounted'
  BY <1>8, <1>a, StayAccounted DEF ReceivePong
<1>9. ASSUME ReceiveNeighbors PROVE SeqAccounted'
  BY <1>9, <1>a, StayAccounted DEF ReceiveNeighbors
<1>10. ASSUME NEW t \in Responder, NEW isHandshake \in BOOLEAN,
              ReceiveQuestion(t, isHandshake)
       PROVE  SeqAccounted'
  BY <1>10, <1>a, StayAccounted DEF ReceiveQuestion, Move
<1>11. ASSUME NEW t \in Responder, ReceivePing(t) PROVE SeqAccounted'
  <2>1. t \in Task /\ t \notin Signing
    BY <1>11, NamedTasks DEF ReceivePing, Signing
  <2> QED
    BY <1>11, <2>1, StartAccounted DEF ReceivePing
<1>12. ASSUME NEW r \in Request, Ignore(r) PROVE SeqAccounted'
  BY <1>12, StayAccounted DEF Ignore
<1>13. ASSUME SocketClosed PROVE SeqAccounted'
  BY <1>13, <1>a, StayAccounted DEF SocketClosed
<1>14. ASSUME UNCHANGED vars PROVE SeqAccounted'
  BY <1>14, StayAccounted DEF vars
<1> QED
  BY <1>1, <1>2, <1>3, <1>4, <1>5, <1>6, <1>7, <1>8, <1>9, <1>10, <1>11, <1>12,
     <1>13, <1>14 DEF Next, Async, Message

-----------------------------------------------------------------------------
(* Durations.  A peer that only answers what it was asked has one handshake   *)
(* and one ping to answer at most, while their tasks wait for the reply.      *)

OneAtATime ==
  ~lied => \A r \in {"handshake", "ping"} :
             asked[r] > 0 => asked[r] = 1 /\ task[r].stage = "reply"

\* What the peer has to answer was stamped when it was sent.
AskedIsStamped == \A r \in Request : asked[r] > 0 => r \in requested

\* The inductive invariant of a connection.
PeerInv ==
  /\ TypeOK
  /\ SeqAccounted
  /\ OneAtATime
  /\ AskedIsStamped
  /\ DurationsAreReal

\* The answer of an honest peer: one request less to answer, measured from the
\* right one.
LEMMA HonestAnswer ==
  ASSUME PeerInv, NEW r \in Request, Answer(r)
  PROVE  /\ \A q \in Request : asked'[q] > 0 => asked[q] > 0 /\ asked'[q] <= asked[q]
         /\ lied \in BOOLEAN
         /\ lied => lied'
         /\ ~lied' => asked[r] > 0 /\ asked'[r] = asked[r] - 1
         /\ DurationsAreReal'
<1>1. asked \in [Request -> 0 .. MaxAsked] /\ lied \in BOOLEAN
  BY DEF PeerInv, TypeOK
<1>2. /\ \A q \in Request : asked'[q] > 0 => asked[q] > 0 /\ asked'[q] <= asked[q]
      /\ lied => lied'
      /\ ~lied' => asked[r] > 0 /\ asked'[r] = asked[r] - 1
  <2>1. CASE asked[r] > 0
    BY <1>1, <2>1, StacksPeerAssumption DEF Answer
  <2>2. CASE ~ (asked[r] > 0)
    BY <1>1, <2>2, StacksPeerAssumption DEF Answer
  <2> QED
    BY <2>1, <2>2
<1>3. DurationsAreReal'
  <2> SUFFICES ASSUME ~lied' PROVE DurationsAreReal'
    BY DEF DurationsAreReal
  <2>1. asked[r] > 0 /\ r \in requested /\ ~lied /\ asked[r] \in Nat
    BY <1>1, <1>2, StacksPeerAssumption DEF PeerInv, AskedIsStamped
  <2>2. measured'.since = IF asked[r] = 1 THEN "own" ELSE "later"
    BY <2>1 DEF Answer, Measure
  <2>3. measured'.of = r
    BY DEF Answer, Measure
  <2>4. r # "getNeighbors" => asked[r] = 1
    BY <2>1 DEF PeerInv, OneAtATime, Request
  <2> QED
    BY <2>2, <2>3, <2>4 DEF DurationsAreReal
<1> QED
  BY <1>1, <1>2, <1>3

\* Starting to sign does not leave a task that waits for a reply.
LEMMA StartKeepsOne ==
  ASSUME PeerInv, NEW t \in Task, task[t].stage # "reply", StartSigning(t),
         UNCHANGED <<requested, asked, lied, measured>>
  PROVE  OneAtATime' /\ AskedIsStamped' /\ DurationsAreReal'
<1>1. \A r \in {"handshake", "ping"} : task[r].stage = "reply" => task'[r].stage = "reply"
  BY NamedTasks, TaskStates DEF StartSigning, PeerInv, TypeOK
<1> QED
  BY <1>1 DEF PeerInv, OneAtATime, AskedIsStamped, DurationsAreReal

\* Every step keeps what durations rest on.
LEMMA StepMeasured ==
  ASSUME PeerInv, [Next]_vars
  PROVE  OneAtATime' /\ AskedIsStamped' /\ DurationsAreReal'
<1> DEFINE Goal == OneAtATime' /\ AskedIsStamped' /\ DurationsAreReal'
<1>a. /\ task \in [Task -> TaskState] /\ \A stage, seq : At(stage, seq).stage = stage
      /\ {"handshake", "ping"} \subseteq Task /\ {"handshake", "ping"} \subseteq Request
      /\ Request = {"handshake", "ping", "getNeighbors"}
      /\ asked \in [Request -> 0 .. MaxAsked] /\ MaxAsked \in Nat
  BY TaskStates, NamedTasks, StacksPeerAssumption DEF PeerInv, TypeOK, TaskState, Request
<1>b. OneAtATime /\ AskedIsStamped /\ DurationsAreReal
  BY DEF PeerInv
<1>1. ASSUME NEW t \in Task, AddressKnown(t) PROVE Goal
  BY <1>1, StartKeepsOne DEF AddressKnown
<1>2. ASSUME NEW t \in Task, SigningFails(t) PROVE Goal
  <2>1. task[t].stage # "reply"
    BY <1>2 DEF SigningFails, Signing
  <2>2. \A r \in {"handshake", "ping"} : task[r].stage = "reply" => task'[r].stage = "reply"
    BY <1>2, <1>a, <2>1 DEF SigningFails, Move
  <2> QED
    BY <1>2, <1>b, <2>2 DEF SigningFails, OneAtATime, AskedIsStamped, DurationsAreReal
<1>3. ASSUME NEW t \in Task, Sent(t) PROVE Goal
  <2>1. task[t].stage = "sign" /\ t \in Task
    BY <1>3 DEF Sent, Signing
  <2>2. DurationsAreReal'
    BY <1>3, <1>b DEF Sent, DurationsAreReal
  <2>3. \A q \in Request : asked'[q] =
            IF q = RequestOf(t) /\ socketOpen /\ asked[q] < MaxAsked
            THEN asked[q] + 1 ELSE asked[q]
    BY <1>3 DEF Sent
  <2>4. AskedIsStamped'
    <3> SUFFICES ASSUME NEW q \in Request, asked'[q] > 0 PROVE q \in requested'
      BY DEF AskedIsStamped
    <3>1. CASE q = RequestOf(t)
      BY <1>3, <3>1 DEF Sent, Stamp
    <3>2. CASE q # RequestOf(t)
      BY <1>3, <1>b, <2>3, <3>2 DEF Sent, Stamp, AskedIsStamped
    <3> QED
      BY <3>1, <3>2
  <2>5. OneAtATime'
    <3> SUFFICES ASSUME ~lied', NEW r \in {"handshake", "ping"}, asked'[r] > 0
                 PROVE  asked'[r] = 1 /\ task'[r].stage = "reply"
      BY DEF OneAtATime
    <3>1. ~lied
      BY <1>3 DEF Sent
    <3>2. CASE t = r
      <4>1. RequestOf(t) = r
        BY <3>2, NamedTasks DEF RequestOf
      <4>2. asked[r] = 0
        BY <1>a, <1>b, <2>1, <3>1, <3>2 DEF OneAtATime
      <4>3. asked'[r] = 1
        BY <1>a, <2>3, <4>2
      <4>4. task'[r].stage = "reply"
        BY <1>3, <1>a, <3>2, <4>1 DEF Sent, Move
      <4> QED
        BY <4>3, <4>4
    <3>3. CASE t # r
      <4>1. RequestOf(t) # r
        BY <3>3 DEF RequestOf
      <4>2. asked'[r] = asked[r]
        BY <1>a, <2>3, <4>1
      <4>3. task'[r] = task[r]
        BY <1>3, <1>a, <3>3 DEF Sent, Move
      <4> QED
        BY <1>b, <3>1, <4>2, <4>3 DEF OneAtATime
    <3> QED
      BY <3>2, <3>3
  <2> QED
    BY <2>2, <2>4, <2>5
<1>4. ASSUME PingTimer PROVE Goal
  BY <1>4, <1>a, StartKeepsOne DEF PingTimer, PingDue
<1>5. ASSUME NEW s \in Scan, RequestNeighbors(s) PROVE Goal
  BY <1>5, NamedTasks, StartKeepsOne DEF RequestNeighbors
<1>6. ASSUME ReceiveAccept PROVE Goal
  <2>1. Answer("handshake") /\ requested' = requested
    BY <1>6 DEF ReceiveAccept
  <2>2. task'["ping"].stage = "reply" \/ task["ping"].stage # "reply"
    BY <1>6, <1>a DEF ReceiveAccept
  <2>3. asked'["ping"] = asked["ping"]
    BY <2>1, <1>a DEF Answer
  <2>4. OneAtATime'
    BY <1>a, <1>b, <2>1, <2>2, <2>3, HonestAnswer DEF OneAtATime
  <2>5. AskedIsStamped'
    BY <1>a, <1>b, <2>1, HonestAnswer DEF AskedIsStamped
  <2> QED
    BY <1>a, <2>1, <2>4, <2>5, HonestAnswer
<1>7. ASSUME ReceiveReject PROVE Goal
  <2>1. /\ asked' = [asked EXCEPT !["handshake"] = 0]
        /\ lied' = (lied \/ asked["handshake"] = 0)
        /\ requested' = requested /\ measured' = measured
    BY <1>7 DEF ReceiveReject
  <2>2. task'["ping"] = task["ping"]
    BY <1>7, <1>a DEF ReceiveReject, Move
  <2>3. ~lied' => ~lied
    BY <2>1, Zenon
  <2>4. asked'["handshake"] = 0 /\ asked'["ping"] = asked["ping"]
    BY <2>1, <1>a
  <2>5. OneAtATime'
    BY <1>b, <2>2, <2>3, <2>4 DEF OneAtATime
  <2>6. AskedIsStamped'
    BY <1>a, <1>b, <2>1 DEF AskedIsStamped
  <2>7. DurationsAreReal'
    BY <1>b, <2>1 DEF DurationsAreReal
  <2> QED
    BY <2>5, <2>6, <2>7
<1>8. ASSUME ReceivePong PROVE Goal
  <2>1. Answer("ping") /\ requested' = requested
    BY <1>8 DEF ReceivePong
  <2>2. task'["handshake"] = task["handshake"]
    BY <1>8, <1>a DEF ReceivePong
  <2>3. asked'["handshake"] = asked["handshake"]
    BY <2>1, <1>a DEF Answer
  <2>4. OneAtATime'
    BY <1>a, <1>b, <2>1, <2>2, <2>3, HonestAnswer DEF OneAtATime
  <2>5. AskedIsStamped'
    BY <1>a, <1>b, <2>1, HonestAnswer DEF AskedIsStamped
  <2> QED
    BY <1>a, <2>1, <2>4, <2>5, HonestAnswer
<1>9. ASSUME ReceiveNeighbors PROVE Goal
  <2>1. Answer("getNeighbors") /\ requested' = requested
    BY <1>9 DEF ReceiveNeighbors
  <2>2. task'["handshake"] = task["handshake"] /\ task'["ping"] = task["ping"]
    BY <1>9, <1>a, NamedTasks DEF ReceiveNeighbors
  <2>3. asked'["handshake"] = asked["handshake"] /\ asked'["ping"] = asked["ping"]
    BY <2>1, <1>a DEF Answer
  <2>4. lied => lied'
    BY <1>a, <2>1, HonestAnswer
  <2>5. OneAtATime'
    BY <1>b, <2>2, <2>3, <2>4 DEF OneAtATime
  <2>6. AskedIsStamped'
    BY <1>a, <1>b, <2>1, HonestAnswer DEF AskedIsStamped
  <2> QED
    BY <1>a, <2>1, <2>5, <2>6, HonestAnswer
<1>10. ASSUME NEW t \in Responder, NEW isHandshake \in BOOLEAN,
              ReceiveQuestion(t, isHandshake)
       PROVE  Goal
  <2>1. \A r \in {"handshake", "ping"} : task'[r] = task[r]
    BY <1>10, <1>a, NamedTasks DEF ReceiveQuestion, Move
  <2> QED
    BY <1>10, <1>b, <2>1 DEF ReceiveQuestion, OneAtATime, AskedIsStamped, DurationsAreReal
<1>11. ASSUME NEW t \in Responder, ReceivePing(t) PROVE Goal
  BY <1>11, NamedTasks, StartKeepsOne DEF ReceivePing
<1>12. ASSUME NEW r \in Request, Ignore(r) PROVE Goal
  <2>1. \A q \in Request : asked'[q] = IF q = r THEN asked[q] - 1 ELSE asked[q]
    BY <1>12, <1>a DEF Ignore
  <2>2. OneAtATime'
    BY <1>12, <1>a, <1>b, <2>1 DEF Ignore, OneAtATime
  <2>3. AskedIsStamped'
    BY <1>12, <1>a, <1>b, <2>1 DEF Ignore, AskedIsStamped
  <2> QED
    BY <1>12, <1>b, <2>2, <2>3 DEF Ignore, DurationsAreReal
<1>13. ASSUME SocketClosed PROVE Goal
  <2>1. \A q \in Request : asked'[q] = 0
    BY <1>13 DEF SocketClosed
  <2> QED
    BY <1>13, <1>a, <1>b, <2>1 DEF SocketClosed, OneAtATime, AskedIsStamped, DurationsAreReal
<1>14. ASSUME UNCHANGED vars PROVE Goal
  BY <1>14, <1>b DEF vars, OneAtATime, AskedIsStamped, DurationsAreReal
<1> QED
  BY <1>1, <1>2, <1>3, <1>4, <1>5, <1>6, <1>7, <1>8, <1>9, <1>10, <1>11, <1>12,
     <1>13, <1>14 DEF Next, Async, Message

-----------------------------------------------------------------------------
(* What the comment on sign says of seq.                                     *)

\* One envelope is signed at a time.
Alone == \A t, u \in Signing : t = u

\* The number it has taken is the number of envelopes before it.
NumberIsCount == \A t \in Signing : task[t].seq = settled

LEMMA StartCounts ==
  ASSUME TypeOK, SeqAccounted, Alone', NEW t \in Task, t \notin Signing,
         StartSigning(t), UNCHANGED settled
  PROVE  NumberIsCount'
<1>1. Signing' = Signing \cup {t} /\ task'[t].seq = lastMessageSeqNumber
  BY DEF StartSigning, Signing, At, TypeOK
<1>2. Signing = {}
  BY <1>1 DEF Alone
<1>3. settled = lastMessageSeqNumber
  <2>1. Cardinality(Signing) = 0
    BY <1>2, FS_EmptySet
  <2>2. settled \in 0 .. (MaxSeq + 1) - 1 /\ MaxSeq + 1 \in Nat \ {0}
    BY StacksPeerAssumption DEF TypeOK
  <2>3. settled % (MaxSeq + 1) = settled
    BY <2>2, SmallModulo
  <2>4. settled + Cardinality(Signing) = settled
    BY <2>1, <2>2
  <2> QED
    BY <2>3, <2>4 DEF SeqAccounted
<1>4. Signing' = {t}
  BY <1>1, <1>2
<1> QED
  BY <1>1, <1>3, <1>4 DEF NumberIsCount

\* The last one that was signed is settled: none is left.
LEMMA EndCounts ==
  ASSUME TypeOK, Alone, NEW t \in Signing, NEW stage, stage # "sign", Move(t, stage)
  PROVE  NumberIsCount'
<1>1. Signing' = {}
  BY DEF Move, Signing, At, TypeOK, Alone
<1> QED
  BY <1>1 DEF NumberIsCount

\* Whoever signs goes on with the number it has.
LEMMA StayCounts ==
  ASSUME NumberIsCount, UNCHANGED settled,
         \A t \in Task : task'[t].stage = "sign" => task'[t] = task[t]
  PROVE  NumberIsCount'
<1>1. \A t \in Signing' : t \in Signing /\ task'[t] = task[t]
  BY DEF Signing
<1> QED
  BY <1>1 DEF NumberIsCount

LEMMA StepCounts ==
  ASSUME TypeOK, SeqAccounted, Alone, Alone', NumberIsCount, [Next]_vars
  PROVE  NumberIsCount'
<1>a. task \in [Task -> TaskState] /\ \A stage, seq : At(stage, seq).stage = stage
  BY TaskStates DEF TypeOK, TaskState
<1>1. ASSUME NEW t \in Task, AddressKnown(t) PROVE NumberIsCount'
  <2>1. t \notin Signing
    BY <1>1 DEF AddressKnown, Signing
  <2> QED
    BY <1>1, <2>1, StartCounts DEF AddressKnown
<1>2. ASSUME NEW t \in Task, SigningFails(t) PROVE NumberIsCount'
  <2>1. AfterError(t) # "sign"
    BY DEF AfterError
  <2> QED
    BY <1>2, <2>1, EndCounts DEF SigningFails
<1>3. ASSUME NEW t \in Task, Sent(t) PROVE NumberIsCount'
  BY <1>3, EndCounts DEF Sent
<1>4. ASSUME PingTimer PROVE NumberIsCount'
  <2>1. "ping" \in Task /\ "ping" \notin Signing
    BY <1>4, NamedTasks DEF PingTimer, PingDue, Signing
  <2> QED
    BY <1>4, <2>1, StartCounts DEF PingTimer
<1>5. ASSUME NEW s \in Scan, RequestNeighbors(s) PROVE NumberIsCount'
  <2>1. s \in Task /\ s \notin Signing
    BY <1>5, NamedTasks DEF RequestNeighbors, Signing
  <2> QED
    BY <1>5, <2>1, StartCounts DEF RequestNeighbors
<1>6. ASSUME ReceiveAccept PROVE NumberIsCount'
  BY <1>6, <1>a, StayCounts DEF ReceiveAccept
<1>7. ASSUME ReceiveReject PROVE NumberIsCount'
  BY <1>7, <1>a, StayCounts DEF ReceiveReject, Move
<1>8. ASSUME ReceivePong PROVE NumberIsCount'
  BY <1>8, <1>a, StayCounts DEF ReceivePong
<1>9. ASSUME ReceiveNeighbors PROVE NumberIsCount'
  BY <1>9, <1>a, StayCounts DEF ReceiveNeighbors
<1>10. ASSUME NEW t \in Responder, NEW isHandshake \in BOOLEAN,
              ReceiveQuestion(t, isHandshake)
       PROVE  NumberIsCount'
  BY <1>10, <1>a, StayCounts DEF ReceiveQuestion, Move
<1>11. ASSUME NEW t \in Responder, ReceivePing(t) PROVE NumberIsCount'
  <2>1. t \in Task /\ t \notin Signing
    BY <1>11, NamedTasks DEF ReceivePing, Signing
  <2> QED
    BY <1>11, <2>1, StartCounts DEF ReceivePing
<1>12. ASSUME NEW r \in Request, Ignore(r) PROVE NumberIsCount'
  BY <1>12, StayCounts DEF Ignore
<1>13. ASSUME SocketClosed PROVE NumberIsCount'
  BY <1>13, <1>a, StayCounts DEF SocketClosed
<1>14. ASSUME UNCHANGED vars PROVE NumberIsCount'
  BY <1>14, StayCounts DEF vars
<1> QED
  BY <1>1, <1>2, <1>3, <1>4, <1>5, <1>6, <1>7, <1>8, <1>9, <1>10, <1>11, <1>12,
     <1>13, <1>14 DEF Next, Async, Message

-----------------------------------------------------------------------------
(* Theorems.                                                                 *)

\* The inductive invariant of one connection (peer-handler.ts, StacksPeer).
THEOREM PeerInvariant == Spec => []PeerInv
<1>1. Init => PeerInv
  <2> SUFFICES ASSUME Init PROVE PeerInv
    OBVIOUS
  <2>1. \A r \in Request : ~ (asked[r] > 0)
    BY DEF Init
  <2>2. OneAtATime /\ AskedIsStamped
    BY <2>1 DEF OneAtATime, AskedIsStamped, Request
  <2>3. DurationsAreReal
    BY DEF Init, DurationsAreReal
  <2> QED
    BY <2>2, <2>3, InitTypes, InitAccounted DEF PeerInv
<1>2. PeerInv /\ [Next]_vars => PeerInv'
  BY StepTypes, StepAccounted, StepMeasured DEF PeerInv
<1> QED
  BY <1>1, <1>2, PTL DEF Spec

\* Every reachable state of a connection has its type.
THEOREM PeerTypeCorrect == Spec => []TypeOK
<1>1. PeerInv => TypeOK
  BY DEF PeerInv
<1> QED
  BY <1>1, PeerInvariant, PTL

\* Sequence numbers are neither skipped nor, within one round of the counter, taken
\* twice, whatever is at its await at once and whatever fails (getNextSeqNumber,
\* createAndSignEnvelope).
THEOREM NumbersAreAccounted == Spec => []SeqAccounted
<1>1. PeerInv => SeqAccounted
  BY DEF PeerInv
<1> QED
  BY <1>1, PeerInvariant, PTL

\* What an honest peer is measured by is the request it answers
\* (setupMessageDurationTimers).
THEOREM MeasuredDurations == Spec => []DurationsAreReal
<1>1. PeerInv => DurationsAreReal
  BY DEF PeerInv
<1> QED
  BY <1>1, PeerInvariant, PTL

\* While no two envelopes are signed at once, seq is what the comment on sign says,
\* the number of messages sent so far: what the run seq refutes comes from
\* signatures that overlap and from nothing else.
THEOREM OverlapIsTheCause == Spec /\ []Alone => SeqCountsMessages
<1>1. Init => NumberIsCount
  BY DEF Init, NumberIsCount, Signing, At
<1>2. /\ TypeOK /\ SeqAccounted /\ Alone /\ Alone' /\ NumberIsCount /\ [Next]_vars
      => NumberIsCount'
  BY StepCounts
<1>3. NumberIsCount => [~MayFail => \A t \in Signing : Sent(t) => task[t].seq = settled]_vars
  BY DEF NumberIsCount
<1> QED
  BY <1>1, <1>2, <1>3, PeerTypeCorrect, NumbersAreAccounted, PTL
     DEF Spec, SeqCountsMessages
=============================================================================
