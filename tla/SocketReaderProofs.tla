------------------------- MODULE SocketReaderProofs -------------------------
(***************************************************************************)
(* What SocketReader promises, for streams of every length, with payloads  *)
(* of every size, cut into chunks in every way.                            *)
(*                                                                         *)
(* A stream is its messages laid end to end, so that what is said of it    *)
(* takes induction over them.  The induction theorems of the library take  *)
(* an operator; here it is carried by sets, and rests on Nat being well    *)
(* founded.                                                                *)
(***************************************************************************)
EXTENDS SocketReader, SequenceTheorems, WellFoundedInduction, TLAPS

-----------------------------------------------------------------------------
(* Induction.                                                              *)

Below == OpToRel(<, Nat)

LEMMA BelowIsLess == \A m, n \in Nat : <<m, n>> \in Below <=> m < n
  BY DEF Below, OpToRel

\* A set of numbers with 0 in it, and with n the next one, has all of them: if
\* some were missing there would be a least one.
LEMMA SetInduction ==
  ASSUME NEW A, 0 \in A, \A n \in Nat : n \in A => n + 1 \in A
  PROVE  Nat \subseteq A
<1> DEFINE T == Nat \ A
<1>1. SUFFICES ASSUME T # {} PROVE FALSE
  OBVIOUS
<1>2. IsWellFoundedOn(Below, Nat)
  BY NatLessThanWellFounded DEF Below
<1>3. PICK x \in T : \A y \in T : ~ (<<y, x>> \in Below)
  <2>1. T \subseteq Nat
    OBVIOUS
  <2> HIDE DEF T
  <2> QED BY <1>1, <1>2, <2>1, WFMin
<1>4. x \in Nat /\ x # 0
  BY <1>3
<1>5. x - 1 \in Nat /\ x - 1 < x
  BY <1>4
<1>6. x - 1 \notin T
  BY <1>3, <1>4, <1>5, BelowIsLess
<1> QED
  BY <1>3, <1>4, <1>5, <1>6

-----------------------------------------------------------------------------
(* The stream of a script.                                                 *)

\* One step of the recursion that defines Ends.
Step(s, f) ==
  [m \in 0 .. Len(s) |-> IF m = 0 THEN 0 ELSE f[m - 1] + PreambleUnits + s[m].payload]

\* The recursion has a solution: one on 0 .. n extends to one on 0 .. n + 1.
LEMMA EndsExists ==
  ASSUME NEW s \in Seq(Message)
  PROVE  \E f : f = Step(s, f)
<1> DEFINE Upto(n, f) ==
      [m \in 0 .. n |-> IF m = 0 THEN 0 ELSE f[m - 1] + PreambleUnits + s[m].payload]
    A == {n \in Nat : \E f : f = Upto(n, f)}
<1>1. 0 \in A
  <2>1. [m \in 0 .. 0 |-> 0] = Upto(0, [m \in 0 .. 0 |-> 0])
    OBVIOUS
  <2> QED BY <2>1
<1>2. ASSUME NEW n \in Nat, n \in A PROVE n + 1 \in A
  <2>1. PICK f : f = Upto(n, f)
    BY <1>2
  <2> DEFINE g == [m \in 0 .. n + 1 |->
        IF m <= n THEN f[m] ELSE f[n] + PreambleUnits + s[m].payload]
  <2>2. g = Upto(n + 1, g)
    <3>1. ASSUME NEW m \in 0 .. n + 1, m # 0
          PROVE  g[m] = g[m - 1] + PreambleUnits + s[m].payload
      <4>1. g[m - 1] = f[m - 1]
        BY <3>1
      <4>2. CASE m <= n
        BY <2>1, <3>1, <4>1, <4>2
      <4>3. CASE m = n + 1
        BY <3>1, <4>1, <4>3
      <4> QED BY <3>1, <4>2, <4>3
    <3>2. g[0] = 0
      BY <2>1
    <3>3. \A m \in 0 .. n + 1 : g[m] =
            IF m = 0 THEN 0 ELSE g[m - 1] + PreambleUnits + s[m].payload
      BY <3>1, <3>2
    <3>4. g = [m \in 0 .. n + 1 |-> g[m]]
      OBVIOUS
    <3> HIDE DEF g
    <3>5. Upto(n + 1, g) = [m \in 0 .. n + 1 |-> g[m]]
      BY <3>3
    <3> QED BY <3>4, <3>5
  <2> HIDE DEF Upto, g
  <2> QED BY <2>2
<1>3. Len(s) \in A
  <2> HIDE DEF A
  <2> QED BY <1>1, <1>2, SetInduction
<1> QED
  BY <1>3 DEF Step

LEMMA EndsStep ==
  ASSUME NEW s \in Seq(Message)
  PROVE  /\ Ends(s) = Step(s, Ends(s))
         /\ Ends(s)[0] = 0
         /\ \A m \in DOMAIN s :
              Ends(s)[m] = Ends(s)[m - 1] + PreambleUnits + s[m].payload
<1>1. Ends(s) = CHOOSE f : f = Step(s, f)
  BY DEF Ends, Step
<1>2. Ends(s) = Step(s, Ends(s))
  BY <1>1, EndsExists
<1> HIDE DEF Ends
<1>3. Len(s) \in Nat /\ DOMAIN s = 1 .. Len(s)
  OBVIOUS
<1>4. Step(s, Ends(s))[0] = 0
  BY <1>3 DEF Step
<1>5. ASSUME NEW m \in DOMAIN s
      PROVE  Step(s, Ends(s))[m] = Ends(s)[m - 1] + PreambleUnits + s[m].payload
  BY <1>3 DEF Step
<1> QED
  BY <1>2, <1>4, <1>5

LEMMA EndsType ==
  ASSUME NEW s \in Seq(Message)
  PROVE  \A m \in 0 .. Len(s) : Ends(s)[m] \in Nat
<1> DEFINE A == {m \in Nat : m <= Len(s) => Ends(s)[m] \in Nat}
<1>1. 0 \in A
  BY EndsStep
<1>2. ASSUME NEW m \in Nat, m \in A PROVE m + 1 \in A
  <2>1. SUFFICES ASSUME m + 1 <= Len(s) PROVE Ends(s)[m + 1] \in Nat
    OBVIOUS
  <2>2. m + 1 \in DOMAIN s /\ s[m + 1] \in Message
    BY <2>1
  <2>3. Ends(s)[m + 1] = Ends(s)[m] + PreambleUnits + s[m + 1].payload
    BY <2>2, EndsStep
  <2> QED BY <1>2, <2>1, <2>2, <2>3, ReaderAssumption DEF Message
<1>3. Nat \subseteq A
  <2> HIDE DEF A
  <2> QED BY <1>1, <1>2, SetInduction
<1> QED
  BY <1>3

\* A message ends before the next one begins.
LEMMA EndsGrow ==
  ASSUME NEW s \in Seq(Message)
  PROVE  \A m, n \in 0 .. Len(s) : m <= n => Ends(s)[m] <= Ends(s)[n]
<1> SUFFICES ASSUME NEW m \in 0 .. Len(s)
             PROVE  \A n \in 0 .. Len(s) : m <= n => Ends(s)[m] <= Ends(s)[n]
  OBVIOUS
<1> DEFINE A == {n \in Nat : n <= Len(s) /\ m <= n => Ends(s)[m] <= Ends(s)[n]}
<1>1. 0 \in A
  BY EndsType
<1>2. ASSUME NEW n \in Nat, n \in A PROVE n + 1 \in A
  <2>1. SUFFICES ASSUME n + 1 <= Len(s), m <= n + 1 PROVE Ends(s)[m] <= Ends(s)[n + 1]
    OBVIOUS
  <2>2. n + 1 \in DOMAIN s /\ s[n + 1] \in Message
    BY <2>1
  <2>3. Ends(s)[n + 1] = Ends(s)[n] + PreambleUnits + s[n + 1].payload
    BY <2>2, EndsStep
  <2>4. Ends(s)[m] \in Nat /\ Ends(s)[n] \in Nat
    BY <2>1, EndsType
  <2>5. Ends(s)[n] <= Ends(s)[n + 1]
    BY <2>2, <2>3, <2>4, ReaderAssumption DEF Message
  <2> QED BY <1>2, <2>1, <2>3, <2>4, <2>5, EndsType
<1>3. Nat \subseteq A
  <2> HIDE DEF A
  <2> QED BY <1>1, <1>2, SetInduction
<1> QED
  BY <1>3

\* Every place of the stream is in some message.
LEMMA EveryPlace ==
  ASSUME NEW s \in Seq(Message)
  PROVE  \A i \in 1 .. Ends(s)[Len(s)] :
           \E m \in DOMAIN s : Ends(s)[m - 1] < i /\ i <= Ends(s)[m]
<1> DEFINE In(i, n) == \E m \in 1 .. n : Ends(s)[m - 1] < i /\ i <= Ends(s)[m]
    A == {n \in Nat : n <= Len(s) => \A i \in 1 .. Ends(s)[n] : In(i, n)}
<1>1. 0 \in A
  BY EndsStep
<1>2. ASSUME NEW n \in Nat, n \in A PROVE n + 1 \in A
  <2>1. SUFFICES ASSUME n + 1 <= Len(s), NEW i \in 1 .. Ends(s)[n + 1]
                 PROVE  In(i, n + 1)
    OBVIOUS
  <2>2. Ends(s)[n] \in Nat /\ Ends(s)[n + 1] \in Nat
    BY <2>1, EndsType
  <2>3. CASE i <= Ends(s)[n]
    BY <1>2, <2>1, <2>2, <2>3
  <2>4. CASE Ends(s)[n] < i
    BY <2>1, <2>2, <2>4
  <2> QED BY <2>2, <2>3, <2>4
<1>3. Len(s) \in A
  <2> HIDE DEF A
  <2> QED BY <1>1, <1>2, SetInduction
<1> QED
  BY <1>3

LEMMA ScriptType ==
  ASSUME NEW s \in Seq(Message)
  PROVE  /\ Len(s) \in Nat /\ DOMAIN s = 1 .. Len(s)
         /\ PreambleUnits \in Nat /\ PreambleUnits > 0
         /\ \A m \in DOMAIN s :
              /\ m \in Nat /\ m \in 1 .. Len(s)
              /\ m \in 0 .. Len(s) /\ m - 1 \in 0 .. Len(s)
              /\ s[m].payload \in Nat /\ s[m].payload > 0
              /\ s[m].kind \in AllKinds
<1>1. Len(s) \in Nat /\ DOMAIN s = 1 .. Len(s) /\ \A m \in DOMAIN s : s[m] \in Message
  OBVIOUS
<1>2. \A x \in Message : x.payload \in Nat /\ x.payload > 0 /\ x.kind \in AllKinds
  BY ReaderAssumption DEF Message
<1> QED
  BY <1>1, <1>2, ReaderAssumption

\* The stream has, message after message, the units of each in their order.
LEMMA EncodedUnits ==
  ASSUME NEW s \in Seq(Message)
  PROVE  /\ Encoded(s) \in Seq(Unit(s))
         /\ Len(Encoded(s)) = Ends(s)[Len(s)]
         /\ \A m \in DOMAIN s : \A k \in 1 .. PreambleUnits + s[m].payload :
              /\ Ends(s)[m - 1] + k \in 1 .. Len(Encoded(s))
              /\ Encoded(s)[Ends(s)[m - 1] + k] = <<m, k>>
         /\ \A i \in 1 .. Len(Encoded(s)) : \E m \in DOMAIN s :
              /\ Encoded(s)[i] = <<m, i - Ends(s)[m - 1]>>
              /\ i - Ends(s)[m - 1] \in 1 .. PreambleUnits + s[m].payload
<1> DEFINE e == Ends(s)
    units(m) == PreambleUnits + s[m].payload
<1>1. /\ \A m \in DOMAIN s : /\ m \in 1 .. Len(s) /\ m - 1 \in 0 .. Len(s)
                            /\ units(m) \in Nat
      /\ \A m \in 0 .. Len(s) : e[m] \in Nat
      /\ Len(s) \in Nat
  BY EndsType, ScriptType
<1>2. \A m \in DOMAIN s : e[m] = e[m - 1] + units(m)
  <2>1. ASSUME NEW m \in DOMAIN s PROVE e[m] = e[m - 1] + units(m)
    <3>1. e[m] = e[m - 1] + PreambleUnits + s[m].payload
      BY EndsStep
    <3> HIDE DEF e
    <3> QED BY <3>1, <1>1, ScriptType
  <2> QED BY <2>1
<1>3. \A m, n \in 0 .. Len(s) : m <= n => e[m] <= e[n]
  BY EndsGrow
<1>4. \A i \in 1 .. e[Len(s)] : \E m \in DOMAIN s : e[m - 1] < i /\ i <= e[m]
  BY EveryPlace
<1>5. Encoded(s) = [i \in 1 .. e[Len(s)] |->
                      <<MessageAt(s, i), i - e[MessageAt(s, i) - 1]>>]
  BY DEF Encoded
<1>6. \A i : MessageAt(s, i) = CHOOSE m \in DOMAIN s : e[m - 1] < i /\ i <= e[m]
  BY DEF MessageAt
<1>7. \A u, m : m \in DOMAIN s /\ u \in {m} \X (1 .. units(m)) => u \in Unit(s)
  BY DEF Unit
<1> HIDE DEF e, units
<1>8. \A i \in 1 .. e[Len(s)] : /\ MessageAt(s, i) \in DOMAIN s
                               /\ e[MessageAt(s, i) - 1] < i
                               /\ i <= e[MessageAt(s, i)]
  BY <1>4, <1>6
<1>9. \A i \in 1 .. e[Len(s)] :
        i - e[MessageAt(s, i) - 1] \in 1 .. units(MessageAt(s, i))
  <2>1. ASSUME NEW i \in 1 .. e[Len(s)], NEW m \in DOMAIN s, e[m - 1] < i, i <= e[m]
        PROVE  i - e[m - 1] \in 1 .. units(m)
    BY <1>1, <1>2, <2>1
  <2> QED BY <1>8, <2>1
<1>10. /\ Len(Encoded(s)) = e[Len(s)]
       /\ Encoded(s) \in Seq(Unit(s))
  <2>1. \A i \in 1 .. e[Len(s)] : Encoded(s)[i] \in Unit(s)
    BY <1>5, <1>7, <1>8, <1>9
  <2>2. e[Len(s)] \in Nat
    BY <1>1
  <2> DEFINE N == e[Len(s)]
  <2>3. /\ Encoded(s) \in [1 .. N -> Unit(s)]
        /\ N \in Nat
    BY <1>5, <2>1, <2>2
  <2> HIDE DEF N
  <2>4. Encoded(s) \in Seq(Unit(s)) /\ Len(Encoded(s)) = N
    BY <2>3
  <2> QED BY <2>4 DEF N
<1>11. ASSUME NEW m \in DOMAIN s, NEW k \in 1 .. units(m)
       PROVE  /\ e[m - 1] + k \in 1 .. e[Len(s)]
              /\ Encoded(s)[e[m - 1] + k] = <<m, k>>
  <2> DEFINE i == e[m - 1] + k
             n == MessageAt(s, i)
  <2>1. i \in Nat /\ e[m - 1] < i /\ i <= e[m] /\ e[m] <= e[Len(s)] /\ 1 <= i
    BY <1>1, <1>2, <1>3, <1>11
  <2>2. i \in 1 .. e[Len(s)]
    <3>1. e[Len(s)] \in Nat /\ e[m] \in Nat
      BY <1>1
    <3> HIDE DEF e, i
    <3> QED BY <2>1, <3>1
  <2>3. n \in DOMAIN s /\ e[n - 1] < i /\ i <= e[n]
    BY <2>2, <1>8
  <2> HIDE DEF n
  <2>4. ~ (n <= m - 1) /\ ~ (m <= n - 1)
    <3> n \in 0 .. Len(s) /\ m \in 0 .. Len(s) /\ n - 1 \in 0 .. Len(s) /\ m - 1 \in 0 .. Len(s)
      BY <1>1, <2>3
    <3>1. n <= m - 1 => e[n] <= e[m - 1]
      BY <1>3
    <3>2. m <= n - 1 => e[m] <= e[n - 1]
      BY <1>3
    <3>3. e[n] \in Nat /\ e[m] \in Nat /\ e[m - 1] \in Nat /\ e[n - 1] \in Nat
      BY <1>1
    <3> HIDE DEF e, i
    <3>4. ~ (e[n] <= e[m - 1])
      BY <2>1, <2>3, <3>3
    <3>5. ~ (e[m] <= e[n - 1])
      BY <2>1, <2>3, <3>3
    <3> QED BY <3>1, <3>2, <3>4, <3>5
  <2>5. n = m
    BY <1>1, <2>3, <2>4
  <2>6. Encoded(s)[i] = <<m, i - e[m - 1]>>
    BY <1>5, <2>2, <2>5 DEF n
  <2> QED BY <2>2, <2>6, <1>1
<1> QED
  BY <1>5, <1>8, <1>9, <1>10, <1>11 DEF e, units

\* u is a unit of the stream before v.
Before(u, v) == u[1] < v[1] \/ (u[1] = v[1] /\ u[2] < v[2])

Increasing(s) == \A i, j \in DOMAIN s : i < j => Before(s[i], s[j])
Precedes(s, t) == \A i \in DOMAIN s, j \in DOMAIN t : Before(s[i], t[j])

LEMMA EncodedIncreases ==
  ASSUME NEW s \in Seq(Message)
  PROVE  Increasing(Encoded(s))
<1> DEFINE e == Ends(s)
<1>1. SUFFICES ASSUME NEW i \in 1 .. Len(Encoded(s)), NEW j \in 1 .. Len(Encoded(s)),
                      i < j
               PROVE  Before(Encoded(s)[i], Encoded(s)[j])
  BY EncodedUnits DEF Increasing
<1>2. PICK m \in DOMAIN s : /\ Encoded(s)[i] = <<m, i - e[m - 1]>>
                            /\ i - e[m - 1] \in 1 .. PreambleUnits + s[m].payload
  BY EncodedUnits
<1>3. PICK n \in DOMAIN s : /\ Encoded(s)[j] = <<n, j - e[n - 1]>>
                            /\ j - e[n - 1] \in 1 .. PreambleUnits + s[n].payload
  BY EncodedUnits
<1>4. /\ m \in 1 .. Len(s) /\ n \in 1 .. Len(s) /\ Len(s) \in Nat
      /\ e[m - 1] \in Nat /\ e[n] \in Nat /\ e[n - 1] \in Nat
      /\ s[n].payload \in Nat
  BY EndsType, ScriptType
<1>5. ~ n < m
  <2>1. SUFFICES ASSUME n < m PROVE FALSE
    OBVIOUS
  <2>2. e[n] <= e[m - 1]
    <3> n \in 0 .. Len(s) /\ m - 1 \in 0 .. Len(s) /\ n <= m - 1
      BY <1>4, <2>1
    <3> QED BY EndsGrow
  <2>3. j <= e[n]
    <3>1. e[n] = e[n - 1] + PreambleUnits + s[n].payload
      BY EndsStep
    <3>2. /\ j \in Int /\ PreambleUnits \in Nat
          /\ j - e[n - 1] <= PreambleUnits + s[n].payload
      BY <1>3, <1>4, ScriptType
    <3>3. e[n - 1] \in Nat /\ s[n].payload \in Nat
      BY <1>4
    <3> HIDE DEF e
    <3> QED BY <3>1, <3>2, <3>3
  <2> HIDE DEF e
  <2> QED BY <1>1, <1>2, <1>4, <2>2, <2>3
<1> HIDE DEF e
<1> QED
  BY <1>1, <1>2, <1>3, <1>4, <1>5 DEF Before

-----------------------------------------------------------------------------
(* One read of the buffer.                                                 *)

LEMMA UnitType ==
  ASSUME NEW s \in Seq(Message), NEW u \in Unit(s)
  PROVE  u[1] \in DOMAIN s /\ u[1] \in Nat /\ u[2] \in Nat
<1>1. PICK m \in DOMAIN s : u \in {m} \X (1 .. PreambleUnits + s[m].payload)
  BY DEF Unit
<1> QED
  BY <1>1, ScriptType

LEMMA SizeType ==
  ASSUME script \in Seq(Message), NEW m \in DOMAIN script
  PROVE  Size(m) \in Nat /\ PreambleUnits < Size(m) /\ Size(m) = PreambleUnits + script[m].payload
  BY ScriptType DEF Size

\* What begins with a message begins with no other, and announces its length.
LEMMA LeadingIsOne ==
  ASSUME script \in Seq(Message), NEW b, NEW m \in Leading(b)
  PROVE  /\ m \in DOMAIN script /\ Leading(b) = {m}
         /\ Len(b) >= Size(m) /\ b[1] = <<m, 1>>
         /\ PayloadLength(b) = {script[m].payload}
<1>1. /\ m \in DOMAIN script /\ Len(b) >= Size(m)
      /\ \A i \in 1 .. Size(m) : b[i] = <<m, i>>
  BY DEF Leading
<1>2. 1 \in 1 .. Size(m) /\ PreambleUnits \in 1 .. Size(m)
  BY <1>1, SizeType, ReaderAssumption
<1>3. b[1] = <<m, 1>> /\ b[PreambleUnits] = <<m, PreambleUnits>>
  BY <1>1, <1>2
<1>4. ASSUME NEW n \in Leading(b) PROVE n = m
  <2>1. n \in DOMAIN script /\ \A i \in 1 .. Size(n) : b[i] = <<n, i>>
    BY DEF Leading
  <2>2. 1 \in 1 .. Size(n)
    BY <2>1, SizeType, ReaderAssumption
  <2> QED BY <2>1, <2>2, <1>3
<1>5. PayloadLength(b) = {script[m].payload}
  BY <1>3 DEF PayloadLength
<1> QED
  BY <1>1, <1>3, <1>4, <1>5

LEMMA PayloadLengthType ==
  ASSUME script \in Seq(Message), NEW b \in Seq(Unit(script)), Len(b) >= PreambleUnits
  PROVE  PayloadLength(b) \subseteq Nat
<1>1. PreambleUnits \in DOMAIN b
  BY ReaderAssumption
<1>2. b[PreambleUnits][1] \in DOMAIN script
  BY <1>1, UnitType
<1>3. script[b[PreambleUnits][1]].payload \in Nat
  BY <1>2, ScriptType
<1>4. MaxMessages * (PreambleUnits + MaxPayload) \in Nat
  BY ReaderAssumption
<1> QED
  BY <1>3, <1>4, ReaderAssumption DEF PayloadLength

\* A decode of the buffer throws, reads garbage, or reads the message it begins with.
LEMMA DecodedCases ==
  ASSUME script \in Seq(Message), NEW b, Len(b) \in Nat, NEW d \in Decoded(b)
  PROVE  \/ /\ d = [throws |-> TRUE]
            /\ \A m \in Leading(b) : script[m].kind = "unknown"
         \/ /\ d.throws = FALSE /\ d.message = Garbage /\ Leading(b) = {}
            /\ d.read \in Nat /\ d.read >= PreambleUnits
         \/ \E m \in Leading(b) :
              /\ d.throws = FALSE /\ d.message = m /\ script[m].kind # "unknown"
              /\ d.read \in Nat /\ d.read >= PreambleUnits
              /\ script[m].kind \notin {"short", "long"} => d.read = Size(m)
<1>1. CASE Leading(b) = {}
  <2>1. CASE d = [throws |-> TRUE]
    BY <1>1, <2>1
  <2>2. CASE d \in [throws : {FALSE}, read : PreambleUnits .. Len(b) + 1, message : {Garbage}]
    <3>1. d.throws = FALSE /\ d.message = Garbage /\ d.read \in PreambleUnits .. Len(b) + 1
      BY <2>2
    <3>2. d.read \in Nat /\ d.read >= PreambleUnits
      BY <3>1, ReaderAssumption
    <3> QED BY <1>1, <3>1, <3>2
  <2> QED BY <1>1, <2>1, <2>2 DEF Decoded
<1>2. CASE Leading(b) # {}
  <2>1. PICK m \in Leading(b) : m = CHOOSE n \in Leading(b) : TRUE
    BY <1>2
  <2>2. /\ m \in DOMAIN script /\ Size(m) \in Nat /\ PreambleUnits < Size(m)
        /\ PreambleUnits \in Nat /\ Leading(b) = {m}
    BY LeadingIsOne, SizeType, ReaderAssumption
  <2> DEFINE Reads(n) == [throws |-> FALSE, read |-> n, message |-> m]
  <2>3. d \in CASE script[m].kind = "unknown" -> {[throws |-> TRUE]}
                [] script[m].kind = "short" -> {Reads(Size(m) - 1)}
                [] script[m].kind = "long" -> {Reads(Size(m) + 1)}
                [] OTHER -> {Reads(Size(m))}
    BY <1>2, <2>1 DEF Decoded
  <2>4. CASE script[m].kind = "unknown"
    BY <2>2, <2>3, <2>4
  <2>5. CASE script[m].kind = "short"
    <3>1. d = Reads(Size(m) - 1)
      BY <2>3, <2>5
    <3> QED BY <2>2, <2>5, <3>1
  <2>6. CASE script[m].kind = "long"
    <3>1. d = Reads(Size(m) + 1)
      BY <2>3, <2>6
    <3> QED BY <2>2, <2>6, <3>1
  <2>7. CASE script[m].kind \notin {"unknown", "short", "long"}
    <3>1. d = Reads(Size(m))
      BY <2>3, <2>7
    <3> QED BY <2>2, <2>7, <3>1
  <2> QED BY <2>4, <2>5, <2>6, <2>7
<1> QED
  BY <1>1, <1>2

-----------------------------------------------------------------------------
(* Types.                                                                  *)

LEMMA EmptyType == \A S : <<>> \in Seq(S) /\ Len(<<>>) = 0
  OBVIOUS

LEMMA JoinType ==
  ASSUME NEW S, NEW s \in Seq(S), NEW t \in Seq(S)
  PROVE  /\ s \o t \in Seq(S) /\ Len(s \o t) = Len(s) + Len(t)
         /\ \A i \in 1 .. Len(s) : (s \o t)[i] = s[i]
         /\ \A i \in 1 .. Len(t) : (s \o t)[Len(s) + i] = t[i]
  BY ConcatProperties

LEMMA SplitType ==
  ASSUME NEW S, NEW s \in Seq(S), NEW n \in Nat, n <= Len(s)
  PROVE  /\ SubSeq(s, 1, n) \in Seq(S) /\ Len(SubSeq(s, 1, n)) = n
         /\ \A i \in 1 .. n : SubSeq(s, 1, n)[i] = s[i]
         /\ Drop(s, n) \in Seq(S) /\ Len(Drop(s, n)) = Len(s) - n
         /\ \A i \in 1 .. Len(s) - n : Drop(s, n)[i] = s[n + i]
<1>1. /\ SubSeq(s, 1, n) \in Seq(S) /\ Len(SubSeq(s, 1, n)) = n
      /\ \A i \in 1 .. n : SubSeq(s, 1, n)[i] = s[i]
  BY SubSeqProperties
<1>2. /\ SubSeq(s, n + 1, Len(s)) \in Seq(S)
      /\ Len(SubSeq(s, n + 1, Len(s))) = Len(s) - n
      /\ \A i \in 1 .. Len(s) - n : SubSeq(s, n + 1, Len(s))[i] = s[n + i]
  BY SubSeqProperties
<1> QED
  BY <1>1, <1>2 DEF Drop

LEMMA LeftoverType ==
  ASSUME NEW S, NEW s \in Seq(S), NEW n \in Nat
  PROVE  /\ Leftover(s, n) \in Seq(S)
         /\ Len(Leftover(s, n)) = IF Len(s) > n THEN Len(s) - n ELSE 0
         /\ \A i \in 1 .. Len(Leftover(s, n)) : Leftover(s, n)[i] = s[n + i]
<1>1. CASE Len(s) > n
  <2>1. Leftover(s, n) = Drop(s, n) /\ n <= Len(s) /\ Len(s) \in Nat
    BY <1>1 DEF Leftover
  <2>2. /\ Drop(s, n) \in Seq(S) /\ Len(Drop(s, n)) = Len(s) - n
        /\ \A i \in 1 .. Len(s) - n : Drop(s, n)[i] = s[n + i]
    BY <2>1, SplitType
  <2> QED BY <1>1, <2>1, <2>2
<1>2. CASE ~ (Len(s) > n)
  BY <1>2 DEF Leftover
<1> QED
  BY <1>1, <1>2

\* The part of TypeOK that says which values there are, without the buffer.
LEMMA BuffType ==
  ASSUME TypeOK
  PROVE  /\ script \in Seq(Message)
         /\ buff \in Seq(Unit(script)) /\ Len(buff) \in Nat
         /\ Len(buff) = Len(lastChunk) + Len(data)
         /\ lastChunk \in Seq(Unit(script)) /\ data \in Seq(Unit(script))
         /\ wire \in Seq(Unit(script)) /\ Len(wire) \in Nat
         /\ delivered \in Seq(DOMAIN script \cup {Garbage}) /\ Len(delivered) \in Nat
         /\ Len(Encoded(script)) \in Nat
<1>1. /\ script \in Seq(Message) /\ lastChunk \in Seq(Unit(script))
      /\ data \in Seq(Unit(script)) /\ wire \in Seq(Unit(script))
      /\ delivered \in Seq(DOMAIN script \cup {Garbage})
  BY DEF TypeOK
<1>2. buff \in Seq(Unit(script)) /\ Len(buff) = Len(lastChunk) + Len(data)
  BY <1>1 DEF buff
<1>3. Len(Encoded(script)) \in Nat
  BY <1>1, EncodedUnits
<1> QED
  BY <1>1, <1>2, <1>3

\* Between two calls nothing is left of the chunk.
Quiet == ~handling => data = <<>>

Inv == TypeOK /\ Quiet

\* What is read of a decode that does not throw.
LEMMA DecodedType ==
  ASSUME TypeOK, NEW d \in Decoded(buff), ~ d.throws
  PROVE  /\ d.read \in Nat /\ d.read >= PreambleUnits /\ d.read > 0
         /\ d.message \in DOMAIN script \cup {Garbage}
<1>1. script \in Seq(Message) /\ Len(buff) \in Nat
  BY BuffType
<1>2. d # [throws |-> TRUE]
  OBVIOUS
<1>3. \A m \in Leading(buff) : m \in DOMAIN script
  BY DEF Leading
<1>4. /\ d.read \in Nat /\ d.read >= PreambleUnits
      /\ d.message \in DOMAIN script \cup {Garbage}
  BY <1>1, <1>2, <1>3, DecodedCases
<1> QED
  BY <1>4, ReaderAssumption

\* The reader starts with nothing kept and nothing under way.
LEMMA InvInit == Init => Inv
<1> SUFFICES ASSUME Init PROVE Inv
  OBVIOUS
<1>1. PICK n \in 0 .. MaxMessages : script \in [1 .. n -> Message]
  BY DEF Init
<1>2. script \in Seq(Message) /\ Len(script) = n
  BY <1>1, ReaderAssumption
<1>3. wire = Encoded(script) /\ wire \in Seq(Unit(script))
  BY <1>2, EncodedUnits DEF Init
<1>4. buff = <<>> /\ lastChunk = <<>> /\ data = <<>> /\ delivered = <<>>
  BY DEF Init, buff
<1>5. Len(delivered) + Len(wire) + Len(buff) <= Len(Encoded(script))
  BY <1>3, <1>4
<1>6. n <= MaxMessages /\ handling = FALSE
  BY ReaderAssumption DEF Init
<1> QED
  BY <1>2, <1>3, <1>4, <1>5, <1>6, EmptyType DEF Inv, TypeOK, Quiet

\* A chunk that arrives moves units from under way to the handler.
LEMMA ReceiveInv == Inv /\ Receive => Inv'
<1> SUFFICES ASSUME Inv, Receive PROVE Inv'
  OBVIOUS
<1>1. PICK n \in 1 .. Len(wire) : data' = SubSeq(wire, 1, n) /\ wire' = Drop(wire, n)
  BY DEF Receive
<1>2. TypeOK /\ data = <<>> /\ UNCHANGED <<script, lastChunk, delivered>> /\ handling' = TRUE
  BY DEF Inv, Quiet, Receive
<1>3. n \in Nat /\ n <= Len(wire)
  BY <1>2, BuffType
<1>4. /\ data' \in Seq(Unit(script)) /\ Len(data') = n
      /\ wire' \in Seq(Unit(script)) /\ Len(wire') = Len(wire) - n
  BY <1>1, <1>2, <1>3, BuffType, SplitType
<1>5. Len(buff') = Len(lastChunk) + n /\ Len(buff) = Len(lastChunk)
  <2>1. lastChunk \in Seq(Unit(script)) /\ buff' = lastChunk \o data' /\ buff = lastChunk \o <<>>
    BY <1>2, BuffType DEF buff
  <2>2. buff = lastChunk
    BY <2>1
  <2>3. Len(buff') = Len(lastChunk) + Len(data')
    BY <1>2, <1>4, <2>1, JoinType
  <2> QED BY <1>4, <2>2, <2>3
<1>6. Len(delivered) + Len(wire') + Len(buff') <= Len(Encoded(script))
  BY <1>2, <1>3, <1>4, <1>5, BuffType DEF TypeOK
<1> QED
  BY <1>2, <1>4, <1>6 DEF Inv, TypeOK, Quiet

\* A call that ends keeps a part of the buffer and may emit a message.
LEMMA CallInv ==
  ASSUME Inv, UNCHANGED <<script, wire>>, data' = <<>>, handling' \in BOOLEAN,
         lastChunk' \in Seq(Unit(script)),
         delivered' \in Seq(DOMAIN script \cup {Garbage}),
         Len(delivered') + Len(lastChunk') <= Len(delivered) + Len(buff)
  PROVE  Inv'
<1>1. buff' = lastChunk'
  BY DEF buff
<1>2. Len(delivered') \in Nat /\ Len(lastChunk') \in Nat
  OBVIOUS
<1>3. Len(delivered') + Len(wire) + Len(lastChunk') <= Len(Encoded(script))
  BY <1>2, BuffType DEF Inv, TypeOK
<1> QED
  BY <1>1, <1>3, BuffType DEF Inv, TypeOK, Quiet

\* One turn of handleRecvData keeps the types and the count.
LEMMA HandleInv == Inv /\ HandleRecvData => Inv'
<1> SUFFICES ASSUME Inv, HandleRecvData PROVE Inv'
  OBVIOUS
<1>1. TypeOK
  BY DEF Inv
<1>2. CASE SaveChunk \/ DecodeThrows \/ Underread
  <2>1. /\ UNCHANGED <<script, wire, delivered>> /\ data' = <<>> /\ handling' = FALSE
        /\ lastChunk' \in {buff, lastChunk, <<>>}
    BY <1>2 DEF SaveChunk, DecodeThrows, Underread, Return
  <2>2. lastChunk' \in Seq(Unit(script)) /\ Len(lastChunk') <= Len(buff)
    <3>1. Len(lastChunk) <= Len(buff) /\ 0 <= Len(buff)
      BY <1>1, BuffType
    <3>2. CASE lastChunk' = <<>>
      BY <1>1, <3>1, <3>2, BuffType, EmptyType
    <3>3. CASE lastChunk' # <<>>
      BY <1>1, <2>1, <3>1, <3>3, BuffType
    <3> QED BY <3>2, <3>3
  <2>3. Len(delivered') + Len(lastChunk') <= Len(delivered) + Len(buff)
    BY <1>1, <2>1, <2>2, BuffType
  <2> QED BY <1>1, <2>1, <2>2, <2>3, BuffType, CallInv
<1>3. CASE Deliver
  <2>1. PICK d \in Decoded(buff) :
          /\ ~ d.throws /\ lastChunk' = Leftover(buff, d.read)
          /\ delivered' = Append(delivered, d.message)
          /\ handling' = (lastChunk' # <<>> /\ ~ListenerThrows(d.message))
    BY <1>3 DEF Deliver
  <2>2. d.read \in Nat /\ d.read > 0 /\ d.message \in DOMAIN script \cup {Garbage}
    BY <1>1, <2>1, DecodedType
  <2>3. /\ lastChunk' \in Seq(Unit(script))
        /\ Len(lastChunk') = IF Len(buff) > d.read THEN Len(buff) - d.read ELSE 0
    BY <1>1, <2>1, <2>2, BuffType, LeftoverType
  <2>4. /\ delivered' \in Seq(DOMAIN script \cup {Garbage})
        /\ Len(delivered') = Len(delivered) + 1
    BY <1>1, <2>1, <2>2, BuffType
  <2>5. Len(buff) > 0 /\ UNCHANGED <<script, wire>> /\ data' = <<>> /\ handling' \in BOOLEAN
    BY <1>1, <1>3, <2>1, BuffType, ReaderAssumption DEF Deliver
  <2>6. Len(delivered') + Len(lastChunk') <= Len(delivered) + Len(buff)
    <3>1. Len(delivered) \in Nat /\ Len(buff) \in Nat
      BY <1>1, BuffType
    <3>2. Len(lastChunk') <= Len(buff) - 1
      BY <2>2, <2>3, <2>5, <3>1
    <3>3. Len(lastChunk') \in Nat
      BY <2>3
    <3> QED BY <2>4, <3>1, <3>2, <3>3
  <2> QED BY <2>3, <2>4, <2>5, <2>6, CallInv
<1> QED
  BY <1>2, <1>3 DEF HandleRecvData

\* Stuttering changes nothing.
LEMMA StutterInv == Inv /\ UNCHANGED vars => Inv'
  BY DEF vars, Inv, TypeOK, Quiet, buff

\* The inductive invariant of the reader.
LEMMA Invariant == Spec => []Inv
<1>1. Inv /\ [Next]_vars => Inv'
  BY ReceiveInv, HandleInv, StutterInv DEF Next
<1> QED
  BY <1>1, InvInit, PTL DEF Spec

\* Every value stays of its kind, and what came out or is kept was sent: TypeOK.
THEOREM TypeCorrect == Spec => []TypeOK
  BY Invariant, PTL DEF Inv

-----------------------------------------------------------------------------
(* Nothing complete is held back.                                          *)

\* At first nothing is kept.
LEMMA HeldBackInit == Init => NothingHeldBack
<1> SUFFICES ASSUME Init PROVE NothingHeldBack
  OBVIOUS
<1>1. script \in Seq(Message) /\ lastChunk = <<>>
  BY InvInit, BuffType DEF Init, Inv
<1>2. \A m \in DOMAIN script : ~ Len(lastChunk) >= Size(m)
  BY <1>1, SizeType, ReaderAssumption
<1> QED
  BY <1>2 DEF NothingHeldBack, Leading

\* By what ends a call: too few bytes for a message, an error in what begins with
\* none, or nothing being left; a decoder that throws or a listener that does is
\* ruled out.
LEMMA HeldBackStep == Inv /\ NothingHeldBack /\ [Next]_vars => NothingHeldBack'
<1> SUFFICES ASSUME Inv, NothingHeldBack, [Next]_vars, NothingThrows', ~ handling'
             PROVE  Leading(lastChunk)' = {}
  BY DEF NothingHeldBack
<1>1. TypeOK /\ script \in Seq(Message) /\ script' = script
  BY BuffType DEF Inv, Next, Receive, HandleRecvData, SaveChunk, DecodeThrows, Underread,
       Deliver, Return, vars
<1>2. NothingThrows
  BY <1>1 DEF NothingThrows
<1>3. Leading(lastChunk)' = {m \in DOMAIN script :
        Len(lastChunk') >= Size(m) /\ \A i \in 1 .. Size(m) : lastChunk'[i] = <<m, i>>}
  BY <1>1 DEF Leading, Size
<1>4. lastChunk' = <<>> => Leading(lastChunk)' = {}
  <2>1. \A m \in DOMAIN script : Size(m) \in Nat /\ Size(m) > 0
    BY <1>1, SizeType, ReaderAssumption
  <2> QED BY <1>3, <2>1
<1>5. CASE SaveChunk
  <2>1. Leading(lastChunk)' = Leading(buff)
    BY <1>3, <1>5 DEF SaveChunk, Leading
  <2>2. ASSUME NEW m \in Leading(buff) PROVE FALSE
    <3>1. /\ m \in DOMAIN script /\ Len(buff) >= Size(m)
          /\ PayloadLength(buff) = {script[m].payload}
      BY <1>1, LeadingIsOne
    <3>2. /\ Size(m) = PreambleUnits + script[m].payload /\ Size(m) > PreambleUnits
          /\ Size(m) \in Nat /\ script[m].payload \in Nat /\ PreambleUnits \in Nat
      BY <1>1, <3>1, SizeType, ScriptType
    <3>3. Len(buff) < PreambleUnits \/ Incomplete(buff, script[m].payload)
      BY <1>5, <3>1 DEF SaveChunk
    <3> QED BY <1>1, <3>1, <3>2, <3>3, BuffType DEF Incomplete
  <2> QED BY <2>1, <2>2
<1>6. CASE DecodeThrows
  <2>1. lastChunk' = lastChunk /\ [throws |-> TRUE] \in Decoded(buff)
    BY <1>6 DEF DecodeThrows
  <2>2. Leading(buff) = {}
    <3>1. \A m \in Leading(buff) : script[m].kind = "unknown"
      <4>1. PICK d \in Decoded(buff) : d = [throws |-> TRUE]
        BY <2>1
      <4>2. d.throws = TRUE
        BY <4>1
      <4>3. Len(buff) \in Nat
        BY <1>1, BuffType
      <4> QED BY <1>1, <4>2, <4>3, DecodedCases
    <3> QED BY <1>2, <3>1 DEF NothingThrows, Leading
  <2>3. Leading(lastChunk)' \subseteq Leading(buff)
    <3>1. ASSUME NEW m \in DOMAIN script, Len(lastChunk) >= Size(m),
                 \A i \in 1 .. Size(m) : lastChunk[i] = <<m, i>>
          PROVE  m \in Leading(buff)
      <4>1. Size(m) \in Nat
        BY <1>1, SizeType
      <4>2. /\ \A i \in 1 .. Len(lastChunk) : buff[i] = lastChunk[i]
            /\ Len(buff) >= Len(lastChunk) /\ Len(lastChunk) \in Nat /\ Len(buff) \in Nat
        BY <1>1, BuffType, JoinType DEF buff
      <4>3. Len(buff) >= Size(m) /\ \A i \in 1 .. Size(m) : buff[i] = <<m, i>>
        BY <3>1, <4>1, <4>2
      <4> QED BY <4>3 DEF Leading
    <3> QED BY <1>3, <2>1, <3>1
  <2> QED BY <2>2, <2>3
<1>7. CASE Underread
  BY <1>4, <1>7 DEF Underread
<1>8. CASE Deliver
  <2>1. PICK d \in Decoded(buff) :
          ~ d.throws /\ handling' = (lastChunk' # <<>> /\ ~ ListenerThrows(d.message))
    BY <1>8 DEF Deliver
  <2>2. d.message \in DOMAIN script \cup {Garbage}
    BY <1>1, <2>1, DecodedType
  <2>3. ~ ListenerThrows(d.message)
    BY <1>2, <2>2 DEF NothingThrows, ListenerThrows
  <2> QED BY <1>4, <2>1, <2>3
<1>9. CASE UNCHANGED vars
  BY <1>1, <1>2, <1>9 DEF vars, NothingHeldBack, Leading, Size
<1> QED
  BY <1>5, <1>6, <1>7, <1>8, <1>9 DEF Next, HandleRecvData, Receive

\* Whatever is sent and however it is cut: between two calls the reader holds no
\* whole message at the start of what it keeps.
THEOREM NothingComplete == Spec => []NothingHeldBack
<1>1. Inv /\ NothingHeldBack /\ [Next]_vars => NothingHeldBack'
  BY HeldBackStep
<1> QED
  BY <1>1, HeldBackInit, Invariant, PTL DEF Spec

-----------------------------------------------------------------------------
(* In order and at most once.                                              *)

\* All of s comes after the first unit of message m.
Beyond(m, s) == \A i \in DOMAIN s : Before(<<m, 1>>, s[i])

\* What the reader holds and what is under way is some of the stream in its order,
\* and no message whose first unit is among it has come out.
Ordered ==
  /\ LastTaken \in Taken \cup {0} /\ \A m \in Taken : m <= LastTaken
  /\ Increasing(buff) /\ Increasing(wire) /\ Precedes(buff, wire)
  /\ Beyond(LastTaken, buff) /\ Beyond(LastTaken, wire)

\* Any stretch of b is as ordered as b.
LEMMA KeptOrder ==
  ASSUME NEW S, NEW b \in Seq(S), NEW c \in Seq(S), NEW w \in Seq(S), NEW k \in Nat,
         k + Len(c) <= Len(b), \A i \in 1 .. Len(c) : c[i] = b[k + i],
         Increasing(b), Precedes(b, w)
  PROVE  /\ Increasing(c) /\ Precedes(c, w)
         /\ \A m : Beyond(m, b) => Beyond(m, c)
<1>1. /\ DOMAIN c = 1 .. Len(c) /\ DOMAIN b = 1 .. Len(b)
      /\ Len(c) \in Nat /\ Len(b) \in Nat
  OBVIOUS
<1>2. \A i \in DOMAIN c : k + i \in DOMAIN b /\ c[i] = b[k + i]
  BY <1>1
<1>3. \A i, j \in DOMAIN c : i < j => k + i < k + j
  BY <1>1
<1>4. Increasing(c)
  BY <1>2, <1>3 DEF Increasing
<1>5. Precedes(c, w)
  BY <1>2 DEF Precedes
<1> QED
  BY <1>2, <1>4, <1>5 DEF Beyond

\* Moving the first units of w to the end of b changes no order.
LEMMA MovedOrder ==
  ASSUME NEW S, NEW b \in Seq(S), NEW w \in Seq(S), NEW n \in Nat, n <= Len(w),
         Increasing(b), Increasing(w), Precedes(b, w)
  PROVE  LET c == b \o SubSeq(w, 1, n)
         IN  /\ Increasing(c) /\ Increasing(Drop(w, n)) /\ Precedes(c, Drop(w, n))
             /\ \A m : Beyond(m, b) /\ Beyond(m, w) => Beyond(m, c) /\ Beyond(m, Drop(w, n))
<1> DEFINE c == b \o SubSeq(w, 1, n)
    r == Drop(w, n)
<1>1. /\ r \in Seq(S) /\ Len(r) = Len(w) - n /\ \A i \in 1 .. Len(r) : r[i] = w[n + i]
      /\ SubSeq(w, 1, n) \in Seq(S) /\ Len(SubSeq(w, 1, n)) = n
      /\ \A i \in 1 .. n : SubSeq(w, 1, n)[i] = w[i]
  <2>1. /\ Drop(w, n) \in Seq(S) /\ Len(Drop(w, n)) = Len(w) - n
        /\ \A i \in 1 .. Len(w) - n : Drop(w, n)[i] = w[n + i]
    BY SplitType
  <2>2. /\ SubSeq(w, 1, n) \in Seq(S) /\ Len(SubSeq(w, 1, n)) = n
        /\ \A i \in 1 .. n : SubSeq(w, 1, n)[i] = w[i]
    BY SplitType
  <2> HIDE DEF c
  <2> QED BY <2>1, <2>2
<1>2. /\ c \in Seq(S) /\ Len(c) = Len(b) + n
      /\ \A i \in 1 .. Len(b) : c[i] = b[i]
      /\ \A i \in 1 .. n : c[Len(b) + i] = w[i]
  <2> DEFINE t == SubSeq(w, 1, n)
  <2>1. t \in Seq(S) /\ Len(t) = n /\ \A i \in 1 .. n : t[i] = w[i]
    BY <1>1
  <2> HIDE DEF t
  <2>2. /\ b \o t \in Seq(S) /\ Len(b \o t) = Len(b) + n
        /\ \A i \in 1 .. Len(b) : (b \o t)[i] = b[i]
        /\ \A i \in 1 .. n : (b \o t)[Len(b) + i] = t[i]
    <3>1. /\ b \o t \in Seq(S) /\ Len(b \o t) = Len(b) + Len(t)
          /\ \A i \in 1 .. Len(b) : (b \o t)[i] = b[i]
          /\ \A i \in 1 .. Len(t) : (b \o t)[Len(b) + i] = t[i]
      <4> t \in Seq(S)
        BY <2>1
      <4> QED BY JoinType
    <3>2. Len(t) = n
      BY <2>1
    <3> HIDE DEF c
    <3> QED BY <3>1, <3>2
  <2>3. c = b \o t
    BY DEF t
  <2> HIDE DEF c
  <2> QED BY <2>1, <2>2, <2>3
<1> HIDE DEF c, r
<1>3. /\ DOMAIN b = 1 .. Len(b) /\ DOMAIN w = 1 .. Len(w)
      /\ DOMAIN c = 1 .. Len(c) /\ DOMAIN r = 1 .. Len(r)
      /\ Len(b) \in Nat /\ Len(w) \in Nat
  BY <1>1, <1>2
<1>4. \A i \in DOMAIN r : n + i \in DOMAIN w /\ i \in Nat /\ 0 < i /\ r[i] = w[n + i]
  BY <1>1, <1>3
<1>5. \A i \in DOMAIN c : \/ i \in DOMAIN b /\ c[i] = b[i]
                          \/ /\ i - Len(b) \in 1 .. n /\ i - Len(b) \in DOMAIN w
                             /\ c[i] = w[i - Len(b)]
  <2>1. ASSUME NEW i \in DOMAIN c, ~ (i \in DOMAIN b)
        PROVE  i - Len(b) \in 1 .. n /\ i = Len(b) + (i - Len(b))
    BY <1>2, <1>3, <2>1
  <2>2. 1 .. n \subseteq DOMAIN w
    BY <1>3
  <2>3. \A j \in 1 .. n : c[Len(b) + j] = w[j]
    BY <1>2
  <2> QED BY <1>2, <1>3, <2>1, <2>2, <2>3
<1>6. Increasing(c)
  <2>1. SUFFICES ASSUME NEW i \in DOMAIN c, NEW j \in DOMAIN c, i < j
                 PROVE  Before(c[i], c[j])
    BY DEF Increasing
  <2>2. CASE j \in DOMAIN b
    <3>1. i \in DOMAIN b
      BY <1>2, <1>3, <2>1, <2>2
    <3> QED BY <1>2, <1>3, <2>1, <2>2, <3>1 DEF Increasing
  <2>3. CASE j \notin DOMAIN b
    <3>1. j - Len(b) \in DOMAIN w /\ c[j] = w[j - Len(b)]
      BY <1>5, <2>3
    <3>2. CASE i \in DOMAIN b
      BY <1>2, <1>3, <3>1, <3>2 DEF Precedes
    <3>3. CASE i \notin DOMAIN b
      <4>1. i - Len(b) \in DOMAIN w /\ c[i] = w[i - Len(b)]
        BY <1>5, <3>3
      <4>2. i - Len(b) < j - Len(b)
        BY <1>2, <1>3, <2>1
      <4> QED BY <3>1, <4>1, <4>2 DEF Increasing
    <3> QED BY <3>2, <3>3
  <2> QED BY <2>2, <2>3
<1>7. Increasing(r)
  <2>1. \A i, j \in DOMAIN r : i < j => n + i < n + j
    BY <1>4
  <2> QED BY <1>4, <2>1 DEF Increasing
<1>8. Precedes(c, r)
  <2>1. SUFFICES ASSUME NEW i \in DOMAIN c, NEW j \in DOMAIN r PROVE Before(c[i], r[j])
    BY DEF Precedes
  <2>2. CASE i \in DOMAIN b /\ c[i] = b[i]
    BY <1>4, <2>2 DEF Precedes
  <2>3. CASE /\ i - Len(b) \in 1 .. n /\ i - Len(b) \in DOMAIN w
             /\ c[i] = w[i - Len(b)]
    <3>1. i - Len(b) < n + j
      BY <1>4, <2>3
    <3> QED BY <1>4, <2>3, <3>1 DEF Increasing
  <2> QED BY <1>5, <2>2, <2>3
<1>9. ASSUME NEW m, Beyond(m, b), Beyond(m, w) PROVE Beyond(m, c) /\ Beyond(m, r)
  BY <1>4, <1>5, <1>9 DEF Beyond
<1> QED
  BY <1>6, <1>7, <1>8, <1>9 DEF c, r

\* At first everything is under way, in order.
LEMMA OrderedInit == Init => Ordered
<1> SUFFICES ASSUME Init PROVE Ordered
  OBVIOUS
<1>1. delivered = <<>> /\ buff = <<>> /\ wire = Encoded(script) /\ script \in Seq(Message)
  BY InvInit, BuffType DEF Init, Inv, buff
<1>2. Taken = {} /\ LastTaken = 0
  <2>1. Taken = {}
    BY <1>1 DEF Taken
  <2> QED BY <2>1 DEF LastTaken
<1>3. Increasing(wire)
  BY <1>1, EncodedIncreases
<1>4. Beyond(0, wire)
  <2>1. \A i \in DOMAIN wire : wire[i] \in Unit(script)
    BY <1>1, EncodedUnits
  <2>2. \A u \in Unit(script) : u[1] > 0 /\ u[1] \in Nat
    BY <1>1, UnitType
  <2> QED BY <2>1, <2>2 DEF Beyond, Before
<1> QED
  BY <1>1, <1>2, <1>3, <1>4 DEF Ordered, Increasing, Precedes, Beyond

\* A message that comes out was not yet taken, and none of what is left is.
LEMMA DeliverOrder ==
  ASSUME Inv, Ordered, NEW d \in Decoded(buff), ~ d.throws, Len(buff) >= PreambleUnits,
         script' = script, wire' = wire, data' = <<>>,
         lastChunk' = Leftover(buff, d.read),
         delivered' = Append(delivered, d.message)
  PROVE  /\ Ordered'
         /\ \/ d.message = Garbage /\ LastTaken' = LastTaken
            \/ d.message \in LastTaken + 1 .. MaxMessages /\ LastTaken' = d.message
<1>1. /\ TypeOK /\ script \in Seq(Message) /\ Len(buff) \in Nat
      /\ buff \in Seq(Unit(script)) /\ wire \in Seq(Unit(script))
      /\ delivered \in Seq(DOMAIN script \cup {Garbage})
  BY BuffType DEF Inv
<1>2. d.read \in Nat /\ d.read > 0 /\ d.message \in DOMAIN script \cup {Garbage}
  BY <1>1, DecodedType
<1> DEFINE c == Leftover(buff, d.read)
<1>3. /\ buff' = c /\ c \in Seq(Unit(script))
      /\ \A i \in 1 .. Len(c) : c[i] = buff[d.read + i]
      /\ c = <<>> \/ d.read + Len(c) <= Len(buff)
  <2>1. /\ c \in Seq(Unit(script)) /\ \A i \in 1 .. Len(c) : c[i] = buff[d.read + i]
        /\ Len(c) = IF Len(buff) > d.read THEN Len(buff) - d.read ELSE 0
    BY <1>1, <1>2, LeftoverType
  <2> HIDE DEF c
  <2>2. buff' = c
    <3>1. lastChunk' = c
      BY DEF c
    <3> QED BY <2>1, <3>1 DEF buff
  <2>3. c = <<>> \/ d.read + Len(c) <= Len(buff)
    BY <1>1, <1>2, <2>1
  <2> QED BY <2>1, <2>2, <2>3
<1> HIDE DEF c
<1>4. /\ Increasing(c) /\ Precedes(c, wire) /\ \A m : Beyond(m, buff) => Beyond(m, c)
  <2>1. CASE c = <<>>
    BY <2>1 DEF Increasing, Precedes, Beyond
  <2>2. CASE d.read + Len(c) <= Len(buff)
    BY <1>1, <1>2, <1>3, <2>2, KeptOrder DEF Ordered
  <2> QED BY <1>3, <2>1, <2>2
<1>5. Taken' = (Taken \cup {d.message}) \ {Garbage}
  <2>1. /\ DOMAIN delivered' = DOMAIN delivered \cup {Len(delivered) + 1}
        /\ \A i \in DOMAIN delivered : delivered'[i] = delivered[i]
        /\ delivered'[Len(delivered) + 1] = d.message
    BY <1>1
  <2> QED BY <2>1 DEF Taken
<1>6. CASE d.message = Garbage
  <2>1. Taken' = Taken /\ LastTaken' = LastTaken
    <3>1. Taken' = Taken
      BY <1>5, <1>6 DEF Taken
    <3> QED BY <3>1 DEF LastTaken
  <2> QED BY <1>3, <1>4, <1>6, <2>1 DEF Ordered
<1>7. CASE d.message # Garbage
  <2> DEFINE m == d.message
  <2>1. m \in Leading(buff)
    <3>1. d # [throws |-> TRUE]
      OBVIOUS
    <3> QED BY <1>1, <1>7, <3>1, DecodedCases
  <2>2. m \in DOMAIN script /\ buff[1] = <<m, 1>> /\ 1 \in DOMAIN buff
    BY <1>1, <2>1, LeadingIsOne, ReaderAssumption
  <2>3. m \in Nat /\ m <= MaxMessages
    <3>1. m \in 1 .. Len(script) /\ Len(script) \in Nat
      BY <1>1, <2>2, ScriptType
    <3>2. Len(script) <= MaxMessages /\ MaxMessages \in Nat
      BY <1>1, ReaderAssumption DEF TypeOK
    <3> QED BY <3>1, <3>2
  <2>4. LastTaken \in Nat
    BY <1>1, ScriptType DEF Ordered, Taken, Garbage
  <2>5. LastTaken < m
    <3>1. Before(<<LastTaken, 1>>, <<m, 1>>)
      BY <2>2 DEF Ordered, Beyond
    <3> QED BY <3>1 DEF Before
  <2>6. Taken' = Taken \cup {m} /\ Taken \subseteq Nat
    <3>1. Taken' = Taken \cup {m}
      BY <1>5, <1>7 DEF Taken
    <3>2. Taken \subseteq DOMAIN script
      BY <1>1 DEF Taken
    <3> QED BY <1>1, <3>1, <3>2, ScriptType
  <2>7. LastTaken' = m
    <3>1. LastTaken' = CHOOSE x \in Taken \cup {m} \cup {0} : \A n \in Taken \cup {m} : n <= x
      BY <2>6 DEF LastTaken
    <3>2. \A n \in Taken \cup {m} : n <= m
      BY <2>3, <2>4, <2>5, <2>6 DEF Ordered
    <3>3. \A x \in Taken \cup {m} \cup {0} : (\A n \in Taken \cup {m} : n <= x) => x = m
      BY <2>3, <2>4, <2>5, <2>6 DEF Ordered
    <3> HIDE DEF m
    <3> QED BY <3>1, <3>2, <3>3
  <2>8. Beyond(m, c) /\ Beyond(m, wire)
    <3>1. \A i \in 1 .. Len(c) : Before(buff[1], c[i])
      <4>1. \A i \in 1 .. Len(c) : d.read + i \in DOMAIN buff /\ 1 < d.read + i
        BY <1>1, <1>2, <1>3
      <4> QED BY <1>3, <2>2, <4>1 DEF Ordered, Increasing
    <3>2. \A i \in DOMAIN wire : Before(buff[1], wire[i])
      BY <2>2 DEF Ordered, Precedes
    <3>3. DOMAIN c = 1 .. Len(c)
      BY <1>3
    <3>4. buff[1] = <<m, 1>>
      BY <2>2
    <3> HIDE DEF m
    <3> QED BY <3>1, <3>2, <3>3, <3>4 DEF Beyond
  <2>9. \A n \in Taken' : n <= m
    BY <2>3, <2>4, <2>5, <2>6 DEF Ordered
  <2>10. Ordered'
    BY <1>3, <1>4, <2>6, <2>7, <2>8, <2>9 DEF Ordered
  <2> QED BY <2>3, <2>4, <2>5, <2>7, <2>10
<1> QED
  BY <1>6, <1>7

\* Every step only drops units or takes a run of them from the front.
LEMMA OrderedStep == Inv /\ Ordered /\ [Next]_vars => Ordered'
<1> SUFFICES ASSUME Inv, Ordered, [Next]_vars PROVE Ordered'
  OBVIOUS
<1>1. /\ TypeOK /\ script \in Seq(Message)
      /\ lastChunk \in Seq(Unit(script)) /\ data \in Seq(Unit(script))
      /\ buff \in Seq(Unit(script)) /\ wire \in Seq(Unit(script)) /\ Len(wire) \in Nat
  BY BuffType DEF Inv
<1>2. CASE Receive
  <2>1. PICK n \in 1 .. Len(wire) : data' = SubSeq(wire, 1, n) /\ wire' = Drop(wire, n)
    BY <1>2 DEF Receive
  <2>2. buff' = lastChunk \o SubSeq(wire, 1, n) /\ lastChunk = buff
    <3>1. data = <<>> /\ lastChunk' = lastChunk
      BY <1>2 DEF Inv, Quiet, Receive
    <3>2. buff = lastChunk \o <<>>
      BY <3>1 DEF buff
    <3>3. buff' = lastChunk \o SubSeq(wire, 1, n)
      BY <2>1, <3>1 DEF buff
    <3> QED BY <1>1, <3>2, <3>3
  <2>3. LastTaken' = LastTaken /\ Taken' = Taken
    BY <1>2 DEF Receive, LastTaken, Taken
  <2>4. n \in Nat /\ n <= Len(wire)
    BY <1>1
  <2>5. /\ Increasing(buff') /\ Increasing(wire') /\ Precedes(buff', wire')
        /\ Beyond(LastTaken, buff') /\ Beyond(LastTaken, wire')
    BY <1>1, <2>1, <2>2, <2>4, MovedOrder DEF Ordered
  <2> QED BY <2>3, <2>5 DEF Ordered
<1>3. CASE SaveChunk \/ DecodeThrows \/ Underread
  <2>1. /\ UNCHANGED <<wire, delivered>> /\ data' = <<>>
        /\ lastChunk' \in {buff, lastChunk, <<>>}
    BY <1>3 DEF SaveChunk, DecodeThrows, Underread, Return
  <2>2. LastTaken' = LastTaken /\ Taken' = Taken
    BY <2>1 DEF LastTaken, Taken
  <2>3. /\ lastChunk' \in Seq(Unit(script)) /\ Len(lastChunk') <= Len(buff)
        /\ \A i \in 1 .. Len(lastChunk') : lastChunk'[i] = buff[i]
    <3>1. /\ \A i \in 1 .. Len(lastChunk) : buff[i] = lastChunk[i]
          /\ Len(lastChunk) <= Len(buff) /\ Len(buff) \in Nat
      BY <1>1, BuffType, JoinType DEF buff
    <3>2. CASE lastChunk' = <<>>
      BY <3>1, <3>2, EmptyType
    <3>3. CASE lastChunk' \in {buff, lastChunk}
      BY <1>1, <3>1, <3>3
    <3> QED BY <2>1, <3>2, <3>3
  <2>4. buff' = lastChunk'
    BY <2>1, <2>3 DEF buff
  <2>5. Increasing(buff') /\ Precedes(buff', wire) /\ Beyond(LastTaken, buff')
    <3>1. 0 \in Nat /\ 0 + Len(lastChunk') <= Len(buff)
          /\ \A i \in 1 .. Len(lastChunk') : lastChunk'[i] = buff[0 + i]
      BY <2>3
    <3> QED BY <1>1, <2>3, <2>4, <3>1, KeptOrder DEF Ordered
  <2> QED BY <2>1, <2>2, <2>5 DEF Ordered
<1>4. CASE Deliver
  <2>1. /\ Len(buff) >= PreambleUnits
        /\ UNCHANGED <<script, wire>> /\ data' = <<>>
        /\ \E d \in Decoded(buff) :
             /\ ~ d.throws /\ lastChunk' = Leftover(buff, d.read)
             /\ delivered' = Append(delivered, d.message)
    BY <1>4 DEF Deliver
  <2> QED BY <2>1, DeliverOrder
<1>5. CASE UNCHANGED vars
  BY <1>5 DEF vars, Ordered, Taken, LastTaken, buff
<1> QED
  BY <1>2, <1>3, <1>4, <1>5 DEF Next, HandleRecvData

\* Every step takes one message that comes after all that were taken, adds noise, or
\* changes nothing a reader of messages can see.
LEMMA ChannelStep ==
  Inv /\ Ordered /\ [Next]_vars => [Channel!ChannelNext]_<<LastTaken + 1, delivered>>
<1> SUFFICES ASSUME Inv, Ordered, [Next]_vars
             PROVE  [Channel!ChannelNext]_<<LastTaken + 1, delivered>>
  OBVIOUS
<1>1. CASE delivered' = delivered
  BY <1>1 DEF LastTaken, Taken
<1>2. CASE Deliver
  <2>1. /\ Len(buff) >= PreambleUnits
        /\ UNCHANGED <<script, wire>> /\ data' = <<>>
    BY <1>2 DEF Deliver
  <2>2. PICK d \in Decoded(buff) :
             /\ ~ d.throws /\ lastChunk' = Leftover(buff, d.read)
             /\ delivered' = Append(delivered, d.message)
    BY <1>2 DEF Deliver
  <2>3. CASE d.message = Garbage /\ LastTaken' = LastTaken
    BY <2>2, <2>3 DEF Channel!ChannelNext, Channel!Hiss
  <2>4. CASE d.message \in LastTaken + 1 .. MaxMessages /\ LastTaken' = d.message
    <3>1. Channel!Take(d.message)
      BY <2>2, <2>4 DEF Channel!Take
    <3> QED BY <2>4, <3>1 DEF Channel!ChannelNext
  <2> QED BY <2>1, <2>2, <2>3, <2>4, DeliverOrder
<1> QED
  BY <1>1, <1>2 DEF Next, Receive, HandleRecvData, SaveChunk, DecodeThrows, Underread, vars

\* Messages come out in the order they were sent and none comes out twice, whatever
\* the decoder makes of what lies between: SocketReader implements MessageChannel.
THEOREM Implements == Spec => InOrderOnce
<1>1. Init => Channel!ChannelInit
  <2>1. Init => LastTaken = 0 /\ delivered = <<>>
    BY DEF Init, LastTaken, Taken
  <2> QED BY <2>1 DEF Channel!ChannelInit
<1>2. Inv /\ Ordered /\ [Next]_vars => Ordered'
  BY OrderedStep
<1>3. Inv /\ Ordered /\ [Next]_vars => [Channel!ChannelNext]_<<LastTaken + 1, delivered>>
  BY ChannelStep
<1> QED
  BY <1>1, <1>2, <1>3, OrderedInit, Invariant, PTL DEF Spec, InOrderOnce, Channel!ChannelSpec

-----------------------------------------------------------------------------
(* Nothing is skipped up to the first message that does not decode.        *)

\* The buffer and what is under way are the stream behind place p: behind the messages
\* that have come out, as long as the next one decodes.
Rest(p) ==
  /\ p + Len(buff) + Len(wire) = Len(Encoded(script))
  /\ \A i \in 1 .. Len(buff) : buff[i] = Encoded(script)[p + i]
  /\ \A i \in 1 .. Len(wire) : wire[i] = Encoded(script)[p + Len(buff) + i]

NextDecodes == Decodable(Len(delivered) + 1)

InStep == Len(delivered) <= Len(script) /\ Rest(Ends(script)[Len(delivered)])

Aligned == NothingSkipped /\ (NextDecodes => InStep)

\* At first what is under way is the whole stream.
LEMMA AlignedInit == Init => Aligned
<1> SUFFICES ASSUME Init PROVE Aligned
  OBVIOUS
<1>1. /\ script \in Seq(Message) /\ wire = Encoded(script) /\ delivered = <<>>
      /\ buff = <<>> /\ wire \in Seq(Unit(script)) /\ Len(wire) \in Nat
  BY InvInit, BuffType DEF Init, Inv, buff
<1>2. Ends(script)[0] = 0 /\ Len(script) \in Nat
  BY <1>1, EndsStep
<1> QED
  BY <1>1, <1>2 DEF Aligned, InStep, Rest, NothingSkipped

\* As long as the buffer is in step, what is decoded is the next message and nothing else.
LEMMA NextIsRead ==
  ASSUME Inv, InStep, NextDecodes, Len(buff) >= PreambleUnits,
         NEW length \in PayloadLength(buff), ~ Incomplete(buff, length)
  PROVE  LET m == Len(delivered) + 1
         IN  /\ m \in DOMAIN script /\ length = script[m].payload
             /\ Len(buff) >= Size(m)
             /\ Decoded(buff) = {[throws |-> FALSE, read |-> Size(m), message |-> m]}
<1> DEFINE m == Len(delivered) + 1
    p == Ends(script)[Len(delivered)]
<1>1. /\ script \in Seq(Message) /\ Len(buff) \in Nat /\ Len(wire) \in Nat
      /\ Len(delivered) \in Nat /\ Len(script) \in Nat
      /\ PreambleUnits \in Nat /\ PreambleUnits > 0
  BY BuffType, ScriptType DEF Inv
<1>2. /\ Len(delivered) <= Len(script)
      /\ p + Len(buff) + Len(wire) = Ends(script)[Len(script)]
      /\ \A i \in 1 .. Len(buff) : buff[i] = Encoded(script)[p + i]
  BY <1>1, EncodedUnits DEF InStep, Rest
<1>3. p \in Nat
  BY <1>1, <1>2, EndsType
<1>4. m \in DOMAIN script
  <2>1. Len(delivered) # Len(script)
    BY <1>1, <1>2, <1>3
  <2> QED BY <1>1, <1>2, <2>1
<1>5. /\ Size(m) \in Nat /\ PreambleUnits < Size(m)
      /\ Size(m) = PreambleUnits + script[m].payload /\ script[m].payload \in Nat
  BY <1>1, <1>4, SizeType, ScriptType
<1>6. \A i \in 1 .. Size(m) : i <= Len(buff) => buff[i] = <<m, i>>
  <2>1. ASSUME NEW i \in 1 .. Size(m), i <= Len(buff) PROVE buff[i] = <<m, i>>
    <3>1. Ends(script)[m - 1] = p
      BY <1>1
    <3>2. Encoded(script)[Ends(script)[m - 1] + i] = <<m, i>>
      <4> HIDE DEF m
      <4> QED BY <1>1, <1>4, <1>5, EncodedUnits
    <3>3. i \in 1 .. Len(buff)
      BY <1>1, <1>5, <2>1
    <3> HIDE DEF m, p
    <3> QED BY <1>2, <3>1, <3>2, <3>3
  <2> QED BY <2>1
<1> HIDE DEF m, p
<1>7. length = script[m].payload
  <2>1. buff[PreambleUnits] = <<m, PreambleUnits>>
    BY <1>1, <1>5, <1>6
  <2> QED BY <2>1 DEF PayloadLength
<1>8. Len(buff) >= Size(m)
  BY <1>1, <1>5, <1>7 DEF Incomplete
<1>9. m \in Leading(buff)
  BY <1>1, <1>4, <1>5, <1>6, <1>8 DEF Leading
<1>10. Decoded(buff) = {[throws |-> FALSE, read |-> Size(m), message |-> m]}
  <2>1. Leading(buff) = {m}
    BY <1>1, <1>9, LeadingIsOne
  <2>2. script[m].kind \in {"good", "empty"}
    BY <1>1, <1>4 DEF NextDecodes, Decodable, m
  <2> QED BY <2>1, <2>2 DEF Decoded
<1> QED
  BY <1>4, <1>7, <1>8, <1>10 DEF m

\* As long as the next message decodes, no step skips a unit or reads one twice.
LEMMA InStepKept ==
  ASSUME Inv, InStep, NextDecodes, [Next]_vars
  PROVE  InStep'
<1> DEFINE p == Ends(script)[Len(delivered)]
<1>1. /\ TypeOK /\ script' = script /\ script \in Seq(Message)
      /\ lastChunk \in Seq(Unit(script)) /\ data \in Seq(Unit(script))
      /\ buff \in Seq(Unit(script)) /\ Len(buff) \in Nat
      /\ wire \in Seq(Unit(script)) /\ Len(wire) \in Nat
      /\ delivered \in Seq(DOMAIN script \cup {Garbage}) /\ Len(delivered) \in Nat
  BY BuffType DEF Inv, Next, Receive, HandleRecvData, SaveChunk, DecodeThrows, Underread,
       Deliver, Return, vars
<1>3. Len(delivered) <= Len(script) /\ Rest(p)
  BY DEF InStep
<1>4. p \in Nat
  BY <1>1, <1>3, ScriptType, EndsType
<1>5. CASE Receive
  <2>1. PICK n \in 1 .. Len(wire) : data' = SubSeq(wire, 1, n) /\ wire' = Drop(wire, n)
    BY <1>5 DEF Receive
  <2>2. buff' = buff \o SubSeq(wire, 1, n)
    <3>1. data = <<>> /\ lastChunk' = lastChunk
      BY <1>5 DEF Inv, Quiet, Receive
    <3>2. buff = lastChunk \o <<>>
      BY <3>1 DEF buff
    <3>3. buff' = lastChunk \o SubSeq(wire, 1, n)
      BY <2>1, <3>1 DEF buff
    <3> QED BY <1>1, <3>2, <3>3
  <2>3. n \in Nat /\ n <= Len(wire)
    BY <1>1
  <2>4. /\ Len(wire') = Len(wire) - n /\ \A i \in 1 .. Len(wire') : wire'[i] = wire[n + i]
        /\ SubSeq(wire, 1, n) \in Seq(Unit(script)) /\ Len(SubSeq(wire, 1, n)) = n
        /\ \A i \in 1 .. n : SubSeq(wire, 1, n)[i] = wire[i]
    <3>1. /\ Drop(wire, n) \in Seq(Unit(script)) /\ Len(Drop(wire, n)) = Len(wire) - n
          /\ \A i \in 1 .. Len(wire) - n : Drop(wire, n)[i] = wire[n + i]
      BY <1>1, <2>3, SplitType
    <3>2. /\ SubSeq(wire, 1, n) \in Seq(Unit(script)) /\ Len(SubSeq(wire, 1, n)) = n
          /\ \A i \in 1 .. n : SubSeq(wire, 1, n)[i] = wire[i]
      BY <1>1, <2>3, SplitType
    <3> QED BY <2>1, <3>1, <3>2
  <2>5. /\ Len(buff') = Len(buff) + n
        /\ \A i \in 1 .. Len(buff) : buff'[i] = buff[i]
        /\ \A i \in 1 .. n : buff'[Len(buff) + i] = wire[i]
    BY <1>1, <2>2, <2>4, JoinType
  <2> HIDE DEF p
  <2>6. p + Len(buff') + Len(wire') = Len(Encoded(script))
    <3>1. p + Len(buff) + Len(wire) = Len(Encoded(script))
      BY <1>3 DEF Rest
    <3>2. Len(wire') = Len(wire) - n /\ Len(buff') = Len(buff) + n
      BY <2>4, <2>5
    <3>3. Len(buff) \in Nat /\ Len(wire) \in Nat
      BY <1>1
    <3> QED BY <1>4, <2>3, <3>1, <3>2, <3>3
  <2>7. ASSUME NEW i \in 1 .. Len(buff') PROVE buff'[i] = Encoded(script)[p + i]
    <3>1. CASE i <= Len(buff)
      BY <1>1, <1>3, <2>5, <3>1 DEF Rest
    <3>2. CASE i > Len(buff)
      <4> DEFINE j == i - Len(buff)
      <4>1. j \in 1 .. n /\ j \in 1 .. Len(wire) /\ i = Len(buff) + j
        BY <1>1, <2>3, <2>5, <3>2
      <4>2. p + Len(buff) + j = p + i
        BY <1>1, <1>4, <4>1
      <4> HIDE DEF j
      <4> QED BY <1>3, <2>5, <4>1, <4>2 DEF Rest
    <3> QED BY <1>1, <2>3, <2>5, <3>1, <3>2
  <2>8. ASSUME NEW i \in 1 .. Len(wire') PROVE wire'[i] = Encoded(script)[p + Len(buff') + i]
    <3>1. n + i \in 1 .. Len(wire) /\ p + Len(buff) + (n + i) = p + Len(buff') + i
      BY <1>1, <1>4, <2>3, <2>4, <2>5
    <3> QED BY <1>3, <2>4, <3>1 DEF Rest
  <2>9. delivered' = delivered
    BY <1>5 DEF Receive
  <2> QED BY <1>1, <1>3, <2>6, <2>7, <2>8, <2>9 DEF InStep, Rest, p
<1>6. CASE SaveChunk
  <2>1. delivered' = delivered /\ wire' = wire /\ lastChunk' = buff /\ data' = <<>>
    BY <1>6 DEF SaveChunk, Return
  <2>2. buff' = buff
    <3>1. buff' = buff \o <<>>
      BY <2>1 DEF buff
    <3> QED BY <1>1, <3>1
  <2> QED BY <1>1, <1>3, <2>1, <2>2 DEF InStep, Rest
<1>7. CASE DecodeThrows
  <2>1. PICK length \in PayloadLength(buff) : ~ Incomplete(buff, length)
    BY <1>7 DEF DecodeThrows
  <2>2. /\ Len(buff) >= PreambleUnits /\ [throws |-> TRUE] \in Decoded(buff)
    BY <1>7 DEF DecodeThrows
  <2>3. \A d \in Decoded(buff) : d.throws = FALSE
    BY <2>1, <2>2, NextIsRead
  <2>4. [throws |-> TRUE].throws = FALSE
    BY <2>2, <2>3
  <2> QED BY <2>4
<1>8. CASE Underread
  <2>1. PICK length \in PayloadLength(buff), d \in Decoded(buff) :
          ~ Incomplete(buff, length) /\ d.read < length + PreambleUnits
    BY <1>8 DEF Underread
  <2>2. Len(buff) >= PreambleUnits
    BY <1>8 DEF Underread
  <2> DEFINE m == Len(delivered) + 1
  <2>3. m \in DOMAIN script /\ length = script[m].payload /\ d.read = Size(m)
    BY <2>1, <2>2, NextIsRead
  <2>4. Size(m) = length + PreambleUnits /\ Size(m) \in Nat
    BY <1>1, <2>3, SizeType, ScriptType
  <2> QED BY <2>1, <2>3, <2>4
<1>9. CASE Deliver
  <2>1. PICK length \in PayloadLength(buff), d \in Decoded(buff) :
          /\ ~ Incomplete(buff, length)
          /\ lastChunk' = Leftover(buff, d.read)
          /\ delivered' = Append(delivered, d.message)
    BY <1>9 DEF Deliver
  <2>2. Len(buff) >= PreambleUnits /\ data' = <<>> /\ wire' = wire
    BY <1>9 DEF Deliver
  <2> DEFINE m == Len(delivered) + 1
  <2>3. m \in DOMAIN script /\ d.read = Size(m) /\ d.message = m /\ Len(buff) >= Size(m)
    BY <2>1, <2>2, NextIsRead
  <2>4. Size(m) \in Nat /\ Size(m) = PreambleUnits + script[m].payload /\ m \in 1 .. Len(script)
    BY <1>1, <2>3, SizeType, ScriptType
  <2>5. Len(delivered') = m
    BY <1>1, <2>1, <2>3
  <2>6. Ends(script)[m] = p + Size(m)
    <3>1. Ends(script)[m] = Ends(script)[m - 1] + PreambleUnits + script[m].payload
      BY <1>1, <2>3, EndsStep
    <3>2. m - 1 = Len(delivered) /\ script[m].payload \in Nat /\ PreambleUnits \in Nat
      BY <1>1, <2>3, ScriptType
    <3> HIDE DEF m
    <3> QED BY <1>4, <2>4, <3>1, <3>2
  <2>7. /\ lastChunk' \in Seq(Unit(script))
        /\ Len(lastChunk') = Len(buff) - Size(m)
        /\ \A i \in 1 .. Len(lastChunk') : lastChunk'[i] = buff[Size(m) + i]
    <3> HIDE DEF m
    <3>1. lastChunk' = Leftover(buff, Size(m)) /\ Size(m) \in Nat
      BY <2>1, <2>3, <2>4
    <3>2. /\ Leftover(buff, Size(m)) \in Seq(Unit(script))
          /\ Len(Leftover(buff, Size(m))) =
               IF Len(buff) > Size(m) THEN Len(buff) - Size(m) ELSE 0
          /\ \A i \in 1 .. Len(Leftover(buff, Size(m))) :
               Leftover(buff, Size(m))[i] = buff[Size(m) + i]
      BY <1>1, <3>1, LeftoverType
    <3>3. (IF Len(buff) > Size(m) THEN Len(buff) - Size(m) ELSE 0) = Len(buff) - Size(m)
      BY <1>1, <2>3, <3>1
    <3> QED BY <3>1, <3>2, <3>3
  <2>8. buff' = lastChunk'
    BY <2>2, <2>7 DEF buff
  <2> HIDE DEF m, p
  <2>9. Ends(script)[m] + Len(buff') + Len(wire') = Len(Encoded(script))
    <3>1. p + Len(buff) + Len(wire) = Len(Encoded(script))
      BY <1>3 DEF Rest
    <3>2. Len(buff') = Len(buff) - Size(m) /\ Len(wire') = Len(wire)
      BY <2>2, <2>7, <2>8
    <3>3. Len(buff) \in Nat /\ Len(wire) \in Nat /\ Size(m) \in Nat
      BY <1>1, <2>4
    <3> QED BY <1>4, <2>6, <3>1, <3>2, <3>3
  <2>10. ASSUME NEW i \in 1 .. Len(buff')
         PROVE  buff'[i] = Encoded(script)[Ends(script)[m] + i]
    <3>1. Size(m) + i \in 1 .. Len(buff) /\ p + (Size(m) + i) = Ends(script)[m] + i
      <4>1. Len(buff') = Len(buff) - Size(m) /\ Size(m) \in Nat /\ Len(buff) \in Nat
        BY <1>1, <2>4, <2>7, <2>8
      <4> QED BY <1>4, <2>6, <4>1
    <3> QED BY <1>3, <2>7, <2>8, <3>1 DEF Rest
  <2>11. ASSUME NEW i \in 1 .. Len(wire')
         PROVE  wire'[i] = Encoded(script)[Ends(script)[m] + Len(buff') + i]
    <3>1. p + Len(buff) + i = Ends(script)[m] + Len(buff') + i
      <4>1. Len(buff') = Len(buff) - Size(m) /\ Size(m) \in Nat /\ Len(buff) \in Nat
        BY <1>1, <2>4, <2>7, <2>8
      <4>2. i \in Int
        OBVIOUS
      <4> QED BY <1>4, <2>6, <4>1, <4>2
    <3> QED BY <1>3, <2>2, <3>1 DEF Rest
  <2>12. m <= Len(script)
    BY <2>4
  <2> QED BY <1>1, <2>5, <2>9, <2>10, <2>11, <2>12 DEF InStep, Rest
<1>10. CASE UNCHANGED vars
  BY <1>1, <1>3, <1>10 DEF vars, InStep, Rest, buff
<1> QED
  BY <1>5, <1>6, <1>7, <1>8, <1>9, <1>10 DEF Next, HandleRecvData

\* What comes out next is the next message, if it decodes.
LEMMA NothingSkippedKept == Inv /\ Aligned /\ [Next]_vars => NothingSkipped'
<1> SUFFICES ASSUME Inv, Aligned, [Next]_vars PROVE NothingSkipped'
  OBVIOUS
<1>1. /\ NothingSkipped /\ script' = script
      /\ delivered \in Seq(DOMAIN script \cup {Garbage}) /\ Len(delivered) \in Nat
  BY BuffType DEF Inv, Aligned, Next, Receive, HandleRecvData, SaveChunk, DecodeThrows,
       Underread, Deliver, Return, vars
<1>2. CASE delivered' = delivered
  BY <1>1, <1>2 DEF NothingSkipped, Decodable
<1>3. CASE Deliver
  <2>1. PICK length \in PayloadLength(buff), d \in Decoded(buff) :
          ~ Incomplete(buff, length) /\ delivered' = Append(delivered, d.message)
    BY <1>3 DEF Deliver
  <2>2. Len(buff) >= PreambleUnits
    BY <1>3 DEF Deliver
  <2>3. NextDecodes => d.message = Len(delivered) + 1
    BY <2>1, <2>2, NextIsRead DEF Aligned
  <2>4. /\ DOMAIN delivered' = 1 .. Len(delivered) + 1
        /\ \A i \in DOMAIN delivered : delivered'[i] = delivered[i]
        /\ delivered'[Len(delivered) + 1] = d.message
    BY <1>1, <2>1
  <2>5. ASSUME NEW i \in DOMAIN delivered', Decodable(i) PROVE delivered'[i] = i
    <3>1. CASE i \in DOMAIN delivered
      BY <1>1, <2>4, <2>5, <3>1 DEF NothingSkipped
    <3>2. CASE i = Len(delivered) + 1
      BY <2>3, <2>4, <2>5, <3>2 DEF NextDecodes
    <3> QED BY <1>1, <2>4, <3>1, <3>2
  <2> QED BY <1>1, <2>5 DEF NothingSkipped, Decodable
<1> QED
  BY <1>2, <1>3 DEF Next, Receive, HandleRecvData, SaveChunk, DecodeThrows, Underread, vars

\* Reading stays in step as long as the next message decodes.
LEMMA AlignedStep == Inv /\ Aligned /\ [Next]_vars => Aligned'
<1> SUFFICES ASSUME Inv, Aligned, [Next]_vars, NextDecodes' PROVE InStep'
  BY NothingSkippedKept DEF Aligned
<1>1. /\ script' = script /\ script \in Seq(Message)
      /\ delivered \in Seq(DOMAIN script \cup {Garbage})
      /\ delivered' = delivered \/ \E x : delivered' = Append(delivered, x)
  BY BuffType DEF Inv, Next, Receive, HandleRecvData, SaveChunk, DecodeThrows,
       Underread, Deliver, Return, vars
<1>2. Len(delivered) \in Nat /\ Len(delivered') \in Nat /\ Len(delivered) <= Len(delivered')
  BY <1>1
<1>3. NextDecodes
  <2>1. DOMAIN script \subseteq Nat
    BY <1>1, ScriptType
  <2> QED BY <1>1, <1>2, <2>1 DEF NextDecodes, Decodable
<1> QED
  BY <1>3, InStepKept DEF Aligned

\* The reader is in step as long as the next message decodes.
LEMMA AlignedAlways == Spec => []Aligned
<1>1. Inv /\ Aligned /\ [Next]_vars => Aligned'
  BY AlignedStep
<1> QED
  BY <1>1, AlignedInit, Invariant, PTL DEF Spec

\* However the stream is cut into chunks, what comes out of it up to the first message
\* that does not decode are its first messages, each once.
THEOREM AllInTheirOrder == Spec => []NothingSkipped
<1>1. Aligned => NothingSkipped
  BY DEF Aligned
<1> QED
  BY <1>1, AlignedAlways, PTL

\* What the run stale_chunk refutes of any stream holds as long as the next message
\* decodes: between two calls lastChunk ends where the chunks read so far end.
THEOREM LatestIsKept == Spec => [](NextDecodes => KeepsTheLatest)
<1>1. Inv /\ Aligned => (NextDecodes => KeepsTheLatest)
  <2> SUFFICES ASSUME Inv, Aligned, NextDecodes, ~ handling
               PROVE  IsSuffix(lastChunk \o wire, Encoded(script))
    BY DEF KeepsTheLatest
  <2> DEFINE p == Ends(script)[Len(delivered)]
      e == Encoded(script)
      t == lastChunk \o wire
  <2>1. /\ script \in Seq(Message) /\ lastChunk \in Seq(Unit(script))
        /\ wire \in Seq(Unit(script)) /\ Len(wire) \in Nat /\ Len(delivered) \in Nat
        /\ e \in Seq(Unit(script)) /\ Len(e) \in Nat
    BY BuffType, EncodedUnits DEF Inv
  <2>2. buff = lastChunk
    <3>1. buff = lastChunk \o <<>>
      BY DEF Inv, Quiet, buff
    <3> QED BY <2>1, <3>1
  <2>3. Rest(p) /\ p \in Nat
    BY <2>1, EndsType, ScriptType DEF Aligned, InStep
  <2>4. /\ t \in Seq(Unit(script)) /\ Len(t) = Len(lastChunk) + Len(wire)
        /\ \A i \in 1 .. Len(lastChunk) : t[i] = lastChunk[i]
        /\ \A i \in 1 .. Len(wire) : t[Len(lastChunk) + i] = wire[i]
    BY <2>1, JoinType
  <2> HIDE DEF p, e, t
  <2>5. p + Len(t) = Len(e) /\ Len(t) \in Nat /\ Len(lastChunk) \in Nat
    BY <2>1, <2>2, <2>3, <2>4 DEF Rest, e
  <2>6. /\ Drop(e, p) \in Seq(Unit(script)) /\ Len(Drop(e, p)) = Len(t)
        /\ \A i \in 1 .. Len(t) : Drop(e, p)[i] = e[p + i]
    <3>1. p <= Len(e) /\ Len(e) - p = Len(t)
      BY <2>1, <2>3, <2>5
    <3>2. /\ Drop(e, p) \in Seq(Unit(script)) /\ Len(Drop(e, p)) = Len(e) - p
          /\ \A i \in 1 .. Len(e) - p : Drop(e, p)[i] = e[p + i]
      BY <2>1, <2>3, <3>1, SplitType
    <3> QED BY <3>1, <3>2
  <2>7. ASSUME NEW i \in 1 .. Len(t) PROVE t[i] = e[p + i]
    <3>1. CASE i <= Len(lastChunk)
      BY <2>2, <2>3, <2>4, <2>5, <3>1 DEF Rest, e
    <3>2. CASE i > Len(lastChunk)
      <4> DEFINE j == i - Len(lastChunk)
      <4>1. j \in 1 .. Len(wire) /\ i = Len(lastChunk) + j
        BY <2>1, <2>4, <2>5, <3>2
      <4>2. p + Len(lastChunk) + j = p + i
        BY <2>3, <2>5, <4>1
      <4> HIDE DEF j
      <4> QED BY <2>2, <2>3, <2>4, <4>1, <4>2 DEF Rest, e
    <3> QED BY <2>5, <3>1, <3>2
  <2>8. t = Drop(e, p)
    BY <2>4, <2>6, <2>7
  <2>9. Len(t) <= Len(e) /\ Len(e) - Len(t) = p
    BY <2>1, <2>3, <2>5
  <2> QED BY <2>8, <2>9 DEF IsSuffix, e, t
<1> QED
  BY <1>1, AlignedAlways, Invariant, PTL
=============================================================================
