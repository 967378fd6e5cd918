------------------------- MODULE DlqProducerProofs -------------------------
(* The safety properties of DlqProducer, for any number of refused messages, *)
(* any room in the producer and any number of failures.                      *)
EXTENDS DlqProducer, FiniteSetTheorems, TLAPS

-----------------------------------------------------------------------------
(* The inductive invariant.                                                  *)

\* Each call times out at most once, and the present one has not yet.
TimeoutsPast == timeouts <= sent /\ (phase # "idle" => timeouts < sent)

IInv ==
  /\ TypeOK
  /\ AnswersBounded
  /\ TimeoutsPast
  /\ LossBounded

-----------------------------------------------------------------------------
(* What the producer holds.                                                  *)

LEMMA AcceptedFinite ==
  ASSUME TypeOK
  PROVE  IsFiniteSet(accepted) /\ Cardinality(accepted) \in Nat
  <1>1. accepted \subseteq 1 .. sent /\ sent \in Nat
    BY BoundsAssumption DEF TypeOK, Message
  <1>2. IsFiniteSet(1 .. sent)
    BY <1>1, FS_Interval
  <1>3. IsFiniteSet(accepted)
    BY <1>1, <1>2, FS_Subset
  <1> QED
    BY <1>3, FS_CardinalityType

LEMMA HeldIsNat ==
  ASSUME TypeOK
  PROVE  /\ Held \in Nat /\ Room \in Nat /\ sent \in Nat
         /\ Len(successes) \in Nat /\ Len(errors) \in Nat
  BY AcceptedFinite, RoomAssumption, BoundsAssumption DEF TypeOK, Held

\* Nothing held: what NewProducer leaves.
LEMMA NewHeld ==
  ASSUME NewProducer
  PROVE  Held' = 0
  <1>1. Cardinality({}) = 0
    BY FS_EmptySet
  <1>2. Len(<< >>) = 0
    OBVIOUS
  <1> QED
    BY <1>1, <1>2 DEF NewProducer, Held

LEMMA QueueHeld ==
  ASSUME TypeOK, Queue
  PROVE  Held' <= Held + 1
  <1>1. IsFiniteSet(accepted) /\ Cardinality(accepted) \in Nat
    BY AcceptedFinite
  <1>2. Cardinality(accepted \cup {sent}) <= Cardinality(accepted) + 1
    BY <1>1, FS_AddElement
  <1>3. Cardinality(accepted \cup {sent}) \in Nat
    BY <1>1, FS_AddElement, FS_CardinalityType
  <1> QED
    BY <1>1, <1>2, <1>3, HeldIsNat DEF Queue, Current, Held

\* An answer takes the place of its message.
LEMMA AnswerHeld ==
  ASSUME TypeOK, NEW m \in accepted, accepted' = accepted \ {m},
         \/ successes' = Append(successes, m) /\ UNCHANGED errors
         \/ errors' = Append(errors, m) /\ UNCHANGED successes
  PROVE  Held' = Held
  <1>1. IsFiniteSet(accepted) /\ Cardinality(accepted) \in Nat
    BY AcceptedFinite
  <1>2. Cardinality(accepted \ {m}) = Cardinality(accepted) - 1
    BY <1>1, FS_RemoveElement
  <1>3. successes \in Seq(Message) /\ errors \in Seq(Message) /\ m \in Message
    BY DEF TypeOK
  <1>4. Len(Append(successes, m)) = Len(successes) + 1 /\ Len(Append(errors, m)) = Len(errors) + 1
    BY <1>3
  <1> QED
    BY SMTT(30), <1>1, <1>2, <1>4, HeldIsNat DEF Held

\* Reading an answer makes room.
LEMMA ReadHeld ==
  ASSUME TypeOK, UNCHANGED accepted,
         \/ successes # << >> /\ successes' = Tail(successes) /\ UNCHANGED errors
         \/ errors # << >> /\ errors' = Tail(errors) /\ UNCHANGED successes
  PROVE  Held' = Held - 1
  <1>1. successes \in Seq(Message) /\ errors \in Seq(Message)
    BY DEF TypeOK
  <1>2. successes # << >> => Len(Tail(successes)) = Len(successes) - 1
    BY <1>1
  <1>3. errors # << >> => Len(Tail(errors)) = Len(errors) - 1
    BY <1>1
  <1>4. Cardinality(accepted) \in Nat
    BY AcceptedFinite
  <1>5. Len(successes) \in Nat /\ Len(errors) \in Nat
    BY HeldIsNat
  <1>6. CASE successes # << >> /\ successes' = Tail(successes) /\ UNCHANGED errors
    <2>1. Len(successes') = Len(successes) - 1 /\ Len(errors') = Len(errors)
      BY <1>2, <1>6
    <2> QED
      BY <1>4, <1>5, <2>1 DEF Held
  <1>7. CASE errors # << >> /\ errors' = Tail(errors) /\ UNCHANGED successes
    <2>1. Len(errors') = Len(errors) - 1 /\ Len(successes') = Len(successes)
      BY <1>3, <1>7
    <2> QED
      BY <1>4, <1>5, <2>1 DEF Held
  <1> QED
    BY <1>6, <1>7

LEMMA SameHeld ==
  ASSUME UNCHANGED producer
  PROVE  Held' = Held
  BY DEF producer, Held

\* Held in each kind of step, and the bound that AnswersBounded puts on it.
LEMMA Bounded ==
  ASSUME IInv, [Next]_vars
  PROVE  Held' <= Room /\ AnswersBounded'
  <1>0. /\ Held \in Nat /\ Room \in Nat /\ sent \in Nat /\ timeouts \in Nat
        /\ Held <= Room /\ Held <= timeouts + Waiting
        /\ TypeOK
    BY HeldIsNat DEF IInv, TypeOK, AnswersBounded
  <1>1. CASE UNCHANGED vars
    <2>1. Held' = Held
      BY <1>1, SameHeld DEF vars
    <2> QED
      BY <1>0, <1>1, <2>1 DEF vars, AnswersBounded, Waiting
  <1>2. CASE SendToDLQ
    <2>1. Held' = Held
      BY <1>2, SameHeld DEF SendToDLQ
    <2> QED
      BY <1>0, <1>2, <2>1 DEF SendToDLQ, AnswersBounded, Waiting
  <1>3. CASE Queue
    <2>1. Held' <= Held + 1
      BY <1>0, <1>3, QueueHeld
    <2>2. Held' \in Nat
      <3>1. IsFiniteSet(accepted')
        BY <1>0, <1>3, AcceptedFinite, FS_AddElement DEF Queue
      <3>2. Cardinality(accepted') \in Nat
        BY <3>1, FS_CardinalityType
      <3>3. Len(successes') \in Nat /\ Len(errors') \in Nat
        BY <1>0, <1>3, HeldIsNat DEF Queue
      <3> QED
        BY <3>2, <3>3 DEF Held
    <2>3. Held < Room /\ phase = "offer" /\ phase' = "await" /\ timeouts' = timeouts
      BY <1>3 DEF Queue
    <2> QED
      BY <1>0, <2>1, <2>2, <2>3 DEF AnswersBounded, Waiting
  <1>4. CASE InputTimeout \/ ConfirmationTimeout
    <2>1. Held' = Held
      BY <1>4, SameHeld DEF InputTimeout, ConfirmationTimeout
    <2> QED
      BY <1>0, <1>4, <2>1 DEF InputTimeout, ConfirmationTimeout, AnswersBounded, Waiting
  <1>5. CASE StaleError \/ Confirmed \/ Refused
    <2>1. Held' = Held - 1
      BY <1>0, <1>5, ReadHeld DEF StaleError, Confirmed, Refused, AfterAnswer
    <2>2. phase' = "idle" /\ timeouts' = timeouts
      BY <1>5 DEF StaleError, Confirmed, Refused
    <2> QED
      BY <1>0, <2>1, <2>2 DEF AnswersBounded, Waiting
  <1>6. CASE \E m \in accepted : Deliver(m) \/ Fail(m)
    <2>1. Held' = Held
      BY <1>0, <1>6, AnswerHeld DEF Deliver, Fail
    <2> QED
      BY <1>0, <1>6, <2>1 DEF Deliver, Fail, AnswersBounded, Waiting
  <1>7. CASE CloseProducer \/ Crash
    <2>1. Held' = 0 /\ timeouts' = 0
      BY <1>7, NewHeld DEF CloseProducer, Crash, NewProducer
    <2> QED
      BY <1>0, <2>1 DEF AnswersBounded, Waiting
  <1> QED
    BY <1>1, <1>2, <1>3, <1>4, <1>5, <1>6, <1>7 DEF Next, Handler

-----------------------------------------------------------------------------
(* Types.                                                                    *)

LEMMA Widened ==
  ASSUME NEW S, NEW T, S \subseteq T, NEW s \in Seq(S)
  PROVE  s \in Seq(T)
  OBVIOUS

LEMMA TypeStep ==
  ASSUME IInv, [Next]_vars
  PROVE  TypeOK'
  <1> USE DEF Message
  <1>0. /\ TypeOK /\ sent \in Nat /\ timeouts \in Nat
        /\ failures \in Nat /\ breaks \in Nat /\ failures + breaks <= MaxFailures
        /\ MaxFailures \in Nat /\ MaxRefused \in Nat
    BY BoundsAssumption DEF IInv, TypeOK
  <1>1. Held' <= Room
    BY Bounded
  <1>2. failures' \in Nat /\ breaks' \in Nat /\ failures' + breaks' <= MaxFailures
    BY <1>0 DEF Next, Handler, SendToDLQ, Queue, InputTimeout, StaleError, Confirmed,
                Refused, ConfirmationTimeout, Deliver, Fail, CloseProducer, Crash, Failure,
                Break, vars
  <1>3. CASE UNCHANGED vars
    BY <1>0, <1>1, <1>3 DEF TypeOK, vars, producer
  <1>4. CASE SendToDLQ
    <2>1. Message \subseteq Message' /\ sent' \in 0 .. MaxRefused
      BY <1>0, <1>4 DEF SendToDLQ, TypeOK
    <2>2. successes' \in Seq(Message') /\ errors' \in Seq(Message')
      BY <1>0, <1>4, <2>1, Widened DEF SendToDLQ, TypeOK, producer
    <2> QED
      BY <1>0, <1>1, <1>2, <1>4, <2>1, <2>2 DEF SendToDLQ, TypeOK, producer
  <1>5. CASE Queue
    <2>1. sent \in Message
      BY <1>0, <1>5 DEF Queue, IInv, TimeoutsPast
    <2> QED
      BY <1>0, <1>1, <1>2, <1>5, <2>1 DEF Queue, TypeOK, Current
  <1>6. CASE InputTimeout
    <2>1. sent \in Message
      BY <1>0, <1>6 DEF InputTimeout, IInv, TimeoutsPast
    <2> QED
      BY <1>0, <1>1, <1>2, <1>6, <2>1 DEF InputTimeout, TypeOK, Current, producer
  <1>7. CASE ConfirmationTimeout
    <2>1. timeouts' \in 0 .. sent
      BY <1>0, <1>7 DEF ConfirmationTimeout, IInv, TimeoutsPast
    <2> QED
      BY <1>0, <1>1, <1>2, <1>7, <2>1 DEF ConfirmationTimeout, TypeOK, producer
  <1>8. CASE StaleError \/ Confirmed \/ Refused
    <2>1. /\ successes \in Seq(1 .. sent) /\ errors \in Seq(1 .. sent)
          /\ sent' = sent
      BY <1>0, <1>8 DEF TypeOK, StaleError, Confirmed, Refused
    <2>2. successes # << >> => Tail(successes) \in Seq(1 .. sent)
      BY <2>1
    <2>3. errors # << >> => Tail(errors) \in Seq(1 .. sent)
      BY <2>1
    <2>4. successes' \in Seq(Message') /\ errors' \in Seq(Message')
      BY <1>8, <2>1, <2>2, <2>3 DEF StaleError, Confirmed, Refused, AfterAnswer
    <2> QED
      BY <1>0, <1>1, <1>2, <1>8, <2>1, <2>4 DEF StaleError, Confirmed, Refused, TypeOK
  <1>9. ASSUME NEW m \in accepted, Deliver(m) \/ Fail(m)
        PROVE  TypeOK'
    <2>1. /\ successes \in Seq(1 .. sent) /\ errors \in Seq(1 .. sent) /\ m \in 1 .. sent
          /\ sent' = sent
      BY <1>0, <1>9 DEF TypeOK, Deliver, Fail
    <2>2. Append(successes, m) \in Seq(1 .. sent) /\ Append(errors, m) \in Seq(1 .. sent)
      BY <2>1
    <2>3. successes' \in Seq(Message') /\ errors' \in Seq(Message')
      BY <1>9, <2>1, <2>2 DEF Deliver, Fail
    <2>4. accepted' \subseteq Message' /\ dlq' \subseteq Message'
      BY <1>0, <1>9, <2>1 DEF Deliver, Fail, TypeOK
    <2>5. phase' = phase /\ timeouts' = timeouts /\ dropped' = dropped
      BY <1>9 DEF Deliver, Fail
    <2> QED
      BY <1>0, <1>1, <1>2, <2>1, <2>3, <2>4, <2>5 DEF TypeOK
  <1>10. CASE CloseProducer \/ Crash
    <2>1. successes' \in Seq(Message') /\ errors' \in Seq(Message')
      <3>1. successes' = << >> /\ errors' = << >>
        BY <1>10 DEF CloseProducer, Crash, NewProducer
      <3>2. << >> \in Seq(Message')
        OBVIOUS
      <3> QED
        BY <3>1, <3>2
    <2>2. dlq' \subseteq Message /\ sent' = sent
      BY <1>0, <1>10 DEF CloseProducer, Crash, Flushed, TypeOK
    <2>3. /\ accepted' = {} /\ timeouts' = 0 /\ dropped' = dropped
          /\ phase' \in {"idle", phase}
      BY <1>10 DEF CloseProducer, Crash, NewProducer
    <2>4. sent \in 0 .. MaxRefused /\ dropped \subseteq Message /\ phase \in {"idle", "offer", "await"}
      BY <1>0 DEF TypeOK
    <2>5. timeouts' \in 0 .. sent'
      BY <1>0, <2>2, <2>3
    <2>6. accepted' \subseteq Message' /\ dlq' \subseteq Message' /\ dropped' \subseteq Message'
      BY <2>2, <2>3, <2>4
    <2>7. phase' \in {"idle", "offer", "await"} /\ sent' \in 0 .. MaxRefused
      BY <2>2, <2>3, <2>4
    <2> QED
      BY <1>1, <1>2, <2>1, <2>5, <2>6, <2>7 DEF TypeOK
  <1> QED
    BY <1>3, <1>4, <1>5, <1>6, <1>7, <1>8, <1>9, <1>10 DEF Next, Handler

LEMMA TimeoutsStep ==
  ASSUME IInv, [Next]_vars
  PROVE  TimeoutsPast'
  <1>0. sent \in Nat /\ timeouts \in Nat /\ TimeoutsPast
    BY BoundsAssumption DEF IInv, TypeOK
  <1> QED
    BY <1>0 DEF TimeoutsPast, Next, Handler, SendToDLQ, Queue, InputTimeout, StaleError,
         Confirmed, Refused, ConfirmationTimeout, Deliver, Fail, CloseProducer, Crash,
         NewProducer, vars

-----------------------------------------------------------------------------
(* How much is lost.                                                         *)

LEMMA LostFinite ==
  ASSUME TypeOK
  PROVE  IsFiniteSet(Lost) /\ Cardinality(Lost) \in Nat
  <1>1. Lost \subseteq 1 .. sent /\ sent \in Nat
    BY BoundsAssumption DEF TypeOK, Message, Lost
  <1>2. IsFiniteSet(1 .. sent)
    BY <1>1, FS_Interval
  <1>3. IsFiniteSet(Lost)
    BY <1>1, <1>2, FS_Subset
  <1> QED
    BY <1>3, FS_CardinalityType

\* A step loses no more than it adds to the lost.
LEMMA LostGrowsBy ==
  ASSUME TypeOK, NEW More, IsFiniteSet(More), Lost' \subseteq Lost \cup More
  PROVE  /\ Cardinality(Lost') \in Nat
         /\ Cardinality(Lost') <= Cardinality(Lost) + Cardinality(More)
  <1>1. IsFiniteSet(Lost) /\ Cardinality(Lost) \in Nat
    BY LostFinite
  <1>2. /\ IsFiniteSet(Lost \cup More)
        /\ Cardinality(Lost \cup More)
             = Cardinality(Lost) + Cardinality(More) - Cardinality(Lost \cap More)
    BY <1>1, FS_Union
  <1>3. IsFiniteSet(Lost \cap More)
    BY <1>1, FS_Subset
  <1>4. Cardinality(More) \in Nat /\ Cardinality(Lost \cap More) \in Nat
    BY <1>3, FS_CardinalityType
  <1>5. IsFiniteSet(Lost') /\ Cardinality(Lost') <= Cardinality(Lost \cup More)
    BY <1>2, FS_Subset
  <1>6. Cardinality(Lost') \in Nat
    BY <1>5, FS_CardinalityType
  <1> QED
    BY <1>1, <1>2, <1>4, <1>5, <1>6

\* A step that loses one message at most.
LEMMA LosesOne ==
  ASSUME TypeOK, NEW m, Lost' \subseteq Lost \cup {m}
  PROVE  Cardinality(Lost') \in Nat /\ Cardinality(Lost') <= Cardinality(Lost) + 1
  <1>1. IsFiniteSet({m}) /\ Cardinality({m}) = 1
    BY FS_Singleton
  <1> QED
    BY <1>1, LostGrowsBy, LostFinite

\* A step that loses none.
LEMMA LosesNone ==
  ASSUME TypeOK, Lost' \subseteq Lost
  PROVE  Cardinality(Lost') \in Nat /\ Cardinality(Lost') <= Cardinality(Lost)
  <1>1. IsFiniteSet({}) /\ Cardinality({}) = 0
    BY FS_EmptySet
  <1>2. Lost' \subseteq Lost \cup {}
    OBVIOUS
  <1> QED
    BY <1>1, <1>2, LostGrowsBy, LostFinite

\* A producer gone: what it held may be lost, and the message being offered.
LEMMA LosesRoom ==
  ASSUME TypeOK, Lost' \subseteq Lost \cup (accepted \cup {sent})
  PROVE  Cardinality(Lost') \in Nat /\ Cardinality(Lost') <= Cardinality(Lost) + Room + 1
  <1>1. IsFiniteSet(accepted) /\ Cardinality(accepted) \in Nat
    BY AcceptedFinite
  <1>2. IsFiniteSet(accepted \cup {sent})
    BY <1>1, FS_AddElement
  <1>6. Cardinality(accepted \cup {sent}) <= Cardinality(accepted) + 1
    BY <1>1, FS_AddElement
  <1>3. Cardinality(accepted \cup {sent}) \in Nat
    BY <1>2, FS_CardinalityType
  <1>4. Cardinality(accepted) <= Room
    BY <1>1, HeldIsNat DEF TypeOK, Held
  <1>5. /\ Cardinality(Lost') \in Nat
        /\ Cardinality(Lost') <= Cardinality(Lost) + Cardinality(accepted \cup {sent})
    BY <1>2, LostGrowsBy
  <1> QED
    BY <1>1, <1>3, <1>4, <1>5, <1>6, LostFinite, HeldIsNat

LEMMA LossStep ==
  ASSUME IInv, [Next]_vars
  PROVE  LossBounded'
  <1> DEFINE lost == Cardinality(Lost)
             budget == 2 * failures + (Room + 1) * breaks
  <1>0. /\ TypeOK /\ sent \in Nat /\ failures \in Nat /\ breaks \in Nat /\ Room \in Nat
        /\ lost \in Nat /\ Len(errors) \in Nat /\ lost + Len(errors) <= budget
        /\ phase # "idle" => sent \in 1 .. sent
    BY HeldIsNat, LostFinite DEF IInv, TypeOK, LossBounded, TimeoutsPast
  <1>1. Len(errors') \in Nat
    <2>1. TypeOK'
      BY TypeStep
    <2> QED
      BY <2>1 DEF TypeOK
  <1>2. CASE \/ UNCHANGED vars \/ SendToDLQ \/ Queue \/ InputTimeout
             \/ Confirmed \/ ConfirmationTimeout \/ \E n \in accepted : Deliver(n)
    <2>1. Lost' \subseteq Lost
      BY <1>0, <1>2
      DEF vars, producer, SendToDLQ, Queue, InputTimeout, Confirmed, ConfirmationTimeout,
          Deliver, Lost, Message, Current
    <2>2. UNCHANGED <<errors, failures, breaks>>
      BY <1>2
      DEF vars, producer, SendToDLQ, Queue, InputTimeout, Confirmed, ConfirmationTimeout, Deliver
    <2> QED
      BY <1>0, <2>1, <2>2, LosesNone DEF LossBounded
  <1>3. CASE Refused
    <2>1. Lost' \subseteq Lost
      BY <1>0, <1>3 DEF Refused, Lost, Message, Current
    <2>2. Len(errors') = Len(errors) - 1 /\ UNCHANGED <<failures, breaks>>
      BY <1>0, <1>3 DEF Refused, AfterAnswer, TypeOK
    <2> QED
      BY <1>0, <1>1, <2>1, <2>2, LosesNone DEF LossBounded
  <1>4. CASE StaleError
    <2>1. Lost' \subseteq Lost \cup {sent}
      BY <1>0, <1>4 DEF StaleError, Lost, Message, Current
    <2>2. Len(errors') = Len(errors) - 1 /\ UNCHANGED <<failures, breaks>>
      BY <1>0, <1>4 DEF StaleError, TypeOK
    <2>3. Cardinality(Lost') \in Nat /\ Cardinality(Lost') <= lost + 1
      BY <1>0, <2>1, LosesOne
    <2> QED
      BY <1>0, <1>1, <2>2, <2>3 DEF LossBounded
  <1>5. ASSUME NEW n \in accepted, Fail(n)
        PROVE  LossBounded'
    <2>1. Lost' \subseteq Lost \cup {n}
      BY <1>0, <1>5 DEF Fail, Lost, Message, Current
    <2>2. /\ Len(errors') = Len(errors) + 1
          /\ failures' = failures + 1 /\ breaks' = breaks
      BY <1>0, <1>5 DEF Fail, Failure, TypeOK
    <2>3. (2 * failures + (Room + 1) * breaks)' = budget + 2
      BY <1>0, <2>2
    <2>4. Cardinality(Lost') \in Nat /\ Cardinality(Lost') <= lost + 1
      BY <1>0, <2>1, LosesOne
    <2> QED
      BY <1>0, <1>1, <2>2, <2>3, <2>4 DEF LossBounded
  <1>6. CASE CloseProducer /\ dlq' = Flushed /\ UNCHANGED <<failures, breaks>>
    <2>1. Lost' \subseteq Lost
      BY <1>0, <1>6 DEF CloseProducer, Flushed, NewProducer, Lost, Message, Current
    <2>2. Len(errors') = 0
      BY <1>6 DEF CloseProducer, NewProducer
    <2> QED
      BY <1>0, <1>6, <2>1, <2>2, LosesNone DEF LossBounded
  <1>7. CASE Crash \/ (CloseProducer /\ Break)
    <2>1. Lost' \subseteq Lost \cup (accepted \cup {sent})
      <3>1. sent' = sent /\ dropped' = dropped /\ dlq \subseteq dlq' /\ phase' = "idle"
        BY <1>7 DEF CloseProducer, Crash, Flushed
      <3>2. ASSUME NEW m \in Message, m \notin dlq \cup dropped \cup accepted, m # sent
            PROVE  m \in Lost
        BY <3>2 DEF Lost, Current
      <3>3. Lost' \subseteq {m \in Message : m \notin dlq \cup dropped}
        BY <3>1 DEF Lost, Message
      <3> QED
        BY <3>2, <3>3
    <2>2. Len(errors') = 0 /\ breaks' = breaks + 1 /\ failures' = failures
      BY <1>7 DEF CloseProducer, Crash, NewProducer, Break
    <2>3. (2 * failures + (Room + 1) * breaks)' = budget + Room + 1
      BY <1>0, <2>2
    <2> QED
      BY <1>0, <2>1, <2>2, <2>3, LosesRoom DEF LossBounded
  <1> QED
    BY <1>2, <1>3, <1>4, <1>5, <1>6, <1>7 DEF Next, Handler, CloseProducer

-----------------------------------------------------------------------------
LEMMA AlwaysSafe == Spec => []IInv
  <1>1. Init => IInv
    <2> SUFFICES ASSUME Init PROVE IInv
      OBVIOUS
    <2>1. Held = 0
      BY FS_EmptySet DEF Init, Held
    <2>2. TypeOK
      BY <2>1, RoomAssumption, BoundsAssumption DEF Init, TypeOK, Message
    <2>3. Lost = {}
      BY DEF Init, Lost, Message
    <2>4. LossBounded
      BY <2>3, FS_EmptySet, RoomAssumption DEF Init, LossBounded
    <2> QED
      BY <2>1, <2>2, <2>4 DEF Init, IInv, AnswersBounded, Waiting, TimeoutsPast
  <1>2. IInv /\ [Next]_vars => IInv'
    BY TypeStep, Bounded, TimeoutsStep, LossStep DEF IInv
  <1> QED
    BY <1>1, <1>2, PTL DEF Spec

\* The variables of sendToDLQ and its producer keep their types; in particular
\* the producer never holds more than it has room for.
THEOREM DlqTypeCorrect == Spec => []TypeOK
  <1>1. IInv => TypeOK
    BY DEF IInv
  <1> QED
    BY <1>1, AlwaysSafe, PTL

\* Every message or unread answer the producer holds beyond the one being
\* waited for stands for a confirmation that timed out.
THEOREM AnswersAreBounded == Spec => []AnswersBounded
  <1>1. IInv => AnswersBounded
    BY DEF IInv
  <1> QED
    BY <1>1, AlwaysSafe, PTL

\* A failed send loses two refused messages at most, a crash or a failed flush
\* what the producer holds and one more, and nothing else loses any, however
\* late the answers come and in whatever order.
THEOREM LossIsBounded == Spec => []LossBounded
  <1>1. IInv => LossBounded
    BY DEF IInv
  <1> QED
    BY <1>1, AlwaysSafe, PTL

\* No message is given up at a blocked Input() before Room confirmations have
\* timed out.
THEOREM DropsFollowTimeouts == Spec => DroppedAfterTimeouts
  <1>1. IInv /\ [Next]_vars => [InputTimeout => timeouts >= Room]_vars
    <2> SUFFICES ASSUME IInv, InputTimeout PROVE timeouts >= Room
      OBVIOUS
    <2>1. Held = Room /\ phase = "offer"
      BY DEF InputTimeout, InputBlocked
    <2>2. Held <= timeouts + 0
      BY <2>1 DEF IInv, AnswersBounded, Waiting
    <2>3. timeouts \in Nat /\ Room \in Nat
      BY RoomAssumption, BoundsAssumption DEF IInv, TypeOK
    <2> QED
      BY <2>1, <2>2, <2>3
  <1> QED
    BY <1>1, AlwaysSafe, PTL DEF Spec, DroppedAfterTimeouts
=============================================================================
