---------------------------- MODULE DlqProducer ----------------------------
(* sendToDLQ of internal/consumer/consumer.go and the sarama.AsyncProducer   *)
(* that runConsumer opens for it. handleMessage calls sendToDLQ once for     *)
(* each message it refuses; the calls come one after another. The producer   *)
(* answers every message it has accepted on one of two channels, in any      *)
(* order and as late as it likes. It has room for so many messages, counting *)
(* those it has answered while nobody has read the answer.                   *)
(*                                                                           *)
(* As elsewhere, a name with a suffix after an underscore is the next        *)
(* definition with a bug put in, used by no action.                          *)
EXTENDS Naturals, Sequences, FiniteSets

CONSTANTS MaxRefused,  \* bound on refused messages
          Room,        \* messages the producer holds before Input() blocks
          MaxFailures  \* bound on failed sends, failed flushes and crashes

ASSUME RoomAssumption == Room \in Nat \ {0}
ASSUME BoundsAssumption == MaxRefused \in Nat /\ MaxFailures \in Nat

VARIABLES
  sent,      \* sendToDLQ calls so far; the n-th is about message n
  phase,     \* "idle"; "offer": in the outer select; "await": in the inner one
  accepted,  \* messages the producer has taken and not answered
  successes, \* producer.Successes()
  errors,    \* producer.Errors()
  dlq,       \* messages in the DLQ topic
  timeouts,  \* confirmations of this producer that timed out
  dropped,   \* messages given up because Input() blocked: a line in the log
  failures,  \* failed sends
  breaks     \* crashes, and producers closed before they were flushed

producer == <<accepted, successes, errors>>
vars == <<sent, phase, producer, dlq, timeouts, dropped, failures, breaks>>

Message == 1 .. sent

Held == Cardinality(accepted) + Len(successes) + Len(errors)

TypeOK ==
  /\ sent \in 0 .. MaxRefused
  /\ phase \in {"idle", "offer", "await"}
  /\ accepted \subseteq Message /\ dlq \subseteq Message
  /\ successes \in Seq(Message) /\ errors \in Seq(Message)
  /\ Held <= Room
  /\ timeouts \in 0 .. sent
  /\ dropped \subseteq Message
  /\ failures \in Nat /\ breaks \in Nat /\ failures + breaks <= MaxFailures

Init ==
  /\ sent = 0 /\ phase = "idle"
  /\ accepted = {} /\ successes = << >> /\ errors = << >>
  /\ dlq = {} /\ timeouts = 0 /\ dropped = {}
  /\ failures = 0 /\ breaks = 0

Failure ==
  failures + breaks < MaxFailures /\ failures' = failures + 1 /\ UNCHANGED breaks

Break ==
  failures + breaks < MaxFailures /\ breaks' = breaks + 1 /\ UNCHANGED failures

-----------------------------------------------------------------------------
(* sendToDLQ.                                                                *)

Current_OneAhead == sent + 1

Current == sent

SendToDLQ ==
  /\ phase = "idle"
  /\ sent < MaxRefused
  /\ sent' = sent + 1
  /\ phase' = "offer"
  /\ UNCHANGED <<producer, dlq, timeouts, dropped, failures, breaks>>

\* case producer.Input() <- dlqMsg
Queue ==
  /\ phase = "offer"
  /\ Held < Room
  /\ accepted' = accepted \cup {Current}
  /\ phase' = "await"
  /\ UNCHANGED <<sent, successes, errors, dlq, timeouts, dropped, failures, breaks>>

\* case <-time.After(3 * time.Second): nothing else has been possible.
InputBlocked_NoPatience == TRUE

InputBlocked == Held = Room /\ errors = << >>

InputTimeout ==
  /\ phase = "offer"
  /\ InputBlocked
  /\ dropped' = dropped \cup {Current}
  /\ phase' = "idle"
  /\ UNCHANGED <<sent, producer, dlq, timeouts, failures, breaks>>

\* case err := <-producer.Errors(): the error of an earlier message. This one
\* is not queued.
StaleError_AnyAnswer ==
  /\ phase = "offer"
  /\ \/ errors # << >> /\ errors' = Tail(errors) /\ UNCHANGED successes
     \/ successes # << >> /\ successes' = Tail(successes) /\ UNCHANGED errors
  /\ phase' = "idle"
  /\ UNCHANGED <<sent, accepted, dlq, timeouts, dropped, failures, breaks>>

StaleError ==
  /\ phase = "offer"
  /\ errors # << >>
  /\ errors' = Tail(errors)
  /\ phase' = "idle"
  /\ UNCHANGED <<sent, accepted, successes, dlq, timeouts, dropped, failures, breaks>>

\* case success := <-producer.Successes(), case err := <-producer.Errors():
\* whichever message they are about.
AfterAnswer_LeftThere(channel) == channel

AfterAnswer(channel) == Tail(channel)

Confirmed ==
  /\ phase = "await"
  /\ successes # << >>
  /\ successes' = AfterAnswer(successes)
  /\ phase' = "idle"
  /\ UNCHANGED <<sent, accepted, errors, dlq, timeouts, dropped, failures, breaks>>

Refused ==
  /\ phase = "await"
  /\ errors # << >>
  /\ errors' = AfterAnswer(errors)
  /\ phase' = "idle"
  /\ UNCHANGED <<sent, accepted, successes, dlq, timeouts, dropped, failures, breaks>>

\* case <-time.After(5 * time.Second): no answer of any kind has come.
WaitsForTimer_Never == FALSE

WaitsForTimer == successes = << >> /\ errors = << >>

ConfirmationTimeout ==
  /\ phase = "await"
  /\ WaitsForTimer
  /\ timeouts' = timeouts + 1
  /\ phase' = "idle"
  /\ UNCHANGED <<sent, producer, dlq, dropped, failures, breaks>>

-----------------------------------------------------------------------------
(* The producer, and what becomes of it.                                     *)

Deliver(m) ==
  /\ m \in accepted
  /\ accepted' = accepted \ {m}
  /\ successes' = Append(successes, m)
  /\ dlq' = dlq \cup {m}
  /\ UNCHANGED <<sent, phase, errors, timeouts, dropped, failures, breaks>>

\* A send that fails for good may have reached the topic all the same.
Fail(m) ==
  /\ m \in accepted
  /\ accepted' = accepted \ {m}
  /\ errors' = Append(errors, m)
  /\ dlq' \in {dlq, dlq \cup {m}}
  /\ Failure
  /\ UNCHANGED <<sent, phase, successes, timeouts, dropped>>

NewProducer ==
  accepted' = {} /\ successes' = << >> /\ errors' = << >> /\ timeouts' = 0

\* runConsumer returns: safeClose calls Close, which flushes the producer and
\* drains its channels; the next runConsumer opens a new one.
Flushed_Abandoned == dlq

Flushed == dlq \cup accepted

CloseProducer ==
  /\ phase = "idle"
  /\ \/ dlq' = Flushed /\ UNCHANGED <<failures, breaks>>
     \/ dlq' \in {dlq \cup part : part \in SUBSET accepted} /\ Break
  /\ NewProducer
  /\ UNCHANGED <<sent, phase, dropped>>

Crash ==
  /\ Break
  /\ phase' = "idle"
  /\ NewProducer
  /\ UNCHANGED <<sent, dlq, dropped>>

-----------------------------------------------------------------------------
Handler == \/ Queue \/ InputTimeout \/ StaleError
           \/ Confirmed \/ Refused \/ ConfirmationTimeout

Next ==
  \/ Handler \/ SendToDLQ
  \/ \E m \in accepted : Deliver(m) \/ Fail(m)
  \/ CloseProducer \/ Crash

Spec == Init /\ [][Next]_vars

\* The handler's goroutine is run and its timers fire; Kafka owes nothing.
FairSpec == Spec /\ WF_vars(Handler)

-----------------------------------------------------------------------------
Waiting == IF phase = "await" THEN 1 ELSE 0

\* Messages the producer holds, unanswered or with an answer nobody has read,
\* pile up only by confirmation timeouts, at most one for each.
AnswersBounded == Held <= timeouts + Waiting

\* A message is given up because Input() blocked only after the confirmations
\* of as many earlier messages as the producer has room for have timed out.
DroppedAfterTimeouts == [][InputTimeout => timeouts >= Room]_vars

\* The messages that are gone: sendToDLQ has been called for them, but they are
\* neither in the DLQ nor with the producer, and no log line says they were
\* given up because Input() blocked.
Lost ==
  {m \in Message : m \notin dlq \cup accepted \cup dropped}
    \ IF phase = "offer" THEN {Current} ELSE {}

\* A failed send costs at most two messages: its own, and the one for which
\* sendToDLQ reads the error instead of queueing it; an error not read yet may
\* still cost one. A crash or a failed flush costs what the producer holds and
\* the message being offered. Nothing else loses one: no late success, no
\* confirmation timeout, no close.
LossBounded ==
  Cardinality(Lost) + Len(errors) <= 2 * failures + (Room + 1) * breaks

\* sendToDLQ comes back, whatever Kafka does, so that the consumer goes on.
SendReturns == phase # "idle" ~> phase = "idle"

\* The success that sendToDLQ reports for its message ("Message confirmed sent
\* to DLQ") is the one of that message.
ConfirmationIsOwn == [][Confirmed => Head(successes) = sent]_vars
=============================================================================
