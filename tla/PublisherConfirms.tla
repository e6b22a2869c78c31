------------------------- MODULE PublisherConfirms -------------------------
(***************************************************************************)
(* RabbitMQBroker as a publisher: PublishWithConfirm, handleConfirmations, *)
(* Start, Stop and Reconnect of rabbitmq_broker.go.                        *)
(*                                                                         *)
(* Publishers register a one-place channel under the next delivery tag,    *)
(* publish and wait.  A confirmation handler per AMQP channel reads the    *)
(* answers and gives each to whoever is registered under its tag.  All of  *)
(* them share the map pendingConfirms under publishMutex; Reconnect, which *)
(* keeps the mutex while it dials, replaces the map and starts the tags    *)
(* again at 1.  Critical sections are single steps, except Reconnect's.    *)
(*                                                                         *)
(* RabbitMQ and the amqp091 client are the environment: Answer (in the     *)
(* order of the tags) and LoseConnection.                                  *)
(***************************************************************************)
EXTENDS Naturals, Sequences, FiniteSets

CONSTANTS
  Publishers,   \* goroutines that call PublishWithConfirm
  MaxTag,       \* bound: messages published on a channel
  MaxChannels,  \* bound: AMQP channels opened, 1 when Reconnect is never called
  None

ASSUME ConfirmsAssumption ==
  /\ MaxTag \in Nat
  /\ MaxChannels \in Nat \ {0}
  /\ None \notin Publishers

Tags == 1..MaxTag
Channels == 1..MaxChannels

VARIABLES
  current,   \* r.channel
  open,      \* open[c]: channel c is open
  seq,       \* seq[c]: messages published on c
  outcome,   \* outcome[c][n]: what the broker did with message n of c
  wire,      \* wire[c]: answers in c's confirms, not yet read by its handler
  handler,   \* handler[c]: the goroutine handleConfirmations of c
  held,      \* held[c]: the answer it has read and not yet delivered
  pending,   \* r.pendingConfirms: the publisher registered under a tag
  pc,        \* pc[p]: where publisher p is
  mine,      \* mine[p]: channel and tag of the message p waits for
  box,       \* box[p]: its confirmChan
  reported,  \* messages whose PublishWithConfirm returned nil
  running,   \* r.running
  stopper,   \* Stop: "none", "waiting" for the handlers, "done"
  locked     \* Reconnect holds publishMutex

vars == <<current, open, seq, outcome, wire, handler, held, pending, pc, mine, box,
          reported, running, stopper, locked>>
amqp == <<current, open, seq, outcome>>
lifecycle == <<running, stopper, locked>>
waiters == <<pc, mine, box, reported>>

Outcomes == {"unknown", "stored", "refused", "returned"}
\* A returned message is acked too: the broker has dealt with it.
Acked == {"stored", "returned"}

MessageBefore(c, n) == [chan |-> c, tag |-> n - 1]
Message(c, n) == [chan |-> c, tag |-> n]
Messages == [chan : Channels, tag : Tags]
NoMessage == [chan |-> 0, tag |-> 0]
Answers == [tag : Tags, ack : BOOLEAN]
NoAnswer == [tag |-> 0, ack |-> FALSE]

\* make(map[uint64]chan amqp.Confirmation)
Empty == [n \in Tags |-> None]

Init ==
  /\ current = 1
  /\ open = [c \in Channels |-> c = 1]
  /\ seq = [c \in Channels |-> 0]
  /\ outcome = [c \in Channels |-> [n \in Tags |-> "unknown"]]
  /\ wire = [c \in Channels |-> << >>]
  /\ handler = [c \in Channels |-> "none"]
  /\ held = [c \in Channels |-> NoAnswer]
  /\ pending = Empty
  /\ pc = [p \in Publishers |-> "idle"]
  /\ mine = [p \in Publishers |-> NoMessage]
  /\ box = [p \in Publishers |-> "empty"]
  /\ reported = {}
  /\ running = FALSE
  /\ stopper = "none"
  /\ locked = FALSE

-----------------------------------------------------------------------------
(* PublishWithConfirm *)

\* GetNextPublishSeqNo, make(chan, 1), register, Publish: one critical section.
\* On a closed channel the tag is registered, Publish fails, and the tag is
\* removed again before the mutex is: no step at all.
Publish(p) ==
  /\ pc[p] = "idle"
  /\ ~ locked
  /\ open[current]
  /\ seq[current] < MaxTag
  /\ LET n == seq[current] + 1 IN
       /\ seq' = [seq EXCEPT ![current] = n]
       /\ pending' = [pending EXCEPT ![n] = p]
       /\ mine' = [mine EXCEPT ![p] = Message(current, n)]
  /\ pc' = [pc EXCEPT ![p] = "wait"]
  /\ box' = [box EXCEPT ![p] = "empty"]
  /\ UNCHANGED <<current, open, outcome, wire, handler, held, reported, lifecycle>>

NotNacked(p) == box[p] # "nack"
\* A closed confirmChan yields the zero Confirmation, whose Ack is false.
SaysAck(p) == box[p] = "ack"

Return(p, ok) ==
  /\ pc' = [pc EXCEPT ![p] = "idle"]
  /\ box' = [box EXCEPT ![p] = "empty"]
  /\ mine' = [mine EXCEPT ![p] = NoMessage]
  /\ reported' = IF ok THEN reported \cup {mine[p]} ELSE reported

TakeAnswer(p) ==
  /\ pc[p] = "wait"
  /\ box[p] # "empty"
  /\ Return(p, SaysAck(p))
  /\ UNCHANGED <<amqp, wire, handler, held, pending, lifecycle>>

\* publishConfirmTimeout, or the end of the caller's context.  The answer may be
\* there already: the select takes either.
Timeout(p) ==
  /\ pc[p] = "wait"
  /\ pc' = [pc EXCEPT ![p] = "expired"]
  /\ UNCHANGED <<amqp, wire, handler, held, pending, mine, box, reported, lifecycle>>

ClearWaiters(p) == Empty
\* delete(r.pendingConfirms, deliveryTag): whoever is registered there by now
DropEntry(p) == [pending EXCEPT ![mine[p].tag] = None]

Forget(p) ==
  /\ pc[p] = "expired"
  /\ ~ locked
  /\ pending' = DropEntry(p)
  /\ Return(p, FALSE)
  /\ UNCHANGED <<amqp, wire, handler, held, lifecycle>>

-----------------------------------------------------------------------------
(* handleConfirmations of channel c *)

Read(c) ==
  /\ handler[c] = "select"
  /\ wire[c] # << >>
  /\ held' = [held EXCEPT ![c] = Head(wire[c])]
  /\ wire' = [wire EXCEPT ![c] = Tail(@)]
  /\ handler' = [handler EXCEPT ![c] = "deliver"]
  /\ UNCHANGED <<amqp, pending, waiters, lifecycle>>

KeepRegistered(n) == pending
\* delete(r.pendingConfirms, confirm.DeliveryTag)
Unregister(n) == [pending EXCEPT ![n] = None]

\* The map is looked up when the mutex is free, not when the answer was read.
Deliver(c) ==
  /\ handler[c] = "deliver"
  /\ ~ locked
  /\ LET n == held[c].tag
         p == pending[n]
     IN IF p = None
        THEN UNCHANGED <<box, pending>>
        ELSE /\ box' = [box EXCEPT ![p] = IF held[c].ack THEN "ack" ELSE "nack"]
             /\ pending' = Unregister(n)
  /\ handler' = [handler EXCEPT ![c] = "select"]
  /\ held' = [held EXCEPT ![c] = NoAnswer]
  /\ UNCHANGED <<amqp, wire, pc, mine, reported, lifecycle>>

Registered == {p \in Publishers : \E n \in Tags : pending[n] = p}

\* ctx.Done(): every waiter's channel is closed, whichever connection it is of.
Quit(c) ==
  /\ handler[c] = "select"
  /\ stopper # "none"
  /\ ~ locked
  /\ box' = [p \in Publishers |-> IF p \in Registered THEN "closed" ELSE box[p]]
  /\ pending' = Empty
  /\ handler' = [handler EXCEPT ![c] = "done"]
  /\ UNCHANGED <<amqp, wire, held, pc, mine, reported, lifecycle>>

\* The client has closed both notification channels.  The closed returns may be
\* chosen before what is left in confirms.  Nobody tells the waiters.
ChannelClosed(c) ==
  /\ handler[c] = "select"
  /\ ~ open[c]
  /\ handler' = [handler EXCEPT ![c] = "done"]
  /\ UNCHANGED <<amqp, wire, held, pending, waiters, lifecycle>>

-----------------------------------------------------------------------------
(* RabbitMQ and the client library *)

Answered(c) == {n \in Tags : outcome[c][n] # "unknown"}

\* The client hands answers out in the order of the tags, to those who have asked
\* for them.  The return of an unroutable message is read by the handler and
\* logged, which no state shows.
Answer(c) ==
  /\ open[c]
  /\ \E n \in 1..seq[c], result \in Outcomes \ {"unknown"} :
       /\ Answered(c) = 1..(n - 1)
       /\ outcome' = [outcome EXCEPT ![c][n] = result]
       /\ wire' = IF handler[c] = "none" THEN wire
                  ELSE [wire EXCEPT ![c] = Append(@, [tag |-> n, ack |-> result \in Acked])]
  /\ UNCHANGED <<current, open, seq, handler, held, pending, waiters, lifecycle>>

\* The connection is gone, and with it the answers that were under way.
Close(c) == open' = [open EXCEPT ![c] = FALSE]

LoseConnection ==
  /\ open[current]
  /\ Close(current)
  /\ UNCHANGED <<current, seq, outcome, wire, handler, held, pending, waiters, lifecycle>>

-----------------------------------------------------------------------------
(* Start, Stop, Reconnect *)

Spawn(c) == handler' = [handler EXCEPT ![c] = "select"]

\* What is between running and the two Notify calls only Reconnect could see.
Start ==
  /\ ~ running
  /\ stopper = "none"
  /\ ~ locked
  /\ handler[current] = "none"
  /\ running' = TRUE
  /\ Spawn(current)
  /\ UNCHANGED <<amqp, wire, held, pending, waiters, stopper, locked>>

\* running is reset under the mutex; then cancel().
Stop ==
  /\ running
  /\ ~ locked
  /\ running' = FALSE
  /\ stopper' = "waiting"
  /\ UNCHANGED <<amqp, wire, handler, held, pending, waiters, locked>>

HandlersDone == \A c \in Channels : handler[c] \in {"none", "done"}

\* wg.Wait() is over: the channel and the connection are closed.
StopEnds ==
  /\ stopper = "waiting"
  /\ HandlersDone
  /\ stopper' = "done"
  /\ Close(current)
  /\ UNCHANGED <<current, seq, outcome, wire, handler, held, pending, waiters, running, locked>>

BeginReconnect ==
  /\ ~ locked
  /\ current < MaxChannels
  /\ locked' = TRUE
  /\ Close(current)
  /\ UNCHANGED <<current, seq, outcome, wire, handler, held, pending, waiters, running, stopper>>

Reconnected ==
  /\ locked
  /\ current < MaxChannels
  /\ current' = current + 1
  /\ open' = [open EXCEPT ![current + 1] = TRUE]
  /\ pending' = Empty
  /\ IF running THEN Spawn(current + 1) ELSE UNCHANGED handler
  /\ locked' = FALSE
  /\ UNCHANGED <<seq, outcome, wire, held, waiters, running, stopper>>

\* Dial, Channel, Confirm, Qos or QueueDeclare fails: the closed channel stays.
ReconnectFails ==
  /\ locked
  /\ locked' = FALSE
  /\ UNCHANGED <<amqp, wire, handler, held, pending, waiters, running, stopper>>

-----------------------------------------------------------------------------
PublisherStep(p) == Publish(p) \/ TakeAnswer(p) \/ Timeout(p) \/ Forget(p)
HandlerStep(c) == Read(c) \/ Deliver(c) \/ Quit(c) \/ ChannelClosed(c)
ReconnectStep == BeginReconnect \/ Reconnected \/ ReconnectFails

Next ==
  \/ \E p \in Publishers : PublisherStep(p)
  \/ \E c \in Channels : HandlerStep(c) \/ Answer(c)
  \/ LoseConnection \/ Start \/ Stop \/ StopEnds
  \/ ReconnectStep

Spec == Init /\ [][Next]_vars

-----------------------------------------------------------------------------
TypeOK ==
  /\ current \in Channels
  /\ open \in [Channels -> BOOLEAN]
  /\ seq \in [Channels -> 0..MaxTag]
  /\ outcome \in [Channels -> [Tags -> Outcomes]]
  /\ wire \in [Channels -> Seq(Answers)]
  /\ handler \in [Channels -> {"none", "select", "deliver", "done"}]
  /\ held \in [Channels -> Answers \cup {NoAnswer}]
  /\ \A c \in Channels : handler[c] = "deliver" => held[c] \in Answers
  /\ pending \in [Tags -> Publishers \cup {None}]
  /\ pc \in [Publishers -> {"idle", "wait", "expired"}]
  /\ mine \in [Publishers -> Messages \cup {NoMessage}]
  /\ box \in [Publishers -> {"empty", "ack", "nack", "closed"}]
  /\ reported \subseteq Messages
  /\ running \in BOOLEAN
  /\ stopper \in {"none", "waiting", "done"}
  /\ locked \in BOOLEAN
  /\ \A p \in Publishers : pc[p] # "idle" => mine[p] \in Messages

(* The handler sends to confirmChan and closes it under publishMutex, so   *)
(* it must never find one that is full, closed or abandoned: whoever is    *)
(* registered under a tag is in the middle of a publish with that tag on   *)
(* the current channel, and has been told nothing yet.  Otherwise the      *)
(* send blocks everybody, or a second close panics.                        *)
RegisteredIsOpen ==
  \A n \in Tags : pending[n] # None =>
    /\ pc[pending[n]] \in {"wait", "expired"}
    /\ mine[pending[n]] = Message(current, n)
    /\ box[pending[n]] = "empty"

(* PublishWithConfirm returns nil only after an ack for its delivery tag,  *)
(* on its own channel or, when Reconnect has replaced the map under the    *)
(* handler of an older one, on that; never after a timeout, a nack, a      *)
(* closed channel or another tag's ack.                                    *)
AckedBy(m) == \E d \in 1..m.chan : outcome[d][m.tag] \in Acked

ReportedWasAcked == \A m \in reported : AckedBy(m)

(* A publisher that waits and has been told nothing is registered under    *)
(* its tag, so an answer that comes reaches it: no timeout, answer or stop *)
(* of another takes the entry away.  Only Reconnect, which the API server  *)
(* never calls, leaves waiters behind.                                     *)
WaiterIsRegistered ==
  current = 1 =>
    \A p \in Publishers :
      pc[p] = "wait" /\ box[p] = "empty" => pending[mine[p].tag] = p

-----------------------------------------------------------------------------
(* The inductive invariant behind the theorems of PublisherConfirmsProofs. *)

\* Only channels that were opened have handlers, answers, messages.
OpenedOnly ==
  /\ \A c \in Channels : c > current =>
       handler[c] = "none" /\ seq[c] = 0 /\ ~ open[c] /\ wire[c] = << >> /\ held[c] = NoAnswer
  /\ \A p \in Publishers : mine[p].chan <= current
  /\ \A p \in Publishers : pc[p] # "idle" => mine[p].tag <= seq[mine[p].chan]

\* A tag is used once on a channel.
DistinctMessages ==
  \A p, q \in Publishers : pc[p] # "idle" /\ pc[q] # "idle" /\ mine[p] = mine[q] => p = q

\* An answer says what the broker did.
AnswersAreTrue ==
  \A c \in Channels :
    /\ \A i \in 1..Len(wire[c]) : wire[c][i].ack => outcome[c][wire[c][i].tag] \in Acked
    /\ held[c].ack => outcome[c][held[c].tag] \in Acked

BoxIsTrue == \A p \in Publishers : pc[p] # "idle" /\ box[p] = "ack" => AckedBy(mine[p])

ConfirmInv ==
  /\ TypeOK /\ OpenedOnly /\ DistinctMessages
  /\ RegisteredIsOpen /\ WaiterIsRegistered
  /\ AnswersAreTrue /\ BoxIsTrue /\ ReportedWasAcked

-----------------------------------------------------------------------------
(* README.md:39: mandatory and returns deal with routing failures.  An     *)
(* unroutable message is returned, logged, acked and reported as published.*)
ReturnedIsNotReported == \A m \in reported : outcome[m.chan][m.tag] # "returned"
=============================================================================
